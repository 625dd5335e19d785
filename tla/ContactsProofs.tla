---------------------------- MODULE ContactsProofs ----------------------------
(***************************************************************************)
(* The two parts of MCContacts.                                            *)
(*                                                                         *)
(* Conversations: ReportInv is an invariant of ContactThreads, for any     *)
(* number of threads, people and requests under way.  Every step changes   *)
(* the threads one by one, so the lemmas say what each handler makes of    *)
(* one thread.                                                             *)
(*                                                                         *)
(* Suggestions are decided as Decisions promises and with a second         *)
(* reviewer, for any suggestions, staff and edits.  S is the instance of   *)
(* Suggestions of MCContacts.  S!IInv is inductive: what a request has     *)
(* seen or passed is still true of its row when it acts.  Each step of the *)
(* suggestions is then one of Decisions, or one that Decisions does not    *)
(* see.                                                                    *)
(***************************************************************************)
EXTENDS MCContacts, TLAPS

-----------------------------------------------------------------------------
(* Conversations and reports *)

(***************************************************************************)
(* The rows and requests the handlers write by name have their types.      *)
(***************************************************************************)
LEMMA NamedRows ==
  /\ Blank \in Thread /\ Gone \in Thread /\ Idle \in Request
  /\ \A u \in Users, c \in {"REPORT", "OTHER"} : Started(u, c) \in Thread
<1>1. Blank \in Thread /\ Gone \in Thread /\ Idle \in Request
  BY LimitAssumption DEF Blank, Gone, Idle, Thread, Request
<1>2. ASSUME NEW u \in Users, NEW c \in {"REPORT", "OTHER"}
      PROVE  Started(u, c) \in Thread
  BY LimitAssumption DEF Started, Thread
<1>. QED BY <1>1, <1>2

(***************************************************************************)
(* At first there is no thread and no request.                             *)
(***************************************************************************)
LEMMA ThreadsInit == Init => ReportInv
<1> SUFFICES ASSUME Init PROVE ReportInv
  OBVIOUS
<1>1. TypeOK
  BY NamedRows DEF Init, TypeOK
<1>2. ASSUME NEW t \in Threads
      PROVE  ThreadInv(t) /\ ~LacksOutcome(t)
  <2>1. threads[t].state = "UNUSED" /\ threads[t].closings = 0
    BY DEF Init, Blank
  <2>. QED BY <2>1 DEF ThreadInv, LacksOutcome, IsReport, IsLive
<1>3. \A r \in Requests : RequestInv(r)
  BY DEF Init, RequestInv, Idle
<1>. QED BY <1>1, <1>2, <1>3 DEF ReportInv, HiddenPostsHaveNoOpenReport, OneReportEach

-----------------------------------------------------------------------------
(***************************************************************************)
(* What a step makes of a thread that exists: it keeps its author and the  *)
(* number of closing replies and lacks an outcome only if it did, and then *)
(* it is still open; or it is closed with an outcome that it lacked.       *)
(***************************************************************************)
Answered(t) ==
  /\ threads'[t].closings = threads[t].closings
  /\ LacksOutcome(t)' => /\ LacksOutcome(t) /\ threads'[t].status # "RESOLVED"
                         /\ threads'[t].author = threads[t].author

ClosedNow(t) ==
  /\ LacksOutcome(t) /\ ~LacksOutcome(t)'
  /\ threads'[t].closings = threads[t].closings + 1

Changed(t) ==
  \/ threads'[t] = threads[t]
  \/ threads'[t] = Gone
  \/ Answered(t)
  \/ ClosedNow(t)

\* All threads change in this way.
ThreadsChange == threads' \in [Threads -> Thread] /\ \A t \in Threads : Changed(t)

(***************************************************************************)
(* A thread changed in one of these ways keeps its part of the invariant,  *)
(* and lacks an outcome only if it did before.                             *)
(***************************************************************************)
LEMMA ChangedThread ==
  ASSUME ReportInv, NEW t \in Threads, Changed(t)
  PROVE  /\ ThreadInv(t)'
         /\ LacksOutcome(t)' => LacksOutcome(t) /\ threads'[t].author = threads[t].author
<1>1. threads[t] \in Thread /\ ThreadInv(t)
  BY DEF ReportInv, TypeOK
<1>2. CASE threads'[t] = threads[t]
  BY <1>1, <1>2 DEF ThreadInv, LacksOutcome, IsReport, IsLive
<1>3. CASE threads'[t] = Gone
  <2>1. threads'[t].state = "DELETED" /\ threads'[t].closings = 0
    BY <1>3 DEF Gone, Blank
  <2>. QED BY <2>1 DEF ThreadInv, LacksOutcome, IsReport, IsLive
<1>4. CASE Answered(t)
  BY <1>1, <1>4 DEF ThreadInv, Answered
<1>5. CASE ClosedNow(t)
  BY <1>1, <1>5 DEF ThreadInv, ClosedNow, Thread
<1>. QED BY <1>2, <1>3, <1>4, <1>5 DEF Changed

LEMMA ChangedThreads ==
  ASSUME ReportInv, ThreadsChange
  PROVE  /\ \A t \in Threads : ThreadInv(t)'
         /\ OneReportEach'
         /\ post' = post => HiddenPostsHaveNoOpenReport'
<1>1. ASSUME NEW t \in Threads
      PROVE  /\ ThreadInv(t)'
             /\ LacksOutcome(t)' => LacksOutcome(t) /\ threads'[t].author = threads[t].author
  BY ChangedThread DEF ThreadsChange
<1>. QED BY <1>1 DEF ReportInv, OneReportEach, HiddenPostsHaveNoOpenReport

\* A step that writes one row leaves the others alone.
LEMMA OneThread ==
  ASSUME ReportInv, NEW t \in Threads, NEW row \in Thread,
         threads' = [threads EXCEPT ![t] = row], Changed(t)
  PROVE  ThreadsChange
<1>1. threads \in [Threads -> Thread]
  BY DEF ReportInv, TypeOK
<1>2. \A s \in Threads \ {t} : Changed(s)
  BY <1>1 DEF Changed
<1>. QED BY <1>1, <1>2 DEF ThreadsChange

(***************************************************************************)
(* A handler that gives a report an outcome settles it; if it answers the  *)
(* reporter too, it counts the reply.                                      *)
(***************************************************************************)
LEMMA Counting ==
  ASSUME NEW x \in Thread, NEW y, y = [x EXCEPT !.unanswered = 0, !.closings = @ + 1]
  PROVE  y \in Thread /\ y.outcome = x.outcome /\ y.closings = x.closings + 1
<1> DEFINE z == [x EXCEPT !.unanswered = 0]
<1>1. z \in Thread /\ z.outcome = x.outcome /\ z.closings = x.closings
  BY LimitAssumption DEF Thread
<1>2. y = [z EXCEPT !.closings = x.closings + 1]
  OBVIOUS
<1> HIDE DEF z
<1>3. y \in Thread /\ y.outcome = z.outcome /\ y.closings = z.closings + 1
  BY <1>1, <1>2 DEF Thread
<1>. QED BY <1>1, <1>3

LEMMA Settling ==
  ASSUME ReportInv, NEW t \in Threads, NEW o \in {"ACTION_TAKEN", "NO_ACTION", "WITHDRAWN"}
  PROVE  /\ Settled(t, o) \in Thread /\ Settled(t, o).outcome = o
         /\ Settled(t, o).closings = threads[t].closings
         /\ Closed(t, o) \in Thread /\ Closed(t, o).outcome = o
         /\ Closed(t, o).closings = threads[t].closings + 1
<1>1. threads[t] \in Thread
  BY DEF ReportInv, TypeOK
<1>2. /\ Settled(t, o) \in Thread /\ Settled(t, o).outcome = o
      /\ Settled(t, o).closings = threads[t].closings
  BY <1>1 DEF Settled, Thread
<1>3. /\ Closed(t, o) \in Thread /\ Closed(t, o).outcome = o
      /\ Closed(t, o).closings = threads[t].closings + 1
  BY <1>2, Counting DEF Closed
<1>. QED BY <1>2, <1>3

(***************************************************************************)
(* A thread that begins: the author has no other report without an         *)
(* outcome, since a report that lacks one is open, and report looked for   *)
(* open ones under the author's lock.                                      *)
(***************************************************************************)
LEMMA BeginningThread ==
  ASSUME ReportInv, NEW t \in Threads, NEW u \in Users, NEW c \in {"REPORT", "OTHER"},
         threads' = [threads EXCEPT ![t] = Started(u, c)],
         c = "REPORT" => ~HasReported(u) /\ post = "PUBLISHED",
         post' = post
  PROVE  /\ threads' \in [Threads -> Thread]
         /\ \A s \in Threads : ThreadInv(s)'
         /\ OneReportEach' /\ HiddenPostsHaveNoOpenReport'
<1>1. threads \in [Threads -> Thread] /\ threads' \in [Threads -> Thread]
  BY NamedRows DEF ReportInv, TypeOK
<1>2. /\ threads'[t].closings = 0 /\ threads'[t].status = "AWAITING_STAFF"
      /\ threads'[t].author = u /\ threads'[t].category = c
  BY <1>1 DEF Started
<1>3. \A s \in Threads \ {t} : /\ threads'[s] = threads[s]
                               /\ LacksOutcome(s)' <=> LacksOutcome(s)
  BY <1>1 DEF LacksOutcome, IsReport, IsLive
<1>4. ASSUME NEW s \in Threads PROVE ThreadInv(s)'
  <2>1. CASE s = t
    BY <1>2, <2>1 DEF ThreadInv
  <2>2. CASE s # t
    BY <1>3, <2>2 DEF ReportInv, ThreadInv
  <2>. QED BY <2>1, <2>2
<1>5. LacksOutcome(t)' => c = "REPORT"
  BY <1>2 DEF LacksOutcome, IsReport
<1>6. c = "REPORT" => \A s \in Threads : ~(LacksOutcome(s) /\ threads[s].author = u)
  BY DEF HasReported, ThreadsOf, IsOpen, ReportInv, ThreadInv, LacksOutcome, IsReport
<1>7. OneReportEach'
  BY <1>2, <1>3, <1>5, <1>6 DEF ReportInv, OneReportEach
<1>8. HiddenPostsHaveNoOpenReport'
  BY <1>3, <1>5 DEF ReportInv, HiddenPostsHaveNoOpenReport
<1>. QED BY <1>1, <1>4, <1>7, <1>8


-----------------------------------------------------------------------------
(***************************************************************************)
(* A message of the author, and a reply or a resolution by the staff,      *)
(* write one row and leave outcomes alone.  A staff reply may reopen a     *)
(* closed report: it has its outcome, so nothing above is disturbed.       *)
(***************************************************************************)
LEMMA OneMessage ==
  ASSUME ReportInv, NEW t \in Threads, NEW s \in {"AWAITING_STAFF", "AWAITING_USER"},
         NEW n \in 0..MaxUnanswered, threads' = [threads EXCEPT ![t] = WithMessage(t, s, n)]
  PROVE  ThreadsChange
<1> DEFINE row == WithMessage(t, s, n)
           read == [threads[t] EXCEPT !.status = s]
<1>1. threads \in [Threads -> Thread]
  BY DEF ReportInv, TypeOK
<1>2. /\ read \in Thread /\ read.closings = threads[t].closings
      /\ read.author = threads[t].author /\ read.outcome = threads[t].outcome
      /\ read.status = s
      /\ read.state = threads[t].state /\ read.category = threads[t].category
  BY <1>1 DEF Thread
<1>3. row = [read EXCEPT !.unanswered = n]
  BY DEF WithMessage
<1> HIDE DEF read
<1>4. /\ row \in Thread /\ row.closings = read.closings /\ row.author = read.author
      /\ row.outcome = read.outcome /\ row.status = read.status
      /\ row.state = read.state /\ row.category = read.category
  BY <1>2, <1>3 DEF Thread
<1> HIDE DEF row
<1>5. threads'[t] = row
  BY <1>1 DEF row
<1>6. Answered(t)
  BY <1>2, <1>4, <1>5 DEF Answered, LacksOutcome, IsReport, IsLive
<1>. QED BY <1>4, <1>6, OneThread DEF Changed, row

LEMMA MessageKept ==
  ASSUME ReportInv, NEW t \in Threads, UserMessage(t)
  PROVE  ThreadsChange
<1>1. threads[t].unanswered + 1 \in 0..MaxUnanswered
  BY LimitAssumption DEF ReportInv, TypeOK, UserMessage, CanSend, Thread
<1>. QED BY <1>1, OneMessage DEF UserMessage

LEMMA ReplyKept ==
  ASSUME ReportInv, NEW r \in Requests, StaffMessage(r)
  PROVE  ThreadsChange
<1>1. PICK t \in Threads : t = requests[r].about
  BY DEF ReportInv, RequestInv, StaffMessage
<1>2. CASE ~IsLive(t)
  BY <1>1, <1>2 DEF StaffMessage, ThreadsChange, Changed, ReportInv, TypeOK
<1>3. CASE IsLive(t)
  <2>1. threads' = [threads EXCEPT ![t] = WithMessage(t, "AWAITING_USER", 0)]
    BY <1>1, <1>3 DEF StaffMessage
  <2>2. 0 \in 0..MaxUnanswered
    BY LimitAssumption
  <2>. QED BY <2>1, <2>2, OneMessage
<1>. QED BY <1>2, <1>3

LEMMA ResolveKept ==
  ASSUME ReportInv, NEW t \in Threads, Resolve(t)
  PROVE  ThreadsChange
<1> DEFINE row == [threads[t] EXCEPT !.status = "RESOLVED"]
<1>1. threads \in [Threads -> Thread] /\ threads' = [threads EXCEPT ![t] = row]
  BY DEF ReportInv, TypeOK, Resolve
<1>2. /\ row \in Thread /\ row.closings = threads[t].closings
      /\ row.category = threads[t].category /\ threads[t].category # "REPORT"
  BY <1>1 DEF Thread, Resolve, MayResolve, IsReport
<1> HIDE DEF row
<1>3. Answered(t)
  BY <1>1, <1>2 DEF Answered, LacksOutcome, IsReport
<1>. QED BY <1>1, <1>2, <1>3, OneThread DEF Changed

LEMMA DeleteKept ==
  ASSUME ReportInv, NEW t \in Threads, Delete(t)
  PROVE  ThreadsChange
<1>1. threads \in [Threads -> Thread] /\ threads' = [threads EXCEPT ![t] = Gone]
  BY DEF ReportInv, TypeOK, Delete
<1>. QED BY <1>1, NamedRows, OneThread DEF Changed

-----------------------------------------------------------------------------
(***************************************************************************)
(* closeReport closes the thread it read only if it lacks an outcome       *)
(* still; the withdrawal and the rejection leave no report without one.    *)
(***************************************************************************)
LEMMA CloseKept ==
  ASSUME ReportInv, NEW r \in Requests, NEW o \in {"ACTION_TAKEN", "NO_ACTION"},
         CloseReport(r, o)
  PROVE  ThreadsChange
<1>1. PICK t \in Threads : t = requests[r].about
  BY DEF ReportInv, RequestInv, CloseReport
<1>4. threads \in [Threads -> Thread]
  BY DEF ReportInv, TypeOK
<1>2. CASE ~MayBeClosed(t)
  BY <1>1, <1>2, <1>4 DEF CloseReport, RollBack, ThreadsChange, Changed
<1>3. CASE MayBeClosed(t)
  <2>1. threads' = [threads EXCEPT ![t] = Closed(t, o)]
    BY <1>1, <1>3 DEF CloseReport
  <2>2. threads'[t] = Closed(t, o)
    BY <1>4, <2>1
  <2>3. ClosedNow(t)
    BY <1>3, <2>2, Settling DEF ClosedNow, MayBeClosed, LacksOutcome
  <2>. QED BY <2>1, <2>3, Settling, OneThread DEF Changed
<1>. QED BY <1>2, <1>3

LEMMA WithdrawKept ==
  ASSUME ReportInv, Withdraw
  PROVE  ThreadsChange /\ HiddenPostsHaveNoOpenReport'
<1>1. ASSUME NEW t \in Threads
      PROVE  threads'[t] \in Thread /\ Changed(t) /\ ~LacksOutcome(t)'
  <2>1. threads[t] \in Thread /\ ThreadInv(t)
    BY DEF ReportInv, TypeOK
  <2>2. CASE ClosedOnWithdrawal(t)
    <3>1. threads'[t] = Settled(t, "WITHDRAWN")
      BY <2>2 DEF Withdraw
    <3>. QED BY <3>1, Settling DEF Changed, Answered, LacksOutcome
  <2>3. CASE ~ClosedOnWithdrawal(t)
    <3>1. threads'[t] = threads[t]
      BY <2>3 DEF Withdraw
    <3>. QED BY <2>1, <2>3, <3>1 DEF Changed, ClosedOnWithdrawal, ThreadInv, LacksOutcome,
                                     IsReport, IsLive
  <2>. QED BY <2>2, <2>3
<1>2. threads' \in [Threads -> Thread]
  BY <1>1 DEF Withdraw
<1>. QED BY <1>1, <1>2 DEF ThreadsChange, HiddenPostsHaveNoOpenReport

LEMMA RejectKept ==
  ASSUME ReportInv, Reject
  PROVE  ThreadsChange /\ HiddenPostsHaveNoOpenReport'
<1>1. ASSUME NEW t \in Threads
      PROVE  threads'[t] \in Thread /\ Changed(t) /\ ~LacksOutcome(t)'
  <2>1. threads[t] \in Thread
    BY DEF ReportInv, TypeOK
  <2>2. CASE MayBeClosed(t)
    <3>1. threads'[t] = Closed(t, "ACTION_TAKEN")
      BY <2>2 DEF Reject
    <3>. QED BY <2>2, <3>1, Settling DEF Changed, ClosedNow, MayBeClosed, LacksOutcome
  <2>3. CASE ~MayBeClosed(t)
    <3>1. threads'[t] = threads[t]
      BY <2>3 DEF Reject
    <3>. QED BY <2>1, <2>3, <3>1 DEF Changed, MayBeClosed, LacksOutcome, IsReport, IsLive
  <2>. QED BY <2>2, <2>3
<1>2. threads' \in [Threads -> Thread]
  BY <1>1 DEF Reject
<1>. QED BY <1>1, <1>2 DEF ThreadsChange, HiddenPostsHaveNoOpenReport


-----------------------------------------------------------------------------
(***************************************************************************)
(* Requests and disputes: what a request read stays what it says.          *)
(***************************************************************************)
RestInv ==
  /\ post \in {"PUBLISHED", "PENDING", "WITHDRAWN", "REJECTED"}
  /\ dispute \in [state : {"NONE", "OPEN", "CANCELLED"}, by : Users \cup {Nobody}]
  /\ requests \in [Requests -> Request]
  /\ \A r \in Requests : RequestInv(r)

LEMMA OneRequest ==
  ASSUME ReportInv, NEW r \in Requests, NEW row \in Request,
         requests' = [requests EXCEPT ![r] = row],
         row.at = "send" => row.about \in Users,
         row.at \in {"close", "reply"} => row.about \in Threads
  PROVE  requests' \in [Requests -> Request] /\ \A q \in Requests : RequestInv(q)'
BY DEF ReportInv, TypeOK, RequestInv

LEMMA FinishKept ==
  ASSUME ReportInv, NEW r \in Requests, Finish(r)
  PROVE  requests' \in [Requests -> Request] /\ \A q \in Requests : RequestInv(q)'
<1>1. Idle \in Request /\ Idle.at = "idle"
  BY NamedRows DEF Idle
<1>. QED BY <1>1, OneRequest DEF Finish

LEMMA RestKept == ReportInv /\ [Next]_vars => RestInv'
<1> SUFFICES ASSUME ReportInv, [Next]_vars PROVE RestInv'
  OBVIOUS
<1> USE DEF RestInv
<1>1. /\ post \in {"PUBLISHED", "PENDING", "WITHDRAWN", "REJECTED"}
      /\ dispute \in [state : {"NONE", "OPEN", "CANCELLED"}, by : Users \cup {Nobody}]
      /\ requests \in [Requests -> Request]
      /\ \A r \in Requests : RequestInv(r)
  BY DEF ReportInv, TypeOK
<1>2. ASSUME requests' = requests
      PROVE  requests' \in [Requests -> Request] /\ \A r \in Requests : RequestInv(r)'
  BY <1>1, <1>2 DEF RequestInv
<1>3. ASSUME NEW r \in Requests, NEW u \in Users, CountOpen(r, u) PROVE RestInv'
  <2>1. [at |-> "send", about |-> u] \in Request
    BY DEF Request
  <2>. QED BY <1>1, <1>3, <2>1, OneRequest DEF CountOpen
<1>4. ASSUME NEW r \in Requests, NEW t \in Threads, Send(r, t) PROVE RestInv'
  BY <1>1, <1>4, FinishKept DEF Send
<1>5. ASSUME NEW t \in Threads, UserMessage(t) \/ Resolve(t) \/ Delete(t) PROVE RestInv'
  BY <1>1, <1>2, <1>5 DEF UserMessage, Resolve, Delete
<1>6. ASSUME NEW u \in Users, NEW t \in Threads, NEW disputes \in BOOLEAN,
             Report(u, t, disputes)
      PROVE  RestInv'
  BY <1>1, <1>2, <1>6 DEF Report
<1>7. CASE Withdraw \/ Reject \/ \E status \in {"PUBLISHED", "PENDING"} : DecidePost(status)
  BY <1>1, <1>2, <1>7 DEF Withdraw, Reject, DecidePost
<1>8. CASE CancelDispute
  BY <1>1, <1>2, <1>8 DEF CancelDispute
<1>9. ASSUME NEW r \in Requests, NEW t \in Threads, ReadOpenReport(r, t) \/ ReadThread(r, t)
      PROVE  RestInv'
  <2>1. [at |-> "close", about |-> t] \in Request /\ [at |-> "reply", about |-> t] \in Request
    BY DEF Request
  <2>2. UNCHANGED <<post, dispute>>
    BY <1>9 DEF ReadOpenReport, ReadThread
  <2>. QED BY <1>1, <1>9, <2>1, <2>2, OneRequest DEF ReadOpenReport, ReadThread
<1>10. ASSUME NEW r \in Requests, NEW o \in {"ACTION_TAKEN", "NO_ACTION"}, CloseReport(r, o)
       PROVE  RestInv'
  <2>1. dispute' = dispute \/ dispute' = [dispute EXCEPT !.state = "CANCELLED"]
    BY <1>10 DEF CloseReport, DisputeAfter, RollBack
  <2>. QED BY <1>1, <1>10, <2>1, FinishKept DEF CloseReport
<1>11. ASSUME NEW r \in Requests, StaffMessage(r) PROVE RestInv'
  BY <1>1, <1>11, FinishKept DEF StaffMessage
<1>12. CASE UNCHANGED vars
  BY <1>1, <1>2, <1>12 DEF vars
<1>. QED BY <1>3, <1>4, <1>5, <1>6, <1>7, <1>8, <1>9, <1>10, <1>11, <1>12
         DEF Next, UserStep, PostStep, StaffStep


-----------------------------------------------------------------------------
(***************************************************************************)
(* What every step keeps of the threads.                                   *)
(***************************************************************************)
Kept ==
  /\ threads' \in [Threads -> Thread]
  /\ \A t \in Threads : ThreadInv(t)'
  /\ HiddenPostsHaveNoOpenReport' /\ OneReportEach'

LEMMA ThreadsKept == ReportInv /\ [Next]_vars => Kept
<1> SUFFICES ASSUME ReportInv, [Next]_vars PROVE Kept
  OBVIOUS
<1>1. ASSUME ThreadsChange, post' = post PROVE Kept
  BY <1>1, ChangedThreads DEF Kept, ThreadsChange
<1>2. ASSUME threads' = threads PROVE ThreadsChange
  BY <1>2 DEF ThreadsChange, Changed, ReportInv, TypeOK
<1>3. ASSUME NEW r \in Requests, NEW u \in Users, CountOpen(r, u) PROVE Kept
  BY <1>1, <1>2, <1>3 DEF CountOpen
<1>4. ASSUME NEW r \in Requests, NEW t \in Threads, Send(r, t) PROVE Kept
  <2>1. requests[r].about \in Users
    BY <1>4 DEF Send, ReportInv, RequestInv
  <2>. QED BY <1>4, <2>1, BeginningThread DEF Send, Kept
<1>5. ASSUME NEW t \in Threads, UserMessage(t) PROVE Kept
  BY <1>1, <1>5, MessageKept DEF UserMessage
<1>6. ASSUME NEW u \in Users, NEW t \in Threads, NEW disputes \in BOOLEAN,
             Report(u, t, disputes)
      PROVE  Kept
  BY <1>6, BeginningThread DEF Report, Kept
<1>7. CASE Withdraw
  BY <1>7, WithdrawKept, ChangedThreads DEF Kept, ThreadsChange
<1>8. CASE Reject
  BY <1>8, RejectKept, ChangedThreads DEF Kept, ThreadsChange
<1>9. ASSUME NEW status \in {"PUBLISHED", "PENDING"}, DecidePost(status) PROVE Kept
  <2>1. ThreadsChange
    BY <1>2, <1>9 DEF DecidePost
  <2>2. HiddenPostsHaveNoOpenReport'
    BY <1>9 DEF DecidePost, HiddenPostsHaveNoOpenReport
  <2>. QED BY <2>1, <2>2, ChangedThreads DEF Kept, ThreadsChange
<1>10. CASE CancelDispute
  BY <1>1, <1>2, <1>10 DEF CancelDispute
<1>11. ASSUME NEW r \in Requests, NEW t \in Threads, ReadOpenReport(r, t) \/ ReadThread(r, t)
       PROVE  Kept
  BY <1>1, <1>2, <1>11 DEF ReadOpenReport, ReadThread
<1>12. ASSUME NEW r \in Requests, NEW o \in {"ACTION_TAKEN", "NO_ACTION"}, CloseReport(r, o)
       PROVE  Kept
  BY <1>1, <1>12, CloseKept DEF CloseReport
<1>13. ASSUME NEW r \in Requests, StaffMessage(r) PROVE Kept
  BY <1>1, <1>13, ReplyKept DEF StaffMessage
<1>14. ASSUME NEW t \in Threads, Resolve(t) PROVE Kept
  BY <1>1, <1>14, ResolveKept DEF Resolve
<1>15. ASSUME NEW t \in Threads, Delete(t) PROVE Kept
  BY <1>1, <1>15, DeleteKept DEF Delete
<1>16. CASE UNCHANGED vars
  BY <1>1, <1>2, <1>16 DEF vars
<1>. QED BY <1>3, <1>4, <1>5, <1>6, <1>7, <1>8, <1>9, <1>10, <1>11, <1>12, <1>13, <1>14, <1>15,
            <1>16 DEF Next, UserStep, PostStep, StaffStep

-----------------------------------------------------------------------------
(***************************************************************************)
(* ReportInv is an invariant: whatever the handlers read before their      *)
(* transaction, a report that lacks an outcome is open.                    *)
(***************************************************************************)
THEOREM ReportsInvariant == Spec => []ReportInv
<1>1. ReportInv /\ [Next]_vars => ReportInv'
  BY ThreadsKept, RestKept DEF Kept, RestInv, ReportInv, TypeOK
<1>. QED BY ThreadsInit, <1>1, PTL DEF Spec

(***************************************************************************)
(* No reporter is sent a second closing reply (reportedPost.ts:32).        *)
(***************************************************************************)
THEOREM RepliesOnce == Spec => []OneClosingReply
<1>1. ReportInv => OneClosingReply
  BY DEF ReportInv, ThreadInv, OneClosingReply
<1>. QED BY <1>1, ReportsInvariant, PTL

(***************************************************************************)
(* A withdrawal (experience.ts:507) and a rejection                        *)
(* (admin/experience.ts:255) reach every report about the post.            *)
(***************************************************************************)
THEOREM HidingClosesReports == Spec => []HiddenPostsHaveNoOpenReport
<1>1. ReportInv => HiddenPostsHaveNoOpenReport
  BY DEF ReportInv
<1>. QED BY <1>1, ReportsInvariant, PTL

(***************************************************************************)
(* A reporter has one report without an outcome (experience.ts:357).       *)
(***************************************************************************)
THEOREM ReportsOnce == Spec => []OneReportEach
<1>1. ReportInv => OneReportEach
  BY DEF ReportInv
<1>. QED BY <1>1, ReportsInvariant, PTL

(***************************************************************************)
(* A moderator who closes a report too late leaves the dispute alone       *)
(* (admin/contact.ts:85): of all steps but CancelDispute only a            *)
(* CloseReport that gives a report its outcome ends a dispute.             *)
(***************************************************************************)
THEOREM DisputesEndWithTheirReports == Spec => DisputeEndsWithItsReport
<1> DEFINE Ends == dispute.state = "OPEN" /\ dispute'.state = "CANCELLED" /\ ~CancelDispute
           WithItsReport == \E t \in Threads :
             /\ LacksOutcome(t) /\ threads'[t].outcome = "NO_ACTION"
             /\ threads[t].author = dispute.by
<1>1. ASSUME ReportInv, Next, Ends PROVE WithItsReport
  <2>1. ~UNCHANGED dispute
    BY <1>1
  <2>2. ASSUME NEW u \in Users, NEW t \in Threads, NEW d \in BOOLEAN, Report(u, t, d)
        PROVE  FALSE
    BY <1>1, <2>1, <2>2 DEF Report
  <2>3. PICK r \in Requests, o \in {"ACTION_TAKEN", "NO_ACTION"} : CloseReport(r, o)
    BY <1>1, <2>1, <2>2 DEF Next, UserStep, PostStep, StaffStep, CountOpen, Send, UserMessage,
       Withdraw, Reject, DecidePost, ReadOpenReport, ReadThread, StaffMessage, Resolve, Delete
  <2>4. PICK t \in Threads : t = requests[r].about
    BY <1>1, <2>3 DEF ReportInv, RequestInv, CloseReport
  <2>5. /\ MayBeClosed(t) /\ dispute' = DisputeAfter(t, o)
        /\ threads' = [threads EXCEPT ![t] = Closed(t, o)]
    BY <2>1, <2>3, <2>4 DEF CloseReport, RollBack
  <2>6. o = "NO_ACTION" /\ dispute.by = threads[t].author
    BY <2>1, <2>5 DEF DisputeAfter
  <2>7. threads'[t] = Closed(t, o)
    BY <1>1, <2>5 DEF ReportInv, TypeOK
  <2>8. threads'[t].outcome = "NO_ACTION"
    BY <1>1, <2>6, <2>7, Settling
  <2>. QED BY <2>5, <2>6, <2>8 DEF MayBeClosed
<1>2. ReportInv /\ [Next]_vars => [Ends => WithItsReport]_vars
  BY <1>1
<1>. QED BY <1>2, ReportsInvariant, PTL DEF Spec, DisputeEndsWithItsReport

-----------------------------------------------------------------------------
(* Suggestions *)

(***************************************************************************)
(* A row is moved without becoming another one, and without leaving what   *)
(* is final.                                                               *)
(***************************************************************************)
Keeps(s) ==
  S!IsUsed(s) =>
    /\ suggestions'[s].kind = suggestions[s].kind
    /\ suggestions'[s].author = suggestions[s].author
    /\ suggestions'[s].edit = suggestions[s].edit
    /\ S!IsEdit(s) /\ suggestions[s].status = "APPROVED" => suggestions'[s].status = "APPROVED"

LEMMA RequestKept ==
  ASSUME NEW m \in Moderators, S!RequestInv(m), decisions'[m] = decisions[m],
         \A s \in Ids : Keeps(s),
         \A s \in Ids : decisions[m].at = "applying" /\ decisions[m].id = s => S!IsOpen(s)'
  PROVE  S!RequestInv(m)'
<1> SUFFICES ASSUME decisions[m].at # "idle" PROVE S!RequestInv(m)'
  BY DEF S!RequestInv
<1>1. PICK s \in Ids : s = decisions[m].id
  BY DEF S!RequestInv
<1>2. Keeps(s) /\ S!IsUsed(s)
  BY <1>1 DEF S!RequestInv
<1>. QED BY <1>1, <1>2 DEF S!RequestInv, Keeps, S!IsUsed, S!IsEdit, S!CanReview

LEMMA Idles == ASSUME S!ConstantsDiffer PROVE S!Idle \in S!Request /\ S!Idle.at = "idle"
BY DEF S!Idle, S!Request, S!Statuses, S!OpenStatuses, S!ConstantsDiffer

LEMMA InitInvariant == ASSUME S!ConstantsDiffer PROVE S!Init => S!IInv
<1> SUFFICES ASSUME S!Init PROVE S!IInv
  OBVIOUS
<1>1. S!Unused \in S!Suggestion
  BY DEF S!Unused, S!Suggestion, S!Statuses, S!OpenStatuses
<1>2. S!TypeOK
  BY <1>1, Idles DEF S!Init, S!TypeOK, S!Service
<1>3. \A s \in Ids : S!RowInv(s) /\ suggestions[s].status = "PENDING"
  BY DEF S!Init, S!RowInv, S!Unused, S!IsEdit, S!IsProposal
<1>4. \A m \in Moderators : decisions[m].at = "idle"
  BY Idles DEF S!Init
<1>. QED BY <1>2, <1>3, <1>4 DEF S!IInv, S!RequestInv, S!OneWriter, S!SecondReviewer

-----------------------------------------------------------------------------
(* A row is moved *)

(***************************************************************************)
(* A row that nobody holds is moved, and the request that moves it, if a   *)
(* moderator does, is done.                                                *)
(***************************************************************************)
LEMMA RowMoved ==
  ASSUME S!IInv, S!ConstantsDiffer, NEW s \in Ids, S!IsUsed(s), ~S!IsLocked(s),
         NEW row \in S!Suggestion,
         suggestions' = [suggestions EXCEPT ![s] = row], UNCHANGED applied, service' \in S!Service,
         decisions' \in [Moderators -> S!Request],
         \A n \in Moderators : decisions'[n] \in {decisions[n], S!Idle},
         row.kind = suggestions[s].kind, row.author = suggestions[s].author,
         row.edit = suggestions[s].edit,
         S!IsEdit(s) => row.status # "APPROVED" /\ suggestions[s].status # "APPROVED",
         row.status = "APPROVED" => row.author # row.assignee \/ row.assignee \in Admins
  PROVE  S!IInv' /\ \E d \in {"OPEN", "APPROVED", "REJECTED", "WITHDRAWN"} : S!Decided!Decide(s, d)
<1>1. suggestions'[s] = row /\ \A o \in Ids \ {s} : suggestions'[o] = suggestions[o]
  BY DEF S!IInv, S!TypeOK
<1>2. S!TypeOK'
  BY DEF S!IInv, S!TypeOK
<1>3. \A o \in Ids : S!RowInv(o)'
  BY <1>1 DEF S!IInv, S!RowInv, S!IsEdit, S!IsProposal
<1>4. ASSUME NEW n \in Moderators PROVE S!RequestInv(n)'
  <2>1. \A o \in Ids : Keeps(o)
    BY <1>1 DEF Keeps
  <2>2. S!RequestInv(n) /\ (decisions[n].at = "applying" => decisions[n].id # s)
    BY DEF S!IInv, S!IsLocked
  <2>3. \A o \in Ids : decisions[n].at = "applying" /\ decisions[n].id = o => S!IsOpen(o)'
    BY <1>1, <2>2 DEF S!RequestInv, S!IsOpen
  <2>4. CASE decisions'[n] = S!Idle
    BY <2>4, Idles DEF S!RequestInv
  <2>. QED BY <2>1, <2>2, <2>3, <2>4, RequestKept
<1>5. S!OneWriter'
  BY Idles DEF S!IInv, S!OneWriter
<1>6. S!SecondReviewer'
  BY <1>1 DEF S!IInv, S!SecondReviewer, S!IsEdit
<1>7. PICK d \in {"OPEN", "APPROVED", "REJECTED", "WITHDRAWN"} :
        d = IF row.status \in S!OpenStatuses THEN "OPEN" ELSE row.status
  BY DEF S!Suggestion, S!Statuses
<1>8. S!Decided!Decide(s, d)
  <2>1. \A o \in Ids : S!Decision(o)' = IF o = s THEN d ELSE S!Decision(o)
    BY <1>1, <1>7 DEF S!Decision, S!IsUsed, S!IsOpen
  <2>2. {o \in Ids : S!IsEdit(o)}' = {o \in Ids : S!IsEdit(o)}
    BY <1>1 DEF S!IsEdit
  <2>3. S!Decision(s) # "NONE" /\ s \notin applied /\ (d = "APPROVED" => ~S!IsEdit(s))
    BY <1>7 DEF S!Decision, S!IsOpen, S!OpenStatuses, S!IInv, S!RowInv, S!TypeOK, S!Suggestion,
       S!Statuses
  <2>. QED BY <2>1, <2>2, <2>3 DEF S!Decided!Decide
<1>. QED BY <1>2, <1>3, <1>4, <1>5, <1>6, <1>8 DEF S!IInv

(***************************************************************************)
(* A moderator's transaction: whoever approves by it has been checked.     *)
(***************************************************************************)
LEMMA Transitioned ==
  ASSUME S!IInv, S!ConstantsDiffer, NEW m \in Moderators, NEW s \in Ids, s = decisions[m].id,
         NEW from, NEW status \in S!Statuses, S!Transition(m, from, status),
         UNCHANGED applied, service' \in S!Service,
         S!IsEdit(s) => status # "APPROVED" /\ suggestions[s].status # "APPROVED",
         status = "APPROVED" => S!CanReview(s, m, FALSE)
  PROVE  S!IInv' /\ \E d \in {"OPEN", "APPROVED", "REJECTED", "WITHDRAWN"} : S!Decided!Decide(s, d)
<1> DEFINE assignee == IF status = "PENDING" THEN Nobody ELSE m
           row == [suggestions[s] EXCEPT !.status = status, !.assignee = assignee]
<1>1. /\ S!IsUsed(s) /\ ~S!IsLocked(s) /\ suggestions[s] \in S!Suggestion
      /\ suggestions' = [suggestions EXCEPT ![s] = row]
      /\ decisions' = [decisions EXCEPT ![m] = S!Idle]
  BY DEF S!Transition, S!Matches, S!Moved, S!Finish, S!IInv, S!TypeOK
<1>2. assignee \in Moderators \cup {Nobody} /\ (status = "APPROVED" => assignee = m)
  OBVIOUS
<1>. HIDE DEF assignee
<1>3. /\ row \in S!Suggestion
      /\ row.kind = suggestions[s].kind /\ row.author = suggestions[s].author
      /\ row.edit = suggestions[s].edit /\ row.status = status /\ row.assignee = assignee
  BY <1>1, <1>2 DEF S!Suggestion
<1>. HIDE DEF row
<1>4. /\ decisions' \in [Moderators -> S!Request]
      /\ \A n \in Moderators : decisions'[n] \in {decisions[n], S!Idle}
  BY <1>1, Idles DEF S!IInv, S!TypeOK
<1>5. row.status = "APPROVED" => row.author # row.assignee \/ row.assignee \in Admins
  BY <1>2, <1>3 DEF S!CanReview
<1>. QED BY <1>1, <1>3, <1>4, <1>5, RowMoved

LEMMA Updated ==
  ASSUME S!IInv, S!ConstantsDiffer, NEW m \in Moderators, S!Update(m)
  PROVE  S!IInv' /\ S!Decided!Next
<1>1. PICK s \in Ids, seen \in S!Statuses, status \in S!Statuses :
        s = decisions[m].id /\ seen = decisions[m].status /\ status = decisions[m].target
  BY DEF S!Update, S!IInv, S!TypeOK, S!Request, S!RequestInv
<1>2. S!Transition(m, {seen}, status) /\ suggestions[s].status = seen
  BY <1>1 DEF S!Update, S!Transition, S!Matches
<1>3. /\ S!IsEdit(s) => status # "APPROVED" /\ suggestions[s].status # "APPROVED"
      /\ status = "APPROVED" => S!CanReview(s, m, FALSE)
  BY <1>1, <1>2 DEF S!Update, S!IInv, S!RequestInv
<1>4. S!IInv' /\ \E d \in {"OPEN", "APPROVED", "REJECTED", "WITHDRAWN"} : S!Decided!Decide(s, d)
  BY <1>1, <1>2, <1>3, Transitioned DEF S!Update, S!IInv, S!TypeOK
<1>. QED BY <1>4 DEF S!Decided!Next

LEMMA TakenOrRejected ==
  ASSUME S!IInv, S!ConstantsDiffer, NEW m \in Moderators,
         S!Take(m) \/ S!RejectEdit(m) \/ S!DismissProposal(m)
  PROVE  S!IInv' /\ S!Decided!Next
<1>1. PICK s \in Ids : s = decisions[m].id
  BY DEF S!Take, S!RejectEdit, S!DismissProposal, S!CanSettleEdit, S!CanSettleProposal, S!IInv,
         S!RequestInv
<1>2. PICK status \in {"UNDER_REVIEW", "REJECTED"} :
        S!Transition(m, S!OpenStatuses, status) /\ UNCHANGED <<service, applied>>
  BY DEF S!Take, S!RejectEdit, S!DismissProposal
<1>3. suggestions[s].status # "APPROVED" /\ status \in S!Statuses
  BY <1>1, <1>2 DEF S!Transition, S!Matches, S!OpenStatuses, S!Statuses
<1>4. S!IInv' /\ \E d \in {"OPEN", "APPROVED", "REJECTED", "WITHDRAWN"} : S!Decided!Decide(s, d)
  BY <1>1, <1>2, <1>3, Transitioned DEF S!IInv, S!TypeOK
<1>. QED BY <1>4 DEF S!Decided!Next
LEMMA ProposalApplied ==
  ASSUME S!IInv, S!ConstantsDiffer, NEW m \in Moderators, NEW ticked \in BOOLEAN,
         S!ApplyProposal(m, ticked)
  PROVE  S!IInv' /\ S!Decided!Next
<1>1. PICK s \in Ids : s = decisions[m].id /\ suggestions[s] \in S!Suggestion
  BY DEF S!ApplyProposal, S!CanSettleProposal, S!IInv, S!TypeOK, S!RequestInv
<1>2. /\ S!Transition(m, S!OpenStatuses, "APPROVED") /\ UNCHANGED applied
      /\ S!IsProposal(s) /\ suggestions[s].author = Bot
  BY <1>1 DEF S!ApplyProposal, S!CanSettleProposal, S!IInv, S!RowInv
<1>3. /\ S!CanReview(s, m, FALSE) /\ "APPROVED" \in S!Statuses
      /\ ~S!IsEdit(s)
  BY <1>2 DEF S!CanReview, S!ConstantsDiffer, S!Statuses, S!IsProposal, S!IsEdit
<1>4. service' \in S!Service
  <2>1. service \in S!Service /\ suggestions[s].edit \in ListEdits \cup {S!NoEdit}
    BY <1>1 DEF S!IInv, S!TypeOK, S!Suggestion
  <2>2. CASE ~ticked \/ suggestions[s].edit = S!NoEdit
    BY <1>1, <2>1, <2>2 DEF S!ApplyProposal
  <2>3. CASE ticked /\ suggestions[s].edit # S!NoEdit
    <3>1. suggestions[s].edit.entry \in Entries
      BY <2>1, <2>3 DEF S!ConstantsDiffer, S!Edit
    <3>2. S!After(service.attributes, suggestions[s].edit) \in SUBSET Entries
      BY <2>1, <3>1 DEF S!After, S!Service
    <3>. QED BY <1>1, <2>1, <2>3, <3>2 DEF S!ApplyProposal, S!Service
  <2>. QED BY <2>2, <2>3
<1>5. S!IInv' /\ \E d \in {"OPEN", "APPROVED", "REJECTED", "WITHDRAWN"} : S!Decided!Decide(s, d)
  BY <1>1, <1>2, <1>3, <1>4, Transitioned
<1>. QED BY <1>5 DEF S!Decided!Next

LEMMA Released ==
  ASSUME S!IInv, S!ConstantsDiffer, NEW m \in Moderators, S!Release(m)
  PROVE  S!IInv' /\ S!Decided!Next
<1>1. PICK s \in Ids : s = decisions[m].id /\ suggestions[s] \in S!Suggestion
  BY DEF S!Release, S!IInv, S!TypeOK, S!RequestInv
<1> DEFINE row == [suggestions[s] EXCEPT !.assignee = Nobody]
<1>2. /\ S!IsUsed(s) /\ ~S!IsLocked(s) /\ suggestions[s].status \in S!OpenStatuses
      /\ suggestions' = [suggestions EXCEPT ![s] = row]
      /\ decisions' = [decisions EXCEPT ![m] = S!Idle] /\ UNCHANGED <<service, applied>>
  BY <1>1 DEF S!Release, S!Matches, S!Finish
<1>3. /\ row \in S!Suggestion
      /\ row.kind = suggestions[s].kind /\ row.author = suggestions[s].author
      /\ row.edit = suggestions[s].edit /\ row.status = suggestions[s].status
  BY <1>1 DEF S!Suggestion
<1>. HIDE DEF row
<1>4. /\ decisions' \in [Moderators -> S!Request]
      /\ \A n \in Moderators : decisions'[n] \in {decisions[n], S!Idle}
  BY <1>2, Idles DEF S!IInv, S!TypeOK
<1>5. suggestions[s].status # "APPROVED" /\ service' \in S!Service
  BY <1>2 DEF S!OpenStatuses, S!IInv, S!TypeOK
<1>6. S!IInv' /\ \E d \in {"OPEN", "APPROVED", "REJECTED", "WITHDRAWN"} : S!Decided!Decide(s, d)
  BY <1>2, <1>3, <1>4, <1>5, RowMoved
<1>. QED BY <1>6 DEF S!Decided!Next

LEMMA CleanedUp ==
  ASSUME S!IInv, S!ConstantsDiffer, NEW s \in Ids, S!Close(s)
  PROVE  S!IInv' /\ S!Decided!Next
<1>1. suggestions[s] \in S!Suggestion
  BY DEF S!IInv, S!TypeOK
<1> DEFINE row == [suggestions[s] EXCEPT !.status = "WITHDRAWN"]
<1>2. /\ S!IsUsed(s) /\ ~S!IsLocked(s) /\ suggestions[s].status = "PENDING"
      /\ suggestions' = [suggestions EXCEPT ![s] = row] /\ UNCHANGED <<service, decisions, applied>>
  BY DEF S!Close
<1>3. /\ row \in S!Suggestion
      /\ row.kind = suggestions[s].kind /\ row.author = suggestions[s].author
      /\ row.edit = suggestions[s].edit /\ row.status = "WITHDRAWN"
  BY <1>1 DEF S!Suggestion, S!Statuses
<1>. HIDE DEF row
<1>4. /\ decisions' \in [Moderators -> S!Request] /\ service' \in S!Service
      /\ \A n \in Moderators : decisions'[n] \in {decisions[n], S!Idle}
  BY <1>2 DEF S!IInv, S!TypeOK
<1>5. S!IInv' /\ \E d \in {"OPEN", "APPROVED", "REJECTED", "WITHDRAWN"} : S!Decided!Decide(s, d)
  BY <1>2, <1>3, <1>4, RowMoved
<1>. QED BY <1>5 DEF S!Decided!Next

-----------------------------------------------------------------------------
(* A row is inserted *)

LEMMA NewRows ==
  ASSUME NEW kind \in {"listing", "edit", "scan", "description"}, NEW author \in Authors \cup {Bot},
         NEW edit \in ListEdits \cup {S!NoEdit}
  PROVE  /\ S!Inserted(kind, author, edit) \in S!Suggestion
         /\ S!Inserted(kind, author, edit).kind = kind /\ S!Inserted(kind, author,
           edit).author = author
         /\ S!Inserted(kind, author, edit).edit = edit
         /\ S!Inserted(kind, author, edit).status = "PENDING"
         /\ S!Inserted(kind, author, edit).assignee = Nobody
BY DEF S!Inserted, S!Unused, S!Suggestion, S!Statuses, S!OpenStatuses

(***************************************************************************)
(* A new row may withdraw open ones that are not edits; the others stay.   *)
(***************************************************************************)
LEMMA Added ==
  ASSUME S!IInv, S!ConstantsDiffer, NEW s \in Ids, ~S!IsUsed(s), NEW older \in SUBSET (Ids \ {s}),
         UNCHANGED <<decisions, applied>>, service' \in S!Service,
         suggestions' \in [Ids -> S!Suggestion],
         suggestions'[s].kind \in {"listing", "edit", "scan", "description"},
         suggestions'[s].status = "PENDING",
         S!IsEdit(s)' => suggestions'[s].edit \in ListEdits,
         S!IsProposal(s)' => suggestions'[s].author = Bot,
         \A o \in older :
           /\ S!IsProposal(o) /\ S!IsOpen(o) /\ suggestions'[o].status = "WITHDRAWN"
           /\ suggestions'[o].kind = suggestions[o].kind
           /\ suggestions'[o].author = suggestions[o].author
           /\ suggestions'[o].edit = suggestions[o].edit,
         \A o \in Ids \ (older \cup {s}) : suggestions'[o] = suggestions[o]
  PROVE  /\ S!IInv'
         /\ \A o \in Ids : S!Decision(o)' =
              IF o = s THEN "OPEN" ELSE IF o \in older THEN "WITHDRAWN" ELSE S!Decision(o)
         /\ \A o \in Ids \ {s} : S!IsEdit(o)' = S!IsEdit(o)
<1>1. S!TypeOK'
  BY DEF S!IInv, S!TypeOK
<1>2. ASSUME NEW o \in Ids PROVE S!RowInv(o)'
  <2>1. CASE o = s
    BY <2>1 DEF S!IInv, S!RowInv, S!IsEdit, S!IsUsed
  <2>2. CASE o \in older
    BY <2>2 DEF S!IInv, S!RowInv, S!IsEdit, S!IsProposal
  <2>3. CASE o \notin older \cup {s}
    BY <2>3 DEF S!IInv, S!RowInv, S!IsEdit, S!IsProposal
  <2>. QED BY <2>1, <2>2, <2>3
<1>3. ASSUME NEW n \in Moderators PROVE S!RequestInv(n)'
  <2>1. \A o \in Ids : Keeps(o)
    BY DEF Keeps, S!IsProposal, S!IsEdit
  <2>2. S!RequestInv(n)
    BY DEF S!IInv
  <2>3. \A o \in Ids : decisions[n].at = "applying" /\ decisions[n].id = o => S!IsOpen(o)'
    BY <2>2 DEF S!RequestInv, S!IsOpen, S!IsEdit, S!IsProposal
  <2>. QED BY <2>1, <2>2, <2>3, RequestKept
<1>4. S!OneWriter'
  BY DEF S!IInv, S!OneWriter
<1>5. S!SecondReviewer'
  BY DEF S!IInv, S!SecondReviewer, S!IsEdit
<1>6. ASSUME NEW o \in Ids
      PROVE  S!Decision(o)' =
               IF o = s THEN "OPEN" ELSE IF o \in older THEN "WITHDRAWN" ELSE S!Decision(o)
  BY DEF S!Decision, S!IsUsed, S!IsOpen, S!OpenStatuses, S!IsProposal
<1>7. \A o \in Ids \ {s} : S!IsEdit(o)' = S!IsEdit(o)
  BY DEF S!IsEdit
<1>. QED BY <1>1, <1>2, <1>3, <1>4, <1>5, <1>6, <1>7 DEF S!IInv
LEMMA Suggested ==
  ASSUME S!IInv, S!ConstantsDiffer, NEW s \in Ids, NEW u \in Authors,
         S!CreateService(s, u) \/ \E edit \in ListEdits : S!EditService(s, u, edit)
  PROVE  S!IInv' /\ S!Decided!Next
<1>1. PICK kind \in {"listing", "edit"}, edit \in ListEdits \cup {S!NoEdit} :
        /\ suggestions' = [suggestions EXCEPT ![s] = S!Inserted(kind, u, edit)]
        /\ kind = "edit" => edit \in ListEdits
        /\ ~S!IsUsed(s) /\ UNCHANGED <<decisions, applied>>
  BY DEF S!CreateService, S!EditService
<1>2. service' \in S!Service
  BY DEF S!CreateService, S!EditService, S!IInv, S!TypeOK, S!Service
<1> DEFINE row == S!Inserted(kind, u, edit)
<1>3. /\ row \in S!Suggestion /\ row.kind = kind /\ row.author = u /\ row.edit = edit
      /\ row.status = "PENDING"
  BY NewRows
<1>. HIDE DEF row
<1>4. /\ suggestions' \in [Ids -> S!Suggestion] /\ suggestions'[s] = row
      /\ \A o \in Ids \ {s} : suggestions'[o] = suggestions[o]
  BY <1>1, <1>3 DEF row, S!IInv, S!TypeOK
<1>5. PICK older \in SUBSET (Ids \ {s}) : older = {}
  OBVIOUS
<1>6. /\ S!IInv' /\ \A o \in Ids : S!Decision(o)' = IF o = s THEN "OPEN" ELSE S!Decision(o)
      /\ \A o \in Ids \ {s} : S!IsEdit(o)' = S!IsEdit(o)
  <2>1. (S!IsEdit(s)' => suggestions'[s].edit \in ListEdits) /\ ~S!IsProposal(s)'
    BY <1>1, <1>3, <1>4 DEF S!IsEdit, S!IsProposal
  <2>. QED BY <1>1, <1>2, <1>3, <1>4, <1>5, <2>1, Added
<1>7. S!Decided!Submit(s)
  <2>1. {o \in Ids : S!IsEdit(o)}'
          \in {{o \in Ids : S!IsEdit(o)}, {o \in Ids : S!IsEdit(o)} \cup {s}}
    <3>1. ~S!IsEdit(s)
      BY <1>1 DEF S!IsEdit, S!IsUsed
    <3>2. CASE S!IsEdit(s)'
      BY <1>6, <3>2
    <3>3. CASE ~S!IsEdit(s)'
      BY <1>6, <3>1, <3>3
    <3>. QED BY <3>2, <3>3
  <2>2. S!Decision(s) = "NONE"
    BY <1>1 DEF S!Decision
  <2>. QED BY <1>1, <1>6, <2>1, <2>2 DEF S!Decided!Submit
<1>. QED BY <1>6, <1>7 DEF S!Decided!Next

LEMMA Proposed ==
  ASSUME S!IInv, S!ConstantsDiffer, NEW s \in Ids, NEW kind \in {"scan", "description"},
         NEW edit \in ListEdits \cup {S!NoEdit}, S!SaveProposal(s, kind, edit)
  PROVE  S!IInv' /\ S!Decided!Next
<1> DEFINE row == S!Inserted(kind, Bot, edit)
<1>1. PICK older \in SUBSET (Ids \ {s}) : older = {o \in Ids \ {s} : S!Supersedes(kind, o)}
  OBVIOUS
<1>2. /\ row \in S!Suggestion /\ row.kind = kind /\ row.author = Bot /\ row.status = "PENDING"
  BY NewRows
<1>3. ~S!IsUsed(s) /\ UNCHANGED <<service, decisions, applied>>
  BY DEF S!SaveProposal
<1>4. /\ suggestions'[s] = row
      /\ \A o \in Ids \ (older \cup {s}) : suggestions'[o] = suggestions[o]
      /\ \A o \in older : suggestions'[o] = [suggestions[o] EXCEPT !.status = "WITHDRAWN",
        !.assignee = Nobody]
      /\ suggestions' = [o \in Ids |-> suggestions'[o]]
  BY <1>1 DEF S!SaveProposal
<1>. HIDE DEF row
<1>5. \A o \in older :
        /\ suggestions'[o] \in S!Suggestion
        /\ S!IsProposal(o) /\ S!IsOpen(o) /\ suggestions'[o].status = "WITHDRAWN"
        /\ suggestions'[o].kind = suggestions[o].kind
        /\ suggestions'[o].author = suggestions[o].author
        /\ suggestions'[o].edit = suggestions[o].edit
  <2>1. \A o \in older : suggestions[o] \in S!Suggestion /\ S!IsProposal(o) /\ S!IsOpen(o)
    BY <1>1 DEF S!IInv, S!TypeOK, S!Supersedes
  <2>2. PICK status \in S!Statuses, nobody \in Moderators \cup {Nobody} :
          status = "WITHDRAWN" /\ nobody = Nobody
    BY DEF S!Statuses
  <2>3. \A o \in older :
          suggestions'[o] = [suggestions[o] EXCEPT !.status = status, !.assignee = nobody]
    BY <1>4, <2>2
  <2>. QED
    <3>1. ASSUME NEW o \in older
          PROVE  /\ suggestions'[o] \in S!Suggestion
                 /\ suggestions'[o].status = "WITHDRAWN"
                 /\ suggestions'[o].kind = suggestions[o].kind
                 /\ suggestions'[o].author = suggestions[o].author
                 /\ suggestions'[o].edit = suggestions[o].edit
      <4>1. PICK old \in S!Suggestion : old = suggestions[o]
        BY <2>1
      <4>2. suggestions'[o] = [old EXCEPT !.status = status, !.assignee = nobody]
        BY <2>3, <4>1
      <4>3. suggestions'[o] \in S!Suggestion
        BY <4>2 DEF S!Suggestion
      <4>. QED BY <2>2, <4>1, <4>2, <4>3 DEF S!Suggestion
    <3>. QED BY <2>1, <3>1
<1>6. suggestions' \in [Ids -> S!Suggestion]
  BY <1>2, <1>4, <1>5 DEF S!IInv, S!TypeOK
<1>7. ~S!IsEdit(s)' /\ (S!IsProposal(s)' => suggestions'[s].author = Bot)
  BY <1>2, <1>4 DEF S!IsEdit
<1>8. /\ S!IInv'
      /\ \A o \in Ids : S!Decision(o)' =
           IF o = s THEN "OPEN" ELSE IF o \in older THEN "WITHDRAWN" ELSE S!Decision(o)
      /\ \A o \in Ids \ {s} : S!IsEdit(o)' = S!IsEdit(o)
  <2>1. service' \in S!Service /\ UNCHANGED <<decisions, applied>>
    BY <1>3 DEF S!IInv, S!TypeOK
  <2>2. /\ suggestions'[s].kind \in {"listing", "edit", "scan", "description"}
        /\ suggestions'[s].status = "PENDING"
        /\ S!IsEdit(s)' => suggestions'[s].edit \in ListEdits
    BY <1>2, <1>4, <1>7
  <2>3. /\ \A o \in older :
             /\ S!IsProposal(o) /\ S!IsOpen(o) /\ suggestions'[o].status = "WITHDRAWN"
             /\ suggestions'[o].kind = suggestions[o].kind
             /\ suggestions'[o].author = suggestions[o].author
             /\ suggestions'[o].edit = suggestions[o].edit
        /\ \A o \in Ids \ (older \cup {s}) : suggestions'[o] = suggestions[o]
    BY <1>4, <1>5
  <2>. QED BY <1>3, <1>6, <1>7, <2>1, <2>2, <2>3, Added
<1>9. S!Decided!Supersede(s, older)
  <2>1. S!Decision(s) = "NONE" /\ ~S!IsEdit(s)
    BY <1>3 DEF S!Decision, S!IsEdit, S!IsUsed
  <2>2. {o \in Ids : S!IsEdit(o)}' = {o \in Ids : S!IsEdit(o)}
    BY <1>7, <1>8, <2>1
  <2>3. \A o \in older : S!Decision(o) = "OPEN" /\ ~S!IsEdit(o)
    BY <1>5 DEF S!Decision, S!IsUsed, S!IsProposal, S!IsEdit
  <2>. QED BY <1>3, <1>8, <2>1, <2>2, <2>3 DEF S!Decided!Supersede
<1>. QED BY <1>8, <1>9 DEF S!Decided!Next

-----------------------------------------------------------------------------
(* Requests move on, and the service is written *)

LEMMA OnlyRequests ==
  ASSUME S!IInv, S!ConstantsDiffer, NEW m \in Moderators, UNCHANGED <<suggestions, service,
         applied>>,
         NEW new \in S!Request, decisions' = [decisions EXCEPT ![m] = new], S!RequestInv(m)',
         new.at = "applying" => ~S!IsLocked(new.id)
  PROVE  S!IInv' /\ UNCHANGED S!Decided!vars
<1>1. decisions'[m] = new /\ \A n \in Moderators \ {m} : decisions'[n] = decisions[n]
  BY DEF S!IInv, S!TypeOK
<1>2. S!TypeOK' /\ S!SecondReviewer' /\ \A s \in Ids : S!RowInv(s)'
  BY DEF S!IInv, S!TypeOK, S!SecondReviewer, S!RowInv, S!IsEdit, S!IsProposal
<1>3. \A n \in Moderators : S!RequestInv(n)'
  BY <1>1 DEF S!IInv, S!RequestInv, S!IsUsed, S!IsEdit, S!IsOpen, S!CanReview
<1>4. S!OneWriter'
  BY <1>1 DEF S!IInv, S!OneWriter, S!IsLocked
<1>5. UNCHANGED S!Decided!vars
  BY DEF S!Decided!vars, S!Decision, S!IsUsed, S!IsOpen, S!IsEdit
<1>. QED BY <1>2, <1>3, <1>4, <1>5 DEF S!IInv

LEMMA PageOpened ==
  ASSUME S!IInv, S!ConstantsDiffer, NEW m \in Moderators, NEW s \in Ids, S!OpenPage(m, s)
  PROVE  S!IInv' /\ UNCHANGED S!Decided!vars
<1> DEFINE new == [S!Idle EXCEPT !.at = "page", !.id = s, !.status = suggestions[s].status,
                               !.assignee = suggestions[s].assignee]
<1>1. new \in S!Request /\ new.at = "page" /\ new.id = s /\ new.status = suggestions[s].status
  BY Idles DEF S!IInv, S!TypeOK, S!Suggestion, S!Request
<1>2. decisions' = [decisions EXCEPT ![m] = new] /\ S!IsUsed(s) /\ UNCHANGED <<suggestions,
      service, applied>>
  BY DEF S!OpenPage
<1>. HIDE DEF new
<1>3. S!RequestInv(m)'
  BY <1>1, <1>2 DEF S!IInv, S!TypeOK, S!RequestInv, S!IsUsed
<1>. QED BY <1>1, <1>2, <1>3, OnlyRequests

LEMMA GaveUp ==
  ASSUME S!IInv, S!ConstantsDiffer, NEW m \in Moderators, S!GiveUp(m)
  PROVE  S!IInv' /\ UNCHANGED S!Decided!vars
<1>1. S!RequestInv(m)'
  BY Idles DEF S!GiveUp, S!Finish, S!IInv, S!TypeOK, S!RequestInv
<1>. QED BY <1>1, Idles, OnlyRequests DEF S!GiveUp, S!Finish

LEMMA UpdateChecked ==
  ASSUME S!IInv, S!ConstantsDiffer, NEW m \in Moderators, NEW status \in S!Statuses,
         S!CheckUpdate(m, status)
  PROVE  S!IInv' /\ UNCHANGED S!Decided!vars
<1>1. PICK s \in Ids, r \in S!Request : r = decisions[m] /\ s = r.id
  BY DEF S!CheckUpdate, S!IInv, S!TypeOK, S!RequestInv
<1> DEFINE new == [r EXCEPT !.at = "checked", !.target = status]
<1>2. /\ new \in S!Request /\ new.at = "checked" /\ new.target = status /\ new.id = s
      /\ new.status = r.status
  BY <1>1 DEF S!Request
<1>3. decisions' = [decisions EXCEPT ![m] = new] /\ UNCHANGED <<suggestions, service, applied>>
  BY <1>1 DEF S!CheckUpdate
<1>. HIDE DEF new
<1>4. /\ S!IsUsed(s) /\ (S!IsEdit(s) => r.status # "APPROVED" /\ status # "APPROVED")
      /\ status = "APPROVED" => S!CanReview(s, m, FALSE)
  BY <1>1 DEF S!CheckUpdate, S!MayReopen, S!IInv, S!RequestInv
<1>5. S!RequestInv(m)'
  BY <1>2, <1>3, <1>4 DEF S!IInv, S!TypeOK, S!RequestInv, S!IsUsed, S!IsEdit, S!CanReview
<1>. QED BY <1>2, <1>3, <1>5, OnlyRequests

LEMMA ApplyBegun ==
  ASSUME S!IInv, S!ConstantsDiffer, NEW m \in Moderators, S!BeginApply(m)
  PROVE  S!IInv' /\ UNCHANGED S!Decided!vars
<1>1. PICK s \in Ids : s = decisions[m].id /\ suggestions[s] \in S!Suggestion /\ S!IsEdit(s)
  BY DEF S!BeginApply, S!CanSettleEdit, S!IInv, S!TypeOK, S!RequestInv
<1>2. suggestions[s].edit \in S!Edit /\ service \in S!Service
  BY <1>1 DEF S!IInv, S!TypeOK, S!RowInv, S!ConstantsDiffer
<1>3. PICK live \in SUBSET Entries : live = service[suggestions[s].edit.list]
  BY <1>2 DEF S!Edit, S!Service
<1> DEFINE new == [S!Idle EXCEPT !.at = "applying", !.id = s, !.live = live]
<1>4. new \in S!Request /\ new.at = "applying" /\ new.id = s
  BY Idles DEF S!Request
<1>5. /\ decisions' = [decisions EXCEPT ![m] = new] /\ UNCHANGED <<suggestions, service, applied>>
      /\ S!IsUsed(s) /\ ~S!IsLocked(s) /\ S!IsOpen(s) /\ S!CanReview(s, m, TRUE)
  BY <1>1, <1>3 DEF S!BeginApply, S!Matches, S!CanSettleEdit, S!IsOpen
<1>. HIDE DEF new
<1>6. S!RequestInv(m)'
  BY <1>1, <1>4, <1>5 DEF S!IInv, S!TypeOK, S!RequestInv, S!IsUsed, S!IsEdit, S!IsOpen, S!CanReview
<1>. QED BY <1>4, <1>5, <1>6, OnlyRequests

LEMMA ServiceUpdated ==
  ASSUME S!IInv, NEW currencies \in SUBSET Entries, NEW attributes \in SUBSET Entries,
         S!UpdateService(currencies, attributes)
  PROVE  S!IInv' /\ UNCHANGED S!Decided!vars
<1>1. service' \in S!Service
  BY DEF S!UpdateService, S!IInv, S!TypeOK, S!Service
<1>. QED
  BY <1>1
  DEF S!UpdateService, S!IInv, S!TypeOK, S!RowInv, S!RequestInv, S!OneWriter, S!SecondReviewer,
      S!Decided!vars,
      S!Decision, S!IsUsed, S!IsOpen, S!IsEdit, S!IsProposal, S!CanReview
(***************************************************************************)
(* The holder of a row writes its edit and approves it.                    *)
(***************************************************************************)
LEMMA Written ==
  ASSUME S!IInv, S!ConstantsDiffer, NEW m \in Moderators, S!WriteEdit(m)
  PROVE  S!IInv' /\ S!Decided!Next
<1>1. PICK s \in Ids : s = decisions[m].id
  BY DEF S!WriteEdit, S!IInv, S!RequestInv
<1>2. /\ S!IsUsed(s) /\ S!IsEdit(s) /\ S!IsOpen(s) /\ S!CanReview(s, m, TRUE)
      /\ decisions[m].at = "applying"
      /\ suggestions[s] \in S!Suggestion
      /\ suggestions[s].edit \in S!Edit /\ suggestions[s].edit \in ListEdits
      /\ service \in S!Service /\ decisions[m] \in S!Request
  BY <1>1 DEF S!WriteEdit, S!IInv, S!TypeOK, S!RequestInv, S!RowInv, S!ConstantsDiffer
<1> DEFINE row == [suggestions[s] EXCEPT !.status = "APPROVED", !.assignee = m]
<1>3. /\ suggestions' = [suggestions EXCEPT ![s] = row] /\ applied' = applied \cup {s}
      /\ decisions' = [decisions EXCEPT ![m] = S!Idle]
  BY <1>1 DEF S!WriteEdit, S!Moved, S!Finish
<1>4. /\ row \in S!Suggestion /\ row.kind = "edit" /\ row.author = suggestions[s].author
      /\ row.edit = suggestions[s].edit /\ row.status = "APPROVED" /\ row.assignee = m
  <2>1. PICK status \in S!Statuses,
        mover \in Moderators \cup {Nobody} : status = "APPROVED" /\ mover = m
    BY DEF S!Statuses
  <2>2. row = [suggestions[s] EXCEPT !.status = status, !.assignee = mover]
    BY <2>1
  <2>. QED BY <1>2, <2>1, <2>2 DEF S!Suggestion, S!IsEdit
<1>. HIDE DEF row
<1>5. /\ suggestions'[s] = row /\ \A o \in Ids \ {s} : suggestions'[o] = suggestions[o]
      /\ decisions'[m] = S!Idle /\ \A n \in Moderators \ {m} : decisions'[n] = decisions[n]
  BY <1>3 DEF S!IInv, S!TypeOK
<1>6. service' \in S!Service
  <2>1. CASE suggestions[s].edit.list = "currencies"
    <3>1. S!After(decisions[m].live, suggestions[s].edit) \in SUBSET Entries
      BY <1>2 DEF S!After, S!Edit, S!Request
    <3>. QED BY <1>1, <1>2, <2>1, <3>1 DEF S!WriteEdit, S!Service
  <2>2. CASE suggestions[s].edit.list # "currencies"
    <3>1. S!RowsAfter(decisions[m].live, suggestions[s].edit) \in SUBSET Entries
      BY <1>2 DEF S!RowsAfter, S!Created, S!After, S!Edit, S!Request, S!Service
    <3>. QED BY <1>1, <1>2, <2>2, <3>1 DEF S!WriteEdit, S!Service
  <2>. QED BY <2>1, <2>2
<1>7. S!TypeOK'
  BY <1>3, <1>4, <1>6, Idles DEF S!IInv, S!TypeOK
<1>8. ASSUME NEW o \in Ids PROVE S!RowInv(o)'
  <2>1. CASE o = s
    BY <1>2, <1>3, <1>4, <1>5, <2>1 DEF S!RowInv, S!IsEdit, S!IsProposal
  <2>2. CASE o # s
    BY <1>3, <1>5, <2>2 DEF S!IInv, S!RowInv, S!IsEdit, S!IsProposal
  <2>. QED BY <2>1, <2>2
<1>9. ASSUME NEW n \in Moderators PROVE S!RequestInv(n)'
  <2>1. CASE n = m
    BY <1>5, <2>1, Idles DEF S!RequestInv
  <2>2. CASE n # m
    <3>1. \A o \in Ids : Keeps(o)
      BY <1>2, <1>4, <1>5 DEF Keeps, S!IsEdit
    <3>2. S!RequestInv(n) /\ (decisions[n].at = "applying" => decisions[n].id # s)
      BY <1>1, <1>2, <2>2 DEF S!IInv, S!OneWriter
    <3>3. \A o \in Ids : decisions[n].at = "applying" /\ decisions[n].id = o => S!IsOpen(o)'
      BY <1>5, <3>2 DEF S!RequestInv, S!IsOpen
    <3>. QED BY <1>5, <2>2, <3>1, <3>2, <3>3, RequestKept
  <2>. QED BY <2>1, <2>2
<1>10. S!OneWriter'
  BY <1>5, Idles DEF S!IInv, S!OneWriter
<1>11. S!SecondReviewer'
  BY <1>2, <1>4, <1>5 DEF S!IInv, S!SecondReviewer, S!IsEdit, S!CanReview
<1>12. S!Decided!ApplyEdit(s)
  <2>1. \A o \in Ids : S!Decision(o)' = IF o = s THEN "APPROVED" ELSE S!Decision(o)
    BY <1>4, <1>5 DEF S!Decision, S!IsUsed, S!IsOpen, S!OpenStatuses
  <2>2. {o \in Ids : S!IsEdit(o)}' = {o \in Ids : S!IsEdit(o)}
    BY <1>2, <1>4, <1>5 DEF S!IsEdit
  <2>3. S!Decision(s) = "OPEN" /\ s \notin applied
    BY <1>2 DEF S!Decision, S!IsOpen, S!OpenStatuses, S!IInv, S!RowInv
  <2>. QED BY <1>2, <1>3, <2>1, <2>2, <2>3 DEF S!Decided!ApplyEdit
<1>. QED BY <1>7, <1>8, <1>9, <1>10, <1>11, <1>12 DEF S!IInv, S!Decided!Next

LEMMA StepKept ==
  ASSUME S!IInv, S!ConstantsDiffer, S!Next
  PROVE  S!IInv' /\ (S!Decided!Next \/ UNCHANGED S!Decided!vars)
<1>1. CASE S!AuthorStep
  BY <1>1, Suggested DEF S!AuthorStep
<1>2. CASE S!WorkerStep
  <2>1. \A s \in Ids, edit \in ListEdits : S!SaveProposal(s, "scan",
        edit) => S!IInv' /\ S!Decided!Next
    BY Proposed
  <2>2. \A s \in Ids : S!SaveProposal(s, "description", S!NoEdit) => S!IInv' /\ S!Decided!Next
    BY Proposed
  <2>. QED BY <1>2, <2>1, <2>2, CleanedUp DEF S!WorkerStep
<1>3. CASE S!ModeratorStep
  BY <1>3, PageOpened, GaveUp, UpdateChecked, Updated, TakenOrRejected, Released, ApplyBegun,
     Written,
     ProposalApplied
  DEF S!ModeratorStep
<1>4. CASE S!EditorStep
  BY <1>4, ServiceUpdated DEF S!EditorStep
<1>. QED BY <1>1, <1>2, <1>3, <1>4 DEF S!Next

LEMMA StutterKept ==
  ASSUME S!IInv, UNCHANGED S!vars
  PROVE  S!IInv' /\ UNCHANGED S!Decided!vars
BY DEF S!vars, S!IInv, S!TypeOK, S!RowInv, S!RequestInv, S!OneWriter, S!SecondReviewer,
       S!Decided!vars, S!Decision,
       S!IsUsed, S!IsOpen, S!IsEdit, S!IsProposal, S!CanReview
-----------------------------------------------------------------------------
(* The theorems *)

(***************************************************************************)
(* What S!IInv says holds at first and is kept, by the conversations' steps*)
(* too, which leave the suggestions alone.                                 *)
(***************************************************************************)
LEMMA EitherKept ==
  ASSUME S!IInv, [EitherNext]_<<part, vars, proposals>>
  PROVE  S!IInv' /\ [S!Decided!Next]_(S!Decided!vars)
<1>1. S!Next \/ UNCHANGED S!vars
  BY DEF EitherNext, proposals, S!vars
<1>. QED BY <1>1, StepKept, StutterKept, ProposalsAssumption

(***************************************************************************)
(* The invariant of the suggestions holds at first, and every step, of     *)
(* theirs or of the conversations, keeps it.                               *)
(***************************************************************************)
THEOREM Invariance == EitherSpec => []S!IInv
<1>1. EitherInit => S!IInv
  BY InitInvariant, ProposalsAssumption DEF EitherInit
<1>2. S!IInv /\ [EitherNext]_<<part, vars, proposals>> => S!IInv'
  BY EitherKept
<1>. QED BY <1>1, <1>2, PTL DEF EitherSpec

(***************************************************************************)
(* No suggestion was approved by its author, except by an admin, or an     *)
(* edit by somebody who may apply their own.                               *)
(***************************************************************************)
THEOREM ApprovedBySecondReviewer == EitherSpec => []SecondReviewer
<1>1. S!IInv => SecondReviewer
  BY DEF S!IInv, SecondReviewer
<1>. QED BY <1>1, Invariance, PTL

(***************************************************************************)
(* Every step of the suggestions is a step of Decisions or leaves what     *)
(* that speaks of as it was: an edit is written at most once, in the step  *)
(* that approves it, and stays approved.                                   *)
(***************************************************************************)
THEOREM DecidedOnce == EitherSpec => DecidesOnce
<1>1. EitherInit => S!Decided!Init
  BY DEF EitherInit, S!Init, S!Decided!Init, S!Decision, S!IsUsed, S!IsEdit, S!Unused
<1>2. S!IInv /\ [EitherNext]_<<part, vars, proposals>> => [S!Decided!Next]_(S!Decided!vars)
  BY EitherKept
<1>. QED
  BY <1>1, <1>2, Invariance, PTL DEF EitherSpec, DecidesOnce, S!DecidesOnce, S!Decided!Spec

(***************************************************************************)
(* A behaviour of the whole is one of ContactThreads, so that what is      *)
(* proved of that component holds of the whole.                            *)
(***************************************************************************)
THEOREM EitherHasThreads == EitherSpec => Spec
<1>1. EitherInit => Init
  BY DEF EitherInit
<1>2. [EitherNext]_<<part, vars, proposals>> => [Next]_vars
  BY DEF EitherNext, vars
<1>. QED BY <1>1, <1>2, PTL DEF EitherSpec, Spec
=============================================================================
