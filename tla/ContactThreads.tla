--------------------------- MODULE ContactThreads ---------------------------
(***************************************************************************)
(* Conversations of users with the staff of KYCnot.me, and the reports     *)
(* about one post, which are conversations too and end with an outcome.    *)
(*                                                                         *)
(* Some handlers decide by a row they read before their transaction, and   *)
(* without a lock: a request that read is kept in requests, and its write  *)
(* is an action of its own.  The others lock the row first, or name the    *)
(* state they rely on in their UPDATE: they are one action.                *)
(*                                                                         *)
(* What is not told apart: when a thread was read, notes and notifications *)
(* and the daily limits, which only refuse.  A conversation has a category *)
(* its page offers, so only a report has the category of reports.          *)
(***************************************************************************)
EXTENDS Naturals

CONSTANTS
  Threads,         \* rows of "ContactThread"
  Users,           \* people who write to the staff
  ServiceUsers,    \* those of them who represent the post's service
  Requests,        \* requests under way at the same time
  MaxUnanswered,   \* CONTACT_MAX_UNANSWERED_MESSAGES
  Nobody

ASSUME PeopleAssumption == Nobody \notin Users \cup Threads /\ ServiceUsers \subseteq Users
ASSUME LimitAssumption == MaxUnanswered \in Nat \ {0}

VARIABLES
  threads,    \* what each row says
  post,       \* the status of the post the reports are about
  dispute,    \* the proof request a report by the service opened
  requests    \* what each request read and has not acted on yet

vars == <<threads, post, dispute, requests>>

\* outcome: reportOutcome.  unanswered: messages of the author since the staff's last.
\* closings: history, how often the author was told that the report is closed.
Thread == [state : {"UNUSED", "LIVE", "DELETED"}, category : {"REPORT", "OTHER"},
           author : Users \cup {Nobody},
           status : {"AWAITING_STAFF", "AWAITING_USER", "RESOLVED"},
           outcome : {"NONE", "ACTION_TAKEN", "NO_ACTION", "WITHDRAWN"},
           unanswered : 0..MaxUnanswered, closings : Nat]
Blank == [state |-> "UNUSED", category |-> "OTHER", author |-> Nobody, status |-> "RESOLVED",
          outcome |-> "NONE", unanswered |-> 0, closings |-> 0]
Gone == [Blank EXCEPT !.state = "DELETED"]

Request == [at : {"idle", "send", "reply", "close"}, about : Users \cup Threads \cup {Nobody}]
Idle == [at |-> "idle", about |-> Nobody]

TypeOK ==
  /\ threads \in [Threads -> Thread]
  /\ post \in {"PUBLISHED", "PENDING", "WITHDRAWN", "REJECTED"}
  /\ dispute \in [state : {"NONE", "OPEN", "CANCELLED"}, by : Users \cup {Nobody}]
  /\ requests \in [Requests -> Request]

-----------------------------------------------------------------------------
IsLive(t) == threads[t].state = "LIVE"
IsReport(t) == IsLive(t) /\ threads[t].category = "REPORT"

\* A thread is open in the sense of the list of conversations, or of the outcome.
IsOpen(t) == IsLive(t) /\ threads[t].status # "RESOLVED"
LacksOutcome(t) == IsReport(t) /\ threads[t].outcome = "NONE"
ThreadsOf(u) == {t \in Threads : IsLive(t) /\ threads[t].author = u}

\* A new conversation begins with a message of its author.
Started(u, category) ==
  [state |-> "LIVE", category |-> category, author |-> u, status |-> "AWAITING_STAFF",
   outcome |-> "NONE", unanswered |-> 1, closings |-> 0]

\* canUserSendMessage.
CanSend(t) == IsOpen(t) /\ threads[t].unanswered < MaxUnanswered

\* A thread after a message, which leaves n messages unanswered.
WithMessage(t, status, n) == [threads[t] EXCEPT !.status = status, !.unanswered = n]

\* A thread that a handler gives an outcome.
Settled(t, outcome) == [threads[t] EXCEPT !.status = "RESOLVED", !.outcome = outcome]

\* closeCommentReport, of one thread, and its closing reply.
Closed(t, outcome) == [Settled(t, outcome) EXCEPT !.unanswered = 0, !.closings = @ + 1]

\* The WHERE clause of closeCommentReport. Mutation: whatever its outcome.
MayBeClosedAgain(t) == IsReport(t)
MayBeClosed(t) == LacksOutcome(t)

\* The reports a withdrawal closes, without a reply.
ClosedOnWithdrawal(t) == IsReport(t) /\ threads[t].status # "RESOLVED"

\* The report of u that stands in the way of another.
HasReported(u) == \E t \in ThreadsOf(u) : IsReport(t) /\ IsOpen(t)

Finish(r) == requests' = [requests EXCEPT ![r] = Idle]

-----------------------------------------------------------------------------
Init ==
  /\ threads = [t \in Threads |-> Blank]
  /\ post \in {"PUBLISHED", "PENDING"}
  /\ dispute = [state |-> "NONE", by |-> Nobody]
  /\ requests = [r \in Requests |-> Idle]

(***************************************************************************)
(* Users.  send counts the open conversations and then creates one, with   *)
(* no lock; report and message lock the user first.                        *)
(***************************************************************************)
CountOpen(r, u) ==
  /\ requests[r].at = "idle"
  /\ \A t \in ThreadsOf(u) : ~IsOpen(t)
  /\ requests' = [requests EXCEPT ![r] = [at |-> "send", about |-> u]]
  /\ UNCHANGED <<threads, post, dispute>>

Send(r, t) ==
  /\ requests[r].at = "send"
  /\ threads[t].state = "UNUSED"
  /\ threads' = [threads EXCEPT ![t] = Started(requests[r].about, "OTHER")]
  /\ Finish(r)
  /\ UNCHANGED <<post, dispute>>

UserMessage(t) ==
  /\ CanSend(t)
  /\ threads' = [threads EXCEPT ![t] = WithMessage(t, "AWAITING_STAFF", threads[t].unanswered + 1)]
  /\ UNCHANGED <<post, dispute, requests>>

\* disputes: the claim is one that the service may ask proof for.
Report(u, t, disputes) ==
  /\ post = "PUBLISHED"
  /\ ~HasReported(u)
  /\ threads[t].state = "UNUSED"
  /\ threads' = [threads EXCEPT ![t] = Started(u, "REPORT")]
  /\ disputes => u \in ServiceUsers /\ dispute.state = "NONE"
  /\ dispute' = IF disputes THEN [state |-> "OPEN", by |-> u] ELSE dispute
  /\ UNCHANGED <<post, requests>>

(***************************************************************************)
(* The post: its author withdraws and restores it, moderators and the AI   *)
(* decide it.  Each step holds the lock of the post, which report takes    *)
(* too.  The AI closes no report: it never rejects a post that has an open *)
(* one (CommentModeration), so its rejection is a Reject too.              *)
(***************************************************************************)
Withdraw ==
  /\ post \in {"PUBLISHED", "PENDING"}
  /\ post' = "WITHDRAWN"
  /\ threads' = [t \in Threads |->
                   IF ClosedOnWithdrawal(t) THEN Settled(t, "WITHDRAWN") ELSE threads[t]]
  /\ UNCHANGED <<dispute, requests>>

Reject ==
  /\ post \in {"PUBLISHED", "PENDING", "REJECTED"}
  /\ post' = "REJECTED"
  /\ threads' = [t \in Threads |->
                   IF MayBeClosed(t) THEN Closed(t, "ACTION_TAKEN") ELSE threads[t]]
  /\ UNCHANGED <<dispute, requests>>

\* Published, held again, or restored.
DecidePost(status) ==
  /\ post' = status
  /\ UNCHANGED <<threads, dispute, requests>>

\* A counting proof or a moderator cancels the request.
CancelDispute ==
  /\ dispute.state = "OPEN"
  /\ dispute' = [dispute EXCEPT !.state = "CANCELLED"]
  /\ UNCHANGED <<threads, post, requests>>

(***************************************************************************)
(* The staff.  closeReport and message read the thread, and act later.     *)
(***************************************************************************)
ReadOpenReport(r, t) ==
  /\ requests[r].at = "idle"
  /\ LacksOutcome(t)
  /\ requests' = [requests EXCEPT ![r] = [at |-> "close", about |-> t]]
  /\ UNCHANGED <<threads, post, dispute>>

\* A report closed without action ends the dispute its author opened.
DisputeAfter(t, outcome) ==
  IF outcome = "NO_ACTION" /\ dispute.state = "OPEN" /\ dispute.by = threads[t].author
  THEN [dispute EXCEPT !.state = "CANCELLED"] ELSE dispute

\* Somebody closed the report first: all of it is rolled back. Mutation: not the dispute.
KeepCancelled(t, outcome) == dispute' = DisputeAfter(t, outcome) /\ UNCHANGED threads
RollBack(t, outcome) == UNCHANGED <<threads, dispute>>

CloseReport(r, outcome) ==
  LET t == requests[r].about IN
  /\ requests[r].at = "close"
  /\ IF MayBeClosed(t)
     THEN /\ threads' = [threads EXCEPT ![t] = Closed(t, outcome)]
          /\ dispute' = DisputeAfter(t, outcome)
     ELSE RollBack(t, outcome)
  /\ Finish(r)
  /\ UNCHANGED post

ReadThread(r, t) ==
  /\ requests[r].at = "idle"
  /\ IsLive(t)
  /\ threads[t].outcome = "NONE"
  /\ requests' = [requests EXCEPT ![r] = [at |-> "reply", about |-> t]]
  /\ UNCHANGED <<threads, post, dispute>>

\* The reply and the UPDATE of the thread name its id only; a deleted thread fails both.
StaffMessage(r) ==
  LET t == requests[r].about IN
  /\ requests[r].at = "reply"
  /\ threads' = IF IsLive(t)
                THEN [threads EXCEPT ![t] = WithMessage(t, "AWAITING_USER", 0)]
                ELSE threads
  /\ Finish(r)
  /\ UNCHANGED <<post, dispute>>

\* The action resolve.
MayResolve(t) == IsLive(t) /\ ~IsReport(t)

Resolve(t) ==
  /\ MayResolve(t)
  /\ threads' = [threads EXCEPT ![t].status = "RESOLVED"]
  /\ UNCHANGED <<post, dispute, requests>>

\* A contact manager deletes any thread, contact_cleanup the resolved ones after a while.
Delete(t) ==
  /\ IsLive(t)
  /\ threads' = [threads EXCEPT ![t] = Gone]
  /\ UNCHANGED <<post, dispute, requests>>

-----------------------------------------------------------------------------
UserStep ==
  \/ \E r \in Requests, u \in Users : CountOpen(r, u)
  \/ \E r \in Requests, t \in Threads : Send(r, t)
  \/ \E t \in Threads : UserMessage(t)
  \/ \E u \in Users, t \in Threads, disputes \in BOOLEAN : Report(u, t, disputes)

PostStep ==
  \/ Withdraw
  \/ Reject
  \/ \E status \in {"PUBLISHED", "PENDING"} : DecidePost(status)
  \/ CancelDispute

StaffStep ==
  \/ \E r \in Requests, t \in Threads : ReadOpenReport(r, t) \/ ReadThread(r, t)
  \/ \E r \in Requests, outcome \in {"ACTION_TAKEN", "NO_ACTION"} : CloseReport(r, outcome)
  \/ \E r \in Requests : StaffMessage(r)
  \/ \E t \in Threads : Resolve(t) \/ Delete(t)

Next == UserStep \/ PostStep \/ StaffStep

Spec == Init /\ [][Next]_vars

-----------------------------------------------------------------------------
(* Properties *)

(***************************************************************************)
(* Two moderators who close one report at once, or close it while the post *)
(* is rejected, never send its reporter two closing replies                *)
(* (reportedPost.ts:32).                                                   *)
(***************************************************************************)
OneClosingReply == \A t \in Threads : threads[t].closings <= 1

(***************************************************************************)
(* No report about a post that is down is without an outcome: whoever      *)
(* answers, resolves or reports meanwhile, a withdrawal and a rejection    *)
(* reach every report.                                                     *)
(***************************************************************************)
HiddenPostsHaveNoOpenReport ==
  post \in {"WITHDRAWN", "REJECTED"} => \A t \in Threads : ~LacksOutcome(t)

(***************************************************************************)
(* A reporter has at most one report without an outcome about the post.    *)
(***************************************************************************)
OneReportEach ==
  \A t, s \in Threads :
    LacksOutcome(t) /\ LacksOutcome(s) /\ threads[t].author = threads[s].author => t = s

(***************************************************************************)
(* Unless it is cancelled by itself, a dispute ends only with a report of  *)
(* its author that ends without action: of two moderators who disagree,    *)
(* the one who comes too late changes nothing (admin/contact.ts:67).       *)
(***************************************************************************)
DisputeEndsWithItsReport ==
  [][ dispute.state = "OPEN" /\ dispute'.state = "CANCELLED" /\ ~CancelDispute
        => \E t \in Threads :
             /\ LacksOutcome(t) /\ threads'[t].outcome = "NO_ACTION"
             /\ threads[t].author = dispute.by ]_vars

(***************************************************************************)
(* What admin/contact.ts:106 says: a closed report is not reopened with    *)
(* its outcome set, stuck in the queue.                                    *)
(***************************************************************************)
ClosedReportsStayClosed ==
  \A t \in Threads : IsReport(t) /\ threads[t].outcome # "NONE" => threads[t].status = "RESOLVED"

-----------------------------------------------------------------------------
(***************************************************************************)
(* The inductive invariant (ContactThreadsProofs).  A report without an    *)
(* outcome is always open, so the two ways handlers look for open reports, *)
(* by the status and by the outcome, find it.  The converse fails          *)
(* (ClosedReportsStayClosed), and nothing here needs it.                   *)
(***************************************************************************)
ThreadInv(t) ==
  /\ LacksOutcome(t) => threads[t].status # "RESOLVED" /\ threads[t].closings = 0
  /\ threads[t].closings <= 1

RequestInv(r) ==
  /\ requests[r].at = "send" => requests[r].about \in Users
  /\ requests[r].at \in {"close", "reply"} => requests[r].about \in Threads

ReportInv ==
  /\ TypeOK
  /\ \A t \in Threads : ThreadInv(t)
  /\ \A r \in Requests : RequestInv(r)
  /\ HiddenPostsHaveNoOpenReport
  /\ OneReportEach
=============================================================================
