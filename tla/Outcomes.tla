-------------------------------- MODULE Outcomes --------------------------------
(***************************************************************************)
(* How one published experience that names a problem ended: what its post  *)
(* says, what its author's later updates say, and whether a moderator      *)
(* marked it resolved.  Readers get one word, derived from all three.      *)
(***************************************************************************)
EXTENDS Integers

CONSTANTS
  Updates,
  MaxStamps,   \* bound: dates handed out
  None

VARIABLES
  tags,        \* "Comment".issues: whether problems are named, and which
  outcome,     \* "CommentExperience".outcome
  resolvedAt,  \* "CommentExperience".moderatorResolvedAt
  updates,     \* "ExperienceUpdate" with its comment
  stamps,      \* dates handed out
  said         \* history: updates published before it was marked resolved, and not decided anew since

vars == <<tags, outcome, resolvedAt, updates, stamps, said>>

Tags == {"none", "one problem", "another"}
Words == {"UNSPECIFIED", "NO_ISSUE", "ONGOING", "RESOLVED"}
Dates == 1..MaxStamps
Date == Dates \cup {None}
Update == [word : (Words \ {"UNSPECIFIED"}) \cup {None}, status : {"PENDING", "APPROVED", "REJECTED", "WITHDRAWN"},
           before : {"PENDING", "APPROVED", None}, approvedAt : Date]

ConstantsDiffer == None \notin Update \cup Nat \cup {"PENDING", "APPROVED"} /\ MaxStamps \in Nat

TypeOK ==
  /\ tags \in Tags
  /\ outcome \in Words
  /\ resolvedAt \in Date
  /\ updates \in [Updates -> Update \cup {None}]
  /\ stamps \in 0..MaxStamps
  /\ said \subseteq Updates

Now == stamps + 1
Stamp == stamps < MaxStamps /\ stamps' = Now

-----------------------------------------------------------------------------
(* What readers learn *)

Sets == {u \in Updates : updates[u] # None /\ updates[u].status = "APPROVED" /\ updates[u].word # None}
LatestUpdate == {u \in Sets : \A other \in Sets : updates[other].approvedAt <= updates[u].approvedAt}

ModeratorResolutionStands ==
  resolvedAt # None /\ \A u \in LatestUpdate : updates[u].approvedAt < resolvedAt

CurrentOutcome ==
  IF ModeratorResolutionStands THEN {"RESOLVED"}
  ELSE IF LatestUpdate # {} THEN {updates[u].word : u \in LatestUpdate} ELSE {outcome}

-----------------------------------------------------------------------------
\* outcomeForProblems: what the form's one question is stored as.
OutcomeForProblems(named, resolved, noProblems) ==
  CASE named # "none" /\ resolved -> "RESOLVED"
    [] named # "none" /\ ~resolved -> "ONGOING"
    [] named = "none" /\ noProblems -> "NO_ISSUE"
    [] OTHER -> "UNSPECIFIED"

\* editedOutcome: an answer left as it was keeps what is stored.
EditedOutcome(named, resolved, noProblems) ==
  IF named = tags /\ resolved = (outcome = "RESOLVED") /\ noProblems = (outcome = "NO_ISSUE")
  THEN outcome ELSE OutcomeForProblems(named, resolved, noProblems)

Init ==
  /\ tags \in Tags \ {"another"}
  /\ \E resolved, noProblems \in BOOLEAN : outcome \in {OutcomeForProblems(tags, resolved, noProblems), "UNSPECIFIED"}
  /\ resolvedAt = None
  /\ updates = [u \in Updates |-> None]
  /\ stamps = 0
  /\ said = {}

\* An edit is published.
Edit(named, resolved, noProblems) ==
  /\ tags' = named
  /\ outcome' = EditedOutcome(named, resolved, noProblems)
  /\ UNCHANGED <<resolvedAt, updates, stamps, said>>

\* A reply to one's own experience that changes its verdict.
Reply(u, word) ==
  /\ updates[u] = None
  /\ updates' = [updates EXCEPT ![u] = [word |-> word, status |-> "PENDING", before |-> None, approvedAt |-> None]]
  /\ UNCHANGED <<tags, outcome, resolvedAt, stamps, said>>

\* manage_comment_approved_at. Mutation: a post that is withdrawn loses its date.
ClearedOnWithdrawal(row, status) == IF status = "APPROVED" THEN row.approvedAt ELSE None
KeptDate(row, status) == IF status \in {"APPROVED", "WITHDRAWN"} THEN row.approvedAt ELSE None

\* A status is written; a row that becomes published without a date gets one.
Move(u, status, before) ==
  LET kept == KeptDate(updates[u], status)
      stamped == status = "APPROVED" /\ kept = None IN
  /\ updates' = [updates EXCEPT ![u] = [word |-> updates[u].word, status |-> status, before |-> before,
                                        approvedAt |-> IF stamped THEN Now ELSE kept]]
  /\ IF stamped THEN Stamp ELSE UNCHANGED stamps
  /\ UNCHANGED <<tags, outcome, resolvedAt>>

Decide(u, status) ==
  /\ updates[u] # None /\ updates[u].status \notin {status, "WITHDRAWN"}
  /\ Move(u, status, None)
  /\ said' = said \ {u}

Withdraw(u) ==
  /\ updates[u] # None /\ updates[u].status \in {"PENDING", "APPROVED"}
  /\ Move(u, "WITHDRAWN", updates[u].status)
  /\ UNCHANGED said

\* restoredStatus; the text of an update does not change.
Restore(u) ==
  /\ updates[u] # None /\ updates[u].status = "WITHDRAWN"
  /\ Move(u, updates[u].before, None)
  /\ UNCHANGED said

MarkResolved ==
  /\ tags # "none" /\ "RESOLVED" \notin CurrentOutcome
  /\ resolvedAt' = Now /\ Stamp
  /\ said' = {u \in Updates : updates[u] # None /\ "APPROVED" \in {updates[u].status, updates[u].before}}
  /\ UNCHANGED <<tags, outcome, updates>>

UndoResolved ==
  /\ resolvedAt # None
  /\ resolvedAt' = None
  /\ UNCHANGED <<tags, outcome, updates, stamps, said>>

Next ==
  \/ \E named \in Tags, resolved, noProblems \in BOOLEAN : Edit(named, resolved, noProblems)
  \/ \E u \in Updates, word \in (Words \ {"UNSPECIFIED"}) \cup {None} : Reply(u, word)
  \/ \E u \in Updates, status \in {"PENDING", "APPROVED", "REJECTED"} : Decide(u, status)
  \/ \E u \in Updates : Withdraw(u) \/ Restore(u)
  \/ MarkResolved \/ UndoResolved

Spec == Init /\ [][Next]_vars

-----------------------------------------------------------------------------
(***************************************************************************)
(* What a moderator marked resolved stays so until it is undone or an      *)
(* update nobody had published before says otherwise: withdrawing and      *)
(* restoring an earlier update does not (experienceQueries.ts:80,          *)
(* 13_comment_approved_at.sql:10).                                         *)
(***************************************************************************)
ResolutionOutlivesRestores ==
  [][ModeratorResolutionStands /\ ~ModeratorResolutionStands' =>
       resolvedAt' = None \/ \E u \in Sets' : u \notin said]_vars

-----------------------------------------------------------------------------
(* What every step keeps *)

\* What was published has a date and keeps it while it is withdrawn.
DateInv(u) ==
  updates[u] # None =>
    /\ updates[u].status = "WITHDRAWN" <=> updates[u].before # None
    /\ "APPROVED" \in {updates[u].status, updates[u].before} => updates[u].approvedAt \in 1..stamps
    /\ updates[u].approvedAt # None => updates[u].approvedAt \in 1..stamps

\* What was published before the moderator's mark is older, and was not decided anew.
SaidInv(u) ==
  u \in said /\ resolvedAt # None =>
    /\ updates[u] # None /\ "APPROVED" \in {updates[u].status, updates[u].before}
    /\ updates[u].approvedAt < resolvedAt

IInv ==
  /\ TypeOK
  /\ resolvedAt # None => resolvedAt \in 1..stamps
  /\ \A u \in Updates : DateInv(u) /\ SaidInv(u)
=============================================================================
