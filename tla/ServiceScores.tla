---------------------------- MODULE ServiceScores ----------------------------
(***************************************************************************)
(* How the privacy, trust and overall score of one service follow its      *)
(* attributes, their points and its verification status.                   *)
(*                                                                         *)
(* Triggers on "Service" and "ServiceAttribute" recalculate the scores in  *)
(* the transaction that changed the row.  An UPDATE of "Attribute" only    *)
(* queues a job, which a Python worker carries out later.                  *)
(*                                                                         *)
(* The isolation is READ COMMITTED: every query of a trigger function sees *)
(* what is committed when that query starts, and its own transaction's     *)
(* changes.  A transaction takes the row lock of the service with its      *)
(* first UPDATE of it (in calculate_trust_score, unless it updated the     *)
(* service before), after it has read the attributes.  The service's other *)
(* columns and the clock stay as they are: Listing.                        *)
(***************************************************************************)
EXTENDS Integers, FiniteSets, FiniteSetsExt

CONSTANTS
  Attributes,   \* attributes a service may have
  Points,       \* records [privacy, trust] an attribute may be worth
  Listing,      \* the other columns the scores are computed from
  Changes,      \* records [add, remove]: what a transaction does to the attributes
  StatusChoices,  \* the verification statuses moderators set
  Admins,       \* people with a transaction of their own
  Worker,       \* the recalculation worker
  NoOne

Status == {"COMMUNITY_CONTRIBUTED", "APPROVED", "VERIFICATION_SUCCESS", "VERIFICATION_FAILED"}

ASSUME WritersAssumption == Worker \notin Admins /\ NoOne \notin Admins \cup {Worker}
ASSUME InputsAssumption ==
  /\ StatusChoices \subseteq Status
  /\ Changes \subseteq [add : SUBSET Attributes, remove : SUBSET Attributes]

VARIABLES
  points,              \* Attribute: what each is worth
  links,               \* ServiceAttribute: the attributes the service has
  verificationStatus,
  score,               \* privacyScore, trustScore, overallScore, as committed
  queued,              \* a ServiceScoreRecalculationJob with processedAt NULL
  lock,                \* who holds the row lock of the service
  tx,                  \* the transaction of each writer
  outdated             \* history: points changed after the last commit's reads

vars == <<points, links, verificationStatus, score, queued, lock, tx, outdated>>

Writers == Admins \cup {Worker}
Score == [privacy : 0..100, trust : 0..100, overall : 0..10]

\* at: no transaction; privacy read; trust read too; lock taken and scores written (what
\* was read is used up); job marked.  missed: points it counted changed since it wrote.
Tx == [at : {"idle", "open", "ready", "written", "marked"},
       change : [add : SUBSET Attributes, remove : SUBSET Attributes],
       status : Status \cup {"KEPT"}, requeues : BOOLEAN,
       privacy : 0..100, trust : 0..100, score : Score, missed : BOOLEAN]
NoChange == [add |-> {}, remove |-> {}]
NoScore == [privacy |-> 0, trust |-> 0, overall |-> 0]
IdleTx == [at |-> "idle", change |-> NoChange, status |-> "KEPT", requeues |-> FALSE,
           privacy |-> 0, trust |-> 0, score |-> NoScore, missed |-> FALSE]

TypeOK ==
  /\ points \in [Attributes -> Points]
  /\ links \subseteq Attributes
  /\ verificationStatus \in Status
  /\ score \in Score
  /\ queued \in BOOLEAN
  /\ lock \in Writers \cup {NoOne}
  /\ tx \in [Writers -> Tx]
  /\ outdated \in BOOLEAN

-----------------------------------------------------------------------------
(* The scores.  A view gives the points of the attributes a query counts.  *)

View(ls) == [a \in ls |-> points[a]]
TotalPrivacy(view) == MapThenSumSet(LAMBDA a : view[a].privacy, DOMAIN view)
TotalTrust(view) == MapThenSumSet(LAMBDA a : view[a].trust, DOMAIN view)

Clamp(x, most) == IF x > most THEN most ELSE IF x < 0 THEN 0 ELSE x

PrivacyScore(view) ==
  LET kycFactor == CASE Listing.kycLevel = 0 -> 25 [] Listing.kycLevel = 1 -> 10
                     [] Listing.kycLevel = 2 -> -5 [] Listing.kycLevel = 3 -> -15
                     [] Listing.kycLevel = 4 -> -25 [] OTHER -> 0
  IN  Clamp(50 + kycFactor + (IF Listing.onionOrI2p THEN 5 ELSE 0)
               + (IF Listing.monero THEN 5 ELSE 0) + TotalPrivacy(view), 100)

TrustScore(view, status) ==
  LET verificationFactor == CASE status = "VERIFICATION_SUCCESS" -> 10 [] status = "APPROVED" -> 5
                              [] status = "VERIFICATION_FAILED" -> -50 [] OTHER -> 0
      recentlyApproved == status = "APPROVED" /\ Listing.approvedRecently
      operatingSince == CASE Listing.years = "NEW" -> -4 [] Listing.years = "MATURE" -> 5 [] OTHER -> 0
  IN  Clamp(50 + verificationFactor + TotalTrust(view) + (IF recentlyApproved THEN -10 ELSE 0)
               + (IF Listing.tosUnread THEN -3 ELSE 0) + operatingSince
               + (IF Listing.registered THEN 2 ELSE 0) + Listing.incidentPenalty, 100)

\* CAST(numeric AS INT) rounds halves up.
OverallScore(privacy, trust) == Clamp((6 * privacy + 4 * trust + 50) \div 100, 10)

Capped(overall, status) ==
  IF status = "VERIFICATION_FAILED" /\ overall > 3 THEN 3 ELSE overall

Overall(privacy, trust, status) == Capped(OverallScore(privacy, trust), status)

Scores(view, status) ==
  LET privacy == PrivacyScore(view)
      trust == TrustScore(view, status)
  IN  [privacy |-> privacy, trust |-> trust, overall |-> Overall(privacy, trust, status)]

-----------------------------------------------------------------------------
(* What a transaction sees, and what its writes leave in the row. *)

Changed(change) == (links \cup change.add) \ change.remove
Seen(w) == Changed(tx[w].change)
StatusOf(w) == IF tx[w].status = "KEPT" THEN verificationStatus ELSE tx[w].status
Fresh(w) == Scores(View(Seen(w)), StatusOf(w))

\* The WHEN clause of the triggers, for a statement run at this trigger depth.
\* Mutation: only statements of the application fire them.
FiresAtTopOnly(depth) == depth < 1
Fires(depth) == depth < 2

\* The UPDATE with the scores runs in a trigger, or in the worker's own session.
Depth(w) == IF w = Worker THEN 0 ELSE 1

\* That UPDATE writes what was read before the lock, then fires the trigger, which
\* computes the scores again under the lock.
Written(w) ==
  IF Fires(Depth(w)) THEN Fresh(w)
  ELSE [privacy |-> tx[w].privacy, trust |-> tx[w].trust,
        overall |-> Overall(tx[w].privacy, tx[w].trust, StatusOf(w))]

Finish(w) ==
  /\ tx' = [tx EXCEPT ![w] = IdleTx]
  /\ lock' = IF lock = w THEN NoOne ELSE lock

\* A row another transaction inserted or deleted is waited for; a row that is there is
\* not inserted again, and one that is not there is not deleted.
RowsOf(change) == change.add \cup change.remove
Applies(change) ==
  /\ change.add \cap links = {}
  /\ change.remove \subseteq links
  /\ \A w \in Writers : RowsOf(change) \cap RowsOf(tx[w].change) = {}

-----------------------------------------------------------------------------
Init ==
  /\ points \in [Attributes -> Points]
  /\ links \in SUBSET Attributes
  /\ verificationStatus = "COMMUNITY_CONTRIBUTED"
  /\ score = Scores(View(links), "COMMUNITY_CONTRIBUTED")
  /\ queued = FALSE
  /\ lock = NoOne
  /\ tx = [w \in Writers |-> IdleTx]
  /\ outdated = FALSE

\* The UPDATE of the service comes first, so the triggers compute under the lock.  Status
\* KEPT: the statement leaves the column alone.
UpdateService(m, change, status, requeues) ==
  /\ tx[m].at = "idle"
  /\ Applies(change)
  /\ lock = NoOne
  /\ lock' = m
  /\ tx' = [tx EXCEPT ![m] =
              [IdleTx EXCEPT !.at = "written", !.change = change, !.status = status,
                             !.requeues = requeues,
                             !.score = Scores(View(Changed(change)),
                                              IF status = "KEPT" THEN verificationStatus ELSE status)]]
  /\ UNCHANGED <<points, links, verificationStatus, score, queued, outdated>>

\* An admin saves the service (who may not approve services keeps the status), or accepts a
\* scan's proposal; with nothing changed, what the force_triggers task does.
EditService(m, change, status) == UpdateService(m, change, status, FALSE)

\* A suggested edit never sets the status, and queues a job as well.
ApplySuggestion(m, change) == UpdateService(m, change, "KEPT", TRUE)

\* A scan's proposal that only changes attributes leaves the service row alone: the
\* trigger on ServiceAttribute reads before it has the lock.
ChangeAttributes(m, change) ==
  /\ tx[m].at = "idle"
  /\ Applies(change)
  /\ tx' = [tx EXCEPT ![m] =
              [IdleTx EXCEPT !.at = "open", !.change = change,
                             !.privacy = PrivacyScore(View(Changed(change)))]]
  /\ UNCHANGED <<points, links, verificationStatus, score, queued, lock, outdated>>

\* _process_service_score begins with the privacy score.
TakeJob ==
  /\ queued
  /\ tx[Worker].at = "idle"
  /\ tx' = [tx EXCEPT ![Worker] = [IdleTx EXCEPT !.at = "open", !.privacy = PrivacyScore(View(links))]]
  /\ UNCHANGED <<points, links, verificationStatus, score, queued, lock, outdated>>

\* The first query of calculate_trust_score.
ReadTrust(w) ==
  /\ tx[w].at = "open"
  /\ tx' = [tx EXCEPT ![w].at = "ready", ![w].trust = TrustScore(View(Seen(w)), StatusOf(w))]
  /\ UNCHANGED <<points, links, verificationStatus, score, queued, lock, outdated>>

\* Its UPDATE of isRecentlyApproved waits for the lock; what runs between that and the
\* UPDATE with the scores reads only what is computed again after it.
WriteScores(w) ==
  /\ tx[w].at = "ready"
  /\ lock = NoOne
  /\ lock' = w
  /\ tx' = [tx EXCEPT ![w].at = "written", ![w].score = Written(w),
                         ![w].privacy = 0, ![w].trust = 0]
  /\ UNCHANGED <<points, links, verificationStatus, score, queued, outdated>>

Commit(m) ==
  /\ tx[m].at = "written"
  /\ links' = Seen(m)
  /\ verificationStatus' = StatusOf(m)
  /\ score' = tx[m].score
  /\ queued' = (queued \/ tx[m].requeues)
  /\ outdated' = tx[m].missed
  /\ Finish(m)
  /\ UNCHANGED points

\* The UPDATE of the job names its id only, and locks its row.
MarkProcessed ==
  /\ tx[Worker].at = "written"
  /\ tx' = [tx EXCEPT ![Worker].at = "marked"]
  /\ UNCHANGED <<points, links, verificationStatus, score, queued, lock, outdated>>

\* What the worker's commit leaves of the job. Mutation: it stays to be done.
JobNotMarked == queued
JobMarked == FALSE

CommitJob ==
  /\ tx[Worker].at = "marked"
  /\ score' = tx[Worker].score
  /\ queued' = JobMarked
  /\ outdated' = tx[Worker].missed
  /\ Finish(Worker)
  /\ UNCHANGED <<points, links, verificationStatus>>

\* An error or a lost connection rolls the transaction back.
Abort(w) ==
  /\ tx[w].at # "idle"
  /\ Finish(w)
  /\ UNCHANGED <<points, links, verificationStatus, score, queued, outdated>>

JobLocked == tx[Worker].at = "marked"

\* Which services queue_service_score_recalculation_for_attribute finds: the committed
\* links.
Queues(a) == queued \/ a \in links

\* An admin changes what an attribute is worth; the deferred trigger runs at the commit.
UpdateAttribute(a, p) ==
  /\ p # points[a]
  /\ a \in links => ~JobLocked
  /\ points' = [points EXCEPT ![a] = p]
  /\ queued' = Queues(a)
  /\ tx' = [w \in Writers |->
              [tx[w] EXCEPT !.missed = @ \/ (tx[w].at \in {"written", "marked"} /\ a \in Seen(w))]]
  /\ UNCHANGED <<links, verificationStatus, score, lock, outdated>>

\* recalculate_all_services and recalculate_for_attribute, from the command line.
QueueAll ==
  /\ ~JobLocked
  /\ queued' = TRUE
  /\ UNCHANGED <<points, links, verificationStatus, score, lock, tx, outdated>>

-----------------------------------------------------------------------------
AdminStep(m) ==
  \/ \E change \in Changes, status \in StatusChoices \cup {"KEPT"} : EditService(m, change, status)
  \/ \E change \in Changes : ApplySuggestion(m, change)
  \/ \E change \in Changes : ChangeAttributes(m, change)
  \/ Commit(m)

Next ==
  \/ \E m \in Admins : AdminStep(m)
  \/ TakeJob \/ MarkProcessed \/ CommitJob
  \/ \E w \in Writers : ReadTrust(w) \/ WriteScores(w) \/ Abort(w)
  \/ \E a \in Attributes, p \in Points : UpdateAttribute(a, p)
  \/ QueueAll

(***************************************************************************)
(* Transactions end, whatever the outcome.  The scheduler starts the       *)
(* worker again and again, the database grants a row lock to who waits     *)
(* for it, and the worker does not fail for ever: without that nothing     *)
(* can be promised.                                                        *)
(***************************************************************************)
Fairness ==
  /\ \A m \in Admins : WF_vars(Commit(m) \/ Abort(m))
  /\ WF_vars(TakeJob) /\ WF_vars(ReadTrust(Worker)) /\ SF_vars(WriteScores(Worker))
  /\ WF_vars(MarkProcessed) /\ WF_vars(CommitJob)
  /\ <>[][~Abort(Worker)]_vars

Spec == Init /\ [][Next]_vars
FairSpec == Spec /\ Fairness

-----------------------------------------------------------------------------
(* Properties *)

Correct == Scores(View(links), verificationStatus)

(***************************************************************************)
(* Transactions that change a service's attributes or status side by side  *)
(* never lose each other's part of the score, although each reads before   *)
(* it has the lock: with no job left and no points changed behind a        *)
(* transaction's back, the committed score is the one of the committed     *)
(* rows (02_service_score.sql:2).                                          *)
(***************************************************************************)
ScoreIsCurrent == ~queued /\ ~outdated => score = Correct

(***************************************************************************)
(* A service whose verification failed never shows more than 3, whatever   *)
(* the worker read before it failed (02_service_score.sql:276).            *)
(***************************************************************************)
FailedIsCapped == verificationStatus = "VERIFICATION_FAILED" => ~(score.overall > 3)

(***************************************************************************)
(* Every queued recalculation is carried out (02_service_score.sql:5).     *)
(***************************************************************************)
QueueDrains == queued ~> ~queued

(***************************************************************************)
(* What 02_service_score.sql:5 says of an attribute's points: a change is  *)
(* queued, so a service with no job left has the score of today's points.  *)
(***************************************************************************)
PointsReachScores == ~queued => score = Correct

-----------------------------------------------------------------------------
(* The inductive invariant (ServiceScoresProofs).  That the scores are numbers is not *)
(* part of it: a sum over a set is beyond the provers.                                *)

HasWritten(w) == tx[w].at \in {"written", "marked"}

TypesInv ==
  /\ points \in [Attributes -> Points]
  /\ links \subseteq Attributes
  /\ tx = [w \in Writers |-> tx[w]]

TxInv(w) ==
  /\ DOMAIN tx[w] = DOMAIN IdleTx
  /\ RowsOf(tx[w].change) \subseteq Attributes
  /\ HasWritten(w) =>
       /\ lock = w
       /\ tx[w].missed \/ tx[w].score = Fresh(w)
       /\ StatusOf(w) = "VERIFICATION_FAILED" => ~(tx[w].score.overall > 3)
  /\ w = Worker => tx[w].change = NoChange /\ tx[w].status = "KEPT"

(***************************************************************************)
(* Whoever has written scores, and not yet committed them, holds the       *)
(* service's row lock, wrote them from the rows it will commit (unless     *)
(* points changed since), and capped them by the status it will commit;    *)
(* the worker changes neither.  So a commit publishes scores of the rows   *)
(* it leaves behind.                                                       *)
(***************************************************************************)
ScoreInv ==
  TypesInv /\ (\A w \in Writers : TxInv(w)) /\ ScoreIsCurrent /\ FailedIsCapped

=============================================================================
