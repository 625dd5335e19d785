------------------------------ MODULE MCProgress ------------------------------
(***************************************************************************)
(* What waits has to be dealt with in the end: a recalculation of scores   *)
(* (service_score_recalc.py) and a file to delete                          *)
(* (commentEvidenceCleanup.ts).  The two queues share no state.  A         *)
(* behaviour exercises one of them; in the other nothing ever waits, so    *)
(* that its fairness asks for nothing.                                     *)
(***************************************************************************)
EXTENDS Integers

CONSTANTS
  Attributes, StatusChoices, Admins, Worker, NoOne,          \* ServiceScores
  Files, Broken, Cleanups, Take, MaxAttempts, MaxFaults      \* EvidenceFiles

VARIABLES
  part,
  points, links, verificationStatus, score, queued, lock, tx, outdated,
  disk, used, uploading, queue, attempts, cleanup, faults, doubtful

\* One attribute that may be worth nothing or much, of a middling service.
Points == {[privacy |-> 0, trust |-> 0], [privacy |-> 20, trust |-> 60]}
Listing == [kycLevel |-> 1, onionOrI2p |-> TRUE, monero |-> FALSE, approvedRecently |-> TRUE,
            tosUnread |-> TRUE, years |-> "NEW", registered |-> FALSE, incidentPenalty |-> -12]
Changes == [add : SUBSET Attributes, remove : {{}}] \cup [add : {{}}, remove : SUBSET Attributes]

ASSUME BoundsAssumption == Take \in Nat \ {0} /\ MaxAttempts \in Nat /\ MaxFaults \in Nat

Scores == INSTANCE ServiceScores
Images == INSTANCE EvidenceFiles

scores == <<points, links, verificationStatus, score, queued, lock, tx, outdated>>
images == <<disk, used, uploading, queue, attempts, cleanup, faults, doubtful>>

FirstScores == links = {} /\ points = CHOOSE p \in [Attributes -> Points] : TRUE

Init ==
  /\ part \in {"scores", "images"}
  /\ Scores!Init /\ Images!Init
  /\ part # "scores" => FirstScores

Next ==
  \/ part = "scores" /\ Scores!Next /\ UNCHANGED <<part, images>>
  \/ part = "images" /\ Images!Next /\ UNCHANGED <<part, scores>>

Spec == Init /\ [][Next]_<<part, scores, images>> /\ Scores!Fairness /\ Images!Fairness

(***************************************************************************)
(* A queued recalculation is carried out (service_score_recalc.py).        *)
(***************************************************************************)
QueueDrains == Scores!QueueDrains

(***************************************************************************)
(* The images of live proof stay on disk and the others stay queued        *)
(* (commentEvidenceCleanup.ts:30).                                         *)
(***************************************************************************)
FilesFollowProof == Images!FilesFollowProof

(***************************************************************************)
(* A queued file is dealt with (commentEvidenceCleanup.ts:24).             *)
(***************************************************************************)
NoFileIsHeldBack == Images!NoFileIsHeldBack
=============================================================================
