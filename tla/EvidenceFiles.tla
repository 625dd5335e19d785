----------------------------- MODULE EvidenceFiles -----------------------------
(***************************************************************************)
(* The images of private proof on disk.  An image is saved before the      *)
(* transaction that names it; one whose transaction fails, or whose proof  *)
(* or row is given up later, is queued for deletion.  Every minute, and    *)
(* after every change, a cleanup goes through the queue, oldest first but  *)
(* files that failed before last.                                          *)
(*                                                                         *)
(* Paths are random; one is used again here once nothing of it is left.    *)
(* A transaction may be committed and still be reported as failed.         *)
(***************************************************************************)
EXTENDS Integers, SequencesExt

CONSTANTS
  Files,        \* paths
  Broken,       \* paths whose removal always fails
  Cleanups,     \* cleanups that can run at once
  Take,         \* files a cleanup reads
  MaxAttempts,  \* bound: failed attempts are counted up to here
  MaxFaults     \* bound: crashes, and requests or removals that fail

VARIABLES
  disk,
  used,         \* paths that live "CommentEvidence" names
  uploading,    \* saved, and their transaction not yet known to have ended
  queue,        \* "EvidenceFileCleanup", by createdAt
  attempts,
  cleanup,      \* what each cleanup has read and is doing
  faults,
  doubtful      \* history: left by a crash, or committed and reported as failed

vars == <<disk, used, uploading, queue, attempts, cleanup, faults, doubtful>>

Idle == [at |-> "idle", todo |-> <<>>]

TypeOK ==
  /\ disk \subseteq Files /\ used \subseteq Files /\ uploading \subseteq Files /\ doubtful \subseteq Files
  /\ queue \in Seq(Files) /\ IsInjective(queue)
  /\ attempts \in [Files -> 0..MaxAttempts]
  /\ cleanup \in [Cleanups -> [at : {"idle", "check", "remove", "forget"}, todo : Seq(Files)]]
  /\ faults \in 0..MaxFaults

Init ==
  /\ disk = {} /\ used = {} /\ uploading = {} /\ doubtful = {}
  /\ queue = <<>>
  /\ attempts = [f \in Files |-> 0]
  /\ cleanup = [c \in Cleanups |-> Idle]
  /\ faults = 0

Queued == ToSet(queue)
\* A path that is queued already stays where it is.
Enqueue(f) == queue' = IF f \in Queued THEN queue ELSE Append(queue, f)
Fault == faults < MaxFaults /\ faults' = faults + 1

-----------------------------------------------------------------------------
(* withEvidenceImage *)

SaveImage(f) ==
  /\ f \notin disk \cup Queued \cup used \cup doubtful
  /\ \A c \in Cleanups : f \notin ToSet(cleanup[c].todo)
  /\ disk' = disk \cup {f}
  /\ uploading' = uploading \cup {f}
  /\ UNCHANGED <<used, queue, attempts, cleanup, faults, doubtful>>

CreateEvidence(f) ==
  /\ f \in uploading
  /\ used' = used \cup {f}
  /\ uploading' = uploading \ {f}
  /\ UNCHANGED <<disk, queue, attempts, cleanup, faults, doubtful>>

\* The transaction failed, or seems to have.
FailUpload(f) ==
  /\ f \in uploading
  /\ Fault
  /\ \/ UNCHANGED <<used, doubtful>>
     \/ used' = used \cup {f} /\ doubtful' = doubtful \cup {f}
  /\ uploading' = uploading \ {f}
  /\ Enqueue(f)
  /\ UNCHANGED <<disk, attempts, cleanup>>

\* remove_orphaned_comment_evidence, and removeEvidenceImage.
RemovesEvidence(f) == used' = used \ {f} /\ Enqueue(f)

RemoveEvidence(f) ==
  /\ f \in used
  /\ RemovesEvidence(f)
  /\ UNCHANGED <<disk, uploading, attempts, cleanup, faults, doubtful>>

-----------------------------------------------------------------------------
(* cleanupCommentEvidenceFiles *)

Position(f) == CHOOSE i \in DOMAIN queue : queue[i] = f
\* Mutation: the oldest first.
OldestFirst(f, g) == Position(f) < Position(g)
Before(f, g) == attempts[f] < attempts[g] \/ (attempts[f] = attempts[g] /\ Position(f) < Position(g))

\* Each file it reads has as many before it as the cleanup deals with first.
Look(c) ==
  LET number == IF Len(queue) < Take THEN Len(queue) ELSE Take IN
  /\ cleanup[c] = Idle
  /\ queue # <<>>
  /\ \E pending \in [1..number -> Queued] :
       /\ \A i \in 1..number : Cardinality({f \in Queued : Before(f, pending[i])}) = i - 1
       /\ cleanup' = [cleanup EXCEPT ![c] = [at |-> "check", todo |-> pending]]
  /\ UNCHANGED <<disk, used, uploading, queue, attempts, faults, doubtful>>

File(c) == Head(cleanup[c].todo)
At(c, step) == cleanup[c].at = step
Goes(c, step) == cleanup' = [cleanup EXCEPT ![c].at = step]
Proceed(c) ==
  LET rest == Tail(cleanup[c].todo) IN
  cleanup' = [cleanup EXCEPT ![c] = IF rest = <<>> THEN Idle ELSE [at |-> "check", todo |-> rest]]

\* Mutation: what is queued is deleted.
AlwaysUnused(f) == TRUE
IsUnused(f) == f \notin used

Check(c) ==
  /\ At(c, "check")
  /\ Goes(c, IF IsUnused(File(c)) THEN "remove" ELSE "forget")
  /\ UNCHANGED <<disk, used, uploading, queue, attempts, faults, doubtful>>

\* A file that is not there is removed.
RemoveFile(c) ==
  /\ At(c, "remove") /\ File(c) \notin Broken
  /\ disk' = disk \ {File(c)}
  /\ Goes(c, "forget")
  /\ UNCHANGED <<used, uploading, queue, attempts, faults, doubtful>>

Forget(c) ==
  /\ At(c, "forget")
  /\ queue' = IF File(c) \in Queued THEN RemoveAt(queue, Position(File(c))) ELSE queue
  /\ attempts' = [attempts EXCEPT ![File(c)] = 0]
  /\ Proceed(c)
  /\ UNCHANGED <<disk, used, uploading, faults, doubtful>>

\* The count goes with the row: once it is deleted nothing is counted.
FailFile(c) ==
  LET f == File(c) IN
  /\ \/ At(c, "remove") /\ f \in Broken /\ UNCHANGED faults
     \/ cleanup[c] # Idle /\ f \notin Broken /\ Fault
  /\ attempts' = IF f \in Queued /\ attempts[f] < MaxAttempts THEN [attempts EXCEPT ![f] = @ + 1] ELSE attempts
  /\ Proceed(c)
  /\ UNCHANGED <<disk, used, uploading, queue, doubtful>>

Restart ==
  /\ Fault
  /\ doubtful' = doubtful \cup uploading
  /\ uploading' = {}
  /\ cleanup' = [c \in Cleanups |-> Idle]
  /\ UNCHANGED <<disk, used, queue, attempts>>

CleanupStep(c) == Check(c) \/ RemoveFile(c) \/ Forget(c) \/ FailFile(c)

Next ==
  \/ \E f \in Files : SaveImage(f) \/ CreateEvidence(f) \/ FailUpload(f) \/ RemoveEvidence(f)
  \/ \E c \in Cleanups : Look(c) \/ CleanupStep(c)
  \/ Restart

\* The timer of server-init starts a cleanup every minute, and a cleanup ends.
Fairness == \A c \in Cleanups : WF_vars(Look(c)) /\ WF_vars(CleanupStep(c))

Spec == Init /\ [][Next]_vars
FairSpec == Spec /\ Fairness

-----------------------------------------------------------------------------
(* Properties *)

(***************************************************************************)
(* The image of live proof stays on disk, also when its transaction was    *)
(* reported as failed and its path queued (commentEvidenceCleanup.ts:30);  *)
(* and an image nothing names any more stays queued until it is gone,      *)
(* unless a crash left it or its transaction's end was not known.          *)
(***************************************************************************)
FilesFollowProof ==
  /\ used \subseteq disk
  /\ disk \ (used \cup uploading \cup Queued) \subseteq doubtful

(***************************************************************************)
(* A queued file is dealt with, although others ahead of it fail for ever  *)
(* (commentEvidenceCleanup.ts:24).                                         *)
(***************************************************************************)
NoFileIsHeldBack == \A f \in Files \ Broken : f \in Queued ~> f \notin Queued

-----------------------------------------------------------------------------
(* The invariant the proofs use *)

Awaits(c, f) == f \in ToSet(cleanup[c].todo)

\* What waits to be deleted is of an upload that has ended, and nothing names it but what was reported as failed.
WaitsRightly(f) == f \notin uploading /\ (f \in used => f \in doubtful)

\* What a cleanup has found out about the file it is at is still so.
CleanupInv(c) ==
  /\ \A f \in Files : Awaits(c, f) => WaitsRightly(f)
  /\ ~At(c, "idle") => cleanup[c].todo # <<>>
  /\ At(c, "remove") => File(c) \notin used
  /\ At(c, "forget") => File(c) \notin disk \/ File(c) \in doubtful

IInv ==
  /\ TypeOK
  /\ FilesFollowProof
  /\ uploading \subseteq disk /\ uploading \cap used = {}
  /\ \A f \in Queued : WaitsRightly(f)
  /\ \A c \in Cleanups : CleanupInv(c)
=============================================================================
