---------------------------- MODULE ProgressProofs ----------------------------
(***************************************************************************)
(* Proofs about the images of proof, for any paths, cleanups, number of    *)
(* files a cleanup reads, and bounds on faults and attempts.               *)
(*                                                                         *)
(* IInv of EvidenceFiles: what waits to be deleted is of no upload that is *)
(* under way, and nothing names it but what was reported as failed.  So    *)
(* what a cleanup finds unused stays unused until it has removed the file. *)
(***************************************************************************)
EXTENDS MCProgress, Sequences, SequenceTheorems, TLAPS

-----------------------------------------------------------------------------
(* Queues *)

\* What a sequence holds.
LEMMA Held ==
  ASSUME NEW S, NEW s \in Seq(S)
  PROVE  /\ Images!ToSet(s) = {s[i] : i \in 1..Len(s)} /\ Images!ToSet(s) \subseteq S
         /\ s # <<>> => /\ Head(s) \in Images!ToSet(s) /\ Tail(s) \in Seq(S)
                        /\ Images!ToSet(Tail(s)) \subseteq Images!ToSet(s)
<1>1. Images!ToSet(s) = {s[i] : i \in 1..Len(s)}
  BY DEF Images!ToSet
<1>2. ASSUME s # <<>>
      PROVE  /\ Head(s) = s[1] /\ 1 \in 1..Len(s) /\ Tail(s) \in Seq(S) /\ Len(Tail(s)) = Len(s) - 1
             /\ \A i \in 1..Len(Tail(s)) : Tail(s)[i] = s[i + 1] /\ i + 1 \in 1..Len(s)
  BY <1>2
<1>3. ASSUME s # <<>> PROVE Images!ToSet(Tail(s)) = {Tail(s)[i] : i \in 1..Len(Tail(s))}
  <2> DEFINE t == Tail(s)
  <2>1. DOMAIN t = 1..Len(t)
    BY <1>2, <1>3
  <2>. HIDE DEF t
  <2>2. Images!ToSet(t) = {t[i] : i \in 1..Len(t)}
    BY <2>1 DEF Images!ToSet
  <2>. QED BY <2>2 DEF t
<1>. QED BY <1>1, <1>2, <1>3

\* A path added at the end, which was not there.
LEMMA Appended ==
  ASSUME NEW S, NEW s \in Seq(S), NEW e \in S, e \notin Images!ToSet(s), Images!IsInjective(s)
  PROVE  /\ Append(s, e) \in Seq(S) /\ Images!IsInjective(Append(s, e))
         /\ Images!ToSet(Append(s, e)) = Images!ToSet(s) \cup {e}
<1> DEFINE new == Append(s, e)
<1>1. /\ new \in Seq(S) /\ Len(new) = Len(s) + 1 /\ new[Len(s) + 1] = e
      /\ \A i \in 1..Len(s) : new[i] = s[i]
      /\ DOMAIN s = 1..Len(s) /\ DOMAIN new = 1..(Len(s) + 1) /\ Len(s) \in Nat
  OBVIOUS
<1>. HIDE DEF new
<1>2. Images!ToSet(new) = Images!ToSet(s) \cup {e}
  BY <1>1 DEF Images!ToSet
<1>3. \A i \in 1..Len(s) : s[i] # e
  BY <1>1 DEF Images!ToSet
<1>4. Images!IsInjective(new)
  BY <1>1, <1>3 DEF Images!IsInjective
<1>. QED BY <1>1, <1>2, <1>4 DEF new

\* A path taken out, which was there once.
LEMMA Removed ==
  ASSUME NEW S, NEW s \in Seq(S), Images!IsInjective(s), NEW p \in 1..Len(s)
  PROVE  /\ Images!RemoveAt(s, p) \in Seq(S) /\ Images!IsInjective(Images!RemoveAt(s, p))
         /\ Images!ToSet(Images!RemoveAt(s, p)) = Images!ToSet(s) \ {s[p]}
<1> DEFINE new == Images!RemoveAt(s, p)
<1>1. /\ new \in Seq(S) /\ Len(new) = Len(s) - 1
      /\ \A i \in 1..(Len(s) - 1) : new[i] = IF i < p THEN s[i] ELSE s[i + 1]
      /\ DOMAIN s = 1..Len(s) /\ DOMAIN new = 1..(Len(s) - 1) /\ Len(s) \in Nat
  <2> DEFINE a == SubSeq(s, 1, p - 1)
             b == SubSeq(s, p + 1, Len(s))
  <2>1. /\ a \in Seq(S) /\ Len(a) = p - 1 /\ \A i \in 1..(p - 1) : a[i] = s[i]
        /\ b \in Seq(S) /\ Len(b) = Len(s) - p /\ \A i \in 1..(Len(s) - p) : b[i] = s[p + i]
    BY SubSeqProperties
  <2>2. new = a \o b
    BY DEF Images!RemoveAt
  <2>. HIDE DEF a, b, new
  <2>3. /\ new \in Seq(S) /\ Len(new) = Len(s) - 1
        /\ \A i \in 1..(Len(s) - 1) : new[i] = IF i <= Len(a) THEN a[i] ELSE b[i - Len(a)]
    <3>1. Len(s) \in Nat /\ p \in 1..Len(s) /\ Len(a) + Len(b) = Len(s) - 1
      BY <2>1
    <3>2. /\ a \o b \in Seq(S) /\ Len(a \o b) = Len(a) + Len(b)
          /\ \A i \in 1..(Len(a) + Len(b)) : (a \o b)[i] = IF i <= Len(a) THEN a[i] ELSE b[i - Len(a)]
      BY <2>1, ConcatProperties
    <3>. QED BY <2>2, <3>1, <3>2
  <2>. QED BY <2>1, <2>3
<1>. HIDE DEF new
<1>2. \A a, b \in 1..Len(s) : s[a] = s[b] => a = b
  BY <1>1 DEF Images!IsInjective
<1>3. Images!IsInjective(new)
  BY <1>1, <1>2 DEF Images!IsInjective
<1>4. ASSUME NEW i \in 1..(Len(s) - 1) PROVE new[i] \in Images!ToSet(s) /\ new[i] # s[p]
  BY <1>1, <1>2 DEF Images!ToSet
<1>5. ASSUME NEW j \in 1..Len(s), j # p PROVE s[j] \in Images!ToSet(new)
  <2>1. CASE j < p
    BY <1>1, <2>1 DEF Images!ToSet
  <2>2. CASE j > p
    <3>1. j - 1 \in 1..(Len(s) - 1) /\ new[j - 1] = s[j]
      BY <1>1, <2>2
    <3>. QED BY <1>1, <3>1 DEF Images!ToSet
  <2>. QED BY <1>5, <2>1, <2>2
<1>6. Images!ToSet(new) = Images!ToSet(s) \ {s[p]}
  <2>1. Images!ToSet(new) = {new[i] : i \in 1..(Len(s) - 1)} /\ Images!ToSet(s) = {s[i] : i \in 1..Len(s)}
    BY <1>1 DEF Images!ToSet
  <2>. QED BY <1>4, <1>5, <2>1
<1>. QED BY <1>1, <1>3, <1>6 DEF new

-----------------------------------------------------------------------------
(* Images of proof *)

Working == [at : {"idle", "check", "remove", "forget"}, todo : Seq(Files)]

\* Nothing is saved or queued at first.
LEMMA ImagesInit == Images!Init => Images!IInv
<1> SUFFICES ASSUME Images!Init PROVE Images!IInv
  OBVIOUS
<1>1. Images!ToSet(<<>>) = {} /\ Images!IsInjective(<<>>)
  BY DEF Images!ToSet, Images!IsInjective
<1>2. Images!Queued = {}
  BY <1>1 DEF Images!Init, Images!Queued
<1>3. Images!TypeOK
  BY <1>1, BoundsAssumption DEF Images!Init, Images!TypeOK, Images!Idle
<1>4. \A c \in Cleanups : Images!CleanupInv(c)
  BY <1>1 DEF Images!Init, Images!CleanupInv, Images!Awaits, Images!At, Images!Idle
<1>. QED BY <1>2, <1>3, <1>4 DEF Images!Init, Images!IInv, Images!FilesFollowProof

\* The file a cleanup is at waits to be deleted.
LEMMA FileWaits ==
  ASSUME Images!IInv, NEW c \in Cleanups, cleanup[c] # Images!Idle
  PROVE  /\ cleanup[c] \in Working /\ cleanup[c].todo # <<>>
         /\ Images!File(c) \in Files /\ Images!Awaits(c, Images!File(c)) /\ Images!WaitsRightly(Images!File(c))
<1>1. cleanup[c] \in Working
  BY DEF Images!IInv, Images!TypeOK, Working
<1>2. cleanup[c].todo # <<>>
  BY <1>1 DEF Images!IInv, Images!CleanupInv, Images!At, Images!Idle, Working
<1>. QED BY <1>1, <1>2, Held DEF Images!IInv, Images!CleanupInv, Images!Awaits, Images!File, Working

\* What the cleanups look at when only the rest changes.
LEMMA SameCleanups ==
  ASSUME cleanup' = cleanup
  PROVE  \A c : /\ \A f : Images!Awaits(c, f)' = Images!Awaits(c, f)
                /\ \A step : Images!At(c, step)' = Images!At(c, step)
                /\ Images!File(c)' = Images!File(c)
BY DEF Images!Awaits, Images!At, Images!File

\* The next file, if there is one.
LEMMA Proceeds ==
  ASSUME Images!IInv, NEW c \in Cleanups, cleanup[c] # Images!Idle, Images!Proceed(c)
  PROVE  /\ cleanup' \in [Cleanups -> Working] /\ \A d \in Cleanups \ {c} : cleanup'[d] = cleanup[d]
         /\ cleanup'[c].at \in {"idle", "check"}
         /\ cleanup'[c].at = "check" => cleanup'[c].todo # <<>>
         /\ Images!ToSet(cleanup'[c].todo) \subseteq Images!ToSet(cleanup[c].todo)
<1> DEFINE rest == Tail(cleanup[c].todo)
           new == IF rest = <<>> THEN Images!Idle ELSE [at |-> "check", todo |-> rest]
<1>1. rest \in Seq(Files) /\ Images!ToSet(rest) \subseteq Images!ToSet(cleanup[c].todo)
  BY FileWaits, Held DEF Working
<1>2. Images!ToSet(<<>>) = {}
  BY DEF Images!ToSet
<1>3. /\ new \in Working /\ new.at \in {"idle", "check"}
      /\ new.at = "check" => new.todo # <<>>
      /\ Images!ToSet(new.todo) \subseteq Images!ToSet(cleanup[c].todo)
  <2>1. CASE rest = <<>>
    BY <1>2, <2>1 DEF Images!Idle, Working
  <2>2. CASE rest # <<>>
    BY <1>1, <2>2 DEF Working
  <2>. QED BY <2>1, <2>2
<1>4. cleanup \in [Cleanups -> Working] /\ cleanup' = [cleanup EXCEPT ![c] = new]
  BY DEF Images!IInv, Images!TypeOK, Images!Proceed, Working
<1>. HIDE DEF new
<1>5. cleanup'[c] = new /\ cleanup' \in [Cleanups -> Working] /\ \A d \in Cleanups \ {c} : cleanup'[d] = cleanup[d]
  BY <1>3, <1>4
<1>. QED BY <1>3, <1>5

\* The next thing to do with the same file.
LEMMA GoesOn ==
  ASSUME Images!IInv, NEW c \in Cleanups, NEW step \in {"remove", "forget"}, Images!Goes(c, step)
  PROVE  /\ cleanup' \in [Cleanups -> Working] /\ \A d \in Cleanups \ {c} : cleanup'[d] = cleanup[d]
         /\ cleanup'[c].at = step /\ cleanup'[c].todo = cleanup[c].todo
BY DEF Images!IInv, Images!TypeOK, Images!Goes, Working

\* A path is queued.
LEMMA Enqueued ==
  ASSUME Images!IInv, NEW f \in Files, Images!Enqueue(f)
  PROVE  queue' \in Seq(Files) /\ Images!IsInjective(queue') /\ Images!Queued' = Images!Queued \cup {f}
<1>1. queue \in Seq(Files) /\ Images!IsInjective(queue)
  BY DEF Images!IInv, Images!TypeOK
<1>2. CASE f \in Images!Queued
  BY <1>1, <1>2 DEF Images!Enqueue, Images!Queued
<1>3. CASE f \notin Images!Queued
  BY <1>1, <1>3, Appended DEF Images!Enqueue, Images!Queued
<1>. QED BY <1>2, <1>3

\* A new path is neither queued nor read by a cleanup.
LEMMA ImageSaved ==
  ASSUME Images!IInv, NEW f \in Files, Images!SaveImage(f) PROVE Images!IInv'
<1>1. Images!TypeOK'
  BY DEF Images!IInv, Images!TypeOK, Images!SaveImage
<1>2. Images!Queued' = Images!Queued
  BY DEF Images!SaveImage, Images!Queued
<1>3. \A c \in Cleanups : ~Images!Awaits(c, f)
  BY DEF Images!SaveImage, Images!Awaits
<1>4. ASSUME NEW c \in Cleanups PROVE Images!CleanupInv(c)'
  <2>1. \A g \in Files : Images!Awaits(c, g)' => Images!WaitsRightly(g)'
    BY <1>3, SameCleanups DEF Images!SaveImage, Images!IInv, Images!CleanupInv, Images!WaitsRightly
  <2>2. ~Images!At(c, "idle") => Images!File(c) # f
    BY <1>3, FileWaits DEF Images!At, Images!Idle
  <2>. QED BY <2>1, <2>2, SameCleanups DEF Images!SaveImage, Images!IInv, Images!CleanupInv, Images!At
<1>. QED BY <1>1, <1>2, <1>4 DEF Images!SaveImage, Images!IInv, Images!FilesFollowProof, Images!WaitsRightly

\* What is uploaded waits nowhere, so no cleanup is at it.
LEMMA EvidenceCreated ==
  ASSUME Images!IInv, NEW f \in Files, Images!CreateEvidence(f) PROVE Images!IInv'
<1>1. Images!TypeOK'
  BY DEF Images!IInv, Images!TypeOK, Images!CreateEvidence
<1>2. Images!Queued' = Images!Queued
  BY DEF Images!CreateEvidence, Images!Queued
<1>3. ASSUME NEW c \in Cleanups PROVE Images!CleanupInv(c)'
  <2>1. \A g \in Files : Images!Awaits(c, g)' => Images!WaitsRightly(g)'
    BY SameCleanups DEF Images!CreateEvidence, Images!IInv, Images!CleanupInv, Images!WaitsRightly
  <2>2. ~Images!At(c, "idle") => Images!File(c) # f
    BY FileWaits DEF Images!At, Images!Idle, Images!CreateEvidence, Images!WaitsRightly
  <2>. QED BY <2>1, <2>2, SameCleanups DEF Images!CreateEvidence, Images!IInv, Images!CleanupInv, Images!At
<1>. QED BY <1>1, <1>2, <1>3 DEF Images!CreateEvidence, Images!IInv, Images!FilesFollowProof, Images!WaitsRightly

\* Nor is one at what is queued now; if the row is there all the same, the file is doubtful.
LEMMA UploadFailed ==
  ASSUME Images!IInv, NEW f \in Files, Images!FailUpload(f) PROVE Images!IInv'
<1>1. Images!TypeOK'
  BY Enqueued, BoundsAssumption DEF Images!IInv, Images!TypeOK, Images!FailUpload, Images!Fault
<1>2. Images!Queued' = Images!Queued \cup {f}
  BY Enqueued DEF Images!FailUpload
<1>3. ASSUME NEW c \in Cleanups PROVE Images!CleanupInv(c)'
  <2>1. \A g \in Files : Images!Awaits(c, g)' => Images!WaitsRightly(g)'
    BY SameCleanups DEF Images!FailUpload, Images!IInv, Images!CleanupInv, Images!WaitsRightly
  <2>2. ~Images!At(c, "idle") => Images!File(c) # f
    BY FileWaits DEF Images!At, Images!Idle, Images!FailUpload, Images!WaitsRightly
  <2>. QED BY <2>1, <2>2, SameCleanups DEF Images!FailUpload, Images!IInv, Images!CleanupInv, Images!At
<1>. QED BY <1>1, <1>2, <1>3 DEF Images!FailUpload, Images!IInv, Images!FilesFollowProof, Images!WaitsRightly

\* The row goes, and the path is queued.
LEMMA EvidenceRemoved ==
  ASSUME Images!IInv, NEW f \in Files, Images!RemoveEvidence(f) PROVE Images!IInv'
<1>1. Images!TypeOK'
  BY Enqueued DEF Images!IInv, Images!TypeOK, Images!RemoveEvidence, Images!RemovesEvidence
<1>2. Images!Queued' = Images!Queued \cup {f}
  BY Enqueued DEF Images!RemoveEvidence, Images!RemovesEvidence
<1>3. ASSUME NEW c \in Cleanups PROVE Images!CleanupInv(c)'
  BY SameCleanups DEF Images!RemoveEvidence, Images!RemovesEvidence, Images!IInv, Images!CleanupInv, Images!WaitsRightly
<1>. QED BY <1>1, <1>2, <1>3
  DEF Images!RemoveEvidence, Images!RemovesEvidence, Images!IInv, Images!FilesFollowProof, Images!WaitsRightly

\* A cleanup reads what is queued.
LEMMA FilesRead ==
  ASSUME Images!IInv, NEW c \in Cleanups, Images!Look(c) PROVE Images!IInv'
<1>1. queue \in Seq(Files) /\ Images!Queued \subseteq Files /\ Images!Queued' = Images!Queued
  BY Held DEF Images!IInv, Images!TypeOK, Images!Queued, Images!Look
<1>2. PICK number \in Nat \ {0} :
        \E todo \in [1..number -> Images!Queued] :
          cleanup' = [cleanup EXCEPT ![c] = [at |-> "check", todo |-> todo]]
  <2>1. (IF Len(queue) < Take THEN Len(queue) ELSE Take) \in Nat \ {0}
    BY <1>1, BoundsAssumption DEF Images!Look
  <2>. QED BY <2>1 DEF Images!Look
<1>. PICK pending \in [1..number -> Images!Queued] :
       cleanup' = [cleanup EXCEPT ![c] = [at |-> "check", todo |-> pending]]
  BY <1>2
<1>3. pending \in Seq(Files) /\ pending # <<>> /\ Images!ToSet(pending) \subseteq Images!Queued
  BY <1>1 DEF Images!ToSet
<1>4. /\ cleanup' \in [Cleanups -> Working] /\ \A d \in Cleanups \ {c} : cleanup'[d] = cleanup[d]
      /\ cleanup'[c].at = "check" /\ cleanup'[c].todo = pending
  BY <1>3 DEF Images!IInv, Images!TypeOK, Working
<1>5. Images!TypeOK'
  BY <1>4 DEF Images!IInv, Images!TypeOK, Images!Look, Working
<1>6. ASSUME NEW d \in Cleanups PROVE Images!CleanupInv(d)'
  <2>1. CASE d = c
    BY <1>3, <1>4, <2>1 DEF Images!IInv, Images!CleanupInv, Images!Awaits, Images!At, Images!WaitsRightly, Images!Look
  <2>2. CASE d # c
    BY <1>4, <2>2
    DEF Images!IInv, Images!CleanupInv, Images!Awaits, Images!At, Images!File, Images!WaitsRightly, Images!Look
  <2>. QED BY <2>1, <2>2
<1>. QED BY <1>1, <1>5, <1>6 DEF Images!Look, Images!IInv, Images!FilesFollowProof, Images!WaitsRightly

(***************************************************************************)
(* A step of one cleanup: what the others have found out is still so, and  *)
(* what this one has to do.                                                *)
(***************************************************************************)
LEMMA OthersRest ==
  ASSUME Images!IInv, NEW c \in Cleanups, \A d \in Cleanups \ {c} : cleanup'[d] = cleanup[d],
         used' = used, uploading' = uploading, doubtful' = doubtful, disk' \subseteq disk,
         Images!ToSet(cleanup'[c].todo) \subseteq Images!ToSet(cleanup[c].todo),
         ~Images!At(c, "idle")' => cleanup'[c].todo # <<>>,
         Images!At(c, "remove")' => Images!File(c)' \notin used,
         Images!At(c, "forget")' => Images!File(c)' \notin disk' \/ Images!File(c)' \in doubtful
  PROVE  \A d \in Cleanups : Images!CleanupInv(d)'
<1> SUFFICES ASSUME NEW d \in Cleanups PROVE Images!CleanupInv(d)'
  OBVIOUS
<1>1. CASE d = c
  BY <1>1 DEF Images!IInv, Images!CleanupInv, Images!Awaits, Images!WaitsRightly
<1>2. CASE d # c
  BY <1>2 DEF Images!IInv, Images!CleanupInv, Images!Awaits, Images!At, Images!File, Images!WaitsRightly
<1>. QED BY <1>1, <1>2

\* A file that is named after all was reported as failed.
LEMMA UseChecked ==
  ASSUME Images!IInv, NEW c \in Cleanups, Images!Check(c) PROVE Images!IInv'
<1>1. PICK step \in {"remove", "forget"} :
        /\ Images!Goes(c, step)
        /\ step = "remove" <=> Images!File(c) \notin used
  BY DEF Images!Check, Images!IsUnused
<1>2. /\ cleanup' \in [Cleanups -> Working] /\ \A d \in Cleanups \ {c} : cleanup'[d] = cleanup[d]
      /\ cleanup'[c].at = step /\ cleanup'[c].todo = cleanup[c].todo
  BY <1>1, GoesOn
<1>3. Images!File(c)' = Images!File(c) /\ Images!WaitsRightly(Images!File(c)) /\ cleanup[c].todo # <<>>
  BY <1>2, FileWaits DEF Images!File, Images!Check, Images!At, Images!Idle
<1>4. \A d \in Cleanups : Images!CleanupInv(d)'
  BY <1>1, <1>2, <1>3, OthersRest DEF Images!Check, Images!At, Images!WaitsRightly
<1>5. Images!TypeOK' /\ Images!Queued' = Images!Queued
  BY <1>2 DEF Images!IInv, Images!TypeOK, Images!Check, Images!Queued, Working
<1>. QED BY <1>4, <1>5 DEF Images!Check, Images!IInv, Images!FilesFollowProof, Images!WaitsRightly

\* Nothing names the file, and nobody is saving it.
LEMMA FileRemoved ==
  ASSUME Images!IInv, NEW c \in Cleanups, Images!RemoveFile(c) PROVE Images!IInv'
<1>1. /\ cleanup' \in [Cleanups -> Working] /\ \A d \in Cleanups \ {c} : cleanup'[d] = cleanup[d]
      /\ cleanup'[c].at = "forget" /\ cleanup'[c].todo = cleanup[c].todo
  BY GoesOn DEF Images!RemoveFile
<1>2. /\ Images!File(c)' = Images!File(c) /\ Images!WaitsRightly(Images!File(c)) /\ cleanup[c].todo # <<>>
      /\ Images!File(c) \notin used
  BY <1>1, FileWaits DEF Images!File, Images!RemoveFile, Images!At, Images!Idle, Images!IInv, Images!CleanupInv
<1>3. \A d \in Cleanups : Images!CleanupInv(d)'
  BY <1>1, <1>2, OthersRest DEF Images!RemoveFile, Images!At
<1>4. Images!TypeOK' /\ Images!Queued' = Images!Queued
  BY <1>1 DEF Images!IInv, Images!TypeOK, Images!RemoveFile, Images!Queued, Working
<1>. QED BY <1>2, <1>3, <1>4 DEF Images!RemoveFile, Images!IInv, Images!FilesFollowProof, Images!WaitsRightly

\* The file is gone, or doubtful.
LEMMA RowDeleted ==
  ASSUME Images!IInv, NEW c \in Cleanups, Images!Forget(c) PROVE Images!IInv'
<1> DEFINE f == Images!File(c)
<1>1. cleanup[c] # Images!Idle
  BY DEF Images!Forget, Images!At, Images!Idle
<1>2. /\ cleanup' \in [Cleanups -> Working] /\ \A d \in Cleanups \ {c} : cleanup'[d] = cleanup[d]
      /\ cleanup'[c].at \in {"idle", "check"}
      /\ cleanup'[c].at = "check" => cleanup'[c].todo # <<>>
      /\ Images!ToSet(cleanup'[c].todo) \subseteq Images!ToSet(cleanup[c].todo)
  BY <1>1, Proceeds DEF Images!Forget
<1>3. f \in Files /\ (f \notin disk \/ f \in doubtful)
  BY <1>1, FileWaits DEF Images!Forget, Images!IInv, Images!CleanupInv
<1>4. queue' \in Seq(Files) /\ Images!IsInjective(queue') /\ Images!Queued' = Images!Queued \ {f}
  <2>1. queue \in Seq(Files) /\ Images!IsInjective(queue)
    BY DEF Images!IInv, Images!TypeOK
  <2>2. CASE f \in Images!Queued
    <3>1. Images!Position(f) \in 1..Len(queue) /\ queue[Images!Position(f)] = f
      BY <2>1, <2>2 DEF Images!Queued, Images!ToSet, Images!Position
    <3>. QED BY <2>1, <2>2, <3>1, Removed DEF Images!Forget, Images!Queued
  <2>3. CASE f \notin Images!Queued
    BY <2>1, <2>3 DEF Images!Forget, Images!Queued
  <2>. QED BY <2>2, <2>3
<1>5. \A d \in Cleanups : Images!CleanupInv(d)'
  BY <1>2, OthersRest DEF Images!Forget, Images!At
<1>6. attempts' \in [Files -> 0..MaxAttempts]
  <2>1. attempts \in [Files -> 0..MaxAttempts] /\ attempts' = [attempts EXCEPT ![f] = 0]
    BY DEF Images!IInv, Images!TypeOK, Images!Forget
  <2>2. 0 \in 0..MaxAttempts
    BY BoundsAssumption
  <2>. QED BY <2>1, <2>2
<1>. HIDE DEF f
<1>7. Images!TypeOK'
  BY <1>2, <1>4, <1>6 DEF Images!IInv, Images!TypeOK, Images!Forget, Working
<1>. QED BY <1>3, <1>4, <1>5, <1>7 DEF Images!Forget, Images!IInv, Images!FilesFollowProof, Images!WaitsRightly

\* The path stays queued.
LEMMA FileFailed ==
  ASSUME Images!IInv, NEW c \in Cleanups, Images!FailFile(c) PROVE Images!IInv'
<1>1. cleanup[c] # Images!Idle
  BY DEF Images!FailFile, Images!At, Images!Idle
<1>2. /\ cleanup' \in [Cleanups -> Working] /\ \A d \in Cleanups \ {c} : cleanup'[d] = cleanup[d]
      /\ cleanup'[c].at \in {"idle", "check"}
      /\ cleanup'[c].at = "check" => cleanup'[c].todo # <<>>
      /\ Images!ToSet(cleanup'[c].todo) \subseteq Images!ToSet(cleanup[c].todo)
  BY <1>1, Proceeds DEF Images!FailFile
<1>3. \A d \in Cleanups : Images!CleanupInv(d)'
  BY <1>2, OthersRest DEF Images!FailFile, Images!At
<1>4. attempts' \in [Files -> 0..MaxAttempts] /\ faults' \in 0..MaxFaults
  BY <1>1, FileWaits, BoundsAssumption DEF Images!IInv, Images!TypeOK, Images!FailFile, Images!Fault
<1>5. Images!TypeOK' /\ Images!Queued' = Images!Queued
  BY <1>2, <1>4 DEF Images!IInv, Images!TypeOK, Images!FailFile, Images!Queued, Working
<1>. QED BY <1>3, <1>5 DEF Images!FailFile, Images!IInv, Images!FilesFollowProof, Images!WaitsRightly

\* What was being saved is doubtful from now on.
LEMMA Restarted ==
  ASSUME Images!IInv, Images!Restart PROVE Images!IInv'
<1>1. Images!ToSet(<<>>) = {}
  BY DEF Images!ToSet
<1>2. \A d \in Cleanups : Images!CleanupInv(d)'
  BY <1>1 DEF Images!Restart, Images!CleanupInv, Images!Awaits, Images!At, Images!Idle
<1>3. Images!TypeOK' /\ Images!Queued' = Images!Queued
  BY BoundsAssumption DEF Images!IInv, Images!TypeOK, Images!Restart, Images!Queued, Images!Idle, Images!Fault
<1>. QED BY <1>2, <1>3 DEF Images!Restart, Images!IInv, Images!FilesFollowProof, Images!WaitsRightly

(***************************************************************************)
(* Every step keeps it, and so does standing still.                        *)
(***************************************************************************)
LEMMA ImagesKept == Images!IInv /\ [Images!Next]_images => Images!IInv'
<1> SUFFICES ASSUME Images!IInv, [Images!Next]_images PROVE Images!IInv'
  OBVIOUS
<1>1. ASSUME NEW f \in Files,
             Images!SaveImage(f) \/ Images!CreateEvidence(f) \/ Images!FailUpload(f) \/ Images!RemoveEvidence(f)
      PROVE  Images!IInv'
  BY <1>1, ImageSaved, EvidenceCreated, UploadFailed, EvidenceRemoved
<1>2. ASSUME NEW c \in Cleanups, Images!Look(c) \/ Images!CleanupStep(c) PROVE Images!IInv'
  BY <1>2, FilesRead, UseChecked, FileRemoved, RowDeleted, FileFailed DEF Images!CleanupStep
<1>3. CASE UNCHANGED images
  <2>1. Images!TypeOK' /\ Images!Queued' = Images!Queued
    BY <1>3 DEF images, Images!IInv, Images!TypeOK, Images!Queued
  <2>2. ASSUME NEW c \in Cleanups PROVE Images!CleanupInv(c)'
    BY <1>3, SameCleanups DEF images, Images!IInv, Images!CleanupInv, Images!WaitsRightly
  <2>. QED BY <1>3, <2>1, <2>2 DEF images, Images!IInv, Images!FilesFollowProof, Images!WaitsRightly
<1>. QED BY <1>1, <1>2, <1>3, Restarted DEF Images!Next

(***************************************************************************)
(* IInv of EvidenceFiles is inductive.                                     *)
(***************************************************************************)
THEOREM ImagesInvariance == Spec => []Images!IInv
<1>1. Init => Images!IInv
  BY ImagesInit DEF Init
<1>2. Images!IInv /\ [Next]_<<part, scores, images>> => Images!IInv'
  BY ImagesKept DEF Next
<1>. QED BY <1>1, <1>2, PTL DEF Spec

(***************************************************************************)
(* The image of live proof stays on disk, and one nothing names any more   *)
(* stays queued until it is gone, whatever uploads fail or are removed and *)
(* however cleanups and restarts overlap, unless a crash left it or its    *)
(* transaction's end was not known (commentEvidenceCleanup.ts:30).         *)
(***************************************************************************)
THEOREM FilesAlwaysFollowProof == Spec => []FilesFollowProof
<1>1. Images!IInv => FilesFollowProof
  BY DEF Images!IInv, FilesFollowProof
<1>. QED BY <1>1, ImagesInvariance, PTL
===============================================================================
