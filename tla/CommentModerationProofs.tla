---------------------- MODULE CommentModerationProofs ----------------------
(***************************************************************************)
(* Proofs about CommentModeration for every set of texts and reporters and *)
(* every bound.  IInv is inductive: one lemma per part of it says that a   *)
(* step keeps the part, with one step of the proof per action that can     *)
(* disturb it.                                                             *)
(***************************************************************************)
EXTENDS CommentModeration, TLAPS

(***************************************************************************)
(* Before the post is written nothing has happened to it.                  *)
(***************************************************************************)
LEMMA InitInvariant == Init => IInv
<1> SUFFICES ASSUME Init PROVE IInv
  OBVIOUS
<1> USE DEF Init
<1>1. TypeOK
  <2>1. NoEdit \in Edit
    BY TextsAssumption, BoundsAssumption DEF NoEdit, Edit, Versions
  <2>2. IdleWorker \in Worker
    BY TextsAssumption, BoundsAssumption DEF IdleWorker, Worker, Versions
  <2>3. edits \in [EditIds -> Edit]
    BY <2>1
  <2>4. reports \in [Reporters -> ReportState]
    BY DEF ReportState
  <2>5. version \in Versions /\ withdrawnVersion \in Versions
    BY BoundsAssumption DEF Versions
  <2>. QED
    BY <2>2, <2>3, <2>4, <2>5, TextsAssumption DEF TypeOK, Status, Queue, Verdict, Proof
<1>2. PendingEdits = {}
  BY DEF PendingEdits, NoEdit, EditIds
<1>3. OpenReports = {}
  BY DEF OpenReports
<1>4. QueueInv /\ HumanInv /\ UnwrittenInv
  BY <1>2 DEF QueueInv, ModerationState, HumanInv, WasPublic, IsPublished, UnwrittenInv,
              IdleWorker
<1>5. ReportInv
  BY <1>2, <1>3 DEF ReportInv, NothingOpenOnHiddenPosts, IsPublished
<1>6. EditInv /\ OwedInv /\ ClaimInv
  BY <1>2 DEF EditInv, RedactionSticks, OwedInv, ClaimInv
<1>7. WorkerInv
  BY DEF WorkerInv, IdleWorker
<1>. QED BY <1>1, <1>4, <1>5, <1>6, <1>7 DEF IInv

(***************************************************************************)
(* The values the actions write by name are in the sets of their columns.  *)
(***************************************************************************)
LEMMA NamedValues ==
  /\ {"ABSENT", "PENDING", "APPROVED", "REJECTED", "WITHDRAWN"} \subseteq Status
  /\ {"NONE", "APPROVE", "REJECT", "HOLD"} \subseteq Verdict
  /\ {"NONE", "WAITING", "NOTED", "COUNTS", "FAILED"} \subseteq Proof
  /\ {"NONE", "OPEN", "ACTION_TAKEN", "NO_ACTION", "WITHDRAWN"} \subseteq ReportState
  /\ "RESOLVED" \in Queue
  /\ 0 \in Versions
  /\ NoEdit \in Edit /\ DecidedEdit \in Edit /\ IdleWorker \in Worker
<1>1. 0 \in Versions
  BY BoundsAssumption DEF Versions
<1>2. NoEdit \in Edit /\ DecidedEdit \in Edit
  BY <1>1, TextsAssumption DEF NoEdit, DecidedEdit, Edit
<1>3. IdleWorker \in Worker
  BY <1>1, TextsAssumption, BoundsAssumption DEF IdleWorker, Worker
<1>. QED BY <1>1, <1>2, <1>3 DEF Status, Verdict, Proof, ReportState, Queue

\* The columns Moderate writes, and those the decision on an edit writes.
ModeratedTypes ==
  /\ status \in Status /\ moderationState \in Queue
  /\ aiAction \in Verdict /\ aiDecided \in BOOLEAN /\ humanAction \in Verdict
  /\ everPublished \in BOOLEAN

EditedTypes ==
  /\ version \in Versions /\ text \in Texts /\ claims \in BOOLEAN
  /\ edits \in [EditIds -> Edit]

\* The ways an edit is decided, whoever decides.
EditDecision(i) ==
  \/ EditApplies(i) /\ ApproveEdit(i)
  \/ RejectEdit(i)
  \/ HoldEdit(i)

(***************************************************************************)
(* A decision on the post keeps its columns in their sets.                 *)
(***************************************************************************)
LEMMA ModerateTypes ==
  ASSUME TypeOK, NEW s \in Status, NEW ai \in Verdict, NEW decided \in BOOLEAN,
         NEW human \in Verdict, Moderate(s, ai, decided, human)
  PROVE  ModeratedTypes'
BY DEF TypeOK, Moderate, ModeratedTypes, ModerationState, Queue

(***************************************************************************)
(* Whatever a proof check decides, it keeps the columns in their sets.     *)
(***************************************************************************)
LEMMA ProofCheckTypes ==
  ASSUME TypeOK, NEW p \in Proof, PublishIfHeldOnlyForProof(p)
  PROVE  ModeratedTypes' /\ owed' \in BOOLEAN /\ vouched' \in BOOLEAN
<1>1. CASE PublishesOnProof(p)
  <2>1. Moderate("APPROVED", aiAction, aiDecided, "APPROVE")
    BY <1>1 DEF PublishIfHeldOnlyForProof, HumanDecides
  <2>2. ModeratedTypes'
    BY <2>1, ModerateTypes, NamedValues DEF TypeOK
  <2>. QED
    BY <1>1, <2>2 DEF PublishIfHeldOnlyForProof, HumanDecides, TypeOK
<1>2. CASE ~PublishesOnProof(p)
  BY <1>2 DEF PublishIfHeldOnlyForProof, TypeOK, ModeratedTypes
<1>. QED BY <1>1, <1>2

(***************************************************************************)
(* The decision on an edit keeps the content in range: the edit it carries *)
(* out was written for a version below the bound.                          *)
(***************************************************************************)
LEMMA EditDecisionTypes ==
  ASSUME TypeOK, EditInv, NEW i \in EditIds, EditDecision(i)
  PROVE  EditedTypes'
<1>1. CASE EditApplies(i) /\ ApproveEdit(i)
  <2>1. edits' \in [EditIds -> Edit]
    BY <1>1, NamedValues DEF ApproveEdit, TypeOK
  <2>2. edits[i].base < MaxVersion /\ edits[i].base = version
    BY <1>1 DEF EditApplies, EditInv, PendingEdits
  <2>3. version' \in Versions
    BY <1>1, <2>2, BoundsAssumption DEF ApproveEdit, TypeOK, Versions
  <2>4. text' \in Texts /\ claims' \in BOOLEAN
    BY <1>1 DEF ApproveEdit, TypeOK, Edit
  <2>. QED BY <2>1, <2>3, <2>4 DEF EditedTypes
<1>2. CASE RejectEdit(i)
  BY <1>2, NamedValues DEF RejectEdit, TypeOK, EditedTypes, contentVars
<1>3. CASE HoldEdit(i)
  <2>1. edits' \in [EditIds -> Edit]
    BY <1>3 DEF HoldEdit, TypeOK, Edit
  <2>. QED BY <1>3, <2>1 DEF HoldEdit, TypeOK, EditedTypes, contentVars
<1>. QED BY <1>1, <1>2, <1>3 DEF EditDecision

(***************************************************************************)
(* Every step keeps every variable in its set; an approved edit needs the  *)
(* bound on its base version to keep the new version in range.             *)
(***************************************************************************)
LEMMA TypeKept == TypeOK /\ EditInv /\ WorkerInv /\ [Next]_vars => TypeOK'
<1> SUFFICES ASSUME TypeOK, EditInv, WorkerInv, [Next]_vars PROVE TypeOK'
  OBVIOUS
<1> USE TextsAssumption, BoundsAssumption
<1> USE NamedValues
<1> USE DEF TypeOK, vars, rowVars, verdictVars, contentVars, withdrawalVars, historyVars
<1>1. ASSUME NEW t \in Texts, NEW claiming \in BOOLEAN, NEW sendsProof \in BOOLEAN,
             NEW byModerator \in BOOLEAN, Create(t, claiming, sendsProof, byModerator)
      PROVE TypeOK'
  <2>1. PICK s \in Status, human \in Verdict : Moderate(s, "NONE", FALSE, human)
    BY <1>1 DEF Create
  <2>2. ModeratedTypes'
    BY <2>1, ModerateTypes
  <2>. QED
    BY <1>1, <2>2 DEF Create, ModeratedTypes
<1>2. ASSUME NEW i \in EditIds, NEW t \in Texts, NEW claiming \in BOOLEAN,
             SubmitEdit(i, t, claiming)
      PROVE TypeOK'
  <2>1. edits' \in [EditIds -> Edit]
    BY <1>2 DEF SubmitEdit, Edit
  <2>. QED
    BY <1>2, <2>1 DEF SubmitEdit
<1>3. ASSUME NEW old \in BOOLEAN, Withdraw(old) PROVE TypeOK'
  <2>1. ModeratedTypes'
    BY <1>3, ModerateTypes DEF Withdraw
  <2>2. edits' \in [EditIds -> Edit]
    BY <1>3 DEF Withdraw
  <2>3. reports' \in [Reporters -> ReportState]
    BY <1>3 DEF Withdraw, CloseOpenReports
  <2>4. statusBefore' \in {"NONE", "PENDING", "APPROVED"}
    BY <1>3 DEF Withdraw, WithdrawnFrom
  <2>5. owed' \in BOOLEAN
    BY <1>3 DEF Withdraw
  <2>. QED
    BY <1>3, <2>1, <2>2, <2>3, <2>4, <2>5 DEF Withdraw, ModeratedTypes
<1>4. CASE Restore
  <2>1. RestoredStatus \in Status /\ RestoredHumanAction \in Verdict
    BY DEF RestoredStatus, RestoredHumanAction
  <2>2. PICK ai \in Verdict, decided \in BOOLEAN :
          Moderate(RestoredStatus, ai, decided, RestoredHumanAction)
    BY <1>4 DEF Restore
  <2>3. ModeratedTypes'
    BY <2>1, <2>2, ModerateTypes
  <2>. QED
    BY <1>4, <2>3 DEF Restore, ModeratedTypes
<1>5. CASE AddProof
  BY <1>5 DEF AddProof
<1>6. CASE RemoveProof
  BY <1>6 DEF RemoveProof
<1>7. ASSUME NEW hasReplies \in BOOLEAN, DeleteAccount(hasReplies) PROVE TypeOK'
  <2>1. edits' \in [EditIds -> Edit]
    BY <1>7 DEF DeleteAccount
  <2>2. status' \in Status /\ moderationState' \in Queue
    BY <1>7 DEF DeleteAccount
  <2>. QED
    BY <1>7, <2>1, <2>2 DEF DeleteAccount
<1>8. ASSUME NEW s \in {"APPROVED", "REJECTED", "PENDING"}, Publish(s) PROVE TypeOK'
  <2>1. ModeratedTypes'
    <3>1. HumanActionFor(s) \in Verdict /\ s \in Status
      BY DEF HumanActionFor
    <3>. QED BY <1>8, <3>1, ModerateTypes DEF Publish, HumanDecides
  <2>2. reports' \in [Reporters -> ReportState]
    BY <1>8 DEF Publish, CloseOpenReports
  <2>3. owed' \in BOOLEAN /\ vouched' \in BOOLEAN
    BY <1>8 DEF Publish, HumanDecides
  <2>. QED
    BY <1>8, <2>1, <2>2, <2>3 DEF Publish, ModeratedTypes
<1>9. ASSUME NEW i \in EditIds, NEW approve \in BOOLEAN, ReviewEdit(i, approve) PROVE TypeOK'
  <2>1. EditDecision(i)
    BY <1>9 DEF ReviewEdit, EditDecision
  <2>2. EditedTypes'
    BY <2>1, EditDecisionTypes
  <2>. QED
    BY <1>9, <2>2 DEF ReviewEdit, EditedTypes
<1>10. ASSUME NEW t \in Texts, Redact(t) PROVE TypeOK'
  <2>1. edits' \in [EditIds -> Edit]
    BY <1>10 DEF Redact
  <2>2. version' \in Versions /\ text' \in Texts /\ cleaned' \in BOOLEAN
    <3>1. CASE t = text
      <4>1. text' \in Texts
        BY <1>10, <3>1 DEF Redact
      <4>2. version < MaxVersion /\ version' = version + 1 /\ cleaned' = TRUE
        BY <1>10, <3>1 DEF Redact
      <4>3. version' \in Versions
        BY <4>2 DEF Versions
      <4>. QED BY <4>1, <4>2, <4>3
    <3>2. CASE t # text
      BY <1>10, <3>2 DEF Redact
    <3>. QED BY <3>1, <3>2
  <2>. QED
    BY <1>10, <2>1, <2>2 DEF Redact
<1>11. CASE Classify
  <2>1. version' \in Versions
    BY <1>11 DEF Classify, Versions
  <2>. QED
    BY <1>11, <2>1 DEF Classify
<1>12. ASSUME NEW finding \in {"COUNTS", "FAILED"}, CheckProof(finding) PROVE TypeOK'
  <2>1. ModeratedTypes' /\ owed' \in BOOLEAN /\ vouched' \in BOOLEAN
    BY <1>12, ProofCheckTypes DEF CheckProof
  <2>. QED
    BY <1>12, <2>1 DEF CheckProof, ModeratedTypes
<1>13. CASE DismissNote
  <2>1. ModeratedTypes' /\ owed' \in BOOLEAN /\ vouched' \in BOOLEAN
    BY <1>13, ProofCheckTypes DEF DismissNote
  <2>. QED
    BY <1>13, <2>1 DEF DismissNote, ModeratedTypes
<1>14. CASE DeleteProof
  BY <1>14 DEF DeleteProof
<1>15. ASSUME NEW r \in Reporters, NEW outcome \in {"ACTION_TAKEN", "NO_ACTION"},
              CloseReport(r, outcome)
       PROVE TypeOK'
  BY <1>15 DEF CloseReport
<1>16. CASE ListPost
  <2>1. worker' \in Worker
    BY <1>16 DEF ListPost, Worker, IdleWorker
  <2>. QED
    BY <1>16, <2>1 DEF ListPost
<1>17. CASE ReadPost
  <2>1. worker' \in Worker
    <3>1. ClaimGate \in BOOLEAN
      BY DEF ClaimGate
    <3>. QED BY <1>17, <3>1 DEF ReadPost, Worker
  <2>. QED
    BY <1>17, <2>1 DEF ReadPost
<1>18. ASSUME NEW recommended \in Recommendation, NEW gated \in BOOLEAN, NEW sure \in BOOLEAN,
              ApplyVerdict(recommended, gated, sure)
       PROVE TypeOK'
  <2>. DEFINE verdict == AiVerdict(recommended, gated, sure)
  <2>1. verdict \in Verdict /\ AiStatus(verdict) \in Status
    BY DEF AiVerdict, AiStatus
  <2>2. CASE VerdictApplies
    <3>1. Moderate(AiStatus(verdict), verdict, TRUE, humanAction)
      BY <1>18, <2>2 DEF ApplyVerdict
    <3>2. ModeratedTypes'
      BY <2>1, <3>1, ModerateTypes
    <3>3. proofHold' \in BOOLEAN /\ owed' \in BOOLEAN
      BY <1>18, <2>2 DEF ApplyVerdict, Worker
    <3>. QED
      BY <1>18, <3>2, <3>3 DEF ApplyVerdict, ModeratedTypes
  <2>3. CASE ~VerdictApplies
    BY <1>18, <2>3 DEF ApplyVerdict
  <2>. QED BY <2>2, <2>3
<1>19. ASSUME NEW i \in EditIds, ReadEdit(i) PROVE TypeOK'
  <2>1. worker' \in Worker
    <3>1. EditGate(i) \in BOOLEAN /\ i \in 0..MaxEdits
      BY BoundsAssumption DEF EditGate, EditIds
    <3>. QED BY <1>19, <3>1 DEF ReadEdit, Worker, IdleWorker
  <2>. QED
    BY <1>19, <2>1 DEF ReadEdit
<1>20. ASSUME NEW recommended \in Recommendation, NEW gated \in BOOLEAN, NEW sure \in BOOLEAN,
              ApplyEditVerdict(recommended, gated, sure)
       PROVE TypeOK'
  <2>1. worker.edit \in EditIds
    BY <1>20 DEF ApplyEditVerdict, WorkerInv
  <2>2. EditDecision(worker.edit)
    BY <1>20 DEF ApplyEditVerdict, EditDecision
  <2>3. EditedTypes'
    BY <2>1, <2>2, EditDecisionTypes
  <2>. QED
    BY <1>20, <2>3 DEF ApplyEditVerdict, EditedTypes
<1>21. CASE GiveUp
  BY <1>21 DEF GiveUp
<1>22. ASSUME NEW r \in Reporters, Report(r) PROVE TypeOK'
  BY <1>22 DEF Report
<1>23. CASE UNCHANGED vars
  BY <1>23
<1>. QED
  BY <1>1, <1>2, <1>3, <1>4, <1>5, <1>6, <1>7, <1>8, <1>9, <1>10, <1>11, <1>12, <1>13,
     <1>14, <1>15, <1>16, <1>17, <1>18, <1>19, <1>20, <1>21, <1>22, <1>23
  DEF Next, AuthorStep, ModeratorStep, WorkerStep, DecidePost, DecideEdit

-----------------------------------------------------------------------------
(* The status, the verdicts and the queue *)

\* A moderator checks the proof or dismisses it as a note.
ProofStep ==
  \/ \E finding \in {"COUNTS", "FAILED"} : CheckProof(finding)
  \/ DismissNote

\* The steps that may write the status, a verdict or what a withdrawal remembers.
ModeratingStep ==
  \/ \E t \in Texts, claiming, sendsProof, byModerator \in BOOLEAN :
       Create(t, claiming, sendsProof, byModerator)
  \/ \E old \in BOOLEAN : Withdraw(old)
  \/ Restore
  \/ \E hasReplies \in BOOLEAN : DeleteAccount(hasReplies)
  \/ \E s \in {"APPROVED", "REJECTED", "PENDING"} : Publish(s)
  \/ ProofStep
  \/ DecidePost

\* What is left alone by every other step.
ModerationUnchanged ==
  UNCHANGED <<status, moderationState, aiAction, aiDecided, humanAction, statusBefore,
              owed, everPublished>>

(***************************************************************************)
(* Only those steps write the status and the verdicts.                     *)
(***************************************************************************)
LEMMA OtherSteps == [Next]_vars => ModeratingStep \/ ModerationUnchanged
<1> SUFFICES ASSUME Next PROVE ModeratingStep \/ ModerationUnchanged
  BY DEF vars, rowVars, verdictVars, withdrawalVars, historyVars, ModerationUnchanged
<1> USE DEF rowVars, verdictVars, withdrawalVars, historyVars, ModerationUnchanged
<1>1. CASE AuthorStep
  BY <1>1 DEF AuthorStep, ModeratingStep, SubmitEdit, AddProof, RemoveProof
<1>2. CASE ModeratorStep
  BY <1>2 DEF ModeratorStep, ModeratingStep, ProofStep, ReviewEdit, Redact, Classify,
              DeleteProof, CloseReport
<1>3. CASE WorkerStep
  BY <1>3 DEF WorkerStep, ModeratingStep, ListPost, ReadPost, ReadEdit, DecideEdit,
              ApplyEditVerdict, GiveUp
<1>4. ASSUME NEW r \in Reporters, Report(r) PROVE ModerationUnchanged
  BY <1>4 DEF Report
<1>. QED BY <1>1, <1>2, <1>3, <1>4 DEF Next

(***************************************************************************)
(* A check or a dismissal of the proof either publishes the held post as   *)
(* the moderator's decision or decides nothing.                            *)
(***************************************************************************)
LEMMA ProofSteps ==
  ASSUME ProofStep
  PROVE  \/ /\ status = "PENDING" /\ humanAction = "NONE" /\ aiAction = "HOLD"
            /\ Moderate("APPROVED", aiAction, aiDecided, "APPROVE")
            /\ owed' = FALSE /\ vouched' = TRUE
            /\ UNCHANGED statusBefore
         \/ ModerationUnchanged /\ vouched' = (vouched \/ proof' = "COUNTS")
BY DEF ProofStep, CheckProof, DismissNote, PublishIfHeldOnlyForProof, PublishesOnProof,
       HumanDecides, ModerationUnchanged, withdrawalVars

(***************************************************************************)
(* A verdict of the AI is applied to a post that nobody decided, or not at *)
(* all.                                                                    *)
(***************************************************************************)
LEMMA VerdictSteps ==
  ASSUME DecidePost
  PROVE  \/ /\ VerdictApplies /\ status = "PENDING" /\ ~aiDecided /\ humanAction = "NONE"
            /\ worker.at = "read" /\ worker.version = version
            /\ \E s \in {"APPROVED", "REJECTED", "PENDING"}, v \in {"APPROVE", "REJECT", "HOLD"} :
                 /\ Moderate(s, v, TRUE, humanAction)
                 /\ s = "APPROVED" => ~worker.gate
            /\ owed' = FALSE
            /\ UNCHANGED statusBefore
         \/ ModerationUnchanged
<1>1. PICK recommended \in Recommendation, gated \in BOOLEAN, sure \in BOOLEAN :
        ApplyVerdict(recommended, gated, sure)
  BY DEF DecidePost
<1>. DEFINE verdict == AiVerdict(recommended, gated, sure)
<1>2. CASE VerdictApplies
  <2>1. /\ AiStatus(verdict) \in {"APPROVED", "REJECTED", "PENDING"}
        /\ verdict \in {"APPROVE", "REJECT", "HOLD"}
        /\ AiStatus(verdict) = "APPROVED" => ~worker.gate
    BY DEF AiVerdict, AiStatus
  <2>2. /\ worker.at = "read"
        /\ Moderate(AiStatus(verdict), verdict, TRUE, humanAction)
        /\ owed' = FALSE
        /\ UNCHANGED statusBefore
    BY <1>1, <1>2 DEF ApplyVerdict, withdrawalVars
  <2>. QED BY <1>2, <2>1, <2>2 DEF VerdictApplies, NeedsAiVerdict
<1>3. CASE ~VerdictApplies
  BY <1>1, <1>3 DEF ApplyVerdict, ModerationUnchanged, verdictVars, withdrawalVars
<1>. QED BY <1>2, <1>3

(***************************************************************************)
(* Every step that writes a column the queue depends on also writes the    *)
(* queue, and no step leaves a decision on a post that waits for one.      *)
(***************************************************************************)
LEMMA QueueKept == TypeOK /\ QueueInv /\ [Next]_vars => QueueInv'
<1> SUFFICES ASSUME TypeOK, QueueInv, [Next]_vars PROVE QueueInv'
  OBVIOUS
<1> USE DEF QueueInv, ModerationState
<1>1. ASSUME NEW t \in Texts, NEW claiming \in BOOLEAN, NEW sendsProof \in BOOLEAN,
             NEW byModerator \in BOOLEAN, Create(t, claiming, sendsProof, byModerator)
      PROVE QueueInv'
  BY <1>1 DEF Create, Moderate
<1>2. ASSUME NEW old \in BOOLEAN, Withdraw(old) PROVE QueueInv'
  BY <1>2 DEF Withdraw, Moderate
<1>3. CASE Restore
  BY <1>3 DEF Restore, Moderate, RestoredStatus, RestoredHumanAction, RestartsModeration,
              TypeOK, Verdict
<1>4. ASSUME NEW hasReplies \in BOOLEAN, DeleteAccount(hasReplies) PROVE QueueInv'
  BY <1>4 DEF DeleteAccount, verdictVars
<1>5. ASSUME NEW s \in {"APPROVED", "REJECTED", "PENDING"}, Publish(s) PROVE QueueInv'
  BY <1>5 DEF Publish, HumanDecides, Moderate, HumanActionFor
<1>6. CASE ProofStep
  <2>1. CASE Moderate("APPROVED", aiAction, aiDecided, "APPROVE")
    BY <2>1 DEF Moderate
  <2>2. CASE ModerationUnchanged
    BY <2>2 DEF ModerationUnchanged
  <2>. QED BY <1>6, <2>1, <2>2, ProofSteps
<1>7. CASE DecidePost
  <2>1. ASSUME status = "PENDING", humanAction = "NONE",
               NEW s \in {"APPROVED", "REJECTED", "PENDING"},
               NEW v \in {"APPROVE", "REJECT", "HOLD"}, Moderate(s, v, TRUE, humanAction)
        PROVE QueueInv'
    BY <2>1 DEF Moderate
  <2>2. CASE ModerationUnchanged
    BY <2>2 DEF ModerationUnchanged
  <2>. QED BY <1>7, <2>1, <2>2, VerdictSteps
<1>8. CASE ModerationUnchanged
  BY <1>8 DEF ModerationUnchanged
<1>. QED
  BY <1>1, <1>2, <1>3, <1>4, <1>5, <1>6, <1>7, <1>8, OtherSteps DEF ModeratingStep

(***************************************************************************)
(* A hold or a rejection takes the post out of public view, and a          *)
(* withdrawal remembers that it was out of view.                           *)
(***************************************************************************)
LEMMA HumanKept == QueueInv /\ HumanInv /\ UnwrittenInv /\ [Next]_vars => HumanInv'
<1> SUFFICES ASSUME QueueInv, HumanInv, UnwrittenInv, [Next]_vars PROVE HumanInv'
  OBVIOUS
<1> USE DEF HumanInv, WasPublic, IsPublished
<1>1. ASSUME NEW t \in Texts, NEW claiming \in BOOLEAN, NEW sendsProof \in BOOLEAN,
             NEW byModerator \in BOOLEAN, Create(t, claiming, sendsProof, byModerator)
      PROVE HumanInv'
  BY <1>1 DEF Create, Moderate
<1>2. ASSUME NEW old \in BOOLEAN, Withdraw(old) PROVE HumanInv'
  BY <1>2 DEF Withdraw, WithdrawnFrom, Moderate, QueueInv
<1>3. CASE Restore
  BY <1>3 DEF Restore, Moderate, RestoredStatus, RestoredHumanAction, RestartsModeration
<1>4. ASSUME NEW hasReplies \in BOOLEAN, DeleteAccount(hasReplies) PROVE HumanInv'
  BY <1>4 DEF DeleteAccount, verdictVars, withdrawalVars
<1>5. ASSUME NEW s \in {"APPROVED", "REJECTED", "PENDING"}, Publish(s) PROVE HumanInv'
  BY <1>5 DEF Publish, HumanDecides, Moderate, HumanActionFor
<1>6. CASE ProofStep
  BY <1>6, ProofSteps DEF Moderate, ModerationUnchanged
<1>7. CASE DecidePost
  BY <1>7, VerdictSteps DEF Moderate, ModerationUnchanged
<1>8. CASE ModerationUnchanged
  BY <1>8 DEF ModerationUnchanged
<1>. QED
  BY <1>1, <1>2, <1>3, <1>4, <1>5, <1>6, <1>7, <1>8, OtherSteps DEF ModeratingStep

(***************************************************************************)
(* A post owed a decision stays out of view until somebody decides it.     *)
(***************************************************************************)
LEMMA OwedKept == OwedInv /\ UnwrittenInv /\ [Next]_vars => OwedInv'
<1> SUFFICES ASSUME OwedInv, UnwrittenInv, [Next]_vars PROVE OwedInv'
  OBVIOUS
<1> USE DEF OwedInv, WasPublic, IsPublished
<1>1. ASSUME NEW t \in Texts, NEW claiming \in BOOLEAN, NEW sendsProof \in BOOLEAN,
             NEW byModerator \in BOOLEAN, Create(t, claiming, sendsProof, byModerator)
      PROVE OwedInv'
  BY <1>1 DEF Create, UnwrittenInv
<1>2. ASSUME NEW old \in BOOLEAN, Withdraw(old) PROVE OwedInv'
  BY <1>2 DEF Withdraw, WithdrawnFrom, Moderate
<1>3. CASE Restore
  BY <1>3 DEF Restore, Moderate, RestoredStatus, historyVars
<1>4. ASSUME NEW hasReplies \in BOOLEAN, DeleteAccount(hasReplies) PROVE OwedInv'
  BY <1>4 DEF DeleteAccount, withdrawalVars, historyVars
<1>5. ASSUME NEW s \in {"APPROVED", "REJECTED", "PENDING"}, Publish(s) PROVE OwedInv'
  BY <1>5 DEF Publish, HumanDecides
<1>6. CASE ProofStep
  BY <1>6, ProofSteps DEF Moderate, ModerationUnchanged
<1>7. CASE DecidePost
  BY <1>7, VerdictSteps DEF Moderate, ModerationUnchanged
<1>8. CASE ModerationUnchanged
  BY <1>8 DEF ModerationUnchanged
<1>. QED
  BY <1>1, <1>2, <1>3, <1>4, <1>5, <1>6, <1>7, <1>8, OtherSteps DEF ModeratingStep

(***************************************************************************)
(* The only thing that happens to an unwritten post is that it is written. *)
(***************************************************************************)
LEMMA UnwrittenKept == TypeOK /\ UnwrittenInv /\ [Next]_vars => UnwrittenInv'
<1> SUFFICES ASSUME TypeOK, UnwrittenInv, [Next]_vars, status' = "ABSENT", hasAuthor'
             PROVE  /\ status = "ABSENT" /\ hasAuthor
                    /\ UNCHANGED <<humanAction, cleaned, owed, worker, edits>>
  BY DEF UnwrittenInv, PendingEdits
<1>1. CASE AuthorStep
  <2>1. ASSUME NEW t \in Texts, NEW claiming \in BOOLEAN, NEW sendsProof \in BOOLEAN,
               NEW byModerator \in BOOLEAN, Create(t, claiming, sendsProof, byModerator)
        PROVE FALSE
    BY <2>1 DEF Create, Moderate
  <2>2. ASSUME NEW old \in BOOLEAN, Withdraw(old) PROVE FALSE
    BY <2>2 DEF Withdraw, Moderate
  <2>3. CASE Restore
    BY <2>3 DEF Restore, Moderate, RestoredStatus
  <2>4. ASSUME NEW hasReplies \in BOOLEAN, DeleteAccount(hasReplies) PROVE FALSE
    BY <2>4 DEF DeleteAccount
  <2>5. ASSUME NEW i \in EditIds, NEW t \in Texts, NEW claiming \in BOOLEAN,
               SubmitEdit(i, t, claiming)
        PROVE FALSE
    BY <2>5 DEF SubmitEdit, IsPublished, rowVars
  <2>6. CASE AddProof \/ RemoveProof
    BY <2>6 DEF AddProof, RemoveProof, rowVars, verdictVars, historyVars
  <2>. QED BY <1>1, <2>1, <2>2, <2>3, <2>4, <2>5, <2>6 DEF AuthorStep
<1>2. CASE ModeratorStep
  <2>1. ASSUME NEW s \in {"APPROVED", "REJECTED", "PENDING"}, Publish(s) PROVE FALSE
    BY <2>1 DEF Publish, HumanDecides, Moderate
  <2>2. ASSUME NEW i \in EditIds, NEW approve \in BOOLEAN, ReviewEdit(i, approve) PROVE FALSE
    BY <2>2 DEF ReviewEdit, UnwrittenInv, PendingEdits
  <2>3. ASSUME NEW t \in Texts, Redact(t) PROVE FALSE
    BY <2>3 DEF Redact
  <2>4. CASE Classify
    BY <2>4 DEF Classify
  <2>5. CASE ProofStep
    <3>1. UNCHANGED <<hasAuthor, cleaned, worker, edits>>
      BY <2>5 DEF ProofStep, CheckProof, DismissNote
    <3>2. ModerationUnchanged
      BY <2>5, ProofSteps DEF Moderate
    <3>. QED BY <3>1, <3>2 DEF ModerationUnchanged
  <2>6. CASE DeleteProof
    BY <2>6 DEF DeleteProof, rowVars, verdictVars, historyVars
  <2>7. ASSUME NEW r \in Reporters, NEW outcome \in {"ACTION_TAKEN", "NO_ACTION"},
               CloseReport(r, outcome)
        PROVE  /\ status = "ABSENT" /\ hasAuthor
               /\ UNCHANGED <<humanAction, cleaned, owed, worker, edits>>
    BY <2>7 DEF CloseReport, rowVars, verdictVars, historyVars
  <2>. QED
    BY <1>2, <2>1, <2>2, <2>3, <2>4, <2>5, <2>6, <2>7 DEF ModeratorStep, ProofStep
<1>3. CASE WorkerStep
  <2>1. status = "ABSENT" /\ hasAuthor
    <3>1. CASE DecidePost
      <4>1. hasAuthor' = hasAuthor
        BY <3>1 DEF DecidePost, ApplyVerdict
      <4>2. status' = status
        BY <3>1, VerdictSteps DEF Moderate, ModerationUnchanged
      <4>. QED BY <4>1, <4>2
    <3>2. CASE ~DecidePost
      BY <1>3, <3>2
      DEF WorkerStep, ListPost, ReadPost, ReadEdit, DecideEdit, ApplyEditVerdict, GiveUp, rowVars
    <3>. QED BY <3>1, <3>2
  <2>2. worker.at = "idle" /\ PendingEdits = {}
    BY <2>1 DEF UnwrittenInv
  <2>. QED
    BY <1>3, <2>1, <2>2
    DEF WorkerStep, ListPost, ReadPost, ReadEdit, DecideEdit, ApplyEditVerdict, GiveUp,
        DecidePost, ApplyVerdict, NeedsAiVerdict, PendingEdits
<1>4. ASSUME NEW r \in Reporters, Report(r) PROVE FALSE
  BY <1>4 DEF Report, IsPublished, rowVars
<1>5. CASE UNCHANGED vars
  BY <1>5 DEF vars, rowVars, verdictVars, historyVars
<1>. QED BY <1>1, <1>2, <1>3, <1>4, <1>5 DEF Next

(***************************************************************************)
(* A report opens only when a reader sends it.                             *)
(***************************************************************************)
LEMMA ReportSteps ==
  TypeOK /\ [Next]_vars =>
    \/ \E r \in Reporters : Report(r)
    \/ OpenReports' \subseteq OpenReports
<1> SUFFICES ASSUME TypeOK, [Next]_vars PROVE (\E r \in Reporters : Report(r)) \/ OpenReports' \subseteq OpenReports
  OBVIOUS
<1>1. ASSUME NEW old \in BOOLEAN, Withdraw(old) PROVE OpenReports' \subseteq OpenReports
  BY <1>1 DEF Withdraw, CloseOpenReports, OpenReports
<1>2. ASSUME NEW s \in {"APPROVED", "REJECTED", "PENDING"}, Publish(s)
      PROVE OpenReports' \subseteq OpenReports
  BY <1>2 DEF Publish, CloseOpenReports, OpenReports
<1>3. ASSUME NEW r \in Reporters, NEW outcome \in {"ACTION_TAKEN", "NO_ACTION"},
             CloseReport(r, outcome)
      PROVE OpenReports' \subseteq OpenReports
  BY <1>3 DEF CloseReport, OpenReports, TypeOK
<1>4. CASE reports' = reports
  BY <1>4 DEF OpenReports
<1>5. CASE AuthorStep
  BY <1>1, <1>4, <1>5
  DEF AuthorStep, Create, SubmitEdit, Restore, AddProof, RemoveProof, DeleteAccount
<1>6. CASE ModeratorStep
  BY <1>2, <1>3, <1>4, <1>6
  DEF ModeratorStep, ReviewEdit, Redact, Classify, CheckProof, DismissNote, DeleteProof
<1>7. CASE WorkerStep
  BY <1>4, <1>7
  DEF WorkerStep, ListPost, ReadPost, DecidePost, ApplyVerdict, ReadEdit, DecideEdit,
      ApplyEditVerdict, GiveUp
<1>8. CASE UNCHANGED vars
  BY <1>4, <1>8 DEF vars
<1>. QED BY <1>5, <1>6, <1>7, <1>8 DEF Next

\* An edit that waits after the step is one that waited before it.
StillWaits(i) ==
  /\ i \in PendingEdits
  /\ edits'[i].base = edits[i].base
  /\ edits'[i].text = edits[i].text
  /\ edits'[i].claims = edits[i].claims

(***************************************************************************)
(* Only its author submits an edit; every other step decides edits, holds  *)
(* them or leaves them as they were written.                               *)
(***************************************************************************)
LEMMA EditSteps ==
  TypeOK /\ WorkerInv /\ [Next]_vars =>
    \/ \E i \in EditIds, t \in Texts, claiming \in BOOLEAN : SubmitEdit(i, t, claiming)
    \/ \A i \in PendingEdits' : StillWaits(i)
<1> DEFINE Kept == \A i \in PendingEdits' : StillWaits(i)
<1> SUFFICES ASSUME TypeOK, WorkerInv, [Next]_vars,
                    ~ \E i \in EditIds, t \in Texts, claiming \in BOOLEAN :
                         SubmitEdit(i, t, claiming)
             PROVE  Kept
  OBVIOUS
<1> USE DEF PendingEdits, StillWaits, DecidedEdit, NoEdit
<1>1. CASE edits' = edits
  BY <1>1
<1>2. ASSUME NEW old \in BOOLEAN, Withdraw(old) PROVE Kept
  BY <1>2 DEF Withdraw
<1>3. ASSUME NEW hasReplies \in BOOLEAN, DeleteAccount(hasReplies) PROVE Kept
  BY <1>3 DEF DeleteAccount
<1>4. ASSUME NEW t \in Texts, Redact(t) PROVE Kept
  BY <1>4 DEF Redact
<1>5. ASSUME NEW i \in EditIds, EditDecision(i) PROVE Kept
  <2>1. CASE edits' = [edits EXCEPT ![i] = DecidedEdit]
    BY <2>1 DEF TypeOK
  <2>2. CASE edits' = [edits EXCEPT ![i].held = TRUE]
    BY <2>2 DEF TypeOK, Edit
  <2>. QED
    BY <1>1, <1>5, <2>1, <2>2 DEF EditDecision, ApproveEdit, RejectEdit, HoldEdit
<1>6. CASE AuthorStep
  BY <1>1, <1>2, <1>3, <1>6 DEF AuthorStep, Create, Restore, AddProof, RemoveProof
<1>7. CASE ModeratorStep
  BY <1>1, <1>4, <1>5, <1>7
  DEF ModeratorStep, Publish, ReviewEdit, EditDecision, Classify, CheckProof, DismissNote,
      DeleteProof, CloseReport
<1>8. CASE WorkerStep
  <2>1. ASSUME DecideEdit PROVE Kept
    BY <1>5, <2>1 DEF DecideEdit, ApplyEditVerdict, EditDecision, WorkerInv
  <2>. QED
    BY <1>1, <1>8, <2>1
    DEF WorkerStep, ListPost, ReadPost, DecidePost, ApplyVerdict, ReadEdit, GiveUp
<1>9. CASE UNCHANGED vars
  BY <1>1, <1>9 DEF vars
<1>10. ASSUME NEW r \in Reporters, Report(r) PROVE Kept
  BY <1>1, <1>10 DEF Report
<1>. QED BY <1>6, <1>7, <1>8, <1>9, <1>10 DEF Next

(***************************************************************************)
(* A post goes out of public view with its open reports, except when a     *)
(* moderator holds it, and a withdrawn post keeps no waiting edit.         *)
(***************************************************************************)
LEMMA ReportKept ==
  TypeOK /\ ReportInv /\ UnwrittenInv /\ WorkerInv /\ [Next]_vars => ReportInv'
<1> SUFFICES ASSUME TypeOK, ReportInv, WorkerInv, UnwrittenInv, [Next]_vars PROVE ReportInv'
  OBVIOUS
<1> USE DEF ReportInv, NothingOpenOnHiddenPosts, IsPublished
<1>1. ASSUME NEW t \in Texts, NEW claiming \in BOOLEAN, NEW sendsProof \in BOOLEAN,
             NEW byModerator \in BOOLEAN, Create(t, claiming, sendsProof, byModerator)
      PROVE ReportInv'
  BY <1>1 DEF Create, Moderate, OpenReports, PendingEdits
<1>2. ASSUME NEW old \in BOOLEAN, Withdraw(old) PROVE ReportInv'
  <2>1. OpenReports' = {}
    BY <1>2 DEF Withdraw, CloseOpenReports, OpenReports
  <2>2. PendingEdits' = {}
    BY <1>2 DEF Withdraw, PendingEdits, DecidedEdit, NoEdit
  <2>. QED BY <1>2, <2>1, <2>2 DEF Withdraw, Moderate
<1>3. CASE Restore
  <2>1. OpenReports' = {} /\ PendingEdits' = {}
    BY <1>3 DEF Restore, OpenReports, PendingEdits
  <2>. QED BY <1>3, <2>1 DEF Restore, Moderate, RestoredStatus
<1>4. ASSUME NEW hasReplies \in BOOLEAN, DeleteAccount(hasReplies) PROVE ReportInv'
  <2>1. OpenReports' = OpenReports /\ PendingEdits' = {}
    BY <1>4 DEF DeleteAccount, OpenReports, PendingEdits, NoEdit
  <2>2. CASE DeletesPost
    <3>1. OpenReports = {}
      BY <2>2 DEF DeletesPost
    <3>. QED BY <1>4, <2>1, <2>2, <3>1 DEF DeleteAccount
  <2>3. CASE ~DeletesPost
    BY <1>4, <2>1, <2>3 DEF DeleteAccount, verdictVars
  <2>. QED BY <2>2, <2>3
<1>5. ASSUME NEW s \in {"APPROVED", "REJECTED", "PENDING"}, Publish(s) PROVE ReportInv'
  <2>1. s = "REJECTED" => OpenReports' = {}
    BY <1>5 DEF Publish, CloseOpenReports, OpenReports
  <2>2. s # "REJECTED" => OpenReports' = OpenReports
    BY <1>5 DEF Publish, OpenReports
  <2>. QED BY <1>5, <2>1, <2>2 DEF Publish, HumanDecides, Moderate, HumanActionFor
<1>6. CASE ProofStep
  <2>1. OpenReports' = OpenReports /\ PendingEdits' = PendingEdits
    BY <1>6 DEF ProofStep, CheckProof, DismissNote, OpenReports, PendingEdits
  <2>2. CASE Moderate("APPROVED", aiAction, aiDecided, "APPROVE")
    BY <2>1, <2>2 DEF Moderate
  <2>3. CASE ModerationUnchanged
    BY <2>1, <2>3 DEF ModerationUnchanged
  <2>. QED BY <1>6, <2>2, <2>3, ProofSteps
<1>7. CASE DecidePost
  <2>1. OpenReports' = OpenReports /\ PendingEdits' = PendingEdits
    BY <1>7 DEF DecidePost, ApplyVerdict, OpenReports, PendingEdits
  <2>2. ASSUME status = "PENDING", humanAction = "NONE",
               NEW s \in {"APPROVED", "REJECTED", "PENDING"},
               NEW v \in {"APPROVE", "REJECT", "HOLD"}, Moderate(s, v, TRUE, humanAction)
        PROVE ReportInv'
    <3>1. OpenReports = {}
      BY <2>2
    <3>. QED BY <2>1, <2>2, <3>1 DEF Moderate
  <2>3. CASE ModerationUnchanged
    BY <2>1, <2>3 DEF ModerationUnchanged
  <2>. QED BY <1>7, <2>2, <2>3, VerdictSteps
<1>8. CASE ModerationUnchanged
  <2>1. IsPublished \/ (OpenReports = {} => OpenReports' = {})
    BY ReportSteps DEF Report
  <2>2. IsPublished \/ (PendingEdits = {} => PendingEdits' = {})
    BY EditSteps DEF SubmitEdit, StillWaits
  <2>. QED BY <1>8, <2>1, <2>2 DEF ModerationUnchanged
<1>. QED
  BY <1>1, <1>2, <1>3, <1>4, <1>5, <1>6, <1>7, <1>8, OtherSteps DEF ModeratingStep

-----------------------------------------------------------------------------
(* The content and what the worker read of it *)

\* The account's deletion empties the post.
Emptied ==
  /\ text' = EmptyText /\ claims' = FALSE /\ version' = version
  /\ cleaned' = cleaned
  /\ PendingEdits' = {} /\ Remnant'

(***************************************************************************)
(* The ways the content changes: all but the first writing and the         *)
(* account's deletion give the post a new version.                         *)
(***************************************************************************)
LEMMA ContentSteps ==
  TypeOK /\ WorkerInv /\ [Next]_vars =>
    \/ \E t \in Texts, claiming, sendsProof, byModerator \in BOOLEAN :
         Create(t, claiming, sendsProof, byModerator)
    \/ \E i \in EditIds, t \in Texts, claiming \in BOOLEAN : SubmitEdit(i, t, claiming)
    \/ Emptied
    \/ \E i \in EditIds : EditApplies(i) /\ ApproveEdit(i) /\ cleaned' = cleaned
    \/ \E t \in Texts : Redact(t)
    \/ Classify
    \/ UNCHANGED <<version, text, claims, cleaned>>
<1> DEFINE Goal == \/ Emptied
                   \/ \E i \in EditIds : EditApplies(i) /\ ApproveEdit(i) /\ cleaned' = cleaned
                   \/ UNCHANGED <<version, text, claims, cleaned>>
<1> USE DEF contentVars, historyVars, rowVars
<1>1. ASSUME TypeOK, NEW hasReplies \in BOOLEAN, DeleteAccount(hasReplies) PROVE Goal
  <2>1. PendingEdits' = {}
    BY <1>1 DEF DeleteAccount, PendingEdits, NoEdit
  <2>. QED BY <1>1, <2>1 DEF DeleteAccount, Emptied, Remnant
<1>2. ASSUME NEW i \in EditIds, EditDecision(i), cleaned' = cleaned PROVE Goal
  BY <1>2 DEF EditDecision, RejectEdit, HoldEdit
<1>3. ASSUME TypeOK, AuthorStep,
             ~ \E t \in Texts, claiming, sendsProof, byModerator \in BOOLEAN :
                 Create(t, claiming, sendsProof, byModerator),
             ~ \E i \in EditIds, t \in Texts, claiming \in BOOLEAN : SubmitEdit(i, t, claiming)
      PROVE Goal
  BY <1>1, <1>3 DEF AuthorStep, Withdraw, Restore, AddProof, RemoveProof
<1>4. ASSUME ModeratorStep, ~Classify, ~ \E t \in Texts : Redact(t) PROVE Goal
  BY <1>2, <1>4
  DEF ModeratorStep, Publish, ReviewEdit, EditDecision, CheckProof, DismissNote, DeleteProof,
      CloseReport
<1>5. ASSUME WorkerInv, WorkerStep PROVE Goal
  <2>1. ASSUME DecideEdit PROVE Goal
    BY <1>2, <1>5, <2>1 DEF DecideEdit, ApplyEditVerdict, EditDecision, WorkerInv
  <2>. QED
    BY <1>5, <2>1 DEF WorkerStep, ListPost, ReadPost, DecidePost, ApplyVerdict, ReadEdit, GiveUp
<1>6. ASSUME NEW r \in Reporters, Report(r) PROVE Goal
  BY <1>6 DEF Report
<1>7. ASSUME UNCHANGED vars PROVE Goal
  BY <1>7 DEF vars
<1>. QED BY <1>3, <1>4, <1>5, <1>6, <1>7 DEF Next

(***************************************************************************)
(* A removal leaves no waiting edit that could bring the detail back: the  *)
(* edits that wait were written for an older version.                      *)
(***************************************************************************)
LEMMA EditKept == TypeOK /\ EditInv /\ UnwrittenInv /\ WorkerInv /\ [Next]_vars => EditInv'
<1> SUFFICES ASSUME TypeOK, EditInv, UnwrittenInv, WorkerInv, [Next]_vars PROVE EditInv'
  OBVIOUS
<1> USE DEF EditInv, RedactionSticks
<1>0. version \in Nat /\ \A i \in EditIds : edits[i].base \in Nat
  BY DEF TypeOK, Edit, Versions
<1>1. ASSUME NEW t \in Texts, NEW claiming \in BOOLEAN, NEW sendsProof \in BOOLEAN,
             NEW byModerator \in BOOLEAN, Create(t, claiming, sendsProof, byModerator)
      PROVE EditInv'
  BY <1>1 DEF Create, UnwrittenInv, PendingEdits
<1>2. ASSUME NEW i \in EditIds, NEW t \in Texts, NEW claiming \in BOOLEAN,
             SubmitEdit(i, t, claiming)
      PROVE EditInv'
  <2>1. version' = version /\ text' = text /\ version < MaxVersion
    BY <1>2 DEF SubmitEdit, rowVars, contentVars
  <2>2. cleaned' => cleaned /\ t \notin Sensitive
    BY <1>2 DEF SubmitEdit
  <2>3. ASSUME NEW j \in PendingEdits'
        PROVE  j = i /\ edits'[j].base = version /\ edits'[j].text = t
    BY <1>2 DEF SubmitEdit, PendingEdits, TypeOK
  <2>. QED BY <1>0, <2>1, <2>2, <2>3
<1>3. CASE \A i \in PendingEdits' : StillWaits(i)
  <2>1. ASSUME NEW i \in PendingEdits'
        PROVE  /\ i \in PendingEdits /\ edits'[i].base = edits[i].base
               /\ edits'[i].text = edits[i].text
               /\ edits'[i].base \in Nat /\ edits'[i].base < MaxVersion
               /\ edits'[i].base <= version
               /\ cleaned /\ edits'[i].base = version => edits'[i].text \notin Sensitive
    BY <1>0, <1>3, <2>1 DEF StillWaits, PendingEdits
  <2>2. CASE Emptied
    BY <2>2, TextsAssumption DEF Emptied
  <2>3. ASSUME NEW i \in EditIds, EditApplies(i), ApproveEdit(i), cleaned' = cleaned
        PROVE EditInv'
    <3>1. version' = version + 1 /\ text' = edits[i].text
      BY <2>3 DEF ApproveEdit
    <3>2. cleaned => edits[i].text \notin Sensitive
      BY <2>3 DEF EditApplies, PendingEdits
    <3>. QED BY <1>0, <2>1, <2>3, <3>1, <3>2
  <2>4. ASSUME NEW t \in Texts, Redact(t) PROVE EditInv'
    <3>1. CASE t = text
      <4>1. version' = version + 1 /\ text' = Redacted[t] /\ t \in Sensitive
        BY <2>4, <3>1 DEF Redact
      <4>2. text' \notin Sensitive
        BY <4>1, TextsAssumption
      <4>. QED BY <1>0, <2>1, <4>1, <4>2
    <3>2. CASE t # text
      BY <2>1, <2>4, <3>2 DEF Redact
    <3>. QED BY <3>1, <3>2
  <2>5. CASE Classify
    <3>1. version' = version + 1 /\ text' = text /\ cleaned' = cleaned
      BY <2>5 DEF Classify, historyVars
    <3>. QED BY <1>0, <2>1, <3>1
  <2>6. CASE UNCHANGED <<version, text, claims, cleaned>>
    BY <2>1, <2>6
  <2>. QED BY <1>1, <1>2, <2>2, <2>3, <2>4, <2>5, <2>6, ContentSteps
<1>. QED BY <1>2, <1>3, EditSteps

(***************************************************************************)
(* A deleted account does not come back, and neither does the post it left *)
(* behind.                                                                 *)
(***************************************************************************)
LEMMA RemnantStays ==
  TypeOK /\ [Next]_vars => (hasAuthor' => hasAuthor) /\ (Remnant => Remnant')
<1> SUFFICES ASSUME TypeOK, [Next]_vars PROVE (hasAuthor' => hasAuthor) /\ (Remnant => Remnant')
  OBVIOUS
<1> USE DEF Remnant
<1>1. hasAuthor' => hasAuthor
  <2>1. CASE AuthorStep
    BY <2>1
    DEF AuthorStep, Create, SubmitEdit, Withdraw, Restore, AddProof, RemoveProof, DeleteAccount
  <2>2. CASE ModeratorStep
    BY <2>2
    DEF ModeratorStep, Publish, ReviewEdit, Redact, Classify, CheckProof, DismissNote,
        DeleteProof, CloseReport, rowVars
  <2>3. CASE WorkerStep
    BY <2>3
    DEF WorkerStep, ListPost, ReadPost, DecidePost, ApplyVerdict, ReadEdit, DecideEdit,
        ApplyEditVerdict, GiveUp, rowVars
  <2>4. ASSUME NEW r \in Reporters, Report(r) PROVE hasAuthor' = hasAuthor
    BY <2>4 DEF Report, rowVars
  <2>5. CASE UNCHANGED vars
    BY <2>5 DEF vars, rowVars
  <2>. QED BY <2>1, <2>2, <2>3, <2>4, <2>5 DEF Next
<1>2. Remnant => status' = status
  <2>1. CASE ProofStep
    BY <2>1, ProofSteps DEF ModerationUnchanged
  <2>2. CASE DecidePost
    BY <2>2, VerdictSteps DEF ModerationUnchanged
  <2>. QED
    BY <2>1, <2>2, OtherSteps
    DEF ModeratingStep, Create, Withdraw, Restore, DeleteAccount, Publish, ModerationUnchanged
<1>. QED BY <1>1, <1>2 DEF TypeOK

(***************************************************************************)
(* Who vouched for a post stays, once it is written.                       *)
(***************************************************************************)
LEMMA VouchedStays ==
  TypeOK /\ [Next]_vars =>
    \/ \E t \in Texts, claiming, sendsProof, byModerator \in BOOLEAN :
         Create(t, claiming, sendsProof, byModerator)
    \/ vouched => vouched'
<1> SUFFICES ASSUME TypeOK, [Next]_vars, vouched,
                    ~ \E t \in Texts, claiming, sendsProof, byModerator \in BOOLEAN :
                        Create(t, claiming, sendsProof, byModerator)
             PROVE  vouched'
  OBVIOUS
<1> USE DEF historyVars
<1>1. CASE AuthorStep
  BY <1>1 DEF AuthorStep, SubmitEdit, Withdraw, Restore, AddProof, RemoveProof, DeleteAccount
<1>2. CASE ModeratorStep
  <2>1. CASE ProofStep
    BY <2>1, ProofSteps
  <2>. QED
    BY <1>2, <2>1
    DEF ModeratorStep, ProofStep, Publish, HumanDecides, ReviewEdit, Redact, Classify,
        DeleteProof, CloseReport
<1>3. CASE WorkerStep
  BY <1>3
  DEF WorkerStep, ListPost, ReadPost, DecidePost, ApplyVerdict, ReadEdit, DecideEdit,
      ApplyEditVerdict, GiveUp
<1>4. ASSUME NEW r \in Reporters, Report(r) PROVE vouched'
  BY <1>4 DEF Report
<1>5. CASE UNCHANGED vars
  BY <1>5 DEF vars
<1>. QED BY <1>1, <1>2, <1>3, <1>4, <1>5 DEF Next

(***************************************************************************)
(* An edit's slot is emptied only with the account.                        *)
(***************************************************************************)
LEMMA SlotsFill ==
  ASSUME TypeOK, WorkerInv, [Next]_vars, NEW i \in EditIds,
         edits'[i].status = "NONE", edits[i].status # "NONE"
  PROVE  ~hasAuthor'
<1> USE DEF DecidedEdit, NoEdit
<1>1. edits' # edits
  OBVIOUS
<1>2. CASE AuthorStep
  BY <1>1, <1>2
  DEF AuthorStep, Create, SubmitEdit, Withdraw, Restore, AddProof, RemoveProof, DeleteAccount,
      PendingEdits, TypeOK
<1>3. ASSUME NEW j \in EditIds, EditDecision(j) PROVE FALSE
  <2>1. CASE edits' = [edits EXCEPT ![j] = DecidedEdit]
    BY <2>1 DEF TypeOK
  <2>2. CASE edits' = [edits EXCEPT ![j].held = TRUE]
    BY <2>2 DEF TypeOK, Edit
  <2>. QED
    BY <1>1, <1>3, <2>1, <2>2 DEF EditDecision, ApproveEdit, RejectEdit, HoldEdit
<1>4. CASE ModeratorStep
  BY <1>1, <1>3, <1>4
  DEF ModeratorStep, Publish, ReviewEdit, EditDecision, Redact, Classify, CheckProof,
      DismissNote, DeleteProof, CloseReport, PendingEdits
<1>5. CASE WorkerStep
  <2>1. CASE DecideEdit
    BY <1>3, <2>1 DEF DecideEdit, ApplyEditVerdict, EditDecision, WorkerInv
  <2>. QED
    BY <1>1, <1>5, <2>1
    DEF WorkerStep, ListPost, ReadPost, DecidePost, ApplyVerdict, ReadEdit, GiveUp
<1>6. ASSUME NEW r \in Reporters, Report(r) PROVE FALSE
  BY <1>1, <1>6 DEF Report
<1>7. CASE UNCHANGED vars
  BY <1>1, <1>7 DEF vars
<1>. QED BY <1>2, <1>4, <1>5, <1>6, <1>7 DEF Next

(***************************************************************************)
(* While the worker waits for the model, what it read can only go out of   *)
(* date together with the version it noted.                                *)
(***************************************************************************)
LEMMA WorkerKept ==
  TypeOK /\ UnwrittenInv /\ EditInv /\ ClaimInv /\ WorkerInv /\ [Next]_vars => WorkerInv'
<1> SUFFICES ASSUME TypeOK, UnwrittenInv, EditInv, ClaimInv, WorkerInv, [Next]_vars
             PROVE  WorkerInv'
  OBVIOUS
<1>0. version \in Nat /\ worker.version \in Nat
  BY DEF TypeOK, Versions, Worker
<1>1. CASE worker' = IdleWorker
  BY <1>1 DEF WorkerInv, IdleWorker
<1>2. CASE ListPost
  BY <1>0, <1>2 DEF ListPost, WorkerInv, IdleWorker, rowVars, contentVars
<1>3. CASE ReadPost /\ worker' # IdleWorker
  <2>1. /\ worker.at = "listed"
        /\ worker' = [worker EXCEPT !.at = "read", !.text = text, !.gate = ClaimGate]
        /\ UNCHANGED <<version, text, claims, vouched>>
    BY <1>3 DEF ReadPost, rowVars, contentVars, historyVars
  <2>2. /\ worker'.at = "read" /\ worker'.version = worker.version
        /\ worker'.text = text /\ worker'.gate = ClaimGate
    BY <2>1 DEF TypeOK, Worker
  <2>3. claims /\ ~ClaimGate => vouched
    BY DEF ClaimGate, ClaimInv
  <2>. QED BY <1>0, <2>1, <2>2, <2>3 DEF WorkerInv
<1>4. ASSUME NEW i \in EditIds, ReadEdit(i) PROVE WorkerInv'
  <2>1. /\ worker'.at = "edit" /\ worker'.edit = i /\ worker'.gate = EditGate(i)
        /\ edits[i].status = "PENDING" /\ edits' = edits /\ claims' = claims
    BY <1>4 DEF ReadEdit, IdleWorker, rowVars, contentVars
  <2>2. ~EditGate(i) /\ edits[i].claims => claims
    BY DEF EditGate, TypeOK, Edit
  <2>. QED BY <2>1, <2>2 DEF WorkerInv
<1>5. CASE worker' = worker /\ worker.at # "idle"
  <2>1. ~ \E t \in Texts, claiming, sendsProof, byModerator \in BOOLEAN :
            Create(t, claiming, sendsProof, byModerator)
    BY <1>5 DEF Create, UnwrittenInv
  <2>2. /\ version' \in Nat /\ version <= version'
        /\ \/ version < version' \/ Emptied
           \/ text' = text /\ claims' = claims
    BY <1>0, <2>1, ContentSteps
    DEF SubmitEdit, Emptied, ApproveEdit, Redact, Classify, rowVars, contentVars
  <2>3. worker.at \in {"listed", "read"} => worker.version <= version'
    BY <1>0, <2>2 DEF WorkerInv
  <2>4. ASSUME worker.at = "read", worker.version = version', ~Remnant'
        PROVE  worker.text = text' /\ (claims' /\ ~worker.gate => vouched')
    <3>1. worker.version = version /\ text' = text /\ claims' = claims
      BY <1>0, <2>2, <2>4 DEF WorkerInv, Emptied
    <3>2. ~Remnant
      BY <2>4, RemnantStays
    <3>. QED BY <2>1, <2>4, <3>1, <3>2, VouchedStays DEF WorkerInv
  <2>5. ASSUME worker.at = "edit"
        PROVE  /\ edits'[worker.edit].status = "NONE" => ~hasAuthor'
               /\ edits'[worker.edit].status = "PENDING" /\ edits'[worker.edit].base = version'
                    /\ ~worker.gate /\ edits'[worker.edit].claims => claims'
    <3>1. worker.edit \in EditIds
      BY <2>5 DEF WorkerInv
    <3>2. edits[worker.edit].status = "NONE" => ~hasAuthor /\ ~hasAuthor'
      BY <2>5, RemnantStays DEF WorkerInv
    <3>3. edits'[worker.edit].status = "NONE" => ~hasAuthor'
      BY <3>1, <3>2, SlotsFill
    <3>4. ASSUME edits'[worker.edit].status = "PENDING", edits'[worker.edit].base = version',
                 ~worker.gate, edits'[worker.edit].claims
          PROVE  claims'
      <4>1. worker.edit \in PendingEdits'
        BY <3>1, <3>4 DEF PendingEdits
      <4>2. StillWaits(worker.edit)
        <5>1. ASSUME NEW i \in EditIds, NEW t \in Texts, NEW claiming \in BOOLEAN,
                     SubmitEdit(i, t, claiming)
              PROVE  FALSE
          BY <3>1, <3>2, <4>1, <5>1 DEF SubmitEdit, PendingEdits, TypeOK
        <5>. QED BY <4>1, <5>1, EditSteps
      <4>3. edits[worker.edit].base \in Nat
        BY <3>1 DEF TypeOK, Edit, Versions
      <4>4. version' = version /\ claims' = claims
        BY <1>0, <2>2, <3>4, <4>1, <4>2, <4>3 DEF StillWaits, EditInv, Emptied
      <4>. QED BY <2>5, <3>4, <4>2, <4>4 DEF StillWaits, PendingEdits, WorkerInv
    <3>. QED BY <3>3, <3>4
  <2>. QED BY <1>5, <2>3, <2>4, <2>5 DEF WorkerInv
<1>6. CASE worker' = worker /\ worker.at = "idle"
  BY <1>6 DEF WorkerInv
<1>7. \/ worker' \in {worker, IdleWorker} \/ ListPost \/ ReadPost
      \/ \E i \in EditIds : ReadEdit(i)
  <2>1. CASE AuthorStep
    BY <2>1
    DEF AuthorStep, Create, SubmitEdit, Withdraw, Restore, AddProof, RemoveProof, DeleteAccount
  <2>2. CASE ModeratorStep
    BY <2>2
    DEF ModeratorStep, Publish, ReviewEdit, Redact, Classify, CheckProof, DismissNote,
        DeleteProof, CloseReport
  <2>3. CASE WorkerStep
    BY <2>3 DEF WorkerStep, DecidePost, ApplyVerdict, DecideEdit, ApplyEditVerdict, GiveUp
  <2>4. ASSUME NEW r \in Reporters, Report(r) PROVE worker' = worker
    BY <2>4 DEF Report
  <2>5. CASE UNCHANGED vars
    BY <2>5 DEF vars
  <2>. QED BY <2>1, <2>2, <2>3, <2>4, <2>5 DEF Next
<1>. QED BY <1>1, <1>2, <1>3, <1>4, <1>5, <1>6, <1>7

(***************************************************************************)
(* A post with a claim becomes public only by a person, by the AI after    *)
(* accepted proof, or as it was public before.                             *)
(***************************************************************************)
LEMMA ClaimKept == TypeOK /\ ClaimInv /\ WorkerInv /\ [Next]_vars => ClaimInv'
<1> SUFFICES ASSUME TypeOK, ClaimInv, WorkerInv, [Next]_vars PROVE ClaimInv'
  OBVIOUS
<1> USE DEF ClaimInv, WasPublic, IsPublished
<1>1. ASSUME NEW t \in Texts, NEW claiming \in BOOLEAN, NEW sendsProof \in BOOLEAN,
             NEW byModerator \in BOOLEAN, Create(t, claiming, sendsProof, byModerator)
      PROVE ClaimInv'
  BY <1>1 DEF Create, Moderate
<1>2. ASSUME NEW old \in BOOLEAN, Withdraw(old) PROVE ClaimInv'
  BY <1>2 DEF Withdraw, WithdrawnFrom, Moderate, contentVars
<1>3. CASE Restore
  BY <1>3 DEF Restore, Moderate, RestoredStatus, contentVars, historyVars
<1>4. ASSUME NEW hasReplies \in BOOLEAN, DeleteAccount(hasReplies) PROVE ClaimInv'
  BY <1>4 DEF DeleteAccount, contentVars, withdrawalVars, historyVars
<1>5. ASSUME NEW s \in {"APPROVED", "REJECTED", "PENDING"}, Publish(s) PROVE ClaimInv'
  BY <1>5 DEF Publish, HumanDecides, Moderate
<1>6. CASE ProofStep
  <2>1. claims' = claims
    BY <1>6 DEF ProofStep, CheckProof, DismissNote, contentVars
  <2>. QED BY <1>6, <2>1, ProofSteps DEF ModerationUnchanged
<1>7. CASE DecidePost
  <2>1. UNCHANGED <<claims, proof, vouched>>
    BY <1>7 DEF DecidePost, ApplyVerdict, contentVars
  <2>2. ASSUME VerdictApplies, status = "PENDING", worker.at = "read", worker.version = version,
               NEW s \in {"APPROVED", "REJECTED", "PENDING"},
               NEW v \in {"APPROVE", "REJECT", "HOLD"}, Moderate(s, v, TRUE, humanAction),
               s = "APPROVED" => ~worker.gate
        PROVE ClaimInv'
    <3>1. claims /\ ~worker.gate => vouched
      BY <2>2 DEF WorkerInv, Remnant
    <3>. QED BY <2>1, <2>2, <3>1 DEF Moderate
  <2>3. CASE ModerationUnchanged
    BY <2>1, <2>3 DEF ModerationUnchanged
  <2>. QED BY <1>7, <2>2, <2>3, VerdictSteps
<1>8. CASE ModerationUnchanged /\ ~ModeratingStep
  <2>1. ASSUME NEW i \in EditIds, NEW approve \in BOOLEAN, ReviewEdit(i, approve)
        PROVE ClaimInv'
    BY <1>8, <2>1 DEF ReviewEdit, RejectEdit, ModerationUnchanged, contentVars
  <2>2. CASE DecideEdit
    <3>1. claims' => claims \/ ~IsPublished
      <4>1. PICK recommended \in Recommendation, gated \in BOOLEAN, sure \in BOOLEAN :
              ApplyEditVerdict(recommended, gated, sure)
        BY <2>2 DEF DecideEdit
      <4>2. worker.edit \in EditIds /\ worker.at = "edit"
        BY <4>1 DEF ApplyEditVerdict, WorkerInv
      <4>3. CASE /\ AiVerdict(recommended, gated, sure) = "APPROVE"
                 /\ EditApplies(worker.edit)
        <5>1. claims' = edits[worker.edit].claims /\ ~worker.gate
          BY <4>1, <4>3 DEF ApplyEditVerdict, ApproveEdit, AiVerdict
        <5>. QED BY <4>2, <4>3, <5>1 DEF WorkerInv, EditApplies
      <4>4. CASE ~ /\ AiVerdict(recommended, gated, sure) = "APPROVE"
                   /\ EditApplies(worker.edit)
        BY <4>1, <4>4 DEF ApplyEditVerdict, RejectEdit, HoldEdit, contentVars
      <4>. QED BY <4>3, <4>4
    <3>2. UNCHANGED <<proof, vouched>> /\ (claims' => claims \/ ~WasPublic)
      <4>1. UNCHANGED <<proof, vouched>>
        BY <2>2 DEF DecideEdit, ApplyEditVerdict, historyVars
      <4>2. ~IsPublished => claims' = claims
        BY <2>2 DEF DecideEdit, ApplyEditVerdict, EditApplies, RejectEdit, HoldEdit, contentVars
      <4>. QED BY <3>1, <4>1, <4>2
    <3>. QED BY <1>8, <3>2 DEF ModerationUnchanged
  <2>3. ASSUME claims' = claims, vouched' = vouched, proof' \in {proof, "WAITING", "NONE"}
        PROVE ClaimInv'
    BY <1>8, <2>3 DEF ModerationUnchanged
  <2>4. CASE AuthorStep
    BY <1>8, <2>3, <2>4
    DEF AuthorStep, SubmitEdit, AddProof, RemoveProof, ModeratingStep, rowVars, contentVars,
        historyVars
  <2>5. CASE ModeratorStep
    BY <1>8, <2>1, <2>3, <2>5
    DEF ModeratorStep, Redact, Classify, DeleteProof, CloseReport, ModeratingStep, ProofStep,
        rowVars, contentVars, historyVars
  <2>6. CASE WorkerStep
    BY <1>8, <2>2, <2>3, <2>6
    DEF WorkerStep, ListPost, ReadPost, ReadEdit, GiveUp, ModeratingStep, rowVars, contentVars,
        historyVars
  <2>7. ASSUME NEW r \in Reporters, Report(r) PROVE ClaimInv'
    BY <2>3, <2>7 DEF Report, rowVars, contentVars, historyVars
  <2>8. CASE UNCHANGED vars
    BY <2>3, <2>8 DEF vars, rowVars, contentVars, historyVars
  <2>. QED BY <2>4, <2>5, <2>6, <2>7, <2>8 DEF Next
<1>. QED
  BY <1>1, <1>2, <1>3, <1>4, <1>5, <1>6, <1>7, <1>8, OtherSteps DEF ModeratingStep

-----------------------------------------------------------------------------
(* The theorems *)

(***************************************************************************)
(* IInv holds in every reachable state.                                    *)
(***************************************************************************)
THEOREM Invariance == Spec => []IInv
<1>1. IInv /\ [Next]_vars => IInv'
  BY TypeKept, QueueKept, HumanKept, UnwrittenKept, ReportKept, EditKept, OwedKept, ClaimKept,
     WorkerKept
  DEF IInv
<1>. QED BY InitInvariant, <1>1, PTL DEF Spec

(***************************************************************************)
(* Every column stays in its set, in particular the version in its bounds: *)
(* no edit is carried out twice.                                           *)
(***************************************************************************)
THEOREM TypeCorrect == Spec => []TypeOK
<1>1. IInv => TypeOK
  BY DEF IInv
<1>. QED BY <1>1, Invariance, PTL

(***************************************************************************)
(* A post waiting for a decision is always in one of the two queues        *)
(* (16_comment_moderation_state.sql:6).                                    *)
(***************************************************************************)
THEOREM NeverInvisible == Spec => []PendingNeverInvisible
<1>1. IInv => PendingNeverInvisible
  BY DEF IInv, QueueInv, ModerationState, PendingNeverInvisible
<1>. QED BY <1>1, Invariance, PTL

(***************************************************************************)
(* The worker's query finds exactly the posts whose queue column says that *)
(* they wait for the AI (database.py:945).                                 *)
(***************************************************************************)
THEOREM WorkerQueue == Spec => []WorkerSeesAwaitingAi
<1>1. IInv => WorkerSeesAwaitingAi
  BY DEF IInv, QueueInv, ModerationState, WorkerSeesAwaitingAi, NeedsAiVerdict
<1>. QED BY <1>1, Invariance, PTL

(***************************************************************************)
(* A post that is down has no open report, and a withdrawn one no waiting  *)
(* edit: withdrawing and rejecting close them.                             *)
(***************************************************************************)
THEOREM HiddenPostsAreClosed == Spec => []NothingOpenOnHiddenPosts
<1>1. IInv => NothingOpenOnHiddenPosts
  BY DEF IInv, ReportInv
<1>. QED BY <1>1, Invariance, PTL

(***************************************************************************)
(* No edit written before a removal brings the removed detail back         *)
(* (19_comment_revisions.sql:5).                                           *)
(***************************************************************************)
THEOREM RedactionIsFinal == Spec => []RedactionSticks
<1>1. IInv => RedactionSticks
  BY DEF IInv, EditInv
<1>. QED BY <1>1, Invariance, PTL

(***************************************************************************)
(* Withdrawing does not shed a review: the post is public again only after *)
(* somebody decided it anew (experience.ts:498).                           *)
(***************************************************************************)
THEOREM WithdrawalShedsNoReview == Spec => []RestoreReviewsAgain
<1>1. IInv => RestoreReviewsAgain
  BY DEF IInv, OwedInv, WasPublic, RestoreReviewsAgain
<1>. QED BY <1>1, Invariance, PTL

(***************************************************************************)
(* No KYC or held-funds claim gets public without a person vouching for    *)
(* it, whatever changed during the AI's calls (comment_moderation.py:40).  *)
(***************************************************************************)
THEOREM ClaimsNeedPeople == Spec => []ClaimsAreVouchedFor
<1>1. IInv => ClaimsAreVouchedFor
  BY DEF IInv, ClaimInv, WasPublic, ClaimsAreVouchedFor
<1>. QED BY <1>1, Invariance, PTL

(***************************************************************************)
(* A hold or a rejection by a moderator ends only with another decision of *)
(* a moderator.                                                            *)
(***************************************************************************)
THEOREM HumansDecide == Spec => HumanDecisionStands
<1>1. ASSUME IInv, [Next]_vars, humanAction' # humanAction, humanAction \in {"HOLD", "REJECT"}
      PROVE  \E s \in {"APPROVED", "REJECTED", "PENDING"} : Publish(s)
  <2> USE <1>1 DEF IInv, QueueInv
  <2>1. ASSUME NEW t \in Texts, NEW claiming \in BOOLEAN, NEW sendsProof \in BOOLEAN,
               NEW byModerator \in BOOLEAN, Create(t, claiming, sendsProof, byModerator)
        PROVE FALSE
    BY <2>1 DEF Create, UnwrittenInv
  <2>2. ASSUME NEW old \in BOOLEAN, Withdraw(old) PROVE FALSE
    BY <2>2 DEF Withdraw, Moderate
  <2>3. CASE Restore
    BY <2>3 DEF Restore, Moderate, RestoredHumanAction, RestartsModeration, HumanInv, WasPublic
  <2>4. ASSUME NEW hasReplies \in BOOLEAN, DeleteAccount(hasReplies) PROVE FALSE
    BY <2>4 DEF DeleteAccount, verdictVars
  <2>5. CASE ProofStep
    BY <2>5, ProofSteps DEF ModerationUnchanged
  <2>6. CASE DecidePost
    BY <2>6, VerdictSteps DEF ModerationUnchanged
  <2>7. CASE ModerationUnchanged
    BY <2>7 DEF ModerationUnchanged
  <2>. QED
    BY <2>1, <2>2, <2>3, <2>4, <2>5, <2>6, <2>7, OtherSteps DEF ModeratingStep
<1>. QED BY <1>1, Invariance, PTL DEF Spec, HumanDecisionStands

(***************************************************************************)
(* The AI's verdict is recorded only for the text the model was shown.     *)
(***************************************************************************)
THEOREM VerdictsMatch == Spec => VerdictMatchesText
<1>1. ASSUME IInv, [Next]_vars, ~aiDecided, aiDecided'
      PROVE  worker.text = text
  <2>1. DecidePost /\ VerdictApplies
    <3>1. ASSUME NEW t \in Texts, NEW claiming \in BOOLEAN, NEW sendsProof \in BOOLEAN,
                 NEW byModerator \in BOOLEAN, Create(t, claiming, sendsProof, byModerator)
          PROVE FALSE
      BY <1>1, <3>1 DEF Create, Moderate
    <3>2. ASSUME NEW old \in BOOLEAN, Withdraw(old) PROVE FALSE
      BY <1>1, <3>2 DEF Withdraw, Moderate
    <3>3. CASE Restore
      BY <1>1, <3>3 DEF Restore, Moderate
    <3>4. ASSUME NEW hasReplies \in BOOLEAN, DeleteAccount(hasReplies) PROVE FALSE
      BY <1>1, <3>4 DEF DeleteAccount, verdictVars
    <3>5. ASSUME NEW s \in {"APPROVED", "REJECTED", "PENDING"}, Publish(s) PROVE FALSE
      BY <1>1, <3>5 DEF Publish, HumanDecides, Moderate
    <3>6. ~ProofStep /\ ~ModerationUnchanged
      BY <1>1, ProofSteps DEF Moderate, ModerationUnchanged
    <3>. QED
      BY <1>1, <3>1, <3>2, <3>3, <3>4, <3>5, <3>6, OtherSteps, VerdictSteps DEF ModeratingStep
  <2>2. worker.at = "read" /\ worker.version = version /\ status = "PENDING"
    BY <2>1 DEF DecidePost, ApplyVerdict, VerdictApplies, NeedsAiVerdict
  <2>. QED BY <1>1, <2>2 DEF IInv, WorkerInv, Remnant
<1>. QED BY <1>1, Invariance, PTL DEF Spec, VerdictMatchesText

=============================================================================
