------------------------- MODULE CommentModeration -------------------------
(***************************************************************************)
(* The life of one root post (a row of "Comment") in KYCnot.me: its author *)
(* writes, edits, withdraws, restores it and sends proof; readers report   *)
(* it; moderators decide, redact, reclassify it and check its proof; and   *)
(* the Python worker lets a language model decide what nobody decided yet. *)
(*                                                                         *)
(* Every handler runs in one transaction that first takes the row lock of  *)
(* the post (SELECT ... FOR UPDATE), so it is one action here, with the    *)
(* triggers it fires.  The worker is different: it lists, reads, calls the *)
(* model and writes in separate transactions, and everybody else may act   *)
(* in between.  Those are separate actions.                                *)
(*                                                                         *)
(* The text of a post is a member of Texts.  Sensitive texts hold a detail *)
(* that a moderator removes; Redacted gives the text that is left.         *)
(***************************************************************************)
EXTENDS Naturals, FiniteSets

CONSTANTS
  Texts,        \* texts a post or an edit may hold
  Sensitive,    \* the texts with a detail moderators remove
  Redacted,     \* what is left of a sensitive text after the removal
  EmptyText,    \* the content of a deleted account's placeholder
  Reporters,    \* accounts that may report the post
  MaxEdits,     \* bound: edits submitted over the life of the post
  MaxVersion    \* bound: versions of the post

ASSUME TextsAssumption ==
  /\ Sensitive \subseteq Texts
  /\ EmptyText \in Texts \ Sensitive
  /\ Redacted \in [Sensitive -> Texts \ Sensitive]

ASSUME BoundsAssumption == MaxEdits \in Nat \ {0} /\ MaxVersion \in Nat

VARIABLES
  \* columns of the row
  status,             \* "ABSENT" before it is written and after it is deleted
  moderationState,    \* the queue column a trigger derives
  aiAction, aiDecided, proofHold,   \* aiAction, aiDecidedAt, aiSignals
  humanAction,
  version, text, claims,            \* claims: a KYC or held-funds tag
  statusBefore, withdrawnVersion,   \* what a withdrawal remembers
  hasAuthor,          \* authorId is not null
  everPublished,      \* an APPROVED revision exists
  \* rows that point to it
  edits,              \* CommentRevision rows written by the author
  reports,            \* the latest COMMENT_REPORT thread of each reporter
  proof,              \* the one live CommentEvidence row
  \* the AI worker
  worker,
  \* history
  cleaned,            \* a detail was redacted and not submitted again since
  owed,               \* withdrawn while a moderator had to look, undecided since
  vouched             \* a person published the post or an edit, or accepted its proof

verdictVars == <<aiAction, aiDecided, proofHold, humanAction>>
contentVars == <<version, text, claims>>
withdrawalVars == <<statusBefore, withdrawnVersion>>
historyVars == <<cleaned, owed, vouched>>
rowVars == <<status, moderationState, verdictVars, contentVars, withdrawalVars,
             hasAuthor, everPublished>>
vars == <<rowVars, edits, reports, proof, worker, historyVars>>

-----------------------------------------------------------------------------
(* Value sets *)

Status == {"ABSENT", "PENDING", "APPROVED", "REJECTED", "WITHDRAWN"}
Queue == {"AWAITING_AI", "AWAITING_HUMAN", "RESOLVED"}
Verdict == {"NONE", "APPROVE", "REJECT", "HOLD"}
ReportState == {"NONE", "OPEN", "ACTION_TAKEN", "NO_ACTION", "WITHDRAWN"}

\* NONE: no live proof; WAITING: needsCheck; NOTED: cleared as a note;
\* COUNTS and FAILED: by its latest check.
Proof == {"NONE", "WAITING", "NOTED", "COUNTS", "FAILED"}

EditIds == 1..MaxEdits
Versions == 0..MaxVersion
Edit == [status : {"NONE", "PENDING", "DECIDED"}, base : Versions, text : Texts,
         claims : BOOLEAN, held : BOOLEAN]
NoEdit == [status |-> "NONE", base |-> 0, text |-> EmptyText,
           claims |-> FALSE, held |-> FALSE]
DecidedEdit == [NoEdit EXCEPT !.status = "DECIDED"]

\* at: between runs; a post listed; its context read; an edit read.
\* gate: a fact read then that keeps the model from publishing on its own.
Worker == [at : {"idle", "listed", "read", "edit"}, version : Versions, text : Texts,
           gate : BOOLEAN, edit : 0..MaxEdits]
IdleWorker == [at |-> "idle", version |-> 0, text |-> EmptyText, gate |-> FALSE, edit |-> 0]

TypeOK ==
  /\ status \in Status
  /\ moderationState \in Queue
  /\ aiAction \in Verdict /\ aiDecided \in BOOLEAN /\ proofHold \in BOOLEAN
  /\ humanAction \in Verdict
  /\ version \in Versions /\ text \in Texts /\ claims \in BOOLEAN
  /\ statusBefore \in {"NONE", "PENDING", "APPROVED"}
  /\ withdrawnVersion \in Versions
  /\ hasAuthor \in BOOLEAN /\ everPublished \in BOOLEAN
  /\ edits \in [EditIds -> Edit]
  /\ reports \in [Reporters -> ReportState]
  /\ proof \in Proof
  /\ worker \in Worker
  /\ cleaned \in BOOLEAN /\ owed \in BOOLEAN
  /\ vouched \in BOOLEAN

-----------------------------------------------------------------------------
(* Operators the handlers share *)

IsPublished == status = "APPROVED"
PendingEdits == {i \in EditIds : edits[i].status = "PENDING"}
OpenReports == {r \in Reporters : reports[r] = "OPEN"}

\* Mutation: a moderator's hold is not looked at.
ModerationStateBlindToHolds(s, ai, human, decided) ==
  IF s # "PENDING" \/ human \in {"APPROVE", "REJECT"} THEN "RESOLVED"
  ELSE IF ai = "HOLD" \/ decided THEN "AWAITING_HUMAN"
  ELSE "AWAITING_AI"

\* compute_comment_moderation_state
ModerationState(s, ai, human, decided) ==
  IF s # "PENDING" \/ human \in {"APPROVE", "REJECT"} THEN "RESOLVED"
  ELSE IF human = "HOLD" \/ ai = "HOLD" \/ decided THEN "AWAITING_HUMAN"
  ELSE "AWAITING_AI"

\* An UPDATE of the status or of a verdict column, with the triggers it fires:
\* the queue column, and the saved revision of a first publication.
Moderate(s, ai, decided, human) ==
  /\ status' = s
  /\ aiAction' = ai
  /\ aiDecided' = decided
  /\ humanAction' = human
  /\ moderationState' = ModerationState(s, ai, human, decided)
  /\ everPublished' = (everPublished \/ s = "APPROVED")

\* A moderator's decision settles what a withdrawal left open.
HumanDecides(s, action) ==
  /\ Moderate(s, aiAction, aiDecided, action)
  /\ owed' = FALSE
  /\ vouched' = (vouched \/ s = "APPROVED")

\* The reports a withdrawal or a rejection closes. Mutation: it forgets to.
KeepOpenReports(outcome) == reports
CloseOpenReports(outcome) ==
  [r \in Reporters |-> IF reports[r] = "OPEN" THEN outcome ELSE reports[r]]

\* moderatorTodoReasons; old: what waits for the AI is past the grace period.
\* A proof request not yet due takes a held post off the list; that post is pending,
\* so what a withdrawal remembers of it is the same.
ModeratorTodo(old) ==
  \/ moderationState = "AWAITING_HUMAN"
  \/ moderationState = "AWAITING_AI" /\ old
  \/ proof = "WAITING" /\ status # "REJECTED"
  \/ OpenReports # {}
  \/ \E i \in PendingEdits : edits[i].held \/ old

\* What a withdrawal remembers of the status. Mutation: whatever was open, the status.
WithdrawnAsIs(old) == status
WithdrawnFrom(old) == IF ModeratorTodo(old) THEN "PENDING" ELSE status

\* restoredStatus
RestoredStatus ==
  IF statusBefore = "APPROVED" /\ version = withdrawnVersion THEN "APPROVED" ELSE "PENDING"

\* A published post that changed while withdrawn is moderated again from the start.
RestartsModeration == RestoredStatus = "PENDING" /\ statusBefore = "APPROVED"

\* Mutation: a past approval stays on a post that goes back to review.
RestoredHumanActionKept == humanAction
RestoredHumanAction ==
  IF RestartsModeration \/ (RestoredStatus = "PENDING" /\ humanAction \in {"APPROVE", "REJECT"})
  THEN "NONE" ELSE humanAction

\* isHeldOnlyForProof, given the proof the post will have. Mutation: a hold is overlooked.
PublishesOnProofDespiteHold(p) ==
  p = "COUNTS" /\ status = "PENDING" /\ aiAction = "HOLD" /\ proofHold
PublishesOnProof(p) ==
  /\ p = "COUNTS"
  /\ status = "PENDING"
  /\ humanAction = "NONE"
  /\ aiAction = "HOLD"
  /\ proofHold

\* publishIfHeldOnlyForProof
PublishIfHeldOnlyForProof(p) ==
  IF PublishesOnProof(p)
  THEN HumanDecides("APPROVED", "APPROVE")
  ELSE /\ vouched' = (vouched \/ p = "COUNTS")
       /\ UNCHANGED <<status, moderationState, aiAction, aiDecided, humanAction,
                      everPublished, owed>>

\* The WHERE clause of get_pending_comments.
NeedsAiVerdict == status = "PENDING" /\ ~aiDecided /\ humanAction = "NONE"

\* _HARM_CLAIMS without hasAcceptedProof. Mutation: any proof sent will do.
ClaimGateMetByAnyProof == claims /\ proof = "NONE"
ClaimGate == claims /\ proof # "COUNTS"

\* apply_comment_revision(approve) can carry edit i out. Mutation: without the version check.
StaleEditApplies(i) == edits[i].status = "PENDING" /\ IsPublished
EditApplies(i) ==
  /\ edits[i].status = "PENDING"
  /\ IsPublished
  /\ edits[i].base = version

\* The writes of apply_comment_revision.
ApproveEdit(i) ==
  /\ text' = edits[i].text
  /\ claims' = edits[i].claims
  /\ version' = version + 1
  /\ edits' = [edits EXCEPT ![i] = DecidedEdit]

RejectEdit(i) ==
  /\ edits' = [edits EXCEPT ![i] = DecidedEdit]
  /\ UNCHANGED contentVars

\* The edit waits for a moderator.
HoldEdit(i) ==
  /\ edits' = IF edits[i].status = "PENDING"
              THEN [edits EXCEPT ![i].held = TRUE] ELSE edits
  /\ UNCHANGED contentVars

-----------------------------------------------------------------------------
Init ==
  /\ status = "ABSENT" /\ moderationState = "RESOLVED"
  /\ aiAction = "NONE" /\ aiDecided = FALSE /\ proofHold = FALSE /\ humanAction = "NONE"
  /\ version = 0 /\ text = EmptyText /\ claims = FALSE
  /\ statusBefore = "NONE" /\ withdrawnVersion = 0
  /\ hasAuthor = TRUE /\ everPublished = FALSE
  /\ edits = [i \in EditIds |-> NoEdit]
  /\ reports = [r \in Reporters |-> "NONE"]
  /\ proof = "NONE"
  /\ worker = IdleWorker
  /\ cleaned = FALSE /\ owed = FALSE /\ vouched = FALSE

(***************************************************************************)
(* The author.  A post that claims KYC or held funds comes with proof.  A  *)
(* moderator's own post is published as their decision.                    *)
(***************************************************************************)
Create(t, claiming, sendsProof, byModerator) ==
  /\ status = "ABSENT"
  /\ hasAuthor
  /\ t # EmptyText
  /\ claiming => sendsProof
  /\ text' = t /\ claims' = claiming
  /\ proof' = IF sendsProof THEN "WAITING" ELSE "NONE"
  /\ IF byModerator
     THEN Moderate("APPROVED", "NONE", FALSE, "APPROVE")
     ELSE Moderate("PENDING", "NONE", FALSE, "NONE")
  /\ vouched' = byModerator
  /\ UNCHANGED <<proofHold, version, withdrawalVars, hasAuthor, edits, reports,
                 worker, cleaned, owed>>

\* The bound MaxVersion leaves the version the edit would publish.
SubmitEdit(i, t, claiming) ==
  /\ hasAuthor
  /\ IsPublished
  /\ PendingEdits = {}
  /\ edits[i].status = "NONE"
  /\ version < MaxVersion
  /\ t # EmptyText
  /\ claiming /\ ~claims => proof # "NONE"
  /\ edits' = [edits EXCEPT ![i] = [status |-> "PENDING", base |-> version, text |-> t,
                                    claims |-> claiming, held |-> FALSE]]
  /\ cleaned' = (cleaned /\ t \notin Sensitive)
  /\ UNCHANGED <<rowVars, reports, proof, worker, owed, vouched>>

Withdraw(old) ==
  /\ hasAuthor
  /\ status \in {"PENDING", "APPROVED"}
  /\ statusBefore' = WithdrawnFrom(old)
  /\ withdrawnVersion' = version
  /\ Moderate("WITHDRAWN", aiAction, aiDecided, humanAction)
  /\ reports' = CloseOpenReports("WITHDRAWN")
  /\ edits' = [i \in EditIds |-> IF i \in PendingEdits THEN DecidedEdit ELSE edits[i]]
  /\ owed' = (owed \/ ModeratorTodo(old))
  /\ UNCHANGED <<proofHold, contentVars, hasAuthor, proof, worker, cleaned, vouched>>

Restore ==
  /\ hasAuthor
  /\ status = "WITHDRAWN"
  /\ statusBefore # "NONE"
  /\ statusBefore' = "NONE"
  /\ withdrawnVersion' = 0
  /\ Moderate(RestoredStatus, IF RestartsModeration THEN "NONE" ELSE aiAction,
              aiDecided /\ ~RestartsModeration, RestoredHumanAction)
  /\ UNCHANGED <<proofHold, contentVars, hasAuthor, edits, reports, proof, worker,
                 historyVars>>

\* New proof replaces the current one, unless that one counts.
AddProof ==
  /\ hasAuthor
  /\ status \in {"PENDING", "APPROVED"}
  /\ proof # "COUNTS"
  /\ proof' = "WAITING"
  /\ UNCHANGED <<rowVars, edits, reports, worker, historyVars>>

RemoveProof ==
  /\ hasAuthor
  /\ proof \notin {"NONE", "COUNTS"}
  /\ proof' = "NONE"
  /\ UNCHANGED <<rowVars, edits, reports, worker, historyVars>>

\* delete_user_account. hasReplies: other accounts replied to the post.
DeletesPost == status = "REJECTED" \/ (status # "APPROVED" /\ ~everPublished)

DeleteAccount(hasReplies) ==
  /\ hasAuthor
  /\ status # "ABSENT"
  /\ hasAuthor' = FALSE
  /\ edits' = [i \in EditIds |-> NoEdit]
  /\ \/ /\ ~DeletesPost
        /\ UNCHANGED <<status, moderationState, verdictVars, contentVars, withdrawalVars,
                       everPublished, proof>>
     \/ /\ DeletesPost
        /\ status' = IF hasReplies THEN "WITHDRAWN" ELSE "ABSENT"
        /\ moderationState' = "RESOLVED"
        /\ statusBefore' = "NONE" /\ withdrawnVersion' = 0
        /\ text' = EmptyText /\ claims' = FALSE
        /\ everPublished' = FALSE
        /\ proof' = "NONE"
        /\ UNCHANGED <<verdictVars, version>>
  /\ UNCHANGED <<reports, worker, historyVars>>

-----------------------------------------------------------------------------
(* Readers and moderators *)

Report(r) ==
  /\ IsPublished
  /\ reports[r] # "OPEN"
  /\ reports' = [reports EXCEPT ![r] = "OPEN"]
  /\ UNCHANGED <<rowVars, edits, proof, worker, historyVars>>

CloseReport(r, outcome) ==
  /\ reports[r] = "OPEN"
  /\ reports' = [reports EXCEPT ![r] = outcome]
  /\ UNCHANGED <<rowVars, edits, proof, worker, historyVars>>

HumanActionFor(s) ==
  CASE s = "APPROVED" -> "APPROVE" [] s = "REJECTED" -> "REJECT" [] OTHER -> "HOLD"

\* Publish, reject or hold.  Rejecting is the action the open reports asked for.
Publish(s) ==
  /\ status \notin {"ABSENT", "WITHDRAWN"}
  /\ HumanDecides(s, HumanActionFor(s))
  /\ reports' = IF s = "REJECTED" THEN CloseOpenReports("ACTION_TAKEN") ELSE reports
  /\ UNCHANGED <<proofHold, contentVars, withdrawalVars, hasAuthor, edits, proof,
                 worker, cleaned>>

ReviewEdit(i, approve) ==
  /\ edits[i].status = "PENDING"
  /\ approve => EditApplies(i)
  /\ IF approve THEN ApproveEdit(i) ELSE RejectEdit(i)
  /\ vouched' = (vouched \/ approve)
  /\ UNCHANGED <<status, moderationState, verdictVars, withdrawalVars, hasAuthor,
                 everPublished, reports, proof, worker, cleaned, owed>>

\* Removes the detail of the live text or of a pending edit, wherever that text stands.
Redact(t) ==
  /\ status # "ABSENT"
  /\ version < MaxVersion
  /\ t \in Sensitive
  /\ t = text \/ \E i \in PendingEdits : edits[i].text = t
  /\ edits' = [i \in EditIds |-> IF i \in PendingEdits /\ edits[i].text = t
                                 THEN DecidedEdit ELSE edits[i]]
  /\ IF t = text
     THEN text' = Redacted[t] /\ version' = version + 1 /\ cleaned' = TRUE
     ELSE UNCHANGED <<text, version, cleaned>>
  /\ UNCHANGED <<status, moderationState, verdictVars, claims, withdrawalVars, hasAuthor,
                 everPublished, reports, proof, worker, owed, vouched>>

\* Only a post whose sentiment is not the author's choice; which one that is, is data.
Classify ==
  /\ status # "ABSENT"
  /\ PendingEdits = {}
  /\ version < MaxVersion
  /\ version' = version + 1
  /\ UNCHANGED <<status, moderationState, verdictVars, text, claims, withdrawalVars,
                 hasAuthor, everPublished, edits, reports, proof, worker, historyVars>>

CheckProof(finding) ==
  /\ proof # "NONE"
  /\ proof' = finding
  /\ PublishIfHeldOnlyForProof(finding)
  /\ UNCHANGED <<proofHold, contentVars, withdrawalVars, hasAuthor, edits, reports,
                 worker, cleaned>>

DismissNote ==
  /\ proof = "WAITING"
  /\ proof' = "NOTED"
  /\ PublishIfHeldOnlyForProof("NOTED")
  /\ UNCHANGED <<proofHold, contentVars, withdrawalVars, hasAuthor, edits, reports,
                 worker, cleaned>>

DeleteProof ==
  /\ proof # "NONE"
  /\ proof' = "NONE"
  /\ UNCHANGED <<rowVars, edits, reports, worker, historyVars>>

-----------------------------------------------------------------------------
(***************************************************************************)
(* The AI worker.  A recommendation comes with gated, another hard gate    *)
(* applies, and sure, a rejection the worker may carry out on its own.     *)
(***************************************************************************)
Recommendation == {"approve", "reject", "human_review"}

\* _decide and _decide_edit
AiVerdict(recommended, gated, sure) ==
  IF recommended = "approve" /\ ~worker.gate /\ ~gated THEN "APPROVE"
  ELSE IF recommended = "reject" /\ sure THEN "REJECT"
  ELSE "HOLD"

AiStatus(verdict) ==
  CASE verdict = "APPROVE" -> "APPROVED" [] verdict = "REJECT" -> "REJECTED" [] OTHER -> "PENDING"

\* get_pending_comments keeps the version it saw.
ListPost ==
  /\ worker.at = "idle"
  /\ NeedsAiVerdict
  /\ worker' = [IdleWorker EXCEPT !.at = "listed", !.version = version]
  /\ UNCHANGED <<rowVars, edits, reports, proof, historyVars>>

\* get_moderation_context finds nothing once the post or its author is gone.
ReadPost ==
  /\ worker.at = "listed"
  /\ worker' = IF status # "ABSENT" /\ hasAuthor
               THEN [worker EXCEPT !.at = "read", !.text = text,
                                   !.gate = ClaimGate]
               ELSE IdleWorker
  /\ UNCHANGED <<rowVars, edits, reports, proof, historyVars>>

\* The WHERE clause of apply_ai_moderation_decision. Mutation: without the version.
VerdictAppliesToAnyVersion == NeedsAiVerdict
VerdictApplies == NeedsAiVerdict /\ version = worker.version

ApplyVerdict(recommended, gated, sure) ==
  LET verdict == AiVerdict(recommended, gated, sure) IN
  /\ worker.at = "read"
  /\ worker' = IdleWorker
  /\ IF VerdictApplies
     THEN /\ Moderate(AiStatus(verdict), verdict, TRUE, humanAction)
          /\ proofHold' = (recommended = "approve" /\ worker.gate /\ ~gated)
          /\ owed' = FALSE
     ELSE UNCHANGED <<status, moderationState, verdictVars, everPublished, owed>>
  /\ UNCHANGED <<contentVars, withdrawalVars, hasAuthor, edits, reports, proof,
                 cleaned, vouched>>

\* _edit_context: what sends the approval of an edit to a moderator.
EditGate(i) ==
  \/ OpenReports # {}
  \/ humanAction = "HOLD" /\ status = "PENDING"
  \/ edits[i].claims # claims

\* get_pending_revisions
ReadEdit(i) ==
  /\ worker.at = "idle"
  /\ edits[i].status = "PENDING"
  /\ ~edits[i].held
  /\ worker' = [IdleWorker EXCEPT !.at = "edit", !.edit = i, !.gate = EditGate(i)]
  /\ UNCHANGED <<rowVars, edits, reports, proof, historyVars>>

\* apply_ai_edit_decision: a verdict that can't be carried out becomes a hold.
ApplyEditVerdict(recommended, gated, sure) ==
  LET i == worker.edit
      verdict == AiVerdict(recommended, gated, sure)
  IN
  /\ worker.at = "edit"
  /\ worker' = IdleWorker
  /\ CASE verdict = "APPROVE" /\ EditApplies(i) -> ApproveEdit(i)
       [] verdict = "REJECT" /\ edits[i].status = "PENDING" -> RejectEdit(i)
       [] OTHER -> HoldEdit(i)
  /\ UNCHANGED <<status, moderationState, verdictVars, withdrawalVars, hasAuthor,
                 everPublished, reports, proof, historyVars>>

\* The model's call fails, or the worker stops and starts again.
GiveUp ==
  /\ worker.at # "idle"
  /\ worker' = IdleWorker
  /\ UNCHANGED <<rowVars, edits, reports, proof, historyVars>>

-----------------------------------------------------------------------------
DecidePost == \E recommended \in Recommendation, gated, sure \in BOOLEAN :
                ApplyVerdict(recommended, gated, sure)
DecideEdit == \E recommended \in Recommendation, gated, sure \in BOOLEAN :
                ApplyEditVerdict(recommended, gated, sure)

AuthorStep ==
  \/ \E t \in Texts, claiming, sendsProof, byModerator \in BOOLEAN :
       Create(t, claiming, sendsProof, byModerator)
  \/ \E i \in EditIds, t \in Texts, claiming \in BOOLEAN : SubmitEdit(i, t, claiming)
  \/ \E old \in BOOLEAN : Withdraw(old)
  \/ Restore
  \/ AddProof
  \/ RemoveProof
  \/ \E hasReplies \in BOOLEAN : DeleteAccount(hasReplies)

ModeratorStep ==
  \/ \E s \in {"APPROVED", "REJECTED", "PENDING"} : Publish(s)
  \/ \E i \in EditIds, approve \in BOOLEAN : ReviewEdit(i, approve)
  \/ \E t \in Texts : Redact(t)
  \/ Classify
  \/ \E finding \in {"COUNTS", "FAILED"} : CheckProof(finding)
  \/ DismissNote
  \/ DeleteProof
  \/ \E r \in Reporters, outcome \in {"ACTION_TAKEN", "NO_ACTION"} : CloseReport(r, outcome)

WorkerStep ==
  \/ ListPost
  \/ ReadPost
  \/ DecidePost
  \/ \E i \in EditIds : ReadEdit(i)
  \/ DecideEdit
  \/ GiveUp

Next == AuthorStep \/ ModeratorStep \/ WorkerStep \/ \E r \in Reporters : Report(r)

(***************************************************************************)
(* The scheduler runs the worker again and again, each run takes the posts *)
(* and then the edits, and neither the runs nor the calls fail for ever.   *)
(***************************************************************************)
Fairness ==
  /\ SF_vars(ListPost)
  /\ SF_vars(ReadPost)
  /\ SF_vars(DecidePost)
  /\ \A i \in EditIds : SF_vars(ReadEdit(i))
  /\ SF_vars(DecideEdit)

Spec == Init /\ [][Next]_vars
FairSpec == Spec /\ Fairness

-----------------------------------------------------------------------------
(* Properties *)

(***************************************************************************)
(* A post that waits for a decision is in one of the two queues, whatever  *)
(* withdrawals, restores and past decisions came before: it can't be       *)
(* silently invisible (16_comment_moderation_state.sql:6).                 *)
(***************************************************************************)
PendingNeverInvisible ==
  status = "PENDING" => moderationState \in {"AWAITING_AI", "AWAITING_HUMAN"}

(***************************************************************************)
(* The rows the worker asks for are exactly the rows the queue column      *)
(* shows as waiting for the AI (database.py:945).                          *)
(***************************************************************************)
WorkerSeesAwaitingAi == moderationState = "AWAITING_AI" <=> NeedsAiVerdict

(***************************************************************************)
(* No report stays open on a post that is down, and no edit waits on a     *)
(* withdrawn one, so a restored post brings no stale work back.            *)
(***************************************************************************)
NothingOpenOnHiddenPosts ==
  /\ status \in {"WITHDRAWN", "REJECTED"} => OpenReports = {}
  /\ status = "WITHDRAWN" => PendingEdits = {}

(***************************************************************************)
(* A detail a moderator removed from the live text comes back only with an *)
(* edit its author submits after the removal, never with one that was      *)
(* waiting then: a stale edit never overwrites a newer version             *)
(* (19_comment_revisions.sql:5).                                           *)
(***************************************************************************)
RedactionSticks == cleaned => text \notin Sensitive

(***************************************************************************)
(* A post its author withdrew while a moderator had to look at it is not   *)
(* public again before somebody decided it anew (experience.ts:498).       *)
(***************************************************************************)
RestoreReviewsAgain == owed => ~IsPublished

(***************************************************************************)
(* A KYC or held-funds claim is public only if a person vouched for the    *)
(* post: accepted its proof, or published it or an edit of it.  The AI     *)
(* alone never gets such a claim out (guidelines.mdx:112).                 *)
(***************************************************************************)
ClaimsAreVouchedFor == IsPublished /\ claims => vouched

(***************************************************************************)
(* A moderator's hold or rejection ends only with a moderator's decision:  *)
(* no withdrawal, restore, proof check or AI verdict lifts it.             *)
(***************************************************************************)
HumanDecisionStands ==
  [][ humanAction' # humanAction /\ humanAction \in {"HOLD", "REJECT"}
        => (\E s \in {"APPROVED", "REJECTED", "PENDING"} : Publish(s)) ]_vars

(***************************************************************************)
(* The AI's verdict is recorded only for the text the model was shown,     *)
(* although the text may change during the call.                           *)
(***************************************************************************)
VerdictMatchesText == [][ ~aiDecided /\ aiDecided' => worker.text = text ]_vars

(***************************************************************************)
(* Every post that waits for the AI gets its verdict, unless somebody      *)
(* decides or withdraws it first or its author's account goes.             *)
(***************************************************************************)
AiAnswersPosts ==
  (moderationState = "AWAITING_AI" /\ hasAuthor)
    ~> (moderationState # "AWAITING_AI" \/ ~hasAuthor)

(***************************************************************************)
(* Every edit is looked at: it is decided or handed to the moderators.     *)
(* An edit the worker can't carry out is held instead of failing the same  *)
(* way on every run (database.py:1028).                                    *)
(***************************************************************************)
AiAnswersEdits ==
  \A i \in EditIds : (edits[i].status = "PENDING" /\ ~edits[i].held)
                      ~> (edits[i].status # "PENDING" \/ edits[i].held)

-----------------------------------------------------------------------------
(***************************************************************************)
(* Why the invariants hold: a conjunction that every action preserves      *)
(* (CommentModerationProofs).                                              *)
(***************************************************************************)

\* The queue column is what the trigger computes, and a pending post is undecided.
QueueInv ==
  /\ moderationState = ModerationState(status, aiAction, humanAction, aiDecided)
  /\ status = "PENDING" => humanAction \in {"NONE", "HOLD"}
  /\ ~aiDecided => aiAction = "NONE"

\* Public, or public again when restored unchanged.
WasPublic == IsPublished \/ (status = "WITHDRAWN" /\ statusBefore = "APPROVED")

\* No public post carries a hold or a rejection, and no withdrawn one a rejection.
HumanInv ==
  /\ WasPublic => humanAction \in {"NONE", "APPROVE"}
  /\ status = "WITHDRAWN" /\ statusBefore # "NONE" => humanAction # "REJECT"

\* A post not yet written has no past.
UnwrittenInv ==
  status = "ABSENT" /\ hasAuthor =>
    /\ humanAction = "NONE"
    /\ ~cleaned /\ ~owed
    /\ worker.at = "idle"
    /\ PendingEdits = {}

\* Reports come from a publication; only a moderator's hold leaves them open on a pending post.
ReportInv ==
  /\ IsPublished \/ OpenReports # {} => everPublished
  /\ status = "ABSENT" => ~everPublished
  /\ status = "PENDING" /\ OpenReports # {} => humanAction = "HOLD"
  /\ NothingOpenOnHiddenPosts

\* An edit that can still be carried out was submitted after the last removal.
EditInv ==
  /\ RedactionSticks
  /\ \A i \in PendingEdits :
       /\ edits[i].base < MaxVersion
       /\ edits[i].base <= version
       /\ cleaned /\ edits[i].base = version => edits[i].text \notin Sensitive

OwedInv == owed => ~WasPublic

ClaimInv ==
  /\ proof = "COUNTS" => vouched
  /\ claims /\ WasPublic => vouched

\* What is left of a post whose author's account was deleted.
Remnant == ~hasAuthor /\ status \in {"ABSENT", "WITHDRAWN"}

\* What the worker read is still true as long as the version is the one it saw.
WorkerInv ==
  /\ worker.at \in {"listed", "read"} => worker.version <= version
  /\ worker.at = "read" /\ worker.version = version /\ ~Remnant =>
       worker.text = text /\ (claims /\ ~worker.gate => vouched)
  /\ worker.at = "edit" =>
       /\ worker.edit \in EditIds
       /\ edits[worker.edit].status = "NONE" => ~hasAuthor
       /\ edits[worker.edit].status = "PENDING" /\ edits[worker.edit].base = version
            /\ ~worker.gate /\ edits[worker.edit].claims => claims

IInv ==
  /\ TypeOK /\ QueueInv /\ HumanInv /\ UnwrittenInv /\ ReportInv
  /\ EditInv /\ OwedInv /\ ClaimInv /\ WorkerInv
=============================================================================
