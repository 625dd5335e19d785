------------------------------ MODULE MCAnswers ------------------------------
(***************************************************************************)
(* Who waits is answered: posts and edits that wait for the AI             *)
(* (database.py), and requests for pictures (semaphore.ts).  The two share *)
(* no state.  A behaviour exercises one of them; in the other nothing ever *)
(* waits, so that its fairness asks for nothing.                           *)
(***************************************************************************)
EXTENDS Naturals

CONSTANTS
  Texts, Sensitive, EmptyText, plain, MaxEdits, MaxVersion,  \* CommentModeration
  Requests, Kinds, Backlog, Nobody                           \* Pictures

VARIABLES
  part,
  status, moderationState, aiAction, aiDecided, proofHold, humanAction, version, text, claims,
  statusBefore, withdrawnVersion, hasAuthor, everPublished, edits, reports, proof, worker,
  cleaned, owed, vouched,
  request, running, waiting, card, logo, font, loader, defaultCard, badge, upload, thumb

Posts == INSTANCE CommentModeration WITH Redacted <- [t \in Sensitive |-> plain], Reporters <- {}
Drawing == INSTANCE Pictures WITH Slots <- [s \in {"render", "transform"} |-> 1]

posts == <<status, moderationState, aiAction, aiDecided, proofHold, humanAction, version, text, claims,
           statusBefore, withdrawnVersion, hasAuthor, everPublished, edits, reports, proof, worker,
           cleaned, owed, vouched>>
drawing == <<request, running, waiting, card, logo, font, loader, defaultCard, badge, upload, thumb>>

Init ==
  /\ part \in {"posts", "drawing"}
  /\ Posts!Init /\ Drawing!Init

Next ==
  \/ part = "posts" /\ Posts!Next /\ UNCHANGED <<part, drawing>>
  \/ part = "drawing" /\ Drawing!Next /\ UNCHANGED <<part, posts>>

Spec == Init /\ [][Next]_<<part, posts, drawing>> /\ Posts!Fairness /\ Drawing!Fairness

(***************************************************************************)
(* Every post and every edit that waits for the AI is answered, unless     *)
(* somebody decides first (database.py:955, :1028).                        *)
(***************************************************************************)
AiAnswers == Posts!AiAnswersPosts /\ Posts!AiAnswersEdits

(***************************************************************************)
(* Everybody who asks for a picture is answered (semaphore.ts:28).         *)
(***************************************************************************)
EverybodyIsAnswered == Drawing!EverybodyIsAnswered
=============================================================================
