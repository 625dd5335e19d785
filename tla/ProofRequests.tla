----------------------------- MODULE ProofRequests -----------------------------
(***************************************************************************)
(* The private proof of one published or held post that reports a problem, *)
(* the results moderators publish for it, and the requests that ask its    *)
(* author for proof.  A page decides whether a request was answered from   *)
(* the rows it loaded, and a query decides it again in SQL.                *)
(*                                                                         *)
(* Every transaction locks the post, or the one proof it writes, so it is  *)
(* one step; what is checked before an image is decoded is a step of its   *)
(* own.  A text is a member of a class the classification tells apart.     *)
(* What else happens to the post is CommentModeration's.                   *)
(***************************************************************************)
EXTENDS Integers, FiniteSets

CONSTANTS
  Bodies,       \* the classes of text that get sent
  Findings,     \* the results that get published
  MaxEvidence,  \* bound: proofs sent
  MaxRequests,  \* bound: requests made
  MaxTime,      \* bound: the clock
  RequestDays,  \* PROOF_REQUEST_DAYS, in ticks of the clock
  Gone,         \* proof that was removed; its checks stay, and count for nothing
  None

VARIABLES
  now,
  author,       \* whether the account still exists
  post,         \* "held" is PENDING and AWAITING_HUMAN; "down" is withdrawn or rejected
  evidence,     \* "CommentEvidence", by order of creation, with its latest check
  requests,     \* "ProofRequest", by order of creation
  sending       \* proof that passed the first check and whose image is being decoded

vars == <<now, author, post, evidence, requests, sending>>

TextClasses == {"pattern", "lookup", "order", "transaction", "link", "id in words", "words"}
Kinds == {"ORDER_ID", "LOOKUP_LINK", "TRANSACTION_ID", "EXTERNAL_LINK", "SCREENSHOT", "NOTE"}
Counting == {"ORDER_FOUND", "SCREENSHOT_REVIEWED", "TRANSACTION_SUPPORTED", "REFUND_SUPPORTED", "CLAIM_SUPPORTED"}
RestsOnImage == Counting \ {"ORDER_FOUND"}

Evidence == [created : 0..MaxTime, kind : Kinds, body : Bodies \cup {None},
             image : BOOLEAN, needsCheck : BOOLEAN, finding : Findings \cup {"LEGACY", None},
             legacy : {"APPROVED", "PENDING", None}]
Request == [source : {"SERVICE", "MODERATOR"}, due : 0..(MaxTime + RequestDays), cancelled : BOOLEAN]
Proofs == 1..MaxEvidence
Asked == 1..MaxRequests

ConstantsDiffer ==
  /\ None \notin Evidence \cup Request \cup {Gone}
  /\ Gone \notin Evidence
  /\ "words" \in Bodies
  /\ MaxTime \in Nat /\ RequestDays \in Nat

TypeOK ==
  /\ now \in 0..MaxTime
  /\ author \in BOOLEAN
  /\ post \in {"held", "published", "down"}
  /\ evidence \in [Proofs -> Evidence \cup {None, Gone}]
  /\ requests \in [Asked -> Request \cup {None}]
  /\ sending \in {None} \cup [body : Bodies \cup {None}, image : BOOLEAN]

-----------------------------------------------------------------------------
(* What a proof is worth *)

\* classifyProof: a match of the service's pattern or lookup link first, the image next, shapes last.
ClassifyProof(body, image) ==
  CASE body = "pattern" -> "ORDER_ID"
    [] body = "lookup" -> "LOOKUP_LINK"
    [] image /\ body \notin {"pattern", "lookup"} -> "SCREENSHOT"
    [] ~image /\ body = "transaction" -> "TRANSACTION_ID"
    [] ~image /\ body = "link" -> "EXTERNAL_LINK"
    [] ~image /\ body \in {"order", "id in words"} -> "ORDER_ID"
    [] OTHER -> "NOTE"

Sent == {v \in Proofs : evidence[v] # None}
Live == {v \in Sent : evidence[v] # Gone}

\* proofStatus: only the latest check counts.
Counts(row) ==
  /\ row \notin {None, Gone}
  /\ row.finding \in Counting \/ (row.finding = "LEGACY" /\ row.legacy = "APPROVED")
CountsAsProof(v) == Counts(evidence[v])

\* publicProofView
Unchecked(v) == v \in Live /\ evidence[v].finding = None /\ evidence[v].needsCheck
SummarizeProof ==
  CASE \E v \in Sent : CountsAsProof(v) -> "checked"
    [] (\A v \in Sent : ~CountsAsProof(v)) /\ (\E v \in Sent : Unchecked(v)) -> "unchecked"
    [] OTHER -> "none"

-----------------------------------------------------------------------------
(* Whether a request was answered *)

Made == {r \in Asked : requests[r] # None}
Open == {r \in Made : ~requests[r].cancelled}

\* Mutation: proof that waits for a check answers whenever it was sent.
AnyWaitingAnswers(r) ==
  IF \E v \in Live : CountsAsProof(v) \/ evidence[v].needsCheck \/ evidence[v].finding = "UNABLE_TO_CHECK"
  THEN "answered" ELSE IF requests[r].due > now THEN "open" ELSE "unanswered"
\* proofRequestState, as a page sees it.
ProofRequestState(r) ==
  LET answered ==
        \E v \in Sent :
          \/ CountsAsProof(v)
          \/ v \in Live /\ \/ evidence[v].needsCheck /\ evidence[v].created <= requests[r].due
                           \/ evidence[v].finding = "UNABLE_TO_CHECK"
  IN IF answered THEN "answered" ELSE IF requests[r].due > now THEN "open" ELSE "unanswered"

\* The request a page shows: the latest that is not cancelled.
ShownRequest == {r \in Open : \A other \in Open : other <= r}

\* acceptedProofSql and unprovenSql
AcceptedProof ==
  \E v \in Live : IF evidence[v].finding = "LEGACY" THEN evidence[v].legacy = "APPROVED"
                  ELSE evidence[v].finding \in Counting
Unproven ==
  /\ ~AcceptedProof
  /\ \E r \in Open :
       /\ requests[r].due < now
       /\ ~\E v \in Live : \/ evidence[v].needsCheck /\ evidence[v].created <= requests[r].due
                           \/ evidence[v].finding = "UNABLE_TO_CHECK"

-----------------------------------------------------------------------------
NewEvidence(body, image) ==
  [created |-> now, kind |-> ClassifyProof(body, image), body |-> body, image |-> image,
   needsCheck |-> TRUE, finding |-> None, legacy |-> None]

\* What the old process left: proof it accepted, and proof nobody reviewed.
LegacyEvidence == {[NewEvidence("words", FALSE) EXCEPT !.needsCheck = FALSE, !.finding = "LEGACY", !.legacy = "APPROVED"],
                   [NewEvidence("words", FALSE) EXCEPT !.legacy = "PENDING"]}

Init ==
  /\ now = 0
  /\ author = TRUE
  /\ post \in {"held", "published"}
  /\ \E first \in {None} \cup LegacyEvidence \cup {NewEvidence(body, FALSE) : body \in Bodies} :
       evidence = [v \in Proofs |-> IF v = 1 THEN first ELSE None]
  /\ requests = [r \in Asked |-> None]
  /\ sending = None

Tick ==
  /\ now < MaxTime
  /\ now' = now + 1
  /\ UNCHANGED <<author, post, evidence, requests, sending>>

-----------------------------------------------------------------------------
(* The author *)

MaySend == author /\ post \in {"held", "published"} /\ \A v \in Live : ~CountsAsProof(v)

AskToSend(body, image) ==
  /\ sending = None /\ MaySend
  /\ body # None \/ image
  /\ sending' = [body |-> body, image |-> image]
  /\ UNCHANGED <<now, author, post, evidence, requests>>

StillMaySend == MaySend

\* addEvidence: what was checked is checked again under the locks. The new proof replaces the current one,
\* any one of them where the old process left several.
AddEvidence ==
  /\ sending # None /\ StillMaySend
  /\ \E v \in Proofs \ Sent :
       /\ \A other \in Proofs \ Sent : v <= other
       /\ \E current \in IF Live = {} THEN {None} ELSE Live :
            evidence' = [w \in Proofs |-> CASE w = v -> NewEvidence(sending.body, sending.image)
                                            [] w = current -> Gone
                                            [] OTHER -> evidence[w]]
  /\ sending' = None
  /\ UNCHANGED <<now, author, post, requests>>

GiveUp ==
  /\ sending # None
  /\ sending' = None
  /\ UNCHANGED <<now, author, post, evidence, requests>>

RemoveEvidence(v) ==
  /\ author /\ v \in Live /\ ~CountsAsProof(v)
  /\ evidence' = [evidence EXCEPT ![v] = Gone]
  /\ UNCHANGED <<now, author, post, requests, sending>>

\* A kept post stays with its proof, a held one goes with everything.
DeleteAccount ==
  /\ author /\ post # "held"
  /\ author' = FALSE
  /\ UNCHANGED <<now, post, evidence, requests, sending>>

-----------------------------------------------------------------------------
(* Requests *)

CreateProofRequest(source) ==
  \E r \in Asked \ Made :
    /\ \A other \in Asked \ Made : r <= other
    /\ requests' = [requests EXCEPT ![r] = [source |-> source, due |-> now + RequestDays, cancelled |-> FALSE]]
    /\ UNCHANGED <<now, author, post, evidence, sending>>

Hindering == {r \in Made : requests[r].source = "SERVICE" \/ ~requests[r].cancelled}

\* A report of its affiliate that calls the post not genuine. Whether it is recent enough, and below the
\* service's weekly number, is left open: then only the report is made.
Dispute ==
  /\ post = "published" /\ author
  /\ SummarizeProof = "none" /\ Hindering = {}
  /\ CreateProofRequest("SERVICE")

RequestProof ==
  /\ post \in {"held", "published"} /\ author
  /\ Open = {} /\ \A v \in Live : ~evidence[v].needsCheck
  /\ CreateProofRequest("MODERATOR")

CancelProofRequest(r) ==
  /\ r \in Open
  /\ requests' = [requests EXCEPT ![r].cancelled = TRUE]
  /\ UNCHANGED <<now, author, post, evidence, sending>>

-----------------------------------------------------------------------------
(* Moderators; none checks a post they have a conflict with *)

\* publishIfHeldOnlyForProof: whether the AI held the post only for its proof is left open.
MayPublish(rows) ==
  /\ post = "held"
  /\ \E v \in Sent : Counts(rows[v])
  /\ \A v \in Live : ~rows[v].needsCheck

PublishIfHeldOnlyForProof(rows) == post' \in IF MayPublish(rows) THEN {"held", "published"} ELSE {post}

CheckEvidence(v, finding) ==
  LET rows == [evidence EXCEPT ![v].finding = finding, ![v].needsCheck = FALSE] IN
  /\ v \in Live
  /\ evidence' = rows
  /\ requests' = IF finding \in Counting
                 THEN [r \in Asked |-> IF r \in Open THEN [requests[r] EXCEPT !.cancelled = TRUE] ELSE requests[r]]
                 ELSE requests
  /\ PublishIfHeldOnlyForProof(rows)
  /\ UNCHANGED <<now, author, sending>>

MayBeCleared(v) == v \in Live /\ evidence[v].kind = "NOTE" /\ evidence[v].finding = None /\ Open = {}

DismissNote(v) ==
  LET rows == [evidence EXCEPT ![v].needsCheck = FALSE] IN
  /\ MayBeCleared(v)
  /\ evidence' = rows
  /\ PublishIfHeldOnlyForProof(rows)
  /\ UNCHANGED <<now, author, requests, sending>>

DeleteEvidence(v) ==
  /\ v \in Live
  /\ evidence' = [evidence EXCEPT ![v] = Gone]
  /\ UNCHANGED <<now, author, post, requests, sending>>

RemoveEvidenceImage(v) ==
  /\ v \in Live /\ evidence[v].image /\ evidence[v].body # None
  /\ evidence[v].finding \notin RestsOnImage
  /\ evidence' = [evidence EXCEPT ![v].image = FALSE, ![v].kind = ClassifyProof(evidence[v].body, FALSE)]
  /\ UNCHANGED <<now, author, post, requests, sending>>

\* Decided, withdrawn or restored meanwhile.
MovePost ==
  /\ post' \in {"held", "published", "down"} \ {post}
  /\ UNCHANGED <<now, author, evidence, requests, sending>>

Next ==
  \/ \E body \in Bodies \cup {None}, image \in BOOLEAN : AskToSend(body, image)
  \/ AddEvidence \/ GiveUp \/ DeleteAccount
  \/ Dispute \/ RequestProof
  \/ \E r \in Asked : CancelProofRequest(r)
  \/ \E v \in Proofs : RemoveEvidence(v) \/ DismissNote(v) \/ DeleteEvidence(v) \/ RemoveEvidenceImage(v)
  \/ \E v \in Proofs, finding \in Findings : CheckEvidence(v, finding)
  \/ MovePost \/ Tick

Spec == Init /\ [][Next]_vars

-----------------------------------------------------------------------------
(* Properties *)

(***************************************************************************)
(* The summary and the filters leave a post out as unproven exactly when   *)
(* its page says that its request was not answered, whatever was asked,    *)
(* sent, replaced, checked and cancelled in between, and except at the     *)
(* very moment the request falls due (experienceQueries.ts:52).            *)
(***************************************************************************)
SqlMirrorsPage ==
  (\A r \in Open : requests[r].due # now) =>
    (Unproven <=> \E r \in ShownRequest : ProofRequestState(r) = "unanswered")

-----------------------------------------------------------------------------
(* What every step keeps *)

\* A dispute is opened only where nothing was asked, and a moderator asks only once at a time.
OneOpen == \A r, other \in Open : r = other

IInv == TypeOK /\ OneOpen
=============================================================================
