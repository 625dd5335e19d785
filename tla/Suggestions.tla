----------------------------- MODULE Suggestions -----------------------------
(***************************************************************************)
(* Suggestions about one service: new listings, edits of its fields, and   *)
(* the proposals of the deep scan and of the description review.           *)
(*                                                                         *)
(* A moderator decides from a page that shows a status and an assignee,    *)
(* and the transaction names what was seen.  Before it the handler reads   *)
(* the suggestion again and refuses.  For the action update this read is a *)
(* step of its own.  The refusals of the other actions are about what      *)
(* never changes, or what the transaction names too, and need no step.     *)
(* An approved edit is written in two steps, because the service is read   *)
(* without a lock before it is written.                                    *)
(*                                                                         *)
(* An edit adds or removes one entry of one of two lists: the currencies,  *)
(* an array that is written as a whole, or the attributes, which are rows. *)
(* A suggestion with notes only is decided as a listing is.                *)
(***************************************************************************)
EXTENDS FiniteSets

CONSTANTS
  Ids,           \* rows of "ServiceSuggestion"
  Moderators,    \* holders of suggestions:manage and services:edit
  Admins,        \* the moderators who are admins
  SelfAppliers,  \* the moderators with suggestions:self-apply
  Authors,       \* users who suggest, moderators or not
  Bot,           \* the author of what the scans propose
  Entries,       \* entries a list of the service may have
  Edits,         \* the edits somebody may suggest
  Nobody

Edit == [list : {"currencies", "attributes"}, op : {"add", "remove"}, entry : Entries]
NoEdit == [list |-> "none"]

\* Nobody and the scans' author are none of the staff, and no row is nobody's.
ConstantsDiffer ==
  /\ Nobody \notin Moderators \cup Ids
  /\ Bot \notin Moderators
  /\ Edits \subseteq Edit

VARIABLES
  suggestions,   \* the rows
  service,       \* the lists of the service
  requests,      \* what each moderator has seen and not acted on yet
  applied        \* history: the edits that were written to the service

vars == <<suggestions, service, requests, applied>>

OpenStatuses == {"PENDING", "UNDER_REVIEW"}
Statuses == OpenStatuses \cup {"APPROVED", "REJECTED", "WITHDRAWN"}

\* kind: CREATE_SERVICE, fieldEdits, or proposedEdits with and without a review of the terms.
Suggestion == [kind : {"UNUSED", "listing", "edit", "scan", "description"},
               status : Statuses, assignee : Moderators \cup {Nobody},
               author : Authors \cup {Bot, Nobody}, edit : Edits \cup {NoEdit}]

Service == [exists : BOOLEAN, currencies : SUBSET Entries, attributes : SUBSET Entries]

\* status, assignee: as the page showed them.  target: of update.  live: a list of the service.
Request == [at : {"idle", "page", "checked", "applying"}, id : Ids \cup {Nobody},
            status : Statuses, assignee : Moderators \cup {Nobody},
            target : Statuses, live : SUBSET Entries]

Unused == [kind |-> "UNUSED", status |-> "PENDING", assignee |-> Nobody, author |-> Nobody,
           edit |-> NoEdit]
Idle == [at |-> "idle", id |-> Nobody, status |-> "PENDING", assignee |-> Nobody,
         target |-> "PENDING", live |-> {}]

TypeOK ==
  /\ suggestions \in [Ids -> Suggestion]
  /\ service \in Service
  /\ requests \in [Moderators -> Request]
  /\ applied \subseteq Ids

-----------------------------------------------------------------------------
IsUsed(s) == suggestions[s].kind # "UNUSED"
IsEdit(s) == suggestions[s].kind = "edit"
IsProposal(s) == suggestions[s].kind \in {"scan", "description"}
IsOpen(s) == suggestions[s].status \in OpenStatuses

\* An applying request holds the row it has moved; others wait for it.
IsLocked(s) == \E m \in Moderators : requests[m].at = "applying" /\ requests[m].id = s

\* canReviewSuggestion. Mutation: the right to self-apply covers approving by status too.
MayReviewOwn(s, m, applying) ==
  m \in Admins \/ suggestions[s].author # m \/ m \in SelfAppliers
CanReview(s, m, applying) ==
  m \in Admins \/ suggestions[s].author # m \/ (applying /\ m \in SelfAppliers)

\* A row moved by a moderator: pending ones have no assignee, the mover holds the others.
Moved(s, status, m) ==
  [suggestions[s] EXCEPT !.status = status,
                         !.assignee = IF status = "PENDING" THEN Nobody ELSE m]

\* The WHERE clause of transitionSuggestion: a status in from, and the assignee that was seen.
Matches(s, from, seen) ==
  IsUsed(s) /\ ~IsLocked(s) /\ suggestions[s].status \in from /\ suggestions[s].assignee = seen

Finish(m) == requests' = [requests EXCEPT ![m] = Idle]

-----------------------------------------------------------------------------
Init ==
  /\ suggestions = [s \in Ids |-> Unused]
  /\ service \in [exists : BOOLEAN, currencies : {{}}, attributes : {{}}]
  /\ requests = [m \in Moderators |-> Idle]
  /\ applied = {}

Inserted(kind, author, edit) ==
  [Unused EXCEPT !.kind = kind, !.author = author, !.edit = edit]

(***************************************************************************)
(* Authors: createService makes the service and its suggestion, and what   *)
(* differs from the service is an edit.                                    *)
(***************************************************************************)
CreateService(s, u) ==
  /\ ~service.exists /\ ~IsUsed(s)
  /\ suggestions' = [suggestions EXCEPT ![s] = Inserted("listing", u, NoEdit)]
  /\ service' = [service EXCEPT !.exists = TRUE]
  /\ UNCHANGED <<requests, applied>>

\* diffServiceFieldValues.
Differs(edit) == (edit.entry \in service[edit.list]) <=> (edit.op = "remove")

EditService(s, u, edit) ==
  /\ service.exists /\ ~IsUsed(s)
  /\ Differs(edit)
  /\ suggestions' = [suggestions EXCEPT ![s] = Inserted("edit", u, edit)]
  /\ UNCHANGED <<service, requests, applied>>

(***************************************************************************)
(* save_deep_scan_proposed_edits: a new proposal withdraws the open ones;  *)
(* one about the description only, no proposal of a scan.                  *)
(***************************************************************************)
Supersedes(kind, o) ==
  IsProposal(o) /\ IsOpen(o) /\ (kind = "description" => suggestions[o].kind = "description")

SaveProposal(s, kind, edit) ==
  /\ service.exists /\ ~IsUsed(s)
  /\ suggestions' =
       [o \in Ids |->
          IF o = s THEN Inserted(kind, Bot, edit)
          ELSE IF Supersedes(kind, o)
          THEN [suggestions[o] EXCEPT !.status = "WITHDRAWN", !.assignee = Nobody]
          ELSE suggestions[o]]
  /\ UNCHANGED <<service, requests, applied>>

(***************************************************************************)
(* suggestion_cleanup collects pending suggestions whose site is dead or   *)
(* listed already, or whose author was asked and did not reply, and closes *)
(* them one by one later.  What it found is not told apart: any suggestion *)
(* may be due, and only that it is still pending is checked again.         *)
(***************************************************************************)
Close(s) ==
  /\ IsUsed(s) /\ ~IsLocked(s)
  /\ suggestions[s].status = "PENDING"
  /\ suggestions' = [suggestions EXCEPT ![s].status = "WITHDRAWN"]
  /\ UNCHANGED <<service, requests, applied>>

(***************************************************************************)
(* A moderator opens the page.  A page is left, a handler refuses, or its  *)
(* transaction finds no row, or fails, and is rolled back.                 *)
(***************************************************************************)
OpenPage(m, s) ==
  /\ requests[m].at = "idle"
  /\ IsUsed(s)
  /\ requests' = [requests EXCEPT ![m] =
                    [Idle EXCEPT !.at = "page", !.id = s, !.status = suggestions[s].status,
                                 !.assignee = suggestions[s].assignee]]
  /\ UNCHANGED <<suggestions, service, applied>>

GiveUp(m) ==
  /\ requests[m].at # "idle"
  /\ Finish(m)
  /\ UNCHANGED <<suggestions, service, applied>>

\* Moves the suggestion of the request, if it still is as it was seen.
Transition(m, from, status) ==
  LET s == requests[m].id IN
  /\ Matches(s, from, requests[m].assignee)
  /\ suggestions' = [suggestions EXCEPT ![s] = Moved(s, status, m)]
  /\ Finish(m)

(***************************************************************************)
(* update, in two steps.  An applied edit is final.                        *)
(* Mutation: as final as any approved suggestion.                          *)
(***************************************************************************)
MayReopenAsAdmin(s, m) == suggestions[s].status = "APPROVED" => m \in Admins
MayReopen(s, m) == suggestions[s].status = "APPROVED" => m \in Admins /\ ~IsEdit(s)

CheckUpdate(m, status) ==
  LET s == requests[m].id IN
  /\ requests[m].at = "page"
  /\ MayReopen(s, m)
  /\ status # requests[m].status
  /\ status \in {"UNDER_REVIEW", "APPROVED"} => CanReview(s, m, FALSE)
  /\ status = "APPROVED" => ~IsEdit(s)
  /\ requests' = [requests EXCEPT ![m].at = "checked", ![m].target = status]
  /\ UNCHANGED <<suggestions, service, applied>>

Update(m) ==
  /\ requests[m].at = "checked"
  /\ Transition(m, {requests[m].status}, requests[m].target)
  /\ UNCHANGED <<service, applied>>

(***************************************************************************)
(* assign: takes a suggestion, or hands it back and keeps its status.      *)
(***************************************************************************)
Take(m) ==
  /\ requests[m].at = "page"
  /\ CanReview(requests[m].id, m, FALSE)
  /\ Transition(m, OpenStatuses, "UNDER_REVIEW")
  /\ UNCHANGED <<service, applied>>

Release(m) ==
  LET s == requests[m].id IN
  /\ requests[m].at = "page"
  /\ requests[m].assignee # Nobody
  /\ Matches(s, OpenStatuses, requests[m].assignee)
  /\ suggestions' = [suggestions EXCEPT ![s].assignee = Nobody]
  /\ Finish(m)
  /\ UNCHANGED <<service, applied>>

(***************************************************************************)
(* applyFieldEdits.  Its transaction moves the suggestion, reads the       *)
(* service, writes it and commits, or fails.                               *)
(***************************************************************************)
CanSettleEdit(m) ==
  /\ requests[m].at = "page"
  /\ IsEdit(requests[m].id)
  /\ CanReview(requests[m].id, m, TRUE)

RejectEdit(m) ==
  /\ CanSettleEdit(m)
  /\ Transition(m, OpenStatuses, "REJECTED")
  /\ UNCHANGED <<service, applied>>

BeginApply(m) ==
  LET s == requests[m].id IN
  /\ CanSettleEdit(m)
  /\ Matches(s, OpenStatuses, requests[m].assignee)
  /\ requests' = [requests EXCEPT ![m] =
                    [Idle EXCEPT !.at = "applying", !.id = s,
                                 !.live = service[suggestions[s].edit.list]]]
  /\ UNCHANGED <<suggestions, service, applied>>

\* applyListFieldDelta, on the list that was read.
After(list, edit) ==
  IF edit.op = "add" THEN list \cup {edit.entry} ELSE list \ {edit.entry}

\* Rows are created and deleted as the list that was read asks for. One that exists meanwhile
\* cannot be created: the transaction fails.
Created(live, edit) == After(live, edit) \ live
RowsAfter(live, edit) ==
  (service.attributes \cup Created(live, edit)) \ (live \ After(live, edit))

WriteEdit(m) ==
  LET s == requests[m].id
      edit == suggestions[s].edit
      live == requests[m].live IN
  /\ requests[m].at = "applying"
  /\ IF edit.list = "currencies"
     THEN service' = [service EXCEPT !.currencies = After(live, edit)]
     ELSE /\ service.attributes \cap Created(live, edit) = {}
          /\ service' = [service EXCEPT !.attributes = RowsAfter(live, edit)]
  /\ suggestions' = [suggestions EXCEPT ![s] = Moved(s, "APPROVED", m)]
  /\ applied' = applied \cup {s}
  /\ Finish(m)

(***************************************************************************)
(* apply and dismiss of the deep scan: what is ticked is written in the    *)
(* transaction that moves the suggestion, and nobody is a second reviewer. *)
(***************************************************************************)
CanSettleProposal(m) == requests[m].at = "page" /\ IsProposal(requests[m].id)

ApplyProposal(m, ticked) ==
  LET s == requests[m].id IN
  /\ CanSettleProposal(m)
  /\ Transition(m, OpenStatuses, "APPROVED")
  /\ service' = IF ticked /\ suggestions[s].edit # NoEdit
                THEN [service EXCEPT !.attributes = After(service.attributes, suggestions[s].edit)]
                ELSE service
  /\ UNCHANGED applied

DismissProposal(m) ==
  /\ CanSettleProposal(m)
  /\ Transition(m, OpenStatuses, "REJECTED")
  /\ UNCHANGED <<service, applied>>

(***************************************************************************)
(* services:edit changes the lists directly, to those of the form.         *)
(***************************************************************************)
UpdateService(currencies, attributes) ==
  /\ service.exists
  /\ service' = [service EXCEPT !.currencies = currencies, !.attributes = attributes]
  /\ UNCHANGED <<suggestions, requests, applied>>

-----------------------------------------------------------------------------
AuthorStep ==
  \E s \in Ids, u \in Authors :
    \/ CreateService(s, u)
    \/ \E edit \in Edits : EditService(s, u, edit)

WorkerStep ==
  \E s \in Ids :
    \/ \E edit \in Edits : edit.list = "attributes" /\ SaveProposal(s, "scan", edit)
    \/ SaveProposal(s, "description", NoEdit)
    \/ Close(s)

ModeratorStep ==
  \E m \in Moderators :
    \/ \E s \in Ids : OpenPage(m, s)
    \/ GiveUp(m)
    \/ \E status \in Statuses : CheckUpdate(m, status)
    \/ Update(m) \/ Take(m) \/ Release(m)
    \/ RejectEdit(m) \/ BeginApply(m) \/ WriteEdit(m)
    \/ DismissProposal(m)
    \/ \E ticked \in BOOLEAN : ApplyProposal(m, ticked)

EditorStep == \E currencies, attributes \in SUBSET Entries : UpdateService(currencies, attributes)

Next == AuthorStep \/ WorkerStep \/ ModeratorStep \/ EditorStep

Spec == Init /\ [][Next]_vars

-----------------------------------------------------------------------------
(* Properties *)

(***************************************************************************)
(* No suggestion was approved by its author, except by an admin, or an     *)
(* edit by somebody who may apply their own: whatever happened between the *)
(* check and the transaction (permissions.ts:40).                          *)
(***************************************************************************)
SecondReviewer ==
  \A s \in Ids :
    suggestions[s].status = "APPROVED" =>
      \/ suggestions[s].author # suggestions[s].assignee
      \/ suggestions[s].assignee \in Admins
      \/ IsEdit(s) /\ suggestions[s].assignee \in SelfAppliers

(***************************************************************************)
(* The suggestions decide as Decisions promises: an edit is written at     *)
(* most once, in the step that approves it, and stays approved, although   *)
(* moderators act on pages and checks that are out of date and a cleanup   *)
(* closes what it collected earlier (admin/serviceSuggestion.ts:57).       *)
(***************************************************************************)
Decision(s) ==
  IF ~IsUsed(s) THEN "NONE"
  ELSE IF IsOpen(s) THEN "OPEN" ELSE suggestions[s].status

Decided ==
  INSTANCE Decisions WITH Suggestions <- Ids, applied <- applied,
    decision <- [s \in Ids |-> Decision(s)], edits <- {s \in Ids : IsEdit(s)}

DecidesOnce == Decided!Spec

-----------------------------------------------------------------------------
(* What every step keeps *)

\* An edit is approved where it is written. What the scans propose is not a moderator's.
RowInv(s) ==
  /\ s \in applied <=> IsEdit(s) /\ suggestions[s].status = "APPROVED"
  /\ IsEdit(s) => suggestions[s].edit \in Edits
  /\ IsProposal(s) => suggestions[s].author = Bot

\* What a request has seen or passed is still true of its row when it acts.
RequestInv(m) ==
  LET r == requests[m]
      s == r.id IN
  r.at # "idle" =>
    /\ s \in Ids /\ IsUsed(s)
    /\ IsEdit(s) /\ r.at \in {"page", "checked"} /\ r.status = "APPROVED"
         => suggestions[s].status = "APPROVED"
    /\ r.at = "checked" => /\ IsEdit(s) => r.status # "APPROVED" /\ r.target # "APPROVED"
                           /\ r.target = "APPROVED" => CanReview(s, m, FALSE)
    /\ r.at = "applying" => IsEdit(s) /\ IsOpen(s) /\ CanReview(s, m, TRUE)

OneWriter ==
  \A m, n \in Moderators :
    requests[m].at = "applying" /\ requests[n].at = "applying" /\ requests[m].id = requests[n].id
      => m = n

IInv ==
  /\ TypeOK
  /\ \A s \in Ids : RowInv(s)
  /\ \A m \in Moderators : RequestInv(m)
  /\ OneWriter
  /\ SecondReviewer
=============================================================================
