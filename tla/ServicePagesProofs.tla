-------------------------- MODULE ServicePagesProofs ---------------------------
(***************************************************************************)
(* Proofs about what the pages of a service rest on, for any users, files, *)
(* slugs, patterns, events, posts and bounds.  Each part keeps an          *)
(* invariant of its own while the others stand still, so the lemmas take   *)
(* one part at a time: what its steps leave of its invariant, and what     *)
(* readers may conclude from it.  A step of Incidents writes at most one   *)
(* event, so its lemmas say what the handlers make of one event with its   *)
(* incident and what it is filed as.                                       *)
(***************************************************************************)
EXTENDS MCServicePages, FiniteSetTheorems, WellFoundedInduction, TLAPS

-----------------------------------------------------------------------------
(* Incidents *)

(***************************************************************************)
(* What a kind is stored as is shown as that kind, and is no recorded      *)
(* edit; only the kind "INCIDENT" is stored as an incident.                *)
(***************************************************************************)
LEMMA KindsAreShown ==
  ASSUME NEW kind \in Kinds, NEW stored, stored.class = Fields[kind].class, stored.tone = Fields[kind].tone
  PROVE  /\ EventToKind(stored) = kind
         /\ Fields[kind].class \in Classes \ {"CHANGE"} /\ Fields[kind].tone \in Tones
         /\ Fields[kind].class = "INCIDENT" <=> kind = "INCIDENT"
<1>1. CASE kind = "INFO"
  BY <1>1 DEF Kinds, Fields, EventToKind, Classes, Tones
<1>2. CASE kind = "UPDATE"
  BY <1>2 DEF Kinds, Fields, EventToKind, Classes, Tones
<1>3. CASE kind = "WARNING"
  BY <1>3 DEF Kinds, Fields, EventToKind, Classes, Tones
<1>4. CASE kind = "INCIDENT"
  BY <1>4 DEF Kinds, Fields, EventToKind, Classes, Tones
<1>. QED BY <1>1, <1>2, <1>3, <1>4 DEF Kinds

(***************************************************************************)
(* At first there is no event.                                             *)
(***************************************************************************)
LEMMA InitInvariant == ASSUME ConstantsDiffer PROVE Init => IInv
BY DEF Init, IInv, TypeOK, ConstantsDiffer, SaveInv, At, IncidentsAreFiled, Exists, HasIncident, Request

-----------------------------------------------------------------------------
(* What a step makes of an event *)

\* Nothing, or only whether it is shown.
Stays(e) ==
  /\ event[e] = None <=> event'[e] = None
  /\ Exists(e) <=> Exists(e)'
  /\ Exists(e) => /\ event'[e].class = event[e].class /\ event'[e].tone = event[e].tone
                  /\ event'[e].origin = event[e].origin
  /\ HasIncident(e) <=> HasIncident(e)'
  /\ filed'[e] = filed[e]

\* It is saved as a kind, which a recorded edit never is.
IsFiled(e) ==
  \E kind \in Kinds :
    /\ Exists(e)'
    /\ event'[e].class = Fields[kind].class /\ event'[e].tone = Fields[kind].tone
    /\ event'[e].origin # "MONITOR"
    /\ HasIncident(e)' <=> kind = "INCIDENT"
    /\ filed'[e] = kind

IsRecorded(e) ==
  /\ event[e] = None
  /\ Exists(e)' /\ event'[e].class = "CHANGE"
  /\ HasIncident(e)' <=> HasIncident(e)
  /\ filed'[e] = filed[e]

IsPurged(e) == event'[e] = Purged /\ ~HasIncident(e)' /\ filed'[e] = None

Changed(e) == Stays(e) \/ IsFiled(e) \/ IsRecorded(e) \/ IsPurged(e)

\* The types of what events, incidents and kinds are written.
Saved ==
  /\ event \in [Events -> Row \cup {None, Purged}]
  /\ incident \in [Events -> Incident \cup {None}]
  /\ numbered \in 0..MaxIncidents
  /\ link \in Ids \cup {None}
  /\ filed \in [Events -> Kinds \cup {None}]

LEMMA StoredRows ==
  ASSUME ConstantsDiffer, NEW s \in Services, NEW kind \in Kinds, NEW origin \in {"STAFF", "MONITOR"}
  PROVE  /\ [service |-> s, origin |-> origin, class |-> Fields[kind].class,
             tone |-> Fields[kind].tone, visible |-> TRUE, deleted |-> FALSE] \in Row \ {None, Purged}
         /\ [service |-> s, origin |-> origin, class |-> "CHANGE",
             tone |-> "NEUTRAL", visible |-> TRUE, deleted |-> FALSE] \in Row \ {None, Purged}
<1>1. Fields[kind].class \in Classes /\ Fields[kind].tone \in Tones
  BY DEF Kinds, Fields, Classes, Tones
<1>2. \A class \in Classes, tone \in Tones :
        [service |-> s, origin |-> origin, class |-> class, tone |-> tone, visible |-> TRUE,
         deleted |-> FALSE] \in Row
  BY DEF Row
<1>3. "CHANGE" \in Classes /\ "NEUTRAL" \in Tones
  BY DEF Classes, Tones
<1>4. \A stored \in Row : stored \notin {None, Purged}
  BY DEF ConstantsDiffer
<1>. QED BY <1>1, <1>2, <1>3, <1>4

(***************************************************************************)
(* An incident is made, kept with another state, dropped or kept.          *)
(***************************************************************************)
LEMMA MadeIncident ==
  ASSUME Saved, ConstantsDiffer, NEW e \in Events, NEW state \in States, MakeIncident(e, state)
  PROVE  /\ incident' \in [Events -> Incident \cup {None}] /\ numbered' \in 0..MaxIncidents
         /\ link' \in Ids \cup {None}
         /\ HasIncident(e)' /\ \A other \in Events \ {e} : HasIncident(other)' <=> HasIncident(other)
<1>1. numbered' \in 0..MaxIncidents /\ numbered + 1 \in Ids
  BY DEF Saved, MakeIncident, ConstantsDiffer, Ids
<1>2. [id |-> numbered + 1, state |-> state] \in Incident
  BY <1>1 DEF Incident
<1>. QED BY <1>1, <1>2 DEF MakeIncident, Saved, HasIncident, ConstantsDiffer

LEMMA DroppedIncident ==
  ASSUME Saved, NEW e \in Events, DropIncident(e)
  PROVE  /\ incident' \in [Events -> Incident \cup {None}] /\ numbered' \in 0..MaxIncidents
         /\ link' \in Ids \cup {None}
         /\ ~HasIncident(e)' /\ \A other \in Events \ {e} : HasIncident(other)' <=> HasIncident(other)
BY DEF DropIncident, Saved, HasIncident

LEMMA StateWritten ==
  ASSUME Saved, ConstantsDiffer, NEW e \in Events, HasIncident(e), NEW state \in States,
         incident' = [incident EXCEPT ![e].state = state]
  PROVE  /\ incident' \in [Events -> Incident \cup {None}]
         /\ \A other \in Events : HasIncident(other)' <=> HasIncident(other)
<1>1. incident[e] \in Incident
  BY DEF Saved, HasIncident
<1>2. [incident[e] EXCEPT !.state = state] \in Incident
  BY <1>1 DEF Incident
<1>. QED BY <1>1, <1>2 DEF Saved, HasIncident, ConstantsDiffer

LEMMA ReconciledIncident ==
  ASSUME Saved, ConstantsDiffer, NEW e \in Events, NEW kind \in Kinds, NEW state \in States,
         Reconcile(e, kind, state)
  PROVE  /\ incident' \in [Events -> Incident \cup {None}] /\ numbered' \in 0..MaxIncidents
         /\ link' \in Ids \cup {None}
         /\ HasIncident(e)' <=> kind = "INCIDENT"
         /\ \A other \in Events \ {e} : HasIncident(other)' <=> HasIncident(other)
<1>1. CASE kind = "INCIDENT" /\ HasIncident(e)
  BY <1>1, StateWritten DEF Reconcile, Saved
<1>2. CASE kind = "INCIDENT" /\ ~HasIncident(e)
  BY <1>2, MadeIncident DEF Reconcile
<1>3. CASE kind # "INCIDENT"
  BY <1>3, DroppedIncident DEF Reconcile
<1>. QED BY <1>1, <1>2, <1>3

(***************************************************************************)
(* A moderator's new event is filed as the kind it was given.              *)
(***************************************************************************)
LEMMA Created ==
  ASSUME IInv, ConstantsDiffer, NEW e \in Events, NEW s \in Services, NEW kind \in Kinds,
         NEW state \in States, Create(e, s, kind, state)
  PROVE  Saved' /\ IsFiled(e) /\ \A other \in Events \ {e} : Stays(other)
<1>1. Saved /\ ~HasIncident(e)
  BY DEF IInv, TypeOK, Saved, IncidentsAreFiled, Create, Exists
<1>2. /\ incident' \in [Events -> Incident \cup {None}] /\ numbered' \in 0..MaxIncidents
      /\ link' \in Ids \cup {None}
      /\ HasIncident(e)' <=> kind = "INCIDENT"
      /\ \A other \in Events \ {e} : HasIncident(other)' <=> HasIncident(other)
  BY <1>1, MadeIncident DEF Create, KeepIncidents, Saved, HasIncident
<1>3. event'[e] \in Row \ {None, Purged} /\ event' \in [Events -> Row \cup {None, Purged}]
  BY <1>1, StoredRows DEF Create, Saved
<1>4. /\ event'[e].class = Fields[kind].class /\ event'[e].tone = Fields[kind].tone
      /\ event'[e].origin = "STAFF" /\ filed'[e] = kind
      /\ filed' \in [Events -> Kinds \cup {None}]
  BY <1>1 DEF Create, Saved
<1>5. \A other \in Events \ {e} : event'[other] = event[other] /\ filed'[other] = filed[other]
  BY <1>1 DEF Create, Saved
<1>. QED BY <1>2, <1>3, <1>4, <1>5 DEF Saved, IsFiled, Stays, Exists, HasIncident

(***************************************************************************)
(* A save writes the kind it was asked for, unless the event records an    *)
(* edit of the listing.                                                    *)
(***************************************************************************)
LEMMA Updated ==
  ASSUME IInv, ConstantsDiffer, NEW r \in Slots, Update(r)
  PROVE  Saved' /\ \A e \in Events : Stays(e) \/ IsFiled(e)
<1>1. /\ Saved
      /\ asked[r] \in [at : {"update"}, of : Events, listingEdit : BOOLEAN, kind : Kinds, state : States]
  BY DEF IInv, TypeOK, Saved, Update, At, Request
<1>. PICK e \in Events, kind \in Kinds, state \in States :
       e = asked[r].of /\ kind = asked[r].kind /\ state = asked[r].state
  BY <1>1
<1>2. event[e] \in Row
  BY <1>1 DEF Update, Exists, Saved
<1>3. CASE asked[r].listingEdit
  BY <1>1, <1>3 DEF Update, KeepIncidents, Saved, Stays, Exists, HasIncident
<1>4. CASE ~asked[r].listingEdit
  <2>1. event[e].origin # "MONITOR"
    BY <1>2, <1>4 DEF Update, IInv, SaveInv, IncidentsAreFiled
  <2>2. Reconcile(e, kind, state)
    BY <1>4 DEF Update
  <2>3. /\ incident' \in [Events -> Incident \cup {None}] /\ numbered' \in 0..MaxIncidents
        /\ link' \in Ids \cup {None}
        /\ HasIncident(e)' <=> kind = "INCIDENT"
        /\ \A other \in Events \ {e} : HasIncident(other)' <=> HasIncident(other)
    BY <1>1, <1>2, <2>2, ReconciledIncident
  <2>4. event'[e] = [event[e] EXCEPT !.class = Fields[kind].class, !.tone = Fields[kind].tone]
    BY <1>1, <1>2, <1>4 DEF Update, Saved
  <2>5. event'[e] \in Row
    <3>1. Fields[kind].class \in Classes /\ Fields[kind].tone \in Tones
      BY DEF Kinds, Fields, Classes, Tones
    <3>. QED BY <1>2, <2>4, <3>1 DEF Row
  <2>6. /\ event'[e].class = Fields[kind].class /\ event'[e].tone = Fields[kind].tone
        /\ event'[e].origin = event[e].origin
    BY <1>2, <2>4 DEF Row
  <2>7. event' \in [Events -> Row \cup {None, Purged}] /\ filed' \in [Events -> Kinds \cup {None}]
        /\ filed'[e] = kind
    BY <1>1, <1>2, <1>4, <2>4, <2>5 DEF Update, Saved
  <2>8. \A other \in Events \ {e} : event'[other] = event[other] /\ filed'[other] = filed[other]
    BY <1>1, <1>2, <1>4 DEF Update, Saved
  <2>9. Exists(e)'
    BY <2>5 DEF Exists, ConstantsDiffer
  <2>10. IsFiled(e)
    BY <1>2, <2>1, <2>3, <2>6, <2>7, <2>9 DEF IsFiled
  <2>11. \A other \in Events \ {e} : Stays(other)
    BY <2>3, <2>8 DEF Stays, Exists
  <2>. QED BY <2>3, <2>7, <2>10, <2>11 DEF Saved
<1>. QED BY <1>3, <1>4

(***************************************************************************)
(* What hides, deletes or restores an event leaves what it is filed as.    *)
(***************************************************************************)
LEMMA FlagsWritten ==
  ASSUME Saved, ConstantsDiffer, KeepIncidents, UNCHANGED filed, NEW e \in Events, Exists(e),
         NEW visible \in BOOLEAN, NEW gone \in BOOLEAN,
         event' = [event EXCEPT ![e].visible = visible, ![e].deleted = gone]
  PROVE  Saved' /\ \A other \in Events : Stays(other)
<1>1. event[e] \in Row /\ event'[e] = [event[e] EXCEPT !.visible = visible, !.deleted = gone]
  BY DEF Saved, Exists
<1>2. /\ event'[e] \in Row
      /\ event'[e].class = event[e].class /\ event'[e].tone = event[e].tone
      /\ event'[e].origin = event[e].origin
  <2>1. \A stored \in Row : [stored EXCEPT !.visible = visible, !.deleted = gone] \in Row
    BY DEF Row
  <2>2. \A stored \in Row :
          LET new == [stored EXCEPT !.visible = visible, !.deleted = gone] IN
          new.class = stored.class /\ new.tone = stored.tone /\ new.origin = stored.origin
    BY DEF Row
  <2>. QED BY <1>1, <2>1, <2>2
<1>3. event' \in [Events -> Row \cup {None, Purged}]
  BY <1>2 DEF Saved
<1>4. \A other \in Events \ {e} : event'[other] = event[other]
  BY DEF Saved
<1>5. Exists(e) /\ Exists(e)'
  BY <1>2 DEF Exists, ConstantsDiffer
<1>. QED BY <1>2, <1>3, <1>4, <1>5 DEF Saved, Stays, Exists, HasIncident, KeepIncidents

LEMMA Toggled ==
  ASSUME IInv, ConstantsDiffer, NEW r \in Slots, Toggle(r)
  PROVE  Saved' /\ \A e \in Events : Stays(e)
<1>1. Saved /\ asked[r] \in [at : {"toggle"}, of : Events, visible : BOOLEAN]
  BY DEF IInv, TypeOK, Saved, Toggle, At, Request
<1>. PICK e \in Events, visible \in BOOLEAN : e = asked[r].of /\ visible = ~asked[r].visible
  BY <1>1
<1>2. Exists(e) /\ event[e] \in Row
  BY <1>1 DEF Toggle, Exists, Saved
<1>3. event' = [event EXCEPT ![e].visible = visible, ![e].deleted = event[e].deleted]
  <2>1. event' = [event EXCEPT ![e].visible = visible]
    BY DEF Toggle
  <2>2. [event[e] EXCEPT !.visible = visible]
          = [event[e] EXCEPT !.visible = visible, !.deleted = event[e].deleted]
    BY <1>2 DEF Row
  <2>. QED BY <1>1, <2>1, <2>2 DEF Saved
<1>4. PICK gone \in BOOLEAN : gone = event[e].deleted
  BY <1>2 DEF Row
<1>5. event' = [event EXCEPT ![e].visible = visible, ![e].deleted = gone]
  BY <1>3, <1>4
<1>. QED BY <1>1, <1>2, <1>5, FlagsWritten DEF Toggle

LEMMA Hidden ==
  ASSUME IInv, ConstantsDiffer, NEW e \in Events, Delete(e) \/ Restore(e)
  PROVE  Saved' /\ \A other \in Events : Stays(other)
<1>1. Saved /\ Exists(e) /\ KeepIncidents /\ UNCHANGED filed
  BY DEF IInv, TypeOK, Saved, Delete, Restore
<1>2. \E visible, gone \in BOOLEAN :
        event' = [event EXCEPT ![e].visible = visible, ![e].deleted = gone]
  <2>1. \A visible, gone \in BOOLEAN :
          [event EXCEPT ![e].deleted = gone, ![e].visible = visible]
            = [event EXCEPT ![e].visible = visible, ![e].deleted = gone]
    <3>1. event[e] \in Row
      BY <1>1 DEF Saved, Exists
    <3>2. \A visible, gone \in BOOLEAN :
            [event[e] EXCEPT !.deleted = gone, !.visible = visible]
              = [event[e] EXCEPT !.visible = visible, !.deleted = gone]
      BY <3>1 DEF Row
    <3>. QED BY <1>1, <3>2 DEF Saved
  <2>. QED BY <2>1 DEF Delete, Restore
<1>. QED BY <1>1, <1>2, FlagsWritten

LEMMA Recorded ==
  ASSUME IInv, ConstantsDiffer, NEW e \in Events, NEW s \in Services, RecordChange(e, s)
  PROVE  Saved' /\ IsRecorded(e) /\ \A other \in Events \ {e} : Stays(other)
<1>1. Saved
  BY DEF IInv, TypeOK, Saved
<1>2. event'[e] = [service |-> s, origin |-> "MONITOR", class |-> "CHANGE", tone |-> "NEUTRAL",
                   visible |-> TRUE, deleted |-> FALSE]
  BY <1>1 DEF RecordChange, Saved
<1>3. event'[e] \in Row \ {None, Purged}
  BY <1>2, StoredRows DEF Kinds
<1>4. event' \in [Events -> Row \cup {None, Purged}]
  BY <1>1, <1>3 DEF RecordChange, Saved
<1>5. event'[e].class = "CHANGE"
  BY <1>2
<1>6. \A other \in Events \ {e} : event'[other] = event[other]
  BY <1>1 DEF RecordChange, Saved
<1>. QED
  BY <1>1, <1>3, <1>4, <1>5, <1>6
  DEF RecordChange, Saved, IsRecorded, Stays, Exists, HasIncident, KeepIncidents

LEMMA PurgedEvent ==
  ASSUME IInv, ConstantsDiffer, NEW e \in Events, Purge(e)
  PROVE  Saved' /\ IsPurged(e) /\ \A other \in Events \ {e} : Stays(other)
<1>1. Saved /\ DropIncident(e)
  BY DEF IInv, TypeOK, Saved, Purge
<1>2. /\ incident' \in [Events -> Incident \cup {None}] /\ numbered' \in 0..MaxIncidents
      /\ link' \in Ids \cup {None}
      /\ ~HasIncident(e)' /\ \A other \in Events \ {e} : HasIncident(other)' <=> HasIncident(other)
  BY <1>1, DroppedIncident
<1>3. /\ event' \in [Events -> Row \cup {None, Purged}] /\ event'[e] = Purged
      /\ filed' \in [Events -> Kinds \cup {None}] /\ filed'[e] = None
      /\ \A other \in Events \ {e} : event'[other] = event[other] /\ filed'[other] = filed[other]
  BY <1>1 DEF Purge, Saved
<1>. QED BY <1>2, <1>3 DEF Saved, IsPurged, Stays, Exists

LEMMA Resolved ==
  ASSUME IInv, ConstantsDiffer, NEW r \in Slots, Resolve(r)
  PROVE  Saved' /\ \A e \in Events : Stays(e)
<1>1. Saved /\ asked[r] \in [at : {"resolve"}, of : Events]
  BY DEF IInv, TypeOK, Saved, Resolve, At, Request
<1>. PICK e \in Events : e = asked[r].of
  BY <1>1
<1>2. HasIncident(e) /\ incident' = [incident EXCEPT ![e].state = "RESOLVED"]
  BY DEF Resolve
<1>3. /\ incident' \in [Events -> Incident \cup {None}]
      /\ \A other \in Events : HasIncident(other)' <=> HasIncident(other)
  BY <1>1, <1>2, StateWritten DEF States
<1>. QED BY <1>1, <1>3 DEF Resolve, Saved, Stays, Exists

LEMMA Linked ==
  ASSUME IInv, NEW r \in Slots, LinkIncident(r)
  PROVE  Saved' /\ \A e \in Events : Stays(e)
<1>1. Saved /\ asked[r] \in [at : {"link"}, id : Ids]
  BY DEF IInv, TypeOK, Saved, LinkIncident, At, Request
<1>. QED BY <1>1 DEF LinkIncident, Saved, Stays, Exists, HasIncident

LEMMA OnlyAsked ==
  ASSUME IInv, UNCHANGED <<event, incident, numbered, filed>>, link' \in {link, None}
  PROVE  Saved' /\ \A e \in Events : Stays(e)
BY DEF IInv, TypeOK, Saved, Stays, Exists, HasIncident

LEMMA StepOfEvents ==
  ASSUME IInv, ConstantsDiffer, Next
  PROVE  Saved' /\ \A e \in Events : Changed(e)
<1>1. ASSUME NEW e \in Events, NEW s \in Services, NEW kind \in Kinds, NEW state \in States,
             Create(e, s, kind, state)
      PROVE  Saved' /\ \A other \in Events : Changed(other)
  BY <1>1, Created DEF Changed
<1>2. ASSUME NEW e \in Events, NEW s \in Services, RecordChange(e, s)
      PROVE  Saved' /\ \A other \in Events : Changed(other)
  BY <1>2, Recorded DEF Changed
<1>3. ASSUME NEW e \in Events, Delete(e) \/ Restore(e) \/ Purge(e)
      PROVE  Saved' /\ \A other \in Events : Changed(other)
  BY <1>3, Hidden, PurgedEvent DEF Changed
<1>4. ASSUME NEW r \in Slots, Toggle(r) \/ Update(r) \/ Resolve(r) \/ LinkIncident(r)
      PROVE  Saved' /\ \A other \in Events : Changed(other)
  BY <1>4, Toggled, Updated, Resolved, Linked DEF Changed
<1>5. ASSUME UNCHANGED <<event, incident, numbered, filed>>, link' \in {link, None}
      PROVE  Saved' /\ \A other \in Events : Changed(other)
  BY <1>5, OnlyAsked DEF Changed
<1>. QED
  BY <1>1, <1>2, <1>3, <1>4, <1>5 DEF Next, AskToggle, AskResolve, AskLink, AskUpdate, Fail, Unlink

-----------------------------------------------------------------------------
(* The invariant *)

(***************************************************************************)
(* Requests keep their types.                                              *)
(***************************************************************************)
LEMMA RequestTypes ==
  ASSUME IInv, Next
  PROVE  asked' \in [Slots -> Request]
<1>1. asked \in [Slots -> Request] /\ incident \in [Events -> Incident \cup {None}]
      /\ event \in [Events -> Row \cup {None, Purged}]
  BY DEF IInv, TypeOK
<1>2. ASSUME NEW r \in Slots, NEW q \in Request, Ask(r, q) PROVE asked' \in [Slots -> Request]
  BY <1>1, <1>2 DEF Ask
<1>3. ASSUME NEW r \in Slots, Answer(r) PROVE asked' \in [Slots -> Request]
  BY <1>1, <1>3 DEF Answer, Request
<1>4. ASSUME NEW r \in Slots, NEW e \in Events, AskToggle(r, e) PROVE asked' \in [Slots -> Request]
  <2>1. event[e] \in Row
    BY <1>1, <1>4 DEF AskToggle, Exists
  <2>2. [at |-> "toggle", of |-> e, visible |-> event[e].visible] \in Request
    BY <2>1 DEF Request, Row
  <2>. QED BY <1>2, <1>4, <2>2 DEF AskToggle
<1>5. ASSUME NEW r \in Slots, NEW e \in Events, AskResolve(r, e) PROVE asked' \in [Slots -> Request]
  BY <1>2, <1>5 DEF AskResolve, Request
<1>6. ASSUME NEW r \in Slots, NEW e \in Events, AskLink(r, e) PROVE asked' \in [Slots -> Request]
  <2>1. incident[e].id \in Ids
    BY <1>1, <1>6 DEF AskLink, HasIncident, Incident
  <2>2. [at |-> "link", id |-> incident[e].id] \in Request
    BY <2>1 DEF Request
  <2>. QED BY <1>2, <1>6, <2>2 DEF AskLink
<1>7. ASSUME NEW r \in Slots, NEW e \in Events, NEW kind \in Kinds, NEW state \in States,
             AskUpdate(r, e, kind, state)
      PROVE  asked' \in [Slots -> Request]
  <2>1. [at |-> "update", of |-> e, listingEdit |-> IsListingEdit(e), kind |-> kind,
         state |-> state] \in Request
    BY DEF Request, IsListingEdit
  <2>. QED BY <1>2, <1>7, <2>1 DEF AskUpdate
<1>8. ASSUME UNCHANGED asked PROVE asked' \in [Slots -> Request]
  BY <1>1, <1>8
<1>. QED
  BY <1>3, <1>4, <1>5, <1>6, <1>7, <1>8
  DEF Next, Create, RecordChange, Toggle, Update, Resolve, LinkIncident, Fail, Delete, Restore,
      Purge, Unlink

(***************************************************************************)
(* An event that a save is under way for does not turn into a recorded     *)
(* edit: its id is not used again, and other saves never write that class. *)
(***************************************************************************)
LEMMA SavesKept ==
  ASSUME IInv, ConstantsDiffer, Next
  PROVE  \A r \in Slots : SaveInv(r)'
<1> SUFFICES ASSUME NEW q \in Slots, At(q, "update")'
             PROVE  /\ event'[asked'[q].of] # None
                    /\ ~asked'[q].listingEdit /\ Exists(asked[q].of)'
                         => event'[asked'[q].of].class # "CHANGE"
  BY DEF SaveInv
<1>1. asked \in [Slots -> Request] /\ \A e \in Events : Changed(e)
  BY StepOfEvents DEF IInv, TypeOK
<1>2. CASE asked'[q] = asked[q]
  <2>1. At(q, "update") /\ asked[q].of \in Events
    BY <1>1, <1>2 DEF At, Request
  <2>. PICK e \in Events : e = asked[q].of
    BY <2>1
  <2>2. event[e] # None /\ (~asked[q].listingEdit /\ Exists(e) => event[e].class # "CHANGE")
    BY <2>1 DEF IInv, SaveInv
  <2>3. CASE Stays(e)
    BY <1>2, <2>2, <2>3 DEF Stays, Exists
  <2>4. CASE IsFiled(e)
    BY <1>2, <2>4, KindsAreShown DEF IsFiled, Exists
  <2>5. CASE IsPurged(e)
    BY <1>2, <2>5 DEF IsPurged, Exists, ConstantsDiffer
  <2>. QED BY <1>1, <2>2, <2>3, <2>4, <2>5 DEF Changed, IsRecorded
<1>3. ASSUME NEW e \in Events, NEW kind \in Kinds, NEW state \in States, AskUpdate(q, e, kind, state)
      PROVE  /\ event'[asked'[q].of] # None
             /\ ~asked'[q].listingEdit /\ Exists(asked[q].of)'
                  => event'[asked'[q].of].class # "CHANGE"
  <2>1. asked'[q].of = e /\ asked'[q].listingEdit = IsListingEdit(e)
    BY <1>1, <1>3 DEF AskUpdate, Ask
  <2>. QED BY <1>3, <2>1 DEF AskUpdate, Exists, IsListingEdit
<1>4. \/ asked'[q] = asked[q]
      \/ \E e \in Events, kind \in Kinds, state \in States : AskUpdate(q, e, kind, state)
  <2>1. ASSUME NEW r \in Slots, Answer(r) PROVE asked'[q] = asked[q]
    BY <1>1, <2>1 DEF Answer, At
  <2>2. ASSUME NEW r \in Slots, NEW e \in Events, AskToggle(r, e) \/ AskResolve(r, e) \/ AskLink(r, e)
        PROVE  asked'[q] = asked[q]
    BY <1>1, <2>2 DEF AskToggle, AskResolve, AskLink, Ask, At
  <2>3. ASSUME NEW r \in Slots, NEW e \in Events, NEW kind \in Kinds, NEW state \in States,
               AskUpdate(r, e, kind, state)
        PROVE  asked'[q] = asked[q] \/ AskUpdate(q, e, kind, state)
    BY <1>1, <2>3 DEF AskUpdate, Ask
  <2>. QED
    BY <2>1, <2>2, <2>3
    DEF Next, Create, RecordChange, Toggle, Update, Resolve, LinkIncident, Fail, Delete, Restore,
        Purge, Unlink
<1>. QED BY <1>2, <1>3, <1>4

LEMMA FilesKept ==
  ASSUME IInv, ConstantsDiffer, Next
  PROVE  IncidentsAreFiled' /\ \A e \in Events : filed'[e] # None => Exists(e)'
<1> DEFINE Filed(e) ==
      /\ HasIncident(e) <=> (Exists(e) /\ event[e].class = "INCIDENT")
      /\ filed[e] # None => Exists(e) /\ EventToKind(event[e]) = filed[e]
      /\ Exists(e) /\ event[e].origin = "MONITOR" => event[e].class = "CHANGE"
<1> SUFFICES ASSUME NEW e \in Events PROVE Filed(e)'
  BY DEF IncidentsAreFiled
<1>1. Changed(e)
  BY StepOfEvents
<1>2. Filed(e)
  BY DEF IInv, IncidentsAreFiled
<1>3. CASE Stays(e)
  BY <1>2, <1>3 DEF Stays, EventToKind
<1>4. CASE IsFiled(e)
  BY <1>4, KindsAreShown DEF IsFiled
<1>5. CASE IsRecorded(e)
  BY <1>2, <1>5 DEF IsRecorded, Exists
<1>6. CASE IsPurged(e)
  BY <1>6 DEF IsPurged, Exists
<1>. QED BY <1>1, <1>3, <1>4, <1>5, <1>6 DEF Changed

(***************************************************************************)
(* IInv holds at first, every step keeps it, and so does standing still.   *)
(***************************************************************************)
THEOREM IncidentsInvariance == Spec => []IInv
<1>1. Init => IInv
  BY InitInvariant, ConstantsAssumption
<1>2. IInv /\ [Next]_vars => IInv'
  <2> SUFFICES ASSUME IInv, [Next]_vars PROVE IInv'
    OBVIOUS
  <2>1. CASE Next
    <3>1. TypeOK'
      BY <2>1, StepOfEvents, RequestTypes, ConstantsAssumption DEF Saved, TypeOK
    <3>. QED BY <2>1, <3>1, SavesKept, FilesKept, ConstantsAssumption DEF IInv
  <2>2. CASE UNCHANGED vars
    BY <2>2 DEF IInv, vars, TypeOK, SaveInv, At, IncidentsAreFiled, Exists, HasIncident
  <2>. QED BY <2>1, <2>2
<1>. QED BY <1>1, <1>2, PTL DEF Spec

(***************************************************************************)
(* An event has an incident exactly while it is filed as one, is shown as  *)
(* it was filed, and a recorded edit of the listing stays one.             *)
(***************************************************************************)
THEOREM EventsAreFiledRight == Spec => []IncidentsAreFiled
<1>1. IInv => IncidentsAreFiled
  BY DEF IInv
<1>. QED BY <1>1, IncidentsInvariance, PTL

-----------------------------------------------------------------------------
(* Case reports *)

(***************************************************************************)
(* A request for a case carries what its next step needs: the dates it     *)
(* read, who posts, the file it saves and the files it takes along.        *)
(***************************************************************************)
LEMMA CaseReads ==
  ASSUME Report!TypeOK, Report!ConstantsDiffer, NEW r \in Slots
  PROVE  /\ Report!At(r, "status") =>
              caseAsked[r] \in [at : {"status"}, resolvedAt : Report!Date, publishedAt : Report!Date]
         /\ Report!At(r, "post") => caseAsked[r] \in [at : {"post"}, by : Users \cup {Staff}]
         /\ \A step \in {"file", "item"} : Report!At(r, step) =>
              caseAsked[r] \in [at : {"file", "item"}, under : CaseUpdates \cup {None}, image : Images \cup {None}]
         /\ Report!At(r, "unlink") => caseAsked[r] \in [at : {"unlink"}, images : SUBSET Images]
         /\ Report!At(r, "drop") => caseAsked[r] \in [at : {"drop"}, item : Exhibits]
         /\ Report!At(r, "cascade") =>
              caseAsked[r] \in [at : {"cascade"}, of : CaseUpdates \cup {None}, images : SUBSET Images]
BY DEF Report!TypeOK, Report!At, Report!Request

(***************************************************************************)
(* The dates a write hands out say what the status it writes says, however *)
(* old the dates are that the request has read: this is why two staff      *)
(* members who set a status at once do no harm (case.ts:36).               *)
(***************************************************************************)
LEMMA CaseWritten ==
  ASSUME Report!IInv, Report!ConstantsDiffer, NEW r \in Slots, NEW written \in Report!Statuses,
         Report!WriteCase(r, written)
  PROVE  Report!IInv'
<1>1. /\ caseAsked[r].resolvedAt \in Report!Date /\ caseAsked[r].publishedAt \in Report!Date
      /\ caseStamps \in Nat /\ caseStamps \in 0..MaxCaseStamps
  BY CaseReads DEF Report!IInv, Report!WriteCase, Report!TypeOK, Report!ConstantsDiffer
<1> DEFINE resolvedAt1 == Report!ResolvedAtFor(written, caseAsked[r].resolvedAt)
           publishedAt1 == Report!PublishedAtFor(written, caseAsked[r].publishedAt)
           now1 == caseStamps + 1
<1>2. /\ resolvedAt1 \in Report!Date \cup {now1} /\ (resolvedAt1 # None <=> written = "RESOLVED")
      /\ publishedAt1 \in Report!Date \cup {now1}
      /\ Report!IsCasePublished(written) => publishedAt1 # None
  BY <1>1 DEF Report!ResolvedAtFor, Report!PublishedAtFor, Report!Now, Report!Date, Report!Dates,
              Report!ConstantsDiffer
<1> HIDE DEF resolvedAt1, publishedAt1
<1>3. /\ case' = [status |-> written, resolvedAt |-> resolvedAt1, publishedAt |-> publishedAt1]
      /\ now1 \in {resolvedAt1, publishedAt1} => caseStamps < MaxCaseStamps
      /\ caseStamps' = IF now1 \in {resolvedAt1, publishedAt1} THEN now1 ELSE caseStamps
      /\ caseAsked' = [caseAsked EXCEPT ![r] = None]
      /\ UNCHANGED <<participants, caseUpdates, caseEvidence, disk>>
  BY DEF Report!WriteCase, Report!Write, Report!Now, Report!Answer, Report!Goes,
      Report!UnchangedPosts,
         resolvedAt1, publishedAt1
<1>4. case' \in Report!Case /\ caseStamps' \in 0..MaxCaseStamps
  BY <1>1, <1>2, <1>3 DEF Report!Case, Report!Date, Report!Dates, Report!ConstantsDiffer
<1>5. caseAsked' \in [Slots -> Report!Request]
  BY <1>3 DEF Report!IInv, Report!TypeOK, Report!Request
<1>6. Report!TypeOK'
  BY <1>3, <1>4, <1>5 DEF Report!IInv, Report!TypeOK
<1>7. Report!DatesMatchStatus'
  BY <1>2, <1>3 DEF Report!DatesMatchStatus
<1>. QED BY <1>6, <1>7 DEF Report!IInv

\* The types of what is posted to a case and of the requests under way.
PostTypes ==
  /\ participants \subseteq Users
  /\ caseUpdates \in [CaseUpdates -> Report!Update \cup {None}]
  /\ caseEvidence \in [Exhibits -> Report!Item \cup {None}]
  /\ disk \subseteq Images
  /\ caseAsked \in [Slots -> Report!Request]

(***************************************************************************)
(* Everything else a request does leaves the row of the case, or removes   *)
(* it.                                                                     *)
(***************************************************************************)
LEMMA CasePosts ==
  ASSUME PostTypes, Report!ConstantsDiffer, Report!Next, case \in Report!Case \cup {None},
         \A r \in Slots, written \in Report!Statuses : ~Report!WriteCase(r, written)
  PROVE  PostTypes' /\ (UNCHANGED <<case, caseStamps>> \/ (case' = None /\ UNCHANGED caseStamps))
<1> USE DEF PostTypes
<1>0. None \in Report!Request
  BY DEF Report!Request
<1>1. ASSUME NEW r \in Slots, Report!ReadCase(r)
      PROVE  PostTypes' /\ UNCHANGED <<case, caseStamps>>
  BY <1>1 DEF Report!ReadCase, Report!Ask, Report!UnchangedPosts, Report!Request, Report!Exists,
      Report!Case
<1>2. ASSUME NEW r \in Slots, Report!ReadCaseFiles(r)
      PROVE  PostTypes' /\ UNCHANGED <<case, caseStamps>>
  <2>1. Report!ImagesOf({v \in Exhibits : caseEvidence[v] # None}) \in SUBSET Images
    BY DEF Report!ImagesOf, Report!Item
  <2>. QED BY <1>2, <2>1 DEF Report!ReadCaseFiles, Report!Ask, Report!UnchangedPosts, Report!Request
<1>3. ASSUME NEW r \in Slots, NEW n \in CaseUpdates, Report!ReadUpdateFiles(r, n)
      PROVE  PostTypes' /\ UNCHANGED <<case, caseStamps>>
  <2>1. Report!ImagesOf(Report!Under(n)) \in SUBSET Images
    BY DEF Report!ImagesOf, Report!Item, Report!Under
  <2>. QED BY <1>3, <2>1 DEF Report!ReadUpdateFiles, Report!Ask, Report!UnchangedPosts,
      Report!Request
<1>4. ASSUME NEW r \in Slots, Report!DeleteUpdate(r)
      PROVE  PostTypes' /\ UNCHANGED <<case, caseStamps>>
  <2>1. caseAsked[r] \in [at : {"cascade"}, of : CaseUpdates \cup {None}, images : SUBSET Images]
    BY <1>4 DEF Report!DeleteUpdate, Report!At, Report!Request
  <2>2. [at |-> "unlink", images |-> caseAsked[r].images] \in Report!Request
    BY <2>1 DEF Report!Request
  <2>. QED BY <1>4, <2>1, <2>2 DEF Report!DeleteUpdate, Report!Cascade, Report!Goes
<1>5. ASSUME NEW r \in Slots, Report!DeleteCase(r)
      PROVE  PostTypes' /\ case' = None /\ UNCHANGED caseStamps
  <2>1. caseAsked[r] \in [at : {"cascade"}, of : CaseUpdates \cup {None}, images : SUBSET Images]
    BY <1>5 DEF Report!DeleteCase, Report!At, Report!Request
  <2>2. [at |-> "unlink", images |-> caseAsked[r].images] \in Report!Request
    BY <2>1 DEF Report!Request
  <2>. QED BY <1>5, <2>2 DEF Report!DeleteCase, Report!Goes
<1>6. ASSUME NEW r \in Slots, Report!Unlink(r) \/ Report!DropEvidence(r) \/ Report!Fail(r)
      PROVE  PostTypes' /\ UNCHANGED <<case, caseStamps>>
  BY <1>0, <1>6 DEF Report!Unlink, Report!DropEvidence, Report!Fail, Report!Answer, Report!Goes,
                    Report!UnchangedPosts
<1>7. ASSUME NEW r \in Slots, Report!SaveImage(r)
      PROVE  PostTypes' /\ UNCHANGED <<case, caseStamps>>
  <2>1. caseAsked[r] \in [at : {"file", "item"}, under : CaseUpdates \cup {None}, image : Images \cup {None}]
    BY <1>7 DEF Report!SaveImage, Report!At, Report!Request
  <2>2. [caseAsked[r] EXCEPT !.at = "item"] \in Report!Request
    BY <2>1 DEF Report!Request
  <2>. QED BY <1>7, <2>1, <2>2 DEF Report!SaveImage, Report!Goes
<1>8. ASSUME NEW u \in Users, Report!AddParticipant(u) \/ Report!RemoveParticipant(u)
      PROVE  PostTypes' /\ UNCHANGED <<case, caseStamps>>
  BY <1>8 DEF Report!AddParticipant, Report!RemoveParticipant
<1>9. ASSUME NEW r \in Slots, NEW u \in Users \cup {Staff}, Report!AskPost(r, u)
      PROVE  PostTypes' /\ UNCHANGED <<case, caseStamps>>
  BY <1>9 DEF Report!AskPost, Report!Ask, Report!UnchangedPosts, Report!Request
<1>10. ASSUME NEW r \in Slots, NEW n \in CaseUpdates, Report!Post(r, n)
       PROVE  PostTypes' /\ UNCHANGED <<case, caseStamps>>
  <2>1. caseAsked[r] \in [at : {"post"}, by : Users \cup {Staff}]
    BY <1>10 DEF Report!Post, Report!At, Report!Request
  <2>2. \A tier \in Report!TiersOf(caseAsked[r].by) :
          [tier |-> tier, author |-> caseAsked[r].by] \in Report!Update
    BY <2>1 DEF Report!TiersOf, Report!Tiers, Report!Update
  <2>. QED BY <1>0, <1>10, <2>2 DEF Report!Post, Report!Answer, Report!Goes
<1>11. ASSUME NEW n \in CaseUpdates, NEW tier \in Report!Tiers, Report!EditUpdate(n, tier)
       PROVE  PostTypes' /\ UNCHANGED <<case, caseStamps>>
  BY <1>11 DEF Report!EditUpdate, Report!Update
<1>12. ASSUME NEW r \in Slots, NEW n \in CaseUpdates \cup {None}, NEW image \in Images \cup {None},
              Report!AskEvidence(r, n, image)
       PROVE  PostTypes' /\ UNCHANGED <<case, caseStamps>>
  BY <1>12 DEF Report!AskEvidence, Report!Ask, Report!UnchangedPosts, Report!Request
<1>13. ASSUME NEW r \in Slots, NEW v \in Exhibits, Report!UnlinkEvidence(r, v)
       PROVE  PostTypes' /\ UNCHANGED <<case, caseStamps>>
  BY <1>13 DEF Report!UnlinkEvidence, Report!Ask, Report!Request
<1>14. ASSUME NEW r \in Slots, NEW v \in Exhibits, Report!CreateEvidence(r, v)
       PROVE  PostTypes' /\ UNCHANGED <<case, caseStamps>>
  <2>1. caseAsked[r] \in [at : {"file", "item"}, under : CaseUpdates \cup {None}, image : Images \cup {None}]
    BY <1>14 DEF Report!CreateEvidence, Report!At, Report!Request
  <2>2. [under |-> caseAsked[r].under, image |-> caseAsked[r].image] \in Report!Item
    BY <2>1 DEF Report!Item
  <2>. QED BY <1>0, <1>14, <2>2 DEF Report!CreateEvidence, Report!Answer, Report!Goes
<1>. HIDE DEF PostTypes
<1>. QED
  BY <1>1, <1>2, <1>3, <1>4, <1>5, <1>6, <1>7, <1>8, <1>9, <1>10, <1>11, <1>12, <1>13, <1>14
  DEF Report!Next

(***************************************************************************)
(* So every step keeps the invariant of a case.                            *)
(***************************************************************************)
LEMMA CaseStep ==
  ASSUME Report!IInv, Report!ConstantsDiffer, Report!Next
  PROVE  Report!IInv'
<1>1. CASE \E r \in Slots, written \in Report!Statuses : Report!WriteCase(r, written)
  BY <1>1, CaseWritten
<1>2. CASE \A r \in Slots, written \in Report!Statuses : ~Report!WriteCase(r, written)
  <2>1. PostTypes' /\ (UNCHANGED <<case, caseStamps>> \/ (case' = None /\ UNCHANGED caseStamps))
    BY <1>2, CasePosts DEF Report!IInv, Report!TypeOK, PostTypes
  <2>. QED
    BY <2>1 DEF Report!IInv, Report!TypeOK, PostTypes, Report!DatesMatchStatus, Report!Exists
<1>. QED BY <1>1, <1>2

LEMMA CaseInit == ASSUME Report!ConstantsDiffer PROVE Report!Init => Report!IInv
BY DEF Report!Init, Report!IInv, Report!TypeOK, Report!DatesMatchStatus, Report!ConstantsDiffer,
    Report!Case,
       Report!Date, Report!Dates, Report!Statuses, Report!IsCasePublished, Report!Request

LEMMA CaseStutter == ASSUME Report!IInv, UNCHANGED report PROVE Report!IInv'
BY DEF report, Report!IInv, Report!TypeOK, Report!DatesMatchStatus, Report!Exists

-----------------------------------------------------------------------------
(* The listing *)

(***************************************************************************)
(* The triggers stamp dates and leave the rest of the row.                 *)
(***************************************************************************)
LEMMA StampedRow ==
  ASSUME Page!ConstantsDiffer, NEW old \in Page!Listing \cup {None}, NEW new \in Page!Listing
  PROVE  /\ Page!Stamped(old, new) \in Page!Listing
         /\ Page!Stamped(old, new).slug = new.slug /\ Page!Stamped(old, new).former = new.former
         /\ Page!Stamped(old, new).pattern = new.pattern
<1> DEFINE isListed == Page!Listed(new.visibility)
<1>1. isListed \in BOOLEAN
  BY DEF Page!Listed
<1> HIDE DEF isListed
<1>2. PICK isVerified \in BOOLEAN : isVerified = (new.status = "VERIFICATION_SUCCESS")
  OBVIOUS
<1>3. PICK isSpam \in BOOLEAN : isSpam = (new.status = "VERIFICATION_FAILED")
  OBVIOUS
<1>4. PICK isRecent \in BOOLEAN :
        isRecent = (Page!Approves(new.status) /\ (new.approved = None \/ new.recent))
  OBVIOUS
<1>5. PICK age \in Page!Age :
        age = IF ~Page!Approves(new.status) THEN None ELSE IF new.approved = None THEN "new" ELSE new.approved
  BY DEF Page!Listing, Page!Age
<1> DEFINE dated == [new EXCEPT !.listed = isListed]
           stamped == [dated EXCEPT !.approved = age, !.recent = isRecent,
                                    !.verified = isVerified, !.spam = isSpam]
<1>6. dated \in Page!Listing /\ dated.slug = new.slug /\ dated.former = new.former 
      /\ dated.pattern = new.pattern
  BY <1>1 DEF Page!Listing
<1>7. stamped \in Page!Listing /\ stamped.slug = dated.slug /\ stamped.former = dated.former
      /\ stamped.pattern = dated.pattern
  BY <1>6 DEF Page!Listing
<1>8. Page!Stamped(old, new) = IF old # None /\ old.status = new.status THEN dated ELSE stamped
  BY <1>1, <1>2, <1>3, <1>4, <1>5 DEF Page!Stamped, isListed
<1>. QED BY <1>6, <1>7, <1>8

(***************************************************************************)
(* A request read the row it is about to write, while nothing overlaps.    *)
(***************************************************************************)
LEMMA EditReads ==
  ASSUME Page!TypeOK, NEW r \in Slots
  PROVE  /\ Page!At(r, "save") =>
              editing[r] \in [at : {"save"}, slug : Slugs, former : SUBSET Slugs, pattern : Patterns]
         /\ Page!At(r, "proofs") =>
              editing[r] \in [at : {"proofs"}, pattern : Patterns, read : SUBSET Checks]
         /\ Page!At(r, "proof") => editing[r] \in [at : {"proof"}, pattern : Patterns]
BY DEF Page!TypeOK, Page!At, Page!Request, Page!Step

(***************************************************************************)
(* Time and the recalculations touch only dates.          *)
(***************************************************************************)
LEMMA Restamped ==
  ASSUME Page!IInv, Page!ConstantsDiffer, Page!Age15Days \/ Page!Recalculate \/ Page!ForceTriggers
  PROVE  Page!IInv'
<1>1. listing \in Page!Listing
  BY DEF Page!IInv, Page!TypeOK, Page!Age15Days, Page!Recalculate, Page!ForceTriggers, Page!Exists
<1>2. PICK age \in Page!Age, isRecent \in BOOLEAN :
        listing' = [listing EXCEPT !.approved = age, !.recent = isRecent]
  <2>1. CASE Page!Age15Days
    <3>1. listing' = [listing EXCEPT !.approved = "old", !.recent = listing.recent]
      BY <1>1, <2>1 DEF Page!Age15Days, Page!Listing
    <3>. QED BY <1>1, <3>1 DEF Page!Listing, Page!Age
  <2>2. CASE Page!Recalculate
    <3>1. PICK isRecent \in BOOLEAN : isRecent = (listing.approved = "new" /\ listing.status = "APPROVED")
      OBVIOUS
    <3>2. listing' = [listing EXCEPT !.approved = listing.approved, !.recent = isRecent]
      BY <1>1, <2>2, <3>1 DEF Page!Recalculate, Page!Listing
    <3>. QED BY <1>1, <3>2 DEF Page!Listing
  <2>3. CASE Page!ForceTriggers
    <3>1. listing' = [listing EXCEPT !.approved = listing.approved, !.recent = FALSE]
      BY <1>1, <2>3 DEF Page!ForceTriggers, Page!Listing
    <3>. QED BY <1>1, <3>1 DEF Page!Listing
  <2>. QED BY <2>1, <2>2, <2>3
<1>3. /\ listing' \in Page!Listing /\ listing'.slug = listing.slug /\ listing'.former = listing.former
      /\ listing'.pattern = listing.pattern
  BY <1>1, <1>2 DEF Page!Listing
<1>4. UNCHANGED <<proofs, editing, named, disturbed>> /\ listing # None /\ listing' # None
  BY <1>3 DEF Page!Age15Days, Page!Recalculate, Page!ForceTriggers, Page!Exists,
      Page!ConstantsDiffer
<1>. QED
  BY <1>3, <1>4 DEF Page!IInv, Page!TypeOK, Page!SettledInv, Page!Alone, Page!ReadInv, Page!Exists,
      Page!At,
                    Page!Live, Page!Awaited, Page!Idle

(***************************************************************************)
(* A new service has no proof yet and no former slug.                      *)
(***************************************************************************)
LEMMA ListingCreated ==
  ASSUME Page!IInv, Page!ConstantsDiffer, NEW slug \in Slugs, NEW pattern \in Patterns,
         NEW visibility \in Visibilities, NEW approver \in BOOLEAN,
         Page!Create(slug, pattern, visibility, approver)
  PROVE  Page!IInv'
<1>1. PICK status1 \in Page!Statuses :
        listing' = Page!Stamped(None, [slug |-> slug, former |-> {}, pattern |-> pattern,
                                 visibility |-> visibility, status |-> status1, listed |-> FALSE,
                                 approved |-> None, verified |-> FALSE, spam |-> FALSE, recent |-> FALSE])
  BY DEF Page!Create, Page!NewStatuses, Page!Statuses
<1> DEFINE new == [slug |-> slug, former |-> {}, pattern |-> pattern,
                   visibility |-> visibility, status |-> status1, listed |-> FALSE,
                   approved |-> None, verified |-> FALSE, spam |-> FALSE, recent |-> FALSE]
<1>2. new \in Page!Listing /\ new.slug = slug /\ new.former = {} /\ new.pattern = pattern
  BY DEF Page!Listing, Page!Age
<1> HIDE DEF new
<1>3. listing' \in Page!Listing /\ listing'.slug = slug
  BY <1>1, <1>2, StampedRow DEF new
<1>4. UNCHANGED <<proofs, editing, disturbed>> /\ named' = {slug} /\ listing = None
  BY DEF Page!Create
<1>5. Page!TypeOK'
  BY <1>3, <1>4 DEF Page!IInv, Page!TypeOK
<1>6. ASSUME ~disturbed' PROVE Page!SettledInv'
  <2>1. (\A r \in Slots : editing[r] = None) /\ Page!Live = {}
    BY <1>4, <1>6 DEF Page!IInv, Page!SettledInv, Page!Idle, Page!Exists
  <2>. QED BY <1>3, <1>4, <2>1 DEF Page!SettledInv, Page!Alone, Page!ReadInv, Page!Live, Page!At
<1>7. Page!Exists'
  BY <1>3 DEF Page!Exists, Page!ConstantsDiffer
<1>. QED BY <1>5, <1>6, <1>7 DEF Page!IInv

(***************************************************************************)
(* While nothing overlaps, a request that starts or moves on is the only   *)
(* one.                                                                    *)
(***************************************************************************)
LEMMA OnlyRequest ==
  ASSUME Page!TypeOK, Page!Alone, NEW r \in Slots, editing[r] # None \/ Page!Idle,
         NEW q, editing' = [editing EXCEPT ![r] = q]
  PROVE  /\ editing'[r] = q /\ \A other \in Slots \ {r} : editing'[other] = None
         /\ Page!Alone'
BY DEF Page!TypeOK, Page!Alone, Page!Idle

(***************************************************************************)
(* What a request reads is the row while it is alone.                      *)
(***************************************************************************)
LEMMA EditStarted ==
  ASSUME Page!IInv, Page!ConstantsDiffer,
         NEW r \in Slots, Page!ReadListing(r) \/ Page!ReadSettings(r)
  PROVE  Page!IInv'
<1>1. listing \in Page!Listing /\ editing[r] = None /\ UNCHANGED <<listing, proofs, named>>
  BY DEF Page!IInv, Page!TypeOK, Page!ReadListing, Page!ReadSettings, Page!Start, Page!Exists
<1>2. PICK q \in Page!Request :
        /\ editing' = [editing EXCEPT ![r] = q] /\ disturbed' = (disturbed \/ ~Page!Idle)
        /\ \/ q = [at |-> "save", slug |-> listing.slug, former |-> listing.former, pattern |-> listing.pattern]
           \/ q = [at |-> "proof", pattern |-> listing.pattern]
  BY <1>1 DEF Page!ReadListing, Page!ReadSettings, Page!Start, Page!Request, Page!Step, Page!Listing
<1>3. Page!TypeOK'
  BY <1>1, <1>2, Zenon DEF Page!IInv, Page!TypeOK
<1>4. ASSUME ~disturbed' PROVE Page!SettledInv'
  <2>1. Page!SettledInv /\ Page!Idle
    BY <1>2, <1>4 DEF Page!IInv, Page!TypeOK
  <2>2. /\ editing'[r] = q /\ \A other \in Slots \ {r} : editing'[other] = None
        /\ Page!Alone'
    BY <1>2, <2>1, OnlyRequest DEF Page!IInv, Page!SettledInv
  <2>3. (\A other \in Slots : Page!ReadInv(other))'
    BY <1>1, <1>2, <2>2 DEF Page!ReadInv, Page!At, Page!Exists, Page!ReadListing, Page!ReadSettings
  <2>4. \A p \in Page!Live : Page!Exists => proofs[p] = listing.pattern
    BY <2>1 DEF Page!SettledInv, Page!Awaited, Page!At, Page!Idle
  <2>. QED BY <1>1, <2>1, <2>2, <2>3, <2>4 DEF Page!SettledInv, Page!Live, Page!Exists
<1>5. Page!Exists'
  BY <1>1 DEF Page!Exists, Page!ReadListing, Page!ReadSettings
<1>. QED BY <1>3, <1>4, <1>5 DEF Page!IInv

(***************************************************************************)
(* A save remembers the slug it replaces, and a request that changed the   *)
(* pattern has its proofs still to classify (service.ts:350).              *)
(***************************************************************************)
LEMMA ListingSaved ==
  ASSUME Page!IInv, Page!ConstantsDiffer, NEW r \in Slots, NEW slug \in Slugs,
         NEW pattern \in Patterns,
         NEW visibility \in Visibilities, NEW approver \in BOOLEAN,
         Page!Save(r, slug, pattern, visibility, approver)
  PROVE  Page!IInv'
<1>1. /\ Page!TypeOK /\ listing \in Page!Listing /\ editing[r] # None
      /\ editing[r] \in [at : {"save"}, slug : Slugs, former : SUBSET Slugs, pattern : Patterns]
  BY EditReads DEF Page!IInv, Page!TypeOK, Page!Idle, Page!Exists, Page!Save, Page!At
<1> DEFINE former1 == Page!Former(editing[r], slug)
<1>2. former1 \in SUBSET Slugs
  BY <1>1 DEF Page!Former, Page!Listing
<1> HIDE DEF former1
<1>3. PICK status1 \in Page!Statuses :
        listing' = Page!Stamped(listing, [listing EXCEPT !.slug = slug, !.former = former1,
                                                         !.pattern = pattern, !.visibility = visibility,
                                                         !.status = status1])
  BY <1>1 DEF Page!Save, Page!SavedStatuses, Page!Listing, former1
<1> DEFINE new == [listing EXCEPT !.slug = slug, !.former = former1, !.pattern = pattern,
                                  !.visibility = visibility, !.status = status1]
<1>4. new \in Page!Listing /\ new.slug = slug /\ new.former = former1 /\ new.pattern = pattern
  BY <1>1, <1>2 DEF Page!Listing
<1>5. listing' = Page!Stamped(listing, new)
  BY <1>3
<1> HIDE DEF new
<1>6. /\ listing' \in Page!Listing /\ listing' # None
      /\ listing'.slug = slug /\ listing'.former = former1 /\ listing'.pattern = pattern
  BY <1>1, <1>4, <1>5, StampedRow DEF Page!ConstantsDiffer
<1>7. PICK q \in Page!Request :
        /\ editing' = [editing EXCEPT ![r] = q] /\ disturbed' = disturbed
        /\ q = IF editing[r].pattern # pattern THEN [at |-> "settings"] ELSE None
  BY DEF Page!Save, Page!Reclassifies, Page!Goes, Page!Done, Page!Request, Page!Step
<1>8. proofs' = proofs /\ named' = named \cup {slug}
  BY DEF Page!Save
<1>9. Page!TypeOK'
  BY <1>1, <1>6, <1>7, <1>8 DEF Page!TypeOK
<1>10. ASSUME ~disturbed' PROVE Page!SettledInv'
  <2>1. Page!SettledInv
    BY <1>7, <1>10 DEF Page!IInv
  <2>2. /\ editing'[r] = q /\ \A other \in Slots \ {r} : editing'[other] = None
        /\ editing[r] # None /\ \A other \in Slots \ {r} : editing[other] = None
        /\ Page!Alone'
    BY <1>1, <1>7, <2>1, OnlyRequest DEF Page!SettledInv, Page!Alone
  <2>3. /\ editing[r].slug = listing.slug /\ editing[r].former = listing.former
        /\ editing[r].pattern = listing.pattern
    BY <1>1, <2>1 DEF Page!SettledInv, Page!ReadInv, Page!At
  <2>4. named \subseteq listing.former \cup {listing.slug}
    BY <1>1, <2>1 DEF Page!SettledInv, Page!Exists, Page!ConstantsDiffer
  <2>5. named' \subseteq former1 \cup {slug}
    BY <1>8, <2>3, <2>4 DEF Page!Former, former1
  <2>6. (\A other \in Slots : Page!ReadInv(other))'
    BY <1>7, <2>2 DEF Page!ReadInv, Page!At
  <2>7. ASSUME NEW p \in Checks, proofs[p] # None
        PROVE  proofs[p] = pattern \/ Page!At(r, "settings")'
    <3>1. proofs[p] = listing.pattern
      BY <1>1, <2>1, <2>2, <2>7 DEF Page!SettledInv, Page!Exists, Page!ConstantsDiffer, Page!Live,
          Page!Awaited, Page!At
    <3>. QED BY <1>7, <2>2, <2>3, <3>1 DEF Page!At, Page!Request, Page!Step, Page!ConstantsDiffer
  <2>. QED
    BY <1>6, <1>8, <2>2, <2>5, <2>6, <2>7 DEF Page!SettledInv, Page!Exists, Page!Live, Page!Awaited
<1>. QED BY <1>6, <1>9, <1>10 DEF Page!IInv, Page!Exists

(***************************************************************************)
(* It reads every piece of evidence the new pattern classifies otherwise   *)
(* and writes them all.                                                    *)
(***************************************************************************)
LEMMA ProofsRead ==
  ASSUME Page!IInv, Page!ConstantsDiffer, NEW r \in Slots, Page!ReadProofs(r)
  PROVE  Page!IInv'
<1>1. /\ Page!TypeOK /\ listing \in Page!Listing /\ editing[r] # None /\ Page!Exists
      /\ UNCHANGED <<listing, proofs, named, disturbed>>
  BY DEF Page!IInv, Page!TypeOK, Page!Idle, Page!Exists, Page!ReadProofs, Page!At, Page!Goes
<1>2. PICK q \in Page!Step :
        /\ editing' = [editing EXCEPT ![r] = q]
        /\ q = [at |-> "proofs", pattern |-> listing.pattern,
                     read |-> {p \in Page!Live : proofs[p] # listing.pattern}]
  BY <1>1 DEF Page!ReadProofs, Page!Goes, Page!Step, Page!Listing, Page!Live
<1>3. Page!TypeOK'
  BY <1>1, <1>2 DEF Page!TypeOK, Page!Request
<1>4. ASSUME ~disturbed' PROVE Page!SettledInv'
  <2>1. Page!SettledInv
    BY <1>1, <1>4 DEF Page!IInv
  <2>2. /\ editing'[r] = q /\ \A other \in Slots \ {r} : editing'[other] = None
        /\ Page!Alone'
    BY <1>1, <1>2, <2>1, OnlyRequest DEF Page!SettledInv
  <2>3. (\A other \in Slots : Page!ReadInv(other))'
    BY <1>1, <1>2, <2>2 DEF Page!ReadInv, Page!At
  <2>4. Page!At(r, "proofs")' /\ editing'[r].read = {p \in Page!Live : proofs[p] # listing.pattern}
    BY <1>2, <2>2 DEF Page!At, Page!ConstantsDiffer
  <2>. QED BY <1>1, <2>1, <2>2, <2>3, <2>4 DEF Page!SettledInv, Page!Live, Page!Exists, Page!Awaited
<1>. QED BY <1>1, <1>3, <1>4 DEF Page!IInv, Page!Exists

LEMMA ProofsWritten ==
  ASSUME Page!IInv, Page!ConstantsDiffer, NEW r \in Slots,
         Page!WriteProofs(r) \/ \E p \in Checks : Page!AddProof(r, p)
  PROVE  Page!IInv'
<1>1. /\ Page!TypeOK /\ listing \in Page!Listing /\ editing[r] # None /\ Page!Exists
      /\ UNCHANGED <<listing, named, disturbed>> /\ editing' = [editing EXCEPT ![r] = None]
  BY DEF Page!IInv, Page!TypeOK, Page!Idle, Page!Exists, Page!WriteProofs, Page!AddProof, Page!At,
      Page!Goes, Page!Done
<1>2. /\ proofs' \in [Checks -> Patterns \cup {None}]
      /\ editing[r].pattern \in Patterns
      /\ \A p \in Checks : proofs'[p] \in {proofs[p], editing[r].pattern}
      /\ \A p \in Checks : Page!At(r, "proofs") /\ p \in editing[r].read =>
           proofs'[p] = editing[r].pattern
      /\ Page!At(r, "proofs") \/ Page!At(r, "proof")
  BY <1>1, EditReads DEF Page!TypeOK, Page!WriteProofs, Page!AddProof, Page!At
<1>3. Page!TypeOK'
  BY <1>1, <1>2 DEF Page!TypeOK, Page!Request
<1>4. ASSUME ~disturbed' PROVE Page!SettledInv'
  <2>1. Page!SettledInv
    BY <1>1, <1>4 DEF Page!IInv
  <2>2. /\ \A other \in Slots : editing'[other] = None
        /\ \A other \in Slots \ {r} : editing[other] = None
        /\ Page!Alone'
    BY <1>1, <2>1, OnlyRequest DEF Page!SettledInv, Page!Alone
  <2>3. editing[r].pattern = listing.pattern
    BY <1>2, <2>1 DEF Page!SettledInv, Page!ReadInv
  <2>4. \A p \in Page!Live : proofs[p] = listing.pattern \/ (Page!At(r, "proofs") /\ p \in editing[r].read)
    BY <1>1, <1>2, <2>1, <2>2 DEF Page!SettledInv, Page!Awaited, Page!At
  <2>5. \A p \in Checks : proofs'[p] # None => proofs'[p] = listing.pattern
    BY <1>2, <2>3, <2>4 DEF Page!Live
  <2>. QED BY <1>1, <2>1, <2>2, <2>5 DEF Page!SettledInv, Page!Live, Page!Exists, Page!ReadInv,
      Page!At
<1>. QED BY <1>1, <1>3, <1>4 DEF Page!IInv, Page!Exists

LEMMA ProofRemoved ==
  ASSUME Page!IInv, Page!ConstantsDiffer, NEW p \in Checks, Page!RemoveProof(p)
  PROVE  Page!IInv'
BY DEF Page!IInv, Page!TypeOK, Page!RemoveProof, Page!Idle, Page!Exists, Page!SettledInv,
    Page!Alone, Page!ReadInv,
       Page!At, Page!Live, Page!Awaited

(***************************************************************************)
(* A request that fails before it wrote the row leaves nothing to do; one  *)
(* that fails after is a disturbance.                                      *)
(***************************************************************************)
LEMMA EditFailed ==
  ASSUME Page!IInv, Page!ConstantsDiffer, NEW r \in Slots, Page!Fail(r)
  PROVE  Page!IInv'
<1>1. /\ Page!TypeOK /\ editing[r] # None /\ Page!Exists
      /\ UNCHANGED <<listing, proofs, named>> /\ editing' = [editing EXCEPT ![r] = None]
      /\ disturbed' = (disturbed \/ editing[r].at \in {"settings", "proofs"})
  BY DEF Page!IInv, Page!Idle, Page!Fail
<1>2. Page!TypeOK'
  <2>1. disturbed' \in BOOLEAN
    BY <1>1, Zenon
  <2>. QED BY <1>1, <2>1 DEF Page!TypeOK, Page!Request
<1>3. ASSUME ~disturbed' PROVE Page!SettledInv'
  <2>1. Page!SettledInv /\ editing[r].at \notin {"settings", "proofs"}
    BY <1>1, <1>3 DEF Page!IInv, Page!TypeOK
  <2>2. /\ \A other \in Slots : editing'[other] = None
        /\ \A other \in Slots \ {r} : editing[other] = None
        /\ Page!Alone'
    BY <1>1, <2>1, OnlyRequest DEF Page!SettledInv, Page!Alone
  <2>3. \A p \in Page!Live : proofs[p] = listing.pattern
    BY <1>1, <2>1, <2>2 DEF Page!SettledInv, Page!Awaited, Page!At
  <2>. QED BY <1>1, <2>1, <2>2, <2>3 DEF Page!SettledInv, Page!Live, Page!Exists, Page!ReadInv,
      Page!At
<1>. QED BY <1>1, <1>2, <1>3 DEF Page!IInv, Page!Exists

(***************************************************************************)
(* So every step keeps the invariant of a listing, and with nothing under  *)
(* way and nothing disturbed the edits are settled.                        *)
(***************************************************************************)
LEMMA PageStep ==
  ASSUME Page!IInv, Page!ConstantsDiffer, Page!Next
  PROVE  Page!IInv'
BY ListingCreated, ListingSaved, EditStarted, ProofsRead, ProofsWritten, EditFailed, ProofRemoved,
    Restamped
DEF Page!Next

LEMMA PageInit == ASSUME Page!ConstantsDiffer PROVE Page!Init => Page!IInv
BY DEF Page!Init, Page!IInv, Page!TypeOK, Page!Idle, Page!Exists, Page!SettledInv, Page!Alone,
    Page!ReadInv,
       Page!At, Page!Live, Page!Awaited, Page!Request

LEMMA PageStutter == ASSUME Page!IInv, UNCHANGED page PROVE Page!IInv'
BY DEF page, Page!IInv, Page!TypeOK, Page!Idle, Page!Exists, Page!SettledInv, Page!Alone,
    Page!ReadInv,
       Page!At, Page!Live, Page!Awaited

LEMMA PageSettles == ASSUME Page!IInv PROVE Page!EditsSettle
BY DEF Page!IInv, Page!SettledInv, Page!EditsSettle, Page!Awaited, Page!At, Page!Idle

-----------------------------------------------------------------------------
(* Proof that was asked for *)

(***************************************************************************)
(* Any text and picture make proof of some kind that waits for a check.    *)
(***************************************************************************)
LEMMA ProofMade ==
  ASSUME now \in 0..MaxTime, NEW body \in Bodies \cup {None}, NEW image \in BOOLEAN
  PROVE  /\ Proof!ClassifyProof(body, image) \in Proof!Kinds
         /\ Proof!NewEvidence(body, image) \in Proof!Evidence
<1>1. Proof!ClassifyProof(body, image) \in Proof!Kinds
  BY DEF Proof!ClassifyProof, Proof!Kinds
<1>. QED BY <1>1 DEF Proof!NewEvidence, Proof!Evidence

(***************************************************************************)
(* Where nothing is asked, one request is made.                            *)
(***************************************************************************)
LEMMA OnlyOneAsked ==
  ASSUME Proof!TypeOK, Proof!ConstantsDiffer, NEW source \in {"SERVICE", "MODERATOR"},
         Proof!Open = {}, Proof!CreateProofRequest(source)
  PROVE  Proof!TypeOK' /\ Proof!OneOpen'
<1>1. PICK r \in Proof!Asked : /\ requests[r] = None
                               /\ requests' = [requests EXCEPT ![r] = [source |-> source,
                                                                          due |-> now + RequestDays, cancelled |-> FALSE]]
                               /\ UNCHANGED <<now, author, post, evidence, sending>>
  BY DEF Proof!CreateProofRequest, Proof!Made
<1>2. [source |-> source, due |-> now + RequestDays, cancelled |-> FALSE] \in Proof!Request
  BY DEF Proof!TypeOK, Proof!Request, Proof!ConstantsDiffer
<1>3. Proof!TypeOK'
  BY <1>1, <1>2 DEF Proof!TypeOK
<1>4. Proof!OneOpen'
  BY <1>1 DEF Proof!TypeOK, Proof!OneOpen, Proof!Open, Proof!Made
<1>. QED BY <1>3, <1>4

(***************************************************************************)
(* Checking, cancelling, dismissing, removing and sending proof open no    *)
(* request.                                                                *)
(***************************************************************************)
LEMMA ProofChecked ==
  ASSUME Proof!TypeOK, Proof!ConstantsDiffer, NEW v \in Proof!Proofs,
         NEW finding \in Findings, Proof!CheckEvidence(v, finding)
  PROVE  Proof!TypeOK' /\ Proof!Open' \subseteq Proof!Open
<1>1. evidence[v] \in Proof!Evidence /\ v \in Proof!Live
  BY DEF Proof!TypeOK, Proof!CheckEvidence, Proof!Live, Proof!Sent
<1>2. PICK no \in BOOLEAN : no = FALSE
  OBVIOUS
<1>3. [evidence[v] EXCEPT !.finding = finding, !.needsCheck = no] \in Proof!Evidence
  BY <1>1 DEF Proof!Evidence
<1>4. evidence' = [evidence EXCEPT ![v] = [evidence[v] EXCEPT !.finding = finding, !.needsCheck = no]]
  BY <1>2 DEF Proof!CheckEvidence
<1>5. evidence' \in [Proof!Proofs -> Proof!Evidence \cup {None, Gone}]
  BY <1>3, <1>4 DEF Proof!TypeOK
<1>6. PICK yes \in BOOLEAN : yes = TRUE
  OBVIOUS
<1>7. \A r \in Proof!Open : [requests[r] EXCEPT !.cancelled = yes] \in Proof!Request
  BY DEF Proof!TypeOK, Proof!Open, Proof!Made, Proof!Request
<1>8. \/ requests' = requests
      \/ requests' = [r \in Proof!Asked |->
                        IF r \in Proof!Open THEN [requests[r] EXCEPT !.cancelled = yes] ELSE requests[r]]
  BY <1>6 DEF Proof!CheckEvidence
<1>9. requests' \in [Proof!Asked -> Proof!Request \cup {None}]
  BY <1>7, <1>8 DEF Proof!TypeOK
<1>10. Proof!Open' \subseteq Proof!Open
  BY <1>6, <1>7, <1>8 DEF Proof!TypeOK, Proof!Open, Proof!Made, Proof!Request
<1>11. post' \in {"held", "published", "down"} /\ UNCHANGED <<now, author, sending>>
  BY DEF Proof!TypeOK, Proof!CheckEvidence, Proof!PublishIfHeldOnlyForProof
<1>. QED BY <1>5, <1>9, <1>10, <1>11 DEF Proof!TypeOK

LEMMA RequestCancelled ==
  ASSUME Proof!TypeOK, Proof!ConstantsDiffer, NEW r \in Proof!Asked, Proof!CancelProofRequest(r)
  PROVE  Proof!TypeOK' /\ Proof!Open' \subseteq Proof!Open
<1>1. PICK yes \in BOOLEAN : yes = TRUE
  OBVIOUS
<1>2. requests[r] \in Proof!Request
  BY DEF Proof!TypeOK, Proof!CancelProofRequest, Proof!Open, Proof!Made
<1>3. requests' = [requests EXCEPT ![r] = [requests[r] EXCEPT !.cancelled = yes]]
      /\ UNCHANGED <<now, author, post, evidence, sending>>
  BY <1>1 DEF Proof!CancelProofRequest
<1>4. [requests[r] EXCEPT !.cancelled = yes] \in Proof!Request
      /\ [requests[r] EXCEPT !.cancelled = yes].cancelled
  BY <1>1, <1>2 DEF Proof!Request
<1>. QED BY <1>2, <1>3, <1>4 DEF Proof!TypeOK, Proof!Open, Proof!Made

LEMMA NoteDismissed ==
  ASSUME Proof!TypeOK, Proof!ConstantsDiffer, NEW v \in Proof!Proofs, Proof!DismissNote(v)
  PROVE  Proof!TypeOK' /\ UNCHANGED requests
<1>1. PICK no \in BOOLEAN : no = FALSE
  OBVIOUS
<1>2. evidence[v] \in Proof!Evidence
  BY DEF Proof!TypeOK, Proof!DismissNote, Proof!MayBeCleared, Proof!Live, Proof!Sent
<1>3. evidence' = [evidence EXCEPT ![v] = [evidence[v] EXCEPT !.needsCheck = no]]
      /\ UNCHANGED <<now, author, requests, sending>>
  BY <1>1 DEF Proof!DismissNote
<1>4. [evidence[v] EXCEPT !.needsCheck = no] \in Proof!Evidence
  BY <1>2 DEF Proof!Evidence
<1>5. post' \in {"held", "published", "down"}
  BY DEF Proof!TypeOK, Proof!DismissNote, Proof!PublishIfHeldOnlyForProof
<1>. QED BY <1>3, <1>4, <1>5 DEF Proof!TypeOK

LEMMA ImageRemoved ==
  ASSUME Proof!TypeOK, Proof!ConstantsDiffer, NEW v \in Proof!Proofs, Proof!RemoveEvidenceImage(v)
  PROVE  Proof!TypeOK' /\ UNCHANGED requests
<1>1. PICK no \in BOOLEAN : no = FALSE
  OBVIOUS
<1>2. evidence[v] \in Proof!Evidence /\ evidence[v].body \in Bodies \cup {None}
  BY DEF Proof!TypeOK, Proof!RemoveEvidenceImage, Proof!Live, Proof!Sent, Proof!Evidence
<1>3. PICK kind \in Proof!Kinds : kind = Proof!ClassifyProof(evidence[v].body, FALSE)
  BY <1>2, ProofMade DEF Proof!TypeOK
<1>4. evidence' = [evidence EXCEPT ![v] = [evidence[v] EXCEPT !.image = no, !.kind = kind]]
      /\ UNCHANGED <<now, author, post, requests, sending>>
  BY <1>1, <1>3 DEF Proof!RemoveEvidenceImage
<1>5. [evidence[v] EXCEPT !.image = no, !.kind = kind] \in Proof!Evidence
  BY <1>2 DEF Proof!Evidence
<1>. QED BY <1>4, <1>5 DEF Proof!TypeOK

LEMMA ProofSent ==
  ASSUME Proof!TypeOK, Proof!ConstantsDiffer, Proof!AddEvidence
  PROVE  Proof!TypeOK' /\ UNCHANGED requests
<1>1. PICK body \in Bodies \cup {None}, image \in BOOLEAN : body = sending.body /\ image = sending.image
  BY DEF Proof!TypeOK, Proof!AddEvidence
<1>2. PICK new \in Proof!Evidence : new = Proof!NewEvidence(sending.body, sending.image)
  BY <1>1, ProofMade DEF Proof!TypeOK
<1>3. PICK v \in Proof!Proofs : \E current \in IF Proof!Live = {} THEN {None} ELSE Proof!Live :
        evidence' = [w \in Proof!Proofs |-> CASE w = v -> Proof!NewEvidence(sending.body, sending.image)
                                              [] w = current -> Gone
                                              [] OTHER -> evidence[w]]
  BY DEF Proof!AddEvidence
<1>4. PICK current : evidence' = [w \in Proof!Proofs |-> CASE w = v -> new
                                                           [] w = current -> Gone
                                                           [] OTHER -> evidence[w]]
  BY <1>2, <1>3
<1>5. evidence' \in [Proof!Proofs -> Proof!Evidence \cup {None, Gone}]
  BY <1>4 DEF Proof!TypeOK
<1>. QED BY <1>5 DEF Proof!TypeOK, Proof!AddEvidence

(***************************************************************************)
(* So at most one request is open at any time.                             *)
(***************************************************************************)
LEMMA ProofStep ==
  ASSUME Proof!IInv, Proof!ConstantsDiffer, Proof!Next
  PROVE  Proof!IInv'
<1>1. Proof!TypeOK /\ Proof!OneOpen
  BY DEF Proof!IInv
<1>2. ASSUME Proof!Dispute \/ Proof!RequestProof PROVE Proof!IInv'
  <2>1. Proof!Open = {}
    BY <1>2 DEF Proof!Dispute, Proof!RequestProof, Proof!Hindering, Proof!Open
  <2>. QED BY <1>1, <1>2, <2>1, OnlyOneAsked DEF Proof!Dispute, Proof!RequestProof, Proof!IInv
<1>3. ASSUME Proof!TypeOK', Proof!Open' \subseteq Proof!Open PROVE Proof!IInv'
  BY <1>1, <1>3 DEF Proof!IInv, Proof!OneOpen
<1>4. ASSUME Proof!TypeOK', UNCHANGED requests PROVE Proof!IInv'
  BY <1>3, <1>4 DEF Proof!Open, Proof!Made
<1>5. ASSUME NEW body \in Bodies \cup {None}, NEW image \in BOOLEAN, Proof!AskToSend(body, image)
      PROVE  Proof!IInv'
  BY <1>1, <1>4, <1>5 DEF Proof!AskToSend, Proof!TypeOK
<1>6. ASSUME Proof!GiveUp \/ Proof!DeleteAccount \/ Proof!MovePost \/ Proof!Tick PROVE Proof!IInv'
  <2>1. CASE Proof!DeleteAccount
    <3>1. author' \in BOOLEAN /\ UNCHANGED <<now, post, evidence, requests, sending>>
      BY <2>1 DEF Proof!DeleteAccount
    <3>. QED BY <1>1, <1>4, <3>1 DEF Proof!TypeOK
  <2>2. CASE Proof!GiveUp \/ Proof!MovePost \/ Proof!Tick
    BY <1>1, <1>4, <2>2 DEF Proof!GiveUp, Proof!MovePost, Proof!Tick, Proof!TypeOK,
        Proof!ConstantsDiffer
  <2>. QED BY <1>6, <2>1, <2>2
<1>7. ASSUME NEW v \in Proof!Proofs, Proof!RemoveEvidence(v) \/ Proof!DeleteEvidence(v) PROVE Proof!IInv'
  BY <1>1, <1>4, <1>7 DEF Proof!RemoveEvidence, Proof!DeleteEvidence, Proof!TypeOK
<1>. QED
  BY <1>1, <1>2, <1>3, <1>4, <1>5, <1>6, <1>7, ProofSent, ProofChecked, RequestCancelled,
      NoteDismissed, ImageRemoved
  DEF Proof!Next

LEMMA ProofInit == ASSUME Proof!ConstantsDiffer PROVE Proof!Init => Proof!IInv
<1> SUFFICES ASSUME Proof!Init PROVE Proof!IInv
  OBVIOUS
<1>1. PICK first : first \in {None} \cup Proof!LegacyEvidence \cup {Proof!NewEvidence(body, FALSE) : body \in Bodies}
                   /\ evidence = [v \in Proof!Proofs |-> IF v = 1 THEN first ELSE None]
  BY DEF Proof!Init
<1>2. \A body \in Bodies : Proof!NewEvidence(body, FALSE) \in Proof!Evidence
  <2>1. now \in 0..MaxTime
    BY DEF Proof!Init, Proof!ConstantsDiffer
  <2>. QED BY <2>1, ProofMade
<1>3. PICK no \in BOOLEAN, legacy \in {"LEGACY"}, approved1 \in {"APPROVED"}, pending \in {"PENDING"} :
        no = FALSE
  OBVIOUS
<1>4. PICK old \in Proof!Evidence : old = Proof!NewEvidence("words", FALSE)
  BY <1>2 DEF Proof!ConstantsDiffer
<1>5. /\ [old EXCEPT !.needsCheck = no, !.finding = legacy, !.legacy = approved1] \in Proof!Evidence
      /\ [old EXCEPT !.legacy = pending] \in Proof!Evidence
  BY DEF Proof!Evidence
<1>6. Proof!LegacyEvidence = {[old EXCEPT !.needsCheck = no, !.finding = legacy, !.legacy = approved1],
                              [old EXCEPT !.legacy = pending]}
  BY <1>3, <1>4 DEF Proof!LegacyEvidence
<1>7. first \in Proof!Evidence \cup {None}
  BY <1>1, <1>2, <1>5, <1>6
<1>. QED
  BY <1>1, <1>7 DEF Proof!Init, Proof!IInv, Proof!TypeOK, Proof!OneOpen, Proof!Open, Proof!Made,
      Proof!ConstantsDiffer

LEMMA ProofStutter == ASSUME Proof!IInv, UNCHANGED proof PROVE Proof!IInv'
BY DEF proof, Proof!IInv, Proof!TypeOK, Proof!OneOpen, Proof!Open, Proof!Made

(***************************************************************************)
(* With one open request, the request the page shows is the one the        *)
(* filters look for, and both read the same proof                          *)
(* (experienceQueries.ts:52).                                              *)
(***************************************************************************)
LEMMA FiltersMirror ==
  ASSUME Proof!IInv, Proof!ConstantsDiffer PROVE Proof!SqlMirrorsPage
<1> SUFFICES ASSUME \A r \in Proof!Open : requests[r].due # now
             PROVE  Proof!Unproven <=> \E r \in Proof!ShownRequest : Proof!ProofRequestState(r) = "unanswered"
  BY DEF Proof!SqlMirrorsPage
<1>1. Proof!ShownRequest = Proof!Open
  BY DEF Proof!IInv, Proof!OneOpen, Proof!ShownRequest, Proof!Open, Proof!Made, Proof!Asked
<1>2. Proof!AcceptedProof <=> \E v \in Proof!Sent : Proof!CountsAsProof(v)
  BY DEF Proof!AcceptedProof, Proof!CountsAsProof, Proof!Counts, Proof!Live, Proof!Sent,
      Proof!Counting
<1>3. ASSUME NEW r \in Proof!Open
      PROVE  Proof!ProofRequestState(r) = "unanswered" <=>
               /\ ~Proof!AcceptedProof /\ requests[r].due < now
               /\ ~\E v \in Proof!Live : \/ evidence[v].needsCheck /\ evidence[v].created <= requests[r].due
                                         \/ evidence[v].finding = "UNABLE_TO_CHECK"
  <2>1. requests[r].due \in Int /\ now \in Int /\ requests[r].due # now
    BY <1>3 DEF Proof!IInv, Proof!TypeOK, Proof!Open, Proof!Made, Proof!Request,
        Proof!ConstantsDiffer
  <2>. QED BY <1>2, <2>1 DEF Proof!ProofRequestState, Proof!Live
<1>. QED BY <1>1, <1>3 DEF Proof!Unproven

-----------------------------------------------------------------------------
(* The word on all posts, and how an experience ended *)

(***************************************************************************)
(* Comment numbers order the posts of an author, so exactly the last of    *)
(* those that may count is counted (experienceQueries.ts:201).             *)
(***************************************************************************)
LEMMA VoiceCounted == Summary!EveryVoiceCountsOnce
<1> SUFFICES ASSUME NEW a \in Authors \ deleted, NEW c \in Summary!Countable, posts[c].author = a
             PROVE  c \in Summary!Counted <=>
                      \A other \in Summary!Countable : posts[other].author = a => other <= c
  BY DEF Summary!EveryVoiceCountsOnce, Summary!Counted
<1>1. Summary!Countable \subseteq Int
  BY DEF Summary!Countable, Summary!Published, Summary!Written, Summary!Ids
<1>2. \A other : Summary!SameAuthor(c, other) <=> posts[other].author = a
  BY DEF Summary!SameAuthor, Summary!HasAuthor
<1>. QED BY <1>1, <1>2 DEF Summary!Counted

(***************************************************************************)
(* Whatever is decided, withdrawn or restored keeps the date an update was *)
(* published at first, unless it is decided anew.                          *)
(***************************************************************************)
LEMMA Moved ==
  ASSUME Ending!TypeOK, Ending!ConstantsDiffer,
         NEW u \in Updates, Ending!DateInv(u), updates[u] # None,
         NEW status1 \in {"PENDING", "APPROVED", "REJECTED", "WITHDRAWN"},
         NEW before \in {"PENDING", "APPROVED", None},
         status1 = "WITHDRAWN" <=> before # None,
         before = "APPROVED" => updates[u].status = "APPROVED",
         Ending!Move(u, status1, before)
  PROVE  /\ updates' \in [Updates -> Ending!Update \cup {None}]
         /\ \A other \in Updates \ {u} : updates'[other] = updates[other]
         /\ updates'[u] \in Ending!Update /\ updates'[u].status = status1 /\ updates'[u].before = before
         /\ updates'[u].word = updates[u].word
         /\ stamps' \in 0..MaxStamps /\ stamps <= stamps'
         /\ Ending!DateInv(u)'
         /\ updates[u].approvedAt # None /\ status1 \in {"APPROVED", "WITHDRAWN"}
              => updates'[u].approvedAt = updates[u].approvedAt
         /\ UNCHANGED <<tags, outcome, resolvedAt>>
<1>1. updates[u] \in Ending!Update /\ stamps \in 0..MaxStamps
  BY DEF Ending!TypeOK
<1> DEFINE kept == Ending!KeptDate(updates[u], status1)
           stamped == status1 = "APPROVED" /\ kept = None
           date == IF stamped THEN stamps + 1 ELSE kept
           new == [word |-> updates[u].word, status |-> status1, before |-> before, approvedAt |-> date]
<1>2. /\ kept \in Ending!Date /\ (kept # None => kept = updates[u].approvedAt)
      /\ updates[u].approvedAt # None /\ status1 \in {"APPROVED", "WITHDRAWN"} =>
           kept = updates[u].approvedAt
  BY <1>1 DEF Ending!KeptDate, Ending!Update, Ending!Date
<1>3. /\ updates' = [updates EXCEPT ![u] = new]
      /\ IF stamped THEN stamps < MaxStamps /\ stamps' = stamps + 1 ELSE stamps' = stamps
      /\ UNCHANGED <<tags, outcome, resolvedAt>>
  BY DEF Ending!Move, Ending!Stamp, Ending!Now
<1> HIDE DEF kept
<1>4. stamps' \in 0..MaxStamps /\ stamps <= stamps'
  BY <1>1, <1>3 DEF Ending!ConstantsDiffer
<1>5. kept # None => kept \in 1..stamps
  BY <1>1, <1>2 DEF Ending!DateInv, Ending!Update
<1>6. date \in Ending!Date /\ (date # None => date \in 1..stamps')
  BY <1>1, <1>2, <1>3, <1>4, <1>5 DEF Ending!Date, Ending!Dates, Ending!ConstantsDiffer
<1>7. status1 = "APPROVED" => date # None
  BY <1>1 DEF Ending!ConstantsDiffer
<1>8. before = "APPROVED" => date # None
  BY <1>1, <1>2 DEF Ending!DateInv, Ending!ConstantsDiffer
<1>9. updates[u].approvedAt # None /\ status1 \in {"APPROVED", "WITHDRAWN"} =>
        date = updates[u].approvedAt
  BY <1>2
<1> HIDE DEF date
<1>10. new \in Ending!Update /\ new.status = status1 /\ new.before = before /\ new.word = updates[u].word
       /\ new.approvedAt = date
  BY <1>1, <1>6 DEF Ending!Update
<1> HIDE DEF new
<1>11. updates'[u] = new /\ updates' \in [Updates -> Ending!Update \cup {None}]
       /\ \A other \in Updates \ {u} : updates'[other] = updates[other]
  BY <1>3, <1>10 DEF Ending!TypeOK
<1>12. Ending!DateInv(u)'
  BY <1>6, <1>7, <1>8, <1>10, <1>11 DEF Ending!DateInv, Ending!ConstantsDiffer
<1>. QED BY <1>3, <1>4, <1>9, <1>10, <1>11, <1>12

\* What a decision, a withdrawal or a restore of one update leaves of the rest.
OthersStay(u) ==
  /\ \A other \in Updates \ {u} : updates'[other] = updates[other]
  /\ stamps \in Nat /\ stamps' \in Nat /\ stamps <= stamps'
  /\ UNCHANGED <<tags, outcome, resolvedAt>>

(***************************************************************************)
(* What touches one update leaves the invariant of all others.             *)
(***************************************************************************)
LEMMA EndingKept ==
  ASSUME Ending!IInv, Ending!ConstantsDiffer, NEW u \in Updates, OthersStay(u),
         updates' \in [Updates -> Ending!Update \cup {None}], stamps' \in 0..MaxStamps,
         said' \in SUBSET said, Ending!DateInv(u)', Ending!SaidInv(u)'
  PROVE  Ending!IInv'
<1>1. Ending!TypeOK'
  BY DEF Ending!IInv, Ending!TypeOK, OthersStay
<1>2. resolvedAt' # None => resolvedAt' \in 1..stamps'
  BY DEF Ending!IInv, OthersStay
<1>3. ASSUME NEW other \in Updates \ {u} PROVE Ending!DateInv(other)' /\ Ending!SaidInv(other)'
  <2>1. Ending!DateInv(other) /\ Ending!SaidInv(other) /\ updates'[other] = updates[other]
    BY <1>3 DEF Ending!IInv, OthersStay
  <2>. QED BY <2>1 DEF OthersStay, Ending!DateInv, Ending!SaidInv
<1>. QED BY <1>1, <1>2, <1>3 DEF Ending!IInv

(***************************************************************************)
(* A moderator's decision on an update is news: it is no longer one that   *)
(* was published before the mark.                                          *)
(***************************************************************************)
LEMMA EndingDecided ==
  ASSUME Ending!IInv, Ending!ConstantsDiffer, NEW u \in Updates,
         NEW status1 \in {"PENDING", "APPROVED", "REJECTED"}, Ending!Decide(u, status1)
  PROVE  /\ Ending!IInv'
         /\ u \in said /\ resolvedAt # None => updates'[u].status # "APPROVED"
         /\ said' = said \ {u}
<1>1. Ending!TypeOK /\ Ending!DateInv(u) /\ Ending!SaidInv(u)
  BY DEF Ending!IInv
<1>2. PICK before \in {"PENDING", "APPROVED", None} : before = None
  OBVIOUS
<1>3. Ending!Move(u, status1, before) /\ updates[u] # None /\ updates[u].status \notin {status1, "WITHDRAWN"}
      /\ said' = said \ {u}
  BY <1>2 DEF Ending!Decide
<1>4. (status1 = "WITHDRAWN" <=> before # None)
      /\ (before = "APPROVED" => updates[u].status = "APPROVED")
  BY <1>2 DEF Ending!ConstantsDiffer
<1>5. /\ updates' \in [Updates -> Ending!Update \cup {None}]
      /\ \A other \in Updates \ {u} : updates'[other] = updates[other]
      /\ updates'[u].status = status1
      /\ stamps' \in 0..MaxStamps /\ stamps <= stamps'
      /\ Ending!DateInv(u)'
      /\ UNCHANGED <<tags, outcome, resolvedAt>>
  BY <1>1, <1>3, <1>4, Moved
<1>6. Ending!SaidInv(u)'
  BY <1>3 DEF Ending!SaidInv
<1>7. Ending!IInv'
  BY <1>1, <1>3, <1>5, <1>6, EndingKept DEF OthersStay, Ending!TypeOK, Ending!ConstantsDiffer
<1>8. u \in said /\ resolvedAt # None => status1 # "APPROVED"
  BY <1>1, <1>3 DEF Ending!SaidInv, Ending!DateInv, Ending!ConstantsDiffer
<1>. QED BY <1>3, <1>5, <1>7, <1>8

(***************************************************************************)
(* Withdrawing and restoring an update keep the date it was published at   *)
(* (13_comment_approved_at.sql:10).                                        *)
(***************************************************************************)
LEMMA EndingWithdrawn ==
  ASSUME Ending!IInv, Ending!ConstantsDiffer,
         NEW u \in Updates, Ending!Withdraw(u) \/ Ending!Restore(u)
  PROVE  Ending!IInv' /\ said' = said
<1>1. Ending!TypeOK /\ Ending!DateInv(u) /\ Ending!SaidInv(u) /\ updates[u] # None
      /\ updates[u] \in Ending!Update /\ UNCHANGED said
  BY DEF Ending!IInv, Ending!TypeOK, Ending!Withdraw, Ending!Restore
<1>2. PICK status1 \in {"PENDING", "APPROVED", "REJECTED", "WITHDRAWN"}, before \in {"PENDING", "APPROVED", None} :
        /\ Ending!Move(u, status1, before)
        /\ \/ status1 = "WITHDRAWN" /\ before = updates[u].status
              /\ updates[u].status \in {"PENDING", "APPROVED"}
           \/ updates[u].status = "WITHDRAWN" /\ status1 = updates[u].before /\ before = None
              /\ status1 \in {"PENDING", "APPROVED"}
  <2>1. CASE Ending!Withdraw(u)
    <3>1. PICK status1 \in {"WITHDRAWN"}, before \in {"PENDING", "APPROVED"} :
            before = updates[u].status /\ Ending!Move(u, status1, before)
      BY <2>1 DEF Ending!Withdraw
    <3>. QED BY <3>1
  <2>2. CASE Ending!Restore(u)
    <3>1. PICK status1 \in {"PENDING", "APPROVED"}, before \in {None} :
            /\ status1 = updates[u].before /\ Ending!Move(u, status1, before) /\ updates[u].status = "WITHDRAWN"
      BY <1>1, <2>2 DEF Ending!Restore, Ending!Update, Ending!DateInv
    <3>. QED BY <3>1
  <2>. QED BY <2>1, <2>2
<1>3. (status1 = "WITHDRAWN" <=> before # None)
      /\ (before = "APPROVED" => updates[u].status = "APPROVED")
  BY <1>2 DEF Ending!ConstantsDiffer
<1>4. /\ updates' \in [Updates -> Ending!Update \cup {None}]
      /\ \A other \in Updates \ {u} : updates'[other] = updates[other]
      /\ updates'[u] \in Ending!Update /\ updates'[u].status = status1 /\ updates'[u].before = before
      /\ stamps' \in 0..MaxStamps /\ stamps <= stamps'
      /\ Ending!DateInv(u)'
      /\ updates[u].approvedAt # None /\ status1 \in {"APPROVED", "WITHDRAWN"}
           => updates'[u].approvedAt = updates[u].approvedAt
      /\ UNCHANGED <<tags, outcome, resolvedAt>>
  BY <1>1, <1>2, <1>3, Moved
<1>5. ASSUME u \in said, resolvedAt # None
      PROVE  /\ "APPROVED" \in {status1, before} /\ status1 \in {"APPROVED", "WITHDRAWN"}
             /\ updates[u].approvedAt # None /\ updates[u].approvedAt < resolvedAt
  BY <1>1, <1>2, <1>5 DEF Ending!SaidInv, Ending!DateInv, Ending!ConstantsDiffer
<1>6. Ending!SaidInv(u)'
  BY <1>1, <1>4, <1>5 DEF Ending!SaidInv, Ending!ConstantsDiffer
<1>7. Ending!IInv'
  BY <1>1, <1>4, <1>6, EndingKept DEF OthersStay, Ending!TypeOK, Ending!ConstantsDiffer
<1>. QED BY <1>1, <1>7

(***************************************************************************)
(* A reply waits, an edit writes only the post, and a mark is newer than   *)
(* everything published.                                                   *)
(***************************************************************************)
LEMMA EndingReplied ==
  ASSUME Ending!IInv, Ending!ConstantsDiffer, NEW u \in Updates,
         NEW word \in (Ending!Words \ {"UNSPECIFIED"}) \cup {None}, Ending!Reply(u, word)
  PROVE  Ending!IInv' /\ said' = said
<1> DEFINE new == [word |-> word, status |-> "PENDING", before |-> None, approvedAt |-> None]
<1>1. new \in Ending!Update /\ new.status = "PENDING" /\ new.before = None /\ new.approvedAt = None
  BY DEF Ending!Update, Ending!Date
<1>2. updates' = [updates EXCEPT ![u] = new] /\ updates[u] = None
      /\ UNCHANGED <<tags, outcome, resolvedAt, stamps, said>>
  BY DEF Ending!Reply
<1> HIDE DEF new
<1>3. /\ updates' \in [Updates -> Ending!Update \cup {None}] /\ updates'[u] = new
      /\ \A other \in Updates \ {u} : updates'[other] = updates[other]
  BY <1>1, <1>2 DEF Ending!IInv, Ending!TypeOK
<1>4. Ending!DateInv(u)' /\ Ending!SaidInv(u)'
  BY <1>1, <1>2, <1>3 DEF Ending!DateInv, Ending!SaidInv, Ending!IInv, Ending!ConstantsDiffer
<1>. QED BY <1>2, <1>3, <1>4, EndingKept DEF OthersStay, Ending!IInv, Ending!TypeOK,
    Ending!ConstantsDiffer

LEMMA EndingEdited ==
  ASSUME Ending!IInv, Ending!ConstantsDiffer, NEW named1 \in Ending!Tags, NEW resolved \in BOOLEAN,
         NEW noProblems \in BOOLEAN, Ending!Edit(named1, resolved, noProblems)
  PROVE  Ending!IInv' /\ said' = said
<1>1. outcome' \in Ending!Words
  BY DEF Ending!IInv, Ending!TypeOK, Ending!Edit, Ending!EditedOutcome, Ending!OutcomeForProblems,
      Ending!Words
<1>. QED
  BY <1>1 DEF Ending!Edit, Ending!IInv, Ending!TypeOK, Ending!DateInv, Ending!SaidInv

LEMMA EndingMarked ==
  ASSUME Ending!IInv, Ending!ConstantsDiffer, Ending!MarkResolved
  PROVE  Ending!IInv' /\ Ending!Sets' \subseteq said'
<1>1. /\ resolvedAt' = stamps + 1 /\ stamps' = stamps + 1 /\ stamps < MaxStamps
      /\ said' =
           {u \in Updates : updates[u] # None /\ "APPROVED" \in {updates[u].status, updates[u].before}}
      /\ UNCHANGED <<tags, outcome, updates>>
  BY DEF Ending!MarkResolved, Ending!Now, Ending!Stamp
<1>2. Ending!TypeOK' /\ resolvedAt' \in 1..stamps'
  BY <1>1 DEF Ending!IInv, Ending!TypeOK, Ending!Date, Ending!Dates, Ending!ConstantsDiffer
<1>3. ASSUME NEW u \in Updates PROVE Ending!DateInv(u)' /\ Ending!SaidInv(u)'
  <2>1. Ending!DateInv(u) /\ stamps \in Nat
    BY DEF Ending!IInv, Ending!TypeOK, Ending!ConstantsDiffer
  <2>. QED BY <1>1, <2>1 DEF Ending!DateInv, Ending!SaidInv
<1>. QED BY <1>1, <1>2, <1>3 DEF Ending!IInv, Ending!Sets

LEMMA EndingUndone ==
  ASSUME Ending!IInv, Ending!ConstantsDiffer, Ending!UndoResolved
  PROVE  Ending!IInv' /\ resolvedAt' = None
BY DEF Ending!UndoResolved, Ending!IInv, Ending!TypeOK, Ending!DateInv, Ending!SaidInv, Ending!Date

LEMMA EndingStutter == ASSUME Ending!IInv, UNCHANGED ending PROVE Ending!IInv'
BY DEF ending, Ending!IInv, Ending!TypeOK, Ending!DateInv, Ending!SaidInv

LEMMA EndingInit == ASSUME Ending!ConstantsDiffer PROVE Ending!Init => Ending!IInv
BY DEF Ending!Init, Ending!IInv, Ending!TypeOK, Ending!DateInv, Ending!SaidInv, Ending!Date,
    Ending!Words,
       Ending!OutcomeForProblems, Ending!ConstantsDiffer

(***************************************************************************)
(* So every step keeps the invariant, and publishes nothing said before    *)
(* the mark under a new date.                                              *)
(***************************************************************************)
LEMMA EndingStep ==
  ASSUME Ending!IInv, Ending!ConstantsDiffer, Ending!Next
  PROVE  /\ Ending!IInv'
         /\ resolvedAt # None =>
              resolvedAt' = None \/ (\A u \in Ending!Sets' : u \in said => u \in said')
<1>1. ASSUME NEW u \in Updates,
             NEW status1 \in {"PENDING", "APPROVED", "REJECTED"}, Ending!Decide(u, status1)
      PROVE  /\ Ending!IInv'
             /\ resolvedAt # None => \A v \in Ending!Sets' : v \in said => v \in said'
  BY <1>1, EndingDecided DEF Ending!Sets
<1>. QED
  BY <1>1, EndingWithdrawn, EndingReplied, EndingEdited, EndingMarked, EndingUndone DEF Ending!Next

(***************************************************************************)
(* A mark that stops standing was undone, or an update not published       *)
(* before it speaks (experienceQueries.ts:80).                             *)
(***************************************************************************)
LEMMA ResolutionStands ==
  ASSUME Ending!IInv, Ending!ConstantsDiffer, Ending!Next \/ UNCHANGED ending,
         Ending!ModeratorResolutionStands, ~Ending!ModeratorResolutionStands'
  PROVE  resolvedAt' = None \/ \E u \in Ending!Sets' : u \notin said
<1>1. Ending!IInv'
  BY EndingStep, EndingStutter
<1>2. resolvedAt # None
  BY DEF Ending!ModeratorResolutionStands
<1>3. resolvedAt' = None \/ (\A u \in Ending!Sets' : u \in said => u \in said')
  <2>1. CASE Ending!Next
    BY <1>2, <2>1, EndingStep
  <2>2. CASE UNCHANGED ending
    BY <2>2 DEF ending
  <2>. QED BY <2>1, <2>2
<1>4. \A u \in Ending!Sets' : u \in said' /\ resolvedAt' # None => updates'[u].approvedAt < resolvedAt'
  BY <1>1 DEF Ending!IInv, Ending!SaidInv, Ending!Sets
<1>. QED
  BY <1>3, <1>4 DEF Ending!ModeratorResolutionStands, Ending!LatestUpdate

-----------------------------------------------------------------------------
(* Answers and the timeline *)

\* A product with one factor that is no gain and others that are no loss is no gain.
LEMMA NoGainTimes == \A x, y \in Int : x <= 0 /\ y >= 0 => x * y \in Int /\ x * y <= 0
OBVIOUS

\* What is left of the days an incident counts for is never negative (eventScore.ts).
LEMMA AtLeastZero == \A x \in Int : Facts!Max({0, x}) \in Int /\ Facts!Max({0, x}) >= 0
<1> SUFFICES ASSUME NEW x \in Int PROVE Facts!Max({0, x}) \in Int /\ Facts!Max({0, x}) >= 0
  OBVIOUS
<1>1. \E m \in {0, x} : \A y \in {0, x} : m >= y
  <2>1. CASE x >= 0
    BY <2>1
  <2>2. CASE ~(x >= 0)
    BY <2>2
  <2>. QED BY <2>1, <2>2
<1>2. Facts!Max({0, x}) \in {0, x} /\ \A y \in {0, x} : Facts!Max({0, x}) >= y
  BY <1>1 DEF Facts!Max
<1>. QED BY <1>2

\* Penalties are rounded to integers.
LEMMA RoundIsInt == \A raw \in Int : Facts!Round(raw) \in Int
BY DEF Facts!Round, Facts!Unit, Facts!Window

\* Rounding a penalty does not make a gain of it.
LEMMA RoundedNoGain ==
  ASSUME NEW raw \in Int, raw <= 0
  PROVE  Facts!Round(raw) \in Int /\ Facts!Round(raw) <= 0
BY DEF Facts!Round, Facts!Unit, Facts!Window

\* What an incident that was resolved takes.
LEMMA ResolvedRaw ==
  ASSUME Facts!ConstantsDiffer, today \in Days, NEW i \in Facts!Data,
         i.state = "RESOLVED", i.resolved \in Days, i.outcome \in Closings
  PROVE  Facts!RawPenalty(i) \in Int /\ Facts!RawPenalty(i) <= 0
<1>1. Facts!Unit \in Int /\ Facts!Unit >= 0
  BY DEF Facts!Unit, Facts!Window
<1>2. CASE i.override # None
  <2>1. i.override \in Int /\ i.override <= 0
    BY <1>2 DEF Facts!ConstantsDiffer, Facts!Data
  <2>2. Facts!RawPenalty(i) = i.override * Facts!Unit
    BY <1>2 DEF Facts!RawPenalty
  <2>. QED BY <1>1, <2>1, <2>2, NoGainTimes
<1>3. CASE i.override = None
  <2>1. i.severity \in {"LOW", "MEDIUM", "HIGH", "CRITICAL"}
    BY DEF Facts!ConstantsDiffer, Facts!Data, Facts!FullPenalty
  <2>2. Facts!FullPenalty[i.severity] \in Int /\ Facts!FullPenalty[i.severity] <= 0
    BY <2>1 DEF Facts!FullPenalty
  <2>3. i.outcome \in {"FUNDS_RECOVERED", "USERS_REIMBURSED", "PARTIAL", "FUNDS_LOST", "UNKNOWN"}
    BY DEF Facts!ConstantsDiffer, Facts!ResolutionStep
  <2>4. Facts!ResolutionStep[i.outcome] \in Int /\ Facts!ResolutionStep[i.outcome] >= 0
    BY <2>3 DEF Facts!ResolutionStep
  <2>5. Facts!DecayWindow[i.severity] \in {90, 180, 365, 540}
    BY <2>1 DEF Facts!DecayWindow
  <2>6. /\ Facts!Window \div Facts!DecayWindow[i.severity] \in Int
        /\ Facts!Window \div Facts!DecayWindow[i.severity] >= 0
    BY <2>5 DEF Facts!Window
  <2> DEFINE left == Facts!Max({0, Facts!DecayWindow[i.severity] - (today - i.resolved)})
  <2>7. left \in Int /\ left >= 0
    <3>1. today \in Int /\ i.resolved \in Int
      BY DEF Facts!ConstantsDiffer
    <3>2. Facts!DecayWindow[i.severity] - (today - i.resolved) \in Int
      BY <2>5, <3>1
    <3>. QED BY <3>2, AtLeastZero
  <2>8. Facts!RawPenalty(i)
          = Facts!FullPenalty[i.severity] * Facts!ResolutionStep[i.outcome]
              * (Facts!Window \div Facts!DecayWindow[i.severity]) * left
    BY <1>3 DEF Facts!RawPenalty
  <2>. HIDE DEF left
  <2>9. /\ Facts!FullPenalty[i.severity] * Facts!ResolutionStep[i.outcome] \in Int
        /\ Facts!FullPenalty[i.severity] * Facts!ResolutionStep[i.outcome] <= 0
    BY <2>2, <2>4, NoGainTimes
  <2>10. /\ Facts!FullPenalty[i.severity] * Facts!ResolutionStep[i.outcome]
              * (Facts!Window \div Facts!DecayWindow[i.severity]) \in Int
         /\ Facts!FullPenalty[i.severity] * Facts!ResolutionStep[i.outcome]
              * (Facts!Window \div Facts!DecayWindow[i.severity]) <= 0
    BY <2>6, <2>9, NoGainTimes
  <2>. QED BY <2>7, <2>8, <2>10, NoGainTimes
<1>. QED BY <1>2, <1>3

(***************************************************************************)
(* An incident that was resolved counts against its service or not at all. *)
(***************************************************************************)
LEMMA NoGain ==
  ASSUME Facts!ConstantsDiffer, today \in Days, NEW i \in Facts!Data,
         i.state = "RESOLVED", i.resolved \in Days, i.outcome \in Closings
  PROVE  Facts!Penalty(i) \in Int /\ Facts!Penalty(i) <= 0
BY ResolvedRaw, RoundedNoGain DEF Facts!Penalty

\* What can be named at the top is an entry that has to be dealt with, or an incident that still counts.
LEMMA NamedIsOpen ==
  ASSUME Facts!ConstantsDiffer, Facts!IInv, NEW e \in Facts!Alerts \cup Facts!SafetyAnswer.events
  PROVE  /\ e \in Events /\ Facts!Visible(entry, e)
         /\ \/ e \in Facts!Alerts
            \/ e \in Facts!Ongoing
            \/ e \in Facts!Over
            \/ e \in Facts!OpenWarnings
<1>1. \A tone, events, checks, caveats : Facts!Answer(tone, events, checks, caveats).events = events
  BY DEF Facts!Answer
<1>2. Facts!SafetyAnswer.events \subseteq Facts!Ongoing \cup Facts!Over \cup Facts!OpenWarnings
  BY <1>1 DEF Facts!SafetyAnswer
<1>. QED BY <1>2 DEF Facts!Alerts, Facts!Ongoing, Facts!Over, Facts!Active, Facts!Incidents, Facts!OpenWarnings

(***************************************************************************)
(* What the answers and the banners name, the timeline shows unfolded.     *)
(***************************************************************************)
LEMMA NamedIsUnfolded ==
  ASSUME Facts!ConstantsDiffer, Facts!IInv PROVE Facts!AnswersAreShown
<1> SUFFICES ASSUME NEW e \in Facts!Alerts \cup Facts!SafetyAnswer.events
             PROVE  Facts!Visible(entry, e) /\ Facts!Tier(e) # "older"
  BY DEF Facts!AnswersAreShown, Facts!Unfolded
<1>1. e \in Events /\ Facts!Visible(entry, e)
  BY NamedIsOpen
<1>2. entry[e] \in Facts!Entry /\ Facts!EntryInv(e) /\ entry[e] # None
  BY <1>1 DEF Facts!IInv, Facts!Visible
<1>3. CASE entry[e].incident # None
  <2>1. entry[e].class = "INCIDENT" /\ entry[e].incident \in Facts!Data
    BY <1>2, <1>3 DEF Facts!EntryInv, Facts!Entry
  <2>2. CASE entry[e].incident.state = "ONGOING"
    BY <1>1, <1>3, <2>2 DEF Facts!Tier
  <2>3. CASE entry[e].incident.state = "RESOLVED"
    <3>1. e \notin Facts!Ongoing /\ e \notin Facts!OpenWarnings
      BY <2>1, <2>3 DEF Facts!Ongoing, Facts!OpenWarnings
    <3>2. e \notin Facts!Alerts
      BY <1>3, <2>1, <2>3 DEF Facts!Alerts, Facts!Closes, Facts!DisplayKind, Facts!Resolved
    <3>3. Facts!Penalty(entry[e].incident) # 0
      BY <3>1, <3>2, NamedIsOpen DEF Facts!Over, Facts!Active
    <3>4. Facts!Penalty(entry[e].incident) \in Int /\ Facts!Penalty(entry[e].incident) <= 0
      BY <1>2, <1>3, <2>1, <2>3, NoGain DEF Facts!EntryInv, Facts!IInv
    <3>. QED BY <1>1, <1>3, <2>3, <3>3, <3>4 DEF Facts!Tier
  <2>. QED BY <1>1, <2>1, <2>2, <2>3 DEF Facts!Data
<1>4. CASE entry[e].incident = None
  <2>1. entry[e].class = "EVENT"
    BY <1>2, <1>4 DEF Facts!EntryInv, Facts!Entry
  <2>2. e \in Facts!Alerts \cup Facts!OpenWarnings
    BY <1>4, <2>1, NamedIsOpen DEF Facts!Ongoing, Facts!Over, Facts!Active, Facts!Incidents
  <2>3. CASE e \in Facts!OpenWarnings
    BY <1>1, <1>4, <2>3 DEF Facts!OpenWarnings, Facts!Tier, Facts!Closes
  <2>4. CASE e \in Facts!Alerts
    <3>1. Facts!DisplayKind(e) \in {"INFO", "UPDATE", "WARNING", "ALERT"}
      BY <1>2, <2>1 DEF Facts!DisplayKind, Facts!Entry
    <3>2. Facts!Closes(e)
      BY <2>4, <3>1 DEF Facts!Alerts, Facts!ShowBanner, Facts!Closes
    <3>3. Facts!Running(e)
      BY <1>4, <2>4, <3>2 DEF Facts!Alerts, Facts!Resolved, Facts!Running
    <3>. QED BY <1>1, <1>4, <3>2, <3>3 DEF Facts!Tier
  <2>. QED BY <2>2, <2>3, <2>4
<1>. QED BY <1>1, <1>3, <1>4

\* What EntryInv says of a row.
RowInv(new) ==
  /\ new.class = "INCIDENT" <=> new.incident # None
  /\ (new.incident # None /\ new.incident.state = "RESOLVED") =>
        new.incident.resolved \in Days /\ new.incident.outcome \in Closings

\* The event a service starts with fits.
LEMMA FactsInit == ASSUME Facts!ConstantsDiffer PROVE Facts!Init => Facts!IInv
<1> SUFFICES ASSUME Facts!Init PROVE Facts!IInv
  OBVIOUS
<1>1. today \in Days
  BY DEF Facts!Init
<1>2. ASSUME NEW type \in {"ALERT"} \cup Facts!SolvedTypes
      PROVE  Facts!OldEvent(type) \in Facts!Entry /\ RowInv(Facts!OldEvent(type))
  <2>1. PICK yes \in BOOLEAN, no \in BOOLEAN : yes = TRUE /\ no = FALSE
    OBVIOUS
  <2>. QED BY <1>1, <2>1 DEF Facts!OldEvent, Facts!Entry, RowInv
<1>3. entry \in [Events -> {None} \cup {Facts!OldEvent(type) : type \in {"ALERT"} \cup Facts!SolvedTypes}]
  BY DEF Facts!Init
<1>4. ASSUME NEW e \in Events PROVE entry[e] \in Facts!Entry \cup {None} /\ (entry[e] # None => RowInv(entry[e]))
  BY <1>2, <1>3
<1>. QED BY <1>1, <1>3, <1>4 DEF Facts!IInv, Facts!EntryInv, RowInv

\* Writing a row that fits one entry leaves the others as they fit.
LEMMA EntryWritten ==
  ASSUME Facts!IInv, NEW e \in Events, NEW old, NEW new \in Facts!Entry, RowInv(new), Facts!Write(e, old, new)
  PROVE  Facts!IInv'
<1>1. /\ entry \in [Events -> Facts!Entry \cup {None}] /\ entry' = [entry EXCEPT ![e] = new]
      /\ today \in Days /\ today' = today
  BY DEF Facts!IInv, Facts!Write
<1>2. entry' \in [Events -> Facts!Entry \cup {None}]
  BY <1>1
<1>3. ASSUME NEW f \in Events PROVE Facts!EntryInv(f)'
  <2>1. CASE f = e
    BY <1>1, <2>1 DEF Facts!EntryInv, RowInv
  <2>2. CASE f # e
    BY <1>1, <2>2 DEF Facts!EntryInv, Facts!IInv
  <2>. QED BY <2>1, <2>2
<1>. QED BY <1>1, <1>2, <1>3 DEF Facts!IInv, Facts!Entry, Facts!Data

\* What the form of an event makes a row of.
LEMMA FormsFit ==
  ASSUME Facts!ConstantsDiffer, today \in Days, NEW f \in Facts!Forms,
         NEW started \in Days, NEW visible \in BOOLEAN, NEW gone \in BOOLEAN
  PROVE  /\ Facts!Row(f, started, visible, gone) \in Facts!Entry
         /\ RowInv(Facts!Row(f, started, visible, gone))
<1>1. f.kind \in {"INFO", "UPDATE", "WARNING", "INCIDENT"} /\ f.ended \in Days \cup {None}
  BY DEF Facts!Forms, Facts!ConstantsDiffer, Facts!Fields
<1>2. \/ f.kind # "INCIDENT" /\ f.incident = None
      \/ /\ f.kind = "INCIDENT"
         /\ \E s \in Severities, r \in BOOLEAN, o \in Closings, v \in Overrides :
               f.incident = Facts!IncidentData(s, r, o, f.ended, v)
  BY DEF Facts!Forms
<1>3. ASSUME NEW s \in Severities, NEW r \in BOOLEAN, NEW o \in Closings, NEW v \in Overrides
      PROVE  /\ Facts!IncidentData(s, r, o, f.ended, v) \in Facts!Data
             /\ Facts!IncidentData(s, r, o, f.ended, v).state = "RESOLVED" =>
                  /\ Facts!IncidentData(s, r, o, f.ended, v).resolved \in Days
                  /\ Facts!IncidentData(s, r, o, f.ended, v).outcome \in Closings
  <2>1. CASE r = TRUE
    BY <1>1, <2>1 DEF Facts!IncidentData, Facts!Data
  <2>2. CASE r = FALSE
    BY <1>1, <2>2 DEF Facts!IncidentData, Facts!Data
  <2>. QED BY <2>1, <2>2
<1>4. /\ f.incident \in Facts!Data \cup {None} /\ (f.kind = "INCIDENT" <=> f.incident # None)
      /\ (f.incident # None /\ f.incident.state = "RESOLVED") =>
            f.incident.resolved \in Days /\ f.incident.outcome \in Closings
  BY <1>2, <1>3 DEF Facts!ConstantsDiffer
<1>5. /\ Facts!Fields[f.kind].class \in {"EVENT", "INCIDENT"}
      /\ Facts!Fields[f.kind].tone \in {"NEUTRAL", "POSITIVE", "NEGATIVE"}
      /\ Facts!Fields[f.kind].type \in {"INFO", "NORMAL", "WARNING", "ALERT"}
      /\ Facts!Fields[f.kind].class = "INCIDENT" <=> f.kind = "INCIDENT"
  BY <1>1 DEF Facts!Fields
<1>. QED BY <1>1, <1>4, <1>5 DEF Facts!Row, Facts!Entry, RowInv

\* Every action on the events, the service and the clock keeps the rows that fit.
LEMMA FactsStep == ASSUME Facts!ConstantsDiffer PROVE Facts!IInv /\ Facts!Next => Facts!IInv'
<1> SUFFICES ASSUME Facts!IInv, Facts!Next PROVE Facts!IInv'
  OBVIOUS
<1> USE DEF Facts!IInv
<1>1. ASSUME NEW e \in Events, entry[e] # None PROVE entry[e] \in Facts!Entry /\ RowInv(entry[e])
  BY <1>1 DEF Facts!EntryInv, RowInv
<1>2. ASSUME UNCHANGED <<today, entry>> PROVE Facts!IInv'
  BY <1>2 DEF Facts!EntryInv, Facts!Entry, Facts!Data
<1>3. ASSUME NEW e \in Events, NEW f \in Facts!Forms, Facts!CreateEvent(e, f) PROVE Facts!IInv'
  BY <1>3, FormsFit, EntryWritten DEF Facts!CreateEvent
<1>4. ASSUME NEW e \in Events, NEW f \in Facts!Forms, Facts!UpdateEvent(e, f) PROVE Facts!IInv'
  <2>1. entry[e].started \in Days /\ entry[e].visible \in BOOLEAN /\ entry[e].deleted \in BOOLEAN
    BY <1>1, <1>4 DEF Facts!UpdateEvent, Facts!Entry
  <2>. QED BY <1>4, <2>1, FormsFit, EntryWritten DEF Facts!UpdateEvent
<1>5. ASSUME NEW e \in Events, NEW o \in Closings, Facts!Resolve(e, o) PROVE Facts!IInv'
  <2> DEFINE new == [entry[e] EXCEPT !.ended = today, !.incident.state = "RESOLVED",
                                     !.incident.resolved = today, !.incident.outcome = o]
  <2>1. entry[e] \in Facts!Entry /\ entry[e].class = "INCIDENT" /\ entry[e].incident \in Facts!Data
    BY <1>1, <1>5 DEF Facts!Resolve, Facts!Entry, RowInv
  <2>2. PICK data \in Facts!Data :
          data = [entry[e].incident EXCEPT !.state = "RESOLVED", !.resolved = today, !.outcome = o]
    BY <2>1 DEF Facts!Data
  <2>3. data.state = "RESOLVED" /\ data.resolved = today /\ data.outcome = o
    BY <2>1, <2>2 DEF Facts!Data
  <2>4. new = [entry[e] EXCEPT !.ended = today, !.incident = data]
    BY <2>1, <2>2 DEF Facts!Entry, Facts!Data
  <2>5. new \in Facts!Entry /\ new.class = "INCIDENT" /\ new.incident = data
    BY <2>1, <2>4 DEF Facts!Entry
  <2>6. Facts!Write(e, entry[e], new)
    BY <1>5 DEF Facts!Resolve
  <2>. HIDE DEF new
  <2>7. RowInv(new)
    BY <2>3, <2>5 DEF RowInv, Facts!ConstantsDiffer
  <2>. QED BY <2>5, <2>6, <2>7, EntryWritten
<1>6. ASSUME NEW e \in Events, Facts!Toggle(e) \/ Facts!Delete(e) \/ Facts!Restore(e) PROVE Facts!IInv'
  <2>1. PICK visible \in BOOLEAN, gone \in BOOLEAN :
          Facts!Write(e, entry[e], [entry[e] EXCEPT !.visible = visible, !.deleted = gone])
    <3>1. entry[e] \in Facts!Entry
      BY <1>1, <1>6 DEF Facts!Toggle, Facts!Delete, Facts!Restore
    <3>2. CASE Facts!Toggle(e)
      <4>1. PICK shown \in BOOLEAN, kept \in BOOLEAN : shown = ~entry[e].visible /\ kept = entry[e].deleted
        BY <3>1 DEF Facts!Entry
      <4>2. [entry[e] EXCEPT !.visible = shown] = [entry[e] EXCEPT !.visible = shown, !.deleted = kept]
        BY <3>1, <4>1 DEF Facts!Entry
      <4>. QED BY <3>2, <4>1, <4>2 DEF Facts!Toggle
    <3>3. CASE Facts!Delete(e)
      <4>1. [entry[e] EXCEPT !.deleted = TRUE, !.visible = FALSE]
              = [entry[e] EXCEPT !.visible = FALSE, !.deleted = TRUE]
        BY <3>1 DEF Facts!Entry
      <4>. QED BY <3>3, <4>1 DEF Facts!Delete
    <3>4. CASE Facts!Restore(e)
      <4>1. [entry[e] EXCEPT !.deleted = FALSE, !.visible = TRUE]
              = [entry[e] EXCEPT !.visible = TRUE, !.deleted = FALSE]
        BY <3>1 DEF Facts!Entry
      <4>. QED BY <3>4, <4>1 DEF Facts!Restore
    <3>. QED BY <1>6, <3>2, <3>3, <3>4
  <2>2. entry[e] \in Facts!Entry /\ RowInv(entry[e])
    BY <1>1, <1>6 DEF Facts!Toggle, Facts!Delete, Facts!Restore
  <2> DEFINE new == [entry[e] EXCEPT !.visible = visible, !.deleted = gone]
  <2>3. new \in Facts!Entry /\ new.class = entry[e].class /\ new.incident = entry[e].incident
    BY <2>2 DEF Facts!Entry
  <2>. HIDE DEF new
  <2>4. RowInv(new)
    BY <2>2, <2>3 DEF RowInv
  <2>. QED BY <2>1, <2>3, <2>4, EntryWritten DEF new
<1>7. ASSUME Facts!Pass PROVE Facts!IInv'
  BY <1>7 DEF Facts!Pass, Facts!EntryInv, Facts!Entry, Facts!Data
<1>. QED
  BY <1>2, <1>3, <1>4, <1>5, <1>6, <1>7
  DEF Facts!Next, Facts!SaveService, Facts!ChangeAttributes, Facts!Touch, Facts!ForceTriggers,
      Facts!SaveStep, Facts!DeleteStep

\* A step of another part leaves the events alone.
LEMMA FactsStutter == Facts!IInv /\ UNCHANGED facts => Facts!IInv'
BY DEF facts, Facts!IInv, Facts!EntryInv, Facts!Entry, Facts!Data

-----------------------------------------------------------------------------
(* Sums over finite sets *)

\* Of natural numbers there is a least one.
LEMMA NatMin ==
  ASSUME NEW T \in SUBSET Nat, T # {}
  PROVE  \E n \in T : \A m \in T : n <= m
<1>1. PICK n \in T : \A m \in T : ~(<<m, n>> \in OpToRel(<, Nat))
  BY NatLessThanWellFounded, WFMin
<1>2. \A m \in T : ~(m < n)
  BY <1>1 DEF OpToRel
<1>. QED BY <1>2

\* Of finite sets there is a smallest one.
LEMMA SmallestSet ==
  ASSUME NEW F, F # {}, \A s \in F : IsFiniteSet(s)
  PROVE  \E s \in F : \A t \in F : Cardinality(s) <= Cardinality(t)
<1> DEFINE T == {Cardinality(s) : s \in F}
<1>1. T \in SUBSET Nat /\ T # {}
  BY FS_CardinalityType
<1>2. PICK n \in T : \A m \in T : n <= m
  <2>. HIDE DEF T
  <2>. QED BY <1>1, NatMin
<1>. QED BY <1>2

\* What a fold takes out of a set first.
Pick(s) == CHOOSE x_ \in s : TRUE

\* What a fold takes out of a set is in it.
LEMMA PickIn == \A s : s # {} => Pick(s) \in s
BY DEF Pick

\* The function a fold is defined by, and what such functions have to do with sums.
Adds(f, D, g) == g = [s \in SUBSET D |-> IF s = {} THEN 0 ELSE f[Pick(s)] + g[s \ {Pick(s)}]]
SumsOf(f, D, g) ==
  /\ g \in [SUBSET D -> Int] /\ g[{}] = 0
  /\ \A s \in SUBSET D : \A p \in s : g[s] = f[p] + g[s \ {p}]

\* What the sum of the community modules is: a function that takes one of the set at a time.
LEMMA SumIter ==
  ASSUME NEW f, NEW S
  PROVE  Facts!SumFunctionOnSet(f, S) = (CHOOSE g : Adds(f, S, g))[S]
BY DEF Facts!SumFunctionOnSet, Facts!FoldFunctionOnSet, Facts!MapThenFoldSet, Adds, Pick

\* There are sums that do not depend on the order in which they are taken.
LEMMA SumsExist ==
  ASSUME NEW S, IsFiniteSet(S), NEW f \in [S -> Int]
  PROVE  \E g : SumsOf(f, S, g)
<1> DEFINE Bad == {s \in SUBSET S : ~\E g : SumsOf(f, s, g)}
<1> SUFFICES ASSUME Bad # {} PROVE FALSE
  OBVIOUS
<1>1. \A s \in SUBSET S : IsFiniteSet(s) /\ Cardinality(s) \in Nat
  BY FS_Subset, FS_CardinalityType
<1>2. PICK s \in Bad : \A t \in Bad : Cardinality(s) <= Cardinality(t)
  <2>. \A t \in Bad : IsFiniteSet(t)
    BY <1>1
  <2>. HIDE DEF Bad
  <2>. QED BY SmallestSet
<1>3. CASE s = {}
  <2> DEFINE g == [t \in SUBSET s |-> 0]
  <2>1. SumsOf(f, s, g)
    BY <1>3 DEF SumsOf
  <2>. QED BY <2>1
<1>4. CASE s # {}
  <2>1. PICK p \in s : TRUE
    BY <1>4
  <2>2. s \ {p} \in SUBSET S /\ Cardinality(s \ {p}) = Cardinality(s) - 1 /\ Cardinality(s) \in Nat
    BY <1>1, FS_RemoveElement
  <2>3. PICK h : SumsOf(f, s \ {p}, h)
    BY <1>2, <2>2
  <2> DEFINE g == [t \in SUBSET s |-> IF p \in t THEN f[p] + h[t \ {p}] ELSE h[t]]
  <2>4. \A t \in SUBSET (s \ {p}) : h[t] \in Int
    BY <2>3 DEF SumsOf
  <2>5. \A t \in SUBSET s : t \ {p} \in SUBSET (s \ {p}) /\ (p \notin t => t \in SUBSET (s \ {p}))
    OBVIOUS
  <2>6. \A q \in s : f[q] \in Int
    OBVIOUS
  <2>7. g \in [SUBSET s -> Int]
    BY <2>1, <2>4, <2>5, <2>6
  <2>8. g[{}] = 0
    BY <2>3 DEF SumsOf
  <2>9. ASSUME NEW t \in SUBSET s, NEW q \in t PROVE g[t] = f[q] + g[t \ {q}]
    <3>1. t \ {q} \in SUBSET s
      OBVIOUS
    <3>2. CASE q = p
      <4>1. g[t] = f[p] + h[t \ {p}] /\ g[t \ {q}] = h[t \ {p}]
        BY <3>1, <3>2
      <4>. QED BY <3>2, <4>1
    <3>3. CASE q # p /\ p \in t
      <4>1. h[t \ {p}] = f[q] + h[(t \ {p}) \ {q}]
        BY <2>3, <2>5, <3>3 DEF SumsOf
      <4>2. (t \ {p}) \ {q} = (t \ {q}) \ {p}
        OBVIOUS
      <4>3. g[t] = f[p] + h[t \ {p}] /\ g[t \ {q}] = f[p] + h[(t \ {q}) \ {p}]
        BY <3>1, <3>3
      <4>4. h[(t \ {q}) \ {p}] \in Int /\ f[p] \in Int /\ f[q] \in Int
        BY <2>4, <2>5, <2>6, <3>1
      <4>. HIDE DEF g
      <4>5. g[t] = f[p] + (f[q] + h[(t \ {q}) \ {p}])
        BY <4>1, <4>2, <4>3
      <4>. QED BY <4>3, <4>4, <4>5
    <3>4. CASE p \notin t
      <4>1. g[t] = h[t] /\ g[t \ {q}] = h[t \ {q}]
        BY <3>1, <3>4
      <4>2. h[t] = f[q] + h[t \ {q}]
        BY <2>3, <2>5, <3>4 DEF SumsOf
      <4>. QED BY <4>1, <4>2
    <3>. QED BY <3>2, <3>3, <3>4
  <2>. HIDE DEF g
  <2>10. SumsOf(f, s, g)
    BY <2>7, <2>8, <2>9 DEF SumsOf
  <2>. QED BY <2>10
<1>. QED BY <1>3, <1>4

\* Sums taken in the order of the fold are these sums.
LEMMA SumsUnique ==
  ASSUME NEW S, IsFiniteSet(S), NEW f \in [S -> Int], NEW g, NEW h, SumsOf(f, S, g), Adds(f, S, h)
  PROVE  h = g
<1> DEFINE Bad == {s \in SUBSET S : g[s] # h[s]}
<1>1. \A s \in SUBSET S : IsFiniteSet(s) /\ Cardinality(s) \in Nat
  BY FS_Subset, FS_CardinalityType
<1>2. \A s \in SUBSET S : h[s] = IF s = {} THEN 0 ELSE f[Pick(s)] + h[s \ {Pick(s)}]
  BY DEF Adds
<1>3. ASSUME Bad # {} PROVE FALSE
  <2>1. PICK s \in Bad : \A t \in Bad : Cardinality(s) <= Cardinality(t)
    <3>. \A t \in Bad : IsFiniteSet(t)
      BY <1>1
    <3>. HIDE DEF Bad
    <3>. QED BY SmallestSet, <1>3
  <2>2. s # {}
    BY <1>2 DEF SumsOf
  <2> DEFINE p == Pick(s)
  <2>3. p \in s
    BY <2>2, PickIn
  <2>. HIDE DEF p
  <2>4. s \ {p} \in SUBSET S /\ Cardinality(s \ {p}) = Cardinality(s) - 1 /\ Cardinality(s) \in Nat
    BY <1>1, <2>3, FS_RemoveElement
  <2>5. g[s \ {p}] = h[s \ {p}]
    BY <2>1, <2>4
  <2>6. h[s] = f[p] + h[s \ {p}]
    BY <1>2, <2>2 DEF p
  <2>7. g[s] = f[p] + g[s \ {p}]
    BY <2>3 DEF SumsOf
  <2>. QED BY <2>5, <2>6, <2>7
<1>4. DOMAIN h = SUBSET S /\ h = [s \in SUBSET S |-> h[s]]
  BY DEF Adds
<1>5. g = [s \in SUBSET S |-> g[s]]
  BY DEF SumsOf
<1>. QED BY <1>3, <1>4, <1>5

\* The sum over any part of a finite set is one of these sums.
LEMMA Sums ==
  ASSUME NEW S, IsFiniteSet(S), NEW f \in [S -> Int]
  PROVE  \E g : SumsOf(f, S, g) /\ \A s \in SUBSET S : Facts!SumFunctionOnSet(f, s) = g[s]
<1>1. PICK g : SumsOf(f, S, g)
  BY SumsExist
<1>2. ASSUME NEW s \in SUBSET S PROVE Facts!SumFunctionOnSet(f, s) = g[s]
  <2> DEFINE r == [q \in s |-> f[q]]
             k == [t \in SUBSET s |-> g[t]]
             h == CHOOSE h : Adds(f, s, h)
  <2>1. SumsOf(f, s, k)
    BY <1>1 DEF SumsOf
  <2>2. SumsOf(r, s, k)
    BY <2>1 DEF SumsOf
  <2>3. Adds(f, s, k)
    <3>1. \A t \in SUBSET s : k[t] = IF t = {} THEN 0 ELSE f[Pick(t)] + k[t \ {Pick(t)}]
      BY <2>1, PickIn DEF SumsOf
    <3>2. k = [t \in SUBSET s |-> k[t]]
      OBVIOUS
    <3>. HIDE DEF k
    <3>. QED BY <3>1, <3>2 DEF Adds
  <2>4. Adds(f, s, h)
    BY <2>3
  <2>5. Adds(r, s, h)
    <3>. HIDE DEF h
    <3>1. \A t \in SUBSET s : t # {} => r[Pick(t)] = f[Pick(t)]
      BY PickIn
    <3>. HIDE DEF r
    <3>2. \A t \in SUBSET s : h[t] = IF t = {} THEN 0 ELSE r[Pick(t)] + h[t \ {Pick(t)}]
      BY <2>4, <3>1 DEF Adds
    <3>3. h = [t \in SUBSET s |-> h[t]]
      BY <2>4 DEF Adds
    <3>. QED BY <3>2, <3>3 DEF Adds
  <2>6. r \in [s -> Int] /\ IsFiniteSet(s)
    BY FS_Subset
  <2>7. h = k
    <3>. HIDE DEF r, k, h
    <3>. QED BY <2>2, <2>5, <2>6, SumsUnique
  <2>8. Facts!SumFunctionOnSet(f, s) = h[s]
    BY SumIter
  <2>. QED BY <2>7, <2>8
<1>. QED BY <1>1, <1>2

\* The sum over nothing, that it is an integer, and what one more adds.
LEMMA SumFacts ==
  ASSUME NEW S, IsFiniteSet(S), NEW f \in [S -> Int]
  PROVE  /\ Facts!SumFunctionOnSet(f, {}) = 0
         /\ \A s \in SUBSET S : Facts!SumFunctionOnSet(f, s) \in Int
         /\ \A s \in SUBSET S : \A p \in S \ s : Facts!SumFunctionOnSet(f, s \cup {p}) = f[p] + Facts!SumFunctionOnSet(f, s)
<1>1. PICK g : SumsOf(f, S, g) /\ \A s \in SUBSET S : Facts!SumFunctionOnSet(f, s) = g[s]
  BY Sums
<1>2. ASSUME NEW s \in SUBSET S, NEW p \in S \ s PROVE Facts!SumFunctionOnSet(f, s \cup {p}) = f[p] + Facts!SumFunctionOnSet(f, s)
  <2>1. s \cup {p} \in SUBSET S /\ (s \cup {p}) \ {p} = s
    OBVIOUS
  <2>2. g[s \cup {p}] = f[p] + g[(s \cup {p}) \ {p}]
    BY <1>1, <2>1 DEF SumsOf
  <2>. QED BY <1>1, <2>1, <2>2
<1>. QED BY <1>1, <1>2 DEF SumsOf

\* Functions that agree on a set have the same sum over it.
LEMMA SumAgrees ==
  ASSUME NEW S, IsFiniteSet(S), NEW f \in [S -> Int], NEW T, IsFiniteSet(T), NEW h \in [T -> Int],
         NEW R \in SUBSET (S \cap T), \A a \in R : f[a] = h[a]
  PROVE  Facts!SumFunctionOnSet(f, R) = Facts!SumFunctionOnSet(h, R)
<1> DEFINE Bad == {s \in SUBSET R : Facts!SumFunctionOnSet(f, s) # Facts!SumFunctionOnSet(h, s)}
<1> SUFFICES ASSUME Bad # {} PROVE FALSE
  OBVIOUS
<1>1. \A s \in SUBSET R : IsFiniteSet(s) /\ Cardinality(s) \in Nat
  BY FS_Subset, FS_CardinalityType
<1>2. PICK s \in Bad : \A t \in Bad : Cardinality(s) <= Cardinality(t)
  <2>. \A t \in Bad : IsFiniteSet(t)
    BY <1>1
  <2>. HIDE DEF Bad
  <2>. QED BY SmallestSet
<1>3. s # {}
  BY SumFacts
<1>4. PICK p \in s : TRUE
  BY <1>3
<1>5. s \ {p} \in SUBSET R /\ Cardinality(s \ {p}) = Cardinality(s) - 1 /\ Cardinality(s) \in Nat
  BY <1>1, FS_RemoveElement
<1>6. Facts!SumFunctionOnSet(f, s \ {p}) = Facts!SumFunctionOnSet(h, s \ {p})
  BY <1>2, <1>5
<1>7. (s \ {p}) \cup {p} = s /\ p \in S \ (s \ {p}) /\ p \in T \ (s \ {p})
  OBVIOUS
<1>8. s \ {p} \in SUBSET S /\ s \ {p} \in SUBSET T
  OBVIOUS
<1>9. Facts!SumFunctionOnSet(f, s) = f[p] + Facts!SumFunctionOnSet(f, s \ {p})
  <2>1. \A t \in SUBSET S : \A q \in S \ t : Facts!SumFunctionOnSet(f, t \cup {q}) = f[q] + Facts!SumFunctionOnSet(f, t)
    BY SumFacts
  <2>2. Facts!SumFunctionOnSet(f, (s \ {p}) \cup {p}) = f[p] + Facts!SumFunctionOnSet(f, s \ {p})
    BY <1>7, <1>8, <2>1
  <2>. QED BY <1>7, <2>2
<1>10. Facts!SumFunctionOnSet(h, s) = h[p] + Facts!SumFunctionOnSet(h, s \ {p})
  <2>1. \A t \in SUBSET T : \A q \in T \ t : Facts!SumFunctionOnSet(h, t \cup {q}) = h[q] + Facts!SumFunctionOnSet(h, t)
    BY SumFacts
  <2>2. Facts!SumFunctionOnSet(h, (s \ {p}) \cup {p}) = h[p] + Facts!SumFunctionOnSet(h, s \ {p})
    BY <1>7, <1>8, <2>1
  <2>. QED BY <1>7, <2>2
<1>. QED BY <1>6, <1>9, <1>10

\* The sum over two sets that do not meet.
LEMMA SumUnion ==
  ASSUME NEW S, IsFiniteSet(S), NEW f \in [S -> Int], NEW A \in SUBSET S, NEW B \in SUBSET S, A \cap B = {}
  PROVE  Facts!SumFunctionOnSet(f, A \cup B) = Facts!SumFunctionOnSet(f, A) + Facts!SumFunctionOnSet(f, B)
<1> DEFINE Bad == {s \in SUBSET B : Facts!SumFunctionOnSet(f, A \cup s) # Facts!SumFunctionOnSet(f, A) + Facts!SumFunctionOnSet(f, s)}
<1> SUFFICES ASSUME Bad # {} PROVE FALSE
  OBVIOUS
<1>1. \A s \in SUBSET B : IsFiniteSet(s) /\ Cardinality(s) \in Nat
  BY FS_Subset, FS_CardinalityType
<1>2. PICK s \in Bad : \A t \in Bad : Cardinality(s) <= Cardinality(t)
  <2>. \A t \in Bad : IsFiniteSet(t)
    BY <1>1
  <2>. HIDE DEF Bad
  <2>. QED BY SmallestSet
<1>3. s # {}
  <2>1. Facts!SumFunctionOnSet(f, {}) = 0 /\ Facts!SumFunctionOnSet(f, A) \in Int /\ A \cup {} = A
    BY SumFacts
  <2>2. Facts!SumFunctionOnSet(f, A \cup {}) = Facts!SumFunctionOnSet(f, A) + Facts!SumFunctionOnSet(f, {})
    BY <2>1
  <2>. QED BY <2>2
<1>4. PICK p \in s : TRUE
  BY <1>3
<1> DEFINE r == s \ {p}
<1>5. r \in SUBSET B /\ Cardinality(r) = Cardinality(s) - 1 /\ Cardinality(s) \in Nat
  BY <1>1, FS_RemoveElement
<1>6. Facts!SumFunctionOnSet(f, A \cup r) = Facts!SumFunctionOnSet(f, A) + Facts!SumFunctionOnSet(f, r)
  BY <1>2, <1>5
<1>7. /\ r \cup {p} = s /\ (A \cup r) \cup {p} = A \cup s
      /\ p \in S \ r /\ p \in S \ (A \cup r) /\ r \in SUBSET S /\ A \cup r \in SUBSET S
  OBVIOUS
<1>. HIDE DEF r
<1>8. Facts!SumFunctionOnSet(f, s) = f[p] + Facts!SumFunctionOnSet(f, r)
  BY <1>7, SumFacts
<1>9. Facts!SumFunctionOnSet(f, A \cup s) = f[p] + Facts!SumFunctionOnSet(f, A \cup r)
  <2>1. \A t \in SUBSET S : \A q \in S \ t : Facts!SumFunctionOnSet(f, t \cup {q}) = f[q] + Facts!SumFunctionOnSet(f, t)
    BY SumFacts
  <2>2. Facts!SumFunctionOnSet(f, (A \cup r) \cup {p}) = f[p] + Facts!SumFunctionOnSet(f, A \cup r)
    BY <1>7, <2>1
  <2>. QED BY <1>7, <2>2
<1>10. Facts!SumFunctionOnSet(f, A) \in Int /\ Facts!SumFunctionOnSet(f, r) \in Int /\ f[p] \in Int
  BY <1>7, SumFacts
<1>. QED BY <1>6, <1>8, <1>9, <1>10

-----------------------------------------------------------------------------
(* The ledger *)

\* The page's finite sets are the finite sets.
LEMMA FinitenessIsOne == \A S : Facts!IsFiniteSet(S) <=> IsFiniteSet(S)
BY DEF Facts!IsFiniteSet, IsFiniteSet

\* The total of a field of some of the rows is the sum over them of one function of all rows.
LEMMA TotalIsSum ==
  ASSUME NEW S, IsFiniteSet(S), NEW field, \A a \in S : a[field] \in Int, NEW R \in SUBSET S
  PROVE  Facts!Total(R, field) = Facts!SumFunctionOnSet([a \in S |-> a[field]], R)
<1> DEFINE f == [a \in S |-> a[field]]
           h == [a \in R |-> a[field]]
<1>1. f \in [S -> Int] /\ h \in [R -> Int] /\ IsFiniteSet(R) /\ \A a \in R : f[a] = h[a]
  BY FS_Subset
<1>2. DOMAIN h = R
  OBVIOUS
<1>3. Facts!Total(R, field) = Facts!SumFunctionOnSet(h, R)
  BY <1>2 DEF Facts!Total, Facts!SumFunction
<1>4. R \in SUBSET (S \cap R)
  OBVIOUS
<1>. HIDE DEF f, h
<1>5. Facts!SumFunctionOnSet(f, R) = Facts!SumFunctionOnSet(h, R)
  BY <1>1, <1>4, SumAgrees
<1>. QED BY <1>3, <1>5 DEF f

\* Totals of what has nothing, of what is put together, and of a row more.
LEMMA Totals ==
  ASSUME NEW S, IsFiniteSet(S), NEW field, \A a \in S : a[field] \in Int
  PROVE  /\ \A A \in SUBSET S : Facts!Total(A, field) \in Int
        
         /\ \A A, B \in SUBSET S : A \cap B = {} => Facts!Total(A \cup B, field) = Facts!Total(A, field) + Facts!Total(B, field)
         /\ \A A \in SUBSET S : \A a \in S \ A : Facts!Total(A \cup {a}, field) = Facts!Total(A, field) + a[field]
<1> DEFINE f == [a \in S |-> a[field]]
<1>1. f \in [S -> Int] /\ \A a \in S : f[a] = a[field]
  OBVIOUS
<1>2. \A A \in SUBSET S : Facts!Total(A, field) = Facts!SumFunctionOnSet(f, A)
  BY TotalIsSum
<1>. HIDE DEF f
<1>3. \A A \in SUBSET S : Facts!Total(A, field) \in Int
  BY <1>1, <1>2, SumFacts
<1>4. ASSUME NEW A \in SUBSET S, NEW B \in SUBSET S, A \cap B = {}
      PROVE  Facts!Total(A \cup B, field) = Facts!Total(A, field) + Facts!Total(B, field)
  <2>1. Facts!SumFunctionOnSet(f, A \cup B) = Facts!SumFunctionOnSet(f, A) + Facts!SumFunctionOnSet(f, B)
    BY <1>1, <1>4, SumUnion
  <2>2. A \cup B \in SUBSET S
    OBVIOUS
  <2>. QED BY <1>2, <2>1, <2>2
<1>5. ASSUME NEW A \in SUBSET S, NEW a \in S \ A
      PROVE  Facts!Total(A \cup {a}, field) = Facts!Total(A, field) + a[field]
  <2>1. \A t \in SUBSET S : \A q \in S \ t : Facts!SumFunctionOnSet(f, t \cup {q}) = f[q] + Facts!SumFunctionOnSet(f, t)
    BY <1>1, SumFacts
  <2>2. A \cup {a} \in SUBSET S
    OBVIOUS
  <2>. QED BY <1>1, <1>2, <1>3, <2>1, <2>2
<1>. QED BY <1>3, <1>4, <1>5

\* Rows with the points of an attribute.
Scored(S) == IsFiniteSet(S) /\ \A a \in S : a.privacy \in Int /\ a.trust \in Int

\* The three groups of the ledger are all there is.
LEMMA LedgerIsWhole ==
  ASSUME Scored(Facts!Shown), Facts!TotalPenalty(entry) \in Int
  PROVE  /\ Facts!Ledger["privacy"] = Facts!Total(Facts!Shown, "privacy") + 50
         /\ Facts!Ledger["trust"] = Facts!Total(Facts!Shown, "trust") + 50 + Facts!TotalPenalty(entry)
         /\ Facts!Total(Facts!Shown, "privacy") \in Int /\ Facts!Total(Facts!Shown, "trust") \in Int
<1> DEFINE S == Facts!Shown
           neg == {a \in S : Facts!Points(a) < 0}
           pos == {a \in S : Facts!Points(a) > 0}
           neu == {a \in S : Facts!Points(a) = 0}
<1>1. /\ Facts!Group["Negative"] = neg /\ Facts!Group["Positive"] = pos /\ Facts!Group["Neutral"] = neu
  BY DEF Facts!Group
<1>2. \A a \in S : Facts!Points(a) \in Int
  BY DEF Facts!Points, Scored
<1>3. /\ neg \in SUBSET S /\ pos \in SUBSET S /\ neu \in SUBSET S /\ neg \cup pos \in SUBSET S /\ S \in SUBSET S
      /\ neg \cap pos = {} /\ (neg \cup pos) \cap neu = {} /\ (neg \cup pos) \cup neu = S
  BY <1>2
<1>. HIDE DEF S, neg, pos, neu
<1>4. ASSUME NEW field, \A a \in S : a[field] \in Int
      PROVE  /\ Facts!Total(S, field) = Facts!Total(neg, field) + Facts!Total(pos, field) + Facts!Total(neu, field)
             /\ Facts!Total(neg, field) \in Int /\ Facts!Total(pos, field) \in Int /\ Facts!Total(neu, field) \in Int
  <2>1. IsFiniteSet(S)
    BY DEF Scored, S
  <2>2. \A A \in SUBSET S : Facts!Total(A, field) \in Int
    BY <1>4, <2>1, Totals
  <2>3. \A A, B \in SUBSET S : A \cap B = {} => Facts!Total(A \cup B, field) = Facts!Total(A, field) + Facts!Total(B, field)
    BY <1>4, <2>1, Totals
  <2>4. Facts!Total((neg \cup pos) \cup neu, field) = Facts!Total(neg \cup pos, field) + Facts!Total(neu, field)
    BY <1>3, <2>3
  <2>5. Facts!Total(neg \cup pos, field) = Facts!Total(neg, field) + Facts!Total(pos, field)
    BY <1>3, <2>3
  <2>. QED BY <1>3, <2>2, <2>4, <2>5
<1>. \A a \in S : a["privacy"] \in Int /\ a["trust"] \in Int
  BY DEF Scored, S
<1>5. /\ Facts!Subtotal("Negative")["privacy"] = Facts!Total(neg, "privacy") + 0
      /\ Facts!Subtotal("Positive")["privacy"] = Facts!Total(pos, "privacy") + 0
      /\ Facts!Subtotal("Neutral")["privacy"] = Facts!Total(neu, "privacy") + 50
      /\ Facts!Subtotal("Negative")["trust"] = Facts!Total(neg, "trust") + 0 + Facts!TotalPenalty(entry)
      /\ Facts!Subtotal("Positive")["trust"] = Facts!Total(pos, "trust") + 0 + 0
      /\ Facts!Subtotal("Neutral")["trust"] = Facts!Total(neu, "trust") + 50 + 0
  BY <1>1 DEF Facts!Subtotal
<1>6. \A field \in {"privacy", "trust"} :
        Facts!Ledger[field] = Facts!Subtotal("Negative")[field] + Facts!Subtotal("Positive")[field]
                                + Facts!Subtotal("Neutral")[field]
  BY DEF Facts!Ledger
<1>. QED BY <1>4, <1>5, <1>6 DEF S

\* A set of one attribute of the page itself, or none.
IsOwn(N, slug, privacy, trust) ==
  N = {} \/ \E a : N = {a} /\ a.slug = slug /\ a.privacy = privacy /\ a.trust = trust

\* An attribute as makeNonDbAttributes makes it.
AttributeOf(slug, type, category, privacy, trust) ==
  [slug |-> slug, type |-> type, category |-> category, privacy |-> privacy, trust |-> trust]

\* One such attribute.
LEMMA OwnOne ==
  ASSUME NEW slug, NEW type, NEW category, NEW privacy \in Int, NEW trust \in Int, NEW N,
         N = {AttributeOf(slug, type, category, privacy, trust)}
  PROVE  IsOwn(N, slug, privacy, trust)
<1> DEFINE a == AttributeOf(slug, type, category, privacy, trust)
<1>1. a.slug = slug /\ a.privacy = privacy /\ a.trust = trust
  BY DEF AttributeOf
<1>2. N = {a}
  OBVIOUS
<1>. HIDE DEF a
<1>. QED BY <1>1, <1>2 DEF IsOwn

\* Such sets are finite, and their points integers.
LEMMA OwnFacts ==
  ASSUME NEW N, NEW slug, NEW privacy \in Int, NEW trust \in Int, IsOwn(N, slug, privacy, trust)
  PROVE  IsFiniteSet(N) /\ \A a \in N : a.slug = slug /\ a.privacy \in Int /\ a.trust \in Int
BY FS_EmptySet, FS_Singleton DEF IsOwn

\* What such an attribute adds.
LEMMA OneMore ==
  ASSUME NEW S, Scored(S), NEW A \in SUBSET S, NEW N \in SUBSET S, NEW slug, NEW privacy \in Int, NEW trust \in Int,
         IsOwn(N, slug, privacy, trust), \A a \in A : a.slug # slug
  PROVE  /\ Facts!Total(A \cup N, "privacy") = Facts!Total(A, "privacy") + IF N = {} THEN 0 ELSE privacy
         /\ Facts!Total(A \cup N, "trust") = Facts!Total(A, "trust") + IF N = {} THEN 0 ELSE trust
<1>1. IsFiniteSet(S) /\ \A a \in S : a["privacy"] \in Int /\ a["trust"] \in Int
  BY DEF Scored
<1>2. /\ \A B \in SUBSET S : Facts!Total(B, "privacy") \in Int
     
      /\ \A B \in SUBSET S : \A a \in S \ B : Facts!Total(B \cup {a}, "privacy") = Facts!Total(B, "privacy") + a["privacy"]
  BY <1>1, Totals
<1>3. /\ \A B \in SUBSET S : Facts!Total(B, "trust") \in Int
      /\ \A B \in SUBSET S : \A a \in S \ B : Facts!Total(B \cup {a}, "trust") = Facts!Total(B, "trust") + a["trust"]
  BY <1>1, Totals
<1>4. CASE N = {}
  <2>1. A \cup N = A
    BY <1>4
  <2>. QED BY <1>2, <1>3, <1>4, <2>1
<1>5. CASE N # {}
  <2>1. PICK a : N = {a} /\ a.slug = slug /\ a.privacy = privacy /\ a.trust = trust
    BY <1>5 DEF IsOwn
  <2>2. a \in S \ A
    BY <2>1
  <2>. QED BY <1>2, <1>3, <1>5, <2>1, <2>2
<1>. QED BY <1>4, <1>5

(***************************************************************************)
(* What the page shows adds up to the points of the row, as the triggers   *)
(* count them, and those of the attributes of the database.                *)
(***************************************************************************)
LEMMA ShownAddsUp ==
  ASSUME Facts!ConstantsDiffer, Facts!IInv, Facts!ScoreInv
  PROVE  /\ Scored(Facts!Shown)
         /\ Facts!Total(has, "privacy") \in Int /\ Facts!Total(has, "trust") \in Int
         /\ Facts!Total(Facts!Shown, "privacy")
              = Facts!Total(has, "privacy") + Facts!KycPoints[row.kyc]
                  + (IF row.onion THEN 5 ELSE 0) + (IF row.monero THEN 5 ELSE 0)
         /\ Facts!Total(Facts!Shown, "trust")
              = Facts!Total(has, "trust") + Facts!StatusPoints[status]
                  + (IF recent THEN -10 ELSE 0) + (IF row.tos = "unreadable" THEN -3 ELSE 0)
                  + (IF row.since = None THEN 0
                     ELSE IF ~Facts!Years(row, 1) THEN -4 ELSE IF Facts!Years(row, 2) THEN 5 ELSE 0)
                  + (IF row.registered THEN 2 ELSE 0)
<1> DEFINE S == Facts!Shown
           kyc == Facts!KycPoints[row.kyc]
           N1 == Facts!NonDb("verified", "GOOD", "TRUST", 0, 10, status = "VERIFICATION_SUCCESS")
           N2 == Facts!NonDb("approved", "INFO", "TRUST", 0, 5, status = "APPROVED")
           N3 == Facts!NonDb("community", "WARNING", "TRUST", 0, 0, status = "COMMUNITY_CONTRIBUTED")
           N4 == Facts!NonDb("scam", "BAD", "TRUST", 0, -50, status = "VERIFICATION_FAILED")
           N5 == Facts!NonDb("kyc-level", Facts!KycType[row.kyc], "PRIVACY", Facts!KycPoints[row.kyc], 0, TRUE)
           N6 == Facts!NonDb("recently-approved", "WARNING", "TRUST", 0, -10, recent)
           N7 == Facts!NonDb("cannot-analyse-tos", "WARNING", "TRUST", 0, -3, row.tos = "unreadable")
           N8 == Facts!NonDb("onion-or-i2p", "GOOD", "PRIVACY", 5, 0, row.onion)
           N9 == Facts!NonDb("monero", "GOOD", "PRIVACY", 5, 0, row.monero)
           N10 == Facts!NonDb("new-service", "WARNING", "TRUST", 0, -4, row.since # None /\ ~Facts!Years(row, 1))
           N11 == Facts!NonDb("mature-service", "GOOD", "TRUST", 0, 5, row.since # None /\ Facts!Years(row, 2))
           N12 == Facts!NonDb("registered", "INFO", "TRUST", 0, 2, row.registered)
           A1 == has \cup N1
           A2 == A1 \cup N2
           A3 == A2 \cup N3
           A4 == A3 \cup N4
           A5 == A4 \cup N5
           A6 == A5 \cup N6
           A7 == A6 \cup N7
           A8 == A7 \cup N8
           A9 == A8 \cup N9
           A10 == A9 \cup N10
           A11 == A10 \cup N11
           A12 == A11 \cup N12
<1>1. kyc \in Int /\ row.kyc \in 0..4
  BY DEF Facts!ConstantsDiffer, Facts!ScoreInv, Facts!KycPoints
<1>2. IsOwn(N1, "verified", 0, 10) /\ (N1 = {} <=> ~(status = "VERIFICATION_SUCCESS"))
  <2>1. CASE status = "VERIFICATION_SUCCESS"
    <3>1. N1 = {AttributeOf("verified", "GOOD", "TRUST", 0, 10)}
      BY <2>1 DEF Facts!NonDb, AttributeOf
    <3>. HIDE DEF N1
    <3>2. IsOwn(N1, "verified", 0, 10)
      BY <3>1, OwnOne
    <3>3. N1 # {}
      BY <3>1
    <3>. QED BY Zenon, <2>1, <3>2, <3>3
  <2>2. CASE ~(status = "VERIFICATION_SUCCESS")
    <3>1. N1 = {}
      BY <2>2 DEF Facts!NonDb
    <3>. HIDE DEF N1
    <3>. QED BY Zenon, <2>2, <3>1 DEF IsOwn
  <2>. QED BY <2>1, <2>2
<1>3. IsOwn(N2, "approved", 0, 5) /\ (N2 = {} <=> ~(status = "APPROVED"))
  <2>1. CASE status = "APPROVED"
    <3>1. N2 = {AttributeOf("approved", "INFO", "TRUST", 0, 5)}
      BY <2>1 DEF Facts!NonDb, AttributeOf
    <3>. HIDE DEF N2
    <3>2. IsOwn(N2, "approved", 0, 5)
      BY <3>1, OwnOne
    <3>3. N2 # {}
      BY <3>1
    <3>. QED BY Zenon, <2>1, <3>2, <3>3
  <2>2. CASE ~(status = "APPROVED")
    <3>1. N2 = {}
      BY <2>2 DEF Facts!NonDb
    <3>. HIDE DEF N2
    <3>. QED BY Zenon, <2>2, <3>1 DEF IsOwn
  <2>. QED BY <2>1, <2>2
<1>4. IsOwn(N3, "community", 0, 0) /\ (N3 = {} <=> ~(status = "COMMUNITY_CONTRIBUTED"))
  <2>1. CASE status = "COMMUNITY_CONTRIBUTED"
    <3>1. N3 = {AttributeOf("community", "WARNING", "TRUST", 0, 0)}
      BY <2>1 DEF Facts!NonDb, AttributeOf
    <3>. HIDE DEF N3
    <3>2. IsOwn(N3, "community", 0, 0)
      BY <3>1, OwnOne
    <3>3. N3 # {}
      BY <3>1
    <3>. QED BY Zenon, <2>1, <3>2, <3>3
  <2>2. CASE ~(status = "COMMUNITY_CONTRIBUTED")
    <3>1. N3 = {}
      BY <2>2 DEF Facts!NonDb
    <3>. HIDE DEF N3
    <3>. QED BY Zenon, <2>2, <3>1 DEF IsOwn
  <2>. QED BY <2>1, <2>2
<1>5. IsOwn(N4, "scam", 0, -50) /\ (N4 = {} <=> ~(status = "VERIFICATION_FAILED"))
  <2>1. CASE status = "VERIFICATION_FAILED"
    <3>1. N4 = {AttributeOf("scam", "BAD", "TRUST", 0, -50)}
      BY <2>1 DEF Facts!NonDb, AttributeOf
    <3>. HIDE DEF N4
    <3>2. IsOwn(N4, "scam", 0, -50)
      BY <3>1, OwnOne
    <3>3. N4 # {}
      BY <3>1
    <3>. QED BY Zenon, <2>1, <3>2, <3>3
  <2>2. CASE ~(status = "VERIFICATION_FAILED")
    <3>1. N4 = {}
      BY <2>2 DEF Facts!NonDb
    <3>. HIDE DEF N4
    <3>. QED BY Zenon, <2>2, <3>1 DEF IsOwn
  <2>. QED BY <2>1, <2>2
<1>6. IsOwn(N5, "kyc-level", kyc, 0) /\ N5 # {}
  <2>1. N5 = {AttributeOf("kyc-level", Facts!KycType[row.kyc], "PRIVACY", kyc, 0)}
    BY DEF Facts!NonDb, AttributeOf
  <2>. HIDE DEF N5, kyc
  <2>2. N5 # {}
    BY <2>1
  <2>. QED BY <1>1, <2>1, <2>2, OwnOne
<1>7. IsOwn(N6, "recently-approved", 0, -10) /\ (N6 = {} <=> ~(recent))
  <2>1. CASE recent
    <3>1. N6 = {AttributeOf("recently-approved", "WARNING", "TRUST", 0, -10)}
      BY <2>1 DEF Facts!NonDb, AttributeOf
    <3>. HIDE DEF N6
    <3>2. IsOwn(N6, "recently-approved", 0, -10)
      BY <3>1, OwnOne
    <3>3. N6 # {}
      BY <3>1
    <3>. QED BY Zenon, <2>1, <3>2, <3>3
  <2>2. CASE ~(recent)
    <3>1. N6 = {}
      BY <2>2 DEF Facts!NonDb
    <3>. HIDE DEF N6
    <3>. QED BY Zenon, <2>2, <3>1 DEF IsOwn
  <2>. QED BY <2>1, <2>2
<1>8. IsOwn(N7, "cannot-analyse-tos", 0, -3) /\ (N7 = {} <=> ~(row.tos = "unreadable"))
  <2>1. CASE row.tos = "unreadable"
    <3>1. N7 = {AttributeOf("cannot-analyse-tos", "WARNING", "TRUST", 0, -3)}
      BY <2>1 DEF Facts!NonDb, AttributeOf
    <3>. HIDE DEF N7
    <3>2. IsOwn(N7, "cannot-analyse-tos", 0, -3)
      BY <3>1, OwnOne
    <3>3. N7 # {}
      BY <3>1
    <3>. QED BY Zenon, <2>1, <3>2, <3>3
  <2>2. CASE ~(row.tos = "unreadable")
    <3>1. N7 = {}
      BY <2>2 DEF Facts!NonDb
    <3>. HIDE DEF N7
    <3>. QED BY Zenon, <2>2, <3>1 DEF IsOwn
  <2>. QED BY <2>1, <2>2
<1>9. IsOwn(N8, "onion-or-i2p", 5, 0) /\ (N8 = {} <=> ~(row.onion))
  <2>1. CASE row.onion
    <3>1. N8 = {AttributeOf("onion-or-i2p", "GOOD", "PRIVACY", 5, 0)}
      BY <2>1 DEF Facts!NonDb, AttributeOf
    <3>. HIDE DEF N8
    <3>2. IsOwn(N8, "onion-or-i2p", 5, 0)
      BY <3>1, OwnOne
    <3>3. N8 # {}
      BY <3>1
    <3>. QED BY Zenon, <2>1, <3>2, <3>3
  <2>2. CASE ~(row.onion)
    <3>1. N8 = {}
      BY <2>2 DEF Facts!NonDb
    <3>. HIDE DEF N8
    <3>. QED BY Zenon, <2>2, <3>1 DEF IsOwn
  <2>. QED BY <2>1, <2>2
<1>10. IsOwn(N9, "monero", 5, 0) /\ (N9 = {} <=> ~(row.monero))
  <2>1. CASE row.monero
    <3>1. N9 = {AttributeOf("monero", "GOOD", "PRIVACY", 5, 0)}
      BY <2>1 DEF Facts!NonDb, AttributeOf
    <3>. HIDE DEF N9
    <3>2. IsOwn(N9, "monero", 5, 0)
      BY <3>1, OwnOne
    <3>3. N9 # {}
      BY <3>1
    <3>. QED BY Zenon, <2>1, <3>2, <3>3
  <2>2. CASE ~(row.monero)
    <3>1. N9 = {}
      BY <2>2 DEF Facts!NonDb
    <3>. HIDE DEF N9
    <3>. QED BY Zenon, <2>2, <3>1 DEF IsOwn
  <2>. QED BY <2>1, <2>2
<1>11. IsOwn(N10, "new-service", 0, -4) /\ (N10 = {} <=> ~(row.since # None /\ ~Facts!Years(row, 1)))
  <2>1. CASE row.since # None /\ ~Facts!Years(row, 1)
    <3>1. N10 = {AttributeOf("new-service", "WARNING", "TRUST", 0, -4)}
      BY <2>1 DEF Facts!NonDb, AttributeOf
    <3>. HIDE DEF N10
    <3>2. IsOwn(N10, "new-service", 0, -4)
      BY <3>1, OwnOne
    <3>3. N10 # {}
      BY <3>1
    <3>. QED BY Zenon, <2>1, <3>2, <3>3
  <2>2. CASE ~(row.since # None /\ ~Facts!Years(row, 1))
    <3>1. N10 = {}
      BY <2>2 DEF Facts!NonDb
    <3>. HIDE DEF N10
    <3>. QED BY Zenon, <2>2, <3>1 DEF IsOwn
  <2>. QED BY <2>1, <2>2
<1>12. IsOwn(N11, "mature-service", 0, 5) /\ (N11 = {} <=> ~(row.since # None /\ Facts!Years(row, 2)))
  <2>1. CASE row.since # None /\ Facts!Years(row, 2)
    <3>1. N11 = {AttributeOf("mature-service", "GOOD", "TRUST", 0, 5)}
      BY <2>1 DEF Facts!NonDb, AttributeOf
    <3>. HIDE DEF N11
    <3>2. IsOwn(N11, "mature-service", 0, 5)
      BY <3>1, OwnOne
    <3>3. N11 # {}
      BY <3>1
    <3>. QED BY Zenon, <2>1, <3>2, <3>3
  <2>2. CASE ~(row.since # None /\ Facts!Years(row, 2))
    <3>1. N11 = {}
      BY <2>2 DEF Facts!NonDb
    <3>. HIDE DEF N11
    <3>. QED BY Zenon, <2>2, <3>1 DEF IsOwn
  <2>. QED BY <2>1, <2>2
<1>13. IsOwn(N12, "registered", 0, 2) /\ (N12 = {} <=> ~(row.registered))
  <2>1. CASE row.registered
    <3>1. N12 = {AttributeOf("registered", "INFO", "TRUST", 0, 2)}
      BY <2>1 DEF Facts!NonDb, AttributeOf
    <3>. HIDE DEF N12
    <3>2. IsOwn(N12, "registered", 0, 2)
      BY <3>1, OwnOne
    <3>3. N12 # {}
      BY <3>1
    <3>. QED BY Zenon, <2>1, <3>2, <3>3
  <2>2. CASE ~(row.registered)
    <3>1. N12 = {}
      BY <2>2 DEF Facts!NonDb
    <3>. HIDE DEF N12
    <3>. QED BY Zenon, <2>2, <3>1 DEF IsOwn
  <2>. QED BY <2>1, <2>2
<1>. HIDE DEF N1, N2, N3, N4, N5, N6, N7, N8, N9, N10, N11, N12
<1>14. S = A12
  <2>1. Facts!ListingAttributes = UNION {N1, N2, N3, N4, N5}
    BY DEF Facts!ListingAttributes, N1, N2, N3, N4, N5
  <2>2. Facts!RowAttributes = UNION {N6, N7, N8, N9, N10, N11, N12}
    BY DEF Facts!RowAttributes, N6, N7, N8, N9, N10, N11, N12
  <2>. QED BY <2>1, <2>2 DEF Facts!Shown
<1>15. /\ IsFiniteSet(N1) /\ \A a \in N1 : a.slug = "verified" /\ a.privacy \in Int /\ a.trust \in Int
       /\ IsFiniteSet(N2) /\ \A a \in N2 : a.slug = "approved" /\ a.privacy \in Int /\ a.trust \in Int
       /\ IsFiniteSet(N3) /\ \A a \in N3 : a.slug = "community" /\ a.privacy \in Int /\ a.trust \in Int
       /\ IsFiniteSet(N4) /\ \A a \in N4 : a.slug = "scam" /\ a.privacy \in Int /\ a.trust \in Int
       /\ IsFiniteSet(N5) /\ \A a \in N5 : a.slug = "kyc-level" /\ a.privacy \in Int /\ a.trust \in Int
       /\ IsFiniteSet(N6) /\ \A a \in N6 : a.slug = "recently-approved" /\ a.privacy \in Int /\ a.trust \in Int
       /\ IsFiniteSet(N7) /\ \A a \in N7 : a.slug = "cannot-analyse-tos" /\ a.privacy \in Int /\ a.trust \in Int
       /\ IsFiniteSet(N8) /\ \A a \in N8 : a.slug = "onion-or-i2p" /\ a.privacy \in Int /\ a.trust \in Int
       /\ IsFiniteSet(N9) /\ \A a \in N9 : a.slug = "monero" /\ a.privacy \in Int /\ a.trust \in Int
       /\ IsFiniteSet(N10) /\ \A a \in N10 : a.slug = "new-service" /\ a.privacy \in Int /\ a.trust \in Int
       /\ IsFiniteSet(N11) /\ \A a \in N11 : a.slug = "mature-service" /\ a.privacy \in Int /\ a.trust \in Int
       /\ IsFiniteSet(N12) /\ \A a \in N12 : a.slug = "registered" /\ a.privacy \in Int /\ a.trust \in Int
  <2>1. IsFiniteSet(N1) /\ \A a \in N1 : a.slug = "verified" /\ a.privacy \in Int /\ a.trust \in Int
    BY <1>1, <1>2, OwnFacts
  <2>2. IsFiniteSet(N2) /\ \A a \in N2 : a.slug = "approved" /\ a.privacy \in Int /\ a.trust \in Int
    BY <1>1, <1>3, OwnFacts
  <2>3. IsFiniteSet(N3) /\ \A a \in N3 : a.slug = "community" /\ a.privacy \in Int /\ a.trust \in Int
    BY <1>1, <1>4, OwnFacts
  <2>4. IsFiniteSet(N4) /\ \A a \in N4 : a.slug = "scam" /\ a.privacy \in Int /\ a.trust \in Int
    BY <1>1, <1>5, OwnFacts
  <2>5. IsFiniteSet(N5) /\ \A a \in N5 : a.slug = "kyc-level" /\ a.privacy \in Int /\ a.trust \in Int
    BY <1>1, <1>6, OwnFacts
  <2>6. IsFiniteSet(N6) /\ \A a \in N6 : a.slug = "recently-approved" /\ a.privacy \in Int /\ a.trust \in Int
    BY <1>1, <1>7, OwnFacts
  <2>7. IsFiniteSet(N7) /\ \A a \in N7 : a.slug = "cannot-analyse-tos" /\ a.privacy \in Int /\ a.trust \in Int
    BY <1>1, <1>8, OwnFacts
  <2>8. IsFiniteSet(N8) /\ \A a \in N8 : a.slug = "onion-or-i2p" /\ a.privacy \in Int /\ a.trust \in Int
    BY <1>1, <1>9, OwnFacts
  <2>9. IsFiniteSet(N9) /\ \A a \in N9 : a.slug = "monero" /\ a.privacy \in Int /\ a.trust \in Int
    BY <1>1, <1>10, OwnFacts
  <2>10. IsFiniteSet(N10) /\ \A a \in N10 : a.slug = "new-service" /\ a.privacy \in Int /\ a.trust \in Int
    BY <1>1, <1>11, OwnFacts
  <2>11. IsFiniteSet(N11) /\ \A a \in N11 : a.slug = "mature-service" /\ a.privacy \in Int /\ a.trust \in Int
    BY <1>1, <1>12, OwnFacts
  <2>12. IsFiniteSet(N12) /\ \A a \in N12 : a.slug = "registered" /\ a.privacy \in Int /\ a.trust \in Int
    BY <1>1, <1>13, OwnFacts
  <2>. QED BY <2>1, <2>2, <2>3, <2>4, <2>5, <2>6, <2>7, <2>8, <2>9, <2>10, <2>11, <2>12
<1>16. IsFiniteSet(has) /\ \A a \in has : a.privacy \in Int /\ a.trust \in Int /\ a.slug \notin Facts!OwnSlugs
  <2>1. has \in SUBSET Attributes
    BY DEF Facts!ScoreInv
  <2>2. IsFiniteSet(Attributes) /\ \A a \in Attributes : a.privacy \in Int /\ a.trust \in Int /\ a.slug \notin Facts!OwnSlugs
    BY FinitenessIsOne DEF Facts!ConstantsDiffer
  <2>. QED BY <2>1, <2>2, FS_Subset
<1>17. Scored(S)
  <2>1. IsFiniteSet(A1) /\ \A a \in A1 : a.privacy \in Int /\ a.trust \in Int
    BY <1>15, <1>16, FS_Union
  <2>2. IsFiniteSet(A2) /\ \A a \in A2 : a.privacy \in Int /\ a.trust \in Int
    BY <1>15, <2>1, FS_Union
  <2>3. IsFiniteSet(A3) /\ \A a \in A3 : a.privacy \in Int /\ a.trust \in Int
    BY <1>15, <2>2, FS_Union
  <2>4. IsFiniteSet(A4) /\ \A a \in A4 : a.privacy \in Int /\ a.trust \in Int
    BY <1>15, <2>3, FS_Union
  <2>5. IsFiniteSet(A5) /\ \A a \in A5 : a.privacy \in Int /\ a.trust \in Int
    BY <1>15, <2>4, FS_Union
  <2>6. IsFiniteSet(A6) /\ \A a \in A6 : a.privacy \in Int /\ a.trust \in Int
    BY <1>15, <2>5, FS_Union
  <2>7. IsFiniteSet(A7) /\ \A a \in A7 : a.privacy \in Int /\ a.trust \in Int
    BY <1>15, <2>6, FS_Union
  <2>8. IsFiniteSet(A8) /\ \A a \in A8 : a.privacy \in Int /\ a.trust \in Int
    BY <1>15, <2>7, FS_Union
  <2>9. IsFiniteSet(A9) /\ \A a \in A9 : a.privacy \in Int /\ a.trust \in Int
    BY <1>15, <2>8, FS_Union
  <2>10. IsFiniteSet(A10) /\ \A a \in A10 : a.privacy \in Int /\ a.trust \in Int
    BY <1>15, <2>9, FS_Union
  <2>11. IsFiniteSet(A11) /\ \A a \in A11 : a.privacy \in Int /\ a.trust \in Int
    BY <1>15, <2>10, FS_Union
  <2>12. IsFiniteSet(A12) /\ \A a \in A12 : a.privacy \in Int /\ a.trust \in Int
    BY <1>15, <2>11, FS_Union
  <2>. HIDE DEF A12
  <2>. QED BY <1>14, <2>12 DEF Scored
<1>18. /\ N1 \in SUBSET S /\ N2 \in SUBSET S /\ N3 \in SUBSET S /\ N4 \in SUBSET S /\ N5 \in SUBSET S
       /\ N6 \in SUBSET S /\ N7 \in SUBSET S /\ N8 \in SUBSET S /\ N9 \in SUBSET S /\ N10 \in SUBSET S
       /\ N11 \in SUBSET S /\ N12 \in SUBSET S
       /\ has \in SUBSET S /\ A1 \in SUBSET S /\ A2 \in SUBSET S /\ A3 \in SUBSET S /\ A4 \in SUBSET S
       /\ A5 \in SUBSET S /\ A6 \in SUBSET S /\ A7 \in SUBSET S /\ A8 \in SUBSET S /\ A9 \in SUBSET S
       /\ A10 \in SUBSET S /\ A11 \in SUBSET S /\ A12 \in SUBSET S
  BY <1>14
<1>19. \A a \in A1 : a.slug \notin Facts!OwnSlugs \/ a.slug \in {"verified"}
  BY <1>15, <1>16
<1>20. \A a \in A2 : a.slug \notin Facts!OwnSlugs \/ a.slug \in {"verified", "approved"}
  BY <1>15, <1>19
<1>21. \A a \in A3 : a.slug \notin Facts!OwnSlugs \/ a.slug \in {"verified", "approved", "community"}
  BY <1>15, <1>20
<1>22. \A a \in A4 : a.slug \notin Facts!OwnSlugs \/ a.slug \in {"verified", "approved", "community", "scam"}
  BY <1>15, <1>21
<1>23. \A a \in A5 : a.slug \notin Facts!OwnSlugs \/ a.slug \in {"verified", "approved", "community", "scam", "kyc-level"}
  BY <1>15, <1>22
<1>24. \A a \in A6 : a.slug \notin Facts!OwnSlugs \/ a.slug \in {"verified", "approved", "community", "scam", "kyc-level", "recently-approved"}
  BY <1>15, <1>23
<1>25. \A a \in A7 : a.slug \notin Facts!OwnSlugs \/ a.slug \in {"verified", "approved", "community", "scam", "kyc-level", "recently-approved", "cannot-analyse-tos"}
  BY <1>15, <1>24
<1>26. \A a \in A8 : a.slug \notin Facts!OwnSlugs \/ a.slug \in {"verified", "approved", "community", "scam", "kyc-level", "recently-approved", "cannot-analyse-tos", "onion-or-i2p"}
  BY <1>15, <1>25
<1>27. \A a \in A9 : a.slug \notin Facts!OwnSlugs \/ a.slug \in {"verified", "approved", "community", "scam", "kyc-level", "recently-approved", "cannot-analyse-tos", "onion-or-i2p", "monero"}
  BY <1>15, <1>26
<1>28. \A a \in A10 : a.slug \notin Facts!OwnSlugs \/ a.slug \in {"verified", "approved", "community", "scam", "kyc-level", "recently-approved", "cannot-analyse-tos", "onion-or-i2p", "monero", "new-service"}
  BY <1>15, <1>27
<1>29. \A a \in A11 : a.slug \notin Facts!OwnSlugs \/ a.slug \in {"verified", "approved", "community", "scam", "kyc-level", "recently-approved", "cannot-analyse-tos", "onion-or-i2p", "monero", "new-service", "mature-service"}
  BY <1>15, <1>28
<1>30. \A a \in A12 : a.slug \notin Facts!OwnSlugs \/ a.slug \in {"verified", "approved", "community", "scam", "kyc-level", "recently-approved", "cannot-analyse-tos", "onion-or-i2p", "monero", "new-service", "mature-service", "registered"}
  BY <1>15, <1>29
<1>. HIDE DEF S, kyc, A1, A2, A3, A4, A5, A6, A7, A8, A9, A10, A11, A12
<1>31. /\ Facts!Total(A1, "privacy") = Facts!Total(has, "privacy") + IF N1 = {} THEN 0 ELSE 0
       /\ Facts!Total(A1, "trust") = Facts!Total(has, "trust") + IF N1 = {} THEN 0 ELSE 10
  <2>1. \A a \in has : a.slug # "verified"
    BY <1>16 DEF Facts!OwnSlugs
  <2>. QED BY <1>1, <1>2, <1>17, <1>18, <2>1, OneMore DEF A1
<1>32. /\ Facts!Total(A2, "privacy") = Facts!Total(A1, "privacy") + IF N2 = {} THEN 0 ELSE 0
       /\ Facts!Total(A2, "trust") = Facts!Total(A1, "trust") + IF N2 = {} THEN 0 ELSE 5
  <2>1. \A a \in A1 : a.slug # "approved"
    BY <1>19 DEF Facts!OwnSlugs
  <2>. QED BY <1>1, <1>3, <1>17, <1>18, <2>1, OneMore DEF A2
<1>33. /\ Facts!Total(A3, "privacy") = Facts!Total(A2, "privacy") + IF N3 = {} THEN 0 ELSE 0
       /\ Facts!Total(A3, "trust") = Facts!Total(A2, "trust") + IF N3 = {} THEN 0 ELSE 0
  <2>1. \A a \in A2 : a.slug # "community"
    BY <1>20 DEF Facts!OwnSlugs
  <2>. QED BY <1>1, <1>4, <1>17, <1>18, <2>1, OneMore DEF A3
<1>34. /\ Facts!Total(A4, "privacy") = Facts!Total(A3, "privacy") + IF N4 = {} THEN 0 ELSE 0
       /\ Facts!Total(A4, "trust") = Facts!Total(A3, "trust") + IF N4 = {} THEN 0 ELSE -50
  <2>1. \A a \in A3 : a.slug # "scam"
    BY <1>21 DEF Facts!OwnSlugs
  <2>. QED BY <1>1, <1>5, <1>17, <1>18, <2>1, OneMore DEF A4
<1>35. /\ Facts!Total(A5, "privacy") = Facts!Total(A4, "privacy") + IF N5 = {} THEN 0 ELSE kyc
       /\ Facts!Total(A5, "trust") = Facts!Total(A4, "trust") + IF N5 = {} THEN 0 ELSE 0
  <2>1. \A a \in A4 : a.slug # "kyc-level"
    BY <1>22 DEF Facts!OwnSlugs
  <2>. QED BY <1>1, <1>6, <1>17, <1>18, <2>1, OneMore DEF A5
<1>36. /\ Facts!Total(A6, "privacy") = Facts!Total(A5, "privacy") + IF N6 = {} THEN 0 ELSE 0
       /\ Facts!Total(A6, "trust") = Facts!Total(A5, "trust") + IF N6 = {} THEN 0 ELSE -10
  <2>1. \A a \in A5 : a.slug # "recently-approved"
    BY <1>23 DEF Facts!OwnSlugs
  <2>. QED BY <1>1, <1>7, <1>17, <1>18, <2>1, OneMore DEF A6
<1>37. /\ Facts!Total(A7, "privacy") = Facts!Total(A6, "privacy") + IF N7 = {} THEN 0 ELSE 0
       /\ Facts!Total(A7, "trust") = Facts!Total(A6, "trust") + IF N7 = {} THEN 0 ELSE -3
  <2>1. \A a \in A6 : a.slug # "cannot-analyse-tos"
    BY <1>24 DEF Facts!OwnSlugs
  <2>. QED BY <1>1, <1>8, <1>17, <1>18, <2>1, OneMore DEF A7
<1>38. /\ Facts!Total(A8, "privacy") = Facts!Total(A7, "privacy") + IF N8 = {} THEN 0 ELSE 5
       /\ Facts!Total(A8, "trust") = Facts!Total(A7, "trust") + IF N8 = {} THEN 0 ELSE 0
  <2>1. \A a \in A7 : a.slug # "onion-or-i2p"
    BY <1>25 DEF Facts!OwnSlugs
  <2>. QED BY <1>1, <1>9, <1>17, <1>18, <2>1, OneMore DEF A8
<1>39. /\ Facts!Total(A9, "privacy") = Facts!Total(A8, "privacy") + IF N9 = {} THEN 0 ELSE 5
       /\ Facts!Total(A9, "trust") = Facts!Total(A8, "trust") + IF N9 = {} THEN 0 ELSE 0
  <2>1. \A a \in A8 : a.slug # "monero"
    BY <1>26 DEF Facts!OwnSlugs
  <2>. QED BY <1>1, <1>10, <1>17, <1>18, <2>1, OneMore DEF A9
<1>40. /\ Facts!Total(A10, "privacy") = Facts!Total(A9, "privacy") + IF N10 = {} THEN 0 ELSE 0
       /\ Facts!Total(A10, "trust") = Facts!Total(A9, "trust") + IF N10 = {} THEN 0 ELSE -4
  <2>1. \A a \in A9 : a.slug # "new-service"
    BY <1>27 DEF Facts!OwnSlugs
  <2>. QED BY <1>1, <1>11, <1>17, <1>18, <2>1, OneMore DEF A10
<1>41. /\ Facts!Total(A11, "privacy") = Facts!Total(A10, "privacy") + IF N11 = {} THEN 0 ELSE 0
       /\ Facts!Total(A11, "trust") = Facts!Total(A10, "trust") + IF N11 = {} THEN 0 ELSE 5
  <2>1. \A a \in A10 : a.slug # "mature-service"
    BY <1>28 DEF Facts!OwnSlugs
  <2>. QED BY <1>1, <1>12, <1>17, <1>18, <2>1, OneMore DEF A11
<1>42. /\ Facts!Total(A12, "privacy") = Facts!Total(A11, "privacy") + IF N12 = {} THEN 0 ELSE 0
       /\ Facts!Total(A12, "trust") = Facts!Total(A11, "trust") + IF N12 = {} THEN 0 ELSE 2
  <2>1. \A a \in A11 : a.slug # "registered"
    BY <1>29 DEF Facts!OwnSlugs
  <2>. QED BY <1>1, <1>13, <1>17, <1>18, <2>1, OneMore DEF A12
<1>43. Facts!Total(has, "privacy") \in Int /\ Facts!Total(has, "trust") \in Int
  <2>1. IsFiniteSet(S) /\ \A a \in S : a["privacy"] \in Int /\ a["trust"] \in Int
    BY <1>17 DEF Scored
  <2>. QED BY <1>18, <2>1, Totals
<1>44. Facts!Total(S, "privacy") = Facts!Total(has, "privacy") + kyc + (IF row.onion THEN 5 ELSE 0) + (IF row.monero THEN 5 ELSE 0)
  BY <1>1, <1>6, <1>9, <1>10, <1>14, <1>43, <1>31, <1>32, <1>33, <1>34, <1>35, <1>36, <1>37, <1>38, <1>39,
     <1>40, <1>41, <1>42
<1>45. Facts!StatusPoints[status]
         = (IF N1 = {} THEN 0 ELSE 10) + (IF N2 = {} THEN 0 ELSE 5) + (IF N4 = {} THEN 0 ELSE -50)
  BY <1>2, <1>3, <1>5 DEF Facts!ScoreInv, Facts!Statuses, Facts!StatusPoints
<1>46. (IF N10 = {} THEN 0 ELSE -4) + (IF N11 = {} THEN 0 ELSE 5)
         = IF row.since = None THEN 0 ELSE IF ~Facts!Years(row, 1) THEN -4 ELSE IF Facts!Years(row, 2) THEN 5 ELSE 0
  <2>1. row.since # None /\ Facts!Years(row, 2) => Facts!Years(row, 1)
    <3>1. today \in Int /\ row.since \in Int \cup {None}
      BY DEF Facts!ConstantsDiffer, Facts!IInv, Facts!ScoreInv
    <3>. QED BY <3>1 DEF Facts!Years
  <2>2. CASE row.since = None
    BY <1>11, <1>12, <2>2
  <2>3. CASE row.since # None /\ ~Facts!Years(row, 1)
    BY <1>11, <1>12, <2>1, <2>3
  <2>4. CASE row.since # None /\ Facts!Years(row, 1)
    <3>1. N10 = {}
      BY <1>11, <2>4
    <3>2. CASE Facts!Years(row, 2)
      BY <1>12, <2>4, <3>1, <3>2
    <3>3. CASE ~Facts!Years(row, 2)
      BY <1>12, <2>4, <3>1, <3>3
    <3>. QED BY <3>2, <3>3
  <2>. QED BY <2>2, <2>3, <2>4
<1>47. Facts!Total(S, "trust")
         = Facts!Total(has, "trust")
             + ((IF N1 = {} THEN 0 ELSE 10) + (IF N2 = {} THEN 0 ELSE 5) + (IF N4 = {} THEN 0 ELSE -50))
             + (IF recent THEN -10 ELSE 0) + (IF row.tos = "unreadable" THEN -3 ELSE 0)
             + ((IF N10 = {} THEN 0 ELSE -4) + (IF N11 = {} THEN 0 ELSE 5)) + (IF row.registered THEN 2 ELSE 0)
  BY <1>7, <1>8, <1>13, <1>14, <1>43, <1>31, <1>32, <1>33, <1>34, <1>35, <1>36, <1>37, <1>38, <1>39, <1>40,
     <1>41, <1>42
<1>. QED BY <1>17, <1>43, <1>44, <1>45, <1>46, <1>47 DEF S, kyc

\* What an incident takes is an integer, whether it still runs or not.
LEMMA RawIsInt ==
  ASSUME Facts!ConstantsDiffer, today \in Days, NEW i \in Facts!Data,
         i.state = "RESOLVED" => i.resolved \in Days /\ i.outcome \in Closings
  PROVE  Facts!RawPenalty(i) \in Int
<1>1. Facts!Unit \in Int
  BY DEF Facts!Unit, Facts!Window
<1>2. CASE i.override # None
  <2>1. i.override \in Int
    BY <1>2 DEF Facts!ConstantsDiffer, Facts!Data
  <2>2. Facts!RawPenalty(i) = i.override * Facts!Unit
    BY <1>2 DEF Facts!RawPenalty
  <2>. QED BY <1>1, <2>1, <2>2
<1>3. CASE i.override = None /\ i.state = "ONGOING"
  <2>1. i.severity \in {"LOW", "MEDIUM", "HIGH", "CRITICAL"}
    BY DEF Facts!ConstantsDiffer, Facts!Data, Facts!FullPenalty
  <2>2. Facts!FullPenalty[i.severity] \in Int
    BY <2>1 DEF Facts!FullPenalty
  <2>3. Facts!RawPenalty(i) = Facts!FullPenalty[i.severity] * Facts!Unit
    BY <1>3 DEF Facts!RawPenalty
  <2>. QED BY <1>1, <2>2, <2>3
<1>4. CASE i.state = "RESOLVED"
  BY <1>4, ResolvedRaw
<1>. QED BY <1>2, <1>3, <1>4 DEF Facts!Data

\* The rows that count as incidents, what each takes, and what they take together.
LEMMA PenaltyIsInt ==
  ASSUME Facts!ConstantsDiffer, Facts!IInv
  PROVE  Facts!TotalPenalty(entry) \in Int
<1> DEFINE S == Facts!Incidents(entry)
           f == [e \in S |-> Facts!RawPenalty(entry[e].incident)]
<1>1. ASSUME NEW e \in S PROVE Facts!RawPenalty(entry[e].incident) \in Int
  <2>1. e \in Events /\ entry[e] # None /\ entry[e].incident # None
    BY DEF Facts!Incidents, Facts!Visible
  <2>2. entry[e].incident \in Facts!Data
    BY <2>1 DEF Facts!IInv, Facts!Entry
  <2>3. entry[e].incident.state = "RESOLVED" => entry[e].incident.resolved \in Days /\ entry[e].incident.outcome \in Closings
    BY <2>1 DEF Facts!IInv, Facts!EntryInv
  <2>. QED BY <2>2, <2>3, RawIsInt DEF Facts!IInv
<1>2. f \in [S -> Int] /\ DOMAIN f = S
  BY <1>1
<1>3. IsFiniteSet(S)
  <2>1. IsFiniteSet(Events)
    BY FinitenessIsOne DEF Facts!ConstantsDiffer
  <2>2. S \in SUBSET Events
    BY DEF Facts!Incidents
  <2>. HIDE DEF S
  <2>. QED BY <2>1, <2>2, FS_Subset
<1>4. Facts!TotalPenalty(entry) = Facts!Round(Facts!SumFunctionOnSet(f, S))
  BY <1>2 DEF Facts!TotalPenalty, Facts!SumFunction
<1>. HIDE DEF S, f
<1>5. Facts!SumFunctionOnSet(f, S) \in Int
  <2>1. \A s \in SUBSET S : Facts!SumFunctionOnSet(f, s) \in Int
    BY <1>2, <1>3, SumFacts
  <2>. QED BY <2>1
<1>. QED BY <1>4, <1>5, RoundIsInt

\* Without incidents there is nothing to take.
LEMMA NoPenalty ==
  ASSUME Facts!Incidents(entry) = {} PROVE Facts!TotalPenalty(entry) = 0
<1> DEFINE f == [e \in {} |-> Facts!RawPenalty(entry[e].incident)]
<1>1. Facts!TotalPenalty(entry) = Facts!Round(Facts!SumFunctionOnSet(f, {}))
  <2>1. DOMAIN f = {}
    OBVIOUS
  <2>. QED BY <2>1 DEF Facts!TotalPenalty, Facts!SumFunction
<1>2. PICK none : none = {} /\ f \in [none -> Int] /\ IsFiniteSet(none)
  BY FS_EmptySet
<1>. HIDE DEF f
<1>3. Facts!SumFunctionOnSet(f, {}) = 0
  <2>1. ASSUME NEW S, IsFiniteSet(S), NEW h \in [S -> Int] PROVE Facts!SumFunctionOnSet(h, {}) = 0
    BY <2>1, SumFacts
  <2>. QED BY <1>2, <2>1
<1>4. Facts!Round(0) = 0
  <2>1. Facts!Unit = 3942000
    BY DEF Facts!Unit, Facts!Window
  <2>2. -2 * 0 + 3942000 - 1 = 3941999 /\ 2 * 3942000 = 7884000
    OBVIOUS
  <2>3. 3941999 \div 7884000 = 0
    OBVIOUS
  <2>4. Facts!Round(0) = -(3941999 \div 7884000)
    BY <2>1, <2>2 DEF Facts!Round
  <2>. QED BY <2>3, <2>4
<1>. QED BY <1>1, <1>3, <1>4

\* While the clock stands, the scores of the next state are computed with the clock of this one.
LEMMA ClockStands ==
  ASSUME today' = today
  PROVE  /\ Facts!TotalPenalty(entry)' = Facts!TotalPenalty(entry')
         /\ Facts!Approval(status, approved)' = Facts!Approval(status', approved')
         /\ Facts!PrivacyScore(row, has)' = Facts!PrivacyScore(row', has')
         /\ \A p : Facts!TrustScore(row, status, approved, has, p)' = Facts!TrustScore(row', status', approved', has', p)
<1>1. Facts!TotalPenalty(entry)' = Facts!TotalPenalty(entry')
  BY DEF Facts!TotalPenalty, Facts!Incidents, Facts!Visible, Facts!RawPenalty
<1>2. Facts!Approval(status, approved)' = Facts!Approval(status', approved')
  BY DEF Facts!Approval
<1>3. Facts!PrivacyScore(row, has)' = Facts!PrivacyScore(row', has')
  BY DEF Facts!PrivacyScore
<1>. QED BY <1>1, <1>2, <1>3 DEF Facts!TrustScore, Facts!Approval, Facts!Years


\* Scores that were just written are those of the rows.
LEMMA Rescored ==
  ASSUME Facts!ConstantsDiffer, Facts!IInv, today' = today, row' \in Rows, status' \in Facts!Statuses, has' \subseteq Attributes,
         Facts!Recalculated(row', status', approved', has', Facts!TotalPenalty(entry'))
  PROVE  Facts!ScoreInv'
<1>1. /\ recent' = Facts!Approval(status', approved')
      /\ score'.day = today
      /\ score'.privacy = Facts!PrivacyScore(row', has')
      /\ score'.trust = Facts!TrustScore(row', status', approved', has', Facts!TotalPenalty(entry'))
  BY DEF Facts!Recalculated
<1>2. Facts!TrustScore(row, status, approved, has, Facts!TotalPenalty(entry))'
        = Facts!TrustScore(row', status', approved', has', Facts!TotalPenalty(entry'))
  BY ClockStands DEF Facts!TrustScore, Facts!Approval, Facts!Years
<1>3. today \in Int /\ today \in Days
  BY DEF Facts!IInv, Facts!ConstantsDiffer
<1>. QED BY <1>1, <1>2, <1>3, ClockStands DEF Facts!ScoreInv, Facts!Statuses

\* Scores that were left alone still are those of the rows when nothing they rest on changed.
LEMMA Unscored ==
  ASSUME Facts!ScoreInv, UNCHANGED <<today, row, status, approved, recent, has, score>>,
         Facts!TotalPenalty(entry') = Facts!TotalPenalty(entry)
  PROVE  Facts!ScoreInv'
<1>1. Facts!TrustScore(row, status, approved, has, Facts!TotalPenalty(entry))'
        = Facts!TrustScore(row, status, approved, has, Facts!TotalPenalty(entry))
  BY ClockStands DEF Facts!TrustScore, Facts!Approval, Facts!Years
<1>. QED BY <1>1, ClockStands DEF Facts!ScoreInv, Facts!Statuses

\* An entry that is no incident, before or after it is written, takes nothing.
LEMMA NoIncidentWritten ==
  ASSUME NEW e \in Events, \A d \in Events \ {e} : entry'[d] = entry[d],
         entry[e] = None \/ entry[e].class # "INCIDENT", entry'[e].class # "INCIDENT"
  PROVE  Facts!TotalPenalty(entry') = Facts!TotalPenalty(entry)
<1> DEFINE S == Facts!Incidents(entry)
           f == [d \in S |-> Facts!RawPenalty(entry[d].incident)]
           g == [d \in S |-> Facts!RawPenalty(entry'[d].incident)]
<1>1. e \notin S /\ e \notin Facts!Incidents(entry')
  BY DEF Facts!Incidents, Facts!Visible
<1>2. Facts!Incidents(entry') = S
  BY <1>1 DEF Facts!Incidents, Facts!Visible
<1>3. \A d \in S : entry'[d] = entry[d]
  BY <1>1 DEF Facts!Incidents
<1>4. Facts!TotalPenalty(entry) = Facts!Round(Facts!SumFunction(f))
  BY DEF Facts!TotalPenalty
<1>5. Facts!TotalPenalty(entry') = Facts!Round(Facts!SumFunction(g))
  <2>1. g = [d \in Facts!Incidents(entry') |-> Facts!RawPenalty(entry'[d].incident)]
    BY <1>2
  <2>. HIDE DEF g
  <2>. QED BY <2>1 DEF Facts!TotalPenalty
<1>6. f = g
  BY <1>3
<1>. QED BY <1>4, <1>5, <1>6

\* Writing an event recalculates the scores or changes nothing they rest on.
LEMMA WriteScored ==
  ASSUME Facts!ConstantsDiffer, Facts!IInv, Facts!ScoreInv, NEW e \in Events, NEW old, NEW new,
         entry[e] = None => old = new, entry[e] # None => old = entry[e], Facts!Write(e, old, new)
  PROVE  Facts!ScoreInv'
<1>1. /\ entry' = [entry EXCEPT ![e] = new] /\ UNCHANGED <<today, row, status, approved, has>>
      /\ row \in Rows /\ status \in Facts!Statuses /\ has \subseteq Attributes
  BY DEF Facts!Write, Facts!ScoreInv
<1>2. CASE Facts!Recalculates(old, new)
  <2>1. Facts!Recalculated(row, status, approved, has, Facts!TotalPenalty(entry'))
    BY <1>2 DEF Facts!Write
  <2>2. Facts!Recalculated(row', status', approved', has', Facts!TotalPenalty(entry'))
    BY <1>1, <2>1
  <2>. QED BY <1>1, <2>2, Rescored
<1>3. CASE ~Facts!Recalculates(old, new)
  <2>1. UNCHANGED <<recent, score>>
    BY <1>3 DEF Facts!Write
  <2>2. new.class # "INCIDENT" /\ old.class # "INCIDENT"
    BY <1>3 DEF Facts!Recalculates
  <2>3. entry[e] = None \/ entry[e].class # "INCIDENT"
    BY <2>2
  <2>4. \A d \in Events \ {e} : entry'[d] = entry[d]
    BY <1>1 DEF Facts!IInv
  <2>5. entry'[e].class # "INCIDENT"
    BY <1>1, <2>2 DEF Facts!IInv
  <2>6. Facts!TotalPenalty(entry') = Facts!TotalPenalty(entry)
    BY <2>3, <2>4, <2>5, NoIncidentWritten
  <2>. QED BY <1>1, <2>1, <2>6, Unscored
<1>. QED BY <1>2, <1>3

\* The scores a service starts with.
LEMMA ScoreInit == ASSUME Facts!ConstantsDiffer PROVE Facts!Init => Facts!ScoreInv
<1> SUFFICES ASSUME Facts!Init PROVE Facts!ScoreInv
  OBVIOUS
<1>1. ASSUME NEW e \in Events, entry[e] # None PROVE entry[e].class = "EVENT"
  BY <1>1 DEF Facts!Init, Facts!OldEvent
<1>2. Facts!Incidents(entry) = {}
  BY <1>1 DEF Facts!Incidents, Facts!Visible
<1>3. Facts!TotalPenalty(entry) = 0
  BY <1>2, NoPenalty
<1>4. today \in Days /\ today \in Int
  BY DEF Facts!Init, Facts!ConstantsDiffer
<1>5. /\ row \in Rows /\ status \in Facts!Statuses /\ has = {} /\ recent = Facts!Approval(status, approved)
      /\ score.day = today /\ score.privacy = Facts!PrivacyScore(row, has)
      /\ score.trust = Facts!TrustScore(row, status, approved, has, 0)
  BY DEF Facts!Init
<1>. QED BY <1>3, <1>4, <1>5 DEF Facts!ScoreInv

\* Every action leaves scores of today that are those of the rows.
LEMMA ScoreStep ==
  ASSUME Facts!ConstantsDiffer, Facts!IInv, Facts!ScoreInv, Facts!Next PROVE Facts!ScoreInv'
<1>1. row \in Rows /\ status \in Facts!Statuses /\ has \subseteq Attributes
  BY DEF Facts!ScoreInv
<1>2. ASSUME NEW r \in Rows, NEW s \in Facts!Statuses, Facts!SaveService(r, s) PROVE Facts!ScoreInv'
  <2>1. /\ row' = r /\ status' = s /\ approved' = Facts!Stamped(s) /\ UNCHANGED <<today, has, entry>>
        /\ Facts!Recalculated(r, s, Facts!Stamped(s), has, Facts!TotalPenalty(entry))
    BY <1>2 DEF Facts!SaveService
  <2>2. Facts!Recalculated(row', status', approved', has', Facts!TotalPenalty(entry'))
    BY <2>1
  <2>. QED BY <1>1, <2>1, <2>2, Rescored
<1>3. ASSUME NEW h \in SUBSET Attributes, Facts!ChangeAttributes(h) PROVE Facts!ScoreInv'
  <2>1. /\ has' = h /\ UNCHANGED <<today, row, status, approved, entry>>
        /\ Facts!Recalculated(row, status, approved, h, Facts!TotalPenalty(entry))
    BY <1>3 DEF Facts!ChangeAttributes
  <2>2. Facts!Recalculated(row', status', approved', has', Facts!TotalPenalty(entry'))
    BY <2>1
  <2>. QED BY <1>1, <2>1, <2>2, Rescored
<1>4. ASSUME Facts!Touch PROVE Facts!ScoreInv'
  <2>1. /\ UNCHANGED <<today, row, status, approved, has, entry>>
        /\ Facts!Recalculated(row, status, approved, has, Facts!TotalPenalty(entry))
    BY <1>4 DEF Facts!Touch, Facts!Recalculate
  <2>2. Facts!Recalculated(row', status', approved', has', Facts!TotalPenalty(entry'))
    BY <2>1
  <2>. QED BY <1>1, <2>1, <2>2, Rescored
<1>5. ASSUME NEW e \in Events, NEW f \in Facts!Forms, Facts!CreateEvent(e, f) PROVE Facts!ScoreInv'
  <2>1. ASSUME NEW new, entry[e] = None, Facts!Write(e, new, new) PROVE Facts!ScoreInv'
    BY <2>1, WriteScored
  <2>. QED BY Zenon, <1>5, <2>1 DEF Facts!CreateEvent
<1>6. ASSUME NEW e \in Events, entry[e] # None, NEW new, Facts!Write(e, entry[e], new) PROVE Facts!ScoreInv'
  BY <1>6, WriteScored
<1>7. ASSUME NEW e \in Events, NEW f \in Facts!Forms, Facts!UpdateEvent(e, f) PROVE Facts!ScoreInv'
  BY <1>6, <1>7 DEF Facts!UpdateEvent
<1>8. ASSUME NEW e \in Events, NEW o \in Closings, Facts!Resolve(e, o) PROVE Facts!ScoreInv'
  BY <1>6, <1>8 DEF Facts!Resolve
<1>9. ASSUME NEW e \in Events, Facts!Toggle(e) PROVE Facts!ScoreInv'
  BY <1>6, <1>9 DEF Facts!Toggle
<1>10. ASSUME NEW e \in Events, Facts!Delete(e) PROVE Facts!ScoreInv'
  BY <1>6, <1>10 DEF Facts!Delete
<1>11. ASSUME NEW e \in Events, Facts!Restore(e) PROVE Facts!ScoreInv'
  BY <1>6, <1>11 DEF Facts!Restore
<1>12. ASSUME UNCHANGED <<today, row, status, approved, recent, has, score, entry>> PROVE Facts!ScoreInv'
  BY <1>12, Unscored
<1>13. ASSUME Facts!Pass PROVE Facts!ScoreInv'
  <2>1. PICK day \in {x \in Days : x > today} : today' = day
    BY <1>13 DEF Facts!Pass
  <2>2. score.day \in Days /\ score.day <= today /\ today \in Days
    BY DEF Facts!IInv, Facts!ScoreInv
  <2>3. Days \subseteq Int
    BY DEF Facts!ConstantsDiffer
  <2>4. UNCHANGED <<row, status, has, score>>
    BY <1>13 DEF Facts!Pass
  <2>5. score'.day \in Days /\ score'.day <= today' /\ score'.day # today'
    <3>1. day > today /\ today \in Int /\ day \in Int /\ score.day \in Int
      BY <2>2, <2>3
    <3>. QED BY <2>1, <2>2, <2>4, <3>1
  <2>. QED BY <1>1, <2>4, <2>5 DEF Facts!ScoreInv, Facts!Statuses
<1>. QED
  BY <1>2, <1>3, <1>4, <1>5, <1>7, <1>8, <1>9, <1>10, <1>11, <1>12, <1>13
  DEF Facts!Next, Facts!ForceTriggers, Facts!SaveStep, Facts!DeleteStep

\* A step of another part leaves the scores alone.
LEMMA ScoreStutter == Facts!ScoreInv /\ UNCHANGED facts => Facts!ScoreInv'
BY Unscored DEF facts

(***************************************************************************)
(* While the clock stands the ledger adds up to the scores of the row: the *)
(* page shows what the triggers counted, and groups it without loss.       *)
(***************************************************************************)
LEMMA LedgerFits ==
  ASSUME Facts!ConstantsDiffer, Facts!IInv, Facts!ScoreInv PROVE Facts!LedgerAddsUp
<1> SUFFICES ASSUME score.day = today
             PROVE  score.privacy = Facts!Clamp(Facts!Ledger["privacy"]) /\ score.trust = Facts!Clamp(Facts!Ledger["trust"])
  BY DEF Facts!LedgerAddsUp
<1> DEFINE penalty == Facts!TotalPenalty(entry)
           privacy == Facts!Total(has, "privacy")
           trust == Facts!Total(has, "trust")
           listed == Facts!StatusPoints[status]
           age == IF row.since = None THEN 0
                  ELSE IF ~Facts!Years(row, 1) THEN -4 ELSE IF Facts!Years(row, 2) THEN 5 ELSE 0
<1>1. /\ recent = Facts!Approval(status, approved) /\ score.privacy = Facts!PrivacyScore(row, has)
      /\ score.trust = Facts!TrustScore(row, status, approved, has, penalty)
  BY DEF Facts!ScoreInv
<1>2. penalty \in Int /\ privacy \in Int /\ trust \in Int
  BY PenaltyIsInt, ShownAddsUp
<1>3. /\ Facts!Ledger["privacy"] = Facts!Total(Facts!Shown, "privacy") + 50
      /\ Facts!Ledger["trust"] = Facts!Total(Facts!Shown, "trust") + 50 + penalty
  BY <1>2, ShownAddsUp, LedgerIsWhole
<1>4. listed \in Int /\ age \in Int /\ Facts!KycPoints[row.kyc] \in Int
  BY DEF Facts!ScoreInv, Facts!Statuses, Facts!StatusPoints, Facts!ConstantsDiffer, Facts!KycPoints
<1>5. /\ Facts!Total(Facts!Shown, "privacy")
           = privacy + Facts!KycPoints[row.kyc] + (IF row.onion THEN 5 ELSE 0) + (IF row.monero THEN 5 ELSE 0)
      /\ Facts!Total(Facts!Shown, "trust")
           = trust + listed + (IF recent THEN -10 ELSE 0) + (IF row.tos = "unreadable" THEN -3 ELSE 0)
               + age + (IF row.registered THEN 2 ELSE 0)
  BY ShownAddsUp
<1>6. Facts!PrivacyScore(row, has)
        = Facts!Clamp(50 + Facts!KycPoints[row.kyc] + (IF row.onion THEN 5 ELSE 0) + (IF row.monero THEN 5 ELSE 0) + privacy)
  BY DEF Facts!PrivacyScore
<1>7. Facts!TrustScore(row, status, approved, has, penalty)
        = Facts!Clamp(50 + listed + trust + (IF Facts!Approval(status, approved) THEN -10 ELSE 0)
                        + (IF row.tos = "unreadable" THEN -3 ELSE 0) + age
                        + (IF row.registered THEN 2 ELSE 0) + penalty)
  BY DEF Facts!TrustScore
<1>8. (IF Facts!Approval(status, approved) THEN -10 ELSE 0) = (IF recent THEN -10 ELSE 0)
  BY <1>1
<1>. HIDE DEF penalty, privacy, trust, listed, age
<1>9. 50 + Facts!KycPoints[row.kyc] + (IF row.onion THEN 5 ELSE 0) + (IF row.monero THEN 5 ELSE 0) + privacy
        = Facts!Ledger["privacy"]
  BY <1>2, <1>3, <1>4, <1>5
<1>10. 50 + listed + trust + (IF Facts!Approval(status, approved) THEN -10 ELSE 0)
         + (IF row.tos = "unreadable" THEN -3 ELSE 0) + age + (IF row.registered THEN 2 ELSE 0) + penalty
         = Facts!Ledger["trust"]
  BY <1>2, <1>3, <1>4, <1>5, <1>8
<1>. QED BY <1>1, <1>6, <1>7, <1>9, <1>10

-----------------------------------------------------------------------------
(* What every behaviour of the pages keeps *)

\* The five parts with an invariant of their own.
IPages == Report!IInv /\ Page!IInv /\ Proof!IInv /\ Ending!IInv /\ Facts!IInv /\ Facts!ScoreInv

LEMMA PagesStep ==
  ASSUME IPages, [PagesNext]_<<part, vars, report, page, proof, summary, ending, facts>>
  PROVE  IPages'
<1>1. /\ Report!ConstantsDiffer /\ Page!ConstantsDiffer /\ Proof!ConstantsDiffer
      /\ Ending!ConstantsDiffer /\ Facts!ConstantsDiffer
  BY PagesAssumption
<1>2. Report!Next \/ UNCHANGED report
  BY DEF PagesNext
<1>3. Page!Next \/ UNCHANGED page
  BY DEF PagesNext
<1>4. Proof!Next \/ UNCHANGED proof
  BY DEF PagesNext
<1>5. Ending!Next \/ UNCHANGED ending
  BY DEF PagesNext
<1>6. Report!IInv'
  BY <1>1, <1>2, CaseStep, CaseStutter DEF IPages
<1>7. Page!IInv'
  BY <1>1, <1>3, PageStep, PageStutter DEF IPages
<1>8. Proof!IInv'
  BY <1>1, <1>4, ProofStep, ProofStutter DEF IPages
<1>9. Ending!IInv'
  BY <1>1, <1>5, EndingStep, EndingStutter DEF IPages
<1>10. Facts!Next \/ UNCHANGED facts
  BY DEF PagesNext
<1>11. Facts!IInv'
  BY <1>1, <1>10, FactsStep, FactsStutter DEF IPages
<1>12. Facts!ScoreInv'
  BY <1>1, <1>10, ScoreStep, ScoreStutter DEF IPages
<1>. QED BY <1>6, <1>7, <1>8, <1>9, <1>11, <1>12 DEF IPages

(***************************************************************************)
(* The case keeps dates that say what its status says, a lone edit of the  *)
(* listing keeps what it read, at most one request for proof is open, the  *)
(* updates of an experience keep the order they were published in, an      *)
(* incident that is resolved has the day and the outcome of it, and scores *)
(* of today are those of the rows, whatever the other parts do.            *)
(***************************************************************************)
THEOREM Invariance == PagesSpec => []IPages
<1>1. PagesInit => IPages
  BY PagesAssumption, CaseInit, PageInit, ProofInit, EndingInit, FactsInit, ScoreInit DEF PagesInit, IPages
<1>2. IPages /\ [PagesNext]_<<part, vars, report, page, proof, summary, ending, facts>> => IPages'
  BY PagesStep
<1>. QED BY <1>1, <1>2, PTL DEF PagesSpec

(***************************************************************************)
(* A public case has the date it is listed by, and a date of resolution    *)
(* exactly while it is resolved, whatever two staff members set at once    *)
(* (case.ts:36).                                                           *)
(***************************************************************************)
THEOREM DatesAlwaysMatch == PagesSpec => []DatesMatchStatus
<1>1. IPages => DatesMatchStatus
  BY DEF IPages, Report!IInv, DatesMatchStatus
<1>. QED BY <1>1, Invariance, PTL

(***************************************************************************)
(* Unless two requests overlapped or one failed half-way, every slug the   *)
(* service had leads to it and its proofs are classified by its settings   *)
(* of today (service.ts:350, commentProof.ts:19).                          *)
(***************************************************************************)
THEOREM EditsAlwaysSettle == PagesSpec => []EditsSettle
<1>1. IPages => EditsSettle
  BY PageSettles DEF IPages, EditsSettle
<1>. QED BY <1>1, Invariance, PTL

(***************************************************************************)
(* The filters leave a post out as unproven exactly when its page says     *)
(* that its request was not answered (experienceQueries.ts:52).            *)
(***************************************************************************)
THEOREM SqlAlwaysMirrors == PagesSpec => []SqlMirrorsPage
<1>1. IPages => SqlMirrorsPage
  BY PagesAssumption, FiltersMirror DEF IPages, SqlMirrorsPage
<1>. QED BY <1>1, Invariance, PTL

(***************************************************************************)
(* An event that an answer or a banner at the top of the page names is one *)
(* the timeline shows, and not folded away with the older ones: an         *)
(* incident that still counts has a penalty below zero, since no override  *)
(* staff can set is a gain (serviceTimeline.ts:73, event.ts:40).           *)
(***************************************************************************)
THEOREM AnswersAlwaysShown == PagesSpec => []AnswersAreShown
<1>1. IPages => AnswersAreShown
  BY PagesAssumption, NamedIsUnfolded DEF IPages, AnswersAreShown
<1>. QED BY <1>1, Invariance, PTL

(***************************************************************************)
(* The subtotals of the page add up to the stored scores, whatever was     *)
(* saved, hidden, restored or reclassified, for as long as the clock did   *)
(* not move since the scores were written ([slug].astro:427).              *)
(***************************************************************************)
THEOREM LedgerAlwaysAddsUp == PagesSpec => []LedgerAddsUp
<1>1. IPages => LedgerAddsUp
  BY PagesAssumption, LedgerFits DEF IPages, LedgerAddsUp
<1>. QED BY <1>1, Invariance, PTL

(***************************************************************************)
(* Of the posts of an author that may count, the summary counts one, in    *)
(* every state (experienceQueries.ts:201).                                 *)
(***************************************************************************)
THEOREM VoicesAlwaysCount == PagesSpec => []EveryVoiceCountsOnce
<1>1. EveryVoiceCountsOnce
  BY VoiceCounted DEF EveryVoiceCountsOnce
<1>. QED BY <1>1, PTL

(***************************************************************************)
(* What a moderator marked resolved stays so until it is undone or an      *)
(* update that was not published before says otherwise                     *)
(* (experienceQueries.ts:80, 13_comment_approved_at.sql:10).               *)
(***************************************************************************)
THEOREM ResolutionAlwaysOutlives == PagesSpec => ResolutionOutlivesRestores
<1>1. IPages /\ [PagesNext]_<<part, vars, report, page, proof, summary, ending, facts>>
        => [Ending!ModeratorResolutionStands /\ ~Ending!ModeratorResolutionStands' =>
              resolvedAt' = None \/ \E u \in Ending!Sets' : u \notin said]_(Ending!vars)
  <2> SUFFICES ASSUME IPages, [PagesNext]_<<part, vars, report, page, proof, summary, ending, facts>>,
                      Ending!ModeratorResolutionStands, ~Ending!ModeratorResolutionStands'
               PROVE  resolvedAt' = None \/ \E u \in Ending!Sets' : u \notin said
    OBVIOUS
  <2>1. Ending!Next \/ UNCHANGED ending
    BY DEF PagesNext
  <2>. QED BY <2>1, PagesAssumption, ResolutionStands DEF IPages
<1>. QED BY <1>1, Invariance, PTL DEF PagesSpec, ResolutionOutlivesRestores,
    Ending!ResolutionOutlivesRestores

(***************************************************************************)
(* A behaviour of the whole is one of Incidents, so that what is proved of *)
(* that component holds of the whole.                                      *)
(***************************************************************************)
THEOREM PagesHaveIncidents == PagesSpec => Spec
<1>1. PagesInit => Init
  BY DEF PagesInit
<1>2. [PagesNext]_<<part, vars, report, page, proof, summary, ending, facts>> => [Next]_vars
  BY DEF PagesNext, vars
<1>. QED BY <1>1, <1>2, PTL DEF PagesSpec, Spec
=============================================================================
