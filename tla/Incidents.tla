------------------------------- MODULE Incidents -------------------------------
(***************************************************************************)
(* The events of a service's timeline, the incidents that cost it score,   *)
(* and the case reports that substantiate an incident.  An action reads    *)
(* the event, then writes it in a transaction.  Every such transaction     *)
(* that writes both rows holds them until it commits, and Postgres aborts  *)
(* one of two that wait for each other, so a transaction is one step.      *)
(*                                                                         *)
(* Titles, texts, sources, dates and amounts are left out.                 *)
(***************************************************************************)
EXTENDS Integers

CONSTANTS
  Events,
  Services,
  CaseService,  \* the service a case report is about
  Slots,        \* requests that can be under way at once
  MaxIncidents, \* bound: incident rows ever made
  Purged,       \* an event that was deleted for good: its id is not used again
  None

VARIABLES
  event,        \* "Event"
  incident,     \* "Incident", unique by event
  numbered,     \* the id of the last incident
  link,         \* the incident the case is linked to
  asked,        \* requests between their read and their write
  filed         \* history: the kind each event was last saved as

vars == <<event, incident, numbered, link, asked, filed>>

Kinds == {"INFO", "UPDATE", "WARNING", "INCIDENT"}
Classes == {"CHANGE", "EVENT", "INCIDENT"}
Tones == {"NEUTRAL", "POSITIVE", "NEGATIVE"}

\* eventKindToFields: what a moderator's choice is stored as, and back.
Fields == [INFO     |-> [class |-> "EVENT", tone |-> "NEUTRAL"],
           UPDATE   |-> [class |-> "EVENT", tone |-> "POSITIVE"],
           WARNING  |-> [class |-> "EVENT", tone |-> "NEGATIVE"],
           INCIDENT |-> [class |-> "INCIDENT", tone |-> "NEGATIVE"]]
\* Mutation: the tone first.
KindByTone(row) ==
  CASE row.tone = "NEGATIVE" -> "WARNING"
    [] row.tone = "POSITIVE" -> "UPDATE"
    [] OTHER -> IF row.class = "INCIDENT" THEN "INCIDENT" ELSE "INFO"
EventToKind(row) ==
  CASE row.class = "INCIDENT" -> "INCIDENT"
    [] row.class # "INCIDENT" /\ row.tone = "NEGATIVE" -> "WARNING"
    [] row.class # "INCIDENT" /\ row.tone = "POSITIVE" -> "UPDATE"
    [] OTHER -> "INFO"

Row == [service : Services, origin : {"STAFF", "MONITOR"}, class : Classes, tone : Tones,
        visible : BOOLEAN, deleted : BOOLEAN]
Ids == 1..MaxIncidents
States == {"ONGOING", "RESOLVED"}
Request ==
  {None} \cup [at : {"toggle"}, of : Events, visible : BOOLEAN]
         \cup [at : {"update"}, of : Events, listingEdit : BOOLEAN, kind : Kinds, state : States]
         \cup [at : {"resolve"}, of : Events]
         \cup [at : {"link"}, id : Ids]

Incident == [id : Ids, state : States]

\* No event, a deleted one, no incident and no kind are not an event, an incident or a kind.
ConstantsDiffer ==
  /\ None # Purged
  /\ {None, Purged} \cap Row = {}
  /\ None \notin Incident \cup Kinds
  /\ MaxIncidents \in Nat

ASSUME ConstantsAssumption == ConstantsDiffer

TypeOK ==
  /\ event \in [Events -> Row \cup {None, Purged}]
  /\ incident \in [Events -> Incident \cup {None}]
  /\ numbered \in 0..MaxIncidents
  /\ link \in Ids \cup {None}
  /\ asked \in [Slots -> Request]
  /\ filed \in [Events -> Kinds \cup {None}]

Init ==
  /\ event = [e \in Events |-> None]
  /\ incident = [e \in Events |-> None]
  /\ numbered = 0
  /\ link = None
  /\ asked = [r \in Slots |-> None]
  /\ filed = [e \in Events |-> None]

Exists(e) == event[e] \notin {None, Purged}
HasIncident(e) == incident[e] # None

Ask(r, request) == asked[r] = None /\ asked' = [asked EXCEPT ![r] = request]
Answer(r) == asked' = [asked EXCEPT ![r] = None]

MakeIncident(e, state) ==
  /\ numbered < MaxIncidents
  /\ numbered' = numbered + 1
  /\ incident' = [incident EXCEPT ![e] = [id |-> numbered + 1, state |-> state]]
  /\ UNCHANGED link

\* The case's link is set to null with the row.
DropIncident(e) ==
  /\ incident' = [incident EXCEPT ![e] = None]
  /\ link' = IF HasIncident(e) /\ link = incident[e].id THEN None ELSE link
  /\ UNCHANGED numbered

KeepIncidents == UNCHANGED <<incident, numbered, link>>

-----------------------------------------------------------------------------
(* The timeline *)

Create(e, s, kind, state) ==
  /\ event[e] = None
  /\ event' = [event EXCEPT ![e] = [service |-> s, origin |-> "STAFF", class |-> Fields[kind].class,
                                    tone |-> Fields[kind].tone, visible |-> TRUE, deleted |-> FALSE]]
  /\ filed' = [filed EXCEPT ![e] = kind]
  /\ IF kind = "INCIDENT" THEN MakeIncident(e, state) ELSE KeepIncidents
  /\ UNCHANGED asked

\* trigger_service_events: an edit of the listing is recorded.
RecordChange(e, s) ==
  /\ event[e] = None
  /\ event' = [event EXCEPT ![e] = [service |-> s, origin |-> "MONITOR", class |-> "CHANGE",
                                    tone |-> "NEUTRAL", visible |-> TRUE, deleted |-> FALSE]]
  /\ KeepIncidents
  /\ UNCHANGED <<asked, filed>>

AskToggle(r, e) ==
  /\ Exists(e) /\ ~event[e].deleted
  /\ Ask(r, [at |-> "toggle", of |-> e, visible |-> event[e].visible])
  /\ UNCHANGED <<event, incident, numbered, link, filed>>

At(r, step) == asked[r] # None /\ asked[r].at = step

Toggle(r) ==
  /\ At(r, "toggle") /\ Exists(asked[r].of)
  /\ event' = [event EXCEPT ![asked[r].of].visible = ~asked[r].visible]
  /\ Answer(r)
  /\ KeepIncidents /\ UNCHANGED filed

IsListingEdit(e) == event[e].class = "CHANGE"

AskUpdate(r, e, kind, state) ==
  /\ Exists(e)
  /\ Ask(r, [at |-> "update", of |-> e, listingEdit |-> IsListingEdit(e), kind |-> kind, state |-> state])
  /\ UNCHANGED <<event, incident, numbered, link, filed>>

\* An edit's incident: upserted, or dropped. Mutation: only upserted.
OnlyUpsert(e, kind, state) ==
  CASE kind = "INCIDENT" /\ HasIncident(e) -> /\ incident' = [incident EXCEPT ![e].state = state]
                                              /\ UNCHANGED <<numbered, link>>
    [] kind = "INCIDENT" /\ ~HasIncident(e) -> MakeIncident(e, state)
    [] OTHER -> KeepIncidents
Reconcile(e, kind, state) ==
  CASE kind = "INCIDENT" /\ HasIncident(e) -> /\ incident' = [incident EXCEPT ![e].state = state]
                                              /\ UNCHANGED <<numbered, link>>
    [] kind = "INCIDENT" /\ ~HasIncident(e) -> MakeIncident(e, state)
    [] OTHER -> DropIncident(e)

Update(r) ==
  LET e == asked[r].of
      kind == asked[r].kind IN
  /\ At(r, "update") /\ Exists(e)
  /\ IF asked[r].listingEdit
     THEN KeepIncidents /\ UNCHANGED <<event, filed>>
     ELSE /\ event' = [event EXCEPT ![e].class = Fields[kind].class, ![e].tone = Fields[kind].tone]
          /\ filed' = [filed EXCEPT ![e] = kind]
          /\ Reconcile(e, kind, asked[r].state)
  /\ Answer(r)

AskResolve(r, e) ==
  /\ HasIncident(e)
  /\ Ask(r, [at |-> "resolve", of |-> e])
  /\ UNCHANGED <<event, incident, numbered, link, filed>>

Resolve(r) ==
  /\ At(r, "resolve") /\ HasIncident(asked[r].of)
  /\ incident' = [incident EXCEPT ![asked[r].of].state = "RESOLVED"]
  /\ Answer(r)
  /\ UNCHANGED <<event, numbered, link, filed>>

Delete(e) ==
  /\ Exists(e)
  /\ event' = [event EXCEPT ![e].deleted = TRUE, ![e].visible = FALSE]
  /\ KeepIncidents /\ UNCHANGED <<asked, filed>>

Restore(e) ==
  /\ Exists(e)
  /\ event' = [event EXCEPT ![e].deleted = FALSE, ![e].visible = TRUE]
  /\ KeepIncidents /\ UNCHANGED <<asked, filed>>

Purge(e) ==
  /\ Exists(e)
  /\ event' = [event EXCEPT ![e] = Purged]
  /\ filed' = [filed EXCEPT ![e] = None]
  /\ DropIncident(e)
  /\ UNCHANGED asked

-----------------------------------------------------------------------------
(* The case that substantiates an incident *)

MayBeLinked(e) == event[e].service = CaseService

AskLink(r, e) ==
  /\ HasIncident(e) /\ MayBeLinked(e)
  /\ Ask(r, [at |-> "link", id |-> incident[e].id])
  /\ UNCHANGED <<event, incident, numbered, link, filed>>

LinkIncident(r) ==
  /\ At(r, "link")
  /\ \E e \in Events : HasIncident(e) /\ incident[e].id = asked[r].id
  /\ link' = asked[r].id
  /\ Answer(r)
  /\ UNCHANGED <<event, incident, numbered, filed>>

Unlink ==
  /\ link # None
  /\ link' = None
  /\ UNCHANGED <<event, incident, numbered, asked, filed>>

\* The row went in between, or the transaction was aborted.
Fail(r) ==
  /\ asked[r] # None
  /\ Answer(r)
  /\ UNCHANGED <<event, incident, numbered, link, filed>>

Next ==
  \/ \E e \in Events, s \in Services, kind \in Kinds, state \in States : Create(e, s, kind, state)
  \/ \E e \in Events, s \in Services : RecordChange(e, s)
  \/ \E r \in Slots, e \in Events : AskToggle(r, e) \/ AskResolve(r, e) \/ AskLink(r, e)
  \/ \E r \in Slots, e \in Events, kind \in Kinds, state \in States : AskUpdate(r, e, kind, state)
  \/ \E r \in Slots : Toggle(r) \/ Update(r) \/ Resolve(r) \/ LinkIncident(r) \/ Fail(r)
  \/ \E e \in Events : Delete(e) \/ Restore(e) \/ Purge(e)
  \/ Unlink

Spec == Init /\ [][Next]_vars

-----------------------------------------------------------------------------
(* Properties *)

(***************************************************************************)
(* An event has an incident, which costs the service score, exactly while  *)
(* it is filed as one, whoever edits, resolves or purges it meanwhile      *)
(* (schema.prisma:646); the form shows an event as it was filed            *)
(* (eventKind.ts:29); and a recorded edit of the listing never becomes an  *)
(* entry of the curated timeline by what its form falls back to            *)
(* (event.ts:196).                                                         *)
(***************************************************************************)
IncidentsAreFiled ==
  \A e \in Events :
    /\ HasIncident(e) <=> (Exists(e) /\ event[e].class = "INCIDENT")
    /\ filed[e] # None => EventToKind(event[e]) = filed[e]
    /\ Exists(e) /\ event[e].origin = "MONITOR" => event[e].class = "CHANGE"

-----------------------------------------------------------------------------
(* What every step keeps *)

\* A save that is under way was asked for an event that is there or was; and if it is to
\* write the event's kind, the event is no recorded edit of the listing.
SaveInv(r) ==
  At(r, "update") =>
    LET e == asked[r].of IN
    /\ event[e] # None
    /\ ~asked[r].listingEdit /\ Exists(e) => event[e].class # "CHANGE"

IInv ==
  /\ TypeOK
  /\ \A e \in Events : filed[e] # None => Exists(e)
  /\ \A r \in Slots : SaveInv(r)
  /\ IncidentsAreFiled
=============================================================================
