------------------------------ MODULE ServiceFacts ------------------------------
(***************************************************************************)
(* The page of a service against what the database says of it: the ledger  *)
(* that explains the stored scores, the two answers above it, the timeline *)
(* they link to and the alert on top.  The page is a function of the rows  *)
(* and the clock; the scores are of the last time something recalculated.  *)
(*                                                                         *)
(* Days are numbers.  An instant after it was resolved an incident has     *)
(* decayed a little, so a penalty of exactly a half is rounded towards 0,  *)
(* as both roundings then do.  Left out: titles and texts, the points of   *)
(* attributes, whose changes are queued (ServiceScores), the edits of the  *)
(* listing, which are no entries of the timeline, and requests that        *)
(* overlap (Incidents).                                                    *)
(***************************************************************************)
EXTENDS Integers, Functions, FiniteSetsExt

CONSTANTS
  Rows,        \* what a form may save of the service
  Attributes,  \* records: points, type and category of an attribute a moderator may add
  Events, Steps,
  Findings,    \* what a check may have found
  Dates,       \* bound: the days on which something happens
  Kinds, Severities, Outcomes, Overrides,  \* inputs of the event form
  MinVisible,  \* MIN_VISIBLE_ENTRIES
  None

VARIABLES
  now,
  row,         \* "Service": what its form saves
  status,      \* verificationStatus
  approved,    \* approvedAt
  recent,      \* isRecentlyApproved
  has,         \* its attributes
  score,       \* its scores, and, of history, the penalty in them and the day
  event,       \* "Event" with its "Incident"
  check        \* "VerificationStep"

vars == <<now, row, status, approved, recent, has, score, event, check>>

Statuses == {"VERIFICATION_SUCCESS", "APPROVED", "COMMUNITY_CONTRIBUTED", "VERIFICATION_FAILED"}
StatusPoints == [VERIFICATION_SUCCESS |-> 10, APPROVED |-> 5, COMMUNITY_CONTRIBUTED |-> 0, VERIFICATION_FAILED |-> -50]
Reviewed(s) == s # "COMMUNITY_CONTRIBUTED"
KycPoints == [k \in 0..4 |-> CASE k = 0 -> 25 [] k = 1 -> 10 [] k = 2 -> -5 [] k = 3 -> -15 [] k = 4 -> -25]
KycType == [k \in 0..4 |-> CASE k \in {0, 1} -> "GOOD" [] k \in {2, 3} -> "WARNING" [] k = 4 -> "BAD"]

Clamp(n) == IF n < 0 THEN 0 ELSE IF n > 100 THEN 100 ELSE n
Total(rows, field) == SumFunction([r \in rows |-> r[field]])

-----------------------------------------------------------------------------
(* The penalty of incidents *)

FullPenalty == [LOW |-> -5, MEDIUM |-> -12, HIGH |-> -22, CRITICAL |-> -35]
DecayWindow == [LOW |-> 90, MEDIUM |-> 180, HIGH |-> 365, CRITICAL |-> 540]
ResolutionStep == [FUNDS_RECOVERED |-> 20, USERS_REIMBURSED |-> 30, PARTIAL |-> 50, FUNDS_LOST |-> 75, UNKNOWN |-> 50]
Severity == [LOW |-> 1, MEDIUM |-> 2, HIGH |-> 3, CRITICAL |-> 4]

\* Of a hundred times the smallest number that all the windows divide.
Window == 39420
Unit == 100 * Window

\* rawPenalty, and the terms of the SUM of calculate_trust_score.
RawPenalty(i) ==
  CASE i.override # None -> i.override * Unit
    [] i.override = None /\ i.state = "ONGOING" -> FullPenalty[i.severity] * Unit
    [] OTHER -> FullPenalty[i.severity] * ResolutionStep[i.outcome]
                  * (Window \div DecayWindow[i.severity]) * Max({0, DecayWindow[i.severity] - (now - i.resolved)})

Round(raw) == -((-2 * raw + Unit - 1) \div (2 * Unit))
Penalty(i) == Round(RawPenalty(i))

Visible(ev, e) == ev[e] # None /\ ev[e].visible /\ ~ev[e].deleted
Incidents(ev) == {e \in Events : Visible(ev, e) /\ ev[e].class = "INCIDENT" /\ ev[e].incident # None}
TotalPenalty(ev) == Round(SumFunction([e \in Incidents(ev) |-> RawPenalty(ev[e].incident)]))

-----------------------------------------------------------------------------
(* The scores of the database *)

PrivacyScore(r, h) ==
  Clamp(50 + KycPoints[r.kyc] + (IF r.onion THEN 5 ELSE 0) + (IF r.monero THEN 5 ELSE 0)
           + Total(h, "privacy"))

Years(r, n) == now - r.since >= 365 * n
Approval(s, a) == s = "APPROVED" /\ a # None /\ now - a <= 15

TrustScore(r, s, a, h, penalty) ==
  Clamp(50 + StatusPoints[s] + Total(h, "trust")
           + (IF Approval(s, a) THEN -10 ELSE 0)
           + (IF r.tos = "unreadable" THEN -3 ELSE 0)
           + (IF r.since = None THEN 0 ELSE IF ~Years(r, 1) THEN -4 ELSE IF Years(r, 2) THEN 5 ELSE 0)
           + (IF r.registered THEN 2 ELSE 0)
           + penalty)

\* What the triggers leave, given the rows as the statement leaves them.
Recalculated(r, s, a, h, penalty) ==
  /\ recent' = Approval(s, a)
  /\ score' = [privacy |-> PrivacyScore(r, h), trust |-> TrustScore(r, s, a, h, penalty),
               penalty |-> penalty, day |-> now]

Recalculate == Recalculated(row, status, approved, has, TotalPenalty(event))

-----------------------------------------------------------------------------
(* The page *)

NonDb(slug, type, category, privacy, trust, show) ==
  IF show THEN {[slug |-> slug, type |-> type, category |-> category, privacy |-> privacy, trust |-> trust]} ELSE {}

\* makeNonDbAttributes, of those that are shown: what follows from the listing, and from the rest of the row.
ListingAttributes ==
  UNION {
    NonDb("verified", "GOOD", "TRUST", 0, 10, status = "VERIFICATION_SUCCESS"),
    NonDb("approved", "INFO", "TRUST", 0, 5, status = "APPROVED"),
    NonDb("community", "WARNING", "TRUST", 0, 0, status = "COMMUNITY_CONTRIBUTED"),
    NonDb("scam", "BAD", "TRUST", 0, -50, status = "VERIFICATION_FAILED"),
    NonDb("kyc-level", KycType[row.kyc], "PRIVACY", KycPoints[row.kyc], 0, TRUE)}
RowAttributes ==
  UNION {
    NonDb("recently-approved", "WARNING", "TRUST", 0, -10, recent),
    NonDb("cannot-analyse-tos", "WARNING", "TRUST", 0, -3, row.tos = "unreadable"),
    NonDb("onion-or-i2p", "GOOD", "PRIVACY", 5, 0, row.onion),
    NonDb("monero", "GOOD", "PRIVACY", 5, 0, row.monero),
    NonDb("new-service", "WARNING", "TRUST", 0, -4, row.since # None /\ ~Years(row, 1)),
    NonDb("mature-service", "GOOD", "TRUST", 0, 5, row.since # None /\ Years(row, 2)),
    NonDb("registered", "INFO", "TRUST", 0, 2, row.registered)}

Shown == ListingAttributes \cup RowAttributes \cup has
Points(a) == a.privacy + a.trust

\* The ledger: its groups, and what each of them adds up to.
Group == [Negative |-> {a \in Shown : Points(a) < 0},
          Positive |-> {a \in Shown : Points(a) > 0},
          Neutral  |-> {a \in Shown : Points(a) = 0}]
Subtotal(g) ==
  [privacy |-> Total(Group[g], "privacy") + (IF g = "Neutral" THEN 50 ELSE 0),
   trust |-> Total(Group[g], "trust") + (IF g = "Neutral" THEN 50 ELSE 0)
               + (IF g = "Negative" THEN TotalPenalty(event) ELSE 0)]
Ledger ==
  [f \in {"privacy", "trust"} |-> Subtotal("Negative")[f] + Subtotal("Positive")[f] + Subtotal("Neutral")[f]]

\* Rows of before there were kinds.
SolvedTypes == {"ALERT_SOLVED", "WARNING_SOLVED"}

\* Whether an entry that may close still runs.
Running(e) ==
  CASE event[e].incident # None -> event[e].incident.state # "RESOLVED"
    [] event[e].incident = None /\ event[e].type \in SolvedTypes -> FALSE
    [] OTHER -> event[e].ended = None \/ event[e].ended > now
Resolved(e) ==
  CASE event[e].incident # None -> event[e].incident.state = "RESOLVED"
    [] event[e].incident = None /\ event[e].type \in SolvedTypes -> TRUE
    [] OTHER -> event[e].ended # None /\ event[e].ended > event[e].started /\ event[e].ended <= now

\* eventToDisplayKind
DisplayKind(e) ==
  CASE event[e].class = "EVENT" /\ event[e].tone = "NEGATIVE" -> IF event[e].type \in {"ALERT", "ALERT_SOLVED"} THEN "ALERT" ELSE "WARNING"
    [] event[e].class = "EVENT" /\ event[e].tone = "POSITIVE" -> "UPDATE"
    [] event[e].class = "EVENT" /\ event[e].tone = "NEUTRAL" -> "INFO"
    [] OTHER -> event[e].class
Closes(e) == DisplayKind(e) \in {"WARNING", "ALERT", "INCIDENT"}

\* The alerts on top of the page.
ShowBanner == [k \in {"INFO", "UPDATE", "WARNING", "ALERT", "INCIDENT"} |-> k \notin {"INFO", "UPDATE"}]
Alerts == {e \in Events : Visible(event, e) /\ ShowBanner[DisplayKind(e)] /\ ~(Closes(e) /\ Resolved(e))
                            /\ (event[e].ended = None \/ event[e].ended > now)}

\* The timeline: the tier of an entry, and which of the older ones are folded away.
LastActivity(e) ==
  CASE event[e].incident = None -> IF event[e].ended = None THEN now ELSE event[e].ended
    [] OTHER -> IF event[e].incident.resolved = None THEN now ELSE event[e].incident.resolved

\* Mutation: what was resolved is recent for a year, as every entry.
TierByAge(e) ==
  CASE Running(e) -> "ongoing" [] ~Running(e) /\ now - LastActivity(e) <= 365 -> "recent" [] OTHER -> "older"
Tier(e) ==
  IF event[e].incident # None
  THEN CASE event[e].incident.state = "ONGOING" -> "ongoing"
         [] event[e].incident.state = "RESOLVED" /\ Penalty(event[e].incident) < 0 -> "recent"
         [] OTHER -> "older"
  ELSE CASE Closes(e) /\ Running(e) -> "ongoing"
         [] ~(Closes(e) /\ Running(e)) /\ now - LastActivity(e) <= 365 -> "recent"
         [] OTHER -> "older"

\* Incidents and the rest have a section each; the newest of the older ones fill it.
Section(e) == {f \in Events : Visible(event, f) /\ (event[f].incident = None) = (event[e].incident = None)}
Newer(f, e) ==
  \/ LastActivity(f) > LastActivity(e)
  \/ LastActivity(f) = LastActivity(e) /\ event[f].started > event[e].started
Unfolded(e) ==
  LET older == {f \in Section(e) : Tier(f) = "older"} IN
  \/ Tier(e) # "older"
  \/ Cardinality({f \in older : Newer(f, e)}) < MinVisible - Cardinality(Section(e) \ older)

\* What the safety answer is made of.
Active == {e \in Incidents(event) : Penalty(event[e].incident) # 0}
Ongoing == {e \in Active : event[e].incident.state = "ONGOING"}
Over == {e \in Active : event[e].incident.state = "RESOLVED"}
OpenWarnings == {e \in Events : Visible(event, e) /\ event[e].class = "EVENT" /\ Running(e) /\ DisplayKind(e) \in {"WARNING", "ALERT"}}
Tone == [LOW |-> "none", MEDIUM |-> "caution", HIGH |-> "bad", CRITICAL |-> "bad"]
WorstOngoing == CHOOSE s \in {event[e].incident.severity : e \in Ongoing} :
                  \A e \in Ongoing : Severity[event[e].incident.severity] <= Severity[s]
Serious == Ongoing # {} /\ Tone[WorstOngoing] # "none"
FlaggedChecks == {s \in Steps : check[s] # None /\ check[s].banner /\ check[s].status \in {"FAILED", "WARNING"}}

\* pickCaveats
Caveats(category) ==
  {a \in Shown : a.type \in {"BAD", "WARNING"} /\ Points(a) # 0 /\ a.category = category}

Answer(tone, events, checks, caveats) == [tone |-> tone, events |-> events, checks |-> checks, caveats |-> caveats]

\* makeSafetyAnswer
SafetyAnswer ==
  LET failed == \E s \in FlaggedChecks : check[s].status = "FAILED" IN
  CASE status = "VERIFICATION_FAILED" -> Answer("bad", {}, {}, {})
    [] status # "VERIFICATION_FAILED" /\ Serious -> Answer(Tone[WorstOngoing], Ongoing \cup OpenWarnings, FlaggedChecks, {})
    [] status # "VERIFICATION_FAILED" /\ ~Serious /\ Over \cup OpenWarnings # {} ->
         Answer("caution", Ongoing \cup Over \cup OpenWarnings, FlaggedChecks, {})
    [] OTHER ->
         CASE ~Reviewed(status) -> Answer("unknown", {}, FlaggedChecks, {})
           [] Reviewed(status) /\ FlaggedChecks # {} -> Answer(IF failed THEN "bad" ELSE "caution", {}, FlaggedChecks, {})
           [] Reviewed(status) /\ FlaggedChecks = {} /\ Caveats("TRUST") # {} -> Answer("caution", {}, {}, Caveats("TRUST"))
           [] OTHER -> Answer("good", {}, {}, {})

\* makeKycAnswer
BaseKycTone == [k \in 0..4 |-> IF k = 0 THEN "good" ELSE IF k \in {1, 2} THEN "caution" ELSE "bad"]
KycAnswer ==
  LET tone == BaseKycTone[row.kyc] IN
  CASE status = "VERIFICATION_FAILED" -> Answer("bad", {}, {}, {})
    [] status # "VERIFICATION_FAILED" /\ (row.policy \/ tone = "bad" \/ Caveats("KYC") = {}) -> Answer(tone, {}, {}, {})
    [] OTHER -> Answer("caution", {}, {}, Caveats("KYC"))

-----------------------------------------------------------------------------
(* Saving the service *)

\* manage_service_verification_timestamps
Stamped(s) ==
  CASE s = status -> approved
    [] s # status /\ s \in {"APPROVED", "VERIFICATION_SUCCESS"} -> IF approved = None THEN now ELSE approved
    [] OTHER -> None

SaveService(r, s) ==
  /\ row' = r /\ status' = s /\ approved' = Stamped(s)
  /\ Recalculated(r, s, Stamped(s), has, TotalPenalty(event))
  /\ UNCHANGED <<now, has, event, check>>

ChangeAttributes(h) ==
  /\ has' = h
  /\ Recalculated(row, status, approved, h, TotalPenalty(event))
  /\ UNCHANGED <<now, row, status, approved, event, check>>

\* Anything else that writes the row: a legal scan, a sentiment.
Touch == Recalculate /\ UNCHANGED <<now, row, status, approved, has, event, check>>

ForceTriggers == recent /\ approved # None /\ now - approved > 15 /\ Touch

-----------------------------------------------------------------------------
(* Events and incidents *)

Fields == [INFO     |-> [class |-> "EVENT", tone |-> "NEUTRAL", type |-> "INFO"],
           UPDATE   |-> [class |-> "EVENT", tone |-> "POSITIVE", type |-> "NORMAL"],
           WARNING  |-> [class |-> "EVENT", tone |-> "NEGATIVE", type |-> "WARNING"],
           INCIDENT |-> [class |-> "INCIDENT", tone |-> "NEGATIVE", type |-> "ALERT"]]

\* incidentDataFrom
IncidentData(severity, resolved, outcome, ended, override) ==
  [severity |-> severity, override |-> override,
   state |-> IF resolved THEN "RESOLVED" ELSE "ONGOING",
   resolved |-> IF resolved THEN IF ended = None THEN now ELSE ended ELSE None,
   outcome |-> IF resolved THEN outcome ELSE None]

Forms ==
  [kind : Kinds \ {"INCIDENT"}, ended : {None} \cup {d \in Dates : d >= now}, incident : {None}]
    \cup UNION {[kind : Kinds \cap {"INCIDENT"}, ended : {ended},
                 incident : {IncidentData(s, r, o, ended, v) :
                               s \in Severities, r \in BOOLEAN, o \in Outcomes, v \in Overrides}] :
                  ended \in {None} \cup {d \in Dates : d >= now}}

Row(f, started, visible, deleted) ==
  [class |-> Fields[f.kind].class, tone |-> Fields[f.kind].tone, type |-> Fields[f.kind].type,
   started |-> started, ended |-> f.ended, visible |-> visible, deleted |-> deleted, incident |-> f.incident]

\* Mutation: the trigger asks whether the event still shows.
OnlyIfShown(old, new) == new.visible /\ "INCIDENT" \in {old.class, new.class}
\* event_incident_update_trigger, and incident_score_update_trigger of the row that came or went.
Recalculates(old, new) == "INCIDENT" \in {old.class, new.class}

Write(e, old, new) ==
  /\ event' = [event EXCEPT ![e] = new]
  /\ IF Recalculates(old, new)
     THEN Recalculated(row, status, approved, has, TotalPenalty(event'))
     ELSE UNCHANGED <<recent, score>>
  /\ UNCHANGED <<now, row, status, approved, has, check>>

CreateEvent(e, f) == event[e] = None /\ Write(e, Row(f, now, TRUE, FALSE), Row(f, now, TRUE, FALSE))

UpdateEvent(e, f) ==
  /\ event[e] # None
  /\ Write(e, event[e], Row(f, event[e].started, event[e].visible, event[e].deleted))

Resolve(e, outcome) ==
  /\ event[e] # None /\ event[e].incident # None
  /\ Write(e, event[e], [event[e] EXCEPT !.ended = now, !.incident.state = "RESOLVED",
                                         !.incident.resolved = now, !.incident.outcome = outcome])

Toggle(e) ==
  /\ event[e] # None /\ ~event[e].deleted
  /\ Write(e, event[e], [event[e] EXCEPT !.visible = ~event[e].visible])

Delete(e) == event[e] # None /\ Write(e, event[e], [event[e] EXCEPT !.deleted = TRUE, !.visible = FALSE])
Restore(e) == event[e] # None /\ Write(e, event[e], [event[e] EXCEPT !.deleted = FALSE, !.visible = TRUE])

-----------------------------------------------------------------------------
(* Checks of the service, and the clock *)

SaveStep(s, state, banner) ==
  /\ check' = [check EXCEPT ![s] = [status |-> state, banner |-> banner]]
  /\ UNCHANGED <<now, row, status, approved, recent, has, score, event>>

DeleteStep(s) ==
  /\ check[s] # None
  /\ check' = [check EXCEPT ![s] = None]
  /\ UNCHANGED <<now, row, status, approved, recent, has, score, event>>

Pass ==
  /\ \E d \in {x \in Dates : x > now} :
       /\ \A x \in Dates : x > now => x >= d
       /\ now' = d
  /\ UNCHANGED <<row, status, approved, recent, has, score, event, check>>

\* A row of before there were kinds.
OldEvent(type) ==
  [class |-> "EVENT", tone |-> "NEGATIVE", type |-> type, started |-> now, ended |-> None,
   visible |-> TRUE, deleted |-> FALSE, incident |-> None]

Init ==
  /\ now \in Dates /\ \A d \in Dates : now <= d
  /\ row \in Rows /\ status \in Statuses /\ has = {}
  /\ approved = IF status \in {"APPROVED", "VERIFICATION_SUCCESS"} THEN now ELSE None
  /\ recent = Approval(status, approved)
  /\ event \in [Events -> {None} \cup {OldEvent(t) : t \in {"ALERT"} \cup SolvedTypes}]
  /\ score = [privacy |-> PrivacyScore(row, has), trust |-> TrustScore(row, status, approved, has, 0),
              penalty |-> 0, day |-> now]
  /\ check = [s \in Steps |-> None]

Next ==
  \/ \E r \in Rows, s \in Statuses : SaveService(r, s)
  \/ \E h \in SUBSET Attributes : ChangeAttributes(h)
  \/ Touch \/ ForceTriggers \/ Pass
  \/ \E e \in Events :
       \/ \E f \in Forms : CreateEvent(e, f) \/ UpdateEvent(e, f)
       \/ \E o \in Outcomes : Resolve(e, o)
       \/ Toggle(e) \/ Delete(e) \/ Restore(e)
  \/ \E s \in Steps :
       \/ \E state \in Findings, banner \in BOOLEAN : SaveStep(s, state, banner)
       \/ DeleteStep(s)

Spec == Init /\ [][Next]_vars

-----------------------------------------------------------------------------
(* Properties *)

(***************************************************************************)
(* The subtotals of the page add up to the stored scores, whatever was     *)
(* saved, hidden, restored or reclassified, for as long as the clock did   *)
(* not move since the scores were written ([slug].astro:427).              *)
(***************************************************************************)
LedgerAddsUp ==
  score.day = now =>
    score.privacy = Clamp(Ledger.privacy) /\ score.trust = Clamp(Ledger.trust)

(***************************************************************************)
(* What the top of the page names, an alert or an incident or warning of   *)
(* the safety answer, is a card of the timeline that is not folded away    *)
(* (serviceTimeline.ts:73).                                                *)
(***************************************************************************)
AnswersAreShown ==
  \A e \in Alerts \cup SafetyAnswer.events : Visible(event, e) /\ Unfolded(e)

-----------------------------------------------------------------------------
(* The invariant the proofs use *)

Data == [severity : Severities, override : Overrides, state : {"ONGOING", "RESOLVED"},
         resolved : Dates \cup {None}, outcome : Outcomes \cup {None}]

\* The slugs of makeNonDbAttributes; attributes of the database have others.
OwnSlugs == {"verified", "approved", "community", "scam", "kyc-level", "recently-approved", "cannot-analyse-tos",
             "onion-or-i2p", "monero", "new-service", "mature-service", "registered"}

ConstantsDiffer ==
  /\ Dates \subseteq Int
  /\ Kinds \subseteq DOMAIN Fields
  /\ Severities \subseteq DOMAIN FullPenalty /\ Outcomes \subseteq DOMAIN ResolutionStep
  /\ \A v \in Overrides \ {None} : v \in Int /\ v <= 0
  /\ None \notin Data
  /\ IsFiniteSet(Events) /\ IsFiniteSet(Attributes)
  /\ \A a \in Attributes : a.privacy \in Int /\ a.trust \in Int /\ a.slug \notin OwnSlugs
  /\ \A r \in Rows : r.kyc \in 0..4 /\ r.since \in Int \cup {None}

Entry == [class : {"EVENT", "INCIDENT"}, tone : {"NEUTRAL", "POSITIVE", "NEGATIVE"},
          type : {"INFO", "NORMAL", "WARNING", "ALERT"} \cup SolvedTypes,
          started : Dates, ended : Dates \cup {None}, visible : BOOLEAN, deleted : BOOLEAN, incident : Data \cup {None}]

\* What counts as an incident is one, and a resolved one says when and how.
EntryInv(e) ==
  event[e] # None =>
    /\ event[e].class = "INCIDENT" <=> event[e].incident # None
    /\ event[e].incident # None /\ event[e].incident.state = "RESOLVED" =>
         event[e].incident.resolved \in Dates /\ event[e].incident.outcome \in Outcomes

IInv == now \in Dates /\ event \in [Events -> Entry \cup {None}] /\ \A e \in Events : EntryInv(e)

\* Scores of today are those of the rows as they are.
ScoreInv ==
  /\ row \in Rows /\ status \in Statuses /\ has \subseteq Attributes
  /\ score.day \in Dates /\ score.day <= now
  /\ score.day = now =>
       /\ recent = Approval(status, approved)
       /\ score.privacy = PrivacyScore(row, has)
       /\ score.trust = TrustScore(row, status, approved, has, TotalPenalty(event))
=============================================================================
