--------------------------------- MODULE Cases ---------------------------------
(***************************************************************************)
(* A case report: its status and dates, its updates, its evidence and the  *)
(* files behind it.  Staff write it, and while it is public its reporter   *)
(* and participants may post.  Every action reads and then writes without  *)
(* a transaction, and a file and its row are two steps.                    *)
(*                                                                         *)
(* Texts, captions and the tier of evidence are left out.  A file is named *)
(* by its content, so two uploads of one image are one file.               *)
(***************************************************************************)
EXTENDS Integers, FiniteSets

CONSTANTS
  Users,        \* those who are no staff
  Staff,        \* any user who holds cases:manage
  Updates,
  Evidence,
  Images,       \* the contents that get uploaded
  Slots,        \* requests that can be under way at once
  MaxStamps,    \* bound: how often a date is stamped
  None

VARIABLES
  case,         \* "Case"
  participants, \* the users attached to it, its reporter among them
  updates,      \* "CaseUpdate"
  evidence,     \* "CaseEvidence"
  disk,         \* the case's directory
  stamps,       \* dates handed out
  asked         \* requests between two of their steps

vars == <<case, participants, updates, evidence, disk, stamps, asked>>

Statuses == {"DRAFT", "OPEN", "RESOLVED", "DISPUTED", "REJECTED"}
IsCasePublished(status) == status \in {"OPEN", "RESOLVED", "DISPUTED"}

Dates == 1..MaxStamps
Date == Dates \cup {None}
Tiers == {"PUBLIC", "PARTICIPANTS", "STAFF"}
Case == [status : Statuses, publishedAt : Date, resolvedAt : Date]
Update == [tier : Tiers, author : Users \cup {Staff}]
Item == [under : Updates \cup {None}, image : Images \cup {None}]
Request ==
  {None} \cup [at : {"status"}, resolvedAt : Date, publishedAt : Date]
         \cup [at : {"post"}, by : Users \cup {Staff}]
         \cup [at : {"file", "item"}, under : Updates \cup {None}, image : Images \cup {None}]
         \cup [at : {"unlink"}, images : SUBSET Images]
         \cup [at : {"drop"}, item : Evidence]
         \cup [at : {"cascade"}, of : Updates \cup {None}, images : SUBSET Images]

ConstantsDiffer ==
  /\ None \notin Case \cup Update \cup Item \cup Nat
  /\ None \notin Updates \cup Images
  /\ MaxStamps \in Nat \ {0}

TypeOK ==
  /\ case \in Case \cup {None}
  /\ participants \subseteq Users
  /\ updates \in [Updates -> Update \cup {None}]
  /\ evidence \in [Evidence -> Item \cup {None}]
  /\ disk \subseteq Images
  /\ stamps \in 0..MaxStamps
  /\ asked \in [Slots -> Request]

Exists == case # None
Ask(r, request) == asked[r] = None /\ asked' = [asked EXCEPT ![r] = request]
Goes(r, request) == asked' = [asked EXCEPT ![r] = request]
Answer(r) == Goes(r, None)
At(r, step) == asked[r] # None /\ asked[r].at = step

(***************************************************************************)
(* Dates.  Both functions hand out at most one new date.                   *)
(***************************************************************************)
Now == stamps + 1
\* Mutation: the date of an earlier resolution stays.
KeptResolvedAt(status, existing) ==
  IF status = "RESOLVED" /\ existing = None THEN Now ELSE existing
ResolvedAtFor(status, existing) ==
  CASE status # "RESOLVED" -> None
    [] status = "RESOLVED" /\ existing # None -> existing
    [] OTHER -> Now
PublishedAtFor(status, existing) ==
  IF existing = None /\ IsCasePublished(status) THEN Now ELSE existing

Write(status, resolvedAt, publishedAt) ==
  LET row == [status |-> status, resolvedAt |-> ResolvedAtFor(status, resolvedAt),
              publishedAt |-> PublishedAtFor(status, publishedAt)] IN
  /\ case' = row
  /\ Now \in {row.resolvedAt, row.publishedAt} => stamps < MaxStamps
  /\ stamps' = IF Now \in {row.resolvedAt, row.publishedAt} THEN Now ELSE stamps

-----------------------------------------------------------------------------
Init ==
  /\ \E status \in {"DRAFT", "OPEN"} :
       case = [status |-> status, resolvedAt |-> None,
               publishedAt |-> IF IsCasePublished(status) THEN 1 ELSE None]
  /\ stamps = 1
  /\ participants = {}
  /\ updates = [u \in Updates |-> None]
  /\ evidence = [v \in Evidence |-> None]
  /\ disk = {}
  /\ asked = [r \in Slots |-> None]

UnchangedPosts == UNCHANGED <<participants, updates, evidence, disk>>

\* update and setStatus.
ReadCase(r) ==
  /\ Exists
  /\ Ask(r, [at |-> "status", resolvedAt |-> case.resolvedAt, publishedAt |-> case.publishedAt])
  /\ UnchangedPosts /\ UNCHANGED <<case, stamps>>

WriteCase(r, status) ==
  /\ At(r, "status") /\ Exists
  /\ Write(status, asked[r].resolvedAt, asked[r].publishedAt)
  /\ Answer(r)
  /\ UnchangedPosts

AddParticipant(u) ==
  /\ Exists
  /\ participants' = participants \cup {u}
  /\ UNCHANGED <<case, updates, evidence, disk, stamps, asked>>

RemoveParticipant(u) ==
  /\ Exists
  /\ participants' = participants \ {u}
  /\ UNCHANGED <<case, updates, evidence, disk, stamps, asked>>

-----------------------------------------------------------------------------
(* Updates *)

CanParticipateInCase(u) == u = Staff \/ u \in participants
MayPost(u) == CanParticipateInCase(u) /\ (u = Staff \/ IsCasePublished(case.status))

AskPost(r, u) ==
  /\ Exists /\ MayPost(u)
  /\ Ask(r, [at |-> "post", by |-> u])
  /\ UnchangedPosts /\ UNCHANGED <<case, stamps>>

\* A participant's update is for participants, whatever the form says.
TiersOf(u) == IF u = Staff THEN Tiers ELSE {"PARTICIPANTS"}

Post(r, n) ==
  /\ At(r, "post") /\ Exists
  /\ updates[n] = None
  /\ \E tier \in TiersOf(asked[r].by) :
       updates' = [updates EXCEPT ![n] = [tier |-> tier, author |-> asked[r].by]]
  /\ Answer(r)
  /\ UNCHANGED <<case, participants, evidence, disk, stamps>>

EditUpdate(n, tier) ==
  /\ updates[n] # None
  /\ updates' = [updates EXCEPT ![n].tier = tier]
  /\ UNCHANGED <<case, participants, evidence, disk, stamps, asked>>

Under(n) == {v \in Evidence : evidence[v] # None /\ evidence[v].under = n}
ImagesOf(items) == {evidence[v].image : v \in items} \ {None}

\* The files are read first, then the row goes with its evidence, then the files.
ReadUpdateFiles(r, n) ==
  /\ updates[n] # None
  /\ Ask(r, [at |-> "cascade", of |-> n, images |-> ImagesOf(Under(n))])
  /\ UnchangedPosts /\ UNCHANGED <<case, stamps>>

ReadCaseFiles(r) ==
  /\ Exists
  /\ Ask(r, [at |-> "cascade", of |-> None,
             images |-> ImagesOf({v \in Evidence : evidence[v] # None})])
  /\ UnchangedPosts /\ UNCHANGED <<case, stamps>>

Cascade(n) == evidence' = [v \in Evidence |-> IF v \in Under(n) THEN None ELSE evidence[v]]

DeleteUpdate(r) ==
  LET n == asked[r].of IN
  /\ At(r, "cascade") /\ n # None /\ updates[n] # None
  /\ updates' = [updates EXCEPT ![n] = None]
  /\ Cascade(n)
  /\ Goes(r, [at |-> "unlink", images |-> asked[r].images])
  /\ UNCHANGED <<case, participants, disk, stamps>>

DeleteCase(r) ==
  /\ At(r, "cascade") /\ asked[r].of = None /\ Exists
  /\ case' = None
  /\ participants' = {}
  /\ updates' = [n \in Updates |-> None]
  /\ evidence' = [v \in Evidence |-> None]
  /\ Goes(r, [at |-> "unlink", images |-> asked[r].images])
  /\ UNCHANGED <<disk, stamps>>

\* A file that cannot be deleted is logged and stays.
Unlink(r) ==
  /\ At(r, "unlink")
  /\ \E gone \in SUBSET asked[r].images : disk' = disk \ gone
  /\ Answer(r)
  /\ UNCHANGED <<case, participants, updates, evidence, stamps>>

-----------------------------------------------------------------------------
(* Evidence *)

AskEvidence(r, n, image) ==
  /\ Exists
  /\ n # None => updates[n] # None
  /\ Ask(r, [at |-> "file", under |-> n, image |-> image])
  /\ UnchangedPosts /\ UNCHANGED <<case, stamps>>

SaveImage(r) ==
  /\ At(r, "file")
  /\ disk' = disk \cup ({asked[r].image} \ {None})
  /\ Goes(r, [asked[r] EXCEPT !.at = "item"])
  /\ UNCHANGED <<case, participants, updates, evidence, stamps>>

\* The case, or the update, may be gone: the row is refused and the file stays.
CreateEvidence(r, v) ==
  LET n == asked[r].under IN
  /\ At(r, "item")
  /\ Exists /\ (n # None => updates[n] # None)
  /\ evidence[v] = None
  /\ evidence' = [evidence EXCEPT ![v] = [under |-> n, image |-> asked[r].image]]
  /\ Answer(r)
  /\ UNCHANGED <<case, participants, updates, disk, stamps>>

\* The file goes before the row.
UnlinkEvidence(r, v) ==
  /\ evidence[v] # None
  /\ Ask(r, [at |-> "drop", item |-> v])
  /\ disk' \in {disk, disk \ {evidence[v].image}}
  /\ UNCHANGED <<case, participants, updates, evidence, stamps>>

DropEvidence(r) ==
  /\ At(r, "drop") /\ evidence[asked[r].item] # None
  /\ evidence' = [evidence EXCEPT ![asked[r].item] = None]
  /\ Answer(r)
  /\ UNCHANGED <<case, participants, updates, disk, stamps>>

\* A row that went in between, a write that fails, a process that stops.
Fail(r) ==
  /\ asked[r] # None
  /\ Answer(r)
  /\ UnchangedPosts /\ UNCHANGED <<case, stamps>>

Next ==
  \/ \E r \in Slots : \/ ReadCase(r) \/ ReadCaseFiles(r)
                      \/ DeleteUpdate(r) \/ DeleteCase(r) \/ Unlink(r)
                      \/ SaveImage(r) \/ DropEvidence(r) \/ Fail(r)
  \/ \E r \in Slots, status \in Statuses : WriteCase(r, status)
  \/ \E u \in Users : AddParticipant(u) \/ RemoveParticipant(u)
  \/ \E r \in Slots, u \in Users \cup {Staff} : AskPost(r, u)
  \/ \E r \in Slots, n \in Updates : Post(r, n) \/ ReadUpdateFiles(r, n)
  \/ \E n \in Updates, tier \in Tiers : EditUpdate(n, tier)
  \/ \E r \in Slots, n \in Updates \cup {None}, image \in Images \cup {None} : AskEvidence(r, n, image)
  \/ \E r \in Slots, v \in Evidence : UnlinkEvidence(r, v) \/ CreateEvidence(r, v)

Spec == Init /\ [][Next]_vars

-----------------------------------------------------------------------------
(* Properties *)

(***************************************************************************)
(* A public case has the date the public list orders it by, and a case has *)
(* a date of resolution exactly while it is resolved, whatever two staff   *)
(* members set at once (case.ts:36, case.ts:43).                           *)
(***************************************************************************)
DatesMatchStatus ==
  Exists => /\ IsCasePublished(case.status) => case.publishedAt # None
            /\ case.resolvedAt # None <=> case.status = "RESOLVED"

-----------------------------------------------------------------------------
(* What every step keeps *)

IInv == TypeOK /\ DatesMatchStatus
=============================================================================
