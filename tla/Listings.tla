------------------------------- MODULE Listings --------------------------------
(***************************************************************************)
(* A service's row: its slug and former slugs, its visibility and          *)
(* verification status with the dates the database stamps, and the ID      *)
(* pattern its proofs are classified by.  Saving the row reads it first,   *)
(* writes it, and reclassifies the proofs, all without a transaction.      *)
(*                                                                         *)
(* A date is "new" within fifteen days and "old" after; dates that only    *)
(* exist or not are Booleans.  Texts, addresses, attributes and pictures   *)
(* are left out; that another service holds a slug is a failed save.       *)
(***************************************************************************)
EXTENDS Integers

CONSTANTS
  Slugs,
  Visibilities, \* "ServiceVisibility"
  Patterns,     \* what proofIdPattern and proofLookupUrl can say together
  Proofs,       \* pieces of evidence posted for the service
  Editors,      \* requests that can be under way at once
  None

VARIABLES
  listing,      \* "Service"
  proofs,       \* the pattern each piece of live evidence was classified by
  editing,      \* requests between two of their steps
  named,        \* history: the slugs the service ever had
  disturbed     \* history: two requests overlapped, or one failed half-way

vars == <<listing, proofs, editing, named, disturbed>>

Statuses == {"COMMUNITY_CONTRIBUTED", "APPROVED", "VERIFICATION_SUCCESS", "VERIFICATION_FAILED"}
Age == {None, "new", "old"}

Listing == [slug : Slugs, former : SUBSET Slugs, pattern : Patterns,
            visibility : Visibilities, status : Statuses,
            listed : BOOLEAN, approved : Age, verified : BOOLEAN, spam : BOOLEAN, recent : BOOLEAN]
Step ==
  [at : {"save"}, slug : Slugs, former : SUBSET Slugs, pattern : Patterns]
    \cup [at : {"settings"}]
    \cup [at : {"proofs"}, pattern : Patterns, read : SUBSET Proofs]
    \cup [at : {"proof"}, pattern : Patterns]
Request == Step \cup {None}

ConstantsDiffer ==
  /\ Visibilities \subseteq {"PUBLIC", "UNLISTED", "HIDDEN", "ARCHIVED"}
  /\ None \notin Patterns \cup Listing \cup Step

TypeOK ==
  /\ listing \in Listing \cup {None}
  /\ proofs \in [Proofs -> Patterns \cup {None}]
  /\ editing \in [Editors -> Request]
  /\ named \subseteq Slugs
  /\ disturbed \in BOOLEAN

Init ==
  /\ listing = None
  /\ proofs = [p \in Proofs |-> None]
  /\ editing = [r \in Editors |-> None]
  /\ named = {}
  /\ disturbed = FALSE

Exists == listing # None
Idle == \A r \in Editors : editing[r] = None

\* A request starts, moves on, or is done.
Start(r, request) ==
  /\ editing[r] = None
  /\ editing' = [editing EXCEPT ![r] = request]
  /\ disturbed' = (disturbed \/ ~Idle)
Goes(r, request) == editing' = [editing EXCEPT ![r] = request] /\ UNCHANGED disturbed
Done(r) == Goes(r, None)
At(r, step) == editing[r] # None /\ editing[r].at = step

-----------------------------------------------------------------------------
(* The dates the database stamps *)

Listed(visibility) == visibility \in {"PUBLIC", "ARCHIVED"}
Approves(status) == status \in {"APPROVED", "VERIFICATION_SUCCESS"}

\* manage_service_visibility_timestamps, then manage_service_verification_timestamps.
Stamped(old, row) ==
  LET dated == [row EXCEPT !.listed = Listed(row.visibility)] IN
  IF old # None /\ old.status = row.status THEN dated
  ELSE [dated EXCEPT !.approved = IF ~Approves(row.status) THEN None
                                  ELSE IF row.approved = None THEN "new" ELSE row.approved,
                     !.recent = Approves(row.status) /\ (row.approved = None \/ row.recent),
                     !.verified = row.status = "VERIFICATION_SUCCESS",
                     !.spam = row.status = "VERIFICATION_FAILED"]

\* A fortnight passes.
Age15Days ==
  /\ Exists /\ listing.approved = "new"
  /\ listing' = [listing EXCEPT !.approved = "old"]
  /\ UNCHANGED <<proofs, editing, named, disturbed>>

\* calculate_trust_score keeps the flag by the date; force_triggers only takes it away.
Recalculate ==
  /\ Exists
  /\ listing' = [listing EXCEPT !.recent = listing.approved = "new" /\ listing.status = "APPROVED"]
  /\ UNCHANGED <<proofs, editing, named, disturbed>>

ForceTriggers ==
  /\ Exists /\ listing.recent /\ listing.approved = "old"
  /\ listing' = [listing EXCEPT !.recent = FALSE]
  /\ UNCHANGED <<proofs, editing, named, disturbed>>

-----------------------------------------------------------------------------
(* Saving the row *)

\* Without services:approve a new service is community contributed, whatever the form says.
NewStatuses(approver) == IF approver THEN Statuses ELSE {"COMMUNITY_CONTRIBUTED"}

Create(slug, pattern, visibility, approver) ==
  /\ listing = None
  /\ \E status \in NewStatuses(approver) :
       listing' = Stamped(None, [slug |-> slug, former |-> {}, pattern |-> pattern,
                                 visibility |-> visibility, status |-> status, listed |-> FALSE,
                                 approved |-> None, verified |-> FALSE, spam |-> FALSE, recent |-> FALSE])
  /\ named' = {slug}
  /\ UNCHANGED <<proofs, editing, disturbed>>

ReadListing(r) ==
  /\ Exists
  /\ Start(r, [at |-> "save", slug |-> listing.slug, former |-> listing.former, pattern |-> listing.pattern])
  /\ UNCHANGED <<listing, proofs, named>>

\* previousSlugs is set from what was read, and left alone when the slug was not changed.
Former(read, slug) == IF read.slug = slug THEN listing.former ELSE (read.former \cup {read.slug}) \ {slug}

\* Without services:approve the status stays as it is.
SavedStatuses(approver) == IF approver THEN Statuses ELSE {listing.status}

\* Mutation: the proofs are left as they were classified.
NeverReclassifies(read, pattern) == FALSE
\* Whether the settings of the form differ from those that were read.
Reclassifies(read, pattern) == read.pattern # pattern

Save(r, slug, pattern, visibility, approver) ==
  /\ At(r, "save")
  /\ \E status \in SavedStatuses(approver) :
       listing' = Stamped(listing, [listing EXCEPT !.slug = slug, !.former = Former(editing[r], slug),
                                                   !.pattern = pattern, !.visibility = visibility,
                                                   !.status = status])
  /\ named' = named \cup {slug}
  /\ IF Reclassifies(editing[r], pattern) THEN Goes(r, [at |-> "settings"]) ELSE Done(r)
  /\ UNCHANGED proofs

Live == {p \in Proofs : proofs[p] # None}

\* reclassifyServiceProof reads the settings and the live evidence ...
ReadProofs(r) ==
  /\ At(r, "settings")
  /\ Goes(r, [at |-> "proofs", pattern |-> listing.pattern,
              read |-> {p \in Live : proofs[p] # listing.pattern}])
  /\ UNCHANGED <<listing, proofs, named>>

\* ... and writes what changed, in one transaction.
WriteProofs(r) ==
  /\ At(r, "proofs") /\ editing[r].read \subseteq Live
  /\ proofs' = [p \in Proofs |-> IF p \in editing[r].read THEN editing[r].pattern ELSE proofs[p]]
  /\ Done(r)
  /\ UNCHANGED <<listing, named>>

\* Evidence is classified by the settings its transaction reads.
ReadSettings(r) ==
  /\ Exists
  /\ Start(r, [at |-> "proof", pattern |-> listing.pattern])
  /\ UNCHANGED <<listing, proofs, named>>

AddProof(r, p) ==
  /\ At(r, "proof") /\ proofs[p] = None
  /\ proofs' = [proofs EXCEPT ![p] = editing[r].pattern]
  /\ Done(r)
  /\ UNCHANGED <<listing, named>>

RemoveProof(p) ==
  /\ p \in Live
  /\ proofs' = [proofs EXCEPT ![p] = None]
  /\ UNCHANGED <<listing, editing, named, disturbed>>

\* The slug is taken, the description breaks a rule, the evidence has gone, the process stops.
Fail(r) ==
  /\ editing[r] # None
  /\ editing' = [editing EXCEPT ![r] = None]
  /\ disturbed' = (disturbed \/ editing[r].at \in {"settings", "proofs"})
  /\ UNCHANGED <<listing, proofs, named>>

Next ==
  \/ \E slug \in Slugs, pattern \in Patterns, visibility \in Visibilities, approver \in BOOLEAN :
       \/ Create(slug, pattern, visibility, approver)
       \/ \E r \in Editors : Save(r, slug, pattern, visibility, approver)
  \/ \E r \in Editors : ReadListing(r) \/ ReadProofs(r) \/ WriteProofs(r) \/ ReadSettings(r) \/ Fail(r)
  \/ \E r \in Editors, p \in Proofs : AddProof(r, p)
  \/ \E p \in Proofs : RemoveProof(p)
  \/ Age15Days \/ Recalculate \/ ForceTriggers

Spec == Init /\ [][Next]_vars

-----------------------------------------------------------------------------
(* Properties *)

(***************************************************************************)
(* While edits neither overlap nor fail half-way, every address the        *)
(* service had still leads to it, and its proofs are classified by its     *)
(* settings of today (service.ts:350, commentProof.ts:19).                 *)
(***************************************************************************)
EditsSettle ==
  Exists /\ ~disturbed =>
    /\ named \subseteq listing.former \cup {listing.slug}
    /\ Idle => \A p \in Live : proofs[p] = listing.pattern

-----------------------------------------------------------------------------
(* What every step keeps *)

\* While nothing overlaps or fails, one request is under way at most, and what it read is so.
Alone == \A r, other \in Editors : editing[r] # None /\ editing[other] # None => r = other

ReadInv(r) ==
  /\ At(r, "save") => /\ editing[r].slug = listing.slug /\ editing[r].former = listing.former
                      /\ editing[r].pattern = listing.pattern
  /\ At(r, "proofs") \/ At(r, "proof") => editing[r].pattern = listing.pattern

\* Proof is classified by today's settings, but for what the request under way has yet to write.
Awaited(p) ==
  \E r \in Editors : At(r, "settings") \/ (At(r, "proofs") /\ p \in editing[r].read)

SettledInv ==
  /\ Alone
  /\ \A r \in Editors : ReadInv(r)
  /\ ~Exists => Live = {}
  /\ Exists => /\ named \subseteq listing.former \cup {listing.slug}
               /\ \A p \in Live : proofs[p] = listing.pattern \/ Awaited(p)

IInv == TypeOK /\ (Idle \/ Exists) /\ (~disturbed => SettledInv)
=============================================================================
