----------------------------- MODULE Affiliations -----------------------------
(***************************************************************************)
(* Who speaks for a service.  Staff name people by hand; anybody else may  *)
(* claim a role by putting their name in a TXT record of the service's     *)
(* domain, which a daily task looks up again.  An affiliation decides who  *)
(* reads a case's evidence and who may make an API key.                    *)
(*                                                                         *)
(* The domain, its records and its registry are the environment.  A lookup *)
(* stands for the service still listing the host, the host not being an    *)
(* alias and its record naming the user.  The pause of 15 s between two    *)
(* claims of one user is left out: a lookup may take longer than that.     *)
(***************************************************************************)
EXTENDS Integers

CONSTANTS
  Users,
  Managers,     \* users who hold users:manage
  Admin,        \* any admin
  Services,
  KeyUsers,     \* users who ask for API keys
  Verified,     \* users with a verified link
  Slots,        \* requests that can be under way at once
  MaxRows,      \* bound: affiliations ever made
  MaxKeys,      \* bound: keys of one user
  None

VARIABLES
  affiliation,  \* "ServiceUser", unique by user and service
  made,         \* rows made so far: the id of the last
  listing,      \* what affects affiliations of each service
  mayUseKeys,   \* canCreateApiKeys, and not a spammer
  keys,         \* "ApiKey": how many each user has
  request,      \* handlers between their checks and their write
  rows,         \* the daily task: what it read and has not checked yet
  named,        \* the world: whose name the domain's records hold
  resold,       \* the world: the domain was registered again
  vouched,      \* history: who gave the role, by hand
  absent        \* history: checks in a row that did not find the record

handlers == <<request, listing, mayUseKeys, keys>>
world == <<named, resold>>
vars == <<affiliation, made, handlers, rows, world, vouched, absent>>

MaxFailedChecks == 3    \* CLAIM_MAX_FAILED_CHECKS

Roles == {"OWNER", "ADMIN"}    \* ADMIN: for all roles but OWNER
Ids == 1..MaxRows
\* misses: dnsFailedChecks.  dated: the registry told when the domain was registered.
Row == [id : Ids, role : Roles, byDns : BOOLEAN, misses : 0..MaxFailedChecks - 1, dated : BOOLEAN]
Pair == Users \X Services
Request == [at : {"idle", "claim", "add", "change", "key"}, by : Users \cup {Admin, None},
            user : Users \cup {None}, service : Services \cup {None}, role : Roles, dated : BOOLEAN]
Idle == [at |-> "idle", by |-> None, user |-> None, service |-> None, role |-> "ADMIN", dated |-> FALSE]

\* Nobody, the admin and the rows are told apart; who manages or asks for keys has an account.
ConstantsDiffer ==
  /\ Admin \notin Users
  /\ None \notin Users \cup {Admin} \cup Row
  /\ Managers \cup KeyUsers \subseteq Users
  /\ MaxRows \in Nat /\ MaxKeys \in Nat

ASSUME ConstantsAssumption == ConstantsDiffer

TypeOK ==
  /\ affiliation \in [Pair -> Row \cup {None}]
  /\ made \in 0..MaxRows
  /\ listing \in [Services -> {"claimable", "public", "hidden"}]
  /\ mayUseKeys \in [KeyUsers -> BOOLEAN] /\ keys \in [KeyUsers -> 0..MaxKeys]
  /\ request \in [Slots -> Request]
  /\ rows \subseteq [of : Pair, id : Ids, misses : 0..MaxFailedChecks - 1, dated : BOOLEAN]
  /\ named \in [Pair -> BOOLEAN] /\ resold \in [Services -> BOOLEAN]
  /\ vouched \in [Pair -> Users \cup {Admin, None}]
  /\ absent \in [Pair -> 0..MaxFailedChecks]

Init ==
  /\ affiliation = [p \in Pair |-> None]
  /\ made = 0
  /\ listing = [s \in Services |-> "claimable"]
  /\ mayUseKeys = [u \in KeyUsers |-> TRUE] /\ keys = [u \in KeyUsers |-> 0]
  /\ request = [r \in Slots |-> Idle]
  /\ rows = {}
  /\ named = [p \in Pair |-> FALSE] /\ resold = [s \in Services |-> FALSE]
  /\ vouched = [p \in Pair |-> None]
  /\ absent = [p \in Pair |-> 0]

Has(p) == affiliation[p] # None
Begin(r, req) == request[r] = Idle /\ request' = [request EXCEPT ![r] = req]
Finish(r) == request' = [request EXCEPT ![r] = Idle]
Target(r) == <<request[r].user, request[r].service>>

\* The row a handler writes: a new id, no misses.
Make(p, role, byDns, dated) ==
  /\ made < MaxRows
  /\ made' = made + 1
  /\ affiliation' = [affiliation EXCEPT ![p] =
       [id |-> made + 1, role |-> role, byDns |-> byDns, misses |-> 0, dated |-> dated]]
  /\ absent' = [absent EXCEPT ![p] = 0]

-----------------------------------------------------------------------------
(* Claims *)

ClaimableRoles == Roles \ {"OWNER"}

\* claimService: the service, the record and the registry.  The service must be
\* listed, reachable and not flagged as a scam, and have a website of its own.
Claim(r, u, s, role) ==
  /\ role \in ClaimableRoles
  /\ listing[s] = "claimable"
  /\ ~Has(<<u, s>>)
  /\ named[<<u, s>>]
  /\ \E dated \in BOOLEAN :
       /\ ~(dated /\ resold[s])
       /\ Begin(r, [at |-> "claim", by |-> u, user |-> u, service |-> s, role |-> role, dated |-> dated])
  /\ UNCHANGED <<affiliation, made, listing, mayUseKeys, keys, rows, world, vouched, absent>>

WriteClaim(r) ==
  LET p == Target(r) IN
  /\ request[r].at = "claim"
  /\ ~Has(p)
  /\ Make(p, request[r].role, TRUE, request[r].dated)
  /\ vouched' = [vouched EXCEPT ![p] = None]
  /\ Finish(r)
  /\ UNCHANGED <<listing, mayUseKeys, keys, rows, world>>

-----------------------------------------------------------------------------
(* Staff *)

\* Mutation: whoever holds users:manage may.
AnyManager(actor, u) == TRUE
\* preventOwnAffiliationChange
MayChange(actor, u) == actor = Admin \/ actor # u

\* serviceAffiliations.add looks for the row, then updates or creates it.
Add(r, actor, u, s, role) ==
  /\ MayChange(actor, u)
  /\ listing[s] # "hidden"
  /\ Begin(r, [at |-> IF Has(<<u, s>>) THEN "change" ELSE "add", by |-> actor,
               user |-> u, service |-> s, role |-> role, dated |-> FALSE])
  /\ UNCHANGED <<affiliation, made, listing, mayUseKeys, keys, rows, world, vouched, absent>>

WriteAdd(r) ==
  LET p == Target(r) IN
  /\ request[r].at = "add"
  /\ ~Has(p)
  /\ Make(p, request[r].role, FALSE, FALSE)
  /\ vouched' = [vouched EXCEPT ![p] = request[r].by]
  /\ Finish(r)
  /\ UNCHANGED <<listing, mayUseKeys, keys, rows, world>>

\* Only the role: a claim stays a claim.
WriteChange(r) ==
  LET p == Target(r) IN
  /\ request[r].at = "change"
  /\ Has(p)
  /\ affiliation' = [affiliation EXCEPT ![p].role = request[r].role]
  /\ vouched' = [vouched EXCEPT ![p] = request[r].by]
  /\ Finish(r)
  /\ UNCHANGED <<made, listing, mayUseKeys, keys, rows, world, absent>>

Remove(actor, p) ==
  /\ Has(p) /\ MayChange(actor, p[1])
  /\ affiliation' = [affiliation EXCEPT ![p] = None]
  /\ vouched' = [vouched EXCEPT ![p] = None]
  /\ UNCHANGED <<made, handlers, rows, world, absent>>

EditService(s) ==
  /\ \E to \in {"claimable", "public", "hidden"} \ {listing[s]} : listing' = [listing EXCEPT ![s] = to]
  /\ UNCHANGED <<affiliation, made, mayUseKeys, keys, request, rows, world, vouched, absent>>

-----------------------------------------------------------------------------
(* API keys *)

\* apiKeyCreate counts the keys, then creates one: nothing makes them unique.
AskForKey(r, u) ==
  /\ mayUseKeys[u]
  /\ u \in Verified \/ \E s \in Services : Has(<<u, s>>)
  /\ keys[u] = 0
  /\ Begin(r, [Idle EXCEPT !.at = "key", !.by = u, !.user = u])
  /\ UNCHANGED <<affiliation, made, listing, mayUseKeys, keys, rows, world, vouched, absent>>

MakeKey(r) ==
  LET u == request[r].user IN
  /\ request[r].at = "key" /\ keys[u] < MaxKeys
  /\ keys' = [keys EXCEPT ![u] = @ + 1]
  /\ Finish(r)
  /\ UNCHANGED <<affiliation, made, listing, mayUseKeys, rows, world, vouched, absent>>

DeleteKey(u) ==
  /\ keys[u] > 0
  /\ keys' = [keys EXCEPT ![u] = @ - 1]
  /\ UNCHANGED <<affiliation, made, listing, mayUseKeys, request, rows, world, vouched, absent>>

AllowKeys(u) ==
  /\ mayUseKeys' = [mayUseKeys EXCEPT ![u] = ~@]
  /\ UNCHANGED <<affiliation, made, listing, keys, request, rows, world, vouched, absent>>

\* A handler that fails: the row appeared or went in between, or the bound is met.
Fail(r) ==
  /\ request[r] # Idle
  /\ \/ request[r].at \in {"claim", "add"} /\ (Has(Target(r)) \/ made = MaxRows)
     \/ request[r].at = "change" /\ ~Has(Target(r))
     \/ request[r].at = "key" /\ keys[request[r].user] = MaxKeys
  /\ Finish(r)
  /\ UNCHANGED <<affiliation, made, listing, mayUseKeys, keys, rows, world, vouched, absent>>

-----------------------------------------------------------------------------
(* The daily task *)

ReadClaims ==
  /\ rows = {}
  /\ rows' = {[of |-> p, id |-> affiliation[p].id, misses |-> affiliation[p].misses,
               dated |-> affiliation[p].dated] : p \in {q \in Pair : Has(q) /\ affiliation[q].byDns}}
  /\ rows' # {}
  /\ UNCHANGED <<affiliation, made, handlers, world, vouched, absent>>

\* The row the task read is still there and was claimed.
Same(row) == Has(row.of) /\ affiliation[row.of].id = row.id /\ affiliation[row.of].byDns

Revoke(row) ==
  IF Same(row)
  THEN /\ affiliation' = [affiliation EXCEPT ![row.of] = None]
       /\ vouched' = [vouched EXCEPT ![row.of] = None]
  ELSE UNCHANGED <<affiliation, vouched>>

SetMisses(row, n) ==
  /\ affiliation' = IF Same(row) THEN [affiliation EXCEPT ![row.of].misses = n] ELSE affiliation
  /\ UNCHANGED vouched

\* What a found record leaves. Mutation: earlier misses stay.
MissesStay(row) == row.misses
MissesOnceFound(row) == 0

IsLastMiss(row) == row.misses + 1 >= MaxFailedChecks

\* The resolver, or the registry, may not answer.
Check(row) ==
  /\ row \in rows
  /\ rows' = rows \ {row}
  /\ \/ UNCHANGED <<affiliation, vouched, absent>>
     \/ /\ named[row.of]
        /\ \/ row.dated /\ resold[row.of[2]] /\ Revoke(row)
           \/ SetMisses(row, MissesOnceFound(row))
        /\ absent' = IF Same(row) THEN [absent EXCEPT ![row.of] = 0] ELSE absent
     \/ /\ ~named[row.of]
        /\ IF IsLastMiss(row) THEN Revoke(row) ELSE SetMisses(row, row.misses + 1)
        /\ absent' = IF Same(row) THEN [absent EXCEPT ![row.of] = @ + 1] ELSE absent
  /\ UNCHANGED <<made, handlers, world>>

\* The worker restarts: what it read is gone.
Restart ==
  /\ rows # {}
  /\ rows' = {}
  /\ UNCHANGED <<affiliation, made, handlers, world, vouched, absent>>

-----------------------------------------------------------------------------
(* The domain's records, and its sale *)

EditRecord(p) ==
  /\ named' = [named EXCEPT ![p] = ~@]
  /\ UNCHANGED <<affiliation, made, handlers, rows, resold, vouched, absent>>

Resell(s) ==
  /\ ~resold[s]
  /\ resold' = [resold EXCEPT ![s] = TRUE]
  /\ UNCHANGED <<affiliation, made, handlers, rows, named, vouched, absent>>

Staff == Managers \cup {Admin}

Next ==
  \/ \E r \in Slots, u \in Users, s \in Services, role \in Roles :
       Claim(r, u, s, role) \/ \E actor \in Staff : Add(r, actor, u, s, role)
  \/ \E r \in Slots : WriteClaim(r) \/ WriteAdd(r) \/ WriteChange(r) \/ MakeKey(r) \/ Fail(r)
  \/ \E r \in Slots, u \in KeyUsers : AskForKey(r, u)
  \/ \E u \in KeyUsers : DeleteKey(u) \/ AllowKeys(u)
  \/ \E actor \in Staff, p \in Pair : Remove(actor, p)
  \/ \E s \in Services : EditService(s) \/ Resell(s)
  \/ \E p \in Pair : EditRecord(p)
  \/ ReadClaims \/ Restart \/ \E row \in rows : Check(row)

Spec == Init /\ [][Next]_vars

-----------------------------------------------------------------------------
(* Properties *)

Checks == \E row \in rows : rows' = rows \ {row}

RevokesForCause ==
  \A p \in Pair :
    Checks /\ Has(p) /\ affiliation'[p] = None =>
      /\ affiliation[p].byDns
      /\ absent'[p] = MaxFailedChecks \/ resold[p[2]]

(***************************************************************************)
(* The task removes only claims, not what staff put in their place since   *)
(* it read them, and only when three lookups in a row did not find the     *)
(* record or when the domain changed hands (affiliation_dns.py:184, :216). *)
(***************************************************************************)
RevokedForCause == [][RevokesForCause]_vars

\* caseAccessAffiliatesSelect: whom an affiliation lets into a service's cases.
OpensCases(row) == row.role = "OWNER" \/ ~row.byDns

(***************************************************************************)
(* Nobody lets themselves into a service's cases: a claim does not, and    *)
(* who was named was named by somebody else or by an admin                 *)
(* (caseAccess.ts:32, admin/user.ts:64).                                   *)
(***************************************************************************)
OthersLetYouIn ==
  \A p \in Pair : Has(p) /\ OpensCases(affiliation[p]) => vouched[p] \notin {None, p[1]}

-----------------------------------------------------------------------------
(* What every step keeps *)

\* A request under way has passed the checks of its handler.
RequestInv(r) ==
  /\ request[r].at \in {"claim", "add", "change"} => Target(r) \in Pair
  /\ request[r].at = "claim" => request[r].role # "OWNER"
  /\ request[r].at \in {"add", "change"} => request[r].by \notin {None, request[r].user}
  /\ request[r].at = "key" => request[r].user \in KeyUsers

\* An affiliation has an id given out before, and a claim counts the checks that missed it.
ClaimInv(p) ==
  Has(p) => affiliation[p].id <= made /\ (affiliation[p].byDns => affiliation[p].misses = absent[p])

\* What the task read of a claim that is still there is still so until it checks it.
ReadInv(row) ==
  row.id <= made /\ (Same(row) => row.misses = affiliation[row.of].misses)

\* The task checks a claim once a day.
OneRowEach == \A row, other \in rows : row.of = other.of => row = other

IInv ==
  /\ TypeOK
  /\ \A r \in Slots : RequestInv(r)
  /\ OthersLetYouIn
  /\ \A p \in Pair : ClaimInv(p)
  /\ \A row \in rows : ReadInv(row)
  /\ OneRowEach
=============================================================================
