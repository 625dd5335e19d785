------------------------------ MODULE AccessProofs ------------------------------
(***************************************************************************)
(* The three parts of MCAccess, for any users, browsers, handlers under    *)
(* way and bounds.                                                         *)
(*                                                                         *)
(* Affiliations: IInv is inductive.  The lemmas say what a step makes of a *)
(* request, of an affiliation and of a row the daily task has read.        *)
(*                                                                         *)
(* Signing in: a browser's cookies name a session and an impersonation     *)
(* that are its own, because an id is new when it is given out.            *)
(*                                                                         *)
(* The discussion: as long as nothing was decided since a link was opened, *)
(* what the page has read is true.                                         *)
(***************************************************************************)
EXTENDS MCAccess, FiniteSetTheorems, TLAPS

-----------------------------------------------------------------------------
(* Affiliations *)

(***************************************************************************)
(* The types, with a claim's misses in step with the count the task keeps. *)
(***************************************************************************)
LEMMA InitInvariant == ASSUME ConstantsDiffer PROVE Init => IInv
<1> SUFFICES ASSUME Init PROVE IInv
  OBVIOUS
<1> USE DEF Init
<1>1. Idle \in Request
  BY DEF Idle, Request, Roles
<1>2. TypeOK
  BY <1>1 DEF TypeOK, ConstantsDiffer, MaxFailedChecks
<1>3. \A r \in Slots : RequestInv(r)
  BY DEF RequestInv, Idle
<1>. QED
  BY <1>2, <1>3 DEF IInv, OthersLetYouIn, ClaimInv, OneRowEach, Has

-----------------------------------------------------------------------------
(* Types *)

LEMMA RequestTypes ==
  ASSUME TypeOK, ConstantsDiffer, Next
  PROVE  request' \in [Slots -> Request]
<1>1. Idle \in Request
  BY DEF Idle, Request, Roles
<1>2. ASSUME NEW r \in Slots, NEW q \in Request, Begin(r, q)
      PROVE  request' \in [Slots -> Request]
  BY <1>2 DEF Begin, TypeOK
<1>3. ASSUME NEW r \in Slots, Finish(r)
      PROVE  request' \in [Slots -> Request]
  BY <1>1, <1>3 DEF Finish, TypeOK
<1>4. ASSUME NEW r \in Slots, NEW u \in Users, NEW s \in Services, NEW role \in Roles,
             Claim(r, u, s, role)
      PROVE  request' \in [Slots -> Request]
  <2>1. \A dated \in BOOLEAN : [at |-> "claim", by |-> u, user |-> u, service |-> s,
                                role |-> role, dated |-> dated] \in Request
    BY DEF Request
  <2>. QED BY <1>2, <1>4, <2>1 DEF Claim
<1>5. ASSUME NEW r \in Slots, NEW u \in Users, NEW s \in Services, NEW role \in Roles,
             NEW actor \in Staff, Add(r, actor, u, s, role)
      PROVE  request' \in [Slots -> Request]
  <2>1. actor \in Users \cup {Admin}
    BY DEF Staff, ConstantsDiffer
  <2>2. \A at \in {"add", "change"} : [at |-> at, by |-> actor, user |-> u, service |-> s,
                                       role |-> role, dated |-> FALSE] \in Request
    BY <2>1 DEF Request
  <2>. QED BY <1>2, <1>5, <2>2 DEF Add
<1>6. ASSUME NEW r \in Slots, NEW u \in KeyUsers, AskForKey(r, u)
      PROVE  request' \in [Slots -> Request]
  <2>1. [Idle EXCEPT !.at = "key", !.by = u, !.user = u] \in Request
    BY DEF Idle, Request, Roles, ConstantsDiffer
  <2>. QED BY <1>2, <1>6, <2>1 DEF AskForKey
<1>7. ASSUME NEW r \in Slots,
             WriteClaim(r) \/ WriteAdd(r) \/ WriteChange(r) \/ MakeKey(r) \/ Fail(r)
      PROVE  request' \in [Slots -> Request]
  BY <1>3, <1>7 DEF WriteClaim, WriteAdd, WriteChange, MakeKey, Fail
<1>8. ASSUME UNCHANGED request PROVE request' \in [Slots -> Request]
  BY <1>8 DEF TypeOK
<1>. QED
  BY <1>4, <1>5, <1>6, <1>7, <1>8
  DEF Next, DeleteKey, AllowKeys, Remove, EditService, EditRecord, Resell, ReadClaims, Restart,
      Check, handlers

LEMMA RowTypes ==
  ASSUME IInv, ConstantsDiffer, Next
  PROVE  /\ affiliation' \in [Pair -> Row \cup {None}] /\ made' \in 0..MaxRows
         /\ vouched' \in [Pair -> Users \cup {Admin, None}]
         /\ absent' \in [Pair -> 0..MaxFailedChecks]
         /\ rows' \subseteq [of : Pair, id : Ids, misses : 0..MaxFailedChecks - 1, dated : BOOLEAN]
<1> DEFINE Types ==
      /\ affiliation \in [Pair -> Row \cup {None}] /\ made \in 0..MaxRows
      /\ vouched \in [Pair -> Users \cup {Admin, None}]
      /\ absent \in [Pair -> 0..MaxFailedChecks]
      /\ rows \subseteq [of : Pair, id : Ids, misses : 0..MaxFailedChecks - 1, dated : BOOLEAN]
<1> SUFFICES Types'
  OBVIOUS
<1>1. Types /\ MaxFailedChecks = 3 /\ MaxRows \in Nat
  BY DEF IInv, TypeOK, MaxFailedChecks, ConstantsDiffer
<1>2. ASSUME NEW r \in Slots, WriteClaim(r) \/ WriteAdd(r)
      PROVE  Types'
  <2>1. Target(r) \in Pair /\ request[r] \in Request
    BY <1>2 DEF WriteClaim, WriteAdd, IInv, RequestInv, TypeOK
  <2>2. request[r].role \in Roles /\ request[r].dated \in BOOLEAN
           /\ request[r].by \in Users \cup {Admin, None}
    BY <2>1 DEF Request
  <2>3. made' \in 0..MaxRows /\ made + 1 \in Ids
    BY <1>1, <1>2 DEF WriteClaim, WriteAdd, Make, Ids
  <2>4. \A byDns, dated \in BOOLEAN :
          [id |-> made + 1, role |-> request[r].role, byDns |-> byDns, misses |-> 0,
           dated |-> dated] \in Row
    BY <2>2, <2>3 DEF Row, MaxFailedChecks
  <2>5. affiliation' \in [Pair -> Row \cup {None}]
    BY <1>1, <1>2, <2>1, <2>2, <2>4 DEF WriteClaim, WriteAdd, Make
  <2>6. vouched' \in [Pair -> Users \cup {Admin, None}]
    BY <1>1, <1>2, <2>1, <2>2 DEF WriteClaim, WriteAdd
  <2>. QED
    BY <1>1, <1>2, <2>3, <2>5, <2>6 DEF WriteClaim, WriteAdd, Make
<1>3. ASSUME NEW r \in Slots, WriteChange(r)
      PROVE  Types'
  <2>1. Target(r) \in Pair /\ request[r] \in Request
    BY <1>3 DEF WriteChange, IInv, RequestInv, TypeOK
  <2>2. affiliation[Target(r)] \in Row
    BY <1>1, <1>3, <2>1 DEF WriteChange, Has
  <2>3. [affiliation[Target(r)] EXCEPT !.role = request[r].role] \in Row
    BY <2>1, <2>2 DEF Row, Request
  <2>. QED
    BY <1>1, <1>3, <2>1, <2>3 DEF WriteChange, Request
<1>4. ASSUME NEW actor \in Staff, NEW p \in Pair, Remove(actor, p)
      PROVE  Types'
  BY <1>1, <1>4 DEF Remove
<1>5. ASSUME ReadClaims
      PROVE  Types'
  BY <1>1, <1>5 DEF ReadClaims, Has, Row, Ids
<1>6. ASSUME NEW row \in rows, Check(row)
      PROVE  Types'
  <2>1. row \in [of : Pair, id : Ids, misses : 0..MaxFailedChecks - 1, dated : BOOLEAN]
    BY <1>1
  <2>2. Same(row) => /\ affiliation[row.of] \in Row /\ row.misses = affiliation[row.of].misses
                     /\ affiliation[row.of].misses = absent[row.of]
    BY <1>1, <2>1 DEF IInv, ReadInv, ClaimInv, Same, Has
  <2>3. \A n \in 0..MaxFailedChecks - 1 : SetMisses(row, n) => affiliation' \in [Pair -> Row \cup {None}]
    BY <1>1, <2>1, <2>2 DEF SetMisses, Row
  <2>4. Revoke(row) => /\ affiliation' \in [Pair -> Row \cup {None}]
                       /\ vouched' \in [Pair -> Users \cup {Admin, None}]
    BY <1>1, <2>1 DEF Revoke
  <2>5. affiliation' \in [Pair -> Row \cup {None}] /\ vouched' \in [Pair -> Users \cup {Admin, None}]
    BY <1>1, <1>6, <2>1, <2>3, <2>4 DEF Check, MissesOnceFound, IsLastMiss, SetMisses
  <2>6. absent' \in [Pair -> 0..MaxFailedChecks]
    BY <1>1, <1>6, <2>1, <2>2 DEF Check
  <2>. QED BY <1>1, <1>6, <2>5, <2>6 DEF Check
<1>7. ASSUME UNCHANGED <<affiliation, made, vouched, absent>>, rows' = rows \/ rows' = {}
      PROVE  Types'
  BY <1>1, <1>7
<1>. HIDE DEF Types
<1>. QED
  BY <1>2, <1>3, <1>4, <1>5, <1>6, <1>7
  DEF Next, Claim, Add, MakeKey, Fail, AskForKey, DeleteKey, AllowKeys, EditService, EditRecord,
      Resell, Restart, handlers, world

LEMMA OtherTypes ==
  ASSUME IInv, ConstantsDiffer, Next
  PROVE  /\ listing' \in [Services -> {"claimable", "public", "hidden"}]
         /\ mayUseKeys' \in [KeyUsers -> BOOLEAN] /\ keys' \in [KeyUsers -> 0..MaxKeys]
         /\ named' \in [Pair -> BOOLEAN] /\ resold' \in [Services -> BOOLEAN]
<1> DEFINE Types ==
      /\ listing \in [Services -> {"claimable", "public", "hidden"}]
      /\ mayUseKeys \in [KeyUsers -> BOOLEAN] /\ keys \in [KeyUsers -> 0..MaxKeys]
      /\ named \in [Pair -> BOOLEAN] /\ resold \in [Services -> BOOLEAN]
<1> SUFFICES Types'
  OBVIOUS
<1>1. Types /\ MaxKeys \in Nat
  BY DEF IInv, TypeOK, ConstantsDiffer
<1>2. ASSUME NEW s \in Services, EditService(s) \/ Resell(s) PROVE Types'
  <2>1. CASE EditService(s)
    BY <1>1, <2>1 DEF EditService, world
  <2>2. CASE Resell(s)
    <3>1. resold' \in [Services -> BOOLEAN]
      BY <1>1, <2>2, Zenon DEF Resell
    <3>. QED BY <1>1, <2>2, <3>1 DEF Resell, handlers
  <2>. QED BY <1>2, <2>1, <2>2
<1>3. ASSUME NEW r \in Slots, MakeKey(r) PROVE Types'
  BY <1>1, <1>3 DEF MakeKey, IInv, RequestInv, world
<1>4. ASSUME NEW u \in KeyUsers, DeleteKey(u) \/ AllowKeys(u) PROVE Types'
  <2>1. CASE DeleteKey(u)
    BY <1>1, <2>1 DEF DeleteKey, world
  <2>2. CASE AllowKeys(u)
    <3>1. mayUseKeys' \in [KeyUsers -> BOOLEAN]
      BY <1>1, <2>2, Zenon DEF AllowKeys
    <3>. QED BY <1>1, <2>2, <3>1 DEF AllowKeys, world
  <2>. QED BY <1>4, <2>1, <2>2
<1>5. ASSUME NEW p \in Pair, EditRecord(p) PROVE Types'
  BY <1>1, <1>5 DEF EditRecord, handlers
<1>6. ASSUME UNCHANGED <<listing, mayUseKeys, keys, world>> PROVE Types'
  BY <1>1, <1>6 DEF world
<1>. HIDE DEF Types
<1>. QED
  BY <1>2, <1>3, <1>4, <1>5, <1>6
  DEF Next, Claim, Add, WriteClaim, WriteAdd, WriteChange, Fail, AskForKey, Remove, ReadClaims,
      Restart, Check, handlers, world

LEMMA TypesKept == ASSUME IInv, ConstantsDiffer, Next PROVE TypeOK'
BY RequestTypes, RowTypes, OtherTypes DEF IInv, TypeOK

-----------------------------------------------------------------------------
(* Requests under way *)

(***************************************************************************)
(* A request stays what its handler checked: who it is by is not whom it   *)
(* is about, and a claim does not ask to be the owner.                     *)
(***************************************************************************)
LEMMA RequestsKept ==
  ASSUME IInv, ConstantsDiffer, Next
  PROVE  \A r \in Slots : RequestInv(r)'
<1> SUFFICES ASSUME NEW q \in Slots PROVE RequestInv(q)'
  OBVIOUS
<1> USE DEF RequestInv, Target
<1>1. RequestInv(q) /\ request \in [Slots -> Request]
  BY DEF IInv, TypeOK
<1>2. ASSUME NEW r \in Slots, NEW u \in Users, NEW s \in Services, NEW role \in Roles,
             Claim(r, u, s, role)
      PROVE  RequestInv(q)'
  BY <1>1, <1>2 DEF Claim, Begin, ClaimableRoles, Pair
<1>3. ASSUME NEW r \in Slots, NEW u \in Users, NEW s \in Services, NEW role \in Roles,
             NEW actor \in Staff, Add(r, actor, u, s, role)
      PROVE  RequestInv(q)'
  <2>1. actor \notin {None, u}
    BY <1>3 DEF Add, MayChange, Staff, ConstantsDiffer
  <2>. QED BY <1>1, <1>3, <2>1 DEF Add, Begin, Pair
<1>4. ASSUME NEW r \in Slots, NEW u \in KeyUsers, AskForKey(r, u)
      PROVE  RequestInv(q)'
  BY <1>1, <1>4 DEF AskForKey, Begin, Idle
<1>5. ASSUME NEW r \in Slots, Finish(r)
      PROVE  RequestInv(q)'
  BY <1>1, <1>5 DEF Finish, Idle
<1>6. ASSUME UNCHANGED request PROVE RequestInv(q)'
  BY <1>1, <1>6
<1>. QED
  BY <1>2, <1>3, <1>4, <1>5, <1>6
  DEF Next, WriteClaim, WriteAdd, WriteChange, MakeKey, Fail, DeleteKey, AllowKeys, Remove,
      EditService, EditRecord, Resell, ReadClaims, Restart, Check, handlers

-----------------------------------------------------------------------------
(* Affiliations *)

(***************************************************************************)
(* What a step makes of the affiliation of p: nothing; a new row, a claim  *)
(* or the work of somebody else; another role, given by somebody else; no  *)
(* row; or another count of a claim's misses, in step with the history.    *)
(***************************************************************************)
Stays(p) ==
  affiliation'[p] = affiliation[p] /\ vouched'[p] = vouched[p] /\ absent'[p] = absent[p]

IsMade(p) ==
  /\ ~Has(p) /\ Has(p)'
  /\ affiliation'[p].id = made + 1 /\ made' = made + 1
  /\ affiliation'[p].misses = 0 /\ absent'[p] = 0
  /\ \/ affiliation'[p].byDns /\ affiliation'[p].role # "OWNER"
     \/ vouched'[p] \notin {None, p[1]}

GetsRole(p) ==
  /\ Has(p) /\ Has(p)'
  /\ \E role \in Roles : affiliation'[p] = [affiliation[p] EXCEPT !.role = role]
  /\ vouched'[p] \notin {None, p[1]}
  /\ absent'[p] = absent[p]

Goes(p) == Has(p) /\ affiliation'[p] = None /\ vouched'[p] = None

IsChecked(p) ==
  /\ Has(p) /\ Has(p)' /\ affiliation[p].byDns
  /\ \E row \in rows : Same(row) /\ row.of = p /\ rows' = rows \ {row}
  /\ affiliation'[p] = [affiliation[p] EXCEPT !.misses = absent'[p]]
  /\ vouched'[p] = vouched[p]

Changed(p) == Stays(p) \/ IsMade(p) \/ GetsRole(p) \/ Goes(p) \/ IsChecked(p)

LEMMA MadeRows ==
  ASSUME IInv, ConstantsDiffer, NEW r \in Slots, WriteClaim(r) \/ WriteAdd(r), NEW p \in Pair
  PROVE  Stays(p) \/ IsMade(p)
<1>1. Target(r) \in Pair /\ RequestInv(r)
  BY DEF WriteClaim, WriteAdd, IInv, RequestInv
<1>2. /\ affiliation \in [Pair -> Row \cup {None}] /\ vouched \in [Pair -> Users \cup {Admin, None}]
      /\ absent \in [Pair -> 0..MaxFailedChecks] /\ made \in 0..MaxRows
      /\ request[r] \in Request
  BY DEF IInv, TypeOK
<1>3. CASE p # Target(r)
  BY <1>1, <1>2, <1>3 DEF WriteClaim, WriteAdd, Make, Stays
<1>4. CASE p = Target(r)
  <2>1. /\ affiliation'[p].id = made + 1 /\ made' = made + 1
        /\ affiliation'[p].misses = 0 /\ absent'[p] = 0
        /\ ~Has(p)
    BY <1>1, <1>2, <1>4 DEF WriteClaim, WriteAdd, Make
  <2>2. affiliation'[p] \in Row
    <3>1. made + 1 \in Ids /\ request[r].role \in Roles /\ request[r].dated \in BOOLEAN
      BY <1>2 DEF WriteClaim, WriteAdd, Make, Ids, Request, ConstantsDiffer
    <3>2. \A byDns, dated \in BOOLEAN :
            [id |-> made + 1, role |-> request[r].role, byDns |-> byDns, misses |-> 0,
             dated |-> dated] \in Row
      BY <3>1 DEF Row, MaxFailedChecks
    <3>. QED BY <1>1, <1>2, <1>4, <3>1, <3>2 DEF WriteClaim, WriteAdd, Make
  <2>3. Has(p)'
    BY <2>2 DEF Has, ConstantsDiffer
  <2>4. CASE WriteClaim(r)
    <3>1. affiliation'[p].byDns /\ affiliation'[p].role # "OWNER"
      BY <1>1, <1>2, <1>4, <2>4 DEF WriteClaim, Make, RequestInv
    <3>. QED BY <2>1, <2>3, <3>1 DEF IsMade
  <2>5. CASE WriteAdd(r)
    <3>1. vouched'[p] = request[r].by /\ p[1] = request[r].user
      BY <1>1, <1>2, <1>4, <2>5 DEF WriteAdd, Target
    <3>. QED BY <1>1, <2>1, <2>3, <2>5, <3>1 DEF WriteAdd, RequestInv, IsMade
  <2>. QED BY <2>4, <2>5
<1>. QED BY <1>3, <1>4

LEMMA ChangedRoles ==
  ASSUME IInv, ConstantsDiffer, NEW r \in Slots, WriteChange(r), NEW p \in Pair
  PROVE  Stays(p) \/ GetsRole(p)
<1>1. Target(r) \in Pair /\ RequestInv(r) /\ Has(Target(r))
  BY DEF WriteChange, IInv, RequestInv
<1>2. /\ affiliation \in [Pair -> Row \cup {None}] /\ vouched \in [Pair -> Users \cup {Admin, None}]
      /\ request[r] \in Request
  BY DEF IInv, TypeOK
<1>3. CASE p # Target(r)
  BY <1>1, <1>2, <1>3 DEF WriteChange, Stays
<1>4. CASE p = Target(r)
  <2>1. affiliation[p] \in Row /\ request[r].role \in Roles
    BY <1>1, <1>2, <1>4 DEF Has, Request
  <2>2. affiliation'[p] = [affiliation[p] EXCEPT !.role = request[r].role]
    BY <1>1, <1>2, <1>4 DEF WriteChange
  <2>3. Has(p)'
    <3>1. affiliation'[p] \in Row
      BY <2>1, <2>2 DEF Row
    <3>. QED BY <3>1 DEF Has, ConstantsDiffer
  <2>4. vouched'[p] = request[r].by /\ p[1] = request[r].user /\ absent'[p] = absent[p]
    BY <1>1, <1>2, <1>4 DEF WriteChange, Target
  <2>. QED BY <1>1, <1>4, <2>1, <2>2, <2>3, <2>4 DEF WriteChange, RequestInv, GetsRole
<1>. QED BY <1>3, <1>4

LEMMA CheckedRows ==
  ASSUME IInv, ConstantsDiffer, NEW row \in rows, Check(row), NEW p \in Pair
  PROVE  Stays(p) \/ Goes(p) \/ IsChecked(p)
<1>1. /\ affiliation \in [Pair -> Row \cup {None}] /\ vouched \in [Pair -> Users \cup {Admin, None}]
      /\ absent \in [Pair -> 0..MaxFailedChecks]
      /\ row.of \in Pair /\ row.misses \in 0..MaxFailedChecks - 1
  BY DEF IInv, TypeOK
<1>2. CASE p # row.of \/ ~Same(row)
  BY <1>1, <1>2 DEF Check, Revoke, SetMisses, Stays
<1>3. CASE p = row.of /\ Same(row)
  <2>1. affiliation[p] \in Row /\ Has(p) /\ affiliation[p].byDns
        /\ row.misses = affiliation[p].misses /\ absent[p] = row.misses
    BY <1>1, <1>3 DEF Same, Has, IInv, ReadInv, ClaimInv
  <2>2. ASSUME NEW n \in 0..MaxFailedChecks - 1, SetMisses(row, n), absent'[p] = n
        PROVE  IsChecked(p)
    <3>1. affiliation'[p] = [affiliation[p] EXCEPT !.misses = n] /\ vouched'[p] = vouched[p]
      BY <1>1, <1>3, <2>2 DEF SetMisses
    <3>2. Has(p)'
      <4>1. affiliation'[p] \in Row
        BY <2>1, <3>1 DEF Row
      <4>. QED BY <4>1 DEF Has, ConstantsDiffer
    <3>3. rows' = rows \ {row}
      BY DEF Check
    <3>. QED BY <1>3, <2>1, <2>2, <3>1, <3>2, <3>3 DEF IsChecked
  <2>3. ASSUME Revoke(row) PROVE Goes(p)
    BY <1>1, <1>3, <2>1, <2>3 DEF Revoke, Goes
  <2>4. CASE UNCHANGED <<affiliation, vouched, absent>>
    BY <2>4 DEF Stays
  <2>5. CASE named[row.of] /\ SetMisses(row, MissesOnceFound(row)) /\ absent'[p] = 0
    BY <2>2, <2>5 DEF MissesOnceFound, MaxFailedChecks
  <2>6. CASE ~IsLastMiss(row) /\ SetMisses(row, row.misses + 1) /\ absent'[p] = absent[p] + 1
    BY <1>1, <2>1, <2>2, <2>6 DEF IsLastMiss, MaxFailedChecks
  <2>. QED
    BY <1>1, <1>3, <2>3, <2>4, <2>5, <2>6 DEF Check
<1>. QED BY <1>2, <1>3

LEMMA StepOfAffiliation ==
  ASSUME IInv, ConstantsDiffer, Next, NEW p \in Pair
  PROVE  Changed(p)
<1>1. affiliation \in [Pair -> Row \cup {None}] /\ vouched \in [Pair -> Users \cup {Admin, None}]
  BY DEF IInv, TypeOK
<1>2. ASSUME NEW r \in Slots, WriteClaim(r) \/ WriteAdd(r) \/ WriteChange(r) PROVE Changed(p)
  BY <1>2, MadeRows, ChangedRoles DEF Changed
<1>3. ASSUME NEW row \in rows, Check(row) PROVE Changed(p)
  BY <1>3, CheckedRows DEF Changed
<1>4. ASSUME NEW actor \in Staff, NEW q \in Pair, Remove(actor, q) PROVE Changed(p)
  BY <1>1, <1>4 DEF Remove, Changed, Stays, Goes
<1>5. ASSUME UNCHANGED <<affiliation, vouched, absent>> PROVE Changed(p)
  BY <1>5 DEF Changed, Stays
<1>. QED
  BY <1>2, <1>3, <1>4, <1>5
  DEF Next, Claim, Add, MakeKey, Fail, AskForKey, DeleteKey, AllowKeys, EditService, EditRecord,
      Resell, ReadClaims, Restart

(***************************************************************************)
(* Nobody lets themselves into a service's cases.                          *)
(***************************************************************************)
LEMMA OthersStillLetYouIn ==
  ASSUME IInv, ConstantsDiffer, Next
  PROVE  OthersLetYouIn'
<1> SUFFICES ASSUME NEW p \in Pair, Has(p)', OpensCases(affiliation[p])'
             PROVE  vouched'[p] \notin {None, p[1]}
  BY DEF OthersLetYouIn
<1>1. Changed(p)
  BY StepOfAffiliation
<1>2. /\ Has(p) /\ OpensCases(affiliation[p]) => vouched[p] \notin {None, p[1]}
      /\ Has(p) => affiliation[p] \in Row
  BY DEF IInv, OthersLetYouIn, TypeOK, Has
<1>3. CASE Stays(p)
  BY <1>2, <1>3 DEF Stays, Has
<1>4. CASE IsMade(p)
  BY <1>4 DEF IsMade, OpensCases
<1>5. CASE GetsRole(p)
  BY <1>5 DEF GetsRole
<1>6. CASE IsChecked(p)
  BY <1>2, <1>6 DEF IsChecked, OpensCases, Row
<1>. QED
  BY <1>1, <1>3, <1>4, <1>5, <1>6 DEF Changed, Goes, Has

(***************************************************************************)
(* A claim counts the lookups in a row that did not find its record.       *)
(***************************************************************************)
LEMMA ClaimsKept ==
  ASSUME IInv, ConstantsDiffer, Next
  PROVE  \A p \in Pair : ClaimInv(p)'
<1> SUFFICES ASSUME NEW p \in Pair, Has(p)'
             PROVE  /\ affiliation'[p].id <= made'
                    /\ affiliation'[p].byDns => affiliation'[p].misses = absent'[p]
  BY DEF ClaimInv
<1>1. Changed(p)
  BY StepOfAffiliation
<1>2. ClaimInv(p) /\ made \in Nat /\ (Has(p) => affiliation[p] \in Row /\ affiliation[p].id \in Nat)
  BY DEF IInv, TypeOK, Has, Row, Ids, ConstantsDiffer
<1>3. made' \in Nat /\ made <= made'
  <2>1. made' = made \/ made' = made + 1
    BY DEF Next, Claim, Add, WriteClaim, WriteAdd, WriteChange, Make, MakeKey, Fail, AskForKey,
           DeleteKey, AllowKeys, Remove, EditService, EditRecord, Resell, ReadClaims, Restart, Check
  <2>. QED BY <1>2, <2>1
<1>4. CASE Stays(p)
  BY <1>2, <1>3, <1>4 DEF Stays, ClaimInv, Has
<1>5. CASE IsMade(p)
  BY <1>3, <1>5 DEF IsMade
<1>6. CASE GetsRole(p)
  <2>1. /\ affiliation'[p].id = affiliation[p].id /\ affiliation'[p].byDns = affiliation[p].byDns
        /\ affiliation'[p].misses = affiliation[p].misses
    BY <1>2, <1>6 DEF GetsRole, Row
  <2>. QED BY <1>2, <1>3, <1>6, <2>1 DEF GetsRole, ClaimInv
<1>7. CASE IsChecked(p)
  BY <1>2, <1>3, <1>7 DEF IsChecked, ClaimInv, Row
<1>. QED
  BY <1>1, <1>4, <1>5, <1>6, <1>7 DEF Changed, Goes, Has

-----------------------------------------------------------------------------
(* The daily task *)

(***************************************************************************)
(* The task has at most one row of a claim, and while that claim is there  *)
(* no other step changes how many checks missed it.                        *)
(***************************************************************************)
LEMMA RowsKept ==
  ASSUME IInv, ConstantsDiffer, Next
  PROVE  (\A row \in rows : ReadInv(row))' /\ OneRowEach'
<1>1. CASE ReadClaims
  <2>1. \A p \in Pair : Has(p) => affiliation[p].id <= made
    BY DEF IInv, ClaimInv
  <2>2. OneRowEach'
    BY <1>1 DEF ReadClaims, OneRowEach
  <2>3. ASSUME NEW row \in rows' PROVE ReadInv(row)'
    <3>1. PICK p \in Pair : /\ Has(p)
                            /\ row = [of |-> p, id |-> affiliation[p].id,
                                      misses |-> affiliation[p].misses,
                                      dated |-> affiliation[p].dated]
      BY <1>1, <2>3 DEF ReadClaims
    <3>2. row.of = p /\ row.id = affiliation[p].id /\ row.misses = affiliation[p].misses
      BY <3>1
    <3>. QED BY <1>1, <2>1, <3>1, <3>2 DEF ReadClaims, ReadInv, Same, Has
  <2>. QED BY <2>2, <2>3
<1>2. CASE rows' \subseteq rows
  <2>1. OneRowEach'
    BY <1>2 DEF IInv, OneRowEach
  <2>2. ASSUME NEW row \in rows' PROVE ReadInv(row)'
    <3>1. row \in rows /\ ReadInv(row) /\ row.of \in Pair /\ row.id \in Nat
      BY <1>2, <2>2 DEF IInv, TypeOK, Ids
    <3>2. Changed(row.of)
      BY <3>1, StepOfAffiliation
    <3>3. made \in Nat /\ made <= made' /\ made' \in Nat
      <4>1. made' = made \/ made' = made + 1
        BY DEF Next, Claim, Add, WriteClaim, WriteAdd, WriteChange, Make, MakeKey, Fail, AskForKey,
               DeleteKey, AllowKeys, Remove, EditService, EditRecord, Resell, ReadClaims, Restart, Check
      <4>. QED BY <4>1 DEF IInv, TypeOK
    <3>4. CASE Stays(row.of)
      BY <3>1, <3>3, <3>4 DEF Stays, ReadInv, Same, Has
    <3>5. CASE IsMade(row.of)
      <4>1. ~Same(row)'
        BY <3>1, <3>3, <3>5 DEF IsMade, ReadInv, Same
      <4>. QED BY <3>1, <3>3, <4>1 DEF ReadInv
    <3>6. CASE GetsRole(row.of)
      <4>1. affiliation[row.of] \in Row
        BY <3>1, <3>6 DEF GetsRole, Has, IInv, TypeOK
      <4>2. /\ affiliation'[row.of].id = affiliation[row.of].id
            /\ affiliation'[row.of].byDns = affiliation[row.of].byDns
            /\ affiliation'[row.of].misses = affiliation[row.of].misses
        BY <3>6, <4>1 DEF GetsRole, Row
      <4>. QED BY <3>1, <3>3, <3>6, <4>2 DEF GetsRole, ReadInv, Same
    <3>7. CASE Goes(row.of)
      BY <3>1, <3>3, <3>7 DEF Goes, ReadInv, Same, Has
    <3>8. ~IsChecked(row.of)
      BY <2>2, <3>1 DEF IsChecked, IInv, OneRowEach
    <3>. QED BY <3>2, <3>4, <3>5, <3>6, <3>7, <3>8 DEF Changed
  <2>. QED BY <2>1, <2>2
<1>. QED
  BY <1>1, <1>2
  DEF Next, Claim, Add, WriteClaim, WriteAdd, WriteChange, MakeKey, Fail, AskForKey, DeleteKey,
      AllowKeys, Remove, EditService, EditRecord, Resell, Restart, Check, handlers

-----------------------------------------------------------------------------
(* The invariant, and what it says *)

LEMMA Unchanged ==
  ASSUME IInv, UNCHANGED vars
  PROVE  IInv'
BY DEF IInv, vars, handlers, world, TypeOK, RequestInv, Target, OthersLetYouIn, ClaimInv, ReadInv,
       OneRowEach, Has, Same

(***************************************************************************)
(* IInv holds at first, every step keeps it, and so does standing still.   *)
(***************************************************************************)
THEOREM Invariance == Spec => []IInv
<1>1. Init => IInv
  BY InitInvariant, ConstantsAssumption
<1>2. IInv /\ [Next]_vars => IInv'
  <2> SUFFICES ASSUME IInv, [Next]_vars PROVE IInv'
    OBVIOUS
  <2>1. CASE Next
    <3>1. TypeOK' /\ (\A r \in Slots : RequestInv(r))' /\ OthersLetYouIn'
      BY <2>1, ConstantsAssumption, TypesKept, RequestsKept, OthersStillLetYouIn
    <3>2. (\A p \in Pair : ClaimInv(p))' /\ (\A row \in rows : ReadInv(row))' /\ OneRowEach'
      BY <2>1, ConstantsAssumption, ClaimsKept, RowsKept
    <3>. QED BY <3>1, <3>2 DEF IInv
  <2>2. CASE UNCHANGED vars
    BY <2>2, Unchanged
  <2>. QED BY <2>1, <2>2
<1>. QED BY <1>1, <1>2, PTL DEF Spec

(***************************************************************************)
(* Whoever an affiliation lets into a service's cases was named by         *)
(* somebody else or by an admin.                                           *)
(***************************************************************************)
THEOREM StaffLetPeopleIn == Spec => []OthersLetYouIn
<1>1. IInv => OthersLetYouIn
  BY DEF IInv
<1>. QED BY <1>1, Invariance, PTL

(***************************************************************************)
(* A row the task found a reason to revoke: it is the same claim, and it   *)
(* was missed for the last time or the domain was sold.                    *)
(***************************************************************************)
LEMMA CheckedForCause ==
  ASSUME IInv, ConstantsDiffer, NEW row \in rows, Check(row),
         NEW p \in Pair, Has(p), affiliation'[p] = None
  PROVE  /\ affiliation[p].byDns
         /\ absent'[p] = MaxFailedChecks \/ resold[p[2]]
<1>1. /\ affiliation \in [Pair -> Row \cup {None}] /\ absent \in [Pair -> 0..MaxFailedChecks]
      /\ row.of \in Pair /\ row.misses \in 0..MaxFailedChecks - 1
  BY DEF IInv, TypeOK
<1>2. affiliation'[p] # affiliation[p]
  BY DEF Has
<1>3. p = row.of /\ Same(row)
  BY <1>1, <1>2 DEF Check, Revoke, SetMisses
<1>4. affiliation[p] \in Row /\ affiliation[p].byDns
      /\ row.misses = affiliation[p].misses /\ absent[p] = row.misses
  BY <1>1, <1>3 DEF Same, Has, IInv, ReadInv, ClaimInv
<1>5. CASE resold[row.of[2]]
  BY <1>3, <1>4, <1>5
<1>6. CASE IsLastMiss(row) /\ absent' = [absent EXCEPT ![row.of] = @ + 1]
  BY <1>1, <1>3, <1>4, <1>6 DEF IsLastMiss, MaxFailedChecks
<1>7. ASSUME NEW n \in 0..MaxFailedChecks - 1, SetMisses(row, n) PROVE FALSE
  <2>1. affiliation'[p] = [affiliation[p] EXCEPT !.misses = n]
    BY <1>1, <1>3, <1>7 DEF SetMisses
  <2>2. affiliation'[p] \in Row
    BY <1>4, <2>1 DEF Row
  <2>. QED BY <2>2 DEF ConstantsDiffer
<1>8. /\ MissesOnceFound(row) \in 0..MaxFailedChecks - 1
      /\ ~IsLastMiss(row) => row.misses + 1 \in 0..MaxFailedChecks - 1
  BY <1>1 DEF MissesOnceFound, IsLastMiss, MaxFailedChecks
<1>. QED
  BY <1>2, <1>3, <1>5, <1>6, <1>7, <1>8 DEF Check

(***************************************************************************)
(* The daily task removes only claims, and only those that three lookups   *)
(* in a row did not find or whose domain was sold.                         *)
(***************************************************************************)
THEOREM TaskRevokesForCause == Spec => RevokedForCause
<1>1. IInv /\ [Next]_vars => [RevokesForCause]_vars
  <2> SUFFICES ASSUME IInv, Next, NEW p \in Pair, Checks, Has(p), affiliation'[p] = None
               PROVE  affiliation[p].byDns /\ (absent'[p] = MaxFailedChecks \/ resold[p[2]])
    BY DEF RevokesForCause
  <2>1. \E row \in rows : Check(row)
    <3>1. rows' # rows
      BY DEF Checks
    <3>2. affiliation' # affiliation
      BY DEF Has
    <3>. QED
      BY <3>1, <3>2
      DEF Next, Claim, Add, WriteClaim, WriteAdd, WriteChange, MakeKey, Fail, AskForKey, DeleteKey,
          AllowKeys, Remove, EditService, EditRecord, Resell, ReadClaims, Restart
  <2>. QED BY <2>1, CheckedForCause, ConstantsAssumption
<1>. QED BY <1>1, Invariance, PTL DEF Spec, RevokedForCause

-----------------------------------------------------------------------------
(* Signing in *)

People == Users \cup {Root}
Hiding == [admin : People, target : People]

(***************************************************************************)
(* The session a browser's cookie names is of who signed in there last,    *)
(* and the impersonation it names is of the admin who last began one       *)
(* there, as long as Redis has them.                                       *)
(***************************************************************************)
OwnSession(b) ==
  LET s == cookie[b].session IN s # Nobody /\ session[s] # Nobody => session[s] = signedIn[b]

OwnDisguise(b) ==
  LET d == cookie[b].disguise IN d # Nobody /\ disguise[d] # Nobody => disguise[d].admin = hider[b]

SignTypes ==
  /\ offered \subseteq People
  /\ session \in [Sessions -> People \cup {Nobody}]
  /\ disguise \in [Disguises -> Hiding \cup {Nobody}]
  /\ cookie \in [Browsers -> SignIn!Cookies]
  /\ visit \in [Slots -> SignIn!Request]
  /\ \A r \in Slots : /\ visit[r].at # "idle" => visit[r].browser \in Browsers
                      /\ visit[r].at = "create" => visit[r].token \in People
  /\ account \in [People -> SignIn!Standing]
  /\ signedIn \in [Browsers -> People \cup {Nobody}] /\ hider \in [Browsers -> People \cup {Nobody}]

SignInv == SignTypes /\ \A b \in Browsers : OwnSession(b) /\ OwnDisguise(b)

\* The records the handlers write by name.
LEMMA NamedRecords ==
  /\ SignIn!NoAccount \in SignIn!Standing /\ SignIn!NewAccount \in SignIn!Standing
  /\ SignIn!NoCookies \in SignIn!Cookies /\ SignIn!Idle \in SignIn!Request /\ SignIn!Idle.at = "idle"
  /\ SignIn!NoCookies.session = Nobody /\ SignIn!NoCookies.disguise = Nobody
<1>1. PICK no \in BOOLEAN : no = FALSE
  OBVIOUS
<1>2. SignIn!NoAccount \in SignIn!Standing
  BY <1>1 DEF SignIn!NoAccount, SignIn!Standing
<1>3. SignIn!NewAccount \in SignIn!Standing
  BY <1>2 DEF SignIn!NewAccount, SignIn!Standing
<1>4. SignIn!NoCookies \in SignIn!Cookies
  BY DEF SignIn!NoCookies, SignIn!Cookies
<1>. HIDE DEF SignIn!NoAccount
<1>. QED BY <1>2, <1>3, <1>4 DEF SignIn!NoCookies, SignIn!Idle, SignIn!Request

\* Nobody has signed in at first.
LEMMA SignInit == SignIn!Init => SignInv
<1> SUFFICES ASSUME SignIn!Init PROVE SignInv
  OBVIOUS
<1>1. [SignIn!NewAccount EXCEPT !.role = "ADMIN"] \in SignIn!Standing
  BY NamedRecords DEF SignIn!Standing
<1>2. account \in [People -> SignIn!Standing]
  BY <1>1, NamedRecords DEF SignIn!Init, People
<1>. QED BY <1>2, NamedRecords DEF SignIn!Init, SignInv, SignTypes, OwnSession, OwnDisguise, People

(***************************************************************************)
(* Who the middleware takes the sender of a request for.                   *)
(***************************************************************************)
LEMMA Identified ==
  ASSUME SignInv, NEW b \in Browsers
  PROVE  /\ SignIn!OwnAccount(b) \in {Nobody, signedIn[b]} /\ SignIn!OwnAccount(b) \in People \cup {Nobody}
         /\ SignIn!Identity(b).user \in People \cup {Nobody}
         /\ SignIn!Identity(b).actual \in People \cup {Nobody}
         /\ SignIn!Impersonates(b) => /\ SignIn!OwnAccount(b) = hider[b] /\ SignIn!OwnAccount(b) # Nobody
                                      /\ account[hider[b]].role = "ADMIN"
<1> DEFINE s == cookie[b].session
           d == cookie[b].disguise
<1>1. s \in Sessions \cup {Nobody} /\ d \in Disguises \cup {Nobody}
  BY DEF SignInv, SignTypes, SignIn!Cookies
<1>2. /\ s # Nobody => session[s] \in People \cup {Nobody}
      /\ d # Nobody => disguise[d] \in Hiding \cup {Nobody}
  BY <1>1 DEF SignInv, SignTypes
<1>3. OwnSession(b) /\ OwnDisguise(b)
  BY DEF SignInv
<1>4. SignIn!OwnAccount(b) \in {Nobody, signedIn[b]} /\ SignIn!OwnAccount(b) \in People \cup {Nobody}
  BY <1>2, <1>3 DEF SignIn!OwnAccount, OwnSession
<1>5. SignIn!Impersonates(b) =>
        /\ disguise[d] \in Hiding /\ disguise[d].admin = hider[b] /\ SignIn!OwnAccount(b) = hider[b]
        /\ SignIn!OwnAccount(b) # Nobody /\ account[hider[b]].role = "ADMIN"
  BY <1>2, <1>3 DEF SignIn!Impersonates, OwnDisguise
<1>6. SignIn!Identity(b).user \in People \cup {Nobody} /\ SignIn!Identity(b).actual \in People \cup {Nobody}
  <2>1. CASE SignIn!Impersonates(b)
    BY <1>4, <1>5, <2>1 DEF SignIn!Identity, Hiding
  <2>2. CASE ~SignIn!Impersonates(b)
    BY <1>4, <2>2 DEF SignIn!Identity
  <2>. QED BY <2>1, <2>2
<1>. QED BY <1>4, <1>5, <1>6

(***************************************************************************)
(* A request that ended, and what is left when it wrote no id.             *)
(***************************************************************************)
LEMMA Ended ==
  ASSUME SignTypes, NEW r \in Slots, SignIn!Finish(r)
  PROVE  /\ visit' \in [Slots -> SignIn!Request]
         /\ \A q \in Slots : /\ visit'[q].at # "idle" => visit'[q].browser \in Browsers
                             /\ visit'[q].at = "create" => visit'[q].token \in People
BY NamedRecords DEF SignTypes, SignIn!Finish

LEMMA Forgotten ==
  ASSUME SignInv,
         session' \in [Sessions -> People \cup {Nobody}], \A s \in Sessions : session'[s] \in {session[s], Nobody},
         disguise' \in [Disguises -> Hiding \cup {Nobody}],
         \A d \in Disguises : disguise'[d] \in {disguise[d], Nobody},
         cookie' \in [Browsers -> SignIn!Cookies],
         \A c \in Browsers : /\ cookie'[c].session \in {cookie[c].session, Nobody}
                             /\ cookie'[c].disguise \in {cookie[c].disguise, Nobody},
         \A c \in Browsers : signedIn'[c] = signedIn[c] \/ cookie'[c].session = Nobody,
         UNCHANGED hider
  PROVE  \A c \in Browsers : OwnSession(c)' /\ OwnDisguise(c)'
<1> SUFFICES ASSUME NEW c \in Browsers PROVE OwnSession(c)' /\ OwnDisguise(c)'
  OBVIOUS
<1>1. cookie[c].session \in Sessions \cup {Nobody} /\ cookie[c].disguise \in Disguises \cup {Nobody}
  BY DEF SignInv, SignTypes, SignIn!Cookies
<1>2. OwnSession(c) /\ OwnDisguise(c)
  BY DEF SignInv
<1>. QED BY <1>1, <1>2 DEF OwnSession, OwnDisguise

\* A handler's browser, and what its deletions leave in Redis.
LEMMA Handled ==
  ASSUME SignTypes, NEW r \in Slots, visit[r].at # "idle"
  PROVE  /\ SignIn!Browser(r) \in Browsers /\ visit[r] \in SignIn!Request
         /\ SignIn!EndSession(r) \in [Sessions -> People \cup {Nobody}]
         /\ \A s \in Sessions : SignIn!EndSession(r)[s] \in {session[s], Nobody}
         /\ SignIn!EndDisguise(r) \in [Disguises -> Hiding \cup {Nobody}]
         /\ \A d \in Disguises : SignIn!EndDisguise(r)[d] \in {disguise[d], Nobody}
BY DEF SignTypes, SignIn!Browser, SignIn!EndSession, SignIn!EndDisguise

\* The cookies of a browser that loses some of them.
LEMMA FewerCookies ==
  ASSUME SignTypes, NEW b \in Browsers, NEW new \in SignIn!Cookies,
         new.session \in {cookie[b].session, Nobody}, new.disguise \in {cookie[b].disguise, Nobody},
         cookie' = [cookie EXCEPT ![b] = new]
  PROVE  /\ cookie' \in [Browsers -> SignIn!Cookies] /\ cookie'[b] = new
         /\ \A c \in Browsers : /\ cookie'[c].session \in {cookie[c].session, Nobody}
                                /\ cookie'[c].disguise \in {cookie[c].disguise, Nobody}
BY DEF SignTypes

\* The middleware.
LEMMA RequestBegun ==
  ASSUME SignInv, NEW r \in Slots, NEW b \in Browsers, SignIn!Authenticate(r, b)
  PROVE  SignInv'
<1> DEFINE who == SignIn!Identity(b)
           new == [SignIn!Idle EXCEPT !.at = "handle", !.browser = b, !.cookies = cookie[b], !.user = who.user,
                                      !.actual = who.actual,
                                      !.rights = IF who.user = Nobody THEN SignIn!NoAccount ELSE account[who.user]]
<1>1. visit' = [visit EXCEPT ![r] = new] /\ UNCHANGED <<account, offered, session, disguise, cookie, signedIn, hider>>
  BY DEF SignIn!Authenticate, SignIn!redis, SignIn!history
<1>2. who.user \in People \cup {Nobody} /\ who.actual \in People \cup {Nobody}
  BY Identified
<1>3. new \in SignIn!Request /\ new.browser = b /\ new.at = "handle"
  <2>1. cookie[b] \in SignIn!Cookies
    BY DEF SignInv, SignTypes
  <2>2. (IF who.user = Nobody THEN SignIn!NoAccount ELSE account[who.user]) \in SignIn!Standing
    BY <1>2, NamedRecords DEF SignInv, SignTypes
  <2>. HIDE DEF who
  <2>. QED BY <1>2, <2>1, <2>2, NamedRecords DEF SignIn!Request, People
<1>. HIDE DEF new
<1>. QED BY <1>1, <1>3 DEF SignInv, SignTypes, OwnSession, OwnDisguise

\* Logging out, also before a login that fails.
LEMMA LoggedOut ==
  ASSUME SignInv, NEW r \in Slots, SignIn!Logout(r)
  PROVE  SignInv'
<1> DEFINE b == SignIn!Browser(r)
<1>1. /\ visit[r].at # "idle" /\ session' = SignIn!EndSession(r) /\ disguise' = SignIn!EndDisguise(r)
      /\ cookie' = [cookie EXCEPT ![b] = SignIn!NoCookies] /\ signedIn' = [signedIn EXCEPT ![b] = Nobody]
      /\ SignIn!Finish(r) /\ UNCHANGED <<account, offered, hider>>
  BY DEF SignIn!Logout, SignIn!EndBoth, SignIn!Handling
<1>2. /\ cookie' \in [Browsers -> SignIn!Cookies] /\ cookie'[b] = SignIn!NoCookies
      /\ \A c \in Browsers : /\ cookie'[c].session \in {cookie[c].session, Nobody}
                             /\ cookie'[c].disguise \in {cookie[c].disguise, Nobody}
  BY <1>1, Handled, FewerCookies, NamedRecords DEF SignInv
<1>3. \A c \in Browsers : signedIn'[c] = signedIn[c] \/ cookie'[c].session = Nobody
  BY <1>1, <1>2, NamedRecords DEF SignInv, SignTypes
<1>4. \A c \in Browsers : OwnSession(c)' /\ OwnDisguise(c)'
  BY <1>1, <1>2, <1>3, Handled, Forgotten DEF SignInv
<1>. QED BY <1>1, <1>2, <1>4, Handled, Ended DEF SignInv, SignTypes

\* An id that nobody held names what was just written.
LEMMA SessionBegun ==
  ASSUME SignInv, NEW b \in Browsers, NEW s \in Sessions, SignIn!FreshSession(s), NEW u \in People,
         NEW old \in [Sessions -> People \cup {Nobody}], \A t \in Sessions : old[t] \in {session[t], Nobody},
         session' = [old EXCEPT ![s] = u], NEW new \in SignIn!Cookies, new.session = s,
         cookie' = [cookie EXCEPT ![b] = new], signedIn' = [signedIn EXCEPT ![b] = u]
  PROVE  /\ session' \in [Sessions -> People \cup {Nobody}] /\ cookie' \in [Browsers -> SignIn!Cookies]
         /\ signedIn' \in [Browsers -> People \cup {Nobody}]
         /\ cookie'[b] = new /\ \A c \in Browsers \ {b} : cookie'[c] = cookie[c]
         /\ \A c \in Browsers : OwnSession(c)'
<1>1. /\ session' \in [Sessions -> People \cup {Nobody}] /\ cookie' \in [Browsers -> SignIn!Cookies]
      /\ signedIn' \in [Browsers -> People \cup {Nobody}]
      /\ cookie'[b] = new /\ \A c \in Browsers \ {b} : cookie'[c] = cookie[c]
      /\ signedIn'[b] = u /\ \A c \in Browsers \ {b} : signedIn'[c] = signedIn[c]
      /\ session'[s] = u /\ \A t \in Sessions \ {s} : session'[t] \in {session[t], Nobody}
  BY DEF SignInv, SignTypes
<1>2. ASSUME NEW c \in Browsers \ {b} PROVE OwnSession(c)'
  <2>1. cookie[c].session # s
    BY DEF SignIn!FreshSession, SignIn!Held
  <2>2. cookie[c].session \in Sessions \cup {Nobody} /\ OwnSession(c)
    BY DEF SignInv, SignTypes, SignIn!Cookies
  <2>. QED BY <1>1, <2>1, <2>2 DEF OwnSession
<1>3. OwnSession(b)'
  BY <1>1 DEF OwnSession
<1>. QED BY <1>1, <1>2, <1>3

\* A login ends what the cookies named and begins a session.
LEMMA LoggedIn ==
  ASSUME SignInv, NEW r \in Slots, SignIn!Login(r)
  PROVE  SignInv'
<1> DEFINE b == SignIn!Browser(r)
<1>1. PICK u \in People, s \in Sessions :
        /\ SignIn!FreshSession(s) /\ disguise' = SignIn!EndDisguise(r)
        /\ session' = [SignIn!EndSession(r) EXCEPT ![s] = u]
        /\ cookie' = [cookie EXCEPT ![b] = [session |-> s, disguise |-> Nobody]]
        /\ signedIn' = [signedIn EXCEPT ![b] = u]
  BY DEF SignIn!Login, People
<1>2. visit[r].at # "idle" /\ SignIn!Finish(r) /\ UNCHANGED <<account, offered, hider>>
  BY DEF SignIn!Login, SignIn!Handling
<1> DEFINE new == [session |-> s, disguise |-> Nobody]
<1>3. new \in SignIn!Cookies /\ new.session = s /\ new.disguise = Nobody
  BY DEF SignIn!Cookies
<1>4. b \in Browsers /\ SignIn!EndSession(r) \in [Sessions -> People \cup {Nobody}]
      /\ \A t \in Sessions : SignIn!EndSession(r)[t] \in {session[t], Nobody}
      /\ disguise' \in [Disguises -> Hiding \cup {Nobody}]
      /\ \A d \in Disguises : disguise'[d] \in {disguise[d], Nobody}
  BY <1>1, <1>2, Handled DEF SignInv
<1>. HIDE DEF new
<1>5. /\ session' \in [Sessions -> People \cup {Nobody}] /\ cookie' \in [Browsers -> SignIn!Cookies]
      /\ signedIn' \in [Browsers -> People \cup {Nobody}]
      /\ cookie'[b] = new /\ \A c \in Browsers \ {b} : cookie'[c] = cookie[c]
      /\ \A c \in Browsers : OwnSession(c)'
  BY <1>1, <1>3, <1>4, SessionBegun DEF new
<1>6. ASSUME NEW c \in Browsers PROVE OwnDisguise(c)'
  <2>1. cookie[c].disguise \in Disguises \cup {Nobody} /\ OwnDisguise(c)
    BY DEF SignInv, SignTypes, SignIn!Cookies
  <2>. QED BY <1>2, <1>3, <1>4, <1>5, <2>1 DEF OwnDisguise
<1>. QED BY <1>2, <1>4, <1>5, <1>6, Ended DEF SignInv, SignTypes

\* A new account has a session, and the browser keeps its other cookie.
LEMMA AccountCreated ==
  ASSUME SignInv, NEW r \in Slots, SignIn!CreateAccount(r)
  PROVE  SignInv'
<1> DEFINE b == SignIn!Browser(r)
           u == visit[r].token
<1>1. PICK s \in Sessions : /\ SignIn!FreshSession(s) /\ session' = [session EXCEPT ![s] = u]
                            /\ cookie' = [cookie EXCEPT ![b].session = s]
  BY DEF SignIn!CreateAccount
<1>2. /\ visit[r].at # "idle" /\ SignIn!Finish(r) /\ signedIn' = [signedIn EXCEPT ![b] = u]
      /\ offered' = offered \ {u} /\ account' = [account EXCEPT ![u] = SignIn!NewAccount]
      /\ UNCHANGED <<disguise, hider>>
  BY DEF SignIn!CreateAccount
<1> DEFINE new == [cookie[b] EXCEPT !.session = s]
<1>3. b \in Browsers /\ cookie[b] \in SignIn!Cookies /\ u \in People
  BY <1>2, Handled DEF SignInv, SignTypes, SignIn!CreateAccount
<1>4. new \in SignIn!Cookies /\ new.session = s /\ new.disguise = cookie[b].disguise
  BY <1>3 DEF SignIn!Cookies
<1>5. cookie' = [cookie EXCEPT ![b] = new]
  BY <1>1
<1>6. session \in [Sessions -> People \cup {Nobody}]
  BY DEF SignInv, SignTypes
<1>. HIDE DEF new
<1>7. /\ session' \in [Sessions -> People \cup {Nobody}] /\ cookie' \in [Browsers -> SignIn!Cookies]
      /\ signedIn' \in [Browsers -> People \cup {Nobody}]
      /\ cookie'[b] = new /\ \A c \in Browsers \ {b} : cookie'[c] = cookie[c]
      /\ \A c \in Browsers : OwnSession(c)'
  BY <1>1, <1>2, <1>3, <1>4, <1>5, <1>6, SessionBegun
<1>8. \A c \in Browsers : cookie'[c].disguise = cookie[c].disguise
  BY <1>4, <1>7
<1>9. \A c \in Browsers : OwnDisguise(c)'
  BY <1>2, <1>8 DEF SignInv, OwnDisguise
<1>10. account' \in [People -> SignIn!Standing] /\ offered' \subseteq People
  BY <1>2, NamedRecords DEF SignInv, SignTypes
<1>. QED BY <1>2, <1>7, <1>9, <1>10, Ended DEF SignInv, SignTypes

\* An admin takes on an account.
LEMMA DisguiseBegun ==
  ASSUME SignInv, NEW r \in Slots, SignIn!Impersonate(r)
  PROVE  SignInv'
<1> DEFINE b == SignIn!Browser(r)
           admin == visit[r].user
<1>1. PICK target \in People, d \in Disguises :
        /\ SignIn!FreshDisguise(d)
        /\ disguise' = [disguise EXCEPT ![d] = [admin |-> admin, target |-> target]]
        /\ cookie' = [cookie EXCEPT ![b].disguise = d]
  BY DEF SignIn!Impersonate, People
<1>2. /\ visit[r].at # "idle" /\ admin # Nobody /\ SignIn!Finish(r) /\ hider' = [hider EXCEPT ![b] = admin]
      /\ UNCHANGED <<account, offered, session, signedIn>>
  BY DEF SignIn!Impersonate, SignIn!Handling, SignIn!IsAdmin, SignIn!MayAct
<1> DEFINE new == [cookie[b] EXCEPT !.disguise = d]
           begun == [admin |-> admin, target |-> target]
<1>3. b \in Browsers /\ cookie[b] \in SignIn!Cookies /\ admin \in People
  BY <1>2, Handled DEF SignInv, SignTypes, SignIn!Request, People
<1>4. /\ new \in SignIn!Cookies /\ new.disguise = d /\ new.session = cookie[b].session
      /\ begun \in Hiding /\ begun.admin = admin
  BY <1>3 DEF SignIn!Cookies, Hiding
<1>5. cookie' = [cookie EXCEPT ![b] = new] /\ disguise' = [disguise EXCEPT ![d] = begun]
  BY <1>1
<1>. HIDE DEF new, begun
<1>6. /\ cookie' \in [Browsers -> SignIn!Cookies] /\ disguise' \in [Disguises -> Hiding \cup {Nobody}]
      /\ hider' \in [Browsers -> People \cup {Nobody}]
      /\ cookie'[b] = new /\ \A c \in Browsers \ {b} : cookie'[c] = cookie[c] /\ hider'[c] = hider[c]
      /\ hider'[b] = admin /\ disguise'[d] = begun /\ \A e \in Disguises \ {d} : disguise'[e] = disguise[e]
  BY <1>2, <1>3, <1>4, <1>5 DEF SignInv, SignTypes
<1>7. ASSUME NEW c \in Browsers PROVE OwnDisguise(c)'
  <2>1. CASE c = b
    BY <1>4, <1>6, <2>1 DEF OwnDisguise
  <2>2. CASE c # b
    <3>1. cookie[c].disguise # d
      BY <1>1 DEF SignIn!FreshDisguise, SignIn!Held
    <3>2. cookie[c].disguise \in Disguises \cup {Nobody} /\ OwnDisguise(c)
      BY DEF SignInv, SignTypes, SignIn!Cookies
    <3>. QED BY <1>6, <2>2, <3>1, <3>2 DEF OwnDisguise
  <2>. QED BY <2>1, <2>2
<1>8. \A c \in Browsers : cookie'[c].session = cookie[c].session
  BY <1>4, <1>6
<1>9. \A c \in Browsers : OwnSession(c)'
  BY <1>2, <1>8 DEF SignInv, OwnSession
<1>. QED BY <1>2, <1>6, <1>7, <1>9, Ended DEF SignInv, SignTypes

\* An impersonation ends, by itself or with the account.
LEMMA DisguiseEnded ==
  ASSUME SignInv, NEW r \in Slots, visit[r].at # "idle", disguise' = SignIn!EndDisguise(r),
         cookie' = [cookie EXCEPT ![SignIn!Browser(r)].disguise = Nobody], SignIn!Finish(r),
         account' \in [People -> SignIn!Standing], UNCHANGED <<offered, session, signedIn, hider>>
  PROVE  SignInv'
<1> DEFINE b == SignIn!Browser(r)
           new == [cookie[b] EXCEPT !.disguise = Nobody]
<1>1. b \in Browsers /\ cookie[b] \in SignIn!Cookies
  BY Handled DEF SignInv, SignTypes
<1>2. new \in SignIn!Cookies /\ new.disguise = Nobody /\ new.session = cookie[b].session
  BY <1>1 DEF SignIn!Cookies
<1>3. cookie' = [cookie EXCEPT ![b] = new]
  OBVIOUS
<1>. HIDE DEF new
<1>4. /\ cookie' \in [Browsers -> SignIn!Cookies]
      /\ \A c \in Browsers : /\ cookie'[c].session \in {cookie[c].session, Nobody}
                             /\ cookie'[c].disguise \in {cookie[c].disguise, Nobody}
  BY <1>1, <1>2, <1>3, FewerCookies DEF SignInv
<1>5. \A c \in Browsers : OwnSession(c)' /\ OwnDisguise(c)'
  BY <1>4, Handled, Forgotten DEF SignInv, SignTypes
<1>. QED BY <1>4, <1>5, Handled, Ended DEF SignInv, SignTypes

\* Deleting an account logs its owner out, or ends the impersonation.
LEMMA AccountDeleted ==
  ASSUME SignInv, NEW r \in Slots, SignIn!Delete(r)
  PROVE  SignInv'
<1> DEFINE b == SignIn!Browser(r)
<1>1. /\ visit[r].at # "idle" /\ SignIn!Finish(r) /\ UNCHANGED <<offered, hider>>
      /\ account' = [account EXCEPT ![visit[r].user] = SignIn!NoAccount]
  BY DEF SignIn!Delete, SignIn!Handling
<1>2. account' \in [People -> SignIn!Standing]
  BY <1>1, NamedRecords DEF SignInv, SignTypes
<1>3. CASE visit[r].actual # Nobody
  <2>1. disguise' = SignIn!EndDisguise(r) /\ UNCHANGED <<session, signedIn>>
        /\ cookie' = [cookie EXCEPT ![b].disguise = Nobody]
    BY <1>3 DEF SignIn!Delete
  <2>. QED BY <1>1, <1>2, <2>1, DisguiseEnded
<1>4. CASE visit[r].actual = Nobody
  <2>1. /\ session' = SignIn!EndSession(r) /\ disguise' = SignIn!EndDisguise(r)
        /\ cookie' = [cookie EXCEPT ![b] = SignIn!NoCookies] /\ signedIn' = [signedIn EXCEPT ![b] = Nobody]
    BY <1>4 DEF SignIn!Delete, SignIn!EndBoth
  <2>2. /\ cookie' \in [Browsers -> SignIn!Cookies] /\ cookie'[b] = SignIn!NoCookies
        /\ \A c \in Browsers : /\ cookie'[c].session \in {cookie[c].session, Nobody}
                               /\ cookie'[c].disguise \in {cookie[c].disguise, Nobody}
    BY <1>1, <2>1, Handled, FewerCookies, NamedRecords DEF SignInv
  <2>3. \A c \in Browsers : signedIn'[c] = signedIn[c] \/ cookie'[c].session = Nobody
    BY <2>1, <2>2, NamedRecords DEF SignInv, SignTypes
  <2>4. \A c \in Browsers : OwnSession(c)' /\ OwnDisguise(c)'
    BY <1>1, <2>1, <2>2, <2>3, Handled, Forgotten DEF SignInv
  <2>. QED BY <1>1, <1>2, <2>1, <2>2, <2>4, Handled, Ended DEF SignInv, SignTypes
<1>. QED BY <1>3, <1>4

\* What Redis forgets.
LEMMA Expired ==
  ASSUME SignInv, SignIn!Expire
  PROVE  SignInv'
<1>1. UNCHANGED <<account, cookie, visit, signedIn, hider>>
  BY DEF SignIn!Expire, SignIn!history
<1>2. /\ session' \in [Sessions -> People \cup {Nobody}] /\ \A s \in Sessions : session'[s] \in {session[s], Nobody}
      /\ disguise' \in [Disguises -> Hiding \cup {Nobody}]
      /\ \A d \in Disguises : disguise'[d] \in {disguise[d], Nobody}
      /\ offered' \subseteq People
  BY DEF SignIn!Expire, SignInv, SignTypes
<1>3. \A c \in Browsers : OwnSession(c)' /\ OwnDisguise(c)'
  BY <1>1, <1>2, Forgotten DEF SignInv, SignTypes
<1>. QED BY <1>1, <1>2, <1>3 DEF SignInv, SignTypes

\* A token is about to become an account.
LEMMA TokenTaken ==
  ASSUME SignInv, NEW r \in Slots, SignIn!Generate(r)
  PROVE  SignInv'
<1>1. PICK u \in offered : visit' = [visit EXCEPT ![r].at = "create", ![r].token = u]
  BY DEF SignIn!Generate
<1>2. visit[r].at # "idle" /\ UNCHANGED <<account, offered, session, disguise, cookie, signedIn, hider>>
  BY DEF SignIn!Generate, SignIn!Handling, SignIn!redis, SignIn!history
<1> DEFINE new == [visit[r] EXCEPT !.at = "create", !.token = u]
<1>3. visit[r] \in SignIn!Request /\ visit[r].browser \in Browsers /\ u \in People
  BY <1>2 DEF SignInv, SignTypes
<1>4. new \in SignIn!Request /\ new.browser = visit[r].browser /\ new.token = u
  <2>1. PICK at \in {"idle", "handle", "create"} : at = "create"
    OBVIOUS
  <2>. QED BY <1>3, <2>1 DEF SignIn!Request, People
<1>5. visit' = [visit EXCEPT ![r] = new]
  BY <1>1, <1>3 DEF SignInv, SignTypes
<1>. HIDE DEF new
<1>. QED BY <1>2, <1>3, <1>4, <1>5 DEF SignInv, SignTypes, OwnSession, OwnDisguise

(***************************************************************************)
(* Every step of the accounts keeps it.                                    *)
(***************************************************************************)
LEMMA SignKept == SignInv /\ SignIn!Next => SignInv'
<1> SUFFICES ASSUME SignInv, SignIn!Next PROVE SignInv'
  OBVIOUS
<1>1. ASSUME NEW r \in Slots, NEW b \in Browsers, SignIn!Authenticate(r, b) PROVE SignInv'
  BY <1>1, RequestBegun
<1>2. ASSUME NEW r \in Slots, SignIn!Login(r) PROVE SignInv'
  BY <1>2, LoggedIn
<1>3. ASSUME NEW r \in Slots, SignIn!Logout(r) PROVE SignInv'
  BY <1>3, LoggedOut
<1>4. ASSUME NEW r \in Slots, SignIn!End(r) PROVE SignInv'
  BY <1>4, Ended DEF SignIn!End, SignIn!redis, SignIn!history, SignInv, SignTypes, OwnSession, OwnDisguise
<1>5. ASSUME NEW r \in Slots, SignIn!PreGenerateToken(r) PROVE SignInv'
  BY <1>5, Ended DEF SignIn!PreGenerateToken, SignInv, SignTypes, OwnSession, OwnDisguise, People
<1>6. ASSUME NEW r \in Slots, SignIn!Generate(r) PROVE SignInv'
  BY <1>6, TokenTaken
<1>7. ASSUME NEW r \in Slots, SignIn!CreateAccount(r) PROVE SignInv'
  BY <1>7, AccountCreated
<1>8. ASSUME NEW r \in Slots, SignIn!Impersonate(r) PROVE SignInv'
  BY <1>8, DisguiseBegun
<1>9. ASSUME NEW r \in Slots, SignIn!StopImpersonating(r) PROVE SignInv'
  BY <1>9, DisguiseEnded DEF SignIn!StopImpersonating, SignIn!Handling, SignIn!history, SignInv, SignTypes
<1>10. ASSUME NEW r \in Slots, SignIn!Delete(r) PROVE SignInv'
  BY <1>10, AccountDeleted
<1>11. ASSUME NEW r \in Slots, SignIn!UpdateUser(r) PROVE SignInv'
  <2>1. account' \in [People -> SignIn!Standing]
    <3>1. PICK u \in People, role \in {"USER", "STAFF", "ADMIN"}, spammer \in BOOLEAN :
            account' = [account EXCEPT ![u] = [exists |-> TRUE, role |-> role, spammer |-> spammer]]
      BY <1>11 DEF SignIn!UpdateUser, People
    <3>2. PICK yes \in BOOLEAN : yes = TRUE
      OBVIOUS
    <3>3. [exists |-> yes, role |-> role, spammer |-> spammer] \in SignIn!Standing
      BY DEF SignIn!Standing
    <3>. QED BY <3>1, <3>2, <3>3 DEF SignInv, SignTypes
  <2>. QED BY <1>11, <2>1, Ended DEF SignIn!UpdateUser, SignIn!redis, SignIn!history, SignInv, SignTypes,
                                   OwnSession, OwnDisguise
<1>12. ASSUME SignIn!Expire PROVE SignInv'
  BY <1>12, Expired
<1>. QED BY <1>1, <1>2, <1>3, <1>4, <1>5, <1>6, <1>7, <1>8, <1>9, <1>10, <1>11, <1>12
         DEF SignIn!Next, SignIn!Handle

(***************************************************************************)
(* Only the middleware begins a request, and it looks at the cookies of    *)
(* the browser that sent it.                                               *)
(***************************************************************************)
LEMMA OnlyAuthenticationBegins ==
  ASSUME SignTypes, SignIn!Next, NEW r \in Slots, SignIn!Began(r)
  PROVE  \E b \in Browsers : SignIn!Authenticate(r, b)
<1>1. ASSUME NEW q \in Slots, SignIn!Handle(q)
      PROVE  visit'[r] \in {visit[r], SignIn!Idle} \/ visit[r] # SignIn!Idle
  <2>1. CASE SignIn!Finish(q)
    BY <2>1 DEF SignTypes, SignIn!Finish
  <2>2. CASE SignIn!Generate(q)
    <3>1. visit[q].at = "handle"
      BY <2>2 DEF SignIn!Generate, SignIn!Handling
    <3>2. CASE q = r
      BY <3>1, <3>2, NamedRecords
    <3>3. CASE q # r
      BY <2>2, <3>3 DEF SignIn!Generate, SignTypes
    <3>. QED BY <3>2, <3>3
  <2>. QED BY <1>1, <2>1, <2>2
           DEF SignIn!Handle, SignIn!Login, SignIn!Logout, SignIn!End, SignIn!PreGenerateToken,
               SignIn!CreateAccount, SignIn!Impersonate, SignIn!StopImpersonating, SignIn!Delete, SignIn!UpdateUser
<1>2. ASSUME SignIn!Expire PROVE visit' = visit
  BY <1>2 DEF SignIn!Expire
<1>3. ASSUME NEW q \in Slots, NEW b \in Browsers, SignIn!Authenticate(q, b), q # r PROVE visit'[r] = visit[r]
  BY <1>3 DEF SignIn!Authenticate, SignTypes
<1>. QED BY <1>1, <1>2, <1>3, NamedRecords DEF SignIn!Next, SignIn!Began

(***************************************************************************)
(* So whom a new request acts for is who signed in, or an admin's choice.  *)
(***************************************************************************)
LEMMA SignedInActs ==
  ASSUME SignInv, SignIn!Next, NEW r \in Slots, SignIn!Began(r)
  PROVE  LET b == visit'[r].browser
             own == IF visit'[r].actual = Nobody THEN visit'[r].user ELSE visit'[r].actual
         IN /\ own \in {Nobody, signedIn[b]}
            /\ visit'[r].actual # Nobody => hider[b] = visit'[r].actual /\ account[visit'[r].actual].role = "ADMIN"
<1>1. PICK b \in Browsers : SignIn!Authenticate(r, b)
  BY OnlyAuthenticationBegins DEF SignInv
<1> DEFINE who == SignIn!Identity(b)
<1>2. visit'[r].browser = b /\ visit'[r].user = who.user /\ visit'[r].actual = who.actual
  BY <1>1 DEF SignIn!Authenticate, SignIn!Idle, SignInv, SignTypes
<1>3. IF SignIn!Impersonates(b) THEN who.actual = SignIn!OwnAccount(b)
                                ELSE who.actual = Nobody /\ who.user = SignIn!OwnAccount(b)
  BY DEF SignIn!Identity
<1>. HIDE DEF who
<1>. QED BY <1>2, <1>3, Identified

-----------------------------------------------------------------------------
(* The discussion *)

AnyStatus == {"APPROVED", "PENDING", "WITHDRAWN"}
AnyRow == [id : Discussion!Posts, status : AnyStatus]
AnyDrawn == [id : Discussion!Posts, status : AnyStatus, as : {"text", "placeholder", "nothing"}]
Readers == {Author, Owner, Moderator}
AnyPage == [at : {"none", "target", "note", "thread", "list", "choose", "previews", "answered"},
            viewer : Readers \cup {None}, target : Discussion!Posts \cup {None}, asked : {None, 1},
            matching : (SUBSET Discussion!Roots) \cup {None}, rows : SUBSET AnyRow, before : Nat \cup {None},
            chosen : SUBSET Discussion!Posts, seen : SUBSET AnyDrawn, undisturbed : BOOLEAN]


Sees(v, p) == Discussion!Visible(v, TRUE, p)
ShowsTo(v, p, seen) ==
  Sees(v, p) /\ Sees(v, Discussion!RootOf(p)) => \E r \in seen : r.id = p /\ r.as # "nothing"

TextsReadable == \A r \in page.seen : r.as = "text" => Discussion!CanRead(page.viewer, r.id, r.status)

(***************************************************************************)
(* While nothing was decided since a link was opened, what the page has    *)
(* read is what a query would answer now.                                  *)
(***************************************************************************)
ReadIsTrue ==
  LET p == page.target IN
  /\ page.at = "note" => ~Discussion!CanRead(page.viewer, p, status[p])
  /\ page.at = "thread" =>
       /\ page.rows \in {{}, {Discussion!Row(Discussion!RootOf(p))}}
       /\ page.before # None => page.before = Discussion!Cardinality({q \in Discussion!InThread : q < p})
  /\ page.at = "answered" => ShowsTo(page.viewer, p, page.seen)

PageInv ==
  /\ page \in AnyPage /\ status \in [Discussion!Posts -> AnyStatus]
  /\ TextsReadable
  /\ page.at \in {"target", "note"} => (page.rows = {} /\ page.before = None)
  /\ page.at \in {"target", "note", "thread"} => page.target \in Discussion!Posts
  /\ page.at \in {"list", "choose", "previews"} => page.target = None
  /\ (page.target # None /\ page.asked = None /\ page.undisturbed) => ReadIsTrue

\* The posts of the instance.
LEMMA ThreePosts ==
  /\ Discussion!Posts = 1..3 /\ Discussion!Roots \subseteq Discussion!Posts
  /\ Discussion!Replies \subseteq Discussion!Posts
  /\ \A p \in Discussion!Posts :
       /\ Discussion!RootOf(p) \in Discussion!Roots
       /\ p \in Discussion!Roots => Discussion!RootOf(p) = p
       /\ p \notin Discussion!Roots => p \in Discussion!Thread(Discussion!RootOf(p))
BY DEF Discussion!Posts, Discussion!Roots, Discussion!Replies, Discussion!RootOf, Discussion!Thread

(***************************************************************************)
(* Who sees a post of a thread they look at is drawn something of it; and  *)
(* a post whose text is drawn may be read.                                 *)
(***************************************************************************)
LEMMA SeenIsDrawn ==
  ASSUME NEW v, NEW p \in Discussion!Posts, Sees(v, p)
  PROVE  Discussion!Drawn(v, Discussion!Row(p)) # "nothing"
BY DEF Sees, Discussion!Visible, Discussion!Drawn, Discussion!Row, Discussion!CanRead, Discussion!LeavesPlaceholder

LEMMA DrawnTexts ==
  ASSUME NEW v, NEW row
  PROVE  /\ Discussion!Drawn(v, row) \in {"text", "placeholder", "nothing"}
         /\ Discussion!Drawn(v, row) = "text" => Discussion!CanRead(v, row.id, row.status)
<1>1. CASE Discussion!CanRead(v, row.id, row.status)
  BY <1>1 DEF Discussion!Drawn
<1>2. CASE ~Discussion!CanRead(v, row.id, row.status) /\ row.status = "WITHDRAWN" /\ row.id \in Discussion!Roots
  BY <1>2 DEF Discussion!Drawn
<1>3. CASE ~Discussion!CanRead(v, row.id, row.status) /\ ~(row.status = "WITHDRAWN" /\ row.id \in Discussion!Roots)
  BY <1>3 DEF Discussion!Drawn
<1>. QED BY <1>1, <1>2, <1>3

LEMMA SeenRows ==
  ASSUME NEW v, NEW got \in SUBSET AnyRow
  PROVE  /\ Discussion!Seen(v, got) \in SUBSET AnyDrawn
         /\ \A r \in Discussion!Seen(v, got) : r.as = "text" => Discussion!CanRead(v, r.id, r.status)
         /\ \A row \in got : \E r \in Discussion!Seen(v, got) : r.id = row.id /\ r.as = Discussion!Drawn(v, row)
<1> DEFINE of(row) == [id |-> row.id, status |-> row.status, as |-> Discussion!Drawn(v, row)]
<1>1. ASSUME NEW row \in got
      PROVE  /\ of(row) \in AnyDrawn /\ of(row).id = row.id /\ of(row).as = Discussion!Drawn(v, row)
             /\ of(row).as = "text" => Discussion!CanRead(v, of(row).id, of(row).status)
  BY DrawnTexts DEF AnyRow, AnyDrawn
<1>2. Discussion!Seen(v, got) = {of(row) : row \in got}
  BY DEF Discussion!Seen
<1>. HIDE DEF of
<1>. QED BY <1>1, <1>2

\* A step of the page leaves the posts alone.
LEMMA SameView ==
  ASSUME UNCHANGED Discussion!posts
  PROVE  /\ status' = status
         /\ \A v, p : Sees(v, p)' = Sees(v, p)
         /\ \A p : Discussion!Row(p)' = Discussion!Row(p)
BY DEF Discussion!posts, Sees, Discussion!Visible, Discussion!LeavesPlaceholder, Discussion!Row

\* No page is open at first.
LEMMA DiscussionInit == Discussion!Init => PageInv
<1> SUFFICES ASSUME Discussion!Init PROVE PageInv
  OBVIOUS
<1>1. page = Discussion!NoPage /\ status \in [Discussion!Posts -> AnyStatus]
  BY DEF Discussion!Init, AnyStatus
<1>2. PICK yes \in BOOLEAN : yes = TRUE
  OBVIOUS
<1>3. Discussion!NoPage \in AnyPage /\ Discussion!NoPage.at = "none" /\ Discussion!NoPage.seen = {}
  BY <1>2 DEF Discussion!NoPage, AnyPage
<1>. QED BY <1>1, <1>3 DEF PageInv, TextsReadable, ReadIsTrue

\* What a step makes of the page, and why it keeps the invariant.
LEMMA PageMoved ==
  ASSUME PageInv, UNCHANGED Discussion!posts, page' \in AnyPage, TextsReadable',
         page'.at \in {"target", "note"} => page'.rows = {} /\ page'.before = None,
         page'.at \in {"target", "note", "thread"} => page'.target \in Discussion!Posts,
         page'.at \in {"list", "choose", "previews"} => page'.target = None,
         page'.target # None /\ page'.asked = None /\ page'.undisturbed => ReadIsTrue'
  PROVE  PageInv'
<1>1. Discussion!Posts' = Discussion!Posts /\ AnyPage' = AnyPage /\ AnyStatus' = AnyStatus
  BY DEF Discussion!Posts, AnyPage, AnyStatus, AnyRow, AnyDrawn, Readers, Discussion!Roots
<1>. QED BY <1>1, SameView DEF PageInv

\* A page is asked for: a link, or the list.
LEMMA LinkOpened ==
  ASSUME PageInv, NEW v \in Readers, NEW p \in Discussion!Posts, NEW n \in {None, 1}, Discussion!OpenLink(v, p, n)
  PROVE  PageInv'
<1> DEFINE new == [Discussion!NoPage EXCEPT !.at = "target", !.viewer = v, !.target = p, !.asked = n]
<1>1. page' = new /\ UNCHANGED Discussion!posts
  BY DEF Discussion!OpenLink
<1>2. PICK yes \in BOOLEAN : yes = TRUE
  OBVIOUS
<1>3. /\ new \in AnyPage /\ new.at = "target" /\ new.rows = {} /\ new.before = None /\ new.seen = {}
      /\ new.target = p
  BY <1>2 DEF AnyPage, Discussion!NoPage
<1>. HIDE DEF new
<1>. QED BY <1>1, <1>3, PageMoved DEF TextsReadable, ReadIsTrue

LEMMA ListOpened ==
  ASSUME PageInv, NEW v \in Readers, NEW m \in {None} \cup SUBSET Discussion!Roots, Discussion!OpenList(v, m)
  PROVE  PageInv'
<1> DEFINE new == [Discussion!NoPage EXCEPT !.at = "list", !.viewer = v, !.matching = m]
<1>1. page' = new /\ UNCHANGED Discussion!posts
  BY DEF Discussion!OpenList
<1>2. PICK yes \in BOOLEAN : yes = TRUE
  OBVIOUS
<1>3. /\ new \in AnyPage /\ new.at = "list" /\ new.seen = {} /\ new.target = None
  BY <1>2 DEF AnyPage, Discussion!NoPage
<1>. HIDE DEF new
<1>. QED BY <1>1, <1>3, PageMoved DEF TextsReadable, ReadIsTrue

\* A page that was answered with these rows.
LEMMA RowsAnswered ==
  ASSUME PageInv, NEW got \in SUBSET AnyRow
  PROVE  LET new == Discussion!Answered(got) IN
         /\ new \in AnyPage /\ new.at = "answered" /\ new.viewer = page.viewer /\ new.target = page.target
         /\ new.asked = page.asked /\ new.undisturbed = page.undisturbed
         /\ new.seen = Discussion!Seen(page.viewer, got) /\ new.rows = {} /\ new.before = None
<1>1. Discussion!Seen(page.viewer, got) \in SUBSET AnyDrawn
  BY SeenRows
<1>. QED BY <1>1 DEF Discussion!Answered, PageInv, AnyPage

\* May the viewer read the post the link names?
LEMMA TargetRead ==
  ASSUME PageInv, Discussion!ReadTarget
  PROVE  PageInv'
<1> DEFINE at == IF Discussion!CanRead(page.viewer, page.target, status[page.target]) THEN "thread" ELSE "note"
           new == [page EXCEPT !.at = at]
<1>1. page' = new /\ UNCHANGED Discussion!posts /\ page.at = "target"
  BY DEF Discussion!ReadTarget
<1>2. /\ new \in AnyPage /\ new.at = at /\ new.seen = page.seen /\ new.rows = {} /\ new.before = None
      /\ new.viewer = page.viewer /\ new.target = page.target /\ page.target \in Discussion!Posts
  BY <1>1 DEF PageInv, AnyPage
<1>3. at \in {"thread", "note"}
  OBVIOUS
<1>4. at = "note" => ~Discussion!CanRead(page.viewer, page.target, status[page.target])
  OBVIOUS
<1>. HIDE DEF new, at
<1>5. TextsReadable'
  BY <1>1, <1>2 DEF TextsReadable, PageInv, Discussion!CanRead, Discussion!CanModerate
<1>6. ReadIsTrue'
  BY <1>1, <1>2, <1>3, <1>4, SameView DEF ReadIsTrue, Discussion!CanRead, Discussion!CanModerate
<1>. QED BY <1>1, <1>2, <1>3, <1>5, <1>6, PageMoved

\* They may not, and it left a note or nothing.
LEMMA NoteRead ==
  ASSUME PageInv, Discussion!ReadNote
  PROVE  PageInv'
<1>1. UNCHANGED Discussion!posts /\ page.at = "note" /\ page.rows = {} /\ page.before = None
  BY DEF Discussion!ReadNote, PageInv
<1>2. CASE Discussion!LeavesPlaceholder(page.target)
  <2> DEFINE new == [page EXCEPT !.at = "thread"]
  <2>1. page' = new
    BY <1>2 DEF Discussion!ReadNote
  <2>2. /\ new \in AnyPage /\ new.at = "thread" /\ new.seen = page.seen /\ new.rows = {} /\ new.before = None
        /\ new.viewer = page.viewer /\ new.target \in Discussion!Posts
    BY <1>1 DEF PageInv, AnyPage
  <2>. HIDE DEF new
  <2>3. TextsReadable'
    BY <1>1, <2>1, <2>2 DEF TextsReadable, PageInv, Discussion!CanRead, Discussion!CanModerate
  <2>. QED BY <1>1, <2>1, <2>2, <2>3, PageMoved DEF ReadIsTrue
<1>3. CASE ~Discussion!LeavesPlaceholder(page.target)
  <2>1. page' = Discussion!Answered({})
    BY <1>3 DEF Discussion!ReadNote
  <2>2. /\ page' \in AnyPage /\ page'.at = "answered" /\ page'.seen = {} /\ page'.viewer = page.viewer
        /\ page'.target = page.target /\ page'.asked = page.asked /\ page'.undisturbed = page.undisturbed
    BY <2>1, RowsAnswered DEF Discussion!Seen
  <2>3. ASSUME page.target # None, page.asked = None, page.undisturbed PROVE ReadIsTrue'
    <3>1. ~Discussion!CanRead(page.viewer, page.target, status[page.target])
      BY <1>1, <2>3 DEF PageInv, ReadIsTrue
    <3>2. ~Sees(page.viewer, page.target)
      BY <1>3, <3>1 DEF Sees, Discussion!Visible, Discussion!CanRead
    <3>3. ~Sees(page.viewer, page.target)'
      BY <1>1, <2>2, <3>2 DEF Discussion!posts, Sees, Discussion!Visible, Discussion!LeavesPlaceholder, Discussion!CanModerate
    <3>. QED BY <2>2, <3>3 DEF ReadIsTrue, ShowsTo
  <2>. QED BY <1>1, <2>2, <2>3, PageMoved DEF TextsReadable
<1>. QED BY <1>2, <1>3

\* Rows that were just read are rows of posts.
LEMMA RowsOfPosts ==
  ASSUME PageInv, NEW ps \in SUBSET Discussion!Posts
  PROVE  {Discussion!Row(p) : p \in ps} \in SUBSET AnyRow
BY DEF PageInv, AnyRow, Discussion!Row

\* What the posts of a thread are does not change with the page.
LEMMA SameThread ==
  ASSUME UNCHANGED Discussion!posts, page'.viewer = page.viewer, page'.target = page.target
  PROVE  /\ Discussion!InThread' = Discussion!InThread
         /\ Discussion!RootOf(page.target)' = Discussion!RootOf(page.target)
         /\ Discussion!Row(Discussion!RootOf(page.target))' = Discussion!Row(Discussion!RootOf(page.target))
         /\ Sees(page.viewer, page.target)' = Sees(page.viewer, page.target)
         /\ Sees(page.viewer, Discussion!RootOf(page.target))' = Sees(page.viewer, Discussion!RootOf(page.target))
BY DEF Discussion!posts, Sees, Discussion!Visible, Discussion!LeavesPlaceholder, Discussion!Row, Discussion!CanModerate,
       Discussion!InThread, Discussion!Thread, Discussion!RootOf

\* The first post of the thread, if the viewer sees it.
LEMMA RootRead ==
  ASSUME PageInv, Discussion!ReadRoot
  PROVE  PageInv'
<1>1. UNCHANGED Discussion!posts /\ page.at = "thread" /\ page.target \in Discussion!Posts
  BY DEF Discussion!ReadRoot, PageInv
<1>2. PICK root \in Discussion!Posts : root = Discussion!RootOf(page.target)
  BY <1>1, ThreePosts
<1>3. CASE Discussion!Visible(page.viewer, TRUE, root)
  <2> DEFINE new == [page EXCEPT !.rows = {Discussion!Row(root)}]
  <2>1. page' = new
    BY <1>2, <1>3 DEF Discussion!ReadRoot
  <2>2. Discussion!Row(root) \in AnyRow
    BY <1>2 DEF PageInv, AnyRow, Discussion!Row
  <2>3. /\ new \in AnyPage /\ new.at = "thread" /\ new.seen = page.seen /\ new.rows = {Discussion!Row(root)}
        /\ new.before = page.before /\ new.viewer = page.viewer /\ new.target = page.target
        /\ new.asked = page.asked /\ new.undisturbed = page.undisturbed
    BY <1>1, <2>2 DEF PageInv, AnyPage
  <2>. HIDE DEF new
  <2>4. TextsReadable'
    BY <1>1, <2>1, <2>3 DEF TextsReadable, PageInv, Discussion!CanRead, Discussion!CanModerate
  <2>5. ASSUME page.target # None, page.asked = None, page.undisturbed PROVE ReadIsTrue'
    <3>1. page.before # None => page.before = Discussion!Cardinality({q \in Discussion!InThread : q < page.target})
      BY <1>1, <2>5 DEF PageInv, ReadIsTrue
    <3>2. /\ Discussion!InThread' = Discussion!InThread
          /\ Discussion!Row(Discussion!RootOf(page.target))' = Discussion!Row(root)
      BY <1>1, <1>2, <2>1, <2>3, SameThread
    <3>. QED BY <1>1, <2>1, <2>3, <3>1, <3>2 DEF ReadIsTrue, Discussion!Cardinality
  <2>. QED BY <1>1, <2>1, <2>3, <2>4, <2>5, PageMoved
<1>4. CASE ~Discussion!Visible(page.viewer, TRUE, root)
  <2>1. page' = Discussion!Answered({})
    BY <1>2, <1>4 DEF Discussion!ReadRoot
  <2>2. /\ page' \in AnyPage /\ page'.at = "answered" /\ page'.seen = {} /\ page'.viewer = page.viewer
        /\ page'.target = page.target
    BY <2>1, RowsAnswered DEF Discussion!Seen
  <2>3. ~Sees(page.viewer, Discussion!RootOf(page.target))'
    BY <1>1, <1>2, <1>4, <2>2, SameThread DEF Sees
  <2>. QED BY <1>1, <2>2, <2>3, PageMoved DEF TextsReadable, ReadIsTrue, ShowsTo
<1>. QED BY <1>3, <1>4

\* A count of some posts is a number.
LEMMA PostsCounted ==
  ASSUME NEW ps \in SUBSET Discussion!Posts
  PROVE  Discussion!Cardinality(ps) \in Nat
<1>1. IsFiniteSet(1..3)
  <2>1. \A a, b \in Int : IsFiniteSet(a..b)
    BY FS_Interval
  <2>2. 1 \in Int /\ 3 \in Int
    OBVIOUS
  <2>. QED BY <2>1, <2>2, Zenon
<1>2. Cardinality(ps) \in Nat
  BY <1>1, ThreePosts, FS_Subset, FS_CardinalityType
<1>. QED BY <1>2 DEF Cardinality, Discussion!Cardinality

\* How many replies are ahead of the one the link names.
LEMMA BeforeCounted ==
  ASSUME PageInv, Discussion!CountBefore
  PROVE  PageInv'
<1> DEFINE ahead == {q \in Discussion!InThread : q < page.target}
           number == Discussion!Cardinality(ahead)
           new == [page EXCEPT !.before = number]
<1>1. page' = new /\ UNCHANGED Discussion!posts /\ page.at = "thread" /\ page.target \in Discussion!Posts
  BY DEF Discussion!CountBefore, PageInv
<1>2. number \in Nat
  BY PostsCounted, ThreePosts DEF Discussion!InThread, Discussion!Thread
<1>. HIDE DEF number
<1>3. /\ new \in AnyPage /\ new.at = "thread" /\ new.seen = page.seen /\ new.rows = page.rows
      /\ new.before = number /\ new.viewer = page.viewer /\ new.target = page.target
      /\ new.asked = page.asked /\ new.undisturbed = page.undisturbed
  BY <1>1, <1>2 DEF PageInv, AnyPage
<1>. HIDE DEF new
<1>4. TextsReadable'
  BY <1>1, <1>3 DEF TextsReadable, PageInv, Discussion!CanRead, Discussion!CanModerate
<1>5. ASSUME page.target # None, page.asked = None, page.undisturbed PROVE ReadIsTrue'
  <2>1. page.rows \in {{}, {Discussion!Row(Discussion!RootOf(page.target))}}
    BY <1>1, <1>5 DEF PageInv, ReadIsTrue
  <2>2. /\ Discussion!InThread' = Discussion!InThread
        /\ Discussion!Row(Discussion!RootOf(page.target))' = Discussion!Row(Discussion!RootOf(page.target))
    BY <1>1, <1>3, SameThread
  <2>3. number = Discussion!Cardinality({q \in Discussion!InThread : q < page.target})
    BY DEF number
  <2>. QED BY <1>1, <1>3, <2>1, <2>2, <2>3 DEF ReadIsTrue, Discussion!Cardinality
<1>. QED BY <1>1, <1>3, <1>4, <1>5, PageMoved

(***************************************************************************)
(* The replies of the page are those at the target's place, if nobody      *)
(* asked for another page.                                                 *)
(***************************************************************************)
LEMMA RepliesRead ==
  ASSUME PageInv, Discussion!ReadReplies
  PROVE  PageInv'
<1> DEFINE position(p) == Discussion!Cardinality({q \in Discussion!InThread : q < p}) \div PageSize + 1
           shown == {p \in Discussion!InThread : position(p) = Discussion!PageNumber}
           got == page.rows \cup {Discussion!Row(p) : p \in shown}
<1>1. page' = Discussion!Answered(got) /\ UNCHANGED Discussion!posts /\ page.at = "thread" /\ page.rows # {}
      /\ (page.before # None \/ page.target \in Discussion!Roots \/ page.asked # None)
      /\ page.target \in Discussion!Posts
  BY DEF Discussion!ReadReplies, PageInv
<1>2. shown \in SUBSET Discussion!Posts
  BY ThreePosts DEF Discussion!InThread, Discussion!Thread
<1>3. got \in SUBSET AnyRow
  BY <1>2, RowsOfPosts DEF PageInv, AnyPage
<1>4. ASSUME page.target # None, page.asked = None, page.undisturbed, Sees(page.viewer, page.target)
      PROVE  Discussion!Row(page.target) \in got
  <2>1. page.rows = {Discussion!Row(Discussion!RootOf(page.target))}
    BY <1>1, <1>4 DEF PageInv, ReadIsTrue
  <2>2. CASE page.target \in Discussion!Roots
    BY <1>1, <2>1, <2>2, ThreePosts
  <2>3. CASE page.target \notin Discussion!Roots
    <3>1. page.target \in Discussion!InThread
      BY <1>1, <1>4, <2>3, ThreePosts DEF Discussion!InThread, Sees
    <3>2. page.before = Discussion!Cardinality({q \in Discussion!InThread : q < page.target}) /\ page.before # None
      BY <1>1, <1>4, <2>3 DEF PageInv, ReadIsTrue
    <3>3. position(page.target) = Discussion!PageNumber
      BY <3>2 DEF Discussion!PageNumber
    <3>. HIDE DEF position
    <3>. QED BY <3>1, <3>3
  <2>. QED BY <2>2, <2>3
<1>. HIDE DEF got
<1>5. /\ page' \in AnyPage /\ page'.at = "answered" /\ page'.viewer = page.viewer /\ page'.target = page.target
      /\ page'.asked = page.asked /\ page'.undisturbed = page.undisturbed
      /\ page'.seen = Discussion!Seen(page.viewer, got)
  BY <1>1, <1>3, RowsAnswered
<1>6. TextsReadable'
  <2>1. \A r \in page'.seen : r.as = "text" => Discussion!CanRead(page.viewer, r.id, r.status)
    BY <1>3, <1>5, SeenRows
  <2>. QED BY <1>5, <2>1 DEF TextsReadable, Discussion!CanRead, Discussion!CanModerate
<1>7. ASSUME page.target # None, page.asked = None, page.undisturbed, Sees(page.viewer, page.target)
      PROVE  \E r \in page'.seen : r.id = page.target /\ r.as # "nothing"
  <2>1. PICK r \in page'.seen : r.id = Discussion!Row(page.target).id
                              /\ r.as = Discussion!Drawn(page.viewer, Discussion!Row(page.target))
    BY <1>3, <1>4, <1>5, <1>7, SeenRows
  <2>2. r.as # "nothing"
    BY <1>1, <1>7, <2>1, SeenIsDrawn
  <2>. QED BY <2>1, <2>2 DEF Discussion!Row
<1>8. Sees(page.viewer, page.target)' = Sees(page.viewer, page.target)
  BY <1>1, <1>5, SameThread
<1>. QED BY <1>1, <1>5, <1>6, <1>7, <1>8, PageMoved DEF ReadIsTrue, ShowsTo

\* The list of first posts, and its previews.
LEMMA ListRead ==
  ASSUME PageInv, Discussion!ReadList
  PROVE  PageInv'
<1> DEFINE ps == Discussion!Listed(page.viewer, page.matching)
           got == {Discussion!Row(p) : p \in ps}
           answer == Discussion!Answered(got)
           new == IF got = {} THEN Discussion!Answered({}) ELSE [answer EXCEPT !.at = "choose", !.rows = got]
<1>1. page' = new /\ UNCHANGED Discussion!posts /\ page.at = "list"
  BY DEF Discussion!ReadList
<1>2. got \in SUBSET AnyRow
  <2>1. ps \in SUBSET Discussion!Posts
    BY ThreePosts DEF Discussion!Listed
  <2>. QED BY <2>1, RowsOfPosts
<1>3. page.target = None
  BY <1>1 DEF PageInv
<1>. HIDE DEF got
<1>4. /\ answer \in AnyPage /\ answer.viewer = page.viewer /\ answer.target = None /\ answer.at = "answered"
      /\ answer.seen = Discussion!Seen(page.viewer, got)
  BY <1>2, <1>3, RowsAnswered
<1>. HIDE DEF answer
<1>5. /\ new \in AnyPage /\ new.viewer = page.viewer /\ new.target = None /\ new.at \in {"choose", "answered"}
      /\ new.seen = Discussion!Seen(page.viewer, got)
  <2>1. CASE got = {}
    BY <1>4, <2>1 DEF answer
  <2>2. CASE got # {}
    BY <1>2, <1>4, <2>2 DEF AnyPage
  <2>. QED BY <2>1, <2>2
<1>. HIDE DEF new
<1>6. TextsReadable'
  <2>1. \A r \in page'.seen : r.as = "text" => Discussion!CanRead(page.viewer, r.id, r.status)
    BY <1>1, <1>2, <1>5, SeenRows
  <2>. QED BY <1>1, <1>5, <2>1 DEF TextsReadable, Discussion!CanRead, Discussion!CanModerate
<1>. QED BY <1>1, <1>5, <1>6, PageMoved

LEMMA PreviewsChosen ==
  ASSUME PageInv, Discussion!ChoosePreviews
  PROVE  PageInv'
<1> DEFINE replies(r) == {p \in Discussion!Thread(r) : Discussion!Previewed(page.viewer, p)}
           best(r) == {p \in replies(r) :
                         Discussion!Cardinality({q \in replies(r) : Discussion!Ahead(q, p)}) < PreviewSize}
           chosen == UNION {best(r.id) : r \in page.rows}
           at == IF chosen = {} THEN "answered" ELSE "previews"
           new == [page EXCEPT !.rows = {}, !.chosen = chosen, !.at = at]
<1>1. page' = new /\ UNCHANGED Discussion!posts /\ page.at = "choose" /\ page.target = None
  BY DEF Discussion!ChoosePreviews, PageInv
<1>2. chosen \in SUBSET Discussion!Posts
  BY ThreePosts DEF Discussion!Thread
<1>3. at \in {"answered", "previews"}
  OBVIOUS
<1>. HIDE DEF chosen, at
<1>4. /\ new \in AnyPage /\ new.at = at /\ new.seen = page.seen /\ new.viewer = page.viewer /\ new.target = None
  BY <1>1, <1>2, <1>3 DEF PageInv, AnyPage
<1>. HIDE DEF new
<1>5. TextsReadable'
  BY <1>1, <1>4 DEF TextsReadable, PageInv, Discussion!CanRead, Discussion!CanModerate
<1>. QED BY <1>1, <1>3, <1>4, <1>5, PageMoved

\* Only what may be previewed is drawn, and that is published.
LEMMA PreviewsRead ==
  ASSUME PageInv, Discussion!ReadPreviews
  PROVE  PageInv'
<1> DEFINE shown == {p \in page.chosen : Discussion!Previewed(page.viewer, p)}
           text(p) == [id |-> p, status |-> status[p], as |-> "text"]
           seen == page.seen \cup {text(p) : p \in shown}
           new == [page EXCEPT !.at = "answered", !.chosen = {}, !.seen = seen]
<1>1. page' = new /\ UNCHANGED Discussion!posts /\ page.at = "previews" /\ page.target = None
  BY DEF Discussion!ReadPreviews, PageInv, AnyPage
<1>2. ASSUME NEW p \in shown
      PROVE  text(p) \in AnyDrawn /\ Discussion!CanRead(page.viewer, text(p).id, text(p).status)
  <2>1. p \in Discussion!Posts /\ status[p] = "APPROVED"
    BY DEF PageInv, AnyPage, Discussion!Previewed
  <2>2. PICK as \in {"text", "placeholder", "nothing"} : as = "text"
    OBVIOUS
  <2>. QED BY <2>1, <2>2 DEF AnyDrawn, AnyStatus, Discussion!CanRead
<1>. HIDE DEF text
<1>3. seen \in SUBSET AnyDrawn
  BY <1>2 DEF PageInv, AnyPage
<1>4. \A r \in seen : r.as = "text" => Discussion!CanRead(page.viewer, r.id, r.status)
  BY <1>2 DEF PageInv, TextsReadable
<1>. HIDE DEF seen
<1>5. new \in AnyPage /\ new.at = "answered" /\ new.seen = seen /\ new.viewer = page.viewer /\ new.target = None
  BY <1>1, <1>3 DEF PageInv, AnyPage
<1>. HIDE DEF new
<1>6. TextsReadable'
  BY <1>1, <1>4, <1>5 DEF TextsReadable, Discussion!CanRead, Discussion!CanModerate
<1>. QED BY <1>1, <1>5, <1>6, PageMoved

\* The page is closed.
LEMMA Closed ==
  ASSUME PageInv, Discussion!Close
  PROVE  PageInv'
<1>1. page' = Discussion!NoPage /\ UNCHANGED Discussion!posts
  BY DEF Discussion!Close
<1>2. PICK yes \in BOOLEAN : yes = TRUE
  OBVIOUS
<1>3. Discussion!NoPage \in AnyPage /\ Discussion!NoPage.at = "none" /\ Discussion!NoPage.seen = {}
      /\ Discussion!NoPage.target = None
  BY <1>2 DEF Discussion!NoPage, AnyPage
<1>. QED BY <1>1, <1>3, PageMoved DEF TextsReadable

(***************************************************************************)
(* When a post changes, the page is disturbed and otherwise stays.         *)
(***************************************************************************)
LEMMA PostsChanged ==
  ASSUME PageInv, status' \in [Discussion!Posts -> AnyStatus],
         page' = [page EXCEPT !.undisturbed = (page.at = "none")]
  PROVE  PageInv'
<1> DEFINE quiet == page.at = "none"
           new == [page EXCEPT !.undisturbed = quiet]
<1>1. page' = new
  OBVIOUS
<1>2. quiet \in BOOLEAN /\ (quiet => page.at = "none")
  OBVIOUS
<1>. HIDE DEF quiet
<1>3. /\ new \in AnyPage /\ new.at = page.at /\ new.seen = page.seen /\ new.viewer = page.viewer
      /\ new.rows = page.rows /\ new.before = page.before /\ new.target = page.target /\ new.undisturbed = quiet
  BY <1>2 DEF PageInv, AnyPage
<1>. HIDE DEF new
<1>4. TextsReadable'
  BY <1>1, <1>3 DEF TextsReadable, PageInv, Discussion!CanRead, Discussion!CanModerate
<1>5. quiet => ReadIsTrue'
  BY <1>1, <1>2, <1>3 DEF ReadIsTrue
<1>. QED BY <1>1, <1>3, <1>4, <1>5 DEF PageInv, AnyPage, AnyStatus, AnyRow, AnyDrawn, Readers, Discussion!Posts,
                                       Discussion!Roots

(***************************************************************************)
(* Every step of the discussion keeps it.                                  *)
(***************************************************************************)
LEMMA PageKept == PageInv /\ Discussion!Next => PageInv'
<1> SUFFICES ASSUME PageInv, Discussion!Next PROVE PageInv'
  OBVIOUS
<1>. USE DEF Readers
<1>1. ASSUME NEW v \in Readers, NEW p \in Discussion!Posts, NEW n \in {None, 1}, Discussion!OpenLink(v, p, n)
      PROVE  PageInv'
  BY <1>1, LinkOpened
<1>2. ASSUME NEW v \in Readers, NEW m \in {None} \cup SUBSET Discussion!Roots, Discussion!OpenList(v, m)
      PROVE  PageInv'
  BY <1>2, ListOpened
<1>3. ASSUME NEW p \in Discussion!Posts, NEW s \in {"APPROVED", "PENDING"}, Discussion!Decide(p, s)
      PROVE  PageInv'
  <2>1. status' \in [Discussion!Posts -> AnyStatus] /\ page' = [page EXCEPT !.undisturbed = (page.at = "none")]
    BY <1>3 DEF Discussion!Decide, Discussion!Changed, PageInv, AnyStatus
  <2>. QED BY <2>1, PostsChanged
<1>4. ASSUME NEW p \in Discussion!Posts, Discussion!Withdraw(p) PROVE PageInv'
  <2>1. status' \in [Discussion!Posts -> AnyStatus] /\ page' = [page EXCEPT !.undisturbed = (page.at = "none")]
    BY <1>4 DEF Discussion!Withdraw, Discussion!Changed, PageInv, AnyStatus
  <2>. QED BY <2>1, PostsChanged
<1>5. ASSUME NEW p \in Discussion!Posts, NEW same \in SUBSET Discussion!Posts, Discussion!Restore(p, same)
      PROVE  PageInv'
  <2>1. status' \in [Discussion!Posts -> AnyStatus] /\ page' = [page EXCEPT !.undisturbed = (page.at = "none")]
    BY <1>5 DEF Discussion!Restore, Discussion!Changed, PageInv, AnyStatus
  <2>. QED BY <2>1, PostsChanged
<1>. QED
  BY <1>1, <1>2, <1>3, <1>4, <1>5, TargetRead, NoteRead, RootRead, BeforeCounted, RepliesRead, ListRead,
     PreviewsChosen, PreviewsRead, Closed
  DEF Discussion!Next

(***************************************************************************)
(* What others find does not depend on what withdrawn posts said, because  *)
(* of those only the author finds their own.                               *)
(***************************************************************************)
LEMMA TextsArePrivate == PageInv => Discussion!TextsStayPrivate
<1> SUFFICES ASSUME PageInv PROVE Discussion!TextsStayPrivate
  OBVIOUS
<1>1. \A r \in page.seen : r.as = "text" => Discussion!CanRead(page.viewer, r.id, r.status)
  BY DEF PageInv, TextsReadable
<1>2. ASSUME NEW m \in SUBSET Discussion!Roots PROVE m # None
  BY NoneAssumption, ThreePosts
<1>. QED BY <1>1, <1>2 DEF Discussion!TextsStayPrivate, Discussion!Listed

(***************************************************************************)
(* What was read while nothing was decided has the post the link names.    *)
(***************************************************************************)
LEMMA LinksLeadToPosts == PageInv => Discussion!LinksOpenTheirPost
BY DEF PageInv, ReadIsTrue, ShowsTo, Sees, Discussion!LinksOpenTheirPost

-----------------------------------------------------------------------------
(* The three parts *)

\* A part that does not run stays as it is.
LEMMA SignInRests == SignInv /\ UNCHANGED signIn => SignInv'
BY DEF SignInv, SignTypes, signIn, OwnSession, OwnDisguise

LEMMA DiscussionRests == PageInv /\ UNCHANGED discussion => PageInv'
<1> SUFFICES ASSUME PageInv, UNCHANGED discussion PROVE PageInv'
  OBVIOUS
<1>1. UNCHANGED Discussion!posts /\ page' = page
  BY DEF discussion, Discussion!posts
<1>2. TextsReadable'
  BY <1>1 DEF PageInv, TextsReadable, Discussion!CanRead, Discussion!CanModerate, Discussion!posts
<1>3. ReadIsTrue => ReadIsTrue'
  BY <1>1, SameThread DEF ReadIsTrue, ShowsTo, Discussion!CanRead, Discussion!CanModerate, Discussion!posts,
     Discussion!Cardinality
<1>. QED BY <1>1, <1>2, <1>3, PageMoved DEF PageInv

(***************************************************************************)
(* Each part keeps its invariant, whichever of them runs.                  *)
(***************************************************************************)
THEOREM AccessInvariance == AccessSpec => [](SignInv /\ PageInv)
<1>1. AccessInit => SignInv /\ PageInv
  BY SignInit, DiscussionInit DEF AccessInit
<1>2. SignInv /\ PageInv /\ [AccessNext]_<<part, vars, signIn, discussion>> => (SignInv /\ PageInv)'
  <2> SUFFICES ASSUME SignInv, PageInv, [AccessNext]_<<part, vars, signIn, discussion>>
               PROVE  SignInv' /\ PageInv'
    OBVIOUS
  <2>1. SignIn!Next \/ UNCHANGED signIn
    BY DEF AccessNext
  <2>2. Discussion!Next \/ UNCHANGED discussion
    BY DEF AccessNext
  <2>. QED BY <2>1, <2>2, SignKept, SignInRests, PageKept, DiscussionRests
<1>. QED BY <1>1, <1>2, PTL DEF AccessSpec

(***************************************************************************)
(* A request acts for who signed in last in its browser, for nobody, or    *)
(* for the account that an admin who is one still took on there, whatever  *)
(* is logged out, deleted, promoted or expires meanwhile                   *)
(* (middleware.ts:222, userCookies.ts:61).                                 *)
(***************************************************************************)
THEOREM AlwaysActsForWhoSignedIn == AccessSpec => ActsForWhoSignedIn
<1> DEFINE Acts ==
      \A r \in Slots :
        LET b == visit'[r].browser
            own == IF visit'[r].actual = Nobody THEN visit'[r].user ELSE visit'[r].actual
        IN SignIn!Began(r) =>
             /\ own \in {Nobody, signedIn[b]}
             /\ visit'[r].actual # Nobody =>
                  /\ hider[b] = visit'[r].actual
                  /\ account[visit'[r].actual].role = "ADMIN"
<1>1. SignInv /\ PageInv /\ [AccessNext]_<<part, vars, signIn, discussion>> => [Acts]_(SignIn!vars)
  <2> SUFFICES ASSUME SignInv, [AccessNext]_<<part, vars, signIn, discussion>>, SignIn!vars' # SignIn!vars
               PROVE  Acts
    OBVIOUS
  <2>1. SignIn!Next
    BY DEF AccessNext, signIn, SignIn!vars, SignIn!redis, SignIn!history
  <2>. QED BY <2>1, SignedInActs
<1>. QED BY <1>1, AccessInvariance, PTL DEF AccessSpec, ActsForWhoSignedIn, SignIn!ActsForWhoSignedIn

(***************************************************************************)
(* A page shows a text only to who could read it when it was last read,    *)
(* what withdrawn posts said has no part in what others find, and a link   *)
(* opens the page of the thread that has its post, whatever is decided     *)
(* between two queries (commentReplyPreviews.ts:78,                        *)
(* commentsWithReplies.ts:228, :313).                                      *)
(***************************************************************************)
THEOREM ThreadsAlwaysRightlyShown == AccessSpec => []ThreadsAreRightlyShown
<1>1. PageInv => ThreadsAreRightlyShown
  BY TextsArePrivate, LinksLeadToPosts DEF ThreadsAreRightlyShown
<1>. QED BY <1>1, AccessInvariance, PTL

(***************************************************************************)
(* A behaviour of the whole is one of Affiliations, so that what is proved *)
(* of that component holds of the whole.                                   *)
(***************************************************************************)
THEOREM AccessHasAffiliations == AccessSpec => Spec
<1>1. AccessInit => Init
  BY DEF AccessInit
<1>2. [AccessNext]_<<part, vars, signIn, discussion>> => [Next]_vars
  BY DEF AccessNext, vars
<1>. QED BY <1>1, <1>2, PTL DEF AccessSpec, Spec
===============================================================================
