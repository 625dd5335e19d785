------------------------------- MODULE Accounts -------------------------------
(***************************************************************************)
(* Accounts, who a request acts as, and what it may do.  An account is     *)
(* known by its secret token only.  A browser holds two cookies, which     *)
(* name a session and an impersonation kept in Redis; every request reads  *)
(* both in the middleware, and its handler then acts on what was read,     *)
(* while other requests change roles, log out and delete accounts.         *)
(*                                                                         *)
(* An account and its token are one model value: tokens are random and     *)
(* unique, and the session stores the token's hash.  STAFF stands for any  *)
(* capabilities.  Profiles, internal notes and the audit log are left out. *)
(***************************************************************************)
EXTENDS Integers, FiniteSets

CONSTANTS
  Users,        \* accounts, by the token that opens them
  Root,         \* the admin there is at the start
  Browsers,
  Slots,        \* requests that can be under way at once
  Sessions,     \* session ids: bound on how many exist at once
  Disguises,    \* ids of impersonations: the same
  MaxGrants,    \* bound: how often roles are changed
  Nobody        \* no user, no session, no impersonation

VARIABLES
  account,      \* "User": the accounts there are and their standing
  offered,      \* Redis: pre-generated tokens
  session,      \* Redis: session:*, whose session each id is
  disguise,     \* Redis: impersonation_session:*
  cookie,       \* what each browser holds
  request,      \* requests under way
  granted,      \* how often an admin changed an account
  signedIn,     \* history: who each browser last signed in as
  hider,        \* history: the admin who last started impersonating in each browser
  drawn         \* history: the tokens that were generated

redis == <<offered, session, disguise>>
history == <<signedIn, hider, drawn>>
vars == <<account, redis, cookie, request, granted, history>>

Standing == [exists : BOOLEAN, role : {"USER", "STAFF", "ADMIN"}, spammer : BOOLEAN]
NoAccount == [exists |-> FALSE, role |-> "USER", spammer |-> FALSE]
NewAccount == [NoAccount EXCEPT !.exists = TRUE]

Cookies == [session : Sessions \cup {Nobody}, disguise : Disguises \cup {Nobody}]
NoCookies == [session |-> Nobody, disguise |-> Nobody]

\* cookies: what the browser sent.  user: locals.user.  actual: locals.actualUser.
\* rights: the user's row as it was read.
Request == [at : {"idle", "handle", "create"}, browser : Browsers \cup {Nobody}, cookies : Cookies,
            user : Users \cup {Nobody}, actual : Users \cup {Nobody}, rights : Standing,
            token : Users \cup {Nobody}]
Idle == [at |-> "idle", browser |-> Nobody, cookies |-> NoCookies, user |-> Nobody, actual |-> Nobody,
         rights |-> NoAccount, token |-> Nobody]

TypeOK ==
  /\ account \in [Users -> Standing]
  /\ offered \subseteq Users
  /\ session \in [Sessions -> Users \cup {Nobody}]
  /\ disguise \in [Disguises -> [admin : Users, target : Users] \cup {Nobody}]
  /\ cookie \in [Browsers -> Cookies]
  /\ request \in [Slots -> Request]
  /\ granted \in 0..MaxGrants
  /\ signedIn \in [Browsers -> Users \cup {Nobody}] /\ hider \in [Browsers -> Users \cup {Nobody}]
  /\ drawn \subseteq Users

-----------------------------------------------------------------------------
Init ==
  /\ account = [u \in Users |-> IF u = Root THEN [NewAccount EXCEPT !.role = "ADMIN"] ELSE NoAccount]
  /\ offered = {}
  /\ session = [s \in Sessions |-> Nobody]
  /\ disguise = [d \in Disguises |-> Nobody]
  /\ cookie = [b \in Browsers |-> NoCookies]
  /\ request = [r \in Slots |-> Idle]
  /\ granted = 0
  /\ signedIn = [b \in Browsers |-> Nobody] /\ hider = [b \in Browsers |-> Nobody]
  /\ drawn = {Root}

(***************************************************************************)
(* The middleware: getUserFromCookies, then an impersonation, which only   *)
(* serves the admin who started it while they are an admin.                *)
(***************************************************************************)
OwnAccount(b) ==
  LET s == cookie[b].session IN
  IF s # Nobody /\ session[s] # Nobody /\ account[session[s]].exists THEN session[s] ELSE Nobody

Impersonates(b) ==
  LET own == OwnAccount(b)
      d == cookie[b].disguise IN
  /\ own # Nobody /\ account[own].role = "ADMIN"
  /\ d # Nobody /\ disguise[d] # Nobody
  /\ disguise[d].admin = own
  /\ account[disguise[d].target].exists

Identity(b) ==
  IF Impersonates(b)
  THEN [user |-> disguise[cookie[b].disguise].target, actual |-> OwnAccount(b)]
  ELSE [user |-> OwnAccount(b), actual |-> Nobody]

Authenticate(r, b) ==
  LET who == Identity(b) IN
  /\ request[r] = Idle
  /\ request' = [request EXCEPT ![r] =
       [Idle EXCEPT !.at = "handle", !.browser = b, !.cookies = cookie[b], !.user = who.user, !.actual = who.actual,
                    !.rights = IF who.user = Nobody THEN NoAccount ELSE account[who.user]]]
  /\ UNCHANGED <<account, redis, cookie, granted, history>>

\* defineProtectedAction: what a handler asks of locals.user.
MayAct(r) == request[r].user # Nobody /\ ~request[r].rights.spammer
IsAdmin(r) == MayAct(r) /\ request[r].rights.role = "ADMIN"

Handling(r) == request[r].at = "handle"
Browser(r) == request[r].browser

Finish(r) == request' = [request EXCEPT ![r] = Idle]

\* A handler that throws, a page that only reads.
End(r) ==
  /\ request[r] # Idle
  /\ Finish(r)
  /\ UNCHANGED <<account, redis, cookie, granted, history>>

-----------------------------------------------------------------------------
(* Signing in and out *)

\* Ids are random: a new one is in no cookie.
Held == {cookie[b] : b \in Browsers} \cup {request[r].cookies : r \in Slots}
FreshSession(s) == session[s] = Nobody /\ \A c \in Held : c.session # s
FreshDisguise(d) == disguise[d] = Nobody /\ \A c \in Held : c.disguise # d

\* stopImpersonating and removeUserSessionIdCookie delete in Redis what the
\* request's cookies name, whatever the browser holds by then.
EndDisguise(r) == [d \in Disguises |-> IF d = request[r].cookies.disguise THEN Nobody ELSE disguise[d]]
EndSession(r) == [s \in Sessions |-> IF s = request[r].cookies.session THEN Nobody ELSE session[s]]

\* logout. Mutation: only the impersonation ends while there is one.
LogoutOfDisguise(r) ==
  IF request[r].cookies.disguise # Nobody
  THEN /\ disguise' = EndDisguise(r) /\ UNCHANGED session
       /\ cookie' = [cookie EXCEPT ![Browser(r)].disguise = Nobody]
  ELSE /\ session' = EndSession(r) /\ UNCHANGED disguise
       /\ cookie' = [cookie EXCEPT ![Browser(r)] = NoCookies]
EndBoth(r) ==
  /\ disguise' = EndDisguise(r)
  /\ session' = EndSession(r)
  /\ cookie' = [cookie EXCEPT ![Browser(r)] = NoCookies]

\* Also a login with a token nobody has: it logs out before it looks.
Logout(r) ==
  /\ Handling(r)
  /\ EndBoth(r)
  /\ signedIn' = [signedIn EXCEPT ![Browser(r)] = Nobody]
  /\ Finish(r)
  /\ UNCHANGED <<account, offered, granted, hider, drawn>>

Login(r) ==
  LET b == Browser(r) IN
  /\ Handling(r)
  /\ \E u \in Users, s \in Sessions :
       /\ account[u].exists
       /\ FreshSession(s)
       /\ disguise' = EndDisguise(r)
       /\ session' = [EndSession(r) EXCEPT ![s] = u]
       /\ cookie' = [cookie EXCEPT ![b] = [session |-> s, disguise |-> Nobody]]
       /\ signedIn' = [signedIn EXCEPT ![b] = u]
  /\ Finish(r)
  /\ UNCHANGED <<account, offered, granted, hider, drawn>>

PreGenerateToken(r) ==
  /\ Handling(r)
  /\ \E u \in Users \ drawn : offered' = offered \cup {u} /\ drawn' = drawn \cup {u}
  /\ Finish(r)
  /\ UNCHANGED <<account, session, disguise, cookie, granted, signedIn, hider>>

\* generate looks for the token and then deletes it: two commands.
Generate(r) ==
  /\ Handling(r)
  /\ \E u \in offered : request' = [request EXCEPT ![r].at = "create", ![r].token = u]
  /\ UNCHANGED <<account, redis, cookie, granted, history>>

\* secretTokenHash is unique.
CanBeCreated(u) == ~account[u].exists

\* The browser's impersonation cookie stays.
CreateAccount(r) ==
  LET b == Browser(r)
      u == request[r].token IN
  /\ request[r].at = "create"
  /\ CanBeCreated(u)
  /\ offered' = offered \ {u}
  /\ account' = [account EXCEPT ![u] = NewAccount]
  /\ \E s \in Sessions :
       /\ FreshSession(s)
       /\ session' = [session EXCEPT ![s] = u]
       /\ cookie' = [cookie EXCEPT ![b].session = s]
  /\ signedIn' = [signedIn EXCEPT ![b] = u]
  /\ Finish(r)
  /\ UNCHANGED <<disguise, granted, hider, drawn>>

Impersonate(r) ==
  LET b == Browser(r) IN
  /\ Handling(r) /\ IsAdmin(r)
  /\ \E target \in Users, d \in Disguises :
       /\ account[target].exists /\ account[target].role # "ADMIN"
       /\ FreshDisguise(d)
       /\ disguise' = [disguise EXCEPT ![d] = [admin |-> request[r].user, target |-> target]]
       /\ cookie' = [cookie EXCEPT ![b].disguise = d]
  /\ hider' = [hider EXCEPT ![b] = request[r].user]
  /\ Finish(r)
  /\ UNCHANGED <<account, offered, session, granted, signedIn, drawn>>

StopImpersonating(r) ==
  LET b == Browser(r) IN
  /\ Handling(r)
  /\ disguise' = EndDisguise(r)
  /\ cookie' = [cookie EXCEPT ![b].disguise = Nobody]
  /\ Finish(r)
  /\ UNCHANGED <<account, offered, session, granted, history>>

-----------------------------------------------------------------------------
(* Accounts and their rights *)

\* An admin who impersonates somebody deletes that account and is an admin again.
Delete(r) ==
  LET b == Browser(r) IN
  /\ Handling(r) /\ MayAct(r)
  /\ request[r].rights.role = "USER"
  /\ account' = [account EXCEPT ![request[r].user] = NoAccount]
  /\ IF request[r].actual # Nobody
     THEN /\ disguise' = EndDisguise(r) /\ UNCHANGED <<session, signedIn>>
          /\ cookie' = [cookie EXCEPT ![b].disguise = Nobody]
     ELSE /\ EndBoth(r)
          /\ signedIn' = [signedIn EXCEPT ![b] = Nobody]
  /\ Finish(r)
  /\ UNCHANGED <<offered, granted, hider, drawn>>

\* Only an admin grants roles; who holds users:manage edits the rest of the profile.
UpdateUser(r) ==
  /\ Handling(r) /\ IsAdmin(r)
  /\ granted < MaxGrants
  /\ granted' = granted + 1
  /\ \E u \in Users, role \in {"USER", "STAFF", "ADMIN"}, spammer \in BOOLEAN :
       /\ account[u].exists
       /\ account' = [account EXCEPT ![u] = [exists |-> TRUE, role |-> role, spammer |-> spammer]]
  /\ Finish(r)
  /\ UNCHANGED <<redis, cookie, history>>

\* What Redis keeps expires.
Expire ==
  /\ \/ \E u \in offered : offered' = offered \ {u} /\ UNCHANGED <<session, disguise>>
     \/ \E s \in Sessions : /\ session[s] # Nobody
                            /\ session' = [session EXCEPT ![s] = Nobody]
                            /\ UNCHANGED <<offered, disguise>>
     \/ \E d \in Disguises : /\ disguise[d] # Nobody
                             /\ disguise' = [disguise EXCEPT ![d] = Nobody]
                             /\ UNCHANGED <<offered, session>>
  /\ UNCHANGED <<account, cookie, request, granted, history>>

Handle(r) ==
  \/ Login(r) \/ Logout(r) \/ End(r)
  \/ PreGenerateToken(r) \/ Generate(r) \/ CreateAccount(r)
  \/ Impersonate(r) \/ StopImpersonating(r)
  \/ Delete(r) \/ UpdateUser(r)

Next ==
  \/ \E r \in Slots : Handle(r) \/ \E b \in Browsers : Authenticate(r, b)
  \/ Expire

Spec == Init /\ [][Next]_vars

-----------------------------------------------------------------------------
(* Properties *)

Began(r) == request[r] = Idle /\ request'[r] # Idle

(***************************************************************************)
(* A request acts as the account its browser signed in as, or as nobody.   *)
(* It acts as somebody else only for the admin who asked for that in this  *)
(* browser and who is still an admin: not for an account that is opened or *)
(* promoted later in a browser that kept the impersonation's cookie, and   *)
(* not after a logout (middleware.ts:222, userCookies.ts:61).              *)
(***************************************************************************)
ActsForWhoSignedIn ==
  [][ \A r \in Slots :
        LET b == request'[r].browser
            own == IF request'[r].actual = Nobody THEN request'[r].user ELSE request'[r].actual IN
        Began(r) =>
          /\ own \in {Nobody, signedIn[b]}
          /\ request'[r].actual # Nobody => /\ hider[b] = request'[r].actual
                                            /\ account[request'[r].actual].role = "ADMIN" ]_vars
=============================================================================
