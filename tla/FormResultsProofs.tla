--------------------------- MODULE FormResultsProofs ---------------------------
(***************************************************************************)
(* A form runs at most once, however often its page is loaded again, and   *)
(* its result is shown in the browser it was sent from alone.              *)
(*                                                                         *)
(* The pages, the requests and what waits in Redis are followed through    *)
(* each action (IInv); with it each step of the site is a step of          *)
(* OwnResults, or leaves what that speaks of as it was.                    *)
(***************************************************************************)
EXTENDS FormResults, FiniteSetTheorems, TLAPS

\* TypeOK without the size of the page cache, which WaitingInv bounds.
Typed ==
  /\ owner \in [Tabs -> Browsers] /\ members \in SUBSET Browsers
  /\ posted \in 0..MaxForms
  /\ forms \in [1..posted -> Form]
  /\ session \in [Ids -> BOOLEAN]
  /\ cookie \in [Browsers -> 0..MaxForms]
  /\ tab \in [Tabs -> Page] /\ request \in [Tabs -> Request]

Kept ==
  /\ Typed
  /\ WaitingInv
  /\ \A t \in Tabs : RequestInv(t) /\ PageInv(t)

LEMMA KeptIsIInv == Kept <=> IInv
<1>1. ASSUME kept \subseteq {0} PROVE kept = {} \/ kept = {0}
  <2>1. ASSUME 0 \in kept PROVE \A n : n \in kept <=> n \in {0}
    BY <1>1, <2>1
  <2>2. ASSUME 0 \notin kept PROVE \A n : n \notin kept
    BY <1>1, <2>2
  <2>. QED BY <2>1, <2>2
<1>2. Cardinality({}) = 0 /\ Cardinality({0}) = 1
  BY FS_EmptySet, FS_Singleton
<1>3. 0 \in 0..MaxForms
  BY BoundAssumption
<1>4. ASSUME kept \subseteq {0} PROVE kept \in SUBSET (0..MaxForms) /\ Cardinality(kept) <= 1
  <2>1. Cardinality(kept) \in {0, 1}
    BY <1>1, <1>2, <1>4
  <2>. QED BY <1>3, <1>4, <2>1
<1>. QED BY <1>4 DEF Kept, Typed, IInv, TypeOK, WaitingInv

LEMMA InitInvariant == Init => Kept
BY BoundAssumption
DEF Init, Kept, Typed, WaitingInv, RequestInv, PageInv, SentFrom, Ran, NoRequest, Blank,
    Form, Page, Request, Ids

(***************************************************************************)
(* What OwnResults sees: the forms' tabs and runs, and the results shown.  *)
(***************************************************************************)
senders == [n \in DOMAIN forms |-> forms[n].from]
runs == [n \in DOMAIN forms |-> forms[n].runs]
shown == [t \in Tabs |-> tab[t].result]

Unseen == UNCHANGED <<owner, senders, runs, shown>>

(***************************************************************************)
(* What holds of the tabs other than the one that moves still holds: their *)
(* forms do not run, and a form that has run is not run again.             *)
(***************************************************************************)
LEMMA OthersKept ==
  ASSUME Kept, NEW t \in Tabs, UNCHANGED people, posted' \in Nat, posted <= posted',
         \A n \in 1..posted :
           /\ forms'[n].from = forms[n].from /\ forms'[n].htmx = forms[n].htmx
           /\ forms[n].from # t \/ forms[n].runs = 1 => forms'[n].runs = forms[n].runs,
         \A u \in Tabs \ {t} : request'[u] = request[u] /\ tab'[u] = tab[u]
  PROVE  /\ \A u \in Tabs \ {t} : RequestInv(u)' /\ PageInv(u)'
         /\ \A n \in 0..MaxForms : Ran(n) => Ran(n)'
         /\ \A n \in 0..MaxForms, b \in Browsers : SentFrom(n, b) => SentFrom(n, b)'
<1>1. posted \in Nat /\ \A n \in 1..posted : n \in 1..posted'
  BY BoundAssumption DEF Kept, Typed
<1>2. \A n : Ran(n) => Ran(n)'
  BY <1>1 DEF Ran
<1>3. \A n, b : SentFrom(n, b) => SentFrom(n, b)'
  BY <1>1 DEF SentFrom, people
<1>4. ASSUME NEW u \in Tabs \ {t} PROVE RequestInv(u)'
  <2>1. RequestInv(u) /\ owner'[u] = owner[u]
    BY DEF Kept, people
  <2>. QED BY <1>1, <1>2, <1>3, <2>1 DEF RequestInv
<1>5. ASSUME NEW u \in Tabs \ {t} PROVE PageInv(u)'
  BY <1>1 DEF Kept, PageInv
<1>. QED BY <1>2, <1>3, <1>4, <1>5

(***************************************************************************)
(* A step that sends a request of a tab, or moves it on, and leaves forms, *)
(* cookies and pages as they are.                                          *)
(***************************************************************************)
LEMMA RequestMoved ==
  ASSUME Kept, UNCHANGED <<people, forms, posted, tab>>, NEW t \in Tabs, NEW r \in Request,
         request' = [request EXCEPT ![t] = r], WaitingInv',
         session' \in [Ids -> BOOLEAN], cookie' \in [Browsers -> 0..MaxForms],
         RequestInv(t)', PageInv(t)'
  PROVE  Kept' /\ Unseen
<1>1. Typed'
  BY DEF Kept, Typed, people
<1>2. \A u \in Tabs \ {t} : RequestInv(u)' /\ PageInv(u)'
  BY DEF Kept, Typed, people, RequestInv, PageInv, SentFrom, Ran
<1>. QED BY <1>1, <1>2 DEF Kept, Unseen, senders, runs, shown, people

\* A request that is moved on keeps its page and its form.
MovedOn(r, new) == new \in Request /\ new.url = r.url /\ new.form = r.form

LEMMA Opened ==
  ASSUME Kept, NEW t \in Tabs, NEW url \in {"swap", "thread"}, Open(t, url)
  PROVE  Kept' /\ Unseen
<1> DEFINE r == [at |-> "asked", url |-> url, form |-> 0, sent |-> cookie[owner[t]], took |-> 0]
<1>1. r \in Request /\ SentFrom(cookie[owner[t]], owner[t])
  BY BoundAssumption DEF Kept, Typed, Request, WaitingInv
<1>2. request' = [request EXCEPT ![t] = r] /\ request'[t] = r
  BY DEF Open, Send, Kept, Typed
<1>3. RequestInv(t)'
  BY <1>1, <1>2 DEF Open, RequestInv, SentFrom, Ran, people
<1>4. PageInv(t)'
  BY <1>2 DEF Open, Kept, PageInv, people
<1>5. WaitingInv' /\ session' \in [Ids -> BOOLEAN] /\ cookie' \in [Browsers -> 0..MaxForms]
  BY DEF Open, Kept, Typed, WaitingInv, SentFrom, Ran, people
<1>. QED BY <1>1, <1>2, <1>3, <1>4, <1>5, RequestMoved DEF Open

LEMMA Reloaded ==
  ASSUME Kept, NEW t \in Tabs, Reload(t)
  PROVE  Kept' /\ Unseen
<1> DEFINE r == [at |-> "asked", url |-> tab[t].url, form |-> tab[t].resend,
                 sent |-> cookie[owner[t]], took |-> 0]
<1>1. /\ tab[t] \in Page /\ tab[t].resend # 0 /\ tab[t].url # "blank"
      /\ tab[t].resend \in 1..posted /\ forms[tab[t].resend].from = t
      /\ forms[tab[t].resend].runs = 0 /\ ~forms[tab[t].resend].htmx
  BY DEF Reload, Kept, Typed, PageInv
<1>2. r \in Request /\ SentFrom(cookie[owner[t]], owner[t])
  BY <1>1, BoundAssumption DEF Kept, Typed, Request, Page, WaitingInv
<1>3. request' = [request EXCEPT ![t] = r] /\ request'[t] = r
  BY DEF Reload, Send, Kept, Typed
<1>4. RequestInv(t)' /\ PageInv(t)'
  BY <1>1, <1>2, <1>3 DEF Reload, RequestInv, PageInv, SentFrom, Ran, people
<1>5. WaitingInv' /\ session' \in [Ids -> BOOLEAN] /\ cookie' \in [Browsers -> 0..MaxForms]
  BY DEF Reload, Kept, Typed, WaitingInv, SentFrom, Ran, people
<1>. QED BY <1>2, <1>3, <1>4, <1>5, RequestMoved DEF Reload

LEMMA SessionRead ==
  ASSUME Kept, NEW t \in Tabs, ReadSession(t)
  PROVE  Kept' /\ Unseen
<1>1. PICK r \in Request : r = request[t]
  BY DEF Kept, Typed
<1>2. /\ RequestInv(t) /\ PageInv(t) /\ r.at = "asked"
      /\ r.sent # 0 /\ session[r.sent] => Ran(r.sent) /\ SentFrom(r.sent, owner[t])
  BY <1>1 DEF ReadSession, Kept, Typed, WaitingInv, RequestInv, Request, Ids
<1>3. PICK at \in {"taken", "run", "render"}, took \in {0, r.sent} :
        /\ request' = [request EXCEPT ![t] = [r EXCEPT !.at = at, !.took = took]]
        /\ took # 0 => session[took]
        /\ at = "taken" => took # 0
        /\ at = "run" <=> took = 0 /\ r.form # 0
        /\ at = "render" => r.form = 0
  BY <1>1 DEF ReadSession
<1> DEFINE new == [r EXCEPT !.at = at, !.took = took]
<1>. MovedOn(r, new) /\ new.at = at /\ new.sent = r.sent /\ new.took = took
  <2>1. took \in 0..MaxForms
    BY BoundAssumption DEF Request
  <2>. QED BY <2>1 DEF MovedOn, Request
<1>. request' = [request EXCEPT ![t] = new]
  BY <1>3
<1>. HIDE DEF new
<1>4. new \in Request /\ request'[t] = new
  BY DEF Kept, Typed, MovedOn
<1>5. RequestInv(t)'
  BY <1>1, <1>2, <1>3, <1>4 DEF ReadSession, RequestInv, SentFrom, Ran, people, MovedOn
<1>6. PageInv(t)'
  BY <1>1, <1>2, <1>3, <1>4 DEF ReadSession, PageInv, people, MovedOn
<1>7. WaitingInv' /\ session' \in [Ids -> BOOLEAN] /\ cookie' \in [Browsers -> 0..MaxForms]
  BY DEF ReadSession, Kept, Typed, WaitingInv, SentFrom, Ran, people
<1>. QED BY <1>4, <1>5, <1>6, <1>7, RequestMoved DEF ReadSession

LEMMA SessionDeleted ==
  ASSUME Kept, NEW t \in Tabs, DeleteSession(t)
  PROVE  Kept' /\ Unseen
<1>1. PICK r \in Request : r = request[t]
  BY DEF Kept, Typed
<1>2. /\ RequestInv(t) /\ PageInv(t) /\ r.at = "taken"
      /\ request' = [request EXCEPT ![t] = [r EXCEPT !.at = "render", !.sent = 0]]
  BY <1>1 DEF DeleteSession, Kept
<1> DEFINE new == [r EXCEPT !.at = "render", !.sent = 0]
<1>. MovedOn(r, new) /\ new.at = "render" /\ new.sent = 0 /\ new.took = r.took
  <2>1. 0 \in 0..MaxForms
    BY BoundAssumption
  <2>. QED BY <2>1 DEF MovedOn, Request
<1>. request' = [request EXCEPT ![t] = new]
  BY <1>2
<1>. HIDE DEF new
<1>3. new \in Request /\ request'[t] = new
  BY DEF Kept, Typed, MovedOn
<1>4. RequestInv(t)'
  BY <1>1, <1>2, <1>3 DEF DeleteSession, RequestInv, SentFrom, Ran, people, MovedOn
<1>5. PageInv(t)'
  BY <1>1, <1>2, <1>3 DEF DeleteSession, PageInv, people, MovedOn
<1>6. /\ session' \in [Ids -> BOOLEAN] /\ cookie' \in [Browsers -> 0..MaxForms]
      /\ \A n \in Ids : session'[n] => session[n]
  BY DEF DeleteSession, Kept, Typed
<1>7. WaitingInv'
  BY <1>6 DEF DeleteSession, Kept, WaitingInv, SentFrom, Ran, people
<1>. QED BY <1>2, <1>3, <1>4, <1>5, <1>6, <1>7, RequestMoved DEF DeleteSession

LEMMA ResultStored ==
  ASSUME Kept, NEW t \in Tabs, StoreResult(t)
  PROVE  Kept' /\ Unseen
<1>1. PICK n \in Ids : n = request[t].form /\ n \in 1..posted /\ forms[n].from = t
                       /\ forms[n].runs = 1 /\ tab[t].url # "blank"
  BY BoundAssumption DEF StoreResult, Kept, Typed, RequestInv, Ids
<1> DEFINE r == [at |-> "asked", url |-> tab[t].url, form |-> 0, sent |-> n, took |-> 0]
<1>2. r \in Request
  BY <1>1, BoundAssumption DEF Kept, Typed, Request, Page, Ids
<1>3. request' = [request EXCEPT ![t] = r] /\ request'[t] = r
  BY <1>1 DEF StoreResult, Kept, Typed
<1>4. Ran(n) /\ SentFrom(n, owner[t]) /\ Ran(n)' /\ SentFrom(n, owner[t])'
  BY <1>1 DEF StoreResult, Ran, SentFrom, people
<1>5. RequestInv(t)'
  BY <1>3, <1>4 DEF StoreResult, RequestInv, SentFrom, Ran, people
<1>6. PageInv(t)'
  BY <1>3 DEF StoreResult, Kept, PageInv
<1>7. session' \in [Ids -> BOOLEAN] /\ cookie' \in [Browsers -> 0..MaxForms]
  BY <1>1, BoundAssumption DEF StoreResult, Kept, Typed, Ids
<1>8. /\ \A i \in Ids : session'[i] => i = n \/ session[i]
      /\ \A b \in Browsers : cookie'[b] = cookie[b] \/ (b = owner[t] /\ cookie'[b] = n)
  BY <1>1 DEF StoreResult, Kept, Typed
<1>9. WaitingInv'
  BY <1>4, <1>8 DEF StoreResult, Kept, WaitingInv, SentFrom, Ran, people
<1>. QED BY <1>2, <1>3, <1>5, <1>6, <1>7, <1>9, RequestMoved DEF StoreResult

LEMMA Expired ==
  ASSUME Kept, Expire
  PROVE  Kept' /\ Unseen
<1>1. Typed' /\ \A n \in Ids : session'[n] => session[n]
  BY DEF Expire, Kept, Typed, people
<1>2. WaitingInv'
  BY <1>1 DEF Expire, Kept, WaitingInv, SentFrom, Ran, people
<1>3. \A t \in Tabs : RequestInv(t)' /\ PageInv(t)'
  BY DEF Expire, Kept, RequestInv, PageInv, SentFrom, Ran, people
<1>. QED BY <1>1, <1>2, <1>3 DEF Expire, Kept, Unseen, senders, runs, shown, people

-----------------------------------------------------------------------------
(* The steps that OwnResults sees *)

LEMMA Submitted ==
  ASSUME Kept, NEW t \in Tabs, NEW name \in {"quote", "other"}, NEW htmx \in BOOLEAN,
         Submit(t, name, htmx)
  PROVE  Kept' /\ \E n \in Ids : Own!Send(t, n)
<1> DEFINE new == [name |-> name, from |-> t, htmx |-> htmx, runs |-> 0, outcome |-> "none"]
           r == [at |-> "asked", url |-> tab[t].url, form |-> posted', sent |-> cookie[owner[t]],
                 took |-> 0]
<1>1. /\ posted \in Nat /\ posted' = posted + 1 /\ posted' \in 1..MaxForms
      /\ DOMAIN forms = 1..posted /\ \A n \in 1..posted' : n \in 1..posted \/ n = posted'
  BY BoundAssumption DEF Submit, Kept, Typed
<1>2. new \in Form
  BY DEF Form, Outcomes
<1>3. /\ forms' = [n \in 1..posted' |-> IF n \in 1..posted THEN forms[n] ELSE new]
      /\ DOMAIN forms' = 1..posted' /\ forms'[posted'] = new
      /\ \A n \in 1..posted : forms'[n] = forms[n]
  BY <1>1 DEF Submit
<1>4. forms' \in [1..posted' -> Form]
  BY <1>1, <1>2, <1>3 DEF Kept, Typed
<1>5. r \in Request /\ request' = [request EXCEPT ![t] = r] /\ request'[t] = r /\ tab[t].url # "blank"
  <2>1. tab[t].url \in {"swap", "thread"}
    BY DEF Submit, PageOf
  <2>2. cookie[owner[t]] \in 0..MaxForms
    BY DEF Kept, Typed
  <2>3. r \in Request
    BY <1>1, <2>1, <2>2, BoundAssumption DEF Request
  <2>. QED BY <2>1, <2>3 DEF Submit, Send, Kept, Typed
<1>6. Typed'
  BY <1>1, <1>4, <1>5 DEF Submit, Kept, Typed, people
<1>7. /\ \A u \in Tabs \ {t} : RequestInv(u)' /\ PageInv(u)'
      /\ \A n \in 0..MaxForms : Ran(n) => Ran(n)'
      /\ \A n \in 0..MaxForms, b \in Browsers : SentFrom(n, b) => SentFrom(n, b)'
  <2>1. UNCHANGED people /\ posted' \in Nat /\ posted <= posted'
    BY <1>1 DEF Submit
  <2>2. \A u \in Tabs \ {t} : request'[u] = request[u] /\ tab'[u] = tab[u]
    BY <1>5 DEF Submit, Kept, Typed
  <2>. QED BY <1>3, <2>1, <2>2, OthersKept
<1>8. WaitingInv'
  BY <1>7, BoundAssumption DEF Submit, Kept, Typed, WaitingInv, Ids
<1>9. RequestInv(t)'
  <2>1. SentFrom(cookie[owner[t]], owner[t]) /\ cookie[owner[t]] \in 0..MaxForms /\ owner[t] \in Browsers
    BY DEF Kept, Typed, WaitingInv
  <2>2. SentFrom(cookie[owner[t]], owner[t])'
    BY <1>7, <2>1 DEF Submit, people
  <2>. QED BY <1>1, <1>3, <1>5, <2>2 DEF Submit, RequestInv, Ran, SentFrom, people
<1>10. PageInv(t)'
  BY <1>1, <1>3, <1>5 DEF Submit, Kept, PageInv
<1>11. \E n \in Ids : Own!Send(t, n)
  <2>1. PICK n \in Ids : n = posted'
    BY <1>1 DEF Ids
  <2>2. Own!Send(t, n)
    BY <1>1, <1>3, <2>1 DEF Submit, Own!Send, people
  <2>. QED BY <2>2
<1>. QED BY <1>6, <1>7, <1>8, <1>9, <1>10, <1>11 DEF Kept

(***************************************************************************)
(* A form that waits to run has not run.                                   *)
(***************************************************************************)
LEMMA RanOnce ==
  ASSUME Kept, NEW t \in Tabs, NEW outcome \in Outcomes, RunAction(t, outcome)
  PROVE  Kept' /\ \E n \in DOMAIN senders : Own!Run(n)
<1>1. PICK r \in Request : r = request[t] /\ RequestInv(t)
  BY DEF Kept, Typed
<1>2. PICK n \in 1..posted : n = r.form /\ forms[n].from = t /\ forms[n].runs = 0 /\ forms[n] \in Form
  BY <1>1 DEF RunAction, RequestInv, Kept, Typed
<1>3. /\ forms' \in [1..posted -> Form]
      /\ forms'[n].from = t /\ forms'[n].htmx = forms[n].htmx /\ forms'[n].runs = 1
      /\ \A i \in 1..posted \ {n} : forms'[i] = forms[i]
  <2>1. /\ DOMAIN forms' = 1..posted /\ \A i \in 1..posted \ {n} : forms'[i] = forms[i]
        /\ forms' = [i \in 1..posted |-> forms'[i]]
    BY <1>1, <1>2 DEF RunAction, Kept, Typed
  <2>2. PICK k \in 0..2 : k = 1
    OBVIOUS
  <2>3. forms'[n] = [forms[n] EXCEPT !.runs = IF @ < 2 THEN @ + 1 ELSE @, !.outcome = outcome]
    BY <1>1, <1>2 DEF RunAction, Kept, Typed
  <2>4. forms'[n] = [forms[n] EXCEPT !.runs = k, !.outcome = outcome]
    BY <1>2, <2>2, <2>3 DEF Form
  <2>5. forms'[n] \in Form
    BY <1>2, <2>4 DEF Form
  <2>6. forms'[n].from = forms[n].from /\ forms'[n].htmx = forms[n].htmx /\ forms'[n].runs = k
    BY <1>2, <2>4 DEF Form
  <2>. QED BY <1>2, <2>1, <2>2, <2>5, <2>6 DEF Kept, Typed
<1> DEFINE at == IF forms[n].htmx THEN "render" ELSE "store"
           took == IF forms[n].htmx THEN n ELSE 0
           new == [r EXCEPT !.at = at, !.took = took]
<1>. MovedOn(r, new) /\ new.at = at /\ new.sent = r.sent /\ new.took = took
  <2>1. took \in 0..MaxForms
    BY BoundAssumption DEF Kept, Typed
  <2>2. at \in {"render", "store"}
    OBVIOUS
  <2>. HIDE DEF at, took
  <2>. QED BY <2>1, <2>2 DEF MovedOn, Request
<1>. request' = [request EXCEPT ![t] = new]
  BY <1>1, <1>2 DEF RunAction, AnsweredInPlace
<1>. HIDE DEF new
<1>4. new \in Request /\ request'[t] = new
  BY DEF Kept, Typed, MovedOn
<1>5. Typed'
  BY <1>3, <1>4 DEF RunAction, Kept, Typed, people
<1>6. /\ \A u \in Tabs \ {t} : RequestInv(u)' /\ PageInv(u)'
      /\ \A i \in 0..MaxForms : Ran(i) => Ran(i)'
      /\ \A i \in 0..MaxForms, b \in Browsers : SentFrom(i, b) => SentFrom(i, b)'
  <2>1. UNCHANGED people /\ posted' \in Nat /\ posted <= posted'
    BY DEF RunAction, Kept, Typed
  <2>2. \A u \in Tabs \ {t} : request'[u] = request[u] /\ tab'[u] = tab[u]
    BY <1>4 DEF RunAction, Kept, Typed
  <2>. QED BY <1>2, <1>3, <2>1, <2>2, OthersKept
<1>7. WaitingInv'
  BY <1>6, BoundAssumption DEF RunAction, Kept, Typed, WaitingInv, Ids
<1>8. RequestInv(t)'
  <2>1. SentFrom(r.sent, owner[t])'
    BY <1>1, <1>6 DEF RunAction, RequestInv, Request, people, Kept, Typed
  <2>. QED BY <1>1, <1>2, <1>3, <1>4, <2>1 DEF RunAction, RequestInv, Ran, SentFrom, people, MovedOn
<1>9. PageInv(t)'
  BY <1>1, <1>2, <1>3, <1>4 DEF RunAction, Kept, PageInv, people, MovedOn
<1>10. Own!Run(n) /\ n \in DOMAIN senders
  <2>1. DOMAIN forms = 1..posted /\ DOMAIN forms' = 1..posted
    BY <1>3 DEF Kept, Typed
  <2>2. runs' = [runs EXCEPT ![n] = 1] /\ runs[n] = 0 /\ senders' = senders
    BY <1>2, <1>3, <2>1 DEF runs, senders
  <2>3. shown' = shown /\ owner' = owner
    BY DEF RunAction, shown, people
  <2>. QED BY <1>2, <2>1, <2>2, <2>3 DEF Own!Run, senders, runs, shown
<1>. QED BY <1>5, <1>6, <1>7, <1>8, <1>9, <1>10 DEF Kept

(***************************************************************************)
(* What an answer shows: the form whose result was taken for its request,  *)
(* or nothing, for the copy that is kept shows nothing.                    *)
(***************************************************************************)
Result(t) ==
  IF MayBeKept(t) /\ kept # {} THEN CHOOSE n \in kept : TRUE
  ELSE IF Shows(request[t].url, request[t].took) THEN request[t].took ELSE 0

LEMMA Answered ==
  ASSUME Kept, NEW t \in Tabs, Answer(t)
  PROVE  Kept' /\ \E n \in {0} \cup DOMAIN senders : Own!Show(t, n)
<1>1. PICK r \in Request : r = request[t] /\ RequestInv(t) /\ PageInv(t) /\ r.at = "render"
  BY DEF Kept, Typed, Answer
<1>2. PICK n \in {0, r.took} : n = Result(t)
  <2>1. CASE MayBeKept(t) /\ kept # {}
    BY <2>1 DEF Result, Kept, WaitingInv
  <2>2. CASE ~(MayBeKept(t) /\ kept # {})
    BY <1>1, <2>2 DEF Result
  <2>. QED BY <2>1, <2>2
<1>3. n \in 0..posted /\ Ran(n) /\ SentFrom(n, owner[t])
  BY <1>1, <1>2 DEF RequestInv, Ran, SentFrom, Kept, Typed
<1>4. PICK resend \in {tab[t].resend, r.form} :
        /\ tab' = [tab EXCEPT ![t] = [url |-> r.url, result |-> n, resend |-> resend]]
        /\ \/ resend = tab[t].resend /\ r.form # 0
           \/ resend = r.form /\ (r.form # 0 => ~forms[r.form].htmx)
  BY <1>1, <1>2 DEF Answer, Result
<1>5. request' = [request EXCEPT ![t] = NoRequest] /\ request'[t] = NoRequest
  BY DEF Answer, Kept, Typed
<1>6. /\ UNCHANGED <<people, forms, posted, session>>
      /\ cookie' = cookie \/ cookie' = [cookie EXCEPT ![owner[t]] = 0]
      /\ cookie' \in [Browsers -> 0..MaxForms]
      /\ \A b \in Browsers : cookie'[b] \in {0, cookie[b]}
  BY BoundAssumption DEF Answer, Kept, Typed
<1>7. Typed'
  <2>1. tab[t] \in Page /\ NoRequest \in Request
    BY BoundAssumption DEF Kept, Typed, NoRequest, Request
  <2>2. resend \in 0..MaxForms /\ n \in 0..MaxForms
    BY <1>3, <1>4, <2>1, BoundAssumption DEF Page, Request, Kept, Typed
  <2>3. [url |-> r.url, result |-> n, resend |-> resend] \in Page
    BY <2>2 DEF Page, Request
  <2>. QED BY <1>4, <1>5, <1>6, <2>1, <2>3 DEF Kept, Typed, people
<1>8. /\ \A u \in Tabs \ {t} : RequestInv(u)' /\ PageInv(u)'
  <2>1. \A u \in Tabs \ {t} : request'[u] = request[u] /\ tab'[u] = tab[u]
    BY <1>4, <1>5 DEF Kept, Typed
  <2>. QED BY <1>6, <2>1 DEF Kept, RequestInv, PageInv, SentFrom, Ran, people
<1>9. kept' \subseteq {0}
  <2>1. CASE kept' = kept
    BY <2>1 DEF Kept, WaitingInv
  <2>2. CASE kept' # kept
    <3>1. r.url = "swap" /\ ~NoStore(r.took, Member(t)) /\ kept = {} /\ kept' = {Result(t)}
      BY <1>1, <2>2 DEF Answer, MayBeKept, Result
    <3>2. ~Shows(r.url, r.took)
      BY <3>1 DEF Shows, NoStore
    <3>. QED BY <1>1, <3>1, <3>2 DEF Result
  <2>. QED BY <2>1, <2>2
<1>10. WaitingInv'
  BY <1>6, <1>9 DEF Kept, WaitingInv, SentFrom, Ran, people
<1>11. RequestInv(t)'
  BY <1>5, <1>6 DEF NoRequest, RequestInv, SentFrom, Ran
<1>12. PageInv(t)'
  <2>1. tab'[t] = [url |-> r.url, result |-> n, resend |-> resend]
    BY <1>4 DEF Kept, Typed
  <2>2. r.url # "blank"
    BY DEF Request
  <2>. QED BY <1>1, <1>4, <1>5, <1>6, <2>1, <2>2 DEF RequestInv, PageInv
<1>13. Own!Show(t, n) /\ n \in {0} \cup DOMAIN senders
  <2>1. senders' = senders /\ runs' = runs /\ owner' = owner /\ shown' = [shown EXCEPT ![t] = n]
    BY <1>4, <1>6 DEF senders, runs, shown, people, Kept, Typed
  <2>2. DOMAIN forms = 1..posted
    BY DEF Kept, Typed
  <2>3. n # 0 => n \in DOMAIN senders /\ runs[n] = 1 /\ owner[senders[n]] = owner[t]
    BY <1>3, <2>2 DEF runs, senders, Ran, SentFrom
  <2>. QED BY <1>3, <2>1, <2>2, <2>3 DEF Own!Show, senders, runs, shown
<1>. QED BY <1>7, <1>8, <1>10, <1>11, <1>12, <1>13 DEF Kept

-----------------------------------------------------------------------------
(* The theorems *)

LEMMA StepKept ==
  ASSUME Kept, Next
  PROVE  Kept' /\ (Own!Next \/ Unseen)
<1>1. ASSUME NEW t \in Tabs, NEW name \in {"quote", "other"}, NEW htmx \in BOOLEAN,
             Submit(t, name, htmx)
      PROVE  Kept' /\ Own!Next
  BY <1>1, Submitted DEF Own!Next
<1>2. ASSUME NEW t \in Tabs, NEW outcome \in Outcomes, RunAction(t, outcome)
      PROVE  Kept' /\ Own!Next
  BY <1>2, RanOnce DEF Own!Next, senders
<1>3. ASSUME NEW t \in Tabs, Answer(t)
      PROVE  Kept' /\ Own!Next
  <2>1. Kept' /\ \E n \in {0} \cup DOMAIN senders : Own!Show(t, n)
    BY <1>3, Answered
  <2>. QED BY <2>1 DEF Own!Next, senders
<1>. QED
  BY <1>1, <1>2, <1>3, Opened, Reloaded, SessionRead, SessionDeleted, ResultStored, Expired DEF Next

LEMMA StutterKept ==
  ASSUME Kept, UNCHANGED vars
  PROVE  Kept' /\ Unseen
BY DEF Kept, Typed, WaitingInv, RequestInv, PageInv, SentFrom, Ran, vars, people,
       Unseen, senders, runs, shown

(***************************************************************************)
(* IInv holds at first and every step keeps it.                            *)
(***************************************************************************)
THEOREM Invariance == Spec => []IInv
<1>1. Init => Kept
  BY InitInvariant
<1>2. Kept /\ [Next]_vars => Kept'
  BY StepKept, StutterKept
<1>. QED BY <1>1, <1>2, KeptIsIInv, PTL DEF Spec

(***************************************************************************)
(* A form runs at most once and is shown to its own browser: every step of *)
(* the site is a step of OwnResults or leaves that as it was.              *)
(***************************************************************************)
THEOREM ResultsAreOwn == Spec => ShowsOwnResults
<1>1. Init => Own!Init
  BY DEF Init, Own!Init, Blank
<1>2. Kept /\ [Next]_vars => [Own!Next]_(Own!vars)
  <2>1. ASSUME Unseen PROVE UNCHANGED Own!vars
    BY <2>1 DEF Unseen, senders, runs, shown, Own!vars
  <2>. QED BY <2>1, StepKept, StutterKept
<1>3. Spec => []Kept
  BY Invariance, KeptIsIInv, PTL
<1>. QED BY <1>1, <1>2, <1>3, PTL DEF Spec, ShowsOwnResults, Own!Spec

=============================================================================
