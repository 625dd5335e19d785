------------------------------ MODULE FormResults ------------------------------
(***************************************************************************)
(* Post, redirect, get (middleware.ts): a form's result waits in Redis     *)
(* under the id in a cookie until a page of the browser takes it, and the  *)
(* pages of /swap are kept in memory for visitors.                         *)
(*                                                                         *)
(* "swap" is the swap page without parameters, "thread" any page deeper in *)
(* the site.  Of a form's values and of a result only who sees it is kept. *)
(***************************************************************************)
EXTENDS Naturals, FiniteSets

CONSTANTS
  Tabs,
  Browsers,
  MaxForms  \* bound: how many forms are sent

ASSUME BoundAssumption == MaxForms \in Nat

VARIABLES
  owner,    \* the browser of each tab
  members,  \* the browsers somebody is signed in with
  forms,    \* the forms sent, with what came of them
  posted,   \* how many they are
  session,  \* whether Redis holds the form's result
  cookie,   \* action-session-id of each browser, 0 for none
  tab,      \* the page each tab shows
  request,  \* and the request it waits for
  kept      \* the page cache: empty, or the result on the copy it holds

people == <<owner, members>>
vars == <<people, forms, posted, session, cookie, tab, request, kept>>

Ids == 1..MaxForms
Outcomes == {"none", "ok", "invalid", "refused"}

\* quote: swap.quote.  other: any other action, which shows an invalid input as it shows success.
\* refused: an error that is neither of the input nor shown by the form itself.
Form == [name : {"quote", "other"}, from : Tabs, htmx : BOOLEAN, runs : 0..2, outcome : Outcomes]
\* result: the form whose result it shows.  resend: the form a reload sends again.
Page == [url : {"blank", "swap", "thread"}, result : 0..MaxForms, resend : 0..MaxForms]
Request == [at : {"none", "asked", "taken", "run", "store", "render"}, url : {"swap", "thread"},
            form : 0..MaxForms, sent : 0..MaxForms, took : 0..MaxForms]
NoRequest == [at |-> "none", url |-> "swap", form |-> 0, sent |-> 0, took |-> 0]
Blank == [url |-> "blank", result |-> 0, resend |-> 0]

TypeOK ==
  /\ owner \in [Tabs -> Browsers] /\ members \in SUBSET Browsers
  /\ posted \in 0..MaxForms
  /\ forms \in [1..posted -> Form]
  /\ session \in [Ids -> BOOLEAN]
  /\ cookie \in [Browsers -> 0..MaxForms]
  /\ tab \in [Tabs -> Page] /\ request \in [Tabs -> Request]
  /\ kept \in SUBSET (0..MaxForms) /\ Cardinality(kept) <= 1

Init ==
  /\ owner \in [Tabs -> Browsers] /\ members \in SUBSET Browsers
  /\ posted = 0 /\ forms = [n \in {} |-> {}]
  /\ session = [n \in Ids |-> FALSE]
  /\ cookie = [b \in Browsers |-> 0]
  /\ tab = [t \in Tabs |-> Blank] /\ request = [t \in Tabs |-> NoRequest]
  /\ kept = {}

-----------------------------------------------------------------------------
(* What a page shows of a result *)

PageOf(name) == IF name = "quote" THEN "swap" ELSE "thread"

QuoteData(n) == n # 0 /\ forms[n].name = "quote" /\ forms[n].outcome = "ok"

\* addActionBannerIfNeeded.
Banner(n) == n # 0 /\ forms[n].outcome = "refused"

Shows(url, n) ==
  \/ Banner(n)
  \/ url = "swap" /\ QuoteData(n)
  \/ url = "thread" /\ n # 0 /\ forms[n].name # "quote"

\* setPublicPageCacheHeaders on the swap page. Mutation: quotes are not personal.
NoStoreOfErrors(n, member) == member \/ Banner(n)
NoStore(n, member) == member \/ QuoteData(n) \/ Banner(n)

-----------------------------------------------------------------------------
(* The browser *)

Send(t, url, n) ==
  request' = [request EXCEPT ![t] = [at |-> "asked", url |-> url, form |-> n,
                                     sent |-> cookie[owner[t]], took |-> 0]]

Open(t, url) ==
  /\ request[t].at = "none"
  /\ Send(t, url, 0)
  /\ UNCHANGED <<people, forms, posted, session, cookie, tab, kept>>

\* Only the swap page's form is sent by htmx, when scripts run.
Submit(t, name, htmx) ==
  /\ request[t].at = "none"
  /\ posted < MaxForms
  /\ tab[t].url = PageOf(name)
  /\ htmx => name = "quote"
  /\ posted' = posted + 1
  /\ forms' = [n \in 1..posted' |->
                 IF n \in DOMAIN forms THEN forms[n]
                 ELSE [name |-> name, from |-> t, htmx |-> htmx, runs |-> 0, outcome |-> "none"]]
  /\ Send(t, tab[t].url, posted')
  /\ UNCHANGED <<people, session, cookie, tab, kept>>

\* A page that answered a form is loaded again by sending the form again.
Reload(t) ==
  /\ request[t].at = "none" /\ tab[t].resend # 0
  /\ Send(t, tab[t].url, tab[t].resend)
  /\ UNCHANGED <<people, forms, posted, session, cookie, tab, kept>>

-----------------------------------------------------------------------------
(* preventFormResubmitAndStoreActionErrors *)

\* A result that waits answers the request, a form's as well.
ReadSession(t) ==
  LET r == request[t]
      found == r.sent # 0 /\ session[r.sent]
  IN
  /\ r.at = "asked"
  /\ request' = [request EXCEPT ![t].at = IF found THEN "taken" ELSE IF r.form # 0 THEN "run" ELSE "render",
                                ![t].took = IF found THEN r.sent ELSE 0]
  /\ UNCHANGED <<people, forms, posted, session, cookie, tab, kept>>

DeleteSession(t) ==
  /\ request[t].at = "taken"
  /\ session' = [session EXCEPT ![request[t].took] = FALSE]
  /\ request' = [request EXCEPT ![t].at = "render", ![t].sent = 0]
  /\ UNCHANGED <<people, forms, posted, cookie, tab, kept>>

\* A form is answered in place for htmx, by a redirect for a browser.
\* Mutation: always in place.
AnsweredInPlaceAlways(n) == TRUE
AnsweredInPlace(n) == forms[n].htmx

\* The swap action guards its only failure itself: it is not refused.
RunAction(t, outcome) ==
  LET n == request[t].form IN
  /\ request[t].at = "run"
  /\ outcome \in {"ok", IF forms[n].name = "quote" THEN "invalid" ELSE "refused"}
  /\ forms' = [forms EXCEPT ![n].runs = IF @ < 2 THEN @ + 1 ELSE @, ![n].outcome = outcome]
  /\ request' = [request EXCEPT ![t].at = IF AnsweredInPlace(n) THEN "render" ELSE "store",
                                ![t].took = IF AnsweredInPlace(n) THEN n ELSE 0]
  /\ UNCHANGED <<people, posted, session, cookie, tab, kept>>

\* The browser follows the redirect with the cookie it was just given.
StoreResult(t) ==
  LET n == request[t].form IN
  /\ request[t].at = "store"
  /\ session' = [session EXCEPT ![n] = TRUE]
  /\ cookie' = [cookie EXCEPT ![owner[t]] = n]
  /\ request' = [request EXCEPT ![t] = [at |-> "asked", url |-> tab[t].url, form |-> 0, sent |-> n, took |-> 0]]
  /\ UNCHANGED <<people, forms, posted, tab, kept>>

-----------------------------------------------------------------------------
(* cacheAnonymousSwapPages and the page *)

Member(t) == owner[t] \in members

\* sent: cookies.has no longer finds the cookie of a result that was taken.
MayBeKept(t) ==
  LET r == request[t] IN
  /\ r.url = "swap" /\ r.form = 0
  /\ ~Member(t)
  /\ r.sent = 0

Answer(t) ==
  LET r == request[t]
      hit == MayBeKept(t) /\ kept # {}
      result == IF hit THEN CHOOSE n \in kept : TRUE ELSE IF Shows(r.url, r.took) THEN r.took ELSE 0
      inPlace == r.form # 0 /\ forms[r.form].htmx
  IN
  /\ r.at = "render"
  /\ kept' = IF MayBeKept(t) /\ ~hit /\ ~NoStore(r.took, Member(t)) THEN {result} ELSE kept
  /\ tab' = [tab EXCEPT ![t] = [url |-> r.url, result |-> result,
                                resend |-> IF inPlace THEN tab[t].resend ELSE r.form]]
  \* The deletion names no path: it reaches the cookie or not, and whichever is there by now.
  /\ \/ UNCHANGED cookie
     \/ r.took \notin {0, r.form} /\ cookie' = [cookie EXCEPT ![owner[t]] = 0]
  /\ request' = [request EXCEPT ![t] = NoRequest]
  /\ UNCHANGED <<people, forms, posted, session>>

\* A result waits five minutes, and so long a page is kept at most.
Expire ==
  /\ \/ \E n \in Ids : session[n] /\ session' = [session EXCEPT ![n] = FALSE] /\ UNCHANGED kept
     \/ kept # {} /\ kept' = {} /\ UNCHANGED session
  /\ UNCHANGED <<people, forms, posted, cookie, tab, request>>

Next ==
  \/ \E t \in Tabs :
       \/ \E url \in {"swap", "thread"} : Open(t, url)
       \/ \E name \in {"quote", "other"}, htmx \in BOOLEAN : Submit(t, name, htmx)
       \/ Reload(t)
       \/ ReadSession(t) \/ DeleteSession(t)
       \/ \E outcome \in Outcomes : RunAction(t, outcome)
       \/ StoreResult(t) \/ Answer(t)
  \/ Expire

Spec == Init /\ [][Next]_vars

-----------------------------------------------------------------------------
(* Properties *)

(***************************************************************************)
(* However often pages are loaded again, a form that was sent once runs    *)
(* at most once, and nobody is shown the result of another browser's form, *)
(* not from the page cache either, although the cache is asked with the    *)
(* cookie gone (middleware.ts:74, :317).                                   *)
(***************************************************************************)
Own ==
  INSTANCE OwnResults WITH Forms <- Ids,
    sender <- [n \in DOMAIN forms |-> forms[n].from],
    runs <- [n \in DOMAIN forms |-> forms[n].runs],
    shown <- [t \in Tabs |-> tab[t].result]

ShowsOwnResults == Own!Spec

(***************************************************************************)
(* What was taken from Redis is on the page it was taken for: the quotes a *)
(* visitor without scripts asked for                                       *)
(* (swapPageInfoCore.ts:190, "All core features on KYCnot.me work with     *)
(* JavaScript disabled").                                                  *)
(***************************************************************************)
TakenResultsAreShown ==
  [][\A t \in Tabs :
       Answer(t) /\ Shows(request[t].url, request[t].took) => tab'[t].result = request[t].took]_vars

-----------------------------------------------------------------------------
(* What every step keeps *)

\* A result in a browser's hands is of a form that was sent from it.
SentFrom(n, b) == n # 0 => n \in 1..posted /\ owner[forms[n].from] = b
Ran(n) == n # 0 => n \in 1..posted /\ forms[n].runs = 1

WaitingInv ==
  /\ \A n \in Ids : session[n] => Ran(n)
  /\ \A b \in Browsers : SentFrom(cookie[b], b)
  /\ kept \subseteq {0}

\* A form is sent by its own tab, and has not run while its request may still run it.
RequestInv(t) ==
  LET r == request[t] IN
  /\ SentFrom(r.sent, owner[t])
  /\ Ran(r.took) /\ SentFrom(r.took, owner[t])
  /\ r.at \in {"run", "store"} => r.form # 0
  /\ r.at = "store" => forms[r.form].runs = 1
  /\ r.form # 0 => r.form \in 1..posted /\ forms[r.form].from = t /\ tab[t].url # "blank"
  /\ r.form # 0 /\ r.at \in {"asked", "taken", "run"} => forms[r.form].runs = 0
  /\ r.form # 0 /\ r.at = "render" => forms[r.form].htmx \/ forms[r.form].runs = 0

\* A form that a reload would send again has not run, or its redirect is being followed.
PageInv(t) ==
  LET n == tab[t].resend IN
  n # 0 => /\ n \in 1..posted /\ forms[n].from = t /\ ~forms[n].htmx /\ tab[t].url # "blank"
           /\ \/ forms[n].runs = 0
              \/ request[t].at = "store"
              \/ request[t].at # "none" /\ request[t].form = 0

IInv ==
  /\ TypeOK
  /\ WaitingInv
  /\ \A t \in Tabs : RequestInv(t) /\ PageInv(t)
=============================================================================
