-------------------------------- MODULE Search --------------------------------
(***************************************************************************)
(* The search for services: a URL with filters is cleaned by a redirect,   *)
(* read, and answered with one page of what matches, in an order that a    *)
(* seed in the URL keeps while the visitor goes from page to page.  The    *)
(* sitemap names the searches with results.                                *)
(*                                                                         *)
(* A URL is the values of each parameter, in order.  Of parameters that    *)
(* are read alike one stands for all: `sort` for q and view, max-kyc for   *)
(* min-score, `categories` for networks.  Left out: titles, the order of   *)
(* parameters, the counts beside the filters, archived services, which     *)
(* come last as scams do, and changes to services while somebody goes      *)
(* through the pages.                                                      *)
(***************************************************************************)
EXTENDS Integers, SequencesExt, FiniteSetsExt, Arrays

CONSTANTS
  Services,    \* numbered records: verification, categories, currencies, attributes, kyc and score
  Values,      \* the values each parameter may have in a link
  Attributes,  \* ids
  Draws,       \* of each seed, the numbers seedrandom draws one after the other
  PageSize,    \* PAGE_SIZE
  Minimum,     \* MIN_RESULTS_FOR_CURATED_COMBINATION
  Curated,     \* CURATED_CATEGORY_CURRENCY_SLUGS
  Combinations,\* CURATED_MULTI_CURRENCY_COMBINATIONS
  MaxParams,   \* bound: parameters of a link
  None

VARIABLES
  listed,     \* the services that are public
  url,        \* the page that is asked for or shown
  first,      \* history: what the visitor asked for
  redirects,  \* history: how often they were sent on since
  at,         \* "nowhere", "asked" or "shown"
  seed,       \* of the page that is shown
  met         \* history: the services met since the first page, one after the other, or None

vars == <<listed, url, first, redirects, at, seed, met>>

Keys == {"verification", "sort", "categories", "currencies", "currencyMode", "attr", "attributeMode", "maxKyc", "page", "sortSeed"}
NoParams == [k \in Keys |-> <<>>]

-----------------------------------------------------------------------------
(* Reading a URL: zodParseQueryParams *)

Valid(k) ==
  CASE k = "verification" -> {"verified", "approved", "community", "scam"}
    [] k = "categories" -> UNION {Services[i].categories : i \in DOMAIN Services}
    [] k = "currencies" -> UNION {Services[i].currencies : i \in DOMAIN Services}
    [] k = "sort" -> {"score-desc", "score-asc"}
    [] k \in {"currencyMode", "attributeMode"} -> {"or", "and"}
    [] k = "maxKyc" -> 0..4
    [] k = "page" -> Nat \ {0}

Default ==
  [verification |-> <<"verified", "approved">>, categories |-> <<>>, currencies |-> <<>>, sort |-> "score-desc",
   currencyMode |-> "or", attributeMode |-> "or", maxKyc |-> 4, page |-> 1]

\* zodParseArray: wrong values are skipped.
ListOf(u, k) == IF u[k] = <<>> THEN Default[k] ELSE Only(u[k], Valid(k))
\* The first value counts; a wrong one is as none.
ValueOf(u, k) == IF u[k] # <<>> /\ Head(u[k]) \in Valid(k) THEN Head(u[k]) ELSE Default[k]

\* getObjectSearchParam: values that are empty count for nothing, a wrong one spoils all.
AttrOf(u) ==
  LET set == {p \in ToSet(u.attr) : p.value # ""} IN
  IF \E p \in set : p.value \notin {"yes", "no"} THEN {} ELSE set

Filters(u) ==
  [verification |-> ListOf(u, "verification"), categories |-> ListOf(u, "categories"), currencies |-> ListOf(u, "currencies"),
   every |-> ValueOf(u, "currencyMode") = "and", attr |-> AttrOf(u),
   both |-> ValueOf(u, "attributeMode") = "and", kyc |-> ValueOf(u, "maxKyc"), sort |-> ValueOf(u, "sort")]

-----------------------------------------------------------------------------
(* Cleaning it: makeCleanUrl *)

IsDefault(u, k) == IF k = "verification" THEN ListOf(u, k) = Default[k] ELSE ValueOf(u, k) = Default[k]

\* getUneededObjectParams
WithoutEmpty(u) == [u EXCEPT !.attr = Only(@, {p \in ToSet(@) : p.value # ""})]

\* getParamsToRemove, of what is left; the values are those the visitor sent.
WithoutIdle(u, sent) ==
  LET needs == [currencyMode |-> "currencies", attributeMode |-> "attr", sortSeed |-> "page"]
      idle == {k \in {"verification", "sort", "maxKyc"} : IsDefault(sent, k)}
                \cup {k \in DOMAIN needs : u[needs[k]] = <<>>}
  IN [k \in Keys |-> IF k \in idle THEN <<>> ELSE u[k]]

\* Mutation: what depends on another parameter is looked at before the empty ones are gone.
CleanBackwards(u) == WithoutEmpty(WithoutIdle(u, u))
Clean(u) == WithoutIdle(WithoutEmpty(u), u)

-----------------------------------------------------------------------------
(* What matches, and the page of it *)

\* Of several attributes one is enough or all are needed, of those to have and of those not to.
HasAttributes(f, s) ==
  LET asked(value) == {p.id : p \in {q \in f.attr : q.value = value}}
      some(ids, mine) == ids = {} \/ IF f.both THEN ids \subseteq mine ELSE ids \cap mine # {}
  IN some(asked("yes"), s.attributes) /\ some(asked("no"), Attributes \ s.attributes)

\* What is asked of a service beside its verification.
Fits(f, s) ==
  /\ f.categories # <<>> => ToSet(f.categories) \cap s.categories # {}
  /\ f.currencies # <<>> =>
       IF f.every THEN ToSet(f.currencies) \subseteq s.currencies ELSE ToSet(f.currencies) \cap s.currencies # {}
  /\ s.kyc <= f.kyc
  /\ HasAttributes(f, s)

Matching(f) == {i \in listed : Services[i].verification \in ToSet(f.verification) /\ Fits(f, Services[i])}

\* The seeded numbers are drawn for the services by id, in whatever order they came; of equal ones the lower id is first.
Draw(i, found, sd) == Draws[sd][Cardinality({j \in found : j <= i})]

Above(f, found, sd, i, j) ==
  LET scam(k) == IF Services[k].verification = "scam" THEN 1 ELSE 0
      drawn(k) == Draw(k, found, sd)
      better(k, l) == IF f.sort = "score-desc" THEN Services[k].score > Services[l].score
                                               ELSE Services[k].score < Services[l].score
  IN
  \/ scam(i) < scam(j)
  \/ scam(i) = scam(j) /\ better(i, j)
  \/ scam(i) = scam(j) /\ ~better(j, i) /\ (drawn(i) < drawn(j) \/ (drawn(i) = drawn(j) /\ i < j))
Sorted(f, found, sd) == SortedBy(found, {p \in found \X found : Above(f, found, sd, p[1], p[2])})

UpTo(seq, page) == IF Len(seq) < page * PageSize THEN Len(seq) ELSE page * PageSize
Slice(seq, page) == SubSeq(seq, (page - 1) * PageSize + 1, UpTo(seq, page))
Pages(f) == (Cardinality(Matching(f)) + PageSize - 1) \div PageSize

-----------------------------------------------------------------------------
(* A visit *)

Redirect ==
  /\ at = "asked" /\ Clean(url) # url
  /\ url' = Clean(url) /\ redirects' = redirects + 1
  /\ UNCHANGED <<listed, first, at, seed, met>>

\* The rows come in any order; without a page in the URL the seed is new.
Show ==
  LET f == Filters(url)
      page == ValueOf(url, "page")
  IN
  /\ at = "asked" /\ Clean(url) = url
  /\ \E rows \in SetToSeqs(Matching(f)), fresh \in DOMAIN Draws :
       LET sd == IF url.page # <<>> /\ url.sortSeed # <<>> THEN Head(url.sortSeed) ELSE fresh
           shown == Slice(Sorted(f, ToSet(rows), sd), page)
       IN
       /\ seed' = sd
       /\ met' = IF page = 1 THEN shown ELSE IF met = None THEN None ELSE met \o shown
  /\ at' = "shown"
  /\ UNCHANGED <<listed, url, first, redirects>>

\* createPageUrl
NextPage ==
  /\ at = "shown" /\ ValueOf(url, "page") < Pages(Filters(url))
  /\ url' = [url EXCEPT !.page = <<ValueOf(url, "page") + 1>>, !.sortSeed = <<seed>>]
  /\ first' = url' /\ redirects' = 0 /\ at' = "asked"
  /\ UNCHANGED <<listed, seed, met>>

\* The visitor has a link.
Links ==
  {u \in [verification : Values.verification, sort : Values.sort, categories : Values.categories,
          currencies : Values.currencies, currencyMode : Values.mode, attr : Values.attr,
          attributeMode : Values.mode, maxKyc : Values.maxKyc, page : Values.page, sortSeed : Values.sortSeed] :
     Cardinality({k \in Keys : u[k] # <<>>}) <= MaxParams}

Init ==
  /\ listed \in SUBSET DOMAIN Services
  /\ url \in Links /\ first = url /\ redirects = 0 /\ at = "asked"
  /\ seed = None /\ met = None

Next == Redirect \/ Show \/ NextPage

Spec == Init /\ [][Next]_vars

-----------------------------------------------------------------------------
(* The sitemap *)

\* What a URL of the sitemap was counted for: a category or none, currencies, and whether without KYC.
Themes ==
  LET visible == UNION {Services[i].categories : i \in listed} IN
  [category : visible \cup {None}, currencies : {{}} \cup {{c} : c \in Valid("currencies")} \cup Combinations, noKyc : BOOLEAN]

Counted(t) ==
  {i \in listed : /\ t.category # None => t.category \in Services[i].categories
                  /\ t.currencies \subseteq Services[i].currencies
                  /\ t.noKyc => Services[i].kyc = 0}

\* Categories and currencies are named if anything has them, combinations of the curated ones if enough do.
InSitemap(t) ==
  LET one == ~t.noKyc /\ (t.currencies = {} \/ (t.category = None /\ t.currencies \notin Combinations))
      curated == \/ t.currencies = {}
                 \/ t.currencies \in Combinations /\ t.category # None
                 \/ \E c \in Curated : t.currencies = {c}
  IN
  \/ one /\ (t.category # None \/ t.currencies # {}) /\ Counted(t) # {}
  \/ ~one /\ curated /\ Cardinality(Counted(t)) >= Minimum

Address(t) ==
  [NoParams EXCEPT
     !.categories = IF t.category = None THEN <<>> ELSE <<t.category>>,
     !.currencies = SetToSeq(t.currencies),
     !.currencyMode = IF Cardinality(t.currencies) > 1 THEN <<"and">> ELSE <<>>,
     !.maxKyc = IF t.noKyc THEN <<0>> ELSE <<>>]

-----------------------------------------------------------------------------
(* Properties *)

(***************************************************************************)
(* A link is redirected at most once, to a URL that asks for the same      *)
(* services (parseUrlFilters.ts:250).                                      *)
(***************************************************************************)
OneRedirect ==
  redirects <= 1 /\ Matching(Filters(url)) = Matching(Filters(first))

(***************************************************************************)
(* Whoever goes from the first page to the last meets every service that   *)
(* matches, and none twice (index.astro:298).                              *)
(***************************************************************************)
EachServiceOnce ==
  at = "shown" /\ met # None =>
    /\ IsInjective(met)
    /\ ValueOf(url, "page") = Pages(Filters(url)) => ToSet(met) = Matching(Filters(url))

(***************************************************************************)
(* What the sitemap names needs no redirect, and asks for the services it  *)
(* was counted for, whatever their verification (search.xml.ts:80).       *)
(***************************************************************************)
SitemapIsClean ==
  \A t \in {x \in Themes : InSitemap(x)} :
    LET u == Address(t)
        f == Filters(u)
    IN Clean(u) = u /\ {i \in listed : Fits(f, Services[i])} = Counted(t)

-----------------------------------------------------------------------------
(* The assumption and the invariant the proofs use *)

IsList(value) == value \in Seq(ToSet(value))

Wellformed ==
  /\ IsFiniteSet(DOMAIN Services) /\ DOMAIN Services \subseteq Nat
  /\ \A i \in DOMAIN Services : Services[i].score \in Int /\ Services[i].kyc \in 0..4
  /\ \A sd \in DOMAIN Draws, n \in 1..Cardinality(DOMAIN Services) : Draws[sd][n] \in Int
  /\ \A u \in Values.attr : IsList(u)
  /\ \A u \in Values.sortSeed : u # <<>> => Head(u) \in DOMAIN Draws
  /\ \A c \in Combinations : IsFiniteSet(c)
  /\ PageSize \in Nat \ {0} /\ Minimum \in Nat \ {0}

\* A URL with what the proofs need of its values.
Sane(u) ==
  /\ u = [k \in Keys |-> u[k]]
  /\ IsList(u.attr)
  /\ u.sortSeed # <<>> => Head(u.sortSeed) \in DOMAIN Draws

\* What was met are the pages up to this one, and the next page is asked for in the same order.
MetSoFar ==
  LET f == Filters(url)
      page == ValueOf(url, "page")
      order == Sorted(f, Matching(f), seed)
  IN
  /\ seed \in DOMAIN Draws
  /\ at = "shown" => met = SubSeq(order, 1, UpTo(order, page))
  /\ at = "asked" =>
       /\ url.page # <<>> /\ url.sortSeed # <<>> /\ Head(url.sortSeed) = seed
       /\ page > 1 /\ page - 1 < Pages(f)
       /\ met = SubSeq(order, 1, UpTo(order, page - 1))

IInv ==
  /\ listed \subseteq DOMAIN Services
  /\ Sane(url) /\ Sane(first)
  /\ (redirects = 0 /\ url = first) \/ (redirects = 1 /\ url = Clean(first))
  /\ at \in {"asked", "shown"}
  /\ at = "shown" => Clean(url) = url /\ seed \in DOMAIN Draws
  /\ met # None => MetSoFar
=============================================================================
