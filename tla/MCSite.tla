-------------------------------- MODULE MCSite --------------------------------
(***************************************************************************)
(* What visitors meet: forms and their results, pictures of two kinds, the *)
(* links to cards, notices and their delivery, the swap page with its      *)
(* quotes, and the search.  These share no state, so a behaviour exercises *)
(* one of them.                                                            *)
(***************************************************************************)
EXTENDS FormResults, TLC

CONSTANTS
  Requests, Backlog, MaxVersion, Nobody,                            \* Pictures
  Texts, Names, Title, Body, Name, Total, MaxCategories, Lowest, Highest, None,  \* Cards
  Users, Poster, Replier, Topics, Choosers, MaxNotices,             \* Notices
  Visitor, Streams, Devices, MaxKeys,                               \* Pushes
  Listed, Fallback, Unlisted, Typed,                                \* Swap
  Order, Services, MaxAmount,                                       \* Quotes
  Sites, Params, Attributes, Draws, PageSize, Minimum, Curated, Combinations, MaxParams  \* Search

VARIABLES
  part,
  asked, running, waiting, card, logo, font, loader, defaultCard, badge, upload, thumb,
  page, link, drawn,
  status, before, listed, prefs, watching, wants, autowatch, notices,
  listening, inserted, sending, stream, browser, made, saving, rows,
  aggregator, cached, form, driven, sent,
  table,
  public, address, wanted, redirects, reading, seed, met

ASSUME VersionAssumption == MaxVersion \in Nat

pictures == <<asked, running, waiting, card, logo, font, loader, defaultCard, badge, upload, thumb>>
cards == <<page, link, drawn>>
news == <<status, before, listed, prefs, watching, wants, autowatch, notices>>
pushes == <<listening, inserted, sending, stream, browser, made, saving, rows>>
swap == <<aggregator, cached, form, driven, sent>>
search == <<public, address, wanted, redirects, reading, seed, met>>

\* Graphemes of one and two units, spaces and emoji; longer ones to cut.
MCTexts ==
  UNION {[1..n -> {"x", "space", "emoji"}] : n \in 0..2}
    \cup {<<"x", "emoji", "x">>, <<"x", "space", "x">>, <<"x", "x", "x">>,
          <<"wide">>, <<"x", "wide">>, <<"wide", "wide">>, <<"space", "wide">>}
MCNames == {<<"x">>, <<"x", "wide">>, <<"space", "emoji">>}

\* A coin only the whole list has, one nobody has, and amounts on either side.
Queries ==
  {[from |-> q[1], to |-> q[2], send |-> q[3], receive |-> q[4]] :
     q \in {<<"btc", "usdt", "", "">>, <<"btc", "usdt", "", "1">>, <<"btc", "xmr", "1", "1">>, <<"xmr", "fake", "", "">>}}

\* One provider the site lists, between two it does not.
MCOrder == <<"p1", "p2", "p3">>
MCServices == [p \in {"p2"} |-> [score |-> 1, kyc |-> 1, approved |-> TRUE]]

\* Two of a category and one of none, all of one score.
MCSites ==
  LET site(v, cats, coins, attrs, k) ==
        [verification |-> v, categories |-> cats, currencies |-> coins, attributes |-> attrs, kyc |-> k, score |-> 1]
  IN 1 :> site("approved", {"vpn"}, {"btc", "xmr"}, {"a"}, 0)
     @@ 2 :> site("approved", {"vpn"}, {"btc"}, {"b"}, 0)
     @@ 3 :> site("verified", {}, {"xmr"}, {}, 3)

\* Values as by default, others, wrong ones and empty ones.
MCParams ==
  LET attr(i, v) == [id |-> i, value |-> v] IN
  [verification |-> {<<>>, <<"verified", "approved">>, <<"approved">>, <<"wrong">>},
   sort |-> {<<>>, <<"score-desc">>, <<"score-asc">>, <<"wrong", "score-asc">>},
   categories |-> {<<>>, <<"vpn">>}, currencies |-> {<<>>, <<"btc">>, <<"btc", "xmr">>, <<"wrong">>},
   mode |-> {<<>>, <<"or">>, <<"and">>},
   attr |-> {<<>>, <<attr("a", "")>>, <<attr("a", "no")>>, <<attr("a", ""), attr("b", "yes")>>, <<attr("a", "yes"), attr("b", "yes")>>},
   maxKyc |-> {<<>>, <<0>>, <<4>>}, page |-> {<<>>, <<1>>, <<2>>}, sortSeed |-> {<<>>, <<"s1">>}]
MCDraws == [s1 |-> <<1, 2, 3>>, s2 |-> <<2, 1, 1>>]

Thumbs == INSTANCE Pictures WITH request <- asked, Kinds <- {"thumb"}, Slots <- [s \in {"render", "transform"} |-> 1]
Drawing == INSTANCE Pictures WITH request <- asked, Kinds <- {"card"}, Slots <- [s \in {"render", "transform"} |-> 2]
CardLinks == INSTANCE Cards
ASSUME CardAssumption == CardLinks!Wellformed
News == INSTANCE Notices
Pushing == INSTANCE Pushes WITH notices <- inserted, MaxNotices <- 1
SwapPage == INSTANCE Swap WITH page <- form, Chips <- {<<"btc", "xmr">>}, Links <- Queries
Table == INSTANCE Quotes
ASSUME TableAssumption == Table!Wellformed
Find ==
  INSTANCE Search WITH
    listed <- public, url <- address, first <- wanted, at <- reading,
    Services <- Sites, Values <- Params
ASSUME SearchAssumption == Find!Wellformed

\* Of people who differ in nothing one is enough, and one first state of what does not run.
FirstTab == CHOOSE t \in Tabs : TRUE
FirstBrowser == CHOOSE b \in Browsers : TRUE

FirstOwners ==
  /\ owner[FirstTab] = FirstBrowser
  /\ members \subseteq {owner[t] : t \in Tabs} \ {FirstBrowser}
  /\ part # "forms" => members = {} /\ \A t \in Tabs : owner[t] = FirstBrowser

SiteInit ==
  /\ part \in {"forms", "thumbs", "drawing", "cards", "news", "pushes", "swap", "quotes", "search"}
  /\ Init /\ FirstOwners
  /\ Drawing!Init
  /\ IF part = "cards" THEN CardLinks!AnyPage ELSE page = CardLinks!Generic(<<"x">>, None, None)
  /\ link = CardLinks!NoLink /\ drawn = CardLinks!Nothing
  /\ News!Init /\ (part # "news" => listed)
  /\ Pushing!Init
  /\ SwapPage!Init /\ (part # "swap" => aggregator = "up")
  /\ Table!Init
  /\ address \in IF part = "search" THEN Find!Links ELSE {Find!NoParams}
  /\ public \in IF part = "search" THEN SUBSET DOMAIN Sites ELSE {{}}
  /\ Find!Init

SiteNext ==
  \/ part = "forms" /\ Next /\ UNCHANGED <<part, pictures, cards, news, pushes, swap, table, search>>
  \/ part = "thumbs" /\ Thumbs!Next /\ UNCHANGED <<part, vars, cards, news, pushes, swap, table, search>>
  \/ part = "drawing" /\ Drawing!Next /\ UNCHANGED <<part, vars, cards, news, pushes, swap, table, search>>
  \/ part = "cards" /\ CardLinks!Next /\ UNCHANGED <<part, vars, pictures, news, pushes, swap, table, search>>
  \/ part = "news" /\ News!Next /\ UNCHANGED <<part, vars, pictures, cards, pushes, swap, table, search>>
  \/ part = "pushes" /\ Pushing!Next /\ UNCHANGED <<part, vars, pictures, cards, news, swap, table, search>>
  \/ part = "swap" /\ SwapPage!Next /\ UNCHANGED <<part, vars, pictures, cards, news, pushes, table, search>>
  \/ part = "quotes" /\ Table!Next /\ UNCHANGED <<part, vars, pictures, cards, news, pushes, swap, search>>
  \/ part = "search" /\ Find!Next /\ UNCHANGED <<part, vars, pictures, cards, news, pushes, swap, table>>

SiteSpec == SiteInit /\ [][SiteNext]_<<part, vars, pictures, cards, news, pushes, swap, table, search>>

\* The swap page waits for one answer at a time, and is not followed further once it
\* swaps from the coin that only the whole list has.
FewSwaps == (\E w \in DOMAIN sent : sent[w] = SwapPage!NotSent) /\ form.form.from # "usdt"

(***************************************************************************)
(* A card that lacks something is not kept (ogimage.png.ts:24).            *)
(***************************************************************************)
KeptCardsAreWhole == part = "drawing" => Drawing!KeptCardsAreWhole

(***************************************************************************)
(* A replaced file is not answered with its old picture                    *)
(* (imageEndpoint.ts:111).                                                 *)
(***************************************************************************)
NoStaleThumb == part = "thumbs" => Thumbs!NoStaleThumb

(***************************************************************************)
(* What the site signs it draws (ogImageNormalize.ts:18).                  *)
(***************************************************************************)
SignedCardsAreDrawn == part = "cards" => CardLinks!SignedCardsAreDrawn

(***************************************************************************)
(* Nobody is told of a post twice (06_notifications_comments.sql:89).      *)
(***************************************************************************)
NobodyIsToldTwice == part = "news" => News!NobodyIsToldTwice

(***************************************************************************)
(* Nothing of a stream that is over is left (server-events.ts:79).         *)
(***************************************************************************)
NoListenerOutlivesItsStream == part = "pushes" => Pushing!NoListenerOutlivesItsStream

(***************************************************************************)
(* The swap page asks with the amount set last (swap-client.ts:117).       *)
(***************************************************************************)
AsksWhatWasSet == part = "swap" => SwapPage!AsksWhatWasSet

(***************************************************************************)
(* The best quote heads the table (swapResultUi.ts:100, :150).             *)
(***************************************************************************)
BestIsFirst == part = "quotes" => Table!BestIsFirst

(***************************************************************************)
(* A link is redirected at most once, to a URL that asks for the same;     *)
(* going through its pages shows each service that matches once; and what  *)
(* the sitemap names asks for what it was counted for                      *)
(* (parseUrlFilters.ts:250, index.astro:298, search.xml.ts:80).            *)
(***************************************************************************)
SearchesAreStable ==
  part = "search" => Find!OneRedirect /\ Find!EachServiceOnce /\ Find!SitemapIsClean
=============================================================================
