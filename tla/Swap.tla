---------------------------------- MODULE Swap ----------------------------------
(***************************************************************************)
(* The swap page: the form with a script on it (swap-client.ts, SwapForm), *)
(* the list of coins the site keeps of the aggregator's (listCurrencies,   *)
(* swapCurrencies) and what is not found (swap/index.astro).  The table of *)
(* quotes is in Quotes.                                                    *)
(*                                                                         *)
(* One visitor with one page.  An amount is "", one that was typed, or one *)
(* the site gave, of a quote or of its own.  The form and what is around   *)
(* it send at the same time; answers come in any order.                    *)
(***************************************************************************)
EXTENDS Naturals

CONSTANTS
  Listed,   \* what the aggregator lists
  Fallback, \* fallbackOptions
  Unlisted, \* what neither has
  Chips,    \* SWAP_CHIPS_PAIRS
  Links,    \* queries of the page that visitors follow
  Typed     \* amounts people type

VARIABLES
  aggregator, \* "up", "cold" while it has no coins yet, or "down"
  cached,     \* whether the list is kept
  page,       \* the form, and what the links and controls around it were made for
  driven,     \* the amount the visitor set last, and its side
  sent        \* requests on their way: of the form, and of the chips and controls

vars == <<aggregator, cached, page, driven, sent>>

Coins == Listed \cup Fallback \cup Unlisted
Amounts == {"", "given"} \cup Typed
Query == [from : Coins, to : Coins, send : Amounts, receive : Amounts]
Plain == [from |-> "btc", to |-> "xmr", send |-> "", receive |-> ""]
NotSent == [kind |-> "none", query |-> Plain]
\* whole: whether the coins to choose from are all. quotes: "none" of a page that was not asked, "down", or the table.
NoPage == [at |-> "none", whole |-> FALSE, form |-> Plain, input |-> Plain, quotes |-> "none"]

TypeOK ==
  /\ aggregator \in {"up", "cold", "down"} /\ cached \in BOOLEAN
  /\ page \in [at : {"none", "open", "404"}, whole : BOOLEAN, form : Query, input : Query, quotes : {"none", "down", "shown"}]
  /\ driven \in [side : {"send", "receive"}, amount : Amounts]
  /\ sent \in [{"form", "other"} -> [kind : {"none", "get", "quote"}, query : Query]]

Init ==
  /\ aggregator \in {"up", "cold", "down"} /\ cached = FALSE
  /\ page = NoPage
  /\ driven = [side |-> "send", amount |-> ""]
  /\ sent = [w \in {"form", "other"} |-> NotSent]

-----------------------------------------------------------------------------
(* The list of coins *)

\* getCachedCurrencies keeps no list that is empty.
KeepsList == cached \/ aggregator = "up"

\* getSwapCurrencies: the whole list or, degraded, the popular coins without their networks.
Degraded == ~KeepsList
Options == IF Degraded THEN Fallback ELSE IF cached \/ aggregator = "up" THEN Listed ELSE {}

-----------------------------------------------------------------------------
(* The server *)

\* sendAmount wins.
Cleaned(q) == [q EXCEPT !.receive = IF q.send = "" THEN @ ELSE ""]

\* SwapFormAndResults of a GET.
Prefilled(q) ==
  LET from == IF q.from \in Options THEN q.from ELSE "btc"
      to == IF q.to \in Options THEN q.to ELSE "xmr"
      other == IF to = "xmr" THEN "btc" ELSE "xmr"
  IN
  Cleaned([q EXCEPT !.from = IF from = to THEN other ELSE from, !.to = to,
                    !.send = IF q.send = "" /\ q.receive = "" THEN "given" ELSE @])

\* SwapCurrencySelect falls back to the first popular coin.
Selected(coin) == IF coin \in Options THEN coin ELSE "btc"

\* buildSwapUrl of the flip: what is received becomes what is sent.
Flip(p) ==
  [from |-> p.input.to, to |-> p.input.from, receive |-> "",
   send |-> IF p.quotes # "none" /\ p.input.receive # "" THEN p.input.receive ELSE "given"]

\* hasUnknownSwapCurrency.
Unknown(q) == ~Degraded /\ ~({q.from, q.to} \subseteq Options)

-----------------------------------------------------------------------------
(* The page *)

\* A whole page: all the form is new.
Load(q) ==
  /\ sent = [w \in {"form", "other"} |-> NotSent]
  /\ cached' = KeepsList
  /\ LET form == Prefilled(q) IN
     IF Unknown(q) THEN page' = [NoPage EXCEPT !.at = "404", !.form = q] /\ UNCHANGED driven
     ELSE /\ page' = [at |-> "open", whole |-> ~Degraded, form |-> form, input |-> form, quotes |-> "none"]
          /\ driven' = [side |-> IF form.send # "" THEN "send" ELSE "receive",
                        amount |-> IF form.send # "" THEN form.send ELSE form.receive]
  /\ UNCHANGED <<aggregator, sent>>

\* onInput: the other amount goes. Mutation: it stays.
TypeKeepsPeer(form, side, amount) == [form EXCEPT ![side] = amount]
Peer(side) == IF side = "send" THEN "receive" ELSE "send"
TypeInto(form, side, amount) ==
  IF amount = "" THEN [form EXCEPT ![side] = amount]
  ELSE [form EXCEPT ![side] = amount, ![Peer(side)] = ""]

Type(side, amount) ==
  /\ page.at = "open" /\ page.form[side] # amount
  /\ page' = [page EXCEPT !.form = TypeInto(@, side, amount)]
  /\ driven' = IF amount # "" THEN [side |-> side, amount |-> amount]
               ELSE IF page.form[Peer(side)] # "" THEN [side |-> Peer(side), amount |-> page.form[Peer(side)]]
               ELSE [side |-> side, amount |-> ""]
  /\ UNCHANGED <<aggregator, cached, sent>>

\* hx-sync="this:abort": while the form waits for an answer, what it sends is dropped.
Ask(form) ==
  sent' = IF sent["form"] = NotSent THEN [sent EXCEPT !["form"] = [kind |-> "quote", query |-> form]] ELSE sent

Submit ==
  /\ page.at = "open"
  /\ Ask(page.form)
  /\ UNCHANGED <<aggregator, cached, page, driven>>

\* selectOption sends the form at once: choosing what is chosen is Submit.
Choices == IF page.whole THEN Listed ELSE Fallback
SelectOption(name, coin) ==
  /\ page.at = "open" /\ coin \in Choices \ {page.form[name]}
  /\ page' = [page EXCEPT !.form[name] = coin]
  /\ Ask(page'.form)
  /\ UNCHANGED <<aggregator, cached, driven>>

\* handleFlip takes both amounts from the link, and the coins there are: without the second
\* one nothing is sent. Mutation: the amount to receive stays.
Turned(form, flip) ==
  [form EXCEPT !.send = flip.send, !.from = IF flip.from \in Choices THEN flip.from ELSE @,
               !.to = IF flip.to \in Choices THEN flip.to ELSE @]
FlipKeepsReceive(form, flip) == Turned(form, flip)
FlipForm(form, flip) == [Turned(form, flip) EXCEPT !.receive = flip.receive]

FollowFlip ==
  LET flip == Flip(page) IN
  /\ page.at = "open"
  /\ page' = [page EXCEPT !.form = FlipForm(@, flip)]
  /\ driven' = [side |-> "send", amount |-> flip.send]
  /\ IF flip.to \in Choices THEN Ask(page'.form) ELSE UNCHANGED sent
  /\ UNCHANGED <<aggregator, cached>>

\* A chip asks for the page of a pair, without amounts.
FollowChip(pair) ==
  /\ page.at = "open" /\ sent["other"] = NotSent
  /\ sent' = [sent EXCEPT !["other"] = [kind |-> "get", query |-> [Plain EXCEPT !.from = pair[1], !.to = pair[2]]]]
  /\ UNCHANGED <<aggregator, cached, page, driven>>

\* SwapResultControls ask for the same quotes again.
ChangeSort ==
  /\ page.at = "open" /\ page.quotes = "shown" /\ sent["other"] = NotSent
  /\ sent' = [sent EXCEPT !["other"] = [kind |-> "quote", query |-> page.input]]
  /\ UNCHANGED <<aggregator, cached, page, driven>>

\* The answer replaces the quotes, the coins, the chips and the flip of the page: not the amounts.
\* Without an amount nobody is asked (resolveAmount).
Answer(w) ==
  LET q == sent[w].query
      quote == sent[w].kind = "quote"
      input == IF quote THEN Cleaned(q) ELSE Prefilled(q)
  IN
  /\ sent[w] # NotSent
  /\ sent' = [sent EXCEPT ![w] = NotSent]
  /\ cached' = KeepsList
  /\ page' = [page EXCEPT !.whole = ~Degraded, !.form.from = Selected(input.from), !.form.to = Selected(input.to), !.input = input,
                          !.quotes = IF ~quote THEN "none"
                                     ELSE IF aggregator = "down" /\ {input.send, input.receive} # {""} THEN "down"
                                     ELSE "shown"]
  /\ UNCHANGED <<aggregator, driven>>

\* It starts without coins, and the list is kept for an hour.
AggregatorChanges ==
  /\ aggregator' \in CASE aggregator = "up" -> {"down"} [] aggregator = "down" -> {"cold"} [] OTHER -> {"up", "down"}
  /\ UNCHANGED <<cached, page, driven, sent>>

ListExpires ==
  /\ cached /\ cached' = FALSE
  /\ UNCHANGED <<aggregator, page, driven, sent>>

Next ==
  \/ \E q \in Links : Load(q)
  \/ \E side \in {"send", "receive"}, amount \in {""} \cup Typed : Type(side, amount)
  \/ Submit \/ FollowFlip \/ ChangeSort
  \/ \E name \in {"from", "to"}, coin \in Coins : SelectOption(name, coin)
  \/ \E pair \in Chips : FollowChip(pair)
  \/ \E w \in {"form", "other"} : Answer(w)
  \/ AggregatorChanges \/ ListExpires

Spec == Init /\ [][Next]_vars

-----------------------------------------------------------------------------
(* Properties *)

(***************************************************************************)
(* The aggregator is asked with the amount the visitor set last, on its    *)
(* side, whatever was typed before, flipped or followed in between         *)
(* (swap-client.ts:117, "so the server sees only the side the user is      *)
(* driving").                                                              *)
(***************************************************************************)
AsksWhatWasSet ==
  page.at = "open" =>
    LET q == Cleaned(page.form) IN
    /\ q[driven.side] = driven.amount
    /\ q[Peer(driven.side)] = ""
=============================================================================
