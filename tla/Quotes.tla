--------------------------------- MODULE Quotes ---------------------------------
(***************************************************************************)
(* The table of quotes (actions/swap.ts, aggregator.ts, SwapFormAndResults *)
(* and swapResultUi.ts): what is asked of the aggregator, which of its     *)
(* answers are shown, in which order, and which row is marked as the best. *)
(*                                                                         *)
(* Amounts are small numbers.  Of a service: its score, its KYC level and  *)
(* whether it is approved or verified; a provider the site does not list   *)
(* has none of them.                                                       *)
(***************************************************************************)
EXTENDS Integers, Sequences, Functions, Arrays

CONSTANTS
  Order,     \* providers, in the order of the aggregator's answer
  Services,  \* of those the site lists, [score, kyc, approved]
  MaxAmount

VARIABLE table

Slugs == Range(Order)
Amounts == 1..MaxAmount
Sides == {"send", "receive"}
Sorts == {"rate", "score", "kyc"}
\* amount: whether there is one.
Queries == [side : Sides, amount : BOOLEAN, sort : Sorts, approvedOnly : BOOLEAN]
NoQuote == [sent |-> 0, received |-> 0]
Answers == [Slugs -> [sent : Amounts, received : Amounts] \cup {NoQuote}]
Unasked == [query |-> [side |-> "send", amount |-> FALSE, sort |-> "rate", approvedOnly |-> FALSE],
            rows |-> <<>>, best |-> "", down |-> FALSE]

TypeOK ==
  /\ table.query \in Queries
  /\ Range(table.rows) \subseteq Slugs /\ Len(table.rows) <= Len(Order)
  /\ table.best \in Slugs \cup {""} /\ table.down \in BOOLEAN

Init == table = Unasked

\* The amount of the side that was not asked: the more received, or the less sent, the better.
Better(side, p, q) == IF side = "send" THEN p.received > q.received ELSE p.sent < q.sent

\* The comparison of two services one of which, or both, may be missing. Without both the
\* difference of two infinities is not a number, and sort keeps them as they came.
Sooner(sort, a, b) ==
  LET has(x) == x \in DOMAIN Services IN
  IF ~has(a) \/ ~has(b) THEN has(a)
  ELSE IF sort = "score" THEN Services[a].score > Services[b].score
  ELSE Services[a].kyc < Services[b].kyc
Apart(sort, a, b) == sort # "rate" /\ (Sooner(sort, a, b) # Sooner(sort, b, a))
Alike(sort, a, b) == sort # "rate" /\ {a, b} \cap DOMAIN Services = {}

\* sortSwapResults.
Above(query, answer, i, j) ==
  LET a == Order[i]
      b == Order[j]
      better(p, q) == Better(query.side, answer[p], answer[q])
  IN
  IF Alike(query.sort, a, b) THEN i < j
  ELSE IF Apart(query.sort, a, b) THEN Sooner(query.sort, a, b)
  ELSE better(a, b) \/ (~better(b, a) /\ i < j)

\* Those with a quote; of approved services alone if so asked.
Shown(query, answer) ==
  {i \in DOMAIN Order : /\ answer[Order[i]] # NoQuote
                        /\ query.approvedOnly => Order[i] \in DOMAIN Services /\ Services[Order[i]].approved}
Ordering(query, answer) ==
  LET shown == Shown(query, answer) IN
  SortedBy(shown, {p \in (DOMAIN Order) \X (DOMAIN Order) : Above(query, answer, p[1], p[2])})
Rows(query, answer) ==
  LET order == Ordering(query, answer) IN [n \in DOMAIN order |-> Order[order[n]]]

\* findBestRateServiceSlug: the first of the best, from the top. Mutation: the last of them.
LastBest(side, answer, rows) ==
  LET best[n \in 0..Len(rows)] ==
        IF n = 0 THEN "" ELSE IF n = 1 \/ ~Better(side, answer[best[n - 1]], answer[rows[n]]) THEN rows[n] ELSE best[n - 1]
  IN best[Len(rows)]
Best(side, answer, rows) ==
  LET best[n \in 0..Len(rows)] ==
        IF n = 0 THEN "" ELSE IF n = 1 \/ Better(side, answer[rows[n]], answer[best[n - 1]]) THEN rows[n] ELSE best[n - 1]
  IN best[Len(rows)]

\* The aggregator is asked only with an amount, and answers for every provider or not at all.
Quote(query, answer) ==
  IF ~query.amount THEN table' = [Unasked EXCEPT !.query = query]
  ELSE LET rows == Rows(query, answer) IN
       table' = [query |-> query, rows |-> rows, best |-> Best(query.side, answer, rows), down |-> FALSE]

Unavailable(query) ==
  /\ query.amount
  /\ table' = [Unasked EXCEPT !.query = query, !.down = TRUE]

\* SwapResultControls are there with an answer, and send what it was for.
Resort(sort, approvedOnly, answer) ==
  /\ table # Unasked /\ ~table.down
  /\ Quote([table.query EXCEPT !.sort = sort, !.approvedOnly = approvedOnly], answer)

\* What may come back; without an amount nothing does.
Offers(query) == IF query.amount THEN Answers ELSE {[p \in Slugs |-> NoQuote]}

Next ==
  \/ \E query \in Queries : \E answer \in Offers(query) : Quote(query, answer)
  \/ \E query \in Queries : Unavailable(query)
  \/ \E sort \in Sorts, approvedOnly \in BOOLEAN, answer \in Offers(table.query) : Resort(sort, approvedOnly, answer)

Spec == Init /\ [][Next]_table

-----------------------------------------------------------------------------
(* Properties *)

(***************************************************************************)
(* Sorted by rate, the row marked as the best is the first, whichever side *)
(* was asked and for equal rates too: the order of the table and the mark  *)
(* come from two functions (swapResultUi.ts:100, :150).                    *)
(***************************************************************************)
BestIsFirst ==
  table.query.sort = "rate" /\ table.rows # <<>> => table.best = table.rows[1]

-----------------------------------------------------------------------------
(* The assumption and the invariant the proofs use *)

Wellformed == Order \in Seq(Slugs) /\ MaxAmount \in Nat

IInv == table.query \in Queries /\ BestIsFirst
=============================================================================
