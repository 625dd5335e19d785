------------------------------ MODULE SiteProofs ------------------------------
(***************************************************************************)
(* What visitors meet, part by part, for any number of people, pages,      *)
(* requests and devices.  The parts share no state: SiteNext takes a step  *)
(* of one of them and leaves the others as they are.                       *)
(***************************************************************************)
EXTENDS MCSite, Arrays, SequenceTheorems, FiniteSetTheorems, WellFoundedInduction, TLAPS

-----------------------------------------------------------------------------
(* Streams *)

(***************************************************************************)
(* A stream that is over, or not yet subscribed, has neither a heartbeat   *)
(* nor anything to clean up; and a subscription in Redis belongs to one    *)
(* that is being subscribed, or unsubscribed, or knows how to.             *)
(***************************************************************************)
CleansUp(st) ==
  /\ st.closed \/ st.at = "adding" => ~st.cleanup /\ ~st.heartbeat
  /\ st.subscribed => st.at \in {"adding", "cleaning"} \/ st.cleanup

StreamInv ==
  /\ stream \in [Streams -> Pushing!Stream]
  /\ \A s \in Streams : CleansUp(stream[s])

LEMMA StreamInit == Pushing!Init => StreamInv
BY DEF Pushing!Init, Pushing!NoStream, Pushing!Stream, StreamInv, CleansUp

(***************************************************************************)
(* A step of one stream: the new stream is any of its states that cleans   *)
(* up.                                                                     *)
(***************************************************************************)
LEMMA OneStream ==
  ASSUME StreamInv, NEW s \in Streams, NEW st \in Pushing!Stream, CleansUp(st),
         stream' = [stream EXCEPT ![s] = st]
  PROVE  StreamInv'
BY DEF StreamInv

LEMMA StreamConnected ==
  ASSUME StreamInv, NEW s \in Streams, NEW u \in Users \cup {Visitor}, Pushing!Connect(s, u)
  PROVE  StreamInv'
<1> DEFINE st == IF u = Visitor THEN [Pushing!NoStream EXCEPT !.at = "open", !.heartbeat = TRUE]
                 ELSE [Pushing!NoStream EXCEPT !.user = u, !.at = "adding"]
<1>1. st \in Pushing!Stream /\ CleansUp(st)
  BY DEF Pushing!NoStream, Pushing!Stream, CleansUp
<1>2. stream' = [stream EXCEPT ![s] = st]
  BY DEF Pushing!Connect
<1>. QED BY <1>1, <1>2, OneStream

LEMMA StreamAdded ==
  ASSUME StreamInv, NEW s \in Streams, Pushing!AddListener(s)
  PROVE  StreamInv'
<1> DEFINE st == Pushing!Added(stream[s])
<1>1. st \in Pushing!Stream /\ CleansUp(st)
  BY DEF Pushing!AddListener, Pushing!Added, Pushing!Stream, StreamInv, CleansUp
<1>2. stream' = [stream EXCEPT ![s] = st]
  BY DEF Pushing!AddListener
<1>. QED BY <1>1, <1>2, OneStream

LEMMA StreamDisconnected ==
  ASSUME StreamInv, NEW s \in Streams, Pushing!Disconnect(s)
  PROVE  StreamInv'
<1> DEFINE at == IF stream[s].at = "adding" THEN "adding"
                 ELSE IF stream[s].cleanup THEN "cleaning" ELSE "gone"
           st == [stream[s] EXCEPT !.closed = TRUE, !.heartbeat = FALSE, !.cleanup = FALSE, !.at = at]
<1>1. st \in Pushing!Stream /\ CleansUp(st)
  BY DEF Pushing!Disconnect, Pushing!Stream, StreamInv, CleansUp
<1>2. stream' = [stream EXCEPT ![s] = st]
  BY DEF Pushing!Disconnect
<1>. QED BY <1>1, <1>2, OneStream

(***************************************************************************)
(* What Redis does, and what fails.                                        *)
(***************************************************************************)
LEMMA StreamMoved ==
  ASSUME StreamInv, NEW s \in Streams,
         Pushing!Subscribed(s) \/ Pushing!FailListener(s) \/ Pushing!Unsubscribed(s)
  PROVE  StreamInv'
<1>1. CASE Pushing!Subscribed(s)
  <2> DEFINE st == [stream[s] EXCEPT !.subscribed = TRUE]
  <2>1. st \in Pushing!Stream /\ CleansUp(st)
    BY <1>1 DEF Pushing!Subscribed, Pushing!Stream, StreamInv, CleansUp
  <2>2. stream' = [stream EXCEPT ![s] = st]
    BY <1>1 DEF Pushing!Subscribed
  <2>. QED BY <2>1, <2>2, OneStream
<1>2. CASE Pushing!FailListener(s)
  <2> DEFINE st == [stream[s] EXCEPT !.at = "gone", !.closed = TRUE, !.subscribed = FALSE]
  <2>1. st \in Pushing!Stream /\ CleansUp(st)
    BY <1>2 DEF Pushing!FailListener, Pushing!Stream, StreamInv, CleansUp
  <2>2. stream' = [stream EXCEPT ![s] = st]
    BY <1>2 DEF Pushing!FailListener, StreamInv
  <2>. QED BY <2>1, <2>2, OneStream
<1>3. CASE Pushing!Unsubscribed(s)
  <2> DEFINE st == [stream[s] EXCEPT !.at = "gone", !.subscribed = FALSE]
  <2>1. st \in Pushing!Stream /\ CleansUp(st)
    BY <1>3 DEF Pushing!Unsubscribed, Pushing!Stream, StreamInv, CleansUp
  <2>2. stream' = [stream EXCEPT ![s] = st]
    BY <1>3 DEF Pushing!Unsubscribed, StreamInv
  <2>. QED BY <2>1, <2>2, OneStream
<1>. QED BY <1>1, <1>2, <1>3

\* Streams that are open and subscribed hear of a notice.
LEMMA StreamsHear ==
  ASSUME StreamInv, NEW n \in Pushing!Ids, NEW ok \in BOOLEAN, Pushing!Publish(n, ok)
  PROVE  StreamInv'
<1>1. ASSUME NEW s \in Streams
      PROVE  stream'[s] \in Pushing!Stream /\ CleansUp(stream'[s])
  <2>1. stream[s] \in Pushing!Stream /\ CleansUp(stream[s])
    BY DEF StreamInv
  <2> DEFINE st == [stream[s] EXCEPT !.heard = @ \cup {n}]
  <2>2. st \in Pushing!Stream /\ CleansUp(st)
    BY <2>1 DEF Pushing!Stream, CleansUp
  <2>3. stream'[s] = stream[s] \/ stream'[s] = st
    BY DEF Pushing!Publish
  <2>. QED BY <2>1, <2>2, <2>3
<1>2. stream' = [s \in Streams |-> stream'[s]]
  BY DEF Pushing!Publish
<1>. QED BY <1>1, <1>2 DEF StreamInv

LEMMA StreamsKept ==
  ASSUME StreamInv, Pushing!Next
  PROVE  StreamInv'
<1>1. CASE Pushing!Stop
  BY <1>1 DEF Pushing!Stop, Pushing!NoStream, Pushing!Stream, StreamInv, CleansUp
<1>2. ASSUME NEW n \in Pushing!Ids, NEW ok \in BOOLEAN, Pushing!Publish(n, ok)
      PROVE  StreamInv'
  BY <1>2, StreamsHear
<1>3. ASSUME NEW s \in Streams,
             \/ \E u \in Users \cup {Visitor} : Pushing!Connect(s, u)
             \/ Pushing!Subscribed(s) \/ Pushing!AddListener(s) \/ Pushing!FailListener(s)
             \/ Pushing!Disconnect(s) \/ Pushing!Unsubscribed(s)
      PROVE  StreamInv'
  BY <1>3, StreamConnected, StreamAdded, StreamDisconnected, StreamMoved
<1>4. ASSUME UNCHANGED stream PROVE StreamInv'
  BY <1>4 DEF StreamInv
<1>. QED
  BY <1>1, <1>2, <1>3, <1>4
  DEF Pushing!Next, Pushing!Listen, Pushing!Hear, Pushing!ConnectionEnds, Pushing!Insert,
      Pushing!ReadRows, Pushing!Push, Pushing!FailPush, Pushing!AskToPush, Pushing!AskToStop,
      Pushing!Save, Pushing!LoseRequest

-----------------------------------------------------------------------------
(* The swap page *)

\* Those of the links, the chips and the fallbacks among them.
AnyCoin == SwapPage!Coins \cup {"btc", "xmr", "usdt", "fake"}
AnyAmount == {"", "given", "1"} \cup Typed
AnyQuery == [from : AnyCoin, to : AnyCoin, send : AnyAmount, receive : AnyAmount]
AnyPage == [at : {"none", "open", "404"}, whole : BOOLEAN, form : AnyQuery, input : AnyQuery,
            quotes : {"none", "down", "shown"}]
AnyDriven == [side : {"send", "receive"}, amount : AnyAmount]
AnyRequest == [kind : {"none", "get", "quote"}, query : AnyQuery]

(***************************************************************************)
(* The form and the requests have their fields, and the amount the visitor *)
(* set last is in its place.                                               *)
(***************************************************************************)
AsksFor(q, set) ==
  LET cleaned == SwapPage!Cleaned(q) IN
  cleaned[set.side] = set.amount /\ cleaned[SwapPage!Peer(set.side)] = ""

SwapInv ==
  /\ form \in AnyPage /\ driven \in AnyDriven /\ sent \in [{"form", "other"} -> AnyRequest]
  /\ form.at = "open" => AsksFor(form.form, driven)

LEMMA NamedValues ==
  /\ SwapPage!Plain \in AnyQuery /\ SwapPage!NotSent \in AnyRequest
  /\ SwapPage!NoPage \in AnyPage /\ SwapPage!NoPage.at = "none"
  /\ Queries \subseteq AnyQuery
<1>1. SwapPage!Plain \in AnyQuery
  BY DEF SwapPage!Plain, AnyQuery, AnyCoin, AnyAmount
<1>2. SwapPage!NotSent \in AnyRequest
  BY <1>1 DEF SwapPage!NotSent, AnyRequest
<1>3. SwapPage!NoPage \in AnyPage /\ SwapPage!NoPage.at = "none"
  BY <1>1 DEF SwapPage!NoPage, AnyPage
<1>4. ASSUME NEW a \in AnyCoin, NEW b \in AnyCoin, NEW c \in AnyAmount, NEW d \in AnyAmount
      PROVE  [from |-> a, to |-> b, send |-> c, receive |-> d] \in AnyQuery
  BY DEF AnyQuery
<1>5. {"btc", "usdt", "xmr", "fake"} \subseteq AnyCoin /\ {"", "1"} \subseteq AnyAmount
  BY DEF AnyCoin, AnyAmount
<1>6. Queries \subseteq AnyQuery
  <2>1. ASSUME NEW q \in Queries
        PROVE  \E a, b \in AnyCoin, c, d \in AnyAmount : q = [from |-> a, to |-> b, send |-> c, receive |-> d]
    <3>1. PICK t \in {<<"btc", "usdt", "", "">>, <<"btc", "usdt", "", "1">>, <<"btc", "xmr", "1", "1">>,
                      <<"xmr", "fake", "", "">>} :
            q = [from |-> t[1], to |-> t[2], send |-> t[3], receive |-> t[4]]
      BY Zenon DEF Queries
    <3>2. /\ t[1] \in {"btc", "xmr"} /\ t[2] \in {"usdt", "xmr", "fake"}
          /\ t[3] \in {"", "1"} /\ t[4] \in {"", "1"}
      <4>1. CASE t = <<"btc", "usdt", "", "">>
        BY <4>1
      <4>2. CASE t = <<"btc", "usdt", "", "1">>
        BY <4>2
      <4>3. CASE t = <<"btc", "xmr", "1", "1">>
        BY <4>3
      <4>4. CASE t = <<"xmr", "fake", "", "">>
        BY <4>4
      <4>. QED BY <4>1, <4>2, <4>3, <4>4
    <3>. QED BY <1>5, <3>1, <3>2
  <2>. QED BY <1>4, <2>1
<1>. QED BY <1>1, <1>2, <1>3, <1>6

LEMMA SwapInit == SwapPage!Init => SwapInv
<1>1. ASSUME SwapPage!Init PROVE driven \in AnyDriven
  BY <1>1 DEF SwapPage!Init, AnyDriven, AnyAmount
<1>. QED BY <1>1, NamedValues DEF SwapPage!Init, SwapInv

(***************************************************************************)
(* Cleaned keeps the amount to send, and the one to receive without it.    *)
(***************************************************************************)
LEMMA Cleaning ==
  ASSUME NEW q \in AnyQuery
  PROVE  /\ SwapPage!Cleaned(q) \in AnyQuery
         /\ SwapPage!Cleaned(q).send = q.send
         /\ SwapPage!Cleaned(q).receive = IF q.send = "" THEN q.receive ELSE ""
<1>1. "" \in AnyAmount
  BY DEF AnyAmount
<1>. QED BY <1>1 DEF SwapPage!Cleaned, AnyQuery

LEMMA Asking ==
  ASSUME NEW q \in AnyQuery, NEW set \in AnyDriven
  PROVE  AsksFor(q, set) <=>
           IF set.side = "send" THEN q.send = set.amount /\ (q.send = "" => q.receive = "")
           ELSE q.send = "" /\ q.receive = set.amount
<1> DEFINE cleaned == SwapPage!Cleaned(q)
<1>1. /\ cleaned["send"] = q["send"]
      /\ cleaned["receive"] = IF q["send"] = "" THEN q["receive"] ELSE ""
  BY Cleaning
<1>2. AsksFor(q, set) <=> cleaned[set.side] = set.amount /\ cleaned[SwapPage!Peer(set.side)] = ""
  BY DEF AsksFor
<1>. HIDE DEF cleaned
<1>3. CASE set.side = "send"
  BY <1>1, <1>2, <1>3 DEF SwapPage!Peer
<1>4. CASE set.side = "receive"
  BY <1>1, <1>2, <1>4 DEF SwapPage!Peer
<1>. QED BY <1>3, <1>4 DEF AnyDriven

LEMMA CoinsOffered ==
  /\ SwapPage!Choices \subseteq AnyCoin
  /\ \A coin : SwapPage!Selected(coin) \in AnyCoin
BY DEF SwapPage!Choices, SwapPage!Selected, SwapPage!Options, SwapPage!Coins, AnyCoin

\* What is asked of the server, and what it fills the form with.
LEMMA Filling ==
  ASSUME NEW q \in AnyQuery
  PROVE  /\ SwapPage!Prefilled(q) \in AnyQuery
         /\ SwapPage!Prefilled(q).send # "" => SwapPage!Prefilled(q).receive = ""
<1> DEFINE to == IF q.to \in SwapPage!Options THEN q.to ELSE "xmr"
           asked1 == IF q.from \in SwapPage!Options THEN q.from ELSE "btc"
           from == IF asked1 = to THEN IF to = "xmr" THEN "btc" ELSE "xmr" ELSE asked1
           send == IF q.send = "" /\ q.receive = "" THEN "given" ELSE q.send
           given == [q EXCEPT !.from = from, !.to = to, !.send = send]
<1>1. to \in AnyCoin /\ from \in AnyCoin /\ send \in AnyAmount
  BY DEF AnyQuery, AnyCoin, AnyAmount
<1>2. SwapPage!Prefilled(q) = SwapPage!Cleaned(given)
  BY DEF SwapPage!Prefilled
<1>. HIDE DEF from, to, send
<1>3. given \in AnyQuery
  BY <1>1 DEF AnyQuery
<1>. HIDE DEF given
<1>. QED BY <1>2, <1>3, Cleaning

(***************************************************************************)
(* A whole page, whose form was filled from the link.                      *)
(***************************************************************************)
LEMMA PageLoaded ==
  ASSUME SwapInv, NEW q \in Queries, SwapPage!Load(q)
  PROVE  SwapInv'
<1>1. q \in AnyQuery
  BY NamedValues
<1>2. PICK filled \in AnyQuery :
        filled = SwapPage!Prefilled(q) /\ (filled.send # "" => filled.receive = "")
  BY <1>1, Filling
<1>3. CASE SwapPage!Unknown(q)
  <2>1. PICK at \in {"none", "open", "404"} : at = "404"
    OBVIOUS
  <2>2. form' = [SwapPage!NoPage EXCEPT !.at = at, !.form = q] /\ UNCHANGED <<driven, sent>>
    BY <1>3, <2>1 DEF SwapPage!Load
  <2>3. form' \in AnyPage /\ form'.at = at
    BY <1>1, <2>2, NamedValues DEF AnyPage
  <2>. QED BY <2>1, <2>2, <2>3 DEF SwapInv
<1>4. CASE ~SwapPage!Unknown(q)
  <2>1. /\ form' = [at |-> "open", whole |-> ~SwapPage!Degraded, form |-> filled, input |-> filled, quotes |-> "none"]
        /\ driven' = [side |-> IF filled.send # "" THEN "send" ELSE "receive",
                      amount |-> IF filled.send # "" THEN filled.send ELSE filled.receive]
        /\ UNCHANGED sent
    BY <1>2, <1>4 DEF SwapPage!Load
  <2>2. form' \in AnyPage /\ driven' \in AnyDriven
    BY <2>1 DEF AnyPage, AnyDriven, AnyQuery, SwapPage!Degraded
  <2>3. AsksFor(filled, driven')
    BY <2>1, <2>2, Asking
  <2>. QED BY <2>1, <2>2, <2>3 DEF SwapInv
<1>. QED BY <1>3, <1>4

(***************************************************************************)
(* A form that is changed, and sent or not.                                *)
(***************************************************************************)
LEMMA FormChanged ==
  ASSUME SwapInv, NEW q \in AnyQuery, form' = [form EXCEPT !.form = q],
         driven' \in AnyDriven, AsksFor(q, driven'), UNCHANGED sent \/ SwapPage!Ask(q)
  PROVE  SwapInv'
<1>1. form' \in AnyPage /\ form'.form = q
  BY DEF SwapInv, AnyPage
<1>2. sent' \in [{"form", "other"} -> AnyRequest]
  <2> DEFINE r == [kind |-> "quote", query |-> q]
  <2>1. r \in AnyRequest /\ (sent' = sent \/ sent' = [sent EXCEPT !["form"] = r])
    BY DEF SwapPage!Ask, AnyRequest
  <2>. QED BY <2>1 DEF SwapInv
<1>. QED BY <1>1, <1>2 DEF SwapInv

(***************************************************************************)
(* Typing sets an amount and clears the other; what is cleared leaves the  *)
(* other.                                                                  *)
(***************************************************************************)
LEMMA AmountTyped ==
  ASSUME SwapInv, NEW side \in {"send", "receive"}, NEW amount \in {""} \cup Typed,
         SwapPage!Type(side, amount)
  PROVE  SwapInv'
<1> DEFINE peer == SwapPage!Peer(side)
<1>1. PICK q \in AnyQuery : q = form.form
  BY DEF SwapInv, AnyPage
<1>2. PICK new \in AnyQuery : /\ new = SwapPage!TypeInto(form.form, side, amount)
                              /\ new[side] = amount
                              /\ new[peer] = IF amount = "" THEN q[peer] ELSE ""
  <2>1. SwapPage!TypeInto(form.form, side, amount) = SwapPage!TypeInto(q, side, amount)
    BY <1>1
  <2>2. amount \in AnyAmount /\ "" \in AnyAmount
    BY DEF AnyAmount
  <2>3. CASE side = "send"
    <3> DEFINE one == [q EXCEPT !.send = amount]
               two == [q EXCEPT !.send = amount, !.receive = ""]
    <3>1. one \in AnyQuery /\ one.send = amount /\ one.receive = q.receive
      BY <2>2 DEF AnyQuery
    <3>2. two \in AnyQuery /\ two.send = amount /\ two.receive = ""
      BY <2>2 DEF AnyQuery
    <3>3. SwapPage!TypeInto(q, side, amount) = IF amount = "" THEN one ELSE two
      BY <2>3 DEF SwapPage!TypeInto, SwapPage!Peer
    <3>. HIDE DEF one, two
    <3>. QED BY <2>1, <2>3, <3>1, <3>2, <3>3 DEF SwapPage!Peer
  <2>4. CASE side = "receive"
    <3> DEFINE one == [q EXCEPT !.receive = amount]
               two == [q EXCEPT !.receive = amount, !.send = ""]
    <3>1. one \in AnyQuery /\ one.receive = amount /\ one.send = q.send
      BY <2>2 DEF AnyQuery
    <3>2. two \in AnyQuery /\ two.receive = amount /\ two.send = ""
      BY <2>2 DEF AnyQuery
    <3>3. SwapPage!TypeInto(q, side, amount) = IF amount = "" THEN one ELSE two
      BY <2>4 DEF SwapPage!TypeInto, SwapPage!Peer
    <3>. HIDE DEF one, two
    <3>. QED BY <2>1, <2>4, <3>1, <3>2, <3>3 DEF SwapPage!Peer
  <2>. QED BY <2>3, <2>4
<1>3. /\ form' = [form EXCEPT !.form = new] /\ UNCHANGED sent
      /\ driven' = IF amount # "" THEN [side |-> side, amount |-> amount]
                   ELSE IF q[peer] # "" THEN [side |-> peer, amount |-> q[peer]]
                   ELSE [side |-> side, amount |-> ""]
  BY <1>1, <1>2 DEF SwapPage!Type
<1>4. driven' \in AnyDriven
  BY <1>3 DEF SwapPage!Peer, AnyDriven, AnyQuery, AnyAmount
<1>5. AsksFor(new, driven')
  BY <1>2, <1>3, <1>4, Asking DEF SwapPage!Peer
<1>. QED BY <1>3, <1>4, <1>5, FormChanged

(***************************************************************************)
(* Coins that change leave the amounts.                                    *)
(***************************************************************************)
LEMMA SameAmounts ==
  ASSUME NEW q \in AnyQuery, NEW new \in AnyQuery, NEW set \in AnyDriven, AsksFor(q, set),
         new.send = q.send, new.receive = q.receive
  PROVE  AsksFor(new, set)
BY Asking

LEMMA OptionSelected ==
  ASSUME SwapInv, NEW name \in {"from", "to"}, NEW coin \in SwapPage!Coins,
         SwapPage!SelectOption(name, coin)
  PROVE  SwapInv'
<1>1. PICK q \in AnyQuery : q = form.form
  BY DEF SwapInv, AnyPage
<1> DEFINE new == [q EXCEPT ![name] = coin]
<1>2. new \in AnyQuery /\ new.send = q.send /\ new.receive = q.receive
  <2>1. coin \in AnyCoin
    BY DEF AnyCoin
  <2>. QED BY <2>1 DEF AnyQuery
<1>3. form' = [form EXCEPT !.form = new] /\ SwapPage!Ask(form'.form) /\ UNCHANGED driven
  BY <1>1 DEF SwapPage!SelectOption
<1>4. form.at = "open" /\ driven \in AnyDriven /\ AsksFor(q, driven)
  BY <1>1 DEF SwapPage!SelectOption, SwapInv
<1>. HIDE DEF new
<1>5. form'.form = new
  BY <1>2, <1>3 DEF SwapInv, AnyPage
<1>. QED BY <1>2, <1>3, <1>4, <1>5, SameAmounts, FormChanged

\* The flip has an amount to send and none to receive.
LEMMA FlipFollowed ==
  ASSUME SwapInv, SwapPage!FollowFlip
  PROVE  SwapInv'
<1>1. PICK flip \in AnyQuery : flip = SwapPage!Flip(form) /\ flip.receive = ""
  <2>1. PICK input \in AnyQuery : input = form.input
    BY DEF SwapInv, AnyPage
  <2>2. \A a, b \in AnyCoin, c, d \in AnyAmount :
          [from |-> a, to |-> b, receive |-> d, send |-> c] \in AnyQuery
    BY DEF AnyQuery
  <2>3. \E c \in AnyAmount :
          SwapPage!Flip(form) = [from |-> input.to, to |-> input.from, receive |-> "", send |-> c]
    BY <2>1 DEF SwapPage!Flip, AnyQuery, AnyAmount
  <2>4. "" \in AnyAmount /\ input.to \in AnyCoin /\ input.from \in AnyCoin
    BY DEF AnyQuery, AnyAmount
  <2>. QED BY <2>2, <2>3, <2>4
<1>2. PICK q \in AnyQuery : q = form.form
  BY DEF SwapInv, AnyPage
<1>3. PICK new \in AnyQuery : new = SwapPage!FlipForm(q, flip) /\ new.send = flip.send /\ new.receive = ""
  <2> DEFINE from == IF flip.from \in SwapPage!Choices THEN flip.from ELSE q.from
             to == IF flip.to \in SwapPage!Choices THEN flip.to ELSE q.to
             turned == [q EXCEPT !.send = flip.send, !.from = from, !.to = to]
             new == [turned EXCEPT !.receive = flip.receive]
  <2>1. from \in AnyCoin /\ to \in AnyCoin /\ flip.send \in AnyAmount /\ flip.receive \in AnyAmount
    BY DEF AnyQuery
  <2>2. SwapPage!FlipForm(q, flip) = new
    BY DEF SwapPage!FlipForm, SwapPage!Turned
  <2>. HIDE DEF from, to
  <2>3. turned \in AnyQuery /\ turned.send = flip.send
    BY <2>1 DEF AnyQuery
  <2>. HIDE DEF turned
  <2>4. new \in AnyQuery /\ new.send = turned.send /\ new.receive = flip.receive
    BY <2>1, <2>3 DEF AnyQuery
  <2>. QED BY <1>1, <2>2, <2>3, <2>4
<1>4. form' = [form EXCEPT !.form = new] /\ driven' = [side |-> "send", amount |-> flip.send]
  BY <1>1, <1>2, <1>3 DEF SwapPage!FollowFlip
<1>5. UNCHANGED sent \/ SwapPage!Ask(form'.form)
  BY <1>1 DEF SwapPage!FollowFlip
<1>6. form'.form = new /\ driven' \in AnyDriven
  BY <1>4 DEF SwapInv, AnyPage, AnyQuery, AnyDriven
<1>7. AsksFor(new, driven')
  BY <1>3, <1>4, <1>6, Asking
<1>. QED BY <1>4, <1>5, <1>6, <1>7, FormChanged

LEMMA PageAnswered ==
  ASSUME SwapInv, NEW w \in {"form", "other"}, SwapPage!Answer(w)
  PROVE  SwapInv'
<1>1. PICK old \in AnyPage : old = form
  BY DEF SwapInv
<1>2. PICK q \in AnyQuery : q = old.form
  BY DEF AnyPage
<1>3. sent[w].query \in AnyQuery
  BY DEF SwapInv, AnyRequest
<1>4. PICK input \in AnyQuery : input = IF sent[w].kind = "quote" THEN SwapPage!Cleaned(sent[w].query)
                                        ELSE SwapPage!Prefilled(sent[w].query)
  BY <1>3, Cleaning, Filling
<1>5. PICK whole \in BOOLEAN, a \in AnyCoin, b \in AnyCoin, quotes \in {"none", "down", "shown"} :
        form' = [old EXCEPT !.whole = whole, !.form.from = a, !.form.to = b, !.input = input,
                            !.quotes = quotes]
  <2>1. SwapPage!Degraded \in BOOLEAN
    BY DEF SwapPage!Degraded
  <2>. QED BY <1>1, <1>4, <2>1, CoinsOffered DEF SwapPage!Answer
<1>6. form' \in AnyPage /\ form'.at = form.at /\ form'.form.send = q.send /\ form'.form.receive = q.receive
  BY <1>1, <1>2, <1>5 DEF AnyPage, AnyQuery
<1>7. driven' = driven /\ sent' \in [{"form", "other"} -> AnyRequest]
  BY NamedValues DEF SwapPage!Answer, SwapInv
<1>8. form.at = "open" => AsksFor(form'.form, driven)
  BY <1>1, <1>2, <1>6, SameAmounts DEF SwapInv, AnyPage
<1>. QED BY <1>6, <1>7, <1>8 DEF SwapInv

\* What the form does not see.
LEMMA RequestSent ==
  ASSUME SwapInv, UNCHANGED <<form, driven>>, NEW w \in {"form", "other"}, NEW r \in AnyRequest,
         sent' = sent \/ sent' = [sent EXCEPT ![w] = r]
  PROVE  SwapInv'
BY DEF SwapInv

LEMMA SwapKept ==
  ASSUME SwapInv, SwapPage!Next
  PROVE  SwapInv'
<1>1. ASSUME UNCHANGED <<form, driven, sent>> PROVE SwapInv'
  BY <1>1 DEF SwapInv
<1>2. CASE SwapPage!Submit
  <2>1. [kind |-> "quote", query |-> form.form] \in AnyRequest
    BY DEF SwapInv, AnyPage, AnyRequest
  <2>. QED BY <1>2, <2>1, RequestSent DEF SwapPage!Submit, SwapPage!Ask
<1>3. CASE SwapPage!ChangeSort
  <2>1. [kind |-> "quote", query |-> form.input] \in AnyRequest
    BY DEF SwapInv, AnyPage, AnyRequest
  <2>. QED BY <1>3, <2>1, RequestSent DEF SwapPage!ChangeSort
<1>4. ASSUME NEW pair \in {<<"btc", "xmr">>}, SwapPage!FollowChip(pair)
      PROVE  SwapInv'
  <2> DEFINE r == [kind |-> "get", query |-> [SwapPage!Plain EXCEPT !.from = pair[1], !.to = pair[2]]]
  <2>1. r \in AnyRequest
    <3>1. PICK a \in AnyCoin, b \in AnyCoin : a = pair[1] /\ b = pair[2]
      BY DEF AnyCoin
    <3>2. [SwapPage!Plain EXCEPT !.from = a, !.to = b] \in AnyQuery
      BY NamedValues DEF AnyQuery
    <3>. QED BY <3>1, <3>2 DEF AnyRequest
  <2>2. UNCHANGED <<form, driven>> /\ sent' = [sent EXCEPT !["other"] = r]
    BY <1>4 DEF SwapPage!FollowChip
  <2>. QED BY <2>1, <2>2, RequestSent
<1>. QED
  BY <1>1, <1>2, <1>3, <1>4, PageLoaded, AmountTyped, OptionSelected, FlipFollowed, PageAnswered
  DEF SwapPage!Next, SwapPage!AggregatorChanges, SwapPage!ListExpires

-----------------------------------------------------------------------------
(* Pictures: who waits for a slot *)

(***************************************************************************)
(* Who waits is queued, once: the one who gets a slot has not been         *)
(* answered.  The instances of Pictures share their requests and queues.   *)
(***************************************************************************)
QueuesTyped ==
  asked \in [Requests -> Drawing!Request] /\ waiting \in [Drawing!Semaphores -> Seq(Requests)]

QueueInv(s) ==
  /\ \A i \in 1..Len(waiting[s]) : asked[waiting[s][i]].at = "queued"
  /\ \A i, j \in 1..Len(waiting[s]) : waiting[s][i] = waiting[s][j] => i = j

LEMMA QueueKept ==
  ASSUME QueuesTyped, NEW s \in Drawing!Semaphores, QueueInv(s), UNCHANGED waiting,
         \A r \in Requests : asked[r].at = "queued" => asked'[r] = asked[r]
  PROVE  QueueInv(s)'
<1>1. \A i \in 1..Len(waiting[s]) : waiting[s][i] \in Requests
  BY DEF QueuesTyped
<1>. QED BY <1>1 DEF QueueInv

(***************************************************************************)
(* One who does not wait goes to the end.                                  *)
(***************************************************************************)
LEMMA Queued ==
  ASSUME QueuesTyped, NEW s \in Drawing!Semaphores, QueueInv(s), NEW r \in Requests, asked[r].at # "queued",
         NEW q \in Drawing!Request, q.at = "queued", asked' = [asked EXCEPT ![r] = q],
         waiting' = [waiting EXCEPT ![s] = Append(@, r)]
  PROVE  QueuesTyped' /\ QueueInv(s)'
<1> DEFINE old == waiting[s]
           longer == Append(old, r)
<1>1. /\ old \in Seq(Requests) /\ waiting \in [Drawing!Semaphores -> Seq(Requests)]
      /\ \A i \in 1..Len(old) : old[i] \in Requests /\ asked[old[i]].at = "queued"
      /\ \A i, j \in 1..Len(old) : old[i] = old[j] => i = j
  BY DEF QueuesTyped, QueueInv
<1>2. /\ longer \in Seq(Requests) /\ Len(longer) = Len(old) + 1 /\ Len(old) \in Nat
      /\ \A i \in 1..Len(old) : longer[i] = old[i]
      /\ longer[Len(old) + 1] = r
  BY <1>1, AppendProperties, LenProperties
<1>3. waiting' = [waiting EXCEPT ![s] = longer]
  OBVIOUS
<1>. HIDE DEF longer
<1>4. asked'[r].at = "queued" /\ \A u \in Requests \ {r} : asked'[u] = asked[u]
  BY DEF QueuesTyped
<1>5. waiting'[s] = longer /\ QueuesTyped'
  BY <1>1, <1>2, <1>3 DEF QueuesTyped
<1>6. \A i \in 1..Len(longer) : i \in 1..Len(old) \/ i = Len(old) + 1
  BY <1>2
<1>7. \A i \in 1..Len(old) : longer[i] \in Requests \ {r} /\ asked[longer[i]].at = "queued"
  BY <1>1, <1>2
<1>8. \A i \in 1..Len(longer) : asked'[longer[i]].at = "queued"
  BY <1>2, <1>4, <1>6, <1>7
<1>9. \A i, j \in 1..Len(longer) : longer[i] = longer[j] => i = j
  BY <1>1, <1>2, <1>6, <1>7
<1>. QED BY <1>5, <1>8, <1>9 DEF QueueInv

(***************************************************************************)
(* One who ends hands the slot to the first who waits, who starts.         *)
(***************************************************************************)
Starts(r) == asked[r].at = "queued" /\ asked'[r] = [asked[r] EXCEPT !.at = "working"]

LEMMA SlotHanded ==
  ASSUME QueuesTyped, NEW s \in Drawing!Semaphores, QueueInv(s), NEW r \in Requests, asked[r].at # "queued",
         NEW q \in Drawing!Request, Drawing!Leave(s, r),
         asked' = [u \in Requests |->
                     IF u \in {r} THEN q
                     ELSE IF u \in Drawing!Successor(s) THEN [asked[u] EXCEPT !.at = "working"]
                     ELSE asked[u]]
  PROVE  /\ QueuesTyped' /\ QueueInv(s)' /\ asked'[r] = q
         /\ \A u \in Requests \ {r} : asked'[u] = asked[u] \/ Starts(u)
<1> DEFINE old == waiting[s]
<1>1. /\ old \in Seq(Requests) /\ waiting \in [Drawing!Semaphores -> Seq(Requests)]
      /\ \A i \in 1..Len(old) : old[i] \in Requests /\ asked[old[i]].at = "queued"
      /\ \A i, j \in 1..Len(old) : old[i] = old[j] => i = j
  BY DEF QueuesTyped, QueueInv
<1>2. asked'[r] = q
  OBVIOUS
<1>3. ASSUME NEW u \in Requests
      PROVE  [asked[u] EXCEPT !.at = "working"] \in Drawing!Request
  BY DEF QueuesTyped, Drawing!Request
<1>4. asked' \in [Requests -> Drawing!Request]
  BY <1>3 DEF QueuesTyped
<1>5. CASE old = <<>>
  <2>1. Drawing!Successor(s) = {} /\ UNCHANGED waiting
    BY <1>5 DEF Drawing!Leave, Drawing!Successor
  <2>2. \A u \in Requests \ {r} : asked'[u] = asked[u]
    BY <2>1
  <2>3. QueueInv(s)'
    BY <2>1, <2>2, QueueKept
  <2>. QED BY <1>1, <1>2, <1>4, <2>1, <2>2, <2>3 DEF QueuesTyped
<1>6. CASE old # <<>>
  <2>1. PICK h \in Requests : h = Head(old) /\ h = old[1] /\ asked[h].at = "queued" /\ h # r
    BY <1>1, <1>6
  <2> DEFINE rest == Tail(old)
  <2>2. Drawing!Successor(s) = {h} /\ waiting' = [waiting EXCEPT ![s] = rest]
    BY <1>6, <2>1 DEF Drawing!Leave, Drawing!Successor
  <2>3. \A u \in Requests \ {r} : asked'[u] = asked[u] \/ (u = h /\ Starts(u))
    BY <2>1, <2>2 DEF Starts
  <2>4. /\ rest \in Seq(Requests) /\ Len(rest) = Len(old) - 1
        /\ \A i \in 1..Len(rest) : rest[i] = old[i + 1]
    BY <1>1, <1>6, HeadTailProperties
  <2>. HIDE DEF rest
  <2>5. waiting'[s] = rest /\ QueuesTyped'
    BY <1>1, <1>4, <2>2, <2>4 DEF QueuesTyped
  <2>6. 1 \in 1..Len(old) /\ \A i \in 1..Len(rest) : i + 1 \in 1..Len(old) /\ i + 1 # 1 /\ i \in Nat
    BY <1>1, <1>6, <2>4
  <2>7. ASSUME NEW i \in 1..Len(rest)
        PROVE  rest[i] \in Requests /\ asked[rest[i]].at = "queued" /\ rest[i] # h
    BY <1>1, <2>1, <2>4, <2>6
  <2>8. \A i \in 1..Len(rest) : asked'[rest[i]].at = "queued"
    BY <2>3, <2>7
  <2>9. \A i, j \in 1..Len(rest) : rest[i] = rest[j] => i = j
    BY <1>1, <2>4, <2>6
  <2>10. QueueInv(s)'
    BY <2>5, <2>8, <2>9 DEF QueueInv
  <2>. QED BY <1>2, <2>3, <2>5, <2>10
<1>. QED BY <1>5, <1>6

-----------------------------------------------------------------------------
(* Cards *)

(***************************************************************************)
(* A card that lacks something knows it until it is answered, and one that *)
(* is answered lacks nothing if it may be kept.                            *)
(***************************************************************************)
WholeOrShort(q) ==
  /\ q.kind = "card"
  /\ q.at \in {"text", "font", "drawn"} /\ q.lacks => q.missing
  /\ q.answer = "kept" => ~q.lacks
  /\ q.at # "done" => q.answer = "none"

CardInv ==
  /\ QueuesTyped /\ card \in {"none", "whole"} /\ logo \in BOOLEAN
  /\ \A r \in Requests : WholeOrShort(asked[r])
  /\ QueueInv("render")

LEMMA CardInit == Drawing!Init => CardInv
<1> SUFFICES ASSUME Drawing!Init PROVE CardInv
  OBVIOUS
<1>1. Drawing!Idle \in Drawing!Request /\ WholeOrShort(Drawing!Idle)
  BY VersionAssumption DEF Drawing!Idle, Drawing!Request, Drawing!Versions, WholeOrShort
<1>2. asked = [r \in Requests |-> Drawing!Idle] /\ card = "none" /\ logo \in BOOLEAN
      /\ waiting = [s \in Drawing!Semaphores |-> <<>>]
  BY DEF Drawing!Init
<1>3. QueueInv("render")
  BY <1>2 DEF QueueInv, Drawing!Semaphores
<1>. QED BY <1>1, <1>2, <1>3 DEF CardInv, QueuesTyped

(***************************************************************************)
(* Requests that do not wait take a step.                                  *)
(***************************************************************************)
LEMMA SomeCards ==
  ASSUME CardInv, asked' \in [Requests -> Drawing!Request],
         \A r \in Requests : \/ asked'[r] = asked[r]
                             \/ asked[r].at # "queued" /\ WholeOrShort(asked'[r]),
         UNCHANGED waiting, card' \in {"none", "whole"}, logo' \in BOOLEAN
  PROVE  CardInv'
<1>1. QueueInv("render")'
  BY QueueKept DEF CardInv, QueuesTyped, Drawing!Semaphores
<1>. QED BY <1>1 DEF CardInv, QueuesTyped

LEMMA OneCard ==
  ASSUME CardInv, NEW r \in Requests, NEW q \in Drawing!Request, WholeOrShort(q),
         asked[r].at # "queued", asked' = [asked EXCEPT ![r] = q], UNCHANGED waiting,
         card' \in {"none", "whole"}, logo' \in BOOLEAN
  PROVE  CardInv'
<1>1. /\ asked' \in [Requests -> Drawing!Request] /\ asked'[r] = q
      /\ \A u \in Requests \ {r} : asked'[u] = asked[u]
  BY DEF CardInv, QueuesTyped
<1>. QED BY <1>1, SomeCards

(***************************************************************************)
(* One card is finished, or fails.                                         *)
(***************************************************************************)
LEMMA CardLeaves ==
  ASSUME CardInv, NEW r \in Requests, asked[r].at = "drawn", NEW q \in Drawing!Request, WholeOrShort(q),
         asked' = [u \in Requests |->
                     IF u \in {r} THEN q
                     ELSE IF u \in Drawing!Successor("render") THEN [asked[u] EXCEPT !.at = "working"]
                     ELSE asked[u]],
         Drawing!Leave("render", r), card' \in {"none", "whole"}, logo' \in BOOLEAN
  PROVE  CardInv'
<1>1. /\ QueuesTyped' /\ QueueInv("render")' /\ asked'[r] = q
      /\ \A u \in Requests \ {r} : asked'[u] = asked[u] \/ Starts(u)
  BY SlotHanded DEF CardInv, QueuesTyped, Drawing!Semaphores
<1>2. ASSUME NEW u \in Requests, Starts(u) PROVE WholeOrShort(asked'[u])
  BY <1>2 DEF CardInv, QueuesTyped, Starts, Drawing!Request, WholeOrShort
<1>. QED BY <1>1, <1>2 DEF CardInv, QueuesTyped

-----------------------------------------------------------------------------
(* Its requests *)

\* What is answered, in which way.
LEMMA AnsweredCard ==
  ASSUME NEW q \in Drawing!Request, q.kind = "card",
         NEW answer \in {"kept", "short", "default", "busy", "missing", "failed"}, answer = "kept" => ~q.lacks
  PROVE  Drawing!Answered(q, answer) \in Drawing!Request /\ WholeOrShort(Drawing!Answered(q, answer))
<1>1. PICK at \in {"done", "idle"} : at = "done"
  OBVIOUS
<1>2. PICK no \in BOOLEAN : no = FALSE
  OBVIOUS
<1> DEFINE new == [q EXCEPT !.at = at, !.answer = answer, !.missing = no]
<1>3. new \in Drawing!Request /\ new.at = at /\ new.answer = answer /\ new.kind = q.kind /\ new.lacks = q.lacks
  BY DEF Drawing!Request
<1>4. Drawing!Answered(q, answer) = new
  BY <1>1, <1>2 DEF Drawing!Answered
<1>. HIDE DEF new
<1>. QED BY <1>1, <1>3, <1>4 DEF WholeOrShort

LEMMA IdleCard ==
  /\ Drawing!Idle \in Drawing!Request /\ Drawing!Idle.at = "idle" /\ Drawing!Idle.kind = "card"
  /\ ~Drawing!Idle.lacks /\ Drawing!Idle.answer = "none"
BY VersionAssumption DEF Drawing!Idle, Drawing!Request, Drawing!Versions

LEMMA IdleAt ==
  ASSUME NEW at \in {"queued", "working", "default"}
  PROVE  LET new == [Drawing!Idle EXCEPT !.at = at] IN
         new \in Drawing!Request /\ WholeOrShort(new) /\ new.at = at
BY IdleCard DEF Drawing!Request, WholeOrShort

(***************************************************************************)
(* Somebody asks: the kept card is whole, and who has to wait is last.     *)
(***************************************************************************)
LEMMA CardAsked ==
  ASSUME CardInv, NEW r \in Requests, Drawing!AskCard(r)
  PROVE  CardInv'
<1>1. asked[r].at = "idle" /\ UNCHANGED <<card, logo>> /\ card \in {"none", "whole"} /\ logo \in BOOLEAN
  BY DEF Drawing!AskCard, Drawing!caches, Drawing!world, CardInv, QueuesTyped
<1>2. CASE card # "none"
  <2>1. PICK no \in BOOLEAN : no = FALSE
    OBVIOUS
  <2> DEFINE q == [Drawing!Idle EXCEPT !.lacks = no]
  <2>2. q \in Drawing!Request /\ q.kind = "card" /\ ~q.lacks
    BY <2>1, IdleCard DEF Drawing!Request
  <2>3. (card = "partial") = no
    BY <1>1, <2>1
  <2>4. asked' = [asked EXCEPT ![r] = Drawing!Answered(q, "kept")] /\ UNCHANGED waiting
    BY <1>2, <2>3 DEF Drawing!AskCard
  <2>. HIDE DEF q
  <2>. QED BY <1>1, <2>2, <2>4, AnsweredCard, OneCard
<1>3. CASE card = "none" /\ Drawing!Place("render") = "busy"
  <2>1. asked' = [asked EXCEPT ![r] = Drawing!Answered(Drawing!Idle, "busy")] /\ UNCHANGED waiting
    BY <1>3 DEF Drawing!AskCard, Drawing!Enter
  <2>. QED BY <1>1, <2>1, IdleCard, AnsweredCard, OneCard
<1>4. CASE card = "none" /\ Drawing!Place("render") = "working"
  <2>1. asked' = [asked EXCEPT ![r] = [Drawing!Idle EXCEPT !.at = "working"]] /\ UNCHANGED waiting
    BY <1>4 DEF Drawing!AskCard, Drawing!Enter
  <2>. QED BY <1>1, <2>1, IdleAt, OneCard
<1>5. CASE card = "none" /\ Drawing!Place("render") = "queued"
  <2> DEFINE new == [Drawing!Idle EXCEPT !.at = "queued"]
  <2>1. new \in Drawing!Request /\ WholeOrShort(new) /\ new.at = "queued"
    BY IdleAt
  <2>2. asked' = [asked EXCEPT ![r] = new] /\ waiting' = [waiting EXCEPT !["render"] = Append(@, r)]
    BY <1>5 DEF Drawing!AskCard, Drawing!Enter
  <2>. HIDE DEF new
  <2>3. QueuesTyped' /\ QueueInv("render")'
    BY <1>1, <2>1, <2>2, Queued DEF CardInv, QueuesTyped, Drawing!Semaphores
  <2>4. \A u \in Requests : asked'[u] = asked[u] \/ asked'[u] = new
    BY <2>2 DEF CardInv, QueuesTyped
  <2>. QED BY <1>1, <2>1, <2>3, <2>4 DEF CardInv, QueuesTyped
<1>. QED BY <1>1, <1>2, <1>3, <1>4, <1>5 DEF Drawing!Place

LEMMA DefaultAsked ==
  ASSUME CardInv, NEW r \in Requests, Drawing!AskDefault(r)
  PROVE  CardInv'
<1>1. asked[r].at = "idle" /\ UNCHANGED <<card, logo, waiting>> /\ card \in {"none", "whole"} /\ logo \in BOOLEAN
  BY DEF Drawing!AskDefault, Drawing!caches, Drawing!world, CardInv, QueuesTyped
<1>2. asked' = [asked EXCEPT ![r] = [Drawing!Idle EXCEPT !.at = "default"]]
  BY DEF Drawing!AskDefault
<1>. QED BY <1>1, <1>2, IdleAt, OneCard

(***************************************************************************)
(* A logo that cannot be read, or a font that failed before, is missing.   *)
(***************************************************************************)
LEMMA LogoRead ==
  ASSUME CardInv, NEW r \in Requests, Drawing!ReadLogo(r)
  PROVE  CardInv'
<1>1. /\ asked[r].at = "working" /\ asked[r] \in Drawing!Request /\ WholeOrShort(asked[r])
      /\ UNCHANGED <<card, logo, waiting>> /\ card \in {"none", "whole"} /\ logo \in BOOLEAN
  BY DEF Drawing!ReadLogo, Drawing!At, Drawing!caches, Drawing!world, CardInv, QueuesTyped
<1>2. PICK no \in BOOLEAN, at \in {"idle", "text"} : no = ~logo /\ at = "text"
  OBVIOUS
<1> DEFINE new == [asked[r] EXCEPT !.at = at, !.lacks = no, !.missing = no]
<1>3. asked' = [asked EXCEPT ![r] = new]
  BY <1>2 DEF Drawing!ReadLogo, CardInv, QueuesTyped
<1>4. new \in Drawing!Request
  BY <1>1 DEF Drawing!Request
<1>5. WholeOrShort(new)
  BY <1>1, <1>2 DEF Drawing!Request, WholeOrShort
<1>. QED BY <1>1, <1>3, <1>4, <1>5, OneCard

LEMMA FontAsked ==
  ASSUME CardInv, NEW r \in Requests, Drawing!AskFont(r)
  PROVE  CardInv'
<1>1. /\ asked[r].at = "text" /\ asked[r] \in Drawing!Request /\ WholeOrShort(asked[r])
      /\ UNCHANGED <<card, logo, waiting>> /\ card \in {"none", "whole"} /\ logo \in BOOLEAN
  BY DEF Drawing!AskFont, Drawing!At, Drawing!world, CardInv, QueuesTyped
<1>2. ASSUME NEW at \in {"font", "drawn"}, asked' = [asked EXCEPT ![r].at = at]
      PROVE  CardInv'
  <2> DEFINE new == [asked[r] EXCEPT !.at = at]
  <2>1. new \in Drawing!Request /\ WholeOrShort(new)
    BY <1>1 DEF Drawing!Request, WholeOrShort
  <2>2. asked' = [asked EXCEPT ![r] = new]
    BY <1>2
  <2>. QED BY <1>1, <2>1, <2>2, OneCard
<1>3. ASSUME asked' = [asked EXCEPT ![r].at = "drawn", ![r].lacks = TRUE, ![r].missing = TRUE]
      PROVE  CardInv'
  <2>1. PICK yes \in BOOLEAN, at \in {"idle", "drawn"} : yes = TRUE /\ at = "drawn"
    OBVIOUS
  <2> DEFINE new == [asked[r] EXCEPT !.at = at, !.lacks = yes, !.missing = yes]
  <2>2. new \in Drawing!Request /\ WholeOrShort(new)
    BY <1>1, <2>1 DEF Drawing!Request, WholeOrShort
  <2>3. asked' = [asked EXCEPT ![r] = new]
    BY <1>3, <2>1 DEF CardInv, QueuesTyped
  <2>. QED BY <1>1, <2>2, <2>3, OneCard
<1>. QED BY <1>2, <1>3 DEF Drawing!AskFont

(***************************************************************************)
(* The font arrives, or does not: every card that waited for it knows.     *)
(***************************************************************************)
LEMMA FontArrived ==
  ASSUME CardInv, NEW ok \in BOOLEAN, Drawing!FontArrives(ok)
  PROVE  CardInv'
<1>1. UNCHANGED <<card, logo, waiting>> /\ card \in {"none", "whole"} /\ logo \in BOOLEAN
  BY DEF Drawing!FontArrives, Drawing!world, CardInv, QueuesTyped
<1>2. PICK at \in {"idle", "drawn"}, no \in BOOLEAN : at = "drawn" /\ no = ~ok
  OBVIOUS
<1>3. ASSUME NEW r \in Requests
      PROVE  /\ asked'[r] \in Drawing!Request
             /\ asked'[r] = asked[r] \/ (asked[r].at # "queued" /\ WholeOrShort(asked'[r]))
  <2>1. asked[r] \in Drawing!Request /\ WholeOrShort(asked[r])
    BY DEF CardInv, QueuesTyped
  <2>2. CASE asked[r].at = "font"
    <3>1. PICK l \in BOOLEAN, m \in BOOLEAN : l = (asked[r].lacks \/ no) /\ m = (asked[r].missing \/ no)
      OBVIOUS
    <3> DEFINE new == [asked[r] EXCEPT !.at = at, !.lacks = l, !.missing = m]
    <3>2. new \in Drawing!Request /\ WholeOrShort(new)
      BY <1>2, <2>1, <2>2, <3>1 DEF Drawing!Request, WholeOrShort
    <3>3. asked'[r] = [asked[r] EXCEPT !.at = "drawn", !.lacks = @ \/ ~ok, !.missing = @ \/ ~ok]
      BY <2>1, <2>2 DEF Drawing!FontArrives, Drawing!At, Drawing!Reports, WholeOrShort
    <3>4. asked'[r] = new
      BY <1>2, <2>1, <3>1, <3>3 DEF Drawing!Request
    <3>. QED BY <2>2, <3>2, <3>4
  <2>3. CASE asked[r].at # "font"
    BY <2>1, <2>3 DEF Drawing!FontArrives, Drawing!At
  <2>. QED BY <2>2, <2>3
<1>4. asked' \in [Requests -> Drawing!Request]
  BY <1>3 DEF Drawing!FontArrives
<1>. QED BY <1>1, <1>3, <1>4, SomeCards

(***************************************************************************)
(* A card is drawn, or its template throws.                                *)
(***************************************************************************)
LEMMA CardFinished ==
  ASSUME CardInv, NEW r \in Requests, Drawing!FinishCard(r)
  PROVE  CardInv'
<1>1. /\ asked[r].at = "drawn" /\ asked[r] \in Drawing!Request /\ WholeOrShort(asked[r])
      /\ asked[r].kind = "card" /\ card \in {"none", "whole"} /\ logo' \in BOOLEAN
  BY DEF Drawing!FinishCard, Drawing!At, Drawing!world, CardInv, QueuesTyped
<1> DEFINE answer == IF asked[r].missing THEN "short" ELSE "kept"
           new == Drawing!Answered(asked[r], answer)
<1>2. answer = "kept" => ~asked[r].lacks
  BY <1>1 DEF WholeOrShort
<1>3. answer \in {"kept", "short", "default", "busy", "missing", "failed"}
  OBVIOUS
<1>4. new \in Drawing!Request /\ WholeOrShort(new)
  <2>. HIDE DEF answer
  <2>. QED BY <1>1, <1>2, <1>3, AnsweredCard
<1>5. card' \in {"none", "whole"}
  BY <1>1, <1>2 DEF Drawing!FinishCard
<1>6. asked' = [u \in Requests |->
                  IF u \in {r} THEN new
                  ELSE IF u \in Drawing!Successor("render") THEN [asked[u] EXCEPT !.at = "working"]
                  ELSE asked[u]]
  BY DEF Drawing!FinishCard, Drawing!Settle
<1>7. Drawing!Leave("render", r)
  BY DEF Drawing!FinishCard
<1>. HIDE DEF new
<1>. QED BY <1>1, <1>4, <1>5, <1>6, <1>7, CardLeaves

LEMMA CardFailed ==
  ASSUME CardInv, NEW r \in Requests, Drawing!FailCard(r)
  PROVE  CardInv'
<1>1. /\ asked[r].at = "drawn" /\ asked[r] \in Drawing!Request /\ WholeOrShort(asked[r])
      /\ card' \in {"none", "whole"} /\ logo' \in BOOLEAN
  BY DEF Drawing!FailCard, Drawing!At, Drawing!caches, Drawing!world, CardInv, QueuesTyped
<1> DEFINE new == [asked[r] EXCEPT !.at = "default"]
<1>2. new \in Drawing!Request /\ WholeOrShort(new)
  BY <1>1 DEF Drawing!Request, WholeOrShort
<1>3. asked' = [u \in Requests |->
                  IF u \in {r} THEN new
                  ELSE IF u \in Drawing!Successor("render") THEN [asked[u] EXCEPT !.at = "working"]
                  ELSE asked[u]]
  BY DEF Drawing!FailCard, Drawing!Settle
<1>4. Drawing!Leave("render", r)
  BY DEF Drawing!FailCard
<1>. HIDE DEF new
<1>. QED BY <1>1, <1>2, <1>3, <1>4, CardLeaves

LEMMA DefaultAnswered ==
  ASSUME CardInv, NEW ok \in BOOLEAN, Drawing!AnswerDefault(ok)
  PROVE  CardInv'
<1>1. UNCHANGED <<card, logo, waiting>> /\ card \in {"none", "whole"} /\ logo \in BOOLEAN
  BY DEF Drawing!AnswerDefault, Drawing!world, CardInv, QueuesTyped
<1>2. PICK answer \in {"default", "failed"} : answer = IF ok THEN "default" ELSE "failed"
  OBVIOUS
<1>3. ASSUME NEW r \in Requests
      PROVE  /\ asked'[r] \in Drawing!Request
             /\ asked'[r] = asked[r] \/ (asked[r].at # "queued" /\ WholeOrShort(asked'[r]))
  <2>1. asked[r] \in Drawing!Request /\ asked[r].kind = "card"
    BY DEF CardInv, QueuesTyped, WholeOrShort
  <2>2. CASE asked[r].at = "default"
    <3>1. asked'[r] = Drawing!Answered(asked[r], answer)
      BY <1>2, <2>1, <2>2 DEF Drawing!AnswerDefault, Drawing!At
    <3>. QED BY <2>1, <2>2, <3>1, AnsweredCard
  <2>3. CASE asked[r].at # "default"
    BY <2>1, <2>3 DEF Drawing!AnswerDefault, Drawing!At
  <2>. QED BY <2>2, <2>3
<1>4. asked' \in [Requests -> Drawing!Request]
  BY <1>3 DEF Drawing!AnswerDefault
<1>. QED BY <1>1, <1>3, <1>4, SomeCards

LEMMA CardGone ==
  ASSUME CardInv, NEW r \in Requests, Drawing!Disconnect(r)
  PROVE  CardInv'
<1>1. /\ asked[r].at = "done" /\ asked' = [asked EXCEPT ![r] = Drawing!Idle]
      /\ UNCHANGED <<card, logo, waiting>> /\ card \in {"none", "whole"} /\ logo \in BOOLEAN
  BY DEF Drawing!Disconnect, Drawing!caches, Drawing!world, CardInv, QueuesTyped
<1>2. WholeOrShort(Drawing!Idle)
  BY IdleCard DEF WholeOrShort
<1>. QED BY <1>1, <1>2, IdleCard, OneCard

LEMMA CardsKept ==
  ASSUME CardInv, Drawing!Next
  PROVE  CardInv'
<1>1. ASSUME UNCHANGED <<asked, waiting>>, card' \in {"none", card}, logo' \in BOOLEAN
      PROVE  CardInv'
  BY <1>1 DEF CardInv, QueueInv, QueuesTyped
<1>2. CASE Drawing!Forget
  BY <1>1, <1>2 DEF Drawing!Forget, Drawing!world, CardInv, QueuesTyped
<1>3. CASE Drawing!LogoChanges
  BY <1>1, <1>3 DEF Drawing!LogoChanges, Drawing!caches, CardInv, QueuesTyped
<1>4. CASE Drawing!Replace
  BY <1>4 DEF Drawing!Replace
<1>5. CASE Drawing!Ask
  BY <1>5, CardAsked, DefaultAsked DEF Drawing!Ask
<1>6. \A at : Drawing!At("badge", at) = {} /\ Drawing!At("thumb", at) = {}
  BY DEF Drawing!At, CardInv, QueuesTyped, WholeOrShort
<1>7. CASE Drawing!Work
  BY <1>6, <1>7, LogoRead, FontAsked, CardFinished, CardFailed, FontArrived, DefaultAnswered
  DEF Drawing!Work, Drawing!FindService, Drawing!MissService, Drawing!ReadUpload, Drawing!FinishBadge,
      Drawing!FinishThumb
<1>. QED BY <1>2, <1>3, <1>4, <1>5, <1>7, CardGone DEF Drawing!Next

-----------------------------------------------------------------------------
(* Thumbnails *)

(***************************************************************************)
(* A thumbnail that is drawn, or kept for a version of the file, is of     *)
(* that version or of a later one, and only thumbnails are asked for.      *)
(***************************************************************************)
FreshAt(q, version) ==
  /\ q.kind = "thumb" \/ q.at = "idle"
  /\ q.kind = "thumb" =>
       /\ q.since <= version
       /\ q.at = "drawn" \/ q.answer = "kept" => q.got >= q.since

ThumbInv ==
  /\ QueuesTyped /\ upload \in Thumbs!Versions /\ thumb \in [Thumbs!Versions -> Thumbs!Versions]
  /\ \A v \in Thumbs!Versions : thumb[v] # 0 => thumb[v] >= v
  /\ \A r \in Requests : FreshAt(asked[r], upload)
  /\ QueueInv("transform")

\* The records are those of the cards.
LEMMA ThumbRecords ==
  /\ Thumbs!Request = Drawing!Request /\ Thumbs!Idle = Drawing!Idle
  /\ Thumbs!Versions = 0..MaxVersion /\ Drawing!Versions = 0..MaxVersion
  /\ "transform" \in Drawing!Semaphores
BY DEF Thumbs!Request, Drawing!Request, Thumbs!Idle, Drawing!Idle, Thumbs!Versions, Drawing!Versions,
       Drawing!Semaphores

LEMMA ThumbInit == Drawing!Init => ThumbInv
<1> SUFFICES ASSUME Drawing!Init PROVE ThumbInv
  OBVIOUS
<1>1. FreshAt(Drawing!Idle, 0)
  BY IdleCard DEF FreshAt
<1>2. /\ asked = [r \in Requests |-> Drawing!Idle] /\ upload = 0 /\ thumb = [v \in Drawing!Versions |-> 0]
      /\ waiting = [s \in Drawing!Semaphores |-> <<>>]
  BY DEF Drawing!Init
<1>3. QueueInv("transform") /\ QueuesTyped
  BY <1>2, IdleCard DEF QueueInv, QueuesTyped, Drawing!Semaphores
<1>4. 0 \in Thumbs!Versions
  BY VersionAssumption, ThumbRecords
<1>. QED BY <1>1, <1>2, <1>3, <1>4, ThumbRecords DEF ThumbInv

(***************************************************************************)
(* A step of one request that does not wait.                               *)
(***************************************************************************)
LEMMA OneThumb ==
  ASSUME ThumbInv, NEW r \in Requests, NEW q \in Drawing!Request, FreshAt(q, upload),
         asked[r].at # "queued", asked' = [asked EXCEPT ![r] = q], UNCHANGED <<waiting, upload, thumb>>
  PROVE  ThumbInv'
<1>1. /\ asked' \in [Requests -> Drawing!Request] /\ asked'[r] = q
      /\ \A u \in Requests \ {r} : asked'[u] = asked[u]
  BY DEF ThumbInv, QueuesTyped
<1>2. QueueInv("transform")'
  BY <1>1, QueueKept, ThumbRecords DEF ThumbInv
<1>. QED BY <1>1, <1>2 DEF ThumbInv, QueuesTyped

\* What is asked of the upload as it is now.
AskedNow == [Drawing!Idle EXCEPT !.kind = "thumb", !.since = upload]

LEMMA AskedFields ==
  ASSUME upload \in 0..MaxVersion
  PROVE  /\ AskedNow \in Drawing!Request /\ AskedNow.kind = "thumb" /\ AskedNow.at = "idle"
         /\ AskedNow.since = upload /\ AskedNow.got = 0 /\ AskedNow.answer = "none"
<1>1. PICK kind \in {"card", "thumb"} : kind = "thumb"
  OBVIOUS
<1>2. Drawing!Idle.got = 0
  BY DEF Drawing!Idle
<1> DEFINE new == [Drawing!Idle EXCEPT !.kind = kind, !.since = upload]
<1>3. /\ new \in Drawing!Request /\ new.kind = kind /\ new.at = Drawing!Idle.at /\ new.since = upload
      /\ new.got = Drawing!Idle.got /\ new.answer = Drawing!Idle.answer
  BY IdleCard DEF Drawing!Request, Drawing!Versions
<1>4. AskedNow = new
  BY <1>1 DEF AskedNow
<1>. HIDE DEF new
<1>. QED BY <1>1, <1>2, <1>3, <1>4, IdleCard

\* What is answered, in which way.
LEMMA AnsweredThumb ==
  ASSUME NEW q \in Drawing!Request, NEW answer \in {"kept", "busy", "missing", "failed"},
         q.kind = "thumb", q.since <= upload, answer = "kept" => q.got >= q.since
  PROVE  Thumbs!Answered(q, answer) \in Drawing!Request /\ FreshAt(Thumbs!Answered(q, answer), upload)
<1>1. PICK at \in {"done", "idle"} : at = "done"
  OBVIOUS
<1>2. PICK no \in BOOLEAN : no = FALSE
  OBVIOUS
<1> DEFINE new == [q EXCEPT !.at = at, !.answer = answer, !.missing = no]
<1>3. /\ new \in Drawing!Request /\ new.at = at /\ new.answer = answer /\ new.kind = q.kind
      /\ new.since = q.since /\ new.got = q.got
  BY DEF Drawing!Request
<1>4. Thumbs!Answered(q, answer) = new
  BY <1>1, <1>2 DEF Thumbs!Answered
<1>. HIDE DEF new
<1>. QED BY <1>1, <1>3, <1>4 DEF FreshAt

(***************************************************************************)
(* Somebody asks: what is kept for the upload's version is not older.      *)
(***************************************************************************)
LEMMA ThumbAsked ==
  ASSUME ThumbInv, NEW r \in Requests, Thumbs!AskThumb(r)
  PROVE  ThumbInv'
<1>1. /\ asked[r].at = "idle" /\ UNCHANGED <<upload, thumb>>
      /\ upload \in 0..MaxVersion /\ thumb \in [0..MaxVersion -> 0..MaxVersion]
      /\ thumb[upload] # 0 => thumb[upload] >= upload
  BY ThumbRecords DEF Thumbs!AskThumb, Thumbs!caches, Thumbs!world, ThumbInv
<1>2. PICK q \in Drawing!Request :
        /\ q = AskedNow /\ q.kind = "thumb" /\ q.at = "idle" /\ q.since = upload /\ q.got = 0
        /\ q.answer = "none"
  BY <1>1, AskedFields
<1>3. q = [Thumbs!Idle EXCEPT !.kind = "thumb", !.since = upload]
  BY <1>2, ThumbRecords DEF AskedNow
<1>4. CASE upload = 0
  <2>1. asked' = [asked EXCEPT ![r] = Thumbs!Answered(q, "missing")] /\ UNCHANGED waiting
    BY <1>3, <1>4 DEF Thumbs!AskThumb
  <2>2. Thumbs!Answered(q, "missing") \in Drawing!Request /\ FreshAt(Thumbs!Answered(q, "missing"), upload)
    BY <1>1, <1>2, VersionAssumption, AnsweredThumb
  <2>. QED BY <1>1, <2>1, <2>2, OneThumb
<1>5. CASE upload # 0 /\ thumb[upload] # 0
  <2> DEFINE kept1 == [q EXCEPT !.got = thumb[upload]]
  <2>1. /\ kept1 \in Drawing!Request /\ kept1.kind = "thumb" /\ kept1.since = upload
        /\ kept1.got = thumb[upload]
    BY <1>1, <1>2 DEF Drawing!Request, Drawing!Versions
  <2>2. asked' = [asked EXCEPT ![r] = Thumbs!Answered(kept1, "kept")] /\ UNCHANGED waiting
    BY <1>3, <1>5 DEF Thumbs!AskThumb, Thumbs!Key
  <2>. HIDE DEF kept1
  <2>3. Thumbs!Answered(kept1, "kept") \in Drawing!Request /\ FreshAt(Thumbs!Answered(kept1, "kept"), upload)
    BY <1>1, <1>5, <2>1, VersionAssumption, AnsweredThumb
  <2>. QED BY <1>1, <2>2, <2>3, OneThumb
<1>6. CASE upload # 0 /\ thumb[upload] = 0 /\ Thumbs!Place("transform") = "busy"
  <2>1. asked' = [asked EXCEPT ![r] = Thumbs!Answered(q, "busy")] /\ UNCHANGED waiting
    BY <1>3, <1>6 DEF Thumbs!AskThumb, Thumbs!Key, Thumbs!Enter
  <2>2. Thumbs!Answered(q, "busy") \in Drawing!Request /\ FreshAt(Thumbs!Answered(q, "busy"), upload)
    BY <1>1, <1>2, VersionAssumption, AnsweredThumb
  <2>. QED BY <1>1, <2>1, <2>2, OneThumb
<1>7. ASSUME NEW at \in {"queued", "working"}
      PROVE  LET new == [q EXCEPT !.at = at] IN
             new \in Drawing!Request /\ new.at = at /\ FreshAt(new, upload)
  BY <1>1, <1>2 DEF Drawing!Request, FreshAt
<1>8. CASE upload # 0 /\ thumb[upload] = 0 /\ Thumbs!Place("transform") = "working"
  <2>1. asked' = [asked EXCEPT ![r] = [q EXCEPT !.at = "working"]] /\ UNCHANGED waiting
    BY <1>3, <1>8 DEF Thumbs!AskThumb, Thumbs!Key, Thumbs!Enter
  <2>. QED BY <1>1, <1>7, <2>1, OneThumb
<1>9. CASE upload # 0 /\ thumb[upload] = 0 /\ Thumbs!Place("transform") = "queued"
  <2> DEFINE new == [q EXCEPT !.at = "queued"]
  <2>1. new \in Drawing!Request /\ new.at = "queued" /\ FreshAt(new, upload)
    BY <1>7
  <2>2. asked' = [asked EXCEPT ![r] = new] /\ waiting' = [waiting EXCEPT !["transform"] = Append(@, r)]
    BY <1>3, <1>9 DEF Thumbs!AskThumb, Thumbs!Key, Thumbs!Enter
  <2>. HIDE DEF new
  <2>3. QueuesTyped' /\ QueueInv("transform")'
    BY <1>1, <2>1, <2>2, ThumbRecords, Queued DEF ThumbInv
  <2>4. \A u \in Requests : asked'[u] = asked[u] \/ asked'[u] = new
    BY <2>2 DEF ThumbInv, QueuesTyped
  <2>. QED BY <1>1, <2>1, <2>3, <2>4 DEF ThumbInv
<1>. QED BY <1>4, <1>5, <1>6, <1>8, <1>9 DEF Thumbs!Place

\* The file is read, in the version it has by now.
LEMMA UploadRead ==
  ASSUME ThumbInv, NEW r \in Requests, Thumbs!ReadUpload(r)
  PROVE  ThumbInv'
<1>1. /\ asked[r].at = "working" /\ asked[r].kind = "thumb" /\ UNCHANGED <<waiting, upload, thumb>>
      /\ asked[r] \in Drawing!Request /\ FreshAt(asked[r], upload) /\ upload \in 0..MaxVersion
  BY ThumbRecords DEF Thumbs!ReadUpload, Thumbs!At, Thumbs!caches, Thumbs!world, ThumbInv, QueuesTyped
<1>2. PICK at \in {"idle", "drawn"} : at = "drawn"
  OBVIOUS
<1> DEFINE new == [asked[r] EXCEPT !.at = at, !.got = upload]
<1>3. new \in Drawing!Request /\ FreshAt(new, upload)
  BY <1>1, <1>2 DEF Drawing!Request, Drawing!Versions, FreshAt
<1>4. asked' = [asked EXCEPT ![r] = new]
  BY <1>2 DEF Thumbs!ReadUpload, ThumbInv, QueuesTyped
<1>. QED BY <1>1, <1>3, <1>4, OneThumb

(***************************************************************************)
(* What was read is kept for the version it was asked for.                 *)
(***************************************************************************)
LEMMA ThumbFinished ==
  ASSUME ThumbInv, NEW r \in Requests, NEW ok \in BOOLEAN, Thumbs!FinishThumb(r, ok)
  PROVE  ThumbInv'
<1>1. PICK q \in Drawing!Request : q = asked[r] /\ FreshAt(q, upload)
  BY DEF ThumbInv, QueuesTyped
<1>2. /\ q.at = "drawn" /\ q.kind = "thumb" /\ q.since <= upload /\ q.got >= q.since
      /\ q.since \in 0..MaxVersion /\ q.got \in 0..MaxVersion /\ UNCHANGED upload
  BY <1>1 DEF Thumbs!FinishThumb, Thumbs!At, Thumbs!world, FreshAt, Drawing!Request, Drawing!Versions
<1>3. PICK answer \in {"kept", "busy", "missing", "failed"} : answer = IF ok THEN "kept" ELSE "failed"
  OBVIOUS
<1> DEFINE new == Thumbs!Answered(q, answer)
<1>4. new \in Drawing!Request /\ FreshAt(new, upload)
  BY <1>2, AnsweredThumb
<1>5. asked' = [u \in Requests |->
                  IF u \in {r} THEN new
                  ELSE IF u \in Drawing!Successor("transform") THEN [asked[u] EXCEPT !.at = "working"]
                  ELSE asked[u]]
  BY <1>1, <1>3 DEF Thumbs!FinishThumb, Thumbs!Settle, Thumbs!Successor, Drawing!Successor
<1>6. Drawing!Leave("transform", r)
  BY DEF Thumbs!FinishThumb, Thumbs!Leave, Drawing!Leave, Thumbs!Successor, Drawing!Successor
<1>. HIDE DEF new
<1>7. /\ QueuesTyped' /\ QueueInv("transform")' /\ asked'[r] = new
      /\ \A u \in Requests \ {r} : asked'[u] = asked[u] \/ Starts(u)
  BY <1>1, <1>2, <1>4, <1>5, <1>6, SlotHanded, ThumbRecords DEF ThumbInv
<1>8. ASSUME NEW u \in Requests, Starts(u) PROVE FreshAt(asked'[u], upload)
  BY <1>8 DEF ThumbInv, QueuesTyped, Starts, Drawing!Request, FreshAt
<1>9. /\ thumb' \in [0..MaxVersion -> 0..MaxVersion]
      /\ \A v \in 0..MaxVersion : thumb'[v] # 0 => thumb'[v] >= v
  BY <1>1, <1>2, ThumbRecords DEF Thumbs!FinishThumb, Thumbs!Key, ThumbInv
<1>. QED BY <1>2, <1>4, <1>7, <1>8, <1>9, ThumbRecords DEF ThumbInv

\* A file is replaced, and what is kept is forgotten.
LEMMA FileReplaced ==
  ASSUME ThumbInv, Thumbs!Replace
  PROVE  ThumbInv'
<1>1. /\ upload' = upload + 1 /\ upload' \in 0..MaxVersion /\ upload \in 0..MaxVersion
      /\ UNCHANGED <<asked, waiting, thumb>>
  BY VersionAssumption, ThumbRecords DEF Thumbs!Replace, Thumbs!caches, ThumbInv
<1>2. \A r \in Requests : FreshAt(asked[r], upload')
  BY <1>1 DEF ThumbInv, QueuesTyped, FreshAt, Drawing!Request, Drawing!Versions
<1>. QED BY <1>1, <1>2, ThumbRecords DEF ThumbInv, QueuesTyped, QueueInv

LEMMA ThumbForgotten ==
  ASSUME ThumbInv, UNCHANGED <<asked, waiting, upload>>,
         thumb' = thumb \/ \E v \in Thumbs!Versions : thumb' = [thumb EXCEPT ![v] = 0]
  PROVE  ThumbInv'
<1>1. CASE thumb' = thumb
  BY <1>1 DEF ThumbInv, QueuesTyped, QueueInv
<1>2. ASSUME NEW v \in Thumbs!Versions, thumb' = [thumb EXCEPT ![v] = 0]
      PROVE  /\ thumb' \in [Thumbs!Versions -> Thumbs!Versions]
             /\ \A n \in Thumbs!Versions : thumb'[n] # 0 => thumb'[n] >= n
  <2>1. 0 \in Thumbs!Versions
    BY VersionAssumption, ThumbRecords
  <2>. QED BY <1>2, <2>1 DEF ThumbInv
<1>. QED BY <1>1, <1>2 DEF ThumbInv, QueuesTyped, QueueInv

LEMMA ThumbsKept ==
  ASSUME ThumbInv, Thumbs!Next
  PROVE  ThumbInv'
<1>1. CASE Thumbs!Ask
  BY <1>1, ThumbAsked DEF Thumbs!Ask
<1>2. \A at \in {"working", "text", "font", "drawn", "default", "looking"} :
        Thumbs!At("card", at) = {} /\ Thumbs!At("badge", at) = {}
  BY DEF Thumbs!At, ThumbInv, FreshAt
<1>3. CASE Thumbs!Work
  <2>1. ASSUME NEW ok \in BOOLEAN, Thumbs!FontArrives(ok)
        PROVE  asked' = asked /\ UNCHANGED <<waiting, upload, thumb>>
    BY <1>2, <2>1 DEF Thumbs!FontArrives, Thumbs!world, ThumbInv, QueuesTyped
  <2>. QED
    BY <1>2, <1>3, <2>1, UploadRead, ThumbFinished, ThumbForgotten
    DEF Thumbs!Work, Thumbs!ReadLogo, Thumbs!AskFont, Thumbs!FinishCard, Thumbs!FailCard,
        Thumbs!FindService, Thumbs!MissService, Thumbs!FinishBadge, Thumbs!AnswerDefault
<1>4. CASE Thumbs!Forget
  BY <1>4, ThumbForgotten DEF Thumbs!Forget, Thumbs!world
<1>5. CASE Thumbs!LogoChanges
  BY <1>5 DEF Thumbs!LogoChanges
<1>6. ASSUME NEW r \in Requests, Thumbs!Disconnect(r) PROVE ThumbInv'
  <2>1. /\ asked[r].at = "done" /\ asked' = [asked EXCEPT ![r] = Drawing!Idle]
        /\ UNCHANGED <<waiting, upload, thumb>>
    BY <1>6, ThumbRecords DEF Thumbs!Disconnect, Thumbs!caches, Thumbs!world
  <2>2. FreshAt(Drawing!Idle, upload)
    BY IdleCard DEF FreshAt
  <2>. QED BY <2>1, <2>2, IdleCard, OneThumb
<1>. QED BY <1>1, <1>3, <1>4, <1>5, <1>6, FileReplaced DEF Thumbs!Next

-----------------------------------------------------------------------------
(* Notices *)

People == Users \cup Choosers \cup {Poster, Replier}
AnyNotice == [user : People, type : {"ROOT_COMMENT_CREATED", "REPLY_COMMENT_CREATED", "COMMENT_STATUS_CHANGE"},
              about : News!Posts, read : BOOLEAN]

\* That a post was published, and not that its status changed.
IsNews(notice) == notice.type # "COMMENT_STATUS_CHANGE"
TellOfOne(n, m) == IsNews(n) /\ n.type = m.type /\ n.user = m.user

(***************************************************************************)
(* Of a list of notices: nobody is told twice of one post, and the type of *)
(* a notice goes with its post.                                            *)
(***************************************************************************)
TellsOnce(list) ==
  /\ \A i \in 1..Len(list) : IsNews(list[i]) => list[i].type = News!Created(list[i].about)
  /\ \A i, j \in 1..Len(list) : i # j => ~TellOfOne(list[i], list[j])

TellInv ==
  /\ notices \in Seq(AnyNotice) /\ TellsOnce(notices)
  /\ IsFiniteSet(prefs) /\ prefs \subseteq People
  /\ IsFiniteSet(wants) /\ wants \subseteq People
  /\ status \in [News!Posts -> News!Statuses]

LEMMA TellInit == News!Init => TellInv
<1> SUFFICES ASSUME News!Init PROVE TellInv
  OBVIOUS
<1>1. notices \in Seq(AnyNotice) /\ Len(notices) = 0
  BY EmptySeq DEF News!Init
<1>2. TellsOnce(notices)
  BY <1>1 DEF TellsOnce
<1>. QED BY <1>1, <1>2, FS_EmptySet DEF News!Init, TellInv, News!Posts, News!Statuses

(***************************************************************************)
(* What SetToSeq makes of a finite set.                                    *)
(***************************************************************************)
LEMMA Listing ==
  ASSUME NEW S, IsFiniteSet(S)
  PROVE  /\ News!SetToSeq(S) \in Seq(S)
         /\ \A i, j \in 1..Len(News!SetToSeq(S)) : News!SetToSeq(S)[i] = News!SetToSeq(S)[j] => i = j
<1>1. PICK f \in [1..Cardinality(S) -> S] : News!IsInjective(f)
  BY FS_CardinalityType DEF ExistsBijection, Bijection, Injection, IsInjective, News!IsInjective
<1>2. News!SetToSeq(S) = CHOOSE g \in [1..Cardinality(S) -> S] : News!IsInjective(g)
  BY DEF News!SetToSeq, News!Cardinality, Cardinality
<1>3. News!SetToSeq(S) \in [1..Cardinality(S) -> S] /\ News!IsInjective(News!SetToSeq(S))
  BY <1>1, <1>2
<1>4. Cardinality(S) \in Nat
  BY FS_CardinalityType
<1>. HIDE DEF News!SetToSeq
<1>. QED BY <1>3, <1>4 DEF News!IsInjective

LEMMA RowsTell ==
  ASSUME NEW users \in SUBSET People, IsFiniteSet(users), NEW p \in News!Posts,
         NEW type \in {"COMMENT_STATUS_CHANGE", News!Created(p)}
  PROVE  /\ News!Rows(users, type, p) \in Seq(AnyNotice)
         /\ TellsOnce(News!Rows(users, type, p))
         /\ \A i \in 1..Len(News!Rows(users, type, p)) :
              News!Rows(users, type, p)[i].type = type /\ News!Rows(users, type, p)[i].user \in users
<1> DEFINE row(u) == [user |-> u, type |-> type, about |-> p, read |-> FALSE]
           S == {row(u) : u \in users}
           f == [u \in users |-> row(u)]
           list == News!Rows(users, type, p)
<1>1. IsFiniteSet(S)
  <2>1. f \in Surjection(users, S)
    BY DEF Surjection
  <2>. QED BY <2>1, FS_Surjection
<1>2. list \in Seq(S) /\ \A i, j \in 1..Len(list) : list[i] = list[j] => i = j
  BY <1>1, Listing DEF News!Rows
<1>3. \A n \in S : /\ n \in AnyNotice /\ n.type = type /\ n.about = p /\ n.user \in users
                   /\ n = row(n.user)
  <2>1. type \in {"ROOT_COMMENT_CREATED", "REPLY_COMMENT_CREATED", "COMMENT_STATUS_CHANGE"}
    BY DEF News!Created
  <2>2. ASSUME NEW u \in users
        PROVE  /\ row(u) \in AnyNotice /\ row(u).type = type /\ row(u).about = p
               /\ row(u).user = u
    <3>1. PICK no \in BOOLEAN : no = FALSE
      OBVIOUS
    <3>2. u \in People /\ row(u) = [user |-> u, type |-> type, about |-> p, read |-> no]
      BY <3>1
    <3>. QED BY <2>1, <3>2 DEF AnyNotice
  <2>3. ASSUME NEW n \in S
        PROVE  /\ n \in AnyNotice /\ n.type = type /\ n.about = p /\ n.user \in users
               /\ n = row(n.user)
    <3>1. PICK u \in users : n = row(u)
      OBVIOUS
    <3>2. n.user = u
      BY <2>2, <3>1
    <3>. HIDE DEF row
    <3>. QED BY <2>2, <3>1, <3>2
  <2>. QED BY <2>3
<1>. HIDE DEF list, S, row
<1>4. list \in Seq(AnyNotice) /\ \A i \in 1..Len(list) : list[i] \in S
  BY <1>2, <1>3
<1>5. TellsOnce(list)
  <2>1. \A i, j \in 1..Len(list) : list[i].user = list[j].user => i = j
    <3> SUFFICES ASSUME NEW i \in 1..Len(list), NEW j \in 1..Len(list), list[i].user = list[j].user
                 PROVE  i = j
      OBVIOUS
    <3>1. list[i] = row(list[i].user) /\ list[j] = row(list[j].user)
      BY <1>3, <1>4
    <3>2. list[i] = list[j]
      BY <3>1
    <3>. QED BY <1>2, <3>2
  <2>. QED BY <1>3, <1>4, <2>1 DEF TellsOnce, IsNews, TellOfOne
<1>. QED BY <1>3, <1>4, <1>5 DEF list

(***************************************************************************)
(* Two lists that tell once, and of different things.                      *)
(***************************************************************************)
LEMMA TellBoth ==
  ASSUME NEW a \in Seq(AnyNotice), NEW b \in Seq(AnyNotice), TellsOnce(a), TellsOnce(b),
         \A i \in 1..Len(a), j \in 1..Len(b) : ~TellOfOne(a[i], b[j])
  PROVE  a \o b \in Seq(AnyNotice) /\ TellsOnce(a \o b)
<1> DEFINE c == a \o b
<1>1. /\ c \in Seq(AnyNotice) /\ Len(c) = Len(a) + Len(b) /\ Len(a) \in Nat /\ Len(b) \in Nat
      /\ \A i \in 1..Len(c) : c[i] = IF i <= Len(a) THEN a[i] ELSE b[i - Len(a)]
  BY ConcatProperties, LenProperties
<1>. HIDE DEF c
<1>2. \A i \in 1..Len(c) : \/ i \in 1..Len(a) /\ c[i] = a[i]
                           \/ i - Len(a) \in 1..Len(b) /\ c[i] = b[i - Len(a)]
  BY <1>1
<1>3. \A n, m : TellOfOne(n, m) => TellOfOne(m, n)
  BY DEF TellOfOne, IsNews
<1>4. ASSUME NEW i \in 1..Len(c), NEW j \in 1..Len(c), i # j PROVE ~TellOfOne(c[i], c[j])
  <2>1. i \in Int /\ j \in Int
    OBVIOUS
  <2>2. CASE i \in 1..Len(a) /\ j \in 1..Len(a)
    BY <1>1, <1>4, <2>2 DEF TellsOnce
  <2>3. CASE i \in 1..Len(a) /\ j \notin 1..Len(a)
    <3>1. j - Len(a) \in 1..Len(b) /\ c[j] = b[j - Len(a)] /\ c[i] = a[i]
      BY <1>1, <2>1, <2>3
    <3>. QED BY <2>3, <3>1
  <2>4. CASE i \notin 1..Len(a) /\ j \in 1..Len(a)
    <3>1. i - Len(a) \in 1..Len(b) /\ c[i] = b[i - Len(a)] /\ c[j] = a[j]
      BY <1>1, <2>1, <2>4
    <3>2. ~TellOfOne(c[j], c[i])
      BY <2>4, <3>1
    <3>. QED BY <1>3, <3>2
  <2>5. CASE i \notin 1..Len(a) /\ j \notin 1..Len(a)
    <3> DEFINE k == i - Len(a)
               l == j - Len(a)
    <3>1. k \in 1..Len(b) /\ c[i] = b[k] /\ l \in 1..Len(b) /\ c[j] = b[l] /\ k # l
      BY <1>1, <1>4, <2>1, <2>5
    <3>. HIDE DEF k, l
    <3>. QED BY <3>1 DEF TellsOnce
  <2>. QED BY <2>2, <2>3, <2>4, <2>5
<1>5. \A i \in 1..Len(c) : IsNews(c[i]) => c[i].type = News!Created(c[i].about)
  BY <1>2 DEF TellsOnce
<1>. QED BY <1>1, <1>4, <1>5 DEF TellsOnce, c

(***************************************************************************)
(* A post that changes its status: who heard of it is not told again.      *)
(***************************************************************************)
LEMMA Notified ==
  ASSUME TellInv, NEW p \in News!Posts, NEW from, NEW to, NEW byAuthor, from # "none",
         News!Notify(p, from, to, byAuthor)
  PROVE  notices' \in Seq(AnyNotice) /\ TellsOnce(notices')
<1> DEFINE some == News!StatusNews(p, from, to, byAuthor)
           all == News!News(p, from, to)
           a == News!Rows(some, "COMMENT_STATUS_CHANGE", p)
           b == News!Rows(all, News!Created(p), p)
<1>1. IsFiniteSet(some) /\ some \in SUBSET People
  <2>1. some \in SUBSET wants
    BY DEF News!StatusNews
  <2>. QED BY <2>1, FS_Subset DEF TellInv
<1>2. /\ IsFiniteSet(all) /\ all \in SUBSET People /\ \A u \in all : ~News!Told(u, p)
  <2>1. all \in SUBSET prefs /\ \A u \in all : ~News!Told(u, p)
    BY DEF News!News, News!Watchers
  <2>. QED BY <2>1, FS_Subset DEF TellInv
<1>3. notices' = notices \o a \o b
  BY DEF News!Notify
<1>. HIDE DEF some, all
<1>4. /\ a \in Seq(AnyNotice) /\ TellsOnce(a)
      /\ \A i \in 1..Len(a) : a[i].type = "COMMENT_STATUS_CHANGE"
  BY <1>1, RowsTell
<1>5. /\ b \in Seq(AnyNotice) /\ TellsOnce(b)
      /\ \A i \in 1..Len(b) : b[i].type = News!Created(p) /\ b[i].user \in all
  BY <1>2, RowsTell
<1>. HIDE DEF a, b
<1> DEFINE c == notices \o a
<1>6. c \in Seq(AnyNotice) /\ TellsOnce(c)
  BY <1>4, TellBoth DEF TellInv, TellOfOne, IsNews
<1>7. ASSUME NEW i \in 1..Len(c), NEW j \in 1..Len(b) PROVE ~TellOfOne(c[i], b[j])
  <2>1. (i \in 1..Len(notices) /\ c[i] = notices[i]) \/ c[i].type = "COMMENT_STATUS_CHANGE"
    <3>1. /\ Len(c) = Len(notices) + Len(a) /\ Len(notices) \in Nat /\ Len(a) \in Nat
          /\ c[i] = IF i <= Len(notices) THEN notices[i] ELSE a[i - Len(notices)]
      BY <1>4, ConcatProperties, LenProperties DEF TellInv
    <3>. QED BY <1>4, <3>1
  <2>2. SUFFICES ASSUME i \in 1..Len(notices), TellOfOne(notices[i], b[j]) PROVE FALSE
    BY <2>1 DEF TellOfOne, IsNews
  <2>3. /\ notices[i].type = News!Created(p) /\ notices[i].type = News!Created(notices[i].about)
        /\ notices[i].user \in all /\ notices[i] \in AnyNotice
    BY <1>5, <2>2 DEF TellInv, TellsOnce, TellOfOne
  <2>4. notices[i].about = p
    BY <2>3 DEF AnyNotice, News!Created, News!Posts
  <2>5. News!Told(notices[i].user, p)
    BY <2>2, <2>3, <2>4 DEF News!Told, TellInv
  <2>. QED BY <1>2, <2>3, <2>5
<1>. HIDE DEF c
<1>8. c \o b \in Seq(AnyNotice) /\ TellsOnce(c \o b)
  BY <1>5, <1>6, <1>7, TellBoth
<1>. QED BY <1>3, <1>8 DEF c

(***************************************************************************)
(* Who makes choices has preferences, and they are of finitely many.       *)
(***************************************************************************)
LEMMA Preferred ==
  ASSUME TellInv, NEW u \in People, News!Prefer(u)
  PROVE  IsFiniteSet(prefs') /\ prefs' \subseteq People /\ IsFiniteSet(wants') /\ wants' \subseteq People
<1>1. IsFiniteSet(prefs \cup {u}) /\ IsFiniteSet(wants \cup {u})
  BY FS_AddElement DEF TellInv
<1>. QED BY <1>1 DEF TellInv, News!Prefer

(***************************************************************************)
(* A step that moves a post to another status and tells who is to hear.    *)
(***************************************************************************)
LEMMA StatusTold ==
  ASSUME TellInv, NEW p \in News!Posts, NEW to \in News!Statuses, NEW byAuthor, status[p] # "none",
         News!Notify(p, status[p], to, byAuthor), status' = [status EXCEPT ![p] = to],
         UNCHANGED <<prefs, wants>>
  PROVE  TellInv'
<1>1. notices' \in Seq(AnyNotice) /\ TellsOnce(notices')
  BY Notified
<1>2. status' \in [News!Posts -> News!Statuses]
  BY DEF TellInv
<1>3. News!Posts' = News!Posts /\ News!Statuses' = News!Statuses
  BY DEF News!Posts, News!Statuses
<1>. QED BY <1>1, <1>2, <1>3 DEF TellInv, TellsOnce, TellOfOne, IsNews, News!Created, AnyNotice, People

(***************************************************************************)
(* Reading changes whether notices were read and nothing else.             *)
(***************************************************************************)
LEMMA ReadingTells ==
  ASSUME TellInv, NEW u, NEW which, NEW read \in BOOLEAN, News!UpdateReadStatus(u, which, read)
  PROVE  TellInv'
<1> DEFINE of(i) == IF i \in which /\ notices[i].user = u THEN [notices[i] EXCEPT !.read = read]
                                                         ELSE notices[i]
<1>1. /\ DOMAIN notices = 1..Len(notices) /\ Len(notices) \in Nat
      /\ \A i \in 1..Len(notices) : notices[i] \in AnyNotice
  BY LenProperties, ElementOfSeq DEF TellInv
<1>2. ASSUME NEW i \in 1..Len(notices)
      PROVE  /\ of(i) \in AnyNotice /\ of(i).user = notices[i].user /\ of(i).type = notices[i].type
             /\ of(i).about = notices[i].about
  BY <1>1 DEF AnyNotice
<1>3. notices' = [i \in 1..Len(notices) |-> of(i)]
  BY <1>1 DEF News!UpdateReadStatus
<1>. HIDE DEF of
<1>4. /\ notices' \in Seq(AnyNotice) /\ Len(notices') = Len(notices)
      /\ \A i \in 1..Len(notices) : notices'[i] = of(i)
  <2>1. [i \in 1..Len(notices) |-> of(i)] \in Seq(AnyNotice)
    BY <1>1, <1>2
  <2>. QED BY <1>1, <1>3, <2>1
<1>5. TellsOnce(notices')
  BY <1>2, <1>4 DEF TellInv, TellsOnce, TellOfOne, IsNews
<1>6. UNCHANGED <<status, prefs, wants>>
  BY DEF News!UpdateReadStatus, News!choices
<1>. QED BY <1>4, <1>5, <1>6 DEF TellInv, TellsOnce, TellOfOne, IsNews, News!Created, AnyNotice, People,
                                 News!Posts, News!Statuses

(***************************************************************************)
(* Every step of the notices keeps it.                                     *)
(***************************************************************************)
LEMMA NewsKept == TellInv /\ News!Next => TellInv'
<1> SUFFICES ASSUME TellInv, News!Next PROVE TellInv'
  OBVIOUS
<1>. USE DEF News!Posts, News!Statuses
<1>1. ASSUME NEW p \in News!Posts, News!Send(p) PROVE TellInv'
  <2>1. News!AuthorOf(p) \in People
    BY DEF People, News!AuthorOf
  <2>2. News!Prefer(News!AuthorOf(p))
    BY <1>1 DEF News!Send
  <2>. QED BY <1>1, <2>1, <2>2, Preferred DEF TellInv, News!Send, TellsOnce, TellOfOne, IsNews, News!Created
<1>2. ASSUME NEW p \in News!Posts, News!Withdraw(p) PROVE TellInv'
  BY <1>2, StatusTold DEF News!Withdraw, News!choices
<1>3. ASSUME NEW p \in News!Posts, NEW to \in News!Statuses, NEW byAuthor \in BOOLEAN,
             News!Decide(p, to, byAuthor)
      PROVE  TellInv'
  BY <1>3, StatusTold DEF News!Decide, News!choices
<1>4. ASSUME NEW p \in News!Posts, NEW to \in News!Statuses, News!Restore(p, to) PROVE TellInv'
  BY <1>4, StatusTold DEF News!Restore, News!choices
<1>5. ASSUME NEW u \in Users, NEW topic \in Topics, NEW watch \in BOOLEAN, News!Watch(u, topic, watch)
      PROVE  TellInv'
  <2>1. u \in People /\ News!Prefer(u)
    BY <1>5 DEF People, News!Watch
  <2>. QED BY <1>5, <2>1, Preferred DEF TellInv, News!Watch, TellsOnce, TellOfOne, IsNews, News!Created
<1>6. ASSUME NEW u \in Choosers, NEW st \in BOOLEAN, NEW auto \in BOOLEAN,
             News!UpdatePreferences(u, st, auto)
      PROVE  TellInv'
  <2>1. IsFiniteSet(prefs \cup {u}) /\ IsFiniteSet(wants \cup {u}) /\ IsFiniteSet(wants \ {u})
    BY FS_AddElement, FS_RemoveElement DEF TellInv
  <2>. QED BY <1>6, <2>1 DEF TellInv, News!UpdatePreferences, TellsOnce, TellOfOne, IsNews, News!Created, People
<1>7. ASSUME NEW u, NEW which, NEW read \in BOOLEAN, News!UpdateReadStatus(u, which, read) PROVE TellInv'
  BY <1>7, ReadingTells
<1>8. ASSUME News!ChangeVisibility PROVE TellInv'
  BY <1>8 DEF News!ChangeVisibility, News!choices, TellInv, TellsOnce, TellOfOne, IsNews, News!Created
<1>. QED BY <1>1, <1>2, <1>3, <1>4, <1>5, <1>6, <1>7, <1>8 DEF News!Next

-----------------------------------------------------------------------------
(* Numbers, orders and arrays *)

\* A set of naturals has a least member.
LEMMA NatMin ==
  ASSUME NEW T \in SUBSET Nat, T # {}
  PROVE  \E n \in T : \A m \in T : n <= m
<1>1. PICK n \in T : \A m \in T : ~(<<m, n>> \in OpToRel(<, Nat))
  BY NatLessThanWellFounded, WFMin
<1>2. \A m \in T : ~(m < n)
  BY <1>1 DEF OpToRel
<1>. QED BY <1>2

\* Induction up to a number: the least counterexample has none before it.
LEMMA NatInduct ==
  ASSUME NEW T \in SUBSET Nat, NEW N \in Nat, 0 \in T, \A n \in 0..N - 1 : n \in T => n + 1 \in T
  PROVE  0..N \subseteq T
<1> DEFINE Bad == 0..N \ T
<1> SUFFICES ASSUME Bad # {} PROVE FALSE OBVIOUS
<1>0. Bad \in SUBSET Nat OBVIOUS
<1>1. PICK k \in Bad : \A m \in Bad : k <= m
  <2> HIDE DEF Bad
  <2>. QED BY NatMin, <1>0
<1>2. k # 0 /\ k \in Nat /\ k - 1 \in 0..N - 1
  OBVIOUS
<1>3. k - 1 \in T
  BY <1>1, <1>2
<1>. QED BY <1>2, <1>3

(***************************************************************************)
(* An order that tells every two members apart, in which a member's place  *)
(* is the number of those before it: each place is taken, by one member.   *)
(***************************************************************************)
StrictOrder(S, R) ==
  /\ \A i \in S : <<i, i>> \notin R
  /\ \A i, j, k \in S : <<i, j>> \in R /\ <<j, k>> \in R => <<i, k>> \in R
  /\ \A i, j \in S : i # j => <<i, j>> \in R \/ <<j, i>> \in R

\* The numbers before each member are all those below the size of the set.
LEMMA Ranks ==
  ASSUME NEW S, IsFiniteSet(S), NEW R, StrictOrder(S, R)
  PROVE  LET rank == [i \in S |-> Cardinality(Before(S, R, i))] IN
         /\ rank \in [S -> 0..Cardinality(S) - 1]
         /\ \A i, j \in S : rank[i] < rank[j] <=> <<i, j>> \in R
         /\ \A m \in 0..Cardinality(S) - 1 : \E i \in S : rank[i] = m
<1> DEFINE rank == [i \in S |-> Cardinality(Before(S, R, i))]
<1>0. Cardinality(S) \in Nat
  BY FS_CardinalityType
<1>1. ASSUME NEW i \in S PROVE rank[i] \in 0..Cardinality(S) - 1 /\ IsFiniteSet(Before(S, R, i))
  <2>1. Before(S, R, i) \in SUBSET S /\ i \notin Before(S, R, i)
    BY DEF Before, StrictOrder
  <2>2. IsFiniteSet(Before(S, R, i)) /\ Cardinality(Before(S, R, i)) <= Cardinality(S) /\ Cardinality(Before(S, R, i)) # Cardinality(S)
    BY <2>1, FS_Subset
  <2>3. Cardinality(Before(S, R, i)) \in Nat
    BY <2>2, FS_CardinalityType
  <2>. QED BY <1>0, <2>2, <2>3
<1>2. ASSUME NEW i \in S, NEW j \in S, <<i, j>> \in R PROVE rank[i] < rank[j]
  <2>1. Before(S, R, i) \in SUBSET Before(S, R, j) /\ i \in Before(S, R, j) /\ i \notin Before(S, R, i)
    BY <1>2 DEF Before, StrictOrder
  <2>2. Cardinality(Before(S, R, i)) <= Cardinality(Before(S, R, j)) /\ Cardinality(Before(S, R, i)) # Cardinality(Before(S, R, j))
    BY <1>1, <2>1, FS_Subset
  <2>. QED BY <1>0, <1>1, <2>2
<1>3. ASSUME NEW i \in S, NEW j \in S, rank[i] < rank[j] PROVE <<i, j>> \in R
  <2>1. i # j
    BY <1>0, <1>1, <1>3
  <2>2. CASE <<j, i>> \in R
    <3>1. rank[j] < rank[i]
      BY <2>2, <1>2
    <3>. QED BY <3>1, <1>0, <1>1, <1>3
  <2>. QED BY <2>1, <2>2 DEF StrictOrder
<1> DEFINE places == 0..Cardinality(S) - 1
<1>4. rank \in Injection(S, places)
  <2>1. rank \in [S -> places]
    BY <1>1
  <2>2. ASSUME NEW i \in S, NEW j \in S, i # j PROVE rank[i] # rank[j]
    <3>1. rank[i] < rank[j] \/ rank[j] < rank[i]
      BY <1>2, <2>2 DEF StrictOrder
    <3>. QED BY <3>1, <1>0, <1>1
  <2>. HIDE DEF rank, places
  <2>. QED BY <2>1, <2>2 DEF Injection, IsInjective
<1>5. IsFiniteSet(places) /\ Cardinality(places) = Cardinality(S)
  BY <1>0, FS_Interval
<1>6. rank \in Surjection(S, places)
  <2>. HIDE DEF rank, places
  <2>. QED BY <1>4, <1>5, FS_Injection
<1>7. \A m \in places : \E i \in S : rank[i] = m
  <2>. HIDE DEF rank, places
  <2>. QED BY <1>6 DEF Surjection
<1>8. rank \in [S -> places]
  BY <1>1
<1>. HIDE DEF rank
<1>. QED BY <1>2, <1>3, <1>7, <1>8 DEF rank

\* So what is sorted holds every member, in the order given.
LEMMA InOrder ==
  ASSUME NEW S, IsFiniteSet(S), NEW R, StrictOrder(S, R)
  PROVE  /\ SortedBy(S, R) \in [1..Cardinality(S) -> S]
         /\ \A k, l \in 1..Cardinality(S) : k < l <=> <<SortedBy(S, R)[k], SortedBy(S, R)[l]>> \in R
         /\ \A i \in S : \E k \in 1..Cardinality(S) : SortedBy(S, R)[k] = i
<1> DEFINE rank == [i \in S |-> Cardinality(Before(S, R, i))]
           places == [k \in 1..Cardinality(S) |-> CHOOSE i \in S : Cardinality(Before(S, R, i)) = k - 1]
           s == SortedBy(S, R)
           N == Cardinality(S)
<1>0. N \in Nat
  BY FS_CardinalityType
<1>1. /\ rank \in [S -> 0..N - 1]
      /\ \A i, j \in S : rank[i] < rank[j] <=> <<i, j>> \in R
      /\ \A m \in 0..N - 1 : \E i \in S : rank[i] = m
  BY Ranks
<1>2. ASSUME NEW k \in 1..N PROVE places[k] \in S /\ rank[places[k]] = k - 1
  <2>1. \E i \in S : rank[i] = k - 1
    <3>. HIDE DEF rank, N
    <3>. QED BY <1>0, <1>1
  <2>2. places[k] = CHOOSE i \in S : Cardinality(Before(S, R, i)) = k - 1
    OBVIOUS
  <2>. QED BY <2>1, <2>2
<1>3. s = <<>> \o places
  BY DEF SortedBy
<1>4. places \in [1..N -> S]
  <2>1. places = [k \in 1..N |-> places[k]]
    OBVIOUS
  <2>. HIDE DEF rank, places, N
  <2>. QED BY <1>2, <2>1
<1>. HIDE DEF rank, places, s, N
<1>40. s = places
  <2>1. places \in Seq(S)
    BY <1>0, <1>4
  <2>. QED BY <1>3, <2>1, ConcatEmptySeq
<1>5. ASSUME NEW k \in 1..N, NEW l \in 1..N PROVE k < l <=> <<s[k], s[l]>> \in R
  BY <1>0, <1>1, <1>2, <1>40
<1>6. ASSUME NEW i \in S PROVE \E k \in 1..N : s[k] = i
  <2>1. rank[i] + 1 \in 1..N /\ rank[i] \in 0..N - 1
    BY <1>0, <1>1
  <2>2. s[rank[i] + 1] \in S /\ rank[s[rank[i] + 1]] = rank[i]
    BY <1>0, <1>2, <1>40, <2>1
  <2>3. ~(rank[i] < rank[s[rank[i] + 1]]) /\ ~(rank[s[rank[i] + 1]] < rank[i])
    BY <2>1, <2>2
  <2>4. s[rank[i] + 1] = i
    BY <1>1, <2>2, <2>3 DEF StrictOrder
  <2>. QED BY <2>1, <2>4
<1>. QED BY <1>4, <1>40, <1>5, <1>6 DEF s, N

\* f goes from start by step for k arguments; a name of its own, for the provers.
Follows(f, step, start, k) == f[0] = start /\ \A n \in 1..k : f[n] = step[<<f[n - 1], n>>]

(***************************************************************************)
(* A step from one value to the next has a recursive function: the finite  *)
(* functions that start with it are extended one argument at a time.       *)
(***************************************************************************)
LEMMA Recursion ==
  ASSUME NEW A, NEW N \in Nat, NEW step \in [A \X (1..N) -> A], NEW start \in A
  PROVE  \E f \in [0..N -> A] : Follows(f, step, start, N)
<1>. USE DEF Follows
<1> DEFINE upTo(f, k) == Follows(f, step, start, k)
           T == {k \in 0..N : \E f \in [0..k -> A] : upTo(f, k)}
<1>1. 0 \in T
  <2> DEFINE f == [n \in 0..0 |-> start]
  <2>1. f \in [0..0 -> A] /\ upTo(f, 0)
    OBVIOUS
  <2>. HIDE DEF f
  <2>2. \E g \in [0..0 -> A] : upTo(g, 0)
    BY <2>1
  <2>. HIDE DEF upTo
  <2>. QED BY <2>2
<1>2. ASSUME NEW k \in 0..N - 1, k \in T PROVE k + 1 \in T
  <2>1. PICK f \in [0..k -> A] : upTo(f, k)
    BY <1>2
  <2> DEFINE g == [n \in 0..k + 1 |-> IF n = k + 1 THEN step[<<f[k], k + 1>>] ELSE f[n]]
  <2>2. f[k] \in A /\ k \in 0..k /\ k + 1 \in 1..N /\ k + 1 \in 0..N /\ 1..k + 1 = 1..k \cup {k + 1}
    OBVIOUS
  <2>3. g \in [0..k + 1 -> A]
    BY <2>2
  <2>4. g[k + 1] = step[<<f[k], k + 1>>] /\ \A n \in 0..k : g[n] = f[n]
    OBVIOUS
  <2>. HIDE DEF g
  <2>5. g[0] = start
    BY <2>1, <2>4
  <2>6. ASSUME NEW n \in 1..k + 1 PROVE g[n] = step[<<g[n - 1], n>>]
    <3>1. CASE n = k + 1
      <4>1. n - 1 = k /\ g[k] = f[k]
        BY <2>2, <2>4, <3>1
      <4>. QED BY <2>4, <3>1, <4>1
    <3>2. CASE n # k + 1
      <4>1. n \in 1..k /\ n \in 0..k /\ n - 1 \in 0..k
        BY <2>2, <3>2
      <4>2. f[n] = step[<<f[n - 1], n>>]
        BY <2>1, <4>1
      <4>. QED BY <2>4, <4>1, <4>2
    <3>. QED BY <3>1, <3>2
  <2>7. upTo(g, k + 1)
    BY <2>5, <2>6
  <2>. HIDE DEF upTo
  <2>. QED BY <2>2, <2>3, <2>7
<1>3. N \in T
  <2>. HIDE DEF T
  <2>1. T \in SUBSET Nat BY DEF T
  <2>2. 0..N \subseteq T
    BY <1>1, <1>2, <2>1, NatInduct
  <2>. QED BY <2>2
<1>. QED BY <1>3

\* What an array holds.
Holds(array) == {array[i] : i \in DOMAIN array}

(***************************************************************************)
(* An array that is filtered holds what it held of the set, and is the same*)
(* if it held nothing else: the first n members, for each n.               *)
(***************************************************************************)
LEMMA OnlyFacts ==
  ASSUME NEW A, NEW array \in Seq(A), NEW S
  PROVE  /\ Only(array, S) \in Seq(A \cap S)
         /\ Holds(Only(array, S)) = Holds(array) \cap S
         /\ array \in Seq(S) => Only(array, S) = array
<1> DEFINE N == Len(array)
           head(n) == [i \in 1..n |-> array[i]]
           next(so, n) == IF array[n] \in S THEN Append(so, array[n]) ELSE so
           step == [p \in Seq(A) \X (1..N) |-> next(p[1], p[2])]
           f == CHOOSE f : f = [n \in 0..N |-> IF n = 0 THEN <<>> ELSE IF array[n] \in S THEN Append(f[n - 1], array[n]) ELSE f[n - 1]]
<1>0. N \in Nat /\ \A i \in 1..N : array[i] \in A
  OBVIOUS
<1>1. ASSUME NEW so \in Seq(A), NEW n \in 1..N PROVE next(so, n) \in Seq(A)
  BY <1>0
<1>2. /\ step \in [Seq(A) \X (1..N) -> Seq(A)]
      /\ \A so \in Seq(A), n \in 1..N : step[<<so, n>>] = next(so, n)
  <2>. HIDE DEF next
  <2>. QED BY <1>1
<1>3. f = [n \in 0..N |-> IF n = 0 THEN <<>> ELSE next(f[n - 1], n)]
  <2>1. <<>> \in Seq(A)
    OBVIOUS
  <2>. HIDE DEF N, next, step, f
  <2>2. PICK g \in [0..N -> Seq(A)] : Follows(g, step, <<>>, N)
    BY <1>0, <1>2, <2>1, Recursion
  <2>3. ASSUME NEW n \in 0..N PROVE g[n] = IF n = 0 THEN <<>> ELSE next(g[n - 1], n)
    <3>1. CASE n = 0
      BY <2>2, <3>1 DEF Follows
    <3>2. CASE n # 0
      <4>1. n \in 1..N /\ n - 1 \in 0..N
        BY <1>0, <3>2
      <4>. QED BY <1>2, <2>2, <3>2, <4>1 DEF Follows
    <3>. QED BY <3>1, <3>2
  <2>4. g = [n \in 0..N |-> IF n = 0 THEN <<>> ELSE next(g[n - 1], n)]
    BY <2>3
  <2>5. f = CHOOSE h : h = [n \in 0..N |-> IF n = 0 THEN <<>> ELSE next(h[n - 1], n)]
    BY DEF f, next
  <2>. QED BY <2>4, <2>5
<1>4. Only(array, S) = f[N]
  BY DEF Only
<1>. HIDE DEF f, step
<1>5. \A n \in 0..N : f[n] = IF n = 0 THEN <<>> ELSE next(f[n - 1], n)
  <2>. HIDE DEF N, next
  <2>. QED BY <1>3
<1> DEFINE T == {n \in 0..N : /\ f[n] \in Seq(A \cap S)
                              /\ Holds(f[n]) = {array[i] : i \in 1..n} \cap S
                              /\ array \in Seq(S) => f[n] = head(n)}
<1>6. 0 \in T
  <2>1. 0 \in 0..N
    BY <1>0
  <2>2. f[0] = <<>>
    <3>. HIDE DEF next, N
    <3>. QED BY <1>5, <2>1
  <2>3. Holds(<<>>) = {} /\ {array[i] : i \in 1..0} = {} /\ head(0) = <<>> /\ <<>> \in Seq(A \cap S)
    BY DEF Holds
  <2>. HIDE DEF head, N
  <2>. QED BY <2>1, <2>2, <2>3
<1>7. ASSUME NEW n \in 0..N - 1, n \in T PROVE n + 1 \in T
  <2>1. /\ n + 1 \in 1..N /\ n + 1 \in 0..N /\ (n + 1) - 1 = n /\ n + 1 # 0 /\ array[n + 1] \in A
        /\ n \in Nat /\ 1..n + 1 = 1..n \cup {n + 1}
    BY <1>0
  <2>2. f[n + 1] = next(f[n], n + 1)
    <3>. HIDE DEF next, N
    <3>. QED BY <1>5, <2>1
  <2>3. /\ f[n] \in Seq(A \cap S)
        /\ Holds(f[n]) = {array[i] : i \in 1..n} \cap S
        /\ array \in Seq(S) => f[n] = head(n)
    BY <1>7
  <2>4. {array[i] : i \in 1..n + 1} = {array[i] : i \in 1..n} \cup {array[n + 1]}
    BY <2>1
  <2>5. CASE array[n + 1] \in S
    <3>1. f[n + 1] = Append(f[n], array[n + 1])
      BY <2>2, <2>5
    <3>2. PICK x \in A \cap S : x = array[n + 1]
      BY <2>1, <2>5
    <3>3. f[n + 1] \in Seq(A \cap S)
      BY <2>3, <3>1, <3>2
    <3>4. Holds(Append(f[n], x)) = Holds(f[n]) \cup {x}
      <4>1. DOMAIN Append(f[n], x) = DOMAIN f[n] \cup {Len(f[n]) + 1}
        BY <2>3
      <4>2. /\ \A i \in DOMAIN f[n] : Append(f[n], x)[i] = f[n][i]
            /\ Append(f[n], x)[Len(f[n]) + 1] = x
        BY <2>3
      <4>. QED BY <4>1, <4>2 DEF Holds
    <3>5. Holds(f[n + 1]) = {array[i] : i \in 1..n + 1} \cap S
      BY <2>3, <2>4, <2>5, <3>1, <3>2, <3>4
    <3>6. head(n + 1) = Append(head(n), array[n + 1])
      <4>1. head(n) \in Seq(A) /\ Len(head(n)) = n
        BY <1>0, <2>1
      <4>. QED BY <2>1, <4>1
    <3>7. array \in Seq(S) => f[n + 1] = head(n + 1)
      <4>. HIDE DEF head
      <4>. QED BY <2>3, <3>1, <3>6
    <3>. HIDE DEF head, N
    <3>. QED BY <2>1, <3>3, <3>5, <3>7
  <2>6. CASE array[n + 1] \notin S
    <3>1. f[n + 1] = f[n]
      BY <2>2, <2>6
    <3>2. array \notin Seq(S)
      <4>. SUFFICES ASSUME array \in Seq(S) PROVE array[n + 1] \in S
        BY <2>6
      <4>. QED BY <2>1
    <3>3. {array[i] : i \in 1..n + 1} \cap S = {array[i] : i \in 1..n} \cap S
      BY <2>4, <2>6
    <3>. HIDE DEF head, N
    <3>. QED BY <2>1, <2>3, <3>1, <3>2, <3>3
  <2>. QED BY <2>5, <2>6
<1>8. N \in T
  <2>1. T \in SUBSET Nat OBVIOUS
  <2>. HIDE DEF T, N
  <2>2. 0..N \subseteq T
    BY <1>0, <1>6, <1>7, <2>1, NatInduct
  <2>. QED BY <1>0, <2>2
<1>9. head(N) = array /\ {array[i] : i \in 1..N} = Holds(array)
  BY DEF Holds
<1>. HIDE DEF head, N
<1>. QED BY <1>4, <1>8, <1>9

-----------------------------------------------------------------------------
(* Quotes *)

\* The table sorts as Arrays does.
LEMMA SortedIsOne == \A S, R : Table!SortedBy(S, R) = SortedBy(S, R)
BY DEF Table!SortedBy, SortedBy, Table!Before, Before, Table!Cardinality, Cardinality

\* By rate, of two quotes with the same amounts the first that came is above: no row beats the first.
LEMMA RowsByRate ==
  ASSUME Table!Wellformed, NEW query \in Table!Queries, query.sort = "rate", NEW answer \in Table!Answers
  PROVE  /\ Table!Rows(query, answer) \in Seq(Table!Slugs)
         /\ \A n \in 2..Len(Table!Rows(query, answer)) :
              ~Table!Better(query.side, answer[Table!Rows(query, answer)[n]], answer[Table!Rows(query, answer)[1]])
<1> DEFINE shown == Table!Shown(query, answer)
           R == {p \in (DOMAIN Order) \X (DOMAIN Order) : Table!Above(query, answer, p[1], p[2])}
           order == SortedBy(shown, R)
           N == Cardinality(shown)
           beats(i, j) == Table!Better(query.side, answer[Order[i]], answer[Order[j]])
<1>1. /\ shown \subseteq 1..Len(Order) /\ Len(Order) \in Nat
      /\ IsFiniteSet(shown) /\ N \in Nat
      /\ \A i \in shown : Order[i] \in Table!Slugs /\ answer[Order[i]] \in [sent : Table!Amounts, received : Table!Amounts]
  <2>1. shown \subseteq 1..Len(Order) /\ Len(Order) \in Nat
    BY DEF Table!Shown, Table!Wellformed
  <2>2. IsFiniteSet(shown) /\ N \in Nat
    <3>1. IsFiniteSet(1..Len(Order))
      BY <2>1, FS_Interval
    <3>. HIDE DEF shown
    <3>. QED BY <2>1, <3>1, FS_Subset, FS_CardinalityType
  <2>3. ASSUME NEW i \in shown PROVE Order[i] \in Table!Slugs /\ answer[Order[i]] \in [sent : Table!Amounts, received : Table!Amounts]
    <3>1. Order[i] \in Table!Slugs /\ answer[Order[i]] # Table!NoQuote
      BY <2>1 DEF Table!Shown, Table!Wellformed
    <3>. QED BY <3>1 DEF Table!Answers
  <2>. QED BY <2>1, <2>2, <2>3
<1>2. \A i, j \in shown : <<i, j>> \in R <=> beats(i, j) \/ (~beats(j, i) /\ i < j)
  <2>1. shown \subseteq DOMAIN Order
    BY DEF Table!Shown
  <2>2. \A i, j : Table!Above(query, answer, i, j) <=> beats(i, j) \/ (~beats(j, i) /\ i < j)
    BY DEF Table!Above, Table!Alike, Table!Apart
  <2>. HIDE DEF shown, beats
  <2>. QED BY <2>1, <2>2
<1>20. ASSUME NEW i \in shown PROVE answer[Order[i]].sent \in Int /\ answer[Order[i]].received \in Int
  <2>. HIDE DEF shown
  <2>. QED BY <1>1 DEF Table!Amounts
<1>21. \A i, j \in shown : beats(i, j) <=> IF query.side = "send" THEN answer[Order[i]].received > answer[Order[j]].received
                                                               ELSE answer[Order[i]].sent < answer[Order[j]].sent
  BY DEF Table!Better
<1>3. /\ \A i, j, k \in shown : beats(i, j) /\ ~beats(k, j) => beats(i, k)
      /\ \A i, j \in shown : beats(i, j) => ~beats(j, i)
      /\ \A i, j, k \in shown : ~beats(i, j) /\ ~beats(j, k) => ~beats(i, k)
  <2>. HIDE DEF shown, beats
  <2>1. CASE query.side = "send"
    BY <1>20, <1>21, <2>1
  <2>2. CASE query.side # "send"
    BY <1>20, <1>21, <2>2
  <2>. QED BY <2>1, <2>2
<1>6. StrictOrder(shown, R)
  <2>. HIDE DEF shown, R, beats
  <2>0. shown \subseteq Nat
    BY <1>1
  <2>1. \A i \in shown : <<i, i>> \notin R
    BY <1>2, <1>3, <2>0
  <2>2. \A i, j \in shown : i # j => <<i, j>> \in R \/ <<j, i>> \in R
    BY <1>2, <1>3, <2>0
  <2>3. ASSUME NEW i \in shown, NEW j \in shown, NEW k \in shown, <<i, j>> \in R, <<j, k>> \in R PROVE <<i, k>> \in R
    <3>1. CASE beats(i, j)
      BY <1>2, <1>3, <1>3, <2>3, <3>1
    <3>2. CASE ~beats(i, j)
      <4>1. ~beats(j, i) /\ i < j
        BY <1>2, <2>3, <3>2
      <4>2. CASE beats(j, k)
        <5>1. beats(i, k) \/ ~beats(i, k) OBVIOUS
        <5>2. CASE ~beats(i, k)
          BY <1>3, <1>3, <1>3, <4>1, <4>2, <5>2
        <5>. QED BY <1>2, <5>2
      <4>3. CASE ~beats(j, k)
        <5>1. ~beats(k, j) /\ j < k
          BY <1>2, <2>3, <4>3
        <5>2. ~beats(k, i) /\ i < k
          BY <1>3, <2>0, <4>1, <5>1
        <5>. QED BY <1>2, <5>2
      <4>. QED BY <4>2, <4>3
    <3>. QED BY <3>1, <3>2
  <2>. QED BY <2>1, <2>2, <2>3 DEF StrictOrder
<1>7. /\ order \in [1..N -> shown]
      /\ \A k, l \in 1..N : k < l <=> <<order[k], order[l]>> \in R
  <2>. HIDE DEF shown, R
  <2>. QED BY <1>1, <1>6, InOrder
<1>8. Table!Rows(query, answer) = [n \in 1..N |-> Order[order[n]]]
  <2>1. Table!Ordering(query, answer) = order
    BY SortedIsOne DEF Table!Ordering
  <2>2. DOMAIN order = 1..N
    BY <1>7
  <2>. HIDE DEF order, N
  <2>. QED BY <2>1, <2>2 DEF Table!Rows
<1>. HIDE DEF shown, R, order, N
<1>9. \A n \in 1..N : Order[order[n]] \in Table!Slugs
  BY <1>1, <1>7
<1>10. Table!Rows(query, answer) \in Seq(Table!Slugs) /\ Len(Table!Rows(query, answer)) = N
  BY <1>1, <1>8, <1>9
<1>11. ASSUME NEW n \in 2..N PROVE ~Table!Better(query.side, answer[Order[order[n]]], answer[Order[order[1]]])
  <2>1. order[1] \in shown /\ order[n] \in shown /\ <<order[1], order[n]>> \in R
    <3>1. 1 \in 1..N /\ n \in 1..N /\ 1 < n
      BY <1>1
    <3>. QED BY <1>7, <3>1
  <2>2. ~beats(order[n], order[1])
    <3>. HIDE DEF beats
    <3>. QED BY <1>2, <1>3, <2>1
  <2>. QED BY <2>2
<1>. QED BY <1>1, <1>8, <1>10, <1>11

\* The mark stays at the first row if none below it is better.
LEMMA FirstIsBest ==
  ASSUME NEW side, NEW answer, NEW order \in Seq(Table!Slugs), order # <<>>,
         \A n \in 2..Len(order) : ~Table!Better(side, answer[order[n]], answer[order[1]])
  PROVE  Table!Best(side, answer, order) = order[1]
<1> DEFINE N == Len(order)
           marked == [n \in 0..N |-> IF n = 0 THEN "" ELSE order[1]]
           best == CHOOSE best : best = [n \in 0..N |->
                     IF n = 0 THEN ""
                     ELSE IF n = 1 \/ Table!Better(side, answer[order[n]], answer[best[n - 1]]) THEN order[n] ELSE best[n - 1]]
<1>0. N \in Nat /\ N >= 1
  BY EmptySeq
<1>1. marked = [n \in 0..N |->
                  IF n = 0 THEN ""
                  ELSE IF n = 1 \/ Table!Better(side, answer[order[n]], answer[marked[n - 1]]) THEN order[n] ELSE marked[n - 1]]
  <2>1. ASSUME NEW n \in 2..N PROVE marked[n - 1] = order[1] /\ marked[n] = order[1]
    <3>. HIDE DEF N
    <3>1. n \in 0..N /\ n - 1 \in 0..N /\ n # 0 /\ n - 1 # 0
      BY <1>0
    <3>. QED BY <3>1
  <2>2. marked[0] = "" /\ marked[1] = order[1]
    BY <1>0
  <2>. HIDE DEF marked
  <2>3. ASSUME NEW n \in 0..N
        PROVE  marked[n] = IF n = 0 THEN "" ELSE IF n = 1 \/ Table!Better(side, answer[order[n]], answer[marked[n - 1]])
                                                 THEN order[n] ELSE marked[n - 1]
    <3>. HIDE DEF N
    <3>1. CASE n = 0 \/ n = 1
      BY <2>2, <3>1
    <3>2. CASE n # 0 /\ n # 1
      <4>1. n \in 2..N
        BY <1>0, <3>2
      <4>2. ~Table!Better(side, answer[order[n]], answer[order[1]])
        BY <4>1 DEF N
      <4>. QED BY <2>1, <3>2, <4>1, <4>2
    <3>. QED BY <3>1, <3>2
  <2>. QED BY <2>3 DEF marked
<1>2. best = [n \in 0..N |->
                IF n = 0 THEN ""
                ELSE IF n = 1 \/ Table!Better(side, answer[order[n]], answer[best[n - 1]]) THEN order[n] ELSE best[n - 1]]
  <2>. HIDE DEF marked
  <2>. QED BY <1>1
<1>3. Table!Best(side, answer, order) = best[N]
  BY DEF Table!Best
<1>. HIDE DEF best, marked
<1>4. \A n \in 0..N : best[n] = IF n = 0 THEN "" ELSE IF n = 1 \/ Table!Better(side, answer[order[n]], answer[best[n - 1]])
                                                     THEN order[n] ELSE best[n - 1]
  BY <1>2
<1>. HIDE DEF N
<1> DEFINE T == {n \in 0..N : n # 0 => best[n] = order[1]}
<1>5. 0 \in T /\ T \in SUBSET Nat
  BY <1>0
<1>6. ASSUME NEW n \in 0..N - 1, n \in T PROVE n + 1 \in T
  <2>1. n + 1 \in 0..N /\ n + 1 # 0 /\ (n + 1) - 1 = n
    BY <1>0
  <2>2. CASE n = 0
    <3>1. best[1] = order[1]
      <4>1. 1 \in 0..N /\ 1 # 0
        BY <1>0
      <4>. HIDE DEF T
      <4>. QED BY <1>4, <4>1
    <3>. QED BY <2>1, <2>2, <3>1
  <2>3. CASE n # 0
    <3>1. best[n] = order[1] /\ ~Table!Better(side, answer[order[n + 1]], answer[order[1]])
      BY <1>0, <1>6, <2>3 DEF N
    <3>. QED BY <1>4, <2>1, <2>3, <3>1
  <2>. QED BY <2>2, <2>3
<1>7. N \in T
  <2>. HIDE DEF T
  <2>1. 0..N \subseteq T
    BY <1>0, <1>5, <1>6, NatInduct
  <2>. QED BY <1>0, <2>1
<1>. QED BY <1>0, <1>3, <1>7

\* An answer fills the table, or nothing is asked.
LEMMA Asks ==
  ASSUME Table!Wellformed, NEW query \in Table!Queries, NEW answer \in Table!Answers, Table!Quote(query, answer) 
  PROVE Table!IInv'
<1>1. CASE ~query.amount
  BY <1>1 DEF Table!Quote, Table!Unasked, Table!IInv, Table!BestIsFirst
<1>2. CASE query.amount
  <2> DEFINE order == Table!Rows(query, answer)
  <2>1. table' = [query |-> query, rows |-> order, best |-> Table!Best(query.side, answer, order), down |-> FALSE]
    BY <1>2 DEF Table!Quote
  <2>. HIDE DEF order
  <2>2. table'.query = query /\ table'.rows = order /\ table'.best = Table!Best(query.side, answer, order)
    BY <2>1
  <2>3. query.sort = "rate" /\ order # <<>> => Table!Best(query.side, answer, order) = order[1]
    BY RowsByRate, FirstIsBest DEF order
  <2>. QED BY <2>2, <2>3 DEF Table!IInv, Table!BestIsFirst
<1>. QED BY <1>1, <1>2 DEF Table!Queries

\* Nothing is asked at first.
LEMMA TableInit == Table!Init => Table!IInv
<1>1. PICK no \in BOOLEAN : no = FALSE
  OBVIOUS
<1>2. Table!Unasked.query = [side |-> "send", amount |-> no, sort |-> "rate", approvedOnly |-> no]
  BY <1>1 DEF Table!Unasked
<1>3. Table!Unasked.query \in Table!Queries
  BY <1>2 DEF Table!Queries, Table!Sides, Table!Sorts
<1>4. Table!Unasked.rows = <<>>
  BY DEF Table!Unasked
<1>. QED BY <1>3, <1>4 DEF Table!Init, Table!IInv, Table!BestIsFirst

(***************************************************************************)
(* Every step of the table keeps its best quote first.                     *)
(***************************************************************************)
LEMMA TableKept == Table!IInv /\ Table!Next => Table!IInv'
<1> SUFFICES ASSUME Table!IInv, Table!Next PROVE Table!IInv'
  OBVIOUS
<1>1. \A query \in Table!Queries : Table!Offers(query) \subseteq Table!Answers
  BY DEF Table!Offers, Table!Answers, Table!NoQuote
<1>2. ASSUME NEW query \in Table!Queries, NEW answer \in Table!Offers(query), Table!Quote(query, answer)
      PROVE  Table!IInv'
  <2>1. answer \in Table!Answers
    BY <1>1
  <2>. QED BY <1>2, <2>1, TableAssumption, Asks
<1>3. ASSUME NEW query \in Table!Queries, Table!Unavailable(query) PROVE Table!IInv'
  BY <1>3 DEF Table!Unavailable, Table!Unasked, Table!IInv, Table!BestIsFirst
<1>4. ASSUME NEW sort \in Table!Sorts, NEW approvedOnly \in BOOLEAN, NEW answer \in Table!Offers(table.query),
             Table!Resort(sort, approvedOnly, answer)
      PROVE  Table!IInv'
  <2> DEFINE query == [table.query EXCEPT !.sort = sort, !.approvedOnly = approvedOnly]
  <2>1. table.query \in Table!Queries
    BY DEF Table!IInv
  <2>2. query \in Table!Queries
    BY <2>1 DEF Table!Queries
  <2>3. answer \in Table!Answers
    BY <1>1, <2>1
  <2>4. Table!Quote(query, answer)
    BY <1>4 DEF Table!Resort
  <2>. HIDE DEF query
  <2>. QED BY <2>2, <2>3, <2>4, TableAssumption, Asks
<1>. QED BY <1>2, <1>3, <1>4 DEF Table!Next

-----------------------------------------------------------------------------
(* Links to cards *)

\* The places of graphemes that count twice.
Wide(text) == {i \in DOMAIN text : text[i] = "wide"}

\* A text has finitely many graphemes that count twice.
LEMMA WideFinite ==
  ASSUME NEW text \in Seq(CardLinks!Graphemes)
  PROVE  IsFiniteSet(Wide(text)) /\ Cardinality(Wide(text)) \in Nat /\ Wide(text) \subseteq 1..Len(text)
<1>1. IsFiniteSet(1..Len(text)) /\ Wide(text) \in SUBSET (1..Len(text))
  BY FS_Interval DEF Wide
<1>. QED BY <1>1, FS_Subset, FS_CardinalityType

\* The length of a text, with the cardinality the library has theorems about.
LEMMA LengthIs == \A text : CardLinks!Length(text) = Len(text) + Cardinality(Wide(text))
<1>1. \A S : CardLinks!Cardinality(S) = Cardinality(S)
  BY DEF CardLinks!Cardinality, Cardinality
<1>2. \A text : CardLinks!Length(text) = Len(text) + CardLinks!Cardinality(Wide(text))
  BY DEF CardLinks!Length, Wide
<1>. QED BY <1>1, <1>2

\* A sequence over a set is one over a larger set.
LEMMA SeqWiden == ASSUME NEW S, NEW A \in SUBSET S, NEW s \in Seq(A) PROVE s \in Seq(S)
<1>1. s \in [1..Len(s) -> A] /\ Len(s) \in Nat
  OBVIOUS
<1>. QED BY <1>1

\* What is not empty among the places of a text has a first and a last place.
LEMMA Ends ==
  ASSUME NEW N \in Nat, NEW T \in SUBSET (1..N), T # {}
  PROVE  /\ \E i \in T : \A j \in T : i <= j
         /\ \E i \in T : \A j \in T : j <= i
<1>1. T \in SUBSET Nat
  OBVIOUS
<1>2. \E i \in T : \A j \in T : i <= j
  BY <1>1, NatMin
<1> DEFINE mirror == {N - i : i \in T}
<1>3. mirror \in SUBSET Nat /\ mirror # {}
  <2>1. \A i \in T : N - i \in Nat
    OBVIOUS
  <2>2. PICK i \in T : TRUE
    OBVIOUS
  <2>3. N - i \in mirror
    OBVIOUS
  <2>. QED BY <2>1, <2>3
<1>4. \A i \in T : N - i \in mirror
  OBVIOUS
<1>5. PICK m \in mirror : \A n \in mirror : m <= n
  <2>. HIDE DEF mirror
  <2>. QED BY <1>3, NatMin
<1>6. PICK i \in T : m = N - i
  OBVIOUS
<1>7. ASSUME NEW j \in T PROVE j <= i
  <2>. HIDE DEF mirror
  <2>1. m <= N - j
    BY <1>4, <1>5
  <2>. QED BY <1>6, <2>1
<1>. QED BY <1>2, <1>7

\* Lengths are naturals, and two of them are known.
LEMMA LengthFacts ==
  /\ \A text \in Seq(CardLinks!Graphemes) : CardLinks!Length(text) \in Nat
  /\ CardLinks!Length(<<>>) = 0
  /\ CardLinks!Length(CardLinks!Plain) = 1
<1>1. ASSUME NEW text \in Seq(CardLinks!Graphemes) PROVE CardLinks!Length(text) \in Nat
  <2>1. CardLinks!Length(text) = Len(text) + Cardinality(Wide(text))
    BY LengthIs
  <2>. QED BY <2>1, WideFinite
<1>2. CardLinks!Length(<<>>) = 0
  <2>1. Wide(<<>>) = {} /\ Len(<<>>) = 0
    BY DEF Wide
  <2>2. CardLinks!Length(<<>>) = Len(<<>>) + Cardinality(Wide(<<>>))
    BY LengthIs
  <2>. QED BY <2>1, <2>2, FS_EmptySet
<1>3. CardLinks!Length(CardLinks!Plain) = 1
  <2>1. Wide(CardLinks!Plain) = {} /\ Len(CardLinks!Plain) = 1
    BY DEF CardLinks!Plain, Wide
  <2>2. CardLinks!Length(CardLinks!Plain) = Len(CardLinks!Plain) + Cardinality(Wide(CardLinks!Plain))
    BY LengthIs
  <2>. QED BY <2>1, <2>2, FS_EmptySet
<1>. QED BY <1>1, <1>2, <1>3

\* A part of a text is no longer than the text.
LEMMA PartShorter ==
  ASSUME NEW text \in Seq(CardLinks!Graphemes), NEW a \in 1..Len(text), NEW b \in a..Len(text)
  PROVE  CardLinks!Length(SubSeq(text, a, b)) <= CardLinks!Length(text)
<1> DEFINE s == SubSeq(text, a, b)
           f == [i \in Wide(s) |-> i + a - 1]
<1>1. s \in Seq(CardLinks!Graphemes) /\ Len(s) = b - a + 1 /\ \A i \in 1..Len(s) : s[i] = text[i + a - 1]
  BY SubSeqProperties
<1>. HIDE DEF s
<1>2. Wide(s) \subseteq 1..Len(s)
  BY <1>1, WideFinite
<1>3. \A i \in Wide(s) : i + a - 1 \in Wide(text)
  BY <1>1, <1>2 DEF Wide
<1>4. f \in Injection(Wide(s), Wide(text))
  <2>1. f \in [Wide(s) -> Wide(text)]
    BY <1>3
  <2>2. \A i, j \in Wide(s) : f[i] = f[j] => i = j
    BY <1>2
  <2>. QED BY <2>1, <2>2 DEF Injection, IsInjective
<1>5. Cardinality(Wide(s)) <= Cardinality(Wide(text))
  <2>. HIDE DEF f
  <2>1. IsFiniteSet(Wide(text))
    BY WideFinite
  <2>. QED BY <1>4, <2>1, FS_Injection
<1>6. Cardinality(Wide(s)) \in Nat /\ Cardinality(Wide(text)) \in Nat
  BY <1>1, WideFinite
<1>7. CardLinks!Length(s) = Len(s) + Cardinality(Wide(s)) /\ CardLinks!Length(text) = Len(text) + Cardinality(Wide(text))
  BY LengthIs
<1>8. Len(s) <= Len(text) /\ Len(s) \in Nat /\ Len(text) \in Nat
  BY <1>1
<1>9. CardLinks!Length(s) <= CardLinks!Length(text)
  BY <1>5, <1>6, <1>7, <1>8
<1>. QED BY <1>9 DEF s

\* Trimming adds nothing, and does all it can at once.
LEMMA TrimFacts ==
  ASSUME NEW S \in SUBSET CardLinks!Graphemes, NEW text \in Seq(S)
  PROVE  /\ CardLinks!Trim(text) \in Seq(S)
         /\ CardLinks!Length(CardLinks!Trim(text)) <= CardLinks!Length(text)
         /\ CardLinks!Trim(CardLinks!Trim(text)) = CardLinks!Trim(text)
<1> DEFINE solid(t) == {i \in DOMAIN t : t[i] # "space"}
           first(t) == CHOOSE i \in solid(t) : \A j \in solid(t) : i <= j
           last(t) == CHOOSE i \in solid(t) : \A j \in solid(t) : j <= i
<1>0. text \in Seq(CardLinks!Graphemes)
  BY SeqWiden
<1>1. ASSUME NEW t \in Seq(S), solid(t) # {}
      PROVE  /\ first(t) \in solid(t) /\ \A j \in solid(t) : first(t) <= j
             /\ last(t) \in solid(t) /\ \A j \in solid(t) : j <= last(t)
  <2>1. solid(t) \in SUBSET (1..Len(t)) /\ Len(t) \in Nat
    OBVIOUS
  <2>2. /\ \E i \in solid(t) : \A j \in solid(t) : i <= j
        /\ \E i \in solid(t) : \A j \in solid(t) : j <= i
    <3>. HIDE DEF solid
    <3>. QED BY <1>1, <2>1, Ends
  <2>. QED BY <2>2
<1>2. CASE solid(text) = {}
  <2>1. CardLinks!Trim(text) = <<>>
    BY <1>2 DEF CardLinks!Trim
  <2>2. CardLinks!Trim(<<>>) = <<>>
    BY DEF CardLinks!Trim
  <2>3. <<>> \in Seq(S)
    OBVIOUS
  <2>. QED BY <1>0, <2>1, <2>2, <2>3, LengthFacts
<1>3. CASE solid(text) # {}
  <2> DEFINE a == first(text)
             b == last(text)
             s == SubSeq(text, a, b)
  <2>1. a \in 1..Len(text) /\ b \in a..Len(text) /\ text[a] # "space" /\ text[b] # "space"
    <3>1. solid(text) \subseteq 1..Len(text) /\ \A i \in solid(text) : text[i] # "space"
      OBVIOUS
    <3>. HIDE DEF solid, first, last
    <3>. QED BY <1>1, <1>3, <3>1 
  <2>2. CardLinks!Trim(text) = s
    BY <1>3 DEF CardLinks!Trim
  <2>. HIDE DEF a, b
  <2>3. s \in Seq(S) /\ Len(s) = b - a + 1 /\ \A i \in 1..Len(s) : s[i] = text[i + a - 1]
    BY <2>1, SubSeqProperties
  <2>4. CardLinks!Length(s) <= CardLinks!Length(text)
    BY <1>0, <2>1, PartShorter
  <2>. HIDE DEF s
  <2>5. 1 \in solid(s) /\ Len(s) \in solid(s) /\ solid(s) \subseteq 1..Len(s) /\ Len(s) \in Nat
    BY <2>1, <2>3
  <2>6. first(s) = 1 /\ last(s) = Len(s)
    <3>1. /\ first(s) \in solid(s) /\ \A j \in solid(s) : first(s) <= j
          /\ last(s) \in solid(s) /\ \A j \in solid(s) : j <= last(s)
      BY <1>1, <2>3, <2>5
    <3>. HIDE DEF first, last, solid
    <3>. QED BY <2>5, <3>1
  <2>7. CardLinks!Trim(s) = SubSeq(s, 1, Len(s))
    <3>1. CardLinks!Trim(s) = SubSeq(s, first(s), last(s))
      BY <2>5 DEF CardLinks!Trim
    <3>. HIDE DEF first, last
    <3>. QED BY <2>6, <3>1
  <2>8. SubSeq(s, 1, Len(s)) = s
    BY <2>3, SubSeqFull
  <2>. QED BY <2>2, <2>3, <2>4, <2>7, <2>8
<1>. QED BY <1>2, <1>3

\* A text without emoji has none to strip.
LEMMA StripKeeps ==
  ASSUME NEW text \in Seq(CardLinks!Graphemes \ {"emoji"})
  PROVE  CardLinks!Strip(text) = text
<1>1. CardLinks!Only(text, CardLinks!Graphemes \ {"emoji"}) = Only(text, CardLinks!Graphemes \ {"emoji"})
  BY DEF CardLinks!Only, Only
<1>2. Only(text, CardLinks!Graphemes \ {"emoji"}) = text
  BY OnlyFacts
<1>. QED BY <1>1, <1>2 DEF CardLinks!Strip

\* What is left of a text after clipping has no emoji and is within both limits.
LEMMA ClipFacts ==
  ASSUME NEW text \in Seq(CardLinks!Graphemes), NEW limit \in Nat, NEW left \in Nat
  PROVE  /\ CardLinks!Clip(text, limit, left) \in Seq(CardLinks!Graphemes \ {"emoji"})
         /\ CardLinks!Length(CardLinks!Clip(text, limit, left)) <= limit
         /\ CardLinks!Length(CardLinks!Clip(text, limit, left)) <= left
         /\ text = CardLinks!Plain /\ 0 < limit /\ 0 < left => CardLinks!Clip(text, limit, left) = CardLinks!Plain
<1> DEFINE N == Len(text)
           A == Seq(CardLinks!Graphemes)
           more(so, n) == Append(so, text[n])
           fits(so, n) == text[n] # "emoji" /\ CardLinks!Length(more(so, n)) <= limit /\ CardLinks!Length(more(so, n)) <= left
           step == [p \in A \X (1..N) |-> IF fits(p[1], p[2]) THEN more(p[1], p[2]) ELSE p[1]]
           f == CHOOSE f : f = [n \in 0..N |-> IF n = 0 THEN <<>> ELSE IF fits(f[n - 1], n) THEN more(f[n - 1], n) ELSE f[n - 1]]
<1>0. N \in Nat /\ \A i \in 1..N : text[i] \in CardLinks!Graphemes
  OBVIOUS
<1>1. \E g : g = [n \in 0..N |-> IF n = 0 THEN <<>> ELSE IF fits(g[n - 1], n) THEN more(g[n - 1], n) ELSE g[n - 1]]
  <2>1. \A so \in A, n \in 1..N : more(so, n) \in A
    BY <1>0
  <2>2. step \in [A \X (1..N) -> A]
    <3>. HIDE DEF A, more, fits
    <3>. QED BY <2>1
  <2>3. <<>> \in A
    OBVIOUS
  <2>. HIDE DEF A, N, fits, more
  <2>4. \A so \in A, n \in 1..N : step[<<so, n>>] = IF fits(so, n) THEN more(so, n) ELSE so
    OBVIOUS
  <2>. HIDE DEF step, f
  <2>5. PICK g \in [0..N -> A] : Follows(g, step, <<>>, N)
    BY <1>0, <2>2, <2>3, Recursion
  <2>6. ASSUME NEW n \in 0..N
        PROVE  g[n] = IF n = 0 THEN <<>> ELSE IF fits(g[n - 1], n) THEN more(g[n - 1], n) ELSE g[n - 1]
    <3>1. CASE n = 0
      BY <2>5, <3>1 DEF Follows
    <3>2. CASE n # 0
      <4>1. n \in 1..N /\ n - 1 \in 0..N
        BY <1>0, <3>2
      <4>. QED BY <2>4, <2>5, <3>2, <4>1 DEF Follows
    <3>. QED BY <3>1, <3>2
  <2>7. g = [n \in 0..N |-> IF n = 0 THEN <<>> ELSE IF fits(g[n - 1], n) THEN more(g[n - 1], n) ELSE g[n - 1]]
    BY <2>6
  <2>. QED BY <2>7
<1>2. f = [n \in 0..N |-> IF n = 0 THEN <<>> ELSE IF fits(f[n - 1], n) THEN more(f[n - 1], n) ELSE f[n - 1]]
  <2>. HIDE DEF N, fits, more
  <2>. QED BY <1>1
<1>3. CardLinks!Clip(text, limit, left) = f[N]
  BY DEF CardLinks!Clip
<1>. HIDE DEF f
<1>4. \A n \in 0..N : f[n] = IF n = 0 THEN <<>> ELSE IF fits(f[n - 1], n) THEN more(f[n - 1], n) ELSE f[n - 1]
  <2>. HIDE DEF fits, more, N
  <2>. QED BY <1>2
<1> DEFINE good(t) == t \in Seq(CardLinks!Graphemes \ {"emoji"}) /\ CardLinks!Length(t) <= limit /\ CardLinks!Length(t) <= left
           T == {n \in 0..N : good(f[n])}
<1>5. 0 \in T
  <2>0. 0 \in 0..N
    BY <1>0
  <2>1. f[0] = <<>> /\ 0 \in 0..N
    <3>. HIDE DEF N, fits, more, step, good, T, A
    <3>. QED BY <1>4, <2>0
  <2>2. good(<<>>)
    BY LengthFacts
  <2>. HIDE DEF good, N
  <2>. QED BY <2>1, <2>2
<1>6. ASSUME NEW n \in 0..N - 1, n \in T PROVE n + 1 \in T
  <2>1. n + 1 \in 1..N /\ n + 1 \in 0..N /\ (n + 1) - 1 = n /\ n + 1 # 0 /\ text[n + 1] \in CardLinks!Graphemes
    BY <1>0
  <2>2. f[n + 1] = IF fits(f[n], n + 1) THEN more(f[n], n + 1) ELSE f[n]
    <3>. HIDE DEF fits, more
    <3>. QED BY <1>4, <2>1
  <2>3. good(f[n])
    BY <1>6
  <2>4. CASE fits(f[n], n + 1)
    <3>1. more(f[n], n + 1) \in Seq(CardLinks!Graphemes \ {"emoji"})
      BY <2>1, <2>3, <2>4
    <3>2. good(more(f[n], n + 1))
      BY <2>4, <3>1
    <3>. HIDE DEF good, fits, more, N
    <3>. QED BY <2>1, <2>2, <2>4, <3>2
  <2>5. CASE ~fits(f[n], n + 1)
    <3>. HIDE DEF good, fits, more, N
    <3>. QED BY <2>1, <2>2, <2>3, <2>5
  <2>. QED BY <2>4, <2>5
<1>7. N \in T
  <2>1. T \in SUBSET Nat OBVIOUS
  <2>. HIDE DEF T, N
  <2>2. 0..N \subseteq T
    BY <1>0, <1>5, <1>6, <2>1, NatInduct
  <2>. QED BY <1>0, <2>2
<1>8. ASSUME text = CardLinks!Plain, 0 < limit, 0 < left PROVE f[N] = CardLinks!Plain
  <2>1. N = 1 /\ text[1] = "x" /\ Append(<<>>, "x") = CardLinks!Plain
    BY <1>8 DEF CardLinks!Plain
  <2>2. f[0] = <<>> /\ f[1] = IF fits(f[0], 1) THEN more(f[0], 1) ELSE f[0]
    <3>. HIDE DEF fits, more
    <3>. QED BY <1>4, <2>1
  <2>3. fits(<<>>, 1) /\ more(<<>>, 1) = CardLinks!Plain
    <3>1. more(<<>>, 1) = CardLinks!Plain
      BY <2>1
    <3>. QED BY <1>8, <2>1, <3>1, LengthFacts
  <2>. HIDE DEF fits, more
  <2>. QED BY <2>1, <2>2, <2>3
<1>. QED BY <1>3, <1>7, <1>8

\* Texts without emoji.
CleanTexts == Seq(CardLinks!Graphemes \ {"emoji"})

\* The title that stands in for a blank one is not blank.
LEMMA PlainFacts == CardLinks!Plain \in CleanTexts /\ CardLinks!Plain \in Seq(CardLinks!Graphemes) /\ CardLinks!Trim(CardLinks!Plain) = CardLinks!Plain /\ CardLinks!Plain # <<>>
<1> DEFINE solid == {i \in DOMAIN CardLinks!Plain : CardLinks!Plain[i] # "space"}
<1>1. solid = {1} /\ Len(CardLinks!Plain) = 1 /\ CardLinks!Plain[1] = "x" /\ CardLinks!Plain \in Seq(CardLinks!Graphemes \ {"emoji"}) /\ CardLinks!Plain \in Seq(CardLinks!Graphemes)
  <2>1. "x" # "space" /\ "x" # "emoji" /\ Len(CardLinks!Plain) = 1 /\ CardLinks!Plain[1] = "x" /\ DOMAIN CardLinks!Plain = {1}
    BY DEF CardLinks!Plain
  <2>2. solid = {1}
    BY <2>1
  <2>3. CardLinks!Plain \in Seq(CardLinks!Graphemes \ {"emoji"})
    <3>1. "x" \in CardLinks!Graphemes
      BY DEF CardLinks!Graphemes
    <3>2. PICK letter \in CardLinks!Graphemes : letter = "x"
      BY <3>1
    <3>5. letter \in CardLinks!Graphemes \ {"emoji"}
      BY <3>2
    <3>3. <<letter>> \in Seq(CardLinks!Graphemes \ {"emoji"})
      BY <3>5
    <3>4. CardLinks!Plain = <<letter>>
      BY <3>2 DEF CardLinks!Plain
    <3>. QED BY <3>3, <3>4
  <2>4. CardLinks!Plain \in Seq(CardLinks!Graphemes)
    BY <2>3, SeqWiden
  <2>. QED BY <2>1, <2>2, <2>3, <2>4
<1>2. CardLinks!Trim(CardLinks!Plain) = SubSeq(CardLinks!Plain, CHOOSE i \in solid : \A j \in solid : i <= j, CHOOSE i \in solid : \A j \in solid : j <= i)
  BY <1>1 DEF CardLinks!Trim
<1>3. (CHOOSE i \in solid : \A j \in solid : i <= j) = 1 /\ (CHOOSE i \in solid : \A j \in solid : j <= i) = 1
  <2>. HIDE DEF solid
  <2>1. \E i \in solid : \A j \in solid : i <= j
    BY <1>1
  <2>2. \E i \in solid : \A j \in solid : j <= i
    BY <1>1
  <2>. QED BY <1>1, <2>1, <2>2
<1>4. CardLinks!Trim(CardLinks!Plain) = SubSeq(CardLinks!Plain, 1, 1)
  <2>. HIDE DEF solid
  <2>. QED BY <1>2, <1>3
<1>5. SubSeq(CardLinks!Plain, 1, 1) = CardLinks!Plain
  BY <1>1, SubSeqFull
<1>6. CardLinks!Plain # <<>>
  BY <1>1
<1>. QED BY <1>1, <1>4, <1>5, <1>6 DEF CleanTexts

\* Of a text without emoji parsing only trims.
LEMMA ParsedClean ==
  ASSUME NEW text \in CleanTexts, text # None
  PROVE  CardLinks!Parsed(text) = CardLinks!Trim(text)
<1>1. CardLinks!Trim(text) \in CleanTexts /\ CardLinks!Trim(CardLinks!Trim(text)) = CardLinks!Trim(text)
  BY TrimFacts DEF CleanTexts
<1>2. CardLinks!Strip(CardLinks!Trim(text)) = CardLinks!Trim(text)
  BY <1>1, StripKeeps DEF CleanTexts
<1>. QED BY <1>1, <1>2 DEF CardLinks!Parsed

\* A text without emoji is a text.
LEMMA CleanIsText == CleanTexts \subseteq Seq(CardLinks!Graphemes)
<1>1. ASSUME NEW s \in CleanTexts PROVE s \in Seq(CardLinks!Graphemes)
  BY SeqWiden DEF CleanTexts
<1>. QED BY <1>1

\* Trimming a text without emoji.
LEMMA CleanFacts ==
  ASSUME NEW text \in CleanTexts
  PROVE  /\ CardLinks!Trim(text) \in CleanTexts
         /\ CardLinks!Length(text) \in Nat /\ CardLinks!Length(CardLinks!Trim(text)) \in Nat
         /\ CardLinks!Length(CardLinks!Trim(text)) <= CardLinks!Length(text)
<1>1. CardLinks!Trim(text) \in CleanTexts /\ CardLinks!Length(CardLinks!Trim(text)) <= CardLinks!Length(text)
  BY TrimFacts DEF CleanTexts
<1>. QED BY <1>1, CleanIsText, LengthFacts

\* A normalised title is not blank, is within its limit, and is paid for from the budget.
LEMMA RequiredFacts ==
  ASSUME CardLinks!Wellformed, NEW text \in Seq(CardLinks!Graphemes)
  PROVE  /\ CardLinks!Required(text, Title, Total) \in CleanTexts
         /\ CardLinks!Trim(CardLinks!Required(text, Title, Total)) # <<>>
         /\ CardLinks!Length(CardLinks!Required(text, Title, Total)) <= Title
         /\ CardLinks!Spent(text, Title, Total) \in Nat
         /\ CardLinks!Length(CardLinks!Required(text, Title, Total)) <= CardLinks!Spent(text, Title, Total)
         /\ CardLinks!Spent(text, Title, Total) <= Total
<1> DEFINE clipped == CardLinks!Clip(text, Title, Total)
           rest == Total - CardLinks!Length(clipped)
<1>1. Title \in Nat /\ Total \in Nat /\ 0 < Title /\ Title < Total
  BY DEF CardLinks!Wellformed
<1>2. clipped \in CleanTexts /\ CardLinks!Length(clipped) <= Title /\ CardLinks!Length(clipped) <= Total /\ CardLinks!Length(clipped) \in Nat
  BY <1>1, ClipFacts, CleanFacts DEF CleanTexts
<1>3. rest \in Nat /\ 0 < rest
  BY <1>1, <1>2
<1>4. CardLinks!Clip(CardLinks!Plain, Title, rest) = CardLinks!Plain
  <2>. HIDE DEF rest
  <2>. QED BY <1>1, <1>3, PlainFacts, ClipFacts
<1>5. CardLinks!Required(text, Title, Total) = IF CardLinks!Trim(clipped) # <<>> THEN clipped ELSE CardLinks!Plain
  BY <1>4 DEF CardLinks!Required
<1>6. CardLinks!Spent(text, Title, Total) = CardLinks!Length(clipped) + IF CardLinks!Trim(clipped) # <<>> THEN 0 ELSE 1
  BY <1>4, LengthFacts DEF CardLinks!Spent
<1>. HIDE DEF clipped
<1>. QED BY <1>1, <1>2, <1>5, <1>6, LengthFacts, PlainFacts

\* A category as the normalisation leaves it.
KeptCategory == [name : {t \in CleanTexts : CardLinks!Trim(t) # <<>> /\ CardLinks!Length(t) <= Name}, icon : {"valid"}]

\* The recursive function in NamesLength.
RunningLength(s) == CHOOSE f : f = [n \in 0..Len(s) |-> IF n = 0 THEN 0 ELSE f[n - 1] + CardLinks!Length(CardLinks!Parsed(s[n].name))]

\* What the schema asks of a category holds of those that were kept.
LEMMA KeptCategoryFacts ==
  ASSUME CardLinks!Wellformed, NEW c \in KeptCategory
  PROVE  /\ c.name \in CleanTexts /\ CardLinks!Trim(c.name) # <<>> /\ CardLinks!Length(c.name) <= Name /\ c.icon = "valid"
         /\ c.name # None /\ CardLinks!Parsed(c.name) = CardLinks!Trim(c.name)
         /\ CardLinks!Length(c.name) \in Nat
         /\ CardLinks!Length(CardLinks!Parsed(c.name)) \in Nat /\ CardLinks!Length(CardLinks!Parsed(c.name)) <= CardLinks!Length(c.name)
<1>1. c.name \in CleanTexts /\ CardLinks!Trim(c.name) # <<>> /\ CardLinks!Length(c.name) <= Name /\ c.icon = "valid"
  BY DEF KeptCategory
<1>2. c.name # None
  BY <1>1, CleanIsText DEF CardLinks!Wellformed
<1>. QED BY <1>1, <1>2, ParsedClean, CleanFacts

\* The running length is the recursion it is written as.
LEMMA RunningLengthFacts ==
  ASSUME CardLinks!Wellformed, NEW s \in Seq(KeptCategory)
  PROVE  \A n \in 0..Len(s) :
           RunningLength(s)[n] = IF n = 0 THEN 0 ELSE RunningLength(s)[n - 1] + CardLinks!Length(CardLinks!Parsed(s[n].name))
<1> DEFINE N == Len(s)
           weight(n) == CardLinks!Length(CardLinks!Parsed(s[n].name))
           step == [p \in Nat \X (1..N) |-> p[1] + weight(p[2])]
<1>0. N \in Nat /\ \A i \in 1..N : s[i] \in KeptCategory
  OBVIOUS
<1>1. \A n \in 1..N : weight(n) \in Nat
  BY <1>0, KeptCategoryFacts
<1>. HIDE DEF weight
<1>2. step \in [Nat \X (1..N) -> Nat] /\ \A t \in Nat, n \in 1..N : step[<<t, n>>] = t + weight(n)
  BY <1>1
<1>. HIDE DEF step, N
<1>3. PICK g \in [0..N -> Nat] : Follows(g, step, 0, N)
  BY <1>0, <1>2, Recursion
<1>4. g = [n \in 0..N |-> IF n = 0 THEN 0 ELSE g[n - 1] + weight(n)]
  <2>1. ASSUME NEW n \in 0..N PROVE g[n] = IF n = 0 THEN 0 ELSE g[n - 1] + weight(n)
    <3>1. CASE n = 0
      BY <1>3, <3>1 DEF Follows
    <3>2. CASE n # 0
      <4>1. n \in 1..N /\ n - 1 \in 0..N
        BY <1>0, <3>2
      <4>. QED BY <1>2, <1>3, <3>2, <4>1 DEF Follows
    <3>. QED BY <3>1, <3>2
  <2>. QED BY <2>1
<1> DEFINE f == CHOOSE f : f = [n \in 0..N |-> IF n = 0 THEN 0 ELSE f[n - 1] + weight(n)]
<1>5. f = [n \in 0..N |-> IF n = 0 THEN 0 ELSE f[n - 1] + weight(n)]
  BY <1>4
<1>6. RunningLength(s) = f
  BY DEF RunningLength, weight, N
<1>. HIDE DEF f
<1>7. \A n \in 0..N : f[n] = IF n = 0 THEN 0 ELSE f[n - 1] + weight(n)
  BY <1>5
<1>. QED BY <1>6, <1>7 DEF N, weight

\* One more category adds its own length.
LEMMA NamesFacts ==
  ASSUME CardLinks!Wellformed
  PROVE  /\ CardLinks!NamesLength(<<>>) = 0
         /\ \A s \in Seq(KeptCategory), c \in KeptCategory :
              CardLinks!NamesLength(Append(s, c)) = CardLinks!NamesLength(s) + CardLinks!Length(CardLinks!Parsed(c.name))
<1>0. \A s : CardLinks!NamesLength(s) = RunningLength(s)[Len(s)]
  BY DEF CardLinks!NamesLength, RunningLength
<1>1. CardLinks!NamesLength(<<>>) = 0
  <2>1. <<>> \in Seq(KeptCategory) /\ Len(<<>>) = 0 /\ 0 \in 0..Len(<<>>)
    OBVIOUS
  <2>2. RunningLength(<<>>)[0] = 0
    BY <2>1, RunningLengthFacts
  <2>. QED BY <1>0, <2>1, <2>2
<1>2. ASSUME NEW s \in Seq(KeptCategory), NEW c \in KeptCategory
      PROVE  CardLinks!NamesLength(Append(s, c)) = CardLinks!NamesLength(s) + CardLinks!Length(CardLinks!Parsed(c.name))
  <2> DEFINE N == Len(s)
             t == Append(s, c)
             f == RunningLength(s)
             g == RunningLength(t)
             T == {n \in 0..N : g[n] = f[n]}
  <2>1. N \in Nat /\ t \in Seq(KeptCategory) /\ Len(t) = N + 1 /\ t[N + 1] = c /\ \A n \in 1..N : t[n] = s[n]
    OBVIOUS
  <2>2. \A n \in 0..N : f[n] = IF n = 0 THEN 0 ELSE f[n - 1] + CardLinks!Length(CardLinks!Parsed(s[n].name))
    BY RunningLengthFacts
  <2>3. \A n \in 0..N + 1 : g[n] = IF n = 0 THEN 0 ELSE g[n - 1] + CardLinks!Length(CardLinks!Parsed(t[n].name))
    <3>. HIDE DEF t
    <3>. QED BY <2>1, RunningLengthFacts
  <2>. HIDE DEF f, g, t
  <2>4. 0 \in T
    BY <2>1, <2>2, <2>3
  <2>5. ASSUME NEW n \in 0..N - 1, n \in T PROVE n + 1 \in T
    <3>1. n + 1 \in 0..N /\ n + 1 \in 0..N + 1 /\ n + 1 \in 1..N /\ n + 1 # 0 /\ (n + 1) - 1 = n
      BY <2>1
    <3>2. g[n] = f[n]
      BY <2>5
    <3>3. t[n + 1] = s[n + 1]
      BY <2>1, <3>1
    <3>. QED BY <2>2, <2>3, <3>1, <3>2, <3>3
  <2>6. N \in T
    <3>1. T \in SUBSET Nat OBVIOUS
    <3>. HIDE DEF T, N
    <3>2. 0..N \subseteq T
      BY <2>1, <2>4, <2>5, <3>1, NatInduct
    <3>. QED BY <2>1, <3>2
  <2>7. g[N + 1] = g[N] + CardLinks!Length(CardLinks!Parsed(c.name))
    <3>1. N + 1 \in 0..N + 1 /\ N + 1 # 0 /\ (N + 1) - 1 = N
      BY <2>1
    <3>. QED BY <2>1, <2>3, <3>1
  <2>8. CardLinks!NamesLength(t) = g[N + 1] /\ CardLinks!NamesLength(s) = f[N]
    BY <1>0, <2>1 DEF f, g
  <2>. QED BY <2>6, <2>7, <2>8 DEF t
<1>. QED BY <1>1, <1>2

\* The parts of ClipCategories: how many it takes, one step, and all of them.
Taken(categories) == IF Len(categories) < MaxCategories THEN Len(categories) ELSE MaxCategories
Shortened(so, category) ==
  LET name == CardLinks!Clip(category.name, Name, so.left) IN
  [left |-> so.left - CardLinks!Length(name),
   out |-> IF CardLinks!Trim(name) = <<>> THEN so.out ELSE Append(so.out, [name |-> name, icon |-> "valid"])]
Shortening(categories, left) ==
  CHOOSE f : f = [n \in 0..Taken(categories) |->
    IF n = 0 THEN [left |-> left, out |-> <<>>] ELSE Shortened(f[n - 1], categories[n])]

\* The categories that are left are those of the last step.
LEMMA ClippedNames == \A categories, left :
  CardLinks!ClipCategories(categories, left) = Shortening(categories, left)[Taken(categories)].out
BY DEF CardLinks!ClipCategories, Shortening, Taken, Shortened

\* One step of clipping takes what it keeps from the budget.
LEMMA ShortenedFacts ==
  ASSUME CardLinks!Wellformed, NEW so \in [left : Nat, out : Seq(KeptCategory)], NEW category \in [name : Seq(CardLinks!Graphemes), icon : CardLinks!Icons]
  PROVE  /\ Shortened(so, category) \in [left : Nat, out : Seq(KeptCategory)]
         /\ Len(Shortened(so, category).out) <= Len(so.out) + 1
         /\ CardLinks!NamesLength(so.out) \in Int => CardLinks!NamesLength(Shortened(so, category).out) \in Int
         /\ CardLinks!NamesLength(so.out) \in Int =>
              CardLinks!NamesLength(Shortened(so, category).out) + Shortened(so, category).left <= CardLinks!NamesLength(so.out) + so.left
<1> DEFINE name == CardLinks!Clip(category.name, Name, so.left)
           remains == [name |-> name, icon |-> "valid"]
           rest == so.left - CardLinks!Length(name)
           longer == Append(so.out, remains)
           new == Shortened(so, category)
<1>1. Name \in Nat /\ so.left \in Nat /\ so.out \in Seq(KeptCategory) /\ category.name \in Seq(CardLinks!Graphemes)
  BY DEF CardLinks!Wellformed
<1>2. name \in CleanTexts /\ CardLinks!Length(name) <= Name /\ CardLinks!Length(name) <= so.left /\ CardLinks!Length(name) \in Nat
  BY <1>1, ClipFacts, CleanFacts DEF CleanTexts
<1>3. rest \in Nat
  BY <1>1, <1>2
<1>4. CASE CardLinks!Trim(name) = <<>>
  <2>1. new = [left |-> rest, out |-> so.out]
    BY <1>4 DEF Shortened
  <2>2. Len(so.out) \in Nat
    BY <1>1
  <2>. HIDE DEF new, rest, name
  <2>3. new.left = rest /\ new.out = so.out /\ new \in [left : Nat, out : Seq(KeptCategory)]
    BY <1>1, <1>3, <2>1
  <2>4. rest <= so.left
    BY <1>1, <1>2 DEF rest
  <2>5. Len(new.out) <= Len(so.out) + 1
    BY <2>2, <2>3
  <2>6. CardLinks!NamesLength(so.out) \in Int => CardLinks!NamesLength(new.out) + new.left <= CardLinks!NamesLength(so.out) + so.left
    BY <1>1, <1>3, <2>3, <2>4
  <2>. QED BY <2>3, <2>5, <2>6 DEF new
<1>5. CASE CardLinks!Trim(name) # <<>>
  <2>1. new = [left |-> rest, out |-> longer]
    BY <1>5 DEF Shortened
  <2>2. remains \in KeptCategory /\ remains.name = name
    BY <1>2, <1>5 DEF KeptCategory
  <2>. HIDE DEF remains, name
  <2>3. longer \in Seq(KeptCategory) /\ Len(longer) = Len(so.out) + 1 /\ Len(so.out) \in Nat
    BY <1>1, <2>2
  <2>4. CardLinks!NamesLength(longer) = CardLinks!NamesLength(so.out) + CardLinks!Length(CardLinks!Parsed(name))
    BY <1>1, <2>2, NamesFacts
  <2>5. CardLinks!Length(CardLinks!Parsed(name)) \in Nat /\ CardLinks!Length(CardLinks!Parsed(name)) <= CardLinks!Length(name)
    BY <2>2, KeptCategoryFacts
  <2>. HIDE DEF longer, new
  <2>6. new.left = rest /\ new.out = longer /\ new \in [left : Nat, out : Seq(KeptCategory)]
    <3>. HIDE DEF rest
    <3>. QED BY <1>3, <2>1, <2>3
  <2>7. CardLinks!NamesLength(so.out) \in Int => CardLinks!NamesLength(new.out) + new.left <= CardLinks!NamesLength(so.out) + so.left
    BY <1>1, <1>2, <2>4, <2>5, <2>6
  <2>8. CardLinks!NamesLength(so.out) \in Int => CardLinks!NamesLength(new.out) \in Int
    BY <2>4, <2>5, <2>6
  <2>9. Len(new.out) <= Len(so.out) + 1
    BY <2>3, <2>6
  <2>. QED BY <2>6, <2>7, <2>8, <2>9 DEF new
<1>. QED BY <1>4, <1>5

\* The categories that are left are few enough and within the budget.
LEMMA CategoriesFacts ==
  ASSUME CardLinks!Wellformed, NEW categories \in Seq([name : Seq(CardLinks!Graphemes), icon : CardLinks!Icons]), NEW left \in Nat
  PROVE  /\ CardLinks!ClipCategories(categories, left) \in Seq(KeptCategory)
         /\ Len(CardLinks!ClipCategories(categories, left)) <= MaxCategories
         /\ CardLinks!NamesLength(CardLinks!ClipCategories(categories, left)) \in Int
         /\ CardLinks!NamesLength(CardLinks!ClipCategories(categories, left)) <= left
<1> DEFINE N == Taken(categories)
           A == [left : Nat, out : Seq(KeptCategory)]
           start == [left |-> left, out |-> <<>>]
           step == [p \in A \X (1..N) |-> Shortened(p[1], categories[p[2]])]
           f == CHOOSE f : f = [n \in 0..N |-> IF n = 0 THEN start ELSE Shortened(f[n - 1], categories[n])]
<1>0. N \in Nat /\ N <= MaxCategories /\ MaxCategories \in Nat
      /\ \A i \in 1..N : categories[i] \in [name : Seq(CardLinks!Graphemes), icon : CardLinks!Icons]
  <2>1. Len(categories) \in Nat /\ MaxCategories \in Nat
    BY DEF CardLinks!Wellformed
  <2>2. N \in Nat /\ N <= MaxCategories /\ N <= Len(categories)
    BY <2>1 DEF Taken
  <2>3. \A i \in 1..Len(categories) : categories[i] \in [name : Seq(CardLinks!Graphemes), icon : CardLinks!Icons]
    <3> DEFINE S == [name : Seq(CardLinks!Graphemes), icon : CardLinks!Icons]
    <3>1. categories \in Seq(S)
      OBVIOUS
    <3>. HIDE DEF S
    <3>2. \A i \in 1..Len(categories) : categories[i] \in S
      BY <3>1
    <3>. QED BY <3>2 DEF S
  <2>. HIDE DEF N
  <2>. QED BY <2>1, <2>2, <2>3
<1>1. start \in A /\ start.left = left /\ start.out = <<>>
  OBVIOUS
<1>2. \A so \in A, n \in 1..N : Shortened(so, categories[n]) \in A
  <2>. HIDE DEF N
  <2>. QED BY <1>0, ShortenedFacts
<1>. HIDE DEF N, start, A
<1>3. step \in [A \X (1..N) -> A] /\ \A so \in A, n \in 1..N : step[<<so, n>>] = Shortened(so, categories[n])
  BY <1>2
<1>. HIDE DEF step, f
<1>4. PICK g \in [0..N -> A] : Follows(g, step, start, N)
  BY <1>0, <1>1, <1>3, Recursion
<1>5. g = [n \in 0..N |-> IF n = 0 THEN start ELSE Shortened(g[n - 1], categories[n])]
  <2>1. ASSUME NEW n \in 0..N PROVE g[n] = IF n = 0 THEN start ELSE Shortened(g[n - 1], categories[n])
    <3>1. CASE n = 0
      BY <1>4, <3>1 DEF Follows
    <3>2. CASE n # 0
      <4>1. n \in 1..N /\ n - 1 \in 0..N
        BY <1>0, <3>2
      <4>. QED BY <1>3, <1>4, <3>2, <4>1 DEF Follows
    <3>. QED BY <3>1, <3>2
  <2>. QED BY <2>1
<1>6. f = [n \in 0..N |-> IF n = 0 THEN start ELSE Shortened(f[n - 1], categories[n])]
  BY <1>5 DEF f
<1>7. Shortening(categories, left) = f
  BY DEF Shortening, f, start, N
<1>8. \A n \in 0..N : f[n] = IF n = 0 THEN start ELSE Shortened(f[n - 1], categories[n])
  BY <1>6
<1> DEFINE good(n) == /\ f[n] \in A /\ Len(f[n].out) <= n /\ CardLinks!NamesLength(f[n].out) \in Int
                      /\ CardLinks!NamesLength(f[n].out) + f[n].left <= left
           T == {n \in 0..N : good(n)}
<1>9. 0 \in T
  <2>1. f[0] = start /\ 0 \in 0..N
    BY <1>0, <1>8
  <2>2. CardLinks!NamesLength(<<>>) = 0 /\ Len(<<>>) = 0
    BY NamesFacts
  <2>. QED BY <1>1, <2>1, <2>2
<1>10. ASSUME NEW n \in 0..N - 1, n \in T PROVE n + 1 \in T
  <2>1. n + 1 \in 1..N /\ n + 1 \in 0..N /\ (n + 1) - 1 = n /\ n + 1 # 0 /\ n \in Nat
    BY <1>0
  <2>2. f[n + 1] = Shortened(f[n], categories[n + 1])
    BY <1>8, <2>1
  <2>3. good(n)
    BY <1>10
  <2> DEFINE so == f[n]
             new == f[n + 1]
  <2>4. so \in [left : Nat, out : Seq(KeptCategory)] /\ categories[n + 1] \in [name : Seq(CardLinks!Graphemes), icon : CardLinks!Icons]
    BY <1>0, <2>1, <2>3 DEF A
  <2>5. /\ new \in [left : Nat, out : Seq(KeptCategory)]
        /\ Len(new.out) <= Len(so.out) + 1
        /\ CardLinks!NamesLength(new.out) \in Int
        /\ CardLinks!NamesLength(new.out) + new.left <= CardLinks!NamesLength(so.out) + so.left
    <3>. HIDE DEF f, so
    <3>1. CardLinks!NamesLength(so.out) \in Int
      BY <2>3 DEF so
    <3>. QED BY <2>2, <2>4, <3>1, ShortenedFacts DEF so
  <2>6. Len(new.out) \in Nat /\ Len(so.out) \in Nat /\ new.left \in Nat /\ so.left \in Nat
    <3>. HIDE DEF so, new
    <3>. QED BY <2>4, <2>5
  <2>7. Len(so.out) <= n /\ CardLinks!NamesLength(so.out) \in Int /\ CardLinks!NamesLength(so.out) + so.left <= left
    BY <2>3
  <2>. HIDE DEF so, new
  <2>8. Len(new.out) <= n + 1
    BY <2>1, <2>5, <2>6, <2>7
  <2>9. CardLinks!NamesLength(new.out) + new.left <= left
    BY <2>5, <2>6, <2>7
  <2>. QED BY <2>1, <2>5, <2>8, <2>9 DEF A, new
<1>11. N \in T
  <2>1. T \in SUBSET Nat OBVIOUS
  <2>. HIDE DEF T
  <2>2. 0..N \subseteq T
    BY <1>0, <1>9, <1>10, <2>1, NatInduct
  <2>. QED BY <1>0, <2>2
<1> DEFINE last == f[N]
<1>12. CardLinks!ClipCategories(categories, left) = last.out
  BY <1>7, ClippedNames DEF N
<1>13. /\ last \in [left : Nat, out : Seq(KeptCategory)] /\ Len(last.out) <= N /\ CardLinks!NamesLength(last.out) \in Int
       /\ CardLinks!NamesLength(last.out) + last.left <= left
  BY <1>11 DEF A
<1>. HIDE DEF last
<1>14. last.out \in Seq(KeptCategory) /\ last.left \in Nat /\ Len(last.out) \in Nat
  BY <1>13
<1>. QED BY <1>0, <1>12, <1>13, <1>14

\* All texts, and all that pages could say.
AnyTexts == Seq(CardLinks!Graphemes)
CardPage == [template : {"service", "generic", "blog"}, title : AnyTexts, body : AnyTexts \cup {None},
          categories : Seq([name : AnyTexts, icon : CardLinks!Icons]), score : Int, icon : CardLinks!Icons \cup {None},
          image : CardLinks!Sources, time : CardLinks!Times]

\* What a page says of itself.
LEMMA PageTyped ==
  ASSUME CardLinks!Wellformed, CardLinks!AnyPage
  PROVE  page \in CardPage /\ (page.template = "service" => page.body # None)
<1> DEFINE Cat == [name : AnyTexts, icon : CardLinks!Icons]
           Cats == Seq(Cat)
<1>1. /\ Texts \subseteq AnyTexts /\ CardLinks!Plain \in AnyTexts /\ None \notin AnyTexts
      /\ Lowest \in Int /\ Highest \in Int
  BY PlainFacts DEF CardLinks!Wellformed, AnyTexts
<1>2. None \in CardLinks!Sources /\ None \in CardLinks!Times /\ {"service", "generic", "blog"} = {"service", "generic", "blog"}
  BY DEF CardLinks!Sources, CardLinks!Times
<1>3. CardLinks!NoCategories \in Cats
  BY DEF CardLinks!NoCategories
<1>4. CardLinks!Categories \subseteq Cats
  <2>1. ASSUME NEW c \in CardLinks!Categories PROVE c \in Cats
    <3>1. CardLinks!Category \subseteq Cat
      BY DEF CardLinks!Category, CardLinks!Wellformed, AnyTexts
    <3>2. PICK n \in 0..MaxCategories + 1 : c \in [1..n -> CardLinks!Category]
      BY DEF CardLinks!Categories
    <3>. HIDE DEF Cat
    <3>3. n \in Nat
      BY DEF CardLinks!Wellformed
    <3>. QED BY <3>1, <3>2, <3>3
  <2>. QED BY <2>1
<1>5. ASSUME NEW t \in AnyTexts, NEW b \in AnyTexts \cup {None}, NEW c \in Cats, NEW s \in Int, NEW i \in CardLinks!Sources
      PROVE  /\ CardLinks!Service(t, b, c, s, i) \in CardPage
             /\ CardLinks!Service(t, b, c, s, i).template = "service" /\ CardLinks!Service(t, b, c, s, i).body = b
  <2>. HIDE DEF Cats
  <2>1. PICK what \in {"service", "generic", "blog"} : what = "service"
    OBVIOUS
  <2>2. PICK none \in (CardLinks!Icons \cup {None}) \cap CardLinks!Times : none = None
    BY DEF CardLinks!Times
  <2>3. CardLinks!Service(t, b, c, s, i) = [template |-> what, title |-> t, body |-> b, categories |-> c, score |-> s,
                                  icon |-> none, image |-> i, time |-> none]
    BY <2>1, <2>2 DEF CardLinks!Service
  <2>4. CardLinks!Service(t, b, c, s, i) \in [template : {"service", "generic", "blog"}, title : AnyTexts, body : AnyTexts \cup {None},
          categories : Cats, score : Int, icon : CardLinks!Icons \cup {None}, image : CardLinks!Sources, time : CardLinks!Times]
    BY <2>2, <2>3
  <2>. QED BY <2>1, <2>3, <2>4 DEF CardPage, Cats
<1>6. ASSUME NEW t \in AnyTexts, NEW b \in AnyTexts \cup {None}, NEW i \in CardLinks!Icons \cup {None}
      PROVE  CardLinks!Generic(t, b, i) \in CardPage /\ CardLinks!Generic(t, b, i).template = "generic"
  <2> DEFINE base == CardLinks!Service(t, b, CardLinks!NoCategories, Lowest, None)
  <2>1. base \in CardPage
    BY <1>1, <1>2, <1>3, <1>5
  <2>. HIDE DEF base
  <2>2. PICK what \in {"service", "generic", "blog"} : what = "generic"
    OBVIOUS
  <2>3. CardLinks!Generic(t, b, i) = [base EXCEPT !.template = what, !.icon = i]
    BY <2>2 DEF CardLinks!Generic, base
  <2>. QED BY <2>1, <2>2, <2>3 DEF CardPage
<1>7. ASSUME NEW t \in AnyTexts, NEW a \in AnyTexts \cup {None}, NEW i \in CardLinks!Sources, NEW w \in CardLinks!Times
      PROVE  CardLinks!Blog(t, a, i, w) \in CardPage /\ CardLinks!Blog(t, a, i, w).template = "blog"
  <2> DEFINE base == CardLinks!Service(t, a, CardLinks!NoCategories, Lowest, i)
  <2>1. base \in CardPage
    BY <1>1, <1>3, <1>5
  <2>. HIDE DEF base
  <2>2. PICK what \in {"service", "generic", "blog"} : what = "blog"
    OBVIOUS
  <2>3. CardLinks!Blog(t, a, i, w) = [base EXCEPT !.template = what, !.time = w]
    BY <2>2 DEF CardLinks!Blog, base
  <2>. QED BY <2>1, <2>2, <2>3 DEF CardPage
<1>. HIDE DEF Cats
<1>8. CASE \E t \in Texts, b \in Texts, c \in CardLinks!Categories : page = CardLinks!Service(t, b, c, Lowest, None)
  BY <1>1, <1>2, <1>4, <1>5, <1>8
<1>9. CASE \E s \in Lowest - 1..Highest + 1, i \in CardLinks!Sources : page = CardLinks!Service(CardLinks!Plain, CardLinks!Plain, CardLinks!NoCategories, s, i)
  <2>1. PICK s \in Lowest - 1..Highest + 1, i \in CardLinks!Sources : page = CardLinks!Service(CardLinks!Plain, CardLinks!Plain, CardLinks!NoCategories, s, i)
    BY <1>9
  <2>2. s \in Int
    BY <1>1
  <2>. QED BY <1>1, <1>3, <1>5, <2>1, <2>2
<1>10. CASE \E t \in Texts, b \in Texts \cup {None}, i \in CardLinks!Icons \cup {None} : page = CardLinks!Generic(t, b, i)
  <2>1. PICK t \in Texts, b \in Texts \cup {None}, i \in CardLinks!Icons \cup {None} : page = CardLinks!Generic(t, b, i)
    BY <1>10
  <2>. QED BY <1>1, <1>6, <2>1
<1>11. CASE \E t \in Texts, a \in Texts \cup {None}, i \in CardLinks!Sources, w \in CardLinks!Times : page = CardLinks!Blog(t, a, i, w)
  <2>1. PICK t \in Texts, a \in Texts \cup {None}, i \in CardLinks!Sources, w \in CardLinks!Times : page = CardLinks!Blog(t, a, i, w)
    BY <1>11
  <2>. QED BY <1>1, <1>7, <2>1
<1>. QED BY <1>8, <1>9, <1>10, <1>11 DEF CardLinks!AnyPage

\* A normalised description passes its schema, and takes what it was given at most.
LEMMA ParsedBody ==
  ASSUME CardLinks!Wellformed, NEW b \in CleanTexts \cup {None}, NEW n \in Nat, NEW limit \in Nat,
         b # None => CardLinks!Length(b) <= n /\ CardLinks!Length(b) <= limit
  PROVE  CardLinks!OptionalText(b, limit) /\ (IF b = None THEN 0 ELSE CardLinks!Length(CardLinks!Parsed(b))) \in 0..n
<1>1. CASE b = None
  BY <1>1 DEF CardLinks!OptionalText
<1>2. CASE b # None
  <2>1. b \in CleanTexts /\ CardLinks!Parsed(b) = CardLinks!Trim(b)
    BY <1>2, ParsedClean
  <2>. QED BY <1>2, <2>1, CleanFacts DEF CardLinks!OptionalText
<1>. QED BY <1>1, <1>2

(***************************************************************************)
(* The schemas accept what the normalisation makes of any page, and parsing*)
(* it only trims its texts.                                                *)
(***************************************************************************)
LEMMA NormalizedIsAccepted ==
  ASSUME CardLinks!Wellformed, NEW p \in CardPage, p.template = "service" => p.body # None
  PROVE  /\ CardLinks!Accepts(CardLinks!Normalize(p))
         /\ CardLinks!Parse(CardLinks!Normalize(p)).title = CardLinks!Trim(CardLinks!Normalize(p).title)
         /\ Len(CardLinks!Parse(CardLinks!Normalize(p)).categories) = Len(CardLinks!Normalize(p).categories)
<1> DEFINE q == CardLinks!Normalize(p)
           title == CardLinks!Required(p.title, Title, Total)
           left == Total - CardLinks!Spent(p.title, Title, Total)
           body == IF p.body = None THEN None ELSE CardLinks!Clip(p.body, Body, left)
           shown == IF p.template = "blog" /\ body = <<>> THEN None ELSE body
           rest == left - IF body = None THEN 0 ELSE CardLinks!Length(body)
           remains == CardLinks!ClipCategories(p.categories, rest)
           score == IF p.score < Lowest THEN Lowest ELSE IF p.score > Highest THEN Highest ELSE p.score
           icon == IF p.icon = "valid" THEN p.icon ELSE None
           image == IF p.image = "foreign" THEN None ELSE p.image
           time == CASE p.time = "date" -> "iso" [] p.time = "junk" -> None [] OTHER -> p.time
<1>0. /\ Title \in Nat /\ Total \in Nat /\ Body \in Nat /\ Lowest \in Int /\ Highest \in Int /\ Lowest <= Highest
      /\ None \notin Seq(CardLinks!Graphemes) /\ None # "invalid" /\ None # "foreign" /\ MaxCategories \in Nat
  BY DEF CardLinks!Wellformed
<1>1. /\ p.title \in Seq(CardLinks!Graphemes) /\ p.body \in Seq(CardLinks!Graphemes) \cup {None} /\ p.score \in Int
      /\ p.icon \in CardLinks!Icons \cup {None} /\ p.image \in CardLinks!Sources /\ p.time \in CardLinks!Times
      /\ p.template \in {"service", "generic", "blog"}
  BY DEF CardPage, AnyTexts
<1>2. p.categories \in Seq([name : Seq(CardLinks!Graphemes), icon : CardLinks!Icons])
  BY DEF CardPage, AnyTexts
<1>3. /\ title \in CleanTexts /\ CardLinks!Trim(title) # <<>> /\ CardLinks!Length(title) <= Title /\ CardLinks!Spent(p.title, Title, Total) \in Nat
      /\ CardLinks!Length(title) <= CardLinks!Spent(p.title, Title, Total) /\ CardLinks!Spent(p.title, Title, Total) <= Total
  BY <1>1, RequiredFacts
<1>4. left \in Nat /\ CardLinks!Length(title) + left <= Total /\ CardLinks!Length(title) \in Nat
  <2>. HIDE DEF title
  <2>. QED BY <1>0, <1>3, CleanFacts
<1>. HIDE DEF title, left
<1>5. body \in CleanTexts \cup {None} /\ (body # None => CardLinks!Length(body) \in Nat /\ CardLinks!Length(body) <= Body /\ CardLinks!Length(body) <= left)
      /\ (p.body # None => body # None)
  <2>1. CASE p.body = None
    BY <2>1
  <2>2. CASE p.body # None
    <3>1. p.body \in Seq(CardLinks!Graphemes) /\ body = CardLinks!Clip(p.body, Body, left)
      BY <1>1, <2>2
    <3>2. body \in CleanTexts /\ CardLinks!Length(body) <= Body /\ CardLinks!Length(body) <= left
      <4>. HIDE DEF body
      <4>. QED BY <1>0, <1>4, <3>1, ClipFacts DEF CleanTexts
    <3>. HIDE DEF body
    <3>. QED BY <1>0, <3>2, CleanFacts, CleanIsText
  <2>. QED BY <2>1, <2>2
<1>. HIDE DEF body
<1>6. rest \in Nat /\ (IF body = None THEN 0 ELSE CardLinks!Length(body)) \in Nat /\ (IF body = None THEN 0 ELSE CardLinks!Length(body)) + rest = left
  BY <1>4, <1>5
<1>. HIDE DEF rest
<1>7. remains \in Seq(KeptCategory) /\ Len(remains) <= MaxCategories /\ CardLinks!NamesLength(remains) \in Int /\ CardLinks!NamesLength(remains) <= rest
  <2>. HIDE DEF remains
  <2>. QED BY <1>2, <1>6, CategoriesFacts DEF remains
<1>8. /\ q.template = p.template /\ q.title = title /\ q.body = shown /\ q.categories = remains /\ q.score = score
      /\ q.icon = icon /\ q.image = image /\ q.time = time
      /\ q = [template |-> p.template, title |-> title, body |-> shown, categories |-> remains, score |-> score,
              icon |-> icon, image |-> image, time |-> time]
  <2>1. q = [p EXCEPT !.title = title, !.body = shown, !.categories = remains, !.score = score,
                      !.icon = icon, !.image = image, !.time = time]
    BY DEF CardLinks!Normalize, title, left, body, rest
  <2>2. p = [template |-> p.template, title |-> p.title, body |-> p.body, categories |-> p.categories,
             score |-> p.score, icon |-> p.icon, image |-> p.image, time |-> p.time]
    BY DEF CardPage
  <2>. HIDE DEF shown, remains, score, icon, image, time, q
  <2>. QED BY <2>1, <2>2
<1>9. q.score \in Lowest..Highest
  BY <1>0, <1>1, <1>8
<1>10. q.icon # "invalid" /\ q.image # "foreign" /\ q.time \in {None, "iso"}
  <2>1. icon # "invalid"
    BY <1>0
  <2>2. image # "foreign"
    BY <1>0
  <2>3. time \in {None, "iso"}
    BY <1>1 DEF CardLinks!Times
  <2>. HIDE DEF icon, image, time, q
  <2>. QED BY <1>8, <2>1, <2>2, <2>3
<1>. HIDE DEF q, remains, score, icon, image, time
<1>11. title # None /\ CardLinks!Parsed(title) = CardLinks!Trim(title) /\ CardLinks!Length(CardLinks!Parsed(title)) \in Nat /\ CardLinks!Length(CardLinks!Parsed(title)) <= CardLinks!Length(title)
  <2>1. title # None
    BY <1>0, <1>3, CleanIsText
  <2>. QED BY <1>3, <2>1, ParsedClean, CleanFacts
<1>12. CardLinks!RequiredText(q.title, Title)
  BY <1>0, <1>3, <1>4, <1>8, <1>11 DEF CardLinks!RequiredText, CardLinks!OptionalText
<1>13. /\ shown \in CleanTexts \cup {None}
       /\ shown # None => shown = body
       /\ q.template = "service" => q.body # None
  BY <1>5, <1>8
<1> DEFINE share == IF body = None THEN 0 ELSE CardLinks!Length(body)
           said == IF shown = None THEN 0 ELSE CardLinks!Length(CardLinks!Parsed(shown))
<1>14. CardLinks!OptionalText(shown, Body) /\ said \in 0..share
  <2>1. share \in Nat
    BY <1>6
  <2>2. shown # None => CardLinks!Length(shown) <= share /\ CardLinks!Length(shown) <= Body
    <3>1. CASE shown = None
      BY <3>1
    <3>2. CASE shown # None
      <4>1. shown = body /\ body # None
        BY <1>13, <3>2
      <4>. QED BY <1>5, <4>1
    <3>. QED BY <3>1, <3>2
  <2>. HIDE DEF share, shown
  <2>. QED BY <1>0, <1>13, <2>1, <2>2, ParsedBody
<1>15. ASSUME NEW i \in DOMAIN q.categories
       PROVE  q.categories[i].icon = "valid" /\ CardLinks!RequiredText(q.categories[i].name, Name)
  <2>1. q.categories[i] \in KeptCategory
    BY <1>7, <1>8
  <2>2. PICK c \in KeptCategory : c = q.categories[i]
    BY <2>1
  <2>3. /\ c.name \in CleanTexts /\ CardLinks!Trim(c.name) # <<>> /\ CardLinks!Length(c.name) <= Name /\ c.icon = "valid"
        /\ c.name # None /\ CardLinks!Parsed(c.name) = CardLinks!Trim(c.name) /\ Name \in Nat
    BY KeptCategoryFacts DEF CardLinks!Wellformed
  <2>4. CardLinks!Length(CardLinks!Trim(c.name)) <= Name
    BY <2>3, CleanFacts
  <2>. QED BY <2>2, <2>3, <2>4 DEF CardLinks!RequiredText, CardLinks!OptionalText
<1>16. CardLinks!Rendered(q) <= Total
  <2>1. CardLinks!Rendered(q) = CardLinks!Length(CardLinks!Parsed(title)) + said + CardLinks!NamesLength(remains)
    BY <1>8 DEF CardLinks!Rendered
  <2>2. share + rest = left /\ share \in Nat
    BY <1>6
  <2>. HIDE DEF said, share
  <2>. QED BY <1>0, <1>4, <1>6, <1>7, <1>11, <1>14, <2>1, <2>2
<1>17. CardLinks!Accepts(q)
  <2>1. CardLinks!OptionalText(q.body, Body)
    BY <1>8, <1>14
  <2>2. Len(q.categories) <= MaxCategories
    BY <1>7, <1>8
  <2>. QED BY <1>9, <1>10, <1>12, <1>13, <1>15, <1>16, <2>1, <2>2 DEF CardLinks!Accepts
<1>18. CardLinks!Parse(q).title = CardLinks!Trim(q.title) /\ Len(CardLinks!Parse(q).categories) = Len(q.categories)
  <2> DEFINE names == [i \in DOMAIN q.categories |-> CardLinks!ParsedCategory(q.categories[i])]
  <2>1. CardLinks!Parse(q) = [template |-> q.template, title |-> CardLinks!Parsed(q.title), body |-> CardLinks!Parsed(q.body), categories |-> names,
                    score |-> q.score, icon |-> q.icon, image |-> q.image, time |-> q.time]
    <3>1. CardLinks!Parse(q) = [q EXCEPT !.title = CardLinks!Parsed(q.title), !.body = CardLinks!Parsed(q.body), !.categories = names]
      BY DEF CardLinks!Parse
    <3>. HIDE DEF names
    <3>. QED BY <1>8, <3>1
  <2>2. Len(names) = Len(remains)
    <3>1. DOMAIN q.categories = 1..Len(remains) /\ Len(remains) \in Nat
      BY <1>7, <1>8
    <3>. QED BY <3>1
  <2>. HIDE DEF names
  <2>3. CardLinks!Parse(q).title = CardLinks!Parsed(q.title) /\ CardLinks!Parse(q).categories = names
    BY <2>1
  <2>. QED BY <1>8, <1>11, <2>2, <2>3
<1>. QED BY <1>17, <1>18 DEF q

\* Nothing is signed or drawn at first.
LEMMA LinksInit == CardLinks!Wellformed /\ CardLinks!Init => CardLinks!IInv
BY DEF CardLinks!Init, CardLinks!IInv, CardLinks!NoLink, CardLinks!Nothing

(***************************************************************************)
(* Every step keeps what is signed normalised, and what is drawn signed.   *)
(***************************************************************************)
LEMMA LinksKept ==
  ASSUME CardLinks!Wellformed, CardLinks!IInv, CardLinks!Next
  PROVE  CardLinks!IInv'
<1>1. UNCHANGED page /\ CardLinks!AnyPage'
  <2>1. UNCHANGED page
    BY DEF CardLinks!Next, CardLinks!MakeOgImageUrl, CardLinks!Alter, CardLinks!Get, CardLinks!Leave
  <2>. QED BY <2>1 DEF CardLinks!IInv, CardLinks!AnyPage
<1>2. page \in CardPage /\ (page.template = "service" => page.body # None)
  BY PageTyped DEF CardLinks!IInv
<1>3. CardLinks!Accepts(CardLinks!Normalize(page))
  BY <1>2, NormalizedIsAccepted
<1>4. CASE CardLinks!MakeOgImageUrl
  <2>1. link = CardLinks!NoLink /\ drawn = CardLinks!Nothing /\ drawn' = drawn
    BY <1>4 DEF CardLinks!MakeOgImageUrl, CardLinks!IInv
  <2>2. link'.signed /\ link'.data = CardLinks!Normalize(page) /\ link' # CardLinks!NoLink
    BY <1>4 DEF CardLinks!MakeOgImageUrl, CardLinks!NoLink
  <2>3. drawn'.answer = "none"
    BY <2>1 DEF CardLinks!Nothing
  <2>. QED BY <1>1, <2>1, <2>2, <2>3 DEF CardLinks!IInv
<1>5. CASE CardLinks!Alter
  <2>1. drawn = CardLinks!Nothing /\ drawn' = CardLinks!Nothing /\ drawn'.answer = "none" /\ ~link'.signed
    BY <1>5 DEF CardLinks!Alter, CardLinks!Nothing
  <2>. QED BY <1>1, <2>1 DEF CardLinks!IInv
<1>6. CASE CardLinks!Get
  <2>1. link' = link /\ link # CardLinks!NoLink
    BY <1>6 DEF CardLinks!Get, CardLinks!NoLink
  <2>2. link.signed => link.data = CardLinks!Normalize(page)
    BY DEF CardLinks!IInv
  <2>3. link.signed => drawn' = [answer |-> "card", data |-> CardLinks!Parse(link.data)]
    BY <1>3, <1>6, <2>2 DEF CardLinks!Get
  <2>. QED BY <1>1, <2>1, <2>2, <2>3 DEF CardLinks!IInv
<1>7. CASE CardLinks!Leave
  <2>1. link' = CardLinks!NoLink /\ drawn' = CardLinks!Nothing /\ ~link'.signed
    BY <1>7 DEF CardLinks!Leave, CardLinks!NoLink
  <2>. QED BY <1>1, <2>1 DEF CardLinks!IInv
<1>. QED BY <1>4, <1>5, <1>6, <1>7 DEF CardLinks!Next

(***************************************************************************)
(* So what is signed is drawn.                                             *)
(***************************************************************************)
LEMMA LinksDrawn == CardLinks!Wellformed /\ CardLinks!IInv => CardLinks!SignedCardsAreDrawn
<1> SUFFICES ASSUME CardLinks!Wellformed, CardLinks!IInv, drawn.answer # "none", link.signed
             PROVE  /\ drawn.answer = "card"
                    /\ drawn.data.title = CardLinks!Trim(link.data.title)
                    /\ Len(drawn.data.categories) = Len(link.data.categories)
  BY DEF CardLinks!SignedCardsAreDrawn
<1>1. drawn.answer = "card" /\ drawn.data = CardLinks!Parse(CardLinks!Normalize(page)) /\ link.data = CardLinks!Normalize(page)
  BY DEF CardLinks!IInv
<1>2. page \in CardPage /\ (page.template = "service" => page.body # None)
  BY PageTyped DEF CardLinks!IInv
<1>. QED BY <1>1, <1>2, NormalizedIsAccepted

-----------------------------------------------------------------------------
(* Search *)

\* Search counts, sorts and filters as the library does.
LEMMA SearchLibrary ==
  /\ \A S : Find!Cardinality(S) = Cardinality(S)
  /\ \A S, R : Find!SortedBy(S, R) = SortedBy(S, R)
  /\ \A array, S : Find!Only(array, S) = Only(array, S)
<1>1. \A S : Find!Cardinality(S) = Cardinality(S)
  BY DEF Find!Cardinality, Cardinality
<1>2. \A S, R : Find!SortedBy(S, R) = SortedBy(S, R)
  BY DEF Find!SortedBy, SortedBy, Find!Before, Before, Find!Cardinality, Cardinality
<1>3. \A array, S : Find!Only(array, S) = Only(array, S)
  BY DEF Find!Only, Only
<1>. QED BY <1>1, <1>2, <1>3

\* There are finitely many services, and as many numbers of each seed.
LEMMA SitesFinite ==
  ASSUME Find!Wellformed
  PROVE  /\ IsFiniteSet(DOMAIN Sites) /\ DOMAIN Sites \subseteq Nat
         /\ \A sd \in DOMAIN Draws, n \in 1..Cardinality(DOMAIN Sites) : Draws[sd][n] \in Int
         /\ \A c \in Combinations : IsFiniteSet(c)
<1>1. \A S : Find!IsFiniteSet(S) = IsFiniteSet(S)
  BY DEF Find!IsFiniteSet, IsFiniteSet
<1>. QED BY <1>1, SearchLibrary DEF Find!Wellformed

\* What an array holds, as the library says it.
LEMMA ListsHold == \A s : Find!ToSet(s) = Holds(s)
BY DEF Find!ToSet, Holds

\* The attributes that have a value.
Filled(u) == {p \in Holds(u.attr) : p.value # ""}

\* Of the attributes those with a value are left.
LEMMA WithoutEmptyFacts ==
  ASSUME NEW u, Find!Sane(u)
  PROVE  /\ Find!WithoutEmpty(u) = [u EXCEPT !.attr = Only(u.attr, Filled(u))]
         /\ Only(u.attr, Filled(u)) \in Seq(Filled(u))
         /\ Holds(Only(u.attr, Filled(u))) = Filled(u)
<1>1. Find!WithoutEmpty(u) = [u EXCEPT !.attr = Only(u.attr, Filled(u))]
  BY ListsHold, SearchLibrary DEF Find!WithoutEmpty, Filled
<1>2. u.attr \in Seq(Holds(u.attr)) /\ Filled(u) \subseteq Holds(u.attr)
  BY ListsHold DEF Find!Sane, Find!IsList, Filled
<1>3. /\ Only(u.attr, Filled(u)) \in Seq(Holds(u.attr) \cap Filled(u))
      /\ Holds(Only(u.attr, Filled(u))) = Holds(u.attr) \cap Filled(u)
  <2>. HIDE DEF Filled
  <2>. QED BY <1>2, OnlyFacts
<1>4. Holds(u.attr) \cap Filled(u) = Filled(u)
  BY <1>2
<1>. QED BY <1>1, <1>3, <1>4

\* The parameters that count only with another one.
NeedsOther == [currencyMode |-> "currencies", attributeMode |-> "attr", sortSeed |-> "page"]
\* A parameter without its empty values.
LeftOf(u, k) == IF k = "attr" THEN Only(u.attr, Filled(u)) ELSE u[k]
\* What cleaning takes away.
IsIdle(u, k) ==
  \/ k \in {"verification", "sort", "maxKyc"} /\ Find!IsDefault(u, k)
  \/ k \in DOMAIN NeedsOther /\ LeftOf(u, NeedsOther[k]) = <<>>

\* Cleaning a URL, parameter by parameter.
LEMMA CleanKeeps ==
  ASSUME NEW u, Find!Sane(u)
  PROVE  Find!Clean(u) = [k \in Find!Keys |-> IF IsIdle(u, k) THEN <<>> ELSE LeftOf(u, k)]
<1> DEFINE w == Find!WithoutEmpty(u)
           idle == {k \in {"verification", "sort", "maxKyc"} : Find!IsDefault(u, k)} \cup {k \in DOMAIN NeedsOther : w[NeedsOther[k]] = <<>>}
<1>1. w = [k \in Find!Keys |-> LeftOf(u, k)]
  <2>1. u = [k \in Find!Keys |-> u[k]] /\ "attr" \in Find!Keys
    BY DEF Find!Sane, Find!Keys
  <2>2. w = [u EXCEPT !.attr = Only(u.attr, Filled(u))]
    BY WithoutEmptyFacts
  <2>. HIDE DEF w
  <2>. QED BY <2>1, <2>2 DEF LeftOf
<1>2. Find!Clean(u) = [k \in Find!Keys |-> IF k \in idle THEN <<>> ELSE w[k]]
  BY DEF Find!Clean, Find!WithoutIdle, NeedsOther
<1>3. \A k \in DOMAIN NeedsOther : NeedsOther[k] \in Find!Keys
  BY DEF NeedsOther, Find!Keys
<1>. HIDE DEF w
<1>4. \A k \in Find!Keys : k \in idle <=> IsIdle(u, k)
  BY <1>1, <1>3 DEF IsIdle
<1>. HIDE DEF idle
<1>. QED BY <1>1, <1>2, <1>4

\* What cleaning makes of each parameter.
LEMMA CleanFields ==
  ASSUME NEW u, Find!Sane(u), NEW c, c = Find!Clean(u)
  PROVE  /\ c = [k \in Find!Keys |-> c[k]]
         /\ c.categories = u.categories /\ c.currencies = u.currencies /\ c.page = u.page
         /\ c.attr = Only(u.attr, Filled(u))
         /\ c.verification = IF Find!IsDefault(u, "verification") THEN <<>> ELSE u.verification
         /\ c.sort = IF Find!IsDefault(u, "sort") THEN <<>> ELSE u.sort
         /\ c.maxKyc = IF Find!IsDefault(u, "maxKyc") THEN <<>> ELSE u.maxKyc
         /\ c.currencyMode = IF u.currencies = <<>> THEN <<>> ELSE u.currencyMode
         /\ c.attributeMode = IF Only(u.attr, Filled(u)) = <<>> THEN <<>> ELSE u.attributeMode
         /\ c.sortSeed = IF u.page = <<>> THEN <<>> ELSE u.sortSeed
<1>1. c = [k \in Find!Keys |-> IF IsIdle(u, k) THEN <<>> ELSE LeftOf(u, k)]
  BY CleanKeeps
<1>2. \A k \in Find!Keys : c[k] = IF IsIdle(u, k) THEN <<>> ELSE LeftOf(u, k)
  BY <1>1
<1>3. /\ ~IsIdle(u, "categories") /\ ~IsIdle(u, "currencies") /\ ~IsIdle(u, "page") /\ ~IsIdle(u, "attr")
      /\ \A k \in {"verification", "sort", "maxKyc"} : IsIdle(u, k) <=> Find!IsDefault(u, k)
  BY DEF IsIdle, NeedsOther
<1>4. /\ IsIdle(u, "currencyMode") <=> LeftOf(u, "currencies") = <<>>
      /\ IsIdle(u, "attributeMode") <=> LeftOf(u, "attr") = <<>>
      /\ IsIdle(u, "sortSeed") <=> LeftOf(u, "page") = <<>>
  BY DEF IsIdle, NeedsOther
<1>5. \A k \in Find!Keys : LeftOf(u, k) = IF k = "attr" THEN Only(u.attr, Filled(u)) ELSE u[k]
  BY DEF LeftOf
<1>6. /\ {"categories", "currencies", "page", "attr", "verification", "sort", "maxKyc", "currencyMode", "attributeMode", "sortSeed"} = Find!Keys
      /\ c = [k \in Find!Keys |-> c[k]]
  BY <1>1 DEF Find!Keys
<1>. HIDE DEF Find!Keys
<1>. QED BY <1>2, <1>3, <1>4, <1>5, <1>6

\* A URL stays one.
LEMMA CleanSane ==
  ASSUME NEW u, Find!Sane(u)
  PROVE  Find!Sane(Find!Clean(u))
<1> DEFINE c == Find!Clean(u)
<1>1. /\ c = [k \in Find!Keys |-> c[k]]
      /\ c.attr = Only(u.attr, Filled(u))
      /\ c.sortSeed = IF u.page = <<>> THEN <<>> ELSE u.sortSeed
  BY CleanFields
<1>2. c.attr \in Seq(Filled(u)) /\ Holds(c.attr) = Filled(u)
  <2>. HIDE DEF c
  <2>. QED BY <1>1, WithoutEmptyFacts
<1>3. Find!IsList(c.attr)
  BY <1>2, ListsHold DEF Find!IsList
<1>. HIDE DEF c
<1>4. Find!Sane(c)
  BY <1>1, <1>3 DEF Find!Sane
<1>. QED BY <1>4 DEF c

(***************************************************************************)
(* Cleaning what was cleaned changes nothing: what is left of the          *)
(* attributes has a value, and what depends on another parameter has it.   *)
(***************************************************************************)
LEMMA CleanTwice ==
  ASSUME NEW u, Find!Sane(u)
  PROVE  Find!Clean(Find!Clean(u)) = Find!Clean(u)
<1> DEFINE c == Find!Clean(u)
           d == Find!Clean(c)
<1>0. Find!Sane(c)
  BY CleanSane
<1>1. /\ c = [k \in Find!Keys |-> c[k]]
      /\ c.attr = Only(u.attr, Filled(u))
      /\ c.verification = IF Find!IsDefault(u, "verification") THEN <<>> ELSE u.verification
      /\ c.sort = IF Find!IsDefault(u, "sort") THEN <<>> ELSE u.sort
      /\ c.maxKyc = IF Find!IsDefault(u, "maxKyc") THEN <<>> ELSE u.maxKyc
      /\ c.currencies = u.currencies /\ c.page = u.page
      /\ c.currencyMode = IF u.currencies = <<>> THEN <<>> ELSE u.currencyMode
      /\ c.attributeMode = IF Only(u.attr, Filled(u)) = <<>> THEN <<>> ELSE u.attributeMode
      /\ c.sortSeed = IF u.page = <<>> THEN <<>> ELSE u.sortSeed
  BY CleanFields
<1>2. /\ d = [k \in Find!Keys |-> d[k]]
      /\ d.categories = c.categories /\ d.currencies = c.currencies /\ d.page = c.page
      /\ d.attr = Only(c.attr, Filled(c))
      /\ d.verification = IF Find!IsDefault(c, "verification") THEN <<>> ELSE c.verification
      /\ d.sort = IF Find!IsDefault(c, "sort") THEN <<>> ELSE c.sort
      /\ d.maxKyc = IF Find!IsDefault(c, "maxKyc") THEN <<>> ELSE c.maxKyc
      /\ d.currencyMode = IF c.currencies = <<>> THEN <<>> ELSE c.currencyMode
      /\ d.attributeMode = IF Only(c.attr, Filled(c)) = <<>> THEN <<>> ELSE c.attributeMode
      /\ d.sortSeed = IF c.page = <<>> THEN <<>> ELSE c.sortSeed
  <2>. HIDE DEF c
  <2>. QED BY <1>0, CleanFields
<1>. HIDE DEF c, d
<1>3. Only(c.attr, Filled(c)) = c.attr
  <2>1. c.attr \in Seq(Filled(u)) /\ Holds(c.attr) = Filled(u)
    BY <1>1, WithoutEmptyFacts
  <2>2. Filled(c) = Filled(u)
    BY <2>1 DEF Filled
  <2>3. c.attr \in Seq(Filled(c))
    BY <2>1, <2>2
  <2>. HIDE DEF Filled
  <2>. QED BY <2>3, OnlyFacts
<1>4. /\ c.verification = u.verification => (Find!IsDefault(c, "verification") <=> Find!IsDefault(u, "verification"))
      /\ c.sort = u.sort => (Find!IsDefault(c, "sort") <=> Find!IsDefault(u, "sort"))
      /\ c.maxKyc = u.maxKyc => (Find!IsDefault(c, "maxKyc") <=> Find!IsDefault(u, "maxKyc"))
  BY DEF Find!IsDefault, Find!ListOf, Find!ValueOf
<1>5. /\ d.verification = c.verification /\ d.sort = c.sort /\ d.maxKyc = c.maxKyc
      /\ d.currencyMode = c.currencyMode /\ d.attributeMode = c.attributeMode /\ d.sortSeed = c.sortSeed
      /\ d.attr = c.attr /\ d.categories = c.categories /\ d.currencies = c.currencies /\ d.page = c.page
  BY <1>1, <1>2, <1>3, <1>4
<1>6. \A k \in Find!Keys : d[k] = c[k]
  BY <1>5 DEF Find!Keys
<1>7. d = c
  BY <1>1, <1>2, <1>6
<1>. QED BY <1>7 DEF c, d

\* A URL that is cleaned asks for the same services, in the same order, and for the same page.
LEMMA CleanFilters ==
  ASSUME NEW u, Find!Sane(u), NEW c, c = Find!Clean(u)
  PROVE  /\ Find!Matching(Find!Filters(c)) = Find!Matching(Find!Filters(u))
         /\ Find!Filters(c).sort = Find!Filters(u).sort
         /\ Find!ValueOf(c, "page") = Find!ValueOf(u, "page")
<1>1. /\ c.categories = u.categories /\ c.currencies = u.currencies /\ c.page = u.page
      /\ c.attr = Only(u.attr, Filled(u))
      /\ c.verification = IF Find!IsDefault(u, "verification") THEN <<>> ELSE u.verification
      /\ c.sort = IF Find!IsDefault(u, "sort") THEN <<>> ELSE u.sort
      /\ c.maxKyc = IF Find!IsDefault(u, "maxKyc") THEN <<>> ELSE u.maxKyc
      /\ c.currencyMode = IF u.currencies = <<>> THEN <<>> ELSE u.currencyMode
      /\ c.attributeMode = IF Only(u.attr, Filled(u)) = <<>> THEN <<>> ELSE u.attributeMode
  BY CleanFields
<1> DEFINE f == Find!Filters(c)
           g == Find!Filters(u)
<1>2. /\ f.verification = g.verification /\ f.sort = g.sort /\ f.kyc = g.kyc
      /\ f.categories = g.categories /\ f.currencies = g.currencies
      /\ Find!ValueOf(c, "page") = Find!ValueOf(u, "page")
  <2>1. Find!ListOf(c, "verification") = Find!ListOf(u, "verification")
    BY <1>1 DEF Find!ListOf, Find!IsDefault
  <2>2. Find!ValueOf(c, "sort") = Find!ValueOf(u, "sort")
    BY <1>1 DEF Find!ValueOf, Find!IsDefault
  <2>3. Find!ValueOf(c, "maxKyc") = Find!ValueOf(u, "maxKyc")
    BY <1>1 DEF Find!ValueOf, Find!IsDefault
  <2>4. Find!ListOf(c, "categories") = Find!ListOf(u, "categories") /\ Find!ListOf(c, "currencies") = Find!ListOf(u, "currencies")
    BY <1>1 DEF Find!ListOf
  <2>5. Find!ValueOf(c, "page") = Find!ValueOf(u, "page")
    BY <1>1 DEF Find!ValueOf
  <2>. QED BY <2>1, <2>2, <2>3, <2>4, <2>5 DEF Find!Filters
<1>3. f.attr = g.attr /\ (Only(u.attr, Filled(u)) = <<>> => g.attr = {})
  <2>1. Holds(c.attr) = Filled(u)
    BY <1>1, WithoutEmptyFacts
  <2>2. Filled(c) = Filled(u)
    BY <2>1 DEF Filled
  <2>3. \A v : Find!AttrOf(v) = IF \E p \in Filled(v) : p.value \notin {"yes", "no"} THEN {} ELSE Filled(v)
    BY ListsHold DEF Find!AttrOf, Filled
  <2>4. Only(u.attr, Filled(u)) = <<>> => Filled(u) = {}
    BY <1>1, <2>1 DEF Holds
  <2>5. f.attr = Find!AttrOf(c) /\ g.attr = Find!AttrOf(u)
    BY DEF Find!Filters
  <2>. HIDE DEF f, g, Filled
  <2>. QED BY <2>2, <2>3, <2>4, <2>5
<1>4. g.currencies = <<>> \/ f.every = g.every
  <2>1. CASE u.currencies = <<>>
    <3>1. g.currencies = <<>>
      BY <2>1 DEF Find!Filters, Find!ListOf, Find!Default
    <3>. QED BY <3>1
  <2>2. CASE u.currencies # <<>>
    <3>1. f.every = g.every
      BY <1>1, <2>2 DEF Find!Filters, Find!ValueOf
    <3>. QED BY <3>1
  <2>. QED BY <2>1, <2>2
<1>5. g.attr = {} \/ f.both = g.both
  <2>1. CASE Only(u.attr, Filled(u)) = <<>>
    BY <1>3, <2>1
  <2>2. CASE Only(u.attr, Filled(u)) # <<>>
    <3>1. f.both = g.both
      BY <1>1, <2>2 DEF Find!Filters, Find!ValueOf
    <3>. QED BY <3>1
  <2>. QED BY <2>1, <2>2
<1>. HIDE DEF f, g
<1>6. ASSUME NEW s PROVE Find!HasAttributes(f, s) <=> Find!HasAttributes(g, s)
  BY <1>3, <1>5 DEF Find!HasAttributes
<1>7. ASSUME NEW s PROVE Find!Fits(f, s) <=> Find!Fits(g, s)
  <2>. HIDE DEF Find!HasAttributes
  <2>. QED BY <1>2, <1>4, <1>6 DEF Find!Fits
<1>8. Find!Matching(f) = Find!Matching(g)
  <2>. HIDE DEF Find!Fits
  <2>. QED BY <1>2, <1>7 DEF Find!Matching
<1>. QED BY <1>2, <1>8 DEF f, g

\* Pages but the last one end before the last service, and the last one does not.
LEMMA PageCount ==
  ASSUME NEW n \in Nat, NEW s \in Nat \ {0}, NEW p \in Nat
  PROVE  /\ p < (n + s - 1) \div s => p * s < n
         /\ p = (n + s - 1) \div s => n <= p * s
<1> DEFINE P == (n + s - 1) \div s
           r == (n + s - 1) % s
<1>1. P \in Int /\ r \in 0..s - 1 /\ n + s - 1 = s * P + r
  OBVIOUS
<1>. HIDE DEF P, r
<1>2. ASSUME p < P PROVE p * s < n
  <2>1. p + 1 <= P
    BY <1>1, <1>2
  <2>2. s * (p + 1) <= s * P
    BY <1>1, <2>1
  <2>3. s * (p + 1) = p * s + s /\ p * s \in Int /\ s * P \in Int
    BY <1>1
  <2>. QED BY <1>1, <2>2, <2>3
<1>3. ASSUME p = P PROVE n <= p * s
  <2>1. s * P = p * s /\ p * s \in Int
    BY <1>3
  <2>. QED BY <1>1, <2>1
<1>. QED BY <1>2, <1>3 DEF P

(***************************************************************************)
(* The pages up to one are the start of the whole order, and the slice of a*)
(* page continues those before it.                                         *)
(***************************************************************************)
LEMMA Pieces ==
  ASSUME NEW A, NEW seq \in Seq(A), NEW p \in Nat \ {0}, PageSize \in Nat \ {0}
  PROVE  /\ Find!Slice(seq, 1) = SubSeq(seq, 1, Find!UpTo(seq, 1))
         /\ (p - 1) * PageSize < Len(seq) =>
              SubSeq(seq, 1, Find!UpTo(seq, p - 1)) \o Find!Slice(seq, p) = SubSeq(seq, 1, Find!UpTo(seq, p))
         /\ Len(seq) <= p * PageSize => SubSeq(seq, 1, Find!UpTo(seq, p)) = seq
         /\ Find!UpTo(seq, p) \in 0..Len(seq)
<1> DEFINE N == Len(seq)
           a == (p - 1) * PageSize
           b == p * PageSize
<1>1. N \in Nat /\ a \in Nat /\ b = a + PageSize /\ b \in Nat
  OBVIOUS
<1>2. Find!UpTo(seq, p) = (IF N < b THEN N ELSE b) /\ Find!UpTo(seq, p - 1) = (IF N < a THEN N ELSE a)
  BY DEF Find!UpTo
<1>3. Find!Slice(seq, p) = SubSeq(seq, a + 1, Find!UpTo(seq, p))
  BY DEF Find!Slice
<1>4. Find!Slice(seq, 1) = SubSeq(seq, 1, Find!UpTo(seq, 1))
  <2>1. (1 - 1) * PageSize + 1 = 1
    OBVIOUS
  <2>. QED BY <2>1 DEF Find!Slice
<1>. HIDE DEF a, b
<1>5. Find!UpTo(seq, p) \in 0..N
  BY <1>1, <1>2
<1>6. ASSUME N <= b PROVE SubSeq(seq, 1, Find!UpTo(seq, p)) = seq
  <2>1. Find!UpTo(seq, p) = N
    BY <1>1, <1>2, <1>6
  <2>. QED BY <2>1, SubSeqFull
<1>7. ASSUME a < N PROVE SubSeq(seq, 1, Find!UpTo(seq, p - 1)) \o Find!Slice(seq, p) = SubSeq(seq, 1, Find!UpTo(seq, p))
  <2> DEFINE e == Find!UpTo(seq, p)
             s == SubSeq(seq, 1, a)
             t == SubSeq(seq, a + 1, e)
             w == SubSeq(seq, 1, e)
  <2>1. Find!UpTo(seq, p - 1) = a /\ e \in a..N /\ e \in Nat
    BY <1>1, <1>2, <1>7
  <2>. HIDE DEF e
  <2>2. s \in Seq(A) /\ Len(s) = a /\ \A i \in 1..a : s[i] = seq[i]
    BY <1>1, <1>7
  <2>3. t \in Seq(A) /\ Len(t) = e - a /\ \A i \in 1..e - a : t[i] = seq[a + i]
    BY <1>1, <1>7, <2>1
  <2>4. w \in Seq(A) /\ Len(w) = e /\ \A i \in 1..e : w[i] = seq[i]
    BY <1>1, <1>7, <2>1
  <2>. HIDE DEF s, t, w
  <2>5. /\ s \o t \in Seq(A) /\ Len(s \o t) = e
        /\ \A i \in 1..e : (s \o t)[i] = IF i <= a THEN s[i] ELSE t[i - a]
    <3>1. /\ s \o t \in Seq(A) /\ Len(s \o t) = Len(s) + Len(t)
          /\ \A i \in 1..Len(s) + Len(t) : (s \o t)[i] = IF i <= Len(s) THEN s[i] ELSE t[i - Len(s)]
      BY <2>2, <2>3, ConcatProperties
    <3>. QED BY <1>1, <2>1, <2>2, <2>3, <3>1
  <2> DEFINE both == s \o t
  <2>. HIDE DEF both
  <2>6. both \in Seq(A) /\ Len(both) = e /\ \A i \in 1..e : both[i] = IF i <= a THEN s[i] ELSE t[i - a]
    BY <2>5 DEF both
  <2>60. ASSUME NEW i \in 1..e PROVE both[i] = w[i]
    <3>0. i \in Int /\ w[i] = seq[i]
      BY <2>4
    <3>1. CASE i <= a
      <4>1. i \in 1..a
        BY <1>1, <2>1, <3>1
      <4>2. both[i] = IF i <= a THEN s[i] ELSE t[i - a]
        BY <2>6
      <4>. QED BY <2>2, <2>4, <3>1, <4>1, <4>2
    <3>2. CASE ~(i <= a)
      <4>1. i - a \in 1..e - a /\ a + (i - a) = i
        BY <1>1, <2>1, <3>2
      <4>2. both[i] = t[i - a]
        <5>1. both[i] = IF i <= a THEN s[i] ELSE t[i - a]
          BY <2>6
        <5>. QED BY <3>2, <5>1
      <4>. QED BY <2>3, <2>4, <4>1, <4>2
    <3>. QED BY <3>1, <3>2
  <2>7. both = w
    <3>1. both \in Seq(A) /\ w \in Seq(A) /\ Len(both) = Len(w)
      BY <2>4, <2>6
    <3>2. \A i \in 1..Len(both) : both[i] = w[i]
      BY <2>6, <2>60
    <3>. QED BY <3>1, <3>2, SeqEqual
  <2>. QED BY <1>3, <2>1, <2>7 DEF s, t, w, e, both
<1>. QED BY <1>4, <1>5, <1>6, <1>7 DEF a, b

\* What matches is sorted: each service is there once.
LEMMA SortedFacts ==
  ASSUME Find!Wellformed, NEW f, NEW found \in SUBSET DOMAIN Sites, NEW sd \in DOMAIN Draws
  PROVE  /\ Find!Sorted(f, found, sd) \in Seq(found)
         /\ Len(Find!Sorted(f, found, sd)) = Cardinality(found) /\ Cardinality(found) \in Nat
         /\ \A k, l \in 1..Cardinality(found) : Find!Sorted(f, found, sd)[k] = Find!Sorted(f, found, sd)[l] => k = l
         /\ Holds(Find!Sorted(f, found, sd)) = found
<1> DEFINE R == {p \in found \X found : Find!Above(f, found, sd, p[1], p[2])}
           upto(i) == {j \in found : j <= i}
           draw == [i \in found |-> Find!Draw(i, found, sd)]
           scam == [i \in found |-> IF Sites[i].verification = "scam" THEN 1 ELSE 0]
           score == [i \in found |-> IF f.sort = "score-desc" THEN 0 - Sites[i].score ELSE Sites[i].score]
           N == Cardinality(found)
<1>1. found \subseteq Nat /\ IsFiniteSet(found) /\ N \in Nat /\ N <= Cardinality(DOMAIN Sites)
      /\ Cardinality(DOMAIN Sites) \in Nat
  BY FS_Subset, FS_CardinalityType, SitesFinite
<1>2. ASSUME NEW i \in found
      PROVE  upto(i) \in SUBSET found /\ i \in upto(i) /\ IsFiniteSet(upto(i)) /\ Cardinality(upto(i)) \in 1..N
  <2>1. upto(i) \in SUBSET found /\ i \in upto(i)
    BY <1>1
  <2>. HIDE DEF upto
  <2>2. IsFiniteSet(upto(i)) /\ Cardinality(upto(i)) <= N
    BY <1>1, <2>1, FS_Subset
  <2>3. Cardinality(upto(i)) \in Nat /\ Cardinality(upto(i)) # 0
    BY <2>1, <2>2, FS_CardinalityType, FS_EmptySet
  <2>. QED BY <1>1, <2>1, <2>2, <2>3
<1>4. \A i \in found : draw[i] \in Int
  <2>1. \A i \in found : draw[i] = Draws[sd][Cardinality(upto(i))]
    BY SearchLibrary DEF Find!Draw
  <2>2. \A n \in 1..N : Draws[sd][n] \in Int
    <3>1. 1..N \subseteq 1..Cardinality(DOMAIN Sites)
      BY <1>1
    <3>. QED BY <3>1, SitesFinite
  <2>. HIDE DEF draw, upto, N
  <2>. QED BY <1>2, <2>1, <2>2
<1>5. \A i \in found : scam[i] \in Int /\ score[i] \in Int
  BY DEF Find!Wellformed
<1>6. \A i, j \in found : <<i, j>> \in R <=>
        \/ scam[i] < scam[j]
        \/ scam[i] = scam[j] /\ score[i] < score[j]
        \/ scam[i] = scam[j] /\ ~(score[j] < score[i]) /\ (draw[i] < draw[j] \/ (draw[i] = draw[j] /\ i < j))
  <2>1. ASSUME NEW i \in found, NEW j \in found
        PROVE  Find!Above(f, found, sd, i, j) <=>
                 \/ scam[i] < scam[j]
                 \/ scam[i] = scam[j] /\ score[i] < score[j]
                 \/ scam[i] = scam[j] /\ ~(score[j] < score[i]) /\ (draw[i] < draw[j] \/ (draw[i] = draw[j] /\ i < j))
    <3>1. Sites[i].score \in Int /\ Sites[j].score \in Int
      BY DEF Find!Wellformed
    <3>2. /\ score[i] < score[j] <=> (IF f.sort = "score-desc" THEN Sites[i].score > Sites[j].score
                                                           ELSE Sites[i].score < Sites[j].score)
          /\ score[j] < score[i] <=> (IF f.sort = "score-desc" THEN Sites[j].score > Sites[i].score
                                                           ELSE Sites[j].score < Sites[i].score)
      BY <3>1
    <3>3. /\ scam[i] = IF Sites[i].verification = "scam" THEN 1 ELSE 0
          /\ scam[j] = IF Sites[j].verification = "scam" THEN 1 ELSE 0
          /\ draw[i] = Find!Draw(i, found, sd) /\ draw[j] = Find!Draw(j, found, sd)
      OBVIOUS
    <3>. HIDE DEF scam, score, draw
    <3>. QED BY <3>2, <3>3 DEF Find!Above
  <2>. HIDE DEF scam, score, draw
  <2>. QED BY <2>1
<1>7. StrictOrder(found, R)
  <2>. HIDE DEF R, scam, score, draw
  <2>1. \A i \in found : <<i, i>> \notin R
    BY <1>1, <1>4, <1>5, <1>6
  <2>2. \A i, j \in found : i # j => <<i, j>> \in R \/ <<j, i>> \in R
    BY <1>1, <1>4, <1>5, <1>6
  <2>3. ASSUME NEW i \in found, NEW j \in found, NEW k \in found, <<i, j>> \in R, <<j, k>> \in R PROVE <<i, k>> \in R
    BY <1>1, <1>4, <1>5, <1>6, <2>3
  <2>. QED BY <2>1, <2>2, <2>3 DEF StrictOrder
<1>8. Find!Sorted(f, found, sd) = SortedBy(found, R)
  BY SearchLibrary DEF Find!Sorted
<1> DEFINE order == SortedBy(found, R)
<1>. HIDE DEF R, N
<1>9. /\ order \in [1..N -> found]
      /\ \A k, l \in 1..N : k < l <=> <<order[k], order[l]>> \in R
      /\ \A i \in found : \E k \in 1..N : order[k] = i
  BY <1>1, <1>7, InOrder DEF N
<1>. HIDE DEF order
<1>10. order \in Seq(found) /\ Len(order) = N /\ DOMAIN order = 1..N
  BY <1>1, <1>9
<1>11. \A k, l \in 1..N : order[k] = order[l] => k = l
  <2>1. ASSUME NEW k \in 1..N, NEW l \in 1..N, order[k] = order[l], k # l PROVE FALSE
    <3>1. k < l \/ l < k
      BY <1>1, <2>1
    <3>2. <<order[k], order[k]>> \in R
      BY <1>9, <2>1, <3>1
    <3>3. order[k] \in found
      BY <1>9
    <3>. QED BY <1>7, <3>2, <3>3 DEF StrictOrder
  <2>. QED BY <2>1
<1>12. Holds(order) = found
  BY <1>9, <1>10 DEF Holds
<1>. QED BY <1>1, <1>8, <1>10, <1>11, <1>12 DEF N, order

\* Rows in whatever order are the services that match.
LEMMA RowsHoldThem ==
  ASSUME NEW found, IsFiniteSet(found), NEW list \in Find!SetToSeqs(found)
  PROVE  Find!ToSet(list) = found
<1> DEFINE N == Cardinality(found)
<1>1. N \in Nat /\ IsFiniteSet(1..N) /\ Cardinality(1..N) = N
  BY FS_CardinalityType, FS_Interval
<1>2. list \in [1..N -> found] /\ \A i, j \in 1..N : i # j => list[i] # list[j]
  BY SearchLibrary DEF Find!SetToSeqs
<1>. HIDE DEF N
<1>3. list \in Injection(1..N, found)
  BY <1>2 DEF Injection, IsInjective
<1>4. list \in Surjection(1..N, found)
  BY <1>1, <1>3, FS_Injection DEF N
<1>. QED BY <1>2, <1>4 DEF Surjection, Find!ToSet

\* Links are URLs.
LEMMA LinksSane ==
  ASSUME Find!Wellformed, NEW u \in Find!Links
  PROVE  Find!Sane(u)
<1>1. u \in [verification : Params.verification, sort : Params.sort, categories : Params.categories,
             currencies : Params.currencies, currencyMode : Params.mode, attr : Params.attr,
             attributeMode : Params.mode, maxKyc : Params.maxKyc, page : Params.page, sortSeed : Params.sortSeed]
  BY DEF Find!Links
<1>2. u.attr \in Params.attr /\ u.sortSeed \in Params.sortSeed
  BY <1>1
<1>3. u = [k \in Find!Keys |-> u[k]]
  BY <1>1 DEF Find!Keys
<1>. QED BY <1>2, <1>3 DEF Find!Sane, Find!Wellformed

\* What matches is finite.
LEMMA MatchingFacts ==
  ASSUME Find!Wellformed, public \subseteq DOMAIN Sites, NEW f
  PROVE  Find!Matching(f) \in SUBSET DOMAIN Sites /\ IsFiniteSet(Find!Matching(f)) /\ Cardinality(Find!Matching(f)) \in Nat
<1>1. Find!Matching(f) \in SUBSET DOMAIN Sites
  BY DEF Find!Matching
<1>. QED BY <1>1, FS_Subset, FS_CardinalityType, SitesFinite

\* The order of services depends on how to sort, and on the seed.
LEMMA SameOrder == \A f, g, found, sd : f.sort = g.sort => Find!Sorted(f, found, sd) = Find!Sorted(g, found, sd)
BY DEF Find!Sorted, Find!Above

\* A page has a number from 1.
LEMMA PageNumber == \A u : Find!ValueOf(u, "page") \in Nat \ {0}
BY DEF Find!ValueOf, Find!Valid, Find!Default

\* Nothing was met before the first page.
LEMMA SearchInit == Find!Wellformed /\ Find!Init => Find!IInv
BY LinksSane DEF Find!Init, Find!IInv

\* A redirect keeps what is asked for, and there is no second one.
LEMMA RedirectKept ==
  ASSUME Find!Wellformed, Find!IInv, Find!Redirect
  PROVE  Find!IInv'
<1> DEFINE c == Find!Clean(address)
<1>1. Find!Sane(address) /\ Find!Sane(wanted)
  BY DEF Find!IInv
<1>2. redirects = 0 /\ address = wanted
  <2>1. ASSUME address = Find!Clean(wanted) PROVE FALSE
    <3>1. Find!Clean(address) = address
      BY <1>1, <2>1, CleanTwice
    <3>. QED BY <3>1 DEF Find!Redirect
  <2>. QED BY <2>1 DEF Find!IInv
<1>3. address' = c /\ redirects' = 1 /\ wanted' = wanted /\ public' = public /\ reading' = "asked" /\ seed' = seed /\ met' = met /\ reading = "asked"
  BY <1>2 DEF Find!Redirect
<1>4. Find!Sane(c)
  BY <1>1, CleanSane
<1>5. met' # None => Find!MetSoFar'
  <2> SUFFICES ASSUME met # None PROVE Find!MetSoFar'
    BY <1>3
  <2> DEFINE f == Find!Filters(address)
             g == Find!Filters(c)
             pg == Find!ValueOf(address, "page")
             order == Find!Sorted(f, Find!Matching(f), seed)
  <2>1. /\ seed \in DOMAIN Draws
        /\ address.page # <<>> /\ address.sortSeed # <<>> /\ Head(address.sortSeed) = seed
        /\ pg > 1 /\ pg - 1 < Find!Pages(f)
        /\ met = SubSeq(order, 1, Find!UpTo(order, pg - 1))
    BY <1>3 DEF Find!IInv, Find!MetSoFar
  <2>2. c.page = address.page /\ c.sortSeed = IF address.page = <<>> THEN <<>> ELSE address.sortSeed
    BY <1>1, CleanFields
  <2>3. Find!Matching(g) = Find!Matching(f) /\ g.sort = f.sort /\ Find!ValueOf(c, "page") = pg
    BY <1>1, CleanFilters
  <2>. HIDE DEF f, g, c
  <2>4. Find!Pages(g) = Find!Pages(f) /\ Find!Sorted(g, Find!Matching(g), seed) = order
    BY <2>3, SameOrder DEF Find!Pages
  <2>5. Find!MetSoFar' <=>
          /\ seed \in DOMAIN Draws
          /\ c.page # <<>> /\ c.sortSeed # <<>> /\ Head(c.sortSeed) = seed
          /\ Find!ValueOf(c, "page") > 1 /\ Find!ValueOf(c, "page") - 1 < Find!Pages(g)
          /\ met = SubSeq(Find!Sorted(g, Find!Matching(g), seed), 1, Find!UpTo(Find!Sorted(g, Find!Matching(g), seed), Find!ValueOf(c, "page") - 1))
    BY <1>3 DEF Find!MetSoFar, g, Find!Matching, Find!Pages
  <2>. QED BY <2>1, <2>2, <2>3, <2>4, <2>5
<1>. QED BY <1>1, <1>2, <1>3, <1>4, <1>5 DEF Find!IInv

\* The page that is shown continues those before it, in the order of their seed.
LEMMA PageShown ==
  ASSUME Find!Wellformed, Find!IInv, Find!Show
  PROVE  Find!IInv'
<1> DEFINE f == Find!Filters(address)
           pg == Find!ValueOf(address, "page")
<1>1. Find!Sane(address) /\ Find!Sane(wanted) /\ public \subseteq DOMAIN Sites /\ PageSize \in Nat \ {0}
  BY DEF Find!IInv, Find!Wellformed
<1>2. /\ reading = "asked" /\ Find!Clean(address) = address /\ reading' = "shown"
      /\ public' = public /\ address' = address /\ wanted' = wanted /\ redirects' = redirects
  BY DEF Find!Show
<1>3. PICK list \in Find!SetToSeqs(Find!Matching(f)), fresh \in DOMAIN Draws :
        LET sd == IF address.page # <<>> /\ address.sortSeed # <<>> THEN Head(address.sortSeed) ELSE fresh
            shown == Find!Slice(Find!Sorted(f, Find!ToSet(list), sd), pg)
        IN /\ seed' = sd
           /\ met' = IF pg = 1 THEN shown ELSE IF met = None THEN None ELSE met \o shown
  BY DEF Find!Show
<1> DEFINE sd == IF address.page # <<>> /\ address.sortSeed # <<>> THEN Head(address.sortSeed) ELSE fresh
           order == Find!Sorted(f, Find!Matching(f), sd)
           shown == Find!Slice(order, pg)
<1>4. Find!ToSet(list) = Find!Matching(f)
  <2>. HIDE DEF f
  <2>. QED BY <1>1, MatchingFacts, RowsHoldThem
<1>5. seed' = sd /\ met' = IF pg = 1 THEN shown ELSE IF met = None THEN None ELSE met \o shown
  BY <1>3, <1>4
<1>6. sd \in DOMAIN Draws
  BY <1>1 DEF Find!Sane
<1>. HIDE DEF sd, f, pg
<1>7. pg \in Nat \ {0}
  BY PageNumber DEF pg
<1>8. /\ order \in Seq(Find!Matching(f)) /\ Len(order) = Cardinality(Find!Matching(f)) /\ Cardinality(Find!Matching(f)) \in Nat
  BY <1>1, <1>6, MatchingFacts, SortedFacts
<1>. HIDE DEF order
<1>9. /\ Find!Slice(order, 1) = SubSeq(order, 1, Find!UpTo(order, 1))
      /\ (pg - 1) * PageSize < Len(order) =>
           SubSeq(order, 1, Find!UpTo(order, pg - 1)) \o Find!Slice(order, pg) = SubSeq(order, 1, Find!UpTo(order, pg))
  BY <1>1, <1>7, <1>8, Pieces
<1>10. ASSUME met' # None PROVE met' = SubSeq(order, 1, Find!UpTo(order, pg))
  <2>1. CASE pg = 1
    BY <1>5, <1>9, <2>1
  <2>2. CASE pg # 1
    <3>1. met # None /\ met' = met \o shown
      BY <1>5, <1>10, <2>2
    <3>2. /\ address.page # <<>> /\ address.sortSeed # <<>> /\ Head(address.sortSeed) = seed
          /\ pg - 1 < Find!Pages(f)
          /\ met = SubSeq(Find!Sorted(f, Find!Matching(f), seed), 1, Find!UpTo(Find!Sorted(f, Find!Matching(f), seed), pg - 1))
      BY <1>2, <3>1 DEF Find!IInv, Find!MetSoFar, f, pg
    <3>3. sd = seed
      BY <3>2 DEF sd
    <3>4. met = SubSeq(order, 1, Find!UpTo(order, pg - 1))
      BY <3>2, <3>3 DEF order
    <3>5. pg - 1 \in Nat
      BY <1>7
    <3>6. (pg - 1) * PageSize < Len(order)
      BY <1>1, <1>8, <3>2, <3>5, PageCount, SearchLibrary DEF Find!Pages
    <3>. QED BY <1>9, <3>1, <3>4, <3>6
  <2>. QED BY <2>1, <2>2
<1>11. met' # None => Find!MetSoFar'
  <2>1. Find!MetSoFar' <=> sd \in DOMAIN Draws /\ met' = SubSeq(order, 1, Find!UpTo(order, pg))
    BY <1>2, <1>5 DEF Find!MetSoFar, f, pg, order, Find!Matching
  <2>. QED BY <1>6, <1>10, <2>1
<1>12. seed' \in DOMAIN Draws
  BY <1>5, <1>6
<1>. QED BY <1>1, <1>2, <1>11, <1>12 DEF Find!IInv

\* The next page is asked for with the seed of this one.
LEMMA NextAsked ==
  ASSUME Find!Wellformed, Find!IInv, Find!NextPage
  PROVE  Find!IInv'
<1> DEFINE f == Find!Filters(address)
           pg == Find!ValueOf(address, "page")
           u == [address EXCEPT !.page = <<pg + 1>>, !.sortSeed = <<seed>>]
<1>1. /\ Find!Sane(address) /\ public \subseteq DOMAIN Sites /\ PageSize \in Nat \ {0}
      /\ reading = "shown" /\ seed \in DOMAIN Draws /\ pg < Find!Pages(f)
  BY DEF Find!IInv, Find!NextPage, Find!Wellformed
<1>2. /\ address' = u /\ wanted' = u /\ redirects' = 0 /\ reading' = "asked"
      /\ public' = public /\ seed' = seed /\ met' = met
  BY DEF Find!NextPage
<1>3. pg \in Nat \ {0}
  BY PageNumber
<1>4. /\ u = [k \in Find!Keys |-> u[k]]
      /\ u.page = <<pg + 1>> /\ u.sortSeed = <<seed>>
      /\ \A k \in Find!Keys \ {"page", "sortSeed"} : u[k] = address[k]
  <2>1. address = [k \in Find!Keys |-> address[k]] /\ "page" \in Find!Keys /\ "sortSeed" \in Find!Keys
    BY <1>1 DEF Find!Sane, Find!Keys
  <2>. HIDE DEF pg
  <2>. QED BY <2>1
<1>. HIDE DEF u
<1>5. /\ u.attr = address.attr /\ u.verification = address.verification /\ u.categories = address.categories /\ u.currencies = address.currencies
      /\ u.currencyMode = address.currencyMode /\ u.attributeMode = address.attributeMode /\ u.maxKyc = address.maxKyc /\ u.sort = address.sort
  BY <1>4 DEF Find!Keys
<1>6. u.page # <<>> /\ u.sortSeed # <<>> /\ Head(u.sortSeed) = seed /\ Head(u.page) = pg + 1
  <2>. HIDE DEF pg
  <2>. QED BY <1>4
<1>7. Find!Sane(u)
  BY <1>1, <1>4, <1>5, <1>6 DEF Find!Sane
<1>8. Find!Filters(u) = f
  BY <1>5 DEF Find!Filters, Find!ListOf, Find!ValueOf, Find!AttrOf
<1>9. Find!ValueOf(u, "page") = pg + 1
  <2>1. pg + 1 \in Nat \ {0}
    BY <1>3
  <2>. HIDE DEF pg
  <2>. QED BY <1>6, <2>1 DEF Find!ValueOf, Find!Valid
<1>10. met # None => met = SubSeq(Find!Sorted(f, Find!Matching(f), seed), 1, Find!UpTo(Find!Sorted(f, Find!Matching(f), seed), pg))
  BY <1>1 DEF Find!IInv, Find!MetSoFar
<1>. HIDE DEF f, pg
<1>11. (pg + 1) - 1 = pg /\ pg + 1 > 1
  BY <1>3
<1>12. met' # None => Find!MetSoFar'
  <2>1. Find!MetSoFar' <=>
          /\ seed \in DOMAIN Draws
          /\ u.page # <<>> /\ u.sortSeed # <<>> /\ Head(u.sortSeed) = seed
          /\ pg + 1 > 1 /\ (pg + 1) - 1 < Find!Pages(f)
          /\ met = SubSeq(Find!Sorted(f, Find!Matching(f), seed), 1, Find!UpTo(Find!Sorted(f, Find!Matching(f), seed), (pg + 1) - 1))
    BY <1>2, <1>8, <1>9 DEF Find!MetSoFar, Find!Matching, Find!Pages
  <2>. QED BY <1>1, <1>2, <1>6, <1>10, <1>11, <2>1
<1>. QED BY <1>1, <1>2, <1>7, <1>12 DEF Find!IInv

\* Every step of a visit keeps it.
LEMMA SearchKept == Find!Wellformed /\ Find!IInv /\ Find!Next => Find!IInv'
BY RedirectKept, PageShown, NextAsked DEF Find!Next

\* So a link is redirected once at most.
LEMMA OneRedirectIsEnough == Find!Wellformed /\ Find!IInv => Find!OneRedirect
<1> SUFFICES ASSUME Find!IInv PROVE Find!OneRedirect
  OBVIOUS
<1>1. CASE redirects = 0 /\ address = wanted
  BY <1>1 DEF Find!OneRedirect
<1>2. CASE redirects = 1 /\ address = Find!Clean(wanted)
  <2>1. Find!Matching(Find!Filters(address)) = Find!Matching(Find!Filters(wanted))
    BY <1>2, CleanFilters DEF Find!IInv
  <2>. QED BY <1>2, <2>1 DEF Find!OneRedirect
<1>. QED BY <1>1, <1>2 DEF Find!IInv

(***************************************************************************)
(* What was met is the start of an order that has each service once, and   *)
(* with the last page all of it.                                           *)
(***************************************************************************)
LEMMA AllAreMetOnce == Find!Wellformed /\ Find!IInv => Find!EachServiceOnce
<1> SUFFICES ASSUME Find!Wellformed, Find!IInv, reading = "shown", met # None
             PROVE  /\ Find!IsInjective(met)
                    /\ Find!ValueOf(address, "page") = Find!Pages(Find!Filters(address)) => Find!ToSet(met) = Find!Matching(Find!Filters(address))
  BY DEF Find!EachServiceOnce
<1> DEFINE f == Find!Filters(address)
           pg == Find!ValueOf(address, "page")
           order == Find!Sorted(f, Find!Matching(f), seed)
           N == Cardinality(Find!Matching(f))
<1>1. seed \in DOMAIN Draws /\ met = SubSeq(order, 1, Find!UpTo(order, pg)) /\ PageSize \in Nat \ {0} /\ public \subseteq DOMAIN Sites
  BY DEF Find!IInv, Find!MetSoFar, Find!Wellformed
<1>2. pg \in Nat \ {0}
  BY PageNumber
<1>. HIDE DEF f, pg
<1>3. /\ order \in Seq(Find!Matching(f)) /\ Len(order) = N /\ N \in Nat
      /\ \A k, l \in 1..N : order[k] = order[l] => k = l
      /\ Holds(order) = Find!Matching(f)
  BY <1>1, MatchingFacts, SortedFacts
<1>. HIDE DEF order, N
<1>4. /\ Find!UpTo(order, pg) \in 0..N
      /\ N <= pg * PageSize => met = order
  BY <1>1, <1>2, <1>3, Pieces
<1>5. Find!IsInjective(met)
  <2>1. Len(met) = Find!UpTo(order, pg) /\ DOMAIN met = 1..Find!UpTo(order, pg) /\ \A i \in 1..Find!UpTo(order, pg) : met[i] = order[i]
    BY <1>1, <1>3, <1>4
  <2>. QED BY <1>3, <1>4, <2>1 DEF Find!IsInjective
<1>6. pg = Find!Pages(f) => N <= pg * PageSize
  BY <1>1, <1>2, <1>3, PageCount, SearchLibrary DEF Find!Pages, N
<1>. QED BY <1>3, <1>4, <1>5, <1>6, ListsHold DEF f, pg

\* A set as a sequence, in whatever order.
LEMMA ListedSet ==
  ASSUME NEW S, IsFiniteSet(S)
  PROVE  /\ Find!SetToSeq(S) \in Seq(S)
         /\ Holds(Find!SetToSeq(S)) = S
         /\ Find!SetToSeq(S) = <<>> <=> S = {}
<1> DEFINE N == Cardinality(S)
           list == Find!SetToSeq(S)
<1>1. N \in Nat /\ IsFiniteSet(1..N) /\ Cardinality(1..N) = N /\ ExistsBijection(1..N, S) /\ (N = 0 <=> S = {})
  <2>1. N \in Nat /\ ExistsBijection(1..N, S)
    BY FS_CardinalityType
  <2>2. N = 0 <=> S = {}
    BY FS_EmptySet
  <2>. HIDE DEF N
  <2>3. IsFiniteSet(1..N) /\ Cardinality(1..N) = N
    BY <2>1, FS_Interval
  <2>. QED BY <2>1, <2>2, <2>3
<1>2. \E f \in [1..N -> S] : Find!IsInjective(f)
  <2>1. PICK f \in Bijection(1..N, S) : TRUE
    BY <1>1 DEF ExistsBijection
  <2>2. f \in Injection(1..N, S)
    BY <2>1 DEF Bijection
  <2>3. f \in [1..N -> S] /\ Find!IsInjective(f)
    BY <2>2 DEF Injection, IsInjective, Find!IsInjective
  <2>. QED BY <2>3
<1>3. list \in [1..N -> S] /\ Find!IsInjective(list)
  BY <1>2, SearchLibrary DEF Find!SetToSeq
<1>. HIDE DEF list
<1>4. list \in Surjection(1..N, S)
  <2>1. list \in Injection(1..N, S)
    <3>. HIDE DEF N
    <3>. QED BY <1>3 DEF Injection, IsInjective, Find!IsInjective
  <2>. QED BY <1>1, <2>1, FS_Injection DEF N
<1>. HIDE DEF N
<1>5. list \in Seq(S) /\ Len(list) = N
  BY <1>1, <1>3
<1>6. Holds(list) = S
  BY <1>3, <1>4 DEF Surjection, Holds
<1>7. list = <<>> <=> S = {}
  BY <1>1, <1>5
<1>. QED BY <1>5, <1>6, <1>7 DEF list

\* The category and the currencies of what the sitemap names are those of some service.
LEMMA CountedFacts ==
  ASSUME Find!Wellformed, public \subseteq DOMAIN Sites, NEW t \in Find!Themes, Find!InSitemap(t)
  PROVE  /\ IsFiniteSet(t.currencies) /\ t.currencies \subseteq Find!Valid("currencies")
         /\ t.category # None => t.category \in Find!Valid("categories")
<1>1. IsFiniteSet(t.currencies)
  <2>1. t.currencies \in {{}} \cup {{c} : c \in Find!Valid("currencies")} \cup Combinations
    BY DEF Find!Themes
  <2>2. \A c \in Combinations : IsFiniteSet(c)
    BY SitesFinite
  <2>3. \A c : IsFiniteSet({c})
    BY FS_Singleton
  <2>4. IsFiniteSet({})
    BY FS_EmptySet
  <2>. QED BY <2>1, <2>2, <2>3, <2>4
<1>2. Find!Counted(t) # {}
  <2>1. IsFiniteSet({}) /\ Cardinality({}) = 0
    BY FS_EmptySet
  <2>2. Find!Counted(t) # {} \/ Cardinality(Find!Counted(t)) >= Minimum
    BY SearchLibrary DEF Find!InSitemap
  <2>3. Minimum \in Nat /\ Minimum # 0
    BY DEF Find!Wellformed
  <2>4. ASSUME Find!Counted(t) = {} PROVE FALSE
    <3>1. Cardinality(Find!Counted(t)) = 0 /\ ~(0 >= Minimum)
      BY <2>1, <2>3, <2>4
    <3>. QED BY <2>2, <2>4, <3>1
  <2>. QED BY <2>4
<1>3. PICK i \in DOMAIN Sites :
        /\ t.currencies \subseteq Sites[i].currencies
        /\ t.category # None => t.category \in Sites[i].categories
  BY <1>2 DEF Find!Counted
<1>4. /\ Find!Valid("currencies") = UNION {Sites[j].currencies : j \in DOMAIN Sites}
      /\ Find!Valid("categories") = UNION {Sites[j].categories : j \in DOMAIN Sites}
  BY DEF Find!Valid
<1>. QED BY <1>1, <1>3, <1>4

\* What the URL of a theme has in each parameter.
LEMMA AddressFields ==
  ASSUME NEW t, NEW u, u = Find!Address(t)
  PROVE  /\ u = [k \in Find!Keys |-> u[k]]
         /\ u.categories = IF t.category = None THEN <<>> ELSE <<t.category>>
         /\ u.currencies = Find!SetToSeq(t.currencies)
         /\ u.currencyMode = IF Cardinality(t.currencies) > 1 THEN <<"and">> ELSE <<>>
         /\ u.maxKyc = IF t.noKyc THEN <<0>> ELSE <<>>
         /\ u.verification = <<>> /\ u.sort = <<>> /\ u.attr = <<>> /\ u.attributeMode = <<>> /\ u.page = <<>> /\ u.sortSeed = <<>>
<1>1. Find!Keys = {"verification", "sort", "categories", "currencies", "currencyMode", "attr", "attributeMode", "maxKyc", "page", "sortSeed"}
  BY DEF Find!Keys
<1>2. Find!NoParams = [k \in Find!Keys |-> <<>>]
  BY DEF Find!NoParams
<1> DEFINE cats == IF t.category = None THEN <<>> ELSE <<t.category>>
           coins == Find!SetToSeq(t.currencies)
           mode == IF Cardinality(t.currencies) > 1 THEN <<"and">> ELSE <<>>
           kyc == IF t.noKyc THEN <<0>> ELSE <<>>
<1>3. u = [Find!NoParams EXCEPT !.categories = cats, !.currencies = coins, !.currencyMode = mode, !.maxKyc = kyc]
  BY SearchLibrary DEF Find!Address
<1>. HIDE DEF cats, coins, mode, kyc
<1>4. u = [k \in Find!Keys |-> CASE k = "categories" -> cats [] k = "currencies" -> coins [] k = "currencyMode" -> mode
                            [] k = "maxKyc" -> kyc [] OTHER -> <<>>]
  <2>1. "categories" \in Find!Keys /\ "currencies" \in Find!Keys /\ "currencyMode" \in Find!Keys /\ "maxKyc" \in Find!Keys
    BY <1>1
  <2>2. u = [k \in Find!Keys |-> IF k = "maxKyc" THEN kyc ELSE IF k = "currencyMode" THEN mode
                             ELSE IF k = "currencies" THEN coins ELSE IF k = "categories" THEN cats ELSE Find!NoParams[k]]
    BY <1>2, <1>3, <2>1
  <2>3. \A k \in Find!Keys : Find!NoParams[k] = <<>>
    BY <1>2
  <2>. QED BY <2>2, <2>3
<1>. QED BY <1>1, <1>4 DEF cats, coins, mode, kyc

\* Nothing is to be cleaned from it.
LEMMA ThemeIsClean ==
  ASSUME Find!Wellformed, public \subseteq DOMAIN Sites, NEW t \in Find!Themes, Find!InSitemap(t), NEW u, u = Find!Address(t)
  PROVE  Find!Clean(u) = u
<1>1. IsFiniteSet(t.currencies)
  BY CountedFacts
<1>2. /\ u = [k \in Find!Keys |-> u[k]]
      /\ u.categories = IF t.category = None THEN <<>> ELSE <<t.category>>
      /\ u.currencies = Find!SetToSeq(t.currencies)
      /\ u.currencyMode = IF Cardinality(t.currencies) > 1 THEN <<"and">> ELSE <<>>
      /\ u.maxKyc = IF t.noKyc THEN <<0>> ELSE <<>>
      /\ u.verification = <<>> /\ u.sort = <<>> /\ u.attr = <<>> /\ u.attributeMode = <<>> /\ u.page = <<>> /\ u.sortSeed = <<>>
  BY AddressFields
<1>3. Filled(u) = {} /\ Only(u.attr, Filled(u)) = <<>> /\ Find!Sane(u)
  <2>0. u.attr = <<>> /\ u.sortSeed = <<>> /\ u = [k \in Find!Keys |-> u[k]]
    BY <1>2
  <2>1. Filled(u) = {}
    BY <2>0 DEF Filled, Holds
  <2>2. Find!Sane(u)
    <3>1. Find!IsList(<<>>)
      BY DEF Find!IsList
    <3>. QED BY <2>0, <3>1 DEF Find!Sane
  <2>3. <<>> \in Seq({})
    OBVIOUS
  <2>4. Only(<<>>, {}) = <<>>
    BY <2>3, OnlyFacts
  <2>. QED BY <2>0, <2>1, <2>2, <2>4
<1> DEFINE c == Find!Clean(u)
<1>4. /\ c = [k \in Find!Keys |-> c[k]]
      /\ c.categories = u.categories /\ c.currencies = u.currencies /\ c.page = u.page
      /\ c.attr = Only(u.attr, Filled(u))
      /\ c.verification = IF Find!IsDefault(u, "verification") THEN <<>> ELSE u.verification
      /\ c.sort = IF Find!IsDefault(u, "sort") THEN <<>> ELSE u.sort
      /\ c.maxKyc = IF Find!IsDefault(u, "maxKyc") THEN <<>> ELSE u.maxKyc
      /\ c.currencyMode = IF u.currencies = <<>> THEN <<>> ELSE u.currencyMode
      /\ c.attributeMode = IF Only(u.attr, Filled(u)) = <<>> THEN <<>> ELSE u.attributeMode
      /\ c.sortSeed = IF u.page = <<>> THEN <<>> ELSE u.sortSeed
  <2>1. Find!Sane(u) /\ c = Find!Clean(u)
    BY <1>3
  <2>. HIDE DEF c
  <2>. QED BY <2>1, CleanFields
<1>. HIDE DEF c
<1>5. c.maxKyc = u.maxKyc
  <2>1. u.maxKyc = <<0>> => ~Find!IsDefault(u, "maxKyc")
    BY DEF Find!IsDefault, Find!ValueOf, Find!Valid, Find!Default
  <2>. QED BY <1>2, <1>4, <2>1
<1>6. c.currencyMode = u.currencyMode
  <2>0. Find!SetToSeq(t.currencies) = <<>> <=> t.currencies = {}
    BY <1>1, ListedSet
  <2>1. u.currencies = <<>> => t.currencies = {}
    BY <1>2, <2>0
  <2>2. t.currencies = {} => ~(Cardinality(t.currencies) > 1)
    BY FS_EmptySet
  <2>. QED BY <1>2, <1>4, <2>1, <2>2
<1>7. \A k \in Find!Keys : c[k] = u[k]
  BY <1>2, <1>3, <1>4, <1>5, <1>6 DEF Find!Keys
<1>8. c = u
  BY <1>2, <1>4, <1>7
<1>. QED BY <1>8 DEF c

\* What fits its filters is what was counted.
LEMMA ThemeIsAskedFor ==
  ASSUME Find!Wellformed, public \subseteq DOMAIN Sites, NEW t \in Find!Themes, Find!InSitemap(t), NEW u, u = Find!Address(t)
  PROVE  {i \in public : Find!Fits(Find!Filters(u), Sites[i])} = Find!Counted(t)
<1> DEFINE f == Find!Filters(u)
<1>1. /\ IsFiniteSet(t.currencies) /\ t.currencies \subseteq Find!Valid("currencies")
      /\ t.category # None => t.category \in Find!Valid("categories")
  BY CountedFacts
<1>2. /\ u.categories = IF t.category = None THEN <<>> ELSE <<t.category>>
      /\ u.currencies = Find!SetToSeq(t.currencies)
      /\ u.currencyMode = IF Cardinality(t.currencies) > 1 THEN <<"and">> ELSE <<>>
      /\ u.maxKyc = IF t.noKyc THEN <<0>> ELSE <<>>
      /\ u.attr = <<>>
  BY AddressFields
<1>3. /\ f.categories = Find!ListOf(u, "categories") /\ f.currencies = Find!ListOf(u, "currencies")
      /\ f.every <=> Find!ValueOf(u, "currencyMode") = "and"
      /\ f.attr = Find!AttrOf(u) /\ f.kyc = Find!ValueOf(u, "maxKyc")
  <2>1. \A x, y, z, a, b, c, d, e : LET r == [verification |-> x, categories |-> y, currencies |-> z, every |-> a,
                                                attr |-> b, both |-> c, kyc |-> d, sort |-> e]
          IN r.categories = y /\ r.currencies = z /\ r.every = a /\ r.attr = b /\ r.kyc = d
    OBVIOUS
  <2>. QED BY <2>1 DEF Find!Filters
<1>. HIDE DEF f
<1>4. f.categories = u.categories
  <2>1. CASE t.category = None
    BY <1>2, <1>3, <2>1 DEF Find!ListOf, Find!Default
  <2>2. CASE t.category # None
    <3>1. <<t.category>> \in Seq(Find!Valid("categories")) /\ <<t.category>> # <<>>
      BY <1>1, <2>2
    <3>2. ASSUME NEW S, NEW s \in Seq(S) PROVE Only(s, S) = s
      BY OnlyFacts
    <3>3. Only(<<t.category>>, Find!Valid("categories")) = <<t.category>>
      BY <3>1, <3>2
    <3>4. u.categories = <<t.category>> /\ f.categories = Find!ListOf(u, "categories")
      BY <1>2, <1>3, <2>2
    <3>. QED BY <3>1, <3>3, <3>4, SearchLibrary DEF Find!ListOf
  <2>. QED BY <2>1, <2>2
<1>5. f.currencies = u.currencies
  <2>1. CASE u.currencies = <<>>
    BY <1>3, <2>1 DEF Find!ListOf, Find!Default
  <2>2. CASE u.currencies # <<>>
    <3>1. u.currencies \in Seq(t.currencies)
      BY <1>1, <1>2, ListedSet
    <3>2. u.currencies \in Seq(Find!Valid("currencies"))
      BY <1>1, <3>1
    <3>3. Only(u.currencies, Find!Valid("currencies")) = u.currencies
      BY <3>2, OnlyFacts
    <3>. QED BY <1>3, <2>2, <3>3, SearchLibrary DEF Find!ListOf
  <2>. QED BY <2>1, <2>2
<1>6. f.every <=> Cardinality(t.currencies) > 1
  BY <1>2, <1>3 DEF Find!ValueOf, Find!Valid, Find!Default
<1>7. f.kyc = IF t.noKyc THEN 0 ELSE 4
  <2>1. CASE t.noKyc
    <3>1. u.maxKyc = <<0>> /\ f.kyc = Find!ValueOf(u, "maxKyc")
      BY <1>2, <1>3, <2>1
    <3>2. Find!Valid("maxKyc") = 0..4
      BY DEF Find!Valid
    <3>3. <<0>> # <<>> /\ Head(<<0>>) = 0 /\ 0 \in 0..4
      OBVIOUS
    <3>. QED BY <2>1, <3>1, <3>2, <3>3 DEF Find!ValueOf
  <2>2. CASE ~t.noKyc
    <3>1. u.maxKyc = <<>> /\ f.kyc = Find!ValueOf(u, "maxKyc")
      BY <1>2, <1>3, <2>2
    <3>. QED BY <2>2, <3>1 DEF Find!ValueOf, Find!Default
  <2>. QED BY <2>1, <2>2
<1>8. \A s : Find!HasAttributes(f, s)
  <2>1. f.attr = {}
    BY <1>2, <1>3 DEF Find!AttrOf, Find!ToSet
  <2>. QED BY <2>1 DEF Find!HasAttributes
<1>9. Find!ToSet(f.currencies) = t.currencies /\ (f.currencies = <<>> <=> t.currencies = {})
  BY <1>1, <1>2, <1>5, ListedSet, ListsHold
<1>10. ASSUME NEW i \in public PROVE Find!Fits(f, Sites[i]) <=> i \in Find!Counted(t)
  <2> DEFINE s == Sites[i]
  <2>1. s.kyc \in 0..4
    BY DEF Find!Wellformed
  <2>. HIDE DEF s
  <2>2. (f.categories # <<>> => Find!ToSet(f.categories) \cap s.categories # {})
          <=> (t.category # None => t.category \in s.categories)
    <3>1. CASE t.category = None
      BY <1>2, <1>4, <3>1
    <3>2. CASE t.category # None
      <4>1. f.categories = <<t.category>> /\ <<t.category>> # <<>>
        BY <1>2, <1>4, <3>2
      <4>2. Find!ToSet(<<t.category>>) = {t.category}
        BY DEF Find!ToSet
      <4>. QED BY <3>2, <4>1, <4>2
    <3>. QED BY <3>1, <3>2
  <2>3. (f.currencies # <<>> =>
           IF f.every THEN Find!ToSet(f.currencies) \subseteq s.currencies ELSE Find!ToSet(f.currencies) \cap s.currencies # {})
          <=> t.currencies \subseteq s.currencies
    <3>1. CASE t.currencies = {}
      BY <1>9, <3>1
    <3>2. CASE t.currencies # {} /\ Cardinality(t.currencies) > 1
      BY <1>6, <1>9, <3>2
    <3>3. CASE t.currencies # {} /\ ~(Cardinality(t.currencies) > 1)
      <4>1. Cardinality(t.currencies) \in Nat /\ Cardinality(t.currencies) # 0
        BY <1>1, <3>3, FS_CardinalityType, FS_EmptySet
      <4>2. Cardinality(t.currencies) = 1
        BY <3>3, <4>1
      <4>3. PICK coin : t.currencies = {coin}
        <5>1. \A S : IsFiniteSet(S) /\ Cardinality(S) = 1 => \E x : S = {x}
          BY FS_Singleton
        <5>. QED BY <1>1, <4>2, <5>1
      <4>. QED BY <1>6, <1>9, <3>3, <4>3
    <3>. QED BY <3>1, <3>2, <3>3
  <2>4. s.kyc <= f.kyc <=> (t.noKyc => s.kyc = 0)
    BY <1>7, <2>1
  <2>5. Find!Fits(f, s) <=>
          /\ t.category # None => t.category \in s.categories
          /\ t.currencies \subseteq s.currencies
          /\ t.noKyc => s.kyc = 0
    <3>. HIDE DEF Find!HasAttributes
    <3>. QED BY <1>8, <2>2, <2>3, <2>4 DEF Find!Fits
  <2>. QED BY <2>5 DEF Find!Counted, s
<1>11. Find!Counted(t) \subseteq public
  BY DEF Find!Counted
<1>. QED BY <1>10, <1>11 DEF f

\* So is everything the sitemap names.
LEMMA ThemesAreClean == Find!Wellformed /\ Find!IInv => Find!SitemapIsClean
BY ThemeIsClean, ThemeIsAskedFor DEF Find!IInv, Find!SitemapIsClean

-----------------------------------------------------------------------------
(* The site *)

(***************************************************************************)
(* The invariants of the parts.  Cards and thumbnails share the requests   *)
(* for pictures, so each invariant is of the part that runs.               *)
(***************************************************************************)
SiteInv ==
  /\ StreamInv /\ SwapInv /\ TellInv /\ Table!IInv /\ Find!IInv
  /\ part = "drawing" => CardInv
  /\ part = "thumbs" => ThumbInv
  /\ part = "cards" => CardLinks!IInv

(***************************************************************************)
(* A part that does not run stays as it is.                                *)
(***************************************************************************)
LEMMA StreamsRest == StreamInv /\ UNCHANGED pushes => StreamInv'
BY DEF StreamInv, pushes

LEMMA SwapRests == SwapInv /\ UNCHANGED swap => SwapInv'
BY DEF SwapInv, swap, AsksFor, SwapPage!Cleaned, SwapPage!Peer

LEMMA NewsRests == TellInv /\ UNCHANGED news => TellInv'
BY DEF TellInv, news, TellsOnce, TellOfOne, IsNews

LEMMA TableRests == Table!IInv /\ UNCHANGED table => Table!IInv'
BY DEF Table!IInv, Table!BestIsFirst

LEMMA LinksRest == CardLinks!IInv /\ UNCHANGED cards => CardLinks!IInv'
BY DEF CardLinks!IInv, cards, CardLinks!AnyPage

LEMMA SearchRests == Find!IInv /\ UNCHANGED search => Find!IInv'
<1> SUFFICES ASSUME Find!IInv, UNCHANGED search PROVE Find!IInv'
  OBVIOUS
<1>1. UNCHANGED public /\ UNCHANGED address /\ UNCHANGED wanted /\ UNCHANGED redirects /\ UNCHANGED reading /\ UNCHANGED seed /\ UNCHANGED met
  BY DEF search
<1>2. \A f : Find!Matching(f)' = Find!Matching(f)
  BY <1>1 DEF Find!Matching
<1>3. Find!MetSoFar' <=> Find!MetSoFar
  BY <1>1 DEF Find!MetSoFar, Find!Matching, Find!Pages
<1>. QED BY <1>1, <1>3 DEF Find!IInv

LEMMA CardsRest == CardInv /\ UNCHANGED pictures => CardInv'
BY DEF CardInv, pictures, QueuesTyped, QueueInv

LEMMA ThumbsRest == ThumbInv /\ UNCHANGED pictures => ThumbInv'
BY DEF ThumbInv, pictures, QueuesTyped, QueueInv

LEMMA SiteStep ==
  SiteInv /\ [SiteNext]_<<part, vars, pictures, cards, news, pushes, swap, table, search>> => SiteInv'
<1> SUFFICES ASSUME SiteInv, [SiteNext]_<<part, vars, pictures, cards, news, pushes, swap, table, search>>
             PROVE  SiteInv'
  OBVIOUS
<1>1. UNCHANGED part
  BY DEF SiteNext
<1>2. Pushing!Next \/ UNCHANGED pushes
  BY DEF SiteNext
<1>3. SwapPage!Next \/ UNCHANGED swap
  BY DEF SiteNext
<1>4. News!Next \/ UNCHANGED news
  BY DEF SiteNext
<1>5. part = "drawing" => Drawing!Next \/ UNCHANGED pictures
  BY DEF SiteNext
<1>6. part = "thumbs" => Thumbs!Next \/ UNCHANGED pictures
  BY DEF SiteNext
<1>7. StreamInv'
  BY <1>2, StreamsKept, StreamsRest DEF SiteInv
<1>8. SwapInv'
  BY <1>3, SwapKept, SwapRests DEF SiteInv
<1>9. TellInv'
  BY <1>4, NewsKept, NewsRests DEF SiteInv
<1>10. part' = "drawing" => CardInv'
  BY <1>1, <1>5, CardsKept, CardsRest DEF SiteInv
<1>11. part' = "thumbs" => ThumbInv'
  BY <1>1, <1>6, ThumbsKept, ThumbsRest DEF SiteInv
<1>12. Table!Next \/ UNCHANGED table
  BY DEF SiteNext
<1>13. Table!IInv'
  BY <1>12, TableKept, TableRests DEF SiteInv
<1>14. part = "cards" => CardLinks!Next \/ UNCHANGED cards
  BY DEF SiteNext
<1>15. part' = "cards" => CardLinks!IInv'
  BY <1>1, <1>14, CardAssumption, LinksKept, LinksRest DEF SiteInv
<1>16. Find!Next \/ UNCHANGED search
  BY DEF SiteNext
<1>17. Find!IInv'
  BY <1>16, SearchAssumption, SearchKept, SearchRests DEF SiteInv
<1>. QED BY <1>7, <1>8, <1>9, <1>10, <1>11, <1>13, <1>15, <1>17 DEF SiteInv

(***************************************************************************)
(* Streams clean up after themselves, the form holds the amount that was   *)
(* set, each notice of a post is the only one its reader got, and who      *)
(* waits for a picture is in the queue once, whatever the part that runs.  *)
(***************************************************************************)
THEOREM Invariance == SiteSpec => []SiteInv
<1>1. SiteInit => SiteInv
  <2> SUFFICES ASSUME SiteInit PROVE SiteInv
    OBVIOUS
  <2>1. StreamInv /\ SwapInv /\ TellInv /\ Table!IInv
    BY StreamInit, SwapInit, TellInit, TableInit DEF SiteInit
  <2>2. CardInv /\ ThumbInv
    BY CardInit, ThumbInit DEF SiteInit
  <2>3. part = "cards" => CardLinks!IInv
    BY CardAssumption, LinksInit DEF SiteInit, CardLinks!Init
  <2>4. Find!IInv
    BY SearchAssumption, SearchInit DEF SiteInit
  <2>. QED BY <2>1, <2>2, <2>3, <2>4 DEF SiteInv
<1>2. SiteInv /\ [SiteNext]_<<part, vars, pictures, cards, news, pushes, swap, table, search>> => SiteInv'
  BY SiteStep
<1>. QED BY <1>1, <1>2, PTL DEF SiteSpec

(***************************************************************************)
(* A stream that is over, in whatever order it was opened, subscribed and  *)
(* closed, leaves no subscription and no heartbeat (server-events.ts:79).  *)
(***************************************************************************)
THEOREM ListenersAlwaysEnd == SiteSpec => []NoListenerOutlivesItsStream
<1>1. SiteInv => NoListenerOutlivesItsStream
  BY DEF SiteInv, StreamInv, CleansUp, NoListenerOutlivesItsStream, Pushing!NoListenerOutlivesItsStream
<1>. QED BY <1>1, Invariance, PTL

(***************************************************************************)
(* The swap page asks with the amount set last, on the side it was set on, *)
(* and with no other (swap-client.ts:117).                                 *)
(***************************************************************************)
THEOREM AlwaysAsksWhatWasSet == SiteSpec => []AsksWhatWasSet
<1>1. SiteInv => AsksWhatWasSet
  BY DEF SiteInv, SwapInv, AsksFor, AsksWhatWasSet, SwapPage!AsksWhatWasSet
<1>. QED BY <1>1, Invariance, PTL

(***************************************************************************)
(* A card that lacks a picture, its font or its logo is neither kept as    *)
(* the default card nor sent as one that may be kept (ogimage.png.ts:24).  *)
(***************************************************************************)
THEOREM KeptCardsAreAlwaysWhole == SiteSpec => []KeptCardsAreWhole
<1>1. SiteInv => KeptCardsAreWhole
  BY DEF SiteInv, CardInv, WholeOrShort, KeptCardsAreWhole, Drawing!KeptCardsAreWhole
<1>. QED BY <1>1, Invariance, PTL

(***************************************************************************)
(* Who asks for a thumbnail and may keep it gets one of the file as it was *)
(* when they asked, or of a later one (imageEndpoint.ts:111).              *)
(***************************************************************************)
THEOREM NeverAStaleThumb == SiteSpec => []NoStaleThumb
<1>1. SiteInv => NoStaleThumb
  BY DEF SiteInv, ThumbInv, FreshAt, NoStaleThumb, Thumbs!NoStaleThumb
<1>. QED BY <1>1, Invariance, PTL

(***************************************************************************)
(* Nobody is told of a post twice, however often it is published again and *)
(* whatever they choose to watch (06_notifications_comments.sql:89).       *)
(***************************************************************************)
THEOREM NeverToldTwice == SiteSpec => []NobodyIsToldTwice
<1>1. SiteInv => NobodyIsToldTwice
  <2> SUFFICES ASSUME TellInv PROVE News!NobodyIsToldTwice
    BY DEF SiteInv, NobodyIsToldTwice
  <2>1. DOMAIN notices = 1..Len(notices)
    BY LenProperties DEF TellInv
  <2>. QED BY <2>1 DEF TellInv, TellsOnce, TellOfOne, IsNews, News!NobodyIsToldTwice
<1>. QED BY <1>1, Invariance, PTL

(***************************************************************************)
(* Sorted by rate, the row marked as the best is the first one, whatever   *)
(* the providers, the amounts and the side asked for, and for equal rates  *)
(* too (swapResultUi.ts:100, :150).                                        *)
(***************************************************************************)
THEOREM BestAlwaysFirst == SiteSpec => []BestIsFirst
<1>1. SiteInv => BestIsFirst
  BY DEF SiteInv, BestIsFirst, Table!IInv
<1>. QED BY <1>1, Invariance, PTL

(***************************************************************************)
(* Whatever a page has for title, description and categories, and in       *)
(* whatever languages, what the site signs for it is drawn, with all the   *)
(* text that was kept (ogImageNormalize.ts:18).                            *)
(***************************************************************************)
THEOREM SignedCardsAlwaysDrawn == SiteSpec => []SignedCardsAreDrawn
<1>1. SiteInv => SignedCardsAreDrawn
  BY CardAssumption, LinksDrawn DEF SiteInv, SignedCardsAreDrawn
<1>. QED BY <1>1, Invariance, PTL

(***************************************************************************)
(* Whatever the services, the links and the seeds: a link is redirected    *)
(* once at most, and asks for the same services then; going through its    *)
(* pages shows each service that matches once; and what the sitemap names  *)
(* asks, without a redirect, for what it was counted for                   *)
(* (parseUrlFilters.ts:250, index.astro:298, search.xml.ts:80).            *)
(***************************************************************************)
THEOREM SearchesAlwaysStable == SiteSpec => []SearchesAreStable
<1>1. SiteInv => SearchesAreStable
  BY SearchAssumption, OneRedirectIsEnough, AllAreMetOnce, ThemesAreClean DEF SiteInv, SearchesAreStable
<1>. QED BY <1>1, Invariance, PTL

(***************************************************************************)
(* A behaviour of the whole is one of FormResults, so that what is proved  *)
(* of that component holds of the whole.                                   *)
(***************************************************************************)
THEOREM SiteHasForms == SiteSpec => Spec
<1>1. SiteInit => Init
  BY DEF SiteInit
<1>2. [SiteNext]_<<part, vars, pictures, cards, news, pushes, swap, table, search>> => [Next]_vars
  BY DEF SiteNext, vars
<1>. QED BY <1>1, <1>2, PTL DEF SiteSpec, Spec
=============================================================================
