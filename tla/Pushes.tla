--------------------------------- MODULE Pushes ---------------------------------
(***************************************************************************)
(* How a notice gets to people: the server's LISTEN connection             *)
(* (postgresListeners.ts), sendNotification, the streams of open pages     *)
(* (server-events.ts) fed through Redis, and web push to devices.          *)
(*                                                                         *)
(* Of a notice only whom it is for is kept.  Streams and devices share     *)
(* nothing but the notices.                                                *)
(***************************************************************************)
EXTENDS Naturals, FiniteSets

CONSTANTS
  Users,
  Visitor,    \* nobody signed in
  Streams,
  Devices,
  MaxNotices, \* how many notices are inserted
  MaxKeys     \* how often a device makes a push subscription

VARIABLES
  listening, \* "deaf" between LISTEN and the handler
  notices,   \* whom each notice is for
  sending,   \* how far sendNotification is with each, and the rows it has yet to push to
  stream,    \* GET /internal-api/server-events, its variables and what it does
  browser,   \* the push subscription of each device, 0 for none
  made,      \* how many it had
  saving,    \* a request of the device on its way: the account it acts for and the key
  rows       \* PushSubscription

vars == <<listening, notices, sending, stream, browser, made, saving, rows>>

Ids == 1..MaxNotices
Row == [device : Devices, key : 1..MaxKeys, user : Users]
Stream == [user : Users \cup {Visitor}, at : {"none", "adding", "open", "cleaning", "gone"},
           closed : BOOLEAN, subscribed : BOOLEAN, cleanup : BOOLEAN, heartbeat : BOOLEAN,
           heard : SUBSET Ids]
NoStream == [user |-> Visitor, at |-> "none", closed |-> FALSE, subscribed |-> FALSE, cleanup |-> FALSE,
             heartbeat |-> FALSE, heard |-> {}]
NoRequest == [what |-> "none", user |-> Visitor, key |-> 0]
NotSent == [at |-> "none", to |-> {}]

TypeOK ==
  /\ listening \in {"off", "deaf", "on", "ended"}
  /\ \E n \in 0..MaxNotices : notices \in [1..n -> Users]
  /\ sending \in [Ids -> [at : {"none", "heard", "read", "published"}, to : SUBSET Row]]
  /\ stream \in [Streams -> Stream]
  /\ browser \in [Devices -> 0..MaxKeys] /\ made \in [Devices -> 0..MaxKeys]
  /\ saving \in [Devices -> [what : {"none", "subscribe", "unsubscribe"}, user : Users \cup {Visitor},
                             key : 0..MaxKeys]]
  /\ rows \in SUBSET Row
  /\ \A r, q \in rows : r.device = q.device /\ r.key = q.key => r = q

Init ==
  /\ listening = "off"
  /\ notices = [n \in {} |-> Visitor]
  /\ sending = [n \in Ids |-> NotSent]
  /\ stream = [s \in Streams |-> NoStream]
  /\ browser = [d \in Devices |-> 0] /\ made = browser
  /\ saving = [d \in Devices |-> NoRequest]
  /\ rows = {}

-----------------------------------------------------------------------------
(* postgresListeners.ts *)

\* startListener. Nothing starts it again when the connection has ended.
Listen ==
  /\ listening = "off"
  /\ listening' = "deaf"
  /\ UNCHANGED <<notices, sending, stream, browser, made, saving, rows>>

Hear ==
  /\ listening = "deaf"
  /\ listening' = "on"
  /\ UNCHANGED <<notices, sending, stream, browser, made, saving, rows>>

\* The trigger's pg_notify reaches the handler or nobody.
Insert(u) ==
  LET n == Cardinality(DOMAIN notices) + 1 IN
  /\ n <= MaxNotices
  /\ notices' = [i \in 1..n |-> IF i = n THEN u ELSE notices[i]]
  /\ sending' = IF listening = "on" THEN [sending EXCEPT ![n].at = "heard"] ELSE sending
  /\ UNCHANGED <<listening, stream, browser, made, saving, rows>>

\* The server stops, with what it was doing. Whoever starts it anew begins with Listen.
Stop ==
  /\ listening # "off"
  /\ listening' = "off"
  /\ sending' = [n \in Ids |-> NotSent]
  /\ stream' = [s \in Streams |-> NoStream]
  /\ UNCHANGED <<notices, browser, made, saving, rows>>

\* Or it cannot be made.
ConnectionEnds ==
  /\ listening # "ended"
  /\ listening' = "ended"
  /\ UNCHANGED <<notices, sending, stream, browser, made, saving, rows>>

-----------------------------------------------------------------------------
(* sendNotification *)

ReadRows(n) ==
  /\ sending[n].at = "heard"
  /\ sending' = [sending EXCEPT ![n] = [at |-> "read", to |-> {r \in rows : r.user = notices[n]}]]
  /\ UNCHANGED <<listening, notices, stream, browser, made, saving, rows>>

\* When Redis fails, handleNotificationCreated gives up before the pushes.
Publish(n, ok) ==
  /\ sending[n].at = "read"
  /\ sending' = [sending EXCEPT ![n] = IF ok THEN [@ EXCEPT !.at = "published"] ELSE NotSent]
  /\ stream' = [s \in Streams |->
                  IF ok /\ stream[s].subscribed /\ stream[s].user = notices[n] /\ ~stream[s].closed
                  THEN [stream[s] EXCEPT !.heard = @ \cup {n}] ELSE stream[s]]
  /\ UNCHANGED <<listening, notices, browser, made, saving, rows>>

\* The push service knows the device's present subscription only. A row it does not
\* know is deleted, by its id.
Push(n, r) ==
  /\ sending[n].at = "published" /\ r \in sending[n].to
  /\ sending' = [sending EXCEPT ![n].to = @ \ {r}]
  /\ rows' = IF browser[r.device] = r.key THEN rows ELSE rows \ {r}
  /\ UNCHANGED <<listening, notices, stream, browser, made, saving>>

\* Any other failure leaves the row.
FailPush(n, r) ==
  /\ sending[n].at = "published" /\ r \in sending[n].to
  /\ sending' = [sending EXCEPT ![n].to = @ \ {r}]
  /\ UNCHANGED <<listening, notices, stream, browser, made, saving, rows>>

-----------------------------------------------------------------------------
(* server-events.ts *)

\* start, up to the await: a visitor has nothing to wait for.
Connect(s, u) ==
  /\ listening # "off"
  /\ stream[s].at \in {"none", "gone"}
  /\ stream' = [stream EXCEPT ![s] =
                  IF u = Visitor THEN [NoStream EXCEPT !.at = "open", !.heartbeat = TRUE]
                  ELSE [NoStream EXCEPT !.user = u, !.at = "adding"]]
  /\ UNCHANGED <<listening, notices, sending, browser, made, saving, rows>>

\* subscribe of addListener reaches Redis.
Subscribed(s) ==
  /\ stream[s].at = "adding" /\ ~stream[s].subscribed
  /\ stream' = [stream EXCEPT ![s].subscribed = TRUE]
  /\ UNCHANGED <<listening, notices, sending, browser, made, saving, rows>>

\* addListener returns. Mutation: closed is not looked at again.
AddedAnyway(st) == [st EXCEPT !.at = "open", !.cleanup = TRUE, !.heartbeat = TRUE]
Added(st) ==
  IF st.closed THEN [st EXCEPT !.at = "cleaning"]
  ELSE [st EXCEPT !.at = "open", !.cleanup = TRUE, !.heartbeat = TRUE]

AddListener(s) ==
  /\ stream[s].at = "adding" /\ stream[s].subscribed
  /\ stream' = [stream EXCEPT ![s] = Added(@)]
  /\ UNCHANGED <<listening, notices, sending, browser, made, saving, rows>>

\* It throws, with the connection: teardown, which has nothing to clean up yet.
FailListener(s) ==
  /\ stream[s].at = "adding"
  /\ stream' = [stream EXCEPT ![s].at = "gone", ![s].closed = TRUE, ![s].subscribed = FALSE]
  /\ UNCHANGED <<listening, notices, sending, browser, made, saving, rows>>

\* The abort of the request or the cancel of its stream, whichever is first: teardown.
Disconnect(s) ==
  LET st == stream[s] IN
  /\ st.at \in {"adding", "open"} /\ ~st.closed
  /\ stream' = [stream EXCEPT ![s] =
                  [st EXCEPT !.closed = TRUE, !.heartbeat = FALSE, !.cleanup = FALSE,
                             !.at = IF st.at = "adding" THEN "adding"
                                    ELSE IF st.cleanup THEN "cleaning" ELSE "gone"]]
  /\ UNCHANGED <<listening, notices, sending, browser, made, saving, rows>>

\* What addListener gave back unsubscribes.
Unsubscribed(s) ==
  /\ stream[s].at = "cleaning"
  /\ stream' = [stream EXCEPT ![s].at = "gone", ![s].subscribed = FALSE]
  /\ UNCHANGED <<listening, notices, sending, browser, made, saving, rows>>

-----------------------------------------------------------------------------
(* clientPushNotifications.ts and notification.webPush *)

\* subscribeToPushNotifications: the browser first, which returns what it has.
AskToPush(d, u) ==
  /\ saving[d] = NoRequest /\ (browser[d] = 0 => made[d] < MaxKeys)
  /\ browser' = [browser EXCEPT ![d] = IF @ = 0 THEN made[d] + 1 ELSE @]
  /\ made' = [made EXCEPT ![d] = IF browser[d] = 0 THEN @ + 1 ELSE @]
  /\ saving' = [saving EXCEPT ![d] = [what |-> "subscribe", user |-> u, key |-> browser'[d]]]
  /\ UNCHANGED <<listening, notices, sending, stream, rows>>

\* unsubscribeFromPushNotifications.
AskToStop(d, u) ==
  /\ saving[d] = NoRequest /\ browser[d] # 0
  /\ browser' = [browser EXCEPT ![d] = 0]
  /\ saving' = [saving EXCEPT ![d] = [what |-> "unsubscribe", user |-> u, key |-> browser[d]]]
  /\ UNCHANGED <<listening, notices, sending, stream, made, rows>>

\* The endpoint is unique: another account's row makes the upsert fail.
Save(d) ==
  LET q == saving[d]
      same == {r \in rows : r.device = d /\ r.key = q.key}
  IN
  /\ q.what # "none"
  /\ rows' = CASE q.what = "subscribe" /\ same = {} -> rows \cup {[device |-> d, key |-> q.key, user |-> q.user]}
               [] q.what = "unsubscribe" -> rows \ {r \in same : q.user \in {Visitor, r.user}}
               [] OTHER -> rows
  /\ saving' = [saving EXCEPT ![d] = NoRequest]
  /\ UNCHANGED <<listening, notices, sending, stream, browser, made>>

\* The request does not arrive.
LoseRequest(d) ==
  /\ saving[d] # NoRequest
  /\ saving' = [saving EXCEPT ![d] = NoRequest]
  /\ UNCHANGED <<listening, notices, sending, stream, browser, made, rows>>

Next ==
  \/ Listen \/ Hear \/ Stop \/ ConnectionEnds
  \/ \E u \in Users : Insert(u)
  \/ \E n \in Ids :
       \/ ReadRows(n)
       \/ \E ok \in BOOLEAN : Publish(n, ok)
       \/ \E r \in rows \cup sending[n].to : Push(n, r) \/ FailPush(n, r)
  \/ \E s \in Streams :
       \/ \E u \in Users \cup {Visitor} : Connect(s, u)
       \/ Subscribed(s) \/ AddListener(s) \/ FailListener(s) \/ Disconnect(s) \/ Unsubscribed(s)
  \/ \E d \in Devices :
       \/ \E u \in Users : AskToPush(d, u)
       \/ \E u \in Users \cup {Visitor} : AskToStop(d, u)
       \/ Save(d) \/ LoseRequest(d)

Spec == Init /\ [][Next]_vars

-----------------------------------------------------------------------------
(* Properties *)

(***************************************************************************)
(* When a page's stream is over, nothing of it is left at work: no         *)
(* subscription in Redis and no heartbeat, also when the page left while   *)
(* it was being subscribed (server-events.ts:79).                          *)
(***************************************************************************)
NoListenerOutlivesItsStream ==
  \A s \in Streams :
    stream[s].closed /\ stream[s].at \notin {"adding", "cleaning"}
      => ~stream[s].subscribed /\ ~stream[s].heartbeat
=============================================================================
