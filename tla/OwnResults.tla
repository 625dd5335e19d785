------------------------------- MODULE OwnResults -------------------------------
(***************************************************************************)
(* What sending a form promises: it is carried out at most once, and only  *)
(* then shown, in the browser it was sent from.                            *)
(***************************************************************************)
EXTENDS Integers

CONSTANTS Tabs, Forms

VARIABLES
  owner,   \* the browser of each tab
  sender,  \* the tab each form was sent from
  runs,    \* how often each was carried out
  shown    \* the form whose result each tab shows, 0 for none

vars == <<owner, sender, runs, shown>>

Init ==
  /\ sender = [n \in {} |-> {}] /\ runs = sender
  /\ shown = [t \in Tabs |-> 0]

Send(t, n) ==
  /\ n \notin DOMAIN sender
  /\ sender' = [i \in DOMAIN sender \cup {n} |-> IF i = n THEN t ELSE sender[i]]
  /\ runs' = [i \in DOMAIN sender' |-> IF i = n THEN 0 ELSE runs[i]]
  /\ UNCHANGED <<owner, shown>>

Run(n) ==
  /\ runs[n] = 0
  /\ runs' = [runs EXCEPT ![n] = 1]
  /\ UNCHANGED <<owner, sender, shown>>

Show(t, n) ==
  /\ n # 0 => runs[n] = 1 /\ owner[sender[n]] = owner[t]
  /\ shown' = [shown EXCEPT ![t] = n]
  /\ UNCHANGED <<owner, sender, runs>>

Next ==
  \/ \E t \in Tabs, n \in {0} \cup DOMAIN sender : Show(t, n)
  \/ \E t \in Tabs, n \in Forms : Send(t, n)
  \/ \E n \in DOMAIN sender : Run(n)

Spec == Init /\ [][Next]_vars
=============================================================================
