------------------------------ MODULE Decisions ------------------------------
(***************************************************************************)
(* What handling a suggestion promises.  It waits until somebody decides   *)
(* it, and a decision may be revised, except for the approval of an edit:  *)
(* the edit reaches the service in the step that approves it, at most      *)
(* once, and that decision is final.                                       *)
(***************************************************************************)
CONSTANTS Suggestions

VARIABLES
  decision,   \* what became of each suggestion
  edits,      \* the suggestions that change fields when they are approved
  applied     \* the edits that reached the service

vars == <<decision, edits, applied>>

Init ==
  /\ decision = [s \in Suggestions |-> "NONE"]
  /\ edits = {}
  /\ applied = {}

Submit(s) ==
  /\ decision[s] = "NONE"
  /\ decision' = [decision EXCEPT ![s] = "OPEN"]
  /\ edits' \in {edits, edits \cup {s}}
  /\ UNCHANGED applied

ApplyEdit(s) ==
  /\ decision[s] = "OPEN"
  /\ s \in edits \ applied
  /\ decision' = [decision EXCEPT ![s] = "APPROVED"]
  /\ applied' = applied \cup {s}
  /\ UNCHANGED edits

Decide(s, d) ==
  /\ decision[s] # "NONE"
  /\ s \notin applied
  /\ d = "APPROVED" => s \notin edits
  /\ decision' = [decision EXCEPT ![s] = d]
  /\ UNCHANGED <<edits, applied>>

\* A newer proposal withdraws older ones in the step that submits it.
Supersede(s, older) ==
  /\ decision[s] = "NONE"
  /\ \A o \in older : decision[o] = "OPEN" /\ o \notin edits
  /\ decision' = [o \in Suggestions |->
                    IF o = s THEN "OPEN" ELSE IF o \in older THEN "WITHDRAWN" ELSE decision[o]]
  /\ UNCHANGED <<edits, applied>>

Next ==
  \E s \in Suggestions :
    \/ Submit(s)
    \/ ApplyEdit(s)
    \/ \E d \in {"OPEN", "APPROVED", "REJECTED", "WITHDRAWN"} : Decide(s, d)
    \/ \E older \in SUBSET (Suggestions \ {s}) : Supersede(s, older)

Spec == Init /\ [][Next]_vars
=============================================================================
