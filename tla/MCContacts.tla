------------------------------ MODULE MCContacts ------------------------------
(***************************************************************************)
(* What reaches the staff: conversations and reports, and suggestions.     *)
(* They share no state, so a behaviour exercises one of the two.           *)
(***************************************************************************)
EXTENDS ContactThreads, FiniteSets, TLC

CONSTANTS Ids, Moderators, Admins, SelfAppliers, Authors, Bot, Entries, Lists  \* Suggestions

VARIABLES part, suggestions, service, decisions, applied

\* Edits of both lists. The run has those of the attributes, which are rows: a list of
\* currencies behaves as they do or loses an entry.
ListEdits == [list : Lists, op : {"add", "remove"}, entry : Entries]

S == INSTANCE Suggestions WITH requests <- decisions, Edits <- ListEdits

ASSUME ProposalsAssumption == S!ConstantsDiffer

proposals == <<suggestions, service, decisions, applied>>

EitherInit ==
  /\ part \in {"threads", "proposals"} /\ Init /\ S!Init
  /\ part = "threads" => service.exists

EitherNext ==
  \/ part = "threads" /\ Next /\ UNCHANGED <<part, proposals>>
  \/ part = "proposals" /\ S!Next /\ UNCHANGED <<part, vars>>

EitherSpec == EitherInit /\ [][EitherNext]_<<part, vars, proposals>>

\* Two moderators at one suggestion, or one of them at two.
Load ==
  Cardinality({s \in Ids : S!IsUsed(s)}) + Cardinality({m \in Moderators : decisions[m].at # "idle"})
    <= 3

Symmetry ==
  Permutations(Threads) \cup Permutations(Requests) \cup Permutations(Users \ ServiceUsers)
    \cup Permutations(Ids) \cup Permutations(Entries)

(***************************************************************************)
(* No suggestion was approved by its author, except by an admin, or an     *)
(* edit by somebody who may apply their own (permissions.ts:40).           *)
(***************************************************************************)
SecondReviewer == part = "proposals" => S!SecondReviewer

(***************************************************************************)
(* Suggestions are decided as Decisions promises, whatever pages and       *)
(* checks are out of date (admin/serviceSuggestion.ts:57).                 *)
(***************************************************************************)
DecidesOnce == S!DecidesOnce
=============================================================================
