----------------------------- MODULE MCServicePages -----------------------------
(***************************************************************************)
(* What the pages of a service rest on.  Its moderators keep a listing, a  *)
(* timeline of events with their incidents, and case reports; readers      *)
(* learn whether a post's proof was asked for and sent, how what it        *)
(* reports ended, the word the summary puts on all posts, and what the     *)
(* page makes of the facts on record.  These share no row but incidents:   *)
(* Incidents follows requests that overlap, ServiceFacts what one incident *)
(* costs from day to day; and Verdicts leaves free what ProofRequests      *)
(* would say of a proof.  So a behaviour exercises one of them.            *)
(***************************************************************************)
EXTENDS Incidents, TLC

CONSTANTS
  Users, Staff, CaseUpdates, Exhibits, Images, MaxCaseStamps,  \* Cases
  Slugs, Visibilities, Patterns, Checks,                 \* Listings
  Bodies, Findings, MaxEvidence, MaxRequests, MaxTime, RequestDays, Gone,  \* ProofRequests
  Authors, Newcomers, Sentiments, MaxPosts, MinimumVerdictPosts, MinimumCheckedBasis,  \* Verdicts
  Updates, MaxStamps,                                    \* Outcomes
  Rows, Attributes, Days, EventKinds, Severities, Closings, Overrides, MinVisible  \* ServiceFacts

VARIABLES
  part,
  case, participants, caseUpdates, caseEvidence, disk, caseStamps, caseAsked,
  listing, proofs, editing, named, disturbed,
  now, author, post, evidence, requests, sending,
  posts, aged, deleted,
  tags, outcome, resolvedAt, updates, stamps, said,
  today, row, status, approved, recent, has, score, entry, check

\* A young service nobody may use unnamed, and one that needs no name; and what counts against one.
MCRows ==
  {[kyc |-> 0, onion |-> TRUE, monero |-> FALSE, tos |-> "read", since |-> None, registered |-> FALSE, policy |-> FALSE],
   [kyc |-> 3, onion |-> FALSE, monero |-> TRUE, tos |-> "unreadable", since |-> -300, registered |-> TRUE, policy |-> FALSE]}
MCAttributes == {[slug |-> "leaks", type |-> "BAD", category |-> "TRUST", privacy |-> 3, trust |-> -4]}

Report ==
  INSTANCE Cases WITH
    asked <- caseAsked, updates <- caseUpdates, evidence <- caseEvidence, stamps <- caseStamps,
    Updates <- CaseUpdates, Evidence <- Exhibits, MaxStamps <- MaxCaseStamps
Page == INSTANCE Listings WITH Editors <- Slots, Proofs <- Checks
Proof == INSTANCE ProofRequests
Summary == INSTANCE Verdicts
Ending == INSTANCE Outcomes
Facts ==
  INSTANCE ServiceFacts WITH
    now <- today, event <- entry, Findings <- {"FAILED"}, Steps <- Checks, Dates <- Days,
    Kinds <- EventKinds, Outcomes <- Closings

ASSUME PagesAssumption ==
  /\ Report!ConstantsDiffer /\ Page!ConstantsDiffer /\ Proof!ConstantsDiffer /\ Ending!ConstantsDiffer
  /\ Facts!ConstantsDiffer

report == <<case, participants, caseUpdates, caseEvidence, disk, caseStamps, caseAsked>>
page == <<listing, proofs, editing, named, disturbed>>
proof == <<now, author, post, evidence, requests, sending>>
summary == <<posts, aged, deleted>>
ending == <<tags, outcome, resolvedAt, updates, stamps, said>>
facts == <<today, row, status, approved, recent, has, score, entry, check>>

\* What does not run has one first state.
PagesInit ==
  /\ part \in {"timeline", "report", "page", "proof", "summary", "ending", "facts"}
  /\ Init /\ Report!Init /\ Page!Init /\ Proof!Init /\ Summary!Init /\ Ending!Init /\ Facts!Init
  /\ part # "report" => case.status = "DRAFT"
  /\ part # "proof" => post = "held" /\ evidence[1] = None
  /\ part # "ending" => tags = "none" /\ outcome = "UNSPECIFIED"
  /\ part # "facts" => row.kyc = 0 /\ status = "APPROVED" /\ \A e \in Events : entry[e] = None

PagesNext ==
  \/ part = "timeline" /\ Next /\ UNCHANGED <<part, report, page, proof, summary, ending, facts>>
  \/ part = "report" /\ Report!Next /\ UNCHANGED <<part, vars, page, proof, summary, ending, facts>>
  \/ part = "page" /\ Page!Next /\ UNCHANGED <<part, vars, report, proof, summary, ending, facts>>
  \/ part = "proof" /\ Proof!Next /\ UNCHANGED <<part, vars, report, page, summary, ending, facts>>
  \/ part = "summary" /\ Summary!Next /\ UNCHANGED <<part, vars, report, page, proof, ending, facts>>
  \/ part = "ending" /\ Ending!Next /\ UNCHANGED <<part, vars, report, page, proof, summary, facts>>
  \/ part = "facts" /\ Facts!Next /\ UNCHANGED <<part, vars, report, page, proof, summary, ending>>

PagesSpec == PagesInit /\ [][PagesNext]_<<part, vars, report, page, proof, summary, ending, facts>>

Symmetry == Permutations(Slots)

(***************************************************************************)
(* A case's dates say what its status says (case.ts:36).                   *)
(***************************************************************************)
DatesMatchStatus == part = "report" => Report!DatesMatchStatus

(***************************************************************************)
(* Old addresses lead to the service, and its proofs are classified by its *)
(* settings of today (service.ts:350, commentProof.ts:19).                 *)
(***************************************************************************)
EditsSettle == part = "page" => Page!EditsSettle

(***************************************************************************)
(* The filters leave a post out as unproven exactly when its page says     *)
(* that its request was not answered (experienceQueries.ts:52).            *)
(***************************************************************************)
SqlMirrorsPage == part = "proof" => Proof!SqlMirrorsPage

(***************************************************************************)
(* An author with a post that may count is counted once                    *)
(* (experienceQueries.ts:201).                                             *)
(***************************************************************************)
EveryVoiceCountsOnce == part = "summary" => Summary!EveryVoiceCountsOnce

(***************************************************************************)
(* What a moderator marked resolved outlives the withdrawal and restoring  *)
(* of earlier updates (13_comment_approved_at.sql:10).                     *)
(***************************************************************************)
ResolutionOutlivesRestores == Ending!ResolutionOutlivesRestores

(***************************************************************************)
(* The subtotals of the ledger are the stored scores, until the clock      *)
(* moves ([slug].astro:427).                                               *)
(***************************************************************************)
LedgerAddsUp == part = "facts" => Facts!LedgerAddsUp

(***************************************************************************)
(* What the top of the page names is not folded away                       *)
(* (serviceTimeline.ts:73).                                                *)
(***************************************************************************)
AnswersAreShown == part = "facts" => Facts!AnswersAreShown
=============================================================================
