------------------------------ MODULE LegalScans ------------------------------
(***************************************************************************)
(* Scans of the services' legal documents.  Two threads of the Python      *)
(* worker scan: one drains the queue of jobs that admins request, one      *)
(* sweeps the services that no scan has read yet, or whose documents are   *)
(* known to have moved.  A scan crawls the document, records what changed, *)
(* asks the model and stamps the service; each write commits on its own    *)
(* and swallows its failure.  The worker may stop anywhere.                *)
(*                                                                         *)
(* Each service has one document, and a version stands for its text.  The  *)
(* proposals a scan saves are those of the module Suggestions.             *)
(***************************************************************************)
EXTENDS Integers, SequencesExt

CONSTANTS
  Services,      \* public services with terms, in the order of their ids
  Requestable,   \* bound: the services admins ask a scan of
  Limit,         \* SCAN_SWEEP_LIMIT
  MaxVersions,   \* bound: how often documents change
  MaxRequests,   \* bound: how often admins ask for a scan
  MaxFaults      \* bound: crashes and failed writes

ASSUME BoundsAssumption ==
  /\ MaxVersions \in Nat /\ MaxRequests \in Nat /\ MaxFaults \in Nat
  /\ Limit \in Nat \ {0} /\ Requestable \subseteq Services

VARIABLES
  published,   \* the text each service publishes
  stored,      \* "ServiceLegalDocument"
  stamp,       \* lastLegalScanAt: never, or after or before tosChangedAt
  turns,       \* the services by lastLegalScanAttemptAt
  jobs,        \* "ServiceScanJob", not processed, oldest first
  claims,      \* claimedAt of the jobs
  asking,      \* requests between their checks and their write
  threads,     \* what each thread of the worker is doing
  requested, faults

tables == <<stored, stamp, turns, jobs, claims>>
vars == <<published, tables, asking, threads, requested, faults>>

Threads == {"deep_scan", "scan_sweep"}
Versions == 0..MaxVersions
NoVersion == -1   \* not stored
Gone == -2        \* the page answers 404 or 410
Blocked == -3     \* a challenge, an error, a page without terms

Document == [version : Versions \cup {NoVersion}, removed : BOOLEAN]

\* found: what the crawl brought.  previous: the stored text it is compared with.
Thread == [at : {"wait", "crawl", "compare", "store", "revise", "ask", "answered", "failed",
                 "stamp", "done"},
           todo : Seq(Services),
           found : Versions \cup {NoVersion, Gone, Blocked},
           previous : Versions \cup {NoVersion}]
Waiting == [at |-> "wait", todo |-> <<>>, found |-> NoVersion, previous |-> NoVersion]

TypeOK ==
  /\ published \in [Services -> Versions]
  /\ stored \in [Services -> Document]
  /\ stamp \in [Services -> {"NEVER", "CURRENT", "STALE"}]
  /\ ToSet(turns) = Services /\ IsInjective(turns)
  /\ ToSet(jobs) \subseteq Services /\ IsInjective(jobs)
  /\ claims \in [Services -> {"NONE", "LIVE", "LATE"}]
  /\ asking \subseteq Services
  /\ threads \in [Threads -> Thread]
  /\ requested \in 0..MaxRequests /\ faults \in 0..MaxFaults

-----------------------------------------------------------------------------
Init ==
  /\ published = [s \in Services |-> 0]
  /\ stored = [s \in Services |-> [version |-> NoVersion, removed |-> FALSE]]
  /\ stamp = [s \in Services |-> "NEVER"]
  /\ turns = SetToSeq(Services)
  /\ jobs = <<>>
  /\ claims = [s \in Services |-> "NONE"]
  /\ asking = {}
  /\ threads = [t \in Threads |-> Waiting]
  /\ requested = 0 /\ faults = 0

\* A service publishes a new text.
Publish(s) ==
  /\ \A other \in Services : published[other] < MaxVersions
  /\ published' = [published EXCEPT ![s] = @ + 1]
  /\ UNCHANGED <<tables, asking, threads, requested, faults>>

(***************************************************************************)
(* An admin's request is refused while a worker holds the job; the write   *)
(* that follows resets the job without looking again.                      *)
(***************************************************************************)
IsQueued(s) == s \in ToSet(jobs)

CheckRequest(s) ==
  /\ s \in Requestable /\ requested < MaxRequests
  /\ ~(IsQueued(s) /\ claims[s] = "LIVE")
  /\ asking' = asking \cup {s}
  /\ requested' = requested + 1
  /\ UNCHANGED <<published, tables, threads, faults>>

Enqueue(s) ==
  /\ s \in asking
  /\ asking' = asking \ {s}
  /\ jobs' = Append(Remove(jobs, s), s)
  /\ claims' = [claims EXCEPT ![s] = "NONE"]
  /\ UNCHANGED <<published, stored, stamp, turns, threads, requested, faults>>

\* SERVICE_SCAN_CLAIM_TIMEOUT_MINUTES pass, whether the thread that claimed the job lives or not.
ClaimExpires(s) ==
  /\ IsQueued(s) /\ claims[s] = "LIVE"
  /\ claims' = [claims EXCEPT ![s] = "LATE"]
  /\ UNCHANGED <<published, stored, stamp, turns, jobs, asking, threads, requested, faults>>

\* The worker ends, on a signal or not, with its daemon threads, and its container starts again.
CrashAndRestart ==
  /\ faults < MaxFaults
  /\ faults' = faults + 1
  /\ threads' = [t \in Threads |-> Waiting]
  /\ UNCHANGED <<published, tables, asking, requested>>

-----------------------------------------------------------------------------
Go(t, at) == threads' = [threads EXCEPT ![t].at = at]

\* claim_next_scan_job: the oldest job that nobody holds. Mutation: a late claim is not taken over.
IsFree(s) == claims[s] = "NONE"
IsClaimable(s) == claims[s] # "LIVE"

Claim ==
  LET free == SelectSeq(jobs, IsClaimable) IN
  /\ threads["deep_scan"].at = "wait"
  /\ free # <<>>
  /\ claims' = [claims EXCEPT ![Head(free)] = "LIVE"]
  /\ threads' = [threads EXCEPT !["deep_scan"] = [Waiting EXCEPT !.at = "crawl",
                                                                 !.todo = <<Head(free)>>]]
  /\ UNCHANGED <<published, stored, stamp, turns, jobs, asking, requested, faults>>

\* fetch_services_needing_scan: at most Limit, the least recently tried first.
NeedsScan(s) == stamp[s] # "CURRENT"

Sweep ==
  LET due == SelectSeq(turns, NeedsScan) IN
  /\ threads["scan_sweep"].at = "wait"
  /\ due # <<>>
  /\ threads' = [threads EXCEPT !["scan_sweep"] =
                   [Waiting EXCEPT !.at = "crawl",
                                   !.todo = IF Len(due) <= Limit THEN due
                                            ELSE SubSeq(due, 1, Limit)]]
  /\ UNCHANGED <<published, tables, asking, requested, faults>>

(***************************************************************************)
(* One scan.  The crawl is compared with the document as it is read after  *)
(* the crawl.                                                              *)
(***************************************************************************)
Subject(t) == Head(threads[t].todo)

Crawl(t) ==
  /\ threads[t].at = "crawl"
  /\ \E found \in {published[Subject(t)], Gone, Blocked} :
       threads' = [threads EXCEPT ![t].at = "compare", ![t].found = found]
  /\ UNCHANGED <<published, tables, asking, requested, faults>>

IsReadable(t) == threads[t].found \in Versions

\* Only a page that is gone, or that is readable again, says that it was withdrawn or restored.
AvailabilityChanged(t) ==
  LET document == stored[Subject(t)] IN
  /\ document.version # NoVersion
  /\ \/ threads[t].found = Gone /\ ~document.removed
     \/ IsReadable(t) /\ document.removed

\* create_legal_revision dates the change; a failure is swallowed.
WriteRevision(s) ==
  \/ /\ stamp' = [stamp EXCEPT ![s] = IF @ = "NEVER" THEN "NEVER" ELSE "STALE"]
     /\ UNCHANGED faults
  \/ /\ faults < MaxFaults
     /\ faults' = faults + 1
     /\ UNCHANGED stamp

\* get_legal_documents and the revision of a page that went or came back.
Compare(t) ==
  /\ threads[t].at = "compare"
  /\ threads' = [threads EXCEPT ![t].at = "store", ![t].previous = stored[Subject(t)].version]
  /\ IF AvailabilityChanged(t) THEN WriteRevision(Subject(t)) ELSE UNCHANGED <<stamp, faults>>
  /\ UNCHANGED <<published, stored, turns, jobs, claims, asking, requested>>

\* What is kept of the page: the text that was read, or that it is gone.
Kept(t) ==
  LET document == stored[Subject(t)] IN
  CASE IsReadable(t) -> [version |-> threads[t].found, removed |-> FALSE]
    [] threads[t].found = Gone /\ threads[t].previous # NoVersion -> [document EXCEPT !.removed = TRUE]
    [] OTHER -> document

TextChanged(t) ==
  /\ IsReadable(t)
  /\ threads[t].previous # NoVersion
  /\ threads[t].found # threads[t].previous

StoreDocument(t) ==
  /\ threads[t].at = "store"
  /\ stored' = [stored EXCEPT ![Subject(t)] = Kept(t)]
  /\ threads' = [threads EXCEPT ![t].at = IF TextChanged(t) THEN "revise"
                                          ELSE IF IsReadable(t) THEN "ask" ELSE "failed",
                                ![t].found = NoVersion, ![t].previous = NoVersion]
  /\ UNCHANGED <<published, stamp, turns, jobs, claims, asking, requested, faults>>

RecordRevision(t) ==
  /\ threads[t].at = "revise"
  /\ WriteRevision(Subject(t))
  /\ Go(t, "ask")
  /\ UNCHANGED <<published, stored, turns, jobs, claims, asking, requested>>

\* The model answers, with something to propose or not, or it fails.
Ask(t) ==
  /\ threads[t].at = "ask"
  /\ Go(t, "answered") \/ Go(t, "failed")
  /\ UNCHANGED <<published, tables, asking, requested, faults>>

\* mark_service_scan_attempted, however the scan ended. Mutation: only after an answer.
TurnsAfterAnswer(t) ==
  IF threads[t].at = "answered" THEN Append(Remove(turns, Subject(t)), Subject(t)) ELSE turns
TurnsAfter(t) == Append(Remove(turns, Subject(t)), Subject(t))

MarkAttempted(t) ==
  /\ threads[t].at \in {"answered", "failed"}
  /\ turns' = TurnsAfter(t)
  /\ Go(t, IF threads[t].at = "answered" THEN "stamp" ELSE "done")
  /\ UNCHANGED <<published, stored, stamp, jobs, claims, asking, requested, faults>>

\* Only an answer counts as having looked.
MarkScanned(t) ==
  /\ threads[t].at = "stamp"
  /\ stamp' = [stamp EXCEPT ![Subject(t)] = "CURRENT"]
  /\ Go(t, "done")
  /\ UNCHANGED <<published, stored, turns, jobs, claims, asking, requested, faults>>

\* mark_scan_job_done does not look who claimed the job. It may fail.
MarkJobDone ==
  LET t == "deep_scan" IN
  /\ threads[t].at = "done"
  /\ \/ jobs' = Remove(jobs, Subject(t)) /\ UNCHANGED faults
     \/ faults < MaxFaults /\ faults' = faults + 1 /\ UNCHANGED jobs
  /\ threads' = [threads EXCEPT ![t] = Waiting]
  /\ UNCHANGED <<published, stored, stamp, turns, claims, asking, requested>>

NextOfSweep ==
  LET t == "scan_sweep"
      rest == Tail(threads[t].todo) IN
  /\ threads[t].at = "done"
  /\ threads' = [threads EXCEPT ![t] =
                   IF rest = <<>> THEN Waiting ELSE [Waiting EXCEPT !.at = "crawl", !.todo = rest]]
  /\ UNCHANGED <<published, tables, asking, requested, faults>>

-----------------------------------------------------------------------------
ScanStep(t) ==
  \/ Crawl(t) \/ Compare(t) \/ StoreDocument(t) \/ RecordRevision(t)
  \/ Ask(t) \/ MarkAttempted(t) \/ MarkScanned(t)

QueueThread == Claim \/ ScanStep("deep_scan") \/ MarkJobDone
SweepThread == Sweep \/ ScanStep("scan_sweep") \/ NextOfSweep

Next ==
  \/ \E s \in Services : Publish(s) \/ CheckRequest(s) \/ Enqueue(s) \/ ClaimExpires(s)
  \/ CrashAndRestart
  \/ QueueThread \/ SweepThread

(***************************************************************************)
(* The scheduler keeps starting both tasks, which end; claims grow old, and *)
(* a request that was let through is written.                              *)
(***************************************************************************)
Fairness ==
  /\ WF_vars(QueueThread) /\ WF_vars(SweepThread)
  /\ \A s \in Services : WF_vars(ClaimExpires(s)) /\ WF_vars(Enqueue(s))

Spec == Init /\ [][Next]_vars
FairSpec == Spec /\ Fairness

-----------------------------------------------------------------------------
(* Properties *)

(***************************************************************************)
(* Every requested scan is answered, with a proposal or an error, although *)
(* the worker that claimed it may die with the claim, or fail to say that  *)
(* it is done (database.py:394).                                           *)
(***************************************************************************)
JobsAreAnswered == \A s \in Services : IsQueued(s) ~> ~IsQueued(s)

(***************************************************************************)
(* A service that a sweep has to look at gets its turn, although another   *)
(* one fails every night (database.py:517).                                *)
(***************************************************************************)
IsBeingScanned(s) == \E t \in Threads : threads[t].at = "crawl" /\ Subject(t) = s

EveryServiceGetsItsTurn ==
  \A s \in Services : NeedsScan(s) ~> (~NeedsScan(s) \/ IsBeingScanned(s))
=============================================================================
