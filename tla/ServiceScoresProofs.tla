-------------------------- MODULE ServiceScoresProofs --------------------------
(***************************************************************************)
(* ScoreInv is an invariant, for every set of attributes, points, changes  *)
(* and admins.                                                             *)
(*                                                                         *)
(* Nothing is used of the scores but what View says: they are functions of *)
(* the attributes a service has and of their points, and a change of an    *)
(* attribute that the service does not have leaves them alone.             *)
(***************************************************************************)
EXTENDS ServiceScores, TLAPS

(***************************************************************************)
(* A failed verification caps the overall score (02_service_score.sql:276).*)
(***************************************************************************)
LEMMA CappedScores ==
  ASSUME NEW view, NEW status, status = "VERIFICATION_FAILED"
  PROVE  ~(Scores(view, status).overall > 3)
<1>1. \A o : ~(Capped(o, status) > 3)
  BY DEF Capped
<1>2. PICK o : Scores(view, status).overall = Capped(o, status)
  BY DEF Scores, Overall
<1>3. QED
  BY <1>1, <1>2

(***************************************************************************)
(* Under the lock the triggers always compute the scores again: the writer *)
(* leaves the scores of the rows it will commit.                           *)
(***************************************************************************)
LEMMA WritesFresh ==
  ASSUME NEW w
  PROVE  Written(w) = Fresh(w)
BY DEF Written, Fires, Depth

LEMMA InitInvariant == Init => ScoreInv
<1> SUFFICES ASSUME Init PROVE ScoreInv
  OBVIOUS
<1> USE DEF Init, IdleTx, NoChange
<1>1. TypesInv
  BY DEF TypesInv
<1>2. ASSUME NEW w \in Writers PROVE TxInv(w)
  BY DEF TxInv, HasWritten, RowsOf
<1>3. ScoreIsCurrent /\ FailedIsCapped
  BY DEF ScoreIsCurrent, Correct, FailedIsCapped
<1>. QED BY <1>1, <1>2, <1>3 DEF ScoreInv

(***************************************************************************)
(* A step that leaves v's transaction and the committed rows alone, and    *)
(* does not take a lock away from v, keeps what is known of v.             *)
(***************************************************************************)
LEMMA Unmoved ==
  ASSUME NEW v \in Writers, TxInv(v), tx'[v] = tx[v],
         UNCHANGED <<points, links, verificationStatus>>, lock = v => lock' = v
  PROVE  TxInv(v)'
<1>1. Seen(v)' = Seen(v) /\ StatusOf(v)' = StatusOf(v) /\ HasWritten(v)' = HasWritten(v)
  BY DEF Seen, Changed, StatusOf, HasWritten
<1>2. Fresh(v)' = Fresh(v)
  BY <1>1 DEF Fresh, View
<1>. QED BY <1>1, <1>2 DEF TxInv, IdleTx

(***************************************************************************)
(* The steps of a transaction before its commit.                           *)
(***************************************************************************)
LEMMA TransactionGoesOn ==
  ASSUME ScoreInv, NEW w \in Writers,
         \/ \E change \in Changes, status \in StatusChoices \cup {"KEPT"} :
              w # Worker /\ EditService(w, change, status)
         \/ \E change \in Changes : w # Worker /\ ApplySuggestion(w, change)
         \/ \E change \in Changes : w # Worker /\ ChangeAttributes(w, change)
         \/ w = Worker /\ (TakeJob \/ MarkProcessed)
         \/ ReadTrust(w) \/ WriteScores(w) \/ Abort(w)
  PROVE  ScoreInv'
<1> USE DEF ScoreInv
<1>1. UNCHANGED <<points, links, verificationStatus, score, queued, outdated>>
  BY DEF EditService, ApplySuggestion, UpdateService, ChangeAttributes, TakeJob, MarkProcessed,
         ReadTrust, WriteScores, Abort
<1>2. /\ tx' = [v \in Writers |-> tx'[v]]
      /\ \A v \in Writers \ {w} : tx'[v] = tx[v] /\ (lock = v => lock' = v)
  <2>1. NoOne \notin Writers
    BY WritersAssumption DEF Writers
  <2>2. \E r : tx' = [tx EXCEPT ![w] = r]
    BY DEF EditService, ApplySuggestion, UpdateService, ChangeAttributes, TakeJob, MarkProcessed,
           ReadTrust, WriteScores, Abort, Finish, TypesInv
  <2>3. lock' = lock \/ lock = NoOne \/ lock = w
    BY DEF EditService, ApplySuggestion, UpdateService, ChangeAttributes, TakeJob, MarkProcessed,
           ReadTrust, WriteScores, Abort, Finish
  <2>. QED BY <2>1, <2>2, <2>3 DEF TypesInv
<1>3. TypesInv'
  BY <1>1, <1>2 DEF TypesInv
<1>4. \A v \in Writers \ {w} : TxInv(v)'
  BY <1>1, <1>2, Unmoved
<1>5. TxInv(w)'
  <2> USE DEF TxInv
  <2>1. Written(w) = Fresh(w)
    BY WritesFresh
  <2>2. ASSUME NEW change \in Changes, NEW status \in StatusChoices \cup {"KEPT"},
               NEW requeues \in BOOLEAN, w # Worker, UpdateService(w, change, status, requeues)
        PROVE  TxInv(w)'
    <3>1. tx'[w] = [at |-> "written", change |-> change, status |-> status,
                    requeues |-> requeues, privacy |-> 0, trust |-> 0,
                    score |-> Scores(View(Changed(change)),
                                     IF status = "KEPT" THEN verificationStatus ELSE status),
                    missed |-> FALSE]
      BY <2>2 DEF UpdateService, TypesInv, IdleTx
    <3>2. Seen(w)' = Changed(change)
          /\ StatusOf(w)' = IF status = "KEPT" THEN verificationStatus ELSE status
      BY <1>1, <3>1 DEF Seen, Changed, StatusOf
    <3>3. tx'[w].score = Fresh(w)'
      BY <1>1, <3>1, <3>2 DEF Fresh, View
    <3>4. Fresh(w)' = Scores(View(Seen(w))', StatusOf(w)')
      BY DEF Fresh
    <3>5. StatusOf(w)' = "VERIFICATION_FAILED" => ~(tx'[w].score.overall > 3)
      BY <3>3, <3>4, CappedScores
    <3>6. RowsOf(tx'[w].change) \subseteq Attributes
      BY <3>1, InputsAssumption DEF RowsOf
    <3>. QED BY <2>2, <3>1, <3>3, <3>5, <3>6 DEF UpdateService, HasWritten, IdleTx
  <2>3. ASSUME NEW change \in Changes, w # Worker, ChangeAttributes(w, change)
        PROVE  TxInv(w)'
    <3>1. tx'[w] = [at |-> "open", change |-> change, status |-> "KEPT", requeues |-> FALSE,
                    privacy |-> PrivacyScore(View(Changed(change))), trust |-> 0,
                    score |-> NoScore, missed |-> FALSE]
      BY <2>3 DEF ChangeAttributes, TypesInv, IdleTx
    <3>. QED BY <2>3, <3>1, InputsAssumption DEF RowsOf, HasWritten, IdleTx
  <2>4. CASE w = Worker /\ TakeJob
    <3>1. tx'[w] = [at |-> "open", change |-> NoChange, status |-> "KEPT", requeues |-> FALSE,
                    privacy |-> PrivacyScore(View(links)), trust |-> 0,
                    score |-> NoScore, missed |-> FALSE]
      BY <2>4 DEF TakeJob, TypesInv, IdleTx
    <3>. QED BY <3>1 DEF RowsOf, HasWritten, IdleTx, NoChange
  <2>5. CASE w = Worker /\ MarkProcessed
    <3>1. tx'[w] = [tx[w] EXCEPT !.at = "marked"]
      BY <2>5 DEF MarkProcessed, TypesInv
    <3>2. Seen(w)' = Seen(w) /\ StatusOf(w)' = StatusOf(w) /\ tx'[w].missed = tx[w].missed
          /\ tx'[w].score = tx[w].score /\ tx'[w].change = tx[w].change
          /\ tx'[w].status = tx[w].status /\ DOMAIN tx'[w] = DOMAIN tx[w]
      BY <1>1, <3>1 DEF Seen, Changed, StatusOf, IdleTx
    <3>3. Fresh(w)' = Fresh(w)
      BY <1>1, <3>2 DEF Fresh, View
    <3>4. HasWritten(w) /\ lock' = lock
      BY <2>5 DEF MarkProcessed, HasWritten
    <3>. QED BY <3>2, <3>3, <3>4 DEF IdleTx
  <2>6. CASE ReadTrust(w)
    <3>1. /\ tx'[w].at = "ready" /\ DOMAIN tx'[w] = DOMAIN tx[w]
          /\ tx'[w].change = tx[w].change /\ tx'[w].status = tx[w].status
      BY <2>6 DEF ReadTrust, TypesInv, IdleTx
    <3>. QED BY <3>1 DEF HasWritten, IdleTx
  <2>7. CASE WriteScores(w)
    <3>1. /\ tx'[w].at = "written" /\ DOMAIN tx'[w] = DOMAIN tx[w]
          /\ tx'[w].change = tx[w].change /\ tx'[w].status = tx[w].status
          /\ tx'[w].score = Written(w) /\ lock' = w
      BY <2>7 DEF WriteScores, TypesInv, IdleTx
    <3>2. Seen(w)' = Seen(w) /\ StatusOf(w)' = StatusOf(w)
      BY <1>1, <3>1 DEF Seen, Changed, StatusOf
    <3>3. Fresh(w)' = Fresh(w)
      BY <1>1, <3>2 DEF Fresh, View
    <3>4. StatusOf(w)' = "VERIFICATION_FAILED" => ~(tx'[w].score.overall > 3)
      BY <2>1, <3>1, <3>2, CappedScores DEF Fresh
    <3>. QED BY <2>1, <3>1, <3>3, <3>4 DEF IdleTx
  <2>8. CASE Abort(w)
    <3>1. tx'[w] = IdleTx
      BY <2>8 DEF Abort, Finish, TypesInv
    <3>. QED BY <3>1 DEF IdleTx, NoChange, RowsOf, HasWritten
  <2>. QED
    BY <2>2, <2>3, <2>4, <2>5, <2>6, <2>7, <2>8 DEF EditService, ApplySuggestion
<1>6. ScoreIsCurrent' /\ FailedIsCapped'
  BY <1>1 DEF ScoreIsCurrent, FailedIsCapped, Correct, View
<1>. QED BY <1>3, <1>4, <1>5, <1>6

(***************************************************************************)
(* A commit: the scores it publishes are those of the rows it leaves.      *)
(***************************************************************************)
LEMMA CommitsKeep ==
  ASSUME ScoreInv, NEW w \in Writers, Commit(w) \/ (w = Worker /\ CommitJob)
  PROVE  ScoreInv'
<1> USE DEF ScoreInv
<1>1. /\ links' = Seen(w) /\ verificationStatus' = StatusOf(w) /\ score' = tx[w].score
      /\ outdated' = tx[w].missed /\ points' = points /\ HasWritten(w)
  BY DEF Commit, CommitJob, TxInv, Seen, Changed, StatusOf, NoChange, HasWritten
<1>2. tx' = [tx EXCEPT ![w] = IdleTx] /\ lock = w
  BY <1>1 DEF Commit, CommitJob, Finish, TxInv
<1>3. TypesInv'
  BY <1>1, <1>2 DEF TypesInv, Seen, Changed, TxInv, RowsOf
<1>4. TxInv(w)'
  BY <1>2 DEF TypesInv, TxInv, HasWritten, RowsOf, IdleTx, NoChange
<1>5. ASSUME NEW v \in Writers \ {w} PROVE TxInv(v)'
  <2>1. tx'[v] = tx[v] /\ ~HasWritten(v)
    BY <1>2 DEF TypesInv, TxInv
  <2>. QED BY <2>1 DEF TxInv, HasWritten
<1>6. Fresh(w) = Correct'
  BY <1>1 DEF Fresh, Correct, View
<1>7. ScoreIsCurrent' /\ FailedIsCapped'
  BY <1>1, <1>6 DEF ScoreIsCurrent, FailedIsCapped, TxInv
<1>. QED BY <1>3, <1>4, <1>5, <1>7

(***************************************************************************)
(* Points change: whoever counted the attribute missed it, and the service *)
(* that has it is queued.                                                  *)
(***************************************************************************)
LEMMA PointsKeep ==
  ASSUME ScoreInv, NEW a \in Attributes, NEW p \in Points, UpdateAttribute(a, p)
  PROVE  ScoreInv'
<1> USE DEF ScoreInv
<1>1. UNCHANGED <<links, verificationStatus, score, lock, outdated>>
      /\ points' = [points EXCEPT ![a] = p]
  BY DEF UpdateAttribute
<1>2. TypesInv'
  BY <1>1 DEF TypesInv, UpdateAttribute
<1>3. ASSUME NEW w \in Writers PROVE TxInv(w)'
  <2>1. tx'[w] = [tx[w] EXCEPT !.missed = @ \/ (HasWritten(w) /\ a \in Seen(w))]
    BY DEF UpdateAttribute, HasWritten
  <2>2. /\ DOMAIN tx'[w] = DOMAIN tx[w]
        /\ tx'[w].at = tx[w].at /\ tx'[w].change = tx[w].change
        /\ tx'[w].status = tx[w].status /\ tx'[w].score = tx[w].score
        /\ tx'[w].missed = (tx[w].missed \/ (HasWritten(w) /\ a \in Seen(w)))
    BY <2>1 DEF TxInv, IdleTx
  <2>3. Seen(w)' = Seen(w) /\ StatusOf(w)' = StatusOf(w) /\ HasWritten(w)' = HasWritten(w)
    BY <1>1, <2>2 DEF Seen, Changed, StatusOf, HasWritten
  <2>4. Seen(w) \in SUBSET Attributes
    BY DEF TypesInv, TxInv, Seen, Changed, RowsOf
  <2>5. a \notin Seen(w) => Fresh(w)' = Fresh(w)
    <3>1. a \notin Seen(w) => View(Seen(w))' = View(Seen(w))
      BY <1>1, <2>3, <2>4 DEF View, TypesInv
    <3>. QED BY <2>3, <3>1 DEF Fresh
  <2>. QED BY <1>1, <2>2, <2>3, <2>5 DEF TxInv, IdleTx
<1>4. ScoreIsCurrent'
  <2>1. CASE a \in links
    BY <2>1 DEF ScoreIsCurrent, UpdateAttribute, Queues
  <2>2. CASE a \notin links
    <3>1. View(links)' = View(links)
      BY <1>1, <2>2 DEF View, TypesInv
    <3>2. queued => queued'
      BY <2>2 DEF UpdateAttribute, Queues
    <3>. QED BY <1>1, <3>1, <3>2 DEF ScoreIsCurrent, Correct
  <2>. QED BY <2>1, <2>2
<1>5. FailedIsCapped'
  BY <1>1 DEF FailedIsCapped
<1>. QED BY <1>2, <1>3, <1>4, <1>5

LEMMA StepInvariant == ScoreInv /\ [Next]_vars => ScoreInv'
<1> SUFFICES ASSUME ScoreInv, [Next]_vars PROVE ScoreInv'
  OBVIOUS
<1>1. ASSUME NEW m \in Admins, AdminStep(m) PROVE ScoreInv'
  <2>1. m \in Writers /\ m # Worker
    BY WritersAssumption DEF Writers
  <2>. QED BY <1>1, <2>1, TransactionGoesOn, CommitsKeep DEF AdminStep
<1>2. CASE TakeJob \/ MarkProcessed
  BY <1>2, TransactionGoesOn DEF Writers
<1>3. CASE CommitJob
  BY <1>3, CommitsKeep DEF Writers
<1>4. ASSUME NEW w \in Writers, ReadTrust(w) \/ WriteScores(w) \/ Abort(w) PROVE ScoreInv'
  BY <1>4, TransactionGoesOn
<1>5. ASSUME NEW a \in Attributes, NEW p \in Points, UpdateAttribute(a, p) PROVE ScoreInv'
  BY <1>5, PointsKeep
<1>6. CASE QueueAll \/ UNCHANGED vars
  <2>1. UNCHANGED <<points, links, verificationStatus, score, lock, tx, outdated>>
        /\ (queued => queued')
    BY <1>6 DEF QueueAll, vars
  <2>2. \A w \in Writers : TxInv(w)'
    BY <2>1, Unmoved DEF ScoreInv
  <2>. QED
    BY <2>1, <2>2 DEF ScoreInv, TypesInv, ScoreIsCurrent, FailedIsCapped, Correct, View
<1>. QED BY <1>1, <1>2, <1>3, <1>4, <1>5, <1>6 DEF Next

(***************************************************************************)
(* ScoreInv holds in every reachable state.                                *)
(***************************************************************************)
THEOREM ScoresInvariant == Spec => []ScoreInv
BY InitInvariant, StepInvariant, PTL DEF Spec

(***************************************************************************)
(* Transactions never lose each other's part of a service's score.         *)
(***************************************************************************)
THEOREM ScoresAreCurrent == Spec => []ScoreIsCurrent
<1>1. ScoreInv => ScoreIsCurrent
  BY DEF ScoreInv
<1>. QED BY <1>1, ScoresInvariant, PTL

(***************************************************************************)
(* A service whose verification failed never shows more than 3.            *)
(***************************************************************************)
THEOREM FailedServicesAreCapped == Spec => []FailedIsCapped
<1>1. ScoreInv => FailedIsCapped
  BY DEF ScoreInv
<1>. QED BY <1>1, ScoresInvariant, PTL

=============================================================================
