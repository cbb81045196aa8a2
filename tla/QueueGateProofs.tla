-------------------------- MODULE QueueGateProofs --------------------------
(***************************************************************************)
(* What keeps an attempt from running: unfinished dependencies, and a stop *)
(* that an operator sent before it started.                                *)
(*                                                                         *)
(* DependenciesFirst is not inductive: a claim looks at the row, not at    *)
(* the dependencies.  GateInv says which rows have passed that gate: the   *)
(* queued ones, those on a hold that only queued or active rows get, and   *)
(* those a handler is about to release.                                    *)
(*                                                                         *)
(* StopHolds needs StopInv: while a stop of an unstarted attempt is        *)
(* pending the attempt stays unstarted, and what ended an operation as     *)
(* applied or lost has ended its attempt for good.                         *)
(***************************************************************************)
EXTENDS WorkControlProofs

\* The holds only a row past the gate is put on.
PastHolds == {"trust", "governance", "runtime", "interrupted"}

Done(d)     == status[d] = "completed" \/ tomb[d] = "completed"
DepsDone(j) == \A d \in Deps(j) : Done(d)

Past(j) ==
    \/ status[j] \in Active \cup {"queued", "abandoned"}
    \/ status[j] = "blocked" /\ hold[j] \in PastHolds
    \/ writer[j] = "queue"

GateInv ==
    /\ DOMAIN hold = Jobs
    /\ DOMAIN writer = Jobs
    /\ \A j \in Jobs : Past(j) => DepsDone(j)

LEMMA DepsAreJobs ==
    ASSUME NEW j \in Jobs
    PROVE  Deps(j) \subseteq Jobs
  BY QueueAssumption DEF Deps

LEMMA ReadyIsDone ==
    ASSUME NEW j \in Jobs, Ready(status, j)
    PROVE  DepsDone(j)
  BY DEF Ready, DepsDone, Done

\* A step keeps what is done, and takes no row past the gate whose
\* dependencies are open.
LEMMA GateStep ==
    ASSUME GateInv, DOMAIN hold' = Jobs, DOMAIN writer' = Jobs,
           \A d \in Jobs : Done(d) => Done(d)',
           \A k \in Jobs : Past(k)' => Past(k) \/ DepsDone(k) \/ DepsDone(k)'
    PROVE  GateInv'
  <1>1. \A k \in Jobs : DepsDone(k) => DepsDone(k)'
    BY DepsAreJobs DEF DepsDone
  <1> QED
    BY <1>1 DEF GateInv

\* One row moves; the handlers stay, or one of them loses what it held.
LEMMA SetRowGate ==
    ASSUME QueueInv, GateInv, NEW j \in Jobs, NEW s, NEW h, NEW w, NEW a, NEW p,
           SetRow(j, s, h, w, a, p), status[j] # "completed", UNCHANGED tomb,
           DOMAIN writer' = Jobs, \A k \in Jobs : writer'[k] = "queue" => writer[k] = "queue",
           \/ Past(j) \/ DepsDone(j)
           \/ s \notin Active \cup {"queued", "abandoned", "blocked"}
           \/ s = "blocked" /\ h \notin PastHolds
    PROVE  GateInv'
  <1>1. DOMAIN status = Jobs /\ DOMAIN hold = Jobs
    BY DEF QueueInv, RowsOK, Columns, GateInv
  <1>2. /\ status'[j] = s /\ hold'[j] = h
        /\ DOMAIN hold' = Jobs
        /\ \A k \in Jobs \ {j} : status'[k] = status[k] /\ hold'[k] = hold[k]
    BY <1>1 DEF SetRow
  <1>3. \A d \in Jobs : Done(d) => Done(d)'
    BY <1>2 DEF Done
  <1>4. \A k \in Jobs : Past(k)' => Past(k) \/ DepsDone(k)
    BY <1>2 DEF Past, Active
  <1> QED
    BY <1>2, <1>3, <1>4, GateStep

\* The rows stay.
LEMMA RowsGate ==
    ASSUME QueueInv, GateInv, UNCHANGED <<rowVars, tomb>>, DOMAIN writer' = Jobs,
           \A k \in Jobs : writer'[k] = "queue" => writer[k] = "queue" \/ DepsDone(k)
    PROVE  GateInv'
  <1>1. \A d \in Jobs : Done(d) => Done(d)'
    BY DEF Done, rowVars
  <1>2. \A k \in Jobs : Past(k)' => Past(k) \/ DepsDone(k)
    BY DEF Past, rowVars
  <1> QED
    BY <1>1, <1>2, GateStep DEF GateInv, rowVars

\* Dependents are released when all they wait for is completed in st.
LEMMA UnblockedGate ==
    ASSUME QueueInv, GateInv, NEW st, NEW pr, NEW hd,
           status' = Unblocked(st, pr), hold' = UnblockedHold(st, pr, hd), UNCHANGED <<tomb, writer>>,
           \A k \in Jobs : \/ st[k] = status[k] /\ hd[k] = hold[k]
                           \/ st[k] = "completed"
    PROVE  GateInv'
  <1>1. /\ DOMAIN hold' = Jobs
        /\ \A k \in Jobs : hold'[k] = hd[k] \/ hold'[k] = "none"
    BY DEF UnblockedHold
  <1>2. \A k \in Jobs : \/ status'[k] = st[k]
                        \/ st[k] = "blocked" /\ status'[k] \in {"neutral", "failed", "blocked"}
                        \/ st[k] = "blocked" /\ status'[k] = "queued" /\ Ready(st, k)
    BY DEF Unblocked, Waiting
  <1>3. \A d \in Jobs : (Done(d) => Done(d)') /\ (st[d] = "completed" => Done(d)')
    BY <1>2 DEF Done
  <1>4. \A k \in Jobs : Ready(st, k) => DepsDone(k)'
    BY <1>3, DepsAreJobs DEF Ready, DepsDone
  <1>5. \A k \in Jobs : Past(k)' => Past(k) \/ DepsDone(k)'
    BY <1>1, <1>2, <1>4 DEF Past, PastHolds, Active
  <1> QED
    BY <1>1, <1>3, <1>5, GateStep DEF GateInv

LEMMA CompleteRowGate ==
    ASSUME QueueInv, GateInv, NEW j \in Jobs, NEW hd, CompleteRow(j, hd),
           \A k \in Jobs \ {j} : hd[k] = hold[k], UNCHANGED <<tomb, writer>>
    PROVE  GateInv'
  <1> DEFINE st == [status EXCEPT ![j] = "completed"]
             pr == [proof EXCEPT ![j] = "none"]
  <1>1. status' = Unblocked(st, pr) /\ hold' = UnblockedHold(st, pr, hd)
    BY DEF CompleteRow
  <1>2. \A k \in Jobs : \/ st[k] = status[k] /\ hd[k] = hold[k]
                        \/ st[k] = "completed"
    BY DEF QueueInv, RowsOK, Columns
  <1> HIDE DEF st, pr
  <1> QED
    BY <1>1, <1>2, UnblockedGate

LEMMA FailAttemptGate ==
    ASSUME QueueInv, GateInv, NEW j \in Jobs, status[j] \in Active, FailAttempt(j)
    PROVE  GateInv'
  <1>1. Past(j) /\ status[j] # "completed"
    BY DEF Past, Active
  <1>2. \E s, h, w, a, p : SetRow(j, s, h, w, a, p)
    BY DEF FailAttempt, Requeue
  <1>3. UNCHANGED <<tomb, writer>>
    BY DEF FailAttempt
  <1> QED
    BY <1>1, <1>2, <1>3, SetRowGate DEF GateInv

LEMMA FenceRowGate ==
    ASSUME QueueInv, GateInv, NEW j \in Jobs, status[j] # "completed", FenceRow(j)
    PROVE  GateInv'
  <1>1. \E h, w, a, p : SetRow(j, "neutral", h, w, a, p)
    BY DEF FenceRow
  <1>2. UNCHANGED <<tomb, writer>>
    BY DEF FenceRow
  <1> QED
    BY <1>1, <1>2, SetRowGate DEF GateInv, Active

-----------------------------------------------------------------------------
(* The gate holds, group by group.                                         *)

LEMMA SubmittingGate ==
    ASSUME QueueInv, GateInv, NEW j \in Jobs, Submitting(j)
    PROVE  GateInv'
  <1>1. CASE Post(j)
    <2>1. /\ status[j] = "absent"
          /\ UNCHANGED <<tomb, writer>>
      BY <1>1 DEF Post
    <2>2. \/ \E h, p : SetRow(j, "failed", h, NoWorker, NoAttempt, p)
          \/ \E h \in {"approval", "dependency"} : \E p : SetRow(j, "blocked", h, NoWorker, NoAttempt, p)
          \/ Ready(status, j) /\ \E h, p : SetRow(j, "queued", h, NoWorker, NoAttempt, p)
      BY <1>1 DEF Post
    <2>3. CASE \E h, p : SetRow(j, "failed", h, NoWorker, NoAttempt, p)
      BY <2>1, <2>3, SetRowGate DEF GateInv, Active
    <2>4. CASE \E h \in {"approval", "dependency"} : \E p : SetRow(j, "blocked", h, NoWorker, NoAttempt, p)
      BY <2>1, <2>4, SetRowGate DEF GateInv, PastHolds
    <2>5. CASE Ready(status, j) /\ \E h, p : SetRow(j, "queued", h, NoWorker, NoAttempt, p)
      BY <2>1, <2>5, SetRowGate, ReadyIsDone DEF GateInv
    <2> QED
      BY <2>2, <2>3, <2>4, <2>5
  <1>2. CASE CancelJob(j)
    BY <1>2, SetRowGate DEF CancelJob, restVars, GateInv, Terminal, Active
  <1> QED
    BY <1>1, <1>2 DEF Submitting

LEMMA ClaimingGate ==
    ASSUME QueueInv, GateInv, NEW j \in Jobs, Claiming(j)
    PROVE  GateInv'
  <1>1. Past(j) /\ status[j] # "completed"
    BY DEF Claiming, HoldQueuedForRuntime, QuarantineQueued, HoldForMissingApproval,
           HoldQueuedForGovernance, ClaimJob, Claimable, Past
  <1>2. CASE QuarantineQueued(j)
    BY <1>1, <1>2, FenceRowGate DEF QuarantineQueued
  <1>3. CASE ~QuarantineQueued(j)
    <2>1. /\ \E s, h, w, a, p : SetRow(j, s, h, w, a, p)
          /\ UNCHANGED <<tomb, writer>>
      BY <1>3 DEF Claiming, HoldQueuedForRuntime, HoldUnclaimed, HoldForMissingApproval,
                  HoldQueuedForGovernance, ClaimJob, restVars
    <2> QED
      BY <1>1, <2>1, SetRowGate DEF GateInv
  <1> QED
    BY <1>2, <1>3

\* An attempt's row moves on; it had passed the gate.
LEMMA ActiveGate ==
    ASSUME QueueInv, GateInv, NEW j \in Jobs, status[j] \in Active,
           \E s, h, w, a, p : SetRow(j, s, h, w, a, p),
           UNCHANGED <<tomb, writer>>
    PROVE  GateInv'
  BY SetRowGate DEF GateInv, Past, Active

LEMMA ReleaseGate ==
    ASSUME QueueInv, GateInv, NEW j \in Jobs, NEW w, NEW a, ReleaseJob(w, j, a)
    PROVE  GateInv'
  <1>1. status[j] \in Active
    BY DEF ReleaseJob, ExactClaim
  <1>2. CASE FailAttempt(j)
    BY <1>1, <1>2, FailAttemptGate
  <1>3. CASE ~FailAttempt(j)
    BY <1>1, <1>3, ActiveGate DEF ReleaseJob, Requeue, restVars
  <1> QED
    BY <1>2, <1>3

LEMMA FailJobGate ==
    ASSUME QueueInv, GateInv, NEW j \in Jobs, NEW w, NEW a, FailJob(w, j, a)
    PROVE  GateInv'
  BY FailAttemptGate DEF FailJob, ExactClaim

LEMMA CompleteGate ==
    ASSUME QueueInv, GateInv, NEW j \in Jobs, NEW w, NEW report, NEW attested,
           CompleteJob(w, j, attempt[j], report, attested)
    PROVE  GateInv'
  <1>1. status[j] \in Active
    BY DEF CompleteJob, Active
  <1>2. CASE FailAttempt(j)
    BY <1>1, <1>2, FailAttemptGate
  <1>3. CASE ~FailAttempt(j)
    <2>1. UNCHANGED <<tomb, writer>>
      BY <1>3 DEF CompleteJob
    <2>2. CompleteRow(j, hold) \/ \E s, h, p : SetRow(j, s, h, NoWorker, attempt[j], p)
      BY <1>3 DEF CompleteJob
    <2> QED
      BY <1>1, <2>1, <2>2, CompleteRowGate, ActiveGate
  <1> QED
    BY <1>2, <1>3

LEMMA WorkingGate ==
    ASSUME QueueInv, GateInv, NEW j \in Jobs, NEW w \in Workers, Working(w, j)
    PROVE  GateInv'
  <1>1. CASE StartJob(w, j, attempt[j])
    <2>0. status[j] \in Active
      BY <1>1 DEF StartJob, Active
    <2>1. CASE FailAttempt(j)
      BY <2>0, <2>1, FailAttemptGate
    <2>2. CASE RetireClaim(j) \/ StartAttempt(j)
      BY <2>0, <2>2, ActiveGate DEF RetireClaim, StartAttempt, Requeue, HoldUnclaimed, restVars
    <2> QED
      BY <1>1, <2>1, <2>2 DEF StartJob
  <1>2. CASE \E report \in Reports, attested \in BOOLEAN :
                CompleteJob(w, j, attempt[j], report, attested)
    BY <1>2, CompleteGate
  <1>3. CASE SendHeartbeat(w, j, attempt[j])
    BY <1>3, RowsGate DEF SendHeartbeat, GateInv
  <1> QED
    BY <1>1, <1>2, <1>3, ReleaseGate, FailJobGate DEF Working, AbandonJobsForNode

LEMMA SweepingGate ==
    ASSUME QueueInv, GateInv, NEW j \in Jobs, Sweeping(j)
    PROVE  GateInv'
  <1>1. CASE ExpirePastDeadlines(j)
    <2>1. CASE status[j] \in Active
      BY <1>1, <2>1, FailAttemptGate DEF ExpirePastDeadlines, Active
    <2>2. CASE status[j] \notin Active
      <3>1. /\ status[j] \in {"queued", "blocked"}
            /\ \E h, a, p : SetRow(j, "failed", h, NoWorker, a, p)
            /\ UNCHANGED <<tomb, writer>>
        BY <1>1, <2>2 DEF ExpirePastDeadlines, restVars
      <3> QED
        BY <3>1, SetRowGate DEF GateInv, Active
    <2> QED
      BY <2>1, <2>2
  <1>2. CASE ExpireExecutionTimeouts(j)
    BY <1>2, FailAttemptGate DEF ExpireExecutionTimeouts, Active
  <1>3. CASE AbandonSilentJobs(j)
    <2>1. CASE status[j] = "claimed"
      BY <1>3, <2>1, ActiveGate DEF AbandonSilentJobs, Active, Requeue, restVars
    <2>2. CASE status[j] = "running"
      BY <1>3, <2>2, FailAttemptGate DEF AbandonSilentJobs, Active
    <2> QED
      BY <1>3, <2>1, <2>2 DEF AbandonSilentJobs
  <1>4. CASE RequeueRetryableJobs(j)
    <2>0. Past(j) /\ status[j] # "completed"
      BY <1>4 DEF RequeueRetryableJobs, Past
    <2>1. CASE Fenced(j)
      BY <1>4, <2>0, <2>1, FenceRowGate DEF RequeueRetryableJobs
    <2>2. CASE ~Fenced(j)
      <3>1. /\ \E s, h, w, a, p : SetRow(j, s, h, w, a, p)
            /\ UNCHANGED <<tomb, writer>>
        BY <1>4, <2>2 DEF RequeueRetryableJobs, Requeue
      <3> QED
        BY <2>0, <3>1, SetRowGate DEF GateInv
    <2> QED
      BY <2>1, <2>2
  <1>5. CASE ExpireBlockedApprovals(j)
    BY <1>5, SetRowGate DEF ExpireBlockedApprovals, AwaitingOwner, restVars, GateInv, Active
  <1>6. CASE ReconcileBlockedApproval(j)
    <2>1. /\ status[j] = "blocked"
          /\ UNCHANGED <<tomb, writer>>
      BY <1>6 DEF ReconcileBlockedApproval, AwaitingOwner
    <2>2. \/ \E s \in {"cancelled", "failed"} : \E h : SetRow(j, s, h, worker[j], attempt[j], proof[j])
          \/ SetRow(j, "blocked", hold[j], worker[j], attempt[j], proof[j])
          \/ SetRow(j, "blocked", "dependency", worker[j], attempt[j], proof[j])
          \/ Ready(status, j) /\ SetRow(j, "queued", "none", worker[j], attempt[j], proof[j])
      BY <1>6 DEF ReconcileBlockedApproval
    <2>3. CASE \E s \in {"cancelled", "failed"} : \E h : SetRow(j, s, h, worker[j], attempt[j], proof[j])
      BY <2>1, <2>3, SetRowGate DEF GateInv, Active
    <2>4. CASE SetRow(j, "blocked", hold[j], worker[j], attempt[j], proof[j])
      BY <2>1, <2>4, SetRowGate DEF GateInv, Past
    <2>5. CASE SetRow(j, "blocked", "dependency", worker[j], attempt[j], proof[j])
      BY <2>1, <2>5, SetRowGate DEF GateInv, PastHolds
    <2>6. CASE Ready(status, j) /\ SetRow(j, "queued", "none", worker[j], attempt[j], proof[j])
      BY <2>1, <2>6, SetRowGate, ReadyIsDone DEF GateInv
    <2> QED
      BY <2>2, <2>3, <2>4, <2>5, <2>6
  <1>7. CASE ReconcileGovernanceHolds(j)
    BY <1>7, SetRowGate DEF ReconcileGovernanceHolds, Past, PastHolds, restVars, GateInv
  <1>8. CASE ReconcileRuntimeClaimHolds(j)
    BY <1>8, SetRowGate DEF ReconcileRuntimeClaimHolds, Past, PastHolds, restVars, GateInv
  <1> QED
    BY <1>1, <1>2, <1>3, <1>4, <1>5, <1>6, <1>7, <1>8 DEF Sweeping

LEMMA DecidingGate ==
    ASSUME QueueInv, GateInv, NEW j \in Jobs, Deciding(j)
    PROVE  GateInv'
  <1>1. CASE ApplyDecision(j)
    <2>1. /\ writer' = [writer EXCEPT ![j] = "idle"]
          /\ UNCHANGED tomb
      BY <1>1 DEF ApplyDecision
    <2>2. /\ DOMAIN writer' = Jobs
          /\ \A k \in Jobs : writer'[k] = "queue" => writer[k] = "queue"
      BY <2>1 DEF GateInv
    <2>3. CASE UNCHANGED rowVars
      BY <2>1, <2>2, <2>3, RowsGate
    <2>4. CASE ~(UNCHANGED rowVars)
      <3>1. /\ status[j] # "completed"
            /\ \/ writer[j] = "queue" /\ \E h, w, a, p : SetRow(j, "queued", h, w, a, p)
               \/ \E w, a, p : SetRow(j, "blocked", "dependency", w, a, p)
               \/ \E s \in {"cancelled", "failed"} : \E h, w, a, p : SetRow(j, s, h, w, a, p)
        BY <1>1, <2>4 DEF ApplyDecision, Terminal
      <3>2. CASE writer[j] = "queue" /\ \E h, w, a, p : SetRow(j, "queued", h, w, a, p)
        <4>1. Past(j)
          BY <3>2 DEF Past
        <4> QED
          BY <2>1, <2>2, <3>1, <3>2, <4>1, SetRowGate
      <3>3. CASE \E w, a, p : SetRow(j, "blocked", "dependency", w, a, p)
        BY <2>1, <2>2, <3>1, <3>3, SetRowGate DEF PastHolds
      <3>4. CASE \E s \in {"cancelled", "failed"} : \E h, w, a, p : SetRow(j, s, h, w, a, p)
        BY <2>1, <2>2, <3>1, <3>4, SetRowGate DEF Active
      <3> QED
        BY <3>1, <3>2, <3>3, <3>4
    <2> QED
      BY <2>3, <2>4
  <1>2. CASE ~ApplyDecision(j)
    <2>1. UNCHANGED <<rowVars, tomb>>
      BY <1>2 DEF Deciding, Decide, ReadDependencies, PrepareEffectAuthority, CrashHandler, SetWriter
    <2>2. PICK w : writer' = [writer EXCEPT ![j] = w] /\ (w = "queue" => DepsDone(j))
      <3>1. CASE ReadDependencies(j)
        <4>1. \/ writer' = [writer EXCEPT ![j] = "wait"]
              \/ writer' = [writer EXCEPT ![j] = "queue"] /\ Ready(status, j)
          BY <3>1 DEF ReadDependencies, SetWriter
        <4> QED
          BY <4>1, ReadyIsDone
      <3>2. CASE PrepareEffectAuthority(j)
        <4>1. Deps(j) = {}
          BY <3>2, QueueAssumption DEF PrepareEffectAuthority, Deps
        <4> QED
          BY <3>2, <4>1 DEF PrepareEffectAuthority, SetWriter, DepsDone
      <3>3. CASE CrashHandler(j) \/ \E d \in OwnerDecisions : Decide(j, d)
        BY <3>3 DEF CrashHandler, Decide, SetWriter
      <3> QED
        BY <1>2, <3>1, <3>2, <3>3 DEF Deciding
    <2>3. /\ DOMAIN writer' = Jobs
          /\ \A k \in Jobs : writer'[k] = "queue" => writer[k] = "queue" \/ DepsDone(k)
      BY <2>2 DEF GateInv
    <2> QED
      BY <2>1, <2>3, RowsGate
  <1> QED
    BY <1>1, <1>2

LEMMA RetiringGate ==
    ASSUME QueueInv, GateInv, NEW j \in Jobs, Retiring(j)
    PROVE  GateInv'
  <1>1. CASE Attest(j)
    <2>1. /\ CompleteRow(j, [hold EXCEPT ![j] = "none"])
          /\ UNCHANGED <<tomb, writer>>
      BY <1>1 DEF Attest
    <2> QED
      BY <2>1, CompleteRowGate DEF GateInv
  <1>2. CASE Prune(j)
    <2>1. /\ tomb' = [tomb EXCEPT ![j] = status[j]]
          /\ status' = [status EXCEPT ![j] = "absent"]
          /\ hold' = [hold EXCEPT ![j] = "none"]
          /\ UNCHANGED writer
          /\ status[j] # "absent"
      BY <1>2 DEF Prune, Prunable, SetRow, Terminal
    <2>2. /\ DOMAIN status = Jobs /\ DOMAIN tomb = Jobs /\ DOMAIN hold = Jobs
          /\ tomb[j] = "none"
      BY <2>1 DEF QueueInv, RowsOK, Columns, RetiredOrNew, GateInv
    <2>3. \A d \in Jobs : Done(d) => Done(d)'
      BY <2>1, <2>2 DEF Done
    <2>4. \A k \in Jobs : Past(k)' => Past(k)
      BY <2>1, <2>2 DEF Past, Active
    <2> QED
      BY <2>1, <2>2, <2>3, <2>4, GateStep DEF GateInv
  <1> QED
    BY <1>1, <1>2 DEF Retiring

LEMMA ControllingGate ==
    ASSUME QueueInv, GateInv, NEW o \in OpIds, Controlling(o)
    PROVE  GateInv'
  <1>1. CASE \E j \in Jobs : CancelNow(o, j)
    <2>1. PICK j \in Jobs : CancelNow(o, j)
      BY <1>1
    <2>2. /\ status[j] # "completed"
          /\ \E h, w, a, p : SetRow(j, "cancelled", h, w, a, p)
          /\ UNCHANGED <<tomb, writer>>
      BY <2>1 DEF CancelNow, MayCancel, restVars, Active
    <2> QED
      BY <2>2, SetRowGate DEF GateInv, Active
  <1>2. CASE \E j \in Jobs : Retry(o, j)
    <2>1. PICK j \in Jobs : Retry(o, j)
      BY <1>2
    <2>2. /\ status[j] # "completed"
          /\ Ready(status, j)
          /\ \E p : SetRow(j, "queued", "none", NoWorker, NoAttempt, p)
          /\ UNCHANGED <<tomb, writer>>
      BY <2>1 DEF Retry, MayRetry, Interrupted
    <2> QED
      BY <2>2, ReadyIsDone, SetRowGate DEF GateInv
  <1>3. CASE ops[o].state = "pending" /\ Stopped(o)
    <2> DEFINE j == ops[o].job
    <2>1. j \in Jobs /\ status[j] \in Active
      BY <1>3 DEF QueueInv, RowsOK, PendingOwned
    <2>2. /\ \E s, h, w, a, p : SetRow(j, s, h, w, a, p)
          /\ UNCHANGED <<tomb, writer>>
      BY <1>3 DEF Stopped, HoldUnclaimed
    <2> HIDE DEF j
    <2> QED
      BY <2>1, <2>2, ActiveGate
  <1>4. CASE /\ \A j \in Jobs : ~CancelNow(o, j) /\ ~Retry(o, j)
             /\ ~(ops[o].state = "pending" /\ Stopped(o))
    <2>1. UNCHANGED <<rowVars, tomb, writer>>
      BY <1>4 DEF Controlling, Ask, AckDeadlinePasses, RecordWorkerOutcome, Acknowledge,
                  ReconcileExpired, restVars
    <2> QED
      BY <2>1, RowsGate DEF GateInv
  <1> QED
    BY <1>1, <1>2, <1>3, <1>4

LEMMA GateNext ==
    ASSUME QueueInv, GateInv, [Next]_ctlVars
    PROVE  GateInv'
  <1>1. CASE UNCHANGED ctlVars
    BY <1>1, RowsGate DEF ctlVars, vars, restVars, GateInv
  <1>2. CASE \E j \in Jobs : \/ Submitting(j) \/ Claiming(j) \/ \E w \in Workers : Working(w, j)
    BY <1>2, SubmittingGate, ClaimingGate, WorkingGate
  <1>3. CASE \E j \in Jobs : Sweeping(j) \/ Deciding(j) \/ Retiring(j)
    BY <1>3, SweepingGate, DecidingGate, RetiringGate
  <1>4. CASE \E j \in Jobs, b \in Passing : TimePassing(j, b)
    BY <1>4, RowsGate DEF TimePassing, TimePasses, GateInv
  <1>5. CASE \E j \in Jobs : \E a \in Attempts, f \in {"applied", "not_applied"} : ReconcileEffect(j, a, f)
    <2>1. PICK j \in Jobs, a \in Attempts, f \in {"applied", "not_applied"} : ReconcileEffect(j, a, f)
      BY <1>5
    <2>2. /\ status[j] = "neutral"
          /\ \E s \in {"neutral", "cancelled"} : \E h, w, b, p : SetRow(j, s, h, w, b, p)
          /\ UNCHANGED <<tomb, writer>>
      BY <2>1 DEF ReconcileEffect
    <2> QED
      BY <2>2, SetRowGate DEF GateInv, Active
  <1>6. CASE Unblocking
    BY <1>6, UnblockedGate DEF Unblocking, UnblockReadyJobs, restVars
  <1>7. CASE \E e \in events : Draining(e)
    BY <1>7, RowsGate DEF Draining, DrainOutcome, restVars, GateInv
  <1>8. CASE \E o \in OpIds : Controlling(o)
    BY <1>8, ControllingGate
  <1>9. CASE \E live \in Modes : Restart(live)
    BY <1>9, RowsGate DEF Restart
  <1> QED
    BY <1>1, <1>2, <1>3, <1>4, <1>5, <1>6, <1>7, <1>8, <1>9 DEF Next

LEMMA GateInit ==
    ASSUME Init
    PROVE  GateInv
  <1>1. /\ status \in [Jobs -> {"absent", "queued", "abandoned"}]
        /\ \A j \in Jobs \ OldRows : status[j] = "absent"
        /\ hold = [j \in Jobs |-> "none"]
        /\ writer = [j \in Jobs |-> "idle"]
    BY DEF Init, QueueInit
  <1>2. \A j \in OldRows : Deps(j) = {}
    BY QueueAssumption DEF Deps
  <1> QED
    BY <1>1, <1>2 DEF GateInv, Past, DepsDone, PastHolds, Active

\* A job is worked on only after its dependencies completed: every path into
\* the queue reads them, and nothing takes a completion back.
THEOREM QueueWaitsForDependencies == Spec => []DependenciesFirst
  <1>1. Spec => []GateInv
    BY GateInit, GateNext, QueueInvariant, PTL DEF Spec
  <1>2. GateInv => DependenciesFirst
    BY DEF GateInv, Past, DepsDone, Done, DependenciesFirst
  <1> QED
    BY <1>1, <1>2, PTL

-----------------------------------------------------------------------------
(* A stop holds.                                                           *)

\* What is in hand was minted, and so was what a stop names.
MintedInHand ==
    \A j \in Jobs : status[j] \in Active => attempt[j] \in 1..minted

\* A stop of an unstarted claim finds it unstarted for as long as it is
\* pending, so it never just runs out.
HeldBack(o) ==
    /\ of[ops[o].attempt] = ops[o].job
    /\ ops[o].state = "pending" => status[ops[o].job] = "claimed"
    /\ ops[o].state \in {"applied", "lost"} => ops[o].attempt \notin started
    /\ ops[o].state # "expired"

\* What ended with its attempt or ended its attempt has nothing left to stop.
StopsWell(o) ==
    ops[o].kind \in StopKinds /\ ops[o].attempt # NoAttempt =>
        /\ ops[o].job \in Jobs
        /\ ops[o].attempt \in 1..minted
        /\ ops[o].at = "claimed" => HeldBack(o)
        /\ ops[o].state \in {"applied", "lost"} => ~ExactActive(o)

StopInv == MintedInHand /\ \A o \in OpIds : StopsWell(o)

\* The operation keeps what it was asked.
SameOrder(o) ==
    /\ ops'[o].kind = ops[o].kind
    /\ ops'[o].job = ops[o].job
    /\ ops'[o].attempt = ops[o].attempt
    /\ ops'[o].at = ops[o].at

\* A pending operation ends: as applied or lost only with its attempt.
EndsFairly(o) ==
    /\ ops[o].state = "pending"
    /\ ops'[o].state # "pending"
    /\ ops'[o].state \in {"applied", "lost"} /\ ops[o].kind \in StopKinds => ~ExactActive(o)'
    /\ ops'[o].state = "expired" /\ ops[o].kind \in StopKinds => status[ops[o].job] # "claimed"

GoesOn(o) == SameOrder(o) /\ (ops'[o].state = ops[o].state \/ EndsFairly(o))

\* No attempt is minted, started or handed out, and no operation is added.
IdleRows ==
    /\ UNCHANGED <<minted, of, started>>
    /\ \A k \in Jobs : status'[k] \in Active => status'[k] = status[k] /\ attempt'[k] = attempt[k]

Idling == IdleRows /\ \A o \in OpIds : GoesOn(o)

LEMMA MintedStays ==
    ASSUME StopInv, IdleRows
    PROVE  MintedInHand'
  BY DEF StopInv, MintedInHand, IdleRows

LEMMA GoesOnWell ==
    ASSUME QueueInv, QueueInv', StopInv, IdleRows, NEW o \in OpIds, GoesOn(o)
    PROVE  StopsWell(o)'
  <1> SUFFICES ASSUME ops'[o].kind \in StopKinds, ops'[o].attempt # NoAttempt
               PROVE  /\ ops'[o].job \in Jobs
                      /\ ops'[o].attempt \in 1..minted'
                      /\ ops'[o].at = "claimed" => HeldBack(o)'
                      /\ ops'[o].state \in {"applied", "lost"} => ~ExactActive(o)'
    BY DEF StopsWell
  <1>0. /\ UNCHANGED <<minted, of, started>>
        /\ \A k \in Jobs : status'[k] \in Active => status'[k] = status[k] /\ attempt'[k] = attempt[k]
        /\ ops[o].kind \in StopKinds /\ ops[o].attempt # NoAttempt
        /\ ops'[o].job = ops[o].job /\ ops'[o].attempt = ops[o].attempt /\ ops'[o].at = ops[o].at
        /\ ops'[o].state = ops[o].state \/ EndsFairly(o)
    BY DEF IdleRows, GoesOn, SameOrder
  <1>1. /\ ops[o].job \in Jobs
        /\ ops[o].attempt \in 1..minted
        /\ ops[o].at = "claimed" => HeldBack(o)
        /\ ops[o].state \in {"applied", "lost"} => ~ExactActive(o)
    BY <1>0 DEF StopInv, StopsWell
  <1>2. ops'[o].state \in {"applied", "lost"} => ~ExactActive(o)'
    BY <1>0, <1>1 DEF ExactActive, EndsFairly
  <1>3. ops'[o].state = "pending" => /\ ops[o].state = "pending"
                                     /\ status'[ops[o].job] \in Active
    BY <1>0 DEF EndsFairly, QueueInv, RowsOK, PendingOwned
  <1>4. ops[o].at = "claimed" => HeldBack(o)'
    <2> HAVE ops[o].at = "claimed"
    <2>1. CASE ops'[o].state = ops[o].state
      BY <1>0, <1>1, <1>3, <2>1 DEF HeldBack
    <2>2. CASE EndsFairly(o)
      <3>1. status[ops[o].job] = "claimed"
        BY <1>1, <2>2 DEF HeldBack, EndsFairly
      <3>2. ops[o].attempt \notin started
        BY <1>1, <2>2, <3>1 DEF EndsFairly, QueueInv, RowsOK, PendingOwned, ClaimIsFresh
      <3> QED
        BY <1>0, <1>1, <2>2, <3>1, <3>2 DEF HeldBack, EndsFairly
    <2> QED
      BY <1>0, <2>1, <2>2
  <1> QED
    BY <1>0, <1>1, <1>2, <1>4

LEMMA IdlingStop ==
    ASSUME QueueInv, QueueInv', StopInv, Idling
    PROVE  StopInv'
  BY MintedStays, GoesOnWell DEF Idling, StopInv

LEMMA ClaimStop ==
    ASSUME QueueInv, QueueInv', StopInv, NEW j \in Jobs, NEW w \in Workers, ClaimJob(w, j)
    PROVE  StopInv'
  <1>1. /\ minted \in Nat /\ minted' = minted + 1 /\ minted' \in Attempts
        /\ of' = [of EXCEPT ![minted'] = j]
        /\ status' = [status EXCEPT ![j] = "claimed"]
        /\ attempt' = [attempt EXCEPT ![j] = minted']
        /\ status[j] = "queued"
        /\ UNCHANGED <<started, ops>>
    BY QueueAssumption DEF ClaimJob, Claimable, SetRow, QueueInv, LedgerOK
  <1>2. DOMAIN status = Jobs /\ DOMAIN attempt = Jobs /\ DOMAIN of = Attempts
    BY DEF QueueInv, RowsOK, Columns, LedgerOK
  <1>3. /\ \A k \in Jobs \ {j} : status'[k] = status[k] /\ attempt'[k] = attempt[k]
        /\ status'[j] = "claimed" /\ attempt'[j] = minted'
        /\ 1..minted \subseteq 1..minted'
        /\ minted' \in 1..minted'
        /\ \A a \in 1..minted : a # minted' /\ of'[a] = of[a]
    BY <1>1, <1>2
  <1>4. MintedInHand'
    BY <1>3 DEF StopInv, MintedInHand
  <1>5. ASSUME NEW o \in OpIds, ops[o].kind \in StopKinds, ops[o].attempt # NoAttempt
        PROVE  /\ ops[o].job \in Jobs
               /\ ops[o].attempt \in 1..minted'
               /\ ops[o].at = "claimed" => HeldBack(o)'
               /\ ops[o].state \in {"applied", "lost"} => ~ExactActive(o)'
    <2>1. /\ ops[o].job \in Jobs
          /\ ops[o].attempt \in 1..minted
          /\ ops[o].at = "claimed" => HeldBack(o)
          /\ ops[o].state \in {"applied", "lost"} => ~ExactActive(o)
      BY <1>5 DEF StopInv, StopsWell
    <2> QED
      BY <1>1, <1>3, <2>1 DEF HeldBack, ExactActive
  <1> QED
    BY <1>1, <1>4, <1>5 DEF StopInv, StopsWell

LEMMA StartStop ==
    ASSUME QueueInv, QueueInv', StopInv, NEW j \in Jobs, status[j] = "claimed",
           ~StopPending(j, attempt[j]), StartAttempt(j)
    PROVE  StopInv'
  <1>1. /\ status' = [status EXCEPT ![j] = "running"]
        /\ attempt' = [attempt EXCEPT ![j] = attempt[j]]
        /\ started' = started \cup {attempt[j]}
        /\ UNCHANGED <<minted, of, ops>>
    BY DEF StartAttempt, SetRow
  <1>2. DOMAIN status = Jobs /\ DOMAIN attempt = Jobs
    BY DEF QueueInv, RowsOK, Columns
  <1>3. /\ \A k \in Jobs \ {j} : status'[k] = status[k]
        /\ \A k \in Jobs : attempt'[k] = attempt[k]
        /\ status'[j] = "running"
        /\ of[attempt[j]] = j
        /\ status[j] \in Active
    BY <1>1, <1>2 DEF QueueInv, ClaimIsFresh, Active
  <1>4. MintedInHand'
    BY <1>1, <1>3 DEF StopInv, MintedInHand
  <1>5. ASSUME NEW o \in OpIds, ops[o].kind \in StopKinds, ops[o].attempt # NoAttempt
        PROVE  /\ ops[o].job \in Jobs
               /\ ops[o].attempt \in 1..minted
               /\ ops[o].at = "claimed" => HeldBack(o)'
               /\ ops[o].state \in {"applied", "lost"} => ~ExactActive(o)'
    <2>1. /\ ops[o].job \in Jobs
          /\ ops[o].attempt \in 1..minted
          /\ ops[o].at = "claimed" => HeldBack(o)
          /\ ops[o].state \in {"applied", "lost"} => ~ExactActive(o)
      BY <1>5 DEF StopInv, StopsWell
    <2>2. ops[o].state \in {"applied", "lost"} => ~ExactActive(o)'
      BY <1>1, <1>3, <2>1 DEF ExactActive, Active
    <2>3. ops[o].state = "pending" => ops[o].job # j
      BY <1>5 DEF StopPending, Pending, QueueInv, RowsOK, PendingOwned
    <2>4. ops[o].state \in {"applied", "lost"} /\ ops[o].at = "claimed" => ops[o].attempt # attempt[j]
      BY <1>3, <2>1 DEF HeldBack, ExactActive
    <2> QED
      BY <1>1, <1>3, <2>1, <2>2, <2>3, <2>4 DEF HeldBack
  <1> QED
    BY <1>1, <1>4, <1>5 DEF StopInv, StopsWell

-----------------------------------------------------------------------------
(* Most steps idle.                                                        *)

USE DEF ledgerVars

\* The operations of an attempt end when its row leaves it.
LEMMA Idles ==
    ASSUME QueueInv, UNCHANGED <<minted, of, started>>,
           \A k \in Jobs : status'[k] \in Active => status'[k] = status[k] /\ attempt'[k] = attempt[k],
           \/ UNCHANGED ops
           \/ \E j \in Jobs : status'[j] \notin Active /\ \E a : Finalize(j, a)
    PROVE  Idling
  <1>1. CASE UNCHANGED ops
    BY <1>1 DEF Idling, IdleRows, GoesOn, SameOrder
  <1>2. CASE \E j \in Jobs : status'[j] \notin Active /\ \E a : Finalize(j, a)
    <2>0. PICK j \in Jobs : status'[j] \notin Active /\ \E a : Finalize(j, a)
      BY <1>2
    <2>1. PICK a : status'[j] \notin Active /\ Finalize(j, a)
      BY <2>0
    <2>2. ASSUME NEW o \in OpIds
          PROVE  GoesOn(o)
      <3>1. CASE o \in Pending(j, a)
        <4>1. ops'[o] = [ops[o] EXCEPT !.state = "lost"]
          BY <2>1, <3>1 DEF Finalize, Settle
        <4>2. /\ SameOrder(o)
              /\ ops'[o].state = "lost" /\ ops[o].state = "pending" /\ ops'[o].job = j
          BY <3>1, <4>1 DEF SameOrder, Pending, QueueInv, RowsOK, ControlTable
        <4> QED
          BY <2>1, <4>2 DEF GoesOn, EndsFairly, ExactActive
      <3>2. CASE o \notin Pending(j, a)
        BY <2>1, <3>2 DEF Finalize, Settle, GoesOn, SameOrder
      <3> QED
        BY <3>1, <3>2
    <2> QED
      BY <2>2 DEF Idling, IdleRows
  <1> QED
    BY <1>1, <1>2

LEMMA SetRowIdles ==
    ASSUME QueueInv, NEW j \in Jobs, NEW s, NEW h, NEW w, NEW a, NEW p,
           SetRow(j, s, h, w, a, p), s \notin Active, UNCHANGED <<minted, of, started>>,
           UNCHANGED ops \/ \E b : Finalize(j, b)
    PROVE  Idling
  <1>1. /\ status'[j] = s
        /\ \A k \in Jobs \ {j} : status'[k] = status[k] /\ attempt'[k] = attempt[k]
    BY SetRowEffect DEF QueueInv, RowsOK
  <1>2. \A k \in Jobs : status'[k] \in Active => status'[k] = status[k] /\ attempt'[k] = attempt[k]
    BY <1>1
  <1> QED
    BY <1>1, <1>2, Idles

LEMMA RowsIdle ==
    ASSUME QueueInv, UNCHANGED <<rowVars, ledgerVars, ops>>
    PROVE  Idling
  BY Idles DEF rowVars

LEMMA CompleteRowIdles ==
    ASSUME QueueInv, NEW j \in Jobs, NEW hd, CompleteRow(j, hd), UNCHANGED ledgerVars,
           UNCHANGED ops \/ \E b : Finalize(j, b)
    PROVE  Idling
  <1> DEFINE st == [status EXCEPT ![j] = "completed"]
             pr == [proof EXCEPT ![j] = "none"]
  <1>1. status' = Unblocked(st, pr) /\ attempt' = attempt
    BY DEF CompleteRow
  <1>2. /\ st[j] = "completed"
        /\ \A k \in Jobs \ {j} : st[k] = status[k]
    BY DEF QueueInv, RowsOK, Columns
  <1> HIDE DEF st, pr
  <1>3. /\ status'[j] \notin Active
        /\ \A k \in Jobs : status'[k] \in Active => status'[k] = status[k] /\ attempt'[k] = attempt[k]
    BY <1>1, <1>2, UnblockedRows DEF Active
  <1> QED
    BY <1>3, Idles

LEMMA FailAttemptIdles ==
    ASSUME QueueInv, NEW j \in Jobs, FailAttempt(j)
    PROVE  Idling
  <1>1. \E s \in {"neutral", "queued", "failed"} : \E h, w, a, p : SetRow(j, s, h, w, a, p)
    BY DEF FailAttempt, Requeue
  <1>2. UNCHANGED ledgerVars /\ \E b : Finalize(j, b)
    BY DEF FailAttempt
  <1> QED
    BY <1>1, <1>2, SetRowIdles DEF Active

LEMMA FenceRowIdles ==
    ASSUME QueueInv, NEW j \in Jobs, FenceRow(j)
    PROVE  Idling
  <1>1. \E h, w, a, p : SetRow(j, "neutral", h, w, a, p)
    BY DEF FenceRow
  <1>2. UNCHANGED ledgerVars /\ \E b : Finalize(j, b)
    BY DEF FenceRow
  <1> QED
    BY <1>1, <1>2, SetRowIdles DEF Active

LEMMA SubmittingIdles ==
    ASSUME QueueInv, NEW j \in Jobs, Submitting(j)
    PROVE  Idling
  <1>1. /\ \E s \in {"failed", "blocked", "queued", "cancelled"} : \E h, w, a, p : SetRow(j, s, h, w, a, p)
        /\ UNCHANGED <<ledgerVars, ops>>
    BY DEF Submitting, Post, CancelJob
  <1> QED
    BY <1>1, SetRowIdles DEF Active

LEMMA ClaimingIdles ==
    ASSUME QueueInv, NEW j \in Jobs, Claiming(j), \A w \in Workers : ~ClaimJob(w, j)
    PROVE  Idling
  <1>1. CASE QuarantineQueued(j)
    BY <1>1, FenceRowIdles DEF QuarantineQueued
  <1>2. CASE ~QuarantineQueued(j)
    <2>1. /\ \E h, w, a, p : SetRow(j, "blocked", h, w, a, p)
          /\ UNCHANGED <<ledgerVars, ops>>
      BY <1>2 DEF Claiming, HoldQueuedForRuntime, HoldUnclaimed, HoldForMissingApproval,
                  HoldQueuedForGovernance
    <2> QED
      BY <2>1, SetRowIdles DEF Active
  <1> QED
    BY <1>1, <1>2

LEMMA GiveBackIdles ==
    ASSUME QueueInv, NEW j \in Jobs, NEW a, Finalize(j, a),
           Requeue(j) \/ \E h : HoldUnclaimed(j, h), UNCHANGED ledgerVars
    PROVE  Idling
  BY SetRowIdles DEF Requeue, HoldUnclaimed, Active

LEMMA ReleaseIdles ==
    ASSUME QueueInv, NEW j \in Jobs, NEW w, NEW a, ReleaseJob(w, j, a)
    PROVE  Idling
  BY FailAttemptIdles, GiveBackIdles DEF ReleaseJob

LEMMA CompleteIdles ==
    ASSUME QueueInv, NEW j \in Jobs, NEW w, NEW a, NEW report, NEW attested,
           CompleteJob(w, j, a, report, attested)
    PROVE  Idling
  <1>1. CASE FailAttempt(j)
    BY <1>1, FailAttemptIdles
  <1>2. CASE ~FailAttempt(j)
    <2>1. UNCHANGED ledgerVars /\ Finalize(j, a)
      BY <1>2 DEF CompleteJob
    <2>2. \/ CompleteRow(j, hold)
          \/ LET s == Completion(j, report, attested)[1]
             IN  s # "completed" /\ \E h, p : SetRow(j, s, h, NoWorker, a, p)
      BY <1>2 DEF CompleteJob
    <2>3. Completion(j, report, attested)[1] \in {"completed", "neutral", "failed"}
      BY DEF Completion
    <2> QED
      BY <2>1, <2>2, <2>3, CompleteRowIdles, SetRowIdles DEF Active
  <1> QED
    BY <1>1, <1>2

LEMMA WorkingStop ==
    ASSUME QueueInv, QueueInv', StopInv, NEW j \in Jobs, NEW w \in Workers, Working(w, j)
    PROVE  StopInv'
  <1>1. CASE StartJob(w, j, attempt[j])
    <2>1. CASE FailAttempt(j)
      BY <2>1, FailAttemptIdles, IdlingStop
    <2>2. CASE RetireClaim(j)
      BY <2>2, GiveBackIdles, IdlingStop DEF RetireClaim
    <2>3. CASE StartAttempt(j)
      BY <1>1, <2>3, StartStop DEF StartJob
    <2> QED
      BY <1>1, <2>1, <2>2, <2>3 DEF StartJob
  <1>2. CASE \E report \in Reports, attested \in BOOLEAN :
                CompleteJob(w, j, attempt[j], report, attested)
    BY <1>2, CompleteIdles, IdlingStop
  <1>3. CASE SendHeartbeat(w, j, attempt[j])
    BY <1>3, RowsIdle, IdlingStop DEF SendHeartbeat
  <1>4. CASE ReleaseJob(w, j, attempt[j]) \/ FailJob(w, j, attempt[j])
    BY <1>4, ReleaseIdles, FailAttemptIdles, IdlingStop DEF FailJob
  <1> QED
    BY <1>1, <1>2, <1>3, <1>4 DEF Working, AbandonJobsForNode

LEMMA SweepingIdles ==
    ASSUME QueueInv, NEW j \in Jobs, Sweeping(j)
    PROVE  Idling
  <1>1. CASE FailAttempt(j) \/ FenceRow(j)
    BY <1>1, FailAttemptIdles, FenceRowIdles
  <1>2. CASE ~FailAttempt(j) /\ ~FenceRow(j)
    <2>1. CASE AbandonSilentJobs(j)
      BY <1>2, <2>1, GiveBackIdles DEF AbandonSilentJobs
    <2>2. CASE ~AbandonSilentJobs(j)
      <3>1. UNCHANGED <<ledgerVars, ops>>
        BY <1>2, <2>2 DEF Sweeping, ExpirePastDeadlines, ExpireExecutionTimeouts, RequeueRetryableJobs,
             ExpireBlockedApprovals, ReconcileBlockedApproval, ReconcileGovernanceHolds,
             ReconcileRuntimeClaimHolds
      <3>2. \E s \in {"failed", "queued", "blocked", "cancelled"} : \E h, w, a, p : SetRow(j, s, h, w, a, p)
        <4>1. CASE ReconcileBlockedApproval(j)
          BY <4>1 DEF ReconcileBlockedApproval
        <4>2. CASE RequeueRetryableJobs(j)
          BY <1>2, <4>2 DEF RequeueRetryableJobs, Requeue
        <4> QED
          BY <1>2, <2>2, <4>1, <4>2 DEF Sweeping, ExpirePastDeadlines, ExpireExecutionTimeouts,
             ExpireBlockedApprovals, ReconcileGovernanceHolds, ReconcileRuntimeClaimHolds
      <3> QED
        BY <3>1, <3>2, SetRowIdles DEF Active
    <2> QED
      BY <2>1, <2>2
  <1> QED
    BY <1>1, <1>2

LEMMA DecidingIdles ==
    ASSUME QueueInv, NEW j \in Jobs, Deciding(j)
    PROVE  Idling
  <1>1. UNCHANGED <<ledgerVars, ops>>
    BY DEF Deciding, Decide, ReadDependencies, PrepareEffectAuthority, CrashHandler, ApplyDecision, SetWriter
  <1>2. \/ UNCHANGED rowVars
        \/ \E s \in {"failed", "queued", "blocked", "cancelled"} : \E h, w, a, p : SetRow(j, s, h, w, a, p)
    <2>1. CASE ApplyDecision(j)
      BY <2>1 DEF ApplyDecision
    <2>2. CASE ~ApplyDecision(j)
      BY <2>2 DEF Deciding, Decide, ReadDependencies, PrepareEffectAuthority, CrashHandler, SetWriter
    <2> QED
      BY <2>1, <2>2
  <1> QED
    BY <1>1, <1>2, RowsIdle, SetRowIdles DEF Active

LEMMA RetiringIdles ==
    ASSUME QueueInv, NEW j \in Jobs, Retiring(j)
    PROVE  Idling
  <1>1. CASE Attest(j)
    BY <1>1, CompleteRowIdles DEF Attest
  <1>2. CASE Prune(j)
    BY <1>2, SetRowIdles DEF Prune, Active
  <1> QED
    BY <1>1, <1>2 DEF Retiring

\* A command that only ends, or only notes what it heard, leaves the rows.
LEMMA OpsOnlyIdles ==
    ASSUME QueueInv, NEW o \in OpIds, UNCHANGED <<rowVars, ledgerVars>>,
           \A p \in OpIds : p # o => ops'[p] = ops[p], GoesOn(o)
    PROVE  Idling
  BY DEF Idling, IdleRows, GoesOn, SameOrder, rowVars

\* A stop that takes hold: its row leaves the attempt, and every operation on
\* the attempt with it.
LEMMA StoppedIdles ==
    ASSUME QueueInv, NEW o \in OpIds, ops[o].state = "pending", Stopped(o)
    PROVE  Idling
  <1> DEFINE j == ops[o].job
             a == ops[o].attempt
  <1>1. j \in Jobs
    BY DEF QueueInv, RowsOK, PendingOwned
  <1>2. /\ \E s \in {"neutral", "blocked", "cancelled"} : \E h, w, b, p : SetRow(j, s, h, w, b, p)
        /\ UNCHANGED <<minted, of, started>>
        /\ ops' = [Settle(Pending(j, a), "lost") EXCEPT ![o].state = "applied"]
    BY DEF Stopped, HoldUnclaimed
  <1>3. /\ status'[j] \notin Active
        /\ \A k \in Jobs \ {j} : status'[k] = status[k] /\ attempt'[k] = attempt[k]
    BY <1>1, <1>2, SetRowEffect DEF QueueInv, RowsOK, Active
  <1>4. o \in Pending(j, a)
    BY DEF Pending
  <1>5. IdleRows
    BY <1>2, <1>3 DEF IdleRows
  <1>6. ASSUME NEW p \in OpIds PROVE GoesOn(p)
    <2>0. DOMAIN ops[p] = {"kind", "job", "attempt", "at", "state", "noted", "late"}
      BY DEF QueueInv, RowsOK, ControlTable
    <2>1. CASE p \in Pending(j, a)
      <3>1. ops[p].state = "pending" /\ ops[p].job = j
        BY <2>1 DEF Pending
      <3> HIDE DEF j, a
      <3>2. SameOrder(p) /\ ops'[p].state \in {"applied", "lost"}
        BY <1>2, <2>0, <2>1 DEF Settle, SameOrder
      <3> QED
        BY <1>3, <3>1, <3>2 DEF GoesOn, EndsFairly, SameOrder, ExactActive
    <2>2. CASE p \notin Pending(j, a)
      <3>1. p # o
        BY <1>4, <2>2
      <3> HIDE DEF j, a
      <3>2. ops'[p] = ops[p]
        BY <1>2, <2>2, <3>1 DEF Settle
      <3> QED
        BY <3>2 DEF GoesOn, SameOrder
    <2> QED
      BY <2>1, <2>2
  <1> QED
    BY <1>5, <1>6 DEF Idling

\* A new operation: it waits on the attempt in hand, or the server applied it
\* and the row has left the attempt.
LEMMA ReceiptStop ==
    ASSUME QueueInv, QueueInv', StopInv, IdleRows, NEW o \in OpIds, NEW j \in Jobs, NEW k,
           NEW s \in {"pending", "applied"}, Receipt(o, k, j, s),
           s = "pending" => status'[j] = status[j],
           s = "applied" /\ k \in StopKinds => status'[j] \notin Active
    PROVE  StopInv'
  <1> DEFINE a == IF status[j] \in Active THEN attempt[j] ELSE NoAttempt
             overruled == {p \in Pending(j, a) : ops[p].kind \in Weaker(k)}
  <1>1. ops' = [Settle(overruled, "overruled") EXCEPT
                  ![o] = [Unused EXCEPT !.kind = k, !.job = j, !.attempt = a,
                                        !.at = status[j], !.state = s]]
    BY DEF Receipt
  <1>2. ASSUME NEW p \in OpIds, p # o PROVE GoesOn(p)
    <2>0. DOMAIN ops[p] = {"kind", "job", "attempt", "at", "state", "noted", "late"}
      BY DEF QueueInv, RowsOK, ControlTable
    <2>1. p \in overruled => ops[p].state = "pending"
      BY DEF Pending
    <2> HIDE DEF overruled
    <2>2. ops'[p] = IF p \in overruled THEN [ops[p] EXCEPT !.state = "overruled"] ELSE ops[p]
      BY <1>1, <1>2 DEF Settle
    <2> QED
      BY <2>0, <2>1, <2>2 DEF GoesOn, SameOrder, EndsFairly
  <1>3. StopsWell(o)'
    <2>1. /\ ops'[o].kind = k /\ ops'[o].job = j /\ ops'[o].attempt = a
          /\ ops'[o].at = status[j] /\ ops'[o].state = s
      BY <1>1 DEF Settle, Unused
    <2>2. a # NoAttempt => status[j] \in Active /\ a = attempt[j] /\ a \in 1..minted
      BY DEF StopInv, MintedInHand
    <2> HIDE DEF a
    <2>3. a # NoAttempt /\ status[j] = "claimed" => of[a] = j /\ a \notin started
      BY <2>2 DEF QueueInv, ClaimIsFresh
    <2> QED
      BY <2>1, <2>2, <2>3 DEF StopsWell, HeldBack, ExactActive, IdleRows
  <1> QED
    BY <1>2, <1>3, MintedStays, GoesOnWell DEF StopInv

LEMMA ControllingStop ==
    ASSUME QueueInv, QueueInv', StopInv, NEW o \in OpIds, Controlling(o)
    PROVE  StopInv'
  <1>1. CASE \E j \in Jobs, k \in {"steer", "interrupt", "cancel"} : Ask(o, k, j)
    BY <1>1, ReceiptStop DEF Ask, IdleRows, rowVars
  <1>2. CASE \E j \in Jobs : CancelNow(o, j) \/ Retry(o, j)
    <2>1. PICK j \in Jobs : CancelNow(o, j) \/ Retry(o, j)
      BY <1>2
    <2>2. \E s \in {"cancelled", "queued"} : \E h, p : SetRow(j, s, h, NoWorker, NoAttempt, p)
      BY <2>1 DEF CancelNow, Retry
    <2>3. UNCHANGED <<minted, of, started>>
      BY <2>1 DEF CancelNow, Retry
    <2>4. /\ status'[j] \notin Active
          /\ \A k \in Jobs \ {j} : status'[k] = status[k] /\ attempt'[k] = attempt[k]
      BY <2>2, SetRowEffect DEF QueueInv, RowsOK, Active
    <2>5. IdleRows
      BY <2>3, <2>4 DEF IdleRows
    <2>6. Receipt(o, "cancel", j, "applied") \/ Receipt(o, "retry", j, "applied")
      BY <2>1 DEF CancelNow, Retry
    <2> QED
      BY <2>4, <2>5, <2>6, ReceiptStop
  <1>3. CASE ops[o].state = "pending" /\ Stopped(o)
    BY <1>3, StoppedIdles, IdlingStop
  <1>4. CASE \/ AckDeadlinePasses(o)
             \/ \E outcome \in {"applied", "rejected"} : RecordWorkerOutcome(o, outcome)
             \/ ~Stopped(o) /\ \E outcome \in {"applied", "stopped", "rejected"} : Acknowledge(o, outcome)
             \/ ~Stopped(o) /\ ReconcileExpired(o)
    <2>0. /\ DOMAIN ops = OpIds
          /\ DOMAIN ops[o] = {"kind", "job", "attempt", "at", "state", "noted", "late"}
      BY DEF QueueInv, RowsOK, ControlTable
    <2>1. /\ UNCHANGED <<rowVars, ledgerVars>>
          /\ ops[o].state = "pending"
          /\ \/ \E x : ops' = [ops EXCEPT ![o].late = x]
             \/ \E x : ops' = [ops EXCEPT ![o].noted = x]
             \/ ops' = [ops EXCEPT ![o].state = "rejected"]
             \/ ops[o].kind = "steer" /\ ops' = [ops EXCEPT ![o].state = "applied"]
             \/ /\ ~(ops[o].kind \in StopKinds /\ status[ops[o].job] = "claimed")
                /\ ops' = [ops EXCEPT ![o].state = IF ExactActive(o) THEN "expired" ELSE "lost"]
      BY <1>4 DEF AckDeadlinePasses, RecordWorkerOutcome, Acknowledge, ReconcileExpired
    <2>2. \A p \in OpIds : p # o => ops'[p] = ops[p]
      BY <2>0, <2>1
    <2>3. SameOrder(o)
      BY <2>0, <2>1 DEF SameOrder
    <2>4. \/ ops'[o].state = ops[o].state
          \/ ops'[o].state = "rejected"
          \/ ops[o].kind = "steer" /\ ops'[o].state = "applied"
          \/ /\ ~(ops[o].kind \in StopKinds /\ status[ops[o].job] = "claimed")
             /\ ops'[o].state = IF ExactActive(o) THEN "expired" ELSE "lost"
      BY <2>0, <2>1
    <2>5. ExactActive(o)' = ExactActive(o)
      BY <2>1, <2>3 DEF ExactActive, SameOrder, rowVars
    <2>6. GoesOn(o)
      BY <2>1, <2>3, <2>4, <2>5 DEF GoesOn, EndsFairly, StopKinds
    <2> QED
      BY <2>1, <2>2, <2>6, OpsOnlyIdles, IdlingStop
  <1> QED
    BY <1>1, <1>2, <1>3, <1>4 DEF Controlling, Acknowledge, ReconcileExpired

LEMMA RestartIdles ==
    ASSUME QueueInv, NEW live, Restart(live)
    PROVE  Idling
  <1>1. UNCHANGED <<rowVars, ledgerVars>>
    BY DEF Restart
  <1>2. ASSUME NEW o \in OpIds PROVE GoesOn(o)
    <2>0. DOMAIN ops[o] = {"kind", "job", "attempt", "at", "state", "noted", "late"}
      BY DEF QueueInv, RowsOK, ControlTable
    <2>1. \/ ops'[o] = ops[o]
          \/ ops[o].state = "pending" /\ ops'[o] = [ops[o] EXCEPT !.state = "inactive"]
      BY DEF Restart, Settle
    <2> QED
      BY <2>0, <2>1 DEF GoesOn, SameOrder, EndsFairly
  <1> QED
    BY <1>1, <1>2 DEF Idling, IdleRows, rowVars

LEMMA StopNext ==
    ASSUME QueueInv, QueueInv', StopInv, [Next]_ctlVars
    PROVE  StopInv'
  <1>1. CASE UNCHANGED ctlVars
    BY <1>1, RowsIdle, IdlingStop DEF ctlVars, vars
  <1>2. CASE \E j \in Jobs : Submitting(j) \/ Sweeping(j) \/ Deciding(j) \/ Retiring(j)
    BY <1>2, SubmittingIdles, SweepingIdles, DecidingIdles, RetiringIdles, IdlingStop
  <1>3. CASE \E j \in Jobs : Claiming(j) \/ \E w \in Workers : Working(w, j)
    BY <1>3, ClaimingIdles, ClaimStop, WorkingStop, IdlingStop
  <1>4. CASE \E j \in Jobs, b \in Passing : TimePassing(j, b)
    BY <1>4, RowsIdle, IdlingStop DEF TimePassing, TimePasses
  <1>5. CASE \E j \in Jobs : \E a \in Attempts, f \in {"applied", "not_applied"} : ReconcileEffect(j, a, f)
    <2>1. PICK j \in Jobs, a \in Attempts, f \in {"applied", "not_applied"} : ReconcileEffect(j, a, f)
      BY <1>5
    <2>2. /\ \E s \in {"neutral", "cancelled"} : \E h, w, b, p : SetRow(j, s, h, w, b, p)
          /\ UNCHANGED <<minted, of, started, ops>>
      BY <2>1 DEF ReconcileEffect
    <2> QED
      BY <2>2, SetRowIdles, IdlingStop DEF Active
  <1>6. CASE Unblocking
    <2>1. /\ \A k \in Jobs : \/ status'[k] = status[k]
                             \/ status'[k] \in {"neutral", "failed", "queued", "blocked"}
          /\ UNCHANGED <<attempt, ledgerVars, ops>>
      BY <1>6, UnblockedRows DEF Unblocking, UnblockReadyJobs
    <2> QED
      BY <2>1, Idles, IdlingStop DEF Active
  <1>7. CASE \E e \in events : Draining(e)
    BY <1>7, RowsIdle, IdlingStop DEF Draining, DrainOutcome
  <1>8. CASE \E o \in OpIds : Controlling(o)
    BY <1>8, ControllingStop
  <1>9. CASE \E live \in Modes : Restart(live)
    BY <1>9, RestartIdles, IdlingStop
  <1> QED
    BY <1>1, <1>2, <1>3, <1>4, <1>5, <1>6, <1>7, <1>8, <1>9 DEF Next

LEMMA StopInit ==
    ASSUME Init
    PROVE  StopInv
  <1>1. /\ status \in [Jobs -> {"absent", "queued", "abandoned"}]
        /\ ops = [o \in OpIds |-> Unused]
    BY DEF Init, QueueInit
  <1> QED
    BY <1>1 DEF StopInv, StopsWell, MintedInHand, Unused, StopKinds, Active

\* A stop accepted before its attempt started keeps it from starting, through
\* leases, late acknowledgements and stronger stops, and a stop that was
\* applied has ended its attempt for good.
THEOREM QueueStopsHold == Spec => []StopHolds
  <1>1. Spec => []StopInv
    BY StopInit, StopNext, QueueInvariant, PTL DEF Spec
  <1>2. QueueInv /\ StopInv => StopHolds
    <2> SUFFICES ASSUME QueueInv, StopInv, NEW o \in OpIds, ops[o].kind \in StopKinds,
                        ops[o].attempt # NoAttempt
                 PROVE  /\ ops[o].at = "claimed" /\ ops[o].state \in {"pending", "applied", "lost", "expired"}
                              => ops[o].attempt \notin started
                        /\ ops[o].state = "applied" => ~ExactActive(o)
      BY DEF StopHolds
    <2>1. /\ ops[o].at = "claimed" => HeldBack(o)
          /\ ops[o].state \in {"applied", "lost"} => ~ExactActive(o)
      BY DEF StopInv, StopsWell
    <2>2. ops[o].state = "pending" /\ status[ops[o].job] = "claimed" => ops[o].attempt \notin started
      BY DEF QueueInv, RowsOK, PendingOwned, ClaimIsFresh
    <2> QED
      BY <2>1, <2>2 DEF HeldBack
  <1> QED
    BY <1>1, <1>2, QueueInvariant, PTL

=============================================================================
