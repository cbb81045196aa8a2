------------------------- MODULE WorkControlProofs -------------------------
(***************************************************************************)
(* The queue repeats no effect blindly, starts none without an approval,   *)
(* ends its jobs once and its commands with their attempts, and implements *)
(* EffectOnce, for any jobs, workers, operators, dependencies and rows of  *)
(* an older writer.                                                        *)
(*                                                                         *)
(* QueueInv is the inductive invariant.  NoBlindRetry is not inductive:    *)
(* the start of an attempt looks at the row and not at the ledger, so      *)
(* ClaimIsFresh carries what the claim read there to the start.            *)
(* ApprovedFirst needs RetiredOrNew, because posting an id anew resets its *)
(* approval.  A pending operation is the only one of its job               *)
(* (PendingAlone) because each kind overrules the weaker ones on the       *)
(* attempt it names, and PendingOwned says that these are all there are.   *)
(*                                                                         *)
(* Only four kinds of step write to the ledger or add an operation         *)
(* (StepKinds); all others are Quiet, and the lemmas that say so are the   *)
(* bulk of this module.                                                    *)
(***************************************************************************)
EXTENDS WorkControl, TLAPS

\* The columns are functions of the jobs.
Columns ==
    /\ DOMAIN status = Jobs
    /\ DOMAIN attempt = Jobs
    /\ DOMAIN approval = Jobs
    /\ DOMAIN tomb = Jobs
    /\ DOMAIN retries = Jobs

\* The audit ledger: attempts are minted in order, only minted ones start,
\* and evidence is about attempts that started.
LedgerOK ==
    /\ minted \in 0..MaxAttempts
    /\ of \in [Attempts -> Jobs \cup {NoJob}]
    /\ finding \in [Attempts -> Findings]
    /\ started \subseteq 1..minted
    /\ \A a \in Attempts : of[a] # NoJob => a <= minted
    /\ \A a \in Attempts : finding[a] # "none" => a \in started

\* A claim that has not been started is the newest attempt of its job, and
\* nothing an earlier attempt did is left open.
ClaimIsFresh ==
    \A j \in Jobs : status[j] = "claimed" =>
        /\ attempt[j] \in Attempts \ started
        /\ of[attempt[j]] = j
        /\ \A a \in AttemptsOf(j) : a <= attempt[j]
        /\ j \in Effectful => Exposed(j) = {}

\* A tombstone stands for a row that is gone, and an id without row and
\* tombstone has never been worked on.
RetiredOrNew ==
    \A j \in Jobs :
        /\ tomb[j] # "none" => status[j] = "absent"
        /\ status[j] = "absent" /\ tomb[j] = "none" => AttemptsOf(j) = {}

\* The table of operations has its columns.
ControlTable ==
    /\ DOMAIN ops = OpIds
    /\ \A o \in OpIds :
          DOMAIN ops[o] = {"kind", "job", "attempt", "at", "state", "noted", "late"}

\* A pending operation names the attempt its job is on, and it is the only
\* one of its job.
PendingOwned ==
    \A o \in OpIds : ops[o].state = "pending" =>
        /\ ops[o].job \in Jobs
        /\ status[ops[o].job] \in Active
        /\ attempt[ops[o].job] = ops[o].attempt
        /\ ops[o].kind \in {"steer", "interrupt", "cancel"}

PendingAlone ==
    \A o, p \in OpIds : ops[o].state = "pending" /\ ops[p].state = "pending"
                        /\ ops[o].job = ops[p].job => o = p

\* What the proofs about a single row rest on.
RowsOK == Columns /\ ControlTable /\ RetiredOrNew /\ PendingOwned

\* The inductive invariant.
QueueInv ==
    /\ RowsOK
    /\ PendingAlone
    /\ LedgerOK
    /\ ClaimIsFresh
    /\ NoBlindRetry
    /\ ApprovedFirst

-----------------------------------------------------------------------------
(* Most steps leave the ledger alone and claim nothing.                    *)

\* The operations pending after a step were pending before it, on the
\* attempts their jobs are still on.
Attended ==
    /\ ControlTable'
    /\ \A o \in OpIds : ops'[o].state = "pending" =>
          /\ ops[o].state = "pending"
          /\ ops'[o].job = ops[o].job
          /\ ops'[o].attempt = ops[o].attempt
          /\ ops'[o].kind = ops[o].kind
          /\ status'[ops[o].job] \in Active
          /\ attempt'[ops[o].job] = attempt[ops[o].job]

\* What EndedStaysEnded says of one step.
Lasting ==
    \A j \in Jobs :
        /\ status[j] = "completed" => status'[j] \in {"completed", "absent"}
        /\ status[j] \in {"failed", "cancelled"} =>
              \/ status'[j] \in {status[j], "absent"}
              \/ status'[j] = "queued" /\ retries'[j] = retries[j] + 1
        /\ status[j] = "neutral" => status'[j] \in {"neutral", "completed", "cancelled", "absent"}
        /\ status[j] = "neutral" /\ status'[j] = "cancelled" => finding' # finding
        /\ tomb[j] # "none" => status'[j] = "absent" /\ tomb'[j] = tomb[j]

\* A step that writes nothing to the ledger, claims no row, takes no approval
\* back except from an id that was never worked on, and vacates no id.
Unclaiming ==
    /\ Columns'
    /\ UNCHANGED ledgerVars
    /\ \A k \in Jobs :
          /\ status'[k] = "claimed" => status[k] = "claimed" /\ attempt'[k] = attempt[k]
          /\ approval[k] = "approved" => \/ approval'[k] = "approved"
                                         \/ status[k] = "absent" /\ tomb[k] = "none"
          /\ status'[k] = "absent" /\ tomb'[k] = "none" =>
                status[k] = "absent" /\ tomb[k] = "none"
          /\ tomb'[k] # "none" => status'[k] = "absent"

Quiet == Unclaiming /\ Attended /\ Lasting

\* The operations on job j end, if any is pending.
Released(j) ==
    /\ ControlTable'
    /\ \A o \in OpIds : ops'[o].state = "pending" =>
          /\ ops[o].state = "pending"
          /\ ops[o].job # j
          /\ ops'[o].job = ops[o].job
          /\ ops'[o].attempt = ops[o].attempt
          /\ ops'[o].kind = ops[o].kind

LEMMA SettleReleases ==
    ASSUME ControlTable, PendingOwned, NEW j, NEW S, NEW x, x # "pending",
           ops' = Settle(S, x),
           \A o \in OpIds : ops[o].state = "pending" /\ ops[o].job = j => o \in S
    PROVE  Released(j)
  BY DEF Released, ControlTable, Settle

LEMMA IdleReleased ==
    ASSUME ControlTable, PendingOwned, NEW j \in Jobs, status[j] \notin Active,
           UNCHANGED ops \/ \E a : Finalize(j, a)
    PROVE  Released(j)
  <1>1. \A o \in OpIds : ~(ops[o].state = "pending" /\ ops[o].job = j)
    BY DEF PendingOwned
  <1>2. CASE UNCHANGED ops
    BY <1>1, <1>2 DEF Released, ControlTable
  <1>3. CASE \E a : Finalize(j, a)
    BY <1>1, <1>3, SettleReleases DEF Finalize
  <1> QED
    BY <1>2, <1>3

LEMMA FinalizeReleases ==
    ASSUME ControlTable, PendingOwned, NEW j \in Jobs, Finalize(j, attempt[j])
    PROVE  Released(j)
  BY SettleReleases DEF Finalize, Pending, PendingOwned

\* What SetRow does to the columns a proof looks at.
LEMMA SetRowEffect ==
    ASSUME Columns, NEW j \in Jobs, NEW s, NEW h, NEW w, NEW a, NEW p,
           SetRow(j, s, h, w, a, p)
    PROVE  /\ DOMAIN status' = Jobs
           /\ DOMAIN attempt' = Jobs
           /\ status'[j] = s
           /\ attempt'[j] = a
           /\ \A k \in Jobs \ {j} : status'[k] = status[k] /\ attempt'[k] = attempt[k]
  BY DEF Columns, SetRow

\* A row that has not ended is set to another state than claimed or absent.
LEMMA SetRowQuiet ==
    ASSUME RowsOK, NEW j \in Jobs, NEW s, NEW h, NEW w, NEW a, NEW p,
           SetRow(j, s, h, w, a, p), s \notin {"claimed", "absent"},
           status[j] \notin Terminal \cup {"absent"}, Released(j),
           DOMAIN retries' = Jobs, DOMAIN approval' = Jobs,
           \A k \in Jobs : approval[k] = "approved" => approval'[k] = "approved",
           UNCHANGED <<tomb, ledgerVars>>
    PROVE  Quiet
  <1>1. /\ DOMAIN status' = Jobs
        /\ DOMAIN attempt' = Jobs
        /\ status'[j] = s
        /\ \A k \in Jobs \ {j} : status'[k] = status[k] /\ attempt'[k] = attempt[k]
    BY SetRowEffect DEF RowsOK
  <1>2. Unclaiming
    BY <1>1 DEF Unclaiming, RowsOK, Columns, RetiredOrNew
  <1>3. Attended
    BY <1>1 DEF Attended, Released, RowsOK, PendingOwned
  <1>4. Lasting
    BY <1>1 DEF Lasting, Terminal, RowsOK, RetiredOrNew
  <1> QED
    BY <1>2, <1>3, <1>4 DEF Quiet

\* The rows stay as they are, and no operation is added.
LEMMA RowsQuiet ==
    ASSUME RowsOK, UNCHANGED <<rowVars, tomb, retries, ledgerVars>>,
           UNCHANGED ops \/ Attended,
           DOMAIN approval' = Jobs,
           \A k \in Jobs : approval[k] = "approved" => approval'[k] = "approved"
    PROVE  Quiet
  <1>1. Unclaiming
    BY DEF Unclaiming, RowsOK, Columns, RetiredOrNew, rowVars
  <1>2. Attended
    BY DEF Attended, RowsOK, ControlTable, PendingOwned, rowVars
  <1>3. Lasting
    BY DEF Lasting, RowsOK, RetiredOrNew, rowVars
  <1> QED
    BY <1>1, <1>2, <1>3 DEF Quiet

\* What a completed row and the dependents it releases look like.
LEMMA UnblockedRows ==
    ASSUME NEW st, NEW pr
    PROVE  /\ DOMAIN Unblocked(st, pr) = Jobs
           /\ \A k \in Jobs : \/ Unblocked(st, pr)[k] = st[k]
                               \/ /\ st[k] = "blocked"
                                  /\ Unblocked(st, pr)[k] \in {"neutral", "failed", "queued", "blocked"}
  BY DEF Unblocked, Waiting

LEMMA CompleteRowQuiet ==
    ASSUME RowsOK, NEW j \in Jobs, NEW hd, CompleteRow(j, hd), Released(j),
           status[j] \in {"running", "neutral"}, UNCHANGED <<tomb, approval, retries, ledgerVars>>
    PROVE  Quiet
  <1>1. /\ DOMAIN status' = Jobs
        /\ attempt' = attempt
        /\ status'[j] = "completed"
        /\ \A k \in Jobs \ {j} : \/ status'[k] = status[k]
                                 \/ /\ status[k] = "blocked"
                                    /\ status'[k] \in {"neutral", "failed", "queued", "blocked"}
    <2> DEFINE st == [status EXCEPT ![j] = "completed"]
               pr == [proof EXCEPT ![j] = "none"]
    <2>1. status' = Unblocked(st, pr) /\ attempt' = attempt
      BY DEF CompleteRow
    <2>2. /\ st[j] = "completed"
          /\ \A k \in Jobs \ {j} : st[k] = status[k]
      BY DEF RowsOK, Columns
    <2> HIDE DEF st, pr
    <2> QED
      BY <2>1, <2>2, UnblockedRows
  <1>2. Unclaiming
    BY <1>1 DEF Unclaiming, RowsOK, Columns, RetiredOrNew
  <1>3. Attended
    BY <1>1 DEF Attended, Released, RowsOK, PendingOwned, Active
  <1>4. Lasting
    BY <1>1 DEF Lasting, RowsOK, RetiredOrNew
  <1> QED
    BY <1>2, <1>3, <1>4 DEF Quiet

LEMMA UnblockQuiet ==
    ASSUME RowsOK, UnblockReadyJobs
    PROVE  Quiet
  <1>1. /\ DOMAIN status' = Jobs
        /\ \A k \in Jobs : \/ status'[k] = status[k]
                            \/ /\ status[k] = "blocked"
                               /\ status'[k] \in {"neutral", "failed", "queued", "blocked"}
        /\ UNCHANGED <<attempt, tomb, approval, retries, ledgerVars, ops>>
    BY UnblockedRows DEF UnblockReadyJobs, restVars
  <1>2. Unclaiming
    BY <1>1 DEF Unclaiming, RowsOK, Columns, RetiredOrNew
  <1>3. Attended
    BY <1>1 DEF Attended, RowsOK, ControlTable, PendingOwned, Active
  <1>4. Lasting
    BY <1>1 DEF Lasting, RowsOK, RetiredOrNew
  <1> QED
    BY <1>2, <1>3, <1>4 DEF Quiet

LEMMA RequeueQuiet ==
    ASSUME RowsOK, NEW j \in Jobs, status[j] \notin Terminal \cup {"absent"}, Released(j),
           Requeue(j) \/ \E h : HoldUnclaimed(j, h),
           UNCHANGED <<tomb, approval, retries, ledgerVars>>
    PROVE  Quiet
  BY SetRowQuiet DEF Requeue, HoldUnclaimed, RowsOK, Columns

LEMMA FailAttemptQuiet ==
    ASSUME RowsOK, NEW j \in Jobs, status[j] \in Active, FailAttempt(j)
    PROVE  Quiet
  <1>1. \E s \in {"neutral", "queued", "failed"} : \E h, w, b, p : SetRow(j, s, h, w, b, p)
    BY DEF FailAttempt, Requeue
  <1>2. DOMAIN retries' = Jobs
    BY DEF FailAttempt, RowsOK, Columns
  <1>3. Released(j)
    BY FinalizeReleases DEF FailAttempt, RowsOK
  <1>4. status[j] \notin Terminal \cup {"absent"}
    BY DEF Active, Terminal
  <1>5. /\ DOMAIN approval' = Jobs
        /\ UNCHANGED <<approval, tomb, ledgerVars>>
    BY DEF FailAttempt, RowsOK, Columns
  <1> QED
    BY <1>1, <1>2, <1>3, <1>4, <1>5, SetRowQuiet

LEMMA FenceRowQuiet ==
    ASSUME RowsOK, NEW j \in Jobs, status[j] \notin Terminal \cup Active \cup {"absent"}, FenceRow(j)
    PROVE  Quiet
  <1>1. \E h, w, b, p : SetRow(j, "neutral", h, w, b, p)
    BY DEF FenceRow
  <1>2. Released(j)
    BY IdleReleased DEF FenceRow, RowsOK
  <1>3. /\ DOMAIN approval' = Jobs
        /\ DOMAIN retries' = Jobs
        /\ UNCHANGED <<approval, tomb, ledgerVars>>
    BY DEF FenceRow, RowsOK, Columns
  <1> QED
    BY <1>1, <1>2, <1>3, SetRowQuiet

-----------------------------------------------------------------------------
(* The quiet steps of the queue, one lemma per group of Next.               *)

\* A waiting row on which nothing can be pending is moved.
LEMMA WaitingRowQuiet ==
    ASSUME RowsOK, NEW j \in Jobs, NEW s, NEW h, NEW w, NEW a, NEW p,
           SetRow(j, s, h, w, a, p), s \notin {"claimed", "absent"},
           status[j] \notin Terminal \cup Active \cup {"absent"},
           UNCHANGED <<tomb, approval, retries, ledgerVars, ops>>
    PROVE  Quiet
  <1>1. Released(j)
    BY IdleReleased DEF RowsOK
  <1> QED
    BY <1>1, SetRowQuiet DEF RowsOK, Columns

LEMMA PostQuiet ==
    ASSUME RowsOK, NEW j \in Jobs, Post(j)
    PROVE  Quiet
  <1>1. PICK s \in {"failed", "blocked", "queued"} : \E h, w, a, p : SetRow(j, s, h, w, a, p)
    BY DEF Post
  <1>2. /\ DOMAIN status' = Jobs
        /\ DOMAIN attempt' = Jobs
        /\ status'[j] = s
        /\ \A k \in Jobs \ {j} : status'[k] = status[k] /\ attempt'[k] = attempt[k]
    BY <1>1, SetRowEffect DEF RowsOK
  <1>3. /\ status[j] = "absent" /\ tomb[j] = "none"
        /\ DOMAIN approval' = Jobs
        /\ \A k \in Jobs \ {j} : approval'[k] = approval[k]
        /\ UNCHANGED <<tomb, retries, ledgerVars, ops>>
    BY DEF Post, RowsOK, Columns
  <1>4. Unclaiming
    BY <1>2, <1>3 DEF Unclaiming, RowsOK, Columns, RetiredOrNew
  <1>5. Attended
    BY <1>2, <1>3 DEF Attended, RowsOK, ControlTable, PendingOwned, Active
  <1>6. Lasting
    BY <1>2, <1>3 DEF Lasting, RowsOK, RetiredOrNew
  <1> QED
    BY <1>4, <1>5, <1>6 DEF Quiet

LEMMA SubmittingQuiet ==
    ASSUME RowsOK, NEW j \in Jobs, Submitting(j)
    PROVE  Quiet
  <1>1. CASE Post(j)
    BY <1>1, PostQuiet
  <1>2. CASE CancelJob(j)
    BY <1>2, WaitingRowQuiet DEF CancelJob, restVars
  <1> QED
    BY <1>1, <1>2 DEF Submitting

LEMMA HoldingQuiet ==
    ASSUME RowsOK, NEW j \in Jobs, Claiming(j), \A w \in Workers : ~ClaimJob(w, j)
    PROVE  Quiet
  <1>1. CASE HoldQueuedForRuntime(j)
    BY <1>1, WaitingRowQuiet DEF HoldQueuedForRuntime, HoldUnclaimed, restVars, Terminal, Active
  <1>2. CASE QuarantineQueued(j)
    BY <1>2, FenceRowQuiet DEF QuarantineQueued, Terminal, Active
  <1>3. CASE HoldForMissingApproval(j)
    BY <1>3, WaitingRowQuiet DEF HoldForMissingApproval, restVars, Terminal, Active
  <1>4. CASE \E h \in GovernorHolds : HoldQueuedForGovernance(j, h)
    BY <1>4, WaitingRowQuiet DEF HoldQueuedForGovernance, restVars, Terminal, Active
  <1> QED
    BY <1>1, <1>2, <1>3, <1>4 DEF Claiming

\* A claimed row goes back to the queue or to a hold, with its operations.
LEMMA GiveBackQuiet ==
    ASSUME RowsOK, NEW j \in Jobs, status[j] \in Active,
           Requeue(j) \/ \E h : HoldUnclaimed(j, h), Finalize(j, attempt[j]),
           UNCHANGED <<restVars, ledgerVars>>
    PROVE  Quiet
  <1>1. Released(j)
    BY FinalizeReleases DEF RowsOK
  <1> QED
    BY <1>1, RequeueQuiet DEF Active, Terminal, restVars

LEMMA ReleaseQuiet ==
    ASSUME RowsOK, NEW j \in Jobs, NEW w, NEW a, ReleaseJob(w, j, a)
    PROVE  Quiet
  BY FailAttemptQuiet, GiveBackQuiet DEF ReleaseJob, ExactClaim

LEMMA FailJobQuiet ==
    ASSUME RowsOK, NEW j \in Jobs, NEW w, NEW a, FailJob(w, j, a)
    PROVE  Quiet
  BY FailAttemptQuiet DEF FailJob, ExactClaim

LEMMA CompleteQuiet ==
    ASSUME RowsOK, NEW j \in Jobs, NEW w, NEW a,
           NEW report, NEW attested, CompleteJob(w, j, a, report, attested)
    PROVE  Quiet
  <1> DEFINE target == Completion(j, report, attested)
  <1>1. target[1] \in {"neutral", "failed", "completed"}
    BY DEF Completion
  <1>2. /\ status[j] = "running"
        /\ attempt[j] = a
    BY DEF CompleteJob, ExactClaim
  <1>3. CASE FailAttempt(j)
    BY <1>2, <1>3, FailAttemptQuiet DEF Active
  <1>4. CASE ~FailAttempt(j)
    <2>1. UNCHANGED <<tomb, approval, retries, ledgerVars>>
      BY <1>4 DEF CompleteJob
    <2>2. Released(j)
      BY <1>2, <1>4, FinalizeReleases DEF CompleteJob, RowsOK
    <2>3. CASE CompleteRow(j, hold)
      BY <2>1, <2>2, <2>3, <1>2, CompleteRowQuiet
    <2>4. CASE \E h, p : SetRow(j, target[1], h, NoWorker, a, p) /\ target[1] # "completed"
      BY <2>1, <2>2, <2>4, <1>1, <1>2, SetRowQuiet DEF RowsOK, Columns, Terminal
    <2> QED
      BY <2>3, <2>4, <1>4 DEF CompleteJob
  <1> QED
    BY <1>3, <1>4

LEMMA WorkingQuiet ==
    ASSUME RowsOK, NEW j \in Jobs, NEW w \in Workers, Working(w, j),
           ~(status[j] = "claimed" /\ StartAttempt(j))
    PROVE  Quiet
  <1>1. CASE StartJob(w, j, attempt[j])
    <2>1. CASE FailAttempt(j)
      BY <1>1, <2>1, FailAttemptQuiet DEF StartJob, ExactClaim
    <2>2. CASE RetireClaim(j)
      BY <1>1, <2>2, GiveBackQuiet DEF StartJob, ExactClaim, RetireClaim
    <2> QED
      BY <1>1, <2>1, <2>2 DEF StartJob
  <1>2. CASE ReleaseJob(w, j, attempt[j])
    BY <1>2, ReleaseQuiet
  <1>3. CASE FailJob(w, j, attempt[j])
    BY <1>3, FailJobQuiet
  <1>4. CASE \E report \in Reports, attested \in BOOLEAN :
                CompleteJob(w, j, attempt[j], report, attested)
    BY <1>4, CompleteQuiet
  <1>5. CASE SendHeartbeat(w, j, attempt[j])
    BY <1>5, RowsQuiet DEF SendHeartbeat, RowsOK, Columns
  <1>6. CASE AbandonJobsForNode(w, j)
    BY <1>6, ReleaseQuiet, FailJobQuiet DEF AbandonJobsForNode
  <1> QED
    BY <1>1, <1>2, <1>3, <1>4, <1>5, <1>6 DEF Working

\* Whatever the approval store answers, an approval stays one.
LEMMA ResolveKeeps ==
    ASSUME Columns, NEW j \in Jobs, NEW answer \in Resolve(j),
           approval' = [approval EXCEPT ![j] = answer]
    PROVE  /\ DOMAIN approval' = Jobs
           /\ \A k \in Jobs : approval[k] = "approved" => approval'[k] = "approved"
  BY DEF Columns, Resolve

LEMMA SweepingQuiet ==
    ASSUME RowsOK, NEW j \in Jobs, Sweeping(j)
    PROVE  Quiet
  <1>1. CASE ExpirePastDeadlines(j)
    BY <1>1, FailAttemptQuiet, WaitingRowQuiet
       DEF ExpirePastDeadlines, Active, Terminal, restVars
  <1>2. CASE ExpireExecutionTimeouts(j)
    BY <1>2, FailAttemptQuiet DEF ExpireExecutionTimeouts, Active
  <1>3. CASE AbandonSilentJobs(j)
    BY <1>3, FailAttemptQuiet, GiveBackQuiet DEF AbandonSilentJobs, Active
  <1>4. CASE RequeueRetryableJobs(j)
    <2>0. status[j] \notin Terminal \cup Active \cup {"absent"}
      BY <1>4 DEF RequeueRetryableJobs, Terminal, Active
    <2>1. CASE FenceRow(j)
      BY <2>0, <2>1, FenceRowQuiet
    <2>2. CASE ~FenceRow(j)
      <3>1. \E s \in {"queued", "failed"} : \E h, w, a, p : SetRow(j, s, h, w, a, p)
        BY <1>4, <2>2 DEF RequeueRetryableJobs, Requeue
      <3>2. Released(j)
        BY <1>4, <2>0, <2>2, IdleReleased DEF RequeueRetryableJobs, RowsOK
      <3> QED
        BY <1>4, <2>0, <2>2, <3>1, <3>2, SetRowQuiet DEF RequeueRetryableJobs, RowsOK, Columns
    <2> QED
      BY <2>1, <2>2
  <1>5. CASE ExpireBlockedApprovals(j)
    BY <1>5, WaitingRowQuiet
       DEF ExpireBlockedApprovals, AwaitingOwner, restVars, Terminal, Active
  <1>6. CASE ReconcileBlockedApproval(j)
    <2>1. \E s \in {"blocked", "queued", "cancelled", "failed"} : \E h, w, a, p :
             SetRow(j, s, h, w, a, p)
      BY <1>6 DEF ReconcileBlockedApproval
    <2>2. \E answer \in Resolve(j) : approval' = [approval EXCEPT ![j] = answer]
      BY <1>6 DEF ReconcileBlockedApproval
    <2>3. /\ status[j] \notin Terminal \cup Active \cup {"absent"}
          /\ UNCHANGED <<tomb, retries, ledgerVars, ops>>
      BY <1>6 DEF ReconcileBlockedApproval, AwaitingOwner, Terminal, Active
    <2>4. Released(j)
      BY <2>3, IdleReleased DEF RowsOK
    <2> QED
      BY <2>1, <2>2, <2>3, <2>4, ResolveKeeps, SetRowQuiet DEF RowsOK, Columns
  <1>7. CASE ReconcileGovernanceHolds(j)
    BY <1>7, WaitingRowQuiet DEF ReconcileGovernanceHolds, restVars, Terminal, Active
  <1>8. CASE ReconcileRuntimeClaimHolds(j)
    BY <1>8, WaitingRowQuiet DEF ReconcileRuntimeClaimHolds, restVars, Terminal, Active
  <1> QED
    BY <1>1, <1>2, <1>3, <1>4, <1>5, <1>6, <1>7, <1>8 DEF Sweeping

LEMMA DecidingQuiet ==
    ASSUME RowsOK, NEW j \in Jobs, Deciding(j)
    PROVE  Quiet
  <1>1. CASE \E d \in OwnerDecisions : Decide(j, d)
    <2>1. /\ DOMAIN approval' = Jobs
          /\ \A k \in Jobs : approval[k] = "approved" => approval'[k] = "approved"
      BY <1>1 DEF Decide, RowsOK, Columns
    <2> QED
      BY <1>1, <2>1, RowsQuiet DEF Decide, SetWriter
  <1>2. CASE ReadDependencies(j)
    BY <1>2, RowsQuiet DEF ReadDependencies, SetWriter, RowsOK, Columns
  <1>3. CASE PrepareEffectAuthority(j)
    <2>1. \E answer \in Resolve(j) : approval' = [approval EXCEPT ![j] = answer]
      BY <1>3 DEF PrepareEffectAuthority
    <2>2. UNCHANGED <<rowVars, tomb, retries, ledgerVars, ops>>
      BY <1>3 DEF PrepareEffectAuthority, SetWriter
    <2> QED
      BY <2>1, <2>2, ResolveKeeps, RowsQuiet DEF RowsOK
  <1>4. CASE ApplyDecision(j)
    <2>1. UNCHANGED <<tomb, approval, retries, ledgerVars, ops>>
      BY <1>4 DEF ApplyDecision
    <2>2. \/ UNCHANGED rowVars
          \/ /\ status[j] \notin Terminal \cup Active \cup {"absent"}
             /\ \E s \in {"queued", "blocked", "cancelled", "failed"} : \E h, w, a, p :
                   SetRow(j, s, h, w, a, p)
      BY <1>4 DEF ApplyDecision
    <2> QED
      BY <2>1, <2>2, WaitingRowQuiet, RowsQuiet DEF RowsOK, Columns
  <1>5. CASE CrashHandler(j)
    BY <1>5, RowsQuiet DEF CrashHandler, SetWriter, RowsOK, Columns
  <1> QED
    BY <1>1, <1>2, <1>3, <1>4, <1>5 DEF Deciding

LEMMA RetiringQuiet ==
    ASSUME RowsOK, NEW j \in Jobs, Retiring(j)
    PROVE  Quiet
  <1>1. CASE Attest(j)
    <2>1. Released(j)
      BY <1>1, IdleReleased DEF Attest, Active, RowsOK
    <2> QED
      BY <1>1, <2>1, CompleteRowQuiet DEF Attest
  <1>2. CASE Prune(j)
    <2>1. SetRow(j, "absent", "none", NoWorker, NoAttempt, "none")
      BY <1>2 DEF Prune
    <2>2. /\ DOMAIN status' = Jobs
          /\ DOMAIN attempt' = Jobs
          /\ status'[j] = "absent"
          /\ \A k \in Jobs \ {j} : status'[k] = status[k] /\ attempt'[k] = attempt[k]
      BY <2>1, SetRowEffect DEF RowsOK
    <2>3. status[j] \notin {"none", "absent"} \cup Active
      BY <1>2 DEF Prune, Prunable, Terminal, Active
    <2>4. /\ tomb' = [tomb EXCEPT ![j] = status[j]]
          /\ DOMAIN retries' = Jobs
          /\ UNCHANGED <<approval, ledgerVars, ops>>
      BY <1>2 DEF Prune, RowsOK, Columns
    <2>5. Unclaiming
      BY <2>2, <2>3, <2>4 DEF Unclaiming, RowsOK, Columns, RetiredOrNew
    <2>6. Attended
      BY <2>2, <2>3, <2>4 DEF Attended, RowsOK, ControlTable, PendingOwned
    <2>7. Lasting
      BY <2>2, <2>3, <2>4 DEF Lasting, RowsOK, Columns, RetiredOrNew
    <2> QED
      BY <2>5, <2>6, <2>7 DEF Quiet
  <1> QED
    BY <1>1, <1>2 DEF Retiring

\* The rows stay, and operations end or are annotated.
LEMMA OpsAttended ==
    ASSUME RowsOK, UNCHANGED rowVars,
           \/ UNCHANGED ops
           \/ \E o \in OpIds : \E x : x # "pending" /\ ops' = [ops EXCEPT ![o].state = x]
           \/ \E o \in OpIds : \E x : ops' = [ops EXCEPT ![o].noted = x]
           \/ \E o \in OpIds : \E x : ops' = [ops EXCEPT ![o].late = x]
           \/ \E S, x : x # "pending" /\ ops' = Settle(S, x)
    PROVE  Attended
  <1>1. /\ ControlTable'
        /\ \A o \in OpIds : ops'[o].state = "pending" =>
              /\ ops[o].state = "pending"
              /\ ops'[o].job = ops[o].job
              /\ ops'[o].attempt = ops[o].attempt
              /\ ops'[o].kind = ops[o].kind
    BY DEF RowsOK, ControlTable, Settle
  <1> QED
    BY <1>1 DEF Attended, RowsOK, PendingOwned, rowVars

LEMMA StoppedQuiet ==
    ASSUME RowsOK, NEW o \in OpIds, ops[o].state = "pending", Stopped(o)
    PROVE  Quiet
  <1> DEFINE j == ops[o].job
             a == ops[o].attempt
  <1>1. j \in Jobs /\ status[j] \in Active /\ attempt[j] = a
    BY DEF RowsOK, PendingOwned
  <1>2. \E s \in {"neutral", "blocked", "cancelled"} : \E h, w, b, p : SetRow(j, s, h, w, b, p)
    BY DEF Stopped, HoldUnclaimed
  <1>3. Released(j)
    <2>1. ops' = [Settle(Pending(j, a), "lost") EXCEPT ![o].state = "applied"]
      BY DEF Stopped
    <2>2. \A p \in OpIds : ops[p].state = "pending" /\ ops[p].job = j => p \in Pending(j, a)
      BY <1>1 DEF Pending, RowsOK, PendingOwned
    <2> QED
      BY <2>1, <2>2 DEF Released, RowsOK, ControlTable, Settle
  <1>4. status[j] \notin Terminal \cup {"absent"}
    BY <1>1 DEF Active, Terminal
  <1>5. /\ DOMAIN retries' = Jobs
        /\ DOMAIN approval' = Jobs
        /\ UNCHANGED <<approval, tomb, ledgerVars>>
    BY DEF Stopped, RowsOK, Columns
  <1> HIDE DEF j
  <1> QED
    BY <1>1, <1>2, <1>3, <1>4, <1>5, SetRowQuiet

\* The new operation is not pending, and it overrules what is pending on j.
LEMMA ReceiptReleases ==
    ASSUME RowsOK, NEW o \in OpIds, NEW k, NEW j \in Jobs, NEW s, s # "pending",
           Receipt(o, k, j, s),
           \A p \in OpIds : ops[p].state = "pending" /\ ops[p].job = j => ops[p].kind \in Weaker(k)
    PROVE  Released(j)
  <1> DEFINE a == IF status[j] \in Active THEN attempt[j] ELSE NoAttempt
             overruled == {p \in Pending(j, a) : ops[p].kind \in Weaker(k)}
             new == [Unused EXCEPT !.kind = k, !.job = j, !.attempt = a, !.at = status[j], !.state = s]
  <1>1. ops' = [Settle(overruled, "overruled") EXCEPT ![o] = new]
    BY DEF Receipt
  <1>2. \A p \in OpIds : ops[p].state = "pending" /\ ops[p].job = j => p \in overruled
    BY DEF Pending, RowsOK, PendingOwned
  <1>3. /\ new.state = s
        /\ DOMAIN new = {"kind", "job", "attempt", "at", "state", "noted", "late"}
    BY DEF Unused
  <1> HIDE DEF overruled, new
  <1> QED
    BY <1>1, <1>2, <1>3 DEF Released, RowsOK, ControlTable, Settle

LEMMA CancelNowQuiet ==
    ASSUME RowsOK, NEW o \in OpIds, NEW j \in Jobs, CancelNow(o, j)
    PROVE  Quiet
  <1>1. \A p \in OpIds : ops[p].state = "pending" /\ ops[p].job = j => ops[p].kind \in Weaker("cancel")
    <2> SUFFICES ASSUME NEW p \in OpIds, ops[p].state = "pending", ops[p].job = j
                 PROVE  ops[p].kind \in {"steer", "interrupt"}
      BY DEF Weaker
    <2>1. p \in PendingOn(j) /\ ops[p].kind \in {"steer", "interrupt", "cancel"}
      BY DEF PendingOn, RowsOK, PendingOwned
    <2>2. ops[p].kind # "cancel"
      BY <2>1 DEF CancelNow, MayCancel, PendingKinds
    <2> QED
      BY <2>1, <2>2
  <1>2. Released(j)
    BY <1>1, ReceiptReleases DEF CancelNow
  <1>3. status[j] \notin Terminal \cup {"absent"}
    BY DEF CancelNow, MayCancel, Active, Terminal
  <1> QED
    BY <1>2, <1>3, SetRowQuiet DEF CancelNow, restVars, RowsOK, Columns

LEMMA RetryQuiet ==
    ASSUME RowsOK, NEW o \in OpIds, NEW j \in Jobs, Retry(o, j)
    PROVE  Quiet
  <1>1. status[j] \in {"failed", "cancelled", "abandoned", "blocked"}
    BY DEF Retry, MayRetry, Interrupted
  <1>2. \A p \in OpIds : ~(ops[p].state = "pending" /\ ops[p].job = j)
    BY <1>1 DEF RowsOK, PendingOwned, Active
  <1>3. Released(j)
    BY <1>2, ReceiptReleases DEF Retry
  <1>4. \E p : SetRow(j, "queued", "none", NoWorker, NoAttempt, p)
    BY DEF Retry
  <1>5. /\ DOMAIN status' = Jobs
        /\ DOMAIN attempt' = Jobs
        /\ status'[j] = "queued"
        /\ \A k \in Jobs \ {j} : status'[k] = status[k] /\ attempt'[k] = attempt[k]
    BY <1>4, SetRowEffect DEF RowsOK
  <1>6. /\ retries' = [retries EXCEPT ![j] = retries[j] + 1]
        /\ UNCHANGED <<tomb, approval, ledgerVars>>
    BY DEF Retry
  <1>7. Unclaiming
    BY <1>1, <1>5, <1>6 DEF Unclaiming, RowsOK, Columns, RetiredOrNew
  <1>8. Attended
    BY <1>3, <1>5 DEF Attended, Released, RowsOK, PendingOwned
  <1>9. Lasting
    BY <1>1, <1>5, <1>6 DEF Lasting, RowsOK, Columns, RetiredOrNew
  <1> QED
    BY <1>7, <1>8, <1>9 DEF Quiet

LEMMA ControllingQuiet ==
    ASSUME RowsOK, NEW o \in OpIds, Controlling(o),
           \A j \in Jobs : \A k \in {"steer", "interrupt", "cancel"} : ~Ask(o, k, j)
    PROVE  Quiet
  <1>1. CASE \E j \in Jobs : CancelNow(o, j)
    BY <1>1, CancelNowQuiet
  <1>2. CASE \E j \in Jobs : Retry(o, j)
    BY <1>2, RetryQuiet
  <1>3. CASE AckDeadlinePasses(o)
    BY <1>3, OpsAttended, RowsQuiet DEF AckDeadlinePasses, restVars, RowsOK, Columns
  <1>4. CASE \E outcome \in {"applied", "rejected"} : RecordWorkerOutcome(o, outcome)
    BY <1>4, OpsAttended, RowsQuiet DEF RecordWorkerOutcome, restVars, RowsOK, Columns
  <1>5. CASE \E outcome \in {"applied", "stopped", "rejected"} : Acknowledge(o, outcome)
    <2>1. ops[o].state = "pending"
      BY <1>5 DEF Acknowledge
    <2>2. CASE Stopped(o)
      BY <2>1, <2>2, StoppedQuiet
    <2>3. CASE ~Stopped(o)
      BY <1>5, <2>3, OpsAttended, RowsQuiet DEF Acknowledge, restVars, RowsOK, Columns
    <2> QED
      BY <2>2, <2>3
  <1>6. CASE ReconcileExpired(o)
    <2>1. ops[o].state = "pending"
      BY <1>6 DEF ReconcileExpired
    <2>2. CASE Stopped(o)
      BY <2>1, <2>2, StoppedQuiet
    <2>3. CASE ~Stopped(o)
      BY <1>6, <2>3, OpsAttended, RowsQuiet DEF ReconcileExpired, restVars, RowsOK, Columns
    <2> QED
      BY <2>2, <2>3
  <1> QED
    BY <1>1, <1>2, <1>3, <1>4, <1>5, <1>6 DEF Controlling

LEMMA RestartQuiet ==
    ASSUME RowsOK, NEW live, Restart(live)
    PROVE  Quiet
  BY OpsAttended, RowsQuiet DEF Restart, RowsOK, Columns

LEMMA TimeQuiet ==
    ASSUME RowsOK, NEW j, NEW b, TimePassing(j, b)
    PROVE  Quiet
  BY RowsQuiet DEF TimePassing, TimePasses, RowsOK, Columns

LEMMA DrainQuiet ==
    ASSUME RowsOK, NEW e, Draining(e)
    PROVE  Quiet
  BY RowsQuiet DEF Draining, DrainOutcome, restVars, RowsOK, Columns

-----------------------------------------------------------------------------
(* The four steps that are not quiet.                                      *)

\* RowsOK and PendingAlone follow from what Attended and the columns say.
LEMMA AttendedRows ==
    ASSUME QueueInv, Attended
    PROVE  ControlTable' /\ PendingOwned' /\ PendingAlone'
  BY DEF Attended, QueueInv, RowsOK, PendingOwned, PendingAlone

\* A quiet step preserves the invariant.
LEMMA QuietInv ==
    ASSUME QueueInv, Quiet
    PROVE  QueueInv'
  <1>1. /\ UNCHANGED <<minted, of, started, finding>>
        /\ Columns'
    BY DEF Quiet, Unclaiming, ledgerVars
  <1>2. LedgerOK'
    BY <1>1 DEF QueueInv, LedgerOK
  <1>3. ClaimIsFresh'
    BY <1>1 DEF QueueInv, ClaimIsFresh, Quiet, Unclaiming, AttemptsOf, Exposed
  <1>4. RetiredOrNew'
    BY <1>1 DEF QueueInv, RowsOK, RetiredOrNew, Quiet, Unclaiming, AttemptsOf
  <1>5. NoBlindRetry'
    BY <1>1 DEF QueueInv, NoBlindRetry, AttemptsOf
  <1>6. ApprovedFirst'
    <2> SUFFICES ASSUME NEW a \in Attempts, of[a] \in Effectful, a > Len(Legacy)
                 PROVE  approval'[of[a]] = "approved"
      BY <1>1 DEF ApprovedFirst
    <2>1. approval[of[a]] = "approved" /\ of[a] \in Jobs
      BY QueueAssumption DEF QueueInv, ApprovedFirst
    <2>2. AttemptsOf(of[a]) # {}
      BY DEF AttemptsOf
    <2> QED
      BY <2>1, <2>2 DEF QueueInv, RowsOK, RetiredOrNew, Quiet, Unclaiming
  <1> QED
    BY <1>1, <1>2, <1>3, <1>4, <1>5, <1>6, AttendedRows DEF QueueInv, RowsOK, Quiet

\* A claim mints the newest attempt, on a row whose ledger has nothing open.
LEMMA ClaimInv ==
    ASSUME QueueInv, NEW w \in Workers, NEW j \in Jobs, ClaimJob(w, j)
    PROVE  QueueInv' /\ Lasting
  <1> DEFINE m == minted + 1
  <1>1. /\ status[j] = "queued"
        /\ m \in Attempts
        /\ minted' = m
        /\ of' = [of EXCEPT ![m] = j]
        /\ UNCHANGED <<retries, tomb, approval, started, finding, ops>>
        /\ SetRow(j, "claimed", hold[j], w, m, proof[j])
        /\ j \in Effectful => Exposed(j) = {} /\ approval[j] = "approved"
    BY DEF ClaimJob, Claimable, Fenced, Authorized
  <1>2. /\ minted \in Nat
        /\ of \in [Attempts -> Jobs \cup {NoJob}]
        /\ m \notin started
        /\ \A a \in Attempts : a \in started \/ of[a] # NoJob => a < m
        /\ of[m] = NoJob
        /\ finding[m] = "none"
    BY <1>1, QueueAssumption DEF QueueInv, LedgerOK, Attempts
  <1> HIDE DEF m
  <1>3. /\ DOMAIN status' = Jobs
        /\ DOMAIN attempt' = Jobs
        /\ status'[j] = "claimed"
        /\ attempt'[j] = m
        /\ \A k \in Jobs \ {j} : status'[k] = status[k] /\ attempt'[k] = attempt[k]
    BY <1>1, SetRowEffect DEF QueueInv, RowsOK
  <1>4. /\ \A k \in Jobs : Exposed(k)' = Exposed(k)
        /\ \A k \in Jobs \ {j} : AttemptsOf(k)' = AttemptsOf(k)
        /\ AttemptsOf(j)' = AttemptsOf(j) \cup {m}
    BY <1>1, <1>2, QueueAssumption DEF Exposed, AttemptsOf
  <1>5. Columns'
    BY <1>1, <1>3 DEF QueueInv, RowsOK, Columns
  <1>6. LedgerOK'
    <2>1. minted' \in 0..MaxAttempts
      BY <1>1, QueueAssumption DEF Attempts
    <2>2. of' \in [Attempts -> Jobs \cup {NoJob}]
      BY <1>1, <1>2
    <2>3. started' \subseteq 1..minted'
      BY <1>1, <1>2 DEF QueueInv, LedgerOK, m
    <2>4. \A a \in Attempts : of'[a] # NoJob => a <= minted'
      BY <1>1, <1>2 DEF QueueInv, LedgerOK, Attempts, m
    <2>5. \A a \in Attempts : finding'[a] # "none" => a \in started'
      BY <1>1 DEF QueueInv, LedgerOK
    <2> QED
      BY <1>1, <2>1, <2>2, <2>3, <2>4, <2>5 DEF QueueInv, LedgerOK
  <1>7. ClaimIsFresh'
    <2> SUFFICES ASSUME NEW k \in Jobs, status'[k] = "claimed"
                 PROVE  /\ attempt'[k] \in Attempts \ started'
                        /\ of'[attempt'[k]] = k
                        /\ \A a \in AttemptsOf(k)' : a <= attempt'[k]
                        /\ k \in Effectful => Exposed(k)' = {}
      BY DEF ClaimIsFresh
    <2>1. CASE k = j
      <3>1. \A a \in AttemptsOf(j) : a < m /\ a \in Nat
        BY <1>2, QueueAssumption DEF AttemptsOf, Attempts
      <3>2. \A a \in AttemptsOf(j)' : a <= m
        BY <3>1, <1>1, <1>4 DEF Attempts
      <3>3. attempt'[j] \in Attempts \ started' /\ of'[attempt'[j]] = j
        BY <1>1, <1>2, <1>3
      <3>4. j \in Effectful => Exposed(j)' = {}
        BY <1>1, <1>4
      <3> QED
        BY <2>1, <3>2, <3>3, <3>4, <1>3
    <2>2. CASE k # j
      <3>1. /\ attempt[k] \in Attempts \ started
            /\ of[attempt[k]] = k
            /\ \A a \in AttemptsOf(k) : a <= attempt[k]
            /\ k \in Effectful => Exposed(k) = {}
        BY <2>2, <1>3 DEF QueueInv, ClaimIsFresh
      <3>2. attempt[k] # m
        BY <3>1, <1>2, QueueAssumption
      <3>3. attempt'[k] = attempt[k] /\ of'[attempt[k]] = k
        BY <2>2, <3>1, <3>2, <1>1, <1>2, <1>3
      <3>4. AttemptsOf(k)' = AttemptsOf(k) /\ Exposed(k)' = Exposed(k)
        BY <2>2, <1>4
      <3> QED
        BY <3>1, <3>3, <3>4, <1>1
    <2> QED
      BY <2>1, <2>2
  <1>8. RetiredOrNew'
    BY <1>1, <1>3, <1>4 DEF QueueInv, RowsOK, RetiredOrNew
  <1>9. NoBlindRetry'
    <2> SUFFICES ASSUME NEW k \in Effectful, NEW a \in AttemptsOf(k)' \cap started',
                        NEW b \in AttemptsOf(k)' \cap started', a < b, b > Len(Legacy)
                 PROVE  finding'[a] = "not_applied"
      BY DEF NoBlindRetry
    <2>1. a \in AttemptsOf(k) \cap started /\ b \in AttemptsOf(k) \cap started
      <3>1. k \in Jobs
        BY QueueAssumption
      <3>2. AttemptsOf(k)' \subseteq AttemptsOf(k) \cup {m}
        BY <3>1, <1>4
      <3> QED
        BY <3>2, <1>1, <1>2
    <2> QED
      BY <1>1, <2>1 DEF QueueInv, NoBlindRetry
  <1>10. ApprovedFirst'
    <2> SUFFICES ASSUME NEW a \in Attempts, of'[a] \in Effectful, a > Len(Legacy)
                 PROVE  approval'[of'[a]] = "approved"
      BY DEF ApprovedFirst
    <2>1. CASE a = m
      BY <2>1, <1>1, <1>2
    <2>2. CASE a # m
      BY <2>2, <1>1, <1>2 DEF QueueInv, ApprovedFirst
    <2> QED
      BY <2>1, <2>2
  <1>11. Attended
    BY <1>1, <1>3 DEF Attended, QueueInv, RowsOK, ControlTable, PendingOwned, Active
  <1>12. Lasting
    BY <1>1, <1>3 DEF Lasting, QueueInv, RowsOK, RetiredOrNew
  <1> QED
    BY <1>5, <1>6, <1>7, <1>8, <1>9, <1>10, <1>11, <1>12, AttendedRows DEF QueueInv, RowsOK

\* A started attempt is the newest of its job, and all others of an
\* effectful job are ruled out.
LEMMA StartInv ==
    ASSUME QueueInv, NEW j \in Jobs, status[j] = "claimed", StartAttempt(j)
    PROVE  QueueInv' /\ Lasting
  <1> DEFINE n == attempt[j]
  <1>1. /\ SetRow(j, "running", hold[j], worker[j], n, proof[j])
        /\ started' = started \cup {n}
        /\ UNCHANGED <<retries, tomb, approval, minted, of, finding, ops>>
    BY DEF StartAttempt
  <1>2. /\ n \in Attempts \ started
        /\ of[n] = j
        /\ \A a \in AttemptsOf(j) : a <= n
        /\ j \in Effectful => Exposed(j) = {}
    BY DEF QueueInv, ClaimIsFresh
  <1>3. /\ DOMAIN status' = Jobs
        /\ DOMAIN attempt' = Jobs
        /\ status'[j] = "running"
        /\ attempt'[j] = n
        /\ \A k \in Jobs \ {j} : status'[k] = status[k] /\ attempt'[k] = attempt[k]
    BY <1>1, SetRowEffect DEF QueueInv, RowsOK
  <1> HIDE DEF n
  <1>4. /\ \A k \in Jobs : AttemptsOf(k)' = AttemptsOf(k)
        /\ \A k \in Jobs \ {j} : Exposed(k)' = Exposed(k)
    BY <1>1, <1>2 DEF Exposed, AttemptsOf
  <1>5. Columns'
    BY <1>1, <1>3 DEF QueueInv, RowsOK, Columns
  <1>6. LedgerOK'
    <2>1. n \in 1..minted
      BY <1>2, QueueAssumption DEF QueueInv, LedgerOK, Attempts
    <2> QED
      BY <1>1, <2>1 DEF QueueInv, LedgerOK
  <1>7. ClaimIsFresh'
    <2> SUFFICES ASSUME NEW k \in Jobs, status'[k] = "claimed"
                 PROVE  /\ attempt'[k] \in Attempts \ started'
                        /\ of'[attempt'[k]] = k
                        /\ \A a \in AttemptsOf(k)' : a <= attempt'[k]
                        /\ k \in Effectful => Exposed(k)' = {}
      BY DEF ClaimIsFresh
    <2>1. k # j
      BY <1>3
    <2> QED
      BY <2>1, <1>1, <1>2, <1>3, <1>4 DEF QueueInv, ClaimIsFresh
  <1>8. RetiredOrNew'
    BY <1>1, <1>3, <1>4 DEF QueueInv, RowsOK, RetiredOrNew
  <1>9. NoBlindRetry'
    <2> SUFFICES ASSUME NEW k \in Effectful, NEW a \in AttemptsOf(k)' \cap started',
                        NEW b \in AttemptsOf(k)' \cap started', a < b, b > Len(Legacy)
                 PROVE  finding[a] = "not_applied"
      BY <1>1 DEF NoBlindRetry
    <2>1. k \in Jobs
      BY QueueAssumption
    <2>2. /\ a \in AttemptsOf(k) /\ b \in AttemptsOf(k)
          /\ a \in started \cup {n} /\ b \in started \cup {n}
      BY <1>1, <1>4, <2>1
    <2>3. CASE b = n
      <3>1. k = j /\ a \in started
        BY <1>2, <2>2, <2>3 DEF AttemptsOf, Attempts
      <3>2. a \notin Exposed(j)
        BY <1>2, <3>1
      <3> QED
        BY <2>2, <3>1, <3>2 DEF Exposed
    <2>4. CASE b # n /\ a = n
      <3>1. k = j
        BY <1>2, <2>2, <2>4 DEF AttemptsOf
      <3>2. b <= n
        BY <1>2, <2>2, <3>1
      <3> QED
        BY <2>4, <3>2, <1>2, <2>2 DEF AttemptsOf, Attempts
    <2>5. CASE b # n /\ a # n
      BY <2>2, <2>5 DEF QueueInv, NoBlindRetry
    <2> QED
      BY <2>3, <2>4, <2>5
  <1>10. ApprovedFirst'
    BY <1>1 DEF QueueInv, ApprovedFirst
  <1>11. Attended
    <2>1. \A k \in Jobs : status[k] \in Active => status'[k] \in Active /\ attempt'[k] = attempt[k]
      BY <1>3 DEF Active, n
    <2> QED
      BY <1>1, <2>1 DEF Attended, QueueInv, RowsOK, ControlTable, PendingOwned
  <1>12. Lasting
    BY <1>1, <1>3 DEF Lasting, QueueInv, RowsOK, RetiredOrNew
  <1> QED
    BY <1>5, <1>6, <1>7, <1>8, <1>9, <1>10, <1>11, <1>12, AttendedRows DEF QueueInv, RowsOK

\* A finding is about a started attempt without one, and is never replaced.
LEMMA ReconcileInv ==
    ASSUME QueueInv, NEW j \in Jobs, NEW a \in Attempts,
           NEW f \in {"applied", "not_applied"}, ReconcileEffect(j, a, f)
    PROVE  QueueInv' /\ Lasting
  <1>1. /\ status[j] = "neutral"
        /\ a \in AttemptsOf(j) \cap started
        /\ finding[a] = "none"
        /\ finding' = [finding EXCEPT ![a] = f]
        /\ UNCHANGED <<retries, tomb, approval, minted, of, started, ops>>
        /\ \E s \in {"neutral", "cancelled"} : \E h, w, b, p : SetRow(j, s, h, w, b, p)
    BY DEF ReconcileEffect
  <1>2. /\ DOMAIN status' = Jobs
        /\ DOMAIN attempt' = Jobs
        /\ status'[j] \in {"neutral", "cancelled"}
        /\ \A k \in Jobs \ {j} : status'[k] = status[k] /\ attempt'[k] = attempt[k]
    BY <1>1, SetRowEffect DEF QueueInv, RowsOK
  <1>3. /\ finding \in [Attempts -> Findings]
        /\ finding' \in [Attempts -> Findings]
        /\ finding'[a] = f
        /\ \A b \in Attempts \ {a} : finding'[b] = finding[b]
        /\ of[a] = j
    BY <1>1 DEF QueueInv, LedgerOK, Findings, AttemptsOf
  <1>4. /\ \A k \in Jobs : AttemptsOf(k)' = AttemptsOf(k)
        /\ \A k \in Jobs \ {j} : Exposed(k)' = Exposed(k)
    BY <1>1, <1>3 DEF Exposed, AttemptsOf
  <1>5. Columns'
    BY <1>1, <1>2 DEF QueueInv, RowsOK, Columns
  <1>6. LedgerOK'
    BY <1>1, <1>3 DEF QueueInv, LedgerOK
  <1>7. ClaimIsFresh'
    <2> SUFFICES ASSUME NEW k \in Jobs, status'[k] = "claimed"
                 PROVE  /\ attempt'[k] \in Attempts \ started'
                        /\ of'[attempt'[k]] = k
                        /\ \A b \in AttemptsOf(k)' : b <= attempt'[k]
                        /\ k \in Effectful => Exposed(k)' = {}
      BY DEF ClaimIsFresh
    <2>1. k # j
      BY <1>2
    <2> QED
      BY <2>1, <1>1, <1>2, <1>4 DEF QueueInv, ClaimIsFresh
  <1>8. RetiredOrNew'
    BY <1>1, <1>2, <1>4 DEF QueueInv, RowsOK, RetiredOrNew
  <1>9. NoBlindRetry'
    <2> SUFFICES ASSUME NEW k \in Effectful, NEW b \in AttemptsOf(k)' \cap started',
                        NEW c \in AttemptsOf(k)' \cap started', b < c, c > Len(Legacy)
                 PROVE  finding'[b] = "not_applied"
      BY DEF NoBlindRetry
    <2>1. k \in Jobs
      BY QueueAssumption
    <2>2. b \in AttemptsOf(k) \cap started /\ c \in AttemptsOf(k) \cap started
      BY <1>1, <1>4, <2>1
    <2>3. finding[b] = "not_applied" /\ b \in Attempts
      BY <2>2 DEF QueueInv, NoBlindRetry, AttemptsOf
    <2> QED
      BY <2>3, <1>1, <1>3
  <1>10. ApprovedFirst'
    BY <1>1 DEF QueueInv, ApprovedFirst
  <1>11. Attended
    BY <1>1, <1>2 DEF Attended, QueueInv, RowsOK, ControlTable, PendingOwned, Active
  <1>12. Lasting
    BY <1>1, <1>2, <1>3 DEF Lasting, QueueInv, RowsOK, RetiredOrNew
  <1> QED
    BY <1>5, <1>6, <1>7, <1>8, <1>9, <1>10, <1>11, <1>12, AttendedRows DEF QueueInv, RowsOK

\* A new operation that waits for the worker is the only one of its job:
\* what was pending on the job is weaker and is overruled.
LEMMA AskInv ==
    ASSUME QueueInv, NEW o \in OpIds, NEW k \in {"steer", "interrupt", "cancel"},
           NEW j \in Jobs, Ask(o, k, j)
    PROVE  QueueInv' /\ Lasting
  <1> DEFINE a == attempt[j]
             overruled == {p \in Pending(j, a) : ops[p].kind \in Weaker(k)}
             new == [Unused EXCEPT !.kind = k, !.job = j, !.attempt = a, !.at = status[j], !.state = "pending"]
  <1>1. status[j] \in Active
    BY DEF Ask, MaySteer, MayInterrupt, CancelNeedsAck
  <1>2. /\ ops' = [Settle(overruled, "overruled") EXCEPT ![o] = new]
        /\ ops[o].state = "unused"
    BY <1>1 DEF Ask, Receipt
  <1>3. UNCHANGED <<status, attempt, retries, tomb, approval, minted, of, started, finding>>
    BY DEF Ask, rowVars, restVars, ledgerVars
  <1>4. \A p \in OpIds : ops[p].state = "pending" /\ ops[p].job = j => p \in overruled
    <2> SUFFICES ASSUME NEW p \in OpIds, ops[p].state = "pending", ops[p].job = j
                 PROVE  p \in overruled
      OBVIOUS
    <2>1. /\ p \in Pending(j, a)
          /\ ops[p].kind \in {"steer", "interrupt", "cancel"}
      BY DEF Pending, QueueInv, RowsOK, PendingOwned
    <2>2. p \in PendingOn(j) /\ ops[p].kind \in PendingKinds(j)
      BY DEF PendingOn, PendingKinds
    <2>3. CASE k = "steer"
      BY <2>2, <2>3 DEF Ask, MaySteer
    <2>4. CASE k = "interrupt"
      BY <2>1, <2>2, <2>4 DEF Ask, MayInterrupt, Weaker
    <2>5. CASE k = "cancel"
      <3>1. "cancel" \notin PendingKinds(j)
        BY <2>5, <1>1 DEF Ask, MayCancel, Active
      <3> QED
        BY <2>1, <2>2, <2>5, <3>1 DEF Weaker
    <2> QED
      BY <2>3, <2>4, <2>5
  <1>5. /\ new.state = "pending" /\ new.job = j /\ new.attempt = a /\ new.kind = k
        /\ DOMAIN new = {"kind", "job", "attempt", "at", "state", "noted", "late"}
    BY DEF Unused
  <1> HIDE DEF a, overruled, new
  <1>6. /\ ControlTable'
        /\ ops'[o] = new
        /\ \A p \in OpIds \ {o} : ops'[p].state = "pending" =>
              /\ ops[p].state = "pending"
              /\ ops[p].job # j
              /\ ops'[p].job = ops[p].job
              /\ ops'[p].attempt = ops[p].attempt
              /\ ops'[p].kind = ops[p].kind
    BY <1>2, <1>4, <1>5 DEF QueueInv, RowsOK, ControlTable, Settle
  <1>7. PendingOwned'
    BY <1>1, <1>3, <1>5, <1>6 DEF QueueInv, RowsOK, PendingOwned, a
  <1>8. PendingAlone'
    BY <1>5, <1>6 DEF QueueInv, PendingAlone
  <1>9. Columns' /\ RetiredOrNew'
    BY <1>3 DEF QueueInv, RowsOK, Columns, RetiredOrNew, AttemptsOf
  <1>10. LedgerOK' /\ NoBlindRetry' /\ ApprovedFirst'
    BY <1>3 DEF QueueInv, LedgerOK, NoBlindRetry, ApprovedFirst, AttemptsOf
  <1>11. ClaimIsFresh'
    BY <1>3 DEF QueueInv, ClaimIsFresh, AttemptsOf, Exposed
  <1>12. Lasting
    BY <1>3 DEF Lasting, QueueInv, RowsOK, RetiredOrNew
  <1> QED
    BY <1>6, <1>7, <1>8, <1>9, <1>10, <1>11, <1>12 DEF QueueInv, RowsOK

\* Every step is quiet or one of the four.
LEMMA StepKinds ==
    ASSUME RowsOK, Next
    PROVE  \/ Quiet
           \/ \E w \in Workers, j \in Jobs : ClaimJob(w, j)
           \/ \E j \in Jobs : status[j] = "claimed" /\ StartAttempt(j)
           \/ \E j \in Jobs, a \in Attempts, f \in {"applied", "not_applied"} : ReconcileEffect(j, a, f)
           \/ \E o \in OpIds, k \in {"steer", "interrupt", "cancel"}, j \in Jobs : Ask(o, k, j)
  <1>1. CASE \E j \in Jobs : Submitting(j)
    BY <1>1, SubmittingQuiet
  <1>2. CASE \E j \in Jobs : Claiming(j)
    BY <1>2, HoldingQuiet
  <1>3. CASE \E j \in Jobs, w \in Workers : Working(w, j)
    BY <1>3, WorkingQuiet
  <1>4. CASE \E j \in Jobs : Sweeping(j)
    BY <1>4, SweepingQuiet
  <1>5. CASE \E j \in Jobs : Deciding(j)
    BY <1>5, DecidingQuiet
  <1>6. CASE \E j \in Jobs : Retiring(j)
    BY <1>6, RetiringQuiet
  <1>7. CASE \E j \in Jobs, b \in Passing : TimePassing(j, b)
    BY <1>7, TimeQuiet
  <1>8. CASE \E j \in Jobs, a \in Attempts, f \in {"applied", "not_applied"} : ReconcileEffect(j, a, f)
    BY <1>8
  <1>9. CASE Unblocking
    BY <1>9, UnblockQuiet DEF Unblocking
  <1>10. CASE \E e \in events : Draining(e)
    BY <1>10, DrainQuiet
  <1>11. CASE \E o \in OpIds : Controlling(o)
    BY <1>11, ControllingQuiet
  <1>12. CASE \E live \in Modes : Restart(live)
    BY <1>12, RestartQuiet
  <1> QED
    BY <1>1, <1>2, <1>3, <1>4, <1>5, <1>6, <1>7, <1>8, <1>9, <1>10, <1>11, <1>12 DEF Next

-----------------------------------------------------------------------------
(* The theorems.                                                           *)

\* A database without rows, or with rows of an older writer.
LEMMA InitInv ==
    ASSUME Init
    PROVE  QueueInv
  <1>1. Columns
    BY DEF Init, QueueInit, Columns
  <1>2. ControlTable /\ \A o \in OpIds : ops[o].state # "pending"
    BY DEF Init, QueueInit, ControlTable, Unused
  <1>3. /\ DOMAIN Legacy = 1..Len(Legacy)
        /\ Len(Legacy) \in Nat
        /\ Len(Legacy) <= MaxAttempts
        /\ MaxAttempts \in Nat
        /\ \A i \in DOMAIN Legacy : Legacy[i] \in Jobs
        /\ NoJob \notin Jobs
        /\ Effectful \subseteq Jobs
    BY QueueAssumption
  <1>4. /\ minted = Len(Legacy)
        /\ of = [a \in Attempts |-> IF a \in DOMAIN Legacy THEN Legacy[a] ELSE NoJob]
        /\ started = DOMAIN Legacy
        /\ finding = [a \in Attempts |-> "none"]
        /\ \A j \in Jobs : status[j] # "claimed" /\ tomb[j] = "none"
        /\ \A i \in DOMAIN Legacy : status[Legacy[i]] # "absent"
    BY DEF Init, QueueInit
  <1>5. LedgerOK
    BY <1>3, <1>4 DEF LedgerOK, Attempts, Findings
  <1>6. ClaimIsFresh
    BY <1>4 DEF ClaimIsFresh
  <1>7. RetiredOrNew
    BY <1>3, <1>4 DEF RetiredOrNew, AttemptsOf
  <1>8. NoBlindRetry
    BY <1>3, <1>4 DEF NoBlindRetry
  <1>9. ApprovedFirst
    BY <1>3, <1>4 DEF ApprovedFirst, Attempts
  <1> QED
    BY <1>1, <1>2, <1>5, <1>6, <1>7, <1>8, <1>9
       DEF QueueInv, RowsOK, PendingOwned, PendingAlone

\* Each step preserves the invariant and ends no job twice.
LEMMA StepInv ==
    ASSUME QueueInv, [Next]_ctlVars
    PROVE  QueueInv' /\ (Lasting \/ UNCHANGED ctlVars)
  <1>1. CASE UNCHANGED ctlVars
    BY <1>1 DEF ctlVars, vars, rowVars, restVars, ledgerVars, QueueInv, RowsOK, Columns,
                ControlTable, RetiredOrNew, PendingOwned, PendingAlone, LedgerOK,
                ClaimIsFresh, NoBlindRetry, ApprovedFirst, AttemptsOf, Exposed
  <1>2. CASE Next
    BY <1>2, StepKinds, QuietInv, ClaimInv, StartInv, ReconcileInv, AskInv DEF QueueInv, Quiet
  <1> QED
    BY <1>1, <1>2

\* The inductive invariant holds: rows and ledger agree about claims, and
\* operations about the attempts they name.
THEOREM QueueInvariant == Spec => []QueueInv
  BY InitInv, StepInv, PTL DEF Spec

\* No attempt of an effectful job starts while an earlier one may have had
\* its effect, for any jobs, workers, operators and old rows.
THEOREM QueueRetriesKnowingly == Spec => []NoBlindRetry
  <1>1. QueueInv => NoBlindRetry
    BY DEF QueueInv
  <1> QED
    BY <1>1, QueueInvariant, PTL

\* Attempts of effectful jobs are minted only under a standing approval.
THEOREM QueueAsksFirst == Spec => []ApprovedFirst
  <1>1. QueueInv => ApprovedFirst
    BY DEF QueueInv
  <1> QED
    BY <1>1, QueueInvariant, PTL

\* An operation waits only for the attempt that is being worked on, alone.
THEOREM QueueSettlesCommands == Spec => []PendingOnActive
  <1>1. QueueInv => PendingOnActive
    BY DEF QueueInv, RowsOK, PendingOwned, PendingAlone, PendingOnActive, PendingOn, ExactActive
  <1> QED
    BY <1>1, QueueInvariant, PTL

\* Ended jobs stay ended, whoever writes the row late.
THEOREM QueueEndsOnce == Spec => EndedStaysEnded
  <1>1. QueueInv /\ [Next]_ctlVars => [Lasting]_ctlVars
    BY StepInv
  <1>2. Spec => [][Lasting]_ctlVars
    BY <1>1, QueueInvariant, PTL DEF Spec
  <1> QED
    BY <1>2, PTL DEF EndedStaysEnded, Lasting

-----------------------------------------------------------------------------
(* The refinement of EffectOnce.                                           *)

LEMMA AbstractInit ==
    ASSUME Init
    PROVE  Abstract!Init
  <1>1. finding = [a \in Attempts |-> "none"]
    BY DEF Init, QueueInit
  <1>2. \A j \in Effectful : Exposed(j) \in SUBSET Attempts
    BY DEF Exposed, AttemptsOf
  <1>3. {a \in Attempts : of[a] \in Effectful /\ finding[a] = "not_applied"} = {}
    BY <1>1
  <1> QED
    BY <1>2, <1>3 DEF Abstract!Init

LEMMA AbstractStep ==
    ASSUME QueueInv, [Next]_ctlVars
    PROVE  [Abstract!Next]_<<[j \in Effectful |-> Exposed(j)],
                            {a \in Attempts : of[a] \in Effectful /\ finding[a] = "not_applied"}>>
  <1> DEFINE open == [j \in Effectful |-> Exposed(j)]
             ruledOut == {a \in Attempts : of[a] \in Effectful /\ finding[a] = "not_applied"}
  <1>0. Effectful \subseteq Jobs /\ NoJob \notin Jobs
    BY QueueAssumption
  <1>1. CASE UNCHANGED <<of, started, finding>>
    BY <1>1 DEF Exposed, AttemptsOf
  <1>2. CASE \E w \in Workers, j \in Jobs : ClaimJob(w, j)
    <2>1. PICK w \in Workers, j \in Jobs : ClaimJob(w, j)
      BY <1>2
    <2> DEFINE m == minted + 1
    <2>2. /\ m \in Attempts
          /\ of' = [of EXCEPT ![m] = j]
          /\ UNCHANGED <<started, finding>>
      BY <2>1 DEF ClaimJob
    <2>3. /\ of \in [Attempts -> Jobs \cup {NoJob}]
          /\ m \notin started
          /\ of[m] = NoJob
          /\ finding[m] = "none"
      BY <2>2, QueueAssumption DEF QueueInv, LedgerOK, Attempts
    <2> HIDE DEF m
    <2>4. \A k \in Effectful : Exposed(k)' = Exposed(k)
      BY <2>2, <2>3, <1>0 DEF Exposed, AttemptsOf
    <2>5. ruledOut' = ruledOut
      BY <2>2, <2>3, <1>0
    <2> QED
      BY <2>4, <2>5
  <1>3. CASE \E j \in Jobs : status[j] = "claimed" /\ StartAttempt(j)
    <2>1. PICK j \in Jobs : status[j] = "claimed" /\ StartAttempt(j)
      BY <1>3
    <2> DEFINE n == attempt[j]
    <2>2. /\ started' = started \cup {n}
          /\ UNCHANGED <<of, finding>>
      BY <2>1 DEF StartAttempt
    <2>3. /\ n \in Attempts \ started
          /\ of[n] = j
          /\ finding[n] = "none"
          /\ j \in Effectful => Exposed(j) = {}
      BY <2>1 DEF QueueInv, ClaimIsFresh, LedgerOK
    <2> HIDE DEF n
    <2>4. \A k \in Effectful \ {j} : Exposed(k)' = Exposed(k)
      BY <2>2, <2>3 DEF Exposed, AttemptsOf
    <2>5. ruledOut' = ruledOut
      BY <2>2
    <2>6. CASE j \notin Effectful
      BY <2>4, <2>5, <2>6
    <2>7. CASE j \in Effectful
      <3>1. Exposed(j)' = {n}
        BY <2>2, <2>3, <2>7 DEF Exposed, AttemptsOf
      <3>2. n \notin ruledOut
        BY <2>3
      <3>3. open' = [open EXCEPT ![j] = {n}]
        BY <2>4, <2>7, <3>1
      <3>4. open[j] = {}
        BY <2>3, <2>7
      <3>5. Abstract!LetLoose(j, n)
        BY <2>5, <3>2, <3>3, <3>4 DEF Abstract!LetLoose
      <3> QED
        BY <2>3, <2>7, <3>5 DEF Abstract!Next
    <2> QED
      BY <2>6, <2>7
  <1>4. CASE \E j \in Jobs, a \in Attempts, f \in {"applied", "not_applied"} : ReconcileEffect(j, a, f)
    <2>1. PICK j \in Jobs, a \in Attempts, f \in {"applied", "not_applied"} : ReconcileEffect(j, a, f)
      BY <1>4
    <2>2. /\ a \in started
          /\ of[a] = j
          /\ finding[a] = "none"
          /\ finding' = [finding EXCEPT ![a] = f]
          /\ UNCHANGED <<of, started>>
      BY <2>1 DEF ReconcileEffect, AttemptsOf
    <2>3. finding \in [Attempts -> Findings]
      BY DEF QueueInv, LedgerOK
    <2>4. \A k \in Effectful \ {j} : Exposed(k)' = Exposed(k)
      BY <2>2, <2>3 DEF Exposed, AttemptsOf
    <2>5. CASE j \notin Effectful
      <3>1. ruledOut' = ruledOut
        BY <2>2, <2>3, <2>5
      <3> QED
        BY <2>4, <2>5, <3>1
    <2>6. CASE j \in Effectful /\ f = "applied"
      <3>1. ruledOut' = ruledOut
        BY <2>2, <2>3, <2>6
      <3>2. Exposed(j)' = Exposed(j)
        BY <2>2, <2>3, <2>6 DEF Exposed, AttemptsOf
      <3> QED
        BY <2>4, <3>1, <3>2
    <2>7. CASE j \in Effectful /\ f = "not_applied"
      <3>1. ruledOut' = ruledOut \cup {a}
        BY <2>2, <2>3, <2>7
      <3>2. Exposed(j)' = Exposed(j) \ {a} /\ a \in Exposed(j)
        BY <2>2, <2>3, <2>7 DEF Exposed, AttemptsOf
      <3>3. open' = [open EXCEPT ![j] = open[j] \ {a}]
        BY <2>4, <2>7, <3>2
      <3>4. Abstract!RuleOut(j, a)
        BY <2>7, <3>1, <3>2, <3>3 DEF Abstract!RuleOut
      <3> QED
        BY <2>7, <3>4 DEF Abstract!Next
    <2> QED
      BY <2>5, <2>6, <2>7
  <1>5. CASE Quiet
    BY <1>1, <1>5 DEF Quiet, Unclaiming, ledgerVars
  <1>6. CASE \E o \in OpIds, k \in {"steer", "interrupt", "cancel"}, j \in Jobs : Ask(o, k, j)
    BY <1>1, <1>6 DEF Ask, ledgerVars
  <1>7. CASE UNCHANGED ctlVars
    BY <1>1, <1>7 DEF ctlVars, vars, ledgerVars
  <1> QED
    BY <1>2, <1>3, <1>4, <1>5, <1>6, <1>7, StepKinds DEF QueueInv

\* The queue implements EffectOnce, for every instance: of the attempts that
\* may have performed an effect at most one is ever let loose.
THEOREM QueueImplementsEffectOnce == Spec => ImplementsEffectOnce
  BY AbstractInit, AbstractStep, QueueInvariant, PTL DEF Spec, ImplementsEffectOnce, Abstract!Spec

=============================================================================
