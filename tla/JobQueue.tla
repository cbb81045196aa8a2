------------------------------ MODULE JobQueue ------------------------------
(***************************************************************************)
(* The durable task queue: QueueManager of                                 *)
(* sidecar/pacomind/task_queue/queue_manager.py, without the WorkControl   *)
(* operations, which WorkControl.tla adds to it.                           *)
(*                                                                         *)
(* Every mutating method runs under one task-reentrant lock and rolls back *)
(* on an exception (_serialized_mutation), so a method is one action.  The *)
(* sweeps of the scheduler commit row by row: a crash can stop one between *)
(* two rows, and each is an action on one row.  Workers, operators, the    *)
(* owner's approval handler and the scheduler call in any order; the       *)
(* approval handler holds no lock between its steps and is a process of    *)
(* its own (writer).                                                       *)
(*                                                                         *)
(* Real time is abstracted to what has run out: due[j] holds the bounds of *)
(* job j that have passed, and any of them may pass at any moment.         *)
(***************************************************************************)
EXTENDS Naturals, FiniteSets, Sequences

CONSTANTS
    Jobs, NoJob,
    Workers, NoWorker,
    Effectful,      \* jobs for which job_declares_effect holds
    WorkOrders,     \* jobs whose payload is a WorkOrderV1
    Deadlined,      \* jobs with a deadline
    OldRows,        \* jobs with a row of an older writer
    Legacy,         \* the jobs of the attempts that writer started
    DependsOn,      \* depends_on: a sequence of jobs for each job
    MaxRetries,     \* max_retries, the same for every job
    MaxConcurrent,  \* max_concurrent, the same for every worker
    MaxAttempts,    \* bound on the claim attempts minted
    OpIds           \* the operation ids operators use (a bound)

NoAttempt == 0
Attempts  == 1..MaxAttempts

ASSUME QueueAssumption ==
    /\ NoJob \notin Jobs
    /\ NoWorker \notin Workers
    /\ Effectful \subseteq Jobs
    /\ WorkOrders \subseteq Jobs
    /\ Deadlined \subseteq Jobs
    /\ Legacy \in Seq(Jobs)
    /\ Len(Legacy) <= MaxAttempts
    /\ OldRows \subseteq Jobs
    /\ \A i \in DOMAIN Legacy : Legacy[i] \in OldRows
    /\ \A j \in OldRows : DependsOn[j] = <<>>
    /\ DependsOn \in [Jobs -> Seq(Jobs)]
    /\ \A j \in WorkOrders : DependsOn[j] = <<>>
    /\ MaxRetries \in Nat
    /\ MaxConcurrent \in Nat \ {0}
    /\ MaxAttempts \in Nat

VARIABLES
    status,    \* jobs.status, "absent" when there is no row
    hold,      \* tags: hold_kind with blocked_reason, "none" without one
    worker,    \* claimed_by
    attempt,   \* claim_attempt_id
    retries,   \* retry_count
    proof,     \* tags: verification_pending ("verify"), with
               \* ambiguous_prior_effects ("ambiguous"),
               \* semantic_attestation_pending ("semantic"),
               \* effect_reconciliation_retry_pending ("retry")
    result,    \* the attempt the stored result is of
    tomb,      \* job_tombstones: the final status of a pruned job
    approval,  \* the job's request in the approval store
    writer,    \* what a handler outside the lock is about to write
    due,       \* the bounds of the job that have passed
    consumed,  \* tags: effect_reconciliation_consumed_at is set
    minted,    \* attempts minted so far
    of, by,    \* job_audit: the job and the worker of each attempt
    started,   \* job_audit: attempts with a row to RUNNING
    finding,   \* work_effect_reconciliations
    events,    \* worker_outcome_outbox: event ids
    delivered, \* the outbox rows the governor has recorded
    ops        \* work_control_operations

rowVars    == <<status, hold, worker, attempt, proof>>
ledgerVars == <<minted, of, by, started, finding>>
restVars   == <<retries, result, tomb, approval, writer, due, consumed>>
vars == <<rowVars, restVars, ledgerVars, delivered, events, ops>>

Statuses == {"absent", "queued", "claimed", "running", "completed", "neutral",
             "failed", "abandoned", "cancelled", "blocked"}
Active   == {"claimed", "running"}
Terminal == {"completed", "neutral", "failed", "cancelled"}

\* "governance" stands for governor_unavailable, boundary and shadow_effect.
\* "trust" is kept apart: its blocked_reason is awaiting_owner_approval.
Holds      == {"none", "dependency", "approval", "trust", "governance",
               "runtime", "interrupted", "ambiguous"}
Proofs     == {"none", "verify", "ambiguous", "semantic", "retry"}
Approvals  == {"none", "pending", "approved", "rejected", "expired"}
Writes     == {"idle", "decided", "queue", "wait", "cancel", "fail"}
Bounds     == {"lease", "silence", "timeout", "deadline", "approval"}
Findings   == {"none", "applied", "not_applied"}
EventKinds == {"complete", "failure", "ambiguous", "attested"}

\* The three ways an operation is superseded: its attempt ended first, a
\* stronger operation replaced it, WorkControl was switched off.
OpKinds  == {"none", "steer", "interrupt", "cancel", "retry"}
OpStates == {"unused", "pending", "applied", "rejected", "expired",
             "lost", "overruled", "inactive"}
StopKinds == {"interrupt", "cancel"}

Unused == [kind |-> "none", job |-> NoJob, attempt |-> NoAttempt,
           at |-> "absent", state |-> "unused", noted |-> "none",
           late |-> FALSE]

-----------------------------------------------------------------------------
(* What the ledger says of a job's effects: _work_control_attempt_truth.    *)

AttemptsOf(j) == {a \in Attempts : of[a] = j}

\* Started attempts whose effect nobody has ruled out.
Exposed(j)    == {a \in AttemptsOf(j) : a \in started /\ finding[a] # "not_applied"}
Unresolved(j) == {a \in AttemptsOf(j) : a \in started /\ finding[a] = "none"}

\* effect_disposition
Disposition(j) ==
    CASE AttemptsOf(j) \cap started = {}                 -> "not_started"
      [] AttemptsOf(j) \cap started # {} /\ j \notin Effectful -> "read_only"
      [] j \in Effectful /\ Unresolved(j) # {}           -> "ambiguous"
      [] j \in Effectful /\ Unresolved(j) = {} /\ Exposed(j) # {} -> "applied"
      [] OTHER                                           -> "not_applied"

\* Mutant: the row's tags are believed instead of the ledger.
FencedByTags(j) == j \in Effectful /\ proof[j] # "none"

\* The disposition that forbids another attempt.
Fenced(j) == j \in Effectful /\ Exposed(j) # {}

\* blocking_attempt_id: attempts are listed newest first.
Newest(S)   == CHOOSE a \in S : \A b \in S : b <= a
Blocking(j) == Newest(IF Unresolved(j) # {} THEN Unresolved(j) ELSE Exposed(j))

-----------------------------------------------------------------------------
(* Row transitions.                                                        *)

SetRow(j, s, h, w, a, p) ==
    /\ status'  = [status EXCEPT ![j] = s]
    /\ hold'    = [hold EXCEPT ![j] = h]
    /\ worker'  = [worker EXCEPT ![j] = w]
    /\ attempt' = [attempt EXCEPT ![j] = a]
    /\ proof'   = [proof EXCEPT ![j] = p]

\* A row without a claim, its other tags as they are.
Requeue(j)        == SetRow(j, "queued", hold[j], NoWorker, NoAttempt, proof[j])
HoldUnclaimed(j, h) == SetRow(j, "blocked", h, NoWorker, NoAttempt, proof[j])

Pending(j, a) == {o \in OpIds : /\ ops[o].state = "pending"
                                /\ ops[o].job = j
                                /\ ops[o].attempt = a}

\* _attempt_has_pending_work_control(stop_only=True)
StopPending(j, a) == \E o \in Pending(j, a) : ops[o].kind \in StopKinds

\* _mark_pending_work_controls_terminal and _seal_work_control_outcomes
Settle(S, s) == [o \in OpIds |-> IF o \in S THEN [ops[o] EXCEPT !.state = s]
                                             ELSE ops[o]]

\* _finalize_pending_controls_after_transition
Finalize(j, a) == ops' = Settle(Pending(j, a), "lost")

\* _enqueue_worker_outcome: INSERT OR IGNORE
Enqueue(a, k) == events' = events \cup {<<a, k>>}

\* The server's right to call an attempt's lifecycle methods.
ExactClaim(w, j, a) ==
    /\ status[j] \in Active
    /\ worker[j] = w
    /\ attempt[j] = a

-----------------------------------------------------------------------------
(* Dependencies: unblock_ready_jobs.                                       *)

Deps(j) == {DependsOn[j][i] : i \in DOMAIN DependsOn[j]}

Ready(st, j) == \A d \in Deps(j) : st[d] = "completed"

\* A dependency that can no longer complete: failed, cancelled, pruned, or
\* NEUTRAL with nothing left to verify.
Failing(st, pr, d) ==
    \/ st[d] \in {"absent", "failed", "cancelled"}
    \/ st[d] = "neutral" /\ pr[d] \notin {"verify", "ambiguous"}

FirstFailing(st, pr, j) ==
    LET bad == {i \in DOMAIN DependsOn[j] : Failing(st, pr, DependsOn[j][i])}
    IN  DependsOn[j][CHOOSE i \in bad : \A k \in bad : i <= k]

Waiting(st, j) == /\ st[j] = "blocked"
                  /\ hold[j] \in {"none", "dependency"}
                  /\ Deps(j) # {}

Doomed(st, pr, j) == \E d \in Deps(j) : Failing(st, pr, d)

Unblocked(st, pr) ==
    [j \in Jobs |->
        IF ~Waiting(st, j) THEN st[j]
        ELSE IF Doomed(st, pr, j)
             THEN IF st[FirstFailing(st, pr, j)] = "neutral" THEN "neutral" ELSE "failed"
        ELSE IF Ready(st, j) THEN "queued" ELSE "blocked"]

UnblockedHold(st, pr, hd) ==
    [j \in Jobs |->
        IF Waiting(st, j) /\ (Doomed(st, pr, j) \/ Ready(st, j))
        THEN "none" ELSE hd[j]]

\* The scheduler's phase 5, over every blocked row.
UnblockReadyJobs ==
    /\ Unblocked(status, proof) # status
    /\ status' = Unblocked(status, proof)
    /\ hold'   = UnblockedHold(status, proof, hold)
    /\ UNCHANGED <<worker, attempt, proof, restVars, ledgerVars, delivered, events, ops>>

-----------------------------------------------------------------------------
(* Posting and cancelling.                                                 *)

\* Dependencies must exist; a tombstoned id is never reposted.  An effectful
\* job is born on an approval hold and the store is asked after the row has
\* committed: a crash in between leaves the hold without a request, a bounded
\* grant may authorise at once.
Post(j) ==
    LET broken   == \E d \in Deps(j) : status[d] \in {"failed", "cancelled"}
        depHold  == ~broken /\ ~Ready(status, j)
        approves == j \in Effectful /\ ~broken
    IN  /\ status[j] = "absent"
        /\ tomb[j] = "none"
        /\ \A d \in Deps(j) : status[d] # "absent"
        /\ \E store \in IF approves THEN {"none", "pending", "approved"} ELSE {"none"} :
              /\ approval' = [approval EXCEPT ![j] = store]
              /\ CASE broken -> SetRow(j, "failed", "none", NoWorker, NoAttempt, "none")
                   [] approves /\ store # "approved" ->
                        SetRow(j, "blocked", "approval", NoWorker, NoAttempt, "none")
                   [] ~broken /\ (approves => store = "approved") /\ depHold ->
                        SetRow(j, "blocked", "dependency", NoWorker, NoAttempt, "none")
                   [] OTHER -> SetRow(j, "queued", "none", NoWorker, NoAttempt, "none")
        /\ UNCHANGED <<retries, result, tomb, writer, due, consumed,
                       ledgerVars, delivered, events, ops>>

\* cancel_job
CancelJob(j) ==
    /\ status[j] \notin Terminal \cup Active \cup {"absent"}
    /\ SetRow(j, "cancelled", hold[j], NoWorker, NoAttempt, proof[j])
    /\ UNCHANGED <<restVars, ledgerVars, delivered, events, ops>>

-----------------------------------------------------------------------------
(* Claiming.  claim_job walks the queued rows in priority order and commits *)
(* what it does to each: it may hold a row, quarantine it, or claim it.     *)

\* _hold_queued_for_runtime: the source's fence refuses the job.
HoldQueuedForRuntime(j) ==
    /\ status[j] = "queued"
    /\ "deadline" \notin due[j]
    /\ HoldUnclaimed(j, "runtime")
    /\ UNCHANGED <<restVars, ledgerVars, delivered, events, ops>>

\* A row whose effect may have happened becomes NEUTRAL under the attempt
\* that blocks it: an unresolved one asks for verification, a verified one
\* for semantic attestation.
FenceRow(j) ==
    LET a == Blocking(j)
    IN  /\ IF Unresolved(j) # {}
           THEN /\ SetRow(j, "neutral", "ambiguous", NoWorker, a, "ambiguous")
                /\ Enqueue(a, "ambiguous")
           ELSE /\ SetRow(j, "neutral", "none", NoWorker, a, "semantic")
                /\ UNCHANGED events
        /\ result' = [result EXCEPT ![j] = a]
        /\ Finalize(j, a)
        /\ UNCHANGED <<retries, tomb, approval, writer, due, consumed, ledgerVars, delivered>>

\* _quarantine_queued_effect_truth, at a claim and for every queued row at
\* startup (reconcile_legacy_effect_retries).
QuarantineQueued(j) ==
    /\ status[j] = "queued"
    /\ Fenced(j)
    /\ FenceRow(j)

\* Mutant: a queued row is taken to have been approved.
AuthorizedByStatus(j) == status[j] \in Statuses

\* _server_approval_provenance_valid
Authorized(j) == j \in Effectful => approval[j] = "approved"

\* _hold_for_missing_approval at the claim boundary.
HoldForMissingApproval(j) ==
    /\ status[j] = "queued"
    /\ "deadline" \notin due[j]
    /\ ~Fenced(j)
    /\ ~Authorized(j)
    /\ SetRow(j, "blocked", "approval", worker[j], attempt[j], proof[j])
    /\ UNCHANGED <<restVars, ledgerVars, delivered, events, ops>>

\* _hold_queued_for_governance: what the governor answers is its own affair.
HoldQueuedForGovernance(j, h) ==
    /\ status[j] = "queued"
    /\ "deadline" \notin due[j]
    /\ ~Fenced(j)
    /\ Authorized(j)
    /\ SetRow(j, "blocked", h, NoWorker, attempt[j], proof[j])
    /\ UNCHANGED <<restVars, ledgerVars, delivered, events, ops>>

ActiveJobs(w) == {j \in Jobs : status[j] \in Active /\ worker[j] = w}

\* The conditions of the claiming UPDATE and of the checks before it.
Claimable(w, j) ==
    /\ status[j] = "queued"
    /\ "deadline" \notin due[j]
    /\ ~Fenced(j)
    /\ Authorized(j)
    /\ ~\E o \in OpIds : ops[o].state = "pending" /\ ops[o].job = j
    /\ Cardinality(ActiveJobs(w)) < MaxConcurrent

\* The attempt id is a fresh uuid: here, the next number.
ClaimJob(w, j) ==
    LET a == minted + 1
    IN  /\ Claimable(w, j)
        /\ a \in Attempts
        /\ SetRow(j, "claimed", hold[j], w, a, proof[j])
        /\ minted' = a
        /\ of' = [of EXCEPT ![a] = j]
        /\ by' = [by EXCEPT ![a] = w]
        /\ due' = [due EXCEPT ![j] = @ \ {"lease", "silence", "timeout"}]
        /\ UNCHANGED <<retries, result, tomb, approval, writer, consumed,
                       started, finding, delivered, events, ops>>

-----------------------------------------------------------------------------
(* The lifecycle of an attempt.  A worker presents the attempt it was given *)
(* and may do so long after the attempt has ended: those calls are refused. *)

\* fail_job, for the exact claim and without a stop command pending on it.
\* An effectful attempt that started is ambiguous and never retried.
FailAttempt(j) ==
    LET a == attempt[j]
        ambiguous == status[j] = "running" /\ j \in Effectful
        again == ~ambiguous /\ retries[j] < MaxRetries /\ "deadline" \notin due[j]
    IN  /\ CASE ambiguous -> SetRow(j, "neutral", "ambiguous", NoWorker, a, "ambiguous")
              [] again     -> Requeue(j)
              [] OTHER     -> SetRow(j, "failed", hold[j], NoWorker, a, proof[j])
        /\ retries' = IF ambiguous THEN retries ELSE [retries EXCEPT ![j] = @ + 1]
        /\ result' = [result EXCEPT ![j] = a]
        /\ Enqueue(a, IF ambiguous THEN "ambiguous" ELSE "failure")
        /\ Finalize(j, a)
        /\ UNCHANGED <<tomb, approval, writer, due, consumed, ledgerVars, delivered>>

FailJob(w, j, a) ==
    /\ ~StopPending(j, a)
    /\ ExactClaim(w, j, a)
    /\ FailAttempt(j)

\* The two ways start_job retires a claim it will not start.
RetireClaim(j) ==
    /\ \/ "lease" \in due[j] /\ Requeue(j)
       \/ "lease" \notin due[j] /\ HoldUnclaimed(j, "runtime")
    /\ Finalize(j, attempt[j])
    /\ UNCHANGED <<restVars, ledgerVars, delivered, events>>

StartAttempt(j) ==
    /\ "lease" \notin due[j]
    /\ SetRow(j, "running", hold[j], worker[j], attempt[j], proof[j])
    /\ started' = started \cup {attempt[j]}
    /\ due' = [due EXCEPT ![j] = @ \ {"lease", "silence"}]
    /\ UNCHANGED <<retries, result, tomb, approval, writer, consumed, minted,
                   of, by, finding, delivered, events, ops>>

\* Mutant: a pending stop does not hold the start.
StartDespiteStop(w, j, a) ==
    /\ ExactClaim(w, j, a)
    /\ status[j] = "claimed"
    /\ "deadline" \notin due[j]
    /\ RetireClaim(j) \/ StartAttempt(j)

StartJob(w, j, a) ==
    /\ ~StopPending(j, a)
    /\ ExactClaim(w, j, a)
    /\ status[j] = "claimed"
    /\ \/ "deadline" \in due[j] /\ FailAttempt(j)
       \/ "deadline" \notin due[j] /\ (RetireClaim(j) \/ StartAttempt(j))

\* release_job
ReleaseJob(w, j, a) ==
    /\ ~StopPending(j, a)
    /\ ExactClaim(w, j, a)
    /\ \/ /\ status[j] = "running" /\ j \in Effectful
          /\ FailAttempt(j)
       \/ /\ ~(status[j] = "running" /\ j \in Effectful)
          /\ Requeue(j)
          /\ Finalize(j, a)
          /\ UNCHANGED <<restVars, ledgerVars, delivered, events>>

Reports == {"success", "unverified", "skipped", "failure"}

\* The status and the proof still owed after a completion report.  attested:
\* the server's embedded worker vouches for it.  "success" also stands for
\* an operational completion and for a claim outside live mode.
Completion(j, report, attested) ==
    CASE j \in Effectful /\ report \in {"failure", "skipped"} -> <<"neutral", "ambiguous">>
      [] j \notin Effectful /\ report = "failure"             -> <<"failed", "none">>
      [] j \notin Effectful /\ report = "skipped"             -> <<"neutral", "none">>
      [] OTHER ->
           IF j \in WorkOrders \/ (j \in Effectful /\ ~attested)
           THEN <<"neutral", IF attested THEN "none" ELSE "verify">>
           ELSE <<IF report = "success" THEN "completed" ELSE "neutral", "none">>

\* A row that completes releases its dependents within the same lock.
CompleteRow(j, hd) ==
    LET st == [status EXCEPT ![j] = "completed"]
        pr == [proof EXCEPT ![j] = "none"]
    IN  /\ status' = Unblocked(st, pr)
        /\ hold'   = UnblockedHold(st, pr, hd)
        /\ proof'  = pr
        /\ UNCHANGED attempt

\* Mutant: the report is matched by its attempt alone, so it is accepted
\* after the attempt has been closed as ambiguous.
CompleteEnded(w, j, a, report, attested) ==
    /\ a # NoAttempt
    /\ by[a] = w
    /\ status[j] \in {"running", "neutral"}
    /\ SetRow(j, "neutral", hold[j], NoWorker, a, Completion(j, report, attested)[2])
    /\ result' = [result EXCEPT ![j] = a]
    /\ Enqueue(a, "complete")
    /\ Finalize(j, a)
    /\ UNCHANGED <<retries, tomb, approval, writer, due, consumed, ledgerVars, delivered>>

\* complete_job: a deadline or timeout that has passed turns it into a
\* failure; the claim is cleared and the attempt id kept.
CompleteJob(w, j, a, report, attested) ==
    LET target == Completion(j, report, attested)
    IN  /\ ~StopPending(j, a)
        /\ ExactClaim(w, j, a)
        /\ status[j] = "running"
        /\ \/ {"deadline", "timeout"} \cap due[j] # {} /\ FailAttempt(j)
           \/ /\ {"deadline", "timeout"} \cap due[j] = {}
              /\ \/ /\ target[1] = "completed"
                    /\ CompleteRow(j, hold)
                    /\ worker' = [worker EXCEPT ![j] = NoWorker]
                 \/ /\ target[1] # "completed"
                    /\ SetRow(j, target[1],
                              IF target[2] = "ambiguous" THEN "ambiguous" ELSE hold[j],
                              NoWorker, a, target[2])
              /\ result' = [result EXCEPT ![j] = a]
              /\ Enqueue(a, "complete")
              /\ Finalize(j, a)
              /\ UNCHANGED <<retries, tomb, approval, writer, due, consumed, ledgerVars, delivered>>

\* send_heartbeat
SendHeartbeat(w, j, a) ==
    /\ worker[j] = w /\ attempt[j] = a
    /\ "silence" \in due[j]
    /\ due' = [due EXCEPT ![j] = @ \ {"silence"}]
    /\ UNCHANGED <<rowVars, retries, result, tomb, approval, writer, consumed,
                   ledgerVars, delivered, events, ops>>
-----------------------------------------------------------------------------
(* The sweeps of the scheduler's tick.  Each commits what it did row by row  *)
(* or at its end; a row is an action.                                      *)

\* expire_past_deadlines: an active attempt fails through fail_job, which a
\* pending stop suppresses; a waiting row fails at once.
ExpirePastDeadlines(j) ==
    /\ "deadline" \in due[j]
    /\ \/ /\ status[j] \in Active
          /\ ~StopPending(j, attempt[j])
          /\ FailAttempt(j)
       \/ /\ status[j] \in {"queued", "blocked"}
          /\ SetRow(j, "failed", hold[j], NoWorker, attempt[j], proof[j])
          /\ UNCHANGED <<restVars, ledgerVars, delivered, events, ops>>

\* expire_execution_timeouts
ExpireExecutionTimeouts(j) ==
    /\ status[j] = "running"
    /\ "timeout" \in due[j]
    /\ ~StopPending(j, attempt[j])
    /\ FailAttempt(j)

\* Mutant: the lease expires without ending the operations on the claim.
AbandonUnsettled(j) ==
    \/ /\ status[j] = "claimed"
       /\ "lease" \in due[j]
       /\ Requeue(j)
       /\ UNCHANGED <<restVars, ledgerVars, delivered, events, ops>>
    \/ /\ status[j] = "running"
       /\ "silence" \in due[j]
       /\ ~StopPending(j, attempt[j])
       /\ FailAttempt(j)

\* Mutant: claims that were never started are not looked at.
AbandonRunningOnly(j) ==
    /\ status[j] = "running"
    /\ "silence" \in due[j]
    /\ ~StopPending(j, attempt[j])
    /\ FailAttempt(j)

\* abandon_silent_jobs: a claim that was never started goes back to the
\* queue, pending stop or not; a silent running attempt fails.
AbandonSilentJobs(j) ==
    \/ /\ status[j] = "claimed"
       /\ "lease" \in due[j]
       /\ Requeue(j)
       /\ Finalize(j, attempt[j])
       /\ UNCHANGED <<restVars, ledgerVars, delivered, events>>
    \/ /\ status[j] = "running"
       /\ "silence" \in due[j]
       /\ ~StopPending(j, attempt[j])
       /\ FailAttempt(j)

\* requeue_retryable_jobs: rows an older writer left ABANDONED.
RequeueRetryableJobs(j) ==
    LET again == retries[j] < MaxRetries /\ "deadline" \notin due[j]
    IN  /\ status[j] = "abandoned"
        /\ \/ Fenced(j) /\ FenceRow(j)
           \/ /\ ~Fenced(j)
              /\ IF again THEN Requeue(j)
                          ELSE SetRow(j, "failed", hold[j], NoWorker, attempt[j], proof[j])
              /\ retries' = [retries EXCEPT ![j] = IF again THEN @ + 1 ELSE @]
              /\ UNCHANGED <<result, tomb, approval, writer, due, consumed,
                             ledgerVars, delivered, events, ops>>

\* abandon_jobs_for_node: the mesh declares a worker dead.
AbandonJobsForNode(w, j) ==
    /\ status[j] \in Active
    /\ worker[j] = w
    /\ IF status[j] = "claimed" THEN ReleaseJob(w, j, attempt[j])
                                ELSE FailJob(w, j, attempt[j])

AwaitingOwner(j) == status[j] = "blocked" /\ hold[j] \in {"approval", "trust"}

\* expire_blocked_approvals: the hold's tags stay on the failed row.
ExpireBlockedApprovals(j) ==
    /\ AwaitingOwner(j)
    /\ "approval" \in due[j]
    /\ SetRow(j, "failed", hold[j], worker[j], attempt[j], proof[j])
    /\ UNCHANGED <<restVars, ledgerVars, delivered, events, ops>>

\* prepare_action_approval: what the store answers for job j.  It creates the
\* request, or spends a bounded grant, when there is none.
Resolve(j) ==
    CASE approval[j] = "none"    -> {"pending", "approved"}
      [] approval[j] = "pending" -> IF "approval" \in due[j] THEN {"expired"} ELSE {"pending"}
      [] OTHER                   -> {approval[j]}

\* Mutant: only a missing request is repaired.
ReconcileMissingOnly(j) ==
    /\ AwaitingOwner(j)
    /\ approval[j] = "none"
    /\ approval' = [approval EXCEPT ![j] = "pending"]
    /\ UNCHANGED <<rowVars, retries, result, tomb, writer, due, consumed, ledgerVars,
                   delivered, events, ops>>

\* reconcile_blocked_approval_authority: repairs a hold whose decision never
\* reached the row.
ReconcileBlockedApproval(j) ==
    /\ AwaitingOwner(j)
    /\ \E answer \in Resolve(j) :
          /\ answer = "pending" => approval[j] # "pending"
          /\ approval' = [approval EXCEPT ![j] = answer]
          /\ LET waits == answer = "approved" /\ ~Ready(status, j)
             IN  SetRow(j,
                    CASE answer = "pending"  -> "blocked"
                      [] answer = "approved" -> IF waits THEN "blocked" ELSE "queued"
                      [] answer = "rejected" -> "cancelled"
                      [] OTHER               -> "failed",
                    CASE answer = "pending" -> hold[j]
                      [] waits              -> "dependency"
                      [] OTHER              -> "none",
                    worker[j], attempt[j], proof[j])
    /\ UNCHANGED <<retries, result, tomb, writer, due, consumed, ledgerVars,
                   delivered, events, ops>>

\* reconcile_governance_holds and reconcile_runtime_claim_holds: the governor,
\* or the source's fence, no longer refuses the job.
ReconcileGovernanceHolds(j) ==
    /\ status[j] = "blocked"
    /\ hold[j] \in {"governance", "trust"}
    /\ SetRow(j, "queued", "none", NoWorker, attempt[j], proof[j])
    /\ UNCHANGED <<restVars, ledgerVars, delivered, events, ops>>

ReconcileRuntimeClaimHolds(j) ==
    /\ status[j] = "blocked"
    /\ hold[j] = "runtime"
    /\ SetRow(j, "queued", "none", NoWorker, NoAttempt, proof[j])
    /\ UNCHANGED <<restVars, ledgerVars, delivered, events, ops>>

-----------------------------------------------------------------------------
(* Handlers that decide outside the queue's lock: the decision is durable in *)
(* the approval store first, the row follows in a later transaction, and a   *)
(* crash of the process can come between any two steps.                      *)

SetWriter(j, w) == /\ writer' = [writer EXCEPT ![j] = w]
                   /\ UNCHANGED <<rowVars, retries, result, tomb, due, consumed,
                                  ledgerVars, delivered, events, ops>>

\* _decide_job: the owner's decision, or a replay of it.
Decide(j, d) ==
    /\ writer[j] = "idle"
    /\ AwaitingOwner(j)
    /\ \/ approval[j] \in {"none", "pending"} /\ "approval" \notin due[j]
       \/ approval[j] = d
    /\ approval' = [approval EXCEPT ![j] = d]
    /\ SetWriter(j, IF d = "approved" THEN "decided" ELSE "cancel")

\* Mutant: an approval also lifts the dependency gate.
ReadNoDependencies(j) ==
    /\ writer[j] = "decided"
    /\ SetWriter(j, "queue")
    /\ UNCHANGED approval

\* _decide_job, after an approval: it reads the dependencies one at a time.
ReadDependencies(j) ==
    /\ writer[j] = "decided"
    /\ SetWriter(j, IF Ready(status, j) THEN "queue" ELSE "wait")
    /\ UNCHANGED approval

\* WorkOrder adapter: _prepare_effect_authority.  A work order has no
\* dependencies and none are read.
PrepareEffectAuthority(j) ==
    /\ writer[j] = "idle"
    /\ j \in WorkOrders \cap Effectful
    /\ AwaitingOwner(j)
    /\ \E answer \in Resolve(j) :
          /\ approval' = [approval EXCEPT ![j] = answer]
          /\ approval' # approval \/ answer # "pending"
          /\ SetWriter(j, CASE answer = "pending"  -> "idle"
                            [] answer = "approved" -> "queue"
                            [] answer = "rejected" -> "cancel"
                            [] OTHER               -> "fail")

\* Mutant: a row that ended while the handler was away is written all the same.
ApplyDecisionLate(j) ==
    /\ writer[j] \in {"queue", "wait", "cancel", "fail"}
    /\ writer' = [writer EXCEPT ![j] = "idle"]
    /\ status[j] \notin Active \cup {"absent"}
    /\ SetRow(j, IF writer[j] = "queue" THEN "queued" ELSE "cancelled", "none",
              worker[j], attempt[j], proof[j])
    /\ UNCHANGED <<retries, result, tomb, approval, due, consumed, ledgerVars,
                   delivered, events, ops>>

\* update_job_status: whatever waiting state the row is in by now, unless
\* it is owned, ended or has an effect to verify.
ApplyDecision(j) ==
    LET refused == \/ status[j] \in Active \cup Terminal \cup {"absent"}
                   \/ proof[j] \in {"verify", "ambiguous"}
    IN  /\ writer[j] \in {"queue", "wait", "cancel", "fail"}
        /\ writer' = [writer EXCEPT ![j] = "idle"]
        /\ IF refused THEN UNCHANGED rowVars
           ELSE SetRow(j,
                  CASE writer[j] = "queue"  -> "queued"
                    [] writer[j] = "wait"   -> "blocked"
                    [] writer[j] = "cancel" -> "cancelled"
                    [] OTHER                -> "failed",
                  IF writer[j] = "wait" THEN "dependency" ELSE "none",
                  worker[j], attempt[j], proof[j])
        /\ UNCHANGED <<retries, result, tomb, approval, due, consumed,
                       ledgerVars, delivered, events, ops>>

\* The process dies: what its handlers were about to write is gone.
CrashHandler(j) ==
    /\ writer[j] # "idle"
    /\ SetWriter(j, "idle")
    /\ UNCHANGED approval

-----------------------------------------------------------------------------
(* Verification, the outcome outbox and retention.                          *)

\* Mutant: any ended row with a result may be attested.
AttestEnded(j) ==
    /\ status[j] \in {"neutral", "cancelled"}
    /\ result[j] # NoAttempt
    /\ attempt[j] = result[j]
    /\ CompleteRow(j, [hold EXCEPT ![j] = "none"])
    /\ Enqueue(result[j], "attested")
    /\ UNCHANGED <<worker, retries, result, tomb, approval, writer, due, consumed,
                   ledgerVars, delivered, ops>>

\* attest_action_success and attest_job_success: an independent verifier
\* vouches for the exact attempt the NEUTRAL row holds.
Attest(j) ==
    /\ status[j] = "neutral"
    /\ j \in Effectful \cup WorkOrders
    /\ result[j] # NoAttempt
    /\ attempt[j] = result[j]
    /\ \/ proof[j] # "none"
       \/ <<result[j], "complete">> \in events /\ j \in Effectful \ WorkOrders
    /\ CompleteRow(j, [hold EXCEPT ![j] = "none"])
    /\ consumed' = IF proof[j] = "semantic" THEN consumed \cup {j} ELSE consumed
    /\ Enqueue(result[j], "attested")
    /\ UNCHANGED <<worker, retries, result, tomb, approval, writer, due,
                   ledgerVars, delivered, ops>>

\* drain_worker_outcomes: the governor records the event, then the row is
\* marked; a failed delivery leaves it pending and changes nothing else.
DrainOutcome(e) ==
    /\ e \in events \ delivered
    /\ status[of[e[1]]] # "absent"
    /\ delivered' = delivered \cup {e}
    /\ UNCHANGED <<rowVars, restVars, ledgerVars, events, ops>>

HasFinding(j, f) == \E a \in AttemptsOf(j) : finding[a] = f

\* The retry a negative finding authorises is still to be spent.
RetryOpen(j) ==
    /\ HasFinding(j, "not_applied")
    /\ j \notin consumed
    /\ status[j] \in {"failed", "cancelled", "abandoned"}
    /\ retries[j] < MaxRetries
    /\ "deadline" \notin due[j]

\* Mutant: outcomes that were not delivered are pruned with the job.
PrunableUndelivered(j) ==
    /\ status[j] \in Terminal \cup {"abandoned"}
    /\ ~(status[j] = "neutral" /\ proof[j] \in {"verify", "ambiguous"})
    /\ HasFinding(j, "applied") => status[j] = "completed"
    /\ ~RetryOpen(j)

\* prune_old_jobs: what may be retired behind a tombstone.
Prunable(j) ==
    /\ status[j] \in Terminal \cup {"abandoned"}
    /\ ~(status[j] = "neutral" /\ proof[j] \in {"verify", "ambiguous"})
    /\ HasFinding(j, "applied") => status[j] = "completed"
    /\ ~RetryOpen(j)
    /\ \A e \in events \ delivered : of[e[1]] # j

Prune(j) ==
    /\ Prunable(j)
    /\ tomb' = [tomb EXCEPT ![j] = status[j]]
    /\ SetRow(j, "absent", "none", NoWorker, NoAttempt, "none")
    /\ retries' = [retries EXCEPT ![j] = 0]
    /\ result'  = [result EXCEPT ![j] = NoAttempt]
    /\ due'     = [due EXCEPT ![j] = {}]
    /\ consumed' = consumed \ {j}
    /\ UNCHANGED <<approval, writer, ledgerVars, delivered, events, ops>>

\* A bound passes while it applies to the row.
Applies(j, b) ==
    CASE b = "lease"    -> status[j] = "claimed"
      [] b = "deadline" -> status[j] # "absent" /\ j \in Deadlined
      [] b = "approval" -> AwaitingOwner(j)
      [] OTHER          -> status[j] = "running"

TimePasses(j, b) ==
    /\ b \notin due[j]
    /\ Applies(j, b)
    /\ due' = [due EXCEPT ![j] = @ \cup {b}]
    /\ UNCHANGED <<rowVars, retries, result, tomb, approval, writer, consumed,
                   ledgerVars, delivered, events, ops>>

-----------------------------------------------------------------------------
(* A database as this version finds it: empty, or with rows of an older      *)
(* writer, which queued effects without asking for approval, put an          *)
(* abandoned attempt back in the queue or left it ABANDONED, whatever the    *)
(* attempt had done.                                                         *)

QueueInit ==
    /\ status \in {st \in [Jobs -> {"absent", "queued", "abandoned"}] :
                      /\ \A j \in Jobs \ OldRows : st[j] = "absent"
                      /\ \A i \in DOMAIN Legacy : st[Legacy[i]] # "absent"}
    /\ hold = [j \in Jobs |-> "none"]
    /\ worker = [j \in Jobs |-> NoWorker]
    /\ attempt = [j \in Jobs |-> NoAttempt]
    /\ proof = [j \in Jobs |-> "none"]
    /\ retries = [j \in Jobs |-> 0]
    /\ result = [j \in Jobs |-> NoAttempt]
    /\ tomb = [j \in Jobs |-> "none"]
    /\ approval \in {ap \in [Jobs -> {"none", "approved"}] :
                        \A j \in Jobs : status[j] = "absent" => ap[j] = "none"}
    /\ writer = [j \in Jobs |-> "idle"]
    /\ due = [j \in Jobs |-> {}]
    /\ consumed = {}
    /\ minted = Len(Legacy)
    /\ of = [a \in Attempts |-> IF a \in DOMAIN Legacy THEN Legacy[a] ELSE NoJob]
    /\ by = [a \in Attempts |-> NoWorker]
    /\ started = DOMAIN Legacy
    /\ finding = [a \in Attempts |-> "none"]
    /\ events = {}
    /\ delivered = {}
    /\ ops = [o \in OpIds |-> Unused]

=============================================================================
