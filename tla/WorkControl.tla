---------------------------- MODULE WorkControl ----------------------------
(***************************************************************************)
(* WorkControlV1 over the task queue: the operators' steer, interrupt,     *)
(* cancel and retry, the worker's acknowledgement of them, the             *)
(* reconciliation of ambiguous effects, and the whole queue they act on    *)
(* (queue_manager.py, apply_work_control_operation and what follows it).   *)
(*                                                                         *)
(* A request carries the revision and digest of the projection its author  *)
(* read; one that is stale, or whose operation id is known, changes        *)
(* nothing.  A request that does change something therefore acts on the    *)
(* state its author saw, and the actions below are those requests.         *)
(***************************************************************************)
EXTENDS JobQueue

CONSTANTS
    Steerable,      \* workers that advertise the steer capability
    Stoppable,      \* workers that advertise the interrupt capability
    Passing,        \* the bounds that may pass
    GovernorHolds,  \* the holds the worker governor may answer with
    OwnerDecisions, \* what the owner may decide
    Modes           \* whether a restart may leave WorkControl live

ASSUME ControlAssumption ==
    /\ Steerable \subseteq Workers
    /\ Stoppable \subseteq Workers
    /\ Passing \subseteq Bounds
    /\ GovernorHolds \subseteq {"governance", "trust"}
    /\ OwnerDecisions \subseteq {"approved", "rejected"}
    /\ Modes \subseteq BOOLEAN

VARIABLE controlLive   \* PACOMIND_WORK_CONTROL_MODE = live

ctlVars == <<vars, controlLive>>

-----------------------------------------------------------------------------
(* What an operator may ask: _work_control_projection_locked.               *)

PendingOn(j)    == {o \in OpIds : ops[o].state = "pending" /\ ops[o].job = j}
PendingKinds(j) == {ops[o].kind : o \in PendingOn(j)}

MaySteer(j) ==
    /\ status[j] \in Active
    /\ PendingOn(j) = {}
    /\ worker[j] \in Steerable
    /\ "deadline" \notin due[j]

MayInterrupt(j) ==
    /\ status[j] \in Active
    /\ PendingKinds(j) \subseteq {"steer"}
    /\ worker[j] \in Stoppable

MayCancel(j) ==
    \/ /\ status[j] \in Active
       /\ "cancel" \notin PendingKinds(j)
       /\ status[j] = "claimed" \/ worker[j] \in Stoppable
    \/ /\ status[j] \in {"queued", "blocked", "abandoned"}
       /\ PendingOn(j) = {}

\* worker_ack_required of an allowed cancel.
CancelNeedsAck(j) ==
    /\ status[j] \in Active
    /\ IF PendingOn(j) = {} THEN status[j] = "running" ELSE worker[j] \in Stoppable

Interrupted(j) == status[j] = "blocked" /\ hold[j] = "interrupted"

MayRetry(j) ==
    /\ status[j] \in {"failed", "cancelled", "abandoned"} \/ Interrupted(j)
    /\ PendingOn(j) = {}
    /\ Disposition(j) \in {"not_started", "read_only", "not_applied"}
    /\ retries[j] < MaxRetries
    /\ "deadline" \notin due[j]
    /\ hold[j] = "none" \/ Interrupted(j)
    /\ Ready(status, j)
    /\ Authorized(j)

-----------------------------------------------------------------------------
(* apply_work_control_operation                                            *)

\* cancel > interrupt > steer
Weaker(k) == CASE k = "cancel"    -> {"steer", "interrupt"}
               [] k = "interrupt" -> {"steer"}
               [] OTHER           -> {}

\* The receipt of a new operation, with the operations it overrules.
Receipt(o, k, j, s) ==
    LET a == IF status[j] \in Active THEN attempt[j] ELSE NoAttempt
        overruled == {p \in Pending(j, a) : ops[p].kind \in Weaker(k)}
    IN  /\ controlLive
        /\ ops[o].state = "unused"
        /\ ops' = [Settle(overruled, "overruled") EXCEPT
                     ![o] = [Unused EXCEPT !.kind = k, !.job = j, !.attempt = a,
                                           !.at = status[j], !.state = s]]

\* An operation that waits for the worker.
Ask(o, k, j) ==
    /\ \/ k = "steer" /\ MaySteer(j)
       \/ k = "interrupt" /\ MayInterrupt(j)
       \/ k = "cancel" /\ MayCancel(j) /\ CancelNeedsAck(j)
    /\ Receipt(o, k, j, "pending")
    /\ UNCHANGED <<rowVars, restVars, ledgerVars, delivered, events, controlLive>>

\* A cancel the server applies itself.
CancelNow(o, j) ==
    /\ MayCancel(j)
    /\ ~CancelNeedsAck(j)
    /\ Receipt(o, "cancel", j, "applied")
    /\ SetRow(j, "cancelled", hold[j], NoWorker, NoAttempt, proof[j])
    /\ UNCHANGED <<restVars, ledgerVars, delivered, events, controlLive>>

\* A retry spends the negative finding it rests on, if it rests on one.
Retry(o, j) ==
    /\ MayRetry(j)
    /\ Receipt(o, "retry", j, "applied")
    /\ SetRow(j, "queued", "none", NoWorker, NoAttempt,
              IF proof[j] = "retry" THEN "none" ELSE proof[j])
    /\ retries' = [retries EXCEPT ![j] = @ + 1]
    /\ consumed' = IF Disposition(j) = "not_applied" THEN consumed \cup {j}
                                                     ELSE consumed \ {j}
    /\ UNCHANGED <<result, tomb, approval, writer, due, ledgerVars, delivered,
                   events, controlLive>>

-----------------------------------------------------------------------------
(* The worker's side.                                                      *)

AckDeadlinePasses(o) ==
    /\ ops[o].state = "pending"
    /\ ~ops[o].late
    /\ ops' = [ops EXCEPT ![o].late = TRUE]
    /\ UNCHANGED <<rowVars, restVars, ledgerVars, delivered, events, controlLive>>

\* The operation's attempt is the one its job is on.
ExactActive(o) ==
    LET j == ops[o].job
    IN  /\ status[j] \in Active
        /\ attempt[j] = ops[o].attempt

\* record_work_control_worker_outcome: the first outcome stays.
RecordWorkerOutcome(o, outcome) ==
    /\ controlLive
    /\ ops[o].state = "pending"
    /\ ops[o].kind = "steer"
    /\ ops[o].noted = "none"
    /\ ~ops[o].late
    /\ ExactActive(o)
    /\ "deadline" \notin due[ops[o].job]
    /\ ops' = [ops EXCEPT ![o].noted = outcome]
    /\ UNCHANGED <<rowVars, restVars, ledgerVars, delivered, events, controlLive>>

\* A stop that takes hold of its attempt: the row's new state, and every
\* other operation on the attempt ends.
Stopped(o) ==
    LET j == ops[o].job
        a == ops[o].attempt
        ambiguous == status[j] = "running" /\ Disposition(j) = "ambiguous"
    IN  /\ CASE ambiguous -> SetRow(j, "neutral", "ambiguous", NoWorker, a, "ambiguous")
              [] ~ambiguous /\ ops[o].kind = "interrupt" -> HoldUnclaimed(j, "interrupted")
              [] OTHER -> SetRow(j, "cancelled", hold[j], NoWorker, NoAttempt, proof[j])
        /\ result' = IF ambiguous THEN [result EXCEPT ![j] = a] ELSE result
        /\ events' = IF ambiguous THEN events \cup {<<a, "ambiguous">>} ELSE events
        /\ ops' = [Settle(Pending(j, a), "lost") EXCEPT ![o].state = "applied"]
        /\ UNCHANGED <<retries, tomb, approval, writer, due, consumed, ledgerVars,
                       delivered, controlLive>>

\* acknowledge_work_control_operation, before the lease of the operation
\* has run out.  A late one is ReconcileExpired.
Acknowledge(o, outcome) ==
    /\ controlLive
    /\ ops[o].state = "pending"
    /\ ~ops[o].late
    /\ \/ /\ outcome = "rejected"
          /\ ops' = [ops EXCEPT ![o].state = "rejected"]
          /\ UNCHANGED <<rowVars, restVars, ledgerVars, delivered, events, controlLive>>
       \/ /\ outcome = "applied"
          /\ ops[o].kind = "steer"
          /\ ops[o].noted = "applied"
          /\ ExactActive(o)
          /\ ops' = [ops EXCEPT ![o].state = "applied"]
          /\ UNCHANGED <<rowVars, restVars, ledgerVars, delivered, events, controlLive>>
       \/ /\ outcome = "stopped"
          /\ ops[o].kind \in StopKinds
          /\ ExactActive(o)
          /\ Stopped(o)

\* Mutant: only commands on unstarted claims run out.
ReconcileExpiredClaims(o) ==
    /\ ops[o].state = "pending"
    /\ ops[o].late
    /\ ops[o].kind \in StopKinds
    /\ ExactActive(o)
    /\ status[ops[o].job] = "claimed"
    /\ Stopped(o)

\* reconcile_expired_work_controls: a stop of an attempt that never started
\* is applied by the server, every other operation just ends.
ReconcileExpired(o) ==
    /\ ops[o].state = "pending"
    /\ ops[o].late
    /\ \/ /\ ops[o].kind \in StopKinds
          /\ ExactActive(o)
          /\ status[ops[o].job] = "claimed"
          /\ Stopped(o)
       \/ /\ ~(ops[o].kind \in StopKinds /\ status[ops[o].job] = "claimed")
          /\ ops' = [ops EXCEPT ![o].state = IF ExactActive(o) THEN "expired" ELSE "lost"]
          /\ UNCHANGED <<rowVars, restVars, ledgerVars, delivered, events, controlLive>>

\* Mutant: a finding may be replaced by a later one.
ReconcileAgain(j, a, f) ==
    /\ status[j] = "neutral"
    /\ proof[j] = "ambiguous"
    /\ a \in AttemptsOf(j) \cap started
    /\ finding' = [finding EXCEPT ![a] = f]
    /\ SetRow(j, IF f = "applied" THEN "neutral" ELSE "cancelled", "none", worker[j], a,
              IF f = "applied" THEN "semantic" ELSE "retry")
    /\ result' = [result EXCEPT ![j] = a]
    /\ UNCHANGED <<retries, tomb, approval, writer, due, consumed, minted, of, by,
                   started, delivered, events, ops, controlLive>>

\* reconcile_work_effect: independent evidence about one started attempt.
\* The row then follows what is still unknown of the others.
ReconcileEffect(j, a, f) ==
    LET known == [finding EXCEPT ![a] = f]
        ran   == AttemptsOf(j) \cap started
        open  == {b \in ran : known[b] = "none"}
        done  == {b \in ran : known[b] = "applied"}
        held  == IF open # {} THEN Newest(open) ELSE IF done # {} THEN Newest(done) ELSE a
    IN  /\ status[j] = "neutral"
        /\ proof[j] = "ambiguous"
        /\ a \in ran
        /\ finding[a] = "none"
        /\ finding' = known
        /\ CASE open # {} -> SetRow(j, "neutral", "ambiguous", worker[j], held, "ambiguous")
             [] open = {} /\ done # {} -> SetRow(j, "neutral", "none", worker[j], held, "semantic")
             [] OTHER -> SetRow(j, "cancelled", "none", worker[j], held, "retry")
        /\ result' = [result EXCEPT ![j] = held]
        /\ UNCHANGED <<retries, tomb, approval, writer, due, consumed, minted, of,
                       by, started, delivered, events, ops, controlLive>>

\* The process restarts, perhaps in another mode: handlers are lost, and
\* outside live mode reconcile_inactive_work_controls ends what is pending.
Restart(live) ==
    /\ controlLive' = live
    /\ writer' = [j \in Jobs |-> "idle"]
    /\ ops' = IF live THEN ops
                      ELSE Settle({o \in OpIds : ops[o].state = "pending"}, "inactive")
    /\ <<controlLive', writer'>> # <<controlLive, writer>>
    /\ UNCHANGED <<rowVars, retries, result, tomb, approval, due, consumed,
                   ledgerVars, delivered, events>>

-----------------------------------------------------------------------------
(* A step of the queue leaves the mode alone.                              *)

Submitting(j) == (Post(j) \/ CancelJob(j)) /\ UNCHANGED controlLive

Claiming(j) ==
    /\ \/ HoldQueuedForRuntime(j)
       \/ QuarantineQueued(j)
       \/ HoldForMissingApproval(j)
       \/ \E h \in GovernorHolds : HoldQueuedForGovernance(j, h)
       \/ \E w \in Workers : ClaimJob(w, j)
    /\ UNCHANGED controlLive

Working(w, j) ==
    /\ \/ StartJob(w, j, attempt[j])
       \/ ReleaseJob(w, j, attempt[j])
       \/ FailJob(w, j, attempt[j])
       \/ \E report \in Reports, attested \in BOOLEAN :
             CompleteJob(w, j, attempt[j], report, attested)
       \/ SendHeartbeat(w, j, attempt[j])
       \/ AbandonJobsForNode(w, j)
    /\ UNCHANGED controlLive

Sweeping(j) ==
    /\ \/ ExpirePastDeadlines(j)
       \/ ExpireExecutionTimeouts(j)
       \/ AbandonSilentJobs(j)
       \/ RequeueRetryableJobs(j)
       \/ ExpireBlockedApprovals(j)
       \/ ReconcileBlockedApproval(j)
       \/ ReconcileGovernanceHolds(j)
       \/ ReconcileRuntimeClaimHolds(j)
    /\ UNCHANGED controlLive

Deciding(j) ==
    /\ \/ \E d \in OwnerDecisions : Decide(j, d)
       \/ ReadDependencies(j)
       \/ PrepareEffectAuthority(j)
       \/ ApplyDecision(j)
       \/ CrashHandler(j)
    /\ UNCHANGED controlLive

Retiring(j) == (Attest(j) \/ Prune(j)) /\ UNCHANGED controlLive

TimePassing(j, b) == TimePasses(j, b) /\ UNCHANGED controlLive
Unblocking        == UnblockReadyJobs /\ UNCHANGED controlLive
Draining(e)       == DrainOutcome(e) /\ UNCHANGED controlLive

Controlling(o) ==
    \/ \E j \in Jobs : \/ \E k \in {"steer", "interrupt", "cancel"} : Ask(o, k, j)
                       \/ CancelNow(o, j)
                       \/ Retry(o, j)
    \/ AckDeadlinePasses(o)
    \/ \E outcome \in {"applied", "rejected"} : RecordWorkerOutcome(o, outcome)
    \/ \E outcome \in {"applied", "stopped", "rejected"} : Acknowledge(o, outcome)
    \/ ReconcileExpired(o)

Init == QueueInit /\ controlLive = TRUE

Next ==
    \/ \E j \in Jobs : \/ Submitting(j)
                       \/ Claiming(j)
                       \/ \E w \in Workers : Working(w, j)
                       \/ Sweeping(j)
                       \/ Deciding(j)
                       \/ Retiring(j)
                       \/ \E b \in Passing : TimePassing(j, b)
                       \/ \E a \in Attempts, f \in {"applied", "not_applied"} :
                             ReconcileEffect(j, a, f)
    \/ Unblocking
    \/ \E e \in events : Draining(e)
    \/ \E o \in OpIds : Controlling(o)
    \/ \E live \in Modes : Restart(live)

Spec == Init /\ [][Next]_ctlVars
-----------------------------------------------------------------------------
(* Properties.                                                             *)

\* No blind retry: when an attempt of an effectful job starts, whatever an
\* earlier attempt of it started has been ruled out by independent evidence
\* (_work_control_attempt_truth, read at every claim and retry).
NoBlindRetry ==
    \A j \in Effectful : \A a, b \in AttemptsOf(j) \cap started :
        a < b /\ b > Len(Legacy) => finding[a] = "not_applied"

\* A job is worked on only after everything it depends on has completed,
\* however it was held, approved, released or retried on the way.
DependenciesFirst ==
    \A j \in Jobs : status[j] \in Active =>
        \A d \in Deps(j) : status[d] = "completed" \/ tomb[d] = "completed"

\* Every attempt of an effectful job was minted under an approval that
\* stands in the approval store, whichever writer released the row.
ApprovedFirst ==
    \A a \in Attempts : of[a] \in Effectful /\ a > Len(Legacy) =>
        approval[of[a]] = "approved"

\* An operation waits for a worker only while the attempt it names is the
\* one being worked on, and a job has one such operation at most: every
\* transition that ends an attempt ends its operations.
PendingOnActive ==
    \A o \in OpIds : ops[o].state = "pending" =>
        /\ ExactActive(o)
        /\ PendingOn(ops[o].job) = {o}

\* A stop accepted before its attempt started keeps the attempt from ever
\* starting, unless the worker refused it, a stronger stop took its place
\* or WorkControl was switched off; a stop that was applied ended it.
StopHolds ==
    \A o \in OpIds : ops[o].kind \in StopKinds /\ ops[o].attempt # NoAttempt =>
        /\ ops[o].at = "claimed" /\ ops[o].state \in {"pending", "applied", "lost", "expired"}
              => ops[o].attempt \notin started
        /\ ops[o].state = "applied" => ~ExactActive(o)

\* An attempt ends once: its worker's report, its failure and its ambiguity
\* exclude each other in the outcome outbox.
OutcomeOnce ==
    \A a \in Attempts :
        Cardinality({k \in {"complete", "failure", "ambiguous"} : <<a, k>> \in events}) <= 1

\* A verifier's success is final: the job is completed, or was when it was
\* pruned, and nobody found that attempt's effect missing.
AttestedIsDone ==
    \A a \in Attempts : <<a, "attested">> \in events =>
        /\ status[of[a]] = "completed" \/ tomb[of[a]] = "completed"
        /\ finding[a] # "not_applied"

\* A job is retired only when nothing is open about it: its outcomes have
\* reached the governor, and of each attempt that may have had an effect
\* there is a finding or a report.
NothingOpenIsPruned ==
    \A j \in Jobs : tomb[j] # "none" =>
        /\ \A e \in events : of[e[1]] = j => e \in delivered
        /\ j \in Effectful /\ j \notin OldRows =>
              \A a \in Unresolved(j) : \E k \in {"complete", "attested"} : <<a, k>> \in events

\* Ended jobs stay ended: a completed job is only ever pruned, a failed or
\* cancelled one comes back only as a counted retry, a NEUTRAL one only
\* through evidence, and a pruned identity is never used again.
EndedStaysEnded ==
    [][\A j \in Jobs :
        /\ status[j] = "completed" => status'[j] \in {"completed", "absent"}
        /\ status[j] \in {"failed", "cancelled"} =>
              \/ status'[j] \in {status[j], "absent"}
              \/ status'[j] = "queued" /\ retries'[j] = retries[j] + 1
        /\ status[j] = "neutral" => status'[j] \in {"neutral", "completed", "cancelled", "absent"}
        /\ status[j] = "neutral" /\ status'[j] = "cancelled" => finding' # finding
        /\ tomb[j] # "none" => status'[j] = "absent" /\ tomb'[j] = tomb[j]]_ctlVars

\* prune_old_jobs: "A negative finding is a consumable retry authorization.
\* Keep it until execution consumes it or its immutable budget/deadline
\* makes the target terminal."  A proof not yet spent is not pruned.
NegativeProofKept ==
    [][\A j \in Jobs :
        /\ proof[j] = "retry"
        /\ retries[j] < MaxRetries
        /\ "deadline" \notin due[j]
        => status'[j] # "absent"]_ctlVars

\* The queue implements EffectOnce: the attempts that may have performed an
\* effect are those that started and have no negative finding.
Abstract == INSTANCE EffectOnce WITH
    Effects <- Effectful, Tries <- Attempts,
    open <- [j \in Effectful |-> Exposed(j)],
    ruledOut <- {a \in Attempts : of[a] \in Effectful /\ finding[a] = "not_applied"}

ImplementsEffectOnce == Abstract!Spec

-----------------------------------------------------------------------------
(* Liveness.  Time passes and the scheduler ticks: its loop catches every    *)
(* exception and sleeps.  Nothing is asked of workers, operators or owners.  *)

Fairness ==
    /\ \A j \in Jobs :
          /\ \A b \in Passing : WF_ctlVars(TimePassing(j, b))
          /\ WF_ctlVars(ExpireExecutionTimeouts(j) /\ UNCHANGED controlLive)
          /\ WF_ctlVars(AbandonSilentJobs(j) /\ UNCHANGED controlLive)
          /\ WF_ctlVars(ReconcileBlockedApproval(j) /\ UNCHANGED controlLive)
    /\ \A o \in OpIds : /\ WF_ctlVars(AckDeadlinePasses(o))
                        /\ WF_ctlVars(ReconcileExpired(o))

LiveSpec == Spec /\ Fairness

\* Every attempt ends, whatever its worker and the operators do.
AttemptEnds == \A j \in Jobs : \A a \in Attempts :
    attempt[j] = a /\ status[j] \in Active ~> ~(attempt[j] = a /\ status[j] \in Active)

\* Every operation that waits for a worker gets an outcome.
ControlEnds == \A o \in OpIds : ops[o].state = "pending" ~> ops[o].state # "pending"

\* A decision that is in the approval store reaches its row, even when the
\* handler that took it is lost before it writes the row.
DecisionLands == \A j \in Jobs :
    AwaitingOwner(j) /\ approval[j] \in {"approved", "rejected", "expired"} ~> ~AwaitingOwner(j)

=============================================================================
