-------------------------- MODULE AutonomyScheduler --------------------------
(***************************************************************************)
(* The durable scheduler of the autonomy loop: ScheduleStore and           *)
(* AutonomyScheduler of sidecar/pacomind/autonomy/scheduler.py.            *)
(*                                                                         *)
(* Processes share one SQLite file.  A tick leases one due schedule at a   *)
(* time, awaits its callback and completes the run with the exact token of *)
(* the lease; operators enable, disable and delete schedules meanwhile,    *)
(* embedded callers upsert them, and a process may be killed or restarted  *)
(* between any two of these transactions.  Every transaction is one        *)
(* action; "now" is read before it, so it is any member of Readings.       *)
(*                                                                         *)
(* A token stands for the lease token and the attempt id of one claim,     *)
(* both fresh uuid4 values.  A schedule stands for its id and its name     *)
(* (the id is a uuid5 of the name).  One unit of the clock is half a       *)
(* second.                                                                 *)
(***************************************************************************)
EXTENDS Clock, FiniteSets

CONSTANTS
    Schedules,
    Registrable,   \* the schedules whose name register() accepts
    Processes,
    Survivors,     \* the processes that are neither killed nor cancelled
    Tokens, NoToken,
    RunLease,      \* lease_seconds
    Interval,      \* interval_seconds
    BaseBackoff, MaxBackoff,
    MaxPerTick     \* the 100 claims of one tick

ASSUME SchedulerAssumption ==
    /\ Schedules # {} /\ Registrable \subseteq Schedules
    /\ Survivors \subseteq Processes
    /\ NoToken \notin Tokens
    /\ {RunLease, Interval, BaseBackoff, MaxBackoff, MaxPerTick} \subseteq Nat \ {0}
    /\ BaseBackoff <= MaxBackoff

\* The exponent of the retry delay is at most 30.
ASSUME PowersOfTwo == \A e \in 0..30 : 2^e \in Nat

VARIABLES
    row,          \* the table schedules
    attempt,      \* schedule_run_attempts, each with the status of its receipt
    runner,       \* where each process is in tick(), with its RunClaim
    claimed,      \* claimed_ids of the tick of each process
    callbacks,    \* the schedules each process has a callback for
    operatorOff   \* schedules the operator disabled last (history)

schedulerVars == <<row, attempt, runner, claimed, callbacks, operatorOff, clock>>

\* degraded_reason: "callback" is callback_unregistered:..., "repairable" a
\* migration_invalid_* that a registration repairs, "conflict" a duplicate
\* or invalid name.
Reasons == {"none", "callback", "repairable", "conflict"}
Failing == {"error", "degraded", "lease_expired"}
Receipts == Failing \cup {"success", "skipped", "lease_lost", "disabled"}

Rows == [status : {"absent", "enabled", "disabled"}, degraded : Reasons,
         nextRun : Nat, lastRun : Nat, failures : Nat,
         token : Tokens \cup {NoToken}, expires : Nat]
Attempts == [of : Schedules, status : Receipts \cup {"unused", "open"}]
Runners == [phase : {"claiming", "running", "unknown"}, token : Tokens \cup {NoToken},
            at : Nat]

Absent == [status |-> "absent", degraded |-> "none", nextRun |-> 0, lastRun |-> 0,
           failures |-> 0, token |-> NoToken, expires |-> 0]
Claiming == [phase |-> "claiming", token |-> NoToken, at |-> 0]

-----------------------------------------------------------------------------
(* _iso: a time as the text SQL compares.  isoformat() writes the fraction *)
(* only when there is one, so "05+00:00" and "05.500000+00:00" differ at   *)
(* the character after the seconds: '+' (43) or '.' (46).                  *)

\* Mutant: a Z (90) where the offset was, as other writers of UTC times have it.
IsoWithZ(t) == <<t \div 2, IF t % 2 = 0 THEN 90 ELSE 46>>

Iso(t) == <<t \div 2, IF t % 2 = 0 THEN 43 ELSE 46>>

TextBefore(x, y) == x[1] < y[1] \/ (x[1] = y[1] /\ x[2] < y[2])
Before(t, u)   == TextBefore(Iso(t), Iso(u))
NotAfter(t, u) == ~TextBefore(Iso(u), Iso(t))

-----------------------------------------------------------------------------
(* Opening the database.                                                   *)

\* _migrate_duplicate_names and _migrate_legacy_rows, at every start of a
\* process: a row whose name cannot be registered is disabled again.
Migrated(s, r) ==
    IF s \notin Registrable /\ r.status # "absent"
    THEN [r EXCEPT !.status = "disabled",
                   !.degraded = IF @ = "none" THEN "conflict" ELSE @]
    ELSE r

\* What a database of the earlier version holds of s after the migration,
\* or a new database.
Legacy(s) ==
    LET Idle(status, reason) ==
            [Absent EXCEPT !.status = status, !.degraded = reason, !.nextRun = 1]
    IN IF s \in Registrable
       THEN {Absent, Idle("enabled", "none"), Idle("disabled", "repairable")}
       ELSE {Idle("disabled", "conflict")}

SchedulerInit ==
    /\ ClockInit
    /\ row \in {f \in [Schedules -> UNION {Legacy(s) : s \in Schedules}] :
                    \A s \in Schedules : f[s] \in Legacy(s)}
    /\ attempt = [t \in Tokens |->
                    [of |-> CHOOSE s \in Schedules : TRUE, status |-> "unused"]]
    /\ runner = [p \in Processes |-> Claiming]
    /\ claimed = [p \in Processes |-> {}]
    /\ callbacks = [p \in Processes |-> {}]
    /\ operatorOff = {}

-----------------------------------------------------------------------------
(* Registration and configuration.                                         *)

New(now) == [Absent EXCEPT !.status = "enabled", !.nextRun = now]

\* register_schedule: the run state of a row survives, and a row that was
\* degraded for a reason the registration removes is enabled again.
Registered(r) ==
    IF r.degraded \in {"callback", "repairable"}
    THEN [r EXCEPT !.status = "enabled", !.degraded = "none"]
    ELSE r

Register(p, s, now) ==
    /\ s \in Registrable
    /\ row' = [row EXCEPT ![s] = IF @.status = "absent" THEN New(now) ELSE Registered(@)]
    /\ callbacks' = [callbacks EXCEPT ![p] = @ \cup {s}]
    /\ operatorOff' = operatorOff \ (IF row[s].status = "absent" THEN {s} ELSE {})
    /\ UNCHANGED <<attempt, runner, claimed, clock>>

\* upsert, with an object the caller built itself: only the enabled flag of
\* an existing row is the caller's, the lease stays.
Upsert(s, status, now) ==
    /\ row' = [row EXCEPT ![s].status = status,
                          ![s].nextRun = IF row[s].status = "absent" THEN now ELSE @]
    /\ operatorOff' = operatorOff \ {s}
    /\ UNCHANGED <<attempt, runner, claimed, callbacks, clock>>

SetEnabled(s) ==
    /\ row[s].status # "absent"
    /\ row' = [row EXCEPT ![s].status = "enabled", ![s].degraded = "none"]
    /\ operatorOff' = operatorOff \ {s}
    /\ UNCHANGED <<attempt, runner, claimed, callbacks, clock>>

\* _insert_receipt: INSERT OR IGNORE, one receipt for each attempt.
Receipted(t, status) ==
    IF t \in Tokens /\ attempt[t].status = "open"
    THEN [attempt EXCEPT ![t].status = status]
    ELSE attempt

\* Mutant: the disable clears the lease and writes no receipt.
DisableSilently(s) ==
    /\ row[s].status # "absent"
    /\ row' = [row EXCEPT ![s].status = "disabled", ![s].token = NoToken,
                          ![s].expires = 0]
    /\ operatorOff' = operatorOff \cup {s}
    /\ UNCHANGED <<attempt, runner, claimed, callbacks, clock>>

SetDisabled(s) ==
    /\ row[s].status # "absent"
    /\ attempt' = Receipted(row[s].token, "disabled")
    /\ row' = [row EXCEPT ![s].status = "disabled", ![s].token = NoToken,
                          ![s].expires = 0]
    /\ operatorOff' = operatorOff \cup {s}
    /\ UNCHANGED <<runner, claimed, callbacks, clock>>

\* delete: refused while there is a lease or an attempt without a receipt.
Delete(s) ==
    /\ row[s].status # "absent"
    /\ row[s].token = NoToken
    /\ \A t \in Tokens : attempt[t].of = s => attempt[t].status # "open"
    /\ row' = [row EXCEPT ![s] = Absent]
    /\ operatorOff' = operatorOff \ {s}
    /\ UNCHANGED <<attempt, runner, claimed, callbacks, clock>>

-----------------------------------------------------------------------------
(* One tick of a process.                                                  *)

\* Mutant: a leased row is never due, expired or not.
DueUnleased(s, now) ==
    /\ row[s].status = "enabled"
    /\ NotAfter(row[s].nextRun, now)
    /\ row[s].token = NoToken

Due(s, now) ==
    /\ row[s].status = "enabled"
    /\ NotAfter(row[s].nextRun, now)
    /\ row[s].token = NoToken \/ NotAfter(row[s].expires, now)

\* The first due row that this tick has not claimed yet; names break ties.
Selected(p, now) ==
    LET candidates == {s \in Schedules \ claimed[p] : Due(s, now)}
    IN {s \in candidates : \A r \in candidates : NotAfter(row[s].nextRun, row[r].nextRun)}

\* The abandoned attempt gets its receipt, and its failure is counted with it.
Abandoned(s) == row[s].token # NoToken /\ attempt[row[s].token].status = "open"

\* claim_one_due, and the lookup of the callback that follows it without an
\* await.
Claim(p, s, t, now) ==
    /\ runner[p].phase = "claiming"
    /\ Cardinality(claimed[p]) < MaxPerTick
    /\ s \in Selected(p, now)
    /\ attempt[t].status = "unused"
    /\ attempt' = [Receipted(row[s].token, "lease_expired") EXCEPT
                    ![t] = [of |-> s, status |-> "open"]]
    /\ row' = [row EXCEPT ![s].token = t, ![s].expires = now + RunLease,
                          ![s].failures = IF Abandoned(s) THEN @ + 1 ELSE @]
    /\ runner' = [runner EXCEPT ![p] =
                    [phase |-> IF s \in callbacks[p] THEN "running" ELSE "unknown",
                     token |-> t, at |-> now]]
    /\ claimed' = [claimed EXCEPT ![p] = @ \cup {s}]
    /\ UNCHANGED <<callbacks, operatorOff, clock>>

\* Nothing is due, or the tick has made all its claims; the next one starts.
TickEnds(p, now) ==
    /\ runner[p].phase = "claiming"
    /\ Selected(p, now) = {} \/ Cardinality(claimed[p]) >= MaxPerTick
    /\ claimed' = [claimed EXCEPT ![p] = {}]
    /\ UNCHANGED <<row, attempt, runner, callbacks, operatorOff, clock>>

\* Mutant: the token is compared, the expiry is not.
OwnsByToken(t, now) == row[attempt[t].of].token = t

\* _completion_rows: the exact token, before its expiry.
Owns(t, now) ==
    /\ row[attempt[t].of].token = t
    /\ Before(now, row[attempt[t].of].expires)

\* The claim p holds, at an instant that p reads after the one it claimed at.
Holds(p, phase, t, now) ==
    /\ runner[p].phase = phase
    /\ runner[p].token = t
    /\ runner[p].at <= now

Released(r) == [r EXCEPT !.token = NoToken, !.expires = 0]

\* The common end of the transactions that complete the run of p.
Complete(p, t, status, r) ==
    /\ attempt' = Receipted(t, status)
    /\ row' = [row EXCEPT ![attempt[t].of] = r]
    /\ runner' = [runner EXCEPT ![p] = Claiming]
    /\ UNCHANGED <<claimed, callbacks, operatorOff, clock>>

\* Mutant: the interval is counted from the time the run was scheduled for.
CompleteSuccessFromSchedule(p, t, now) ==
    LET r == row[attempt[t].of] IN
    /\ Holds(p, "running", t, now)
    /\ Owns(t, now)
    /\ Complete(p, t, "success",
                [Released(r) EXCEPT
                    !.lastRun = now, !.nextRun = r.nextRun + Interval, !.failures = 0,
                    !.degraded = "none"])

\* _complete_success_with_projection
CompleteSuccess(p, t, now) ==
    /\ Holds(p, "running", t, now)
    /\ Owns(t, now)
    /\ Complete(p, t, "success",
                [Released(row[attempt[t].of]) EXCEPT
                    !.lastRun = now, !.nextRun = now + Interval, !.failures = 0,
                    !.degraded = "none"])

\* The same with outcome="skipped": failures and degradation stay.
CompleteSkipped(p, t, now) ==
    /\ Holds(p, "running", t, now)
    /\ Owns(t, now)
    /\ Complete(p, t, "skipped",
                [Released(row[attempt[t].of]) EXCEPT
                    !.lastRun = now, !.nextRun = now + Interval])

\* The retry delay after f failures.
Backoff(f) ==
    LET exponent == IF f - 1 < 30 THEN f - 1 ELSE 30
        delay    == BaseBackoff * 2^exponent
    IN IF MaxBackoff < delay THEN MaxBackoff ELSE delay

\* complete_failure
CompleteFailure(p, t, now) ==
    LET r == row[attempt[t].of] IN
    /\ Holds(p, "running", t, now)
    /\ Owns(t, now)
    /\ Complete(p, t, "error",
                [Released(r) EXCEPT !.failures = @ + 1,
                                    !.nextRun = now + Backoff(r.failures + 1)])

\* degrade_unknown_callback
DegradeUnknownCallback(p, t, now) ==
    /\ Holds(p, "unknown", t, now)
    /\ Owns(t, now)
    /\ Complete(p, t, "degraded",
                [Released(row[attempt[t].of]) EXCEPT
                    !.status = "disabled", !.degraded = "callback", !.failures = @ + 1])

\* Mutant: the failure is counted and the lease given up without the receipt.
ExpireUncounted(p, t, now) ==
    LET r == row[attempt[t].of] IN
    /\ \E phase \in {"running", "unknown"} : Holds(p, phase, t, now)
    /\ ~Owns(t, now)
    /\ row' = IF r.token = t
              THEN [row EXCEPT ![attempt[t].of] = [Released(r) EXCEPT !.failures = @ + 1]]
              ELSE row
    /\ runner' = [runner EXCEPT ![p] = Claiming]
    /\ UNCHANGED <<attempt, claimed, callbacks, operatorOff, clock>>

\* _record_lost_or_expired, from any of the three completions: an expired
\* lease that is still held is given up and counted as a failure.
CompletionRefused(p, t, now) ==
    LET r       == row[attempt[t].of]
        expired == r.token = t
    IN /\ \E phase \in {"running", "unknown"} : Holds(p, phase, t, now)
       /\ ~Owns(t, now)
       /\ Complete(p, t, IF expired THEN "lease_expired" ELSE "lease_lost",
                   IF expired /\ attempt[t].status = "open"
                   THEN [Released(r) EXCEPT !.failures = @ + 1]
                   ELSE r)

\* The tick is cancelled at its await, or one of its transactions raises.
RunAbandoned(p) ==
    /\ p \notin Survivors
    /\ runner' = [runner EXCEPT ![p] = Claiming]
    /\ claimed' = [claimed EXCEPT ![p] = {}]
    /\ UNCHANGED <<row, attempt, callbacks, operatorOff, clock>>

\* The process is killed and started again: its callbacks are gone until it
\* registers them, and the constructor migrates the database.
Restart(p) ==
    /\ p \notin Survivors
    /\ runner' = [runner EXCEPT ![p] = Claiming]
    /\ claimed' = [claimed EXCEPT ![p] = {}]
    /\ callbacks' = [callbacks EXCEPT ![p] = {}]
    /\ row' = [s \in Schedules |-> Migrated(s, row[s])]
    /\ UNCHANGED <<attempt, operatorOff, clock>>

SchedulerTick == Tick /\ UNCHANGED <<row, attempt, runner, claimed, callbacks, operatorOff>>

-----------------------------------------------------------------------------
CompletionStep(p, t, now) ==
    \/ CompleteSuccess(p, t, now)
    \/ CompleteSkipped(p, t, now)
    \/ CompleteFailure(p, t, now)
    \/ DegradeUnknownCallback(p, t, now)
    \/ CompletionRefused(p, t, now)

\* What tick() does without being disturbed.
ProcessStep(p) ==
    \E now \in Readings :
        \/ \E s \in Schedules, t \in Tokens : Claim(p, s, t, now)
        \/ TickEnds(p, now)
        \/ \E t \in Tokens : CompletionStep(p, t, now)

OperatorStep ==
    \E s \in Schedules :
        \/ SetEnabled(s)
        \/ SetDisabled(s)
        \/ Delete(s)
        \/ \E status \in {"enabled", "disabled"}, now \in Readings : Upsert(s, status, now)

SchedulerNext ==
    \/ \E p \in Processes : ProcessStep(p) \/ RunAbandoned(p) \/ Restart(p)
    \/ \E p \in Processes, s \in Schedules, now \in Readings : Register(p, s, now)
    \/ OperatorStep
    \/ SchedulerTick

SchedulerSpec == SchedulerInit /\ [][SchedulerNext]_schedulerVars

\* The loop of a surviving process keeps ticking, the callbacks it awaits
\* return or raise, and time passes.
SchedulerFairSpec ==
    /\ SchedulerSpec
    /\ WF_schedulerVars(SchedulerTick)
    /\ \A p \in Survivors : WF_schedulerVars(ProcessStep(p))

-----------------------------------------------------------------------------
(* Properties.                                                             *)

\* Every column holds what its type allows, token and expiry of a lease are
\* set and cleared together, and nothing is kept of a deleted row.
SchedulerTypeOK ==
    /\ row \in [Schedules -> Rows]
    /\ \A s \in Schedules : row[s].token = NoToken <=> row[s].expires = 0
    /\ \A s \in Schedules : row[s].status = "absent" => row[s] = Absent
    /\ attempt \in [Tokens -> Attempts]
    /\ runner \in [Processes -> Runners]
    /\ claimed \in [Processes -> SUBSET Schedules]
    /\ callbacks \in [Processes -> SUBSET Schedules]
    /\ operatorOff \subseteq Schedules
    /\ clock \in Nat

Open(t) == attempt[t].status = "open"

\* A run without a receipt is the one its schedule is leased to, so no
\* claimed run is ever orphaned: the claimant after a crash, the disable and
\* the late completion each leave a terminal receipt, and delete() waits.
OpenAttemptIsLeased ==
    \A t \in Tokens : Open(t) => row[attempt[t].of].token = t

\* A lease belongs to an unfinished run of its own schedule: no completion,
\* disable or migration finishes a run and leaves its lease behind.
LeaseIsOpenAttempt ==
    \A s \in Schedules :
        LET t == row[s].token IN t # NoToken => Open(t) /\ attempt[t].of = s

\* claim_one_due, whatever operators and embedded callers do between: a
\* lease passes to another run only after its expiry.
LeaseNotStolen ==
    [][\A s \in Schedules :
        /\ row[s].token # NoToken
        /\ row'[s].token \notin {row[s].token, NoToken}
        => row[s].expires <= clock]_schedulerVars

\* A late callback cannot advance its schedule or overwrite a receipt:
\* last_run moves only with the success of the run that holds the lease and
\* read the clock before its expiry, and a receipt never changes.
LateCannotAdvance ==
    [][/\ \A t \in Tokens :
            attempt[t].status \in Receipts => attempt'[t] = attempt[t]
       /\ \A s \in Schedules :
            /\ row'[s].lastRun # row[s].lastRun
            /\ row'[s].status # "absent"
            => \E t \in Tokens :
                /\ Open(t) /\ row[s].token = t
                /\ clock < row[s].expires + MaxWait
                /\ attempt'[t].status \in {"success", "skipped"}]_schedulerVars

\* Two completed runs of a schedule lie at least its interval apart, through
\* failures, retries, expired leases, skipped runs and re-registration.
CadenceHeld ==
    [][\A s \in Schedules :
        /\ row[s].lastRun # 0
        /\ row'[s].lastRun \notin {0, row[s].lastRun}
        => row[s].lastRun + Interval <= row'[s].lastRun]_schedulerVars

\* failure_count grows by the failing receipt of one run, so a run that both
\* the next claimant and its own late completion find expired counts once.
FailureCountedOnce ==
    [][\A s \in Schedules :
        row'[s].failures > row[s].failures =>
            /\ row'[s].failures = row[s].failures + 1
            /\ \E t \in Tokens :
                /\ Open(t) /\ attempt[t].of = s
                /\ attempt'[t].status \in Failing]_schedulerVars

\* register(): "operator-disabled state survive[s] re-registration".
OperatorDisableHolds ==
    \A s \in operatorOff : row[s].status # "enabled"

\* An open run of an enabled schedule gets its receipt although its process
\* died, as long as some process keeps ticking (while the model has tokens
\* and its clock reaches the end of the lease).
AttemptResolved ==
    \A t \in Tokens :
        Open(t) ~> \/ ~Open(t)
                   \/ row[attempt[t].of].status = "disabled"
                   \/ \A u \in Tokens : attempt[u].status # "unused"
                   \/ row[attempt[t].of].expires > Horizon
=============================================================================
