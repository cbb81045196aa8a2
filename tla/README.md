# TLA+ models of PacoMind

These modules model the parts of PacoMind that keep durable state which several
processes change: the path of a *governed action* from the host's action store
through a worker to the endpoint that performs it, the durable scheduler of the
autonomy loop, the *task queue* with its work control, and the *turn ledger* with the
workers that project it into claims and vectors. TLC checks them on small instances;
TLAPS proves the safety of every modelled store and composition, and both refinements,
for every instance: each invariant and action property of a passing run is a theorem.
`PROJECT.json` maps every definition to the lines it models and lists the runs, mutants,
hazards and theorems.

Contents: 1 the system, 2 the modules, 3 the runs, 4 bounds and abstractions,
5 fairness, 6 proofs, 7 where code and documents differ, 8 what is not modelled,
9 the plan.

## 1. The system

PacoMind (`docs/ARCHITECTURE.md`) has four domains: identity and authority,
evidence and memory, work and commitments, learning and evaluation. It is a
sidecar service (`sidecar/pacomind`, FastAPI and SQLite), a host worker
(`hostworker/pacomind_hostworker`, synchronous, its own SQLite store) and plugins
that adapt an agent harness to the sidecar's API.

| component | state it keeps | operations | what is hard | what makes it correct |
|---|---|---|---|---|
| action store (`sqlite_store.py`, `store.py`) | actions with state, attempt count, lease, schedule; receipts (gate, contract, observation journal, generic); dead letters | propose, gate, add_receipt, recover_expired_leases, lease_next, lease_dispatched_observation, begin_owner_authorized_dispatch, begin/defer_dispatched_observation, defer_leased, accept, verify, complete, fail_attempt | leases that expire under their owner, readings of the clock older than the commit, sweeps over several rows | I3-I11 of `store.py`: the authority is spent once, on the gate it names; terminal rows are frozen; failures are evident |
| owner gate (`gate.py`) | none | validate_owner_gate, assert_dispatchable | several expiries per shape of receipt | only a live receipt for this action dispatches it |
| worker (`worker.py`, `client.py`, `admission.py`) | local variables of one pass | process_one | crash between dispatch and PUT, lost PUT, late effect, stale checks | one PUT per action; doubt is resolved by GET only |
| endpoint (`governed_actions.py`) | ledger rows with request and result | execute, observe, recovery at start | two awaits under one lock, cancellation, crash around the effect | one effect per action, truthful and final answers |
| scheduler (`autonomy/scheduler.py`) | schedules with lease, attempts, receipts | register, upsert, enable, disable, delete, tick (claim, complete, fail, degrade), migrations | callbacks that outlive their lease, operators and restarts in the middle of a run, times compared as text | one run at a time, one receipt per run, cadence, failure counts |
| task queue (`task_queue/queue_manager.py`) | jobs with status, claim, retries and holds; audit of attempts; findings about effects; outcome outbox; tombstones | post, cancel, claim, start, release, fail, complete, heartbeat, the sweeps of a scheduler tick, attest, drain, prune | workers that vanish after an effect began, approval handlers outside the lock, late reports, rows of an older writer | no effect is repeated blindly, work waits for approval and dependencies, an attempt ends once |
| work control (same file) | operations with kind, attempt, state | steer, interrupt, cancel, retry, worker outcome, acknowledge, expire, reconcile_work_effect, switch off | commands racing start, lease and completion; acknowledgements late or missing | a command ends with its attempt; an accepted stop holds |
| turn ledger (`turns/idempotency.py`, `source_attribution.py`) | sources, tombstones with revisions, redactions, invalidations, reservations | record_source, reserve, complete, ambiguity, erase, forget, correct | late copies and answers of what was erased; closure over rows drawn from each other | erased stays erased; answers cite what is there; effects run once |
| source projections (`beliefs/source_projection.py`, `turns/source_vectors.py`) | claims, claim jobs, vector jobs, vector rows and their deletions | claim, ask, commit, finish; claim, check, insert, recheck, finish, cleanup | a model awaited between read and commit, two stores without a common transaction | nothing is restored by a late answer; what is marked projected can be found |
| events, outbox (`events/journal.py`, `projects/event_outbox.py`) | events, cursors, pending rows | append, read, acknowledge, redeliver | acknowledgement lost after the handler ran | every event is handled, in order |
| delivery (`delivery/bridge.py`, `rate_limiter.py`) | deliveries, slots | reserve, send, settle | ambiguous sends, limits at their edge | no double send, no slot leaked |
| initiatives, approvals, commitments, projects | rows with a lifecycle | create, decide, consume, expire, advance | decisions racing expiry | an approval is consumed once and before its expiry |
| everything else (memory, beliefs, cognition, API, tooling) | text, vectors, configuration | retrieval, generation, CRUD | not concurrent protocols | see section 8 |

How the modelled parts interact: the worker leases an action from the store,
validates its gate, consults the admission file, and asks the store to dispatch;
the store re-validates the gate inside the transaction and writes the GET-only
recovery contract. The worker then sends one PUT to the endpoint. Any doubt
after it is resolved by GETs, each journaled in the store before it is sent. An
answer is stored as acceptance, confirmed by another GET, verified, completed.
The scheduler is independent of that path: processes share its SQLite file, and
the autonomy loop calls its tick. The task queue is called by workers, operators, the
owner's approval handler and its own scheduler tick, all through one lock; the approval
store is a second database, written first. The turn ledger is written by the handlers of
`/turns/sync` and `/memory/sources/forget`; the projection workers lease jobs from it,
await a model outside any transaction and come back.

## 2. The modules

| module | models |
|---|---|
| `Clock` | the clock of the host, and the readings a transaction may carry |
| `OwnerGate` | the predicates of `gate.py` on a gate receipt |
| `ActionStore` | the store, one action per method, under arbitrary clients (`StoreSpec`) |
| `ActionLedger` | the endpoint under arbitrary clients (`LedgerSpec`) |
| `GovernedActions` | workers, wire, admission and endpoint composed on the store (`Spec`, `FairSpec`) |
| `OneMutation` | what the path promises: authorised once, performed at most once, confirmed only if performed |
| `AutonomyScheduler` | the scheduler's store and tick, operators and restarts (`SchedulerSpec`, `SchedulerFairSpec`) |
| `JobQueue` | `QueueManager` without the work control: rows, ledger of attempts, sweeps, approval handler, outbox, retention |
| `WorkControl` | the operators' commands and the evidence about effects, composed on `JobQueue` (`Spec`, `LiveSpec`) |
| `EffectOnce` | what the queue promises: another attempt is let loose only when each earlier one has been ruled out |
| `SourceLedger` | recording, reservation, erasure with its closure, correction of attribution |
| `SourceMemory` | the claim worker and the vector worker composed on `SourceLedger` (`Spec`, `FairSpec`) |
| `MC*` | instances for TLC: gate receipts, requests, symmetry |
| `*Proofs` | the theorems and their proofs |

**ActionStore.** A method is one `BEGIN IMMEDIATE` transaction, hence one action;
a refused call rolls back and is no step. The columns of `actions` are the
functions `state`, `attempts`, `created`, `nextAttempt`, `lease`; the receipts are
kept by kind (`gates`, `contracts`, `journal`, `receipts`). `now` is a parameter of
the actions because every method reads the clock before its transaction. The
reaper and the walk of `lease_dispatched_observation` end several rows at once, as
the code does. The clients hand the store the real gate validator.

**ActionLedger.** `handler` is the request inside the dispatch lock and the await
it is in; `row`, `bound` and `result` are durable, `handler` is not. `PerformEffect`
is the instant at which the effect exists, `PerformReturns` the return of the
await, so cancellation and crash may fall between them. `effects` counts real
effects and is read by no action. A cancelled or failed preparation, an approval
that lapsed during it, an unwinding effect, a `finish` that raises, and the sweep
of a restart are actions of their own.

**GovernedActions.** `worker[w]` holds the locals of `process_one` and the place it
is at; each step is one store transaction or one HTTP exchange, so workers
interleave between any two. A PUT sits on `wire` until it is handled or lost, and a
worker that waits for it may give up at any time. `WorkerCrash` kills a worker for
good: a restarted process has a fresh owner name and is another member of `Owners`.
`DatabaseBusy` is the exception that leaves `process_one` with the lease held.
`Verdict` reads off the durable row what the host knows, and with `effects` gives
the refinement mapping to `OneMutation`.

**AutonomyScheduler.** `row` is the table `schedules`, `attempt` joins the tables of
attempts and receipts (status "open" has no receipt), `runner` is the claim a
process holds while it awaits the callback. A token stands for lease token and
attempt id, both fresh uuid4 values. Times are compared through `Iso`, which writes
them the way `isoformat()` does. `Restart` runs the migrations again, as the
constructor does. `Upsert` takes objects the caller built itself.

**JobQueue.** Every mutating method runs under one lock and rolls back on an
exception, so it is one action; a sweep commits row by row, so it is an action on one
row. `status`, `hold`, `worker`, `attempt`, `proof` are columns and tags of `jobs`;
`of`, `by`, `started` read `job_audit`; `finding` is `work_effect_reconciliations`;
`events` and `delivered` are the outcome outbox. `due[j]` holds the bounds of a job that
have passed (lease, silence, timeout, deadline, approval): any may pass at any moment
while it applies. `writer[j]` is what a handler outside the lock is about to write; the
steps `Decide`, `ReadDependencies`, `ApplyDecision` are the owner's handler,
`PrepareEffectAuthority` the work-order adapter, `CrashHandler` their loss. `QueueInit`
includes rows of an older writer, queued or abandoned, with attempts that started. The
cascade of `unblock_ready_jobs` inside one pass is several passes here.

**WorkControl.** A request carries the revision of the projection its author read; one
that is stale changes nothing, so the actions are the requests on the current state.
`ops` is `work_control_operations`; its state "superseded" is split by cause (`lost`,
`overruled`, `inactive`) because the properties tell them apart.
`reconcile_stale_work_controls` repairs rows that `PendingOnActive` shows not to exist,
and is no action.

**SourceLedger and SourceMemory.** An envelope is what a host submits: turn id, contact,
session, kind, messages, and the sources its answer was written from. A version of a
source is its envelope with the messages it still has. `Erasing` and the closure remove
rows one by one in any order, as the loop in the code follows them, and every end state
is considered. Claim workers read the message and the earlier claims, wait for a model
and commit what it answers, correcting, inheriting or restating a claim; vector workers
check, insert, check again and finish. A worker may be killed or late at every step, and
a lease lapses under a late one. `Cleanup` is the deletion of vector rows that follows an
erasure, and may come late. A vector row is its turn, its message and its `ScopeKey`
(contact, scope, session), which the projection id of the code is a hash of: a row of a
source that was moved, or recorded again in another session, is another row.

## 3. The runs

Passing runs finish within three minutes each on two workers.

| run | question | result |
|---|---|---|
| `store` | do I3-I10 hold if any owner calls any method at any time, with stale readings and misleading gate receipts? | holds |
| `store_wait` | does a dispatch commit only while its gate is live? | violated by the wait for the lock (section 7) |
| `governed` | one PUT, one effect, a valid journal and a truthful ledger over two workers that crash, lose messages, read the clock early or meet a busy database; does the composition implement `OneMutation`? | holds |
| `governed_live` | is a dispatched action accepted or failed in the end? | holds |
| `scheduler` | leases, receipts, cadence and failure counts under two processes, operators, cancellation and restarts; does every run get its receipt although its process died? | holds |
| `scheduler_operator` | does a disabled schedule stay disabled? | violated for degraded schedules (section 7) |
| `control` | one effectful job, its worker, sweeps, verifier and two operators' commands in any order: no blind retry, commands and outcomes end once, stops hold, nothing open is pruned, ended jobs stay ended? | holds |
| `queue_pair` | an old row with a started attempt and a job that depends on it, with an approval handler outside the lock: approved and dependency first; does the queue implement `EffectOnce`? | holds |
| `queue_live` | does every attempt end, every command get an outcome, every decision reach its row? | holds |
| `queue_proof` | is an unspent negative finding kept from pruning? | violated after a second finding (section 7) |
| `sources` | a turn, a checkpoint that repeats it, an answer drawn from both, and a second envelope under the first id, drafted, delivered, erased, corrected, and read by a claim worker: does what was erased stay erased, do late answers restore nothing, do effects run once? | holds |
| `source_vectors` | two vector workers, one of them killed, over an imported message and a checkpoint that are erased, redacted or moved: can what is marked projected be found, and is every source left projected in the end? | holds |

Each property of a passing run has a mutant: a definition changed the way a
plausible bug would change the code, under which TLC finds the property violated.
The mutants stand beside the definitions they change, marked "Mutant".

## 4. Bounds and abstractions

* `Horizon` bounds the clock, `MaxWait` the wait between a reading and its commit.
  Leases, windows and intervals are one to three units, so that within the horizon
  a lease expires, is taken over and expires again, a contract reaches its deadline
  with budget left and its budget before the deadline, and a schedule completes
  twice.
* One action is enough for the properties of a row; that the sweeps end several rows
  rightly is proved for any number (section 6). Two owners or processes are the smallest number
  that can disagree about a lease; three tokens allow an abandoned run, the one
  that recovers it, and a third.
* `MaxCrashes` bounds the crashes of the endpoint; the theorems about the ledger have
  no bound.
* `MaxAttempts` bounds the claims of the queue, `OpIds` the commands: two attempts are
  the least that can repeat an effect, three let an old attempt be followed by a claim of
  each of two jobs; two commands are the least that can overrule each other. `Passing`
  names the bounds that may pass in an instance.
* `Selections` are the sets of sources one request may erase or move: each alone, and two
  together, so that a closure starts from two rows. One correction (`OpIds`) is enough to
  move a source under a late worker; a source moved there and back is covered by the
  theorems, which have any number of corrections.
* Gate receipts come from a small menu: one that authorises, one whose grant ends
  before its common expiry, one that claims a method its shape may not.
* Digests, payloads and evidence are model values: a digest is the key of the gate
  the request pins; evidence of the endpoint is its `observed_at`, which is what
  tells two results apart.
* Gates, contracts and journal are kept apart from the generic receipts because their
  kinds are reserved. A generic receipt put under the key of a later contract or
  observation would only make that call fail, and no client in the repository writes one.
* The wall clock does not step back. In the scheduler one unit is half a second, so
  that times with and without a fraction occur; all schedules have one interval;
  ties between due schedules, which the code breaks by name, are left open.
* A reading of the clock is never older than the reading the same worker or process
  took before.

## 5. Fairness

`governed_live` assumes that time passes and that one worker keeps calling
`process_one` and neither dies nor finds the database busy: the host's loop does
nothing else. Nothing is assumed of the endpoint, the network, the other worker or
the ingress, because the code bounds the doubt without them: every call of the
client has a timeout, and the contract has a deadline and a budget.

`scheduler` assumes for `AttemptResolved` that time passes and that one process keeps ticking and
its callbacks return or raise; the code awaits a callback without a timeout, so a
process whose callback hangs is not one of the survivors. `AttemptResolved` excuses
a run whose schedule was disabled (the disabled row is not claimed again; a disable
by the operator writes the receipt itself, one by `upsert` does not), and the ends of
the instance: no unused token, or a lease that ends after the horizon.

`queue_live` assumes that time passes and that the scheduler of the queue keeps ticking:
its loop catches every exception and sleeps. Fair are the sweeps that end attempts
(timeouts, silence, lapsed claims), the sweep that repairs approval holds and the one that
expires commands. Nothing is asked of workers, operators or owners.

`source_vectors` assumes that one vector worker survives, that a job it could claim again
and again it claims (its loop takes the oldest job that is due), and that its embedding
calls fail only finitely often (a job is put back on every failure, without a limit of
its own). Nothing is assumed of the claim worker: its model may answer wrongly for ever.

## 6. Proofs

TLAPS checks every theorem to the last leaf. The constants carry only named
assumptions (`ClockAssumption`, `GateAssumption`, `StoreAssumption`,
`LedgerAssumption`, `WorkerAssumption`, `SchedulerAssumption`, `QueueAssumption`,
`SourceAssumption`, `MemoryAssumption`, and `PowersOfTwo` for the exponents 0 to 30 of the
retry delay, since the provers do not compute powers). They say that sets the code keeps
finite are finite (the messages of an envelope, the turns), that a gate exists, that
what stands for "nothing" is no value, and that an answer cites turns; none limits how
many there are or what they hold.

* **`ActionStoreProofs`.** `StoreInv` is the conjunction of the store's seven
  invariants, and it is inductive as a whole though its parts are not: that a gate
  cannot be added once a contract exists needs `AuthoritySpentOnce` (a gated row has
  no contract), that an acceptance keeps its witness needs the typing of receipts,
  that a sweep dead-letters exactly what it fails needs `LeasesOnLiveRows` (only live
  rows are leased). One lemma per method; the sweeps share `TerminalizeInv`. The
  action properties follow from lemmas that say which rows a call touches.
* **`ActionLedgerProofs`.** The invariant adds to the typing that the row of the
  handler's request is in the state the handler expects, bound to that request, with
  an effect exactly when the handler is past it (`HandlerOwnsRow`), and that rows that
  are not started or failed have no effect; `PerformedAtMostOnce` alone is not
  inductive, since it does not rule out a second `PerformEffect`.
* **`AutonomySchedulerProofs`.** `SchedulerInv` is typing, `OpenAttemptIsLeased`,
  `LeaseIsOpenAttempt`, and two strengthenings: `Paced` (next_run lies at least the
  interval after last_run) and `HeldRuns` (the run a process holds was claimed, and
  while its schedule is leased to it, the schedule was due when it was claimed).
  `CadenceHeld` needs both: a completion comes no earlier than the claim, the claim
  no earlier than next_run. `IsoOrder` shows that the order of the texts is the order
  of the times, which is what lets every guard be read as a comparison of instants.

* **`WorkControlProofs`.** `QueueInv` holds the four safety properties `NoBlindRetry`,
  `ApprovedFirst`, `PendingOnActive` and `EndedStaysEnded`, and from it the queue is shown
  to implement `EffectOnce`, for any jobs, workers, operators, dependencies, retries and old
  rows. `NoBlindRetry` alone is not inductive: the start of an attempt reads the row and not
  the ledger, so `ClaimIsFresh` carries what the claim found in the ledger to the start: the
  claimed attempt is the newest of its job, has not started, and nothing earlier is open.
  `ApprovedFirst` needs `RetiredOrNew` (an id without row and tombstone has no attempts),
  because posting an id resets its approval. All but four kinds of step are `Quiet`
  (`StepKinds`): they write nothing to the ledger, claim no row, and leave pending only what
  was pending on attempts that go on. In the refinement a start is `LetLoose`, a negative
  finding `RuleOut`, and every other step a stutter.

* **`QueueOutcomeProofs`.** `OutcomeInv`, on top of `QueueInv`, gives `OutcomeOnce`,
  `AttestedIsDone` and `NothingOpenIsPruned`. One outcome per attempt is not inductive: a
  report writes an event without a look at the outbox. It needs that the attempt in hand
  has no event yet (`InHandIsOpen`), and that a quarantine, which closes an attempt that
  is no longer in hand, finds one that has neither been reported complete
  (`ReportedStays`) nor failed (`FailedBeforeStart`: an effectful attempt fails without a
  doubt only before it started). `OpenIsHeld` says that what is open about an
  effect is visible in its row, the only thing `prune_old_jobs` reads.
* **`QueueGateProofs`.** Claim and start do not read the dependencies, so `GateInv` carries
  `DependenciesFirst` from where they are read: the rows past that gate are the queued ones,
  those on a hold that only such rows are put on, and those a handler outside the lock is
  about to queue. It is stable because a completed job stays completed, pruned or not.
  `StopInv` says that an attempt with a pending stop has not started since, and that a
  stop which ended as applied or lost has ended its attempt.
* **`GovernedActionsProofs`.** A step of the composed system is a step of the store and a
  step of the endpoint (`StoreSteps`, `LedgerSteps`), so `StoreSpec` and `LedgerSpec` are
  implemented and their theorems carry over. `GovInv` adds what relates the three: the
  place of each worker says what is true of the row it leased (`WorkersOK`); at most one
  worker is about to send for an action, also after its lease has passed to another
  (`OneSender`), and no more PUTs were sent than attempts were spent (`PutsSpend`); what is
  on the wire or in the ledger belongs to a spent attempt (`WireSpent`, `RowsSpent`).
  `OnePut` needs all of them, since a worker sends without a look at the store. The refinement of `OneMutation`
  follows step by step: a dispatch is the authorisation, `PerformEffect` the effect, and
  the completion of an accepted row the confirmation.
* **`SourceMemoryProofs`.** The loop of `erase_sources` and the closure over answers in
  `correct` are recursive functions over rounds. Since induction over data is out of
  reach, a function that satisfies each recursion is first shown to exist, and what holds
  of all its values follows from the least round at which it would fail (`LeastNatural`).
  `LoopInv` holds of every state of the loop; each round removes a message, so within the
  number of rounds allowed nothing is left to remove. `MemoryInv` then needs
  `HashesAccounted` (a hash in a tombstone is in one of the same source and session)
  for `ErasedStaysErased`, `HandlersOK` (who reserved a turn id is the only handler it
  will have) for `EffectsMatchRecord`, `KeysUnique` for `RetractionHolds`. For
  `ProjectedInFull`, `VectorInv` says what a worker between two calls can rely on: what it
  writes is still what the source says or has been lost to an erasure or correction
  (`WritesFresh`), and while its lease stands the source is as it read it and all but what
  it has left to write is covered (`Covering`). A worker that lost its job keeps only the
  first half, which is why `_finish` must compare the token.

What the proofs changed. Three properties of the source ledger held on the small instances
for lack of a longer behaviour: `ErasedStaysErased` (a tombstone of one contact passes its
hashes on to a later one of another; an answer refused for what it cites), `AnswersCiteLiving`
(one tombstone per revision, whoever's), and `ProjectedInFull` (a turn id recorded again
after it was redacted to nothing, or moved there and back) now state the limits of the code
listed in section 7, and no more than those.

Some properties are proved and belong to no run: the type invariants,
`WitnessedAcceptance`, `LeasesOnLiveRows`, `HandlerOwnsRow`, `ResultsImmutable`,
`LeaseIsOpenAttempt`, which the instances would only repeat, and `EffectOnLiveApproval`,
whose approval outlives the preparation in the instances. The inductive invariants of the
compositions (`GovInv`, `GateInv`, `StopInv`, `OutcomeInv`, `MemoryInv`, `VectorInv`) hold
on the instances of the runs too.

Only model-checked: liveness (`DispatchResolved`, `AttemptResolved`, `AttemptEnds`,
`ControlEnds`, `DecisionLands`, `VectorsSettle`), which is out of the prover's reach; and
the three violations of section 7, which are counterexamples.

## 7. Where code and documents differ

* `store_wait`: `store.py` (I11) says the `now` handed to the gate validator is "read
  inside the transaction"; the methods read it before the transaction, which may wait
  for the thread lock and, up to the busy timeout, for SQLite's. A dispatch can commit
  after its gate expired, by at most that wait (`DispatchNearLiveGate`, proved).
* `scheduler_operator`: `register()` says that "operator-disabled state survive[s]
  re-registration", and `docs/phase-c-durable-scheduler.md` that an operator-disabled
  schedule remains disabled. Disabling keeps `degraded_reason`, and registering enables
  every row that has a repairable one, so a degraded schedule that was then disabled
  comes back at the next start.

* `queue_proof`: a retry that spends a negative finding marks the row as consumed, and the
  next negative finding leaves that mark. `prune_old_jobs`, which is to keep a negative
  finding until execution consumes it (`queue_manager.py:7914`), takes the old mark for the
  new finding's and retires the row with its proof unspent.

Behaviour of the source ledger that the properties state around, because the code means it
or has no other rule:

* The docstring of `idempotency.py` calls a turn whose process died ambiguous; a killed
  process leaves it `processing`, which nothing changes. The effects do not run again
  (`EffectsMatchRecord`), and every retry is told the turn is in progress.
* `correct` does not hold a moved source against the tombstones of its new contact, and a
  moved answer no longer follows its sources; the next erasure for that contact does.
* A source moved to another contact and back, while a worker deletes its first row, keeps a
  permanent deletion mark of that row's id and is found lexically only.
* `record_source` refuses an answer as soon as something it cites was erased, and leaves a
  tombstone with the answer's words, without a look at older sources that hold a copy of
  those words: they stay until they are erased themselves.
* `_append_erasure` gives a new tombstone the hashes of all earlier tombstones of the same
  source, those of another contact the source was moved from included.
* There is one tombstone per revision of a source, whichever contact it was left for, so a
  revision that was tombstoned for one contact loses messages for the next one without a
  trace an answer could be held against.
* A worker killed between insert and recheck may leave a row of an erased source in the
  vector store; reads drop it (`hydrate`), and the properties are about what reads return.
* A turn id whose source was redacted to nothing, and not erased as a whole, may be recorded
  again. Its vector row may then meet the deletion mark of the row it had before.

The receipt status `lease_lost` is never the first receipt of an attempt: whoever
takes a lease away writes a receipt first, so the late completion's insert is ignored.

## 8. What is not modelled

* Validation and canonical JSON (`intent.py`, `catalog.py`, `contract.py`), the text
  checks of gate receipts, TLS and the limits of the client, the parsing of the
  admission file: functions of one record without state. Their verdicts enter as
  `EnabledTools`, `binds`, and the switch `admitted`.
* The events table and the projection of results into bounded receipts: nothing reads
  them back to decide.
* The ten subsystem effects behind the endpoint: one step, because only that it
  happens, and when, is told apart.
* An accepted action whose confirming GET never succeeds is deferred without end; the
  code sets no bound, so no liveness is claimed for it.
* A hung effect holds the endpoint's one lock for good; no progress of the endpoint is
  assumed.
* A schedule that `upsert` disables while the owner of its run is dead keeps the open
  run until it is enabled again.
* Of the queue: rewrites of job types and routes at start-up, the relay canary, statistics,
  the governor's trust ledger (its answer is any of its holds), the job handlers.
* Of the turn ledger: media, annotations, cached responses, the lexical index, the cursor and
  snapshot of the history importer; of the projections: judgments, appraisals, perspective,
  ranking, time queries, generations of the vector index.
* Turn executions, event journal, project outbox, delivery bridge, approval authority and
  commitments: stores of the same kind, left to the plan.
* Memory retrieval, world model, cognition, reasoning, self model: retrieval,
  scores and language-model calls. Set-up, backup and doctor: operator tooling. Plugins:
  adapters.

## 9. The plan

1. Done: the governed action path with `OneMutation`; `AutonomyScheduler`; `JobQueue` and
   `WorkControl` with `EffectOnce`; `SourceLedger` and `SourceMemory`; the safety proofs of
   all of them, with both refinements.
2. Proofs that are left: that a source recorded, erased and recorded again under one id is
   projected again where no deletion mark stands in the way; an abstract specification of
   the ledger of sources (what a contact can still be told) with its refinement.
3. `ApprovalAuthority`: decisions, consumption and expiry, in place of the answers
   `JobQueue` takes from `Resolve`; then the project outbox, the delivery bridge and
   commitments.
