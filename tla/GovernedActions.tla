-------------------------- MODULE GovernedActions --------------------------
(***************************************************************************)
(* The governed-action path end to end: host workers                       *)
(* (hostworker/pacomind_hostworker/worker.py, process_one) on a shared     *)
(* ActionStore, the HTTP exchange with the endpoint (client.py), and the   *)
(* endpoint's ActionLedger.                                                *)
(*                                                                         *)
(* A worker's pass is a sequence of store transactions and HTTP calls; one *)
(* step here is one of them, so workers interleave between any two.  A     *)
(* worker may stall anywhere (the clock runs on) or die for good: a        *)
(* restarted process has a fresh owner name, another member of Owners.     *)
(***************************************************************************)
EXTENDS ActionStore, ActionLedger

CONSTANTS
    EnabledTools,  \* the actions whose tool each worker is configured for
    Survivors,     \* workers that neither crash nor find the database busy
    NoAction,
    NoGate

\* The execution request a worker builds; its digest pins the consumed gate.
RequestOf(a, g) ==
    [action |-> a, digest |-> g.key, decided |-> g.decided, expires |-> g.expires]

ASSUME WorkerAssumption ==
    /\ EnabledTools \in [Owners -> SUBSET Actions]
    /\ Survivors \subseteq Owners
    /\ NoAction \notin Actions
    /\ NoGate \notin GateMenu /\ GateMenu # {}
    /\ Requests = {RequestOf(a, g) : a \in Actions, g \in GateMenu}
    /\ ReceiptKeys = {"acceptance", "verification"}
    /\ Evidence = 1..Horizon

VARIABLES
    worker,    \* each worker's local variables and place in process_one
    earliest,  \* the oldest clock reading each worker's next call may carry
    wire,      \* PUTs sent and neither handled nor lost
    admitted,  \* the dispatch admission file admits this host
    puts       \* PUTs ever sent for each action (history)

vars == <<clock, storeVars, ledgerVars, worker, earliest, wire, admitted, puts>>

\* The top of process_one: no local variable is set.
AtTop(label) ==
    [at |-> label, action |-> NoAction, from |-> "absent", gate |-> NoGate,
     attempt |-> 0, observed |-> 0]

Init ==
    /\ StoreInit
    /\ LedgerInit
    /\ worker = [w \in Owners |-> AtTop("recover")]
    /\ earliest = [w \in Owners |-> 1]
    /\ wire = {}
    /\ admitted \in BOOLEAN
    /\ puts = [a \in Actions |-> 0]

-----------------------------------------------------------------------------
(* A worker's control.                                                     *)

At(w, label) == worker[w].at = label

\* Mutant: a call carries a clock reading cached before the previous one.
NowCached(w) == Readings

\* A call reads the clock after the worker's previous call returned.
Now(w) == {t \in Readings : earliest[w] <= t}

Become(w, local) ==
    /\ worker' = [worker EXCEPT ![w] = local]
    /\ earliest' = [earliest EXCEPT ![w] = clock]

Goto(w, label) == Become(w, [worker[w] EXCEPT !.at = label])

\* process_one returns; the host loop calls it again.
Return(w) == Become(w, AtTop("recover"))

RequestIn(w) == RequestOf(worker[w].action, worker[w].gate)

Digest(w) == worker[w].gate.key

-----------------------------------------------------------------------------
(* _lease: reap, then look for the work that is furthest along.            *)

Recover(w, now) ==
    /\ At(w, "recover")
    /\ RecoverExpiredLeases(Actions, now)
    /\ Goto(w, "lease_verified")

\* process_one keeps the row as it was when leased.
Take(w, a) == Become(w, [worker[w] EXCEPT !.at = "check", !.action = a, !.from = state[a]])

LeaseInState(w, label, s, next, now) ==
    /\ At(w, label)
    /\ \/ \E a \in Actions : LeaseNext(a, w, {s}, Actions, now) /\ Take(w, a)
       \/ LeaseNone({s}, Actions, now) /\ Goto(w, next)

LeaseObservation(w, now) ==
    /\ At(w, "lease_dispatched")
    /\ \/ \E a \in Actions : LeaseDispatchedObservation(a, w, Actions, now) /\ Take(w, a)
       \/ ObservationLeaseNone(Actions, now) /\ Goto(w, "lease_gated")

Lease(w, now) ==
    \/ Recover(w, now)
    \/ LeaseInState(w, "lease_verified", "verified", "lease_accepted", now)
    \/ LeaseInState(w, "lease_accepted", "accepted", "lease_dispatched", now)
    \/ LeaseObservation(w, now)
    \/ LeaseInState(w, "lease_gated", "gated", "recover", now)

-----------------------------------------------------------------------------
(* Before the dispatch.  The store is read, not written.                   *)

\* _parse and _validate_gate, on the receipts and the clock of this moment.
Valid(w, g) ==
    /\ worker[w].action \in EnabledTools[w]
    /\ gates[worker[w].action] = {g}
    /\ ValidateOwnerGate(worker[w].action, g, clock)

\* Where process_one goes on with a valid row, by the state it was leased in.
Resume(s) ==
    CASE s = "gated"      -> "admission"
      [] s = "dispatched" -> "observe"
      [] s = "accepted"   -> "confirm"
      [] s = "verified"   -> "complete"

CheckPasses(w) ==
    /\ At(w, "check")
    /\ \E g \in gates[worker[w].action] :
         /\ Valid(w, g)
         /\ ~(worker[w].from = "gated" /\ GateExpired(g, clock))
         /\ Become(w, [worker[w] EXCEPT !.at = Resume(worker[w].from), !.gate = g])

\* invalid_governed_action, or owner_approval_expired on a gated row.
CheckFails(w) ==
    /\ At(w, "check")
    /\ \A g \in gates[worker[w].action] :
         ~Valid(w, g) \/ (worker[w].from = "gated" /\ GateExpired(g, clock))
    /\ Goto(w, "fail")

\* The operator's kill-switch, consulted before the gate is consumed.
Admission(w) ==
    /\ At(w, "admission")
    /\ Goto(w, IF admitted THEN "dispatch" ELSE "defer")

Check(w) ==
    /\ CheckPasses(w) \/ CheckFails(w) \/ Admission(w)
    /\ UNCHANGED storeVars

\* defer_leased, or its refusal.
Defer(w, now) ==
    /\ At(w, "defer")
    /\ \/ DeferLeased(worker[w].action, w, now)
       \/ ~MayDefer(worker[w].action, w, now) /\ UNCHANGED storeVars
    /\ Return(w)

\* _fail: fail_attempt, or its refusal.
Fail(w, now) ==
    /\ At(w, "fail")
    /\ \/ FailAttempt(worker[w].action, w, now)
       \/ ~MayFail(worker[w].action, w, now) /\ UNCHANGED storeVars
    /\ Return(w)

-----------------------------------------------------------------------------
(* The dispatch and the one PUT.                                           *)

\* Any exception of the call, a refusal or a busy database, fails the action.
Dispatch(w, now) ==
    LET a == worker[w].action
        g == worker[w].gate
    IN
    /\ At(w, "dispatch")
    /\ \/ BeginOwnerAuthorizedDispatch(a, w, g, now) /\ Goto(w, "put")
       \/ UNCHANGED storeVars /\ Goto(w, "fail")

Put(w) ==
    /\ At(w, "put")
    /\ wire' = wire \cup {<<w, RequestIn(w)>>}
    /\ puts' = [puts EXCEPT ![worker[w].action] = @ + 1]
    /\ Goto(w, "await")

\* Mutant: any answered state of the request counts as completed.
AnsweredAtAll(w) ==
    row[worker[w].action] # "none" /\ bound[worker[w].action] = RequestIn(w)

\* The endpoint has answered a completed result for exactly this request.
Completed(w) ==
    row[worker[w].action] = "completed" /\ bound[worker[w].action] = RequestIn(w)

See(w, label) ==
    Become(w, [worker[w] EXCEPT !.at = label, !.observed = result[worker[w].action]])

PutAnswered(w) ==
    /\ At(w, "await")
    /\ <<w, RequestIn(w)>> \notin wire
    /\ Completed(w)
    /\ See(w, "accept")

\* Mutant: an unresolved PUT is sent again.
PutAgain(w) ==
    /\ At(w, "await")
    /\ Goto(w, "put")

\* Timeout, connection error, an error status, or a result that is not
\* completed.  The endpoint may still handle the request later.
PutUnresolved(w) ==
    /\ At(w, "await")
    /\ Goto(w, "observe")

-----------------------------------------------------------------------------
(* _observe_dispatched: one durable GET attempt.                           *)

Observe(w, now) ==
    LET a == worker[w].action IN
    /\ At(w, "observe")
    /\ \/ /\ BeginDispatchedObservation(a, w, Digest(w), now)
          /\ Become(w, [worker[w] EXCEPT !.at = "get", !.attempt = Len(journal[a]) + 1])
       \/ /\ ObservationRefused(a, w, Digest(w), now)
          /\ Return(w)
       \/ /\ ~MayObserve(a, w, Digest(w), now)
          /\ UNCHANGED storeVars
          /\ Goto(w, "reread")

\* GET succeeds only against a running endpoint; it may fail at any time.
GetAnswered(w) ==
    /\ At(w, "get")
    /\ handler # Down
    /\ Completed(w)
    /\ See(w, "accept")

GetUnresolved(w) ==
    /\ At(w, "get")
    /\ Goto(w, "unresolved")

DeferObservation(w, now) ==
    LET a == worker[w].action
        n == worker[w].attempt
    IN
    /\ At(w, "unresolved")
    /\ \/ DeferDispatchedObservation(a, w, Digest(w), n, now) /\ Return(w)
       \/ DeferralExhausted(a, w, Digest(w), n, now) /\ Return(w)
       \/ /\ ~MayDeferObservation(a, w, Digest(w), n, now)
          /\ UNCHANGED storeVars
          /\ Goto(w, "reread")

-----------------------------------------------------------------------------
(* Acceptance, verification, completion.                                   *)

AcceptExecution(w, now) ==
    LET a == worker[w].action
        e == worker[w].observed
    IN
    /\ At(w, "accept")
    /\ \/ Accept(a, w, "acceptance", e, now) /\ Goto(w, "confirm")
       \/ /\ ~MayAccept(a, w, "acceptance", e, now)
          /\ UNCHANGED storeVars
          /\ Goto(w, "reread")

\* _current: a refused call re-reads the row, which another worker may have
\* taken forward meanwhile.
Reread(w) ==
    /\ At(w, "reread")
    /\ UNCHANGED storeVars
    /\ CASE state[worker[w].action] = "accepted" -> Goto(w, "confirm")
         [] state[worker[w].action] = "verified" -> Goto(w, "complete")
         [] OTHER -> Return(w)

\* The GET that verifies: the endpoint still says what was accepted.
Confirmed(w) ==
    /\ handler # Down
    /\ Completed(w)
    /\ receipts[worker[w].action]["acceptance"]
         = Acceptance(result[worker[w].action])

Confirm(w) ==
    /\ At(w, "confirm")
    /\ \/ Confirmed(w) /\ See(w, "verify")
       \/ Goto(w, "defer")

VerifyExecution(w, now) ==
    LET a == worker[w].action
        e == worker[w].observed
    IN
    /\ At(w, "verify")
    /\ \/ Verify(a, w, "verification", e, {"acceptance"}, now) /\ Goto(w, "complete")
       \/ /\ ~MayVerify(a, w, "verification", e, {"acceptance"}, now)
          /\ UNCHANGED storeVars
          /\ Return(w)

CompleteAction(w, now) ==
    LET a == worker[w].action IN
    /\ At(w, "complete")
    /\ \/ Complete(a, w, now)
       \/ ~MayComplete(a, w, now) /\ UNCHANGED storeVars
    /\ Return(w)

-----------------------------------------------------------------------------
(* The workers' steps, by what they touch.                                 *)

\* One store transaction.
StoreCall(w, now) ==
    \/ Lease(w, now)
    \/ Defer(w, now)
    \/ Fail(w, now)
    \/ Dispatch(w, now)
    \/ Observe(w, now)
    \/ DeferObservation(w, now)
    \/ AcceptExecution(w, now)
    \/ VerifyExecution(w, now)
    \/ CompleteAction(w, now)

\* One look at the store, the admission file or the endpoint.
Look(w) ==
    \/ Check(w)
    \/ Reread(w)
    \/ /\ PutAnswered(w) \/ PutUnresolved(w) \/ GetAnswered(w) \/ GetUnresolved(w) \/ Confirm(w)
       /\ UNCHANGED storeVars

WorkerStep(w) ==
    /\ \/ \E now \in Now(w) : StoreCall(w, now) /\ UNCHANGED <<wire, puts>>
       \/ Look(w) /\ UNCHANGED <<wire, puts>>
       \/ Put(w) /\ UNCHANGED storeVars
    /\ UNCHANGED <<clock, ledgerVars, admitted>>

\* SQLite's busy timeout runs out in a store call: sqlite3.OperationalError is
\* no ActionStoreError, leaves process_one and finds the lease still held.
DatabaseBusy(w) ==
    /\ w \notin Survivors
    /\ worker[w].at \in {"defer", "fail", "observe", "unresolved", "accept", "verify", "complete"}
    /\ Return(w)
    /\ UNCHANGED <<clock, storeVars, ledgerVars, wire, admitted, puts>>

\* The process dies; nothing of it comes back.
WorkerCrash(w) ==
    /\ w \notin Survivors
    /\ worker[w].at # "dead"
    /\ Become(w, AtTop("dead"))
    /\ UNCHANGED <<clock, storeVars, ledgerVars, wire, admitted, puts>>

-----------------------------------------------------------------------------
(* The surroundings.                                                       *)

\* The host's ingress proposes actions and attaches the owner's gate receipts.
Ingress ==
    /\ \E now \in Readings, a \in Actions :
          Propose(a, now) \/ \E g \in GateMenu : AttachGate(a, g)
    /\ UNCHANGED <<clock, ledgerVars, worker, earliest, wire, admitted, puts>>

\* The operator admits or stops the host's dispatches.
SwitchAdmission ==
    /\ admitted' = ~admitted
    /\ UNCHANGED <<clock, storeVars, ledgerVars, worker, earliest, wire, puts>>

\* The endpoint takes a PUT off the wire once the dispatch lock is free.
Arrive ==
    /\ \E m \in wire, now \in Readings :
          Arrivals(m[2], now) /\ wire' = wire \ {m}
    /\ UNCHANGED <<clock, storeVars, worker, earliest, admitted, puts>>

Lose ==
    /\ \E m \in wire : wire' = wire \ {m}
    /\ UNCHANGED <<clock, storeVars, ledgerVars, worker, earliest, admitted, puts>>

Endpoint ==
    /\ \E now \in Readings : Serving(now)
    /\ UNCHANGED <<clock, storeVars, worker, earliest, wire, admitted, puts>>

\* A worker's next reading is never older than MaxWait.
Pass ==
    /\ Tick
    /\ earliest' = [w \in Owners |->
                       IF earliest[w] + MaxWait >= clock' THEN earliest[w] ELSE clock' - MaxWait]
    /\ UNCHANGED <<storeVars, ledgerVars, worker, wire, admitted, puts>>

Next ==
    \/ \E w \in Owners : WorkerStep(w) \/ DatabaseBusy(w) \/ WorkerCrash(w)
    \/ Ingress
    \/ SwitchAdmission
    \/ Arrive
    \/ Lose
    \/ Endpoint
    \/ Pass

Spec == Init /\ [][Next]_vars

\* The host loop keeps calling process_one in the processes that live, whose
\* HTTP calls end by their socket timeout, and time passes.  Nothing is asked
\* of the endpoint, the network, the ingress or the operator.
Fairness == WF_vars(Pass) /\ \A w \in Survivors : WF_vars(WorkerStep(w))

FairSpec == Spec /\ Fairness

-----------------------------------------------------------------------------
(* Properties.                                                             *)

\* What the host knows of an action, read off its durable row.
Verdict(a) ==
    CASE state[a] \in {"absent", "proposed", "gated"}        -> "open"
      [] state[a] \in {"dispatched", "accepted", "verified"} -> "authorized"
      [] state[a] = "completed"                              -> "confirmed"
      [] state[a] = "failed" /\ attempts[a] = 0              -> "refused"
      [] OTHER                                               -> "ambiguous"

Abstract == INSTANCE OneMutation WITH
    verdict <- [a \in Actions |-> Verdict(a)],
    performed <- effects

\* The workers, the store, the network and the endpoint together implement
\* one-mutation-at-most.
ImplementsOneMutation == Abstract!Spec

\* worker.py: "a mutation is NEVER retried after dispatch": one PUT per
\* action over all workers, crashes and restarts.
OnePut == \A a \in Actions : puts[a] <= 1

\* What the store accepted is what the endpoint's ledger says for good: the
\* same completed result, of exactly one effect.
AcceptedIsTrue ==
    \A a \in Actions :
        state[a] \in {"accepted", "verified", "completed"} =>
            /\ row[a] = "completed" /\ effects[a] = 1
            /\ receipts[a]["acceptance"] = Acceptance(result[a])

\* Real workers never write an observation journal the store must call
\* corrupt, although each attempt carries its own clock reading.
JournalStaysValid == \A a \in Actions : \A c \in contracts[a] : JournalValid(a, c)

\* Whatever the network and the endpoint do, a dispatched action does not stay
\* in doubt: it is accepted or ends as failed within its contract's bounds.
DispatchResolved ==
    \A a \in Actions :
        state[a] = "dispatched" ~> state[a] \in {"accepted", "verified", "completed", "failed"}
=============================================================================
