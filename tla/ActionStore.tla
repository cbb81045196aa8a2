---------------------------- MODULE ActionStore ----------------------------
(***************************************************************************)
(* The durable action store of the governed host worker                    *)
(* (hostworker/pacomind_hostworker/sqlite_store.py, its contract in        *)
(* store.py).  Every method is one BEGIN IMMEDIATE transaction, so every   *)
(* method is one action here; a refused call rolls back and is no step.    *)
(* The parameter `now' of an action is the clock reading the method took   *)
(* before its transaction (see Clock).                                     *)
(*                                                                         *)
(* StoreSpec is the store under arbitrary clients: any owner calls any     *)
(* method at any time.  GovernedActions runs the real worker on it.        *)
(***************************************************************************)
EXTENDS Clock, OwnerGate, Sequences

CONSTANTS
    Owners,             \* lease owners, one per worker process
    NoOwner,
    GateMenu,           \* the gate receipts ingress may attach
    ReceiptKeys,        \* keys of generic receipts
    Evidence,           \* contents of generic receipts
    NoReceipt,
    LeaseSeconds,
    RetrySeconds,       \* the delay a deferring caller asks for
    ObservationWindow,  \* observation_window_seconds
    MaxObservations     \* max_observations

ASSUME StoreAssumption ==
    /\ NoOwner \notin Owners
    /\ GateMenu \subseteq GateReceipts
    /\ NoReceipt \notin [status : {"noted", "accepted", "verified"}, evidence : Evidence]
    /\ LeaseSeconds \in Nat \ {0}
    /\ RetrySeconds \in Nat \ {0}
    /\ ObservationWindow \in Nat \ {0}
    /\ MaxObservations \in Nat \ {0}

VARIABLES
    state,        \* actions.state; "absent" before the row exists
    attempts,     \* actions.attempt_count
    created,      \* actions.created_at
    nextAttempt,  \* actions.next_attempt_at
    lease,        \* actions.lease_owner and lease_expires_at
    gates,        \* receipts of kind "gate"
    contracts,    \* receipts of kind "dispatch_recovery"
    journal,      \* receipts of kind "dispatch_observation": their started_at
    receipts,     \* every other receipt, by key
    deadLetters   \* actions with a dead_letters row

storeVars == <<state, attempts, created, nextAttempt, lease, gates, contracts,
               journal, receipts, deadLetters>>

States == {"absent", "proposed", "gated", "dispatched", "accepted", "verified",
           "completed", "failed"}

TerminalStates == {"completed", "failed"}

LeaseableStates == {"gated", "accepted", "verified"}

\* max_attempts: propose writes 1 and the schema's CHECK pins it.
MaxAttempts == 1

NoLease == [owner |-> NoOwner, expires |-> 0]

Leases == [owner : Owners, expires : Nat] \cup {NoLease}

Receipts == [status : {"noted", "accepted", "verified"}, evidence : Evidence]

\* A GET-only recovery contract.  Its execution digest stands for the gate it
\* consumed: the request pins the action and the gate's evidence hash.
Contracts == [digest : GateKeys, issued : Nat, deadline : Nat]

StoreInit ==
    /\ ClockInit
    /\ state = [a \in Actions |-> "absent"]
    /\ attempts = [a \in Actions |-> 0]
    /\ created = [a \in Actions |-> 0]
    /\ nextAttempt = [a \in Actions |-> 0]
    /\ lease = [a \in Actions |-> NoLease]
    /\ gates = [a \in Actions |-> {}]
    /\ contracts = [a \in Actions |-> {}]
    /\ journal = [a \in Actions |-> << >>]
    /\ receipts = [a \in Actions |-> [k \in ReceiptKeys |-> NoReceipt]]
    /\ deadLetters = {}

-----------------------------------------------------------------------------
(* Ingress.                                                                *)

\* A second propose with the same idempotency key returns the first row.
Propose(a, now) ==
    /\ state[a] = "absent"
    /\ state' = [state EXCEPT ![a] = "proposed"]
    /\ created' = [created EXCEPT ![a] = now]
    /\ nextAttempt' = [nextAttempt EXCEPT ![a] = now]
    /\ UNCHANGED <<attempts, lease, gates, contracts, journal, receipts, deadLetters>>

\* Mutant: the state check is dropped, so evidence joins a row at any time.
AttachGateAnyTime(a, g) ==
    /\ state[a] # "absent"
    /\ \A h \in gates[a] : h.key # g.key
    /\ gates' = [gates EXCEPT ![a] = @ \cup {g}]
    /\ state' = [state EXCEPT ![a] = IF @ = "proposed" THEN "gated" ELSE @]
    /\ UNCHANGED <<attempts, created, nextAttempt, lease, contracts, journal,
                   receipts, deadLetters>>

\* gate(): the store records the evidence and does not judge it.  A gated
\* action takes further receipts under other keys; a key is written once.
AttachGate(a, g) ==
    /\ state[a] \in {"proposed", "gated"}
    /\ \A h \in gates[a] : h.key # g.key
    /\ gates' = [gates EXCEPT ![a] = @ \cup {g}]
    /\ state' = [state EXCEPT ![a] = "gated"]
    /\ UNCHANGED <<attempts, created, nextAttempt, lease, contracts, journal,
                   receipts, deadLetters>>

\* _insert_receipt: the same receipt again is a no-op, another one under the
\* same key is ActionIdempotencyConflict.
Insertable(a, k, r) == receipts[a][k] \in {NoReceipt, r}

\* The caller names the status, so a receipt may look like an acceptance.
AddReceipt(a, k, r) ==
    /\ state[a] # "absent"
    /\ receipts[a][k] = NoReceipt
    /\ receipts' = [receipts EXCEPT ![a][k] = r]
    /\ UNCHANGED <<state, attempts, created, nextAttempt, lease, gates, contracts,
                   journal, deadLetters>>

-----------------------------------------------------------------------------
(* Leases and their recovery.                                              *)

\* _require_lease
HoldsLease(a, o, now) == lease[a].owner = o /\ lease[a].expires > now

LeaseExpired(a, now) == lease[a].owner # NoOwner /\ lease[a].expires <= now

\* _dispatch_observation_attempts raises unless every attempt started between
\* the contract's issue and its deadline.
JournalValid(a, c) ==
    \A i \in DOMAIN journal[a] : c.issued <= journal[a][i] /\ journal[a][i] <= c.deadline

\* The one contract of the action still grants a GET.
Observable(a, c, now) ==
    /\ contracts[a] = {c}
    /\ JournalValid(a, c)
    /\ now < c.deadline
    /\ Len(journal[a]) < MaxObservations

HasBudget(a, now) == \E c \in contracts[a] : Observable(a, c, now)

\* Mutant: the reaper overlooks dispatched rows.
ReapedUndispatched(scope, now) ==
    {a \in scope : state[a] \in LeaseableStates /\ LeaseExpired(a, now)}

\* _recover_expired_action_leases: which leases it clears, and which of their
\* rows it ends as ambiguous.
Reaped(scope, now) ==
    {a \in scope : state[a] \in LeaseableStates \cup {"dispatched"} /\ LeaseExpired(a, now)}

Abandoned(scope, now) ==
    {a \in Reaped(scope, now) : state[a] = "dispatched" /\ ~HasBudget(a, now)}

\* Clear the leases of R, end the actions of F as failed and dead-letter them.
Release(R, leases) == [a \in Actions |-> IF a \in R THEN NoLease ELSE leases[a]]

\* Mutant: the transition without its dead letter.
TerminalizeSilently(F) ==
    /\ state' = [a \in Actions |-> IF a \in F THEN "failed" ELSE state[a]]
    /\ UNCHANGED deadLetters

Terminalize(F) ==
    /\ state' = [a \in Actions |-> IF a \in F THEN "failed" ELSE state[a]]
    /\ deadLetters' = deadLetters \cup F

\* Mutant: a dispatched row whose worker is lost is queued again.
RecoverByRequeue(scope, now) ==
    /\ state' = [a \in Actions |-> IF a \in Abandoned(scope, now) THEN "gated" ELSE state[a]]
    /\ lease' = Release(Reaped(scope, now), lease)
    /\ UNCHANGED <<attempts, created, nextAttempt, gates, contracts, journal, receipts,
                   deadLetters>>

RecoverExpiredLeases(scope, now) ==
    /\ Terminalize(Abandoned(scope, now))
    /\ lease' = Release(Reaped(scope, now), lease)
    /\ UNCHANGED <<attempts, created, nextAttempt, gates, contracts, journal, receipts>>

\* ORDER BY next_attempt_at, created_at; the last key, a random uuid, decides
\* a tie either way.
Before(a, b) ==
    \/ nextAttempt[a] < nextAttempt[b]
    \/ nextAttempt[a] = nextAttempt[b] /\ created[a] < created[b]

\* Mutant: the SELECT forgets that a row may be leased.
ReadyThoughLeased(S, scope, now) == {a \in scope : state[a] \in S /\ nextAttempt[a] <= now}

\* Rows in one of the states S that the SELECT returns after the reaper ran.
Ready(S, scope, now) ==
    {a \in scope : /\ state[a] \in S
                   /\ nextAttempt[a] <= now
                   /\ lease[a].owner = NoOwner \/ a \in Reaped(scope, now)}

Granted(o, now) == [owner |-> o, expires |-> now + LeaseSeconds]

\* The row lease_next returns: the first one ready.
Claimable(a, S, scope, now) ==
    /\ a \in Ready(S, scope, now)
    /\ \A b \in Ready(S, scope, now) : ~Before(b, a)

LeaseNext(a, o, S, scope, now) ==
    /\ Claimable(a, S, scope, now)
    /\ Terminalize(Abandoned(scope, now))
    /\ lease' = [Release(Reaped(scope, now), lease) EXCEPT ![a] = Granted(o, now)]
    /\ UNCHANGED <<attempts, created, nextAttempt, gates, contracts, journal, receipts>>

\* Nothing to lease: the call has still run the reaper.
LeaseNone(S, scope, now) ==
    /\ Ready(S, scope, now) = {}
    /\ RecoverExpiredLeases(scope, now)

\* The dispatched rows lease_dispatched_observation walks, in order: those
\* with a usable contract, and those it ends as ambiguous on its way.  (A row
\* without a contract is skipped.)
Walked(scope, now) ==
    {a \in Ready({"dispatched"}, scope, now) \ Abandoned(scope, now) : contracts[a] # {}}

Exhausted(scope, now) == {a \in Walked(scope, now) : ~HasBudget(a, now)}

ClaimableObservation(a, scope, now) ==
    /\ a \in Walked(scope, now) \ Exhausted(scope, now)
    /\ \A b \in Walked(scope, now) \ Exhausted(scope, now) : ~Before(b, a)

LeaseDispatchedObservation(a, o, scope, now) ==
    /\ ClaimableObservation(a, scope, now)
    /\ \E passed \in SUBSET {b \in Exhausted(scope, now) : ~Before(a, b)} :
         /\ {b \in Exhausted(scope, now) : Before(b, a)} \subseteq passed
         /\ Terminalize(Abandoned(scope, now) \cup passed)
         /\ lease' = [Release(Reaped(scope, now) \cup passed, lease)
                         EXCEPT ![a] = Granted(o, now)]
    /\ UNCHANGED <<attempts, created, nextAttempt, gates, contracts, journal, receipts>>

\* No row has budget left: the walk ends every exhausted one.
ObservationLeaseNone(scope, now) ==
    /\ Walked(scope, now) = Exhausted(scope, now)
    /\ Terminalize(Abandoned(scope, now) \cup Exhausted(scope, now))
    /\ lease' = Release(Reaped(scope, now) \cup Exhausted(scope, now), lease)
    /\ UNCHANGED <<attempts, created, nextAttempt, gates, contracts, journal, receipts>>

-----------------------------------------------------------------------------
(* The one dispatch.                                                       *)

\* Everything begin_owner_authorized_dispatch verifies before it writes.
DispatchAuthorized(a, o, g, now) ==
    /\ HoldsLease(a, o, now)
    /\ state[a] = "gated"
    /\ nextAttempt[a] <= now
    /\ gates[a] = {g}
    /\ StructuralRecheck(a, g, now)
    /\ AssertDispatchable(a, g, now)
    /\ contracts[a] = {}
    /\ attempts[a] + 1 <= MaxAttempts

\* Mutant: the attempt is not counted.
DispatchUncounted(a, o, g, now) ==
    /\ DispatchAuthorized(a, o, g, now)
    /\ contracts' = [contracts EXCEPT ![a] =
                        {[digest |-> g.key, issued |-> now, deadline |-> now + ObservationWindow]}]
    /\ state' = [state EXCEPT ![a] = "dispatched"]
    /\ UNCHANGED <<attempts, created, nextAttempt, lease, gates, journal, receipts, deadLetters>>

\* The contract, the attempt and the transition commit together.
BeginOwnerAuthorizedDispatch(a, o, g, now) ==
    /\ DispatchAuthorized(a, o, g, now)
    /\ contracts' = [contracts EXCEPT ![a] =
                        {[digest |-> g.key, issued |-> now, deadline |-> now + ObservationWindow]}]
    /\ attempts' = [attempts EXCEPT ![a] = @ + 1]
    /\ state' = [state EXCEPT ![a] = "dispatched"]
    /\ UNCHANGED <<created, nextAttempt, lease, gates, journal, receipts, deadLetters>>

-----------------------------------------------------------------------------
(* Bounded observation of a dispatched action.                             *)

\* The action's recovery contract binds this execution.
Bound(a, digest) == \E c \in contracts[a] : contracts[a] = {c} /\ c.digest = digest

MayObserve(a, o, digest, now) ==
    HoldsLease(a, o, now) /\ state[a] = "dispatched" /\ Bound(a, digest)

\* _terminalize_dispatch_observation, and what fail_attempt writes.
FailAndDeadLetter(a) ==
    /\ Terminalize({a})
    /\ lease' = Release({a}, lease)
    /\ UNCHANGED <<attempts, created, nextAttempt, gates, contracts, journal, receipts>>

\* Mutant: the budget is not looked at before a GET.
ObserveWithoutBudget(a, o, digest, now) ==
    /\ MayObserve(a, o, digest, now)
    /\ journal' = [journal EXCEPT ![a] = Append(@, now)]
    /\ UNCHANGED <<state, attempts, created, nextAttempt, lease, gates, contracts,
                   receipts, deadLetters>>

\* Attempt N is durable before the caller's GET.
BeginDispatchedObservation(a, o, digest, now) ==
    /\ MayObserve(a, o, digest, now)
    /\ HasBudget(a, now)
    /\ journal' = [journal EXCEPT ![a] = Append(@, now)]
    /\ UNCHANGED <<state, attempts, created, nextAttempt, lease, gates, contracts,
                   receipts, deadLetters>>

\* The other outcome of begin_dispatched_observation.
ObservationRefused(a, o, digest, now) ==
    /\ MayObserve(a, o, digest, now)
    /\ ~HasBudget(a, now)
    /\ FailAndDeadLetter(a)

\* The caller names attempt n, which must be the journal's last; an invalid
\* journal raises here.
MayDeferObservation(a, o, digest, n, now) ==
    /\ MayObserve(a, o, digest, now)
    /\ \A c \in contracts[a] : JournalValid(a, c)
    /\ n > 0 /\ Len(journal[a]) = n

DeferDispatchedObservation(a, o, digest, n, now) ==
    /\ MayDeferObservation(a, o, digest, n, now)
    /\ HasBudget(a, now)
    /\ nextAttempt' = [nextAttempt EXCEPT ![a] = now + RetrySeconds]
    /\ lease' = Release({a}, lease)
    /\ UNCHANGED <<state, attempts, created, gates, contracts, journal, receipts, deadLetters>>

DeferralExhausted(a, o, digest, n, now) ==
    /\ MayDeferObservation(a, o, digest, n, now)
    /\ ~HasBudget(a, now)
    /\ FailAndDeadLetter(a)

-----------------------------------------------------------------------------
(* Forward states.                                                         *)

\* Each call's conditions are a predicate of their own: a caller whose call is
\* refused goes on as its handler of ActionStoreError says.
MayDefer(a, o, now) == HoldsLease(a, o, now) /\ state[a] \in LeaseableStates

DeferLeased(a, o, now) ==
    /\ MayDefer(a, o, now)
    /\ nextAttempt' = [nextAttempt EXCEPT ![a] = now + RetrySeconds]
    /\ lease' = Release({a}, lease)
    /\ UNCHANGED <<state, attempts, created, gates, contracts, journal, receipts, deadLetters>>

Acceptance(e) == [status |-> "accepted", evidence |-> e]

MayAccept(a, o, k, e, now) ==
    /\ HoldsLease(a, o, now)
    /\ state[a] = "dispatched"
    /\ Insertable(a, k, Acceptance(e))

Accept(a, o, k, e, now) ==
    /\ MayAccept(a, o, k, e, now)
    /\ receipts' = [receipts EXCEPT ![a][k] = Acceptance(e)]
    /\ state' = [state EXCEPT ![a] = "accepted"]
    /\ UNCHANGED <<attempts, created, nextAttempt, lease, gates, contracts, journal,
                   deadLetters>>

Verification(e) == [status |-> "verified", evidence |-> e]

\* qualifying: the receipt keys the caller names as evidence of acceptance.
MayVerify(a, o, k, e, qualifying, now) ==
    /\ HoldsLease(a, o, now)
    /\ state[a] = "accepted"
    /\ qualifying # {}
    /\ \A q \in qualifying : receipts[a][q] # NoReceipt
    /\ Insertable(a, k, Verification(e))

Verify(a, o, k, e, qualifying, now) ==
    /\ MayVerify(a, o, k, e, qualifying, now)
    /\ receipts' = [receipts EXCEPT ![a][k] = Verification(e)]
    /\ state' = [state EXCEPT ![a] = "verified"]
    /\ UNCHANGED <<attempts, created, nextAttempt, lease, gates, contracts, journal,
                   deadLetters>>

MayComplete(a, o, now) == HoldsLease(a, o, now) /\ state[a] = "verified"

Complete(a, o, now) ==
    /\ MayComplete(a, o, now)
    /\ state' = [state EXCEPT ![a] = "completed"]
    /\ lease' = Release({a}, lease)
    /\ UNCHANGED <<attempts, created, nextAttempt, gates, contracts, journal, receipts,
                   deadLetters>>

MayFail(a, o, now) ==
    HoldsLease(a, o, now) /\ state[a] \in LeaseableStates \cup {"dispatched"}

FailAttempt(a, o, now) == MayFail(a, o, now) /\ FailAndDeadLetter(a)

-----------------------------------------------------------------------------
(* The store under arbitrary clients.                                      *)

\* Ingress and maintenance: no lease is needed.
Unleased(now) ==
    \/ \E a \in Actions : Propose(a, now)
    \/ \E a \in Actions, g \in GateMenu : AttachGate(a, g)
    \/ \E a \in Actions, k \in ReceiptKeys, r \in Receipts : AddReceipt(a, k, r)
    \/ \E scope \in SUBSET Actions : RecoverExpiredLeases(scope, now)

\* Calls that claim one action of a scope for an owner.
Claims(now) ==
    \E scope \in (SUBSET Actions) \ {{}} :
        \/ \E S \in (SUBSET LeaseableStates) \ {{}} :
              \/ \E a \in scope, o \in Owners : LeaseNext(a, o, S, scope, now)
              \/ LeaseNone(S, scope, now)
        \/ \E a \in scope, o \in Owners : LeaseDispatchedObservation(a, o, scope, now)
        \/ ObservationLeaseNone(scope, now)

\* Calls that need the lease on the action.
Leased(a, o, now) ==
    \/ \E g \in gates[a] : BeginOwnerAuthorizedDispatch(a, o, g, now)
    \/ \E d \in GateKeys : BeginDispatchedObservation(a, o, d, now)
    \/ \E d \in GateKeys : ObservationRefused(a, o, d, now)
    \/ \E d \in GateKeys, n \in 1..MaxObservations : DeferDispatchedObservation(a, o, d, n, now)
    \/ \E d \in GateKeys, n \in 1..MaxObservations : DeferralExhausted(a, o, d, n, now)
    \/ DeferLeased(a, o, now)
    \/ \E k \in ReceiptKeys, e \in Evidence : Accept(a, o, k, e, now)
    \/ \E k \in ReceiptKeys, e \in Evidence, Q \in SUBSET ReceiptKeys :
          Verify(a, o, k, e, Q, now)
    \/ Complete(a, o, now)
    \/ FailAttempt(a, o, now)

StoreNext ==
    \/ Tick /\ UNCHANGED storeVars
    \/ /\ \E now \in Readings :
            \/ Unleased(now)
            \/ Claims(now)
            \/ \E a \in Actions, o \in Owners : Leased(a, o, now)
       /\ UNCHANGED clock

StoreSpec == StoreInit /\ [][StoreNext]_<<clock, storeVars>>

-----------------------------------------------------------------------------
(* Properties.                                                             *)

\* The shape of every stored value.
StoreTypeOK ==
    /\ ClockTypeOK
    /\ state \in [Actions -> States]
    /\ attempts \in [Actions -> Nat]
    /\ created \in [Actions -> Nat]
    /\ nextAttempt \in [Actions -> Nat]
    /\ lease \in [Actions -> Leases]
    /\ gates \in [Actions -> SUBSET GateMenu]
    /\ contracts \in [Actions -> SUBSET Contracts]
    /\ journal \in [Actions -> Seq(Nat)]
    /\ receipts \in [Actions -> [ReceiptKeys -> Receipts \cup {NoReceipt}]]
    /\ deadLetters \subseteq Actions

\* store.py I5/I6: the attempt counter and the recovery contract move together,
\* exactly once, and every state from which an effect may exist has spent the
\* attempt while no earlier state has.
AuthoritySpentOnce ==
    \A a \in Actions :
        /\ attempts[a] = 0 => contracts[a] = {}
        /\ attempts[a] # 0 => attempts[a] = 1 /\ \E c \in contracts[a] : contracts[a] = {c}
        /\ state[a] \in {"absent", "proposed", "gated"} => attempts[a] = 0
        /\ state[a] \in {"dispatched", "accepted", "verified", "completed"} => attempts[a] = 1

\* store.py I4: the contract of a spent attempt is bound to the action's one
\* gate receipt, which no later call can replace or join, and which was valid
\* for this action and unexpired at the reading the contract was issued at.
ContractBindsConsumedGate ==
    \A a \in Actions : \A c \in contracts[a] :
        \E g \in gates[a] :
            /\ gates[a] = {g}
            /\ g.key = c.digest
            /\ AssertDispatchable(a, g, c.issued)

\* store.py I9: an accepted action has a durable acceptance receipt, and a
\* verified one has a verification receipt besides.
WitnessedAcceptance ==
    \A a \in Actions :
        /\ state[a] \in {"accepted", "verified", "completed"} =>
              \E k \in ReceiptKeys :
                  receipts[a][k] # NoReceipt /\ receipts[a][k].status = "accepted"
        /\ state[a] \in {"verified", "completed"} =>
              \E k \in ReceiptKeys :
                  receipts[a][k] # NoReceipt /\ receipts[a][k].status = "verified"

\* store.py I10: an action is failed exactly when it has a dead letter.
FailureEvident == deadLetters = {a \in Actions : state[a] = "failed"}

\* A lease is held only on a row some call can still advance, so that no row
\* is left leased by a call that ended it.
LeasesOnLiveRows ==
    \A a \in Actions :
        lease[a] # NoLease => state[a] \in LeaseableStates \cup {"dispatched"}

\* store.py I7: GET attempts never exceed the contract's budget, and none is
\* journaled at or after its deadline or without a contract.
ObservationBounded ==
    \A a \in Actions :
        /\ Len(journal[a]) <= MaxObservations
        /\ journal[a] # << >> => contracts[a] # {}
        /\ \A c \in contracts[a] : \A i \in DOMAIN journal[a] : journal[a][i] < c.deadline

\* store.py I8: what a terminal row says never changes (generic receipts may
\* still be added).
TerminalFrozen ==
    [][\A a \in Actions : state[a] \in TerminalStates =>
          /\ state'[a] = state[a] /\ attempts'[a] = attempts[a] /\ lease'[a] = lease[a]
          /\ nextAttempt'[a] = nextAttempt[a] /\ gates'[a] = gates[a]
          /\ contracts'[a] = contracts[a] /\ journal'[a] = journal[a]
          /\ (a \in deadLetters' <=> a \in deadLetters)]_<<clock, storeVars>>

\* store.py I3: while a lease is live by the true clock no other owner gets it,
\* whatever stale reading the other call carries.
LiveLeaseNotStolen ==
    [][\A a \in Actions : lease[a].owner # NoOwner /\ lease[a].expires > clock =>
          lease'[a].owner \in {lease[a].owner, NoOwner}]_<<clock, storeVars>>

\* worker.py: "an authorization expired at point of use never dispatches", up
\* to the wait between the store's clock reading and its commit.
DispatchNearLiveGate ==
    [][\A a \in Actions : state[a] = "gated" /\ state'[a] = "dispatched" =>
          \E g \in gates[a] :
              gates[a] = {g} /\ \A e \in Expiries(g) : clock < e + MaxWait]_<<clock, storeVars>>

\* The same sentence read literally, as store.py I11 has it ("the store's
\* injected clock read inside the transaction"): no wait at all.
DispatchOnLiveGate ==
    [][\A a \in Actions : state[a] = "gated" /\ state'[a] = "dispatched" =>
          \E g \in gates[a] :
              gates[a] = {g} /\ \A e \in Expiries(g) : clock < e]_<<clock, storeVars>>
=============================================================================
