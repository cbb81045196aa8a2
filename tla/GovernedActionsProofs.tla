----------------------- MODULE GovernedActionsProofs -----------------------
(***************************************************************************)
(* Workers, store, network and endpoint together keep their promises for   *)
(* any number of actions, workers and gate receipts, any crashes and any   *)
(* interleaving, and implement OneMutation.                                *)
(*                                                                         *)
(* A step of the composed system is a step of the store and a step of the  *)
(* ledger (StoreSteps, LedgerSteps), so their invariants carry over.  What *)
(* is new relates the three: an attempt is spent before its PUT is sent    *)
(* (PutsSpend), a request on the wire and a row of the ledger belong to a  *)
(* spent attempt (WireSpent, RowsSpent), a worker about to accept holds    *)
(* the ledger's final result, and a worker about to observe reads a clock  *)
(* that is past its contract's issue (LocalOK).                            *)
(***************************************************************************)
EXTENDS GovernedActions, ActionStoreProofs, ActionLedgerProofs

Labels ==
    {"recover", "lease_verified", "lease_accepted", "lease_dispatched", "lease_gated",
     "check", "fail", "admission", "defer", "dispatch", "put", "await", "observe", "get",
     "unresolved", "accept", "reread", "confirm", "verify", "complete", "dead"}

\* No action is taken yet, or none any more.
Idle == {"recover", "lease_verified", "lease_accepted", "lease_dispatched", "lease_gated", "dead"}

\* The worker has judged the gate of its action.
Judged == Labels \ (Idle \cup {"check", "fail"})

Locals ==
    [at : Labels, action : Actions \cup {NoAction}, from : States, gate : GateMenu \cup {NoGate},
     attempt : Nat, observed : Nat]

WorkersTypeOK ==
    /\ worker \in [Owners -> Locals]
    /\ earliest \in [Owners -> Nat]
    /\ puts \in [Actions -> Nat]

\* Where the worker knows that the attempt of its action is spent and may go
\* on to journal a GET.
BeforeObservation(l) ==
    l.at \in {"put", "await", "observe"} \/ (l.at = "check" /\ l.from = "dispatched")

\* What a worker's local variables say of the store and of the ledger; t is
\* the oldest reading its next call may carry.
LocalOK(l, t) ==
    /\ l.at \notin Idle => l.action \in Actions
    /\ l.at \in Judged => l.gate \in GateMenu
    /\ l.at = "check" => l.from \in {"gated", "dispatched", "accepted", "verified"}
    /\ l.at = "put" => puts[l.action] = 0
    /\ BeforeObservation(l) =>
          /\ attempts[l.action] = 1
          /\ \A c \in contracts[l.action] : c.issued <= t
    /\ l.at \in {"accept", "verify"} =>
          row[l.action] = "completed" /\ l.observed = result[l.action]

WorkersOK == \A w \in Owners : LocalOK(worker[w], earliest[w])

\* No two workers are about to send the PUT of one action.
OneSender ==
    \A v, w \in Owners : At(v, "put") /\ At(w, "put") /\ v # w => worker[v].action # worker[w].action

PutsSpend == \A a \in Actions : puts[a] <= attempts[a]

WireSpent == \A m \in wire : m[2] \in Requests /\ attempts[m[2].action] = 1

RowsSpent == \A a \in Actions : row[a] # "none" => attempts[a] = 1

\* Results and contracts carry readings of the one clock.
Dated ==
    \A a \in Actions :
        /\ result[a] <= Horizon
        /\ row[a] = "completed" => result[a] # 0
        /\ \A c \in contracts[a] : c.issued <= clock

\* The inductive invariant.
GovInv ==
    /\ StoreInv
    /\ LedgerInv
    /\ WorkersTypeOK
    /\ WorkersOK
    /\ OneSender
    /\ PutsSpend
    /\ WireSpent
    /\ RowsSpent
    /\ Dated
    /\ AcceptedIsTrue
    /\ JournalStaysValid

-----------------------------------------------------------------------------
(* The composed system steps as its parts.                                 *)

\* Every action the host proposes is one the endpoint knows.
LEMMA SameActions ==
    /\ LedgerActions = Actions
    /\ \A a \in Actions, g \in GateMenu :
          RequestOf(a, g) \in Requests /\ RequestOf(a, g).action = a
  <1>1. \A a \in Actions, g \in GateMenu :
          RequestOf(a, g) \in Requests /\ RequestOf(a, g).action = a
    <2>1. \A a \in Actions, g \in GateMenu : RequestOf(a, g) \in Requests
      BY WorkerAssumption
    <2> QED
      BY <2>1 DEF RequestOf
  <1>2. PICK g \in GateMenu : TRUE
    BY WorkerAssumption
  <1>3. \A r \in Requests : \E a \in Actions, h \in GateMenu : r = RequestOf(a, h)
    BY WorkerAssumption
  <1>4. LedgerActions \subseteq Actions
    BY <1>1, <1>3 DEF LedgerActions
  <1>5. Actions \subseteq LedgerActions
    BY <1>1, <1>2 DEF LedgerActions
  <1> QED
    BY <1>1, <1>4, <1>5

\* A worker's clock reading is one of the store's.
LEMMA NowIsReading ==
    ASSUME clock \in 1..Horizon, NEW w, NEW now \in Now(w)
    PROVE  now \in Readings /\ now \in Nat /\ earliest[w] <= now /\ now <= clock
  BY ReadingsAreInstants DEF Now

\* A worker that looks for work runs a claiming call or the reaper.
LEMMA LeaseSteps ==
    ASSUME NEW w \in Owners, NEW now \in Readings, Lease(w, now)
    PROVE  Unleased(now) \/ Claims(now)
  <1>1. Actions \in SUBSET Actions
    OBVIOUS
  <1>2. RecoverExpiredLeases(Actions, now) => Unleased(now)
    BY <1>1 DEF Unleased
  <1>3. ASSUME NEW label, NEW s \in LeaseableStates, NEW next, LeaseInState(w, label, s, next, now)
        PROVE  Unleased(now) \/ Claims(now)
    <2>1. CASE \E a \in Actions : LeaseNext(a, w, {s}, Actions, now)
      <3>0. Actions # {} /\ {s} # {} /\ {s} \subseteq LeaseableStates
        BY <2>1
      <3>1. Actions \in (SUBSET Actions) \ {{}} /\ {s} \in (SUBSET LeaseableStates) \ {{}}
        BY <3>0, Zenon
      <3>2. \E S \in (SUBSET LeaseableStates) \ {{}} :
              \E a \in Actions, o \in Owners : LeaseNext(a, o, S, Actions, now)
        BY <2>1, <3>1
      <3> QED
        BY <3>1, <3>2, Zenon DEF Claims
    <2>2. CASE LeaseNone({s}, Actions, now)
      BY <2>2, <1>2 DEF LeaseNone
    <2> QED
      BY <1>3, <2>1, <2>2 DEF LeaseInState
  <1>4. ASSUME LeaseObservation(w, now) PROVE Unleased(now) \/ Claims(now)
    <2>1. CASE \E a \in Actions : LeaseDispatchedObservation(a, w, Actions, now)
      <3>0. Actions # {}
        BY <2>1
      <3>1. Actions \in (SUBSET Actions) \ {{}}
        BY <3>0, Zenon
      <3>2. \E a \in Actions, o \in Owners : LeaseDispatchedObservation(a, o, Actions, now)
        BY <2>1
      <3> QED
        BY <3>1, <3>2, Zenon DEF Claims
    <2>2. CASE ObservationLeaseNone(Actions, now) /\ Actions # {}
      <3>1. Actions \in (SUBSET Actions) \ {{}}
        BY <2>2, Zenon
      <3> QED
        BY <2>2, <3>1, Zenon DEF Claims
    <2>3. CASE ObservationLeaseNone(Actions, now) /\ Actions = {}
      <3>1. Exhausted(Actions, now) = {}
        BY <2>3 DEF Exhausted, Walked, Ready
      <3>2. RecoverExpiredLeases(Actions, now)
        <4>1. /\ Abandoned(Actions, now) \cup Exhausted(Actions, now) = Abandoned(Actions, now)
              /\ Reaped(Actions, now) \cup Exhausted(Actions, now) = Reaped(Actions, now)
          BY <3>1
        <4> QED
          BY <2>3, <4>1 DEF ObservationLeaseNone, RecoverExpiredLeases
      <3> QED
        BY <3>2, <1>2
    <2> QED
      BY <1>4, <2>1, <2>2, <2>3 DEF LeaseObservation
  <1> QED
    BY <1>2, <1>3, <1>4 DEF Lease, Recover, LeaseableStates

\* Every store call of a worker is a call the store knows of that owner, or is
\* refused.
LEMMA CallSteps ==
    ASSUME GovInv, NEW w \in Owners, NEW now \in Now(w), StoreCall(w, now)
    PROVE  \/ Unleased(now)
           \/ Claims(now)
           \/ \E a \in Actions, o \in Owners : Leased(a, o, now)
           \/ UNCHANGED storeVars
  <1> DEFINE l == worker[w]
             a == worker[w].action
  <1>0. /\ clock \in 1..Horizon
        /\ l \in Locals /\ LocalOK(l, earliest[w])
    BY DEF GovInv, StoreInv, StoreTypeOK, ClockTypeOK, WorkersTypeOK, WorkersOK
  <1>1. now \in Readings /\ now \in Nat
    BY <1>0, NowIsReading
  <1>2. CASE Lease(w, now)
    BY <1>1, <1>2, LeaseSteps
  <1>3. l.at \notin Idle => a \in Actions
    BY <1>0 DEF LocalOK
  <1>4. l.at \in Judged => l.gate \in GateMenu /\ Digest(w) \in GateKeys
    BY <1>0, StoreAssumption DEF LocalOK, Digest, GateReceipts
  <1>5. CASE Defer(w, now)
    BY <1>3, <1>5 DEF Defer, At, Idle, Leased
  <1>6. CASE Fail(w, now)
    BY <1>3, <1>6 DEF Fail, At, Idle, Leased
  <1>7. CASE Dispatch(w, now)
    <2>1. a \in Actions
      BY <1>3, <1>7 DEF Dispatch, At, Idle
    <2>2. CASE BeginOwnerAuthorizedDispatch(a, w, worker[w].gate, now)
      <3>1. worker[w].gate \in gates[a]
        BY <2>2 DEF BeginOwnerAuthorizedDispatch, DispatchAuthorized
      <3> QED
        BY <2>1, <2>2, <3>1 DEF Leased
    <2> QED
      BY <1>7, <2>2 DEF Dispatch
  <1>8. CASE Observe(w, now)
    <2>1. a \in Actions /\ Digest(w) \in GateKeys
      BY <1>3, <1>4, <1>8 DEF Observe, At, Idle, Judged, Labels
    <2> QED
      BY <1>8, <2>1 DEF Observe, Leased
  <1>9. CASE DeferObservation(w, now)
    <2>1. a \in Actions /\ Digest(w) \in GateKeys
      BY <1>3, <1>4, <1>9 DEF DeferObservation, At, Idle, Judged, Labels
    <2>2. MayDeferObservation(a, w, Digest(w), l.attempt, now) => l.attempt \in 1..MaxObservations
      <3>1. l.attempt \in Nat
        BY <1>0 DEF Locals
      <3>2. Len(journal[a]) <= MaxObservations /\ MaxObservations \in Nat
        BY <2>1, StoreAssumption DEF GovInv, StoreInv, ObservationBounded
      <3> QED
        BY <3>1, <3>2 DEF MayDeferObservation
    <2> QED
      BY <1>9, <2>1, <2>2 DEF DeferObservation, DeferDispatchedObservation, DeferralExhausted, Leased
  <1>10. l.at \in {"accept", "verify"} => a \in Actions /\ l.observed \in Evidence
    <2>1. l.at \in {"accept", "verify"} => a \in Actions
      BY <1>3 DEF Idle
    <2>2. l.at \in {"accept", "verify"} => l.observed = result[a] /\ row[a] = "completed"
      BY <1>0 DEF LocalOK
    <2>3. a \in Actions /\ row[a] = "completed" => result[a] \in Evidence
      BY SameActions, WorkerAssumption, ClockAssumption DEF GovInv, Dated, LedgerInv, LedgerTypeOK
    <2> QED
      BY <2>1, <2>2, <2>3
  <1>11. CASE AcceptExecution(w, now)
    BY <1>10, <1>11, WorkerAssumption DEF AcceptExecution, At, Leased
  <1>12. CASE VerifyExecution(w, now)
    BY <1>10, <1>12, WorkerAssumption DEF VerifyExecution, At, Leased
  <1>13. CASE CompleteAction(w, now)
    BY <1>3, <1>13 DEF CompleteAction, At, Idle, Leased
  <1> QED
    BY <1>2, <1>5, <1>6, <1>7, <1>8, <1>9, <1>11, <1>12, <1>13 DEF StoreCall

\* A step of the composed system is a step of the store or leaves it alone.
LEMMA StoreSteps ==
    ASSUME GovInv, [Next]_vars
    PROVE  [StoreNext]_<<clock, storeVars>>
  <1>0. clock \in 1..Horizon
    BY DEF GovInv, StoreInv, StoreTypeOK, ClockTypeOK
  <1>1. ASSUME NEW w \in Owners, WorkerStep(w) PROVE [StoreNext]_<<clock, storeVars>>
    <2>1. ASSUME NEW now \in Now(w), StoreCall(w, now) PROVE [StoreNext]_<<clock, storeVars>>
      <3>1. now \in Readings
        BY <1>0, <2>1, NowIsReading
      <3> QED
        BY <1>1, <2>1, <3>1, CallSteps DEF StoreNext, WorkerStep
    <2>2. CASE Look(w)
      BY <1>1, <2>2 DEF WorkerStep, Look, Check, Reread
    <2>3. CASE Put(w) /\ UNCHANGED storeVars
      BY <1>1, <2>3 DEF WorkerStep
    <2> QED
      BY <1>1, <2>1, <2>2, <2>3 DEF WorkerStep
  <1>2. CASE \E w \in Owners : DatabaseBusy(w) \/ WorkerCrash(w)
    BY <1>2 DEF DatabaseBusy, WorkerCrash
  <1>3. CASE Ingress
    BY <1>3 DEF Ingress, StoreNext, Unleased
  <1>4. CASE SwitchAdmission \/ Arrive \/ Lose \/ Endpoint
    BY <1>4 DEF SwitchAdmission, Arrive, Lose, Endpoint
  <1>5. CASE Pass
    BY <1>5 DEF Pass, StoreNext
  <1>6. CASE UNCHANGED vars
    BY <1>6 DEF vars
  <1> QED
    BY <1>1, <1>2, <1>3, <1>4, <1>5, <1>6 DEF Next

\* It is a step of the endpoint or leaves it alone.
LEMMA LedgerSteps ==
    ASSUME GovInv, [Next]_vars
    PROVE  [LedgerNext]_<<clock, ledgerVars>>
  <1>1. CASE Arrive
    BY <1>1 DEF Arrive, LedgerNext, GovInv, WireSpent
  <1>2. CASE Endpoint
    BY <1>2 DEF Endpoint, LedgerNext
  <1>3. CASE Pass
    BY <1>3 DEF Pass, LedgerNext
  <1>4. CASE SwitchAdmission \/ Lose \/ Ingress \/ UNCHANGED vars
    BY <1>4 DEF SwitchAdmission, Lose, Ingress, vars
  <1>5. CASE \E w \in Owners : WorkerStep(w) \/ DatabaseBusy(w) \/ WorkerCrash(w)
    BY <1>5 DEF WorkerStep, DatabaseBusy, WorkerCrash
  <1> QED
    BY <1>1, <1>2, <1>3, <1>4, <1>5 DEF Next

-----------------------------------------------------------------------------
(* What the steps of the parts keep.                                       *)

\* No call takes back a spent attempt or touches its contract, and only the
\* dispatch spends one.
LEMMA SpentKept ==
    ASSUME StoreInv, [StoreNext]_<<clock, storeVars>>, NEW a \in Actions
    PROVE  /\ attempts[a] <= attempts'[a]
           /\ attempts[a] = 1 => attempts'[a] = 1 /\ contracts'[a] = contracts[a]
  <1>0. clock \in 1..Horizon /\ attempts[a] \in Nat
    BY DEF StoreInv, StoreTypeOK, ClockTypeOK
  <1>1. CASE UNCHANGED storeVars
    BY <1>0, <1>1 DEF storeVars
  <1>2. ASSUME NEW now \in Readings, Unleased(now)
        PROVE  attempts' = attempts /\ contracts' = contracts
    BY <1>2 DEF Unleased, Propose, AttachGate, AddReceipt, RecoverExpiredLeases
  <1>3. ASSUME NEW now \in Readings, Claims(now)
        PROVE  attempts' = attempts /\ contracts' = contracts
    <2>1. PICK scope \in (SUBSET Actions) \ {{}} :
          \/ \E S \in (SUBSET LeaseableStates) \ {{}} :
                \/ \E x \in scope, o \in Owners : LeaseNext(x, o, S, scope, now)
                \/ LeaseNone(S, scope, now)
          \/ \E x \in scope, o \in Owners : LeaseDispatchedObservation(x, o, scope, now)
          \/ ObservationLeaseNone(scope, now)
      BY <1>3 DEF Claims
    <2> QED
      BY <2>1 DEF LeaseNext, LeaseNone, RecoverExpiredLeases, LeaseDispatchedObservation,
                  ObservationLeaseNone
  <1>4. ASSUME NEW now \in Readings, NEW x \in Actions, NEW o \in Owners, Leased(x, o, now)
        PROVE  \/ attempts' = attempts /\ contracts' = contracts
               \/ \E g : BeginOwnerAuthorizedDispatch(x, o, g, now)
    BY <1>4 DEF Leased, BeginDispatchedObservation, ObservationRefused, FailAndDeadLetter,
                DeferDispatchedObservation, DeferralExhausted, DeferLeased, Accept, Verify,
                Complete, FailAttempt
  <1>5. ASSUME NEW now, NEW x \in Actions, NEW o, NEW g, BeginOwnerAuthorizedDispatch(x, o, g, now)
        PROVE  /\ attempts[a] <= attempts'[a]
               /\ attempts[a] = 1 => attempts'[a] = 1 /\ contracts'[a] = contracts[a]
    <2>1. attempts[x] = 0
      BY <1>5 DEF BeginOwnerAuthorizedDispatch, DispatchAuthorized, StoreInv, AuthoritySpentOnce
    <2> QED
      BY <1>0, <1>5, <2>1 DEF BeginOwnerAuthorizedDispatch, StoreInv, StoreTypeOK
  <1> QED
    BY <1>0, <1>1, <1>2, <1>3, <1>4, <1>5 DEF StoreNext

\* A completed row is final.
LEMMA CompletedKept ==
    ASSUME GovInv, [LedgerNext]_<<clock, ledgerVars>>, NEW a \in Actions, row[a] = "completed"
    PROVE  row'[a] = "completed" /\ result'[a] = result[a]
  BY StoredResultKept, SameActions DEF GovInv, Dated

\* A step that spends no attempt and adds neither an acceptance nor a journal
\* entry.
Calm ==
    /\ attempts' = attempts /\ contracts' = contracts /\ journal' = journal
    /\ receipts' = receipts
    /\ \A a \in Actions :
          state'[a] \in {"accepted", "verified", "completed"} =>
              state[a] \in {"accepted", "verified", "completed"}

\* The calls of the store that are calm.
LEMMA CalmCalls ==
    ASSUME StoreInv, NEW now \in Nat, NEW a \in Actions, NEW o
    PROVE  /\ Propose(a, now) \/ (\E g \in GateMenu : AttachGate(a, g)) => Calm
           /\ RecoverExpiredLeases(Actions, now) => Calm
           /\ ObservationLeaseNone(Actions, now) => Calm
           /\ \A s : LeaseNext(a, o, {s}, Actions, now) => Calm
           /\ LeaseDispatchedObservation(a, o, Actions, now) => Calm
           /\ FailAndDeadLetter(a) => Calm
           /\ DeferLeased(a, o, now) => Calm
           /\ \A d, n : DeferDispatchedObservation(a, o, d, n, now) => Calm
           /\ Complete(a, o, now) => Calm
           /\ UNCHANGED storeVars => Calm
  <1> USE DEF StoreInv, StoreTypeOK
  <1>0. ASSUME NEW F, Terminalize(F),
               UNCHANGED <<attempts, contracts, journal, receipts>>
        PROVE  Calm
    BY <1>0 DEF Terminalize, Calm
  <1>1. Propose(a, now) \/ (\E g \in GateMenu : AttachGate(a, g)) => Calm
    BY DEF Propose, AttachGate, Calm
  <1>2. RecoverExpiredLeases(Actions, now) => Calm
    BY <1>0 DEF RecoverExpiredLeases
  <1>3. ObservationLeaseNone(Actions, now) => Calm
    BY <1>0 DEF ObservationLeaseNone
  <1>4. \A s : LeaseNext(a, o, {s}, Actions, now) => Calm
    BY <1>0 DEF LeaseNext
  <1>5. LeaseDispatchedObservation(a, o, Actions, now) => Calm
    BY <1>0 DEF LeaseDispatchedObservation
  <1>6. FailAndDeadLetter(a) => Calm
    BY <1>0 DEF FailAndDeadLetter
  <1>7. DeferLeased(a, o, now) => Calm
    BY DEF DeferLeased, Calm
  <1>8. \A d, n : DeferDispatchedObservation(a, o, d, n, now) => Calm
    BY DEF DeferDispatchedObservation, Calm
  <1>9. Complete(a, o, now) => Calm
    BY DEF Complete, MayComplete, Calm
  <1>10. UNCHANGED storeVars => Calm
    BY DEF storeVars, Calm
  <1> QED
    BY <1>1, <1>2, <1>3, <1>4, <1>5, <1>6, <1>7, <1>8, <1>9, <1>10

\* What may change of the store in a step of the composed system: nothing the
\* invariant looks at, or one of the four calls that spend, journal or witness.
Telling(w, now) ==
    LET a == worker[w].action
        l == worker[w]
    IN
    \/ At(w, "dispatch") /\ BeginOwnerAuthorizedDispatch(a, w, l.gate, now) /\ Goto(w, "put")
    \/ At(w, "observe") /\ BeginDispatchedObservation(a, w, Digest(w), now)
    \/ At(w, "accept") /\ Accept(a, w, "acceptance", l.observed, now)
    \/ At(w, "verify") /\ Verify(a, w, "verification", l.observed, {"acceptance"}, now)

LEMMA CalmOrTelling ==
    ASSUME GovInv, [Next]_vars
    PROVE  Calm \/ \E w \in Owners : \E now \in Now(w) : Telling(w, now)
  <1>0. StoreInv /\ clock \in 1..Horizon
    BY DEF GovInv, StoreInv, StoreTypeOK, ClockTypeOK
  <1>1. ASSUME NEW w \in Owners, NEW now \in Now(w), StoreCall(w, now)
        PROVE  Calm \/ Telling(w, now)
    <2> DEFINE a == worker[w].action
    <2>0. now \in Nat
      BY <1>0, NowIsReading
    <2>1. CASE Lease(w, now)
      <3>1. CASE Recover(w, now)
        <4>1. CASE Actions = {}
          BY <3>1, <4>1 DEF Recover, RecoverExpiredLeases, Calm
        <4> QED
          BY <1>0, <2>0, <3>1, <4>1, CalmCalls DEF Recover
      <3>2. ASSUME NEW label, NEW s, NEW next, LeaseInState(w, label, s, next, now) PROVE Calm
        <4>1. CASE Actions = {}
          BY <3>2, <4>1 DEF LeaseInState, LeaseNone, RecoverExpiredLeases, Calm
        <4> QED
          BY <1>0, <2>0, <3>2, <4>1, CalmCalls DEF LeaseInState, LeaseNone
      <3>3. CASE LeaseObservation(w, now)
        <4>1. CASE Actions = {}
          BY <3>3, <4>1 DEF LeaseObservation, ObservationLeaseNone, Calm
        <4> QED
          BY <1>0, <2>0, <3>3, <4>1, CalmCalls DEF LeaseObservation
      <3> QED
        BY <2>1, <3>1, <3>2, <3>3 DEF Lease
    <2>2. worker[w].at \notin Idle => a \in Actions
      BY DEF GovInv, WorkersOK, LocalOK
    <2>3. CASE Defer(w, now)
      BY <1>0, <2>0, <2>2, <2>3, CalmCalls DEF Defer, At, Idle
    <2>4. CASE Fail(w, now)
      BY <1>0, <2>0, <2>2, <2>4, CalmCalls DEF Fail, FailAttempt, At, Idle
    <2>5. UNCHANGED storeVars => Calm
      BY DEF storeVars, Calm
    <2>6. CASE Dispatch(w, now)
      BY <2>5, <2>6 DEF Dispatch, Telling
    <2>7. CASE Observe(w, now)
      BY <1>0, <2>0, <2>2, <2>5, <2>7, CalmCalls DEF Observe, ObservationRefused, At, Idle, Telling
    <2>8. CASE DeferObservation(w, now)
      BY <1>0, <2>0, <2>2, <2>5, <2>8, CalmCalls DEF DeferObservation, DeferralExhausted, At, Idle
    <2>9. CASE AcceptExecution(w, now)
      BY <2>5, <2>9 DEF AcceptExecution, Telling
    <2>10. CASE VerifyExecution(w, now)
      BY <2>5, <2>10 DEF VerifyExecution, Telling
    <2>11. CASE CompleteAction(w, now)
      BY <1>0, <2>0, <2>2, <2>5, <2>11, CalmCalls DEF CompleteAction, At, Idle
    <2> QED
      BY <1>1, <2>1, <2>3, <2>4, <2>6, <2>7, <2>8, <2>9, <2>10, <2>11 DEF StoreCall
  <1>2. UNCHANGED storeVars => Calm
    BY DEF storeVars, Calm
  <1>3. ASSUME NEW w \in Owners, WorkerStep(w)
        PROVE  Calm \/ \E now \in Now(w) : Telling(w, now)
    BY <1>1, <1>2, <1>3 DEF WorkerStep, Look, Check, Reread
  <1>4. CASE \E w \in Owners : DatabaseBusy(w) \/ WorkerCrash(w)
    BY <1>2, <1>4 DEF DatabaseBusy, WorkerCrash
  <1>5. CASE Ingress
    <2>1. \A now \in Readings : now \in Nat
      BY <1>0, ReadingsAreInstants
    <2> QED
      BY <1>0, <1>5, <2>1, CalmCalls DEF Ingress
  <1>6. CASE SwitchAdmission \/ Arrive \/ Lose \/ Endpoint \/ Pass \/ UNCHANGED vars
    BY <1>2, <1>6 DEF SwitchAdmission, Arrive, Lose, Endpoint, Pass, vars
  <1> QED
    BY <1>3, <1>4, <1>5, <1>6 DEF Next

-----------------------------------------------------------------------------
(* The ledger's rows and the store's witnesses.                            *)

\* A row is created by a request of a spent attempt, results are readings of
\* the clock, and a completed row has one.
LEMMA RowsStep ==
    ASSUME GovInv, [Next]_vars, NEW a \in Actions
    PROVE  /\ row'[a] # "none" => attempts[a] = 1
           /\ result'[a] <= Horizon
           /\ row'[a] = "completed" => result'[a] # 0
  <1> USE SameActions DEF GovInv, LedgerInv, LedgerTypeOK, ClockTypeOK
  <1>0. /\ clock \in 1..Horizon /\ Horizon \in Nat
        /\ \A now \in Readings : now \in Nat /\ now >= 1 /\ now <= Horizon
    BY LedgerReadings, ClockAssumption
  <1>1. UNCHANGED ledgerVars =>
           /\ row'[a] # "none" => attempts[a] = 1
           /\ result'[a] <= Horizon
           /\ row'[a] = "completed" => result'[a] # 0
    BY DEF ledgerVars, RowsSpent, Dated
  <1>2. ASSUME NEW m \in wire, NEW now \in Readings, Arrivals(m[2], now)
        PROVE  /\ row'[a] # "none" => attempts[a] = 1
               /\ result'[a] <= Horizon
               /\ row'[a] = "completed" => result'[a] # 0
    <2> DEFINE r == m[2]
    <2>0. r \in Requests /\ r.action \in Actions /\ attempts[r.action] = 1
      BY RequestActions DEF WireSpent
    <2> HIDE DEF r
    <2>1. CASE ExecuteNew(r, now)
      BY <2>0, <2>1 DEF ExecuteNew, RowsSpent, Dated
    <2>2. CASE ExecuteAgain(r, now)
      BY <2>2 DEF ExecuteAgain, RowsSpent, Dated
    <2>3. CASE ExecuteTooLate(r, now)
      BY <1>0, <2>0, <2>3 DEF ExecuteTooLate, FailPrepared, RowsSpent, Dated
    <2>4. CASE ExecuteAnswered(r, now)
      BY <1>1, <2>4 DEF ExecuteAnswered
    <2> QED
      BY <1>2, <2>1, <2>2, <2>3, <2>4 DEF Arrivals, r
  <1>3. ASSUME NEW now \in Readings, Serving(now)
        PROVE  /\ row'[a] # "none" => attempts[a] = 1
               /\ result'[a] <= Horizon
               /\ row'[a] = "completed" => result'[a] # 0
    <2> USE HandlerRequest DEF HandlerOwnsRow, RowsSpent, Dated
    <2>1. CASE PreparationFails(now) \/ ApprovalLapsed(now)
      BY <1>0, <2>1 DEF PreparationFails, ApprovalLapsed, FailPrepared
    <2>2. CASE PreparationCancelled \/ FinishRaises \/ Crash \/ PerformEffect
      BY <2>2 DEF PreparationCancelled, FinishRaises, Crash, PerformEffect
    <2>3. CASE MarkExecuting(now)
      BY <1>0, <2>3 DEF MarkExecuting
    <2>4. CASE PerformReturns(now) \/ PerformUnwinds(now)
      BY <1>0, <2>4 DEF PerformReturns, PerformUnwinds, Finish
    <2>5. CASE RecoverExecuting(now)
      BY <1>0, <2>5 DEF RecoverExecuting
    <2> QED
      BY <1>3, <2>1, <2>2, <2>3, <2>4, <2>5 DEF Serving
  <1>4. CASE Arrive
    BY <1>2, <1>4 DEF Arrive
  <1>5. CASE Endpoint
    BY <1>3, <1>5 DEF Endpoint
  <1>6. CASE SwitchAdmission \/ Lose \/ Ingress \/ Pass \/ UNCHANGED vars
    BY <1>1, <1>6 DEF SwitchAdmission, Lose, Ingress, Pass, vars
  <1>7. CASE \E w \in Owners : WorkerStep(w) \/ DatabaseBusy(w) \/ WorkerCrash(w)
    BY <1>1, <1>7 DEF WorkerStep, DatabaseBusy, WorkerCrash
  <1> QED
    BY <1>4, <1>5, <1>6, <1>7 DEF Next

\* The parts keep their invariants in the composed system.
LEMMA PartsInv ==
    ASSUME GovInv, [Next]_vars
    PROVE  StoreInv' /\ LedgerInv'
  BY StoreSteps, LedgerSteps, StoreNextInv, LedgerNextInv DEF GovInv

\* A row of the ledger belongs to a spent attempt.
LEMMA RowsSpentInv ==
    ASSUME GovInv, [Next]_vars
    PROVE  RowsSpent'
  BY RowsStep, SpentKept, StoreSteps DEF RowsSpent, GovInv

\* The clock only runs forward.
LEMMA ClockForward ==
    ASSUME GovInv, [Next]_vars
    PROVE  clock' \in Nat /\ clock <= clock'
  <1>1. clock \in Nat
    BY ClockAssumption DEF GovInv, StoreInv, StoreTypeOK, ClockTypeOK
  <1>2. clock' = clock \/ Tick
    BY StoreSteps DEF StoreNext
  <1> QED
    BY <1>1, <1>2 DEF Tick

\* Only a worker's dispatch writes a contract, with a reading of the clock.
LEMMA DatedInv ==
    ASSUME GovInv, [Next]_vars
    PROVE  Dated'
  <1> SUFFICES ASSUME NEW a \in Actions, NEW c \in contracts'[a] PROVE c.issued <= clock'
    BY RowsStep DEF Dated
  <1>0. /\ clock \in 1..Horizon /\ Horizon \in Nat /\ clock' \in Nat /\ clock <= clock'
        /\ \A x \in Actions : contracts[x] \in SUBSET Contracts
        /\ contracts \in [Actions -> SUBSET Contracts]
    BY ClockForward, ClockAssumption DEF GovInv, StoreInv, StoreTypeOK, ClockTypeOK
  <1>1. CASE c \in contracts[a]
    <2>1. c.issued \in Nat /\ c.issued <= clock
      BY <1>0, <1>1 DEF GovInv, Dated, Contracts
    <2> QED
      BY <1>0, <2>1
  <1>2. CASE c \notin contracts[a]
    <2>1. PICK w \in Owners : \E now \in Now(w) : Telling(w, now)
      BY <1>2, CalmOrTelling DEF Calm
    <2>2. PICK now \in Now(w) : Telling(w, now)
      BY <2>1
    <2>3. PICK g : BeginOwnerAuthorizedDispatch(worker[w].action, w, g, now)
      BY <1>2, <2>2 DEF Telling, BeginDispatchedObservation, Accept, Verify
    <2>4. c.issued = now
      BY <1>0, <1>2, <2>3 DEF BeginOwnerAuthorizedDispatch
    <2>5. now \in Nat /\ now <= clock
      BY <1>0, NowIsReading
    <2> QED
      BY <1>0, <2>4, <2>5
  <1> QED
    BY <1>1, <1>2

\* A worker journals a GET at a reading between its contract's issue and its
\* deadline.
LEMMA JournalInv ==
    ASSUME GovInv, [Next]_vars
    PROVE  JournalStaysValid'
  <1> USE DEF GovInv, JournalStaysValid, JournalValid
  <1>0. /\ clock \in 1..Horizon
        /\ journal \in [Actions -> Seq(Nat)]
        /\ contracts \in [Actions -> SUBSET Contracts]
    BY DEF StoreInv, StoreTypeOK, ClockTypeOK
  <1>1. CASE contracts' = contracts /\ journal' = journal
    BY <1>1
  <1>2. ASSUME NEW w \in Owners, NEW now \in Now(w), Telling(w, now),
               ~(contracts' = contracts /\ journal' = journal)
        PROVE  JournalStaysValid'
    <2> DEFINE a == worker[w].action
    <2>1. CASE At(w, "dispatch") /\ BeginOwnerAuthorizedDispatch(a, w, worker[w].gate, now)
      <3>1. a \in Actions
        BY <2>1 DEF WorkersOK, LocalOK, At, Idle
      <3>2. contracts[a] = {} /\ attempts[a] = 0 /\ journal[a] = << >>
        BY <2>1, <3>1 DEF BeginOwnerAuthorizedDispatch, DispatchAuthorized, StoreInv,
                          AuthoritySpentOnce, ObservationBounded
      <3>3. journal' = journal /\ \A b \in Actions \ {a} : contracts'[b] = contracts[b]
        BY <1>0, <2>1, <3>1 DEF BeginOwnerAuthorizedDispatch
      <3> QED
        BY <3>2, <3>3
    <2>2. CASE At(w, "observe") /\ BeginDispatchedObservation(a, w, Digest(w), now)
      <3>1. a \in Actions /\ \A c \in contracts[a] : c.issued <= earliest[w]
        BY <2>2 DEF WorkersOK, LocalOK, At, Idle, BeforeObservation
      <3>2. earliest[w] \in Nat /\ now \in Nat /\ earliest[w] <= now
        BY <1>0, NowIsReading DEF WorkersTypeOK
      <3>3. \A c \in contracts[a] : c \in Contracts /\ now < c.deadline
        BY <1>0, <2>2, <3>1 DEF BeginDispatchedObservation, HasBudget, Observable
      <3>4. \A c \in contracts[a] : c.issued <= now /\ now <= c.deadline
        BY <3>1, <3>2, <3>3 DEF Contracts
      <3>5. /\ contracts' = contracts
            /\ journal'[a] = Append(journal[a], now)
            /\ \A b \in Actions \ {a} : journal'[b] = journal[b]
        BY <1>0, <2>2, <3>1 DEF BeginDispatchedObservation
      <3>6. \A i \in DOMAIN journal'[a] :
               \/ i \in DOMAIN journal[a] /\ journal'[a][i] = journal[a][i]
               \/ journal'[a][i] = now
        BY <1>0, <3>1, <3>2, <3>5
      <3> QED
        BY <3>4, <3>5, <3>6
    <2> QED
      BY <1>2, <2>1, <2>2 DEF Telling, Accept, Verify
  <1> QED
    BY <1>1, <1>2, CalmOrTelling DEF Calm

\* What is accepted is the ledger's completed result, and stays so.
LEMMA AcceptedInv ==
    ASSUME GovInv, [Next]_vars
    PROVE  AcceptedIsTrue'
  <1> USE DEF GovInv
  <1>0. /\ state \in [Actions -> States]
        /\ receipts \in [Actions -> [ReceiptKeys -> Receipts \cup {NoReceipt}]]
        /\ "acceptance" \in ReceiptKeys /\ "verification" \in ReceiptKeys
    BY WorkerAssumption DEF StoreInv, StoreTypeOK
  <1>1. \A a \in Actions : row[a] = "completed" =>
           row'[a] = "completed" /\ result'[a] = result[a] /\ effects'[a] = 1
    BY CompletedKept, LedgerSteps, PartsInv, SameActions DEF LedgerInv, ProjectionTruthful
  <1>2. CASE Calm
    BY <1>1, <1>2 DEF Calm, AcceptedIsTrue
  <1>3. ASSUME NEW w \in Owners, NEW now \in Now(w), Telling(w, now)
        PROVE  AcceptedIsTrue'
    <2> DEFINE a == worker[w].action
    <2>0. worker[w].at \notin Idle => a \in Actions
      BY DEF WorkersOK, LocalOK
    <2>1. CASE At(w, "dispatch") /\ BeginOwnerAuthorizedDispatch(a, w, worker[w].gate, now)
      BY <1>0, <1>1, <2>1 DEF BeginOwnerAuthorizedDispatch, AcceptedIsTrue
    <2>2. CASE BeginDispatchedObservation(a, w, Digest(w), now)
      BY <1>1, <2>2 DEF BeginDispatchedObservation, AcceptedIsTrue
    <2>3. CASE At(w, "accept") /\ Accept(a, w, "acceptance", worker[w].observed, now)
      <3>1. a \in Actions
        BY <2>0, <2>3 DEF At, Idle
      <3>2. row[a] = "completed" /\ worker[w].observed = result[a]
        BY <2>3 DEF WorkersOK, LocalOK, At
      <3>3. /\ \A b \in Actions \ {a} : state'[b] = state[b] /\ receipts'[b] = receipts[b]
            /\ receipts'[a]["acceptance"] = Acceptance(result[a])
        BY <1>0, <2>3, <3>1, <3>2 DEF Accept
      <3> QED
        BY <1>1, <3>2, <3>3 DEF AcceptedIsTrue, Acceptance
    <2>4. CASE At(w, "verify")
               /\ Verify(a, w, "verification", worker[w].observed, {"acceptance"}, now)
      <3>1. a \in Actions
        BY <2>0, <2>4 DEF At, Idle
      <3>2. /\ \A b \in Actions \ {a} : state'[b] = state[b] /\ receipts'[b] = receipts[b]
            /\ receipts'[a]["acceptance"] = receipts[a]["acceptance"]
            /\ state[a] = "accepted"
        BY <1>0, <2>4, <3>1 DEF Verify, MayVerify
      <3> QED
        BY <1>1, <3>1, <3>2 DEF AcceptedIsTrue
    <2> QED
      BY <1>3, <2>1, <2>2, <2>3, <2>4 DEF Telling
  <1> QED
    BY <1>2, <1>3, CalmOrTelling

-----------------------------------------------------------------------------
(* The workers.                                                            *)

\* The local variables l a worker step ends with fit the new state; only a
\* dispatch ends before the PUT, and it found the attempt unspent.
Arrived(l) ==
    /\ l \in Locals
    /\ l.at \notin Idle => l.action \in Actions
    /\ l.at \in Judged => l.gate \in GateMenu
    /\ l.at = "check" => l.from \in {"gated", "dispatched", "accepted", "verified"}
    /\ l.at = "put" => puts'[l.action] = 0 /\ attempts[l.action] = 0
    /\ BeforeObservation(l) => attempts'[l.action] = 1
    /\ l.at \in {"accept", "verify"} =>
          row'[l.action] = "completed" /\ l.observed = result'[l.action]

\* A worker returns to the top, or dies.
LEMMA TopArrives == Arrived(AtTop("recover")) /\ Arrived(AtTop("dead"))
  BY DEF Arrived, AtTop, Locals, Labels, Idle, Judged, BeforeObservation, States

\* A worker goes on with the same action, gate and readings.
LEMMA GotoArrives ==
    ASSUME GovInv, NEW w \in Owners, NEW label \in Labels \ {"check", "put", "accept", "verify"},
           label \in Idle \/ worker[w].at \notin Idle,
           label \in Judged => worker[w].at \in Judged,
           label \in {"await", "observe"} => attempts'[worker[w].action] = 1
    PROVE  Arrived([worker[w] EXCEPT !.at = label])
  <1> DEFINE l == [worker[w] EXCEPT !.at = label]
  <1>1. worker[w] \in Locals /\ LocalOK(worker[w], earliest[w])
    BY DEF GovInv, WorkersTypeOK, WorkersOK
  <1>2. l \in Locals /\ l.at = label /\ l.action = worker[w].action /\ l.gate = worker[w].gate
    BY <1>1 DEF Locals
  <1> HIDE DEF l
  <1>3. Arrived(l)
    BY <1>1, <1>2 DEF Arrived, LocalOK, BeforeObservation
  <1> QED
    BY <1>3 DEF l

\* A worker takes the row it leased.
LEMMA TakeArrives ==
    ASSUME GovInv, NEW w \in Owners, NEW a \in Actions, attempts' = attempts,
           state[a] \in {"gated", "dispatched", "accepted", "verified"}
    PROVE  Arrived([worker[w] EXCEPT !.at = "check", !.action = a, !.from = state[a]])
  <1> DEFINE l == [worker[w] EXCEPT !.at = "check", !.action = a, !.from = state[a]]
  <1>1. worker[w] \in Locals /\ state[a] \in States
    BY DEF GovInv, WorkersTypeOK, StoreInv, StoreTypeOK
  <1>2. l \in Locals /\ l.at = "check" /\ l.action = a /\ l.from = state[a]
    BY <1>1 DEF Locals, Labels
  <1>3. state[a] = "dispatched" => attempts[a] = 1
    BY DEF GovInv, StoreInv, AuthoritySpentOnce
  <1> HIDE DEF l
  <1>4. Arrived(l)
    BY <1>2, <1>3 DEF Arrived, BeforeObservation, Judged
  <1> QED
    BY <1>4 DEF l

\* A worker has seen the completed result of its action.
LEMMA SeeArrives ==
    ASSUME GovInv, NEW w \in Owners, NEW label \in {"accept", "verify"}, Completed(w),
           worker[w].at \in Judged, UNCHANGED ledgerVars
    PROVE  Arrived([worker[w] EXCEPT !.at = label, !.observed = result[worker[w].action]])
  <1> DEFINE l == [worker[w] EXCEPT !.at = label, !.observed = result[worker[w].action]]
  <1>1. worker[w] \in Locals /\ LocalOK(worker[w], earliest[w])
    BY DEF GovInv, WorkersTypeOK, WorkersOK
  <1>2. worker[w].action \in Actions /\ worker[w].gate \in GateMenu
    BY <1>1 DEF LocalOK, Judged
  <1>3. result[worker[w].action] \in Nat
    BY <1>2, SameActions DEF GovInv, LedgerInv, LedgerTypeOK
  <1>4. /\ l \in Locals /\ l.at = label /\ l.action = worker[w].action /\ l.gate = worker[w].gate
        /\ l.observed = result[worker[w].action]
    BY <1>1, <1>3 DEF Locals, Labels
  <1> HIDE DEF l
  <1>5. Arrived(l)
    BY <1>2, <1>4 DEF Arrived, BeforeObservation, Completed, ledgerVars
  <1> QED
    BY <1>5 DEF l

\* Looking for work ends idle or with a row to check.
LEMMA LeaseArrives ==
    ASSUME GovInv, NEW w \in Owners, NEW now \in Now(w), Lease(w, now)
    PROVE  \E l : Become(w, l) /\ Arrived(l)
  <1> USE DEF Goto, Take
  <1>0. \A label \in Idle : Arrived([worker[w] EXCEPT !.at = label])
    BY GotoArrives DEF Labels, Idle, Judged
  <1>1. CASE Recover(w, now)
    BY <1>0, <1>1 DEF Recover, Idle
  <1>2. ASSUME NEW label, NEW s \in LeaseableStates, NEW next \in Idle,
               LeaseInState(w, label, s, next, now)
        PROVE  \E l : Become(w, l) /\ Arrived(l)
    <2>1. ASSUME NEW a \in Actions, LeaseNext(a, w, {s}, Actions, now), Take(w, a)
          PROVE  \E l : Become(w, l) /\ Arrived(l)
      <3>1. state[a] = s /\ attempts' = attempts
        BY <2>1 DEF LeaseNext, Claimable, Ready
      <3>2. Arrived([worker[w] EXCEPT !.at = "check", !.action = a, !.from = state[a]])
        BY <3>1, TakeArrives DEF LeaseableStates
      <3> QED
        BY <2>1, <3>2
    <2> QED
      BY <1>0, <1>2, <2>1 DEF LeaseInState
  <1>3. CASE LeaseObservation(w, now)
    <2>1. ASSUME NEW a \in Actions, LeaseDispatchedObservation(a, w, Actions, now), Take(w, a)
          PROVE  \E l : Become(w, l) /\ Arrived(l)
      <3>1. state[a] = "dispatched" /\ attempts' = attempts
        BY <2>1 DEF LeaseDispatchedObservation, ClaimableObservation, Walked, Ready
      <3>2. Arrived([worker[w] EXCEPT !.at = "check", !.action = a, !.from = state[a]])
        BY <3>1, TakeArrives
      <3> QED
        BY <2>1, <3>2
    <2> QED
      BY <1>0, <1>3, <2>1 DEF LeaseObservation, Idle
  <1> QED
    BY <1>1, <1>2, <1>3 DEF Lease, LeaseableStates, Idle

\* So does every other store call, the dispatch included.
LEMMA CallArrives ==
    ASSUME GovInv, [Next]_vars, NEW w \in Owners, NEW now \in Now(w), StoreCall(w, now),
           UNCHANGED <<puts, ledgerVars>>
    PROVE  \E l : Become(w, l) /\ Arrived(l)
  <1> USE TopArrives DEF Return, Goto, At
  <1>0. worker[w] \in Locals /\ LocalOK(worker[w], earliest[w])
    BY DEF GovInv, WorkersTypeOK, WorkersOK
  <1>1. CASE Lease(w, now)
    BY <1>1, LeaseArrives
  <1>2. CASE Defer(w, now) \/ Fail(w, now) \/ CompleteAction(w, now)
    BY <1>2 DEF Defer, Fail, CompleteAction
  <1>3. CASE Dispatch(w, now)
    <2> DEFINE a == worker[w].action
               p == [worker[w] EXCEPT !.at = "put"]
    <2>0. At(w, "dispatch") /\ a \in Actions /\ worker[w].gate \in GateMenu
      BY <1>0, <1>3 DEF Dispatch, LocalOK, Idle, Judged, Labels
    <2>1. CASE BeginOwnerAuthorizedDispatch(a, w, worker[w].gate, now) /\ Become(w, p)
      <3>1. attempts[a] = 0 /\ attempts'[a] = 1 /\ puts[a] = 0
        BY <2>0, <2>1 DEF BeginOwnerAuthorizedDispatch, DispatchAuthorized, GovInv, StoreInv,
                          StoreTypeOK, AuthoritySpentOnce, PutsSpend, WorkersTypeOK
      <3>2. p \in Locals /\ p.at = "put" /\ p.action = a /\ p.gate = worker[w].gate
        BY <1>0 DEF Locals, Labels
      <3>3. Arrived(p)
        BY <2>0, <3>1, <3>2 DEF Arrived, BeforeObservation
      <3> QED
        BY <2>1, <3>3
    <2>2. CASE Become(w, [worker[w] EXCEPT !.at = "fail"])
      BY <2>0, <2>2, GotoArrives DEF Labels, Idle, Judged
    <2> QED
      BY <1>3, <2>1, <2>2 DEF Dispatch
  <1>4. worker[w].at \in Judged =>
           \A label \in {"reread", "confirm", "complete"} :
              Arrived([worker[w] EXCEPT !.at = label])
    BY GotoArrives DEF Labels, Idle, Judged
  <1>5. CASE Observe(w, now)
    <2> DEFINE a == worker[w].action
               g == [worker[w] EXCEPT !.at = "get", !.attempt = Len(journal[a]) + 1]
    <2>0. At(w, "observe") /\ a \in Actions /\ worker[w].gate \in GateMenu
      BY <1>0, <1>5 DEF Observe, LocalOK, Idle, Judged, Labels
    <2>1. CASE Become(w, g)
      <3>1. Len(journal[a]) + 1 \in Nat
        BY <2>0 DEF GovInv, StoreInv, StoreTypeOK
      <3>2. g \in Locals /\ g.at = "get" /\ g.action = a /\ g.gate = worker[w].gate
        BY <1>0, <3>1 DEF Locals, Labels
      <3>3. Arrived(g)
        BY <2>0, <3>2 DEF Arrived, BeforeObservation
      <3> QED
        BY <2>1, <3>3
    <2>2. CASE Become(w, [worker[w] EXCEPT !.at = "reread"])
      BY <1>4, <2>0, <2>2 DEF Judged, Labels, Idle
    <2> QED
      BY <1>5, <2>1, <2>2 DEF Observe
  <1>6. CASE DeferObservation(w, now)
    BY <1>4, <1>6 DEF DeferObservation, Judged, Labels, Idle
  <1>7. CASE AcceptExecution(w, now)
    BY <1>4, <1>7 DEF AcceptExecution, Judged, Labels, Idle
  <1>8. CASE VerifyExecution(w, now)
    BY <1>4, <1>8 DEF VerifyExecution, Judged, Labels, Idle
  <1> QED
    BY <1>1, <1>2, <1>3, <1>5, <1>6, <1>7, <1>8 DEF StoreCall

\* Looking at the store, the admission file or the endpoint.
LEMMA LookArrives ==
    ASSUME GovInv, NEW w \in Owners, Look(w), UNCHANGED ledgerVars
    PROVE  \E l : Become(w, l) /\ Arrived(l)
  <1> USE TopArrives DEF Return, Goto, At
  <1>0. worker[w] \in Locals /\ LocalOK(worker[w], earliest[w])
    BY DEF GovInv, WorkersTypeOK, WorkersOK
  <1>1. attempts' = attempts
    BY DEF Look, Check, Reread, storeVars
  <1>2. CASE CheckPasses(w)
    <2>1. PICK g \in gates[worker[w].action] :
             Become(w, [worker[w] EXCEPT !.at = Resume(worker[w].from), !.gate = g])
      BY <1>2 DEF CheckPasses
    <2> DEFINE a == worker[w].action
               f == worker[w].from
               l == [worker[w] EXCEPT !.at = Resume(f), !.gate = g]
    <2>2. a \in Actions /\ f \in {"gated", "dispatched", "accepted", "verified"}
             /\ worker[w].at = "check"
      BY <1>0, <1>2 DEF CheckPasses, LocalOK, Idle
    <2>3. g \in GateMenu
      BY <2>1, <2>2 DEF GovInv, StoreInv, StoreTypeOK
    <2>4. /\ Resume(f) \in {"admission", "observe", "confirm", "complete"}
          /\ Resume(f) = "observe" => f = "dispatched"
      BY <2>2 DEF Resume
    <2>5. l \in Locals /\ l.at = Resume(f) /\ l.action = a /\ l.gate = g
      BY <1>0, <2>3, <2>4 DEF Locals, Labels
    <2>6. f = "dispatched" => attempts[a] = 1
      BY <1>0, <2>2 DEF LocalOK, BeforeObservation
    <2>7. Arrived(l)
      <3> HIDE DEF l
      <3> QED
        BY <1>1, <2>2, <2>3, <2>4, <2>5, <2>6 DEF Arrived, BeforeObservation
    <2> QED
      BY <2>1, <2>7
  <1>3. CASE CheckFails(w)
    BY <1>3, GotoArrives DEF CheckFails, Labels, Idle, Judged
  <1>4. CASE Admission(w)
    BY <1>4, GotoArrives DEF Admission, Labels, Idle, Judged
  <1>5. CASE Reread(w)
    <2>1. \A label \in {"confirm", "complete"} : Arrived([worker[w] EXCEPT !.at = label])
      BY <1>5, GotoArrives DEF Reread, Labels, Idle, Judged
    <2> QED
      BY <1>5, <2>1 DEF Reread
  <1>6. CASE PutAnswered(w)
    BY <1>6, SeeArrives DEF PutAnswered, See, Labels, Idle, Judged
  <1>7. CASE PutUnresolved(w)
    <2>1. attempts'[worker[w].action] = 1
      BY <1>0, <1>1, <1>7 DEF PutUnresolved, LocalOK, BeforeObservation
    <2> QED
      BY <1>7, <2>1, GotoArrives DEF PutUnresolved, Labels, Idle, Judged
  <1>8. CASE GetAnswered(w)
    BY <1>8, SeeArrives DEF GetAnswered, See, Labels, Idle, Judged
  <1>9. CASE GetUnresolved(w)
    BY <1>9, GotoArrives DEF GetUnresolved, Labels, Idle, Judged
  <1>10. CASE Confirm(w)
    <2>1. CASE Confirmed(w) /\ See(w, "verify")
      BY <1>10, <2>1, SeeArrives DEF Confirm, Confirmed, See, Labels, Idle, Judged
    <2>2. CASE Goto(w, "defer")
      BY <1>10, <2>2, GotoArrives DEF Confirm, Labels, Idle, Judged
    <2> QED
      BY <1>10, <2>1, <2>2 DEF Confirm
  <1> QED
    BY <1>2, <1>3, <1>4, <1>5, <1>6, <1>7, <1>8, <1>9, <1>10 DEF Look, Check

\* The steps that are no worker's leave the workers where they are; their
\* earliest readings only move forward.
Still ==
    /\ worker' = worker /\ puts' = puts
    /\ \A w \in Owners : earliest'[w] \in Nat /\ earliest[w] <= earliest'[w]
    /\ earliest' \in [Owners -> Nat]

\* A step moves no worker or one, which arrives; only the latter sends a PUT.
LEMMA WorkerMoves ==
    ASSUME GovInv, [Next]_vars
    PROVE  \/ Still
           \/ \E w \in Owners :
                /\ \E l : Become(w, l) /\ Arrived(l)
                /\ UNCHANGED clock
                /\ \/ puts' = puts
                   \/ At(w, "put") /\ puts' = [puts EXCEPT ![worker[w].action] = @ + 1]
  <1>0. /\ earliest \in [Owners -> Nat] /\ clock \in Nat /\ Horizon \in Nat /\ MaxWait \in Nat
    BY ClockAssumption DEF GovInv, WorkersTypeOK, StoreInv, StoreTypeOK, ClockTypeOK
  <1>1. CASE Ingress \/ SwitchAdmission \/ Arrive \/ Lose \/ Endpoint \/ UNCHANGED vars
    BY <1>0, <1>1 DEF Ingress, SwitchAdmission, Arrive, Lose, Endpoint, vars, Still
  <1>2. CASE Pass
    <2>1. clock' \in Nat
      BY <1>0, <1>2 DEF Pass, Tick
    <2>2. \A w \in Owners : earliest[w] \in Nat
      BY <1>0
    <2>3. \A w \in Owners :
             earliest'[w] = IF earliest[w] + MaxWait >= clock' THEN earliest[w] ELSE clock' - MaxWait
      BY <1>2 DEF Pass
    <2>4. \A w \in Owners : earliest'[w] \in Nat /\ earliest[w] <= earliest'[w]
      BY <1>0, <2>1, <2>2, <2>3
    <2>5. earliest' \in [Owners -> Nat]
      BY <1>2, <2>4 DEF Pass
    <2> QED
      BY <1>2, <2>4, <2>5 DEF Pass, Still
  <1>3. ASSUME NEW w \in Owners, WorkerStep(w)
        PROVE  /\ \E l : Become(w, l) /\ Arrived(l)
               /\ UNCHANGED clock
               /\ \/ puts' = puts
                  \/ At(w, "put") /\ puts' = [puts EXCEPT ![worker[w].action] = @ + 1]
    <2>1. CASE \E now \in Now(w) : StoreCall(w, now) /\ UNCHANGED <<wire, puts>>
      BY <1>3, <2>1, CallArrives DEF WorkerStep
    <2>2. CASE Look(w) /\ UNCHANGED <<wire, puts>>
      BY <1>3, <2>2, LookArrives DEF WorkerStep
    <2>3. CASE Put(w) /\ UNCHANGED storeVars
      <3>1. attempts'[worker[w].action] = 1
        BY <2>3 DEF Put, At, GovInv, WorkersOK, LocalOK, BeforeObservation, storeVars
      <3>2. Arrived([worker[w] EXCEPT !.at = "await"])
        BY <2>3, <3>1, GotoArrives DEF Put, At, Labels, Idle, Judged
      <3> QED
        BY <1>3, <2>3, <3>2 DEF WorkerStep, Put, Goto
    <2> QED
      BY <1>3, <2>1, <2>2, <2>3 DEF WorkerStep
  <1>4. ASSUME NEW w \in Owners, DatabaseBusy(w) \/ WorkerCrash(w)
        PROVE  (\E l : Become(w, l) /\ Arrived(l)) /\ UNCHANGED clock /\ puts' = puts
    BY <1>4, TopArrives DEF DatabaseBusy, WorkerCrash, Return
  <1> QED
    BY <1>1, <1>2, <1>3, <1>4 DEF Next

\* A worker that does not move keeps what its local variables say.
LEMMA StaysOK ==
    ASSUME GovInv, [Next]_vars, NEW v \in Owners, worker'[v] = worker[v],
           earliest'[v] \in Nat, earliest[v] <= earliest'[v],
           At(v, "put") => puts'[worker[v].action] = puts[worker[v].action]
    PROVE  LocalOK(worker[v], earliest[v])'
  <1> DEFINE a == worker[v].action
  <1>1. LocalOK(worker[v], earliest[v]) /\ earliest[v] \in Nat
    BY DEF GovInv, WorkersOK, WorkersTypeOK
  <1>2. a \in Actions /\ attempts[a] = 1 => attempts'[a] = 1 /\ contracts'[a] = contracts[a]
    BY StoreSteps, SpentKept DEF GovInv
  <1>3. a \in Actions /\ row[a] = "completed" => row'[a] = "completed" /\ result'[a] = result[a]
    BY LedgerSteps, CompletedKept
  <1>4. \A c \in contracts[a] : a \in Actions /\ c.issued <= earliest[v] => c.issued <= earliest'[v]
    <2>1. a \in Actions => \A c \in contracts[a] : c.issued \in Nat
      BY DEF GovInv, StoreInv, StoreTypeOK, Contracts
    <2> QED
      BY <1>1, <2>1
  <1>5. worker[v].at \notin Idle => a \in Actions
    BY <1>1 DEF LocalOK
  <1>6. BeforeObservation(worker[v]) => worker[v].at \notin Idle
    BY DEF BeforeObservation, Idle
  <1> HIDE DEF a
  <1>7. /\ worker[v].at \notin Idle => a \in Actions
        /\ worker[v].at \in Judged => worker[v].gate \in GateMenu
        /\ worker[v].at = "check" => worker[v].from \in {"gated", "dispatched", "accepted", "verified"}
        /\ worker[v].at = "put" => puts'[a] = 0
        /\ BeforeObservation(worker[v]) =>
              attempts'[a] = 1 /\ \A c \in contracts'[a] : c.issued <= earliest'[v]
        /\ worker[v].at \in {"accept", "verify"} =>
              row'[a] = "completed" /\ worker[v].observed = result'[a]
    BY <1>1, <1>2, <1>3, <1>4, <1>5, <1>6 DEF LocalOK, Idle, At, a
  <1> QED
    BY <1>7 DEF LocalOK, a, BeforeObservation

\* A worker that moved is right about the new state.
LEMMA MovedOK ==
    ASSUME GovInv, [Next]_vars, NEW w \in Owners, NEW l, Become(w, l), Arrived(l), UNCHANGED clock
    PROVE  LocalOK(worker[w], earliest[w])'
  <1>1. worker'[w] = l /\ earliest'[w] = clock
    BY DEF Become, GovInv, WorkersTypeOK
  <1>2. \A a \in Actions : \A c \in contracts'[a] : c.issued <= clock
    BY DatedInv DEF Dated
  <1>3. BeforeObservation(l) => l.action \in Actions
    BY DEF Arrived, BeforeObservation, Idle
  <1> QED
    BY <1>1, <1>2, <1>3 DEF LocalOK, Arrived, BeforeObservation

\* The workers together.
LEMMA WorkersInv ==
    ASSUME GovInv, [Next]_vars
    PROVE  WorkersTypeOK' /\ WorkersOK' /\ OneSender' /\ PutsSpend'
  <1>0. /\ worker \in [Owners -> Locals] /\ earliest \in [Owners -> Nat] /\ puts \in [Actions -> Nat]
        /\ clock \in Nat
        /\ attempts \in [Actions -> Nat] /\ attempts' \in [Actions -> Nat]
        /\ \A a \in Actions : attempts[a] <= attempts'[a]
    <2>1. StoreInv'
      BY PartsInv
    <2>2. \A a \in Actions : attempts[a] <= attempts'[a]
      BY StoreSteps, SpentKept DEF GovInv
    <2> QED
      BY <2>1, <2>2, ClockAssumption DEF GovInv, WorkersTypeOK, StoreInv, StoreTypeOK, ClockTypeOK
  <1>1. CASE Still
    <2>1. WorkersTypeOK'
      BY <1>0, <1>1 DEF Still, WorkersTypeOK
    <2>2. WorkersOK'
      BY <1>1, StaysOK DEF Still, WorkersOK
    <2>3. OneSender'
      BY <1>1 DEF Still, OneSender, At, GovInv
    <2>4. PutsSpend'
      BY <1>0, <1>1 DEF Still, PutsSpend, GovInv
    <2> QED
      BY <2>1, <2>2, <2>3, <2>4
  <1>2. ASSUME NEW w \in Owners, NEW l, Become(w, l), Arrived(l), UNCHANGED clock,
               \/ puts' = puts
               \/ At(w, "put") /\ puts' = [puts EXCEPT ![worker[w].action] = @ + 1]
        PROVE  WorkersTypeOK' /\ WorkersOK' /\ OneSender' /\ PutsSpend'
    <2> DEFINE a == worker[w].action
    <2>1. /\ worker'[w] = l
          /\ \A v \in Owners \ {w} : worker'[v] = worker[v] /\ earliest'[v] = earliest[v]
          /\ worker' \in [Owners -> Locals] /\ earliest' \in [Owners -> Nat]
      BY <1>0, <1>2 DEF Become, Arrived
    <2>2. At(w, "put") => a \in Actions /\ puts[a] = 0 /\ attempts[a] = 1
      BY DEF GovInv, WorkersOK, LocalOK, At, Idle, BeforeObservation
    <2>3. /\ \A b \in Actions \ {a} : puts'[b] = puts[b]
          /\ puts' \in [Actions -> Nat]
      BY <1>0, <1>2
    <2>4. WorkersTypeOK'
      BY <2>1, <2>3 DEF WorkersTypeOK
    <2>5. ASSUME NEW v \in Owners \ {w} PROVE LocalOK(worker[v], earliest[v])'
      <3>1. At(v, "put") => puts'[worker[v].action] = puts[worker[v].action]
        <4>1. At(v, "put") => worker[v].action \in Actions
          BY DEF GovInv, WorkersOK, LocalOK, At, Idle
        <4>2. At(v, "put") /\ At(w, "put") => worker[v].action # a
          BY DEF GovInv, OneSender
        <4> QED
          BY <1>2, <2>3, <4>1, <4>2
      <3>2. earliest'[v] \in Nat /\ earliest[v] <= earliest'[v]
        BY <1>0, <2>1
      <3> QED
        BY <2>1, <3>1, <3>2, StaysOK
    <2>6. WorkersOK'
      BY <1>2, <2>5, MovedOK DEF WorkersOK
    <2>7. OneSender'
      <3>1. ASSUME NEW v \in Owners \ {w}, worker[v].at = "put", l.at = "put"
            PROVE  worker[v].action # l.action
        <4>1. attempts[worker[v].action] = 1
          BY <3>1 DEF GovInv, WorkersOK, LocalOK, BeforeObservation
        <4> QED
          BY <1>2, <3>1, <4>1 DEF Arrived
      <3> QED
        BY <2>1, <3>1 DEF OneSender, At, GovInv
    <2>8. PutsSpend'
      <3>1. ASSUME NEW b \in Actions PROVE puts'[b] <= attempts'[b]
        <4>1. CASE puts' = puts
          BY <1>0, <4>1 DEF GovInv, PutsSpend
        <4>2. CASE At(w, "put") /\ puts' = [puts EXCEPT ![a] = @ + 1]
          <5>1. b = a => puts'[b] = 1 /\ attempts[b] = 1
            BY <1>0, <2>2, <4>2
          <5>2. b # a => puts'[b] = puts[b]
            BY <1>0, <4>2
          <5> QED
            BY <1>0, <5>1, <5>2 DEF GovInv, PutsSpend
        <4> QED
          BY <1>2, <4>1, <4>2
      <3> QED
        BY <3>1 DEF PutsSpend
    <2> QED
      BY <2>4, <2>6, <2>7, <2>8
  <1> QED
    BY <1>1, <1>2, WorkerMoves

\* Only requests of spent attempts are on the wire.
LEMMA WireInv ==
    ASSUME GovInv, [Next]_vars
    PROVE  WireSpent'
  <1>1. \A a \in Actions : attempts[a] = 1 => attempts'[a] = 1
    BY StoreSteps, SpentKept DEF GovInv
  <1>2. \A r \in Requests : r.action \in Actions
    BY RequestActions, SameActions
  <1>3. ASSUME wire' \subseteq wire PROVE WireSpent'
    BY <1>1, <1>2, <1>3 DEF WireSpent, GovInv
  <1>4. ASSUME NEW w \in Owners, WorkerStep(w) PROVE WireSpent'
    <2>1. CASE Put(w)
      <3>1. /\ worker[w].action \in Actions /\ worker[w].gate \in GateMenu
            /\ attempts[worker[w].action] = 1
        BY <2>1 DEF Put, At, GovInv, WorkersOK, LocalOK, BeforeObservation, Idle, Judged, Labels
      <3>2. RequestIn(w) \in Requests /\ RequestIn(w).action = worker[w].action
        BY <3>1, SameActions DEF RequestIn
      <3>3. wire' = wire \cup {<<w, RequestIn(w)>>}
        BY <2>1 DEF Put
      <3> QED
        BY <1>1, <1>2, <3>1, <3>2, <3>3 DEF WireSpent, GovInv
    <2>2. CASE wire' = wire
      BY <1>3, <2>2
    <2> QED
      BY <1>4, <2>1, <2>2 DEF WorkerStep
  <1>5. CASE \E w \in Owners : DatabaseBusy(w) \/ WorkerCrash(w)
    BY <1>3, <1>5 DEF DatabaseBusy, WorkerCrash
  <1>6. CASE Ingress \/ SwitchAdmission \/ Endpoint \/ Pass \/ UNCHANGED vars
    BY <1>3, <1>6 DEF Ingress, SwitchAdmission, Endpoint, Pass, vars
  <1>7. CASE Arrive \/ Lose
    BY <1>3, <1>7 DEF Arrive, Lose
  <1> QED
    BY <1>4, <1>5, <1>6, <1>7 DEF Next

-----------------------------------------------------------------------------
(* The theorems.                                                           *)

\* The invariant holds at the start.
LEMMA GovInitInv == Init => GovInv
  <1> SUFFICES ASSUME Init PROVE GovInv
    OBVIOUS
  <1>1. StoreInv /\ LedgerInv
    BY StoreInitInv, LedgerInitInv DEF Init
  <1>2. AtTop("recover") \in Locals
    BY DEF AtTop, Locals, Labels, States
  <1>3. WorkersTypeOK
    BY <1>2 DEF Init, WorkersTypeOK
  <1>4. WorkersOK /\ OneSender
    BY DEF Init, WorkersOK, OneSender, LocalOK, AtTop, At, Idle, Judged, BeforeObservation
  <1>5. PutsSpend /\ WireSpent
    BY DEF Init, StoreInit, PutsSpend, WireSpent
  <1>6. RowsSpent /\ Dated
    BY SameActions, ClockAssumption DEF Init, StoreInit, LedgerInit, RowsSpent, Dated
  <1>7. AcceptedIsTrue /\ JournalStaysValid
    BY DEF Init, StoreInit, AcceptedIsTrue, JournalStaysValid
  <1> QED
    BY <1>1, <1>3, <1>4, <1>5, <1>6, <1>7 DEF GovInv

\* Every step keeps it.
LEMMA GovNextInv == GovInv /\ [Next]_vars => GovInv'
  BY PartsInv, WorkersInv, WireInv, RowsSpentInv, DatedInv, AcceptedInv, JournalInv DEF GovInv

\* The conjunction that is inductive holds in every reachable state.
THEOREM GovernedInvariant == Spec => []GovInv
  BY GovInitInv, GovNextInv, PTL DEF Spec

\* The real workers, network and endpoint use the store as one of the clients
\* StoreSpec admits: every theorem about the store under arbitrary clients
\* holds of the composed system.
THEOREM GovernedUsesStore == Spec => StoreSpec
  <1>1. Init => StoreInit
    BY DEF Init
  <1>2. GovInv /\ [Next]_vars => [StoreNext]_<<clock, storeVars>>
    BY StoreSteps
  <1> QED
    BY <1>1, <1>2, GovernedInvariant, PTL DEF Spec, StoreSpec

\* They use the endpoint as LedgerSpec's arbitrary clients do.
THEOREM GovernedUsesLedger == Spec => LedgerSpec
  <1>1. Init => LedgerInit
    BY DEF Init
  <1>2. GovInv /\ [Next]_vars => [LedgerNext]_<<clock, ledgerVars>>
    BY LedgerSteps
  <1> QED
    BY <1>1, <1>2, GovernedInvariant, PTL DEF Spec, LedgerSpec

\* worker.py never retries a mutation: at most one PUT per action is ever
\* sent, by all workers together, over crashes, expired leases and restarts.
THEOREM GovernedPutsOnce == Spec => []OnePut
  <1>1. GovInv => OnePut
    <2> SUFFICES ASSUME GovInv, NEW a \in Actions PROVE puts[a] <= 1
      BY DEF OnePut
    <2>1. puts[a] \in Nat /\ puts[a] <= attempts[a] /\ attempts[a] \in Nat
      BY DEF GovInv, WorkersTypeOK, PutsSpend, StoreInv, StoreTypeOK
    <2>2. attempts[a] <= 1
      BY <2>1 DEF GovInv, StoreInv, AuthoritySpentOnce
    <2> QED
      BY <2>1, <2>2
  <1> QED
    BY <1>1, GovernedInvariant, PTL

\* An acceptance the store holds is the endpoint's final result of exactly one
\* effect.
THEOREM GovernedAcceptsTruth == Spec => []AcceptedIsTrue
  BY GovernedInvariant, PTL DEF GovInv

\* No interleaving of workers and clock readings writes a journal that the
\* store would later call corrupt.
THEOREM GovernedJournalsValid == Spec => []JournalStaysValid
  BY GovernedInvariant, PTL DEF GovInv

\* The executor performs every governed action at most once.
THEOREM GovernedPerformsOnce == Spec => []PerformedAtMostOnce
  BY GovernedInvariant, PTL DEF GovInv, LedgerInv

\* What the endpoint tells the workers about the effect is true.
THEOREM GovernedTruthful == Spec => []ProjectionTruthful
  BY GovernedUsesLedger, LedgerTruthful, PTL

-----------------------------------------------------------------------------
(* The refinement of OneMutation.                                          *)

\* The verdict is read off the state and the attempt.
LEMMA VerdictOf ==
    ASSUME NEW a
    PROVE  /\ state[a] \in {"absent", "proposed", "gated"} => Verdict(a) = "open"
           /\ state[a] \in {"dispatched", "accepted", "verified"} => Verdict(a) = "authorized"
           /\ state[a] = "completed" => Verdict(a) = "confirmed"
           /\ state[a] = "failed" /\ attempts[a] = 0 => Verdict(a) = "refused"
           /\ state[a] = "failed" /\ attempts[a] # 0 => Verdict(a) = "ambiguous"
  BY DEF Verdict

\* The same of the next state.
LEMMA VerdictThen ==
    ASSUME NEW a
    PROVE  /\ state'[a] \in {"absent", "proposed", "gated"} => Verdict(a)' = "open"
           /\ state'[a] \in {"dispatched", "accepted", "verified"} => Verdict(a)' = "authorized"
           /\ state'[a] = "completed" => Verdict(a)' = "confirmed"
           /\ state'[a] = "failed" /\ attempts'[a] = 0 => Verdict(a)' = "refused"
           /\ state'[a] = "failed" /\ attempts'[a] # 0 => Verdict(a)' = "ambiguous"
           /\ state'[a] = state[a] /\ attempts'[a] = attempts[a] => Verdict(a)' = Verdict(a)
  BY DEF Verdict

\* What a store call may do to the verdicts.
Ends(F) ==
    /\ \A a \in F : Verdict(a) = "authorized" /\ Verdict(a)' = "ambiguous"
    /\ \A a \in Actions \ F : Verdict(a)' = Verdict(a)

Changes(b, from, to) ==
    /\ Verdict(b) = from /\ Verdict(b)' = to
    /\ \A a \in Actions \ {b} : Verdict(a)' = Verdict(a)

\* Ending rows whose attempt is spent gives them up.
LEMMA TerminalizeEnds ==
    ASSUME StoreInv, NEW F \in SUBSET Actions, Terminalize(F), attempts' = attempts,
           \A a \in F : state[a] \in {"dispatched", "accepted", "verified"}
    PROVE  Ends(F)
  <1>1. \A a \in F : attempts[a] = 1
    BY DEF StoreInv, AuthoritySpentOnce
  <1>2. \A a \in Actions : state'[a] = IF a \in F THEN "failed" ELSE state[a]
    BY DEF Terminalize
  <1> QED
    BY <1>1, <1>2, VerdictOf, VerdictThen DEF Ends

\* Ending one live row refuses it or gives it up.
LEMMA FailEnds ==
    ASSUME StoreInv, NEW b \in Actions, Live(b), FailAndDeadLetter(b)
    PROVE  Changes(b, "open", "refused") \/ \E F \in SUBSET Actions : Ends(F)
  <1>1. Terminalize({b}) /\ attempts' = attempts
    BY DEF FailAndDeadLetter
  <1>2. CASE state[b] = "gated"
    <2>1. attempts[b] = 0
      BY <1>2 DEF StoreInv, AuthoritySpentOnce
    <2>2. \A a \in Actions : state'[a] = IF a \in {b} THEN "failed" ELSE state[a]
      BY <1>1 DEF Terminalize
    <2> QED
      BY <1>1, <1>2, <2>1, <2>2, VerdictOf, VerdictThen DEF Changes
  <1>3. CASE state[b] # "gated"
    <2>1. {b} \in SUBSET Actions /\ state[b] \in {"dispatched", "accepted", "verified"}
      BY <1>3 DEF Live, LeaseableStates
    <2>2. Ends({b})
      BY <1>1, <2>1, TerminalizeEnds
    <2> QED
      BY <2>1, <2>2
  <1> QED
    BY <1>2, <1>3

\* Every call of the store, whoever makes it, is a step of the verdicts.
LEMMA VerdictSteps ==
    ASSUME StoreInv, [StoreNext]_<<clock, storeVars>>
    PROVE  \/ \E F \in SUBSET Actions : Ends(F)
           \/ \E b \in Actions : \/ Changes(b, "open", "refused")
                                 \/ Changes(b, "open", "authorized")
                                 \/ state[b] = "verified" /\ Changes(b, "authorized", "confirmed")
  <1> USE DEF StoreInv, StoreTypeOK
  <1>0. clock \in 1..Horizon
    BY DEF ClockTypeOK
  <1>1. ASSUME \A a \in Actions : Verdict(a)' = Verdict(a)
        PROVE  \E F \in SUBSET Actions : Ends(F)
    <2>1. Ends({})
      BY <1>1 DEF Ends
    <2> QED
      BY <2>1
  <1>2. ASSUME UNCHANGED <<state, attempts>> PROVE \E F \in SUBSET Actions : Ends(F)
    BY <1>1, <1>2, VerdictThen
  <1>3. ASSUME NEW now \in Nat, NEW scope \in SUBSET Actions, NEW F \in SUBSET Actions,
               F \subseteq Abandoned(scope, now) \cup Walked(scope, now),
               Terminalize(F), attempts' = attempts
        PROVE  \E G \in SUBSET Actions : Ends(G)
    <2>1. \A a \in F : state[a] = "dispatched"
      BY <1>3, WalkedRows DEF Abandoned
    <2> QED
      BY <1>3, <2>1, TerminalizeEnds
  <1>4. ASSUME NEW now \in Nat, NEW scope \in SUBSET Actions, RecoverExpiredLeases(scope, now)
        PROVE  \E F \in SUBSET Actions : Ends(F)
    BY <1>3, <1>4, WalkedRows DEF RecoverExpiredLeases
  <1>5. ASSUME NEW now \in Nat, Unleased(now)
        PROVE  \E F \in SUBSET Actions : Ends(F)
    <2>1. ASSUME NEW a \in Actions, Propose(a, now) \/ \E g \in GateMenu : AttachGate(a, g)
          PROVE  \A b \in Actions : Verdict(b)' = Verdict(b)
      <3>1. /\ \A b \in Actions \ {a} : state'[b] = state[b]
            /\ attempts' = attempts
            /\ state[a] \in {"absent", "proposed", "gated"}
            /\ state'[a] \in {"absent", "proposed", "gated"}
        BY <2>1 DEF Propose, AttachGate
      <3> QED
        BY <3>1, VerdictOf, VerdictThen
    <2>2. ASSUME NEW a, NEW k, NEW r, AddReceipt(a, k, r) PROVE UNCHANGED <<state, attempts>>
      BY <2>2 DEF AddReceipt
    <2> QED
      BY <1>1, <1>2, <1>4, <1>5, <2>1, <2>2 DEF Unleased
  <1>6. ASSUME NEW now \in Nat, Claims(now)
        PROVE  \E F \in SUBSET Actions : Ends(F)
    <2>1. PICK scope \in (SUBSET Actions) \ {{}} :
          \/ \E S \in (SUBSET LeaseableStates) \ {{}} :
                \/ \E x \in scope, o \in Owners : LeaseNext(x, o, S, scope, now)
                \/ LeaseNone(S, scope, now)
          \/ \E x \in scope, o \in Owners : LeaseDispatchedObservation(x, o, scope, now)
          \/ ObservationLeaseNone(scope, now)
      BY <1>6 DEF Claims
    <2>2. ASSUME NEW x, NEW o, NEW S, LeaseNext(x, o, S, scope, now)
          PROVE  \E F \in SUBSET Actions : Ends(F)
      BY <1>3, <2>2, WalkedRows DEF LeaseNext
    <2>3. ASSUME NEW S, LeaseNone(S, scope, now) PROVE \E F \in SUBSET Actions : Ends(F)
      BY <1>4, <2>3 DEF LeaseNone
    <2>4. ASSUME NEW x, NEW o, LeaseDispatchedObservation(x, o, scope, now)
          PROVE  \E F \in SUBSET Actions : Ends(F)
      <3>1. PICK passed \in SUBSET Exhausted(scope, now) :
               Terminalize(Abandoned(scope, now) \cup passed) /\ attempts' = attempts
        BY <2>4 DEF LeaseDispatchedObservation
      <3> QED
        BY <1>3, <3>1, WalkedRows
    <2>5. ASSUME ObservationLeaseNone(scope, now) PROVE \E F \in SUBSET Actions : Ends(F)
      BY <1>3, <2>5, WalkedRows DEF ObservationLeaseNone
    <2> QED
      BY <2>1, <2>2, <2>3, <2>4, <2>5
  <1>7. ASSUME NEW now \in Nat, NEW b \in Actions, NEW o \in Owners, Leased(b, o, now)
        PROVE  \/ \E F \in SUBSET Actions : Ends(F)
               \/ Changes(b, "open", "refused")
               \/ Changes(b, "open", "authorized")
               \/ state[b] = "verified" /\ Changes(b, "authorized", "confirmed")
    <2>0. Live(b)
      BY <1>7, LeasedTouchesOne
    <2>1. CASE FailAndDeadLetter(b)
      BY <2>0, <2>1, FailEnds
    <2>2. CASE UNCHANGED <<state, attempts>>
      BY <1>2, <2>2
    <2>3. ASSUME NEW g, BeginOwnerAuthorizedDispatch(b, o, g, now)
          PROVE  Changes(b, "open", "authorized")
      <3>1. /\ state[b] = "gated" /\ state'[b] = "dispatched"
            /\ \A a \in Actions \ {b} : state'[a] = state[a] /\ attempts'[a] = attempts[a]
        BY <2>3 DEF BeginOwnerAuthorizedDispatch, DispatchAuthorized
      <3> QED
        BY <3>1, VerdictOf, VerdictThen DEF Changes
    <2>4. ASSUME NEW k, NEW e, NEW Q, Accept(b, o, k, e, now) \/ Verify(b, o, k, e, Q, now)
          PROVE  \A a \in Actions : Verdict(a)' = Verdict(a)
      <3>1. /\ state[b] \in {"dispatched", "accepted"} /\ state'[b] \in {"accepted", "verified"}
            /\ attempts' = attempts
            /\ \A a \in Actions \ {b} : state'[a] = state[a]
        BY <2>4 DEF Accept, MayAccept, Verify, MayVerify
      <3> QED
        BY <3>1, VerdictOf, VerdictThen
    <2>5. CASE Complete(b, o, now)
      <3>1. /\ state[b] = "verified" /\ state'[b] = "completed"
            /\ attempts' = attempts
            /\ \A a \in Actions \ {b} : state'[a] = state[a]
        BY <2>5 DEF Complete, MayComplete
      <3> QED
        BY <3>1, VerdictOf, VerdictThen DEF Changes
    <2>6. \/ FailAndDeadLetter(b)
          \/ UNCHANGED <<state, attempts>>
          \/ \E g : BeginOwnerAuthorizedDispatch(b, o, g, now)
          \/ \E k, e, Q : Accept(b, o, k, e, now) \/ Verify(b, o, k, e, Q, now)
          \/ Complete(b, o, now)
      BY <1>7 DEF Leased, BeginDispatchedObservation, ObservationRefused,
                  DeferDispatchedObservation, DeferralExhausted, DeferLeased, FailAttempt
    <2> QED
      BY <1>1, <2>1, <2>2, <2>3, <2>4, <2>5, <2>6
  <1>8. CASE UNCHANGED storeVars
    BY <1>2, <1>8 DEF storeVars
  <1>9. \A now \in Readings : now \in Nat
    BY <1>0, ReadingsAreInstants
  <1> QED
    BY <1>5, <1>6, <1>7, <1>8, <1>9 DEF StoreNext

\* The effects change only when the endpoint performs, and then nothing else
\* does.
LEMMA EffectSteps ==
    ASSUME GovInv, [Next]_vars
    PROVE  effects' = effects \/ (PerformEffect /\ UNCHANGED storeVars)
  <1>1. CASE Arrive
    BY <1>1 DEF Arrive, Arrivals, ExecuteNew, ExecuteAgain, ExecuteTooLate, FailPrepared,
                ExecuteAnswered, ledgerVars
  <1>2. CASE Endpoint
    BY <1>2 DEF Endpoint, Serving, PreparationFails, PreparationCancelled, ApprovalLapsed,
                FailPrepared, MarkExecuting, PerformReturns, PerformUnwinds, Finish, FinishRaises,
                Crash, RecoverExecuting
  <1>3. CASE SwitchAdmission \/ Lose \/ Ingress \/ Pass \/ UNCHANGED vars
    BY <1>3 DEF SwitchAdmission, Lose, Ingress, Pass, vars, ledgerVars
  <1>4. CASE \E w \in Owners : WorkerStep(w) \/ DatabaseBusy(w) \/ WorkerCrash(w)
    BY <1>4 DEF WorkerStep, DatabaseBusy, WorkerCrash, ledgerVars
  <1> QED
    BY <1>1, <1>2, <1>3, <1>4 DEF Next

\* The initial states map to initial states.
LEMMA AbstractInit ==
    ASSUME Init
    PROVE  Abstract!Init
  <1>1. [a \in Actions |-> Verdict(a)] = [a \in Actions |-> "open"]
    BY VerdictOf DEF Init, StoreInit
  <1>2. effects = [a \in Actions |-> 0]
    BY SameActions DEF Init, LedgerInit
  <1> QED
    BY <1>1, <1>2 DEF Abstract!Init

\* Every step maps to a step or a stutter.
LEMMA AbstractStep ==
    ASSUME GovInv, [Next]_vars
    PROVE  [Abstract!Next]_<<[a \in Actions |-> Verdict(a)], effects>>
  <1> DEFINE v == [a \in Actions |-> Verdict(a)]
  <1>0. \A a \in Actions : v[a] = Verdict(a) /\ v'[a] = Verdict(a)'
    OBVIOUS
  <1>1. v' = [a \in Actions |-> v'[a]]
    OBVIOUS
  <1>2. CASE PerformEffect /\ UNCHANGED storeVars
    <2> DEFINE b == handler.request.action
    <2>1. handler.phase = "performing"
      BY <1>2 DEF PerformEffect
    <2>2. b \in Actions /\ handler.request # NoRequest
      BY <2>1, HandlerRequest, SameActions DEF GovInv
    <2>3. effects[b] = 0 /\ row[b] = "executing"
      BY <2>1, <2>2 DEF GovInv, LedgerInv, HandlerOwnsRow
    <2>4. attempts[b] = 1
      BY <2>2, <2>3 DEF GovInv, RowsSpent
    <2>5. state[b] \in {"dispatched", "failed"}
      <3>1. state[b] \in States
        BY <2>2 DEF GovInv, StoreInv, StoreTypeOK
      <3>2. state[b] \notin {"absent", "proposed", "gated"}
        BY <2>2, <2>4 DEF GovInv, StoreInv, AuthoritySpentOnce
      <3>3. state[b] \notin {"accepted", "verified", "completed"}
        BY <2>2, <2>3 DEF GovInv, AcceptedIsTrue
      <3> QED
        BY <3>1, <3>2, <3>3 DEF States
    <2>6. Verdict(b) \in {"authorized", "ambiguous"}
      BY <2>4, <2>5, VerdictOf
    <2>7. v' = v
      BY <1>2, VerdictThen DEF storeVars
    <2>8. effects' = [effects EXCEPT ![b] = 1]
      BY <1>2, <2>3 DEF PerformEffect
    <2>9. Abstract!Perform(b)
      BY <2>2, <2>3, <2>6, <2>7, <2>8 DEF Abstract!Perform
    <2> QED
      BY <2>2, <2>9 DEF Abstract!Next
  <1>3. ASSUME effects' = effects, NEW F \in SUBSET Actions, Ends(F)
        PROVE  Abstract!Next
    <2>1. \A a \in F : v[a] = "authorized"
      BY <1>0, <1>3 DEF Ends
    <2>2. v' = [a \in Actions |-> IF a \in F THEN "ambiguous" ELSE v[a]]
      BY <1>0, <1>3 DEF Ends
    <2>3. Abstract!GiveUp(F)
      BY <1>3, <2>1, <2>2 DEF Abstract!GiveUp
    <2> QED
      BY <2>3 DEF Abstract!Next
  <1>4. ASSUME NEW b \in Actions, NEW from, NEW to, Changes(b, from, to)
        PROVE  v[b] = from /\ v' = [v EXCEPT ![b] = to]
    BY <1>0, <1>4 DEF Changes
  <1>5. ASSUME effects' = effects, NEW b \in Actions, Changes(b, "open", "refused")
        PROVE  Abstract!Next
    <2>1. Abstract!Refuse(b)
      BY <1>4, <1>5 DEF Abstract!Refuse
    <2> QED
      BY <2>1 DEF Abstract!Next
  <1>6. ASSUME effects' = effects, NEW b \in Actions, Changes(b, "open", "authorized")
        PROVE  Abstract!Next
    <2>1. Abstract!Authorize(b)
      BY <1>4, <1>6 DEF Abstract!Authorize
    <2> QED
      BY <2>1 DEF Abstract!Next
  <1>7. ASSUME effects' = effects, NEW b \in Actions, state[b] = "verified",
               Changes(b, "authorized", "confirmed")
        PROVE  Abstract!Next
    <2>1. effects[b] = 1
      BY <1>7 DEF GovInv, AcceptedIsTrue
    <2>2. Abstract!Confirm(b)
      BY <1>4, <1>7, <2>1 DEF Abstract!Confirm
    <2> QED
      BY <2>2 DEF Abstract!Next
  <1>8. CASE effects' = effects
    <2>1. StoreInv /\ [StoreNext]_<<clock, storeVars>>
      BY StoreSteps DEF GovInv
    <2> QED
      BY <1>3, <1>5, <1>6, <1>7, <1>8, <2>1, VerdictSteps
  <1> QED
    BY <1>2, <1>8, EffectSteps

\* Workers, store, network and endpoint implement one-mutation-at-most, for
\* every instance: authorised once, performed only then and once at most, and
\* confirmed only after exactly one effect.
THEOREM GovernedImplementsOneMutation == Spec => ImplementsOneMutation
  BY AbstractInit, AbstractStep, GovernedInvariant, PTL
     DEF Spec, ImplementsOneMutation, Abstract!Spec

=============================================================================
