------------------------- MODULE ActionStoreProofs -------------------------
(***************************************************************************)
(* The action store keeps its promises for any set of actions and owners,  *)
(* any gate receipts, any lease, window and budget, any wait between clock *)
(* reading and commit, and arbitrary clients.                              *)
(*                                                                         *)
(* StoreInv is the inductive invariant.  Its parts lean on each other: a   *)
(* row that may still be gated has no contract because its attempt is      *)
(* unspent (AuthoritySpentOnce), which is why no call can add a gate to a  *)
(* consumed one (ContractBindsConsumedGate); the reaper may end what it    *)
(* finds because a lease is on a live row (LeasesOnLiveRows), which keeps  *)
(* dead letters equal to failed rows (FailureEvident).  The action         *)
(* properties follow from it by what each call touches: a call under a     *)
(* lease touches one row, a claiming call sweeps expired leases.           *)
(***************************************************************************)
EXTENDS ActionStore, TLAPS

\* The inductive invariant.
StoreInv ==
    /\ StoreTypeOK
    /\ AuthoritySpentOnce
    /\ ContractBindsConsumedGate
    /\ WitnessedAcceptance
    /\ FailureEvident
    /\ LeasesOnLiveRows
    /\ ObservationBounded

\* An empty store satisfies the invariant.
LEMMA StoreInitInv == StoreInit => StoreInv
  <1> SUFFICES ASSUME StoreInit PROVE StoreInv
    OBVIOUS
  <1>1. StoreTypeOK
    BY ClockAssumption DEF ClockInit, StoreInit, StoreTypeOK, ClockTypeOK, States, Leases, NoLease
  <1>2. AuthoritySpentOnce /\ ContractBindsConsumedGate /\ WitnessedAcceptance
    BY DEF StoreInit, AuthoritySpentOnce, ContractBindsConsumedGate, WitnessedAcceptance
  <1>3. FailureEvident /\ LeasesOnLiveRows
    BY DEF StoreInit, FailureEvident, LeasesOnLiveRows
  <1>4. ObservationBounded
    BY StoreAssumption DEF StoreInit, ObservationBounded
  <1> QED
    BY <1>1, <1>2, <1>3, <1>4 DEF StoreInv

\* propose keeps it: the new row has no lease, gate, contract or attempt.
LEMMA ProposeInv ==
    ASSUME StoreInv, NEW a \in Actions, NEW now \in Nat, Propose(a, now), UNCHANGED clock
    PROVE  StoreInv'
  <1> USE DEF StoreInv
  <1>1. StoreTypeOK'
    BY DEF Propose, StoreTypeOK, ClockTypeOK, States
  <1>2. AuthoritySpentOnce'
    BY DEF Propose, StoreTypeOK, AuthoritySpentOnce
  <1>3. ContractBindsConsumedGate'
    BY DEF Propose, StoreTypeOK, ContractBindsConsumedGate
  <1>4. WitnessedAcceptance'
    BY DEF Propose, StoreTypeOK, WitnessedAcceptance
  <1>5. FailureEvident'
    BY DEF Propose, StoreTypeOK, FailureEvident
  <1>6. LeasesOnLiveRows'
    BY DEF Propose, StoreTypeOK, LeasesOnLiveRows, LeaseableStates
  <1>7. ObservationBounded'
    BY DEF Propose, StoreTypeOK, ObservationBounded
  <1> QED
    BY <1>1, <1>2, <1>3, <1>4, <1>5, <1>6, <1>7

\* gate keeps it: a row that still takes gates has no contract to contradict.
LEMMA AttachGateInv ==
    ASSUME StoreInv, NEW a \in Actions, NEW g \in GateMenu, AttachGate(a, g), UNCHANGED clock
    PROVE  StoreInv'
  <1> USE DEF StoreInv
  <1>1. StoreTypeOK'
    BY DEF AttachGate, StoreTypeOK, ClockTypeOK, States
  <1>2. AuthoritySpentOnce'
    BY DEF AttachGate, StoreTypeOK, AuthoritySpentOnce
  <1>3. ContractBindsConsumedGate'
    <2>1. contracts[a] = {}
      BY DEF AttachGate, StoreTypeOK, AuthoritySpentOnce
    <2> QED
      BY <2>1 DEF AttachGate, StoreTypeOK, ContractBindsConsumedGate
  <1>4. WitnessedAcceptance'
    BY DEF AttachGate, StoreTypeOK, WitnessedAcceptance
  <1>5. FailureEvident' /\ LeasesOnLiveRows'
    BY DEF AttachGate, StoreTypeOK, FailureEvident, LeasesOnLiveRows, LeaseableStates
  <1>6. ObservationBounded'
    BY DEF AttachGate, ObservationBounded
  <1> QED
    BY <1>1, <1>2, <1>3, <1>4, <1>5, <1>6

\* add_receipt keeps it: a key is written once, so no acceptance is replaced.
LEMMA AddReceiptInv ==
    ASSUME StoreInv, NEW a \in Actions, NEW k \in ReceiptKeys, NEW r \in Receipts,
           AddReceipt(a, k, r), UNCHANGED clock
    PROVE  StoreInv'
  <1> USE DEF StoreInv
  <1>1. StoreTypeOK'
    BY DEF AddReceipt, StoreTypeOK, ClockTypeOK
  <1>2. WitnessedAcceptance'
    BY DEF AddReceipt, StoreTypeOK, WitnessedAcceptance
  <1>3. AuthoritySpentOnce' /\ ContractBindsConsumedGate' /\ FailureEvident'
    BY DEF AddReceipt, AuthoritySpentOnce, ContractBindsConsumedGate, FailureEvident
  <1>4. LeasesOnLiveRows' /\ ObservationBounded'
    BY DEF AddReceipt, LeasesOnLiveRows, ObservationBounded
  <1> QED
    BY <1>1, <1>2, <1>3, <1>4

\* Ending live rows keeps what the lifecycle says of attempts and receipts;
\* shared by the reaper, the walk and fail_attempt.
LEMMA TerminalizeInv ==
    ASSUME StoreInv, NEW F \in SUBSET Actions, NEW L \in [Actions -> Leases],
           \A a \in F : state[a] \in LeaseableStates \cup {"dispatched"} /\ L[a] = NoLease,
           \A a \in Actions : L[a] # NoLease => state[a] \in LeaseableStates \cup {"dispatched"},
           Terminalize(F), lease' = L,
           UNCHANGED <<clock, attempts, created, nextAttempt, gates, contracts, journal, receipts>>
    PROVE  StoreInv'
  <1> USE DEF StoreInv
  <1>1. StoreTypeOK'
    BY DEF Terminalize, StoreTypeOK, ClockTypeOK, States
  <1>2. AuthoritySpentOnce' /\ ContractBindsConsumedGate'
    BY DEF Terminalize, StoreTypeOK, AuthoritySpentOnce, ContractBindsConsumedGate
  <1>3. WitnessedAcceptance'
    BY DEF Terminalize, StoreTypeOK, WitnessedAcceptance
  <1>4. FailureEvident'
    BY DEF Terminalize, StoreTypeOK, FailureEvident
  <1>5. LeasesOnLiveRows'
    BY DEF Terminalize, StoreTypeOK, LeasesOnLiveRows
  <1>6. ObservationBounded'
    BY DEF ObservationBounded
  <1> QED
    BY <1>1, <1>2, <1>3, <1>4, <1>5, <1>6

\* Clearing leases yields leases.
LEMMA ReleaseType ==
    ASSUME lease \in [Actions -> Leases], NEW R
    PROVE  /\ Release(R, lease) \in [Actions -> Leases]
           /\ \A a \in Actions : Release(R, lease)[a] = IF a \in R THEN NoLease ELSE lease[a]
  BY DEF Release, Leases

\* The reaper keeps the invariant: the rows it ends were dispatched.
LEMMA RecoverInv ==
    ASSUME StoreInv, NEW scope \in SUBSET Actions, NEW now \in Nat,
           RecoverExpiredLeases(scope, now), UNCHANGED clock
    PROVE  StoreInv'
  <1> DEFINE F == Abandoned(scope, now)
             L == Release(Reaped(scope, now), lease)
  <1>1. F \subseteq Reaped(scope, now) /\ F \in SUBSET Actions
    BY DEF Abandoned, Reaped
  <1>2. L \in [Actions -> Leases]
           /\ \A a \in Actions : L[a] = IF a \in Reaped(scope, now) THEN NoLease ELSE lease[a]
    BY ReleaseType DEF StoreInv, StoreTypeOK
  <1>3. \A a \in F : state[a] \in LeaseableStates \cup {"dispatched"} /\ L[a] = NoLease
    BY <1>1, <1>2 DEF Reaped
  <1>4. \A a \in Actions : L[a] # NoLease => state[a] \in LeaseableStates \cup {"dispatched"}
    BY <1>2 DEF StoreInv, LeasesOnLiveRows
  <1>5. /\ Terminalize(F)
        /\ lease' = L
        /\ UNCHANGED <<clock, attempts, created, nextAttempt, gates, contracts, journal, receipts>>
    BY DEF RecoverExpiredLeases
  <1> HIDE DEF F, L
  <1> QED
    BY <1>1, <1>2, <1>3, <1>4, <1>5, TerminalizeInv

\* lease_next keeps the invariant: it reaps, then leases a row that is live.
LEMMA LeaseNextInv ==
    ASSUME StoreInv, NEW scope \in SUBSET Actions, NEW a \in scope, NEW o \in Owners,
           NEW S \in SUBSET LeaseableStates, NEW now \in Nat,
           LeaseNext(a, o, S, scope, now), UNCHANGED clock
    PROVE  StoreInv'
  <1> DEFINE F == Abandoned(scope, now)
             K == Release(Reaped(scope, now), lease)
             L == [K EXCEPT ![a] = Granted(o, now)]
  <1>1. F \subseteq Reaped(scope, now) /\ F \in SUBSET Actions
    BY DEF Abandoned, Reaped
  <1>2. K \in [Actions -> Leases]
           /\ \A b \in Actions : K[b] = IF b \in Reaped(scope, now) THEN NoLease ELSE lease[b]
    BY ReleaseType DEF StoreInv, StoreTypeOK
  <1>3. Granted(o, now) \in Leases
    BY StoreAssumption DEF Granted, Leases
  <1>4. state[a] \in LeaseableStates /\ a \in Actions
    BY DEF LeaseNext, Claimable, Ready
  <1>5. L \in [Actions -> Leases]
           /\ \A b \in Actions \ {a} : L[b] = K[b]
    BY <1>2, <1>3
  <1>6. a \notin F
    BY <1>4 DEF Abandoned, LeaseableStates
  <1>7. \A b \in F : state[b] \in LeaseableStates \cup {"dispatched"} /\ L[b] = NoLease
    BY <1>1, <1>2, <1>5, <1>6 DEF Reaped
  <1>8. \A b \in Actions : L[b] # NoLease => state[b] \in LeaseableStates \cup {"dispatched"}
    BY <1>2, <1>4, <1>5 DEF StoreInv, LeasesOnLiveRows
  <1>9. /\ Terminalize(F)
        /\ lease' = L
        /\ UNCHANGED <<clock, attempts, created, nextAttempt, gates, contracts, journal, receipts>>
    BY DEF LeaseNext
  <1> HIDE DEF F, K, L
  <1> QED
    BY <1>1, <1>5, <1>7, <1>8, <1>9, TerminalizeInv

\* The rows lease_dispatched_observation walks are dispatched and not leased.
LEMMA WalkedRows ==
    ASSUME NEW scope \in SUBSET Actions, NEW now \in Nat
    PROVE  /\ Exhausted(scope, now) \subseteq Walked(scope, now)
           /\ Walked(scope, now) \subseteq Actions
           /\ \A b \in Walked(scope, now) : state[b] = "dispatched" /\ b \notin Abandoned(scope, now)
           /\ Abandoned(scope, now) \subseteq Reaped(scope, now)
           /\ Reaped(scope, now) \subseteq Actions
           /\ \A b \in Reaped(scope, now) : state[b] \in LeaseableStates \cup {"dispatched"}
  BY DEF Exhausted, Walked, Ready, Abandoned, Reaped

\* lease_dispatched_observation keeps the invariant.
LEMMA LeaseDispatchedObservationInv ==
    ASSUME StoreInv, NEW scope \in SUBSET Actions, NEW a \in scope, NEW o \in Owners,
           NEW now \in Nat, LeaseDispatchedObservation(a, o, scope, now), UNCHANGED clock
    PROVE  StoreInv'
  <1>1. PICK passed \in SUBSET {b \in Exhausted(scope, now) : ~Before(a, b)} :
          /\ Terminalize(Abandoned(scope, now) \cup passed)
          /\ lease' = [Release(Reaped(scope, now) \cup passed, lease)
                         EXCEPT ![a] = Granted(o, now)]
    BY DEF LeaseDispatchedObservation
  <1> DEFINE F == Abandoned(scope, now) \cup passed
             R == Reaped(scope, now) \cup passed
             K == Release(R, lease)
             L == [K EXCEPT ![a] = Granted(o, now)]
  <1>2. /\ F \in SUBSET Actions /\ F \subseteq R
        /\ \A b \in F : state[b] \in LeaseableStates \cup {"dispatched"}
    BY WalkedRows
  <1>3. /\ K \in [Actions -> Leases]
        /\ \A b \in Actions : K[b] = IF b \in R THEN NoLease ELSE lease[b]
    BY ReleaseType DEF StoreInv, StoreTypeOK
  <1>4. a \in Actions /\ state[a] = "dispatched" /\ a \notin F
    BY WalkedRows DEF LeaseDispatchedObservation, ClaimableObservation
  <1>5. L \in [Actions -> Leases] /\ \A b \in Actions \ {a} : L[b] = K[b]
    <2>1. Granted(o, now) \in Leases
      BY StoreAssumption DEF Granted, Leases
    <2> QED
      BY <1>3, <2>1
  <1>6. \A b \in F : state[b] \in LeaseableStates \cup {"dispatched"} /\ L[b] = NoLease
    BY <1>2, <1>3, <1>4, <1>5
  <1>7. \A b \in Actions : L[b] # NoLease => state[b] \in LeaseableStates \cup {"dispatched"}
    BY <1>3, <1>4, <1>5 DEF StoreInv, LeasesOnLiveRows
  <1>8. /\ Terminalize(F)
        /\ lease' = L
        /\ UNCHANGED <<clock, attempts, created, nextAttempt, gates, contracts, journal, receipts>>
    BY <1>1 DEF LeaseDispatchedObservation
  <1> HIDE DEF F, R, K, L
  <1> QED
    BY <1>2, <1>5, <1>6, <1>7, <1>8, TerminalizeInv

\* So does the walk that finds nothing to lease.
LEMMA ObservationLeaseNoneInv ==
    ASSUME StoreInv, NEW scope \in SUBSET Actions, NEW now \in Nat,
           ObservationLeaseNone(scope, now), UNCHANGED clock
    PROVE  StoreInv'
  <1> DEFINE F == Abandoned(scope, now) \cup Exhausted(scope, now)
             R == Reaped(scope, now) \cup Exhausted(scope, now)
             L == Release(R, lease)
  <1>1. /\ F \in SUBSET Actions /\ F \subseteq R
        /\ \A b \in F : state[b] \in LeaseableStates \cup {"dispatched"}
    BY WalkedRows
  <1>2. /\ L \in [Actions -> Leases]
        /\ \A b \in Actions : L[b] = IF b \in R THEN NoLease ELSE lease[b]
    BY ReleaseType DEF StoreInv, StoreTypeOK
  <1>3. \A b \in F : state[b] \in LeaseableStates \cup {"dispatched"} /\ L[b] = NoLease
    BY <1>1, <1>2
  <1>4. \A b \in Actions : L[b] # NoLease => state[b] \in LeaseableStates \cup {"dispatched"}
    BY <1>2 DEF StoreInv, LeasesOnLiveRows
  <1>5. /\ Terminalize(F)
        /\ lease' = L
        /\ UNCHANGED <<clock, attempts, created, nextAttempt, gates, contracts, journal, receipts>>
    BY DEF ObservationLeaseNone
  <1> HIDE DEF F, R, L
  <1> QED
    BY <1>1, <1>2, <1>3, <1>4, <1>5, TerminalizeInv

\* Failing a live row keeps the invariant.
LEMMA FailAndDeadLetterInv ==
    ASSUME StoreInv, NEW a \in Actions, state[a] \in LeaseableStates \cup {"dispatched"},
           FailAndDeadLetter(a), UNCHANGED clock
    PROVE  StoreInv'
  <1> DEFINE L == Release({a}, lease)
  <1>1. /\ L \in [Actions -> Leases]
        /\ \A b \in Actions : L[b] = IF b \in {a} THEN NoLease ELSE lease[b]
    BY ReleaseType DEF StoreInv, StoreTypeOK
  <1>2. \A b \in Actions : L[b] # NoLease => state[b] \in LeaseableStates \cup {"dispatched"}
    BY <1>1 DEF StoreInv, LeasesOnLiveRows
  <1>3. /\ Terminalize({a})
        /\ lease' = L
        /\ UNCHANGED <<clock, attempts, created, nextAttempt, gates, contracts, journal, receipts>>
    BY DEF FailAndDeadLetter
  <1> HIDE DEF L
  <1> QED
    BY <1>1, <1>2, <1>3, TerminalizeInv

\* The dispatch keeps the invariant: contract, attempt and state move together
\* and the contract names the gate that was just judged.
LEMMA DispatchInv ==
    ASSUME StoreInv, NEW a \in Actions, NEW o \in Owners, NEW g \in gates[a], NEW now \in Nat,
           BeginOwnerAuthorizedDispatch(a, o, g, now), UNCHANGED clock
    PROVE  StoreInv'
  <1> USE DEF StoreInv
  <1> DEFINE c == [digest |-> g.key, issued |-> now, deadline |-> now + ObservationWindow]
  <1>1. /\ state[a] = "gated" /\ gates[a] = {g} /\ contracts[a] = {} /\ attempts[a] = 0
        /\ journal[a] = << >> /\ AssertDispatchable(a, g, now)
    BY DEF BeginOwnerAuthorizedDispatch, DispatchAuthorized, AuthoritySpentOnce,
           ObservationBounded, StoreTypeOK
  <1>2. c \in Contracts
    BY StoreAssumption DEF StoreTypeOK, GateReceipts, Contracts
  <1>3. /\ contracts' = [contracts EXCEPT ![a] = {c}]
        /\ attempts' = [attempts EXCEPT ![a] = attempts[a] + 1]
        /\ state' = [state EXCEPT ![a] = "dispatched"]
        /\ UNCHANGED <<clock, created, nextAttempt, lease, gates, journal, receipts, deadLetters>>
    BY DEF BeginOwnerAuthorizedDispatch
  <1>4. c.digest = g.key /\ c.issued = now
    OBVIOUS
  <1> HIDE DEF c
  <1>5. StoreTypeOK'
    BY <1>2, <1>3 DEF StoreTypeOK, ClockTypeOK, States
  <1>6. AuthoritySpentOnce'
    BY <1>1, <1>3 DEF StoreTypeOK, AuthoritySpentOnce
  <1>7. ContractBindsConsumedGate'
    BY <1>1, <1>3, <1>4 DEF StoreTypeOK, ContractBindsConsumedGate
  <1>8. WitnessedAcceptance' /\ FailureEvident'
    BY <1>1, <1>3 DEF StoreTypeOK, WitnessedAcceptance, FailureEvident
  <1>9. LeasesOnLiveRows'
    BY <1>3 DEF StoreTypeOK, LeasesOnLiveRows
  <1>10. ObservationBounded'
    BY <1>1, <1>3 DEF StoreTypeOK, ObservationBounded
  <1> QED
    BY <1>5, <1>6, <1>7, <1>8, <1>9, <1>10

\* Journaling a GET keeps the invariant: the budget was looked at in the same
\* transaction.
LEMMA BeginObservationInv ==
    ASSUME StoreInv, NEW a \in Actions, NEW o \in Owners, NEW d \in GateKeys, NEW now \in Nat,
           BeginDispatchedObservation(a, o, d, now), UNCHANGED clock
    PROVE  StoreInv'
  <1> USE DEF StoreInv
  <1>1. PICK c \in contracts[a] : contracts[a] = {c} /\ now < c.deadline
                                   /\ Len(journal[a]) < MaxObservations
    BY DEF BeginDispatchedObservation, HasBudget, Observable
  <1>2. journal' = [journal EXCEPT ![a] = Append(journal[a], now)]
    BY DEF BeginDispatchedObservation
  <1>3. UNCHANGED <<clock, state, attempts, created, nextAttempt, lease, gates, contracts,
                    receipts, deadLetters>>
    BY DEF BeginDispatchedObservation
  <1>4. journal[a] \in Seq(Nat)
    BY DEF StoreTypeOK
  <1>5. StoreTypeOK'
    BY <1>2, <1>3, <1>4 DEF StoreTypeOK, ClockTypeOK
  <1>6. AuthoritySpentOnce' /\ ContractBindsConsumedGate' /\ WitnessedAcceptance'
    BY <1>3 DEF AuthoritySpentOnce, ContractBindsConsumedGate, WitnessedAcceptance
  <1>7. FailureEvident' /\ LeasesOnLiveRows'
    BY <1>3 DEF FailureEvident, LeasesOnLiveRows
  <1>8. ObservationBounded'
    <2> SUFFICES ASSUME NEW b \in Actions
                 PROVE  /\ Len(journal'[b]) <= MaxObservations
                        /\ journal'[b] # << >> => contracts[b] # {}
                        /\ \A x \in contracts[b] : \A i \in DOMAIN journal'[b] :
                              journal'[b][i] < x.deadline
      BY <1>3 DEF ObservationBounded
    <2>1. CASE b = a
      <3>1. journal'[a] = Append(journal[a], now)
        BY <1>2 DEF StoreTypeOK
      <3>2. Len(journal'[a]) = Len(journal[a]) + 1 /\ Len(journal[a]) \in Nat
        BY <3>1, <1>4
      <3>3. \A i \in DOMAIN journal'[a] : journal'[a][i] < c.deadline
        BY <3>1, <1>1, <1>4 DEF ObservationBounded
      <3> QED
        BY <2>1, <1>1, <3>2, <3>3, StoreAssumption
    <2>2. CASE b # a
      BY <2>2, <1>2 DEF StoreTypeOK, ObservationBounded
    <2> QED
      BY <2>1, <2>2
  <1> QED
    BY <1>5, <1>6, <1>7, <1>8

\* A deferral, of either kind, only clears a lease and moves a schedule.
LEMMA RescheduleInv ==
    ASSUME StoreInv, NEW a \in Actions, NEW now \in Nat,
           nextAttempt' = [nextAttempt EXCEPT ![a] = now + RetrySeconds],
           lease' = Release({a}, lease),
           UNCHANGED <<clock, state, attempts, created, gates, contracts, journal, receipts,
                       deadLetters>>
    PROVE  StoreInv'
  <1> USE DEF StoreInv
  <1>1. /\ lease' \in [Actions -> Leases]
        /\ \A b \in Actions : lease'[b] = IF b \in {a} THEN NoLease ELSE lease[b]
    BY ReleaseType DEF StoreTypeOK
  <1>2. StoreTypeOK'
    <2>1. now + RetrySeconds \in Nat
      BY StoreAssumption
    <2>2. nextAttempt' \in [Actions -> Nat]
      BY <2>1 DEF StoreTypeOK
    <2> QED
      BY <1>1, <2>2 DEF StoreTypeOK, ClockTypeOK
  <1>3. LeasesOnLiveRows'
    BY <1>1 DEF LeasesOnLiveRows
  <1>4. AuthoritySpentOnce' /\ ContractBindsConsumedGate' /\ WitnessedAcceptance'
    BY DEF AuthoritySpentOnce, ContractBindsConsumedGate, WitnessedAcceptance
  <1>5. FailureEvident' /\ ObservationBounded'
    BY DEF FailureEvident, ObservationBounded
  <1> QED
    BY <1>2, <1>3, <1>4, <1>5

\* accept keeps the invariant: the receipt and the state commit together.
LEMMA AcceptInv ==
    ASSUME StoreInv, NEW a \in Actions, NEW o \in Owners, NEW k \in ReceiptKeys,
           NEW e \in Evidence, NEW now \in Nat, Accept(a, o, k, e, now), UNCHANGED clock
    PROVE  StoreInv'
  <1> USE DEF StoreInv
  <1>1. Acceptance(e) \in Receipts /\ Acceptance(e).status = "accepted"
    BY DEF Acceptance, Receipts
  <1>2. Acceptance(e) # NoReceipt
    BY <1>1, StoreAssumption DEF Receipts
  <1>3. /\ state[a] = "dispatched"
        /\ receipts' = [receipts EXCEPT ![a][k] = Acceptance(e)]
        /\ state' = [state EXCEPT ![a] = "accepted"]
        /\ UNCHANGED <<clock, attempts, created, nextAttempt, lease, gates, contracts, journal,
                       deadLetters>>
    BY DEF Accept, MayAccept
  <1>4. StoreTypeOK'
    BY <1>1, <1>3 DEF StoreTypeOK, ClockTypeOK, States
  <1>5. AuthoritySpentOnce' /\ ContractBindsConsumedGate'
    BY <1>3 DEF StoreTypeOK, AuthoritySpentOnce, ContractBindsConsumedGate
  <1>6. WitnessedAcceptance'
    BY <1>1, <1>2, <1>3 DEF StoreTypeOK, WitnessedAcceptance
  <1>7. FailureEvident' /\ LeasesOnLiveRows'
    BY <1>3 DEF StoreTypeOK, FailureEvident, LeasesOnLiveRows, LeaseableStates
  <1>8. ObservationBounded'
    BY <1>3 DEF ObservationBounded
  <1> QED
    BY <1>4, <1>5, <1>6, <1>7, <1>8

\* verify keeps the invariant: it overwrites no acceptance receipt.
LEMMA VerifyInv ==
    ASSUME StoreInv, NEW a \in Actions, NEW o \in Owners, NEW k \in ReceiptKeys,
           NEW e \in Evidence, NEW Q \in SUBSET ReceiptKeys, NEW now \in Nat,
           Verify(a, o, k, e, Q, now), UNCHANGED clock
    PROVE  StoreInv'
  <1> USE DEF StoreInv
  <1>1. Verification(e) \in Receipts /\ Verification(e).status = "verified"
    BY DEF Verification, Receipts
  <1>2. Verification(e) # NoReceipt
    BY <1>1, StoreAssumption DEF Receipts
  <1>3. /\ state[a] = "accepted"
        /\ receipts[a][k] \in {NoReceipt, Verification(e)}
        /\ receipts' = [receipts EXCEPT ![a][k] = Verification(e)]
        /\ state' = [state EXCEPT ![a] = "verified"]
        /\ UNCHANGED <<clock, attempts, created, nextAttempt, lease, gates, contracts, journal,
                       deadLetters>>
    BY DEF Verify, MayVerify, Insertable
  <1>4. StoreTypeOK'
    BY <1>1, <1>3 DEF StoreTypeOK, ClockTypeOK, States
  <1>5. AuthoritySpentOnce' /\ ContractBindsConsumedGate'
    BY <1>3 DEF StoreTypeOK, AuthoritySpentOnce, ContractBindsConsumedGate
  <1>6. WitnessedAcceptance'
    <2>1. PICK j \in ReceiptKeys : receipts[a][j] # NoReceipt /\ receipts[a][j].status = "accepted"
      BY <1>3 DEF WitnessedAcceptance
    <2>2. j # k
      BY <2>1, <1>1, <1>3
    <2> QED
      BY <2>1, <2>2, <1>1, <1>2, <1>3 DEF StoreTypeOK, WitnessedAcceptance
  <1>7. FailureEvident' /\ LeasesOnLiveRows'
    BY <1>3 DEF StoreTypeOK, FailureEvident, LeasesOnLiveRows, LeaseableStates
  <1>8. ObservationBounded'
    BY <1>3 DEF ObservationBounded
  <1> QED
    BY <1>4, <1>5, <1>6, <1>7, <1>8

\* complete keeps the invariant: the lease goes with the last transition.
LEMMA CompleteInv ==
    ASSUME StoreInv, NEW a \in Actions, NEW o \in Owners, NEW now \in Nat,
           Complete(a, o, now), UNCHANGED clock
    PROVE  StoreInv'
  <1> USE DEF StoreInv
  <1>1. /\ lease' \in [Actions -> Leases]
        /\ \A b \in Actions : lease'[b] = IF b \in {a} THEN NoLease ELSE lease[b]
    BY ReleaseType DEF StoreTypeOK, Complete
  <1>2. /\ state[a] = "verified"
        /\ state' = [state EXCEPT ![a] = "completed"]
        /\ UNCHANGED <<clock, attempts, created, nextAttempt, gates, contracts, journal, receipts,
                       deadLetters>>
    BY DEF Complete, MayComplete
  <1>3. StoreTypeOK'
    BY <1>1, <1>2 DEF StoreTypeOK, ClockTypeOK, States
  <1>4. AuthoritySpentOnce' /\ ContractBindsConsumedGate' /\ WitnessedAcceptance'
    BY <1>2 DEF StoreTypeOK, AuthoritySpentOnce, ContractBindsConsumedGate, WitnessedAcceptance
  <1>5. FailureEvident' /\ LeasesOnLiveRows'
    BY <1>1, <1>2 DEF StoreTypeOK, FailureEvident, LeasesOnLiveRows
  <1>6. ObservationBounded'
    BY <1>2 DEF ObservationBounded
  <1> QED
    BY <1>3, <1>4, <1>5, <1>6

\* A clock reading is an instant already reached and at most MaxWait old.
LEMMA ReadingsAreInstants ==
    ASSUME clock \in 1..Horizon, NEW now \in Readings
    PROVE  now \in Nat /\ now <= clock /\ clock <= now + MaxWait
  BY ClockAssumption DEF Readings

\* Ingress and maintenance keep the invariant.
LEMMA UnleasedInv ==
    ASSUME StoreInv, NEW now \in Nat, Unleased(now), UNCHANGED clock
    PROVE  StoreInv'
  BY ProposeInv, AttachGateInv, AddReceiptInv, RecoverInv DEF Unleased

\* Every claiming call keeps the invariant.
LEMMA ClaimsInv ==
    ASSUME StoreInv, NEW now \in Nat, Claims(now), UNCHANGED clock
    PROVE  StoreInv'
  <1>1. PICK scope \in (SUBSET Actions) \ {{}} :
          \/ \E S \in (SUBSET LeaseableStates) \ {{}} :
                \/ \E a \in scope, o \in Owners : LeaseNext(a, o, S, scope, now)
                \/ LeaseNone(S, scope, now)
          \/ \E a \in scope, o \in Owners : LeaseDispatchedObservation(a, o, scope, now)
          \/ ObservationLeaseNone(scope, now)
    BY DEF Claims
  <1>2. CASE \E S \in (SUBSET LeaseableStates) \ {{}}, a \in scope, o \in Owners :
               LeaseNext(a, o, S, scope, now)
    BY <1>2, LeaseNextInv
  <1>3. CASE \E S \in (SUBSET LeaseableStates) \ {{}} : LeaseNone(S, scope, now)
    BY <1>3, RecoverInv DEF LeaseNone
  <1>4. CASE \E a \in scope, o \in Owners : LeaseDispatchedObservation(a, o, scope, now)
    BY <1>4, LeaseDispatchedObservationInv
  <1>5. CASE ObservationLeaseNone(scope, now)
    BY <1>5, ObservationLeaseNoneInv
  <1> QED
    BY <1>1, <1>2, <1>3, <1>4, <1>5

\* Every call that needs the lease keeps the invariant.
LEMMA LeasedInv ==
    ASSUME StoreInv, NEW a \in Actions, NEW o \in Owners, NEW now \in Nat,
           Leased(a, o, now), UNCHANGED clock
    PROVE  StoreInv'
  <1>1. CASE \E g \in gates[a] : BeginOwnerAuthorizedDispatch(a, o, g, now)
    BY <1>1, DispatchInv
  <1>2. CASE \E d \in GateKeys : BeginDispatchedObservation(a, o, d, now)
    BY <1>2, BeginObservationInv
  <1>3. CASE \E d \in GateKeys : ObservationRefused(a, o, d, now)
    BY <1>3, FailAndDeadLetterInv DEF ObservationRefused, MayObserve
  <1>4. CASE \E d \in GateKeys, n \in 1..MaxObservations :
               DeferDispatchedObservation(a, o, d, n, now)
    BY <1>4, RescheduleInv DEF DeferDispatchedObservation
  <1>5. CASE \E d \in GateKeys, n \in 1..MaxObservations : DeferralExhausted(a, o, d, n, now)
    BY <1>5, FailAndDeadLetterInv DEF DeferralExhausted, MayDeferObservation, MayObserve
  <1>6. CASE DeferLeased(a, o, now)
    BY <1>6, RescheduleInv DEF DeferLeased
  <1>7. CASE \E k \in ReceiptKeys, e \in Evidence : Accept(a, o, k, e, now)
    BY <1>7, AcceptInv
  <1>8. CASE \E k \in ReceiptKeys, e \in Evidence, Q \in SUBSET ReceiptKeys :
               Verify(a, o, k, e, Q, now)
    BY <1>8, VerifyInv
  <1>9. CASE Complete(a, o, now)
    BY <1>9, CompleteInv
  <1>10. CASE FailAttempt(a, o, now)
    BY <1>10, FailAndDeadLetterInv DEF FailAttempt, MayFail
  <1> QED
    BY <1>1, <1>2, <1>3, <1>4, <1>5, <1>6, <1>7, <1>8, <1>9, <1>10 DEF Leased

\* So does a step that changes no row.
LEMMA IdleInv ==
    ASSUME StoreInv, UNCHANGED storeVars, clock' \in 1..Horizon
    PROVE  StoreInv'
  <1> USE DEF StoreInv, storeVars
  <1>1. StoreTypeOK'
    BY DEF StoreTypeOK, ClockTypeOK
  <1>2. AuthoritySpentOnce' /\ ContractBindsConsumedGate' /\ WitnessedAcceptance'
    BY DEF AuthoritySpentOnce, ContractBindsConsumedGate, WitnessedAcceptance
  <1>3. FailureEvident' /\ LeasesOnLiveRows' /\ ObservationBounded'
    BY DEF FailureEvident, LeasesOnLiveRows, ObservationBounded
  <1> QED
    BY <1>1, <1>2, <1>3

\* The invariant is inductive.
LEMMA StoreNextInv == StoreInv /\ [StoreNext]_<<clock, storeVars>> => StoreInv'
  <1> SUFFICES ASSUME StoreInv, [StoreNext]_<<clock, storeVars>> PROVE StoreInv'
    OBVIOUS
  <1>0. clock \in 1..Horizon
    BY DEF StoreInv, StoreTypeOK, ClockTypeOK
  <1>1. CASE Tick /\ UNCHANGED storeVars
    <2>1. clock' \in 1..Horizon
      BY <1>0, <1>1, ClockAssumption DEF Tick
    <2> QED
      BY <1>1, <2>1, IdleInv
  <1>2. CASE UNCHANGED <<clock, storeVars>>
    BY <1>0, <1>2, IdleInv
  <1>3. ASSUME NEW now \in Readings, UNCHANGED clock,
               \/ Unleased(now)
               \/ Claims(now)
               \/ \E a \in Actions, o \in Owners : Leased(a, o, now)
        PROVE  StoreInv'
    <2>1. now \in Nat
      BY <1>0, ReadingsAreInstants
    <2> QED
      BY <1>3, <2>1, UnleasedInv, ClaimsInv, LeasedInv
  <1> QED
    BY <1>1, <1>2, <1>3 DEF StoreNext

\* The inductive invariant holds of the store under arbitrary clients.
THEOREM StoreInvariant == StoreSpec => []StoreInv
  BY StoreInitInv, StoreNextInv, PTL DEF StoreSpec

-----------------------------------------------------------------------------
(* What a step may never do.                                               *)

\* A step that leaves the row of a alone.
SameRow(a) ==
    /\ state'[a] = state[a] /\ attempts'[a] = attempts[a] /\ lease'[a] = lease[a]
    /\ nextAttempt'[a] = nextAttempt[a] /\ gates'[a] = gates[a]
    /\ contracts'[a] = contracts[a] /\ journal'[a] = journal[a]

\* A row that may hold a lease.
Live(a) == state[a] \in LeaseableStates \cup {"dispatched"}

\* Failing a row leaves every other row alone.
LEMMA FailTouchesOne ==
    ASSUME StoreInv, NEW a \in Actions, FailAndDeadLetter(a), NEW b \in Actions \ {a}
    PROVE  SameRow(b)
  <1>1. lease'[b] = lease[b]
    BY ReleaseType DEF FailAndDeadLetter, StoreInv, StoreTypeOK
  <1> QED
    BY <1>1 DEF FailAndDeadLetter, Terminalize, StoreInv, StoreTypeOK, SameRow

\* A call under a lease touches the row of that lease and no other.
LEMMA LeasedTouchesOne ==
    ASSUME StoreInv, NEW a \in Actions, NEW o \in Owners, NEW now \in Nat, Leased(a, o, now)
    PROVE  /\ Live(a)
           /\ \A b \in Actions \ {a} : SameRow(b)
           /\ lease'[a] \in {lease[a], NoLease}
  <1> USE DEF StoreInv, StoreTypeOK, Live, LeaseableStates
  <1>0. \A b \in Actions : Release({a}, lease)[b] = IF b \in {a} THEN NoLease ELSE lease[b]
    BY ReleaseType
  <1>1. CASE \E g \in gates[a] : BeginOwnerAuthorizedDispatch(a, o, g, now)
    BY <1>1 DEF BeginOwnerAuthorizedDispatch, DispatchAuthorized, SameRow
  <1>2. CASE \E d \in GateKeys : BeginDispatchedObservation(a, o, d, now)
    BY <1>2 DEF BeginDispatchedObservation, MayObserve, SameRow
  <1>3. CASE Live(a) /\ FailAndDeadLetter(a)
    BY <1>0, <1>3, FailTouchesOne DEF FailAndDeadLetter
  <1>4. CASE /\ Live(a)
             /\ nextAttempt' = [nextAttempt EXCEPT ![a] = now + RetrySeconds]
             /\ lease' = Release({a}, lease)
             /\ UNCHANGED <<state, attempts, created, gates, contracts, journal, receipts,
                            deadLetters>>
    BY <1>0, <1>4 DEF SameRow
  <1>5. CASE \E k \in ReceiptKeys, e \in Evidence : Accept(a, o, k, e, now)
    BY <1>5 DEF Accept, MayAccept, SameRow
  <1>6. CASE \E k \in ReceiptKeys, e \in Evidence, Q \in SUBSET ReceiptKeys :
               Verify(a, o, k, e, Q, now)
    BY <1>6 DEF Verify, MayVerify, SameRow
  <1>7. CASE Complete(a, o, now)
    BY <1>0, <1>7 DEF Complete, MayComplete, SameRow
  <1>8. CASE \E d \in GateKeys : ObservationRefused(a, o, d, now)
    BY <1>3, <1>8 DEF ObservationRefused, MayObserve
  <1>9. CASE \E d \in GateKeys, n \in 1..MaxObservations :
               DeferDispatchedObservation(a, o, d, n, now)
    BY <1>4, <1>9 DEF DeferDispatchedObservation, MayDeferObservation, MayObserve
  <1>10. CASE \E d \in GateKeys, n \in 1..MaxObservations : DeferralExhausted(a, o, d, n, now)
    BY <1>3, <1>10 DEF DeferralExhausted, MayDeferObservation, MayObserve
  <1>11. CASE DeferLeased(a, o, now)
    BY <1>4, <1>11 DEF DeferLeased, MayDefer
  <1>12. CASE FailAttempt(a, o, now)
    BY <1>3, <1>12 DEF FailAttempt, MayFail
  <1> QED
    BY <1>1, <1>2, <1>5, <1>6, <1>7, <1>8, <1>9, <1>10, <1>11, <1>12 DEF Leased

\* What the reaper and the claiming calls do to one row b.
Swept(b, now) ==
    /\ attempts'[b] = attempts[b] /\ nextAttempt'[b] = nextAttempt[b] /\ gates'[b] = gates[b]
    /\ contracts'[b] = contracts[b] /\ journal'[b] = journal[b]
    /\ state'[b] \in {state[b], "failed"}
    /\ ~Live(b) => state'[b] = state[b] /\ lease'[b] = lease[b]
    /\ lease[b].owner # NoOwner /\ now < lease[b].expires =>
          lease'[b] \in {lease[b], NoLease}

\* The reaper is a sweep.
LEMMA RecoverSweeps ==
    ASSUME StoreInv, NEW scope \in SUBSET Actions, NEW now \in Nat,
           RecoverExpiredLeases(scope, now), NEW b \in Actions
    PROVE  Swept(b, now)
  <1>1. lease'[b] = IF b \in Reaped(scope, now) THEN NoLease ELSE lease[b]
    BY ReleaseType DEF RecoverExpiredLeases, StoreInv, StoreTypeOK
  <1>2. b \in Reaped(scope, now) => Live(b)
    BY DEF Reaped, Live
  <1>3. state'[b] = IF b \in Abandoned(scope, now) THEN "failed" ELSE state[b]
    BY DEF RecoverExpiredLeases, Terminalize
  <1>4. b \in Abandoned(scope, now) => b \in Reaped(scope, now)
    BY DEF Abandoned
  <1> QED
    BY <1>1, <1>2, <1>3, <1>4 DEF RecoverExpiredLeases, Swept

\* lease_next is a sweep that grants one lease on a row that had none live.
LEMMA LeaseNextSweeps ==
    ASSUME StoreInv, NEW scope \in SUBSET Actions, NEW a \in scope, NEW o \in Owners,
           NEW S \in SUBSET LeaseableStates, NEW now \in Nat,
           LeaseNext(a, o, S, scope, now), NEW b \in Actions
    PROVE  Swept(b, now)
  <1>1. lease' = [Release(Reaped(scope, now), lease) EXCEPT ![a] = Granted(o, now)]
    BY DEF LeaseNext
  <1>2. b # a => lease'[b] = IF b \in Reaped(scope, now) THEN NoLease ELSE lease[b]
    BY <1>1, ReleaseType DEF StoreInv, StoreTypeOK
  <1>3. b \in Reaped(scope, now) => Live(b)
    BY DEF Reaped, Live
  <1>4. state'[b] = IF b \in Abandoned(scope, now) THEN "failed" ELSE state[b]
    BY DEF LeaseNext, Terminalize
  <1>5. b \in Abandoned(scope, now) => b \in Reaped(scope, now)
    BY DEF Abandoned
  <1>6. Live(a) /\ (lease[a].owner # NoOwner => lease[a].expires <= now)
    BY DEF LeaseNext, Claimable, Ready, Reaped, LeaseExpired, Live
  <1>7. lease[a].owner # NoOwner => ~(now < lease[a].expires)
    <2>1. lease[a].owner # NoOwner => lease[a].expires \in Nat
      BY DEF StoreInv, StoreTypeOK, Leases, NoLease
    <2> QED
      BY <1>6, <2>1
  <1> QED
    BY <1>2, <1>3, <1>4, <1>5, <1>6, <1>7 DEF LeaseNext, Swept

\* So is lease_dispatched_observation.
LEMMA ObservationSweeps ==
    ASSUME StoreInv, NEW scope \in SUBSET Actions, NEW a \in scope, NEW o \in Owners,
           NEW now \in Nat, LeaseDispatchedObservation(a, o, scope, now), NEW b \in Actions
    PROVE  Swept(b, now)
  <1>1. PICK passed \in SUBSET {x \in Exhausted(scope, now) : ~Before(a, x)} :
          /\ Terminalize(Abandoned(scope, now) \cup passed)
          /\ lease' = [Release(Reaped(scope, now) \cup passed, lease)
                         EXCEPT ![a] = Granted(o, now)]
    BY DEF LeaseDispatchedObservation
  <1> DEFINE R == Reaped(scope, now) \cup passed
  <1>2. b # a => lease'[b] = IF b \in R THEN NoLease ELSE lease[b]
    BY <1>1, ReleaseType DEF StoreInv, StoreTypeOK
  <1>3. b \in R => Live(b)
    BY WalkedRows DEF Live
  <1>4. state'[b] = IF b \in Abandoned(scope, now) \cup passed THEN "failed" ELSE state[b]
    BY <1>1 DEF Terminalize
  <1>5. b \in Abandoned(scope, now) \cup passed => b \in R
    BY WalkedRows
  <1>6. Live(a) /\ (lease[a].owner # NoOwner => lease[a].expires <= now)
    BY DEF LeaseDispatchedObservation, ClaimableObservation, Walked, Ready, Reaped,
           LeaseExpired, Live
  <1>7. lease[a].owner # NoOwner => ~(now < lease[a].expires)
    <2>1. lease[a].owner # NoOwner => lease[a].expires \in Nat
      BY DEF StoreInv, StoreTypeOK, Leases, NoLease
    <2> QED
      BY <1>6, <2>1
  <1> HIDE DEF R
  <1> QED
    BY <1>2, <1>3, <1>4, <1>5, <1>6, <1>7 DEF LeaseDispatchedObservation, Swept

\* A walk that finds nothing is a sweep.
LEMMA NoObservationSweeps ==
    ASSUME StoreInv, NEW scope \in SUBSET Actions, NEW now \in Nat,
           ObservationLeaseNone(scope, now), NEW b \in Actions
    PROVE  Swept(b, now)
  <1> DEFINE R == Reaped(scope, now) \cup Exhausted(scope, now)
             F == Abandoned(scope, now) \cup Exhausted(scope, now)
  <1>1. lease'[b] = IF b \in R THEN NoLease ELSE lease[b]
    BY ReleaseType DEF ObservationLeaseNone, StoreInv, StoreTypeOK
  <1>2. b \in R => Live(b)
    BY WalkedRows DEF Live
  <1>3. state'[b] = IF b \in F THEN "failed" ELSE state[b]
    BY DEF ObservationLeaseNone, Terminalize
  <1>4. b \in F => b \in R
    BY WalkedRows
  <1> HIDE DEF R, F
  <1> QED
    BY <1>1, <1>2, <1>3, <1>4 DEF ObservationLeaseNone, Swept

\* Every claiming call is a sweep, and grants at most one lease.
LEMMA ClaimsSweep ==
    ASSUME StoreInv, NEW now \in Nat, Claims(now), NEW b \in Actions
    PROVE  Swept(b, now)
  <1>1. PICK scope \in (SUBSET Actions) \ {{}} :
          \/ \E S \in (SUBSET LeaseableStates) \ {{}} :
                \/ \E a \in scope, o \in Owners : LeaseNext(a, o, S, scope, now)
                \/ LeaseNone(S, scope, now)
          \/ \E a \in scope, o \in Owners : LeaseDispatchedObservation(a, o, scope, now)
          \/ ObservationLeaseNone(scope, now)
    BY DEF Claims
  <1>2. CASE \E S \in (SUBSET LeaseableStates) \ {{}}, a \in scope, o \in Owners :
               LeaseNext(a, o, S, scope, now)
    BY <1>2, LeaseNextSweeps
  <1>3. CASE \E S \in (SUBSET LeaseableStates) \ {{}} : LeaseNone(S, scope, now)
    BY <1>3, RecoverSweeps DEF LeaseNone
  <1>4. CASE \E a \in scope, o \in Owners : LeaseDispatchedObservation(a, o, scope, now)
    BY <1>4, ObservationSweeps
  <1>5. CASE ObservationLeaseNone(scope, now)
    BY <1>5, NoObservationSweeps
  <1> QED
    BY <1>1, <1>2, <1>3, <1>4, <1>5

\* Ingress: it opens rows and gates them, and sweeps.
LEMMA UnleasedEffect ==
    ASSUME StoreInv, NEW now \in Nat, Unleased(now), NEW b \in Actions
    PROVE  \/ Swept(b, now)
           \/ SameRow(b)
           \/ /\ state[b] \in {"absent", "proposed", "gated"}
              /\ state'[b] \in {"proposed", "gated"}
              /\ lease'[b] = lease[b]
  <1> USE DEF StoreInv, StoreTypeOK
  <1>1. CASE \E a \in Actions : Propose(a, now)
    BY <1>1 DEF Propose, SameRow
  <1>2. CASE \E a \in Actions, g \in GateMenu : AttachGate(a, g)
    BY <1>2 DEF AttachGate, SameRow
  <1>3. CASE \E a \in Actions, k \in ReceiptKeys, r \in Receipts : AddReceipt(a, k, r)
    BY <1>3 DEF AddReceipt, SameRow
  <1>4. CASE \E scope \in SUBSET Actions : RecoverExpiredLeases(scope, now)
    BY <1>4, RecoverSweeps
  <1> QED
    BY <1>1, <1>2, <1>3, <1>4 DEF Unleased

\* No step of any client touches a terminal row (store.py I8).
LEMMA TerminalStep ==
    ASSUME StoreInv, StoreInv', [StoreNext]_<<clock, storeVars>>,
           NEW a \in Actions, state[a] \in TerminalStates
    PROVE  SameRow(a) /\ (a \in deadLetters' <=> a \in deadLetters)
  <1>0. ~Live(a) /\ clock \in 1..Horizon
    BY DEF Live, LeaseableStates, TerminalStates, StoreInv, StoreTypeOK, ClockTypeOK
  <1>1. CASE UNCHANGED storeVars
    BY <1>1 DEF storeVars, SameRow
  <1>2. ASSUME NEW now \in Readings,
               \/ Unleased(now)
               \/ Claims(now)
               \/ \E x \in Actions, o \in Owners : Leased(x, o, now)
        PROVE  SameRow(a)
    <2>1. now \in Nat
      BY <1>0, ReadingsAreInstants
    <2>2. Swept(a, now) => SameRow(a)
      BY <1>0 DEF Swept, SameRow
    <2>3. CASE Unleased(now)
      BY <2>1, <2>2, <2>3, UnleasedEffect DEF TerminalStates
    <2>4. CASE Claims(now)
      BY <2>1, <2>2, <2>4, ClaimsSweep
    <2>5. CASE \E x \in Actions, o \in Owners : Leased(x, o, now)
      BY <1>0, <2>1, <2>5, LeasedTouchesOne
    <2> QED
      BY <1>2, <2>3, <2>4, <2>5
  <1>3. SameRow(a)
    BY <1>1, <1>2 DEF StoreNext, storeVars
  <1>4. a \in deadLetters' <=> a \in deadLetters
    BY <1>3 DEF StoreInv, FailureEvident, SameRow
  <1> QED
    BY <1>3, <1>4

\* No step hands a lease that is live by the true clock to another owner.
LEMMA LiveLeaseStep ==
    ASSUME StoreInv, [StoreNext]_<<clock, storeVars>>,
           NEW a \in Actions, lease[a].owner # NoOwner, lease[a].expires > clock
    PROVE  lease'[a].owner \in {lease[a].owner, NoOwner}
  <1>0. /\ clock \in 1..Horizon /\ Horizon \in Nat
        /\ lease[a].expires \in Nat
    BY ClockAssumption DEF StoreInv, StoreTypeOK, ClockTypeOK, Leases, NoLease
  <1>1. CASE UNCHANGED storeVars
    BY <1>1 DEF storeVars
  <1>2. ASSUME NEW now \in Readings,
               \/ Unleased(now)
               \/ Claims(now)
               \/ \E x \in Actions, o \in Owners : Leased(x, o, now)
        PROVE  lease'[a] \in {lease[a], NoLease}
    <2>1. now \in Nat /\ now < lease[a].expires
      <3>1. now \in Nat /\ now <= clock
        BY <1>0, ReadingsAreInstants
      <3> QED
        BY <1>0, <3>1
    <2>2. Swept(a, now) => lease'[a] \in {lease[a], NoLease}
      BY <2>1 DEF Swept
    <2>3. CASE Unleased(now)
      BY <2>1, <2>2, <2>3, UnleasedEffect DEF SameRow
    <2>4. CASE Claims(now)
      BY <2>1, <2>2, <2>4, ClaimsSweep
    <2>5. CASE \E x \in Actions, o \in Owners : Leased(x, o, now)
      BY <2>1, <2>5, LeasedTouchesOne DEF SameRow
    <2> QED
      BY <1>2, <2>3, <2>4, <2>5
  <1> QED
    BY <1>1, <1>2 DEF StoreNext, NoLease

\* Only begin_owner_authorized_dispatch moves a row from gated to dispatched,
\* and its reading of the clock was before every expiry of the one gate.
LEMMA DispatchStep ==
    ASSUME StoreInv, [StoreNext]_<<clock, storeVars>>,
           NEW a \in Actions, state[a] = "gated", state'[a] = "dispatched"
    PROVE  \E g \in gates[a] : gates[a] = {g} /\ \A e \in Expiries(g) : clock < e + MaxWait
  <1>0. clock \in 1..Horizon /\ Horizon \in Nat /\ MaxWait \in Nat
    BY ClockAssumption DEF StoreInv, StoreTypeOK, ClockTypeOK
  <1>1. PICK now \in Readings :
               \/ Unleased(now)
               \/ Claims(now)
               \/ \E x \in Actions, o \in Owners : Leased(x, o, now)
    BY DEF StoreNext, storeVars
  <1>2. now \in Nat /\ clock <= now + MaxWait
    BY <1>0, ReadingsAreInstants
  <1>3. ~Unleased(now) /\ ~Claims(now)
    BY <1>2, UnleasedEffect, ClaimsSweep DEF Swept, SameRow
  <1>4. PICK x \in Actions, o \in Owners : Leased(x, o, now)
    BY <1>1, <1>3
  <1>5. x = a
    BY <1>2, <1>4, LeasedTouchesOne DEF SameRow
  <1>6. PICK g \in gates[a] : BeginOwnerAuthorizedDispatch(a, o, g, now)
    <2> USE DEF StoreInv, StoreTypeOK
    <2>1. ~\E d \in GateKeys : BeginDispatchedObservation(a, o, d, now) \/ ObservationRefused(a, o, d, now)
      BY DEF BeginDispatchedObservation, ObservationRefused, MayObserve
    <2>2. ~\E d \in GateKeys, n \in 1..MaxObservations :
             DeferDispatchedObservation(a, o, d, n, now) \/ DeferralExhausted(a, o, d, n, now)
      BY DEF DeferDispatchedObservation, DeferralExhausted, MayDeferObservation, MayObserve
    <2>3. ~DeferLeased(a, o, now)
      BY DEF DeferLeased
    <2>4. ~\E k \in ReceiptKeys, e \in Evidence : Accept(a, o, k, e, now)
      BY DEF Accept, MayAccept
    <2>5. ~\E k \in ReceiptKeys, e \in Evidence, Q \in SUBSET ReceiptKeys :
             Verify(a, o, k, e, Q, now)
      BY DEF Verify, MayVerify
    <2>6. ~Complete(a, o, now)
      BY DEF Complete, MayComplete
    <2>7. ~FailAttempt(a, o, now)
      BY DEF FailAttempt, FailAndDeadLetter, Terminalize
    <2> QED
      BY <1>4, <1>5, <2>1, <2>2, <2>3, <2>4, <2>5, <2>6, <2>7 DEF Leased
  <1>7. gates[a] = {g} /\ ~GateExpired(g, now)
    BY <1>6 DEF BeginOwnerAuthorizedDispatch, DispatchAuthorized, AssertDispatchable
  <1>8. g \in GateReceipts
    BY StoreAssumption DEF StoreInv, StoreTypeOK
  <1>9. \A e \in Expiries(g) : e \in Nat /\ now < e
    BY <1>2, <1>7, <1>8 DEF GateExpired, Expiries, GateReceipts
  <1> QED
    BY <1>0, <1>2, <1>7, <1>9

-----------------------------------------------------------------------------
(* The theorems.                                                           *)

\* The store keeps its types whatever its clients do.
THEOREM StoreTyped == StoreSpec => []StoreTypeOK
  BY StoreInvariant, PTL DEF StoreInv

\* The approval of every action is consumed at most once, together with its
\* recovery contract, for any number of owners and any interleaving of calls.
THEOREM StoreSpendsOnce == StoreSpec => []AuthoritySpentOnce
  BY StoreInvariant, PTL DEF StoreInv

\* A consumed approval was the action's only one, valid and unexpired.
THEOREM StoreBindsGate == StoreSpec => []ContractBindsConsumedGate
  BY StoreInvariant, PTL DEF StoreInv

\* No action is accepted or verified without its durable evidence.
THEOREM StoreWitnesses == StoreSpec => []WitnessedAcceptance
  BY StoreInvariant, PTL DEF StoreInv

\* Failed actions are exactly the dead-lettered ones.
THEOREM StoreFailsEvidently == StoreSpec => []FailureEvident
  BY StoreInvariant, PTL DEF StoreInv

\* No call leaves a lease on a row that it ended or that no call can advance.
THEOREM StoreLeasesLiveRows == StoreSpec => []LeasesOnLiveRows
  BY StoreInvariant, PTL DEF StoreInv

\* GET-only reconciliation stays within its budget and deadline.
THEOREM StoreBoundsObservation == StoreSpec => []ObservationBounded
  BY StoreInvariant, PTL DEF StoreInv

\* A completed or failed row never changes again.
THEOREM StoreFreezesTerminal == StoreSpec => TerminalFrozen
  <1>1. StoreInv /\ StoreInv' /\ [StoreNext]_<<clock, storeVars>> =>
          [\A a \in Actions : state[a] \in TerminalStates =>
             /\ state'[a] = state[a] /\ attempts'[a] = attempts[a] /\ lease'[a] = lease[a]
             /\ nextAttempt'[a] = nextAttempt[a] /\ gates'[a] = gates[a]
             /\ contracts'[a] = contracts[a] /\ journal'[a] = journal[a]
             /\ (a \in deadLetters' <=> a \in deadLetters)]_<<clock, storeVars>>
    BY TerminalStep DEF SameRow
  <1> QED
    BY <1>1, StoreInvariant, PTL DEF TerminalFrozen, StoreSpec

\* A lease that is live by the true clock is never taken by another owner.
THEOREM StoreKeepsLiveLease == StoreSpec => LiveLeaseNotStolen
  <1>1. StoreInv /\ [StoreNext]_<<clock, storeVars>> =>
          [\A a \in Actions : lease[a].owner # NoOwner /\ lease[a].expires > clock =>
             lease'[a].owner \in {lease[a].owner, NoOwner}]_<<clock, storeVars>>
    BY LiveLeaseStep
  <1> QED
    BY <1>1, StoreInvariant, PTL DEF LiveLeaseNotStolen, StoreSpec

\* A dispatch commits at most MaxWait after the first expiry of its gate.
THEOREM StoreDispatchesNearLiveGate == StoreSpec => DispatchNearLiveGate
  <1>1. StoreInv /\ [StoreNext]_<<clock, storeVars>> =>
          [\A a \in Actions : state[a] = "gated" /\ state'[a] = "dispatched" =>
             \E g \in gates[a] :
                 gates[a] = {g} /\ \A e \in Expiries(g) : clock < e + MaxWait]_<<clock, storeVars>>
    BY DispatchStep
  <1> QED
    BY <1>1, StoreInvariant, PTL DEF DispatchNearLiveGate, StoreSpec
=============================================================================
