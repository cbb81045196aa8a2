------------------------ MODULE ActionLedgerProofs ------------------------
(***************************************************************************)
(* The endpoint's ledger performs an action at most once, for any set of   *)
(* requests, any number of crashes and any interleaving of clients.        *)
(*                                                                         *)
(* PerformedAtMostOnce alone is not inductive: that a second perform never *)
(* starts rests on what the row says of the effect (ProjectionTruthful)    *)
(* and on the handler inside the lock agreeing with its row                *)
(* (HandlerOwnsRow); RowsConsistent ties results and bindings to rows.     *)
(***************************************************************************)
EXTENDS ActionLedger, TLAPS

RowsConsistent ==
    \A a \in LedgerActions :
        /\ result[a] # 0 => row[a] \in {"completed", "failed", "ambiguous"}
        /\ bound[a] # NoRequest <=> row[a] # "none"

LedgerInv ==
    /\ LedgerTypeOK
    /\ PerformedAtMostOnce
    /\ ProjectionTruthful
    /\ HandlerOwnsRow
    /\ RowsConsistent

\* Every request names an action of the ledger.
LEMMA RequestActions ==
    ASSUME NEW r \in Requests
    PROVE  r.action \in LedgerActions /\ r # NoRequest /\ r.expires \in Nat
  BY LedgerAssumption DEF LedgerActions

\* The ledger starts empty.
LEMMA LedgerInitInv == LedgerInit => LedgerInv
  <1> SUFFICES ASSUME LedgerInit PROVE LedgerInv
    OBVIOUS
  <1>1. LedgerTypeOK
    BY ClockAssumption DEF ClockInit, LedgerInit, LedgerTypeOK, ClockTypeOK, RowStates, LockFree
  <1>2. PerformedAtMostOnce /\ ProjectionTruthful /\ RowsConsistent
    BY DEF LedgerInit, PerformedAtMostOnce, ProjectionTruthful, RowsConsistent
  <1>3. HandlerOwnsRow
    BY DEF LedgerInit, HandlerOwnsRow, LockFree
  <1> QED
    BY <1>1, <1>2, <1>3 DEF LedgerInv

\* Taking a request into the lock.
LEMMA ArrivalsInv ==
    ASSUME LedgerInv, NEW r \in Requests, NEW now \in Nat, Arrivals(r, now), UNCHANGED clock
    PROVE  LedgerInv'
  <1> USE RequestActions DEF LedgerInv, LedgerTypeOK, ClockTypeOK
  <1>1. CASE ExecuteNew(r, now)
    <2>1. LedgerTypeOK'
      BY <1>1 DEF ExecuteNew, RowStates
    <2>2. PerformedAtMostOnce' /\ ProjectionTruthful' /\ RowsConsistent'
      BY <1>1 DEF ExecuteNew, PerformedAtMostOnce, ProjectionTruthful, RowsConsistent
    <2>3. HandlerOwnsRow'
      BY <1>1 DEF ExecuteNew, HandlerOwnsRow, ProjectionTruthful
    <2> QED
      BY <2>1, <2>2, <2>3
  <1>2. CASE ExecuteAgain(r, now)
    <2>1. LedgerTypeOK'
      BY <1>2 DEF ExecuteAgain
    <2>2. PerformedAtMostOnce' /\ ProjectionTruthful' /\ RowsConsistent'
      BY <1>2 DEF ExecuteAgain, PerformedAtMostOnce, ProjectionTruthful, RowsConsistent
    <2>3. HandlerOwnsRow'
      BY <1>2 DEF ExecuteAgain, HandlerOwnsRow, ProjectionTruthful
    <2> QED
      BY <2>1, <2>2, <2>3
  <1>3. CASE ExecuteTooLate(r, now)
    <2>1. LedgerTypeOK'
      BY <1>3 DEF ExecuteTooLate, FailPrepared, RowStates
    <2>2. PerformedAtMostOnce' /\ ProjectionTruthful' /\ RowsConsistent'
      BY <1>3 DEF ExecuteTooLate, FailPrepared, PerformedAtMostOnce, ProjectionTruthful,
                  RowsConsistent
    <2>3. HandlerOwnsRow'
      BY <1>3 DEF ExecuteTooLate, FailPrepared, HandlerOwnsRow, LockFree
    <2> QED
      BY <2>1, <2>2, <2>3
  <1>4. CASE ExecuteAnswered(r, now)
    BY <1>4 DEF ExecuteAnswered, ledgerVars, PerformedAtMostOnce, ProjectionTruthful,
                HandlerOwnsRow, RowsConsistent
  <1> QED
    BY <1>1, <1>2, <1>3, <1>4 DEF Arrivals

\* A handler that is in the lock serves a request.
LEMMA HandlerRequest ==
    ASSUME LedgerInv, handler.phase \in {"preparing", "performing", "performed"}
    PROVE  /\ handler.request \in Requests
           /\ handler.request.action \in LedgerActions
           /\ handler.request # NoRequest
  BY RequestActions DEF LedgerInv, LedgerTypeOK, LockFree, Down

\* The handler ends before the effect: the row fails and the lock is free.
LEMMA FailPreparedInv ==
    ASSUME LedgerInv, handler.phase = "preparing", NEW now \in Nat,
           FailPrepared(handler.request.action, now), UNCHANGED clock
    PROVE  LedgerInv'
  <1> USE HandlerRequest DEF LedgerInv, LedgerTypeOK, ClockTypeOK
  <1>1. LedgerTypeOK'
    BY DEF FailPrepared, RowStates
  <1>2. PerformedAtMostOnce' /\ ProjectionTruthful' /\ RowsConsistent'
    BY DEF FailPrepared, PerformedAtMostOnce, ProjectionTruthful, RowsConsistent, HandlerOwnsRow
  <1>3. HandlerOwnsRow'
    BY DEF FailPrepared, HandlerOwnsRow, LockFree
  <1> QED
    BY <1>1, <1>2, <1>3

\* The handler ends after it marked its row executing.
LEMMA FinishInv ==
    ASSUME LedgerInv, NEW now \in Nat, NEW s \in {"completed", "ambiguous"},
           handler.phase \in {"performing", "performed"},
           s = "completed" => handler.phase = "performed",
           Finish(s, now), UNCHANGED clock
    PROVE  LedgerInv'
  <1> USE HandlerRequest DEF LedgerInv, LedgerTypeOK, ClockTypeOK
  <1>1. LedgerTypeOK'
    BY DEF Finish, RowStates
  <1>2. PerformedAtMostOnce' /\ ProjectionTruthful' /\ RowsConsistent'
    BY DEF Finish, PerformedAtMostOnce, ProjectionTruthful, RowsConsistent, HandlerOwnsRow
  <1>3. HandlerOwnsRow'
    BY DEF Finish, HandlerOwnsRow, LockFree
  <1> QED
    BY <1>1, <1>2, <1>3

\* The handler is lost and the rows stay as they are.
LEMMA UnwindInv ==
    ASSUME LedgerInv, handler' \in {LockFree, Down}, crashes' \in Nat,
           UNCHANGED <<clock, row, bound, result, effects>>
    PROVE  LedgerInv'
  <1> USE DEF LedgerInv, LedgerTypeOK, ClockTypeOK
  <1>1. LedgerTypeOK'
    OBVIOUS
  <1>2. PerformedAtMostOnce' /\ ProjectionTruthful' /\ RowsConsistent'
    BY DEF PerformedAtMostOnce, ProjectionTruthful, RowsConsistent
  <1>3. HandlerOwnsRow'
    BY DEF HandlerOwnsRow, LockFree, Down
  <1> QED
    BY <1>1, <1>2, <1>3

\* The durable executing marker.
LEMMA MarkExecutingInv ==
    ASSUME LedgerInv, NEW now \in Nat, MarkExecuting(now), UNCHANGED clock
    PROVE  LedgerInv'
  <1> USE HandlerRequest DEF LedgerInv, LedgerTypeOK, ClockTypeOK
  <1>1. LedgerTypeOK'
    BY DEF MarkExecuting, RowStates
  <1>2. PerformedAtMostOnce' /\ ProjectionTruthful' /\ RowsConsistent'
    BY DEF MarkExecuting, PerformedAtMostOnce, ProjectionTruthful, RowsConsistent
  <1>3. HandlerOwnsRow'
    BY DEF MarkExecuting, HandlerOwnsRow
  <1> QED
    BY <1>1, <1>2, <1>3

\* The effect itself: the only step that counts, and only from zero.
LEMMA PerformEffectInv ==
    ASSUME LedgerInv, PerformEffect, UNCHANGED clock
    PROVE  LedgerInv'
  <1> USE HandlerRequest DEF LedgerInv, LedgerTypeOK, ClockTypeOK
  <1>1. LedgerTypeOK'
    BY DEF PerformEffect
  <1>2. PerformedAtMostOnce' /\ ProjectionTruthful' /\ RowsConsistent'
    BY DEF PerformEffect, PerformedAtMostOnce, ProjectionTruthful, RowsConsistent, HandlerOwnsRow
  <1>3. HandlerOwnsRow'
    BY DEF PerformEffect, HandlerOwnsRow
  <1> QED
    BY <1>1, <1>2, <1>3

\* Restart: executing rows become ambiguous and keep their possible effect.
LEMMA RecoverExecutingInv ==
    ASSUME LedgerInv, NEW now \in Nat, RecoverExecuting(now), UNCHANGED clock
    PROVE  LedgerInv'
  <1> USE DEF LedgerInv, LedgerTypeOK, ClockTypeOK
  <1>1. LedgerTypeOK'
    BY DEF RecoverExecuting, RowStates
  <1>2. PerformedAtMostOnce' /\ ProjectionTruthful' /\ RowsConsistent'
    BY DEF RecoverExecuting, PerformedAtMostOnce, ProjectionTruthful, RowsConsistent
  <1>3. HandlerOwnsRow'
    BY DEF RecoverExecuting, HandlerOwnsRow, LockFree
  <1> QED
    BY <1>1, <1>2, <1>3

\* Everything after a request was taken keeps the invariant.
LEMMA ServingInv ==
    ASSUME LedgerInv, NEW now \in Nat, Serving(now), UNCHANGED clock
    PROVE  LedgerInv'
  <1>1. CASE PreparationFails(now) \/ ApprovalLapsed(now)
    BY <1>1, FailPreparedInv DEF PreparationFails, ApprovalLapsed
  <1>2. CASE PreparationCancelled \/ FinishRaises
    BY <1>2, UnwindInv DEF PreparationCancelled, FinishRaises, LedgerInv, LedgerTypeOK
  <1>3. CASE Crash
    <2>1. crashes' \in Nat
      BY <1>3 DEF Crash, LedgerInv, LedgerTypeOK
    <2> QED
      BY <1>3, <2>1, UnwindInv DEF Crash
  <1>4. CASE MarkExecuting(now)
    BY <1>4, MarkExecutingInv
  <1>5. CASE PerformEffect
    BY <1>5, PerformEffectInv
  <1>6. CASE PerformReturns(now) \/ PerformUnwinds(now)
    BY <1>6, FinishInv DEF PerformReturns, PerformUnwinds
  <1>7. CASE RecoverExecuting(now)
    BY <1>7, RecoverExecutingInv
  <1> QED
    BY <1>1, <1>2, <1>3, <1>4, <1>5, <1>6, <1>7 DEF Serving

\* The clock readings of the handlers are instants already reached.
LEMMA LedgerReadings ==
    ASSUME clock \in 1..Horizon, NEW now \in Readings
    PROVE  now \in Nat /\ now >= 1 /\ now <= clock /\ clock <= now + MaxWait
  BY ClockAssumption DEF Readings

\* Every step of the endpoint and of the clock keeps the invariant.
LEMMA LedgerNextInv == LedgerInv /\ [LedgerNext]_<<clock, ledgerVars>> => LedgerInv'
  <1> SUFFICES ASSUME LedgerInv, [LedgerNext]_<<clock, ledgerVars>> PROVE LedgerInv'
    OBVIOUS
  <1>0. clock \in 1..Horizon
    BY DEF LedgerInv, LedgerTypeOK, ClockTypeOK
  <1>1. ASSUME UNCHANGED ledgerVars, clock' \in 1..Horizon PROVE LedgerInv'
    BY <1>1 DEF ledgerVars, LedgerInv, LedgerTypeOK, ClockTypeOK, PerformedAtMostOnce,
                ProjectionTruthful, HandlerOwnsRow, RowsConsistent
  <1>2. CASE Tick /\ UNCHANGED ledgerVars
    <2>1. clock' \in 1..Horizon
      BY <1>0, <1>2, ClockAssumption DEF Tick
    <2> QED
      BY <1>1, <1>2, <2>1
  <1>3. ASSUME NEW now \in Readings, UNCHANGED clock,
               Serving(now) \/ \E r \in Requests : Arrivals(r, now)
        PROVE  LedgerInv'
    BY <1>0, <1>3, LedgerReadings, ServingInv, ArrivalsInv
  <1> QED
    BY <1>0, <1>1, <1>2, <1>3 DEF LedgerNext

\* The conjunction that is inductive.
THEOREM LedgerInvariant == LedgerSpec => []LedgerInv
  BY LedgerInitInv, LedgerNextInv, PTL DEF LedgerSpec

\* The ledger keeps its types.
THEOREM LedgerTyped == LedgerSpec => []LedgerTypeOK
  BY LedgerInvariant, PTL DEF LedgerInv

\* The executor performs every action at most once.
THEOREM LedgerPerformsOnce == LedgerSpec => []PerformedAtMostOnce
  BY LedgerInvariant, PTL DEF LedgerInv

\* What GET reports of the effect is true.
THEOREM LedgerTruthful == LedgerSpec => []ProjectionTruthful
  BY LedgerInvariant, PTL DEF LedgerInv

\* A handler inside the lock and its row agree across every await: no other
\* call, crash or restart moves the row of a request that is being served.
THEOREM LedgerHandlerOwns == LedgerSpec => []HandlerOwnsRow
  BY LedgerInvariant, PTL DEF LedgerInv

\* A stored result is never replaced: every step keeps it.
LEMMA StoredResultKept ==
    ASSUME LedgerInv, [LedgerNext]_<<clock, ledgerVars>>, NEW a \in LedgerActions
    PROVE  /\ result[a] # 0 => row'[a] = row[a] /\ result'[a] = result[a]
           /\ bound[a] # NoRequest => bound'[a] = bound[a]
  <1> USE RequestActions, HandlerRequest DEF LedgerInv, LedgerTypeOK, RowsConsistent
  <1>1. ASSUME NEW now, NEW r \in Requests, Arrivals(r, now)
        PROVE  /\ result[a] # 0 => row'[a] = row[a] /\ result'[a] = result[a]
               /\ bound[a] # NoRequest => bound'[a] = bound[a]
    BY <1>1 DEF Arrivals, ExecuteNew, ExecuteAgain, ExecuteTooLate, FailPrepared,
                ExecuteAnswered, ledgerVars
  <1>2. ASSUME NEW now, Serving(now)
        PROVE  /\ result[a] # 0 => row'[a] = row[a] /\ result'[a] = result[a]
               /\ bound[a] # NoRequest => bound'[a] = bound[a]
    <2>1. CASE PreparationFails(now) \/ ApprovalLapsed(now)
      BY <2>1 DEF PreparationFails, ApprovalLapsed, FailPrepared, HandlerOwnsRow
    <2>2. CASE PreparationCancelled \/ FinishRaises \/ Crash \/ PerformEffect
      BY <2>2 DEF PreparationCancelled, FinishRaises, Crash, PerformEffect
    <2>3. CASE MarkExecuting(now)
      BY <2>3 DEF MarkExecuting
    <2>4. CASE PerformReturns(now) \/ PerformUnwinds(now)
      BY <2>4 DEF PerformReturns, PerformUnwinds, Finish
    <2>5. CASE RecoverExecuting(now)
      BY <2>5 DEF RecoverExecuting
    <2> QED
      BY <1>2, <2>1, <2>2, <2>3, <2>4, <2>5 DEF Serving
  <1>3. CASE UNCHANGED ledgerVars
    BY <1>3 DEF ledgerVars
  <1> QED
    BY <1>1, <1>2, <1>3 DEF LedgerNext

\* Results and bindings never change, so every answer for an action is the
\* same for good.
THEOREM LedgerResultsImmutable == LedgerSpec => ResultsImmutable
  <1>1. LedgerInv /\ [LedgerNext]_<<clock, ledgerVars>> =>
          [\A a \in LedgerActions :
              /\ result[a] # 0 => Projection(a)' = Projection(a)
              /\ bound[a] # NoRequest => bound'[a] = bound[a]]_<<clock, ledgerVars>>
    BY StoredResultKept DEF Projection
  <1> QED
    BY <1>1, LedgerInvariant, PTL DEF LedgerSpec, ResultsImmutable

\* Only mark_executing sets the executing marker.
LEMMA OnlyMarkExecutes ==
    ASSUME LedgerInv, [LedgerNext]_<<clock, ledgerVars>>, NEW a \in LedgerActions,
           row[a] # "executing", row'[a] = "executing"
    PROVE  \E now \in Readings : MarkExecuting(now) /\ handler.request.action = a
  <1> USE RequestActions, HandlerRequest DEF LedgerInv, LedgerTypeOK
  <1>1. ASSUME NEW now, NEW r \in Requests, Arrivals(r, now) PROVE FALSE
    BY <1>1 DEF Arrivals, ExecuteNew, ExecuteAgain, ExecuteTooLate, FailPrepared,
                ExecuteAnswered, ledgerVars
  <1>2. ASSUME NEW now, Serving(now) PROVE MarkExecuting(now) /\ handler.request.action = a
    <2>1. CASE PreparationFails(now) \/ ApprovalLapsed(now)
      BY <2>1 DEF PreparationFails, ApprovalLapsed, FailPrepared
    <2>2. CASE PreparationCancelled \/ FinishRaises \/ Crash \/ PerformEffect
      BY <2>2 DEF PreparationCancelled, FinishRaises, Crash, PerformEffect
    <2>3. CASE MarkExecuting(now)
      BY <2>3 DEF MarkExecuting
    <2>4. CASE PerformReturns(now) \/ PerformUnwinds(now)
      BY <2>4 DEF PerformReturns, PerformUnwinds, Finish
    <2>5. CASE RecoverExecuting(now)
      BY <2>5 DEF RecoverExecuting
    <2> QED
      BY <1>2, <2>1, <2>2, <2>3, <2>4, <2>5 DEF Serving
  <1>3. CASE UNCHANGED ledgerVars
    BY <1>3 DEF ledgerVars
  <1> QED
    BY <1>1, <1>2, <1>3 DEF LedgerNext

\* No effect has begun when the executing marker is set, and the approval was
\* live up to the wait of the transaction.
THEOREM LedgerEffectOnLiveApproval == LedgerSpec => EffectOnLiveApproval
  <1>1. ASSUME LedgerInv, [LedgerNext]_<<clock, ledgerVars>>, NEW a \in LedgerActions,
               row[a] # "executing", row'[a] = "executing"
        PROVE  effects[a] = 0 /\ clock < bound[a].expires + MaxWait
    <2>1. PICK now \in Readings : MarkExecuting(now) /\ handler.request.action = a
      BY <1>1, OnlyMarkExecutes
    <2>2. now < handler.request.expires /\ bound[a] = handler.request /\ effects[a] = 0
      BY <1>1, <2>1, HandlerRequest
         DEF MarkExecuting, LiveApproval, LedgerInv, HandlerOwnsRow
    <2>3. handler.request.expires \in Nat
      BY <1>1, <2>1, HandlerRequest, RequestActions DEF MarkExecuting
    <2>4. clock \in 1..Horizon
      BY <1>1 DEF LedgerInv, LedgerTypeOK, ClockTypeOK
    <2> QED
      BY <2>2, <2>3, <2>4, LedgerReadings, ClockAssumption
  <1>2. LedgerInv /\ [LedgerNext]_<<clock, ledgerVars>> =>
          [\A a \in LedgerActions : row[a] # "executing" /\ row'[a] = "executing" =>
              /\ effects[a] = 0
              /\ clock < bound[a].expires + MaxWait]_<<clock, ledgerVars>>
    BY <1>1
  <1> QED
    BY <1>2, LedgerInvariant, PTL DEF LedgerSpec, EffectOnLiveApproval
=============================================================================
