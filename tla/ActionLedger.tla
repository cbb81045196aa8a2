---------------------------- MODULE ActionLedger ----------------------------
(***************************************************************************)
(* The endpoint that performs governed actions: GovernedActionLedger and   *)
(* GovernedActionService of sidecar/pacomind/governed_actions.py.          *)
(*                                                                         *)
(* One asyncio lock serialises execute(); within it the handler awaits     *)
(* twice, for the read-only preparation and for the effect itself, and the *)
(* process may be cancelled or die at either await.  The ledger rows are   *)
(* durable, the lock and the handler are not.  observe() takes no lock and *)
(* changes nothing: it is the operator Projection.                         *)
(*                                                                         *)
(* LedgerSpec is the endpoint under arbitrary clients: any execution       *)
(* request arrives at any time and any number of times.                    *)
(***************************************************************************)
EXTENDS Clock

CONSTANTS
    Requests,      \* validated execution requests with the caller's owner id
    NoRequest,
    LedgerSkew,    \* the 30 s that decided_at may lie ahead
    MaxCrashes     \* bound on crashes of the endpoint process

ASSUME LedgerAssumption ==
    /\ \A r \in Requests : DOMAIN r = {"action", "digest", "decided", "expires"}
    /\ \A r \in Requests : r.decided \in Nat /\ r.expires \in Nat
    /\ NoRequest \notin Requests
    /\ LedgerSkew \in Nat
    /\ MaxCrashes \in Nat

LedgerActions == {r.action : r \in Requests}

VARIABLES
    row,      \* governed_actions.state, "none" before the row exists
    bound,    \* request_json with owner_person_id
    result,   \* result_json: its observed_at, 0 while it is NULL
    handler,  \* the request inside the dispatch lock and the await it is in
    effects,  \* how often the executor really performed each action (history)
    crashes   \* crashes so far

ledgerVars == <<row, bound, result, handler, effects, crashes>>

RowStates == {"none", "prepared", "executing", "completed", "failed", "ambiguous"}

\* "down": the process is not running.  "performed": the effect exists and
\* perform has not returned yet.
Phases == {"free", "preparing", "performing", "performed", "down"}

LockFree == [phase |-> "free", request |-> NoRequest]
Down     == [phase |-> "down", request |-> NoRequest]

LedgerInit ==
    /\ ClockInit
    /\ row = [a \in LedgerActions |-> "none"]
    /\ bound = [a \in LedgerActions |-> NoRequest]
    /\ result = [a \in LedgerActions |-> 0]
    /\ handler = LockFree
    /\ effects = [a \in LedgerActions |-> 0]
    /\ crashes = 0

\* _assert_live_approval
LiveApproval(r, now) == r.decided <= now + LedgerSkew /\ now < r.expires

\* What GET and a replayed PUT return: the stored result, or a projection of
\* the bare state.  Only a completed projection means the effect is performed.
Projection(a) == [state |-> row[a], observed |-> result[a]]

-----------------------------------------------------------------------------
(* execute(), from taking the lock to its first await.                     *)

\* A new action: the row is written before anything else happens.
ExecuteNew(r, now) ==
    /\ handler = LockFree
    /\ row[r.action] = "none"
    /\ LiveApproval(r, now)
    /\ row' = [row EXCEPT ![r.action] = "prepared"]
    /\ bound' = [bound EXCEPT ![r.action] = r]
    /\ handler' = [phase |-> "preparing", request |-> r]
    /\ UNCHANGED <<result, effects, crashes>>

\* A row an earlier, interrupted execute left prepared is taken up again.
ExecuteAgain(r, now) ==
    /\ handler = LockFree
    /\ row[r.action] = "prepared"
    /\ bound[r.action] = r
    /\ LiveApproval(r, now)
    /\ handler' = [phase |-> "preparing", request |-> r]
    /\ UNCHANGED <<row, bound, result, effects, crashes>>

\* fail_prepared
FailPrepared(a, now) ==
    /\ row' = [row EXCEPT ![a] = "failed"]
    /\ result' = [result EXCEPT ![a] = now]
    /\ handler' = LockFree
    /\ UNCHANGED <<bound, effects, crashes>>

ExecuteTooLate(r, now) ==
    /\ handler = LockFree
    /\ row[r.action] = "prepared"
    /\ bound[r.action] = r
    /\ ~LiveApproval(r, now)
    /\ FailPrepared(r.action, now)

\* The early returns that write nothing: a replay of a started action, a
\* request for an action bound to another one, a new request too late.
ExecuteAnswered(r, now) ==
    /\ handler = LockFree
    /\ \/ row[r.action] \notin {"none", "prepared"}
       \/ row[r.action] # "none" /\ bound[r.action] # r
       \/ row[r.action] = "none" /\ ~LiveApproval(r, now)
    /\ UNCHANGED ledgerVars

-----------------------------------------------------------------------------
(* The awaits inside the lock.                                             *)

PreparationFails(now) ==
    /\ handler.phase = "preparing"
    /\ FailPrepared(handler.request.action, now)

\* Cancellation is no Exception: the handler unwinds and the row stays, as it
\* does when fail_prepared or mark_executing raises.
PreparationCancelled ==
    /\ handler.phase = "preparing"
    /\ handler' = LockFree
    /\ UNCHANGED <<row, bound, result, effects, crashes>>

ApprovalLapsed(now) ==
    /\ handler.phase = "preparing"
    /\ ~LiveApproval(handler.request, now)
    /\ FailPrepared(handler.request.action, now)

\* The approval is still live: mark_executing, then await perform.
MarkExecuting(now) ==
    /\ handler.phase = "preparing"
    /\ LiveApproval(handler.request, now)
    /\ row[handler.request.action] = "prepared"
    /\ row' = [row EXCEPT ![handler.request.action] = "executing"]
    /\ result' = [result EXCEPT ![handler.request.action] = 0]
    /\ handler' = [phase |-> "performing", request |-> handler.request]
    /\ UNCHANGED <<bound, effects, crashes>>

\* The executor's effect takes place (external).
PerformEffect ==
    /\ handler.phase = "performing"
    /\ effects' = [effects EXCEPT ![handler.request.action] = @ + 1]
    /\ handler' = [phase |-> "performed", request |-> handler.request]
    /\ UNCHANGED <<row, bound, result, crashes>>

\* finish()
Finish(s, now) ==
    /\ row[handler.request.action] = "executing"
    /\ row' = [row EXCEPT ![handler.request.action] = s]
    /\ result' = [result EXCEPT ![handler.request.action] = now]
    /\ handler' = LockFree
    /\ UNCHANGED <<bound, effects, crashes>>

PerformReturns(now) ==
    /\ handler.phase = "performed"
    /\ Finish("completed", now)

\* Mutant: an exception of perform is taken for a failure without effect.
UnwindIsFailure(now) ==
    /\ handler.phase \in {"performing", "performed"}
    /\ Finish("failed", now)

\* Any unwind of perform, before or after the effect, cancellation included.
PerformUnwinds(now) ==
    /\ handler.phase \in {"performing", "performed"}
    /\ Finish("ambiguous", now)

\* finish itself raises (the database refuses): the row stays executing.
FinishRaises ==
    /\ handler.phase \in {"performing", "performed"}
    /\ handler' = LockFree
    /\ UNCHANGED <<row, bound, result, effects, crashes>>

-----------------------------------------------------------------------------
(* Process failure.                                                        *)

Crash ==
    /\ handler # Down
    /\ crashes < MaxCrashes
    /\ crashes' = crashes + 1
    /\ handler' = Down
    /\ UNCHANGED <<row, bound, result, effects>>

\* Mutant: opening the ledger takes an interrupted execution up again.
RecoverByRerun(now) ==
    /\ handler = Down
    /\ IF \E a \in LedgerActions : row[a] = "executing"
       THEN \E a \in LedgerActions : /\ row[a] = "executing"
                                     /\ handler' = [phase |-> "performing", request |-> bound[a]]
       ELSE handler' = LockFree
    /\ UNCHANGED <<row, bound, result, effects, crashes>>

\* Opening the ledger ends every executing row as ambiguous.
RecoverExecuting(now) ==
    LET executing == {a \in LedgerActions : row[a] = "executing"} IN
    /\ handler = Down
    /\ row' = [a \in LedgerActions |-> IF a \in executing THEN "ambiguous" ELSE row[a]]
    /\ result' = [a \in LedgerActions |-> IF a \in executing THEN now ELSE result[a]]
    /\ handler' = LockFree
    /\ UNCHANGED <<bound, effects, crashes>>

-----------------------------------------------------------------------------

Arrivals(r, now) ==
    \/ ExecuteNew(r, now)
    \/ ExecuteAgain(r, now)
    \/ ExecuteTooLate(r, now)
    \/ ExecuteAnswered(r, now)

\* Everything the endpoint does after it accepted a request.
Serving(now) ==
    \/ PreparationFails(now)
    \/ PreparationCancelled
    \/ ApprovalLapsed(now)
    \/ MarkExecuting(now)
    \/ PerformEffect
    \/ PerformReturns(now)
    \/ PerformUnwinds(now)
    \/ FinishRaises
    \/ Crash
    \/ RecoverExecuting(now)

LedgerNext ==
    \/ Tick /\ UNCHANGED ledgerVars
    \/ /\ \E now \in Readings : Serving(now) \/ \E r \in Requests : Arrivals(r, now)
       /\ UNCHANGED clock

LedgerSpec == LedgerInit /\ [][LedgerNext]_<<clock, ledgerVars>>

-----------------------------------------------------------------------------
(* Properties.                                                             *)

\* The shape of the ledger's state.
LedgerTypeOK ==
    /\ ClockTypeOK
    /\ row \in [LedgerActions -> RowStates]
    /\ bound \in [LedgerActions -> Requests \cup {NoRequest}]
    /\ result \in [LedgerActions -> Nat]
    /\ handler \in [phase : {"preparing", "performing", "performed"}, request : Requests]
                   \cup {LockFree, Down}
    /\ effects \in [LedgerActions -> Nat]
    /\ crashes \in Nat

\* "SQLite truth for one-mutation-at-most governed effects": whatever is
\* replayed, cancelled or restarted, the executor performs an action once.
PerformedAtMostOnce == \A a \in LedgerActions : effects[a] <= 1

\* The effect_state a projection reports is true: not_performed and
\* not_started mean no effect, performed means exactly one.
ProjectionTruthful ==
    \A a \in LedgerActions :
        /\ row[a] \in {"none", "prepared", "failed"} => effects[a] = 0
        /\ row[a] = "completed" => effects[a] = 1

\* The row of the request inside the lock is the one its handler expects, and
\* the effect has happened exactly when the handler is past it: nothing else
\* moves a row while its handler awaits.
HandlerOwnsRow ==
    handler.request # NoRequest =>
        LET a == handler.request.action IN
        /\ bound[a] = handler.request
        /\ row[a] = IF handler.phase = "preparing" THEN "prepared" ELSE "executing"
        /\ effects[a] = IF handler.phase = "performed" THEN 1 ELSE 0

\* A result, once stored, and the request an action is bound to never change,
\* so a replayed PUT and every GET answer the same.
ResultsImmutable ==
    [][\A a \in LedgerActions :
          /\ result[a] # 0 => Projection(a)' = Projection(a)
          /\ bound[a] # NoRequest => bound'[a] = bound[a]]_<<clock, ledgerVars>>

\* The durable executing marker precedes the effect, and the approval was live
\* when it was set, up to the wait of the two transactions around it.
EffectOnLiveApproval ==
    [][\A a \in LedgerActions : row[a] # "executing" /\ row'[a] = "executing" =>
          /\ effects[a] = 0
          /\ clock < bound[a].expires + MaxWait]_<<clock, ledgerVars>>
=============================================================================
