------------------------------- MODULE Clock -------------------------------
(***************************************************************************)
(* The wall clock that the action store, the workers and the endpoint of   *)
(* one host share (time.time, external to the repository).                 *)
(*                                                                         *)
(* Every store method reads the clock BEFORE it opens its transaction      *)
(* (now = float(self._clock()); with self._transaction() ...), and the     *)
(* transaction may then wait for the thread lock and for SQLite's write    *)
(* lock.  So the "now" that judges an expiry inside a transaction is any   *)
(* reading that is at most MaxWait old when the transaction commits.       *)
(***************************************************************************)
EXTENDS Naturals

CONSTANTS
    Horizon,  \* the model's last instant: the bound on the clock
    MaxWait   \* the longest wait between a clock reading and its commit

ASSUME ClockAssumption == Horizon \in Nat \ {0} /\ MaxWait \in Nat

VARIABLE clock

\* Zero is no instant: gate.py and governed_actions.py refuse now <= 0.
ClockInit == clock = 1

Tick == clock < Horizon /\ clock' = clock + 1

\* The values "now" may hold in a transaction that commits at this instant.
Readings == {t \in 1..clock : clock <= t + MaxWait}

ClockTypeOK == clock \in 1..Horizon
=============================================================================
