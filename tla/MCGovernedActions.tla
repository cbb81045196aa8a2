------------------------ MODULE MCGovernedActions ------------------------
(* The composed system on small instances.                                 *)
EXTENDS GovernedActions, TLC

CONSTANTS a1, w1, w2

GateOf(k, x) ==
    [key |-> k, shape |-> "message_delivery", method |-> "open", binds |-> TRUE,
     decided |-> 1, expires |-> x, extra |-> {}]

MCGateMenu == {GateOf("owner-gate", 3)}

\* The liveness run dispatches in the first instant only, so that every
\* contract ends within the horizon.
MCShortGate == {GateOf("owner-gate", 2)}

MCGateKeys == {"owner-gate"}

MCRequests == {RequestOf(a, g) : a \in Actions, g \in GateMenu}

MCEvidence == 1..Horizon

WorkerSymmetry == Permutations(Owners)

MCEnabled == [w \in Owners |-> Actions]
=============================================================================
