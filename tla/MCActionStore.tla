--------------------------- MODULE MCActionStore ---------------------------
(* The action store under arbitrary clients, on small instances.           *)
EXTENDS ActionStore, TLC

CONSTANTS a1, a2, o1, o2

GateOf(k, s, m, b, x, extra) ==
    [key |-> k, shape |-> s, method |-> m, binds |-> b, decided |-> 1,
     expires |-> x, extra |-> extra]

\* Receipts that authorise, that expire early, that carry a shorter grant, and
\* one that claims the grant method in a delivery shape.
MCGateMenu ==
    {GateOf("owner-gate", "message_delivery", "open", TRUE, 3, {}),
     GateOf("owner-gate", "bounded_grant", "bounded_grant", TRUE, 4, {2}),
     GateOf("second-gate", "message_delivery", "bounded_grant", TRUE, 4, {})}

\* One gate that outlives the horizon, for the run on two actions.
MCOneGate == {GateOf("owner-gate", "message_delivery", "open", TRUE, 9, {})}

MCGateKeys == {"owner-gate", "second-gate"}
=============================================================================
