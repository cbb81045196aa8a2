--------------------------- MODULE MCSourceMemory ---------------------------
(* Instances of SourceMemory for TLC. *)
EXTENDS SourceMemory, TLC

CONSTANTS t1, t2, t3, e1, e2, e3, e4, A, B

U(x) == <<"user", x>>
R(x) == <<"assistant", x>>

Envelope(t, c, kind, msgs, needs, inputs) ==
    [turn |-> t, contact |-> c, session |-> "s", kind |-> kind, msgs |-> msgs,
     needs |-> needs, inputs |-> inputs]

\* A turn, a checkpoint with a copy of its message, an answer drawn from
\* both in the words of the first, and another envelope under its id.
Copies ==
    e1 :> Envelope(t1, A, "turn", {U("x"), R("d")}, {}, {}) @@
    e2 :> Envelope(t2, A, "checkpoint", {U("x"), U("y")}, {}, {}) @@
    e3 :> Envelope(t3, A, "turn", {U("z"), R("d")}, {t2}, {<<t1, <<"s", U("x")>>>>}) @@
    e4 :> Envelope(t1, A, "checkpoint", {U("w")}, {}, {})

\* An imported message and a checkpoint that repeats it.
Import ==
    e1 :> Envelope(t1, A, "import", {U("x")}, {}, {}) @@
    e2 :> Envelope(t2, A, "checkpoint", {U("x"), U("y")}, {}, {})

\* One source at a time, or the first two.
OneOrTwo == {{t} : t \in Turns} \cup {{t1, t2}}
=============================================================================
