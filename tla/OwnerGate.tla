----------------------------- MODULE OwnerGate -----------------------------
(***************************************************************************)
(* The owner-approval gate of the host worker (gate.py): what a receipt of *)
(* kind "gate" says, when it authorises a dispatch, and which part of that *)
(* judgment the action store repeats itself inside the dispatch            *)
(* transaction (sqlite_store.py, begin_owner_authorized_dispatch).         *)
(*                                                                         *)
(* A receipt is abstracted to what the judgment tells apart: the field-set *)
(* shape, the binding_method, whether it binds this very action (decision, *)
(* authority, ids, digests, revision), and its times.                      *)
(***************************************************************************)
EXTENDS Naturals

CONSTANTS
    Actions,    \* action ids
    Grantable,  \* actions whose tool a standing grant may authorise
    GateKeys,   \* receipt keys of gate receipts
    ClockSkew   \* GATE_CLOCK_SKEW_SECONDS

ASSUME GateAssumption == Grantable \subseteq Actions /\ ClockSkew \in Nat

\* The two registered provenance shapes, and any other field set.
Shapes == {"message_delivery", "bounded_grant", "unregistered"}

\* binding_method: the value reserved for grants, or any open value.
BindingMethods == {"bounded_grant", "open"}

\* extra: bounded_grant_expires_at_epoch, when the shape carries it and it is
\* not the "unlimited" sentinel.
GateReceipts ==
    [key     : GateKeys,
     shape   : Shapes,
     method  : BindingMethods,
     binds   : BOOLEAN,
     decided : Nat \ {0},
     expires : Nat,
     extra   : SUBSET (Nat \ {0})]

Registered(g) == g.shape \in {"message_delivery", "bounded_grant"}

Grants(g) == g.shape = "bounded_grant"

\* A pinned shape requires its own binding method, an open shape any method
\* that no other shape reserves.
BindingMethodValid(g) == (g.method = "bounded_grant") <=> Grants(g)

\* Every expiry the receipt carries; one that is not after `now' has passed.
Expiries(g) == {g.expires} \cup g.extra

\* Mutant: only the common expiry counts.
CommonExpiryOnly(g, now) == g.expires <= now

GateExpired(g, now) == \E e \in Expiries(g) : e <= now

TimesConsistent(g, now) == g.decided <= now + ClockSkew /\ g.decided < g.expires

\* validate_owner_gate on the one gate receipt of action a.  Expiry is not
\* part of it: the authorization only reports it.
ValidateOwnerGate(a, g, now) ==
    /\ Registered(g)
    /\ Grants(g) => a \in Grantable
    /\ g.binds
    /\ BindingMethodValid(g)
    /\ TimesConsistent(g, now)

\* The validator the worker hands to the store: the gate is valid and no
\* expiry it carries has passed.
AssertDispatchable(a, g, now) ==
    ValidateOwnerGate(a, g, now) /\ ~GateExpired(g, now)

\* What the store checks by itself, whatever validator it was given.  It
\* knows the common expiry only, and the backstop goes by binding_method.
StructuralRecheck(a, g, now) ==
    /\ g.binds
    /\ TimesConsistent(g, now)
    /\ now < g.expires
    /\ g.method = "bounded_grant" => a \in Grantable
=============================================================================
