---------------------------- MODULE OneMutation ----------------------------
(***************************************************************************)
(* What the governed-action path promises a caller, without stores,        *)
(* leases, workers or endpoints (docs/GOVERNED-ACTIONS.md, the docstrings  *)
(* of store.py and worker.py): an action is authorised at most once, only  *)
(* an authorised action has an effect, it has one at most, and a confirmed *)
(* action has had exactly one.  An ambiguous action may or may not have    *)
(* had its effect, and the effect may still come after the verdict.        *)
(***************************************************************************)
EXTENDS Naturals

CONSTANT Actions

VARIABLES
    verdict,   \* what the host knows of each action
    performed  \* how often the action has really been performed

Verdicts == {"open", "refused", "authorized", "confirmed", "ambiguous"}

Init ==
    /\ verdict = [a \in Actions |-> "open"]
    /\ performed = [a \in Actions |-> 0]

\* The host gives up an action it has not authorised, or authorises it.
Refuse(a) ==
    /\ verdict[a] = "open"
    /\ verdict' = [verdict EXCEPT ![a] = "refused"]
    /\ UNCHANGED performed

Authorize(a) ==
    /\ verdict[a] = "open"
    /\ verdict' = [verdict EXCEPT ![a] = "authorized"]
    /\ UNCHANGED performed

\* The effect, before or after the host stopped waiting for it.
Perform(a) ==
    /\ verdict[a] \in {"authorized", "ambiguous"}
    /\ performed[a] = 0
    /\ performed' = [performed EXCEPT ![a] = 1]
    /\ UNCHANGED verdict

Confirm(a) ==
    /\ verdict[a] = "authorized"
    /\ performed[a] = 1
    /\ verdict' = [verdict EXCEPT ![a] = "confirmed"]
    /\ UNCHANGED performed

\* Several actions may be given up in one sweep of expired leases.
GiveUp(A) ==
    /\ \A a \in A : verdict[a] = "authorized"
    /\ verdict' = [a \in Actions |-> IF a \in A THEN "ambiguous" ELSE verdict[a]]
    /\ UNCHANGED performed

Next ==
    \/ \E a \in Actions : Refuse(a) \/ Authorize(a) \/ Perform(a) \/ Confirm(a)
    \/ \E A \in SUBSET Actions : GiveUp(A)

Spec == Init /\ [][Next]_<<verdict, performed>>
=============================================================================
