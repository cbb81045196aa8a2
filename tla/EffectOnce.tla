---------------------------- MODULE EffectOnce -----------------------------
(***************************************************************************)
(* What the task queue promises of an effect: of the attempts that may     *)
(* have performed it, at most one is ever open.  Another attempt is let    *)
(* loose only when each earlier one has been ruled out, and one that was   *)
(* ruled out never runs again.                                             *)
(***************************************************************************)
CONSTANTS Effects,    \* the effects the system may perform
          Tries       \* the attempts at them

VARIABLES open,       \* open[e]: the attempts that may have performed e
          ruledOut    \* the attempts that did not

Init == /\ open \in [Effects -> SUBSET Tries]
        /\ ruledOut = {}

LetLoose(e, t) ==
    /\ open[e] = {}
    /\ t \notin ruledOut
    /\ open' = [open EXCEPT ![e] = {t}]
    /\ UNCHANGED ruledOut

RuleOut(e, t) ==
    /\ t \in open[e]
    /\ open' = [open EXCEPT ![e] = @ \ {t}]
    /\ ruledOut' = ruledOut \cup {t}

Next == \E e \in Effects, t \in Tries : LetLoose(e, t) \/ RuleOut(e, t)

Spec == Init /\ [][Next]_<<open, ruledOut>>
=============================================================================
