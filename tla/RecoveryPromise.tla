--------------------------- MODULE RecoveryPromise ---------------------------
(***************************************************************************)
(* What the recovery of one incident promises (docs/incident-recovery-      *)
(* principal.md, "Exactly one revert per action"): at most one outcome ever  *)
(* happens, a revert merged or a conflict recorded for its owner, and what   *)
(* the observer notes and the tenant is told is that outcome, for good.      *)
(***************************************************************************)
CONSTANTS Outcome, Nothing

VARIABLES
    happened,    \* the outcomes that happened
    noted,       \* what the observer recorded as the receipt of the action
    told         \* what the tenant was told

vars == <<happened, noted, told>>

Init ==
    /\ happened = {}
    /\ noted = Nothing
    /\ told = {}

Happen ==
    /\ happened = {}
    /\ \E o \in Outcome : happened' = {o}
    /\ UNCHANGED <<noted, told>>

Note ==
    /\ noted = Nothing
    /\ noted' \in happened
    /\ UNCHANGED <<happened, told>>

\* The tenant may be told before the observer's own note is durable.
Tell ==
    /\ told' \subseteq happened
    /\ told \subseteq told'
    /\ UNCHANGED <<happened, noted>>

Next == Happen \/ Note \/ Tell

Spec == Init /\ [][Next]_vars
=============================================================================
