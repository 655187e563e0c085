------------------------------ MODULE TagLevels ------------------------------
(***************************************************************************)
(* What elog.c's tag filter promises: a level for every tag, which holds   *)
(* until it is set anew; tags beyond the capacity cannot be restricted.    *)
(***************************************************************************)
EXTENDS Naturals, FiniteSets

CONSTANTS Tags, Lowest, Capacity

VARIABLE level

Unrestricted == [t \in Tags |-> Lowest]
Restricted == {t \in Tags : level[t] # Lowest}

Init == level = Unrestricted

Set ==
    \E t \in Tags, l \in 0 .. Lowest :
        /\ l = Lowest \/ t \in Restricted \/ Cardinality(Restricted) < Capacity
        /\ level' = [level EXCEPT ![t] = l]

\* elog_init forgets every level.
Forget == level' = Unrestricted

Next == Forget \/ Set

Spec == Init /\ [][Next]_level
=============================================================================
