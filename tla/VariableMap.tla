---------------------------- MODULE VariableMap ----------------------------
(***************************************************************************)
(* What the environment of the shell promises: a partial map from names to *)
(* values with room for EnvMax names.  A new name that finds no room is    *)
(* ignored.                                                                *)
(***************************************************************************)
EXTENDS Naturals, FiniteSets

CONSTANTS Names, Values, EnvMax, NotSet

VARIABLE value    \* name -> its value, or NotSet

IsSet(k) == value[k] # NotSet

Init == value = [k \in Names |-> NotSet]

Set(k, v) ==
    /\ IsSet(k) \/ Cardinality({ n \in Names : IsSet(n) }) < EnvMax
    /\ value' = [value EXCEPT ![k] = v]

Unset(k) == value' = [value EXCEPT ![k] = NotSet]

Next == \E k \in Names : Unset(k) \/ \E v \in Values : Set(k, v)

Spec == Init /\ [][Next]_value
=============================================================================
