---------------------------- MODULE Subsequences ----------------------------
(* Elements taken out of the middle of a sequence.                         *)
EXTENDS Naturals, Sequences, FiniteSets

(* The ways to list a set of positions in ascending order: there is one.   *)
Ascending(I) ==
    {at \in [1 .. Cardinality(I) -> I] :
        /\ \A k, l \in DOMAIN at : k < l => at[k] < at[l]
        /\ \A i \in I : \E k \in DOMAIN at : at[k] = i}

(* The elements of s at the positions in I, in their order: one sequence.  *)
Selections(s, I) == {[k \in DOMAIN at |-> s[at[k]]] : at \in Ascending(I)}
=============================================================================
