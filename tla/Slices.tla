------------------------------- MODULE Slices -------------------------------
(***************************************************************************)
(* Go code that filters a slice visits its positions in order.  InOrder(T) *)
(* holds the one sequence that lists the positions T in that order.        *)
(***************************************************************************)
EXTENDS Naturals, FiniteSets

InOrder(T) ==
    {f \in [1..Cardinality(T) -> T] :
        /\ \A i, j \in DOMAIN f : i < j => f[i] < f[j]
        /\ \A k \in T : \E i \in DOMAIN f : f[i] = k}
=============================================================================
