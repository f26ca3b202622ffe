------------------------------ MODULE Sorting ------------------------------
(***************************************************************************)
(* Sets as sequences in an order, and sequences at some of their           *)
(* positions.  An element is found by the number of those before it: no    *)
(* recursion, so that the modules which sort and filter can be proved      *)
(* about.                                                                  *)
(***************************************************************************)
EXTENDS Naturals, FiniteSets

\* A set as a sequence in which every element stands behind those before it.
InOrder(set, Before(_, _)) ==
    [n \in 1..Cardinality(set) |->
        CHOOSE x \in set : Cardinality({y \in set : Before(y, x)}) = n - 1]

\* What a sequence has at some of its positions.
Ahead(i, j) == i < j
Ascending(positions) == InOrder(positions, Ahead)
Picked(seq, positions) ==
    [n \in 1..Cardinality(positions) |-> seq[Ascending(positions)[n]]]
=============================================================================
