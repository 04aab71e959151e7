------------------------------ MODULE Sorting ------------------------------
(***************************************************************************)
(* slices.Sort over a finite set of numbers.  Its i-th element is the one  *)
(* that i elements of the set do not exceed: a definition of this form,    *)
(* unlike one by recursion, gives a proof a fact about every element.      *)
(***************************************************************************)
EXTENDS Naturals, FiniteSets

UpTo(S, x) == {y \in S : y <= x}

Sorted(S) == [i \in 1..Cardinality(S) |-> CHOOSE x \in S : Cardinality(UpTo(S, x)) = i]
=============================================================================
