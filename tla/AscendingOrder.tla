--------------------------- MODULE AscendingOrder ---------------------------
(***************************************************************************)
(* A finite set of integers listed from the least to the greatest: how the *)
(* code runs through the keys of a std::map, and the places of a list.  It *)
(* is said by what it is, and not by a sorting algorithm, so that the      *)
(* proofs can use it.                                                      *)
(***************************************************************************)
EXTENDS Integers, FiniteSets

Ascending(S) ==
  CHOOSE f \in [1 .. Cardinality(S) -> S] : \A j, k \in DOMAIN f : j < k => f[j] < f[k]

=============================================================================
