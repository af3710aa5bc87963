------------------------------ MODULE Filtering ------------------------------
(***************************************************************************)
(* What Iterator::filter and collect leave of a list, given the positions   *)
(* they keep.  Defined by counting and not by recursion, as SelectSeq is,   *)
(* so that it can be reasoned about.                                        *)
(***************************************************************************)
EXTENDS Naturals, FiniteSets

Nth(S, n) == CHOOSE i \in S : Cardinality({j \in S : j <= i}) = n

Filtered(list, kept) == [n \in 1 .. Cardinality(kept) |-> list[Nth(kept, n)]]
=============================================================================
