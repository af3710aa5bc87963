------------------------------ MODULE MCOAuth ------------------------------
(* Instances of OAuth for TLC. *)
EXTENDS OAuth, TLC

Symmetric == Permutations(Account) \cup Permutations(Call) \cup Permutations(State)
=============================================================================
