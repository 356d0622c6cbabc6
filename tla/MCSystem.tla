------------------------------ MODULE MCSystem ------------------------------
(* System on a small instance; symmetry is used for safety only. *)
EXTENDS System, TLC

Symmetry == Permutations(Conns) \cup Permutations(Users) \cup Permutations(Uuids)
=============================================================================
