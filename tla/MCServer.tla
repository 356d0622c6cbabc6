------------------------------ MODULE MCServer ------------------------------
(* Server on a small instance.  Connections, users, passwords and uuids are *)
(* interchangeable; the spec with symmetry is checked for safety only.      *)
EXTENDS Server, TLC

Symmetry ==
  Permutations(Conns) \cup Permutations(Users)
    \cup Permutations(Passwords) \cup Permutations(Uuids)
=============================================================================
