------------------------------ MODULE MCJsonDB ------------------------------
(* JsonDB on a small instance: two users, two uuids, two resource values,   *)
(* one camp.  The users and the uuids are interchangeable.                  *)
EXTENDS JsonDB, TLC

CONSTANTS r0, r1

MCResources == {r0, r1}

OneResource == {r0}

Symmetry == Permutations(Users) \cup Permutations(Uuids)
=============================================================================
