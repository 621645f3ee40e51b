------------------------------ MODULE MCGroups ------------------------------
(* Values for checking Groups: user and row ids are interchangeable.       *)
EXTENDS Groups, TLC

Symmetry == Permutations(Users) \cup Permutations(Members)

=============================================================================
