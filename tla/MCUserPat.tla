------------------------------ MODULE MCUserPat ------------------------------
(* UserPat on small sets.                                                  *)
EXTENDS UserPat, TLC

CallSymmetry == Permutations(Tool) \cup Permutations(RestCall) \cup Permutations(Bridge)

=============================================================================
