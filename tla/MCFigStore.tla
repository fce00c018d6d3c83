----------------------------- MODULE MCFigStore -----------------------------
(* FigStore on small sets.                                                 *)
EXTENDS FigStore, TLC

FigSymmetry == Permutations(Stores) \cup Permutations(Owners)

=============================================================================
