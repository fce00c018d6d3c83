-------------------------- MODULE MCBackendSession --------------------------
(* Instances of BackendSession for TLC.                                    *)
EXTENDS BackendSession, TLC

CallSymmetry == Permutations(Calls \ Fwd)

=============================================================================
