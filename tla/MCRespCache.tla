----------------------------- MODULE MCRespCache -----------------------------
(* Instances of RespCache for TLC.                                         *)
EXTENDS RespCache, TLC

CallSymmetry == Permutations(Calls)
CacheSymmetry == Permutations(Calls) \cup Permutations(Users)

(* Of the writes, registrations and declarations, three in all.            *)
FewChanges ==
    \A l \in Links : conn[l] + data[l[1]] + spec[l[1]] <= 3

=============================================================================
