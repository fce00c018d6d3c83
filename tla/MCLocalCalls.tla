---------------------------- MODULE MCLocalCalls ----------------------------
(* LocalCalls for TLC: two calls, conversations of two messages in         *)
(* batches of one.                                                         *)
EXTENDS LocalCalls
=============================================================================
