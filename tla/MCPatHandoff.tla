---------------------------- MODULE MCPatHandoff ----------------------------
(* One app and one person, with a rest of two ticks.                       *)
EXTENDS PatHandoff
=============================================================================
