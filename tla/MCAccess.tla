------------------------------ MODULE MCAccess ------------------------------
(* A token of an administrator of before without the right, a backend that *)
(* needs a right and is called in the person's name, and one for           *)
(* administrators.                                                         *)
EXTENDS Access, TLC

CONSTANTS m1, r1, old, app, adm

MCClaims == old :> {"login", "service", "admin"}
=============================================================================
