------------------------------ MODULE Custody ------------------------------
(***************************************************************************)
(* What the handing over of portal PATs promises: a PAT that the portal    *)
(* exchanges for an app is loose until the app takes it; the app keeps one *)
(* at a time and lets the portal revoke the one before; and only a loose   *)
(* one is ever dropped, after which the app does not get it.               *)
(***************************************************************************)
CONSTANT Pats

VARIABLE state

(* No PAT has been exchanged yet.                                          *)
Init == state = [p \in Pats |-> "unborn"]

Exchange(p) == state[p] = "unborn" /\ state' = [state EXCEPT ![p] = "loose"]

(* The app takes p, and the one it had is over.                            *)
Take(p) ==
    /\ state[p] = "loose"
    /\ state' = [q \in Pats |-> IF q = p THEN "held" ELSE IF state[q] = "held" THEN "over" ELSE state[q]]

(* The gateway has it revoked.                                             *)
Drop(p) == state[p] = "loose" /\ state' = [state EXCEPT ![p] = "dropped"]

Next == \E p \in Pats : Exchange(p) \/ Take(p) \/ Drop(p)

Spec == Init /\ [][Next]_state

(* The app never has two, and never one that was dropped.                  *)
OneHeld == \A p, q \in Pats : state[p] = "held" /\ state[q] = "held" => p = q
=============================================================================
