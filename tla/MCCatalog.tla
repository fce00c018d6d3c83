------------------------------ MODULE MCCatalog ------------------------------
(* Catalog on small sets: a configured app, one of the hub and a declared  *)
(* one that all offer "same", each a tool of its own beside it.            *)
EXTENDS Catalog

MCOffers == [k \in Keys |-> {"same"} \cup {IF k \in Static THEN "s" ELSE IF k \in Hub THEN "h" ELSE "d"}]

=============================================================================
