---------------------------- MODULE AccessRules ----------------------------
(***************************************************************************)
(* The rules of access that take no time: which groups a token stands for, *)
(* given what the portal says of the person now, and whether a backend or  *)
(* a site is open to them.  The same rules serve the MCP gate              *)
(* (_bearer_gate) and the REST bridge (_rest_groups).                      *)
(***************************************************************************)
EXTENDS Naturals, FiniteSets

CONSTANTS
    Targets,    \* backends and sites
    Keyed,      \* those that need a right of the portal (_ACCESS_POLICY), here called key
    AdminOnly,  \* those whose allowed_groups are the administrators (POLICY)
    Delegated,  \* those called in the person's own name (PER_USER_SSO)
    NONE

(* Rights come from the portal: key (a feat: or plat: group), admin and    *)
(* aff (the affiliation).  The groups of a token also have the login       *)
(* groups, and may say that it is an internal service.                     *)
Rights == {"key", "admin", "aff"}
Synthetic == {"key"}
Groups == {"login", "service", "key", "admin"}

ASSUME RulesAssumption ==
    /\ Keyed \subseteq Targets /\ AdminOnly \subseteq Targets /\ Delegated \subseteq Targets
    /\ NONE \notin Targets /\ \A s \in SUBSET Rights : s # NONE

(* Of the groups gs of a token, those the portal is asked with.            *)
Base(gs) == gs \ (Synthetic \cup {"service"})

(* The groups the gate forwards; e is the answer of the portal or NONE.    *)
GateGroups(gs, e) ==
    LET pat == IF e = NONE THEN gs \ {"service"} ELSE Base(gs) \cup (e \cap Synthetic)
    IN  (pat \ {"admin"}) \cup (IF e = NONE THEN {} ELSE e \cap {"admin"})

(* Mutant: the mark of the token is kept on this path.                     *)
Mut_RestGroups(gs, e) ==
    Base(gs) \cup (IF e = NONE THEN gs \cap Synthetic ELSE e \cap {"key", "admin"})

(* _rest_groups.                                                           *)
RestGroups(gs, e) ==
    (Base(gs) \ {"admin"})
    \cup (IF e = NONE THEN gs \cap Synthetic ELSE e \cap {"key", "admin"})

(* _deny_reason: rdy says whether the policy has ever been received, shut  *)
(* are the declared backends without a declaration or a row.  Only the     *)
(* last two do not bind internal services.                                 *)
Denied(rdy, shut, x, gs) ==
    \/ x \in AdminOnly /\ "admin" \notin gs
    \/ x \in shut
    \/ /\ "service" \notin gs
       /\ \/ ~rdy /\ x \in Delegated
          \/ rdy /\ x \in Keyed /\ "key" \notin gs
=============================================================================
