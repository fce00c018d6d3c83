---------------------------- MODULE CatalogProofs ----------------------------
(***************************************************************************)
(* Proofs about Catalog, for any backends, tools, addresses and counts.    *)
(* The first part says what the two tables of names lead to; the second    *)
(* the inductive invariant, one lemma for each action; the last, that the  *)
(* names of the configured and hub apps do not depend on the declared ones.*)
(***************************************************************************)
EXTENDS Catalog, TLAPS

Decls == [Declared -> Urls \cup {NONE}]
Listed == pc \in {"list", "bootList"}

-----------------------------------------------------------------------------
(* The inductive invariant                                                 *)

(* While the lists are gathered the table of backends stands still, and    *)
(* every backend done with has its tools in the union or no list at all.   *)
ListInv ==
    /\ Listed => /\ todo \subseteq backends /\ collected \subseteq backends
                 /\ \A k \in backends \ todo : k \in collected \/ last[k] = NONE
    /\ ~Listed => collected = {}
    /\ collected \cap todo = {}
    /\ \A k \in collected : last[k] # NONE

(* A kept list counts the rounds in which its backend did not answer.      *)
RoundInv == \A k \in Keys : last[k] # NONE => silent[k] = last[k]

MissInv == \A k \in Hub : heaxMiss[k] <= absent[k]

(* No name exists before the first lists; configured backends never go.    *)
BootInv ==
    /\ pc \in {"boot", "bootConn", "bootList"} => Routed(route) = {} /\ Routed(alias) = {}
    /\ pc = "boot" => active = {}
    /\ pc # "boot" => Static \subseteq backends

(* What is offered of a backend that has gone, or has no list: why, and    *)
(* that the pass under way will build the names again.                     *)
RouteInv ==
    \A k \in Routed(route) :
        /\ Offers[k] # {}
        /\ last[k] = NONE => silent[k] > StaleRounds \/ k \in Declared \ backends
        /\ k \in Hub \ backends => absent[k] >= MissDrop
        /\ k \in Declared \ backends =>
             /\ pc \in {"conn", "hub", "probe", "list"}
             /\ pc # "list" => changed
             /\ pc = "conn" => k \notin todo

(* Among the backends B, only p's wants its bare name; the name it then    *)
(* gets.                                                                   *)
Alone(B, p) == p[2] \notin Taken /\ \A j \in B \ {p[1]} : p[2] \notin Offers[j]
BaseName(B, family, p) == IF Alone(B, p) /\ p[1] \notin family THEN <<NONE, p[2]>> ELSE p

InBase == Routed(route) \cap Base
BaseOf(C) == {k \in C : Offers[k] # {}} \cap Base

(* The configured and hub apps that are listed settle, with the family     *)
(* alone, how their tools are listed, and by themselves which bare names   *)
(* lead to them; the declared ones have no part in it.                     *)
NameInv ==
    /\ applied # {} => held
    /\ \A n \in Names \cup Prefixed, p \in Prefixed : p[1] \in Base =>
          (n \in DOMAIN route /\ route[n] = p
             <=> p \in Tools(InBase) /\ n = BaseName(InBase, applied, p))
    /\ \A n \in Names, p \in Prefixed \ {NONE} : p[1] \in Base =>
          (Called(n) = p <=> p \in Tools(InBase) /\ p[2] = n[2] /\ Alone(InBase, p))

IInv == TypeOK /\ ListInv /\ RoundInv /\ MissInv /\ BootInv /\ RouteInv /\ DeclaredIsGuarded

-----------------------------------------------------------------------------
(* Names                                                                   *)

(* No two tools get one name: each is listed under the one it gets.        *)
LEMMA RoutesAre ==
    ASSUME NEW C \in SUBSET Keys, NEW family
    PROVE  /\ \A n \in DOMAIN Routes(C, family) : \E p \in Tools(C) : n = Exposed(C, family, p)
           /\ \A p \in Tools(C) : /\ Exposed(C, family, p) \in DOMAIN Routes(C, family)
                                 /\ Routes(C, family)[Exposed(C, family, p)] = p
<1> DEFINE f == Routes(C, family)
           X(p) == Exposed(C, family, p)
<1>1. \A p \in Tools(C) : /\ p \in Prefixed /\ p[1] \in C /\ p[2] \in Offers[p[1]]
                          /\ p = <<p[1], p[2]>> /\ p[1] # NONE
                          /\ <<NONE, p[2]>> \in Names
  BY CatalogAssumption DEF Tools, Prefixed, Names
<1>2. \A p \in Tools(C) : X(p) \in {p, <<NONE, p[2]>>}
  BY DEF Exposed
<1>3. \A p, q \in Tools(C) : X(p) = X(q) => p = q
  <2>1. SUFFICES ASSUME NEW p \in Tools(C), NEW q \in Tools(C), X(p) = X(q), p # q
                 PROVE  FALSE
    OBVIOUS
  <2>2. p[2] = q[2] /\ p[1] # q[1]
    BY <1>1, <1>2, <2>1
  <2>3. ~Clashes(C, p[1], p[2]) /\ ~Clashes(C, q[1], q[2])
    <3>1. X(p) # p \/ X(q) # q
      BY <2>1
    <3>2. X(p) = <<NONE, p[2]>> /\ X(q) = <<NONE, q[2]>>
      BY <1>1, <1>2, <2>1, <3>1
    <3>3. X(p) # p /\ X(q) # q
      BY <1>1, <3>2
    <3>4. QED  BY <3>3 DEF Exposed
  <2>4. QED  BY <1>1, <2>2, <2>3 DEF Clashes
<1>4. DOMAIN f = {X(p) : p \in Tools(C)}
  BY DEF Routes
<1>5. \A p \in Tools(C) : f[X(p)] = p
  <2>1. TAKE p \in Tools(C)
  <2>2. f[X(p)] = CHOOSE q \in Tools(C) : X(q) = X(p)
    BY DEF Routes
  <2>3. QED  BY <1>3, <2>2
<1>6. QED  BY <1>4, <1>5

(* What the listed names lead to: tools of the backends whose lists are    *)
(* there, and of each that offers any.                                     *)
LEMMA RoutesLead ==
    ASSUME NEW C \in SUBSET Keys, NEW family
    PROVE  /\ NamesOK(Routes(C, family))
           /\ Routed(Routes(C, family)) = {k \in C : Offers[k] # {}}
<1> DEFINE f == Routes(C, family)
           X(p) == Exposed(C, family, p)
<1>1. \A p \in Tools(C) : /\ p \in Prefixed /\ p[1] \in C /\ p[2] \in Offers[p[1]]
                          /\ p = <<p[1], p[2]>> /\ p[1] # NONE
                          /\ <<NONE, p[2]>> \in Names
  BY CatalogAssumption DEF Tools, Prefixed, Names
<1>2. \A p \in Tools(C) : X(p) \in {p, <<NONE, p[2]>>}
  BY DEF Exposed
<1>4. DOMAIN f = {X(p) : p \in Tools(C)}
  BY DEF Routes
<1>5. \A p \in Tools(C) : f[X(p)] = p
  BY RoutesAre
<1>6. NamesOK(f)
  <2>1. \A n \in DOMAIN f : \E p \in Tools(C) : n = X(p) /\ f[n] = p
    BY <1>4, <1>5
  <2>2. ASSUME NEW n \in DOMAIN f PROVE n \in Names \cup Prefixed /\ f[n] \in Prefixed
    <3>1. PICK p \in Tools(C) : n = X(p) /\ f[n] = p
      BY <2>1, <2>2
    <3>2. n = p \/ n = <<NONE, p[2]>>
      BY <1>2, <3>1
    <3>3. QED  BY <1>1, <3>1, <3>2
  <2> HIDE DEF f
  <2>3. QED  BY <2>2 DEF NamesOK
<1>7. \A k \in C : Offers[k] # {} => \E p \in Tools(C) : p[1] = k
  <2>1. SUFFICES ASSUME NEW k \in C, NEW t \in Offers[k] PROVE \E p \in Tools(C) : p[1] = k
    OBVIOUS
  <2>2. <<k, t>> \in Tools(C)
    BY <2>1 DEF Tools, Prefixed
  <2>3. QED  BY <2>2
<1>8. Routed(f) = {p[1] : p \in Tools(C)}
  BY <1>4, <1>5 DEF Routed
<1>9. {p[1] : p \in Tools(C)} = {k \in C : Offers[k] # {}}
  BY <1>1, <1>7
<1> HIDE DEF f
<1>10. QED  BY <1>6, <1>8, <1>9 DEF f

(* The other names lead to tools of the same backends.                     *)
LEMMA AliasesLead ==
    ASSUME NEW C \in SUBSET Keys, NEW family
    PROVE  NamesOK(Aliases(C, family)) /\ Routed(Aliases(C, family)) \subseteq C
<1> DEFINE f == Aliases(C, family)
           bare == {p \in Tools(C) : p[1] \in family /\ ~Clashes(C, p[1], p[2])}
<1>1. \A p \in Tools(C) : /\ p \in Prefixed /\ p[1] \in C
                          /\ <<NONE, p[2]>> \in Names
  BY CatalogAssumption DEF Tools, Prefixed, Names
<1>2. /\ DOMAIN f = Tools(C) \cup ({<<NONE, p[2]>> : p \in bare} \ DOMAIN Routes(C, family))
      /\ \A n \in DOMAIN f : f[n] = IF n \in Tools(C) THEN n ELSE CHOOSE p \in bare : p[2] = n[2]
  BY DEF Aliases
<1>3. \A n \in DOMAIN f : f[n] \in Tools(C)
  <2>1. TAKE n \in DOMAIN f
  <2>2. CASE n \in Tools(C)
    BY <1>2, <2>2
  <2>3. CASE n \notin Tools(C)
    <3>1. \E p \in bare : p[2] = n[2]
      BY <1>2, <2>3
    <3>2. f[n] \in bare
      BY <1>2, <2>3, <3>1
    <3>3. QED  BY <3>2
  <2>4. QED  BY <2>2, <2>3
<1>4. DOMAIN f \subseteq Names \cup Prefixed
  <2>1. \A n \in DOMAIN f : n \in Tools(C) \/ \E p \in bare : n = <<NONE, p[2]>>
    BY <1>2
  <2>2. bare \subseteq Tools(C)
    OBVIOUS
  <2> HIDE DEF f, bare
  <2>3. QED  BY <1>1, <2>1, <2>2
<1> HIDE DEF f
<1>5. QED  BY <1>1, <1>3, <1>4 DEF NamesOK, Routed, f

LEMMA NoNamesLead == NamesOK(NoNames) /\ Routed(NoNames) = {}
  BY DEF NamesOK, Routed, NoNames

(* What a round without an answer leaves of a list.                        *)
LEMMA RoundWithout ==
    ASSUME IInv, NEW k \in Keys, Unlisted(k)
    PROVE  /\ \A j \in Keys \ {k} : last'[j] = last[j] /\ silent'[j] = silent[j]
           /\ last'[k] = NONE => silent'[k] > StaleRounds \/ (last[k] = NONE /\ silent'[k] >= silent[k])
<1>1. /\ last[k] \in 0 .. StaleRounds \cup {NONE} /\ silent[k] \in 0 .. StaleRounds + 1
      /\ last \in [Keys -> 0 .. StaleRounds \cup {NONE}] /\ silent \in [Keys -> 0 .. StaleRounds + 1]
      /\ last[k] # NONE => silent[k] = last[k]
  BY DEF IInv, TypeOK, RoundInv
<1>2. silent' = [silent EXCEPT ![k] = IF @ <= StaleRounds THEN @ + 1 ELSE @]
  BY DEF Unlisted
<1>3. \/ last[k] = NONE /\ last' = last
      \/ last[k] # NONE /\ last[k] >= StaleRounds /\ last' = [last EXCEPT ![k] = NONE]
      \/ last[k] # NONE /\ last' = [last EXCEPT ![k] = last[k] + 1]
  BY DEF Unlisted, KeepLast
<1>4. QED  BY <1>1, <1>2, <1>3, CatalogAssumption

-----------------------------------------------------------------------------
(* One lemma for each action                                               *)

LEMMA RefreshPolicyKeeps == ASSUME IInv, RefreshPolicy PROVE IInv'
<1>1. TypeOK'
  BY CatalogAssumption DEF IInv, TypeOK, Listed, RefreshPolicy, Valid, Serving, tables, names,
     access, outside, world, passVars, rounds
<1>2. ListInv'
  BY CatalogAssumption DEF IInv, TypeOK, ListInv, Listed, RefreshPolicy, Valid, Serving,
     tables, names, access, outside, world, passVars, rounds
<1>3. RoundInv'
  BY CatalogAssumption DEF IInv, TypeOK, RoundInv, Listed, RefreshPolicy, Valid, Serving,
     tables, names, access, outside, world, passVars, rounds
<1>4. MissInv'
  BY CatalogAssumption DEF IInv, TypeOK, MissInv, Listed, RefreshPolicy, Valid, Serving,
     tables, names, access, outside, world, passVars, rounds
<1>5. BootInv'
  BY CatalogAssumption DEF IInv, TypeOK, BootInv, Listed, RefreshPolicy, Valid, Serving,
     tables, names, access, outside, world, passVars, rounds
<1>6. RouteInv'
  BY CatalogAssumption DEF IInv, TypeOK, RouteInv, Listed, RefreshPolicy, Valid, Serving,
     tables, names, access, outside, world, passVars, rounds
<1>7. DeclaredIsGuarded'
  BY CatalogAssumption DEF IInv, TypeOK, DeclaredIsGuarded, Listed, RefreshPolicy, Valid,
     Serving, tables, names, access, outside, world, passVars, rounds
<1>8. QED  BY <1>1, <1>2, <1>3, <1>4, <1>5, <1>6, <1>7 DEF IInv

LEMMA PassBeginsKeeps == ASSUME IInv, PassBegins PROVE IInv'
<1>1. TypeOK'
  <2>1. wanted' = reg /\ todo' \subseteq Declared /\ changed' = FALSE /\ pc' = "conn"
    BY DEF PassBegins
  <2>2. QED
    BY <2>1 DEF IInv, TypeOK, PassBegins, Keys, tables, names, access, outside, world, rounds
<1>2. ListInv'
  BY CatalogAssumption DEF IInv, TypeOK, ListInv, Listed, PassBegins, tables, names, access,
     outside, world, passVars, rounds
<1>3. RoundInv'
  BY CatalogAssumption DEF IInv, TypeOK, RoundInv, Listed, PassBegins, tables, names, access,
     outside, world, passVars, rounds
<1>4. MissInv'
  BY CatalogAssumption DEF IInv, TypeOK, MissInv, Listed, PassBegins, tables, names, access,
     outside, world, passVars, rounds
<1>5. BootInv'
  BY CatalogAssumption DEF IInv, TypeOK, BootInv, Listed, PassBegins, tables, names, access,
     outside, world, passVars, rounds
<1>6. RouteInv'
  BY CatalogAssumption DEF IInv, TypeOK, RouteInv, Listed, PassBegins, tables, names, access,
     outside, world, passVars, rounds
<1>7. DeclaredIsGuarded'
  BY CatalogAssumption DEF IInv, TypeOK, DeclaredIsGuarded, Listed, PassBegins, tables, names,
     access, outside, world, passVars, rounds
<1>8. QED  BY <1>1, <1>2, <1>3, <1>4, <1>5, <1>6, <1>7 DEF IInv

LEMMA LookupFailsKeeps == ASSUME IInv, NEW d \in Declared, LookupFails(d) PROVE IInv'
<1>1. TypeOK'
  BY CatalogAssumption DEF IInv, TypeOK, Listed, LookupFails, Reconciling, tables, names,
     access, outside, world, passVars, rounds
<1>2. ListInv'
  BY CatalogAssumption DEF IInv, TypeOK, ListInv, Listed, LookupFails, Reconciling, tables,
     names, access, outside, world, passVars, rounds
<1>3. RoundInv'
  BY CatalogAssumption DEF IInv, TypeOK, RoundInv, Listed, LookupFails, Reconciling, tables,
     names, access, outside, world, passVars, rounds
<1>4. MissInv'
  BY CatalogAssumption DEF IInv, TypeOK, MissInv, Listed, LookupFails, Reconciling, tables,
     names, access, outside, world, passVars, rounds
<1>5. BootInv'
  BY CatalogAssumption DEF IInv, TypeOK, BootInv, Listed, LookupFails, Reconciling, tables,
     names, access, outside, world, passVars, rounds
<1>6. RouteInv'
  BY CatalogAssumption DEF IInv, TypeOK, RouteInv, Listed, LookupFails, Reconciling, tables,
     names, access, outside, world, passVars, rounds
<1>7. DeclaredIsGuarded'
  BY CatalogAssumption DEF IInv, TypeOK, DeclaredIsGuarded, Listed, LookupFails, Reconciling,
     tables, names, access, outside, world, passVars, rounds
<1>8. QED  BY <1>1, <1>2, <1>3, <1>4, <1>5, <1>6, <1>7 DEF IInv

LEMMA NoListTokenKeeps == ASSUME IInv, NEW d \in Declared, NoListToken(d) PROVE IInv'
<1>1. TypeOK'
  BY CatalogAssumption DEF IInv, TypeOK, Listed, NoListToken, Reconciling, ConnDrop, tables,
     names, access, outside, world, passVars, rounds
<1>2. ListInv'
  BY CatalogAssumption DEF IInv, TypeOK, ListInv, Listed, NoListToken, Reconciling, ConnDrop,
     tables, names, access, outside, world, passVars, rounds
<1>3. RoundInv'
  BY CatalogAssumption DEF IInv, TypeOK, RoundInv, Listed, NoListToken, Reconciling, ConnDrop,
     tables, names, access, outside, world, passVars, rounds
<1>4. MissInv'
  BY CatalogAssumption DEF IInv, TypeOK, MissInv, Listed, NoListToken, Reconciling, ConnDrop,
     tables, names, access, outside, world, passVars, rounds
<1>5. BootInv'
  BY CatalogAssumption DEF IInv, TypeOK, BootInv, Listed, NoListToken, Reconciling, ConnDrop,
     tables, names, access, outside, world, passVars, rounds
<1>6. RouteInv'
  <2> DEFINE D == {d} \cap active \cap backends
  <2>1. UNCHANGED <<route, silent, absent>> /\ backends' = backends \ D /\ D \subseteq Declared
        /\ \A k \in Keys : last'[k] = NONE => last[k] = NONE \/ k \in D
    BY CatalogAssumption DEF NoListToken, Reconciling, ConnDrop, IInv, TypeOK, names
  <2>2. Routed(route) \subseteq Keys
    BY DEF IInv, TypeOK, NamesOK, Routed, Prefixed
  <2>3. /\ pc' = pc /\ pc \in {"conn", "bootConn"} /\ todo' = todo \ {d}
        /\ changed' = (changed \/ D # {})
    BY DEF NoListToken, Reconciling
  <2>4. SUFFICES ASSUME NEW k \in Routed(route)
        PROVE  /\ Offers[k] # {}
               /\ last'[k] = NONE => silent[k] > StaleRounds \/ k \in Declared \ backends'
               /\ k \in Hub \ backends' => absent[k] >= MissDrop
               /\ k \in Declared \ backends' => pc = "conn" /\ changed' /\ k \notin todo'
    BY <2>1, <2>3 DEF RouteInv
  <2>5. pc = "conn"
    BY <2>3, <2>4 DEF IInv, BootInv
  <2>6. k \in Hub => k \notin D
    BY <2>1, CatalogAssumption
  <2>7. k \in D => k = d
    OBVIOUS
  <2> HIDE DEF D
  <2>8. QED  BY <2>1, <2>2, <2>3, <2>4, <2>5, <2>6, <2>7 DEF IInv, RouteInv
<1>7. DeclaredIsGuarded'
  BY CatalogAssumption DEF IInv, TypeOK, DeclaredIsGuarded, Listed, NoListToken, Reconciling,
     ConnDrop, tables, names, access, outside, world, passVars, rounds
<1>8. QED  BY <1>1, <1>2, <1>3, <1>4, <1>5, <1>6, <1>7 DEF IInv

LEMMA KeepConnKeeps == ASSUME IInv, NEW d \in Declared, KeepConn(d) PROVE IInv'
<1>1. TypeOK'
  BY CatalogAssumption DEF IInv, TypeOK, Listed, KeepConn, Reconciling, tables, names, access,
     outside, world, passVars, rounds
<1>2. ListInv'
  BY CatalogAssumption DEF IInv, TypeOK, ListInv, Listed, KeepConn, Reconciling, tables,
     names, access, outside, world, passVars, rounds
<1>3. RoundInv'
  BY CatalogAssumption DEF IInv, TypeOK, RoundInv, Listed, KeepConn, Reconciling, tables,
     names, access, outside, world, passVars, rounds
<1>4. MissInv'
  BY CatalogAssumption DEF IInv, TypeOK, MissInv, Listed, KeepConn, Reconciling, tables,
     names, access, outside, world, passVars, rounds
<1>5. BootInv'
  BY CatalogAssumption DEF IInv, TypeOK, BootInv, Listed, KeepConn, Reconciling, tables,
     names, access, outside, world, passVars, rounds
<1>6. RouteInv'
  <2>1. UNCHANGED <<route, last, silent, backends, absent, pc>> /\ todo' \subseteq todo
    BY DEF KeepConn, Reconciling, tables, names, rounds
  <2>2. changed => changed'
    BY DEF KeepConn, IInv, TypeOK
  <2>3. QED  BY <2>1, <2>2 DEF IInv, RouteInv
<1>7. DeclaredIsGuarded'
  BY CatalogAssumption DEF IInv, TypeOK, DeclaredIsGuarded, Listed, KeepConn, Reconciling,
     tables, names, access, outside, world, passVars, rounds
<1>8. QED  BY <1>1, <1>2, <1>3, <1>4, <1>5, <1>6, <1>7 DEF IInv

LEMMA AttachConnKeeps == ASSUME IInv, NEW d \in Declared, AttachConn(d) PROVE IInv'
<1>1. TypeOK'
  BY CatalogAssumption DEF IInv, TypeOK, Listed, AttachConn, Reconciling, tables, names,
     access, outside, world, passVars, rounds
<1>2. ListInv'
  BY CatalogAssumption DEF IInv, TypeOK, ListInv, Listed, AttachConn, Reconciling, tables,
     names, access, outside, world, passVars, rounds
<1>3. RoundInv'
  BY CatalogAssumption DEF IInv, TypeOK, RoundInv, Listed, AttachConn, Reconciling, tables,
     names, access, outside, world, passVars, rounds
<1>4. MissInv'
  BY CatalogAssumption DEF IInv, TypeOK, MissInv, Listed, AttachConn, Reconciling, tables,
     names, access, outside, world, passVars, rounds
<1>5. BootInv'
  BY CatalogAssumption DEF IInv, TypeOK, BootInv, Listed, AttachConn, Reconciling, tables,
     names, access, outside, world, passVars, rounds
<1>6. RouteInv'
  BY CatalogAssumption DEF IInv, TypeOK, RouteInv, Listed, AttachConn, Reconciling, tables,
     names, access, outside, world, passVars, rounds
<1>7. DeclaredIsGuarded'
  BY CatalogAssumption DEF IInv, TypeOK, DeclaredIsGuarded, Listed, AttachConn, Reconciling,
     tables, names, access, outside, world, passVars, rounds
<1>8. QED  BY <1>1, <1>2, <1>3, <1>4, <1>5, <1>6, <1>7 DEF IInv

LEMMA DropsUndeclaredKeeps == ASSUME IInv, DropsUndeclared PROVE IInv'
<1>1. TypeOK'
  BY CatalogAssumption DEF IInv, TypeOK, Listed, DropsUndeclared, ConnDrop, NoDecl, tables,
     names, access, outside, world, passVars, rounds
<1>2. ListInv'
  BY CatalogAssumption DEF IInv, TypeOK, ListInv, Listed, DropsUndeclared, ConnDrop, NoDecl,
     tables, names, access, outside, world, passVars, rounds
<1>3. RoundInv'
  BY CatalogAssumption DEF IInv, TypeOK, RoundInv, Listed, DropsUndeclared, ConnDrop, NoDecl,
     tables, names, access, outside, world, passVars, rounds
<1>4. MissInv'
  BY CatalogAssumption DEF IInv, TypeOK, MissInv, Listed, DropsUndeclared, ConnDrop, NoDecl,
     tables, names, access, outside, world, passVars, rounds
<1>5. BootInv'
  BY CatalogAssumption DEF IInv, TypeOK, BootInv, Listed, DropsUndeclared, ConnDrop, NoDecl,
     tables, names, access, outside, world, passVars, rounds
<1>6. RouteInv'
  <2> DEFINE D == {d \in active \cap backends : wanted[d] = NONE}
  <2>1. UNCHANGED <<route, silent, absent>> /\ backends' = backends \ D /\ D \subseteq Declared
        /\ \A k \in Keys : last'[k] = NONE => last[k] = NONE \/ k \in D
    BY CatalogAssumption DEF DropsUndeclared, ConnDrop, IInv, TypeOK, names
  <2>2. Routed(route) \subseteq Keys
    BY DEF IInv, TypeOK, NamesOK, Routed, Prefixed
  <2>3. /\ pc = "conn" => pc' = "hub" /\ changed' = (changed \/ D # {})
        /\ pc \in {"conn", "bootConn"}
    BY DEF DropsUndeclared
  <2>4. SUFFICES ASSUME NEW k \in Routed(route)
        PROVE  /\ Offers[k] # {}
               /\ last'[k] = NONE => silent[k] > StaleRounds \/ k \in Declared \ backends'
               /\ k \in Hub \ backends' => absent[k] >= MissDrop
               /\ k \in Declared \ backends' => pc' = "hub" /\ changed'
    BY <2>1 DEF RouteInv
  <2>5. pc = "conn"
    BY <2>3, <2>4 DEF IInv, BootInv
  <2>6. k \in Hub => k \notin D
    BY <2>1, CatalogAssumption
  <2> HIDE DEF D
  <2>7. QED  BY <2>1, <2>2, <2>3, <2>4, <2>5, <2>6 DEF IInv, RouteInv
<1>7. DeclaredIsGuarded'
  BY CatalogAssumption DEF IInv, TypeOK, DeclaredIsGuarded, Listed, DropsUndeclared, ConnDrop,
     NoDecl, tables, names, access, outside, world, passVars, rounds
<1>8. QED  BY <1>1, <1>2, <1>3, <1>4, <1>5, <1>6, <1>7 DEF IInv

LEMMA PollHubKeeps == ASSUME IInv, PollHub PROVE IInv'
<1>1. TypeOK'
  <2>1. /\ backends' \subseteq Keys /\ session' \subseteq backends' /\ policy' \subseteq Hub
        /\ changed' \in BOOLEAN /\ pc' = "probe"
    BY DEF PollHub, IInv, TypeOK, Keys
  <2>2. heaxMiss' \in [Hub -> 0 .. MissDrop - 1]
    BY CatalogAssumption DEF PollHub, Missing, IInv, TypeOK
  <2>3. absent' \in [Hub -> 0 .. MissDrop]
    BY CatalogAssumption DEF PollHub, IInv, TypeOK
  <2>4. QED
    BY <2>1, <2>2, <2>3 DEF PollHub, IInv, TypeOK, names, access, outside, world, rounds
<1>2. ListInv'
  BY CatalogAssumption DEF IInv, TypeOK, ListInv, Listed, PollHub, Missing, tables, names,
     access, outside, world, passVars, rounds
<1>3. RoundInv'
  BY CatalogAssumption DEF IInv, TypeOK, RoundInv, Listed, PollHub, Missing, tables, names,
     access, outside, world, passVars, rounds
<1>4. MissInv'
  BY CatalogAssumption DEF IInv, TypeOK, MissInv, Listed, PollHub, Missing, tables, names,
     access, outside, world, passVars, rounds
<1>5. BootInv'
  BY CatalogAssumption DEF IInv, TypeOK, BootInv, Listed, PollHub, Missing, tables, names,
     access, outside, world, passVars, rounds
<1>6. RouteInv'
  <2>1. UNCHANGED <<route, last, silent, todo>> /\ pc = "hub" /\ pc' = "probe"
    BY DEF PollHub, names, rounds
  <2>2. SUFFICES ASSUME NEW k \in Routed(route)
        PROVE  /\ Offers[k] # {}
               /\ last[k] = NONE => silent[k] > StaleRounds \/ k \in Declared \ backends'
               /\ k \in Hub \ backends' => absent'[k] >= MissDrop
               /\ k \in Declared \ backends' => changed'
    BY <2>1 DEF RouteInv
  <2>3. k \in Declared => (k \in backends' <=> k \in backends)
    BY CatalogAssumption DEF PollHub, IInv, TypeOK
  <2>4. changed => changed'
    BY DEF PollHub, IInv, TypeOK
  <2>5. ASSUME k \in Hub \ backends' PROVE absent'[k] >= MissDrop
    <3>1. heaxMiss[k] \in Nat /\ absent[k] \in 0 .. MissDrop /\ heaxMiss[k] <= absent[k]
      BY <2>5, CatalogAssumption DEF IInv, TypeOK, MissInv
    <3>2. k \notin hub /\ (k \in backends => Missing(k))
      BY <2>5 DEF PollHub
    <3>3. absent'[k] = IF absent[k] < MissDrop THEN absent[k] + 1 ELSE absent[k]
      BY <2>5, <3>2 DEF PollHub
    <3>4. CASE k \in backends
      BY <3>1, <3>2, <3>3, <3>4, CatalogAssumption DEF Missing
    <3>5. CASE k \notin backends
      BY <2>2, <2>5, <3>1, <3>3, <3>5, CatalogAssumption DEF IInv, RouteInv
    <3>6. QED  BY <3>4, <3>5
  <2>6. QED  BY <2>1, <2>2, <2>3, <2>4, <2>5 DEF IInv, RouteInv
<1>7. DeclaredIsGuarded'
  BY CatalogAssumption DEF IInv, TypeOK, DeclaredIsGuarded, Listed, PollHub, Missing, tables,
     names, access, outside, world, passVars, rounds
<1>8. QED  BY <1>1, <1>2, <1>3, <1>4, <1>5, <1>6, <1>7 DEF IInv

LEMMA PollFailsKeeps == ASSUME IInv, PollFails PROVE IInv'
<1>1. TypeOK'
  BY CatalogAssumption DEF IInv, TypeOK, Listed, PollFails, Event, tables, names, access,
     outside, world, passVars, rounds
<1>2. ListInv'
  BY CatalogAssumption DEF IInv, TypeOK, ListInv, Listed, PollFails, Event, tables, names,
     access, outside, world, passVars, rounds
<1>3. RoundInv'
  BY CatalogAssumption DEF IInv, TypeOK, RoundInv, Listed, PollFails, Event, tables, names,
     access, outside, world, passVars, rounds
<1>4. MissInv'
  BY CatalogAssumption DEF IInv, TypeOK, MissInv, Listed, PollFails, Event, tables, names,
     access, outside, world, passVars, rounds
<1>5. BootInv'
  BY CatalogAssumption DEF IInv, TypeOK, BootInv, Listed, PollFails, Event, tables, names,
     access, outside, world, passVars, rounds
<1>6. RouteInv'
  BY CatalogAssumption DEF IInv, TypeOK, RouteInv, Listed, PollFails, Event, tables, names,
     access, outside, world, passVars, rounds
<1>7. DeclaredIsGuarded'
  BY CatalogAssumption DEF IInv, TypeOK, DeclaredIsGuarded, Listed, PollFails, Event, tables,
     names, access, outside, world, passVars, rounds
<1>8. QED  BY <1>1, <1>2, <1>3, <1>4, <1>5, <1>6, <1>7 DEF IInv

LEMMA ProbeKeeps == ASSUME IInv, Probe PROVE IInv'
<1>1. TypeOK'
  BY CatalogAssumption DEF IInv, TypeOK, Listed, Probe, ReadsVocab, FamilyNow, tables, names,
     access, outside, world, passVars, rounds
<1>2. ListInv'
  BY CatalogAssumption DEF IInv, TypeOK, ListInv, Listed, Probe, ReadsVocab, FamilyNow,
     tables, names, access, outside, world, passVars, rounds
<1>3. RoundInv'
  BY CatalogAssumption DEF IInv, TypeOK, RoundInv, Listed, Probe, ReadsVocab, FamilyNow,
     tables, names, access, outside, world, passVars, rounds
<1>4. MissInv'
  BY CatalogAssumption DEF IInv, TypeOK, MissInv, Listed, Probe, ReadsVocab, FamilyNow,
     tables, names, access, outside, world, passVars, rounds
<1>5. BootInv'
  BY CatalogAssumption DEF IInv, TypeOK, BootInv, Listed, Probe, ReadsVocab, FamilyNow,
     tables, names, access, outside, world, passVars, rounds
<1>6. RouteInv'
  BY CatalogAssumption DEF IInv, TypeOK, RouteInv, Listed, Probe, ReadsVocab, FamilyNow,
     tables, names, access, outside, world, passVars, rounds
<1>7. DeclaredIsGuarded'
  BY CatalogAssumption DEF IInv, TypeOK, DeclaredIsGuarded, Listed, Probe, ReadsVocab,
     FamilyNow, tables, names, access, outside, world, passVars, rounds
<1>8. QED  BY <1>1, <1>2, <1>3, <1>4, <1>5, <1>6, <1>7 DEF IInv

LEMMA ListAnswersKeeps == ASSUME IInv, NEW k \in Keys, ListAnswers(k) PROVE IInv'
<1>1. TypeOK'
  BY CatalogAssumption DEF IInv, TypeOK, Listed, ListAnswers, Listing, tables, names, access,
     outside, world, passVars, rounds
<1>2. ListInv'
  BY CatalogAssumption DEF IInv, TypeOK, ListInv, Listed, ListAnswers, Listing, tables, names,
     access, outside, world, passVars, rounds
<1>3. RoundInv'
  BY CatalogAssumption DEF IInv, TypeOK, RoundInv, Listed, ListAnswers, Listing, tables,
     names, access, outside, world, passVars, rounds
<1>4. MissInv'
  BY CatalogAssumption DEF IInv, TypeOK, MissInv, Listed, ListAnswers, Listing, tables, names,
     access, outside, world, passVars, rounds
<1>5. BootInv'
  BY CatalogAssumption DEF IInv, TypeOK, BootInv, Listed, ListAnswers, Listing, tables, names,
     access, outside, world, passVars, rounds
<1>6. RouteInv'
  BY CatalogAssumption DEF IInv, TypeOK, RouteInv, Listed, ListAnswers, Listing, tables,
     names, access, outside, world, passVars, rounds
<1>7. DeclaredIsGuarded'
  BY CatalogAssumption DEF IInv, TypeOK, DeclaredIsGuarded, Listed, ListAnswers, Listing,
     tables, names, access, outside, world, passVars, rounds
<1>8. QED  BY <1>1, <1>2, <1>3, <1>4, <1>5, <1>6, <1>7 DEF IInv

LEMMA ListSkippedKeeps == ASSUME IInv, NEW k \in Keys, ListSkipped(k) PROVE IInv'
<1>1. TypeOK'
  BY CatalogAssumption DEF IInv, TypeOK, Listed, ListSkipped, Listing, Unlisted, KeepLast,
     tables, names, access, outside, world, passVars, rounds
<1>2. ListInv'
  BY CatalogAssumption DEF IInv, TypeOK, ListInv, Listed, ListSkipped, Listing, Unlisted,
     KeepLast, tables, names, access, outside, world, passVars, rounds
<1>3. RoundInv'
  BY CatalogAssumption DEF IInv, TypeOK, RoundInv, Listed, ListSkipped, Listing, Unlisted,
     KeepLast, tables, names, access, outside, world, passVars, rounds
<1>4. MissInv'
  BY CatalogAssumption DEF IInv, TypeOK, MissInv, Listed, ListSkipped, Listing, Unlisted,
     KeepLast, tables, names, access, outside, world, passVars, rounds
<1>5. BootInv'
  BY CatalogAssumption DEF IInv, TypeOK, BootInv, Listed, ListSkipped, Listing, Unlisted,
     KeepLast, tables, names, access, outside, world, passVars, rounds
<1>6. RouteInv'
  <2>1. /\ UNCHANGED <<backends, route, absent, pc, changed>> /\ Listed
        /\ Unlisted(k)
    BY DEF ListSkipped, Listing, Unlisted, names, Listed
  <2>2. Routed(route) \subseteq Keys
    BY DEF IInv, TypeOK, NamesOK, Routed, Prefixed
  <2>3. SUFFICES ASSUME NEW j \in Routed(route)
        PROVE  /\ last'[j] = NONE => silent'[j] > StaleRounds \/ j \in Declared \ backends
               /\ j \in Declared \ backends => pc = "list"
    BY <2>1 DEF IInv, RouteInv, Listed
  <2>4. /\ last[j] = NONE => silent[j] > StaleRounds \/ j \in Declared \ backends
        /\ j \in Keys /\ pc = "list"
    BY <2>1, <2>2, <2>3 DEF IInv, RouteInv, BootInv, Listed
  <2>5. silent[j] \in Nat /\ silent'[j] \in Nat
    BY <2>4, <1>1, CatalogAssumption DEF IInv, TypeOK
  <2>6. QED  BY <2>1, <2>4, <2>5, RoundWithout, CatalogAssumption
<1>7. DeclaredIsGuarded'
  BY CatalogAssumption DEF IInv, TypeOK, DeclaredIsGuarded, Listed, ListSkipped, Listing,
     Unlisted, KeepLast, tables, names, access, outside, world, passVars, rounds
<1>8. QED  BY <1>1, <1>2, <1>3, <1>4, <1>5, <1>6, <1>7 DEF IInv

LEMMA ListRaisesKeeps == ASSUME IInv, NEW k \in Keys, ListRaises(k) PROVE IInv'
<1>1. TypeOK'
  BY CatalogAssumption DEF IInv, TypeOK, Listed, ListRaises, Listing, Unlisted, KeepLast,
     tables, names, access, outside, world, passVars, rounds
<1>2. ListInv'
  BY CatalogAssumption DEF IInv, TypeOK, ListInv, Listed, ListRaises, Listing, Unlisted,
     KeepLast, tables, names, access, outside, world, passVars, rounds
<1>3. RoundInv'
  BY CatalogAssumption DEF IInv, TypeOK, RoundInv, Listed, ListRaises, Listing, Unlisted,
     KeepLast, tables, names, access, outside, world, passVars, rounds
<1>4. MissInv'
  BY CatalogAssumption DEF IInv, TypeOK, MissInv, Listed, ListRaises, Listing, Unlisted,
     KeepLast, tables, names, access, outside, world, passVars, rounds
<1>5. BootInv'
  BY CatalogAssumption DEF IInv, TypeOK, BootInv, Listed, ListRaises, Listing, Unlisted,
     KeepLast, tables, names, access, outside, world, passVars, rounds
<1>6. RouteInv'
  <2>1. /\ UNCHANGED <<backends, route, absent, pc, changed>> /\ Listed
        /\ Unlisted(k)
    BY DEF ListRaises, Listing, Unlisted, names, Listed
  <2>2. Routed(route) \subseteq Keys
    BY DEF IInv, TypeOK, NamesOK, Routed, Prefixed
  <2>3. SUFFICES ASSUME NEW j \in Routed(route)
        PROVE  /\ last'[j] = NONE => silent'[j] > StaleRounds \/ j \in Declared \ backends
               /\ j \in Declared \ backends => pc = "list"
    BY <2>1 DEF IInv, RouteInv, Listed
  <2>4. /\ last[j] = NONE => silent[j] > StaleRounds \/ j \in Declared \ backends
        /\ j \in Keys /\ pc = "list"
    BY <2>1, <2>2, <2>3 DEF IInv, RouteInv, BootInv, Listed
  <2>5. silent[j] \in Nat /\ silent'[j] \in Nat
    BY <2>4, <1>1, CatalogAssumption DEF IInv, TypeOK
  <2>6. QED  BY <2>1, <2>4, <2>5, RoundWithout, CatalogAssumption
<1>7. DeclaredIsGuarded'
  BY CatalogAssumption DEF IInv, TypeOK, DeclaredIsGuarded, Listed, ListRaises, Listing,
     Unlisted, KeepLast, tables, names, access, outside, world, passVars, rounds
<1>8. QED  BY <1>1, <1>2, <1>3, <1>4, <1>5, <1>6, <1>7 DEF IInv

LEMMA ListLateKeeps == ASSUME IInv, NEW k \in Keys, ListLate(k) PROVE IInv'
<1>1. TypeOK'
  BY CatalogAssumption DEF IInv, TypeOK, Listed, ListLate, Listing, Unlisted, KeepLast, Event,
     tables, names, access, outside, world, passVars, rounds
<1>2. ListInv'
  BY CatalogAssumption DEF IInv, TypeOK, ListInv, Listed, ListLate, Listing, Unlisted,
     KeepLast, Event, tables, names, access, outside, world, passVars, rounds
<1>3. RoundInv'
  BY CatalogAssumption DEF IInv, TypeOK, RoundInv, Listed, ListLate, Listing, Unlisted,
     KeepLast, Event, tables, names, access, outside, world, passVars, rounds
<1>4. MissInv'
  BY CatalogAssumption DEF IInv, TypeOK, MissInv, Listed, ListLate, Listing, Unlisted,
     KeepLast, Event, tables, names, access, outside, world, passVars, rounds
<1>5. BootInv'
  BY CatalogAssumption DEF IInv, TypeOK, BootInv, Listed, ListLate, Listing, Unlisted,
     KeepLast, Event, tables, names, access, outside, world, passVars, rounds
<1>6. RouteInv'
  <2>1. /\ UNCHANGED <<backends, route, absent, pc, changed>> /\ Listed
        /\ Unlisted(k)
    BY DEF ListLate, Listing, Unlisted, names, Listed
  <2>2. Routed(route) \subseteq Keys
    BY DEF IInv, TypeOK, NamesOK, Routed, Prefixed
  <2>3. SUFFICES ASSUME NEW j \in Routed(route)
        PROVE  /\ last'[j] = NONE => silent'[j] > StaleRounds \/ j \in Declared \ backends
               /\ j \in Declared \ backends => pc = "list"
    BY <2>1 DEF IInv, RouteInv, Listed
  <2>4. /\ last[j] = NONE => silent[j] > StaleRounds \/ j \in Declared \ backends
        /\ j \in Keys /\ pc = "list"
    BY <2>1, <2>2, <2>3 DEF IInv, RouteInv, BootInv, Listed
  <2>5. silent[j] \in Nat /\ silent'[j] \in Nat
    BY <2>4, <1>1, CatalogAssumption DEF IInv, TypeOK
  <2>6. QED  BY <2>1, <2>4, <2>5, RoundWithout, CatalogAssumption
<1>7. DeclaredIsGuarded'
  BY CatalogAssumption DEF IInv, TypeOK, DeclaredIsGuarded, Listed, ListLate, Listing,
     Unlisted, KeepLast, Event, tables, names, access, outside, world, passVars, rounds
<1>8. QED  BY <1>1, <1>2, <1>3, <1>4, <1>5, <1>6, <1>7 DEF IInv

LEMMA BuildKeeps == ASSUME IInv, Build PROVE IInv'
<1> DEFINE C == collected
<1>0. /\ pc \in {"list", "bootList"} /\ todo = {} /\ C \in SUBSET Keys /\ C \subseteq backends
      /\ NamesOK(route') /\ NamesOK(alias')
      /\ Routed(route') = {k \in C : Offers[k] # {}} /\ Routed(alias') \subseteq C
      /\ pc' = "idle" /\ collected' = {} /\ active' = active \cap backends
  BY RoutesLead, AliasesLead DEF Build, IInv, TypeOK, ListInv, Listed
<1> HIDE DEF C
<1>1. TypeOK'
  <2>1. applied' \in {{}, Family} /\ held' \in BOOLEAN
    BY DEF Build, ReadsVocab, FamilyNow, IInv, TypeOK
  <2>2. QED
    BY <1>0, <2>1 DEF IInv, TypeOK, Build, access, outside, world, rounds
<1>2. ListInv'
  BY CatalogAssumption DEF IInv, TypeOK, ListInv, Listed, Build, ReadsVocab, FamilyNow,
     tables, names, access, outside, world, passVars, rounds
<1>3. RoundInv'
  BY CatalogAssumption DEF IInv, TypeOK, RoundInv, Listed, Build, ReadsVocab, FamilyNow,
     tables, names, access, outside, world, passVars, rounds
<1>4. MissInv'
  BY CatalogAssumption DEF IInv, TypeOK, MissInv, Listed, Build, ReadsVocab, FamilyNow,
     tables, names, access, outside, world, passVars, rounds
<1>5. BootInv'
  BY CatalogAssumption DEF IInv, TypeOK, BootInv, Listed, Build, ReadsVocab, FamilyNow,
     tables, names, access, outside, world, passVars, rounds
<1>6. RouteInv'
  <2>1. \A k \in C : last[k] # NONE
    BY DEF C, IInv, ListInv
  <2>2. \A k \in Hub \cup Declared : k \in C => k \in backends
    BY <1>0
  <2>3. UNCHANGED <<last, silent, backends, absent>>
    BY DEF Build, rounds
  <2>4. QED  BY <1>0, <2>1, <2>2, <2>3 DEF RouteInv
<1>7. DeclaredIsGuarded'
  <2>1. (backends \cap Declared) \subseteq active /\ UNCHANGED backends
    BY DEF IInv, DeclaredIsGuarded, Build
  <2>2. QED  BY <1>0, <2>1 DEF DeclaredIsGuarded
<1>8. QED  BY <1>1, <1>2, <1>3, <1>4, <1>5, <1>6, <1>7 DEF IInv

LEMMA BootKeeps == ASSUME IInv, Boot PROVE IInv'
<1>1. TypeOK'
  <2>1. /\ backends' \subseteq Keys /\ session' \subseteq backends' /\ policy' \subseteq Hub
    BY DEF Boot, IInv, TypeOK, Keys
  <2>2. /\ rows' \subseteq Declared /\ reg' \in Decls /\ wanted' = reg' /\ todo' \subseteq Declared
    BY DEF Boot, Valid, IInv, TypeOK, Decls
  <2>3. QED
    BY <2>1, <2>2 DEF IInv, TypeOK, Decls, Boot, Keys, names, outside, world, rounds
<1>2. ListInv'
  BY CatalogAssumption DEF IInv, TypeOK, ListInv, Listed, Boot, Valid, tables, names, access,
     outside, world, passVars, rounds
<1>3. RoundInv'
  BY CatalogAssumption DEF IInv, TypeOK, RoundInv, Listed, Boot, Valid, tables, names, access,
     outside, world, passVars, rounds
<1>4. MissInv'
  BY CatalogAssumption DEF IInv, TypeOK, MissInv, Listed, Boot, Valid, tables, names, access,
     outside, world, passVars, rounds
<1>5. BootInv'
  BY CatalogAssumption DEF IInv, TypeOK, BootInv, Listed, Boot, Valid, tables, names, access,
     outside, world, passVars, rounds
<1>6. RouteInv'
  BY DEF IInv, BootInv, RouteInv, Boot, names
<1>7. DeclaredIsGuarded'
  BY CatalogAssumption DEF IInv, TypeOK, DeclaredIsGuarded, Listed, Boot, Valid, tables,
     names, access, outside, world, passVars, rounds
<1>8. QED  BY <1>1, <1>2, <1>3, <1>4, <1>5, <1>6, <1>7 DEF IInv

LEMMA RestartKeeps == ASSUME IInv, Restart PROVE IInv'
<1>0. route' = NoNames /\ alias' = NoNames /\ pc' = "boot" /\ backends' = {} /\ active' = {}
  BY DEF Restart
<1>1. TypeOK'
  <2>1. disk' \in [rows : SUBSET Declared, decl : Decls]
    <3>1. disk \in [rows : SUBSET Declared, decl : Decls] /\ portal.rows \in SUBSET Declared
      BY DEF IInv, TypeOK, Decls
    <3>2. disk' = disk \/ disk' = [disk EXCEPT !.rows = portal.rows]
      BY DEF Restart
    <3>3. QED  BY <3>1, <3>2
  <2>2. /\ url' = NoDecl /\ reg' = NoDecl /\ wanted' = NoDecl /\ NoDecl \in Decls
    BY DEF Restart, NoDecl, Decls
  <2>3. /\ last' = [k \in Keys |-> NONE] /\ heaxMiss' = [k \in Hub |-> 0]
        /\ silent' = [k \in Keys |-> 0] /\ absent' = [k \in Hub |-> 0]
    BY DEF Restart
  <2>4. /\ last' \in [Keys -> 0 .. StaleRounds \cup {NONE}] /\ heaxMiss' \in [Hub -> 0 .. MissDrop - 1]
        /\ silent' \in [Keys -> 0 .. StaleRounds + 1] /\ absent' \in [Hub -> 0 .. MissDrop]
    BY <2>3, CatalogAssumption
  <2>5. NamesOK(route') /\ NamesOK(alias') /\ events' \in 0 .. MaxEvents
    BY <1>0, NoNamesLead, CatalogAssumption DEF Restart, Event, IInv, TypeOK
  <2>6. /\ session' = {} /\ policy' = {} /\ rows' = {} /\ reagg' = FALSE /\ held' = FALSE
        /\ applied' = {} /\ todo' = {} /\ collected' = {} /\ changed' = FALSE
        /\ UNCHANGED <<portal, hub, apps, vocab>>
    BY DEF Restart, outside
  <2>7. QED  BY <1>0, <2>1, <2>2, <2>4, <2>5, <2>6 DEF IInv, TypeOK, Decls
<1>2. ListInv'
  BY CatalogAssumption DEF IInv, TypeOK, ListInv, Listed, Restart, Event, Serving, NoDecl,
     NoNames, tables, names, access, outside, world, passVars, rounds
<1>3. RoundInv'
  BY CatalogAssumption DEF IInv, TypeOK, RoundInv, Listed, Restart, Event, Serving, NoDecl,
     NoNames, tables, names, access, outside, world, passVars, rounds
<1>4. MissInv'
  BY CatalogAssumption DEF IInv, TypeOK, MissInv, Listed, Restart, Event, Serving, NoDecl,
     NoNames, tables, names, access, outside, world, passVars, rounds
<1>5. BootInv'
  BY <1>0, NoNamesLead DEF BootInv
<1>6. RouteInv'
  BY <1>0, NoNamesLead DEF RouteInv
<1>7. DeclaredIsGuarded'
  BY <1>0, NoNamesLead DEF DeclaredIsGuarded
<1>8. QED  BY <1>1, <1>2, <1>3, <1>4, <1>5, <1>6, <1>7 DEF IInv

LEMMA WorldChangesKeeps == ASSUME IInv, WorldChanges PROVE IInv'
<1>1. TypeOK'
  <2>1. events' \in 0 .. MaxEvents
    BY CatalogAssumption DEF WorldChanges, PortalChanges, Event, IInv, TypeOK
  <2>2. portal' \in [rows : SUBSET Declared, decl : Decls]
    <3>1. portal \in [rows : SUBSET Declared, decl : Decls]
      BY DEF IInv, TypeOK, Decls
    <3>2. CASE portal' = portal
      BY <3>1, <3>2
    <3>3. ASSUME NEW d \in Declared, NEW u \in Urls \cup {NONE}, portal' = [portal EXCEPT !.decl[d] = u]
          PROVE  portal' \in [rows : SUBSET Declared, decl : Decls]
      BY <3>1, <3>3 DEF Decls
    <3>4. ASSUME NEW d \in Declared, portal' = [portal EXCEPT !.rows = (@ \cup {d}) \ (@ \cap {d})]
          PROVE  portal' \in [rows : SUBSET Declared, decl : Decls]
      BY <3>1, <3>4
    <3>5. QED  BY <3>2, <3>3, <3>4 DEF WorldChanges, PortalChanges
  <2>3. hub' \subseteq Hub /\ apps' \subseteq Keys /\ vocab' \in BOOLEAN
    BY DEF WorldChanges, PortalChanges, IInv, TypeOK
  <2>4. QED
    BY <2>1, <2>2, <2>3 DEF WorldChanges, IInv, TypeOK, Decls, tables, names, access, passVars, rounds
<1>2. ListInv'
  BY CatalogAssumption DEF IInv, TypeOK, ListInv, Listed, WorldChanges, Event, PortalChanges,
     tables, names, access, outside, world, passVars, rounds
<1>3. RoundInv'
  BY CatalogAssumption DEF IInv, TypeOK, RoundInv, Listed, WorldChanges, Event, PortalChanges,
     tables, names, access, outside, world, passVars, rounds
<1>4. MissInv'
  BY CatalogAssumption DEF IInv, TypeOK, MissInv, Listed, WorldChanges, Event, PortalChanges,
     tables, names, access, outside, world, passVars, rounds
<1>5. BootInv'
  BY CatalogAssumption DEF IInv, TypeOK, BootInv, Listed, WorldChanges, Event, PortalChanges,
     tables, names, access, outside, world, passVars, rounds
<1>6. RouteInv'
  BY CatalogAssumption DEF IInv, TypeOK, RouteInv, Listed, WorldChanges, Event, PortalChanges,
     tables, names, access, outside, world, passVars, rounds
<1>7. DeclaredIsGuarded'
  BY CatalogAssumption DEF IInv, TypeOK, DeclaredIsGuarded, Listed, WorldChanges, Event,
     PortalChanges, tables, names, access, outside, world, passVars, rounds
<1>8. QED  BY <1>1, <1>2, <1>3, <1>4, <1>5, <1>6, <1>7 DEF IInv

LEMMA StutterKeeps == ASSUME IInv, UNCHANGED vars PROVE IInv'
  BY DEF IInv, TypeOK, ListInv, RoundInv, MissInv, BootInv, RouteInv, DeclaredIsGuarded, Listed,
     vars, tables, names, access, outside, world, passVars, rounds

LEMMA InitHolds == Init => IInv
<1>0. SUFFICES ASSUME Init PROVE IInv
  OBVIOUS
<1>1. /\ backends = {} /\ url = NoDecl /\ session = {} /\ policy = {} /\ active = {}
      /\ reg = NoDecl /\ rows = {} /\ route = NoNames /\ alias = NoNames
      /\ reagg = FALSE /\ held = FALSE /\ applied = {}
  BY <1>0 DEF Init
<1>2. /\ pc = "boot" /\ wanted = NoDecl /\ todo = {} /\ collected = {} /\ changed = FALSE
      /\ hub = Hub /\ apps = Keys /\ vocab \in BOOLEAN /\ events = 0
  BY <1>0 DEF Init
<1>3. /\ last = [k \in Keys |-> NONE] /\ heaxMiss = [k \in Hub |-> 0]
      /\ silent = [k \in Keys |-> 0] /\ absent = [k \in Hub |-> 0]
  BY <1>0 DEF Init
<1>4. /\ disk = [rows |-> {}, decl |-> NoDecl]
      /\ portal \in [rows : {Declared}, decl : [Declared -> Urls]]
  BY <1>0 DEF Init
<1>5. NoDecl \in Decls /\ NamesOK(NoNames) /\ Routed(NoNames) = {}
  BY NoNamesLead DEF NoDecl, Decls
<1>6. TypeOK
  <2>1. /\ last \in [Keys -> 0 .. StaleRounds \cup {NONE}] /\ heaxMiss \in [Hub -> 0 .. MissDrop - 1]
        /\ silent \in [Keys -> 0 .. StaleRounds + 1] /\ absent \in [Hub -> 0 .. MissDrop]
        /\ events \in 0 .. MaxEvents
    BY <1>2, <1>3, CatalogAssumption
  <2>2. portal \in [rows : SUBSET Declared, decl : Decls] /\ disk \in [rows : SUBSET Declared, decl : Decls]
    BY <1>4, <1>5 DEF Decls
  <2>3. QED  BY <1>1, <1>2, <1>5, <2>1, <2>2 DEF TypeOK, Decls
<1>7. ListInv /\ RoundInv /\ MissInv
  BY <1>2, <1>3 DEF ListInv, RoundInv, MissInv, Listed
<1>8. BootInv /\ RouteInv /\ DeclaredIsGuarded
  BY <1>1, <1>2, <1>5 DEF BootInv, RouteInv, DeclaredIsGuarded
<1>9. QED  BY <1>6, <1>7, <1>8 DEF IInv

LEMMA NextKeeps == IInv /\ [Next]_vars => IInv'
<1>0. SUFFICES ASSUME IInv, [Next]_vars PROVE IInv'
  OBVIOUS
<1>1. ASSUME NEW d \in Declared, LookupFails(d) \/ NoListToken(d) \/ KeepConn(d) \/ AttachConn(d)
      PROVE  IInv'
  BY <1>0, <1>1, LookupFailsKeeps, NoListTokenKeeps, KeepConnKeeps, AttachConnKeeps
<1>2. ASSUME NEW k \in Keys, ListAnswers(k) \/ ListSkipped(k) \/ ListRaises(k) \/ ListLate(k)
      PROVE  IInv'
  BY <1>0, <1>2, ListAnswersKeeps, ListSkippedKeeps, ListRaisesKeeps, ListLateKeeps
<1>3. ASSUME Boot \/ PassBegins \/ DropsUndeclared \/ PollHub \/ PollFails \/ Probe \/ Build
      PROVE  IInv'
  BY <1>0, <1>3, BootKeeps, PassBeginsKeeps, DropsUndeclaredKeeps, PollHubKeeps, PollFailsKeeps,
     ProbeKeeps, BuildKeeps
<1>4. ASSUME RefreshPolicy \/ Restart \/ WorldChanges PROVE IInv'
  BY <1>0, <1>4, RefreshPolicyKeeps, RestartKeeps, WorldChangesKeeps
<1>5. CASE UNCHANGED vars
  BY <1>0, <1>5, StutterKeeps
<1>6. QED  BY <1>0, <1>1, <1>2, <1>3, <1>4, <1>5 DEF Next, PassSteps

LEMMA Invariant == Spec => []IInv
  BY InitHolds, NextKeeps, PTL DEF Spec

-----------------------------------------------------------------------------
(* What is shown                                                           *)

(* The types of the tables, of the counters and of the names (TypeOK) hold *)
(* always.                                                                 *)
THEOREM TypeCorrect == Spec => []TypeOK
<1>1. IInv => TypeOK
  BY DEF IInv
<1>2. QED  BY Invariant, <1>1, PTL

(* No name, listed or callable, leads to a declared backend that is not    *)
(* guarded as one (_conn_drop leaves the guard to _aggregate;              *)
(* DeclaredIsGuarded).                                                     *)
THEOREM Guarded == Spec => []DeclaredIsGuarded
<1>1. IInv => DeclaredIsGuarded
  BY DEF IInv
<1>2. QED  BY Invariant, <1>1, PTL

(* A list that is used is never older than StaleRounds rounds (_keep_last; *)
(* NoOldList).                                                             *)
THEOREM ListsAreRecent == Spec => []NoOldList
<1>1. IInv => NoOldList
  BY CatalogAssumption DEF IInv, ListInv, RoundInv, TypeOK, NoOldList
<1>2. QED  BY Invariant, <1>1, PTL

(* The tools of a backend leave the catalog only for one of the three      *)
(* reasons (_aggregate, _discover_heax, _conn_drop; ToolsStay).            *)
THEOREM ToolsRemain == Spec => ToolsStay
<1>1. ASSUME IInv, [Next]_vars, Serving', NEW k \in Routed(route) \ Routed(route')
      PROVE  \/ silent[k] > StaleRounds
             \/ k \in Hub /\ absent[k] >= MissDrop
             \/ k \in Declared \ backends
  <2>1. CASE route' = route
    BY <1>1, <2>1
  <2>2. CASE Restart
    BY <1>1, <2>2 DEF Restart, Serving
  <2>3. CASE Build
    <3>1. collected \in SUBSET Keys /\ todo = {} /\ Listed
      BY <1>1, <2>3 DEF IInv, TypeOK, Build, Listed
    <3>2. Routed(route') = {j \in collected : Offers[j] # {}}
      BY <2>3, <3>1, RoutesLead DEF Build
    <3>3. k \in Keys /\ Offers[k] # {}
      BY <1>1 DEF IInv, TypeOK, RouteInv, NamesOK, Routed, Prefixed
    <3>4. k \notin collected
      BY <1>1, <3>2, <3>3
    <3>5. CASE k \in backends
      BY <1>1, <3>1, <3>4, <3>5 DEF IInv, ListInv, RouteInv
    <3>6. CASE k \notin backends
      <4>1. pc # "boot" /\ k \notin Static
        BY <1>1, <2>3, <3>6 DEF IInv, BootInv, Build
      <4>2. QED  BY <1>1, <3>3, <3>6, <4>1 DEF IInv, RouteInv, Keys
    <3>7. QED  BY <3>5, <3>6
  <2>4. QED
    BY <1>1, <2>1, <2>2, <2>3 DEF Next, PassSteps, RefreshPolicy, WorldChanges, Boot, PassBegins,
       DropsUndeclared, PollHub, PollFails, Probe, LookupFails, NoListToken, KeepConn, AttachConn,
       ListAnswers, ListSkipped, ListRaises, ListLate, Unlisted, names, vars
<1>2. IInv /\ [Next]_vars =>
        [Serving' => \A k \in Routed(route) \ Routed(route') :
            \/ silent[k] > StaleRounds
            \/ k \in Hub /\ absent[k] >= MissDrop
            \/ k \in Declared \ backends]_vars
  BY <1>1
<1>3. QED  BY Invariant, <1>2, PTL DEF Spec, ToolsStay

(* Of a configured or hub app: it clashes exactly with those of its own    *)
(* kind, so that its name is settled by them.                              *)
LEMMA BaseClashes ==
    ASSUME NEW C \in SUBSET Keys, active \subseteq Declared, C \cap Declared \subseteq active,
           NEW B, B = BaseOf(C), NEW p \in Tools(C), p[1] \in Base
    PROVE  /\ p \in Tools(B)
           /\ Clashes(C, p[1], p[2]) <=> ~Alone(B, p)
<1>1. p \in Prefixed /\ p[1] \in C /\ p[2] \in Offers[p[1]] /\ p[1] \notin active
  BY CatalogAssumption DEF Tools, Base
<1>2. p \in Tools(B)
  BY <1>1 DEF Tools, BaseOf
<1>3. \A j \in C \ active : j \in Base
  BY DEF Base, Keys
<1>4. \A j \in B : j \in C \ active
  BY CatalogAssumption DEF Base, BaseOf
<1>5. (\E j \in (C \ active) \ {p[1]} : p[2] \in Offers[j]) <=> (\E j \in B \ {p[1]} : p[2] \in Offers[j])
  BY <1>3, <1>4 DEF BaseOf
<1>6. QED  BY <1>1, <1>2, <1>5 DEF Clashes, Alone

(* The listed names of the configured and hub apps.                        *)
LEMMA BaseRoutes ==
    ASSUME NEW C \in SUBSET Keys, active \subseteq Declared, C \cap Declared \subseteq active,
           NEW B, B = BaseOf(C), NEW family,
           NEW n, NEW p \in Prefixed, p[1] \in Base
    PROVE  n \in DOMAIN Routes(C, family) /\ Routes(C, family)[n] = p
             <=> p \in Tools(B) /\ n = BaseName(B, family, p)
<1>1. p \in Tools(C) => Exposed(C, family, p) = BaseName(B, family, p) /\ p \in Tools(B)
  BY BaseClashes DEF Exposed, BaseName
<1>2. p \in Tools(B) => p \in Tools(C)
  BY DEF Tools, BaseOf
<1>3. n \in DOMAIN Routes(C, family) /\ Routes(C, family)[n] = p
        <=> p \in Tools(C) /\ n = Exposed(C, family, p)
  BY RoutesAre
<1>4. QED  BY <1>1, <1>2, <1>3

(* A backend of the base clashes with whoever else has the bare name.      *)
LEMMA BareClash ==
    ASSUME NEW C \in SUBSET Keys, active \subseteq Declared,
           NEW p \in Tools(C), p[1] \in Base, NEW q \in Tools(C), p[2] = q[2], p[1] # q[1]
    PROVE  Clashes(C, q[1], q[2])
<1>1. p[1] \in C \ active /\ p[2] \in Offers[p[1]]
  BY CatalogAssumption DEF Tools, Base
<1>2. QED  BY <1>1 DEF Clashes

(* The bare names that lead to them, listed or not.                        *)
LEMMA BaseCalled ==
    ASSUME NEW C \in SUBSET Keys, active \subseteq Declared, C \cap Declared \subseteq active,
           NEW B, B = BaseOf(C),
           NEW family, family \subseteq Base, route' = Routes(C, family), alias' = Aliases(C, family),
           NEW n \in Names, NEW p \in Prefixed \ {NONE}, p[1] \in Base
    PROVE  Called(n)' = p <=> p \in Tools(B) /\ p[2] = n[2] /\ Alone(B, p)
<1> DEFINE R == Routes(C, family)
           A == Aliases(C, family)
           bare == {q \in Tools(C) : q[1] \in family /\ ~Clashes(C, q[1], q[2])}
<1>0. n = <<NONE, n[2]>> /\ p = <<p[1], p[2]>> /\ n[1] = NONE /\ n \notin Tools(C)
  BY CatalogAssumption DEF Names, Prefixed, Tools
<1>1. /\ DOMAIN A = Tools(C) \cup ({<<NONE, q[2]>> : q \in bare} \ DOMAIN R)
      /\ \A m \in DOMAIN A : A[m] = IF m \in Tools(C) THEN m ELSE CHOOSE q \in bare : q[2] = m[2]
  BY DEF Aliases
<1>2. Called(n)' = IF n \in DOMAIN R THEN R[n] ELSE IF n \in DOMAIN A THEN A[n] ELSE NONE
  BY DEF Called
<1>3. n \in DOMAIN R /\ R[n] = p <=> p \in Tools(B) /\ n = BaseName(B, family, p)
  <2>1. n \in DOMAIN Routes(C, family) /\ Routes(C, family)[n] = p
          <=> p \in Tools(B) /\ n = BaseName(B, family, p)
    BY BaseRoutes
  <2>2. QED  BY <2>1
<1>4. \A m \in DOMAIN R : \E q \in Tools(C) : m = Exposed(C, family, q)
  BY RoutesAre
<1>5. p[1] # NONE
  BY CatalogAssumption DEF Base, Keys
<1>6. p \in Tools(B) => p \in Tools(C)
  BY DEF Tools, BaseOf
<1> HIDE DEF R, A
<1>7. ASSUME Called(n)' = p PROVE p \in Tools(B) /\ p[2] = n[2] /\ Alone(B, p)
  <2>1. CASE n \in DOMAIN R /\ R[n] = p
    <3>1. p \in Tools(B) /\ n = BaseName(B, family, p) /\ n # p
      BY <1>0, <1>3, <1>5, <2>1
    <3>2. Alone(B, p) /\ n = <<NONE, p[2]>>
      BY <3>1 DEF BaseName
    <3>3. QED  BY <1>0, <3>1, <3>2
  <2>2. CASE n \notin DOMAIN R /\ n \in DOMAIN A /\ A[n] = p
    <3>1. \E q \in bare : n = <<NONE, q[2]>>
      BY <1>0, <1>1, <2>2
    <3>2. \E q \in bare : q[2] = n[2]
      BY <1>0, <3>1
    <3>3. p = CHOOSE q \in bare : q[2] = n[2]
      BY <1>0, <1>1, <2>2
    <3>4. p \in bare /\ p[2] = n[2]
      BY <3>2, <3>3
    <3>5. QED  BY <3>4, BaseClashes
  <2>3. QED  BY <1>2, <1>7, <2>1, <2>2
<1>8. ASSUME p \in Tools(B), p[2] = n[2], Alone(B, p) PROVE Called(n)' = p
  <2>1. p \in Tools(C) /\ n = <<NONE, p[2]>>
    BY <1>0, <1>6, <1>8
  <2>2. CASE p[1] \notin family
    <3>1. n = BaseName(B, family, p)
      BY <1>8, <2>1, <2>2 DEF BaseName
    <3>2. QED  BY <1>2, <1>3, <1>8, <3>1
  <2>3. CASE p[1] \in family
    <3>1. ~Clashes(C, p[1], p[2])
      BY <1>8, <2>1, BaseClashes
    <3>2. p \in bare
      BY <2>1, <2>3, <3>1
    <3>3. ASSUME n \in DOMAIN R PROVE FALSE
      <4>1. PICK q \in Tools(C) : n = Exposed(C, family, q)
        BY <1>4, <3>3
      <4>2. q[1] # NONE /\ q = <<q[1], q[2]>>
        BY CatalogAssumption DEF Tools, Prefixed
      <4>3. n # q
        BY <1>0, <4>2
      <4>4. n = <<NONE, q[2]>> /\ ~Clashes(C, q[1], q[2]) /\ q[1] \notin family
        BY <4>1, <4>3 DEF Exposed
      <4>5. p[2] = q[2] /\ p[1] # q[1]
        BY <2>1, <2>3, <4>4
      <4>6. QED  BY <2>1, <4>4, <4>5, BareClash
    <3>4. n \in DOMAIN A
      <4>1. n \in {<<NONE, q[2]>> : q \in bare}
        BY <2>1, <3>2
      <4>2. QED  BY <1>1, <3>3, <4>1
    <3>5. \A q \in bare : q[2] = n[2] => q = p
      <4>1. SUFFICES ASSUME NEW q \in bare, q[2] = n[2] PROVE q = p
        OBVIOUS
      <4>2. q \in Tools(C) /\ ~Clashes(C, q[1], q[2]) /\ q[2] = p[2] /\ q = <<q[1], q[2]>>
        BY <1>8, <4>1 DEF Tools, Prefixed
      <4>3. p[1] = q[1]
        BY <2>1, <4>2, BareClash
      <4>4. QED  BY <1>0, <4>2, <4>3
    <3>6. A[n] = CHOOSE q \in bare : q[2] = n[2]
      BY <1>0, <1>1, <3>4
    <3>7. A[n] = p
      BY <1>8, <3>2, <3>5, <3>6
    <3>8. QED  BY <1>2, <3>3, <3>4, <3>7
  <2>4. QED  BY <2>2, <2>3
<1>9. QED  BY <1>7, <1>8

(* The names are built anew as NameInv has it.                             *)
LEMMA BuildNames == ASSUME IInv, Build PROVE NameInv'
<1>1. /\ collected \in SUBSET Keys /\ active \subseteq Declared /\ collected \cap Declared \subseteq active
      /\ route' = Routes(collected, FamilyNow) /\ alias' = Aliases(collected, FamilyNow)
      /\ applied' = FamilyNow /\ held' = (held \/ vocab)
  BY DEF IInv, TypeOK, ListInv, Listed, DeclaredIsGuarded, Build, ReadsVocab
<1>2. PICK B : B = BaseOf(collected)
  OBVIOUS
<1>3. InBase' = B
  BY <1>1, <1>2, RoutesLead DEF InBase, BaseOf
<1>4. FamilyNow \subseteq Base
  BY CatalogAssumption DEF FamilyNow, Base
<1>5. applied' # {} => held'
  BY <1>1 DEF FamilyNow
<1>6. ASSUME NEW n \in Names \cup Prefixed, NEW p \in Prefixed, p[1] \in Base
      PROVE  n \in DOMAIN route' /\ route'[n] = p <=> p \in Tools(B) /\ n = BaseName(B, FamilyNow, p)
  <2>1. n \in DOMAIN Routes(collected, FamilyNow) /\ Routes(collected, FamilyNow)[n] = p
          <=> p \in Tools(B) /\ n = BaseName(B, FamilyNow, p)
    BY <1>1, <1>2, <1>6, BaseRoutes
  <2>2. QED  BY <1>1, <2>1
<1>7. ASSUME NEW n \in Names, NEW p \in Prefixed \ {NONE}, p[1] \in Base
      PROVE  Called(n)' = p <=> p \in Tools(B) /\ p[2] = n[2] /\ Alone(B, p)
  BY <1>1, <1>2, <1>4, <1>7, BaseCalled
<1>8. QED  BY <1>1, <1>3, <1>5, <1>6, <1>7 DEF NameInv, Tools, BaseName, Alone, Prefixed, Names, Base

(* Where there is no name there is nothing to say.                         *)
LEMMA NoNamesNames ==
    /\ (route = NoNames /\ alias = NoNames /\ applied = {}) => NameInv
    /\ (route = NoNames /\ alias = NoNames /\ applied = {})' => NameInv'
<1>1. /\ Tools({}) = {}
      /\ DOMAIN NoNames = {}
  BY DEF Tools, NoNames
<1>2. ASSUME route = NoNames, alias = NoNames, applied = {} PROVE NameInv
  <2>1. InBase = {} /\ \A n : Called(n) = NONE
    BY <1>1, <1>2, NoNamesLead DEF InBase, Called
  <2>2. QED  BY <1>1, <1>2, <2>1 DEF NameInv
<1>3. ASSUME (route = NoNames /\ alias = NoNames /\ applied = {})' PROVE NameInv'
  <2>1. InBase' = {} /\ \A n : Called(n)' = NONE
    BY <1>1, <1>3, NoNamesLead DEF InBase, Called
  <2>2. QED  BY <1>1, <1>3, <2>1 DEF NameInv, Tools
<1>4. QED  BY <1>2, <1>3

(* The other steps leave the names alone.                                  *)
LEMMA SameNames ==
    ASSUME [Next]_vars
    PROVE  Build \/ Restart \/ (route' = route /\ alias' = alias /\ applied' = applied
                                /\ (held' = held \/ held' = (held \/ vocab)))
  BY DEF Next, PassSteps, RefreshPolicy, WorldChanges, Boot, PassBegins, DropsUndeclared, PollHub,
     PollFails, Probe, ReadsVocab, LookupFails, NoListToken, KeepConn, AttachConn, ListAnswers,
     ListSkipped, ListRaises, ListLate, Unlisted, names, vars

LEMMA NamesPreserved == ASSUME IInv, NameInv, [Next]_vars PROVE NameInv'
<1>1. CASE Build
  BY <1>1, BuildNames
<1>2. CASE Restart
  BY <1>2, NoNamesNames DEF Restart
<1>3. CASE route' = route /\ alias' = alias /\ applied' = applied /\ (held' = held \/ held' = (held \/ vocab))
  <2>1. InBase' = InBase /\ \A n : Called(n)' = Called(n)
    BY <1>3 DEF InBase, Routed, Called
  <2>2. applied' # {} => held'
    BY <1>3 DEF NameInv
  <2>3. QED  BY <1>3, <2>1, <2>2 DEF NameInv, Tools, BaseName, Alone, Prefixed, Names, Base
<1>4. QED  BY <1>1, <1>2, <1>3, SameNames

(* No bare name that leads to a configured or hub app leads elsewhere      *)
(* while those in the catalog are the same, and their listed names change  *)
(* only with the family (_aggregate, _core_vocab; NamesStay).              *)
THEOREM NamesRemain == Spec => NamesStay
<1>1. ASSUME IInv, IInv', NameInv, NameInv', [Next]_vars, Serving',
             Routed(route) \cap Base = Routed(route') \cap Base
      PROVE  /\ \A n \in Names : (Called(n) # NONE /\ Called(n)[1] \in Base) => Called(n)' = Called(n)
             /\ applied # {} => {n \in DOMAIN route : route[n][1] \in Base} =
                                {n \in DOMAIN route' : route'[n][1] \in Base}
  <2>0. InBase' = InBase
    BY <1>1 DEF InBase
  <2>1. NamesOK(route) /\ NamesOK(alias) /\ NamesOK(route')
    BY <1>1 DEF IInv, TypeOK
  <2>2. ASSUME NEW n \in Names, Called(n) # NONE, Called(n)[1] \in Base PROVE Called(n)' = Called(n)
    <3>1. Called(n) \in Prefixed \ {NONE}
      BY <2>1, <2>2 DEF Called, NamesOK
    <3>2. PICK p \in Prefixed \ {NONE} : p = Called(n)
      BY <3>1
    <3>3. p \in Tools(InBase) /\ p[2] = n[2] /\ Alone(InBase, p)
      BY <1>1, <2>2, <3>2 DEF NameInv
    <3>4. Called(n)' = p
      BY <1>1, <2>0, <2>2, <3>2, <3>3 DEF NameInv, Tools, Alone, Prefixed, Names, Base
    <3>5. QED  BY <3>2, <3>4
  <2>3. ASSUME applied # {}
        PROVE  {n \in DOMAIN route : route[n][1] \in Base} = {n \in DOMAIN route' : route'[n][1] \in Base}
    <3>1. applied' = applied
      <4>1. CASE Build
        BY <1>1, <2>3, <4>1 DEF Build, FamilyNow, NameInv, IInv, TypeOK
      <4>2. QED  BY <1>1, <4>1, SameNames DEF Restart, Serving
    <3>2. \A n \in Names \cup Prefixed, p \in Prefixed : p[1] \in Base =>
            (n \in DOMAIN route /\ route[n] = p <=> n \in DOMAIN route' /\ route'[n] = p)
      BY <1>1, <2>0, <3>1 DEF NameInv, Tools, BaseName, Alone, Prefixed, Names, Base
    <3>3. QED  BY <2>1, <3>2 DEF NamesOK
  <2>4. QED  BY <2>2, <2>3
<1>2. Init => NameInv
  BY NoNamesNames DEF Init
<1>3. IInv /\ NameInv /\ [Next]_vars => NameInv'
  BY NamesPreserved
<1>4. IInv /\ IInv' /\ NameInv /\ NameInv' /\ [Next]_vars =>
        [(Serving' /\ Routed(route) \cap Base = Routed(route') \cap Base) =>
          /\ \A n \in Names : (Called(n) # NONE /\ Called(n)[1] \in Base) => Called(n)' = Called(n)
          /\ applied # {} => {n \in DOMAIN route : route[n][1] \in Base} =
                             {n \in DOMAIN route' : route'[n][1] \in Base}]_vars
  BY <1>1
<1>5. QED  BY Invariant, <1>2, <1>3, <1>4, PTL DEF Spec, NamesStay
=============================================================================
