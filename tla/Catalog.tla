------------------------------- MODULE Catalog -------------------------------
(***************************************************************************)
(* The tool catalog: which backends the gateway has, under which names     *)
(* their tools are offered, and who is let through to them.                *)
(*                                                                         *)
(* Backends come from three sides: the configuration (Static), the         *)
(* registry of the hub (Hub, keys heax-...) and the declarations the       *)
(* portal sends with its access policy (Declared).  One pass at a time     *)
(* (_REVIVE_LOCK) reconciles the declared ones, polls the registry, probes *)
(* the sessions and, when something has changed, lists everybody's tools   *)
(* again; the policy is fetched meanwhile by a loop of its own, and calls  *)
(* look at all the tables at any moment.  A step is the code between two   *)
(* awaits, or several when nobody else reads what lies between.            *)
(*                                                                         *)
(* MaxEvents bounds what happens outside: the portal changes declarations  *)
(* or rows, the registry its list, an app dies, comes back or is busy, the *)
(* vocabulary file breaks, the process restarts.                           *)
(***************************************************************************)
EXTENDS Naturals, FiniteSets

CONSTANTS
    Static,     \* keys of the configuration (BACKENDS)
    Hub,        \* keys the registry of the hub may list
    Declared,   \* keys the portal may declare
    Urls,       \* addresses a declaration may give
    ByAccount,  \* declared keys listed with the token of an account (list_auth registered:...)
    Closed,     \* hub apps listed with allowed_groups the callers considered are not in
    Offers,     \* the names of the tools of each backend
    Taken,      \* names the gateway's own tools have taken (_FIG_NAMES, kit_get)
    Family,     \* the hub family of the vocabulary file: always prefixed
    StaleRounds, MissDrop, \* AGG_STALE_ROUNDS, HEAX_MISS_BEFORE_DROP
    MaxEvents,  \* bound
    NONE

Keys == Static \cup Hub \cup Declared

ASSUME CatalogAssumption ==
    /\ Static \cap Hub = {} /\ Static \cap Declared = {} /\ Hub \cap Declared = {}
    /\ ByAccount \subseteq Declared /\ Closed \subseteq Hub /\ Family \subseteq Static \cup Hub
    /\ NONE \notin Urls /\ NONE \notin Keys /\ NONE \notin Nat
    /\ StaleRounds \in Nat /\ MissDrop \in Nat \ {0} /\ MaxEvents \in Nat

VARIABLES
    backends,   \* keys in the table of backends
    url,        \* the address each declared backend was built with
    session,    \* backends with a session thought to be alive
    policy,     \* POLICY: hub apps whose allowed_groups are known
    active,     \* _CONN_ACTIVE: keys guarded as declared
    reg,        \* _CONN_REG: the declarations that passed the check
    rows,       \* _ACCESS_POLICY: declared keys with a row
    last,       \* _LAST_TOOLS: failures in a row of a key whose list is kept, or NONE
    heaxMiss,   \* _HEAX_MISS: passes in a row in which the registry did not list it
    route,      \* exposed name -> the backend and the tool
    alias,      \* alias_route: names that can only be called
    reagg,      \* _REAGG: a re-aggregation is asked for
    held,       \* _CORE_VOCAB["family_ok"]: the family has been read in full
    applied,    \* _CORE_VOCAB["agg_applied"]: the family the names were built with
    pc,         \* where the pass stands
    wanted,     \* the declarations it works from
    todo,       \* keys it still has to look at
    collected,  \* keys whose tools it has
    changed,    \* revived
    disk,       \* the two cache files: rows and declarations
    portal,     \* what the portal would answer: declarations and rows
    hub,        \* what the registry would answer
    apps,       \* apps that answer
    vocab,      \* the vocabulary file and its overlay can be read
    silent,     \* history: rounds in a row without the list of a backend
    absent,     \* history: answers of the registry in a row without the app
    events      \* events so far

tables == <<backends, url, session, policy, active>>
names  == <<route, alias>>
access == <<reg, rows, disk>>
outside == <<portal, hub, apps, vocab>>
world  == <<outside, events>>
passVars == <<pc, wanted, todo, collected, changed>>
rounds == <<last, silent>>
vars == <<tables, names, access, world, passVars, rounds, heaxMiss, absent, reagg, held, applied>>

Event == events < MaxEvents /\ events' = events + 1

NoDecl == [d \in Declared |-> NONE]
Base == Static \cup Hub
Names == {<<NONE, t>> : t \in UNION {Offers[k] : k \in Keys}}
Prefixed == {<<k, t>> : k \in Keys, t \in UNION {Offers[j] : j \in Keys}}

-----------------------------------------------------------------------------
(* Names (_aggregate)                                                      *)

Tools(C) == {p \in Prefixed : p[1] \in C /\ p[2] \in Offers[p[1]]}

(* Mutant: the rule of before, a declared backend makes others clash.      *)
Mut_Clashes(C, k, t) == t \in Taken \/ \E j \in C \ {k} : t \in Offers[j]

(* A tool of a declared backend clashes with anybody's, one of the others  *)
(* with those of the others only.                                          *)
Clashes(C, k, t) ==
    \/ t \in Taken
    \/ \E j \in (IF k \in active THEN C ELSE C \ active) \ {k} : t \in Offers[j]

Exposed(C, family, p) ==
    IF Clashes(C, p[1], p[2]) \/ p[1] \in family THEN p ELSE <<NONE, p[2]>>

Routes(C, family) ==
    [n \in {Exposed(C, family, p) : p \in Tools(C)} |->
        CHOOSE p \in Tools(C) : Exposed(C, family, p) = n]

(* Everybody can be called by prefix; what has its prefix only for being   *)
(* of the family also by its bare name, if that is free.                   *)
Aliases(C, family) ==
    LET bare == {p \in Tools(C) : p[1] \in family /\ ~Clashes(C, p[1], p[2])}
    IN  [n \in Tools(C) \cup ({<<NONE, p[2]>> : p \in bare} \ DOMAIN Routes(C, family)) |->
            IF n \in Tools(C) THEN n ELSE CHOOSE p \in bare : p[2] = n[2]]

(* The family the names are built with: the last one read in full.         *)
FamilyNow == IF held \/ vocab THEN Family ELSE {}

Called(n) == IF n \in DOMAIN route THEN route[n] ELSE IF n \in DOMAIN alias THEN alias[n] ELSE NONE

(* _deny_reason, for callers outside the groups of Closed and with every   *)
(* right of the portal.                                                    *)
Denied(k) ==
    \/ k \in policy
    \/ k \in active /\ (reg[k] = NONE \/ k \notin rows)

-----------------------------------------------------------------------------
(* The policy and the declarations that come with it                       *)

(* _conn_registry_set: the declarations with a row among those.            *)
Valid(decl, rs) == [d \in Declared |-> IF d \in rs THEN decl[d] ELSE NONE]

Serving == pc \notin {"boot", "bootConn", "bootList"}

(* _refresh_access_policy, from the answer on.                             *)
RefreshPolicy ==
    /\ Serving
    /\ rows' = portal.rows
    /\ reg' = Valid(portal.decl, portal.rows)
    /\ disk' = [rows |-> portal.rows, decl |-> IF reg' = reg THEN disk.decl ELSE reg']
    /\ UNCHANGED <<tables, names, world, passVars, rounds, heaxMiss, absent, reagg, held, applied>>

-----------------------------------------------------------------------------
(* One pass: the declared backends (_conn_reconcile)                       *)

PassBegins ==
    /\ pc = "idle"
    /\ pc' = "conn" /\ wanted' = reg /\ todo' = {d \in Declared : reg[d] # NONE}
    /\ changed' = FALSE
    /\ UNCHANGED <<tables, names, access, world, collected, rounds, heaxMiss, absent, reagg, held, applied>>

(* Mutant: the guard goes with the backend.                                *)
Mut_ConnDrop(D) ==
    /\ backends' = backends \ D /\ session' = session \ D /\ active' = active \ D
    /\ url' = [d \in Declared |-> IF d \in D THEN NONE ELSE url[d]]
    /\ last' = [k \in Keys |-> IF k \in D THEN NONE ELSE last[k]]
    /\ UNCHANGED policy

(* _conn_drop; the guard stays.                                            *)
ConnDrop(D) ==
    /\ backends' = backends \ D /\ session' = session \ D
    /\ url' = [d \in Declared |-> IF d \in D THEN NONE ELSE url[d]]
    /\ last' = [k \in Keys |-> IF k \in D THEN NONE ELSE last[k]]
    /\ UNCHANGED <<policy, active>>

Reconciling(d) == pc \in {"conn", "bootConn"} /\ d \in todo /\ todo' = todo \ {d}

(* The portal could not be asked for the token of the account, or it is    *)
(* too early to ask again: nothing is touched.                             *)
LookupFails(d) ==
    /\ Reconciling(d) /\ d \in ByAccount
    /\ UNCHANGED <<tables, names, access, world, pc, wanted, collected, changed, rounds, heaxMiss,
                   absent, reagg, held, applied>>

(* The account has no token: no backend is made, the one there is goes.    *)
NoListToken(d) ==
    /\ Reconciling(d) /\ d \in ByAccount
    /\ ConnDrop({d} \cap active \cap backends)
    /\ changed' = (changed \/ d \in active \cap backends)
    /\ UNCHANGED <<names, access, world, pc, wanted, collected, silent, heaxMiss, absent, reagg, held, applied>>

(* The same address and token.  What else the declaration says may have    *)
(* changed, which asks for new lists only.                                 *)
KeepConn(d) ==
    /\ Reconciling(d)
    /\ d \in backends /\ url[d] = wanted[d]
    /\ changed' \in {changed, TRUE}
    /\ UNCHANGED <<tables, names, access, world, pc, wanted, collected, rounds, heaxMiss, absent,
                   reagg, held, applied>>

(* A new backend, or one in the place of that with the old address or      *)
(* token.  The guard comes before the first connection, which may fail.    *)
AttachConn(d) ==
    /\ Reconciling(d)
    /\ d \notin backends \/ url[d] # wanted[d] \/ d \in ByAccount
    /\ backends' = backends \cup {d} /\ active' = active \cup {d}
    /\ url' = [url EXCEPT ![d] = wanted[d]]
    /\ session' = IF d \in apps THEN session \cup {d} ELSE session \ {d}
    /\ changed' = TRUE
    /\ UNCHANGED <<policy, names, access, world, pc, wanted, collected, rounds, heaxMiss, absent,
                   reagg, held, applied>>

(* What is declared no longer, by the declarations the pass began with.    *)
DropsUndeclared ==
    /\ pc \in {"conn", "bootConn"} /\ todo = {}
    /\ LET gone == {d \in active \cap backends : wanted[d] = NONE}
       IN  ConnDrop(gone) /\ changed' = (pc = "conn" /\ (changed \/ gone # {}))
    /\ pc' = IF pc = "conn" THEN "hub" ELSE "bootList"
    /\ todo' = IF pc = "conn" THEN {} ELSE backends'
    /\ wanted' = NoDecl
    /\ UNCHANGED <<names, access, world, collected, silent, heaxMiss, absent, reagg, held, applied>>

-----------------------------------------------------------------------------
(* The registry of the hub                                                 *)

(* Mutants: an app goes as soon as it is missing; once more than it should. *)
Mut_Missing(k) == TRUE
(* It has been missing often enough.                                       *)
Missing(k) == heaxMiss[k] + 1 >= MissDrop

(* The registry answers: new apps join, those missing MissDrop times in a  *)
(* row go, with what is known of their groups.                             *)
PollHub ==
    /\ pc = "hub"
    /\ LET gone == {k \in (backends \cap Hub) \ hub : Missing(k)}
       IN  /\ backends' = (backends \cup hub) \ gone
           /\ session' = (session \cup ((hub \ backends) \cap apps)) \ gone
           /\ policy' = (policy \cup (Closed \cap (hub \ backends))) \ gone
           /\ heaxMiss' = [k \in Hub |-> IF k \in hub \cup gone \/ k \notin backends THEN 0
                                         ELSE heaxMiss[k] + 1]
           /\ changed' = (changed \/ gone # {} \/ (hub \ backends) \cap apps # {})
    /\ absent' = [k \in Hub |-> IF k \in hub THEN 0
                                ELSE IF absent[k] < MissDrop THEN absent[k] + 1 ELSE absent[k]]
    /\ pc' = "probe"
    /\ UNCHANGED <<url, active, names, access, world, wanted, todo, collected, rounds, reagg, held, applied>>

(* It does not answer: nothing is taken away, nothing counted.             *)
PollFails ==
    /\ pc = "hub" /\ Event
    /\ pc' = "probe"
    /\ UNCHANGED <<tables, names, access, outside, wanted, todo, collected, changed, rounds, heaxMiss,
                   absent, reagg, held, applied>>

-----------------------------------------------------------------------------
(* Probes, reconnections, and the lists again                              *)

ReadsVocab == held' = (held \/ vocab)

(* Probes: a session whose app has gone is dropped, or not yet; apps that  *)
(* are there get a session again; tools may have changed (fresh).  Lists   *)
(* are asked for when something has changed or somebody asked for it.      *)
Probe ==
    /\ pc = "probe"
    /\ \E slow \in SUBSET (session \ apps), fresh \in BOOLEAN :
          LET back == (backends \cap apps) \ session
          IN  /\ session' = (session \cap apps) \cup back \cup slow
              /\ IF changed \/ fresh \/ back # {} \/ reagg \/ FamilyNow # applied
                 THEN pc' = "list" /\ todo' = backends
                 ELSE pc' = "idle" /\ todo' = {}
    /\ ReadsVocab
    /\ reagg' = FALSE /\ changed' = FALSE
    /\ UNCHANGED <<backends, url, policy, active, names, access, world, wanted, collected, rounds,
                   heaxMiss, absent, applied>>

Listing(k) == pc \in {"list", "bootList"} /\ k \in todo /\ todo' = todo \ {k}

ListAnswers(k) ==
    /\ Listing(k) /\ k \in session \cap apps
    /\ last' = [last EXCEPT ![k] = 0]
    /\ silent' = [silent EXCEPT ![k] = 0]
    /\ collected' = collected \cup {k}
    /\ UNCHANGED <<tables, names, access, world, pc, wanted, changed, heaxMiss, absent, reagg, held, applied>>

(* Mutant: the failures of a backend are not counted on.                   *)
Mut_KeepLast(k) ==
    /\ UNCHANGED last
    /\ collected' = IF last[k] = NONE THEN collected ELSE collected \cup {k}

(* _keep_last: the list of before, unless it has been used too often.      *)
KeepLast(k) ==
    IF last[k] = NONE THEN UNCHANGED <<last, collected>>
    ELSE IF last[k] >= StaleRounds THEN last' = [last EXCEPT ![k] = NONE] /\ UNCHANGED collected
    ELSE last' = [last EXCEPT ![k] = last[k] + 1] /\ collected' = collected \cup {k}

Unlisted(k) ==
    /\ KeepLast(k)
    /\ silent' = [silent EXCEPT ![k] = IF @ <= StaleRounds THEN @ + 1 ELSE @]
    /\ UNCHANGED <<backends, url, policy, active, names, access, outside, pc, wanted, changed,
                   heaxMiss, absent, held, applied>>

(* No session: nothing to ask.                                             *)
ListSkipped(k) ==
    /\ Listing(k) /\ k \notin session
    /\ Unlisted(k) /\ UNCHANGED <<session, reagg, events>>

(* It fails: the session is taken for dead.                                *)
ListRaises(k) ==
    /\ Listing(k) /\ k \in session \ apps
    /\ session' = session \ {k}
    /\ Unlisted(k) /\ UNCHANGED <<reagg, events>>

(* Mutant: a late list does not ask for another round.                     *)
Mut_ListLate(k) ==
    /\ Listing(k) /\ k \in session
    /\ \/ k \notin apps /\ UNCHANGED events
       \/ k \in apps /\ Event
    /\ Unlisted(k) /\ UNCHANGED <<session, reagg>>

(* It is late - because the app has gone, or is busy: another round.       *)
ListLate(k) ==
    /\ Listing(k) /\ k \in session
    /\ \/ k \notin apps /\ UNCHANGED events
       \/ k \in apps /\ Event
    /\ reagg' = TRUE
    /\ Unlisted(k) /\ UNCHANGED session

(* The rest of _aggregate, without an await: the names are built anew, and *)
(* only then the guard of declared backends that have gone is lifted.      *)
Build ==
    /\ pc \in {"list", "bootList"} /\ todo = {}
    /\ route' = Routes(collected, FamilyNow) /\ alias' = Aliases(collected, FamilyNow)
    /\ ReadsVocab /\ applied' = FamilyNow
    /\ active' = active \cap backends
    /\ pc' = "idle" /\ collected' = {}
    /\ UNCHANGED <<backends, url, session, policy, access, world, wanted, todo, changed, rounds,
                   heaxMiss, absent, reagg>>

-----------------------------------------------------------------------------
(* The start of the process, and what happens outside                      *)

NoNames == [n \in {} |-> NONE]

Init ==
    /\ backends = {} /\ url = NoDecl /\ session = {} /\ policy = {} /\ active = {}
    /\ reg = NoDecl /\ rows = {} /\ last = [k \in Keys |-> NONE] /\ heaxMiss = [k \in Hub |-> 0]
    /\ route = NoNames /\ alias = NoNames /\ reagg = FALSE /\ held = FALSE /\ applied = {}
    /\ pc = "boot" /\ wanted = NoDecl /\ todo = {} /\ collected = {} /\ changed = FALSE
    /\ silent = [k \in Keys |-> 0] /\ absent = [k \in Hub |-> 0]
    /\ disk = [rows |-> {}, decl |-> NoDecl]
    /\ portal \in [rows : {Declared}, decl : [Declared -> Urls]]
    /\ hub = Hub /\ apps = Keys /\ vocab \in BOOLEAN /\ events = 0

(* _backends_lifespan, up to the lock: the configured backends, what the   *)
(* registry lists if it answers, and the policy and declarations on disk.  *)
Boot ==
    /\ pc = "boot"
    /\ \E found \in {hub, {}} :
          /\ backends' = Static \cup found
          /\ session' = (Static \cup found) \cap apps
          /\ policy' = Closed \cap found
    /\ rows' = disk.rows /\ reg' = Valid(disk.decl, disk.rows)
    /\ pc' = "bootConn" /\ wanted' = reg' /\ todo' = {d \in Declared : reg'[d] # NONE}
    /\ UNCHANGED <<url, active, names, disk, world, collected, changed, rounds, heaxMiss, absent,
                   reagg, held, applied>>

(* The process ends, perhaps between the two files of a refresh.           *)
Restart ==
    /\ Event
    /\ disk' \in {disk} \cup (IF Serving THEN {[disk EXCEPT !.rows = portal.rows]} ELSE {})
    /\ backends' = {} /\ url' = NoDecl /\ session' = {} /\ policy' = {} /\ active' = {}
    /\ reg' = NoDecl /\ rows' = {} /\ last' = [k \in Keys |-> NONE] /\ heaxMiss' = [k \in Hub |-> 0]
    /\ route' = NoNames /\ alias' = NoNames /\ reagg' = FALSE /\ held' = FALSE /\ applied' = {}
    /\ pc' = "boot" /\ wanted' = NoDecl /\ todo' = {} /\ collected' = {} /\ changed' = FALSE
    /\ silent' = [k \in Keys |-> 0] /\ absent' = [k \in Hub |-> 0]
    /\ UNCHANGED outside

PortalChanges ==
    /\ Event
    /\ \E d \in Declared :
          \/ \E u \in Urls \cup {NONE} : u # portal.decl[d] /\ portal' = [portal EXCEPT !.decl[d] = u]
          \/ portal' = [portal EXCEPT !.rows = (@ \cup {d}) \ (@ \cap {d})]
    /\ UNCHANGED <<hub, apps, vocab>>

WorldChanges ==
    /\ \/ PortalChanges
       \/ /\ Event
          /\ \/ \E k \in Hub : hub' = (hub \cup {k}) \ (hub \cap {k}) /\ UNCHANGED <<apps, vocab>>
             \/ \E k \in Keys : apps' = (apps \cup {k}) \ (apps \cap {k}) /\ UNCHANGED <<hub, vocab>>
             \/ vocab' = ~vocab /\ UNCHANGED <<hub, apps>>
          /\ UNCHANGED portal
    /\ UNCHANGED <<tables, names, access, passVars, rounds, heaxMiss, absent, reagg, held, applied>>

PassSteps ==
    \/ Boot \/ PassBegins \/ DropsUndeclared \/ PollHub \/ PollFails \/ Probe \/ Build
    \/ \E d \in Declared : LookupFails(d) \/ NoListToken(d) \/ KeepConn(d) \/ AttachConn(d)
    \/ \E k \in Keys : ListAnswers(k) \/ ListSkipped(k) \/ ListRaises(k) \/ ListLate(k)

Next == PassSteps \/ RefreshPolicy \/ Restart \/ WorldChanges

Spec == Init /\ [][Next]_vars

(* The pass is a loop with a sleep, and every wait in it has a deadline;   *)
(* so has the loop that fetches the policy.                                *)
FairSpec == Spec /\ WF_vars(PassSteps) /\ WF_vars(RefreshPolicy)

-----------------------------------------------------------------------------
(* Properties                                                              *)

NamesOK(f) == DOMAIN f \subseteq Names \cup Prefixed /\ \A n \in DOMAIN f : f[n] \in Prefixed

(* The types; counters stay within what the code counts to (1556, 1783).   *)
TypeOK ==
    /\ backends \subseteq Keys /\ session \subseteq backends /\ active \subseteq Declared
    /\ url \in [Declared -> Urls \cup {NONE}] /\ policy \subseteq Hub
    /\ reg \in [Declared -> Urls \cup {NONE}] /\ rows \subseteq Declared
    /\ last \in [Keys -> 0 .. StaleRounds \cup {NONE}]
    /\ heaxMiss \in [Hub -> 0 .. MissDrop - 1]
    /\ NamesOK(route) /\ NamesOK(alias)
    /\ reagg \in BOOLEAN /\ held \in BOOLEAN /\ applied \in {{}, Family}
    /\ pc \in {"boot", "bootConn", "bootList", "idle", "conn", "hub", "probe", "list"}
    /\ wanted \in [Declared -> Urls \cup {NONE}]
    /\ todo \subseteq Keys /\ collected \subseteq Keys /\ changed \in BOOLEAN
    /\ disk \in [rows : SUBSET Declared, decl : [Declared -> Urls \cup {NONE}]]
    /\ portal \in [rows : SUBSET Declared, decl : [Declared -> Urls \cup {NONE}]]
    /\ hub \subseteq Hub /\ apps \subseteq Keys /\ vocab \in BOOLEAN
    /\ silent \in [Keys -> 0 .. StaleRounds + 1] /\ absent \in [Hub -> 0 .. MissDrop]
    /\ events \in 0 .. MaxEvents

Routed(f) == {f[n][1] : n \in DOMAIN f}

(* Whatever a name leads to, a backend made from a declaration is guarded  *)
(* as one, from before its first connection until no name leads to it any  *)
(* more, so that a call meets the declarations of this very moment         *)
(* (_deny_reason, GW7) whichever of the tables has changed first.          *)
DeclaredIsGuarded == ((backends \cup Routed(route) \cup Routed(alias)) \cap Declared) \subseteq active

(* The list of a backend is used for at most StaleRounds rounds after the  *)
(* last one it answered, however often it was dropped, joined again or     *)
(* was late in between (_keep_last).                                       *)
NoOldList == \A k \in collected : silent[k] <= StaleRounds

(* A tool in the catalog stays there through restarts of its app, failed   *)
(* polls and gaps in the registry: it leaves when its list is too old, the *)
(* registry has left it out MissDrop times in a row, or its declaration    *)
(* has gone (the 166 tools that became 126, at _discover_heax).            *)
ToolsStay ==
    [][Serving' => \A k \in Routed(route) \ Routed(route') :
          \/ silent[k] > StaleRounds
          \/ k \in Hub /\ absent[k] >= MissDrop
          \/ k \in Declared \ backends]_vars

(* While the configured and hub apps in the catalog are the same, no bare  *)
(* name that led to one of them leads elsewhere - a declared backend may   *)
(* come with the same names (GW19), the family may be read for the first   *)
(* time (E2-3) - and the names listed change only with the family that was *)
(* last read in full, not with a file that cannot be read just now.        *)
NamesStay ==
    [][(Serving' /\ Routed(route) \cap Base = Routed(route') \cap Base) =>
          /\ \A n \in Names : (Called(n) # NONE /\ Called(n)[1] \in Base) => Called(n)' = Called(n)
          /\ applied # {} => {n \in DOMAIN route : route[n][1] \in Base} =
                             {n \in DOMAIN route' : route'[n][1] \in Base}]_vars

(* An app that stays up and listed comes back into the catalog, whatever   *)
(* was late or dead before: a late list asks for another round, a dropped  *)
(* session for a reconnection that does.                                   *)
AppComesBack ==
    \A k \in Base : <>[](k \in apps /\ (k \in Static \/ k \in hub)) => <>[](k \in Routed(route))

=============================================================================
