------------------------------- MODULE Access -------------------------------
(***************************************************************************)
(* Who is let in: a valid portal PAT of one person comes to the MCP gate   *)
(* (_bearer_gate) or to the REST bridge (RestProxy.handle), is turned into *)
(* the groups the person has at the portal now (_portal_access), and the   *)
(* rule of the target decides (_deny_reason).  A target that is called in  *)
(* the person's own name also gets proofs of the groups and of the         *)
(* affiliation (_proof_headers).                                           *)
(*                                                                         *)
(* Rights of the person are key (a feat: or plat: group), admin and aff    *)
(* (the affiliation).  A step is the code between two awaits.  Time is     *)
(* counted in ticks; no request to the portal takes longer than Wait.      *)
(*                                                                         *)
(* MaxTime and MaxEvents are bounds: an event is a change of the rights or *)
(* an announcement (/conn-invalidate).  The portal may fail to answer at   *)
(* any time.                                                               *)
(***************************************************************************)
EXTENDS AccessRules

CONSTANTS
    Mcp, Rest,  \* requests to the gate and to the bridge
    Tokens,     \* PATs of the person
    Claims,     \* the groups written into each when it was issued
    Ttl,        \* ACCESS_ENT_TTL_S
    TtlUnknown, \* the 300 s an answer 404 is kept
    Wait, MaxTime, MaxEvents

Calls == Mcp \cup Rest

ASSUME AccessAssumption ==
    /\ Mcp \cap Rest = {} /\ Claims \in [Tokens -> SUBSET Groups]
    /\ Ttl \in Nat \ {0} /\ TtlUnknown \in Nat \ {0} /\ Wait \in Nat
    /\ MaxTime \in Nat /\ MaxEvents \in Nat
    /\ NONE \notin Nat /\ NONE \notin Tokens

VARIABLES
    now,        \* the clock
    rights,     \* what the person has at the portal
    offSince,   \* since when the person has not each right, or NONE
    told,       \* history: of each right, whether its loss was announced ("clean") while no
                \* older answer was under way
    cache,      \* _ENT_CACHE: by login groups, the answer and when its time is over
    last,       \* _ENT_LAST: the last answer, or NONE
    ready,      \* _ACCESS_POLICY_READY
    req,        \* the requests
    events

portal == <<rights, offSince, told>>
tables == <<cache, last, ready>>
vars == <<now, portal, tables, req, events>>

Event == events < MaxEvents /\ events' = events + 1

(* A request: where it stands, its token and target, what it asks the      *)
(* portal for and since when, the answer on its way, the groups it was     *)
(* given (and aff), and, as history, the losses announced before it came.  *)
Idle == [pc |-> "idle", tok |-> NONE, target |-> NONE, stage |-> "enter", since |-> 0,
         got |-> NONE, have |-> {}, after |-> {}]

-----------------------------------------------------------------------------
(* What becomes of request r with an answer e; ch is _ENT_CACHE.  An       *)
(* answer that is still good there takes no waiting.                       *)

Keys == UNION {{Base(Claims[t]), Base(Claims[t]) \ {"admin"}} : t \in Tokens}

BaseOf(r) == Base(Claims[r.tok])

Hit(ch, k) == ch[k].until > now

Ask(r, s) == [r EXCEPT !.pc = "ask", !.stage = s, !.since = now]

Goes(r, l, gs) == [r EXCEPT !.pc = l, !.have = gs, !.stage = "enter", !.since = 0]

(* _portal_affiliation; the gate forwarded the groups without the mark.    *)
KeyOf(c, s) == BaseOf(req[c]) \ (IF c \in Mcp /\ s = "aff" THEN {"admin"} ELSE {})

GotAff(r, e) == Goes(r, "sent", r.have \cup (IF e = NONE THEN {} ELSE e \cap {"aff"}))

AskAff(ch, r, k) == IF Hit(ch, k) THEN GotAff(r, ch[k].val) ELSE Ask(r, "aff")

(* _rest_proofs: the groups of now, then the affiliation.                  *)
GotPlat(ch, r, e) == AskAff(ch, [r EXCEPT !.have = RestGroups(Claims[r.tok], e)], BaseOf(r))

AskPlat(ch, r) ==
    IF Hit(ch, BaseOf(r)) THEN GotPlat(ch, r, ch[BaseOf(r)].val) ELSE Ask(r, "plat")

(* What the bridge decides; a refusal looks the groups up again for its    *)
(* text (_rest_deny_text).                                                 *)
Decide(ch, r, gs) ==
    IF Denied(ready, {}, r.target, gs)
    THEN IF Hit(ch, BaseOf(r)) THEN Idle ELSE Ask(r, "text")
    ELSE Goes(r, IF r.target \in Delegated THEN "mint" ELSE "sent", gs)

GotEnter(ch, c, r, e) ==
    IF c \in Mcp THEN Goes(r, "handler", GateGroups(Claims[r.tok], e))
                 ELSE Decide(ch, r, RestGroups(Claims[r.tok], e))

(* The token is good and not revoked.                                      *)
Enter(c, r) ==
    LET k == BaseOf(r)
    IN  IF Hit(cache, k) THEN GotEnter(cache, c, r, cache[k].val) ELSE Ask(r, "enter")

Got(ch, c, r, e) ==
    CASE r.stage = "enter" -> GotEnter(ch, c, r, e)
      [] r.stage = "plat" -> GotPlat(ch, r, e)
      [] r.stage = "aff" -> GotAff(r, e)
      [] r.stage = "text" -> Idle

-----------------------------------------------------------------------------
Init ==
    /\ now = 0 /\ events = 0
    /\ rights = Rights /\ offSince = [x \in Rights |-> NONE]
    /\ told = [x \in Rights |-> "no"]
    /\ cache = [k \in Keys |-> [val |-> NONE, until |-> 0]]
    /\ last = [k \in Keys |-> NONE]
    /\ ready \in BOOLEAN
    /\ req = [c \in Calls |-> Idle]

(* A request arrives with a valid token; a chosen answer may still be good. *)
Begin(c) ==
    /\ req[c].pc = "idle"
    /\ \E t \in Tokens, x \in Targets :
        req' = [req EXCEPT ![c] =
            Enter(c, [Idle EXCEPT !.tok = t, !.target = x,
                                  !.after = {y \in Rights : told[y] = "clean"}])]
    /\ UNCHANGED <<now, portal, tables, events>>

-----------------------------------------------------------------------------
(* _portal_access                                                          *)

AnswerServed(c) ==
    /\ req[c].pc = "ask"
    /\ req' = [req EXCEPT ![c].pc = "served", ![c].got = rights]
    /\ UNCHANGED <<now, portal, tables, events>>

AnswerArrives(c) ==
    /\ req[c].pc = "served"
    /\ LET r == req[c]
           k == KeyOf(c, r.stage)
       IN  /\ cache' = [cache EXCEPT ![k] = [val |-> r.got, until |-> now + Ttl]]
           /\ last' = [last EXCEPT ![k] = r.got]
           /\ req' = [req EXCEPT ![c] = Got(cache', c, [r EXCEPT !.got = NONE], r.got)]
    /\ UNCHANGED <<now, portal, ready, events>>

(* The portal does not know the question (404).                            *)
AnswerUnknown(c) ==
    /\ req[c].pc = "ask"
    /\ cache' = [cache EXCEPT ![KeyOf(c, req[c].stage)] = [val |-> NONE, until |-> now + TtlUnknown]]
    /\ req' = [req EXCEPT ![c] = Got(cache', c, @, NONE)]
    /\ UNCHANGED <<now, portal, last, ready, events>>

(* Mutant: the whole of the last answer.                                   *)
Mut_Fallback(k, s) == IF s = "aff" THEN NONE ELSE last[k]

(* Without an answer: the keys of the last one, never the affiliation or   *)
(* the mark of an administrator.                                           *)
Fallback(k, s) == IF s = "aff" \/ last[k] = NONE THEN NONE ELSE last[k] \ {"admin"}

AnswerFails(c) ==
    /\ req[c].pc = "ask"
    /\ req' = [req EXCEPT ![c] = Got(cache, c, @, Fallback(KeyOf(c, @.stage), @.stage))]
    /\ UNCHANGED <<now, portal, tables, events>>

-----------------------------------------------------------------------------
(* The call (_call_tool_body), and the app's own token (_rest_mint)        *)

Handle(c) ==
    /\ req[c].pc = "handler"
    /\ req' = [req EXCEPT ![c] =
            IF Denied(ready, {}, @.target, @.have) THEN Idle
            ELSE IF @.target \in Delegated THEN AskAff(cache, @, KeyOf(c, "aff"))
            ELSE Goes(@, "sent", @.have)]
    /\ UNCHANGED <<now, portal, tables, events>>

Minted(c) ==
    /\ req[c].pc = "mint"
    /\ req' = [req EXCEPT ![c] = AskPlat(cache, @)]
    /\ UNCHANGED <<now, portal, tables, events>>

(* The app has answered, or there is no token of the app.                  *)
Ends(c) ==
    /\ req[c].pc \in {"sent", "mint"}
    /\ req' = [req EXCEPT ![c] = Idle]
    /\ UNCHANGED <<now, portal, tables, events>>

-----------------------------------------------------------------------------
(* The portal and the clock                                                *)

Withdraw(x) ==
    /\ x \in rights /\ Event
    /\ rights' = rights \ {x} /\ offSince' = [offSince EXCEPT ![x] = now]
    /\ UNCHANGED <<now, told, tables, req>>

Grant(x) ==
    /\ x \in Rights \ rights /\ Event
    /\ rights' = rights \cup {x} /\ offSince' = [offSince EXCEPT ![x] = NONE]
    /\ told' = [told EXCEPT ![x] = "no"]
    /\ req' = [c \in Calls |-> [req[c] EXCEPT !.after = @ \ {x}]]
    /\ UNCHANGED <<now, tables>>

(* An answer with right x from before the loss is still under way.         *)
Overlapped(x) == \E c \in Calls : req[c].pc = "served" /\ x \in req[c].got

Telling ==
    /\ Event
    /\ told' = [x \in Rights |-> IF x \in rights THEN "no"
                                 ELSE IF Overlapped(x) THEN "overlapped" ELSE "clean"]
    /\ cache' = [k \in Keys |-> [val |-> NONE, until |-> 0]]

(* Mutant: the value for when the portal is down is kept.                  *)
Mut_Announce == Telling /\ UNCHANGED <<now, rights, offSince, last, ready, req>>

(* /conn-invalidate: the portal says that what is known of the person is   *)
(* wrong.                                                                  *)
Announce ==
    /\ Telling /\ last' = [k \in Keys |-> NONE]
    /\ UNCHANGED <<now, rights, offSince, ready, req>>

(* The policy arrives for the first time (_refresh_access_policy).         *)
PolicyArrives ==
    /\ ~ready /\ ready' = TRUE
    /\ UNCHANGED <<now, portal, cache, last, req, events>>

(* No request outlives its timeout.  What is too old in the cache is read  *)
(* no more and forgotten here.                                             *)
Tick ==
    /\ now < MaxTime /\ now' = now + 1
    /\ \A c \in Calls :
        req[c].pc \in {"ask", "served"} => now - req[c].since < Wait
    /\ cache' = [k \in Keys |-> IF cache[k].until > now + 1 THEN cache[k]
                                ELSE [val |-> NONE, until |-> 0]]
    /\ UNCHANGED <<portal, last, ready, req, events>>

Outside ==
    \/ \E x \in Rights : Withdraw(x) \/ Grant(x)
    \/ Announce \/ PolicyArrives \/ Tick

Next ==
    \/ \E c \in Calls :
        \/ Begin(c) \/ AnswerServed(c) \/ AnswerArrives(c) \/ AnswerUnknown(c) \/ AnswerFails(c)
        \/ Handle(c) \/ Minted(c) \/ Ends(c)
    \/ Outside

Spec == Init /\ [][Next]_vars

-----------------------------------------------------------------------------
(* Properties                                                              *)

(* The mark of an administrator and the affiliation are given only to a    *)
(* person who has them, or had them less than the time an answer is kept   *)
(* and may travel ago - whatever the token says and whether or not the     *)
(* portal can be reached (_portal_access, GateGroups, RestGroups).         *)
PresentOnly ==
    [][\A c \in Calls, x \in {"admin", "aff"} :
        x \in req'[c].have \ req[c].have
        => offSince[x] = NONE \/ now - offSince[x] < Ttl + Wait]_vars

(* After the portal has announced a loss while no older answer was under   *)
(* way, no request that comes later has the right, except by the words of  *)
(* its token when the portal cannot be asked (/conn-invalidate drops       *)
(* _ENT_CACHE and _ENT_LAST).  An answer that is under way is cached after *)
(* the announcement; such a loss is left out, and PresentOnly bounds how   *)
(* long the answer is used.                                                *)
ToldIsForgotten ==
    \A c \in Calls :
        req[c].pc # "idle" => req[c].have \cap req[c].after \subseteq Claims[req[c].tok] \cap Synthetic

(* Types.                                                                  *)
TypeOK ==
    /\ now \in Nat /\ events \in Nat
    /\ rights \subseteq Rights /\ offSince \in [Rights -> Nat \cup {NONE}]
    /\ told \in [Rights -> {"no", "clean", "overlapped"}]
    /\ cache \in [Keys -> [val : (SUBSET Rights) \cup {NONE}, until : Nat]]
    /\ last \in [Keys -> (SUBSET Rights) \cup {NONE}]
    /\ ready \in BOOLEAN
    /\ req \in [Calls -> [pc : {"idle", "ask", "served", "handler", "mint", "sent"},
                          tok : Tokens \cup {NONE}, target : Targets \cup {NONE},
                          stage : {"enter", "plat", "aff", "text"}, since : Nat,
                          got : (SUBSET Rights) \cup {NONE},
                          have : SUBSET (Groups \cup Rights),
                          after : SUBSET Rights]]
=============================================================================
