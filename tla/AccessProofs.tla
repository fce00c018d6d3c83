---------------------------- MODULE AccessProofs ----------------------------
(***************************************************************************)
(* Proofs about Access, for any number of requests, tokens and targets and *)
(* any times to live, and about CallRules, for any tools, names, apps and  *)
(* headers.  The lemmas of the first part say, of each operator that       *)
(* continues a request, what the continued request looks like (Continues)  *)
(* and where each right it has comes from (Sources).                       *)
(***************************************************************************)
EXTENDS Access, CallRules, TLAPS

Answers == (SUBSET Rights) \cup {NONE}

ReqRec == [pc : {"idle", "ask", "served", "handler", "mint", "sent"},
           tok : Tokens \cup {NONE}, target : Targets \cup {NONE},
           stage : {"enter", "plat", "aff", "text"}, since : Nat,
           got : Answers,
           have : SUBSET (Groups \cup Rights),
           after : SUBSET Rights]

Caches == [Keys -> [val : Answers, until : Nat]]

(* A request under way, without an answer on it.                           *)
Proper(r) == r \in ReqRec /\ r.tok \in Tokens /\ r.target \in Targets /\ r.got = NONE

(* q is what has become of r.                                              *)
Continues(r, q) ==
    /\ q \in ReqRec /\ q.got = NONE /\ q.pc # "served"
    /\ \/ q.pc = "idle" /\ q.after = {} /\ q.have = {}
       \/ /\ q.pc # "idle" /\ q.tok = r.tok /\ q.target = r.target /\ q.after = r.after
          /\ q.pc = "ask" => q.since = now

(* Right x stands in an answer that is still good in ch.                   *)
Lasting(ch, x) == \E k \in Keys : Hit(ch, k) /\ ch[k].val # NONE /\ x \in ch[k].val

(* Right x comes from the answer e to a question of stage s.               *)
FromAnswer(s, e, x) == e # NONE /\ x \in e /\ (x = "aff" => s = "aff")

(* By the words of the token.                                              *)
Said(r, x) == x = "key" /\ x \in Claims[r.tok]

Sources(ch, r, s, e, q) ==
    \A x \in Rights : x \in q.have =>
        x \in r.have \/ Lasting(ch, x) \/ FromAnswer(s, e, x) \/ Said(r, x)

-----------------------------------------------------------------------------
(* The operators of a request                                              *)

LEMMA GroupsBounded ==
    ASSUME NEW gs \in SUBSET Groups, NEW e \in Answers
    PROVE  /\ GateGroups(gs, e) \subseteq Groups /\ RestGroups(gs, e) \subseteq Groups
           /\ \A x \in Rights : x \in GateGroups(gs, e) \cup RestGroups(gs, e) =>
                (e # NONE /\ x \in e /\ x # "aff") \/ (x = "key" /\ x \in gs)
  BY DEF GateGroups, RestGroups, Base, Synthetic, Groups, Rights, Answers

LEMMA KeyTypes ==
    ASSUME NEW r, r.tok \in Tokens
    PROVE  BaseOf(r) \in Keys /\ BaseOf(r) \ {"admin"} \in Keys
  BY DEF BaseOf, Keys

LEMMA AskContinues ==
    ASSUME now \in Nat, NEW r, Proper(r), NEW s \in {"enter", "plat", "aff", "text"}
    PROVE  Continues(r, Ask(r, s)) /\ Ask(r, s).have = r.have
  BY AccessAssumption, RulesAssumption DEF Proper, Continues, Ask, ReqRec

LEMMA GoesContinues ==
    ASSUME NEW r, Proper(r), NEW gs \in SUBSET (Groups \cup Rights),
           NEW l \in {"handler", "mint", "sent"}
    PROVE  Continues(r, Goes(r, l, gs)) /\ Goes(r, l, gs).have = gs
  BY DEF Proper, Continues, Goes, ReqRec

LEMMA IdleContinues == ASSUME NEW r PROVE Continues(r, Idle) /\ Idle.have = {}
<1>1. {} \in SUBSET (Groups \cup Rights) /\ {} \in SUBSET Rights
  BY Zenon
<1>2. NONE \in Answers
  BY Zenon DEF Answers
<1>3. Idle \in ReqRec
  BY <1>1, <1>2 DEF Idle, ReqRec
<1>4. Idle.got = NONE /\ Idle.pc = "idle" /\ Idle.after = {} /\ Idle.have = {}
  BY DEF Idle
<1>5. QED  BY <1>3, <1>4 DEF Continues

LEMMA GotAffContinues ==
    ASSUME NEW r, Proper(r), NEW e \in Answers
    PROVE  /\ Continues(r, GotAff(r, e))
           /\ \A x \in Rights : x \in GotAff(r, e).have => x \in r.have \/ FromAnswer("aff", e, x)
<1> DEFINE gs == r.have \cup (IF e = NONE THEN {} ELSE e \cap {"aff"})
<1>1. gs \in SUBSET (Groups \cup Rights)
  BY DEF Proper, ReqRec, Answers, Rights
<1>2. GotAff(r, e) = Goes(r, "sent", gs)
  BY DEF GotAff
<1>3. \A x \in Rights : x \in gs => x \in r.have \/ FromAnswer("aff", e, x)
  BY DEF FromAnswer
<1> HIDE DEF gs
<1>4. QED  BY <1>1, <1>2, <1>3, GoesContinues

LEMMA AskAffContinues ==
    ASSUME now \in Nat, NEW ch \in Caches, NEW r, Proper(r), NEW k \in Keys
    PROVE  /\ Continues(r, AskAff(ch, r, k))
           /\ \A x \in Rights : x \in AskAff(ch, r, k).have => x \in r.have \/ Lasting(ch, x)
<1>1. CASE Hit(ch, k)
  <2>1. ch[k].val \in Answers
    BY DEF Caches
  <2>2. AskAff(ch, r, k) = GotAff(r, ch[k].val)
    BY <1>1 DEF AskAff
  <2>3. \A x : FromAnswer("aff", ch[k].val, x) => Lasting(ch, x)
    BY <1>1 DEF FromAnswer, Lasting
  <2>4. QED  BY <2>1, <2>2, <2>3, GotAffContinues
<1>2. CASE ~Hit(ch, k)
  BY <1>2, AskContinues DEF AskAff
<1>3. QED  BY <1>1, <1>2

LEMMA GotPlatContinues ==
    ASSUME now \in Nat, NEW ch \in Caches, NEW r, Proper(r), NEW e \in Answers,
           NEW s \in {"plat", "kept"}
    PROVE  Continues(r, GotPlat(ch, r, e)) /\ Sources(ch, r, s, e, GotPlat(ch, r, e))
<1> DEFINE q == [r EXCEPT !.have = RestGroups(Claims[r.tok], e)]
<1>1. Claims[r.tok] \in SUBSET Groups
  BY AccessAssumption DEF Proper
<1>2. /\ Proper(q) /\ q.have = RestGroups(Claims[r.tok], e)
      /\ q.tok = r.tok /\ q.target = r.target /\ q.after = r.after
  BY <1>1, GroupsBounded DEF Proper, ReqRec
<1> HIDE DEF q
<1>3. \A x \in Rights : x \in q.have => FromAnswer(s, e, x) \/ Said(r, x)
  <2>1. \A x \in Rights : x \in RestGroups(Claims[r.tok], e) => FromAnswer(s, e, x) \/ Said(r, x)
    BY <1>1, GroupsBounded DEF FromAnswer, Said
  <2>2. QED  BY <1>2, <2>1
<1>4. GotPlat(ch, r, e) = AskAff(ch, q, BaseOf(r)) /\ BaseOf(r) \in Keys
  BY KeyTypes DEF GotPlat, Proper, q
<1>5. /\ Continues(q, GotPlat(ch, r, e))
      /\ \A x \in Rights : x \in GotPlat(ch, r, e).have => x \in q.have \/ Lasting(ch, x)
  BY <1>2, <1>4, AskAffContinues
<1>6. QED  BY <1>2, <1>3, <1>5 DEF Continues, Sources

LEMMA AskPlatContinues ==
    ASSUME now \in Nat, NEW ch \in Caches, NEW r, Proper(r)
    PROVE  /\ Continues(r, AskPlat(ch, r))
           /\ Sources(ch, r, "plat", NONE, AskPlat(ch, r))
<1>1. BaseOf(r) \in Keys
  BY KeyTypes DEF Proper
<1>2. CASE Hit(ch, BaseOf(r))
  <2> DEFINE e == ch[BaseOf(r)].val
  <2>1. e \in Answers
    BY <1>1 DEF Caches
  <2>2. AskPlat(ch, r) = GotPlat(ch, r, e)
    BY <1>2 DEF AskPlat
  <2>3. \A x : FromAnswer("kept", e, x) => Lasting(ch, x)
    BY <1>1, <1>2 DEF FromAnswer, Lasting
  <2> HIDE DEF e
  <2>4. QED  BY <2>1, <2>2, <2>3, GotPlatContinues DEF Sources
<1>3. CASE ~Hit(ch, BaseOf(r))
  BY <1>3, AskContinues DEF AskPlat, Sources
<1>4. QED  BY <1>2, <1>3

LEMMA GotEnterContinues ==
    ASSUME now \in Nat, NEW ch \in Caches, NEW r, Proper(r), NEW e \in Answers, NEW c \in Calls,
           NEW s \in {"enter", "kept"}
    PROVE  Continues(r, GotEnter(ch, c, r, e)) /\ Sources(ch, r, s, e, GotEnter(ch, c, r, e))
<1>1. Claims[r.tok] \in SUBSET Groups
  BY AccessAssumption DEF Proper
<1>2. CASE c \in Mcp
  <2> DEFINE gs == GateGroups(Claims[r.tok], e)
  <2>1. gs \in SUBSET (Groups \cup Rights)
    BY <1>1, GroupsBounded
  <2>2. \A x \in Rights : x \in gs => FromAnswer(s, e, x) \/ Said(r, x)
    BY <1>1, GroupsBounded DEF FromAnswer, Said
  <2>3. GotEnter(ch, c, r, e) = Goes(r, "handler", gs)
    BY <1>2 DEF GotEnter
  <2> HIDE DEF gs
  <2>4. QED  BY <2>1, <2>2, <2>3, GoesContinues DEF Sources
<1>3. CASE c \notin Mcp
  <2> DEFINE gs == RestGroups(Claims[r.tok], e)
  <2>1. gs \in SUBSET (Groups \cup Rights)
    BY <1>1, GroupsBounded
  <2>2. \A x \in Rights : x \in gs => FromAnswer(s, e, x) \/ Said(r, x)
    BY <1>1, GroupsBounded DEF FromAnswer, Said
  <2>3. GotEnter(ch, c, r, e) = Decide(ch, r, gs)
    BY <1>3 DEF GotEnter
  <2> HIDE DEF gs
  <2>4. Decide(ch, r, gs) \in {Idle, Ask(r, "text"), Goes(r, "mint", gs), Goes(r, "sent", gs)}
    BY DEF Decide
  <2>5. QED
    BY <2>1, <2>2, <2>3, <2>4, GoesContinues, IdleContinues, AskContinues DEF Sources
<1>4. QED  BY <1>2, <1>3

LEMMA EnterContinues ==
    ASSUME now \in Nat, cache \in Caches, NEW r, Proper(r), NEW c \in Calls
    PROVE  Continues(r, Enter(c, r)) /\ Sources(cache, r, "enter", NONE, Enter(c, r))
<1>1. BaseOf(r) \in Keys
  BY KeyTypes DEF Proper
<1>2. CASE Hit(cache, BaseOf(r))
  <2> DEFINE e == cache[BaseOf(r)].val
  <2>1. e \in Answers
    BY <1>1 DEF Caches
  <2>2. Enter(c, r) = GotEnter(cache, c, r, e)
    BY <1>2 DEF Enter
  <2>3. \A x : FromAnswer("kept", e, x) => Lasting(cache, x)
    BY <1>1, <1>2 DEF FromAnswer, Lasting
  <2> HIDE DEF e
  <2>4. QED  BY <2>1, <2>2, <2>3, GotEnterContinues DEF Sources
<1>3. CASE ~Hit(cache, BaseOf(r))
  BY <1>3, AskContinues DEF Enter, Sources
<1>4. QED  BY <1>2, <1>3

LEMMA GotContinues ==
    ASSUME now \in Nat, NEW ch \in Caches, NEW r, Proper(r), NEW e \in Answers, NEW c \in Calls
    PROVE  Continues(r, Got(ch, c, r, e)) /\ Sources(ch, r, r.stage, e, Got(ch, c, r, e))
<1>1. r.stage \in {"enter", "plat", "aff", "text"}
  BY DEF Proper, ReqRec
<1>2. CASE r.stage = "enter"
  BY <1>2, GotEnterContinues DEF Got
<1>3. CASE r.stage = "plat"
  BY <1>3, GotPlatContinues DEF Got
<1>4. CASE r.stage = "aff"
  BY <1>4, GotAffContinues DEF Got, Sources
<1>5. CASE r.stage = "text"
  BY <1>5, IdleContinues DEF Got, Sources
<1>6. QED  BY <1>1, <1>2, <1>3, <1>4, <1>5

-----------------------------------------------------------------------------
(* The inductive invariant                                                 *)

(* Since when a right is gone is known.                                    *)
RightsInv ==
    \A x \in Rights :
        /\ x \in rights <=> offSince[x] = NONE
        /\ offSince[x] # NONE => offSince[x] \in Nat /\ offSince[x] <= now

(* A request has its token and its target; only a served question carries  *)
(* an answer; no question is older than Wait.                              *)
Fit(r) ==
    /\ r \in ReqRec
    /\ r.pc # "idle" => r.tok \in Tokens /\ r.target \in Targets
    /\ r.pc = "served" => r.got \in SUBSET Rights
    /\ r.pc # "served" => r.got = NONE
    /\ r.pc \in {"ask", "served"} => r.since <= now /\ now <= r.since + Wait

(* An answer on its way was true when it was asked for, or later.          *)
Aged(r) == r.pc = "served" => \A x \in r.got : offSince[x] = NONE \/ r.since <= offSince[x]

(* What was announced before a request came is announced still.            *)
AfterTold(r) == \A x \in r.after : told[x] = "clean"

Safe(r) == r.pc # "idle" => r.have \cap r.after \subseteq Claims[r.tok] \cap Synthetic

ReqsOK ==
    /\ req \in [Calls -> ReqRec]
    /\ \A c \in Calls : Fit(req[c]) /\ Aged(req[c]) /\ AfterTold(req[c]) /\ Safe(req[c])

(* A kept answer ends within Ttl, and within Ttl + Wait of any loss of a   *)
(* right in it.                                                            *)
CacheInv ==
    \A k \in Keys : cache[k].val # NONE =>
        /\ cache[k].until <= now + Ttl
        /\ \A x \in cache[k].val : offSince[x] = NONE \/ cache[k].until <= offSince[x] + Ttl + Wait

(* What was announced is gone, and in no answer kept or on its way.        *)
ToldInv ==
    \A x \in Rights : told[x] = "clean" =>
        /\ x \notin rights
        /\ \A c \in Calls : req[c].pc = "served" => x \notin req[c].got
        /\ \A k \in Keys : /\ cache[k].val # NONE => x \notin cache[k].val
                           /\ last[k] # NONE => x \notin last[k]

IInv == TypeOK /\ RightsInv /\ ReqsOK /\ CacheInv /\ ToldInv

(* Not gone for longer than an answer may be kept and travel.              *)
Fresh(x) == offSince[x] = NONE \/ now - offSince[x] < Ttl + Wait

(* A right of which the portal has an answer that counts.                  *)
Good(ch, s, e) ==
    \A x \in Rights : Lasting(ch, x) \/ FromAnswer(s, e, x) =>
        told[x] # "clean" /\ (x # "key" => Fresh(x))

(* What a step does to the requests.                                       *)
StepOK ==
    /\ ReqsOK'
    /\ \A d \in Calls : req'[d].pc = "served" => req'[d] = req[d]
    /\ \A d \in Calls, x \in {"admin", "aff"} : x \in req'[d].have \ req[d].have => Fresh(x)

LEMMA TypesOf ==
    TypeOK <=> /\ now \in Nat /\ events \in Nat
               /\ rights \subseteq Rights /\ offSince \in [Rights -> Nat \cup {NONE}]
               /\ told \in [Rights -> {"no", "clean", "overlapped"}]
               /\ cache \in Caches /\ last \in [Keys -> Answers] /\ ready \in BOOLEAN
               /\ req \in [Calls -> ReqRec]
  BY DEF TypeOK, Caches, Answers, ReqRec

(* Request c goes on, while nothing changes but the tables.                *)
LEMMA RequestStep ==
    ASSUME IInv, NEW c \in Calls, NEW r, Proper(r), AfterTold(r),
           r.have \cap r.after \subseteq Claims[r.tok] \cap Synthetic,
           NEW ch \in Caches, NEW s, NEW e, NEW q, Continues(r, q), Sources(ch, r, s, e, q),
           Good(ch, s, e), r.have \subseteq req[c].have,
           req' = [req EXCEPT ![c] = q], UNCHANGED <<now, rights, offSince, told>>
    PROVE  StepOK
<1>1. req'[c] = q /\ \A d \in Calls \ {c} : req'[d] = req[d]
  BY DEF IInv, ReqsOK
<1>2. Fit(q)
  BY AccessAssumption DEF Continues, Proper, Fit, IInv, TypeOK, ReqRec
<1>3. Aged(q) /\ AfterTold(q)
  BY DEF Continues, Aged, AfterTold
<1>4. Safe(q)
  <2>1. SUFFICES ASSUME q.pc # "idle", NEW x \in q.have \cap q.after
                 PROVE  x \in Claims[q.tok] \cap Synthetic
    BY DEF Safe
  <2>2. q.tok = r.tok /\ q.after = r.after
    BY <2>1 DEF Continues
  <2>3. x \in Rights /\ told[x] = "clean"
    BY <2>1, <2>2 DEF AfterTold, Proper, ReqRec
  <2>4. x \in r.have \/ Said(r, x)
    BY <2>1, <2>3 DEF Sources, Good
  <2>5. QED  BY <2>1, <2>2, <2>4 DEF Said, Synthetic
<1>5. \A d \in Calls : Fit(req[d])' /\ Aged(req[d])' /\ AfterTold(req[d])' /\ Safe(req[d])'
  <2>1. TAKE d \in Calls
  <2>2. Fit(req[d]) /\ Aged(req[d]) /\ AfterTold(req[d]) /\ Safe(req[d])
    BY DEF IInv, ReqsOK
  <2>3. CASE d = c
    BY <1>1, <1>2, <1>3, <1>4, <2>3 DEF Fit, Aged, AfterTold, Safe
  <2>4. CASE d # c
    BY <1>1, <2>2, <2>4 DEF Fit, Aged, AfterTold, Safe
  <2>5. QED  BY <2>3, <2>4
<1>6. req' \in [Calls -> ReqRec]
  BY DEF IInv, ReqsOK, Continues
<1>7. \A d \in Calls, x \in {"admin", "aff"} : x \in req'[d].have \ req[d].have => Fresh(x)
  <2>1. SUFFICES ASSUME NEW x \in {"admin", "aff"}, x \in q.have \ req[c].have PROVE Fresh(x)
    BY <1>1
  <2>2. QED  BY <2>1 DEF Sources, Good, Said, Rights
<1>8. QED  BY <1>1, <1>5, <1>6, <1>7 DEF ReqsOK, Continues, StepOK

LEMMA KeptIsGood == ASSUME IInv, NEW s PROVE Good(cache, s, NONE)
<1>1. SUFFICES ASSUME NEW x \in Rights, NEW k \in Keys, Hit(cache, k), cache[k].val # NONE,
                      x \in cache[k].val
               PROVE  told[x] # "clean" /\ Fresh(x)
  BY DEF Good, Lasting, FromAnswer
<1>2. told[x] # "clean"
  BY <1>1 DEF IInv, ToldInv
<1>3. offSince[x] = NONE \/ cache[k].until <= offSince[x] + Ttl + Wait
  BY <1>1 DEF IInv, CacheInv
<1>4. /\ now \in Nat /\ cache[k].until \in Nat /\ offSince[x] \in Nat \cup {NONE}
      /\ now < cache[k].until
  BY <1>1, TypesOf DEF IInv, Caches, Hit
<1>5. QED  BY <1>2, <1>3, <1>4, AccessAssumption DEF Fresh

(* A request that is not idle is proper, but for the answer on it.         *)
LEMMA ProperOf ==
    ASSUME IInv, NEW c \in Calls, req[c].pc # "idle"
    PROVE  /\ req[c].pc # "served" => Proper(req[c])
           /\ Proper([req[c] EXCEPT !.got = NONE])
           /\ AfterTold(req[c]) /\ req[c].have \cap req[c].after \subseteq Claims[req[c].tok] \cap Synthetic
           /\ \A s : KeyOf(c, s) \in Keys
<1>1. Fit(req[c]) /\ AfterTold(req[c]) /\ Safe(req[c])
  BY DEF IInv, ReqsOK
<1>2. BaseOf(req[c]) \in Keys /\ BaseOf(req[c]) \ {"admin"} \in Keys
  BY <1>1, KeyTypes DEF Fit
<1>3. \A s : KeyOf(c, s) \in {BaseOf(req[c]), BaseOf(req[c]) \ {"admin"}, BaseOf(req[c]) \ {}}
  BY DEF KeyOf
<1>4. BaseOf(req[c]) \ {} = BaseOf(req[c])
  OBVIOUS
<1>5. \A s : KeyOf(c, s) \in Keys
  BY <1>2, <1>3, <1>4
<1>6. Proper([req[c] EXCEPT !.got = NONE])
  BY <1>1 DEF Fit, Proper, ReqRec, Answers
<1>7. req[c].pc # "served" => Proper(req[c])
  BY <1>1 DEF Fit, Proper
<1>8. QED  BY <1>1, <1>5, <1>6, <1>7 DEF Safe

-----------------------------------------------------------------------------
(* The steps of a request                                                  *)

LEMMA BeginStep == ASSUME IInv, NEW c \in Calls, Begin(c) PROVE StepOK
<1>1. PICK t \in Tokens, x \in Targets :
        req' = [req EXCEPT ![c] =
            Enter(c, [Idle EXCEPT !.tok = t, !.target = x,
                                  !.after = {y \in Rights : told[y] = "clean"}])]
  BY DEF Begin
<1> DEFINE r == [Idle EXCEPT !.tok = t, !.target = x, !.after = {y \in Rights : told[y] = "clean"}]
<1>2. Idle \in ReqRec /\ Idle.got = NONE /\ Idle.have = {}
  BY IdleContinues DEF Continues
<1>3. /\ r.tok = t /\ r.target = x /\ r.after = {y \in Rights : told[y] = "clean"}
      /\ r.have = {} /\ r.got = NONE /\ r \in ReqRec
  BY <1>2 DEF ReqRec
<1> HIDE DEF r
<1>4. Proper(r) /\ AfterTold(r) /\ r.have \cap r.after \subseteq Claims[r.tok] \cap Synthetic
  BY <1>3 DEF Proper, AfterTold
<1>5. now \in Nat /\ cache \in Caches
  BY TypesOf DEF IInv
<1>6. Continues(r, Enter(c, r)) /\ Sources(cache, r, "enter", NONE, Enter(c, r))
  BY <1>4, <1>5, EnterContinues
<1>7. Good(cache, "enter", NONE) /\ r.have \subseteq req[c].have
  BY <1>3, KeptIsGood
<1>8. req' = [req EXCEPT ![c] = Enter(c, r)] /\ UNCHANGED <<now, rights, offSince, told>>
  BY <1>1 DEF r, Begin, portal
<1>9. QED  BY <1>4, <1>5, <1>6, <1>7, <1>8, RequestStep

LEMMA HandleStep == ASSUME IInv, NEW c \in Calls, Handle(c) PROVE StepOK
<1> DEFINE r == req[c]
           q == IF Denied(ready, {}, r.target, r.have) THEN Idle
                ELSE IF r.target \in Delegated THEN AskAff(cache, r, KeyOf(c, "aff"))
                ELSE Goes(r, "sent", r.have)
<1>1. /\ Proper(r) /\ AfterTold(r) /\ r.have \cap r.after \subseteq Claims[r.tok] \cap Synthetic
      /\ KeyOf(c, "aff") \in Keys /\ r.have \in SUBSET (Groups \cup Rights)
  BY ProperOf DEF Handle, Proper, ReqRec
<1>2. now \in Nat /\ cache \in Caches
  BY TypesOf DEF IInv
<1>3. Continues(r, q) /\ Sources(cache, r, "handler", NONE, q)
  BY <1>1, <1>2, IdleContinues, AskAffContinues, GoesContinues DEF Sources
<1>4. req' = [req EXCEPT ![c] = q] /\ UNCHANGED <<now, rights, offSince, told>>
  BY DEF Handle, portal, IInv, ReqsOK
<1>5. Good(cache, "handler", NONE)
  BY KeptIsGood
<1> HIDE DEF q
<1>6. QED  BY <1>1, <1>2, <1>3, <1>4, <1>5, RequestStep

LEMMA MintedStep == ASSUME IInv, NEW c \in Calls, Minted(c) PROVE StepOK
<1> DEFINE r == req[c]
           q == AskPlat(cache, r)
<1>1. Proper(r) /\ AfterTold(r) /\ r.have \cap r.after \subseteq Claims[r.tok] \cap Synthetic
  BY ProperOf DEF Minted
<1>2. now \in Nat /\ cache \in Caches
  BY TypesOf DEF IInv
<1>3. Continues(r, q) /\ Sources(cache, r, "plat", NONE, q)
  BY <1>1, <1>2, AskPlatContinues
<1>4. req' = [req EXCEPT ![c] = q] /\ UNCHANGED <<now, rights, offSince, told>>
  BY DEF Minted, portal, IInv, ReqsOK
<1>5. Good(cache, "plat", NONE)
  BY KeptIsGood
<1> HIDE DEF q
<1>6. QED  BY <1>1, <1>2, <1>3, <1>4, <1>5, RequestStep

LEMMA EndsStep == ASSUME IInv, NEW c \in Calls, Ends(c) PROVE StepOK
<1> DEFINE r == req[c]
<1>1. Proper(r) /\ AfterTold(r) /\ r.have \cap r.after \subseteq Claims[r.tok] \cap Synthetic
  BY ProperOf DEF Ends
<1>2. Continues(r, Idle) /\ Sources(cache, r, "end", NONE, Idle)
  BY IdleContinues DEF Sources
<1>3. req' = [req EXCEPT ![c] = Idle] /\ UNCHANGED <<now, rights, offSince, told>> /\ cache \in Caches
  BY TypesOf DEF Ends, portal, IInv
<1>4. Good(cache, "end", NONE)
  BY KeptIsGood
<1>5. QED  BY <1>1, <1>2, <1>3, <1>4, RequestStep

LEMMA UnknownStep == ASSUME IInv, NEW c \in Calls, AnswerUnknown(c) PROVE StepOK
<1> DEFINE r == req[c]
           q == Got(cache', c, r, NONE)
           key == KeyOf(c, r.stage)
<1>1. /\ Proper(r) /\ AfterTold(r) /\ r.have \cap r.after \subseteq Claims[r.tok] \cap Synthetic
      /\ key \in Keys
  BY ProperOf DEF AnswerUnknown
<1>2. now \in Nat /\ cache \in Caches /\ NONE \in Answers
  BY TypesOf DEF IInv, Answers
<1>3. cache' = [cache EXCEPT ![key] = [val |-> NONE, until |-> now + TtlUnknown]]
  BY DEF AnswerUnknown
<1>4. cache' \in Caches
  BY <1>1, <1>2, <1>3, AccessAssumption DEF Caches
<1>5. Continues(r, q) /\ Sources(cache', r, r.stage, NONE, q)
  BY <1>1, <1>2, <1>4, GotContinues
<1>6. req' = [req EXCEPT ![c] = q] /\ UNCHANGED <<now, rights, offSince, told>>
  BY DEF AnswerUnknown, portal, IInv, ReqsOK
<1>7. Good(cache', r.stage, NONE)
  <2>1. \A k \in Keys : cache'[k].val # NONE => cache'[k] = cache[k]
    BY <1>2, <1>3 DEF Caches
  <2>2. \A x \in Rights : Lasting(cache', x) => Lasting(cache, x)
    BY <2>1 DEF Lasting, Hit
  <2>3. Good(cache, r.stage, NONE)
    BY KeptIsGood
  <2>4. QED  BY <2>2, <2>3 DEF Good, FromAnswer
<1> HIDE DEF q
<1>8. QED  BY <1>1, <1>4, <1>5, <1>6, <1>7, RequestStep

LEMMA FailsStep == ASSUME IInv, NEW c \in Calls, AnswerFails(c) PROVE StepOK
<1> DEFINE r == req[c]
           e == Fallback(KeyOf(c, r.stage), r.stage)
           q == Got(cache, c, r, e)
<1>1. /\ Proper(r) /\ AfterTold(r) /\ r.have \cap r.after \subseteq Claims[r.tok] \cap Synthetic
      /\ KeyOf(c, r.stage) \in Keys
  BY ProperOf DEF AnswerFails
<1>2. now \in Nat /\ cache \in Caches /\ last \in [Keys -> Answers]
  BY TypesOf DEF IInv
<1>3. e \in Answers
  BY <1>1, <1>2 DEF Fallback, Answers
<1>4. Continues(r, q) /\ Sources(cache, r, r.stage, e, q)
  BY <1>1, <1>2, <1>3, GotContinues
<1>5. req' = [req EXCEPT ![c] = q] /\ UNCHANGED <<now, rights, offSince, told>>
  BY DEF AnswerFails, portal, IInv, ReqsOK
<1>6. \A x \in Rights : FromAnswer(r.stage, e, x) => x = "key" /\ told[x] # "clean"
  BY <1>1 DEF FromAnswer, Fallback, IInv, ToldInv, Rights
<1>7. Good(cache, r.stage, e)
  BY <1>6, KeptIsGood DEF Good, FromAnswer
<1> HIDE DEF q, e
<1>8. QED  BY <1>1, <1>2, <1>4, <1>5, <1>7, RequestStep

LEMMA ArrivesStep == ASSUME IInv, NEW c \in Calls, AnswerArrives(c) PROVE StepOK
<1> DEFINE r == [req[c] EXCEPT !.got = NONE]
           e == req[c].got
           q == Got(cache', c, r, e)
           key == KeyOf(c, req[c].stage)
<1>1. /\ Proper(r) /\ AfterTold(req[c]) /\ key \in Keys
      /\ req[c].have \cap req[c].after \subseteq Claims[req[c].tok] \cap Synthetic
  BY ProperOf DEF AnswerArrives
<1>2. now \in Nat /\ cache \in Caches /\ req[c] \in ReqRec
  BY TypesOf DEF IInv, ReqsOK
<1>3. r.tok = req[c].tok /\ r.have = req[c].have /\ r.after = req[c].after /\ r.stage = req[c].stage
  BY <1>2 DEF ReqRec
<1>4. Fit(req[c]) /\ Aged(req[c]) /\ req[c].pc = "served"
  BY DEF IInv, ReqsOK, AnswerArrives
<1>5. e \in SUBSET Rights /\ e \in Answers
  BY <1>4 DEF Fit, Answers
<1>6. cache' = [cache EXCEPT ![key] = [val |-> e, until |-> now + Ttl]]
  BY DEF AnswerArrives
<1>7. cache' \in Caches
  BY <1>1, <1>2, <1>5, <1>6, AccessAssumption DEF Caches
<1>8. req' = [req EXCEPT ![c] = q] /\ UNCHANGED <<now, rights, offSince, told>>
  BY DEF AnswerArrives, portal
<1> HIDE DEF r
<1>9. Continues(r, q) /\ Sources(cache', r, r.stage, e, q)
  BY <1>1, <1>2, <1>5, <1>7, GotContinues
<1>10. \A x \in e : told[x] # "clean" /\ Fresh(x)
  <2>1. TAKE x \in e
  <2>2. x \in Rights /\ told[x] # "clean"
    BY <1>4, <1>5 DEF IInv, ToldInv
  <2>3. offSince[x] = NONE \/ req[c].since <= offSince[x]
    BY <1>4 DEF Aged
  <2>4. now <= req[c].since + Wait /\ req[c].since \in Nat /\ offSince[x] \in Nat \cup {NONE}
    BY <1>2, <1>4, <2>2, TypesOf DEF Fit, ReqRec, IInv
  <2>5. QED  BY <1>2, <2>2, <2>3, <2>4, AccessAssumption DEF Fresh
<1>11. Good(cache', r.stage, e)
  <2>1. \A k \in Keys : cache'[k] = cache[k] \/ cache'[k].val = e
    BY <1>2, <1>6 DEF Caches
  <2>2. \A x \in Rights : Lasting(cache', x) => Lasting(cache, x) \/ x \in e
    BY <2>1 DEF Lasting, Hit
  <2>3. Good(cache, r.stage, NONE)
    BY KeptIsGood
  <2>4. QED  BY <1>10, <2>2, <2>3 DEF Good, FromAnswer
<1> HIDE DEF q
<1>12. AfterTold(r) /\ r.have \cap r.after \subseteq Claims[r.tok] \cap Synthetic /\ r.have \subseteq req[c].have
  BY <1>1, <1>3 DEF AfterTold
<1>13. QED  BY <1>1, <1>7, <1>8, <1>9, <1>11, <1>12, RequestStep

(* The portal answers the truth of this moment.                            *)
LEMMA ServedStep ==
    ASSUME IInv, NEW c \in Calls, AnswerServed(c)
    PROVE  /\ ReqsOK'
           /\ \A d \in Calls : req'[d].have = req[d].have
           /\ \A d \in Calls : req'[d].pc = "served" => req'[d].got = rights \/ req'[d] = req[d]
<1> DEFINE q == [req[c] EXCEPT !.pc = "served", !.got = rights]
<1>1. /\ Fit(req[c]) /\ AfterTold(req[c]) /\ Safe(req[c]) /\ req[c].pc = "ask"
      /\ req \in [Calls -> ReqRec]
  BY DEF IInv, ReqsOK, AnswerServed
<1>2. rights \subseteq Rights /\ now \in Nat /\ offSince \in [Rights -> Nat \cup {NONE}]
  BY TypesOf DEF IInv
<1>3. req' = [req EXCEPT ![c] = q] /\ UNCHANGED <<now, rights, offSince, told>>
  BY <1>1 DEF AnswerServed, portal
<1>4. /\ q \in ReqRec /\ q.pc = "served" /\ q.got = rights /\ q.tok = req[c].tok
      /\ q.target = req[c].target /\ q.since = req[c].since /\ q.have = req[c].have
      /\ q.after = req[c].after
  BY <1>1, <1>2 DEF ReqRec, Answers
<1> HIDE DEF q
<1>5. Fit(q) /\ AfterTold(q) /\ Safe(q)
  BY <1>1, <1>2, <1>4 DEF Fit, AfterTold, Safe
<1>6. Aged(q)
  BY <1>2, <1>4 DEF Aged, IInv, RightsInv
<1>7. \A d \in Calls : Fit(req[d])' /\ Aged(req[d])' /\ AfterTold(req[d])' /\ Safe(req[d])'
  <2>1. TAKE d \in Calls
  <2>2. Fit(req[d]) /\ Aged(req[d]) /\ AfterTold(req[d]) /\ Safe(req[d])
    BY DEF IInv, ReqsOK
  <2>3. CASE d = c
    BY <1>1, <1>3, <1>5, <1>6, <2>3 DEF Fit, Aged, AfterTold, Safe
  <2>4. CASE d # c
    BY <1>1, <1>3, <2>2, <2>4 DEF Fit, Aged, AfterTold, Safe
  <2>5. QED  BY <2>3, <2>4
<1>8. QED  BY <1>1, <1>3, <1>4, <1>7 DEF ReqsOK

-----------------------------------------------------------------------------
(* The whole invariant                                                     *)

(* A step of a request that leaves the tables alone.                       *)
LEMMA TablesAlone ==
    ASSUME IInv, StepOK, UNCHANGED <<now, portal, tables, events>>
    PROVE  IInv'
<1>1. TypeOK'
  BY TypesOf DEF IInv, StepOK, ReqsOK, portal, tables, TypeOK, ReqRec, Answers
<1>2. RightsInv' /\ CacheInv'
  BY DEF IInv, RightsInv, CacheInv, portal, tables
<1>3. ToldInv'
  BY DEF IInv, ToldInv, StepOK, portal, tables
<1>4. QED  BY <1>1, <1>2, <1>3 DEF IInv, StepOK

LEMMA UnknownKeeps == ASSUME IInv, NEW c \in Calls, AnswerUnknown(c) PROVE IInv'
<1> DEFINE key == KeyOf(c, req[c].stage)
<1>1. StepOK
  BY UnknownStep
<1>2. cache' = [cache EXCEPT ![key] = [val |-> NONE, until |-> now + TtlUnknown]]
  BY DEF AnswerUnknown
<1>3. UNCHANGED <<now, rights, offSince, told, last, ready, events>>
  BY DEF AnswerUnknown, portal
<1>4. cache' \in Caches /\ \A k \in Keys : cache'[k].val # NONE => cache'[k] = cache[k]
  <2>1. key \in Keys /\ now \in Nat /\ cache \in Caches /\ NONE \in Answers
    BY ProperOf, TypesOf DEF AnswerUnknown, IInv, Answers
  <2> HIDE DEF key
  <2>2. QED  BY <1>2, <2>1, AccessAssumption DEF Caches
<1>5. TypeOK'
  BY <1>1, <1>3, <1>4, TypesOf DEF IInv, StepOK, ReqsOK, TypeOK, ReqRec, Caches, Answers
<1>6. RightsInv' /\ CacheInv'
  BY <1>3, <1>4 DEF IInv, RightsInv, CacheInv
<1>7. ToldInv'
  BY <1>1, <1>3, <1>4 DEF IInv, ToldInv, StepOK
<1>8. QED  BY <1>1, <1>5, <1>6, <1>7 DEF IInv, StepOK

LEMMA ArrivesKeeps == ASSUME IInv, NEW c \in Calls, AnswerArrives(c) PROVE IInv'
<1> DEFINE key == KeyOf(c, req[c].stage)
           e == req[c].got
<1>1. StepOK
  BY ArrivesStep
<1>2. /\ cache' = [cache EXCEPT ![key] = [val |-> e, until |-> now + Ttl]]
      /\ last' = [last EXCEPT ![key] = e]
      /\ UNCHANGED <<now, rights, offSince, told, ready, events>> /\ req[c].pc = "served"
  BY DEF AnswerArrives, portal
<1>3. /\ Fit(req[c]) /\ Aged(req[c]) /\ req[c] \in ReqRec /\ now \in Nat
      /\ cache \in Caches /\ last \in [Keys -> Answers] /\ offSince \in [Rights -> Nat \cup {NONE}]
  BY TypesOf DEF IInv, ReqsOK
<1>4. e \in SUBSET Rights /\ key \in Keys
  BY <1>2, <1>3, ProperOf DEF Fit
<1> HIDE DEF key
<1>5. /\ cache' \in Caches /\ last' \in [Keys -> Answers]
      /\ \A k \in Keys \ {key} : cache'[k] = cache[k] /\ last'[k] = last[k]
      /\ cache'[key].val = e /\ cache'[key].until = now + Ttl /\ last'[key] = e
  BY <1>2, <1>3, <1>4, AccessAssumption DEF Caches, Answers
<1>6. TypeOK'
  BY <1>1, <1>2, <1>5, TypesOf DEF IInv, StepOK, ReqsOK, TypeOK, ReqRec, Caches, Answers
<1>7. RightsInv'
  BY <1>2 DEF IInv, RightsInv
<1>8. CacheInv'
  <2>1. \A x \in e : offSince[x] = NONE \/ now + Ttl <= offSince[x] + Ttl + Wait
    <3>1. TAKE x \in e
    <3>2. offSince[x] = NONE \/ req[c].since <= offSince[x]
      BY <1>2, <1>3 DEF Aged
    <3>3. now <= req[c].since + Wait /\ req[c].since \in Nat /\ offSince[x] \in Nat \cup {NONE}
      BY <1>2, <1>3, <1>4 DEF Fit, ReqRec
    <3>4. QED  BY <1>3, <3>2, <3>3, AccessAssumption
  <2>2. SUFFICES ASSUME NEW k \in Keys, cache'[k].val # NONE
        PROVE  /\ cache'[k].until <= now + Ttl
               /\ \A x \in cache'[k].val : offSince[x] = NONE \/ cache'[k].until <= offSince[x] + Ttl + Wait
    BY <1>2 DEF CacheInv
  <2>3. CASE k = key
    BY <1>3, <1>5, <2>1, <2>3, AccessAssumption
  <2>4. CASE k # key
    BY <1>5, <2>2, <2>4 DEF IInv, CacheInv
  <2>5. QED  BY <2>3, <2>4
<1>9. ToldInv'
  <2>1. SUFFICES ASSUME NEW x \in Rights, told[x] = "clean"
        PROVE  /\ x \notin rights
               /\ \A d \in Calls : req'[d].pc = "served" => x \notin req'[d].got
               /\ \A k \in Keys : /\ cache'[k].val # NONE => x \notin cache'[k].val
                                  /\ last'[k] # NONE => x \notin last'[k]
    BY <1>2 DEF ToldInv
  <2>2. x \notin e /\ x \notin rights
    BY <1>2, <2>1 DEF IInv, ToldInv
  <2>3. \A d \in Calls : req'[d].pc = "served" => x \notin req'[d].got
    BY <1>1, <2>1 DEF StepOK, IInv, ToldInv
  <2>4. \A k \in Keys : /\ cache'[k].val # NONE => x \notin cache'[k].val
                        /\ last'[k] # NONE => x \notin last'[k]
    BY <1>5, <2>1, <2>2 DEF IInv, ToldInv
  <2>5. QED  BY <2>2, <2>3, <2>4
<1>10. QED  BY <1>1, <1>6, <1>7, <1>8, <1>9 DEF IInv, StepOK

LEMMA ServedKeeps == ASSUME IInv, NEW c \in Calls, AnswerServed(c) PROVE IInv'
<1>1. /\ ReqsOK'
      /\ \A d \in Calls : req'[d].pc = "served" => req'[d].got = rights \/ req'[d] = req[d]
  BY ServedStep
<1>2. UNCHANGED <<now, rights, offSince, told, cache, last, ready, events>>
  BY DEF AnswerServed, portal, tables
<1>3. TypeOK'
  BY <1>1, <1>2, TypesOf DEF IInv, ReqsOK, TypeOK, ReqRec, Answers
<1>4. RightsInv' /\ CacheInv'
  BY <1>2 DEF IInv, RightsInv, CacheInv
<1>5. ToldInv'
  BY <1>1, <1>2 DEF IInv, ToldInv
<1>6. QED  BY <1>1, <1>3, <1>4, <1>5 DEF IInv

LEMMA WithdrawKeeps == ASSUME IInv, NEW x \in Rights, Withdraw(x) PROVE IInv'
<1>1. /\ x \in rights /\ rights' = rights \ {x} /\ offSince' = [offSince EXCEPT ![x] = now]
      /\ events' = events + 1 /\ UNCHANGED <<now, told, cache, last, ready, req>>
  BY DEF Withdraw, Event, tables
<1>2. /\ now \in Nat /\ events \in Nat /\ offSince \in [Rights -> Nat \cup {NONE}]
      /\ cache \in Caches /\ now # NONE
  BY TypesOf, AccessAssumption DEF IInv
<1>3. \A y \in Rights : offSince'[y] = IF y = x THEN now ELSE offSince[y]
  BY <1>1, <1>2
<1>4. TypeOK'
  BY <1>1, <1>2, TypesOf DEF IInv, TypeOK, ReqRec, Caches, Answers
<1>5. RightsInv'
  BY <1>1, <1>2, <1>3 DEF IInv, RightsInv
<1>6. ReqsOK'
  <2>1. SUFFICES ASSUME NEW c \in Calls PROVE Aged(req[c])'
    BY <1>1 DEF IInv, ReqsOK, Fit, AfterTold, Safe
  <2>2. Fit(req[c]) /\ Aged(req[c]) /\ req[c] \in ReqRec
    BY DEF IInv, ReqsOK
  <2>3. QED  BY <1>1, <1>2, <1>3, <2>2 DEF Fit, Aged, ReqRec
<1>7. CacheInv'
  <2>1. SUFFICES ASSUME NEW k \in Keys, cache[k].val # NONE, NEW y \in cache[k].val
                 PROVE  offSince'[y] = NONE \/ cache[k].until <= offSince'[y] + Ttl + Wait
    BY <1>1 DEF CacheInv, IInv
  <2>2. cache[k].until \in Nat /\ y \in Rights /\ cache[k].until <= now + Ttl
    BY <1>2, <2>1 DEF Caches, Answers, IInv, CacheInv
  <2>3. CASE y = x
    BY <1>2, <1>3, <2>2, <2>3, AccessAssumption
  <2>4. CASE y # x
    BY <1>3, <2>1, <2>2, <2>4 DEF IInv, CacheInv
  <2>5. QED  BY <2>3, <2>4
<1>8. ToldInv'
  BY <1>1 DEF IInv, ToldInv
<1>9. QED  BY <1>4, <1>5, <1>6, <1>7, <1>8 DEF IInv

LEMMA GrantKeeps == ASSUME IInv, NEW x \in Rights, Grant(x) PROVE IInv'
<1>1. /\ rights' = rights \cup {x} /\ offSince' = [offSince EXCEPT ![x] = NONE]
      /\ told' = [told EXCEPT ![x] = "no"]
      /\ req' = [c \in Calls |-> [req[c] EXCEPT !.after = @ \ {x}]]
      /\ events' = events + 1 /\ UNCHANGED <<now, cache, last, ready>>
  BY DEF Grant, Event, tables
<1>2. /\ events \in Nat /\ offSince \in [Rights -> Nat \cup {NONE}] /\ rights \subseteq Rights
      /\ told \in [Rights -> {"no", "clean", "overlapped"}] /\ req \in [Calls -> ReqRec]
  BY TypesOf DEF IInv
<1>3. /\ \A y \in Rights : offSince'[y] = IF y = x THEN NONE ELSE offSince[y]
      /\ \A y \in Rights : told'[y] = IF y = x THEN "no" ELSE told[y]
  BY <1>1, <1>2
<1>4. \A c \in Calls :
        /\ req'[c] \in ReqRec /\ req'[c].after = req[c].after \ {x}
        /\ req'[c].pc = req[c].pc /\ req'[c].tok = req[c].tok /\ req'[c].target = req[c].target
        /\ req'[c].got = req[c].got /\ req'[c].since = req[c].since /\ req'[c].have = req[c].have
  BY <1>1, <1>2 DEF ReqRec
<1>5. req' \in [Calls -> ReqRec]
  BY <1>1, <1>4
<1>6. TypeOK'
  <2>1. /\ offSince' \in [Rights -> Nat \cup {NONE}] /\ rights' \subseteq Rights
        /\ told' \in [Rights -> {"no", "clean", "overlapped"}] /\ events' \in Nat
    BY <1>1, <1>2
  <2>2. now' \in Nat /\ cache' \in Caches /\ last' \in [Keys -> Answers] /\ ready' \in BOOLEAN
    BY <1>1, TypesOf DEF IInv
  <2>3. QED  BY <1>5, <2>1, <2>2 DEF TypeOK, ReqRec, Caches, Answers
<1>7. RightsInv'
  BY <1>1, <1>2, <1>3 DEF IInv, RightsInv
<1>8. ReqsOK'
  <2>1. SUFFICES ASSUME NEW c \in Calls
                 PROVE  Fit(req[c])' /\ Aged(req[c])' /\ AfterTold(req[c])' /\ Safe(req[c])'
    BY <1>5 DEF ReqsOK
  <2>2. Fit(req[c]) /\ Aged(req[c]) /\ AfterTold(req[c]) /\ Safe(req[c])
    BY DEF IInv, ReqsOK
  <2>3. Fit(req[c])'
    BY <1>1, <1>4, <2>2 DEF Fit
  <2>4. Aged(req[c])'
    BY <1>3, <1>4, <2>2 DEF Aged, Fit
  <2>5. AfterTold(req[c])' /\ Safe(req[c])'
    BY <1>2, <1>3, <1>4, <2>2 DEF AfterTold, Safe, ReqRec
  <2>6. QED  BY <2>3, <2>4, <2>5
<1>9. CacheInv'
  BY <1>1, <1>2, <1>3, TypesOf DEF IInv, CacheInv, Caches, Answers
<1>10. ToldInv'
  BY <1>1, <1>3, <1>4 DEF IInv, ToldInv
<1>11. QED  BY <1>6, <1>7, <1>8, <1>9, <1>10 DEF IInv

LEMMA AnnounceKeeps == ASSUME IInv, Announce PROVE IInv'
<1>1. /\ told' = [x \in Rights |-> IF x \in rights THEN "no"
                                   ELSE IF Overlapped(x) THEN "overlapped" ELSE "clean"]
      /\ cache' = [k \in Keys |-> [val |-> NONE, until |-> 0]]
      /\ last' = [k \in Keys |-> NONE]
      /\ events' = events + 1 /\ UNCHANGED <<now, rights, offSince, ready, req>>
  BY DEF Announce, Telling, Event
<1>2. NONE \in Answers /\ 0 \in Nat /\ events \in Nat
  BY TypesOf DEF IInv, Answers
<1>3. cache' \in Caches /\ last' \in [Keys -> Answers]
  BY <1>1, <1>2 DEF Caches
<1>4. TypeOK'
  BY <1>1, <1>2, <1>3, TypesOf DEF IInv, TypeOK, ReqRec, Caches, Answers
<1>5. RightsInv' /\ CacheInv'
  BY <1>1 DEF IInv, RightsInv, CacheInv
<1>6. \A x \in Rights : told[x] = "clean" => told'[x] = "clean"
  BY <1>1 DEF IInv, ToldInv, Overlapped
<1>7. ReqsOK'
  <2>1. SUFFICES ASSUME NEW c \in Calls PROVE AfterTold(req[c])'
    BY <1>1 DEF IInv, ReqsOK, Fit, Aged, Safe
  <2>2. AfterTold(req[c]) /\ req[c] \in ReqRec
    BY DEF IInv, ReqsOK
  <2>3. QED  BY <1>1, <1>6, <2>2 DEF AfterTold, ReqRec
<1>8. ToldInv'
  BY <1>1 DEF ToldInv, Overlapped
<1>9. QED  BY <1>4, <1>5, <1>7, <1>8 DEF IInv

LEMMA TickKeeps == ASSUME IInv, Tick PROVE IInv'
<1>1. /\ now' = now + 1
      /\ \A c \in Calls : req[c].pc \in {"ask", "served"} => now - req[c].since < Wait
      /\ cache' = [k \in Keys |-> IF cache[k].until > now + 1 THEN cache[k]
                                  ELSE [val |-> NONE, until |-> 0]]
      /\ UNCHANGED <<rights, offSince, told, last, ready, req, events>>
  BY DEF Tick, portal
<1>2. /\ now \in Nat /\ cache \in Caches /\ NONE \in Answers /\ req \in [Calls -> ReqRec]
      /\ offSince \in [Rights -> Nat \cup {NONE}]
  BY TypesOf DEF IInv, Answers
<1>3. cache' \in Caches /\ \A k \in Keys : cache'[k].val # NONE => cache'[k] = cache[k]
  BY <1>1, <1>2 DEF Caches
<1>4. TypeOK'
  BY <1>1, <1>2, <1>3, TypesOf DEF IInv, TypeOK, ReqRec, Caches, Answers
<1>5. RightsInv'
  BY <1>1, <1>2 DEF IInv, RightsInv
<1>6. ReqsOK'
  <2>1. SUFFICES ASSUME NEW c \in Calls PROVE Fit(req[c])'
    BY <1>1 DEF IInv, ReqsOK, Aged, AfterTold, Safe
  <2>2. Fit(req[c]) /\ req[c] \in ReqRec
    BY DEF IInv, ReqsOK
  <2>3. req[c].since \in Nat
    BY <2>2 DEF ReqRec
  <2>4. QED  BY <1>1, <1>2, <2>2, <2>3, AccessAssumption DEF Fit
<1>7. CacheInv'
  <2>1. SUFFICES ASSUME NEW k \in Keys, cache'[k].val # NONE
                 PROVE  cache'[k] = cache[k] /\ cache[k].until <= now + 1 + Ttl
    BY <1>1, <1>3 DEF IInv, CacheInv
  <2>2. cache'[k] = cache[k] /\ cache[k].until \in Nat /\ cache[k].until <= now + Ttl
    BY <1>2, <1>3, <2>1 DEF IInv, CacheInv, Caches
  <2>3. QED  BY <1>2, <2>2, AccessAssumption
<1>8. ToldInv'
  BY <1>1, <1>3 DEF IInv, ToldInv
<1>9. QED  BY <1>4, <1>5, <1>6, <1>7, <1>8 DEF IInv

LEMMA PolicyKeeps == ASSUME IInv, PolicyArrives PROVE IInv'
<1>1. ready' \in BOOLEAN /\ UNCHANGED <<now, portal, cache, last, req, events>>
  BY DEF PolicyArrives
<1>2. TypeOK'
  BY <1>1, TypesOf DEF IInv, TypeOK, portal, ReqRec, Caches, Answers
<1>3. RightsInv' /\ ReqsOK' /\ CacheInv' /\ ToldInv'
  BY <1>1 DEF IInv, RightsInv, ReqsOK, CacheInv, ToldInv, portal, Fit, Aged, AfterTold, Safe
<1>4. QED  BY <1>2, <1>3 DEF IInv

LEMMA StutterKeeps == ASSUME IInv, UNCHANGED vars PROVE IInv'
<1>1. UNCHANGED <<now, rights, offSince, told, cache, last, ready, req, events>>
  BY DEF vars, portal, tables
<1>2. TypeOK'
  BY <1>1, TypesOf DEF IInv, TypeOK, ReqRec, Caches, Answers
<1>3. RightsInv' /\ ReqsOK' /\ CacheInv' /\ ToldInv'
  BY <1>1 DEF IInv, RightsInv, ReqsOK, CacheInv, ToldInv, Fit, Aged, AfterTold, Safe
<1>4. QED  BY <1>2, <1>3 DEF IInv

LEMMA InitHolds == Init => IInv
<1>0. SUFFICES ASSUME Init PROVE IInv
  OBVIOUS
<1>1. NONE \in Answers /\ Idle \in ReqRec /\ Idle.pc = "idle" /\ Idle.got = NONE /\ Idle.after = {}
  BY IdleContinues DEF Answers, Continues, Idle
<1>2. now = 0 /\ events = 0 /\ rights = Rights /\ offSince = [x \in Rights |-> NONE]
  BY <1>0 DEF Init
<1>3. told = [x \in Rights |-> "no"] /\ ready \in BOOLEAN /\ req = [c \in Calls |-> Idle]
  BY <1>0 DEF Init
<1>4. cache = [k \in Keys |-> [val |-> NONE, until |-> 0]] /\ last = [k \in Keys |-> NONE]
  BY <1>0 DEF Init
<1>5. cache \in Caches /\ last \in [Keys -> Answers] /\ req \in [Calls -> ReqRec]
  BY <1>1, <1>3, <1>4 DEF Caches
<1>6. TypeOK
  BY <1>2, <1>3, <1>5, TypesOf
<1>7. RightsInv
  BY <1>2 DEF RightsInv
<1>8. CacheInv /\ ToldInv
  BY <1>3, <1>4 DEF CacheInv, ToldInv
<1>9. ReqsOK
  BY <1>1, <1>3, <1>5 DEF ReqsOK, Fit, Aged, AfterTold, Safe
<1>10. QED  BY <1>6, <1>7, <1>8, <1>9 DEF IInv

LEMMA NextKeeps == IInv /\ [Next]_vars => IInv'
<1>0. SUFFICES ASSUME IInv, [Next]_vars PROVE IInv'
  OBVIOUS
<1>1. ASSUME NEW c \in Calls, Begin(c) PROVE IInv'
  BY <1>0, <1>1, BeginStep, TablesAlone DEF Begin
<1>2. ASSUME NEW c \in Calls, AnswerServed(c) PROVE IInv'
  BY <1>0, <1>2, ServedKeeps
<1>3. ASSUME NEW c \in Calls, AnswerArrives(c) PROVE IInv'
  BY <1>0, <1>3, ArrivesKeeps
<1>4. ASSUME NEW c \in Calls, AnswerUnknown(c) PROVE IInv'
  BY <1>0, <1>4, UnknownKeeps
<1>5. ASSUME NEW c \in Calls, AnswerFails(c) PROVE IInv'
  BY <1>0, <1>5, FailsStep, TablesAlone DEF AnswerFails
<1>6. ASSUME NEW c \in Calls, Handle(c) PROVE IInv'
  BY <1>0, <1>6, HandleStep, TablesAlone DEF Handle
<1>7. ASSUME NEW c \in Calls, Minted(c) PROVE IInv'
  BY <1>0, <1>7, MintedStep, TablesAlone DEF Minted
<1>8. ASSUME NEW c \in Calls, Ends(c) PROVE IInv'
  BY <1>0, <1>8, EndsStep, TablesAlone DEF Ends
<1>9. ASSUME Outside PROVE IInv'
  BY <1>0, <1>9, WithdrawKeeps, GrantKeeps, AnnounceKeeps, PolicyKeeps, TickKeeps DEF Outside
<1>10. CASE UNCHANGED vars
  BY <1>0, <1>10, StutterKeeps
<1>11. QED
  BY <1>0, <1>1, <1>2, <1>3, <1>4, <1>5, <1>6, <1>7, <1>8, <1>9, <1>10 DEF Next

LEMMA Invariant == Spec => []IInv
  BY InitHolds, NextKeeps, PTL DEF Spec

-----------------------------------------------------------------------------
(* What is shown                                                           *)

(* The types (TypeOK) of requests, answers and the tables that keep them   *)
(* hold always.                                                            *)
THEOREM TypeCorrect == Spec => []TypeOK
<1>1. IInv => TypeOK
  BY DEF IInv
<1>2. QED  BY Invariant, <1>1, PTL

(* After a loss that was announced while no older answer was under way, no *)
(* later request has the right, except by the words of its token           *)
(* (/conn-invalidate; ToldIsForgotten).  How long an answer that was under *)
(* way at the time is used, OnlyPresent bounds.                            *)
THEOREM ToldForgotten == Spec => []ToldIsForgotten
<1>1. IInv => ToldIsForgotten
  BY DEF IInv, ReqsOK, Safe, ToldIsForgotten
<1>2. QED  BY Invariant, <1>1, PTL

(* The mark of an administrator and the affiliation come only from an      *)
(* answer that is not older than it may be kept and travel                 *)
(* (_portal_access; PresentOnly).                                          *)
THEOREM OnlyPresent == Spec => PresentOnly
<1>1. ASSUME IInv, [Next]_vars, NEW c \in Calls, NEW x \in {"admin", "aff"},
             x \in req'[c].have \ req[c].have
      PROVE  Fresh(x)
  <2>1. ASSUME NEW d \in Calls,
               \/ Begin(d) \/ AnswerArrives(d) \/ AnswerUnknown(d) \/ AnswerFails(d)
               \/ Handle(d) \/ Minted(d) \/ Ends(d)
        PROVE  StepOK
    BY <1>1, <2>1, BeginStep, ArrivesStep, UnknownStep, FailsStep, HandleStep, MintedStep, EndsStep
  <2>2. ASSUME NEW d \in Calls, AnswerServed(d) PROVE req'[c].have = req[c].have
    BY <1>1, <2>2, ServedStep
  <2>3. ASSUME NEW y \in Rights, Grant(y) PROVE req'[c].have = req[c].have
    <3>1. req[c] \in ReqRec /\ req' = [d \in Calls |-> [req[d] EXCEPT !.after = @ \ {y}]]
      BY <1>1, <2>3 DEF Grant, IInv, ReqsOK
    <3>2. QED  BY <3>1 DEF ReqRec
  <2>4. CASE \/ \E y \in Rights : Withdraw(y)
             \/ Announce \/ PolicyArrives \/ Tick \/ UNCHANGED vars
    BY <1>1, <2>4 DEF Withdraw, Announce, PolicyArrives, Tick, vars
  <2>5. QED  BY <1>1, <2>1, <2>2, <2>3, <2>4 DEF StepOK, Next, Outside
<1>2. IInv /\ [Next]_vars =>
        [\A c \in Calls, x \in {"admin", "aff"} :
            x \in req'[c].have \ req[c].have
            => offSince[x] = NONE \/ now - offSince[x] < Ttl + Wait]_vars
  BY <1>1 DEF Fresh
<1>3. QED  BY Invariant, <1>2, PTL DEF Spec, PresentOnly

-----------------------------------------------------------------------------
(***************************************************************************)
(* One request (CallRules), for any backends, sites, tools, credentials    *)
(* and tables.  What an answer says follows from how it was made, so the   *)
(* invariant is that it was made by the code for this credential: whoever  *)
(* is answered is who came in.                                             *)
(***************************************************************************)

Users == {"own", "other", NONE}
Views == {"full", "light", "bundle"}
Lookup(off, view) ==
    [v |-> "list", tools |-> ListedTools(hdr, off, view), res |-> ListedResources(hdr, off)]

(* The answer to what was asked.                                           *)
AnswerOK ==
    \/ /\ asked.how \in {"direct", "invoke"} /\ asked.site = NONE /\ asked.method = "GET"
       /\ asked.name \in Names \ {<<NONE, "rest_call">>}
       /\ asked.how = "direct" => asked.name # <<NONE, "invoke_tool">>
       /\ out = Call(hdr, asked.name, asked.how = "invoke", NONE, "GET")
    \/ /\ asked.how \in {"direct", "invoke"} /\ asked.site \in Sites /\ asked.method \in Methods
       /\ asked.name = <<NONE, "rest_call">>
       /\ out = Call(hdr, asked.name, asked.how = "invoke", asked.site, asked.method)
    \/ /\ asked.how = "resource" /\ asked.site \in Backends /\ asked.method = "GET"
       /\ out = Resource(hdr, asked.site)
    \/ /\ asked.how = "list" /\ asked.site = NONE
       /\ \E off \in SUBSET Backends, view \in Views : out = Lookup(off, view)
    \/ /\ asked.how = "bridge" /\ asked.site \in Sites /\ asked.method \in Methods
       /\ cred.kind = "pat" /\ cred.marks = {}
       /\ out = Bridge(cred, asked.site, asked.method)

CallInv ==
    /\ world \in Worlds /\ pc \in {"idle", "in", "done"}
    /\ pc # "idle" => cred \in Creds /\ hdr = Forwarded(cred)
    /\ pc = "done" => AnswerOK

(* Nothing but the tables is looked at.                                    *)
LEMMA SameTables ==
    ASSUME UNCHANGED world
    PROVE  /\ \A h, n, i, s, m : (Call(h, n, i, s, m))' = Call(h, n, i, s, m)
           /\ \A h, k : (Resource(h, k))' = Resource(h, k)
           /\ \A h, off : \A view \in Views : (ListedTools(h, off, view))' = ListedTools(h, off, view)
           /\ \A h, off : (ListedResources(h, off))' = ListedResources(h, off)
           /\ \A c, s, m : (Bridge(c, s, m))' = Bridge(c, s, m)
<1>1. \A n : (Tool(n))' = Tool(n)
  BY DEF Tool
<1>2. \A n : (IsLocal(n))' = IsLocal(n)
  BY DEF IsLocal, LocalTools
<1>3. \A h, k : (OpenTo(h, k))' = OpenTo(h, k)
  BY DEF OpenTo
<1>4. \A h, k : (AsWhom(h, k))' = AsWhom(h, k)
  BY DEF AsWhom
<1>5. \A h, n : (PanelDenies(h, n))' = PanelDenies(h, n) /\ (Destructive(h, n))' = Destructive(h, n)
  BY <1>1, <1>2 DEF PanelDenies, Destructive, Original
<1>6. \A n, m : (ReaderDenies(n, m))' = ReaderDenies(n, m)
  BY <1>1, <1>2 DEF ReaderDenies
<1>7. \A h, n, s, m : (Dispatch(h, n, s, m))' = Dispatch(h, n, s, m)
  <2>1. \A h, s, m : (RestCall(h, s, m))' = RestCall(h, s, m)
    BY <1>3 DEF RestCall
  <2>2. TAKE h, n, s, m
  <2>3. /\ (Tool(n))' = Tool(n) /\ (IsLocal(n))' = IsLocal(n) /\ (RestCall(h, s, m))' = RestCall(h, s, m)
        /\ (OpenTo(h, Tool(n)[1]))' = OpenTo(h, Tool(n)[1])
        /\ (AsWhom(h, Tool(n)[1]))' = AsWhom(h, Tool(n)[1])
    BY <1>1, <1>2, <1>3, <1>4, <2>1
  <2>4. QED  BY <2>3 DEF Dispatch
<1>8. \A h, n, i, s, m : (Call(h, n, i, s, m))' = Call(h, n, i, s, m)
  <2>1. TAKE h, n, i, s, m
  <2>2. QED  BY <1>5, <1>6, <1>7 DEF Call
<1>9. \A h, k : (Resource(h, k))' = Resource(h, k)
  BY <1>3, <1>4 DEF Resource
<1>10. \A h, off : (VisibleTools(h, off))' = VisibleTools(h, off)
  BY <1>3 DEF VisibleTools
<1>11. \A p : (ListedAs(p))' = ListedAs(p)
  BY DEF ListedAs
<1>12. \A h, off : \A view \in Views : (ListedTools(h, off, view))' = ListedTools(h, off, view)
  <2>1. TAKE h, off
  <2>7. TAKE view \in Views
  <2>2. CASE h.panel # NONE
    BY <1>5, <1>10, <1>11, <2>2 DEF ListedTools, LocalTools
  <2>3. CASE h.panel = NONE /\ view = "full"
    BY <1>10, <1>11, <2>3 DEF ListedTools, LocalTools
  <2>5. CASE h.panel = NONE /\ view = "light"
    BY <1>10, <1>11, <2>5 DEF ListedTools, LocalTools
  <2>6. CASE h.panel = NONE /\ view = "bundle"
    BY <1>10, <1>11, <2>6 DEF ListedTools, LocalTools
  <2>4. QED  BY <2>2, <2>3, <2>5, <2>6 DEF Views
<1>13. \A h, off : (ListedResources(h, off))' = ListedResources(h, off)
  BY <1>3 DEF ListedResources
<1>14. \A c, s, m : (Bridge(c, s, m))' = Bridge(c, s, m)
  BY DEF Bridge
<1>15. QED  BY <1>8, <1>9, <1>12, <1>13, <1>14

LEMMA CallInvInductive ==
    /\ CallInit => CallInv
    /\ CallInv /\ [CallNext]_callVars => CallInv'
<1>1. CallInit => CallInv
  BY DEF CallInit, CallInv
<1>2. ASSUME CallInv, [CallNext]_callVars PROVE CallInv'
  <2>1. ASSUME NEW c \in Creds, Arrives(c) PROVE CallInv'
    BY <1>2, <2>1 DEF Arrives, CallInv, Forwarded, Kept, Dropped, IsPanel
  <2>2. ASSUME NEW n \in Names, NEW how \in {"direct", "invoke"}, CallsTool(n, how) PROVE CallInv'
    <3>1. /\ asked' = [how |-> how, name |-> n, site |-> NONE, method |-> "GET"]
          /\ out' = Call(hdr, n, how = "invoke", NONE, "GET")
          /\ n # <<NONE, "rest_call">> /\ (how = "direct" => n # <<NONE, "invoke_tool">>)
          /\ hdr' = hdr /\ world' = world
      BY <2>2 DEF CallsTool, Answered
    <3>2. AnswerOK'
      BY <3>1, SameTables DEF AnswerOK
    <3>3. QED  BY <1>2, <2>2, <3>2 DEF CallInv, CallsTool, Answered, Forwarded, Kept, Dropped, IsPanel
  <2>3. ASSUME NEW s \in Sites, NEW m \in Methods, NEW how \in {"direct", "invoke"},
               CallsRest(s, m, how)
        PROVE  CallInv'
    <3>1. /\ asked' = [how |-> how, name |-> <<NONE, "rest_call">>, site |-> s, method |-> m]
          /\ out' = Call(hdr, <<NONE, "rest_call">>, how = "invoke", s, m)
          /\ hdr' = hdr /\ world' = world
      BY <2>3 DEF CallsRest, Answered
    <3>2. AnswerOK'
      BY <3>1, SameTables DEF AnswerOK
    <3>3. QED  BY <1>2, <2>3, <3>2 DEF CallInv, CallsRest, Answered, Forwarded, Kept, Dropped, IsPanel
  <2>4. ASSUME NEW k \in Backends, ReadsResource(k) PROVE CallInv'
    <3>1. /\ asked' = [how |-> "resource", name |-> NONE, site |-> k, method |-> "GET"]
          /\ out' = Resource(hdr, k) /\ hdr' = hdr /\ world' = world
      BY <2>4 DEF ReadsResource, Answered
    <3>2. AnswerOK'
      BY <3>1, SameTables DEF AnswerOK
    <3>3. QED  BY <1>2, <2>4, <3>2 DEF CallInv, ReadsResource, Answered, Forwarded, Kept, Dropped, IsPanel
  <2>5. ASSUME NEW muted \in {{}} \cup {{k} : k \in Backends}, NEW v \in Views, Lists(muted, v)
        PROVE  CallInv'
    <3>1. PICK off \in SUBSET Backends, view \in Views :
              /\ asked' = [how |-> "list", name |-> NONE, site |-> NONE, method |-> "GET"]
              /\ out' = Lookup(off, view) /\ hdr' = hdr /\ world' = world
      BY <2>5 DEF Lists, Answered, Lookup, Views
    <3>2. AnswerOK'
      BY <3>1, SameTables DEF AnswerOK, Lookup
    <3>3. QED  BY <1>2, <2>5, <3>2 DEF CallInv, Lists, Answered, Forwarded, Kept, Dropped, IsPanel
  <2>6. ASSUME NEW c \in Creds, NEW s \in Sites, NEW m \in Methods, Bridges(c, s, m) PROVE CallInv'
    <3>1. /\ asked' = [how |-> "bridge", name |-> NONE, site |-> s, method |-> m]
          /\ c.kind = "pat" /\ c.marks = {} /\ cred' = c
          /\ out' = Bridge(c, s, m) /\ world' = world
      BY <2>6 DEF Bridges
    <3>2. AnswerOK'
      BY <3>1, SameTables DEF AnswerOK
    <3>3. QED  BY <1>2, <2>6, <3>2 DEF CallInv, Bridges, Forwarded, Kept, Dropped, IsPanel
  <2>7. CASE Done
    BY <1>2, <2>7 DEF Done, CallInv
  <2>8. CASE UNCHANGED callVars
    <3>1. pc = "done" => AnswerOK'
      BY <1>2, <2>8, SameTables DEF callVars, CallInv, AnswerOK, Lookup
    <3>2. QED  BY <1>2, <2>8, <3>1 DEF callVars, CallInv, Forwarded, Kept, Dropped, IsPanel
  <2>9. QED
    BY <1>2, <2>1, <2>2, <2>3, <2>4, <2>5, <2>6, <2>7, <2>8 DEF CallNext, Views
<1>3. QED  BY <1>1, <1>2

(* What the gate forwards says of the credential.                          *)
LEMMA HeadersTell ==
    ASSUME NEW c \in Creds
    PROVE  /\ Forwarded(c).user \in Users /\ (c.kind = "pat" => Forwarded(c).user # "other")
           /\ Forwarded(c).panel = IF c.marks = {} THEN NONE ELSE c.app
           /\ c.app # NONE
           /\ Forwarded(c).reader <=> c.kind = "pat" /\ c.reader
           /\ Forwarded(c).procedure => c.kind = "pat" /\ c.procedure
  BY CallAssumption, RulesAssumption DEF Forwarded, Kept, Dropped, IsPanel, Users

(* A name stands for a tool of a backend, or for one of the gateway.       *)
LEMMA NamesStand ==
    ASSUME world \in Worlds, NEW n
    PROVE  /\ Tool(n) # NONE => Tool(n) \in Tools
           /\ Tool(n) \in Tools => Tool(n)[1] \in Backends /\ Tool(n)[1] # NONE
           /\ IsLocal(n) => n \notin Tools
           /\ n \in Names /\ n[1] = NONE => n = <<NONE, n[2]>>
<1>1. \A p \in Tools : p[1] \in Backends /\ p[1] # NONE
  BY CallAssumption, RulesAssumption
<1>2. Tool(n) # NONE => Tool(n) \in Tools
  BY CallAssumption DEF Tool
<1>3. n \in Names /\ n[1] = NONE => n = <<NONE, n[2]>>
  BY <1>1 DEF Names
<1>4. QED  BY <1>1, <1>2, <1>3 DEF IsLocal

(* What has passed all the refusals of _call_tool_body.                    *)
LEMMA CallGives ==
    ASSUME world \in Worlds, NEW h, NEW n, NEW i \in BOOLEAN, NEW s, NEW m,
           NEW o, o = Call(h, n, i, s, m), o.v = "yes"
    PROVE  /\ h.panel # NONE => /\ ~i /\ ~IsLocal(n) /\ Tool(n)[1] = h.panel
                                /\ Tool(n)[2] \notin Exact \cup Tasks
           /\ i => n # <<NONE, "invoke_tool">> /\ ~Destructive(h, n)
           /\ h.reader => ~ReaderDenies(n, m)
           /\ ~IsLocal(n) => /\ Tool(n) \in Tools /\ AsWhom(h, Tool(n)[1]) # NONE
                             /\ o = Yes(Tool(n), AsWhom(h, Tool(n)[1]))
<1> DEFINE given == IF i THEN <<NONE, "invoke_tool">> ELSE n
<1>1. \A why : No(why).v # "yes"
  BY DEF No
<1>2. /\ ~PanelDenies(h, given) /\ (h.reader => ~ReaderDenies(n, m))
      /\ i => n # <<NONE, "invoke_tool">> /\ ~Destructive(h, n)
      /\ o = Dispatch(h, n, s, m)
  BY <1>1 DEF Call
<1>3. h.panel # NONE => /\ ~i /\ ~IsLocal(n) /\ Tool(n)[1] = h.panel
                        /\ Tool(n)[2] \notin Exact \cup Tasks
  <2>1. IsLocal(<<NONE, "invoke_tool">>)
    BY DEF IsLocal, LocalTools, Plain
  <2>2. QED  BY <1>2, <2>1 DEF PanelDenies, Original
<1>5. ~IsLocal(n) => /\ Tool(n) \in Tools /\ AsWhom(h, Tool(n)[1]) # NONE
                     /\ o = Yes(Tool(n), AsWhom(h, Tool(n)[1]))
  BY <1>1, <1>2, NamesStand DEF Dispatch
<1>6. QED  BY <1>2, <1>3, <1>5

LEMMA CallsOwn ==
    ASSUME NEW n, IsLocal(n), NEW i \in BOOLEAN, NEW s, NEW m,
           out = Call(hdr, n, i, s, m), out.v = "yes"
    PROVE  /\ n[2] = "rest_call" => out = RestCall(hdr, s, m)
           /\ n[2] # "rest_call" => out = Yes(n, "gateway")
  BY DEF Call, Dispatch, No

LEMMA RestGives ==
    ASSUME NEW h, NEW s, NEW m, NEW o, o = RestCall(h, s, m), o.v = "yes"
    PROVE  /\ m \in AllowedMethods(s) /\ SiteAs(s, h.user) # NONE
           /\ o = Yes(<<s, m>>, SiteAs(s, h.user))
  BY DEF RestCall, No

LEMMA BridgeGives ==
    ASSUME NEW c, NEW s, NEW m, NEW o, o = Bridge(c, s, m), o.v = "yes"
    PROVE  /\ m \in AllowedMethods(s) /\ (c.reader => m = "GET")
           /\ \E user \in {"own", NONE} : /\ SiteAs(s, user) # NONE
                                          /\ o = Yes(<<s, m>>, SiteAs(s, user))
  BY DEF Bridge, No

LEMMA ResourceGives ==
    ASSUME NEW h, NEW k, NEW o, o = Resource(h, k), o.v = "yes"
    PROVE  /\ h.panel # NONE => h.panel = k
           /\ o = Yes(k, IF k \in Delegated \cup Connected /\ h.user # NONE THEN h.user ELSE "service")
           /\ k \in Declared => h.user # NONE
  BY CallAssumption DEF Resource, No

(* A call that reached something: a tool of a backend, one of the gateway, *)
(* or a site.                                                              *)
ToTool ==
    /\ ReachedTool /\ asked.method = "GET"
    /\ ~IsLocal(asked.name) /\ out.what = Tool(asked.name)
    /\ out.as = AsWhom(hdr, out.what[1]) /\ out.as # NONE
    /\ hdr.panel # NONE => out.what[1] = hdr.panel /\ out.what[2] \notin Exact \cup Tasks
    /\ hdr.reader => out.what \in Reads
    /\ asked.how = "invoke" =>
        /\ out.what[2] \notin Front \cup Back
        /\ out.what[2] \in Exact => hdr.procedure

ToGateway ==
    /\ ~ReachedTool /\ asked.how \in {"direct", "invoke"} /\ asked.method = "GET" /\ hdr.panel = NONE
    /\ asked.site = NONE /\ out.as = "gateway"
    /\ hdr.reader => out.what[2] \in LocalRead \cup FigRead

ToSite ==
    /\ ~ReachedTool /\ asked.how \in {"direct", "invoke"} /\ hdr.panel = NONE
    /\ asked.site \in Sites /\ asked.method \in AllowedMethods(asked.site)
    /\ out.as = SiteAs(asked.site, hdr.user) /\ out.as # NONE
    /\ hdr.reader => asked.method = "GET"

ByBridge ==
    /\ ~ReachedTool /\ asked.how = "bridge" /\ cred.kind = "pat" /\ cred.marks = {}
    /\ asked.site \in Sites /\ asked.method \in AllowedMethods(asked.site)
    /\ \E user \in {"own", NONE} : out.as = SiteAs(asked.site, user) /\ out.as # NONE
    /\ cred.reader => asked.method = "GET"

ToResource ==
    /\ ~ReachedTool /\ asked.how = "resource" /\ asked.method = "GET"
    /\ hdr.panel # NONE => out.what = hdr.panel
    /\ out.as = IF out.what \in Delegated \cup Connected /\ hdr.user # NONE THEN hdr.user ELSE "service"
    /\ out.what \in Declared => hdr.user # NONE

LEMMA WhereItEnds ==
    ASSUME CallInv, Reached
    PROVE  ToTool \/ ToGateway \/ ToSite \/ ByBridge \/ ToResource
<1>1. world \in Worlds /\ AnswerOK /\ out.v = "yes" /\ pc = "done" /\ cred \in Creds
  BY DEF Reached, CallInv
<1>2. NONE \notin Sites \cup Backends
  BY CallAssumption, RulesAssumption
<1>0. PICK n : n = asked.name
  OBVIOUS
<1>3. CASE /\ asked.how \in {"direct", "invoke"} /\ asked.site = NONE /\ asked.method = "GET"
           /\ asked.name \in Names \ {<<NONE, "rest_call">>}
           /\ asked.how = "direct" => asked.name # <<NONE, "invoke_tool">>
           /\ out = Call(hdr, asked.name, asked.how = "invoke", NONE, "GET")
  <2>0. PICK i \in BOOLEAN : /\ asked.how = "invoke" => i = TRUE
                            /\ out = Call(hdr, n, i, NONE, "GET")
    <3>1. CASE asked.how = "invoke"
      BY <1>0, <1>3, <3>1, out = Call(hdr, n, TRUE, NONE, "GET")
    <3>2. CASE asked.how # "invoke"
      BY <1>0, <1>3, <3>2, out = Call(hdr, n, FALSE, NONE, "GET")
    <3>3. QED  BY <3>1, <3>2
  <2>1. CASE IsLocal(n)
    <3>1. n = <<NONE, n[2]>> /\ n[2] # "rest_call" /\ n \notin Tools
      BY <1>0, <1>1, <1>3, <2>1, NamesStand DEF IsLocal
    <3>2. /\ hdr.panel = NONE /\ (hdr.reader => ~ReaderDenies(n, "GET"))
          /\ i => n # <<NONE, "invoke_tool">>
          /\ out = Yes(n, "gateway")
      <4>1. hdr.panel = NONE
        BY <1>1, <2>0, <2>1, CallGives
      <4>2. hdr.reader => ~ReaderDenies(n, "GET")
        BY <1>1, <2>0, CallGives
      <4>3. i => n # <<NONE, "invoke_tool">>
        BY <1>1, <2>0, CallGives
      <4>4. out = Yes(n, "gateway")
        BY <1>1, <2>0, <2>1, <3>1, CallsOwn
      <4>5. QED  BY <4>1, <4>2, <4>3, <4>4
    <3>8. n # <<NONE, "invoke_tool">>
      BY <1>0, <1>3, <2>0, <3>2
    <3>3. hdr.reader => n[2] \in LocalRead \cup FigRead
      BY <2>1, <3>1, <3>2, <3>8 DEF ReaderDenies, IsLocal, LocalTools, Plain
    <3>4. ~ReachedTool /\ out.as = "gateway" /\ out.what = n
      BY <3>1, <3>2 DEF Yes, ReachedTool
    <3>5. QED  BY <1>3, <3>2, <3>3, <3>4 DEF ToGateway
  <2>2. CASE ~IsLocal(n)
    <3>1. /\ Tool(n) \in Tools /\ out = Yes(Tool(n), AsWhom(hdr, Tool(n)[1]))
          /\ AsWhom(hdr, Tool(n)[1]) # NONE
      BY <1>1, <2>0, <2>2, CallGives
    <3>2. ReachedTool /\ out.what = Tool(n) /\ out.as = AsWhom(hdr, out.what[1])
      BY <1>3, <3>1 DEF Yes, ReachedTool
    <3>3. /\ hdr.panel # NONE => Tool(n)[1] = hdr.panel /\ Tool(n)[2] \notin Exact \cup Tasks
          /\ asked.how = "invoke" => ~Destructive(hdr, n)
          /\ hdr.reader => ~ReaderDenies(n, "GET")
      BY <1>1, <2>0, <2>2, CallGives
    <3>4. Tool(n) # NONE
      BY <3>1, CallAssumption
    <3>5. hdr.reader => Tool(n) \in Reads
      BY <2>2, <3>3, <3>4 DEF ReaderDenies
    <3>6. asked.how = "invoke" => /\ Tool(n)[2] \notin Front \cup Back
                                  /\ Tool(n)[2] \in Exact => hdr.procedure
      BY <3>3, <3>4 DEF Destructive, Original
    <3>7. QED  BY <1>0, <1>3, <2>2, <3>1, <3>2, <3>3, <3>5, <3>6 DEF ToTool
  <2>3. QED  BY <2>1, <2>2
<1>4. CASE /\ asked.how \in {"direct", "invoke"} /\ asked.site \in Sites /\ asked.method \in Methods
           /\ asked.name = <<NONE, "rest_call">>
           /\ out = Call(hdr, asked.name, asked.how = "invoke", asked.site, asked.method)
  <2>0. PICK i \in BOOLEAN, s \in Sites, m \in Methods :
           s = asked.site /\ m = asked.method /\ out = Call(hdr, n, i, s, m)
    <3>1. CASE asked.how = "invoke"
      BY <1>0, <1>4, <3>1, out = Call(hdr, n, TRUE, asked.site, asked.method)
    <3>2. CASE asked.how # "invoke"
      BY <1>0, <1>4, <3>2, out = Call(hdr, n, FALSE, asked.site, asked.method)
    <3>3. QED  BY <3>1, <3>2
  <2>1. IsLocal(n)
    BY <1>0, <1>4 DEF IsLocal, LocalTools, Plain
  <2>7. n[2] = "rest_call"
    BY <1>0, <1>4
  <2>2. /\ out = RestCall(hdr, s, m) /\ hdr.panel = NONE
        /\ hdr.reader => ~ReaderDenies(n, m)
    <3>1. world \in Worlds /\ out.v = "yes"
      BY <1>1
    <3>2. hdr.panel = NONE
      BY <2>0, <2>1, <3>1, CallGives
    <3>3. hdr.reader => ~ReaderDenies(n, m)
      BY <2>0, <3>1, CallGives
    <3>4. out = RestCall(hdr, s, m)
      BY <2>0, <2>1, <2>7, <3>1, CallsOwn
    <3>5. QED  BY <3>2, <3>3, <3>4
  <2>3. hdr.reader => m = "GET"
    BY <2>1, <2>2, <2>7 DEF ReaderDenies
  <2>4. m \in AllowedMethods(s) /\ SiteAs(s, hdr.user) # NONE /\ out.as = SiteAs(s, hdr.user)
    BY <1>1, <2>2, RestGives DEF Yes
  <2>5. ~ReachedTool
    BY <1>2, <1>4 DEF ReachedTool
  <2>6. QED  BY <1>4, <2>0, <2>2, <2>3, <2>4, <2>5 DEF ToSite
<1>5. CASE /\ asked.how = "resource" /\ asked.site \in Backends /\ asked.method = "GET"
           /\ out = Resource(hdr, asked.site)
  BY <1>1, <1>5, ResourceGives DEF ToResource, ReachedTool, Yes
<1>6. CASE \E off \in SUBSET Backends, view \in Views : out = Lookup(off, view)
  BY <1>1, <1>6 DEF Lookup
<1>7. CASE /\ asked.how = "bridge" /\ asked.site \in Sites /\ asked.method \in Methods
           /\ cred.kind = "pat" /\ cred.marks = {}
           /\ out = Bridge(cred, asked.site, asked.method)
  BY <1>1, <1>2, <1>7, BridgeGives DEF ByBridge, ReachedTool, Yes
<1>8. QED  BY <1>1, <1>3, <1>4, <1>5, <1>6, <1>7 DEF AnswerOK

(* Every answer of a call is what the rules give for the caller and for    *)
(* what was asked (_call_tool_body, RestProxy.handle; CallInv).            *)
THEOREM CallInvariant == CallSpec => []CallInv
  BY CallInvInductive, PTL DEF CallSpec

LEMMA Came == CallInv /\ Reached => cred \in Creds /\ hdr = Forwarded(cred)
  BY DEF CallInv, Reached

(* A token with any mark of a panel reaches one app only, and one for      *)
(* reading nothing that writes, by no name and on no road (_panel_denial,  *)
(* _readonly_denial; NarrowStaysNarrow).                                   *)
THEOREM Narrow == CallSpec => []NarrowStaysNarrow
<1>1. ASSUME CallInv, Reached, cred.marks # {}
      PROVE  \/ asked.how = "resource" /\ out.what = cred.app
             \/ ReachedTool /\ out.what[1] = cred.app /\ out.what[2] \notin Exact \cup Tasks
  <2>1. hdr.panel = cred.app /\ hdr.panel # NONE
    BY <1>1, Came, HeadersTell
  <2>2. QED
    BY <1>1, <2>1, WhereItEnds DEF ToTool, ToGateway, ToSite, ByBridge, ToResource
<1>2. ASSUME CallInv, Reached, cred.kind = "pat", cred.reader
      PROVE  /\ asked.method = "GET"
             /\ ReachedTool => out.what \in Reads
             /\ out.as = "gateway" => out.what[2] \in LocalRead \cup FigRead
  <2>1. hdr.reader
    BY <1>2, Came, HeadersTell
  <2>2. asked.method = "GET" /\ (ReachedTool => out.what \in Reads)
    BY <1>2, <2>1, WhereItEnds DEF ToTool, ToGateway, ToSite, ByBridge, ToResource
  <2>3. out.as = "gateway" => ToGateway
    <3>1. hdr.user \in Users
      BY <1>2, Came, HeadersTell
    <3>2. \A user \in Users, s \in Sites : SiteAs(s, user) \in {"own", "other", "service", "nobody", NONE}
      BY DEF SiteAs, Users
    <3>3. \A k \in Backends : AsWhom(hdr, k) \in {"own", "other", "service", "identity", NONE}
      BY <3>1 DEF AsWhom, Users
    <3>4. ToTool => out.what[1] \in Backends
      BY CallAssumption DEF ToTool, ReachedTool
    <3>5. QED
      BY <1>2, <3>1, <3>2, <3>3, <3>4, WhereItEnds DEF ToTool, ToSite, ByBridge, ToResource, Users
  <2>4. QED  BY <2>1, <2>2, <2>3 DEF ToGateway
<1>3. CallInv => NarrowStaysNarrow
  BY <1>1, <1>2 DEF NarrowStaysNarrow
<1>4. QED  BY CallInvariant, <1>3, PTL

(* Through invoke_tool nobody comes to a destructive tool under any of its *)
(* names, and only a procedure that the portal vouches for to the exact    *)
(* list (_call_tool_body, _bearer_gate; NoDetour).                         *)
THEOREM Undetoured == CallSpec => []NoDetour
<1>1. CallInv => NoDetour
  BY WhereItEnds, Came, HeadersTell DEF ToTool, ToGateway, ToSite, ByBridge, ToResource, NoDetour, ReachedTool
<1>2. QED  BY CallInvariant, <1>1, PTL

(* A backend of people is called in the person's own name or not at all,   *)
(* and nobody speaks for someone else with a token (AsWhom,                *)
(* credential_mode; NobodyIsBorrowed).                                     *)
THEOREM OwnName == CallSpec => []NobodyIsBorrowed
<1>1. ASSUME CallInv, Reached, out.as = "other" PROVE cred.kind = "gw"
  <2>1. hdr.user \in Users /\ (cred.kind = "pat" => hdr.user # "other") /\ cred.kind \in {"gw", "pat"}
    BY <1>1, Came, HeadersTell, CallAssumption
  <2>2. NONE # "other" /\ \A s \in Sites, user \in Users : SiteAs(s, user) = "other" => user = "other"
    BY CallAssumption DEF SiteAs, Users
  <2>3. \A k : AsWhom(hdr, k) = "other" => hdr.user = "other"
    BY <2>2 DEF AsWhom
  <2>4. QED
    BY <1>1, <2>1, <2>2, <2>3, WhereItEnds DEF ToTool, ToGateway, ToSite, ByBridge, ToResource, Users
<1>2. ASSUME CallInv, Reached, NEW k \in Backends,
             (ReachedTool /\ out.what[1] = k) \/ (asked.how = "resource" /\ out.what = k)
      PROVE  /\ k \in Delegated \cup Connected /\ hdr.user # NONE => out.as = hdr.user
             /\ k \in Declared => out.as # "service"
  <2>1. hdr.user \in Users /\ NONE # "own" /\ NONE # "other"
    BY <1>2, Came, HeadersTell, CallAssumption
  <2>2. ToTool \/ ToResource
    BY <1>2, WhereItEnds DEF ToGateway, ToSite, ByBridge
  <2>3. ASSUME AsWhom(hdr, k) # NONE
        PROVE  /\ k \in Delegated \cup Connected /\ hdr.user # NONE => AsWhom(hdr, k) = hdr.user
               /\ k \in Declared => AsWhom(hdr, k) # "service"
    BY <2>1, <2>3, CallAssumption DEF AsWhom, Users
  <2>4. CASE ToTool
    BY <1>2, <2>3, <2>4 DEF ToTool, ReachedTool
  <2>5. CASE ToResource
    BY <1>2, <2>1, <2>5, CallAssumption DEF ToResource, Users
  <2>6. QED  BY <2>2, <2>4, <2>5
<1>3. ASSUME CallInv, Reached, asked.site \in Sites, asked.method # "GET", out.as \in {"service", "nobody"}
      PROVE  asked.site \in Opened
  <2>1. hdr.user \in Users /\ NONE \notin Sites /\ {"own", NONE} \subseteq Users
    BY <1>3, Came, HeadersTell, CallAssumption, RulesAssumption DEF Users
  <2>2. ASSUME NEW s \in Sites, NEW m, m \in AllowedMethods(s), m # "GET", NEW user \in Users,
               SiteAs(s, user) # NONE, SiteAs(s, user) \in {"service", "nobody"}
        PROVE  s \in Opened
    BY <2>2 DEF AllowedMethods, SiteAs, Users
  <2>3. ToSite \/ ByBridge
    BY <1>3, <2>1, WhereItEnds DEF ToTool, ToGateway, ToResource, ReachedTool
  <2>4. QED  BY <1>3, <2>1, <2>2, <2>3 DEF ToSite, ByBridge
<1>4. CallInv => NobodyIsBorrowed
  BY <1>1, <1>2, <1>3 DEF NobodyIsBorrowed
<1>5. QED  BY CallInvariant, <1>4, PTL

(* Only a list is answered with a list.                                    *)
LEMMA OnlyLists ==
    ASSUME CallInv, pc = "done", out.v = "list"
    PROVE  \E off \in SUBSET Backends, view \in Views : out = Lookup(off, view)
<1>1. \A w, what, as : No(w).v # "list" /\ Yes(what, as).v # "list"
  BY DEF No, Yes
<1>2. \A h, s, m : RestCall(h, s, m).v # "list"
  BY <1>1 DEF RestCall
<1>3. \A h, n, s, m : Dispatch(h, n, s, m).v # "list"
  BY <1>1, <1>2 DEF Dispatch
<1>4. \A h, n, s, m : Call(h, n, TRUE, s, m).v # "list" /\ Call(h, n, FALSE, s, m).v # "list"
  BY <1>1, <1>3 DEF Call
<1>5. \A h, k : Resource(h, k).v # "list"
  BY <1>1 DEF Resource
<1>6. \A c, s, m : Bridge(c, s, m).v # "list"
  BY <1>1 DEF Bridge
<1>7. AnswerOK
  BY DEF CallInv
<1>8. ASSUME NEW n, NEW s, NEW m PROVE out # Call(hdr, n, asked.how = "invoke", s, m)
  <2>1. CASE asked.how = "invoke"
    <3>1. out # Call(hdr, n, TRUE, s, m)
      BY <1>4
    <3>2. QED  BY <2>1, <3>1
  <2>2. CASE asked.how # "invoke"
    <3>1. out # Call(hdr, n, FALSE, s, m)
      BY <1>4
    <3>2. QED  BY <2>2, <3>1
  <2>3. QED  BY <2>1, <2>2
<1>9. QED  BY <1>5, <1>6, <1>7, <1>8 DEF AnswerOK

(* The name a tool is listed by stands for that tool, unless the gateway   *)
(* has one of its own of that name.                                        *)
LEMMA ListedStands ==
    ASSUME world \in Worlds, NEW p \in Tools, ~IsLocal(ListedAs(p))
    PROVE  Tool(ListedAs(p)) = p
<1>1. CASE p \in world.bare
  <2>1. \A q \in world.bare : q[2] = p[2] => q = p
    BY <1>1, CallAssumption
  <2>2. <<NONE, p[2]>> \notin Tools
    BY CallAssumption, RulesAssumption
  <2>3. <<NONE, p[2]>>[2] = p[2]
    OBVIOUS
  <2>4. (CHOOSE q \in world.bare : q[2] = p[2]) = p
    BY <1>1, <2>1
  <2>5. QED  BY <1>1, <2>2, <2>3, <2>4 DEF Tool, ListedAs
<1>2. CASE p \notin world.bare
  BY <1>2 DEF Tool, ListedAs
<1>3. QED  BY <1>1, <1>2

LEMMA Refusals ==
    ASSUME NEW why PROVE  No(why).v = "no" /\ No(why).why = why
  BY DEF No

LEMMA Yesses ==
    ASSUME NEW what, NEW as PROVE  Yes(what, as).v = "yes"
  BY DEF Yes

(* What becomes of a call by a name that was listed.                       *)
LEMMA ListedCalled ==
    ASSUME world \in Worlds, NEW h, NEW p \in Tools, OpenTo(h, p[1]), ~IsLocal(ListedAs(p)),
           h.panel # NONE => ~PanelDenies(h, ListedAs(p)),
           NEW i \in BOOLEAN, h.panel # NONE => i = FALSE,
           NEW r, r = Call(h, ListedAs(p), i, NONE, "GET")
    PROVE  r.v = "yes" \/ r.why \notin {"forbidden", "unknown", "panel"}
<1>1. Tool(ListedAs(p)) = p /\ p # NONE
  BY ListedStands, CallAssumption
<1> DEFINE given == IF i THEN <<NONE, "invoke_tool">> ELSE ListedAs(p)
<1>2. ~PanelDenies(h, given)
  BY DEF PanelDenies
<1>3. r \in {No("invoke"), No("reader"), Dispatch(h, ListedAs(p), NONE, "GET")}
  BY <1>2 DEF Call
<1>4. Dispatch(h, ListedAs(p), NONE, "GET") \in
          {No("gone"), No("token"), Yes(p, AsWhom(h, p[1]))}
  BY <1>1 DEF Dispatch
<1>6. r \in {No("invoke"), No("reader"), No("gone"), No("token"), Yes(p, AsWhom(h, p[1]))}
  BY <1>3, <1>4
<1>7. ASSUME NEW q \in {No("invoke"), No("reader"), No("gone"), No("token"),
                        Yes(p, AsWhom(h, p[1]))}
      PROVE  q.v = "yes" \/ q.why \notin {"forbidden", "unknown", "panel"}
  BY <1>7, Refusals, Yesses
<1>8. QED  BY <1>6, <1>7

(* What a list shows is open to a call by the name in the list             *)
(* (_list_tools, _listed_tools, _list_resources; ListedIsOpen).            *)
THEOREM ListedOpen == CallSpec => []ListedIsOpen
<1>1. ASSUME CallInv, pc = "done", out.v = "list"
      PROVE  /\ \A n \in out.tools, invoked \in BOOLEAN :
                   LET r == Call(hdr, n, invoked, NONE, "GET")
                   IN  \/ r.v = "yes" \/ IsLocal(n) \/ (invoked /\ hdr.panel # NONE)
                       \/ r.why \notin {"forbidden", "unknown", "panel"}
             /\ \A k \in out.res \cap world.up :
                   LET r == Resource(hdr, k) IN r.v = "yes" \/ r.why # "missing"
  <2>1. PICK off \in SUBSET Backends, view \in Views : out = Lookup(off, view)
    BY <1>1, OnlyLists
  <2>2. out.tools = ListedTools(hdr, off, view) /\ out.res = ListedResources(hdr, off)
    BY <2>1 DEF Lookup
  <2>3. world \in Worlds
    BY <1>1 DEF CallInv
  <2>4. ASSUME NEW n \in out.tools, ~IsLocal(n)
        PROVE  \E p \in Tools : /\ n = ListedAs(p) /\ OpenTo(hdr, p[1])
                                /\ hdr.panel # NONE => ~PanelDenies(hdr, n)
    <3> DEFINE vis == VisibleTools(hdr, off)
               listed == {ListedAs(p) : p \in vis}
               own == {<<NONE, t>> : t \in LocalTools}
    <3>1. \A q \in own : IsLocal(q)
      BY DEF IsLocal
    <3>2. <<NONE, "search_tools">> \in own /\ <<NONE, "invoke_tool">> \in own
      BY DEF LocalTools, Plain, LocalRead
    <3>3. n \in own \cup listed /\ (hdr.panel # NONE => ~PanelDenies(hdr, n))
      <4>1. CASE hdr.panel # NONE
        BY <2>2, <4>1 DEF ListedTools
      <4>2. CASE hdr.panel = NONE /\ view = "full"
        BY <2>2, <4>2 DEF ListedTools
      <4>3. CASE hdr.panel = NONE /\ view = "light"
        BY <2>2, <3>2, <4>3 DEF ListedTools
      <4>4. CASE hdr.panel = NONE /\ view = "bundle"
        BY <2>2, <4>4 DEF ListedTools
      <4>5. QED  BY <4>1, <4>2, <4>3, <4>4 DEF Views
    <3>4. \A q \in vis : q \in Tools /\ OpenTo(hdr, q[1])
      BY DEF VisibleTools
    <3>5. QED  BY <2>4, <3>1, <3>3, <3>4
  <2>5. ASSUME NEW n \in out.tools, ~IsLocal(n), NEW invoked \in BOOLEAN,
               ~(invoked /\ hdr.panel # NONE), NEW r, r = Call(hdr, n, invoked, NONE, "GET")
        PROVE  r.v = "yes" \/ r.why \notin {"forbidden", "unknown", "panel"}
    <3>1. PICK p \in Tools : /\ n = ListedAs(p) /\ OpenTo(hdr, p[1])
                             /\ hdr.panel # NONE => ~PanelDenies(hdr, n)
      BY <2>4, <2>5
    <3>2. QED  BY <2>3, <2>5, <3>1, ListedCalled
  <2>6. ASSUME NEW k \in out.res \cap world.up, NEW r, r = Resource(hdr, k)
        PROVE  r.v = "yes" \/ r.why # "missing"
    BY <2>2, <2>6 DEF Resource, ListedResources, No, Yes
  <2>7. QED  BY <2>5, <2>6
<1>2. CallInv => ListedIsOpen
  BY <1>1 DEF ListedIsOpen
<1>3. QED  BY CallInvariant, <1>2, PTL

(* rest_call and the bridge come to the same end: the groups of the two    *)
(* paths are the same (_bearer_gate and _rest_groups; SameRoad).           *)
THEOREM Roads == CallSpec => []SameRoad
<1>1. ASSUME NEW gs, NEW e PROVE GateGroups(gs, e) = RestGroups(gs, e)
  BY DEF GateGroups, RestGroups, Base, Synthetic
<1>2. ASSUME CallInv, pc = "done", asked.how = "bridge",
             NEW o, o = Call(Forwarded(cred), <<NONE, "rest_call">>, FALSE, asked.site, asked.method),
             out.v = "yes" \/ o.v = "yes"
      PROVE  out = o
  <2>1. /\ world \in Worlds /\ cred \in Creds /\ cred.kind = "pat" /\ cred.marks = {}
        /\ asked.site \in Sites /\ asked.method \in Methods
        /\ out = Bridge(cred, asked.site, asked.method)
    BY <1>2 DEF CallInv, AnswerOK
  <2> DEFINE h == Forwarded(cred)
             s == asked.site
             m == asked.method
             user == IF cred.email THEN "own" ELSE NONE
  <2>2. /\ h.user = user /\ h.panel = NONE /\ (h.reader <=> cred.reader)
        /\ h.groups = RestGroups(cred.groups, cred.ent)
    BY <1>1, <2>1 DEF Forwarded, Kept, Dropped, IsPanel
  <2> HIDE DEF h
  <2>3. IsLocal(<<NONE, "rest_call">>) /\ (ReaderDenies(<<NONE, "rest_call">>, m) <=> m # "GET")
    BY DEF IsLocal, LocalTools, Plain, ReaderDenies, LocalWrite, FigWrite
  <2>4. o = IF cred.reader /\ m # "GET" THEN No("reader") ELSE RestCall(h, s, m)
    BY <1>2, <2>2, <2>3 DEF Call, Dispatch, PanelDenies, h
  <2>5. out = o \/ (out.v = "no" /\ o.v = "no")
    <3>1. CASE cred.reader /\ m # "GET"
      BY <2>1, <2>4, <3>1, Refusals DEF Bridge
    <3>2. CASE ~(cred.reader /\ m # "GET") /\ ~OpenTo(h, s)
      BY <2>1, <2>2, <2>4, <3>2, Refusals DEF Bridge, RestCall, OpenTo
    <3>3. CASE ~(cred.reader /\ m # "GET") /\ OpenTo(h, s)
      BY <2>1, <2>2, <2>4, <3>3 DEF Bridge, RestCall, OpenTo
    <3>4. QED  BY <3>1, <3>2, <3>3
  <2>6. QED
    <3>1. "no" # "yes"
      OBVIOUS
    <3>2. QED  BY <1>2, <2>5, <3>1
<1>3. CallInv => SameRoad
  BY <1>2 DEF SameRoad
<1>4. QED  BY CallInvariant, <1>3, PTL
=============================================================================
