-------------------------- MODULE PatHandoffProofs --------------------------
(***************************************************************************)
(* Proofs about PatHandoff, for every time of rest and every bound: the    *)
(* types; that it implements Custody, so that the gateway never has a PAT  *)
(* revoked that the app has or still gets; and one exchange per rest.      *)
(***************************************************************************)
EXTENDS PatHandoff, TLAPS

(* A PAT that nobody but the gateway has: neither the app nor a request on *)
(* its way, and not revoked.                                               *)
InHand(p) == p \in 1..made /\ p # app.has /\ p \notin late /\ pats[p].end = "no"

(* What the app has is not over; what is on its way can still be taken; a  *)
(* PAT the gateway may hand over or revoke is in its hand alone; and of    *)
(* those to come nothing has been done.                                    *)
CustodyInv ==
    /\ \A p \in Pats : p > made => pats[p].end = "no" /\ p # app.has /\ p \notin late
    /\ app.has # NONE => pats[app.has].end = "no"
    /\ \A p \in late : p # app.has /\ pats[p].end = "no"
    /\ cur.pc \notin {"register", "revoke"} => cur.told = NONE
    /\ cur.pc \notin {"exchanged", "register", "revoke"} => cur.pat = NONE
    /\ cur.pc \in {"exchanged", "revoke"} => cur.pat # NONE /\ InHand(cur.pat)
    /\ cur.pc = "register" /\ cur.pat # NONE /\ cur.told \in {NONE, "3xx", "4xx"} => InHand(cur.pat)

(* An exchange is an attempt that is noted.                                *)
TriedInv ==
    /\ tried # NONE => tried <= now
    /\ last # NONE => tried # NONE /\ last <= tried

IInv == TypeOK /\ CustodyInv /\ TriedInv

(* What Custody sees.                                                      *)
States == [p \in Pats |-> Fate(p)]

CurRec ==
    [pc : {"idle", "mint", "minted", "notice", "exchange", "exchanged", "register", "revoke"},
     kind : Kinds, want : {NONE, "mcp", "bridge"}, cached : BOOLEAN,
     pat : Pats \cup {NONE}, transient : BOOLEAN, told : {NONE, "200", "3xx", "4xx", "5xx"}]

Reasons == {"short", "config", "portal", "app", "gone"}

(* A call is at its beginning with wish w; an attempt is noted.            *)
Begun(w) ==
    /\ cur' \in CurRec /\ cur'.pat = NONE /\ cur'.told = NONE
    /\ cur'.pc \in {"idle", "mint", "notice", "exchange"} /\ (cur'.pc = "exchange" => Cooled)
    /\ wish' \in {wish, w, NONE} /\ tried' \in {tried, now}
    /\ last' = last \/ (last' = now /\ tried' = now)

(* Nobody is a call.                                                       *)
LEMMA NobodyIsCall == Nobody \in CurRec
  BY DEF Nobody, CurRec, Kinds

(* What is said of Skips: an exchange only when the rest is over.          *)
LEMMA ActsCooled == ASSUME NEW w, NEW k, Skips(w, k)[1] = "no" PROVE Cooled
  BY DEF Skips

(* What the beginning of a handoff does: an exchange, which is noted with  *)
(* its time and begins only when the rest is over, or none.                *)
LEMMA HandsOverDoes ==
    ASSUME NEW c \in CurRec, c.pat = NONE, c.told = NONE, NEW w \in {NONE, "mcp", "bridge"},
           NEW cl \in SUBSET Reasons, HandsOver(c, w, cl)
    PROVE  Begun(w) /\ closed' \in SUBSET Reasons /\ cur'.pc # "mint"
<1>1. CASE Skips(w, c.kind)[1] = "no"
  <2>1. cur' = [c EXCEPT !.pc = "exchange", !.want = w] /\ Cooled
    BY <1>1, ActsCooled DEF HandsOver
  <2>2. cur' \in CurRec /\ cur'.pat = NONE /\ cur'.told = NONE /\ cur'.pc = "exchange"
    BY <2>1 DEF CurRec
  <2>3. QED  BY <1>1, <2>1, <2>2 DEF HandsOver, Tries, Begun
<1>2. CASE Skips(w, c.kind)[1] = "config" /\ cur' = [c EXCEPT !.pc = "notice", !.want = w]
  <2>1. cur' \in CurRec /\ cur'.pat = NONE /\ cur'.told = NONE /\ cur'.pc = "notice"
    BY <1>2 DEF CurRec
  <2>2. QED  BY <1>2, <2>1 DEF HandsOver, Tries, Begun, Reasons, Serve, Nobody
<1>3. CASE Skips(w, c.kind)[1] # "no" /\ cur' = Nobody
  <2>1. cur' \in CurRec /\ cur'.pat = NONE /\ cur'.told = NONE /\ cur'.pc = "idle"
    BY <1>3, NobodyIsCall DEF Nobody
  <2>2. {Skips(w, c.kind)[1]} \cap {"short", "config"} \subseteq Reasons
    BY DEF Reasons
  <2>3. tried' \in {tried, now} /\ last' = last /\ wish' \in {wish, w, NONE}
    BY <1>3 DEF HandsOver, Tries, Serve
  <2>4. closed' \in SUBSET Reasons
    BY <1>3, <2>2 DEF HandsOver, Reasons
  <2>5. QED  BY <2>1, <2>3, <2>4 DEF Begun
<1>4. QED  BY <1>1, <1>2, <1>3 DEF HandsOver, Serve

(* A call of somebody with a token of the cache.                           *)
LEMMA CachedCall ==
    ASSUME NEW k \in Kinds, NEW c, c = [Nobody EXCEPT !.kind = k, !.cached = TRUE]
    PROVE  c \in CurRec /\ c.pat = NONE /\ c.told = NONE
  BY DEF Nobody, CurRec, Kinds

(* A call that begins, or whose mint arrives.                              *)
LEMMA BeginsDoes ==
    ASSUME TypeOK, CustodyInv, (\E k \in Kinds : CallBegins(k)) \/ MintArrives
    PROVE  (\E w \in {NONE, "mcp", "bridge"} : Begun(w)) /\ closed' \in SUBSET Reasons
<1>0. closed \in SUBSET Reasons /\ {} \in SUBSET Reasons /\ wish \in {NONE, "mcp", "bridge"}
  BY DEF TypeOK, Reasons
<1>1. ASSUME NEW k \in Kinds, CallBegins(k)
      PROVE  (\E w \in {NONE, "mcp", "bridge"} : Begun(w)) /\ closed' \in SUBSET Reasons
  <2>1. CASE HandsOver([Nobody EXCEPT !.kind = k, !.cached = TRUE], wish, closed)
    <3>1. PICK c : c = [Nobody EXCEPT !.kind = k, !.cached = TRUE]
      OBVIOUS
    <3>2. c \in CurRec /\ c.pat = NONE /\ c.told = NONE /\ HandsOver(c, wish, closed)
      BY <2>1, <3>1, CachedCall
    <3>3. Begun(wish) /\ closed' \in SUBSET Reasons
      BY <1>0, <3>2, HandsOverDoes
    <3>4. QED  BY <1>0, <3>3
  <2>2. CASE cur' = [Nobody EXCEPT !.kind = k, !.pc = "mint"] /\ UNCHANGED <<tried, wish, last, closed>>
    <3>1. cur' \in CurRec /\ cur'.pat = NONE /\ cur'.told = NONE /\ cur'.pc = "mint"
      BY <2>2 DEF Nobody, CurRec, Kinds
    <3>2. Begun(NONE)
      BY <2>2, <3>1 DEF Begun
    <3>3. QED  BY <1>0, <2>2, <3>2
  <2>3. QED  BY <1>1, <2>1, <2>2 DEF CallBegins
<1>2. CASE MintArrives
  <2>1. cur \in CurRec /\ cur.pat = NONE /\ cur.told = NONE /\ cur.want \in {NONE, "mcp", "bridge"}
    BY <1>2 DEF MintArrives, CustodyInv, TypeOK, CurRec
  <2>2. CASE HandsOver(cur, cur.want, {})
    <3>1. Begun(cur.want) /\ closed' \in SUBSET Reasons
      BY <1>0, <2>1, <2>2, HandsOverDoes
    <3>2. QED  BY <2>1, <3>1
  <2>3. CASE wish' = NONE /\ cur' = Nobody /\ closed' = {} /\ UNCHANGED <<tried, last>>
    <3>1. cur' \in CurRec /\ cur'.pat = NONE /\ cur'.told = NONE /\ cur'.pc = "idle"
      BY <2>3, NobodyIsCall DEF Nobody
    <3>2. Begun(NONE)
      BY <2>3, <3>1 DEF Begun
    <3>3. QED  BY <1>0, <2>3, <3>2
  <2>4. QED  BY <1>2, <2>2, <2>3 DEF MintArrives
<1>3. QED  BY <1>1, <1>2

(* Custody sees of a step only what the app has and what was done with a   *)
(* PAT.                                                                    *)
LEMMA Unseen ==
    ASSUME app'.has = app.has, made' = made, \A p \in Pats : pats'[p].end = pats[p].end
    PROVE  States' = States
<1>1. \A p \in Pats : Fate(p)' = Fate(p)
  BY DEF Fate
<1>2. QED  BY <1>1 DEF States

(* An app that takes a PAT it can take does what Custody says.             *)
LEMMA KeepsTakes ==
    ASSUME TypeOK, CustodyInv, made' = made, NEW p \in Pats, p \in 1..made, p # app.has,
           pats[p].end = "no", Keeps(p)
    PROVE  C!Take(p)
<1> USE HandoffAssumption DEF Pats
<1>1. app'.has = p /\ \A q \in Pats : pats'[q].end = IF q = app.has THEN "app" ELSE pats[q].end
  BY DEF Keeps, TypeOK
<1>2. States[p] = "loose" /\ States'[p] = "held"
  BY <1>1 DEF States, Fate, TypeOK
<1>3. ASSUME NEW q \in Pats, q # p
      PROVE  States'[q] = IF States[q] = "held" THEN "over" ELSE States[q]
  <2>1. CASE q = app.has
    BY <1>1, <1>3, <2>1 DEF States, Fate, TypeOK, CustodyInv
  <2>2. CASE q # app.has
    BY <1>1, <1>3, <2>2 DEF States, Fate, TypeOK
  <2>3. QED  BY <2>1, <2>2
<1>4. QED  BY <1>2, <1>3 DEF C!Take, States

(* Each step keeps every variable in its type.                             *)
LEMMA TypePreserved == ASSUME IInv, [Next]_vars PROVE TypeOK'
<1> USE HandoffAssumption DEF Pats
<1>0. TypeOK /\ CustodyInv /\ TriedInv
  BY DEF IInv
<1>1. ASSUME NEW k \in Kinds, CallBegins(k) PROVE TypeOK'
  <2>1. spec' = spec /\ now' = now /\ app' = app /\ pats' = pats /\ made' = made /\ late' = late
        /\ events' = events /\ hit' = hit /\ said' = said
    BY <1>1 DEF CallBegins, outside
  <2>2. PICK w \in {NONE, "mcp", "bridge"} : Begun(w)
    BY <1>0, <1>1, BeginsDoes
  <2>3. closed' \in SUBSET Reasons
    BY <1>0, <1>1, BeginsDoes
  <2>4. QED  BY <1>0, <2>1, <2>2, <2>3 DEF Begun, TypeOK, CurRec, Reasons
<1>2. ASSUME AppMints PROVE TypeOK'
  <2>1. spec' = spec /\ now' = now /\ tried' = tried /\ hit' = hit /\ wish' = wish /\ app' = app /\
       pats' = pats /\ made' = made /\ late' = late /\ last' = last /\ said' = said /\
       closed' = closed /\ events' = events
    BY <1>2 DEF AppMints, gate, outside, history
  <2>2. cur \in CurRec
    BY <1>0 DEF TypeOK, CurRec
  <2>3. Wanted \in {NONE, "mcp", "bridge"}
    BY <1>0 DEF Wanted, TypeOK
  <2>4. cur' \in CurRec
    BY <1>2, <2>1, <2>2, <2>3, NobodyIsCall DEF AppMints, CurRec
  <2>5. QED  BY <1>0, <1>2, <2>1, <2>2, <2>3, <2>4 DEF AppMints, TypeOK, CurRec
<1>3. ASSUME MintArrives PROVE TypeOK'
  <2>1. spec' = spec /\ now' = now /\ app' = app /\ pats' = pats /\ made' = made /\ late' = late
        /\ events' = events /\ hit' = TRUE /\ said' = cur.want
    BY <1>3 DEF MintArrives, outside
  <2>2. PICK w \in {NONE, "mcp", "bridge"} : Begun(w)
    BY <1>0, <1>3, BeginsDoes
  <2>3. closed' \in SUBSET Reasons
    BY <1>0, <1>3, BeginsDoes
  <2>4. QED  BY <1>0, <2>1, <2>2, <2>3 DEF Begun, TypeOK, CurRec, Reasons
<1>4. ASSUME MintFails PROVE TypeOK'
  <2>1. spec' = spec /\ now' = now /\ tried' = tried /\ hit' = hit /\ wish' = wish /\ app' = app /\
       pats' = pats /\ made' = made /\ late' = late /\ last' = last /\ said' = said /\
       closed' = closed /\ events' = events
    BY <1>4 DEF MintFails, gate, outside, history
  <2>2. cur \in CurRec
    BY <1>0 DEF TypeOK, CurRec
  <2>3. cur' \in CurRec
    BY <1>4, <2>1, <2>2, NobodyIsCall DEF MintFails, CurRec
  <2>4. QED  BY <1>0, <1>4, <2>1, <2>2, <2>3 DEF MintFails, TypeOK, CurRec
<1>5. ASSUME PortalExchanges PROVE TypeOK'
  <2>1. spec' = spec /\ now' = now /\ tried' = tried /\ hit' = hit /\ wish' = wish /\ app' = app /\
       late' = late /\ last' = last /\ said' = said /\ closed' = closed /\ events' = events
    BY <1>5 DEF PortalExchanges, gate, outside, history
  <2>2. cur \in CurRec
    BY <1>0 DEF TypeOK, CurRec
  <2>3. made' \in Pats /\ made' \in 0..MaxPats
    BY <1>0, <1>5 DEF PortalExchanges, TypeOK
  <2>4. cur' \in CurRec
    BY <1>5, <2>1, <2>2, <2>3, NobodyIsCall DEF PortalExchanges, CurRec
  <2>5. pats \in [Pats -> [bridge : BOOLEAN, end : {"no", "app", "gateway"}]]
    BY <1>0 DEF TypeOK
  <2>6. (cur.kind = "root" /\ cur.want = "bridge") \in BOOLEAN
    OBVIOUS
  <2>7. pats' = [q \in Pats |-> pats'[q]] /\ \A q \in Pats : pats'[q] = pats[q] \/ \E r \in BOOLEAN : pats'[q] = [pats[q] EXCEPT !.bridge = r]
    BY <1>5, <2>5, <2>6 DEF PortalExchanges
  <2>8. \A q \in Pats : pats'[q] \in [bridge : BOOLEAN, end : {"no", "app", "gateway"}]
    BY <2>5, <2>7
  <2>9. pats' \in [Pats -> [bridge : BOOLEAN, end : {"no", "app", "gateway"}]]
    BY <2>7, <2>8
  <2>10. QED  BY <1>0, <1>5, <2>1, <2>2, <2>3, <2>4, <2>5, <2>6, <2>7, <2>8, <2>9 DEF
     PortalExchanges, TypeOK, CurRec
<1>6. ASSUME ExchangeArrives PROVE TypeOK'
  <2>1. spec' = spec /\ now' = now /\ tried' = tried /\ hit' = hit /\ wish' = wish /\ app' = app /\
       pats' = pats /\ made' = made /\ late' = late /\ last' = last /\ said' = said /\
       closed' = closed /\ events' = events
    BY <1>6 DEF ExchangeArrives, gate, outside, history
  <2>2. cur \in CurRec
    BY <1>0 DEF TypeOK, CurRec
  <2>3. cur' \in CurRec
    BY <1>6, <2>1, <2>2, NobodyIsCall DEF ExchangeArrives, CurRec
  <2>4. QED  BY <1>0, <1>6, <2>1, <2>2, <2>3 DEF ExchangeArrives, TypeOK, CurRec
<1>7. ASSUME ExchangeRefused PROVE TypeOK'
  <2>1. spec' = spec /\ now' = now /\ tried' = tried /\ hit' = hit /\ wish' = wish /\ app' = app /\
       pats' = pats /\ made' = made /\ late' = late /\ last' = last /\ said' = said /\
       events' = events
    BY <1>7 DEF ExchangeRefused, gate, outside, history
  <2>2. cur \in CurRec
    BY <1>0 DEF TypeOK, CurRec
  <2>3. cur' \in CurRec
    BY <1>7, <2>1, <2>2, NobodyIsCall DEF ExchangeRefused, CurRec
  <2>4. QED  BY <1>0, <1>7, <2>1, <2>2, <2>3 DEF ExchangeRefused, TypeOK, CurRec
<1>8. ASSUME ExchangeFails PROVE TypeOK'
  <2>1. spec' = spec /\ now' = now /\ tried' = tried /\ hit' = hit /\ wish' = wish /\ app' = app /\
       pats' = pats /\ made' = made /\ late' = late /\ last' = last /\ said' = said /\
       closed' = closed /\ events' = events
    BY <1>8 DEF ExchangeFails, gate, outside, history
  <2>2. cur \in CurRec
    BY <1>0 DEF TypeOK, CurRec
  <2>3. cur' \in CurRec
    BY <1>8, <2>1, <2>2, NobodyIsCall DEF ExchangeFails, CurRec
  <2>4. QED  BY <1>0, <1>8, <2>1, <2>2, <2>3 DEF ExchangeFails, TypeOK, CurRec
<1>9. ASSUME ExchangeCut PROVE TypeOK'
  <2>1. spec' = spec /\ now' = now /\ tried' = tried /\ hit' = hit /\ app' = app /\ pats' = pats /\
       made' = made /\ late' = late /\ last' = last /\ said' = said /\ closed' = closed /\
       events' = events
    BY <1>9 DEF ExchangeCut, gate, outside, history
  <2>2. cur \in CurRec
    BY <1>0 DEF TypeOK, CurRec
  <2>3. cur' \in CurRec
    BY <1>9, <2>1, <2>2, NobodyIsCall DEF ExchangeCut, Serve, CurRec
  <2>4. QED  BY <1>0, <1>9, <2>1, <2>2, <2>3 DEF ExchangeCut, Serve, TypeOK, CurRec
<1>10. ASSUME AppAnswers PROVE TypeOK'
  <2>1. spec' = spec /\ now' = now /\ tried' = tried /\ hit' = hit /\ wish' = wish /\ made' = made
       /\ late' = late /\ last' = last /\ said' = said /\ events' = events
    BY <1>10 DEF AppAnswers, gate, outside, history
  <2>2. cur \in CurRec
    BY <1>0 DEF TypeOK, CurRec
  <2>3. cur' \in CurRec
    BY <1>10, <2>1, <2>2, NobodyIsCall DEF AppAnswers, Keeps, CurRec
  <2>4. app'.needs = app.needs /\ app'.rests \in BOOLEAN /\ app'.has \in Pats \cup {NONE} /\ app' = [needs |-> app'.needs, has |-> app'.has, rests |-> app'.rests]
    BY <1>0, <1>10, <2>2 DEF AppAnswers, Keeps, TypeOK, CurRec
  <2>5. app' \in [needs : {NONE, "mcp", "bridge"}, has : Pats \cup {NONE}, rests : BOOLEAN]
    BY <1>0, <2>4 DEF TypeOK
  <2>6. pats \in [Pats -> [bridge : BOOLEAN, end : {"no", "app", "gateway"}]]
    BY <1>0 DEF TypeOK
  <2>7. pats' = [q \in Pats |-> pats'[q]] /\ \A q \in Pats : pats'[q] = pats[q] \/ \E r \in {"app", "gateway"} : pats'[q] = [pats[q] EXCEPT !.end = r]
    BY <1>10, <2>6 DEF AppAnswers, Keeps
  <2>8. \A q \in Pats : pats'[q] \in [bridge : BOOLEAN, end : {"no", "app", "gateway"}]
    BY <2>6, <2>7
  <2>9. pats' \in [Pats -> [bridge : BOOLEAN, end : {"no", "app", "gateway"}]]
    BY <2>7, <2>8
  <2>10. QED  BY <1>0, <1>10, <2>1, <2>2, <2>3, <2>4, <2>5, <2>6, <2>7, <2>8, <2>9 DEF
     AppAnswers, TypeOK, CurRec
<1>11. ASSUME RegisterArrives PROVE TypeOK'
  <2>1. spec' = spec /\ now' = now /\ tried' = tried /\ hit' = hit /\ app' = app /\ pats' = pats /\
       made' = made /\ late' = late /\ last' = last /\ said' = said /\ closed' = closed /\
       events' = events
    BY <1>11 DEF RegisterArrives, gate, outside, history
  <2>2. cur \in CurRec
    BY <1>0 DEF TypeOK, CurRec
  <2>3. cur' \in CurRec
    BY <1>11, <2>1, <2>2, NobodyIsCall DEF RegisterArrives, Ends, Serve, CurRec
  <2>4. QED  BY <1>0, <1>11, <2>1, <2>2, <2>3 DEF RegisterArrives, Ends, Serve, TypeOK,
     CurRec
<1>12. ASSUME RegisterUnreached PROVE TypeOK'
  <2>1. spec' = spec /\ now' = now /\ tried' = tried /\ hit' = hit /\ app' = app /\ pats' = pats /\
       made' = made /\ late' = late /\ last' = last /\ said' = said /\ closed' = closed /\
       events' = events
    BY <1>12 DEF RegisterUnreached, gate, outside, history
  <2>2. cur \in CurRec
    BY <1>0 DEF TypeOK, CurRec
  <2>3. wish' \in {wish, cur.want, NONE}
    BY <1>12 DEF RegisterUnreached, Ends, Serve
  <2>4. cur' = Nobody \/ \E t \in BOOLEAN : cur' = [cur EXCEPT !.pc = "revoke", !.transient = t]
    BY <1>0, <1>12 DEF RegisterUnreached, Ends, Serve, TypeOK
  <2>5. cur' \in CurRec
    BY <1>12, <2>1, <2>2, <2>3, <2>4, NobodyIsCall DEF Nobody, CurRec
  <2>6. QED  BY <1>0, <2>1, <2>2, <2>3, <2>5 DEF TypeOK, CurRec
<1>13. ASSUME RegisterUnknown PROVE TypeOK'
  <2>1. spec' = spec /\ now' = now /\ tried' = tried /\ hit' = hit /\ app' = app /\ pats' = pats /\
       made' = made /\ last' = last /\ said' = said /\ closed' = closed /\ events' = events
    BY <1>13 DEF RegisterUnknown, gate, outside, history
  <2>2. cur \in CurRec
    BY <1>0 DEF TypeOK, CurRec
  <2>3. cur' \in CurRec
    BY <1>13, <2>1, <2>2, NobodyIsCall DEF RegisterUnknown, Ends, Serve, CurRec
  <2>4. QED  BY <1>0, <1>13, <2>1, <2>2, <2>3 DEF RegisterUnknown, Ends, Serve, TypeOK,
     CurRec
<1>14. ASSUME Revokes PROVE TypeOK'
  <2>1. spec' = spec /\ now' = now /\ tried' = tried /\ hit' = hit /\ app' = app /\ made' = made /\
       late' = late /\ last' = last /\ said' = said /\ closed' = closed /\ events' = events
    BY <1>14 DEF Revokes, gate, outside, history
  <2>2. cur \in CurRec
    BY <1>0 DEF TypeOK, CurRec
  <2>3. cur' = Nobody /\ wish' \in {cur.want, NONE}
    BY <1>14 DEF Revokes, Serve
  <2>4. cur' \in CurRec
    BY <1>14, <2>1, <2>2, <2>3, NobodyIsCall DEF Revokes, Serve, CurRec
  <2>5. pats \in [Pats -> [bridge : BOOLEAN, end : {"no", "app", "gateway"}]]
    BY <1>0 DEF TypeOK
  <2>6. pats' = [q \in Pats |-> pats'[q]] /\ \A q \in Pats : pats'[q] = pats[q] \/ \E r \in {"app", "gateway"} : pats'[q] = [pats[q] EXCEPT !.end = r]
    BY <1>14, <2>5 DEF Revokes
  <2>7. \A q \in Pats : pats'[q] \in [bridge : BOOLEAN, end : {"no", "app", "gateway"}]
    BY <2>5, <2>6
  <2>8. pats' \in [Pats -> [bridge : BOOLEAN, end : {"no", "app", "gateway"}]]
    BY <2>6, <2>7
  <2>9. QED  BY <1>0, <1>14, <2>1, <2>2, <2>3, <2>4, <2>5, <2>6, <2>7, <2>8 DEF Revokes,
     Serve, TypeOK, CurRec
<1>15. ASSUME Notice PROVE TypeOK'
  <2>1. spec' = spec /\ now' = now /\ tried' = tried /\ hit' = hit /\ pats' = pats /\ made' = made
       /\ late' = late /\ last' = last /\ said' = said /\ closed' = closed /\ events' =
       events
    BY <1>15 DEF Notice, gate, outside, history
  <2>2. cur \in CurRec
    BY <1>0 DEF TypeOK, CurRec
  <2>3. cur' \in CurRec
    BY <1>15, <2>1, <2>2, NobodyIsCall DEF Notice, Serve, CurRec
  <2>4. app' \in [needs : {NONE, "mcp", "bridge"}, has : Pats \cup {NONE}, rests : BOOLEAN]
    BY <1>0, <1>15, <2>1, <2>2, <2>3 DEF Notice, Serve, TypeOK, CurRec
  <2>5. QED  BY <1>0, <1>15, <2>1, <2>2, <2>3, <2>4 DEF Notice, Serve, TypeOK, CurRec
<1>16. ASSUME Cancelled PROVE TypeOK'
  <2>1. spec' = spec /\ now' = now /\ tried' = tried /\ hit' = hit /\ wish' = wish /\ app' = app /\
       pats' = pats /\ made' = made /\ last' = last /\ said' = said /\ events' = events
    BY <1>16 DEF Cancelled, gate, outside, history
  <2>2. cur \in CurRec
    BY <1>0 DEF TypeOK, CurRec
  <2>3. cur' \in CurRec
    BY <1>16, <2>1, <2>2, NobodyIsCall DEF Cancelled, CurRec
  <2>4. QED  BY <1>0, <1>16, <2>1, <2>2, <2>3 DEF Cancelled, TypeOK, CurRec
<1>17. ASSUME NEW p \in Pats, LateArrives(p) PROVE TypeOK'
  <2>1. spec' = spec /\ now' = now /\ tried' = tried /\ hit' = hit /\ wish' = wish /\ cur' = cur /\
       made' = made /\ last' = last /\ said' = said /\ closed' = closed /\ events' = events
    BY <1>17 DEF LateArrives, gate, outside, history
  <2>2. app' \in [needs : {NONE, "mcp", "bridge"}, has : Pats \cup {NONE}, rests : BOOLEAN]
    BY <1>0, <1>17, <2>1 DEF LateArrives, Keeps, TypeOK, CurRec
  <2>3. pats \in [Pats -> [bridge : BOOLEAN, end : {"no", "app", "gateway"}]]
    BY <1>0 DEF TypeOK
  <2>4. pats' = [q \in Pats |-> pats'[q]] /\ \A q \in Pats : pats'[q] = pats[q] \/ \E r \in {"app", "gateway"} : pats'[q] = [pats[q] EXCEPT !.end = r]
    BY <1>17, <2>3 DEF LateArrives, Keeps
  <2>5. \A q \in Pats : pats'[q] \in [bridge : BOOLEAN, end : {"no", "app", "gateway"}]
    BY <2>3, <2>4
  <2>6. pats' \in [Pats -> [bridge : BOOLEAN, end : {"no", "app", "gateway"}]]
    BY <2>4, <2>5
  <2>7. QED  BY <1>0, <1>17, <2>1, <2>2, <2>3, <2>4, <2>5, <2>6 DEF LateArrives, TypeOK,
     CurRec
<1>18. ASSUME TokenOver PROVE TypeOK'
  <2>1. spec' = spec /\ now' = now /\ tried' = tried /\ wish' = wish /\ cur' = cur /\ app' = app /\
       pats' = pats /\ made' = made /\ late' = late /\ last' = last /\ said' = said /\
       closed' = closed /\ events' = events
    BY <1>18 DEF TokenOver, gate, outside, history
  <2>2. QED  BY <1>0, <1>18, <2>1 DEF TokenOver, TypeOK, CurRec
<1>19. ASSUME AppChanges PROVE TypeOK'
  <2>1. spec' = spec /\ now' = now /\ tried' = tried /\ hit' = hit /\ wish' = wish /\ cur' = cur /\
       pats' = pats /\ made' = made /\ late' = late /\ last' = last /\ said' = said /\
       closed' = closed
    BY <1>19 DEF AppChanges, gate, outside, history
  <2>2. app' \in [needs : {NONE, "mcp", "bridge"}, has : Pats \cup {NONE}, rests : BOOLEAN]
    BY <1>0, <1>19, <2>1 DEF AppChanges, TypeOK, CurRec
  <2>3. QED  BY <1>0, <1>19, <2>1, <2>2 DEF AppChanges, TypeOK, CurRec
<1>20. ASSUME Tick PROVE TypeOK'
  <2>1. spec' = spec /\ tried' = tried /\ hit' = hit /\ wish' = wish /\ cur' = cur /\ app' = app /\
       pats' = pats /\ made' = made /\ late' = late /\ last' = last /\ said' = said /\
       closed' = closed /\ events' = events
    BY <1>20 DEF Tick, gate, outside, history
  <2>2. QED  BY <1>0, <1>20, <2>1 DEF Tick, TypeOK, CurRec
<1>21. ASSUME UNCHANGED vars PROVE TypeOK'
  <2>1. spec' = spec /\ now' = now /\ tried' = tried /\ hit' = hit /\ wish' = wish /\ cur' = cur /\
       app' = app /\ pats' = pats /\ made' = made /\ late' = late /\ last' = last /\ said' =
       said /\ closed' = closed /\ events' = events
    BY <1>21 DEF vars, gate, outside, history
  <2>2. QED  BY <1>0, <2>1 DEF TypeOK
<1>22. QED  BY <1>1, <1>2, <1>3, <1>4, <1>5, <1>6, <1>7, <1>8, <1>9, <1>10, <1>11, <1>12,
   <1>13, <1>14, <1>15, <1>16, <1>17, <1>18, <1>19, <1>20, <1>21 DEF Next, Outside

(* Each step keeps a PAT in one hand.                                      *)
LEMMA CustodyPreserved == ASSUME IInv, [Next]_vars PROVE CustodyInv'
<1> USE HandoffAssumption DEF Pats
<1>0. TypeOK /\ CustodyInv /\ TriedInv
  BY DEF IInv
<1>1. ASSUME NEW k \in Kinds, CallBegins(k) PROVE CustodyInv'
  <2>1. app' = app /\ pats' = pats /\ made' = made /\ late' = late
    BY <1>1 DEF CallBegins, outside
  <2>2. cur'.pc \in {"idle", "mint", "exchange", "notice"} /\ cur'.pat = NONE /\ cur'.told = NONE
    BY <1>0, <1>1, BeginsDoes DEF Begun
  <2>3. QED  BY <1>0, <2>1, <2>2 DEF CustodyInv, InHand
<1>2. ASSUME AppMints PROVE CustodyInv'
  BY <1>0, <1>2 DEF TypeOK, CustodyInv, InHand, AppMints, gate, outside, history
<1>3. ASSUME MintArrives PROVE CustodyInv'
  <2>1. app' = app /\ pats' = pats /\ made' = made /\ late' = late
    BY <1>3 DEF MintArrives, outside
  <2>2. cur'.pc \in {"idle", "mint", "exchange", "notice"} /\ cur'.pat = NONE /\ cur'.told = NONE
    BY <1>0, <1>3, BeginsDoes DEF Begun
  <2>3. QED  BY <1>0, <2>1, <2>2 DEF CustodyInv, InHand
<1>4. ASSUME MintFails PROVE CustodyInv'
  BY <1>0, <1>4 DEF TypeOK, CustodyInv, InHand, MintFails, Nobody, gate, outside, history
<1>5. ASSUME PortalExchanges PROVE CustodyInv'
  BY <1>0, <1>5 DEF TypeOK, CustodyInv, InHand, PortalExchanges, gate, outside, history
<1>6. ASSUME ExchangeArrives PROVE CustodyInv'
  BY <1>0, <1>6 DEF TypeOK, CustodyInv, InHand, ExchangeArrives, gate, outside, history
<1>7. ASSUME ExchangeRefused PROVE CustodyInv'
  BY <1>0, <1>7 DEF TypeOK, CustodyInv, InHand, ExchangeRefused, gate, outside, history
<1>8. ASSUME ExchangeFails PROVE CustodyInv'
  BY <1>0, <1>8 DEF TypeOK, CustodyInv, InHand, ExchangeFails, gate, outside, history
<1>9. ASSUME ExchangeCut PROVE CustodyInv'
  BY <1>0, <1>9 DEF TypeOK, CustodyInv, InHand, ExchangeCut, Serve, Nobody, gate, outside,
     history
<1>10. ASSUME AppAnswers PROVE CustodyInv'
  <2>1. cur \in CurRec /\ made' = made /\ late' = late /\ cur.pc = "register" /\ cur.told = NONE
    BY <1>0, <1>10 DEF AppAnswers, TypeOK, CurRec
  <2>2. CASE cur.pat # NONE /\ Keeps(cur.pat) /\ \E a \in {"200", "5xx"} : cur' = [cur EXCEPT !.told = a]
    <3>1. InHand(cur.pat) /\ cur.pat \in Pats
      BY <1>0, <2>1, <2>2 DEF CustodyInv, TypeOK, InHand
    <3>2. cur'.pc = "register" /\ cur'.told \in {"200", "5xx"} /\ cur'.pat = cur.pat
      BY <2>1, <2>2 DEF CurRec
    <3>3. app'.has = cur.pat /\ \A q \in Pats : q # app.has => pats'[q].end = pats[q].end
      BY <1>0, <2>2 DEF Keeps, TypeOK
    <3>4. QED  BY <1>0, <2>1, <3>1, <3>2, <3>3, SMTT(60) DEF CustodyInv, InHand, TypeOK
  <2>3. CASE app'.has = app.has /\ pats' = pats /\ \E a \in {"200", "3xx", "4xx", "5xx"} : cur' = [cur EXCEPT !.told = a]
    <3>1. cur'.pc = "register" /\ cur'.pat = cur.pat
      BY <2>1, <2>3 DEF CurRec
    <3>2. QED  BY <1>0, <2>1, <2>3, <3>1 DEF CustodyInv, InHand
  <2>4. QED  BY <1>0, <1>10, <2>2, <2>3 DEF AppAnswers, TypeOK
<1>11. ASSUME RegisterArrives PROVE CustodyInv'
  <2>1. app' = app /\ pats' = pats /\ made' = made /\ late' = late /\ cur.pc = "register"
    BY <1>11 DEF RegisterArrives, outside
  <2>2. \/ cur' = Nobody
        \/ cur.pat # NONE /\ cur.told \in {NONE, "4xx"} /\ \E t \in BOOLEAN : cur' = [cur EXCEPT !.pc = "revoke", !.transient = t]
    BY <1>0, <1>11 DEF RegisterArrives, Ends, Serve, TypeOK
  <2>3. CASE cur' = Nobody
    BY <1>0, <2>1, <2>3 DEF CustodyInv, InHand, Nobody
  <2>4. CASE cur.pat # NONE /\ cur.told \in {NONE, "4xx"} /\ \E t \in BOOLEAN : cur' = [cur EXCEPT !.pc = "revoke", !.transient = t]
    <3>1. cur'.pc = "revoke" /\ cur'.pat = cur.pat
      BY <1>0, <2>4 DEF TypeOK
    <3>2. InHand(cur.pat)
      BY <1>0, <2>1, <2>4 DEF CustodyInv
    <3>3. QED  BY <1>0, <2>1, <2>4, <3>1, <3>2 DEF CustodyInv, InHand
  <2>5. QED  BY <2>2, <2>3, <2>4
<1>12. ASSUME RegisterUnreached PROVE CustodyInv'
  <2>1. app' = app /\ pats' = pats /\ made' = made /\ late' = late /\ cur.pc = "register"
    BY <1>12 DEF RegisterUnreached, outside
  <2>2. \/ cur' = Nobody
        \/ cur.pat # NONE /\ cur.told \in {NONE, "4xx"} /\ \E t \in BOOLEAN : cur' = [cur EXCEPT !.pc = "revoke", !.transient = t]
    BY <1>0, <1>12 DEF RegisterUnreached, Ends, Serve, TypeOK
  <2>3. CASE cur' = Nobody
    BY <1>0, <2>1, <2>3 DEF CustodyInv, InHand, Nobody
  <2>4. CASE cur.pat # NONE /\ cur.told \in {NONE, "4xx"} /\ \E t \in BOOLEAN : cur' = [cur EXCEPT !.pc = "revoke", !.transient = t]
    <3>1. cur'.pc = "revoke" /\ cur'.pat = cur.pat
      BY <1>0, <2>4 DEF TypeOK
    <3>2. InHand(cur.pat)
      BY <1>0, <2>1, <2>4 DEF CustodyInv
    <3>3. QED  BY <1>0, <2>1, <2>4, <3>1, <3>2 DEF CustodyInv, InHand
  <2>5. QED  BY <2>2, <2>3, <2>4
<1>13. ASSUME RegisterUnknown PROVE CustodyInv'
  BY <1>0, <1>13 DEF TypeOK, CustodyInv, InHand, RegisterUnknown, Ends, Serve, Nobody, gate,
     outside, history
<1>14. ASSUME Revokes PROVE CustodyInv'
  <2>1. app' = app /\ made' = made /\ late' = late /\ cur' = Nobody /\ cur.pat # NONE /\ InHand(cur.pat)
    BY <1>0, <1>14 DEF Revokes, Serve, CustodyInv
  <2>2. \A q \in Pats : q # cur.pat => pats'[q] = pats[q]
    BY <1>0, <1>14 DEF Revokes, TypeOK
  <2>3. QED  BY <1>0, <2>1, <2>2 DEF CustodyInv, InHand, Nobody, TypeOK
<1>15. ASSUME Notice PROVE CustodyInv'
  BY <1>0, <1>15 DEF TypeOK, CustodyInv, InHand, Notice, Serve, Nobody, gate, outside,
     history
<1>16. ASSUME Cancelled PROVE CustodyInv'
  BY <1>0, <1>16 DEF TypeOK, CustodyInv, InHand, Cancelled, Nobody, gate, outside, history
<1>17. ASSUME NEW p \in Pats, LateArrives(p) PROVE CustodyInv'
  BY <1>0, <1>17 DEF TypeOK, CustodyInv, InHand, LateArrives, Keeps, gate, outside, history
<1>18. ASSUME TokenOver PROVE CustodyInv'
  BY <1>0, <1>18 DEF TypeOK, CustodyInv, InHand, TokenOver, gate, outside, history
<1>19. ASSUME AppChanges PROVE CustodyInv'
  BY <1>0, <1>19 DEF TypeOK, CustodyInv, InHand, AppChanges, gate, outside, history
<1>20. ASSUME Tick PROVE CustodyInv'
  BY <1>0, <1>20 DEF TypeOK, CustodyInv, InHand, Tick, gate, outside, history
<1>21. ASSUME UNCHANGED vars PROVE CustodyInv'
  BY <1>0, <1>21 DEF CustodyInv, InHand, vars, gate, outside, history
<1>22. QED  BY <1>1, <1>2, <1>3, <1>4, <1>5, <1>6, <1>7, <1>8, <1>9, <1>10, <1>11, <1>12,
   <1>13, <1>14, <1>15, <1>16, <1>17, <1>18, <1>19, <1>20, <1>21 DEF Next, Outside

(* Each attempt is noted, and none is noted before its time.               *)
LEMMA TriedPreserved == ASSUME IInv, [Next]_vars PROVE TriedInv'
<1> USE HandoffAssumption DEF Pats
<1>0. TypeOK /\ CustodyInv /\ TriedInv
  BY DEF IInv
<1>1. ASSUME NEW k \in Kinds, CallBegins(k) PROVE TriedInv'
  <2>1. now' = now /\ tried' \in {tried, now} /\ (last' = last \/ (last' = now /\ tried' = now))
    BY <1>0, <1>1, BeginsDoes DEF CallBegins, Begun
  <2>2. QED  BY <1>0, <2>1 DEF TriedInv, TypeOK
<1>2. ASSUME AppMints PROVE TriedInv'
  BY <1>0, <1>2 DEF TypeOK, TriedInv, AppMints, gate, history
<1>3. ASSUME MintArrives PROVE TriedInv'
  <2>1. now' = now /\ tried' \in {tried, now} /\ (last' = last \/ (last' = now /\ tried' = now))
    BY <1>0, <1>3, BeginsDoes DEF MintArrives, Begun
  <2>2. QED  BY <1>0, <2>1 DEF TriedInv, TypeOK
<1>4. ASSUME MintFails PROVE TriedInv'
  BY <1>0, <1>4 DEF TypeOK, TriedInv, MintFails, gate, history
<1>5. ASSUME PortalExchanges PROVE TriedInv'
  BY <1>0, <1>5 DEF TypeOK, TriedInv, PortalExchanges, gate, history
<1>6. ASSUME ExchangeArrives PROVE TriedInv'
  BY <1>0, <1>6 DEF TypeOK, TriedInv, ExchangeArrives, gate, history
<1>7. ASSUME ExchangeRefused PROVE TriedInv'
  BY <1>0, <1>7 DEF TypeOK, TriedInv, ExchangeRefused, gate, history
<1>8. ASSUME ExchangeFails PROVE TriedInv'
  BY <1>0, <1>8 DEF TypeOK, TriedInv, ExchangeFails, gate, history
<1>9. ASSUME ExchangeCut PROVE TriedInv'
  BY <1>0, <1>9 DEF TypeOK, TriedInv, ExchangeCut, gate, history
<1>10. ASSUME AppAnswers PROVE TriedInv'
  BY <1>0, <1>10 DEF TypeOK, TriedInv, AppAnswers, gate, history
<1>11. ASSUME RegisterArrives PROVE TriedInv'
  BY <1>0, <1>11 DEF TypeOK, TriedInv, RegisterArrives, gate, history
<1>12. ASSUME RegisterUnreached PROVE TriedInv'
  BY <1>0, <1>12 DEF TypeOK, TriedInv, RegisterUnreached, gate, history
<1>13. ASSUME RegisterUnknown PROVE TriedInv'
  BY <1>0, <1>13 DEF TypeOK, TriedInv, RegisterUnknown, gate, history
<1>14. ASSUME Revokes PROVE TriedInv'
  BY <1>0, <1>14 DEF TypeOK, TriedInv, Revokes, gate, history
<1>15. ASSUME Notice PROVE TriedInv'
  BY <1>0, <1>15 DEF TypeOK, TriedInv, Notice, gate, history
<1>16. ASSUME Cancelled PROVE TriedInv'
  BY <1>0, <1>16 DEF TypeOK, TriedInv, Cancelled, gate, history
<1>17. ASSUME NEW p \in Pats, LateArrives(p) PROVE TriedInv'
  BY <1>0, <1>17 DEF TypeOK, TriedInv, LateArrives, gate, history
<1>18. ASSUME TokenOver PROVE TriedInv'
  BY <1>0, <1>18 DEF TypeOK, TriedInv, TokenOver, gate, history
<1>19. ASSUME AppChanges PROVE TriedInv'
  BY <1>0, <1>19 DEF TypeOK, TriedInv, AppChanges, gate, history
<1>20. ASSUME Tick PROVE TriedInv'
  BY <1>0, <1>20 DEF TypeOK, TriedInv, Tick, gate, history
<1>21. ASSUME UNCHANGED vars PROVE TriedInv'
  BY <1>0, <1>21 DEF TriedInv, vars, gate, history
<1>22. QED  BY <1>1, <1>2, <1>3, <1>4, <1>5, <1>6, <1>7, <1>8, <1>9, <1>10, <1>11, <1>12,
   <1>13, <1>14, <1>15, <1>16, <1>17, <1>18, <1>19, <1>20, <1>21 DEF Next, Outside

(* Each step is one of Custody, or changes nothing that Custody sees.      *)
LEMMA StepRefines == ASSUME IInv, [Next]_vars PROVE [C!Next]_States
<1> USE HandoffAssumption DEF Pats
<1>0. TypeOK /\ CustodyInv /\ TriedInv
  BY DEF IInv
<1>1. ASSUME NEW k \in Kinds, CallBegins(k) PROVE [C!Next]_States
  <2>1. app' = app /\ made' = made /\ pats' = pats
    BY <1>1 DEF CallBegins, outside
  <2>2. QED  BY <2>1, Unseen
<1>2. ASSUME AppMints PROVE [C!Next]_States
  <2>1. app' = app /\ made' = made /\ pats' = pats
    BY <1>2 DEF AppMints, outside
  <2>2. QED  BY <2>1, Unseen
<1>3. ASSUME MintArrives PROVE [C!Next]_States
  <2>1. app' = app /\ made' = made /\ pats' = pats
    BY <1>3 DEF MintArrives, outside
  <2>2. QED  BY <2>1, Unseen
<1>4. ASSUME MintFails PROVE [C!Next]_States
  <2>1. app' = app /\ made' = made /\ pats' = pats
    BY <1>4 DEF MintFails, outside
  <2>2. QED  BY <2>1, Unseen
<1>5. ASSUME PortalExchanges PROVE [C!Next]_States
  <2>1. made' \in Pats /\ made' = made + 1 /\ app' = app /\ \A q \in Pats : pats'[q].end = pats[q].end
    BY <1>0, <1>5 DEF PortalExchanges, TypeOK
  <2>2. States[made'] = "unborn" /\ States'[made'] = "loose"
    BY <1>0, <2>1 DEF States, Fate, CustodyInv, TypeOK
  <2>3. \A q \in Pats : q # made' => States'[q] = States[q]
    BY <1>0, <2>1 DEF States, Fate, TypeOK
  <2>4. C!Exchange(made')
    BY <2>1, <2>2, <2>3 DEF C!Exchange, States
  <2>5. QED  BY <2>1, <2>4 DEF C!Next
<1>6. ASSUME ExchangeArrives PROVE [C!Next]_States
  <2>1. app' = app /\ made' = made /\ pats' = pats
    BY <1>6 DEF ExchangeArrives, outside
  <2>2. QED  BY <2>1, Unseen
<1>7. ASSUME ExchangeRefused PROVE [C!Next]_States
  <2>1. app' = app /\ made' = made /\ pats' = pats
    BY <1>7 DEF ExchangeRefused, outside
  <2>2. QED  BY <2>1, Unseen
<1>8. ASSUME ExchangeFails PROVE [C!Next]_States
  <2>1. app' = app /\ made' = made /\ pats' = pats
    BY <1>8 DEF ExchangeFails, outside
  <2>2. QED  BY <2>1, Unseen
<1>9. ASSUME ExchangeCut PROVE [C!Next]_States
  <2>1. app' = app /\ made' = made /\ pats' = pats
    BY <1>9 DEF ExchangeCut, outside
  <2>2. QED  BY <2>1, Unseen
<1>10. ASSUME AppAnswers PROVE [C!Next]_States
  <2>1. made' = made
    BY <1>10 DEF AppAnswers
  <2>2. CASE cur.pat # NONE /\ Keeps(cur.pat)
    <3>1. InHand(cur.pat) /\ cur.pat \in Pats
      BY <1>0, <1>10, <2>2 DEF AppAnswers, CustodyInv, TypeOK, InHand
    <3>2. QED  BY <1>0, <2>1, <2>2, <3>1, KeepsTakes DEF InHand, C!Next
  <2>3. CASE app'.has = app.has /\ pats' = pats
    BY <2>1, <2>3, Unseen
  <2>4. QED  BY <1>0, <1>10, <2>2, <2>3 DEF AppAnswers, TypeOK
<1>11. ASSUME RegisterArrives PROVE [C!Next]_States
  <2>1. app' = app /\ made' = made /\ pats' = pats
    BY <1>11 DEF RegisterArrives, outside
  <2>2. QED  BY <2>1, Unseen
<1>12. ASSUME RegisterUnreached PROVE [C!Next]_States
  <2>1. app' = app /\ made' = made /\ pats' = pats
    BY <1>12 DEF RegisterUnreached, outside
  <2>2. QED  BY <2>1, Unseen
<1>13. ASSUME RegisterUnknown PROVE [C!Next]_States
  <2>1. app' = app /\ made' = made /\ pats' = pats
    BY <1>13 DEF RegisterUnknown, outside
  <2>2. QED  BY <2>1, Unseen
<1>14. ASSUME Revokes PROVE [C!Next]_States
  <2>1. app' = app /\ made' = made /\ cur.pat \in Pats /\ InHand(cur.pat)
    BY <1>0, <1>14 DEF Revokes, CustodyInv, InHand, TypeOK
  <2>2. CASE pats' = [pats EXCEPT ![cur.pat].end = "gateway"]
    <3>1. pats'[cur.pat].end = "gateway" /\ \A q \in Pats : q # cur.pat => pats'[q] = pats[q]
      BY <1>0, <2>1, <2>2 DEF TypeOK
    <3>2. States[cur.pat] = "loose" /\ States'[cur.pat] = "dropped"
      BY <1>0, <2>1, <3>1 DEF States, Fate, InHand, TypeOK
    <3>3. \A q \in Pats : q # cur.pat => Fate(q)' = Fate(q)
      BY <2>1, <3>1 DEF Fate
    <3>4. C!Drop(cur.pat)
      BY <2>1, <3>2, <3>3 DEF C!Drop, States
    <3>5. QED  BY <2>1, <3>4 DEF C!Next
  <2>3. CASE pats' = pats
    BY <2>1, <2>3, Unseen
  <2>4. QED  BY <1>14, <2>2, <2>3 DEF Revokes
<1>15. ASSUME Notice PROVE [C!Next]_States
  <2>1. app'.has = app.has /\ made' = made /\ pats' = pats
    BY <1>0, <1>15 DEF TypeOK, Notice, outside
  <2>2. QED  BY <2>1, Unseen
<1>16. ASSUME Cancelled PROVE [C!Next]_States
  <2>1. app' = app /\ made' = made /\ pats' = pats
    BY <1>16 DEF Cancelled, outside
  <2>2. QED  BY <2>1, Unseen
<1>17. ASSUME NEW p \in Pats, LateArrives(p) PROVE [C!Next]_States
  <2>1. made' = made /\ p # app.has /\ pats[p].end = "no" /\ p \in 1..made /\ Keeps(p)
    BY <1>0, <1>17 DEF LateArrives, CustodyInv, TypeOK
  <2>2. QED  BY <1>0, <2>1, KeepsTakes DEF C!Next
<1>18. ASSUME TokenOver PROVE [C!Next]_States
  <2>1. app' = app /\ made' = made /\ pats' = pats
    BY <1>18 DEF TokenOver, outside
  <2>2. QED  BY <2>1, Unseen
<1>19. ASSUME AppChanges PROVE [C!Next]_States
  <2>1. app'.has = app.has /\ made' = made /\ pats' = pats
    BY <1>0, <1>19 DEF TypeOK, AppChanges, outside
  <2>2. QED  BY <2>1, Unseen
<1>20. ASSUME Tick PROVE [C!Next]_States
  <2>1. app' = app /\ made' = made /\ pats' = pats
    BY <1>20 DEF Tick, outside
  <2>2. QED  BY <2>1, Unseen
<1>21. ASSUME UNCHANGED vars PROVE [C!Next]_States
  <2>1. app' = app /\ made' = made /\ pats' = pats
    BY <1>21 DEF vars, outside
  <2>2. QED  BY <2>1, Unseen
<1>22. QED  BY <1>1, <1>2, <1>3, <1>4, <1>5, <1>6, <1>7, <1>8, <1>9, <1>10, <1>11, <1>12,
   <1>13, <1>14, <1>15, <1>16, <1>17, <1>18, <1>19, <1>20, <1>21 DEF Next, Outside

(* IInv holds to begin with.                                               *)
LEMMA InitInv == Init => IInv
<1> SUFFICES ASSUME Init PROVE IInv
  OBVIOUS
<1> USE HandoffAssumption DEF Pats
<1>1. cur \in CurRec
  BY NobodyIsCall DEF Init
<1>2. TypeOK
  <2>1. app \in [needs : {NONE, "mcp", "bridge"}, has : Pats \cup {NONE}, rests : BOOLEAN]
    BY DEF Init
  <2>2. pats \in [Pats -> [bridge : BOOLEAN, end : {"no", "app", "gateway"}]]
    BY DEF Init
  <2>3. /\ spec \in BOOLEAN /\ now \in Nat /\ tried = NONE /\ hit \in BOOLEAN /\ wish = NONE
        /\ said = NONE /\ made \in 0..MaxPats /\ late = {} /\ last = NONE /\ closed = {}
        /\ events \in Nat
    <3>1. Init => made \in 0..MaxPats
      BY DEF Init
    <3>2. QED  BY <3>1 DEF Init
  <2>4. QED  BY <1>1, <2>1, <2>2, <2>3 DEF TypeOK, CurRec
<1>3. CustodyInv /\ TriedInv
  BY DEF Init, CustodyInv, TriedInv, InHand, Nobody
<1>4. QED  BY <1>2, <1>3 DEF IInv

(* Each step preserves IInv.                                               *)
LEMMA StepInv == ASSUME IInv, [Next]_vars PROVE IInv'
  BY TypePreserved, CustodyPreserved, TriedPreserved DEF IInv

(* IInv always holds.                                                      *)
LEMMA Invariance == Spec => []IInv
<1>1. IInv /\ [Next]_vars => IInv'
  BY StepInv
<1>2. QED  BY InitInv, <1>1, PTL DEF Spec

(* Every variable stays in its type.                                       *)
THEOREM TypeCorrect == Spec => []TypeOK
<1>1. IInv => TypeOK
  BY DEF IInv
<1>2. QED  BY Invariance, <1>1, PTL

(* A PAT in the hands of the app is over only when the app takes another:  *)
(* PatHandoff implements Custody.                                          *)
THEOREM HandoffKeepsCustody == Spec => KeepsCustody
<1>1. Init => C!Init
  BY HandoffAssumption DEF Init, C!Init, Fate, Pats
<1>2. IInv /\ [Next]_vars => [C!Next]_States
  BY StepRefines
<1>3. QED  BY Invariance, <1>1, <1>2, PTL DEF Spec, KeepsCustody, C!Spec, States

(* The app never holds two PATs, nor one that was dropped: Custody promises*)
(* it, and PatHandoff implements Custody.                                  *)
THEOREM NeverTwo == Spec => []C!OneHeld
<1>1. C!Init => C!OneHeld
  BY DEF C!Init, C!OneHeld, States
<1>2. C!OneHeld /\ [C!Next]_States => C!OneHeld'
  <2>1. ASSUME C!OneHeld, NEW p \in Pats, C!Exchange(p) \/ C!Take(p) \/ C!Drop(p) PROVE C!OneHeld'
    BY <2>1 DEF C!OneHeld, C!Exchange, C!Take, C!Drop
  <2>2. ASSUME C!OneHeld, UNCHANGED States PROVE C!OneHeld'
    BY <2>2 DEF C!OneHeld, States
  <2>3. QED  BY <2>1, <2>2 DEF C!Next
<1>3. QED  BY HandoffKeepsCustody, <1>1, <1>2, PTL DEF KeepsCustody, C!Spec, States

(* The portal is asked for an exchange once in the time of rest.           *)
THEOREM OneExchange == Spec => OneExchangePerRest
<1>1. ASSUME IInv, [Next]_vars, cur.pc # "exchange", cur'.pc = "exchange", last # NONE
      PROVE  now - last >= Cooldown
  <2>0. TypeOK /\ CustodyInv /\ TriedInv
    BY <1>1 DEF IInv
  <2>1. Cooled
    <3>1. ASSUME NEW k \in Kinds, CallBegins(k) PROVE Cooled
      BY <1>1, <2>0, <3>1, BeginsDoes DEF Begun
    <3>2. ASSUME MintArrives PROVE Cooled
      BY <1>1, <2>0, <3>2, BeginsDoes DEF Begun
    <3>3. ASSUME cur' = cur PROVE FALSE
      BY <1>1, <3>3
    <3>4. ASSUME cur' = Nobody PROVE FALSE
      BY <1>1, <3>4 DEF Nobody
    <3>5. ASSUME AppMints \/ PortalExchanges \/ ExchangeArrives \/ ExchangeRefused \/ ExchangeFails
          PROVE  FALSE
      BY <1>1, <2>0, <3>5 DEF TypeOK, AppMints, PortalExchanges, ExchangeArrives,
         ExchangeRefused, ExchangeFails
    <3>6. ASSUME AppAnswers PROVE FALSE
      BY <1>1, <2>0, <3>6 DEF TypeOK, AppAnswers
    <3>7. ASSUME RegisterArrives \/ RegisterUnreached \/ RegisterUnknown PROVE FALSE
      BY <1>1, <2>0, <3>7, <3>4 DEF TypeOK, RegisterArrives, RegisterUnreached, RegisterUnknown,
         Ends, Serve
    <3>8. MintFails \/ ExchangeCut \/ Revokes \/ Notice \/ Cancelled => cur' = Nobody
      BY DEF MintFails, ExchangeCut, Revokes, Notice, Cancelled, Serve
    <3>9. Outside \/ UNCHANGED vars => cur' = cur
      BY DEF Outside, LateArrives, TokenOver, AppChanges, Tick, vars
    <3>10. QED  BY <1>1, <3>1, <3>2, <3>3, <3>4, <3>5, <3>6, <3>7, <3>8, <3>9 DEF Next
  <2>2. QED  BY <1>1, <2>0, <2>1, HandoffAssumption DEF Cooled, TriedInv, TypeOK
<1>2. QED  BY Invariance, <1>1, PTL DEF Spec, OneExchangePerRest

(* While a token is good that was minted with a wish for which nothing has *)
(* come up since: no call has the lock, and the wish is kept; or one has   *)
(* it, for that wish, and ends with it kept - only what would be put back  *)
(* is transient -, or cut off where it is kept already.                    *)
WishInv ==
    /\ cur.pc \in {"mint", "minted"} => ~hit /\ cur.cached = FALSE
    /\ hit /\ said # NONE /\ closed = {} =>
          /\ cur.pc = "idle" => wish = said
          /\ cur.pc # "idle" => cur.want = said /\ cur.pc # "notice" /\ (cur.cached => wish = said)
          /\ cur.pc = "register" /\ cur.pat = NONE => cur.transient = TRUE
          /\ cur.pc = "register" /\ cur.pat # NONE => cur.told \in {NONE, "5xx"}
          /\ cur.pc = "revoke" => cur.transient = TRUE

(* A handoff that begins, with no reason to forget the wish: it is kept,   *)
(* or an exchange is made for it.                                          *)
LEMMA HandsOverWish ==
    ASSUME NEW c \in CurRec, NEW w, NEW cl \in SUBSET Reasons, HandsOver(c, w, cl), closed' = {}
    PROVE  /\ cl = {}
           /\ \/ cur' = Nobody /\ wish' = w
              \/ /\ cur'.pc = "exchange" /\ cur'.want = w /\ cur'.cached = c.cached
                 /\ wish' = wish
<1>1. CASE Skips(w, c.kind)[1] = "no"
  <2>1. closed' = cl /\ wish' = wish /\ cur' = [c EXCEPT !.pc = "exchange", !.want = w]
    BY <1>1 DEF HandsOver
  <2>2. QED  BY <2>1 DEF CurRec
<1>2. CASE Skips(w, c.kind)[1] = "config"
  <2>1. "config" \in closed'
    BY <1>2 DEF HandsOver
  <2>2. QED  BY <2>1
<1>3. CASE Skips(w, c.kind)[1] = "short"
  <2>1. "short" \in closed'
    BY <1>3 DEF HandsOver
  <2>2. QED  BY <2>1
<1>4. CASE Skips(w, c.kind)[1] \in {"other", "rests"}
  <2>1. Skips(w, c.kind)[2] = TRUE
    BY <1>4 DEF Skips
  <2>2. Serve(w, TRUE) /\ cl \subseteq closed'
    BY <1>4, <2>1 DEF HandsOver
  <2>3. QED  BY <2>2 DEF Serve
<1>5. QED  BY <1>1, <1>2, <1>3, <1>4 DEF Skips

(* Each step keeps WishInv.                                                *)
LEMMA WishPreserved == ASSUME IInv, WishInv, [Next]_vars PROVE WishInv'
<1>0. TypeOK /\ CustodyInv /\ cur \in CurRec /\ closed \in SUBSET Reasons /\ {} \in SUBSET Reasons
  BY DEF IInv, TypeOK, CurRec, Reasons
<1>1. ASSUME NEW k \in Kinds, CallBegins(k) PROVE WishInv'
  <2>1. hit' = hit /\ said' = said /\ cur.pc = "idle"
    BY <1>1 DEF CallBegins
  <2>2. CASE hit /\ HandsOver([Nobody EXCEPT !.kind = k, !.cached = TRUE], wish, closed)
    <3>1. PICK c : c = [Nobody EXCEPT !.kind = k, !.cached = TRUE]
      OBVIOUS
    <3>2. c \in CurRec /\ c.pat = NONE /\ c.told = NONE /\ HandsOver(c, wish, closed)
      BY <2>2, <3>1, CachedCall
    <3>3. cur'.pc \in {"idle", "notice", "exchange"}
      BY <1>0, <3>2, HandsOverDoes DEF Begun, TypeOK
    <3>4. CASE said # NONE /\ closed' = {}
      <4>1. wish = said
        BY <1>0, <2>1, <2>2, <3>2, <3>4, HandsOverWish DEF WishInv
      <4>2. QED  BY <1>0, <2>1, <3>2, <3>4, <4>1, HandsOverWish DEF WishInv, Nobody
    <3>5. QED  BY <2>1, <3>3, <3>4 DEF WishInv
  <2>3. CASE ~hit /\ cur' = [Nobody EXCEPT !.kind = k, !.pc = "mint"]
    BY <2>1, <2>3 DEF WishInv, Nobody
  <2>4. QED  BY <1>1, <2>2, <2>3 DEF CallBegins
<1>2. ASSUME AppMints PROVE WishInv'
  BY <1>0, <1>2 DEF AppMints, WishInv, gate, history, CurRec
<1>3. ASSUME MintArrives PROVE WishInv'
  <2>1. said' = cur.want
    BY <1>3 DEF MintArrives
  <2>2. CASE cur.want = NONE
    BY <1>3, <2>2 DEF MintArrives, WishInv, Nobody
  <2>3. CASE HandsOver(cur, cur.want, {})
    <3>1. cur'.pc \in {"idle", "notice", "exchange"}
      <4>1. cur.pat = NONE /\ cur.told = NONE /\ cur.want \in {NONE, "mcp", "bridge"}
        BY <1>0, <1>3 DEF MintArrives, CustodyInv, CurRec
      <4>2. QED  BY <1>0, <2>3, <4>1, HandsOverDoes DEF Begun
    <3>2. CASE closed' = {}
      <4>1. cur.cached = FALSE
        BY <1>3 DEF MintArrives, WishInv
      <4>2. QED  BY <1>0, <2>1, <2>3, <3>2, <4>1, HandsOverWish DEF WishInv, Nobody
    <3>3. QED  BY <3>1, <3>2 DEF WishInv
  <2>4. QED  BY <1>3, <2>2, <2>3 DEF MintArrives
<1>4. ASSUME MintFails PROVE WishInv'
  BY <1>4 DEF MintFails, WishInv, Nobody, gate, history
<1>5. ASSUME PortalExchanges PROVE WishInv'
  <2>1. cur'.pc = "exchanged" /\ cur'.want = cur.want /\ cur'.cached = cur.cached
    BY <1>0, <1>5 DEF PortalExchanges, CurRec
  <2>2. QED  BY <1>5, <2>1 DEF PortalExchanges, WishInv, gate, history
<1>6. ASSUME ExchangeArrives PROVE WishInv'
  <2>1. /\ cur'.pc = "register" /\ cur'.want = cur.want /\ cur'.cached = cur.cached
        /\ cur'.pat = cur.pat /\ cur'.told = cur.told
    BY <1>0, <1>6 DEF ExchangeArrives, CurRec
  <2>2. cur.pat # NONE /\ cur.told = NONE
    BY <1>0, <1>6 DEF ExchangeArrives, CustodyInv
  <2>3. QED  BY <1>6, <2>1, <2>2 DEF ExchangeArrives, WishInv, gate, history
<1>7. ASSUME ExchangeRefused PROVE WishInv'
  <2>1. closed' # {} /\ cur'.pc = "register"
    BY <1>0, <1>7 DEF ExchangeRefused, CurRec
  <2>2. QED  BY <2>1 DEF WishInv
<1>8. ASSUME ExchangeFails PROVE WishInv'
  <2>1. /\ cur'.pc = "register" /\ cur'.want = cur.want /\ cur'.cached = cur.cached
        /\ cur'.pat = NONE /\ cur'.transient = TRUE
    BY <1>0, <1>8 DEF ExchangeFails, CurRec
  <2>2. QED  BY <1>8, <2>1 DEF ExchangeFails, WishInv, gate, history
<1>9. ASSUME ExchangeCut PROVE WishInv'
  BY <1>9 DEF ExchangeCut, Serve, Nobody, WishInv, outside, history
<1>10. ASSUME AppAnswers PROVE WishInv'
  <2>1. PICK a \in {"200", "3xx", "4xx", "5xx"} : cur' = [cur EXCEPT !.told = a]
    BY <1>10 DEF AppAnswers
  <2>2. /\ cur'.pc = "register" /\ cur'.want = cur.want /\ cur'.cached = cur.cached
        /\ cur'.pat = cur.pat /\ cur'.transient = cur.transient /\ cur'.told = a
    BY <1>0, <1>10, <2>1 DEF AppAnswers, CurRec
  <2>3. closed' = {} => closed = {} /\ (cur.pat # NONE => a = "5xx")
    <3>1. CASE "app" \in closed'
      BY <3>1
    <3>2. CASE closed' = closed /\ cur.pat = NONE
      BY <3>2
    <3>3. CASE closed' = closed /\ cur' = [cur EXCEPT !.told = "5xx"]
      <4>1. cur'.told = "5xx"
        BY <1>0, <3>3 DEF CurRec
      <4>2. QED  BY <2>2, <3>3, <4>1
    <3>4. QED  BY <1>10, <3>1, <3>2, <3>3 DEF AppAnswers
  <2>4. hit' = hit /\ wish' = wish /\ said' = said /\ cur.pc = "register"
    BY <1>10 DEF AppAnswers, gate
  <2>5. QED  BY <2>2, <2>3, <2>4 DEF WishInv
<1>11. ASSUME NEW o, Ends(o), (o = cur.told /\ o # NONE) \/ o \in {"unreached", "unknown"},
              cur.pc = "register", hit' = hit, said' = said, closed' = closed
       PROVE  WishInv'
  <2>1. CASE hit /\ said # NONE /\ closed = {}
    <3>1. /\ cur.want = said /\ (cur.cached => wish = said)
          /\ (cur.pat = NONE => cur.transient = TRUE) /\ (cur.pat # NONE => o \in {"5xx", "unreached", "unknown"})
      BY <1>11, <2>1 DEF WishInv
    <3>2. CASE cur.pat # NONE /\ o = "unreached"
      <4>1. cur' = [cur EXCEPT !.pc = "revoke", !.transient = TRUE] /\ wish' = wish
        BY <1>11, <3>2 DEF Ends
      <4>2. QED  BY <1>0, <1>11, <3>1, <4>1 DEF WishInv, CurRec
    <3>3. CASE ~(cur.pat # NONE /\ o = "unreached")
      <4>1. wish' = cur.want /\ cur' = Nobody
        BY <1>11, <3>1, <3>3 DEF Ends, Serve
      <4>2. QED  BY <1>11, <3>1, <4>1 DEF WishInv, Nobody
    <3>4. QED  BY <3>2, <3>3
  <2>2. CASE ~(hit /\ said # NONE /\ closed = {})
    <3>1. cur'.pc \in {"idle", "revoke"}
      <4>1. cur' = Nobody \/ \E t : cur' = [cur EXCEPT !.pc = "revoke", !.transient = t]
        BY <1>11 DEF Ends, Serve
      <4>2. CASE cur' = Nobody
        BY <4>2 DEF Nobody
      <4>3. ASSUME NEW t, cur' = [cur EXCEPT !.pc = "revoke", !.transient = t] PROVE cur'.pc = "revoke"
        BY <1>0, <4>3 DEF CurRec
      <4>4. QED  BY <4>1, <4>2, <4>3
    <3>2. QED  BY <1>11, <2>2, <3>1 DEF WishInv
  <2>3. QED  BY <2>1, <2>2
<1>12. ASSUME RegisterArrives PROVE WishInv'
  BY <1>11, <1>12 DEF RegisterArrives, history
<1>13. ASSUME RegisterUnreached PROVE WishInv'
  BY <1>11, <1>13 DEF RegisterUnreached, history
<1>14. ASSUME RegisterUnknown PROVE WishInv'
  BY <1>11, <1>14 DEF RegisterUnknown, history
<1>15. ASSUME Revokes PROVE WishInv'
  BY <1>15 DEF Revokes, Serve, Nobody, WishInv, history
<1>16. ASSUME Notice PROVE WishInv'
  BY <1>16 DEF Notice, Serve, Nobody, WishInv, history
<1>17. ASSUME Cancelled PROVE WishInv'
  <2>1. cur' = Nobody /\ hit' = hit /\ wish' = wish /\ said' = said /\ cur.pc # "idle"
    BY <1>17 DEF Cancelled, gate
  <2>2. closed' = {} => closed = {} /\ (cur.cached \/ cur.pc \in {"mint", "minted"})
    BY <1>17 DEF Cancelled
  <2>3. QED  BY <2>1, <2>2 DEF WishInv, Nobody
<1>18. ASSUME Outside \/ UNCHANGED vars PROVE WishInv'
  <2>1. cur' = cur /\ wish' = wish /\ said' = said /\ closed' = closed
    BY <1>18 DEF Outside, LateArrives, TokenOver, AppChanges, Tick, vars, gate, history
  <2>2. hit' = hit \/ hit' = FALSE
    BY <1>18 DEF Outside, LateArrives, TokenOver, AppChanges, Tick, vars, gate, history
  <2>3. QED  BY <2>1, <2>2 DEF WishInv
<1>19. QED  BY <1>1, <1>2, <1>3, <1>4, <1>5, <1>6, <1>7, <1>8, <1>9, <1>10, <1>12, <1>13, <1>14,
   <1>15, <1>16, <1>17, <1>18 DEF Next

(* What the app wanted with its last token stays wanted until one of the   *)
(* reasons to forget it has come up (_portal_pat_serve).                   *)
THEOREM WishKept == Spec => []WishStays
<1>1. Init => WishInv
  BY DEF Init, WishInv, Nobody
<1>2. IInv /\ WishInv /\ [Next]_vars => WishInv'
  BY WishPreserved
<1>3. WishInv => WishStays
  BY DEF WishInv, WishStays
<1>4. QED  BY Invariance, <1>1, <1>2, <1>3, PTL DEF Spec
=============================================================================
