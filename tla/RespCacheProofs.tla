--------------------------- MODULE RespCacheProofs ---------------------------
(***************************************************************************)
(* Proofs about RespCache, for every set of calls, backends, users and     *)
(* queries and every bound: whose answers the cache gives, that only a     *)
(* call that overlaps a flush can leave something stale in it, and - from  *)
(* lemmas about sums over finite sets and lists without repetition - that  *)
(* it keeps within its limits.                                             *)
(***************************************************************************)
EXTENDS RespCache, FiniteSetTheorems, WellFoundedInduction, TLAPS

(* Dropping keys leaves the others as they are.                            *)
LEMMA DropOnly ==
    ASSUME TypeOK, NEW ks, Drop(ks)
    PROVE  /\ cache' \in [Keys -> EntryRecord \cup {NONE}]
           /\ \A k \in Keys : cache'[k] = IF k \in ks THEN NONE ELSE cache[k]
  BY DEF TypeOK, Drop

(* Storing an entry changes its own key, and may drop others.              *)
LEMMA PutOnly ==
    ASSUME TypeOK, NEW k \in Keys, NEW e \in EntryRecord, Put(k, e)
    PROVE  /\ cache' \in [Keys -> EntryRecord \cup {NONE}]
           /\ \A q \in Keys : cache'[q] = NONE \/ cache'[q] = IF q = k THEN e ELSE cache[q]
<1> DEFINE held == [cache EXCEPT ![k] = e]
<1>1. held \in [Keys -> EntryRecord \cup {NONE}] /\ \A q \in Keys : held[q] = IF q = k THEN e ELSE cache[q]
  BY DEF TypeOK
<1> DEFINE ks == Append(Without(order, {k}), k)
           n == Min({i \in 0 .. Len(ks) : Fits(held, SubSeq(ks, i + 1, Len(ks)))})
           gone == ToSet(SubSeq(ks, 1, n))
<1>2. cache' = [q \in Keys |-> IF q \in gone THEN NONE ELSE held[q]]
  BY Zenon DEF Put
<1> HIDE DEF ks, n, gone, held
<1>3. QED  BY <1>1, <1>2

(* Overtaking calls changes nothing but the history.                       *)
LEMMA OvertakeOnly ==
    ASSUME TypeOK, NEW C \in SUBSET Calls
    PROVE  /\ Overtake(C) \in [Calls -> CallRecord]
           /\ \A c \in Calls :
                 /\ Overtake(C)[c].backend = call[c].backend /\ Overtake(C)[c].user = call[c].user
                 /\ Overtake(C)[c].key = call[c].key /\ Overtake(C)[c].spec = call[c].spec
                 /\ Overtake(C)[c].conn = call[c].conn /\ Overtake(C)[c].data = call[c].data
                 /\ call[c].raced => Overtake(C)[c].raced
                 /\ c \in C /\ Busy(c) => Overtake(C)[c].raced
<1> DEFINE marked(c) == [call[c] EXCEPT !.raced = TRUE]
<1>1. call \in [Calls -> CallRecord]
  BY DEF TypeOK
<1>2. \A c \in Calls : Overtake(C)[c] = IF c \in C /\ Busy(c) THEN marked(c) ELSE call[c]
  BY DEF Overtake
<1>3. ASSUME NEW c \in Calls
      PROVE  /\ marked(c) \in CallRecord /\ marked(c).raced
             /\ marked(c).backend = call[c].backend /\ marked(c).user = call[c].user
             /\ marked(c).key = call[c].key /\ marked(c).spec = call[c].spec
             /\ marked(c).conn = call[c].conn /\ marked(c).data = call[c].data
  <2>1. call[c] \in CallRecord
    BY <1>1
  <2>2. QED  BY <2>1 DEF CallRecord
<1>4. Overtake(C) \in [Calls -> CallRecord]
  <2>1. \A c \in Calls : Overtake(C)[c] \in CallRecord
    BY <1>1, <1>2, <1>3
  <2>2. Overtake(C) = [c \in Calls |-> IF c \in C /\ Busy(c) THEN marked(c) ELSE call[c]]
    BY DEF Overtake
  <2>3. QED  BY <1>1, <1>3, <2>2
<1> HIDE DEF marked
<1>5. QED  BY <1>2, <1>3, <1>4

(* A call that sets out is refused at once, or asks for its connection, or *)
(* is sent, over a connection from the cache if it needs one.              *)
LEMMA DispatchOnly ==
    ASSUME TypeOK, NEW c \in Calls, NEW r \in CallRecord, NEW others \in [Calls -> CallRecord],
           r.backend \in Backends, r.user \in Users, Dispatch(c, r, others)
    PROVE  /\ pc' \in [Calls -> {"idle", "asking", "asked", "sent", "served"}]
           /\ call' \in [Calls -> CallRecord]
           /\ \A d \in Calls \ {c} : pc'[d] = pc[d] /\ call'[d] = others[d]
           /\ \/ pc'[c] = pc[c] /\ call'[c] = others[c]
              \/ /\ pc'[c] \in {"asking", "sent"}
                 /\ call'[c].backend = r.backend /\ call'[c].user = r.user /\ call'[c].key = r.key
                 /\ call'[c].spec = r.spec /\ call'[c].data = r.data
                 /\ r.raced => call'[c].raced
                 /\ pc'[c] = "asking" => r.backend \in Conn
                 /\ pc'[c] = "sent" /\ r.backend \in Conn =>
                       /\ links[<<r.backend, r.user>>] # NONE
                       /\ links[<<r.backend, r.user>>].conn # NONE
                       /\ call'[c].conn = links[<<r.backend, r.user>>].conn
                       /\ links[<<r.backend, r.user>>].raced => call'[c].raced
<1> DEFINE l == <<r.backend, r.user>>
<1>1. CASE /\ r.backend \in Conn /\ links[l] # NONE /\ links[l].conn \in Nat \ {0}
           /\ pc' = [pc EXCEPT ![c] = "sent"]
           /\ call' = [others EXCEPT ![c] = [r EXCEPT !.conn = links[l].conn,
                                                      !.raced = @ \/ links[l].raced]]
  <2> DEFINE s == [r EXCEPT !.conn = links[l].conn, !.raced = @ \/ links[l].raced]
  <2>1. l \in Links
    BY <1>1 DEF Links
  <2>2. links[l].raced \in BOOLEAN /\ links[l].conn \in Nat
    BY <1>1, <2>1 DEF TypeOK
  <2>3. /\ s \in CallRecord /\ s.backend = r.backend /\ s.user = r.user /\ s.key = r.key
        /\ s.spec = r.spec /\ s.data = r.data /\ s.conn = links[l].conn
        /\ s.raced = (r.raced \/ links[l].raced)
    BY <2>2 DEF CallRecord
  <2>4. links[l].conn # NONE
    BY <1>1, CacheAssumption
  <2>5. pc'[c] = "sent" /\ call'[c] = s
    BY <1>1 DEF TypeOK
  <2>6. pc' \in [Calls -> {"idle", "asking", "asked", "sent", "served"}] /\ call' \in [Calls -> CallRecord]
    BY <1>1, <2>3 DEF TypeOK
  <2>7. \A d \in Calls \ {c} : pc'[d] = pc[d] /\ call'[d] = others[d]
    BY <1>1 DEF TypeOK
  <2> HIDE DEF s
  <2>8. QED  BY <1>1, <2>3, <2>4, <2>5, <2>6, <2>7
<1>2. CASE r.backend \notin Conn /\ pc' = [pc EXCEPT ![c] = "sent"] /\ call' = [others EXCEPT ![c] = r]
  BY <1>2 DEF TypeOK
<1>3. CASE r.backend \in Conn /\ pc' = [pc EXCEPT ![c] = "asking"] /\ call' = [others EXCEPT ![c] = r]
  BY <1>3 DEF TypeOK
<1>4. CASE UNCHANGED pc /\ call' = others
  BY <1>4 DEF TypeOK
<1>5. QED  BY <1>1, <1>2, <1>3, <1>4 DEF Dispatch

(* What a read stores.                                                     *)
LEMMA EntryOf ==
    ASSUME TypeOK, KeyInv, NEW c \in Calls, Busy(c), NEW size \in 1 .. ItemMax
    PROVE  /\ Entry(c, size) \in EntryRecord
           /\ Entry(c, size).data = call[c].data /\ Entry(c, size).spec = call[c].spec
           /\ Entry(c, size).conn = call[c].conn /\ Entry(c, size).user = call[c].user
           /\ Entry(c, size).raced = call[c].raced
  BY DEF TypeOK, KeyInv, CallRecord, EntryRecord, Entry

(* A call that returns leaves nothing behind but its answer.               *)
LEMMA ReturnOnly ==
    ASSUME TypeOK, KeyInv, NEW c \in Calls, Busy(c), Return(c, call[c].user)
    PROVE  /\ pc' \in [Calls -> {"idle", "asking", "asked", "sent", "served"}]
           /\ call' \in [Calls -> CallRecord]
           /\ reply' = [to |-> call[c].user, of |-> call[c].user] /\ reply' \in [to : Users, of : Users]
           /\ pc'[c] = "idle" /\ \A d \in Calls \ {c} : pc'[d] = pc[d] /\ call'[d] = call[d]
  BY DEF TypeOK, KeyInv, Return, CallRecord, NoCall

(* The later of two writes.                                                *)
LEMMA MaxOf ==
    ASSUME NEW a \in Nat, NEW b \in Nat
    PROVE  Max({a, b}) \in {a, b} /\ Max({a, b}) >= a /\ Max({a, b}) >= b
<1> DEFINE m == IF a >= b THEN a ELSE b
<1>1. m \in {a, b} /\ \A y \in {a, b} : m >= y
  OBVIOUS
<1>2. Max({a, b}) \in {a, b} /\ \A y \in {a, b} : Max({a, b}) >= y
  BY <1>1, Zenon DEF Max
<1>3. QED  BY <1>2

(* What a read does when it misses, and sets out.                          *)
LEMMA MissOnly ==
    ASSUME TypeOK, NEW c \in Calls, NEW b \in Backends, NEW u \in Users, NEW q \in Queries,
           ReadMisses(c, b, q, u)
    PROVE  LET k == <<b, q, u>> IN
           /\ k \in Keys /\ k # NONE /\ ~Busy(c)
           /\ UNCHANGED <<data, orphans, conn, spec, links, reply, finished, told>>
           /\ cache' \in [Keys -> EntryRecord \cup {NONE}]
           /\ \A j \in Keys : cache'[j] = NONE \/ cache'[j] = cache[j]
           /\ pc' \in [Calls -> {"idle", "asking", "asked", "sent", "served"}]
           /\ call' \in [Calls -> CallRecord]
           /\ \A d \in Calls \ {c} : pc'[d] = pc[d] /\ call'[d] = call[d]
           /\ \/ pc'[c] = pc[c] /\ call'[c] = call[c]
              \/ /\ pc'[c] \in {"asking", "sent"}
                 /\ call'[c].backend = b /\ call'[c].user = u /\ call'[c].key = k
                 /\ call'[c].spec = spec[b] /\ (Writing(b) => call'[c].raced)
                 /\ pc'[c] = "asking" => b \in Conn
                 /\ pc'[c] = "sent" /\ b \in Conn =>
                       /\ links[<<b, u>>] # NONE /\ links[<<b, u>>].conn # NONE
                       /\ call'[c].conn = links[<<b, u>>].conn
                       /\ links[<<b, u>>].raced => call'[c].raced
<1> DEFINE k == <<b, q, u>>
           r == [NoCall EXCEPT !.backend = b, !.user = u, !.key = k, !.spec = spec[b], !.raced = Writing(b)]
<1>1. k \in Keys /\ k # NONE
  BY CacheAssumption DEF Keys
<1>2. Writing(b) \in BOOLEAN
  BY DEF Writing
<1>3. /\ r \in CallRecord /\ r.backend = b /\ r.user = u /\ r.key = k
      /\ r.spec = spec[b] /\ r.data = 0 /\ r.raced = Writing(b)
  BY <1>1, <1>2 DEF TypeOK, CallRecord, NoCall
<1>4. Drop({k}) /\ Dispatch(c, r, call) /\ ~Busy(c)
      /\ UNCHANGED <<data, orphans, conn, spec, links, reply, finished, told>>
  BY DEF ReadMisses, CacheKey, world
<1>5. call \in [Calls -> CallRecord]
  BY DEF TypeOK
<1> HIDE DEF r
<1>6. cache' \in [Keys -> EntryRecord \cup {NONE}] /\ \A j \in Keys : cache'[j] = NONE \/ cache'[j] = cache[j]
  BY <1>4, DropOnly
<1>7. /\ pc' \in [Calls -> {"idle", "asking", "asked", "sent", "served"}]
      /\ call' \in [Calls -> CallRecord]
      /\ \A d \in Calls \ {c} : pc'[d] = pc[d] /\ call'[d] = call[d]
      /\ \/ pc'[c] = pc[c] /\ call'[c] = call[c]
         \/ /\ pc'[c] \in {"asking", "sent"}
            /\ call'[c].backend = r.backend /\ call'[c].user = r.user /\ call'[c].key = r.key
            /\ call'[c].spec = r.spec /\ call'[c].data = r.data
            /\ r.raced => call'[c].raced
            /\ pc'[c] = "asking" => r.backend \in Conn
            /\ pc'[c] = "sent" /\ r.backend \in Conn =>
                  /\ links[<<r.backend, r.user>>] # NONE
                  /\ links[<<r.backend, r.user>>].conn # NONE
                  /\ call'[c].conn = links[<<r.backend, r.user>>].conn
                  /\ links[<<r.backend, r.user>>].raced => call'[c].raced
  BY <1>3, <1>4, <1>5, DispatchOnly
<1>8. QED  BY <1>1, <1>3, <1>4, <1>6, <1>7

(* What a write does when it sets out.                                     *)
LEMMA WriteOnly ==
    ASSUME TypeOK, NEW c \in Calls, NEW b \in Backends, NEW u \in Users, WriteBegins(c, b, u)
    PROVE  /\ ~Busy(c) /\ UNCHANGED <<data, orphans, conn, spec, links, reply, finished, told>>
           /\ cache' \in [Keys -> EntryRecord \cup {NONE}]
           /\ \A j \in Keys : cache'[j] = IF j[1] = b THEN NONE ELSE cache[j]
           /\ pc' \in [Calls -> {"idle", "asking", "asked", "sent", "served"}]
           /\ call' \in [Calls -> CallRecord]
           /\ \A d \in Calls \ {c} :
                 /\ pc'[d] = pc[d] /\ call'[d].backend = call[d].backend
                 /\ call'[d].user = call[d].user /\ call'[d].key = call[d].key
                 /\ call'[d].spec = call[d].spec /\ call'[d].conn = call[d].conn
                 /\ call'[d].data = call[d].data /\ (call[d].raced => call'[d].raced)
                 /\ Busy(d) /\ call[d].backend = b => call'[d].raced
           /\ \/ pc'[c] = pc[c]
              \/ /\ pc'[c] \in {"asking", "sent"}
                 /\ call'[c].backend = b /\ call'[c].user = u /\ call'[c].key = NONE
                 /\ call'[c].spec = spec[b]
                 /\ pc'[c] = "asking" => b \in Conn
                 /\ pc'[c] = "sent" /\ b \in Conn =>
                       /\ links[<<b, u>>] # NONE /\ links[<<b, u>>].conn # NONE
                       /\ call'[c].conn = links[<<b, u>>].conn
                       /\ links[<<b, u>>].raced => call'[c].raced
<1> DEFINE C == {d \in Calls : call[d].backend = b}
           others == Overtake(C)
           r == [NoCall EXCEPT !.backend = b, !.user = u, !.spec = spec[b]]
<1>1. /\ r \in CallRecord /\ r.backend = b /\ r.user = u /\ r.key = NONE /\ r.spec = spec[b]
  BY DEF TypeOK, CallRecord, NoCall
<1>2. Flush(b) /\ Dispatch(c, r, others) /\ ~Busy(c)
      /\ UNCHANGED <<data, orphans, conn, spec, links, reply, finished, told>>
  BY DEF WriteBegins, world
<1>3. /\ others \in [Calls -> CallRecord]
      /\ \A d \in Calls :
            /\ others[d].backend = call[d].backend /\ others[d].user = call[d].user
            /\ others[d].key = call[d].key /\ others[d].spec = call[d].spec
            /\ others[d].conn = call[d].conn /\ others[d].data = call[d].data
            /\ call[d].raced => others[d].raced
            /\ d \in C /\ Busy(d) => others[d].raced
  <2>1. C \in SUBSET Calls
    OBVIOUS
  <2>2. QED  BY <2>1, OvertakeOnly
<1>4. \A d \in Calls : call[d].backend = b => d \in C
  OBVIOUS
<1> HIDE DEF r, others, C
<1>5. cache' \in [Keys -> EntryRecord \cup {NONE}] /\ \A j \in Keys : cache'[j] = IF j[1] = b THEN NONE ELSE cache[j]
  <2>1. Drop({k \in Keys : k[1] = b})
    BY <1>2 DEF Flush
  <2>2. QED  BY <2>1, DropOnly
<1>6. /\ pc' \in [Calls -> {"idle", "asking", "asked", "sent", "served"}]
      /\ call' \in [Calls -> CallRecord]
      /\ \A d \in Calls \ {c} : pc'[d] = pc[d] /\ call'[d] = others[d]
      /\ \/ pc'[c] = pc[c] /\ call'[c] = others[c]
         \/ /\ pc'[c] \in {"asking", "sent"}
            /\ call'[c].backend = r.backend /\ call'[c].user = r.user /\ call'[c].key = r.key
            /\ call'[c].spec = r.spec /\ call'[c].data = r.data
            /\ r.raced => call'[c].raced
            /\ pc'[c] = "asking" => r.backend \in Conn
            /\ pc'[c] = "sent" /\ r.backend \in Conn =>
                  /\ links[<<r.backend, r.user>>] # NONE
                  /\ links[<<r.backend, r.user>>].conn # NONE
                  /\ call'[c].conn = links[<<r.backend, r.user>>].conn
                  /\ links[<<r.backend, r.user>>].raced => call'[c].raced
  BY <1>1, <1>2, <1>3, DispatchOnly
<1>7. QED  BY <1>1, <1>2, <1>3, <1>4, <1>5, <1>6


(* Each step keeps every variable in its type.                             *)
LEMMA TypePreserved == ASSUME IInv, [Next]_vars PROVE TypeOK'
<1> USE CacheAssumption
<1>0. TypeOK /\ KeyInv /\ WorldInv /\ FreshInv /\ OnlyOverlapGoesStale /\ OwnAnswers
  BY DEF IInv
<1>1. ASSUME NEW c \in Calls, NEW b \in Backends, NEW u \in Users, NEW q \in Queries, ReadHits(c, b, q, u) PROVE TypeOK'
  BY <1>0, <1>1 DEF TypeOK, CallRecord, EntryRecord, Keys, Links, KeyInv, Busy, ReadHits,
     CacheKey, world
<1>2. ASSUME NEW c \in Calls, NEW b \in Backends, NEW u \in Users, NEW q \in Queries, ReadMisses(c, b, q, u) PROVE TypeOK'
  BY <1>0, <1>2, MissOnly DEF TypeOK
<1>3. ASSUME NEW c \in Calls, NEW b \in Backends, NEW u \in Users, WriteBegins(c, b, u) PROVE TypeOK'
  <2>1. /\ UNCHANGED <<data, orphans, conn, spec, links, reply, finished, told>>
        /\ cache' \in [Keys -> EntryRecord \cup {NONE}]
        /\ pc' \in [Calls -> {"idle", "asking", "asked", "sent", "served"}]
        /\ call' \in [Calls -> CallRecord]
    BY <1>0, <1>3, WriteOnly
  <2>2. QED  BY <1>0, <2>1 DEF TypeOK
<1>4. ASSUME NEW c \in Calls, PortalLooksUp(c) PROVE TypeOK'
  <2>1. CallLink(c) \in Links
    BY <1>0, <1>4 DEF PortalLooksUp, KeyInv, Busy, CallLink, Links
  <2>2. [call[c] EXCEPT !.conn = conn[CallLink(c)]] \in CallRecord
    <3>1. call[c] \in CallRecord /\ conn[CallLink(c)] \in Nat
      BY <1>0, <2>1 DEF TypeOK
    <3>2. QED  BY <3>1 DEF CallRecord
  <2>3. call' \in [Calls -> CallRecord]
    BY <1>0, <1>4, <2>2 DEF TypeOK, PortalLooksUp
  <2>4. QED  BY <1>0, <1>4, <2>3 DEF TypeOK, PortalLooksUp, world
<1>5. ASSUME NEW c \in Calls, PortalAnswers(c) PROVE TypeOK'
  <2>1. [conn |-> call[c].conn, raced |-> call[c].raced] \in [conn : Nat \cup {NONE}, raced : BOOLEAN]
    BY <1>0 DEF TypeOK, CallRecord
  <2>2. links' \in [Links -> [conn : Nat \cup {NONE}, raced : BOOLEAN] \cup {NONE}]
    BY <1>0, <1>5, <2>1 DEF TypeOK, PortalAnswers
  <2>3. /\ pc' \in [Calls -> {"idle", "asking", "asked", "sent", "served"}]
        /\ call' \in [Calls -> CallRecord] /\ reply' \in [to : Users, of : Users] \cup {NONE}
    <3>1. CASE Return(c, call[c].user)
      BY <1>0, <1>5, <3>1, ReturnOnly DEF PortalAnswers, Busy
    <3>2. CASE pc' = [pc EXCEPT ![c] = "sent"] /\ UNCHANGED <<call, reply>>
      BY <1>0, <3>2 DEF TypeOK
    <3>3. QED  BY <1>5, <3>1, <3>2 DEF PortalAnswers
  <2>4. QED  BY <1>0, <1>5, <2>2, <2>3 DEF TypeOK, PortalAnswers, world
<1>6. ASSUME NEW c \in Calls, PortalFails(c) PROVE TypeOK'
  BY <1>0, <1>6 DEF TypeOK, CallRecord, EntryRecord, Keys, Links, KeyInv, Busy, PortalFails,
     Return, NoCall, world
<1>7. ASSUME NEW c \in Calls, Serve(c) PROVE TypeOK'
  BY <1>0, <1>7, SMTT(60) DEF TypeOK, CallRecord, EntryRecord, Keys, Links, KeyInv, Busy, Serve
<1>8. ASSUME NEW c \in Calls, NEW size \in 1 .. ItemMax + 1, ReadReturns(c, size) PROVE TypeOK'
  <2>1. Busy(c) /\ Return(c, call[c].user) /\ UNCHANGED <<world, links, finished, told>>
    BY <1>8 DEF ReadReturns, Busy
  <2>2. cache' \in [Keys -> EntryRecord \cup {NONE}]
    <3>1. CASE size <= ItemMax /\ Put(call[c].key, Entry(c, size))
      <4>1. call[c].key \in Keys /\ size \in 1 .. ItemMax
        BY <1>0, <1>8, <3>1 DEF TypeOK, CallRecord, ReadReturns
      <4>2. Entry(c, size) \in EntryRecord
        BY <1>0, <2>1, <4>1, EntryOf
      <4>3. QED  BY <1>0, <3>1, <4>1, <4>2, PutOnly
    <3>2. CASE cache' = cache
      BY <1>0, <3>2 DEF TypeOK
    <3>3. QED  BY <1>8, <3>1, <3>2 DEF ReadReturns
  <2>3. QED  BY <1>0, <2>1, <2>2, ReturnOnly DEF TypeOK, world
<1>9. ASSUME NEW c \in Calls, WriteReturns(c) PROVE TypeOK'
  <2>1. Busy(c) /\ Return(c, call[c].user) /\ UNCHANGED <<world, links, cache, told>>
    BY <1>9 DEF WriteReturns, Busy
  <2>2. call[c].backend \in Backends /\ finished[call[c].backend] \in Nat /\ call[c].data \in Nat
    BY <1>0, <2>1 DEF TypeOK, KeyInv, CallRecord
  <2>3. Max({finished[call[c].backend], call[c].data}) \in Nat
    BY <2>2, MaxOf
  <2>4. finished' \in [Backends -> Nat]
    BY <1>0, <1>9, <2>3 DEF TypeOK, WriteReturns
  <2>5. QED  BY <1>0, <2>1, <2>4, ReturnOnly DEF TypeOK, world
<1>10. ASSUME NEW c \in Calls, CallFails(c) PROVE TypeOK'
  BY <1>0, <1>10 DEF TypeOK, CallRecord, EntryRecord, Keys, Links, KeyInv, Busy, CallFails,
     Return, NoCall
<1>11. ASSUME NEW b \in Backends, OrphanServed(b) PROVE TypeOK'
  BY <1>0, <1>11 DEF TypeOK, CallRecord, EntryRecord, Keys, Links, KeyInv, Busy, OrphanServed
<1>12. ASSUME NEW l \in Links, ConnChanges(l) PROVE TypeOK'
  BY <1>0, <1>12 DEF TypeOK, CallRecord, EntryRecord, Keys, Links, KeyInv, Busy, ConnChanges
<1>13. ASSUME NEW us \in SUBSET Users, Invalidate(us) PROVE TypeOK'
  <2>1. cache' \in [Keys -> EntryRecord \cup {NONE}]
    BY <1>0, <1>13, DropOnly DEF Invalidate
  <2>2. call' \in [Calls -> CallRecord]
    BY <1>0, <1>13, OvertakeOnly DEF Invalidate, Announce
  <2>3. QED  BY <1>0, <1>13, <2>1, <2>2 DEF TypeOK, Invalidate, Announce, world
<1>14. ASSUME NEW b \in Backends, SpecChanges(b) PROVE TypeOK'
  <2>1. cache' \in [Keys -> EntryRecord \cup {NONE}]
    BY <1>0, <1>14, DropOnly DEF SpecChanges, Flush
  <2>2. call' \in [Calls -> CallRecord]
    BY <1>0, <1>14, OvertakeOnly DEF SpecChanges
  <2>3. QED  BY <1>0, <1>14, <2>1, <2>2 DEF TypeOK, SpecChanges
<1>15. ASSUME UNCHANGED vars PROVE TypeOK'
  BY <1>0, <1>15 DEF TypeOK, CallRecord, EntryRecord, Keys, Links, KeyInv, Busy, vars, world
<1>16. QED  BY <1>1, <1>2, <1>3, <1>4, <1>5, <1>6, <1>7, <1>8, <1>9, <1>10, <1>11, <1>12, <1>13,
   <1>14, <1>15 DEF Next, CallStep, PortalStep

(* Keys and entries keep naming their backend and their user.              *)
LEMMA KeyPreserved == ASSUME IInv, [Next]_vars PROVE KeyInv'
<1> USE CacheAssumption
<1>0. TypeOK /\ KeyInv /\ WorldInv /\ FreshInv /\ OnlyOverlapGoesStale /\ OwnAnswers
  BY DEF IInv
<1>1. ASSUME NEW c \in Calls, NEW b \in Backends, NEW u \in Users, NEW q \in Queries, ReadHits(c, b, q, u) PROVE KeyInv'
  BY <1>0, <1>1 DEF TypeOK, CallRecord, EntryRecord, Keys, Links, KeyInv, Busy, ReadHits,
     CacheKey, world
<1>2. ASSUME NEW c \in Calls, NEW b \in Backends, NEW u \in Users, NEW q \in Queries, ReadMisses(c, b, q, u) PROVE KeyInv'
  <2>1. /\ \A j \in Keys : cache'[j] = NONE \/ cache'[j] = cache[j]
        /\ \A d \in Calls \ {c} : pc'[d] = pc[d] /\ call'[d] = call[d]
        /\ \/ pc'[c] = "idle"
           \/ /\ pc'[c] \in {"asking", "sent"}
              /\ call'[c].backend = b /\ call'[c].user = u /\ call'[c].key = <<b, q, u>>
              /\ pc'[c] = "asking" => b \in Conn
    <3>1. /\ \A j \in Keys : cache'[j] = NONE \/ cache'[j] = cache[j]
          /\ \A d \in Calls \ {c} : pc'[d] = pc[d] /\ call'[d] = call[d]
      BY <1>0, <1>2, MissOnly
    <3>2. /\ ~Busy(c)
          /\ \/ pc'[c] = pc[c]
             \/ /\ pc'[c] \in {"asking", "sent"}
                /\ call'[c].backend = b /\ call'[c].user = u /\ call'[c].key = <<b, q, u>>
                /\ pc'[c] = "asking" => b \in Conn
      BY <1>0, <1>2, MissOnly
    <3>3. QED  BY <3>1, <3>2 DEF Busy
  <2>2. QED  BY <1>0, <2>1 DEF KeyInv, Busy
<1>3. ASSUME NEW c \in Calls, NEW b \in Backends, NEW u \in Users, WriteBegins(c, b, u) PROVE KeyInv'
  <2>1. /\ UNCHANGED <<data, spec, links, finished, told>>
        /\ \A j \in Keys : cache'[j] = IF j[1] = b THEN NONE ELSE cache[j]
        /\ \A d \in Calls \ {c} :
              /\ pc'[d] = pc[d] /\ call'[d].backend = call[d].backend
              /\ call'[d].user = call[d].user /\ call'[d].key = call[d].key
              /\ call'[d].spec = call[d].spec /\ call'[d].conn = call[d].conn
              /\ call'[d].data = call[d].data /\ (call[d].raced => call'[d].raced)
              /\ pc[d] # "idle" /\ call[d].backend = b => call'[d].raced
        /\ \/ pc'[c] = "idle"
           \/ /\ pc'[c] \in {"asking", "sent"}
              /\ call'[c].backend = b /\ call'[c].user = u /\ call'[c].key = NONE
              /\ call'[c].spec = spec[b] /\ (pc'[c] = "asking" => b \in Conn)
              /\ pc'[c] = "sent" /\ b \in Conn =>
                    /\ links[<<b, u>>] # NONE /\ links[<<b, u>>].conn # NONE
                    /\ call'[c].conn = links[<<b, u>>].conn
                    /\ links[<<b, u>>].raced => call'[c].raced
    BY <1>0, <1>3, WriteOnly DEF Busy
  <2>2. QED  BY <1>0, <2>1 DEF KeyInv, Busy
<1>4. ASSUME NEW c \in Calls, PortalLooksUp(c) PROVE KeyInv'
  BY <1>0, <1>4 DEF TypeOK, CallRecord, EntryRecord, Keys, Links, KeyInv, Busy, PortalLooksUp,
     world
<1>5. ASSUME NEW c \in Calls, PortalAnswers(c) PROVE KeyInv'
  BY <1>0, <1>5 DEF TypeOK, CallRecord, EntryRecord, Keys, Links, KeyInv, Busy, PortalAnswers,
     Return, NoCall, world
<1>6. ASSUME NEW c \in Calls, PortalFails(c) PROVE KeyInv'
  BY <1>0, <1>6 DEF TypeOK, CallRecord, EntryRecord, Keys, Links, KeyInv, Busy, PortalFails,
     Return, NoCall, world
<1>7. ASSUME NEW c \in Calls, Serve(c) PROVE KeyInv'
  BY <1>0, <1>7 DEF TypeOK, CallRecord, EntryRecord, Keys, Links, KeyInv, Busy, Serve
<1>8. ASSUME NEW c \in Calls, NEW size \in 1 .. ItemMax + 1, ReadReturns(c, size) PROVE KeyInv'
  <2>1. Busy(c) /\ Return(c, call[c].user) /\ UNCHANGED <<world, links, finished, told>>
    BY <1>8 DEF ReadReturns, Busy
  <2>2. /\ call[c].key \in Keys
        /\ \A k \in Keys : \/ cache'[k] = NONE \/ cache'[k] = cache[k]
                           \/ /\ k = call[c].key /\ cache'[k].data = call[c].data /\ cache'[k].spec = call[c].spec
                              /\ cache'[k].conn = call[c].conn /\ cache'[k].user = call[c].user
                              /\ cache'[k].raced = call[c].raced
    <3>1. call[c].key \in Keys
      BY <1>0, <1>8 DEF TypeOK, CallRecord, ReadReturns
    <3>2. CASE size <= ItemMax /\ Put(call[c].key, Entry(c, size))
      <4>1. size \in 1 .. ItemMax
        BY <3>2, CacheAssumption
      <4>2. /\ Entry(c, size) \in EntryRecord
            /\ Entry(c, size).data = call[c].data /\ Entry(c, size).spec = call[c].spec
            /\ Entry(c, size).conn = call[c].conn /\ Entry(c, size).user = call[c].user
            /\ Entry(c, size).raced = call[c].raced
        BY <1>0, <2>1, <4>1, EntryOf
      <4>3. \A q \in Keys : cache'[q] = NONE \/ cache'[q] = IF q = call[c].key THEN Entry(c, size) ELSE cache[q]
        BY <1>0, <3>1, <3>2, <4>2, PutOnly
      <4>4. QED  BY <3>1, <4>2, <4>3
    <3>3. CASE cache' = cache
      BY <3>1, <3>3
    <3>4. QED  BY <1>8, <3>2, <3>3 DEF ReadReturns
  <2>3. pc'[c] = "idle" /\ \A d \in Calls \ {c} : pc'[d] = pc[d] /\ call'[d] = call[d]
    BY <1>0, <2>1, ReturnOnly
  <2>4. QED  BY <1>0, <2>1, <2>2, <2>3 DEF KeyInv, Busy
<1>9. ASSUME NEW c \in Calls, WriteReturns(c) PROVE KeyInv'
  BY <1>0, <1>9 DEF TypeOK, CallRecord, EntryRecord, Keys, Links, KeyInv, Busy, WriteReturns,
     Return, NoCall, world
<1>10. ASSUME NEW c \in Calls, CallFails(c) PROVE KeyInv'
  BY <1>0, <1>10 DEF TypeOK, CallRecord, EntryRecord, Keys, Links, KeyInv, Busy, CallFails,
     Return, NoCall
<1>11. ASSUME NEW b \in Backends, OrphanServed(b) PROVE KeyInv'
  BY <1>0, <1>11 DEF TypeOK, CallRecord, EntryRecord, Keys, Links, KeyInv, Busy, OrphanServed
<1>12. ASSUME NEW l \in Links, ConnChanges(l) PROVE KeyInv'
  BY <1>0, <1>12 DEF TypeOK, CallRecord, EntryRecord, Keys, Links, KeyInv, Busy, ConnChanges
<1>13. ASSUME NEW us \in SUBSET Users, Invalidate(us) PROVE KeyInv'
  BY <1>0, <1>13 DEF TypeOK, CallRecord, EntryRecord, Keys, Links, KeyInv, Busy, Invalidate,
     Announce, Overtake, Drop, world
<1>14. ASSUME NEW b \in Backends, SpecChanges(b) PROVE KeyInv'
  BY <1>0, <1>14 DEF TypeOK, CallRecord, EntryRecord, Keys, Links, KeyInv, Busy, SpecChanges,
     Flush, Drop, Overtake
<1>15. ASSUME UNCHANGED vars PROVE KeyInv'
  BY <1>0, <1>15 DEF TypeOK, CallRecord, EntryRecord, Keys, Links, KeyInv, Busy, vars, world
<1>16. QED  BY <1>1, <1>2, <1>3, <1>4, <1>5, <1>6, <1>7, <1>8, <1>9, <1>10, <1>11, <1>12, <1>13,
   <1>14, <1>15 DEF Next, CallStep, PortalStep

(* Nothing is confirmed or announced that has not happened.                *)
LEMMA WorldPreserved == ASSUME IInv, [Next]_vars PROVE WorldInv'
<1> USE CacheAssumption
<1>0. TypeOK /\ KeyInv /\ WorldInv /\ FreshInv /\ OnlyOverlapGoesStale /\ OwnAnswers
  BY DEF IInv
<1>1. ASSUME NEW c \in Calls, NEW b \in Backends, NEW u \in Users, NEW q \in Queries, ReadHits(c, b, q, u) PROVE WorldInv'
  BY <1>0, <1>1 DEF TypeOK, CallRecord, Keys, Links, KeyInv, Busy, WorldInv, CallLink, ReadHits,
     CacheKey, world
<1>2. ASSUME NEW c \in Calls, NEW b \in Backends, NEW u \in Users, NEW q \in Queries, ReadMisses(c, b, q, u) PROVE WorldInv'
  BY <1>0, <1>2 DEF TypeOK, CallRecord, Keys, Links, KeyInv, Busy, WorldInv, CallLink, ReadMisses,
     CacheKey, Drop, Dispatch, NoCall, world
<1>3. ASSUME NEW c \in Calls, NEW b \in Backends, NEW u \in Users, WriteBegins(c, b, u) PROVE WorldInv'
  <2>1. /\ UNCHANGED <<data, conn, spec, links, finished, told>>
        /\ \A j \in Keys : cache'[j] = IF j[1] = b THEN NONE ELSE cache[j]
        /\ \A d \in Calls \ {c} :
              /\ pc'[d] = pc[d] /\ call'[d].backend = call[d].backend
              /\ call'[d].user = call[d].user /\ call'[d].key = call[d].key
              /\ call'[d].spec = call[d].spec /\ call'[d].conn = call[d].conn
              /\ call'[d].data = call[d].data /\ (call[d].raced => call'[d].raced)
              /\ pc[d] # "idle" /\ call[d].backend = b => call'[d].raced
        /\ \/ pc'[c] = "idle"
           \/ /\ pc'[c] \in {"asking", "sent"}
              /\ call'[c].backend = b /\ call'[c].user = u /\ call'[c].key = NONE
              /\ call'[c].spec = spec[b]
              /\ pc'[c] = "sent" /\ b \in Conn =>
                    /\ links[<<b, u>>] # NONE /\ links[<<b, u>>].conn # NONE
                    /\ call'[c].conn = links[<<b, u>>].conn
                    /\ links[<<b, u>>].raced => call'[c].raced
    BY <1>0, <1>3, WriteOnly DEF Busy
  <2>2. QED  BY <1>0, <2>1 DEF WorldInv
<1>4. ASSUME NEW c \in Calls, PortalLooksUp(c) PROVE WorldInv'
  BY <1>0, <1>4 DEF TypeOK, CallRecord, Keys, Links, KeyInv, Busy, WorldInv, CallLink,
     PortalLooksUp, world
<1>5. ASSUME NEW c \in Calls, PortalAnswers(c) PROVE WorldInv'
  BY <1>0, <1>5 DEF TypeOK, CallRecord, Keys, Links, KeyInv, Busy, WorldInv, CallLink,
     PortalAnswers, Return, NoCall, world
<1>6. ASSUME NEW c \in Calls, PortalFails(c) PROVE WorldInv'
  BY <1>0, <1>6 DEF TypeOK, CallRecord, Keys, Links, KeyInv, Busy, WorldInv, CallLink,
     PortalFails, Return, NoCall, world
<1>7. ASSUME NEW c \in Calls, Serve(c) PROVE WorldInv'
  BY <1>0, <1>7 DEF TypeOK, CallRecord, Keys, Links, KeyInv, Busy, WorldInv, CallLink, Serve
<1>8. ASSUME NEW c \in Calls, NEW size \in 1 .. ItemMax + 1, ReadReturns(c, size) PROVE WorldInv'
  BY <1>0, <1>8 DEF TypeOK, CallRecord, Keys, Links, KeyInv, Busy, WorldInv, CallLink,
     ReadReturns, Return, NoCall, Entry, world
<1>9. ASSUME NEW c \in Calls, WriteReturns(c) PROVE WorldInv'
  <2>1. Busy(c) /\ Return(c, call[c].user) /\ UNCHANGED <<world, links, cache, told>>
    BY <1>9 DEF WriteReturns, Busy
  <2>2. call[c].backend \in Backends /\ finished[call[c].backend] \in Nat /\ call[c].data \in Nat
    BY <1>0, <2>1 DEF TypeOK, KeyInv, CallRecord
  <2>3. Max({finished[call[c].backend], call[c].data}) \in {finished[call[c].backend], call[c].data}
    BY <2>2, MaxOf
  <2>4. \A b \in Backends : finished'[b] <= data[b]
    BY <1>0, <1>9, <2>2, <2>3 DEF TypeOK, WorldInv, WriteReturns
  <2>5. QED  BY <1>0, <2>1, <2>4, ReturnOnly DEF WorldInv, world
<1>10. ASSUME NEW c \in Calls, CallFails(c) PROVE WorldInv'
  BY <1>0, <1>10 DEF TypeOK, CallRecord, Keys, Links, KeyInv, Busy, WorldInv, CallLink, CallFails,
     Return, NoCall
<1>11. ASSUME NEW b \in Backends, OrphanServed(b) PROVE WorldInv'
  BY <1>0, <1>11 DEF TypeOK, CallRecord, Keys, Links, KeyInv, Busy, WorldInv, CallLink,
     OrphanServed
<1>12. ASSUME NEW l \in Links, ConnChanges(l) PROVE WorldInv'
  BY <1>0, <1>12 DEF TypeOK, CallRecord, Keys, Links, KeyInv, Busy, WorldInv, CallLink,
     ConnChanges
<1>13. ASSUME NEW us \in SUBSET Users, Invalidate(us) PROVE WorldInv'
  BY <1>0, <1>13 DEF TypeOK, CallRecord, Keys, Links, KeyInv, Busy, WorldInv, CallLink,
     Invalidate, Announce, Overtake, Drop, world
<1>14. ASSUME NEW b \in Backends, SpecChanges(b) PROVE WorldInv'
  BY <1>0, <1>14 DEF TypeOK, CallRecord, Keys, Links, KeyInv, Busy, WorldInv, CallLink,
     SpecChanges, Flush, Drop, Overtake
<1>15. ASSUME UNCHANGED vars PROVE WorldInv'
  BY <1>0, <1>15 DEF TypeOK, CallRecord, Keys, Links, KeyInv, Busy, WorldInv, CallLink, vars,
     world
<1>16. QED  BY <1>1, <1>2, <1>3, <1>4, <1>5, <1>6, <1>7, <1>8, <1>9, <1>10, <1>11, <1>12, <1>13,
   <1>14, <1>15 DEF Next, CallStep, PortalStep

(* What no flush has overtaken stays fresh.                                *)
LEMMA FreshPreserved == ASSUME IInv, [Next]_vars PROVE FreshInv'
<1> USE CacheAssumption
<1>0. TypeOK /\ KeyInv /\ WorldInv /\ FreshInv /\ OnlyOverlapGoesStale /\ OwnAnswers
  BY DEF IInv
<1>1. ASSUME NEW c \in Calls, NEW b \in Backends, NEW u \in Users, NEW q \in Queries, ReadHits(c, b, q, u) PROVE FreshInv'
  BY <1>0, <1>1 DEF TypeOK, CallRecord, EntryRecord, Keys, Links, KeyInv, Busy, Writing, WorldInv,
     FreshInv, CallLink, OnlyOverlapGoesStale, ReadHits, CacheKey, world
<1>2. ASSUME NEW c \in Calls, NEW b \in Backends, NEW u \in Users, NEW q \in Queries, ReadMisses(c, b, q, u) PROVE FreshInv'
  <2> DEFINE W(a) == \E e \in Calls : pc'[e] # "idle" /\ call'[e].key = NONE /\ call'[e].backend = a
             F(d) == pc'[d] # "idle" /\ ~call'[d].raced =>
                       /\ call'[d].key # NONE => ~W(call'[d].backend)
                       /\ call'[d].spec = spec'[call'[d].backend]
                       /\ call'[d].key # NONE /\ pc'[d] = "served" => call'[d].data >= finished'[call'[d].backend]
                       /\ call'[d].backend \in Conn /\ pc'[d] # "asking" =>
                             call'[d].conn >= told'[<<call'[d].backend, call'[d].user>>]
  <2>1. /\ UNCHANGED <<data, spec, links, finished, told>> /\ <<b, q, u>> # NONE /\ pc[c] = "idle"
        /\ \A j \in Keys : cache'[j] = NONE \/ cache'[j] = cache[j]
        /\ \A d \in Calls \ {c} : pc'[d] = pc[d] /\ call'[d] = call[d]
        /\ \/ pc'[c] = pc[c] /\ call'[c] = call[c]
           \/ /\ pc'[c] \in {"asking", "sent"}
              /\ call'[c].backend = b /\ call'[c].user = u /\ call'[c].key = <<b, q, u>>
              /\ call'[c].spec = spec[b] /\ (Writing(b) => call'[c].raced)
              /\ pc'[c] = "sent" /\ b \in Conn =>
                    /\ links[<<b, u>>] # NONE /\ links[<<b, u>>].conn # NONE
                    /\ call'[c].conn = links[<<b, u>>].conn
                    /\ links[<<b, u>>].raced => call'[c].raced
    <3> DEFINE k == <<b, q, u>>
    <3>1. k # NONE /\ pc[c] = "idle"
      BY <1>2, CacheAssumption DEF ReadMisses, Busy, Keys
    <3>2. UNCHANGED <<data, spec, links, finished, told>>
      BY <1>2 DEF ReadMisses, world
    <3>3. /\ \A j \in Keys : cache'[j] = NONE \/ cache'[j] = cache[j]
          /\ \A d \in Calls \ {c} : pc'[d] = pc[d] /\ call'[d] = call[d]
      BY <1>0, <1>2, MissOnly
    <3>4. \/ pc'[c] = pc[c] /\ call'[c] = call[c]
          \/ /\ pc'[c] \in {"asking", "sent"}
             /\ call'[c].backend = b /\ call'[c].user = u /\ call'[c].key = k
             /\ call'[c].spec = spec[b] /\ (Writing(b) => call'[c].raced)
             /\ pc'[c] = "asking" => b \in Conn
             /\ pc'[c] = "sent" /\ b \in Conn =>
                   /\ links[<<b, u>>] # NONE /\ links[<<b, u>>].conn # NONE
                   /\ call'[c].conn = links[<<b, u>>].conn
                   /\ links[<<b, u>>].raced => call'[c].raced
      BY <1>0, <1>2, MissOnly
    <3>5. QED  BY <3>1, <3>2, <3>3, <3>4
  <2>2. \A a : W(a) <=> Writing(a)
    BY <2>1 DEF Writing, Busy
  <2> HIDE DEF W
  <2>3. \A j \in Keys : cache'[j] # NONE /\ ~cache'[j].raced => ~W(j[1])
    BY <1>0, <2>1, <2>2 DEF FreshInv
  <2>4. \A d \in Calls \ {c} : F(d)
    BY <1>0, <2>1, <2>2 DEF FreshInv, Busy, CallLink
  <2>5. F(c)
    <3>1. CASE pc'[c] = "sent" /\ b \in Conn /\ ~call'[c].raced
      <4>1. <<b, u>> \in Links /\ links[<<b, u>>].conn >= told[<<b, u>>]
        BY <1>0, <2>1, <3>1 DEF OnlyOverlapGoesStale, Links, TypeOK
      <4>2. QED  BY <2>1, <2>2, <3>1, <4>1
    <3>2. QED  BY <2>1, <2>2, <3>1
  <2>6. \A d \in Calls : F(d)
    BY <2>4, <2>5
  <2>7. QED  BY <2>3, <2>6 DEF FreshInv, Busy, CallLink, Writing, W
<1>3. ASSUME NEW c \in Calls, NEW b \in Backends, NEW u \in Users, WriteBegins(c, b, u) PROVE FreshInv'
  <2> DEFINE W(a) == \E e \in Calls : pc'[e] # "idle" /\ call'[e].key = NONE /\ call'[e].backend = a
             F(d) == pc'[d] # "idle" /\ ~call'[d].raced =>
                       /\ call'[d].key # NONE => ~W(call'[d].backend)
                       /\ call'[d].spec = spec'[call'[d].backend]
                       /\ call'[d].key # NONE /\ pc'[d] = "served" => call'[d].data >= finished'[call'[d].backend]
                       /\ call'[d].backend \in Conn /\ pc'[d] # "asking" =>
                             call'[d].conn >= told'[<<call'[d].backend, call'[d].user>>]
  <2>1. /\ UNCHANGED <<data, spec, links, finished, told>>
        /\ \A j \in Keys : cache'[j] = IF j[1] = b THEN NONE ELSE cache[j]
        /\ \A d \in Calls \ {c} :
              /\ pc'[d] = pc[d] /\ call'[d].backend = call[d].backend
              /\ call'[d].user = call[d].user /\ call'[d].key = call[d].key
              /\ call'[d].spec = call[d].spec /\ call'[d].conn = call[d].conn
              /\ call'[d].data = call[d].data /\ (call[d].raced => call'[d].raced)
              /\ pc[d] # "idle" /\ call[d].backend = b => call'[d].raced
        /\ \/ pc'[c] = "idle"
           \/ /\ pc'[c] \in {"asking", "sent"}
              /\ call'[c].backend = b /\ call'[c].user = u /\ call'[c].key = NONE
              /\ call'[c].spec = spec[b]
              /\ pc'[c] = "sent" /\ b \in Conn =>
                    /\ links[<<b, u>>] # NONE /\ links[<<b, u>>].conn # NONE
                    /\ call'[c].conn = links[<<b, u>>].conn
                    /\ links[<<b, u>>].raced => call'[c].raced
    BY <1>0, <1>3, WriteOnly DEF Busy
  <2>2. \A a : a # b /\ W(a) => Writing(a)
    BY <2>1 DEF Writing, Busy
  <2> HIDE DEF W
  <2>3. \A j \in Keys : cache'[j] # NONE /\ ~cache'[j].raced => ~W(j[1])
    BY <1>0, <2>1, <2>2 DEF FreshInv
  <2>4. \A d \in Calls \ {c} : F(d)
    <3> SUFFICES ASSUME NEW d \in Calls \ {c}, pc'[d] # "idle", ~call'[d].raced PROVE F(d)
      OBVIOUS
    <3>1. /\ Busy(d) /\ ~call[d].raced /\ call[d].backend # b /\ pc'[d] = pc[d]
          /\ call'[d].backend = call[d].backend /\ call'[d].user = call[d].user
          /\ call'[d].key = call[d].key /\ call'[d].spec = call[d].spec
          /\ call'[d].conn = call[d].conn /\ call'[d].data = call[d].data
      BY <2>1 DEF Busy
    <3>2. /\ call[d].key # NONE => ~Writing(call[d].backend)
          /\ call[d].spec = spec[call[d].backend]
          /\ call[d].key # NONE /\ pc[d] = "served" => call[d].data >= finished[call[d].backend]
          /\ call[d].backend \in Conn /\ pc[d] # "asking" =>
                call[d].conn >= told[<<call[d].backend, call[d].user>>]
      BY <1>0, <3>1 DEF FreshInv, Busy, CallLink
    <3>3. call[d].key # NONE => ~W(call[d].backend)
      BY <2>2, <3>1, <3>2
    <3>4. QED  BY <2>1, <3>1, <3>2, <3>3
  <2>5. F(c)
    <3>1. CASE pc'[c] = "sent" /\ b \in Conn /\ ~call'[c].raced
      <4>1. <<b, u>> \in Links /\ links[<<b, u>>].conn >= told[<<b, u>>]
        BY <1>0, <2>1, <3>1 DEF OnlyOverlapGoesStale, Links, TypeOK
      <4>2. QED  BY <2>1, <3>1, <4>1
    <3>2. QED  BY <2>1, <3>1
  <2>6. \A d \in Calls : F(d)
    BY <2>4, <2>5
  <2>7. QED  BY <2>3, <2>6 DEF FreshInv, Busy, CallLink, Writing, W
<1>4. ASSUME NEW c \in Calls, PortalLooksUp(c) PROVE FreshInv'
  <2>1. CallLink(c) \in Links /\ Busy(c)
    BY <1>0, <1>4 DEF PortalLooksUp, KeyInv, Busy, CallLink, Links
  <2>2. /\ UNCHANGED <<data, conn, spec, links, cache, finished, told>>
        /\ \A d \in Calls \ {c} : pc'[d] = pc[d] /\ call'[d] = call[d]
        /\ pc'[c] = "asked" /\ call'[c].conn = conn[CallLink(c)]
        /\ call'[c].backend = call[c].backend /\ call'[c].user = call[c].user
        /\ call'[c].key = call[c].key /\ call'[c].spec = call[c].spec
        /\ call'[c].raced = call[c].raced
    BY <1>0, <1>4 DEF TypeOK, CallRecord, PortalLooksUp, world
  <2>3. \A a : Writing(a)' <=> Writing(a)
    BY <2>1, <2>2 DEF Writing, Busy
  <2>4. \A d \in Calls : CallLink(d)' = CallLink(d)
    BY <2>2 DEF CallLink
  <2>5. conn[CallLink(c)] >= told[CallLink(c)]
    BY <1>0, <2>1 DEF WorldInv, TypeOK
  <2>6. \A k \in Keys : cache'[k] # NONE /\ ~cache'[k].raced => ~Writing(k[1])'
    BY <1>0, <2>2, <2>3 DEF FreshInv
  <2>7. QED  BY <1>0, <2>1, <2>2, <2>3, <2>4, <2>5, <2>6 DEF FreshInv, Busy
<1>5. ASSUME NEW c \in Calls, PortalAnswers(c) PROVE FreshInv'
  <2> DEFINE W(a) == \E e \in Calls : pc'[e] # "idle" /\ call'[e].key = NONE /\ call'[e].backend = a
             F(d) == pc'[d] # "idle" /\ ~call'[d].raced =>
                       /\ call'[d].key # NONE => ~W(call'[d].backend)
                       /\ call'[d].spec = spec'[call'[d].backend]
                       /\ call'[d].key # NONE /\ pc'[d] = "served" => call'[d].data >= finished'[call'[d].backend]
                       /\ call'[d].backend \in Conn /\ pc'[d] # "asking" =>
                             call'[d].conn >= told'[<<call'[d].backend, call'[d].user>>]
  <2>1. /\ UNCHANGED <<data, conn, spec, cache, finished, told>> /\ pc[c] = "asked"
        /\ \A d \in Calls \ {c} : pc'[d] = pc[d] /\ call'[d] = call[d]
        /\ \/ pc'[c] = "idle"
           \/ pc'[c] = "sent" /\ call'[c] = call[c]
    BY <1>0, <1>5, ReturnOnly DEF PortalAnswers, Busy, world, TypeOK
  <2>2. \A a : W(a) => Writing(a)
    BY <2>1 DEF Writing, Busy
  <2> HIDE DEF W
  <2>3. \A j \in Keys : cache'[j] # NONE /\ ~cache'[j].raced => ~W(j[1])
    BY <1>0, <2>1, <2>2 DEF FreshInv
  <2>4. \A d \in Calls : pc'[d] # "idle" => /\ pc[d] # "idle" /\ call'[d] = call[d]
                                            /\ pc'[d] = pc[d] \/ (pc'[d] = "sent" /\ pc[d] = "asked")
    <3>1. TAKE d \in Calls
    <3>2. CASE d = c
      BY <2>1, <3>2
    <3>3. CASE d \in Calls \ {c}
      BY <2>1, <3>3
    <3>4. QED  BY <3>2, <3>3
  <2>5. \A d \in Calls : F(d)
    BY <1>0, <2>1, <2>2, <2>4 DEF FreshInv, Busy, CallLink
  <2>6. QED  BY <2>3, <2>5 DEF FreshInv, Busy, CallLink, Writing, W
<1>6. ASSUME NEW c \in Calls, PortalFails(c) PROVE FreshInv'
  BY <1>0, <1>6 DEF TypeOK, CallRecord, EntryRecord, Keys, Links, KeyInv, Busy, Writing, WorldInv,
     FreshInv, CallLink, OnlyOverlapGoesStale, PortalFails, Return, NoCall, world
<1>7. ASSUME NEW c \in Calls, Serve(c) PROVE FreshInv'
  BY <1>0, <1>7 DEF TypeOK, CallRecord, EntryRecord, Keys, Links, KeyInv, Busy, Writing, WorldInv,
     FreshInv, CallLink, OnlyOverlapGoesStale, Serve
<1>8. ASSUME NEW c \in Calls, NEW size \in 1 .. ItemMax + 1, ReadReturns(c, size) PROVE FreshInv'
  <2>1. Busy(c) /\ Return(c, call[c].user) /\ UNCHANGED <<world, links, finished, told>>
    BY <1>8 DEF ReadReturns, Busy
  <2>2. /\ call[c].key \in Keys
        /\ \A k \in Keys : \/ cache'[k] = NONE \/ cache'[k] = cache[k]
                           \/ /\ k = call[c].key /\ cache'[k].data = call[c].data /\ cache'[k].spec = call[c].spec
                              /\ cache'[k].conn = call[c].conn /\ cache'[k].user = call[c].user
                              /\ cache'[k].raced = call[c].raced
    <3>1. call[c].key \in Keys
      BY <1>0, <1>8 DEF TypeOK, CallRecord, ReadReturns
    <3>2. CASE size <= ItemMax /\ Put(call[c].key, Entry(c, size))
      <4>1. size \in 1 .. ItemMax
        BY <3>2, CacheAssumption
      <4>2. /\ Entry(c, size) \in EntryRecord
            /\ Entry(c, size).data = call[c].data /\ Entry(c, size).spec = call[c].spec
            /\ Entry(c, size).conn = call[c].conn /\ Entry(c, size).user = call[c].user
            /\ Entry(c, size).raced = call[c].raced
        BY <1>0, <2>1, <4>1, EntryOf
      <4>3. \A q \in Keys : cache'[q] = NONE \/ cache'[q] = IF q = call[c].key THEN Entry(c, size) ELSE cache[q]
        BY <1>0, <3>1, <3>2, <4>2, PutOnly
      <4>4. QED  BY <3>1, <4>2, <4>3
    <3>3. CASE cache' = cache
      BY <3>1, <3>3
    <3>4. QED  BY <1>8, <3>2, <3>3 DEF ReadReturns
  <2>3. pc'[c] = "idle" /\ \A d \in Calls \ {c} : pc'[d] = pc[d] /\ call'[d] = call[d]
    BY <1>0, <2>1, ReturnOnly
  <2>4. call[c].backend = call[c].key[1]
    BY <1>0, <2>1, <2>2, CacheAssumption DEF KeyInv
  <2>5. \A b : Writing(b)' => Writing(b)
    BY <2>3 DEF Writing, Busy
  <2>6. \A k \in Keys : cache'[k] # NONE /\ ~cache'[k].raced => ~Writing(k[1])'
    BY <1>0, <1>8, <2>1, <2>2, <2>4, <2>5, CacheAssumption DEF FreshInv, ReadReturns
  <2>7. QED  BY <1>0, <2>1, <2>3, <2>5, <2>6 DEF FreshInv, Busy, CallLink, world
<1>9. ASSUME NEW c \in Calls, WriteReturns(c) PROVE FreshInv'
  BY <1>0, <1>9 DEF TypeOK, CallRecord, EntryRecord, Keys, Links, KeyInv, Busy, Writing, WorldInv,
     FreshInv, CallLink, OnlyOverlapGoesStale, WriteReturns, Return, NoCall, world
<1>10. ASSUME NEW c \in Calls, CallFails(c) PROVE FreshInv'
  BY <1>0, <1>10 DEF TypeOK, CallRecord, EntryRecord, Keys, Links, KeyInv, Busy, Writing,
     WorldInv, FreshInv, CallLink, OnlyOverlapGoesStale, CallFails, Return, NoCall
<1>11. ASSUME NEW b \in Backends, OrphanServed(b) PROVE FreshInv'
  BY <1>0, <1>11 DEF TypeOK, CallRecord, EntryRecord, Keys, Links, KeyInv, Busy, Writing,
     WorldInv, FreshInv, CallLink, OnlyOverlapGoesStale, OrphanServed
<1>12. ASSUME NEW l \in Links, ConnChanges(l) PROVE FreshInv'
  BY <1>0, <1>12 DEF TypeOK, CallRecord, EntryRecord, Keys, Links, KeyInv, Busy, Writing,
     WorldInv, FreshInv, CallLink, OnlyOverlapGoesStale, ConnChanges
<1>13. ASSUME NEW us \in SUBSET Users, Invalidate(us) PROVE FreshInv'
  BY <1>0, <1>13 DEF TypeOK, CallRecord, EntryRecord, Keys, Links, KeyInv, Busy, Writing,
     WorldInv, FreshInv, CallLink, OnlyOverlapGoesStale, Invalidate, Announce, Overtake, Drop,
     world
<1>14. ASSUME NEW b \in Backends, SpecChanges(b) PROVE FreshInv'
  BY <1>0, <1>14 DEF TypeOK, CallRecord, EntryRecord, Keys, Links, KeyInv, Busy, Writing,
     WorldInv, FreshInv, CallLink, OnlyOverlapGoesStale, SpecChanges, Flush, Drop, Overtake
<1>15. ASSUME UNCHANGED vars PROVE FreshInv'
  BY <1>0, <1>15 DEF TypeOK, CallRecord, EntryRecord, Keys, Links, KeyInv, Busy, Writing,
     WorldInv, FreshInv, CallLink, OnlyOverlapGoesStale, vars, world
<1>16. QED  BY <1>1, <1>2, <1>3, <1>4, <1>5, <1>6, <1>7, <1>8, <1>9, <1>10, <1>11, <1>12, <1>13,
   <1>14, <1>15 DEF Next, CallStep, PortalStep

(* Only what a flush has overtaken is stale.                               *)
LEMMA OverlapPreserved == ASSUME IInv, [Next]_vars PROVE OnlyOverlapGoesStale'
<1> USE CacheAssumption
<1>0. TypeOK /\ KeyInv /\ WorldInv /\ FreshInv /\ OnlyOverlapGoesStale /\ OwnAnswers
  BY DEF IInv
<1>1. ASSUME NEW c \in Calls, NEW b \in Backends, NEW u \in Users, NEW q \in Queries, ReadHits(c, b, q, u) PROVE OnlyOverlapGoesStale'
  BY <1>0, <1>1 DEF TypeOK, CallRecord, EntryRecord, Keys, Links, KeyInv, Busy, Writing, WorldInv,
     FreshInv, CallLink, OnlyOverlapGoesStale, ReadHits, CacheKey, world
<1>2. ASSUME NEW c \in Calls, NEW b \in Backends, NEW u \in Users, NEW q \in Queries, ReadMisses(c, b, q, u) PROVE OnlyOverlapGoesStale'
  BY <1>0, <1>2 DEF TypeOK, CallRecord, EntryRecord, Keys, Links, KeyInv, Busy, Writing, WorldInv,
     FreshInv, CallLink, OnlyOverlapGoesStale, ReadMisses, CacheKey, Drop, Dispatch, NoCall, world
<1>3. ASSUME NEW c \in Calls, NEW b \in Backends, NEW u \in Users, WriteBegins(c, b, u) PROVE OnlyOverlapGoesStale'
  BY <1>0, <1>3 DEF TypeOK, CallRecord, EntryRecord, Keys, Links, KeyInv, Busy, Writing, WorldInv,
     FreshInv, CallLink, OnlyOverlapGoesStale, WriteBegins, Flush, Drop, Dispatch, Overtake,
     NoCall, world
<1>4. ASSUME NEW c \in Calls, PortalLooksUp(c) PROVE OnlyOverlapGoesStale'
  BY <1>0, <1>4 DEF TypeOK, CallRecord, EntryRecord, Keys, Links, KeyInv, Busy, Writing, WorldInv,
     FreshInv, CallLink, OnlyOverlapGoesStale, PortalLooksUp, world
<1>5. ASSUME NEW c \in Calls, PortalAnswers(c) PROVE OnlyOverlapGoesStale'
  BY <1>0, <1>5 DEF TypeOK, CallRecord, EntryRecord, Keys, Links, KeyInv, Busy, Writing, WorldInv,
     FreshInv, CallLink, OnlyOverlapGoesStale, PortalAnswers, Return, NoCall, world
<1>6. ASSUME NEW c \in Calls, PortalFails(c) PROVE OnlyOverlapGoesStale'
  BY <1>0, <1>6 DEF TypeOK, CallRecord, EntryRecord, Keys, Links, KeyInv, Busy, Writing, WorldInv,
     FreshInv, CallLink, OnlyOverlapGoesStale, PortalFails, Return, NoCall, world
<1>7. ASSUME NEW c \in Calls, Serve(c) PROVE OnlyOverlapGoesStale'
  BY <1>0, <1>7 DEF TypeOK, CallRecord, EntryRecord, Keys, Links, KeyInv, Busy, Writing, WorldInv,
     FreshInv, CallLink, OnlyOverlapGoesStale, Serve
<1>8. ASSUME NEW c \in Calls, NEW size \in 1 .. ItemMax + 1, ReadReturns(c, size) PROVE OnlyOverlapGoesStale'
  <2>1. Busy(c) /\ Return(c, call[c].user) /\ UNCHANGED <<world, links, finished, told>>
    BY <1>8 DEF ReadReturns, Busy
  <2>2. /\ call[c].key \in Keys
        /\ \A k \in Keys : \/ cache'[k] = NONE \/ cache'[k] = cache[k]
                           \/ /\ k = call[c].key /\ cache'[k].data = call[c].data /\ cache'[k].spec = call[c].spec
                              /\ cache'[k].conn = call[c].conn /\ cache'[k].user = call[c].user
                              /\ cache'[k].raced = call[c].raced
    <3>1. call[c].key \in Keys
      BY <1>0, <1>8 DEF TypeOK, CallRecord, ReadReturns
    <3>2. CASE size <= ItemMax /\ Put(call[c].key, Entry(c, size))
      <4>1. size \in 1 .. ItemMax
        BY <3>2, CacheAssumption
      <4>2. /\ Entry(c, size) \in EntryRecord
            /\ Entry(c, size).data = call[c].data /\ Entry(c, size).spec = call[c].spec
            /\ Entry(c, size).conn = call[c].conn /\ Entry(c, size).user = call[c].user
            /\ Entry(c, size).raced = call[c].raced
        BY <1>0, <2>1, <4>1, EntryOf
      <4>3. \A q \in Keys : cache'[q] = NONE \/ cache'[q] = IF q = call[c].key THEN Entry(c, size) ELSE cache[q]
        BY <1>0, <3>1, <3>2, <4>2, PutOnly
      <4>4. QED  BY <3>1, <4>2, <4>3
    <3>3. CASE cache' = cache
      BY <3>1, <3>3
    <3>4. QED  BY <1>8, <3>2, <3>3 DEF ReadReturns
  <2>3. pc'[c] = "idle" /\ \A d \in Calls \ {c} : pc'[d] = pc[d] /\ call'[d] = call[d]
    BY <1>0, <2>1, ReturnOnly
  <2>4. call[c].backend = call[c].key[1] /\ CallLink(c) = <<call[c].key[1], call[c].key[3]>>
    BY <1>0, <2>1, <2>2, CacheAssumption DEF KeyInv, CallLink
  <2>5. QED  BY <1>0, <1>8, <2>1, <2>2, <2>4, CacheAssumption DEF OnlyOverlapGoesStale, FreshInv, ReadReturns, world, Busy
<1>9. ASSUME NEW c \in Calls, WriteReturns(c) PROVE OnlyOverlapGoesStale'
  BY <1>0, <1>9 DEF TypeOK, CallRecord, EntryRecord, Keys, Links, KeyInv, Busy, Writing, WorldInv,
     FreshInv, CallLink, OnlyOverlapGoesStale, WriteReturns, Return, NoCall, world
<1>10. ASSUME NEW c \in Calls, CallFails(c) PROVE OnlyOverlapGoesStale'
  BY <1>0, <1>10 DEF TypeOK, CallRecord, EntryRecord, Keys, Links, KeyInv, Busy, Writing,
     WorldInv, FreshInv, CallLink, OnlyOverlapGoesStale, CallFails, Return, NoCall
<1>11. ASSUME NEW b \in Backends, OrphanServed(b) PROVE OnlyOverlapGoesStale'
  BY <1>0, <1>11 DEF TypeOK, CallRecord, EntryRecord, Keys, Links, KeyInv, Busy, Writing,
     WorldInv, FreshInv, CallLink, OnlyOverlapGoesStale, OrphanServed
<1>12. ASSUME NEW l \in Links, ConnChanges(l) PROVE OnlyOverlapGoesStale'
  BY <1>0, <1>12 DEF TypeOK, CallRecord, EntryRecord, Keys, Links, KeyInv, Busy, Writing,
     WorldInv, FreshInv, CallLink, OnlyOverlapGoesStale, ConnChanges
<1>13. ASSUME NEW us \in SUBSET Users, Invalidate(us) PROVE OnlyOverlapGoesStale'
  BY <1>0, <1>13 DEF TypeOK, CallRecord, EntryRecord, Keys, Links, KeyInv, Busy, Writing,
     WorldInv, FreshInv, CallLink, OnlyOverlapGoesStale, Invalidate, Announce, Overtake, Drop,
     world
<1>14. ASSUME NEW b \in Backends, SpecChanges(b) PROVE OnlyOverlapGoesStale'
  BY <1>0, <1>14 DEF TypeOK, CallRecord, EntryRecord, Keys, Links, KeyInv, Busy, Writing,
     WorldInv, FreshInv, CallLink, OnlyOverlapGoesStale, SpecChanges, Flush, Drop, Overtake
<1>15. ASSUME UNCHANGED vars PROVE OnlyOverlapGoesStale'
  BY <1>0, <1>15 DEF TypeOK, CallRecord, EntryRecord, Keys, Links, KeyInv, Busy, Writing,
     WorldInv, FreshInv, CallLink, OnlyOverlapGoesStale, vars, world
<1>16. QED  BY <1>1, <1>2, <1>3, <1>4, <1>5, <1>6, <1>7, <1>8, <1>9, <1>10, <1>11, <1>12, <1>13,
   <1>14, <1>15 DEF Next, CallStep, PortalStep

(* An answer goes to the person it is for.                                 *)
LEMMA OwnPreserved == ASSUME IInv, [Next]_vars PROVE OwnAnswers'
<1> USE CacheAssumption
<1>0. TypeOK /\ KeyInv /\ WorldInv /\ FreshInv /\ OnlyOverlapGoesStale /\ OwnAnswers
  BY DEF IInv
<1>1. ASSUME NEW c \in Calls, NEW b \in Backends, NEW u \in Users, NEW q \in Queries, ReadHits(c, b, q, u) PROVE OwnAnswers'
  BY <1>0, <1>1 DEF TypeOK, CallRecord, EntryRecord, Keys, Links, KeyInv, Busy, OwnAnswers,
     ReadHits, CacheKey, world
<1>2. ASSUME NEW c \in Calls, NEW b \in Backends, NEW u \in Users, NEW q \in Queries, ReadMisses(c, b, q, u) PROVE OwnAnswers'
  BY <1>0, <1>2 DEF TypeOK, CallRecord, EntryRecord, Keys, Links, KeyInv, Busy, OwnAnswers,
     ReadMisses, CacheKey, Drop, Dispatch, NoCall, world
<1>3. ASSUME NEW c \in Calls, NEW b \in Backends, NEW u \in Users, WriteBegins(c, b, u) PROVE OwnAnswers'
  BY <1>0, <1>3 DEF TypeOK, CallRecord, EntryRecord, Keys, Links, KeyInv, Busy, OwnAnswers,
     WriteBegins, Flush, Drop, Dispatch, Overtake, NoCall, world
<1>4. ASSUME NEW c \in Calls, PortalLooksUp(c) PROVE OwnAnswers'
  BY <1>0, <1>4 DEF TypeOK, CallRecord, EntryRecord, Keys, Links, KeyInv, Busy, OwnAnswers,
     PortalLooksUp, world
<1>5. ASSUME NEW c \in Calls, PortalAnswers(c) PROVE OwnAnswers'
  BY <1>0, <1>5 DEF TypeOK, CallRecord, EntryRecord, Keys, Links, KeyInv, Busy, OwnAnswers,
     PortalAnswers, Return, NoCall, world
<1>6. ASSUME NEW c \in Calls, PortalFails(c) PROVE OwnAnswers'
  BY <1>0, <1>6 DEF TypeOK, CallRecord, EntryRecord, Keys, Links, KeyInv, Busy, OwnAnswers,
     PortalFails, Return, NoCall, world
<1>7. ASSUME NEW c \in Calls, Serve(c) PROVE OwnAnswers'
  BY <1>0, <1>7 DEF TypeOK, CallRecord, EntryRecord, Keys, Links, KeyInv, Busy, OwnAnswers, Serve
<1>8. ASSUME NEW c \in Calls, NEW size \in 1 .. ItemMax + 1, ReadReturns(c, size) PROVE OwnAnswers'
  BY <1>0, <1>8 DEF TypeOK, CallRecord, EntryRecord, Keys, Links, KeyInv, Busy, OwnAnswers,
     ReadReturns, Return, NoCall, Entry, world
<1>9. ASSUME NEW c \in Calls, WriteReturns(c) PROVE OwnAnswers'
  BY <1>0, <1>9 DEF TypeOK, CallRecord, EntryRecord, Keys, Links, KeyInv, Busy, OwnAnswers,
     WriteReturns, Return, NoCall, world
<1>10. ASSUME NEW c \in Calls, CallFails(c) PROVE OwnAnswers'
  BY <1>0, <1>10 DEF TypeOK, CallRecord, EntryRecord, Keys, Links, KeyInv, Busy, OwnAnswers,
     CallFails, Return, NoCall
<1>11. ASSUME NEW b \in Backends, OrphanServed(b) PROVE OwnAnswers'
  BY <1>0, <1>11 DEF TypeOK, CallRecord, EntryRecord, Keys, Links, KeyInv, Busy, OwnAnswers,
     OrphanServed
<1>12. ASSUME NEW l \in Links, ConnChanges(l) PROVE OwnAnswers'
  BY <1>0, <1>12 DEF TypeOK, CallRecord, EntryRecord, Keys, Links, KeyInv, Busy, OwnAnswers,
     ConnChanges
<1>13. ASSUME NEW us \in SUBSET Users, Invalidate(us) PROVE OwnAnswers'
  BY <1>0, <1>13 DEF TypeOK, CallRecord, EntryRecord, Keys, Links, KeyInv, Busy, OwnAnswers,
     Invalidate, Announce, Overtake, Drop, world
<1>14. ASSUME NEW b \in Backends, SpecChanges(b) PROVE OwnAnswers'
  BY <1>0, <1>14 DEF TypeOK, CallRecord, EntryRecord, Keys, Links, KeyInv, Busy, OwnAnswers,
     SpecChanges, Flush, Drop, Overtake
<1>15. ASSUME UNCHANGED vars PROVE OwnAnswers'
  BY <1>0, <1>15 DEF TypeOK, CallRecord, EntryRecord, Keys, Links, KeyInv, Busy, OwnAnswers, vars,
     world
<1>16. QED  BY <1>1, <1>2, <1>3, <1>4, <1>5, <1>6, <1>7, <1>8, <1>9, <1>10, <1>11, <1>12, <1>13,
   <1>14, <1>15 DEF Next, CallStep, PortalStep

(* Nothing is cached and no call is under way at the start.                *)
LEMMA InitInv == ASSUME Init PROVE IInv
<1>1. TypeOK
  BY DEF Init, TypeOK, CallRecord, NoCall
<1>2. KeyInv /\ FreshInv
  BY DEF Init, KeyInv, FreshInv, Busy, Keys
<1>3. WorldInv
  BY DEF Init, WorldInv
<1>4. OnlyOverlapGoesStale /\ OwnAnswers
  BY DEF Init, OnlyOverlapGoesStale, OwnAnswers, Keys
<1>5. QED  BY <1>1, <1>2, <1>3, <1>4 DEF IInv

(* IInv holds in every state of every behaviour.                           *)
THEOREM Invariant == Spec => []IInv
<1>1. IInv /\ [Next]_vars => IInv'
  BY TypePreserved, KeyPreserved, WorldPreserved, FreshPreserved, OverlapPreserved, OwnPreserved
     DEF IInv
<1>2. QED  BY InitInv, <1>1, PTL DEF Spec

(* Types.                                                                  *)
THEOREM TypeCorrect == Spec => []TypeOK
<1>1. IInv => TypeOK
  BY DEF IInv
<1>2. QED  BY Invariant, <1>1, PTL

(* Every answer a person gets was obtained for that person.                *)
THEOREM AnswersAreOwn == Spec => []OwnAnswers
<1>1. IInv => OwnAnswers
  BY DEF IInv
<1>2. QED  BY Invariant, <1>1, PTL

(* What no flush has overtaken is no older than the writes confirmed, the  *)
(* connections announced and the declaration of the moment.                *)
THEOREM StaleByOverlapOnly == Spec => []OnlyOverlapGoesStale
<1>1. IInv => OnlyOverlapGoesStale
  BY DEF IInv
<1>2. QED  BY Invariant, <1>1, PTL

-----------------------------------------------------------------------------
(* The bytes of a finite set of entries.  Induction over a finite set is   *)
(* a smallest counterexample among its subsets.                            *)

(* Among sets of subsets of a finite set there is always a smallest.       *)
LEMMA Smallest ==
    ASSUME NEW S, IsFiniteSet(S), NEW Bad \in SUBSET SUBSET S, Bad # {}
    PROVE  \E T \in Bad : \A U \in Bad : U \subseteq T => U = T
<1>1. IsWellFoundedOn(StrictSubsetOrdering(S), SUBSET S)
  BY FS_StrictSubsetOrderingWellFounded, FS_FiniteSubsetsOfFinite
<1>2. \E T \in Bad : \A U \in Bad : ~ (<<U, T>> \in StrictSubsetOrdering(S))
  <2>1. Bad \subseteq SUBSET S
    OBVIOUS
  <2> QED
    BY <1>1, <2>1, WFMin, Zenon
<1> QED
  BY <1>2 DEF StrictSubsetOrdering

(* The function behind MapThenSumSet.                                      *)
Pick(s) == CHOOSE x \in s : TRUE
IsBytes(w, S, g) == g = [s \in SUBSET S |-> IF s = {} THEN 0 ELSE w[Pick(s)].size + g[s \ {Pick(s)}]]

LEMMA PickIn ==
    ASSUME NEW s, s # {}
    PROVE  Pick(s) \in s
BY DEF Pick

LEMMA BytesIs ==
    ASSUME NEW w, NEW S
    PROVE  Bytes(w, S) = (CHOOSE g : IsBytes(w, S, g))[S]
BY DEF Bytes, MapThenSumSet, MapThenFoldSet, IsBytes, Pick

LEMMA BytesOnPart ==
    ASSUME NEW S, NEW T \in SUBSET S, NEW w, NEW g, IsBytes(w, S, g),
           NEW h, h = [s \in SUBSET T |-> g[s]]
    PROVE  IsBytes(w, T, h)
BY DEF IsBytes, Pick

LEMMA BytesAt ==
    ASSUME NEW S, NEW w, NEW g, IsBytes(w, S, g), NEW s \in SUBSET S
    PROVE  g[s] = IF s = {} THEN 0 ELSE w[Pick(s)].size + g[s \ {Pick(s)}]
<1>1. g = [u \in SUBSET S |-> IF u = {} THEN 0 ELSE w[Pick(u)].size + g[u \ {Pick(u)}]]
  BY DEF IsBytes
<1> QED
  BY <1>1, Zenon

LEMMA BytesUnique ==
    ASSUME NEW S, IsFiniteSet(S), NEW w, NEW g, IsBytes(w, S, g), NEW h, IsBytes(w, S, h)
    PROVE  g[S] = h[S]
<1> DEFINE Bad == {s \in SUBSET S : g[s] # h[s]}
<1>1. SUFFICES ASSUME Bad # {} PROVE FALSE
  OBVIOUS
<1>2. PICK T \in Bad : \A U \in Bad : U \subseteq T => U = T
  <2>1. Bad \in SUBSET SUBSET S
    OBVIOUS
  <2> HIDE DEF Bad
  <2> QED
    BY <1>1, <2>1, Smallest
<1>3. g[T] = (IF T = {} THEN 0 ELSE w[Pick(T)].size + g[T \ {Pick(T)}])
  BY BytesAt
<1>4. h[T] = (IF T = {} THEN 0 ELSE w[Pick(T)].size + h[T \ {Pick(T)}])
  BY BytesAt
<1>5. T # {}
  BY <1>2, <1>3, <1>4
<1>6. T \ {Pick(T)} \in SUBSET S /\ T \ {Pick(T)} # T
  BY <1>5, PickIn
<1>7. g[T \ {Pick(T)}] = h[T \ {Pick(T)}]
  BY <1>2, <1>6
<1> QED
  BY <1>2, <1>3, <1>4, <1>5, <1>7

(* What the sum of a finite set is.                                        *)
LEMMA BytesStep ==
    ASSUME NEW S, IsFiniteSet(S), NEW w
    PROVE  Bytes(w, S) = IF S = {} THEN 0 ELSE w[Pick(S)].size + Bytes(w, S \ {Pick(S)})
<1> DEFINE Step(s) == IF s = {} THEN 0 ELSE w[Pick(s)].size + Bytes(w, s \ {Pick(s)})
           Bad == {s \in SUBSET S : Bytes(w, s) # Step(s)}
<1>1. SUFFICES ASSUME Bad # {} PROVE FALSE
  BY Zenon
<1>2. PICK T \in Bad : \A U \in Bad : U \subseteq T => U = T
  <2>1. Bad \in SUBSET SUBSET S
    OBVIOUS
  <2> HIDE DEF Bad
  <2> QED
    BY <1>1, <2>1, Smallest
<1>3. T \in SUBSET S /\ IsFiniteSet(T)
  BY FS_Subset
<1> DEFINE full == [s \in SUBSET T |-> IF s = T THEN Step(T) ELSE Bytes(w, s)]
           c == CHOOSE g : IsBytes(w, T, g)
           rest == T \ {Pick(T)}
<1>4. \A s \in SUBSET T : s # T => Bytes(w, s) = Step(s)
  BY <1>2, <1>3
<1>5. IsBytes(w, T, full)
  <2>1. SUFFICES ASSUME NEW s \in SUBSET T
                 PROVE  full[s] = IF s = {} THEN 0 ELSE w[Pick(s)].size + full[s \ {Pick(s)}]
    BY DEF IsBytes
  <2>2. CASE s = {}
    BY <2>2, <1>4
  <2>3. CASE s # {}
    <3>1. s \ {Pick(s)} \in SUBSET T /\ s \ {Pick(s)} # T
      BY <2>3, PickIn
    <3>2. full[s \ {Pick(s)}] = Bytes(w, s \ {Pick(s)})
      BY <3>1
    <3>3. full[s] = Step(s)
      BY <1>4
    <3> QED
      BY <2>3, <3>2, <3>3
  <2> QED
    BY <2>2, <2>3
<1>6. IsBytes(w, T, c)
  BY <1>5
<1>7. Bytes(w, T) = c[T]
  BY BytesIs
<1>8. c[T] = IF T = {} THEN 0 ELSE w[Pick(T)].size + c[rest]
  <2> HIDE DEF c
  <2> QED
    BY <1>6, BytesAt
<1>9. CASE T = {}
  BY <1>2, <1>7, <1>8, <1>9
<1>10. CASE T # {}
  <2>1. rest \in SUBSET T /\ IsFiniteSet(rest)
    BY <1>3, FS_Subset
  <2> DEFINE g == [s \in SUBSET rest |-> c[s]]
             d == CHOOSE h : IsBytes(w, rest, h)
  <2>2. IsBytes(w, rest, g)
    <3>1. g = [s \in SUBSET rest |-> c[s]]
      OBVIOUS
    <3> HIDE DEF g, c, rest
    <3> QED
      BY <1>6, <2>1, <3>1, BytesOnPart
  <2>3. IsBytes(w, rest, d)
    BY <2>2
  <2>4. g[rest] = d[rest]
    <3> HIDE DEF g, d, c, rest
    <3> QED
      BY <2>1, <2>2, <2>3, BytesUnique
  <2>5. Bytes(w, rest) = d[rest]
    BY BytesIs
  <2>6. c[rest] = Bytes(w, rest)
    BY <2>4, <2>5
  <2> QED
    BY <1>2, <1>7, <1>8, <1>10, <2>6
<1> QED
  BY <1>9, <1>10

LEMMA BytesEmpty ==
    ASSUME NEW w
    PROVE  Bytes(w, {}) = 0
BY BytesStep, FS_EmptySet

LEMMA BytesNat ==
    ASSUME NEW S, IsFiniteSet(S), NEW w, \A x \in S : w[x].size \in Nat
    PROVE  Bytes(w, S) \in Nat
<1> DEFINE Bad == {s \in SUBSET S : Bytes(w, s) \notin Nat}
<1>1. SUFFICES ASSUME Bad # {} PROVE FALSE
  OBVIOUS
<1>2. PICK T \in Bad : \A U \in Bad : U \subseteq T => U = T
  <2>1. Bad \in SUBSET SUBSET S
    OBVIOUS
  <2> HIDE DEF Bad
  <2> QED
    BY <1>1, <2>1, Smallest
<1>3. IsFiniteSet(T)
  BY FS_Subset
<1>4. Bytes(w, T) = IF T = {} THEN 0 ELSE w[Pick(T)].size + Bytes(w, T \ {Pick(T)})
  BY <1>3, BytesStep
<1>5. T # {}
  BY <1>2, <1>4
<1>6. Pick(T) \in T
  BY <1>5, PickIn
<1>7. Bytes(w, T \ {Pick(T)}) \in Nat
  BY <1>2, <1>6
<1> QED
  BY <1>2, <1>4, <1>5, <1>6, <1>7

(* The order in which the elements are taken does not matter.              *)
LEMMA BytesTakes ==
    ASSUME NEW S, IsFiniteSet(S), NEW w, \A x \in S : w[x].size \in Nat, NEW x \in S
    PROVE  Bytes(w, S) = w[x].size + Bytes(w, S \ {x})
<1> DEFINE Bad == {s \in SUBSET S : \E y \in s : Bytes(w, s) # w[y].size + Bytes(w, s \ {y})}
<1>1. SUFFICES ASSUME Bad # {} PROVE FALSE
  OBVIOUS
<1>2. PICK T \in Bad : \A U \in Bad : U \subseteq T => U = T
  <2>1. Bad \in SUBSET SUBSET S
    OBVIOUS
  <2> HIDE DEF Bad
  <2> QED
    BY <1>1, <2>1, Smallest
<1>3. PICK y \in T : Bytes(w, T) # w[y].size + Bytes(w, T \ {y})
  BY <1>2
<1> DEFINE p == Pick(T)
<1>4. IsFiniteSet(T) /\ T # {} /\ p \in T
  BY <1>3, FS_Subset, PickIn
<1>5. Bytes(w, T) = w[p].size + Bytes(w, T \ {p})
  BY <1>4, BytesStep
<1>6. p # y
  BY <1>3, <1>5
<1>7. Bytes(w, T \ {p}) = w[y].size + Bytes(w, (T \ {p}) \ {y})
  <2>1. T \ {p} \notin Bad
    BY <1>2, <1>4, Zenon
  <2> QED
    BY <1>3, <1>6, <2>1
<1>8. Bytes(w, T \ {y}) = w[p].size + Bytes(w, (T \ {y}) \ {p})
  <2>1. T \ {y} \notin Bad
    BY <1>2, <1>3, Zenon
  <2> QED
    BY <1>4, <1>6, <2>1
<1>9. (T \ {p}) \ {y} = (T \ {y}) \ {p}
  OBVIOUS
<1>10. Bytes(w, (T \ {p}) \ {y}) \in Nat
  <2>1. IsFiniteSet((T \ {p}) \ {y}) /\ \A z \in (T \ {p}) \ {y} : w[z].size \in Nat
    BY <1>4, FS_Subset
  <2> QED
    BY <2>1, BytesNat
<1>11. w[p].size \in Nat /\ w[y].size \in Nat
  BY <1>3, <1>4
<1> HIDE DEF p
<1>12. \A a, b, c \in Nat : a + (b + c) = b + (a + c)
  OBVIOUS
<1>13. Bytes(w, T) = w[y].size + (w[p].size + Bytes(w, (T \ {p}) \ {y}))
  BY <1>5, <1>7, <1>10, <1>11, <1>12
<1> QED
  BY <1>3, <1>8, <1>9, <1>13

LEMMA BytesSplit ==
    ASSUME NEW S, IsFiniteSet(S), NEW w, \A x \in S : w[x].size \in Nat, NEW T \in SUBSET S
    PROVE  Bytes(w, S) = Bytes(w, T) + Bytes(w, S \ T)
<1> DEFINE Bad == {s \in SUBSET S : Bytes(w, S) # Bytes(w, s) + Bytes(w, S \ s)}
<1>1. SUFFICES ASSUME Bad # {} PROVE FALSE
  OBVIOUS
<1>2. PICK U \in Bad : \A V \in Bad : V \subseteq U => V = U
  <2>1. Bad \in SUBSET SUBSET S
    OBVIOUS
  <2> HIDE DEF Bad
  <2> QED
    BY <1>1, <2>1, Smallest
<1>3. U # {}
  <2>1. SUFFICES ASSUME U = {} PROVE FALSE
    OBVIOUS
  <2>2. S \ U = S /\ Bytes(w, U) = 0
    BY <2>1, BytesEmpty
  <2>3. Bytes(w, S) \in Nat
    BY BytesNat
  <2>4. Bytes(w, S) = Bytes(w, U) + Bytes(w, S \ U)
    BY <2>2, <2>3
  <2> QED
    BY <1>2, <2>4
<1>4. PICK x \in U : TRUE
  BY <1>3
<1>5. Bytes(w, S) = Bytes(w, U \ {x}) + Bytes(w, S \ (U \ {x}))
  BY <1>2
<1>6. IsFiniteSet(U) /\ IsFiniteSet(U \ {x}) /\ IsFiniteSet(S \ U) /\ IsFiniteSet(S \ (U \ {x}))
  BY FS_Subset
<1>7. Bytes(w, U) = w[x].size + Bytes(w, U \ {x})
  BY <1>6, BytesTakes
<1>8. Bytes(w, S \ (U \ {x})) = w[x].size + Bytes(w, S \ U)
  <2>1. (S \ (U \ {x})) \ {x} = S \ U /\ x \in S \ (U \ {x})
    OBVIOUS
  <2> QED
    <3>1. \A z \in S \ (U \ {x}) : w[z].size \in Nat
      OBVIOUS
    <3> QED
      <4>1. PICK V : V = S \ (U \ {x})
        OBVIOUS
      <4>2. Bytes(w, V) = w[x].size + Bytes(w, V \ {x})
        BY <1>6, <2>1, <3>1, <4>1, BytesTakes
      <4> QED
        BY <2>1, <4>1, <4>2
<1>9. Bytes(w, U \ {x}) \in Nat /\ Bytes(w, S \ U) \in Nat /\ w[x].size \in Nat
  BY <1>6, BytesNat
<1> QED
  BY <1>2, <1>5, <1>7, <1>8, <1>9

LEMMA BytesGrow ==
    ASSUME NEW S, IsFiniteSet(S), NEW w, \A x \in S : w[x].size \in Nat, NEW T \in SUBSET S
    PROVE  Bytes(w, T) <= Bytes(w, S)
<1>1. Bytes(w, S) = Bytes(w, T) + Bytes(w, S \ T)
  BY BytesSplit
<1>2. Bytes(w, T) \in Nat /\ Bytes(w, S \ T) \in Nat
  <2>1. IsFiniteSet(T) /\ IsFiniteSet(S \ T)
    BY FS_Subset
  <2> QED
    BY <2>1, BytesNat
<1> QED
  BY <1>1, <1>2

LEMMA BytesSame ==
    ASSUME NEW S, IsFiniteSet(S), NEW w, NEW v, \A x \in S : w[x].size = v[x].size
    PROVE  Bytes(w, S) = Bytes(v, S)
<1> DEFINE Bad == {s \in SUBSET S : Bytes(w, s) # Bytes(v, s)}
<1>1. SUFFICES ASSUME Bad # {} PROVE FALSE
  OBVIOUS
<1>2. PICK T \in Bad : \A U \in Bad : U \subseteq T => U = T
  <2>1. Bad \in SUBSET SUBSET S
    OBVIOUS
  <2> HIDE DEF Bad
  <2> QED
    BY <1>1, <2>1, Smallest
<1>3. IsFiniteSet(T)
  BY FS_Subset
<1>4. Bytes(w, T) = IF T = {} THEN 0 ELSE w[Pick(T)].size + Bytes(w, T \ {Pick(T)})
  BY <1>3, BytesStep
<1>5. Bytes(v, T) = IF T = {} THEN 0 ELSE v[Pick(T)].size + Bytes(v, T \ {Pick(T)})
  BY <1>3, BytesStep
<1>6. T # {} /\ Pick(T) \in T
  BY <1>2, <1>4, <1>5, PickIn
<1>7. Bytes(w, T \ {Pick(T)}) = Bytes(v, T \ {Pick(T)})
  BY <1>2, <1>6
<1> QED
  BY <1>2, <1>4, <1>5, <1>6, <1>7

-----------------------------------------------------------------------------
(* The order of the keys                                                   *)

(* Among numbers there is always a least.                                  *)
LEMMA Least ==
    ASSUME NEW S \in SUBSET Nat, S # {}
    PROVE  \E n \in S : \A m \in S : n <= m
<1>1. PICK n \in S : \A m \in S : ~ (<<m, n>> \in OpToRel(<, Nat))
  BY NatLessThanWellFounded, WFMin, Zenon
<1>2. \A m \in S : ~ (m < n)
  BY <1>1 DEF OpToRel
<1>3. QED  BY <1>2

LEMMA MinLeast ==
    ASSUME NEW S \in SUBSET Nat, S # {}
    PROVE  Min(S) \in S
<1>1. \E n \in S : \A m \in S : n <= m
  BY Least
<1>2. QED  BY <1>1 DEF Min

(* A list of keys, each once.                                              *)
Once(s) == s \in Seq(Keys) /\ \A i, j \in 1 .. Len(s) : s[i] = s[j] => i = j

(* t holds the first n of s, without those of gone, each once.             *)
Holds(s, gone, n, t) ==
    /\ Once(t)
    /\ \A x : (\E i \in 1 .. Len(t) : t[i] = x) <=> (\E j \in 1 .. n : s[j] = x /\ x \notin gone)

(* The function behind Without, as far as n.                               *)
IsKept(s, gone, n, g) ==
    g = [i \in 0 .. n |-> IF i = 0 THEN <<>>
                          ELSE IF s[i] \in gone THEN g[i - 1] ELSE Append(g[i - 1], s[i])]

LEMMA WithoutIs ==
    ASSUME NEW s, NEW gone
    PROVE  Without(s, gone) = (CHOOSE g : IsKept(s, gone, Len(s), g))[Len(s)]
  BY DEF Without, IsKept

(* What it says of one place.                                              *)
KeptStep(s, gone, g, i) ==
    /\ i = 0 => g[i] = <<>>
    /\ i # 0 /\ s[i] \in gone => g[i] = g[i - 1]
    /\ i # 0 /\ s[i] \notin gone => g[i] = Append(g[i - 1], s[i])

LEMMA KeptAt ==
    ASSUME NEW s, NEW gone, NEW n \in Nat, NEW g, IsKept(s, gone, n, g), NEW i \in 0 .. n
    PROVE  KeptStep(s, gone, g, i)
<1>1. g = [k \in 0 .. n |-> IF k = 0 THEN <<>>
                            ELSE IF s[k] \in gone THEN g[k - 1] ELSE Append(g[k - 1], s[k])]
  BY DEF IsKept
<1>2. g[i] = IF i = 0 THEN <<>>
             ELSE IF s[i] \in gone THEN g[i - 1] ELSE Append(g[i - 1], s[i])
  BY <1>1, Zenon
<1>3. QED  BY <1>2, Zenon DEF KeptStep

LEMMA KeptExists ==
    ASSUME NEW s, NEW gone, NEW n \in Nat
    PROVE  \E g : IsKept(s, gone, n, g)
<1> DEFINE Bad == {m \in Nat : ~ \E g : IsKept(s, gone, m, g)}
<1>1. SUFFICES ASSUME Bad # {} PROVE FALSE
  OBVIOUS
<1>2. PICK m \in Bad : \A l \in Bad : m <= l
  <2>1. Bad \in SUBSET Nat
    OBVIOUS
  <2> HIDE DEF Bad
  <2>2. QED  BY <1>1, <2>1, Least
<1>3. CASE m = 0
  <2> DEFINE g == [i \in 0 .. m |-> <<>>]
  <2>1. IsKept(s, gone, m, g)
    BY <1>3 DEF IsKept
  <2>2. QED  BY <1>2, <2>1
<1>4. CASE m # 0
  <2>1. m \in Nat /\ m - 1 \in Nat /\ m - 1 \notin Bad
    BY <1>2, <1>4
  <2>2. PICK h : IsKept(s, gone, m - 1, h)
    BY <2>1
  <2> DEFINE g == [i \in 0 .. m |-> IF i = m THEN IF s[m] \in gone THEN h[m - 1] ELSE Append(h[m - 1], s[m])
                                    ELSE h[i]]
  <2>3. SUFFICES ASSUME NEW i \in 0 .. m
                 PROVE  g[i] = IF i = 0 THEN <<>>
                               ELSE IF s[i] \in gone THEN g[i - 1] ELSE Append(g[i - 1], s[i])
    <3>1. IsKept(s, gone, m, g)
      BY <2>3 DEF IsKept
    <3>2. QED  BY <1>2, <3>1
  <2>4. CASE i = m
    <3>1. g[i - 1] = h[i - 1] /\ g[i] = IF s[i] \in gone THEN h[i - 1] ELSE Append(h[i - 1], s[i])
      BY <1>4, <2>1, <2>4
    <3>2. QED  BY <1>4, <2>4, <3>1
  <2>5. CASE i # m
    <3>1. i \in 0 .. m - 1 /\ g[i] = h[i] /\ (i # 0 => g[i - 1] = h[i - 1])
      BY <2>1, <2>5
    <3>2. /\ i = 0 => h[i] = <<>>
          /\ i # 0 /\ s[i] \in gone => h[i] = h[i - 1]
          /\ i # 0 /\ s[i] \notin gone => h[i] = Append(h[i - 1], s[i])
      <4>1. PICK l : l = m - 1
        OBVIOUS
      <4>2. l \in Nat /\ IsKept(s, gone, l, h) /\ i \in 0 .. l
        BY <2>1, <2>2, <3>1, <4>1
      <4>3. KeptStep(s, gone, h, i)
        BY <4>2, KeptAt
      <4>4. QED  BY <4>3, Zenon DEF KeptStep
    <3>3. QED  BY <3>1, <3>2
  <2>6. QED  BY <2>4, <2>5
<1>5. QED  BY <1>3, <1>4

(* One more of s.                                                          *)
LEMMA HoldsOneMore ==
    ASSUME NEW s, Once(s), NEW gone, NEW n \in 1 .. Len(s), NEW t, Holds(s, gone, n - 1, t), NEW u,
           u = IF s[n] \in gone THEN t ELSE Append(t, s[n])
    PROVE  Holds(s, gone, n, u)
<1>0. /\ n \in Nat /\ Len(s) \in Nat /\ s[n] \in Keys /\ t \in Seq(Keys) /\ Len(t) \in Nat
      /\ \A j : j \in 1 .. n <=> j \in 1 .. n - 1 \/ j = n
  BY DEF Once, Holds
<1>1. CASE s[n] \in gone
  BY <1>0, <1>1 DEF Holds
<1>2. CASE s[n] \notin gone
  <2>1. /\ u \in Seq(Keys) /\ Len(u) = Len(t) + 1 /\ u[Len(t) + 1] = s[n]
        /\ \A i \in 1 .. Len(t) : u[i] = t[i]
    BY <1>0, <1>2
  <2>2. \A i \in 1 .. Len(t) : t[i] # s[n]
    <3>1. \A j \in 1 .. n - 1 : s[j] # s[n]
      BY <1>0 DEF Once
    <3>2. QED  BY <3>1 DEF Holds
  <2>3. \A i : i \in 1 .. Len(u) <=> i \in 1 .. Len(t) \/ i = Len(t) + 1
    BY <1>0, <2>1
  <2>4. Once(u)
    BY <2>1, <2>2, <2>3 DEF Once, Holds
  <2>5. \A x : (\E i \in 1 .. Len(u) : u[i] = x) <=> (\E i \in 1 .. Len(t) : t[i] = x) \/ x = s[n]
    BY <1>0, <2>1, <2>3
  <2>6. \A x : (\E j \in 1 .. n : s[j] = x /\ x \notin gone)
                 <=> (\E j \in 1 .. n - 1 : s[j] = x /\ x \notin gone) \/ x = s[n]
    BY <1>0, <1>2
  <2>7. QED  BY <2>4, <2>5, <2>6 DEF Holds
<1>3. QED  BY <1>1, <1>2

(* What Without leaves: the others, each once.                             *)
LEMMA WithoutOnly ==
    ASSUME NEW s, Once(s), NEW gone
    PROVE  Once(Without(s, gone)) /\ ToSet(Without(s, gone)) = ToSet(s) \ gone
<1> DEFINE g == CHOOSE h : IsKept(s, gone, Len(s), h)
           Bad == {i \in 0 .. Len(s) : ~ Holds(s, gone, i, g[i])}
<1>1. Len(s) \in Nat
  BY DEF Once
<1>2. IsKept(s, gone, Len(s), g)
  BY <1>1, KeptExists
<1>3. Without(s, gone) = g[Len(s)]
  BY WithoutIs
<1> HIDE DEF g
<1>4. Bad = {}
  <2>1. SUFFICES ASSUME Bad # {} PROVE FALSE
    OBVIOUS
  <2>2. PICK i \in Bad : \A m \in Bad : i <= m
    <3>1. Bad \in SUBSET Nat
      BY <1>1
    <3> HIDE DEF Bad
    <3>2. QED  BY <2>1, <3>1, Least
  <2>3. CASE i = 0
    <3>1. g[i] = <<>>
      <4>1. i \in 0 .. Len(s)
        BY <2>2
      <4>2. KeptStep(s, gone, g, i)
        BY <1>1, <1>2, <4>1, KeptAt
      <4>3. QED  BY <2>3, <4>2, Zenon DEF KeptStep
    <3>2. Holds(s, gone, i, g[i])
      BY <2>3, <3>1 DEF Holds, Once
    <3>3. QED  BY <2>2, <3>2
  <2>4. CASE i # 0
    <3>1. i \in 1 .. Len(s) /\ i - 1 \in 0 .. Len(s) /\ i - 1 \notin Bad
      BY <1>1, <2>2, <2>4
    <3>2. Holds(s, gone, i - 1, g[i - 1])
      BY <3>1
    <3>3. g[i] = IF s[i] \in gone THEN g[i - 1] ELSE Append(g[i - 1], s[i])
      <4>1. i \in 0 .. Len(s)
        BY <2>2
      <4>2. KeptStep(s, gone, g, i)
        BY <1>1, <1>2, <4>1, KeptAt
      <4>3. QED  BY <2>4, <4>2, Zenon DEF KeptStep
    <3>4. Holds(s, gone, i, g[i])
      BY <3>1, <3>2, <3>3, HoldsOneMore
    <3>5. QED  BY <2>2, <3>4
  <2>5. QED  BY <2>3, <2>4
<1>5. Holds(s, gone, Len(s), g[Len(s)])
  BY <1>1, <1>4
<1>6. \A t : t \in Seq(Keys) => \A x : x \in ToSet(t) <=> \E i \in 1 .. Len(t) : t[i] = x
  BY DEF ToSet
<1>7. PICK t : t = Without(s, gone)
  OBVIOUS
<1>8. Holds(s, gone, Len(s), t)
  BY <1>3, <1>5, <1>7
<1>9. Once(t) /\ \A x : x \in ToSet(t) <=> x \in ToSet(s) \ gone
  <2>1. Once(t) /\ t \in Seq(Keys) /\ s \in Seq(Keys)
    BY <1>8 DEF Holds, Once
  <2>2. \A x : x \in ToSet(t) <=> \E j \in 1 .. Len(s) : s[j] = x /\ x \notin gone
    BY <1>6, <1>8, <2>1 DEF Holds
  <2>3. QED  BY <1>6, <2>1, <2>2
<1>10. QED  BY <1>7, <1>9

(* The length of a list of keys, each once.                                *)
LEMMA OnceLength ==
    ASSUME NEW s, Once(s)
    PROVE  IsFiniteSet(ToSet(s)) /\ Cardinality(ToSet(s)) = Len(s)
<1>1. Len(s) \in Nat /\ s \in [1 .. Len(s) -> ToSet(s)] /\ \A x \in ToSet(s) : \E i \in 1 .. Len(s) : s[i] = x
  BY DEF Once, ToSet
<1>2. s \in Bijection(1 .. Len(s), ToSet(s))
  <2>1. s \in Injection(1 .. Len(s), ToSet(s))
    BY <1>1 DEF Once, Injection, IsInjective
  <2>2. s \in Surjection(1 .. Len(s), ToSet(s))
    BY <1>1 DEF Surjection
  <2>3. QED  BY <2>1, <2>2 DEF Bijection
<1>3. IsFiniteSet(1 .. Len(s)) /\ Cardinality(1 .. Len(s)) = Len(s)
  BY <1>1, FS_Interval
<1>4. QED  BY <1>2, <1>3, FS_Bijection DEF ExistsBijection

-----------------------------------------------------------------------------
(* The bounds of the cache: s is an order to evict in for what w holds,    *)
(* and both limits are kept.                                               *)
InBounds(s, w) ==
    /\ Once(s) /\ ToSet(s) = {k \in Keys : w[k] # NONE}
    /\ Len(s) <= CacheMax
    /\ Bytes(w, ToSet(s)) <= MaxBytes

BoundsInv == InBounds(order, cache)

Entries == [Keys -> EntryRecord \cup {NONE}]

LEMMA SizeOf ==
    ASSUME NEW w \in Entries, NEW k \in Keys, w[k] # NONE
    PROVE  w[k].size \in Nat /\ w[k].size <= ItemMax
<1>1. w[k] \in EntryRecord
  BY DEF Entries
<1>2. w[k].size \in 1 .. ItemMax
  BY <1>1 DEF EntryRecord
<1>3. QED  BY <1>2, CacheAssumption

(* With fewer entries, and those that stay as they were, the limits hold.  *)
LEMMA FewerInBounds ==
    ASSUME NEW s, NEW w \in Entries, InBounds(s, w), NEW t, Once(t), NEW v \in Entries,
           ToSet(t) \in SUBSET ToSet(s), \A k \in ToSet(t) : v[k] = w[k],
           ToSet(t) = {k \in Keys : v[k] # NONE}
    PROVE  InBounds(t, v)
<1> DEFINE S == ToSet(s)
           T == ToSet(t)
<1>1. /\ IsFiniteSet(S) /\ Cardinality(S) = Len(s) /\ IsFiniteSet(T) /\ Cardinality(T) = Len(t)
      /\ S \in SUBSET Keys /\ \A k \in S : w[k] # NONE
  BY OnceLength DEF InBounds
<1>2. \A k \in S : w[k].size \in Nat
  BY <1>1, SizeOf
<1>3. T \in SUBSET S /\ \A k \in T : v[k].size = w[k].size
  OBVIOUS
<1> HIDE DEF S, T
<1>4. Cardinality(T) <= Cardinality(S)
  BY <1>1, <1>3, FS_Subset
<1>5. Bytes(w, T) <= Bytes(w, S)
  BY <1>1, <1>2, <1>3, BytesGrow
<1>6. Bytes(v, T) = Bytes(w, T)
  BY <1>1, <1>3, BytesSame
<1>7. Bytes(w, T) \in Nat /\ Bytes(w, S) \in Nat
  BY <1>1, <1>2, <1>3, BytesNat
<1>8. Len(t) <= CacheMax
  <2>1. Len(s) <= CacheMax /\ Len(s) \in Nat /\ Len(t) \in Nat
    BY DEF InBounds, Once
  <2>2. QED  BY <1>1, <1>4, <2>1, CacheAssumption
<1>9. Bytes(v, T) <= MaxBytes
  <2>1. Bytes(w, S) <= MaxBytes
    BY DEF InBounds, S
  <2>2. QED  BY <1>5, <1>6, <1>7, <2>1, CacheAssumption
<1>10. QED  BY <1>8, <1>9 DEF InBounds, T

(* Dropping keys.                                                          *)
LEMMA DropInBounds ==
    ASSUME TypeOK, BoundsInv, NEW ks, Drop(ks)
    PROVE  BoundsInv'
<1>1. cache \in Entries /\ cache' \in Entries /\ \A k \in Keys : cache'[k] = IF k \in ks THEN NONE ELSE cache[k]
  BY DropOnly DEF TypeOK, Entries
<1>2. order' = Without(order, ks)
  BY DEF Drop
<1>3. Once(order) /\ ToSet(order) = {k \in Keys : cache[k] # NONE}
  BY DEF BoundsInv, InBounds
<1>4. PICK t : t = Without(order, ks)
  OBVIOUS
<1>5. Once(t) /\ ToSet(t) = ToSet(order) \ ks
  BY <1>3, <1>4, WithoutOnly
<1>6. PICK v : v = cache'
  OBVIOUS
<1>7. /\ v \in Entries /\ ToSet(t) \in SUBSET ToSet(order)
      /\ \A k \in ToSet(t) : v[k] = cache[k]
      /\ ToSet(t) = {k \in Keys : v[k] # NONE}
  BY <1>1, <1>3, <1>5, <1>6
<1>8. InBounds(t, v)
  BY <1>1, <1>5, <1>7, FewerInBounds DEF BoundsInv
<1>9. InBounds(order', cache')
  BY <1>2, <1>4, <1>6, <1>8
<1>10. QED  BY <1>9 DEF BoundsInv, InBounds, Once

(* The empty list, one more key, and the two parts of a list.              *)
LEMMA OnceEmpty ==
    ASSUME NEW s, s = <<>>
    PROVE  Once(s) /\ Len(s) = 0 /\ ToSet(s) = {}
<1>1. s \in Seq(Keys) /\ Len(s) = 0
  OBVIOUS
<1>2. \A x : x \notin ToSet(s)
  BY <1>1 DEF ToSet
<1>3. QED  BY <1>1, <1>2 DEF Once

LEMMA OnceAppend ==
    ASSUME NEW s, Once(s), NEW k \in Keys, k \notin ToSet(s), NEW t, t = Append(s, k)
    PROVE  Once(t) /\ \A x : x \in ToSet(t) <=> x \in ToSet(s) \/ x = k
<1>1. /\ s \in Seq(Keys) /\ Len(s) \in Nat /\ t \in Seq(Keys) /\ Len(t) = Len(s) + 1
      /\ t[Len(s) + 1] = k /\ \A i \in 1 .. Len(s) : t[i] = s[i] /\ s[i] # k
  BY DEF Once, ToSet
<1>2. \A i : i \in 1 .. Len(t) <=> i \in 1 .. Len(s) \/ i = Len(s) + 1
  BY <1>1
<1>3. Once(t)
  BY <1>1, <1>2 DEF Once
<1>4. \A x : x \in ToSet(s) <=> \E i \in 1 .. Len(s) : s[i] = x
  BY <1>1 DEF ToSet
<1>5. \A x : x \in ToSet(t) <=> \E i \in 1 .. Len(t) : t[i] = x
  BY <1>1 DEF ToSet
<1>6. \A x : x \in ToSet(t) => x \in ToSet(s) \/ x = k
  BY <1>1, <1>2, <1>4, <1>5
<1>7. \A x : x \in ToSet(s) \/ x = k => x \in ToSet(t)
  <2>1. ASSUME NEW x, x \in ToSet(s)
        PROVE  x \in ToSet(t)
    <3>1. PICK i \in 1 .. Len(s) : s[i] = x
      BY <1>4, <2>1
    <3>2. i \in 1 .. Len(t) /\ t[i] = x
      BY <1>1, <1>2, <3>1
    <3>3. QED  BY <1>5, <3>2
  <2>2. k \in ToSet(t)
    <3>1. Len(s) + 1 \in 1 .. Len(t)
      BY <1>1
    <3>2. QED  BY <1>1, <1>5, <3>1
  <2>3. QED  BY <2>1, <2>2
<1>8. QED  BY <1>3, <1>6, <1>7

IsSplit(s, n, p, t) == p = SubSeq(s, 1, n) /\ t = SubSeq(s, n + 1, Len(s))

LEMMA OnceParts ==
    ASSUME NEW s, Once(s), NEW n \in 0 .. Len(s), NEW p, NEW t, IsSplit(s, n, p, t)
    PROVE  Once(t) /\ \A x : x \in ToSet(t) <=> x \in ToSet(s) /\ x \notin ToSet(p)
<1>1. s \in Seq(Keys) /\ Len(s) \in Nat /\ n \in Nat /\ n <= Len(s)
  BY DEF Once
<1>2. /\ p \in Seq(Keys) /\ Len(p) = n
      /\ \A i \in 1 .. n : p[i] = s[i]
  BY <1>1 DEF IsSplit
<1>3. /\ t \in Seq(Keys) /\ Len(t) = Len(s) - n
      /\ \A i \in 1 .. Len(s) - n : t[i] = s[n + i]
  BY <1>1 DEF IsSplit
<1>4. Once(t)
  <2>1. ASSUME NEW i \in 1 .. Len(t), NEW j \in 1 .. Len(t), t[i] = t[j]
        PROVE  i = j
    <3>1. n + i \in 1 .. Len(s) /\ n + j \in 1 .. Len(s) /\ s[n + i] = s[n + j]
      BY <1>1, <1>3, <2>1
    <3>2. n + i = n + j
      BY <3>1 DEF Once
    <3>3. QED  BY <1>1, <1>3, <3>2
  <2>2. QED  BY <1>3, <2>1 DEF Once
<1>5. /\ \A x : x \in ToSet(s) <=> \E i \in 1 .. Len(s) : s[i] = x
      /\ \A x : x \in ToSet(p) <=> \E i \in 1 .. n : s[i] = x
      /\ \A x : x \in ToSet(t) <=> \E i \in 1 .. Len(t) : t[i] = x
  <2>1. \A x : x \in ToSet(s) <=> \E i \in 1 .. Len(s) : s[i] = x
    BY <1>1 DEF ToSet
  <2>2. \A x : x \in ToSet(p) <=> \E i \in 1 .. n : p[i] = x
    BY <1>2 DEF ToSet
  <2>3. \A x : x \in ToSet(t) <=> \E i \in 1 .. Len(t) : t[i] = x
    BY <1>3 DEF ToSet
  <2>4. QED  BY <1>2, <2>1, <2>2, <2>3
<1>6. ASSUME NEW x, x \in ToSet(t)
      PROVE  x \in ToSet(s) /\ x \notin ToSet(p)
  <2>1. PICK i \in 1 .. Len(t) : t[i] = x
    BY <1>5, <1>6
  <2>2. n + i \in 1 .. Len(s) /\ s[n + i] = x
    BY <1>1, <1>3, <2>1
  <2>3. ASSUME NEW j \in 1 .. n, s[j] = x
        PROVE  FALSE
    <3>1. j \in 1 .. Len(s) /\ j # n + i
      BY <1>1, <1>3
    <3>2. QED  BY <2>2, <2>3, <3>1 DEF Once
  <2>4. QED  BY <1>5, <2>2, <2>3
<1>7. ASSUME NEW x, x \in ToSet(s), x \notin ToSet(p)
      PROVE  x \in ToSet(t)
  <2>1. PICK j \in 1 .. Len(s) : s[j] = x
    BY <1>5, <1>7
  <2>2. j \notin 1 .. n
    BY <1>5, <1>7, <2>1
  <2>3. PICK i : i = j - n
    OBVIOUS
  <2>4. i \in 1 .. Len(t) /\ t[i] = s[n + i] /\ n + i = j
    BY <1>1, <1>3, <2>2, <2>3
  <2>5. QED  BY <1>5, <2>1, <2>4
<1>8. QED  BY <1>4, <1>6, <1>7

(* A hit moves its key to the end.                                         *)
LEMMA HitInBounds ==
    ASSUME TypeOK, BoundsInv, NEW c \in Calls, NEW b \in Backends, NEW q \in Queries, NEW u \in Users,
           ReadHits(c, b, q, u)
    PROVE  BoundsInv'
<1>1. PICK k : k = CacheKey(b, q, u)
  OBVIOUS
<1>2. k \in Keys /\ cache[k] # NONE /\ order' = Append(Without(order, {k}), k) /\ cache' = cache
  BY <1>1 DEF ReadHits, CacheKey, Keys
<1>3. Once(order) /\ ToSet(order) = {j \in Keys : cache[j] # NONE} /\ InBounds(order, cache) /\ cache \in Entries
  BY DEF BoundsInv, InBounds, TypeOK, Entries
<1>4. PICK s : s = Without(order, {k})
  OBVIOUS
<1>5. Once(s) /\ ToSet(s) = ToSet(order) \ {k}
  BY <1>3, <1>4, WithoutOnly
<1>6. PICK t : t = Append(s, k)
  OBVIOUS
<1>7. Once(t) /\ \A x : x \in ToSet(t) <=> x \in ToSet(s) \/ x = k
  BY <1>2, <1>5, <1>6, OnceAppend
<1>8. ToSet(t) = ToSet(order)
  BY <1>2, <1>3, <1>5, <1>7
<1>9. InBounds(t, cache)
  BY <1>3, <1>7, <1>8, FewerInBounds
<1>10. QED  BY <1>2, <1>4, <1>6, <1>9 DEF BoundsInv, InBounds, Once

(* What is stored is there, and the oldest have gone until the rest fits.  *)
LEMMA PutInBounds ==
    ASSUME TypeOK, BoundsInv, NEW k \in Keys, NEW e \in EntryRecord, Put(k, e)
    PROVE  BoundsInv'
<1> DEFINE held == [cache EXCEPT ![k] = e]
           s == Without(order, {k})
           ks == Append(s, k)
           Good == {i \in 0 .. Len(ks) : Fits(held, SubSeq(ks, i + 1, Len(ks)))}
           n == Min(Good)
           p == SubSeq(ks, 1, n)
           t == SubSeq(ks, n + 1, Len(ks))
<1>1. cache' = [q \in Keys |-> IF q \in ToSet(p) THEN NONE ELSE held[q]] /\ order' = t
  BY Zenon DEF Put
<1>2. held \in Entries /\ \A q \in Keys : held[q] = IF q = k THEN e ELSE cache[q]
  BY DEF TypeOK, Entries
<1> HIDE DEF held
<1>3. s = Without(order, {k})
  OBVIOUS
<1> HIDE DEF s
<1>4. ks = Append(s, k)
  OBVIOUS
<1> HIDE DEF ks
<1>5. n = Min(Good)
  OBVIOUS
<1> HIDE DEF n
<1>6. IsSplit(ks, n, p, t)
  BY DEF IsSplit
<1>7. t = SubSeq(ks, n + 1, Len(ks))
  OBVIOUS
<1> HIDE DEF p, t
<1>8. Once(s) /\ ToSet(s) = {q \in Keys : cache[q] # NONE} \ {k}
  BY <1>3, WithoutOnly DEF BoundsInv, InBounds
<1>9. Once(ks) /\ \A x : x \in ToSet(ks) <=> x \in ToSet(s) \/ x = k
  BY <1>4, <1>8, OnceAppend
<1>10. e # NONE
  BY CacheAssumption
<1>11. \A q \in Keys : q \in ToSet(ks) <=> held[q] # NONE
  BY <1>2, <1>8, <1>9, <1>10
<1>12. n \in 0 .. Len(ks) /\ Fits(held, SubSeq(ks, n + 1, Len(ks)))
  <2>1. Len(ks) \in Nat /\ ks \in Seq(Keys)
    BY <1>9 DEF Once
  <2>2. Len(ks) \in Good
    <3>1. SubSeq(ks, Len(ks) + 1, Len(ks)) = <<>>
      BY <2>1
    <3>2. PICK z : z = <<>>
      OBVIOUS
    <3>3. Len(z) = 0 /\ ToSet(z) = {} /\ Bytes(held, {}) = 0
      BY <3>2, OnceEmpty, BytesEmpty
    <3>4. Fits(held, z)
      BY <3>3, CacheAssumption DEF Fits
    <3>5. Fits(held, SubSeq(ks, Len(ks) + 1, Len(ks)))
      BY <3>1, <3>2, <3>4
    <3>6. Len(ks) \in 0 .. Len(ks)
      BY <2>1
    <3>7. QED  BY <3>5, <3>6, Zenon
  <2>3. Good \in SUBSET Nat
    BY <2>1
  <2>4. n \in Good
    <3> HIDE DEF Good
    <3>1. QED  BY <1>5, <2>2, <2>3, MinLeast
  <2>5. QED  BY <2>4
<1>13. Once(t) /\ \A x : x \in ToSet(t) <=> x \in ToSet(ks) /\ x \notin ToSet(p)
  <2>1. Once(ks) /\ n \in 0 .. Len(ks)
    BY <1>9, <1>12
  <2>2. QED  BY <1>6, <2>1, OnceParts
<1>14. PICK v : v = cache'
  OBVIOUS
<1>15. /\ v \in Entries
       /\ \A q \in Keys : v[q] = IF q \in ToSet(p) THEN NONE ELSE held[q]
  BY <1>1, <1>2, <1>14 DEF Entries
<1>16. ToSet(t) \in SUBSET Keys
  BY <1>13 DEF Once, ToSet
<1>17. ToSet(t) = {q \in Keys : v[q] # NONE}
  BY <1>11, <1>13, <1>15, <1>16
<1>18. Len(t) <= CacheMax /\ Bytes(held, ToSet(t)) <= MaxBytes
  BY <1>7, <1>12 DEF Fits
<1>19. Bytes(v, ToSet(t)) = Bytes(held, ToSet(t))
  <2>1. IsFiniteSet(ToSet(t))
    BY <1>13, OnceLength
  <2>2. \A x \in ToSet(t) : v[x].size = held[x].size
    BY <1>13, <1>15, <1>16
  <2>3. QED  BY <2>1, <2>2, BytesSame
<1>20. InBounds(t, v)
  BY <1>13, <1>17, <1>18, <1>19 DEF InBounds
<1>21. QED  BY <1>1, <1>14, <1>20 DEF BoundsInv, InBounds, Once

(* The other steps leave the cache alone.                                  *)
LEMMA BoundsPreserved == ASSUME IInv, BoundsInv, [Next]_vars PROVE BoundsInv'
<1>0. TypeOK /\ KeyInv
  BY DEF IInv
<1>1. ASSUME UNCHANGED <<cache, order>>
      PROVE  BoundsInv'
  BY <1>1 DEF BoundsInv, InBounds, Once
<1>2. CASE UNCHANGED vars
  BY <1>1, <1>2 DEF vars
<1>3. ASSUME NEW c \in Calls, CallStep(c)
      PROVE  BoundsInv'
  <2>1. ASSUME NEW b \in Backends, NEW u \in Users, NEW q \in Queries, ReadHits(c, b, q, u)
        PROVE  BoundsInv'
    BY <1>0, <2>1, HitInBounds
  <2>2. ASSUME NEW b \in Backends, NEW u \in Users, NEW q \in Queries, ReadMisses(c, b, q, u)
        PROVE  BoundsInv'
    <3>1. PICK ks : Drop(ks)
      BY <2>2 DEF ReadMisses
    <3>2. QED  BY <1>0, <3>1, DropInBounds
  <2>3. ASSUME NEW b \in Backends, NEW u \in Users, WriteBegins(c, b, u)
        PROVE  BoundsInv'
    <3>1. PICK ks : Drop(ks)
      BY <2>3 DEF WriteBegins, Flush
    <3>2. QED  BY <1>0, <3>1, DropInBounds
  <2>4. CASE PortalLooksUp(c) \/ PortalAnswers(c) \/ PortalFails(c) \/ Serve(c) \/ WriteReturns(c) \/ CallFails(c)
    BY <1>1, <2>4 DEF PortalLooksUp, PortalAnswers, PortalFails, Serve, WriteReturns, CallFails
  <2>5. ASSUME NEW size \in 1 .. ItemMax + 1, ReadReturns(c, size)
        PROVE  BoundsInv'
    <3>1. CASE size <= ItemMax /\ Put(call[c].key, Entry(c, size))
      <4>1. Busy(c) /\ size \in 1 .. ItemMax
        BY <2>5, <3>1, CacheAssumption DEF ReadReturns, Busy
      <4>2. call[c].key \in Keys
        BY <1>0, <2>5 DEF ReadReturns, TypeOK, CallRecord
      <4>3. PICK e : e = Entry(c, size)
        OBVIOUS
      <4>4. e \in EntryRecord
        BY <1>0, <4>1, <4>3, EntryOf
      <4>5. QED  BY <1>0, <3>1, <4>2, <4>3, <4>4, PutInBounds
    <3>2. QED  BY <1>1, <2>5, <3>1 DEF ReadReturns
  <2>6. QED  BY <1>3, <2>1, <2>2, <2>3, <2>4, <2>5 DEF CallStep
<1>4. ASSUME NEW b \in Backends, OrphanServed(b)
      PROVE  BoundsInv'
  BY <1>1, <1>4 DEF OrphanServed
<1>5. CASE PortalStep
  <2>1. ASSUME NEW l \in Links, ConnChanges(l)
        PROVE  BoundsInv'
    BY <1>1, <2>1 DEF ConnChanges
  <2>2. ASSUME NEW us, Invalidate(us)
        PROVE  BoundsInv'
    <3>1. PICK ks : Drop(ks)
      BY <2>2 DEF Invalidate
    <3>2. QED  BY <1>0, <3>1, DropInBounds
  <2>3. ASSUME NEW b \in Backends, SpecChanges(b)
        PROVE  BoundsInv'
    <3>1. PICK ks : Drop(ks)
      BY <2>3 DEF SpecChanges, Flush
    <3>2. QED  BY <1>0, <3>1, DropInBounds
  <2>4. QED  BY <1>5, <2>1, <2>2, <2>3 DEF PortalStep
<1>6. QED  BY <1>2, <1>3, <1>4, <1>5 DEF Next

(* The cache never outgrows its entries, its bytes or the size of an entry,*)
(* and its order to evict in lists what it holds, once each.               *)
THEOREM BoundsHold == Spec => []WithinBounds
<1>1. Init => BoundsInv
  <2>1. SUFFICES ASSUME Init PROVE InBounds(order, cache)
    BY DEF BoundsInv
  <2>2. Once(order) /\ Len(order) = 0 /\ ToSet(order) = {}
    <3>1. order = <<>>
      BY <2>1 DEF Init
    <3>2. QED  BY <3>1, OnceEmpty
  <2>3. \A k \in Keys : cache[k] = NONE
    BY <2>1 DEF Init
  <2>4. Bytes(cache, {}) = 0
    BY BytesEmpty
  <2>5. QED  BY <2>2, <2>3, <2>4, CacheAssumption DEF InBounds
<1>2. IInv /\ BoundsInv /\ [Next]_vars => BoundsInv'
  BY BoundsPreserved
<1>3. IInv /\ BoundsInv => WithinBounds
  <2>1. SUFFICES ASSUME IInv, BoundsInv PROVE WithinBounds
    OBVIOUS
  <2>2. /\ Once(order) /\ ToSet(order) = {k \in Keys : cache[k] # NONE}
        /\ Len(order) <= CacheMax /\ Bytes(cache, ToSet(order)) <= MaxBytes
    BY <2>1 DEF BoundsInv, InBounds
  <2>3. Len(order) = Cardinality(ToSet(order))
    BY <2>2, OnceLength
  <2>4. cache \in Entries
    BY <2>1 DEF IInv, TypeOK, Entries
  <2>5. \A k \in ToSet(order) : cache[k].size <= ItemMax
    BY <2>2, <2>4, SizeOf
  <2>6. QED  BY <2>2, <2>3, <2>5 DEF WithinBounds
<1>4. QED  BY Invariant, <1>1, <1>2, <1>3, PTL DEF Spec
=============================================================================
