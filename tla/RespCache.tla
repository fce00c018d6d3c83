------------------------------ MODULE RespCache ------------------------------
(***************************************************************************)
(* The response cache of the gateway (_RESP_CACHE) and the cache of        *)
(* registered connections (_CONN_CACHE), with the tool calls that fill     *)
(* them, the writes that flush the one, /conn-invalidate that empties both *)
(* for a person, and the change of a declaration that flushes a backend.   *)
(*                                                                         *)
(* A call is the part of _call_tool_body from the cache lookup on: steps   *)
(* are the code between two awaits.  A query stands for a tool with its    *)
(* arguments that may be cached, a user for the identity in the cache key  *)
(* (user, groups, affiliation), a link for a (service, email) pair.        *)
(*                                                                         *)
(* Times to live only bound how long a value may stay: an entry may expire *)
(* at any moment.  Bounds: MaxData writes a backend, MaxConn connections a *)
(* person registers, MaxSpec declarations of a backend.                    *)
(***************************************************************************)
EXTENDS Naturals, Sequences, FiniteSets, FiniteSetsExt, SequencesExt

CONSTANTS
    Calls,
    Backends,
    Conn,       \* backends called with the caller's registered connection (PORTAL_CONN_BACKENDS)
    Users,
    Queries,
    CacheMax,   \* CACHE_MAX: entries
    MaxBytes,   \* CACHE_MAX_BYTES
    ItemMax,    \* CACHE_ITEM_MAX_BYTES
    MaxData, MaxConn, MaxSpec,   \* bounds
    NONE

Keys  == Backends \X Queries \X Users
Links == Conn \X Users

(* What _RESP_CACHE holds for a key: an answer, of what state of the       *)
(* backend, over which connection and declaration, and whose.  raced is    *)
(* history.                                                                *)
EntryRecord == [data : Nat, conn : Nat, spec : Nat, size : 1 .. ItemMax, user : Users, raced : BOOLEAN]

ASSUME CacheAssumption ==
    /\ Conn \subseteq Backends
    /\ CacheMax \in Nat /\ MaxBytes \in Nat /\ ItemMax \in Nat
    /\ MaxData \in Nat /\ MaxConn \in Nat /\ MaxSpec \in Nat
    /\ NONE \notin Nat \cup Keys \cup EntryRecord

(* _cache_key, for a tool that may be cached.                              *)
CacheKey(b, q, u) == <<b, q, u>>

VARIABLES
    data,       \* writes each backend has carried out
    orphans,    \* writes each backend may still carry out for a call that has returned
    conn,       \* what the portal holds for each link: how often it was registered, 0 for never
    spec,       \* the declaration of each backend: how often it was changed
    links,      \* _CONN_CACHE
    cache,      \* _RESP_CACHE: what each key holds
    order,      \* _RESP_CACHE: its keys, the oldest first
    pc,         \* where each call stands
    call,       \* its locals
    reply,      \* the last result a call returned: to whom, and whose it is
    finished,   \* history: the last write each backend confirmed to its caller
    told        \* history: the last registration the portal announced for each link

world == <<data, orphans, conn, spec>>
vars == <<world, links, cache, order, pc, call, reply, finished, told>>

(* The locals of a call.  A write has no key.  raced is history: the call  *)
(* overlapped a flush that concerns what it carries.                       *)
NoCall == [backend |-> NONE, user |-> NONE, key |-> NONE,
           spec |-> 0, conn |-> 0, data |-> 0, raced |-> FALSE]

Init ==
    /\ data = [b \in Backends |-> 0] /\ orphans = [b \in Backends |-> 0]
    /\ conn = [l \in Links |-> 0] /\ spec = [b \in Backends |-> 0]
    /\ links = [l \in Links |-> NONE]
    /\ cache = [k \in Keys |-> NONE] /\ order = <<>>
    /\ pc = [c \in Calls |-> "idle"] /\ call = [c \in Calls |-> NoCall]
    /\ reply = NONE
    /\ finished = [b \in Backends |-> 0] /\ told = [l \in Links |-> 0]

Busy(c) == pc[c] # "idle"
CallLink(c) == <<call[c].backend, call[c].user>>
Writing(b) == \E c \in Calls : Busy(c) /\ call[c].key = NONE /\ call[c].backend = b

(* History: the calls of C that are under way have been overtaken.         *)
Overtake(C) == [c \in Calls |-> IF c \in C /\ Busy(c) THEN [call[c] EXCEPT !.raced = TRUE] ELSE call[c]]

-----------------------------------------------------------------------------
(* The cache itself                                                        *)

Bytes(held, ks) == MapThenSumSet(LAMBDA k : held[k].size, ks)

(* The order ks without the keys of gone: SelectSeq, written as a function *)
(* that can be reasoned about.                                             *)
Without(ks, gone) ==
    LET kept[i \in 0 .. Len(ks)] ==
            IF i = 0 THEN <<>>
            ELSE IF ks[i] \in gone THEN kept[i - 1] ELSE Append(kept[i - 1], ks[i])
    IN  kept[Len(ks)]

(* Mutant: only the number of entries is bounded.                          *)
Mut_Fits(held, ks) == Len(ks) <= CacheMax

Fits(held, ks) == Len(ks) <= CacheMax /\ Bytes(held, ToSet(ks)) <= MaxBytes

(* _cache_put: the entry goes last, then the oldest go until the rest fits.*)
Put(k, e) ==
    LET held == [cache EXCEPT ![k] = e]
        ks == Append(Without(order, {k}), k)
        n == Min({i \in 0 .. Len(ks) : Fits(held, SubSeq(ks, i + 1, Len(ks)))})
    IN  /\ cache' = [q \in Keys |-> IF q \in ToSet(SubSeq(ks, 1, n)) THEN NONE ELSE held[q]]
        /\ order' = SubSeq(ks, n + 1, Len(ks))

Drop(ks) ==
    /\ cache' = [k \in Keys |-> IF k \in ks THEN NONE ELSE cache[k]]
    /\ order' = Without(order, ks)

(* _cache_flush_backend.                                                   *)
Flush(b) == Drop({k \in Keys : k[1] = b})

-----------------------------------------------------------------------------
(* Calls                                                                   *)

(* Call c returns res to the user who made it.                             *)
Return(c, res) ==
    /\ pc' = [pc EXCEPT ![c] = "idle"]
    /\ call' = [call EXCEPT ![c] = NoCall]
    /\ reply' = [to |-> call[c].user, of |-> res]

(* Past the cache: a call of a shared backend is sent; one that needs the  *)
(* caller's connection takes it from _CONN_CACHE, while it lasts, or asks  *)
(* the portal.  Without a connection it is refused.                        *)
Dispatch(c, r, others) ==
    LET l == <<r.backend, r.user>>
    IN  \/ /\ r.backend \notin Conn
           /\ pc' = [pc EXCEPT ![c] = "sent"]
           /\ call' = [others EXCEPT ![c] = r]
        \/ /\ r.backend \in Conn
           /\ pc' = [pc EXCEPT ![c] = "asking"]
           /\ call' = [others EXCEPT ![c] = r]
        \/ /\ r.backend \in Conn /\ links[l] # NONE /\ links[l].conn \in Nat \ {0}
           /\ pc' = [pc EXCEPT ![c] = "sent"]
           /\ call' = [others EXCEPT ![c] = [r EXCEPT !.conn = links[l].conn,
                                                      !.raced = @ \/ links[l].raced]]
        \/ /\ r.backend \in Conn /\ links[l] # NONE /\ links[l].conn \notin Nat \ {0}
           /\ UNCHANGED pc
           /\ call' = others

(* _cache_get finds an answer that is still good.                          *)
ReadHits(c, b, q, u) ==
    LET k == CacheKey(b, q, u)
    IN  /\ ~Busy(c) /\ cache[k] # NONE
        /\ order' = Append(Without(order, {k}), k)
        /\ reply' = [to |-> u, of |-> cache[k].user]
        /\ UNCHANGED <<world, links, cache, pc, call, finished, told>>

(* It finds none, or one that has expired and goes.                        *)
ReadMisses(c, b, q, u) ==
    LET k == CacheKey(b, q, u)
    IN  /\ ~Busy(c)
        /\ Drop({k})
        /\ Dispatch(c, [NoCall EXCEPT !.backend = b, !.user = u, !.key = k, !.spec = spec[b],
                                     !.raced = Writing(b)], call)
        /\ UNCHANGED <<world, links, reply, finished, told>>

(* Mutant: the flush is forgotten.                                         *)
Mut_WriteBegins(c, b, u) ==
    /\ ~Busy(c)
    /\ Dispatch(c, [NoCall EXCEPT !.backend = b, !.user = u, !.spec = spec[b]],
                Overtake({d \in Calls : call[d].backend = b}))
    /\ UNCHANGED <<world, links, cache, order, reply, finished, told>>

(* A call that may not be cached counts as a write: the cache of its       *)
(* backend is flushed before it is sent.                                   *)
WriteBegins(c, b, u) ==
    /\ ~Busy(c)
    /\ Flush(b)
    /\ Dispatch(c, [NoCall EXCEPT !.backend = b, !.user = u, !.spec = spec[b]],
                Overtake({d \in Calls : call[d].backend = b}))
    /\ UNCHANGED <<world, links, reply, finished, told>>

(* The portal looks the connection up; its answer is on the way.           *)
PortalLooksUp(c) ==
    /\ pc[c] = "asking"
    /\ pc' = [pc EXCEPT ![c] = "asked"]
    /\ call' = [call EXCEPT ![c].conn = conn[CallLink(c)]]
    /\ UNCHANGED <<world, links, cache, order, reply, finished, told>>

(* The answer is cached - "not registered" too - and the call goes on with *)
(* it.                                                                     *)
PortalAnswers(c) ==
    /\ pc[c] = "asked"
    /\ links' = [links EXCEPT ![CallLink(c)] = [conn |-> call[c].conn, raced |-> call[c].raced]]
    /\ \/ call[c].conn # 0 /\ pc' = [pc EXCEPT ![c] = "sent"] /\ UNCHANGED <<call, reply>>
       \/ call[c].conn = 0 /\ Return(c, call[c].user)
    /\ UNCHANGED <<world, cache, order, finished, told>>

(* The portal could not be asked: the error is cached, the call refused.   *)
PortalFails(c) ==
    /\ pc[c] \in {"asking", "asked"}
    /\ links' = [links EXCEPT ![CallLink(c)] = [conn |-> NONE, raced |-> FALSE]]
    /\ Return(c, call[c].user)
    /\ UNCHANGED <<world, cache, order, finished, told>>

(* The backend carries the call out: a write makes a new state, a read is  *)
(* answered from the present one.                                          *)
Serve(c) ==
    LET b == call[c].backend
        d == IF call[c].key = NONE THEN data[b] + 1 ELSE data[b]
    IN  /\ pc[c] = "sent" /\ d <= MaxData
        /\ pc' = [pc EXCEPT ![c] = "served"]
        /\ data' = [data EXCEPT ![b] = d]
        /\ call' = [call EXCEPT ![c].data = d]
        /\ UNCHANGED <<orphans, conn, spec, links, cache, order, reply, finished, told>>

Entry(c, size) ==
    [data |-> call[c].data, conn |-> call[c].conn, spec |-> call[c].spec, size |-> size,
     user |-> call[c].user, raced |-> call[c].raced]

(* A good answer arrives: a read's is stored, unless it is too big.        *)
ReadReturns(c, size) ==
    /\ pc[c] = "served" /\ call[c].key # NONE
    /\ \/ size <= ItemMax /\ Put(call[c].key, Entry(c, size))
       \/ size > ItemMax /\ UNCHANGED <<cache, order>>
    /\ Return(c, call[c].user)
    /\ UNCHANGED <<world, links, finished, told>>

WriteReturns(c) ==
    LET b == call[c].backend
    IN  /\ pc[c] = "served" /\ call[c].key = NONE
        /\ finished' = [finished EXCEPT ![b] = Max({@, call[c].data})]
        /\ Return(c, call[c].user)
        /\ UNCHANGED <<world, links, cache, order, told>>

(* An error result, a body that says failure, an exception or a timeout:   *)
(* nothing is stored.  What was sent may still be carried out.             *)
CallFails(c) ==
    LET b == call[c].backend
    IN  /\ pc[c] \in {"sent", "served"}
        /\ orphans' = IF pc[c] = "sent" /\ call[c].key = NONE THEN [orphans EXCEPT ![b] = 1] ELSE orphans
        /\ Return(c, call[c].user)
        /\ UNCHANGED <<data, conn, spec, links, cache, order, finished, told>>

OrphanServed(b) ==
    /\ orphans[b] > 0 /\ data[b] < MaxData
    /\ orphans' = [orphans EXCEPT ![b] = @ - 1]
    /\ data' = [data EXCEPT ![b] = @ + 1]
    /\ UNCHANGED <<conn, spec, links, cache, order, pc, call, reply, finished, told>>

-----------------------------------------------------------------------------
(* The portal                                                              *)

(* A person registers a connection, or another one.                        *)
ConnChanges(l) ==
    /\ conn[l] < MaxConn
    /\ conn' = [conn EXCEPT ![l] = @ + 1]
    /\ UNCHANGED <<data, orphans, spec, links, cache, order, pc, call, reply, finished, told>>

(* History: the portal has announced what it holds for the users us.       *)
Announce(us) ==
    /\ told' = [l \in Links |-> IF l[2] \in us THEN conn[l] ELSE told[l]]
    /\ call' = Overtake({c \in Calls : call[c].user \in us})

(* Mutant: the answers that came over the connection stay.                 *)
Mut_Invalidate(us) ==
    /\ links' = [l \in Links |-> IF l[2] \in us THEN NONE ELSE links[l]]
    /\ Announce(us)
    /\ UNCHANGED <<world, cache, order, pc, reply, finished>>

(* POST /conn-invalidate, for one person or for everybody.                 *)
Invalidate(us) ==
    /\ links' = [l \in Links |-> IF l[2] \in us THEN NONE ELSE links[l]]
    /\ Drop({k \in Keys : k[3] \in us})
    /\ Announce(us)
    /\ UNCHANGED <<world, pc, reply, finished>>

(* _conn_reconcile sees another declaration of a backend it keeps.         *)
SpecChanges(b) ==
    /\ b \in Conn /\ spec[b] < MaxSpec
    /\ spec' = [spec EXCEPT ![b] = @ + 1]
    /\ Flush(b)
    /\ call' = Overtake({c \in Calls : call[c].backend = b})
    /\ UNCHANGED <<data, orphans, conn, links, pc, reply, finished, told>>

-----------------------------------------------------------------------------
CallStep(c) ==
    \/ \E b \in Backends, u \in Users :
          \/ \E q \in Queries : ReadHits(c, b, q, u) \/ ReadMisses(c, b, q, u)
          \/ WriteBegins(c, b, u)
    \/ PortalLooksUp(c) \/ PortalAnswers(c) \/ PortalFails(c)
    \/ Serve(c)
    \/ \E size \in 1 .. ItemMax + 1 : ReadReturns(c, size)
    \/ WriteReturns(c) \/ CallFails(c)

PortalStep ==
    \/ \E l \in Links : ConnChanges(l)
    \/ \E us \in {{u} : u \in Users} \cup {Users} : Invalidate(us)
    \/ \E b \in Backends : SpecChanges(b)

Next ==
    \/ \E c \in Calls : CallStep(c)
    \/ \E b \in Backends : OrphanServed(b)
    \/ PortalStep

Spec == Init /\ [][Next]_vars

-----------------------------------------------------------------------------
(* Properties                                                              *)

CallRecord == [backend : Backends \cup {NONE}, user : Users \cup {NONE}, key : Keys \cup {NONE},
               spec : Nat, conn : Nat, data : Nat, raced : BOOLEAN]

(* Types.                                                                  *)
TypeOK ==
    /\ data \in [Backends -> Nat] /\ orphans \in [Backends -> Nat]
    /\ conn \in [Links -> Nat] /\ spec \in [Backends -> Nat]
    /\ links \in [Links -> [conn : Nat \cup {NONE}, raced : BOOLEAN] \cup {NONE}]
    /\ cache \in [Keys -> EntryRecord \cup {NONE}]
    /\ pc \in [Calls -> {"idle", "asking", "asked", "sent", "served"}]
    /\ call \in [Calls -> CallRecord]
    /\ reply \in [to : Users, of : Users] \cup {NONE}
    /\ finished \in [Backends -> Nat] /\ told \in [Links -> Nat]

(* After every step the cache is within CACHE_MAX entries and              *)
(* CACHE_MAX_BYTES, and holds no entry above CACHE_ITEM_MAX_BYTES: the     *)
(* count, the sum and the size of one are bounded in different places -    *)
(* and the order to evict in lists the entries there are, once each.       *)
WithinBounds ==
    /\ Len(order) = Cardinality(ToSet(order)) /\ ToSet(order) = {k \in Keys : cache[k] # NONE}
    /\ Len(order) <= CacheMax
    /\ Bytes(cache, ToSet(order)) <= MaxBytes
    /\ \A k \in ToSet(order) : cache[k].size <= ItemMax

(* A person only ever gets answers that were obtained for that person,     *)
(* cached or not.                                                          *)
OwnAnswers == reply # NONE => reply.to = reply.of

(* What the cache holds is no older than the last write confirmed, the     *)
(* last registration announced and the last declaration - unless the call  *)
(* that brought it was under way when the flush for that came: only a call *)
(* that overlaps a flush can undo it.                                      *)
OnlyOverlapGoesStale ==
    /\ \A k \in Keys : cache[k] # NONE /\ ~cache[k].raced =>
          /\ cache[k].data >= finished[k[1]]
          /\ cache[k].spec = spec[k[1]]
          /\ k[1] \in Conn => cache[k].conn >= told[<<k[1], k[3]>>]
    /\ \A l \in Links : links[l] # NONE /\ links[l].conn # NONE /\ ~links[l].raced =>
          links[l].conn >= told[l]

-----------------------------------------------------------------------------
(* The inductive invariant behind OwnAnswers and OnlyOverlapGoesStale      *)

(* A call under way knows its backend and its user, and its key names both;*)
(* an entry belongs to the user of its key.                                *)
KeyInv ==
    /\ \A c \in Calls : Busy(c) =>
          /\ call[c].backend \in Backends /\ call[c].user \in Users
          /\ call[c].key # NONE => call[c].key[1] = call[c].backend /\ call[c].key[3] = call[c].user
          /\ pc[c] \in {"asking", "asked"} => call[c].backend \in Conn
    /\ \A k \in Keys : cache[k] # NONE => cache[k].user = k[3]

(* Nothing is confirmed or announced that has not happened.                *)
WorldInv ==
    /\ \A b \in Backends : finished[b] <= data[b]
    /\ \A c \in Calls : pc[c] = "served" => call[c].data <= data[call[c].backend]
    /\ \A l \in Links : told[l] <= conn[l]

(* What a call that no flush has overtaken carries is fresh, and no write  *)
(* is under way beside such a read, nor beside an entry one has stored.    *)
FreshInv ==
    /\ \A c \in Calls : Busy(c) /\ ~call[c].raced =>
          /\ call[c].key # NONE => ~Writing(call[c].backend)
          /\ call[c].spec = spec[call[c].backend]
          /\ call[c].key # NONE /\ pc[c] = "served" => call[c].data >= finished[call[c].backend]
          /\ call[c].backend \in Conn /\ pc[c] # "asking" => call[c].conn >= told[CallLink(c)]
    /\ \A k \in Keys : cache[k] # NONE /\ ~cache[k].raced => ~Writing(k[1])

IInv == TypeOK /\ KeyInv /\ WorldInv /\ FreshInv /\ OnlyOverlapGoesStale /\ OwnAnswers

=============================================================================
