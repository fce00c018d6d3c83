------------------------------ MODULE FigStore ------------------------------
(***************************************************************************)
(* The figure store of the gateway: worker threads put the images of tool  *)
(* results on the disk (_fig_store_sync), a sweep rebuilds the table from  *)
(* the disk without the lock (_fig_sweep_sync), limits evict the oldest    *)
(* figures, and the process may die between two file operations.           *)
(*                                                                         *)
(* What runs under _FIG_LOCK is one step.  A figure is what _FIG_KEY tells *)
(* apart (owner, backend, tool, sha256): here its owner and its share of   *)
(* the disk.  A ref is a random name, any that is not in use.  A figure    *)
(* that is skipped, or cannot be written, changes nothing and has no step. *)
(* Bounds: Refs names, MaxNow ticks of the clock.                          *)
(***************************************************************************)
EXTENDS Naturals, FiniteSets, FiniteSetsExt

CONSTANTS
    Stores,       \* results whose figures are being stored
    Owners,
    Sizes,        \* shares of the disk (_fig_disk)
    Refs,
    OwnerQuota,   \* FIG_OWNER_QUOTA
    OwnerMax,     \* FIG_OWNER_MAX_COUNT
    TotalCap,     \* FIG_TOTAL_CAP
    TTL,          \* FIG_TTL_S
    Hour,         \* the age from which a reused figure gets a new term, and an orphan goes
    MaxNow,
    NONE

Figures == Owners \X Sizes

ASSUME FigAssumption ==
    /\ Sizes \subseteq Nat \ {0} /\ Refs \subseteq Nat /\ IsFiniteSet(Refs)
    /\ OwnerQuota \in Nat /\ OwnerMax \in Nat /\ TotalCap \in Nat
    /\ TTL \in Nat /\ Hour \in Nat /\ MaxNow \in Nat
    /\ NONE \notin Refs /\ NONE \notin [fig : Figures, created : Nat] /\ NONE \notin Nat

VARIABLES
    now,
    table,    \* _FIG_META, _FIG_KEY, _FIG_USAGE, _FIG_COUNT, _FIG_TOTAL, _FIG_SWEEP
    json,     \* the side file of each ref on the disk
    image,    \* when the image of each ref was written
    store,    \* the locals of each store
    sweep,    \* the locals of the sweep
    filled    \* history: a sweep has filled the table since the start

vars == <<now, table, json, image, store, sweep, filled>>

NoTable == [meta |-> [r \in Refs |-> NONE], key |-> [f \in Figures |-> NONE],
            usage |-> [o \in Owners |-> 0], count |-> [o \in Owners |-> 0], total |-> 0,
            on |-> FALSE, added |-> {}, dropped |-> {}]
NoStore == [owner |-> NONE, now |-> 0, batch |-> {}, disk |-> 0]
NoSweep == [pc |-> "idle", now |-> 0, unread |-> {}, live |-> [r \in Refs |-> NONE],
            dead |-> {}, held |-> {}, spared |-> {}]

Init ==
    /\ now = 0
    /\ table = NoTable
    /\ json = [r \in Refs |-> NONE] /\ image = [r \in Refs |-> NONE]
    /\ store = [s \in Stores |-> NoStore]
    /\ sweep = NoSweep
    /\ filled = FALSE

Owner(f) == f[1]
Disk(f) == f[2]
Kept(t) == {r \in Refs : t.meta[r] # NONE}
KeptOf(t, o) == {r \in Kept(t) : Owner(t.meta[r].fig) = o}
SumOf(w, S) == MapThenSumSet(LAMBDA x : w[x], S)
Shares(t) == [r \in Kept(t) |-> Disk(t.meta[r].fig)]
DiskOf(t, rs) == SumOf(Shares(t), rs)
Minus(a, b) == IF a > b THEN a - b ELSE 0

-----------------------------------------------------------------------------
(* The table                                                               *)

(* _fig_add.                                                               *)
Add(t, r, m) ==
    LET o == Owner(m.fig)
    IN  [t EXCEPT !.meta[r] = m, !.key[m.fig] = r,
                  !.usage[o] = @ + Disk(m.fig), !.count[o] = @ + 1, !.total = @ + Disk(m.fig),
                  !.added = IF t.on THEN @ \cup {r} ELSE @]

(* Mutant: the number of figures is not brought down.                      *)
Mut_Forget(t, rs) ==
    [t EXCEPT !.meta = [r \in Refs |-> IF r \in rs THEN NONE ELSE t.meta[r]],
              !.key = [f \in Figures |-> IF t.key[f] \in rs THEN NONE ELSE t.key[f]],
              !.usage = [o \in Owners |-> Minus(t.usage[o], DiskOf(t, rs \cap KeptOf(t, o)))],
              !.total = Minus(t.total, DiskOf(t, rs \cap Kept(t))),
              !.dropped = IF t.on THEN @ \cup (rs \cap Kept(t)) ELSE @]

(* _fig_forget, of several refs.                                           *)
Forget(t, rs) ==
    [t EXCEPT !.meta = [r \in Refs |-> IF r \in rs THEN NONE ELSE t.meta[r]],
              !.key = [f \in Figures |-> IF t.key[f] \in rs THEN NONE ELSE t.key[f]],
              !.usage = [o \in Owners |-> Minus(t.usage[o], DiskOf(t, rs \cap KeptOf(t, o)))],
              !.count = [o \in Owners |-> Minus(t.count[o], Cardinality(rs \cap KeptOf(t, o)))],
              !.total = Minus(t.total, DiskOf(t, rs \cap Kept(t))),
              !.dropped = IF t.on THEN @ \cup (rs \cap Kept(t)) ELSE @]

(* _fig_over.                                                              *)
Over(t, o) == t.usage[o] > OwnerQuota \/ t.count[o] > OwnerMax

(* The fewest of rs that must go, the oldest first, for what is left to    *)
(* fit; all of them if it never does.                                      *)
Oldest(t, rs, Fits(_)) ==
    LET upto(r) == {q \in rs : \/ t.meta[q].created < t.meta[r].created
                               \/ t.meta[q].created = t.meta[r].created /\ q <= r}
        prefixes == {{}} \cup {upto(r) : r \in rs}
    IN  CHOOSE p \in prefixes : /\ Fits(Forget(t, p)) \/ p = rs
                                /\ \A q \in prefixes : Fits(Forget(t, q)) => p \subseteq q

(* _fig_enforce: who is over a limit loses the oldest figures, then all    *)
(* do while the total is.                                                  *)
Evicted(t, keep) ==
    LET own(o) == Oldest(t, KeptOf(t, o) \ keep, LAMBDA u : ~Over(u, o))
        gone == UNION {own(o) : o \in Owners}
        left == Forget(t, gone)
    IN  gone \cup Oldest(left, Kept(left) \ keep, LAMBDA u : u.total <= TotalCap)

(* _fig_drop: out of the table, and off the disk.  files are what is on    *)
(* the disk before.                                                        *)
Enforce(t, keep, files, images) ==
    LET gone == Evicted(t, keep)
    IN  /\ table' = Forget(t, gone)
        /\ json' = [r \in Refs |-> IF r \in gone THEN NONE ELSE files[r]]
        /\ image' = [r \in Refs |-> IF r \in gone THEN NONE ELSE images[r]]

-----------------------------------------------------------------------------
(* Storing the figures of one result                                       *)

StoreBegins(s, o) ==
    /\ store[s] = NoStore
    /\ store' = [store EXCEPT ![s] = [NoStore EXCEPT !.owner = o, !.now = now]]
    /\ UNCHANGED <<now, table, json, image, sweep, filled>>

(* Mutant: each figure is measured by itself.                              *)
Mut_Room(s, f) == store[s].owner = Owner(f) /\ Disk(f) <= Min({OwnerQuota, TotalCap}) /\ OwnerMax >= 1

(* A result that alone would exceed a limit is not stored further.         *)
Room(s, f) ==
    /\ store[s].owner = Owner(f)
    /\ store[s].disk + Disk(f) <= Min({OwnerQuota, TotalCap})
    /\ Cardinality(store[s].batch) + 1 <= OwnerMax

(* The figure of the batch is noted, then the limits are enforced.         *)
Batched(s, r, f, t, files, images) ==
    LET batch == store[s].batch \cup {r}
    IN  /\ store' = [store EXCEPT ![s].batch = batch, ![s].disk = @ + Disk(f)]
        /\ Enforce(t, batch, files, images)
        /\ UNCHANGED <<now, sweep, filled>>

(* The ref under which a figure is still alive, if there is one.           *)
Alive(s, f) ==
    {r \in Refs : table.key[f] = r /\ table.meta[r] # NONE /\ json[r] # NONE
                  /\ table.meta[r].created + TTL > store[s].now}
Aged(s, r) == table.meta[r].created + Hour < store[s].now

(* What the side file, and the table, say of a figure.                     *)
Row(s, f) == [fig |-> f, created |-> store[s].now]

(* _fig_reuse: the ref of a figure that is still alive is used again.      *)
Reuse(s, f) ==
    \E r \in Alive(s, f) :
       /\ Room(s, f) /\ ~Aged(s, r)
       /\ Batched(s, r, f, table, json, image)

(* _fig_reuse, of an older figure: its side file is written anew.          *)
Renew(s, f) ==
    \E r \in Alive(s, f) :
       LET m == Row(s, f)
       IN  /\ Room(s, f) /\ Aged(s, r)
           /\ Batched(s, r, f, Add(Forget(table, {r}), r, m), [json EXCEPT ![r] = m], image)

Unused(r) ==
    /\ table.meta[r] = NONE /\ json[r] = NONE /\ image[r] = NONE
    /\ r \notin sweep.unread \cup sweep.dead \cup sweep.held \cup sweep.spared
    /\ sweep.live[r] = NONE /\ r \notin table.added \cup table.dropped
    /\ \A s \in Stores : r \notin store[s].batch

(* _fig_put: a new ref, the image, then the side file; also when an aged   *)
(* one could not be written anew.                                          *)
Put(s, f) ==
    \E r \in Refs :
       LET m == Row(s, f)
       IN  /\ Room(s, f) /\ Unused(r)
           /\ \A q \in Alive(s, f) : Aged(s, q)
           /\ Batched(s, r, f, Add(table, r, m), [json EXCEPT ![r] = m], [image EXCEPT ![r] = now])

(* The result goes out, with the refs of its batch in its text.            *)
StoreReturns(s) ==
    /\ store[s] # NoStore
    /\ store' = [store EXCEPT ![s] = NoStore]
    /\ UNCHANGED <<now, table, json, image, sweep, filled>>

-----------------------------------------------------------------------------
(* The sweep                                                               *)

SweepBegins ==
    /\ sweep.pc = "idle"
    /\ sweep' = [sweep EXCEPT !.pc = "begun", !.now = now]
    /\ table' = [table EXCEPT !.on = TRUE, !.added = {}, !.dropped = {}]
    /\ UNCHANGED <<now, json, image, store, filled>>

SweepLists ==
    /\ sweep.pc = "begun"
    /\ sweep' = [sweep EXCEPT !.pc = "reading", !.unread = {r \in Refs : json[r] # NONE}, !.held = {}]
    /\ UNCHANGED <<now, table, json, image, store, filled>>

(* The directory cannot be read.                                           *)
SweepFails ==
    /\ sweep.pc = "begun"
    /\ sweep' = [NoSweep EXCEPT !.held = sweep.held]
    /\ table' = [table EXCEPT !.on = FALSE, !.added = {}, !.dropped = {}]
    /\ UNCHANGED <<now, json, image, store, filled>>

(* One side file is read: it may be gone, of no use or past its term.      *)
SweepReads(r) ==
    /\ sweep.pc = "reading" /\ r \in sweep.unread
    /\ sweep' = [sweep EXCEPT !.unread = @ \ {r},
                    !.dead = IF json[r] # NONE /\ (image[r] = NONE \/ json[r].created + TTL <= sweep.now)
                             THEN @ \cup {r} ELSE @,
                    !.live[r] = IF image[r] = NONE \/ (json[r] # NONE => json[r].created + TTL <= sweep.now)
                                THEN NONE ELSE json[r]]
    /\ UNCHANGED <<now, table, json, image, store, filled>>

(* A side file that cannot be read is left alone.                          *)
SweepHolds(r) ==
    /\ sweep.pc = "reading" /\ r \in sweep.unread /\ json[r] # NONE
    /\ sweep' = [sweep EXCEPT !.unread = @ \ {r}, !.held = @ \cup {r}]
    /\ UNCHANGED <<now, table, json, image, store, filled>>

(* The table the sweep builds from the figures rows keeps.  Of two refs of *)
(* one figure the one added last is the key; those in late come last.      *)
Tables(rows, late) ==
    LET of(f) == {r \in Refs : rows[r] # NONE /\ rows[r].fig = f}
        last(f) == IF of(f) = {} THEN {NONE} ELSE IF of(f) \cap late = {} THEN of(f) ELSE of(f) \cap late
        t == [NoTable EXCEPT !.meta = rows]
    IN  {[t EXCEPT !.key = k,
                   !.usage = [o \in Owners |-> DiskOf(t, KeptOf(t, o))],
                   !.count = [o \in Owners |-> Cardinality(KeptOf(t, o))],
                   !.total = DiskOf(t, Kept(t))] :
         k \in {k \in [Figures -> Refs \cup {NONE}] : \A f \in Figures : k[f] \in last(f)}}

(* Mutant: what was stored while the sweep read is left out.               *)
Mut_Carry == {}

(* What was added, or given a new term, while the sweep read.              *)
Carry == {r \in table.added : table.meta[r] # NONE}

(* What the new table holds, before the limits.                            *)
Rows == [r \in Refs |-> IF r \in Carry THEN table.meta[r]
                        ELSE IF r \in table.dropped THEN NONE ELSE sweep.live[r]]

(* Mutant: whether the table has it again is not looked at.                *)
Mut_Ended(t) == sweep.dead

(* The dead figures whose files go: those the new table does not have.     *)
Ended(t) == sweep.dead \ Kept(t)

(* The new table takes the place of the old one, and the limits hold.      *)
SweepSwaps ==
    /\ sweep.pc = "reading" /\ sweep.unread = {}
    /\ \E t \in Tables(Rows, Carry) : Enforce(t, {}, json, image)
    /\ sweep' = [NoSweep EXCEPT !.pc = "clearing", !.now = sweep.now, !.held = sweep.held,
                    !.dead = Ended(table'),
                    !.spared = Kept(table') \cup sweep.held \cup {r \in Refs : sweep.live[r] # NONE}]
    /\ filled' = TRUE
    /\ UNCHANGED <<now, store>>

(* The files of a dead figure go, without the lock.                        *)
SweepUnlinks(r) ==
    /\ sweep.pc = "clearing" /\ r \in sweep.dead
    /\ sweep' = [sweep EXCEPT !.dead = @ \ {r}]
    /\ json' = [json EXCEPT ![r] = NONE] /\ image' = [image EXCEPT ![r] = NONE]
    /\ UNCHANGED <<now, table, store, filled>>

(* Images without a side file go once they are old; one written since the  *)
(* directory was listed is not.                                            *)
SweepEnds ==
    /\ sweep.pc = "clearing" /\ sweep.dead = {}
    /\ image' = [r \in Refs |-> IF r \notin sweep.spared /\ image[r] # NONE /\ sweep.now > image[r] + Hour
                               THEN NONE ELSE image[r]]
    /\ sweep' = [NoSweep EXCEPT !.held = sweep.held]
    /\ UNCHANGED <<now, table, json, store, filled>>

-----------------------------------------------------------------------------
(* The clock, and the death of the process                                 *)

Tick ==
    /\ now < MaxNow
    /\ now' = now + 1
    /\ UNCHANGED <<table, json, image, store, sweep, filled>>

(* The process dies and starts again; what was on the disk stays.          *)
Restart ==
    /\ table' = NoTable /\ store' = [s \in Stores |-> NoStore] /\ sweep' = NoSweep /\ filled' = FALSE
    /\ UNCHANGED now

(* It dies between two steps, between the image and the side file of a put *)
(* or of a drop: any figure of the table may be the one that is dropped    *)
(* while figures are stored.                                               *)
Dies ==
    /\ \/ UNCHANGED <<json, image>>
       \/ \E s \in Stores, f \in Figures, r \in Refs :
             /\ Room(s, f) /\ Unused(r) /\ \A q \in Alive(s, f) : Aged(s, q)
             /\ image' = [image EXCEPT ![r] = now] /\ UNCHANGED json
       \/ \E r \in Kept(table) :
             /\ \E s \in Stores : store[s] # NoStore
             /\ image' = [image EXCEPT ![r] = NONE] /\ UNCHANGED json
    /\ Restart

-----------------------------------------------------------------------------
StoreStep(s) ==
    \/ \E o \in Owners : StoreBegins(s, o)
    \/ \E f \in Figures : Reuse(s, f) \/ Renew(s, f) \/ Put(s, f)
    \/ StoreReturns(s)

SweepStep ==
    \/ SweepBegins \/ SweepLists \/ SweepFails \/ SweepSwaps \/ SweepEnds
    \/ \E r \in Refs : SweepReads(r) \/ SweepHolds(r) \/ SweepUnlinks(r)

Next ==
    \/ \E s \in Stores : StoreStep(s)
    \/ SweepStep
    \/ Tick \/ Dies

Spec == Init /\ [][Next]_vars

-----------------------------------------------------------------------------
(* Properties                                                              *)

Meta == [fig : Figures, created : 0 .. MaxNow]

Tabled ==
    [meta : [Refs -> Meta \cup {NONE}], key : [Figures -> Refs \cup {NONE}],
     usage : [Owners -> Nat], count : [Owners -> Nat], total : Nat,
     on : BOOLEAN, added : SUBSET Refs, dropped : SUBSET Refs]

TypeOK ==
    /\ now \in 0 .. MaxNow /\ filled \in BOOLEAN
    /\ table \in Tabled
    /\ json \in [Refs -> Meta \cup {NONE}] /\ image \in [Refs -> 0 .. MaxNow \cup {NONE}]
    /\ store \in [Stores -> [owner : Owners \cup {NONE}, now : 0 .. now, batch : SUBSET Refs, disk : Nat]]
    /\ sweep \in [pc : {"idle", "begun", "reading", "clearing"}, now : 0 .. now,
                  unread : SUBSET Refs, live : [Refs -> Meta \cup {NONE}],
                  dead : SUBSET Refs, held : SUBSET Refs, spared : SUBSET Refs]

(* The sums that the limits are held against are those of the figures in   *)
(* the table, and _FIG_KEY names a ref of the figure: they are kept up     *)
(* one figure at a time, and built anew by the sweep.                      *)
SumsAgree(t) ==
    /\ \A o \in Owners : /\ t.usage[o] = DiskOf(t, KeptOf(t, o))
                         /\ t.count[o] = Cardinality(KeptOf(t, o))
    /\ t.total = DiskOf(t, Kept(t))
    /\ \A f \in Figures : t.key[f] # NONE =>
          t.meta[t.key[f]] # NONE /\ t.meta[t.key[f]].fig = f

(* Whatever the figures of a result keep from being evicted, no limit is   *)
(* exceeded when the lock is released (_fig_enforce).                      *)
WithinLimits(t) ==
    /\ \A o \in Owners : /\ DiskOf(t, KeptOf(t, o)) <= OwnerQuota
                         /\ Cardinality(KeptOf(t, o)) <= OwnerMax
    /\ DiskOf(t, Kept(t)) <= TotalCap

(* With the types: the limits hold by sums that are right.                 *)
LimitsHold == TypeOK /\ SumsAgree(table) /\ WithinLimits(table)

(* A figure of the table can be fetched: its side file says the same and   *)
(* its image is there - whatever a sweep that read the disk earlier does.  *)
TableOnDisk ==
    \A r \in Kept(table) : json[r] = table.meta[r] /\ image[r] # NONE

(* Once a sweep has filled the table, every figure on the disk that it     *)
(* could read is counted: none escapes the limits.                         *)
DiskCounted ==
    filled /\ sweep.pc = "idle" =>
        \A r \in Refs \ sweep.held : json[r] # NONE => table.meta[r] # NONE

TableAgreesWithDisk == TableOnDisk /\ DiskCounted

(* A store never itself evicts a figure of the result it is storing, the   *)
(* one just stored included, however old a figure that it uses again       *)
(* (_fig_enforce, keep).  Another store, or the sweep, may.                *)
OwnBatchStays ==
    [][\A s \in Stores : store'[s].batch # store[s].batch =>
          \A r \in store'[s].batch :
             r \notin store[s].batch \/ table.meta[r] # NONE => table'.meta[r] # NONE]_vars

-----------------------------------------------------------------------------
(* The inductive invariant behind them                                     *)

(* While a sweep gathers, the table notes what it gets and loses.          *)
OnInv ==
    /\ table.on = (sweep.pc \in {"begun", "reading"})
    /\ sweep.pc # "reading" => \A r \in Refs : sweep.live[r] = NONE
    /\ sweep.pc \in {"begun", "reading"} => \A r \in table.dropped : json[r] # NONE => r \in Carry

(* What the sweep has read is on the disk, unless the table has lost it    *)
(* since or knows it anew; and what is on the disk is not overlooked.      *)
ReadInv ==
    /\ filled /\ sweep.pc = "begun" =>
          \A r \in Refs \ sweep.held : json[r] # NONE => table.meta[r] # NONE
    /\ sweep.pc = "reading" => \A r \in Refs :
          /\ sweep.live[r] # NONE /\ r \notin table.dropped \cup Carry => json[r] = sweep.live[r] /\ image[r] # NONE
          /\ json[r] # NONE => r \in sweep.unread \cup sweep.held \cup sweep.dead \/ Rows[r] # NONE

(* What the sweep deletes is not in the table.                             *)
ClearInv ==
    sweep.pc = "clearing" =>
       /\ sweep.dead \cap Kept(table) = {}
       /\ \A r \in Kept(table) : r \in sweep.spared \/ image[r] >= sweep.now
       /\ \A r \in Refs \ (sweep.held \cup sweep.dead) : json[r] # NONE => table.meta[r] # NONE

(* A ref names the same figure f wherever it is found.                     *)
SameFigure(r, f) ==
    /\ table.meta[r] # NONE => table.meta[r].fig = f
    /\ json[r] # NONE => json[r].fig = f
    /\ sweep.live[r] # NONE => sweep.live[r].fig = f

FigureInv ==
    \A r \in Refs : json[r] # NONE /\ sweep.live[r] # NONE => json[r].fig = sweep.live[r].fig

(* The figures of a result, wherever they are now, fit by themselves.      *)
BatchInv ==
    \A s \in Stores : \E figure \in [store[s].batch -> Figures] :
       /\ \A r \in store[s].batch : SameFigure(r, figure[r])
       /\ SumOf([r \in store[s].batch |-> Disk(figure[r])], store[s].batch) <= store[s].disk
       /\ store[s].disk <= Min({OwnerQuota, TotalCap})
       /\ Cardinality(store[s].batch) <= OwnerMax

IInv ==
    /\ TypeOK /\ SumsAgree(table) /\ WithinLimits(table) /\ TableOnDisk /\ DiskCounted
    /\ OnInv /\ ReadInv /\ ClearInv /\ FigureInv /\ BatchInv

=============================================================================
