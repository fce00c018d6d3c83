--------------------------- MODULE FigStoreProofs ---------------------------
(***************************************************************************)
(* Proofs that the figure store keeps its limits, that the table and the   *)
(* disk agree, and that a store never evicts its own figures.              *)
(***************************************************************************)
EXTENDS FigStore, FiniteSetTheorems, WellFoundedInduction, TLAPS

-----------------------------------------------------------------------------
(* Sums over finite sets.  Induction over a finite set is a smallest       *)
(* counterexample among its subsets.                                       *)

(* Among sets of subsets of a finite set there is always a smallest.       *)
LEMMA Smallest ==
    ASSUME NEW S, IsFiniteSet(S), NEW Bad \in SUBSET SUBSET S, Bad # {}
    PROVE  \E T \in Bad : \A U \in Bad : U \subseteq T => U = T
<1>1. IsWellFoundedOn(StrictSubsetOrdering(S), SUBSET S)
  BY FS_StrictSubsetOrderingWellFounded, FS_FiniteSubsetsOfFinite
<1>2. \E T \in Bad : \A U \in Bad : ~ (<<U, T>> \in StrictSubsetOrdering(S))
  <2>1. Bad \subseteq SUBSET S
    OBVIOUS
  <2> QED
    BY <1>1, <2>1, WFMin, Zenon
<1> QED
  BY <1>2 DEF StrictSubsetOrdering

(* The function behind MapThenSumSet.                                      *)
Pick(s) == CHOOSE x \in s : TRUE
IsSum(w, S, g) == g = [s \in SUBSET S |-> IF s = {} THEN 0 ELSE w[Pick(s)] + g[s \ {Pick(s)}]]

LEMMA PickIn ==
    ASSUME NEW s, s # {}
    PROVE  Pick(s) \in s
BY DEF Pick

LEMMA Unfolded ==
    ASSUME NEW w, NEW S
    PROVE  SumOf(w, S) = (CHOOSE g : IsSum(w, S, g))[S]
BY DEF SumOf, MapThenSumSet, MapThenFoldSet, IsSum, Pick

LEMMA SumOnPart ==
    ASSUME NEW S, NEW T \in SUBSET S, NEW w, NEW g, IsSum(w, S, g),
           NEW h, h = [s \in SUBSET T |-> g[s]]
    PROVE  IsSum(w, T, h)
BY DEF IsSum, Pick

LEMMA SumAt ==
    ASSUME NEW S, NEW w, NEW g, IsSum(w, S, g), NEW s \in SUBSET S
    PROVE  g[s] = IF s = {} THEN 0 ELSE w[Pick(s)] + g[s \ {Pick(s)}]
<1>1. g = [u \in SUBSET S |-> IF u = {} THEN 0 ELSE w[Pick(u)] + g[u \ {Pick(u)}]]
  BY DEF IsSum
<1> QED
  BY <1>1, Zenon

LEMMA SumUnique ==
    ASSUME NEW S, IsFiniteSet(S), NEW w, NEW g, IsSum(w, S, g), NEW h, IsSum(w, S, h)
    PROVE  g[S] = h[S]
<1> DEFINE Bad == {s \in SUBSET S : g[s] # h[s]}
<1>1. SUFFICES ASSUME Bad # {} PROVE FALSE
  OBVIOUS
<1>2. PICK T \in Bad : \A U \in Bad : U \subseteq T => U = T
  <2>1. Bad \in SUBSET SUBSET S
    OBVIOUS
  <2> HIDE DEF Bad
  <2> QED
    BY <1>1, <2>1, Smallest
<1>3. g[T] = (IF T = {} THEN 0 ELSE w[Pick(T)] + g[T \ {Pick(T)}])
  BY SumAt
<1>4. h[T] = (IF T = {} THEN 0 ELSE w[Pick(T)] + h[T \ {Pick(T)}])
  BY SumAt
<1>5. T # {}
  BY <1>2, <1>3, <1>4
<1>6. T \ {Pick(T)} \in SUBSET S /\ T \ {Pick(T)} # T
  BY <1>5, PickIn
<1>7. g[T \ {Pick(T)}] = h[T \ {Pick(T)}]
  BY <1>2, <1>6
<1> QED
  BY <1>2, <1>3, <1>4, <1>5, <1>7

(* What the sum of a finite set is.                                        *)
LEMMA SumSteps ==
    ASSUME NEW S, IsFiniteSet(S), NEW w
    PROVE  SumOf(w, S) = IF S = {} THEN 0 ELSE w[Pick(S)] + SumOf(w, S \ {Pick(S)})
<1> DEFINE Step(s) == IF s = {} THEN 0 ELSE w[Pick(s)] + SumOf(w, s \ {Pick(s)})
           Bad == {s \in SUBSET S : SumOf(w, s) # Step(s)}
<1>1. SUFFICES ASSUME Bad # {} PROVE FALSE
  BY Zenon
<1>2. PICK T \in Bad : \A U \in Bad : U \subseteq T => U = T
  <2>1. Bad \in SUBSET SUBSET S
    OBVIOUS
  <2> HIDE DEF Bad
  <2> QED
    BY <1>1, <2>1, Smallest
<1>3. T \in SUBSET S /\ IsFiniteSet(T)
  BY FS_Subset
<1> DEFINE full == [s \in SUBSET T |-> IF s = T THEN Step(T) ELSE SumOf(w, s)]
           c == CHOOSE g : IsSum(w, T, g)
           rest == T \ {Pick(T)}
<1>4. \A s \in SUBSET T : s # T => SumOf(w, s) = Step(s)
  BY <1>2, <1>3
<1>5. IsSum(w, T, full)
  <2>1. SUFFICES ASSUME NEW s \in SUBSET T
                 PROVE  full[s] = IF s = {} THEN 0 ELSE w[Pick(s)] + full[s \ {Pick(s)}]
    BY DEF IsSum
  <2>2. CASE s = {}
    BY <2>2, <1>4
  <2>3. CASE s # {}
    <3>1. s \ {Pick(s)} \in SUBSET T /\ s \ {Pick(s)} # T
      BY <2>3, PickIn
    <3>2. full[s \ {Pick(s)}] = SumOf(w, s \ {Pick(s)})
      BY <3>1
    <3>3. full[s] = Step(s)
      BY <1>4
    <3> QED
      BY <2>3, <3>2, <3>3
  <2> QED
    BY <2>2, <2>3
<1>6. IsSum(w, T, c)
  BY <1>5
<1>7. SumOf(w, T) = c[T]
  BY Unfolded
<1>8. c[T] = IF T = {} THEN 0 ELSE w[Pick(T)] + c[rest]
  <2> HIDE DEF c
  <2> QED
    BY <1>6, SumAt
<1>9. CASE T = {}
  BY <1>2, <1>7, <1>8, <1>9
<1>10. CASE T # {}
  <2>1. rest \in SUBSET T /\ IsFiniteSet(rest)
    BY <1>3, FS_Subset
  <2> DEFINE g == [s \in SUBSET rest |-> c[s]]
             d == CHOOSE h : IsSum(w, rest, h)
  <2>2. IsSum(w, rest, g)
    <3>1. g = [s \in SUBSET rest |-> c[s]]
      OBVIOUS
    <3> HIDE DEF g, c, rest
    <3> QED
      BY <1>6, <2>1, <3>1, SumOnPart
  <2>3. IsSum(w, rest, d)
    BY <2>2
  <2>4. g[rest] = d[rest]
    <3> HIDE DEF g, d, c, rest
    <3> QED
      BY <2>1, <2>2, <2>3, SumUnique
  <2>5. SumOf(w, rest) = d[rest]
    BY Unfolded
  <2>6. c[rest] = SumOf(w, rest)
    BY <2>4, <2>5
  <2> QED
    BY <1>2, <1>7, <1>8, <1>10, <2>6
<1> QED
  BY <1>9, <1>10

LEMMA SumEmpty ==
    ASSUME NEW w
    PROVE  SumOf(w, {}) = 0
BY SumSteps, FS_EmptySet

LEMMA SumNat ==
    ASSUME NEW S, IsFiniteSet(S), NEW w, \A x \in S : w[x] \in Nat
    PROVE  SumOf(w, S) \in Nat
<1> DEFINE Bad == {s \in SUBSET S : SumOf(w, s) \notin Nat}
<1>1. SUFFICES ASSUME Bad # {} PROVE FALSE
  OBVIOUS
<1>2. PICK T \in Bad : \A U \in Bad : U \subseteq T => U = T
  <2>1. Bad \in SUBSET SUBSET S
    OBVIOUS
  <2> HIDE DEF Bad
  <2> QED
    BY <1>1, <2>1, Smallest
<1>3. IsFiniteSet(T)
  BY FS_Subset
<1>4. SumOf(w, T) = IF T = {} THEN 0 ELSE w[Pick(T)] + SumOf(w, T \ {Pick(T)})
  BY <1>3, SumSteps
<1>5. T # {}
  BY <1>2, <1>4
<1>6. Pick(T) \in T
  BY <1>5, PickIn
<1>7. SumOf(w, T \ {Pick(T)}) \in Nat
  BY <1>2, <1>6
<1> QED
  BY <1>2, <1>4, <1>5, <1>6, <1>7

(* The order in which the elements are taken does not matter.              *)
LEMMA SumTakes ==
    ASSUME NEW S, IsFiniteSet(S), NEW w, \A x \in S : w[x] \in Nat, NEW x \in S
    PROVE  SumOf(w, S) = w[x] + SumOf(w, S \ {x})
<1> DEFINE Bad == {s \in SUBSET S : \E y \in s : SumOf(w, s) # w[y] + SumOf(w, s \ {y})}
<1>1. SUFFICES ASSUME Bad # {} PROVE FALSE
  OBVIOUS
<1>2. PICK T \in Bad : \A U \in Bad : U \subseteq T => U = T
  <2>1. Bad \in SUBSET SUBSET S
    OBVIOUS
  <2> HIDE DEF Bad
  <2> QED
    BY <1>1, <2>1, Smallest
<1>3. PICK y \in T : SumOf(w, T) # w[y] + SumOf(w, T \ {y})
  BY <1>2
<1> DEFINE p == Pick(T)
<1>4. IsFiniteSet(T) /\ T # {} /\ p \in T
  BY <1>3, FS_Subset, PickIn
<1>5. SumOf(w, T) = w[p] + SumOf(w, T \ {p})
  BY <1>4, SumSteps
<1>6. p # y
  BY <1>3, <1>5
<1>7. SumOf(w, T \ {p}) = w[y] + SumOf(w, (T \ {p}) \ {y})
  <2>1. T \ {p} \notin Bad
    BY <1>2, <1>4, Zenon
  <2> QED
    BY <1>3, <1>6, <2>1
<1>8. SumOf(w, T \ {y}) = w[p] + SumOf(w, (T \ {y}) \ {p})
  <2>1. T \ {y} \notin Bad
    BY <1>2, <1>3, Zenon
  <2> QED
    BY <1>4, <1>6, <2>1
<1>9. (T \ {p}) \ {y} = (T \ {y}) \ {p}
  OBVIOUS
<1>10. SumOf(w, (T \ {p}) \ {y}) \in Nat
  <2>1. IsFiniteSet((T \ {p}) \ {y}) /\ \A z \in (T \ {p}) \ {y} : w[z] \in Nat
    BY <1>4, FS_Subset
  <2> QED
    BY <2>1, SumNat
<1>11. w[p] \in Nat /\ w[y] \in Nat
  BY <1>3, <1>4
<1> HIDE DEF p
<1> QED
  BY <1>3, <1>5, <1>7, <1>8, <1>9, <1>10, <1>11

LEMMA SumSplits ==
    ASSUME NEW S, IsFiniteSet(S), NEW w, \A x \in S : w[x] \in Nat, NEW T \in SUBSET S
    PROVE  SumOf(w, S) = SumOf(w, T) + SumOf(w, S \ T)
<1> DEFINE Bad == {s \in SUBSET S : SumOf(w, S) # SumOf(w, s) + SumOf(w, S \ s)}
<1>1. SUFFICES ASSUME Bad # {} PROVE FALSE
  OBVIOUS
<1>2. PICK U \in Bad : \A V \in Bad : V \subseteq U => V = U
  <2>1. Bad \in SUBSET SUBSET S
    OBVIOUS
  <2> HIDE DEF Bad
  <2> QED
    BY <1>1, <2>1, Smallest
<1>3. U # {}
  <2>1. SUFFICES ASSUME U = {} PROVE FALSE
    OBVIOUS
  <2>2. S \ U = S /\ SumOf(w, U) = 0
    BY <2>1, SumEmpty
  <2>3. SumOf(w, S) \in Nat
    BY SumNat
  <2> QED
    BY <1>2, <2>2, <2>3
<1>4. PICK x \in U : TRUE
  BY <1>3
<1>5. SumOf(w, S) = SumOf(w, U \ {x}) + SumOf(w, S \ (U \ {x}))
  BY <1>2
<1>6. IsFiniteSet(U) /\ IsFiniteSet(U \ {x}) /\ IsFiniteSet(S \ U) /\ IsFiniteSet(S \ (U \ {x}))
  BY FS_Subset
<1>7. SumOf(w, U) = w[x] + SumOf(w, U \ {x})
  BY <1>6, SumTakes
<1>8. SumOf(w, S \ (U \ {x})) = w[x] + SumOf(w, S \ U)
  <2>1. (S \ (U \ {x})) \ {x} = S \ U /\ x \in S \ (U \ {x})
    OBVIOUS
  <2> QED
    BY <1>6, <2>1, SumTakes
<1>9. SumOf(w, U \ {x}) \in Nat /\ SumOf(w, S \ U) \in Nat /\ w[x] \in Nat
  BY <1>6, SumNat
<1> QED
  BY <1>2, <1>5, <1>7, <1>8, <1>9

LEMMA SumGrows ==
    ASSUME NEW S, IsFiniteSet(S), NEW w, \A x \in S : w[x] \in Nat, NEW T \in SUBSET S
    PROVE  SumOf(w, T) <= SumOf(w, S)
<1>1. SumOf(w, S) = SumOf(w, T) + SumOf(w, S \ T)
  BY SumSplits
<1>2. SumOf(w, T) \in Nat /\ SumOf(w, S \ T) \in Nat
  <2>1. IsFiniteSet(T) /\ IsFiniteSet(S \ T)
    BY FS_Subset
  <2> QED
    BY <2>1, SumNat
<1> QED
  BY <1>1, <1>2

LEMMA SumSame ==
    ASSUME NEW S, IsFiniteSet(S), NEW w, NEW v, \A x \in S : w[x] = v[x]
    PROVE  SumOf(w, S) = SumOf(v, S)
<1> DEFINE Bad == {s \in SUBSET S : SumOf(w, s) # SumOf(v, s)}
<1>1. SUFFICES ASSUME Bad # {} PROVE FALSE
  OBVIOUS
<1>2. PICK T \in Bad : \A U \in Bad : U \subseteq T => U = T
  <2>1. Bad \in SUBSET SUBSET S
    OBVIOUS
  <2> HIDE DEF Bad
  <2> QED
    BY <1>1, <2>1, Smallest
<1>3. IsFiniteSet(T)
  BY FS_Subset
<1>4. SumOf(w, T) = IF T = {} THEN 0 ELSE w[Pick(T)] + SumOf(w, T \ {Pick(T)})
  BY <1>3, SumSteps
<1>5. SumOf(v, T) = IF T = {} THEN 0 ELSE v[Pick(T)] + SumOf(v, T \ {Pick(T)})
  BY <1>3, SumSteps
<1>6. T # {} /\ Pick(T) \in T
  BY <1>2, <1>4, <1>5, PickIn
<1>7. SumOf(w, T \ {Pick(T)}) = SumOf(v, T \ {Pick(T)})
  BY <1>2, <1>6
<1> QED
  BY <1>2, <1>4, <1>5, <1>6, <1>7
-----------------------------------------------------------------------------
(* The table                                                               *)

LEMMA KeptMeta ==
    ASSUME NEW t \in Tabled, NEW r \in Kept(t)
    PROVE  /\ r \in Refs /\ t.meta[r] \in Meta
           /\ Owner(t.meta[r].fig) \in Owners /\ Disk(t.meta[r].fig) \in Nat \ {0}
           /\ t.meta[r].created \in Nat
<1>1. r \in Refs /\ t.meta[r] \in Meta
  BY DEF Tabled, Kept
<1>2. t.meta[r].fig \in Owners \X Sizes /\ t.meta[r].created \in Nat
  BY <1>1 DEF Meta, Figures
<1>3. t.meta[r].fig[1] \in Owners /\ t.meta[r].fig[2] \in Nat \ {0}
  BY <1>2, FigAssumption
<1> QED
  BY <1>1, <1>2, <1>3 DEF Owner, Disk

LEMMA KeptFinite ==
    ASSUME NEW t, NEW S \in SUBSET Kept(t)
    PROVE  IsFiniteSet(S)
<1>1. S \in SUBSET Refs
  BY DEF Kept
<1> QED
  BY <1>1, FigAssumption, FS_Subset

LEMMA KeptOfKept ==
    ASSUME NEW t, NEW o
    PROVE  KeptOf(t, o) \in SUBSET Kept(t)
BY DEF KeptOf

LEMMA SharesNat ==
    ASSUME NEW t \in Tabled
    PROVE  \A r \in Kept(t) : Shares(t)[r] = Disk(t.meta[r].fig) /\ Shares(t)[r] \in Nat
BY KeptMeta DEF Shares

LEMMA DiskNat ==
    ASSUME NEW t \in Tabled, NEW S \in SUBSET Kept(t)
    PROVE  DiskOf(t, S) \in Nat
<1>1. IsFiniteSet(S) /\ \A r \in S : Shares(t)[r] \in Nat
  BY KeptFinite, SharesNat
<1> QED
  BY <1>1, SumNat DEF DiskOf

LEMMA DiskSplits ==
    ASSUME NEW t \in Tabled, NEW S \in SUBSET Kept(t), NEW T \in SUBSET S
    PROVE  DiskOf(t, S) = DiskOf(t, T) + DiskOf(t, S \ T)
<1>1. IsFiniteSet(S) /\ \A r \in S : Shares(t)[r] \in Nat
  BY KeptFinite, SharesNat
<1> QED
  BY <1>1, SumSplits DEF DiskOf

LEMMA DiskGrows ==
    ASSUME NEW t \in Tabled, NEW S \in SUBSET Kept(t), NEW T \in SUBSET S
    PROVE  DiskOf(t, T) <= DiskOf(t, S)
<1>1. IsFiniteSet(S) /\ \A r \in S : Shares(t)[r] \in Nat
  BY KeptFinite, SharesNat
<1> QED
  BY <1>1, SumGrows DEF DiskOf

LEMMA DiskTakes ==
    ASSUME NEW t \in Tabled, NEW S \in SUBSET Kept(t), NEW r \in S
    PROVE  DiskOf(t, S) = Disk(t.meta[r].fig) + DiskOf(t, S \ {r})
<1>1. IsFiniteSet(S) /\ \A q \in S : Shares(t)[q] \in Nat
  BY KeptFinite, SharesNat
<1>2. Shares(t)[r] = Disk(t.meta[r].fig)
  BY SharesNat
<1>3. SumOf(Shares(t), S) = Shares(t)[r] + SumOf(Shares(t), S \ {r})
  BY <1>1, SumTakes
<1> QED
  BY <1>2, <1>3 DEF DiskOf

LEMMA DiskEmpty ==
    ASSUME NEW t
    PROVE  DiskOf(t, {}) = 0
BY SumEmpty DEF DiskOf

LEMMA DiskSame ==
    ASSUME NEW t \in Tabled, NEW u \in Tabled, NEW S \in SUBSET Kept(t), S \subseteq Kept(u),
           \A r \in S : t.meta[r].fig = u.meta[r].fig
    PROVE  DiskOf(t, S) = DiskOf(u, S)
<1>1. IsFiniteSet(S)
  BY KeptFinite
<1>2. \A r \in S : Shares(t)[r] = Shares(u)[r]
  BY SharesNat
<1> QED
  BY <1>1, <1>2, SumSame DEF DiskOf

LEMMA CountNat ==
    ASSUME NEW t, NEW S \in SUBSET Kept(t)
    PROVE  Cardinality(S) \in Nat
BY KeptFinite, FS_CardinalityType

-----------------------------------------------------------------------------
(* _fig_forget                                                             *)

LEMMA ForgetTable ==
    ASSUME NEW t \in Tabled, NEW rs \in SUBSET Refs
    PROVE  LET u == Forget(t, rs)
           IN  /\ u \in Tabled
               /\ u.meta = [r \in Refs |-> IF r \in rs THEN NONE ELSE t.meta[r]]
               /\ u.key = [f \in Figures |-> IF t.key[f] \in rs THEN NONE ELSE t.key[f]]
               /\ \A o \in Owners : /\ u.usage[o] = Minus(t.usage[o], DiskOf(t, rs \cap KeptOf(t, o)))
                                    /\ u.count[o] = Minus(t.count[o], Cardinality(rs \cap KeptOf(t, o)))
               /\ u.total = Minus(t.total, DiskOf(t, rs \cap Kept(t)))
               /\ u.on = t.on /\ u.added = t.added
               /\ u.dropped = IF t.on THEN t.dropped \cup (rs \cap Kept(t)) ELSE t.dropped
<1> DEFINE m == [r \in Refs |-> IF r \in rs THEN NONE ELSE t.meta[r]]
           k == [f \in Figures |-> IF t.key[f] \in rs THEN NONE ELSE t.key[f]]
           us == [o \in Owners |-> Minus(t.usage[o], DiskOf(t, rs \cap KeptOf(t, o)))]
           c == [o \in Owners |-> Minus(t.count[o], Cardinality(rs \cap KeptOf(t, o)))]
           n == Minus(t.total, DiskOf(t, rs \cap Kept(t)))
           d == IF t.on THEN t.dropped \cup (rs \cap Kept(t)) ELSE t.dropped
           u == Forget(t, rs)
<1>1. /\ t.meta \in [Refs -> Meta \cup {NONE}] /\ t.key \in [Figures -> Refs \cup {NONE}]
      /\ t.usage \in [Owners -> Nat] /\ t.count \in [Owners -> Nat] /\ t.total \in Nat
      /\ t.on \in BOOLEAN /\ t.added \in SUBSET Refs /\ t.dropped \in SUBSET Refs
  BY DEF Tabled
<1>2. us \in [Owners -> Nat] /\ c \in [Owners -> Nat]
  <2> SUFFICES ASSUME NEW o \in Owners
               PROVE  /\ Minus(t.usage[o], DiskOf(t, rs \cap KeptOf(t, o))) \in Nat
                      /\ Minus(t.count[o], Cardinality(rs \cap KeptOf(t, o))) \in Nat
    OBVIOUS
  <2>1. DiskOf(t, rs \cap KeptOf(t, o)) \in Nat /\ Cardinality(rs \cap KeptOf(t, o)) \in Nat
    BY KeptOfKept, DiskNat, CountNat
  <2> QED
    BY <1>1, <2>1 DEF Minus
<1>3. n \in Nat
  <2>1. DiskOf(t, rs \cap Kept(t)) \in Nat
    BY DiskNat
  <2> QED
    BY <1>1, <2>1 DEF Minus
<1>4. m \in [Refs -> Meta \cup {NONE}] /\ k \in [Figures -> Refs \cup {NONE}] /\ d \in SUBSET Refs
  BY <1>1
<1>5. u = [t EXCEPT !.meta = m, !.key = k, !.usage = us, !.count = c, !.total = n, !.dropped = d]
  BY Zenon DEF Forget
<1>6. \A o \in Owners : /\ us[o] = Minus(t.usage[o], DiskOf(t, rs \cap KeptOf(t, o)))
                        /\ c[o] = Minus(t.count[o], Cardinality(rs \cap KeptOf(t, o)))
  OBVIOUS
<1>7. /\ u \in Tabled
      /\ u.meta = m /\ u.key = k /\ u.usage = us /\ u.count = c /\ u.total = n
      /\ u.on = t.on /\ u.added = t.added /\ u.dropped = d
  <2> HIDE DEF m, k, us, c, n, d, u
  <2> QED
    BY <1>2, <1>3, <1>4, <1>5 DEF Tabled
<1> HIDE DEF us, c, u
<1> QED
  BY <1>6, <1>7 DEF u

LEMMA ForgetKept ==
    ASSUME NEW t \in Tabled, NEW rs \in SUBSET Refs
    PROVE  LET u == Forget(t, rs)
           IN  /\ Kept(u) = Kept(t) \ rs
               /\ \A o : KeptOf(u, o) = KeptOf(t, o) \ rs
               /\ \A r \in Refs \ rs : u.meta[r] = t.meta[r]
               /\ \A r \in rs : u.meta[r] = NONE
               /\ \A S \in SUBSET Kept(u) : DiskOf(u, S) = DiskOf(t, S)
<1> DEFINE u == Forget(t, rs)
<1>1. u \in Tabled /\ u.meta = [r \in Refs |-> IF r \in rs THEN NONE ELSE t.meta[r]]
  BY ForgetTable
<1> HIDE DEF u
<1>2. Kept(u) = Kept(t) \ rs
  BY <1>1 DEF Kept
<1>3. \A o : KeptOf(u, o) = KeptOf(t, o) \ rs
  BY <1>1, <1>2 DEF KeptOf, Kept
<1>4. ASSUME NEW S \in SUBSET Kept(u)
      PROVE  DiskOf(u, S) = DiskOf(t, S)
  <2>1. S \subseteq Kept(t) /\ \A r \in S : u.meta[r].fig = t.meta[r].fig
    BY <1>1, <1>2 DEF Kept
  <2> QED
    BY <1>1, <2>1, DiskSame
<1> QED
  BY <1>1, <1>2, <1>3, <1>4 DEF u

LEMMA ForgetAgrees ==
    ASSUME NEW t \in Tabled, SumsAgree(t), NEW rs \in SUBSET Refs
    PROVE  SumsAgree(Forget(t, rs))
<1> DEFINE u == Forget(t, rs)
<1>1. /\ u \in Tabled /\ u.meta = [r \in Refs |-> IF r \in rs THEN NONE ELSE t.meta[r]]
      /\ u.key = [f \in Figures |-> IF t.key[f] \in rs THEN NONE ELSE t.key[f]]
      /\ \A o \in Owners : /\ u.usage[o] = Minus(t.usage[o], DiskOf(t, rs \cap KeptOf(t, o)))
                           /\ u.count[o] = Minus(t.count[o], Cardinality(rs \cap KeptOf(t, o)))
      /\ u.total = Minus(t.total, DiskOf(t, rs \cap Kept(t)))
  BY ForgetTable
<1>2. /\ Kept(u) = Kept(t) \ rs /\ \A o : KeptOf(u, o) = KeptOf(t, o) \ rs
      /\ \A S \in SUBSET Kept(u) : DiskOf(u, S) = DiskOf(t, S)
  BY ForgetKept
<1> HIDE DEF u
<1>3. ASSUME NEW S \in SUBSET Kept(t), S \ rs \subseteq Kept(u)
      PROVE  /\ DiskOf(u, S \ rs) = Minus(DiskOf(t, S), DiskOf(t, rs \cap S))
             /\ Cardinality(S \ rs) = Minus(Cardinality(S), Cardinality(rs \cap S))
  <2>1. S \ rs = S \ (rs \cap S) /\ rs \cap S = S \cap rs
    OBVIOUS
  <2>2. DiskOf(t, S) = DiskOf(t, rs \cap S) + DiskOf(t, S \ (rs \cap S))
    BY DiskSplits
  <2>3. DiskOf(t, rs \cap S) \in Nat /\ DiskOf(t, S \ rs) \in Nat
    BY DiskNat
  <2>4. DiskOf(u, S \ rs) = DiskOf(t, S \ rs)
    BY <1>2, <1>3
  <2>5. IsFiniteSet(S)
    BY KeptFinite
  <2>6. Cardinality(S \ rs) = Cardinality(S) - Cardinality(S \cap rs)
    BY <2>5, FS_Difference
  <2>7. Cardinality(S) \in Nat /\ Cardinality(S \cap rs) \in Nat /\ Cardinality(S \ rs) \in Nat
    BY CountNat
  <2>8. DiskOf(u, S \ rs) = Minus(DiskOf(t, S), DiskOf(t, rs \cap S))
    BY <2>1, <2>2, <2>3, <2>4 DEF Minus
  <2>9. Cardinality(S \ rs) = Minus(Cardinality(S), Cardinality(rs \cap S))
    <3>1. Cardinality(S \ rs) = Cardinality(S) - Cardinality(rs \cap S)
      BY <2>1, <2>6, Zenon
    <3>2. Cardinality(rs \cap S) \in Nat
      BY <2>1, <2>7, Zenon
    <3> QED
      BY <2>7, <3>1, <3>2 DEF Minus
  <2> QED
    BY <2>8, <2>9
<1>4. ASSUME NEW o \in Owners
      PROVE  u.usage[o] = DiskOf(u, KeptOf(u, o)) /\ u.count[o] = Cardinality(KeptOf(u, o))
  <2>1. KeptOf(t, o) \in SUBSET Kept(t) /\ KeptOf(t, o) \ rs = KeptOf(u, o)
        /\ KeptOf(t, o) \ rs \subseteq Kept(u)
    BY <1>2, KeptOfKept
  <2>2. t.usage[o] = DiskOf(t, KeptOf(t, o)) /\ t.count[o] = Cardinality(KeptOf(t, o))
    BY DEF SumsAgree
  <2>3. /\ DiskOf(u, KeptOf(u, o)) = Minus(t.usage[o], DiskOf(t, rs \cap KeptOf(t, o)))
        /\ Cardinality(KeptOf(u, o)) = Minus(t.count[o], Cardinality(rs \cap KeptOf(t, o)))
    BY <1>3, <2>1, <2>2
  <2> QED
    BY <1>1, <2>3
<1>5. u.total = DiskOf(u, Kept(u))
  <2>1. t.total = DiskOf(t, Kept(t))
    BY DEF SumsAgree
  <2> QED
    BY <1>1, <1>2, <1>3, <2>1
<1>6. ASSUME NEW f \in Figures, u.key[f] # NONE
      PROVE  u.meta[u.key[f]] # NONE /\ u.meta[u.key[f]].fig = f
  <2>1. t.key[f] \notin rs /\ u.key[f] = t.key[f]
    BY <1>1, <1>6
  <2>2. t.key[f] \in Refs /\ t.meta[t.key[f]] # NONE /\ t.meta[t.key[f]].fig = f
    BY <1>6, <2>1 DEF SumsAgree, Tabled
  <2> QED
    BY <1>1, <2>1, <2>2
<1> QED
  BY <1>4, <1>5, <1>6 DEF SumsAgree, u

-----------------------------------------------------------------------------
(* _fig_add                                                                *)

LEMMA AddTable ==
    ASSUME NEW t \in Tabled, NEW r \in Refs, NEW x \in Meta
    PROVE  LET u == Add(t, r, x)
           IN  /\ u \in Tabled
               /\ \A q \in Refs : /\ q = r => u.meta[q] = x
                                  /\ q # r => u.meta[q] = t.meta[q]
               /\ \A f \in Figures : /\ f = x.fig => u.key[f] = r
                                     /\ f # x.fig => u.key[f] = t.key[f]
               /\ \A o \in Owners :
                     /\ o = Owner(x.fig) => u.usage[o] = t.usage[o] + Disk(x.fig) /\ u.count[o] = t.count[o] + 1
                     /\ o # Owner(x.fig) => u.usage[o] = t.usage[o] /\ u.count[o] = t.count[o]
               /\ u.total = t.total + Disk(x.fig)
               /\ u.dropped = t.dropped
<1>0. SUFFICES ASSUME NEW o, o = Owner(x.fig), NEW u, u = Add(t, r, x)
      PROVE    /\ u \in Tabled
               /\ \A q \in Refs : u.meta[q] = IF q = r THEN x ELSE t.meta[q]
               /\ \A f \in Figures : u.key[f] = IF f = x.fig THEN r ELSE t.key[f]
               /\ \A p \in Owners :
                     /\ p = o => u.usage[p] = t.usage[p] + Disk(x.fig) /\ u.count[p] = t.count[p] + 1
                     /\ p # o => u.usage[p] = t.usage[p] /\ u.count[p] = t.count[p]
               /\ u.total = t.total + Disk(x.fig)
               /\ u.dropped = t.dropped
  OBVIOUS
<1> DEFINE m == [t.meta EXCEPT ![r] = x]
           k == [t.key EXCEPT ![x.fig] = r]
           us == [t.usage EXCEPT ![o] = t.usage[o] + Disk(x.fig)]
           c == [t.count EXCEPT ![o] = t.count[o] + 1]
           n == t.total + Disk(x.fig)
           a == IF t.on THEN t.added \cup {r} ELSE t.added
<1>1. /\ t.meta \in [Refs -> Meta \cup {NONE}] /\ t.key \in [Figures -> Refs \cup {NONE}]
      /\ t.usage \in [Owners -> Nat] /\ t.count \in [Owners -> Nat] /\ t.total \in Nat
      /\ t.on \in BOOLEAN /\ t.added \in SUBSET Refs
  BY DEF Tabled
<1>2. x.fig \in Figures /\ o \in Owners /\ Disk(x.fig) \in Nat
  <2>1. x.fig \in Figures
    BY DEF Meta
  <2> QED
    BY <1>0, <2>1, FigAssumption DEF Figures, Owner, Disk
<1>3. us \in [Owners -> Nat] /\ c \in [Owners -> Nat] /\ n \in Nat
  BY <1>1, <1>2
<1>4. m \in [Refs -> Meta \cup {NONE}] /\ k \in [Figures -> Refs \cup {NONE}] /\ a \in SUBSET Refs
  BY <1>1, <1>2
<1>5. u = [t EXCEPT !.meta = m, !.key = k, !.usage = us, !.count = c, !.total = n, !.added = a]
  <2>1. /\ [t EXCEPT !.meta[r] = x].meta = m
        /\ u = [t EXCEPT !.meta[r] = x, !.key[x.fig] = r, !.usage[o] = @ + Disk(x.fig),
                         !.count[o] = @ + 1, !.total = @ + Disk(x.fig),
                         !.added = IF t.on THEN @ \cup {r} ELSE @]
    BY <1>0 DEF Add, Tabled
  <2> QED
    BY <2>1 DEF Tabled
<1>6. /\ u \in Tabled
      /\ u.meta = m /\ u.key = k /\ u.usage = us /\ u.count = c /\ u.total = n
      /\ u.on = t.on /\ u.dropped = t.dropped /\ u.added = a
  <2> HIDE DEF m, k, us, c, n, a
  <2> QED
    BY <1>3, <1>4, <1>5 DEF Tabled
<1> HIDE DEF n, a
<1> QED
  BY <1>1, <1>2, <1>6 DEF n, a

(* What a sweep under way is told.                                         *)
LEMMA AddNoted ==
    ASSUME NEW t \in Tabled, NEW r \in Refs, NEW x \in Meta
    PROVE  /\ Add(t, r, x).on = t.on
           /\ Add(t, r, x).added = IF t.on THEN t.added \cup {r} ELSE t.added
BY DEF Add, Tabled

LEMMA AddAgrees ==
    ASSUME NEW t \in Tabled, SumsAgree(t), NEW r \in Refs \ Kept(t), NEW x \in Meta
    PROVE  /\ SumsAgree(Add(t, r, x))
           /\ Kept(Add(t, r, x)) = Kept(t) \cup {r}
<1> DEFINE u == Add(t, r, x)
           own == Owner(x.fig)
<1>0. r \in Refs
  OBVIOUS
<1>1. /\ u \in Tabled
      /\ \A q \in Refs : /\ q = r => u.meta[q] = x
                         /\ q # r => u.meta[q] = t.meta[q]
      /\ \A f \in Figures : /\ f = x.fig => u.key[f] = r
                            /\ f # x.fig => u.key[f] = t.key[f]
      /\ \A o \in Owners :
            /\ o = Owner(x.fig) => u.usage[o] = t.usage[o] + Disk(x.fig) /\ u.count[o] = t.count[o] + 1
            /\ o # Owner(x.fig) => u.usage[o] = t.usage[o] /\ u.count[o] = t.count[o]
      /\ u.total = t.total + Disk(x.fig)
  BY <1>0, AddTable
<1> HIDE DEF u
<1>2. t.meta \in [Refs -> Meta \cup {NONE}] /\ t.key \in [Figures -> Refs \cup {NONE}]
      /\ t.usage \in [Owners -> Nat] /\ t.count \in [Owners -> Nat]
  BY DEF Tabled
<1>3. x.fig \in Figures /\ own \in Owners /\ Disk(x.fig) \in Nat /\ x # NONE
  <2>1. x.fig \in Figures /\ x # NONE
    BY FigAssumption DEF Meta
  <2> QED
    BY <2>1, FigAssumption DEF Figures, Owner, Disk
<1>4. Kept(u) = Kept(t) \cup {r} /\ u.meta[r] = x /\ \A q \in Kept(t) : u.meta[q] = t.meta[q]
  BY <1>1, <1>2, <1>3 DEF Kept
<1>5. \A o : KeptOf(u, o) = IF o = own THEN KeptOf(t, o) \cup {r} ELSE KeptOf(t, o)
  BY <1>4 DEF KeptOf
<1>6. ASSUME NEW S \in SUBSET Kept(t)
      PROVE  DiskOf(u, S) = DiskOf(t, S)
  <2>1. S \subseteq Kept(u) /\ \A q \in S : t.meta[q].fig = u.meta[q].fig
    BY <1>4
  <2>2. DiskOf(t, S) = DiskOf(u, S)
    BY <1>1, <2>1, DiskSame
  <2> QED
    BY <2>2
<1>7. ASSUME NEW S \in SUBSET Kept(t)
      PROVE  /\ DiskOf(u, S \cup {r}) = DiskOf(t, S) + Disk(x.fig)
             /\ Cardinality(S \cup {r}) = Cardinality(S) + 1
  <2>1. (S \cup {r}) \ {r} = S /\ r \in S \cup {r} /\ S \cup {r} \in SUBSET Kept(u) /\ r \notin S
    BY <1>4
  <2>2. DiskOf(u, S \cup {r}) = Disk(u.meta[r].fig) + DiskOf(u, (S \cup {r}) \ {r})
    <3> DEFINE T == S \cup {r}
    <3>1. T \in SUBSET Kept(u) /\ r \in T
      BY <2>1
    <3>0. u \in Tabled
      BY <1>1
    <3> HIDE DEF T
    <3>2. DiskOf(u, T) = Disk(u.meta[r].fig) + DiskOf(u, T \ {r})
      BY <3>0, <3>1, DiskTakes, Zenon
    <3> QED
      BY <3>2 DEF T
  <2>3. DiskOf(u, S \cup {r}) = Disk(x.fig) + DiskOf(t, S)
    BY <1>4, <1>6, <2>1, <2>2
  <2>4. DiskOf(t, S) \in Nat
    BY DiskNat
  <2>5. IsFiniteSet(S)
    BY KeptFinite
  <2>6. Cardinality(S \cup {r}) = Cardinality(S) + 1
    BY <2>1, <2>5, FS_AddElement
  <2> QED
    BY <1>3, <2>3, <2>4, <2>6
<1>8. ASSUME NEW o \in Owners
      PROVE  u.usage[o] = DiskOf(u, KeptOf(u, o)) /\ u.count[o] = Cardinality(KeptOf(u, o))
  <2>1. KeptOf(t, o) \in SUBSET Kept(t)
    BY KeptOfKept
  <2>2. t.usage[o] = DiskOf(t, KeptOf(t, o)) /\ t.count[o] = Cardinality(KeptOf(t, o))
    BY DEF SumsAgree
  <2>3. CASE o = own
    <3>1. u.usage[o] = t.usage[o] + Disk(x.fig) /\ u.count[o] = t.count[o] + 1
      BY <1>1, <1>2, <2>3
    <3>2. KeptOf(u, o) = KeptOf(t, o) \cup {r}
      BY <1>5, <2>3
    <3>3. /\ DiskOf(u, KeptOf(t, o) \cup {r}) = DiskOf(t, KeptOf(t, o)) + Disk(x.fig)
          /\ Cardinality(KeptOf(t, o) \cup {r}) = Cardinality(KeptOf(t, o)) + 1
      BY <1>7, <2>1
    <3> QED
      BY <2>2, <3>1, <3>2, <3>3
  <2>4. CASE o # own
    <3>1. u.usage[o] = t.usage[o] /\ u.count[o] = t.count[o]
      BY <1>1, <1>2, <2>4
    <3>2. KeptOf(u, o) = KeptOf(t, o)
      BY <1>5, <2>4
    <3> QED
      BY <1>6, <2>1, <2>2, <3>1, <3>2
  <2> QED
    BY <2>3, <2>4
<1>9. u.total = DiskOf(u, Kept(u))
  <2>1. t.total = DiskOf(t, Kept(t))
    BY DEF SumsAgree
  <2>2. DiskOf(u, Kept(t) \cup {r}) = DiskOf(t, Kept(t)) + Disk(x.fig)
    BY <1>7
  <2> QED
    BY <1>1, <1>4, <2>1, <2>2
<1>10. ASSUME NEW f \in Figures, u.key[f] # NONE
       PROVE  u.meta[u.key[f]] # NONE /\ u.meta[u.key[f]].fig = f
  <2>1. CASE f = x.fig
    BY <1>1, <1>2, <1>3, <1>4, <2>1
  <2>2. CASE f # x.fig
    <3>1. u.key[f] = t.key[f]
      BY <1>1, <1>2, <2>2
    <3>2. t.key[f] \in Refs /\ t.meta[t.key[f]] # NONE /\ t.meta[t.key[f]].fig = f
      BY <1>2, <1>10, <3>1 DEF SumsAgree
    <3>3. t.key[f] \in Kept(t)
      BY <3>2 DEF Kept
    <3> QED
      BY <1>4, <3>1, <3>2, <3>3
  <2> QED
    BY <2>1, <2>2
<1> QED
  BY <1>4, <1>8, <1>9, <1>10 DEF SumsAgree, u

-----------------------------------------------------------------------------
(* _fig_enforce                                                            *)

(* The order of eviction, and what can be evicted first in it.             *)
Before(t, q, r) ==
    \/ t.meta[q].created < t.meta[r].created
    \/ t.meta[q].created = t.meta[r].created /\ q <= r
UpTo(t, rs, r) == {q \in rs : Before(t, q, r)}
Prefixes(t, rs) == {{}} \cup {UpTo(t, rs, r) : r \in rs}

LEMMA PrefixChain ==
    ASSUME NEW t \in Tabled, NEW rs \in SUBSET Kept(t)
    PROVE  \A p \in Prefixes(t, rs) :
              /\ p \subseteq rs
              /\ \A q \in Prefixes(t, rs) : p \subseteq q \/ q \subseteq p
<1>1. \A r \in rs : r \in Nat /\ t.meta[r].created \in Nat
  BY KeptMeta, FigAssumption
<1>2. ASSUME NEW r \in rs, NEW s \in rs
      PROVE  UpTo(t, rs, r) \subseteq UpTo(t, rs, s) \/ UpTo(t, rs, s) \subseteq UpTo(t, rs, r)
  <2>1. CASE Before(t, r, s)
    BY <1>1, <2>1 DEF UpTo, Before
  <2>2. CASE Before(t, s, r)
    BY <1>1, <2>2 DEF UpTo, Before
  <2>3. Before(t, r, s) \/ Before(t, s, r)
    BY <1>1 DEF Before
  <2> QED
    BY <2>1, <2>2, <2>3
<1>3. \A r \in rs : UpTo(t, rs, r) \subseteq rs
  BY DEF UpTo
<1> QED
  BY <1>2, <1>3 DEF Prefixes

LEMMA WholePrefix ==
    ASSUME NEW t \in Tabled, NEW rs \in SUBSET Kept(t)
    PROVE  rs \in Prefixes(t, rs)
<1> DEFINE Rest == {rs \ p : p \in Prefixes(t, rs)}
<1>1. IsFiniteSet(rs)
  BY KeptFinite
<1>2. PICK p \in Prefixes(t, rs) : \A q \in Prefixes(t, rs) : rs \ q \subseteq rs \ p => rs \ q = rs \ p
  <2>1. Rest \in SUBSET SUBSET rs /\ Rest # {}
    BY DEF Prefixes
  <2>2. PICK T \in Rest : \A U \in Rest : U \subseteq T => U = T
    <3> HIDE DEF Rest
    <3> QED
      BY <1>1, <2>1, Smallest
  <2>3. PICK p \in Prefixes(t, rs) : T = rs \ p
    OBVIOUS
  <2>4. \A q \in Prefixes(t, rs) : rs \ q \in Rest
    OBVIOUS
  <2> HIDE DEF Rest
  <2>5. \A q \in Prefixes(t, rs) : rs \ q \subseteq T => rs \ q = T
    BY <2>2, <2>4, Zenon
  <2> QED
    BY <2>3, <2>5, Zenon
<1>3. CASE rs \subseteq p
  BY <1>3, PrefixChain
<1>4. ASSUME NEW r \in rs, r \notin p
      PROVE  FALSE
  <2>1. UpTo(t, rs, r) \in Prefixes(t, rs)
    BY DEF Prefixes
  <2>2. r \in UpTo(t, rs, r)
    <3>1. r \in Nat /\ t.meta[r].created \in Nat
      BY KeptMeta, FigAssumption
    <3> QED
      BY <3>1 DEF UpTo, Before
  <2>3. p \subseteq UpTo(t, rs, r)
    BY <1>4, <2>1, <2>2, PrefixChain
  <2> QED
    BY <1>2, <1>4, <2>1, <2>2, <2>3
<1> QED
  BY <1>3, <1>4

(* There is a smallest prefix to evict.                                    *)
LEMMA LeastPrefix ==
    ASSUME NEW t \in Tabled, NEW rs \in SUBSET Kept(t), NEW Good \in SUBSET Prefixes(t, rs)
    PROVE  \E p \in Prefixes(t, rs) : /\ p \in Good \/ p = rs
                                      /\ \A q \in Good : p \subseteq q
<1>1. CASE Good = {}
  BY <1>1, WholePrefix
<1>2. CASE Good # {}
  <2>1. IsFiniteSet(rs) /\ Good \in SUBSET SUBSET rs
    BY KeptFinite, PrefixChain
  <2>2. PICK p \in Good : \A q \in Good : q \subseteq p => q = p
    BY <1>2, <2>1, Smallest
  <2>3. \A q \in Good : p \subseteq q
    BY <2>2, PrefixChain
  <2> QED
    BY <2>2, <2>3
<1> QED
  BY <1>1, <1>2

(* What goes of rs for the owner o to be within the limits of an owner.    *)
OldestOf(t, rs, o) == Oldest(t, rs, LAMBDA u : ~Over(u, o))

LEMMA OldestOfOwner ==
    ASSUME NEW t \in Tabled, NEW rs \in SUBSET Kept(t), NEW o
    PROVE  LET p == OldestOf(t, rs, o)
           IN  p \subseteq rs /\ (~Over(Forget(t, p), o) \/ p = rs)
<1> DEFINE Good == {p \in Prefixes(t, rs) : ~Over(Forget(t, p), o)}
           p == CHOOSE p \in Prefixes(t, rs) :
                   /\ ~Over(Forget(t, p), o) \/ p = rs
                   /\ \A q \in Prefixes(t, rs) : ~Over(Forget(t, q), o) => p \subseteq q
<1>1. \E q \in Prefixes(t, rs) : /\ q \in Good \/ q = rs
                                 /\ \A g \in Good : q \subseteq g
  <2>1. Good \in SUBSET Prefixes(t, rs)
    OBVIOUS
  <2> HIDE DEF Good
  <2> QED
    BY <2>1, LeastPrefix
<1>2. p \in Prefixes(t, rs) /\ (~Over(Forget(t, p), o) \/ p = rs)
  BY <1>1
<1>3. OldestOf(t, rs, o) = p
  BY Zenon DEF OldestOf, Oldest, Prefixes, UpTo, Before
<1>4. p \subseteq rs
  BY <1>2, PrefixChain
<1> QED
  BY <1>2, <1>3, <1>4

LEMMA OldestOfAll ==
    ASSUME NEW t \in Tabled, NEW rs \in SUBSET Kept(t)
    PROVE  LET p == Oldest(t, rs, LAMBDA u : u.total <= TotalCap)
           IN  p \subseteq rs /\ (Forget(t, p).total <= TotalCap \/ p = rs)
<1> DEFINE Good == {p \in Prefixes(t, rs) : Forget(t, p).total <= TotalCap}
           p == CHOOSE p \in Prefixes(t, rs) :
                   /\ Forget(t, p).total <= TotalCap \/ p = rs
                   /\ \A q \in Prefixes(t, rs) : Forget(t, q).total <= TotalCap => p \subseteq q
<1>1. \E q \in Prefixes(t, rs) : /\ q \in Good \/ q = rs
                                 /\ \A g \in Good : q \subseteq g
  <2>1. Good \in SUBSET Prefixes(t, rs)
    OBVIOUS
  <2> HIDE DEF Good
  <2> QED
    BY <2>1, LeastPrefix
<1>2. p \in Prefixes(t, rs) /\ (Forget(t, p).total <= TotalCap \/ p = rs)
  BY <1>1
<1>3. Oldest(t, rs, LAMBDA u : u.total <= TotalCap) = p
  BY Zenon DEF Oldest, Prefixes, UpTo, Before
<1>4. p \subseteq rs
  BY <1>2, PrefixChain
<1> QED
  BY <1>2, <1>3, <1>4

(* What _fig_enforce evicts, first of each owner and then of all.          *)
OwnersOldest(t, keep, o) == OldestOf(t, KeptOf(t, o) \ keep, o)
OwnersGone(t, keep) == UNION {OwnersOldest(t, keep, o) : o \in Owners}
OthersGone(t, keep) == Oldest(t, Kept(t) \ keep, LAMBDA u : u.total <= TotalCap)

LEMMA EvictedParts ==
    ASSUME NEW t, NEW keep
    PROVE  Evicted(t, keep) =
              OwnersGone(t, keep) \cup OthersGone(Forget(t, OwnersGone(t, keep)), keep)
BY Zenon DEF Evicted, OwnersGone, OwnersOldest, OldestOf, OthersGone

LEMMA OwnersEvicted ==
    ASSUME NEW t \in Tabled, NEW keep \in SUBSET Refs
    PROVE  /\ OwnersGone(t, keep) \subseteq Kept(t) \ keep
           /\ \A o \in Owners : LET p == OwnersOldest(t, keep, o)
                                IN  /\ p \subseteq OwnersGone(t, keep) \cap KeptOf(t, o)
                                    /\ ~Over(Forget(t, p), o) \/ p = KeptOf(t, o) \ keep
<1>1. ASSUME NEW o \in Owners
      PROVE  /\ OwnersOldest(t, keep, o) \subseteq KeptOf(t, o) \ keep
             /\ \/ ~Over(Forget(t, OwnersOldest(t, keep, o)), o)
                \/ OwnersOldest(t, keep, o) = KeptOf(t, o) \ keep
  <2>1. KeptOf(t, o) \ keep \in SUBSET Kept(t)
    BY KeptOfKept
  <2> QED
    BY <2>1, OldestOfOwner DEF OwnersOldest
<1>2. \A o \in Owners : OwnersOldest(t, keep, o) \subseteq OwnersGone(t, keep)
  BY DEF OwnersGone
<1>3. OwnersGone(t, keep) \subseteq Kept(t) \ keep
  BY <1>1 DEF OwnersGone, KeptOf
<1> QED
  BY <1>1, <1>2, <1>3

LEMMA EvictedKept ==
    ASSUME NEW t \in Tabled, NEW keep \in SUBSET Refs
    PROVE  Evicted(t, keep) \subseteq Kept(t) \ keep
<1> DEFINE gone == OwnersGone(t, keep)
           left == Forget(t, gone)
<1>1. gone \subseteq Kept(t) \ keep /\ gone \in SUBSET Refs
  BY OwnersEvicted DEF Kept
<1>2. left \in Tabled /\ Kept(left) = Kept(t) \ gone
  <2> HIDE DEF gone
  <2> QED
    BY <1>1, ForgetTable, ForgetKept
<1>3. OthersGone(left, keep) \subseteq Kept(left) \ keep
  <2> HIDE DEF left
  <2>1. Kept(left) \ keep \in SUBSET Kept(left)
    OBVIOUS
  <2> QED
    BY <1>2, <2>1, OldestOfAll, Zenon DEF OthersGone
<1>4. Evicted(t, keep) = gone \cup OthersGone(left, keep)
  BY EvictedParts
<1> HIDE DEF gone, left
<1> QED
  BY <1>1, <1>2, <1>3, <1>4

(* What is kept of what is kept is no more.                                *)
LEMMA SmallerFits ==
    ASSUME NEW t \in Tabled, NEW S \in SUBSET Kept(t), NEW T \in SUBSET S
    PROVE  /\ DiskOf(t, T) \in Nat /\ DiskOf(t, S) \in Nat /\ DiskOf(t, T) <= DiskOf(t, S)
           /\ Cardinality(T) \in Nat /\ Cardinality(S) \in Nat /\ Cardinality(T) <= Cardinality(S)
<1>1. T \in SUBSET Kept(t) /\ IsFiniteSet(S)
  BY KeptFinite
<1>2. Cardinality(T) <= Cardinality(S)
  BY <1>1, FS_Subset
<1> QED
  BY <1>1, <1>2, DiskNat, CountNat, DiskGrows

(* Whatever is kept from being evicted fits, and then all that is left.    *)
LEMMA EvictedFits ==
    ASSUME NEW t \in Tabled, SumsAgree(t), NEW keep \in SUBSET Refs,
           \A o \in Owners : /\ DiskOf(t, KeptOf(t, o) \cap keep) <= OwnerQuota
                             /\ Cardinality(KeptOf(t, o) \cap keep) <= OwnerMax,
           DiskOf(t, Kept(t) \cap keep) <= TotalCap
    PROVE  WithinLimits(Forget(t, Evicted(t, keep)))
<1> DEFINE gone == OwnersGone(t, keep)
           left == Forget(t, gone)
           others == OthersGone(left, keep)
           all == Evicted(t, keep)
           u == Forget(t, all)
<1>1. /\ gone \in SUBSET Refs /\ gone \subseteq Kept(t) \ keep
      /\ all \in SUBSET Refs /\ all = gone \cup others /\ all \subseteq Kept(t) \ keep
  <2>1. all \subseteq Kept(t) \ keep
    BY EvictedKept
  <2>2. gone \subseteq Kept(t) \ keep
    BY OwnersEvicted
  <2>3. all = gone \cup others
    BY EvictedParts
  <2> HIDE DEF all, gone, others
  <2> QED
    BY <2>1, <2>2, <2>3 DEF Kept
<1>2. /\ u \in Tabled /\ Kept(u) = Kept(t) \ all /\ \A o : KeptOf(u, o) = KeptOf(t, o) \ all
      /\ \A S \in SUBSET Kept(u) : DiskOf(u, S) = DiskOf(t, S)
  <2> HIDE DEF all
  <2> QED
    BY <1>1, ForgetTable, ForgetKept
<1>3. ASSUME NEW o \in Owners
      PROVE  DiskOf(u, KeptOf(u, o)) <= OwnerQuota /\ Cardinality(KeptOf(u, o)) <= OwnerMax
  <2> DEFINE p == OwnersOldest(t, keep, o)
             v == Forget(t, p)
  <2>1. /\ p \subseteq gone \cap KeptOf(t, o)
        /\ ~Over(v, o) \/ p = KeptOf(t, o) \ keep
    BY OwnersEvicted
  <2>2. /\ KeptOf(u, o) \in SUBSET Kept(t) /\ KeptOf(u, o) \subseteq KeptOf(t, o) \ p
        /\ KeptOf(t, o) \in SUBSET Kept(t) /\ DiskOf(u, KeptOf(u, o)) = DiskOf(t, KeptOf(u, o))
    <3>1. KeptOf(u, o) \in SUBSET Kept(u) /\ KeptOf(t, o) \in SUBSET Kept(t)
      BY KeptOfKept
    <3> HIDE DEF u, all, gone, p
    <3> QED
      BY <1>1, <1>2, <2>1, <3>1
  <2> HIDE DEF u, all, gone, p
  <2>3. CASE ~Over(v, o)
    <3>1. p \in SUBSET Refs
      BY <1>1, <2>1
    <3>2. v \in Tabled /\ SumsAgree(v) /\ KeptOf(v, o) = KeptOf(t, o) \ p
          /\ \A S \in SUBSET Kept(v) : DiskOf(v, S) = DiskOf(t, S)
      BY <3>1, ForgetTable, ForgetKept, ForgetAgrees
    <3> HIDE DEF v
    <3>3. v.usage[o] = DiskOf(v, KeptOf(v, o)) /\ v.count[o] = Cardinality(KeptOf(v, o))
      BY <3>2 DEF SumsAgree
    <3>4. v.usage[o] \in Nat /\ v.count[o] \in Nat
      BY <3>2 DEF Tabled
    <3>5. KeptOf(v, o) \in SUBSET Kept(v)
      BY KeptOfKept
    <3>6. DiskOf(t, KeptOf(t, o) \ p) <= OwnerQuota /\ Cardinality(KeptOf(t, o) \ p) <= OwnerMax
      BY <2>3, <3>2, <3>3, <3>4, <3>5, FigAssumption DEF Over
    <3>7. KeptOf(t, o) \ p \in SUBSET Kept(t)
      BY <2>2
    <3>8. /\ DiskOf(t, KeptOf(u, o)) \in Nat /\ DiskOf(t, KeptOf(t, o) \ p) \in Nat
          /\ DiskOf(t, KeptOf(u, o)) <= DiskOf(t, KeptOf(t, o) \ p)
          /\ Cardinality(KeptOf(u, o)) \in Nat /\ Cardinality(KeptOf(t, o) \ p) \in Nat
          /\ Cardinality(KeptOf(u, o)) <= Cardinality(KeptOf(t, o) \ p)
      BY <2>2, <3>7, SmallerFits
    <3> QED
      BY <2>2, <3>6, <3>8, FigAssumption
  <2>4. CASE p = KeptOf(t, o) \ keep
    <3>1. KeptOf(u, o) \subseteq KeptOf(t, o) \cap keep /\ KeptOf(t, o) \cap keep \in SUBSET Kept(t)
      BY <2>2, <2>4
    <3>2. /\ DiskOf(t, KeptOf(u, o)) \in Nat /\ DiskOf(t, KeptOf(t, o) \cap keep) \in Nat
          /\ DiskOf(t, KeptOf(u, o)) <= DiskOf(t, KeptOf(t, o) \cap keep)
          /\ Cardinality(KeptOf(u, o)) \in Nat /\ Cardinality(KeptOf(t, o) \cap keep) \in Nat
          /\ Cardinality(KeptOf(u, o)) <= Cardinality(KeptOf(t, o) \cap keep)
      BY <3>1, SmallerFits
    <3> QED
      BY <2>2, <3>2, FigAssumption
  <2> QED
    BY <2>1, <2>3, <2>4
<1>4. DiskOf(u, Kept(u)) <= TotalCap
  <2>1. /\ left \in Tabled /\ Kept(left) = Kept(t) \ gone /\ SumsAgree(left)
        /\ \A S \in SUBSET Kept(left) : DiskOf(left, S) = DiskOf(t, S)
    <3> HIDE DEF gone
    <3> QED
      BY <1>1, ForgetTable, ForgetKept, ForgetAgrees
  <2> DEFINE v == Forget(left, others)
  <2>2. others \subseteq Kept(left) \ keep /\ (v.total <= TotalCap \/ others = Kept(left) \ keep)
    <3> HIDE DEF left
    <3>1. Kept(left) \ keep \in SUBSET Kept(left)
      OBVIOUS
    <3> QED
      BY <2>1, <3>1, OldestOfAll, Zenon DEF OthersGone
  <2>3. Kept(u) \in SUBSET Kept(t) /\ Kept(u) = Kept(left) \ others /\ DiskOf(u, Kept(u)) = DiskOf(t, Kept(u))
    <3> HIDE DEF u, all, gone, others, left
    <3> QED
      BY <1>1, <1>2, <2>1
  <2> HIDE DEF u, all, gone, others, left
  <2>4. CASE v.total <= TotalCap
    <3>1. others \in SUBSET Refs
      BY <2>2 DEF Kept
    <3>2. v \in Tabled /\ SumsAgree(v) /\ Kept(v) = Kept(left) \ others
          /\ \A S \in SUBSET Kept(v) : DiskOf(v, S) = DiskOf(left, S)
      BY <2>1, <3>1, ForgetTable, ForgetKept, ForgetAgrees
    <3> HIDE DEF v
    <3>3. v.total = DiskOf(v, Kept(v))
      BY <3>2 DEF SumsAgree
    <3>4. DiskOf(v, Kept(v)) = DiskOf(left, Kept(v))
      BY <3>2
    <3>5. Kept(v) = Kept(u) /\ Kept(v) \in SUBSET Kept(left)
      BY <2>3, <3>2
    <3>6. DiskOf(left, Kept(v)) = DiskOf(t, Kept(u))
      BY <2>1, <3>5
    <3> QED
      BY <2>3, <2>4, <3>3, <3>4, <3>6
  <2>5. CASE others = Kept(left) \ keep
    <3>1. Kept(u) \subseteq Kept(t) \cap keep /\ Kept(t) \cap keep \in SUBSET Kept(t)
      BY <2>1, <2>3, <2>5
    <3>2. /\ DiskOf(t, Kept(u)) \in Nat /\ DiskOf(t, Kept(t) \cap keep) \in Nat
          /\ DiskOf(t, Kept(u)) <= DiskOf(t, Kept(t) \cap keep)
      BY <3>1, SmallerFits
    <3> QED
      BY <2>3, <3>2, FigAssumption
  <2> QED
    BY <2>2, <2>4, <2>5
<1> HIDE DEF u
<1> QED
  BY <1>3, <1>4 DEF WithinLimits, u

-----------------------------------------------------------------------------
(* The table a sweep builds, and the empty one                             *)

LEMMA SweptTable ==
    ASSUME NEW rows \in [Refs -> Meta \cup {NONE}], NEW late \in SUBSET Refs,
           NEW t \in Tables(rows, late)
    PROVE  /\ t \in Tabled /\ t.meta = rows /\ t.on = FALSE /\ t.dropped = {} /\ t.added = {}
           /\ SumsAgree(t)
<1> DEFINE of(f) == {r \in Refs : rows[r] # NONE /\ rows[r].fig = f}
           bare == [NoTable EXCEPT !.meta = rows]
           us == [o \in Owners |-> DiskOf(bare, KeptOf(bare, o))]
           c == [o \in Owners |-> Cardinality(KeptOf(bare, o))]
           n == DiskOf(bare, Kept(bare))
<1>1. PICK k \in [Figures -> Refs \cup {NONE}] :
         /\ \A f \in Figures : k[f] \in of(f) \cup {NONE}
         /\ t = [bare EXCEPT !.key = k, !.usage = us, !.count = c, !.total = n]
  BY DEF Tables
<1>2. bare \in Tabled /\ bare.meta = rows /\ bare.on = FALSE /\ bare.dropped = {} /\ bare.added = {}
  BY DEF NoTable, Tabled
<1>3. us \in [Owners -> Nat] /\ c \in [Owners -> Nat] /\ n \in Nat
  <2> HIDE DEF bare
  <2> QED
    BY <1>2, KeptOfKept, DiskNat, CountNat
<1>4. \A o \in Owners : us[o] = DiskOf(bare, KeptOf(bare, o)) /\ c[o] = Cardinality(KeptOf(bare, o))
  OBVIOUS
<1>5. n = DiskOf(bare, Kept(bare))
  OBVIOUS
<1> HIDE DEF us, c, n, bare
<1>6. /\ t \in Tabled /\ t.meta = rows /\ t.on = FALSE /\ t.dropped = {} /\ t.added = {}
      /\ t.key = k /\ t.usage = us /\ t.count = c /\ t.total = n
  BY <1>1, <1>2, <1>3 DEF Tabled
<1>7. Kept(t) = Kept(bare) /\ \A o : KeptOf(t, o) = KeptOf(bare, o)
  BY <1>2, <1>6 DEF Kept, KeptOf
<1>8. \A S \in SUBSET Kept(t) : DiskOf(t, S) = DiskOf(bare, S)
  BY <1>2, <1>6, <1>7, DiskSame
<1>9. SumsAgree(t)
  <2>1. \A o \in Owners : t.usage[o] = DiskOf(t, KeptOf(t, o)) /\ t.count[o] = Cardinality(KeptOf(t, o))
    BY <1>4, <1>6, <1>7, <1>8, KeptOfKept
  <2>2. t.total = DiskOf(t, Kept(t))
    BY <1>5, <1>6, <1>7, <1>8
  <2>3. \A f \in Figures : t.key[f] # NONE => t.meta[t.key[f]] # NONE /\ t.meta[t.key[f]].fig = f
    BY <1>1, <1>6
  <2> QED
    BY <2>1, <2>2, <2>3 DEF SumsAgree
<1> QED
  BY <1>6, <1>9

LEMMA EmptyTable ==
    /\ NoTable \in Tabled /\ Kept(NoTable) = {} /\ NoTable.on = FALSE
    /\ \A r \in Refs : NoTable.meta[r] = NONE
    /\ SumsAgree(NoTable) /\ WithinLimits(NoTable)
<1>1. NoTable \in Tabled /\ NoTable.on = FALSE /\ NoTable.total = 0
      /\ \A r \in Refs : NoTable.meta[r] = NONE
  BY DEF NoTable, Tabled
<1>2. \A o \in Owners : NoTable.usage[o] = 0 /\ NoTable.count[o] = 0
  BY DEF NoTable
<1>3. \A f \in Figures : NoTable.key[f] = NONE
  BY DEF NoTable
<1>4. Kept(NoTable) = {} /\ \A o : KeptOf(NoTable, o) = {}
  BY <1>1 DEF Kept, KeptOf
<1>5. DiskOf(NoTable, {}) = 0 /\ Cardinality({}) = 0
  BY DiskEmpty, FS_EmptySet
<1>6. SumsAgree(NoTable)
  BY <1>1, <1>2, <1>3, <1>4, <1>5 DEF SumsAgree
<1>7. WithinLimits(NoTable)
  BY <1>4, <1>5, FigAssumption DEF WithinLimits
<1> QED
  BY <1>1, <1>4, <1>6, <1>7

(* The sums do not depend on what a sweep is told.                         *)
LEMMA SameSums ==
    ASSUME NEW t \in Tabled, NEW u \in Tabled, u.meta = t.meta, u.key = t.key,
           u.usage = t.usage, u.count = t.count, u.total = t.total,
           SumsAgree(t), WithinLimits(t)
    PROVE  SumsAgree(u) /\ WithinLimits(u) /\ Kept(u) = Kept(t)
<1>1. Kept(u) = Kept(t) /\ \A o : KeptOf(u, o) = KeptOf(t, o)
  BY DEF Kept, KeptOf
<1>2. \A S \in SUBSET Kept(t) : DiskOf(t, S) = DiskOf(u, S)
  BY <1>1, DiskSame
<1>3. \A o : KeptOf(t, o) \in SUBSET Kept(t)
  BY KeptOfKept
<1>4. SumsAgree(u)
  BY <1>1, <1>2, <1>3 DEF SumsAgree
<1>5. WithinLimits(u)
  BY <1>1, <1>2, <1>3 DEF WithinLimits
<1> QED
  BY <1>1, <1>4, <1>5

-----------------------------------------------------------------------------
(* The figures of a result                                                 *)

(* t, files and images are the table and the disk once r holds f: r is     *)
(* known to the sweep under way as added, or as it was.                    *)
Holds(r, f, t, files, images) ==
    /\ t \in Tabled /\ SumsAgree(t) /\ t.on = table.on
    /\ files \in [Refs -> Meta \cup {NONE}] /\ images \in [Refs -> 0 .. MaxNow \cup {NONE}]
    /\ t.meta[r] # NONE /\ t.meta[r].fig = f /\ files[r] = t.meta[r]
    /\ images[r] # NONE /\ images[r] \in {image[r], now}
    /\ SameFigure(r, f) /\ (table.meta[r] # NONE \/ Unused(r))
    /\ \A q \in Refs \ {r} :
          /\ t.meta[q] = table.meta[q] /\ files[q] = json[q] /\ images[q] = image[q]
          /\ q \in t.added <=> q \in table.added
          /\ q \in t.dropped <=> q \in table.dropped
    /\ sweep.pc \in {"begun", "reading"} =>
          \/ r \in t.added
          \/ /\ files[r] = json[r] /\ t.meta[r] = table.meta[r]
             /\ r \in t.added <=> r \in table.added
             /\ r \in t.dropped <=> r \in table.dropped

(* The batch of a store once r is in it.                                   *)
Grown(s, r) == store[s].batch \cup {r}

(* What each figure of a batch takes of the disk.                          *)
Weights(figure, S) == [q \in S |-> Disk(figure[q])]

(* The figures of a batch, wherever they are now and in t and on files,    *)
(* take no more than d, and that is within the limits.                     *)
Fits(batch, t, files, d) ==
    \E figure \in [batch -> Figures] :
       /\ \A q \in batch : SameFigure(q, figure[q]) /\ (t.meta[q] # NONE => t.meta[q].fig = figure[q])
                           /\ (files[q] # NONE => files[q].fig = figure[q])
       /\ SumOf(Weights(figure, batch), batch) <= d
       /\ d <= Min({OwnerQuota, TotalCap})
       /\ Cardinality(batch) <= OwnerMax

(* They do once r is in the batch.                                         *)
LEMMA BatchGrows ==
    ASSUME IInv, NEW s \in Stores, NEW r \in Refs, NEW f \in Figures, NEW t, NEW files, NEW images,
           Holds(r, f, t, files, images), Room(s, f),
           NEW batch, batch = Grown(s, r)
    PROVE  Fits(batch, t, files, store[s].disk + Disk(f))
<1>1. store[s].batch \in SUBSET Refs /\ store[s].disk \in Nat /\ batch = store[s].batch \cup {r}
  BY DEF IInv, TypeOK, Grown
<1>2. PICK g \in [store[s].batch -> Figures] :
         /\ \A q \in store[s].batch : SameFigure(q, g[q])
         /\ SumOf([q \in store[s].batch |-> Disk(g[q])], store[s].batch) <= store[s].disk
  BY DEF IInv, BatchInv
<1> DEFINE old == store[s].batch
           h == [q \in batch |-> IF q = r THEN f ELSE g[q]]
           w == [q \in old |-> Disk(g[q])]
           v == [q \in batch |-> Disk(h[q])]
<1>3. h \in [batch -> Figures] /\ h[r] = f /\ \A q \in old \ {r} : h[q] = g[q]
  BY <1>1
<1>4. IsFiniteSet(old) /\ IsFiniteSet(batch) /\ r \in batch /\ batch \ {r} \in SUBSET old
  <2>1. batch \in SUBSET Refs
    BY <1>1
  <2> QED
    BY <1>1, <2>1, FigAssumption, FS_Subset
<1>5. \A x \in Figures : Disk(x) \in Nat
  BY FigAssumption DEF Figures, Disk
<1>6. \A q \in old : w[q] \in Nat
  BY <1>5
<1>7. \A q \in batch : v[q] \in Nat
  BY <1>3, <1>5
<1>8. v[r] = Disk(f) /\ \A q \in batch \ {r} : v[q] = w[q]
  BY <1>1, <1>3
<1> HIDE DEF h, w, v
<1>9. SumOf(v, batch) <= store[s].disk + Disk(f)
  <2>1. SumOf(v, batch) = v[r] + SumOf(v, batch \ {r})
    BY <1>4, <1>7, SumTakes
  <2>2. IsFiniteSet(batch \ {r})
    BY <1>4, FS_Subset
  <2>3. SumOf(v, batch \ {r}) = SumOf(w, batch \ {r})
    BY <1>8, <2>2, SumSame
  <2>4. SumOf(w, batch \ {r}) <= SumOf(w, old)
    BY <1>4, <1>6, SumGrows
  <2>5. SumOf(w, batch \ {r}) \in Nat /\ SumOf(w, old) \in Nat
    <3>1. \A q \in batch \ {r} : w[q] \in Nat
      BY <1>4, <1>6
    <3> QED
      BY <1>4, <1>6, <2>2, <3>1, SumNat
  <2>6. SumOf(w, old) <= store[s].disk
    BY <1>2 DEF w
  <2>7. Disk(f) \in Nat
    BY <1>5
  <2> QED
    BY <1>1, <1>8, <2>1, <2>3, <2>4, <2>5, <2>6, <2>7
<1>10. Cardinality(batch) <= OwnerMax
  <2>1. Cardinality(batch) <= Cardinality(old) + 1 /\ Cardinality(old) \in Nat /\ Cardinality(batch) \in Nat
    <3>1. Cardinality(old \cup {r}) <= Cardinality(old) + 1 /\ Cardinality(old) \in Nat
      <4>1. Cardinality(old) \in Nat
        BY <1>4, FS_CardinalityType
      <4>2. Cardinality(old \cup {r}) = IF r \in old THEN Cardinality(old) ELSE Cardinality(old) + 1
        BY <1>4, FS_AddElement, Zenon
      <4> QED
        BY <4>1, <4>2
    <3>2. batch = old \cup {r}
      BY <1>1
    <3>3. Cardinality(batch) \in Nat
      BY <1>4, FS_CardinalityType
    <3>4. Cardinality(batch) = Cardinality(old \cup {r})
      BY <3>2
    <3> QED
      BY <3>1, <3>3, <3>4
  <2>2. Cardinality(old) + 1 <= OwnerMax
    BY DEF Room
  <2> QED
    BY <2>1, <2>2, FigAssumption
<1>11. ASSUME NEW q \in batch
       PROVE  /\ SameFigure(q, h[q]) /\ (t.meta[q] # NONE => t.meta[q].fig = h[q])
              /\ (files[q] # NONE => files[q].fig = h[q])
  <2>1. CASE q = r
    BY <1>3, <2>1 DEF Holds
  <2>2. CASE q # r
    <3>1. q \in old /\ q \in Refs \ {r} /\ h[q] = g[q]
      BY <1>1, <1>3, <2>2
    <3>2. SameFigure(q, g[q])
      BY <1>2, <3>1
    <3> QED
      BY <3>1, <3>2 DEF Holds, SameFigure
  <2> QED
    BY <2>1, <2>2
<1> QED
  BY <1>3, <1>9, <1>10, <1>11 DEF Room, v, Weights, Fits

-----------------------------------------------------------------------------
(* What the limits leave                                                   *)

(* The limits take the figures of gone out of the table, and leave every   *)
(* other as it is.                                                         *)
LEMMA Enforced ==
    ASSUME NEW t \in Tabled, NEW gone \in SUBSET Refs, table' = Forget(t, gone)
    PROVE  /\ table' \in Tabled
           /\ Kept(table') = Kept(t) \ gone
           /\ \A q \in gone : table'.meta[q] = NONE
           /\ \A q \in Refs \ gone : table'.meta[q] = t.meta[q]
<1>1. Forget(t, gone) \in Tabled
  BY ForgetTable
<1>2. /\ Kept(Forget(t, gone)) = Kept(t) \ gone
      /\ \A q \in Refs \ gone : Forget(t, gone).meta[q] = t.meta[q]
      /\ \A q \in gone : Forget(t, gone).meta[q] = NONE
  BY ForgetKept
<1> QED
  BY <1>1, <1>2

(* What a sweep under way is told of them.                                 *)
LEMMA EnforcedNotes ==
    ASSUME NEW t \in Tabled, NEW gone \in SUBSET Kept(t), table' = Forget(t, gone)
    PROVE  /\ table'.on = t.on /\ table'.added = t.added
           /\ t.on = TRUE => table'.dropped = t.dropped \cup gone
           /\ t.on = FALSE => table'.dropped = t.dropped
<1>1. gone \in SUBSET Refs /\ gone \cap Kept(t) = gone
  BY DEF Kept
<1>2. /\ Forget(t, gone).on = t.on /\ Forget(t, gone).added = t.added
      /\ Forget(t, gone).dropped = IF t.on THEN t.dropped \cup (gone \cap Kept(t)) ELSE t.dropped
  BY <1>1, ForgetTable
<1> QED
  BY <1>1, <1>2

-----------------------------------------------------------------------------
(* Storing                                                                 *)

(* What the table, the disk and the notes of a sweep are once the figure   *)
(* of ref r is noted and the limits are enforced.                          *)
LEMMA BatchedPoints ==
    ASSUME IInv, NEW s \in Stores, NEW r \in Refs, NEW f \in Figures, NEW t, NEW files, NEW images,
           Holds(r, f, t, files, images), Room(s, f), Batched(s, r, f, t, files, images),
           NEW batch, batch = Grown(s, r), NEW gone, gone = Evicted(t, batch)
    PROVE  /\ gone \in SUBSET (Kept(t) \ batch) /\ gone \in SUBSET Refs /\ r \in Refs \ gone
           /\ table' = Forget(t, gone) /\ table' \in Tabled /\ table'.on = table.on
           /\ \A q \in gone : table'.meta[q] = NONE /\ json'[q] = NONE /\ image'[q] = NONE
           /\ \A q \in Refs \ gone : table'.meta[q] = t.meta[q] /\ json'[q] = files[q] /\ image'[q] = images[q]
           /\ \A q \in Refs \ gone : q # r => /\ table'.meta[q] = table.meta[q]
                                              /\ json'[q] = json[q] /\ image'[q] = image[q]
           /\ json' \in [Refs -> Meta \cup {NONE}] /\ image' \in [Refs -> 0 .. MaxNow \cup {NONE}]
           /\ now' = now /\ sweep' = sweep /\ filled' = filled
<1>1. batch \in SUBSET Refs /\ r \in batch
  BY DEF IInv, TypeOK, Grown
<1>2. t \in Tabled /\ files \in [Refs -> Meta \cup {NONE}] /\ images \in [Refs -> 0 .. MaxNow \cup {NONE}]
  BY DEF Holds
<1>3. /\ table' = Forget(t, gone)
      /\ json' = [q \in Refs |-> IF q \in gone THEN NONE ELSE files[q]]
      /\ image' = [q \in Refs |-> IF q \in gone THEN NONE ELSE images[q]]
      /\ now' = now /\ sweep' = sweep /\ filled' = filled
  BY DEF Batched, Enforce, Grown
<1>4. /\ gone \in SUBSET (Kept(t) \ batch) /\ gone \in SUBSET Refs
      /\ table' \in Tabled
      /\ \A q \in gone : table'.meta[q] = NONE /\ json'[q] = NONE /\ image'[q] = NONE
      /\ \A q \in Refs \ gone : table'.meta[q] = t.meta[q] /\ json'[q] = files[q] /\ image'[q] = images[q]
  <2>1. gone \in SUBSET (Kept(t) \ batch)
    BY <1>1, <1>2, EvictedKept
  <2>2. gone \in SUBSET Refs
    BY <2>1 DEF Kept
  <2>3. /\ table' \in Tabled
        /\ \A q \in gone : table'.meta[q] = NONE
        /\ \A q \in Refs \ gone : table'.meta[q] = t.meta[q]
    BY <1>2, <1>3, <2>2, Enforced
  <2> QED
    BY <1>3, <2>1, <2>2, <2>3
<1>5. json' \in [Refs -> Meta \cup {NONE}] /\ image' \in [Refs -> 0 .. MaxNow \cup {NONE}]
  BY <1>2, <1>3
<1>6. \A q \in Refs \ gone : q # r => /\ table'.meta[q] = table.meta[q]
                                      /\ json'[q] = json[q] /\ image'[q] = image[q]
  <2>1. \A q \in Refs \ {r} : t.meta[q] = table.meta[q] /\ files[q] = json[q] /\ images[q] = image[q]
    BY DEF Holds
  <2> QED
    BY <1>4, <2>1
<1>7. table'.on = table.on
  <2>1. gone \in SUBSET Kept(t)
    BY <1>4
  <2>2. table'.on = t.on
    BY <1>2, <1>3, <2>1, EnforcedNotes
  <2> QED
    BY <2>2 DEF Holds
<1> QED
  BY <1>1, <1>3, <1>4, <1>5, <1>6, <1>7

(* A sweep under way knows as much of the other figures as before, and of  *)
(* this one too, unless it is told that it was added.                      *)
LEMMA BatchedNotes ==
    ASSUME IInv, NEW s \in Stores, NEW r \in Refs, NEW f \in Figures, NEW t, NEW files, NEW images,
           Holds(r, f, t, files, images), Room(s, f), Batched(s, r, f, t, files, images),
           NEW batch, batch = Grown(s, r), NEW gone, gone = Evicted(t, batch),
           sweep.pc \in {"begun", "reading"}
    PROVE  /\ gone \subseteq table'.dropped
           /\ \A q \in Refs \ gone : q # r => /\ q \in table'.dropped <=> q \in table.dropped
                                              /\ q \in Carry' <=> q \in Carry
           /\ \/ r \in Carry'
              \/ /\ json'[r] = json[r] /\ image'[r] \in {image[r], now} /\ image'[r] # NONE
                 /\ table'.meta[r] = table.meta[r]
                 /\ r \in table'.dropped <=> r \in table.dropped
                 /\ r \in Carry' <=> r \in Carry
<1>1. /\ gone \in SUBSET (Kept(t) \ batch) /\ r \in Refs \ gone
      /\ table' = Forget(t, gone)
      /\ \A q \in Refs \ gone : table'.meta[q] = t.meta[q] /\ json'[q] = files[q] /\ image'[q] = images[q]
      /\ \A q \in Refs \ gone : q # r => table'.meta[q] = table.meta[q]
  BY BatchedPoints
<1>2. t \in Tabled /\ gone \in SUBSET Kept(t)
  BY <1>1 DEF Holds
<1>3. t.on = TRUE
  BY DEF IInv, OnInv, Holds
<1>4. table'.added = t.added /\ table'.dropped = t.dropped \cup gone
  BY <1>1, <1>2, <1>3, EnforcedNotes
<1>5. \A q \in Refs \ gone : q # r => /\ q \in table'.dropped <=> q \in table.dropped
                                      /\ q \in table'.added <=> q \in table.added
  BY <1>4 DEF Holds
<1>6. \A q \in Refs \ gone : q # r => (q \in Carry' <=> q \in Carry)
  BY <1>1, <1>5 DEF Carry
<1>7. t.meta[r] # NONE /\ table'.meta[r] # NONE
  BY <1>1 DEF Holds
<1>8. CASE r \in t.added
  BY <1>4, <1>5, <1>6, <1>7, <1>8 DEF Carry
<1>9. CASE /\ files[r] = json[r] /\ t.meta[r] = table.meta[r]
           /\ r \in t.added <=> r \in table.added
           /\ r \in t.dropped <=> r \in table.dropped
  <2>1. json'[r] = json[r] /\ table'.meta[r] = table.meta[r] /\ image'[r] = images[r]
    BY <1>1, <1>9
  <2>2. image'[r] \in {image[r], now} /\ image'[r] # NONE
    BY <2>1 DEF Holds
  <2>3. r \in table'.dropped <=> r \in table.dropped
    BY <1>1, <1>4, <1>9
  <2>4. r \in Carry' <=> r \in Carry
    BY <1>4, <1>9, <2>1 DEF Carry
  <2> QED
    BY <1>4, <1>5, <1>6, <2>1, <2>2, <2>3, <2>4
<1> QED
  BY <1>8, <1>9 DEF Holds

(* The batch of a store fits by itself, so the limits can always be kept.  *)
LEMMA BatchedFits ==
    ASSUME IInv, NEW s \in Stores, NEW r \in Refs, NEW f \in Figures, NEW t, NEW files, NEW images,
           Holds(r, f, t, files, images), Room(s, f),
           NEW batch, batch = Grown(s, r)
    PROVE  WithinLimits(Forget(t, Evicted(t, batch)))
<1>1. t \in Tabled /\ SumsAgree(t)
  BY DEF Holds
<1>2. batch \in SUBSET Refs
  BY DEF IInv, TypeOK, Grown
<1>3. PICK figure \in [batch -> Figures] :
         /\ \A q \in batch : SameFigure(q, figure[q]) /\ (t.meta[q] # NONE => t.meta[q].fig = figure[q])
                             /\ (files[q] # NONE => files[q].fig = figure[q])
         /\ SumOf(Weights(figure, batch), batch) <= store[s].disk + Disk(f)
         /\ store[s].disk + Disk(f) <= Min({OwnerQuota, TotalCap})
         /\ Cardinality(batch) <= OwnerMax
  <2>1. Fits(batch, t, files, store[s].disk + Disk(f))
    BY BatchGrows
  <2> QED
    BY <2>1 DEF Fits
<1> DEFINE w == Weights(figure, batch)
<1>4. IsFiniteSet(batch)
  BY <1>2, FigAssumption, FS_Subset
<1>5. \A q \in batch : w[q] \in Nat
  BY FigAssumption DEF Figures, Disk, Weights
<1>6. \A q \in batch \cap Kept(t) : w[q] = Shares(t)[q]
  BY <1>3 DEF Shares, Kept, Weights
<1>7. Min({OwnerQuota, TotalCap}) <= OwnerQuota /\ Min({OwnerQuota, TotalCap}) <= TotalCap
      /\ Min({OwnerQuota, TotalCap}) \in Nat
  BY FigAssumption, SMT DEF Min
<1>8. store[s].disk + Disk(f) \in Nat
  <2>1. Disk(f) \in Nat
    BY FigAssumption DEF Figures, Disk
  <2>2. store[s].disk \in Nat
    BY DEF IInv, TypeOK
  <2> QED
    BY <2>1, <2>2
<1>9. SumOf(w, batch) <= store[s].disk + Disk(f)
  BY <1>3
<1> HIDE DEF w
<1>10. ASSUME NEW S \in SUBSET (Kept(t) \cap batch)
       PROVE  /\ DiskOf(t, S) <= OwnerQuota /\ DiskOf(t, S) <= TotalCap
              /\ Cardinality(S) <= OwnerMax
  <2>1. IsFiniteSet(S) /\ S \in SUBSET batch /\ S \in SUBSET Kept(t)
    BY <1>4, FS_Subset
  <2>2. \A q \in S : w[q] = Shares(t)[q]
    BY <1>6
  <2>3. SumOf(w, S) = DiskOf(t, S)
    BY <2>1, <2>2, SumSame DEF DiskOf
  <2>4. SumOf(w, S) <= SumOf(w, batch)
    BY <1>4, <1>5, <2>1, SumGrows
  <2>5. DiskOf(t, S) \in Nat
    BY <1>1, <2>1, DiskNat
  <2>6. SumOf(w, batch) \in Nat
    BY <1>4, <1>5, SumNat
  <2>7. Cardinality(S) <= Cardinality(batch) /\ Cardinality(S) \in Nat /\ Cardinality(batch) \in Nat
    BY <1>4, <2>1, FS_Subset, FS_CardinalityType
  <2> QED
    BY <1>3, <1>7, <1>8, <1>9, <2>3, <2>4, <2>5, <2>6, <2>7, FigAssumption
<1>11. \A o \in Owners : /\ DiskOf(t, KeptOf(t, o) \cap batch) <= OwnerQuota
                         /\ Cardinality(KeptOf(t, o) \cap batch) <= OwnerMax
  <2> TAKE o \in Owners
  <2>1. KeptOf(t, o) \cap batch \in SUBSET (Kept(t) \cap batch)
    BY DEF KeptOf
  <2> QED
    BY <1>10, <2>1
<1>12. DiskOf(t, Kept(t) \cap batch) <= TotalCap
  BY <1>10
<1> QED
  BY <1>1, <1>2, <1>11, <1>12, EvictedFits

(* The figure of a ref is noted within the invariant.                      *)
LEMMA BatchedStep ==
    ASSUME IInv, NEW s \in Stores, NEW r \in Refs, NEW f \in Figures, NEW t, NEW files, NEW images,
           Holds(r, f, t, files, images), Room(s, f), Batched(s, r, f, t, files, images)
    PROVE  IInv'
<1> DEFINE batch == Grown(s, r)
           gone == Evicted(t, batch)
<1>1. /\ gone \in SUBSET (Kept(t) \ batch) /\ gone \in SUBSET Refs /\ r \in Refs \ gone
      /\ table' = Forget(t, gone) /\ table' \in Tabled /\ table'.on = table.on
      /\ \A q \in gone : table'.meta[q] = NONE /\ json'[q] = NONE /\ image'[q] = NONE
      /\ \A q \in Refs \ gone : table'.meta[q] = t.meta[q] /\ json'[q] = files[q] /\ image'[q] = images[q]
      /\ \A q \in Refs \ gone : q # r => /\ table'.meta[q] = table.meta[q]
                                         /\ json'[q] = json[q] /\ image'[q] = image[q]
      /\ json' \in [Refs -> Meta \cup {NONE}] /\ image' \in [Refs -> 0 .. MaxNow \cup {NONE}]
      /\ now' = now /\ sweep' = sweep /\ filled' = filled
  BY BatchedPoints
<1>2. sweep.pc \in {"begun", "reading"} =>
      /\ gone \subseteq table'.dropped
      /\ \A q \in Refs \ gone : q # r => /\ q \in table'.dropped <=> q \in table.dropped
                                         /\ q \in Carry' <=> q \in Carry
      /\ \/ r \in Carry'
         \/ /\ json'[r] = json[r] /\ image'[r] \in {image[r], now} /\ image'[r] # NONE
            /\ table'.meta[r] = table.meta[r]
            /\ r \in table'.dropped <=> r \in table.dropped
            /\ r \in Carry' <=> r \in Carry
  BY BatchedNotes
<1>3. WithinLimits(Forget(t, gone))
  BY BatchedFits
<1>4. Fits(batch, t, files, store[s].disk + Disk(f))
  BY BatchGrows
<1> HIDE DEF gone, batch
<1>5. /\ table'.meta[r] # NONE /\ table'.meta[r].fig = f /\ json'[r] = table'.meta[r]
      /\ image'[r] # NONE /\ image'[r] \in {image[r], now}
      /\ SameFigure(r, f) /\ (table.meta[r] # NONE \/ Unused(r))
  BY <1>1 DEF Holds
<1>6. t \in Tabled /\ SumsAgree(t)
  BY DEF Holds
<1>7. TypeOK'
  <2>1. store' = [store EXCEPT ![s].batch = batch, ![s].disk = @ + Disk(f)]
    BY DEF Batched, batch, Grown
  <2>2. batch \in SUBSET Refs
    BY DEF IInv, TypeOK, batch, Grown
  <2>3. Disk(f) \in Nat
    BY FigAssumption DEF Figures, Disk
  <2>4. store' \in [Stores -> [owner : Owners \cup {NONE}, now : 0 .. now, batch : SUBSET Refs, disk : Nat]]
    <3>1. store \in [Stores -> [owner : Owners \cup {NONE}, now : 0 .. now, batch : SUBSET Refs, disk : Nat]]
      BY DEF IInv, TypeOK
    <3>2. store[s] \in [owner : Owners \cup {NONE}, now : 0 .. now, batch : SUBSET Refs, disk : Nat]
      BY <3>1
    <3>3. [store[s] EXCEPT !.batch = batch, !.disk = @ + Disk(f)]
             \in [owner : Owners \cup {NONE}, now : 0 .. now, batch : SUBSET Refs, disk : Nat]
      <4> DEFINE e == store[s].disk + Disk(f)
                 Locals == [owner : Owners \cup {NONE}, now : 0 .. now, batch : SUBSET Refs, disk : Nat]
      <4>1. e \in Nat
        BY <2>3, <3>2
      <4> HIDE DEF e
      <4>2. [store[s] EXCEPT !.batch = batch, !.disk = e] \in Locals
        BY <2>2, <3>2, <4>1
      <4> QED
        BY <4>2 DEF e
    <3> QED
      BY <2>1, <3>1, <3>3
  <2>5. now \in 0 .. MaxNow /\ filled \in BOOLEAN
    BY DEF IInv, TypeOK
  <2>6. sweep \in [pc : {"idle", "begun", "reading", "clearing"}, now : 0 .. now,
                  unread : SUBSET Refs, live : [Refs -> Meta \cup {NONE}],
                  dead : SUBSET Refs, held : SUBSET Refs, spared : SUBSET Refs]
    BY DEF IInv, TypeOK
  <2> QED
    BY <1>1, <2>4, <2>5, <2>6 DEF TypeOK
<1>8. SumsAgree(table)'
  <2>1. SumsAgree(Forget(t, gone))
    BY <1>1, <1>6, ForgetAgrees
  <2>2. SumsAgree(table')
    BY <1>1, <2>1
  <2> QED
    BY <2>2 DEF SumsAgree
<1>9. WithinLimits(table)'
  <2>1. WithinLimits(table')
    BY <1>1, <1>3
  <2> QED
    BY <2>1 DEF WithinLimits
<1>10. TableOnDisk'
  <2> SUFFICES ASSUME NEW q \in Refs, table'.meta[q] # NONE
               PROVE  json'[q] = table'.meta[q] /\ image'[q] # NONE
    BY DEF TableOnDisk, Kept
  <2>1. q \notin gone
    BY <1>1
  <2>2. table.meta[q] # NONE => json[q] = table.meta[q] /\ image[q] # NONE
    BY DEF IInv, TableOnDisk, Kept
  <2> QED
    BY <1>1, <1>5, <2>1, <2>2
<1>11. DiskCounted'
  <2> SUFFICES ASSUME filled, sweep.pc = "idle", NEW q \in Refs \ sweep.held, json'[q] # NONE
               PROVE  table'.meta[q] # NONE
    BY <1>1 DEF DiskCounted
  <2>1. q \notin gone /\ (json[q] # NONE => table.meta[q] # NONE)
    BY <1>1 DEF IInv, DiskCounted
  <2> QED
    BY <1>1, <1>5, <2>1
<1>12. OnInv'
  <2>1. table'.on = (sweep'.pc \in {"begun", "reading"})
    BY <1>1 DEF IInv, OnInv
  <2>2. sweep'.pc # "reading" => \A q \in Refs : sweep'.live[q] = NONE
    BY <1>1 DEF IInv, OnInv
  <2>3. ASSUME sweep.pc \in {"begun", "reading"}, NEW q \in table'.dropped, json'[q] # NONE
        PROVE  q \in Carry'
    <3>1. q \in Refs
      BY <1>1 DEF Tabled
    <3>2. q \in Refs \ gone
      BY <1>1, <2>3, <3>1
    <3>3. q \in table.dropped /\ json[q] # NONE => q \in Carry
      BY <2>3 DEF IInv, OnInv
    <3> QED
      BY <1>1, <1>2, <2>3, <3>2, <3>3
  <2> QED
    BY <1>1, <2>1, <2>2, <2>3 DEF OnInv
<1>13. ReadInv'
  <2>1. ASSUME filled, sweep.pc = "begun", NEW q \in Refs \ sweep.held, json'[q] # NONE
        PROVE  table'.meta[q] # NONE
    <3>1. q \notin gone /\ (json[q] # NONE => table.meta[q] # NONE)
      BY <1>1, <2>1 DEF IInv, ReadInv
    <3> QED
      BY <1>1, <1>5, <2>1, <3>1
  <2>2. ASSUME sweep.pc = "reading", NEW q \in Refs, sweep.live[q] # NONE, q \notin table'.dropped \cup Carry'
        PROVE  json'[q] = sweep.live[q] /\ image'[q] # NONE
    <3>1. q \in Refs \ gone
      BY <1>2, <2>2
    <3>2. q \notin table.dropped \cup Carry
      BY <1>2, <2>2, <3>1
    <3>3. json[q] = sweep.live[q] /\ image[q] # NONE
      BY <2>2, <3>2 DEF IInv, ReadInv
    <3> QED
      BY <1>1, <1>2, <2>2, <3>1, <3>3
  <2>3. ASSUME sweep.pc = "reading", NEW q \in Refs, json'[q] # NONE
        PROVE  q \in sweep.unread \cup sweep.held \cup sweep.dead \/ Rows'[q] # NONE
    <3>1. q \in Refs \ gone
      BY <1>1, <2>3
    <3>2. json[q] # NONE => q \in sweep.unread \cup sweep.held \cup sweep.dead \/ Rows[q] # NONE
      BY <2>3 DEF IInv, ReadInv
    <3>3. Rows'[q] = IF q \in Carry' THEN table'.meta[q] ELSE IF q \in table'.dropped THEN NONE ELSE sweep.live[q]
      BY <1>1 DEF Rows
    <3>4. Rows[q] = IF q \in Carry THEN table.meta[q] ELSE IF q \in table.dropped THEN NONE ELSE sweep.live[q]
      BY DEF Rows
    <3>5. CASE q # r
      BY <1>1, <1>2, <2>3, <3>1, <3>2, <3>3, <3>4, <3>5
    <3>6. CASE q = r
      BY <1>2, <1>5, <2>3, <3>2, <3>3, <3>4, <3>6
    <3> QED
      BY <3>5, <3>6
  <2> QED
    BY <1>1, <2>1, <2>2, <2>3 DEF ReadInv
<1>14. ClearInv'
  <2> SUFFICES ASSUME sweep.pc = "clearing"
               PROVE  /\ \A q \in Refs : table'.meta[q] # NONE =>
                            q \notin sweep.dead /\ (q \in sweep.spared \/ image'[q] >= sweep.now)
                      /\ \A q \in Refs \ (sweep.held \cup sweep.dead) : json'[q] # NONE => table'.meta[q] # NONE
    BY <1>1 DEF ClearInv, Kept
  <2>1. ASSUME NEW q \in Refs
        PROVE  /\ table.meta[q] # NONE => q \notin sweep.dead /\ (q \in sweep.spared \/ image[q] >= sweep.now)
               /\ q \notin sweep.held \cup sweep.dead => (json[q] # NONE => table.meta[q] # NONE)
    BY DEF IInv, ClearInv, Kept
  <2>2. now \in Nat /\ sweep.now \in Nat /\ now >= sweep.now
    BY FigAssumption DEF IInv, TypeOK
  <2>3. r \notin sweep.dead /\ (r \in sweep.spared \/ image'[r] >= sweep.now)
    <3>1. CASE table.meta[r] # NONE
      BY <1>5, <2>1, <2>2, <3>1
    <3>2. CASE Unused(r)
      BY <1>5, <2>2, <3>2 DEF Unused
    <3> QED
      BY <1>5, <3>1, <3>2
  <2>4. ASSUME NEW q \in Refs, table'.meta[q] # NONE
        PROVE  q \notin sweep.dead /\ (q \in sweep.spared \/ image'[q] >= sweep.now)
    <3>1. q \notin gone
      BY <1>1, <2>4
    <3> QED
      BY <1>1, <2>1, <2>3, <2>4, <3>1
  <2>5. ASSUME NEW q \in Refs \ (sweep.held \cup sweep.dead), json'[q] # NONE
        PROVE  table'.meta[q] # NONE
    <3>1. q \notin gone
      BY <1>1, <2>5
    <3> QED
      BY <1>1, <1>5, <2>1, <2>5, <3>1
  <2> QED
    BY <2>4, <2>5
<1>15. FigureInv'
  <2> SUFFICES ASSUME NEW q \in Refs, json'[q] # NONE, sweep.live[q] # NONE
               PROVE  json'[q].fig = sweep.live[q].fig
    BY <1>1 DEF FigureInv
  <2>1. q \notin gone /\ (json[q] # NONE => json[q].fig = sweep.live[q].fig)
    BY <1>1 DEF IInv, FigureInv
  <2> QED
    BY <1>1, <1>5, <2>1 DEF SameFigure
<1>16. BatchInv'
  <2>1. store' = [store EXCEPT ![s].batch = batch, ![s].disk = @ + Disk(f)]
    BY DEF Batched, batch, Grown
  <2>2. /\ store'[s].batch = batch /\ store'[s].disk = store[s].disk + Disk(f)
        /\ \A s2 \in Stores : s2 # s => store'[s2] = store[s2]
    BY <2>1 DEF IInv, TypeOK
  <2>3. ASSUME NEW q \in Refs, NEW h, SameFigure(q, h), q = r => h = f
        PROVE  SameFigure(q, h)'
    <3>1. CASE q \in gone
      BY <1>1, <2>3, <3>1 DEF SameFigure
    <3>2. CASE q = r
      BY <1>1, <1>5, <2>3, <3>2 DEF SameFigure
    <3>3. CASE q \notin gone /\ q # r
      BY <1>1, <2>3, <3>3 DEF SameFigure
    <3> QED
      BY <3>1, <3>2, <3>3
  <2>4. batch \in SUBSET Refs /\ r \in batch
    BY DEF IInv, TypeOK, batch, Grown
  <2>5. \E figure \in [batch -> Figures] :
           /\ \A q \in batch : SameFigure(q, figure[q])'
           /\ SumOf([q \in batch |-> Disk(figure[q])], batch) <= store[s].disk + Disk(f)
           /\ store[s].disk + Disk(f) <= Min({OwnerQuota, TotalCap})
           /\ Cardinality(batch) <= OwnerMax
    <3>1. PICK figure \in [batch -> Figures] :
             /\ \A q \in batch : SameFigure(q, figure[q]) /\ (t.meta[q] # NONE => t.meta[q].fig = figure[q])
                                 /\ (files[q] # NONE => files[q].fig = figure[q])
             /\ SumOf([q \in batch |-> Disk(figure[q])], batch) <= store[s].disk + Disk(f)
             /\ store[s].disk + Disk(f) <= Min({OwnerQuota, TotalCap})
             /\ Cardinality(batch) <= OwnerMax
      BY <1>4 DEF Fits, Weights
    <3>2. figure[r] = f
      BY <2>4, <3>1 DEF Holds
    <3>3. \A q \in batch : SameFigure(q, figure[q])'
      BY <2>3, <2>4, <3>1, <3>2
    <3> QED
      BY <3>1, <3>3
  <2>6. ASSUME NEW s2 \in Stores, s2 # s
        PROVE  \E figure \in [store[s2].batch -> Figures] :
           /\ \A q \in store[s2].batch : SameFigure(q, figure[q])'
           /\ SumOf([q \in store[s2].batch |-> Disk(figure[q])], store[s2].batch) <= store[s2].disk
           /\ store[s2].disk <= Min({OwnerQuota, TotalCap})
           /\ Cardinality(store[s2].batch) <= OwnerMax
    <3>1. PICK figure \in [store[s2].batch -> Figures] :
             /\ \A q \in store[s2].batch : SameFigure(q, figure[q])
             /\ SumOf([q \in store[s2].batch |-> Disk(figure[q])], store[s2].batch) <= store[s2].disk
             /\ store[s2].disk <= Min({OwnerQuota, TotalCap})
             /\ Cardinality(store[s2].batch) <= OwnerMax
      BY DEF IInv, BatchInv
    <3>2. store[s2].batch \in SUBSET Refs
      BY DEF IInv, TypeOK
    <3>3. r \in store[s2].batch => table.meta[r] # NONE
      BY <1>5 DEF Unused
    <3>4. r \in store[s2].batch => figure[r] = f
      BY <1>5, <3>1, <3>3 DEF SameFigure
    <3>5. \A q \in store[s2].batch : SameFigure(q, figure[q])'
      BY <2>3, <3>1, <3>2, <3>4
    <3> QED
      BY <3>1, <3>5
  <2>7. ASSUME NEW x \in Stores
        PROVE  (\E figure \in [store[x].batch -> Figures] :
           /\ \A q \in store[x].batch : SameFigure(q, figure[q])
           /\ SumOf([q \in store[x].batch |-> Disk(figure[q])], store[x].batch) <= store[x].disk
           /\ store[x].disk <= Min({OwnerQuota, TotalCap})
           /\ Cardinality(store[x].batch) <= OwnerMax)'
    <3>1. CASE x = s
      BY <2>2, <2>5, <3>1
    <3>2. CASE x # s
      BY <2>2, <2>6, <3>2
    <3> QED
      BY <3>1, <3>2
  <2> QED
    BY <2>7 DEF BatchInv
<1> QED
  BY <1>7, <1>8, <1>9, <1>10, <1>11, <1>12, <1>13, <1>14, <1>15, <1>16 DEF IInv

(* The ref under which a figure is alive is the figure's, and on the disk. *)
LEMMA AliveHere ==
    ASSUME IInv, NEW s, NEW f \in Figures, NEW r \in Alive(s, f)
    PROVE  /\ r \in Refs /\ table.meta[r] # NONE /\ table.meta[r].fig = f
           /\ json[r] = table.meta[r] /\ image[r] # NONE /\ SameFigure(r, f)
<1>1. r \in Refs /\ table.key[f] = r /\ table.meta[r] # NONE
  BY DEF Alive
<1>2. table.meta[r].fig = f
  BY <1>1, FigAssumption DEF IInv, SumsAgree
<1>3. json[r] = table.meta[r] /\ image[r] # NONE
  BY <1>1 DEF IInv, TableOnDisk, Kept
<1> QED
  BY <1>1, <1>2, <1>3 DEF SameFigure, IInv, FigureInv

(* What the state is made of.                                              *)
LEMMA StateTypes ==
    ASSUME IInv
    PROVE  /\ table \in Tabled /\ SumsAgree(table) /\ WithinLimits(table)
           /\ json \in [Refs -> Meta \cup {NONE}] /\ image \in [Refs -> 0 .. MaxNow \cup {NONE}]
           /\ now \in 0 .. MaxNow /\ filled \in BOOLEAN
BY DEF IInv, TypeOK

LEMMA RowMeta ==
    ASSUME IInv, NEW s \in Stores, NEW f \in Figures
    PROVE  Row(s, f) \in Meta /\ Row(s, f) # NONE /\ Row(s, f).fig = f
<1>1. store[s].now \in 0 .. MaxNow
  BY FigAssumption DEF IInv, TypeOK
<1>2. Row(s, f) \in Meta /\ Row(s, f).fig = f
  BY <1>1 DEF Row, Meta
<1>3. Row(s, f) \in [fig : Figures, created : Nat]
  BY <1>1, FigAssumption DEF Row
<1> QED
  BY <1>2, <1>3, FigAssumption

LEMMA ReuseStep ==
    ASSUME IInv, NEW s \in Stores, NEW f \in Figures, Reuse(s, f)
    PROVE  \E r \in Refs : \E t, files, images :
              Holds(r, f, t, files, images) /\ Room(s, f) /\ Batched(s, r, f, t, files, images)
<1>1. PICK r \in Alive(s, f) : Room(s, f) /\ Batched(s, r, f, table, json, image)
  BY DEF Reuse
<1>2. /\ r \in Refs /\ table.meta[r] # NONE /\ table.meta[r].fig = f
      /\ json[r] = table.meta[r] /\ image[r] # NONE /\ SameFigure(r, f)
  BY AliveHere
<1>3. Holds(r, f, table, json, image)
  BY <1>2, StateTypes DEF Holds
<1> QED
  BY <1>1, <1>2, <1>3

LEMMA RenewStep ==
    ASSUME IInv, NEW s \in Stores, NEW f \in Figures, Renew(s, f)
    PROVE  \E r \in Refs : \E t, files, images :
              Holds(r, f, t, files, images) /\ Room(s, f) /\ Batched(s, r, f, t, files, images)
<1> DEFINE m == Row(s, f)
<1>1. PICK r \in Alive(s, f) :
         Room(s, f) /\ Batched(s, r, f, Add(Forget(table, {r}), r, m), [json EXCEPT ![r] = m], image)
  BY DEF Renew
<1> DEFINE u == Forget(table, {r})
           t == Add(u, r, m)
           files == [json EXCEPT ![r] = m]
<1>2. /\ r \in Refs /\ table.meta[r] # NONE /\ table.meta[r].fig = f
      /\ json[r] = table.meta[r] /\ image[r] # NONE /\ SameFigure(r, f)
  BY AliveHere
<1>3. m \in Meta /\ m # NONE /\ m.fig = f
  BY RowMeta
<1> HIDE DEF m
<1>4. table \in Tabled /\ SumsAgree(table) /\ {r} \in SUBSET Refs
  BY <1>2, StateTypes
<1>5. u \in Tabled /\ SumsAgree(u)
  BY <1>4, ForgetTable, ForgetAgrees
<1>6. /\ Kept(u) = Kept(table) \ {r}
      /\ \A q \in Refs \ {r} : u.meta[q] = table.meta[q]
  BY <1>4, ForgetKept
<1>7. u.on = table.on /\ u.added = table.added
      /\ u.dropped = IF table.on THEN table.dropped \cup ({r} \cap Kept(table)) ELSE table.dropped
  BY <1>4, ForgetTable
<1> HIDE DEF u
<1>8. r \in Refs \ Kept(u)
  BY <1>2, <1>6
<1>9. t \in Tabled /\ SumsAgree(t)
  BY <1>2, <1>3, <1>5, <1>8, AddTable, AddAgrees
<1>10. /\ \A q \in Refs : (q = r => t.meta[q] = m) /\ (q # r => t.meta[q] = u.meta[q])
       /\ t.dropped = u.dropped
  BY <1>2, <1>3, <1>5, AddTable
<1>11. t.on = u.on /\ t.added = IF u.on THEN u.added \cup {r} ELSE u.added
  BY <1>2, <1>3, <1>5, AddNoted
<1> HIDE DEF t
<1>12. /\ files \in [Refs -> Meta \cup {NONE}] /\ files[r] = m
       /\ \A q \in Refs \ {r} : files[q] = json[q]
  BY <1>2, <1>3, StateTypes
<1>13. Batched(s, r, f, t, files, image)
  BY <1>1 DEF t, u
<1> HIDE DEF files
<1>14. \A q \in Refs \ {r} :
          /\ t.meta[q] = table.meta[q] /\ files[q] = json[q]
          /\ q \in t.added <=> q \in table.added
          /\ q \in t.dropped <=> q \in table.dropped
  BY <1>6, <1>7, <1>10, <1>11, <1>12
<1>15. sweep.pc \in {"begun", "reading"} => r \in t.added
  BY <1>7, <1>11 DEF IInv, OnInv
<1>16. t.on = table.on
  BY <1>7, <1>11
<1>17. Holds(r, f, t, files, image)
  BY <1>2, <1>3, <1>9, <1>10, <1>12, <1>14, <1>15, <1>16, StateTypes DEF Holds
<1> QED
  BY <1>1, <1>2, <1>13, <1>17

LEMMA PutStep ==
    ASSUME IInv, NEW s \in Stores, NEW f \in Figures, Put(s, f)
    PROVE  \E r \in Refs : \E t, files, images :
              Holds(r, f, t, files, images) /\ Room(s, f) /\ Batched(s, r, f, t, files, images)
<1> DEFINE m == Row(s, f)
<1>1. PICK r \in Refs :
         /\ Room(s, f) /\ Unused(r)
         /\ Batched(s, r, f, Add(table, r, m), [json EXCEPT ![r] = m], [image EXCEPT ![r] = now])
  BY DEF Put
<1> DEFINE t == Add(table, r, m)
           files == [json EXCEPT ![r] = m]
           images == [image EXCEPT ![r] = now]
<1>2. m \in Meta /\ m # NONE /\ m.fig = f
  BY RowMeta
<1> HIDE DEF m
<1>3. table \in Tabled /\ SumsAgree(table)
  BY StateTypes
<1>4. r \in Refs \ Kept(table) /\ SameFigure(r, f)
  BY <1>1 DEF Unused, Kept, SameFigure
<1>5. t \in Tabled /\ SumsAgree(t)
  BY <1>2, <1>3, <1>4, AddTable, AddAgrees
<1>6. /\ \A q \in Refs : (q = r => t.meta[q] = m) /\ (q # r => t.meta[q] = table.meta[q])
      /\ t.dropped = table.dropped
  BY <1>2, <1>3, AddTable
<1>7. t.on = table.on /\ t.added = IF table.on THEN table.added \cup {r} ELSE table.added
  BY <1>2, <1>3, AddNoted
<1> HIDE DEF t
<1>8. /\ files \in [Refs -> Meta \cup {NONE}] /\ files[r] = m
      /\ \A q \in Refs \ {r} : files[q] = json[q]
  BY <1>2, StateTypes
<1>9. /\ images \in [Refs -> 0 .. MaxNow \cup {NONE}] /\ images[r] = now
      /\ \A q \in Refs \ {r} : images[q] = image[q]
  BY StateTypes
<1>10. Batched(s, r, f, t, files, images)
  BY <1>1 DEF t
<1> HIDE DEF files, images
<1>11. \A q \in Refs \ {r} :
          /\ t.meta[q] = table.meta[q] /\ files[q] = json[q] /\ images[q] = image[q]
          /\ q \in t.added <=> q \in table.added
          /\ q \in t.dropped <=> q \in table.dropped
  BY <1>6, <1>7, <1>8, <1>9
<1>12. sweep.pc \in {"begun", "reading"} => r \in t.added
  BY <1>7 DEF IInv, OnInv
<1>13. t.on = table.on
  BY <1>7
<1>14. now # NONE
  BY StateTypes, FigAssumption
<1>15. Holds(r, f, t, files, images)
  BY <1>1, <1>2, <1>4, <1>5, <1>6, <1>8, <1>9, <1>11, <1>12, <1>13, <1>14 DEF Holds
<1> QED
  BY <1>1, <1>10, <1>15

-----------------------------------------------------------------------------
(* The other steps                                                         *)

(* A result without figures fits.                                          *)
LEMMA NothingFits ==
    \E figure \in [{} -> Figures] :
       /\ SumOf([q \in {} |-> Disk(figure[q])], {}) <= 0
       /\ 0 <= Min({OwnerQuota, TotalCap}) /\ Cardinality({}) <= OwnerMax
<1> DEFINE figure == [q \in {} |-> <<>>]
<1>1. figure \in [{} -> Figures]
  OBVIOUS
<1>2. SumOf([q \in {} |-> Disk(figure[q])], {}) <= 0
  <2>1. SumOf([q \in {} |-> Disk(figure[q])], {}) = 0
    BY SumEmpty
  <2> QED
    BY <2>1
<1>3. 0 <= Min({OwnerQuota, TotalCap})
  BY FigAssumption, SMT DEF Min
<1>4. Cardinality({}) <= OwnerMax
  BY FS_EmptySet, FigAssumption
<1> HIDE DEF figure
<1> QED
  BY <1>1, <1>2, <1>3, <1>4

(* What does not touch the batches, or empties them, and lets each ref be  *)
(* the figure that it was leaves them fitting.                             *)
LEMMA BatchesKept ==
    ASSUME IInv,
           \A x \in Stores : \/ store'[x].batch = store[x].batch /\ store'[x].disk = store[x].disk
                             \/ store'[x].batch = {} /\ store'[x].disk = 0,
           \A q \in Refs : \A h : SameFigure(q, h) => SameFigure(q, h)'
    PROVE  BatchInv'
<1>1. ASSUME NEW x \in Stores
      PROVE  \E figure \in [store'[x].batch -> Figures] :
                /\ \A q \in store'[x].batch : SameFigure(q, figure[q])'
                /\ SumOf([q \in store'[x].batch |-> Disk(figure[q])], store'[x].batch) <= store'[x].disk
                /\ store'[x].disk <= Min({OwnerQuota, TotalCap})
                /\ Cardinality(store'[x].batch) <= OwnerMax
  <2>1. CASE store'[x].batch = store[x].batch /\ store'[x].disk = store[x].disk
    <3>1. PICK figure \in [store[x].batch -> Figures] :
             /\ \A q \in store[x].batch : SameFigure(q, figure[q])
             /\ SumOf([q \in store[x].batch |-> Disk(figure[q])], store[x].batch) <= store[x].disk
             /\ store[x].disk <= Min({OwnerQuota, TotalCap})
             /\ Cardinality(store[x].batch) <= OwnerMax
      BY DEF IInv, BatchInv
    <3>2. store[x].batch \in SUBSET Refs
      BY DEF IInv, TypeOK
    <3>3. \A q \in store[x].batch : SameFigure(q, figure[q])'
      BY <3>1, <3>2
    <3> QED
      BY <2>1, <3>1, <3>3
  <2>2. CASE store'[x].batch = {} /\ store'[x].disk = 0
    BY <2>2, NothingFits
  <2> QED
    BY <1>1, <2>1, <2>2
<1> QED
  BY <1>1 DEF BatchInv

LEMMA InitInv == Init => IInv
<1> SUFFICES ASSUME Init PROVE IInv
  OBVIOUS
<1>1. /\ table \in Tabled /\ Kept(table) = {} /\ table.on = FALSE
      /\ \A r \in Refs : table.meta[r] = NONE
      /\ SumsAgree(table) /\ WithinLimits(table)
  BY EmptyTable DEF Init
<1>2. TypeOK
  <2>1. now \in 0 .. MaxNow /\ 0 \in 0 .. now
    BY FigAssumption DEF Init
  <2>2. filled \in BOOLEAN
    BY Zenon DEF Init
  <2>3. json \in [Refs -> Meta \cup {NONE}] /\ image \in [Refs -> 0 .. MaxNow \cup {NONE}]
    BY DEF Init
  <2>4. store \in [Stores -> [owner : Owners \cup {NONE}, now : 0 .. now, batch : SUBSET Refs, disk : Nat]]
    BY <2>1 DEF Init, NoStore
  <2>5. sweep \in [pc : {"idle", "begun", "reading", "clearing"}, now : 0 .. now,
                  unread : SUBSET Refs, live : [Refs -> Meta \cup {NONE}],
                  dead : SUBSET Refs, held : SUBSET Refs, spared : SUBSET Refs]
    BY <2>1 DEF Init, NoSweep
  <2> QED
    BY <1>1, <2>1, <2>2, <2>3, <2>4, <2>5 DEF TypeOK
<1>3. TableOnDisk /\ DiskCounted /\ ClearInv /\ FigureInv /\ ReadInv
  BY <1>1 DEF Init, TableOnDisk, DiskCounted, ClearInv, FigureInv, ReadInv, NoSweep
<1>4. OnInv
  <2>1. table.on = FALSE /\ sweep.pc = "idle" /\ \A r \in Refs : sweep.live[r] = NONE
    BY <1>1 DEF Init, NoSweep
  <2>2. (sweep.pc \in {"begun", "reading"}) = FALSE
    BY <2>1
  <2>3. table.on = (sweep.pc \in {"begun", "reading"})
    BY <2>1, <2>2, Zenon
  <2> QED
    BY <2>1, <2>2, <2>3, Zenon DEF OnInv
<1>5. BatchInv
  <2> SUFFICES ASSUME NEW s \in Stores
               PROVE  \E figure \in [store[s].batch -> Figures] :
                         /\ \A r \in store[s].batch : SameFigure(r, figure[r])
                         /\ SumOf([r \in store[s].batch |-> Disk(figure[r])], store[s].batch) <= store[s].disk
                         /\ store[s].disk <= Min({OwnerQuota, TotalCap})
                         /\ Cardinality(store[s].batch) <= OwnerMax
    BY DEF BatchInv
  <2>1. store[s].batch = {} /\ store[s].disk = 0
    BY DEF Init, NoStore
  <2> QED
    BY <2>1, NothingFits
<1> QED
  BY <1>1, <1>2, <1>3, <1>4, <1>5 DEF IInv

(* Nothing but the locals of a store, or the clock, changes.               *)
LEMMA LocalStep ==
    ASSUME IInv, UNCHANGED <<table, json, image, sweep, filled>>, now' \in now .. MaxNow,
           store' \in [Stores -> [owner : Owners \cup {NONE}, now : 0 .. now', batch : SUBSET Refs, disk : Nat]],
           \A x \in Stores : \/ store'[x].batch = store[x].batch /\ store'[x].disk = store[x].disk
                             \/ store'[x].batch = {} /\ store'[x].disk = 0
    PROVE  IInv'
<1>1. TypeOK'
  <2>1. sweep' \in [pc : {"idle", "begun", "reading", "clearing"}, now : 0 .. now',
                  unread : SUBSET Refs, live : [Refs -> Meta \cup {NONE}],
                  dead : SUBSET Refs, held : SUBSET Refs, spared : SUBSET Refs]
    <3>1. 0 .. now \subseteq 0 .. now'
      BY FigAssumption DEF IInv, TypeOK
    <3> QED
      BY <3>1 DEF IInv, TypeOK
  <2>2. now' \in 0 .. MaxNow
    BY FigAssumption DEF IInv, TypeOK
  <2> QED
    BY <2>1, <2>2 DEF IInv, TypeOK
<1>2. SumsAgree(table)' /\ WithinLimits(table)'
  BY DEF IInv, SumsAgree, WithinLimits
<1>3. TableOnDisk' /\ DiskCounted' /\ FigureInv' /\ ClearInv'
  BY DEF IInv, TableOnDisk, DiskCounted, FigureInv, ClearInv
<1>4. Carry' = Carry /\ Rows' = Rows
  BY DEF Carry, Rows
<1>5. OnInv' /\ ReadInv'
  BY <1>4 DEF IInv, OnInv, ReadInv
<1>6. BatchInv'
  <2>1. \A q \in Refs : \A h : SameFigure(q, h) => SameFigure(q, h)'
    BY DEF SameFigure
  <2> QED
    BY <2>1, BatchesKept
<1> QED
  BY <1>1, <1>2, <1>3, <1>5, <1>6 DEF IInv

LEMMA StoreBeginsStep ==
    ASSUME IInv, NEW s \in Stores, NEW o \in Owners, StoreBegins(s, o)
    PROVE  IInv'
<1>1. /\ store[s] = NoStore /\ store' = [store EXCEPT ![s] = [NoStore EXCEPT !.owner = o, !.now = now]]
      /\ UNCHANGED <<now, table, json, image, sweep, filled>>
  BY DEF StoreBegins
<1> DEFINE locals == [NoStore EXCEPT !.owner = o, !.now = now]
<1>2. now' \in now .. MaxNow /\ now \in 0 .. now /\ 0 \in 0 .. now
  BY <1>1, FigAssumption DEF IInv, TypeOK
<1>3. /\ locals \in [owner : Owners \cup {NONE}, now : 0 .. now, batch : SUBSET Refs, disk : Nat]
      /\ locals.batch = {} /\ locals.disk = 0
  BY <1>2 DEF NoStore
<1> HIDE DEF locals
<1>4. store' = [store EXCEPT ![s] = locals]
  BY <1>1 DEF locals
<1>5. store' \in [Stores -> [owner : Owners \cup {NONE}, now : 0 .. now', batch : SUBSET Refs, disk : Nat]]
  BY <1>1, <1>2, <1>3, <1>4 DEF IInv, TypeOK
<1>6. \A x \in Stores : \/ store'[x].batch = store[x].batch /\ store'[x].disk = store[x].disk
                        \/ store'[x].batch = {} /\ store'[x].disk = 0
  BY <1>3, <1>4 DEF IInv, TypeOK
<1> QED
  BY <1>1, <1>2, <1>5, <1>6, LocalStep

LEMMA StoreReturnsStep ==
    ASSUME IInv, NEW s \in Stores, StoreReturns(s)
    PROVE  IInv'
<1>1. store' = [store EXCEPT ![s] = NoStore] /\ UNCHANGED <<now, table, json, image, sweep, filled>>
  BY DEF StoreReturns
<1>2. now' \in now .. MaxNow /\ 0 \in 0 .. now
  BY <1>1, FigAssumption DEF IInv, TypeOK
<1>3. store' \in [Stores -> [owner : Owners \cup {NONE}, now : 0 .. now', batch : SUBSET Refs, disk : Nat]]
  BY <1>1, <1>2 DEF IInv, TypeOK, NoStore
<1>4. \A x \in Stores : \/ store'[x].batch = store[x].batch /\ store'[x].disk = store[x].disk
                        \/ store'[x].batch = {} /\ store'[x].disk = 0
  BY <1>1 DEF IInv, TypeOK, NoStore
<1> QED
  BY <1>1, <1>2, <1>3, <1>4, LocalStep

LEMMA TickStep ==
    ASSUME IInv, Tick
    PROVE  IInv'
<1>1. now' = now + 1 /\ now < MaxNow /\ UNCHANGED <<table, json, image, store, sweep, filled>>
  BY DEF Tick
<1>2. now' \in now .. MaxNow /\ 0 .. now \subseteq 0 .. now'
  BY <1>1, FigAssumption DEF IInv, TypeOK
<1>3. store' \in [Stores -> [owner : Owners \cup {NONE}, now : 0 .. now', batch : SUBSET Refs, disk : Nat]]
  BY <1>1, <1>2 DEF IInv, TypeOK
<1> QED
  BY <1>1, <1>2, <1>3, LocalStep

LEMMA StutterStep ==
    ASSUME IInv, UNCHANGED vars
    PROVE  IInv'
<1>1. UNCHANGED <<now, table, json, image, store, sweep, filled>>
  BY DEF vars
<1>2. now' \in now .. MaxNow
  BY <1>1, FigAssumption DEF IInv, TypeOK
<1>3. store' \in [Stores -> [owner : Owners \cup {NONE}, now : 0 .. now', batch : SUBSET Refs, disk : Nat]]
  BY <1>1 DEF IInv, TypeOK
<1> QED
  BY <1>1, <1>2, <1>3, LocalStep

-----------------------------------------------------------------------------
(* The sweep                                                               *)

(* The locals of the sweep.                                                *)
SweepLocals ==
    [pc : {"idle", "begun", "reading", "clearing"}, now : 0 .. now,
     unread : SUBSET Refs, live : [Refs -> Meta \cup {NONE}],
     dead : SUBSET Refs, held : SUBSET Refs, spared : SUBSET Refs]

LEMMA SweepTypes ==
    ASSUME IInv
    PROVE  /\ sweep \in SweepLocals /\ store \in [Stores -> [owner : Owners \cup {NONE}, now : 0 .. now, batch : SUBSET Refs, disk : Nat]]
           /\ 0 \in 0 .. now /\ now \in 0 .. now
BY FigAssumption DEF IInv, TypeOK, SweepLocals

LEMMA SweepBeginsStep ==
    ASSUME IInv, SweepBegins
    PROVE  IInv'
<1>1. /\ sweep.pc = "idle" /\ sweep' = [sweep EXCEPT !.pc = "begun", !.now = now]
      /\ table' = [table EXCEPT !.on = TRUE, !.added = {}, !.dropped = {}]
      /\ UNCHANGED <<now, json, image, store, filled>>
  BY DEF SweepBegins
<1>2. sweep' \in SweepLocals /\ SweepLocals' = SweepLocals
  BY <1>1, SweepTypes DEF SweepLocals
<1>3. sweep'.pc = "begun" /\ sweep'.live = sweep.live /\ sweep'.held = sweep.held
  BY <1>1, SweepTypes DEF SweepLocals
<1>4. table' \in Tabled
  BY <1>1, StateTypes DEF Tabled
<1>5. /\ table'.meta = table.meta /\ table'.key = table.key /\ table'.usage = table.usage
      /\ table'.count = table.count /\ table'.total = table.total /\ table'.dropped = {}
  BY <1>1, StateTypes DEF Tabled
<1>6. table'.on = TRUE
  BY <1>1, StateTypes DEF Tabled
<1>7. SumsAgree(table') /\ WithinLimits(table') /\ Kept(table') = Kept(table)
  BY <1>4, <1>5, StateTypes, SameSums
<1>8. TypeOK'
  BY <1>1, <1>2, <1>4 DEF IInv, TypeOK, SweepLocals
<1>9. SumsAgree(table)' /\ WithinLimits(table)'
  BY <1>7 DEF SumsAgree, WithinLimits
<1>10. TableOnDisk' /\ DiskCounted' /\ ClearInv' /\ FigureInv'
  BY <1>1, <1>3, <1>5, <1>7 DEF IInv, TableOnDisk, DiskCounted, ClearInv, FigureInv
<1>11. OnInv'
  <2>1. \A r \in Refs : sweep'.live[r] = NONE
    BY <1>1, <1>3 DEF IInv, OnInv
  <2>2. (sweep'.pc \in {"begun", "reading"}) = TRUE
    BY <1>3
  <2>3. table'.on = (sweep'.pc \in {"begun", "reading"})
    BY <1>6, <2>2, Zenon
  <2>4. \A r \in table'.dropped : json'[r] # NONE => r \in Carry'
    BY <1>5
  <2> QED
    BY <2>1, <2>3, <2>4, Zenon DEF OnInv
<1>12. ReadInv'
  BY <1>1, <1>3, <1>5 DEF IInv, ReadInv, DiskCounted
<1>13. BatchInv'
  <2>1. \A q \in Refs : \A h : SameFigure(q, h) => SameFigure(q, h)'
    BY <1>1, <1>3, <1>5 DEF SameFigure
  <2> QED
    BY <1>1, <2>1, BatchesKept
<1> QED
  BY <1>8, <1>9, <1>10, <1>11, <1>12, <1>13 DEF IInv

LEMMA SweepListsStep ==
    ASSUME IInv, SweepLists
    PROVE  IInv'
<1>1. /\ sweep.pc = "begun"
      /\ sweep' = [sweep EXCEPT !.pc = "reading", !.unread = {r \in Refs : json[r] # NONE}, !.held = {}]
      /\ UNCHANGED <<now, table, json, image, store, filled>>
  BY DEF SweepLists
<1>2. sweep' \in SweepLocals /\ SweepLocals' = SweepLocals
  <2> DEFINE listed == {r \in Refs : json[r] # NONE}
  <2>1. listed \in SUBSET Refs
    OBVIOUS
  <2>2. sweep' = [sweep EXCEPT !.pc = "reading", !.unread = listed, !.held = {}]
    BY <1>1
  <2> HIDE DEF listed
  <2> QED
    BY <1>1, <2>1, <2>2, SweepTypes DEF SweepLocals
<1>3. sweep'.pc = "reading" /\ sweep'.live = sweep.live /\ sweep'.unread = {r \in Refs : json[r] # NONE}
  BY <1>1, SweepTypes DEF SweepLocals
<1>4. TypeOK'
  BY <1>1, <1>2 DEF IInv, TypeOK, SweepLocals
<1>5. SumsAgree(table)' /\ WithinLimits(table)'
  BY <1>1 DEF IInv, SumsAgree, WithinLimits
<1>6. TableOnDisk' /\ DiskCounted' /\ ClearInv' /\ FigureInv'
  BY <1>1, <1>3 DEF IInv, TableOnDisk, DiskCounted, ClearInv, FigureInv
<1>7. \A r \in Refs : sweep'.live[r] = NONE
  BY <1>1, <1>3 DEF IInv, OnInv
<1>8. OnInv'
  <2>1. Carry' = Carry
    BY <1>1 DEF Carry
  <2>2. table'.on = (sweep'.pc \in {"begun", "reading"})
    BY <1>1, <1>3 DEF IInv, OnInv
  <2>3. \A r \in table'.dropped : json'[r] # NONE => r \in Carry'
    BY <1>1, <2>1 DEF IInv, OnInv
  <2> QED
    BY <1>7, <2>2, <2>3, Zenon DEF OnInv
<1>9. ReadInv'
  BY <1>1, <1>3, <1>7 DEF ReadInv
<1>10. BatchInv'
  <2>1. \A q \in Refs : \A h : SameFigure(q, h) => SameFigure(q, h)'
    BY <1>1, <1>3 DEF SameFigure
  <2> QED
    BY <1>1, <2>1, BatchesKept
<1> QED
  BY <1>4, <1>5, <1>6, <1>8, <1>9, <1>10 DEF IInv

LEMMA SweepFailsStep ==
    ASSUME IInv, SweepFails
    PROVE  IInv'
<1>1. /\ sweep.pc = "begun" /\ sweep' = [NoSweep EXCEPT !.held = sweep.held]
      /\ table' = [table EXCEPT !.on = FALSE, !.added = {}, !.dropped = {}]
      /\ UNCHANGED <<now, json, image, store, filled>>
  BY DEF SweepFails
<1>2. sweep' \in SweepLocals /\ SweepLocals' = SweepLocals
  BY <1>1, SweepTypes DEF SweepLocals, NoSweep
<1>3. sweep'.pc = "idle" /\ sweep'.held = sweep.held /\ \A r \in Refs : sweep'.live[r] = NONE
  BY <1>1 DEF NoSweep
<1>4. table' \in Tabled
  BY <1>1, StateTypes DEF Tabled
<1>5. /\ table'.meta = table.meta /\ table'.key = table.key /\ table'.usage = table.usage
      /\ table'.count = table.count /\ table'.total = table.total /\ table'.dropped = {}
  BY <1>1, StateTypes DEF Tabled
<1>6. table'.on = FALSE
  BY <1>1, StateTypes DEF Tabled
<1>7. SumsAgree(table') /\ WithinLimits(table') /\ Kept(table') = Kept(table)
  BY <1>4, <1>5, StateTypes, SameSums
<1>8. TypeOK'
  BY <1>1, <1>2, <1>4 DEF IInv, TypeOK, SweepLocals
<1>9. SumsAgree(table)' /\ WithinLimits(table)'
  BY <1>7 DEF SumsAgree, WithinLimits
<1>10. TableOnDisk' /\ DiskCounted' /\ ClearInv' /\ FigureInv' /\ ReadInv'
  BY <1>1, <1>3, <1>5, <1>7 DEF IInv, TableOnDisk, DiskCounted, ClearInv, FigureInv, ReadInv
<1>11. OnInv'
  <2>1. (sweep'.pc \in {"begun", "reading"}) = FALSE
    BY <1>3
  <2>2. table'.on = (sweep'.pc \in {"begun", "reading"})
    BY <1>6, <2>1, Zenon
  <2> QED
    BY <1>3, <2>1, <2>2, Zenon DEF OnInv
<1>12. BatchInv'
  <2>1. \A q \in Refs : \A h : SameFigure(q, h) => SameFigure(q, h)'
    BY <1>1, <1>3, <1>5 DEF SameFigure
  <2> QED
    BY <1>1, <2>1, BatchesKept
<1> QED
  BY <1>8, <1>9, <1>10, <1>11, <1>12 DEF IInv

LEMMA SweepReadsStep ==
    ASSUME IInv, NEW r \in Refs, SweepReads(r)
    PROVE  IInv'
<1> DEFINE expired == image[r] = NONE \/ json[r].created + TTL <= sweep.now
           dead == IF json[r] # NONE /\ expired THEN sweep.dead \cup {r} ELSE sweep.dead
           row == IF image[r] = NONE \/ (json[r] # NONE => json[r].created + TTL <= sweep.now) THEN NONE ELSE json[r]
           live == [sweep.live EXCEPT ![r] = row]
<1>1. /\ sweep.pc = "reading" /\ r \in sweep.unread
      /\ sweep' = [sweep EXCEPT !.unread = sweep.unread \ {r}, !.dead = dead, !.live = live]
      /\ UNCHANGED <<now, table, json, image, store, filled>>
  BY DEF SweepReads
<1>2. dead \in SUBSET Refs /\ sweep.dead \subseteq dead
  BY SweepTypes DEF SweepLocals
<1>3. live \in [Refs -> Meta \cup {NONE}] /\ live[r] = row /\ \A q \in Refs \ {r} : live[q] = sweep.live[q]
  BY SweepTypes, StateTypes DEF SweepLocals
<1>4. row # NONE => json[r] # NONE /\ image[r] # NONE /\ row = json[r]
  OBVIOUS
<1>5. json[r] # NONE => r \in dead \/ row # NONE
  OBVIOUS
<1> HIDE DEF dead, row, live, expired
<1>6. sweep' \in SweepLocals /\ SweepLocals' = SweepLocals
  BY <1>1, <1>2, <1>3, SweepTypes DEF SweepLocals
<1>7. /\ sweep'.pc = "reading" /\ sweep'.live = live /\ sweep'.held = sweep.held
      /\ sweep'.unread = sweep.unread \ {r} /\ sweep'.dead = dead
  BY <1>1, SweepTypes DEF SweepLocals
<1>8. TypeOK'
  BY <1>1, <1>6 DEF IInv, TypeOK, SweepLocals
<1>9. SumsAgree(table)' /\ WithinLimits(table)'
  BY <1>1 DEF IInv, SumsAgree, WithinLimits
<1>10. TableOnDisk' /\ DiskCounted' /\ ClearInv'
  BY <1>1, <1>7 DEF IInv, TableOnDisk, DiskCounted, ClearInv
<1>11. Carry' = Carry
  BY <1>1 DEF Carry
<1>12. OnInv'
  <2>1. table'.on = (sweep'.pc \in {"begun", "reading"})
    BY <1>1, <1>7 DEF IInv, OnInv
  <2>2. \A q \in table'.dropped : json'[q] # NONE => q \in Carry'
    BY <1>1, <1>11 DEF IInv, OnInv
  <2>3. sweep'.pc = "reading"
    BY <1>7
  <2> QED
    BY <2>1, <2>2, <2>3, Zenon DEF OnInv
<1>13. ReadInv'
  <2>1. ASSUME NEW q \in Refs, live[q] # NONE, q \notin table.dropped \cup Carry
        PROVE  json[q] = live[q] /\ image[q] # NONE
    <3>1. CASE q = r
      BY <1>3, <1>4, <2>1, <3>1
    <3>2. CASE q # r
      <4>1. live[q] = sweep.live[q]
        BY <1>3, <3>2
      <4> QED
        BY <1>1, <2>1, <4>1 DEF IInv, ReadInv
    <3> QED
      BY <3>1, <3>2
  <2>2. ASSUME NEW q \in Refs, json[q] # NONE
        PROVE  q \in (sweep.unread \ {r}) \cup sweep.held \cup dead \/ Rows'[q] # NONE
    <3>1. Rows'[q] = IF q \in Carry THEN table.meta[q] ELSE IF q \in table.dropped THEN NONE ELSE live[q]
      BY <1>1, <1>7, <1>11 DEF Rows
    <3>2. CASE q = r
      <4>1. r \in Carry => table.meta[r] # NONE
        BY DEF Carry
      <4>2. r \in table.dropped => r \in Carry
        BY <1>1, <2>2, <3>2 DEF IInv, OnInv
      <4> QED
        BY <1>3, <1>5, <2>2, <3>1, <3>2, <4>1, <4>2
    <3>3. CASE q # r
      <4>1. Rows'[q] = Rows[q]
        BY <1>3, <3>1, <3>3 DEF Rows
      <4>2. q \in sweep.unread \cup sweep.held \cup sweep.dead \/ Rows[q] # NONE
        BY <1>1, <2>2 DEF IInv, ReadInv
      <4> QED
        BY <1>2, <3>3, <4>1, <4>2
    <3> QED
      BY <3>2, <3>3
  <2> QED
    BY <1>1, <1>7, <1>11, <2>1, <2>2 DEF ReadInv
<1>14. FigureInv'
  <2> SUFFICES ASSUME NEW q \in Refs, json[q] # NONE, live[q] # NONE
               PROVE  json[q].fig = live[q].fig
    BY <1>1, <1>7 DEF FigureInv
  <2> QED
    BY <1>3, <1>4 DEF IInv, FigureInv
<1>15. BatchInv'
  <2>1. ASSUME NEW q \in Refs, NEW h, SameFigure(q, h)
        PROVE  SameFigure(q, h)'
    <3>1. live[q] # NONE => live[q].fig = h
      BY <1>3, <1>4, <2>1 DEF SameFigure
    <3> QED
      BY <1>1, <1>7, <2>1, <3>1 DEF SameFigure
  <2> QED
    BY <1>1, <2>1, BatchesKept
<1> QED
  BY <1>8, <1>9, <1>10, <1>12, <1>13, <1>14, <1>15 DEF IInv

LEMMA SweepHoldsStep ==
    ASSUME IInv, NEW r \in Refs, SweepHolds(r)
    PROVE  IInv'
<1>1. /\ sweep.pc = "reading" /\ r \in sweep.unread
      /\ sweep' = [sweep EXCEPT !.unread = sweep.unread \ {r}, !.held = sweep.held \cup {r}]
      /\ UNCHANGED <<now, table, json, image, store, filled>>
  BY DEF SweepHolds
<1>2. sweep' \in SweepLocals /\ SweepLocals' = SweepLocals
  BY <1>1, SweepTypes DEF SweepLocals
<1>3. /\ sweep'.pc = "reading" /\ sweep'.live = sweep.live /\ sweep'.held = sweep.held \cup {r}
      /\ sweep'.unread = sweep.unread \ {r} /\ sweep'.dead = sweep.dead
  BY <1>1, SweepTypes DEF SweepLocals
<1>4. TypeOK'
  BY <1>1, <1>2 DEF IInv, TypeOK, SweepLocals
<1>5. SumsAgree(table)' /\ WithinLimits(table)'
  BY <1>1 DEF IInv, SumsAgree, WithinLimits
<1>6. TableOnDisk' /\ DiskCounted' /\ ClearInv' /\ FigureInv'
  BY <1>1, <1>3 DEF IInv, TableOnDisk, DiskCounted, ClearInv, FigureInv
<1>7. Carry' = Carry /\ Rows' = Rows
  BY <1>1, <1>3 DEF Carry, Rows
<1>8. OnInv'
  <2>1. table'.on = (sweep'.pc \in {"begun", "reading"})
    BY <1>1, <1>3 DEF IInv, OnInv
  <2>2. \A q \in table'.dropped : json'[q] # NONE => q \in Carry'
    BY <1>1, <1>7 DEF IInv, OnInv
  <2>3. sweep'.pc = "reading"
    BY <1>3
  <2> QED
    BY <2>1, <2>2, <2>3, Zenon DEF OnInv
<1>9. ReadInv'
  BY <1>1, <1>3, <1>7 DEF IInv, ReadInv
<1>10. BatchInv'
  <2>1. \A q \in Refs : \A h : SameFigure(q, h) => SameFigure(q, h)'
    BY <1>1, <1>3 DEF SameFigure
  <2> QED
    BY <1>1, <2>1, BatchesKept
<1> QED
  BY <1>4, <1>5, <1>6, <1>8, <1>9, <1>10 DEF IInv

LEMMA SweepUnlinksStep ==
    ASSUME IInv, NEW r \in Refs, SweepUnlinks(r)
    PROVE  IInv'
<1>1. /\ sweep.pc = "clearing" /\ r \in sweep.dead
      /\ sweep' = [sweep EXCEPT !.dead = sweep.dead \ {r}]
      /\ json' = [json EXCEPT ![r] = NONE] /\ image' = [image EXCEPT ![r] = NONE]
      /\ UNCHANGED <<now, table, store, filled>>
  BY DEF SweepUnlinks
<1>2. sweep' \in SweepLocals /\ SweepLocals' = SweepLocals
  BY <1>1, SweepTypes DEF SweepLocals
<1>3. /\ sweep'.pc = "clearing" /\ sweep'.live = sweep.live /\ sweep'.held = sweep.held /\ sweep'.now = sweep.now
      /\ sweep'.dead = sweep.dead \ {r} /\ sweep'.spared = sweep.spared
  BY <1>1, SweepTypes DEF SweepLocals
<1>4. /\ json'[r] = NONE /\ image'[r] = NONE
      /\ \A q \in Refs \ {r} : json'[q] = json[q] /\ image'[q] = image[q]
  BY <1>1, StateTypes
<1>5. r \notin Kept(table)
  BY <1>1 DEF IInv, ClearInv
<1>6. TypeOK'
  BY <1>1, <1>2 DEF IInv, TypeOK, SweepLocals
<1>7. SumsAgree(table)' /\ WithinLimits(table)'
  BY <1>1 DEF IInv, SumsAgree, WithinLimits
<1>8. TableOnDisk' /\ DiskCounted'
  BY <1>1, <1>3, <1>4, <1>5 DEF IInv, TableOnDisk, DiskCounted, Kept
<1>9. ClearInv'
  BY <1>1, <1>3, <1>4, <1>5 DEF IInv, ClearInv, Kept
<1>10. FigureInv' /\ ReadInv'
  BY <1>3, <1>4 DEF IInv, FigureInv, ReadInv
<1>11. OnInv'
  <2>1. table'.on = (sweep'.pc \in {"begun", "reading"})
    BY <1>1, <1>3 DEF IInv, OnInv
  <2>2. \A q \in Refs : sweep'.live[q] = NONE
    BY <1>1, <1>3 DEF IInv, OnInv
  <2>3. sweep'.pc \notin {"begun", "reading"}
    BY <1>3
  <2> QED
    BY <2>1, <2>2, <2>3, Zenon DEF OnInv
<1>12. BatchInv'
  <2>1. \A q \in Refs : \A h : SameFigure(q, h) => SameFigure(q, h)'
    BY <1>1, <1>3, <1>4 DEF SameFigure
  <2> QED
    BY <1>1, <2>1, BatchesKept
<1> QED
  BY <1>6, <1>7, <1>8, <1>9, <1>10, <1>11, <1>12 DEF IInv

LEMMA SweepEndsStep ==
    ASSUME IInv, SweepEnds
    PROVE  IInv'
<1>1. /\ sweep.pc = "clearing" /\ sweep.dead = {} /\ sweep' = [NoSweep EXCEPT !.held = sweep.held]
      /\ image' = [r \in Refs |-> IF r \notin sweep.spared /\ image[r] # NONE /\ sweep.now > image[r] + Hour
                                  THEN NONE ELSE image[r]]
      /\ UNCHANGED <<now, table, json, store, filled>>
  BY DEF SweepEnds
<1>2. sweep' \in SweepLocals /\ SweepLocals' = SweepLocals
  BY <1>1, SweepTypes DEF SweepLocals, NoSweep
<1>3. sweep'.pc = "idle" /\ sweep'.held = sweep.held /\ \A r \in Refs : sweep'.live[r] = NONE
  BY <1>1 DEF NoSweep
<1>4. image' \in [Refs -> 0 .. MaxNow \cup {NONE}]
  BY <1>1, StateTypes
<1>5. ASSUME NEW r \in Kept(table)
      PROVE  image'[r] = image[r]
  <2>1. r \in Refs /\ (r \in sweep.spared \/ image[r] >= sweep.now) /\ image[r] # NONE
    BY <1>1 DEF IInv, ClearInv, Kept, TableOnDisk
  <2>2. image[r] \in Nat /\ sweep.now \in Nat /\ Hour \in Nat
    BY <2>1, StateTypes, SweepTypes, FigAssumption DEF SweepLocals
  <2>3. ~ (r \notin sweep.spared /\ image[r] # NONE /\ sweep.now > image[r] + Hour)
    BY <2>1, <2>2
  <2> QED
    BY <1>1, <2>1, <2>3
<1>6. TypeOK'
  BY <1>1, <1>2, <1>4 DEF IInv, TypeOK, SweepLocals
<1>7. SumsAgree(table)' /\ WithinLimits(table)'
  BY <1>1 DEF IInv, SumsAgree, WithinLimits
<1>8. TableOnDisk'
  BY <1>1, <1>5 DEF IInv, TableOnDisk, Kept
<1>9. DiskCounted' /\ ClearInv' /\ FigureInv' /\ ReadInv'
  BY <1>1, <1>3 DEF IInv, DiskCounted, ClearInv, FigureInv, ReadInv
<1>10. OnInv'
  <2>1. table'.on = table.on /\ table.on = (sweep.pc \in {"begun", "reading"})
    BY <1>1 DEF IInv, OnInv
  <2>2. (sweep.pc \in {"begun", "reading"}) = FALSE /\ (sweep'.pc \in {"begun", "reading"}) = FALSE
    BY <1>1, <1>3
  <2> QED
    BY <1>3, <2>1, <2>2, Zenon DEF OnInv
<1>11. BatchInv'
  <2>1. \A q \in Refs : \A h : SameFigure(q, h) => SameFigure(q, h)'
    BY <1>1, <1>3 DEF SameFigure
  <2> QED
    BY <1>1, <2>1, BatchesKept
<1> QED
  BY <1>6, <1>7, <1>8, <1>9, <1>10, <1>11 DEF IInv

(* What the sweep has gathered is on the disk, and nothing readable on the *)
(* disk is left out.                                                       *)
LEMMA Gathered ==
    ASSUME IInv, sweep.pc = "reading", sweep.unread = {}
    PROVE  /\ Rows \in [Refs -> Meta \cup {NONE}] /\ Carry \in SUBSET Refs
           /\ \A q \in Refs : Rows[q] # NONE => /\ json[q] = Rows[q] /\ image[q] # NONE
                                                /\ Rows[q] \in {table.meta[q], sweep.live[q]}
           /\ \A q \in Refs : json[q] # NONE => q \in sweep.held \cup sweep.dead \/ Rows[q] # NONE
<1>1. Carry \in SUBSET Refs /\ \A q \in Carry : table.meta[q] # NONE
  BY StateTypes DEF Carry, Tabled
<1>2. table.meta \in [Refs -> Meta \cup {NONE}] /\ sweep.live \in [Refs -> Meta \cup {NONE}]
  BY StateTypes, SweepTypes DEF Tabled, SweepLocals
<1>3. \A q \in Refs : Rows[q] = IF q \in Carry THEN table.meta[q]
                                ELSE IF q \in table.dropped THEN NONE ELSE sweep.live[q]
  BY DEF Rows
<1>4. Rows \in [Refs -> Meta \cup {NONE}]
  <2>1. \A q \in Refs : Rows[q] \in Meta \cup {NONE}
    BY <1>2, <1>3
  <2> QED
    BY <2>1 DEF Rows
<1>5. ASSUME NEW q \in Refs, Rows[q] # NONE
      PROVE  json[q] = Rows[q] /\ image[q] # NONE /\ Rows[q] \in {table.meta[q], sweep.live[q]}
  <2>1. CASE q \in Carry
    BY <1>1, <1>3, <2>1 DEF IInv, TableOnDisk, Kept
  <2>2. CASE q \notin Carry
    <3>1. q \notin table.dropped /\ Rows[q] = sweep.live[q]
      BY <1>3, <1>5, <2>2
    <3> QED
      BY <1>5, <2>2, <3>1 DEF IInv, ReadInv
  <2> QED
    BY <2>1, <2>2
<1>6. \A q \in Refs : json[q] # NONE => q \in sweep.held \cup sweep.dead \/ Rows[q] # NONE
  BY DEF IInv, ReadInv
<1> QED
  BY <1>1, <1>4, <1>5, <1>6

LEMMA SweepSwapsStep ==
    ASSUME IInv, SweepSwaps
    PROVE  IInv'
<1>1. sweep.pc = "reading" /\ sweep.unread = {}
  BY DEF SweepSwaps
<1>2. PICK t \in Tables(Rows, Carry) : Enforce(t, {}, json, image)
  BY DEF SweepSwaps
<1>3. /\ sweep' = [NoSweep EXCEPT !.pc = "clearing", !.now = sweep.now, !.held = sweep.held,
                       !.dead = Ended(table'),
                       !.spared = Kept(table') \cup sweep.held \cup {r \in Refs : sweep.live[r] # NONE}]
      /\ filled' = TRUE /\ now' = now /\ store' = store
  BY DEF SweepSwaps
<1> DEFINE gone == Evicted(t, {})
<1>4. /\ table' = Forget(t, gone)
      /\ json' = [r \in Refs |-> IF r \in gone THEN NONE ELSE json[r]]
      /\ image' = [r \in Refs |-> IF r \in gone THEN NONE ELSE image[r]]
  BY <1>2 DEF Enforce
<1>5. /\ Rows \in [Refs -> Meta \cup {NONE}] /\ Carry \in SUBSET Refs
      /\ \A q \in Refs : Rows[q] # NONE => /\ json[q] = Rows[q] /\ image[q] # NONE
                                           /\ Rows[q] \in {table.meta[q], sweep.live[q]}
      /\ \A q \in Refs : json[q] # NONE => q \in sweep.held \cup sweep.dead \/ Rows[q] # NONE
  BY <1>1, Gathered
<1>6. t \in Tabled /\ t.meta = Rows /\ t.on = FALSE /\ SumsAgree(t)
  <2>1. Rows \in [Refs -> Meta \cup {NONE}] /\ Carry \in SUBSET Refs /\ t \in Tables(Rows, Carry)
    BY <1>5
  <2> QED
    BY <2>1, SweptTable, Zenon
<1>7. gone \in SUBSET Kept(t) /\ gone \in SUBSET Refs
  <2>1. {} \in SUBSET Refs
    OBVIOUS
  <2>2. gone \subseteq Kept(t) \ {}
    BY <1>6, <2>1, EvictedKept
  <2> QED
    BY <2>2 DEF Kept
<1>8. WithinLimits(Forget(t, gone))
  <2>1. \A o \in Owners : /\ DiskOf(t, KeptOf(t, o) \cap {}) <= OwnerQuota
                          /\ Cardinality(KeptOf(t, o) \cap {}) <= OwnerMax
    <3>1. DiskOf(t, {}) = 0 /\ Cardinality({}) = 0
      BY DiskEmpty, FS_EmptySet
    <3>2. \A o \in Owners : KeptOf(t, o) \cap {} = {}
      OBVIOUS
    <3> QED
      BY <3>1, <3>2, FigAssumption
  <2>2. DiskOf(t, Kept(t) \cap {}) <= TotalCap
    <3>1. DiskOf(t, {}) = 0 /\ Kept(t) \cap {} = {}
      BY DiskEmpty
    <3> QED
      BY <3>1, FigAssumption
  <2>3. {} \in SUBSET Refs
    OBVIOUS
  <2> QED
    BY <1>6, <2>1, <2>2, <2>3, EvictedFits
<1> HIDE DEF gone
<1>9. /\ table' \in Tabled /\ Kept(table') = Kept(t) \ gone
      /\ \A q \in gone : table'.meta[q] = NONE
      /\ \A q \in Refs \ gone : table'.meta[q] = Rows[q]
  BY <1>4, <1>6, <1>7, Enforced
<1>10. /\ json' \in [Refs -> Meta \cup {NONE}] /\ image' \in [Refs -> 0 .. MaxNow \cup {NONE}]
       /\ \A q \in gone : json'[q] = NONE /\ image'[q] = NONE
       /\ \A q \in Refs \ gone : json'[q] = json[q] /\ image'[q] = image[q]
  BY <1>4, <1>7, StateTypes
<1>11. /\ sweep'.pc = "clearing" /\ sweep'.now = sweep.now /\ sweep'.held = sweep.held
       /\ sweep'.dead = sweep.dead \ Kept(table') /\ Kept(table') \subseteq sweep'.spared
       /\ \A q \in Refs : sweep'.live[q] = NONE
  BY <1>3 DEF NoSweep, Ended
<1>12. sweep' \in SweepLocals /\ SweepLocals' = SweepLocals
  <2> DEFINE dead == Ended(table')
             spared == Kept(table') \cup sweep.held \cup {r \in Refs : sweep.live[r] # NONE}
  <2>1. dead \in SUBSET Refs /\ spared \in SUBSET Refs
    BY SweepTypes DEF Ended, Kept, SweepLocals
  <2>2. sweep' = [NoSweep EXCEPT !.pc = "clearing", !.now = sweep.now, !.held = sweep.held,
                     !.dead = dead, !.spared = spared]
    BY <1>3
  <2>3. sweep.now \in 0 .. now /\ sweep.held \in SUBSET Refs
    BY SweepTypes DEF SweepLocals
  <2> HIDE DEF dead, spared
  <2>4. [NoSweep EXCEPT !.pc = "clearing", !.now = sweep.now, !.held = sweep.held,
            !.dead = dead, !.spared = spared] \in SweepLocals
    BY <2>1, <2>3 DEF SweepLocals, NoSweep
  <2>5. SweepLocals' = SweepLocals
    BY <1>3 DEF SweepLocals
  <2> QED
    BY <2>2, <2>4, <2>5
<1>13. TypeOK'
  <2>1. filled' \in BOOLEAN
    BY <1>3, Zenon
  <2>2. now' \in 0 .. MaxNow /\ store' \in [Stores -> [owner : Owners \cup {NONE}, now : 0 .. now', batch : SUBSET Refs, disk : Nat]]
    BY <1>3, StateTypes, SweepTypes
  <2> QED
    BY <1>9, <1>10, <1>12, <2>1, <2>2 DEF TypeOK, SweepLocals
<1>14. SumsAgree(table)'
  <2>1. SumsAgree(Forget(t, gone))
    BY <1>6, <1>7, ForgetAgrees
  <2>2. SumsAgree(table')
    BY <1>4, <2>1
  <2> QED
    BY <2>2 DEF SumsAgree
<1>15. WithinLimits(table)'
  <2>1. WithinLimits(table')
    BY <1>4, <1>8
  <2> QED
    BY <2>1 DEF WithinLimits
<1>16. TableOnDisk'
  <2> SUFFICES ASSUME NEW q \in Refs, table'.meta[q] # NONE
               PROVE  json'[q] = table'.meta[q] /\ image'[q] # NONE
    BY DEF TableOnDisk, Kept
  <2>1. q \in Refs \ gone /\ Rows[q] # NONE
    BY <1>9
  <2> QED
    BY <1>5, <1>9, <1>10, <2>1
<1>17. DiskCounted' /\ FigureInv' /\ ReadInv'
  BY <1>11 DEF DiskCounted, FigureInv, ReadInv
<1>18. OnInv'
  <2>1. table'.on = FALSE
    BY <1>4, <1>6, <1>7, EnforcedNotes
  <2>2. (sweep'.pc \in {"begun", "reading"}) = FALSE
    BY <1>11
  <2>3. table'.on = (sweep'.pc \in {"begun", "reading"})
    BY <2>1, <2>2, Zenon
  <2> QED
    BY <1>11, <2>2, <2>3, Zenon DEF OnInv
<1>19. ClearInv'
  <2>1. sweep'.dead \cap Kept(table') = {}
    BY <1>11
  <2>2. \A q \in Kept(table') : q \in sweep'.spared
    BY <1>11
  <2>3. ASSUME NEW q \in Refs \ (sweep'.held \cup sweep'.dead), json'[q] # NONE
        PROVE  table'.meta[q] # NONE
    <3>1. q \in Refs \ gone /\ json[q] # NONE
      BY <1>10, <2>3
    <3>2. q \in sweep.dead \/ Rows[q] # NONE
      BY <1>5, <1>11, <2>3, <3>1
    <3>3. q \in sweep.dead => q \in Kept(table')
      BY <1>11, <2>3
    <3> QED
      BY <1>9, <3>1, <3>2, <3>3 DEF Kept
  <2> QED
    BY <2>1, <2>2, <2>3 DEF ClearInv, Kept
<1>20. BatchInv'
  <2>1. ASSUME NEW q \in Refs, NEW h, SameFigure(q, h)
        PROVE  SameFigure(q, h)'
    <3>1. table'.meta[q] # NONE => table'.meta[q].fig = h
      BY <1>5, <1>9, <2>1 DEF SameFigure
    <3> QED
      BY <1>10, <1>11, <2>1, <3>1 DEF SameFigure
  <2> QED
    BY <1>3, <2>1, BatchesKept
<1> QED
  BY <1>13, <1>14, <1>15, <1>16, <1>17, <1>18, <1>19, <1>20 DEF IInv

LEMMA DiesStep ==
    ASSUME IInv, Dies
    PROVE  IInv'
<1>1. /\ table' = NoTable /\ store' = [s \in Stores |-> NoStore] /\ sweep' = NoSweep /\ filled' = FALSE
      /\ now' = now
  BY DEF Dies, Restart
<1>2. json' = json /\ image' \in [Refs -> 0 .. MaxNow \cup {NONE}]
  <2>1. CASE UNCHANGED <<json, image>>
    BY <2>1, StateTypes
  <2>2. CASE \E s \in Stores, f \in Figures, r \in Refs : image' = [image EXCEPT ![r] = now] /\ UNCHANGED json
    BY <2>2, StateTypes
  <2>3. CASE \E r \in Kept(table) : image' = [image EXCEPT ![r] = NONE] /\ UNCHANGED json
    BY <2>3, StateTypes DEF Kept
  <2> QED
    BY <2>1, <2>2, <2>3 DEF Dies
<1>3. /\ table' \in Tabled /\ Kept(table') = {} /\ table'.on = FALSE
      /\ \A r \in Refs : table'.meta[r] = NONE
      /\ SumsAgree(table') /\ WithinLimits(table')
  BY <1>1, EmptyTable
<1>4. sweep'.pc = "idle" /\ \A r \in Refs : sweep'.live[r] = NONE
  BY <1>1 DEF NoSweep
<1>5. \A x \in Stores : store'[x].batch = {} /\ store'[x].disk = 0
  BY <1>1 DEF NoStore
<1>6. TypeOK'
  <2>1. sweep' \in SweepLocals /\ SweepLocals' = SweepLocals
    BY <1>1, SweepTypes DEF SweepLocals, NoSweep
  <2>2. filled' \in BOOLEAN
    BY <1>1, Zenon
  <2>3. store' \in [Stores -> [owner : Owners \cup {NONE}, now : 0 .. now', batch : SUBSET Refs, disk : Nat]]
    BY <1>1, SweepTypes DEF NoStore
  <2>4. now' \in 0 .. MaxNow /\ json' \in [Refs -> Meta \cup {NONE}]
    BY <1>1, <1>2, StateTypes
  <2> QED
    BY <1>2, <1>3, <2>1, <2>2, <2>3, <2>4 DEF TypeOK, SweepLocals
<1>7. SumsAgree(table)' /\ WithinLimits(table)'
  BY <1>3 DEF SumsAgree, WithinLimits
<1>8. TableOnDisk' /\ DiskCounted' /\ FigureInv' /\ ReadInv' /\ ClearInv'
  BY <1>1, <1>3, <1>4 DEF TableOnDisk, DiskCounted, FigureInv, ReadInv, ClearInv
<1>9. OnInv'
  <2>1. (sweep'.pc \in {"begun", "reading"}) = FALSE
    BY <1>4
  <2>2. table'.on = (sweep'.pc \in {"begun", "reading"})
    BY <1>3, <2>1, Zenon
  <2> QED
    BY <1>4, <2>1, <2>2, Zenon DEF OnInv
<1>10. BatchInv'
  <2>1. \A q \in Refs : \A h : SameFigure(q, h) => SameFigure(q, h)'
    BY <1>2, <1>3, <1>4 DEF SameFigure
  <2> QED
    BY <1>5, <2>1, BatchesKept
<1> QED
  BY <1>6, <1>7, <1>8, <1>9, <1>10 DEF IInv

-----------------------------------------------------------------------------
(* The theorems                                                            *)

LEMMA NextInv ==
    ASSUME IInv, [Next]_vars
    PROVE  IInv'
<1>1. ASSUME NEW s \in Stores, StoreStep(s)
      PROVE  IInv'
  <2>1. CASE \E o \in Owners : StoreBegins(s, o)
    BY <2>1, StoreBeginsStep
  <2>2. ASSUME NEW f \in Figures, Reuse(s, f) \/ Renew(s, f) \/ Put(s, f)
        PROVE  IInv'
    <3>1. PICK r \in Refs : \E t, files, images :
             Holds(r, f, t, files, images) /\ Room(s, f) /\ Batched(s, r, f, t, files, images)
      BY <2>2, ReuseStep, RenewStep, PutStep
    <3>2. PICK t, files, images :
             Holds(r, f, t, files, images) /\ Room(s, f) /\ Batched(s, r, f, t, files, images)
      BY <3>1
    <3> QED
      BY <3>2, BatchedStep
  <2>3. CASE StoreReturns(s)
    BY <2>3, StoreReturnsStep
  <2> QED
    BY <1>1, <2>1, <2>2, <2>3 DEF StoreStep
<1>2. CASE SweepStep
  BY <1>2, SweepBeginsStep, SweepListsStep, SweepFailsStep, SweepSwapsStep, SweepEndsStep,
     SweepReadsStep, SweepHoldsStep, SweepUnlinksStep DEF SweepStep
<1>3. CASE Tick
  BY <1>3, TickStep
<1>4. CASE Dies
  BY <1>4, DiesStep
<1>5. CASE UNCHANGED vars
  BY <1>5, StutterStep
<1> QED
  BY <1>1, <1>2, <1>3, <1>4, <1>5 DEF Next

(* The inductive invariant holds throughout.                               *)
THEOREM Invariant == Spec => []IInv
<1>1. Init => IInv
  BY InitInv
<1>2. IInv /\ [Next]_vars => IInv'
  BY NextInv
<1> QED
  BY <1>1, <1>2, PTL DEF Spec

(* The sums are those of the figures in the table, and no limit is         *)
(* exceeded whenever the lock is free, however figures are stored, used    *)
(* again, evicted and swept (_fig_enforce, _fig_add, _fig_forget).         *)
THEOREM Limits == Spec => []LimitsHold
<1>1. IInv => LimitsHold
  BY DEF IInv, LimitsHold
<1> QED
  BY <1>1, Invariant, PTL

(* A figure of the table can be fetched, and once a sweep has filled the   *)
(* table no figure of the disk escapes the limits, though the sweep reads  *)
(* the disk without the lock (_fig_sweep_sync).                            *)
THEOREM DiskAgrees == Spec => []TableAgreesWithDisk
<1>1. IInv => TableAgreesWithDisk
  BY DEF IInv, TableAgreesWithDisk
<1> QED
  BY <1>1, Invariant, PTL
(* What OwnBatchStays says of one step.                                    *)
BatchStays ==
    \A s \in Stores : store'[s].batch # store[s].batch =>
       \A r \in store'[s].batch :
          r \notin store[s].batch \/ table.meta[r] # NONE => table'.meta[r] # NONE

LEMMA BatchedStays ==
    ASSUME IInv, NEW s \in Stores, NEW r \in Refs, NEW f \in Figures, NEW t, NEW files, NEW images,
           Holds(r, f, t, files, images), Room(s, f), Batched(s, r, f, t, files, images)
    PROVE  BatchStays
<1> DEFINE batch == Grown(s, r)
           gone == Evicted(t, batch)
<1>1. /\ gone \in SUBSET (Kept(t) \ batch) /\ gone \in SUBSET Refs /\ r \in Refs \ gone
      /\ \A q \in Refs \ gone : table'.meta[q] = t.meta[q] /\ json'[q] = files[q] /\ image'[q] = images[q]
      /\ \A q \in Refs \ gone : q # r => /\ table'.meta[q] = table.meta[q]
                                         /\ json'[q] = json[q] /\ image'[q] = image[q]
  BY BatchedPoints
<1>2. batch \in SUBSET Refs /\ batch = store[s].batch \cup {r}
  BY DEF Grown, IInv, TypeOK
<1> HIDE DEF batch, gone
<1>3. store' = [store EXCEPT ![s].batch = batch, ![s].disk = @ + Disk(f)]
  BY DEF Batched, batch, Grown
<1>4. store'[s].batch = batch /\ \A x \in Stores : x # s => store'[x] = store[x]
  BY <1>3 DEF IInv, TypeOK
<1>5. t.meta[r] # NONE
  BY DEF Holds
<1>6. \A q \in batch : q \notin store[s].batch \/ table.meta[q] # NONE => table'.meta[q] # NONE
  BY <1>1, <1>2, <1>5
<1> QED
  BY <1>4, <1>6 DEF BatchStays

LEMMA StepStays ==
    ASSUME IInv, [Next]_vars
    PROVE  BatchStays
<1>1. ASSUME store' = store
      PROVE  BatchStays
  BY <1>1 DEF BatchStays
<1>2. ASSUME NEW s \in Stores, StoreStep(s)
      PROVE  BatchStays
  <2>1. ASSUME NEW o \in Owners, StoreBegins(s, o)
        PROVE  BatchStays
    <3>1. \A x \in Stores : store'[x].batch = store[x].batch
      BY <2>1 DEF StoreBegins, NoStore, IInv, TypeOK
    <3> QED
      BY <3>1 DEF BatchStays
  <2>2. ASSUME NEW f \in Figures, Reuse(s, f) \/ Renew(s, f) \/ Put(s, f)
        PROVE  BatchStays
    <3>1. PICK r \in Refs : \E t, files, images :
             Holds(r, f, t, files, images) /\ Room(s, f) /\ Batched(s, r, f, t, files, images)
      BY <2>2, ReuseStep, RenewStep, PutStep
    <3>2. PICK t, files, images :
             Holds(r, f, t, files, images) /\ Room(s, f) /\ Batched(s, r, f, t, files, images)
      BY <3>1
    <3> QED
      BY <3>2, BatchedStays
  <2>3. CASE StoreReturns(s)
    <3>1. \A x \in Stores : store'[x].batch = store[x].batch \/ store'[x].batch = {}
      BY <2>3 DEF StoreReturns, NoStore, IInv, TypeOK
    <3> QED
      BY <3>1 DEF BatchStays
  <2> QED
    BY <1>2, <2>1, <2>2, <2>3 DEF StoreStep
<1>3. CASE SweepStep
  <2>1. store' = store
    BY <1>3 DEF SweepStep, SweepBegins, SweepLists, SweepFails, SweepSwaps, SweepEnds,
                SweepReads, SweepHolds, SweepUnlinks
  <2> QED
    BY <1>1, <2>1
<1>4. CASE Tick
  BY <1>1, <1>4 DEF Tick
<1>5. CASE Dies
  <2>1. \A x \in Stores : store'[x].batch = {}
    BY <1>5 DEF Dies, Restart, NoStore
  <2> QED
    BY <2>1 DEF BatchStays
<1>6. CASE UNCHANGED vars
  BY <1>1, <1>6 DEF vars
<1> QED
  BY <1>2, <1>3, <1>4, <1>5, <1>6 DEF Next

(* A store never evicts a figure of the result that it is storing, however *)
(* old a figure that it uses again (the keep of _fig_enforce).             *)
THEOREM OwnStays == Spec => OwnBatchStays
<1>1. IInv /\ [Next]_vars => [BatchStays]_vars
  BY StepStays
<1> QED
  BY <1>1, Invariant, PTL DEF Spec, OwnBatchStays, BatchStays

=============================================================================
