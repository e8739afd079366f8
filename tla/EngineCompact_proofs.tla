------------------------- MODULE EngineCompact_proofs -------------------------
(***************************************************************************)
(* Theorems of Engine about compact caches, cartridges and what is decoded *)
(* over them.                                                              *)
(***************************************************************************)
EXTENDS Engine_proofs

-----------------------------------------------------------------------------
(* What a compact cache is made of: every head a row of slots              *)

CompactFact(c) ==
    /\ c = CompactCache(c.heads, c.len, c.toks, c.method)
    /\ c.heads = [h \in Heads |-> c.heads[h]]
    /\ \A h \in Heads : \E n : IsRow(c.heads[h], n)
    /\ c.len \in Nat

LEMMA CompactFields ==
    ASSUME NEW hs, NEW n, NEW toks, NEW m, NEW c, c = CompactCache(hs, n, toks, m)
    PROVE  /\ c.kind = "compact" /\ c.heads = hs /\ c.len = n /\ c.toks = toks /\ c.method = m
           /\ c = CompactCache(c.heads, c.len, c.toks, c.method)
  BY DEF CompactCache

LEMMA CompactFrom ==
    ASSUME NEW hs, hs = [h \in Heads |-> hs[h]], \A h \in Heads : \E k : IsRow(hs[h], k),
           NEW n \in Nat, NEW toks, NEW m, NEW c, c = CompactCache(hs, n, toks, m)
    PROVE  CompactFact(c)
<1>1. /\ c.heads = hs /\ c.len = n
      /\ c = CompactCache(c.heads, c.len, c.toks, c.method)
  BY CompactFields
<1> QED BY <1>1 DEF CompactFact

(* A selection: each head keeps a set of the tokens *)
Chosen(c, o, T, sel, r) ==
    /\ c.len = T
    /\ \A h \in Heads : Kept(c.heads[h], o, T, sel[h], sel[IF r THEN FirstHead ELSE h])

(* its sets are within the budget *)
WithinBudget(c, b, T, t, sel) ==
    /\ \A h \in Heads : Min({b.min, T}) <= Cardinality(sel[h])
    /\ \A l \in Layers : LayerBudget(c, l) = t * Cardinality(KVHeads)

(* and hold the recent tokens where the method says so *)
KeepsRecent(m, T, t, sel) ==
    m \in {"heavy_hitter", "snapkv"} =>
        \E f \in RecentFracs : \A h \in Heads : T - Share(f, t) + 1 .. T \subseteq sel[h]

OfSize(allowed, T, t) == \A h \in Heads : \A S \in allowed[h] : S \subseteq 1 .. T /\ Cardinality(S) = t

Selection(x, c, T, m, t, allowed) ==
    /\ CompactFact(x) /\ x.method = m
    /\ \E sel : /\ Chosen(x, c, T, sel, FALSE)
                /\ \A h \in Heads : sel[h] \in allowed[h] /\ Cardinality(sel[h]) = t
    /\ \A l \in Layers : LayerBudget(x, l) = t * Cardinality(KVHeads)

LEMMA SelectedIs ==
    ASSUME NEW c, NEW T, Shaped(c, T, 0), NEW m, NEW allowed, NEW t \in Nat, OfSize(allowed, T, t),
           NEW x \in Selected(c, m, allowed)
    PROVE  Selection(x, c, T, m, t, allowed)
<1>1. PICK sel : /\ x = CompactCache(MakeLayers(c, sel), LogicalLen(c), << >>, m)
                 /\ \A h \in Heads : sel[h] \in allowed[h]
  BY DEF Selected
<1>2. PICK hs : hs = MakeLayers(c, sel)
  OBVIOUS
<1>3. x = CompactCache(hs, T, << >>, m)
  BY <1>1, <1>2 DEF Shaped
<1>4. hs = [h \in Heads |-> Keep(c, sel[h], c.cols, "zero")]
  BY <1>2 DEF MakeLayers
<1>5. ASSUME NEW h \in Heads
      PROVE  Kept(hs[h], c, T, sel[h], sel[h]) /\ Cardinality(sel[h]) = t
  <2>1. sel[h] \subseteq 1 .. T /\ Cardinality(sel[h]) = t
    BY <1>1 DEF OfSize
  <2>2. hs[h] = Keep(c, sel[h], c.cols, "zero")
    BY <1>4
  <2>3. Kept(hs[h], c, T, sel[h], sel[h])
    BY <2>1, <2>2, KeepIs
  <2> QED BY <2>1, <2>3
<1>6. \A h \in Heads : IsRow(hs[h], t)
  BY <1>5 DEF Kept
<1>7. x.heads = hs /\ x.len = T /\ x.method = m
  BY <1>3, CompactFields
<1>8. CompactFact(x)
  <2>1. hs = [h \in Heads |-> hs[h]]
    BY <1>4
  <2>2. T \in Nat
    BY DEF Shaped
  <2> QED BY <1>3, <1>6, <2>1, <2>2, CompactFrom
<1>9. Chosen(x, c, T, sel, FALSE)
  BY <1>5, <1>7 DEF Chosen
<1>10. ASSUME NEW l \in Layers PROVE LayerBudget(x, l) = t * Cardinality(KVHeads)
  <2>1. \A k \in KVHeads : Len(x.heads[<<l, k>>]) = t
    BY <1>6, <1>7, LongIsSeq DEF IsRow, Heads
  <2> QED BY <2>1, EvenBudget
<1> QED BY <1>1, <1>5, <1>7, <1>8, <1>9, <1>10 DEF Selection

(* The last r of T tokens *)
Latest(R, r, T) == R = T - r + 1 .. T

LEMMA RecentIs ==
    ASSUME NEW T \in Nat, NEW r \in 0 .. T, NEW R, Latest(R, r, T)
    PROVE  R \subseteq 1 .. T /\ IsFiniteSet(R) /\ Cardinality(R) = r
<1>1. T - r + 1 \in Int /\ T \in Int /\ R = T - r + 1 .. T
  BY DEF Latest
<1>2. IsFiniteSet(R) /\ Cardinality(R) = IF T - r + 1 > T THEN 0 ELSE T - (T - r + 1) + 1
  BY <1>1, FS_Interval
<1>3. Cardinality(R) = r
  BY <1>2
<1> QED BY <1>1, <1>2, <1>3

(* A set and a choice among what is not in it *)
LEMMA DisjointSize ==
    ASSUME NEW A, IsFiniteSet(A), NEW B, IsFiniteSet(B), A \cap B = {}
    PROVE  IsFiniteSet(A \cup B) /\ Cardinality(A \cup B) = Cardinality(A) + Cardinality(B)
<1>1. IsFiniteSet(A \cup B)
      /\ Cardinality(A \cup B) = Cardinality(A) + Cardinality(B) - Cardinality(A \cap B)
  BY FS_Union
<1>2. Cardinality(A \cap B) = 0
  BY FS_EmptySet
<1>3. Cardinality(A) \in Nat /\ Cardinality(B) \in Nat
  BY FS_CardinalityType
<1> QED BY <1>1, <1>2, <1>3

LEMMA TopIs ==
    ASSUME NEW score, NEW T \in Nat, NEW C, C \subseteq 1 .. T, NEW k, NEW S \in TopSets(score, C, k)
    PROVE  S \subseteq C /\ S \subseteq 1 .. T /\ IsFiniteSet(S) /\ Cardinality(S) = k
<1>1. S \subseteq C /\ Cardinality(S) = k
  BY DEF TopSets, kSubset
<1>2. S \subseteq 1 .. T
  BY <1>1
<1> QED BY <1>1, <1>2, SubsetOfTokens

LEMMA TopkIs ==
    ASSUME NEW score, NEW T \in Nat, NEW t \in 1 .. T, NEW recent \in Nat,
           NEW S \in TopkWithRecent(score, t, T, recent)
    PROVE  /\ S \subseteq 1 .. T /\ Cardinality(S) = t
           /\ recent <= t => T - recent + 1 .. T \subseteq S
<1>1. PICK r : r = Min({recent, t, T})
  OBVIOUS
<1>2. r \in 0 .. t /\ (recent <= t => r = recent)
  <2>1. PICK D : D = {recent, t, T}
    OBVIOUS
  <2>2. D \subseteq Nat /\ D # {}
    BY <2>1
  <2>3. Min(D) \in D /\ \A y \in D : Min(D) <= y
    BY <2>2, MinOf
  <2>4. r \in D /\ r <= t /\ r <= recent
    BY <1>1, <2>1, <2>3
  <2>5. recent <= t => r = recent
    <3>1. T >= t
      OBVIOUS
    <3> QED BY <2>1, <2>4, <3>1
  <2> QED BY <2>1, <2>2, <2>4, <2>5
<1>3. PICK U \in TopSets(score, 1 .. T - r, t - r) : S = (T - r + 1 .. T) \cup U
  BY <1>1 DEF TopkWithRecent
<1>4. PICK R : R = T - r + 1 .. T
  OBVIOUS
<1>5. r \in 0 .. T
  BY <1>2
<1>6. R \subseteq 1 .. T /\ IsFiniteSet(R) /\ Cardinality(R) = r
  BY <1>4, <1>5, RecentIs DEF Latest
<1>7. PICK C : C = 1 .. T - r
  OBVIOUS
<1>8. C \subseteq 1 .. T /\ C \cap R = {}
  BY <1>4, <1>5, <1>7
<1>9. U \subseteq C /\ U \subseteq 1 .. T /\ IsFiniteSet(U) /\ Cardinality(U) = t - r
  <2>1. PICK k : k = t - r
    OBVIOUS
  <2>2. U \in TopSets(score, C, k)
    BY <1>3, <1>7, <2>1
  <2>3. U \subseteq C /\ U \subseteq 1 .. T /\ IsFiniteSet(U) /\ Cardinality(U) = k
    BY <1>8, <2>2, TopIs
  <2> QED BY <2>1, <2>3
<1>10. S = R \cup U /\ R \cap U = {}
  BY <1>3, <1>4, <1>8, <1>9
<1>11. Cardinality(S) = r + (t - r)
  BY <1>6, <1>9, <1>10, DisjointSize
<1>12. Cardinality(S) = t
  BY <1>2, <1>11
<1>13. recent <= t => T - recent + 1 .. T \subseteq R
  BY <1>2, <1>4
<1> QED BY <1>6, <1>9, <1>10, <1>12, <1>13

-----------------------------------------------------------------------------
(* The methods that keep as many slots in every head *)

(* the slots a head gets on the average *)
TargetOf(m, b, T) == IF m = "full_kv" THEN T ELSE Min({TargetT(b, T), T})

Selects(c, o, b, T, r) ==
    \E sel : /\ Chosen(c, o, T, sel, r)
             /\ WithinBudget(c, b, T, TargetOf(c.method, b, T), sel)
             /\ KeepsRecent(c.method, T, TargetOf(c.method, b, T), sel)
             /\ r => \A h \in Heads : Cardinality(sel[h]) = Cardinality(sel[FirstHead])

LEMMA EvenlySelected ==
    ASSUME NEW c, NEW T \in Nat \ {0}, Shaped(c, T, 0), NEW b \in Budgets, NEW m, NEW allowed,
           OfSize(allowed, T, TargetOf(m, b, T)),
           m \in {"heavy_hitter", "snapkv"} =>
               \E f \in RecentFracs : \A h \in Heads : \A S \in allowed[h] :
                   T - Share(f, TargetOf(m, b, T)) + 1 .. T \subseteq S,
           NEW x \in Selected(c, m, allowed)
    PROVE  CompactFact(x) /\ x.method = m /\ Selects(x, c, b, T, FALSE)
<1>1. PICK t : t = TargetOf(m, b, T)
  OBVIOUS
<1>2. t \in 1 .. T /\ Min({b.min, T}) <= t
  <2>1. PICK u : u = Min({TargetT(b, T), T})
    OBVIOUS
  <2>2. u \in 1 .. T /\ Min({b.min, T}) <= u /\ Min({b.min, T}) \in 1 .. T
    BY <2>1, TargetIs
  <2>3. t = u \/ t = T
    BY <1>1, <2>1 DEF TargetOf
  <2> QED BY <2>2, <2>3
<1>3. t \in Nat /\ OfSize(allowed, T, t)
  BY <1>1, <1>2
<1>4. /\ CompactFact(x) /\ x.method = m
      /\ \E sel : /\ Chosen(x, c, T, sel, FALSE)
                  /\ \A h \in Heads : sel[h] \in allowed[h] /\ Cardinality(sel[h]) = t
      /\ \A l \in Layers : LayerBudget(x, l) = t * Cardinality(KVHeads)
  <2>1. Selection(x, c, T, m, t, allowed)
    BY <1>3, SelectedIs
  <2> QED BY <2>1 DEF Selection
<1>5. PICK sel : /\ Chosen(x, c, T, sel, FALSE)
                 /\ \A h \in Heads : sel[h] \in allowed[h] /\ Cardinality(sel[h]) = t
  BY <1>4
<1>6. WithinBudget(x, b, T, t, sel)
  BY <1>2, <1>4, <1>5 DEF WithinBudget
<1>7. KeepsRecent(m, T, t, sel)
  BY <1>1, <1>5 DEF KeepsRecent
<1> QED BY <1>1, <1>4, <1>5, <1>6, <1>7 DEF Selects

LEMMA FullIs ==
    ASSUME NEW c, NEW T \in Nat \ {0}, Shaped(c, T, 0), NEW b \in Budgets, NEW x \in FullKV(c)
    PROVE  CompactFact(x) /\ x.method = "full_kv" /\ Selects(x, c, b, T, FALSE)
<1>1. PICK allowed : allowed = [h \in Heads |-> {Indices(c)}]
  OBVIOUS
<1>2. x \in Selected(c, "full_kv", allowed)
  BY <1>1 DEF FullKV
<1>3. PICK D : D = 1 .. T
  OBVIOUS
<1>4. D \subseteq 1 .. T /\ Cardinality(D) = T
  <2>1. 1 \in Int /\ T \in Int /\ ~ (1 > T)
    OBVIOUS
  <2>2. Cardinality(D) = T - 1 + 1
    BY <1>3, <2>1, FS_Interval
  <2> QED BY <1>3, <2>2
<1>5. Indices(c) = D
  BY <1>3 DEF Indices, Shaped
<1>6. OfSize(allowed, T, TargetOf("full_kv", b, T))
  BY <1>1, <1>4, <1>5 DEF OfSize, TargetOf
<1> QED BY <1>2, <1>6, EvenlySelected

LEMMA RecentWindowIs ==
    ASSUME NEW c, NEW T \in Nat \ {0}, Shaped(c, T, 0), NEW b \in Budgets, NEW x \in RecentWindow(c, b)
    PROVE  CompactFact(x) /\ x.method = "recent_window" /\ Selects(x, c, b, T, FALSE)
<1>1. PICK t : t = Min({TargetT(b, T), T})
  OBVIOUS
<1>2. t \in 0 .. T /\ t = TargetOf("recent_window", b, T)
  <2>1. t \in 1 .. T
    BY <1>1, TargetIs
  <2> QED BY <1>1, <2>1 DEF TargetOf
<1>3. PICK R : R = T - t + 1 .. T
  OBVIOUS
<1>4. R \subseteq 1 .. T /\ Cardinality(R) = t
  BY <1>2, <1>3, RecentIs, SMTT(30) DEF Latest
<1>5. PICK allowed : allowed = [h \in Heads |-> {R}]
  OBVIOUS
<1>6. x \in Selected(c, "recent_window", allowed)
  BY <1>1, <1>3, <1>5 DEF RecentWindow, Shaped
<1>7. OfSize(allowed, T, TargetOf("recent_window", b, T))
  BY <1>2, <1>4, <1>5 DEF OfSize
<1> QED BY <1>6, <1>7, EvenlySelected

LEMMA RandomSubsetIs ==
    ASSUME NEW c, NEW T \in Nat \ {0}, Shaped(c, T, 0), NEW b \in Budgets, NEW x \in RandomSubset(c, b)
    PROVE  CompactFact(x) /\ x.method = "random_subset" /\ Selects(x, c, b, T, FALSE)
<1>1. PICK t : t = Min({TargetT(b, T), T})
  OBVIOUS
<1>2. t = TargetOf("random_subset", b, T)
  BY <1>1 DEF TargetOf
<1>3. PICK allowed : allowed = [h \in Heads |-> kSubset(t, 1 .. T)]
  OBVIOUS
<1>4. x \in Selected(c, "random_subset", allowed)
  BY <1>1, <1>3 DEF RandomSubset, Shaped
<1>5. OfSize(allowed, T, TargetOf("random_subset", b, T))
  BY <1>2, <1>3 DEF OfSize, kSubset
<1> QED BY <1>4, <1>5, EvenlySelected

ByMass(allowed, mass, f, t, T) ==
    allowed = [h \in Heads |-> TopkWithRecent(mass[h], t, T, Share(f, t))]

LEMMA ByMassIs ==
    ASSUME NEW c, NEW T \in Nat \ {0}, Shaped(c, T, 0), NEW b \in Budgets, NEW f \in RecentFracs,
           NEW mass, NEW m \in {"heavy_hitter", "snapkv"}, NEW t, t = Min({TargetT(b, T), T}),
           NEW allowed, ByMass(allowed, mass, f, t, T),
           NEW x \in Selected(c, m, allowed)
    PROVE  CompactFact(x) /\ x.method = m /\ Selects(x, c, b, T, FALSE)
<1>1. t \in 1 .. T
  BY TargetIs
<1>2. t = TargetOf(m, b, T)
  BY DEF TargetOf
<1>3. PICK r : r = Share(f, t)
  OBVIOUS
<1>4. r \in Nat /\ r <= t
  <2>1. f[1] \in Nat /\ f[2] \in Nat \ {0} /\ f[1] <= f[2] /\ t \in Nat
    BY <1>1, EngineAssumption
  <2> QED BY <1>3, <2>1, ShareIs
<1>5. ASSUME NEW h \in Heads, NEW S \in allowed[h]
      PROVE  S \subseteq 1 .. T /\ Cardinality(S) = t /\ T - r + 1 .. T \subseteq S
  <2>1. PICK score : score = mass[h]
    OBVIOUS
  <2>2. S \in TopkWithRecent(score, t, T, r)
    BY <1>3, <2>1 DEF ByMass
  <2> QED BY <1>1, <1>4, <2>2, TopkIs
<1>6. OfSize(allowed, T, TargetOf(m, b, T))
  BY <1>2, <1>5 DEF OfSize
<1>7. \E g \in RecentFracs : \A h \in Heads : \A S \in allowed[h] :
          T - Share(g, TargetOf(m, b, T)) + 1 .. T \subseteq S
  BY <1>2, <1>3, <1>5
<1> QED BY <1>6, <1>7, EvenlySelected

(* STILL: every latent stands at a position of the context *)
LEMMA EvenlySpread ==
    ASSUME NEW n \in Nat \ {0}, NEW k \in Nat \ {0}, NEW i \in 1 .. k
    PROVE  Linspace(n, k)[i] \in 0 .. n - 1
<1>1. Linspace(n, k)[i] = IF k = 1 THEN 0 ELSE ((i - 1) * (n - 1)) \div (k - 1)
  BY DEF Linspace
<1>2. CASE k = 1
  BY <1>1, <1>2
<1>3. CASE k # 1
  <2>1. PICK d, a, e : d = k - 1 /\ a = n - 1 /\ e = i - 1
    OBVIOUS
  <2>2. d \in Nat \ {0} /\ a \in Nat /\ e \in 0 .. d
    BY <1>3, <2>1
  <2>3. PICK p : p = e * a
    OBVIOUS
  <2>4. PICK w : w = d * (a + 1)
    OBVIOUS
  <2>5. p \in Nat /\ p < w
    <3>1. PICK j \in Nat : d = e + j
      <4>1. d - e \in Nat /\ d = e + (d - e)
        BY <2>2
      <4> QED BY <4>1
    <3>2. e \in Nat
      BY <2>2
    <3>3. (e + j) * a = e * a + j * a /\ j * a \in Nat
      BY <2>2, <3>2
    <3>4. d * (a + 1) = d * a + d
      BY <2>2
    <3> QED BY <2>2, <2>3, <2>4, <3>1, <3>2, <3>3, <3>4
  <2>6. p \div d \in 0 .. a
    <3>1. PICK m \in Nat : m = a + 1
      BY <2>2
    <3>2. w = d * m
      BY <2>4, <3>1
    <3>3. p \div d \in 0 .. m - 1
      BY <2>2, <2>5, <3>2, SmallQuotient
    <3>4. m - 1 = a
      BY <2>2, <3>1
    <3> QED BY <3>3, <3>4
  <2> QED BY <1>1, <1>3, <2>1, <2>2, <2>3, <2>6
<1> QED BY <1>2, <1>3

(* a row of k slots below position T *)
Below(hd, k, T) == IsRow(hd, k) /\ \A i \in 1 .. k : hd[i].pos \in 0 .. T - 1

LEMMA PerceiveIs ==
    ASSUME NEW c, NEW T \in Nat \ {0}, Shaped(c, T, 0), NEW k \in Nat \ {0}, NEW hd, hd = Perceive(c, k)
    PROVE  Below(hd, k, T)
<1>1. c.positions[1] = 0 /\ LogicalLen(c) = T
  <2>1. 1 \in 1 .. T
    OBVIOUS
  <2>2. c.positions[1] = 0 + 1 - 1
    BY <2>1 DEF Shaped
  <2> QED BY <2>2 DEF Shaped
<1>2. hd = [i \in 1 .. k |-> Slot(0 + Linspace(T, k)[i], <<"latent", i, c.cols>>, <<"latent", i, c.cols>>, "fit")]
  BY <1>1 DEF Perceive
<1>3. Long(hd, k)
  BY <1>2 DEF Long
<1>4. ASSUME NEW i \in 1 .. k PROVE IsSlot(hd[i]) /\ hd[i].pos \in 0 .. T - 1
  <2>1. PICK p, v : p = Linspace(T, k)[i] /\ v = <<"latent", i, c.cols>>
    OBVIOUS
  <2>2. p \in 0 .. T - 1
    BY <2>1, EvenlySpread
  <2>3. hd[i] = Slot(0 + p, v, v, "fit")
    BY <1>2, <2>1
  <2>4. 0 + p = p
    BY <2>2
  <2>5. hd[i] = Slot(p, v, v, "fit")
    BY <2>3, <2>4
  <2> QED BY <2>2, <2>5, SlotFields
<1> QED BY <1>3, <1>4 DEF Below, IsRow

LEMMA StillIs ==
    ASSUME NEW c, NEW T \in Nat \ {0}, Shaped(c, T, 0), NEW b \in Budgets, NEW n \in Nat,
           NEW x, x = Still(c, b, n)
    PROVE  /\ CompactFact(x) /\ x.method = "still" /\ x.len = T
           /\ \E k \in Nat \ {0} : /\ n # NoPerceivers => k = n
                                   /\ \A h \in Heads : x.heads[h] = Perceive(c, k) /\ Below(x.heads[h], k, T)
<1>1. PICK k : k = IF n # NoPerceivers THEN n ELSE Max({1, Min({TargetT(b, T), T})})
  OBVIOUS
<1>2. k \in Nat \ {0} /\ (n # NoPerceivers => k = n)
  <2>1. CASE n # NoPerceivers
    BY <1>1, <2>1 DEF NoPerceivers
  <2>2. CASE ~ (n # NoPerceivers)
    <3>1. PICK t : t = Min({TargetT(b, T), T})
      OBVIOUS
    <3>2. t \in Nat
      <4>1. t \in 1 .. T
        BY <3>1, TargetIs
      <4> QED BY <4>1
    <3>3. Max({1, t}) \in {1, t} /\ 1 <= Max({1, t})
      BY <3>2, MaxOfAny
    <3> QED BY <1>1, <2>2, <3>1, <3>2, <3>3
  <2> QED BY <2>1, <2>2
<1>3. PICK hs : hs = [h \in Heads |-> Perceive(c, k)]
  OBVIOUS
<1>4. x = CompactCache(hs, T, c.toks, "still")
  BY <1>1, <1>3 DEF Still, Shaped
<1>5. \A h \in Heads : hs[h] = Perceive(c, k) /\ Below(hs[h], k, T)
  BY <1>2, <1>3, PerceiveIs
<1>6. CompactFact(x)
  <2>1. hs = [h \in Heads |-> hs[h]]
    BY <1>3
  <2>2. \A h \in Heads : \E j : IsRow(hs[h], j)
    BY <1>5 DEF Below
  <2> QED BY <1>4, <2>1, <2>2, CompactFrom
<1>7. x.heads = hs /\ x.len = T /\ x.method = "still"
  BY <1>4, CompactFields
<1> QED BY <1>2, <1>5, <1>6, <1>7

-----------------------------------------------------------------------------
(* Attention matching: what one head keeps of a share of t slots *)

LEMMA HybridIs ==
    ASSUME NEW imp, NEW mass, NEW T \in Nat, NEW t \in 0 .. T, NEW rf, NEW mf,
           Share(rf, t) \in Nat, Share(mf, t) \in Nat,
           NEW S \in SelectHybrid(imp, mass, t, T, rf, mf)
    PROVE  S \subseteq 1 .. T /\ Cardinality(S) = t
<1>1. PICK r : r = Min({Share(rf, t), t})
  OBVIOUS
<1>2. r \in 0 .. t
  <2>1. t \in Nat
    OBVIOUS
  <2>2. r = IF Share(rf, t) <= t THEN Share(rf, t) ELSE t
    BY <1>1, <2>1, MinOfTwo
  <2> QED BY <2>1, <2>2
<1>3. PICK d : d = t - r
  OBVIOUS
<1>4. d \in Nat
  BY <1>2, <1>3
<1>5. PICK n : n = Min({Share(mf, t), d})
  OBVIOUS
<1>6. n \in 0 .. d
  <2>1. n = IF Share(mf, t) <= d THEN Share(mf, t) ELSE d
    BY <1>4, <1>5, MinOfTwo
  <2> QED BY <1>4, <2>1
<1>7. PICK R : R = T - r + 1 .. T
  OBVIOUS
<1>8. R \subseteq 1 .. T /\ IsFiniteSet(R) /\ Cardinality(R) = r
  <2>1. r \in 0 .. T
    BY <1>2
  <2>2. Latest(R, r, T)
    BY <1>7 DEF Latest
  <2> QED BY <2>1, <2>2, RecentIs
<1>9. PICK M \in TopSets(mass, (1 .. T) \ R, n) :
          \E I \in TopSets(imp, (1 .. T) \ (R \cup M), t - r - Cardinality(M)) : S = R \cup M \cup I
  <2> DEFINE H(r0, n0, R0) ==
          UNION { { R0 \cup M \cup I : I \in TopSets(imp, (1 .. T) \ (R0 \cup M), t - r0 - Cardinality(M)) } :
                    M \in TopSets(mass, (1 .. T) \ R0, n0) }
  <2>1. SelectHybrid(imp, mass, t, T, rf, mf)
          = H(Min({Share(rf, t), t}), Min({Share(mf, t), t - Min({Share(rf, t), t})}),
              T - Min({Share(rf, t), t}) + 1 .. T)
    BY DEF SelectHybrid
  <2>2. S \in H(r, n, R)
    <3> HIDE DEF H
    <3> QED BY <1>1, <1>3, <1>5, <1>7, <2>1
  <2> QED BY <2>2, ZenonT(40)
<1>10. PICK A : A = (1 .. T) \ R
  OBVIOUS
<1>11. M \subseteq A /\ M \subseteq 1 .. T /\ IsFiniteSet(M) /\ Cardinality(M) = n
  <2>1. M \in TopSets(mass, A, n) /\ A \subseteq 1 .. T
    BY <1>9, <1>10
  <2> QED BY <2>1, TopIs, ZenonT(40)
<1>12. PICK B, k : B = (1 .. T) \ (R \cup M) /\ k = t - r - Cardinality(M)
  OBVIOUS
<1>13. PICK I \in TopSets(imp, B, k) : S = R \cup M \cup I
  BY <1>9, <1>12
<1>14. I \subseteq B /\ I \subseteq 1 .. T /\ IsFiniteSet(I) /\ Cardinality(I) = k
  <2>1. B \subseteq 1 .. T
    BY <1>12
  <2> QED BY <1>13, <2>1, TopIs, ZenonT(40)
<1>15. PICK U : U = R \cup M
  OBVIOUS
<1>16. IsFiniteSet(U) /\ Cardinality(U) = r + n
  <2>1. R \cap M = {}
    BY <1>10, <1>11
  <2> QED BY <1>8, <1>11, <1>15, <2>1, DisjointSize
<1>17. S = U \cup I /\ U \cap I = {}
  BY <1>12, <1>13, <1>14, <1>15
<1>18. Cardinality(S) = Cardinality(U) + Cardinality(I)
  BY <1>14, <1>16, <1>17, DisjointSize
<1>19. Cardinality(S) = t
  <2>1. k = t - r - n
    BY <1>11, <1>12
  <2> QED BY <1>2, <1>3, <1>6, <1>14, <1>16, <1>18, <2>1
<1> QED BY <1>8, <1>11, <1>13, <1>14, <1>19

LEMMA SelectKeysIs ==
    ASSUME NEW am \in AMConfigs, ValidConfig(am), NEW imp, NEW mass, NEW T \in Nat, NEW t \in 1 .. T,
           NEW S \in SelectKeys(am, imp, mass, t, T)
    PROVE  S \subseteq 1 .. T /\ Cardinality(S) = t
<1>1. /\ am.mass[1] \in Int /\ am.recent[1] \in Int
      /\ am.mass[2] \in Nat \ {0} /\ am.recent[2] \in Nat \ {0}
  BY EngineAssumption
<1>2. am.mass[1] \in Nat /\ am.recent[1] \in Nat
  BY <1>1 DEF ValidConfig
<1>3. CASE am.mass[1] > 0 \/ am.recent[1] > 0
  <2>1. S \in SelectHybrid(imp, mass, t, T, am.recent, am.mass)
    BY <1>1, <1>2, <1>3 DEF SelectKeys
  <2>2. PICK rf, mf : rf = am.recent /\ mf = am.mass
    OBVIOUS
  <2>3. rf[1] \in Nat /\ rf[2] \in Nat \ {0} /\ mf[1] \in Nat /\ mf[2] \in Nat \ {0}
    BY <1>1, <1>2, <2>2
  <2>4. t \in Nat /\ t \in 0 .. T
    OBVIOUS
  <2>5. Share(rf, t) \in Nat /\ Share(mf, t) \in Nat
    BY <2>3, <2>4, ShareIs
  <2>6. S \in SelectHybrid(imp, mass, t, T, rf, mf)
    BY <2>1, <2>2
  <2> QED BY <2>4, <2>5, <2>6, HybridIs
<1>4. CASE am.mass[1] = 0 /\ am.recent[1] = 0 /\ am.select = "omp"
  <2>1. S \in SelectOmp(t, T)
    BY <1>1, <1>2, <1>4 DEF SelectKeys
  <2>2. Min({t, T}) = t
    <3>1. t \in Nat /\ t <= T
      OBVIOUS
    <3> QED BY <3>1, MinOfTwo
  <2>3. S \in kSubset(t, 1 .. T)
    BY <2>1, <2>2 DEF SelectOmp
  <2> QED BY <2>3 DEF kSubset
<1>5. CASE /\ ~ (am.mass[1] > 0 \/ am.recent[1] > 0)
           /\ ~ (am.mass[1] = 0 /\ am.recent[1] = 0 /\ am.select = "omp")
  <2>1. S \in TopSets(imp, 1 .. T, t)
    BY <1>5 DEF SelectKeys
  <2>2. PICK C : C = 1 .. T
    OBVIOUS
  <2>3. S \in TopSets(imp, C, t) /\ C \subseteq 1 .. T
    BY <2>1, <2>2
  <2> QED BY <2>3, TopIs
<1> QED BY <1>3, <1>4, <1>5

LEMMA FitIs ==
    ASSUME NEW am \in AMConfigs, ValidConfig(am), NEW c, NEW T \in Nat \ {0}, Shaped(c, T, 0),
           NEW imp, NEW mass, NEW t \in 1 .. T, NEW hd \in FitHead(c, am, imp, mass, t)
    PROVE  \E S : Kept(hd, c, T, S, S) /\ Cardinality(S) = t
<1>1. LogicalLen(c) = T
  BY DEF Shaped
<1>2. CASE t >= T
  <2>1. PICK D : D = 1 .. T
    OBVIOUS
  <2>2. hd = Keep(c, D, c.cols, "zero")
    BY <1>1, <1>2, <2>1 DEF FitHead, Indices
  <2>3. Kept(hd, c, T, D, D)
    BY <2>1, <2>2, KeepIs
  <2>4. Cardinality(D) = t
    <3>1. 1 \in Int /\ T \in Int /\ ~ (1 > T)
      OBVIOUS
    <3>2. Cardinality(D) = T - 1 + 1
      BY <2>1, <3>1, FS_Interval
    <3> QED BY <1>2, <3>2
  <2> QED BY <2>3, <2>4
<1>3. CASE ~ (t >= T)
  <2>1. PICK S \in SelectKeys(am, imp, mass, t, T) :
            \E live \in LiveKeys(S) : hd = Keep(c, S, FitValues(S, live), FitBias)
    BY <1>1, <1>3 DEF FitHead
  <2>2. S \subseteq 1 .. T /\ Cardinality(S) = t
    <3>1. T \in Nat
      OBVIOUS
    <3> QED BY <2>1, <3>1, SelectKeysIs
  <2>3. PICK val : hd = Keep(c, S, val, "fit")
    BY <2>1 DEF FitBias
  <2>4. Cardinality(S) # T
    BY <1>3, <2>2
  <2>5. Kept(hd, c, T, S, S)
    BY <2>2, <2>3, <2>4, KeepIs
  <2> QED BY <2>2, <2>5
<1> QED BY <1>2, <1>3

-----------------------------------------------------------------------------
(* The split of a layer's budget over its heads *)

(* The first m of a ranking *)
LEMMA FirstRanks ==
    ASSUME NEW S, IsFiniteSet(S), NEW R, NEW n, RanksAre(R, S, n), NEW m \in 0 .. n,
           NEW F, F = { c \in S : RankIn(R, S, c) < m }
    PROVE  IsFiniteSet(F) /\ Cardinality(F) = m
<1>1. n \in Nat /\ m \in Nat
  BY DEF RanksAre
<1>2. F \in SUBSET S
  OBVIOUS
<1>3. IsFiniteSet(F)
  BY <1>2, FS_Subset
<1>4. PICK f : f = [c \in F |-> RankIn(R, S, c)]
  OBVIOUS
<1>5. PICK I : I = 0 .. m - 1
  OBVIOUS
<1>6. \A c \in F : f[c] \in I
  BY <1>1, <1>4, <1>5 DEF RanksAre
<1>7. \A a, b \in F : f[a] = f[b] => a = b
  BY <1>4 DEF RanksAre
<1>8. \A k \in I : \E c \in F : f[c] = k
  <2>1. ASSUME NEW k \in I PROVE \E c \in F : f[c] = k
    <3>1. k \in 0 .. n - 1 /\ k < m
      BY <1>1, <1>5
    <3>2. PICK c \in S : RankIn(R, S, c) = k
      BY <3>1 DEF RanksAre
    <3> QED BY <1>4, <3>1, <3>2
  <2> QED BY <2>1
<1>9. f \in Bijection(F, I)
  <2>1. f \in [F -> I]
    BY <1>4, <1>6
  <2> QED BY <1>7, <1>8, <2>1 DEF Bijection, Injection, Surjection, IsInjective
<1>10. Cardinality(I) = m
  <2>1. 0 \in Int /\ m - 1 \in Int
    BY <1>1
  <2>2. Cardinality(I) = IF 0 > m - 1 THEN 0 ELSE m - 1 - 0 + 1
    BY <1>5, <2>1, FS_Interval
  <2> QED BY <1>1, <2>2
<1>11. Cardinality(I) = Cardinality(F)
  BY <1>3, <1>9, FS_Bijection DEF ExistsBijection
<1> QED BY <1>3, <1>10, <1>11

(* Scores are numbers, and so is the score at any rank *)
LEMMA RankedIs ==
    ASSUME NEW T \in Nat, NEW score, DOMAIN score = 1 .. T, \A i \in 1 .. T : score[i] \in Int,
           NEW r \in 1 .. T
    PROVE  Ranked(score)[r] \in Int
<1> DEFINE before(j, i) == score[j] > score[i] \/ (score[j] = score[i] /\ j < i)
           R == { p \in (1 .. T) \X (1 .. T) : before(p[1], p[2]) }
<1>1. PICK S : S = 1 .. T
  OBVIOUS
<1>2. IsFiniteSet(S) /\ Cardinality(S) = T
  <2>1. 1 \in Int /\ T \in Int /\ ~ (1 > T)
    OBVIOUS
  <2>2. IsFiniteSet(S) /\ Cardinality(S) = T - 1 + 1
    BY <1>1, <2>1, FS_Interval
  <2> QED BY <2>2
<1>3. Orders(R, S)
  <2>1. \A a \in S : <<a, a>> \notin R
    BY <1>1
  <2>2. \A a, b, c \in S : <<a, b>> \in R /\ <<b, c>> \in R => <<a, c>> \in R
    BY <1>1
  <2>3. \A a, b \in S : a # b => <<a, b>> \in R \/ <<b, a>> \in R
    BY <1>1
  <2> HIDE DEF R
  <2> QED BY <2>1, <2>2, <2>3 DEF Orders
<1>4. RanksAre(R, S, T)
  <2> HIDE DEF R
  <2> QED BY <1>2, <1>3, Ranks
<1>5. PICK i \in S : RankIn(R, S, i) = r - 1
  <2>1. r - 1 \in 0 .. T - 1
    OBVIOUS
  <2> QED BY <1>4, <2>1 DEF RanksAre
<1>6. \A k \in S : { d \in S : <<d, k>> \in R } = { j \in S : before(j, k) }
  BY <1>1
<1>7. Ranked(score)[r] = score[CHOOSE k \in S : Cardinality({ j \in S : before(j, k) }) = r - 1]
  BY <1>1 DEF Ranked
<1>8. Cardinality({ j \in S : before(j, i) }) = r - 1
  BY <1>5, <1>6 DEF RankIn
<1> HIDE DEF before
<1>9. (CHOOSE k \in S : Cardinality({ j \in S : before(j, k) }) = r - 1) \in S
  BY <1>8
<1> QED BY <1>1, <1>7, <1>9

(* The score of head h at rank r, and the order in which tokens are given  *)
ValueAt(imp, l, c) == Ranked(imp[<<l, c[1]>>])[c[2]]

Earlier(imp, l, c, d) ==
    \/ ValueAt(imp, l, c) > ValueAt(imp, l, d)
    \/ /\ ValueAt(imp, l, c) = ValueAt(imp, l, d)
       /\ c[1] < d[1] \/ (c[1] = d[1] /\ c[2] < d[2])

Candidates(lo, T) == KVHeads \X (lo + 1 .. T)

EarlierIn(imp, l, C) == { p \in C \X C : Earlier(imp, l, p[1], p[2]) }

Scored(imp, T) ==
    \A h \in Heads : DOMAIN imp[h] = 1 .. T /\ \A i \in 1 .. T : imp[h][i] \in Int

LEMMA EarlierOrders ==
    ASSUME NEW T \in Nat, NEW imp, Scored(imp, T), NEW l \in Layers, NEW lo \in Nat,
           NEW C, C = Candidates(lo, T), NEW R, R = EarlierIn(imp, l, C)
    PROVE  Orders(R, C)
<1>1. KVHeads \subseteq Int
  BY HeadsAre
<1>2. ASSUME NEW c \in C
      PROVE  /\ ValueAt(imp, l, c) \in Int /\ c[1] \in Int /\ c[2] \in Int
             /\ c = <<c[1], c[2]>>
  <2>1. c[1] \in KVHeads /\ c[2] \in lo + 1 .. T /\ c = <<c[1], c[2]>>
    BY DEF Candidates
  <2>2. c[2] \in 1 .. T
    BY <2>1
  <2>3. <<l, c[1]>> \in Heads
    BY <2>1 DEF Heads
  <2>4. PICK score, r : score = imp[<<l, c[1]>>] /\ r = c[2]
    OBVIOUS
  <2>5. DOMAIN score = 1 .. T /\ \A i \in 1 .. T : score[i] \in Int
    BY <2>3, <2>4 DEF Scored
  <2>6. Ranked(score)[r] \in Int
    BY <2>2, <2>4, <2>5, RankedIs
  <2> QED BY <1>1, <2>1, <2>4, <2>6 DEF ValueAt
<1>3. \A a, b : <<a, b>> \in R <=> a \in C /\ b \in C /\ Earlier(imp, l, a, b)
  <2>1. R = { p \in C \X C : Earlier(imp, l, p[1], p[2]) }
    BY DEF EarlierIn
  <2> QED BY <2>1
<1>4. ASSUME NEW a \in C PROVE <<a, a>> \notin R
  BY <1>2, <1>3 DEF Earlier
<1>5. ASSUME NEW a \in C, NEW b \in C, NEW c \in C, <<a, b>> \in R, <<b, c>> \in R
      PROVE  <<a, c>> \in R
  <2>1. Earlier(imp, l, a, b) /\ Earlier(imp, l, b, c)
    BY <1>3, <1>5
  <2>2. Earlier(imp, l, a, c)
    <3>1. PICK va, vb, vc : va = ValueAt(imp, l, a) /\ vb = ValueAt(imp, l, b) /\ vc = ValueAt(imp, l, c)
      OBVIOUS
    <3>2. va \in Int /\ vb \in Int /\ vc \in Int
      BY <1>2, <3>1
    <3> QED BY <1>2, <2>1, <3>1, <3>2 DEF Earlier
  <2> QED BY <1>3, <2>2
<1>6. ASSUME NEW a \in C, NEW b \in C, a # b PROVE <<a, b>> \in R \/ <<b, a>> \in R
  <2>1. a[1] # b[1] \/ a[2] # b[2]
    BY <1>2, <1>6
  <2>2. Earlier(imp, l, a, b) \/ Earlier(imp, l, b, a)
    BY <1>2, <2>1 DEF Earlier
  <2> QED BY <1>3, <2>2
<1> QED BY <1>4, <1>5, <1>6 DEF Orders

(* _allocate_budget spends exactly what it has to give *)
TakenFirst(imp, l, lo, T, m) ==
    { c \in Candidates(lo, T) : RankIn(EarlierIn(imp, l, Candidates(lo, T)), Candidates(lo, T), c) < m }

GivenTo(F, h) == { c \in F : c[1] = h }

LEMMA GreedyIs ==
    ASSUME NEW T \in Nat, NEW imp, NEW l, NEW lo \in Nat, NEW m, NEW h \in KVHeads,
           NEW F, F = TakenFirst(imp, l, lo, T, m)
    PROVE  Greedy(imp, l, T, lo, m)[h] = Cardinality(GivenTo(F, h))
<1> DEFINE cands == { <<k, r>> : k \in KVHeads, r \in lo + 1 .. T }
           value(c) == Ranked(imp[<<l, c[1]>>])[c[2]]
           before(c, d) == \/ value(c) > value(d)
                           \/ value(c) = value(d) /\ (c[1] < d[1] \/ (c[1] = d[1] /\ c[2] < d[2]))
           taken == { c \in cands : Cardinality({ d \in cands : before(d, c) }) < m }
<1>1. Greedy(imp, l, T, lo, m)[h] = Cardinality({ c \in taken : c[1] = h })
  BY DEF Greedy
<1>2. PICK C : C = Candidates(lo, T)
  OBVIOUS
<1>3. cands = C
  BY <1>2 DEF Candidates
<1>4. PICK R : R = EarlierIn(imp, l, C)
  OBVIOUS
<1>5. ASSUME NEW c \in C PROVE { d \in cands : before(d, c) } = { d \in C : <<d, c>> \in R }
  <2>1. \A d : <<d, c>> \in R <=> d \in C /\ Earlier(imp, l, d, c)
    BY <1>4 DEF EarlierIn
  <2>2. \A d : Earlier(imp, l, d, c) <=> before(d, c)
    BY DEF Earlier, ValueAt
  <2> HIDE DEF cands, before
  <2> QED BY <1>3, <2>1, <2>2
<1>6. \A c \in C : Cardinality({ d \in cands : before(d, c) }) = RankIn(R, C, c)
  <2> HIDE DEF cands, before
  <2> QED BY <1>5 DEF RankIn
<1>7. F = { c \in C : RankIn(R, C, c) < m }
  BY <1>2, <1>4 DEF TakenFirst
<1>8. taken = F
  <2> HIDE DEF cands, before
  <2> QED BY <1>3, <1>6, <1>7
<1> HIDE DEF taken
<1> QED BY <1>1, <1>8 DEF GivenTo

LEMMA TakenIs ==
    ASSUME NEW T \in Nat, NEW imp, Scored(imp, T), NEW l \in Layers, NEW lo \in 0 .. T,
           NEW n, n = Cardinality(KVHeads) * (T - lo), NEW m \in 0 .. n,
           NEW F, F = TakenFirst(imp, l, lo, T, m)
    PROVE  F \subseteq Candidates(lo, T) /\ IsFiniteSet(F) /\ Cardinality(F) = m
<1>1. PICK C : C = Candidates(lo, T)
  OBVIOUS
<1>2. PICK R : R = EarlierIn(imp, l, C)
  OBVIOUS
<1>3. IsFiniteSet(C) /\ Cardinality(C) = n
  <2>1. PICK I : I = lo + 1 .. T
    OBVIOUS
  <2>2. IsFiniteSet(I) /\ Cardinality(I) = T - lo
    <3>1. lo + 1 \in Int /\ T \in Int
      OBVIOUS
    <3>2. IsFiniteSet(I) /\ Cardinality(I) = IF lo + 1 > T THEN 0 ELSE T - (lo + 1) + 1
      BY <2>1, <3>1, FS_Interval
    <3> QED BY <3>2
  <2>3. IsFiniteSet(KVHeads)
    BY HeadsAre
  <2>4. C = KVHeads \X I
    BY <1>1, <2>1 DEF Candidates
  <2>5. IsFiniteSet(KVHeads \X I) /\ Cardinality(KVHeads \X I) = Cardinality(KVHeads) * Cardinality(I)
    BY <2>2, <2>3, FS_Product
  <2> QED BY <2>2, <2>4, <2>5
<1>4. Orders(R, C)
  <2>1. lo \in Nat
    OBVIOUS
  <2> QED BY <1>1, <1>2, <2>1, EarlierOrders
<1>5. RanksAre(R, C, n)
  BY <1>3, <1>4, Ranks
<1>6. F = { c \in C : RankIn(R, C, c) < m }
  BY <1>1, <1>2 DEF TakenFirst
<1>7. IsFiniteSet(F) /\ Cardinality(F) = m
  BY <1>3, <1>5, <1>6, FirstRanks
<1> QED BY <1>1, <1>6, <1>7

(* The shares a of a layer's heads: of T tokens each gets lo at least, and *)
(* together t for each head                                                *)
Shares(a, lo, t, T) ==
    /\ \A h \in KVHeads : a[h] \in lo .. T
    /\ \E G : /\ G[{}] = 0 /\ G[KVHeads] = t * Cardinality(KVHeads)
              /\ \A s \in SUBSET KVHeads : \A x \in s : G[s] = a[x] + G[s \ {x}]

LEMMA EvenShares ==
    ASSUME NEW T \in Nat, NEW t \in 0 .. T, NEW lo \in 0 .. t, NEW a, a = [h \in KVHeads |-> t]
    PROVE  Shares(a, lo, t, T)
<1>1. PICK G : G = [s \in SUBSET KVHeads |-> t * Cardinality(s)]
  OBVIOUS
<1>2. IsFiniteSet(KVHeads)
  BY HeadsAre
<1>3. G[{}] = 0
  <2>1. Cardinality({}) = 0
    BY FS_EmptySet
  <2> QED BY <1>1, <2>1
<1>4. ASSUME NEW s \in SUBSET KVHeads, NEW x \in s
      PROVE  G[s] = a[x] + G[s \ {x}]
  <2>1. IsFiniteSet(s)
    BY <1>2, FS_Subset
  <2>2. PICK k : k = Cardinality(s \ {x})
    OBVIOUS
  <2>3. Cardinality(s \ {x}) = Cardinality(s) - 1 /\ Cardinality(s) \in Nat /\ IsFiniteSet(s \ {x})
    BY <2>1, FS_RemoveElement, FS_CardinalityType
  <2>4. k \in Nat
    BY <2>2, <2>3, FS_CardinalityType
  <2>5. Cardinality(s) = k + 1
    BY <2>2, <2>3
  <2>6. G[s] = t * (k + 1) /\ G[s \ {x}] = t * k /\ a[x] = t
    BY <1>1, <2>2, <2>5
  <2>7. t * (k + 1) = t + t * k
    BY <2>4
  <2> QED BY <2>6, <2>7
<1>5. \A h \in KVHeads : a[h] \in lo .. T
  OBVIOUS
<1>6. G[KVHeads] = t * Cardinality(KVHeads)
  BY <1>1
<1> QED BY <1>3, <1>4, <1>5, <1>6 DEF Shares

Charged(m, t, lo) == m = (t - lo) * Cardinality(KVHeads)

SplitGreedily(a, imp, l, T, lo, m) ==
    a = [h \in KVHeads |-> Min({lo + Greedy(imp, l, T, lo, m)[h], T})]

LEMMA GreedyShares ==
    ASSUME NEW T \in Nat, NEW imp, Scored(imp, T), NEW l \in Layers, NEW t \in 0 .. T, NEW lo \in 0 .. t,
           NEW m, Charged(m, t, lo),
           NEW a, SplitGreedily(a, imp, l, T, lo, m)
    PROVE  Shares(a, lo, t, T)
<1>1. PICK k \in Nat \ {0} : Cardinality(KVHeads) = k
  BY HeadsAre
<1>2. PICK F : F = TakenFirst(imp, l, lo, T, m)
  OBVIOUS
<1>3. F \subseteq Candidates(lo, T) /\ IsFiniteSet(F) /\ Cardinality(F) = m /\ m \in Nat
  <2>1. PICK n : n = Cardinality(KVHeads) * (T - lo)
    OBVIOUS
  <2>2. m \in 0 .. n
    <3>1. PICK d, e : d = t - lo /\ e = T - t
      OBVIOUS
    <3>2. d \in Nat /\ e \in Nat /\ T - lo = d + e
      BY <3>1
    <3>3. k * (d + e) = d * k + k * e /\ d * k \in Nat /\ k * e \in Nat
      BY <3>2
    <3>4. m = d * k /\ n = k * (d + e)
      BY <1>1, <2>1, <3>1, <3>2 DEF Charged
    <3> QED BY <3>3, <3>4
  <2>3. lo \in 0 .. T
    OBVIOUS
  <2>4. F \subseteq Candidates(lo, T) /\ IsFiniteSet(F) /\ Cardinality(F) = m
    BY <1>2, <2>1, <2>2, <2>3, TakenIs
  <2> QED BY <2>2, <2>4, FS_CardinalityType
<1> DEFINE of(s) == { c \in F : c[1] \in s }
           at(h) == GivenTo(F, h)
<1>4. ASSUME NEW s PROVE IsFiniteSet(of(s)) /\ Cardinality(of(s)) \in Nat
  <2>1. of(s) \in SUBSET F
    OBVIOUS
  <2>2. IsFiniteSet(of(s))
    BY <1>3, <2>1, FS_Subset
  <2> QED BY <2>2, FS_CardinalityType
<1>5. ASSUME NEW h \in KVHeads
      PROVE  /\ IsFiniteSet(at(h)) /\ Cardinality(at(h)) \in 0 .. T - lo
             /\ a[h] = lo + Cardinality(at(h))
  <2>1. PICK I, Q : I = lo + 1 .. T /\ Q = {h} \X I
    OBVIOUS
  <2>2. IsFiniteSet(I) /\ Cardinality(I) = T - lo
    <3>1. lo + 1 \in Int /\ T \in Int
      OBVIOUS
    <3>2. IsFiniteSet(I) /\ Cardinality(I) = IF lo + 1 > T THEN 0 ELSE T - (lo + 1) + 1
      BY <2>1, <3>1, FS_Interval
    <3> QED BY <3>2
  <2>3. IsFiniteSet(Q) /\ Cardinality(Q) = T - lo
    <3>1. IsFiniteSet({h}) /\ Cardinality({h}) = 1
      BY FS_Singleton
    <3>2. IsFiniteSet({h} \X I) /\ Cardinality({h} \X I) = Cardinality({h}) * Cardinality(I)
      BY <2>2, <3>1, FS_Product
    <3> QED BY <2>1, <2>2, <3>1, <3>2
  <2>4. at(h) \in SUBSET Q
    BY <1>3, <2>1 DEF Candidates, GivenTo
  <2>5. IsFiniteSet(at(h)) /\ Cardinality(at(h)) <= T - lo
    <3> HIDE DEF at
    <3> QED BY <2>3, <2>4, FS_Subset
  <2>6. Cardinality(at(h)) \in Nat
    <3> HIDE DEF at
    <3> QED BY <2>5, FS_CardinalityType
  <2>7. Greedy(imp, l, T, lo, m)[h] = Cardinality(at(h))
    <3>1. lo \in Nat
      OBVIOUS
    <3> QED BY <1>2, <3>1, GreedyIs
  <2>8. PICK x : x = lo + Cardinality(at(h))
    OBVIOUS
  <2>9. x \in Nat /\ x <= T
    <3> HIDE DEF at
    <3> QED BY <2>5, <2>6, <2>8
  <2>10. a[h] = Min({x, T})
    <3> HIDE DEF at
    <3> QED BY <2>7, <2>8 DEF SplitGreedily
  <2>11. a[h] = x
    BY <2>9, <2>10, MinOfTwo
  <2> HIDE DEF at
  <2> QED BY <2>5, <2>6, <2>8, <2>11
<1>6. PICK G : G = [s \in SUBSET KVHeads |-> lo * Cardinality(s) + Cardinality(of(s))]
  OBVIOUS
<1>7. G[{}] = 0
  <2>1. of({}) = {}
    OBVIOUS
  <2>2. Cardinality({}) = 0
    BY FS_EmptySet
  <2>3. G[{}] = lo * Cardinality({}) + Cardinality(of({}))
    BY <1>6
  <2> HIDE DEF of
  <2> QED BY <2>1, <2>2, <2>3
<1>8. G[KVHeads] = t * Cardinality(KVHeads)
  <2>1. of(KVHeads) = F
    BY <1>3 DEF Candidates
  <2>2. G[KVHeads] = lo * k + m
    BY <1>1, <1>3, <1>6, <2>1
  <2>3. PICK d \in Nat : d = t - lo
    OBVIOUS
  <2>4. m = d * k /\ t = lo + d
    BY <1>1, <2>3 DEF Charged
  <2>5. (lo + d) * k = lo * k + d * k
    BY <2>3
  <2> QED BY <1>1, <2>2, <2>4, <2>5
<1>9. ASSUME NEW s \in SUBSET KVHeads, NEW x \in s
      PROVE  G[s] = a[x] + G[s \ {x}]
  <2>1. IsFiniteSet(s)
    BY FS_Subset, HeadsAre
  <2>2. PICK r, j : r = s \ {x} /\ j = Cardinality(s \ {x})
    OBVIOUS
  <2>3. Cardinality(s \ {x}) = Cardinality(s) - 1 /\ Cardinality(s) \in Nat /\ IsFiniteSet(s \ {x})
    BY <2>1, FS_RemoveElement, FS_CardinalityType
  <2>4. j \in Nat /\ Cardinality(s) = j + 1 /\ r \in SUBSET KVHeads
    BY <2>2, <2>3, FS_CardinalityType
  <2>5. of(s) = at(x) \cup of(r) /\ at(x) \cap of(r) = {}
    BY <2>2 DEF GivenTo
  <2>6. IsFiniteSet(at(x)) /\ Cardinality(at(x)) \in 0 .. T - lo /\ a[x] = lo + Cardinality(at(x))
    BY <1>5
  <2>7. IsFiniteSet(of(r)) /\ Cardinality(of(r)) \in Nat
    BY <1>4
  <2>8. Cardinality(of(s)) = Cardinality(at(x)) + Cardinality(of(r))
    <3> HIDE DEF of, at
    <3> QED BY <2>5, <2>6, <2>7, DisjointSize
  <2>9. G[s] = lo * (j + 1) + Cardinality(of(s)) /\ G[r] = lo * j + Cardinality(of(r))
    <3> HIDE DEF of, at
    <3> QED BY <1>6, <2>2, <2>4
  <2>10. lo * (j + 1) = lo * j + lo /\ lo * j \in Nat
    BY <2>4
  <2> HIDE DEF of, at
  <2> QED BY <2>2, <2>6, <2>7, <2>8, <2>9, <2>10
<1>10. ASSUME NEW h \in KVHeads PROVE a[h] \in lo .. T
  <2>1. PICK x : x = Cardinality(at(h))
    OBVIOUS
  <2>2. x \in 0 .. T - lo /\ a[h] = lo + x
    BY <1>5, <2>1
  <2> QED BY <2>2
<1> HIDE DEF of, at
<1> QED BY <1>7, <1>8, <1>9, <1>10 DEF Shares

LEMMA AllocIs ==
    ASSUME NEW T \in Nat \ {0}, NEW t \in 1 .. T, NEW lo \in 1 .. t, NEW imp, Scored(imp, T),
           NEW l \in Layers, NEW alloc, NEW a, a = AllocateBudget(alloc, imp, l, t, T, lo)
    PROVE  Shares(a, lo, t, T)
<1>1. T \in Nat /\ t \in 0 .. T /\ lo \in 0 .. t /\ lo \in Nat /\ t \in Nat
  OBVIOUS
<1>2. CASE alloc = "uniform" \/ t >= T
  <2>1. a = [h \in KVHeads |-> t]
    BY <1>2 DEF AllocateBudget
  <2> QED BY <1>1, <2>1, EvenShares
<1>3. CASE ~ (alloc = "uniform" \/ t >= T)
  <2>1. Min({lo, t}) = lo
    <3>1. lo <= t
      OBVIOUS
    <3> QED BY <1>1, <3>1, MinOfTwo
  <2>2. Max({1, lo}) = lo
    <3>1. 1 \in Nat /\ 1 <= lo
      OBVIOUS
    <3> QED BY <1>1, <3>1, MaxOfTwo
  <2>3. PICK m : m = (t - lo) * Cardinality(KVHeads)
    OBVIOUS
  <2>4. a = [h \in KVHeads |-> Min({lo + Greedy(imp, l, T, lo, m)[h], T})]
    BY <1>3, <2>1, <2>2, <2>3 DEF AllocateBudget
  <2>5. Charged(m, t, lo)
    BY <2>3 DEF Charged
  <2>6. SplitGreedily(a, imp, l, T, lo, m)
    BY <2>4 DEF SplitGreedily
  <2> QED BY <1>1, <2>5, <2>6, GreedyShares
<1> QED BY <1>2, <1>3

LEMMA AttentionMatchingIs ==
    ASSUME NEW c, NEW T \in Nat \ {0}, Shaped(c, T, 0), NEW b \in Budgets,
           NEW am \in AMConfigs, ValidConfig(am), NEW imp, Scored(imp, T), NEW mass,
           NEW x \in AttentionMatching(c, b, am, imp, mass)
    PROVE  CompactFact(x) /\ x.method = "attention_matching" /\ Selects(x, c, b, T, FALSE)
<1>1. PICK t, lo : t = Min({TargetT(b, T), T}) /\ lo = Min({b.min, T})
  OBVIOUS
<1>2. t \in 1 .. T /\ lo \in 1 .. t
  <2>1. t \in 1 .. T /\ Min({b.min, T}) <= t /\ Min({b.min, T}) \in 1 .. T
    BY <1>1, TargetIs
  <2> QED BY <1>1, <2>1
<1>3. PICK alloc : alloc = [l \in Layers |-> AllocateBudget(am.alloc, imp, l, t, T, lo)]
  OBVIOUS
<1>4. \A l \in Layers : Shares(alloc[l], lo, t, T)
  BY <1>2, <1>3, AllocIs
<1>5. PICK fits : fits = [h \in Heads |-> FitHead(c, am, imp[h], mass[h], alloc[h[1]][h[2]])]
  OBVIOUS
<1>6. PICK hs : /\ x = CompactCache(hs, T, << >>, "attention_matching")
                /\ hs \in [Heads -> UNION Range(fits)] /\ \A h \in Heads : hs[h] \in fits[h]
  <2>1. LogicalLen(c) = T
    BY DEF Shaped
  <2> DEFINE al == [l \in Layers |-> AllocateBudget(am.alloc, imp, l, Min({TargetT(b, T), T}), T, Min({b.min, T}))]
             ft == [h \in Heads |-> FitHead(c, am, imp[h], mass[h], al[h[1]][h[2]])]
  <2>2. AttentionMatching(c, b, am, imp, mass)
          = { CompactCache(heads, T, << >>, "attention_matching") :
                heads \in { f \in [Heads -> UNION Range(ft)] : \A h \in Heads : f[h] \in ft[h] } }
    BY <2>1 DEF AttentionMatching
  <2>3. al = alloc
    BY <1>1, <1>3
  <2>4. ft = fits
    <3> HIDE DEF al
    <3> QED BY <1>5, <2>3
  <2> HIDE DEF al, ft
  <2> QED BY <2>2, <2>4
<1>7. ASSUME NEW h \in Heads
      PROVE  /\ alloc[h[1]][h[2]] \in lo .. T
             /\ \E S : Kept(hs[h], c, T, S, S) /\ Cardinality(S) = alloc[h[1]][h[2]]
  <2>1. h[1] \in Layers /\ h[2] \in KVHeads
    BY DEF Heads
  <2>2. PICK u : u = alloc[h[1]][h[2]]
    OBVIOUS
  <2>3. u \in lo .. T
    BY <1>4, <2>1, <2>2 DEF Shares
  <2>4. u \in 1 .. T
    BY <1>2, <2>3
  <2>5. PICK i, m : i = imp[h] /\ m = mass[h]
    OBVIOUS
  <2>6. hs[h] \in FitHead(c, am, i, m, u)
    BY <1>5, <1>6, <2>2, <2>5
  <2>7. \E S : Kept(hs[h], c, T, S, S) /\ Cardinality(S) = u
    BY <2>4, <2>6, FitIs
  <2> QED BY <2>2, <2>3, <2>7
<1>8. PICK sel : sel = [h \in Heads |-> CHOOSE S : Kept(hs[h], c, T, S, S)
                                                   /\ Cardinality(S) = alloc[h[1]][h[2]]]
  OBVIOUS
<1>9. \A h \in Heads : Kept(hs[h], c, T, sel[h], sel[h]) /\ Cardinality(sel[h]) = alloc[h[1]][h[2]]
  BY <1>7, <1>8
<1>10. x.heads = hs /\ x.len = T /\ x.method = "attention_matching"
  BY <1>6, CompactFields
<1>11. \A h \in Heads : IsRow(hs[h], alloc[h[1]][h[2]])
  BY <1>9 DEF Kept
<1>12. CompactFact(x)
  <2>1. hs = [h \in Heads |-> hs[h]]
    BY <1>6
  <2>2. \A h \in Heads : \E k : IsRow(hs[h], k)
    BY <1>11
  <2>3. T \in Nat
    OBVIOUS
  <2> QED BY <1>6, <2>1, <2>2, <2>3, CompactFrom
<1>13. Chosen(x, c, T, sel, FALSE)
  BY <1>9, <1>10 DEF Chosen
<1>14. ASSUME NEW l \in Layers PROVE LayerBudget(x, l) = t * Cardinality(KVHeads)
  <2>1. PICK G : /\ G[{}] = 0 /\ G[KVHeads] = t * Cardinality(KVHeads)
                 /\ \A s \in SUBSET KVHeads : \A k \in s : G[s] = alloc[l][k] + G[s \ {k}]
    BY <1>4 DEF Shares
  <2>2. ASSUME NEW k \in KVHeads PROVE Len(x.heads[<<l, k>>]) = alloc[l][k]
    <3>1. PICK h : h = <<l, k>>
      OBVIOUS
    <3>2. h \in Heads /\ h[1] = l /\ h[2] = k
      BY <3>1 DEF Heads
    <3>3. IsRow(hs[h], alloc[l][k])
      BY <1>11, <3>2
    <3>4. Len(hs[h]) = alloc[l][k]
      BY <3>3, LongIsSeq DEF IsRow
    <3> QED BY <1>10, <3>1, <3>4
  <2>3. AddsUp(x, l, G)
    <3>1. ASSUME NEW s \in SUBSET KVHeads, NEW k \in s
          PROVE  G[s] = Len(x.heads[<<l, k>>]) + G[s \ {k}]
      <4>1. k \in KVHeads
        OBVIOUS
      <4> QED BY <2>1, <2>2, <4>1
    <3> QED BY <2>1, <3>1 DEF AddsUp
  <2>4. LayerBudget(x, l) = G[KVHeads]
    BY <2>3, LayerBudgetIs
  <2> QED BY <2>1, <2>4
<1>15. \A h \in Heads : Min({b.min, T}) <= Cardinality(sel[h])
  <2>1. ASSUME NEW h \in Heads PROVE lo <= Cardinality(sel[h])
    <3>1. PICK u : u = alloc[h[1]][h[2]]
      OBVIOUS
    <3>2. u \in lo .. T
      BY <1>7, <3>1
    <3>3. Cardinality(sel[h]) = u
      BY <1>9, <3>1
    <3> QED BY <1>2, <3>2, <3>3
  <2> QED BY <1>1, <2>1
<1>16. WithinBudget(x, b, T, t, sel)
  BY <1>14, <1>15 DEF WithinBudget
<1>17. t = TargetOf(x.method, b, T) /\ KeepsRecent(x.method, T, t, sel)
  BY <1>1, <1>10 DEF TargetOf, KeepsRecent
<1> QED BY <1>10, <1>12, <1>13, <1>16, <1>17 DEF Selects

-----------------------------------------------------------------------------
(* The caches of Compact *)

(* a cache just made of c: a selection, or latents placed over it *)
Compressed(x, c, b, T) ==
    /\ CompactFact(x) /\ x.len = T
    /\ \/ x.method = "still" /\ \E k \in Nat \ {0} : \A h \in Heads : Below(x.heads[h], k, T)
       \/ x.method \notin {"still", "cartridge", "working_memory"} /\ Selects(x, c, b, T, FALSE)

LEMMA CompressedIs ==
    ASSUME NEW c, NEW T, NEW b, NEW x, CompactFact(x), Selects(x, c, b, T, FALSE),
           x.method \in {"full_kv", "recent_window", "random_subset", "heavy_hitter", "snapkv",
                         "attention_matching"}
    PROVE  Compressed(x, c, b, T)
  BY DEF Compressed, Selects, Chosen

LEMMA ScoresAre ==
    ASSUME NEW T \in Nat, LogicalLen(ctx) = T, NEW imp \in Scores
    PROVE  Scored(imp, T)
<1>1. imp \in [Heads -> Rankings(T)]
  BY DEF Scores
<1>2. ASSUME NEW s \in Rankings(T) PROVE DOMAIN s = 1 .. T /\ \A i \in 1 .. T : s[i] \in Int
  BY DEF Rankings
<1> QED BY <1>1, <1>2 DEF Scored

LEMMA CompactsAre ==
    ASSUME NEW T \in Nat \ {0}, Shaped(ctx, T, 0), NEW b \in Budgets, NEW x \in Compacts(b)
    PROVE  Compressed(x, ctx, b, T)
<1>0. PICK c : c = ctx
  OBVIOUS
<1> DEFINE A == UNION { HeavyHitter(ctx, b, f, mass) : f \in RecentFracs, mass \in Scores }
           B == UNION { SnapKVLite(ctx, b, f, mass) : f \in RecentFracs, mass \in Scores }
           C == UNION { AttentionMatching(ctx, b, am, imp, mass) :
                         am \in { am \in AMConfigs : ValidConfig(am) }, imp \in Scores, mass \in Masses }
           D == { Still(ctx, b, n) : n \in Latents }
<1>1. \/ x \in FullKV(ctx) \/ x \in RecentWindow(ctx, b) \/ x \in RandomSubset(ctx, b)
      \/ x \in A \/ x \in B \/ x \in C \/ x \in D
  <2> HIDE DEF A, B, C, D
  <2>1. Compacts(b) = FullKV(ctx) \cup RecentWindow(ctx, b) \cup RandomSubset(ctx, b)
                      \cup A \cup B \cup C \cup D
    BY DEF Compacts, A, B, C, D
  <2> QED BY <2>1
<1>2. LogicalLen(ctx) = T
  BY DEF Shaped
<1>3. CASE x \in FullKV(ctx)
  BY <1>3, FullIs, CompressedIs
<1>4. CASE x \in RecentWindow(ctx, b)
  BY <1>4, RecentWindowIs, CompressedIs
<1>5. CASE x \in RandomSubset(ctx, b)
  BY <1>5, RandomSubsetIs, CompressedIs
<1>6. PICK t : t = Min({TargetT(b, T), T})
  OBVIOUS
<1>7. CASE x \in A
  <2>1. PICK f \in RecentFracs, mass \in Scores : x \in HeavyHitter(ctx, b, f, mass)
    BY <1>7
  <2>2. PICK allowed : allowed = [h \in Heads |-> TopkWithRecent(mass[h], t, T, Share(f, t))]
    OBVIOUS
  <2>3. x \in Selected(ctx, "heavy_hitter", allowed)
    BY <1>2, <1>6, <2>1, <2>2 DEF HeavyHitter
  <2>4. CompactFact(x) /\ x.method = "heavy_hitter" /\ Selects(x, ctx, b, T, FALSE)
    <3>1. ByMass(allowed, mass, f, t, T)
      BY <2>2 DEF ByMass
    <3> QED BY <1>6, <2>3, <3>1, ByMassIs
  <2> QED BY <2>4, CompressedIs
<1>8. CASE x \in B
  <2>1. PICK f \in RecentFracs, mass \in Scores : x \in SnapKVLite(ctx, b, f, mass)
    BY <1>8
  <2>2. PICK allowed : allowed = [h \in Heads |-> TopkWithRecent(mass[h], t, T, Share(f, t))]
    OBVIOUS
  <2>3. x \in Selected(ctx, "snapkv", allowed)
    BY <1>2, <1>6, <2>1, <2>2 DEF SnapKVLite
  <2>4. CompactFact(x) /\ x.method = "snapkv" /\ Selects(x, ctx, b, T, FALSE)
    <3>1. ByMass(allowed, mass, f, t, T)
      BY <2>2 DEF ByMass
    <3> QED BY <1>6, <2>3, <3>1, ByMassIs
  <2> QED BY <2>4, CompressedIs
<1>9. CASE x \in C
  <2>1. PICK am \in { m \in AMConfigs : ValidConfig(m) }, imp \in Scores, mass \in Masses :
            x \in AttentionMatching(ctx, b, am, imp, mass)
    BY <1>9
  <2>2. Scored(imp, T)
    BY <1>2, <2>1, ScoresAre
  <2>3. am \in AMConfigs /\ ValidConfig(am)
    BY <2>1
  <2>4. CompactFact(x) /\ x.method = "attention_matching" /\ Selects(x, ctx, b, T, FALSE)
    BY <2>1, <2>2, <2>3, AttentionMatchingIs
  <2> QED BY <2>4, CompressedIs
<1>10. CASE x \in D
  <2>1. PICK n \in Latents : x = Still(ctx, b, n)
    BY <1>10
  <2>2. n \in Nat
    BY EngineAssumption
  <2>3. /\ CompactFact(x) /\ x.method = "still" /\ x.len = T
        /\ \E k \in Nat \ {0} : /\ n # NoPerceivers => k = n
                                /\ \A h \in Heads : x.heads[h] = Perceive(ctx, k) /\ Below(x.heads[h], k, T)
    BY <2>1, <2>2, StillIs
  <2> QED BY <2>3 DEF Compressed
<1> HIDE DEF A, B, C, D
<1> QED BY <1>1, <1>3, <1>4, <1>5, <1>7, <1>8, <1>9, <1>10

-----------------------------------------------------------------------------
(* Caches that are saved, loaded, converted and fused *)

LEMMA RawShaped ==
    ASSUME NEW c, NEW b, NEW g, NEW sg, RawFact(c, b, g, sg), NEW T, T = Len(c.toks)
    PROVE  Shaped(c, T, 0) /\ T \in Nat \ {0}
<1>1. c.toks \in Seq(TokenIds) /\ c.toks # << >> /\ c = RawOf(c.cols, c.toks) /\ Long(c.cols, T)
  BY DEF RawFact
<1>2. T \in Nat /\ T # 0
  BY <1>1, EmptySeq, LenProperties
<1>3. c.kind = "raw" /\ c.positions = Arange(0, T) /\ LogicalLen(c) = T
  <2>1. PICK cols, toks : cols = c.cols /\ toks = c.toks
    OBVIOUS
  <2>2. c = RawOf(cols, toks) /\ Len(toks) \in Nat
    BY <1>1, <1>2, <2>1
  <2> QED BY <2>1, <2>2, RawFields
<1>4. Long(Arange(0, T), T) /\ \A i \in 1 .. T : Arange(0, T)[i] = 0 + i - 1
  BY <1>2, ArangeIs
<1>5. 0 \in Nat
  OBVIOUS
<1> QED BY <1>1, <1>2, <1>3, <1>4, <1>5 DEF Shaped

(* The raw cache a compact one was made of *)
OrigFact(o, b) ==
    /\ b \in {"hf", "vllm", "fake"}
    /\ o.toks \in Seq(TokenIds) /\ o.toks # << >> /\ o = PrefillOf(b, o.toks, 0)

LEMMA OrigShaped ==
    ASSUME NEW o, NEW b, OrigFact(o, b), NEW T, T = LogicalLen(o)
    PROVE  /\ Shaped(o, T, 0) /\ T \in Nat \ {0} /\ T = Len(o.toks)
           /\ b # "fake" => \A i \in 1 .. T : o.cols[i].pos = i - 1
<1>1. PICK toks, cols, n : toks = o.toks /\ cols = Cols(b, toks) /\ n = Len(toks)
  OBVIOUS
<1>2. o = RawOf(cols, toks) /\ toks \in Seq(TokenIds) /\ toks # << >>
  BY <1>1, PrefillIs DEF OrigFact
<1>3. /\ n \in Nat /\ Long(cols, n)
      /\ \A i \in 1 .. n : cols[i].tok = toks[i] /\ (b # "fake" => cols[i].pos = i - 1)
  BY <1>1, <1>2, ColsAre
<1>4. /\ o.kind = "raw" /\ o.cols = cols /\ o.toks = toks /\ o.positions = Arange(0, n)
      /\ LogicalLen(o) = n
  BY <1>1, <1>2, <1>3, RawFields
<1>5. Long(Arange(0, n), n) /\ \A i \in 1 .. n : Arange(0, n)[i] = 0 + i - 1
  BY <1>3, ArangeIs
<1>6. n # 0 /\ 0 \in Nat
  BY <1>1, <1>2, EmptySeq
<1>7. Shaped(o, n, 0)
  BY <1>3, <1>4, <1>5, <1>6 DEF Shaped
<1> QED BY <1>1, <1>3, <1>4, <1>6, <1>7

(* A cache that was saved and read again: the positions are those of the   *)
(* first head                                                              *)
LEMMA Relabelled ==
    ASSUME NEW s, IsSlot(s), NEW p, NEW u, u = [s EXCEPT !.pos = p]
    PROVE  /\ IsSlot(u) /\ u.pos = p /\ u.key = s.key /\ u.val = s.val /\ u.bias = s.bias
           /\ p = s.pos => u = s
<1>1. PICK q, k, v, b : q = s.pos /\ k = s.key /\ v = s.val /\ b = s.bias
  OBVIOUS
<1>2. s = [pos |-> q, key |-> k, val |-> v, bias |-> b] /\ b \in {"zero", "fit"}
  BY <1>1 DEF IsSlot, Slot
<1>3. u = [pos |-> p, key |-> k, val |-> v, bias |-> b]
  BY <1>2
<1>4. u = Slot(p, k, v, b)
  BY <1>3 DEF Slot
<1>5. IsSlot(u) /\ u.pos = p /\ u.key = k /\ u.val = v /\ u.bias = b
  BY <1>2, <1>4, SlotFields
<1> QED BY <1>1, <1>2, <1>3, <1>5

Reread(x, c, n) ==
    /\ CompactFact(x) /\ x.len = c.len /\ x.method = c.method
    /\ \A h \in Heads : /\ IsRow(c.heads[h], n) /\ IsRow(x.heads[h], n)
                        /\ \A i \in 1 .. n : /\ x.heads[h][i].key = c.heads[h][i].key
                                             /\ x.heads[h][i].pos = c.heads[FirstHead][i].pos
                                             /\ c.heads[h][i].pos = c.heads[FirstHead][i].pos
                                                  => x.heads[h][i] = c.heads[h][i]

LEMMA SavedAndRead ==
    ASSUME NEW c, CompactFact(c), SavesCompact(c), NEW x,
           x = LoadCompactCache(SaveCompactCache(c, FirstHead))
    PROVE  \E n : Reread(x, c, n)
<1>1. PICK n : IsRow(c.heads[FirstHead], n)
  BY HeadsAre DEF CompactFact
<1>2. n \in Nat
  BY <1>1 DEF IsRow, Long
<1>3. ASSUME NEW h \in Heads PROVE IsRow(c.heads[h], n)
  <2>1. PICK m : IsRow(c.heads[h], m)
    BY DEF CompactFact
  <2>2. Len(c.heads[h]) = m /\ Len(c.heads[FirstHead]) = n
    BY <1>1, <2>1, LongIsSeq DEF IsRow
  <2>3. m = n
    BY <2>2, HeadsAre DEF SavesCompact
  <2> QED BY <2>1, <2>3
<1>4. PICK f : f = SaveCompactCache(c, FirstHead)
  OBVIOUS
<1>5. DOMAIN c.heads[FirstHead] = 1 .. n
  BY <1>1, LongIsSeq DEF IsRow
<1>6. PICK p : p = [i \in 1 .. n |-> c.heads[FirstHead][i].pos]
  OBVIOUS
<1>7. /\ f.positions = p /\ f.logical_length = c.len /\ f.method = c.method
      /\ f.layers = [h \in Heads |-> c.heads[h]]
  BY <1>4, <1>5, <1>6 DEF SaveCompactCache
<1>8. PICK hs : hs = [h \in Heads |-> [i \in 1 .. n |-> [c.heads[h][i] EXCEPT !.pos = p[i]]]]
  OBVIOUS
<1>9. x = CompactCache(hs, c.len, << >>, c.method)
  <2>1. DOMAIN p = 1 .. n
    BY <1>6
  <2>2. hs = [h \in Heads |-> [i \in DOMAIN f.positions |-> [f.layers[h][i] EXCEPT !.pos = f.positions[i]]]]
    BY <1>7, <1>8, <2>1
  <2> QED BY <1>4, <1>7, <2>2 DEF LoadCompactCache
<1>10. x.heads = hs /\ x.len = c.len /\ x.method = c.method
  BY <1>9, CompactFields
<1>11. ASSUME NEW h \in Heads
       PROVE  /\ IsRow(hs[h], n)
              /\ \A i \in 1 .. n : /\ hs[h][i].key = c.heads[h][i].key
                                   /\ hs[h][i].pos = c.heads[FirstHead][i].pos
                                   /\ c.heads[h][i].pos = c.heads[FirstHead][i].pos
                                        => hs[h][i] = c.heads[h][i]
  <2>1. hs[h] = [i \in 1 .. n |-> [c.heads[h][i] EXCEPT !.pos = p[i]]]
    BY <1>8
  <2>2. Long(hs[h], n)
    BY <1>2, <2>1 DEF Long
  <2>3. ASSUME NEW i \in 1 .. n
        PROVE  /\ IsSlot(hs[h][i]) /\ hs[h][i].key = c.heads[h][i].key
               /\ hs[h][i].pos = c.heads[FirstHead][i].pos
               /\ c.heads[h][i].pos = c.heads[FirstHead][i].pos => hs[h][i] = c.heads[h][i]
    <3>1. PICK s, u, q : s = c.heads[h][i] /\ u = hs[h][i] /\ q = p[i]
      OBVIOUS
    <3>2. IsSlot(s)
      BY <1>3, <3>1 DEF IsRow
    <3>3. u = [s EXCEPT !.pos = q]
      BY <2>1, <3>1
    <3>4. q = c.heads[FirstHead][i].pos
      BY <1>6, <3>1
    <3>5. IsSlot(u) /\ u.pos = q /\ u.key = s.key /\ (q = s.pos => u = s)
      BY <3>2, <3>3, Relabelled
    <3> QED BY <3>1, <3>4, <3>5
  <2> QED BY <2>2, <2>3 DEF IsRow
<1>12. CompactFact(x)
  <2>1. hs = [h \in Heads |-> hs[h]]
    BY <1>8
  <2>2. \A h \in Heads : \E k : IsRow(hs[h], k)
    BY <1>11
  <2>3. c.len \in Nat
    BY DEF CompactFact
  <2> QED BY <1>9, <2>1, <2>2, <2>3, CompactFrom
<1> QED BY <1>3, <1>10, <1>11, <1>12 DEF Reread

(* Raw columns behind compact slots *)
JoinedHead(hd, old, new, n, m) ==
    /\ IsRow(old, n) /\ IsRow(new, m) /\ IsRow(hd, n + m)
    /\ \A i \in 1 .. n : hd[i] = old[i]
    /\ \A j \in 1 .. m : hd[n + j] = new[j]

LEMMA JoinedIs ==
    ASSUME NEW old, NEW n, IsRow(old, n), NEW new, NEW m, IsRow(new, m), NEW hd, Put(hd, old, new)
    PROVE  JoinedHead(hd, old, new, n, m)
<1>1. n \in Nat /\ m \in Nat /\ Long(old, n) /\ Long(new, m)
  BY DEF IsRow, Long
<1>2. /\ Long(hd, n + m) /\ \A i \in 1 .. n : hd[i] = old[i]
      /\ \A j \in 1 .. m : hd[n + j] = new[j]
  BY <1>1, LongConcat
<1>3. ASSUME NEW i \in 1 .. n + m PROVE IsSlot(hd[i])
  <2>1. CASE i <= n
    <3>1. i \in 1 .. n
      BY <1>1, <2>1
    <3> QED BY <1>2, <3>1 DEF IsRow
  <2>2. CASE ~ (i <= n)
    <3>1. PICK j : j = i - n
      OBVIOUS
    <3>2. j \in 1 .. m /\ i = n + j
      BY <1>1, <2>2, <3>1
    <3> QED BY <1>2, <3>2 DEF IsRow
  <2> QED BY <2>1, <2>2
<1> QED BY <1>2, <1>3 DEF JoinedHead, IsRow

Fusion(x, c, r, m, total) ==
    /\ CompactFact(x) /\ x.method = "working_memory" /\ x.len = total
    /\ \A h \in Heads : \E n : JoinedHead(x.heads[h], c.heads[h], SlotsOf(r, h), n, m)

LEMMA CombinedIs ==
    ASSUME NEW c, CompactFact(c), NEW r, NEW m, NEW a, Shaped(r, m, a), NEW total \in Nat,
           NEW x, x = Combined(c, r, total)
    PROVE  Fusion(x, c, r, m, total)
<1>1. PICK hs : hs = [h \in Heads |-> c.heads[h] \o SlotsOf(r, h)]
  OBVIOUS
<1>2. x = CompactCache(hs, total, << >>, "working_memory")
  BY <1>1 DEF Combined
<1>3. ASSUME NEW h \in Heads
      PROVE  \E n : JoinedHead(hs[h], c.heads[h], SlotsOf(r, h), n, m)
  <2>1. PICK n : IsRow(c.heads[h], n)
    BY DEF CompactFact
  <2>2. PICK old, new : old = c.heads[h] /\ new = SlotsOf(r, h)
    OBVIOUS
  <2>3. IsRow(new, m)
    BY <2>2, RawSlots
  <2>4. Put(hs[h], old, new)
    BY <1>1, <2>2 DEF Put
  <2>5. JoinedHead(hs[h], old, new, n, m)
    BY <2>1, <2>2, <2>3, <2>4, JoinedIs
  <2> QED BY <2>2, <2>5
<1>4. CompactFact(x)
  <2>1. hs = [h \in Heads |-> hs[h]]
    BY <1>1
  <2>2. \A h \in Heads : \E k : IsRow(hs[h], k)
    BY <1>3 DEF JoinedHead
  <2> QED BY <1>2, <2>1, <2>2, CompactFrom
<1>5. x.heads = hs /\ x.len = total /\ x.method = "working_memory"
  BY <1>2, CompactFields
<1> QED BY <1>3, <1>4, <1>5 DEF Fusion

(* A cartridge *)
CartFact(k) == k.len \in Nat /\ \E n : Long(k.positions, n)

LEMMA CartIs ==
    ASSUME NEW keys, NEW p, NEW n, Long(p, n), NEW len \in Nat, NEW toks, NEW model,
           NEW k, k = CartridgeOf(keys, p, len, toks, model)
    PROVE  CartFact(k)
<1>1. k.len = len /\ k.positions = p
  BY DEF CartridgeOf
<1> QED BY <1>1 DEF CartFact

LEMMA CompiledIs ==
    ASSUME NEW c, NEW T \in Nat \ {0}, Shaped(c, T, 0), NEW t \in {2, 3}, NEW steps, NEW items, NEW model,
           NEW k, k = Compile(c, t, steps, items, model)
    PROVE  CartFact(k)
<1>1. LogicalLen(c) = T
  BY DEF Shaped
<1>2. PICK n : n = Min({t, T})
  OBVIOUS
<1>3. n \in Nat
  <2>1. t \in Nat /\ T \in Nat
    OBVIOUS
  <2>2. n = IF t <= T THEN t ELSE T
    BY <1>2, <2>1, MinOfTwo
  <2> QED BY <2>1, <2>2
<1>4. PICK idx : idx = WarmStart(c, n)
  OBVIOUS
<1>5. PICK p : p = [i \in 1 .. n |-> c.positions[idx[i]]]
  OBVIOUS
<1>6. \E keys : k = CartridgeOf(keys, p, T, << >>, model)
  BY <1>1, <1>2, <1>4, <1>5 DEF Compile
<1>7. Long(p, n)
  BY <1>3, <1>5 DEF Long
<1>8. T \in Nat
  OBVIOUS
<1> QED BY <1>6, <1>7, <1>8, CartIs

LEMMA ConvertedIs ==
    ASSUME NEW c, CompactFact(c), NEW model, NEW k, k = FromCompactCache(c, model)
    PROVE  CartFact(k)
<1>1. PICK n : IsRow(c.heads[FirstHead], n)
  BY HeadsAre DEF CompactFact
<1>2. DOMAIN c.heads[FirstHead] = 1 .. n /\ n \in Nat
  BY <1>1, LongIsSeq DEF IsRow, Long
<1>3. PICK p : p = [i \in 1 .. n |-> c.heads[FirstHead][i].pos]
  OBVIOUS
<1>4. \E keys : k = CartridgeOf(keys, p, c.len, c.toks, model)
  BY <1>2, <1>3 DEF FromCompactCache
<1>5. Long(p, n)
  BY <1>2, <1>3 DEF Long
<1>6. c.len \in Nat
  BY DEF CompactFact
<1> QED BY <1>4, <1>5, <1>6, CartIs

LEMMA UsedIs ==
    ASSUME NEW k, CartFact(k), NEW x, x = ToCompactCache(k)
    PROVE  CompactFact(x) /\ x.method = "cartridge"
<1>1. PICK n : Long(k.positions, n)
  BY DEF CartFact
<1>2. CartridgeT(k) = n /\ n \in Nat
  BY <1>1, LongIsSeq DEF CartridgeT, Long
<1>3. PICK hs : hs = [h \in Heads |-> [i \in 1 .. n |->
                        Slot(k.positions[i], k.keys[h][i].col, k.keys[h][i], "zero")]]
  OBVIOUS
<1>4. x = CompactCache(hs, k.len, k.toks, "cartridge")
  BY <1>2, <1>3 DEF ToCompactCache
<1>5. ASSUME NEW h \in Heads PROVE IsRow(hs[h], n)
  <2>1. hs[h] = [i \in 1 .. n |-> Slot(k.positions[i], k.keys[h][i].col, k.keys[h][i], "zero")]
    BY <1>3
  <2>2. Long(hs[h], n)
    BY <1>2, <2>1 DEF Long
  <2>3. ASSUME NEW i \in 1 .. n PROVE IsSlot(hs[h][i])
    <3>1. hs[h][i] = Slot(k.positions[i], k.keys[h][i].col, k.keys[h][i], "zero")
      BY <2>1
    <3> QED BY <3>1, SlotFields
  <2> QED BY <2>2, <2>3 DEF IsRow
<1>6. CompactFact(x)
  <2>1. hs = [h \in Heads |-> hs[h]]
    BY <1>3
  <2>2. \A h \in Heads : \E m : IsRow(hs[h], m)
    BY <1>5
  <2>3. k.len \in Nat
    BY DEF CartFact
  <2> QED BY <1>4, <2>1, <2>2, <2>3, CompactFrom
<1> QED BY <1>4, <1>6, CompactFields

-----------------------------------------------------------------------------
(* What each step does to the caches and cartridges of the caller          *)

(* no compact cache is held, here or on its way *)
NoneCompact == ctx.kind # "compact" /\ moved.kind # "compact"

(* a raw cache that was begun, grown, recomputed or received *)
RawStep ==
    /\ NoneCompact
    /\ ctx'.kind = "raw"
    /\ moved' = None \/ (ctx.kind = "raw" /\ moved' = moved)
    /\ UNCHANGED <<backend, orig, asked, cart, files>>

(* a raw cache that leaves *)
RawLeaves ==
    /\ ctx.kind = "raw" /\ ctx' = None /\ moved'.kind \in {"kv", "paged"}
    /\ UNCHANGED <<backend, orig, asked, cart, files>>

CompactLeaves ==
    /\ ctx.kind = "compact" /\ SavesCompact(ctx)
    /\ ctx' = None /\ moved' = SaveCompactCache(ctx, FirstHead) /\ moved'.kind = "compact"
    /\ UNCHANGED <<backend, orig, asked, cart, files>>

NothingChanges == UNCHANGED <<backend, ctx, moved, orig, asked, cart, files>>

Compiles(t, steps, items) ==
    /\ Raw /\ genuine = Exact
    /\ ctx' = None /\ cart' = Compile(ctx, t, steps, items, "model") /\ orig' = ctx
    /\ UNCHANGED <<backend, moved, asked, files>>

Converts ==
    /\ Compacted /\ ctx.method \notin {"cartridge", "working_memory"} /\ Uniform(ctx)
    /\ cart' = FromCompactCache(ctx, "model")
    /\ ctx' = None /\ orig' = None /\ asked' = None
    /\ UNCHANGED <<backend, moved, files>>

LEMMA PrefillKind ==
    ASSUME NEW b \in {"hf", "vllm", "fake"}, NEW toks, NEW c, c = PrefillOf(b, toks, 0)
    PROVE  c.kind = "raw"
<1>1. PICK cols : c = RawOf(cols, toks)
  BY PrefillIs
<1> QED BY <1>1, KindsDiffer DEF RawOf

LEMMA ExtendKind ==
    ASSUME NEW c, c.kind = "raw", NEW d, NEW p, NEW g
    PROVE  /\ HF!Extend(c, d).kind = "raw" /\ FK!Extend(c, d).kind = "raw"
           /\ HF!GenerateAndExtend(c, p, g).kind = "raw" /\ FK!GenerateAndExtend(c, p, g).kind = "raw"
<1>1. HF!Extend(c, d).kind = "raw"
  BY DEF HF!Extend, HF!KVCache
<1>2. \A x : FK!Extend(c, x).kind = "raw"
  BY DEF FK!Extend, FK!Prefill, FK!KVCache
<1>3. HF!GenerateAndExtend(c, p, g).kind = "raw"
  BY DEF HF!GenerateAndExtend, HF!KVCache
<1>4. FK!GenerateAndExtend(c, p, g).kind = "raw"
  BY <1>2 DEF FK!GenerateAndExtend
<1> QED BY <1>1, <1>2, <1>3, <1>4

LEMMA RecomputeKind ==
    ASSUME NEW c, NEW prev, NEW new, NEW frac, NEW st, NEW x \in HF!RecomputeSelective(c, prev, new, frac, st)
    PROVE  HF!RecomputeIncremental(c, prev, new).kind = "raw" /\ x.kind = "raw"
<1>1. HF!RecomputeIncremental(c, prev, new).kind = "raw"
  <2>1. \A n : HF!SliceKV(c, n).kind = "raw"
    BY DEF HF!SliceKV, HF!KVCache
  <2>2. \A n, d : HF!Extend(HF!SliceKV(c, n), d).kind = "raw"
    BY <2>1, ExtendKind
  <2> QED BY <2>2 DEF HF!RecomputeIncremental
<1>2. x.kind = "raw"
  <2>1. PICK correct, plan, idx : x = HF!Blend(HF!AssembleReused(c, correct, plan, prev), correct, idx)
    BY DEF HF!RecomputeSelective
  <2>2. PICK r : r = HF!AssembleReused(c, correct, plan, prev)
    OBVIOUS
  <2>3. PICK cols, p, t : r = [kind |-> "raw", cols |-> cols, positions |-> p, toks |-> t]
    BY <2>2 DEF HF!AssembleReused, HF!KVCache
  <2>4. x.kind = r.kind
    BY <2>1, <2>2, <2>3 DEF HF!Blend
  <2> QED BY <2>3, <2>4
<1> QED BY <1>1, <1>2

LEMMA RawSteps ==
    ASSUME CoreInv, Next
    PROVE  /\ \A sg \in Segmentations : Start(sg) => RawStep
           /\ \A sg, f, st : RecomputeIncremental(sg) \/ RecomputeSelective(sg, f, st) => RawStep
           /\ \A d : ExtendContext(d) => RawStep \/ NothingChanges
           /\ \A p, g : GenerateAndExtend(p, g) => RawStep \/ NothingChanges
           /\ ResumeRaw => RawStep
           /\ \A t \in BlockTables : ConnectorLoad(t) => RawStep
<1>0. backend \in {"hf", "vllm", "fake"}
  BY DEF CoreInv
<1>10. ctx.kind = "raw" => NoneCompact
  BY KindsDiffer DEF CoreInv, Carried, NoneCompact
<1>11. moved.kind \in {"kv", "paged"} => NoneCompact
  BY KindsDiffer DEF CoreInv, Carried, NoneCompact
<1>1. ASSUME NEW sg \in Segmentations, Start(sg) PROVE RawStep
  <2>1. /\ ctx' = PrefillOf(backend, HF!Tokens(sg), 0) /\ moved = None
        /\ UNCHANGED <<backend, orig, asked, cart, files, moved>>
    BY <1>1 DEF Start
  <2>2. ctx'.kind = "raw"
    BY <1>0, <2>1, PrefillKind
  <2>3. NoneCompact
    BY <1>1, KindsDiffer DEF Start, NoneCompact
  <2> QED BY <2>1, <2>2, <2>3 DEF RawStep
<1>2. ASSUME NEW sg, NEW f, NEW st, RecomputeIncremental(sg) \/ RecomputeSelective(sg, f, st)
      PROVE  RawStep
  <2>1. /\ ctx.kind = "raw" /\ UNCHANGED <<backend, orig, asked, cart, files, moved>>
        /\ \/ ctx' = HF!RecomputeIncremental(ctx, segs, sg)
           \/ ctx' \in HF!RecomputeSelective(ctx, segs, sg, f, st)
    BY <1>2 DEF RecomputeIncremental, RecomputeSelective, Raw
  <2>2. ctx'.kind = "raw"
    <3>1. CASE ctx' = HF!RecomputeIncremental(ctx, segs, sg)
      <4>1. \A n : HF!SliceKV(ctx, n).kind = "raw"
        BY DEF HF!SliceKV, HF!KVCache
      <4>2. \A n, d : HF!Extend(HF!SliceKV(ctx, n), d).kind = "raw"
        BY <4>1, ExtendKind
      <4> QED BY <3>1, <4>2 DEF HF!RecomputeIncremental
    <3>2. CASE ctx' \in HF!RecomputeSelective(ctx, segs, sg, f, st)
      BY <3>2, RecomputeKind
    <3> QED BY <2>1, <3>1, <3>2
  <2> QED BY <1>10, <2>1, <2>2 DEF RawStep
<1>3. ASSUME NEW d, ExtendContext(d) PROVE RawStep \/ NothingChanges
  <2>1. \/ UNCHANGED <<backend, ctx, moved, orig, asked, cart, files>>
        \/ /\ ctx.kind = "raw" /\ UNCHANGED <<backend, orig, asked, cart, files, moved>>
           /\ ctx' = HF!Extend(ctx, d) \/ ctx' = FK!Extend(ctx, d)
    BY <1>3 DEF ExtendContext, Raw, Unsupported
  <2> QED BY <1>10, <2>1, ExtendKind DEF RawStep, NothingChanges
<1>4. ASSUME NEW p, NEW g, GenerateAndExtend(p, g) PROVE RawStep \/ NothingChanges
  <2>1. \/ UNCHANGED <<backend, ctx, moved, orig, asked, cart, files>>
        \/ /\ ctx.kind = "raw" /\ UNCHANGED <<backend, orig, asked, cart, files, moved>>
           /\ ctx' = HF!GenerateAndExtend(ctx, p, g) \/ ctx' = FK!GenerateAndExtend(ctx, p, g)
    BY <1>4 DEF GenerateAndExtend, Raw, Unsupported
  <2> QED BY <1>10, <2>1, ExtendKind DEF RawStep, NothingChanges
<1>5. ASSUME ResumeRaw PROVE RawStep
  <2>1. ctx' = LoadKVCache(moved) /\ moved' = None /\ UNCHANGED <<backend, orig, asked, cart, files>>
    BY <1>5 DEF ResumeRaw
  <2>2. NoneCompact
    BY <1>5, <1>11 DEF ResumeRaw
  <2> QED BY <2>1, <2>2, KindsDiffer DEF RawStep, LoadKVCache
<1>6. ASSUME NEW t \in BlockTables, ConnectorLoad(t) PROVE RawStep
  <2>1. /\ \E cols, p, toks : ctx' = KVCache(cols, p, toks)
        /\ moved' = None /\ UNCHANGED <<backend, orig, asked, cart, files>>
    BY <1>6 DEF ConnectorLoad
  <2>2. NoneCompact
    BY <1>6, <1>11 DEF ConnectorLoad
  <2> QED BY <2>1, <2>2, KindsDiffer DEF RawStep
<1> QED BY <1>1, <1>2, <1>3, <1>4, <1>5, <1>6

LEMMA LeavingSteps ==
    /\ \A u, p, d : PersistRaw(u, p, d) => RawLeaves
    /\ \A t : ConnectorSave(t) => RawLeaves
    /\ PersistCompact => CompactLeaves \/ NothingChanges
<1>1. ASSUME NEW u, NEW p, NEW d, PersistRaw(u, p, d) PROVE RawLeaves
  <2>1. /\ ctx.kind = "raw" /\ ctx' = None /\ moved' = SaveKVCache(ctx, u, p, d)
        /\ UNCHANGED <<backend, orig, asked, cart, files>>
    BY <1>1 DEF PersistRaw, Persisted, Raw
  <2>2. moved'.kind = "kv"
    BY <2>1 DEF SaveKVCache
  <2> QED BY <2>1, <2>2 DEF RawLeaves
<1>2. ASSUME NEW t, ConnectorSave(t) PROVE RawLeaves
  <2>1. /\ ctx.kind = "raw" /\ ctx' = None
        /\ \E toks, kv : moved' = StoreKVCache(toks, kv, "model")
        /\ UNCHANGED <<backend, orig, asked, cart, files>>
    BY <1>2 DEF ConnectorSave, Persisted, Raw
  <2>2. moved'.kind = "paged"
    BY <2>1 DEF StoreKVCache
  <2> QED BY <2>1, <2>2 DEF RawLeaves
<1>3. ASSUME PersistCompact PROVE CompactLeaves \/ NothingChanges
  <2>1. CASE SavesCompact(ctx) /\ Persisted(SaveCompactCache(ctx, FirstHead))
    <3>1. /\ ctx' = None /\ moved' = SaveCompactCache(ctx, FirstHead)
          /\ UNCHANGED <<backend, orig, asked, cart, files>>
      BY <2>1 DEF Persisted
    <3>2. ctx.kind = "compact"
      BY <1>3 DEF PersistCompact, Compacted
    <3>3. moved'.kind = "compact"
      BY <3>1 DEF SaveCompactCache
    <3> QED BY <2>1, <3>1, <3>2, <3>3 DEF CompactLeaves
  <2>2. CASE Unsupported
    BY <2>2 DEF Unsupported, NothingChanges
  <2> QED BY <1>3, <2>1, <2>2 DEF PersistCompact
<1> QED BY <1>1, <1>2, <1>3

LEMMA ReadsChangeNothing ==
    ASSUME \/ \E n, answers, steps : TrainStill(n, answers, steps)
           \/ \E p, r : Score(p, r) \/ Generate(p, r) \/ ServeCartridge(p, r)
           \/ \E st, n : ReferenceQueries(st, n)
           \/ \E shim : EnableCompactDecode(shim)
           \/ Return
    PROVE  NothingChanges
  BY DEF TrainStill, Score, Generate, ServeCartridge, ReferenceQueries, EnableCompactDecode, Return,
         NothingChanges

LEMMA CartSteps ==
    /\ \A t, steps, k, c : CompileCartridge(t, steps, k, c) =>
          NothingChanges \/ Compiles(t, steps, SelfStudy(k, c))
    /\ ConvertToCartridge => NothingChanges \/ Converts
<1>1. ASSUME NEW t, NEW steps, NEW k, NEW c, CompileCartridge(t, steps, k, c)
      PROVE  NothingChanges \/ Compiles(t, steps, SelfStudy(k, c))
  <2>1. PICK items : items = SelfStudy(k, c)
    OBVIOUS
  <2>2. /\ Raw /\ genuine = Exact
        /\ \/ UNCHANGED <<ctx, cart, orig>>
           \/ ctx' = None /\ cart' = Compile(ctx, t, steps, items, "model") /\ orig' = ctx
        /\ UNCHANGED <<backend, moved, asked, files>>
    BY <1>1, <2>1 DEF CompileCartridge
  <2> QED BY <2>1, <2>2 DEF NothingChanges, Compiles
<1>2. ASSUME ConvertToCartridge PROVE NothingChanges \/ Converts
  BY <1>2 DEF ConvertToCartridge, NothingChanges, Converts
<1> QED BY <1>1, <1>2

(* Every step does one of these *)
LEMMA Steps ==
    ASSUME CoreInv, Next
    PROVE  \/ NothingChanges \/ RawStep \/ RawLeaves \/ CompactLeaves \/ Converts
           \/ \E b \in Budgets : Compact(b)
           \/ \E s \in Seq(TokenIds) : Fuse(s)
           \/ \E t \in {2, 3} : \E steps, items : Compiles(t, steps, items)
           \/ UseCartridge \/ ResumeCompact \/ Drop
           \/ \E path : SaveCartridge(path) \/ LoadCartridge(path)
<1>1. CASE \E sg \in Segmentations :
              \/ Start(sg)
              \/ RecomputeIncremental(sg)
              \/ \E f \in SelectFracs, st \in {"hkvd", "recent", "random"} : RecomputeSelective(sg, f, st)
  BY <1>1, RawSteps
<1>2. CASE \E s \in Segments \cup {<< >>} : ExtendContext(s) \/ Fuse(s)
  BY <1>2, TokensTyped, RawSteps
<1>3. CASE \E p \in Prompts, r \in Responses : GenerateAndExtend(p, r) \/ Score(p, r) \/ Generate(p, r)
  BY <1>3, RawSteps, ReadsChangeNothing
<1>4. CASE \E st \in {"self", "repeat_prefill", "self_study"}, n \in {2, 3} : ReferenceQueries(st, n)
  BY <1>4, ReadsChangeNothing
<1>5. CASE \E b \in Budgets : Compact(b)
  BY <1>5
<1>6. CASE \E n \in Latents, steps \in {0, 1}, answers \in SeqOf(Responses \ {<< >>}, 1) :
              TrainStill(n, answers, steps)
  BY <1>6, ReadsChangeNothing
<1>7. CASE \E t \in {2, 3}, steps \in {0, 1}, k \in {"qa", "corpus_span"}, c \in Chats :
              CompileCartridge(t, steps, k, c)
  BY <1>7, CartSteps
<1>8. CASE ConvertToCartridge \/ UseCartridge
  BY <1>8, CartSteps
<1>9. CASE \E path \in Paths : SaveCartridge(path) \/ LoadCartridge(path)
  BY <1>9
<1>10. CASE \E p \in Prompts, r \in Responses : ServeCartridge(p, r)
  BY <1>10, ReadsChangeNothing
<1>11. CASE \E shim \in BOOLEAN : EnableCompactDecode(shim)
  BY <1>11, ReadsChangeNothing
<1>12. CASE \E d \in Dtypes, prec \in Precisions : \E u \in Numbers(d) : PersistRaw(u, prec, d)
  BY <1>12, LeavingSteps
<1>13. CASE PersistCompact \/ ResumeRaw \/ ResumeCompact
  BY <1>13, LeavingSteps, RawSteps
<1>14. CASE \E t \in BlockTables : ConnectorSave(t) \/ ConnectorLoad(t)
  BY <1>14, LeavingSteps, RawSteps
<1>15. CASE Return \/ Drop
  BY <1>15, ReadsChangeNothing
<1> QED BY <1>1, <1>2, <1>3, <1>4, <1>5, <1>6, <1>7, <1>8, <1>9, <1>10, <1>11, <1>12, <1>13,
           <1>14, <1>15 DEF Next

-----------------------------------------------------------------------------
(* Every compact cache and every cartridge is made of slots                *)

(* tokens prefilled on their own, behind others *)
LEMMA OffsetPrefill ==
    ASSUME NEW b \in {"hf", "vllm", "fake"}, NEW toks \in Seq(TokenIds), NEW a \in Nat,
           NEW n, n = Len(toks), NEW c, c = PrefillOf(b, toks, a)
    PROVE  /\ Shaped(c, n, a)
           /\ b = "hf" => \A i \in 1 .. n : c.cols[i].pos = a + i - 1
<1>1. n \in Nat /\ Long(toks, n) /\ DOMAIN toks = 1 .. n
  BY SeqIsLong, LongIsSeq, LenProperties
<1>2. \E cols : /\ c = KVCache(cols, Arange(a, n), toks) /\ Long(cols, n)
                /\ b = "hf" => \A i \in 1 .. n : cols[i].pos = a + i - 1
  <2>1. CASE b = "hf"
    <3>1. PICK w : w = Forward(<< >>, toks, a)
      OBVIOUS
    <3>2. Long(<< >>, 0)
      BY EmptyLong
    <3>3. Follows(w, << >>, 0, toks, n, a)
      BY <1>1, <3>1, <3>2, ForwardFollows
    <3>4. Long(w, n)
      <4>1. Long(w, 0 + n)
        BY <3>3 DEF Follows
      <4>2. 0 + n = n
        BY <1>1
      <4> QED BY <4>1, <4>2
    <3>5. ASSUME NEW i \in 1 .. n PROVE w[i].pos = a + i - 1
      <4>1. \A k \in 1 .. n : w[0 + k] = Column(toks[k], a + k - 1, SubSeq(w, 1, 0 + k - 1))
        BY <3>3 DEF Follows
      <4>2. 0 + i = i
        OBVIOUS
      <4>3. PICK t, p, u : t = toks[i] /\ p = a + i - 1 /\ u = SubSeq(w, 1, 0 + i - 1)
        OBVIOUS
      <4>4. w[i] = Column(t, p, u)
        BY <4>1, <4>2, <4>3
      <4> QED BY <4>3, <4>4 DEF Column
    <3>6. c = KVCache(w, Arange(a, n), toks)
      <4>1. c = HF!Prefill(toks, a)
        BY <2>1 DEF PrefillOf
      <4>2. HF!Prefill(toks, a) = HF!KVCache(HF!Forward(<< >>, toks, a), HF!Arange(a, n), toks)
        BY DEF HF!Prefill
      <4> QED BY <3>1, <4>1, <4>2, SameForward, SameRecords
    <3> QED BY <3>4, <3>5, <3>6
  <2>2. CASE b = "vllm"
    <3>1. PICK w : w = Forward(<< >>, toks, 0)
      OBVIOUS
    <3>2. Long(w, n)
      BY <3>1, ForwardColumns
    <3>3. c = KVCache(w, Arange(a, n), toks)
      <4>1. c = VL!Prefill(toks, a)
        BY <2>2 DEF PrefillOf
      <4>2. VL!Prefill(toks, a) = VL!KVCache(VL!Forward(<< >>, toks, 0), VL!Arange(a, n), toks)
        BY DEF VL!Prefill, VL!CaptureQKV
      <4> QED BY <3>1, <4>1, <4>2, SameForward, SameRecords
    <3> QED BY <2>2, <3>2, <3>3
  <2>3. CASE b = "fake"
    <3>1. PICK w : w = [i \in DOMAIN toks |-> FK!Vector(toks[i])]
      OBVIOUS
    <3>2. Long(w, n)
      BY <1>1, <3>1 DEF Long
    <3>3. c = KVCache(w, Arange(a, n), toks)
      <4>1. c = FK!Prefill(toks, a)
        BY <2>3 DEF PrefillOf
      <4>2. FK!Prefill(toks, a) = FK!KVCache(w, FK!Arange(a, n), toks)
        BY <3>1 DEF FK!Prefill
      <4> QED BY <4>1, <4>2, SameRecords
    <3> QED BY <2>3, <3>2, <3>3
  <2> QED BY <2>1, <2>2, <2>3
<1>3. PICK cols : /\ c = KVCache(cols, Arange(a, n), toks) /\ Long(cols, n)
                  /\ b = "hf" => \A i \in 1 .. n : cols[i].pos = a + i - 1
  BY <1>2
<1>4. PICK p : p = Arange(a, n)
  OBVIOUS
<1>5. c.kind = "raw" /\ c.cols = cols /\ c.positions = p
  <2>1. c = [kind |-> "raw", cols |-> cols, positions |-> p, toks |-> toks]
    BY <1>3, <1>4 DEF KVCache
  <2> QED BY <2>1
<1>6. Long(p, n) /\ Len(p) = n /\ \A i \in 1 .. n : p[i] = a + i - 1
  BY <1>1, <1>4, ArangeIs
<1>7. LogicalLen(c) = n
  BY <1>5, <1>6 DEF LogicalLen
<1> QED BY <1>1, <1>3, <1>5, <1>6, <1>7 DEF Shaped

RowsInv ==
    /\ ctx.kind = "compact" => CompactFact(ctx)
    /\ moved.kind = "compact" => CompactFact(LoadCompactCache(moved))
    /\ cart # None => CartFact(cart)
    /\ \A p \in DOMAIN files : CartFact(files[p])

(* What a caller with a raw cache compacts *)
LEMMA RawContext ==
    ASSUME CoreInv, Raw, genuine = Exact, NEW T, T = LogicalLen(ctx)
    PROVE  /\ T \in Nat \ {0} /\ T = Len(ctx.toks) /\ Shaped(ctx, T, 0) /\ OrigFact(ctx, backend)
           /\ moved.kind \notin {"kv", "paged", "compact"} /\ cart = None
<1>1. /\ RawFact(ctx, backend, genuine, segs) /\ backend \in {"hf", "vllm", "fake"}
      /\ moved.kind \notin {"kv", "paged", "compact"} /\ cart = None
  BY RawHeld
<1>2. PICK n : n = Len(ctx.toks)
  OBVIOUS
<1>3. Shaped(ctx, n, 0) /\ n \in Nat \ {0}
  BY <1>1, <1>2, RawShaped
<1>4. n = T
  BY <1>3 DEF Shaped
<1>5. OrigFact(ctx, backend)
  BY <1>1 DEF OrigFact, RawFact
<1> QED BY <1>1, <1>2, <1>3, <1>4, <1>5

LEMMA RowsStep ==
    ASSUME CoreInv, RowsInv, [Next]_vars
    PROVE  RowsInv'
<1>1. CASE NothingChanges
  BY <1>1 DEF RowsInv, NothingChanges
<1>0. CASE UNCHANGED vars
  BY <1>0 DEF RowsInv, vars
<1>2. CASE RawStep
  <2>1. ctx'.kind # "compact"
    BY <1>2 DEF RawStep
  <2>2. moved'.kind = "compact" => moved' = moved
    BY <1>2, KindsDiffer DEF RawStep
  <2>3. cart' = cart /\ files' = files
    BY <1>2 DEF RawStep
  <2> QED BY <2>1, <2>2, <2>3 DEF RowsInv
<1>3. CASE RawLeaves
  <2>1. ctx'.kind # "compact" /\ moved'.kind # "compact" /\ cart' = cart /\ files' = files
    BY <1>3, KindsDiffer DEF RawLeaves
  <2> QED BY <2>1 DEF RowsInv
<1>4. CASE CompactLeaves
  <2>1. /\ CompactFact(ctx) /\ SavesCompact(ctx) /\ moved' = SaveCompactCache(ctx, FirstHead)
        /\ ctx'.kind # "compact" /\ cart' = cart /\ files' = files
    BY <1>4, KindsDiffer DEF CompactLeaves, RowsInv
  <2>2. PICK x : x = LoadCompactCache(moved')
    OBVIOUS
  <2>3. CompactFact(x)
    <3>1. \E n : Reread(x, ctx, n)
      BY <2>1, <2>2, SavedAndRead
    <3> QED BY <3>1 DEF Reread
  <2> QED BY <2>1, <2>2, <2>3 DEF RowsInv
<1>5. CASE Converts
  <2>1. /\ CompactFact(ctx) /\ cart' = FromCompactCache(ctx, "model") /\ ctx'.kind # "compact"
        /\ moved' = moved /\ files' = files
    BY <1>5, KindsDiffer DEF Converts, Compacted, RowsInv
  <2>2. CartFact(cart')
    BY <2>1, ConvertedIs
  <2> QED BY <2>1, <2>2 DEF RowsInv
<1>6. ASSUME NEW b \in Budgets, Compact(b) PROVE RowsInv'
  <2>1. Raw /\ genuine = Exact /\ ctx' \in Compacts(b) /\ UNCHANGED <<moved, cart, files>>
    BY <1>6 DEF Compact
  <2>2. PICK T : T = LogicalLen(ctx)
    OBVIOUS
  <2>3. Compressed(ctx', ctx, b, T)
    BY <2>1, <2>2, RawContext, CompactsAre
  <2>4. CompactFact(ctx')
    BY <2>3 DEF Compressed
  <2> QED BY <2>1, <2>4 DEF RowsInv
<1>7. ASSUME NEW s \in Seq(TokenIds), Fuse(s) PROVE RowsInv'
  <2>1. /\ CompactFact(ctx) /\ ctx' = Combined(ctx, PrefillOf(backend, s, ctx.len), ctx.len + Len(s))
        /\ UNCHANGED <<moved, cart, files>>
    BY <1>7 DEF Fuse, Compacted, RowsInv
  <2>2. PICK r, n, a, total : r = PrefillOf(backend, s, ctx.len) /\ n = Len(s) /\ a = ctx.len /\ total = a + n
    OBVIOUS
  <2>3. a \in Nat /\ total \in Nat
    <3>1. n \in Nat /\ a \in Nat
      BY <2>1, <2>2, LenProperties DEF CompactFact
    <3> QED BY <2>2, <3>1
  <2>4. Shaped(r, n, a)
    BY <2>2, <2>3, OffsetPrefill DEF CoreInv
  <2>5. ctx' = Combined(ctx, r, total)
    BY <2>1, <2>2
  <2>6. Fusion(ctx', ctx, r, n, total)
    BY <2>1, <2>3, <2>4, <2>5, CombinedIs
  <2> QED BY <2>1, <2>6 DEF RowsInv, Fusion
<1>8. ASSUME NEW t \in {2, 3}, NEW steps, NEW items, Compiles(t, steps, items) PROVE RowsInv'
  <2>1. /\ Raw /\ genuine = Exact /\ ctx'.kind # "compact"
        /\ cart' = Compile(ctx, t, steps, items, "model") /\ UNCHANGED <<moved, files>>
    BY <1>8, KindsDiffer DEF Compiles
  <2>2. PICK T : T = LogicalLen(ctx)
    OBVIOUS
  <2>3. T \in Nat \ {0} /\ Shaped(ctx, T, 0)
    BY <2>1, <2>2, RawContext
  <2>4. CartFact(cart')
    BY <2>1, <2>3, CompiledIs
  <2> QED BY <2>1, <2>4 DEF RowsInv
<1>9. CASE UseCartridge
  <2>1. cart # None /\ ctx' = ToCompactCache(cart) /\ cart' = None /\ UNCHANGED <<moved, files>>
    BY <1>9 DEF UseCartridge
  <2>2. CompactFact(ctx')
    BY <2>1, UsedIs DEF RowsInv
  <2> QED BY <2>1, <2>2 DEF RowsInv
<1>10. CASE ResumeCompact
  <2>1. /\ moved.kind = "compact" /\ ctx' = LoadCompactCache(moved) /\ moved'.kind # "compact"
        /\ UNCHANGED <<cart, files>>
    BY <1>10, KindsDiffer DEF ResumeCompact
  <2> QED BY <2>1 DEF RowsInv
<1>11. CASE Drop
  <2>1. /\ ctx'.kind # "compact" /\ moved'.kind # "compact" /\ cart' = None /\ files' = << >>
    BY <1>11, KindsDiffer DEF Drop
  <2>2. DOMAIN files' = {}
    BY <2>1, EmptySeq
  <2> QED BY <2>1, <2>2 DEF RowsInv
<1>12. ASSUME NEW path, SaveCartridge(path) PROVE RowsInv'
  <2>1. /\ cart # None /\ files' = Save(files, path, cart) /\ UNCHANGED <<ctx, moved, cart>>
    BY <1>12 DEF SaveCartridge
  <2>2. CartFact(cart)
    BY <2>1 DEF RowsInv
  <2>3. \A p \in DOMAIN files' : CartFact(files'[p])
    BY <2>1, <2>2 DEF Save, RowsInv
  <2> QED BY <2>1, <2>2, <2>3 DEF RowsInv
<1>13. ASSUME NEW path, LoadCartridge(path) PROVE RowsInv'
  <2>1. cart' = cart \/ (path \in DOMAIN files /\ cart' = files[path])
    BY <1>13 DEF LoadCartridge, CanLoad
  <2>2. UNCHANGED <<ctx, moved, files>>
    BY <1>13 DEF LoadCartridge
  <2>3. cart' # None => CartFact(cart')
    BY <2>1 DEF RowsInv
  <2> QED BY <2>2, <2>3 DEF RowsInv
<1> QED BY <1>0, <1>1, <1>2, <1>3, <1>4, <1>5, <1>6, <1>7, <1>8, <1>9, <1>10, <1>11, <1>12, <1>13, Steps

LEMMA InitRows ==
    ASSUME Init
    PROVE  RowsInv
<1>1. ctx.kind # "compact" /\ moved.kind # "compact" /\ cart = None /\ files = << >>
  BY KindsDiffer DEF Init
<1>2. DOMAIN files = {}
  BY <1>1, EmptySeq
<1> QED BY <1>1, <1>2 DEF RowsInv

(* Every head of a compact cache is a row of slots, through saving, loading, *)
(* fusion and conversion to a cartridge and back                            *)
THEOREM SlotRows == Spec => []RowsInv
<1>1. Init => RowsInv
  BY InitRows
<1>2. CoreInv /\ RowsInv /\ [Next]_vars => RowsInv'
  BY RowsStep
<1> QED BY <1>1, <1>2, Core, PTL DEF Spec

-----------------------------------------------------------------------------
(* The items of self-study                                                 *)

LEMMA TruncatedIs ==
    ASSUME NEW V, NEW toks \in Seq(V), NEW stop
    PROVE  TruncateAt(toks, stop) \in Seq(V)
<1>1. CASE stop \in Range(toks)
  <2>1. PICK S, n : S = { i \in DOMAIN toks : toks[i] = stop } /\ n = Len(toks)
    OBVIOUS
  <2>2. DOMAIN toks = 1 .. n /\ n \in Nat /\ Long(toks, n)
    BY <2>1, SeqIsLong, LongIsSeq, LenProperties
  <2>3. S \subseteq Nat /\ S # {}
    BY <1>1, <2>1, <2>2 DEF Range
  <2>4. PICK m : m = Min(S)
    OBVIOUS
  <2>5. m \in S
    BY <2>3, <2>4, MinOf
  <2>6. m \in 1 .. n
    BY <2>1, <2>2, <2>5
  <2>7. PICK k : k = m - 1
    OBVIOUS
  <2>8. k \in 0 .. n
    BY <2>2, <2>6, <2>7
  <2>9. PICK u : Cut(u, toks, 1, k)
    BY DEF Cut
  <2>10. Long(u, k) /\ \A i \in 1 .. k : u[i] = toks[i]
    BY <2>2, <2>8, <2>9, LongPrefix
  <2>11. \A i \in 1 .. k : u[i] \in V
    <3>1. \A i \in 1 .. n : toks[i] \in V
      BY <2>1, SeqIsLong
    <3>2. \A i \in 1 .. k : i \in 1 .. n
      BY <2>2, <2>8
    <3> QED BY <2>10, <3>1, <3>2
  <2>12. u \in Seq(V)
    <3>1. u \in [1 .. k -> V] /\ k \in Nat
      BY <2>8, <2>10, <2>11 DEF Long
    <3> QED BY <3>1, SeqDef
  <2>13. TruncateAt(toks, stop) = SubSeq(toks, 1, k)
    BY <1>1, <2>1, <2>4, <2>7 DEF TruncateAt
  <2> QED BY <2>9, <2>12, <2>13 DEF Cut
<1>2. CASE stop \notin Range(toks)
  BY <1>2 DEF TruncateAt
<1> QED BY <1>1, <1>2

(* Every item's query is a sequence of tokens *)
Asks(items) == \A i \in DOMAIN items : \E m : Long(items[i].query, m)

LEMMA DialogsAsk ==
    ASSUME NEW chats \in Chats
    PROVE  Asks(SelfStudyQA(chats, <<Newline>>, Newline))
<1>1. PICK n : Long(chats, n) /\ \A i \in 1 .. n : chats[i] \in [question : Seq(TokenIds), answer : Seq(TokenIds)]
  BY EngineAssumption, SeqIsLong
<1> DEFINE ask(c) == TruncateAt(c.question, Newline)
           tell(c) == TruncateAt(c.answer, Newline)
           V == TokenIds \cup {Newline}
<1>2. ASSUME NEW c, c \in [question : Seq(TokenIds), answer : Seq(TokenIds)]
      PROVE  \E m : Long(ask(c) \o <<Newline>> \o tell(c), m)
  <2>1. PICK x, y : x = c.question /\ y = c.answer /\ x \in Seq(TokenIds) /\ y \in Seq(TokenIds)
    BY <1>2
  <2>2. PICK v, w : v = TruncateAt(x, Newline) /\ w = TruncateAt(y, Newline)
                    /\ v \in Seq(TokenIds) /\ w \in Seq(TokenIds)
    BY <2>1, TruncatedIs
  <2>3. v \in Seq(V) /\ w \in Seq(V) /\ <<Newline>> \in Seq(V)
    BY <2>2
  <2>4. v \o <<Newline>> \o w \in Seq(V)
    BY <2>3
  <2>5. PICK r : r = v \o <<Newline>> \o w
    OBVIOUS
  <2>6. Long(r, Len(r))
    BY <2>4, <2>5, SeqIsLong
  <2> QED BY <2>1, <2>2, <2>5, <2>6
<1>3. PICK S : S = { c \in DOMAIN chats : Len(ask(chats[c])) >= 2 /\ Len(tell(chats[c])) >= 1 }
  OBVIOUS
<1>4. S \subseteq 1 .. n /\ n \in Nat
  <2>1. DOMAIN chats = 1 .. n
    BY <1>1, LongIsSeq
  <2> QED BY <1>1, <1>3, <2>1 DEF Long
<1>5. PICK k : k = Cardinality(S)
  OBVIOUS
<1>6. IsFiniteSet(S) /\ S \subseteq Int
  BY <1>4, SubsetOfTokens
<1>7. PICK kept : kept = At(chats, S)
  OBVIOUS
<1>8. PICK g : Sorted(g, S, k) /\ Long(kept, k) /\ \A i \in 1 .. k : kept[i] = chats[g[i]]
  <2>1. TakenAt(kept, chats, S, k)
    BY <1>5, <1>6, <1>7, AtIs
  <2> QED BY <2>1 DEF TakenAt
<1>9. DOMAIN kept = 1 .. k
  BY <1>8, LongIsSeq
<1>10. ASSUME NEW i \in 1 .. k
       PROVE  \E m : Long(ask(kept[i]) \o <<Newline>> \o tell(kept[i]), m)
  <2>1. kept[i] = chats[g[i]] /\ g[i] \in S
    BY <1>8 DEF Sorted
  <2>2. kept[i] \in [question : Seq(TokenIds), answer : Seq(TokenIds)]
    BY <1>1, <1>4, <2>1
  <2> QED BY <1>2, <2>2
<1> HIDE DEF ask, tell
<1>11. PICK items : items = [i \in 1 .. k |-> [query |-> ask(kept[i]) \o <<Newline>> \o tell(kept[i]),
                                               span |-> Len(tell(kept[i]))]]
  OBVIOUS
<1>12. SelfStudyQA(chats, <<Newline>>, Newline) = items
  BY <1>3, <1>7, <1>9, <1>11 DEF SelfStudyQA, ask, tell
<1>13. \A i \in 1 .. k : items[i].query = ask(kept[i]) \o <<Newline>> \o tell(kept[i])
  BY <1>11
<1>14. DOMAIN items = 1 .. k
  BY <1>11
<1> QED BY <1>10, <1>12, <1>13, <1>14 DEF Asks

(* The sequence of a set holds elements of it *)
LEMMA SetInSequence ==
    ASSUME NEW S, IsFiniteSet(S), NEW s, s = SetToSeq(S)
    PROVE  \A i \in DOMAIN s : s[i] \in S
<1>1. PICK n : n = Cardinality(S)
  OBVIOUS
<1>2. \E f \in [1 .. n -> S] : IsInjective(f)
  <2>1. ExistsBijection(1 .. n, S)
    BY <1>1, FS_CardinalityType
  <2>2. PICK f : f \in Bijection(1 .. n, S)
    BY <2>1 DEF ExistsBijection
  <2>3. f \in [1 .. n -> S] /\ \A a, b \in 1 .. n : f[a] = f[b] => a = b
    BY <2>2 DEF Bijection, Injection, IsInjective
  <2> QED BY <2>3 DEF IsInjective
<1>3. s \in [1 .. n -> S]
  BY <1>1, <1>2 DEF SetToSeq
<1> QED BY <1>3

(* One span: up to len tokens from s + 1 on *)
SpanOf(toks, s, len, T) == SubSeq(toks, s + 1, Min({s + len, T}))

LEMMA SpanIs ==
    ASSUME NEW V, NEW toks \in Seq(V), NEW s \in Nat, NEW len \in Nat \ {0},
           NEW T, T = Len(toks)
    PROVE  SpanOf(toks, s, len, T) \in Seq(V)
<1>2. T \in Nat
  BY LenProperties
<1>3. PICK b : b = Min({s + len, T})
  OBVIOUS
<1>4. b \in 0 .. T
  <2>1. PICK c : c = s + len
    OBVIOUS
  <2>2. c \in Nat
    BY <2>1
  <2>3. b = IF c <= T THEN c ELSE T
    BY <1>2, <1>3, <2>1, <2>2, MinOfTwo
  <2> QED BY <1>2, <2>2, <2>3
<1>5. PICK m : m = s + 1
  OBVIOUS
<1>6. m \in Nat /\ m >= 1
  BY <1>5
<1>7. SubSeq(toks, m, b) \in Seq(V)
  BY <1>4, <1>6, SubSeqIn
<1> QED BY <1>3, <1>5, <1>7 DEF SpanOf

SpanItem(q) == [query |-> q, span |-> Len(q)]

LEMMA SpansAsk ==
    ASSUME NEW toks \in Seq(TokenIds)
    PROVE  Asks(SelfStudySpans(toks, 2, 8))
<1>1. PICK T, n, lin : T = Len(toks) /\ n = Max({0, T - 8}) + 1 /\ lin = Linspace(n, 2)
  OBVIOUS
<1>2. T \in Nat
  BY <1>1, LenProperties
<1>3. n \in Nat \ {0} /\ n - 1 = Max({0, T - 8})
  <2>1. PICK m : m = Max({0, T - 8})
    OBVIOUS
  <2>2. m \in Nat
    <3>1. CASE T < 8
      <4>1. m = 0
        <5>1. PICK e : e = T - 8
          OBVIOUS
        <5>2. e \in Int /\ e < 0
          BY <1>2, <3>1, <5>1
        <5>3. m = CHOOSE x \in {0, e} : \A y \in {0, e} : x >= y
          BY <2>1, <5>1 DEF Max
        <5> QED BY <5>2, <5>3
      <4> QED BY <4>1
    <3>2. CASE T >= 8
      <4>1. T - 8 \in Nat /\ 0 \in Nat
        BY <1>2, <3>2
      <4> QED BY <2>1, <4>1, MaxOfAny
    <3> QED BY <1>2, <3>1, <3>2
  <2> QED BY <1>1, <2>1, <2>2
<1>4. \A i \in 1 .. 2 : lin[i] \in 0 .. n - 1
  BY <1>1, <1>3, EvenlySpread
<1>5. DOMAIN lin = 1 .. 2
  BY <1>1 DEF Linspace
<1> DEFINE cut(s) == SpanOf(toks, s, 8, T)
<1>6. PICK a, b : a = cut(lin[1]) /\ b = cut(lin[2])
  OBVIOUS
<1>7. a \in Seq(TokenIds) /\ b \in Seq(TokenIds)
  <2>1. ASSUME NEW s \in 0 .. n - 1 PROVE cut(s) \in Seq(TokenIds)
    <3>1. s \in Nat /\ 8 \in Nat \ {0}
      BY <1>3
    <3> QED BY <1>1, <3>1, SpanIs
  <2>2. lin[1] \in 0 .. n - 1 /\ lin[2] \in 0 .. n - 1
    BY <1>4
  <2> HIDE DEF cut
  <2> QED BY <1>6, <2>1, <2>2
<1>8. PICK spans : spans = { cut(s) : s \in Range(lin) }
  OBVIOUS
<1>9. spans = {a, b}
  <2>1. Range(lin) = {lin[1], lin[2]}
    BY <1>5 DEF Range
  <2> HIDE DEF cut
  <2> QED BY <1>6, <1>8, <2>1
<1>10. PICK S : S = { SpanItem(q) : q \in { q \in spans : Len(q) >= 2 } }
  OBVIOUS
<1>11. IsFiniteSet(S)
  <2>1. PICK x, y : x = SpanItem(a) /\ y = SpanItem(b)
    OBVIOUS
  <2>2. S \in SUBSET {x, y}
    BY <1>9, <1>10, <2>1
  <2>3. IsFiniteSet({x, y})
    <3>1. IsFiniteSet({} \cup {x})
      BY FS_EmptySet, FS_AddElement
    <3>2. PICK X : X = {} \cup {x}
      OBVIOUS
    <3>3. IsFiniteSet(X \cup {y})
      BY <3>1, <3>2, FS_AddElement
    <3>4. X \cup {y} = {x, y}
      BY <3>2
    <3> QED BY <3>3, <3>4
  <2> QED BY <2>2, <2>3, FS_Subset
<1>12. PICK items : items = SetToSeq(S)
  OBVIOUS
<1>13. SelfStudySpans(toks, 2, 8) = items
  <2>1. Max({1, 2}) = 2
    <3>1. 1 \in Nat /\ 2 \in Nat
      OBVIOUS
    <3> QED BY <3>1, MaxOfAny
  <2>2. S = { [query |-> q, span |-> Len(q)] : q \in { q \in spans : Len(q) >= 2 } }
    BY <1>10 DEF SpanItem
  <2>3. \A s : cut(s) = SubSeq(toks, s + 1, Min({s + 8, T}))
    BY DEF SpanOf
  <2> HIDE DEF cut
  <2> QED BY <1>1, <1>8, <1>12, <2>1, <2>2, <2>3 DEF SelfStudySpans
<1>14. \A i \in DOMAIN items : items[i] \in S
  BY <1>11, <1>12, SetInSequence
<1>15. ASSUME NEW r \in S PROVE \E m : Long(r.query, m)
  <2>1. PICK q : q \in {a, b} /\ r = SpanItem(q)
    BY <1>9, <1>10
  <2>2. r.query = q
    BY <2>1 DEF SpanItem
  <2> QED BY <1>7, <2>1, <2>2, SeqIsLong
<1> QED BY <1>13, <1>14, <1>15 DEF Asks

-----------------------------------------------------------------------------
(* What is decoded over a cache: for each token a row that saw the cache   *)
(* and the tokens up to it, fed at positions from a on                     *)

FedTo(u, a, j) == [i \in 1 .. j |-> [tok |-> u[i], pos |-> a + i - 1]]

Decoded(w, view, u, n, a) ==
    Long(w, n) /\ \A j \in 1 .. n : w[j] = [cached |-> view, fed |-> FedTo(u, a, j)]

ViewOf(c) == [q \in QHeads |-> HF!CachedView(c, q)]

LEMMA SameSize == ASSUME NEW S PROVE HF!Cardinality(S) = Cardinality(S)
BY DEF HF!Cardinality, Cardinality

LEMMA SameHeads == HF!QHeads = QHeads /\ HF!Heads = Heads
<1>1. HF!QHeads = QHeads
  BY SameSize DEF HF!QHeads, QHeads
<1>2. HF!Heads = Heads
  BY DEF HF!Heads, Heads
<1> QED BY <1>1, <1>2

LEMMA DecodedIs ==
    ASSUME NEW c, NEW u, NEW n, Long(u, n), NEW w, w = HF!DecodeLogits(c, u)
    PROVE  Decoded(w, ViewOf(c), u, n, LogicalLen(c))
<1>1. DOMAIN u = 1 .. n /\ n \in Nat
  BY LongIsSeq DEF Long
<1>2. HF!QHeads = QHeads
  BY SameHeads
<1>3. HF!LogicalLen(c) = LogicalLen(c)
  BY SameLen
<1>4. PICK v, a : v = ViewOf(c) /\ a = LogicalLen(c)
  OBVIOUS
<1>5. [q \in HF!QHeads |-> HF!CachedView(c, q)] = v
  BY <1>2, <1>4 DEF ViewOf
<1>6. w = [j \in 1 .. n |-> [cached |-> v, fed |-> FedTo(u, a, j)]]
  BY <1>1, <1>3, <1>4, <1>5 DEF HF!DecodeLogits, FedTo
<1>7. Long(w, n)
  <2> DEFINE row(j) == [cached |-> v, fed |-> FedTo(u, a, j)]
  <2>1. w = [j \in 1 .. n |-> row(j)]
    BY <1>6
  <2> HIDE DEF row
  <2> QED BY <1>1, <2>1 DEF Long
<1> QED BY <1>4, <1>6, <1>7 DEF Decoded

LEMMA LastRow ==
    ASSUME NEW s, NEW n \in Nat \ {0}, Long(s, n)
    PROVE  Last(s) = s[n]
<1>1. Len(s) = n
  BY LongIsSeq
<1> QED BY <1>1 DEF Last

(* the position of the last token fed *)
LEMMA LastFed ==
    ASSUME NEW c, NEW a \in Nat, a = LogicalLen(c), NEW u, NEW n \in Nat \ {0}, Long(u, n),
           NEW w, w = HF!DecodeLogits(c, u)
    PROVE  Last(Last(w).fed).pos = a + n - 1
<1>1. Decoded(w, ViewOf(c), u, n, LogicalLen(c))
  BY DecodedIs
<1>2. Long(w, n) /\ n \in 1 .. n
  BY <1>1 DEF Decoded
<1>3. PICK r : r = Last(w)
  OBVIOUS
<1>4. r = w[n]
  BY <1>2, <1>3, LastRow
<1>5. r.fed = FedTo(u, a, n)
  <2>1. w[n] = [cached |-> ViewOf(c), fed |-> FedTo(u, LogicalLen(c), n)]
    BY <1>1, <1>2 DEF Decoded
  <2> QED BY <1>4, <2>1, a = LogicalLen(c)
<1>6. PICK f : f = r.fed
  OBVIOUS
<1>7. Long(f, n) /\ f[n].pos = a + n - 1
  BY <1>2, <1>5, <1>6 DEF Long, FedTo
<1>8. Last(f) = f[n]
  BY <1>7, LastRow
<1> QED BY <1>3, <1>6, <1>7, <1>8

(* What the teacher of an item is read at *)
Teacher(c, it) ==
    [i \in DOMAIN it.query |-> Last(Last(HF!DecodeLogits(c, SubSeq(it.query, 1, i))).fed).pos]

LEMMA TeacherIs ==
    ASSUME NEW c, NEW T \in Nat, T = LogicalLen(c), NEW it, NEW m, Long(it.query, m), NEW t
    PROVE  Teacher(c, it) = StudentPositions(T, t, it)
<1>1. PICK q : q = it.query
  OBVIOUS
<1>2. Long(q, m) /\ Len(q) = m /\ DOMAIN q = 1 .. m /\ m \in Nat
  BY <1>1, LongIsSeq DEF Long
<1>3. ASSUME NEW i \in 1 .. m
      PROVE  Last(Last(HF!DecodeLogits(c, SubSeq(q, 1, i))).fed).pos = T + i - 1
  <2>1. PICK u : u = SubSeq(q, 1, i)
    OBVIOUS
  <2>2. Cut(u, q, 1, i) /\ i \in 0 .. m
    BY <1>2, <2>1 DEF Cut
  <2>3. Long(u, i)
    BY <1>2, <2>2, LongPrefix
  <2>4. i \in Nat \ {0}
    BY <1>2
  <2>5. PICK w : w = HF!DecodeLogits(c, u)
    OBVIOUS
  <2>6. Last(Last(w).fed).pos = T + i - 1
    BY <2>3, <2>4, <2>5, LastFed
  <2> QED BY <2>1, <2>5, <2>6
<1>4. StudentPositions(T, t, it) = [i \in 1 .. m |-> T + i - 1]
  BY <1>1, <1>2 DEF StudentPositions, Arange
<1>5. Teacher(c, it) = [i \in 1 .. m |-> T + i - 1]
  <2> DEFINE read(i) == Last(Last(HF!DecodeLogits(c, SubSeq(q, 1, i))).fed).pos
  <2>1. Teacher(c, it) = [i \in 1 .. m |-> read(i)]
    BY <1>1, <1>2 DEF Teacher
  <2>2. \A i \in 1 .. m : read(i) = T + i - 1
    BY <1>3
  <2> HIDE DEF read
  <2> QED BY <2>1, <2>2
<1> QED BY <1>4, <1>5

(* Positions spread from 0 to T - 1 *)
Spread(x, n, T) ==
    /\ n \in Nat \ {0} /\ \A i \in 1 .. n : x[i] \in 0 .. T - 1
    /\ x[1] = 0
    /\ \A i, j \in 1 .. n : i < j => x[i] < x[j]
    /\ n > 1 => x[n] = T - 1

LEMMA SpreadIs ==
    ASSUME NEW T \in Nat \ {0}, NEW n \in {1, 2, 3}, n <= T, NEW x, x = Linspace(T, n)
    PROVE  Spread(x, n, T)
<1>1. \A i \in 1 .. n : x[i] = IF n = 1 THEN 0 ELSE ((i - 1) * (T - 1)) \div (n - 1)
  BY DEF Linspace
<1>2. CASE n = 1
  <2>1. x[1] = 0 /\ \A i \in 1 .. n : i = 1
    BY <1>1, <1>2
  <2> QED BY <1>2, <2>1 DEF Spread
<1>3. CASE n = 2
  <2>1. x[1] = 0 /\ x[2] = T - 1
    <3>1. x[1] = (0 * (T - 1)) \div 1 /\ x[2] = (1 * (T - 1)) \div 1
      BY <1>1, <1>3
    <3> QED BY <3>1
  <2>2. \A i \in 1 .. n : i = 1 \/ i = 2
    BY <1>3
  <2> QED BY <1>3, <2>1, <2>2 DEF Spread
<1>4. CASE n = 3
  <2>1. x[1] = 0 /\ x[2] = (T - 1) \div 2 /\ x[3] = T - 1
    <3>1. /\ x[1] = (0 * (T - 1)) \div 2 /\ x[2] = (1 * (T - 1)) \div 2
          /\ x[3] = (2 * (T - 1)) \div 2
      BY <1>1, <1>4
    <3> QED BY <3>1
  <2>2. (T - 1) \div 2 > 0 /\ (T - 1) \div 2 < T - 1 /\ (T - 1) \div 2 \in Int
    BY <1>4
  <2>3. \A i \in 1 .. n : i = 1 \/ i = 2 \/ i = 3
    BY <1>4
  <2> QED BY <1>4, <2>1, <2>2, <2>3 DEF Spread
<1> QED BY <1>2, <1>3, <1>4

LEMMA WarmStartIs ==
    ASSUME NEW c, NEW T \in Nat \ {0}, Shaped(c, T, 0), NEW t \in {2, 3}, NEW steps, NEW items, NEW model,
           NEW k, k = Compile(c, t, steps, items, model), NEW p, p = k.positions
    PROVE  p[1] = 0 /\ StrictlyIncreasing(p) /\ (CartridgeT(k) > 1 => Last(p) = T - 1)
<1>1. LogicalLen(c) = T
  BY DEF Shaped
<1>2. PICK n : n = Min({t, T})
  OBVIOUS
<1>3. n \in {1, 2, 3} /\ n <= T
  <2>1. t \in Nat /\ T \in Nat
    OBVIOUS
  <2>2. n = IF t <= T THEN t ELSE T
    BY <1>2, <2>1, MinOfTwo
  <2> QED BY <2>1, <2>2
<1>4. PICK lin, idx : lin = Linspace(T, n) /\ idx = WarmStart(c, n)
  OBVIOUS
<1>5. Spread(lin, n, T)
  BY <1>3, <1>4, SpreadIs
<1>6. p = [i \in 1 .. n |-> c.positions[idx[i]]]
  <2>1. \E keys : k = CartridgeOf(keys, [i \in 1 .. n |-> c.positions[idx[i]]], T, << >>, model)
    BY <1>1, <1>2, <1>4 DEF Compile
  <2> QED BY <2>1 DEF CartridgeOf
<1>7. \A i \in 1 .. n : idx[i] = lin[i] + 1
  BY <1>1, <1>4 DEF WarmStart
<1>8. \A i \in 1 .. n : p[i] = lin[i]
  <2>1. TAKE i \in 1 .. n
  <2>2. PICK y : y = lin[i]
    OBVIOUS
  <2>3. y \in 0 .. T - 1
    BY <1>5, <2>2 DEF Spread
  <2>4. y + 1 \in 1 .. T /\ y + 1 - 1 = y
    BY <2>3
  <2>5. c.positions[y + 1] = 0 + (y + 1) - 1
    BY <2>4 DEF Shaped
  <2>6. p[i] = c.positions[y + 1]
    BY <1>6, <1>7, <2>2
  <2> QED BY <2>2, <2>3, <2>5, <2>6
<1>9. n \in Nat \ {0}
  BY <1>3
<1>10. Long(p, n)
  BY <1>6, <1>9 DEF Long
<1>11. DOMAIN p = 1 .. n /\ Last(p) = p[n] /\ CartridgeT(k) = n
  BY <1>9, <1>10, LongIsSeq, LastRow DEF CartridgeT
<1>12. StrictlyIncreasing(p)
  BY <1>5, <1>8, <1>11 DEF StrictlyIncreasing, Spread
<1>13. 1 \in 1 .. n /\ n \in 1 .. n
  BY <1>9
<1> QED BY <1>5, <1>8, <1>11, <1>12, <1>13 DEF Spread

Trained(c, k, x, y) ==
    /\ x = y
    /\ k.positions[1] = 0 /\ StrictlyIncreasing(k.positions)
    /\ CartridgeT(k) > 1 => Last(k.positions) = LogicalLen(c) - 1

LEMMA TrainedIs ==
    ASSUME CoreInv, NEW t \in {2, 3}, NEW steps, NEW kind \in {"qa", "corpus_span"}, NEW chats \in Chats,
           CompileCartridge(t, steps, kind, chats), out'.kind = "trained"
    PROVE  Trained(orig', cart', out'.teacher, out'.student)
<1>1. PICK items : items = SelfStudy(kind, chats)
  OBVIOUS
<1>2. PICK T : T = LogicalLen(ctx)
  OBVIOUS
<1>3. T \in Nat \ {0} /\ T = Len(ctx.toks) /\ Shaped(ctx, T, 0) /\ OrigFact(ctx, backend)
  BY <1>2, RawContext DEF CompileCartridge
<1>4. PICK n : n = Min({t, T})
  OBVIOUS
<1>5. out' # Error
  BY DEF Error
<1>6. /\ cart' = Compile(ctx, t, steps, items, "model") /\ orig' = ctx
      /\ out' = [kind |-> "trained",
                 teacher |-> [i \in DOMAIN items |-> Teacher(ctx, items[i])],
                 student |-> [i \in DOMAIN items |-> StudentPositions(T, n, items[i])]]
  BY <1>1, <1>2, <1>4, <1>5 DEF CompileCartridge, Teacher
<1>7. Asks(items)
  <2>1. ctx.toks \in Seq(TokenIds)
    BY <1>3 DEF OrigFact
  <2>2. kind = "qa" => items = SelfStudyQA(chats, <<Newline>>, Newline)
    BY <1>1 DEF SelfStudy
  <2>3. kind = "corpus_span" => items = SelfStudySpans(ctx.toks, 2, 8)
    BY <1>1 DEF SelfStudy
  <2>4. Asks(SelfStudyQA(chats, <<Newline>>, Newline))
    BY DialogsAsk
  <2>5. Asks(SelfStudySpans(ctx.toks, 2, 8))
    BY <2>1, SpansAsk
  <2> QED BY <2>2, <2>3, <2>4, <2>5
<1>8. \A i \in DOMAIN items : Teacher(ctx, items[i]) = StudentPositions(T, n, items[i])
  <2>1. TAKE i \in DOMAIN items
  <2>2. PICK m : Long(items[i].query, m)
    BY <1>7 DEF Asks
  <2>3. T \in Nat
    BY <1>3
  <2> QED BY <1>2, <2>2, <2>3, TeacherIs
<1>9. out'.teacher = out'.student
  BY <1>6, <1>8
<1>10. PICK k : k = Compile(ctx, t, steps, items, "model")
  OBVIOUS
<1>11. PICK p : p = k.positions
  OBVIOUS
<1>12. p[1] = 0 /\ StrictlyIncreasing(p) /\ (CartridgeT(k) > 1 => Last(p) = T - 1)
  BY <1>3, <1>10, <1>11, WarmStartIs
<1> QED BY <1>2, <1>6, <1>9, <1>10, <1>11, <1>12 DEF Trained

(* What lies at each place of a paged prefix *)
HeldAt(blocks, i, size) == blocks[(i \div size) + 1][(i % size) + 1]

HeldIn(blocks, size) == [i \in 0 .. Len(blocks) * size - 1 |-> HeldAt(blocks, i, size)]

Written(blocks, positions, k, size) ==
    /\ \A i \in DOMAIN HeldIn(blocks, size) :
          IF i < CartridgeT(k) THEN \A h \in Heads : HeldIn(blocks, size)[i][h] = k.keys[h][i + 1]
          ELSE HeldIn(blocks, size)[i] = ZeroSlot
    /\ CartridgeT(k) <= Len(blocks) * size
    /\ Len(blocks) * size < CartridgeT(k) + size
    /\ \A i \in DOMAIN positions : positions[i] = k.len + i - 1

(* The row at one place *)
LEMMA PackedAt ==
    ASSUME NEW p, NEW rows, NEW n \in Nat, NEW size \in Nat \ {0}, NEW k \in Nat, Packed(p, rows, n, size, k),
           NEW total, total = k * size, NEW i \in Nat, i < total, NEW j, j = i + 1
    PROVE  HeldAt(p, i, size) = IF i < n THEN rows[j] ELSE ZeroSlot
<1>2. k * size \in Nat
  <2>1. k <= k
    OBVIOUS
  <2> QED BY <2>1, Times
<1>3. j \in Nat \ {0} /\ j <= k * size /\ j - 1 = i
  BY <1>2
<1>4. PICK b, o : b = ((j - 1) \div size) + 1 /\ o = ((j - 1) % size) + 1
  OBVIOUS
<1>5. b \in 1 .. k /\ o \in 1 .. size /\ ((j - 1) \div size) * size + o = j /\ (j - 1) \div size = b - 1
  <2>1. /\ (j - 1) \div size \in Nat /\ ((j - 1) \div size) + 1 \in 1 .. k
        /\ ((j - 1) % size) + 1 \in 1 .. size
        /\ ((j - 1) \div size) * size + (((j - 1) % size) + 1) = j
    BY <1>3, PlaceOf
  <2>2. PICK d : d = (j - 1) \div size
    OBVIOUS
  <2>3. b - 1 = d
    BY <1>4, <2>1, <2>2
  <2> QED BY <1>4, <2>1, <2>2, <2>3
<1>6. (b - 1) * size + o = j
  BY <1>5
<1>7. p[b][o] = IF (b - 1) * size + o <= n THEN rows[(b - 1) * size + o] ELSE ZeroSlot
  BY <1>5 DEF Packed
<1>8. p[b][o] = IF j <= n THEN rows[j] ELSE ZeroSlot
  BY <1>6, <1>7
<1>9. j <= n <=> i < n
  OBVIOUS
<1>10. b = (i \div size) + 1 /\ o = (i % size) + 1
  BY <1>3, <1>4
<1> QED BY <1>8, <1>9, <1>10 DEF HeldAt

LEMMA WrittenIs ==
    ASSUME NEW k, CartFact(k), NEW m \in Nat, NEW w, w = InjectPrefix(k), NEW p, p = QueryPositions(k, m)
    PROVE  Written(w.blocks, p, k, BlockSize)
<1>1. PICK n : Long(k.positions, n)
  BY DEF CartFact
<1>2. CartridgeT(k) = n /\ n \in Nat
  BY <1>1, LongIsSeq DEF CartridgeT, Long
<1>3. PICK rows : rows = TokenMajor(k)
  OBVIOUS
<1>4. Long(rows, n) /\ \A i \in 1 .. n : rows[i] = [h \in Heads |-> k.keys[h][i]]
  BY <1>2, <1>3 DEF TokenMajor, Long
<1>5. PICK blocks : blocks = PackBlocks(rows, BlockSize)
  OBVIOUS
<1>6. w.blocks = blocks
  BY <1>3, <1>5 DEF InjectPrefix, PagedPrefixWriter
<1>7. PICK size : size = BlockSize
  OBVIOUS
<1>8. size \in Nat \ {0}
  BY <1>7, BlockSizeAssumption
<1>9. PICK c : c = (n + size - 1) \div size
  OBVIOUS
<1>10. Packed(PackBlocks(rows, size), rows, n, size, c) /\ c \in Nat /\ n <= c * size /\ c * size < n + size
  BY <1>4, <1>8, <1>9, PackIs
<1>11. Packed(blocks, rows, n, size, c)
  BY <1>5, <1>7, <1>10
<1>12. Len(blocks) = c
  <2>1. Long(blocks, c)
    BY <1>11 DEF Packed
  <2> QED BY <2>1, LongIsSeq
<1>13. ASSUME NEW i \in DOMAIN HeldIn(blocks, size)
       PROVE  IF i < n THEN \A h \in Heads : HeldIn(blocks, size)[i][h] = k.keys[h][i + 1]
              ELSE HeldIn(blocks, size)[i] = ZeroSlot
  <2>1. PICK total : total = c * size
    OBVIOUS
  <2>2. total \in Nat
    <3>1. c <= c
      BY <1>10
    <3> QED BY <1>8, <1>10, <2>1, <3>1, Times
  <2>3. i \in 0 .. total - 1
    BY <1>12, <2>1 DEF HeldIn
  <2>4. i \in Nat /\ i < total
    BY <2>2, <2>3
  <2>5. HeldIn(blocks, size)[i] = HeldAt(blocks, i, size)
    BY DEF HeldIn
  <2>9. PICK j : j = i + 1
    OBVIOUS
  <2>6. HeldAt(blocks, i, size) = IF i < n THEN rows[j] ELSE ZeroSlot
    BY <1>2, <1>8, <1>10, <1>11, <2>1, <2>4, <2>9, PackedAt
  <2>7. CASE i < n
    <3>1. j \in 1 .. n
      BY <1>2, <2>4, <2>7, <2>9
    <3>2. HeldIn(blocks, size)[i] = [h \in Heads |-> k.keys[h][j]]
      BY <1>4, <2>5, <2>6, <2>7, <3>1
    <3> QED BY <2>7, <2>9, <3>2
  <2>8. CASE ~ (i < n)
    BY <2>5, <2>6, <2>8
  <2> QED BY <2>7, <2>8
<1>14. \A i \in DOMAIN p : p[i] = k.len + i - 1
  BY DEF QueryPositions, Arange
<1> QED BY <1>2, <1>6, <1>7, <1>10, <1>12, <1>13, <1>14 DEF Written

LEMMA ServedIs ==
    ASSUME RowsInv, NEW p \in Prompts, NEW r \in Responses, ServeCartridge(p, r), out'.kind = "writer"
    PROVE  cart' = cart /\ Written(out'.writer.blocks, out'.positions, cart, BlockSize)
<1>1. out' # Error /\ out' # Rows(p, r, << >>)
  BY DEF Error, Rows
<1>2. PICK m : m = Len(p \o r)
  OBVIOUS
<1>3. /\ cart # None /\ cart' = cart
      /\ out' = [kind |-> "writer", writer |-> InjectPrefix(cart), positions |-> QueryPositions(cart, m)]
  BY <1>1, <1>2 DEF ServeCartridge
<1>4. m \in Nat
  <2>1. p \in Seq(TokenIds) /\ r \in Seq(TokenIds)
    BY TokensTyped
  <2> QED BY <1>2, <2>1
<1>5. CartFact(cart)
  BY <1>3 DEF RowsInv
<1>6. PICK w, q : w = InjectPrefix(cart) /\ q = QueryPositions(cart, m)
  OBVIOUS
<1>7. Written(w.blocks, q, cart, BlockSize)
  BY <1>4, <1>5, <1>6, WrittenIs
<1> QED BY <1>3, <1>6, <1>7

LEMMA ServesStep ==
    ASSUME CoreInv, RowsInv, CartridgeServes, [Next]_vars
    PROVE  CartridgeServes'
<1>1. CASE UNCHANGED vars
  BY <1>1 DEF vars, CartridgeServes
<1>2. CASE Next
  <2>1. backend \in {"hf", "vllm", "fake"}
    BY DEF CoreInv
  <2>2. out'.kind = "trained" => Trained(orig', cart', out'.teacher, out'.student)
    <3>1. HAVE out'.kind = "trained"
    <3>2. PICK t \in {2, 3}, steps \in {0, 1}, kind \in {"qa", "corpus_span"}, c \in Chats :
            CompileCartridge(t, steps, kind, c)
      BY <1>2, <2>1, <3>1, Origin
    <3> QED BY <3>1, <3>2, TrainedIs
  <2>3. out'.kind = "writer" => Written(out'.writer.blocks, out'.positions, cart', BlockSize)
    <3>1. HAVE out'.kind = "writer"
    <3>2. PICK p \in Prompts, r \in Responses : ServeCartridge(p, r)
      BY <1>2, <2>1, <3>1, Origin
    <3> QED BY <3>1, <3>2, ServedIs
  <2> QED BY <2>2, <2>3 DEF CartridgeServes, Trained, Written, HeldIn, HeldAt
<1> QED BY <1>1, <1>2

(* A cartridge is trained at the positions its teacher was read at, over    *)
(* keys spread over the corpus, and what is served of it are its slots, each *)
(* in its place, with the query behind the corpus (cartridge/compiler.py,   *)
(* engine/vllm_cartridge.py)                                                *)
THEOREM CartridgesServe == Spec => []CartridgeServes
<1>1. Init => CartridgeServes
  BY DEF Init, None, CartridgeServes
<1>2. CoreInv /\ RowsInv /\ CartridgeServes /\ [Next]_vars => CartridgeServes'
  BY ServesStep
<1> QED BY <1>1, <1>2, Core, SlotRows, PTL DEF Spec

-----------------------------------------------------------------------------
(* What HFBackend decodes over: the slots of a head, without the padding   *)

LEMMA SameTaken == ASSUME NEW s, NEW S PROVE HF!At(s, S) = At(s, S)
<1>1. \A k : HF!Nth(S, k) = Nth(S, k)
  BY SameSize DEF HF!Nth, Nth
<1> QED BY <1>1, SameSize DEF HF!At, At

LEMMA SameSlots ==
    ASSUME NEW c, NEW h, NEW p, NEW k, NEW v, NEW b
    PROVE  HF!SlotsOf(c, h) = SlotsOf(c, h) /\ HF!Slot(p, k, v, b) = Slot(p, k, v, b)
<1>1. \A pp, kk, vv, bb : HF!Slot(pp, kk, vv, bb) = Slot(pp, kk, vv, bb)
  BY DEF HF!Slot, Slot
<1> QED BY <1>1 DEF HF!SlotsOf, SlotsOf

LEMMA SameHead2 ==
    ASSUME NEW q, NEW S
    PROVE  HF!kv_head_of(q) = kv_head_of(q) /\ HF!Max(S) = Max(S)
  BY DEF HF!kv_head_of, kv_head_of, HF!Max, Max

(* A padded head, less its padding *)
LEMMA Unpadded ==
    ASSUME NEW row, NEW n, IsRow(row, n), NEW P \in Nat, n <= P,
           NEW w, w = [i \in 1 .. P |-> IF i <= n THEN row[i] ELSE HF!Padding],
           NEW S, S = { i \in DOMAIN w : w[i].bias # "neg" }
    PROVE  At(w, S) = row
<1>1. Long(row, n) /\ n \in Nat /\ \A i \in 1 .. n : row[i].bias \in {"zero", "fit"}
  BY DEF IsRow, IsSlot, Long
<1>2. HF!Padding.bias = "neg"
  BY DEF HF!Padding, HF!Slot
<1>3. S = 1 .. n
  <2>1. \A i \in 1 .. P : i <= n => w[i].bias \in {"zero", "fit"}
    BY <1>1
  <2>2. \A i \in 1 .. P : ~ (i <= n) => w[i].bias = "neg"
    BY <1>2
  <2>3. S = { i \in 1 .. P : i <= n }
    BY <2>1, <2>2
  <2> QED BY <1>1, <2>3
<1>4. \A i \in 1 .. n : w[i] = row[i]
  BY <1>1
<1> QED BY <1>1, <1>3, <1>4, AtAll

(* Every head is a row *)
RowsOf(c) == \A h \in Heads : \E n : IsRow(SlotsOf(c, h), n)

LEMMA PhysicalIs ==
    ASSUME NEW c, RowsOf(c), c.kind = "raw" => \E T : Shaped(c, T, 0), NEW P, P = HF!PhysicalLen(c)
    PROVE  P \in Nat /\ \A h \in Heads : Len(SlotsOf(c, h)) <= P
<1>1. CASE c.kind = "raw"
  <2>1. PICK T : Shaped(c, T, 0)
    BY <1>1
  <2>2. P = T /\ T \in Nat
    BY <1>1, <2>1, SameLen DEF HF!PhysicalLen, Shaped
  <2>3. ASSUME NEW h \in Heads PROVE Len(SlotsOf(c, h)) = T
    <3>1. PICK w : w = SlotsOf(c, h)
      OBVIOUS
    <3>2. Long(w, T)
      BY <2>1, <3>1, RawSlots DEF IsRow
    <3> QED BY <3>1, <3>2, LongIsSeq
  <2> QED BY <2>2, <2>3
<1>2. CASE c.kind # "raw"
  <2>1. PICK f : f = [h \in Heads |-> Len(c.heads[h])]
    OBVIOUS
  <2>2. \A h \in Heads : f[h] \in Nat /\ f[h] = Len(SlotsOf(c, h))
    <3>1. TAKE h \in Heads
    <3>2. PICK n : IsRow(SlotsOf(c, h), n)
      BY DEF RowsOf
    <3>3. SlotsOf(c, h) = c.heads[h]
      BY <1>2 DEF SlotsOf
    <3>4. Len(c.heads[h]) = n /\ n \in Nat
      BY <3>2, <3>3, LongIsSeq DEF IsRow, Long
    <3> QED BY <2>1, <3>3, <3>4
  <2>3. P = Max({ f[h] : h \in Heads })
    <3>1. { Len(c.heads[h]) : h \in HF!Heads } = { f[h] : h \in Heads }
      BY <2>1, SameHeads
    <3> QED BY <1>2, <3>1, SameHead2 DEF HF!PhysicalLen
  <2> QED BY <2>2, <2>3, GreatestIs
<1> QED BY <1>1, <1>2

(* Every query head sees the slots of its kv-head *)
LEMMA ViewIs ==
    ASSUME NEW c, RowsOf(c), c.kind = "raw" => \E T : Shaped(c, T, 0), NEW q \in QHeads
    PROVE  HF!CachedView(c, q) = SlotsOf(c, kv_head_of(q))
<1>1. PICK P : P = HF!PhysicalLen(c)
  OBVIOUS
<1>2. PICK h : h = kv_head_of(q)
  OBVIOUS
<1>3. h \in Heads
  BY <1>2, HeadOf
<1>4. P \in Nat /\ Len(SlotsOf(c, h)) <= P
  BY <1>1, <1>3, PhysicalIs
<1>5. PICK row, n : row = SlotsOf(c, h) /\ IsRow(row, n)
  BY <1>3 DEF RowsOf
<1>6. Len(row) = n
  BY <1>5, LongIsSeq DEF IsRow
<1>7. PICK w : w = [i \in 1 .. P |-> IF i <= n THEN row[i] ELSE HF!Padding]
  OBVIOUS
<1>8. HF!BuildCache(c, P)[h] = w
  <2>1. HF!SlotsOf(c, h) = row
    BY <1>5, SameSlots
  <2> QED BY <1>3, <1>6, <1>7, <2>1, SameHeads DEF HF!BuildCache
<1>9. PICK S : S = { i \in DOMAIN w : w[i].bias # "neg" }
  OBVIOUS
<1>10. HF!CachedView(c, q) = At(w, S)
  <2>1. HF!BuildCache(c, HF!PhysicalLen(c))[HF!kv_head_of(q)] = w
    BY <1>1, <1>2, <1>8, SameHead2
  <2> QED BY <1>9, <2>1, SameTaken DEF HF!CachedView
<1>11. At(w, S) = row
  <2>1. n <= P
    BY <1>4, <1>5, <1>6
  <2> QED BY <1>4, <1>5, <1>7, <1>9, <2>1, Unpadded
<1> QED BY <1>2, <1>5, <1>10, <1>11

(* The slots a query head is to see *)
SlotsFor(c, q) == IF c.kind = "raw" THEN SlotsOf(c, FirstHead) ELSE c.heads[<<q[1], q[2] \div GroupSize>>]

(* A cache that can be decoded over *)
Decodable(c) == RowsOf(c) /\ (c.kind = "raw" => \E T : Shaped(c, T, 0))

LEMMA SeenIs ==
    ASSUME NEW c, Decodable(c), NEW q \in QHeads
    PROVE  HF!CachedView(c, q) = SlotsFor(c, q) /\ \E n : IsRow(SlotsFor(c, q), n)
<1>1. HF!CachedView(c, q) = SlotsOf(c, kv_head_of(q))
  BY ViewIs DEF Decodable
<1>2. SlotsOf(c, kv_head_of(q)) = SlotsFor(c, q)
  <2>1. kv_head_of(q) = <<q[1], q[2] \div GroupSize>>
    BY HeadOf
  <2> QED BY <2>1 DEF SlotsOf, SlotsFor
<1>3. kv_head_of(q) \in Heads
  BY HeadOf
<1> QED BY <1>1, <1>2, <1>3 DEF Decodable, RowsOf

LEMMA RawDecodable ==
    ASSUME NEW c, NEW T, Shaped(c, T, 0)
    PROVE  Decodable(c)
<1>1. ASSUME NEW h \in Heads PROVE IsRow(SlotsOf(c, h), T)
  <2>1. PICK w : w = SlotsOf(c, h)
    OBVIOUS
  <2>2. IsRow(w, T)
    BY <2>1, RawSlots
  <2> QED BY <2>1, <2>2
<1> QED BY <1>1 DEF Decodable, RowsOf

LEMMA CompactDecodable ==
    ASSUME NEW c, c.kind = "compact", \A h \in Heads : \E n : IsRow(c.heads[h], n)
    PROVE  Decodable(c)
  BY DEF Decodable, RowsOf, SlotsOf

(* All but the last *)
LEMMA FrontIs ==
    ASSUME NEW s, NEW n, Long(s, n), NEW w, w = Front(s)
    PROVE  /\ n = 0 => Long(w, 0)
           /\ n # 0 => Long(w, n - 1) /\ \A i \in 1 .. n - 1 : w[i] = s[i]
<1>1. Len(s) = n /\ n \in Nat
  BY LongIsSeq DEF Long
<1>2. CASE n = 0
  <2>1. s = << >>
    BY <1>2, LongIsSeq
  <2>2. w = SubSeq(<< >>, 1, 0 - 1)
    BY <1>1, <1>2, <2>1 DEF Front
  <2>3. SubSeq(<< >>, 1, 0 - 1) = << >>
    OBVIOUS
  <2> QED BY <1>2, <2>2, <2>3, EmptyLong
<1>3. CASE n # 0
  <2>1. PICK m : m = n - 1
    OBVIOUS
  <2>2. m \in 0 .. n /\ m \in Nat
    BY <1>1, <1>3, <2>1
  <2>3. Cut(w, s, 1, m)
    BY <1>1, <2>1 DEF Front, Cut
  <2>4. Long(w, m) /\ \A i \in 1 .. m : w[i] = s[i]
    BY <1>1, <2>2, <2>3, LongPrefix
  <2> QED BY <1>3, <2>1, <2>4
<1> QED BY <1>2, <1>3

LEMMA FrontRow ==
    ASSUME NEW s, NEW n, IsRow(s, n), NEW w, w = Front(s)
    PROVE  \E m : IsRow(w, m)
<1>1. Long(s, n) /\ n \in Nat
  BY DEF IsRow, Long
<1>2. CASE n = 0
  <2>1. Long(w, 0)
    BY <1>1, <1>2, FrontIs
  <2>2. IsRow(w, 0)
    BY <2>1 DEF IsRow
  <2> QED BY <2>2
<1>3. CASE n # 0
  <2>1. PICK m : m = n - 1
    OBVIOUS
  <2>2. Long(w, m) /\ \A i \in 1 .. m : w[i] = s[i] /\ i \in 1 .. n
    <3>1. Long(w, n - 1) /\ \A i \in 1 .. n - 1 : w[i] = s[i]
      BY <1>1, <1>3, FrontIs
    <3>2. \A i \in 1 .. n - 1 : i \in 1 .. n
      BY <1>1
    <3> QED BY <2>1, <3>1, <3>2
  <2>3. IsRow(w, m)
    BY <2>2 DEF IsRow
  <2> QED BY <2>3
<1> QED BY <1>2, <1>3

LEMMA SameFront == ASSUME NEW s PROVE HF!Front(s) = Front(s) /\ HF!Last(s) = Last(s)
  BY DEF HF!Front, Front, HF!Last, Last

(* The context less its last position *)
Dropped(d, c) ==
    /\ Decodable(d) /\ LogicalLen(d) = LogicalLen(c) - 1
    /\ \A q \in QHeads : SlotsFor(d, q) = Front(SlotsFor(c, q))

LEMMA RawDropped ==
    ASSUME NEW c, NEW T \in Nat \ {0}, Shaped(c, T, 0), NEW d, d = HF!DropLast(c)
    PROVE  Dropped(d, c)
<1>1. PICK m : m = T - 1
  OBVIOUS
<1>2. m \in 0 .. T /\ m \in Nat /\ T \in Nat
  BY <1>1
<1>3. PICK cols, pos, toks : cols = SubSeq(c.cols, 1, m) /\ pos = SubSeq(c.positions, 1, m)
                             /\ toks = SubSeq(c.toks, 1, m)
  OBVIOUS
<1>4. d = KVCache(cols, pos, toks)
  <2>1. c.kind = "raw" /\ HF!LogicalLen(c) = T
    BY SameLen DEF Shaped
  <2>2. HF!KVCache(cols, pos, toks) = KVCache(cols, pos, toks)
    BY SameRecords
  <2> QED BY <1>1, <1>3, <2>1, <2>2 DEF HF!DropLast, HF!SliceKV
<1>5. Cut(cols, c.cols, 1, m) /\ Cut(pos, c.positions, 1, m)
  BY <1>3 DEF Cut
<1>6. Long(c.cols, T) /\ Long(c.positions, T) /\ LogicalLen(c) = T
      /\ \A i \in 1 .. T : c.positions[i] = 0 + i - 1
  BY DEF Shaped
<1>7. Long(cols, m) /\ \A i \in 1 .. m : cols[i] = c.cols[i]
  BY <1>2, <1>5, <1>6, LongPrefix
<1>8. Long(pos, m) /\ \A i \in 1 .. m : pos[i] = c.positions[i]
  BY <1>2, <1>5, <1>6, LongPrefix
<1>9. Shaped(d, m, 0)
  <2>1. d.kind = "raw" /\ d.cols = cols /\ d.positions = pos
    BY <1>4 DEF KVCache
  <2>2. LogicalLen(d) = m
    BY <1>8, <2>1, LongIsSeq DEF LogicalLen
  <2>3. \A i \in 1 .. m : i \in 1 .. T
    BY <1>2
  <2>4. \A i \in 1 .. m : pos[i] = 0 + i - 1
    BY <1>6, <1>8, <2>3
  <2> QED BY <1>2, <1>7, <1>8, <2>1, <2>2, <2>4 DEF Shaped
<1>10. PICK w, v : w = SlotsOf(c, FirstHead) /\ v = SlotsOf(d, FirstHead)
  OBVIOUS
<1>11. IsRow(w, T) /\ \A i \in 1 .. T : w[i] = Slot(0 + i - 1, c.cols[i], c.cols[i], "zero")
  BY <1>10, RawSlots
<1>12. IsRow(v, m) /\ \A i \in 1 .. m : v[i] = Slot(0 + i - 1, d.cols[i], d.cols[i], "zero")
  BY <1>9, <1>10, RawSlots
<1>13. v = Front(w)
  <2>1. PICK f : f = Front(w)
    OBVIOUS
  <2>2. Long(f, m) /\ \A i \in 1 .. m : f[i] = w[i]
    <3>1. Long(w, T) /\ T # 0
      BY <1>11 DEF IsRow
    <3>2. Long(f, T - 1) /\ \A i \in 1 .. T - 1 : f[i] = w[i]
      BY <2>1, <3>1, FrontIs
    <3> QED BY <1>1, <3>2
  <2>3. \A i \in 1 .. m : f[i] = v[i]
    <3>1. TAKE i \in 1 .. m
    <3>2. i \in 1 .. T
      BY <1>2
    <3>3. d.cols[i] = c.cols[i]
      BY <1>4, <1>7 DEF KVCache
    <3> QED BY <1>11, <1>12, <2>2, <3>2, <3>3
  <2>4. Long(v, m)
    BY <1>12 DEF IsRow
  <2> QED BY <2>1, <2>2, <2>3, <2>4, SameSeq
<1>14. c.kind = "raw" /\ d.kind = "raw" /\ LogicalLen(d) = m
  BY <1>9 DEF Shaped
<1>15. Decodable(d)
  BY <1>9, RawDecodable
<1> QED BY <1>1, <1>6, <1>10, <1>13, <1>14, <1>15 DEF Dropped, SlotsFor

LEMMA CompactDropped ==
    ASSUME NEW c, CompactFact(c), NEW d, d = HF!DropLast(c)
    PROVE  Dropped(d, c)
<1>1. c = [kind |-> "compact", heads |-> c.heads, len |-> c.len, toks |-> c.toks, method |-> c.method]
  BY DEF CompactFact, CompactCache
<1>2. PICK hs : hs = [h \in Heads |-> Front(c.heads[h])]
  OBVIOUS
<1>3. c.kind = "compact"
  BY <1>1
<1>4. d = [c EXCEPT !.heads = hs, !.len = @ - 1, !.toks = Front(@)]
  <2>1. [h \in HF!Heads |-> HF!Front(c.heads[h])] = hs
    BY <1>2, SameHeads, SameFront
  <2>2. HF!Front(c.toks) = Front(c.toks)
    BY SameFront
  <2> QED BY <1>3, <2>1, <2>2 DEF HF!DropLast
<1>5. d.kind = "compact" /\ d.heads = hs /\ d.len = c.len - 1
  <2>1. PICK e, l, t, m : e = c.heads /\ l = c.len /\ t = c.toks /\ m = c.method
    OBVIOUS
  <2>2. c = [kind |-> "compact", heads |-> e, len |-> l, toks |-> t, method |-> m]
    BY <1>1, <2>1
  <2>3. d = [kind |-> "compact", heads |-> hs, len |-> l - 1, toks |-> Front(t), method |-> m]
    BY <1>4, <2>2
  <2> QED BY <2>1, <2>3
<1>6. \A h \in Heads : \E n : IsRow(hs[h], n)
  <2>1. TAKE h \in Heads
  <2>2. PICK s, w : s = c.heads[h] /\ w = Front(s)
    OBVIOUS
  <2>3. PICK n : IsRow(s, n)
    BY <2>2 DEF CompactFact
  <2>4. \E m : IsRow(w, m)
    BY <2>2, <2>3, FrontRow
  <2> QED BY <1>2, <2>2, <2>4
<1>7. Decodable(d)
  BY <1>5, <1>6, CompactDecodable
<1>8. LogicalLen(d) = LogicalLen(c) - 1
  BY <1>3, <1>5 DEF LogicalLen
<1>9. \A q \in QHeads : SlotsFor(d, q) = Front(SlotsFor(c, q))
  <2>1. TAKE q \in QHeads
  <2>2. kv_head_of(q) \in Heads /\ kv_head_of(q) = <<q[1], q[2] \div GroupSize>>
    BY HeadOf
  <2> QED BY <1>2, <1>3, <1>5, <2>2 DEF SlotsFor
<1> QED BY <1>7, <1>8, <1>9 DEF Dropped

-----------------------------------------------------------------------------
(* One row: the prediction of a token from the context, the prompt and the *)
(* tokens before it                                                        *)

Again(row, c, prompt) == prompt = << >> /\ Len(row.fed) >= 1 /\ row.fed[1].pos = LogicalLen(c) - 1

FedBefore(row, c, prompt, target, k) ==
    (IF Again(row, c, prompt) THEN <<Last(c.toks)>> ELSE << >>) \o prompt \o SubSeq(target, 1, k - 1)

StartOf(row, c, prompt) == LogicalLen(c) - (IF Again(row, c, prompt) THEN 1 ELSE 0)

FedAt(x, f, start) == x = [i \in DOMAIN f |-> [tok |-> f[i], pos |-> start + i - 1]]

Predicts(row, c, prompt, target, k) ==
    /\ FedAt(row.fed, FedBefore(row, c, prompt, target, k), StartOf(row, c, prompt))
    /\ FedBefore(row, c, prompt, target, k) # << >>
    /\ \A q \in QHeads :
          row.cached[q] = IF Again(row, c, prompt) THEN Front(SlotsFor(c, q)) ELSE SlotsFor(c, q)

(* Tokens are fed one behind the other *)
LEMMA FedToIs ==
    ASSUME NEW u, NEW a \in Int, NEW j \in Nat \ {0}, NEW x, x = FedTo(u, a, j)
    PROVE  Long(x, j) /\ Len(x) = j /\ x[1].pos = a
<1>1. x = [i \in 1 .. j |-> [tok |-> u[i], pos |-> a + i - 1]]
  BY DEF FedTo
<1>2. Long(x, j)
  BY <1>1 DEF Long
<1>3. 1 \in 1 .. j
  OBVIOUS
<1>4. x[1].pos = a + 1 - 1
  BY <1>1, <1>3
<1>5. a + 1 - 1 = a
  OBVIOUS
<1> QED BY <1>2, <1>4, <1>5, LongIsSeq

LEMMA FedAtIs ==
    ASSUME NEW u, NEW f, NEW a \in Int, NEW j \in Nat, Long(f, j), \A i \in 1 .. j : u[i] = f[i],
           NEW x, x = FedTo(u, a, j)
    PROVE  FedAt(x, f, a)
<1>1. DOMAIN f = 1 .. j
  BY LongIsSeq
<1> QED BY <1>1 DEF FedTo, FedAt

(* over the whole context *)
LEMMA PredictsOver ==
    ASSUME NEW c, Decodable(c), LogicalLen(c) \in Nat,
           NEW prompt, NEW f, NEW j \in Nat \ {0}, Long(f, j),
           NEW target, NEW k, NEW v, Cut(v, target, 1, k - 1), Put(f, prompt, v),
           NEW S, prompt \in Seq(S),
           NEW u, \A i \in 1 .. j : u[i] = f[i],
           NEW row, row = [cached |-> ViewOf(c), fed |-> FedTo(u, LogicalLen(c), j)]
    PROVE  Predicts(row, c, prompt, target, k)
<1>1. PICK L : L = LogicalLen(c)
  OBVIOUS
<1>2. L \in Int /\ L # L - 1
  BY <1>1
<1>3. PICK x : x = row.fed
  OBVIOUS
<1>4. x = FedTo(u, L, j)
  BY <1>1, <1>3
<1>5. Long(x, j) /\ Len(x) = j /\ x[1].pos = L
  BY <1>2, <1>4, FedToIs
<1>6. ~ Again(row, c, prompt)
  BY <1>1, <1>2, <1>3, <1>5 DEF Again
<1>7. FedBefore(row, c, prompt, target, k) = f
  <2>1. << >> \o prompt = prompt
    OBVIOUS
  <2> QED BY <1>6, <2>1 DEF FedBefore, Cut, Put
<1>8. StartOf(row, c, prompt) = L
  BY <1>1, <1>2, <1>6 DEF StartOf
<1>9. FedAt(x, f, L)
  BY <1>2, <1>4, FedAtIs
<1>10. f # << >>
  <2>1. Len(f) = j
    BY LongIsSeq
  <2>2. Len(<< >>) = 0
    OBVIOUS
  <2> QED BY <2>1, <2>2
<1>11. \A q \in QHeads : row.cached[q] = SlotsFor(c, q)
  <2>1. row.cached = ViewOf(c)
    OBVIOUS
  <2> QED BY <2>1, SeenIs DEF ViewOf
<1> QED BY <1>3, <1>6, <1>7, <1>8, <1>9, <1>10, <1>11 DEF Predicts

(* the last token of the context fed again *)
LEMMA PredictsAgain ==
    ASSUME NEW c, NEW d, Dropped(d, c), LogicalLen(c) \in Nat,
           NEW f, NEW j \in Nat \ {0}, Long(f, j),
           NEW target, NEW k, NEW v, Cut(v, target, 1, k - 1), Put(f, <<Last(c.toks)>>, v),
           NEW u, \A i \in 1 .. j : u[i] = f[i],
           NEW row, row = [cached |-> ViewOf(d), fed |-> FedTo(u, LogicalLen(d), j)]
    PROVE  Predicts(row, c, << >>, target, k)
<1>1. PICK L : L = LogicalLen(c)
  OBVIOUS
<1>2. PICK a : a = LogicalLen(d)
  OBVIOUS
<1>3. a = L - 1 /\ a \in Int /\ L \in Nat
  BY <1>1, <1>2 DEF Dropped
<1>4. PICK x : x = row.fed
  OBVIOUS
<1>5. x = FedTo(u, a, j)
  BY <1>2, <1>4
<1>6. Long(x, j) /\ Len(x) = j /\ x[1].pos = a
  BY <1>3, <1>5, FedToIs
<1>7. Again(row, c, << >>)
  <2>1. Len(row.fed) >= 1
    BY <1>4, <1>6
  <2>2. row.fed[1].pos = LogicalLen(c) - 1
    BY <1>1, <1>3, <1>4, <1>6
  <2> QED BY <2>1, <2>2 DEF Again
<1>8. FedBefore(row, c, << >>, target, k) = f
  <2>1. PICK t : t = Last(c.toks)
    OBVIOUS
  <2>2. <<t>> \o << >> = <<t>>
    OBVIOUS
  <2> QED BY <1>7, <2>1, <2>2 DEF FedBefore, Cut, Put
<1>9. StartOf(row, c, << >>) = a
  BY <1>1, <1>3, <1>7 DEF StartOf
<1>10. FedAt(x, f, a)
  BY <1>3, <1>5, FedAtIs
<1>11. f # << >>
  <2>1. Len(f) = j
    BY LongIsSeq
  <2>2. Len(<< >>) = 0
    OBVIOUS
  <2> QED BY <2>1, <2>2
<1>12. \A q \in QHeads : row.cached[q] = Front(SlotsFor(c, q))
  <2>1. row.cached = ViewOf(d)
    OBVIOUS
  <2>2. Decodable(d) /\ \A q \in QHeads : SlotsFor(d, q) = Front(SlotsFor(c, q))
    BY DEF Dropped
  <2>3. \A q \in QHeads : HF!CachedView(d, q) = SlotsFor(d, q)
    BY <2>2, SeenIs
  <2> QED BY <2>1, <2>2, <2>3 DEF ViewOf
<1> QED BY <1>4, <1>7, <1>8, <1>9, <1>10, <1>11, <1>12 DEF Predicts

LEMMA SameBeginning ==
    ASSUME NEW p, NEW P \in Nat, Long(p, P), NEW t, NEW R \in Nat, Long(t, R), NEW k \in 1 .. R,
           NEW u, Put(u, p, t), NEW v, Cut(v, t, 1, k - 1), NEW f, Put(f, p, v), NEW j, j = P + k - 1
    PROVE  /\ Long(f, j) /\ \A i \in 1 .. j : u[i] = f[i]
           /\ Long(u, P + R) /\ Len(u) = P + R /\ Len(f) = j
<1>1. PICK m : m = k - 1
  OBVIOUS
<1>2. m \in 0 .. R /\ m \in Nat /\ P + m = j
  BY <1>1
<1>3. Cut(v, t, 1, m)
  BY <1>1
<1>4. Long(v, m) /\ \A i \in 1 .. m : v[i] = t[i]
  BY <1>2, <1>3, LongPrefix
<1>5. Long(f, P + m) /\ (\A i \in 1 .. P : f[i] = p[i]) /\ \A i \in 1 .. m : f[P + i] = v[i]
  BY <1>2, <1>4, LongConcat
<1>6. Long(u, P + R) /\ (\A i \in 1 .. P : u[i] = p[i]) /\ \A i \in 1 .. R : u[P + i] = t[i]
  BY LongConcat
<1>7. \A i \in 1 .. j : u[i] = f[i]
  <2>1. TAKE i \in 1 .. j
  <2>2. CASE i \in 1 .. P
    BY <1>5, <1>6, <2>2
  <2>3. CASE i \notin 1 .. P
    <3>1. PICK n : n = i - P
      OBVIOUS
    <3>2. n \in 1 .. m /\ n \in 1 .. R /\ i = P + n
      BY <1>2, <2>3, <3>1
    <3> QED BY <1>4, <1>5, <1>6, <3>2
  <2> QED BY <2>2, <2>3
<1>8. Len(u) = P + R
  BY <1>6, LongIsSeq
<1>9. Len(f) = P + m
  BY <1>5, LongIsSeq
<1> QED BY <1>2, <1>5, <1>6, <1>7, <1>8, <1>9

LEMMA ScorePredicts ==
    ASSUME NEW c, Decodable(c), LogicalLen(c) \in Nat, Dropped(HF!DropLast(c), c),
           NEW S, NEW prompt \in Seq(S), NEW target \in Seq(S), NEW rows, rows = HF!Score(c, prompt, target)
    PROVE  \A k \in DOMAIN rows : Predicts(rows[k], c, prompt, target, k)
<1>1. PICK P, R : P = Len(prompt) /\ R = Len(target)
  OBVIOUS
<1>2. P \in Nat /\ R \in Nat /\ Long(prompt, P) /\ Long(target, R)
  <2>1. Long(prompt, Len(prompt)) /\ Long(target, Len(target))
    BY SeqIsLong
  <2> QED BY <1>1, <2>1, LenProperties
<1>3. CASE target = << >>
  <2>1. rows = << >>
    BY <1>3 DEF HF!Score
  <2> QED BY <2>1
<1>4. CASE target # << >> /\ prompt # << >>
  <2>1. P # 0 /\ R # 0
    BY <1>1, <1>2, <1>4, EmptySeq
  <2>2. PICK u : Put(u, prompt, target)
    BY DEF Put
  <2>3. Long(u, P + R)
    BY <1>2, <2>2, LongConcat
  <2>4. PICK w : w = HF!DecodeLogits(c, u)
    OBVIOUS
  <2>5. Decoded(w, ViewOf(c), u, P + R, LogicalLen(c))
    <3>1. PICK n : n = P + R
      OBVIOUS
    <3>2. Long(u, n)
      BY <2>3, <3>1
    <3>3. Decoded(w, ViewOf(c), u, n, LogicalLen(c))
      BY <2>4, <3>2, DecodedIs
    <3> QED BY <3>1, <3>3
  <2>6. PICK b, n : b = P + R - 1 /\ n = P + R
    OBVIOUS
  <2>7. Cut(rows, w, P, b)
    BY <1>1, <1>4, <2>2, <2>4, <2>6 DEF HF!Score, Put, Cut
  <2>8. P \in Nat \ {0} /\ b \in Nat /\ b <= n /\ P <= b + 1 /\ n \in Nat /\ R = b - P + 1 /\ R \in Nat
    BY <1>2, <2>1, <2>6
  <2>9. Long(w, n)
    BY <2>5, <2>6 DEF Decoded
  <2>10. Long(rows, R) /\ \A k \in 1 .. R : rows[k] = w[P + k - 1]
    BY <2>7, <2>8, <2>9, LongSubSeq
  <2>11. DOMAIN rows = 1 .. R
    BY <2>10, LongIsSeq
  <2>12. ASSUME NEW k \in 1 .. R PROVE Predicts(rows[k], c, prompt, target, k)
    <3>1. PICK v : Cut(v, target, 1, k - 1)
      BY DEF Cut
    <3>2. PICK f : Put(f, prompt, v)
      BY DEF Put
    <3>3. PICK j : j = P + k - 1
      OBVIOUS
    <3>4. Long(f, j) /\ \A i \in 1 .. j : u[i] = f[i]
      BY <1>2, <2>2, <3>1, <3>2, <3>3, SameBeginning, SMTT(30)
    <3>5. j \in Nat \ {0} /\ j \in 1 .. P + R
      BY <2>8, <3>3
    <3>6. PICK row : row = rows[k]
      OBVIOUS
    <3>7. row = w[j]
      BY <2>10, <3>3, <3>6
    <3>8. w[j] = [cached |-> ViewOf(c), fed |-> FedTo(u, LogicalLen(c), j)]
      BY <2>5, <3>5 DEF Decoded
    <3>9. row = [cached |-> ViewOf(c), fed |-> FedTo(u, LogicalLen(c), j)]
      BY <3>7, <3>8
    <3>10. Predicts(row, c, prompt, target, k)
      BY <3>1, <3>2, <3>4, <3>5, <3>9, PredictsOver
    <3> QED BY <3>6, <3>10
  <2> QED BY <2>11, <2>12
<1>5. CASE target # << >> /\ prompt = << >>
  <2>1. R # 0
    BY <1>1, <1>2, <1>5, EmptySeq
  <2>2. PICK t : t = Last(c.toks)
    OBVIOUS
  <2>3. PICK h : h = <<t>>
    OBVIOUS
  <2>4. Long(h, 1) /\ 1 \in Nat
    BY <2>3 DEF Long
  <2>5. PICK u : Put(u, h, target)
    BY DEF Put
  <2>6. PICK n : n = 1 + R
    OBVIOUS
  <2>7. Long(u, n)
    BY <1>2, <2>4, <2>5, <2>6, LongConcat
  <2>8. PICK d : d = HF!DropLast(c)
    OBVIOUS
  <2>9. PICK w : w = HF!DecodeLogits(d, u)
    OBVIOUS
  <2>10. Decoded(w, ViewOf(d), u, n, LogicalLen(d))
    BY <2>7, <2>9, DecodedIs
  <2>11. Cut(rows, w, 1, R)
    <3>1. HF!Last(c.toks) = t
      BY <2>2, SameFront
    <3> QED BY <1>1, <1>5, <2>3, <2>5, <2>8, <2>9, <3>1 DEF HF!Score, Put, Cut
  <2>12. n \in Nat /\ R \in 0 .. n
    BY <1>2, <2>6
  <2>13. Long(w, n)
    BY <2>10 DEF Decoded
  <2>14. Long(rows, R) /\ \A k \in 1 .. R : rows[k] = w[k]
    BY <2>11, <2>12, <2>13, LongPrefix
  <2>15. DOMAIN rows = 1 .. R
    BY <2>14, LongIsSeq
  <2>16. ASSUME NEW k \in 1 .. R PROVE Predicts(rows[k], c, prompt, target, k)
    <3>1. PICK v : Cut(v, target, 1, k - 1)
      BY DEF Cut
    <3>2. PICK f : Put(f, h, v)
      BY DEF Put
    <3>3. PICK j : j = 1 + k - 1
      OBVIOUS
    <3>4. Long(f, j) /\ \A i \in 1 .. j : u[i] = f[i]
      BY <1>2, <2>4, <2>5, <3>1, <3>2, <3>3, SameBeginning
    <3>5. j \in Nat \ {0} /\ j = k /\ j \in 1 .. n
      BY <2>12, <3>3
    <3>6. PICK row : row = rows[k]
      OBVIOUS
    <3>7. row = w[j]
      BY <2>14, <3>5, <3>6
    <3>8. w[j] = [cached |-> ViewOf(d), fed |-> FedTo(u, LogicalLen(d), j)]
      BY <2>10, <3>5 DEF Decoded
    <3>9. row = [cached |-> ViewOf(d), fed |-> FedTo(u, LogicalLen(d), j)]
      BY <3>7, <3>8
    <3>10. Put(f, <<Last(c.toks)>>, v)
      BY <2>2, <2>3, <3>2
    <3>11. Dropped(d, c)
      BY <2>8
    <3>12. Predicts(row, c, << >>, target, k)
      BY <3>1, <3>4, <3>5, <3>9, <3>10, <3>11, PredictsAgain
    <3> QED BY <1>5, <3>6, <3>12
  <2> QED BY <2>15, <2>16
<1> QED BY <1>3, <1>4, <1>5

LEMMA GeneratePredicts ==
    ASSUME NEW c, Decodable(c), LogicalLen(c) \in Nat, Dropped(HF!DropLast(c), c),
           NEW S, NEW prompt \in Seq(S), NEW gen \in Seq(S), NEW rows, rows = HF!GenerateRows(c, prompt, gen)
    PROVE  \A k \in DOMAIN rows : Predicts(rows[k], c, prompt, gen, k)
<1>1. PICK P, R : P = Len(prompt) /\ R = Len(gen)
  OBVIOUS
<1>2. P \in Nat /\ R \in Nat /\ Long(prompt, P) /\ Long(gen, R)
  <2>1. Long(prompt, Len(prompt)) /\ Long(gen, Len(gen))
    BY SeqIsLong
  <2> QED BY <1>1, <2>1, LenProperties
<1>3. PICK d : d = HF!DropLast(c)
  OBVIOUS
<1>4. DOMAIN gen = 1 .. R
  BY <1>2, LongIsSeq
<1>5. /\ DOMAIN rows = 1 .. R
      /\ \A k \in 1 .. R : rows[k] = IF k = 1 /\ prompt = << >>
                                     THEN Last(HF!DecodeLogits(d, <<Last(c.toks)>>))
                                     ELSE Last(HF!DecodeLogits(c, prompt \o SubSeq(gen, 1, k - 1)))
  BY <1>3, <1>4, SameFront DEF HF!GenerateRows
<1>6. ASSUME NEW k \in 1 .. R, k = 1, prompt = << >> PROVE Predicts(rows[k], c, prompt, gen, k)
  <2>1. PICK t : t = Last(c.toks)
    OBVIOUS
  <2>2. PICK u : u = <<t>>
    OBVIOUS
  <2>3. Long(u, 1)
    BY <2>2 DEF Long
  <2>4. PICK w : w = HF!DecodeLogits(d, u)
    OBVIOUS
  <2>5. Decoded(w, ViewOf(d), u, 1, LogicalLen(d))
    BY <2>3, <2>4, DecodedIs
  <2>6. PICK row : row = rows[k]
    OBVIOUS
  <2>7. row = Last(w)
    BY <1>5, <1>6, <2>1, <2>2, <2>4, <2>6
  <2>8. Long(w, 1) /\ 1 \in Nat \ {0} /\ 1 \in 1 .. 1
    BY <2>5 DEF Decoded
  <2>9. Last(w) = w[1]
    BY <2>8, LastRow
  <2>10. w[1] = [cached |-> ViewOf(d), fed |-> FedTo(u, LogicalLen(d), 1)]
    BY <2>5, <2>8 DEF Decoded
  <2>11. row = [cached |-> ViewOf(d), fed |-> FedTo(u, LogicalLen(d), 1)]
    BY <2>7, <2>9, <2>10
  <2>12. PICK v : Cut(v, gen, 1, k - 1)
    BY DEF Cut
  <2>13. PICK f : Put(f, u, v)
    BY DEF Put
  <2>14. Long(f, 1) /\ \A i \in 1 .. 1 : u[i] = f[i]
    <3>1. Cut(v, gen, 1, 0) /\ 0 \in 0 .. R /\ 0 \in Nat
      BY <1>2, <1>6, <2>12
    <3>2. Long(v, 0)
      BY <1>2, <3>1, LongPrefix
    <3>3. Long(f, 1 + 0) /\ \A i \in 1 .. 1 : f[i] = u[i]
      <4>1. 1 \in Nat
        OBVIOUS
      <4> QED BY <2>3, <2>13, <3>1, <3>2, <4>1, LongConcat
    <3> QED BY <3>3
  <2>15. Put(f, <<Last(c.toks)>>, v)
    BY <2>1, <2>2, <2>13
  <2>16. Dropped(d, c)
    BY <1>3
  <2>17. Predicts(row, c, << >>, gen, k)
    BY <2>8, <2>11, <2>12, <2>14, <2>15, <2>16, PredictsAgain
  <2> QED BY <1>6, <2>6, <2>17
<1>7. ASSUME NEW k \in 1 .. R, ~ (k = 1 /\ prompt = << >>) PROVE Predicts(rows[k], c, prompt, gen, k)
  <2>1. PICK v : v = SubSeq(gen, 1, k - 1)
    OBVIOUS
  <2>2. PICK f : f = prompt \o v
    OBVIOUS
  <2>3. Cut(v, gen, 1, k - 1) /\ Put(f, prompt, v)
    BY <2>1, <2>2 DEF Cut, Put
  <2>4. PICK j : j = P + k - 1
    OBVIOUS
  <2>5. PICK u : Put(u, prompt, gen)
    BY DEF Put
  <2>6. Long(f, j)
    BY <1>2, <2>3, <2>4, <2>5, SameBeginning
  <2>7. j \in Nat \ {0}
    <3>1. P # 0 \/ k # 1
      BY <1>1, <1>2, <1>7, EmptySeq
    <3> QED BY <1>2, <2>4, <3>1
  <2>8. PICK w : w = HF!DecodeLogits(c, f)
    OBVIOUS
  <2>9. Decoded(w, ViewOf(c), f, j, LogicalLen(c))
    BY <2>6, <2>8, DecodedIs
  <2>10. PICK row : row = rows[k]
    OBVIOUS
  <2>11. row = Last(w)
    BY <1>5, <1>7, <2>1, <2>2, <2>8, <2>10
  <2>12. Long(w, j) /\ j \in 1 .. j
    BY <2>7, <2>9 DEF Decoded
  <2>13. Last(w) = w[j]
    BY <2>7, <2>12, LastRow
  <2>14. w[j] = [cached |-> ViewOf(c), fed |-> FedTo(f, LogicalLen(c), j)]
    BY <2>9, <2>12 DEF Decoded
  <2>15. row = [cached |-> ViewOf(c), fed |-> FedTo(f, LogicalLen(c), j)]
    BY <2>11, <2>13, <2>14
  <2>16. Predicts(row, c, prompt, gen, k)
    BY <2>3, <2>6, <2>7, <2>15, PredictsOver
  <2> QED BY <2>10, <2>16
<1> QED BY <1>5, <1>6, <1>7

-----------------------------------------------------------------------------
(* The caller holds a raw cache, a compact one or none *)
KindInv == ctx = None \/ ctx.kind = "raw" \/ ctx.kind = "compact"

LEMMA KindStep ==
    ASSUME CoreInv, RowsInv, KindInv, [Next]_vars
    PROVE  KindInv'
<1>1. CASE UNCHANGED vars
  BY <1>1 DEF vars, KindInv
<1>2. CASE Next
  <2>1. NothingChanges => KindInv'
    BY DEF NothingChanges, KindInv
  <2>2. RawStep => KindInv'
    BY DEF RawStep, KindInv
  <2>3. RawLeaves \/ CompactLeaves \/ Converts \/ Drop => KindInv'
    BY DEF RawLeaves, CompactLeaves, Converts, Drop, KindInv
  <2>4. ASSUME NEW b \in Budgets, Compact(b) PROVE KindInv'
    <3>1. ctx' \in Compacts(b)
      BY <2>4 DEF Compact
    <3>2. PICK x : x = ctx'
      OBVIOUS
    <3>3. x.kind = "compact"
      BY <3>1, <3>2, CompactsKind
    <3> QED BY <3>2, <3>3 DEF KindInv
  <2>5. ASSUME NEW s \in Seq(TokenIds), Fuse(s) PROVE KindInv'
    BY <2>5 DEF Fuse, Combined, CompactCache, KindInv
  <2>6. ASSUME NEW t, NEW steps, NEW items, Compiles(t, steps, items) PROVE KindInv'
    BY <2>6 DEF Compiles, KindInv
  <2>7. UseCartridge => KindInv'
    BY DEF UseCartridge, ToCompactCache, CompactCache, KindInv
  <2>8. ResumeCompact => KindInv'
    <3>1. HAVE ResumeCompact
    <3>2. ctx' = LoadCompactCache(moved) /\ moved.kind = "compact"
      BY <3>1 DEF ResumeCompact
    <3>3. PICK x : x = LoadCompactCache(moved)
      OBVIOUS
    <3>4. CompactFact(x)
      BY <3>2, <3>3 DEF RowsInv
    <3>5. x.kind = "compact"
      <4>1. PICK hs, n, t, m : x = CompactCache(hs, n, t, m)
        BY <3>4 DEF CompactFact
      <4> QED BY <4>1 DEF CompactCache
    <3> QED BY <3>2, <3>3, <3>5 DEF KindInv
  <2>9. ASSUME NEW path, SaveCartridge(path) \/ LoadCartridge(path) PROVE KindInv'
    BY <2>9 DEF SaveCartridge, LoadCartridge, KindInv
  <2> QED BY <1>2, <2>1, <2>2, <2>3, <2>4, <2>5, <2>6, <2>7, <2>8, <2>9, Steps
<1> QED BY <1>1, <1>2

(* Whatever the caller holds can be decoded over, less its last position too *)
LEMMA HeldDecodable ==
    ASSUME CoreInv, RowsInv, KindInv, ctx # None
    PROVE  Decodable(ctx) /\ LogicalLen(ctx) \in Nat /\ Dropped(HF!DropLast(ctx), ctx)
<1>1. CASE ctx.kind = "raw"
  <2>1. RawFact(ctx, backend, genuine, segs)
    BY <1>1 DEF CoreInv
  <2>2. PICK T : T = Len(ctx.toks)
    OBVIOUS
  <2>3. PICK c, d : c = ctx /\ d = HF!DropLast(c)
    OBVIOUS
  <2>4. Shaped(c, T, 0) /\ T \in Nat \ {0}
    BY <2>1, <2>2, <2>3, RawShaped
  <2>5. Decodable(c)
    BY <2>4, RawDecodable
  <2>6. Dropped(d, c)
    BY <2>3, <2>4, RawDropped
  <2>7. LogicalLen(c) \in Nat
    BY <2>4 DEF Shaped
  <2> QED BY <2>3, <2>5, <2>6, <2>7
<1>2. CASE ctx.kind = "compact"
  <2>1. PICK c, d : c = ctx /\ d = HF!DropLast(c)
    OBVIOUS
  <2>2. CompactFact(c)
    BY <1>2, <2>1 DEF RowsInv
  <2>3. Dropped(d, c)
    BY <2>1, <2>2, CompactDropped
  <2>4. Decodable(c)
    BY <1>2, <2>1, <2>2, CompactDecodable DEF CompactFact
  <2>5. LogicalLen(c) \in Nat
    BY <1>2, <2>1, <2>2 DEF CompactFact, LogicalLen
  <2> QED BY <2>1, <2>3, <2>4, <2>5
<1> QED BY <1>1, <1>2 DEF KindInv

(* What is submitted to vLLM: the targets, behind a token that predicts them *)
Submitted(q, target) == q.first > 0 /\ \A k \in DOMAIN target : q.ids[q.first + k] = target[k]

LEMMA SubmittedIs ==
    ASSUME NEW S, NEW p \in Seq(S), NEW r \in Seq(S), NEW c, NEW q, q = VL!ScoreRequest(c, p, r)
    PROVE  Submitted(q, r)
<1>1. PICK P, R : P = Len(p) /\ R = Len(r)
  OBVIOUS
<1>2. P \in Nat /\ R \in Nat /\ Long(p, P) /\ Long(r, R)
  <2>1. Long(p, Len(p)) /\ Long(r, Len(r))
    BY SeqIsLong
  <2> QED BY <1>1, <2>1, LenProperties
<1>3. DOMAIN r = 1 .. R
  BY <1>2, LongIsSeq
<1>4. CASE p = << >>
  <2>1. PICK h : h = <<VL!Boundary(c)>>
    OBVIOUS
  <2>2. Long(h, 1) /\ 1 \in Nat
    BY <2>1 DEF Long
  <2>3. PICK u : Put(u, h, r)
    BY DEF Put
  <2>4. \A i \in 1 .. R : u[1 + i] = r[i]
    BY <1>2, <2>2, <2>3, LongConcat
  <2>5. q.ids = u /\ q.first = 1
    BY <1>4, <2>1, <2>3 DEF VL!ScoreRequest, Put
  <2> QED BY <1>3, <2>4, <2>5 DEF Submitted
<1>5. CASE p # << >>
  <2>1. PICK u : Put(u, p, r)
    BY DEF Put
  <2>2. \A i \in 1 .. R : u[P + i] = r[i]
    BY <1>2, <2>1, LongConcat
  <2>3. q.ids = u /\ q.first = P
    BY <1>1, <1>5, <2>1 DEF VL!ScoreRequest, Put
  <2>4. P > 0
    <3>1. P # 0
      BY <1>1, <1>5, EmptySeq
    <3> QED BY <1>2, <3>1
  <2> QED BY <1>3, <2>2, <2>3, <2>4 DEF Submitted
<1> QED BY <1>4, <1>5

(* What the perceivers are trained on *)
LEMMA DecodeOverIs ==
    ASSUME NEW c, Decodable(c), NEW L, L = LogicalLen(c),
           NEW hs, \A h \in Heads : hs[h] = SlotsOf(c, h), NEW u
    PROVE  DecodeOver(hs, L, u) = HF!DecodeLogits(c, u)
<1>1. \A q \in QHeads : hs[kv_head_of(q)] = HF!CachedView(c, q)
  <2>1. TAKE q \in QHeads
  <2>2. kv_head_of(q) \in Heads
    BY HeadOf
  <2>3. HF!CachedView(c, q) = SlotsOf(c, kv_head_of(q))
    BY ViewIs DEF Decodable
  <2> QED BY <2>2, <2>3
<1>2. PICK v : v = [q \in QHeads |-> hs[kv_head_of(q)]]
  OBVIOUS
<1>3. v = [q \in HF!QHeads |-> HF!CachedView(c, q)]
  BY <1>1, <1>2, SameHeads
<1>4. HF!LogicalLen(c) = L
  BY SameLen
<1>5. DecodeOver(hs, L, u) = [j \in DOMAIN u |-> [cached |-> v, fed |-> FedTo(u, L, j)]]
  BY <1>2 DEF DecodeOver, FedTo
<1>6. HF!DecodeLogits(c, u) = [j \in DOMAIN u |-> [cached |-> v, fed |-> FedTo(u, L, j)]]
  BY <1>3, <1>4 DEF HF!DecodeLogits, FedTo
<1> QED BY <1>5, <1>6

Distilled(loss, c, b, perceivers) ==
    /\ loss.teacher = HF!DecodeLogits(c, loss.answer)
    /\ \A l \in Layers : loss.student = HF!DecodeLogits(Still(c, b, perceivers[l].latents), loss.answer)

LEMMA LossIs ==
    ASSUME NEW c, NEW T \in Nat \ {0}, Shaped(c, T, 0), T = Len(c.toks), c = ContextKV(c.toks),
           NEW n \in Nat \ {0}, NEW a, NEW b \in Budgets,
           NEW perceivers, \A l \in Layers : perceivers[l].latents = n,
           NEW loss, loss = SampleLoss(BuildPerceivers(n), [context |-> c.toks, answer |-> a])
    PROVE  Distilled(loss, c, b, perceivers)
<1>1. PICK hs, ps : hs = [h \in Heads |-> SlotsOf(c, h)] /\ ps = [h \in Heads |-> Perceive(c, n)]
  OBVIOUS
<1>2. \A h \in Heads : BuildPerceivers(n)[h[1]].latents = n
  BY DEF Heads, BuildPerceivers, Perceiver
<1>3. loss = [answer |-> a, teacher |-> DecodeOver(hs, T, a), student |-> DecodeOver(ps, T, a)]
  <2>1. [h \in Heads |-> Perceive(c, BuildPerceivers(n)[h[1]].latents)] = ps
    BY <1>1, <1>2
  <2> QED BY <1>1, <2>1 DEF SampleLoss
<1>4. LogicalLen(c) = T /\ Decodable(c)
  BY RawDecodable DEF Shaped
<1>5. DecodeOver(hs, T, a) = HF!DecodeLogits(c, a)
  BY <1>1, <1>4, DecodeOverIs
<1>6. PICK x : x = Still(c, b, n)
  OBVIOUS
<1>7. n # NoPerceivers /\ n \in Nat
  BY DEF NoPerceivers
<1>8. /\ CompactFact(x) /\ x.method = "still" /\ x.len = T
      /\ \E k \in Nat \ {0} : /\ n # NoPerceivers => k = n
                              /\ \A h \in Heads : x.heads[h] = Perceive(c, k) /\ Below(x.heads[h], k, T)
  BY <1>6, <1>7, StillIs
<1>9. \A h \in Heads : x.heads[h] = Perceive(c, n)
  BY <1>7, <1>8
<1>10. x.kind = "compact"
  BY <1>8 DEF CompactFact, CompactCache
<1>11. Decodable(x) /\ LogicalLen(x) = T
  BY <1>8, <1>10, CompactDecodable DEF CompactFact, LogicalLen
<1>12. \A h \in Heads : ps[h] = SlotsOf(x, h)
  BY <1>1, <1>9, <1>10 DEF SlotsOf
<1>13. DecodeOver(ps, T, a) = HF!DecodeLogits(x, a)
  BY <1>11, <1>12, DecodeOverIs
<1> QED BY <1>3, <1>5, <1>6, <1>13 DEF Distilled

LEMMA PrefillIsContext ==
    ASSUME NEW toks
    PROVE  PrefillOf("hf", toks, 0) = ContextKV(toks)
<1>1. PrefillOf("hf", toks, 0) = RawOf(Cols("hf", toks), toks)
  BY PrefillIs
<1> QED BY <1>1 DEF RawOf, Cols, ContextKV

LEMMA TrainedOnRows ==
    ASSUME CoreInv, NEW n \in Latents, NEW answers, NEW steps, TrainStill(n, answers, steps),
           out'.kind = "distilled"
    PROVE  /\ ctx' = ctx
           /\ \A s \in DOMAIN out'.history, b \in Budgets : \A i \in DOMAIN out'.history[s] :
                 Distilled(out'.history[s][i], ctx, b, out'.perceivers)
<1>1. out' # Error
  BY DEF Error
<1>2. PICK samples : samples = [i \in DOMAIN answers |-> [context |-> ctx.toks, answer |-> answers[i]]]
  OBVIOUS
<1>3. PICK t : t = Train(BuildPerceivers(n), samples, steps)
  OBVIOUS
<1>4. /\ Raw /\ backend = "hf" /\ genuine = Exact /\ ctx' = ctx /\ CanBuild(n)
      /\ out' = [kind |-> "distilled", history |-> t.history, perceivers |-> t.perceivers]
  BY <1>1, <1>2, <1>3 DEF TrainStill
<1>5. n \in Nat \ {0}
  BY <1>4, EngineAssumption DEF CanBuild
<1>6. PICK T : T = LogicalLen(ctx)
  OBVIOUS
<1>7. PICK c : c = ctx
  OBVIOUS
<1>8. T \in Nat \ {0} /\ T = Len(c.toks) /\ Shaped(c, T, 0) /\ OrigFact(c, "hf")
  BY <1>4, <1>6, <1>7, RawContext
<1>9. c = ContextKV(c.toks)
  BY <1>8, PrefillIsContext DEF OrigFact
<1>10. PICK ps : ps = out'.perceivers
  OBVIOUS
<1>11. \A l \in Layers : ps[l].latents = n
  BY <1>3, <1>4, <1>10 DEF Train, BuildPerceivers, Perceiver
<1>12. out'.history = [s \in 1 .. steps |-> [i \in DOMAIN samples |-> SampleLoss(BuildPerceivers(n), samples[i])]]
  BY <1>3, <1>4 DEF Train
<1>13. ASSUME NEW i \in DOMAIN answers, NEW b \in Budgets
       PROVE  Distilled(SampleLoss(BuildPerceivers(n), samples[i]), c, b, ps)
  <2>1. PICK a : a = answers[i]
    OBVIOUS
  <2>2. samples[i] = [context |-> c.toks, answer |-> a]
    BY <1>2, <1>7, <2>1
  <2>3. PICK loss : loss = SampleLoss(BuildPerceivers(n), [context |-> c.toks, answer |-> a])
    OBVIOUS
  <2>4. Distilled(loss, c, b, ps)
    BY <1>5, <1>8, <1>9, <1>11, <2>3, LossIs
  <2> QED BY <2>2, <2>3, <2>4
<1>14. DOMAIN samples = DOMAIN answers
  BY <1>2
<1>15. ASSUME NEW s \in DOMAIN out'.history, NEW b \in Budgets, NEW i \in DOMAIN out'.history[s]
       PROVE  Distilled(out'.history[s][i], c, b, ps)
  <2>1. out'.history[s] = [k \in DOMAIN samples |-> SampleLoss(BuildPerceivers(n), samples[k])]
    BY <1>12
  <2>2. i \in DOMAIN answers /\ out'.history[s][i] = SampleLoss(BuildPerceivers(n), samples[i])
    BY <1>14, <2>1
  <2> QED BY <1>13, <2>2
<1> QED BY <1>4, <1>7, <1>10, <1>15

LEMMA RequestIs ==
    ASSUME NEW p \in Prompts, NEW r \in Responses, backend \in {"hf", "vllm", "fake"},
           Score(p, r) \/ Generate(p, r), out'.kind = "request", out'.target # << >>
    PROVE  Submitted(out'.request, out'.target)
<1>1. p \in Seq(TokenIds) /\ r \in Seq(TokenIds)
  BY TokensTyped
<1>2. ~ Generate(p, r)
  <2>1. ASSUME Generate(p, r) PROVE FALSE
    <3>1. backend = "vllm" => out' = VL!Generate(ready, ctx, p)
      BY <2>1 DEF Generate
    <3>2. backend # "vllm" => out'.kind # "request"
      BY <2>1 DEF Generate, Error, Rows
    <3>3. backend = "vllm" => out'.kind # "request" \/ out'.target = << >>
      BY <3>1 DEF VL!Generate, VL!Error
    <3> QED BY <3>2, <3>3
  <2> QED BY <2>1
<1>3. backend = "vllm" /\ out' = VL!Score(ready, ctx, p, r)
  <2>1. Score(p, r)
    BY <1>2
  <2>2. backend # "vllm" => out'.kind # "request"
    BY <2>1 DEF Score, Error, Rows
  <2> QED BY <2>1, <2>2 DEF Score
<1>4. out' = [kind |-> "request", target |-> r, request |-> VL!ScoreRequest(ctx, p, r)]
  BY <1>3 DEF VL!Score, VL!Error
<1>5. PICK q : q = VL!ScoreRequest(ctx, p, r)
  OBVIOUS
<1>6. Submitted(q, r)
  BY <1>1, <1>5, SubmittedIs
<1> QED BY <1>4, <1>5, <1>6

LEMMA RowsAre ==
    ASSUME CoreInv, RowsInv, KindInv, NEW p \in Prompts, NEW r \in Responses,
           Score(p, r) \/ Generate(p, r) \/ ServeCartridge(p, r), out'.kind = "rows", backend = "hf"
    PROVE  ctx' = ctx /\ \A k \in DOMAIN out'.rows : Predicts(out'.rows[k], ctx, out'.prompt, out'.fed, k)
<1>1. p \in Seq(TokenIds) /\ r \in Seq(TokenIds)
  BY TokensTyped
<1>2. ctx' = ctx
  BY DEF Score, Generate, ServeCartridge
<1>3. out' # Error
  BY DEF Error
<1>4. CASE ServeCartridge(p, r)
  <2>1. out' = Rows(p, r, << >>) \/ out'.kind = "writer"
    BY <1>3, <1>4 DEF ServeCartridge
  <2>2. out'.rows = << >>
    BY <2>1 DEF Rows
  <2> QED BY <1>2, <2>2
<1>5. CASE Score(p, r)
  <2>1. ctx # None /\ out' = Rows(p, r, HF!Score(ctx, p, r))
    BY <1>3, <1>5 DEF Score
  <2>2. PICK c, rows : c = ctx /\ rows = HF!Score(c, p, r)
    OBVIOUS
  <2>3. Decodable(c) /\ LogicalLen(c) \in Nat /\ Dropped(HF!DropLast(c), c)
    BY <2>1, <2>2, HeldDecodable
  <2>4. \A k \in DOMAIN rows : Predicts(rows[k], c, p, r, k)
    BY <1>1, <2>2, <2>3, ScorePredicts
  <2>5. out'.rows = rows /\ out'.prompt = p /\ out'.fed = r
    BY <2>1, <2>2 DEF Rows
  <2> QED BY <1>2, <2>2, <2>4, <2>5
<1>6. CASE Generate(p, r)
  <2>1. ctx # None /\ out' = Rows(p, r, HF!GenerateRows(ctx, p, r))
    BY <1>3, <1>6 DEF Generate
  <2>2. PICK c, rows : c = ctx /\ rows = HF!GenerateRows(c, p, r)
    OBVIOUS
  <2>3. Decodable(c) /\ LogicalLen(c) \in Nat /\ Dropped(HF!DropLast(c), c)
    BY <2>1, <2>2, HeldDecodable
  <2>4. \A k \in DOMAIN rows : Predicts(rows[k], c, p, r, k)
    BY <1>1, <2>2, <2>3, GeneratePredicts
  <2>5. out'.rows = rows /\ out'.prompt = p /\ out'.fed = r
    BY <2>1, <2>2 DEF Rows
  <2> QED BY <1>2, <2>2, <2>4, <2>5
<1> QED BY <1>4, <1>5, <1>6

(* The promise about one result *)
SeesIn(o, c, b) ==
    /\ o.kind = "distilled" =>
          \A s \in DOMAIN o.history, bb \in Budgets : \A i \in DOMAIN o.history[s] :
              Distilled(o.history[s][i], c, bb, o.perceivers)
    /\ o.kind = "request" /\ o.target # << >> => Submitted(o.request, o.target)
    /\ o.kind = "rows" /\ b = "hf" /\ o.rows # << >> =>
          \A k \in DOMAIN o.rows : Predicts(o.rows[k], c, o.prompt, o.fed, k)

LEMMA SeesMeans ==
    /\ DecodeSeesContext <=> SeesIn(out, ctx, backend)
    /\ DecodeSeesContext' <=> SeesIn(out', ctx', backend')
<1>1. DecodeSeesContext <=> SeesIn(out, ctx, backend)
  BY DEF DecodeSeesContext, SeesIn, Distilled, Submitted, Predicts, FedAt, FedBefore, StartOf, Again, SlotsFor
<1>2. DecodeSeesContext' <=> SeesIn(out', ctx', backend')
  BY DEF DecodeSeesContext, SeesIn, Distilled, Submitted, Predicts, FedAt, FedBefore, StartOf, Again, SlotsFor
<1> QED BY <1>1, <1>2

LEMMA SeesStep ==
    ASSUME CoreInv, RowsInv, KindInv, SeesIn(out, ctx, backend), [Next]_vars
    PROVE  SeesIn(out', ctx', backend')
<1>1. CASE UNCHANGED vars
  <2>1. out' = out /\ ctx' = ctx /\ backend' = backend
    BY <1>1 DEF vars
  <2> QED BY <2>1
<1>2. CASE Next
  <2>1. backend \in {"hf", "vllm", "fake"} /\ backend' = backend
    <3>1. backend \in {"hf", "vllm", "fake"}
      BY DEF CoreInv
    <3>2. backend' = backend
      BY <1>2, Steps DEF NothingChanges, RawStep, RawLeaves, CompactLeaves, Converts, Compact, Fuse,
           Compiles, UseCartridge, ResumeCompact, Drop, SaveCartridge, LoadCartridge
    <3> QED BY <3>1, <3>2
  <2>2. out'.kind = "distilled" =>
          \A s \in DOMAIN out'.history, b \in Budgets : \A i \in DOMAIN out'.history[s] :
              Distilled(out'.history[s][i], ctx', b, out'.perceivers)
    <3>1. HAVE out'.kind = "distilled"
    <3>2. PICK n \in Latents, steps \in {0, 1}, answers \in SeqOf(Responses \ {<< >>}, 1) :
            TrainStill(n, answers, steps)
      BY <1>2, <2>1, <3>1, Origin
    <3> QED BY <3>1, <3>2, TrainedOnRows
  <2>3. out'.kind = "request" /\ out'.target # << >> => Submitted(out'.request, out'.target)
    <3>1. HAVE out'.kind = "request" /\ out'.target # << >>
    <3>2. PICK p \in Prompts, r \in Responses : Score(p, r) \/ Generate(p, r)
      BY <1>2, <2>1, <3>1, Origin
    <3> QED BY <2>1, <3>1, <3>2, RequestIs
  <2>4. out'.kind = "rows" /\ backend' = "hf" =>
          \A k \in DOMAIN out'.rows : Predicts(out'.rows[k], ctx', out'.prompt, out'.fed, k)
    <3>1. HAVE out'.kind = "rows" /\ backend' = "hf"
    <3>2. PICK p \in Prompts, r \in Responses : Score(p, r) \/ Generate(p, r) \/ ServeCartridge(p, r)
      BY <1>2, <2>1, <3>1, Origin
    <3> QED BY <2>1, <3>1, <3>2, RowsAre
  <2> QED BY <2>2, <2>3, <2>4 DEF SeesIn
<1> QED BY <1>1, <1>2

(* Every token is predicted from the whole context: each query head sees    *)
(* all slots of its kv-head and no padding, and the tokens before it at the *)
(* positions behind the context (engine/hf_backend.py, _build_cache,        *)
(* _decode_logits and _drop_last; engine/vllm_backend.py; still/train.py)   *)
THEOREM DecodesSeeContext == Spec => []DecodeSeesContext
<1>1. Init => DecodeSeesContext /\ KindInv
  BY DEF Init, None, DecodeSeesContext, KindInv
<1>2. CoreInv /\ RowsInv /\ KindInv /\ [Next]_vars => KindInv'
  BY KindStep
<1>3. CoreInv /\ RowsInv /\ KindInv /\ DecodeSeesContext /\ [Next]_vars => DecodeSeesContext'
  BY SeesStep, SeesMeans
<1> QED BY <1>1, <1>2, <1>3, Core, SlotRows, PTL DEF Spec

-----------------------------------------------------------------------------
(* What a compact cache keeps of the raw cache it was made of              *)

(* a head of n slots whose columns are those of S and whose positions are  *)
(* those of P *)
KeptAs(hd, o, n, S, P) ==
    /\ n \in Nat /\ IsRow(hd, n)
    /\ \A k \in 1 .. n : /\ hd[k].key = o.cols[Order(S)[k]] /\ hd[k].pos = Order(P)[k] - 1
                         /\ Order(S)[k] \in S /\ Order(P)[k] \in P
    /\ Sorted(Order(S), S, n) /\ Sorted(Order(P), P, n)

LEMMA KeptFacts ==
    ASSUME NEW o, NEW T, Shaped(o, T, 0), NEW hd, NEW S, NEW P, Kept(hd, o, T, S, P),
           P \subseteq 1 .. T, NEW n, n = Cardinality(S), n = Cardinality(P)
    PROVE  KeptAs(hd, o, n, S, P) /\ n \in 0 .. T
<1>1. T \in Nat /\ \A i \in 1 .. T : o.positions[i] = 0 + i - 1
  BY DEF Shaped
<1>2. S \subseteq 1 .. T
  BY DEF Kept
<1>3. n \in 0 .. T /\ Sorted(Order(S), S, n)
  BY <1>1, <1>2, SubsetOfTokens
<1>4. Sorted(Order(P), P, n)
  BY <1>1, SubsetOfTokens
<1>5. \A k \in 1 .. n : Order(S)[k] \in S /\ Order(P)[k] \in P
  BY <1>3, <1>4 DEF Sorted
<1>6. \A k \in 1 .. n : hd[k].pos = Order(P)[k] - 1
  <2>1. TAKE k \in 1 .. n
  <2>2. PICK y : y = Order(P)[k]
    OBVIOUS
  <2>3. y \in 1 .. T
    BY <1>5, <2>2
  <2>4. hd[k].pos = o.positions[y]
    BY <2>2 DEF Kept
  <2> QED BY <1>1, <2>2, <2>3, <2>4
<1>7. IsRow(hd, n) /\ \A k \in 1 .. n : hd[k].key = o.cols[Order(S)[k]]
  BY DEF Kept
<1>8. n \in Nat
  BY <1>1, <1>3
<1> QED BY <1>3, <1>4, <1>5, <1>6, <1>7, <1>8 DEF KeptAs

(* Its positions are those of the context *)
LEMMA KeptBelow ==
    ASSUME NEW o, NEW T, Shaped(o, T, 0), NEW hd, NEW S, NEW P, Kept(hd, o, T, S, P),
           P \subseteq 1 .. T, NEW n, n = Cardinality(S), n = Cardinality(P)
    PROVE  Below(hd, n, T)
<1>1. KeptAs(hd, o, n, S, P) /\ T \in Nat
  BY KeptFacts DEF Shaped
<1>2. \A k \in 1 .. n : hd[k].pos \in 0 .. T - 1
  <2>1. TAKE k \in 1 .. n
  <2>2. PICK y : y = Order(P)[k]
    OBVIOUS
  <2>3. y \in 1 .. T /\ hd[k].pos = y - 1
    BY <1>1, <2>2 DEF KeptAs
  <2> QED BY <1>1, <2>3
<1> QED BY <1>1, <1>2 DEF Below, KeptAs

(* The positions a head has: its own, or the first head's once it was read *)
PlacesOf(sel, h, r) == sel[IF r THEN FirstHead ELSE h]

LEMMA ChosenPlaces ==
    ASSUME NEW c, NEW o, NEW T, NEW sel, NEW r \in BOOLEAN, Chosen(c, o, T, sel, r),
           r => \A h \in Heads : Cardinality(sel[h]) = Cardinality(sel[FirstHead]),
           NEW h \in Heads, NEW P, P = PlacesOf(sel, h, r)
    PROVE  /\ Kept(c.heads[h], o, T, sel[h], P)
           /\ P \subseteq 1 .. T /\ Cardinality(P) = Cardinality(sel[h])
<1>1. Kept(c.heads[h], o, T, sel[h], P)
  BY DEF Chosen, PlacesOf
<1>2. FirstHead \in Heads
  BY HeadsAre
<1>3. \A g \in Heads : sel[g] \subseteq 1 .. T
  BY DEF Chosen, Kept
<1>4. CASE r
  <2>1. P = sel[FirstHead]
    BY <1>4 DEF PlacesOf
  <2> QED BY <1>1, <1>2, <1>3, <1>4, <2>1
<1>5. CASE ~ r
  <2>1. P = sel[h]
    BY <1>5 DEF PlacesOf
  <2> QED BY <1>1, <1>3, <2>1
<1> QED BY <1>4, <1>5

(* The slots of working memory: those of a context of T tokens, then m raw *)
(* columns at the positions behind it                                      *)
Behindhand(hd, n, m, T, b) ==
    /\ n \in Nat /\ m \in Nat /\ IsRow(hd, n + m)
    /\ \A i \in 1 .. n : hd[i].pos \in 0 .. T - 1
    /\ \A j \in 1 .. m : hd[n + j].pos = T + j - 1 /\ (b = "hf" => hd[n + j].key.pos = T + j - 1)

Fused(c, T, b) ==
    \E m \in Nat \ {0} : c.len = T + m /\ \A h \in Heads : \E n : Behindhand(c.heads[h], n, m, T, b)

FaithfulTo(c, o, a, b, r) ==
    LET T == LogicalLen(o) IN
    \/ c.method = "still" /\ c.len = T /\ \A h \in Heads : \E k : Below(c.heads[h], k, T)
    \/ c.method = "working_memory" /\ Fused(c, T, b)
    \/ c.method \notin {"still", "cartridge", "working_memory"} /\ c.len = T /\ Selects(c, o, a, T, r)

(* A cache a context was compacted to, whatever the method, stands below its end *)
LEMMA FaithfulBelow ==
    ASSUME NEW c, NEW o, NEW T, Shaped(o, T, 0), NEW a, NEW b, NEW r \in BOOLEAN, FaithfulTo(c, o, a, b, r),
           c.method # "working_memory"
    PROVE  c.len = T /\ \A h \in Heads : \E k : Below(c.heads[h], k, T)
<1>1. LogicalLen(o) = T
  BY DEF Shaped
<1>2. CASE c.method = "still"
  BY <1>1, <1>2 DEF FaithfulTo
<1>3. CASE c.method # "still"
  <2>1. c.len = T /\ Selects(c, o, a, T, r)
    BY <1>1, <1>3 DEF FaithfulTo
  <2>2. PICK sel : /\ Chosen(c, o, T, sel, r)
                   /\ r => \A h \in Heads : Cardinality(sel[h]) = Cardinality(sel[FirstHead])
    BY <2>1 DEF Selects
  <2>3. ASSUME NEW h \in Heads PROVE \E k : Below(c.heads[h], k, T)
    <3>1. PICK P, n, S, hd : P = PlacesOf(sel, h, r) /\ S = sel[h] /\ n = Cardinality(S) /\ hd = c.heads[h]
      OBVIOUS
    <3>2. Kept(c.heads[h], o, T, sel[h], P) /\ P \subseteq 1 .. T /\ Cardinality(P) = Cardinality(sel[h])
      BY <2>2, <3>1, ChosenPlaces
    <3>3. Kept(hd, o, T, S, P) /\ P \subseteq 1 .. T /\ n = Cardinality(P)
      BY <3>1, <3>2
    <3>4. Below(hd, n, T)
      BY <3>1, <3>3, KeptBelow
    <3> QED BY <3>1, <3>4
  <2> QED BY <2>1, <2>3
<1> QED BY <1>2, <1>3

-----------------------------------------------------------------------------
(* What is kept of it through a file                                       *)

(* Rows of as many slots that agree are the same *)
LEMMA SameRow ==
    ASSUME NEW u, NEW w, NEW n, IsRow(u, n), IsRow(w, n), \A i \in 1 .. n : u[i] = w[i]
    PROVE  u = w
<1>1. u = [i \in 1 .. n |-> u[i]] /\ w = [i \in 1 .. n |-> w[i]]
  BY DEF IsRow, Long
<1> QED BY <1>1

LEMMA RowLength ==
    ASSUME NEW u, NEW n, NEW m, IsRow(u, n), IsRow(u, m)
    PROVE  n = m /\ Len(u) = n /\ n \in Nat
BY LongIsSeq DEF IsRow, Long

LEMMA RereadHead ==
    ASSUME NEW c, NEW x, NEW n, Reread(x, c, n), NEW o, NEW T, NEW r \in BOOLEAN,
           NEW sel, Chosen(c, o, T, sel, r), NEW h \in Heads
    PROVE  /\ Kept(x.heads[h], o, T, sel[h], sel[FirstHead])
           /\ Cardinality(sel[h]) = n /\ Cardinality(sel[FirstHead]) = n
<1>1. PICK u, w, f, S, P : u = c.heads[h] /\ w = x.heads[h] /\ f = c.heads[FirstHead]
                           /\ S = sel[h] /\ P = sel[FirstHead]
  OBVIOUS
<1>2. FirstHead \in Heads
  BY HeadsAre
<1>3. /\ IsRow(u, n) /\ IsRow(w, n) /\ IsRow(f, n)
      /\ \A i \in 1 .. n : w[i].key = u[i].key /\ w[i].pos = f[i].pos /\ (u[i].pos = f[i].pos => w[i] = u[i])
  BY <1>1, <1>2 DEF Reread
<1>4. PICK Q : Q = sel[IF r THEN FirstHead ELSE h]
  OBVIOUS
<1>5. Kept(u, o, T, S, Q) /\ Kept(f, o, T, P, P)
  <2>1. sel[IF r THEN FirstHead ELSE FirstHead] = P
    BY <1>1
  <2> QED BY <1>1, <1>2, <1>4, <2>1 DEF Chosen
<1>6. Cardinality(S) = n /\ Cardinality(P) = n
  <2>1. IsRow(u, Cardinality(S)) /\ IsRow(f, Cardinality(P))
    BY <1>5 DEF Kept
  <2> QED BY <1>3, <2>1, RowLength
<1>7. S \subseteq 1 .. T /\ \A k \in 1 .. n : u[k].key = o.cols[Order(S)[k]]
  BY <1>5, <1>6 DEF Kept
<1>8. \A k \in 1 .. n : f[k].pos = o.positions[Order(P)[k]]
  BY <1>5, <1>6 DEF Kept
<1>9. \A k \in 1 .. n : w[k].key = o.cols[Order(S)[k]] /\ w[k].pos = o.positions[Order(P)[k]]
  BY <1>3, <1>7, <1>8
<1>10. n = T => w = SlotsOf(o, FirstHead)
  <2>1. ASSUME n = T PROVE w = SlotsOf(o, FirstHead)
    <3>1. u = SlotsOf(o, FirstHead) /\ f = SlotsOf(o, FirstHead)
      BY <1>5, <1>6, <2>1 DEF Kept
    <3>2. \A i \in 1 .. n : w[i] = u[i]
      BY <1>3, <3>1
    <3>3. w = u
      BY <1>3, <3>2, SameRow
    <3> QED BY <3>1, <3>3
  <2> QED BY <2>1
<1>11. Kept(w, o, T, S, P)
  BY <1>3, <1>6, <1>7, <1>9, <1>10 DEF Kept
<1> QED BY <1>1, <1>6, <1>11

(* A selection stays one *)
LEMMA RereadSelects ==
    ASSUME NEW c, NEW x, NEW n, Reread(x, c, n), NEW o, NEW T, NEW b, NEW r \in BOOLEAN,
           c.len = T, Selects(c, o, b, T, r)
    PROVE  Selects(x, o, b, T, TRUE)
<1>1. PICK t : t = TargetOf(c.method, b, T)
  OBVIOUS
<1>2. PICK sel : /\ Chosen(c, o, T, sel, r) /\ WithinBudget(c, b, T, t, sel) /\ KeepsRecent(c.method, T, t, sel)
  BY <1>1 DEF Selects
<1>3. x.method = c.method /\ x.len = T
  BY DEF Reread
<1>4. FirstHead \in Heads
  BY HeadsAre
<1>5. \A h \in Heads : /\ Kept(x.heads[h], o, T, sel[h], sel[FirstHead])
                       /\ Cardinality(sel[h]) = n /\ Cardinality(sel[FirstHead]) = n
  BY <1>2, RereadHead
<1>6. Chosen(x, o, T, sel, TRUE)
  BY <1>3, <1>5 DEF Chosen
<1>7. \A l \in Layers : LayerBudget(x, l) = LayerBudget(c, l)
  <2>1. TAKE l \in Layers
  <2>2. \A g \in KVHeads : Len(c.heads[<<l, g>>]) = n /\ Len(x.heads[<<l, g>>]) = n /\ n \in Nat
    <3>0. TAKE g \in KVHeads
    <3>1. <<l, g>> \in Heads
      BY DEF Heads
    <3>2. PICK h : h = <<l, g>> /\ h \in Heads
      BY <3>1
    <3>3. IsRow(c.heads[h], n) /\ IsRow(x.heads[h], n)
      BY <3>2 DEF Reread
    <3> QED BY <3>2, <3>3, RowLength
  <2>3. n \in Nat
    BY <1>4, RowLength DEF Reread
  <2>4. LayerBudget(c, l) = n * Cardinality(KVHeads)
    BY <2>2, <2>3, EvenBudget
  <2>5. LayerBudget(x, l) = n * Cardinality(KVHeads)
    BY <2>2, <2>3, EvenBudget
  <2> QED BY <2>4, <2>5
<1>8. WithinBudget(x, b, T, t, sel)
  BY <1>2, <1>7 DEF WithinBudget
<1>9. \A h \in Heads : Cardinality(sel[h]) = Cardinality(sel[FirstHead])
  BY <1>5
<1> QED BY <1>1, <1>2, <1>3, <1>6, <1>8, <1>9 DEF Selects

(* So do latents below the end *)
LEMMA RereadBelow ==
    ASSUME NEW c, NEW x, NEW n, Reread(x, c, n), NEW T, \A h \in Heads : \E k : Below(c.heads[h], k, T)
    PROVE  \A h \in Heads : \E k : Below(x.heads[h], k, T)
<1>1. TAKE h \in Heads
<1>2. FirstHead \in Heads
  BY HeadsAre
<1>3. PICK k : Below(c.heads[FirstHead], k, T)
  BY <1>2
<1>4. IsRow(c.heads[FirstHead], n) /\ IsRow(x.heads[h], n)
      /\ \A i \in 1 .. n : x.heads[h][i].pos = c.heads[FirstHead][i].pos
  BY <1>2 DEF Reread
<1>5. k = n
  BY <1>3, <1>4, RowLength DEF Below
<1>6. Below(x.heads[h], n, T)
  BY <1>3, <1>4, <1>5 DEF Below
<1> QED BY <1>6

(* and working memory *)
LEMMA RereadFused ==
    ASSUME NEW c, NEW x, NEW n, Reread(x, c, n), NEW T, NEW b, Fused(c, T, b)
    PROVE  Fused(x, T, b)
<1>1. PICK m \in Nat \ {0} : c.len = T + m /\ \A h \in Heads : \E k : Behindhand(c.heads[h], k, m, T, b)
  BY DEF Fused
<1>2. FirstHead \in Heads
  BY HeadsAre
<1>3. PICK e : Behindhand(c.heads[FirstHead], e, m, T, b)
  BY <1>1, <1>2
<1>4. x.len = c.len
  BY DEF Reread
<1>5. ASSUME NEW h \in Heads PROVE Behindhand(x.heads[h], e, m, T, b)
  <2>1. PICK k : Behindhand(c.heads[h], k, m, T, b)
    BY <1>1
  <2>2. PICK u, w, f : u = c.heads[h] /\ w = x.heads[h] /\ f = c.heads[FirstHead]
    OBVIOUS
  <2>3. /\ IsRow(u, n) /\ IsRow(w, n) /\ IsRow(f, n)
        /\ \A i \in 1 .. n : w[i].key = u[i].key /\ w[i].pos = f[i].pos
    BY <1>2, <2>2 DEF Reread
  <2>4. Behindhand(u, k, m, T, b) /\ Behindhand(f, e, m, T, b)
    BY <1>3, <2>1, <2>2
  <2>5. n = k + m /\ n = e + m
    BY <2>3, <2>4, RowLength DEF Behindhand
  <2>6. k \in Nat /\ e \in Nat /\ m \in Nat
    BY <2>4 DEF Behindhand
  <2>7. k = e
    BY <2>5, <2>6
  <2>8. \A i \in 1 .. e : w[i].pos \in 0 .. T - 1
    <3>1. \A i \in 1 .. e : f[i].pos \in 0 .. T - 1
      BY <2>4 DEF Behindhand
    <3>2. \A i \in 1 .. e : i \in 1 .. n
      BY <2>5, <2>6
    <3> QED BY <2>3, <3>1, <3>2
  <2>9. \A j \in 1 .. m : w[e + j].pos = T + j - 1 /\ (b = "hf" => w[e + j].key.pos = T + j - 1)
    <3>1. \A j \in 1 .. m : f[e + j].pos = T + j - 1
      BY <2>4 DEF Behindhand
    <3>2. \A j \in 1 .. m : b = "hf" => u[e + j].key.pos = T + j - 1
      BY <2>4, <2>7 DEF Behindhand
    <3>3. \A j \in 1 .. m : e + j \in 1 .. n
      BY <2>5, <2>6
    <3>4. TAKE j \in 1 .. m
    <3>5. w[e + j].key = u[e + j].key /\ w[e + j].pos = f[e + j].pos
      BY <2>3, <3>3
    <3> QED BY <3>1, <3>2, <3>5
  <2>10. IsRow(w, e + m)
    BY <2>3, <2>5
  <2> QED BY <2>2, <2>6, <2>8, <2>9, <2>10 DEF Behindhand
<1> QED BY <1>1, <1>4, <1>5 DEF Fused

(* A compact cache that was saved and read is as faithful as a file can be *)
LEMMA RereadFaithful ==
    ASSUME NEW c, CompactFact(c), SavesCompact(c), NEW x, x = LoadCompactCache(SaveCompactCache(c, FirstHead)),
           NEW o, NEW a, NEW b, NEW r \in BOOLEAN, FaithfulTo(c, o, a, b, r)
    PROVE  FaithfulTo(x, o, a, b, TRUE)
<1>1. PICK n : Reread(x, c, n)
  BY SavedAndRead
<1>2. x.method = c.method /\ x.len = c.len
  BY <1>1 DEF Reread
<1>3. PICK T : T = LogicalLen(o)
  OBVIOUS
<1>4. CASE c.method = "still" /\ c.len = T /\ \A h \in Heads : \E k : Below(c.heads[h], k, T)
  <2>1. \A h \in Heads : \E k : Below(x.heads[h], k, T)
    BY <1>1, <1>4, RereadBelow
  <2> QED BY <1>2, <1>3, <1>4, <2>1 DEF FaithfulTo
<1>5. CASE c.method = "working_memory" /\ Fused(c, T, b)
  <2>1. Fused(x, T, b)
    BY <1>1, <1>5, RereadFused
  <2> QED BY <1>2, <1>3, <1>5, <2>1 DEF FaithfulTo
<1>6. CASE c.method \notin {"still", "cartridge", "working_memory"} /\ c.len = T /\ Selects(c, o, a, T, r)
  <2>0. c.len = T /\ Selects(c, o, a, T, r)
    BY <1>6
  <2>1. Selects(x, o, a, T, TRUE)
    <3>1. CASE r
      <4>1. Selects(c, o, a, T, TRUE)
        BY <2>0, <3>1
      <4> QED BY <1>1, <2>0, <4>1, RereadSelects
    <3>2. CASE ~ r
      <4>1. Selects(c, o, a, T, FALSE)
        BY <2>0, <3>2
      <4> QED BY <1>1, <2>0, <4>1, RereadSelects
    <3> QED BY <3>1, <3>2
  <2> QED BY <1>2, <1>3, <1>6, <2>1 DEF FaithfulTo
<1> QED BY <1>3, <1>4, <1>5, <1>6 DEF FaithfulTo

-----------------------------------------------------------------------------
(* What the caller's compact cache keeps of the raw one it was made of, for *)
(* as long as a budget is remembered                                        *)

Unselected(m) == m \in {"cartridge", "working_memory"}

FaithInv ==
    /\ asked # None => /\ asked \in Budgets /\ OrigFact(orig, backend)
                       /\ ctx.kind = "compact" \/ moved.kind = "compact"
    /\ ctx.kind = "compact" => IF asked = None THEN Unselected(ctx.method)
                               ELSE \/ FaithfulTo(ctx, orig, asked, backend, FALSE)
                                    \/ moved = Arrived /\ FaithfulTo(ctx, orig, asked, backend, TRUE)
    /\ moved.kind = "compact" => IF asked = None THEN Unselected(LoadCompactCache(moved).method)
                                 ELSE FaithfulTo(LoadCompactCache(moved), orig, asked, backend, TRUE)


LEMMA BudgetIsSome ==
    ASSUME NEW b \in Budgets
    PROVE  b # None
<1>1. b \in [ratio : Nat, tokens : Nat, min : Nat \ {0}]
  BY EngineAssumption
<1>2. DOMAIN b = {"ratio", "tokens", "min"}
  BY <1>1
<1>3. DOMAIN None = {"kind"}
  BY DEF None
<1> QED BY <1>2, <1>3

LEMMA SavedMethod ==
    ASSUME NEW c, CompactFact(c), SavesCompact(c)
    PROVE  LoadCompactCache(SaveCompactCache(c, FirstHead)).method = c.method
<1>1. PICK x : x = LoadCompactCache(SaveCompactCache(c, FirstHead))
  OBVIOUS
<1>2. \E n : Reread(x, c, n)
  BY <1>1, SavedAndRead
<1> QED BY <1>1, <1>2 DEF Reread

(* A fresh compact cache *)
LEMMA CompressedFaithful ==
    ASSUME NEW x, NEW o, NEW a, NEW b, NEW T, T = LogicalLen(o), Compressed(x, o, a, T)
    PROVE  FaithfulTo(x, o, a, b, FALSE)
<1>1. CASE x.method = "still"
  <2>1. \A h \in Heads : \E k : Below(x.heads[h], k, T)
    BY <1>1 DEF Compressed
  <2> QED BY <1>1, <2>1 DEF Compressed, FaithfulTo
<1>2. CASE x.method # "still"
  BY <1>2 DEF Compressed, FaithfulTo
<1> QED BY <1>1, <1>2

(* The raw columns behind a compact cache *)
LEMMA FusionFaithful ==
    ASSUME NEW c, NEW o, NEW a, NEW b, NEW r \in BOOLEAN, FaithfulTo(c, o, a, b, r), OrigFact(o, b),
           CompactFact(c), c.method # "working_memory", NEW s \in Seq(TokenIds), s # << >>,
           NEW x, x = Combined(c, PrefillOf(b, s, c.len), c.len + Len(s))
    PROVE  FaithfulTo(x, o, a, b, FALSE)
<1>1. PICK T : T = LogicalLen(o)
  OBVIOUS
<1>2. Shaped(o, T, 0) /\ T \in Nat /\ b \in {"hf", "vllm", "fake"}
  BY <1>1, OrigShaped DEF OrigFact
<1>3. c.len = T /\ \A h \in Heads : \E k : Below(c.heads[h], k, T)
  BY <1>2, FaithfulBelow
<1>4. PICK w, m, total : w = PrefillOf(b, s, T) /\ m = Len(s) /\ total = T + m
  OBVIOUS
<1>5. m \in Nat \ {0}
  BY <1>4, LenProperties, EmptySeq
<1>6. Shaped(w, m, T) /\ (b = "hf" => \A i \in 1 .. m : w.cols[i].pos = T + i - 1)
  <2>1. Shaped(w, m, T)
    BY <1>2, <1>4, OffsetPrefill
  <2>2. b = "hf" => \A i \in 1 .. m : w.cols[i].pos = T + i - 1
    BY <1>2, <1>4, OffsetPrefill
  <2> QED BY <2>1, <2>2
<1>7. x = Combined(c, w, total) /\ total \in Nat
  BY <1>2, <1>3, <1>4, <1>5
<1>8. Fusion(x, c, w, m, total)
  BY <1>6, <1>7, CombinedIs
<1>9. ASSUME NEW h \in Heads PROVE \E n : Behindhand(x.heads[h], n, m, T, b)
  <2>1. PICK n : JoinedHead(x.heads[h], c.heads[h], SlotsOf(w, h), n, m)
    BY <1>8 DEF Fusion
  <2>2. PICK hd, old, new : hd = x.heads[h] /\ old = c.heads[h] /\ new = SlotsOf(w, h)
    OBVIOUS
  <2>3. JoinedHead(hd, old, new, n, m)
    BY <2>1, <2>2
  <2>4. PICK k : Below(old, k, T)
    BY <1>3, <2>2
  <2>5. k = n /\ n \in Nat
    BY <2>3, <2>4, RowLength DEF JoinedHead, Below
  <2>6. \A i \in 1 .. n : hd[i].pos \in 0 .. T - 1
    BY <2>3, <2>4, <2>5 DEF JoinedHead, Below
  <2>7. \A i \in 1 .. m : new[i] = Slot(T + i - 1, w.cols[i], w.cols[i], "zero")
    BY <1>6, <2>2, RawSlots
  <2>8. \A j \in 1 .. m : hd[n + j].pos = T + j - 1 /\ (b = "hf" => hd[n + j].key.pos = T + j - 1)
    <3>1. TAKE j \in 1 .. m
    <3>2. hd[n + j] = new[j]
      BY <2>3 DEF JoinedHead
    <3>3. PICK p, col, u : p = T + j - 1 /\ col = w.cols[j] /\ u = hd[n + j]
      OBVIOUS
    <3>4. u = Slot(p, col, col, "zero")
      BY <2>7, <3>2, <3>3
    <3>5. u.pos = p /\ u.key = col
      BY <3>4, SlotFields
    <3>6. b = "hf" => col.pos = p
      BY <1>6, <3>3
    <3> QED BY <3>3, <3>5, <3>6
  <2>9. IsRow(hd, n + m)
    BY <2>3 DEF JoinedHead
  <2>10. Behindhand(hd, n, m, T, b)
    BY <1>5, <2>5, <2>6, <2>8, <2>9 DEF Behindhand
  <2> QED BY <2>2, <2>10
<1>10. x.len = T + m /\ x.method = "working_memory"
  BY <1>4, <1>8 DEF Fusion
<1>11. Fused(x, T, b)
  BY <1>5, <1>9, <1>10 DEF Fused
<1> QED BY <1>1, <1>10, <1>11 DEF FaithfulTo

(* A caller without a compact cache remembers no budget *)
LEMMA NoneAsked ==
    ASSUME FaithInv, NoneCompact
    PROVE  asked = None
BY DEF FaithInv, NoneCompact

LEMMA RawAlone ==
    ASSUME CoreInv, ctx.kind = "raw"
    PROVE  NoneCompact
BY KindsDiffer DEF CoreInv, Carried, NoneCompact

LEMMA FaithStep ==
    ASSUME CoreInv, RowsInv, FaithInv, [Next]_vars
    PROVE  FaithInv'
<1>1. CASE UNCHANGED <<backend, ctx, moved, orig, asked>>
  BY <1>1 DEF FaithInv
<1>0. CASE UNCHANGED vars
  <2>1. UNCHANGED <<backend, ctx, moved, orig, asked>>
    BY <1>0 DEF vars
  <2> QED BY <1>1, <2>1
<1>2. CASE RawStep
  <2>1. asked' = None /\ ctx'.kind # "compact" /\ moved'.kind # "compact"
    BY <1>2, NoneAsked, KindsDiffer DEF RawStep, NoneCompact
  <2> QED BY <2>1 DEF FaithInv
<1>3. CASE RawLeaves
  <2>1. asked' = None /\ ctx'.kind # "compact" /\ moved'.kind # "compact"
    BY <1>3, RawAlone, NoneAsked, KindsDiffer DEF RawLeaves
  <2> QED BY <2>1 DEF FaithInv
<1>4. CASE CompactLeaves
  <2>1. /\ CompactFact(ctx) /\ SavesCompact(ctx) /\ ctx.kind = "compact"
        /\ moved' = SaveCompactCache(ctx, FirstHead) /\ moved'.kind = "compact"
        /\ ctx'.kind # "compact" /\ UNCHANGED <<backend, orig, asked>>
    BY <1>4, KindsDiffer DEF CompactLeaves, RowsInv
  <2>2. PICK x : x = LoadCompactCache(moved')
    OBVIOUS
  <2>3. asked = None => Unselected(x.method)
    BY <2>1, <2>2, SavedMethod DEF FaithInv
  <2>4. asked # None => FaithfulTo(x, orig, asked, backend, TRUE)
    <3>1. CASE FaithfulTo(ctx, orig, asked, backend, TRUE)
      BY <2>1, <2>2, <3>1, RereadFaithful
    <3>2. CASE FaithfulTo(ctx, orig, asked, backend, FALSE)
      BY <2>1, <2>2, <3>2, RereadFaithful
    <3> QED BY <2>1, <3>1, <3>2 DEF FaithInv
  <2> QED BY <2>1, <2>2, <2>3, <2>4 DEF FaithInv
<1>5. CASE Converts
  <2>1. asked' = None /\ ctx'.kind # "compact" /\ moved'.kind # "compact"
    <3>1. ctx.kind = "compact" /\ asked' = None /\ ctx' = None /\ moved' = moved
      BY <1>5 DEF Converts, Compacted
    <3>2. moved.kind # "compact"
      BY <3>1, KindsDiffer DEF CoreInv, Carried
    <3> QED BY <3>1, <3>2, KindsDiffer
  <2> QED BY <2>1 DEF FaithInv
<1>6. ASSUME NEW b \in Budgets, Compact(b) PROVE FaithInv'
  <2>1. /\ Raw /\ genuine = Exact /\ ctx' \in Compacts(b)
        /\ orig' = ctx /\ asked' = b /\ moved' = moved /\ backend' = backend
    BY <1>6 DEF Compact
  <2>2. PICK T : T = LogicalLen(ctx)
    OBVIOUS
  <2>3. T \in Nat \ {0} /\ Shaped(ctx, T, 0) /\ OrigFact(ctx, backend) /\ moved.kind # "compact"
    BY <2>1, <2>2, RawContext
  <2>4. Compressed(ctx', ctx, b, T)
    BY <2>1, <2>3, CompactsAre
  <2>5. FaithfulTo(ctx', ctx, b, backend, FALSE)
    BY <2>2, <2>4, CompressedFaithful
  <2>6. ctx'.kind = "compact"
    BY <2>4, KindsDiffer DEF Compressed, CompactFact
  <2>7. b # None
    BY BudgetIsSome
  <2> QED BY <2>1, <2>3, <2>5, <2>6, <2>7 DEF FaithInv
<1>7. ASSUME NEW s \in Seq(TokenIds), Fuse(s) PROVE FaithInv'
  <2>1. /\ ctx.kind = "compact" /\ CompactFact(ctx) /\ ctx.method # "working_memory" /\ s # << >>
        /\ ctx' = Combined(ctx, PrefillOf(backend, s, ctx.len), ctx.len + Len(s))
        /\ UNCHANGED <<backend, orig, asked, moved>>
    BY <1>7 DEF Fuse, Compacted, RowsInv
  <2>2. ctx'.kind = "compact" /\ ctx'.method = "working_memory"
    BY <2>1, CompactFields DEF Combined
  <2>3. moved.kind # "compact"
    BY <2>1, KindsDiffer DEF CoreInv, Carried
  <2>4. asked # None => FaithfulTo(ctx', orig, asked, backend, FALSE)
    <3>1. SUFFICES ASSUME asked # None
                   PROVE  FaithfulTo(ctx', orig, asked, backend, FALSE)
      OBVIOUS
    <3>2. OrigFact(orig, backend)
      BY <3>1 DEF FaithInv
    <3>3. CASE FaithfulTo(ctx, orig, asked, backend, TRUE)
      BY <2>1, <3>2, <3>3, FusionFaithful
    <3>4. CASE FaithfulTo(ctx, orig, asked, backend, FALSE)
      BY <2>1, <3>2, <3>4, FusionFaithful
    <3> QED BY <2>1, <3>1, <3>3, <3>4 DEF FaithInv
  <2>5. asked # None => asked \in Budgets /\ OrigFact(orig, backend)
    BY DEF FaithInv
  <2> QED BY <2>1, <2>2, <2>3, <2>4, <2>5 DEF FaithInv, Unselected
<1>8. ASSUME NEW t \in {2, 3}, NEW steps, NEW items, Compiles(t, steps, items) PROVE FaithInv'
  <2>1. ctx.kind = "raw" /\ ctx'.kind # "compact" /\ UNCHANGED <<moved, asked>>
    BY <1>8, KindsDiffer DEF Compiles, Raw
  <2>2. asked' = None /\ moved'.kind # "compact"
    BY <2>1, RawAlone, NoneAsked DEF NoneCompact
  <2> QED BY <2>1, <2>2 DEF FaithInv
<1>9. CASE UseCartridge
  <2>1. cart # None /\ ctx' = ToCompactCache(cart) /\ UNCHANGED <<moved, asked>>
    BY <1>9 DEF UseCartridge
  <2>2. ctx.kind # "compact" /\ moved.kind # "compact"
    BY <2>1, KindsDiffer DEF CoreInv, Carried
  <2>3. asked' = None /\ moved'.kind # "compact"
    BY <2>1, <2>2, NoneAsked DEF NoneCompact
  <2>4. ctx'.method = "cartridge"
    BY <2>1, UsedIs DEF RowsInv
  <2> QED BY <2>3, <2>4 DEF FaithInv, Unselected
<1>10. CASE ResumeCompact
  <2>1. /\ moved.kind = "compact" /\ ctx' = LoadCompactCache(moved) /\ moved' = Arrived
        /\ UNCHANGED <<backend, orig, asked>>
    BY <1>10 DEF ResumeCompact
  <2>2. ctx'.kind = "compact" /\ moved'.kind # "compact"
    BY <2>1, KindsDiffer DEF LoadCompactCache
  <2> QED BY <2>1, <2>2 DEF FaithInv
<1>11. CASE Drop
  <2>1. asked' = None /\ ctx'.kind # "compact" /\ moved'.kind # "compact"
    BY <1>11, KindsDiffer DEF Drop
  <2> QED BY <2>1 DEF FaithInv
<1>12. ASSUME NEW path, SaveCartridge(path) \/ LoadCartridge(path) PROVE FaithInv'
  BY <1>1, <1>12 DEF SaveCartridge, LoadCartridge
<1>13. CASE NothingChanges
  BY <1>1, <1>13 DEF NothingChanges
<1> QED BY <1>0, <1>2, <1>3, <1>4, <1>5, <1>6, <1>7, <1>8, <1>9, <1>10, <1>11, <1>12, <1>13, Steps

LEMMA InitFaith ==
    ASSUME Init
    PROVE  FaithInv
<1>1. asked = None /\ ctx.kind # "compact" /\ moved.kind # "compact"
  BY KindsDiffer DEF Init
<1> QED BY <1>1 DEF FaithInv

-----------------------------------------------------------------------------
(* What a faithful selection shows of itself                               *)

(* the tokens of o that head h of c holds, at their places unless the       *)
(* places were lost (re)                                                    *)
HeldOf(c, o, T, h, re) ==
    { i \in 1 .. T : \E k \in DOMAIN c.heads[h] :
        c.heads[h][k].key = o.cols[i] /\ (c.heads[h][k].pos = o.positions[i] \/ re) }

(* the places decide which ones, or else the columns, which the fake        *)
(* backend does not tell apart                                              *)
HoldsThese(K, S, re, b) == S \subseteq K /\ (~ (re /\ b = "fake") => K = S)

LEMMA HeldIs ==
    ASSUME NEW o, NEW b, OrigFact(o, b), NEW T, T = LogicalLen(o), NEW c, NEW h,
           NEW hd, hd = c.heads[h], NEW S, NEW P, NEW n, KeptAs(hd, o, n, S, P), Kept(hd, o, T, S, P),
           NEW re \in BOOLEAN, ~ re => P = S, NEW K, K = HeldOf(c, o, T, h, re)
    PROVE  HoldsThese(K, S, re, b)
<1>0. S \subseteq 1 .. T
  BY DEF Kept
<1>1. /\ T \in Nat /\ \A i \in 1 .. T : o.positions[i] = 0 + i - 1
      /\ b # "fake" => \A i \in 1 .. T : o.cols[i].pos = i - 1
  BY OrigShaped DEF Shaped
<1>2. DOMAIN hd = 1 .. n
  BY LongIsSeq DEF KeptAs, IsRow
<1>3. \A i \in S : \E k \in 1 .. n : i = Order(S)[k]
  BY DEF KeptAs, Sorted
<1>4. \A k \in 1 .. n : /\ hd[k].key = o.cols[Order(S)[k]] /\ hd[k].pos = Order(P)[k] - 1
                        /\ Order(S)[k] \in S /\ Order(P)[k] \in P
  BY DEF KeptAs
<1>5. ASSUME NEW i \in S PROVE i \in K
  <2>1. PICK k \in 1 .. n : i = Order(S)[k]
    BY <1>3
  <2>2. hd[k].key = o.cols[i]
    BY <1>4, <2>1
  <2>3. hd[k].pos = o.positions[i] \/ re
    <3>1. CASE ~ re
      <4>1. hd[k].pos = i - 1
        BY <1>4, <2>1, <3>1
      <4>2. o.positions[i] = i - 1
        BY <1>0, <1>1
      <4> QED BY <4>1, <4>2
    <3> QED BY <3>1
  <2>4. i \in 1 .. T
    BY <1>0
  <2>5. \E q \in DOMAIN c.heads[h] :
          c.heads[h][q].key = o.cols[i] /\ (c.heads[h][q].pos = o.positions[i] \/ re)
    BY <1>2, <2>2, <2>3
  <2> QED BY <2>4, <2>5 DEF HeldOf
<1>6. ASSUME ~ (re /\ b = "fake"), NEW i \in K PROVE i \in S
  <2>1. PICK k \in 1 .. n : hd[k].key = o.cols[i] /\ (hd[k].pos = o.positions[i] \/ re)
    BY <1>2, <1>6 DEF HeldOf
  <2>2. i \in 1 .. T
    BY DEF HeldOf
  <2>3. PICK j : j = Order(S)[k]
    OBVIOUS
  <2>4. j \in S /\ j \in 1 .. T /\ hd[k].key = o.cols[j]
    BY <1>0, <1>4, <2>3
  <2>5. i = j
    <3>1. CASE re
      <4>1. b # "fake"
        BY <1>6, <3>1
      <4>2. o.cols[i] = o.cols[j]
        BY <2>1, <2>4
      <4> QED BY <1>1, <2>2, <2>4, <4>1, <4>2
    <3>2. CASE ~ re
      <4>1. hd[k].pos = o.positions[i] /\ P = S
        BY <2>1, <3>2
      <4>2. hd[k].pos = j - 1
        BY <1>4, <2>3, <4>1
      <4>3. o.positions[i] = i - 1
        BY <1>1, <2>2
      <4>4. i - 1 = j - 1
        BY <4>1, <4>2, <4>3
      <4>5. i \in Int /\ j \in Int
        BY <1>1, <2>2, <2>4
      <4> QED BY <4>4, <4>5
    <3> QED BY <3>1, <3>2
  <2> QED BY <2>4, <2>5
<1> QED BY <1>5, <1>6 DEF HoldsThese

(* one head *)
HeadFaithful(c, o, a, b, T, t, h, re) ==
    /\ (re /\ b = "fake") \/ Cardinality(HeldOf(c, o, T, h, re)) = Len(c.heads[h])
    /\ Len(c.heads[h]) >= Min({a.min, T})
    /\ StrictlyIncreasing([k \in DOMAIN c.heads[h] |-> c.heads[h][k].pos])
    /\ Len(c.heads[h]) = T => c.heads[h] = SlotsOf(o, h)
    /\ c.method \in {"heavy_hitter", "snapkv"} =>
         \E f \in RecentFracs : T - Share(f, t) + 1 .. T \subseteq HeldOf(c, o, T, h, re)

SelectionOf(c, o, a, b, came) ==
    LET T == LogicalLen(o)
        t == TargetOf(c.method, a, T)
    IN  /\ c.len = T
        /\ \A l \in Layers : LayerBudget(c, l) = t * Cardinality(KVHeads)
        /\ \A h \in Heads : HeadFaithful(c, o, a, b, T, t, h, came /\ h # FirstHead)

LEMMA SelectedHead ==
    ASSUME NEW o, NEW b, OrigFact(o, b), NEW T, T = LogicalLen(o), NEW c, NEW a, NEW t,
           NEW r \in BOOLEAN, NEW sel, Chosen(c, o, T, sel, r), WithinBudget(c, a, T, t, sel),
           KeepsRecent(c.method, T, t, sel),
           r => \A h \in Heads : Cardinality(sel[h]) = Cardinality(sel[FirstHead]),
           NEW h \in Heads, NEW re \in BOOLEAN, r /\ h # FirstHead => re
    PROVE  HeadFaithful(c, o, a, b, T, t, h, re)
<1>1. Shaped(o, T, 0) /\ T \in Nat
  BY OrigShaped
<1>2. PICK hd, S, P, n, K : /\ hd = c.heads[h] /\ S = sel[h] /\ P = PlacesOf(sel, h, r)
                            /\ n = Cardinality(S) /\ K = HeldOf(c, o, T, h, re)
  OBVIOUS
<1>3. Kept(c.heads[h], o, T, sel[h], P) /\ P \subseteq 1 .. T /\ Cardinality(P) = Cardinality(sel[h])
  BY <1>2, ChosenPlaces
<1>4. Kept(hd, o, T, S, P) /\ P \subseteq 1 .. T /\ n = Cardinality(P)
  BY <1>2, <1>3
<1>5. KeptAs(hd, o, n, S, P) /\ n \in 0 .. T
  BY <1>1, <1>2, <1>4, KeptFacts
<1>6. S \subseteq 1 .. T
  BY <1>4 DEF Kept
<1>7. ~ re => P = S
  BY <1>2 DEF PlacesOf
<1>8. S \subseteq K /\ (~ (re /\ b = "fake") => K = S)
  <2>1. hd = c.heads[h] /\ KeptAs(hd, o, n, S, P)
    BY <1>2, <1>5
  <2>2. CASE re
    <3>1. K = HeldOf(c, o, T, h, TRUE)
      BY <1>2, <2>2
    <3>2. HoldsThese(K, S, TRUE, b)
      BY <1>4, <2>1, <3>1, HeldIs
    <3> QED BY <2>2, <3>2 DEF HoldsThese
  <2>3. CASE ~ re
    <3>1. K = HeldOf(c, o, T, h, FALSE) /\ P = S
      BY <1>2, <1>7, <2>3
    <3>2. HoldsThese(K, S, FALSE, b)
      BY <1>4, <2>1, <3>1, HeldIs
    <3> QED BY <2>3, <3>2 DEF HoldsThese
  <2> QED BY <2>2, <2>3
<1>9. Len(hd) = n /\ DOMAIN hd = 1 .. n
  BY <1>5, LongIsSeq DEF KeptAs, IsRow
<1>10. (re /\ b = "fake") \/ Cardinality(K) = Len(hd)
  BY <1>2, <1>8, <1>9
<1>11. Len(hd) >= Min({a.min, T})
  <2>1. Min({a.min, T}) <= Cardinality(sel[h])
    BY DEF WithinBudget
  <2>2. PICK m : m = Min({a.min, T})
    OBVIOUS
  <2>3. m <= n
    BY <1>2, <2>1, <2>2
  <2>4. Len(hd) >= m
    BY <1>9, <2>3
  <2> QED BY <2>2, <2>4
<1>12. StrictlyIncreasing([k \in DOMAIN hd |-> hd[k].pos])
  <2>1. \A k \in 1 .. n : hd[k].pos = Order(P)[k] - 1 /\ Order(P)[k] \in 1 .. T
    BY <1>4, <1>5 DEF KeptAs
  <2>2. \A k, l \in 1 .. n : k < l => Order(P)[k] < Order(P)[l]
    BY <1>5 DEF KeptAs, Sorted
  <2>3. \A k, l \in 1 .. n : k < l => hd[k].pos < hd[l].pos
    BY <1>1, <2>1, <2>2
  <2> QED BY <1>9, <2>3 DEF StrictlyIncreasing
<1>13. Len(hd) = T => hd = SlotsOf(o, h)
  <2>1. n = T => hd = SlotsOf(o, FirstHead)
    BY <1>2, <1>4 DEF Kept
  <2>2. SlotsOf(o, h) = SlotsOf(o, FirstHead)
    BY <1>1 DEF Shaped, SlotsOf
  <2> QED BY <1>9, <2>1, <2>2
<1>14. c.method \in {"heavy_hitter", "snapkv"} => \E f \in RecentFracs : T - Share(f, t) + 1 .. T \subseteq K
  <2>1. SUFFICES ASSUME c.method \in {"heavy_hitter", "snapkv"}
                 PROVE  \E f \in RecentFracs : T - Share(f, t) + 1 .. T \subseteq K
    OBVIOUS
  <2>2. PICK f \in RecentFracs : \A g \in Heads : T - Share(f, t) + 1 .. T \subseteq sel[g]
    BY <2>1 DEF KeepsRecent
  <2>3. PICK R : R = T - Share(f, t) + 1 .. T
    OBVIOUS
  <2>4. R \subseteq K
    BY <1>2, <1>8, <2>2, <2>3
  <2> QED BY <2>3, <2>4
<1> QED BY <1>2, <1>10, <1>11, <1>12, <1>13, <1>14 DEF HeadFaithful

LEMMA SelectsFaithfully ==
    ASSUME NEW o, NEW b, OrigFact(o, b), NEW c, NEW a, NEW came \in BOOLEAN, NEW r \in BOOLEAN, r => came,
           FaithfulTo(c, o, a, b, r), c.method \notin {"still", "cartridge", "working_memory"}
    PROVE  SelectionOf(c, o, a, b, came)
<1>1. PICK T, t : T = LogicalLen(o) /\ t = TargetOf(c.method, a, T)
  OBVIOUS
<1>2. c.len = T /\ Selects(c, o, a, T, r)
  BY <1>1 DEF FaithfulTo
<1>3. PICK sel : /\ Chosen(c, o, T, sel, r) /\ WithinBudget(c, a, T, t, sel)
                 /\ KeepsRecent(c.method, T, t, sel)
                 /\ r => \A h \in Heads : Cardinality(sel[h]) = Cardinality(sel[FirstHead])
  BY <1>1, <1>2 DEF Selects
<1>4. ASSUME NEW h \in Heads PROVE HeadFaithful(c, o, a, b, T, t, h, came /\ h # FirstHead)
  <2>1. PICK re \in BOOLEAN : re = (came /\ h # FirstHead)
    OBVIOUS
  <2>2. r /\ h # FirstHead => re
    BY <2>1
  <2>3. HeadFaithful(c, o, a, b, T, t, h, re)
    BY <1>1, <1>3, <2>2, SelectedHead
  <2> QED BY <2>1, <2>3
<1>5. \A l \in Layers : LayerBudget(c, l) = t * Cardinality(KVHeads)
  BY <1>3 DEF WithinBudget
<1> QED BY <1>1, <1>2, <1>4, <1>5 DEF SelectionOf

(* What working memory shows of itself *)
BehindOf(c, T, h) == { k \in DOMAIN c.heads[h] : c.heads[h][k].pos >= T }

FusionOf(c, o, b) ==
    \A h \in Heads :
        /\ Last(c.heads[h]).pos = c.len - 1
        /\ Cardinality(BehindOf(c, LogicalLen(o), h)) = c.len - LogicalLen(o)
        /\ \A k \in BehindOf(c, LogicalLen(o), h) : b = "hf" => c.heads[h][k].key.pos = c.heads[h][k].pos

LEMMA BehindIs ==
    ASSUME NEW hd, NEW n, NEW m \in Nat \ {0}, NEW T \in Nat, NEW b, Behindhand(hd, n, m, T, b),
           NEW R, R = { k \in DOMAIN hd : hd[k].pos >= T }
    PROVE  /\ Last(hd).pos = T + m - 1 /\ Cardinality(R) = m
           /\ \A k \in R : b = "hf" => hd[k].key.pos = hd[k].pos
<1>1. PICK N : N = n + m
  OBVIOUS
<1>2. n \in Nat /\ N \in Nat /\ IsRow(hd, N)
  BY <1>1 DEF Behindhand
<1>3. Len(hd) = N /\ DOMAIN hd = 1 .. N
  BY <1>2, LongIsSeq DEF IsRow
<1>4. /\ \A i \in 1 .. n : hd[i].pos \in 0 .. T - 1
      /\ \A j \in 1 .. m : hd[n + j].pos = T + j - 1 /\ (b = "hf" => hd[n + j].key.pos = T + j - 1)
  BY DEF Behindhand
<1>5. \A k \in 1 .. N : \/ k <= n /\ hd[k].pos \in 0 .. T - 1
                        \/ /\ k > n /\ hd[k].pos = T + (k - n) - 1
                           /\ b = "hf" => hd[k].key.pos = T + (k - n) - 1
  <2>1. TAKE k \in 1 .. N
  <2>2. CASE k <= n
    BY <1>2, <1>4, <2>2
  <2>3. CASE k > n
    <3>1. PICK j : j = k - n
      OBVIOUS
    <3>2. j \in 1 .. m /\ n + j = k
      BY <1>1, <1>2, <2>3, <3>1
    <3>3. hd[n + j].pos = T + j - 1 /\ (b = "hf" => hd[n + j].key.pos = T + j - 1)
      BY <1>4, <3>2
    <3>4. hd[k].pos = T + j - 1 /\ (b = "hf" => hd[k].key.pos = T + j - 1)
      BY <3>2, <3>3
    <3> QED BY <2>3, <3>1, <3>4
  <2> QED BY <1>2, <2>2, <2>3
<1>6. Last(hd).pos = T + m - 1
  <2>1. hd[N].pos = T + m - 1
    <3>1. m \in 1 .. m
      OBVIOUS
    <3>2. hd[n + m].pos = T + m - 1
      BY <1>4, <3>1
    <3> QED BY <1>1, <3>2
  <2>2. Last(hd) = hd[N]
    BY <1>3 DEF Last
  <2> QED BY <2>1, <2>2
<1>7. Latest(R, m, N)
  <2>1. \A k \in 1 .. N : hd[k].pos >= T <=> k \in N - m + 1 .. N
    <3>1. TAKE k \in 1 .. N
    <3>2. N - m = n
      BY <1>1, <1>2
    <3>3. k \in N - m + 1 .. N <=> k > n
      BY <1>2, <3>2
    <3>4. PICK p : p = hd[k].pos
      OBVIOUS
    <3>5. (k <= n /\ p \in 0 .. T - 1) \/ (k > n /\ p = T + (k - n) - 1)
      BY <1>5, <3>4
    <3>6. p >= T <=> k > n
      BY <1>2, <3>5
    <3> QED BY <3>3, <3>4, <3>6
  <2>2. \A k \in N - m + 1 .. N : k \in 1 .. N
    BY <1>1, <1>2
  <2>3. R = N - m + 1 .. N
    BY <1>3, <2>1, <2>2
  <2> QED BY <2>3 DEF Latest
<1>8. Cardinality(R) = m
  <2>1. m \in 0 .. N
    BY <1>1, <1>2
  <2> QED BY <1>2, <1>7, <2>1, RecentIs
<1>9. ASSUME NEW k \in R, b = "hf" PROVE hd[k].key.pos = hd[k].pos
  <2>1. k \in 1 .. N /\ hd[k].pos >= T
    BY <1>3
  <2>2. ~ (k <= n /\ hd[k].pos \in 0 .. T - 1)
    BY <2>1
  <2> QED BY <1>5, <1>9, <2>1, <2>2
<1> QED BY <1>6, <1>8, <1>9

LEMMA FusedShows ==
    ASSUME NEW o, NEW b, OrigFact(o, b), NEW c, Fused(c, LogicalLen(o), b)
    PROVE  FusionOf(c, o, b)
<1>1. PICK T : T = LogicalLen(o)
  OBVIOUS
<1>2. T \in Nat
  BY <1>1, OrigShaped
<1>3. PICK m \in Nat \ {0} : c.len = T + m /\ \A h \in Heads : \E n : Behindhand(c.heads[h], n, m, T, b)
  BY <1>1 DEF Fused
<1>4. c.len - 1 = T + m - 1 /\ c.len - T = m
  BY <1>2, <1>3
<1>5. ASSUME NEW h \in Heads
      PROVE  /\ Last(c.heads[h]).pos = c.len - 1 /\ Cardinality(BehindOf(c, T, h)) = c.len - T
             /\ \A k \in BehindOf(c, T, h) : b = "hf" => c.heads[h][k].key.pos = c.heads[h][k].pos
  <2>1. PICK hd, R : hd = c.heads[h] /\ R = BehindOf(c, T, h)
    OBVIOUS
  <2>2. PICK n : Behindhand(hd, n, m, T, b)
    BY <1>3, <2>1
  <2>3. R = { k \in DOMAIN hd : hd[k].pos >= T }
    BY <2>1 DEF BehindOf
  <2>4. /\ Last(hd).pos = T + m - 1 /\ Cardinality(R) = m
        /\ \A k \in R : b = "hf" => hd[k].key.pos = hd[k].pos
    BY <1>2, <2>2, <2>3, BehindIs
  <2> QED BY <1>4, <2>1, <2>4
<1> QED BY <1>1, <1>5 DEF FusionOf

-----------------------------------------------------------------------------
(* The two halves of CompactIsFaithful, of the state they are about *)
LEMMA SelectionMeans ==
    SelectionIsFaithful <=>
        (ctx.kind = "compact" /\ ctx.method \notin {"still", "cartridge", "working_memory"} =>
            SelectionOf(ctx, orig, asked, backend, moved = Arrived))
BY DEF SelectionIsFaithful, SelectionOf, HeadFaithful, HeldOf, TargetOf, Resumed

LEMMA FusionMeans ==
    FusedInOrder <=>
        (ctx.kind = "compact" /\ ctx.method = "working_memory" /\ asked # None => FusionOf(ctx, orig, backend))
BY DEF FusedInOrder, FusionOf, BehindOf

LEMMA FaithMeans ==
    ASSUME FaithInv
    PROVE  CompactIsFaithful
<1>1. ASSUME ctx.kind = "compact", ctx.method \notin {"still", "cartridge", "working_memory"}
      PROVE  SelectionOf(ctx, orig, asked, backend, moved = Arrived)
  <2>1. asked # None
    BY <1>1 DEF FaithInv, Unselected
  <2>2. OrigFact(orig, backend)
    BY <2>1 DEF FaithInv
  <2>3. \/ FaithfulTo(ctx, orig, asked, backend, FALSE)
        \/ moved = Arrived /\ FaithfulTo(ctx, orig, asked, backend, TRUE)
    BY <1>1, <2>1 DEF FaithInv
  <2>4. CASE moved = Arrived
    <3>1. SelectionOf(ctx, orig, asked, backend, TRUE)
      BY <1>1, <2>2, <2>3, SelectsFaithfully
    <3> QED BY <2>4, <3>1
  <2>5. CASE moved # Arrived
    <3>1. SelectionOf(ctx, orig, asked, backend, FALSE)
      BY <1>1, <2>2, <2>3, <2>5, SelectsFaithfully
    <3> QED BY <2>5, <3>1
  <2> QED BY <2>4, <2>5
<1>2. ASSUME ctx.kind = "compact", ctx.method = "working_memory", asked # None
      PROVE  FusionOf(ctx, orig, backend)
  <2>1. OrigFact(orig, backend)
    BY <1>2 DEF FaithInv
  <2>2. Fused(ctx, LogicalLen(orig), backend)
    BY <1>2 DEF FaithInv, FaithfulTo
  <2> QED BY <2>1, <2>2, FusedShows
<1> QED BY <1>1, <1>2, SelectionMeans, FusionMeans DEF CompactIsFaithful

(* What a compacted cache keeps is what the backend computed, where it was *)
(* computed, within the budget, through a file and back; and the fusion    *)
(* with raw KV keeps the order                                             *)
THEOREM CompactsKeepFaith == Spec => []CompactIsFaithful
<1>1. Init => FaithInv
  BY InitFaith
<1>2. CoreInv /\ RowsInv /\ FaithInv /\ [Next]_vars => FaithInv'
  BY FaithStep
<1>3. FaithInv => CompactIsFaithful
  BY FaithMeans
<1> QED BY <1>1, <1>2, <1>3, Core, SlotRows, PTL DEF Spec

=============================================================================
