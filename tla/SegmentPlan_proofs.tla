------------------------- MODULE SegmentPlan_proofs -------------------------
(***************************************************************************)
(* Lemmas about SegmentPlan: what flattening, offsets and plans are, for   *)
(* every context.  The sessions and the backends that follow a plan build  *)
(* on them.                                                                *)
(***************************************************************************)
EXTENDS SegmentPlan, SequenceTheorems, FiniteSetTheorems, WellFoundedInduction, TLAPS

-----------------------------------------------------------------------------
(* Induction.  A set of naturals has a least element; what fails, if it    *)
(* fails at all, fails for a least number first.                           *)

LEMMA LeastOf ==
    ASSUME NEW T, T \subseteq Nat, T # {}
    PROVE  \E x \in T : \A y \in T : x <= y
<1>1. IsWellFoundedOn(OpToRel(<, Nat), Nat)
  BY NatLessThanWellFounded
<1>2. PICK x \in T : \A y \in T : <<y, x>> \notin OpToRel(<, Nat)
  <2> DEFINE R == OpToRel(<, Nat)
  <2>1. IsWellFoundedOn(R, Nat)
    BY <1>1
  <2> HIDE DEF R
  <2>2. \E x \in T : \A y \in T : <<y, x>> \notin R
    BY <2>1, WFMin
  <2> QED BY <2>2 DEF R
<1>3. ASSUME NEW y \in T PROVE x <= y
  <2>1. x \in Nat /\ y \in Nat
    OBVIOUS
  <2>2. ~(y < x)
    BY <1>2, <2>1 DEF OpToRel
  <2> QED BY <2>1, <2>2
<1> QED BY <1>3

(* A set that has 0 and with each number below n the next one, has all *)
LEMMA UpTo ==
    ASSUME NEW n \in Nat, NEW T, 0 \in T,
           \A i \in 1 .. n : i - 1 \in T => i \in T
    PROVE  \A i \in 0 .. n : i \in T
<1> DEFINE D == {i \in 0 .. n : i \notin T}
<1> SUFFICES ASSUME D # {} PROVE FALSE
  OBVIOUS
<1>1. PICK k \in D : \A m \in D : k <= m
  <2>1. D \subseteq Nat
    OBVIOUS
  <2> HIDE DEF D
  <2> QED BY <2>1, LeastOf
<1>2. k \in 1 .. n
  BY <1>1
<1>3. k - 1 \notin D
  <2>1. ~(k <= k - 1)
    BY <1>2
  <2> HIDE DEF D
  <2> QED BY <1>1, <2>1
<1>4. k - 1 \in 0 .. n
  BY <1>2
<1> QED BY <1>1, <1>2, <1>3, <1>4

(* G gives, for each step, the next value; f runs through the values *)
IsStep(G, V, n) == \A i \in 1 .. n, x \in V : G[<<i, x>>] \in V

Runs(f, G, V, v, n) ==
    f \in [0 .. n -> V] /\ f[0] = v /\ \A i \in 1 .. n : f[i] = G[<<i, f[i - 1]>>]

(* A step function can be iterated *)
LEMMA Iterates ==
    ASSUME NEW V, NEW v \in V, NEW n \in Nat, NEW G, IsStep(G, V, n)
    PROVE  \E f : Runs(f, G, V, v, n)
<1> DEFINE Reaches(f, m) == f[0] = v /\ \A i \in 1 .. m : f[i] = G[<<i, f[i - 1]>>]
           T == {m \in 0 .. n : \E f \in [0 .. m -> V] : Reaches(f, m)}
<1>1. 0 \in T
  <2>1. PICK f : f = [i \in 0 .. 0 |-> v]
    OBVIOUS
  <2>2. f \in [0 .. 0 -> V] /\ f[0] = v
    BY <2>1
  <2>3. \E g \in [0 .. 0 -> V] : Reaches(g, 0)
    BY <2>2
  <2> QED BY <2>3
<1>2. ASSUME NEW m \in 1 .. n, m - 1 \in T PROVE m \in T
  <2>1. PICK f \in [0 .. m - 1 -> V] : Reaches(f, m - 1)
    BY <1>2
  <2>2. PICK g : g = [i \in 0 .. m |-> IF i = m THEN G[<<m, f[m - 1]>>] ELSE f[i]]
    OBVIOUS
  <2>3. f[m - 1] \in V
    OBVIOUS
  <2>4. G[<<m, f[m - 1]>>] \in V
    BY <2>3 DEF IsStep
  <2>5. \A i \in 0 .. m - 1 : g[i] = f[i] /\ f[i] \in V
    BY <2>2
  <2>6. g[m] = G[<<m, f[m - 1]>>]
    BY <2>2
  <2>7. g \in [0 .. m -> V]
    BY <2>2, <2>4, <2>5, <2>6
  <2>8. ASSUME NEW i \in 1 .. m PROVE g[i] = G[<<i, g[i - 1]>>]
    <3>1. CASE i = m
      <4>1. g[m - 1] = f[m - 1]
        BY <2>5
      <4> QED BY <3>1, <4>1, <2>6
    <3>2. CASE i # m
      BY <3>2, <2>1, <2>5
    <3> QED BY <3>1, <3>2
  <2>9. Reaches(g, m)
    BY <2>1, <2>5, <2>8
  <2>10. \E h \in [0 .. m -> V] : Reaches(h, m)
    BY <2>7, <2>9
  <2> QED BY <2>10
<1>3. n \in T
  <2>1. \A m \in 1 .. n : m - 1 \in T => m \in T
    BY <1>2
  <2> HIDE DEF T
  <2> QED BY <1>1, <2>1, UpTo
<1>4. PICK f \in [0 .. n -> V] : Reaches(f, n)
  BY <1>3
<1>5. Runs(f, G, V, v, n)
  BY <1>4 DEF Runs
<1> QED BY <1>5
(* A function on 1 .. n is a sequence *)
LEMMA FunctionIsSeq ==
    ASSUME NEW S, NEW n \in Nat, NEW q \in [1 .. n -> S]
    PROVE  q \in Seq(S) /\ Len(q) = n
<1>1. q \in Seq(S)
  BY SeqDef
<1>2. Len(q) \in Nat /\ DOMAIN q = 1 .. Len(q)
  BY <1>1, LenProperties
<1>3. 1 .. Len(q) = 1 .. n
  BY <1>2
<1> QED BY <1>1, <1>2, <1>3

-----------------------------------------------------------------------------
(* Flattening.  FlattenSeq is the last of its partial concatenations. *)

LEMMA FlattenIs ==
    ASSUME NEW S, NEW seqs \in Seq(Seq(S)),
           NEW f \in [0 .. Len(seqs) -> Seq(S)],
           f[0] = << >>, \A i \in 1 .. Len(seqs) : f[i] = f[i - 1] \o seqs[i]
    PROVE  FlattenSeq(seqs) = f[Len(seqs)]
<1>1. CASE Len(seqs) = 0
  <2>1. seqs = << >>
    BY <1>1, EmptySeq
  <2> QED BY <1>1, <2>1 DEF FlattenSeq
<1>2. CASE Len(seqs) # 0
  <2> DEFINE n == Len(seqs)
             body(fl) == [i \in 1 .. n |-> IF i = 1 THEN seqs[i] ELSE fl[i - 1] \o seqs[i]]
  <2>1. n \in Nat /\ n >= 1
    BY <1>2, LenProperties
  <2>2. PICK fl : fl = CHOOSE g : g = body(g)
    OBVIOUS
  <2>3. \E g : g = body(g)
    <3>1. PICK g : g = [i \in 1 .. n |-> f[i]]
      OBVIOUS
    <3>2. ASSUME NEW i \in 1 .. n
          PROVE  g[i] = IF i = 1 THEN seqs[i] ELSE g[i - 1] \o seqs[i]
      <4>1. CASE i = 1
        <5>1. seqs[1] \in Seq(S)
          BY <2>1, ElementOfSeq
        <5>2. f[i] = f[i - 1] \o seqs[i]
          OBVIOUS
        <5>3. i - 1 = 0
          BY <4>1
        <5>4. f[i] = << >> \o seqs[i]
          BY <5>2, <5>3
        <5> QED BY <4>1, <5>1, <5>4, <3>1, ConcatEmptySeq
      <4>2. CASE i # 1
        <5>1. i - 1 \in 1 .. n
          BY <4>2
        <5>2. g[i - 1] = f[i - 1] /\ g[i] = f[i]
          BY <5>1, <3>1
        <5> QED BY <4>2, <5>2
      <4> QED BY <4>1, <4>2
    <3>3. g = body(g)
      BY <3>1, <3>2
    <3> QED BY <3>3
  <2>4. fl = body(fl)
    BY <2>2, <2>3
  <2>5. FlattenSeq(seqs) = fl[n]
    BY <1>2, <2>2 DEF FlattenSeq
  <2> DEFINE T == {i \in 0 .. n : i = 0 \/ fl[i] = f[i]}
  <2>6. 0 \in T
    BY <2>1
  <2>7. ASSUME NEW i \in 1 .. n, i - 1 \in T PROVE i \in T
    <3>1. CASE i = 1
      <4>1. seqs[1] \in Seq(S)
        BY <2>1, ElementOfSeq
      <4>2. f[i] = f[i - 1] \o seqs[i]
        OBVIOUS
      <4>4. i - 1 = 0
        BY <3>1
      <4>5. f[i] = << >> \o seqs[i]
        BY <4>2, <4>4
      <4>3. fl[1] = seqs[1]
        BY <2>1, <2>4
      <4>6. fl[i] = f[i]
        BY <3>1, <4>1, <4>3, <4>5, ConcatEmptySeq
      <4> QED BY <4>6
    <3>2. CASE i # 1
      <4>1. fl[i] = fl[i - 1] \o seqs[i]
        BY <3>2, <2>4
      <4>2. fl[i - 1] = f[i - 1]
        BY <3>2, <2>7
      <4>3. f[i] = f[i - 1] \o seqs[i]
        OBVIOUS
      <4>4. fl[i] = f[i]
        BY <4>1, <4>2, <4>3
      <4> QED BY <4>4
    <3> QED BY <3>1, <3>2
  <2>8. n \in T
    <3>1. \A i \in 1 .. n : i - 1 \in T => i \in T
      BY <2>7
    <3>2. n \in 0 .. n
      BY <2>1
    <3> HIDE DEF T, n
    <3> QED BY <2>1, <2>6, <3>1, <3>2, UpTo
  <2> QED BY <2>1, <2>5, <2>8
<1> QED BY <1>1, <1>2

(* The partial concatenations are the flattened prefixes *)
LEMMA FlattenOfPrefixes ==
    ASSUME NEW S, NEW seqs \in Seq(Seq(S))
    PROVE  \E f \in [0 .. Len(seqs) -> Seq(S)] :
              /\ f[0] = << >>
              /\ \A i \in 1 .. Len(seqs) : f[i] = f[i - 1] \o seqs[i]
              /\ \A i \in 0 .. Len(seqs) : FlattenSeq(SubSeq(seqs, 1, i)) = f[i]
<1> DEFINE n == Len(seqs)
<1>1. n \in Nat /\ \A i \in 1 .. n : seqs[i] \in Seq(S)
  BY LenProperties, ElementOfSeq
<1>2. PICK G : G = [x \in (1 .. n) \X Seq(S) |-> x[2] \o seqs[x[1]]]
  OBVIOUS
<1>3. IsStep(G, Seq(S), n)
  BY <1>1, <1>2, ConcatProperties DEF IsStep
<1>4. << >> \in Seq(S)
  BY EmptySeq
<1>5. PICK f : Runs(f, G, Seq(S), << >>, n)
  <2> HIDE DEF n
  <2> QED BY <1>1, <1>3, <1>4, Iterates
<1>6. ASSUME NEW i \in 1 .. n PROVE f[i] = f[i - 1] \o seqs[i]
  <2>1. i - 1 \in 0 .. n
    BY <1>1
  <2>2. f[i - 1] \in Seq(S)
    BY <1>5, <2>1 DEF Runs
  <2>3. G[<<i, f[i - 1]>>] = f[i - 1] \o seqs[i]
    BY <2>2, <1>2
  <2> QED BY <2>3, <1>5 DEF Runs
<1>7. ASSUME NEW i \in 0 .. n PROVE FlattenSeq(SubSeq(seqs, 1, i)) = f[i]
  <2>1. PICK ss : ss = SubSeq(seqs, 1, i)
    OBVIOUS
  <2>2. /\ ss \in Seq(Seq(S)) /\ Len(ss) = i
        /\ \A k \in 1 .. i : ss[k] = seqs[k]
    BY <1>1, <2>1, SubSeqProperties
  <2>3. PICK g : g = [k \in 0 .. i |-> f[k]]
    OBVIOUS
  <2>4. g \in [0 .. Len(ss) -> Seq(S)] /\ g[0] = << >> /\ g[i] = f[i]
    <3>1. i \in Nat /\ 0 \in 0 .. i /\ i \in 0 .. i /\ 0 .. i \subseteq 0 .. n
      BY <1>1
    <3>2. \A k \in 0 .. i : f[k] \in Seq(S)
      BY <1>5, <3>1 DEF Runs
    <3> HIDE DEF n
    <3> QED BY <1>5, <2>2, <2>3, <3>1, <3>2 DEF Runs
  <2>5. ASSUME NEW k \in 1 .. Len(ss) PROVE g[k] = g[k - 1] \o ss[k]
    <3>1. k - 1 \in 0 .. i /\ k \in 0 .. i /\ k \in 1 .. n
      BY <2>2
    <3> QED BY <3>1, <2>2, <2>3, <1>6
  <2> QED BY <2>1, <2>2, <2>4, <2>5, FlattenIs, ZenonT(40)
<1>8. f \in [0 .. n -> Seq(S)] /\ f[0] = << >>
  BY <1>5 DEF Runs
<1> QED BY <1>6, <1>7, <1>8

(* What is used of FlattenSeq *)
LEMMA Flatten ==
    ASSUME NEW S, NEW seqs \in Seq(Seq(S))
    PROVE  /\ FlattenSeq(seqs) \in Seq(S)
           /\ FlattenSeq(SubSeq(seqs, 1, 0)) = << >>
           /\ \A i \in 0 .. Len(seqs) : FlattenSeq(SubSeq(seqs, 1, i)) \in Seq(S)
           /\ \A i \in 1 .. Len(seqs) :
                 FlattenSeq(SubSeq(seqs, 1, i)) = FlattenSeq(SubSeq(seqs, 1, i - 1)) \o seqs[i]
           /\ FlattenSeq(SubSeq(seqs, 1, Len(seqs))) = FlattenSeq(seqs)
<1>1. PICK f \in [0 .. Len(seqs) -> Seq(S)] :
          /\ f[0] = << >>
          /\ \A i \in 1 .. Len(seqs) : f[i] = f[i - 1] \o seqs[i]
          /\ \A i \in 0 .. Len(seqs) : FlattenSeq(SubSeq(seqs, 1, i)) = f[i]
  BY FlattenOfPrefixes
<1>2. SubSeq(seqs, 1, Len(seqs)) = seqs
  BY SubSeqFull
<1>3. Len(seqs) \in Nat
  BY LenProperties
<1>4. \A i \in 0 .. Len(seqs) : f[i] \in Seq(S)
  OBVIOUS
<1>5. \A i \in 1 .. Len(seqs) : i - 1 \in 0 .. Len(seqs) /\ i \in 0 .. Len(seqs)
  BY <1>3
<1>6. FlattenSeq(seqs) = f[Len(seqs)]
  <2>1. FlattenSeq(SubSeq(seqs, 1, Len(seqs))) = f[Len(seqs)]
    BY <1>1, <1>3
  <2> QED BY <2>1, <1>2
<1>7. 0 \in 0 .. Len(seqs) /\ Len(seqs) \in 0 .. Len(seqs)
  BY <1>3
<1> QED BY <1>1, <1>2, <1>4, <1>5, <1>6, <1>7

Joined(a, b, x) == x = a \o b

LEMMA Associative ==
    ASSUME NEW S, NEW a \in Seq(S), NEW b \in Seq(S), NEW c \in Seq(S),
           NEW x, Joined(a, b, x), NEW y, Joined(b, c, y)
    PROVE  Joined(a, y, x \o c)
BY ConcatAssociative, SMTT(30) DEF Joined

(* The tokens of a context are those of a prefix of its segments, then     *)
(* those of the others                                                     *)
LEMMA TokensSplit ==
    ASSUME NEW S, NEW ctx \in Seq(Seq(S)), NEW n \in 0 .. Len(ctx)
    PROVE  /\ Tokens(SubSeq(ctx, 1, n)) \in Seq(S)
           /\ Tokens(SubSeq(ctx, n + 1, Len(ctx))) \in Seq(S)
           /\ Tokens(ctx) = Tokens(SubSeq(ctx, 1, n)) \o Tokens(SubSeq(ctx, n + 1, Len(ctx)))
<1> DEFINE L == Len(ctx)
           head == FlattenSeq(SubSeq(ctx, 1, n))
           tail(m) == FlattenSeq(SubSeq(ctx, n + 1, m))
           T == {m \in 0 .. L : m >= n =>
                    tail(m) \in Seq(S) /\ FlattenSeq(SubSeq(ctx, 1, m)) = head \o tail(m)}
<1>1. L \in Nat /\ n \in Nat /\ n <= L /\ \A i \in 1 .. L : ctx[i] \in Seq(S)
  BY LenProperties, ElementOfSeq
<1>2. head \in Seq(S)
  BY Flatten
<1>3. tail(n) \in Seq(S) /\ head = head \o tail(n)
  <2>1. SubSeq(ctx, n + 1, n) = << >>
    BY <1>1, SubSeqEmpty
  <2>2. tail(n) = << >>
    <3>1. Len(<< >>) = 0
      OBVIOUS
    <3> QED BY <2>1, <3>1 DEF FlattenSeq
  <2>3. << >> \in Seq(S)
    BY EmptySeq
  <2> QED BY <1>2, <2>2, <2>3, ConcatEmptySeq
<1>4. 0 \in T
  <2>1. CASE n = 0
    BY <1>1, <1>3, <2>1
  <2>2. CASE n # 0
    BY <1>1, <2>2
  <2> QED BY <2>1, <2>2
<1>5. ASSUME NEW m \in 1 .. L, m - 1 \in T PROVE m \in T
  <2>1. CASE m < n
    BY <2>1, <1>1
  <2>2. CASE m = n
    BY <2>2, <1>1, <1>3
  <2>3. CASE m > n
    <3>1. m - 1 >= n /\ m - 1 \in Nat /\ m \in 0 .. L
      BY <2>3, <1>1
    <3>2. /\ tail(m - 1) \in Seq(S)
          /\ FlattenSeq(SubSeq(ctx, 1, m - 1)) = head \o tail(m - 1)
      BY <1>5, <3>1
    <3>3. FlattenSeq(SubSeq(ctx, 1, m)) = FlattenSeq(SubSeq(ctx, 1, m - 1)) \o ctx[m]
      BY Flatten
    <3>4. tail(m) = tail(m - 1) \o ctx[m]
      <4>1. PICK ss : ss = SubSeq(ctx, n + 1, m)
        OBVIOUS
      <4>2. \A i \in n + 1 .. m : ctx[i] \in Seq(S)
        BY <1>1, <3>1
      <4>3. ss \in Seq(Seq(S)) /\ Len(ss) = m - n /\ \A i \in 1 .. m - n : ss[i] = ctx[n + i]
        <5>1. n + 1 \in Int /\ m \in Int /\ n + 1 <= m /\ m - (n + 1) + 1 = m - n
          BY <1>1, <3>1, <2>3
        <5>2. /\ ss \in Seq(Seq(S)) /\ Len(ss) = m - (n + 1) + 1
              /\ \A i \in 1 .. m - (n + 1) + 1 : ss[i] = ctx[(n + 1) + i - 1]
          BY <4>1, <4>2, <5>1, SubSeqProperties
        <5>3. \A i \in 1 .. m - n : (n + 1) + i - 1 = n + i
          BY <5>1
        <5> QED BY <5>1, <5>2, <5>3
      <4>4. SubSeq(ss, 1, m - n - 1) = SubSeq(ctx, n + 1, m - 1)
        <5>1. PICK a, b : a = SubSeq(ss, 1, m - n - 1) /\ b = SubSeq(ctx, n + 1, m - 1)
          OBVIOUS
        <5>2. /\ a \in Seq(Seq(S)) /\ Len(a) = m - n - 1
              /\ \A i \in 1 .. m - n - 1 : a[i] = ss[i]
          <6>1. \A i \in 1 .. m - n - 1 : ss[i] \in Seq(S)
            BY <4>2, <4>3, <1>1, <3>1
          <6>2. m - n - 1 \in Nat
            BY <3>1, <1>1
          <6> QED BY <5>1, <6>1, <6>2, SubSeqProperties
        <5>3. /\ b \in Seq(Seq(S)) /\ Len(b) = m - n - 1
              /\ \A i \in 1 .. m - n - 1 : b[i] = ctx[n + i]
          <6>1. \A i \in n + 1 .. m - 1 : ctx[i] \in Seq(S)
            BY <4>2, <3>1
          <6>2. n + 1 \in Int /\ m - 1 \in Int /\ (m - 1) - (n + 1) + 1 = m - n - 1
            BY <1>1, <3>1
          <6>3. /\ b \in Seq(Seq(S))
                /\ Len(b) = IF n + 1 <= m - 1 THEN (m - 1) - (n + 1) + 1 ELSE 0
                /\ \A i \in 1 .. (m - 1) - (n + 1) + 1 : b[i] = ctx[(n + 1) + i - 1]
            BY <5>1, <6>1, <6>2, SubSeqProperties
          <6>4. \A i \in 1 .. m - n - 1 : (n + 1) + i - 1 = n + i
            BY <6>2
          <6>5. Len(b) = m - n - 1
            BY <6>2, <6>3, <3>1, <1>1
          <6> QED BY <6>2, <6>3, <6>4, <6>5
        <5>4. \A i \in 1 .. m - n - 1 : a[i] = b[i]
          BY <5>2, <5>3, <4>3, <3>1, <1>1
        <5> QED BY <5>1, <5>2, <5>3, <5>4, SeqEqual
      <4>5. FlattenSeq(SubSeq(ss, 1, m - n)) = FlattenSeq(SubSeq(ss, 1, m - n - 1)) \o ss[m - n]
        <5>1. m - n \in 1 .. Len(ss)
          BY <4>3, <3>1, <1>1
        <5> QED BY <4>3, <5>1, Flatten
      <4>6. SubSeq(ss, 1, m - n) = ss
        BY <4>3, SubSeqFull
      <4>7. ss[m - n] = ctx[m]
        BY <4>3, <3>1, <1>1
      <4> QED BY <4>1, <4>4, <4>5, <4>6, <4>7
    <3>5. ctx[m] \in Seq(S)
      BY <1>1
    <3>6. tail(m) \in Seq(S)
      BY <3>2, <3>4, <3>5, ConcatProperties
    <3>7. PICK h, t, c, x, y : /\ h = head /\ t = tail(m - 1) /\ c = ctx[m]
                               /\ x = h \o t /\ y = t \o c
      OBVIOUS
    <3>8. x \o c = h \o y
      <4>1. h \in Seq(S) /\ t \in Seq(S) /\ c \in Seq(S)
        BY <1>2, <3>2, <3>5, <3>7
      <4>2. Joined(h, t, x) /\ Joined(t, c, y)
        BY <3>7 DEF Joined
      <4>3. Joined(h, y, x \o c)
        BY <4>1, <4>2, Associative
      <4> QED BY <4>3 DEF Joined
    <3>9. FlattenSeq(SubSeq(ctx, 1, m)) = head \o tail(m)
      BY <3>2, <3>3, <3>4, <3>7, <3>8
    <3> QED BY <3>1, <3>6, <3>9
  <2> QED BY <2>1, <2>2, <2>3, <1>1
<1>6. L \in T
  <2>1. \A m \in 1 .. L : m - 1 \in T => m \in T
    BY <1>5
  <2>2. L \in 0 .. L
    BY <1>1
  <2> HIDE DEF T, L
  <2> QED BY <1>1, <1>4, <2>1, <2>2, UpTo
<1>7. FlattenSeq(SubSeq(ctx, 1, L)) = FlattenSeq(ctx)
  BY Flatten
<1> QED BY <1>1, <1>2, <1>6, <1>7 DEF Tokens

(* Offsets add up the lengths of the segments *)
LEMMA Offsets ==
    ASSUME NEW S, NEW ctx \in Seq(Seq(S))
    PROVE  /\ Len(ctx) \in Nat
           /\ Tokens(ctx) \in Seq(S) /\ Len(Tokens(ctx)) \in Nat
           /\ Offset(ctx, 1) = 0
           /\ Offset(ctx, Len(ctx) + 1) = Len(Tokens(ctx))
           /\ \A i \in 1 .. Len(ctx) + 1 :
                 Offset(ctx, i) \in Nat /\ Offset(ctx, i) <= Len(Tokens(ctx))
           /\ \A i \in 1 .. Len(ctx) :
                 /\ ctx[i] \in Seq(S) /\ Len(ctx[i]) \in Nat
                 /\ Offset(ctx, i + 1) = Offset(ctx, i) + Len(ctx[i])
<1>1. Len(ctx) \in Nat /\ \A i \in 1 .. Len(ctx) : ctx[i] \in Seq(S) /\ Len(ctx[i]) \in Nat
  BY LenProperties, ElementOfSeq
<1>2. Tokens(ctx) \in Seq(S) /\ Len(Tokens(ctx)) \in Nat
  BY Flatten, LenProperties DEF Tokens
<1>3. Offset(ctx, 1) = 0
  <2>1. Tokens(SubSeq(ctx, 1, 0)) = << >>
    BY Flatten DEF Tokens
  <2>2. Len(<< >>) = 0 /\ 1 - 1 = 0
    OBVIOUS
  <2> QED BY <2>1, <2>2 DEF Offset
<1>4. Offset(ctx, Len(ctx) + 1) = Len(Tokens(ctx))
  <2>1. (Len(ctx) + 1) - 1 = Len(ctx)
    BY <1>1
  <2>2. Tokens(SubSeq(ctx, 1, Len(ctx))) = Tokens(ctx)
    BY Flatten DEF Tokens
  <2> QED BY <2>1, <2>2 DEF Offset
<1>5. ASSUME NEW i \in 1 .. Len(ctx) + 1
      PROVE  Offset(ctx, i) \in Nat /\ Offset(ctx, i) <= Len(Tokens(ctx))
  <2>1. i - 1 \in 0 .. Len(ctx)
    BY <1>1
  <2>2. PICK n : n = i - 1
    OBVIOUS
  <2>3. PICK a, b : a = Tokens(SubSeq(ctx, 1, n)) /\ b = Tokens(SubSeq(ctx, n + 1, Len(ctx)))
    OBVIOUS
  <2>4. a \in Seq(S) /\ b \in Seq(S) /\ Tokens(ctx) = a \o b
    BY <2>1, <2>2, <2>3, TokensSplit
  <2>5. Len(a) \in Nat /\ Len(b) \in Nat /\ Len(Tokens(ctx)) = Len(a) + Len(b)
    BY <2>4, ConcatProperties, LenProperties
  <2> QED BY <2>2, <2>3, <2>5 DEF Offset
<1>6. ASSUME NEW i \in 1 .. Len(ctx) PROVE Offset(ctx, i + 1) = Offset(ctx, i) + Len(ctx[i])
  <2>1. PICK a : a = Tokens(SubSeq(ctx, 1, i - 1))
    OBVIOUS
  <2>2. a \in Seq(S)
    <3>1. i - 1 \in 0 .. Len(ctx)
      BY <1>1
    <3>2. \A k \in 0 .. Len(ctx) : FlattenSeq(SubSeq(ctx, 1, k)) \in Seq(S)
      BY Flatten
    <3> QED BY <2>1, <3>1, <3>2 DEF Tokens
  <2>3. Tokens(SubSeq(ctx, 1, i)) = a \o ctx[i]
    BY <2>1, Flatten DEF Tokens
  <2>4. Len(Tokens(SubSeq(ctx, 1, i))) = Len(a) + Len(ctx[i])
    BY <1>1, <2>2, <2>3, ConcatProperties
  <2>5. (i + 1) - 1 = i
    OBVIOUS
  <2> QED BY <2>1, <2>4, <2>5 DEF Offset
<1> QED BY <1>1, <1>2, <1>3, <1>4, <1>5, <1>6

(* Contexts that begin with the same segments begin with the same tokens *)
SameStart(a, b, n) == SubSeq(Tokens(a), 1, n) = SubSeq(Tokens(b), 1, n)

LEMMA SameHead ==
    ASSUME NEW S, NEW a \in Seq(Seq(S)), NEW b \in Seq(Seq(S)),
           NEW n \in Nat, n <= Len(a), n <= Len(b), \A i \in 1 .. n : a[i] = b[i]
    PROVE  /\ SubSeq(a, 1, n) = SubSeq(b, 1, n)
           /\ \A i \in 1 .. n + 1 : Offset(a, i) = Offset(b, i)
           /\ SameStart(a, b, Offset(b, n + 1))
<1>1. Len(a) \in Nat /\ Len(b) \in Nat
  BY LenProperties
<1>2. ASSUME NEW m \in 0 .. n PROVE SubSeq(a, 1, m) = SubSeq(b, 1, m)
  <2>1. PICK x, y : x = SubSeq(a, 1, m) /\ y = SubSeq(b, 1, m)
    OBVIOUS
  <2>2. \A i \in 1 .. m : a[i] \in Seq(S) /\ b[i] \in Seq(S)
    BY <1>1, ElementOfSeq
  <2>3. /\ x \in Seq(Seq(S)) /\ Len(x) = m /\ \A i \in 1 .. m : x[i] = a[i]
        /\ y \in Seq(Seq(S)) /\ Len(y) = m /\ \A i \in 1 .. m : y[i] = b[i]
    BY <2>1, <2>2, SubSeqProperties
  <2> QED BY <2>1, <2>3, SeqEqual
<1>3. ASSUME NEW i \in 1 .. n + 1 PROVE Offset(a, i) = Offset(b, i)
  <2>1. i - 1 \in 0 .. n
    OBVIOUS
  <2> QED BY <1>2, <2>1 DEF Offset
<1>4. SubSeq(Tokens(a), 1, Offset(b, n + 1)) = SubSeq(Tokens(b), 1, Offset(b, n + 1))
  <2>1. PICK h, s, t : /\ h = Tokens(SubSeq(b, 1, n))
                       /\ s = Tokens(SubSeq(a, n + 1, Len(a)))
                       /\ t = Tokens(SubSeq(b, n + 1, Len(b)))
    OBVIOUS
  <2>2. n \in 0 .. Len(a) /\ n \in 0 .. Len(b)
    BY <1>1
  <2>3. h \in Seq(S) /\ s \in Seq(S) /\ Tokens(a) = h \o s
    <3>1. SubSeq(a, 1, n) = SubSeq(b, 1, n)
      BY <1>2
    <3> QED BY <2>1, <2>2, <3>1, TokensSplit
  <2>4. t \in Seq(S) /\ Tokens(b) = h \o t
    BY <2>1, <2>2, TokensSplit
  <2>5. Offset(b, n + 1) = Len(h) /\ Len(h) \in Nat
    <3>1. (n + 1) - 1 = n
      OBVIOUS
    <3> QED BY <2>1, <2>3, <3>1, LenProperties DEF Offset
  <2>6. ASSUME NEW u \in Seq(S) PROVE SubSeq(h \o u, 1, Len(h)) = h
    <3>1. PICK x : x = SubSeq(h \o u, 1, Len(h))
      OBVIOUS
    <3>2. \A i \in 1 .. Len(h) : (h \o u)[i] = h[i] /\ h[i] \in S
      <4>1. Len(u) \in Nat
        BY LenProperties
      <4>2. \A i \in 1 .. Len(h) : i \in 1 .. Len(h) + Len(u)
        BY <2>5, <4>1
      <4>3. \A i \in 1 .. Len(h) + Len(u) :
              (h \o u)[i] = IF i <= Len(h) THEN h[i] ELSE u[i - Len(h)]
        BY <2>3, ConcatProperties
      <4> QED BY <2>3, <2>5, <4>2, <4>3, ElementOfSeq
    <3>3. x \in Seq(S) /\ Len(x) = Len(h) /\ \A i \in 1 .. Len(h) : x[i] = h[i]
      BY <2>5, <3>1, <3>2, SubSeqProperties
    <3> QED BY <2>3, <3>1, <3>3, SeqEqual
  <2> QED BY <2>3, <2>4, <2>5, <2>6
<1>5. SubSeq(a, 1, n) = SubSeq(b, 1, n)
  BY <1>2
<1> QED BY <1>3, <1>4, <1>5 DEF SameStart
-----------------------------------------------------------------------------
(* Extremes of finite sets of naturals. *)

LEMMA MinOf ==
    ASSUME NEW T, T \subseteq Nat, T # {}
    PROVE  Min(T) \in T /\ \A y \in T : Min(T) <= y
BY LeastOf DEF Min

LEMMA MaxOf ==
    ASSUME NEW n \in Nat, NEW T, T \subseteq 0 .. n, T # {}
    PROVE  Max(T) \in T /\ \A y \in T : y <= Max(T)
<1>1. PICK D : D = {n - x : x \in T}
  OBVIOUS
<1>2. D \subseteq Nat /\ D # {}
  <2>1. \A x \in T : n - x \in Nat
    OBVIOUS
  <2>2. PICK x : x \in T
    OBVIOUS
  <2>3. n - x \in D
    BY <1>1, <2>2
  <2> QED BY <1>1, <2>1, <2>3
<1>3. PICK d \in D : \A y \in D : d <= y
  BY <1>2, LeastOf
<1>4. PICK x \in T : d = n - x
  BY <1>1
<1>5. \A y \in T : y <= x
  <2> SUFFICES ASSUME NEW y \in T PROVE y <= x
    OBVIOUS
  <2>1. n - y \in D
    BY <1>1
  <2>2. d <= n - y
    BY <1>3, <2>1
  <2> QED BY <1>4, <2>2
<1>6. \A y \in T : x >= y
  BY <1>5
<1>7. \E z \in T : \A y \in T : z >= y
  BY <1>6
<1>8. PICK z : z = Max(T)
  OBVIOUS
<1>9. z \in T /\ \A y \in T : z >= y
  BY <1>7, <1>8 DEF Max
<1> QED BY <1>8, <1>9

LEMMA MinOfTwo ==
    ASSUME NEW a \in Nat, NEW b \in Nat
    PROVE  Min({a, b}) = IF a <= b THEN a ELSE b
<1>1. PICK T : T = {a, b}
  OBVIOUS
<1>2. T \subseteq Nat /\ T # {}
  BY <1>1
<1>3. Min(T) \in T /\ \A y \in T : Min(T) <= y
  BY <1>2, MinOf
<1> QED BY <1>1, <1>3

LEMMA MaxOfTwo ==
    ASSUME NEW a \in Nat, NEW b \in Nat, a <= b
    PROVE  Max({a, b}) = b
<1>1. PICK T : T = {a, b}
  OBVIOUS
<1>2. T \subseteq 0 .. b /\ T # {}
  BY <1>1
<1>3. Max(T) \in T /\ \A y \in T : y <= Max(T)
  BY <1>2, MaxOf
<1> QED BY <1>1, <1>3

-----------------------------------------------------------------------------
(* Plans. *)

(* The common prefix is the longest one *)
Diverge(a, b, c) == c < Len(a) /\ c < Len(b) => a[c + 1] # b[c + 1]

LEMMA CommonPrefix ==
    ASSUME NEW X, NEW prev \in Seq(X), NEW new \in Seq(X), NEW c, c = CommonPrefixLen(prev, new)
    PROVE  /\ c \in Nat /\ c <= Len(prev) /\ c <= Len(new)
           /\ \A i \in 1 .. c : prev[i] = new[i]
           /\ Diverge(prev, new, c)
<1>1. Len(prev) \in Nat /\ Len(new) \in Nat
  BY LenProperties
<1>2. PICK m : m = Min({Len(prev), Len(new)})
  OBVIOUS
<1>3. m \in Nat /\ m <= Len(prev) /\ m <= Len(new) /\ (m = Len(prev) \/ m = Len(new))
  BY <1>1, <1>2, MinOfTwo
<1>4. PICK T : T = {n \in 0 .. m : \A i \in 1 .. n : prev[i] = new[i]}
  OBVIOUS
<1>5. T \subseteq 0 .. m /\ T # {}
  <2>1. 0 \in T
    BY <1>3, <1>4
  <2> QED BY <1>4, <2>1
<1>6. c = Max(T)
  BY <1>2, <1>4 DEF CommonPrefixLen
<1>7. c \in T /\ \A y \in T : y <= c
  BY <1>3, <1>5, <1>6, MaxOf
<1>8. c \in 0 .. m /\ \A i \in 1 .. c : prev[i] = new[i]
  BY <1>4, <1>7
<1>9. ASSUME c < Len(prev), c < Len(new), prev[c + 1] = new[c + 1] PROVE FALSE
  <2>1. c + 1 \in 0 .. m
    BY <1>3, <1>8, <1>9
  <2>2. \A i \in 1 .. c + 1 : prev[i] = new[i]
    BY <1>8, <1>9
  <2>3. c + 1 \in T
    BY <1>4, <2>1, <2>2
  <2>4. c + 1 <= c
    BY <1>7, <2>3
  <2> QED BY <1>8, <2>4
<1> QED BY <1>3, <1>8, <1>9 DEF Diverge

Items(X) ==
    [action : {"reuse_exact", "reuse_shifted", "recompute"}, segment : X,
     span : Nat \X Nat, prev : Nat, shift : Int]

(* What the item of segment i says, c being the common prefix *)
Fits(item, prev, new, mode, c, i) ==
    /\ item.segment = new[i]
    /\ item.span[1] = Offset(new, i) /\ item.span[2] = Offset(new, i + 1)
    /\ i <= c => item.action = "reuse_exact" /\ item.prev = i
    /\ i > c => \/ item.action = "recompute" /\ item.prev = NoMatch
                \/ /\ mode = "selective" /\ item.action = "reuse_shifted"
                   /\ item.prev \in c + 1 .. Len(prev) /\ prev[item.prev] = new[i]

(* No item before item i takes the segment that it takes *)
FirstToTake(item, c, i, earlier) ==
    i > c /\ item.prev # NoMatch => \A k \in 1 .. i - 1 : earlier[k].prev # item.prev

(* Item i is decided after those before it *)
DecidedAt(i, plan, prev, new, mode, V) ==
    \E before \in V : /\ Len(before) = i - 1 /\ \A k \in 1 .. i - 1 : before[k] = plan[k]
                      /\ plan[i] = PlanItem(prev, new, mode, i, before)

(* What segment i gets, given the items decided before it *)
LEMMA ItemOf ==
    ASSUME NEW S, NEW prev \in Seq(Seq(S)), NEW new \in Seq(Seq(S)), NEW mode,
           NEW i \in 1 .. Len(new), NEW before \in Seq(Items(Seq(S))),
           NEW c, c = CommonPrefixLen(prev, new),
           NEW item, item = PlanItem(prev, new, mode, i, before)
    PROVE  /\ item \in Items(Seq(S))
           /\ Fits(item, prev, new, mode, c, i)
           /\ Len(before) = i - 1 => FirstToTake(item, c, i, before)
<1>1. PICK a, z : a = Offset(new, i) /\ z = Offset(new, i + 1)
  OBVIOUS
<1>2. /\ new[i] \in Seq(S) /\ a \in Nat /\ z \in Nat /\ z = a + Len(new[i])
      /\ Len(prev) \in Nat /\ Len(new) \in Nat /\ c \in Nat
  <2>1. Len(new) \in Nat /\ Len(prev) \in Nat
    BY LenProperties
  <2>2. i \in 1 .. Len(new) + 1 /\ i + 1 \in 1 .. Len(new) + 1
    BY <2>1
  <2>3. c \in Nat
    BY CommonPrefix
  <2> QED BY <1>1, <2>1, <2>2, <2>3, Offsets
<1>3. CASE i <= c
  <2>1. item = Item("reuse_exact", new[i], a, i, 0)
    BY <1>1, <1>3 DEF PlanItem
  <2>2. item = [action |-> "reuse_exact", segment |-> new[i], span |-> <<a, z>>,
                prev |-> i, shift |-> 0]
    BY <2>1, <1>2 DEF Item
  <2> QED BY <1>1, <1>2, <1>3, <2>2, SMTT(30) DEF Items, Fits, FirstToTake
<1>4. CASE ~(i <= c)
  <2>1. PICK m : m = IF mode = "selective" THEN Match(prev, new, i, before) ELSE NoMatch
    OBVIOUS
  <2>2. item = IF m # NoMatch THEN Item("reuse_shifted", new[i], a, m, a - Offset(prev, m))
               ELSE Item("recompute", new[i], a, NoMatch, 0)
    BY <1>1, <1>4, <2>1 DEF PlanItem
  <2>3. CASE m = NoMatch
    <3>1. item = [action |-> "recompute", segment |-> new[i], span |-> <<a, z>>,
                  prev |-> 0, shift |-> 0]
      BY <2>2, <2>3, <1>2 DEF Item, NoMatch
    <3> QED BY <1>1, <1>2, <1>4, <3>1 DEF Items, NoMatch, Fits, FirstToTake
  <2>4. CASE m # NoMatch
    <3>1. PICK pool : pool = { j \in 1 .. Len(prev) : /\ j > c /\ prev[j] = new[i]
                                         /\ \A k \in DOMAIN before : before[k].prev # j }
      OBVIOUS
    <3>2. mode = "selective" /\ pool # {} /\ m = Min(pool)
      BY <2>1, <2>4, <3>1 DEF Match, NoMatch
    <3>3. pool \subseteq Nat
      BY <3>1
    <3>4. m \in pool
      BY <3>2, <3>3, MinOf
    <3>5. /\ m \in 1 .. Len(prev) /\ m > c /\ prev[m] = new[i]
          /\ \A k \in DOMAIN before : before[k].prev # m
      BY <3>1, <3>4
    <3>6. Offset(prev, m) \in Nat
      <4>1. m \in 1 .. Len(prev) + 1
        BY <1>2, <3>5
      <4> QED BY <4>1, Offsets
    <3>7. item = [action |-> "reuse_shifted", segment |-> new[i], span |-> <<a, z>>,
                  prev |-> m, shift |-> a - Offset(prev, m)]
      BY <2>2, <2>4, <1>2 DEF Item
    <3>8. m \in Nat /\ m \in c + 1 .. Len(prev) /\ a - Offset(prev, m) \in Int
      <4>1. m \in c + 1 .. Len(prev)
        BY <1>2, <3>5
      <4>2. PICK o : o = Offset(prev, m)
        OBVIOUS
      <4>3. a - o \in Int
        BY <1>2, <3>6, <4>2
      <4> QED BY <1>2, <3>5, <4>1, <4>2, <4>3
    <3>9. DOMAIN before = 1 .. Len(before)
      BY LenProperties
    <3>10. item \in Items(Seq(S))
      <4>1. PICK sh, sp : sh = a - Offset(prev, m) /\ sp = <<a, z>>
        OBVIOUS
      <4>2. sh \in Int /\ sp \in Nat \X Nat /\ m \in Nat
        BY <1>2, <3>8, <4>1
      <4>3. item = [action |-> "reuse_shifted", segment |-> new[i], span |-> sp,
                    prev |-> m, shift |-> sh]
        BY <3>7, <4>1
      <4> QED BY <1>2, <4>2, <4>3 DEF Items
    <3>11. ~(i <= c) /\ item.prev = m /\ item.action = "reuse_shifted"
      BY <1>4, <3>7
    <3>12. item.segment = new[i] /\ item.span[1] = a /\ item.span[2] = z
      BY <3>7
    <3>13. Len(before) = i - 1 => FirstToTake(item, c, i, before)
      BY <3>5, <3>9, <3>11 DEF FirstToTake
    <3> QED BY <1>1, <3>2, <3>5, <3>8, <3>10, <3>11, <3>12, <3>13 DEF Fits
  <2> QED BY <2>3, <2>4
<1> QED BY <1>3, <1>4

(* PlanIncremental is the last of the plans its loop goes through *)
LEMMA PlanIs ==
    ASSUME NEW prev, NEW new, NEW mode, NEW V, Len(new) \in Nat,
           NEW f \in [0 .. Len(new) -> V], f[0] = << >>,
           \A i \in 1 .. Len(new) :
              f[i] = Append(f[i - 1], PlanItem(prev, new, mode, i, f[i - 1]))
    PROVE  PlanIncremental(prev, new, mode) = f[Len(new)]
<1> DEFINE n == Len(new)
           body(g) == [i \in 0 .. n |-> IF i = 0 THEN << >>
                          ELSE Append(g[i - 1], PlanItem(prev, new, mode, i, g[i - 1]))]
<1>1. PICK g : g = CHOOSE h : h = body(h)
  OBVIOUS
<1>2. PICK h : h = [i \in 0 .. n |-> f[i]]
  OBVIOUS
<1>3. ASSUME NEW i \in 0 .. n
      PROVE  h[i] = IF i = 0 THEN << >>
                    ELSE Append(h[i - 1], PlanItem(prev, new, mode, i, h[i - 1]))
  <2>1. CASE i = 0
    BY <1>2, <2>1
  <2>2. CASE i # 0
    <3>1. i \in 1 .. n /\ i - 1 \in 0 .. n
      BY <2>2
    <3>2. h[i] = f[i] /\ h[i - 1] = f[i - 1]
      BY <1>2, <3>1
    <3> QED BY <2>2, <3>1, <3>2
  <2> QED BY <2>1, <2>2
<1>4. h = body(h)
  BY <1>2, <1>3
<1>5. g = body(g)
  BY <1>1, <1>4
<1>6. PlanIncremental(prev, new, mode) = g[n]
  BY <1>1 DEF PlanIncremental
<1> DEFINE T == {i \in 0 .. n : g[i] = f[i]}
<1>7. 0 \in T
  BY <1>5
<1>8. ASSUME NEW i \in 1 .. n, i - 1 \in T PROVE i \in T
  <2>1. i \in 0 .. n /\ i # 0
    OBVIOUS
  <2>2. g[i] = Append(g[i - 1], PlanItem(prev, new, mode, i, g[i - 1]))
    BY <1>5, <2>1
  <2>3. g[i - 1] = f[i - 1]
    BY <1>8
  <2>4. g[i] = f[i]
    BY <2>2, <2>3
  <2> QED BY <2>1, <2>4
<1>9. n \in T
  <2>1. \A i \in 1 .. n : i - 1 \in T => i \in T
    BY <1>8
  <2>2. n \in Nat /\ n \in 0 .. n
    OBVIOUS
  <2> HIDE DEF T, n
  <2> QED BY <1>7, <2>1, <2>2, UpTo
<1> QED BY <1>6, <1>9

(* What is used of a plan: its items, each decided after those before it *)
LEMMA Plan ==
    ASSUME NEW S, NEW prev \in Seq(Seq(S)), NEW new \in Seq(Seq(S)), NEW mode,
           NEW plan, plan = PlanIncremental(prev, new, mode)
    PROVE  /\ plan \in Seq(Items(Seq(S))) /\ Len(plan) = Len(new)
           /\ \A i \in 1 .. Len(new) : DecidedAt(i, plan, prev, new, mode, Seq(Items(Seq(S))))
<1> DEFINE n == Len(new)
           V == Seq(Items(Seq(S)))
<1>1. n \in Nat
  BY LenProperties
<1>2. PICK G : G = [x \in (1 .. n) \X V |-> Append(x[2], PlanItem(prev, new, mode, x[1], x[2]))]
  OBVIOUS
<1>3. ASSUME NEW i \in 1 .. n, NEW x \in V
      PROVE  /\ G[<<i, x>>] = Append(x, PlanItem(prev, new, mode, i, x))
             /\ PlanItem(prev, new, mode, i, x) \in Items(Seq(S))
             /\ G[<<i, x>>] \in V
  <2>1. G[<<i, x>>] = Append(x, PlanItem(prev, new, mode, i, x))
    BY <1>2
  <2>2. PlanItem(prev, new, mode, i, x) \in Items(Seq(S))
    BY ItemOf
  <2>3. Append(x, PlanItem(prev, new, mode, i, x)) \in V
    BY <2>2, AppendProperties
  <2> QED BY <2>1, <2>2, <2>3
<1>4. IsStep(G, V, n)
  BY <1>3 DEF IsStep
<1>5. << >> \in V
  BY EmptySeq
<1>6. PICK f : Runs(f, G, V, << >>, n)
  <2> HIDE DEF n, V
  <2> QED BY <1>1, <1>4, <1>5, Iterates
<1>7. f \in [0 .. n -> V] /\ f[0] = << >>
  BY <1>6 DEF Runs
<1>8. ASSUME NEW i \in 1 .. n
      PROVE  /\ i - 1 \in 0 .. n /\ f[i - 1] \in V
             /\ f[i] = Append(f[i - 1], PlanItem(prev, new, mode, i, f[i - 1]))
             /\ Len(f[i]) = Len(f[i - 1]) + 1
             /\ f[i][Len(f[i])] = PlanItem(prev, new, mode, i, f[i - 1])
             /\ \A k \in 1 .. Len(f[i - 1]) : f[i][k] = f[i - 1][k]
  <2>1. i - 1 \in 0 .. n
    BY <1>1
  <2>2. f[i - 1] \in V
    BY <1>7, <2>1
  <2>3. f[i] = Append(f[i - 1], PlanItem(prev, new, mode, i, f[i - 1]))
    BY <2>2, <1>3, <1>6 DEF Runs
  <2>4. PICK x, y : x = f[i - 1] /\ y = PlanItem(prev, new, mode, i, x)
    OBVIOUS
  <2>5. x \in V /\ y \in Items(Seq(S)) /\ f[i] = Append(x, y)
    BY <2>2, <2>3, <2>4, <1>3
  <2>6. /\ Len(f[i]) = Len(x) + 1 /\ f[i][Len(x) + 1] = y
        /\ \A k \in 1 .. Len(x) : f[i][k] = x[k]
    BY <2>5, AppendProperties
  <2> QED BY <2>1, <2>2, <2>3, <2>4, <2>6
<1>9. ASSUME NEW i \in 0 .. n
      PROVE  Len(f[i]) = i
  <2> DEFINE T == {k \in 0 .. n : Len(f[k]) = k}
  <2>1. 0 \in T
    BY <1>1, <1>7, EmptySeq
  <2>2. ASSUME NEW k \in 1 .. n, k - 1 \in T PROVE k \in T
    BY <1>1, <1>8, <2>2, SMTT(30)
  <2>3. \A k \in 0 .. n : k \in T
    <3>1. \A k \in 1 .. n : k - 1 \in T => k \in T
      BY <2>2
    <3> HIDE DEF T, n
    <3> QED BY <1>1, <2>1, <3>1, UpTo
  <2> QED BY <2>3
<1>10. ASSUME NEW i \in 1 .. n, NEW k \in 1 .. i
       PROVE  f[n][k] = f[i][k]
  <2> DEFINE T == {m \in 0 .. n : m >= i => f[m][k] = f[i][k]}
  <2>1. 0 \in T
    BY <1>1
  <2>2. ASSUME NEW m \in 1 .. n, m - 1 \in T PROVE m \in T
    <3>1. CASE m < i
      BY <1>1, <3>1
    <3>2. CASE m = i
      BY <1>1, <3>2
    <3>3. CASE m > i
      <4>1. m - 1 \in 0 .. n /\ m - 1 >= i /\ k \in 1 .. m - 1
        BY <1>1, <3>3
      <4>2. f[m - 1][k] = f[i][k]
        BY <2>2, <4>1
      <4>3. Len(f[m - 1]) = m - 1
        BY <4>1, <1>9
      <4>4. \A j \in 1 .. Len(f[m - 1]) : f[m][j] = f[m - 1][j]
        BY <1>8
      <4>5. f[m][k] = f[m - 1][k]
        BY <4>1, <4>3, <4>4
      <4> QED BY <1>1, <4>2, <4>5
    <3> QED BY <1>1, <3>1, <3>2, <3>3
  <2>3. n \in T
    <3>1. \A m \in 1 .. n : m - 1 \in T => m \in T
      BY <2>2
    <3>2. n \in 0 .. n
      BY <1>1
    <3> HIDE DEF T, n
    <3> QED BY <1>1, <2>1, <3>1, <3>2, UpTo
  <2> QED BY <1>1, <2>3
<1>11. plan = f[n]
  <2>1. \A i \in 1 .. n : f[i] = Append(f[i - 1], PlanItem(prev, new, mode, i, f[i - 1]))
    BY <1>8
  <2> HIDE DEF V
  <2> QED BY <1>1, <1>7, <2>1, PlanIs, ZenonT(40)
<1>12. ASSUME NEW i \in 1 .. n
       PROVE  DecidedAt(i, plan, prev, new, mode, V)
  <2>1. PICK before : before = f[i - 1]
    OBVIOUS
  <2>2. before \in V /\ Len(before) = i - 1
    BY <2>1, <1>8, <1>9
  <2>3. ASSUME NEW k \in 1 .. i - 1 PROVE before[k] = plan[k]
    <3>1. i - 1 \in 1 .. n /\ k \in 1 .. i - 1
      BY <1>1
    <3> QED BY <3>1, <2>1, <1>10, <1>11
  <2>4. plan[i] = PlanItem(prev, new, mode, i, before)
    <3>1. i \in 1 .. i /\ i \in 0 .. n
      BY <1>1
    <3>2. plan[i] = f[i][i]
      BY <3>1, <1>10, <1>11
    <3>3. Len(f[i]) = i
      BY <3>1, <1>9
    <3>4. f[i][Len(f[i])] = PlanItem(prev, new, mode, i, f[i - 1])
      BY <1>8
    <3> QED BY <3>2, <3>3, <3>4, <2>1
  <2> QED BY <2>2, <2>3, <2>4 DEF DecidedAt
<1>13. plan \in V /\ Len(plan) = n
  <2>1. n \in 0 .. n
    BY <1>1
  <2> QED BY <2>1, <1>7, <1>9, <1>11
<1> QED BY <1>12, <1>13

(* What a plan does with each segment *)
LEMMA PlanFacts ==
    ASSUME NEW S, NEW prev \in Seq(Seq(S)), NEW new \in Seq(Seq(S)), NEW mode,
           NEW plan, plan = PlanIncremental(prev, new, mode),
           NEW c, c = CommonPrefixLen(prev, new)
    PROVE  /\ Len(new) \in Nat /\ Len(plan) = Len(new) /\ plan \in Seq(Items(Seq(S)))
           /\ DOMAIN plan = 1 .. Len(new)
           /\ \A i \in 1 .. Len(new) :
                 /\ plan[i] \in Items(Seq(S))
                 /\ Fits(plan[i], prev, new, mode, c, i)
                 /\ FirstToTake(plan[i], c, i, plan)
<1>1. /\ plan \in Seq(Items(Seq(S))) /\ Len(plan) = Len(new)
      /\ \A i \in 1 .. Len(new) : DecidedAt(i, plan, prev, new, mode, Seq(Items(Seq(S))))
  BY Plan
<1>2. Len(new) \in Nat /\ DOMAIN plan = 1 .. Len(new)
  BY <1>1, LenProperties
<1>3. ASSUME NEW i \in 1 .. Len(new)
      PROVE  /\ plan[i] \in Items(Seq(S))
             /\ Fits(plan[i], prev, new, mode, c, i)
             /\ FirstToTake(plan[i], c, i, plan)
  <2>1. PICK before \in Seq(Items(Seq(S))) :
           /\ Len(before) = i - 1 /\ \A k \in 1 .. i - 1 : before[k] = plan[k]
           /\ plan[i] = PlanItem(prev, new, mode, i, before)
    BY <1>1 DEF DecidedAt
  <2>2. /\ plan[i] \in Items(Seq(S))
        /\ Fits(plan[i], prev, new, mode, c, i)
        /\ FirstToTake(plan[i], c, i, before)
    BY <2>1, ItemOf
  <2>3. FirstToTake(plan[i], c, i, plan)
    BY <2>1, <2>2 DEF FirstToTake
  <2> QED BY <2>2, <2>3
<1> QED BY <1>1, <1>2, <1>3

-----------------------------------------------------------------------------
(* What an exact plan recomputes. *)

(* A length that grows with each segment is the number of tokens *)
LEMMA TokensAddUp ==
    ASSUME NEW S, NEW ctx \in Seq(Seq(S)), NEW F, F[0] = 0,
           \A i \in 1 .. Len(ctx) : F[i] = F[i - 1] + Len(ctx[i])
    PROVE  Len(Tokens(ctx)) = F[Len(ctx)]
<1> DEFINE n == Len(ctx)
           T == {i \in 0 .. n : Offset(ctx, i + 1) = F[i]}
<1>1. /\ n \in Nat /\ Offset(ctx, 1) = 0 /\ Offset(ctx, n + 1) = Len(Tokens(ctx))
      /\ \A i \in 1 .. n : Offset(ctx, i + 1) = Offset(ctx, i) + Len(ctx[i])
  BY Offsets
<1>2. 0 \in T
  BY <1>1
<1>3. ASSUME NEW i \in 1 .. n, i - 1 \in T PROVE i \in T
  <2>1. Offset(ctx, (i - 1) + 1) = F[i - 1] /\ (i - 1) + 1 = i
    BY <1>1, <1>3
  <2>2. Offset(ctx, i) = F[i - 1]
    BY <2>1
  <2>3. Offset(ctx, i + 1) = F[i]
    BY <1>1, <2>2
  <2> QED BY <2>3
<1>4. n \in T
  <2>1. \A i \in 1 .. n : i - 1 \in T => i \in T
    BY <1>3
  <2>2. n \in 0 .. n
    BY <1>1
  <2> HIDE DEF T, n
  <2> QED BY <1>1, <1>2, <2>1, <2>2, UpTo
<1> QED BY <1>1, <1>4

(* In exact mode what is re-used are the segments of the common prefix and *)
(* what is recomputed are all the others                                   *)
LEMMA ExactActions ==
    ASSUME NEW S, NEW prev \in Seq(Seq(S)), NEW new \in Seq(Seq(S)),
           NEW plan, plan = PlanIncremental(prev, new, "exact"),
           NEW c, c = CommonPrefixLen(prev, new)
    PROVE  /\ Len(new) \in Nat /\ Len(plan) = Len(new) /\ DOMAIN plan = 1 .. Len(new)
           /\ \A i \in 1 .. Len(new) :
                 /\ plan[i].segment = new[i]
                 /\ plan[i].span \in Nat \X Nat
                 /\ plan[i].span[1] = Offset(new, i) /\ plan[i].span[2] = Offset(new, i + 1)
                 /\ i <= c => plan[i].action = "reuse_exact"
                 /\ i > c => plan[i].action = "recompute"
<1>1. /\ Len(new) \in Nat /\ Len(plan) = Len(new) /\ DOMAIN plan = 1 .. Len(new)
      /\ \A i \in 1 .. Len(new) :
            /\ plan[i] \in Items(Seq(S)) /\ Fits(plan[i], prev, new, "exact", c, i)
  BY PlanFacts
<1>2. ASSUME NEW i \in 1 .. Len(new)
      PROVE  /\ plan[i].segment = new[i]
             /\ plan[i].span \in Nat \X Nat
             /\ plan[i].span[1] = Offset(new, i) /\ plan[i].span[2] = Offset(new, i + 1)
             /\ i <= c => plan[i].action = "reuse_exact"
             /\ i > c => plan[i].action = "recompute"
  <2>1. plan[i] \in Items(Seq(S)) /\ Fits(plan[i], prev, new, "exact", c, i)
    BY <1>1
  <2>2. plan[i].span \in Nat \X Nat
    BY <2>1 DEF Items
  <2> QED BY <2>1, <2>2 DEF Fits
<1> QED BY <1>1, <1>2

LEMMA ExactTokens ==
    ASSUME NEW S, NEW prev \in Seq(Seq(S)), NEW new \in Seq(Seq(S)),
           NEW plan, plan = PlanIncremental(prev, new, "exact"),
           NEW c, c = CommonPrefixLen(prev, new)
    PROVE  /\ TokensOf(plan, "reuse_exact") = Offset(new, c + 1)
           /\ TokensOf(plan, "recompute") = Len(Tokens(new)) - Offset(new, c + 1)
<1>1. c \in Nat /\ c <= Len(new) /\ Len(new) \in Nat
  BY CommonPrefix, LenProperties
<1>2. /\ DOMAIN plan = 1 .. Len(new)
      /\ \A i \in 1 .. Len(new) :
            /\ plan[i].segment = new[i]
            /\ i <= c => plan[i].action = "reuse_exact"
            /\ i > c => plan[i].action = "recompute"
  BY ExactActions
<1>3. \A i \in 1 .. Len(new) : new[i] \in Seq(S) /\ Len(new[i]) \in Nat
                               /\ Offset(new, i + 1) = Offset(new, i) + Len(new[i])
  BY Offsets
<1>4. \A i \in 1 .. Len(new) + 1 : Offset(new, i) \in Nat
  BY Offsets
<1>5. Offset(new, 1) = 0 /\ Offset(new, Len(new) + 1) = Len(Tokens(new))
  BY Offsets
<1>6. << >> \in Seq(S) /\ Len(<< >>) = 0
  BY EmptySeq
<1>7. TokensOf(plan, "reuse_exact") = Offset(new, c + 1)
  <2>1. PICK q : q = [i \in 1 .. Len(new) |->
                        IF plan[i].action = "reuse_exact" THEN plan[i].segment ELSE << >>]
    OBVIOUS
  <2>2. ASSUME NEW i \in 1 .. Len(new) PROVE q[i] = IF i <= c THEN new[i] ELSE << >>
    <3>1. CASE i <= c
      BY <1>2, <2>1, <3>1
    <3>2. CASE ~(i <= c)
      <4>1. i > c
        BY <1>1, <3>2
      <4>2. plan[i].action = "recompute"
        BY <1>2, <4>1
      <4> QED BY <2>1, <3>2, <4>2
    <3> QED BY <3>1, <3>2
  <2>3. q \in Seq(Seq(S)) /\ Len(q) = Len(new)
    <3>1. \A i \in 1 .. Len(new) : q[i] \in Seq(S)
      BY <2>2, <1>3, <1>6
    <3>2. q \in [1 .. Len(new) -> Seq(S)]
      BY <2>1, <3>1
    <3> QED BY <1>1, <3>2, FunctionIsSeq
  <2>4. PICK F : F = [i \in 0 .. Len(new) |-> IF i <= c THEN Offset(new, i + 1) ELSE Offset(new, c + 1)]
    OBVIOUS
  <2>5. F[0] = 0 /\ F[Len(new)] = Offset(new, c + 1)
    <3>1. 0 \in 0 .. Len(new) /\ Len(new) \in 0 .. Len(new) /\ 0 <= c /\ 0 + 1 = 1
      BY <1>1
    <3>2. Len(new) <= c => Len(new) = c
      BY <1>1
    <3> QED BY <1>5, <2>4, <3>1, <3>2
  <2>6. ASSUME NEW i \in 1 .. Len(q) PROVE F[i] = F[i - 1] + Len(q[i])
    <3>1. /\ i \in 1 .. Len(new) /\ i \in 0 .. Len(new) /\ i - 1 \in 0 .. Len(new)
          /\ (i - 1) + 1 = i /\ c + 1 \in 1 .. Len(new) + 1
      BY <1>1, <2>3
    <3>2. CASE i <= c
      <4>1. i - 1 <= c
        BY <1>1, <3>1, <3>2
      <4>2. F[i] = Offset(new, i + 1) /\ F[i - 1] = Offset(new, i)
        BY <2>4, <3>1, <3>2, <4>1
      <4> QED BY <1>3, <2>2, <3>1, <3>2, <4>2
    <3>3. CASE i > c
      <4>1. i - 1 <= c => i - 1 = c
        BY <1>1, <3>1, <3>3
      <4>2. ~(i <= c)
        BY <1>1, <3>1, <3>3
      <4>3. F[i] = Offset(new, c + 1) /\ F[i - 1] = Offset(new, c + 1)
        BY <2>4, <3>1, <4>1, <4>2
      <4>4. Len(q[i]) = 0
        BY <1>6, <2>2, <3>1, <4>2
      <4>5. Offset(new, c + 1) \in Nat
        BY <1>4, <3>1
      <4> QED BY <4>3, <4>4, <4>5
    <3> QED BY <1>1, <3>1, <3>2, <3>3
  <2>7. Len(Tokens(q)) = Offset(new, c + 1)
    BY <2>3, <2>5, <2>6, TokensAddUp
  <2> QED BY <1>2, <2>1, <2>7 DEF TokensOf
<1>8. TokensOf(plan, "recompute") = Len(Tokens(new)) - Offset(new, c + 1)
  <2>1. PICK q : q = [i \in 1 .. Len(new) |->
                        IF plan[i].action = "recompute" THEN plan[i].segment ELSE << >>]
    OBVIOUS
  <2>2. ASSUME NEW i \in 1 .. Len(new) PROVE q[i] = IF i <= c THEN << >> ELSE new[i]
    <3>1. CASE i <= c
      BY <1>2, <2>1, <3>1
    <3>2. CASE ~(i <= c)
      <4>1. plan[i].action = "recompute"
        BY <1>1, <1>2, <3>2
      <4> QED BY <1>2, <2>1, <3>2, <4>1
    <3> QED BY <3>1, <3>2
  <2>3. q \in Seq(Seq(S)) /\ Len(q) = Len(new)
    <3>1. \A i \in 1 .. Len(new) : q[i] \in Seq(S)
      BY <2>2, <1>3, <1>6
    <3>2. q \in [1 .. Len(new) -> Seq(S)]
      BY <2>1, <3>1
    <3> QED BY <1>1, <3>2, FunctionIsSeq
  <2>4. PICK F : F = [i \in 0 .. Len(new) |->
                        IF i <= c THEN 0 ELSE Offset(new, i + 1) - Offset(new, c + 1)]
    OBVIOUS
  <2>0. Offset(new, c + 1) \in Nat
    <3>1. c + 1 \in 1 .. Len(new) + 1
      BY <1>1
    <3> QED BY <1>4, <3>1
  <2>5. F[0] = 0 /\ F[Len(new)] = Offset(new, Len(new) + 1) - Offset(new, c + 1)
    <3>1. 0 \in 0 .. Len(new) /\ Len(new) \in 0 .. Len(new) /\ 0 <= c
      BY <1>1
    <3>2. Len(new) <= c => Len(new) = c
      BY <1>1
    <3>3. Offset(new, c + 1) - Offset(new, c + 1) = 0
      BY <2>0
    <3> QED BY <2>4, <3>1, <3>2, <3>3
  <2>6. ASSUME NEW i \in 1 .. Len(q) PROVE F[i] = F[i - 1] + Len(q[i])
    <3>1. /\ i \in 1 .. Len(new) /\ i \in 0 .. Len(new) /\ i - 1 \in 0 .. Len(new)
          /\ (i - 1) + 1 = i /\ i \in 1 .. Len(new) + 1 /\ i + 1 \in 1 .. Len(new) + 1
      BY <1>1, <2>3
    <3>2. CASE i <= c
      <4>1. i - 1 <= c
        BY <1>1, <3>1, <3>2
      <4>2. F[i] = 0 /\ F[i - 1] = 0
        BY <2>4, <3>1, <3>2, <4>1
      <4> QED BY <1>6, <2>2, <3>1, <3>2, <4>2
    <3>3. CASE i > c
      <4>2. ~(i <= c)
        BY <1>1, <3>1, <3>3
      <4>3. F[i] = Offset(new, i + 1) - Offset(new, c + 1)
        BY <2>4, <3>1, <4>2
      <4>4. F[i - 1] = Offset(new, i) - Offset(new, c + 1)
        <5>1. CASE i - 1 <= c
          <6>1. i = c + 1
            BY <1>1, <3>1, <3>3, <5>1
          <6>2. F[i - 1] = 0
            BY <2>4, <3>1, <5>1
          <6> QED BY <2>0, <6>1, <6>2
        <5>2. CASE ~(i - 1 <= c)
          BY <2>4, <3>1, <5>2
        <5> QED BY <5>1, <5>2
      <4>5. /\ Offset(new, i) \in Nat /\ Len(new[i]) \in Nat
            /\ Offset(new, i + 1) = Offset(new, i) + Len(new[i])
        BY <1>3, <1>4, <3>1
      <4>6. Len(q[i]) = Len(new[i])
        BY <2>2, <3>1, <4>2
      <4>7. PICK o, a, b, d : o = Offset(new, c + 1) /\ a = Offset(new, i) /\ b = Offset(new, i + 1)
                              /\ d = Len(new[i])
        OBVIOUS
      <4>8. b - o = (a - o) + d
        BY <2>0, <4>5, <4>7
      <4> QED BY <4>3, <4>4, <4>6, <4>7, <4>8
    <3> QED BY <1>1, <3>1, <3>2, <3>3
  <2>7. Len(Tokens(q)) = Offset(new, Len(new) + 1) - Offset(new, c + 1)
    BY <2>3, <2>5, <2>6, TokensAddUp
  <2> QED BY <1>2, <1>5, <2>1, <2>7 DEF TokensOf
<1> QED BY <1>7, <1>8

(* RecomputeRanges is the last of the range lists its loop goes through *)
MergesAlong(f, plan) ==
    /\ f = [i \in 0 .. Len(plan) |-> f[i]]
    /\ f[0] = << >>
    /\ \A i \in 1 .. Len(plan) :
          f[i] = IF plan[i].action = "recompute" THEN MergeRange(f[i - 1], plan[i].span)
                 ELSE f[i - 1]

LEMMA RangesAre ==
    ASSUME NEW plan, Len(plan) \in Nat, NEW f, MergesAlong(f, plan)
    PROVE  RecomputeRanges(plan) = f[Len(plan)]
<1> DEFINE n == Len(plan)
           body(g) == [i \in 0 .. n |->
               IF i = 0 THEN << >>
               ELSE IF plan[i].action = "recompute" THEN MergeRange(g[i - 1], plan[i].span)
               ELSE g[i - 1]]
<1>1. PICK g : g = CHOOSE h : h = body(h)
  OBVIOUS
<1>2. ASSUME NEW i \in 0 .. n
      PROVE  f[i] = IF i = 0 THEN << >>
                    ELSE IF plan[i].action = "recompute" THEN MergeRange(f[i - 1], plan[i].span)
                    ELSE f[i - 1]
  <2>1. CASE i = 0
    BY <2>1 DEF MergesAlong
  <2>2. CASE i # 0
    <3>1. i \in 1 .. n
      BY <2>2
    <3>2. f[i] = IF plan[i].action = "recompute" THEN MergeRange(f[i - 1], plan[i].span)
                 ELSE f[i - 1]
      BY <3>1 DEF MergesAlong
    <3> QED BY <2>2, <3>2
  <2> QED BY <2>1, <2>2
<1>3. f = body(f)
  BY <1>2 DEF MergesAlong
<1>4. g = body(g)
  BY <1>1, <1>3
<1>5. RecomputeRanges(plan) = g[n]
  BY <1>1 DEF RecomputeRanges
<1> DEFINE T == {i \in 0 .. n : g[i] = f[i]}
<1>6. 0 \in T
  BY <1>4 DEF MergesAlong
<1>7. ASSUME NEW i \in 1 .. n, i - 1 \in T PROVE i \in T
  <2>1. i \in 0 .. n /\ i # 0
    OBVIOUS
  <2>2. g[i] = IF plan[i].action = "recompute" THEN MergeRange(g[i - 1], plan[i].span)
               ELSE g[i - 1]
    BY <1>4, <2>1
  <2>3. g[i - 1] = f[i - 1]
    BY <1>7
  <2>4. g[i] = f[i]
    BY <2>2, <2>3 DEF MergesAlong
  <2> QED BY <2>1, <2>4
<1>8. n \in T
  <2>1. \A i \in 1 .. n : i - 1 \in T => i \in T
    BY <1>7
  <2>2. n \in Nat /\ n \in 0 .. n
    OBVIOUS
  <2> HIDE DEF T, n
  <2> QED BY <1>6, <2>1, <2>2, UpTo
<1> QED BY <1>5, <1>8

(* The first range to recompute, and one that it touches *)
LEMMA MergeRanges ==
    ASSUME NEW a \in Nat, NEW b \in Nat, NEW r \in Nat \X Nat, r[1] <= b, b <= r[2]
    PROVE  /\ MergeRange(<< >>, r) = <<<<r[1], r[2]>>>>
           /\ r[1] = b => MergeRange(<<<<a, b>>>>, r) = <<<<a, r[2]>>>>
<1>1. MergeRange(<< >>, r) = <<<<r[1], r[2]>>>>
  <2>1. MergeRange(<< >>, r) = Append(<< >>, r)
    BY DEF MergeRange
  <2>2. r = <<r[1], r[2]>>
    OBVIOUS
  <2> QED BY <2>1, <2>2
<1>2. ASSUME r[1] = b PROVE MergeRange(<<<<a, b>>>>, r) = <<<<a, r[2]>>>>
  <2>1. PICK m : m = <<<<a, b>>>>
    OBVIOUS
  <2>2. /\ Len(m) = 1 /\ m # << >> /\ m[1][1] = a /\ m[1][2] = b /\ Last(m)[2] = b
    BY <2>1 DEF Last
  <2>3. Max({b, r[2]}) = r[2]
    BY MaxOfTwo
  <2>4. MergeRange(m, r) = [m EXCEPT ![1] = <<a, r[2]>>]
    <3>1. r[1] <= Last(m)[2]
      BY <1>2, <2>2
    <3>2. MergeRange(m, r) = [m EXCEPT ![1] = <<m[1][1], Max({m[1][2], r[2]})>>]
      BY <2>2, <3>1 DEF MergeRange
    <3> QED BY <2>2, <2>3, <3>2
  <2>5. [m EXCEPT ![1] = <<a, r[2]>>] = <<<<a, r[2]>>>>
    BY <2>1
  <2> QED BY <2>1, <2>4, <2>5
<1> QED BY <1>1, <1>2

(* What an exact plan recomputes is one range: from the end of the common  *)
(* prefix to the end of the context                                        *)
LEMMA ExactRanges ==
    ASSUME NEW S, NEW prev \in Seq(Seq(S)), NEW new \in Seq(Seq(S)),
           NEW plan, plan = PlanIncremental(prev, new, "exact"),
           NEW c, c = CommonPrefixLen(prev, new)
    PROVE  RecomputeRanges(plan)
             = IF Len(new) <= c THEN << >> ELSE <<<<Offset(new, c + 1), Len(Tokens(new))>>>>
<1>1. c \in Nat /\ c <= Len(new) /\ Len(new) \in Nat
  BY CommonPrefix, LenProperties
<1>2. /\ Len(plan) = Len(new)
      /\ \A i \in 1 .. Len(new) :
            /\ plan[i].span \in Nat \X Nat
            /\ plan[i].span[1] = Offset(new, i) /\ plan[i].span[2] = Offset(new, i + 1)
            /\ i <= c => plan[i].action = "reuse_exact"
            /\ i > c => plan[i].action = "recompute"
  BY ExactActions
<1>3. /\ Offset(new, Len(new) + 1) = Len(Tokens(new))
      /\ \A i \in 1 .. Len(new) + 1 : Offset(new, i) \in Nat
      /\ \A i \in 1 .. Len(new) : Len(new[i]) \in Nat /\ Offset(new, i + 1) = Offset(new, i) + Len(new[i])
  BY Offsets
<1>4. PICK f : f = [i \in 0 .. Len(new) |->
                      IF i <= c THEN << >> ELSE <<<<Offset(new, c + 1), Offset(new, i + 1)>>>>]
  OBVIOUS
<1>5. f = [i \in 0 .. Len(new) |-> f[i]] /\ f[0] = << >>
  BY <1>1, <1>4
<1>6. ASSUME NEW i \in 1 .. Len(new)
      PROVE  f[i] = IF plan[i].action = "recompute" THEN MergeRange(f[i - 1], plan[i].span)
                    ELSE f[i - 1]
  <2>1. /\ i \in 0 .. Len(new) /\ i - 1 \in 0 .. Len(new) /\ (i - 1) + 1 = i
        /\ i \in 1 .. Len(new) + 1 /\ i + 1 \in 1 .. Len(new) + 1 /\ c + 1 \in 1 .. Len(new) + 1
    BY <1>1
  <2>2. CASE i <= c
    <3>1. i - 1 <= c
      BY <1>1, <2>1, <2>2
    <3>2. f[i] = << >> /\ f[i - 1] = << >>
      BY <1>4, <2>1, <2>2, <3>1
    <3>3. plan[i].action # "recompute"
      BY <1>2, <2>2
    <3> QED BY <3>2, <3>3
  <2>3. CASE i > c
    <3>1. ~(i <= c)
      BY <1>1, <2>1, <2>3
    <3>2. f[i] = <<<<Offset(new, c + 1), Offset(new, i + 1)>>>>
      BY <1>4, <2>1, <3>1
    <3>3. PICK r, a, b : r = plan[i].span /\ a = Offset(new, c + 1) /\ b = Offset(new, i)
      OBVIOUS
    <3>4. /\ r \in Nat \X Nat /\ a \in Nat /\ b \in Nat
          /\ r[1] = b /\ r[2] = Offset(new, i + 1)
      BY <1>2, <1>3, <2>1, <3>3
    <3>5. r[2] = b + Len(new[i]) /\ Len(new[i]) \in Nat
      BY <1>3, <3>3, <3>4
    <3>6. r[1] <= b /\ b <= r[2]
      BY <3>4, <3>5
    <3>7. MergeRange(<< >>, r) = <<<<r[1], r[2]>>>> /\ MergeRange(<<<<a, b>>>>, r) = <<<<a, r[2]>>>>
      BY <3>4, <3>6, MergeRanges
    <3>8. MergeRange(f[i - 1], r) = f[i]
      <4>1. CASE i - 1 <= c
        <5>1. i = c + 1
          BY <1>1, <2>1, <2>3, <4>1
        <5>2. f[i - 1] = << >>
          BY <1>4, <2>1, <4>1
        <5> QED BY <5>1, <5>2, <3>2, <3>3, <3>4, <3>7
      <4>2. CASE ~(i - 1 <= c)
        <5>1. f[i - 1] = <<<<a, b>>>>
          BY <1>4, <2>1, <4>2, <3>3
        <5> QED BY <5>1, <3>2, <3>3, <3>4, <3>7
      <4> QED BY <4>1, <4>2
    <3>9. plan[i].action = "recompute"
      BY <1>2, <2>3
    <3> QED BY <3>3, <3>8, <3>9
  <2> QED BY <1>1, <2>1, <2>2, <2>3
<1>7. RecomputeRanges(plan) = f[Len(new)]
  <2>1. MergesAlong(f, plan)
    BY <1>2, <1>5, <1>6 DEF MergesAlong
  <2> QED BY <1>1, <1>2, <2>1, RangesAre
<1>8. Len(new) \in 0 .. Len(new)
  BY <1>1
<1> QED BY <1>3, <1>4, <1>7, <1>8

(* The tokens of the rest of a context are the rest of its tokens *)
LEMMA TailTokens ==
    ASSUME NEW S, NEW ctx \in Seq(Seq(S)), NEW n \in 0 .. Len(ctx)
    PROVE  /\ Len(Tokens(SubSeq(ctx, 1, n))) = Offset(ctx, n + 1)
           /\ Tokens(SubSeq(ctx, n + 1, Len(ctx)))
                = SubSeq(Tokens(ctx), Offset(ctx, n + 1) + 1, Len(Tokens(ctx)))
<1>1. PICK h, t, w : /\ h = Tokens(SubSeq(ctx, 1, n))
                     /\ t = Tokens(SubSeq(ctx, n + 1, Len(ctx)))
                     /\ w = Tokens(ctx)
  OBVIOUS
<1>2. h \in Seq(S) /\ t \in Seq(S) /\ w = h \o t
  BY <1>1, TokensSplit
<1>3. /\ Len(h) \in Nat /\ Len(t) \in Nat /\ Len(w) = Len(h) + Len(t)
      /\ \A i \in 1 .. Len(h) + Len(t) : w[i] = IF i <= Len(h) THEN h[i] ELSE t[i - Len(h)]
  BY <1>2, ConcatProperties, LenProperties
<1>4. Len(h) = Offset(ctx, n + 1)
  <2>1. (n + 1) - 1 = n
    OBVIOUS
  <2> QED BY <1>1, <2>1 DEF Offset
<1>5. PICK u : u = SubSeq(w, Len(h) + 1, Len(w))
  OBVIOUS
<1>6. \A i \in Len(h) + 1 .. Len(w) : w[i] \in S
  <2>1. w \in Seq(S)
    BY <1>2, ConcatProperties
  <2>2. \A i \in Len(h) + 1 .. Len(w) : i \in 1 .. Len(w)
    BY <1>3
  <2> QED BY <2>1, <2>2, ElementOfSeq
<1>7. PICK lo, hi : lo = Len(h) + 1 /\ hi = Len(w)
  OBVIOUS
<1>8. lo \in Int /\ hi \in Int /\ hi - lo + 1 = Len(t) /\ (lo <= hi <=> Len(t) > 0)
  BY <1>3, <1>7
<1>9. /\ u \in Seq(S) /\ Len(u) = IF lo <= hi THEN hi - lo + 1 ELSE 0
      /\ \A i \in 1 .. hi - lo + 1 : u[i] = w[lo + i - 1]
  BY <1>5, <1>6, <1>7, <1>8, SubSeqProperties
<1>10. Len(u) = Len(t)
  BY <1>3, <1>8, <1>9
<1>11. ASSUME NEW i \in 1 .. Len(u) PROVE u[i] = t[i]
  <2>1. /\ lo + i - 1 = Len(h) + i /\ Len(h) + i \in 1 .. Len(h) + Len(t)
        /\ ~(Len(h) + i <= Len(h)) /\ (Len(h) + i) - Len(h) = i
    BY <1>3, <1>7, <1>10
  <2>2. w[Len(h) + i] = t[i]
    BY <1>3, <2>1
  <2> QED BY <1>8, <1>9, <1>10, <2>1, <2>2
<1>12. u = t
  BY <1>2, <1>9, <1>10, <1>11, SeqEqual
<1> QED BY <1>1, <1>4, <1>5, <1>12

LEMMA SubSeqIn ==
    ASSUME NEW S, NEW s \in Seq(S), NEW m \in Nat, NEW n \in 0 .. Len(s), m >= 1
    PROVE  /\ SubSeq(s, m, n) \in Seq(S)
           /\ Len(SubSeq(s, m, n)) = IF m <= n THEN n - m + 1 ELSE 0
           /\ \A i \in 1 .. n - m + 1 : SubSeq(s, m, n)[i] = s[m + i - 1]
<1>1. \A i \in m .. n : s[i] \in S
  <2>1. Len(s) \in Nat
    BY LenProperties
  <2>2. \A i \in m .. n : i \in 1 .. Len(s)
    BY <2>1
  <2> QED BY <2>2, ElementOfSeq
<1>2. m \in Int /\ n \in Int
  BY LenProperties
<1> QED BY <1>1, <1>2, SubSeqProperties

(* What an exact plan re-uses is the leading tokens of both contexts *)
LEMMA ExactPrefix ==
    ASSUME NEW S, NEW prev \in Seq(Seq(S)), NEW new \in Seq(Seq(S)),
           NEW r, r = TokensOf(PlanIncremental(prev, new, "exact"), "reuse_exact")
    PROVE  /\ r \in Nat /\ r <= Len(Tokens(prev)) /\ r <= Len(Tokens(new))
           /\ SameStart(prev, new, r)
<1>1. PICK c : c = CommonPrefixLen(prev, new)
  OBVIOUS
<1>2. /\ c \in Nat /\ c <= Len(prev) /\ c <= Len(new)
      /\ \A i \in 1 .. c : prev[i] = new[i]
  BY <1>1, CommonPrefix
<1>3. r = Offset(new, c + 1)
  BY <1>1, ExactTokens
<1>4. Len(prev) \in Nat /\ Len(new) \in Nat
  BY LenProperties
<1>5. c + 1 \in 1 .. c + 1 /\ c + 1 \in 1 .. Len(prev) + 1 /\ c + 1 \in 1 .. Len(new) + 1
  BY <1>2, <1>4
<1>6. Offset(prev, c + 1) = Offset(new, c + 1)
  BY <1>2, <1>5, SameHead
<1>7. Offset(new, c + 1) \in Nat /\ Offset(new, c + 1) <= Len(Tokens(new))
  BY <1>5, Offsets
<1>8. Offset(prev, c + 1) <= Len(Tokens(prev))
  BY <1>5, Offsets
<1>9. SameStart(prev, new, Offset(new, c + 1))
  BY <1>2, SameHead
<1> QED BY <1>3, <1>6, <1>7, <1>8, <1>9
=============================================================================
