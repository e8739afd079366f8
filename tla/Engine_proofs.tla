---------------------------- MODULE Engine_proofs ----------------------------
(***************************************************************************)
(* Theorems of Engine.                                                     *)
(***************************************************************************)
EXTENDS Engine, SegmentPlan_proofs

-----------------------------------------------------------------------------
(* Sequences as functions.  A column holds the columns before it, so no    *)
(* set is at hand that all columns are members of; what follows speaks of  *)
(* the length of a sequence and of its elements alone.                     *)

Long(s, n) == n \in Nat /\ s = [i \in 1 .. n |-> s[i]]

(* Equations between sequences, named so that a lemma about them is cited  *)
(* as it stands                                                            *)
Appended(a, s, e) == a = Append(s, e)
Put(c, s, t) == c = s \o t
Cut(u, s, a, b) == u = SubSeq(s, a, b)

LEMMA LongIsSeq ==
    ASSUME NEW s, NEW n, Long(s, n)
    PROVE  /\ s \in Seq({s[i] : i \in 1 .. n}) /\ Len(s) = n /\ DOMAIN s = 1 .. n
           /\ n = 0 => s = << >>
<1> DEFINE S == {s[i] : i \in 1 .. n}
<1>1. n \in Nat /\ s = [i \in 1 .. n |-> s[i]]
  BY DEF Long
<1>2. s \in [1 .. n -> S]
  BY <1>1
<1>3. s \in Seq(S) /\ Len(s) = n
  <2> HIDE DEF S
  <2> QED BY <1>1, <1>2, FunctionIsSeq
<1>4. n = 0 => s = << >>
  <2> HIDE DEF S
  <2> QED BY <1>3, EmptySeq
<1> QED BY <1>1, <1>3, <1>4

LEMMA EmptyLong == Long(<< >>, 0) /\ Len(<< >>) = 0
<1>1. << >> \in Seq({}) /\ Len(<< >>) = 0
  BY EmptySeq
<1> QED BY <1>1, LenProperties DEF Long

LEMMA SeqIsLong ==
    ASSUME NEW S, NEW s \in Seq(S)
    PROVE  Long(s, Len(s)) /\ \A i \in 1 .. Len(s) : s[i] \in S
BY LenProperties, ElementOfSeq DEF Long

(* Sequences of one length with the same elements are equal *)
LEMMA SameSeq ==
    ASSUME NEW s, NEW t, NEW n, Long(s, n), Long(t, n), \A i \in 1 .. n : s[i] = t[i]
    PROVE  s = t
<1>1. s = [i \in 1 .. n |-> s[i]] /\ t = [i \in 1 .. n |-> t[i]]
  BY DEF Long
<1>2. [i \in 1 .. n |-> s[i]] = [i \in 1 .. n |-> t[i]]
  OBVIOUS
<1> QED BY <1>1, <1>2

LEMMA LongAppend ==
    ASSUME NEW s, NEW n \in Nat, Long(s, n), NEW e, NEW a, Appended(a, s, e)
    PROVE  /\ Long(a, n + 1) /\ a[n + 1] = e
           /\ \A i \in 1 .. n : a[i] = s[i]
<1> DEFINE S == {s[i] : i \in 1 .. n} \cup {e}
<1>1. s \in Seq({s[i] : i \in 1 .. n}) /\ Len(s) = n
  BY LongIsSeq
<1>2. s \in Seq(S) /\ e \in S
  <2>1. {s[i] : i \in 1 .. n} \subseteq S
    OBVIOUS
  <2> QED BY <1>1, <2>1, SeqMonotonic
<1> HIDE DEF S
<1>3. /\ a \in Seq(S) /\ Len(a) = n + 1 /\ a[n + 1] = e
      /\ \A i \in 1 .. n : a[i] = s[i]
  BY <1>1, <1>2, AppendProperties DEF Appended
<1>4. Long(a, n + 1)
  BY <1>3, SeqIsLong
<1> QED BY <1>3, <1>4

LEMMA LongConcat ==
    ASSUME NEW s, NEW m \in Nat, Long(s, m), NEW t, NEW n \in Nat, Long(t, n),
           NEW c, Put(c, s, t)
    PROVE  /\ Long(c, m + n)
           /\ \A i \in 1 .. m : c[i] = s[i]
           /\ \A i \in 1 .. n : c[m + i] = t[i]
<1> DEFINE A == {s[i] : i \in 1 .. m}
           B == {t[i] : i \in 1 .. n}
           S == A \cup B
<1>1. s \in Seq(A) /\ t \in Seq(B) /\ Len(s) = m /\ Len(t) = n
  BY LongIsSeq
<1>2. A \subseteq S /\ B \subseteq S
  OBVIOUS
<1> HIDE DEF S, A, B
<1>3. s \in Seq(S) /\ t \in Seq(S)
  BY <1>1, <1>2, SeqMonotonic
<1>5. /\ c \in Seq(S) /\ Len(c) = m + n
      /\ \A i \in 1 .. m + n : c[i] = IF i <= m THEN s[i] ELSE t[i - m]
  BY <1>1, <1>3, ConcatProperties DEF Put
<1>6. Long(c, m + n)
  BY <1>5, SeqIsLong
<1>7. \A i \in 1 .. m : c[i] = s[i]
  BY <1>5
<1>8. ASSUME NEW i \in 1 .. n PROVE c[m + i] = t[i]
  <2>1. m + i \in 1 .. m + n /\ ~(m + i <= m) /\ (m + i) - m = i
    OBVIOUS
  <2> QED BY <1>5, <2>1
<1> QED BY <1>6, <1>7, <1>8

LEMMA LongSubSeq ==
    ASSUME NEW s, NEW n \in Nat, Long(s, n), NEW a \in Nat \ {0}, NEW b \in Nat, b <= n, a <= b + 1,
           NEW u, Cut(u, s, a, b), NEW l \in Nat, l = b - a + 1
    PROVE  Long(u, l) /\ \A i \in 1 .. l : u[i] = s[a + i - 1]
<1> DEFINE S == {s[i] : i \in 1 .. n}
<1>1. \A i \in a .. b : s[i] \in S
  OBVIOUS
<1> HIDE DEF S
<1>3. /\ u \in Seq(S) /\ Len(u) = IF a <= b THEN b - a + 1 ELSE 0
      /\ \A i \in 1 .. b - a + 1 : u[i] = s[a + i - 1]
  BY <1>1, SubSeqProperties DEF Cut
<1>4. Len(u) = l
  BY <1>3
<1>5. Long(u, l)
  BY <1>3, <1>4, SeqIsLong
<1> QED BY <1>3, <1>5

(* The first m elements *)
LEMMA LongPrefix ==
    ASSUME NEW s, NEW n \in Nat, Long(s, n), NEW m \in 0 .. n, NEW u, Cut(u, s, 1, m)
    PROVE  /\ Long(u, m)
           /\ \A i \in 1 .. m : u[i] = s[i]
           /\ m = n => u = s
<1>1. m \in Nat /\ m <= n /\ m - 1 + 1 = m /\ 1 <= m + 1 /\ 1 \in Nat \ {0}
  OBVIOUS
<1>3. Long(u, m) /\ \A i \in 1 .. m : u[i] = s[1 + i - 1]
  BY <1>1, LongSubSeq
<1>4. ASSUME NEW i \in 1 .. m PROVE u[i] = s[i]
  BY <1>1, <1>3
<1>5. Long(u, m)
  BY <1>1, <1>3
<1>6. m = n => u = s
  BY <1>4, <1>5, SameSeq
<1> QED BY <1>4, <1>5, <1>6

-----------------------------------------------------------------------------
(* Columns.  Forward is the last of the caches it goes through, each with  *)
(* one more column.                                                        *)

Grows(f, past, toks, start) ==
    /\ f[0] = past
    /\ \A i \in 1 .. Len(toks) : f[i] = Append(f[i - 1], Column(toks[i], start + i - 1, f[i - 1]))

LEMMA ForwardIs ==
    ASSUME NEW past, NEW toks, NEW start, Len(toks) \in Nat, NEW f, Grows(f, past, toks, start)
    PROVE  Forward(past, toks, start) = f[Len(toks)]
<1> DEFINE n == Len(toks)
           body(c) == [i \in 0 .. n |-> IF i = 0 THEN past
                         ELSE Append(c[i - 1], Column(toks[i], start + i - 1, c[i - 1]))]
<1>1. n \in Nat
  OBVIOUS
<1>2. PICK c : c = CHOOSE g : g = body(g)
  OBVIOUS
<1>3. \E g : g = body(g)
  <2>1. PICK g : g = [i \in 0 .. n |-> f[i]]
    OBVIOUS
  <2>2. ASSUME NEW i \in 0 .. n
        PROVE  g[i] = IF i = 0 THEN past
                      ELSE Append(g[i - 1], Column(toks[i], start + i - 1, g[i - 1]))
    <3>1. CASE i = 0
      BY <2>1, <3>1 DEF Grows
    <3>2. CASE i # 0
      <4>1. i \in 1 .. n /\ i - 1 \in 0 .. n
        BY <1>1, <3>2
      <4>2. g[i - 1] = f[i - 1] /\ g[i] = f[i]
        BY <2>1, <4>1
      <4>3. f[i] = Append(f[i - 1], Column(toks[i], start + i - 1, f[i - 1]))
        BY <4>1 DEF Grows
      <4> QED BY <3>2, <4>2, <4>3
    <3> QED BY <3>1, <3>2
  <2>3. g = body(g)
    BY <2>1, <2>2
  <2> QED BY <2>3
<1>4. c = body(c)
  BY <1>2, <1>3
<1>5. Forward(past, toks, start) = c[n]
  BY <1>2 DEF Forward
<1> DEFINE T == {i \in 0 .. n : c[i] = f[i]}
<1>6. 0 \in T
  <2>1. c[0] = past
    BY <1>1, <1>4
  <2> QED BY <1>1, <2>1 DEF Grows
<1>7. ASSUME NEW i \in 1 .. n, i - 1 \in T PROVE i \in T
  <2>1. c[i] = Append(c[i - 1], Column(toks[i], start + i - 1, c[i - 1]))
    <3>1. i \in 0 .. n /\ i # 0
      BY <1>1
    <3>2. c[i] = body(c)[i]
      BY <1>4
    <3> HIDE DEF n
    <3> QED BY <3>1, <3>2
  <2>2. f[i] = Append(f[i - 1], Column(toks[i], start + i - 1, f[i - 1]))
    BY DEF Grows
  <2>3. c[i - 1] = f[i - 1] /\ i \in 0 .. n
    BY <1>1, <1>7
  <2> QED BY <2>1, <2>2, <2>3
<1>8. n \in T
  <2>1. \A i \in 1 .. n : i - 1 \in T => i \in T
    BY <1>7
  <2>2. n \in 0 .. n
    BY <1>1
  <2> HIDE DEF T, n
  <2> QED BY <1>1, <1>6, <2>1, <2>2, UpTo
<1> QED BY <1>5, <1>8

LEMMA ForwardGrows ==
    ASSUME NEW past, NEW toks, NEW start, Len(toks) \in Nat
    PROVE  \E f : Grows(f, past, toks, start)
<1> DEFINE n == Len(toks)
           next(f, i) == Append(f[i - 1], Column(toks[i], start + i - 1, f[i - 1]))
           Upto(f, m) == f[0] = past /\ \A i \in 1 .. m : f[i] = next(f, i)
           T == {m \in 0 .. n : \E f : f = [i \in 0 .. m |-> f[i]] /\ Upto(f, m)}
<1>1. n \in Nat
  OBVIOUS
<1>2. 0 \in T
  <2>1. PICK f : f = [i \in 0 .. 0 |-> past]
    OBVIOUS
  <2>2. f[0] = past /\ f = [i \in 0 .. 0 |-> f[i]]
    BY <2>1
  <2>3. Upto(f, 0)
    BY <2>2
  <2> HIDE DEF Upto
  <2> QED BY <1>1, <2>2, <2>3
<1>3. ASSUME NEW m \in 1 .. n, m - 1 \in T PROVE m \in T
  <2>1. PICK f : f = [i \in 0 .. m - 1 |-> f[i]] /\ Upto(f, m - 1)
    BY <1>3
  <2>2. PICK g : g = [i \in 0 .. m |-> IF i = m THEN next(f, m) ELSE f[i]]
    OBVIOUS
  <2>3. \A i \in 0 .. m - 1 : g[i] = f[i]
    BY <1>1, <2>2
  <2>4. g[m] = next(f, m)
    BY <1>1, <2>2
  <2>5. ASSUME NEW i \in 1 .. m PROVE g[i] = next(g, i)
    <3>1. i - 1 \in 0 .. m - 1
      BY <1>1
    <3>2. g[i - 1] = f[i - 1]
      BY <2>3, <3>1
    <3>3. CASE i = m
      BY <2>4, <3>2, <3>3
    <3>4. CASE i # m
      <4>1. i \in 1 .. m - 1 /\ i \in 0 .. m - 1
        BY <1>1, <3>4
      <4>2. f[i] = next(f, i)
        BY <2>1, <4>1
      <4> QED BY <2>3, <3>2, <4>1, <4>2
    <3> QED BY <3>3, <3>4
  <2>6. g[0] = past
    <3>1. 0 \in 0 .. m - 1
      BY <1>1
    <3> QED BY <2>1, <2>3, <3>1
  <2>7. g = [i \in 0 .. m |-> g[i]]
    BY <2>2
  <2>8. Upto(g, m)
    BY <2>5, <2>6
  <2> HIDE DEF Upto
  <2>9. m \in 0 .. n
    BY <1>1
  <2> QED BY <2>7, <2>8, <2>9
<1>4. n \in T
  <2>1. \A i \in 1 .. n : i - 1 \in T => i \in T
    BY <1>3
  <2> HIDE DEF T, n
  <2> QED BY <1>1, <1>2, <2>1, UpTo
<1>5. PICK f : Upto(f, n)
  BY <1>4
<1> QED BY <1>5 DEF Grows

(* Each token is forwarded over the columns before it *)
Takes(f, past, toks, start, n) ==
    /\ f[0] = past
    /\ \A i \in 1 .. n : f[i] = Append(f[i - 1], Column(toks[i], start + i - 1, f[i - 1]))

Stands(f, past, l, toks, start, n) ==
    \A m \in 0 .. n :
        /\ Long(f[m], l + m)
        /\ \A k \in 1 .. l : f[m][k] = past[k]
        /\ \A k \in 1 .. m : f[m][l + k] = Column(toks[k], start + k - 1, f[k - 1])

LEMMA ForwardSteps ==
    ASSUME NEW past, NEW toks, NEW start, NEW n \in Nat, NEW l, Long(past, l),
           NEW f, Takes(f, past, toks, start, n)
    PROVE  Stands(f, past, l, toks, start, n)
<1> DEFINE Good(m) == /\ Long(f[m], l + m)
                      /\ \A k \in 1 .. l : f[m][k] = past[k]
                      /\ \A k \in 1 .. m : f[m][l + k] = Column(toks[k], start + k - 1, f[k - 1])
           T == {m \in 0 .. n : Good(m)}
<1>0. l \in Nat
  BY DEF Long
<1>1. 0 \in T
  <2>1. f[0] = past /\ l + 0 = l
    BY <1>0 DEF Takes
  <2> QED BY <2>1
<1>2. ASSUME NEW m \in 1 .. n, m - 1 \in T PROVE m \in T
  <2>1. PICK p : p = f[m - 1]
    OBVIOUS
  <2>2. PICK e : e = Column(toks[m], start + m - 1, p)
    OBVIOUS
  <2>3. f[m] = Append(p, e)
    BY <2>1, <2>2 DEF Takes
  <2>4. /\ Long(p, l + (m - 1)) /\ \A k \in 1 .. l : p[k] = past[k]
        /\ \A k \in 1 .. m - 1 : p[l + k] = Column(toks[k], start + k - 1, f[k - 1])
    BY <1>2, <2>1
  <2>5. PICK w \in Nat : w = l + (m - 1)
    BY <1>0
  <2>6. Long(p, w) /\ w + 1 = l + m
    BY <1>0, <2>4, <2>5
  <2>7. PICK q : q = f[m]
    OBVIOUS
  <2>8. /\ Long(q, w + 1) /\ q[w + 1] = e
        /\ \A i \in 1 .. w : q[i] = p[i]
    <3>1. Appended(q, p, e)
      BY <2>3, <2>7 DEF Appended
    <3> QED BY <2>6, <3>1, LongAppend
  <2>10. \A k \in 1 .. l : q[k] = past[k]
    <3>1. \A k \in 1 .. l : k \in 1 .. w
      BY <1>0, <2>5
    <3> QED BY <2>4, <2>8, <3>1
  <2>11. ASSUME NEW k \in 1 .. m PROVE q[l + k] = Column(toks[k], start + k - 1, f[k - 1])
    <3>1. CASE k = m
      BY <2>1, <2>2, <2>6, <2>8, <3>1
    <3>2. CASE k # m
      <4>1. k \in 1 .. m - 1 /\ l + k \in 1 .. w
        BY <1>0, <2>5, <3>2
      <4> QED BY <2>4, <2>8, <4>1
    <3> QED BY <3>1, <3>2
  <2>12. Long(q, l + m)
    BY <2>6, <2>8
  <2>9. Good(m)
    BY <2>7, <2>10, <2>11, <2>12
  <2> HIDE DEF Good
  <2> QED BY <2>9
<1>3. ASSUME NEW m \in 0 .. n PROVE m \in T
  <2>1. \A i \in 1 .. n : i - 1 \in T => i \in T
    BY <1>2
  <2> HIDE DEF T
  <2> QED BY <1>1, <2>1, UpTo
<1> QED BY <1>3 DEF Stands

(* What Forward gives: the columns it was given, then one for each token,  *)
(* over the columns before it.  A cache is determined by this.             *)
Follows(w, past, l, toks, n, start) ==
    /\ l \in Nat /\ n \in Nat
    /\ Long(w, l + n)
    /\ \A k \in 1 .. l : w[k] = past[k]
    /\ \A k \in 1 .. n : w[l + k] = Column(toks[k], start + k - 1, SubSeq(w, 1, l + k - 1))

(* Caches that begin with the same columns have equal prefixes *)
LEMMA SamePrefix ==
    ASSUME NEW v, NEW w, NEW a \in Nat, NEW b \in Nat, Long(v, a), Long(w, b),
           NEW m \in Nat, m <= a, m <= b, \A k \in 1 .. m : v[k] = w[k]
    PROVE  SubSeq(v, 1, m) = SubSeq(w, 1, m)
<1>1. PICK p, q : Cut(p, v, 1, m) /\ Cut(q, w, 1, m)
  BY DEF Cut
<1>2. Long(p, m) /\ \A k \in 1 .. m : p[k] = v[k]
  <2>1. m \in 0 .. a
    OBVIOUS
  <2> QED BY <1>1, <2>1, LongPrefix
<1>3. Long(q, m) /\ \A k \in 1 .. m : q[k] = w[k]
  <2>1. m \in 0 .. b
    OBVIOUS
  <2> QED BY <1>1, <2>1, LongPrefix
<1>4. \A k \in 1 .. m : p[k] = q[k]
  BY <1>2, <1>3
<1>5. p = q
  BY <1>2, <1>3, <1>4, SameSeq
<1> QED BY <1>1, <1>5 DEF Cut

LEMMA ForwardFollows ==
    ASSUME NEW past, NEW toks, NEW start, NEW n \in Nat, Len(toks) = n, NEW l, Long(past, l)
    PROVE  Follows(Forward(past, toks, start), past, l, toks, n, start)
<1>0. l \in Nat
  BY DEF Long
<1>1. PICK f : Grows(f, past, toks, start)
  BY ForwardGrows
<1>2. PICK w : w = f[n]
  OBVIOUS
<1>3. Forward(past, toks, start) = w
  <2>1. Forward(past, toks, start) = f[Len(toks)]
    BY <1>1, ForwardIs
  <2> QED BY <1>2, <2>1
<1>4. \A m \in 0 .. n :
         /\ Long(f[m], l + m)
         /\ \A k \in 1 .. l : f[m][k] = past[k]
         /\ \A k \in 1 .. m : f[m][l + k] = Column(toks[k], start + k - 1, f[k - 1])
  <2>1. Takes(f, past, toks, start, n)
    BY <1>1 DEF Grows, Takes
  <2>2. Stands(f, past, l, toks, start, n)
    BY <2>1, ForwardSteps
  <2> QED BY <2>2 DEF Stands
<1>5. n \in 0 .. n
  OBVIOUS
<1>6. ASSUME NEW k \in 1 .. n PROVE w[l + k] = Column(toks[k], start + k - 1, SubSeq(w, 1, l + k - 1))
  <2>1. PICK c, m : c = f[k - 1] /\ m = l + (k - 1)
    OBVIOUS
  <2>2. k - 1 \in 0 .. n /\ m \in Nat /\ m <= l + n /\ m = l + k - 1 /\ l + n \in Nat /\ m <= m
    BY <1>0, <2>1
  <2>3. Long(c, m) /\ Long(w, l + n)
    BY <1>2, <1>4, <1>5, <2>1, <2>2
  <2>4. ASSUME NEW i \in 1 .. m PROVE c[i] = w[i]
    <3>1. CASE i \in 1 .. l
      BY <1>2, <1>4, <1>5, <2>1, <2>2, <3>1
    <3>2. CASE i \notin 1 .. l
      <4>1. PICK j : j = i - l
        OBVIOUS
      <4>2. j \in 1 .. k - 1 /\ j \in 1 .. n /\ i = l + j
        BY <1>0, <2>1, <2>2, <3>2, <4>1
      <4>3. f[k - 1][l + j] = Column(toks[j], start + j - 1, f[j - 1])
        BY <1>4, <2>2, <4>2
      <4>4. f[n][l + j] = Column(toks[j], start + j - 1, f[j - 1])
        BY <1>4, <1>5, <4>2
      <4> QED BY <1>2, <2>1, <4>2, <4>3, <4>4
    <3> QED BY <3>1, <3>2
  <2>5. SubSeq(c, 1, m) = SubSeq(w, 1, m)
    BY <2>2, <2>3, <2>4, SamePrefix
  <2>6. SubSeq(c, 1, m) = c
    <3>1. PICK u : Cut(u, c, 1, m)
      BY DEF Cut
    <3>2. m \in 0 .. m
      BY <2>2
    <3>3. u = c
      BY <2>2, <2>3, <3>1, <3>2, LongPrefix
    <3> QED BY <3>1, <3>3 DEF Cut
  <2>7. w[l + k] = Column(toks[k], start + k - 1, f[k - 1])
    BY <1>2, <1>4, <1>5
  <2> QED BY <2>1, <2>2, <2>5, <2>6, <2>7
<1>7. Long(w, l + n) /\ \A k \in 1 .. l : w[k] = past[k]
  BY <1>2, <1>4, <1>5
<1> QED BY <1>0, <1>3, <1>6, <1>7 DEF Follows

LEMMA FollowsOne ==
    ASSUME NEW v, NEW w, NEW past, NEW l, NEW t, NEW u, NEW n, NEW start,
           Follows(v, past, l, t, n, start), Follows(w, past, l, u, n, start),
           \A k \in 1 .. n : t[k] = u[k]
    PROVE  v = w
<1>1. l \in Nat /\ n \in Nat /\ l + n \in Nat /\ Long(v, l + n) /\ Long(w, l + n)
  BY DEF Follows
<1> DEFINE T == {m \in 0 .. n : \A k \in 1 .. l + m : v[k] = w[k]}
<1>2. 0 \in T
  <2>1. \A k \in 1 .. l : v[k] = w[k]
    BY DEF Follows
  <2> QED BY <1>1, <2>1
<1>3. ASSUME NEW m \in 1 .. n, m - 1 \in T PROVE m \in T
  <2>1. PICK b : b = l + m - 1
    OBVIOUS
  <2>2. b \in Nat /\ b <= l + n /\ l + m = b + 1 /\ l + (m - 1) = b
    BY <1>1, <2>1
  <2>3. \A k \in 1 .. b : v[k] = w[k]
    BY <1>3, <2>2
  <2>4. SubSeq(v, 1, b) = SubSeq(w, 1, b)
    BY <1>1, <2>2, <2>3, SamePrefix
  <2>5. /\ v[l + m] = Column(t[m], start + m - 1, SubSeq(v, 1, b))
        /\ w[l + m] = Column(u[m], start + m - 1, SubSeq(w, 1, b))
    BY <2>1 DEF Follows
  <2>6. v[b + 1] = w[b + 1]
    BY <2>2, <2>4, <2>5
  <2>7. \A k \in 1 .. l + m : k \in 1 .. b \/ k = b + 1
    BY <2>2
  <2> QED BY <1>1, <2>3, <2>6, <2>7
<1>4. n \in T
  <2>1. \A i \in 1 .. n : i - 1 \in T => i \in T
    BY <1>3
  <2> HIDE DEF T
  <2> QED BY <1>1, <1>2, <2>1, UpTo
<1>5. \A k \in 1 .. l + n : v[k] = w[k]
  BY <1>4
<1> QED BY <1>1, <1>5, SameSeq

(* Tokens forwarded in two parts *)
InTwoParts(v, w, past, l, a, n, b, m, c, start, j, next) ==
    /\ Follows(w, past, l, a, n, start) /\ Follows(v, w, j, b, m, next)
    /\ Long(a, n) /\ Long(b, m) /\ Put(c, a, b)

LEMMA FollowsOn ==
    ASSUME NEW v, NEW w, NEW past, NEW l, NEW a, NEW n, NEW b, NEW m, NEW c, NEW start \in Int,
           NEW j, j = l + n, NEW next, next = start + n, InTwoParts(v, w, past, l, a, n, b, m, c, start, j, next)
    PROVE  Follows(v, past, l, c, n + m, start)
<1>0. /\ Follows(w, past, l, a, n, start) /\ Follows(v, w, j, b, m, next)
      /\ Long(a, n) /\ Long(b, m) /\ Put(c, a, b)
  BY DEF InTwoParts
<1>1. l \in Nat /\ n \in Nat /\ m \in Nat /\ Long(w, l + n) /\ Long(v, (l + n) + m)
      /\ Follows(v, w, l + n, b, m, next)
  BY <1>0 DEF Follows
<1>2. Long(v, l + (n + m))
  <2>1. l + (n + m) = (l + n) + m
    BY <1>1
  <2> QED BY <1>1, <2>1
<1>3. \A k \in 1 .. l + n : v[k] = w[k]
  BY <1>0, <1>1 DEF Follows
<1>4. \A k \in 1 .. l : v[k] = past[k]
  <2>1. \A k \in 1 .. l : w[k] = past[k] /\ k \in 1 .. l + n
    BY <1>0, <1>1 DEF Follows
  <2> QED BY <1>3, <2>1
<1>5. /\ \A i \in 1 .. n : c[i] = a[i]
      /\ \A i \in 1 .. m : c[n + i] = b[i]
  BY <1>0, <1>1, LongConcat
<1>6. ASSUME NEW k \in 1 .. n + m
      PROVE  v[l + k] = Column(c[k], start + k - 1, SubSeq(v, 1, l + k - 1))
  <2>1. CASE k \in 1 .. n
    <3>1. PICK i : i = l + k - 1
      OBVIOUS
    <3>2. /\ i \in Nat /\ i <= l + n /\ i <= (l + n) + m /\ l + k \in 1 .. l + n
          /\ l + n \in Nat /\ (l + n) + m \in Nat /\ \A x \in 1 .. i : x \in 1 .. l + n
      BY <1>1, <2>1, <3>1
    <3>3. \A x \in 1 .. i : v[x] = w[x]
      BY <1>3, <3>2
    <3>4. SubSeq(v, 1, i) = SubSeq(w, 1, i)
      BY <1>1, <3>2, <3>3, SamePrefix
    <3>5. w[l + k] = Column(a[k], start + k - 1, SubSeq(w, 1, i))
      BY <1>0, <2>1, <3>1 DEF Follows
    <3> QED BY <1>3, <1>5, <2>1, <3>1, <3>2, <3>4, <3>5
  <2>2. CASE k \notin 1 .. n
    <3>1. PICK x : x = k - n
      OBVIOUS
    <3>2. x \in 1 .. m /\ k = n + x /\ (l + n) + x = l + k /\ next + x - 1 = start + k - 1
          /\ (l + n) + x - 1 = l + k - 1 /\ c[n + x] = b[x]
      BY <1>1, <1>5, <2>2, <3>1
    <3>3. v[(l + n) + x] = Column(b[x], next + x - 1, SubSeq(v, 1, (l + n) + x - 1))
      BY <1>0, <1>1, <3>2 DEF Follows
    <3> QED BY <3>2, <3>3
  <2> QED BY <2>1, <2>2
<1> QED BY <1>1, <1>2, <1>4, <1>6 DEF Follows

(* The first columns are those of the first tokens *)
LEMMA FollowsCut ==
    ASSUME NEW w, NEW toks, NEW n, NEW start, Follows(w, << >>, 0, toks, n, start),
           NEW m \in 0 .. n, NEW u, Cut(u, w, 1, m)
    PROVE  Follows(u, << >>, 0, toks, m, start)
<1>1. n \in Nat /\ Long(w, n) /\ m \in Nat /\ 0 + m = m
  <2>1. n \in Nat /\ Long(w, 0 + n)
    BY DEF Follows
  <2> QED BY <2>1
<1>2. Long(u, m) /\ \A i \in 1 .. m : u[i] = w[i]
  BY <1>1, LongPrefix
<1>3. ASSUME NEW k \in 1 .. m PROVE u[0 + k] = Column(toks[k], start + k - 1, SubSeq(u, 1, 0 + k - 1))
  <2>1. /\ k - 1 \in Nat /\ k - 1 <= m /\ k - 1 <= n /\ 0 + k = k /\ 0 + k - 1 = k - 1
        /\ k \in 1 .. n /\ \A i \in 1 .. k - 1 : i \in 1 .. m
    BY <1>1
  <2>2. SubSeq(u, 1, k - 1) = SubSeq(w, 1, k - 1)
    BY <1>1, <1>2, <2>1, SamePrefix
  <2>3. w[k] = Column(toks[k], start + k - 1, SubSeq(w, 1, k - 1))
    <3>1. w[0 + k] = Column(toks[k], start + k - 1, SubSeq(w, 1, 0 + k - 1))
      BY <2>1 DEF Follows
    <3> QED BY <2>1, <3>1
  <2> QED BY <1>2, <2>1, <2>2, <2>3
<1>4. Long(u, 0 + m) /\ \A k \in 1 .. 0 : u[k] = << >>[k]
  BY <1>1, <1>2
<1> QED BY <1>1, <1>3, <1>4 DEF Follows

(* Columns that go on after a prefill of a with b: a prefill of both *)
LEMMA FollowsPrefill ==
    ASSUME NEW S, NEW a \in Seq(S), NEW b \in Seq(S), NEW n, n = Len(a), NEW c, Put(c, a, b),
           NEW w, w = Forward(<< >>, a, 0), NEW m, m = Len(b), NEW v, Follows(v, w, n, b, m, n)
    PROVE  v = Forward(<< >>, c, 0)
<1>1. n \in Nat /\ m \in Nat /\ Long(a, n) /\ Long(b, m) /\ Long(<< >>, 0)
  BY EmptyLong, SeqIsLong, LenProperties
<1>3. c \in Seq(S) /\ Len(c) = n + m /\ n + m \in Nat
  <2>1. c \in Seq(S) /\ Len(c) = Len(a) + Len(b)
    BY ConcatProperties DEF Put
  <2> QED BY <1>1, <2>1
<1>4. Follows(w, << >>, 0, a, n, 0)
  BY <1>1, ForwardFollows
<1>8. Follows(v, << >>, 0, c, n + m, 0)
  <2>1. PICK z : z = 0
    OBVIOUS
  <2>2. InTwoParts(v, w, << >>, z, a, n, b, m, c, z, n, n)
    BY <1>1, <1>4, <2>1 DEF InTwoParts
  <2>3. z \in Int /\ n = z + n
    BY <1>1, <2>1
  <2>4. Follows(v, << >>, z, c, n + m, z)
    BY <2>2, <2>3, FollowsOn
  <2> QED BY <2>1, <2>4
<1>9. Follows(Forward(<< >>, c, 0), << >>, 0, c, n + m, 0)
  BY <1>1, <1>3, ForwardFollows
<1> QED BY <1>8, <1>9, FollowsOne

LEMMA ForwardCut ==
    ASSUME NEW S, NEW a \in Seq(S), NEW m \in 0 .. Len(a), NEW w, w = Forward(<< >>, a, 0),
           NEW u, Cut(u, w, 1, m), NEW t, Cut(t, a, 1, m)
    PROVE  u = Forward(<< >>, t, 0) /\ t \in Seq(S) /\ Len(t) = m
<1>1. PICK n \in Nat : n = Len(a)
  BY LenProperties
<1>2. Long(a, n) /\ Long(<< >>, 0) /\ m \in Nat /\ m \in 0 .. n
  BY <1>1, EmptyLong, SeqIsLong
<1>3. Follows(w, << >>, 0, a, n, 0)
  BY <1>1, <1>2, ForwardFollows
<1>4. Follows(u, << >>, 0, a, m, 0)
  BY <1>2, <1>3, FollowsCut
<1>5. /\ t \in Seq(S) /\ Len(t) = m
      /\ \A i \in 1 .. m : t[i] = a[i]
  <2>1. Long(t, m) /\ \A i \in 1 .. m : t[i] = a[i]
    BY <1>2, LongPrefix
  <2>2. t \in Seq(S)
    BY SubSeqIn DEF Cut
  <2>3. Len(t) = m
    BY <2>1, LongIsSeq
  <2> QED BY <2>1, <2>2, <2>3
<1>6. Follows(Forward(<< >>, t, 0), << >>, 0, t, m, 0)
  BY <1>2, <1>5, ForwardFollows
<1>7. u = Forward(<< >>, t, 0)
  BY <1>4, <1>5, <1>6, FollowsOne
<1> QED BY <1>5, <1>7

LEMMA ArangeIs ==
    ASSUME NEW lo, NEW n \in Nat
    PROVE  Long(Arange(lo, n), n) /\ Len(Arange(lo, n)) = n
           /\ \A i \in 1 .. n : Arange(lo, n)[i] = lo + i - 1
<1>1. PICK p : p = Arange(lo, n)
  OBVIOUS
<1>2. Long(p, n) /\ \A i \in 1 .. n : p[i] = lo + i - 1
  BY <1>1 DEF Arange, Long
<1>3. Len(p) = n
  BY <1>2, LongIsSeq
<1> QED BY <1>1, <1>2, <1>3

LEMMA ArangeCut ==
    ASSUME NEW n \in Nat, NEW m \in 0 .. n, NEW u, Cut(u, Arange(0, n), 1, m)
    PROVE  u = Arange(0, m)
<1>1. PICK p, q : p = Arange(0, n) /\ q = Arange(0, m)
  OBVIOUS
<1>2. m \in Nat /\ Long(p, n) /\ Long(q, m) /\ \A i \in 1 .. m : p[i] = q[i]
  BY <1>1, ArangeIs
<1>3. Long(u, m) /\ \A i \in 1 .. m : u[i] = p[i]
  BY <1>1, <1>2, LongPrefix
<1>4. u = q
  BY <1>2, <1>3, SameSeq
<1> QED BY <1>1, <1>4

(* A prefill: a column for each token, at its position *)
LEMMA ForwardColumns ==
    ASSUME NEW S, NEW t \in Seq(S), NEW w, w = Forward(<< >>, t, 0), NEW n, n = Len(t)
    PROVE  /\ n \in Nat /\ Long(w, n) /\ Len(w) = n /\ DOMAIN w = 1 .. n
           /\ \A i \in 1 .. n : w[i].tok = t[i] /\ w[i].pos = i - 1
<1>1. n \in Nat /\ Long(<< >>, 0)
  BY EmptyLong, SeqIsLong, LenProperties
<1>2. Follows(w, << >>, 0, t, n, 0)
  BY <1>1, ForwardFollows
<1>3. Long(w, n)
  <2>1. Long(w, 0 + n) /\ 0 + n = n
    BY <1>1, <1>2 DEF Follows
  <2> QED BY <2>1
<1>4. ASSUME NEW i \in 1 .. n PROVE w[i].tok = t[i] /\ w[i].pos = i - 1
  <2>1. w[0 + i] = Column(t[i], 0 + i - 1, SubSeq(w, 1, 0 + i - 1)) /\ 0 + i = i
    BY <1>2 DEF Follows
  <2>2. PICK p : p = SubSeq(w, 1, 0 + i - 1)
    OBVIOUS
  <2>3. w[i] = [tok |-> t[i], pos |-> 0 + i - 1, past |-> p]
    BY <2>1, <2>2 DEF Column
  <2> QED BY <2>3
<1> QED BY <1>1, <1>3, <1>4, LongIsSeq

-----------------------------------------------------------------------------
(* The caches of the backends.  The instances of KVTypes and SegmentPlan   *)
(* inside them are the ones at hand.                                       *)

LEMMA SameTokens == ASSUME NEW x PROVE HF!Tokens(x) = Tokens(x)
<1>1. HF!FlattenSeq(x) = FlattenSeq(x)
  BY DEF HF!FlattenSeq, FlattenSeq
<1> QED BY <1>1 DEF HF!Tokens, Tokens

LEMMA SameForward ==
    ASSUME NEW p, NEW t, NEW s
    PROVE  HF!Forward(p, t, s) = Forward(p, t, s) /\ VL!Forward(p, t, s) = Forward(p, t, s)
BY DEF HF!Forward, VL!Forward, Forward, HF!Column, VL!Column, Column

LEMMA SameRecords ==
    ASSUME NEW c, NEW p, NEW t, NEW lo, NEW n
    PROVE  /\ HF!KVCache(c, p, t) = KVCache(c, p, t) /\ VL!KVCache(c, p, t) = KVCache(c, p, t)
           /\ FK!KVCache(c, p, t) = KVCache(c, p, t)
           /\ HF!Arange(lo, n) = Arange(lo, n) /\ VL!Arange(lo, n) = Arange(lo, n)
           /\ FK!Arange(lo, n) = Arange(lo, n)
BY DEF HF!KVCache, VL!KVCache, FK!KVCache, KVCache, HF!Arange, VL!Arange, FK!Arange, Arange

LEMMA SameLen == ASSUME NEW c PROVE HF!LogicalLen(c) = LogicalLen(c)
BY DEF HF!LogicalLen, LogicalLen

(* The columns a prefill of toks from position 0 gives *)
Cols(b, toks) ==
    IF b = "fake" THEN [i \in DOMAIN toks |-> Column(toks[i], 0, << >>)] ELSE Forward(<< >>, toks, 0)

RawOf(cols, toks) == KVCache(cols, Arange(0, Len(toks)), toks)

LEMMA PrefillIs ==
    ASSUME NEW b \in {"hf", "vllm", "fake"}, NEW toks
    PROVE  PrefillOf(b, toks, 0) = RawOf(Cols(b, toks), toks)
<1>1. CASE b = "hf"
  <2>1. PrefillOf(b, toks, 0) = HF!Prefill(toks, 0)
    BY <1>1 DEF PrefillOf
  <2>2. HF!Prefill(toks, 0) = HF!KVCache(HF!Forward(<< >>, toks, 0), HF!Arange(0, Len(toks)), toks)
    BY DEF HF!Prefill
  <2>3. Cols(b, toks) = Forward(<< >>, toks, 0)
    BY <1>1 DEF Cols
  <2> QED BY <2>1, <2>2, <2>3, SameForward, SameRecords DEF RawOf
<1>2. CASE b = "vllm"
  <2>1. PrefillOf(b, toks, 0) = VL!Prefill(toks, 0)
    BY <1>2 DEF PrefillOf
  <2>2. VL!Prefill(toks, 0) = VL!KVCache(VL!Forward(<< >>, toks, 0), VL!Arange(0, Len(toks)), toks)
    BY DEF VL!Prefill, VL!CaptureQKV
  <2>3. Cols(b, toks) = Forward(<< >>, toks, 0)
    BY <1>2 DEF Cols
  <2> QED BY <2>1, <2>2, <2>3, SameForward, SameRecords DEF RawOf
<1>3. CASE b = "fake"
  <2>1. PrefillOf(b, toks, 0) = FK!Prefill(toks, 0)
    BY <1>3 DEF PrefillOf
  <2>2. FK!Prefill(toks, 0)
          = FK!KVCache([i \in DOMAIN toks |-> FK!Column(toks[i], 0, << >>)], FK!Arange(0, Len(toks)), toks)
    BY DEF FK!Prefill, FK!Vector
  <2>3. Cols(b, toks) = [i \in DOMAIN toks |-> FK!Column(toks[i], 0, << >>)]
    BY <1>3 DEF Cols, Column, FK!Column
  <2> QED BY <2>1, <2>2, <2>3, SameRecords DEF RawOf
<1> QED BY <1>1, <1>2, <1>3

LEMMA RawFields ==
    ASSUME NEW cols, NEW toks, Len(toks) \in Nat, NEW c, c = RawOf(cols, toks)
    PROVE  /\ c.kind = "raw" /\ c.cols = cols /\ c.toks = toks
           /\ c.positions = Arange(0, Len(toks))
           /\ LogicalLen(c) = Len(toks)
<1>1. /\ c.kind = "raw" /\ c.cols = cols /\ c.toks = toks
      /\ c.positions = Arange(0, Len(toks))
  BY DEF RawOf, KVCache
<1>2. Len(Arange(0, Len(toks))) = Len(toks)
  BY ArangeIs
<1> QED BY <1>1, <1>2 DEF LogicalLen

LEMMA ColsAre ==
    ASSUME NEW b, NEW S, NEW t \in Seq(S), NEW w, w = Cols(b, t), NEW n, n = Len(t)
    PROVE  /\ n \in Nat /\ Long(w, n) /\ Len(w) = n /\ DOMAIN w = 1 .. n
           /\ \A i \in 1 .. n : w[i].tok = t[i] /\ (b # "fake" => w[i].pos = i - 1)
<1>1. CASE b = "fake"
  <2>1. n \in Nat /\ DOMAIN t = 1 .. n
    BY LenProperties
  <2>2. w = [i \in 1 .. n |-> Column(t[i], 0, << >>)]
    BY <1>1, <2>1 DEF Cols
  <2>3. Long(w, n)
    BY <2>1, <2>2 DEF Long
  <2>4. \A i \in 1 .. n : w[i].tok = t[i]
    BY <2>2 DEF Column
  <2> QED BY <1>1, <2>1, <2>3, <2>4, LongIsSeq
<1>2. CASE b # "fake"
  <2>1. w = Forward(<< >>, t, 0)
    BY <1>2 DEF Cols
  <2> QED BY <2>1, ForwardColumns
<1> QED BY <1>1, <1>2

(* extend, over any columns: the delta's follow *)
LEMMA ExtendFollows ==
    ASSUME NEW S, NEW a \in Seq(S), NEW d \in Seq(S), NEW n, n = Len(a), NEW cols, Long(cols, n),
           NEW c, c = RawOf(cols, a), NEW t, Put(t, a, d)
    PROVE  \E w : HF!Extend(c, d) = RawOf(w, t) /\ Follows(w, cols, n, d, Len(d), n)
<1>1. n \in Nat /\ Len(d) \in Nat /\ t \in Seq(S) /\ Len(t) = n + Len(d)
  BY LenProperties, ConcatProperties DEF Put
<1>2. c.cols = cols /\ c.toks = a /\ LogicalLen(c) = n
  BY <1>1, RawFields
<1>3. CASE d = << >>
  <2>1. t = a
    BY <1>3, ConcatEmptySeq DEF Put
  <2>2. HF!Extend(c, d) = c
    BY <1>3 DEF HF!Extend
  <2>3. Follows(cols, cols, n, d, Len(d), n)
    <3>1. Len(d) = 0
      BY <1>3, EmptyLong
    <3>2. n + 0 = n
      BY <1>1
    <3> QED BY <1>1, <3>1, <3>2 DEF Follows
  <2> QED BY <2>1, <2>2, <2>3
<1>4. CASE d # << >>
  <2>1. PICK w : w = Forward(cols, d, n)
    OBVIOUS
  <2>2. Follows(w, cols, n, d, Len(d), n)
    BY <1>1, <2>1, ForwardFollows
  <2>3. HF!Extend(c, d)
          = HF!KVCache(HF!Forward(c.cols, d, HF!LogicalLen(c)),
                       HF!Arange(0, HF!LogicalLen(c) + Len(d)), c.toks \o d)
    BY <1>4 DEF HF!Extend
  <2>4. HF!Extend(c, d) = KVCache(Forward(cols, d, n), Arange(0, n + Len(d)), a \o d)
    <3>1. HF!LogicalLen(c) = n
      BY <1>2, SameLen
    <3>2. PICK k, x : k = n + Len(d) /\ x = a \o d
      OBVIOUS
    <3>3. HF!Extend(c, d) = HF!KVCache(HF!Forward(cols, d, n), HF!Arange(0, k), x)
      BY <1>2, <2>3, <3>1, <3>2
    <3>4. HF!Extend(c, d) = KVCache(Forward(cols, d, n), Arange(0, k), x)
      BY <3>3, SameForward, SameRecords
    <3> QED BY <3>2, <3>4
  <2>5. HF!Extend(c, d) = RawOf(w, t)
    BY <1>1, <2>1, <2>4 DEF RawOf, Put
  <2> QED BY <2>2, <2>5
<1> QED BY <1>3, <1>4

LEMMA GenerateFollows ==
    ASSUME NEW S, NEW a \in Seq(S), NEW p \in Seq(S), NEW g \in Seq(S), NEW n, n = Len(a),
           NEW cols, Long(cols, n), NEW c, c = RawOf(cols, a), NEW d, Put(d, p, g), NEW t, Put(t, a, d)
    PROVE  \E w : HF!GenerateAndExtend(c, p, g) = RawOf(w, t) /\ Follows(w, cols, n, d, Len(d), n)
<1>1. PICK k \in Nat, m \in Nat : k = Len(p) /\ m = Len(g)
  BY LenProperties
<1>2. /\ n \in Nat /\ d \in Seq(S) /\ Len(d) = k + m
      /\ t \in Seq(S) /\ Len(t) = n + k + m /\ n + k \in Nat /\ k + m \in Nat
  <2>1. n \in Nat /\ d \in Seq(S) /\ Len(d) = k + m
    BY <1>1, LenProperties, ConcatProperties DEF Put
  <2>2. t \in Seq(S) /\ Len(t) = n + Len(d)
    BY <2>1, ConcatProperties DEF Put
  <2> QED BY <2>1, <2>2
<1>3. PICK u, v, j : u = Forward(cols, p, n) /\ j = n + k /\ v = Forward(u, g, j)
  OBVIOUS
<1>4. Follows(u, cols, n, p, k, n)
  BY <1>1, <1>2, <1>3, ForwardFollows
<1>5. j \in Nat /\ Long(u, j)
  BY <1>2, <1>3, <1>4 DEF Follows
<1>6. Follows(v, u, j, g, m, j)
  BY <1>1, <1>3, <1>5, ForwardFollows
<1>7. Follows(v, cols, n, d, k + m, n)
  <2>1. Long(p, k) /\ Long(g, m)
    BY <1>1, SeqIsLong
  <2>2. InTwoParts(v, u, cols, n, p, k, g, m, d, n, j, j)
    BY <1>4, <1>6, <2>1 DEF InTwoParts
  <2>3. n \in Int
    BY <1>2
  <2> QED BY <1>3, <2>2, <2>3, FollowsOn
<1>8. c.cols = cols /\ c.toks = a /\ LogicalLen(c) = n
  BY <1>2, RawFields
<1>9. HF!GenerateAndExtend(c, p, g)
        = HF!KVCache(HF!Forward(HF!Forward(c.cols, p, HF!LogicalLen(c)), g, HF!LogicalLen(c) + Len(p)),
                     HF!Arange(0, HF!LogicalLen(c) + Len(p) + Len(g)), c.toks \o p \o g)
  BY DEF HF!GenerateAndExtend
<1>10. HF!GenerateAndExtend(c, p, g) = KVCache(v, Arange(0, n + k + m), a \o p \o g)
  <2>1. HF!LogicalLen(c) = n
    BY <1>8, SameLen
  <2>2. PICK l, x : l = n + k + m /\ x = a \o p \o g
    OBVIOUS
  <2>3. HF!GenerateAndExtend(c, p, g)
          = HF!KVCache(HF!Forward(HF!Forward(cols, p, n), g, j), HF!Arange(0, l), x)
    BY <1>1, <1>3, <1>8, <1>9, <2>1, <2>2
  <2>4. HF!Forward(cols, p, n) = u /\ HF!Forward(u, g, j) = v
    BY <1>3, SameForward
  <2>5. HF!GenerateAndExtend(c, p, g) = HF!KVCache(v, HF!Arange(0, l), x)
    BY <2>3, <2>4
  <2>6. HF!GenerateAndExtend(c, p, g) = KVCache(v, Arange(0, l), x)
    BY <2>5, SameRecords
  <2> QED BY <2>2, <2>6
<1>11. t = a \o p \o g
  <2>1. PICK x : Joined(a, p, x)
    BY DEF Joined
  <2>2. Joined(p, g, d)
    BY DEF Joined, Put
  <2>3. Joined(a, d, x \o g)
    BY <2>1, <2>2, Associative
  <2> QED BY <2>1, <2>3 DEF Joined, Put
<1>12. HF!GenerateAndExtend(c, p, g) = RawOf(v, t)
  BY <1>2, <1>10, <1>11 DEF RawOf
<1> QED BY <1>2, <1>7, <1>12

(* extend and generate_and_extend of a prefill are prefills *)
LEMMA ExtendIsPrefill ==
    ASSUME NEW S, NEW a \in Seq(S), NEW d \in Seq(S), NEW c, c = PrefillOf("hf", a, 0), NEW t, Put(t, a, d)
    PROVE  HF!Extend(c, d) = PrefillOf("hf", t, 0)
<1>1. PICK cols : cols = Forward(<< >>, a, 0)
  OBVIOUS
<1>2. c = RawOf(cols, a) /\ PrefillOf("hf", t, 0) = RawOf(Forward(<< >>, t, 0), t)
  BY <1>1, PrefillIs DEF Cols
<1>3. PICK n, m : n = Len(a) /\ m = Len(d)
  OBVIOUS
<1>4. Long(cols, n)
  BY <1>1, <1>3, ForwardColumns
<1>5. PICK w : HF!Extend(c, d) = RawOf(w, t) /\ Follows(w, cols, n, d, m, n)
  BY <1>2, <1>3, <1>4, ExtendFollows
<1>6. w = Forward(<< >>, t, 0)
  BY <1>1, <1>3, <1>5, FollowsPrefill
<1> QED BY <1>2, <1>5, <1>6

LEMMA GenerateIsPrefill ==
    ASSUME NEW S, NEW a \in Seq(S), NEW p \in Seq(S), NEW g \in Seq(S), NEW c, c = PrefillOf("hf", a, 0),
           NEW d, Put(d, p, g), NEW t, Put(t, a, d)
    PROVE  HF!GenerateAndExtend(c, p, g) = PrefillOf("hf", t, 0)
<1>1. PICK cols : cols = Forward(<< >>, a, 0)
  OBVIOUS
<1>2. c = RawOf(cols, a) /\ PrefillOf("hf", t, 0) = RawOf(Forward(<< >>, t, 0), t)
  BY <1>1, PrefillIs DEF Cols
<1>3. PICK n, m : n = Len(a) /\ m = Len(d)
  OBVIOUS
<1>4. Long(cols, n) /\ d \in Seq(S)
  BY <1>1, <1>3, ForwardColumns, ConcatProperties DEF Put
<1>5. PICK w : HF!GenerateAndExtend(c, p, g) = RawOf(w, t) /\ Follows(w, cols, n, d, m, n)
  BY <1>2, <1>3, <1>4, GenerateFollows
<1>6. w = Forward(<< >>, t, 0)
  BY <1>1, <1>3, <1>4, <1>5, FollowsPrefill
<1> QED BY <1>2, <1>5, <1>6

LEMMA SamePlan ==
    ASSUME NEW prev, NEW new, NEW mode
    PROVE  HF!PlanIncremental(prev, new, mode) = PlanIncremental(prev, new, mode)
BY DEF HF!PlanIncremental, PlanIncremental, HF!PlanItem, PlanItem, HF!Match, Match, HF!Item, Item,
       HF!CommonPrefixLen, CommonPrefixLen, HF!Offset, Offset, HF!Tokens, Tokens,
       HF!FlattenSeq, FlattenSeq, HF!NoMatch, NoMatch, HF!Min, Min, HF!Max, Max

LEMMA SameTokensOf == ASSUME NEW plan, NEW action PROVE HF!TokensOf(plan, action) = TokensOf(plan, action)
BY SameTokens DEF HF!TokensOf, TokensOf

LEMMA CutInTwo ==
    ASSUME NEW S, NEW t \in Seq(S), NEW L, L = Len(t), NEW r \in Nat, r <= L
    PROVE  SubSeq(t, 1, L) = SubSeq(t, 1, r) \o SubSeq(t, r + 1, L)
<1>1. PICK a, b, c : Cut(a, t, 1, r) /\ Cut(b, t, r + 1, L) /\ Put(c, a, b)
  BY DEF Cut, Put
<1>2. L \in Nat /\ Long(t, L) /\ r \in 0 .. L
  BY SeqIsLong, LenProperties
<1>3. Long(a, r) /\ \A i \in 1 .. r : a[i] = t[i]
  BY <1>1, <1>2, LongPrefix
<1>4. PICK m : m = L - r /\ m \in Nat
  BY <1>2
<1>5. Long(b, m) /\ \A i \in 1 .. m : b[i] = t[r + i]
  <2>1. PICK x : x = r + 1
    OBVIOUS
  <2>2. x \in Nat \ {0} /\ x <= L + 1 /\ m = L - x + 1 /\ \A i \in 1 .. m : x + i - 1 = r + i
    BY <1>2, <1>4, <2>1
  <2>3. Long(b, m) /\ \A i \in 1 .. m : b[i] = t[x + i - 1]
    BY <1>1, <1>2, <1>4, <2>1, <2>2, LongSubSeq
  <2> QED BY <2>2, <2>3
<1>6. /\ Long(c, r + m)
      /\ \A i \in 1 .. r : c[i] = a[i]
      /\ \A i \in 1 .. m : c[r + i] = b[i]
  BY <1>1, <1>3, <1>4, <1>5, LongConcat
<1>7. r + m = L
  BY <1>2, <1>4
<1>8. ASSUME NEW i \in 1 .. L PROVE c[i] = t[i]
  <2>1. CASE i \in 1 .. r
    BY <1>3, <1>6, <2>1
  <2>2. CASE i \notin 1 .. r
    <3>1. PICK j : j = i - r
      OBVIOUS
    <3>2. j \in 1 .. m /\ r + j = i
      BY <1>2, <1>4, <2>2, <3>1
    <3> QED BY <1>5, <1>6, <3>2
  <2> QED BY <2>1, <2>2
<1>9. c = t
  BY <1>2, <1>6, <1>7, <1>8, SameSeq
<1> QED BY <1>1, <1>9, SubSeqFull DEF Cut, Put

(* recompute_incremental of a prefill is a prefill *)
LEMMA RecomputeIsPrefill ==
    ASSUME NEW S, NEW prev \in Seq(Seq(S)), NEW new \in Seq(Seq(S)),
           NEW c, c = PrefillOf("hf", Tokens(prev), 0)
    PROVE  HF!RecomputeIncremental(c, prev, new) = PrefillOf("hf", Tokens(new), 0)
<1>1. PICK a, t, r : /\ a = Tokens(prev) /\ t = Tokens(new)
                     /\ r = TokensOf(PlanIncremental(prev, new, "exact"), "reuse_exact")
  OBVIOUS
<1>2. /\ a \in Seq(S) /\ t \in Seq(S) /\ Len(a) \in Nat /\ Len(t) \in Nat
      /\ r \in Nat /\ r <= Len(a) /\ r <= Len(t) /\ SubSeq(a, 1, r) = SubSeq(t, 1, r)
  BY <1>1, Offsets, ExactPrefix DEF SameStart
<1>3. PICK cols, w : cols = Forward(<< >>, a, 0) /\ w = SubSeq(cols, 1, r)
  OBVIOUS
<1>4. PICK h : h = SubSeq(a, 1, r)
  OBVIOUS
<1>5. r \in 0 .. Len(a) /\ r \in 0 .. Len(t)
  BY <1>2
<1>6. w = Forward(<< >>, h, 0) /\ h \in Seq(S) /\ Len(h) = r
  <2>1. Cut(w, cols, 1, r) /\ Cut(h, a, 1, r)
    BY <1>3, <1>4 DEF Cut
  <2>2. a \in Seq(S) /\ cols = Forward(<< >>, a, 0)
    BY <1>2, <1>3
  <2> QED BY <1>5, <2>1, <2>2, ForwardCut
<1>7. c = RawOf(cols, a)
  BY <1>1, <1>3, PrefillIs DEF Cols
<1>8. HF!SliceKV(c, r) = RawOf(w, h)
  <2>1. c.cols = cols /\ c.toks = a /\ c.positions = Arange(0, Len(a))
    BY <1>2, <1>7, RawFields
  <2>2. HF!SliceKV(c, r) = HF!KVCache(SubSeq(cols, 1, r), SubSeq(Arange(0, Len(a)), 1, r), SubSeq(a, 1, r))
    BY <2>1 DEF HF!SliceKV
  <2>3. PICK p : p = SubSeq(Arange(0, Len(a)), 1, r)
    OBVIOUS
  <2>4. p = Arange(0, r)
    <3>1. Cut(p, Arange(0, Len(a)), 1, r)
      BY <2>3 DEF Cut
    <3> QED BY <1>2, <1>5, <3>1, ArangeCut
  <2>5. HF!SliceKV(c, r) = HF!KVCache(w, Arange(0, r), h)
    BY <1>3, <1>4, <2>2, <2>3, <2>4
  <2>6. HF!SliceKV(c, r) = KVCache(w, Arange(0, r), h)
    BY <2>5, SameRecords
  <2> QED BY <1>6, <2>6 DEF RawOf
<1>9. PICK d : d = SubSeq(t, r + 1, Len(t))
  OBVIOUS
<1>10. d \in Seq(S)
  BY <1>2, <1>9, SubSeqIn
<1>11. Put(t, h, d)
  <2>1. \A i \in 1 .. Len(t) : t[i] \in S
    BY <1>2, ElementOfSeq
  <2>2. PICK L : L = Len(t)
    OBVIOUS
  <2>3. t = SubSeq(t, 1, r) \o SubSeq(t, r + 1, L)
    <3>1. t = SubSeq(t, 1, L)
      BY <1>2, <2>2, SubSeqFull
    <3>2. SubSeq(t, 1, L) = SubSeq(t, 1, r) \o SubSeq(t, r + 1, L)
      BY <1>2, <2>2, CutInTwo
    <3> QED BY <3>1, <3>2
  <2> QED BY <1>2, <1>4, <1>9, <2>2, <2>3 DEF Put
<1>12. HF!RecomputeIncremental(c, prev, new) = HF!Extend(RawOf(w, h), d)
  <2>1. HF!TokensOf(HF!PlanIncremental(prev, new, "exact"), "reuse_exact") = r
    BY <1>1, SamePlan, SameTokensOf
  <2>2. HF!Tokens(new) = t
    BY <1>1, SameTokens
  <2> QED BY <1>8, <1>9, <2>1, <2>2 DEF HF!RecomputeIncremental
<1>13. RawOf(w, h) = PrefillOf("hf", h, 0)
  BY <1>6, PrefillIs DEF Cols
<1> QED BY <1>1, <1>6, <1>10, <1>11, <1>12, <1>13, ExtendIsPrefill

-----------------------------------------------------------------------------
(* Blocks *)

LEMMA Place ==
    ASSUME NEW x \in Nat, NEW b \in Nat \ {0}
    PROVE  /\ x \div b \in Nat /\ x % b \in Nat /\ x % b < b
           /\ x = (x \div b) * b + (x % b)
<1>1. x \div b \in Nat /\ x % b \in 0 .. b - 1
  OBVIOUS
<1>2. x = b * (x \div b) + (x % b)
  OBVIOUS
<1> QED BY <1>1, <1>2

(* A place is given by its block and its offset in it *)
LEMMA PlaceIs ==
    ASSUME NEW x \in Nat, NEW b \in Nat \ {0}, NEW q \in Nat, NEW r \in Nat, r < b, x = q * b + r
    PROVE  x \div b = q /\ x % b = r
<1>1. PICK p, s : p = x \div b /\ s = x % b
  OBVIOUS
<1>2. p \in Nat /\ s \in Nat /\ s < b /\ x = p * b + s
  BY <1>1, Place
<1>3. CASE p = q
  BY <1>1, <1>2, <1>3
<1>4. CASE p < q
  <2>1. PICK k : k = q - p
    OBVIOUS
  <2>2. k \in Nat /\ k >= 1 /\ q = p + k
    BY <1>2, <1>4, <2>1
  <2>3. q * b = p * b + k * b /\ k * b >= b
    BY <1>2, <2>2
  <2>4. p * b \in Nat /\ k * b \in Nat
    BY <1>2, <2>2
  <2>5. PICK y, z : y = p * b /\ z = k * b
    OBVIOUS
  <2>6. x = y + s /\ x = y + z + r /\ z >= b /\ y \in Nat /\ z \in Nat
    BY <1>2, <2>3, <2>4, <2>5
  <2> QED BY <1>2, <2>6
<1>5. CASE q < p
  <2>1. PICK k : k = p - q
    OBVIOUS
  <2>2. k \in Nat /\ k >= 1 /\ p = q + k
    BY <1>2, <1>5, <2>1
  <2>3. p * b = q * b + k * b /\ k * b >= b
    BY <1>2, <2>2
  <2>4. q * b \in Nat /\ k * b \in Nat
    BY <1>2, <2>2
  <2>5. PICK y, z : y = q * b /\ z = k * b
    OBVIOUS
  <2>6. x = y + r /\ x = y + z + s /\ z >= b /\ y \in Nat /\ z \in Nat
    BY <1>2, <2>3, <2>4, <2>5
  <2> QED BY <1>2, <2>6
<1> QED BY <1>2, <1>3, <1>4, <1>5

(* Products keep the order *)
LEMMA Times ==
    ASSUME NEW a \in Nat, NEW c \in Nat, NEW b \in Nat, a <= c
    PROVE  a * b \in Nat /\ a * b <= c * b
<1>1. PICK k : k = c - a
  OBVIOUS
<1>2. k \in Nat /\ c = a + k
  BY <1>1
<1>3. c * b = a * b + k * b /\ a * b \in Nat /\ k * b \in Nat
  BY <1>2
<1> QED BY <1>3

LEMMA NextBlock ==
    ASSUME NEW a \in Nat, NEW b \in Nat
    PROVE  (a + 1) * b = a * b + b
OBVIOUS

(* Blocks of one size, one after the other *)
Sized(blocks, n, size) == n = Len(blocks) /\ \A i \in 1 .. n : Len(blocks[i]) = size

Blockwise(all, blocks, n, size) ==
    \A i \in 1 .. n, o \in 1 .. size : all[(i - 1) * size + o] = blocks[i][o]

LEMMA FlattenBlocks ==
    ASSUME NEW S, NEW blocks \in Seq(Seq(S)), NEW size \in Nat \ {0}, NEW n, Sized(blocks, n, size),
           NEW all, all = FlattenSeq(blocks)
    PROVE  all \in Seq(S) /\ Len(all) = n * size /\ Blockwise(all, blocks, n, size)
<1>1. n \in Nat /\ n = Len(blocks) /\ \A i \in 1 .. n : Len(blocks[i]) = size
  BY LenProperties DEF Sized
<1>2. PICK f : f = [i \in 0 .. n |-> FlattenSeq(SubSeq(blocks, 1, i))]
  OBVIOUS
<1>3. /\ f[0] = << >> /\ f[n] = FlattenSeq(blocks)
      /\ \A i \in 0 .. n : f[i] \in Seq(S)
      /\ \A i \in 1 .. n : f[i] = f[i - 1] \o blocks[i]
  <2>1. 0 \in 0 .. n /\ n \in 0 .. n /\ \A i \in 1 .. n : i \in 0 .. n /\ i - 1 \in 0 .. n
    BY <1>1
  <2>2. FlattenSeq(SubSeq(blocks, 1, n)) = FlattenSeq(blocks)
    BY <1>1, Flatten
  <2>3. /\ FlattenSeq(SubSeq(blocks, 1, 0)) = << >>
        /\ \A i \in 0 .. n : FlattenSeq(SubSeq(blocks, 1, i)) \in Seq(S)
        /\ \A i \in 1 .. n :
              FlattenSeq(SubSeq(blocks, 1, i)) = FlattenSeq(SubSeq(blocks, 1, i - 1)) \o blocks[i]
    BY <1>1, Flatten
  <2> QED BY <1>2, <2>1, <2>2, <2>3
<1> DEFINE Good(m) == /\ Long(f[m], m * size)
                      /\ \A i \in 1 .. m, o \in 1 .. size : f[m][(i - 1) * size + o] = blocks[i][o]
           T == {m \in 0 .. n : Good(m)}
<1>4. 0 \in T
  <2>1. 0 * size = 0
    OBVIOUS
  <2>2. Long(f[0], 0)
    BY <1>3, EmptyLong
  <2> QED BY <1>1, <2>1, <2>2
<1>5. ASSUME NEW m \in 1 .. n, m - 1 \in T PROVE m \in T
  <2>1. PICK p, w, b, q : p = f[m - 1] /\ w = (m - 1) * size /\ b = blocks[m] /\ q = f[m]
    OBVIOUS
  <2>2. w \in Nat /\ m * size = w + size
    <3>1. m - 1 \in Nat /\ (m - 1) + 1 = m
      OBVIOUS
    <3> QED BY <2>1, <3>1, NextBlock, Times
  <2>3. Long(p, w) /\ \A i \in 1 .. m - 1, o \in 1 .. size : p[(i - 1) * size + o] = blocks[i][o]
    BY <1>5, <2>1
  <2>4. Long(b, size)
    <3>1. b \in Seq(S) /\ Len(b) = size
      BY <1>1, <2>1, ElementOfSeq
    <3> QED BY <3>1, SeqIsLong
  <2>5. Put(q, p, b)
    BY <1>3, <2>1 DEF Put
  <2>6. /\ Long(q, w + size)
        /\ \A i \in 1 .. w : q[i] = p[i]
        /\ \A i \in 1 .. size : q[w + i] = b[i]
    BY <2>2, <2>3, <2>4, <2>5, LongConcat
  <2>7. ASSUME NEW i \in 1 .. m, NEW o \in 1 .. size PROVE q[(i - 1) * size + o] = blocks[i][o]
    <3>1. CASE i = m
      BY <2>1, <2>6, <3>1
    <3>2. CASE i # m
      <4>1. i \in 1 .. m - 1
        BY <3>2
      <4>2. PICK x : x = (i - 1) * size
        OBVIOUS
      <4>3. x \in Nat /\ x + size <= w
        <5>1. i - 1 \in Nat /\ i \in Nat /\ m - 1 \in Nat /\ i <= m - 1 /\ (i - 1) + 1 = i
          BY <4>1
        <5>2. i * size = x + size /\ i * size <= w /\ x \in Nat
          BY <2>1, <4>2, <5>1, NextBlock, Times
        <5> QED BY <5>2
      <4>4. x + o \in 1 .. w
        BY <2>2, <4>3
      <4>5. p[x + o] = blocks[i][o]
        BY <2>3, <4>1, <4>2
      <4> QED BY <2>6, <4>2, <4>4, <4>5
    <3> QED BY <3>1, <3>2
  <2>8. Good(m)
    BY <2>1, <2>2, <2>6, <2>7
  <2> HIDE DEF Good
  <2> QED BY <2>8
<1>6. Good(n)
  <2>1. \A i \in 1 .. n : i - 1 \in T => i \in T
    BY <1>5
  <2>2. n \in 0 .. n
    BY <1>1
  <2>3. n \in T
    <3> HIDE DEF T
    <3> QED BY <1>1, <1>4, <2>1, <2>2, UpTo
  <2> HIDE DEF Good
  <2> QED BY <2>3
<1>7. Len(f[n]) = n * size
  BY <1>6, LongIsSeq
<1>8. n \in 0 .. n
  BY <1>1
<1>9. all = f[n]
  BY <1>3
<1>10. \A i \in 1 .. n, o \in 1 .. size : f[n][(i - 1) * size + o] = blocks[i][o]
  BY <1>6
<1> QED BY <1>3, <1>7, <1>8, <1>9, <1>10 DEF Blockwise

(* How many blocks n rows need *)
LEMMA BlocksOf ==
    ASSUME NEW n \in Nat, NEW size \in Nat \ {0}, NEW k, k = (n + size - 1) \div size
    PROVE  k \in Nat /\ n <= k * size /\ k * size < n + size
<1>1. PICK x : x = n + size - 1
  OBVIOUS
<1>2. x \in Nat /\ k = x \div size
  BY <1>1
<1>3. k \in Nat /\ x % size \in Nat /\ x % size < size /\ x = k * size + (x % size)
  BY <1>2, Place
<1>4. PICK y, r : y = k * size /\ r = x % size
  OBVIOUS
<1>5. y \in Nat
  BY <1>3, <1>4
<1> QED BY <1>1, <1>3, <1>4, <1>5

(* The block and the offset of the i-th row *)
LEMMA PlaceOf ==
    ASSUME NEW size \in Nat \ {0}, NEW k \in Nat, NEW i \in Nat \ {0}, i <= k * size
    PROVE  /\ (i - 1) \div size \in Nat /\ ((i - 1) \div size) + 1 \in 1 .. k
           /\ ((i - 1) % size) + 1 \in 1 .. size
           /\ ((i - 1) \div size) * size + (((i - 1) % size) + 1) = i
<1>1. PICK x, q, r : x = i - 1 /\ q = x \div size /\ r = x % size
  OBVIOUS
<1>2. x \in Nat
  BY <1>1
<1>3. q \in Nat /\ r \in Nat /\ r < size /\ x = q * size + r
  BY <1>1, <1>2, Place
<1>4. q < k
  <2> SUFFICES ASSUME k <= q PROVE FALSE
    BY <1>3
  <2>1. k * size <= q * size /\ k * size \in Nat /\ q * size \in Nat
    BY <1>3, Times
  <2>2. PICK y, z : y = k * size /\ z = q * size
    OBVIOUS
  <2> QED BY <1>1, <1>3, <2>1, <2>2
<1>5. q * size \in Nat
  BY <1>3, Times
<1>6. PICK z : z = q * size
  OBVIOUS
<1>7. z + (r + 1) = i /\ q + 1 \in 1 .. k /\ r + 1 \in 1 .. size
  BY <1>1, <1>3, <1>4, <1>5, <1>6
<1> QED BY <1>1, <1>3, <1>6, <1>7

(* pack_token_major_into_blocks *)
Packed(p, rows, n, size, k) ==
    /\ Long(p, k)
    /\ \A b \in 1 .. k :
         /\ Long(p[b], size)
         /\ \A o \in 1 .. size :
              p[b][o] = IF (b - 1) * size + o <= n THEN rows[(b - 1) * size + o] ELSE ZeroSlot

LEMMA PackIs ==
    ASSUME NEW rows, NEW n, Long(rows, n), NEW size \in Nat \ {0}, NEW k, k = (n + size - 1) \div size
    PROVE  /\ Packed(PackBlocks(rows, size), rows, n, size, k)
           /\ k \in Nat /\ n <= k * size /\ k * size < n + size
<1>1. n \in Nat /\ Len(rows) = n
  BY LongIsSeq DEF Long
<1>2. k \in Nat /\ n <= k * size /\ k * size < n + size
  BY <1>1, BlocksOf
<1>3. PICK p : p = PackBlocks(rows, size)
  OBVIOUS
<1>4. p = [b \in 1 .. k |-> [o \in 1 .. size |->
             IF (b - 1) * size + o <= n THEN rows[(b - 1) * size + o] ELSE ZeroSlot]]
  BY <1>1, <1>3 DEF PackBlocks
<1>5. Long(p, k)
  BY <1>2, <1>4 DEF Long
<1>6. ASSUME NEW b \in 1 .. k
      PROVE  /\ Long(p[b], size)
             /\ \A o \in 1 .. size :
                  p[b][o] = IF (b - 1) * size + o <= n THEN rows[(b - 1) * size + o] ELSE ZeroSlot
  <2>1. PICK u : u = p[b]
    OBVIOUS
  <2>2. u = [o \in 1 .. size |-> IF (b - 1) * size + o <= n THEN rows[(b - 1) * size + o] ELSE ZeroSlot]
    BY <1>4, <2>1
  <2>3. Long(u, size)
    BY <2>2 DEF Long
  <2> QED BY <2>1, <2>2, <2>3
<1>7. Packed(p, rows, n, size, k)
  BY <1>5, <1>6 DEF Packed
<1> QED BY <1>2, <1>3, <1>7

-----------------------------------------------------------------------------
(* KV through paged blocks *)

OneEach(ids, k) == Long(ids, k) /\ \A i, j \in 1 .. k : ids[i] = ids[j] => i = j

(* What was computed into the blocks of a request is what is gathered *)
LEMMA GatheredIs ==
    ASSUME NEW rows, NEW n, Long(rows, n), NEW ids, NEW k, OneEach(ids, k),
           NEW size \in Nat \ {0}, n <= k * size,
           NEW blocks, blocks = GatherBlocks(Computed(rows, ids, size), ids)
    PROVE  SubSeq(FlattenSeq(blocks), 1, n) = rows
<1>1. n \in Nat /\ k \in Nat /\ DOMAIN ids = 1 .. k /\ Len(rows) = n
  BY LongIsSeq DEF OneEach, Long
<1> DEFINE at(m, o) == IF (m - 1) * size + o <= n THEN rows[(m - 1) * size + o] ELSE Stale
           S == {rows[i] : i \in 1 .. n} \cup {Stale}
<1>2. ASSUME NEW m \in 1 .. k PROVE blocks[m] = [o \in 1 .. size |-> at(m, o)]
  <2>1. PICK mem : mem = Computed(rows, ids, size)
    OBVIOUS
  <2>2. blocks[m] = mem[ids[m]]
    BY <1>1, <2>1 DEF GatherBlocks
  <2>3. ids[m] \in Range(ids)
    BY <1>1 DEF Range
  <2>4. PICK c : c = CHOOSE x \in DOMAIN ids : ids[x] = ids[m]
    OBVIOUS
  <2>5. c = m
    <3>1. c \in DOMAIN ids /\ ids[c] = ids[m]
      BY <1>1, <2>4
    <3> QED BY <1>1, <3>1 DEF OneEach
  <2>6. mem[ids[m]] = [o \in 1 .. size |->
            IF (c - 1) * size + o <= Len(rows) THEN rows[(c - 1) * size + o] ELSE Stale]
    <3> DEFINE index(b) == CHOOSE x \in DOMAIN ids : ids[x] = b
    <3>1. mem = [b \in Range(ids) |-> [o \in 1 .. size |->
                   IF (index(b) - 1) * size + o <= Len(rows) THEN rows[(index(b) - 1) * size + o] ELSE Stale]]
      BY <2>1 DEF Computed
    <3>2. c = index(ids[m])
      BY <2>4
    <3> HIDE DEF index
    <3> QED BY <2>3, <3>1, <3>2
  <2> QED BY <1>1, <2>2, <2>5, <2>6
<1>3. ASSUME NEW m \in 1 .. k, NEW o \in 1 .. size PROVE at(m, o) \in S
  <2>1. PICK x : x = (m - 1) * size
    OBVIOUS
  <2>2. x \in Nat
    <3>1. m - 1 \in Nat
      OBVIOUS
    <3> QED BY <2>1, <3>1, Times
  <2>3. x + o <= n => x + o \in 1 .. n
    BY <1>1, <2>2
  <2> QED BY <2>1, <2>3
<1>4. blocks \in Seq(Seq(S)) /\ Len(blocks) = k /\ \A m \in 1 .. k : Len(blocks[m]) = size
  <2>1. ASSUME NEW m \in 1 .. k PROVE blocks[m] \in Seq(S) /\ Len(blocks[m]) = size
    <3>1. PICK b : b = blocks[m]
      OBVIOUS
    <3>2. b \in [1 .. size -> S]
      <4> HIDE DEF S, at
      <4> QED BY <1>2, <1>3, <3>1
    <3> HIDE DEF S
    <3>3. b \in Seq(S) /\ Len(b) = size
      BY <3>2, FunctionIsSeq
    <3> QED BY <3>1, <3>3
  <2>2. blocks = [m \in 1 .. k |-> blocks[m]]
    <3>1. blocks = [m \in 1 .. k |-> Computed(rows, ids, size)[ids[m]]]
      BY <1>1 DEF GatherBlocks
    <3> QED BY <3>1
  <2>3. PICK V : V = Seq(S)
    OBVIOUS
  <2> HIDE DEF S
  <2>4. blocks \in [1 .. k -> V]
    BY <2>1, <2>2, <2>3
  <2>5. blocks \in Seq(V) /\ Len(blocks) = k
    BY <1>1, <2>4, FunctionIsSeq
  <2> QED BY <2>1, <2>3, <2>5
<1>5. PICK f : f = FlattenSeq(blocks)
  OBVIOUS
<1>6. f \in Seq(S) /\ Len(f) = k * size /\ Blockwise(f, blocks, k, size)
  <2> HIDE DEF S
  <2>1. Sized(blocks, k, size)
    BY <1>1, <1>4 DEF Sized
  <2> QED BY <1>4, <1>5, <2>1, FlattenBlocks
<1>7. PICK u, w : w = k * size /\ Cut(u, f, 1, n)
  BY DEF Cut
<1>8. w \in Nat /\ n \in 0 .. w /\ Long(f, w)
  <2>1. w \in Nat
    BY <1>1, <1>7, Times
  <2>2. Long(f, Len(f))
    <3> HIDE DEF S
    <3> QED BY <1>6, SeqIsLong
  <2> QED BY <1>1, <1>6, <1>7, <2>1, <2>2
<1>9. Long(u, n) /\ \A i \in 1 .. n : u[i] = f[i]
  BY <1>7, <1>8, LongPrefix
<1>10. ASSUME NEW i \in 1 .. n PROVE f[i] = rows[i]
  <2>1. PICK q, o : q = ((i - 1) \div size) + 1 /\ o = ((i - 1) % size) + 1
    OBVIOUS
  <2>2. i \in Nat \ {0} /\ i <= k * size
    BY <1>1, <1>7, <1>8
  <2>3. q \in 1 .. k /\ o \in 1 .. size /\ (q - 1) * size + o = i
    <3>1. /\ (i - 1) \div size \in Nat /\ ((i - 1) \div size) + 1 \in 1 .. k
          /\ ((i - 1) % size) + 1 \in 1 .. size
          /\ ((i - 1) \div size) * size + (((i - 1) % size) + 1) = i
      BY <1>1, <2>2, PlaceOf
    <3>2. q - 1 = (i - 1) \div size
      BY <2>1, <3>1
    <3> QED BY <2>1, <3>1, <3>2
  <2>4. f[i] = blocks[q][o]
    BY <1>6, <2>3 DEF Blockwise
  <2>5. blocks[q][o] = at(q, o)
    BY <1>2, <2>3
  <2> QED BY <2>3, <2>4, <2>5
<1>11. u = rows
  BY <1>9, <1>10, SameSeq
<1> QED BY <1>5, <1>7, <1>11 DEF Cut

(* Blocks that were scattered to a request are read back as they were *)
LEMMA ReadBack ==
    ASSUME NEW rows, NEW n, Long(rows, n), NEW ids, NEW k, OneEach(ids, k),
           NEW size \in Nat \ {0}, n <= k * size,
           NEW mem, mem = ScatterBlocks(Computed(<< >>, ids, size), ids, PackBlocks(rows, size))
    PROVE  ReadThrough(mem, ids, n, size) = rows
<1>1. n \in Nat /\ k \in Nat /\ DOMAIN ids = 1 .. k /\ Len(ids) = k
  BY LongIsSeq DEF OneEach, Long
<1>2. PICK blocks, c : blocks = PackBlocks(rows, size) /\ c = (n + size - 1) \div size
  OBVIOUS
<1>3. Packed(blocks, rows, n, size, c) /\ c \in Nat /\ n <= c * size
  BY <1>2, PackIs
<1>4. Long(blocks, c) /\ Len(blocks) = c
  BY <1>3, LongIsSeq DEF Packed
<1>5. PICK d : d = Min({Len(ids), Len(blocks)})
  OBVIOUS
<1>6. d = IF k <= c THEN k ELSE c
  <2>1. d = Min({k, c})
    BY <1>1, <1>4, <1>5
  <2> QED BY <1>1, <1>3, <2>1, MinOfTwo
<1>7. ASSUME NEW m \in 1 .. d PROVE mem[ids[m]] = blocks[m]
  <2>1. PICK old : old = Computed(<< >>, ids, size)
    OBVIOUS
  <2>2. m \in 1 .. k
    BY <1>1, <1>3, <1>6
  <2>3. ids[m] \in DOMAIN old
    BY <1>1, <2>1, <2>2 DEF Computed, Range
  <2> DEFINE given(b) == CHOOSE i \in 1 .. d : ids[i] = b
  <2>4. mem = [b \in DOMAIN old |-> IF \E i \in 1 .. d : ids[i] = b THEN blocks[given(b)] ELSE old[b]]
    BY <1>2, <1>5, <2>1 DEF ScatterBlocks
  <2>5. given(ids[m]) = m
    <3>1. PICK x : x = given(ids[m])
      OBVIOUS
    <3>2. x \in 1 .. d /\ ids[x] = ids[m]
      BY <3>1
    <3>3. x \in 1 .. k
      BY <1>1, <1>3, <1>6, <3>2
    <3>4. x = m
      BY <2>2, <3>2, <3>3 DEF OneEach
    <3> QED BY <3>1, <3>4
  <2> HIDE DEF given
  <2> QED BY <2>3, <2>4, <2>5
<1>8. PICK r : r = ReadThrough(mem, ids, n, size)
  OBVIOUS
<1>9. r = [i \in 1 .. n |-> mem[ids[((i - 1) \div size) + 1]][((i - 1) % size) + 1]]
  BY <1>8 DEF ReadThrough
<1>10. Long(r, n)
  BY <1>1, <1>9 DEF Long
<1>11. ASSUME NEW i \in 1 .. n PROVE r[i] = rows[i]
  <2>1. PICK q, o : q = ((i - 1) \div size) + 1 /\ o = ((i - 1) % size) + 1
    OBVIOUS
  <2>2. i \in Nat \ {0} /\ i <= k * size /\ i <= c * size
    <3>1. PICK y, z : y = k * size /\ z = c * size
      OBVIOUS
    <3>2. y \in Nat /\ z \in Nat
      BY <1>1, <1>3, <3>1, Times
    <3> QED BY <1>1, <1>3, <3>1, <3>2
  <2>3. q \in 1 .. k /\ q \in 1 .. c /\ o \in 1 .. size /\ (q - 1) * size + o = i
    <3>1. /\ (i - 1) \div size \in Nat /\ ((i - 1) \div size) + 1 \in 1 .. k
          /\ ((i - 1) % size) + 1 \in 1 .. size
          /\ ((i - 1) \div size) * size + (((i - 1) % size) + 1) = i
      BY <1>1, <2>2, PlaceOf
    <3>2. ((i - 1) \div size) + 1 \in 1 .. c
      BY <1>3, <2>2, PlaceOf
    <3>3. q - 1 = (i - 1) \div size
      BY <2>1, <3>1
    <3> QED BY <2>1, <3>1, <3>2, <3>3
  <2>4. q \in 1 .. d
    BY <1>6, <2>3
  <2>5. r[i] = mem[ids[q]][o]
    BY <1>9, <2>1
  <2>6. r[i] = blocks[q][o]
    BY <1>7, <2>4, <2>5
  <2>7. blocks[q][o] = IF (q - 1) * size + o <= n THEN rows[(q - 1) * size + o] ELSE ZeroSlot
    BY <1>3, <2>3 DEF Packed
  <2> QED BY <2>3, <2>6, <2>7
<1>12. r = rows
  BY <1>10, <1>11, SameSeq
<1> QED BY <1>8, <1>12

-----------------------------------------------------------------------------
(* The numbers of a file *)

Numberlike(u) == u \in 0 .. (Half \div 2) * Half - Half - 1

Distance(x, u) == IF x > u THEN x - u ELSE u - x

Nearest(u, n) ==
    /\ u % Half = 0 => n = u
    /\ \A m \in 0 .. Half - 1 :
         /\ Distance(n, u) <= Distance(m * Half, u)
         /\ Distance(n, u) = Distance(m * Half, u) /\ n # m * Half => (n \div Half) % 2 = 0

LEMMA Bf16Nearest ==
    ASSUME NEW u, Numberlike(u)
    PROVE  Nearest(u, F32OfBf16(Bf16Bits(u)))
<1>1. Half \in Nat \ {0} /\ Half % 2 = 0
  BY HalfAssumption
<1>2. PICK g : g = Half \div 2
  OBVIOUS
<1>3. g \in Nat /\ Half = 2 * g /\ g >= 1
  BY <1>1, <1>2
<1>4. u \in Nat
  <2>1. g * Half \in Nat
    BY <1>1, <1>3
  <2> QED BY <1>1, <1>2, <2>1 DEF Numberlike
<1>5. PICK q, r : q = u \div Half /\ r = u % Half
  OBVIOUS
<1>6. q \in Nat /\ r \in Nat /\ r < Half /\ u = q * Half + r
  BY <1>1, <1>4, <1>5, Place
<1>7. PICK A : A = q * Half
  OBVIOUS
<1>8. A \in Nat /\ u = A + r
  BY <1>1, <1>6, <1>7, Times
<1>9. q + 1 < g
  <2> SUFFICES ASSUME g <= q + 1 PROVE FALSE
    BY <1>3, <1>6
  <2>1. g * Half <= (q + 1) * Half /\ (q + 1) * Half = A + Half /\ g * Half \in Nat
    BY <1>1, <1>3, <1>6, <1>7, Times, NextBlock
  <2>2. PICK z : z = g * Half
    OBVIOUS
  <2>3. u <= z - Half - 1
    BY <1>1, <1>2, <2>1, <2>2 DEF Numberlike
  <2> QED BY <1>1, <1>6, <1>8, <2>1, <2>2, <2>3
<1>10. PICK e : e = q % 2
  OBVIOUS
<1>11. e \in {0, 1}
  BY <1>6, <1>10
<1>12. PICK bits : bits = IF r + e <= g THEN q ELSE q + 1
  OBVIOUS
<1>13. Bf16Bits(u) = bits
  <2>1. PICK x : x = u + e + g - 1
    OBVIOUS
  <2>2. x \in Nat /\ x = A + (r + e + g - 1) /\ r + e + g - 1 \in Nat
    BY <1>3, <1>6, <1>8, <1>11, <2>1
  <2>3. x % (Half * Half) = x
    <3>1. PICK W : W = Half * Half
      OBVIOUS
    <3>2. A + 2 * Half <= W /\ W \in Nat \ {0}
      <4>1. q + 2 <= Half
        BY <1>3, <1>6, <1>9
      <4>2. (q + 2) * Half <= Half * Half
        BY <1>1, <1>6, <4>1, Times
      <4>3. (q + 2) * Half = A + 2 * Half
        BY <1>1, <1>6, <1>7
      <4>4. W \in Nat
        BY <1>1, <3>1
      <4> QED BY <1>1, <1>8, <3>1, <4>2, <4>3, <4>4
    <3>3. x < W
      BY <1>3, <1>6, <1>8, <1>11, <2>2, <3>2
    <3>4. x = 0 * W + x
      BY <2>2, <3>2
    <3>5. x % W = x
      BY <2>2, <3>2, <3>3, <3>4, PlaceIs
    <3> QED BY <3>1, <3>5
  <2>4. x \div Half = bits
    <3>1. CASE r + e <= g
      <4>1. r + e + g - 1 < Half
        BY <1>3, <1>6, <1>11, <3>1
      <4>2. x = q * Half + (r + e + g - 1)
        BY <1>7, <2>2
      <4>3. PICK t : t = r + e + g - 1
        OBVIOUS
      <4>4. x \in Nat /\ q \in Nat /\ t \in Nat /\ t < Half /\ x = q * Half + t /\ Half \in Nat \ {0}
        BY <1>1, <1>6, <2>2, <4>1, <4>2, <4>3
      <4>5. x \div Half = q
        BY <4>4, PlaceIs
      <4> QED BY <1>12, <3>1, <4>5
    <3>2. CASE ~(r + e <= g)
      <4>1. PICK s : s = r + e + g - 1 - Half
        OBVIOUS
      <4>2. s \in Nat /\ s < Half
        BY <1>3, <1>6, <1>11, <3>2, <4>1
      <4>3. x = (q + 1) * Half + s
        <5>1. (q + 1) * Half = A + Half
          BY <1>1, <1>6, <1>7, NextBlock
        <5> QED BY <1>1, <1>3, <1>6, <1>8, <1>11, <2>2, <4>1, <4>2, <5>1
      <4>4. PICK p : p = q + 1
        OBVIOUS
      <4>5. x \in Nat /\ p \in Nat /\ s \in Nat /\ s < Half /\ x = p * Half + s /\ Half \in Nat \ {0}
        BY <1>1, <1>6, <2>2, <4>2, <4>3, <4>4
      <4>6. x \div Half = p
        BY <4>5, PlaceIs
      <4> QED BY <1>12, <3>2, <4>4, <4>6
    <3> QED BY <3>1, <3>2
  <2>5. Bf16Bits(u) = ((u + e + g - 1) % (Half * Half)) \div Half
    BY <1>2, <1>5, <1>10 DEF Bf16Bits
  <2> QED BY <2>1, <2>3, <2>4, <2>5
<1>14. PICK n : n = bits * Half
  OBVIOUS
<1>15. n = IF r + e <= g THEN A ELSE A + Half
  BY <1>1, <1>6, <1>7, <1>12, <1>14, NextBlock
<1>16. n \in Nat /\ bits \in Nat
  BY <1>1, <1>6, <1>8, <1>12, <1>15
<1>17. n \div Half = bits
  <2>1. n = bits * Half + 0 /\ 0 \in Nat /\ 0 < Half
    BY <1>1, <1>14, <1>16
  <2> QED BY <1>1, <1>16, <2>1, PlaceIs
<1>18. u % Half = 0 => n = u
  BY <1>3, <1>5, <1>8, <1>11, <1>15
<1>19. ASSUME NEW m \in 0 .. Half - 1
       PROVE  /\ Distance(n, u) <= Distance(m * Half, u)
              /\ Distance(n, u) = Distance(m * Half, u) /\ n # m * Half => (n \div Half) % 2 = 0
  <2>1. PICK M : M = m * Half
    OBVIOUS
  <2>2. m \in Nat /\ M \in Nat
    BY <1>1, <2>1, Times
  <2>3. m <= q => M <= A
    BY <1>1, <1>6, <1>7, <2>1, <2>2, Times
  <2>4. m >= q + 1 => M >= A + Half
    <3>1. (q + 1) * Half = A + Half
      BY <1>1, <1>6, <1>7, NextBlock
    <3> QED BY <1>1, <1>6, <2>1, <2>2, <3>1, Times
  <2>5. M <= A \/ M >= A + Half
    BY <1>6, <2>2, <2>3, <2>4
  <2>6. Distance(n, u) <= Distance(M, u)
    BY <1>1, <1>3, <1>6, <1>8, <1>11, <1>15, <2>2, <2>5 DEF Distance
  <2>7. ASSUME Distance(n, u) = Distance(M, u), n # M PROVE bits % 2 = 0
    <3>1. CASE r + e <= g
      <4>1. r = g /\ e = 0
        BY <1>1, <1>3, <1>6, <1>8, <1>11, <1>15, <2>2, <2>5, <2>7, <3>1 DEF Distance
      <4> QED BY <1>10, <1>12, <3>1, <4>1
    <3>2. CASE ~(r + e <= g)
      <4>1. e = 1
        BY <1>1, <1>3, <1>6, <1>8, <1>11, <1>15, <2>2, <2>5, <2>7, <3>2 DEF Distance
      <4>2. bits = q + 1 /\ q % 2 = 1
        BY <1>10, <1>12, <3>2, <4>1
      <4> QED BY <1>6, <4>2
    <3> QED BY <3>1, <3>2
  <2> QED BY <1>17, <2>1, <2>6, <2>7
<1> QED BY <1>13, <1>14, <1>18, <1>19 DEF F32OfBf16, Nearest

-----------------------------------------------------------------------------
(* The raw cache of a caller *)

(* Every column is of its token at its position (the vectors of the fake   *)
(* backend have none), and genuine where it says so                        *)
Placed(c, b, g) ==
    \A i \in 1 .. Len(c.toks) :
        /\ c.cols[i].tok = c.toks[i]
        /\ b # "fake" => c.cols[i].pos = i - 1
        /\ (i - 1) \in g => c.cols[i] = Forward(<< >>, c.toks, 0)[i]

RawFact(c, b, g, sg) ==
    /\ c.toks \in Seq(TokenIds) /\ c.toks # << >> /\ c.toks = Tokens(sg)
    /\ c = RawOf(c.cols, c.toks) /\ Long(c.cols, Len(c.toks))
    /\ g = Exact \/ b # "hf" => c = PrefillOf(b, c.toks, 0)
    /\ g # Exact => Placed(c, b, g) /\ \A p \in g : p \in Nat /\ p < Len(c.toks)

(* A segment at the end of a context *)
LEMMA TokensAppend ==
    ASSUME NEW S, NEW sg \in Seq(Seq(S)), NEW d \in Seq(S), NEW x, Appended(x, sg, d)
    PROVE  x \in Seq(Seq(S)) /\ Tokens(x) = Tokens(sg) \o d
<1>1. PICK V, n, k : V = Seq(S) /\ n = Len(sg) /\ k = n + 1
  OBVIOUS
<1>2. n \in Nat /\ x \in Seq(V) /\ Len(x) = k /\ x[k] = d /\ \A i \in 1 .. n : x[i] = sg[i]
  <2>1. sg \in Seq(V) /\ d \in V
    BY <1>1
  <2> QED BY <1>1, <2>1, LenProperties, AppendProperties DEF Appended
<1>3. Long(x, k) /\ Long(sg, n) /\ n \in 0 .. k /\ k \in Nat
  BY <1>1, <1>2, SeqIsLong
<1>4. SubSeq(x, 1, n) = sg
  <2>1. PICK u : Cut(u, x, 1, n)
    BY DEF Cut
  <2>2. Long(u, n) /\ \A i \in 1 .. n : u[i] = x[i]
    BY <1>3, <2>1, LongPrefix
  <2>3. u = sg
    BY <1>2, <1>3, <2>2, SameSeq
  <2> QED BY <2>1, <2>3 DEF Cut
<1>5. k \in 1 .. Len(x) /\ k - 1 = n
  BY <1>1, <1>2
<1>6. x \in Seq(Seq(S))
  BY <1>1, <1>2
<1>7. FlattenSeq(SubSeq(x, 1, k)) = FlattenSeq(SubSeq(x, 1, k - 1)) \o x[k]
  BY <1>5, <1>6, Flatten
<1>8. FlattenSeq(SubSeq(x, 1, Len(x))) = FlattenSeq(x)
  BY <1>6, Flatten
<1>9. FlattenSeq(x) = FlattenSeq(sg) \o d
  BY <1>2, <1>4, <1>5, <1>7, <1>8
<1> QED BY <1>6, <1>9 DEF Tokens

(* A prefill is a raw cache without a misplaced column *)
LEMMA PrefillFact ==
    ASSUME NEW b \in {"hf", "vllm", "fake"}, NEW toks \in Seq(TokenIds), toks # << >>,
           NEW c, c = PrefillOf(b, toks, 0), NEW sg, toks = Tokens(sg), NEW g \in {Exact, {}}
    PROVE  RawFact(c, b, g, sg)
<1>1. PICK cols, n : cols = Cols(b, toks) /\ n = Len(toks)
  OBVIOUS
<1>2. c = RawOf(cols, toks)
  BY <1>1, PrefillIs
<1>3. n \in Nat /\ Long(cols, n) /\ \A i \in 1 .. n : cols[i].tok = toks[i] /\ (b # "fake" => cols[i].pos = i - 1)
  BY <1>1, ColsAre
<1>4. c.cols = cols /\ c.toks = toks
  BY <1>1, <1>2, <1>3, RawFields
<1>5. g # Exact => Placed(c, b, g) /\ \A p \in g : p \in Nat /\ p < n
  BY <1>1, <1>3, <1>4 DEF Placed
<1> QED BY <1>1, <1>2, <1>3, <1>4, <1>5 DEF RawFact

(* Columns that go on after those of a cache *)
LEMMA GrowFact ==
    ASSUME NEW c, NEW g, NEW sg, RawFact(c, "hf", g, sg), NEW d \in Seq(TokenIds),
           NEW t, Put(t, c.toks, d), NEW n, n = Len(c.toks), NEW m, m = Len(d),
           NEW w, Follows(w, c.cols, n, d, m, n), NEW x, x = RawOf(w, t), NEW s2, Tokens(s2) = t
    PROVE  RawFact(x, "hf", g, s2)
<1>1. PICK a, cols : a = c.toks /\ cols = c.cols
  OBVIOUS
<1>2. /\ a \in Seq(TokenIds) /\ a # << >> /\ c = RawOf(cols, a) /\ Long(cols, n) /\ Put(t, a, d)
      /\ Follows(w, cols, n, d, m, n) /\ n = Len(a)
  BY <1>1 DEF RawFact
<1>3. /\ n \in Nat /\ m \in Nat /\ t \in Seq(TokenIds) /\ Len(t) = n + m
      /\ Long(a, n) /\ Long(d, m)
  <2>1. n \in Nat /\ m \in Nat /\ Long(a, n) /\ Long(d, m)
    BY <1>2, LenProperties, SeqIsLong
  <2>2. t \in Seq(TokenIds) /\ Len(t) = Len(a) + Len(d)
    <3>1. a \in Seq(TokenIds) /\ t = a \o d
      BY <1>1 DEF RawFact, Put
    <3> QED BY <3>1, ConcatProperties
  <2>3. n = Len(a)
    BY <1>1
  <2> QED BY <2>1, <2>2, <2>3
<1>4. (\A i \in 1 .. n : t[i] = a[i]) /\ (\A i \in 1 .. m : t[n + i] = d[i])
  <2>1. Put(t, a, d)
    BY <1>1
  <2>2. n \in Nat /\ m \in Nat /\ Long(a, n) /\ Long(d, m)
    BY <1>3
  <2> QED BY <2>1, <2>2, LongConcat
<1>5. t # << >>
  <2>1. n # 0
    BY <1>2, <1>3, LongIsSeq
  <2>2. Len(t) # 0
    BY <1>3, <2>1
  <2> QED BY <2>2, EmptyLong
<1>6. Long(w, n + m) /\ x.cols = w /\ x.toks = t
  <2>1. Long(w, n + m)
    BY <1>2 DEF Follows
  <2> QED BY <1>3, <2>1, RawFields
<1>7. PICK v, y : v = Forward(<< >>, a, 0) /\ y = Forward(<< >>, t, 0)
  OBVIOUS
<1>8. ASSUME g = Exact PROVE x = PrefillOf("hf", t, 0)
  <2>1. c = PrefillOf("hf", a, 0)
    BY <1>1, <1>8 DEF RawFact
  <2>2. c = RawOf(v, a) /\ PrefillOf("hf", t, 0) = RawOf(y, t)
    BY <1>7, <2>1, PrefillIs DEF Cols
  <2>3. cols = v
    <3>1. n \in Nat /\ n = Len(a)
      BY <1>1, <1>3
    <3>2. c = RawOf(cols, a)
      BY <1>1 DEF RawFact
    <3>3. c = RawOf(v, a)
      BY <2>2
    <3>4. Len(a) \in Nat
      BY <3>1
    <3>5. c.cols = cols
      BY <3>2, <3>4, RawFields
    <3>6. c.cols = v
      BY <3>3, <3>4, RawFields
    <3> QED BY <3>5, <3>6
  <2>4. w = y
    BY <1>2, <1>7, <2>3, FollowsPrefill
  <2> QED BY <2>2, <2>4
<1>9. ASSUME g # Exact PROVE Placed(x, "hf", g) /\ \A p \in g : p \in Nat /\ p < Len(t)
  <2>1. /\ \A i \in 1 .. n : /\ cols[i].tok = a[i] /\ cols[i].pos = i - 1
                             /\ (i - 1) \in g => cols[i] = v[i]
        /\ \A p \in g : p \in Nat /\ p < n
    BY <1>1, <1>7, <1>9 DEF RawFact, Placed
  <2>2. \A i \in 1 .. n : y[i] = v[i]
    <3>1. PICK z : z = Forward(v, d, n)
      OBVIOUS
    <3>2. Follows(z, v, n, d, m, n)
      <4>1. Long(v, n)
        BY <1>2, <1>7, ForwardColumns
      <4> QED BY <1>3, <3>1, <4>1, ForwardFollows
    <3>3. z = y
      BY <1>2, <1>7, <3>2, FollowsPrefill
    <3> QED BY <3>2, <3>3 DEF Follows
  <2>3. ASSUME NEW i \in 1 .. n + m
        PROVE  /\ w[i].tok = t[i] /\ w[i].pos = i - 1
               /\ (i - 1) \in g => w[i] = y[i]
    <3>1. CASE i \in 1 .. n
      <4>1. w[i] = cols[i]
        BY <1>2, <3>1 DEF Follows
      <4> QED BY <1>4, <2>1, <2>2, <3>1, <4>1
    <3>2. CASE i \notin 1 .. n
      <4>1. PICK k : k = i - n
        OBVIOUS
      <4>2. k \in 1 .. m /\ i = n + k
        BY <1>3, <3>2, <4>1
      <4>3. w[n + k] = Column(d[k], n + k - 1, SubSeq(w, 1, n + k - 1))
        BY <1>2, <4>2 DEF Follows
      <4>4. PICK p : p = SubSeq(w, 1, n + k - 1)
        OBVIOUS
      <4>5. w[i] = [tok |-> d[k], pos |-> n + k - 1, past |-> p]
        BY <4>2, <4>3, <4>4 DEF Column
      <4>6. (i - 1) \notin g
        BY <1>3, <2>1, <3>2
      <4> QED BY <1>3, <1>4, <4>2, <4>5, <4>6
    <3> QED BY <3>1, <3>2
  <2>4. Placed(x, "hf", g)
    BY <1>3, <1>6, <1>7, <2>3 DEF Placed
  <2> QED BY <1>3, <2>1, <2>4
<1> QED BY <1>3, <1>5, <1>6, <1>8, <1>9 DEF RawFact

-----------------------------------------------------------------------------
(* The invariant of the caller *)

(* What a file of a raw cache holds, and what the connector stored *)
FileFact(f, b, g, sg) ==
    /\ g = Exact
    /\ f.token_ids \in Seq(TokenIds) /\ f.token_ids # << >> /\ f.token_ids = Tokens(sg)
    /\ LoadKVCache(f) = PrefillOf(b, f.token_ids, 0)
    /\ Numberlike(f.was) /\ f.number = Encode(f.was, f.store_dtype)

PagedFact(f, b, sg) ==
    /\ b = "vllm"
    /\ f.kv.toks \in Seq(TokenIds) /\ f.kv.toks # << >> /\ f.kv.toks = Tokens(sg)
    /\ f.kv = PrefillOf("vllm", f.kv.toks, 0)
    /\ f.key = PrefixKey(f.kv.toks, "model")

(* A caller whose session is on its way holds nothing; one that holds a    *)
(* cartridge holds no cache                                                *)
Carried(m, c, k, fs) ==
    /\ m.kind \in {"kv", "paged", "compact"} => c = None /\ k = None /\ fs = << >>
    /\ k # None => c = None

(* A selective recompute is HFBackend's; what it left of the phases is     *)
(* forgotten with the cache                                                *)
Known(b, g, c, m) ==
    /\ b # "hf" => g \in {Exact, {}}
    /\ g # Exact => c.kind = "raw" \/ m.kind = "paged"

CoreInv ==
    /\ backend \in {"hf", "vllm", "fake"}
    /\ segs \in Seq(Seq(TokenIds))
    /\ Known(backend, genuine, ctx, moved)
    /\ Carried(moved, ctx, cart, files)
    /\ ctx.kind = "raw" => RawFact(ctx, backend, genuine, segs)
    /\ moved.kind = "kv" => FileFact(moved, backend, genuine, segs)
    /\ moved.kind = "paged" => PagedFact(moved, backend, segs)

(* Nothing the invariant speaks of changes *)
LEMMA CoreStays ==
    ASSUME CoreInv, UNCHANGED <<backend, moved, ctx, segs, genuine, cart, files>>
    PROVE  CoreInv'
  BY DEF CoreInv

(* The caller has nothing under way while it holds a cache or a cartridge *)
LEMMA NothingMoves ==
    ASSUME CoreInv, ctx # None \/ cart # None
    PROVE  /\ moved.kind \notin {"kv", "paged", "compact"}
           /\ ctx.kind # "raw" => genuine = Exact
           /\ ctx # None => cart = None
  BY DEF CoreInv, Carried, Known, None

(* A step that leaves the caller without a raw cache *)
LEMMA CoreWithoutRaw ==
    ASSUME CoreInv, ctx # None \/ cart # None, genuine = Exact,
           ctx'.kind # "raw", cart' # None => ctx' = None, segs' \in {segs, << >>},
           UNCHANGED <<backend, genuine, moved>>
    PROVE  CoreInv'
<1>1. moved'.kind \notin {"kv", "paged", "compact"}
  BY NothingMoves
<1>2. backend' \in {"hf", "vllm", "fake"} /\ segs' \in Seq(Seq(TokenIds))
  <2>1. backend \in {"hf", "vllm", "fake"} /\ segs \in Seq(Seq(TokenIds))
    BY DEF CoreInv
  <2>2. << >> \in Seq(Seq(TokenIds))
    BY EmptySeq
  <2> QED BY <2>1, <2>2
<1>3. Known(backend', genuine', ctx', moved')
  BY DEF Known
<1>4. Carried(moved', ctx', cart', files')
  BY <1>1 DEF Carried
<1> QED BY <1>1, <1>2, <1>3, <1>4 DEF CoreInv

LEMMA KindsDiffer ==
    /\ None.kind = "none" /\ Error.kind = "error" /\ Arrived.kind = "arrived"
    /\ \A h, l, t, m : CompactCache(h, l, t, m).kind = "compact"
    /\ \A c, p, t : KVCache(c, p, t).kind = "raw"
  BY DEF None, Error, Arrived, CompactCache, KVCache

LEMMA SegmentationIsTyped ==
    ASSUME NEW sg \in Segmentations
    PROVE  /\ sg \in Seq(Seq(TokenIds)) /\ Tokens(sg) \in Seq(TokenIds) /\ Tokens(sg) # << >>
           /\ HF!Tokens(sg) = Tokens(sg)
<1>1. sg \in Seq(Seq(TokenIds)) /\ Len(HF!Tokens(sg)) \in 1 .. MaxLen
  <2>1. sg \in SeqOf(Segments, 3) /\ Len(HF!Tokens(sg)) \in 1 .. MaxLen
    BY DEF Segmentations
  <2>2. PICK n \in 0 .. 3 : sg \in [1 .. n -> Segments]
    BY <2>1 DEF SeqOf
  <2>3. \A i \in 1 .. n : sg[i] \in Seq(TokenIds)
    BY <2>2, EngineAssumption
  <2>4. sg \in [1 .. n -> Seq(TokenIds)]
    BY <2>2, <2>3
  <2>5. n \in Nat
    OBVIOUS
  <2> QED BY <2>1, <2>4, <2>5, SeqDef
<1>2. PICK toks : toks = Tokens(sg)
  OBVIOUS
<1>3. HF!Tokens(sg) = toks
  BY <1>2, SameTokens
<1>4. toks \in Seq(TokenIds)
  BY <1>1, <1>2, Flatten DEF Tokens
<1>5. Len(toks) # 0
  BY <1>1, <1>3
<1> QED BY <1>1, <1>2, <1>3, <1>4, <1>5, EmptyLong

LEMMA StartCore ==
    ASSUME CoreInv, NEW sg \in Segmentations, Start(sg)
    PROVE  CoreInv'
<1>1. sg \in Seq(Seq(TokenIds))
  BY SegmentationIsTyped
<1>2. PICK toks : toks = Tokens(sg)
  OBVIOUS
<1>3. toks \in Seq(TokenIds) /\ toks # << >> /\ HF!Tokens(sg) = toks
  BY <1>2, SegmentationIsTyped
<1>4. /\ ctx = None /\ cart = None /\ moved = None /\ ctx' = PrefillOf(backend, toks, 0) /\ segs' = sg
      /\ UNCHANGED <<backend, genuine, cart, files, moved>>
  BY <1>3 DEF Start
<1>5. genuine = Exact /\ backend \in {"hf", "vllm", "fake"}
  BY <1>4, KindsDiffer DEF CoreInv, Known
<1>6. RawFact(ctx', backend', genuine', segs')
  BY <1>2, <1>3, <1>4, <1>5, PrefillFact
<1>7. moved'.kind = "none"
  BY <1>4, KindsDiffer
<1>8. segs' \in Seq(Seq(TokenIds)) /\ backend' \in {"hf", "vllm", "fake"}
  BY <1>1, <1>4, <1>5
<1>9. Known(backend', genuine', ctx', moved') /\ Carried(moved', ctx', cart', files')
  BY <1>4, <1>5, <1>7 DEF Known, Carried
<1> QED BY <1>6, <1>7, <1>8, <1>9 DEF CoreInv

LEMMA EmptyIsTyped == << >> \in Seq(Seq(TokenIds)) /\ << >> \in Seq(TokenIds)
  BY EmptySeq

(* What a caller with a raw cache knows *)
LEMMA RawHeld ==
    ASSUME CoreInv, Raw
    PROVE  /\ RawFact(ctx, backend, genuine, segs)
           /\ backend \in {"hf", "vllm", "fake"} /\ segs \in Seq(Seq(TokenIds))
           /\ backend # "hf" => genuine \in {Exact, {}}
           /\ ctx # None /\ cart = None
           /\ moved.kind \notin {"kv", "paged", "compact"}
<1>1. ctx.kind = "raw" /\ ctx # None
  BY KindsDiffer DEF Raw
<1> QED BY <1>1, NothingMoves DEF CoreInv, Known

(* A step that leaves the caller with a raw cache *)
LEMMA CoreWithRaw ==
    ASSUME CoreInv, ctx'.kind = "raw", RawFact(ctx', backend, genuine', segs'),
           segs' \in Seq(Seq(TokenIds)), backend # "hf" => genuine' \in {Exact, {}},
           moved'.kind \notin {"kv", "paged", "compact"}, cart' = None, UNCHANGED backend
    PROVE  CoreInv'
<1>1. backend' \in {"hf", "vllm", "fake"}
  BY DEF CoreInv
<1>2. Known(backend', genuine', ctx', moved') /\ Carried(moved', ctx', cart', files')
  BY DEF Known, Carried
<1> QED BY <1>1, <1>2 DEF CoreInv

(* What a raw cache is behind a longer one's tokens *)
LEMMA FakeGrows ==
    ASSUME NEW c, NEW d, NEW t, Put(t, c.toks, d)
    PROVE  FK!Extend(c, d) = PrefillOf("fake", t, 0)
  BY DEF FK!Extend, PrefillOf, Put

LEMMA GrownTokens ==
    ASSUME NEW sg \in Seq(Seq(TokenIds)), NEW d \in Seq(TokenIds), NEW t, Put(t, Tokens(sg), d)
    PROVE  /\ Append(sg, d) \in Seq(Seq(TokenIds)) /\ Tokens(Append(sg, d)) = t
           /\ t \in Seq(TokenIds)
<1>1. PICK x : Appended(x, sg, d)
  BY DEF Appended
<1>2. x \in Seq(Seq(TokenIds)) /\ Tokens(x) = Tokens(sg) \o d
  BY <1>1, TokensAppend
<1>3. Tokens(sg) \in Seq(TokenIds)
  BY Flatten DEF Tokens
<1>4. Tokens(sg) \o d \in Seq(TokenIds)
  BY <1>3, ConcatProperties
<1> QED BY <1>1, <1>2, <1>4 DEF Appended, Put

LEMMA PutNotEmpty ==
    ASSUME NEW S, NEW a \in Seq(S), NEW b \in Seq(S), a # << >> \/ b # << >>, NEW t, Put(t, a, b)
    PROVE  t \in Seq(S) /\ t # << >>
<1>1. PICK m, n : m = Len(a) /\ n = Len(b)
  OBVIOUS
<1>2. m \in Nat /\ n \in Nat /\ Long(a, m) /\ Long(b, n)
  BY <1>1, LenProperties, SeqIsLong
<1>3. Long(t, m + n)
  BY <1>2, LongConcat
<1>4. m + n # 0
  <2>1. m # 0 \/ n # 0
    BY <1>2, LongIsSeq
  <2> QED BY <1>2, <2>1
<1>5. t # << >>
  BY <1>3, <1>4, LongIsSeq, EmptyLong
<1>6. t \in Seq(S)
  BY ConcatProperties DEF Put
<1> QED BY <1>5, <1>6

LEMMA ExtendCore ==
    ASSUME CoreInv, NEW d \in Seq(TokenIds), ExtendContext(d)
    PROVE  CoreInv'
<1>1. Raw
  BY DEF ExtendContext
<1>2. PICK c, toks, n : c = ctx /\ toks = ctx.toks /\ n = Len(toks)
  OBVIOUS
<1>3. /\ RawFact(c, backend, genuine, segs)
      /\ backend \in {"hf", "vllm", "fake"} /\ segs \in Seq(Seq(TokenIds))
      /\ backend # "hf" => genuine \in {Exact, {}}
      /\ cart = None /\ moved.kind \notin {"kv", "paged", "compact"}
  BY <1>1, <1>2, RawHeld
<1>4. toks \in Seq(TokenIds) /\ toks # << >> /\ toks = Tokens(segs)
      /\ c = RawOf(c.cols, toks) /\ Long(c.cols, n)
  BY <1>2, <1>3 DEF RawFact
<1>5. PICK t : Put(t, toks, d)
  BY DEF Put
<1>6. t \in Seq(TokenIds) /\ t # << >>
  BY <1>4, <1>5, PutNotEmpty
<1>7. Append(segs, d) \in Seq(Seq(TokenIds)) /\ Tokens(Append(segs, d)) = t
  <2>1. Put(t, Tokens(segs), d)
    BY <1>4, <1>5
  <2> QED BY <1>3, <2>1, GrownTokens
<1>8. Grown(segs, d) \in Seq(Seq(TokenIds)) /\ Tokens(Grown(segs, d)) = t
  <2>1. CASE d = << >>
    <3>1. t = toks
      BY <1>4, <1>5, <2>1, ConcatEmptySeq DEF Put
    <3> QED BY <1>3, <1>4, <2>1, <3>1 DEF Grown
  <2>2. CASE d # << >>
    BY <1>7, <2>2 DEF Grown
  <2> QED BY <2>1, <2>2
<1>9. CASE backend = "vllm" /\ Unsupported
  BY <1>9, CoreStays DEF Unsupported
<1>10. CASE backend = "hf" /\ ctx' = HF!Extend(c, d) /\ segs' = Grown(segs, d)
            /\ UNCHANGED <<backend, genuine, cart, moved>>
  <2>1. PICK w, m : m = Len(d) /\ HF!Extend(c, d) = RawOf(w, t) /\ Follows(w, c.cols, n, d, m, n)
    BY <1>2, <1>4, <1>5, ExtendFollows
  <2>2. PICK x, s2 : x = RawOf(w, t) /\ s2 = Grown(segs, d)
    OBVIOUS
  <2>3. RawFact(x, "hf", genuine, s2)
    <3>1. n = Len(c.toks) /\ Put(t, c.toks, d) /\ Tokens(s2) = t /\ RawFact(c, "hf", genuine, segs)
      BY <1>2, <1>3, <1>5, <1>8, <1>10, <2>2
    <3> QED BY <2>1, <2>2, <3>1, GrowFact
  <2>4. ctx' = x /\ segs' = s2 /\ s2 \in Seq(Seq(TokenIds))
    BY <1>8, <1>10, <2>1, <2>2
  <2>5. ctx'.kind = "raw"
    BY <2>2, <2>4 DEF RawOf, KVCache
  <2> QED BY <1>3, <1>10, <2>3, <2>4, <2>5, CoreWithRaw
<1>11. CASE backend = "fake" /\ ctx' = FK!Extend(c, d) /\ segs' = Grown(segs, d)
            /\ UNCHANGED <<backend, genuine, cart, moved>>
  <2>1. PICK x, s2 : x = PrefillOf("fake", t, 0) /\ s2 = Grown(segs, d)
    OBVIOUS
  <2>2. ctx' = x /\ segs' = s2 /\ s2 \in Seq(Seq(TokenIds)) /\ Tokens(s2) = t
    <3>1. Put(t, c.toks, d)
      BY <1>2, <1>5
    <3>2. FK!Extend(c, d) = x
      BY <2>1, <3>1, FakeGrows
    <3> QED BY <1>8, <1>11, <2>1, <3>2
  <2>3. genuine \in {Exact, {}}
    BY <1>3, <1>11
  <2>4. RawFact(x, "fake", genuine, s2)
    BY <1>6, <2>1, <2>2, <2>3, PrefillFact
  <2>5. x.kind = "raw"
    BY <2>1, PrefillIs DEF RawOf, KVCache
  <2> QED BY <1>3, <1>11, <2>2, <2>3, <2>4, <2>5, CoreWithRaw
<1> QED BY <1>2, <1>9, <1>10, <1>11 DEF ExtendContext

LEMMA GenerateExtendCore ==
    ASSUME CoreInv, NEW p \in Seq(TokenIds), NEW r \in Seq(TokenIds), GenerateAndExtend(p, r)
    PROVE  CoreInv'
<1>1. Raw
  BY DEF GenerateAndExtend
<1>2. PICK c, toks, n : c = ctx /\ toks = ctx.toks /\ n = Len(toks)
  OBVIOUS
<1>3. /\ RawFact(c, backend, genuine, segs)
      /\ backend \in {"hf", "vllm", "fake"} /\ segs \in Seq(Seq(TokenIds))
      /\ backend # "hf" => genuine \in {Exact, {}}
      /\ cart = None /\ moved.kind \notin {"kv", "paged", "compact"}
  BY <1>1, <1>2, RawHeld
<1>4. toks \in Seq(TokenIds) /\ toks # << >> /\ toks = Tokens(segs)
      /\ c = RawOf(c.cols, toks) /\ Long(c.cols, n)
  BY <1>2, <1>3 DEF RawFact
<1>5. PICK d : Put(d, p, r)
  BY DEF Put
<1>6. d \in Seq(TokenIds) /\ d = p \o r
  BY <1>5, ConcatProperties DEF Put
<1>7. PICK t : Put(t, toks, d)
  BY DEF Put
<1>8. t \in Seq(TokenIds) /\ t # << >>
  BY <1>4, <1>6, <1>7, PutNotEmpty
<1>9. PICK s2 : s2 = Append(segs, d)
  OBVIOUS
<1>10. s2 \in Seq(Seq(TokenIds)) /\ Tokens(s2) = t
  <2>1. Put(t, Tokens(segs), d)
    BY <1>4, <1>7
  <2> QED BY <1>3, <1>6, <1>9, <2>1, GrownTokens
<1>11. CASE backend = "vllm" /\ Unsupported
  BY <1>11, CoreStays DEF Unsupported
<1>12. CASE backend = "hf" /\ ctx' = HF!GenerateAndExtend(c, p, r) /\ segs' = s2
            /\ UNCHANGED <<backend, genuine, cart, moved>>
  <2>1. PICK w, m : m = Len(d) /\ HF!GenerateAndExtend(c, p, r) = RawOf(w, t)
                    /\ Follows(w, c.cols, n, d, m, n)
    BY <1>2, <1>4, <1>5, <1>7, GenerateFollows
  <2>2. PICK x : x = RawOf(w, t)
    OBVIOUS
  <2>3. RawFact(x, "hf", genuine, s2)
    <3>1. n = Len(c.toks) /\ Put(t, c.toks, d) /\ RawFact(c, "hf", genuine, segs)
      BY <1>2, <1>3, <1>7, <1>12
    <3> QED BY <1>6, <1>10, <2>1, <2>2, <3>1, GrowFact
  <2>4. ctx' = x
    BY <1>12, <2>1, <2>2
  <2>5. ctx'.kind = "raw"
    BY <2>2, <2>4 DEF RawOf, KVCache
  <2> QED BY <1>3, <1>10, <1>12, <2>3, <2>4, <2>5, CoreWithRaw
<1>13. CASE backend = "fake" /\ ctx' = FK!GenerateAndExtend(c, p, r) /\ segs' = s2
            /\ UNCHANGED <<backend, genuine, cart, moved>>
  <2>1. PICK x : x = PrefillOf("fake", t, 0)
    OBVIOUS
  <2>2. ctx' = x
    <3>1. Put(t, c.toks, d)
      BY <1>2, <1>7
    <3>2. FK!Extend(c, d) = x
      BY <2>1, <3>1, FakeGrows
    <3>3. FK!GenerateAndExtend(c, p, r) = FK!Extend(c, d)
      BY <1>6 DEF FK!GenerateAndExtend
    <3> QED BY <1>13, <3>2, <3>3
  <2>3. genuine \in {Exact, {}}
    BY <1>3, <1>13
  <2>4. RawFact(x, "fake", genuine, s2)
    BY <1>8, <1>10, <2>1, <2>3, PrefillFact
  <2>5. x.kind = "raw"
    BY <2>1, PrefillIs DEF RawOf, KVCache
  <2> QED BY <1>3, <1>10, <1>13, <2>2, <2>3, <2>4, <2>5, CoreWithRaw
<1>14. segs' = Append(segs, p \o r) => segs' = s2
  BY <1>6, <1>9
<1> QED BY <1>2, <1>11, <1>12, <1>13, <1>14 DEF GenerateAndExtend

LEMMA IncrementalCore ==
    ASSUME CoreInv, NEW new \in Segmentations, RecomputeIncremental(new)
    PROVE  CoreInv'
<1>1. Raw /\ backend = "hf" /\ genuine = Exact /\ ctx' = HF!RecomputeIncremental(ctx, segs, new)
      /\ segs' = new /\ UNCHANGED <<backend, genuine, cart, moved>>
  BY DEF RecomputeIncremental
<1>2. PICK c : c = ctx
  OBVIOUS
<1>3. /\ RawFact(c, backend, genuine, segs) /\ segs \in Seq(Seq(TokenIds))
      /\ cart = None /\ moved.kind \notin {"kv", "paged", "compact"}
  BY <1>1, <1>2, RawHeld
<1>4. c = PrefillOf("hf", Tokens(segs), 0)
  BY <1>1, <1>3 DEF RawFact
<1>5. PICK t : t = Tokens(new)
  OBVIOUS
<1>6. new \in Seq(Seq(TokenIds)) /\ t \in Seq(TokenIds) /\ t # << >>
  BY <1>5, SegmentationIsTyped
<1>7. ctx' = PrefillOf("hf", t, 0)
  BY <1>1, <1>2, <1>3, <1>4, <1>5, <1>6, RecomputeIsPrefill
<1>8. RawFact(ctx', "hf", Exact, new)
  BY <1>5, <1>6, <1>7, PrefillFact
<1>9. ctx'.kind = "raw"
  BY <1>7, PrefillIs DEF RawOf, KVCache
<1> QED BY <1>1, <1>3, <1>6, <1>8, <1>9, CoreWithRaw

-----------------------------------------------------------------------------
(* recompute_selective.  The spans of a plan tile the new context, so that *)
(* each position has one item, and the item says where its column is from. *)

LEMMA OffsetsGrow ==
    ASSUME NEW S, NEW sg \in Seq(Seq(S)), NEW i \in 1 .. Len(sg) + 1, NEW j \in 1 .. Len(sg) + 1, i <= j
    PROVE  Offset(sg, i) <= Offset(sg, j)
<1>1. PICK n : n = Len(sg)
  OBVIOUS
<1>2. /\ n \in Nat /\ \A k \in 1 .. n + 1 : Offset(sg, k) \in Nat
      /\ \A k \in 1 .. n : Len(sg[k]) \in Nat /\ Offset(sg, k + 1) = Offset(sg, k) + Len(sg[k])
  BY <1>1, Offsets
<1> DEFINE T == {k \in 0 .. n + 1 - i : Offset(sg, i) <= Offset(sg, i + k)}
<1>3. 0 \in T
  BY <1>1, <1>2
<1>4. ASSUME NEW k \in 1 .. n + 1 - i, k - 1 \in T PROVE k \in T
  <2>1. PICK q : q = i + (k - 1)
    OBVIOUS
  <2>2. q \in 1 .. n /\ i + k = q + 1
    BY <1>1, <1>2, <2>1
  <2>3. Offset(sg, i) <= Offset(sg, q)
    BY <1>4, <2>1
  <2>4. Offset(sg, q + 1) = Offset(sg, q) + Len(sg[q]) /\ Len(sg[q]) \in Nat /\ Offset(sg, q) \in Nat
        /\ Offset(sg, i) \in Nat
    BY <1>1, <1>2, <2>2
  <2>5. k \in 0 .. n + 1 - i /\ Offset(sg, i) <= Offset(sg, i + k)
    <3>1. Offset(sg, i) <= Offset(sg, q + 1)
      BY <2>3, <2>4
    <3>2. i \in Nat
      BY <1>1, <1>2
    <3> QED BY <1>2, <2>2, <3>1, <3>2
  <2> QED BY <2>5
<1>5. n + 1 - i \in Nat
  BY <1>1, <1>2
<1> HIDE DEF T
<1>6. \A k \in 0 .. n + 1 - i : k \in T
  BY <1>3, <1>4, <1>5, UpTo
<1>7. PICK k : k = j - i
  OBVIOUS
<1>8. k \in 0 .. n + 1 - i /\ j = i + k
  BY <1>1, <1>2, <1>7
<1> QED BY <1>6, <1>8 DEF T

(* Each position lies in one segment *)
LEMMA OneSegment ==
    ASSUME NEW S, NEW sg \in Seq(Seq(S)), NEW p \in Nat, p < Len(Tokens(sg))
    PROVE  \E i \in 1 .. Len(sg) :
              /\ Offset(sg, i) <= p /\ p < Offset(sg, i + 1)
              /\ \A j \in 1 .. Len(sg) : Offset(sg, j) <= p /\ p < Offset(sg, j + 1) => j = i
<1>1. PICK n : n = Len(sg)
  OBVIOUS
<1>2. /\ n \in Nat /\ Offset(sg, 1) = 0 /\ Offset(sg, n + 1) = Len(Tokens(sg))
      /\ \A k \in 1 .. n + 1 : Offset(sg, k) \in Nat
  BY <1>1, Offsets
<1> DEFINE T == {k \in 0 .. n : \/ Offset(sg, k + 1) <= p
                                \/ \E i \in 1 .. k : Offset(sg, i) <= p /\ p < Offset(sg, i + 1)}
<1>3. 0 \in T
  BY <1>2
<1>4. ASSUME NEW k \in 1 .. n, k - 1 \in T PROVE k \in T
  <2>1. CASE Offset(sg, k) <= p
    <3>1. Offset(sg, k + 1) <= p \/ p < Offset(sg, k + 1)
      <4>1. k + 1 \in 1 .. n + 1
        BY <1>2
      <4>2. Offset(sg, k + 1) \in Nat
        BY <1>2, <4>1
      <4> QED BY <4>2
    <3> QED BY <2>1, <3>1
  <2>2. CASE ~ (Offset(sg, k) <= p)
    <3>1. PICK q : q = k - 1
      OBVIOUS
    <3>2. q \in 0 .. n /\ q + 1 = k
      BY <1>2, <3>1
    <3>3. q \in T
      BY <1>4, <3>1
    <3>4. \E i \in 1 .. q : Offset(sg, i) <= p /\ p < Offset(sg, i + 1)
      BY <2>2, <3>2, <3>3
    <3>5. \A i \in 1 .. q : i \in 1 .. k
      BY <3>2
    <3> QED BY <3>4, <3>5
  <2> QED BY <2>1, <2>2
<1> HIDE DEF T
<1>5. n \in T
  <2>1. \A k \in 0 .. n : k \in T
    BY <1>2, <1>3, <1>4, UpTo
  <2> QED BY <1>2, <2>1
<1>6. ~ (Offset(sg, n + 1) <= p)
  BY <1>2
<1>7. PICK i \in 1 .. n : Offset(sg, i) <= p /\ p < Offset(sg, i + 1)
  BY <1>5, <1>6 DEF T
<1>8. ASSUME NEW j \in 1 .. n, Offset(sg, j) <= p, p < Offset(sg, j + 1) PROVE j = i
  <2>1. \A a, b \in 1 .. n + 1 : a <= b => Offset(sg, a) <= Offset(sg, b)
    BY <1>1, OffsetsGrow
  <2>2. i + 1 \in 1 .. n + 1 /\ j + 1 \in 1 .. n + 1 /\ i \in 1 .. n + 1 /\ j \in 1 .. n + 1
    BY <1>2
  <2>3. /\ Offset(sg, i) \in Nat /\ Offset(sg, j) \in Nat
        /\ Offset(sg, i + 1) \in Nat /\ Offset(sg, j + 1) \in Nat
    BY <1>2, <2>2
  <2>4. ~ (i + 1 <= j)
    BY <1>7, <1>8, <2>1, <2>2, <2>3
  <2>5. ~ (j + 1 <= i)
    BY <1>7, <1>8, <2>1, <2>2, <2>3
  <2> QED BY <1>2, <2>4, <2>5
<1> QED BY <1>1, <1>7, <1>8

(* The tokens of a segment stand behind its offset *)
LEMMA SegmentTokens ==
    ASSUME NEW S, NEW sg \in Seq(Seq(S)), NEW i \in 1 .. Len(sg), NEW k \in 1 .. Len(sg[i]),
           NEW p, p = Offset(sg, i) + k
    PROVE  Tokens(sg)[p] = sg[i][k]
<1>1. PICK n, o, l, seg, t : n = Len(sg) /\ o = Offset(sg, i) /\ l = Len(sg[i]) /\ seg = sg[i] /\ t = Tokens(sg)
  OBVIOUS
<1>2. n \in Nat /\ o \in Nat /\ l \in Nat /\ seg \in Seq(S) /\ Len(seg) = l
  <2>1. i \in 1 .. Len(sg) + 1
    BY LenProperties
  <2> QED BY <1>1, <2>1, Offsets
<1>3. PICK before, upto, rest : /\ before = FlattenSeq(SubSeq(sg, 1, i - 1))
                                /\ upto = FlattenSeq(SubSeq(sg, 1, i))
                                /\ rest = Tokens(SubSeq(sg, i + 1, Len(sg)))
  OBVIOUS
<1>4. Put(upto, before, seg) /\ before \in Seq(S)
  <2>1. FlattenSeq(SubSeq(sg, 1, i)) = FlattenSeq(SubSeq(sg, 1, i - 1)) \o sg[i]
    BY Flatten
  <2>2. i - 1 \in 0 .. Len(sg)
    BY LenProperties
  <2>3. FlattenSeq(SubSeq(sg, 1, i - 1)) \in Seq(S)
    BY <2>2, Flatten
  <2> QED BY <1>1, <1>3, <2>1, <2>3 DEF Put
<1>5. Put(t, upto, rest) /\ upto \in Seq(S) /\ rest \in Seq(S)
  <2>1. i \in 0 .. Len(sg)
    BY LenProperties
  <2>2. /\ Tokens(SubSeq(sg, 1, i)) \in Seq(S) /\ Tokens(SubSeq(sg, i + 1, Len(sg))) \in Seq(S)
        /\ Tokens(sg) = Tokens(SubSeq(sg, 1, i)) \o Tokens(SubSeq(sg, i + 1, Len(sg)))
    BY <2>1, TokensSplit
  <2>3. Tokens(SubSeq(sg, 1, i)) = upto
    BY <1>3 DEF Tokens
  <2> QED BY <1>1, <1>3, <2>2, <2>3 DEF Put
<1>6. Len(before) = o
  BY <1>1, <1>3 DEF Offset, Tokens
<1>7. Long(before, o) /\ Long(seg, l)
  BY <1>2, <1>4, <1>6, SeqIsLong
<1>8. Long(upto, o + l) /\ \A j \in 1 .. l : upto[o + j] = seg[j]
  BY <1>2, <1>4, <1>7, LongConcat, SMTT(30)
<1>9. PICK m : m = o + l /\ m \in Nat
  BY <1>2
<1>10. PICK r : r = Len(rest) /\ r \in Nat /\ Long(rest, r)
  BY <1>5, SeqIsLong, LenProperties
<1>11. \A j \in 1 .. m : t[j] = upto[j]
  <2>1. Long(upto, m)
    BY <1>8, <1>9
  <2> QED BY <1>5, <1>9, <1>10, <2>1, LongConcat
<1>12. k \in 1 .. l /\ o + k \in 1 .. m
  BY <1>1, <1>2, <1>9
<1>13. t[o + k] = seg[k]
  BY <1>8, <1>11, <1>12
<1> QED BY <1>1, <1>13

(* The item of a position, and the column it says *)
ItemAt(plan, p) == CHOOSE k \in DOMAIN plan : p \in HF!IndexSpan(plan[k].span)

Source(prev, it, p) == Offset(prev, it.prev) + (p - it.span[1]) + 1

ReusedColumn(c, correct, plan, prev, p) ==
    LET it == plan[ItemAt(plan, p)]
    IN  CASE it.action = "reuse_exact" -> c.cols[Source(prev, it, p)]
          [] it.action = "reuse_shifted" -> HF!Rephase(c.cols[Source(prev, it, p)], it.shift)
          [] it.action = "recompute" -> correct.cols[p + 1]

LEMMA SameOffset ==
    ASSUME NEW sg, NEW i
    PROVE  HF!Offset(sg, i) = Offset(sg, i)
  BY SameTokens DEF HF!Offset, Offset

LEMMA AssembleIs ==
    ASSUME NEW c, NEW correct, NEW plan, NEW prev
    PROVE  HF!AssembleReused(c, correct, plan, prev)
             = KVCache([i \in DOMAIN correct.cols |-> ReusedColumn(c, correct, plan, prev, i - 1)],
                       correct.positions, correct.toks)
<1>1. \A it, p : HF!Offset(prev, it.prev) + (p - it.span[1]) + 1 = Source(prev, it, p)
  BY SameOffset DEF Source
<1> DEFINE Col(p) ==
             LET it == plan[CHOOSE k \in DOMAIN plan : p \in HF!IndexSpan(plan[k].span)]
             IN  CASE it.action = "reuse_exact" -> c.cols[HF!Offset(prev, it.prev) + (p - it.span[1]) + 1]
                   [] it.action = "reuse_shifted" ->
                        HF!Rephase(c.cols[HF!Offset(prev, it.prev) + (p - it.span[1]) + 1], it.shift)
                   [] it.action = "recompute" -> correct.cols[p + 1]
           cols == [i \in DOMAIN correct.cols |-> Col(i - 1)]
<1>2. HF!AssembleReused(c, correct, plan, prev) = HF!KVCache(cols, correct.positions, correct.toks)
  BY DEF HF!AssembleReused
<1>3. \A p : Col(p) = ReusedColumn(c, correct, plan, prev, p)
  BY <1>1 DEF ReusedColumn, ItemAt
<1> HIDE DEF Col
<1>4. cols = [i \in DOMAIN correct.cols |-> ReusedColumn(c, correct, plan, prev, i - 1)]
  BY <1>3
<1> QED BY <1>2, <1>4, SameRecords

(* A shifted segment moves by the distance of its two offsets *)
LEMMA ShiftIs ==
    ASSUME NEW S, NEW prev \in Seq(Seq(S)), NEW new \in Seq(Seq(S)),
           NEW plan, plan = PlanIncremental(prev, new, "selective"),
           NEW i \in 1 .. Len(new), plan[i].action = "reuse_shifted",
           NEW d, d = Offset(new, i) - Offset(prev, plan[i].prev)
    PROVE  plan[i].shift = d
<1>1. DecidedAt(i, plan, prev, new, "selective", Seq(Items(Seq(S))))
  BY Plan
<1>2. PICK before : plan[i] = PlanItem(prev, new, "selective", i, before)
  BY <1>1 DEF DecidedAt
<1>3. PICK m : m = Match(prev, new, i, before)
  OBVIOUS
<1>4. plan[i] = IF i <= CommonPrefixLen(prev, new)
                THEN Item("reuse_exact", new[i], Offset(new, i), i, 0)
                ELSE IF m # NoMatch
                THEN Item("reuse_shifted", new[i], Offset(new, i), m, Offset(new, i) - Offset(prev, m))
                ELSE Item("recompute", new[i], Offset(new, i), NoMatch, 0)
  BY <1>2, <1>3 DEF PlanItem
<1> QED BY <1>4 DEF Item

IsColumn(col, t, p) == \E past : col = Column(t, p, past)

(* The phase s is p turned by d *)
Turned(s, p, d) == s = p + d

(* A column keeps its token when its phase is turned *)
LEMMA RephaseIs ==
    ASSUME NEW t, NEW p \in Int, NEW col, IsColumn(col, t, p), NEW d \in Int, NEW s, Turned(s, p, d),
           NEW x, x = HF!Rephase(col, d)
    PROVE  x.tok = t /\ x.pos = s
<1>1. PICK past : col = Column(t, p, past)
  BY DEF IsColumn
<1> QED BY <1>1 DEF HF!Rephase, Column, Turned

LEMMA ColumnsAre ==
    ASSUME NEW S, NEW t \in Seq(S), NEW w, w = Forward(<< >>, t, 0), NEW n, n = Len(t)
    PROVE  \A i \in 1 .. n : IsColumn(w[i], t[i], i - 1)
<1>1. n \in Nat /\ Long(<< >>, 0)
  BY LenProperties, EmptyLong
<1>2. Follows(w, << >>, 0, t, n, 0)
  BY <1>1, ForwardFollows
<1>3. ASSUME NEW i \in 1 .. n PROVE IsColumn(w[i], t[i], i - 1)
  <2>1. w[0 + i] = Column(t[i], 0 + i - 1, SubSeq(w, 1, 0 + i - 1))
    BY <1>2 DEF Follows
  <2>2. 0 + i = i
    BY <1>1
  <2>3. w[i] = Column(t[i], i - 1, SubSeq(w, 1, i - 1))
    BY <2>1, <2>2
  <2> QED BY <2>3 DEF IsColumn
<1> QED BY <1>3

Agree(a, b, r) == SubSeq(a, 1, r) = SubSeq(b, 1, r)

(* Contexts with the same first r tokens have the same first r columns *)
LEMMA SameColumns ==
    ASSUME NEW S, NEW a \in Seq(S), NEW b \in Seq(S), NEW r \in Nat, r <= Len(a), r <= Len(b),
           Agree(a, b, r), NEW i \in 1 .. r
    PROVE  a[i] = b[i] /\ Forward(<< >>, a, 0)[i] = Forward(<< >>, b, 0)[i]
<1>1. PICK v, w : v = Forward(<< >>, a, 0) /\ w = Forward(<< >>, b, 0)
  OBVIOUS
<1>2. PICK m, n : m = Len(a) /\ n = Len(b)
  OBVIOUS
<1>3. m \in Nat /\ n \in Nat /\ Long(a, m) /\ Long(b, n) /\ r \in 0 .. m /\ r \in 0 .. n
  BY <1>2, SeqIsLong, LenProperties
<1>4. PICK s, t, u, x : Cut(s, v, 1, r) /\ Cut(t, w, 1, r) /\ Cut(u, a, 1, r) /\ Cut(x, b, 1, r)
  BY DEF Cut
<1>5. u = x
  BY <1>4 DEF Cut, Agree
<1>6. s = Forward(<< >>, u, 0) /\ t = Forward(<< >>, x, 0)
  BY <1>1, <1>2, <1>3, <1>4, ForwardCut
<1>7. Long(v, m) /\ Long(w, n)
  BY <1>1, <1>2, ForwardColumns
<1>8. s[i] = v[i] /\ t[i] = w[i] /\ u[i] = a[i] /\ x[i] = b[i]
  BY <1>3, <1>4, <1>7, LongPrefix
<1> QED BY <1>1, <1>5, <1>6, <1>8

(* Segment i alone holds position p *)
Holds(new, plan, p, i) ==
    /\ i \in 1 .. Len(new)
    /\ ItemAt(plan, p) = i
    /\ \A k \in DOMAIN plan : p \in HF!IndexSpan(plan[k].span) => k = i
    /\ Offset(new, i) \in Nat /\ p - Offset(new, i) + 1 \in 1 .. Len(new[i])

(* What the item of a position says of it *)
LEMMA ItemIs ==
    ASSUME NEW S, NEW prev \in Seq(Seq(S)), NEW new \in Seq(Seq(S)),
           NEW plan, plan = PlanIncremental(prev, new, "selective"),
           NEW p \in Nat, p < Len(Tokens(new))
    PROVE  \E i : Holds(new, plan, p, i)
<1>1. PICK c : c = CommonPrefixLen(prev, new)
  OBVIOUS
<1>2. /\ DOMAIN plan = 1 .. Len(new)
      /\ \A i \in 1 .. Len(new) : plan[i].span[1] = Offset(new, i) /\ plan[i].span[2] = Offset(new, i + 1)
  BY <1>1, PlanFacts DEF Fits
<1>3. PICK n : n = Len(new)
  OBVIOUS
<1>4. /\ n \in Nat /\ \A k \in 1 .. n + 1 : Offset(new, k) \in Nat
      /\ \A k \in 1 .. n : Len(new[k]) \in Nat /\ Offset(new, k + 1) = Offset(new, k) + Len(new[k])
  BY <1>3, Offsets
<1>5. PICK i \in 1 .. n :
         /\ Offset(new, i) <= p /\ p < Offset(new, i + 1)
         /\ \A j \in 1 .. n : Offset(new, j) <= p /\ p < Offset(new, j + 1) => j = i
  BY <1>3, OneSegment
<1>6. \A k \in 1 .. n : p \in HF!IndexSpan(plan[k].span) <=> Offset(new, k) <= p /\ p < Offset(new, k + 1)
  <2>1. ASSUME NEW k \in 1 .. n
        PROVE  p \in HF!IndexSpan(plan[k].span) <=> Offset(new, k) <= p /\ p < Offset(new, k + 1)
    <3>1. HF!IndexSpan(plan[k].span) = Offset(new, k) .. Offset(new, k + 1) - 1
      BY <1>2, <1>3 DEF HF!IndexSpan
    <3>2. Offset(new, k) \in Nat /\ Offset(new, k + 1) \in Nat
      BY <1>4
    <3> QED BY <3>1, <3>2
  <2> QED BY <2>1
<1>7. \A k \in DOMAIN plan : p \in HF!IndexSpan(plan[k].span) => k = i
  BY <1>2, <1>3, <1>5, <1>6
<1>8. i \in DOMAIN plan /\ p \in HF!IndexSpan(plan[i].span)
  BY <1>2, <1>3, <1>5, <1>6
<1>9. ItemAt(plan, p) = i
  BY <1>7, <1>8 DEF ItemAt
<1>10. Offset(new, i) \in Nat /\ p - Offset(new, i) + 1 \in 1 .. Len(new[i])
  <2>1. /\ Offset(new, i) \in Nat /\ Len(new[i]) \in Nat
        /\ Offset(new, i + 1) = Offset(new, i) + Len(new[i])
    BY <1>4
  <2> QED BY <1>5, <2>1, SMTT(30)
<1>11. Holds(new, plan, p, i)
  BY <1>3, <1>7, <1>9, <1>10 DEF Holds
<1> QED BY <1>11

KeptPositions(plan) == HF!PositionsOf(plan, "reuse_exact") \cup HF!PositionsOf(plan, "recompute")

LEMMA KeptAction ==
    ASSUME NEW plan, NEW p, p \in KeptPositions(plan)
    PROVE  \E k \in DOMAIN plan : /\ p \in HF!IndexSpan(plan[k].span)
                                  /\ plan[k].action \in {"reuse_exact", "recompute"}
  BY DEF KeptPositions, HF!PositionsOf

HasCols(c, cols) == c.cols = cols

(* Every column that is put together is of its token at its position, and  *)
(* outside the shifted segments the one of a prefill                       *)
LEMMA SelectiveColumn ==
    ASSUME NEW S, NEW prev \in Seq(Seq(S)), NEW new \in Seq(Seq(S)),
           NEW plan, plan = PlanIncremental(prev, new, "selective"),
           NEW a, a = Tokens(prev), NEW t, t = Tokens(new),
           NEW v, v = Forward(<< >>, a, 0), NEW w, w = Forward(<< >>, t, 0),
           NEW c, HasCols(c, v), NEW correct, HasCols(correct, w),
           NEW p \in Nat, p < Len(t), NEW x, x = ReusedColumn(c, correct, plan, prev, p)
    PROVE  /\ x.tok = t[p + 1] /\ x.pos = p
           /\ p \in KeptPositions(plan) => x = w[p + 1]
<1>1. PICK cp : cp = CommonPrefixLen(prev, new)
  OBVIOUS
<1>0. PICK i \in 1 .. Len(new) : Holds(new, plan, p, i)
  <2>1. \E i : Holds(new, plan, p, i)
    BY ItemIs
  <2> QED BY <2>1 DEF Holds
<1>2. /\ i \in 1 .. Len(new) /\ ItemAt(plan, p) = i
      /\ \A k \in DOMAIN plan : p \in HF!IndexSpan(plan[k].span) => k = i
      /\ Offset(new, i) \in Nat /\ p - Offset(new, i) + 1 \in 1 .. Len(new[i])
  BY <1>0 DEF Holds
<1>3. PICK o, k, it : o = Offset(new, i) /\ k = p - o + 1 /\ it = plan[i]
  OBVIOUS
<1>4. /\ o \in Nat /\ k \in 1 .. Len(new[i]) /\ k \in Nat \ {0} /\ p + 1 = o + k
      /\ Len(new[i]) \in Nat /\ Len(new) \in Nat /\ Len(prev) \in Nat
  <2>1. Len(new[i]) \in Nat /\ Len(new) \in Nat /\ Len(prev) \in Nat
    BY Offsets
  <2> QED BY <1>2, <1>3, <2>1
<1>5. /\ it \in Items(Seq(S)) /\ Fits(it, prev, new, "selective", cp, i)
      /\ it.span[1] = o
  <2>1. plan[i] \in Items(Seq(S)) /\ Fits(plan[i], prev, new, "selective", cp, i)
    BY <1>1, PlanFacts
  <2> QED BY <1>3, <2>1 DEF Fits
<1>6. t[p + 1] = new[i][k] /\ a \in Seq(S) /\ t \in Seq(S) /\ Len(t) \in Nat /\ p + 1 \in 1 .. Len(t)
  <2>1. t[o + k] = new[i][k]
    <3>1. k \in 1 .. Len(new[i])
      BY <1>4
    <3>2. PICK q : q = Offset(new, i) + k
      OBVIOUS
    <3>3. Tokens(new)[q] = new[i][k]
      BY <3>1, <3>2, SegmentTokens
    <3> QED BY <1>3, <3>2, <3>3
  <2>2. a \in Seq(S) /\ t \in Seq(S) /\ Len(t) \in Nat
    BY Offsets
  <2> QED BY <1>4, <2>1, <2>2, SMTT(30)
<1>7. /\ w[p + 1].tok = t[p + 1] /\ w[p + 1].pos = p
  <2>1. PICK n : n = p + 1
    OBVIOUS
  <2>2. n \in 1 .. Len(t) /\ t \in Seq(S) /\ n - 1 = p
    BY <1>6, <2>1
  <2>3. PICK m : m = Len(t)
    OBVIOUS
  <2>4. \A j \in 1 .. m : w[j].tok = t[j] /\ w[j].pos = j - 1
    BY <2>2, <2>3, ForwardColumns
  <2> QED BY <2>1, <2>2, <2>3, <2>4
<1>8. PICK j, from : j = it.prev /\ from = Source(prev, it, p)
  OBVIOUS
<1>9. from = Offset(prev, j) + (p - o) + 1
  BY <1>5, <1>8 DEF Source
<1>10. CASE it.action = "recompute"
  <2>1. x = w[p + 1]
    BY <1>2, <1>3, <1>10 DEF ReusedColumn, HasCols
  <2> QED BY <1>7, <2>1
<1>11. CASE it.action = "reuse_exact"
  <2>1. x = v[from]
    BY <1>2, <1>3, <1>8, <1>11 DEF ReusedColumn, HasCols
  <2>2. i <= cp /\ j = i
    <3>1. cp \in Nat
      BY <1>1, CommonPrefix
    <3>2. i > cp => it.action # "reuse_exact"
      BY <1>5 DEF Fits
    <3>3. ~ (i > cp)
      BY <1>11, <3>2
    <3>4. i <= cp
      BY <1>4, <3>1, <3>3
    <3> QED BY <1>5, <1>8, <3>4 DEF Fits
  <2>3. cp \in Nat /\ cp <= Len(prev) /\ cp <= Len(new) /\ \A n \in 1 .. cp : prev[n] = new[n]
    BY <1>1, CommonPrefix
  <2>4. PICK r : r = Offset(new, cp + 1)
    OBVIOUS
  <2>5. Offset(prev, i) = o /\ SameStart(prev, new, r) /\ Offset(prev, cp + 1) = r
    <3>1. i \in 1 .. cp + 1 /\ cp + 1 \in 1 .. cp + 1
      <4>1. cp \in Nat /\ i <= cp /\ i \in Nat /\ i >= 1
        BY <1>4, <2>2, <2>3
      <4> QED BY <4>1
    <3>2. /\ \A n \in 1 .. cp + 1 : Offset(prev, n) = Offset(new, n)
          /\ SameStart(prev, new, Offset(new, cp + 1))
      BY <2>3, SameHead
    <3> QED BY <1>3, <2>4, <3>1, <3>2
  <2>6. from = p + 1
    BY <1>4, <1>9, <2>2, <2>5
  <2>7. r \in Nat /\ r <= Len(a) /\ r <= Len(t) /\ p + 1 \in 1 .. r
    <3>1. cp + 1 \in 1 .. Len(prev) + 1 /\ cp + 1 \in 1 .. Len(new) + 1 /\ i + 1 \in 1 .. Len(new) + 1
          /\ i + 1 <= cp + 1
      BY <1>4, <2>2, <2>3
    <3>2. r \in Nat /\ r <= Len(a) /\ r <= Len(t)
      BY <2>4, <2>5, <3>1, Offsets
    <3>3. Offset(new, i + 1) <= r
      BY <2>4, <3>1, OffsetsGrow
    <3>4. Offset(new, i + 1) = o + Len(new[i])
      BY <1>3, Offsets
    <3> QED BY <1>4, <3>2, <3>3, <3>4, SMTT(30)
  <2>8. Agree(a, t, r)
    BY <2>5 DEF SameStart, Agree
  <2>9. v[p + 1] = w[p + 1]
    <3>1. PICK n : n = p + 1
      OBVIOUS
    <3>2. r \in Nat /\ r <= Len(a) /\ r <= Len(t) /\ n \in 1 .. r /\ a \in Seq(S) /\ t \in Seq(S)
      BY <1>6, <2>7, <3>1
    <3>3. v[n] = w[n]
      BY <2>8, <3>2, SameColumns
    <3> QED BY <3>1, <3>3
  <2> QED BY <1>7, <2>1, <2>6, <2>9
<1>12. CASE it.action = "reuse_shifted"
  <2>1. x = HF!Rephase(v[from], it.shift)
    BY <1>2, <1>3, <1>8, <1>12 DEF ReusedColumn, HasCols
  <2>2. j \in cp + 1 .. Len(prev) /\ prev[j] = new[i] /\ cp \in Nat
    <3>1. ~ (i <= cp)
      BY <1>5, <1>12 DEF Fits
    <3>2. cp \in Nat
      BY <1>1, CommonPrefix
    <3>3. i > cp
      BY <3>1, <3>2
    <3> QED BY <1>5, <1>8, <1>12, <3>2, <3>3 DEF Fits
  <2>3. PICK q : q = Offset(prev, j)
    OBVIOUS
  <2>4. j \in 1 .. Len(prev) /\ q \in Nat /\ q + Len(prev[j]) <= Len(a) /\ Len(prev[j]) \in Nat
    <3>1. j \in 1 .. Len(prev) /\ j \in 1 .. Len(prev) + 1 /\ j + 1 \in 1 .. Len(prev) + 1
      BY <1>4, <2>2
    <3>2. /\ Offset(prev, j) \in Nat /\ Offset(prev, j + 1) <= Len(Tokens(prev))
          /\ Offset(prev, j + 1) = Offset(prev, j) + Len(prev[j]) /\ Len(prev[j]) \in Nat
      BY <3>1, Offsets
    <3> QED BY <2>3, <3>1, <3>2
  <2>5. from = q + k /\ from \in 1 .. Len(a) /\ k \in 1 .. Len(prev[j])
    <3>1. Len(a) \in Nat
      BY Offsets
    <3>2. PICK la, lj : la = Len(a) /\ lj = Len(prev[j])
      OBVIOUS
    <3>3. /\ la \in Nat /\ lj \in Nat /\ q \in Nat /\ q + lj <= la
          /\ k \in Nat \ {0} /\ o \in Nat /\ p + 1 = o + k
      BY <1>4, <2>4, <3>1, <3>2
    <3>4. from = q + (p - o) + 1
      BY <1>9, <2>3
    <3>5. k <= lj
      <4>1. lj = Len(new[i])
        BY <2>2, <3>2
      <4> QED BY <1>4, <4>1
    <3>6. from = q + k /\ from \in 1 .. la /\ k \in 1 .. lj
      BY <3>3, <3>4, <3>5
    <3> QED BY <3>2, <3>6
  <2>6. a[from] = new[i][k]
    <3>1. from = Offset(prev, j) + k
      BY <2>3, <2>5
    <3>2. j \in 1 .. Len(prev) /\ k \in 1 .. Len(prev[j])
      BY <2>4, <2>5
    <3>3. Tokens(prev)[from] = prev[j][k]
      BY <3>1, <3>2, SegmentTokens, SMTT(30)
    <3> QED BY <2>2, <3>3
  <2>7. IsColumn(v[from], a[from], from - 1)
    <3>1. PICK n : n = Len(a)
      OBVIOUS
    <3>2. \A m \in 1 .. n : IsColumn(v[m], a[m], m - 1)
      BY <1>6, <3>1, ColumnsAre
    <3> QED BY <2>5, <3>1, <3>2
  <2>8. it.shift = o - q
    <3>1. PICK d : d = Offset(new, i) - Offset(prev, plan[i].prev)
      OBVIOUS
    <3>2. plan[i].shift = d
      BY <1>3, <1>12, <3>1, ShiftIs
    <3> QED BY <1>3, <1>8, <2>3, <3>1, <3>2
  <2>9. from - 1 \in Int /\ o - q \in Int /\ (from - 1) + (o - q) = p
    BY <1>4, <2>4, <2>5
  <2>10. x.tok = a[from] /\ x.pos = p
    <3>1. PICK d, f : d = it.shift /\ f = from - 1
      OBVIOUS
    <3>2. d \in Int /\ f \in Int /\ f + d = p
      BY <2>8, <2>9, <3>1
    <3>3. PICK col, e : col = v[from] /\ e = a[from]
      OBVIOUS
    <3>4. IsColumn(col, e, f) /\ x = HF!Rephase(col, d)
      BY <2>1, <2>7, <3>1, <3>3
    <3>5. Turned(p, f, d)
      BY <3>2 DEF Turned
    <3>6. x.tok = e /\ x.pos = p
      BY <3>2, <3>4, <3>5, RephaseIs
    <3> QED BY <3>3, <3>6
  <2>11. p \notin KeptPositions(plan)
    <3>1. SUFFICES ASSUME p \in KeptPositions(plan) PROVE FALSE
      OBVIOUS
    <3>2. PICK n \in DOMAIN plan : /\ p \in HF!IndexSpan(plan[n].span)
                                   /\ plan[n].action \in {"reuse_exact", "recompute"}
      BY <3>1, KeptAction
    <3>3. n = i
      BY <1>2, <3>2
    <3> QED BY <1>3, <1>12, <3>2, <3>3
  <2> QED BY <1>6, <2>6, <2>10, <2>11
<1>13. it.action \in {"reuse_exact", "reuse_shifted", "recompute"}
  BY <1>5 DEF Items
<1> QED BY <1>10, <1>11, <1>12, <1>13

(* A blend takes each column from the one cache or from the other *)
Blended(cols, correct, idx) ==
    [i \in DOMAIN cols |-> IF i - 1 \in idx THEN correct.cols[i] ELSE cols[i]]

LEMMA BlendIs ==
    ASSUME NEW cols, NEW ps, NEW toks, NEW reused, reused = KVCache(cols, ps, toks),
           NEW correct, NEW idx
    PROVE  HF!Blend(reused, correct, idx) = KVCache(Blended(cols, correct, idx), ps, toks)
  BY DEF HF!Blend, KVCache, Blended

LEMMA SelectiveIs ==
    ASSUME NEW c, NEW prev, NEW new, NEW frac, NEW strategy, NEW x,
           x \in HF!RecomputeSelective(c, prev, new, frac, strategy),
           NEW plan, plan = PlanIncremental(prev, new, "selective"),
           NEW correct, correct = HF!Prefill(Tokens(new), 0)
    PROVE  \E idx : x = HF!Blend(HF!AssembleReused(c, correct, plan, prev), correct, idx)
<1>1. HF!Tokens(new) = Tokens(new) /\ HF!PlanIncremental(prev, new, "selective") = plan
  BY SameTokens, SamePlan
<1>2. PICK sel : x \in { HF!Blend(HF!AssembleReused(c, HF!Prefill(HF!Tokens(new), 0),
                                                 HF!PlanIncremental(prev, new, "selective"), prev),
                               HF!Prefill(HF!Tokens(new), 0),
                               HF!PositionsOf(HF!PlanIncremental(prev, new, "selective"), "recompute") \cup S) : S \in sel }
  BY Zenon DEF HF!RecomputeSelective
<1> QED BY <1>1, <1>2

LEMMA SelectiveFact ==
    ASSUME NEW prev \in Seq(Seq(TokenIds)), NEW new \in Seq(Seq(TokenIds)),
           NEW c, c = PrefillOf("hf", Tokens(prev), 0), NEW frac, NEW strategy, NEW x,
           x \in HF!RecomputeSelective(c, prev, new, frac, strategy), Tokens(new) # << >>,
           NEW plan, plan = PlanIncremental(prev, new, "selective"),
           NEW g, g = KeptPositions(plan)
    PROVE  RawFact(x, "hf", g, new) /\ x.kind = "raw"
<1>1. PICK a, t, v, w, n : /\ a = Tokens(prev) /\ t = Tokens(new) /\ n = Len(t)
                           /\ v = Forward(<< >>, a, 0) /\ w = Forward(<< >>, t, 0)
  OBVIOUS
<1>2. a \in Seq(TokenIds) /\ t \in Seq(TokenIds) /\ n \in Nat /\ Len(a) \in Nat /\ t # << >> /\ Len(t) \in Nat
  BY <1>1, Offsets
<1>3. HasCols(c, v)
  <2>1. c = RawOf(v, a)
    BY <1>1, PrefillIs DEF Cols
  <2> QED BY <1>2, <2>1, RawFields DEF HasCols
<1>4. PICK correct : correct = HF!Prefill(Tokens(new), 0)
  OBVIOUS
<1>5. correct = RawOf(w, t)
  <2>1. PrefillOf("hf", t, 0) = RawOf(w, t)
    BY <1>1, PrefillIs DEF Cols
  <2>2. PrefillOf("hf", t, 0) = HF!Prefill(t, 0)
    BY DEF PrefillOf
  <2> QED BY <1>1, <1>4, <2>1, <2>2
<1>6. correct.cols = w /\ correct.positions = Arange(0, n) /\ correct.toks = t /\ HasCols(correct, w)
  BY <1>1, <1>2, <1>5, RawFields DEF HasCols
<1>7. Long(w, n) /\ DOMAIN w = 1 .. n
  BY <1>1, <1>2, ForwardColumns
<1> DEFINE R(i) == ReusedColumn(c, correct, plan, prev, i - 1)
           cols == [i \in 1 .. n |-> R(i)]
<1>8. HF!AssembleReused(c, correct, plan, prev) = KVCache(cols, Arange(0, n), t)
  BY <1>6, <1>7, AssembleIs
<1>9. PICK idx : x = HF!Blend(HF!AssembleReused(c, correct, plan, prev), correct, idx)
  BY <1>4, SelectiveIs
<1> DEFINE y == [i \in 1 .. n |-> IF i - 1 \in idx THEN w[i] ELSE R(i)]
<1>10. x = KVCache(Blended(cols, correct, idx), Arange(0, n), t)
  <2>1. PICK cs, ps, reused : cs = cols /\ ps = Arange(0, n) /\ reused = KVCache(cs, ps, t)
    OBVIOUS
  <2>2. HF!Blend(reused, correct, idx) = KVCache(Blended(cs, correct, idx), ps, t)
    BY <2>1, BlendIs
  <2>3. x = HF!Blend(reused, correct, idx)
    BY <1>8, <1>9, <2>1
  <2> HIDE DEF cols
  <2> QED BY <2>1, <2>2, <2>3
<1>11. x = RawOf(y, t)
  <2>1. y = Blended(cols, correct, idx)
    BY <1>6 DEF Blended
  <2>2. x = KVCache(y, Arange(0, n), t)
    BY <1>10, <2>1
  <2> QED BY <1>1, <2>2 DEF RawOf
<1>12. Long(y, n)
  BY <1>2 DEF Long
<1>13. ASSUME NEW i \in 1 .. n
       PROVE  /\ y[i].tok = t[i] /\ y[i].pos = i - 1
              /\ (i - 1) \in g => y[i] = w[i]
  <2>1. PICK p : p = i - 1
    OBVIOUS
  <2>2. p \in Nat /\ p < Len(t) /\ i = p + 1
    BY <1>1, <1>2, <2>1
  <2>3. R(i).tok = t[p + 1] /\ R(i).pos = p /\ (p \in KeptPositions(plan) => R(i) = w[p + 1])
    <3>1. PICK r : r = ReusedColumn(c, correct, plan, prev, p)
      OBVIOUS
    <3>2. R(i) = r
      BY <2>1, <3>1
    <3>3. HasCols(c, v) /\ HasCols(correct, w)
      BY <1>3, <1>6
    <3>4. r.tok = t[p + 1] /\ r.pos = p /\ (p \in KeptPositions(plan) => r = w[p + 1])
      BY <1>1, <2>2, <3>1, <3>3, SelectiveColumn
    <3> QED BY <3>2, <3>4
  <2>4. w[i].tok = t[i] /\ w[i].pos = i - 1
    BY <1>1, <1>2, ForwardColumns
  <2>5. y[i] = IF i - 1 \in idx THEN w[i] ELSE R(i)
    OBVIOUS
  <2> HIDE DEF R, y
  <2> QED BY <2>1, <2>2, <2>3, <2>4, <2>5
<1> HIDE DEF R, y, cols
<1>14. x.kind = "raw" /\ x.cols = y /\ x.toks = t
  BY <1>2, <1>11, RawFields
<1>15. Placed(x, "hf", g)
  BY <1>1, <1>13, <1>14 DEF Placed
<1>16. \A p \in g : p \in Nat /\ p < n
  <2>1. SUFFICES ASSUME NEW p \in g PROVE p \in Nat /\ p < n
    OBVIOUS
  <2>2. PICK k \in DOMAIN plan : p \in HF!IndexSpan(plan[k].span)
    BY <2>1, KeptAction
  <2>3. PICK cp : cp = CommonPrefixLen(prev, new)
    OBVIOUS
  <2>4. /\ k \in 1 .. Len(new) /\ Len(new) \in Nat
        /\ plan[k].span[1] = Offset(new, k) /\ plan[k].span[2] = Offset(new, k + 1)
    BY <2>3, PlanFacts DEF Fits
  <2>5. k \in 1 .. Len(new) + 1 /\ k + 1 \in 1 .. Len(new) + 1
    BY <2>4
  <2>6. Offset(new, k) \in Nat /\ Offset(new, k + 1) \in Nat /\ Offset(new, k + 1) <= n
    BY <1>1, <2>5, Offsets
  <2>7. p \in Offset(new, k) .. Offset(new, k + 1) - 1
    BY <2>2, <2>4 DEF HF!IndexSpan
  <2> QED BY <1>2, <2>6, <2>7
<1>17. g # Exact
  <2>1. -1 \notin g
    BY <1>16
  <2>2. -1 \in Exact
    BY DEF Exact
  <2> QED BY <2>1, <2>2
<1>18. RawFact(x, "hf", g, new)
  BY <1>1, <1>2, <1>11, <1>12, <1>14, <1>15, <1>16, <1>17 DEF RawFact
<1> QED BY <1>14, <1>18

LEMMA SelectiveCore ==
    ASSUME CoreInv, NEW new \in Segmentations, NEW frac, NEW strategy,
           RecomputeSelective(new, frac, strategy)
    PROVE  CoreInv'
<1>1. PICK plan : plan = PlanIncremental(segs, new, "selective")
  OBVIOUS
<1>2. HF!PlanIncremental(segs, new, "selective") = plan
  BY <1>1, SamePlan
<1>3. /\ Raw /\ backend = "hf" /\ genuine = Exact
      /\ ctx' \in HF!RecomputeSelective(ctx, segs, new, frac, strategy)
      /\ segs' = new /\ genuine' = KeptPositions(plan)
      /\ UNCHANGED <<backend, cart, moved>>
  BY <1>2 DEF RecomputeSelective, KeptPositions
<1>4. /\ RawFact(ctx, backend, genuine, segs) /\ segs \in Seq(Seq(TokenIds))
      /\ cart = None /\ moved.kind \notin {"kv", "paged", "compact"}
  BY <1>3, RawHeld
<1>5. ctx = PrefillOf("hf", Tokens(segs), 0)
  BY <1>3, <1>4 DEF RawFact
<1>6. new \in Seq(Seq(TokenIds)) /\ Tokens(new) # << >>
  BY SegmentationIsTyped
<1>7. RawFact(ctx', "hf", genuine', new) /\ ctx'.kind = "raw"
  BY <1>1, <1>3, <1>4, <1>5, <1>6, SelectiveFact
<1> QED BY <1>3, <1>4, <1>6, <1>7, CoreWithRaw

-----------------------------------------------------------------------------
(* Caches that are not raw *)

LEMMA SelectedKind ==
    ASSUME NEW c, NEW method, NEW allowed, NEW x \in Selected(c, method, allowed)
    PROVE  x.kind = "compact"
<1>1. PICK sel : x = CompactCache(MakeLayers(c, sel), LogicalLen(c), << >>, method)
  BY DEF Selected
<1> QED BY <1>1, KindsDiffer

LEMMA CompactsKind ==
    ASSUME NEW b, NEW x \in Compacts(b)
    PROVE  x.kind = "compact"
<1>1. CASE x \in FullKV(ctx)
  BY <1>1, SelectedKind DEF FullKV
<1>2. CASE x \in RecentWindow(ctx, b)
  BY <1>2, SelectedKind DEF RecentWindow
<1>3. CASE x \in RandomSubset(ctx, b)
  BY <1>3, SelectedKind DEF RandomSubset
<1>4. CASE \E f \in RecentFracs, mass \in Scores : x \in HeavyHitter(ctx, b, f, mass)
  BY <1>4, SelectedKind DEF HeavyHitter
<1>5. CASE \E f \in RecentFracs, mass \in Scores : x \in SnapKVLite(ctx, b, f, mass)
  BY <1>5, SelectedKind DEF SnapKVLite
<1>6. CASE \E am, imp, mass : x \in AttentionMatching(ctx, b, am, imp, mass)
  <2>1. PICK am, imp, mass : x \in AttentionMatching(ctx, b, am, imp, mass)
    BY <1>6
  <2>2. \E h, l : x = CompactCache(h, l, << >>, "attention_matching")
    BY <2>1 DEF AttentionMatching
  <2> QED BY <2>2, KindsDiffer
<1>7. CASE \E n \in Latents : x = Still(ctx, b, n)
  <2>1. PICK n : x = Still(ctx, b, n)
    BY <1>7
  <2>2. \E h, l, t : x = CompactCache(h, l, t, "still")
    BY <2>1 DEF Still
  <2> QED BY <2>2, KindsDiffer
<1> DEFINE A == UNION { HeavyHitter(ctx, b, f, mass) : f \in RecentFracs, mass \in Scores }
           B == UNION { SnapKVLite(ctx, b, f, mass) : f \in RecentFracs, mass \in Scores }
           C == UNION { AttentionMatching(ctx, b, am, imp, mass) :
                         am \in { am \in AMConfigs : ValidConfig(am) }, imp \in Scores, mass \in Masses }
           D == { Still(ctx, b, n) : n \in Latents }
<1>8. \/ x \in FullKV(ctx) \/ x \in RecentWindow(ctx, b) \/ x \in RandomSubset(ctx, b)
      \/ x \in A \/ x \in B \/ x \in C \/ x \in D
  <2> HIDE DEF A, B, C, D
  <2>1. Compacts(b) = FullKV(ctx) \cup RecentWindow(ctx, b) \cup RandomSubset(ctx, b)
                      \cup A \cup B \cup C \cup D
    BY DEF Compacts, A, B, C, D
  <2> QED BY <2>1
<1>9. x \in A => x.kind = "compact"
  BY <1>4
<1>10. x \in B => x.kind = "compact"
  BY <1>5
<1>11. x \in C => x.kind = "compact"
  BY <1>6
<1>12. x \in D => x.kind = "compact"
  BY <1>7
<1> QED BY <1>1, <1>2, <1>3, <1>8, <1>9, <1>10, <1>11, <1>12

LEMMA CompactCore ==
    ASSUME CoreInv, NEW b, Compact(b)
    PROVE  CoreInv'
<1>1. Raw /\ genuine = Exact /\ ctx' \in Compacts(b) /\ segs' = << >>
      /\ UNCHANGED <<backend, genuine, cart, moved>>
  BY DEF Compact
<1>2. ctx'.kind = "compact" /\ ctx # None /\ cart = None
  BY <1>1, CompactsKind, RawHeld
<1> QED BY <1>1, <1>2, CoreWithoutRaw

LEMMA FuseCore ==
    ASSUME CoreInv, NEW t, Fuse(t)
    PROVE  CoreInv'
<1>1. /\ ctx.kind = "compact" /\ UNCHANGED <<backend, genuine, cart, moved, segs>>
      /\ \E r, n : ctx' = Combined(ctx, r, n)
  BY DEF Fuse, Compacted
<1>2. ctx'.kind = "compact"
  <2>1. PICK r, n : ctx' = Combined(ctx, r, n)
    BY <1>1
  <2>2. \E h : ctx' = CompactCache(h, n, << >>, "working_memory")
    BY <2>1 DEF Combined
  <2> QED BY <2>2, KindsDiffer
<1>3. ctx # None
  BY <1>1, KindsDiffer
<1>4. genuine = Exact /\ cart = None
  BY <1>1, <1>3, NothingMoves
<1> QED BY <1>1, <1>2, <1>3, <1>4, CoreWithoutRaw

LEMMA CompileCore ==
    ASSUME CoreInv, NEW t, NEW steps, NEW kind, NEW chats, CompileCartridge(t, steps, kind, chats)
    PROVE  CoreInv'
<1>1. /\ Raw /\ genuine = Exact /\ UNCHANGED <<backend, moved, genuine, files>>
      /\ \/ UNCHANGED <<ctx, segs, cart>>
         \/ ctx' = None /\ segs' = << >>
  BY DEF CompileCartridge
<1>2. CASE UNCHANGED <<ctx, segs, cart>>
  BY <1>1, <1>2, CoreStays
<1>3. CASE ctx' = None /\ segs' = << >>
  <2>1. ctx # None /\ ctx'.kind # "raw"
    BY <1>1, <1>3, RawHeld, KindsDiffer
  <2> QED BY <1>1, <1>3, <2>1, CoreWithoutRaw
<1> QED BY <1>1, <1>2, <1>3

LEMMA ConvertCore ==
    ASSUME CoreInv, ConvertToCartridge
    PROVE  CoreInv'
<1>1. /\ ctx.kind = "compact" /\ UNCHANGED <<backend, moved, segs, genuine, files>>
      /\ ctx' = None \/ UNCHANGED <<ctx, cart>>
  BY DEF ConvertToCartridge, Compacted
<1>2. CASE UNCHANGED <<ctx, cart>>
  BY <1>1, <1>2, CoreStays
<1>3. CASE ctx' = None
  <2>1. ctx # None /\ ctx'.kind # "raw"
    BY <1>1, <1>3, KindsDiffer
  <2>2. genuine = Exact
    BY <1>1, <2>1, NothingMoves
  <2> QED BY <1>1, <1>3, <2>1, <2>2, CoreWithoutRaw
<1> QED BY <1>1, <1>2, <1>3

LEMMA UseCore ==
    ASSUME CoreInv, UseCartridge
    PROVE  CoreInv'
<1>1. cart # None /\ ctx' = ToCompactCache(cart) /\ cart' = None
      /\ UNCHANGED <<backend, moved, segs, genuine>>
  BY DEF UseCartridge
<1>2. ctx = None
  BY <1>1 DEF CoreInv, Carried
<1>3. genuine = Exact
  BY <1>1, <1>2, NothingMoves, KindsDiffer
<1>4. ctx'.kind = "compact"
  <2>1. \E h : ctx' = CompactCache(h, cart.len, cart.toks, "cartridge")
    BY <1>1 DEF ToCompactCache
  <2> QED BY <2>1, KindsDiffer
<1> QED BY <1>1, <1>3, <1>4, CoreWithoutRaw

LEMMA SaveCore ==
    ASSUME CoreInv, NEW path, SaveCartridge(path)
    PROVE  CoreInv'
<1>1. cart # None /\ UNCHANGED <<backend, moved, ctx, segs, genuine, cart>>
  BY DEF SaveCartridge
<1>2. ctx = None
  BY <1>1 DEF CoreInv, Carried
<1>3. genuine = Exact /\ ctx.kind # "raw"
  BY <1>1, <1>2, NothingMoves, KindsDiffer
<1> QED BY <1>1, <1>2, <1>3, CoreWithoutRaw

LEMMA LoadCore ==
    ASSUME CoreInv, NEW path, LoadCartridge(path)
    PROVE  CoreInv'
<1>1. /\ ctx = None /\ UNCHANGED <<backend, moved, ctx, segs, genuine, files>>
      /\ cart' = cart \/ path \in DOMAIN files
  BY DEF LoadCartridge, CanLoad
<1>2. CASE cart' = cart
  BY <1>1, <1>2, CoreStays
<1>3. CASE path \in DOMAIN files
  <2>1. files # << >>
    <3>1. DOMAIN << >> = {}
      BY EmptySeq
    <3> QED BY <1>3, <3>1
  <2>2. moved.kind \notin {"kv", "paged", "compact"}
    BY <2>1 DEF CoreInv, Carried
  <2>3. Carried(moved', ctx', cart', files')
    BY <1>1, <2>2 DEF Carried
  <2> QED BY <1>1, <2>3 DEF CoreInv
<1> QED BY <1>1, <1>2, <1>3

LEMMA DropCore ==
    ASSUME CoreInv, Drop
    PROVE  CoreInv'
<1>1. /\ ctx' = None /\ segs' = << >> /\ genuine' = Exact /\ cart' = None /\ files' = << >>
      /\ moved' = None /\ backend' = backend
  BY DEF Drop
<1>2. ctx'.kind = "none" /\ moved'.kind = "none"
  BY <1>1, KindsDiffer
<1>3. backend' \in {"hf", "vllm", "fake"} /\ segs' \in Seq(Seq(TokenIds))
  BY <1>1, EmptyIsTyped DEF CoreInv
<1>4. Known(backend', genuine', ctx', moved') /\ Carried(moved', ctx', cart', files')
  BY <1>1 DEF Known, Carried
<1> QED BY <1>2, <1>3, <1>4 DEF CoreInv

LEMMA InitCore ==
    ASSUME Init
    PROVE  CoreInv
<1>1. /\ ctx = None /\ segs = << >> /\ genuine = Exact /\ cart = None /\ files = << >>
      /\ moved = None /\ backend \in Backends
  BY DEF Init
<1>2. ctx.kind = "none" /\ moved.kind = "none"
  BY <1>1, KindsDiffer
<1>3. backend \in {"hf", "vllm", "fake"} /\ segs \in Seq(Seq(TokenIds))
  BY <1>1, EmptyIsTyped, EngineAssumption
<1>4. Known(backend, genuine, ctx, moved) /\ Carried(moved, ctx, cart, files)
  BY <1>1 DEF Known, Carried
<1> QED BY <1>2, <1>3, <1>4 DEF CoreInv

-----------------------------------------------------------------------------
(* A session on its way *)

LEMMA PersistedCore ==
    ASSUME CoreInv, NEW f, Persisted(f), genuine = Exact,
           f.kind = "kv" => FileFact(f, backend, Exact, segs), f.kind # "paged"
    PROVE  CoreInv'
<1>1. /\ cart = None /\ files = << >> /\ moved' = f /\ ctx' = None
      /\ UNCHANGED <<backend, segs, genuine, cart, files>>
  BY DEF Persisted
<1>2. ctx'.kind # "raw"
  BY <1>1, KindsDiffer
<1>3. Known(backend', genuine', ctx', moved') /\ Carried(moved', ctx', cart', files')
  BY <1>1 DEF Known, Carried
<1> QED BY <1>1, <1>2, <1>3 DEF CoreInv

LEMMA PersistRawCore ==
    ASSUME CoreInv, NEW d, NEW precision, NEW u \in Numbers(d), PersistRaw(u, precision, d)
    PROVE  CoreInv'
<1>1. PICK f : f = SaveKVCache(ctx, u, precision, d)
  OBVIOUS
<1>2. Raw /\ genuine = Exact /\ Persisted(f)
  BY <1>1 DEF PersistRaw
<1>3. RawFact(ctx, backend, Exact, segs) /\ backend \in {"hf", "vllm", "fake"}
  BY <1>2, RawHeld
<1>4. PICK t, cols : t = ctx.toks /\ cols = ctx.cols
  OBVIOUS
<1>5. /\ t \in Seq(TokenIds) /\ t # << >> /\ t = Tokens(segs)
      /\ ctx = RawOf(cols, t) /\ ctx = PrefillOf(backend, t, 0)
  BY <1>3, <1>4 DEF RawFact
<1>6. Len(t) \in Nat
  BY <1>5, LenProperties
<1>7. ctx.positions = Arange(0, Len(t))
  BY <1>5 DEF RawOf, KVCache
<1>8. PICK sd : sd = StoreDtype(precision, d)
  OBVIOUS
<1>9. f = [kind |-> "kv", cols |-> cols, positions |-> Arange(0, Len(t)), token_ids |-> t,
           store_dtype |-> sd, number |-> Encode(u, sd), was |-> u]
  BY <1>1, <1>4, <1>7, <1>8 DEF SaveKVCache
<1>10. LoadKVCache(f) = RawOf(cols, t)
  BY <1>9 DEF LoadKVCache, RawOf
<1>11. Numberlike(u)
  BY DEF Numbers, Numberlike
<1>12. FileFact(f, backend, Exact, segs)
  BY <1>5, <1>9, <1>10, <1>11 DEF FileFact
<1>13. f.kind = "kv"
  BY <1>9
<1> QED BY <1>2, <1>12, <1>13, PersistedCore

LEMMA PersistCompactCore ==
    ASSUME CoreInv, PersistCompact
    PROVE  CoreInv'
<1>1. CASE Unsupported
  BY <1>1, CoreStays DEF Unsupported
<1>2. CASE Persisted(SaveCompactCache(ctx, FirstHead))
  <2>1. PICK f : f = SaveCompactCache(ctx, FirstHead)
    OBVIOUS
  <2>2. f.kind = "compact"
    BY <2>1 DEF SaveCompactCache
  <2>3. ctx.kind = "compact"
    BY DEF PersistCompact, Compacted
  <2>4. genuine = Exact
    BY <2>3, NothingMoves, KindsDiffer
  <2> QED BY <1>2, <2>1, <2>2, <2>4, PersistedCore
<1> QED BY <1>1, <1>2 DEF PersistCompact

LEMMA ResumeRawCore ==
    ASSUME CoreInv, ResumeRaw
    PROVE  CoreInv'
<1>1. /\ moved.kind = "kv" /\ ctx' = LoadKVCache(moved) /\ moved' = None
      /\ genuine' \in {Exact, {}} /\ UNCHANGED <<backend, segs, cart, files>>
  BY DEF ResumeRaw
<1>2. /\ FileFact(moved, backend, genuine, segs) /\ cart = None
      /\ backend \in {"hf", "vllm", "fake"} /\ segs \in Seq(Seq(TokenIds))
  BY <1>1 DEF CoreInv, Carried
<1>3. PICK t : t = moved.token_ids
  OBVIOUS
<1>4. t \in Seq(TokenIds) /\ t # << >> /\ t = Tokens(segs) /\ ctx' = PrefillOf(backend, t, 0)
  BY <1>1, <1>2, <1>3 DEF FileFact
<1>5. RawFact(ctx', backend, genuine', segs)
  BY <1>1, <1>2, <1>4, PrefillFact
<1>6. ctx'.kind = "raw"
  BY <1>1, KindsDiffer DEF LoadKVCache
<1>7. moved'.kind = "none"
  BY <1>1, KindsDiffer
<1> QED BY <1>1, <1>2, <1>5, <1>6, <1>7, CoreWithRaw

LEMMA ResumeCompactCore ==
    ASSUME CoreInv, ResumeCompact
    PROVE  CoreInv'
<1>1. /\ moved.kind = "compact" /\ ctx' = LoadCompactCache(moved) /\ moved' = Arrived
      /\ UNCHANGED <<backend, segs, genuine, cart, files>>
  BY DEF ResumeCompact
<1>2. ctx = None /\ cart = None
  BY <1>1 DEF CoreInv, Carried
<1>3. genuine = Exact
  BY <1>1, <1>2, KindsDiffer DEF CoreInv, Known
<1>4. ctx'.kind = "compact" /\ moved'.kind = "arrived"
  BY <1>1, KindsDiffer DEF LoadCompactCache
<1>5. Known(backend', genuine', ctx', moved') /\ Carried(moved', ctx', cart', files')
  BY <1>1, <1>2, <1>3, <1>4 DEF Known, Carried
<1> QED BY <1>1, <1>4, <1>5 DEF CoreInv

(* Every block belongs to one place of the request *)
LEMMA BlocksAre ==
    ASSUME NEW groups \in BlockTables, NEW ids, ids = BlockIds(groups), NEW k, k = Len(ids)
    PROVE  OneEach(ids, k)
<1>1. groups \in Seq(Seq(Nat)) /\ \A i, j \in DOMAIN ids : ids[i] = ids[j] => i = j
  BY EngineAssumption
<1>2. ids \in Seq(Nat)
  BY <1>1, Flatten DEF BlockIds
<1>3. Long(ids, k) /\ DOMAIN ids = 1 .. k
  BY <1>2, SeqIsLong, LenProperties
<1> QED BY <1>1, <1>3 DEF OneEach

(* What the connector gathers is the cache *)
LEMMA StoredIs ==
    ASSUME NEW cols, NEW t \in Seq(TokenIds), Long(cols, Len(t)), NEW groups \in BlockTables,
           NEW ids, ids = BlockIds(groups), Len(cols) <= Len(ids) * BlockSize,
           NEW blocks, blocks = GatherBlocks(Computed(cols, ids, BlockSize), ids)
    PROVE  PagedBlocksToKVCache(blocks, SaveGeometry(t)) = RawOf(cols, t)
<1>1. PICK n, k : n = Len(t) /\ k = Len(ids)
  OBVIOUS
<1>2. OneEach(ids, k)
  BY <1>1, BlocksAre
<1>3. Long(cols, n) /\ n <= k * BlockSize
  <2>1. Long(cols, n)
    BY <1>1
  <2>2. Len(cols) = n
    BY <2>1, LongIsSeq
  <2> QED BY <1>1, <2>1, <2>2
<1>4. SubSeq(FlattenSeq(blocks), 1, n) = cols
  BY <1>2, <1>3, BlockSizeAssumption, GatheredIs
<1> QED BY <1>1, <1>4 DEF PagedBlocksToKVCache, SaveGeometry, RawOf

LEMMA ConnectorSaveCore ==
    ASSUME CoreInv, NEW groups \in BlockTables, ConnectorSave(groups)
    PROVE  CoreInv'
<1>1. PICK ids, blocks, t, cols :
         /\ ids = BlockIds(groups) /\ t = ctx.toks /\ cols = ctx.cols
         /\ blocks = GatherBlocks(Computed(cols, ids, BlockSize), ids)
  OBVIOUS
<1>2. PICK f : f = StoreKVCache(t, PagedBlocksToKVCache(blocks, SaveGeometry(t)), "model")
  OBVIOUS
<1>3. Raw /\ backend = "vllm" /\ Len(cols) <= Len(ids) * BlockSize /\ Persisted(f)
  BY <1>1, <1>2 DEF ConnectorSave
<1>4. RawFact(ctx, backend, genuine, segs) /\ genuine \in {Exact, {}}
  BY <1>3, RawHeld
<1>5. /\ t \in Seq(TokenIds) /\ t # << >> /\ t = Tokens(segs)
      /\ ctx = RawOf(cols, t) /\ Long(cols, Len(t)) /\ ctx = PrefillOf("vllm", t, 0)
  BY <1>1, <1>3, <1>4 DEF RawFact
<1>6. PagedBlocksToKVCache(blocks, SaveGeometry(t)) = ctx
  BY <1>1, <1>3, <1>5, StoredIs
<1>7. f = [kind |-> "paged", key |-> PrefixKey(t, "model"), kv |-> ctx]
  BY <1>2, <1>6 DEF StoreKVCache
<1>8. PagedFact(f, "vllm", segs) /\ f.kind = "paged"
  BY <1>1, <1>5, <1>7 DEF PagedFact
<1>9. /\ cart = None /\ files = << >> /\ moved' = f /\ ctx' = None
      /\ UNCHANGED <<backend, segs, genuine, cart, files>>
  BY <1>3 DEF Persisted
<1>10. ctx'.kind # "raw"
  BY <1>9, KindsDiffer
<1>11. Known(backend', genuine', ctx', moved') /\ Carried(moved', ctx', cart', files')
  BY <1>4, <1>8, <1>9 DEF Known, Carried
<1> QED BY <1>3, <1>8, <1>9, <1>10, <1>11 DEF CoreInv

LEMMA ConnectorLoadCore ==
    ASSUME CoreInv, NEW groups \in BlockTables, ConnectorLoad(groups)
    PROVE  CoreInv'
<1>1. moved.kind = "paged"
  BY DEF ConnectorLoad
<1>2. /\ PagedFact(moved, backend, segs) /\ cart = None /\ segs \in Seq(Seq(TokenIds))
      /\ Known(backend, genuine, ctx, moved)
  BY <1>1 DEF CoreInv, Carried
<1>3. PICK t, kv, cols : t = Tokens(segs) /\ kv = moved.kv /\ cols = kv.cols
  OBVIOUS
<1>4. /\ backend = "vllm" /\ t \in Seq(TokenIds) /\ t # << >> /\ kv = PrefillOf("vllm", t, 0)
      /\ genuine \in {Exact, {}}
  BY <1>2, <1>3 DEF PagedFact, Known
<1>5. kv = RawOf(Cols("vllm", t), t) /\ Len(t) \in Nat
  BY <1>4, PrefillIs, LenProperties
<1>6. cols = Cols("vllm", t)
  BY <1>3, <1>5, RawFields
<1>7. PICK n : n = Len(t)
  OBVIOUS
<1>8. Long(cols, n)
  BY <1>4, <1>6, <1>7, ColsAre
<1>9. PICK ids, k, mem :
         /\ ids = BlockIds(groups) /\ k = Len(ids)
         /\ mem = ScatterBlocks(Computed(<< >>, ids, BlockSize), ids, PackBlocks(cols, BlockSize))
  OBVIOUS
<1>10. HF!Tokens(segs) = t
  BY <1>3, SameTokens
<1>11. /\ n <= k * BlockSize
       /\ ctx' = KVCache(ReadThrough(mem, ids, n, BlockSize), Arange(0, n), t)
       /\ moved' = None /\ UNCHANGED <<backend, segs, genuine, cart>>
  BY <1>3, <1>7, <1>9, <1>10 DEF ConnectorLoad, KVCacheToPagedBlocks
<1>12. ReadThrough(mem, ids, n, BlockSize) = cols
  <2>1. OneEach(ids, k)
    BY <1>9, BlocksAre
  <2>2. n <= k * BlockSize
    BY <1>11
  <2>3. mem = ScatterBlocks(Computed(<< >>, ids, BlockSize), ids, PackBlocks(cols, BlockSize))
    BY <1>9
  <2> QED BY <1>8, <2>1, <2>2, <2>3, BlockSizeAssumption, ReadBack
<1>13. ctx' = PrefillOf("vllm", t, 0)
  <2>1. kv = RawOf(cols, t)
    BY <1>5, <1>6
  <2> QED BY <1>4, <1>7, <1>11, <1>12, <2>1 DEF RawOf
<1>14. RawFact(ctx', "vllm", genuine, segs)
  BY <1>3, <1>4, <1>13, PrefillFact
<1>15. ctx'.kind = "raw" /\ moved'.kind = "none"
  BY <1>11, KindsDiffer
<1> QED BY <1>2, <1>4, <1>11, <1>14, <1>15, CoreWithRaw

-----------------------------------------------------------------------------
(* The steps that read, and the step relation as a whole *)

LEMMA ReadsCore ==
    ASSUME CoreInv,
           \/ \E n, answers, steps : TrainStill(n, answers, steps)
           \/ \E p, r : Score(p, r) \/ Generate(p, r) \/ ServeCartridge(p, r)
           \/ \E st, n : ReferenceQueries(st, n)
           \/ \E shim : EnableCompactDecode(shim)
           \/ Return
    PROVE  CoreInv'
<1>1. UNCHANGED <<backend, moved, ctx, segs, genuine, cart, files>>
  BY DEF TrainStill, Score, Generate, ServeCartridge, ReferenceQueries, EnableCompactDecode, Return
<1> QED BY <1>1, CoreStays

LEMMA TokensTyped ==
    /\ \A s \in Segments \cup {<< >>} : s \in Seq(TokenIds)
    /\ \A p \in Prompts : p \in Seq(TokenIds)
    /\ \A r \in Responses : r \in Seq(TokenIds)
  BY EngineAssumption, EmptyIsTyped

LEMMA NextCore ==
    ASSUME CoreInv, Next
    PROVE  CoreInv'
<1>1. CASE \E sg \in Segmentations :
              \/ Start(sg)
              \/ RecomputeIncremental(sg)
              \/ \E f \in SelectFracs, st \in {"hkvd", "recent", "random"} : RecomputeSelective(sg, f, st)
  BY <1>1, StartCore, IncrementalCore, SelectiveCore
<1>2. CASE \E s \in Segments \cup {<< >>} : ExtendContext(s) \/ Fuse(s)
  BY <1>2, TokensTyped, ExtendCore, FuseCore
<1>3. CASE \E p \in Prompts, r \in Responses : GenerateAndExtend(p, r) \/ Score(p, r) \/ Generate(p, r)
  BY <1>3, TokensTyped, GenerateExtendCore, ReadsCore
<1>4. CASE \E st \in {"self", "repeat_prefill", "self_study"}, n \in {2, 3} : ReferenceQueries(st, n)
  BY <1>4, ReadsCore
<1>5. CASE \E b \in Budgets : Compact(b)
  BY <1>5, CompactCore
<1>6. CASE \E n \in Latents, steps \in {0, 1}, answers \in SeqOf(Responses \ {<< >>}, 1) :
              TrainStill(n, answers, steps)
  BY <1>6, ReadsCore
<1>7. CASE \E t \in {2, 3}, steps \in {0, 1}, k \in {"qa", "corpus_span"}, c \in Chats :
              CompileCartridge(t, steps, k, c)
  BY <1>7, CompileCore
<1>8. CASE ConvertToCartridge \/ UseCartridge
  BY <1>8, ConvertCore, UseCore
<1>9. CASE \E path \in Paths : SaveCartridge(path) \/ LoadCartridge(path)
  BY <1>9, SaveCore, LoadCore
<1>10. CASE \E p \in Prompts, r \in Responses : ServeCartridge(p, r)
  BY <1>10, ReadsCore
<1>11. CASE \E shim \in BOOLEAN : EnableCompactDecode(shim)
  BY <1>11, ReadsCore
<1>12. CASE \E d \in Dtypes, prec \in Precisions : \E u \in Numbers(d) : PersistRaw(u, prec, d)
  BY <1>12, PersistRawCore
<1>13. CASE PersistCompact \/ ResumeRaw \/ ResumeCompact
  BY <1>13, PersistCompactCore, ResumeRawCore, ResumeCompactCore
<1>14. CASE \E t \in BlockTables : ConnectorSave(t) \/ ConnectorLoad(t)
  BY <1>14, ConnectorSaveCore, ConnectorLoadCore
<1>15. CASE Return \/ Drop
  BY <1>15, ReadsCore, DropCore
<1> QED BY <1>1, <1>2, <1>3, <1>4, <1>5, <1>6, <1>7, <1>8, <1>9, <1>10, <1>11, <1>12, <1>13,
           <1>14, <1>15 DEF Next

(* The caller's raw cache is always accounted for: what its columns are of, *)
(* where they stand and which segmentation they belong to, through growth,  *)
(* recomputation, files and paged blocks                                    *)
THEOREM Core == Spec => []CoreInv
<1>1. Init => CoreInv
  BY InitCore
<1>2. CoreInv /\ [Next]_vars => CoreInv'
  <2>1. ASSUME CoreInv, Next PROVE CoreInv'
    BY <2>1, NextCore
  <2>2. ASSUME CoreInv, UNCHANGED vars PROVE CoreInv'
    BY <2>2, CoreStays DEF vars
  <2> QED BY <2>1, <2>2
<1> QED BY <1>1, <1>2, PTL DEF Spec

-----------------------------------------------------------------------------
(* What a read returned stays what it was: nothing but Return happens      *)
(* before the caller has it                                                *)

LEMMA IdleIsNone ==
    ASSUME Idle
    PROVE  out = None /\ out.kind = "none"
  BY KindsDiffer DEF Idle

(* The steps that may leave a result *)
LEMMA Results ==
    ASSUME Next
    PROVE  \/ out'.kind \in {"none", "error"}
           \/ Idle /\ ResumeRaw
           \/ Idle /\ \E p \in Prompts, r \in Responses : Score(p, r)
           \/ Idle /\ \E p \in Prompts, r \in Responses : Generate(p, r)
           \/ Idle /\ \E p \in Prompts, r \in Responses : ServeCartridge(p, r)
           \/ Idle /\ \E st \in {"self", "repeat_prefill", "self_study"}, n \in {2, 3} : ReferenceQueries(st, n)
           \/ Idle /\ \E n \in Latents, steps \in {0, 1}, answers \in SeqOf(Responses \ {<< >>}, 1) :
                 TrainStill(n, answers, steps)
           \/ Idle /\ \E t \in {2, 3}, steps \in {0, 1}, k \in {"qa", "corpus_span"}, c \in Chats :
                 CompileCartridge(t, steps, k, c)
<1>1. CASE \E sg \in Segmentations :
              \/ Start(sg)
              \/ RecomputeIncremental(sg)
              \/ \E f \in SelectFracs, st \in {"hkvd", "recent", "random"} : RecomputeSelective(sg, f, st)
  <2>1. Idle /\ out' = out
    BY <1>1 DEF Start, RecomputeIncremental, RecomputeSelective, Raw
  <2> QED BY <2>1, IdleIsNone
<1>2. CASE \E s \in Segments \cup {<< >>} : ExtendContext(s) \/ Fuse(s)
  <2>1. Idle /\ out' \in {out, Error}
    BY <1>2 DEF ExtendContext, Fuse, Raw, Compacted, Unsupported
  <2> QED BY <2>1, IdleIsNone, KindsDiffer
<1>3. CASE \E p \in Prompts, r \in Responses : GenerateAndExtend(p, r) \/ Score(p, r) \/ Generate(p, r)
  <2>1. CASE \E p \in Prompts, r \in Responses : GenerateAndExtend(p, r)
    <3>1. Idle /\ out' \in {out, Error}
      BY <2>1 DEF GenerateAndExtend, Raw, Unsupported
    <3> QED BY <3>1, IdleIsNone, KindsDiffer
  <2>2. ASSUME NEW p \in Prompts, NEW r \in Responses, Score(p, r) \/ Generate(p, r)
        PROVE  Idle
    BY <2>2 DEF Score, Generate
  <2> QED BY <1>3, <2>1, <2>2
<1>4. CASE \E st \in {"self", "repeat_prefill", "self_study"}, n \in {2, 3} : ReferenceQueries(st, n)
  <2>1. Idle
    BY <1>4 DEF ReferenceQueries, Raw
  <2> QED BY <1>4, <2>1
<1>5. CASE \E b \in Budgets : Compact(b)
  <2>1. Idle /\ out' = out
    BY <1>5 DEF Compact, Raw
  <2> QED BY <2>1, IdleIsNone
<1>6. CASE \E n \in Latents, steps \in {0, 1}, answers \in SeqOf(Responses \ {<< >>}, 1) :
              TrainStill(n, answers, steps)
  <2>1. Idle
    BY <1>6 DEF TrainStill, Raw
  <2> QED BY <1>6, <2>1
<1>7. CASE \E t \in {2, 3}, steps \in {0, 1}, k \in {"qa", "corpus_span"}, c \in Chats :
              CompileCartridge(t, steps, k, c)
  <2>1. Idle
    BY <1>7 DEF CompileCartridge, Raw
  <2> QED BY <1>7, <2>1
<1>8. CASE ConvertToCartridge \/ UseCartridge
  <2>1. Idle /\ out' \in {out, Error}
    BY <1>8 DEF ConvertToCartridge, UseCartridge, Compacted
  <2> QED BY <2>1, IdleIsNone, KindsDiffer
<1>9. CASE \E path \in Paths : SaveCartridge(path) \/ LoadCartridge(path)
  <2>1. Idle /\ out' \in {out, Error}
    BY <1>9 DEF SaveCartridge, LoadCartridge
  <2> QED BY <2>1, IdleIsNone, KindsDiffer
<1>10. CASE \E p \in Prompts, r \in Responses : ServeCartridge(p, r)
  <2>1. Idle
    BY <1>10 DEF ServeCartridge
  <2> QED BY <1>10, <2>1
<1>11. CASE \E shim \in BOOLEAN : EnableCompactDecode(shim)
  <2>1. out' \in {None, Error}
    BY <1>11 DEF EnableCompactDecode
  <2> QED BY <2>1, KindsDiffer
<1>12. CASE \E d \in Dtypes, prec \in Precisions : \E u \in Numbers(d) : PersistRaw(u, prec, d)
  <2>1. Idle /\ out' = out
    BY <1>12 DEF PersistRaw, Raw, Persisted
  <2> QED BY <2>1, IdleIsNone
<1>13. CASE PersistCompact \/ ResumeCompact
  <2>1. Idle /\ out' \in {out, Error}
    BY <1>13 DEF PersistCompact, ResumeCompact, Compacted, Persisted, Unsupported
  <2> QED BY <2>1, IdleIsNone, KindsDiffer
<1>14. CASE \E t \in BlockTables : ConnectorSave(t) \/ ConnectorLoad(t)
  <2>1. Idle /\ out' = out
    BY <1>14 DEF ConnectorSave, ConnectorLoad, Raw, Persisted
  <2> QED BY <2>1, IdleIsNone
<1>15. CASE Return
  BY <1>15, KindsDiffer DEF Return
<1>16. CASE Drop
  <2>1. Idle /\ out' = out
    BY <1>16 DEF Drop
  <2> QED BY <2>1, IdleIsNone
<1>17. CASE ResumeRaw
  <2>1. Idle
    BY <1>17 DEF ResumeRaw
  <2> QED BY <1>17, <2>1
<1> QED BY <1>1, <1>2, <1>3, <1>4, <1>5, <1>6, <1>7, <1>8, <1>9, <1>10, <1>11, <1>12, <1>13,
           <1>14, <1>15, <1>16, <1>17, Zenon DEF Next

(* The kind of each result *)
LEMMA ResumeKind ==
    ASSUME ResumeRaw
    PROVE  out' = [kind |-> "loaded", file |-> moved]
  BY DEF ResumeRaw

LEMMA ScoreKind ==
    ASSUME backend \in {"hf", "vllm", "fake"}, NEW p, NEW r, Score(p, r)
    PROVE  out'.kind \in {"rows", "error", "request", "fake"}
<1>1. CASE backend = "hf"
  <2>1. out' = Error \/ out' = Rows(p, r, HF!Score(ctx, p, r))
    BY <1>1 DEF Score
  <2> QED BY <2>1 DEF Rows, Error
<1>2. CASE backend = "vllm"
  <2>1. out' = VL!Score(ready, ctx, p, r)
    BY <1>2 DEF Score
  <2>2. VL!Score(ready, ctx, p, r).kind \in {"rows", "error", "request"}
    BY DEF VL!Score, VL!Error
  <2> QED BY <2>1, <2>2
<1>3. CASE backend = "fake"
  <2>1. out' = [kind |-> "fake", rows |-> FK!Score(ctx, p, r)]
    BY <1>3 DEF Score
  <2> QED BY <2>1
<1> QED BY <1>1, <1>2, <1>3

LEMMA GenerateKind ==
    ASSUME backend \in {"hf", "vllm", "fake"}, NEW p, NEW r, Generate(p, r)
    PROVE  out'.kind \in {"rows", "error", "request", "fake"}
<1>1. CASE backend = "hf"
  <2>1. out' = Error \/ out' = Rows(p, r, HF!GenerateRows(ctx, p, r))
    BY <1>1 DEF Generate
  <2> QED BY <2>1 DEF Rows, Error
<1>2. CASE backend = "vllm"
  <2>1. out' = VL!Generate(ready, ctx, p)
    BY <1>2 DEF Generate
  <2>2. VL!Generate(ready, ctx, p).kind \in {"error", "request"}
    BY DEF VL!Generate, VL!Error
  <2> QED BY <2>1, <2>2
<1>3. CASE backend = "fake"
  <2>1. out' = [kind |-> "fake", rows |-> FK!Generate(ctx, p, Len(r))]
    BY <1>3 DEF Generate
  <2> QED BY <2>1
<1> QED BY <1>1, <1>2, <1>3

LEMMA ServeKind ==
    ASSUME NEW p, NEW r, ServeCartridge(p, r)
    PROVE  out'.kind \in {"writer", "error", "rows"}
<1>1. \/ out' = Error \/ out' = Rows(p, r, << >>)
      \/ out' = [kind |-> "writer", writer |-> InjectPrefix(cart),
                 positions |-> QueryPositions(cart, Len(p \o r))]
  BY DEF ServeCartridge
<1> QED BY <1>1 DEF Rows, Error

LEMMA QueriesKind ==
    ASSUME NEW st, NEW n, ReferenceQueries(st, n)
    PROVE  out'.kind = "queries"
<1>1. PICK q : out' = [kind |-> "queries", strategy |-> st, perHead |-> n, q |-> q]
  BY DEF ReferenceQueries
<1> QED BY <1>1

LEMMA TrainKind ==
    ASSUME NEW n, NEW answers, NEW steps, TrainStill(n, answers, steps)
    PROVE  out'.kind \in {"distilled", "error"}
<1>1. out' = Error \/ \E h, p : out' = [kind |-> "distilled", history |-> h, perceivers |-> p]
  BY DEF TrainStill
<1> QED BY <1>1 DEF Error

LEMMA CompileKind ==
    ASSUME NEW t, NEW steps, NEW k, NEW c, CompileCartridge(t, steps, k, c)
    PROVE  out'.kind \in {"trained", "error"}
<1>1. out' = Error \/ \E x, y : out' = [kind |-> "trained", teacher |-> x, student |-> y]
  BY DEF CompileCartridge
<1> QED BY <1>1 DEF Error

(* The step a result of one kind comes from *)
LEMMA Origin ==
    ASSUME Next, backend \in {"hf", "vllm", "fake"}
    PROVE  /\ out'.kind = "loaded" => Idle /\ ResumeRaw
           /\ out'.kind = "rows" => /\ Idle
                                    /\ \E p \in Prompts, r \in Responses :
                                          Score(p, r) \/ Generate(p, r) \/ ServeCartridge(p, r)
           /\ out'.kind = "request" => /\ Idle
                                       /\ \E p \in Prompts, r \in Responses : Score(p, r) \/ Generate(p, r)
           /\ out'.kind = "writer" => Idle /\ \E p \in Prompts, r \in Responses : ServeCartridge(p, r)
           /\ out'.kind = "queries" =>
                 Idle /\ \E st \in {"self", "repeat_prefill", "self_study"}, n \in {2, 3} :
                           ReferenceQueries(st, n)
           /\ out'.kind = "distilled" =>
                 Idle /\ \E n \in Latents, steps \in {0, 1}, answers \in SeqOf(Responses \ {<< >>}, 1) :
                           TrainStill(n, answers, steps)
           /\ out'.kind = "trained" =>
                 Idle /\ \E t \in {2, 3}, steps \in {0, 1}, k \in {"qa", "corpus_span"}, c \in Chats :
                           CompileCartridge(t, steps, k, c)
<1>1. CASE out'.kind \in {"none", "error"}
  BY <1>1
<1>2. CASE Idle /\ ResumeRaw
  BY <1>2, ResumeKind
<1>3. CASE Idle /\ \E p \in Prompts, r \in Responses : Score(p, r)
  BY <1>3, ScoreKind
<1>4. CASE Idle /\ \E p \in Prompts, r \in Responses : Generate(p, r)
  BY <1>4, GenerateKind
<1>5. CASE Idle /\ \E p \in Prompts, r \in Responses : ServeCartridge(p, r)
  BY <1>5, ServeKind
<1>6. CASE Idle /\ \E st \in {"self", "repeat_prefill", "self_study"}, n \in {2, 3} : ReferenceQueries(st, n)
  BY <1>6, QueriesKind
<1>7. CASE Idle /\ \E n \in Latents, steps \in {0, 1}, answers \in SeqOf(Responses \ {<< >>}, 1) :
                 TrainStill(n, answers, steps)
  BY <1>7, TrainKind
<1>8. CASE Idle /\ \E t \in {2, 3}, steps \in {0, 1}, k \in {"qa", "corpus_span"}, c \in Chats :
                 CompileCartridge(t, steps, k, c)
  BY <1>8, CompileKind
<1> QED BY <1>1, <1>2, <1>3, <1>4, <1>5, <1>6, <1>7, <1>8, Results

-----------------------------------------------------------------------------
(* RawIsPrefill and BlendKeepsPlaces *)

(* A file that was just read holds the numbers it was given, encoded *)
LoadedInv ==
    out.kind = "loaded" =>
        Numberlike(out.file.was) /\ out.file.number = Encode(out.file.was, out.file.store_dtype)

LEMMA LoadedStep ==
    ASSUME CoreInv, LoadedInv, [Next]_vars
    PROVE  LoadedInv'
<1>1. CASE UNCHANGED vars
  BY <1>1 DEF LoadedInv, vars
<1>2. CASE Next
  <2>1. SUFFICES ASSUME out'.kind = "loaded"
                 PROVE  Numberlike(out'.file.was) /\ out'.file.number = Encode(out'.file.was, out'.file.store_dtype)
    BY DEF LoadedInv
  <2>2. ResumeRaw
    BY <1>2, <2>1, Origin DEF CoreInv
  <2>3. out'.file = moved /\ moved.kind = "kv"
    BY <2>2, ResumeKind DEF ResumeRaw
  <2>4. FileFact(moved, backend, genuine, segs)
    BY <2>3 DEF CoreInv
  <2> QED BY <2>3, <2>4 DEF FileFact
<1> QED BY <1>1, <1>2

LEMMA LoadedIsNearest ==
    ASSUME NEW f, Numberlike(f.was), f.number = Encode(f.was, f.store_dtype)
    PROVE  LET n == LoadedNumber(f) IN
           /\ f.store_dtype # "bfloat16" \/ f.was % Half = 0 => n = f.was
           /\ f.store_dtype = "bfloat16" => \A m \in 0 .. Half - 1 :
                  LET far(x) == IF x > f.was THEN x - f.was ELSE f.was - x IN
                  /\ far(n) <= far(m * Half)
                  /\ far(n) = far(m * Half) /\ n # m * Half => (n \div Half) % 2 = 0
<1>1. PICK u, n : u = f.was /\ n = LoadedNumber(f)
  OBVIOUS
<1>2. CASE f.store_dtype # "bfloat16"
  <2>1. n = u
    BY <1>1, <1>2 DEF LoadedNumber, Encode, Decode
  <2> QED BY <1>1, <1>2, <2>1
<1>3. CASE f.store_dtype = "bfloat16"
  <2>1. n = F32OfBf16(Bf16Bits(u))
    BY <1>1, <1>3 DEF LoadedNumber, Encode, Decode
  <2>2. Nearest(u, n)
    BY <1>1, <2>1, Bf16Nearest
  <2>3. u % Half = 0 => n = u
    BY <2>2 DEF Nearest
  <2>4. \A m \in 0 .. Half - 1 :
          LET far(x) == IF x > u THEN x - u ELSE u - x IN
          /\ far(n) <= far(m * Half)
          /\ far(n) = far(m * Half) /\ n # m * Half => (n \div Half) % 2 = 0
    BY <2>2, Zenon DEF Nearest, Distance
  <2> QED BY <1>1, <1>3, <2>3, <2>4, Zenon
<1> QED BY <1>2, <1>3

LEMMA RawFromCore ==
    ASSUME CoreInv, LoadedInv
    PROVE  RawIsPrefill
<1>1. ASSUME ctx.kind = "raw", genuine = Exact
      PROVE  ctx = PrefillOf(backend, ctx.toks, 0) /\ ctx.toks = HF!Tokens(segs)
  BY <1>1, SameTokens DEF CoreInv, RawFact
<1>2. ASSUME out.kind = "loaded"
      PROVE  LET f == out.file
                 n == LoadedNumber(f) IN
             /\ f.store_dtype # "bfloat16" \/ f.was % Half = 0 => n = f.was
             /\ f.store_dtype = "bfloat16" => \A m \in 0 .. Half - 1 :
                    LET far(x) == IF x > f.was THEN x - f.was ELSE f.was - x IN
                    /\ far(n) <= far(m * Half)
                    /\ far(n) = far(m * Half) /\ n # m * Half => (n \div Half) % 2 = 0
  <2>1. Numberlike(out.file.was) /\ out.file.number = Encode(out.file.was, out.file.store_dtype)
    BY <1>2 DEF LoadedInv
  <2> QED BY <2>1, LoadedIsNearest
<1> QED BY <1>1, <1>2, Zenon DEF RawIsPrefill

LEMMA BlendFromCore ==
    ASSUME CoreInv
    PROVE  BlendKeepsPlaces
<1>1. SUFFICES ASSUME ctx.kind = "raw", genuine # Exact, NEW i \in DOMAIN ctx.cols
               PROVE  /\ ctx.cols[i].tok = ctx.toks[i]
                      /\ backend # "fake" => ctx.cols[i].pos = i - 1
                      /\ (i - 1) \in genuine => ctx.cols[i] = HF!Prefill(ctx.toks, 0).cols[i]
  BY DEF BlendKeepsPlaces
<1>2. PICK t, n, w : t = ctx.toks /\ n = Len(t) /\ w = Forward(<< >>, t, 0)
  OBVIOUS
<1>3. RawFact(ctx, backend, genuine, segs)
  BY <1>1 DEF CoreInv
<1>4. t \in Seq(TokenIds) /\ Long(ctx.cols, n) /\ Placed(ctx, backend, genuine)
  BY <1>1, <1>2, <1>3 DEF RawFact
<1>5. i \in 1 .. n
  BY <1>1, <1>4, LongIsSeq
<1>6. HF!Prefill(t, 0).cols = w
  <2>1. PICK c : c = PrefillOf("hf", t, 0)
    OBVIOUS
  <2>2. c = RawOf(w, t) /\ Len(t) \in Nat
    BY <1>2, <1>4, <2>1, PrefillIs, LenProperties DEF Cols
  <2>3. c.cols = w
    BY <2>2, RawFields
  <2> QED BY <2>1, <2>3 DEF PrefillOf
<1> QED BY <1>2, <1>4, <1>5, <1>6 DEF Placed

(* However a raw cache was grown, recomputed or moved, it is the one a      *)
(* prefill gives, and a file holds the nearest number its precision has     *)
(* (engine/base.py extend and recompute_incremental, session/state.py,      *)
(* engine/vllm_connector.py)                                                *)
THEOREM RawExact == Spec => []RawIsPrefill
<1>1. Init => LoadedInv
  BY KindsDiffer DEF Init, LoadedInv
<1>2. CoreInv /\ LoadedInv /\ [Next]_vars => LoadedInv'
  BY LoadedStep
<1>3. CoreInv /\ LoadedInv => RawIsPrefill
  BY RawFromCore
<1> QED BY <1>1, <1>2, <1>3, Core, PTL DEF Spec

(* recompute_selective misplaces no column, and outside the shifted         *)
(* segments gives those of a prefill (segment/selective.py, blend_kv)       *)
THEOREM BlendPlaced == Spec => []BlendKeepsPlaces
<1>1. CoreInv => BlendKeepsPlaces
  BY BlendFromCore
<1> QED BY <1>1, Core, PTL

-----------------------------------------------------------------------------
(* Reference queries *)

(* m queries from position a + 1 - 1 of full on *)
AskedFrom(q, full, a, m) ==
    /\ Long(q, m)
    /\ \A i \in 1 .. m : q[i] = [tok |-> full[a + i], pos |-> a + i - 1]

LEMMA QueriesAre ==
    ASSUME NEW full, NEW a \in Nat, NEW b \in Nat, a <= b, NEW m, m = b - a
    PROVE  AskedFrom(Queries(full, a, b), full, a, m)
  BY DEF Queries, AskedFrom, Long

(* What vLLM's hooks capture of a whole prompt, cut to its end *)
LEMMA CapturedAre ==
    ASSUME NEW full, NEW a \in Nat, NEW b \in Nat, a <= b, NEW m, m = b - a,
           NEW u, Cut(u, Queries(full, 0, b), a + 1, b)
    PROVE  AskedFrom(u, full, a, m)
<1>1. PICK q : q = Queries(full, 0, b)
  OBVIOUS
<1>2. AskedFrom(q, full, 0, b)
  BY <1>1, QueriesAre
<1>3. Long(q, b) /\ \A i \in 1 .. b : q[i] = [tok |-> full[i], pos |-> i - 1]
  BY <1>2 DEF AskedFrom
<1>4. PICK s : s = a + 1
  OBVIOUS
<1>5. s \in Nat \ {0} /\ s <= b + 1 /\ m \in Nat /\ m = b - s + 1 /\ Cut(u, q, s, b)
  BY <1>1, <1>4
<1>6. Long(u, m) /\ \A i \in 1 .. m : u[i] = q[s + i - 1]
  BY <1>3, <1>5, LongSubSeq
<1>7. ASSUME NEW i \in 1 .. m PROVE u[i] = [tok |-> full[a + i], pos |-> a + i - 1]
  <2>1. PICK j : j = a + i
    OBVIOUS
  <2>2. j \in 1 .. b /\ s + i - 1 = j
    BY <1>4, <1>5, <2>1
  <2> QED BY <1>3, <1>6, <2>1, <2>2
<1> QED BY <1>6, <1>7 DEF AskedFrom

(* The index a sample is taken at *)
LEMMA LinspaceIs ==
    ASSUME NEW m \in Nat, NEW k \in {2, 3}, m > k, NEW x, x = Linspace(m, k)
    PROVE  /\ \A i \in 1 .. k : x[i] \in 0 .. m - 1
           /\ \A i, j \in 1 .. k : i < j => x[i] < x[j]
<1>1. \A i \in 1 .. k : x[i] = ((i - 1) * (m - 1)) \div (k - 1)
  BY DEF Linspace
<1>2. CASE k = 2
  <2>1. x[1] = 0 /\ x[2] = m - 1
    <3>1. x[1] = (0 * (m - 1)) \div 1 /\ x[2] = (1 * (m - 1)) \div 1
      BY <1>1, <1>2
    <3> QED BY <3>1
  <2> QED BY <1>2, <2>1
<1>3. CASE k = 3
  <2>1. x[1] = 0 /\ x[2] = (m - 1) \div 2 /\ x[3] = m - 1
    <3>1. /\ x[1] = (0 * (m - 1)) \div 2 /\ x[2] = (1 * (m - 1)) \div 2
          /\ x[3] = (2 * (m - 1)) \div 2
      BY <1>1, <1>3
    <3> QED BY <3>1
  <2>2. (m - 1) \div 2 > 0 /\ (m - 1) \div 2 < m - 1 /\ (m - 1) \div 2 \in Int
    BY <1>3
  <2> QED BY <1>3, <2>1, <2>2
<1> QED BY <1>2, <1>3

(* At most k of the queries, in their order *)
Sampled(s, n, q, m, k) ==
    /\ n \in 1 .. k /\ Long(s, n)
    /\ \E f : /\ \A i \in 1 .. n : f[i] \in 1 .. m /\ s[i] = q[f[i]]
              /\ \A i, j \in 1 .. n : i < j => f[i] < f[j]

LEMMA SubsampleIs ==
    ASSUME NEW q, NEW m, Long(q, m), m # 0, NEW k \in {2, 3}
    PROVE  \E n : Sampled(HF!Subsample(q, k), n, q, m, k)
<1>1. Len(q) = m /\ m \in Nat
  BY LongIsSeq DEF Long
<1>2. CASE m > k
  <2>1. PICK x : x = Linspace(m, k)
    OBVIOUS
  <2>2. /\ \A i \in 1 .. k : x[i] \in 0 .. m - 1
        /\ \A i, j \in 1 .. k : i < j => x[i] < x[j]
    BY <1>1, <1>2, <2>1, LinspaceIs
  <2>3. HF!Linspace(m, k) = x
    BY <2>1 DEF HF!Linspace, Linspace
  <2>4. PICK s : s = [i \in 1 .. k |-> q[x[i] + 1]]
    OBVIOUS
  <2>5. HF!Subsample(q, k) = s
    BY <1>1, <1>2, <2>3, <2>4 DEF HF!Subsample
  <2>6. PICK f : f = [i \in 1 .. k |-> x[i] + 1]
    OBVIOUS
  <2>7. /\ \A i \in 1 .. k : f[i] \in 1 .. m /\ s[i] = q[f[i]]
        /\ \A i, j \in 1 .. k : i < j => f[i] < f[j]
    <3>1. \A i \in 1 .. k : f[i] = x[i] + 1 /\ s[i] = q[x[i] + 1]
      BY <2>4, <2>6
    <3>2. ASSUME NEW i \in 1 .. k PROVE f[i] \in 1 .. m /\ s[i] = q[f[i]]
      <4>1. x[i] \in 0 .. m - 1
        BY <2>2
      <4>2. x[i] + 1 \in 1 .. m
        BY <1>1, <4>1
      <4> QED BY <3>1, <4>2
    <3>3. ASSUME NEW i \in 1 .. k, NEW j \in 1 .. k, i < j PROVE f[i] < f[j]
      <4>1. x[i] \in 0 .. m - 1 /\ x[j] \in 0 .. m - 1 /\ x[i] < x[j]
        BY <2>2, <3>3
      <4>2. x[i] + 1 < x[j] + 1
        BY <1>1, <4>1
      <4> QED BY <3>1, <4>2
    <3> QED BY <3>2, <3>3
  <2>8. Long(s, k) /\ k \in 1 .. k
    BY <2>4 DEF Long
  <2>9. Sampled(s, k, q, m, k)
    BY <2>7, <2>8 DEF Sampled
  <2> QED BY <2>5, <2>9
<1>3. CASE ~ (m > k)
  <2>1. HF!Subsample(q, k) = q
    BY <1>1, <1>3 DEF HF!Subsample
  <2>2. m \in 1 .. k
    BY <1>1, <1>3
  <2>3. PICK f : f = [i \in 1 .. m |-> i]
    OBVIOUS
  <2>4. /\ \A i \in 1 .. m : f[i] \in 1 .. m /\ q[i] = q[f[i]]
        /\ \A i, j \in 1 .. m : i < j => f[i] < f[j]
    BY <1>1, <2>3
  <2>5. Sampled(q, m, q, m, k)
    BY <2>2, <2>4 DEF Sampled
  <2> QED BY <2>1, <2>5
<1> QED BY <1>2, <1>3

LEMMA SameSubsample ==
    ASSUME NEW q, NEW k
    PROVE  VL!Subsample(q, k) = HF!Subsample(q, k)
<1>1. \A n : VL!Linspace(n, k) = HF!Linspace(n, k)
  BY DEF HF!Linspace, VL!Linspace
<1> QED BY <1>1 DEF VL!Subsample, HF!Subsample

(* Two sequences, one after the other *)
LEMMA FlattenTwo ==
    ASSUME NEW S, NEW a \in Seq(S), NEW b \in Seq(S), NEW x, Long(x, 2), x[1] = a, x[2] = b
    PROVE  Put(FlattenSeq(x), a, b)
<1>1. x \in [1 .. 2 -> Seq(S)]
  <2>1. x = [i \in 1 .. 2 |-> x[i]]
    BY DEF Long
  <2>2. \A i \in 1 .. 2 : x[i] \in Seq(S)
    <3>1. \A i \in 1 .. 2 : i = 1 \/ i = 2
      OBVIOUS
    <3> QED BY <3>1
  <2> QED BY <2>1, <2>2
<1>2. x \in Seq(Seq(S)) /\ Len(x) = 2
  BY <1>1, FunctionIsSeq
<1>3. PICK c : c = a \o b
  OBVIOUS
<1>4. << >> \in Seq(S) /\ c \in Seq(S) /\ << >> \o a = a
  BY <1>3, EmptySeq, ConcatProperties, ConcatEmptySeq
<1>5. PICK f : f = [i \in 0 .. 2 |-> IF i = 0 THEN << >> ELSE IF i = 1 THEN a ELSE c]
  OBVIOUS
<1>6. f[0] = << >> /\ f[1] = a /\ f[2] = c /\ f \in [0 .. 2 -> Seq(S)]
  BY <1>4, <1>5
<1>7. ASSUME NEW i \in 1 .. 2 PROVE f[i] = f[i - 1] \o x[i]
  <2>1. CASE i = 1
    <3>1. f[i] = a /\ f[i - 1] = << >> /\ x[i] = a
      BY <1>6, <2>1
    <3> QED BY <1>4, <3>1
  <2>2. CASE i = 2
    <3>1. f[i] = c /\ f[i - 1] = a /\ x[i] = b
      BY <1>6, <2>2
    <3> QED BY <1>3, <3>1
  <2>3. i = 1 \/ i = 2
    OBVIOUS
  <2> QED BY <2>1, <2>2, <2>3, Zenon
<1>8. FlattenSeq(x) = f[2]
  <2>1. f \in [0 .. Len(x) -> Seq(S)] /\ \A i \in 1 .. Len(x) : f[i] = f[i - 1] \o x[i]
    BY <1>2, <1>6, <1>7
  <2> QED BY <1>2, <1>6, <2>1, FlattenIs
<1> QED BY <1>3, <1>6, <1>8 DEF Put

(* The queries of one continuation stand behind the context *)
Behind(q, m, T) == Long(q, m) /\ \A i \in 1 .. m : q[i].pos \in Nat /\ q[i].pos > T

(* A context with a separator and what follows it *)
Separated(full, t, d) == full = t \o <<Sep>> \o d

LEMMA SeparatedIs ==
    ASSUME NEW t, NEW T, Long(t, T), NEW d, NEW n, Long(d, n),
           NEW full, Separated(full, t, d)
    PROVE  /\ Long(full, (T + 1) + n) /\ Len(full) = (T + 1) + n
           /\ \A i \in 1 .. n : full[(T + 1) + i] = d[i]
<1>1. T \in Nat /\ n \in Nat /\ T + 1 \in Nat
  BY DEF Long
<1>2. PICK s : s = <<Sep>>
  OBVIOUS
<1>3. Long(s, 1)
  <2>1. s \in Seq({Sep}) /\ Len(s) = 1
    BY <1>2
  <2> QED BY <2>1, SeqIsLong
<1>4. PICK u : u = t \o s
  OBVIOUS
<1>5. Put(u, t, s) /\ Put(full, u, d)
  BY <1>2, <1>4 DEF Put, Separated
<1>6. Long(u, T + 1)
  BY <1>1, <1>3, <1>5, LongConcat
<1>7. Long(full, (T + 1) + n) /\ \A i \in 1 .. n : full[(T + 1) + i] = d[i]
  <2>1. PICK k : k = T + 1
    OBVIOUS
  <2>2. k \in Nat /\ n \in Nat /\ Long(u, k) /\ Put(full, u, d)
    BY <1>1, <1>5, <1>6, <2>1
  <2>3. Long(full, k + n) /\ \A i \in 1 .. n : full[k + i] = d[i]
    BY <2>2, LongConcat
  <2> QED BY <2>1, <2>3
<1> QED BY <1>7, LongIsSeq

LEMMA ChunkIsBehind ==
    ASSUME NEW q, NEW full, NEW T \in Nat, NEW m, AskedFrom(q, full, T + 1, m)
    PROVE  Behind(q, m, T)
<1>1. Long(q, m) /\ m \in Nat
  BY DEF AskedFrom, Long
<1>2. ASSUME NEW i \in 1 .. m PROVE q[i].pos \in Nat /\ q[i].pos > T
  <2>1. PICK a : a = T + 1
    OBVIOUS
  <2>2. AskedFrom(q, full, a, m)
    BY <2>1
  <2>3. q[i] = [tok |-> full[a + i], pos |-> a + i - 1]
    BY <2>2 DEF AskedFrom
  <2> QED BY <1>1, <2>1, <2>3
<1> QED BY <1>1, <1>2 DEF Behind

(* The continuations of self-study *)
LEMMA SelfStudyIs ==
    ASSUME NEW t, NEW T, Long(t, T), NEW h, NEW n, Long(h, n), NEW cont, cont = << <<Sep>>, h >>,
           NEW x, x \in { HF!SelfStudyQueries(t, cont), VL!SelfStudyQueries(t, cont) }
    PROVE  \E m : Behind(x, m, T) /\ m # 0
<1>1. PICK s : s = <<Sep>>
  OBVIOUS
<1>2. Long(s, 1) /\ DOMAIN cont = 1 .. 2 /\ cont[1] = s /\ cont[2] = h
  <2>1. s \in Seq({Sep}) /\ Len(s) = 1
    BY <1>1
  <2>2. Long(s, 1)
    BY <2>1, SeqIsLong
  <2> QED BY <1>1, <2>2
<1>3. T \in Nat /\ n \in Nat
  BY DEF Long
<1> DEFINE full(c) == t \o <<Sep>> \o cont[c]
<1>4. PICK y : /\ Long(y, 2) /\ x = FlattenSeq(y)
               /\ \A c \in 1 .. 2 : \/ y[c] = Queries(full(c), T + 1, Len(full(c)))
                                    \/ y[c] = SubSeq(Queries(full(c), 0, Len(full(c))), T + 2, Len(full(c)))
  <2>1. Len(t) = T
    BY LongIsSeq
  <2>2. CASE x = HF!SelfStudyQueries(t, cont)
    <3>1. PICK y : y = [c \in 1 .. 2 |-> Queries(full(c), T + 1, Len(full(c)))]
      OBVIOUS
    <3>2. \A lo, hi, f : HF!Queries(f, lo, hi) = Queries(f, lo, hi)
      BY DEF HF!Queries, Queries
    <3>3. x = FlattenSeq(y)
      <4>1. PICK z : z = [c \in DOMAIN cont |-> HF!Queries(full(c), Len(t) + 1, Len(full(c)))]
        OBVIOUS
      <4>2. HF!SelfStudyQueries(t, cont) = HF!FlattenSeq(z)
        BY <4>1 DEF HF!SelfStudyQueries
      <4> HIDE DEF full
      <4>3. z = y
        BY <1>2, <2>1, <3>1, <3>2, <4>1
      <4>4. HF!FlattenSeq(y) = FlattenSeq(y)
        BY DEF HF!FlattenSeq, FlattenSeq
      <4> QED BY <2>2, <4>2, <4>3, <4>4
    <3> HIDE DEF full
    <3>4. Long(y, 2) /\ \A c \in 1 .. 2 : y[c] = Queries(full(c), T + 1, Len(full(c)))
      BY <3>1 DEF Long
    <3> QED BY <3>3, <3>4
  <2>3. CASE x = VL!SelfStudyQueries(t, cont)
    <3>1. PICK y : y = [c \in 1 .. 2 |-> SubSeq(Queries(full(c), 0, Len(full(c))), T + 2, Len(full(c)))]
      OBVIOUS
    <3>2. \A lo, hi, f : VL!Queries(f, lo, hi) = Queries(f, lo, hi)
      BY DEF VL!Queries, Queries
    <3>3. x = FlattenSeq(y)
      <4>1. PICK z : z = [c \in DOMAIN cont |-> SubSeq(VL!Queries(full(c), 0, Len(full(c))), Len(t) + 2, Len(full(c)))]
        OBVIOUS
      <4>2. VL!SelfStudyQueries(t, cont) = VL!FlattenSeq(z)
        BY <4>1 DEF VL!SelfStudyQueries, VL!CaptureQKV
      <4> HIDE DEF full
      <4>3. z = y
        BY <1>2, <2>1, <3>1, <3>2, <4>1
      <4>4. VL!FlattenSeq(y) = FlattenSeq(y)
        BY DEF VL!FlattenSeq, FlattenSeq
      <4> QED BY <2>3, <4>2, <4>3, <4>4
    <3> HIDE DEF full
    <3>4. Long(y, 2) /\ \A c \in 1 .. 2 : y[c] = SubSeq(Queries(full(c), 0, Len(full(c))), T + 2, Len(full(c)))
      BY <3>1 DEF Long
    <3> QED BY <3>3, <3>4
  <2> QED BY <2>2, <2>3
<1> DEFINE long(c) == IF c = 1 THEN 1 ELSE n
<1>5. ASSUME NEW c \in 1 .. 2 PROVE Behind(y[c], long(c), T)
  <2>1. PICK d, l, f : d = cont[c] /\ l = long(c) /\ f = t \o <<Sep>> \o d
    OBVIOUS
  <2>2. Long(d, l) /\ l \in Nat
    BY <1>2, <1>3, <2>1
  <2>3. PICK e : e = (T + 1) + l
    OBVIOUS
  <2>4. Len(f) = e /\ T + 1 \in Nat /\ e \in Nat /\ T + 1 <= e /\ l = e - (T + 1)
    <3>1. Long(t, T) /\ Separated(f, t, d)
      BY <2>1 DEF Separated
    <3>2. Len(f) = (T + 1) + l
      BY <2>2, <3>1, SeparatedIs
    <3> QED BY <1>3, <2>2, <2>3, <3>2
  <2>5. \/ y[c] = Queries(f, T + 1, e)
        \/ y[c] = SubSeq(Queries(f, 0, e), T + 2, e)
    BY <1>4, <2>1, <2>4
  <2>6. AskedFrom(y[c], f, T + 1, l)
    <3>1. CASE y[c] = Queries(f, T + 1, e)
      BY <2>4, <3>1, QueriesAre
    <3>2. CASE y[c] = SubSeq(Queries(f, 0, e), T + 2, e)
      <4>1. (T + 1) + 1 = T + 2
        BY <1>3
      <4>2. Cut(y[c], Queries(f, 0, e), (T + 1) + 1, e)
        BY <3>2, <4>1 DEF Cut
      <4> QED BY <2>4, <4>2, CapturedAre
    <3> QED BY <2>5, <3>1, <3>2
  <2> QED BY <1>3, <2>1, <2>6, ChunkIsBehind
<1>6. PICK a, b : a = y[1] /\ b = y[2]
  OBVIOUS
<1>7. Behind(a, 1, T) /\ Behind(b, n, T)
  <2>1. 1 \in 1 .. 2 /\ 2 \in 1 .. 2 /\ long(1) = 1 /\ long(2) = n
    OBVIOUS
  <2> HIDE DEF long
  <2> QED BY <1>5, <1>6, <2>1
<1>8. PICK S : S = {a[i] : i \in 1 .. 1} \cup {b[i] : i \in 1 .. n}
  OBVIOUS
<1>9. a \in Seq(S) /\ b \in Seq(S)
  <2>1. a \in Seq({a[i] : i \in 1 .. 1}) /\ b \in Seq({b[i] : i \in 1 .. n})
    BY <1>7, LongIsSeq DEF Behind
  <2> QED BY <1>8, <2>1, SeqMonotonic
<1>10. Put(x, a, b)
  BY <1>4, <1>6, <1>9, FlattenTwo
<1>11. /\ Long(x, 1 + n)
       /\ \A i \in 1 .. 1 : x[i] = a[i]
       /\ \A i \in 1 .. n : x[1 + i] = b[i]
  BY <1>3, <1>7, <1>10, LongConcat DEF Behind
<1>12. ASSUME NEW i \in 1 .. 1 + n PROVE x[i].pos \in Nat /\ x[i].pos > T
  <2>1. CASE i = 1
    BY <1>7, <1>11, <2>1 DEF Behind
  <2>2. CASE i # 1
    <3>1. PICK j : j = i - 1
      OBVIOUS
    <3>2. j \in 1 .. n /\ 1 + j = i
      BY <1>3, <2>2, <3>1
    <3> QED BY <1>7, <1>11, <3>2 DEF Behind
  <2> QED BY <2>1, <2>2
<1>13. Behind(x, 1 + n, T) /\ 1 + n # 0
  BY <1>3, <1>11, <1>12 DEF Behind
<1> QED BY <1>13

(* What is sampled of the queries of one strategy *)
Taken(st, q, m, t, T) ==
    /\ Long(q, m) /\ m # 0
    /\ st = "self" => AskedFrom(q, t, 0, m)
    /\ st = "repeat_prefill" => \E full : /\ AskedFrom(q, full, T + 1, m)
                                          /\ \A i \in 1 .. m : full[(T + 1) + i] = t[i]
    /\ st = "self_study" => Behind(q, m, T)

(* The queries of each strategy before they are sampled *)
QueriesOf(b, st, t, cont) ==
    LET T == Len(t) IN
    CASE st = "self" -> Queries(t, 0, T)
      [] st = "repeat_prefill" ->
           IF b = "hf" THEN Queries(t \o <<Sep>> \o t, T + 1, T + 1 + T)
           ELSE SubSeq(Queries(t \o <<Sep>> \o t, 0, Len(t \o <<Sep>> \o t)), T + 2, T + 1 + T)
      [] st = "self_study" -> IF b = "hf" THEN HF!SelfStudyQueries(t, cont) ELSE VL!SelfStudyQueries(t, cont)

LEMMA ReferenceQueriesAre ==
    ASSUME NEW st \in {"self", "repeat_prefill", "self_study"}, NEW t, NEW cont, NEW k
    PROVE  /\ HF!ReferenceQueries(t, st, k, cont) = HF!Subsample(QueriesOf("hf", st, t, cont), k)
           /\ VL!ReferenceQueries(t, st, k, cont) = HF!Subsample(QueriesOf("vllm", st, t, cont), k)
<1>1. \A f, lo, hi : HF!Queries(f, lo, hi) = Queries(f, lo, hi) /\ VL!Queries(f, lo, hi) = Queries(f, lo, hi)
  BY DEF HF!Queries, VL!Queries, Queries
<1>2. HF!ReferenceQueries(t, st, k, cont) = HF!Subsample(QueriesOf("hf", st, t, cont), k)
  <2>1. CASE st = "self"
    BY <1>1, <2>1 DEF HF!ReferenceQueries, QueriesOf
  <2>2. CASE st = "repeat_prefill"
    BY <1>1, <2>2 DEF HF!ReferenceQueries, QueriesOf
  <2>3. CASE st = "self_study"
    BY <1>1, <2>3 DEF HF!ReferenceQueries, QueriesOf
  <2> QED BY <2>1, <2>2, <2>3
<1>3. VL!ReferenceQueries(t, st, k, cont) = VL!Subsample(QueriesOf("vllm", st, t, cont), k)
  <2>1. CASE st = "self"
    BY <1>1, <2>1 DEF VL!ReferenceQueries, QueriesOf, VL!CaptureQKV
  <2>2. CASE st = "repeat_prefill"
    BY <1>1, <2>2 DEF VL!ReferenceQueries, QueriesOf, VL!CaptureQKV
  <2>3. CASE st = "self_study"
    BY <1>1, <2>3 DEF VL!ReferenceQueries, QueriesOf
  <2> QED BY <2>1, <2>2, <2>3
<1> QED BY <1>2, <1>3, SameSubsample

LEMMA QueriesTaken ==
    ASSUME NEW b \in {"hf", "vllm"}, NEW st \in {"self", "repeat_prefill", "self_study"},
           NEW t, NEW T, Long(t, T), T # 0, NEW h, NEW n, Long(h, n), NEW cont, cont = << <<Sep>>, h >>,
           NEW q, q = QueriesOf(b, st, t, cont)
    PROVE  \E m : Taken(st, q, m, t, T)
<1>1. T \in Nat /\ Len(t) = T
  BY LongIsSeq DEF Long
<1>2. CASE st = "self"
  <2>1. q = Queries(t, 0, T)
    BY <1>1, <1>2 DEF QueriesOf
  <2>2. AskedFrom(q, t, 0, T)
    <3>1. 0 \in Nat /\ 0 <= T /\ T = T - 0
      BY <1>1
    <3> QED BY <1>1, <2>1, <3>1, QueriesAre
  <2>3. Taken(st, q, T, t, T)
    BY <1>2, <2>2 DEF Taken, AskedFrom
  <2> QED BY <2>3
<1>3. CASE st = "repeat_prefill"
  <2>1. PICK full : full = t \o <<Sep>> \o t
    OBVIOUS
  <2>2. Len(full) = (T + 1) + T /\ \A i \in 1 .. T : full[(T + 1) + i] = t[i]
    <3>1. Separated(full, t, t)
      BY <2>1 DEF Separated
    <3> QED BY <3>1, SeparatedIs
  <2>3. PICK a, e : a = T + 1 /\ e = a + T
    OBVIOUS
  <2>4. a \in Nat /\ e \in Nat /\ a <= e /\ T = e - a /\ T + 1 + T = e /\ Len(full) = e /\ T + 2 = a + 1
    BY <1>1, <2>2, <2>3
  <2>5. \/ q = Queries(full, a, e)
        \/ q = SubSeq(Queries(full, 0, e), a + 1, e)
    BY <1>1, <1>3, <2>1, <2>3, <2>4 DEF QueriesOf
  <2>6. AskedFrom(q, full, a, T)
    <3>1. CASE q = Queries(full, a, e)
      BY <2>4, <3>1, QueriesAre
    <3>2. CASE q = SubSeq(Queries(full, 0, e), a + 1, e)
      <4>1. Cut(q, Queries(full, 0, e), a + 1, e)
        BY <3>2 DEF Cut
      <4> QED BY <2>4, <4>1, CapturedAre
    <3> QED BY <2>5, <3>1, <3>2
  <2>7. Long(q, T)
    BY <2>6 DEF AskedFrom
  <2>8. \E f : AskedFrom(q, f, T + 1, T) /\ \A i \in 1 .. T : f[(T + 1) + i] = t[i]
    BY <2>2, <2>3, <2>6
  <2>9. Taken(st, q, T, t, T)
    BY <1>3, <2>7, <2>8 DEF Taken
  <2> QED BY <2>9
<1>4. CASE st = "self_study"
  <2>1. q \in { HF!SelfStudyQueries(t, cont), VL!SelfStudyQueries(t, cont) }
    BY <1>4 DEF QueriesOf
  <2>2. PICK m : Behind(q, m, T) /\ m # 0
    BY <2>1, SelfStudyIs
  <2>3. Taken(st, q, m, t, T)
    BY <1>4, <2>2 DEF Taken, Behind
  <2> QED BY <2>3
<1> QED BY <1>2, <1>3, <1>4

(* The promise about one sample *)
LooksBack(s, st, k, t, T) ==
    /\ Len(s) \in 1 .. k
    /\ st # "self_study" => \A i, j \in DOMAIN s : i < j => s[i].pos < s[j].pos
    /\ st = "self" => \A i \in DOMAIN s : s[i].tok = t[s[i].pos + 1]
    /\ st # "self" => \A i \in DOMAIN s :
          /\ s[i].pos > T
          /\ st = "repeat_prefill" => s[i].tok = t[s[i].pos - T]

LEMMA SampleLooksBack ==
    ASSUME NEW st \in {"self", "repeat_prefill", "self_study"}, NEW k \in {2, 3}, NEW t, NEW T \in Nat,
           NEW q, NEW m, Taken(st, q, m, t, T), NEW n, NEW s, Sampled(s, n, q, m, k)
    PROVE  LooksBack(s, st, k, t, T)
<1>1. n \in 1 .. k /\ Len(s) = n /\ DOMAIN s = 1 .. n /\ m \in Nat
  BY LongIsSeq DEF Sampled, Taken, Long
<1>2. PICK f : /\ \A i \in 1 .. n : f[i] \in 1 .. m /\ s[i] = q[f[i]]
               /\ \A i, j \in 1 .. n : i < j => f[i] < f[j]
  BY DEF Sampled
<1>3. CASE st = "self"
  <2>1. ASSUME NEW i \in 1 .. n PROVE s[i].pos = f[i] - 1 /\ s[i].tok = t[f[i]] /\ f[i] \in Nat
    <3>1. PICK g : g = f[i]
      OBVIOUS
    <3>2. g \in 1 .. m /\ s[i] = q[g]
      BY <1>2, <3>1
    <3>3. q[g] = [tok |-> t[0 + g], pos |-> 0 + g - 1]
      BY <1>3, <3>2 DEF Taken, AskedFrom
    <3>4. 0 + g = g /\ g \in Nat
      BY <1>1, <3>2
    <3> QED BY <3>1, <3>2, <3>3, <3>4
  <2>2. ASSUME NEW i \in 1 .. n, NEW j \in 1 .. n, i < j PROVE s[i].pos < s[j].pos
    <3>1. f[i] < f[j] /\ f[i] \in Nat /\ f[j] \in Nat
      BY <1>2, <2>1, <2>2
    <3> QED BY <2>1, <3>1
  <2>3. ASSUME NEW i \in 1 .. n PROVE s[i].tok = t[s[i].pos + 1]
    <3>1. f[i] - 1 + 1 = f[i]
      BY <2>1
    <3> QED BY <2>1, <3>1
  <2> QED BY <1>1, <1>3, <2>2, <2>3 DEF LooksBack
<1>4. CASE st = "repeat_prefill"
  <2>1. PICK full : AskedFrom(q, full, T + 1, m) /\ \A i \in 1 .. m : full[(T + 1) + i] = t[i]
    BY <1>4 DEF Taken
  <2>2. ASSUME NEW i \in 1 .. n PROVE s[i].pos = T + f[i] /\ s[i].tok = t[f[i]] /\ f[i] \in Nat \ {0}
    <3>1. PICK g, a : g = f[i] /\ a = T + 1
      OBVIOUS
    <3>2. g \in 1 .. m /\ s[i] = q[g] /\ AskedFrom(q, full, a, m) /\ full[a + g] = t[g]
      BY <1>2, <2>1, <3>1
    <3>3. q[g] = [tok |-> full[a + g], pos |-> a + g - 1]
      BY <3>2 DEF AskedFrom
    <3>4. a + g - 1 = T + g /\ g \in Nat \ {0}
      BY <1>1, <3>1, <3>2, SMTT(30)
    <3> QED BY <3>1, <3>2, <3>3, <3>4
  <2>3. ASSUME NEW i \in 1 .. n, NEW j \in 1 .. n, i < j PROVE s[i].pos < s[j].pos
    <3>1. f[i] < f[j] /\ f[i] \in Nat /\ f[j] \in Nat
      BY <1>2, <2>2, <2>3
    <3> QED BY <2>2, <3>1
  <2>4. ASSUME NEW i \in 1 .. n PROVE s[i].pos > T /\ s[i].tok = t[s[i].pos - T]
    <3>1. T + f[i] - T = f[i] /\ T + f[i] > T
      BY <2>2
    <3> QED BY <2>2, <3>1
  <2> QED BY <1>1, <1>4, <2>3, <2>4 DEF LooksBack
<1>5. CASE st = "self_study"
  <2>1. ASSUME NEW i \in 1 .. n PROVE s[i].pos > T
    BY <1>2, <1>5 DEF Taken, Behind
  <2> QED BY <1>1, <1>5, <2>1 DEF LooksBack
<1> QED BY <1>3, <1>4, <1>5

LEMMA AskedLooksBack ==
    ASSUME CoreInv, NEW st \in {"self", "repeat_prefill", "self_study"}, NEW k \in {2, 3},
           ReferenceQueries(st, k), backend # "fake"
    PROVE  /\ out'.strategy = st /\ out'.perHead = k /\ ctx' = ctx
           /\ LooksBack(out'.q, st, k, ctx.toks, LogicalLen(ctx))
<1>1. PICK b, t, T, h, n, cont, q :
         /\ b = backend /\ t = ctx.toks /\ T = Len(t) /\ h = Head(segs) /\ n = Len(h)
         /\ cont = << <<Sep>>, h >> /\ q = QueriesOf(b, st, t, cont)
  OBVIOUS
<1>2. RawFact(ctx, backend, genuine, segs) /\ b \in {"hf", "vllm"} /\ segs \in Seq(Seq(TokenIds))
  BY <1>1, RawHeld DEF ReferenceQueries
<1>3. t \in Seq(TokenIds) /\ t # << >> /\ t = Tokens(segs)
  BY <1>1, <1>2 DEF RawFact
<1>4. Long(t, T) /\ T \in Nat /\ T # 0
  <2>1. Long(t, T)
    BY <1>1, <1>3, SeqIsLong
  <2> QED BY <1>3, <2>1, LongIsSeq DEF Long
<1>5. h \in Seq(TokenIds)
  <2>1. segs # << >>
    <3> SUFFICES ASSUME segs = << >> PROVE FALSE
      OBVIOUS
    <3>1. Tokens(segs) = << >>
      BY DEF Tokens, FlattenSeq
    <3> QED BY <1>3, <3>1
  <2> QED BY <1>1, <1>2, <2>1
<1>6. Long(h, n)
  BY <1>1, <1>5, SeqIsLong
<1>7. LogicalLen(ctx) = T
  <2>1. ctx.kind = "raw" /\ ctx.positions = Arange(0, T)
    <3>1. ctx = RawOf(ctx.cols, t)
      BY <1>1, <1>2 DEF RawFact
    <3>2. PICK w : w = ctx.cols
      OBVIOUS
    <3>3. ctx = [kind |-> "raw", cols |-> w, positions |-> Arange(0, T), toks |-> t]
      BY <1>1, <3>1, <3>2 DEF RawOf, KVCache
    <3> QED BY <3>3
  <2>2. Len(Arange(0, T)) = T
    BY <1>4, ArangeIs, LongIsSeq
  <2> QED BY <2>1, <2>2 DEF LogicalLen
<1>8. out' = [kind |-> "queries", strategy |-> st, perHead |-> k, q |-> HF!Subsample(q, k)] /\ ctx' = ctx
  <2>1. PICK r : /\ out' = [kind |-> "queries", strategy |-> st, perHead |-> k, q |-> r]
                 /\ r = CASE backend = "hf" -> HF!ReferenceQueries(t, st, k, cont)
                          [] backend = "vllm" -> VL!ReferenceQueries(t, st, k, cont)
                          [] backend = "fake" -> FK!ReferenceQueries(t, st, k, cont)
    BY <1>1 DEF ReferenceQueries
  <2>2. r = HF!Subsample(q, k)
    BY <1>1, <1>2, <2>1, ReferenceQueriesAre
  <2>3. ctx' = ctx
    BY DEF ReferenceQueries
  <2> QED BY <2>1, <2>2, <2>3
<1>9. PICK m : Taken(st, q, m, t, T)
  BY <1>1, <1>2, <1>4, <1>6, QueriesTaken
<1>10. PICK i : Sampled(HF!Subsample(q, k), i, q, m, k)
  BY <1>9, SubsampleIs DEF Taken
<1>11. LooksBack(HF!Subsample(q, k), st, k, t, T)
  BY <1>4, <1>9, <1>10, SampleLooksBack
<1> QED BY <1>1, <1>7, <1>8, <1>11

LEMMA LookBackStep ==
    ASSUME CoreInv, QueriesLookBack, [Next]_vars
    PROVE  QueriesLookBack'
<1>1. CASE UNCHANGED vars
  BY <1>1 DEF QueriesLookBack, vars, LogicalLen
<1>2. CASE Next
  <2>1. CASE out'.kind = "queries" /\ backend' # "fake"
    <3>1. PICK st \in {"self", "repeat_prefill", "self_study"}, k \in {2, 3} : ReferenceQueries(st, k)
      BY <1>2, <2>1, Origin DEF CoreInv
    <3>2. backend # "fake"
      BY <2>1, <3>1 DEF ReferenceQueries
    <3>3. /\ out'.strategy = st /\ out'.perHead = k /\ ctx' = ctx
          /\ LooksBack(out'.q, st, k, ctx.toks, LogicalLen(ctx))
      BY <3>1, <3>2, AskedLooksBack
    <3>4. LogicalLen(ctx)' = LogicalLen(ctx)
      BY <3>3 DEF LogicalLen
    <3>5. LooksBack(out'.q, out'.strategy, out'.perHead, ctx'.toks, LogicalLen(ctx)')
      BY <3>3, <3>4
    <3> QED BY <3>5, Zenon DEF QueriesLookBack, LooksBack
  <2>2. CASE ~ (out'.kind = "queries" /\ backend' # "fake")
    BY <2>2 DEF QueriesLookBack
  <2> QED BY <2>1, <2>2
<1> QED BY <1>1, <1>2

(* The queries compaction measures attention with are those of the tokens  *)
(* where they stand, and behind the context where the strategy says so     *)
(* (engine/hf_backend.py and vllm_backend.py, reference_queries)           *)
THEOREM QueriesBehind == Spec => []QueriesLookBack
<1>1. Init => QueriesLookBack
  BY KindsDiffer DEF Init, QueriesLookBack
<1>2. CoreInv /\ QueriesLookBack /\ [Next]_vars => QueriesLookBack'
  BY LookBackStep
<1> QED BY <1>1, <1>2, Core, PTL DEF Spec

-----------------------------------------------------------------------------
(* Ranks.  In a finite set with a strict total order R every place has its *)
(* one element.                                                            *)

Orders(R, S) ==
    /\ \A a \in S : <<a, a>> \notin R
    /\ \A a, b, c \in S : <<a, b>> \in R /\ <<b, c>> \in R => <<a, c>> \in R
    /\ \A a, b \in S : a # b => <<a, b>> \in R \/ <<b, a>> \in R

RankIn(R, S, c) == Cardinality({ d \in S : <<d, c>> \in R })

RanksAre(R, S, n) ==
    /\ n \in Nat
    /\ \A c \in S : RankIn(R, S, c) \in 0 .. n - 1
    /\ \A a, b \in S : <<a, b>> \in R => RankIn(R, S, a) < RankIn(R, S, b)
    /\ \A a, b \in S : RankIn(R, S, a) = RankIn(R, S, b) => a = b
    /\ \A k \in 0 .. n - 1 : \E c \in S : RankIn(R, S, c) = k

LEMMA Ranks ==
    ASSUME NEW S, IsFiniteSet(S), NEW R, Orders(R, S), NEW n, n = Cardinality(S)
    PROVE  RanksAre(R, S, n)
<1> DEFINE before(c) == { d \in S : <<d, c>> \in R }
           rank(c) == RankIn(R, S, c)
<1>1. n \in Nat
  BY FS_CardinalityType
<1>2. ASSUME NEW c \in S
      PROVE  IsFiniteSet(before(c)) /\ rank(c) = Cardinality(before(c)) /\ rank(c) \in Nat
  <2>1. before(c) \in SUBSET S
    OBVIOUS
  <2>2. IsFiniteSet(before(c))
    BY <2>1, FS_Subset
  <2> QED BY <2>2, FS_CardinalityType DEF RankIn
<1>3. ASSUME NEW c \in S PROVE rank(c) \in 0 .. n - 1
  <2>1. before(c) \in SUBSET (S \ {c})
    BY DEF Orders
  <2>2. IsFiniteSet(S \ {c}) /\ Cardinality(S \ {c}) = n - 1
    BY FS_RemoveElement
  <2>3. Cardinality(before(c)) <= n - 1
    <3>1. PICK C, D : C = before(c) /\ D = S \ {c}
      OBVIOUS
    <3>2. C \in SUBSET D /\ IsFiniteSet(D)
      BY <2>1, <2>2, <3>1
    <3>3. Cardinality(C) <= Cardinality(D)
      BY <3>2, FS_Subset
    <3> QED BY <2>2, <3>1, <3>3
  <2> QED BY <1>1, <1>2, <2>3
<1>4. ASSUME NEW a \in S, NEW b \in S, <<a, b>> \in R PROVE rank(a) < rank(b)
  <2>1. before(a) \cup {a} \in SUBSET before(b)
    BY <1>4 DEF Orders
  <2>2. IsFiniteSet(before(b)) /\ IsFiniteSet(before(a)) /\ a \notin before(a)
    BY <1>2 DEF Orders
  <2>3. Cardinality(before(a) \cup {a}) = Cardinality(before(a)) + 1
    <3> HIDE DEF before
    <3> QED BY <2>2, FS_AddElement
  <2>4. Cardinality(before(a) \cup {a}) <= Cardinality(before(b))
    <3> HIDE DEF before
    <3> QED BY <2>1, <2>2, FS_Subset
  <2> HIDE DEF before, rank
  <2> QED BY <1>2, <2>3, <2>4
<1>5. ASSUME NEW a \in S, NEW b \in S, rank(a) = rank(b) PROVE a = b
  <2> SUFFICES ASSUME a # b PROVE FALSE
    OBVIOUS
  <2>1. <<a, b>> \in R \/ <<b, a>> \in R
    BY DEF Orders
  <2>2. rank(a) < rank(b) \/ rank(b) < rank(a)
    BY <1>4, <2>1
  <2>3. PICK x \in Nat : x = rank(a)
    BY <1>2
  <2>4. x < x
    BY <1>5, <2>2, <2>3
  <2> QED BY <2>4
<1>6. PICK f : f = [c \in S |-> rank(c)]
  OBVIOUS
<1>7. f \in Injection(S, 0 .. n - 1)
  <2>1. f \in [S -> 0 .. n - 1]
    BY <1>3, <1>6
  <2>2. \A a, b \in S : f[a] = f[b] => a = b
    BY <1>5, <1>6
  <2> QED BY <2>1, <2>2 DEF Injection, IsInjective
<1>8. IsFiniteSet(0 .. n - 1) /\ Cardinality(0 .. n - 1) = n
  <2>1. 0 \in Int /\ n - 1 \in Int
    BY <1>1
  <2>2. IsFiniteSet(0 .. n - 1) /\ Cardinality(0 .. n - 1) = IF 0 > n - 1 THEN 0 ELSE n - 1 - 0 + 1
    BY <2>1, FS_Interval
  <2> QED BY <1>1, <2>2
<1>9. f \in Surjection(S, 0 .. n - 1)
  BY <1>7, <1>8, FS_Injection
<1>10. \A k \in 0 .. n - 1 : \E c \in S : rank(c) = k
  BY <1>6, <1>9 DEF Surjection
<1> QED BY <1>1, <1>3, <1>4, <1>5, <1>10 DEF RanksAre

(* The elements of a set of numbers, in order *)
Sorted(g, S, n) ==
    /\ n \in Nat
    /\ \A k \in 1 .. n : g[k] \in S
    /\ \A k, l \in 1 .. n : k < l => g[k] < g[l]
    /\ \A i \in S : \E k \in 1 .. n : i = g[k]

LEMMA NthIs ==
    ASSUME NEW S, IsFiniteSet(S), S \subseteq Int, NEW n, n = Cardinality(S),
           NEW g, g = [k \in 1 .. n |-> Nth(S, k)]
    PROVE  Sorted(g, S, n)
<1> DEFINE R == { p \in S \X S : p[1] < p[2] }
           upto(i) == { j \in S : j <= i }
<1>1. Orders(R, S)
  <2>1. \A a \in S : <<a, a>> \notin R
    OBVIOUS
  <2>2. \A a, b, c \in S : <<a, b>> \in R /\ <<b, c>> \in R => <<a, c>> \in R
    OBVIOUS
  <2>3. \A a, b \in S : a # b => <<a, b>> \in R \/ <<b, a>> \in R
    OBVIOUS
  <2> HIDE DEF R
  <2> QED BY <2>1, <2>2, <2>3 DEF Orders
<1>2. RanksAre(R, S, n)
  <2> HIDE DEF R
  <2> QED BY <1>1, Ranks
<1>3. ASSUME NEW i \in S PROVE Cardinality(upto(i)) = RankIn(R, S, i) + 1
  <2>1. PICK B : B = { d \in S : <<d, i>> \in R }
    OBVIOUS
  <2>2. i \notin B /\ B \cup {i} = upto(i) /\ B \in SUBSET S
    <3>1. B = { d \in S : d < i }
      BY <2>1
    <3>2. i \in Int /\ ~ (i < i)
      OBVIOUS
    <3>3. i \notin B
      BY <3>1, <3>2
    <3>4. B \in SUBSET S
      BY <3>1
    <3>5. ASSUME NEW d PROVE d \in B \cup {i} <=> d \in upto(i)
      <4>1. CASE d \in S
        <5>1. d \in Int
          BY <4>1
        <5>2. d <= i <=> d < i \/ d = i
          BY <3>2, <5>1
        <5> QED BY <3>1, <4>1, <5>2
      <4>2. CASE d \notin S
        BY <3>1, <4>2
      <4> QED BY <4>1, <4>2
    <3>6. B \cup {i} = upto(i)
      <4> HIDE DEF upto
      <4> QED BY <3>5
    <3> QED BY <3>3, <3>4, <3>6
  <2>3. IsFiniteSet(B)
    BY <2>2, FS_Subset
  <2>4. Cardinality(B \cup {i}) = Cardinality(B) + 1
    BY <2>2, <2>3, FS_AddElement
  <2>5. RankIn(R, S, i) = Cardinality(B)
    BY <2>1 DEF RankIn
  <2> QED BY <2>2, <2>4, <2>5
<1> HIDE DEF R, upto
<1>4. ASSUME NEW k \in 1 .. n PROVE Nth(S, k) \in S /\ RankIn(R, S, Nth(S, k)) = k - 1
  <2>1. n \in Nat /\ k - 1 \in 0 .. n - 1
    BY <1>2 DEF RanksAre
  <2>2. PICK c \in S : RankIn(R, S, c) = k - 1
    BY <1>2, <2>1 DEF RanksAre
  <2>3. Cardinality(upto(c)) = k
    BY <1>3, <2>1, <2>2
  <2>4. Nth(S, k) = CHOOSE i \in S : Cardinality(upto(i)) = k
    BY DEF Nth, upto
  <2>5. Nth(S, k) \in S /\ Cardinality(upto(Nth(S, k))) = k
    BY <2>3, <2>4
  <2>6. RankIn(R, S, Nth(S, k)) \in Nat
    <3>1. RankIn(R, S, Nth(S, k)) \in 0 .. n - 1
      BY <1>2, <2>5 DEF RanksAre
    <3> QED BY <2>1, <3>1
  <2>7. RankIn(R, S, Nth(S, k)) + 1 = k
    BY <1>3, <2>5
  <2> QED BY <2>1, <2>5, <2>6, <2>7
<1>5. \A k \in 1 .. n : g[k] = Nth(S, k)
  OBVIOUS
<1>6. n \in Nat
  BY <1>2 DEF RanksAre
<1>7. ASSUME NEW k \in 1 .. n, NEW l \in 1 .. n, k < l PROVE g[k] < g[l]
  <2>1. PICK a, b : a = g[k] /\ b = g[l]
    OBVIOUS
  <2>2. a \in S /\ b \in S /\ RankIn(R, S, a) = k - 1 /\ RankIn(R, S, b) = l - 1
    BY <1>4, <1>5, <2>1
  <2>3. a # b
    <3>1. k - 1 # l - 1
      BY <1>6, <1>7
    <3> QED BY <2>2, <3>1
  <2>4. ~ (b < a)
    <3> SUFFICES ASSUME b < a PROVE FALSE
      OBVIOUS
    <3>1. <<b, a>> \in R
      BY <2>2 DEF R
    <3>2. RankIn(R, S, b) < RankIn(R, S, a)
      BY <1>2, <2>2, <3>1 DEF RanksAre
    <3>3. l - 1 < k - 1
      BY <2>2, <3>2
    <3> QED BY <1>6, <1>7, <3>3
  <2>5. a \in Int /\ b \in Int
    BY <2>2
  <2> QED BY <2>1, <2>3, <2>4, <2>5
<1>8. ASSUME NEW i \in S PROVE \E k \in 1 .. n : i = g[k]
  <2>1. PICK r \in 0 .. n - 1 : r = RankIn(R, S, i)
    BY <1>2 DEF RanksAre
  <2>2. PICK k : k = r + 1
    OBVIOUS
  <2>3. k \in 1 .. n /\ k - 1 = r
    BY <1>6, <2>1, <2>2
  <2>4. g[k] \in S /\ RankIn(R, S, g[k]) = RankIn(R, S, i)
    BY <1>4, <1>5, <2>1, <2>3
  <2>5. g[k] = i
    BY <1>2, <2>4 DEF RanksAre
  <2> QED BY <2>3, <2>5
<1> QED BY <1>4, <1>5, <1>6, <1>7, <1>8 DEF Sorted

(* The numbers from 1 on are their own order *)
LEMMA NthOfAll ==
    ASSUME NEW n \in Nat, NEW k \in 1 .. n
    PROVE  Nth(1 .. n, k) = k
<1>1. ASSUME NEW i \in 1 .. n PROVE Cardinality({ j \in 1 .. n : j <= i }) = i
  <2>1. { j \in 1 .. n : j <= i } = 1 .. i
    OBVIOUS
  <2>2. 1 \in Int /\ i \in Int /\ ~ (1 > i)
    OBVIOUS
  <2>3. Cardinality(1 .. i) = i - 1 + 1
    BY <2>2, FS_Interval
  <2>4. i - 1 + 1 = i
    OBVIOUS
  <2> QED BY <2>1, <2>3, <2>4
<1> DEFINE c(i) == Cardinality({ j \in 1 .. n : j <= i })
<1>2. \A i \in 1 .. n : c(i) = i
  BY <1>1
<1>3. Nth(1 .. n, k) = CHOOSE i \in 1 .. n : c(i) = k
  BY DEF Nth
<1> HIDE DEF c
<1> QED BY <1>2, <1>3

(* What is taken of a sequence at a set of indices *)
TakenAt(a, s, S, n) ==
    \E g : /\ Sorted(g, S, n) /\ Long(a, n)
           /\ \A k \in 1 .. n : a[k] = s[g[k]]

LEMMA AtIs ==
    ASSUME NEW S, IsFiniteSet(S), S \subseteq Int, NEW n, n = Cardinality(S), NEW s, NEW a, a = At(s, S)
    PROVE  TakenAt(a, s, S, n)
<1>1. PICK g : g = [k \in 1 .. n |-> Nth(S, k)]
  OBVIOUS
<1>2. Sorted(g, S, n)
  BY <1>1, NthIs
<1>3. n \in Nat
  BY <1>2 DEF Sorted
<1>4. a = [k \in 1 .. n |-> s[Nth(S, k)]]
  BY DEF At
<1>5. Long(a, n) /\ \A k \in 1 .. n : a[k] = s[g[k]]
  BY <1>1, <1>3, <1>4 DEF Long
<1> QED BY <1>2, <1>5 DEF TakenAt

(* All of a sequence, and no more than it holds *)
LEMMA AtAll ==
    ASSUME NEW n \in Nat, NEW s, NEW u, Long(u, n), \A i \in 1 .. n : s[i] = u[i]
    PROVE  At(s, 1 .. n) = u
<1>1. Cardinality(1 .. n) = n
  <2>1. 1 \in Int /\ n \in Int
    OBVIOUS
  <2>2. Cardinality(1 .. n) = IF 1 > n THEN 0 ELSE n - 1 + 1
    BY <2>1, FS_Interval
  <2> QED BY <2>2
<1>2. PICK a : a = At(s, 1 .. n)
  OBVIOUS
<1>3. a = [k \in 1 .. n |-> s[Nth(1 .. n, k)]]
  BY <1>1, <1>2 DEF At
<1>4. \A k \in 1 .. n : a[k] = u[k]
  BY <1>3, NthOfAll
<1>5. Long(a, n)
  BY <1>3 DEF Long
<1> QED BY <1>2, <1>4, <1>5, SameSeq

-----------------------------------------------------------------------------
(* Layers, heads and budgets *)

LEMMA HeadsAre ==
    /\ \E n \in Nat \ {0} : Layers = 0 .. n - 1 /\ IsFiniteSet(Layers)
    /\ \E n \in Nat \ {0} : KVHeads = 0 .. n - 1 /\ Cardinality(KVHeads) = n /\ IsFiniteSet(KVHeads)
    /\ FirstHead \in Heads
<1>1. PICK n \in 1 .. Cardinality(Layers) : Layers = 0 .. n - 1
  BY SpecAssumption
<1>2. PICK m \in 1 .. Cardinality(KVHeads) : KVHeads = 0 .. m - 1
  BY SpecAssumption
<1>3. n \in Nat \ {0} /\ m \in Nat \ {0}
  BY <1>1, <1>2
<1>4. ASSUME NEW k \in Nat \ {0} PROVE IsFiniteSet(0 .. k - 1) /\ Cardinality(0 .. k - 1) = k
  <2>1. 0 \in Int /\ k - 1 \in Int /\ ~ (0 > k - 1)
    BY <1>4
  <2>2. IsFiniteSet(0 .. k - 1) /\ Cardinality(0 .. k - 1) = k - 1 - 0 + 1
    BY <2>1, FS_Interval
  <2> QED BY <2>2
<1>5. FirstHead \in Heads
  <2>1. Layers \subseteq Nat /\ Layers # {}
    BY <1>1, <1>3
  <2>2. Min(Layers) \in Layers
    BY <2>1, MinOf
  <2>3. 0 \in KVHeads
    BY <1>2, <1>3
  <2> QED BY <2>2, <2>3 DEF FirstHead, Heads
<1> QED BY <1>1, <1>2, <1>3, <1>4, <1>5

LEMMA SmallQuotient ==
    ASSUME NEW g \in Nat \ {0}, NEW m \in Nat, NEW x \in Nat, NEW b, b = g * m, x < b
    PROVE  x \div g \in 0 .. m - 1
<1>1. PICK q \in Nat : q = x \div g
  OBVIOUS
<1>2. g * q <= x
  BY <1>1
<1>3. ASSUME q >= m PROVE FALSE
  <2>1. PICK d \in Nat : q = m + d
    <3>1. q - m \in Nat /\ q = m + (q - m)
      BY <1>3
    <3> QED BY <3>1
  <2>2. g * q = g * m + g * d /\ g * d \in Nat
    <3>1. g * (m + d) = g * m + g * d
      OBVIOUS
    <3> QED BY <2>1, <3>1
  <2> QED BY <1>2, <2>2
<1> QED BY <1>1, <1>3

LEMMA HeadOf ==
    ASSUME NEW q \in QHeads
    PROVE  kv_head_of(q) \in Heads /\ kv_head_of(q) = <<q[1], q[2] \div GroupSize>>
<1>1. PICK m \in Nat \ {0} : KVHeads = 0 .. m - 1 /\ Cardinality(KVHeads) = m
  BY HeadsAre
<1>2. PICK b : b = GroupSize * m
  OBVIOUS
<1>3. b \in Nat /\ GroupSize \in Nat \ {0}
  BY <1>2, SpecAssumption
<1>4. q[1] \in Layers /\ q[2] \in 0 .. b - 1
  BY <1>1, <1>2 DEF QHeads
<1>5. q[2] \in Nat /\ q[2] < b
  BY <1>3, <1>4
<1>6. q[2] \div GroupSize \in 0 .. m - 1
  BY <1>2, <1>3, <1>5, SmallQuotient
<1> QED BY <1>1, <1>4, <1>6 DEF kv_head_of, Heads

(* A function on the heads has a greatest value *)
LEMMA HeadsBounded ==
    ASSUME NEW f, \A h \in Heads : f[h] \in Nat
    PROVE  \E b \in Nat : \A h \in Heads : f[h] <= b
<1>1. PICK m \in Nat \ {0} : KVHeads = 0 .. m - 1
  BY HeadsAre
<1>2. PICK n \in Nat \ {0} : Layers = 0 .. n - 1
  BY HeadsAre
<1>3. ASSUME NEW l \in Layers
      PROVE  \E b \in Nat : \A k \in KVHeads : f[<<l, k>>] <= b
  <2> DEFINE T == { i \in 0 .. m : \E b \in Nat : \A k \in 0 .. i - 1 : f[<<l, k>>] <= b }
  <2>1. 0 \in T
    OBVIOUS
  <2>2. ASSUME NEW i \in 1 .. m, i - 1 \in T PROVE i \in T
    <3>1. PICK b \in Nat : \A k \in 0 .. i - 2 : f[<<l, k>>] <= b
      BY <2>2
    <3>2. f[<<l, i - 1>>] \in Nat
      BY <1>1 DEF Heads
    <3>3. PICK d \in Nat : b <= d /\ f[<<l, i - 1>>] <= d
      <4>1. b <= f[<<l, i - 1>>] \/ f[<<l, i - 1>>] <= b
        BY <3>2
      <4> QED BY <3>2, <4>1
    <3>4. ASSUME NEW k \in 0 .. i - 1 PROVE f[<<l, k>>] <= d
      <4>1. CASE k = i - 1
        BY <3>3, <4>1
      <4>2. CASE k # i - 1
        <5>1. k \in 0 .. i - 2 /\ k \in KVHeads
          BY <1>1, <4>2
        <5>2. f[<<l, k>>] \in Nat /\ f[<<l, k>>] <= b
          BY <3>1, <5>1 DEF Heads
        <5> QED BY <3>3, <5>2
      <4> QED BY <4>1, <4>2
    <3> QED BY <3>4
  <2>3. m \in T
    <3> HIDE DEF T
    <3>1. \A i \in 1 .. m : i - 1 \in T => i \in T
      BY <2>2
    <3> QED BY <2>1, <3>1, UpTo
  <2> QED BY <1>1, <2>3
<1> DEFINE U == { i \in 0 .. n : \E b \in Nat : \A l \in 0 .. i - 1 : \A k \in KVHeads : f[<<l, k>>] <= b }
<1>4. 0 \in U
  OBVIOUS
<1>5. ASSUME NEW i \in 1 .. n, i - 1 \in U PROVE i \in U
  <2>1. PICK b \in Nat : \A l \in 0 .. i - 2 : \A k \in KVHeads : f[<<l, k>>] <= b
    BY <1>5
  <2>2. PICK c \in Nat : \A k \in KVHeads : f[<<i - 1, k>>] <= c
    BY <1>2, <1>3
  <2>3. PICK d \in Nat : b <= d /\ c <= d
    <3>1. b <= c \/ c <= b
      OBVIOUS
    <3> QED BY <3>1
  <2>4. ASSUME NEW l \in 0 .. i - 1, NEW k \in KVHeads PROVE f[<<l, k>>] <= d
    <3>1. f[<<l, k>>] \in Nat
      BY <1>2 DEF Heads
    <3>2. CASE l = i - 1
      BY <2>2, <2>3, <3>1, <3>2
    <3>3. CASE l # i - 1
      <4>1. l \in 0 .. i - 2
        BY <3>3
      <4> QED BY <2>1, <2>3, <3>1, <4>1
    <3> QED BY <3>2, <3>3
  <2> QED BY <2>4
<1>6. n \in U
  <2> HIDE DEF U
  <2>1. \A i \in 1 .. n : i - 1 \in U => i \in U
    BY <1>5
  <2> QED BY <1>4, <2>1, UpTo
<1>7. PICK b \in Nat : \A l \in Layers : \A k \in KVHeads : f[<<l, k>>] <= b
  BY <1>2, <1>6
<1> QED BY <1>7 DEF Heads

LEMMA GreatestIs ==
    ASSUME NEW f, \A h \in Heads : f[h] \in Nat
    PROVE  /\ Max({ f[h] : h \in Heads }) \in Nat
           /\ \A h \in Heads : f[h] <= Max({ f[h2] : h2 \in Heads })
<1>1. PICK b \in Nat : \A h \in Heads : f[h] <= b
  BY HeadsBounded
<1>2. PICK T : T = { f[h] : h \in Heads }
  OBVIOUS
<1>3. T \subseteq 0 .. b /\ T # {}
  BY <1>1, <1>2, HeadsAre
<1>4. Max(T) \in T /\ \A y \in T : y <= Max(T)
  BY <1>3, MaxOf
<1> QED BY <1>2, <1>3, <1>4

LEMMA MaxOfAny ==
    ASSUME NEW a \in Nat, NEW b \in Nat
    PROVE  Max({a, b}) \in {a, b} /\ a <= Max({a, b}) /\ b <= Max({a, b})
<1>1. CASE a <= b
  <2>1. Max({a, b}) = b
    BY <1>1, MaxOfTwo
  <2> QED BY <1>1, <2>1
<1>2. CASE ~ (a <= b)
  <2>1. b <= a
    BY <1>2
  <2>2. Max({b, a}) = a
    BY <2>1, MaxOfTwo
  <2>3. {a, b} = {b, a}
    OBVIOUS
  <2> QED BY <2>1, <2>2, <2>3
<1> QED BY <1>1, <1>2

LEMMA Rounded ==
    ASSUME NEW n \in Nat, NEW d \in Nat \ {0}
    PROVE  RoundHalfEven(n, d) \in Nat
<1>1. PICK q, r : q = n \div d /\ r = 2 * (n % d)
  OBVIOUS
<1>2. q \in Nat /\ r \in Nat
  BY <1>1
<1> QED BY <1>1, <1>2 DEF RoundHalfEven

(* A share of at most the whole is at most the whole *)
LEMMA ShareIs ==
    ASSUME NEW f, f[1] \in Nat, f[2] \in Nat \ {0}, NEW t \in Nat
    PROVE  Share(f, t) \in Nat /\ (f[1] <= f[2] => Share(f, t) <= t)
<1>1. PICK a, d : a = f[1] /\ d = f[2]
  OBVIOUS
<1>2. a \in Nat /\ d \in Nat \ {0}
  BY <1>1
<1>3. PICK n : n = a * t
  OBVIOUS
<1>4. n \in Nat
  BY <1>2, <1>3
<1>5. Share(f, t) = RoundHalfEven(n, d)
  BY <1>1, <1>3 DEF Share
<1>6. ASSUME a <= d PROVE RoundHalfEven(n, d) <= t
  <2>1. PICK w : w = d * t
    OBVIOUS
  <2>2. n <= w /\ w \in Nat
    <3>1. PICK e \in Nat : d = a + e
      <4>1. d - a \in Nat /\ d = a + (d - a)
        BY <1>2, <1>6
      <4> QED BY <4>1
    <3>2. (a + e) * t = a * t + e * t /\ e * t \in Nat
      BY <1>2
    <3> QED BY <1>2, <1>3, <1>4, <2>1, <3>1, <3>2
  <2>3. PICK q, r : q = n \div d /\ r = n % d
    OBVIOUS
  <2>4. q \in Nat /\ r \in 0 .. d - 1 /\ n = d * q + r
    BY <1>2, <1>4, <2>3
  <2>5. ASSUME q > t PROVE FALSE
    <3>1. PICK e \in Nat : q = t + 1 + e
      <4>1. q - t - 1 \in Nat /\ q = t + 1 + (q - t - 1)
        BY <2>4, <2>5
      <4> QED BY <4>1
    <3>2. d * (t + 1 + e) = d * t + d + d * e /\ d * e \in Nat
      BY <1>2
    <3> QED BY <1>2, <2>1, <2>2, <2>4, <3>1, <3>2
  <2>6. CASE q < t
    <3>1. q + 1 <= t
      BY <2>4, <2>6
    <3> QED BY <2>3, <2>4, <2>6, <3>1 DEF RoundHalfEven
  <2>7. CASE q = t
    <3>1. r = 0
      BY <1>2, <2>1, <2>2, <2>4, <2>7
    <3>2. ~ (2 * r > d) /\ ~ (2 * r = d)
      BY <1>2, <3>1
    <3> QED BY <2>3, <2>7, <3>2 DEF RoundHalfEven
  <2> QED BY <2>4, <2>5, <2>6, <2>7
<1> QED BY <1>1, <1>2, <1>4, <1>5, <1>6, Rounded

(* What a budget gives to a head of a context of T tokens *)
LEMMA TargetIs ==
    ASSUME NEW b \in Budgets, NEW T \in Nat \ {0}, NEW t, t = Min({TargetT(b, T), T})
    PROVE  t \in 1 .. T /\ Min({b.min, T}) <= t /\ Min({b.min, T}) \in 1 .. T
<1>1. b.ratio \in Nat /\ b.tokens \in Nat /\ b.min \in Nat \ {0}
  BY EngineAssumption
<1>2. PICK x : x = TargetT(b, T)
  OBVIOUS
<1>3. x \in Nat /\ b.min <= x
  <2>1. CASE b.ratio # NoBudget
    <3>1. RoundHalfEven(T, b.ratio) \in Nat
      BY <1>1, <2>1, Rounded DEF NoBudget
    <3>2. x = Max({b.min, RoundHalfEven(T, b.ratio)})
      BY <1>2, <2>1 DEF TargetT
    <3> QED BY <1>1, <3>1, <3>2, MaxOfAny
  <2>2. CASE ~ (b.ratio # NoBudget)
    <3>1. x = Max({b.min, b.tokens})
      BY <1>2, <2>2 DEF TargetT
    <3> QED BY <1>1, <3>1, MaxOfAny
  <2> QED BY <2>1, <2>2
<1>4. t = IF x <= T THEN x ELSE T
  BY <1>2, <1>3, MinOfTwo
<1>5. Min({b.min, T}) = IF b.min <= T THEN b.min ELSE T
  BY <1>1, MinOfTwo
<1> QED BY <1>1, <1>3, <1>4, <1>5

-----------------------------------------------------------------------------
(* Slots.  A raw cache of T tokens whose positions start at a; a head of a *)
(* compact cache; and what a head keeps of a raw cache.                    *)

Shaped(c, T, a) ==
    /\ c.kind = "raw" /\ T \in Nat /\ a \in Nat
    /\ Long(c.cols, T) /\ Long(c.positions, T) /\ LogicalLen(c) = T
    /\ \A i \in 1 .. T : c.positions[i] = a + i - 1

IsSlot(s) == s = Slot(s.pos, s.key, s.val, s.bias) /\ s.bias \in {"zero", "fit"}

IsRow(hd, n) == Long(hd, n) /\ \A i \in 1 .. n : IsSlot(hd[i])

LEMMA SlotFields ==
    ASSUME NEW p, NEW k, NEW v, NEW b, NEW s, s = Slot(p, k, v, b)
    PROVE  /\ s.pos = p /\ s.key = k /\ s.val = v /\ s.bias = b
           /\ b \in {"zero", "fit"} => IsSlot(s)
  BY DEF Slot, IsSlot

LEMMA RawSlots ==
    ASSUME NEW c, NEW T, NEW a, Shaped(c, T, a), NEW h, NEW w, w = SlotsOf(c, h)
    PROVE  /\ IsRow(w, T)
           /\ \A i \in 1 .. T : w[i] = Slot(a + i - 1, c.cols[i], c.cols[i], "zero")
<1>1. T \in Nat /\ DOMAIN c.cols = 1 .. T
  BY LongIsSeq DEF Shaped
<1>2. w = [i \in 1 .. T |-> Slot(c.positions[i], c.cols[i], c.cols[i], "zero")]
  BY <1>1 DEF SlotsOf, Shaped
<1>3. \A i \in 1 .. T : w[i] = Slot(a + i - 1, c.cols[i], c.cols[i], "zero")
  BY <1>2 DEF Shaped
<1>4. Long(w, T)
  BY <1>1, <1>2 DEF Long
<1>5. ASSUME NEW i \in 1 .. T PROVE IsSlot(w[i])
  BY <1>3, SlotFields
<1> QED BY <1>3, <1>4, <1>5 DEF IsRow

(* The elements of a set of numbers, in order *)
Order(S) == [k \in 1 .. Cardinality(S) |-> Nth(S, k)]

(* What a head that keeps S of the T tokens of o holds, its slots at the   *)
(* positions of P                                                          *)
Kept(hd, o, T, S, P) ==
    /\ S \subseteq 1 .. T
    /\ IsRow(hd, Cardinality(S))
    /\ \A k \in 1 .. Cardinality(S) :
          hd[k].key = o.cols[Order(S)[k]] /\ hd[k].pos = o.positions[Order(P)[k]]
    /\ Cardinality(S) = T => hd = SlotsOf(o, FirstHead)

LEMMA SubsetOfTokens ==
    ASSUME NEW T \in Nat, NEW S, S \subseteq 1 .. T
    PROVE  /\ IsFiniteSet(S) /\ Cardinality(S) \in 0 .. T /\ S \subseteq Int
           /\ Cardinality(S) = T => S = 1 .. T
           /\ Sorted(Order(S), S, Cardinality(S))
<1>1. IsFiniteSet(1 .. T) /\ Cardinality(1 .. T) = T
  <2>1. 1 \in Int /\ T \in Int
    OBVIOUS
  <2>2. IsFiniteSet(1 .. T) /\ Cardinality(1 .. T) = IF 1 > T THEN 0 ELSE T - 1 + 1
    BY <2>1, FS_Interval
  <2> QED BY <2>2
<1>2. PICK D : D = 1 .. T
  OBVIOUS
<1>3. S \in SUBSET D /\ IsFiniteSet(D) /\ Cardinality(D) = T
  BY <1>1, <1>2
<1>4. IsFiniteSet(S) /\ Cardinality(S) <= T /\ (T = Cardinality(S) => D = S)
  BY <1>3, FS_Subset
<1>5. Cardinality(S) \in Nat
  BY <1>4, FS_CardinalityType
<1>6. S \subseteq Int
  OBVIOUS
<1>7. PICK n : n = Cardinality(S)
  OBVIOUS
<1>8. PICK g : g = [k \in 1 .. n |-> Nth(S, k)]
  OBVIOUS
<1>9. Sorted(g, S, n)
  BY <1>4, <1>6, <1>7, <1>8, NthIs
<1> QED BY <1>2, <1>4, <1>5, <1>6, <1>7, <1>8, <1>9 DEF Order

LEMMA KeepIs ==
    ASSUME NEW c, NEW T, Shaped(c, T, 0), NEW S, S \subseteq 1 .. T, NEW val,
           NEW bias \in {"zero", "fit"}, Cardinality(S) = T => val = c.cols /\ bias = "zero",
           NEW hd, hd = Keep(c, S, val, bias)
    PROVE  Kept(hd, c, T, S, S)
<1>1. T \in Nat /\ Long(c.cols, T)
  BY DEF Shaped
<1>2. PICK n : n = Cardinality(S)
  OBVIOUS
<1>3. n \in 0 .. T /\ (n = T => S = 1 .. T) /\ Sorted(Order(S), S, n)
  BY <1>1, <1>2, SubsetOfTokens
<1>4. PICK s : s = [i \in S |-> Slot(c.positions[i], c.cols[i], val[i], bias)]
  OBVIOUS
<1>5. hd = [k \in 1 .. n |-> s[Nth(S, k)]]
  BY <1>2, <1>4 DEF Keep, At
<1>6. ASSUME NEW k \in 1 .. n
      PROVE  \E i \in S : /\ i = Order(S)[k]
                          /\ hd[k] = Slot(c.positions[i], c.cols[i], val[i], bias)
  <2>1. Order(S)[k] \in S /\ Order(S)[k] = Nth(S, k)
    BY <1>2, <1>3 DEF Sorted, Order
  <2>2. hd[k] = s[Nth(S, k)]
    BY <1>5
  <2>3. s[Nth(S, k)] = Slot(c.positions[Nth(S, k)], c.cols[Nth(S, k)], val[Nth(S, k)], bias)
    BY <1>4, <2>1
  <2> QED BY <2>1, <2>2, <2>3
<1>7. Long(hd, n)
  BY <1>3, <1>5 DEF Long
<1>8. ASSUME NEW k \in 1 .. n
      PROVE  /\ IsSlot(hd[k]) /\ hd[k].key = c.cols[Order(S)[k]]
             /\ hd[k].pos = c.positions[Order(S)[k]]
  <2>1. PICK i \in S : i = Order(S)[k] /\ hd[k] = Slot(c.positions[i], c.cols[i], val[i], bias)
    BY <1>6
  <2>2. /\ IsSlot(hd[k]) /\ hd[k].key = c.cols[i] /\ hd[k].pos = c.positions[i]
    BY <2>1, SlotFields
  <2> QED BY <2>1, <2>2
<1>9. ASSUME n = T PROVE hd = SlotsOf(c, FirstHead)
  <2>1. PICK w : w = SlotsOf(c, FirstHead)
    OBVIOUS
  <2>2. IsRow(w, T) /\ \A i \in 1 .. T : w[i] = Slot(0 + i - 1, c.cols[i], c.cols[i], "zero")
    BY <2>1, RawSlots
  <2>3. S = 1 .. T /\ val = c.cols /\ bias = "zero"
    BY <1>2, <1>3, <1>9
  <2>4. \A i \in 1 .. T : s[i] = w[i]
    BY <1>4, <2>2, <2>3 DEF Shaped
  <2>5. At(s, 1 .. T) = w
    BY <1>1, <2>2, <2>4, AtAll DEF IsRow
  <2>6. hd = At(s, S)
    BY <1>4 DEF Keep
  <2> QED BY <2>1, <2>3, <2>5, <2>6
<1> QED BY <1>2, <1>7, <1>8, <1>9 DEF Kept, IsRow

-----------------------------------------------------------------------------
(* The budget of a layer, added up head by head *)

AddsUp(c, l, G) ==
    /\ G[{}] = 0
    /\ \A s \in SUBSET KVHeads : \A x \in s : G[s] = Len(c.heads[<<l, x>>]) + G[s \ {x}]

LEMMA LayerBudgetIs ==
    ASSUME NEW c, NEW l, NEW G, AddsUp(c, l, G)
    PROVE  LayerBudget(c, l) = G[KVHeads]
<1> DEFINE S == KVHeads
           one(s) == CHOOSE x \in s : TRUE
           n(x) == Len(c.heads[<<l, x>>])
           body(it) == [s \in SUBSET S |-> IF s = {} THEN 0 ELSE n(one(s)) + it[s \ {one(s)}]]
<1>1. IsFiniteSet(S)
  BY HeadsAre
<1>2. PICK it : it = CHOOSE f : f = body(f)
  OBVIOUS
<1>3. LayerBudget(c, l) = it[S]
  BY <1>2 DEF LayerBudget, MapThenSumSet, MapThenFoldSet
<1>4. \A s \in SUBSET S : s # {} => one(s) \in s
  OBVIOUS
<1>5. ASSUME NEW s \in SUBSET S, s # {} PROVE G[s] = n(one(s)) + G[s \ {one(s)}]
  BY <1>4, <1>5 DEF AddsUp
<1>6. \E f : f = body(f)
  <2>1. PICK f : f = [s \in SUBSET S |-> G[s]]
    OBVIOUS
  <2>2. ASSUME NEW s \in SUBSET S
        PROVE  f[s] = IF s = {} THEN 0 ELSE n(one(s)) + f[s \ {one(s)}]
    <3> HIDE DEF n, one
    <3>1. s \ {one(s)} \in SUBSET S
      OBVIOUS
    <3>2. f[s] = G[s] /\ f[s \ {one(s)}] = G[s \ {one(s)}]
      BY <2>1, <3>1
    <3>3. CASE s = {}
      BY <3>2, <3>3 DEF AddsUp
    <3>4. CASE s # {}
      BY <3>2, <3>4, <1>5
    <3> QED BY <3>3, <3>4
  <2>3. f = body(f)
    <3> HIDE DEF n, one
    <3> QED BY <2>1, <2>2
  <2> QED BY <2>3
<1>7. it = body(it)
  <2> HIDE DEF body
  <2> QED BY <1>2, <1>6
<1>8. ASSUME NEW s \in SUBSET S
      PROVE  it[s] = IF s = {} THEN 0 ELSE n(one(s)) + it[s \ {one(s)}]
  <2> HIDE DEF n, one
  <2> QED BY <1>7
<1> HIDE DEF n, body
<1>9. PICK m \in Nat : m = Cardinality(S)
  BY <1>1, FS_CardinalityType
<1> DEFINE T == { k \in 0 .. m : \A s \in SUBSET S : Cardinality(s) = k => it[s] = G[s] }
<1>10. 0 \in T
  <2>1. ASSUME NEW s \in SUBSET S, Cardinality(s) = 0 PROVE it[s] = G[s]
    <3>1. s = {}
      BY <1>1, <2>1, FS_Subset, FS_EmptySet
    <3> QED BY <3>1, <1>8 DEF AddsUp
  <2> QED BY <1>9, <2>1
<1>11. ASSUME NEW k \in 1 .. m, k - 1 \in T PROVE k \in T
  <2>1. ASSUME NEW s \in SUBSET S, Cardinality(s) = k PROVE it[s] = G[s]
    <3>1. IsFiniteSet(s)
      BY <1>1, FS_Subset
    <3>2. s # {}
      BY <2>1, FS_EmptySet
    <3>3. PICK x, r : x = one(s) /\ r = s \ {one(s)}
      OBVIOUS
    <3>4. x \in s /\ r = s \ {x} /\ r \in SUBSET S
      BY <1>4, <3>2, <3>3
    <3>5. Cardinality(r) = k - 1
      BY <2>1, <3>1, <3>4, FS_RemoveElement
    <3>6. it[r] = G[r]
      BY <1>11, <3>4, <3>5
    <3>7. it[s] = n(x) + it[r]
      BY <1>8, <3>2, <3>3
    <3>8. G[s] = n(x) + G[r]
      BY <1>5, <3>2, <3>3
    <3> QED BY <3>6, <3>7, <3>8
  <2> QED BY <2>1
<1>12. m \in T
  <2> HIDE DEF T
  <2>1. \A k \in 1 .. m : k - 1 \in T => k \in T
    BY <1>11
  <2> QED BY <1>10, <2>1, UpTo
<1>13. it[S] = G[S]
  BY <1>9, <1>12
<1> QED BY <1>3, <1>13

(* Heads that all keep t slots *)
LEMMA EvenBudget ==
    ASSUME NEW c, NEW l, NEW t \in Nat, \A x \in KVHeads : Len(c.heads[<<l, x>>]) = t
    PROVE  LayerBudget(c, l) = t * Cardinality(KVHeads)
<1>1. PICK G : G = [s \in SUBSET KVHeads |-> t * Cardinality(s)]
  OBVIOUS
<1>2. IsFiniteSet(KVHeads)
  BY HeadsAre
<1>3. G[{}] = 0
  <2>1. Cardinality({}) = 0
    BY FS_EmptySet
  <2> QED BY <1>1, <2>1
<1>4. ASSUME NEW s \in SUBSET KVHeads, NEW x \in s
      PROVE  G[s] = Len(c.heads[<<l, x>>]) + G[s \ {x}]
  <2>1. IsFiniteSet(s)
    BY <1>2, FS_Subset
  <2>2. PICK k : k = Cardinality(s \ {x})
    OBVIOUS
  <2>3. Cardinality(s \ {x}) = Cardinality(s) - 1 /\ Cardinality(s) \in Nat /\ IsFiniteSet(s \ {x})
    BY <2>1, FS_RemoveElement, FS_CardinalityType
  <2>4. k \in Nat
    BY <2>2, <2>3, FS_CardinalityType
  <2>5. Cardinality(s) = k + 1
    BY <2>2, <2>3
  <2>6. G[s] = t * (k + 1) /\ G[s \ {x}] = t * k
    BY <1>1, <2>2, <2>5
  <2>7. t * (k + 1) = t + t * k
    BY <2>4
  <2> QED BY <2>6, <2>7
<1>5. LayerBudget(c, l) = G[KVHeads]
  <2>1. AddsUp(c, l, G)
    BY <1>3, <1>4 DEF AddsUp
  <2> QED BY <2>1, LayerBudgetIs
<1> QED BY <1>1, <1>5
=============================================================================
