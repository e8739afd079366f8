----------------------- MODULE SegmentedSession_proofs -----------------------
(***************************************************************************)
(* Theorems of SegmentedSession.                                           *)
(***************************************************************************)
EXTENDS SegmentedSession, SegmentPlan_proofs

-----------------------------------------------------------------------------
(* Plans. *)

(* In either mode the plan tiles the new context *)
LEMMA PlanTiles ==
    ASSUME NEW S, NEW prev \in Seq(Seq(S)), NEW new \in Seq(Seq(S)), NEW mode
    PROVE  Tiles(prev, new, mode)
<1>1. PICK c, plan : c = CommonPrefixLen(prev, new) /\ plan = PlanIncremental(prev, new, mode)
  OBVIOUS
<1>2. /\ c \in Nat /\ c <= Len(prev) /\ c <= Len(new)
      /\ \A i \in 1 .. c : prev[i] = new[i]
  BY <1>1, CommonPrefix
<1>3. Len(new) \in Nat /\ Len(plan) = Len(new) /\ DOMAIN plan = 1 .. Len(new)
  BY <1>1, PlanFacts
<1>4. ASSUME NEW i \in 1 .. Len(new)
      PROVE  /\ i \in Nat /\ i <= Len(new)
             /\ plan[i].span[1] = Offset(new, i)
             /\ plan[i].span[2] = Offset(new, i + 1)
             /\ i <= c => plan[i].action = "reuse_exact" /\ plan[i].prev = i
             /\ i > c => \/ plan[i].action = "recompute" /\ plan[i].prev = NoMatch
                         \/ /\ plan[i].action = "reuse_shifted"
                            /\ plan[i].prev \in c + 1 .. Len(prev)
                            /\ prev[plan[i].prev] = new[i]
             /\ FirstToTake(plan[i], c, i, plan)
  <2>1. Fits(plan[i], prev, new, mode, c, i) /\ FirstToTake(plan[i], c, i, plan)
    BY <1>1, PlanFacts
  <2> QED BY <1>3, <2>1 DEF Fits
<1>5. Len(prev) \in Nat
  BY LenProperties
<1>6. ASSUME NEW i \in 1 .. Len(new)
      PROVE  plan[i].span[1] = IF i = 1 THEN 0 ELSE plan[i - 1].span[2]
  <2>1. CASE i = 1
    BY <2>1, <1>4, Offsets
  <2>2. CASE i # 1
    <3>1. PICK k : k = i - 1
      OBVIOUS
    <3>2. k \in 1 .. Len(new) /\ k + 1 = i
      BY <1>3, <2>2, <3>1
    <3>3. plan[k].span[2] = Offset(new, i)
      BY <3>2, <1>4
    <3> QED BY <2>2, <3>1, <3>3, <1>4
  <2> QED BY <2>1, <2>2
<1>7. ASSUME NEW i \in 1 .. Len(new), plan[i].action # "recompute"
      PROVE  prev[plan[i].prev] = new[i]
  <2>1. CASE i <= c
    BY <1>2, <1>4, <2>1, SMTT(30)
  <2>2. CASE i > c
    BY <1>4, <1>7, <2>2
  <2> QED BY <1>2, <1>3, <2>1, <2>2
<1>8. ASSUME NEW i \in 1 .. Len(new), plan[i].action = "reuse_exact"
      PROVE  Offset(prev, plan[i].prev) = plan[i].span[1]
  <2>1. i <= c /\ plan[i].prev = i
    <3>1. CASE i > c
      BY <1>4, <1>8, <3>1
    <3>2. CASE ~(i > c)
      BY <1>2, <1>4, <3>2
    <3> QED BY <3>1, <3>2
  <2>2. i \in 1 .. c + 1
    BY <1>2, <2>1
  <2>3. Offset(prev, i) = Offset(new, i)
    BY <1>2, <2>2, SameHead
  <2> QED BY <1>4, <2>1, <2>3
<1>9. ASSUME NEW i \in 1 .. Len(new), NEW k \in 1 .. Len(new), k < i, plan[i].prev # NoMatch
      PROVE  plan[i].prev # plan[k].prev
  <2>1. CASE i <= c
    <3>1. k <= c
      BY <1>2, <1>3, <1>9, <2>1
    <3> QED BY <2>1, <3>1, <1>4, <1>9
  <2>2. CASE i > c
    <3>1. k \in 1 .. i - 1
      BY <1>3, <1>9
    <3> QED BY <2>2, <3>1, <1>4, <1>9 DEF FirstToTake
  <2> QED BY <2>1, <2>2, <1>2, <1>3
<1>10. ASSUME NEW i \in 1 .. Len(new), NEW k \in 1 .. Len(new), i # k, plan[i].prev # NoMatch
       PROVE  plan[i].prev # plan[k].prev
  <2>1. CASE k < i
    BY <1>9, <1>10, <2>1
  <2>2. CASE i < k
    <3>1. plan[k].prev = NoMatch \/ plan[i].prev # plan[k].prev
      BY <1>9, <2>2
    <3> QED BY <3>1, <1>10
  <2> QED BY <2>1, <2>2, <1>3, <1>10
<1>11. ASSUME new # << >> PROVE plan[Len(new)].span[2] = Len(Tokens(new))
  <2>1. Len(new) # 0
    BY <1>11, EmptySeq
  <2>2. Len(new) \in 1 .. Len(new)
    BY <2>1, <1>3
  <2> QED BY <2>2, <1>4, Offsets
<1> QED BY <1>1, <1>3, <1>6, <1>7, <1>8, <1>10, <1>11 DEF Tiles

(* diff's common part is the common prefix of the plan *)
LEMMA DiffCommon ==
    ASSUME NEW S, NEW a \in Seq(Seq(S)), NEW b \in Seq(Seq(S)),
           NEW c, c = CommonPrefixLen(a, b)
    PROVE  Diff(a, b).common = c /\ Diff(a, b).only_other = SubSeq(b, c + 1, Len(b))
<1>1. /\ c \in Nat /\ c <= Len(a) /\ c <= Len(b)
      /\ \A i \in 1 .. c : a[i] = b[i]
      /\ c < Len(a) /\ c < Len(b) => a[c + 1] # b[c + 1]
  <2>1. PICK X : X = Seq(S)
    OBVIOUS
  <2>2. a \in Seq(X) /\ b \in Seq(X)
    BY <2>1
  <2>3. c \in Nat /\ c <= Len(a) /\ c <= Len(b)
    BY <2>2, CommonPrefix
  <2>4. \A i \in 1 .. c : a[i] = b[i]
    BY <2>2, CommonPrefix
  <2>5. c < Len(a) /\ c < Len(b) => a[c + 1] # b[c + 1]
    <3>1. Diverge(a, b, c)
      BY <2>2, CommonPrefix
    <3> QED BY <3>1 DEF Diverge
  <2> QED BY <2>3, <2>4, <2>5
<1>2. Len(a) \in Nat /\ Len(b) \in Nat
  BY LenProperties
<1>3. PICK m : m = Min({Len(a), Len(b)})
  OBVIOUS
<1>4. m \in Nat /\ m <= Len(a) /\ m <= Len(b) /\ c <= m
  BY <1>1, <1>2, <1>3, MinOfTwo
<1> DEFINE Ends(n) == /\ SubSeq(a, 1, n) = SubSeq(b, 1, n)
                      /\ n < m => a[n + 1] # b[n + 1]
<1>5. c \in 0 .. m /\ Ends(c)
  <2>1. SubSeq(a, 1, c) = SubSeq(b, 1, c)
    BY <1>1, SameHead
  <2>2. c < m => a[c + 1] # b[c + 1]
    BY <1>1, <1>2, <1>4
  <2> QED BY <1>1, <1>4, <2>1, <2>2
<1>6. ASSUME NEW n \in 0 .. m, Ends(n) PROVE n = c
  <2>1. ASSUME NEW i \in 1 .. n PROVE a[i] = b[i]
    <3>1. PICK x, y : x = SubSeq(a, 1, n) /\ y = SubSeq(b, 1, n)
      OBVIOUS
    <3>2. \A k \in 1 .. n : a[k] \in Seq(S) /\ b[k] \in Seq(S)
      BY <1>2, <1>4, ElementOfSeq
    <3>3. i \in 1 .. n - 1 + 1 /\ n \in Int /\ 1 + i - 1 = i
      BY <1>4
    <3>4. x[i] = a[1 + i - 1] /\ y[i] = b[1 + i - 1]
      BY <3>1, <3>2, <3>3, SubSeqProperties
    <3> QED BY <1>6, <3>1, <3>3, <3>4
  <2>2. ~(c < n)
    <3> SUFFICES ASSUME c < n PROVE FALSE
      OBVIOUS
    <3>0. n \in Nat /\ n <= m /\ c \in Nat
      BY <1>1, <1>4
    <3>1. c + 1 \in 1 .. n /\ c < Len(a) /\ c < Len(b)
      BY <1>2, <1>4, <3>0
    <3> QED BY <1>1, <2>1, <3>1
  <2>3. ~(n < c)
    <3> SUFFICES ASSUME n < c PROVE FALSE
      OBVIOUS
    <3>1. n + 1 \in 1 .. c /\ n < m
      BY <1>1, <1>4
    <3> QED BY <1>1, <1>6, <3>1
  <2> QED BY <1>1, <1>4, <2>2, <2>3
<1>7. PICK p : p = CHOOSE n \in 0 .. m : Ends(n)
  OBVIOUS
<1>8. p = c
  <2>1. p \in 0 .. m /\ Ends(p)
    BY <1>5, <1>7
  <2> QED BY <1>6, <2>1
<1> QED BY <1>3, <1>7, <1>8 DEF Diff

(* In exact mode the plan recomputes a suffix, the one that diff reports *)
LEMMA PlanRecomputesSuffix ==
    ASSUME NEW S, NEW prev \in Seq(Seq(S)), NEW new \in Seq(Seq(S))
    PROVE  RecomputesSuffix(prev, new)
<1>1. PICK c, plan, o : /\ c = CommonPrefixLen(prev, new)
                        /\ plan = PlanIncremental(prev, new, "exact")
                        /\ o = Offset(new, c + 1)
  OBVIOUS
<1>2. /\ c \in Nat /\ c <= Len(prev) /\ c <= Len(new) /\ Len(new) \in Nat
      /\ \A i \in 1 .. c : prev[i] = new[i]
  BY <1>1, CommonPrefix, LenProperties
<1>3. TokensOf(plan, "reuse_exact") = o /\ TokensOf(plan, "recompute") = Len(Tokens(new)) - o
  BY <1>1, ExactTokens
<1>4. RecomputeRanges(plan) = IF Len(new) <= c THEN << >> ELSE <<<<o, Len(Tokens(new))>>>>
  BY <1>1, ExactRanges
<1>5. o \in Nat /\ Len(Tokens(new)) \in Nat /\ (c = Len(new) => o = Len(Tokens(new)))
  <2>1. c + 1 \in 1 .. Len(new) + 1
    BY <1>2
  <2> QED BY <1>1, <2>1, Offsets
<1>6. Covered(RecomputeRanges(plan)) = o .. (Len(Tokens(new)) - 1)
  <2>1. CASE Len(new) <= c
    <3>1. RecomputeRanges(plan) = << >> /\ o = Len(Tokens(new))
      BY <1>2, <1>4, <1>5, <2>1
    <3>2. o .. (Len(Tokens(new)) - 1) = {}
      BY <1>5, <3>1
    <3>3. DOMAIN << >> = {}
      OBVIOUS
    <3> QED BY <3>1, <3>2, <3>3 DEF Covered
  <2>2. CASE ~(Len(new) <= c)
    <3>1. PICK r : r = <<<<o, Len(Tokens(new))>>>>
      OBVIOUS
    <3>2. DOMAIN r = {1} /\ r[1][1] = o /\ r[1][2] = Len(Tokens(new))
      BY <3>1
    <3>3. Covered(r) = o .. (Len(Tokens(new)) - 1)
      BY <3>2 DEF Covered
    <3> QED BY <1>4, <2>2, <3>1, <3>3
  <2> QED BY <2>1, <2>2
<1>7. \A k \in 1 .. Len(RecomputeRanges(plan)) - 1 :
         RecomputeRanges(plan)[k][2] < RecomputeRanges(plan)[k + 1][1]
  <2>1. Len(RecomputeRanges(plan)) \in {0, 1}
    BY <1>4
  <2>2. PICK l : l = Len(RecomputeRanges(plan))
    OBVIOUS
  <2>3. \A k \in 1 .. l - 1 : FALSE
    BY <2>1, <2>2
  <2> QED BY <2>2, <2>3
<1>8. RecomputedExact(plan, new) = TokensOf(plan, "recompute")
  BY <1>3 DEF RecomputedExact
<1>9. SubSeq(Tokens(prev), 1, o) = SubSeq(Tokens(new), 1, o)
  <2>1. SameStart(prev, new, Offset(new, c + 1))
    BY <1>2, SameHead
  <2> QED BY <1>1, <2>1 DEF SameStart
<1>10. Diff(prev, new).common = c /\ Diff(prev, new).only_other = SubSeq(new, c + 1, Len(new))
  BY <1>1, DiffCommon
<1>11. /\ Len(Tokens(SubSeq(new, 1, c))) = o
       /\ Tokens(SubSeq(new, c + 1, Len(new))) = SubSeq(Tokens(new), o + 1, Len(Tokens(new)))
  <2>1. c \in 0 .. Len(new)
    BY <1>2
  <2> QED BY <1>1, <2>1, TailTokens
<1> QED BY <1>1, <1>3, <1>6, <1>7, <1>8, <1>9, <1>10, <1>11 DEF RecomputesSuffix

-----------------------------------------------------------------------------
(* Contexts. *)

TokenSeqs == Seq(TokenIds)
Ctxs      == Seq(TokenSeqs)

(* A mutation makes a context of the segments in use again *)
LEMMA MutatedContext ==
    ASSUME NEW ctx \in Ctxs, NEW seg \in TokenSeqs, NEW i \in 1 .. Len(ctx)
    PROVE  /\ [ctx EXCEPT ![i] = seg] \in Ctxs
           /\ RemoveAt(ctx, i) \in Ctxs
<1>1. [ctx EXCEPT ![i] = seg] \in Ctxs
  BY ExceptSeq DEF Ctxs
<1>2. RemoveAt(ctx, i) \in Ctxs
  <2>1. PICK a, b : a = SubSeq(ctx, 1, i - 1) /\ b = SubSeq(ctx, i + 1, Len(ctx))
    OBVIOUS
  <2>2. /\ Len(ctx) \in Nat /\ i - 1 \in 0 .. Len(ctx) /\ i + 1 \in Nat /\ i + 1 >= 1
        /\ Len(ctx) \in 0 .. Len(ctx)
    BY LenProperties DEF Ctxs
  <2>3. a \in Ctxs
    BY <2>1, <2>2, SubSeqIn DEF Ctxs
  <2>4. b \in Ctxs
    BY <2>1, <2>2, SubSeqIn DEF Ctxs
  <2>5. a \o b \in Ctxs
    BY <2>3, <2>4, ConcatProperties DEF Ctxs
  <2> QED BY <2>1, <2>5 DEF RemoveAt
<1> QED BY <1>1, <1>2

LEMMA BoundedContext ==
    ASSUME NEW S, NEW R \in SUBSET S, NEW n \in Nat, NEW ctx \in BoundedSeq(R, n)
    PROVE  ctx \in Seq(S)
<1>1. PICK m \in 0 .. n : ctx \in [1 .. m -> R]
  BY DEF BoundedSeq, SeqOf
<1>2. ctx \in [1 .. m -> S]
  BY <1>1
<1> QED BY <1>2, FunctionIsSeq

(* What _apply takes to be re-used is the leading tokens of both contexts *)
LEMMA ReusedPrefix ==
    ASSUME NEW S, NEW prev \in Seq(Seq(S)), NEW new \in Seq(Seq(S)),
           NEW r, r = ReusedTokens(prev, new)
    PROVE  /\ r \in Nat /\ r <= Len(Tokens(prev)) /\ r <= Len(Tokens(new))
           /\ SameStart(prev, new, r)
BY ExactPrefix DEF ReusedTokens

-----------------------------------------------------------------------------
(* KV. *)

Prefills == {Prefill(t) : t \in TokenSeqs}

LEMMA PrefillIs ==
    ASSUME NEW S, NEW t \in Seq(S)
    PROVE  /\ Prefill(t) \in Seq(Seq(S)) /\ Len(Prefill(t)) = Len(t) /\ Len(t) \in Nat
           /\ DOMAIN t = 1 .. Len(t) /\ DOMAIN Prefill(t) = 1 .. Len(t)
           /\ \A i \in 1 .. Len(t) : /\ Prefill(t)[i] = SubSeq(t, 1, i)
                                     /\ Last(Prefill(t)[i]) = t[i]
           /\ [i \in DOMAIN Prefill(t) |-> Last(Prefill(t)[i])] = t
<1>1. Len(t) \in Nat /\ DOMAIN t = 1 .. Len(t) /\ t \in [1 .. Len(t) -> S]
  BY LenProperties
<1>2. PICK p : p = Prefill(t)
  OBVIOUS
<1>3. p = [i \in 1 .. Len(t) |-> SubSeq(t, 1, i)]
  BY <1>1, <1>2 DEF Prefill
<1>4. ASSUME NEW i \in 1 .. Len(t)
      PROVE  p[i] = SubSeq(t, 1, i) /\ p[i] \in Seq(S) /\ Last(p[i]) = t[i]
  <2>1. i \in 0 .. Len(t) /\ i - 1 + 1 = i /\ i \in 1 .. i - 1 + 1 /\ 1 + i - 1 = i
    BY <1>1
  <2>2. PICK x : x = SubSeq(t, 1, i)
    OBVIOUS
  <2>3. x \in Seq(S) /\ Len(x) = i /\ x[i] = t[i]
    BY <2>1, <2>2, SubSeqIn
  <2> QED BY <1>3, <2>2, <2>3 DEF Last
<1>5. p \in Seq(Seq(S)) /\ Len(p) = Len(t)
  <2>1. p \in [1 .. Len(t) -> Seq(S)]
    BY <1>3, <1>4
  <2> QED BY <1>1, <2>1, FunctionIsSeq
<1>6. [i \in DOMAIN p |-> Last(p[i])] = t
  <2>1. DOMAIN p = 1 .. Len(t)
    BY <1>3
  <2>2. [i \in 1 .. Len(t) |-> Last(p[i])] = [i \in 1 .. Len(t) |-> t[i]]
    BY <1>4
  <2> QED BY <1>1, <2>1, <2>2
<1> QED BY <1>1, <1>2, <1>3, <1>4, <1>5, <1>6

(* The leading KV of a prefill is the prefill of the leading tokens *)
LEMMA PrefillPrefix ==
    ASSUME NEW S, NEW t \in Seq(S), NEW n \in 0 .. Len(t)
    PROVE  SubSeq(Prefill(t), 1, n) = Prefill(SubSeq(t, 1, n))
<1>1. PICK p, u : p = Prefill(t) /\ u = SubSeq(t, 1, n)
  OBVIOUS
<1>2. /\ p \in Seq(Seq(S)) /\ Len(p) = Len(t) /\ Len(t) \in Nat
      /\ \A i \in 1 .. Len(t) : p[i] = SubSeq(t, 1, i)
  BY <1>1, PrefillIs
<1>3. n - 1 + 1 = n /\ n \in Nat /\ n <= Len(t)
  BY <1>2
<1>4. u \in Seq(S) /\ Len(u) = n /\ \A i \in 1 .. n : u[i] = t[i]
  <2>1. u \in Seq(S) /\ Len(u) = n /\ \A i \in 1 .. n - 1 + 1 : u[i] = t[1 + i - 1]
    BY <1>1, <1>3, SubSeqIn
  <2> QED BY <1>3, <2>1
<1>5. PICK q, v : q = SubSeq(p, 1, n) /\ v = Prefill(u)
  OBVIOUS
<1>6. q \in Seq(Seq(S)) /\ Len(q) = n /\ \A i \in 1 .. n : q[i] = p[i]
  <2>1. n \in 0 .. Len(p)
    BY <1>2
  <2>2. q \in Seq(Seq(S)) /\ Len(q) = n /\ \A i \in 1 .. n - 1 + 1 : q[i] = p[1 + i - 1]
    BY <1>2, <1>3, <1>5, <2>1, SubSeqIn
  <2> QED BY <1>3, <2>2
<1>7. /\ v \in Seq(Seq(S)) /\ Len(v) = n /\ \A i \in 1 .. n : v[i] = SubSeq(u, 1, i)
  BY <1>4, <1>5, PrefillIs
<1>8. ASSUME NEW i \in 1 .. n PROVE q[i] = v[i]
  <2>1. i \in 1 .. Len(t) /\ i \in 0 .. Len(t) /\ i \in 0 .. Len(u)
    BY <1>3, <1>4
  <2>2. q[i] = SubSeq(t, 1, i) /\ v[i] = SubSeq(u, 1, i)
    BY <1>2, <1>6, <1>7, <2>1
  <2>3. PICK x, y : x = SubSeq(t, 1, i) /\ y = SubSeq(u, 1, i)
    OBVIOUS
  <2>4. i - 1 + 1 = i /\ \A k \in 1 .. i : 1 + k - 1 = k /\ k \in 1 .. n
    BY <1>3
  <2>5. x \in Seq(S) /\ Len(x) = i /\ \A k \in 1 .. i : x[k] = t[k]
    <3>1. x \in Seq(S) /\ Len(x) = i /\ \A k \in 1 .. i - 1 + 1 : x[k] = t[1 + k - 1]
      BY <2>1, <2>3, SubSeqIn
    <3> QED BY <2>4, <3>1
  <2>6. y \in Seq(S) /\ Len(y) = i /\ \A k \in 1 .. i : y[k] = u[k]
    <3>1. y \in Seq(S) /\ Len(y) = i /\ \A k \in 1 .. i - 1 + 1 : y[k] = u[1 + k - 1]
      BY <1>4, <2>1, <2>3, SubSeqIn
    <3> QED BY <2>4, <3>1
  <2>7. x = y
    BY <1>4, <2>4, <2>5, <2>6, SeqEqual
  <2> QED BY <2>2, <2>3, <2>7
<1>9. q = v
  BY <1>6, <1>7, <1>8, SeqEqual
<1> QED BY <1>1, <1>5, <1>9

(* A forward of further tokens makes a prefill of all of them *)
LEMMA ForwardIsPrefill ==
    ASSUME NEW S, NEW p \in Seq(S), NEW q \in Seq(S), NEW w, w = p \o q
    PROVE  Forward(Prefill(p), q) = Prefill(w)
<1>1. /\ w \in Seq(S) /\ Len(w) = Len(p) + Len(q) /\ Len(p) \in Nat /\ Len(q) \in Nat
      /\ \A i \in 1 .. Len(p) + Len(q) : w[i] = IF i <= Len(p) THEN p[i] ELSE q[i - Len(p)]
  BY ConcatProperties, LenProperties
<1>2. PICK kp, kw : kp = Prefill(p) /\ kw = Prefill(w)
  OBVIOUS
<1>3. /\ kp \in Seq(Seq(S)) /\ Len(kp) = Len(p)
      /\ \A i \in 1 .. Len(p) : kp[i] = SubSeq(p, 1, i)
      /\ [i \in DOMAIN kp |-> Last(kp[i])] = p
  BY <1>2, PrefillIs
<1>4. /\ kw \in Seq(Seq(S)) /\ Len(kw) = Len(w)
      /\ \A i \in 1 .. Len(w) : kw[i] = SubSeq(w, 1, i)
  BY <1>1, <1>2, PrefillIs
<1>5. PICK m : m = [j \in 1 .. Len(q) |-> p \o SubSeq(q, 1, j)]
  OBVIOUS
<1>6. ASSUME NEW j \in 1 .. Len(q)
      PROVE  /\ m[j] \in Seq(S) /\ m[j] = SubSeq(w, 1, Len(p) + j)
  <2>1. PICK x, y, z : x = SubSeq(q, 1, j) /\ y = p \o x /\ z = SubSeq(w, 1, Len(p) + j)
    OBVIOUS
  <2>2. /\ j \in 0 .. Len(q) /\ j - 1 + 1 = j /\ Len(p) + j \in 0 .. Len(w)
        /\ Len(p) + j - 1 + 1 = Len(p) + j /\ 1 <= Len(p) + j /\ Len(p) + j <= Len(p) + Len(q)
    BY <1>1
  <2>3. x \in Seq(S) /\ Len(x) = j /\ \A k \in 1 .. j : x[k] = q[k]
    <3>1. x \in Seq(S) /\ Len(x) = j /\ \A k \in 1 .. j - 1 + 1 : x[k] = q[1 + k - 1]
      BY <2>1, <2>2, SubSeqIn
    <3> QED BY <2>2, <3>1
  <2>4. /\ y \in Seq(S) /\ Len(y) = Len(p) + j
        /\ \A k \in 1 .. Len(p) + j : y[k] = IF k <= Len(p) THEN p[k] ELSE x[k - Len(p)]
    BY <2>1, <2>3, ConcatProperties
  <2>5. z \in Seq(S) /\ Len(z) = Len(p) + j /\ \A k \in 1 .. Len(p) + j : z[k] = w[k]
    <3>1. /\ z \in Seq(S) /\ Len(z) = Len(p) + j
          /\ \A k \in 1 .. Len(p) + j - 1 + 1 : z[k] = w[1 + k - 1]
      BY <1>1, <2>1, <2>2, SubSeqIn
    <3>2. \A k \in 1 .. Len(p) + j : 1 + k - 1 = k
      BY <2>2
    <3> QED BY <2>2, <3>1, <3>2
  <2>6. ASSUME NEW k \in 1 .. Len(p) + j PROVE y[k] = z[k]
    <3>1. k \in 1 .. Len(p) + Len(q)
      BY <1>1, <2>2
    <3>2. CASE k <= Len(p)
      BY <1>1, <2>4, <2>5, <3>1, <3>2
    <3>3. CASE ~(k <= Len(p))
      <4>1. k - Len(p) \in 1 .. j
        BY <1>1, <2>2, <3>3
      <4> QED BY <1>1, <2>3, <2>4, <2>5, <3>1, <3>3, <4>1
    <3> QED BY <3>2, <3>3
  <2>7. y = z
    BY <2>4, <2>5, <2>6, SeqEqual
  <2> QED BY <1>5, <2>1, <2>4, <2>7
<1>7. m \in Seq(Seq(S)) /\ Len(m) = Len(q)
  <2>1. m \in [1 .. Len(q) -> Seq(S)]
    BY <1>5, <1>6
  <2> QED BY <1>1, <2>1, FunctionIsSeq
<1>8. PICK f : f = kp \o m
  OBVIOUS
<1>9. /\ f \in Seq(Seq(S)) /\ Len(f) = Len(p) + Len(q)
      /\ \A i \in 1 .. Len(p) + Len(q) : f[i] = IF i <= Len(p) THEN kp[i] ELSE m[i - Len(p)]
  BY <1>3, <1>7, <1>8, ConcatProperties
<1>10. ASSUME NEW i \in 1 .. Len(p) + Len(q) PROVE f[i] = kw[i]
  <2>1. i \in 1 .. Len(w)
    BY <1>1
  <2>2. CASE i <= Len(p)
    <3>1. i \in 1 .. Len(p) /\ i \in 0 .. Len(p) /\ i \in 0 .. Len(w)
      BY <1>1, <2>1, <2>2
    <3>2. PICK x, y : x = SubSeq(p, 1, i) /\ y = SubSeq(w, 1, i)
      OBVIOUS
    <3>3. i - 1 + 1 = i /\ \A k \in 1 .. i : 1 + k - 1 = k /\ k <= Len(p) /\ k \in 1 .. Len(p) + Len(q)
      BY <1>1, <3>1
    <3>4. x \in Seq(S) /\ Len(x) = i /\ \A k \in 1 .. i : x[k] = p[k]
      <4>1. x \in Seq(S) /\ Len(x) = i /\ \A k \in 1 .. i - 1 + 1 : x[k] = p[1 + k - 1]
        BY <3>1, <3>2, SubSeqIn
      <4> QED BY <3>3, <4>1
    <3>5. y \in Seq(S) /\ Len(y) = i /\ \A k \in 1 .. i : y[k] = w[k]
      <4>1. y \in Seq(S) /\ Len(y) = i /\ \A k \in 1 .. i - 1 + 1 : y[k] = w[1 + k - 1]
        BY <1>1, <3>1, <3>2, SubSeqIn
      <4> QED BY <3>3, <4>1
    <3>6. x = y
      <4>1. ASSUME NEW k \in 1 .. i PROVE x[k] = y[k]
        BY <1>1, <3>3, <3>4, <3>5
      <4> QED BY <3>4, <3>5, <4>1, SeqEqual
    <3> QED BY <1>3, <1>4, <1>9, <2>1, <2>2, <3>1, <3>2, <3>6, ZenonT(40)
  <2>3. CASE ~(i <= Len(p))
    <3>1. i - Len(p) \in 1 .. Len(q) /\ Len(p) + (i - Len(p)) = i
      BY <1>1, <2>3
    <3>2. f[i] = m[i - Len(p)]
      BY <1>9, <2>3
    <3>3. m[i - Len(p)] = SubSeq(w, 1, Len(p) + (i - Len(p)))
      BY <1>6, <3>1
    <3> QED BY <1>4, <2>1, <3>1, <3>2, <3>3
  <2> QED BY <2>2, <2>3
<1>11. f = kw
  BY <1>1, <1>4, <1>9, <1>10, SeqEqual
<1>12. DOMAIN q = 1 .. Len(q)
  BY LenProperties
<1>13. Forward(kp, q) = f
  BY <1>3, <1>5, <1>8, <1>12 DEF Forward
<1> QED BY <1>2, <1>11, <1>13

(* A cache that is exact for the tokens a, cut at what a and b share and    *)
(* fed the rest of b, is exact for b                                       *)
LEMMA CutAndForward ==
    ASSUME NEW S, NEW b \in Seq(S), NEW r \in 0 .. Len(b)
    PROVE  /\ SubSeq(b, 1, r) \in Seq(S) /\ SubSeq(b, r + 1, Len(b)) \in Seq(S)
           /\ SubSeq(b, r + 1, Len(b)) = << >> => SubSeq(b, 1, r) = b
           /\ Forward(Prefill(SubSeq(b, 1, r)), SubSeq(b, r + 1, Len(b))) = Prefill(b)
<1>1. PICK x, y : x = SubSeq(b, 1, r) /\ y = SubSeq(b, r + 1, Len(b))
  OBVIOUS
<1>2. Len(b) \in Nat /\ r \in Nat /\ r <= Len(b) /\ Len(b) \in 0 .. Len(b) /\ r + 1 \in Nat
  BY LenProperties
<1>3. x \in Seq(S)
  BY <1>1, <1>2, SubSeqIn
<1>4. y \in Seq(S) /\ Len(y) = IF r + 1 <= Len(b) THEN Len(b) - (r + 1) + 1 ELSE 0
  <2>1. r + 1 >= 1
    BY <1>2
  <2> QED BY <1>1, <1>2, <2>1, SubSeqIn
<1>5. b = x \o y
  <2>1. CASE Len(b) = 0
    <3>1. b = << >> /\ r = 0
      BY <1>2, <2>1, EmptySeq
    <3>2. x = << >> /\ y = << >>
      BY <1>1, <1>2, <3>1, <2>1, SubSeqEmpty
    <3> QED BY <3>1, <3>2
  <2>2. CASE Len(b) # 0
    <3>1. 1 \in 1 .. Len(b) + 1 /\ r \in 1 - 1 .. Len(b) /\ Len(b) \in r .. Len(b)
      BY <1>2, <2>2
    <3>2. SubSeq(b, 1, r) \o SubSeq(b, r + 1, Len(b)) = SubSeq(b, 1, Len(b))
      BY <3>1, ConcatAdjacentSubSeq
    <3> QED BY <1>1, <3>2, SubSeqFull
  <2> QED BY <2>1, <2>2
<1>6. y = << >> => x = b
  <2>1. ASSUME y = << >> PROVE x = b
    <3>1. Len(y) = 0
      BY <2>1
    <3>2. r = Len(b)
      BY <1>2, <1>4, <3>1
    <3> QED BY <1>1, <3>2, SubSeqFull
  <2> QED BY <2>1
<1>7. Forward(Prefill(x), y) = Prefill(b)
  BY <1>3, <1>4, <1>5, ForwardIsPrefill
<1> QED BY <1>1, <1>3, <1>4, <1>6, <1>7

LEMMA PrefillIsKV ==
    /\ Prefills \subseteq Seq(Seq(TokenIds))
    /\ None \notin Prefills
    /\ << >> \in TokenSeqs /\ Prefill(<< >>) = << >>
    /\ \A t \in TokenSeqs : Prefill(t) \in Prefills /\ (Prefill(t) = << >> <=> t = << >>)
<1>1. \A t \in TokenSeqs : Prefill(t) \in Seq(Seq(TokenIds))
  BY PrefillIs DEF TokenSeqs
<1>2. << >> \in TokenSeqs
  BY EmptySeq DEF TokenSeqs
<1>3. ASSUME NEW t \in TokenSeqs PROVE Prefill(t) = << >> <=> t = << >>
  <2>1. PICK k : k = Prefill(t)
    OBVIOUS
  <2>2. k \in Seq(Seq(TokenIds)) /\ Len(k) = Len(t)
    BY <2>1, PrefillIs DEF TokenSeqs
  <2>3. t = << >> <=> Len(t) = 0
    BY EmptySeq DEF TokenSeqs
  <2>4. k = << >> <=> Len(k) = 0
    BY <2>2, EmptySeq
  <2> QED BY <2>1, <2>2, <2>3, <2>4
<1>4. Prefill(<< >>) = << >>
  BY <1>2, <1>3
<1>5. Prefills \subseteq Seq(Seq(TokenIds)) /\ \A t \in TokenSeqs : Prefill(t) \in Prefills
  BY <1>1 DEF Prefills
<1>6. None \notin Prefills
  BY <1>5, NoneAssumption
<1> QED BY <1>2, <1>3, <1>4, <1>5, <1>6

(* What the device does with the suffix of a context *)
LEMMA EditExact ==
    ASSUME NEW a \in TokenSeqs, NEW b \in TokenSeqs, NEW r \in Nat, r <= Len(a), r <= Len(b),
           SubSeq(a, 1, r) = SubSeq(b, 1, r),
           NEW cache, cache = Prefill(a) \/ (cache = None /\ a = << >>)
    PROVE  \/ EditSuffix(Device(cache), r, b) = Device(Prefill(b))
           \/ EditSuffix(Device(cache), r, b) = Device(None) /\ b = << >>
<1>1. PICK tail, cut : tail = SubSeq(b, r + 1, Len(b)) /\ cut = Truncate(cache, r)
  OBVIOUS
<1>2. EditSuffix(Device(cache), r, b) = Device(DeviceAppend(cut, tail))
  BY <1>1 DEF EditSuffix, Device
<1>3. Len(a) \in Nat /\ Len(b) \in Nat /\ r \in 0 .. Len(a) /\ r \in 0 .. Len(b)
  BY LenProperties DEF TokenSeqs
<1>4. /\ tail = << >> => SubSeq(b, 1, r) = b
      /\ Forward(Prefill(SubSeq(b, 1, r)), tail) = Prefill(b)
      /\ SubSeq(b, 1, r) \in TokenSeqs
  BY <1>1, <1>3, CutAndForward DEF TokenSeqs
<1>5. CASE cache = Prefill(a)
  <2>1. cut = Prefill(SubSeq(b, 1, r))
    <3>1. CASE r >= Len(cache)
      <4>1. Len(cache) = Len(a)
        BY <1>5, PrefillIs DEF TokenSeqs
      <4>2. r = Len(a)
        BY <1>3, <3>1, <4>1
      <4>3. SubSeq(a, 1, r) = a
        BY <4>2, SubSeqFull DEF TokenSeqs
      <4> QED BY <1>1, <1>5, <3>1, <4>3 DEF Truncate
    <3>2. CASE ~(r >= Len(cache))
      <4>1. cache # None
        BY <1>5, PrefillIsKV
      <4>2. cut = SubSeq(Prefill(a), 1, r)
        BY <1>1, <1>5, <3>2, <4>1 DEF Truncate
      <4>3. SubSeq(Prefill(a), 1, r) = Prefill(SubSeq(a, 1, r))
        BY <1>3, PrefillPrefix DEF TokenSeqs
      <4> QED BY <4>2, <4>3
    <3> QED BY <3>1, <3>2
  <2>2. cut # None
    BY <1>4, <2>1, PrefillIsKV
  <2>3. DeviceAppend(cut, tail) = Prefill(b)
    <3>1. CASE tail = << >>
      BY <1>4, <2>1, <3>1 DEF DeviceAppend
    <3>2. CASE tail # << >>
      BY <1>4, <2>1, <2>2, <3>2 DEF DeviceAppend
    <3> QED BY <3>1, <3>2
  <2> QED BY <1>2, <2>3
<1>6. CASE cache = None /\ a = << >>
  <2>1. cut = None
    BY <1>1, <1>6 DEF Truncate
  <2>2. r = 0
    <3>1. Len(a) = 0
      BY <1>6, EmptySeq
    <3> QED BY <3>1, <1>3
  <2>3. tail = b
    BY <1>1, <2>2, SubSeqFull DEF TokenSeqs
  <2>4. DeviceAppend(cut, tail) = IF b = << >> THEN None ELSE Prefill(b)
    BY <2>1, <2>3 DEF DeviceAppend
  <2> QED BY <1>2, <2>4
<1> QED BY <1>5, <1>6

(* What the numpy backend does with it *)
LEMMA RecomputeExact ==
    ASSUME NEW a \in TokenSeqs, NEW b \in TokenSeqs, NEW r \in Nat, r <= Len(a), r <= Len(b),
           SubSeq(a, 1, r) = SubSeq(b, 1, r),
           NEW c, c = KVCache(Prefill(a), None)
    PROVE  Recompute(c, r, b) = KVCache(Prefill(b), None)
<1>1. PICK tail, base : tail = SubSeq(b, r + 1, Len(b)) /\ base = SubSeq(c.kv, 1, r)
  OBVIOUS
<1>2. Len(a) \in Nat /\ Len(b) \in Nat /\ r \in 0 .. Len(a) /\ r \in 0 .. Len(b)
  BY LenProperties DEF TokenSeqs
<1>3. /\ tail = << >> => SubSeq(b, 1, r) = b
      /\ Forward(Prefill(SubSeq(b, 1, r)), tail) = Prefill(b)
  BY <1>1, <1>2, CutAndForward DEF TokenSeqs
<1>4. base = Prefill(SubSeq(b, 1, r))
  <2>1. c.kv = Prefill(a)
    BY DEF KVCache
  <2>2. SubSeq(Prefill(a), 1, r) = Prefill(SubSeq(a, 1, r))
    BY <1>2, PrefillPrefix DEF TokenSeqs
  <2> QED BY <1>1, <2>1, <2>2
<1>5. CASE tail # << >>
  BY <1>1, <1>3, <1>4, <1>5 DEF Recompute
<1>6. CASE tail = << >>
  <2>1. base = Prefill(b)
    BY <1>3, <1>4, <1>6
  <2>2. CASE base = c.kv
    <3>1. Recompute(c, r, b) = c
      BY <1>1, <1>6, <2>2 DEF Recompute
    <3> QED BY <2>1, <2>2, <3>1 DEF KVCache
  <2>3. CASE base # c.kv
    <3>1. Recompute(c, r, b) = KVCache(base, None)
      BY <1>1, <1>6, <2>3 DEF Recompute
    <3> QED BY <2>1, <3>1
  <2> QED BY <2>2, <2>3
<1> QED BY <1>5, <1>6

(* Each predicted token has attended to all of the context and to the      *)
(* tokens before it                                                        *)
LEMMA GreedyExact ==
    ASSUME NEW toks \in TokenSeqs, toks # << >>, NEW out \in TokenSeqs,
           NEW dev, dev = Device(Prefill(toks))
    PROVE  Greedy(dev, out) = [k \in DOMAIN out |-> toks \o SubSeq(out, 1, k - 1)]
<1>1. Len(toks) \in Nat /\ Len(toks) # 0 /\ Len(out) \in Nat /\ DOMAIN out = 1 .. Len(out)
  BY EmptySeq, LenProperties DEF TokenSeqs
<1>2. PICK n : n = Len(toks)
  OBVIOUS
<1>3. n \in 1 .. Len(toks) /\ n - 1 \in 0 .. Len(toks) /\ n - 1 \in Nat
  BY <1>1, <1>2
<1>4. PICK cache, front, last : /\ cache = Prefill(toks) /\ front = SubSeq(toks, 1, n - 1)
                                /\ last = toks[n]
  OBVIOUS
<1>5. /\ dev.cache = cache /\ Len(cache) = n /\ Last(cache[n]) = last
  BY <1>2, <1>3, <1>4, PrefillIs DEF Device, TokenSeqs
<1>6. Last(cache) = cache[n]
  BY <1>5 DEF Last
<1>7. Front(cache) = Prefill(front)
  <2>1. Front(cache) = SubSeq(cache, 1, n - 1)
    BY <1>5 DEF Front
  <2> QED BY <2>1, <1>3, <1>4, PrefillPrefix DEF TokenSeqs
<1>8. front \in TokenSeqs /\ last \in TokenIds
  <2>1. front \in TokenSeqs
    BY <1>3, <1>4, SubSeqIn DEF TokenSeqs
  <2>2. last \in TokenIds
    BY <1>3, <1>4, ElementOfSeq DEF TokenSeqs
  <2> QED BY <2>1, <2>2
<1>9. toks = front \o <<last>>
  <2>1. toks = SubSeq(toks, 1, n)
    BY <1>2, SubSeqFull DEF TokenSeqs
  <2>2. 1 \in 1 .. Len(toks) /\ n \in 1 .. Len(toks)
    BY <1>1, <1>2
  <2>3. SubSeq(toks, 1, n) = SubSeq(toks, 1, n - 1) \o <<toks[n]>>
    BY <2>2, SubSeqRecursiveSecond DEF TokenSeqs
  <2> QED BY <2>1, <2>3, <1>4
<1>10. ASSUME NEW k \in 1 .. Len(out)
       PROVE  Last(Forward(Front(cache), <<last>> \o SubSeq(out, 1, k - 1)))
                 = toks \o SubSeq(out, 1, k - 1)
  <2>1. PICK o, l, fed, w : /\ o = SubSeq(out, 1, k - 1) /\ l = <<last>>
                            /\ fed = l \o o /\ w = front \o fed
    OBVIOUS
  <2>2. o \in TokenSeqs
    <3>1. k - 1 \in 0 .. Len(out)
      BY <1>1
    <3> QED BY <2>1, <3>1, SubSeqIn DEF TokenSeqs
  <2>3. l \in TokenSeqs /\ Len(l) = 1
    BY <1>8, <2>1 DEF TokenSeqs
  <2>4. fed \in TokenSeqs /\ Len(fed) = Len(l) + Len(o)
    BY <2>1, <2>2, <2>3, ConcatProperties DEF TokenSeqs
  <2>5. w \in TokenSeqs /\ Len(w) = Len(front) + Len(fed)
    BY <1>8, <2>1, <2>4, ConcatProperties DEF TokenSeqs
  <2>6. w = toks \o o
    <3>1. Joined(front, l, toks) /\ Joined(l, o, fed)
      BY <1>9, <2>1 DEF Joined
    <3>2. Joined(front, fed, toks \o o)
      BY <1>8, <2>2, <2>3, <3>1, Associative DEF TokenSeqs
    <3> QED BY <2>1, <3>2 DEF Joined
  <2>7. Forward(Front(cache), fed) = Prefill(w)
    BY <1>7, <1>8, <2>1, <2>4, ForwardIsPrefill DEF TokenSeqs
  <2>8. Last(Prefill(w)) = w
    <3>1. Len(front) \in Nat /\ Len(o) \in Nat
      BY <1>8, <2>2, LenProperties DEF TokenSeqs
    <3>2. Len(w) \in 1 .. Len(w)
      BY <2>3, <2>4, <2>5, <3>1
    <3>3. Len(Prefill(w)) = Len(w) /\ Prefill(w)[Len(w)] = SubSeq(w, 1, Len(w))
      BY <2>5, <3>2, PrefillIs DEF TokenSeqs
    <3>4. SubSeq(w, 1, Len(w)) = w
      BY <2>5, SubSeqFull DEF TokenSeqs
    <3> QED BY <3>3, <3>4 DEF Last
  <2> QED BY <2>1, <2>6, <2>7, <2>8
<1> QED BY <1>1, <1>5, <1>6, <1>10 DEF Greedy

-----------------------------------------------------------------------------
(* The inductive invariant.  KV is always the prefill of some tokens, and  *)
(* of the tokens of its own context unless a rollback failed, which only   *)
(* happens for the empty context.  No array is a view of a file when       *)
(* sessions are on the device or loads copy.                               *)

Devices == {Device(k) : k \in Prefills \cup {None}}
KVs     == {KVCache(k, None) : k \in Prefills}
Stats   == [mutations : Nat, recomputed : Int, full : Nat]

Sessions == [ctx : Ctxs, dev : Devices \cup {None}, kv : KVs \cup {None},
             stats : Stats, failed : BOOLEAN]

VersionRecords == [segments : Ctxs, kv : KVs \cup {None}, failed : BOOLEAN]

(* what a session holds is the KV of its context *)
DevExact(s) ==
    \/ s.dev = Device(Prefill(Tokens(s.ctx)))
    \/ s.dev = Device(None) /\ Tokens(s.ctx) = << >>

Coherent(s) ==
    /\ s.dev # None => DevExact(s)
    /\ s.kv # None => s.kv = KVCache(Prefill(Tokens(s.ctx)), None)

GoodSession(s, d) ==
    /\ s \in Sessions
    /\ d \/ s.dev = None
    /\ d /\ s.kv # None => s.dev # None
    /\ s.dev = None /\ s.kv = None => s.ctx = << >>
    /\ IF s.failed THEN s.ctx = << >> ELSE Coherent(s)

GoodVersion(v) ==
    /\ v \in VersionRecords
    /\ v.kv = None => v.segments = << >>
    /\ IF v.failed THEN v.segments = << >>
       ELSE v.kv # None => v.kv = KVCache(Prefill(Tokens(v.segments)), None)

GoodSessions(d) == {s \in Sessions : GoodSession(s, d)}
GoodVersions    == {v \in VersionRecords : GoodVersion(v)}

Copies == MappedLoads => OnDevice

KVInv ==
    /\ conf \in Configs
    /\ Copies =>
          /\ sess \in [Handles -> GoodSessions(OnDevice) \cup {None}]
          /\ versions \in [Handles -> [Labels -> GoodVersions \cup {None}]]
          /\ file \in [Ids -> Prefills \cup {None}]

LEMMA NoneIsNoObject ==
    /\ None \notin Devices /\ None \notin KVs
    /\ \A k \in Prefills \cup {None} : Device(k) \in Devices /\ Device(k).cache = k /\ Device(k) # None
    /\ \A k \in Prefills : /\ KVCache(k, None) \in KVs /\ KVCache(k, None) # None
                           /\ KVCache(k, None).kv = k /\ KVCache(k, None).map = None
<1>1. Devices \subseteq [cache : Seq(Seq(TokenIds)) \cup {None}]
  BY PrefillIsKV DEF Devices, Device
<1>2. KVs \subseteq [kv : Seq(Seq(TokenIds)), map : {None}]
  BY PrefillIsKV DEF KVs, KVCache
<1>3. None \notin Devices /\ None \notin KVs
  BY <1>1, <1>2, NoneAssumption
<1>4. ASSUME NEW k \in Prefills \cup {None}
      PROVE  Device(k) \in Devices /\ Device(k).cache = k /\ Device(k) # None
  <2>1. Device(k) \in Devices
    BY DEF Devices
  <2>2. Device(k).cache = k
    BY DEF Device
  <2> QED BY <1>3, <2>1, <2>2
<1>5. ASSUME NEW k \in Prefills
      PROVE  /\ KVCache(k, None) \in KVs /\ KVCache(k, None) # None
             /\ KVCache(k, None).kv = k /\ KVCache(k, None).map = None
  <2>1. KVCache(k, None) \in KVs
    BY DEF KVs
  <2>2. KVCache(k, None).kv = k /\ KVCache(k, None).map = None
    BY DEF KVCache
  <2> QED BY <1>3, <2>1, <2>2
<1> QED BY <1>3, <1>4, <1>5

LEMMA KVIs ==
    ASSUME NEW c \in KVs
    PROVE  c.kv \in Prefills /\ c.map = None /\ c = KVCache(c.kv, None) /\ c # None
           /\ CopyKV(c) = c
<1>1. PICK k \in Prefills : c = KVCache(k, None)
  BY DEF KVs
<1>2. c.kv = k /\ c.map = None /\ c # None
  BY <1>1, NoneIsNoObject
<1> QED BY <1>1, <1>2 DEF CopyKV

LEMMA TokensIn ==
    ASSUME NEW ctx \in Ctxs
    PROVE  Tokens(ctx) \in TokenSeqs /\ Prefill(Tokens(ctx)) \in Prefills
BY Offsets, PrefillIsKV DEF Ctxs, TokenSeqs

LEMMA NoTokens == << >> \in Ctxs /\ Tokens(<< >>) = << >>
<1>1. << >> \in Ctxs
  BY EmptySeq DEF Ctxs
<1>2. Tokens(<< >>) = << >>
  BY EmptySeq DEF Tokens, FlattenSeq
<1> QED BY <1>1, <1>2

(* A new session *)
LEMMA NewSession ==
    ASSUME NEW ctx \in Ctxs, NEW dev \in Devices \cup {None}, NEW kv \in KVs \cup {None},
           NEW d \in BOOLEAN,
           d \/ dev = None, d /\ kv # None => dev # None,
           dev = None /\ kv = None => ctx = << >>,
           NEW f \in BOOLEAN, f => ctx = << >>,
           ~f /\ dev # None => \/ dev = Device(Prefill(Tokens(ctx)))
                               \/ dev = Device(None) /\ Tokens(ctx) = << >>,
           ~f /\ kv # None => kv = KVCache(Prefill(Tokens(ctx)), None),
           NEW st \in Stats
    PROVE  [ctx |-> ctx, dev |-> dev, kv |-> kv, stats |-> st, failed |-> f] \in GoodSessions(d)
<1>1. PICK s : s = [ctx |-> ctx, dev |-> dev, kv |-> kv, stats |-> st, failed |-> f]
  OBVIOUS
<1>2. s \in Sessions
  BY <1>1 DEF Sessions
<1>3. s.ctx = ctx /\ s.dev = dev /\ s.kv = kv /\ s.failed = f
  BY <1>1
<1>4. ~f => Coherent(s)
  BY <1>3 DEF Coherent, DevExact
<1>5. GoodSession(s, d)
  BY <1>2, <1>3, <1>4 DEF GoodSession
<1> QED BY <1>1, <1>2, <1>5 DEF GoodSessions

LEMMA NoStatsIn == NoStats \in Stats
BY DEF NoStats, Stats

(* NewDevice holds the KV of its tokens *)
LEMMA NewDeviceIs ==
    ASSUME NEW t \in TokenSeqs
    PROVE  /\ NewDevice(t) \in Devices
           /\ \/ NewDevice(t) = Device(Prefill(t))
              \/ NewDevice(t) = Device(None) /\ t = << >>
BY NoneIsNoObject, PrefillIsKV DEF NewDevice

(* What _apply re-uses: the leading tokens of a context that a session that *)
(* is not cold holds exactly                                               *)
LEMMA ReusedIs ==
    ASSUME NEW s \in GoodSessions(OnDevice), NEW newCtx \in Ctxs, OnDevice \in BOOLEAN,
           NEW r, r = Reused(s, newCtx),
           NEW a, a = Tokens(s.ctx), NEW b, b = Tokens(newCtx)
    PROVE  /\ a \in TokenSeqs /\ b \in TokenSeqs
           /\ r \in Nat /\ r <= Len(b) /\ Len(b) \in Nat
           /\ Cold(s) => r = 0
           /\ ~Cold(s) => /\ r <= Len(a) /\ SubSeq(a, 1, r) = SubSeq(b, 1, r)
                          /\ ~s.failed /\ Coherent(s)
                          /\ IF OnDevice THEN s.dev # None ELSE s.kv # None
<1>1. s \in Sessions /\ GoodSession(s, OnDevice) /\ s.ctx \in Ctxs
  BY DEF GoodSessions, Sessions
<1>2. a \in TokenSeqs /\ b \in TokenSeqs /\ Len(b) \in Nat
  BY <1>1, TokensIn, LenProperties DEF TokenSeqs
<1>3. CASE Cold(s)
  <2>1. r = 0
    BY <1>3 DEF Reused
  <2> QED BY <1>2, <1>3, <2>1
<1>4. CASE ~Cold(s)
  <2>1. r = ReusedTokens(s.ctx, newCtx)
    BY <1>4 DEF Reused
  <2>2. r \in Nat /\ r <= Len(a) /\ r <= Len(b) /\ SameStart(s.ctx, newCtx, r)
    BY <1>1, <2>1, ReusedPrefix DEF Ctxs, TokenSeqs
  <2>3. s.ctx # << >> /\ ~(s.dev = None /\ s.kv = None)
    BY <1>4 DEF Cold
  <2>4. ~s.failed /\ Coherent(s)
    BY <1>1, <2>3 DEF GoodSession
  <2>5. IF OnDevice THEN s.dev # None ELSE s.kv # None
    BY <1>1, <2>3 DEF GoodSession
  <2> QED BY <1>2, <1>4, <2>2, <2>4, <2>5 DEF SameStart
<1> QED BY <1>3, <1>4

(* A mutation leaves the session with the KV of its new context *)
LEMMA AppliedIsGood ==
    ASSUME NEW s \in GoodSessions(OnDevice), NEW newCtx \in Ctxs, OnDevice \in BOOLEAN
    PROVE  Applied(s, newCtx) \in GoodSessions(OnDevice)
<1>1. PICK a, b, r : a = Tokens(s.ctx) /\ b = Tokens(newCtx) /\ r = Reused(s, newCtx)
  OBVIOUS
<1>2. /\ a \in TokenSeqs /\ b \in TokenSeqs
      /\ r \in Nat /\ r <= Len(b) /\ Len(b) \in Nat
      /\ ~Cold(s) => /\ r <= Len(a) /\ SubSeq(a, 1, r) = SubSeq(b, 1, r)
                     /\ ~s.failed /\ Coherent(s)
                     /\ IF OnDevice THEN s.dev # None ELSE s.kv # None
  BY <1>1, ReusedIs
<1>3. s \in Sessions /\ s.stats \in Stats
  BY DEF GoodSessions, Sessions
<1>4. AppliedStats(s, newCtx) \in Stats
  BY <1>1, <1>2, <1>3 DEF AppliedStats, Stats
<1>5. PICK dev, kv : dev = AppliedDev(s, newCtx) /\ kv = AppliedKV(s, newCtx)
  OBVIOUS
<1>6. Prefill(b) \in Prefills
  BY <1>2, PrefillIsKV
<1>7. CASE OnDevice
  <2>1. kv = None
    BY <1>5, <1>7 DEF AppliedKV
  <2>2. /\ dev \in Devices
        /\ dev = Device(Prefill(b)) \/ (dev = Device(None) /\ b = << >>)
    <3>1. CASE Cold(s)
      <4>1. dev = NewDevice(b)
        BY <1>1, <1>5, <1>7, <3>1 DEF AppliedDev
      <4> QED BY <1>2, <4>1, NewDeviceIs
    <3>2. CASE ~Cold(s)
      <4>1. PICK cache : cache = s.dev.cache
        OBVIOUS
      <4>2. DevExact(s)
        BY <1>2, <1>7, <3>2 DEF Coherent
      <4>3. cache = Prefill(a) \/ (cache = None /\ a = << >>)
        BY <1>1, <4>1, <4>2 DEF DevExact, Device
      <4>4. s.dev = Device(cache)
        BY <4>1, <4>2 DEF DevExact, Device
      <4>5. dev = EditSuffix(Device(cache), r, b)
        BY <1>1, <1>5, <1>7, <3>2, <4>4 DEF AppliedDev
      <4>6. dev = Device(Prefill(b)) \/ (dev = Device(None) /\ b = << >>)
        BY <1>2, <3>2, <4>3, <4>5, EditExact
      <4> QED BY <1>6, <4>6, NoneIsNoObject
    <3> QED BY <3>1, <3>2
  <2>3. dev # None
    BY <2>2, NoneIsNoObject
  <2>4. [ctx |-> newCtx, dev |-> dev, kv |-> kv, stats |-> AppliedStats(s, newCtx),
         failed |-> FALSE] \in GoodSessions(OnDevice)
    BY <1>1, <1>4, <1>7, <2>1, <2>2, <2>3, NewSession
  <2> QED BY <1>5, <2>4 DEF Applied
<1>8. CASE ~OnDevice
  <2>1. dev = None
    BY <1>5, <1>8 DEF AppliedDev
  <2>2. kv = KVCache(Prefill(b), None)
    <3>1. CASE Cold(s)
      BY <1>1, <1>5, <1>8, <3>1 DEF AppliedKV
    <3>2. CASE ~Cold(s)
      <4>1. s.kv = KVCache(Prefill(a), None)
        BY <1>1, <1>2, <1>8, <3>2 DEF Coherent
      <4>2. kv = Recompute(s.kv, r, b)
        BY <1>1, <1>5, <1>8, <3>2 DEF AppliedKV
      <4> QED BY <1>2, <3>2, <4>1, <4>2, RecomputeExact
    <3> QED BY <3>1, <3>2
  <2>3. kv \in KVs /\ kv # None
    BY <1>6, <2>2, NoneIsNoObject
  <2>4. [ctx |-> newCtx, dev |-> dev, kv |-> kv, stats |-> AppliedStats(s, newCtx),
         failed |-> FALSE] \in GoodSessions(OnDevice)
    BY <1>1, <1>4, <1>8, <2>1, <2>2, <2>3, NewSession
  <2> QED BY <1>5, <2>4 DEF Applied
<1> QED BY <1>7, <1>8

(* Materializing changes nothing about a session *)
LEMMA MaterializedIsGood ==
    ASSUME NEW s \in GoodSessions(OnDevice), OnDevice \in BOOLEAN, ~Unmaterializable(s),
           NEW c, c = Materialized(s)
    PROVE  /\ c \in KVs \cup {None}
           /\ [s EXCEPT !.kv = c] \in GoodSessions(OnDevice)
           /\ [segments |-> s.ctx, kv |-> CopyKV(c), failed |-> s.failed] \in GoodVersions
<1>1. s \in Sessions /\ GoodSession(s, OnDevice)
  BY DEF GoodSessions
<1>2. /\ s.ctx \in Ctxs /\ s.dev \in Devices \cup {None} /\ s.kv \in KVs \cup {None}
      /\ s.stats \in Stats /\ s.failed \in BOOLEAN
  BY <1>1 DEF Sessions
<1>3. /\ c \in KVs \cup {None}
      /\ OnDevice /\ c # None => s.dev # None
      /\ c = None => s.kv = None /\ s.dev = None
      /\ ~s.failed /\ c # None => c = KVCache(Prefill(Tokens(s.ctx)), None)
  <2>1. CASE OnDevice /\ s.kv = None /\ s.dev # None
    <3>1. PICK k \in Prefills \cup {None} : s.dev = Device(k)
      BY <1>2, <2>1 DEF Devices
    <3>2. k = s.dev.cache
      BY <3>1 DEF Device
    <3>3. k \in Prefills
      BY <2>1, <3>1, <3>2 DEF Unmaterializable
    <3>4. c = KVCache(k, None)
      BY <2>1, <3>2 DEF Materialized, ToKVCache
    <3>5. c \in KVs /\ c # None
      BY <3>3, <3>4, NoneIsNoObject
    <3>6. ~s.failed => k = Prefill(Tokens(s.ctx))
      <4>1. ASSUME ~s.failed PROVE k = Prefill(Tokens(s.ctx))
        <5>1. DevExact(s)
          BY <1>1, <2>1, <4>1 DEF GoodSession, Coherent
        <5>2. k # None
          BY <3>3, PrefillIsKV
        <5> QED BY <3>2, <5>1, <5>2 DEF DevExact, Device
      <4> QED BY <4>1
    <3> QED BY <2>1, <3>4, <3>5, <3>6
  <2>2. CASE ~(OnDevice /\ s.kv = None /\ s.dev # None)
    <3>1. c = s.kv
      BY <2>2 DEF Materialized
    <3>2. c = None => s.dev = None
      BY <1>1, <2>2, <3>1 DEF GoodSession
    <3> QED BY <1>1, <1>2, <3>1, <3>2 DEF GoodSession, Coherent
  <2> QED BY <2>1, <2>2
<1>4. [s EXCEPT !.kv = c] \in GoodSessions(OnDevice)
  <2>1. PICK u : u = [s EXCEPT !.kv = c]
    OBVIOUS
  <2>2. u \in Sessions
    BY <1>1, <1>3, <2>1 DEF Sessions
  <2>3. u.ctx = s.ctx /\ u.dev = s.dev /\ u.kv = c /\ u.failed = s.failed
    BY <1>1, <2>1 DEF Sessions
  <2>4. OnDevice \/ u.dev = None
    BY <1>1, <2>3 DEF GoodSession
  <2>5. u.dev = None /\ u.kv = None => u.ctx = << >>
    BY <1>1, <1>3, <2>3 DEF GoodSession
  <2>6. ~u.failed => Coherent(u)
    BY <1>1, <1>3, <2>3 DEF GoodSession, Coherent, DevExact
  <2>7. u.failed => u.ctx = << >>
    BY <1>1, <2>3 DEF GoodSession
  <2>8. GoodSession(u, OnDevice)
    BY <1>3, <2>2, <2>3, <2>4, <2>5, <2>6, <2>7 DEF GoodSession
  <2> QED BY <2>1, <2>2, <2>8 DEF GoodSessions
<1>5. [segments |-> s.ctx, kv |-> CopyKV(c), failed |-> s.failed] \in GoodVersions
  <2>1. CopyKV(c) = c
    <3>1. CASE c = None
      BY <3>1 DEF CopyKV
    <3>2. CASE c # None
      BY <1>3, <3>2, KVIs
    <3> QED BY <3>1, <3>2
  <2>2. PICK v : v = [segments |-> s.ctx, kv |-> c, failed |-> s.failed]
    OBVIOUS
  <2>3. v \in VersionRecords
    BY <1>2, <1>3, <2>2 DEF VersionRecords
  <2>4. v.segments = s.ctx /\ v.kv = c /\ v.failed = s.failed
    BY <2>2
  <2>5. GoodVersion(v)
    BY <1>1, <1>3, <2>3, <2>4 DEF GoodVersion, GoodSession
  <2> QED BY <2>1, <2>2, <2>3, <2>5 DEF GoodVersions
<1> QED BY <1>3, <1>4, <1>5

-----------------------------------------------------------------------------
(* Every step keeps the invariant. *)

(* What an action that touches one session and its versions leaves *)
LEMMA OneSession ==
    ASSUME NEW d, NEW h \in Handles, NEW s \in GoodSessions(d) \cup {None},
           NEW all \in [Handles -> GoodSessions(d) \cup {None}]
    PROVE  [all EXCEPT ![h] = s] \in [Handles -> GoodSessions(d) \cup {None}]
OBVIOUS

LEMMA BindKeeps ==
    ASSUME KVInv, Copies, NEW h \in Handles, NEW s \in GoodSessions(OnDevice), Bind(h, s)
    PROVE  /\ sess' \in [Handles -> GoodSessions(OnDevice) \cup {None}]
           /\ versions' \in [Handles -> [Labels -> GoodVersions \cup {None}]]
<1>1. sess' \in [Handles -> GoodSessions(OnDevice) \cup {None}]
  BY OneSession DEF Bind, KVInv
<1>2. NoVersions \in [Labels -> GoodVersions \cup {None}]
  BY DEF NoVersions
<1> QED BY <1>1, <1>2 DEF Bind, KVInv

(* Where no load maps the file, a save reaches no other KV *)
LEMMA NotMapped ==
    ASSUME NEW c \in KVs \cup {None}, NEW id \in Ids, NEW kv
    PROVE  AfterWrite(c, id, kv) = c
BY KVIs, NoneAssumption DEF AfterWrite

LEMMA InitKVInv == Init => KVInv
<1> SUFFICES ASSUME Init PROVE KVInv
  OBVIOUS
<1>1. sess \in [Handles -> GoodSessions(OnDevice) \cup {None}]
  BY DEF Init
<1>2. versions \in [Handles -> [Labels -> GoodVersions \cup {None}]]
  BY DEF Init, NoVersions
<1>3. file \in [Ids -> Prefills \cup {None}]
  BY DEF Init
<1> QED BY <1>1, <1>2, <1>3 DEF Init, KVInv

LEMMA ApplyKeeps ==
    ASSUME KVInv, Copies, OnDevice \in BOOLEAN,
           NEW h \in Handles, NEW newCtx \in Ctxs, Apply(h, newCtx)
    PROVE  /\ sess' \in [Handles -> GoodSessions(OnDevice) \cup {None}]
           /\ UNCHANGED <<conf, versions, file>>
<1>1. sess[h] \in GoodSessions(OnDevice)
  BY DEF Apply, Live, KVInv
<1>2. Applied(sess[h], newCtx) \in GoodSessions(OnDevice)
  BY <1>1, AppliedIsGood
<1>3. sess' = [sess EXCEPT ![h] = Applied(sess[h], newCtx)] /\ UNCHANGED <<conf, versions, file>>
  BY DEF Apply
<1> QED BY <1>2, <1>3, OneSession DEF KVInv

LEMMA NextKVInv == KVInv /\ [Next]_vars => KVInv'
<1> SUFFICES ASSUME KVInv, [Next]_vars PROVE KVInv'
  OBVIOUS
<1>1. CASE UNCHANGED vars
  BY <1>1 DEF vars, KVInv, Copies, MappedLoads, OnDevice
<1>2. conf' = conf /\ conf \in Configs
  BY <1>1 DEF KVInv, Next, vars, Create, AppendSegment, EditSegment, DeleteSegment, Apply,
      Commit, Rollback, RollbackRaises, Branch, Save, Load
<1>3. OnDevice' = OnDevice /\ MappedLoads' = MappedLoads /\ OnDevice \in BOOLEAN
  BY <1>2, SegmentedAssumption DEF OnDevice, MappedLoads
<1> SUFFICES ASSUME Copies, Next
             PROVE  /\ sess' \in [Handles -> GoodSessions(OnDevice) \cup {None}]
                    /\ versions' \in [Handles -> [Labels -> GoodVersions \cup {None}]]
                    /\ file' \in [Ids -> Prefills \cup {None}]
  BY <1>1, <1>2, <1>3 DEF KVInv, Copies
<1> USE <1>3
<1>4. /\ sess \in [Handles -> GoodSessions(OnDevice) \cup {None}]
      /\ versions \in [Handles -> [Labels -> GoodVersions \cup {None}]]
      /\ file \in [Ids -> Prefills \cup {None}]
  BY DEF KVInv
<1>5. ASSUME NEW h \in Handles, NEW ctx \in Starts, Create(h, ctx)
      PROVE  /\ sess' \in [Handles -> GoodSessions(OnDevice) \cup {None}]
             /\ versions' \in [Handles -> [Labels -> GoodVersions \cup {None}]]
             /\ file' \in [Ids -> Prefills \cup {None}]
  <2>1. ctx \in Ctxs
    BY SegmentedAssumption DEF Ctxs, TokenSeqs
  <2>2. PICK s : s = CASE ctx = << >> -> Session(ctx, None, None)
                 [] ctx # << >> /\ OnDevice -> Session(ctx, NewDevice(Tokens(ctx)), None)
                 [] ctx # << >> /\ ~OnDevice ->
                       Session(ctx, None, KVCache(Prefill(Tokens(ctx)), None))
    OBVIOUS
  <2>3. Bind(h, s) /\ file' = file
    BY <1>5, <2>2 DEF Create
  <2>4. s \in GoodSessions(OnDevice)
    <3>1. CASE ctx = << >>
      <4>1. s = Session(ctx, None, None)
        BY <2>2, <3>1
      <4> QED BY <2>1, <3>1, <4>1, NewSession, NoStatsIn DEF Session
    <3>2. CASE ctx # << >> /\ OnDevice
      <4>1. PICK dev : dev = NewDevice(Tokens(ctx))
        OBVIOUS
      <4>2. s = Session(ctx, dev, None)
        BY <2>2, <3>2, <4>1
      <4>3. /\ dev \in Devices
            /\ dev = Device(Prefill(Tokens(ctx))) \/ (dev = Device(None) /\ Tokens(ctx) = << >>)
        BY <2>1, <4>1, TokensIn, NewDeviceIs
      <4>4. dev # None
        BY <4>3, NoneIsNoObject
      <4> QED BY <2>1, <3>2, <4>2, <4>3, <4>4, NewSession, NoStatsIn DEF Session
    <3>3. CASE ctx # << >> /\ ~OnDevice
      <4>1. PICK kv : kv = KVCache(Prefill(Tokens(ctx)), None)
        OBVIOUS
      <4>2. s = Session(ctx, None, kv)
        BY <2>2, <3>3, <4>1
      <4>3. kv \in KVs /\ kv # None
        BY <2>1, <4>1, TokensIn, NoneIsNoObject
      <4> QED BY <2>1, <3>3, <4>1, <4>2, <4>3, NewSession, NoStatsIn DEF Session
    <3> QED BY <3>1, <3>2, <3>3
  <2> QED BY <1>4, <2>3, <2>4, BindKeeps
<1>6. ASSUME NEW h \in Handles, NEW seg \in Segs, AppendSegment(h, seg)
      PROVE  /\ sess' \in [Handles -> GoodSessions(OnDevice) \cup {None}]
             /\ versions' = versions /\ file' = file
  <2>1. sess[h] \in GoodSessions(OnDevice) /\ sess[h].ctx \in Ctxs /\ seg \in TokenSeqs
    BY <1>2, <1>4, <1>6, SegmentedAssumption
       DEF AppendSegment, Live, GoodSessions, Sessions, Segs, TokenSeqs
  <2>2. Append(sess[h].ctx, seg) \in Ctxs
    BY <2>1, AppendProperties DEF Ctxs
  <2> QED BY <1>6, <2>2, ApplyKeeps DEF AppendSegment
<1>7. ASSUME NEW h \in Handles, NEW i \in 1 .. MaxSegs, NEW seg \in Segs, EditSegment(h, i, seg)
      PROVE  /\ sess' \in [Handles -> GoodSessions(OnDevice) \cup {None}]
             /\ versions' = versions /\ file' = file
  <2>1. sess[h] \in GoodSessions(OnDevice) /\ sess[h].ctx \in Ctxs /\ seg \in TokenSeqs
    BY <1>2, <1>4, <1>7, SegmentedAssumption
       DEF EditSegment, Live, GoodSessions, Sessions, Segs, TokenSeqs
  <2>2. i \in 1 .. Len(sess[h].ctx)
    BY <1>7, <2>1, LenProperties DEF EditSegment, Ctxs
  <2>3. [sess[h].ctx EXCEPT ![i] = seg] \in Ctxs
    BY <2>1, <2>2, MutatedContext
  <2> QED BY <1>7, <2>3, ApplyKeeps DEF EditSegment
<1>8. ASSUME NEW h \in Handles, NEW i \in 1 .. MaxSegs, DeleteSegment(h, i)
      PROVE  /\ sess' \in [Handles -> GoodSessions(OnDevice) \cup {None}]
             /\ versions' = versions /\ file' = file
  <2>1. sess[h] \in GoodSessions(OnDevice) /\ sess[h].ctx \in Ctxs
    BY <1>4, <1>8 DEF DeleteSegment, Live, GoodSessions, Sessions
  <2>2. i \in 1 .. Len(sess[h].ctx)
    BY <1>8, <2>1, LenProperties DEF DeleteSegment, Ctxs
  <2>3. RemoveAt(sess[h].ctx, i) \in Ctxs
    <3>1. << >> \in TokenSeqs
      BY PrefillIsKV
    <3> QED BY <2>1, <2>2, <3>1, MutatedContext
  <2> QED BY <1>8, <2>3, ApplyKeeps DEF DeleteSegment
<1>9. ASSUME NEW h \in Handles, NEW l \in Labels, Commit(h, l)
      PROVE  /\ sess' \in [Handles -> GoodSessions(OnDevice) \cup {None}]
             /\ versions' \in [Handles -> [Labels -> GoodVersions \cup {None}]]
             /\ file' = file
  <2>1. PICK s, c : s = sess[h] /\ c = Materialized(s)
    OBVIOUS
  <2>2. s \in GoodSessions(OnDevice) /\ ~Unmaterializable(s) /\ s \in Sessions
    BY <1>4, <1>9, <2>1 DEF Commit, Live, GoodSessions
  <2>3. /\ [s EXCEPT !.kv = c] \in GoodSessions(OnDevice)
        /\ [segments |-> s.ctx, kv |-> CopyKV(c), failed |-> s.failed] \in GoodVersions
    BY <2>1, <2>2, MaterializedIsGood
  <2>4. sess' = [sess EXCEPT ![h] = [s EXCEPT !.kv = c]]
    BY <1>9, <2>1 DEF Commit
  <2>5. versions' = [versions EXCEPT ![h][l] =
                        [segments |-> s.ctx, kv |-> CopyKV(c), failed |-> s.failed]]
    BY <1>9, <2>1 DEF Commit
  <2>6. sess' \in [Handles -> GoodSessions(OnDevice) \cup {None}]
    BY <1>4, <2>3, <2>4, OneSession
  <2>7. versions' \in [Handles -> [Labels -> GoodVersions \cup {None}]]
    BY <1>4, <2>3, <2>5
  <2> QED BY <1>9, <2>6, <2>7 DEF Commit
<1>10. ASSUME NEW h \in Handles, NEW l \in Labels, Rollback(h, l)
       PROVE  /\ sess' \in [Handles -> GoodSessions(OnDevice) \cup {None}]
              /\ versions' = versions /\ file' = file
  <2>1. PICK s, v : s = sess[h] /\ v = versions[h][l]
    OBVIOUS
  <2>2. /\ s \in GoodSessions(OnDevice) /\ s \in Sessions /\ s.stats \in Stats
        /\ v \in VersionRecords /\ GoodVersion(v)
    BY <1>4, <1>10, <2>1 DEF Rollback, Live, GoodSessions, Sessions, GoodVersions
  <2>3. PICK dev, kv : /\ dev = IF OnDevice THEN FromKVCache(v.kv) ELSE None
                       /\ kv = IF OnDevice THEN None ELSE CopyKV(v.kv)
    OBVIOUS
  <2>4. sess' = [sess EXCEPT ![h] = [s EXCEPT !.ctx = v.segments, !.dev = dev, !.kv = kv,
                                              !.failed = v.failed]]
    BY <1>10, <2>1, <2>3 DEF Rollback
  <2>5. /\ v.segments \in Ctxs /\ v.failed \in BOOLEAN /\ v.kv \in KVs \cup {None}
        /\ v.failed => v.segments = << >>
        /\ v.kv = None => v.segments = << >>
        /\ ~v.failed /\ v.kv # None => v.kv = KVCache(Prefill(Tokens(v.segments)), None)
    BY <2>2 DEF GoodVersion, VersionRecords
  <2>6. CopyKV(v.kv) = v.kv
    <3>1. CASE v.kv = None
      BY <3>1 DEF CopyKV
    <3>2. CASE v.kv # None
      BY <2>5, <3>2, KVIs
    <3> QED BY <3>1, <3>2
  <2>8. [ctx |-> v.segments, dev |-> dev, kv |-> kv, stats |-> s.stats, failed |-> v.failed]
          \in GoodSessions(OnDevice)
    <3>1. PICK ctx, f, st : ctx = v.segments /\ f = v.failed /\ st = s.stats
      OBVIOUS
    <3>2. CASE OnDevice
      <4>1. v.kv \in KVs /\ kv = None
        BY <1>10, <2>1, <2>3, <2>5, <3>2 DEF Rollback
      <4>2. dev = Device(v.kv.kv) /\ v.kv.kv \in Prefills
        BY <2>3, <3>2, <4>1, KVIs DEF FromKVCache
      <4>3. dev \in Devices /\ dev # None
        BY <4>2, NoneIsNoObject
      <4>4. ~f => dev = Device(Prefill(Tokens(ctx)))
        <5>1. ASSUME ~f PROVE v.kv.kv = Prefill(Tokens(ctx))
          BY <2>5, <3>1, <4>1, <5>1, NoneIsNoObject DEF KVCache
        <5> QED BY <4>2, <5>1
      <4> QED BY <2>2, <2>5, <3>1, <3>2, <4>1, <4>3, <4>4, NewSession
    <3>3. CASE ~OnDevice
      <4>1. dev = None /\ kv = v.kv
        BY <2>3, <2>6, <3>3
      <4> QED BY <2>2, <2>5, <3>1, <3>3, <4>1, NewSession, SMTT(30)
    <3> QED BY <3>2, <3>3
  <2>9. versions' = versions /\ file' = file
    BY <1>10 DEF Rollback
  <2>10. PICK u : u = [s EXCEPT !.ctx = v.segments, !.dev = dev, !.kv = kv, !.failed = v.failed]
    OBVIOUS
  <2>11. u \in GoodSessions(OnDevice)
    <3>1. dev \in Devices \cup {None} /\ kv \in KVs \cup {None}
      <4>1. CASE OnDevice
        <5>1. v.kv \in KVs
          BY <1>10, <2>1, <2>5, <4>1 DEF Rollback
        <5>2. v.kv.kv \in Prefills
          BY <5>1, KVIs
        <5>3. Device(v.kv.kv) \in Devices
          BY <5>2, NoneIsNoObject
        <5> QED BY <2>3, <4>1, <5>3 DEF FromKVCache
      <4>2. CASE ~OnDevice
        BY <2>3, <2>5, <2>6, <4>2
      <4> QED BY <4>1, <4>2
    <3>2. PICK ctx, f : ctx = v.segments /\ f = v.failed
      OBVIOUS
    <3>3. ctx \in Ctxs /\ f \in BOOLEAN
      BY <2>5, <3>2
    <3>4. u = [s EXCEPT !.ctx = ctx, !.dev = dev, !.kv = kv, !.failed = f]
      BY <2>10, <3>2
    <3>5. s \in Sessions
      BY <2>2
    <3>6. u = [ctx |-> ctx, dev |-> dev, kv |-> kv, stats |-> s.stats, failed |-> f]
      BY <3>4, <3>5 DEF Sessions
    <3> QED BY <2>8, <3>2, <3>6
  <2>12. sess' = [sess EXCEPT ![h] = u]
    BY <2>4, <2>10
  <2> QED BY <1>4, <2>9, <2>11, <2>12, OneSession
<1>11. ASSUME NEW h \in Handles, NEW l \in Labels, RollbackRaises(h, l)
       PROVE  /\ sess' \in [Handles -> GoodSessions(OnDevice) \cup {None}]
              /\ versions' = versions /\ file' = file
  <2>1. PICK s, v : s = sess[h] /\ v = versions[h][l]
    OBVIOUS
  <2>2. /\ s \in GoodSessions(OnDevice) /\ s \in Sessions /\ GoodSession(s, OnDevice)
        /\ v \in VersionRecords /\ GoodVersion(v)
    <3>1. s # None /\ v # None
      BY <1>11, <2>1 DEF RollbackRaises, Live
    <3>2. s \in GoodSessions(OnDevice) /\ v \in GoodVersions
      BY <1>4, <2>1, <3>1
    <3> QED BY <3>2 DEF GoodSessions, GoodVersions
  <2>3. v.segments = << >> /\ << >> \in Ctxs
    BY <1>11, <2>1, <2>2, NoTokens DEF RollbackRaises, GoodVersion
  <2>4. PICK u : u = [s EXCEPT !.ctx = << >>, !.failed = TRUE]
    OBVIOUS
  <2>5. sess' = [sess EXCEPT ![h] = u]
    BY <1>11, <2>1, <2>3, <2>4 DEF RollbackRaises
  <2>6. u \in Sessions /\ u.ctx = << >> /\ u.failed = TRUE /\ u.dev = s.dev /\ u.kv = s.kv
    BY <2>2, <2>3, <2>4 DEF Sessions
  <2>7. GoodSession(u, OnDevice)
    BY <2>2, <2>6 DEF GoodSession
  <2>8. versions' = versions /\ file' = file
    BY <1>11 DEF RollbackRaises
  <2>9. u \in GoodSessions(OnDevice)
    BY <2>6, <2>7 DEF GoodSessions
  <2> QED BY <1>4, <2>5, <2>8, <2>9, OneSession
<1>12. ASSUME NEW h \in Handles, NEW child \in Handles, Branch(h, child)
       PROVE  /\ sess' \in [Handles -> GoodSessions(OnDevice) \cup {None}]
              /\ versions' \in [Handles -> [Labels -> GoodVersions \cup {None}]]
              /\ file' = file
  <2>1. PICK s, dev, kv : s = sess[h] /\ dev = Clone(s.dev)
                          /\ kv = IF OnDevice THEN None ELSE CopyKV(s.kv)
    OBVIOUS
  <2>2. /\ s \in GoodSessions(OnDevice) /\ s \in Sessions /\ GoodSession(s, OnDevice)
        /\ s.ctx \in Ctxs /\ s.dev \in Devices \cup {None} /\ s.kv \in KVs \cup {None}
        /\ s.failed \in BOOLEAN
    BY <1>4, <1>12, <2>1 DEF Branch, Live, GoodSessions, Sessions
  <2>3. dev = s.dev
    <3>1. CASE s.dev = None
      BY <2>1, <3>1 DEF Clone
    <3>2. CASE s.dev # None
      BY <2>1, <2>2, <3>2 DEF Clone, Devices, Device
    <3> QED BY <3>1, <3>2
  <2>4. CopyKV(s.kv) = s.kv
    <3>1. CASE s.kv = None
      BY <3>1 DEF CopyKV
    <3>2. CASE s.kv # None
      BY <2>2, <3>2, KVIs
    <3> QED BY <3>1, <3>2
  <2>5. PICK u : u = [ctx |-> s.ctx, dev |-> dev, kv |-> kv, stats |-> NoStats, failed |-> s.failed]
    OBVIOUS
  <2>6. Bind(child, u) /\ file' = file
    BY <1>12, <2>1, <2>5 DEF Branch, Session
  <2>7. u \in GoodSessions(OnDevice)
    <3>1. u \in Sessions
      BY <2>1, <2>2, <2>3, <2>4, <2>5, NoStatsIn DEF Sessions
    <3>2. /\ u.ctx = s.ctx /\ u.failed = s.failed /\ u.dev = s.dev
          /\ u.kv = IF OnDevice THEN None ELSE s.kv
      BY <2>1, <2>3, <2>4, <2>5
    <3>3. ~u.failed => Coherent(u)
      BY <2>2, <3>2 DEF GoodSession, Coherent, DevExact
    <3>4. u.dev = None /\ u.kv = None => u.ctx = << >>
      BY <2>2, <3>2 DEF GoodSession
    <3>5. GoodSession(u, OnDevice)
      BY <2>2, <3>1, <3>2, <3>3, <3>4 DEF GoodSession
    <3> QED BY <3>1, <3>5 DEF GoodSessions
  <2> QED BY <2>6, <2>7, BindKeeps
<1>13. ASSUME NEW h \in Handles, NEW id \in Ids, Save(h, id)
       PROVE  /\ sess' \in [Handles -> GoodSessions(OnDevice) \cup {None}]
              /\ versions' \in [Handles -> [Labels -> GoodVersions \cup {None}]]
              /\ file' \in [Ids -> Prefills \cup {None}]
  <2>1. PICK s, c : s = sess[h] /\ c = Materialized(s)
    OBVIOUS
  <2>2. s \in GoodSessions(OnDevice) /\ ~Unmaterializable(s) /\ c # None
    BY <1>4, <1>13, <2>1 DEF Save, Live
  <2>3. c \in KVs /\ [s EXCEPT !.kv = c] \in GoodSessions(OnDevice)
    BY <2>1, <2>2, MaterializedIsGood
  <2>4. PICK written : written = IF c.map = id THEN [i \in DOMAIN c.kv |-> Junk] ELSE c.kv
    OBVIOUS
  <2>5. written \in Prefills
    <3>1. c.map # id
      BY <2>3, KVIs, NoneAssumption
    <3> QED BY <2>3, <2>4, <3>1, KVIs
  <2>6. file' \in [Ids -> Prefills \cup {None}]
    BY <1>4, <1>13, <2>1, <2>4, <2>5 DEF Save
  <2>7. ASSUME NEW g \in Handles PROVE sess'[g] \in GoodSessions(OnDevice) \cup {None}
    <3>1. PICK t : t = IF g = h THEN [s EXCEPT !.kv = c] ELSE sess[g]
      OBVIOUS
    <3>2. sess'[g] = IF t = None THEN None ELSE [t EXCEPT !.kv = AfterWrite(t.kv, id, written)]
      BY <1>13, <2>1, <2>4, <3>1 DEF Save
    <3>3. t \in GoodSessions(OnDevice) \cup {None}
      BY <1>4, <2>3, <3>1
    <3>4. CASE t = None
      BY <3>2, <3>4
    <3>5. CASE t # None
      <4>1. t \in Sessions /\ t.kv \in KVs \cup {None}
        BY <3>3, <3>5 DEF GoodSessions, Sessions
      <4>2. AfterWrite(t.kv, id, written) = t.kv
        BY <4>1, NotMapped
      <4>3. [t EXCEPT !.kv = t.kv] = t
        BY <4>1 DEF Sessions
      <4> QED BY <3>2, <3>3, <3>5, <4>2, <4>3
    <3> QED BY <3>4, <3>5
  <2>8. ASSUME NEW g \in Handles, NEW l \in Labels
        PROVE  versions'[g][l] \in GoodVersions \cup {None}
    <3>1. PICK v : v = versions[g][l]
      OBVIOUS
    <3>2. versions'[g][l] = IF v = None THEN None ELSE [v EXCEPT !.kv = AfterWrite(v.kv, id, written)]
      BY <1>13, <2>1, <2>4, <3>1 DEF Save
    <3>3. v \in GoodVersions \cup {None}
      BY <1>4, <3>1
    <3>4. CASE v = None
      BY <3>2, <3>4
    <3>5. CASE v # None
      <4>1. v \in VersionRecords /\ v.kv \in KVs \cup {None}
        BY <3>3, <3>5 DEF GoodVersions, VersionRecords
      <4>2. AfterWrite(v.kv, id, written) = v.kv
        BY <4>1, NotMapped
      <4>3. [v EXCEPT !.kv = v.kv] = v
        BY <4>1 DEF VersionRecords
      <4> QED BY <3>2, <3>3, <3>5, <4>2, <4>3
    <3> QED BY <3>4, <3>5
  <2>9. sess' = [g \in Handles |-> sess'[g]]
    BY <1>13 DEF Save
  <2>10. versions' = [g \in Handles |-> [l \in Labels |-> versions'[g][l]]]
    BY <1>13 DEF Save
  <2>11. sess' \in [Handles -> GoodSessions(OnDevice) \cup {None}]
    BY <2>7, <2>9
  <2>12. versions' \in [Handles -> [Labels -> GoodVersions \cup {None}]]
    BY <2>8, <2>10
  <2> QED BY <2>6, <2>11, <2>12
<1>14. ASSUME NEW h \in Handles, NEW id \in Ids, file[id] # None,
              NEW ctx \in Segmentations(file[id]), Load(h, id, ctx)
       PROVE  /\ sess' \in [Handles -> GoodSessions(OnDevice) \cup {None}]
              /\ versions' \in [Handles -> [Labels -> GoodVersions \cup {None}]]
              /\ file' = file
  <2>1. PICK t \in TokenSeqs : file[id] = Prefill(t)
    BY <1>4, <1>14 DEF Prefills
  <2>2. ctx \in Ctxs
    <3>1. Segs \in SUBSET TokenSeqs /\ MaxSegs \in Nat
      BY <1>2, SegmentedAssumption DEF Segs, TokenSeqs
    <3>2. ctx \in BoundedSeq(Segs, MaxSegs)
      BY DEF Segmentations, Contexts
    <3> QED BY <3>1, <3>2, BoundedContext DEF Ctxs
  <2>3. Tokens(ctx) = t
    <3>1. Tokens(ctx) = [i \in DOMAIN file[id] |-> Last(file[id][i])]
      BY DEF Segmentations
    <3>2. [i \in DOMAIN Prefill(t) |-> Last(Prefill(t)[i])] = t
      BY PrefillIs DEF TokenSeqs
    <3> QED BY <2>1, <3>1, <3>2
  <2>4. PICK k : k = Prefill(t)
    OBVIOUS
  <2>5. k \in Prefills /\ k = Prefill(Tokens(ctx)) /\ file[id] = k
    BY <2>1, <2>3, <2>4, PrefillIsKV
  <2>6. PICK u : u = IF OnDevice THEN Session(ctx, FromKVCache(KVCache(k, None)), None)
                     ELSE Session(ctx, None, KVCache(k, IF MappedLoads THEN id ELSE None))
    OBVIOUS
  <2>7. Bind(h, u) /\ file' = file
    BY <1>14, <2>5, <2>6 DEF Load
  <2>8. u \in GoodSessions(OnDevice)
    <3>1. CASE OnDevice
      <4>1. PICK dev : dev = Device(k)
        OBVIOUS
      <4>2. u = Session(ctx, dev, None)
        BY <2>5, <2>6, <3>1, <4>1, NoneIsNoObject DEF FromKVCache
      <4>3. dev \in Devices /\ dev # None /\ dev = Device(Prefill(Tokens(ctx)))
        BY <2>5, <4>1, NoneIsNoObject
      <4> QED BY <2>2, <3>1, <4>2, <4>3, NewSession, NoStatsIn DEF Session
    <3>2. CASE ~OnDevice
      <4>1. PICK kv : kv = KVCache(k, None)
        OBVIOUS
      <4>2. ~MappedLoads
        BY <3>2 DEF Copies
      <4>3. u = Session(ctx, None, kv)
        BY <2>6, <3>2, <4>1, <4>2
      <4>4. kv \in KVs /\ kv # None /\ kv = KVCache(Prefill(Tokens(ctx)), None)
        BY <2>5, <4>1, NoneIsNoObject
      <4> QED BY <2>2, <3>2, <4>3, <4>4, NewSession, NoStatsIn DEF Session
    <3> QED BY <3>1, <3>2
  <2> QED BY <2>7, <2>8, BindKeeps
<1> QED BY <1>4, <1>5, <1>6, <1>7, <1>8, <1>9, <1>10, <1>11, <1>12, <1>13, <1>14 DEF Next

LEMMA AlwaysKV == Spec => []KVInv
BY InitKVInv, NextKVInv, PTL DEF Spec

-----------------------------------------------------------------------------
(* What a session that is good holds. *)

LEMMA HeldIs ==
    ASSUME NEW d \in BOOLEAN, NEW s \in GoodSessions(d), ~s.failed,
           NEW toks, toks = Tokens(s.ctx)
    PROVE  /\ toks \in TokenSeqs
           /\ Held(s) \subseteq {Prefill(toks)}
           /\ toks # << >> => Held(s) = {Prefill(toks)} /\ KVOf(s) = Prefill(toks)
           /\ s.dev # None => \/ s.dev = Device(Prefill(toks))
                              \/ s.dev = Device(None) /\ toks = << >>
<1>1. /\ s \in Sessions /\ GoodSession(s, d) /\ Coherent(s)
      /\ s.ctx \in Ctxs
  BY DEF GoodSessions, GoodSession, Sessions
<1>2. toks \in TokenSeqs /\ Prefill(toks) \in Prefills
  BY <1>1, TokensIn
<1>3. s.dev # None => \/ s.dev = Device(Prefill(toks))
                      \/ s.dev = Device(None) /\ toks = << >>
  BY <1>1 DEF Coherent, DevExact
<1>4. s.kv # None => s.kv.kv = Prefill(toks)
  BY <1>1, <1>2, NoneIsNoObject DEF Coherent
<1>5. s.dev # None => s.dev.cache \in {None, Prefill(toks)}
  BY <1>2, <1>3, NoneIsNoObject
<1>6. Held(s) \subseteq {Prefill(toks)}
  BY <1>4, <1>5 DEF Held
<1>7. ASSUME toks # << >> PROVE Held(s) = {Prefill(toks)} /\ KVOf(s) = Prefill(toks)
  <2>1. s.dev # None \/ s.kv # None
    BY <1>1, <1>7, NoTokens DEF GoodSession
  <2>2. Prefill(toks) # None
    BY <1>2, PrefillIsKV
  <2>3. s.dev # None => s.dev.cache = Prefill(toks)
    BY <1>2, <1>3, <1>7, NoneIsNoObject
  <2>4. Prefill(toks) \in Held(s)
    BY <2>1, <2>2, <2>3, <1>4 DEF Held
  <2>5. Held(s) = {Prefill(toks)}
    BY <1>6, <2>4
  <2> QED BY <2>5 DEF KVOf
<1> QED BY <1>2, <1>3, <1>6, <1>7

LEMMA KVInvIsExact == KVInv /\ Copies => KVExact
<1> SUFFICES ASSUME KVInv, Copies, NEW h \in Handles, Live(h), ~sess[h].failed
             PROVE  LET toks == Tokens(sess[h].ctx)
                    IN  /\ Held(sess[h]) \subseteq {Prefill(toks)}
                        /\ toks # << >> => Held(sess[h]) # {}
                        /\ sess[h].dev # None /\ ~GreedyRaises(sess[h].dev) =>
                              \A x, y \in Segs :
                                  Greedy(sess[h].dev, x \o y)
                                      = [k \in DOMAIN (x \o y) |-> toks \o SubSeq(x \o y, 1, k - 1)]
                        /\ sess[h].dev # None /\ toks # << >> => ~GreedyRaises(sess[h].dev)
  BY DEF KVExact
<1>1. PICK s, toks, dev : s = sess[h] /\ toks = Tokens(sess[h].ctx) /\ dev = sess[h].dev
  OBVIOUS
<1>2. s \in GoodSessions(OnDevice) /\ ~s.failed /\ toks = Tokens(s.ctx) /\ dev = s.dev
  BY <1>1 DEF KVInv, Live
<1>3. OnDevice \in BOOLEAN /\ Segs \subseteq TokenSeqs
  BY SegmentedAssumption DEF KVInv, OnDevice, Segs, TokenSeqs
<1>4. /\ toks \in TokenSeqs
      /\ Held(s) \subseteq {Prefill(toks)}
      /\ toks # << >> => Held(s) = {Prefill(toks)}
      /\ dev # None => \/ dev = Device(Prefill(toks))
                       \/ dev = Device(None) /\ toks = << >>
  BY <1>2, <1>3, HeldIs
<1>5. Prefill(toks) \in Prefills /\ Prefill(toks) # None /\ (Prefill(toks) = << >> <=> toks = << >>)
  BY <1>4, PrefillIsKV
<1>6. dev = Device(Prefill(toks)) => dev.cache = Prefill(toks)
  BY <1>5, NoneIsNoObject
<1>7. dev = Device(None) => dev.cache = None
  BY NoneIsNoObject
<1>8. ASSUME dev # None, ~GreedyRaises(dev), NEW x \in Segs, NEW y \in Segs
      PROVE  Greedy(dev, x \o y) = [k \in DOMAIN (x \o y) |-> toks \o SubSeq(x \o y, 1, k - 1)]
  <2>1. PICK out : out = x \o y
    OBVIOUS
  <2>2. out \in TokenSeqs
    BY <1>3, <2>1, ConcatProperties DEF TokenSeqs
  <2>3. dev = Device(Prefill(toks)) /\ toks # << >>
    BY <1>4, <1>5, <1>6, <1>7, <1>8 DEF GreedyRaises
  <2>4. Greedy(dev, out) = [k \in DOMAIN out |-> toks \o SubSeq(out, 1, k - 1)]
    BY <1>4, <2>2, <2>3, GreedyExact
  <2> QED BY <2>1, <2>4
<1>9. dev # None /\ toks # << >> => ~GreedyRaises(dev)
  BY <1>4, <1>5, <1>6 DEF GreedyRaises
<1> QED BY <1>1, <1>4, <1>8, <1>9

LEMMA KVInvKeepsSnapshots == KVInv /\ Copies => SnapshotsExact
<1> SUFFICES ASSUME KVInv, Copies PROVE VersionsHold /\ FilesHold
  BY DEF SnapshotsExact
<1>1. ASSUME NEW h \in Handles, NEW l \in Labels,
             versions[h][l] # None, ~versions[h][l].failed, versions[h][l].kv # None
      PROVE  versions[h][l].kv.kv = Prefill(Tokens(versions[h][l].segments))
  <2>1. PICK v : v = versions[h][l]
    OBVIOUS
  <2>2. v \in VersionRecords /\ GoodVersion(v)
    BY <1>1, <2>1 DEF KVInv, GoodVersions
  <2>3. v.segments \in Ctxs /\ v.kv = KVCache(Prefill(Tokens(v.segments)), None)
    BY <1>1, <2>1, <2>2 DEF GoodVersion, VersionRecords
  <2>4. Prefill(Tokens(v.segments)) \in Prefills
    BY <2>3, TokensIn
  <2>5. v.kv.kv = Prefill(Tokens(v.segments))
    BY <2>3, <2>4, NoneIsNoObject
  <2> QED BY <2>1, <2>5
<1>2. VersionsHold
  BY <1>1 DEF VersionsHold
<1>3. ASSUME NEW id \in Ids, file[id] # None
      PROVE  file[id] = Prefill([i \in DOMAIN file[id] |-> Last(file[id][i])])
  <2>1. PICK t \in TokenSeqs : file[id] = Prefill(t)
    BY <1>3 DEF KVInv, Prefills
  <2>2. [i \in DOMAIN Prefill(t) |-> Last(Prefill(t)[i])] = t
    BY PrefillIs DEF TokenSeqs
  <2> QED BY <2>1, <2>2
<1>4. FilesHold
  BY <1>3 DEF FilesHold
<1> QED BY <1>2, <1>4

(* Every deployment keeps its sessions on the device, or its store reads   *)
(* the arrays instead of mapping them.                                     *)
MappedNeedsDevice == \A c \in Configs : c.mapped => c.onDevice

LEMMA NeverMapped == MappedNeedsDevice /\ KVInv => Copies
BY DEF MappedNeedsDevice, KVInv, Copies, MappedLoads, OnDevice

(* Whatever sequence of mutations, commits, rollbacks, branches, saves and *)
(* loads produced it, the KV of a session is that of a full prefill of its *)
(* current context, and greedy decoding predicts from all of it            *)
(* (SegmentedSession._apply, TorchKVSession.edit_suffix and greedy,        *)
(* HFBackend.recompute_incremental), where a loaded array is no view of a  *)
(* file that a later save overwrites.                                      *)
THEOREM KVIsAlwaysExact ==
    ASSUME MappedNeedsDevice PROVE Spec => []KVExact
<1>1. KVInv => KVExact
  BY KVInvIsExact, NeverMapped
<1> QED BY AlwaysKV, <1>1, PTL

(* A committed version and a stored file stay what they were, whatever the *)
(* session, its branches and the store do later (SegmentedSession.commit,  *)
(* rollback, branch and save), under the same condition.                   *)
THEOREM SnapshotsStayExact ==
    ASSUME MappedNeedsDevice PROVE Spec => []SnapshotsExact
<1>1. KVInv => SnapshotsExact
  BY KVInvKeepsSnapshots, NeverMapped
<1> QED BY AlwaysKV, <1>1, PTL

-----------------------------------------------------------------------------
(* What a mutation books as re-used. *)

(* Equal leading tokens are equal leading KV *)
LEMMA LeadingPrefills ==
    ASSUME NEW a \in TokenSeqs, NEW b \in TokenSeqs, NEW r \in Nat, r <= Len(a), r <= Len(b),
           SubSeq(a, 1, r) = SubSeq(b, 1, r)
    PROVE  r <= LeadingCommon(Prefill(a), Prefill(b))
<1>1. PICK p, q : p = Prefill(a) /\ q = Prefill(b)
  OBVIOUS
<1>2. /\ Len(p) = Len(a) /\ Len(q) = Len(b) /\ Len(a) \in Nat /\ Len(b) \in Nat
      /\ p \in Seq(Seq(TokenIds)) /\ q \in Seq(Seq(TokenIds))
  BY <1>1, PrefillIs DEF TokenSeqs
<1>3. PICK m : m = Min({Len(p), Len(q)})
  OBVIOUS
<1>4. m \in Nat /\ r <= m /\ m <= Len(a) /\ m <= Len(b)
  BY <1>2, <1>3, MinOfTwo
<1>5. PICK T : T = {i \in 1 .. m : SubSeq(p, 1, i) = SubSeq(q, 1, i)}
  OBVIOUS
<1>6. ASSUME NEW i \in 1 .. r PROVE i \in T
  <2>1. i \in 0 .. Len(a) /\ i \in 0 .. Len(b) /\ i \in 1 .. m
    BY <1>2, <1>4
  <2>2. PICK u, v : u = SubSeq(a, 1, i) /\ v = SubSeq(b, 1, i)
    OBVIOUS
  <2>3. PICK w : w = SubSeq(a, 1, r) /\ w = SubSeq(b, 1, r)
    OBVIOUS
  <2>4. r \in 0 .. Len(a) /\ r \in 0 .. Len(b) /\ r - 1 + 1 = r /\ i - 1 + 1 = i
    BY <1>2
  <2>5. /\ \A j \in 1 .. r : w[j] = a[j]
    BY <2>3, <2>4, SubSeqIn DEF TokenSeqs
  <2>6. /\ \A j \in 1 .. r : w[j] = b[j]
    BY <2>3, <2>4, SubSeqIn DEF TokenSeqs
  <2>7. u \in TokenSeqs /\ Len(u) = i /\ \A j \in 1 .. i : u[j] = a[j]
    BY <2>1, <2>2, <2>4, SubSeqIn DEF TokenSeqs
  <2>8. v \in TokenSeqs /\ Len(v) = i /\ \A j \in 1 .. i : v[j] = b[j]
    BY <2>1, <2>2, <2>4, SubSeqIn DEF TokenSeqs
  <2>9. \A j \in 1 .. i : u[j] = v[j]
    BY <2>5, <2>6, <2>7, <2>8
  <2>10. u = v
    BY <2>7, <2>8, <2>9, SeqEqual DEF TokenSeqs
  <2>11. SubSeq(p, 1, i) = Prefill(u) /\ SubSeq(q, 1, i) = Prefill(v)
    <3>1. SubSeq(Prefill(a), 1, i) = Prefill(SubSeq(a, 1, i))
      BY <2>1, PrefillPrefix DEF TokenSeqs
    <3>2. SubSeq(Prefill(b), 1, i) = Prefill(SubSeq(b, 1, i))
      BY <2>1, PrefillPrefix DEF TokenSeqs
    <3> QED BY <1>1, <2>2, <3>1, <3>2
  <2> QED BY <1>5, <2>1, <2>10, <2>11
<1>7. IsFiniteSet(1 .. m)
  BY <1>4, FS_Interval
<1>8. IsFiniteSet(T)
  BY <1>5, <1>7, FS_Subset
<1>9. 1 .. r \in SUBSET T
  BY <1>6
<1>10. Cardinality(1 .. r) <= Cardinality(T)
  BY <1>8, <1>9, FS_Subset
<1>11. Cardinality(1 .. r) = r
  BY FS_Interval
<1>12. LeadingCommon(p, q) = Cardinality(T)
  BY <1>3, <1>5 DEF LeadingCommon
<1> QED BY <1>1, <1>10, <1>11, <1>12

LEMMA LeadingIsNat ==
    ASSUME NEW S, NEW p \in Seq(S), NEW q \in Seq(S) PROVE LeadingCommon(p, q) \in Nat
<1>1. PICK m, T : m = Min({Len(p), Len(q)}) /\ T = {i \in 1 .. m : SubSeq(p, 1, i) = SubSeq(q, 1, i)}
  OBVIOUS
<1>2. m \in Nat
  BY <1>1, MinOfTwo, LenProperties
<1>3. IsFiniteSet(1 .. m)
  BY <1>2, FS_Interval
<1>4. Cardinality(T) \in Nat
  BY <1>1, <1>3, FS_Subset, FS_CardinalityType
<1> QED BY <1>1, <1>4 DEF LeadingCommon

(* the KV of a session is a sequence *)
LEMMA KVOfIs ==
    ASSUME NEW d \in BOOLEAN, NEW s \in GoodSessions(d) PROVE KVOf(s) \in Seq(Seq(TokenIds))
<1>1. /\ s.dev = None \/ \E k \in Prefills \cup {None} : s.dev = Device(k)
      /\ s.kv = None \/ s.kv \in KVs
  BY DEF GoodSessions, Sessions, Devices
<1>2. s.dev # None => s.dev.cache \in Prefills \cup {None}
  BY <1>1, NoneIsNoObject
<1>3. s.kv # None => s.kv.kv \in Prefills
  BY <1>1, KVIs
<1>4. Held(s) \subseteq Seq(Seq(TokenIds))
  BY <1>2, <1>3, PrefillIsKV DEF Held
<1>5. CASE Held(s) = {}
  BY <1>5, EmptySeq DEF KVOf
<1>6. CASE Held(s) # {}
  <2>1. PICK T : T = Held(s)
    OBVIOUS
  <2>2. (CHOOSE k \in T : TRUE) \in T
    BY <1>6, <2>1
  <2>3. KVOf(s) = CHOOSE k \in T : TRUE
    BY <1>6, <2>1 DEF KVOf
  <2> QED BY <1>4, <2>1, <2>2, <2>3
<1> QED BY <1>5, <1>6

(* The tokens that are not recomputed are leading KV of the session        *)
LEMMA AppliedReuse ==
    ASSUME NEW s \in GoodSessions(OnDevice), NEW newCtx \in Ctxs, OnDevice \in BOOLEAN,
           NEW u, u = Applied(s, newCtx)
    PROVE  (u.stats.full - s.stats.full) - (u.stats.recomputed - s.stats.recomputed)
              <= LeadingCommon(KVOf(s), KVOf(u))
<1>1. PICK a, b, r : a = Tokens(s.ctx) /\ b = Tokens(newCtx) /\ r = Reused(s, newCtx)
  OBVIOUS
<1>2. /\ a \in TokenSeqs /\ b \in TokenSeqs
      /\ r \in Nat /\ r <= Len(b) /\ Len(b) \in Nat
      /\ Cold(s) => r = 0
      /\ ~Cold(s) => /\ r <= Len(a) /\ SubSeq(a, 1, r) = SubSeq(b, 1, r) /\ ~s.failed
  BY <1>1, ReusedIs
<1>3. u \in GoodSessions(OnDevice) /\ ~u.failed /\ u.ctx = newCtx /\ u.stats = AppliedStats(s, newCtx)
  BY AppliedIsGood DEF Applied
<1>4. s.stats \in Stats
  BY DEF GoodSessions, Sessions
<1>5. /\ u.stats.full = s.stats.full + Len(b)
      /\ u.stats.recomputed = s.stats.recomputed + Len(b) - r
      /\ s.stats.full \in Nat /\ s.stats.recomputed \in Int
  BY <1>1, <1>3, <1>4 DEF AppliedStats, Stats
<1>6. (u.stats.full - s.stats.full) - (u.stats.recomputed - s.stats.recomputed) = r
  BY <1>2, <1>5
<1>7. CASE r = 0
  <2>1. LeadingCommon(KVOf(s), KVOf(u)) \in Nat
    BY <1>3, KVOfIs, LeadingIsNat
  <2> QED BY <1>6, <1>7, <2>1
<1>8. CASE r # 0
  <2>1. r <= Len(a) /\ SubSeq(a, 1, r) = SubSeq(b, 1, r) /\ ~s.failed
    BY <1>2, <1>8
  <2>2. a # << >> /\ b # << >>
    BY <1>2, <1>8, <2>1, EmptySeq
  <2>3. KVOf(s) = Prefill(a)
    BY <1>1, <2>1, <2>2, HeldIs
  <2>4. KVOf(u) = Prefill(b)
    BY <1>1, <1>3, <2>2, HeldIs
  <2>5. r <= LeadingCommon(Prefill(a), Prefill(b))
    BY <1>2, <2>1, LeadingPrefills
  <2> QED BY <1>6, <2>3, <2>4, <2>5
<1> QED BY <1>7, <1>8

(* Only a mutation counts as one *)
LEMMA OnlyMutations ==
    ASSUME KVInv, Copies, Next, NEW h \in Handles, Live(h), sess'[h] # None,
           sess'[h].stats.mutations = sess[h].stats.mutations + 1
    PROVE  \E newCtx \in Ctxs : sess'[h] = Applied(sess[h], newCtx)
<1>1. PICK s, u : s = sess[h] /\ u = sess'[h]
  OBVIOUS
<1>2. /\ s \in GoodSessions(OnDevice) /\ s \in Sessions /\ s.stats.mutations \in Nat
      /\ s # None
  BY <1>1 DEF KVInv, Live, GoodSessions, Sessions, Stats
<1>3. u.stats.mutations = s.stats.mutations + 1 /\ u # None
  BY <1>1
<1>4. u # s /\ u.stats # s.stats /\ u.stats.mutations # 0
  BY <1>2, <1>3
<1>5. DOMAIN sess = Handles
  BY DEF KVInv
<1>6. ASSUME NEW g \in Handles, NEW t, Bind(g, t), t.stats = NoStats PROVE FALSE
  <2>1. u = IF g = h THEN t ELSE s
    BY <1>1, <1>5, <1>6 DEF Bind
  <2> QED BY <1>4, <1>6, <2>1 DEF NoStats
<1>7. ASSUME NEW g \in Handles, NEW newCtx, Apply(g, newCtx)
      PROVE  u = Applied(s, newCtx)
  <2>1. u = IF g = h THEN Applied(s, newCtx) ELSE s
    BY <1>1, <1>5, <1>7 DEF Apply
  <2> QED BY <1>4, <2>1
<1>8. OnDevice' = OnDevice /\ OnDevice \in BOOLEAN /\ conf \in Configs
  BY SegmentedAssumption DEF KVInv, OnDevice, Next, Create, AppendSegment, EditSegment,
      DeleteSegment, Apply, Commit, Rollback, RollbackRaises, Branch, Save, Load
<1>9. \A c, d, k : Session(c, d, k).stats = NoStats
  BY DEF Session
<1>10. ASSUME NEW g \in Handles, NEW ctx \in Starts, Create(g, ctx) PROVE FALSE
  <2>1. PICK t : t = CASE ctx = << >> -> Session(ctx, None, None)
                       [] ctx # << >> /\ OnDevice -> Session(ctx, NewDevice(Tokens(ctx)), None)
                       [] ctx # << >> /\ ~OnDevice ->
                             Session(ctx, None, KVCache(Prefill(Tokens(ctx)), None))
    OBVIOUS
  <2>2. Bind(g, t)
    BY <1>10, <2>1 DEF Create
  <2>3. t.stats = NoStats
    BY <1>8, <1>9, <2>1
  <2> QED BY <1>6, <2>2, <2>3
<1>11. ASSUME NEW g \in Handles, NEW seg \in Segs, AppendSegment(g, seg)
       PROVE  \E newCtx \in Ctxs : u = Applied(s, newCtx)
  <2>1. sess[g] \in GoodSessions(OnDevice) /\ sess[g].ctx \in Ctxs /\ seg \in TokenSeqs
    BY <1>8, <1>11, SegmentedAssumption
       DEF AppendSegment, Live, KVInv, GoodSessions, Sessions, Segs, TokenSeqs
  <2>2. PICK c : c = Append(sess[g].ctx, seg)
    OBVIOUS
  <2>3. c \in Ctxs
    BY <2>1, <2>2, AppendProperties DEF Ctxs
  <2>4. Apply(g, c)
    BY <1>11, <2>2 DEF AppendSegment
  <2> QED BY <1>7, <2>3, <2>4
<1>12. ASSUME NEW g \in Handles, NEW i \in 1 .. MaxSegs, NEW seg \in Segs, EditSegment(g, i, seg)
       PROVE  \E newCtx \in Ctxs : u = Applied(s, newCtx)
  <2>1. sess[g] \in GoodSessions(OnDevice) /\ sess[g].ctx \in Ctxs /\ seg \in TokenSeqs
    BY <1>8, <1>12, SegmentedAssumption
       DEF EditSegment, Live, KVInv, GoodSessions, Sessions, Segs, TokenSeqs
  <2>2. i \in 1 .. Len(sess[g].ctx)
    BY <1>12, <2>1, LenProperties DEF EditSegment, Ctxs
  <2>3. PICK c : c = [sess[g].ctx EXCEPT ![i] = seg]
    OBVIOUS
  <2>4. c \in Ctxs
    BY <2>1, <2>2, <2>3, MutatedContext
  <2>5. Apply(g, c)
    BY <1>12, <2>3 DEF EditSegment
  <2> QED BY <1>7, <2>4, <2>5
<1>13. ASSUME NEW g \in Handles, NEW i \in 1 .. MaxSegs, DeleteSegment(g, i)
       PROVE  \E newCtx \in Ctxs : u = Applied(s, newCtx)
  <2>1. sess[g] \in GoodSessions(OnDevice) /\ sess[g].ctx \in Ctxs
    BY <1>13 DEF DeleteSegment, Live, KVInv, GoodSessions, Sessions
  <2>2. i \in 1 .. Len(sess[g].ctx)
    BY <1>13, <2>1, LenProperties DEF DeleteSegment, Ctxs
  <2>3. PICK c : c = RemoveAt(sess[g].ctx, i)
    OBVIOUS
  <2>4. c \in Ctxs
    <3>1. << >> \in TokenSeqs
      BY PrefillIsKV
    <3> QED BY <2>1, <2>2, <2>3, <3>1, MutatedContext
  <2>5. Apply(g, c)
    BY <1>13, <2>3 DEF DeleteSegment
  <2> QED BY <1>7, <2>4, <2>5
<1>14. ASSUME NEW g \in Handles, NEW l \in Labels, Commit(g, l) PROVE FALSE
  <2>1. sess' = [sess EXCEPT ![g] = [sess[g] EXCEPT !.kv = Materialized(sess[g])]]
    BY <1>14 DEF Commit
  <2>2. u.stats = s.stats
    BY <1>1, <1>2, <1>5, <2>1 DEF Sessions
  <2> QED BY <1>4, <2>2
<1>15. ASSUME NEW g \in Handles, NEW l \in Labels, Rollback(g, l) PROVE FALSE
  <2>0. PICK v, c, d, k, f :
           /\ v = versions[g][l] /\ c = v.segments /\ f = v.failed
           /\ d = IF OnDevice THEN FromKVCache(v.kv) ELSE None
           /\ k = IF OnDevice THEN None ELSE CopyKV(v.kv)
    OBVIOUS
  <2>1. sess' = [sess EXCEPT ![g] = [sess[g] EXCEPT !.ctx = c, !.dev = d, !.kv = k, !.failed = f]]
    BY <1>15, <2>0 DEF Rollback
  <2>2. u.stats = s.stats
    BY <1>1, <1>2, <1>5, <2>1 DEF Sessions
  <2> QED BY <1>4, <2>2
<1>16. ASSUME NEW g \in Handles, NEW l \in Labels, RollbackRaises(g, l) PROVE FALSE
  <2>0. PICK c : c = versions[g][l].segments
    OBVIOUS
  <2>1. sess' = [sess EXCEPT ![g] = [sess[g] EXCEPT !.ctx = c, !.failed = TRUE]]
    BY <1>16, <2>0 DEF RollbackRaises
  <2>2. u.stats = s.stats
    BY <1>1, <1>2, <1>5, <2>1 DEF Sessions
  <2> QED BY <1>4, <2>2
<1>17. ASSUME NEW g \in Handles, NEW child \in Handles, Branch(g, child) PROVE FALSE
  <2>1. PICK t : t = [Session(sess[g].ctx, Clone(sess[g].dev),
                              IF OnDevice THEN None ELSE CopyKV(sess[g].kv))
                        EXCEPT !.failed = sess[g].failed]
    OBVIOUS
  <2>2. Bind(child, t)
    BY <1>17, <2>1 DEF Branch
  <2>3. t.stats = NoStats
    BY <2>1 DEF Session
  <2> QED BY <1>6, <2>2, <2>3
<1>18. ASSUME NEW g \in Handles, NEW id \in Ids, Save(g, id) PROVE FALSE
  <2>1. PICK c, w : c = Materialized(sess[g])
                    /\ w = IF c.map = id THEN [i \in DOMAIN c.kv |-> Junk] ELSE c.kv
    OBVIOUS
  <2>2. PICK t : t = IF h = g THEN [sess[g] EXCEPT !.kv = c] ELSE sess[h]
    OBVIOUS
  <2>3. u = IF t = None THEN None ELSE [t EXCEPT !.kv = AfterWrite(t.kv, id, w)]
    BY <1>1, <1>18, <2>1, <2>2 DEF Save
  <2>4. t = IF h = g THEN [s EXCEPT !.kv = c] ELSE s
    BY <1>1, <2>2
  <2>5. t.stats = s.stats /\ [t EXCEPT !.kv = AfterWrite(t.kv, id, w)].stats = s.stats
    BY <1>2, <2>4 DEF Sessions
  <2> QED BY <1>3, <1>4, <2>3, <2>5
<1>19. ASSUME NEW g \in Handles, NEW id \in Ids, NEW ctx \in Segmentations(file[id]), Load(g, id, ctx)
       PROVE  FALSE
  <2>1. PICK t : t = IF OnDevice
                     THEN Session(ctx, FromKVCache(KVCache(file[id], None)), None)
                     ELSE Session(ctx, None, KVCache(file[id], IF MappedLoads THEN id ELSE None))
    OBVIOUS
  <2>2. Bind(g, t)
    BY <1>19, <2>1 DEF Load
  <2>3. t.stats = NoStats
    BY <1>9, <2>1
  <2> QED BY <1>6, <2>2, <2>3
<1> QED BY <1>1, <1>10, <1>11, <1>12, <1>13, <1>14, <1>15, <1>16, <1>17, <1>18, <1>19 DEF Next

(* The tokens a mutation does not book as recomputed are leading KV that   *)
(* the session already held (SegmentedSession._apply, SessionStats).       *)
THEOREM ReuseIsAlwaysReal ==
    ASSUME MappedNeedsDevice PROVE Spec => ReuseIsReal
<1> DEFINE A ==
      \A h \in Handles :
          Live(h) /\ sess'[h] # None /\ sess'[h].stats.mutations = sess[h].stats.mutations + 1 =>
             (sess'[h].stats.full - sess[h].stats.full)
               - (sess'[h].stats.recomputed - sess[h].stats.recomputed)
             <= LeadingCommon(KVOf(sess[h]), KVOf(sess'[h]))
<1>1. KVInv /\ [Next]_vars => [A]_vars
  <2> SUFFICES ASSUME KVInv, Next, NEW h \in Handles, Live(h), sess'[h] # None,
                      sess'[h].stats.mutations = sess[h].stats.mutations + 1
               PROVE  (sess'[h].stats.full - sess[h].stats.full)
                        - (sess'[h].stats.recomputed - sess[h].stats.recomputed)
                      <= LeadingCommon(KVOf(sess[h]), KVOf(sess'[h]))
    OBVIOUS
  <2>1. Copies
    BY NeverMapped
  <2>2. PICK newCtx \in Ctxs : sess'[h] = Applied(sess[h], newCtx)
    BY <2>1, OnlyMutations
  <2>3. PICK s, u : s = sess[h] /\ u = sess'[h]
    OBVIOUS
  <2>4. s \in GoodSessions(OnDevice) /\ OnDevice \in BOOLEAN
    BY <2>1, <2>3, SegmentedAssumption DEF KVInv, Live, OnDevice
  <2>5. u = Applied(s, newCtx)
    BY <2>2, <2>3
  <2>6. (u.stats.full - s.stats.full) - (u.stats.recomputed - s.stats.recomputed)
           <= LeadingCommon(KVOf(s), KVOf(u))
    BY <2>4, <2>5, AppliedReuse
  <2> QED BY <2>3, <2>6
<1> QED BY AlwaysKV, <1>1, PTL DEF Spec, ReuseIsReal

-----------------------------------------------------------------------------
(* Contexts.  In every deployment, whatever happens to the KV, what a      *)
(* session or a version has as its context is a sequence of segments.      *)

IsSession(s) ==
    /\ s.ctx \in Ctxs
    /\ s = [ctx |-> s.ctx, dev |-> s.dev, kv |-> s.kv, stats |-> s.stats, failed |-> s.failed]

IsVersion(v) ==
    /\ v.segments \in Ctxs
    /\ v = [segments |-> v.segments, kv |-> v.kv, failed |-> v.failed]

SessionsAre(all) ==
    /\ all = [h \in Handles |-> all[h]]
    /\ \A h \in Handles : all[h] = None \/ IsSession(all[h])

VersionsAre(all) ==
    /\ all = [h \in Handles |-> [l \in Labels |-> all[h][l]]]
    /\ \A h \in Handles, l \in Labels : all[h][l] = None \/ IsVersion(all[h][l])

CtxInv == conf \in Configs /\ SessionsAre(sess) /\ VersionsAre(versions)

LEMMA SetSession ==
    ASSUME NEW all, SessionsAre(all), NEW h \in Handles, NEW s, IsSession(s)
    PROVE  SessionsAre([all EXCEPT ![h] = s])
<1>1. PICK w : w = [all EXCEPT ![h] = s]
  OBVIOUS
<1>2. w = [g \in Handles |-> IF g = h THEN s ELSE all[g]]
  BY <1>1 DEF SessionsAre
<1>3. \A g \in Handles : w[g] = IF g = h THEN s ELSE all[g]
  BY <1>2
<1>4. w = [g \in Handles |-> w[g]]
  BY <1>2
<1>5. \A g \in Handles : w[g] = None \/ IsSession(w[g])
  BY <1>3 DEF SessionsAre
<1> QED BY <1>1, <1>4, <1>5 DEF SessionsAre

LEMMA BindIs ==
    ASSUME CtxInv, NEW h \in Handles, NEW s, IsSession(s), Bind(h, s)
    PROVE  SessionsAre(sess') /\ VersionsAre(versions')
<1>1. SessionsAre(sess')
  BY SetSession DEF CtxInv, Bind
<1>2. versions' = [g \in Handles |-> [l \in Labels |-> IF g = h THEN None ELSE versions[g][l]]]
  BY DEF CtxInv, Bind, VersionsAre, NoVersions
<1>3. \A g \in Handles, l \in Labels : versions'[g][l] = IF g = h THEN None ELSE versions[g][l]
  BY <1>2
<1>4. versions' = [g \in Handles |-> [l \in Labels |-> versions'[g][l]]]
  BY <1>2
<1>5. \A g \in Handles, l \in Labels : versions'[g][l] = None \/ IsVersion(versions'[g][l])
  BY <1>3 DEF CtxInv, VersionsAre
<1> QED BY <1>1, <1>4, <1>5 DEF VersionsAre

LEMMA ApplyIs ==
    ASSUME CtxInv, NEW h \in Handles, NEW c \in Ctxs, Apply(h, c)
    PROVE  SessionsAre(sess') /\ versions' = versions
<1>1. IsSession(Applied(sess[h], c))
  BY DEF IsSession, Applied
<1>2. sess' = [sess EXCEPT ![h] = Applied(sess[h], c)] /\ versions' = versions
  BY DEF Apply
<1> QED BY <1>1, <1>2, SetSession DEF CtxInv

LEMMA SessionIs ==
    ASSUME NEW c \in Ctxs, NEW dev, NEW kv, NEW f
    PROVE  /\ IsSession(Session(c, dev, kv))
           /\ IsSession([Session(c, dev, kv) EXCEPT !.failed = f])
BY DEF IsSession, Session

LEMMA InitCtxInv == Init => CtxInv
<1> SUFFICES ASSUME Init PROVE CtxInv
  OBVIOUS
<1>1. SessionsAre(sess)
  BY DEF Init, SessionsAre
<1>2. VersionsAre(versions)
  BY DEF Init, VersionsAre, NoVersions
<1> QED BY <1>1, <1>2 DEF Init, CtxInv

LEMMA NextCtxInv == CtxInv /\ [Next]_vars => CtxInv'
<1> SUFFICES ASSUME CtxInv, [Next]_vars PROVE CtxInv'
  OBVIOUS
<1>1. CASE UNCHANGED vars
  BY <1>1 DEF vars, CtxInv, SessionsAre, VersionsAre
<1>2. conf' = conf /\ conf \in Configs
  BY <1>1 DEF CtxInv, Next, vars, Create, AppendSegment, EditSegment, DeleteSegment, Apply,
      Commit, Rollback, RollbackRaises, Branch, Save, Load
<1>3. OnDevice \in BOOLEAN /\ Segs \subseteq TokenSeqs
  BY <1>2, SegmentedAssumption DEF OnDevice, Segs, TokenSeqs
<1> SUFFICES ASSUME Next PROVE SessionsAre(sess') /\ VersionsAre(versions')
  BY <1>1, <1>2 DEF CtxInv
<1>4. SessionsAre(sess) /\ VersionsAre(versions)
  BY DEF CtxInv
<1>5. \A g \in Handles : Live(g) => IsSession(sess[g]) /\ sess[g].ctx \in Ctxs
  BY <1>4 DEF SessionsAre, IsSession, Live
<1>6. ASSUME NEW h \in Handles, NEW ctx \in Starts, Create(h, ctx)
      PROVE  SessionsAre(sess') /\ VersionsAre(versions')
  <2>1. ctx \in Ctxs
    BY SegmentedAssumption DEF Ctxs, TokenSeqs
  <2>2. PICK s : s = CASE ctx = << >> -> Session(ctx, None, None)
                       [] ctx # << >> /\ OnDevice -> Session(ctx, NewDevice(Tokens(ctx)), None)
                       [] ctx # << >> /\ ~OnDevice ->
                             Session(ctx, None, KVCache(Prefill(Tokens(ctx)), None))
    OBVIOUS
  <2>3. IsSession(s)
    BY <1>3, <2>1, <2>2, SessionIs
  <2>4. Bind(h, s)
    BY <1>6, <2>2 DEF Create
  <2> QED BY <2>3, <2>4, BindIs
<1>7. ASSUME NEW h \in Handles, NEW seg \in Segs, AppendSegment(h, seg)
      PROVE  SessionsAre(sess') /\ VersionsAre(versions')
  <2>1. sess[h].ctx \in Ctxs /\ seg \in TokenSeqs
    BY <1>3, <1>5, <1>7 DEF AppendSegment
  <2>2. Append(sess[h].ctx, seg) \in Ctxs
    BY <2>1, AppendProperties DEF Ctxs
  <2> QED BY <1>4, <1>7, <2>2, ApplyIs DEF AppendSegment
<1>8. ASSUME NEW h \in Handles, NEW i \in 1 .. MaxSegs, NEW seg \in Segs, EditSegment(h, i, seg)
      PROVE  SessionsAre(sess') /\ VersionsAre(versions')
  <2>1. sess[h].ctx \in Ctxs /\ seg \in TokenSeqs
    BY <1>3, <1>5, <1>8 DEF EditSegment
  <2>2. i \in 1 .. Len(sess[h].ctx)
    BY <1>8, <2>1, LenProperties DEF EditSegment, Ctxs
  <2>3. [sess[h].ctx EXCEPT ![i] = seg] \in Ctxs
    BY <2>1, <2>2, MutatedContext
  <2> QED BY <1>4, <1>8, <2>3, ApplyIs DEF EditSegment
<1>9. ASSUME NEW h \in Handles, NEW i \in 1 .. MaxSegs, DeleteSegment(h, i)
      PROVE  SessionsAre(sess') /\ VersionsAre(versions')
  <2>1. sess[h].ctx \in Ctxs /\ << >> \in TokenSeqs
    BY <1>5, <1>9, PrefillIsKV DEF DeleteSegment
  <2>2. i \in 1 .. Len(sess[h].ctx)
    BY <1>9, <2>1, LenProperties DEF DeleteSegment, Ctxs
  <2>3. RemoveAt(sess[h].ctx, i) \in Ctxs
    BY <2>1, <2>2, MutatedContext
  <2> QED BY <1>4, <1>9, <2>3, ApplyIs DEF DeleteSegment
<1>10. ASSUME NEW h \in Handles, NEW l \in Labels, Commit(h, l)
       PROVE  SessionsAre(sess') /\ VersionsAre(versions')
  <2>1. PICK s, c, k : s = sess[h] /\ c = Materialized(s) /\ k = CopyKV(c)
    OBVIOUS
  <2>2. IsSession(s)
    BY <1>5, <1>10, <2>1 DEF Commit
  <2>3. PICK u, v : u = [s EXCEPT !.kv = c] /\ v = [segments |-> s.ctx, kv |-> k, failed |-> s.failed]
    OBVIOUS
  <2>4. IsSession(u) /\ IsVersion(v)
    BY <2>2, <2>3 DEF IsSession, IsVersion
  <2>5. sess' = [sess EXCEPT ![h] = u]
    BY <1>10, <2>1, <2>3 DEF Commit
  <2>6. versions' = [versions EXCEPT ![h][l] = v]
    BY <1>10, <2>1, <2>3 DEF Commit
  <2>7. versions' = [g \in Handles |-> [m \in Labels |->
                        IF g = h /\ m = l THEN v ELSE versions[g][m]]]
    BY <1>4, <2>6 DEF VersionsAre
  <2>8. \A g \in Handles, m \in Labels :
           versions'[g][m] = IF g = h /\ m = l THEN v ELSE versions[g][m]
    BY <2>7
  <2>9. versions' = [g \in Handles |-> [m \in Labels |-> versions'[g][m]]]
    BY <2>7
  <2>10. \A g \in Handles, m \in Labels : versions'[g][m] = None \/ IsVersion(versions'[g][m])
    BY <1>4, <2>4, <2>8 DEF VersionsAre
  <2>11. VersionsAre(versions')
    BY <2>9, <2>10 DEF VersionsAre
  <2> QED BY <1>4, <2>4, <2>5, <2>11, SetSession
<1>11. ASSUME NEW h \in Handles, NEW l \in Labels, Rollback(h, l)
       PROVE  SessionsAre(sess') /\ VersionsAre(versions')
  <2>1. PICK s, v, c, d, k, f :
           /\ s = sess[h] /\ v = versions[h][l] /\ c = v.segments /\ f = v.failed
           /\ d = IF OnDevice THEN FromKVCache(v.kv) ELSE None
           /\ k = IF OnDevice THEN None ELSE CopyKV(v.kv)
    OBVIOUS
  <2>2. IsSession(s) /\ c \in Ctxs
    BY <1>4, <1>5, <1>11, <2>1 DEF Rollback, VersionsAre, IsVersion
  <2>3. PICK u : u = [s EXCEPT !.ctx = c, !.dev = d, !.kv = k, !.failed = f]
    OBVIOUS
  <2>4. IsSession(u)
    BY <2>2, <2>3 DEF IsSession
  <2>5. sess' = [sess EXCEPT ![h] = u] /\ versions' = versions
    BY <1>11, <2>1, <2>3 DEF Rollback
  <2> QED BY <1>4, <2>4, <2>5, SetSession
<1>12. ASSUME NEW h \in Handles, NEW l \in Labels, RollbackRaises(h, l)
       PROVE  SessionsAre(sess') /\ VersionsAre(versions')
  <2>1. PICK s, c : s = sess[h] /\ c = versions[h][l].segments
    OBVIOUS
  <2>2. IsSession(s) /\ c \in Ctxs
    BY <1>4, <1>5, <1>12, <2>1 DEF RollbackRaises, VersionsAre, IsVersion
  <2>3. PICK u : u = [s EXCEPT !.ctx = c, !.failed = TRUE]
    OBVIOUS
  <2>4. IsSession(u)
    BY <2>2, <2>3 DEF IsSession
  <2>5. sess' = [sess EXCEPT ![h] = u] /\ versions' = versions
    BY <1>12, <2>1, <2>3 DEF RollbackRaises
  <2> QED BY <1>4, <2>4, <2>5, SetSession
<1>13. ASSUME NEW h \in Handles, NEW child \in Handles, Branch(h, child)
       PROVE  SessionsAre(sess') /\ VersionsAre(versions')
  <2>1. PICK c, d, k, f : /\ c = sess[h].ctx /\ d = Clone(sess[h].dev) /\ f = sess[h].failed
                          /\ k = IF OnDevice THEN None ELSE CopyKV(sess[h].kv)
    OBVIOUS
  <2>2. c \in Ctxs
    BY <1>5, <1>13, <2>1 DEF Branch
  <2>3. PICK u : u = [Session(c, d, k) EXCEPT !.failed = f]
    OBVIOUS
  <2>4. IsSession(u)
    BY <2>2, <2>3, SessionIs
  <2>5. Bind(child, u)
    BY <1>13, <2>1, <2>3 DEF Branch
  <2> QED BY <2>4, <2>5, BindIs
<1>14. ASSUME NEW h \in Handles, NEW id \in Ids, Save(h, id)
       PROVE  SessionsAre(sess') /\ VersionsAre(versions')
  <2>1. PICK s, c, w : /\ s = sess[h] /\ c = Materialized(s)
                       /\ w = IF c.map = id THEN [i \in DOMAIN c.kv |-> Junk] ELSE c.kv
    OBVIOUS
  <2>2. IsSession(s)
    BY <1>5, <1>14, <2>1 DEF Save
  <2>3. ASSUME NEW g \in Handles PROVE sess'[g] = None \/ IsSession(sess'[g])
    <3>1. PICK t : t = IF g = h THEN [s EXCEPT !.kv = c] ELSE sess[g]
      OBVIOUS
    <3>2. PICK k : k = AfterWrite(t.kv, id, w)
      OBVIOUS
    <3>3. sess'[g] = IF t = None THEN None ELSE [t EXCEPT !.kv = k]
      BY <1>14, <2>1, <3>1, <3>2 DEF Save
    <3>4. t = None \/ IsSession(t)
      BY <1>4, <2>2, <3>1 DEF SessionsAre, IsSession
    <3> QED BY <3>3, <3>4 DEF IsSession
  <2>4. ASSUME NEW g \in Handles, NEW l \in Labels
        PROVE  versions'[g][l] = None \/ IsVersion(versions'[g][l])
    <3>1. PICK v : v = versions[g][l]
      OBVIOUS
    <3>2. PICK k : k = AfterWrite(v.kv, id, w)
      OBVIOUS
    <3>3. versions'[g][l] = IF v = None THEN None ELSE [v EXCEPT !.kv = k]
      BY <1>14, <2>1, <3>1, <3>2 DEF Save
    <3>4. v = None \/ IsVersion(v)
      BY <1>4, <3>1 DEF VersionsAre
    <3> QED BY <3>3, <3>4 DEF IsVersion
  <2>5. sess' = [g \in Handles |-> sess'[g]]
    BY <1>14 DEF Save
  <2>6. versions' = [g \in Handles |-> [l \in Labels |-> versions'[g][l]]]
    BY <1>14 DEF Save
  <2>7. SessionsAre(sess')
    BY <2>3, <2>5 DEF SessionsAre
  <2>8. VersionsAre(versions')
    BY <2>4, <2>6 DEF VersionsAre
  <2> QED BY <2>7, <2>8
<1>15. ASSUME NEW h \in Handles, NEW id \in Ids, NEW ctx \in Segmentations(file[id]), Load(h, id, ctx)
       PROVE  SessionsAre(sess') /\ VersionsAre(versions')
  <2>1. ctx \in Ctxs
    <3>1. MaxSegs \in Nat /\ Segs \in SUBSET TokenSeqs
      BY <1>3, SegmentedAssumption
    <3>2. ctx \in BoundedSeq(Segs, MaxSegs)
      BY DEF Segmentations, Contexts
    <3> QED BY <3>1, <3>2, BoundedContext DEF Ctxs
  <2>2. PICK u : u = IF OnDevice
                     THEN Session(ctx, FromKVCache(KVCache(file[id], None)), None)
                     ELSE Session(ctx, None, KVCache(file[id], IF MappedLoads THEN id ELSE None))
    OBVIOUS
  <2>3. IsSession(u)
    BY <2>1, <2>2, SessionIs
  <2>4. Bind(h, u)
    BY <1>15, <2>2 DEF Load
  <2> QED BY <2>3, <2>4, BindIs
<1> QED BY <1>4, <1>6, <1>7, <1>8, <1>9, <1>10, <1>11, <1>12, <1>13, <1>14, <1>15 DEF Next

(* The plan between the contexts of any two sessions tiles the new context, *)
(* re-uses only what it may and recomputes exactly the part behind the     *)
(* common prefix (segment.plan: plan_incremental, recompute_ranges;        *)
(* SegmentedSession.diff), for segments and contexts of every size and in  *)
(* every deployment.                                                       *)
THEOREM PlansAreAlwaysSound == Spec => []PlansAreSound
<1>1. CtxInv => PlansAreSound
  <2> SUFFICES ASSUME CtxInv, NEW g \in Handles, NEW h \in Handles, Live(g), Live(h)
               PROVE  /\ \A mode \in {"exact", "selective"} : Tiles(sess[g].ctx, sess[h].ctx, mode)
                      /\ RecomputesSuffix(sess[g].ctx, sess[h].ctx)
    BY DEF PlansAreSound
  <2>1. PICK a, b : a = sess[g].ctx /\ b = sess[h].ctx
    OBVIOUS
  <2>2. a \in Seq(Seq(TokenIds)) /\ b \in Seq(Seq(TokenIds))
    BY <2>1 DEF CtxInv, SessionsAre, IsSession, Live, Ctxs, TokenSeqs
  <2>3. \A mode \in {"exact", "selective"} : Tiles(a, b, mode)
    BY <2>2, PlanTiles
  <2>4. RecomputesSuffix(a, b)
    BY <2>2, PlanRecomputesSuffix
  <2> QED BY <2>1, <2>3, <2>4
<1> QED BY InitCtxInv, NextCtxInv, <1>1, PTL DEF Spec
=============================================================================
