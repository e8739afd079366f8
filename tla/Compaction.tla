----------------------------- MODULE Compaction -----------------------------
(***************************************************************************)
(* compaction/base.py, baselines.py, attention_matching.py and still/: the *)
(* compact caches each method may return for a raw cache.  The attention   *)
(* statistics of the reference queries are given as score functions (imp,  *)
(* mass) from heads and indices to numbers; only their order matters.      *)
(* Where numpy's argsort leaves the order of equal scores open, every      *)
(* choice is allowed.  Fractions are pairs <<numerator, denominator>>.     *)
(***************************************************************************)
EXTENDS KVTypes

Indices(ctx) == 1 .. LogicalLen(ctx)

(* Python's round(n / d): halves go to the even neighbour *)
RoundHalfEven(n, d) ==
    LET q == n \div d
        r == 2 * (n % d)
    IN  IF r > d \/ (r = d /\ q % 2 = 1) THEN q + 1 ELSE q

(* round(frac * n) *)
Share(frac, n) == RoundHalfEven(frac[1] * n, frac[2])

NoBudget == 0

(* CompactionBudget.target_t; ratio takes precedence *)
TargetT(budget, T) ==
    IF budget.ratio # NoBudget
    THEN Max({budget.min, RoundHalfEven(T, budget.ratio)})
    ELSE Max({budget.min, budget.tokens})

(* The k-element sets of candidates that score highest: argsort()[::-1][:k] *)
TopSets(score, candidates, k) ==
    { S \in kSubset(k, candidates) :
        \A i \in S, j \in candidates \ S : score[i] >= score[j] }

-----------------------------------------------------------------------------
(* Selections: what one head keeps *)

(* _topk_with_recent *)
TopkWithRecent(score, t, T, recent) ==
    LET r == Min({recent, t, T})
    IN  { (T - r + 1 .. T) \cup S : S \in TopSets(score, 1 .. T - r, t - r) }

(* _select_hybrid: recent window, then attention mass, then importance;    *)
(* each take() skips what was taken before                                 *)
SelectHybrid(imp, mass, t, T, recentFrac, massFrac) ==
    LET nRecent == Min({Share(recentFrac, t), t})
        nMass == Min({Share(massFrac, t), t - nRecent})
        recent == T - nRecent + 1 .. T
        rest(taken) == (1 .. T) \ taken
    IN  UNION { { recent \cup M \cup I :
                    I \in TopSets(imp, rest(recent \cup M), t - nRecent - Cardinality(M)) } :
                M \in TopSets(mass, rest(recent), nMass) }

(* _select_omp: each round adds a key that was not selected before; which  *)
(* one depends on the residual.  Any set of the size may come out of it.   *)
SelectOmp(t, T) == kSubset(Min({t, T}), 1 .. T)

-----------------------------------------------------------------------------
(* Layers *)

(* the keys S of one head in positional order, with their values *)
Keep(ctx, S, val, bias) ==
    At([i \in S |-> Slot(ctx.positions[i], ctx.cols[i], val[i], bias)], S)

(* _make_layer for every layer: selections without a bias *)
MakeLayers(ctx, sel) == [h \in Heads |-> Keep(ctx, sel[h], ctx.cols, "zero")]

(* The caches of a method, one selection for each head out of the sets     *)
(* allowed for that head                                                   *)
Selected(ctx, method, allowed) ==
    LET PerHead == { sel \in [Heads -> UNION { allowed[h] : h \in Heads }] :
                        \A h \in Heads : sel[h] \in allowed[h] }
    IN  { CompactCache(MakeLayers(ctx, sel), LogicalLen(ctx), << >>, method) : sel \in PerHead }

FullKV(ctx) == Selected(ctx, "full_kv", [h \in Heads |-> {Indices(ctx)}])

RecentWindow(ctx, budget) ==
    LET T == LogicalLen(ctx)
        t == Min({TargetT(budget, T), T})
    IN  Selected(ctx, "recent_window", [h \in Heads |-> {T - t + 1 .. T}])

HeavyHitter(ctx, budget, recentFrac, mass) ==
    LET T == LogicalLen(ctx)
        t == Min({TargetT(budget, T), T})
        recent == Share(recentFrac, t)
    IN  Selected(ctx, "heavy_hitter", [h \in Heads |-> TopkWithRecent(mass[h], t, T, recent)])

(* The mass is the one of the last `window' queries only *)
SnapKVLite(ctx, budget, recentFrac, mass) ==
    LET T == LogicalLen(ctx)
        t == Min({TargetT(budget, T), T})
        recent == Share(recentFrac, t)
    IN  Selected(ctx, "snapkv", [h \in Heads |-> TopkWithRecent(mass[h], t, T, recent)])

(* rng.choice(T, size = t, replace = False) for each head *)
RandomSubset(ctx, budget) ==
    LET T == LogicalLen(ctx)
        t == Min({TargetT(budget, T), T})
    IN  Selected(ctx, "random_subset", [h \in Heads |-> kSubset(t, 1 .. T)])

-----------------------------------------------------------------------------
(* Attention matching *)

(* the r-th largest score of a head, r counted from 1 *)
Ranked(score) ==
    LET before(j, i) == score[j] > score[i] \/ (score[j] = score[i] /\ j < i)
    IN  [r \in DOMAIN score |-> score[CHOOSE i \in DOMAIN score :
            Cardinality({ j \in DOMAIN score : before(j, i) }) = r - 1]]

(* how many of the `remaining' tokens go to each head: the largest         *)
(* importances of all heads at the ranks behind min_t, in a stable sort    *)
Greedy(imp, l, T, minT, remaining) ==
    LET cands == { <<h, r>> : h \in KVHeads, r \in minT + 1 .. T }
        value(c) == Ranked(imp[<<l, c[1]>>])[c[2]]
        before(c, d) == \/ value(c) > value(d)
                        \/ value(c) = value(d) /\ (c[1] < d[1] \/ (c[1] = d[1] /\ c[2] < d[2]))
        taken == { c \in cands : Cardinality({ d \in cands : before(d, c) }) < remaining }
    IN  [h \in KVHeads |-> Cardinality({ c \in taken : c[1] = h })]

(* The minimum is not charged to the layer's budget *)
AllocateBudget_Overspend(alloc, imp, l, t, T, min) ==
    LET minT == Max({1, Min({min, t})})
        extra == Greedy(imp, l, T, minT, t * Cardinality(KVHeads))
    IN  [h \in KVHeads |-> Min({minT + extra[h], T})]

(* _allocate_budget: every head the same, or min_t each and the rest of    *)
(* the layer's budget where it matters most                                *)
AllocateBudget(alloc, imp, l, t, T, min) ==
    LET minT == Max({1, Min({min, t})})
        extra == Greedy(imp, l, T, minT, (t - minT) * Cardinality(KVHeads))
    IN  IF alloc = "uniform" \/ t >= T THEN [h \in KVHeads |-> t]
        ELSE [h \in KVHeads |-> Min({minT + extra[h], T})]

(* AttentionMatching.__init__ raises for anything else *)
ValidConfig(am) ==
    /\ am.select \in {"highest_attention", "omp"}
    /\ am.alloc \in {"uniform", "sensitivity"}
    /\ 0 <= am.mass[1] /\ am.mass[1] <= am.mass[2]
    /\ 0 <= am.recent[1] /\ am.recent[1] <= am.recent[2]

(* step 1 of _fit_head; a positive mass or recent fraction overrides the   *)
(* configured selection                                                    *)
SelectKeys(am, imp, mass, t, T) ==
    CASE am.mass[1] > 0 \/ am.recent[1] > 0 -> SelectHybrid(imp, mass, t, T, am.recent, am.mass)
      [] am.mass[1] = 0 /\ am.recent[1] = 0 /\ am.select = "omp" -> SelectOmp(t, T)
      [] OTHER -> TopSets(imp, 1 .. T, t)

(* _fit_bias: the logarithm of the mass a kept key stands for *)
FitBias == "fit"

(* _fit_values: the values of the live keys solve for the full output; a   *)
(* key that no reference query attends to gets zero, clipped to the range  *)
(* of the head's values                                                    *)
FitValues(S, live) == [i \in S |-> IF i \in live THEN "fitted" ELSE "clipped"]

(* The weights of a query sum to one, so some key is live.  Bound: all of  *)
(* them, or the last.                                                      *)
LiveKeys(S) == {S, {Max(S)}}

(* _fit_head: verbatim with no bias when nothing is dropped; otherwise the *)
(* selected keys with a fitted bias and value                              *)
FitHead(ctx, am, imp, mass, t) ==
    LET T == LogicalLen(ctx)
    IN  IF t >= T THEN {Keep(ctx, Indices(ctx), ctx.cols, "zero")}
        ELSE UNION { { Keep(ctx, S, FitValues(S, live), FitBias) : live \in LiveKeys(S) } :
                       S \in SelectKeys(am, imp, mass, t, T) }

AttentionMatching(ctx, budget, am, imp, mass) ==
    LET T == LogicalLen(ctx)
        t == Min({TargetT(budget, T), T})
        min == Min({budget.min, T})
        alloc == [l \in Layers |-> AllocateBudget(am.alloc, imp, l, t, T, min)]
        fits == [h \in Heads |-> FitHead(ctx, am, imp[h], mass[h], alloc[h[1]][h[2]])]
    IN  { CompactCache(heads, T, << >>, "attention_matching") :
            heads \in { f \in [Heads -> UNION Range(fits)] : \A h \in Heads : f[h] \in fits[h] } }

-----------------------------------------------------------------------------
(* STILL *)

(* StillPerceiver.forward: every latent is a mixture of the whole context, *)
(* placed evenly over it, rounded down here; the number of latents is the  *)
(* perceiver's own                                                         *)
Perceive(ctx, latents) ==
    [k \in 1 .. latents |->
        Slot(ctx.positions[1] + Linspace(LogicalLen(ctx), latents)[k],
             <<"latent", k, ctx.cols>>, <<"latent", k, ctx.cols>>, "fit")]

NoPerceivers == 0

(* StillCompactor.compact.  Trained perceivers fix the size; untrained     *)
(* ones are built for the budget.  The token ids are kept in meta.         *)
Still(ctx, budget, trained) ==
    LET T == LogicalLen(ctx)
        t == IF trained # NoPerceivers THEN trained ELSE Max({1, Min({TargetT(budget, T), T})})
    IN  CompactCache([h \in Heads |-> Perceive(ctx, t)], T, ctx.toks, "still")

-----------------------------------------------------------------------------
(* Working memory's cache for decoding *)

(* WorkingMemory.combined with both parts present *)
Combined(mem, recent, total) ==
    CompactCache([h \in Heads |-> mem.heads[h] \o SlotsOf(recent, h)], total, << >>,
                 "working_memory")
=============================================================================
