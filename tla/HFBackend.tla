------------------------------ MODULE HFBackend ------------------------------
(***************************************************************************)
(* engine/hf_backend.py: prefill and its increments, reference queries,    *)
(* decoding against a raw or compact cache, and the selective recompute of *)
(* an edited context (with segment/selective.py).  Kernels, devices and    *)
(* dtypes are left out; a native bf16 cache holds the same columns as its  *)
(* decoded form.                                                           *)
(***************************************************************************)
EXTENDS KVTypes, SegmentPlan

-----------------------------------------------------------------------------
(* Raw caches *)

(* prefill: the columns and the recorded positions start at the offset *)
Prefill(toks, offset) ==
    KVCache(Forward(<< >>, toks, offset), Arange(offset, Len(toks)), toks)

(* The delta's positions start over *)
Extend_Restart(ctx, toks) ==
    KVCache(Forward(ctx.cols, toks, 0), Arange(0, LogicalLen(ctx) + Len(toks)), ctx.toks \o toks)

(* extend: the delta forwarded over the cached columns *)
Extend(ctx, toks) ==
    IF toks = << >> THEN ctx
    ELSE KVCache(Forward(ctx.cols, toks, LogicalLen(ctx)),
                 Arange(0, LogicalLen(ctx) + Len(toks)), ctx.toks \o toks)

(* generate_and_extend for the response gen: the prompt, then one          *)
(* generated token after the other, over the same growing cache            *)
GenerateAndExtend(ctx, prompt, gen) ==
    LET start == LogicalLen(ctx)
        afterPrompt == Forward(ctx.cols, prompt, start)
    IN  KVCache(Forward(afterPrompt, gen, start + Len(prompt)),
                Arange(0, start + Len(prompt) + Len(gen)), ctx.toks \o prompt \o gen)

SliceKV(ctx, n) ==
    KVCache(SubSeq(ctx.cols, 1, n), SubSeq(ctx.positions, 1, n), SubSeq(ctx.toks, 1, n))

(* recompute_incremental: the common segment prefix is kept, the rest is   *)
(* forwarded behind it                                                     *)
RecomputeIncremental(ctx, prev, new) ==
    LET prefix == TokensOf(PlanIncremental(prev, new, "exact"), "reuse_exact")
        toks == Tokens(new)
    IN  Extend(SliceKV(ctx, prefix), SubSeq(toks, prefix + 1, Len(toks)))

-----------------------------------------------------------------------------
(* Reference queries *)

Subsample(q, perHead) ==
    IF Len(q) > perHead
    THEN [i \in 1 .. perHead |-> q[Linspace(Len(q), perHead)[i] + 1]]
    ELSE q

(* One chunk for each fixed prompt: the prompt with its greedy             *)
(* continuation, behind the context and a separator                        *)
SelfStudyQueries(toks, continuations) ==
    FlattenSeq([c \in DOMAIN continuations |->
        LET full == toks \o <<Sep>> \o continuations[c]
        IN  Queries(full, Len(toks) + 1, Len(full))])

(* The context once more instead of the second time *)
ReferenceQueries_First(toks, strategy, perHead, continuations) ==
    Subsample(Queries(toks \o <<Sep>> \o toks, 0, Len(toks)), perHead)

ReferenceQueries(toks, strategy, perHead, continuations) ==
    LET T == Len(toks)
        q == CASE strategy = "self" -> Queries(toks, 0, T)
               [] strategy = "repeat_prefill" ->
                    Queries(toks \o <<Sep>> \o toks, T + 1, T + 1 + T)
               [] strategy = "self_study" -> SelfStudyQueries(toks, continuations)
    IN  Subsample(q, perHead)

-----------------------------------------------------------------------------
(* Decoding against a cache *)

PhysicalLen(ctx) ==
    IF ctx.kind = "raw" THEN LogicalLen(ctx) ELSE Max({Len(ctx.heads[h]) : h \in Heads})

Padding == Slot(0, "zeros", "zeros", "neg")

(* _build_cache: every head padded to one physical length, its bias -inf   *)
(* where it is padding                                                     *)
BuildCache(ctx, phys) ==
    [h \in Heads |-> [i \in 1 .. phys |->
        IF i <= Len(SlotsOf(ctx, h)) THEN SlotsOf(ctx, h)[i] ELSE Padding]]

(* the biased eager attention: a query of query head q sees the keys of    *)
(* its kv-head, less the ones whose bias is -inf                           *)
CachedView(ctx, q) ==
    LET slots == BuildCache(ctx, PhysicalLen(ctx))[kv_head_of(q)]
    IN  At(slots, { i \in DOMAIN slots : slots[i].bias # "neg" })

(* New tokens are placed behind the physical cache *)
DecodeLogits_Physical(ctx, input) ==
    [j \in DOMAIN input |->
       [cached |-> [q \in QHeads |-> CachedView(ctx, q)],
        fed |-> [i \in 1 .. j |-> [tok |-> input[i], pos |-> PhysicalLen(ctx) + i - 1]]]]

(* _decode_logits: the j-th row sees the cache and, causally, the fed      *)
(* tokens up to itself, at positions from the logical length on            *)
DecodeLogits(ctx, input) ==
    LET cached == [q \in QHeads |-> CachedView(ctx, q)]
    IN  [j \in DOMAIN input |->
           [cached |-> cached,
            fed |-> [i \in 1 .. j |-> [tok |-> input[i], pos |-> LogicalLen(ctx) + i - 1]]]]

(* _drop_last: the context less its last position, whose token is fed      *)
(* again; raises when the token ids are not known.  A compact cache loses  *)
(* the last slot of each head.                                             *)
DropLast(ctx) ==
    IF ctx.kind = "raw" THEN SliceKV(ctx, LogicalLen(ctx) - 1)
    ELSE [ctx EXCEPT !.heads = [h \in Heads |-> Front(ctx.heads[h])],
                     !.len = @ - 1, !.toks = Front(@)]

HasBoundary(ctx) == ctx.toks # << >>

(* score: the row that predicts each target token *)
Score(ctx, prompt, target) ==
    IF target = << >> THEN << >>
    ELSE IF prompt # << >>
    THEN SubSeq(DecodeLogits(ctx, prompt \o target), Len(prompt), Len(prompt) + Len(target) - 1)
    ELSE SubSeq(DecodeLogits(DropLast(ctx), <<Last(ctx.toks)>> \o target), 1, Len(target))

(* generate: the row each generated token was drawn from.  After an empty  *)
(* prompt the first comes from the boundary token; the others are decoded  *)
(* over the whole context again.                                           *)
GenerateRows(ctx, prompt, gen) ==
    [i \in DOMAIN gen |->
        IF i = 1 /\ prompt = << >>
        THEN Last(DecodeLogits(DropLast(ctx), <<Last(ctx.toks)>>))
        ELSE Last(DecodeLogits(ctx, prompt \o SubSeq(gen, 1, i - 1)))]

(* attention_outputs: the same view without padding or decoding *)
AttentionView(ctx, q) == SlotsOf(ctx, kv_head_of(q))

-----------------------------------------------------------------------------
(* Selective recompute *)

Rephase_Twice(col, delta) == [col EXCEPT !.pos = @ + 2 * delta]

(* rope_rephase_keys: the rotation by delta composes with the phase the    *)
(* cached key has; what the column attended to stays as it was             *)
Rephase(col, delta) == [col EXCEPT !.pos = @ + delta]

IndexSpan(span) == span[1] .. span[2] - 1

(* the positions whose plan item has the given action *)
PositionsOf(plan, action) ==
    UNION { IndexSpan(plan[k].span) : k \in { k \in DOMAIN plan : plan[k].action = action } }

(* _assemble_reused: the new length, with the exact prefix copied, shifted *)
(* segments re-phased and the edited regions taken from `correct'          *)
AssembleReused(ctx, correct, plan, prev) ==
    LET item(p) == CHOOSE k \in DOMAIN plan : p \in IndexSpan(plan[k].span)
        column(p) ==
            LET it == plan[item(p)]
                from == Offset(prev, it.prev) + (p - it.span[1]) + 1
            IN  CASE it.action = "reuse_exact" -> ctx.cols[from]
                  [] it.action = "reuse_shifted" -> Rephase(ctx.cols[from], it.shift)
                  [] it.action = "recompute" -> correct.cols[p + 1]
    IN  KVCache([i \in DOMAIN correct.cols |-> column(i - 1)], correct.positions, correct.toks)

CeilFrac(frac, n) == (frac[1] * n + frac[2] - 1) \div frac[2]

(* hkvd_select over the hull of the candidates: the sets it may return.    *)
(* hkvd takes the largest deviations, and what is no candidate deviates by *)
(* -inf; recent and random do not look at the deviations.                  *)
HkvdSelect(hull, candidate, frac, strategy) ==
    LET k == Min({CeilFrac(frac, Cardinality(hull)), Cardinality(hull)})
    IN  CASE strategy = "hkvd" ->
               { S \in kSubset(k, hull) : S \subseteq candidate \/ candidate \subseteq S }
          [] strategy = "recent" -> { { p \in hull : p > Max(hull) - k } }
          [] strategy = "random" -> kSubset(k, hull)

(* blend_kv *)
Blend(reused, correct, idx) ==
    [reused EXCEPT !.cols = [i \in DOMAIN @ |-> IF i - 1 \in idx THEN correct.cols[i] ELSE @[i]]]

(* recompute_selective: the caches it may return *)
RecomputeSelective(ctx, prev, new, frac, strategy) ==
    LET plan == PlanIncremental(prev, new, "selective")
        mandatory == PositionsOf(plan, "recompute")
        candidate == PositionsOf(plan, "reuse_shifted")
        correct == Prefill(Tokens(new), 0)
        reused == AssembleReused(ctx, correct, plan, prev)
        selections == IF candidate = {} THEN {{}}
                      ELSE HkvdSelect(Min(candidate) .. Max(candidate), candidate, frac, strategy)
    IN  { Blend(reused, correct, mandatory \cup S) : S \in selections }
=============================================================================
