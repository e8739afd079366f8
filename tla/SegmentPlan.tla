---------------------------- MODULE SegmentPlan ----------------------------
(***************************************************************************)
(* dexa.segment.plan: which KV of a previous segmentation a new one may    *)
(* re-use.                                                                 *)
(*                                                                         *)
(* A segment is the sequence of its tokens: content_id is a hash of the    *)
(* length and the tokens, taken to be injective.  Names and roles are      *)
(* advisory and do not enter a plan.  Indices start at 1, token spans are  *)
(* half-open and start at 0 as in the code.                                *)
(***************************************************************************)
EXTENDS Integers, SequencesExt

Tokens(ctx) == FlattenSeq(ctx)

(* offsets()[i], the absolute start of segment i *)
Offset(ctx, i) == Len(Tokens(SubSeq(ctx, 1, i - 1)))

(* leading segments identical in content and order *)
CommonPrefixLen(prev, new) ==
    Max({ n \in 0 .. Min({Len(prev), Len(new)}) :
             \A i \in 1 .. n : prev[i] = new[i] })

Item(action, seg, start, prevIndex, shift) ==
    [action |-> action, segment |-> seg,
     span |-> <<start, start + Len(seg)>>, prev |-> prevIndex, shift |-> shift]

NoMatch == 0

(* the pool is consulted but not popped *)
Match_NoPop(prev, new, i, plan) ==
    LET same == { j \in 1 .. Len(prev) : /\ j > CommonPrefixLen(prev, new)
                                         /\ prev[j] = new[i] }
    IN  IF same = {} THEN NoMatch ELSE Min(same)

(* shifted_pool[content_id].pop(0): the first previous segment behind the  *)
(* common prefix with this content that no earlier item has taken          *)
Match(prev, new, i, plan) ==
    LET pool == { j \in 1 .. Len(prev) : /\ j > CommonPrefixLen(prev, new)
                                         /\ prev[j] = new[i]
                                         /\ \A k \in DOMAIN plan : plan[k].prev # j }
    IN  IF pool = {} THEN NoMatch ELSE Min(pool)

(* the decision for segment i, given the items decided so far *)
PlanItem(prev, new, mode, i, plan) ==
    LET start == Offset(new, i)
        m == IF mode = "selective" THEN Match(prev, new, i, plan) ELSE NoMatch
    IN  IF i <= CommonPrefixLen(prev, new)
        THEN Item("reuse_exact", new[i], start, i, 0)
        ELSE IF m # NoMatch
        THEN Item("reuse_shifted", new[i], start, m, start - Offset(prev, m))
        ELSE Item("recompute", new[i], start, NoMatch, 0)

(* plan_incremental with a previous context: the loop over new.segments *)
PlanIncremental(prev, new, mode) ==
    LET plan[i \in 0 .. Len(new)] ==
            IF i = 0 THEN << >>
            ELSE Append(plan[i - 1], PlanItem(prev, new, mode, i, plan[i - 1]))
    IN  plan[Len(new)]

(* tokens of the items with the given action *)
TokensOf(plan, action) ==
    Len(Tokens([i \in DOMAIN plan |->
                   IF plan[i].action = action THEN plan[i].segment ELSE << >>]))

MergeRange(merged, r) ==
    IF merged # << >> /\ r[1] <= Last(merged)[2]
    THEN [merged EXCEPT ![Len(merged)] = <<@[1], Max({@[2], r[2]})>>]
    ELSE Append(merged, r)

(* the spans of a plan are already in order, so sorted() changes nothing *)
RecomputeRanges(plan) ==
    LET merged[i \in 0 .. Len(plan)] ==
            IF i = 0 THEN << >>
            ELSE IF plan[i].action = "recompute" THEN MergeRange(merged[i - 1], plan[i].span)
            ELSE merged[i - 1]
    IN  merged[Len(plan)]

(* savings()["recomputed_tokens_exact"] *)
RecomputedExact(plan, new) == Len(Tokens(new)) - TokensOf(plan, "reuse_exact")
=============================================================================
