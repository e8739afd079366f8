----------------------------- MODULE VLLMBackend -----------------------------
(***************************************************************************)
(* engine/vllm_backend.py: prefill and reference queries captured by hooks *)
(* on vLLM's attention modules.  The engine runs every prompt from         *)
(* position 0 in one pass (an external assumption the capture relies on).  *)
(* Decoding against an injected cache needs a site-specific attention      *)
(* backend that this repository does not provide; what is submitted to it  *)
(* is modelled, what it computes is not.                                   *)
(***************************************************************************)
EXTENDS KVTypes

(* _capture_qkv: what the hooks of one prefill pass leave behind *)
CaptureQKV(toks) == [q |-> Queries(toks, 0, Len(toks)), kv |-> Forward(<< >>, toks, 0)]

(* prefill: an offset only relabels the positions it records *)
Prefill(toks, offset) == KVCache(CaptureQKV(toks).kv, Arange(offset, Len(toks)), toks)

Subsample(q, perHead) ==
    IF Len(q) > perHead
    THEN [i \in 1 .. perHead |-> q[Linspace(Len(q), perHead)[i] + 1]]
    ELSE q

SelfStudyQueries(toks, continuations) ==
    FlattenSeq([c \in DOMAIN continuations |->
        LET full == toks \o <<Sep>> \o continuations[c]
        IN  SubSeq(CaptureQKV(full).q, Len(toks) + 2, Len(full))])

ReferenceQueries(toks, strategy, perHead, continuations) ==
    LET T == Len(toks)
        q == CASE strategy = "self" -> CaptureQKV(toks).q
               [] strategy = "repeat_prefill" ->
                    SubSeq(CaptureQKV(toks \o <<Sep>> \o toks).q, T + 2, T + 1 + T)
               [] strategy = "self_study" -> SelfStudyQueries(toks, continuations)
    IN  Subsample(q, perHead)

(* _register_beta_attention raises unless a site supplies its attention     *)
(* backend                                                                  *)
RegisterBetaAttention(siteShim) == siteShim

(* enable_compact_decode, once *)
EnableCompactDecode(ready, siteShim) == ready \/ RegisterBetaAttention(siteShim)

(* _require_compact_decode raises while the flag is not set *)
RequireCompactDecode(ready) == ready

Boundary(ctx) == IF ctx.toks = << >> THEN Sep ELSE Last(ctx.toks)

(* _decode_with_injected_cache: the request over the injected sequence, a   *)
(* boundary token in place of an empty prompt                               *)
DecodeRequest(ctx, prompt) ==
    [ids |-> IF prompt = << >> THEN <<Boundary(ctx)>> ELSE prompt, start |-> LogicalLen(ctx)]

(* _score_with_injected_cache: the ids submitted and the index, from 0, of  *)
(* the first target among them                                              *)
ScoreRequest(ctx, prompt, target) ==
    IF prompt = << >>
    THEN [ids |-> <<Boundary(ctx)>> \o target, first |-> 1, start |-> LogicalLen(ctx)]
    ELSE [ids |-> prompt \o target, first |-> Len(prompt), start |-> LogicalLen(ctx)]

Error == [kind |-> "error"]

(* generate *)
Generate(ready, ctx, prompt) ==
    IF ~RequireCompactDecode(ready) THEN Error
    ELSE [kind |-> "request", target |-> << >>, request |-> DecodeRequest(ctx, prompt)]

(* score: nothing is needed for an empty target *)
Score(ready, ctx, prompt, target) ==
    CASE target = << >> -> [kind |-> "rows", prompt |-> prompt, fed |-> target, rows |-> << >>]
      [] target # << >> /\ ~RequireCompactDecode(ready) -> Error
      [] OTHER -> [kind |-> "request", target |-> target,
                   request |-> ScoreRequest(ctx, prompt, target)]

(* attention_outputs *)
AttentionView(ctx, q) == SlotsOf(ctx, kv_head_of(q))
=============================================================================
