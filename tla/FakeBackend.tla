----------------------------- MODULE FakeBackend -----------------------------
(***************************************************************************)
(* engine/fake.py: a deterministic backend whose vectors depend on the     *)
(* token alone, neither on its position nor on what it attends to.         *)
(***************************************************************************)
EXTENDS KVTypes

(* _kv_vec *)
Vector(tok) == Column(tok, 0, << >>)

Prefill(toks, offset) ==
    KVCache([i \in DOMAIN toks |-> Vector(toks[i])], Arange(offset, Len(toks)), toks)

(* Every strategy gives the context's own queries *)
ReferenceQueries(toks, strategy, perHead, continuations) ==
    LET q == [i \in DOMAIN toks |-> [tok |-> toks[i], pos |-> 0]]
    IN  IF Len(q) > perHead
        THEN [i \in 1 .. perHead |-> q[Linspace(Len(q), perHead)[i] + 1]]
        ELSE q

(* extend: prefill of the whole sequence again *)
Extend(ctx, toks) == Prefill(ctx.toks \o toks, 0)

GenerateAndExtend(ctx, prompt, gen) == Extend(ctx, prompt \o gen)

(* attention_outputs *)
AttentionView(ctx, q) == SlotsOf(ctx, kv_head_of(q))

(* generate: tokens hashed from what the last prompt token (token 0 for an *)
(* empty prompt, here Sep) attends to; not a language model                *)
Generate(ctx, prompt, n) ==
    LET last == Last(ReferenceQueries(IF prompt = << >> THEN <<Sep>> ELSE prompt, "self", Len(prompt) + 1, << >>))
    IN  [k \in 1 .. n |-> <<k, last, [q \in QHeads |-> AttentionView(ctx, q)]>>]

(* score: a constant for every target *)
Score(ctx, prompt, target) == [k \in DOMAIN target |-> "uniform"]
=============================================================================
