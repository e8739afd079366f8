------------------------------- MODULE KVTypes -------------------------------
(***************************************************************************)
(* The data model of core/types.py and the promises of engine/base.py.     *)
(*                                                                         *)
(* A column is the key and value one token left in a layer: it depends on  *)
(* the token, on the position its RoPE phase was computed at and on the    *)
(* columns it attended to.  A raw cache (KVCache) is a sequence of columns *)
(* with positions and token ids recorded beside them; a compact cache      *)
(* (CompactCache) keeps slots of its own for each layer and kv-head.  What *)
(* a query sees stands for the logits it gets, because those are a         *)
(* function of it.  Positions are the code's, counted from 0; sequences    *)
(* start at 1.                                                             *)
(***************************************************************************)
EXTENDS Integers, SequencesExt

CONSTANTS
    Layers,         \* layer indices, 0 .. n_layers - 1
    KVHeads,        \* kv-head indices, 0 .. n_kv_heads - 1
    GroupSize,      \* query heads per kv-head (GQA)
    Sep             \* the separator token of _sep_token

ASSUME SpecAssumption ==
    /\ \E n \in 1 .. Cardinality(Layers) : Layers = 0 .. n - 1
    /\ GroupSize \in Nat \ {0}
    /\ \E n \in 1 .. Cardinality(KVHeads) : KVHeads = 0 .. n - 1

Heads == Layers \X KVHeads
QHeads == Layers \X (0 .. GroupSize * Cardinality(KVHeads) - 1)

(* ModelSpec.kv_head_of, with the layer carried along *)
kv_head_of(q) == <<q[1], q[2] \div GroupSize>>

Column(tok, pos, past) == [tok |-> tok, pos |-> pos, past |-> past]

(* The columns of toks forwarded after the columns `past', from position   *)
(* start on: causal attention over everything before                       *)
Forward(past, toks, start) ==
    LET cols[i \in 0 .. Len(toks)] ==
            IF i = 0 THEN past ELSE Append(cols[i-1], Column(toks[i], start + i - 1, cols[i-1]))
    IN  cols[Len(toks)]

Arange(lo, n) == [i \in 1 .. n |-> lo + i - 1]

KVCache(cols, positions, toks) ==
    [kind |-> "raw", cols |-> cols, positions |-> positions, toks |-> toks]

CompactCache(heads, len, toks, method) ==
    [kind |-> "compact", heads |-> heads, len |-> len, toks |-> toks, method |-> method]

(* seq_len of a raw cache, logical_length of a compact one *)
LogicalLen(ctx) == IF ctx.kind = "raw" THEN Len(ctx.positions) ELSE ctx.len

Slot(pos, key, val, bias) == [pos |-> pos, key |-> key, val |-> val, bias |-> bias]

(* the slots of one head; a raw cache has no biases *)
SlotsOf(ctx, h) ==
    IF ctx.kind = "raw"
    THEN [i \in DOMAIN ctx.cols |-> Slot(ctx.positions[i], ctx.cols[i], ctx.cols[i], "zero")]
    ELSE ctx.heads[h]

(* CompactLayer.budget *)
LayerBudget(ctx, l) == MapThenSumSet(LAMBDA h : Len(ctx.heads[<<l, h>>]), KVHeads)

(* The elements of s at the indices of S, in order: s[np.sort(idx)], or    *)
(* s[mask]                                                                 *)
Nth(S, k) == CHOOSE i \in S : Cardinality({ j \in S : j <= i }) = k
At(s, S) == [k \in 1 .. Cardinality(S) |-> s[Nth(S, k)]]

(* np.linspace(0, n - 1, k).astype(int) *)
Linspace(n, k) == [i \in 1 .. k |-> IF k = 1 THEN 0 ELSE ((i - 1) * (n - 1)) \div (k - 1)]

(* The query at each position of full, after RoPE, cut to lo .. hi - 1 *)
Queries(full, lo, hi) == [i \in 1 .. hi - lo |-> [tok |-> full[lo + i], pos |-> lo + i - 1]]
=============================================================================
