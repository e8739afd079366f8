----------------------------- MODULE SessionState -----------------------------
(***************************************************************************)
(* session/state.py: a cache as a file.  A raw cache is stored at the      *)
(* precision of the model or at one the caller asks for; a compact cache   *)
(* is stored in float32.                                                   *)
(*                                                                         *)
(* The numbers of a cache are float32.  One of them stands for all of      *)
(* them, by its bits read as a natural number below Half * Half: Half is   *)
(* 2^16 in the code, and a number of a bfloat16 model is a multiple of it. *)
(***************************************************************************)
EXTENDS KVTypes

CONSTANT Half

ASSUME HalfAssumption == Half \in Nat \ {0} /\ Half % 2 = 0

Precisions == {"auto", "float32", "bfloat16"}

(* What a model of this dtype computes: finite, so below the exponent of   *)
(* infinity                                                                *)
Numbers(dtype) ==
    { u \in 0 .. (Half \div 2) * Half - Half - 1 : dtype = "bfloat16" => u % Half = 0 }

(* _resolve_store_dtype *)
StoreDtype(precision, dtype) == IF precision = "auto" THEN dtype ELSE precision

(* _f32_to_bf16_bits: round to the nearest, ties to even, by adding just   *)
(* below a half plus the lowest bit kept, in uint32                        *)
Bf16Bits(u) ==
    ((u + ((u \div Half) % 2) + Half \div 2 - 1) % (Half * Half)) \div Half

(* _bf16_bits_to_f32 *)
F32OfBf16(bits) == bits * Half

(* _encode and _decode.  A number of a float16 model is stored under that  *)
(* tag only, as it is.                                                     *)
Encode(u, dtype) == IF dtype = "bfloat16" THEN Bf16Bits(u) ELSE u
Decode(bits, dtype) == IF dtype = "bfloat16" THEN F32OfBf16(bits) ELSE bits

-----------------------------------------------------------------------------
(* save_kvcache of a cache whose numbers are like u *)
SaveKVCache(kv, u, precision, dtype) ==
    LET d == StoreDtype(precision, dtype) IN
    [kind |-> "kv", cols |-> kv.cols, positions |-> kv.positions, token_ids |-> kv.toks,
     store_dtype |-> d, number |-> Encode(u, d), was |-> u]

(* load_kvcache *)
LoadKVCache(f) == KVCache(f.cols, f.positions, f.token_ids)
LoadedNumber(f) == Decode(f.number, f.store_dtype)

(* save_compactcache raises unless all heads have the same length.  The    *)
(* positions of the first head are stored for all of them, the token ids   *)
(* are not stored.                                                         *)
SavesCompact(cc) == \A g, h \in Heads : Len(cc.heads[g]) = Len(cc.heads[h])

SaveCompactCache(cc, first) ==
    [kind |-> "compact", layers |-> [h \in Heads |-> cc.heads[h]],
     positions |-> [i \in DOMAIN cc.heads[first] |-> cc.heads[first][i].pos],
     logical_length |-> cc.len, method |-> cc.method]

(* load_compactcache *)
LoadCompactCache(f) ==
    CompactCache([h \in Heads |-> [i \in DOMAIN f.positions |->
                     [f.layers[h][i] EXCEPT !.pos = f.positions[i]]]],
                 f.logical_length, << >>, f.method)
=============================================================================
