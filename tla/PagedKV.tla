------------------------------- MODULE PagedKV -------------------------------
(***************************************************************************)
(* How vllm_connector.py moves KV between vLLM's paged memory and the      *)
(* store: gathered from the blocks of the request that computed it, kept   *)
(* as a plain cache under the hash of its tokens, packed into blocks again *)
(* and scattered into those of the request that asks for it.  A row stands *)
(* for one token in all layers.                                            *)
(***************************************************************************)
EXTENDS Cartridge

Stale == "stale"        \* what a slot holds before anything is written to it

(* _block_ids: the block ids of all groups of a descriptor *)
BlockIds(groups) == FlattenSeq(groups)

(* The paged memory after the engine has computed rows into ids (external) *)
Computed(rows, ids, size) ==
    [b \in Range(ids) |-> [o \in 1 .. size |->
        LET i == (CHOOSE n \in DOMAIN ids : ids[n] = b) - 1 IN
        IF i * size + o <= Len(rows) THEN rows[i * size + o] ELSE Stale]]

(* save_kv_layer: the blocks of the request, in its own order *)
GatherBlocks(mem, ids) == [n \in DOMAIN ids |-> mem[ids[n]]]

(* _save_geometry: length, positions and tokens of the prompt *)
SaveGeometry(toks) == [T |-> Len(toks), positions |-> Arange(0, Len(toks)), toks |-> toks]

(* paged_blocks_to_kvcache drops what lies behind the T tokens *)
PagedBlocksToKVCache(blocks, g) ==
    KVCache(SubSeq(FlattenSeq(blocks), 1, g.T), g.positions, g.toks)

(* prefix_key: the hash of the tokens, with the model's name *)
PrefixKey(toks, model) == <<model, toks>>

(* store_kvcache *)
StoreKVCache(toks, kv, model) == [kind |-> "paged", key |-> PrefixKey(toks, model), kv |-> kv]

(* kvcache_to_paged_blocks *)
KVCacheToPagedBlocks(kv, size) == PackBlocks(kv.cols, size)

(* _load_one: the first blocks go to the ids, as far as either reaches *)
ScatterBlocks(mem, ids, blocks) ==
    LET n == Min({Len(ids), Len(blocks)}) IN
    [b \in DOMAIN mem |->
        IF \E i \in 1 .. n : ids[i] = b
        THEN blocks[CHOOSE i \in 1 .. n : ids[i] = b] ELSE mem[b]]

(* The KV of T tokens as attention reads it through a block table          *)
(* (external)                                                              *)
ReadThrough(mem, ids, T, size) ==
    [i \in 1 .. T |-> mem[ids[(i - 1) \div size + 1]][((i - 1) % size) + 1]]
=============================================================================
