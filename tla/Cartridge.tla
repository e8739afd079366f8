------------------------------ MODULE Cartridge ------------------------------
(***************************************************************************)
(* cartridge/compiler.py, cartridge/artifact.py and                        *)
(* engine/vllm_cartridge.py: a compact cache trained for a corpus, its     *)
(* file, and the paged prefix built from it.  Training changes the         *)
(* numbers in the kept keys and values, not which columns they stand for;  *)
(* a trained slot is therefore marked, not recomputed.                     *)
(***************************************************************************)
EXTENDS KVTypes

CONSTANT BlockSize      \* the engine's cache_config.block_size

ASSUME BlockSizeAssumption == BlockSize \in Nat \ {0}

CartridgeOf(keys, positions, len, toks, model) ==
    [keys |-> keys, positions |-> positions, len |-> len, toks |-> toks, model |-> model]

CartridgeT(c) == Len(c.positions)

-----------------------------------------------------------------------------
(* Compiling *)

(* the indices of the warm start, linspace(0, T - 1, t) *)
WarmStart(full, t) == [i \in 1 .. t |-> Linspace(LogicalLen(full), t)[i] + 1]

(* _truncate_at: up to the first newline *)
TruncateAt(toks, stop) ==
    IF stop \in Range(toks)
    THEN SubSeq(toks, 1, Min({ i \in DOMAIN toks : toks[i] = stop }) - 1)
    ELSE toks

(* _selfstudy_qa: a chunk gives an item when the question has two tokens   *)
(* and the answer one, both cut at a newline.  chats is what the teacher   *)
(* generates, a question and an answer for each chunk.                     *)
SelfStudyQA(chats, lead, newline) ==
    LET q(c) == TruncateAt(c.question, newline)
        a(c) == TruncateAt(c.answer, newline)
        kept == At(chats, { c \in DOMAIN chats : Len(q(chats[c])) >= 2 /\ Len(a(chats[c])) >= 1 })
    IN  [i \in DOMAIN kept |->
            [query |-> q(kept[i]) \o lead \o a(kept[i]), span |-> Len(a(kept[i]))]]

(* _selfstudy_corpus_span: distinct spans of the corpus, of two tokens or  *)
(* more                                                                    *)
SelfStudySpans(toks, n, spanLen) ==
    LET T == Len(toks)
        starts == Range(Linspace(Max({0, T - spanLen}) + 1, Max({1, n})))
        spans == { SubSeq(toks, s + 1, Min({s + spanLen, T})) : s \in starts }
    IN  SetToSeq({ [query |-> q, span |-> Len(q)] : q \in { q \in spans : Len(q) >= 2 } })

(* _student_logits: the query's positions start at the corpus length *)
StudentPositions(T, t, item) == Arange(T, Len(item.query))

(* compile: fails without an item; otherwise the warm start, trained for   *)
(* `steps' rounds over the items                                           *)
Compile(full, t0, steps, items, model) ==
    LET T == LogicalLen(full)
        t == Min({t0, T})
        idx == WarmStart(full, t)
        slot(i) == [col |-> full.cols[idx[i]], trained |-> steps > 0]
    IN  CartridgeOf([h \in Heads |-> [i \in 1 .. t |-> slot(i)]],
                    [i \in 1 .. t |-> full.positions[idx[i]]], T, << >>, model)

CompileFails(items) == items = << >>

-----------------------------------------------------------------------------
(* The artifact *)

(* to_compact_cache: one position vector for every head, no bias *)
ToCompactCache(c) ==
    CompactCache([h \in Heads |-> [i \in 1 .. CartridgeT(c) |->
                    Slot(c.positions[i], c.keys[h][i].col, c.keys[h][i], "zero")]],
                 c.len, c.toks, "cartridge")

(* from_compact_cache raises unless every head has the same length *)
Uniform(cc) == \A g, h \in Heads : Len(cc.heads[g]) = Len(cc.heads[h])

(* layers[0], kv-head 0 *)
FirstHead == <<Min(Layers), 0>>

(* from_compact_cache: the positions of the first head stand for all of    *)
(* them; the biases are not stored                                         *)
FromCompactCache(cc, model) ==
    CartridgeOf([h \in Heads |-> [i \in DOMAIN cc.heads[h] |->
                    [col |-> cc.heads[h][i].key, trained |-> FALSE]]],
                [i \in DOMAIN cc.heads[FirstHead] |-> cc.heads[FirstHead][i].pos],
                cc.len, cc.toks, model)

(* save: the path written to and returned always ends in .npz; a path is   *)
(* the sequence of its suffixes                                            *)
SavePath(path) == IF path # << >> /\ Last(path) = "npz" THEN path ELSE Append(path, "npz")

Save(files, path, c) == [p \in DOMAIN files \cup {SavePath(path)} |->
                            IF p = SavePath(path) THEN c ELSE files[p]]

(* load reads the path it is given, without adding a suffix *)
CanLoad(files, path) == path \in DOMAIN files

-----------------------------------------------------------------------------
(* Serving *)

(* assert_cartridge_matches_spec: the shape of the keys and the number of  *)
(* positions                                                               *)
MatchesSpec(c) ==
    /\ DOMAIN c.keys = Heads
    /\ \A h \in Heads : Len(c.keys[h]) = Len(c.positions)

(* _cartridge_handle *)
Handle(c) == <<c.model, c.len, CartridgeT(c)>>

(* load_cartridge *)
Register(registry, c) == [x \in DOMAIN registry \cup {Handle(c)} |->
                            IF x = Handle(c) THEN c ELSE registry[x]]

(* cartridge_to_token_major, then indexed by slot, layer and kv-head *)
TokenMajor(c) == [i \in 1 .. CartridgeT(c) |-> [h \in Heads |-> c.keys[h][i]]]

ZeroSlot == "zeros"

(* pack_token_major_into_blocks: slot i lies in block i \div size at       *)
(* offset i % size; the last block is padded with zeros                    *)
PackBlocks(rows, size) ==
    [b \in 1 .. (Len(rows) + size - 1) \div size |-> [o \in 1 .. size |->
        IF (b - 1) * size + o <= Len(rows) THEN rows[(b - 1) * size + o] ELSE ZeroSlot]]

(* The query follows the compact keys instead of the corpus *)
QueryPositions_Compact(c, n) == Arange(CartridgeT(c), n)

(* query_positions *)
QueryPositions(c, n) == Arange(c.len, n)

(* _PagedPrefixWriter.  Its attach_to_runner raises until a site supplies  *)
(* the copy into its vLLM release.                                         *)
PagedPrefixWriter(blocks, positions, len) ==
    [blocks |-> blocks, positions |-> positions, len |-> len]

(* _inject_prefix *)
InjectPrefix(c) == PagedPrefixWriter(PackBlocks(TokenMajor(c), BlockSize), c.positions, c.len)

(* _score_on_engine returns at once for an empty target *)
NeedsEngine(target) == target # << >>
=============================================================================
