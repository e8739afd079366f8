------------------------------- MODULE Engine -------------------------------
(***************************************************************************)
(* One caller of a model backend (engine/base.py): it prefills a context   *)
(* of segments, grows or edits it, compacts it or turns it into a          *)
(* cartridge, and decodes against whatever cache it has.  `backend' is the *)
(* implementation the caller was given; an operation it does not implement *)
(* raises, and the caller sees the error.  The result of a read is in      *)
(* `out' until the caller has it.  The caller holds one cache or one       *)
(* cartridge at a time, a bound on the state space alone: no operation     *)
(* reads two.                                                              *)
(***************************************************************************)
EXTENDS StillTraining, PagedKV, SessionState

HF == INSTANCE HFBackend
VL == INSTANCE VLLMBackend
FK == INSTANCE FakeBackend

CONSTANTS
    Backends,           \* a subset of {"hf", "vllm", "fake"}
    TokenIds,           \* the vocabulary
    Segments,           \* the segments a context is put together from
    MaxLen,             \* bound: tokens in a context
    Prompts,            \* prompts of decode calls, the empty one included
    Responses,          \* what the model may generate
    Corpora,            \* bound: token sequences that are compacted or compiled
    Budgets,            \* CompactionBudget
    AMConfigs,          \* settings of AttentionMatching
    RecentFracs,        \* recent_frac of heavy_hitter and snapkv
    SelectFracs,        \* recompute_frac of recompute_selective
    Latents,            \* sizes of trained perceivers, and NoPerceivers
    Chats,              \* what the teacher answers in self-study
    Paths,              \* paths a cartridge is saved to and loaded from
    Newline,            \* the token _truncate_at stops at
    Dtypes,             \* ModelSpec.dtype of the models considered
    BlockTables         \* the blocks vLLM may give a request, by group

(* Token ids come in sequences, a fraction is at most one, a head keeps a   *)
(* token at least (min_tokens is 1 by default), and a block of vLLM's pool  *)
(* belongs to one place of one request                                      *)
ASSUME EngineAssumption ==
    /\ Backends \subseteq {"hf", "vllm", "fake"}
    /\ Segments \cup Prompts \cup Responses \subseteq Seq(TokenIds)
    /\ Latents \subseteq Nat
    /\ Budgets \subseteq [ratio : Nat, tokens : Nat, min : Nat \ {0}]
    /\ \A f \in RecentFracs : f[1] \in Nat /\ f[2] \in Nat \ {0} /\ f[1] <= f[2]
    /\ \A am \in AMConfigs : \A f \in {am.mass, am.recent} : f[1] \in Int /\ f[2] \in Nat \ {0}
    /\ Chats \subseteq Seq([question : Seq(TokenIds), answer : Seq(TokenIds)])
    /\ \A t \in BlockTables :
         /\ t \in Seq(Seq(Nat))
         /\ \A i, j \in DOMAIN BlockIds(t) : BlockIds(t)[i] = BlockIds(t)[j] => i = j

VARIABLES
    backend,
    ctx,        \* the cache the caller holds
    orig,       \* the raw cache the compact one was made of
    asked,      \* the budget it was compacted to
    segs,       \* the segmentation of a raw cache
    genuine,    \* after recompute_selective: positions not left to re-use
    cart,       \* the cartridge the caller holds
    files,      \* saved cartridges
    moved,      \* the session on its way to another process, or Arrived
    registry,   \* CartridgeServer._cartridges
    ready,      \* VLLMBackend._COMPACT_DECODE_READY
    out         \* the result of the last read

vars == <<backend, ctx, orig, asked, segs, genuine, cart, files, moved, registry, ready, out>>

None == [kind |-> "none"]
Error == [kind |-> "error"]
Arrived == [kind |-> "arrived"]  \* the compact cache came from a file
Exact == {-1}           \* the context was not recomputed selectively

Segmentations ==
    { sg \in SeqOf(Segments, 3) : sg # << >> /\ Len(HF!Tokens(sg)) \in 1 .. MaxLen }

Init ==
    /\ backend \in Backends
    /\ ctx = None /\ orig = None /\ asked = None /\ segs = << >> /\ genuine = Exact
    /\ cart = None /\ files = << >> /\ registry = << >> /\ ready = FALSE /\ out = None
    /\ moved = None

(* Between two calls; the model's calls are synchronous *)
Idle == out = None

Raw == Idle /\ ctx.kind = "raw"
Compacted == Idle /\ ctx.kind = "compact"

Unsupported ==
    /\ out' = Error
    /\ UNCHANGED <<backend, moved, ctx, orig, asked, segs, genuine, cart, files, registry, ready>>

PrefillOf(b, toks, offset) ==
    CASE b = "hf" -> HF!Prefill(toks, offset)
      [] b = "vllm" -> VL!Prefill(toks, offset)
      [] b = "fake" -> FK!Prefill(toks, offset)

-----------------------------------------------------------------------------
(* Raw contexts *)

Start(sg) ==
    /\ Idle /\ ctx = None /\ cart = None /\ files = << >> /\ moved = None
    /\ ctx' = PrefillOf(backend, HF!Tokens(sg), 0)
    /\ segs' = sg
    /\ UNCHANGED <<backend, orig, asked, genuine, cart, files, moved, registry, ready, out>>

(* an empty delta adds no segment *)
Grown(sg, delta) == IF delta = << >> THEN sg ELSE Append(sg, delta)

(* the base class, which VLLMBackend does not override, raises *)
ExtendContext(delta) ==
    /\ Raw
    /\ LogicalLen(ctx) + Len(delta) <= MaxLen
    /\ \/ /\ backend = "hf"
          /\ ctx' = HF!Extend(ctx, delta)
          /\ segs' = Grown(segs, delta)
          /\ UNCHANGED <<backend, orig, asked, genuine, cart, files, moved, registry, ready, out>>
       \/ /\ backend = "fake"
          /\ ctx' = FK!Extend(ctx, delta)
          /\ segs' = Grown(segs, delta)
          /\ UNCHANGED <<backend, orig, asked, genuine, cart, files, moved, registry, ready, out>>
       \/ backend = "vllm" /\ Unsupported

GenerateAndExtend(prompt, gen) ==
    /\ Raw
    /\ prompt # << >>
    /\ LogicalLen(ctx) + Len(prompt) + Len(gen) <= MaxLen
    /\ \/ /\ backend = "hf"
          /\ ctx' = HF!GenerateAndExtend(ctx, prompt, gen)
          /\ segs' = Append(segs, prompt \o gen)
          /\ UNCHANGED <<backend, orig, asked, genuine, cart, files, moved, registry, ready, out>>
       \/ /\ backend = "fake"
          /\ ctx' = FK!GenerateAndExtend(ctx, prompt, gen)
          /\ segs' = Append(segs, prompt \o gen)
          /\ UNCHANGED <<backend, orig, asked, genuine, cart, files, moved, registry, ready, out>>
       \/ backend = "vllm" /\ Unsupported

(* recompute_incremental and recompute_selective belong to HFBackend alone *)
RecomputeIncremental(new) ==
    /\ Raw /\ backend = "hf"
    /\ genuine = Exact
    /\ ctx' = HF!RecomputeIncremental(ctx, segs, new)
    /\ segs' = new
    /\ UNCHANGED <<backend, orig, asked, genuine, cart, files, moved, registry, ready, out>>

(* bound: a context is recomputed selectively once *)
RecomputeSelective(new, frac, strategy) ==
    /\ Raw /\ backend = "hf"
    /\ genuine = Exact
    /\ ctx' \in HF!RecomputeSelective(ctx, segs, new, frac, strategy)
    /\ segs' = new
    /\ genuine' = LET plan == HF!PlanIncremental(segs, new, "selective")
                  IN  HF!PositionsOf(plan, "reuse_exact") \cup HF!PositionsOf(plan, "recompute")
    /\ UNCHANGED <<backend, orig, asked, cart, files, moved, registry, ready, out>>

-----------------------------------------------------------------------------
(* Compaction *)

(* score functions over n indices: rising, falling, flat, a peak inside *)
Rankings(n) ==
    { [i \in 1 .. n |-> i], [i \in 1 .. n |-> n - i], [i \in 1 .. n |-> 0],
      [i \in 1 .. n |-> IF i = 2 THEN 5 ELSE i] }

Scores == [Heads -> Rankings(LogicalLen(ctx))]

(* bound: two mass orders, the same for every head *)
Masses == { [h \in Heads |-> [i \in Indices(ctx) |-> i % 3]],
            [h \in Heads |-> [i \in Indices(ctx) |-> -i]] }

(* build(name).compact over a raw cache; the caller supplies reference     *)
(* queries to the methods that need them                                   *)
Compacts(budget) ==
    FullKV(ctx)
    \cup RecentWindow(ctx, budget)
    \cup RandomSubset(ctx, budget)
    \cup (UNION { HeavyHitter(ctx, budget, f, mass) : f \in RecentFracs, mass \in Scores })
    \cup (UNION { SnapKVLite(ctx, budget, f, mass) : f \in RecentFracs, mass \in Scores })
    \cup (UNION { AttentionMatching(ctx, budget, am, imp, mass) :
                    am \in { am \in AMConfigs : ValidConfig(am) }, imp \in Scores, mass \in Masses })
    \cup { Still(ctx, budget, n) : n \in Latents }

Compact(budget) ==
    /\ Raw /\ genuine = Exact /\ ctx.toks \in Corpora
    /\ ctx' \in Compacts(budget)
    /\ orig' = ctx /\ asked' = budget
    /\ segs' = << >>
    /\ UNCHANGED <<backend, genuine, cart, files, moved, registry, ready, out>>

(* build_perceivers and train, with a sample for each of the answers to    *)
(* the context.  Training reads its own prefill of the context and leaves  *)
(* the caller's cache alone.                                               *)
TrainStill(n, answers, steps) ==
    /\ Raw /\ backend = "hf" /\ genuine = Exact /\ ctx.toks \in Corpora
    /\ LET samples == [i \in DOMAIN answers |-> [context |-> ctx.toks, answer |-> answers[i]]]
           trained == Train(BuildPerceivers(n), samples, steps)
       IN  out' = IF ~CanBuild(n) \/ TrainFails(samples, steps) THEN Error
                  ELSE [kind |-> "distilled", history |-> trained.history,
                        perceivers |-> trained.perceivers]
    /\ UNCHANGED <<backend, moved, ctx, orig, asked, segs, genuine, cart, files, registry, ready>>

(* WorkingMemory: tokens that follow a compacted prefix are prefilled on   *)
(* their own at its length, and the two caches are decoded as one          *)
Fuse(toks) ==
    /\ Compacted
    /\ ctx.method # "working_memory"
    /\ toks # << >> /\ ctx.len + Len(toks) <= MaxLen
    /\ ctx' = Combined(ctx, PrefillOf(backend, toks, ctx.len), ctx.len + Len(toks))
    /\ UNCHANGED <<backend, orig, asked, segs, genuine, cart, files, moved, registry, ready, out>>

-----------------------------------------------------------------------------
(* Reads *)

Rows(prompt, fed, rows) == [kind |-> "rows", prompt |-> prompt, fed |-> fed, rows |-> rows]

(* HFBackend raises for an empty prompt over a cache whose token ids are   *)
(* not known; VLLMBackend until compact decoding was enabled               *)
Score(prompt, target) ==
    /\ Idle /\ ctx # None
    /\ out' = CASE backend = "hf" ->
                     IF target # << >> /\ prompt = << >> /\ ~ HF!HasBoundary(ctx) THEN Error
                     ELSE Rows(prompt, target, HF!Score(ctx, prompt, target))
                [] backend = "vllm" ->
                     VL!Score(ready, ctx, prompt, target)
                [] backend = "fake" -> [kind |-> "fake", rows |-> FK!Score(ctx, prompt, target)]
    /\ UNCHANGED <<backend, moved, ctx, orig, asked, segs, genuine, cart, files, registry, ready>>

Generate(prompt, gen) ==
    /\ Idle /\ ctx # None
    /\ out' = CASE backend = "hf" ->
                     IF prompt = << >> /\ ~ HF!HasBoundary(ctx) THEN Error
                     ELSE Rows(prompt, gen, HF!GenerateRows(ctx, prompt, gen))
                [] backend = "vllm" ->
                     VL!Generate(ready, ctx, prompt)
                [] backend = "fake" -> [kind |-> "fake", rows |-> FK!Generate(ctx, prompt, Len(gen))]
    /\ UNCHANGED <<backend, moved, ctx, orig, asked, segs, genuine, cart, files, registry, ready>>

(* once for the class; without the site's backend it raises *)
EnableCompactDecode(siteShim) ==
    /\ Idle /\ backend = "vllm" /\ ctx = None /\ cart = None
    /\ ready' = VL!EnableCompactDecode(ready, siteShim)
    /\ out' = IF ready' THEN None ELSE Error
    /\ UNCHANGED <<backend, moved, ctx, orig, asked, segs, genuine, cart, files, registry>>

ReferenceQueries(strategy, perHead) ==
    /\ Raw
    /\ LET toks == ctx.toks
           cont == << <<Sep>>, Head(segs) >>
       IN  out' = [kind |-> "queries", strategy |-> strategy, perHead |-> perHead,
                   q |-> CASE backend = "hf" -> HF!ReferenceQueries(toks, strategy, perHead, cont)
                           [] backend = "vllm" -> VL!ReferenceQueries(toks, strategy, perHead, cont)
                           [] backend = "fake" -> FK!ReferenceQueries(toks, strategy, perHead, cont)]
    /\ UNCHANGED <<backend, moved, ctx, orig, asked, segs, genuine, cart, files, registry, ready>>

-----------------------------------------------------------------------------
(* Cartridges *)

SelfStudy(kind, chats) ==
    CASE kind = "qa" -> SelfStudyQA(chats, <<Newline>>, Newline)
      [] kind = "corpus_span" -> SelfStudySpans(ctx.toks, 2, 8)

(* CartridgeCompiler.compile over the context as the corpus.  The teacher's *)
(* distributions are decoded over the full corpus, the student's over the   *)
(* compact keys.                                                            *)
CompileCartridge(t, steps, kind, chats) ==
    /\ Raw /\ backend = "hf" /\ genuine = Exact /\ ctx.toks \in Corpora
    /\ LET items == SelfStudy(kind, chats)
           teacher(it) == [i \in DOMAIN it.query |->
                             Last(Last(HF!DecodeLogits(ctx, SubSeq(it.query, 1, i))).fed).pos]
       IN  IF CompileFails(items)
           THEN out' = Error /\ UNCHANGED <<ctx, segs, cart, orig>>
           ELSE /\ ctx' = None /\ segs' = << >>
                /\ cart' = Compile(ctx, t, steps, items, "model")
                /\ orig' = ctx
                /\ out' = [kind |-> "trained",
                           teacher |-> [i \in DOMAIN items |-> teacher(items[i])],
                           student |-> [i \in DOMAIN items |->
                                StudentPositions(LogicalLen(ctx), Min({t, LogicalLen(ctx)}), items[i])]]
    /\ UNCHANGED <<backend, moved, asked, genuine, files, registry, ready>>

(* Cartridge.from_compact_cache, as a warm start or an untrained cartridge *)
ConvertToCartridge ==
    /\ Compacted /\ ctx.method \notin {"cartridge", "working_memory"}
    /\ IF Uniform(ctx)
       THEN /\ cart' = FromCompactCache(ctx, "model")
            /\ ctx' = None /\ orig' = None /\ asked' = None /\ out' = out
       ELSE /\ out' = Error
            /\ UNCHANGED <<cart, ctx, orig, asked>>
    /\ UNCHANGED <<backend, moved, segs, genuine, files, registry, ready>>

(* Cartridge.to_compact_cache: the caller decodes over the cartridge *)
UseCartridge ==
    /\ Idle /\ cart # None
    /\ ctx' = ToCompactCache(cart)
    /\ cart' = None
    /\ UNCHANGED <<backend, moved, orig, asked, segs, genuine, files, registry, ready, out>>

SaveCartridge(path) ==
    /\ Idle /\ cart # None
    /\ files' = Save(files, path, cart)
    /\ UNCHANGED <<backend, moved, ctx, orig, asked, segs, genuine, cart, registry, out, ready>>

LoadCartridge(path) ==
    /\ Idle /\ ctx = None
    /\ IF CanLoad(files, path) THEN cart' = files[path] /\ out' = out
                               ELSE cart' = cart /\ out' = Error
    /\ UNCHANGED <<backend, moved, ctx, orig, asked, segs, genuine, files, registry, ready>>

(* CartridgeServer.load_cartridge, then generate or score: the paged       *)
(* prefix the writer is handed                                             *)
ServeCartridge(prompt, target) ==
    /\ Idle /\ cart # None
    /\ IF ~ MatchesSpec(cart) THEN out' = Error /\ registry' = registry
       ELSE /\ registry' = Register(registry, cart)
            /\ out' = IF NeedsEngine(target)
                      THEN [kind |-> "writer", writer |-> InjectPrefix(cart),
                            positions |-> QueryPositions(cart, Len(prompt \o target))]
                      ELSE Rows(prompt, target, << >>)
    /\ UNCHANGED <<backend, moved, ctx, orig, asked, segs, genuine, cart, files, ready>>

-----------------------------------------------------------------------------
(* A session changes its process.  Only one is under way at a time, and    *)
(* the file is gone once it was read: bounds on the state space.           *)

Persisted(f) ==
    /\ Idle /\ moved \in {None, Arrived} /\ cart = None /\ files = << >>
    /\ moved' = f
    /\ ctx' = None
    /\ UNCHANGED <<backend, orig, asked, segs, genuine, cart, files, registry, ready, out>>

PersistRaw(u, precision, dtype) ==
    Raw /\ genuine = Exact /\ Persisted(SaveKVCache(ctx, u, precision, dtype))

PersistCompact ==
    /\ Compacted
    /\ \/ SavesCompact(ctx) /\ Persisted(SaveCompactCache(ctx, FirstHead))
       \/ ~SavesCompact(ctx) /\ Unsupported

(* Numbers that were rounded are those of no prefill, at any position *)
ResumeRaw ==
    /\ Idle /\ moved.kind = "kv"
    /\ ctx' = LoadKVCache(moved)
    /\ genuine' = IF LoadedNumber(moved) = moved.was THEN Exact ELSE {}
    /\ out' = [kind |-> "loaded", file |-> moved]
    /\ moved' = None
    /\ UNCHANGED <<backend, orig, asked, segs, cart, files, registry, ready>>

ResumeCompact ==
    /\ Idle /\ moved.kind = "compact"
    /\ ctx' = LoadCompactCache(moved)
    /\ moved' = Arrived
    /\ UNCHANGED <<backend, orig, asked, segs, genuine, cart, files, registry, ready, out>>

(* vLLM with the connector: the KV a request computed into its blocks is   *)
(* stored, and restored into the blocks of a request for the same tokens   *)
ConnectorSave(groups) ==
    LET ids == BlockIds(groups)
        blocks == GatherBlocks(Computed(ctx.cols, ids, BlockSize), ids) IN
    /\ Raw /\ backend = "vllm" /\ Len(ctx.cols) <= Len(ids) * BlockSize
    /\ Persisted(StoreKVCache(ctx.toks, PagedBlocksToKVCache(blocks, SaveGeometry(ctx.toks)), "model"))

ConnectorLoad(groups) ==
    LET ids == BlockIds(groups)
        toks == HF!Tokens(segs)
        blocks == KVCacheToPagedBlocks(moved.kv, BlockSize)
        mem == ScatterBlocks(Computed(<< >>, ids, BlockSize), ids, blocks) IN
    /\ Idle /\ moved.kind = "paged" /\ moved.key = PrefixKey(toks, "model")
    /\ Len(toks) <= Len(ids) * BlockSize
    /\ ctx' = KVCache(ReadThrough(mem, ids, Len(toks), BlockSize), Arange(0, Len(toks)), toks)
    /\ moved' = None
    /\ UNCHANGED <<backend, orig, asked, segs, genuine, cart, files, registry, ready, out>>

-----------------------------------------------------------------------------
Return ==
    /\ out # None
    /\ out' = None
    /\ UNCHANGED <<backend, moved, ctx, orig, asked, segs, genuine, cart, files, registry, ready>>

Drop ==
    /\ Idle
    /\ ctx' = None /\ orig' = None /\ asked' = None /\ segs' = << >> /\ genuine' = Exact
    /\ cart' = None /\ files' = << >> /\ registry' = << >> /\ moved' = None
    /\ UNCHANGED <<backend, out, ready>>

Next ==
    \/ \E sg \in Segmentations :
         \/ Start(sg)
         \/ RecomputeIncremental(sg)
         \/ \E f \in SelectFracs, st \in {"hkvd", "recent", "random"} : RecomputeSelective(sg, f, st)
    \/ \E s \in Segments \cup {<< >>} : ExtendContext(s) \/ Fuse(s)
    \/ \E p \in Prompts, r \in Responses : GenerateAndExtend(p, r) \/ Score(p, r) \/ Generate(p, r)
    \/ \E st \in {"self", "repeat_prefill", "self_study"}, n \in {2, 3} : ReferenceQueries(st, n)
    \/ \E b \in Budgets : Compact(b)
    \/ \E n \in Latents, steps \in {0, 1}, answers \in SeqOf(Responses \ {<< >>}, 1) :
         TrainStill(n, answers, steps)
    \/ \E t \in {2, 3}, steps \in {0, 1}, k \in {"qa", "corpus_span"}, c \in Chats :
         CompileCartridge(t, steps, k, c)
    \/ ConvertToCartridge \/ UseCartridge
    \/ \E path \in Paths : SaveCartridge(path) \/ LoadCartridge(path)
    \/ \E p \in Prompts, r \in Responses : ServeCartridge(p, r)
    \/ \E shim \in BOOLEAN : EnableCompactDecode(shim)
    \/ \E d \in Dtypes, prec \in Precisions : \E u \in Numbers(d) : PersistRaw(u, prec, d)
    \/ PersistCompact \/ ResumeRaw \/ ResumeCompact
    \/ \E t \in BlockTables : ConnectorSave(t) \/ ConnectorLoad(t)
    \/ Return \/ Drop

Spec == Init /\ [][Next]_vars

-----------------------------------------------------------------------------
(* A raw cache, however it was grown (extend, generate_and_extend,          *)
(* recompute_incremental behind a common segment prefix) and however it was *)
(* moved (a file, or paged blocks in any order with a partial last one), is *)
(* the cache one prefill of all its tokens gives; a cache that was          *)
(* recomputed selectively is excepted.  A file is exact at the precision of *)
(* the model, and holds the nearest number otherwise (state.py, _encode).   *)
RawIsPrefill ==
    /\ ctx.kind = "raw" /\ genuine = Exact
          => /\ ctx = PrefillOf(backend, ctx.toks, 0)
             /\ ctx.toks = HF!Tokens(segs)
    /\ out.kind = "loaded" =>
          LET f == out.file
              n == LoadedNumber(f) IN
          /\ f.store_dtype # "bfloat16" \/ f.was % Half = 0 => n = f.was
          /\ f.store_dtype = "bfloat16" => \A m \in 0 .. Half - 1 :
                 LET far(x) == IF x > f.was THEN x - f.was ELSE f.was - x IN
                 /\ far(n) <= far(m * Half)
                 /\ far(n) = far(m * Half) /\ n # m * Half => (n \div Half) % 2 = 0

(* recompute_selective re-uses, but never misplaces: every column is of its *)
(* token at its position, and outside the shifted segments (the common      *)
(* prefix and the edited regions) it is the one a full prefill gives.  A    *)
(* file of lower precision keeps the places too; the fake backend's vectors *)
(* have none.                                                               *)
BlendKeepsPlaces ==
    ctx.kind = "raw" /\ genuine # Exact =>
        \A i \in DOMAIN ctx.cols :
            /\ ctx.cols[i].tok = ctx.toks[i]
            /\ backend # "fake" => ctx.cols[i].pos = i - 1
            /\ (i - 1) \in genuine => ctx.cols[i] = HF!Prefill(ctx.toks, 0).cols[i]

(* Every row score and generate return is the prediction of that token from *)
(* the whole context: the query of each head sees all slots of its kv-head  *)
(* and no padding, then the fed tokens at the positions that follow the     *)
(* LOGICAL length.  After an empty prompt the last context token is fed     *)
(* again in place of the slot it came from.  A request to vLLM reads each   *)
(* target's score at the index the target was submitted at, behind at least *)
(* one token that predicts it.  The perceivers of STILL are trained on the  *)
(* rows they are used for: the teacher's are those of the cache they read,  *)
(* the student's those of the compact cache made with them.                 *)
DecodeSeesContext ==
  /\ out.kind = "distilled" => \A s \in DOMAIN out.history, b \in Budgets :
        \A i \in DOMAIN out.history[s] :
            LET loss == out.history[s][i] IN
            /\ loss.teacher = HF!DecodeLogits(ctx, loss.answer)
            /\ \A l \in Layers : loss.student =
                 HF!DecodeLogits(Still(ctx, b, out.perceivers[l].latents), loss.answer)
  /\ out.kind = "request" /\ out.target # << >> =>
        /\ out.request.first > 0
        /\ \A k \in DOMAIN out.target : out.request.ids[out.request.first + k] = out.target[k]
  /\ out.kind = "rows" /\ backend = "hf" /\ out.rows # << >> =>
        \A k \in DOMAIN out.rows :
            LET row == out.rows[k]
                again == out.prompt = << >> /\ Len(row.fed) >= 1 /\ row.fed[1].pos = LogicalLen(ctx) - 1
                fed == (IF again THEN <<Last(ctx.toks)>> ELSE << >>)
                       \o out.prompt \o SubSeq(out.fed, 1, k - 1)
                start == LogicalLen(ctx) - (IF again THEN 1 ELSE 0)
            IN  /\ row.fed = [i \in DOMAIN fed |-> [tok |-> fed[i], pos |-> start + i - 1]]
                /\ fed # << >>
                /\ \A q \in QHeads :
                     LET slots == IF ctx.kind = "raw" THEN SlotsOf(ctx, FirstHead)
                                  ELSE ctx.heads[<<q[1], q[2] \div GroupSize>>]
                     IN  row.cached[q] = IF again THEN Front(slots) ELSE slots

(* What reference_queries samples: at most perHead queries, the last one    *)
(* taken included, each the query of the token that stands at its position; *)
(* and under repeat_prefill and self_study every one of them stands behind  *)
(* the context, so that it attends to all of it.                            *)
QueriesLookBack ==
    out.kind = "queries" /\ backend # "fake" =>
        /\ Len(out.q) \in 1 .. out.perHead
        /\ out.strategy # "self_study" => \A i, j \in DOMAIN out.q :
                i < j => out.q[i].pos < out.q[j].pos
        /\ out.strategy = "self" => \A i \in DOMAIN out.q :
                out.q[i].tok = ctx.toks[out.q[i].pos + 1]
        /\ out.strategy # "self" => \A i \in DOMAIN out.q :
                /\ out.q[i].pos > LogicalLen(ctx)
                /\ out.strategy = "repeat_prefill" =>
                     out.q[i].tok = ctx.toks[out.q[i].pos - LogicalLen(ctx)]

(* A compact cache from a file has the positions of its first head in all   *)
(* of them                                                                  *)
Resumed(h) == moved = Arrived /\ h # FirstHead

StrictlyIncreasing(p) == \A i, j \in DOMAIN p : i < j => p[i] < p[j]

(* A selecting compactor (the baselines and attention matching) drops       *)
(* slots and invents none: each slot is a key of the original at its own    *)
(* position, in order; a layer spends the budget it was given whatever the  *)
(* split over its heads, and no head less than the minimum; the recent      *)
(* window is kept; and where nothing is dropped the cache is the original.  *)
SelectionIsFaithful ==
    ctx.kind = "compact" /\ ctx.method \notin {"still", "cartridge", "working_memory"} =>
        LET T == LogicalLen(orig)
            t == IF ctx.method = "full_kv" THEN T ELSE Min({TargetT(asked, T), T})
            kept(h) == { i \in 1 .. T : \E k \in DOMAIN ctx.heads[h] :
                            ctx.heads[h][k].key = orig.cols[i]
                            /\ (ctx.heads[h][k].pos = orig.positions[i] \/ Resumed(h)) }
        IN  /\ ctx.len = T
            /\ \A l \in Layers : LayerBudget(ctx, l) = t * Cardinality(KVHeads)
            /\ \A h \in Heads :
                 /\ (Resumed(h) /\ backend = "fake") \/ Cardinality(kept(h)) = Len(ctx.heads[h])
                 /\ Len(ctx.heads[h]) >= Min({asked.min, T})
                 /\ StrictlyIncreasing([k \in DOMAIN ctx.heads[h] |-> ctx.heads[h][k].pos])
                 /\ Len(ctx.heads[h]) = T => ctx.heads[h] = SlotsOf(orig, h)
                 /\ ctx.method \in {"heavy_hitter", "snapkv"} =>
                      \E f \in RecentFracs : T - Share(f, t) + 1 .. T \subseteq kept(h)

(* The cache working memory decodes over: the compacted prefix, then the    *)
(* recent tokens at their absolute positions (over HFBackend their keys     *)
(* too), so that the next token's position is the number of all tokens.     *)
FusedInOrder ==
    ctx.kind = "compact" /\ ctx.method = "working_memory" /\ asked # None =>
        \A h \in Heads :
            LET slots == ctx.heads[h]
                recent == { k \in DOMAIN slots : slots[k].pos >= LogicalLen(orig) }
            IN  /\ Last(slots).pos = ctx.len - 1
                /\ Cardinality(recent) = ctx.len - LogicalLen(orig)
                /\ \A k \in recent : backend = "hf" => slots[k].key.pos = slots[k].pos

(* What a compacted cache keeps is what the backend computed, where it was *)
(* computed, within the budget; and the fusion with raw KV keeps the order. *)
CompactIsFaithful == SelectionIsFaithful /\ FusedInOrder

(* The student is trained at the positions its teacher was read at, over    *)
(* keys spread from the first to the last token of the corpus; and the      *)
(* paged prefix made of a cartridge holds slot i of every head in block     *)
(* i \div BlockSize at offset i % BlockSize, nothing else, with the query   *)
(* behind the whole corpus.                                                 *)
CartridgeServes ==
    /\ out.kind = "trained" =>
         /\ out.teacher = out.student
         /\ cart.positions[1] = 0 /\ StrictlyIncreasing(cart.positions)
         /\ CartridgeT(cart) > 1 => Last(cart.positions) = LogicalLen(orig) - 1
    /\ out.kind = "writer" =>
         LET w == out.writer
             held == [i \in 0 .. Len(w.blocks) * BlockSize - 1 |->
                        w.blocks[(i \div BlockSize) + 1][(i % BlockSize) + 1]]
         IN  /\ \A i \in DOMAIN held :
                  IF i < CartridgeT(cart)
                  THEN \A h \in Heads : held[i][h] = cart.keys[h][i + 1]
                  ELSE held[i] = ZeroSlot
             /\ CartridgeT(cart) <= Len(w.blocks) * BlockSize
             /\ Len(w.blocks) * BlockSize < CartridgeT(cart) + BlockSize
             /\ \A i \in DOMAIN out.positions : out.positions[i] = cart.len + i - 1
=============================================================================
