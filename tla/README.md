# A TLA+ verification of dexa

dexa keeps the KV caches of language-model sessions: it persists them, moves them between tiers,
compacts them, re-uses them across edits, plugs them into vLLM, and runs a small hosted platform
in front. This directory models the parts of that code that have state or an algorithm of their
own, checks them with TLC, and proves the central facts with TLAPS. Paths are relative to the
repository root.

## Inventory

| Part | State | Operations | What is hard | What makes it correct |
|---|---|---|---|---|
| `src/dexa/serving/session_manager.py` | LRU of resident KV caches | turn, drop, exists | backend and save failures, restarts, several workers on one store | a turn continues the whole acknowledged conversation or raises |
| `src/dexa/session/{store,blob,state}.py` | one file per session and format | save, load, has, delete | in-place writes, two formats, two precisions | a file that can be read is the cache last written, at the precision asked for |
| `src/dexa/engine/vllm_connector.py` | match and load plans of the scheduler side, pending loads and saves of the worker side, the shared store, paged blocks | the `KVConnectorBase_V1` hooks | asynchronous loads, allocation failure, several instances on one store, block arithmetic | what is scattered into a request's blocks is its own prefix; every match is resolved once |
| `src/dexa/segment/*`, `src/dexa/engine/torch_session.py` | segmented context, device KV, committed versions | append, edit, delete, commit, rollback, branch, save, load | incremental reuse, aliasing between versions and branches, partial failure | the KV equals that of a full prefill of the current context |
| `src/dexa/memory/store.py` | entries, tiers, LRU, hash index | put, get, has, evict | cascading demotion, entries larger than a tier | accounting is exact, tiers stay within capacity, drops are LRU |
| `src/dexa/bench/lmcache_baseline.py` | one tiered store | process a request block by block | a request's own puts push its blocks out | a request that fits is served again without recomputing |
| `src/dexa/memory/working_memory.py` | raw window, compact cache, counters, version | append, compact, snapshot, combined | a loop that must end under the budget, backend calls that raise half way | every token is represented once, within budget |
| `src/dexa/engine/{hf_backend,vllm_backend,fake,base}.py` | none beyond the caches they return | prefill, extend, generate, score, recompute, reference queries, compact decode | positions, padding, GQA, truncation, offsets that depend on mode | grown caches are prefills; decoding sees the whole context at logical positions |
| `src/dexa/compaction/*` | none | compact, fuse | ties, minimum budgets, ragged heads | what is kept was there, in order, within the budget |
| `src/dexa/cartridge/*`, `src/dexa/engine/vllm_cartridge.py` | cartridge files, registered prefixes | compile, save, load, pack, serve | partial blocks, the position of the query | every slot in its block and offset, the query behind the whole corpus |
| `dexa_platform/control` | organisations, keys, usage rows | signup, keys, resolver cache, metering | races, TTL caches against revocation, read-modify-write | one account per identity; a revoked key dies within the TTL; usage is not counted twice |
| `dexa_platform/gateway` | exact-match cache, frame meter, two ledgers, prices | proxied completions | check-then-act over an await | a hit answers what was asked; an org that one process serves overdraws by its calls in flight at most; balanced ledgers; bounded prices |
| `dexa_platform/sessions` | session objects, tier decisions | create, turn, delete | handlers interleaving at their await | ordered turns for clients that wait |
| `edge/src` | Durable Object session, KV caches of keys and credits, queue, D1 rollups | turn, key and credit gates, queue consumer | interleaving at await, at-least-once queue | histories never mix; every event is counted |
| `experiments/speculative-tool-exec` | working tree, pending run, orphans, out file | tool loop, batch, resume, grade | stale speculative results, killed processes, torn lines | the model sees what a harness without speculation shows it |
| `bench`, `evals`, `benchmarks`, `scripts`, `serve`, `native` | | measurement, tooling, a byte codec | | not modelled, see below |

How they meet: `SessionManager` calls a model backend and a `SessionStore`; several workers share
one store directory. The vLLM connector keeps the same file format as a store shared by engine
instances. `SegmentedSession` plans with `segment/plan.py`, keeps its KV in a `TorchKVSession` or in
numpy arrays, and saves through `SessionStore`. `WorkingMemory` uses a compactor over a backend; the
LMCache baseline runs on a `TieredCacheStore`. The platform runs in front: the gateway asks the
control plane who a key belongs to, whether it has credit, and writes its usage rows; the edge worker
reads the same database through caches of its own and holds sessions in Durable Objects; the sessions
service is the Python original of the latter.

## Modules

| Module | Models | Actions or operators |
|---|---|---|
| `SessionManager` | `session_manager.py`, `store.py`, the write discipline of `state.py` and `blob.py`; per worker the resident caches and the call in progress, per session and format a file that is missing, whole or torn | `GetResident`, `GetPersisted`/`Load`, `GetNone` (the exits of `_get`), `Generate`, `OpenForSave`, `SaveDone`, `SkipSave`, `Reply`, `Drop`, the `...Raises` variants, `Restart` |
| `SessionState` | what each file format keeps of a raw and a compact cache, with the rounding to bfloat16 | operators |
| `DexaConnector` | the hooks of `vllm_connector.py` with the part of vLLM's scheduler that calls them (external) | one action per hook, in the order of an engine step (`phase`); `LoadOne` is the pool thread |
| `PagedKV` | gathering, trimming, packing and scattering of blocks in the connector | operators |
| `SegmentPlan` | `segment/plan.py`, the plan arithmetic of `segment/model.py` | operators |
| `SegmentedSession` | `segment/session.py`, `torch_session.py`, incremental recompute, blob views | `Create`, `AppendSegment`, `EditSegment`, `DeleteSegment`, `Commit`, `Rollback`, `RollbackRaises`, `Branch`, `Save`, `Load` |
| `TieredCacheStore` | `memory/store.py` | `PutNew`, `PutAgain`, `Get`, `Evict`, and one action per iteration of `_enforce_capacity` |
| `LMCache` | `lmcache_baseline.py` over that store, and other users of it between requests | `Begin`, `LoadBlock`, `ComputeBlock`, `Finish`, `OtherUser`, `StoreStep` |
| `WorkingMemory` | `memory/working_memory.py` | one action per backend call of `append`, `Raise` at each of them, `Snapshot`, `Commit` |
| `KVTypes` | `core/types.py`, `engine/base.py`: a column depends on its token, position and everything before it | operators |
| `HFBackend`, `VLLMBackend`, `FakeBackend` | the three backends over such columns | operators of the same names |
| `Compaction` | `compaction/base.py`, `baselines.py`, `attention_matching.py`, `still/`: the caches each method may return | operators |
| `StillTraining` | `compaction/still/train.py`: the perceivers, what the two sides of the loss are read from, the steps | operators, used by `Engine` |
| `Cartridge` | `cartridge/*`, `vllm_cartridge.py` | operators |
| `Engine` | one caller that prefills, grows, edits, compacts, persists, pages, compiles and decodes, in every order | one action per operation of `engine/base.py` and of the code around it |
| `ControlPlane` | `dexa_platform/control`: sign-up as select and commit, key management as two transactions, the quota, the usage rows | `SignupSelect`, `SignupCommit`, `OrgFromKey`, `CreateKey`, `RevokeKey`, `RotateKey` |
| `Pricing` | `gateway/pricing.py` | operators |
| `Gateway` | `gateway/app.py`, `store.py`, `tenants.py`, `redundancy.py`, `control/resolver.py`; the key and credit gates of `edge/src` | a request is one action per stretch between awaits (`ArriveAccounts`, `ArriveStatic`, `Body`, `BackendAnswers`, `BackendFails`, `Record`; `EdgeKey`, `EdgeKeyPut`, `EdgeCredit`, `EdgeCreditPut`, `EdgeDone`), `GatewayCharges`, `Tick` |
| `Tiering` | `sessions/tiering.py` and its port `edge/src/tiering.ts`, each from its own source | operators |
| `TurnLog` | the promise of `edge/src/session.ts`: a log with a single writer | abstract specification |
| `PlatformSessions` | `sessions/service.py`, `store.py`, `backend.py`, and `edge/src/session.ts`, `index.ts`, `db.ts`; `host` says which | `Create`, `Delete`, `TurnBegin`, `RecordTurn`, `SaveTurn`, `TurnFails`, `Send`, `LoseEvent`, `Deliver`, `Fold`, `Acknowledge`, `BatchFails` |
| `PlainHarness` | a tool loop without speculation | abstract specification |
| `SpeculativeExec` | the tool loop of `live_agent.py`, `live_agent_modal.py` and `replay.py` | launches, hits, misses, kills, the wait for a run, orphans |
| `TaskRunner` | the batch around it | start, resume, chat retries, append of records, crash, grading |

Composition: `Gateway` EXTENDS `ControlPlane` and `Pricing`; its `Next` interleaves the API threads
with the gateway processes and the edge on one database. `LMCache` EXTENDS `TieredCacheStore` and calls its
actions. `TaskRunner` EXTENDS `SpeculativeExec`. `Engine` EXTENDS `StillTraining` (which extends `Compaction`), `PagedKV` (which extends
`Cartridge`) and `SessionState`, and has the three backends as instances `HF`, `VL`, `FK`.
`PlatformSessions` EXTENDS `Tiering`.

Refinements: `PlatformSessions` implements `TurnLog` (`SerialRefines`, with the log read off the stored
exchanges), `SpeculativeExec` implements `PlainHarness` (`SpeculationIsInvisible`), and `LMCache`
implements the specification of the store it uses (theorem `RequestsUseTheStore`).

The `MC...` modules give the instances for TLC, the `..._proofs` modules hold the TLAPS proofs:

| Module | Proves about |
|---|---|
| `SessionManager_proofs` | `SessionManager` |
| `SegmentPlan_proofs` | `SegmentPlan`: plans, offsets, common prefixes; the lemmas on least counterexamples, sequences and folds that the next three use |
| `SegmentedSession_proofs` | `SegmentedSession` |
| `Engine_proofs` | `Engine` and the operators under it: raw caches, files, blocks, selective recompute, reference queries; ranks, sums and budgets |
| `EngineCompact_proofs` | `Engine`: compact caches, cartridges, decoding |
| `Reuse_proofs` | `DexaConnector`; `TieredCacheStore` and `LMCache` |
| `Agent_proofs` | `SpeculativeExec` and `TaskRunner`; `WorkingMemory` |
| `Platform_proofs` | `ControlPlane`, `Gateway` and `Pricing`; `PlatformSessions` and `Tiering` |

The last three speak of two specifications each, one after the other; the names that both would
define carry the part's name (`SessionsSpec`, `StoreSpec`, `platformVars`, `memoryVars`, `tierVars`).

Operators whose name has a suffix after an underscore (`Drop_ResidentOnly`) are faulty variants of
the operator they are named after; each property is known to fail on one of them.

Data is abstracted to what the properties tell apart. In the session modules a KV cache is the set of
turns, or the sequence of tokens, it was computed from. In `Engine` a column is symbolic: equal
columns mean equal KV. Attention scores are functions of heads and indices of which only the order
matters, fits are marks, and where numpy's sort leaves ties open every choice is allowed. Bytes are
numbers; a file is missing, torn, or whole with a content.

## Runs

| Run | Shows | Bounds |
|---|---|---|
| `session_faults` | `NoSilentLoss`: a turn continues the whole acknowledged conversation or raises, when `persist` is on; `NoResurrection` after `drop` and `ResidencyAfterPut` with `persist` on and off | 2 workers, 2 sessions, `keep_resident` 1 so that every other turn evicts, 4 turns, failing backends and saves, a crash at any point |
| `session_crash_in_save` | **violated** `RestorableAnywhere`: a crash inside `save` destroys the only copy of an acknowledged session | as above, crashes only |
| `connector` | a request computes only on restored KV, a load is reported when it is written, only whole genuine prompts are stored, claims are sound, every waiting load completes | three deployments (asynchronous; synchronous with contention and failing allocations; two instances racing on a key), 3 requests over 2 prompts of 5 and 4 tokens, blocks of 2: a partial block and a prompt of whole blocks |
| `connector_alloc_failure` | **violated** `ReportedIsWritten`: after a failed allocation a load with no blocks is planned and reported done | 1 request |
| `segmented` | plans partition the new context and reuse only equal tokens; the KV on the device (`KVExact`) and in every version and file (`SnapshotsExact`) equals a full prefill; reported savings are real | 2 sessions, 2 segments, 2 mutations; a device and a numpy deployment, empty segments, equal tokens under different boundaries |
| `reuse_requests` | `BooksAreExact`, `TiersAreOrdered`, `HotIsInFastestFit`, `DropsOnlyTheOldest` through every cascade; `ServedIsResident` | tiers of 3, 2 and 4 bytes (one smaller than the one above), sizes 1, 2, 3 and 5, 4 slots, 7 uses, two requests sharing their first block |
| `working_memory_faults` | `ContextIsWhole` and `WithinBudget` after every append that returns and no hole even after one that raised; `VersionsIdentify`; `AppendEnds` | budget 3, window 1, 6 tokens in chunks of any size, 2 handles, 4 versions |
| `gateway_accounts` | `OneAccountPerIdentity` under racing sign-ups; `HitIsGenuine`; `BillingIsSound` (no completion counted twice or, within one process, lost; overdraft bounded while one process serves the org; balanced ledger; bounded prices); `RevocationPropagates` | 2 processes, 2 requests, 2 API threads racing for 1 identity, 2 orgs and keys, a credit of 1 against calls of 2, TTL 1; 13 side lengths around every threshold of the price list, whose sizes are scaled down together |
| `platform_sessions` | `StoredIsCoherent`, `SerialRefines`, `OvercountIsBounded`, `EnqueuedIsCounted` | 3 turns on either host, clients that wait and clients that do not, 2 creations, 1 failing batch; idle times on both sides of the break-evens |
| `edge_single_writer` | **violated** `SingleWriter`: overlapping turns of one Durable Object lose an exchange | 2 turns |
| `speculation` | `PendingIsCurrent`, `LaunchesAccounted`, `SpeculationIsInvisible`, `RecordsAreKept`, `BatchEnds` | 3 harnesses, 2 tasks of up to 4 calls, 3 tests one of which is slow and one a new script, 3 process starts, 2 attempts of a model call |
| `engine` | `RawIsPrefill`, `BlendKeepsPlaces`, `DecodeSeesContext`, `QueriesLookBack`, `CompactIsFaithful`, `CartridgeServes` | 3 backends, up to 5 tokens, 2 kv-heads of 2 query heads, blocks of 2, budgets by ratio, by tokens and below the minimum, 4 attention-matching configurations |

The bounds are named constants in the guards (`MaxTurns`, `MaxMutations`, `MaxClock`, `MaxServed`,
`MaxCalls`, ...). They are large enough for the cases the properties are about: an eviction followed
by a reload, a failure followed by a retry, an edit of a re-used segment, a cascade through all tiers,
a second compaction on top of a first, a lost update between two processes, a key that is cached on
both sides of its revocation, a redelivered batch, an orphan that outlives the next launch, a resume
behind a torn line, a last block that is partial. Deadlock checking is off where a bound itself stops
the system (`reuse_requests`, `working_memory_faults`, `gateway_accounts`, both runs of
`PlatformSessions`, `speculation`).

### Fairness

* `LoadsComplete`: an engine keeps stepping (weak fairness of its hooks, which run in vLLM's busy
  loop), the loader pool runs submitted jobs (weak fairness of `LoadOne`), and vLLM's scheduler
  resumes a request whose load was reported (strong fairness: it does so only in its scheduling phase).
* `AppendEnds`: a synchronous Python call keeps running (weak fairness of its own steps).
* `EnqueuedIsCounted`: Cloudflare keeps delivering a queue that has messages and the consumer keeps
  running (weak fairness of `Deliver`, `Fold`, `Acknowledge`); batches that fail are bounded.
* `BatchEnds`: commands under `timeout(1)` and orphans end, the wait for a run polls to its limit,
  model calls answer or raise, and the script itself goes on (weak fairness of each).

Nothing is assumed about callers, or that a failure happens or does not.

## Findings

Three runs show where the code departs from what its own documentation says.

1. `session_crash_in_save`: `save_kvcache` and `save_kvcache_blob` rewrite the session file in place
   (`src/dexa/session/state.py:140`). A crash between the truncating open and the last write leaves a
   torn file: `has()` is true and `load` raises, although the docstring of `session_manager.py`
   promises that a session can be restored on any worker after a restart. `NoSilentLoss` still holds:
   the loss is loud.
2. `connector_alloc_failure`: a match whose allocation failed stays in `_needs_load`;
   `build_connector_meta` plans it with an empty block list (`vllm_connector.py:596`) and its
   completion is reported.
3. `edge_single_writer`: a turn saves the copy it loaded before the await of the backend
   (`edge/src/session.ts:106`), so a second turn that started meanwhile overwrites the first one's
   exchange; the file's header promises single-writer turn ordering. Histories still never mix
   (`StoredIsCoherent`), and clients that wait for their answers get the promise (`SerialRefines`).

### Observed while modelling

Not kept as runs, because nothing in the repository claims otherwise or because one line shows them.

Sessions and connector: with `persist=False` the comment "evict LRU (already persisted)"
(`session_manager.py:71`) is untrue and eviction discards the only copy; switching the store's format
and back resumes the older file (`store.py:47`); without sticky routing a worker serves a stale
resident copy (`session_manager.py:55`); a second saver of a prompt truncates the file after the first
one's `wait_for_save` returned (`vllm_connector.py:753`); with local hits the cap `len(tokens) - 1`
bounds the external tokens alone, so a claim can cover the whole prompt (`vllm_connector.py:514`);
`_kv_split` is ambiguous for a cache of two blocks; `_f32_to_bf16_bits` is wrong for NaN only.

Segments and memory: rolling back to a version committed before any KV existed raises after the
context was replaced (`segment/session.py`); saving a numpy session over the float32 blob it was
loaded from truncates its own arrays; a put larger than every tier empties the store and returns a
handle that `get` misses (`memory/store.py:265`); the LMCache baseline prefills each block alone, and
LRU drops the head of a chain first, which makes the rest of it unreachable;
`budget_alloc="sensitivity"` and `full_kv` leave more rows in the measured head than the compact
budget; a compaction whose last prefill raises replaces the compact memory without a version bump
(`working_memory.py:287`); retrying an append that raised appends its tokens twice
(`working_memory.py:174`); the recent window is prefilled without the compacted prefix, and over
`VLLMBackend`, whose prefill always runs from position 0, its recorded offset is not the one its
phases were computed at.

Backends, compaction, cartridges: the comment of `recompute_selective` that shared tokens are "never
picked" holds for `hkvd` with enough candidates only, and `selected_from_candidates` can exceed the
number of candidates; `TorchKVSession.greedy` raises `IndexError` on an empty cache;
`VLLMBackend._attention_modules` falls back to a lexicographic sort of layer names; its capture
assumes that a prompt is prefilled in one pass; attention matching with `min_tokens=0` and a target of
0 still allocates one token per head; trained STILL perceivers emit `n_latents` slots also for a
shorter context; `save_compactcache` keeps head 0's positions for all heads and drops token ids;
`from_compact_cache` drops attention-matching biases and takes head 0's positions;
`_cartridge_handle` can collide; `CartridgeServer.score` fails on an empty prompt; `attach_to_runner`
and `_register_beta_attention` raise as shipped.

Platform: several processes lose each other's updates of a usage row (`metering.py` reads it, adds and
writes it back), so the charges recorded for an org lag behind what it used, the quota is checked
against the lagging sum, and the overdraft of an org that several processes serve is not bounded by its
calls in flight, which is why `OverdraftBounded` speaks of one process; the key cache defaults to enabled for every tenant; a gateway hit compares the last
screenshot and the text only; org names can be equal, and sessions are keyed by the tenant's name, so
two orgs of one name share them; the key window at the edge is the TTL plus two requests where
`keys.ts` says "within the TTL"; usage events carry no `dexa_usd`, so traffic through the edge never
uses up credit; `hasCredit` fails open and caches that for the TTL; stateless pass-through at the edge
is not metered; the service counts tokens of the messages stored, the edge those sent;
`tiering.ts` with 0 tokens compares with NaN and drops (not reachable); the resize of
`qwen_vision_tokens` exceeds the pixel budget for extreme aspect ratios, its enlarging branch is dead
with the defaults, `_openai_tiles` is 0 for very narrow screens, and savings against `gpt-4o-mini` can
be negative for text.

Speculation: killed runs go on as orphans because `timeout(1)` has a process group of its own; a
speculative run may use 300 s where a plain one in the modal harness has 600 s; the pattern for
read-only commands matches the beginning of a compound command; `git diff` leaves out created files;
`replay.py` and the grade mode fail on a torn line, and `live_agent.py` never resumes.

## Proofs

Proved by TLAPS for all values of the constants:

* `SessionManager_proofs`: `TypeCorrect`, and `AcknowledgedTurnsSurvive` (`Spec => []NoSilentLoss`)
  under `StickyAndUniform` (one store format, sticky routing). `NoSilentLoss` speaks of the context of
  a running turn, which comes from a cache or a file, so it is not inductive: `ConversationInv` adds
  that one live worker at most holds a session (needed for `Load`), that readable files have all
  acknowledged turns and a session without a file has none (`GetNone`, `Load`), that resident copies
  are complete (`GetResident`), and that a call agrees with its resident copy until the eviction loop
  and with its file once written (`SaveDone`, `Reply`). `ResidencyIsKept` (`Spec => []ResidencyAfterPut`)
  from `KeptInv`, for any routing: the keys of the OrderedDict are distinct and the session of a call
  that is being saved is the newest of them, so the eviction loop reaches it last.
  `DroppedStaysDropped` (`Spec => []NoResurrection`) under sticky routing alone, with or without
  persistence and for any mix of formats, from `FreshInv`: every copy a later turn could continue from
  (resident, in a file of any format, in a call) is of the present life of its session.
* `Reuse_proofs`, of the connector: `ClaimedKVIsRestored`, `ReportsAreWritten`, `StoreIsGenuine`, `ClaimsHold`,
  under `MatchesAreAllocated` (an asynchronous engine allocates for every match it is given; the
  `connector_alloc_failure` run shows what happens otherwise) and for finitely many requests (the
  fullness of a batch is a number). `RunsOnRestoredKV` looks at a request after its first forward pass,
  so `ConnectorInv` follows a claim from the match to there: the match stays with the scheduler, with
  blocks for all of it once allocated (`MatchInv`); the bound plan names each request once, with those
  blocks (`PlanInv`); a future has them and is done only when they are written (`LoadInv`); a request
  that computes in this step has its plan entry until it is loaded, and its KV from then on
  (`ForwardInv`). `SaveInv` adds that what a plan saves was new when planned and has run since. The
  arithmetic of blocks and of the crossover is proved first, from division by an arbitrary block size.
* `SegmentedSession_proofs`: `KVIsAlwaysExact` and `SnapshotsStayExact` (`KVExact` and `SnapshotsExact`
  after any mutations, commits, rollbacks, branches, saves and loads), `ReuseIsAlwaysReal` and
  `PlansAreAlwaysSound`, for contexts and segments of every length. The first two have the condition
  `MappedNeedsDevice`: a deployment whose loaded arrays are views of a file copies them to a device.
  Without it they are false of the code: a numpy session that saves over the float32 blob it was loaded
  from reads arrays whose file has changed, as noted above. `KVInv` says that what is held on a device, in a
  committed version and in a file is a full prefill of *some* context, and of the session's or version's own
  where there is one; the step is the lemma that recomputing the tail over a common prefix of a prefill is a
  prefill of the new context. `CtxInv` has the shape of contexts and versions that the plans need. The lemmas
  before them say what offsets, the common prefix, the ranges and the plan are, for every
  context: the ranges tile it, in order, and a range is re-used only where the tokens are equal.
* `Engine_proofs` and `EngineCompact_proofs`, for every vocabulary, number of layers, heads and
  segments, every length of a context, block tables, budgets, rankings and configurations:
  * `Core` (`Spec => []CoreInv`), on which the rest stands. `RawIsPrefill` does not survive a step by
    itself: what `ResumeRaw` and `ConnectorLoad` bring back was held by a file or by blocks, and what
    `Extend` builds on may have been blended. `CoreInv` says of a raw cache (`RawFact`) that it
    is a prefill of its tokens, or, if it was blended, that every column is of its token at
    its place and those marked genuine are the prefill's; that a file loads as the prefill it was saved
    from and carries a rounding of its number (`FileFact`); that what the connector stored is a prefill
    filed under the key of its tokens (`PagedFact`); and that a session in a file or a cartridge in
    hand excludes a cache in hand (`Carried`).
    The lemmas under it are about columns: a column holds all columns before it, so there is no
    set they are drawn from, and the facts are stated of lengths and elements (`Long`, `Follows`): a
    forward pass behind a prefill is a prefill of both (`FollowsPrefill`), blocks are gathered
    and scattered at places that differ because a block belongs to one place, and rounding to
    bfloat16 goes to the nearest number, ties to even.
  * `RawExact` (`RawIsPrefill`) and `BlendPlaced` (`BlendKeepsPlaces`) follow from `CoreInv`; for the
    latter a key that is rephased by the offset between its old and its new position has the phase of
    the new one, whichever segment it comes from.
  * `QueriesBehind` (`QueriesLookBack`): the sampled indices are distinct, in order and inside the second
    pass, whose start is the length of the context, for both backends that have queries.
  * `SlotRows` (`Spec => []RowsInv`): each head of a compact cache, in hand or in a file, is a row of
    slots, and a cartridge and its file have a column of positions. Under it stands
    what every method returns, proved method by method: selections of a size (`kSubset`, the n
    best of a ranking), the greedy split of a layer's budget over its heads, whose sum is
    the budget (`AddsUp`), latents, and fusion.
  * `CartridgesServe` (`CartridgeServes`), with the positions of teacher and student in self-study, and
    the packing of `t` slots into blocks of any size.
  * `DecodesSeeContext` (`DecodeSeesContext`) with `KindInv`: padding to the longest head and the mask
    over it leave each head exactly its slots, in order (`At` takes what the mask leaves); the last slot is taken
    away where the last token is fed again; each row is then the prediction from these slots and the tokens fed.
  * `CompactsKeepFaith` (`CompactIsFaithful`) from `FaithInv`. A selection is known to be one only when
    it is made; `FaithInv` keeps, as long as a budget is remembered, the set of tokens each head selected
    (`Selects`: of the budget's size, with the minimum and the recent window; the slots are those of the
    set, in order), or for latents that they stand below the end of the context (`Below`), which is what
    `Fuse` needs to put the window behind them (`Fused`). A file keeps one row of positions for all
    heads; it is written only when the heads are equally long, so after `ResumeCompact` the first head is
    as selected and the others have its positions (the flag of `FaithfulTo`). `CompactIsFaithful` then counts
    back: the tokens found in a head are the set it selected.
  * Assumed (`EngineAssumption`): token ids come from a set, `TokenIds`; fractions are at most one and have a
    denominator; a budget's per-head minimum is positive (its default is 1); no block is at two places of one
    table (vLLM's allocator). TLC evaluates it in the run.
* `Reuse_proofs`, of the store for all its users: `StoreTypes`, `IndexAgrees`, `RecencyOrdersTiers`,
  `OnlyTheOldestIsDropped` from `LruInv`, which adds to the ordering of tiers that ticks are unique and
  behind the clock: that makes a promoted entry newer than everything above which it is put, and a
  demoted one strictly older than what stays. `CountersAreExact` and `CapacityIsKept` from `BookInv`:
  each counter is the sum of the sizes in its tier, and the tiers that a cascade is done with fit.
  `HotEntryIsPlaced` from `HotInv`, which follows the entry through the cascade: all tiers above it
  are too small for it, and the newest entry is the victim of a tier only when it is alone there. Of requests:
  `RequestsUseTheStore`, every behaviour of `LMSpec` is one of the store's `StoreSpec`, so
  `RequestsKeepTheStore` and `RequestsKeepTheBooks` carry the facts above over, and `ServedStaysOnTop` (`LMSpec =>
  []ServedIsResident`) from `ServeInv`: the blocks done so far are in the top tier and newer than every
  other entry, and a request that fits the tier leaves room for them, so none of them is ever a victim.
* `Agent_proofs`, of the working memory: `BudgetHolds`, `NothingForgotten`, `NeverAHole`, `VersionsAreSound`,
  `LoopAdvances`, and `ContextKept` from the second and third. `MemoryInv` adds that the compact memory
  was built from exactly `[0, compact_end)` and fits its share of the budget, that inside the loop the
  window is up to date, and that handles of the current version hold the current compact memory except
  between install and bump.
* `Platform_proofs`, of accounts and the gateway:
  * `SignupsAreUnique` (`Spec => []OneAccountPerIdentity`) from `AccountInv`: users and orgs correspond
    one to one, which the unique key of the commit preserves although the select is stale.
  * `RevokedKeysDie` (`Spec => [][KeyWindow]_vars`) from `KeyInv`: a cached key expires a TTL after it
    was looked up, hence a TTL after its revocation (`ResolverInv`); at the edge the row may be written
    a request later (`EdgeCacheInv`) and the request that uses it end a request after that
    (`AdmissionInv`).
  * `RevocationsPropagate` adds the credit gate: `CreditInv` says that what is spent never falls below the
    credit again once it was used up, and that a positive credit in the cache was read before that.
  * `CachedAnswersAreGenuine` (`Spec => []HitIsGenuine`) from `CacheInv`: a tenant's name is one that
    exists, so a request looks up and files answers in existing sessions, and what it files answers what
    it asked before its awaits.
  * `PricesStayBounded`, a theorem about `Pricing` alone: for every price list, tile size and screen of the
    stated form the resized image stays within the pixel budget unless a side is held at one block, tiles and tokens
    within their caps, and a second screen never makes a request cheaper. It needs `MinPixels <= Factor * Factor`, which the code's 3136 = 56 * 56 satisfies.
  * `BillingStaysSound` (`Spec => []BillingIsSound`): with `BookInv` (what a request in flight and a usage
    row carry), `StoreInv` (the ledger of the static mode balances), `MeterInv` (a key's row counts each
    completion once at most and, when one process served it, each) and `OverdraftInv` (what is spent
    and what is in flight together fit the grant plus one charge for each request, while one process serves
    the org: the calls in flight were let in while there was credit).
* `Platform_proofs`, of its sessions: `RedeliveryIsBounded` (`SessionsSpec => []OvercountIsBounded`) from `QueueInv`: a
  message not yet folded in this delivery was folded at most once per failed one.
  `WaitingClientsSeeOneWriter` (`SessionsSpec => SerialRefines`) from `SerialInv`: while a serial client waits,
  its turn is the only one and the copy it loaded is the stored session. `StoredSessionsAreCoherent`
  (`SessionsSpec => []StoredIsCoherent`) from `StoredInv`: the copy a waiting turn loaded is coherent too, with the
  tier its idle time and tokens ask for; the two tiering policies agree (`SameTier`) and never step to a
  warmer tier as the idle time grows (`DecideIsMonotone`), and a total is the sum of its turns (`SumsAddUp`).
* `Agent_proofs`, of the tool loop: `NothingStalePends`, `EveryLaunchCounts` and `ModelCannotTell`
  (`RunnerSpec => SpeculationIsInvisible`), for the runner with its crashes. `HarnessInv` says that the
  pending run was launched on the present source, that a run which is over reports its own command on
  the source it saw, and that what is waited for is the pending run; so a hit, a miss and a wait all
  answer what the plain harness would. `RecordsStay` (`RunnerSpec => RecordsAreKept`), for a batch that
  names no task twice (`TasksDiffer`; the harnesses tell tasks apart by their id alone), from `FileInv` (only
  the last line can be torn open, and what is graded are the records of the file, place by place) and
  `BatchInv` (no task is in two of the places recorded, waiting to be, in the sandbox and still to start).

The assumptions on constants are the constructors' own checks, the bounds being naturals, the
processes and requests of a gateway being finitely many, and sentinels differing from what they are
sentinels for; TLC evaluates them in the runs.

Sums and folds. Where a definition is a recursive function or a fold of the library, a fact about
all its arguments is proved by least counterexample (`LeastOf` and `UpTo` in `SegmentPlan_proofs`,
over `NatLessThanWellFounded`): if the set of lengths at which it fails were not empty it would have a
least element. Sums over finite sets are counted in units: a sum of f over S is the cardinality of
the pairs of an x of S and one of its f[x] units, so that adding, changing and removing a summand
follow from the library's facts about finite sets.

Only model-checked: liveness (`LoadsComplete`, `AppendEnds`, `EnqueuedIsCounted`, `BatchEnds`), which
is out of this prover's reach. Every safety property of the passing runs is a theorem.

## Not modelled

* Numbers: kernels, dtypes other than the rounding of stored files, devices, RoPE as arithmetic (a
  phase is the position it was computed at), the values of fits, attention and training. The
  gradient steps of STILL's training loop and of cartridges only mark what they change.
* vLLM itself: the scheduler is what the hooks need of it, the engine computes a prompt in one pass.
* Text: token framing, response cleaning, JSON layouts, the classification of shell commands by regular
  expressions (given), the percentage of changed pixels in the redundancy report.
* Reported statistics that no operation reads back, segment names and roles, the cold-start plan (which
  recomputes everything), `exists`, `versions` and console snapshots (pure reads).
* Byte offsets and headers of the blob format; the native codec (`native/kvcodec`), a pure byte
  transformation better served by property tests.
* `bench/agentic.py`, `bench/corpus.py`, `evals`, `benchmarks`, `scripts`, demos and the other
  experiments: sequential drivers that call the modelled parts and format what they return.
* Environment assumptions of the speculation model: tests do not write to the working tree, one process
  works on an out file at a time, with one task in its sandbox.
