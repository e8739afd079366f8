---------------------------- MODULE DexaConnector ----------------------------
(***************************************************************************)
(* DexaConnector: vLLM's V1 KV-connector hooks over a shared SessionStore. *)
(*                                                                         *)
(* Each engine instance repeats one step: the scheduler offers its waiting *)
(* requests to the connector and allocates blocks, build_connector_meta    *)
(* packs the plan, the worker starts the loads, runs the forward pass and  *)
(* the saves, and get_finished reports the completed loads.  Asynchronous  *)
(* loads run in a thread pool beside all of this.  vLLM itself is external *)
(* and modelled as far as these hooks see it.                              *)
(*                                                                         *)
(* Token ids are abstracted to the prompt they spell and KV tensors to how *)
(* many of a request's leading tokens have correct KV in its own blocks.   *)
(***************************************************************************)
EXTENDS Integers, FiniteSets

CONSTANTS
    Instances,       \* engine instances sharing one store
    Requests,        \* requests
    Prompts,         \* prompts; prefix_key is injective on them
    PromptOf,        \* PromptOf[r]: the prompt of request r
    LenOf,           \* LenOf[p]: the prompt's length in tokens
    BlockSize,       \* tokens per paged block
    LoadPolicy,      \* dexa_load_policy: "adaptive", "always" or "never"
    ContentionFloor, \* dexa_contention_floor, in percent
    Deployments      \* the deployments considered, see Deployment

(* What differs between the deployments one run covers. *)
Deployment ==
    [instOf : [Requests -> Instances],  \* the instance serving each request
     arriving : SUBSET Requests,        \* the requests that arrive
     async : BOOLEAN,                   \* dexa_async_load
     minLoad : Nat,                     \* dexa_min_load_tokens
     contention : BOOLEAN,              \* dexa_contention_aware
     maxSeqs : Nat,                     \* scheduler_config.max_num_seqs (0: unknown)
     localHits : BOOLEAN,               \* may vLLM's own prefix cache hold leading blocks?
     allocFails : BOOLEAN]              \* may block allocation fail after a match?

ASSUME ConnectorAssumption ==
    /\ IsFiniteSet(Requests) /\ PromptOf \in [Requests -> Prompts]
    /\ LenOf \in [Prompts -> Nat \ {0}]
    /\ BlockSize \in Nat \ {0}
    /\ ContentionFloor \in 0..100
    /\ LoadPolicy \in {"adaptive", "always", "never"}
    /\ \A d \in Deployments : d \in Deployment

VARIABLES
    conf,       \* the deployment, fixed
    phase,      \* phase[i]: where instance i is in its step; "failed" once a hook raised
    status,     \* status[r]: vLLM's view of request r
    computed,   \* computed[r]: tokens found in vLLM's own prefix cache
    external,   \* external[r]: tokens the connector claimed for r
    nblocks,    \* nblocks[r]: blocks allocated to r (0: none)
    scattered,  \* scattered[r]: leading tokens of r restored into its blocks
    needsLoad,  \* _needs_load: requests matched in this step
    loadBlocks, \* _load_blocks: loadBlocks[r] blocks recorded for r, 0 if no entry
    meta,       \* meta[i]: the plan bound on the worker
    pending,    \* _pending_loads: requests with a future
    future,     \* future[r]: that future
    received,   \* requests vLLM was told have finished loading
    busyEma,    \* _busy_ema, in percent
    file,       \* file[p]: the stored KV under p's key
    writers,    \* writers[p]: instances inside store.save of p's key
    saved       \* history: prompts for which some wait_for_save has returned

schedVars  == <<status, computed, external, nblocks, needsLoad, loadBlocks, busyEma>>
workerVars == <<scattered, meta, pending, future>>
storeVars  == <<file, writers, saved>>
vars == <<conf, phase, schedVars, workerVars, received, storeVars>>

-----------------------------------------------------------------------------
(* Pure helpers. *)

Smaller(a, b) == IF a < b THEN a ELSE b

CeilDiv(a, b) == (a + b - 1) \div b

PromptLen(r) == LenOf[PromptOf[r]]

\* contention_factor_from_busy, in percent.
ContentionFactor(busy) == 100 - (busy * (100 - ContentionFloor)) \div 100

\* load_decision: adaptive loads from min_load_tokens * factor tokens on.
LoadDecision(n, factor) ==
    \/ LoadPolicy = "always"
    \/ LoadPolicy = "adaptive" /\ n * 100 >= conf.minLoad * factor

ShouldLoad(i, n) ==
    LoadDecision(n, IF conf.contention /\ conf.maxSeqs > 0 THEN ContentionFactor(busyEma[i]) ELSE 100)

\* store.has(prefix_key(...)): a file being written exists.
Has(p) == file[p].exists

\* A load of p's key raises while the file is incomplete.
Loadable(p) == file[p].exists /\ file[p].whole

\* Mutant: the tokens vLLM has already computed are not subtracted.
ExternalTokens_Whole(r, c) == ((PromptLen(r) - 1) \div BlockSize) * BlockSize

\* Whole blocks, at most len - 1 tokens.
ExternalTokens(r, c) == (Smaller(PromptLen(r) - c, PromptLen(r) - 1) \div BlockSize) * BlockSize

Claim(i, r, c) ==
    IF Has(PromptOf[r]) /\ ExternalTokens(r, c) > 0 /\ ShouldLoad(i, ExternalTokens(r, c))
    THEN ExternalTokens(r, c) ELSE 0

-----------------------------------------------------------------------------
Init ==
    /\ conf \in Deployments
    /\ phase = [i \in Instances |-> "schedule"]
    /\ status = [r \in Requests |-> "waiting"]
    /\ computed = [r \in Requests |-> 0]
    /\ external = [r \in Requests |-> 0]
    /\ nblocks = [r \in Requests |-> 0]
    /\ scattered = [r \in Requests |-> 0]
    /\ needsLoad = {}
    /\ loadBlocks = [r \in Requests |-> 0]
    /\ meta = [i \in Instances |-> [loads |-> {}, saves |-> {}]]
    /\ pending = {}
    /\ future = [r \in Requests |-> [state |-> "none", blocks |-> 0]]
    /\ received = {}
    /\ busyEma = [i \in Instances |-> 0]
    /\ file \in [Prompts -> { [exists |-> FALSE, whole |-> FALSE, genuine |-> TRUE],
                              [exists |-> TRUE, whole |-> TRUE, genuine |-> TRUE] }]
    /\ writers = [p \in Prompts |-> {}]
    /\ saved = {}

Of(i) == {r \in conf.arriving : conf.instOf[r] = i}

\* The instances that serve requests.
Active == {i \in Instances : Of(i) # {}}

\* Tokens of r that vLLM's own prefix cache may already hold: whole blocks, and
\* never the whole prompt (external).
LocalTokens(r) ==
    IF conf.localHits THEN {c \in 0..PromptLen(r) - 1 : c % BlockSize = 0} ELSE {0}

\* get_num_new_matched_tokens(r, c).
GetNumNewMatchedTokens(i, r) ==
    /\ phase[i] = "schedule"
    /\ r \in Of(i)
    /\ status[r] = "waiting"
    /\ \A q \in Of(i) : status[q] # "matched"
    /\ \E c \in LocalTokens(r) :
          /\ computed' = [computed EXCEPT ![r] = c]
          /\ external' = [external EXCEPT ![r] = Claim(i, r, c)]
          /\ needsLoad' = IF Claim(i, r, c) > 0 THEN needsLoad \union {r} ELSE needsLoad
    /\ status' = [status EXCEPT ![r] = "matched"]
    /\ UNCHANGED <<conf, phase, nblocks, loadBlocks, busyEma, workerVars, received, storeVars>>

\* Allocation succeeded; update_state_after_alloc(r, blocks, external).  An
\* asynchronous load waits for get_finished, everything else runs in this step,
\* with all of its remaining prompt (full) or a chunk of it.
UpdateStateAfterAlloc(i, r) ==
    LET waits == conf.async /\ external[r] > 0
    IN  /\ phase[i] = "schedule"
        /\ r \in Of(i)
        /\ status[r] = "matched"
        /\ \E full \in BOOLEAN :
              /\ status' = [status EXCEPT ![r] =
                              IF waits THEN "loading" ELSE IF full THEN "new" ELSE "chunk"]
              /\ nblocks' = [nblocks EXCEPT ![r] =
                              CeilDiv(IF ~waits /\ full THEN PromptLen(r) ELSE computed[r] + external[r] + 1,
                                      BlockSize)]
        /\ loadBlocks' = IF r \in needsLoad /\ external[r] > 0
                         THEN [loadBlocks EXCEPT ![r] = nblocks'[r]] ELSE loadBlocks
        /\ scattered' = [scattered EXCEPT ![r] = 0]
        /\ UNCHANGED <<conf, phase, computed, external, needsLoad, busyEma,
                       meta, pending, future, received, storeVars>>

\* Allocation failed: the request stays in the waiting queue and the scheduler
\* stops admitting requests in this step (external).
AllocFails(i, r) ==
    /\ conf.allocFails
    /\ phase[i] = "schedule"
    /\ r \in Of(i)
    /\ status[r] = "matched"
    /\ status' = [status EXCEPT ![r] = "waiting"]
    /\ phase' = [phase EXCEPT ![i] = "build"]
    /\ UNCHANGED <<conf, computed, external, nblocks, needsLoad, loadBlocks, busyEma,
                   workerVars, received, storeVars>>

\* A request whose load was reported finished is scheduled (external).
ResumeLoaded(i, r) ==
    /\ phase[i] = "schedule"
    /\ r \in Of(i)
    /\ status[r] = "loading"
    /\ r \in received
    /\ r \notin needsLoad  \* not in the pass that admitted it
    /\ received' = received \ {r}
    /\ \E full \in BOOLEAN : status' = [status EXCEPT ![r] = IF full THEN "new" ELSE "chunk"]
    /\ nblocks' = [nblocks EXCEPT ![r] = CeilDiv(PromptLen(r), BlockSize)]
    /\ UNCHANGED <<conf, phase, computed, external, needsLoad, loadBlocks, busyEma,
                   workerVars, storeVars>>

-----------------------------------------------------------------------------
\* The fullness of this step's batch in percent, and the smoothed busyness.
Fullness(i) ==
    LET running == Cardinality({r \in Of(i) : status[r] \in {"new", "chunk", "prefilling", "running"}})
    IN  Smaller(100, (running * 100) \div conf.maxSeqs)

BusyAfter(i) ==
    IF conf.maxSeqs > 0 THEN (7 * busyEma[i] + 3 * Fullness(i)) \div 10 ELSE busyEma[i]

\* Mutants: a prompt that is only partly prefilled is saved; a key is saved again.
SavePlan_Partial(i) ==
    {r \in Of(i) : status[r] \in {"new", "chunk"} /\ r \notin needsLoad /\ ~Has(PromptOf[r])}
\* The requests whose prefill completes in their first step, that are not being
\* loaded, and whose prompt is not stored yet.
SavePlan(i) ==
    {r \in Of(i) : status[r] = "new" /\ r \notin needsLoad /\ ~Has(PromptOf[r])}

BuildConnectorMeta(i) ==
    /\ phase[i] \in {"schedule", "build"}
    /\ \A r \in Of(i) : status[r] # "matched"
    /\ busyEma' = [busyEma EXCEPT ![i] = BusyAfter(i)]
    /\ meta' = [meta EXCEPT ![i] =
                  [loads |-> {[r |-> r, blocks |-> loadBlocks[r]] : r \in needsLoad \intersect Of(i)},
                   saves |-> SavePlan(i)]]
    /\ needsLoad' = needsLoad \ Of(i)
    /\ loadBlocks' = [r \in Requests |-> IF r \in Of(i) THEN 0 ELSE loadBlocks[r]]
    /\ phase' = [phase EXCEPT ![i] = "load"]
    /\ UNCHANGED <<conf, status, computed, external, nblocks, scattered, pending, future,
                   received, storeVars>>

\* _load_one scatters the stored blocks, from the first one on, into the blocks
\* it was given.
Scatter(r, blocks) == Smaller(blocks, CeilDiv(PromptLen(r), BlockSize)) * BlockSize

StartLoadAsync(i) ==
    LET rs == {l.r : l \in meta[i].loads}
    IN  /\ phase[i] = "load"
        /\ conf.async
        /\ pending' = pending \union rs
        /\ future' = [r \in Requests |->
                        IF r \in rs
                        THEN [state |-> "queued",
                              blocks |-> (CHOOSE l \in meta[i].loads : l.r = r).blocks]
                        ELSE future[r]]
        /\ phase' = [phase EXCEPT ![i] = "forward"]
        /\ UNCHANGED <<conf, schedVars, scattered, meta, received, storeVars>>

\* Mutant: a synchronous load whose key exists is taken as done.
StartLoadSync_Skips(i) ==
    /\ phase[i] = "load"
    /\ ~conf.async
    /\ phase' = [phase EXCEPT ![i] = "forward"]
    /\ UNCHANGED <<conf, schedVars, workerVars, received, storeVars>>

\* Synchronous loads happen inside start_load_kv; one that raises fails the step.
StartLoadSync(i) ==
    LET rs == {l.r : l \in meta[i].loads}
        ok == \A r \in rs : Loadable(PromptOf[r])
    IN  /\ phase[i] = "load"
        /\ ~conf.async
        /\ scattered' = IF ok THEN [r \in Requests |->
                                      IF r \in rs
                                      THEN Scatter(r, (CHOOSE l \in meta[i].loads : l.r = r).blocks)
                                      ELSE scattered[r]]
                        ELSE scattered
        /\ phase' = [phase EXCEPT ![i] = IF ok THEN "forward" ELSE "failed"]
        /\ UNCHANGED <<conf, schedVars, meta, pending, future, received, storeVars>>

\* A pool thread runs _load_one for r.
LoadOne(r) ==
    /\ r \in pending
    /\ future[r].state = "queued"
    /\ IF Loadable(PromptOf[r])
       THEN /\ future' = [future EXCEPT ![r].state = "done"]
            /\ scattered' = IF future[r].blocks > 0
                            THEN [scattered EXCEPT ![r] = Scatter(r, future[r].blocks)]
                            ELSE scattered
       ELSE /\ future' = [future EXCEPT ![r].state = "raised"]
            /\ UNCHANGED scattered
    /\ UNCHANGED <<conf, phase, schedVars, meta, pending, received, storeVars>>

\* The forward pass, with save_kv_layer gathering the blocks of the save plan.
Forward(i) ==
    /\ phase[i] = "forward"
    /\ status' = [r \in Requests |->
                    IF r \notin Of(i) THEN status[r]
                    ELSE CASE status[r] = "new" -> "running"
                           [] status[r] = "chunk" -> "prefilling"
                           [] status[r] = "prefilling" -> "running"
                           [] OTHER -> status[r]]
    /\ phase' = [phase EXCEPT ![i] = "save"]
    /\ UNCHANGED <<conf, computed, external, nblocks, needsLoad, loadBlocks, busyEma,
                   workerVars, received, storeVars>>

\* wait_for_save opens the next key's file, truncating it.
BeginSave(i, r) ==
    /\ phase[i] = "save"
    /\ r \in meta[i].saves
    /\ \A p \in Prompts : i \notin writers[p]
    /\ writers' = [writers EXCEPT ![PromptOf[r]] = @ \union {i}]
    /\ file' = [file EXCEPT ![PromptOf[r]] =
                  [exists |-> TRUE, whole |-> FALSE,
                   genuine |-> status[r] = "running" /\
                               (external[r] > 0 => scattered[r] >= computed[r] + external[r])]]
    /\ UNCHANGED <<conf, phase, schedVars, workerVars, received, saved>>

\* Two instances may be inside save of one key; the file is complete again when
\* the last of them is done.
EndSave(i, r) ==
    LET p == PromptOf[r]
    IN  /\ phase[i] = "save"
        /\ r \in meta[i].saves
        /\ i \in writers[p]
        /\ writers' = [writers EXCEPT ![p] = @ \ {i}]
        /\ file' = [file EXCEPT ![p].whole = (writers[p] = {i})]
        /\ meta' = [meta EXCEPT ![i].saves = @ \ {r}]
        /\ saved' = saved \union {p}
        /\ UNCHANGED <<conf, phase, schedVars, scattered, pending, future, received>>

SavesDone(i) ==
    /\ phase[i] = "save"
    /\ meta[i].saves = {}
    /\ phase' = [phase EXCEPT ![i] = "poll"]
    /\ UNCHANGED <<conf, schedVars, workerVars, received, storeVars>>

\* Mutants: every pending load is reported; a finished load is forgotten unless
\* all of them are finished.
GetFinished_All(i) ==
    /\ phase[i] = "poll"
    /\ pending' = pending \ Of(i)
    /\ received' = received \union (pending \intersect Of(i))
    /\ phase' = [phase EXCEPT ![i] = "schedule"]
    /\ UNCHANGED <<conf, schedVars, scattered, meta, future, storeVars>>
GetFinished_Forgets(i) ==
    LET done == {r \in pending \intersect Of(i) : future[r].state = "done"}
    IN  /\ phase[i] = "poll"
        /\ pending' = pending \ done
        /\ received' = IF done = pending \intersect Of(i) THEN received \union done ELSE received
        /\ phase' = [phase EXCEPT ![i] = "schedule"]
        /\ UNCHANGED <<conf, schedVars, scattered, meta, future, storeVars>>

\* get_finished reports the futures that are done; a failed load raises out of it.
GetFinished(i) ==
    LET done == {r \in pending \intersect Of(i) : future[r].state \in {"done", "raised"}}
        ok == \A r \in done : future[r].state = "done"
    IN  /\ phase[i] = "poll"
        /\ pending' = IF ok THEN pending \ done ELSE pending
        /\ received' = IF ok THEN received \union done ELSE received
        /\ phase' = [phase EXCEPT ![i] = IF ok THEN "schedule" ELSE "failed"]
        /\ UNCHANGED <<conf, schedVars, scattered, meta, future, storeVars>>

\* A request ends; request_finished lets vLLM free its blocks at once.
RequestFinished(i, r) ==
    /\ phase[i] = "schedule"
    /\ r \in Of(i)
    /\ status[r] = "running"
    /\ status' = [status EXCEPT ![r] = "finished"]
    /\ nblocks' = [nblocks EXCEPT ![r] = 0]
    /\ UNCHANGED <<conf, phase, computed, external, needsLoad, loadBlocks, busyEma,
                   workerVars, received, storeVars>>

Step(i) ==
    /\ i \in Active
    /\ \/ BuildConnectorMeta(i) \/ StartLoadAsync(i) \/ StartLoadSync(i)
       \/ Forward(i) \/ SavesDone(i) \/ GetFinished(i)

Next ==
    \/ \E i \in Instances : Step(i)
    \/ \E i \in Instances, r \in Requests :
          \/ GetNumNewMatchedTokens(i, r) \/ UpdateStateAfterAlloc(i, r) \/ AllocFails(i, r)
          \/ ResumeLoaded(i, r) \/ BeginSave(i, r) \/ EndSave(i, r) \/ RequestFinished(i, r)
    \/ \E r \in Requests : LoadOne(r)

Spec == Init /\ [][Next]_vars

\* Everything an instance does on its own, except admitting new requests.
Hook(i) ==
    \/ Step(i)
    \/ \E r \in Requests : UpdateStateAfterAlloc(i, r) \/ BeginSave(i, r) \/ EndSave(i, r)

\* An instance keeps stepping, the pool runs what it was given, and the scheduler
\* does not pass over a loaded request for ever.
Fairness ==
    /\ \A i \in Instances : WF_vars(Hook(i))
    /\ \A r \in Requests :
          /\ WF_vars(LoadOne(r))
          /\ SF_vars(\E i \in Instances : ResumeLoaded(i, r))

FairSpec == Spec /\ Fairness

-----------------------------------------------------------------------------
(* Properties. *)

Restored(r) == scattered[r] >= computed[r] + external[r]

\* A request that skipped the prefill of its claimed tokens computes only on
\* blocks into which those tokens' KV was restored (start_load_kv, get_finished).
RunsOnRestoredKV ==
    \A r \in Requests :
        status[r] \in {"prefilling", "running"} /\ external[r] > 0 => Restored(r)

\* "this request's KV is fully written before we report done" (_load_one): a
\* request that get_finished reported waits for its load, and has it.
ReportedIsWritten ==
    \A r \in received : status[r] = "loading" /\ Restored(r)

\* What is stored under a key is the KV of that whole prompt, computed by a
\* finished prefill (build_connector_meta, wait_for_save).
StoredIsGenuine ==
    \A p \in Prompts : file[p].exists => file[p].genuine

\* A claim is whole blocks, ends within the prompt, and passes the crossover at
\* least at the contention floor (get_num_new_matched_tokens, _should_load).
ClaimsAreSound ==
    \A r \in Requests :
        external[r] > 0 =>
            /\ external[r] % BlockSize = 0
            /\ computed[r] + external[r] <= PromptLen(r)
            /\ LoadDecision(external[r], ContentionFloor)

\* A request waiting for its load eventually runs: its completion is reported,
\* once, and the scheduler hears of it.  Only where instances share the store can
\* the load meet a file that is being written and take the engine step down.
LoadsComplete ==
    \A r \in Requests :
        status[r] = "loading" ~>
            \/ status[r] = "running"
            \/ phase[conf.instOf[r]] = "failed" /\ Cardinality(Active) > 1
=============================================================================
