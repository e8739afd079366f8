----------------------------- MODULE Reuse_proofs -----------------------------
(***************************************************************************)
(* Reuse of computed KV.  What the vLLM connector promises of claims,      *)
(* loads and saves, for any number of engine instances, requests and       *)
(* prompts, any block size and policy; then the tiered store and the       *)
(* block-chained cache served from it.                                     *)
(***************************************************************************)
EXTENDS DexaConnector, LMCache, FiniteSetTheorems, SequenceTheorems, TLAPS

(* An asynchronous engine allocates for every match it is given; where it  *)
(* does not, the load without blocks of update_state_after_alloc follows   *)
MatchesAreAllocated == \A d \in Deployments : d.async => ~d.allocFails

-----------------------------------------------------------------------------
(* The inductive invariant *)

Future == [state : {"none", "queued", "done", "raised"}, blocks : Nat]
Plan == [loads : SUBSET [r : Requests, blocks : Nat], saves : SUBSET Requests]
File == [exists : BOOLEAN, whole : BOOLEAN, genuine : BOOLEAN]

ConnectorTypeOK ==
    /\ conf \in Deployments
    /\ phase \in [Instances -> {"schedule", "build", "load", "forward", "save", "poll", "failed"}]
    /\ status \in [Requests -> {"waiting", "matched", "loading", "new", "chunk",
                                "prefilling", "running", "finished"}]
    /\ computed \in [Requests -> Nat] /\ external \in [Requests -> Nat]
    /\ nblocks \in [Requests -> Nat] /\ loadBlocks \in [Requests -> Nat]
    /\ scattered \in [Requests -> Nat]
    /\ needsLoad \subseteq Requests /\ pending \subseteq Requests
    /\ received \subseteq Requests
    /\ meta \in [Instances -> Plan]
    /\ future \in [Requests -> Future]
    /\ busyEma \in [Instances -> 0 .. 100]
    /\ file \in [Prompts -> File]

At(r) == phase[conf.instOf[r]]

(* Blocks for all that was claimed of r, and for what comes before it      *)
Enough(r, blocks) == blocks > 0 /\ Scatter(r, blocks) >= computed[r] + external[r]

(* A match stays with the scheduler until the plan is built                *)
MatchInv ==
    /\ \A i \in Instances : phase[i] = "build" => ~conf.async
    /\ \A r \in Requests :
          /\ status[r] # "waiting" => r \in conf.arriving
          /\ r \in needsLoad =>
                /\ r \in conf.arriving /\ At(r) \in {"schedule", "build"}
                /\ status[r] \in {"waiting", "matched", "loading", "new", "chunk"}
                /\ conf.async => status[r] \in {"matched", "loading"} /\ external[r] > 0
          /\ r \in needsLoad => r \notin received
          /\ status[r] = "matched" /\ external[r] > 0 => r \in needsLoad
          /\ status[r] = "loading" => conf.async /\ external[r] > 0
          /\ r \in needsLoad /\ external[r] > 0 /\ status[r] \notin {"waiting", "matched"} =>
                Enough(r, loadBlocks[r])

(* The plan of an instance that is about to load: its own requests, each   *)
(* once, with their blocks                                                 *)
PlanInv ==
    \A i \in Instances : phase[i] = "load" =>
        /\ \A l, m \in meta[i].loads : l.r = m.r => l = m
        /\ \A l \in meta[i].loads :
              /\ l.r \in conf.arriving /\ conf.instOf[l.r] = i
              /\ status[l.r] \in {"waiting", "loading", "new", "chunk"}
              /\ conf.async => status[l.r] = "loading" /\ l.r \notin received
              /\ external[l.r] > 0 /\ status[l.r] # "waiting" => Enough(l.r, l.blocks)

(* An asynchronous load until it is reported *)
LoadInv ==
    \A r \in pending :
        /\ status[r] = "loading" /\ r \notin received /\ r \notin needsLoad
        /\ Enough(r, future[r].blocks)
        /\ future[r].state = "done" => Restored(r)

(* A synchronous load is over before the forward pass *)
ForwardInv ==
    \A r \in Requests :
        status[r] \in {"new", "chunk"} /\ external[r] > 0 =>
            /\ conf.async => Restored(r)
            /\ ~conf.async =>
                  /\ At(r) \in {"schedule", "build"} => r \in needsLoad
                  /\ At(r) = "load" => \E l \in meta[conf.instOf[r]].loads : l.r = r
                  /\ At(r) = "forward" => Restored(r)
                  /\ At(r) \notin {"save", "poll"}

(* What is saved was new when the plan was made, and has run since *)
SaveInv ==
    \A i \in Instances : \A r \in meta[i].saves :
        /\ phase[i] \in {"load", "forward", "save"} => r \in conf.arriving /\ conf.instOf[r] = i
        /\ phase[i] \in {"load", "forward"} => status[r] = "new"
        /\ phase[i] = "save" => status[r] = "running"

ConnectorInv ==
    /\ ConnectorTypeOK /\ MatchInv /\ PlanInv /\ LoadInv /\ ForwardInv /\ SaveInv
    /\ RunsOnRestoredKV /\ ReportedIsWritten /\ StoredIsGenuine /\ ClaimsAreSound

-----------------------------------------------------------------------------
(* Arithmetic of blocks and loads *)

(* Whole blocks of a tokens *)
LEMMA DivBounds ==
    ASSUME NEW a \in Nat, NEW b \in Nat \ {0}
    PROVE  /\ a \div b \in Nat /\ (a \div b) * b \in Nat
           /\ (a \div b) * b <= a /\ a < (a \div b) * b + b
           /\ ((a \div b) * b) % b = 0
<1>1. a \div b \in Nat
  OBVIOUS
<1>2. b * (a \div b) <= a /\ b * (a \div b) > a - b
  OBVIOUS
<1>3. (a \div b) * b = b * (a \div b) /\ (a \div b) * b \in Nat
  BY <1>1
<1>4. ((a \div b) * b) % b = 0
  <2> DEFINE q == a \div b
  <2>1. q \in Nat
    BY <1>1
  <2> HIDE DEF q
  <2>2. (q * b) % b = 0
    BY <2>1
  <2> QED BY <2>2 DEF q
<1> QED BY <1>1, <1>2, <1>3, <1>4

LEMMA FactorBounds ==
    ASSUME NEW busy \in 0 .. 100
    PROVE  ContentionFactor(busy) \in ContentionFloor .. 100
<1>1. ContentionFloor \in 0 .. 100
  BY ConnectorAssumption
<1>2. busy * (100 - ContentionFloor) \in Nat /\ busy * (100 - ContentionFloor) <= 100 * (100 - ContentionFloor)
  BY <1>1
<1> DEFINE x == busy * (100 - ContentionFloor)
<1>3. x \in Nat /\ x <= 100 * (100 - ContentionFloor)
  BY <1>2
<1> HIDE DEF x
<1>4. x \div 100 \in 0 .. (100 - ContentionFloor)
  BY <1>1, <1>3
<1> QED BY <1>1, <1>4 DEF ContentionFactor, x

LEMMA SavesShrink ==
    ASSUME NEW m \in Plan, NEW r
    PROVE  [m EXCEPT !.saves = @ \ {r}] \in Plan
BY DEF Plan

LEMMA CeilBounds ==
    ASSUME NEW x \in Nat
    PROVE  /\ CeilDiv(x, BlockSize) \in Nat
           /\ CeilDiv(x, BlockSize) * BlockSize \in Nat
           /\ CeilDiv(x, BlockSize) * BlockSize >= x
<1>1. BlockSize \in Nat \ {0} /\ x + BlockSize - 1 \in Nat
  BY ConnectorAssumption
<1> QED BY <1>1, DivBounds DEF CeilDiv

(* A request that gets blocks for its prompt, or for the claim and one more*)
(* token, can have all that was claimed scattered into them                *)
LEMMA AllocatedIsEnough ==
    ASSUME NEW r \in Requests, computed[r] \in Nat, external[r] \in Nat \ {0},
           computed[r] + external[r] <= PromptLen(r),
           NEW x \in {PromptLen(r), computed[r] + external[r] + 1}
    PROVE  Enough(r, CeilDiv(x, BlockSize))
<1>1. PromptLen(r) \in Nat \ {0} /\ BlockSize \in Nat \ {0}
  BY ConnectorAssumption DEF PromptLen
<1>2. x \in Nat /\ x >= computed[r] + external[r] /\ x > 0
  BY <1>1
<1> DEFINE k == CeilDiv(x, BlockSize)
           n == CeilDiv(PromptLen(r), BlockSize)
<1>3. /\ k \in Nat /\ k * BlockSize >= x
      /\ n \in Nat /\ n * BlockSize >= PromptLen(r)
  BY <1>1, <1>2, CeilBounds
<1>4. Enough(r, k) <=> k > 0 /\ Smaller(k, n) * BlockSize >= computed[r] + external[r]
  BY DEF Enough, Scatter
<1> HIDE DEF k, n
<1>5. k > 0
  BY <1>1, <1>2, <1>3
<1>6. Enough(r, k)
  BY <1>1, <1>2, <1>3, <1>4, <1>5 DEF Smaller
<1> QED BY <1>6 DEF k

LEMMA ScatterIsNat ==
    ASSUME NEW r \in Requests, NEW b \in Nat
    PROVE  Scatter(r, b) \in Nat
<1>1. BlockSize \in Nat \ {0} /\ PromptLen(r) \in Nat
  BY ConnectorAssumption DEF PromptLen
<1>2. CeilDiv(PromptLen(r), BlockSize) \in Nat
  BY <1>1, CeilBounds
<1> QED BY <1>1, <1>2 DEF Scatter, Smaller

LEMMA ConfType ==
    ASSUME ConnectorTypeOK
    PROVE  /\ conf.instOf \in [Requests -> Instances] /\ conf.arriving \subseteq Requests
           /\ conf.async \in BOOLEAN /\ conf.minLoad \in Nat /\ conf.maxSeqs \in Nat
  BY ConnectorAssumption DEF ConnectorTypeOK, Deployment

(* What is claimed is whole blocks of the prompt, worth loading even for   *)
(* the busiest engine                                                      *)
LEMMA ClaimIsSound ==
    ASSUME ConnectorTypeOK, NEW i \in Instances, NEW r \in Requests, NEW c \in LocalTokens(r)
    PROVE  /\ c \in Nat /\ Claim(i, r, c) \in Nat
           /\ Claim(i, r, c) > 0 =>
                /\ Claim(i, r, c) % BlockSize = 0
                /\ c + Claim(i, r, c) <= PromptLen(r)
                /\ LoadDecision(Claim(i, r, c), ContentionFloor)
<1>1. PromptLen(r) \in Nat \ {0} /\ BlockSize \in Nat \ {0} /\ ContentionFloor \in 0 .. 100
  BY ConnectorAssumption DEF PromptLen
<1>2. c \in 0 .. PromptLen(r) - 1
  BY <1>1 DEF LocalTokens
<1> DEFINE n == ExternalTokens(r, c)
           s == Smaller(PromptLen(r) - c, PromptLen(r) - 1)
<1>3. s \in Nat /\ s <= PromptLen(r) - c
  BY <1>1, <1>2 DEF Smaller
<1>4. n \in Nat /\ n <= s /\ n % BlockSize = 0
  <2> HIDE DEF s
  <2>1. n = (s \div BlockSize) * BlockSize
    BY DEF ExternalTokens, s
  <2> QED BY <1>1, <1>3, <2>1, DivBounds
<1> DEFINE f == IF conf.contention /\ conf.maxSeqs > 0 THEN ContentionFactor(busyEma[i]) ELSE 100
<1>5. f \in ContentionFloor .. 100
  BY <1>1, FactorBounds DEF ConnectorTypeOK
<1>6. ASSUME ShouldLoad(i, n) PROVE LoadDecision(n, ContentionFloor)
  <2>1. LoadDecision(n, f)
    BY <1>6 DEF ShouldLoad
  <2> HIDE DEF f, n
  <2>2. conf.minLoad * f >= conf.minLoad * ContentionFloor
    <3> DEFINE m == conf.minLoad
    <3>1. m \in Nat
      BY ConfType
    <3> HIDE DEF m
    <3>2. m * f >= m * ContentionFloor
      BY <1>1, <1>5, <3>1
    <3> QED BY <3>2 DEF m
  <2>3. conf.minLoad * f \in Nat /\ conf.minLoad * ContentionFloor \in Nat /\ n * 100 \in Nat
    BY <1>1, <1>4, <1>5, ConfType
  <2> QED BY <2>1, <2>2, <2>3 DEF LoadDecision
<1> HIDE DEF n, s, f
<1>7. Claim(i, r, c) = IF Has(PromptOf[r]) /\ n > 0 /\ ShouldLoad(i, n) THEN n ELSE 0
  BY DEF Claim, n
<1> QED BY <1>1, <1>2, <1>3, <1>4, <1>6, <1>7

(* The smoothed fullness stays a percentage *)
LEMMA BusyIsPercent ==
    ASSUME ConnectorTypeOK, NEW i \in Instances
    PROVE  BusyAfter(i) \in 0 .. 100
<1>1. busyEma[i] \in 0 .. 100 /\ conf.maxSeqs \in Nat
  BY ConfType DEF ConnectorTypeOK
<1>2. CASE conf.maxSeqs > 0
  <2> DEFINE running == {r \in Of(i) : status[r] \in {"new", "chunk", "prefilling", "running"}}
             c == Cardinality(running) * 100
  <2>1. running \subseteq Requests /\ IsFiniteSet(Requests)
    BY ConfType, ConnectorAssumption DEF Of
  <2>2. c \in Nat
    BY <2>1, FS_Subset, FS_CardinalityType
  <2>3. Fullness(i) = Smaller(100, c \div conf.maxSeqs)
    BY DEF Fullness
  <2> HIDE DEF c
  <2>4. c \div conf.maxSeqs \in Nat
    BY <1>1, <1>2, <2>2, DivBounds
  <2>5. Fullness(i) \in 0 .. 100
    BY <2>3, <2>4 DEF Smaller
  <2> QED BY <1>1, <1>2, <2>5, SMTT(30) DEF BusyAfter
<1>3. CASE ~(conf.maxSeqs > 0)
  BY <1>1, <1>3 DEF BusyAfter
<1> QED BY <1>2, <1>3

-----------------------------------------------------------------------------
(* The steps *)

LEMMA ConnectorInvInit == Init => ConnectorInv
<1> SUFFICES ASSUME Init PROVE ConnectorInv
  OBVIOUS
<1> USE DEF Init
<1>1. ConnectorTypeOK
  <2>1. meta \in [Instances -> Plan]
    BY DEF Plan
  <2>2. future \in [Requests -> Future]
    BY DEF Future
  <2>3. file \in [Prompts -> File]
    <3>1. {[exists |-> FALSE, whole |-> FALSE, genuine |-> TRUE],
           [exists |-> TRUE, whole |-> TRUE, genuine |-> TRUE]} \subseteq File
      BY DEF File
    <3> QED BY <3>1
  <2> QED BY <2>1, <2>2, <2>3 DEF ConnectorTypeOK
<1>2. MatchInv /\ PlanInv /\ LoadInv /\ ForwardInv /\ SaveInv
  BY DEF MatchInv, PlanInv, LoadInv, ForwardInv, SaveInv
<1>3. RunsOnRestoredKV /\ ReportedIsWritten /\ StoredIsGenuine /\ ClaimsAreSound
  BY DEF RunsOnRestoredKV, ReportedIsWritten, StoredIsGenuine, ClaimsAreSound
<1> QED BY <1>1, <1>2, <1>3 DEF ConnectorInv

LEMMA GetNumNewMatchedTokensKeeps ==
    ASSUME ConnectorInv, NEW i \in Instances, NEW r \in Requests, GetNumNewMatchedTokens(i, r)
    PROVE  ConnectorInv'
<1> USE ConfType DEF ConnectorInv, GetNumNewMatchedTokens, schedVars, workerVars, storeVars, Of
<1> PICK c \in LocalTokens(r) :
        /\ computed' = [computed EXCEPT ![r] = c]
        /\ external' = [external EXCEPT ![r] = Claim(i, r, c)]
        /\ needsLoad' = IF Claim(i, r, c) > 0 THEN needsLoad \union {r} ELSE needsLoad
  OBVIOUS
<1>c. /\ c \in Nat /\ Claim(i, r, c) \in Nat
      /\ Claim(i, r, c) > 0 =>
            /\ Claim(i, r, c) % BlockSize = 0
            /\ c + Claim(i, r, c) <= PromptLen(r)
            /\ LoadDecision(Claim(i, r, c), ContentionFloor)
  BY ClaimIsSound
<1>1. ConnectorTypeOK'
  BY <1>c DEF ConnectorTypeOK, Future, Plan, File
<1>2. MatchInv'
  BY <1>c DEF ConnectorTypeOK, MatchInv, ReportedIsWritten, At, Enough, Scatter
<1>3. PlanInv'
  BY DEF ConnectorTypeOK, PlanInv, Enough, Scatter, MatchInv, LoadInv, ForwardInv, SaveInv
<1>4. LoadInv'
  BY DEF ConnectorTypeOK, LoadInv, Enough, Scatter, Restored, MatchInv, PlanInv, ForwardInv, SaveInv
<1>5. ForwardInv'
  BY DEF ConnectorTypeOK, ForwardInv, At, Restored, MatchInv, PlanInv, LoadInv, SaveInv
<1>6. SaveInv'
  BY DEF ConnectorTypeOK, SaveInv, MatchInv, PlanInv, LoadInv, ForwardInv
<1>7. RunsOnRestoredKV'
  BY DEF ConnectorTypeOK, RunsOnRestoredKV, Restored, ForwardInv, At, MatchInv, PlanInv, LoadInv, SaveInv
<1>8. ReportedIsWritten'
  BY DEF ConnectorTypeOK, ReportedIsWritten, Restored, LoadInv, MatchInv, PlanInv, ForwardInv, SaveInv
<1>9. StoredIsGenuine'
  BY DEF ConnectorTypeOK, StoredIsGenuine
<1>10. ClaimsAreSound'
  <2>1. \A n \in Nat : LoadDecision(n, ContentionFloor)' <=> LoadDecision(n, ContentionFloor)
    BY DEF LoadDecision
  <2> QED BY <1>c, <2>1 DEF ConnectorTypeOK, ClaimsAreSound
<1> QED BY <1>1, <1>2, <1>3, <1>4, <1>5, <1>6, <1>7, <1>8, <1>9, <1>10 DEF ConnectorInv

LEMMA UpdateStateAfterAllocKeeps ==
    ASSUME ConnectorInv, NEW i \in Instances, NEW r \in Requests, UpdateStateAfterAlloc(i, r)
    PROVE  ConnectorInv'
<1> USE ConfType DEF ConnectorInv, UpdateStateAfterAlloc, schedVars, workerVars, storeVars, Of
<1>b. /\ nblocks'[r] \in Nat
      /\ external[r] > 0 => Enough(r, nblocks'[r])
  <2> PICK full \in BOOLEAN :
          nblocks' = [nblocks EXCEPT ![r] =
             CeilDiv(IF ~(conf.async /\ external[r] > 0) /\ full THEN PromptLen(r)
                     ELSE computed[r] + external[r] + 1, BlockSize)]
    OBVIOUS
  <2> DEFINE x == IF ~(conf.async /\ external[r] > 0) /\ full THEN PromptLen(r)
                  ELSE computed[r] + external[r] + 1
  <2>1. x \in {PromptLen(r), computed[r] + external[r] + 1} /\ nblocks'[r] = CeilDiv(x, BlockSize)
    BY DEF ConnectorTypeOK
  <2>2. PromptLen(r) \in Nat /\ computed[r] \in Nat /\ external[r] \in Nat
    BY ConnectorAssumption DEF PromptLen, ConnectorTypeOK
  <2> HIDE DEF x
  <2>3. x \in Nat
    BY <2>1, <2>2
  <2>4. external[r] > 0 => computed[r] + external[r] <= PromptLen(r)
    BY DEF ClaimsAreSound
  <2> QED BY <2>1, <2>2, <2>3, <2>4, CeilBounds, AllocatedIsEnough
<1>1. ConnectorTypeOK'
  <2>1. nblocks' \in [Requests -> Nat]
    <3>1. \A q \in Requests \ {r} : nblocks'[q] = nblocks[q]
      BY DEF ConnectorTypeOK
    <3>2. \E n : nblocks' = [nblocks EXCEPT ![r] = n]
      OBVIOUS
    <3> QED BY <1>b, <3>1, <3>2 DEF ConnectorTypeOK
  <2> QED BY <1>b, <2>1 DEF ConnectorTypeOK
<1>2. MatchInv'
  <2>1. r \in needsLoad /\ external[r] > 0 => Enough(r, loadBlocks[r])'
    BY <1>b DEF ConnectorTypeOK, Enough, Scatter
  <2>2. ASSUME NEW q \in Requests, q # r, Enough(q, loadBlocks[q]) PROVE Enough(q, loadBlocks[q])'
    BY <2>2 DEF ConnectorTypeOK, Enough, Scatter
  <2>3. /\ status'[r] \in {"loading", "new", "chunk"}
        /\ status'[r] = "loading" <=> conf.async /\ external[r] > 0
        /\ \A q \in Requests \ {r} : status'[q] = status[q]
    BY DEF ConnectorTypeOK
  <2>4. /\ status'[r] # "waiting" => r \in conf.arriving
        /\ r \in needsLoad =>
              /\ At(r)' \in {"schedule", "build"}
              /\ conf.async => status'[r] = "loading"
    BY <2>3 DEF ConnectorTypeOK, MatchInv, At
  <2>5. \A q \in Requests \ {r} : At(q)' = At(q)
    BY DEF At
  <2> QED BY <2>1, <2>2, <2>3, <2>4, <2>5 DEF MatchInv
<1>3. PlanInv'
  BY DEF ConnectorTypeOK, PlanInv, Enough, Scatter, MatchInv, LoadInv, ForwardInv, SaveInv
<1>4. LoadInv'
  BY DEF ConnectorTypeOK, LoadInv, Enough, Scatter, Restored, MatchInv, PlanInv, ForwardInv, SaveInv
<1>5. ForwardInv'
  BY DEF ConnectorTypeOK, ForwardInv, At, Restored, MatchInv, PlanInv, LoadInv, SaveInv
<1>6. SaveInv'
  BY DEF ConnectorTypeOK, SaveInv, MatchInv, PlanInv, LoadInv, ForwardInv
<1>7. RunsOnRestoredKV'
  BY DEF ConnectorTypeOK, RunsOnRestoredKV, Restored, ForwardInv, At, MatchInv, PlanInv, LoadInv, SaveInv
<1>8. ReportedIsWritten'
  BY DEF ConnectorTypeOK, ReportedIsWritten, Restored, LoadInv, MatchInv, PlanInv, ForwardInv, SaveInv
<1>9. StoredIsGenuine'
  BY DEF ConnectorTypeOK, StoredIsGenuine
<1>10. ClaimsAreSound'
  BY DEF ConnectorTypeOK, ClaimsAreSound, LoadDecision
<1> QED BY <1>1, <1>2, <1>3, <1>4, <1>5, <1>6, <1>7, <1>8, <1>9, <1>10 DEF ConnectorInv

LEMMA AllocFailsKeeps ==
    ASSUME ConnectorInv, NEW i \in Instances, NEW r \in Requests, AllocFails(i, r), MatchesAreAllocated
    PROVE  ConnectorInv'
<1> USE ConfType DEF ConnectorInv, AllocFails, MatchesAreAllocated, schedVars, workerVars, storeVars, Of
<1>1. ConnectorTypeOK'
  BY DEF ConnectorTypeOK, Future, Plan, File
<1>2. MatchInv'
  BY DEF ConnectorTypeOK, MatchInv, At, Enough, Scatter, PlanInv, LoadInv, ForwardInv, SaveInv
<1>3. PlanInv'
  BY DEF ConnectorTypeOK, PlanInv, Enough, Scatter, MatchInv, LoadInv, ForwardInv, SaveInv
<1>4. LoadInv'
  BY DEF ConnectorTypeOK, LoadInv, Enough, Scatter, Restored, MatchInv, PlanInv, ForwardInv, SaveInv
<1>5. ForwardInv'
  BY DEF ConnectorTypeOK, ForwardInv, At, Restored, MatchInv, PlanInv, LoadInv, SaveInv
<1>6. SaveInv'
  BY DEF ConnectorTypeOK, SaveInv, MatchInv, PlanInv, LoadInv, ForwardInv
<1>7. RunsOnRestoredKV'
  BY DEF ConnectorTypeOK, RunsOnRestoredKV, Restored, ForwardInv, At, MatchInv, PlanInv, LoadInv, SaveInv
<1>8. ReportedIsWritten'
  BY DEF ConnectorTypeOK, ReportedIsWritten, Restored, LoadInv, MatchInv, PlanInv, ForwardInv, SaveInv
<1>9. StoredIsGenuine'
  BY DEF ConnectorTypeOK, StoredIsGenuine
<1>10. ClaimsAreSound'
  BY DEF ConnectorTypeOK, ClaimsAreSound, LoadDecision
<1> QED BY <1>1, <1>2, <1>3, <1>4, <1>5, <1>6, <1>7, <1>8, <1>9, <1>10 DEF ConnectorInv

LEMMA ResumeLoadedKeeps ==
    ASSUME ConnectorInv, NEW i \in Instances, NEW r \in Requests, ResumeLoaded(i, r)
    PROVE  ConnectorInv'
<1> USE ConfType DEF ConnectorInv, ResumeLoaded, schedVars, workerVars, storeVars, Of
<1>1. ConnectorTypeOK'
  <2>1. PromptLen(r) \in Nat
    BY ConnectorAssumption DEF PromptLen
  <2>2. CeilDiv(PromptLen(r), BlockSize) \in Nat
    BY <2>1, CeilBounds
  <2> QED BY <2>2 DEF ConnectorTypeOK
<1>2. MatchInv'
  BY DEF ConnectorTypeOK, MatchInv, At, Enough, Scatter, PlanInv, LoadInv, ForwardInv, SaveInv
<1>3. PlanInv'
  BY DEF ConnectorTypeOK, PlanInv, Enough, Scatter, MatchInv, LoadInv, ForwardInv, SaveInv
<1>4. LoadInv'
  BY DEF ConnectorTypeOK, LoadInv, Enough, Scatter, Restored, MatchInv, PlanInv, ForwardInv, SaveInv
<1>5. ForwardInv'
  BY DEF ConnectorTypeOK, ForwardInv, At, Restored, MatchInv, ReportedIsWritten
<1>6. SaveInv'
  BY DEF ConnectorTypeOK, SaveInv, MatchInv, PlanInv, LoadInv, ForwardInv
<1>7. RunsOnRestoredKV'
  BY DEF ConnectorTypeOK, RunsOnRestoredKV, Restored, ForwardInv, At, MatchInv, PlanInv, LoadInv, SaveInv
<1>8. ReportedIsWritten'
  BY DEF ConnectorTypeOK, ReportedIsWritten, Restored, LoadInv, MatchInv, PlanInv, ForwardInv, SaveInv
<1>9. StoredIsGenuine'
  BY DEF ConnectorTypeOK, StoredIsGenuine
<1>10. ClaimsAreSound'
  BY DEF ConnectorTypeOK, ClaimsAreSound, LoadDecision
<1> QED BY <1>1, <1>2, <1>3, <1>4, <1>5, <1>6, <1>7, <1>8, <1>9, <1>10 DEF ConnectorInv

LEMMA BuildConnectorMetaKeeps ==
    ASSUME ConnectorInv, NEW i \in Instances, BuildConnectorMeta(i)
    PROVE  ConnectorInv'
<1> USE ConfType DEF ConnectorInv, BuildConnectorMeta, SavePlan, schedVars, workerVars, storeVars, Of
<1>1. ConnectorTypeOK'
  <2>1. BusyAfter(i) \in 0 .. 100
    BY BusyIsPercent
  <2>2. {[r |-> r, blocks |-> loadBlocks[r]] : r \in needsLoad \intersect {r \in conf.arriving : conf.instOf[r] = i}}
           \subseteq [r : Requests, blocks : Nat]
    BY DEF ConnectorTypeOK
  <2>3. meta' \in [Instances -> Plan]
    BY <2>2 DEF ConnectorTypeOK, Plan
  <2> QED BY <2>1, <2>3 DEF ConnectorTypeOK
<1>2. MatchInv'
  BY DEF ConnectorTypeOK, MatchInv, At, Enough, Scatter, PlanInv, LoadInv, ForwardInv, SaveInv
<1>3. PlanInv'
  BY DEF ConnectorTypeOK, PlanInv, Enough, Scatter, MatchInv, LoadInv, ForwardInv, SaveInv
<1>4. LoadInv'
  BY DEF ConnectorTypeOK, LoadInv, Enough, Scatter, Restored, MatchInv, PlanInv, ForwardInv, SaveInv
<1>5. ForwardInv'
  <2> SUFFICES ASSUME NEW r \in Requests, status[r] \in {"new", "chunk"}, external[r] > 0
               PROVE  /\ conf.async => Restored(r)
                      /\ ~conf.async =>
                            /\ At(r)' \in {"schedule", "build"} => r \in needsLoad'
                            /\ At(r)' = "load" => \E l \in meta'[conf.instOf[r]].loads : l.r = r
                            /\ At(r)' = "forward" => Restored(r)
                            /\ At(r)' \notin {"save", "poll"}
    BY DEF ForwardInv, At, Restored
  <2>1. CASE conf.instOf[r] = i
    <3>1. r \in conf.arriving /\ (~conf.async => r \in needsLoad) /\ (conf.async => Restored(r))
      BY <2>1 DEF ConnectorTypeOK, ForwardInv, MatchInv, At
    <3>2. At(r)' = "load"
      BY <2>1 DEF At, ConnectorTypeOK
    <3>3. ~conf.async => [r |-> r, blocks |-> loadBlocks[r]] \in meta'[i].loads
      BY <2>1, <3>1 DEF ConnectorTypeOK
    <3> QED BY <2>1, <3>1, <3>2, <3>3
  <2>2. CASE conf.instOf[r] # i
    <3>1. At(r)' = At(r) /\ meta'[conf.instOf[r]] = meta[conf.instOf[r]]
      BY <2>2 DEF At, ConnectorTypeOK
    <3> QED BY <2>2, <3>1 DEF ForwardInv, ConnectorTypeOK
  <2> QED BY <2>1, <2>2
<1>6. SaveInv'
  BY DEF ConnectorTypeOK, SaveInv, MatchInv, PlanInv, LoadInv, ForwardInv
<1>7. RunsOnRestoredKV'
  BY DEF ConnectorTypeOK, RunsOnRestoredKV, Restored, ForwardInv, At, MatchInv, PlanInv, LoadInv, SaveInv
<1>8. ReportedIsWritten'
  BY DEF ConnectorTypeOK, ReportedIsWritten, Restored, LoadInv, MatchInv, PlanInv, ForwardInv, SaveInv
<1>9. StoredIsGenuine'
  BY DEF ConnectorTypeOK, StoredIsGenuine
<1>10. ClaimsAreSound'
  BY DEF ConnectorTypeOK, ClaimsAreSound, LoadDecision
<1> QED BY <1>1, <1>2, <1>3, <1>4, <1>5, <1>6, <1>7, <1>8, <1>9, <1>10 DEF ConnectorInv

LEMMA StartLoadAsyncKeeps ==
    ASSUME ConnectorInv, NEW i \in Instances, StartLoadAsync(i)
    PROVE  ConnectorInv'
<1> USE ConfType DEF ConnectorInv, StartLoadAsync, schedVars, workerVars, storeVars, Of
<1> DEFINE rs == {l.r : l \in meta[i].loads}
<1>c. ASSUME NEW l \in meta[i].loads
      PROVE  (CHOOSE m \in meta[i].loads : m.r = l.r) = l
  BY DEF PlanInv
<1>d. \A r \in rs : \E l \in meta[i].loads :
          l.r = r /\ future'[r] = [state |-> "queued", blocks |-> l.blocks]
  <2> TAKE r \in rs
  <2>1. PICK l \in meta[i].loads : l.r = r
    OBVIOUS
  <2>2. r \in Requests
    BY <2>1 DEF ConnectorTypeOK, Plan
  <2>3. (CHOOSE m \in meta[i].loads : m.r = r) = l
    BY <1>c, <2>1
  <2> QED BY <2>1, <2>2, <2>3
<1>1. ConnectorTypeOK'
  <2>1. future' \in [Requests -> Future]
    <3>1. ASSUME NEW r \in rs PROVE future'[r] \in Future
      <4>1. PICK l \in meta[i].loads : future'[r] = [state |-> "queued", blocks |-> l.blocks]
        BY <1>d
      <4>2. l.blocks \in Nat
        BY DEF ConnectorTypeOK, Plan
      <4> QED BY <4>1, <4>2 DEF Future
    <3>2. ASSUME NEW r \in Requests \ rs PROVE future'[r] \in Future
      <4>1. future'[r] = future[r]
        OBVIOUS
      <4> QED BY <4>1 DEF ConnectorTypeOK
    <3>3. DOMAIN future' = Requests /\ future' = [r \in Requests |-> future'[r]]
      OBVIOUS
    <3> QED BY <3>1, <3>2, <3>3
  <2> QED BY <2>1 DEF ConnectorTypeOK, Plan
<1>2. MatchInv'
  BY DEF ConnectorTypeOK, MatchInv, At, Enough, Scatter, PlanInv, LoadInv, ForwardInv, SaveInv
<1>3. PlanInv'
  BY DEF ConnectorTypeOK, PlanInv, Enough, Scatter, MatchInv, LoadInv, ForwardInv, SaveInv
<1>4. LoadInv'
  <2>1. ASSUME NEW r \in rs
        PROVE  /\ status[r] = "loading" /\ r \notin received /\ r \notin needsLoad
               /\ Enough(r, future'[r].blocks) /\ future'[r].state = "queued"
    <3> PICK l \in meta[i].loads : l.r = r /\ future'[r] = [state |-> "queued", blocks |-> l.blocks]
      BY <1>d
    <3> QED BY DEF ConnectorTypeOK, Plan, PlanInv, MatchInv, At
  <2>2. ASSUME NEW r \in pending' \ rs PROVE r \in pending /\ future'[r] = future[r]
    BY DEF ConnectorTypeOK
  <2> QED BY <2>1, <2>2, ZenonT(40) DEF LoadInv, Enough, Scatter, Restored
<1>5. ForwardInv'
  BY DEF ConnectorTypeOK, ForwardInv, At, Restored, MatchInv, PlanInv, LoadInv, SaveInv
<1>6. SaveInv'
  BY DEF ConnectorTypeOK, SaveInv, MatchInv, PlanInv, LoadInv, ForwardInv
<1>7. RunsOnRestoredKV'
  BY DEF ConnectorTypeOK, RunsOnRestoredKV, Restored, ForwardInv, At, MatchInv, PlanInv, LoadInv, SaveInv
<1>8. ReportedIsWritten'
  BY DEF ConnectorTypeOK, ReportedIsWritten, Restored, LoadInv, MatchInv, PlanInv, ForwardInv, SaveInv
<1>9. StoredIsGenuine'
  BY DEF ConnectorTypeOK, StoredIsGenuine
<1>10. ClaimsAreSound'
  BY DEF ConnectorTypeOK, ClaimsAreSound, LoadDecision
<1> QED BY <1>1, <1>2, <1>3, <1>4, <1>5, <1>6, <1>7, <1>8, <1>9, <1>10 DEF ConnectorInv

LEMMA StartLoadSyncKeeps ==
    ASSUME ConnectorInv, NEW i \in Instances, StartLoadSync(i)
    PROVE  ConnectorInv'
<1> USE ConfType DEF ConnectorInv, StartLoadSync, schedVars, workerVars, storeVars, Of
<1> DEFINE rs == {l.r : l \in meta[i].loads}
<1>c. ASSUME NEW l \in meta[i].loads
      PROVE  (CHOOSE m \in meta[i].loads : m.r = l.r) = l
  BY DEF PlanInv
<1>d. \A r \in rs : phase'[i] = "forward" => \E l \in meta[i].loads :
          l.r = r /\ scattered'[r] = Scatter(r, l.blocks)
  <2> SUFFICES ASSUME NEW r \in rs, phase'[i] = "forward"
               PROVE  \E l \in meta[i].loads : l.r = r /\ scattered'[r] = Scatter(r, l.blocks)
    OBVIOUS
  <2>1. PICK l \in meta[i].loads : l.r = r
    OBVIOUS
  <2>2. r \in Requests
    BY <2>1 DEF ConnectorTypeOK, Plan
  <2>3. (CHOOSE m \in meta[i].loads : m.r = r) = l
    BY <1>c, <2>1
  <2>4. \A q \in rs : Loadable(PromptOf[q])
    BY DEF ConnectorTypeOK
  <2> QED BY <2>1, <2>2, <2>3, <2>4
<1>e. \A r \in Requests : r \notin rs \/ phase'[i] # "forward" => scattered'[r] = scattered[r]
  BY DEF ConnectorTypeOK
<1>1. ConnectorTypeOK'
  <2>1. scattered' \in [Requests -> Nat]
    <3>1. ASSUME NEW r \in Requests PROVE scattered'[r] \in Nat
      BY <1>d, <1>e, ScatterIsNat DEF ConnectorTypeOK, Plan
    <3> QED BY <3>1 DEF ConnectorTypeOK
  <2> QED BY <2>1 DEF ConnectorTypeOK
<1>2. MatchInv'
  BY DEF ConnectorTypeOK, MatchInv, At, Enough, Scatter, PlanInv, LoadInv, ForwardInv, SaveInv
<1>3. PlanInv'
  BY DEF ConnectorTypeOK, PlanInv, Enough, Scatter, MatchInv, LoadInv, ForwardInv, SaveInv
<1>4. LoadInv'
  BY DEF ConnectorTypeOK, LoadInv, Enough, Scatter, Restored, MatchInv, PlanInv, ForwardInv, SaveInv
<1>5. ForwardInv'
  <2> SUFFICES ASSUME NEW r \in Requests, status[r] \in {"new", "chunk"}, external[r] > 0
               PROVE  /\ At(r)' \in {"schedule", "build"} => r \in needsLoad
                      /\ At(r)' = "load" => \E l \in meta[conf.instOf[r]].loads : l.r = r
                      /\ At(r)' = "forward" => Restored(r)'
                      /\ At(r)' \notin {"save", "poll"}
    BY DEF ForwardInv, At
  <2>1. CASE conf.instOf[r] = i
    <3>1. At(r)' \in {"forward", "failed"} /\ r \in rs
      BY <2>1 DEF At, ConnectorTypeOK, ForwardInv
    <3>2. ASSUME At(r)' = "forward" PROVE Restored(r)'
      <4> PICK l \in meta[i].loads : l.r = r /\ scattered'[r] = Scatter(r, l.blocks)
        BY <1>d, <2>1, <3>1, <3>2 DEF At
      <4> QED BY DEF PlanInv, Enough, Restored
    <3> QED BY <3>1, <3>2
  <2>2. CASE conf.instOf[r] # i
    <3>1. At(r)' = At(r)
      BY <2>2 DEF At, ConnectorTypeOK
    <3>2. r \notin rs
      BY <2>2 DEF PlanInv
    <3>3. Restored(r)' <=> Restored(r)
      BY <1>e, <3>2 DEF Restored
    <3> QED BY <3>1, <3>3 DEF ForwardInv
  <2> QED BY <2>1, <2>2
<1>6. SaveInv'
  BY DEF ConnectorTypeOK, SaveInv, MatchInv, PlanInv, LoadInv, ForwardInv
<1>7. RunsOnRestoredKV'
  <2> SUFFICES ASSUME NEW r \in Requests, status[r] \in {"prefilling", "running"}, external[r] > 0
               PROVE  Restored(r)'
    BY DEF RunsOnRestoredKV
  <2>1. r \notin rs
    BY DEF PlanInv
  <2> QED BY <1>e, <2>1 DEF RunsOnRestoredKV, Restored
<1>8. ReportedIsWritten'
  BY DEF ConnectorTypeOK, ReportedIsWritten, Restored, LoadInv, MatchInv, PlanInv, ForwardInv, SaveInv
<1>9. StoredIsGenuine'
  BY DEF ConnectorTypeOK, StoredIsGenuine
<1>10. ClaimsAreSound'
  BY DEF ConnectorTypeOK, ClaimsAreSound, LoadDecision
<1> QED BY <1>1, <1>2, <1>3, <1>4, <1>5, <1>6, <1>7, <1>8, <1>9, <1>10 DEF ConnectorInv

LEMMA LoadOneKeeps ==
    ASSUME ConnectorInv, NEW r \in Requests, LoadOne(r)
    PROVE  ConnectorInv'
<1> USE ConfType DEF ConnectorInv, LoadOne, schedVars, workerVars, storeVars, Of
<1>c. /\ status[r] = "loading" /\ r \notin received
      /\ \A q \in Requests \ {r} : scattered'[q] = scattered[q]
  BY DEF LoadInv, ConnectorTypeOK
<1>1. ConnectorTypeOK'
  <2>1. Scatter(r, future[r].blocks) \in Nat
    BY ScatterIsNat DEF ConnectorTypeOK, Future
  <2>2. \E s \in {"done", "raised"} : future' = [future EXCEPT ![r].state = s]
    OBVIOUS
  <2>3. \A s \in {"done", "raised"} : [future[r] EXCEPT !.state = s] \in Future
    BY DEF ConnectorTypeOK, Future
  <2>4. future' \in [Requests -> Future]
    BY <2>2, <2>3 DEF ConnectorTypeOK
  <2> QED BY <2>1, <2>4 DEF ConnectorTypeOK
<1>2. MatchInv'
  BY DEF ConnectorTypeOK, MatchInv, At, Enough, Scatter, PlanInv, LoadInv, ForwardInv, SaveInv
<1>3. PlanInv'
  BY DEF ConnectorTypeOK, PlanInv, Enough, Scatter, MatchInv, LoadInv, ForwardInv, SaveInv
<1>4. LoadInv'
  <2>1. ASSUME NEW q \in pending, q # r
        PROVE  future'[q] = future[q] /\ (Restored(q)' <=> Restored(q))
    BY <2>1 DEF ConnectorTypeOK, Restored
  <2>2. future'[r].blocks = future[r].blocks
    BY DEF ConnectorTypeOK, Future
  <2>3. future'[r].state = "done" => Restored(r)'
    BY DEF ConnectorTypeOK, Future, LoadInv, Enough, Restored
  <2> QED BY <2>1, <2>2, <2>3 DEF LoadInv, Enough, Scatter
<1>5. ForwardInv'
  BY <1>c DEF ForwardInv, At, Restored
<1>6. SaveInv'
  BY DEF ConnectorTypeOK, SaveInv, MatchInv, PlanInv, LoadInv, ForwardInv
<1>7. RunsOnRestoredKV'
  BY <1>c DEF RunsOnRestoredKV, Restored
<1>8. ReportedIsWritten'
  BY <1>c DEF ConnectorTypeOK, ReportedIsWritten, Restored

<1>9. StoredIsGenuine'
  BY DEF ConnectorTypeOK, StoredIsGenuine
<1>10. ClaimsAreSound'
  BY DEF ConnectorTypeOK, ClaimsAreSound, LoadDecision
<1> QED BY <1>1, <1>2, <1>3, <1>4, <1>5, <1>6, <1>7, <1>8, <1>9, <1>10 DEF ConnectorInv

LEMMA ForwardKeeps ==
    ASSUME ConnectorInv, NEW i \in Instances, Forward(i)
    PROVE  ConnectorInv'
<1> USE ConfType DEF ConnectorInv, Forward, schedVars, workerVars, storeVars, Of
<1>1. ConnectorTypeOK'
  BY DEF ConnectorTypeOK, Future, Plan, File
<1>2. MatchInv'
  BY DEF ConnectorTypeOK, MatchInv, At, Enough, Scatter, PlanInv, LoadInv, ForwardInv, SaveInv
<1>3. PlanInv'
  BY DEF ConnectorTypeOK, PlanInv, Enough, Scatter, MatchInv, LoadInv, ForwardInv, SaveInv
<1>4. LoadInv'
  BY DEF ConnectorTypeOK, LoadInv, Enough, Scatter, Restored, MatchInv, PlanInv, ForwardInv, SaveInv
<1>5. ForwardInv'
  BY DEF ConnectorTypeOK, ForwardInv, At, Restored, MatchInv, PlanInv, LoadInv, SaveInv
<1>6. SaveInv'
  BY DEF ConnectorTypeOK, SaveInv, MatchInv, PlanInv, LoadInv, ForwardInv
<1>7. RunsOnRestoredKV'
  BY DEF ConnectorTypeOK, RunsOnRestoredKV, Restored, ForwardInv, At, MatchInv, PlanInv, LoadInv, SaveInv
<1>8. ReportedIsWritten'
  BY DEF ConnectorTypeOK, ReportedIsWritten, Restored, LoadInv, MatchInv, PlanInv, ForwardInv, SaveInv
<1>9. StoredIsGenuine'
  BY DEF ConnectorTypeOK, StoredIsGenuine
<1>10. ClaimsAreSound'
  BY DEF ConnectorTypeOK, ClaimsAreSound, LoadDecision
<1> QED BY <1>1, <1>2, <1>3, <1>4, <1>5, <1>6, <1>7, <1>8, <1>9, <1>10 DEF ConnectorInv

LEMMA BeginSaveKeeps ==
    ASSUME ConnectorInv, NEW i \in Instances, NEW r \in Requests, BeginSave(i, r)
    PROVE  ConnectorInv'
<1> USE ConfType DEF ConnectorInv, BeginSave, schedVars, workerVars, storeVars, Of
<1>1. ConnectorTypeOK'
  BY DEF ConnectorTypeOK, Future, Plan, File
<1>2. MatchInv'
  BY DEF ConnectorTypeOK, MatchInv, At, Enough, Scatter, PlanInv, LoadInv, ForwardInv, SaveInv
<1>3. PlanInv'
  BY DEF ConnectorTypeOK, PlanInv, Enough, Scatter, MatchInv, LoadInv, ForwardInv, SaveInv
<1>4. LoadInv'
  BY DEF ConnectorTypeOK, LoadInv, Enough, Scatter, Restored, MatchInv, PlanInv, ForwardInv, SaveInv
<1>5. ForwardInv'
  BY DEF ConnectorTypeOK, ForwardInv, At, Restored, MatchInv, PlanInv, LoadInv, SaveInv
<1>6. SaveInv'
  BY DEF ConnectorTypeOK, SaveInv, MatchInv, PlanInv, LoadInv, ForwardInv
<1>7. RunsOnRestoredKV'
  BY DEF ConnectorTypeOK, RunsOnRestoredKV, Restored, ForwardInv, At, MatchInv, PlanInv, LoadInv, SaveInv
<1>8. ReportedIsWritten'
  BY DEF ConnectorTypeOK, ReportedIsWritten, Restored, LoadInv, MatchInv, PlanInv, ForwardInv, SaveInv
<1>9. StoredIsGenuine'
  <2>1. status[r] = "running" /\ (external[r] > 0 => scattered[r] >= computed[r] + external[r])
    BY DEF SaveInv, RunsOnRestoredKV, Restored
  <2> QED BY <2>1 DEF ConnectorTypeOK, File, StoredIsGenuine
<1>10. ClaimsAreSound'
  BY DEF ConnectorTypeOK, ClaimsAreSound, LoadDecision
<1> QED BY <1>1, <1>2, <1>3, <1>4, <1>5, <1>6, <1>7, <1>8, <1>9, <1>10 DEF ConnectorInv

LEMMA EndSaveKeeps ==
    ASSUME ConnectorInv, NEW i \in Instances, NEW r \in Requests, EndSave(i, r)
    PROVE  ConnectorInv'
<1> USE ConfType DEF ConnectorInv, EndSave, schedVars, workerVars, storeVars, Of
<1>1. ConnectorTypeOK'
  <2>1. meta' \in [Instances -> Plan]
    <3>1. meta[i] \in Plan
      BY DEF ConnectorTypeOK
    <3>2. [meta[i] EXCEPT !.saves = @ \ {r}] \in Plan
      BY <3>1, SavesShrink
    <3> QED BY <3>2 DEF ConnectorTypeOK
  <2>2. file' \in [Prompts -> File]
    <3>1. PromptOf[r] \in Prompts
      BY ConnectorAssumption
    <3>2. [file[PromptOf[r]] EXCEPT !.whole = (writers[PromptOf[r]] = {i})] \in File
      BY <3>1, ZenonT(40) DEF ConnectorTypeOK, File
    <3> QED BY <3>1, <3>2 DEF ConnectorTypeOK
  <2> QED BY <2>1, <2>2 DEF ConnectorTypeOK
<1>2. MatchInv'
  BY DEF ConnectorTypeOK, MatchInv, At, Enough, Scatter, PlanInv, LoadInv, ForwardInv, SaveInv
<1>3. PlanInv'
  BY DEF ConnectorTypeOK, PlanInv, Enough, Scatter, MatchInv, LoadInv, ForwardInv, SaveInv
<1>4. LoadInv'
  BY DEF ConnectorTypeOK, LoadInv, Enough, Scatter, Restored, MatchInv, PlanInv, ForwardInv, SaveInv
<1>5. ForwardInv'
  BY DEF ConnectorTypeOK, ForwardInv, At, Restored, MatchInv, PlanInv, LoadInv, SaveInv
<1>6. SaveInv'
  BY DEF ConnectorTypeOK, SaveInv, MatchInv, PlanInv, LoadInv, ForwardInv
<1>7. RunsOnRestoredKV'
  BY DEF ConnectorTypeOK, RunsOnRestoredKV, Restored, ForwardInv, At, MatchInv, PlanInv, LoadInv, SaveInv
<1>8. ReportedIsWritten'
  BY DEF ConnectorTypeOK, ReportedIsWritten, Restored, LoadInv, MatchInv, PlanInv, ForwardInv, SaveInv
<1>9. StoredIsGenuine'
  BY DEF ConnectorTypeOK, StoredIsGenuine
<1>10. ClaimsAreSound'
  BY DEF ConnectorTypeOK, ClaimsAreSound, LoadDecision
<1> QED BY <1>1, <1>2, <1>3, <1>4, <1>5, <1>6, <1>7, <1>8, <1>9, <1>10 DEF ConnectorInv

LEMMA SavesDoneKeeps ==
    ASSUME ConnectorInv, NEW i \in Instances, SavesDone(i)
    PROVE  ConnectorInv'
<1> USE ConfType DEF ConnectorInv, SavesDone, schedVars, workerVars, storeVars, Of
<1>1. ConnectorTypeOK'
  BY DEF ConnectorTypeOK, Future, Plan, File
<1>2. MatchInv'
  BY DEF ConnectorTypeOK, MatchInv, At, Enough, Scatter, PlanInv, LoadInv, ForwardInv, SaveInv
<1>3. PlanInv'
  BY DEF ConnectorTypeOK, PlanInv, Enough, Scatter, MatchInv, LoadInv, ForwardInv, SaveInv
<1>4. LoadInv'
  BY DEF ConnectorTypeOK, LoadInv, Enough, Scatter, Restored, MatchInv, PlanInv, ForwardInv, SaveInv
<1>5. ForwardInv'
  BY DEF ConnectorTypeOK, ForwardInv, At, Restored, MatchInv, PlanInv, LoadInv, SaveInv
<1>6. SaveInv'
  BY DEF ConnectorTypeOK, SaveInv, MatchInv, PlanInv, LoadInv, ForwardInv
<1>7. RunsOnRestoredKV'
  BY DEF ConnectorTypeOK, RunsOnRestoredKV, Restored, ForwardInv, At, MatchInv, PlanInv, LoadInv, SaveInv
<1>8. ReportedIsWritten'
  BY DEF ConnectorTypeOK, ReportedIsWritten, Restored, LoadInv, MatchInv, PlanInv, ForwardInv, SaveInv
<1>9. StoredIsGenuine'
  BY DEF ConnectorTypeOK, StoredIsGenuine
<1>10. ClaimsAreSound'
  BY DEF ConnectorTypeOK, ClaimsAreSound, LoadDecision
<1> QED BY <1>1, <1>2, <1>3, <1>4, <1>5, <1>6, <1>7, <1>8, <1>9, <1>10 DEF ConnectorInv

LEMMA GetFinishedKeeps ==
    ASSUME ConnectorInv, NEW i \in Instances, GetFinished(i)
    PROVE  ConnectorInv'
<1> USE ConfType DEF ConnectorInv, GetFinished, schedVars, workerVars, storeVars, Of
<1>1. ConnectorTypeOK'
  BY DEF ConnectorTypeOK, Future, Plan, File
<1>2. MatchInv'
  BY DEF ConnectorTypeOK, MatchInv, At, Enough, Scatter, PlanInv, LoadInv, ForwardInv, SaveInv
<1>3. PlanInv'
  BY DEF ConnectorTypeOK, PlanInv, Enough, Scatter, MatchInv, LoadInv, ForwardInv, SaveInv
<1>4. LoadInv'
  BY DEF ConnectorTypeOK, LoadInv, Enough, Scatter, Restored, MatchInv, PlanInv, ForwardInv, SaveInv
<1>5. ForwardInv'
  BY DEF ConnectorTypeOK, ForwardInv, At, Restored, MatchInv, PlanInv, LoadInv, SaveInv
<1>6. SaveInv'
  BY DEF ConnectorTypeOK, SaveInv, MatchInv, PlanInv, LoadInv, ForwardInv
<1>7. RunsOnRestoredKV'
  BY DEF ConnectorTypeOK, RunsOnRestoredKV, Restored, ForwardInv, At, MatchInv, PlanInv, LoadInv, SaveInv
<1>8. ReportedIsWritten'
  BY DEF ConnectorTypeOK, ReportedIsWritten, Restored, LoadInv, MatchInv, PlanInv, ForwardInv, SaveInv
<1>9. StoredIsGenuine'
  BY DEF ConnectorTypeOK, StoredIsGenuine
<1>10. ClaimsAreSound'
  BY DEF ConnectorTypeOK, ClaimsAreSound, LoadDecision
<1> QED BY <1>1, <1>2, <1>3, <1>4, <1>5, <1>6, <1>7, <1>8, <1>9, <1>10 DEF ConnectorInv

LEMMA RequestFinishedKeeps ==
    ASSUME ConnectorInv, NEW i \in Instances, NEW r \in Requests, RequestFinished(i, r)
    PROVE  ConnectorInv'
<1> USE ConfType DEF ConnectorInv, RequestFinished, schedVars, workerVars, storeVars, Of
<1>1. ConnectorTypeOK'
  BY DEF ConnectorTypeOK, Future, Plan, File
<1>2. MatchInv'
  BY DEF ConnectorTypeOK, MatchInv, At, Enough, Scatter, PlanInv, LoadInv, ForwardInv, SaveInv
<1>3. PlanInv'
  BY DEF ConnectorTypeOK, PlanInv, Enough, Scatter, MatchInv, LoadInv, ForwardInv, SaveInv
<1>4. LoadInv'
  BY DEF ConnectorTypeOK, LoadInv, Enough, Scatter, Restored, MatchInv, PlanInv, ForwardInv, SaveInv
<1>5. ForwardInv'
  BY DEF ConnectorTypeOK, ForwardInv, At, Restored, MatchInv, PlanInv, LoadInv, SaveInv
<1>6. SaveInv'
  BY DEF ConnectorTypeOK, SaveInv, MatchInv, PlanInv, LoadInv, ForwardInv
<1>7. RunsOnRestoredKV'
  BY DEF ConnectorTypeOK, RunsOnRestoredKV, Restored, ForwardInv, At, MatchInv, PlanInv, LoadInv, SaveInv
<1>8. ReportedIsWritten'
  BY DEF ConnectorTypeOK, ReportedIsWritten, Restored, LoadInv, MatchInv, PlanInv, ForwardInv, SaveInv
<1>9. StoredIsGenuine'
  BY DEF ConnectorTypeOK, StoredIsGenuine
<1>10. ClaimsAreSound'
  BY DEF ConnectorTypeOK, ClaimsAreSound, LoadDecision
<1> QED BY <1>1, <1>2, <1>3, <1>4, <1>5, <1>6, <1>7, <1>8, <1>9, <1>10 DEF ConnectorInv

LEMMA ConnectorInvNext ==
    ASSUME MatchesAreAllocated, ConnectorInv, [Next]_vars
    PROVE  ConnectorInv'
<1>1. ASSUME NEW i \in Instances, Step(i) PROVE ConnectorInv'
  BY <1>1, BuildConnectorMetaKeeps, StartLoadAsyncKeeps, StartLoadSyncKeeps, ForwardKeeps,
     SavesDoneKeeps, GetFinishedKeeps DEF Step
<1>2. ASSUME NEW i \in Instances, NEW r \in Requests,
             \/ GetNumNewMatchedTokens(i, r) \/ UpdateStateAfterAlloc(i, r) \/ AllocFails(i, r)
             \/ ResumeLoaded(i, r) \/ BeginSave(i, r) \/ EndSave(i, r) \/ RequestFinished(i, r)
      PROVE  ConnectorInv'
  BY <1>2, GetNumNewMatchedTokensKeeps, UpdateStateAfterAllocKeeps, AllocFailsKeeps,
     ResumeLoadedKeeps, BeginSaveKeeps, EndSaveKeeps, RequestFinishedKeeps
<1>3. CASE UNCHANGED vars
  <2> USE <1>3 DEF vars, schedVars, workerVars, storeVars
  <2>1. (ConnectorTypeOK /\ MatchInv /\ PlanInv)'
    BY DEF ConnectorInv, ConnectorTypeOK, MatchInv, PlanInv, At, Enough, Scatter
  <2>2. (LoadInv /\ ForwardInv /\ SaveInv)'
    BY DEF ConnectorInv, LoadInv, ForwardInv, SaveInv, At, Enough, Scatter, Restored
  <2>3. (RunsOnRestoredKV /\ ReportedIsWritten /\ StoredIsGenuine /\ ClaimsAreSound)'
    BY DEF ConnectorInv, RunsOnRestoredKV, ReportedIsWritten, StoredIsGenuine, ClaimsAreSound,
           Restored, LoadDecision
  <2> QED BY <2>1, <2>2, <2>3 DEF ConnectorInv
<1> QED BY <1>1, <1>2, <1>3, LoadOneKeeps DEF Next

LEMMA ConnectorInvHolds ==
    ASSUME MatchesAreAllocated
    PROVE  Spec => []ConnectorInv
<1>1. ConnectorInv /\ [Next]_vars => ConnectorInv'
  BY ConnectorInvNext
<1> QED BY <1>1, ConnectorInvInit, PTL DEF Spec

-----------------------------------------------------------------------------
(* The results *)

(* A request that skipped the prefill of claimed tokens computes only on   *)
(* blocks that hold their KV, however loads, engine steps and other        *)
(* instances interleave (start_load_kv, _load_one, get_finished)           *)
THEOREM ClaimedKVIsRestored ==
    ASSUME MatchesAreAllocated
    PROVE  Spec => []RunsOnRestoredKV
<1>1. ConnectorInv => RunsOnRestoredKV
  BY DEF ConnectorInv
<1> QED BY <1>1, ConnectorInvHolds, PTL

(* A load is reported once, for a request that waits for it, and after it  *)
(* was written (_load_one, get_finished)                                   *)
THEOREM ReportsAreWritten ==
    ASSUME MatchesAreAllocated
    PROVE  Spec => []ReportedIsWritten
<1>1. ConnectorInv => ReportedIsWritten
  BY DEF ConnectorInv
<1> QED BY <1>1, ConnectorInvHolds, PTL

(* Only the KV of a whole, finished prefill is stored, also when several   *)
(* instances race for a key (build_connector_meta, wait_for_save)          *)
THEOREM StoreIsGenuine ==
    ASSUME MatchesAreAllocated
    PROVE  Spec => []StoredIsGenuine
<1>1. ConnectorInv => StoredIsGenuine
  BY DEF ConnectorInv
<1> QED BY <1>1, ConnectorInvHolds, PTL

(* A claim is whole blocks, ends within the prompt and is worth loading at *)
(* the contention floor, for every block size, policy and batch size       *)
(* (get_num_new_matched_tokens, _should_load)                              *)
THEOREM ClaimsHold ==
    ASSUME MatchesAreAllocated
    PROVE  Spec => []ClaimsAreSound
<1>1. ConnectorInv => ClaimsAreSound
  BY DEF ConnectorInv
<1> QED BY <1>1, ConnectorInvHolds, PTL

-----------------------------------------------------------------------------
(***************************************************************************)
(* The tiered reuse store and the requests served from it.                 *)
(*                                                                         *)
(* The store, for all its users: recency orders the tiers, the index and   *)
(* the byte counters are exact, every tier is within its capacity between  *)
(* operations.  Serving requests uses the store only through its           *)
(* operations, so what is proved of the store holds under LMCacheStrategy  *)
(* too; and a request that fits the top tier is resident there when it has *)
(* been served, so that the same request served again recomputes nothing.  *)
(***************************************************************************)

(* The store. *)

(* The clock of _tick is ahead of every entry, and no two entries were     *)
(* used at the same tick.                                                  *)
TicksAreUnique ==
    /\ \A s \in DOMAIN entries : entries[s].last_used <= clock
    /\ \A r, s \in DOMAIN entries :
          r # s => entries[r].last_used # entries[s].last_used

(* The inductive invariant *)
LruInv == TypeOK /\ IndexIsExact /\ TicksAreUnique /\ TiersAreOrdered

-----------------------------------------------------------------------------

\* A new store satisfies the invariant (TieredCacheStore.__init__).
LEMMA LruInit == StoreInit => LruInv
BY TiersAssumption, SlotsAssumption
   DEF StoreInit, LruInv, TypeOK, IndexIsExact, TicksAreUnique, TiersAreOrdered, NoHot, Tiers

\* Moving bytes between two tiers keeps the counts integers
\* (TieredCacheStore._move).
LEMMA RecountType ==
    ASSUME used \in [Tiers -> Int], NEW a \in Tiers, NEW b \in Tiers, NEW n \in Nat
    PROVE  Recount(a, b, n) \in [Tiers -> Int]
BY DEF Recount

\* _touch and _promote preserve the invariant: the promoted entry is newer than
\* everything, so it may sit above everything.
LEMMA PromoteStep ==
    ASSUME LruInv, clock < MaxClock, NEW s \in DOMAIN entries, TouchAndPromote(s)
    PROVE  LruInv'
<1> USE DEF LruInv
<1>0. /\ NTiers \in Nat /\ 1 \in Tiers /\ MaxClock \in Nat /\ clock \in Nat
      /\ entries[s] \in Entry /\ s \in Slots
  BY TiersAssumption DEF Tiers, TypeOK
<1> DEFINE e == [tier |-> 1, nbytes |-> entries[s].nbytes, last_used |-> clock + 1]
<1>1. e \in Entry /\ e.tier = 1 /\ e.last_used = clock + 1
  BY <1>0 DEF Entry
<1>2. entries' = [entries EXCEPT ![s] = e] /\ DOMAIN entries' = DOMAIN entries
  BY DEF TouchAndPromote
<1>3. /\ entries'[s] = e
      /\ \A r \in DOMAIN entries \ {s} : entries'[r] = entries[r]
  BY <1>2
<1>4. TypeOK'
  <2>1. used' \in [Tiers -> Int] /\ level' \in 0 .. NTiers
    <3>1. entries[s].tier \in Tiers /\ entries[s].nbytes \in Nat
      BY <1>0 DEF Entry
    <3>2. Recount(entries[s].tier, 1, entries[s].nbytes) \in [Tiers -> Int]
      BY <1>0, <3>1, RecountType DEF TypeOK
    <3>3. 1 \in 0 .. NTiers
      BY TiersAssumption
    <3> QED BY <3>2, <3>3 DEF TouchAndPromote, TypeOK
  <2>2. hot' \in [slot : Slots \cup {NoSlot}, nbytes : Nat]
    BY <1>0 DEF TouchAndPromote, Entry
  <2>3. clock' \in 0 .. MaxClock /\ index' = index
    BY <1>0 DEF TouchAndPromote, TypeOK
  <2> QED BY <1>1, <1>2, <1>3, <2>1, <2>2, <2>3 DEF TypeOK
<1>5. IndexIsExact'
  BY <1>2 DEF TouchAndPromote, IndexIsExact
<1>6. \A r \in DOMAIN entries : entries[r].last_used \in Nat /\ entries[r].tier \in Nat \ {0}
  BY DEF TypeOK, Entry, Tiers
<1>7. TicksAreUnique'
  BY <1>0, <1>1, <1>2, <1>3, <1>6 DEF TicksAreUnique, TouchAndPromote
<1>8. TiersAreOrdered'
  BY <1>0, <1>1, <1>2, <1>3, <1>6 DEF TiersAreOrdered, TicksAreUnique
<1> QED BY <1>4, <1>5, <1>7, <1>8

\* Removing an entry preserves the invariant (TieredCacheStore.evict).
LEMMA RemoveStep ==
    ASSUME LruInv, NEW s \in DOMAIN entries, Remove(s), UNCHANGED <<clock, level>>,
           hot' \in {hot, NoHot}
    PROVE  LruInv'
<1> USE DEF LruInv
<1>1. /\ DOMAIN entries' = DOMAIN entries \ {s}
      /\ \A r \in DOMAIN entries' : entries'[r] = entries[r]
  BY DEF Remove, Without
<1>2. used' \in [Tiers -> Int] /\ index' = index \ {s}
  BY DEF Remove, TypeOK, Entry
<1>3. hot' \in [slot : Slots \cup {NoSlot}, nbytes : Nat]
  BY DEF TypeOK, NoHot
<1>4. TypeOK'
  BY <1>1, <1>2, <1>3 DEF TypeOK
<1>5. IndexIsExact'
  BY <1>1, <1>2 DEF IndexIsExact
<1>6. TicksAreUnique' /\ TiersAreOrdered'
  BY <1>1 DEF TicksAreUnique, TiersAreOrdered
<1> QED BY <1>4, <1>5, <1>6

\* Every step of the store preserves the invariant.
LEMMA LruStep ==
    ASSUME LruInv, [StoreNext]_tierVars
    PROVE  LruInv'
<1> USE DEF LruInv
<1>0. /\ NTiers \in Nat /\ 1 \in Tiers /\ MaxClock \in Nat /\ clock \in Nat
      /\ \A r \in DOMAIN entries :
            /\ r \in Slots /\ entries[r] \in Entry
            /\ entries[r].last_used \in Nat /\ entries[r].tier \in Nat \ {0}
  BY TiersAssumption DEF TypeOK, Entry, Tiers
<1>1. ASSUME NEW s \in Slots, NEW n \in Sizes, PutNew(s, n)
      PROVE  LruInv'
  <2> DEFINE e == [tier |-> 1, nbytes |-> n, last_used |-> clock + 1]
  <2>1. n \in Nat /\ e \in Entry
    BY <1>0, TiersAssumption DEF Entry
  <2>2. /\ DOMAIN entries' = DOMAIN entries \cup {s}
        /\ entries'[s] = e
        /\ \A r \in DOMAIN entries : entries'[r] = entries[r]
        /\ s \notin DOMAIN entries
    BY <1>1 DEF PutNew, IndexIsExact
  <2>3. TypeOK'
    <3>1. used' \in [Tiers -> Int] /\ clock' \in 0 .. MaxClock /\ level' \in 0 .. NTiers
      BY <1>0, <1>1, <2>1, TiersAssumption DEF PutNew, TypeOK
    <3>2. index' \subseteq Slots /\ hot' \in [slot : Slots \cup {NoSlot}, nbytes : Nat]
      BY <1>1, <2>1 DEF PutNew, TypeOK
    <3> QED BY <1>0, <2>1, <2>2, <3>1, <3>2 DEF TypeOK
  <2>4. IndexIsExact'
    BY <1>1, <2>2 DEF PutNew, IndexIsExact
  <2>5. TicksAreUnique'
    BY <1>0, <1>1, <2>2 DEF PutNew, TicksAreUnique
  <2>6. TiersAreOrdered'
    BY <1>0, <1>1, <2>2 DEF TiersAreOrdered, TicksAreUnique
  <2> QED BY <2>3, <2>4, <2>5, <2>6
<1>2. ASSUME NEW s \in Slots, PutAgain(s) \/ Get(s)
      PROVE  LruInv'
  BY <1>2, PromoteStep DEF PutAgain, Get, IndexIsExact
<1>3. ASSUME NEW s \in Slots, Evict(s)
      PROVE  LruInv'
  BY <1>3, RemoveStep DEF Evict
<1>4. ASSUME NEW s \in Slots, DemoteLru(s)
      PROVE  LruInv'
  <2>1. level \in Tiers /\ level + 1 \in Tiers /\ level \in Nat
    BY <1>0, <1>4 DEF DemoteLru, Tiers
  <2>2. s \in DOMAIN entries /\ entries[s].tier = level
    BY <1>4 DEF DemoteLru, IsLruIn, InTier
  <2>3. /\ DOMAIN entries' = DOMAIN entries
        /\ entries'[s] = [tier |-> level + 1, nbytes |-> entries[s].nbytes,
                          last_used |-> entries[s].last_used]
        /\ \A r \in DOMAIN entries \ {s} : entries'[r] = entries[r]
    BY <1>4, <2>2 DEF DemoteLru
  <2>4. /\ entries'[s] \in Entry /\ entries'[s].tier = level + 1
        /\ entries'[s].last_used = entries[s].last_used
    BY <1>0, <2>1, <2>2, <2>3 DEF Entry
  <2>5. TypeOK'
    <3>1. used' \in [Tiers -> Int]
      BY <1>0, <1>4, <2>1, <2>2, RecountType DEF DemoteLru, TypeOK, Entry
    <3> QED BY <1>0, <1>4, <2>3, <2>4, <3>1 DEF DemoteLru, TypeOK
  <2>6. IndexIsExact'
    BY <1>4, <2>3 DEF DemoteLru, IndexIsExact
  <2>7. TicksAreUnique'
    BY <1>4, <2>3, <2>4 DEF DemoteLru, TicksAreUnique
  <2>8. \A r \in DOMAIN entries \ {s} :
           entries[r].tier = level => entries[r].last_used > entries[s].last_used
    BY <1>0, <1>4, <2>2 DEF DemoteLru, IsLruIn, InTier, TicksAreUnique
  <2>9. TiersAreOrdered'
    <3> SUFFICES ASSUME NEW r \in DOMAIN entries, NEW q \in DOMAIN entries,
                        entries'[r].tier < entries'[q].tier
                 PROVE  entries'[r].last_used > entries'[q].last_used
      BY <2>3 DEF TiersAreOrdered
    <3>1. CASE r # s /\ q # s
      BY <2>3, <3>1 DEF TiersAreOrdered
    <3>2. CASE r = s
      BY <1>0, <2>1, <2>2, <2>3, <2>4, <3>2 DEF TiersAreOrdered
    <3>3. CASE q = s /\ r # s
      BY <1>0, <2>1, <2>2, <2>3, <2>4, <2>8, <3>3 DEF TiersAreOrdered
    <3> QED BY <3>1, <3>2, <3>3
  <2> QED BY <2>5, <2>6, <2>7, <2>9
<1>5. ASSUME NEW s \in Slots, DropLru(s)
      PROVE  LruInv'
  BY <1>5, RemoveStep DEF DropLru, IsLruIn, InTier
<1>6. CASE NextTier
  BY <1>0, <1>6 DEF NextTier, TypeOK, Tiers, IndexIsExact, TicksAreUnique, TiersAreOrdered
<1>7. CASE UNCHANGED tierVars
  BY <1>7 DEF tierVars, TypeOK, IndexIsExact, TicksAreUnique, TiersAreOrdered
<1> QED BY <1>1, <1>2, <1>3, <1>4, <1>5, <1>6, <1>7 DEF StoreNext, Cascade

-----------------------------------------------------------------------------

\* The invariant holds in every reachable state.
LEMMA LruAlways == StoreSpec => []LruInv
<1>1. LruInv /\ [StoreNext]_tierVars => LruInv'
  BY LruStep
<1> QED BY LruInit, <1>1, PTL DEF StoreSpec

\* The dictionaries keep their types and no entry is demoted past the last tier
\* (TieredCacheStore._enforce_capacity).
THEOREM StoreTypes == StoreSpec => []TypeOK
<1>1. LruInv => TypeOK
  BY DEF LruInv
<1> QED BY LruAlways, <1>1, PTL

\* has never names a handle that get would miss: index and entries agree after
\* every step of every operation (TieredCacheStore.has, put, evict).
THEOREM IndexAgrees == StoreSpec => []IndexIsExact
<1>1. LruInv => IndexIsExact
  BY DEF LruInv
<1> QED BY LruAlways, <1>1, PTL

\* A faster tier only holds entries used more recently than those of a slower
\* one, whatever the capacities and sizes (TieredCacheStore._promote, _move).
THEOREM RecencyOrdersTiers == StoreSpec => []TiersAreOrdered
<1>1. LruInv => TiersAreOrdered
  BY DEF LruInv
<1> QED BY LruAlways, <1>1, PTL

\* The cascade drops only the entry used longest ago in the whole store, not just
\* in its tier (TieredCacheStore._enforce_capacity).
THEOREM OnlyTheOldestIsDropped == StoreSpec => DropsOnlyTheOldest
<1> DEFINE A == level # 0 =>
                  \A s \in DOMAIN entries \ DOMAIN entries' :
                      \A r \in DOMAIN entries :
                          entries[s].last_used <= entries[r].last_used
<1>1. ASSUME LruInv, [StoreNext]_tierVars
      PROVE  [A]_tierVars
  <2> SUFFICES ASSUME StoreNext, level # 0,
                      NEW q \in DOMAIN entries \ DOMAIN entries',
                      NEW r \in DOMAIN entries
               PROVE  entries[q].last_used <= entries[r].last_used
    BY <1>1
  <2>1. \A s \in Slots, n \in Sizes : ~PutNew(s, n)
    BY DEF PutNew
  <2>2. \A s \in Slots : ~PutAgain(s) /\ ~Get(s) /\ ~Evict(s)
    BY DEF PutAgain, Get, Evict
  <2>3. \A s \in Slots : ~DemoteLru(s)
    BY DEF DemoteLru
  <2>4. ~NextTier
    BY DEF NextTier
  <2>5. PICK s \in Slots : DropLru(s)
    BY <2>1, <2>2, <2>3, <2>4 DEF StoreNext, Cascade
  <2>6. q = s
    BY <2>5 DEF DropLru, Remove, Without
  <2>7. /\ s \in DOMAIN entries /\ entries[s].tier = NTiers
        /\ \A p \in DOMAIN entries :
              entries[p].tier = NTiers => entries[s].last_used <= entries[p].last_used
    BY <2>5 DEF DropLru, IsLruIn, InTier
  <2>8. /\ NTiers \in Nat /\ entries[r].tier \in 1 .. NTiers
        /\ entries[r].last_used \in Nat /\ entries[s].last_used \in Nat
    BY <1>1, <2>7, TiersAssumption DEF LruInv, TypeOK, Entry, Tiers
  <2>9. CASE entries[r].tier = NTiers
    BY <2>6, <2>7, <2>9
  <2>10. CASE entries[r].tier < NTiers
    BY <1>1, <2>6, <2>7, <2>8, <2>10 DEF LruInv, TiersAreOrdered
  <2> QED BY <2>8, <2>9, <2>10
<1> QED BY LruAlways, <1>1, PTL DEF StoreSpec, DropsOnlyTheOldest

-----------------------------------------------------------------------------
(* The byte counters.  What _used[t] has to be is the number of bytes of   *)
(* the slots in t, a finite set because every step adds or takes one entry *)

\* A slot with n bytes adds n to a count, whatever n (_Entry.nbytes).
LEMMA EntryBytes ==
    ASSUME NEW s, NEW n \in Nat
    PROVE  IsFiniteSet({s} \X (1 .. n)) /\ Cardinality({s} \X (1 .. n)) = n
<1> DEFINE f == [i \in 1 .. n |-> <<s, i>>]
<1>1. IsFiniteSet(1 .. n) /\ Cardinality(1 .. n) = n
  BY FS_Interval
<1>2. f \in Bijection(1 .. n, {s} \X (1 .. n))
  <2>1. f \in [1 .. n -> {s} \X (1 .. n)]
    OBVIOUS
  <2>2. \A a, b \in 1 .. n : f[a] = f[b] => a = b
    OBVIOUS
  <2>3. \A t \in {s} \X (1 .. n) : \E i \in 1 .. n : f[i] = t
    OBVIOUS
  <2> HIDE DEF f
  <2> QED BY <2>1, <2>2, <2>3 DEF Bijection, Injection, Surjection, IsInjective
<1>3. ExistsBijection(1 .. n, {s} \X (1 .. n))
  BY <1>2 DEF ExistsBijection
<1> QED BY <1>1, <1>3, FS_Bijection

\* The elements of Bytes, one by one.
LEMMA BytesIn ==
    ASSUME NEW e, NEW S
    PROVE  \A p : p \in Bytes(e, S) <=>
              \E s \in S : \E i \in 1 .. e[s].nbytes : p = <<s, i>>
BY DEF Bytes

\* One slot more or less changes the count by its size.
LEMMA BytesSplit ==
    ASSUME NEW e, NEW S, NEW s, s \notin S, e[s].nbytes \in Nat
    PROVE  /\ IsFiniteSet(Bytes(e, S)) <=> IsFiniteSet(Bytes(e, S \cup {s}))
           /\ IsFiniteSet(Bytes(e, S)) =>
                 Cardinality(Bytes(e, S \cup {s}))
                     = Cardinality(Bytes(e, S)) + e[s].nbytes
<1> DEFINE A == Bytes(e, S)  B == {s} \X (1 .. e[s].nbytes)
<1>1. Bytes(e, S \cup {s}) = A \cup B
  BY DEF Bytes
<1>2. A \cap B = {}
  BY BytesIn
<1>3. IsFiniteSet(B) /\ Cardinality(B) = e[s].nbytes
  BY EntryBytes
<1>4. IsFiniteSet(A \cup B) => IsFiniteSet(A)
  BY FS_Subset
<1>5. IsFiniteSet(A) =>
         /\ IsFiniteSet(A \cup B)
         /\ Cardinality(A \cup B) = Cardinality(A) + Cardinality(B) - Cardinality(A \cap B)
  BY <1>3, FS_Union
<1>6. Cardinality(A \cap B) = 0
  BY <1>2, FS_EmptySet
<1>7. IsFiniteSet(A) => Cardinality(A) \in Nat
  BY FS_CardinalityType
<1>8. IsFiniteSet(A) <=> IsFiniteSet(A \cup B)
  BY <1>4, <1>5
<1>9. IsFiniteSet(A) => Cardinality(A \cup B) = Cardinality(A) + e[s].nbytes
  BY <1>3, <1>5, <1>6, <1>7
<1> QED BY <1>1, <1>8, <1>9

\* The count depends on the sizes of the entries only.
LEMMA BytesSame ==
    ASSUME NEW e, NEW d, NEW S, \A s \in S : d[s].nbytes = e[s].nbytes
    PROVE  Bytes(d, S) = Bytes(e, S)
BY DEF Bytes

(* u is the byte count of the slots S in e *)
Counts(u, e, S) == IsFiniteSet(Bytes(e, S)) /\ u = Cardinality(Bytes(e, S))

\* A count after an entry arrived in a tier (_move, put).
LEMMA CountGain ==
    ASSUME NEW e, NEW d, NEW S, NEW s, s \notin S, d[s].nbytes \in Nat,
           \A r \in S : d[r].nbytes = e[r].nbytes, NEW u, Counts(u, e, S)
    PROVE  Counts(u + d[s].nbytes, d, S \cup {s})
<1>1. Bytes(d, S) = Bytes(e, S)
  BY BytesSame
<1> QED BY <1>1, BytesSplit DEF Counts

\* A count after an entry left a tier (_move, evict).
LEMMA CountLoss ==
    ASSUME NEW e, NEW d, NEW S, NEW s \in S, e[s].nbytes \in Nat,
           \A r \in S \ {s} : d[r].nbytes = e[r].nbytes, NEW u, Counts(u, e, S)
    PROVE  Counts(u - e[s].nbytes, d, S \ {s})
<1> DEFINE R == S \ {s}
<1>1. R \cup {s} = S /\ s \notin R
  OBVIOUS
<1> HIDE DEF R
<1>2. Bytes(d, R) = Bytes(e, R)
  BY BytesSame DEF R
<1>3. IsFiniteSet(Bytes(e, R)) /\ u = Cardinality(Bytes(e, R)) + e[s].nbytes
  BY <1>1, BytesSplit DEF Counts
<1>4. Cardinality(Bytes(e, R)) \in Nat
  BY <1>3, FS_CardinalityType
<1>5. Counts(u - e[s].nbytes, d, R)
  BY <1>2, <1>3, <1>4 DEF Counts
<1> QED BY <1>5 DEF R

\* An entry takes no more bytes than its tier counts.
LEMMA CountCovers ==
    ASSUME NEW e, NEW S, NEW s \in S, e[s].nbytes \in Nat, NEW u, Counts(u, e, S)
    PROVE  /\ u \in Nat /\ e[s].nbytes <= u
           /\ S = {s} => u = e[s].nbytes
<1> DEFINE B == {s} \X (1 .. e[s].nbytes)
<1>1. B \subseteq Bytes(e, S)
  BY DEF Bytes
<1>2. Cardinality(B) = e[s].nbytes
  BY EntryBytes
<1>3. S = {s} => Bytes(e, S) = B
  BY DEF Bytes
<1>4. Cardinality(B) <= Cardinality(Bytes(e, S)) /\ Cardinality(Bytes(e, S)) \in Nat
  BY <1>1, FS_Subset, FS_CardinalityType DEF Counts
<1> QED BY <1>2, <1>3, <1>4 DEF Counts

(* The inductive invariant of the books: every count is exact, and the     *)
(* tiers the cascade is done with fit (all of them, when none is running)  *)
Fits(t) == used[t] <= Capacity[t]

BookInv ==
    \A t \in Tiers :
        /\ Counts(used[t], entries, InTier(t))
        /\ level = 0 \/ t < level => Fits(t)

\* The empty store's counts are exact (TieredCacheStore.__init__).
LEMMA BookInit == StoreInit => BookInv
<1> SUFFICES ASSUME StoreInit, NEW t \in Tiers
             PROVE  Counts(used[t], entries, InTier(t)) /\ Fits(t)
  BY DEF BookInv
<1>1. InTier(t) = {}
  BY DEF StoreInit, InTier
<1>2. Bytes(entries, {}) = {}
  BY DEF Bytes
<1>3. IsFiniteSet({}) /\ Cardinality({}) = 0
  BY FS_EmptySet
<1>4. used[t] = 0 /\ Capacity[t] \in Nat
  BY TiersAssumption DEF StoreInit
<1> QED BY <1>1, <1>2, <1>3, <1>4 DEF Counts, Fits

\* _move: bytes leave one tier's count and enter another's.
LEMMA MoveCounts ==
    ASSUME TypeOK, BookInv, NEW s \in DOMAIN entries,
           NEW a \in Tiers, a = entries[s].tier, NEW b \in Tiers, a # b,
           DOMAIN entries' = DOMAIN entries,
           entries'[s].tier = b, entries'[s].nbytes = entries[s].nbytes,
           \A r \in DOMAIN entries \ {s} : entries'[r] = entries[r],
           used' = Recount(a, b, entries[s].nbytes)
    PROVE  /\ \A t \in Tiers : Counts(used'[t], entries', InTier(t)')
           /\ \A t \in Tiers \ {a, b} : used'[t] = used[t]
<1>1. entries[s].nbytes \in Nat /\ used \in [Tiers -> Int]
  BY DEF TypeOK, Entry
<1>2. /\ used'[a] = used[a] - entries[s].nbytes
      /\ used'[b] = used[b] + entries[s].nbytes
      /\ \A t \in Tiers \ {a, b} : used'[t] = used[t]
  BY <1>1 DEF Recount
<1>3. /\ InTier(a)' = InTier(a) \ {s} /\ s \in InTier(a)
      /\ InTier(b)' = InTier(b) \cup {s} /\ s \notin InTier(b)
      /\ \A t \in Tiers \ {a, b} : InTier(t)' = InTier(t) /\ s \notin InTier(t)
  BY DEF InTier
<1>4. \A t \in Tiers : InTier(t) \subseteq DOMAIN entries
  BY DEF InTier
<1>5. Counts(used'[a], entries', InTier(a)')
  <2>1. Counts(used[a], entries, InTier(a))
    BY DEF BookInv
  <2>2. \A r \in InTier(a) \ {s} : entries'[r].nbytes = entries[r].nbytes
    BY <1>4
  <2>3. Counts(used[a] - entries[s].nbytes, entries', InTier(a) \ {s})
    BY <1>1, <1>3, <2>1, <2>2, CountLoss
  <2> QED BY <1>2, <1>3, <2>3
<1>6. Counts(used'[b], entries', InTier(b)')
  <2>1. Counts(used[b], entries, InTier(b))
    BY DEF BookInv
  <2>2. \A r \in InTier(b) : entries'[r].nbytes = entries[r].nbytes
    BY <1>3, <1>4
  <2>3. Counts(used[b] + entries'[s].nbytes, entries', InTier(b) \cup {s})
    BY <1>1, <1>3, <2>1, <2>2, CountGain
  <2> QED BY <1>2, <1>3, <2>3
<1>7. ASSUME NEW t \in Tiers \ {a, b}
      PROVE  Counts(used'[t], entries', InTier(t)')
  <2>1. Bytes(entries', InTier(t)) = Bytes(entries, InTier(t))
    BY <1>3, <1>4, BytesSame
  <2> QED BY <1>2, <1>3, <2>1 DEF BookInv, Counts
<1> QED BY <1>2, <1>5, <1>6, <1>7

\* evict: the bytes leave the entry's tier and no other.
LEMMA RemoveCounts ==
    ASSUME TypeOK, BookInv, NEW s \in DOMAIN entries, Remove(s)
    PROVE  /\ \A t \in Tiers : Counts(used'[t], entries', InTier(t)')
           /\ \A t \in Tiers : used'[t] <= used[t]
<1>0. PICK a \in Tiers : a = entries[s].tier
  BY DEF TypeOK, Entry
<1>1. entries[s].nbytes \in Nat /\ used \in [Tiers -> Int]
  BY DEF TypeOK, Entry
<1>2. /\ used'[a] = used[a] - entries[s].nbytes
      /\ \A t \in Tiers \ {a} : used'[t] = used[t]
  BY <1>0, <1>1 DEF Remove
<1>3. /\ DOMAIN entries' = DOMAIN entries \ {s}
      /\ \A r \in DOMAIN entries' : entries'[r] = entries[r]
  BY DEF Remove, Without
<1>4. /\ InTier(a)' = InTier(a) \ {s} /\ s \in InTier(a)
      /\ \A t \in Tiers \ {a} : InTier(t)' = InTier(t) /\ s \notin InTier(t)
  BY <1>0, <1>3 DEF InTier
<1>5. \A t \in Tiers : InTier(t) \subseteq DOMAIN entries
  BY DEF InTier
<1>6. Counts(used'[a], entries', InTier(a)')
  <2>1. Counts(used[a], entries, InTier(a))
    BY <1>1 DEF BookInv
  <2>2. \A r \in InTier(a) \ {s} : entries'[r].nbytes = entries[r].nbytes
    BY <1>3, <1>5, <1>1
  <2>3. Counts(used[a] - entries[s].nbytes, entries', InTier(a) \ {s})
    BY <1>1, <1>4, <2>1, <2>2, CountLoss
  <2> QED BY <1>2, <1>4, <2>3
<1>7. ASSUME NEW t \in Tiers \ {a}
      PROVE  Counts(used'[t], entries', InTier(t)')
  <2>1. Bytes(entries', InTier(t)) = Bytes(entries, InTier(t))
    BY <1>3, <1>4, <1>5, BytesSame
  <2> QED BY <1>2, <1>4, <2>1 DEF BookInv, Counts
<1>8. \A t \in Tiers : used'[t] <= used[t]
  BY <1>1, <1>2
<1> QED BY <1>6, <1>7, <1>8

\* _touch and _promote: the entry's bytes reach the top tier's count.
LEMMA PromoteCounts ==
    ASSUME LruInv, BookInv, level = 0, NEW s \in DOMAIN entries, TouchAndPromote(s)
    PROVE  BookInv'
<1>1. TypeOK /\ entries[s] \in Entry /\ 1 \in Tiers
  BY TiersAssumption DEF LruInv, TypeOK, Tiers
<1>2. /\ DOMAIN entries' = DOMAIN entries
      /\ entries'[s].tier = 1 /\ entries'[s].nbytes = entries[s].nbytes
      /\ \A r \in DOMAIN entries \ {s} : entries'[r] = entries[r]
  BY DEF TouchAndPromote
<1>3. CASE entries[s].tier = 1
  <2>1. ASSUME NEW t \in Tiers
        PROVE  InTier(t)' = InTier(t) /\ Bytes(entries', InTier(t)) = Bytes(entries, InTier(t))
    <3>1. InTier(t)' = InTier(t) /\ InTier(t) \subseteq DOMAIN entries
      BY <1>2, <1>3 DEF InTier
    <3> QED BY <1>2, <3>1, BytesSame
  <2>2. used' = used /\ level' = level
    BY <1>3 DEF TouchAndPromote
  <2> QED BY <2>1, <2>2 DEF BookInv, Counts, Fits
<1>4. CASE entries[s].tier # 1
  <2>1. used' = Recount(entries[s].tier, 1, entries[s].nbytes) /\ level' = 1
    BY <1>4 DEF TouchAndPromote
  <2>2. entries[s].tier \in Tiers
    BY <1>1 DEF Entry
  <2>3. \A t \in Tiers : Counts(used'[t], entries', InTier(t)')
    BY <1>1, <1>2, <1>4, <2>1, <2>2, MoveCounts
  <2>4. \A t \in Tiers : ~(t < 1)
    BY TiersAssumption DEF Tiers
  <2> QED BY <2>1, <2>3, <2>4 DEF BookInv
<1> QED BY <1>3, <1>4

\* Every step of the store keeps the books.
LEMMA BookStep ==
    ASSUME LruInv, BookInv, [StoreNext]_tierVars
    PROVE  BookInv'
<1>0. /\ TypeOK /\ IndexIsExact /\ NTiers \in Nat /\ 1 \in Tiers
      /\ used \in [Tiers -> Int] /\ Capacity \in [Tiers -> Nat] /\ level \in Nat
  BY TiersAssumption DEF LruInv, TypeOK, Tiers
<1>1. ASSUME NEW s \in Slots, NEW n \in Sizes, PutNew(s, n)
      PROVE  BookInv'
  <2>1. /\ n \in Nat /\ s \notin DOMAIN entries
        /\ DOMAIN entries' = DOMAIN entries \cup {s}
        /\ entries'[s].tier = 1 /\ entries'[s].nbytes = n
        /\ \A r \in DOMAIN entries : entries'[r] = entries[r]
    BY <1>0, <1>1, TiersAssumption DEF PutNew, IndexIsExact
  <2>2. /\ used'[1] = used[1] + n /\ level' = 1
        /\ \A t \in Tiers \ {1} : used'[t] = used[t]
    BY <1>0, <1>1 DEF PutNew
  <2>3. /\ InTier(1)' = InTier(1) \cup {s} /\ s \notin InTier(1)
        /\ \A t \in Tiers \ {1} : InTier(t)' = InTier(t)
        /\ \A t \in Tiers : InTier(t) \subseteq DOMAIN entries
    BY <2>1 DEF InTier
  <2>4. Counts(used'[1], entries', InTier(1)')
    <3>1. Counts(used[1], entries, InTier(1))
      BY <1>0 DEF BookInv
    <3>2. \A r \in InTier(1) : entries'[r].nbytes = entries[r].nbytes
      BY <1>0, <2>1, <2>3
    <3>3. Counts(used[1] + entries'[s].nbytes, entries', InTier(1) \cup {s})
      BY <2>1, <2>3, <3>1, <3>2, CountGain
    <3> QED BY <2>1, <2>2, <2>3, <3>3
  <2>5. ASSUME NEW t \in Tiers \ {1}
        PROVE  Counts(used'[t], entries', InTier(t)')
    <3>1. Bytes(entries', InTier(t)) = Bytes(entries, InTier(t))
      BY <2>1, <2>3, BytesSame
    <3> QED BY <2>2, <2>3, <3>1 DEF BookInv, Counts
  <2>6. \A t \in Tiers : ~(t < 1)
    BY <1>0 DEF Tiers
  <2> QED BY <2>2, <2>4, <2>5, <2>6 DEF BookInv
<1>2. ASSUME NEW s \in Slots, PutAgain(s) \/ Get(s)
      PROVE  BookInv'
  BY <1>0, <1>2, PromoteCounts DEF PutAgain, Get, IndexIsExact
<1>3. ASSUME NEW s \in Slots, Evict(s)
      PROVE  BookInv'
  <2>1. s \in DOMAIN entries /\ Remove(s) /\ level = 0 /\ level' = 0
    BY <1>3 DEF Evict
  <2>2. used' \in [Tiers -> Int]
    BY <1>0, <2>1 DEF Remove, TypeOK, Entry
  <2> QED BY <1>0, <2>1, <2>2, RemoveCounts DEF BookInv, Fits
<1>4. ASSUME NEW s \in Slots, DemoteLru(s)
      PROVE  BookInv'
  <2>1. /\ level \in Tiers /\ level + 1 \in Tiers /\ level # level + 1
        /\ s \in DOMAIN entries /\ entries[s].tier = level
    BY <1>0, <1>4 DEF DemoteLru, IsLruIn, InTier, Tiers
  <2>2. /\ DOMAIN entries' = DOMAIN entries
        /\ entries'[s].tier = level + 1 /\ entries'[s].nbytes = entries[s].nbytes
        /\ \A r \in DOMAIN entries \ {s} : entries'[r] = entries[r]
        /\ used' = Recount(level, level + 1, entries[s].nbytes) /\ level' = level
    BY <1>4, <2>1 DEF DemoteLru
  <2>3. /\ \A t \in Tiers : Counts(used'[t], entries', InTier(t)')
        /\ \A t \in Tiers \ {level, level + 1} : used'[t] = used[t]
    BY <1>0, <2>1, <2>2, MoveCounts
  <2>4. \A t \in Tiers : t < level => t \in Tiers \ {level, level + 1}
    BY <1>0 DEF Tiers
  <2>5. level # 0
    BY <2>1 DEF Tiers
  <2> QED BY <2>2, <2>3, <2>4, <2>5 DEF BookInv, Fits
<1>5. ASSUME NEW s \in Slots, DropLru(s)
      PROVE  BookInv'
  <2>1. /\ s \in DOMAIN entries /\ entries[s].tier = level /\ Remove(s)
        /\ level' = level
    BY <1>5 DEF DropLru, IsLruIn, InTier
  <2>2. used' \in [Tiers -> Int]
    BY <1>0, <2>1 DEF Remove, TypeOK, Entry
  <2> QED BY <1>0, <2>1, <2>2, RemoveCounts DEF BookInv, Fits
<1>6. CASE NextTier
  <2>1. /\ level \in Tiers /\ used' = used /\ entries' = entries
        /\ level' = IF level = NTiers THEN 0 ELSE level + 1
        /\ ~OverCapacity(level) \/ InTier(level) = {}
    BY <1>6 DEF NextTier
  <2>2. Fits(level)
    <3>1. CASE ~OverCapacity(level)
      BY <1>0, <2>1, <3>1 DEF OverCapacity, Fits
    <3>2. CASE InTier(level) = {}
      <4>1. Bytes(entries, {}) = {} /\ Cardinality({}) = 0
        BY FS_EmptySet DEF Bytes
      <4>2. used[level] = 0
        BY <2>1, <3>2, <4>1 DEF BookInv, Counts
      <4> QED BY <1>0, <2>1, <4>2 DEF Fits
    <3> QED BY <2>1, <3>1, <3>2
  <2>3. \A t \in Tiers : level' = 0 \/ t < level' => t < level \/ t = level
    BY <1>0, <2>1 DEF Tiers
  <2>4. \A t \in Tiers : InTier(t)' = InTier(t)
    BY <2>1 DEF InTier
  <2> QED BY <2>1, <2>2, <2>3, <2>4 DEF BookInv, Fits
<1>7. CASE UNCHANGED tierVars
  BY <1>7 DEF tierVars, BookInv, Fits, InTier
<1> QED BY <1>1, <1>2, <1>3, <1>4, <1>5, <1>6, <1>7 DEF StoreNext, Cascade

\* The books are exact in every reachable state.
LEMMA BookAlways == StoreSpec => []BookInv
<1>1. LruInv /\ BookInv /\ [StoreNext]_tierVars => BookInv'
  BY BookStep
<1> QED BY LruAlways, BookInit, <1>1, PTL DEF StoreSpec

\* The counters of _used are what the resident entries occupy, in the middle of
\* a cascade too, for every mix of operations (TieredCacheStore._move, put, evict).
THEOREM CountersAreExact == StoreSpec => []UsedIsExact
<1>1. BookInv => UsedIsExact
  BY DEF BookInv, Counts, UsedIsExact
<1> QED BY BookAlways, <1>1, PTL

\* One walk from the top leaves every tier within its capacity, whatever the
\* capacities and sizes (TieredCacheStore._enforce_capacity).
THEOREM CapacityIsKept == StoreSpec => []WithinCapacity
<1>1. BookInv => WithinCapacity
  BY DEF BookInv, Fits, WithinCapacity
<1> QED BY BookAlways, <1>1, PTL

-----------------------------------------------------------------------------
(* Where the entry an operation is about ends                              *)

(* Entry e, the newest of the store, has been pushed past the tiers that   *)
(* are too small for it and, once the cascade has left its tier, fits there*)
Placed(e, n) ==
    /\ e.last_used = clock /\ e.nbytes = n
    /\ \A t \in Tiers : t < e.tier => Capacity[t] < n
    /\ level = 0 \/ e.tier < level => n <= Capacity[e.tier]

(* The inductive form of HotIsInFastestFit *)
HotInv ==
    hot # NoHot =>
        \/ hot.slot \in DOMAIN entries /\ Placed(entries[hot.slot], hot.nbytes)
        \/ DOMAIN entries = {} /\ \A t \in Tiers : Capacity[t] < hot.nbytes

\* The newest entry of a store in recency order is the victim of a tier only when
\* it is alone there; then the tier is smaller than the entry
\* (TieredCacheStore._lru_in, _enforce_capacity).
LEMMA NewestIsLastVictim ==
    ASSUME LruInv, BookInv, NEW t \in Tiers, OverCapacity(t), NEW s, IsLruIn(s, t),
           entries[s].last_used = clock
    PROVE  Capacity[t] < entries[s].nbytes /\ InTier(t) = {s}
<1>1. s \in InTier(t) /\ s \in DOMAIN entries /\ entries[s] \in Entry
  BY DEF IsLruIn, InTier, LruInv, TypeOK
<1>2. \A r \in InTier(t) : r = s
  <2> SUFFICES ASSUME NEW r \in InTier(t), r # s PROVE FALSE
    OBVIOUS
  <2>1. r \in DOMAIN entries /\ entries[r].last_used <= clock /\ entries[r].last_used \in Nat
    BY DEF InTier, LruInv, TicksAreUnique, TypeOK, Entry
  <2>2. clock <= entries[r].last_used /\ clock \in Nat
    BY TiersAssumption DEF IsLruIn, LruInv, TypeOK
  <2>3. entries[r].last_used # entries[s].last_used
    BY <1>1, <2>1 DEF LruInv, TicksAreUnique
  <2> QED BY <2>1, <2>2, <2>3
<1>3. InTier(t) = {s}
  BY <1>1, <1>2
<1>4. Counts(used[t], entries, InTier(t)) /\ entries[s].nbytes \in Nat
  BY <1>1 DEF BookInv, Entry
<1>5. used[t] = entries[s].nbytes
  BY <1>1, <1>3, <1>4, CountCovers
<1>6. Capacity[t] \in Nat
  BY TiersAssumption
<1> QED BY <1>3, <1>4, <1>5, <1>6 DEF OverCapacity

\* An entry whose tier fits is no larger than the tier.
LEMMA EntryFits ==
    ASSUME TypeOK, BookInv, NEW s \in DOMAIN entries, Fits(entries[s].tier)
    PROVE  entries[s].nbytes <= Capacity[entries[s].tier]
<1>1. PICK t \in Tiers : t = entries[s].tier
  BY DEF TypeOK, Entry
<1>2. s \in InTier(t) /\ Counts(used[t], entries, InTier(t)) /\ entries[s].nbytes \in Nat
  BY <1>1 DEF BookInv, InTier, TypeOK, Entry
<1>3. entries[s].nbytes <= used[t] /\ used[t] \in Nat
  BY <1>2, CountCovers
<1> QED BY <1>1, <1>2, <1>3, TiersAssumption DEF Fits

\* _touch and _promote place the entry at the top.
LEMMA PromotePlaces ==
    ASSUME LruInv, BookInv, BookInv', TypeOK', level = 0,
           NEW s \in DOMAIN entries, TouchAndPromote(s)
    PROVE  HotInv'
<1>1. /\ hot' = [slot |-> s, nbytes |-> entries[s].nbytes] /\ clock' = clock + 1
      /\ s \in DOMAIN entries'
      /\ entries'[s] = [tier |-> 1, nbytes |-> entries[s].nbytes, last_used |-> clock + 1]
  BY DEF TouchAndPromote
<1>2. NTiers \in Nat /\ 1 \in Tiers /\ level \in Nat
  BY TiersAssumption DEF Tiers, LruInv, TypeOK
<1>3. level' = 0 => entries[s].nbytes <= Capacity[1]
  <2> SUFFICES ASSUME level' = 0 PROVE entries[s].nbytes <= Capacity[1]
    OBVIOUS
  <2>1. entries[s].tier = 1
    BY DEF TouchAndPromote
  <2>2. Fits(1)
    BY <1>2 DEF BookInv
  <2> QED BY <2>1, <2>2, EntryFits DEF LruInv
<1>4. level' \in {0, 1}
  BY DEF TouchAndPromote
<1>5. Placed(entries[s], entries[s].nbytes)'
  BY <1>1, <1>2, <1>3, <1>4 DEF Placed, Tiers
<1> QED BY <1>1, <1>5 DEF HotInv, Placed

\* Removing an entry other than the one the operation is about, or the last one
\* (TieredCacheStore.evict).
LEMMA OtherRemoved ==
    ASSUME HotInv, hot # NoHot, NEW s \in DOMAIN entries, Remove(s), hot.slot # s,
           UNCHANGED <<clock, level, hot>>
    PROVE  HotInv'
<1>1. /\ DOMAIN entries' = DOMAIN entries \ {s}
      /\ \A r \in DOMAIN entries' : entries'[r] = entries[r]
  BY DEF Remove, Without
<1>2. hot.slot \in DOMAIN entries /\ Placed(entries[hot.slot], hot.nbytes)
  BY DEF HotInv
<1>3. hot.slot \in DOMAIN entries' /\ entries'[hot.slot] = entries[hot.slot]
  BY <1>1, <1>2
<1> QED BY <1>2, <1>3 DEF HotInv, Placed

\* Every step of the store keeps the placement.
LEMMA HotStep ==
    ASSUME LruInv, LruInv', BookInv, BookInv', HotInv, [StoreNext]_tierVars
    PROVE  HotInv'
<1>0. /\ TypeOK /\ TypeOK' /\ IndexIsExact /\ NTiers \in Nat /\ 1 \in Tiers
      /\ Capacity \in [Tiers -> Nat] /\ level \in Nat /\ clock \in Nat
      /\ used \in [Tiers -> Int]
  BY TiersAssumption DEF LruInv, TypeOK, Tiers
<1>1. ASSUME NEW s \in Slots, NEW n \in Sizes, PutNew(s, n)
      PROVE  HotInv'
  <2>1. /\ hot' = [slot |-> s, nbytes |-> n] /\ s \in DOMAIN entries'
        /\ entries'[s] = [tier |-> 1, nbytes |-> n, last_used |-> clock + 1]
        /\ clock' = clock + 1 /\ level' = 1
    BY <1>1 DEF PutNew
  <2>2. Placed(entries[s], n)'
    BY <1>0, <2>1 DEF Placed, Tiers
  <2> QED BY <2>1, <2>2 DEF HotInv, Placed
<1>2. ASSUME NEW s \in Slots, PutAgain(s) \/ Get(s)
      PROVE  HotInv'
  BY <1>0, <1>2, PromotePlaces DEF PutAgain, Get, IndexIsExact
<1>3. ASSUME NEW s \in Slots, Evict(s)
      PROVE  HotInv'
  <2>1. CASE hot.slot = s \/ hot = NoHot
    BY <1>3, <2>1 DEF Evict, HotInv
  <2>2. CASE hot.slot # s /\ hot # NoHot
    BY <1>3, <2>2, OtherRemoved DEF Evict
  <2> QED BY <2>1, <2>2
<1>4. ASSUME NEW s \in Slots, DemoteLru(s)
      PROVE  HotInv'
  <2>0. CASE hot = NoHot
    BY <1>4, <2>0 DEF DemoteLru, HotInv
  <2>1. CASE hot # NoHot
    <3>1. /\ level \in Tiers /\ level + 1 \in Tiers
          /\ OverCapacity(level) /\ IsLruIn(s, level)
          /\ s \in DOMAIN entries /\ entries[s].tier = level
      BY <1>0, <1>4 DEF DemoteLru, IsLruIn, InTier, Tiers
    <3>2. /\ DOMAIN entries' = DOMAIN entries
          /\ entries'[s] = [tier |-> level + 1, nbytes |-> entries[s].nbytes,
                            last_used |-> entries[s].last_used]
          /\ \A r \in DOMAIN entries \ {s} : entries'[r] = entries[r]
          /\ UNCHANGED <<clock, level, hot>>
      BY <1>4, <3>1 DEF DemoteLru
    <3>3. hot.slot \in DOMAIN entries /\ Placed(entries[hot.slot], hot.nbytes)
      BY <2>1, <3>1 DEF HotInv
    <3>4. CASE hot.slot # s
      BY <3>2, <3>3, <3>4 DEF HotInv, Placed
    <3>5. CASE hot.slot = s
      <4>1. /\ entries[s].last_used = clock /\ entries[s].nbytes = hot.nbytes
            /\ \A t \in Tiers : t < level => Capacity[t] < hot.nbytes
        BY <3>1, <3>3, <3>5 DEF Placed
      <4>2. Capacity[level] < hot.nbytes
        BY <3>1, <4>1, NewestIsLastVictim
      <4>3. \A t \in Tiers : t < level + 1 => Capacity[t] < hot.nbytes
        BY <1>0, <4>1, <4>2 DEF Tiers
      <4>4. level # 0 /\ ~(level + 1 < level)
        BY <1>0, <3>1 DEF Tiers
      <4>5. Placed(entries[s], hot.nbytes)'
        BY <3>2, <4>1, <4>3, <4>4 DEF Placed
      <4> QED BY <3>2, <3>3, <3>5, <4>5 DEF HotInv, Placed
    <3> QED BY <3>4, <3>5
  <2> QED BY <2>0, <2>1
<1>5. ASSUME NEW s \in Slots, DropLru(s)
      PROVE  HotInv'
  <2>1. /\ level = NTiers /\ level \in Tiers /\ OverCapacity(level) /\ IsLruIn(s, level)
        /\ s \in DOMAIN entries /\ entries[s].tier = level
        /\ Remove(s) /\ UNCHANGED <<clock, level, hot>>
    BY <1>0, <1>5 DEF DropLru, IsLruIn, InTier, Tiers
  <2>2. CASE hot = NoHot
    BY <2>1, <2>2 DEF HotInv
  <2>3. CASE hot # NoHot /\ hot.slot # s
    BY <2>1, <2>3, OtherRemoved
  <2>4. CASE hot # NoHot /\ hot.slot = s
    <3>1. /\ entries[s].last_used = clock /\ entries[s].nbytes = hot.nbytes
          /\ \A t \in Tiers : t < level => Capacity[t] < hot.nbytes
      BY <2>1, <2>4 DEF Placed, HotInv
    <3>2. Capacity[level] < hot.nbytes /\ InTier(level) = {s}
      BY <2>1, <3>1, NewestIsLastVictim
    <3>3. \A t \in Tiers : Capacity[t] < hot.nbytes
      BY <1>0, <2>1, <3>1, <3>2 DEF Tiers
    <3>4. DOMAIN entries = {s}
      <4> SUFFICES ASSUME NEW r \in DOMAIN entries, r # s PROVE FALSE
        BY <2>1
      <4>1. entries[r].tier \in Tiers /\ entries[r].tier # level
        BY <3>2 DEF LruInv, TypeOK, Entry, InTier
      <4>2. entries[r].tier < entries[s].tier
        BY <1>0, <2>1, <4>1 DEF Tiers
      <4>3. entries[r].last_used > entries[s].last_used
        BY <2>1, <4>2 DEF LruInv, TiersAreOrdered
      <4>4. entries[r].last_used <= clock /\ entries[r].last_used \in Nat
        BY DEF LruInv, TicksAreUnique, TypeOK, Entry
      <4> QED BY <1>0, <3>1, <4>3, <4>4
    <3>5. DOMAIN entries' = {}
      BY <2>1, <3>4 DEF Remove, Without
    <3> QED BY <2>1, <3>3, <3>5 DEF HotInv
  <2> QED BY <2>2, <2>3, <2>4
<1>6. CASE NextTier
  <2>1. /\ level \in Tiers /\ level' = IF level = NTiers THEN 0 ELSE level + 1
        /\ UNCHANGED <<entries, used, clock, hot>>
        /\ ~OverCapacity(level) \/ InTier(level) = {}
    BY <1>6 DEF NextTier
  <2>2. SUFFICES ASSUME hot # NoHot, hot.slot \in DOMAIN entries,
                        Placed(entries[hot.slot], hot.nbytes)
                 PROVE  HotInv'
    BY <2>1 DEF HotInv
  <2>3. PICK s : s = hot.slot
    OBVIOUS
  <2>4. entries[s].tier \in Tiers /\ s \in DOMAIN entries
    BY <2>2, <2>3 DEF LruInv, TypeOK, Entry
  <2>5. entries[s].tier = level => hot.nbytes <= Capacity[level]
    <3> SUFFICES ASSUME entries[s].tier = level PROVE hot.nbytes <= Capacity[level]
      OBVIOUS
    <3>1. InTier(level) # {}
      BY <2>4 DEF InTier
    <3>2. Fits(level)
      BY <1>0, <2>1, <3>1 DEF OverCapacity, Fits
    <3> QED BY <1>0, <2>2, <2>3, <2>4, <3>2, EntryFits DEF Placed
  <2>6. level' = 0 \/ entries[s].tier < level' =>
           entries[s].tier = level \/ entries[s].tier < level
    <3>1. PICK t \in Tiers : t = entries[s].tier
      BY <2>4
    <3>2. \/ level = NTiers /\ level' = 0
          \/ level' = level + 1 /\ level' # 0
      BY <1>0, <2>1 DEF Tiers
    <3>3. level' = 0 \/ t < level' => t = level \/ t < level
      BY <1>0, <3>2 DEF Tiers
    <3> QED BY <3>1, <3>3
  <2>7. level' = 0 \/ entries[s].tier < level' => hot.nbytes <= Capacity[entries[s].tier]
    BY <2>2, <2>3, <2>5, <2>6 DEF Placed
  <2>8. Placed(entries[s], hot.nbytes)'
    BY <2>1, <2>2, <2>3, <2>7 DEF Placed
  <2> QED BY <2>1, <2>3, <2>4, <2>8 DEF HotInv, Placed
<1>7. CASE UNCHANGED tierVars
  BY <1>7 DEF tierVars, HotInv, Placed
<1> QED BY <1>1, <1>2, <1>3, <1>4, <1>5, <1>6, <1>7 DEF StoreNext, Cascade

\* The entry a put or a get was about ends in the fastest tier that can hold it,
\* and is gone, with every other entry, only if no tier can
\* (TieredCacheStore.put, get, _enforce_capacity).
THEOREM HotEntryIsPlaced == StoreSpec => []HotIsInFastestFit
<1>1. StoreInit => HotInv
  BY DEF StoreInit, HotInv
<1>2. LruInv /\ BookInv /\ HotInv /\ [StoreNext]_tierVars => HotInv'
  BY LruStep, BookStep, HotStep
<1>3. LruInv /\ HotInv => HotIsInFastestFit
  <2> SUFFICES ASSUME LruInv, HotInv, level = 0, hot # NoHot
               PROVE  IF \E t \in Tiers : hot.nbytes <= Capacity[t]
                      THEN /\ hot.slot \in DOMAIN entries
                           /\ hot.nbytes <= Capacity[entries[hot.slot].tier]
                           /\ \A t \in 1 .. entries[hot.slot].tier - 1 :
                                 Capacity[t] < hot.nbytes
                      ELSE DOMAIN entries = {}
    BY DEF HotIsInFastestFit
  <2>1. hot.nbytes \in Nat /\ Capacity \in [Tiers -> Nat] /\ NTiers \in Nat
    BY TiersAssumption DEF LruInv, TypeOK
  <2>2. CASE hot.slot \in DOMAIN entries /\ Placed(entries[hot.slot], hot.nbytes)
    <3>1. entries[hot.slot].tier \in Tiers
      BY <2>2 DEF LruInv, TypeOK, Entry
    <3>2. hot.nbytes <= Capacity[entries[hot.slot].tier]
      BY <2>2 DEF Placed
    <3>3. \A t \in 1 .. entries[hot.slot].tier - 1 :
             t \in Tiers /\ t < entries[hot.slot].tier
      BY <2>1, <3>1 DEF Tiers
    <3> QED BY <2>2, <3>1, <3>2, <3>3 DEF Placed
  <2>3. CASE DOMAIN entries = {} /\ \A t \in Tiers : Capacity[t] < hot.nbytes
    BY <2>1, <2>3
  <2> QED BY <2>2, <2>3 DEF HotInv
<1> QED BY LruAlways, BookAlways, <1>1, <1>2, <1>3, PTL DEF StoreSpec

-----------------------------------------------------------------------------
(* Serving requests. *)

\* The blocks of a request, by their positions (_chunk).
LEMMA BlockTypes ==
    ASSUME NEW r \in Workload
    PROVE  /\ Len(r) \in Nat /\ DOMAIN r = 1 .. Len(r)
           /\ \A i \in DOMAIN r :
                 r[i] \in [key : Slots, n : Sizes] /\ r[i].key \in Slots /\ r[i].n \in Sizes
<1>1. r \in Seq([key : Slots, n : Sizes])
  BY ChainAssumption
<1>2. Len(r) \in Nat /\ DOMAIN r = 1 .. Len(r)
  BY <1>1
<1>3. \A i \in DOMAIN r : r[i] \in [key : Slots, n : Sizes]
  BY <1>1, <1>2, ElementOfSeq
<1> QED BY <1>2, <1>3

(* The sizes a user puts are sizes of the store *)
LEMMA BlockSizes ==
    /\ \A s \in Slots : SizesOf(s) \subseteq Sizes
    /\ \A r \in Workload : \A i \in DOMAIN r : r[i].key \in Slots /\ r[i].n \in Sizes
<1>1. \A r \in Workload : \A i \in DOMAIN r : r[i].key \in Slots /\ r[i].n \in Sizes
  BY BlockTypes
<1>2. ASSUME NEW s \in Slots PROVE SizesOf(s) \subseteq Sizes
  BY <1>1 DEF SizesOf, Range
<1> QED BY <1>1, <1>2

\* The store is content-addressed: a key has one size, that of the block whose
\* tokens it hashes (hash_tokens).
LEMMA KeyFixesSize ==
    ASSUME NEW r \in Workload, NEW i \in DOMAIN r
    PROVE  SizesOf(r[i].key) = {r[i].n}
<1>1. ASSUME NEW q \in Workload, NEW j \in DOMAIN q, q[j].key = r[i].key
      PROVE  q[j] = r[i]
  <2>1. i = j /\ SubSeq(q, 1, j) = SubSeq(r, 1, i)
    BY <1>1, ChainAssumption
  <2>2. q \in Seq([key : Slots, n : Sizes]) /\ r \in Seq([key : Slots, n : Sizes])
    BY ChainAssumption
  <2>3. i \in 1 .. Len(q) /\ i \in 1 .. Len(r)
    BY <2>1, BlockTypes
  <2>4. SubSeq(q, 1, i)[i] = q[i] /\ SubSeq(r, 1, i)[i] = r[i]
    BY <2>2, <2>3
  <2> QED BY <2>1, <2>4
<1>2. \E q \in Workload : r[i].key \in KeysOf(q)
  BY DEF KeysOf
<1>3. SizesOf(r[i].key) = {b.n : b \in {c \in UNION {Range(q) : q \in Workload} : c.key = r[i].key}}
  BY <1>2 DEF SizesOf
<1>4. {c \in UNION {Range(q) : q \in Workload} : c.key = r[i].key} = {r[i]}
  BY <1>1 DEF Range
<1> QED BY <1>3, <1>4

\* A request has finitely many tokens (process takes a list).
LEMMA TokensAreFinite ==
    ASSUME NEW r \in Workload
    PROVE  IsFiniteSet(TokenSet(r))
<1> DEFINE part == [i \in DOMAIN r |-> {i} \X (1 .. r[i].n)]
           parts == {{i} \X (1 .. r[i].n) : i \in DOMAIN r}
<1>1. part \in Surjection(DOMAIN r, parts)
  <2>1. part \in [DOMAIN r -> parts] /\ \A t \in parts : \E i \in DOMAIN r : part[i] = t
    OBVIOUS
  <2> QED BY <2>1 DEF Surjection
<1>2. IsFiniteSet(DOMAIN r)
  BY BlockTypes, FS_Interval
<1>3. IsFiniteSet(parts)
  BY <1>1, <1>2, FS_Surjection
<1>4. ASSUME NEW i \in DOMAIN r PROVE IsFiniteSet({i} \X (1 .. r[i].n))
  <2>1. r[i].n \in Nat
    BY BlockTypes, TiersAssumption
  <2> QED BY <2>1, EntryBytes
<1> QED BY <1>3, <1>4, FS_UNION DEF TokenSet

(* Every entry has the size its key stands for *)
Sized == \A s \in DOMAIN entries : entries[s].nbytes \in SizesOf(s)

\* Blocks of one request take no more bytes than the request has tokens.
LEMMA BlocksFitRequest ==
    ASSUME NEW r \in Workload, Sized, NEW S, S \subseteq KeysOf(r), S \subseteq DOMAIN entries
    PROVE  /\ Cardinality(Bytes(entries, S)) <= Cardinality(TokenSet(r))
           /\ Cardinality(TokenSet(r)) \in Nat
<1> DEFINE at_(s) == CHOOSE i \in DOMAIN r : r[i].key = s
           f == [p \in Bytes(entries, S) |-> <<at_(p[1]), p[2]>>]
<1>1. \A s \in S : at_(s) \in DOMAIN r /\ r[at_(s)].key = s
  BY DEF KeysOf
<1>2. \A s \in S : entries[s].nbytes = r[at_(s)].n
  BY <1>1, KeyFixesSize DEF Sized
<1> HIDE DEF at_
<1>3. ASSUME NEW p \in Bytes(entries, S)
      PROVE  /\ p = <<p[1], p[2]>> /\ p[1] \in S
             /\ p[2] \in 1 .. r[at_(p[1])].n
  BY <1>2, BytesIn
<1>4. \A p \in Bytes(entries, S) : <<at_(p[1]), p[2]>> \in TokenSet(r)
  BY <1>1, <1>3 DEF TokenSet
<1>5. \A p, q \in Bytes(entries, S) : f[p] = f[q] => p = q
  BY <1>1, <1>3
<1>6. f \in Injection(Bytes(entries, S), TokenSet(r))
  BY <1>4, <1>5 DEF Injection, IsInjective
<1> HIDE DEF f
<1>7. IsFiniteSet(TokenSet(r))
  BY TokensAreFinite
<1> QED BY <1>6, <1>7, FS_Injection, FS_CardinalityType

(* The blocks of the request in service, or last served, are in Workload *)
Served == request = << >> \/ request \in Workload

LEMMA ServedInv == LMSpec => []Served
<1>1. LMInit => Served
  BY DEF LMInit, Served
<1>2. Served /\ [LMNext]_allVars => Served'
  <2> SUFFICES ASSUME Served, [LMNext]_allVars PROVE Served'
    OBVIOUS
  <2>1. CASE \E r \in Workload : Begin(r)
    BY <2>1 DEF Begin, Served
  <2>2. CASE LoadBlock
    BY <2>2 DEF LoadBlock, Served
  <2>3. CASE ComputeBlock
    BY <2>3 DEF ComputeBlock, Served
  <2>4. CASE Finish
    BY <2>4 DEF Finish, Served
  <2>5. CASE OtherUser
    BY <2>5 DEF OtherUser, Served
  <2>6. CASE StoreStep
    BY <2>6 DEF StoreStep, clientVars, Served
  <2>7. CASE UNCHANGED allVars
    BY <2>7 DEF allVars, clientVars, Served
  <2> QED BY <2>1, <2>2, <2>3, <2>4, <2>5, <2>6, <2>7 DEF LMNext
<1> QED BY <1>1, <1>2, PTL DEF LMSpec

(* LMCacheStrategy implements the users of the tiered store: every step of *)
(* a request is one call of the store, one step of its cascade, or none of *)
(* the store's business (process, has, get, put).                          *)
THEOREM RequestsUseTheStore == LMSpec => StoreSpec
<1>1. LMInit => StoreInit
  BY DEF LMInit
<1>2. Served /\ [LMNext]_allVars => [StoreNext]_tierVars
  <2> SUFFICES ASSUME Served, [LMNext]_allVars PROVE [StoreNext]_tierVars
    OBVIOUS
  <2>1. CASE \E r \in Workload : Begin(r)
    BY <2>1 DEF Begin
  <2>2. CASE LoadBlock
    <3>1. request[at].key \in Slots
      BY <2>2, BlockSizes DEF LoadBlock, Served
    <3> QED BY <2>2, <3>1 DEF LoadBlock, StoreNext
  <2>3. CASE ComputeBlock
    <3>1. request[at].key \in Slots /\ request[at].n \in Sizes
      BY <2>3, BlockSizes DEF ComputeBlock, Served
    <3> QED BY <2>3, <3>1 DEF ComputeBlock, StoreNext
  <2>4. CASE Finish
    BY <2>4 DEF Finish
  <2>5. CASE OtherUser
    BY <2>5, BlockSizes DEF OtherUser, StoreNext
  <2>6. CASE StoreStep
    BY <2>6 DEF StoreStep, StoreNext
  <2>7. CASE UNCHANGED allVars
    BY <2>7 DEF allVars
  <2> QED BY <2>1, <2>2, <2>3, <2>4, <2>5, <2>6, <2>7 DEF LMNext
<1> QED BY <1>1, <1>2, ServedInv, PTL DEF LMSpec, StoreSpec

(* So a stream of requests never reads a stale index entry, keeps the      *)
(* store in recency order and loses nothing but its oldest entry.          *)
THEOREM RequestsKeepTheStore ==
    LMSpec => [](IndexIsExact /\ TiersAreOrdered) /\ DropsOnlyTheOldest
BY RequestsUseTheStore, IndexAgrees, RecencyOrdersTiers, OnlyTheOldestIsDropped, PTL

-----------------------------------------------------------------------------
(* A served request stays on top                                           *)

ClientTypeOK ==
    /\ request = << >> \/ request \in Workload
    /\ served = << >> \/ served \in Workload
    /\ at \in Nat /\ at <= Len(request) + 1

(* A request the top tier can hold *)
FitsTop(r) == Cardinality(TokenSet(r)) <= Capacity[1]

(* The blocks of the request in service that were loaded or put already *)
Done == {request[i].key : i \in {j \in DOMAIN request : j < at}}

(* They are in the top tier, and no other entry was used since the first of*)
(* them: what the cascade takes from the top tier is never one of them     *)
DoneOnTop ==
    at > 0 /\ request \in Workload /\ FitsTop(request) =>
        /\ Done \subseteq InTier(1)
        /\ \A q \in DOMAIN entries \ Done, s \in Done :
              entries[q].last_used < entries[s].last_used

(* The request served last is in the top tier until another user comes or  *)
(* another request begins                                                  *)
ServedOnTop ==
    served # << >> /\ FitsTop(served) /\ (at = 0 \/ request = served) =>
        /\ level = 0 /\ KeysOf(served) \subseteq InTier(1)
        /\ at = 0 \/ ~diverged

ServeInv == ClientTypeOK /\ Sized /\ DoneOnTop /\ ServedOnTop

\* The victim of the top tier is not a block of the request in service, as long as
\* the request fits there (TieredCacheStore._lru_in, _enforce_capacity).
LEMMA DoneIsNoVictim ==
    ASSUME LruInv, BookInv, Sized, DoneOnTop, at > 0, request \in Workload, FitsTop(request),
           OverCapacity(1), NEW s, IsLruIn(s, 1)
    PROVE  s \notin Done
<1> SUFFICES ASSUME s \in Done PROVE FALSE
  OBVIOUS
<1>0. 1 \in Tiers /\ Capacity[1] \in Nat
  BY TiersAssumption DEF Tiers
<1>1. InTier(1) \subseteq DOMAIN entries /\ s \in InTier(1)
  BY DEF InTier, IsLruIn
<1>2. InTier(1) \subseteq Done
  <2> SUFFICES ASSUME NEW q \in InTier(1), q \notin Done PROVE FALSE
    OBVIOUS
  <2>1. entries[q].last_used < entries[s].last_used
    BY <1>1 DEF DoneOnTop
  <2>2. entries[s].last_used <= entries[q].last_used
    BY DEF IsLruIn
  <2>3. entries[q].last_used \in Nat /\ entries[s].last_used \in Nat
    BY <1>1 DEF LruInv, TypeOK, Entry
  <2> QED BY <2>1, <2>2, <2>3
<1>3. Done \subseteq KeysOf(request)
  BY DEF Done, KeysOf
<1>4. /\ Cardinality(Bytes(entries, InTier(1))) <= Cardinality(TokenSet(request))
      /\ Cardinality(TokenSet(request)) \in Nat
  BY <1>1, <1>2, <1>3, BlocksFitRequest
<1>5. used[1] = Cardinality(Bytes(entries, InTier(1))) /\ used[1] \in Int
  BY <1>0 DEF BookInv, Counts, LruInv, TypeOK
<1> QED BY <1>0, <1>4, <1>5 DEF OverCapacity, FitsTop

\* What put and get do to the dictionary: s is the newest entry, in the top tier.
LEMMA UseOnTop ==
    ASSUME LruInv, NEW s, NEW n,
           PutNew(s, n) \/ PutAgain(s) \/ Get(s)
    PROVE  /\ DOMAIN entries' = DOMAIN entries \cup {s}
           /\ entries'[s].tier = 1
           /\ \A r \in DOMAIN entries : entries[r].last_used < entries'[s].last_used
           /\ \A r \in DOMAIN entries \ {s} : entries'[r] = entries[r]
           /\ entries'[s].nbytes \in (IF s \in DOMAIN entries THEN {entries[s].nbytes} ELSE {n})
           /\ level = 0
<1>0. /\ \A r \in DOMAIN entries : entries[r].last_used \in Nat /\ entries[r].last_used <= clock
      /\ clock \in Nat
  BY TiersAssumption DEF LruInv, TypeOK, TicksAreUnique, Entry
<1>1. CASE PutNew(s, n)
  BY <1>0, <1>1 DEF PutNew, LruInv, IndexIsExact
<1>2. CASE PutAgain(s) \/ Get(s)
  <2>1. s \in DOMAIN entries /\ TouchAndPromote(s) /\ level = 0
    BY <1>2 DEF PutAgain, Get, LruInv, IndexIsExact
  <2> QED BY <1>0, <2>1 DEF TouchAndPromote
<1> QED BY <1>1, <1>2

\* A block is loaded or put: it joins the blocks done
\* (LMCacheStrategy.process).
LEMMA BlockJoins ==
    ASSUME LruInv, ClientTypeOK, Sized, DoneOnTop, at \in DOMAIN request,
           LET b == request[at] IN PutNew(b.key, b.n) \/ PutAgain(b.key) \/ Get(b.key),
           at' = at + 1, request' = request, request \in Workload
    PROVE  Sized' /\ DoneOnTop'
<1>0. at \in 1 .. Len(request) /\ Len(request) \in Nat
  BY BlockTypes
<1>1. PICK s : s = request[at].key
  OBVIOUS
<1>2. /\ DOMAIN entries' = DOMAIN entries \cup {s}
      /\ entries'[s].tier = 1
      /\ \A r \in DOMAIN entries : entries[r].last_used < entries'[s].last_used
      /\ \A r \in DOMAIN entries \ {s} : entries'[r] = entries[r]
      /\ entries'[s].nbytes \in
            (IF s \in DOMAIN entries THEN {entries[s].nbytes} ELSE {request[at].n})
  BY <1>1, UseOnTop
<1>3. SizesOf(s) = {request[at].n}
  BY <1>1, KeyFixesSize
<1>4. Sized'
  <2>1. \A r \in DOMAIN entries' : entries'[r].nbytes \in SizesOf(r)
    BY <1>2, <1>3 DEF Sized
  <2> QED BY <2>1 DEF Sized, SizesOf
<1>5. Done' = Done \cup {s}
  BY <1>0, <1>1 DEF Done
<1>6. s \notin Done
  <2>1. \A j \in DOMAIN request : request[j].key = s => j = at
    BY <1>1, ChainAssumption
  <2> QED BY <1>0, <2>1 DEF Done
<1>7. DoneOnTop'
  <2> SUFFICES ASSUME FitsTop(request)
               PROVE  /\ Done' \subseteq InTier(1)'
                      /\ \A q \in DOMAIN entries' \ Done', d \in Done' :
                            entries'[q].last_used < entries'[d].last_used
    BY DEF DoneOnTop, FitsTop
  <2>1. /\ Done \subseteq InTier(1)
        /\ \A q \in DOMAIN entries \ Done, d \in Done :
              entries[q].last_used < entries[d].last_used
    BY <1>0 DEF DoneOnTop
  <2>2. Done' \subseteq InTier(1)'
    BY <1>2, <1>5, <1>6, <2>1 DEF InTier
  <2>3. ASSUME NEW q \in DOMAIN entries' \ Done', NEW d \in Done'
        PROVE  entries'[q].last_used < entries'[d].last_used
    <3>1. q \in DOMAIN entries \ Done /\ q # s /\ entries'[q] = entries[q]
      BY <1>2, <1>5, <2>3
    <3>2. CASE d = s
      BY <1>2, <3>1, <3>2
    <3>3. CASE d # s
      <4>1. d \in Done /\ d \in DOMAIN entries
        BY <1>5, <2>1, <3>3 DEF InTier
      <4> QED BY <1>2, <2>1, <3>1, <3>3, <4>1
    <3> QED BY <3>2, <3>3
  <2> QED BY <2>2, <2>3
<1> QED BY <1>4, <1>7

\* A step of the cascade takes no block of the request in service from the top
\* tier.
LEMMA CascadeSpares ==
    ASSUME LruInv, BookInv, ClientTypeOK, Sized, DoneOnTop, StoreStep
    PROVE  Sized' /\ DoneOnTop'
<1>0. /\ request' = request /\ at' = at /\ Done' = Done
      /\ FitsTop(request)' = FitsTop(request)
  BY DEF StoreStep, clientVars, Done, FitsTop, TokenSet
<1>1. ASSUME NEW s \in Slots, DemoteLru(s)
      PROVE  Sized' /\ DoneOnTop'
  <2>1. /\ s \in DOMAIN entries /\ entries[s].tier = level
        /\ level \in Tiers /\ OverCapacity(level) /\ IsLruIn(s, level)
        /\ DOMAIN entries' = DOMAIN entries
        /\ entries'[s].nbytes = entries[s].nbytes
        /\ entries'[s].last_used = entries[s].last_used
        /\ \A r \in DOMAIN entries \ {s} : entries'[r] = entries[r]
    BY <1>1, TiersAssumption DEF DemoteLru, IsLruIn, InTier, Tiers
  <2>2. Sized'
    BY <2>1 DEF Sized, SizesOf
  <2>3. DoneOnTop'
    <3> SUFFICES ASSUME at > 0, request \in Workload, FitsTop(request)
                 PROVE  /\ Done \subseteq InTier(1)'
                        /\ \A q \in DOMAIN entries' \ Done, d \in Done :
                              entries'[q].last_used < entries'[d].last_used
      BY <1>0 DEF DoneOnTop
    <3>1. Done \subseteq InTier(1)
      BY DEF DoneOnTop
    <3>2. s \notin Done
      <4>1. CASE level = 1
        BY <2>1, <4>1, DoneIsNoVictim
      <4>2. CASE level # 1
        BY <2>1, <3>1, <4>2 DEF InTier
      <4> QED BY <4>1, <4>2
    <3>3. Done \subseteq InTier(1)'
      BY <2>1, <3>1, <3>2 DEF InTier
    <3>4. \A r \in DOMAIN entries : entries'[r].last_used = entries[r].last_used
      BY <2>1
    <3> QED BY <2>1, <3>1, <3>3, <3>4 DEF DoneOnTop, InTier
  <2> QED BY <2>2, <2>3
<1>2. ASSUME NEW s \in Slots, DropLru(s)
      PROVE  Sized' /\ DoneOnTop'
  <2>1. /\ s \in DOMAIN entries /\ entries[s].tier = level
        /\ OverCapacity(level) /\ IsLruIn(s, level)
        /\ DOMAIN entries' = DOMAIN entries \ {s}
        /\ \A r \in DOMAIN entries' : entries'[r] = entries[r]
    BY <1>2 DEF DropLru, IsLruIn, InTier, Remove, Without
  <2>2. Sized'
    BY <2>1 DEF Sized, SizesOf
  <2>3. DoneOnTop'
    <3> SUFFICES ASSUME at > 0, request \in Workload, FitsTop(request)
                 PROVE  /\ Done \subseteq InTier(1)'
                        /\ \A q \in DOMAIN entries' \ Done, d \in Done :
                              entries'[q].last_used < entries'[d].last_used
      BY <1>0 DEF DoneOnTop
    <3>1. Done \subseteq InTier(1)
      BY DEF DoneOnTop
    <3>2. s \notin Done
      <4>1. CASE level = 1
        BY <2>1, <4>1, DoneIsNoVictim
      <4>2. CASE level # 1
        BY <2>1, <3>1, <4>2 DEF InTier
      <4> QED BY <4>1, <4>2
    <3>3. Done \subseteq InTier(1)' /\ Done \subseteq DOMAIN entries'
      BY <2>1, <3>1, <3>2 DEF InTier
    <3> QED BY <2>1, <3>3 DEF DoneOnTop
  <2> QED BY <2>2, <2>3
<1>3. CASE NextTier
  <2>1. entries' = entries
    BY <1>3 DEF NextTier
  <2> QED BY <1>0, <2>1 DEF Sized, SizesOf, DoneOnTop, InTier
<1> QED BY <1>1, <1>2, <1>3 DEF StoreStep, Cascade

\* Every step of the strategy, its cascade and the store's other users preserves
\* the invariant.
LEMMA ServeStep ==
    ASSUME LruInv, BookInv, ServeInv, [LMNext]_allVars
    PROVE  ServeInv'
<1> USE DEF ServeInv
<1>0. Len(<< >>) = 0 /\ DOMAIN << >> = {}
  OBVIOUS
<1>1. ASSUME NEW r \in Workload, Begin(r)
      PROVE  ServeInv'
  <2>1. /\ request' = r /\ at' = 1 /\ diverged' = FALSE /\ served' = served
        /\ entries' = entries /\ level' = level /\ at = 0
    BY <1>1 DEF Begin, tierVars
  <2>2. ClientTypeOK'
    BY <1>0, <2>1, BlockTypes DEF ClientTypeOK
  <2>3. Sized'
    BY <2>1 DEF Sized, SizesOf
  <2>4. Done' = {}
    BY <2>1, BlockTypes DEF Done
  <2>5. DoneOnTop'
    BY <2>4 DEF DoneOnTop
  <2>6. ServedOnTop'
    BY <2>1 DEF ServedOnTop, FitsTop, TokenSet, KeysOf, InTier
  <2> QED BY <2>2, <2>3, <2>5, <2>6
<1>2. ASSUME LoadBlock \/ ComputeBlock
      PROVE  ServeInv'
  <2>1. /\ at \in DOMAIN request /\ at' = at + 1
        /\ request' = request /\ served' = served
        /\ LET b == request[at] IN PutNew(b.key, b.n) \/ PutAgain(b.key) \/ Get(b.key)
    BY <1>2 DEF LoadBlock, ComputeBlock
  <2>2. request \in Workload
    BY <1>0, <2>1 DEF ClientTypeOK
  <2>3. at \in 1 .. Len(request) /\ Len(request) \in Nat
    BY <2>1, <2>2, BlockTypes
  <2>4. ClientTypeOK'
    BY <2>1, <2>3 DEF ClientTypeOK
  <2>5. Sized' /\ DoneOnTop'
    BY <2>1, <2>2, BlockJoins
  <2>6. ServedOnTop'
    <3> SUFFICES ASSUME served # << >>, FitsTop(served), request = served
                 PROVE  /\ level' = 0 /\ KeysOf(served) \subseteq InTier(1)'
                        /\ ~diverged'
      BY <2>1, <2>3 DEF ServedOnTop, FitsTop
    <3>1. level = 0 /\ KeysOf(served) \subseteq InTier(1) /\ ~diverged
      BY <2>3 DEF ServedOnTop
    <3>2. PICK s : s = request[at].key
      OBVIOUS
    <3>3. s \in InTier(1) /\ s \in DOMAIN entries /\ entries[s].tier = 1
      BY <2>1, <3>1, <3>2 DEF KeysOf, InTier
    <3>4. IsIndexed(s)
      BY <3>3 DEF IsIndexed, LruInv, IndexIsExact
    <3>5. LoadBlock /\ Get(s)
      BY <1>2, <3>1, <3>2, <3>4 DEF LoadBlock, ComputeBlock
    <3>6. level' = level /\ diverged' = diverged
      BY <3>3, <3>5 DEF LoadBlock, Get, TouchAndPromote
    <3>7. /\ DOMAIN entries' = DOMAIN entries /\ entries'[s].tier = 1
          /\ \A r \in DOMAIN entries \ {s} : entries'[r] = entries[r]
      BY <3>3, <3>5 DEF Get, TouchAndPromote
    <3>8. InTier(1)' = InTier(1)
      BY <3>3, <3>7 DEF InTier
    <3> QED BY <3>1, <3>6, <3>8
  <2> QED BY <2>4, <2>5, <2>6
<1>3. CASE Finish
  <2>1. /\ level = 0 /\ at > Len(request) /\ at' = 0 /\ served' = request
        /\ request' = request /\ entries' = entries /\ level' = level
    BY <1>3 DEF Finish, tierVars
  <2>2. ClientTypeOK'
    <3>1. Len(request) \in Nat
      BY <1>0, BlockTypes DEF ClientTypeOK
    <3> QED BY <2>1, <3>1 DEF ClientTypeOK
  <2>3. Sized'
    BY <2>1 DEF Sized, SizesOf
  <2>4. DoneOnTop'
    BY <2>1 DEF DoneOnTop
  <2>5. ServedOnTop'
    <3> SUFFICES ASSUME request # << >>, FitsTop(request)
                 PROVE  KeysOf(request) \subseteq InTier(1)
      BY <2>1 DEF ServedOnTop, FitsTop, InTier
    <3>1. request \in Workload /\ Len(request) \in Nat /\ DOMAIN request = 1 .. Len(request)
      BY BlockTypes DEF ClientTypeOK
    <3>2. KeysOf(request) \subseteq Done
      BY <2>1, <3>1 DEF KeysOf, Done, ClientTypeOK
    <3>3. at > 0
      BY <2>1, <3>1 DEF ClientTypeOK
    <3> QED BY <3>1, <3>2, <3>3 DEF DoneOnTop
  <2> QED BY <2>2, <2>3, <2>4, <2>5
<1>4. CASE OtherUser
  <2>1. /\ at = 0 /\ at' = 0 /\ served' = << >> /\ request' = request
    BY <1>4 DEF OtherUser
  <2>2. ClientTypeOK' /\ DoneOnTop' /\ ServedOnTop'
    BY <2>1 DEF ClientTypeOK, DoneOnTop, ServedOnTop
  <2>3. Sized'
    <3> SUFFICES ASSUME NEW q \in DOMAIN entries'
                 PROVE  entries'[q].nbytes \in SizesOf(q)
      BY DEF Sized, SizesOf
    <3>1. CASE \E s \in Slots : Evict(s)
      BY <3>1 DEF Evict, Remove, Without, Sized
    <3>2. CASE \E s \in Slots : \E n \in SizesOf(s) :
                  PutNew(s, n) \/ PutAgain(s) \/ Get(s)
      <4>0. PICK s \in Slots : \E n \in SizesOf(s) : PutNew(s, n) \/ PutAgain(s) \/ Get(s)
        BY <3>2
      <4>1. PICK n \in SizesOf(s) : PutNew(s, n) \/ PutAgain(s) \/ Get(s)
        BY <4>0
      <4>2. /\ DOMAIN entries' = DOMAIN entries \cup {s}
            /\ \A r \in DOMAIN entries \ {s} : entries'[r] = entries[r]
            /\ entries'[s].nbytes \in
                  (IF s \in DOMAIN entries THEN {entries[s].nbytes} ELSE {n})
        BY <4>1, UseOnTop
      <4> QED BY <4>2 DEF Sized
    <3>3. CASE \E s \in Slots : PutAgain(s) \/ Get(s)
      <4>1. PICK s \in Slots : PutAgain(s) \/ Get(s)
        BY <3>3
      <4>2. s \in DOMAIN entries
        BY <4>1 DEF PutAgain, Get, LruInv, IndexIsExact
      <4>3. /\ DOMAIN entries' = DOMAIN entries \cup {s}
            /\ \A r \in DOMAIN entries \ {s} : entries'[r] = entries[r]
            /\ entries'[s].nbytes \in
                  (IF s \in DOMAIN entries THEN {entries[s].nbytes} ELSE {0})
        BY <4>1, UseOnTop
      <4> QED BY <4>2, <4>3 DEF Sized
    <3> QED BY <1>4, <3>1, <3>2, <3>3 DEF OtherUser
  <2> QED BY <2>2, <2>3
<1>5. CASE StoreStep
  <2>0. \A s : (DemoteLru(s) \/ DropLru(s) \/ NextTier) => level # 0
    BY TiersAssumption DEF DemoteLru, DropLru, NextTier, Tiers
  <2>1. /\ at' = at /\ request' = request /\ served' = served /\ diverged' = diverged
        /\ level # 0
    BY <1>5, <2>0 DEF StoreStep, clientVars, Cascade
  <2>2. ClientTypeOK' /\ ServedOnTop'
    BY <2>1 DEF ClientTypeOK, ServedOnTop, FitsTop
  <2> QED BY <1>5, <2>2, CascadeSpares
<1>6. CASE UNCHANGED allVars
  <2>1. UNCHANGED <<entries, level, request, at, diverged, served>>
    BY <1>6 DEF allVars, tierVars, clientVars
  <2>2. ClientTypeOK'
    BY <2>1 DEF ClientTypeOK
  <2>3. Sized'
    BY <2>1 DEF Sized, SizesOf
  <2>4. Done' = Done /\ InTier(1)' = InTier(1)
    BY <2>1 DEF Done, InTier
  <2>5. DoneOnTop' /\ ServedOnTop'
    BY <2>1, <2>4 DEF DoneOnTop, ServedOnTop, FitsTop
  <2> QED BY <2>2, <2>3, <2>5
<1> QED BY <1>1, <1>2, <1>3, <1>4, <1>5, <1>6 DEF LMNext

\* The byte counters, the index and the capacities hold under any stream of
\* requests and any other users of the store (TieredCacheStore).
THEOREM RequestsKeepTheBooks == LMSpec => []BooksAreExact
<1>1. IndexIsExact /\ UsedIsExact /\ WithinCapacity => BooksAreExact
  BY DEF BooksAreExact
<1> QED BY RequestsUseTheStore, IndexAgrees, CountersAreExact, CapacityIsKept, <1>1, PTL

\* A request that fits the top tier is resident there when process returns, so
\* that serving it again at once recomputes nothing, whatever its blocks and the
\* tiers are (LMCacheStrategy.process).
THEOREM ServedStaysOnTop == LMSpec => []ServedIsResident
<1>1. LMInit => ServeInv
  BY DEF LMInit, StoreInit, ServeInv, ClientTypeOK, Sized, DoneOnTop, ServedOnTop
<1>2. LruInv /\ BookInv /\ ServeInv /\ [LMNext]_allVars => ServeInv'
  BY ServeStep
<1>3. ServeInv => ServedIsResident
  BY DEF ServeInv, ServedOnTop, ClientTypeOK, FitsTop, ServedIsResident
<1> QED BY RequestsUseTheStore, LruAlways, BookAlways, <1>1, <1>2, <1>3, PTL DEF LMSpec
=============================================================================
