------------------------ MODULE SessionManager_proofs ------------------------
(***************************************************************************)
(* Proofs about SessionManager, for every set of workers and sessions and  *)
(* every keep_resident.                                                    *)
(***************************************************************************)
EXTENDS SessionManager, TLAPS, SequenceTheorems

-----------------------------------------------------------------------------
(* The OrderedDict helpers return sequences of session ids. *)

\* Removing a key from a sequence of sessions leaves a sequence of sessions
\* (OrderedDict.pop in SessionManager.drop).
LEMMA WithoutType ==
    ASSUME NEW seq \in Seq(Sessions), NEW s \in Sessions
    PROVE  Without(seq, s) \in Seq(Sessions)
<1>1. CASE IsKey(seq, s)
  <2> DEFINE k == CHOOSE i \in 1..Len(seq) : seq[i] = s
  <2> DEFINE r == [i \in 1..Len(seq) - 1 |-> IF i < k THEN seq[i] ELSE seq[i + 1]]
  <2>1. Len(seq) \in Nat /\ Len(seq) >= 1
    BY <1>1 DEF IsKey
  <2>2. \A i \in 1..Len(seq) - 1 : r[i] \in Sessions
    BY <2>1
  <2>3. r \in Seq(Sessions)
    <3>1. r \in [1..Len(seq) - 1 -> Sessions]
      BY <2>2
    <3>2. Len(seq) - 1 \in Nat
      BY <2>1
    <3> QED BY <3>1, <3>2
  <2> QED BY <2>3, <1>1 DEF Without
<1>2. CASE ~IsKey(seq, s)
  BY <1>2 DEF Without
<1> QED BY <1>1, <1>2

\* move_to_end and insertion keep a sequence of sessions (SessionManager._put).
LEMMA TouchType ==
    ASSUME TypeOK, NEW w \in Workers, NEW s \in Sessions
    PROVE  Touch(w, s) \in Seq(Sessions)
<1>1. lru[w] \in Seq(Sessions)
  BY DEF TypeOK
<1>2. Without(lru[w], s) \in Seq(Sessions)
  BY <1>1, WithoutType
<1> QED BY <1>2, AppendProperties DEF Touch

\* The eviction loop drops a prefix of the keys and the caches under them, and
\* touches no other worker (SessionManager._put).
LEMMA EvictionOnlyForgets ==
    ASSUME TypeOK, NEW w \in Workers, EvictLru(w)
    PROVE  /\ lru' \in [Workers -> Seq(Sessions)]
           /\ cache' \in [Workers -> [Sessions -> KV]]
           /\ \A v \in Workers, s \in Sessions :
                 \/ cache'[v][s] = cache[v][s]
                 \/ v = w /\ cache'[v][s] = NoKV
<1>1. lru[w] \in Seq(Sessions) /\ Len(lru[w]) \in Nat
  BY DEF TypeOK
<1>2. Excess(w) \in Nat
  BY <1>1, ConstantsAssumption DEF Excess
<1>3. SubSeq(lru[w], Excess(w) + 1, Len(lru[w])) \in Seq(Sessions)
  BY <1>1, <1>2, SubSeqProperties
<1>4. lru' \in [Workers -> Seq(Sessions)]
  BY <1>3 DEF EvictLru, TypeOK
<1>5. NoKV \in KV
  BY DEF NoKV, KV
<1>6. cache' \in [Workers -> [Sessions -> KV]]
  BY <1>5 DEF EvictLru, TypeOK
<1>7. ASSUME NEW v \in Workers, NEW s \in Sessions
      PROVE  \/ cache'[v][s] = cache[v][s]
             \/ v = w /\ cache'[v][s] = NoKV
  BY <1>7 DEF EvictLru, TypeOK
<1> QED BY <1>4, <1>6, <1>7

-----------------------------------------------------------------------------
(* Type correctness. *)

\* Moving a worker to its next program point keeps the calls well typed.
LEMMA GotoType ==
    ASSUME TypeOK, NEW w \in Workers, NEW pc \in {"idle", "write", "reply"}, Goto(w, pc)
    PROVE  job' \in [Workers -> Job]
BY DEF TypeOK, Goto, Job

\* A step of the program keeps every variable in its type.
LEMMA TypeStep ==
    ASSUME TypeOK, [Next]_vars
    PROVE  TypeOK'
<1> USE DEF TypeOK
<1>0. NoKV \in KV /\ Missing \in File /\ Torn \in File
  BY DEF NoKV, KV, Missing, Torn, File
<1>1. ASSUME NEW w \in Workers, NEW s \in Sessions, NEW kv \in KV,
             NEW pc \in {"load", "generate"}, BeginTurn(w, s, pc, kv),
             lru' \in [Workers -> Seq(Sessions)]
      PROVE  TypeOK'
  <2>1. [pc |-> pc, s |-> s, id |-> nextId, kv |-> kv] \in Job
    BY <1>1 DEF Job
  <2> QED BY <1>1, <2>1 DEF BeginTurn
<1>2. ASSUME NEW w \in Workers, NEW s \in Sessions, GetResident(w, s)
      PROVE  TypeOK'
  <2>1. cache[w][s] \in KV /\ lru' \in [Workers -> Seq(Sessions)]
    BY <1>2, TouchType DEF GetResident
  <2> QED BY <1>1, <1>2, <2>1 DEF GetResident
<1>3. ASSUME NEW w \in Workers, NEW s \in Sessions, GetPersisted(w, s)
      PROVE  TypeOK'
  BY <1>0, <1>1, <1>3 DEF GetPersisted
<1>4. ASSUME NEW w \in Workers, NEW s \in Sessions, GetNone(w, s)
      PROVE  TypeOK'
  BY <1>0, <1>1, <1>4 DEF GetNone
<1>5. ASSUME NEW w \in Workers, NEW s \in Sessions, Drop(w, s)
      PROVE  TypeOK'
  <2>1. Without(lru[w], s) \in Seq(Sessions)
    BY <1>5, WithoutType
  <2> QED BY <1>0, <1>5, <2>1 DEF Drop
<1>6. ASSUME NEW w \in Workers, Load(w)
      PROVE  TypeOK'
  <2> DEFINE s == job[w].s
             f == file[s][Resolve(w, s)]
  <2>1. s \in Sessions
    BY <1>6 DEF Job
  <2>2. Resolve(w, s) \in Formats
    BY <1>6, <2>1, ConstantsAssumption DEF Load, Has, Resolve
  <2>3. f.kv \in KV
    BY <2>1, <2>2 DEF File
  <2>4. Touch(w, s) \in Seq(Sessions)
    BY <2>1, TouchType
  <2> QED BY <1>6, <2>1, <2>3, <2>4, ZenonT(40) DEF Load, Job
<1>7. ASSUME NEW w \in Workers,
             LoadRaises(w) \/ GenerateRaises(w) \/ SaveRaises(w)
      PROVE  TypeOK'
  <2>1. job' \in [Workers -> Job]
    BY <1>7, GotoType DEF LoadRaises, GenerateRaises, SaveRaises
  <2> QED BY <1>7, <2>1 DEF LoadRaises, GenerateRaises, SaveRaises
<1>8. ASSUME NEW w \in Workers, Generate(w)
      PROVE  TypeOK'
  <2> DEFINE s == job[w].s
  <2>1. s \in Sessions /\ Extended(w) \in KV
    BY <1>8 DEF Job, Extended, KV
  <2>2. Touch(w, s) \in Seq(Sessions)
    BY <2>1, TouchType
  <2> QED BY <1>8, <2>1, <2>2, ZenonT(40) DEF Generate, Job
<1>9. ASSUME NEW w \in Workers, OpenForSave(w)
      PROVE  TypeOK'
  BY <1>0, <1>9, ConstantsAssumption DEF OpenForSave, Goto, Job
<1>10. ASSUME NEW w \in Workers, SaveDone(w)
       PROVE  TypeOK'
  <2>1. job[w].kv \in KV /\ job[w].s \in Sessions
    BY DEF Job
  <2>2. Whole(job[w].kv) \in File
    BY <2>1 DEF Whole, File
  <2>3. lru' \in [Workers -> Seq(Sessions)] /\ cache' \in [Workers -> [Sessions -> KV]]
    BY <1>10, EvictionOnlyForgets DEF SaveDone
  <2> QED BY <1>10, <2>1, <2>2, <2>3 DEF SaveDone, Goto, Job
<1>11. ASSUME NEW w \in Workers, SkipSave(w)
       PROVE  TypeOK'
  <2>1. lru' \in [Workers -> Seq(Sessions)] /\ cache' \in [Workers -> [Sessions -> KV]]
    BY <1>11, EvictionOnlyForgets DEF SkipSave
  <2> QED BY <1>11, <2>1 DEF SkipSave, Goto, Job
<1>12. ASSUME NEW w \in Workers, Reply(w)
       PROVE  TypeOK'
  <2>1. job[w].kv.log \in SUBSET Nat
    BY DEF Job, KV
  <2> QED BY <1>12, <2>1 DEF Reply, Goto, Job
<1>13. ASSUME NEW w \in Workers, Restart(w)
       PROVE  TypeOK'
  <2>1. job' \in [Workers -> Job]
    BY <1>13, GotoType DEF Restart
  <2>2. cache' \in [Workers -> [Sessions -> KV]] /\ lru' \in [Workers -> Seq(Sessions)]
    BY <1>0, <1>13 DEF Restart
  <2> QED BY <1>13, <2>1, <2>2 DEF Restart
<1>14. CASE UNCHANGED vars
  BY <1>14 DEF vars
<1> QED
  BY <1>2, <1>3, <1>4, <1>5, <1>6, <1>7, <1>8, <1>9, <1>10, <1>11, <1>12, <1>13, <1>14
  DEF Next

\* Every reachable state is well typed: the residency cache, the store and the
\* calls in progress keep their shapes through failures and restarts.
THEOREM TypeCorrect == Spec => []TypeOK
<1>1. Init => TypeOK
  BY ConstantsAssumption DEF Init, TypeOK, NoKV, KV, Job, Missing, File
<1>2. TypeOK /\ [Next]_vars => TypeOK'
  BY TypeStep
<1> QED BY <1>1, <1>2, PTL DEF Spec
-----------------------------------------------------------------------------
(* No acknowledged turn is silently lost. *)

\* The deployment NoSilentLoss is about: one store format, and a session stays
\* with the worker that holds it.
StickyAndUniform ==
    /\ Routing = "sticky"
    /\ \A f, g \in StoreFormats : f = g

\* Moving a worker to its next program point changes nothing else of any call.
LEMMA GotoFrame ==
    ASSUME TypeOK, NEW w \in Workers, NEW pc, Goto(w, pc)
    PROVE  /\ job'[w].pc = pc
           /\ job'[w].s = job[w].s
           /\ job'[w].kv = job[w].kv
           /\ \A v \in Workers \ {w} : job'[v] = job[v]
BY DEF TypeOK, Goto, Job

\* _get changes only the calling worker's call.
LEMMA BeginFrame ==
    ASSUME TypeOK, NEW w \in Workers, NEW s, NEW pc, NEW kv, BeginTurn(w, s, pc, kv)
    PROVE  /\ job'[w].pc = pc
           /\ job'[w].s = s
           /\ job'[w].kv = kv
           /\ \A v \in Workers \ {w} : job'[v] = job[v]
           /\ UNCHANGED <<cache, file, acked>>
           /\ Idle(w) /\ Routed(w, s)
BY DEF TypeOK, BeginTurn

\* A step of the program keeps the acknowledged conversation where
\* ConversationInv says it is.
LEMMA ConversationStep ==
    ASSUME StickyAndUniform, persist, TypeOK, TypeOK', ConversationInv, [Next]_vars
    PROVE  ConversationInv'
<1> USE DEF ConversationInv
<1>0. /\ \A w \in Workers : job[w].s \in Sessions /\ job[w].kv \in KV
      /\ \A w \in Workers : fmt[w] \in Formats /\ fmt[w] \in StoreFormats
      /\ \A f \in StoreFormats, w \in Workers : f = fmt[w]
  BY ConstantsAssumption DEF TypeOK, Job, StickyAndUniform
<1>1. ASSUME NEW w \in Workers, NEW s \in Sessions, GetResident(w, s)
      PROVE  ConversationInv'
  <2>0. /\ job'[w].pc = "generate" /\ job'[w].s = s /\ job'[w].kv = cache[w][s]
        /\ \A v \in Workers \ {w} : job'[v] = job[v]
        /\ UNCHANGED <<cache, file, acked>>
        /\ Idle(w)
        /\ \A v \in Workers \ {w} : ~Busy(v, s) /\ ~Resident(v, s)
        /\ Resident(w, s)
    BY <1>0, <1>1, BeginFrame DEF GetResident, Routed, StickyAndUniform
  <2>1. SingleHolder'
    BY <1>0, <2>0 DEF SingleHolder, Holds, Resident, Busy, Idle
  <2>2. CachesComplete'
    BY <1>0, <2>0 DEF CachesComplete, Resident
  <2>3. FilesComplete'
    BY <1>0, <2>0 DEF FilesComplete, Has, Exists
  <2>4. JobsInStep'
    BY <1>0, <2>0 DEF JobsInStep
  <2>5. NoSilentLoss'
    BY <1>0, <2>0 DEF NoSilentLoss, CachesComplete, Resident
  <2> QED BY <2>1, <2>2, <2>3, <2>4, <2>5
<1>2. ASSUME NEW w \in Workers, NEW s \in Sessions, GetPersisted(w, s)
      PROVE  ConversationInv'
  <2>0. /\ job'[w].pc = "load" /\ job'[w].s = s /\ job'[w].kv = NoKV
        /\ \A v \in Workers \ {w} : job'[v] = job[v]
        /\ UNCHANGED <<cache, file, acked>>
        /\ Idle(w)
        /\ \A v \in Workers \ {w} : ~Busy(v, s) /\ ~Resident(v, s)
    BY <1>0, <1>2, BeginFrame DEF GetPersisted, Routed, StickyAndUniform
  <2>1. SingleHolder'
    BY <1>0, <2>0 DEF SingleHolder, Holds, Resident, Busy, Idle
  <2>2. CachesComplete'
    BY <1>0, <2>0 DEF CachesComplete, Resident
  <2>3. FilesComplete'
    BY <1>0, <2>0 DEF FilesComplete, Has, Exists
  <2>4. JobsInStep'
    BY <1>0, <2>0 DEF JobsInStep
  <2>5. NoSilentLoss'
    BY <1>0, <2>0 DEF NoSilentLoss
  <2> QED BY <2>1, <2>2, <2>3, <2>4, <2>5
<1>3. ASSUME NEW w \in Workers, NEW s \in Sessions, GetNone(w, s)
      PROVE  ConversationInv'
  <2>0. /\ job'[w].pc = "generate" /\ job'[w].s = s /\ job'[w].kv = NoKV
        /\ \A v \in Workers \ {w} : job'[v] = job[v]
        /\ UNCHANGED <<cache, file, acked>>
        /\ Idle(w)
        /\ \A v \in Workers \ {w} : ~Busy(v, s) /\ ~Resident(v, s)
        /\ ~Resident(w, s)
        /\ ~Has(s)
    BY <1>0, <1>3, BeginFrame DEF GetNone, Routed, StickyAndUniform
  <2>1. SingleHolder'
    BY <1>0, <2>0 DEF SingleHolder, Holds, Resident, Busy, Idle
  <2>2. CachesComplete'
    BY <1>0, <2>0 DEF CachesComplete, Resident
  <2>3. FilesComplete'
    BY <1>0, <2>0 DEF FilesComplete, Has, Exists
  <2>4. JobsInStep'
    BY <1>0, <2>0 DEF JobsInStep, Resident
  <2>5. NoSilentLoss'
    BY <1>0, <2>0 DEF NoSilentLoss, FilesComplete
  <2> QED BY <2>1, <2>2, <2>3, <2>4, <2>5
<1>4. ASSUME NEW w \in Workers, NEW s \in Sessions, Drop(w, s)
      PROVE  ConversationInv'
  <2>0. /\ UNCHANGED job
        /\ Idle(w)
        /\ \A v \in Workers \ {w} : ~Busy(v, s) /\ ~Resident(v, s)
        /\ acked'[s] = {} /\ \A f \in Formats : file'[s][f] = Missing
        /\ \A r \in Sessions \ {s} : acked'[r] = acked[r] /\ file'[r] = file[r]
        /\ cache'[w][s] = NoKV
        /\ \A v \in Workers, r \in Sessions : (v = w /\ r = s) \/ cache'[v][r] = cache[v][r]
    BY <1>0, <1>4 DEF Drop, Routed, StickyAndUniform, TypeOK
  <2>1. SingleHolder'
    BY <1>0, <2>0 DEF SingleHolder, Holds, Resident, Busy, Idle
  <2>2. CachesComplete'
    BY <1>0, <2>0 DEF CachesComplete, Resident
  <2>3. FilesComplete'
    BY <1>0, <2>0 DEF FilesComplete, Has, Exists, Missing
  <2>4. JobsInStep'
    BY <1>0, <2>0 DEF JobsInStep, Busy, Idle
  <2>5. NoSilentLoss'
    BY <1>0, <2>0 DEF NoSilentLoss
  <2> QED BY <2>1, <2>2, <2>3, <2>4, <2>5
<1>5. ASSUME NEW w \in Workers, Load(w)
      PROVE  ConversationInv'
  <2>0. /\ job[w].pc = "load" /\ job'[w].pc = "generate" /\ job'[w].s = job[w].s
        /\ \A v \in Workers \ {w} : job'[v] = job[v]
        /\ UNCHANGED <<file, acked>>
        /\ cache'[w][job[w].s] = job'[w].kv
        /\ \A v \in Workers, r \in Sessions : (v = w /\ r = job[w].s) \/ cache'[v][r] = cache[v][r]
        /\ acked[job[w].s] \subseteq job'[w].kv.log
    <3> DEFINE s == job[w].s
               f == Resolve(w, s)
    <3>1. f \in Formats /\ file[s][f].state = "whole"
      BY <1>0, <1>5 DEF Load, Has, Resolve
    <3>2. acked[s] \subseteq file[s][f].kv.log
      BY <1>0, <3>1 DEF FilesComplete
    <3>3. /\ job'[w].pc = "generate" /\ job'[w].s = s /\ job'[w].kv = file[s][f].kv
          /\ \A v \in Workers \ {w} : job'[v] = job[v]
      BY <1>5 DEF Load, TypeOK, Job
    <3>4. /\ cache'[w][s] = file[s][f].kv
          /\ \A v \in Workers, r \in Sessions : (v = w /\ r = s) \/ cache'[v][r] = cache[v][r]
      BY <1>0, <1>5 DEF Load, TypeOK
    <3> QED BY <1>5, <3>2, <3>3, <3>4 DEF Load
  <2>1. SingleHolder'
    BY <1>0, <2>0 DEF SingleHolder, Holds, Resident, Busy, Idle
  <2>2. CachesComplete'
    BY <1>0, <2>0 DEF CachesComplete, Resident
  <2>3. FilesComplete'
    BY <1>0, <2>0 DEF FilesComplete, Has, Exists
  <2>4. JobsInStep'
    BY <1>0, <2>0 DEF JobsInStep
  <2>5. NoSilentLoss'
    BY <1>0, <2>0 DEF NoSilentLoss
  <2> QED BY <2>1, <2>2, <2>3, <2>4, <2>5
<1>6. ASSUME NEW w \in Workers, LoadRaises(w) \/ GenerateRaises(w) \/ SaveRaises(w)
      PROVE  ConversationInv'
  <2>0. /\ job'[w].pc = "idle" /\ job'[w].s = job[w].s /\ job'[w].kv = job[w].kv
        /\ \A v \in Workers \ {w} : job'[v] = job[v]
        /\ UNCHANGED <<cache, file, acked>>
    BY <1>0, <1>6, GotoFrame DEF LoadRaises, GenerateRaises, SaveRaises
  <2>1. SingleHolder'
    BY <1>0, <2>0 DEF SingleHolder, Holds, Resident, Busy, Idle
  <2>2. CachesComplete'
    BY <1>0, <2>0 DEF CachesComplete, Resident
  <2>3. FilesComplete'
    BY <1>0, <2>0 DEF FilesComplete, Has, Exists
  <2>4. JobsInStep'
    BY <1>0, <2>0 DEF JobsInStep
  <2>5. NoSilentLoss'
    BY <1>0, <2>0 DEF NoSilentLoss
  <2> QED BY <2>1, <2>2, <2>3, <2>4, <2>5
<1>7. ASSUME NEW w \in Workers, Generate(w)
      PROVE  ConversationInv'
  <2>0. /\ job[w].pc = "generate" /\ job'[w].pc = "save" /\ job'[w].s = job[w].s
        /\ \A v \in Workers \ {w} : job'[v] = job[v]
        /\ UNCHANGED <<file, acked>>
        /\ cache'[w][job[w].s] = job'[w].kv
        /\ \A v \in Workers, r \in Sessions : (v = w /\ r = job[w].s) \/ cache'[v][r] = cache[v][r]
        /\ acked[job[w].s] \subseteq job'[w].kv.log
    BY <1>0, <1>7 DEF Generate, Extended, TypeOK, NoSilentLoss, Job
  <2>1. SingleHolder'
    BY <1>0, <2>0 DEF SingleHolder, Holds, Resident, Busy, Idle
  <2>2. CachesComplete'
    BY <1>0, <2>0 DEF CachesComplete, Resident
  <2>3. FilesComplete'
    BY <1>0, <2>0 DEF FilesComplete, Has, Exists
  <2>4. JobsInStep'
    BY <1>0, <2>0 DEF JobsInStep
  <2>5. NoSilentLoss'
    BY <1>0, <2>0 DEF NoSilentLoss
  <2> QED BY <2>1, <2>2, <2>3, <2>4, <2>5
<1>8. ASSUME NEW w \in Workers, OpenForSave(w)
      PROVE  ConversationInv'
  <2>0. /\ job[w].pc = "save"
        /\ job'[w].pc = "write" /\ job'[w].s = job[w].s /\ job'[w].kv = job[w].kv
        /\ \A v \in Workers \ {w} : job'[v] = job[v]
        /\ UNCHANGED <<cache, acked>>
        /\ file'[job[w].s][fmt[w]] = Torn
        /\ \A r \in Sessions, f \in Formats : (r = job[w].s /\ f = fmt[w]) \/ file'[r][f] = file[r][f]
        /\ StoreFormats \subseteq Formats
    BY <1>0, <1>8, GotoFrame, ConstantsAssumption, ZenonT(40)
    DEF OpenForSave, TypeOK
  <2>1. SingleHolder'
    BY <1>0, <2>0 DEF SingleHolder, Holds, Resident, Busy, Idle
  <2>2. CachesComplete'
    BY <1>0, <2>0 DEF CachesComplete, Resident
  <2>3. FilesComplete'
    BY <1>0, <2>0 DEF FilesComplete, Has, Exists, Torn
  <2>4. JobsInStep'
    BY <1>0, <2>0 DEF JobsInStep, SingleHolder, Holds, Busy, Idle
  <2>5. NoSilentLoss'
    BY <1>0, <2>0 DEF NoSilentLoss
  <2> QED BY <2>1, <2>2, <2>3, <2>4, <2>5
<1>9. ASSUME NEW w \in Workers, SaveDone(w)
      PROVE  ConversationInv'
  <2>0. /\ job[w].pc = "write"
        /\ job'[w].pc = "reply" /\ job'[w].s = job[w].s /\ job'[w].kv = job[w].kv
        /\ \A v \in Workers \ {w} : job'[v] = job[v]
        /\ UNCHANGED acked
        /\ file'[job[w].s][fmt[w]] = Whole(job[w].kv)
        /\ \A r \in Sessions, f \in Formats : (r = job[w].s /\ f = fmt[w]) \/ file'[r][f] = file[r][f]
        /\ StoreFormats \subseteq Formats
        /\ \A v \in Workers, r \in Sessions : cache'[v][r] = cache[v][r] \/ (v = w /\ cache'[v][r] = NoKV)
    BY <1>0, <1>9, GotoFrame, EvictionOnlyForgets, ConstantsAssumption, ZenonT(40)
    DEF SaveDone, TypeOK
  <2>1. SingleHolder'
    BY <1>0, <2>0 DEF SingleHolder, Holds, Resident, Busy, Idle
  <2>2. CachesComplete'
    BY <1>0, <2>0 DEF CachesComplete, Resident
  <2>3. FilesComplete'
    BY <1>0, <2>0 DEF FilesComplete, Has, Exists, Whole, NoSilentLoss
  <2>4. JobsInStep'
    BY <1>0, <2>0 DEF JobsInStep, SingleHolder, Holds, Busy, Idle
  <2>5. NoSilentLoss'
    BY <1>0, <2>0 DEF NoSilentLoss
  <2> QED BY <2>1, <2>2, <2>3, <2>4, <2>5
<1>10. ASSUME NEW w \in Workers, SkipSave(w)
       PROVE  ConversationInv'
  BY <1>10 DEF SkipSave, StickyAndUniform
<1>11. ASSUME NEW w \in Workers, Reply(w)
       PROVE  ConversationInv'
  <2>0. /\ job[w].pc = "reply"
        /\ job'[w].pc = "idle" /\ job'[w].s = job[w].s /\ job'[w].kv = job[w].kv
        /\ \A v \in Workers \ {w} : job'[v] = job[v]
        /\ UNCHANGED <<cache, file>>
        /\ acked'[job[w].s] = job[w].kv.log
        /\ \A r \in Sessions \ {job[w].s} : acked'[r] = acked[r]
    BY <1>0, <1>11, GotoFrame, ZenonT(40) DEF Reply, TypeOK
  <2>1. SingleHolder'
    BY <1>0, <2>0 DEF SingleHolder, Holds, Resident, Busy, Idle
  <2>2. CachesComplete'
    BY <1>0, <2>0 DEF CachesComplete, Resident, SingleHolder, JobsInStep, Holds, Busy, Idle
  <2>3. FilesComplete'
    <3> DEFINE s == job[w].s
    <3>1. \A f \in Formats : Exists(s, f) => file[s][f] = Whole(job[w].kv)
      BY <1>0, <2>0 DEF FilesComplete, JobsInStep
    <3>2. Exists(s, fmt[w])
      <4>1. file[s][fmt[w]] = Whole(job[w].kv)
        BY <1>0, <2>0 DEF JobsInStep
      <4>2. Whole(job[w].kv).state = "whole"
        BY DEF Whole
      <4> QED BY <4>1, <4>2 DEF Exists
    <3>3. ASSUME NEW r \in Sessions, ~Has(r)'
          PROVE  acked'[r] = {}
      BY <1>0, <2>0, <3>2, <3>3 DEF FilesComplete, Has, Exists
    <3>4. ASSUME NEW r \in Sessions, NEW f \in Formats, file'[r][f].state = "whole"
          PROVE  acked'[r] \subseteq file'[r][f].kv.log
      BY <1>0, <2>0, <3>1, <3>4 DEF FilesComplete, Exists, Whole
    <3>5. ASSUME NEW r \in Sessions, NEW f \in Formats, Exists(r, f)'
          PROVE  f \in StoreFormats
      BY <2>0, <3>5 DEF FilesComplete, Exists
    <3> QED BY <3>3, <3>4, <3>5 DEF FilesComplete
  <2>4. JobsInStep'
    BY <1>0, <2>0 DEF JobsInStep
  <2>5. NoSilentLoss'
    BY <1>0, <2>0 DEF NoSilentLoss, SingleHolder, Holds, Busy, Idle
  <2> QED BY <2>1, <2>2, <2>3, <2>4, <2>5
<1>12. ASSUME NEW w \in Workers, Restart(w)
       PROVE  ConversationInv'
  <2>0. /\ job'[w].pc = "idle" /\ job'[w].s = job[w].s /\ job'[w].kv = job[w].kv
        /\ \A v \in Workers \ {w} : job'[v] = job[v]
        /\ UNCHANGED <<file, acked>>
        /\ \A r \in Sessions : cache'[w][r] = NoKV
        /\ \A v \in Workers \ {w} : cache'[v] = cache[v]
    BY <1>0, <1>12, GotoFrame DEF Restart, TypeOK
  <2>1. SingleHolder'
    BY <1>0, <2>0 DEF SingleHolder, Holds, Resident, Busy, Idle
  <2>2. CachesComplete'
    BY <1>0, <2>0 DEF CachesComplete, Resident
  <2>3. FilesComplete'
    BY <1>0, <2>0 DEF FilesComplete, Has, Exists
  <2>4. JobsInStep'
    BY <1>0, <2>0 DEF JobsInStep
  <2>5. NoSilentLoss'
    BY <1>0, <2>0 DEF NoSilentLoss
  <2> QED BY <2>1, <2>2, <2>3, <2>4, <2>5
<1>13. CASE UNCHANGED vars
  BY <1>13 DEF vars, SingleHolder, CachesComplete, FilesComplete, JobsInStep, NoSilentLoss,
               Holds, Resident, Busy, Idle, Has, Exists
<1> QED
  BY <1>1, <1>2, <1>3, <1>4, <1>5, <1>6, <1>7, <1>8, <1>9, <1>10, <1>11, <1>12, <1>13
  DEF Next

\* With persist=True, one store format and sticky routing, a turn never continues
\* from less than what the client was told: every acknowledged turn is in the
\* context, through evictions, failed saves, torn files and crashes
\* (SessionManager.turn).
THEOREM AcknowledgedTurnsSurvive ==
    ASSUME StickyAndUniform
    PROVE  Spec => []NoSilentLoss
<1>1. Init => TypeOK /\ ConversationInv
  <2>1. Init => TypeOK
    BY ConstantsAssumption DEF Init, TypeOK, NoKV, KV, Job, Missing, File
  <2>2. Init => ConversationInv
    BY DEF Init, ConversationInv, SingleHolder, CachesComplete, FilesComplete, JobsInStep,
           NoSilentLoss, Holds, Resident, Busy, Idle, Has, Exists, Missing
  <2> QED BY <2>1, <2>2
<1>2. TypeOK /\ (persist => ConversationInv) /\ [Next]_vars
        => TypeOK' /\ (persist' => ConversationInv')
  <2>1. [Next]_vars => persist' = persist
    BY ZenonT(40)
    DEF Next, vars, GetResident, GetPersisted, GetNone, BeginTurn, Drop, Load, LoadRaises,
           Generate, GenerateRaises, OpenForSave, SaveDone, SkipSave, SaveRaises, Reply, Restart
  <2> QED BY <2>1, TypeStep, ConversationStep
<1>3. (persist => ConversationInv) => NoSilentLoss
  BY DEF ConversationInv, NoSilentLoss
<1> QED BY <1>1, <1>2, <1>3, PTL DEF Spec

-----------------------------------------------------------------------------
(* What the residency cache keeps. *)

\* The keys of an OrderedDict are distinct.
NoDup(seq) == \A i, j \in 1..Len(seq) : seq[i] = seq[j] => i = j

\* pop removes the key and leaves the others distinct (OrderedDict.pop).
LEMMA WithoutKeys ==
    ASSUME NEW seq \in Seq(Sessions), NoDup(seq), NEW s \in Sessions
    PROVE  NoDup(Without(seq, s)) /\ ~IsKey(Without(seq, s), s)
<1>1. CASE IsKey(seq, s)
  <2> DEFINE n == Len(seq)
             k == CHOOSE i \in 1..n : seq[i] = s
             r == [i \in 1..n - 1 |-> IF i < k THEN seq[i] ELSE seq[i + 1]]
  <2>1. n \in Nat /\ n >= 1 /\ k \in 1..n /\ seq[k] = s
    BY <1>1 DEF IsKey
  <2>2. Without(seq, s) = r
    BY <1>1 DEF Without
  <2>3. Len(r) = n - 1
    BY <2>1
  <2>4. \A i \in 1..n : seq[i] = s => i = k
    BY <2>1 DEF NoDup
  <2> HIDE DEF k
  <2>5. \A i \in 1..n - 1 : r[i] # s
    BY <2>1, <2>4
  <2>6. \A i, j \in 1..n - 1 : r[i] = r[j] => i = j
    <3> SUFFICES ASSUME NEW i \in 1..n - 1, NEW j \in 1..n - 1, r[i] = r[j]
                 PROVE  i = j
      OBVIOUS
    <3> DEFINE p == IF i < k THEN i ELSE i + 1
               q == IF j < k THEN j ELSE j + 1
    <3>1. p \in 1..n /\ q \in 1..n /\ r[i] = seq[p] /\ r[j] = seq[q]
      BY <2>1
    <3>2. p = q
      BY <3>1 DEF NoDup
    <3> QED BY <2>1, <3>2
  <2> HIDE DEF r, n
  <2>7. NoDup(r) /\ ~IsKey(r, s)
    BY <2>3, <2>5, <2>6 DEF NoDup, IsKey
  <2> QED BY <2>2, <2>7
<1>2. CASE ~IsKey(seq, s)
  BY <1>2 DEF Without
<1> QED BY <1>1, <1>2

\* After a use the key is the last one, and there once (OrderedDict.move_to_end,
\* or the insertion of a new key).
LEMMA TouchKeys ==
    ASSUME TypeOK, NEW w \in Workers, NEW s \in Sessions, NoDup(lru[w])
    PROVE  /\ NoDup(Touch(w, s))
           /\ Len(Touch(w, s)) \in Nat /\ Len(Touch(w, s)) > 0
           /\ Touch(w, s)[Len(Touch(w, s))] = s
<1> DEFINE b == Without(lru[w], s)
<1>1. b \in Seq(Sessions) /\ NoDup(b) /\ ~IsKey(b, s)
  BY WithoutType, WithoutKeys DEF TypeOK
<1> HIDE DEF b
<1>2. /\ Len(Append(b, s)) = Len(b) + 1 /\ Len(b) \in Nat
      /\ Append(b, s)[Len(b) + 1] = s
      /\ \A i \in 1..Len(b) : Append(b, s)[i] = b[i]
  BY <1>1, AppendProperties
<1>3. NoDup(Append(b, s))
  <2> SUFFICES ASSUME NEW i \in 1..Len(b) + 1, NEW j \in 1..Len(b) + 1,
                      Append(b, s)[i] = Append(b, s)[j]
               PROVE  i = j
    BY <1>2 DEF NoDup
  <2>1. CASE i \in 1..Len(b) /\ j \in 1..Len(b)
    BY <1>1, <1>2, <2>1 DEF NoDup
  <2>2. CASE i = Len(b) + 1 /\ j \in 1..Len(b)
    BY <1>1, <1>2, <2>2 DEF IsKey
  <2>3. CASE j = Len(b) + 1 /\ i \in 1..Len(b)
    BY <1>1, <1>2, <2>3 DEF IsKey
  <2> QED BY <1>2, <2>1, <2>2, <2>3
<1> QED BY <1>2, <1>3 DEF Touch, b

\* The eviction loop takes the oldest keys down to keep_resident: never the key
\* used last, if anything is kept (SessionManager._put).
LEMMA EvictionKeepsNewest ==
    ASSUME TypeOK, NEW w \in Workers, EvictLru(w), NoDup(lru[w])
    PROVE  /\ NoDup(lru'[w]) /\ Len(lru'[w]) <= KeepResident
           /\ KeepResident > 0 /\ Len(lru[w]) > 0 =>
                 \A s \in Sessions : s = lru[w][Len(lru[w])] => cache'[w][s] = cache[w][s]
<1> DEFINE n == Len(lru[w])
           e == Excess(w)
<1>1. lru[w] \in Seq(Sessions) /\ n \in Nat /\ KeepResident \in Nat
  BY ConstantsAssumption DEF TypeOK
<1>2. e \in 0..n /\ n - e <= KeepResident /\ (KeepResident > 0 /\ n > 0 => e < n)
  BY <1>1 DEF Excess
<1>3. lru'[w] = SubSeq(lru[w], e + 1, n)
  BY DEF EvictLru, TypeOK
<1>4. /\ Len(lru'[w]) = n - e
      /\ \A i \in 1..n - e : lru'[w][i] = lru[w][e + i]
  <2> DEFINE t == SubSeq(lru[w], e + 1, n)
  <2>1. e + 1 \in 1..n + 1 /\ e + 1 \in Int
    BY <1>1, <1>2
  <2>2. /\ Len(t) = IF e + 1 <= n THEN n - (e + 1) + 1 ELSE 0
        /\ \A i \in 1..n - (e + 1) + 1 : t[i] = lru[w][e + 1 + i - 1]
    BY <1>1, <2>1, SubSeqProperties
  <2> HIDE DEF t, e, n
  <2>3. Len(t) = n - e
    BY <1>1, <1>2, <2>2
  <2>4. \A i \in 1..n - e : t[i] = lru[w][e + i]
    BY <1>1, <1>2, <2>2
  <2> QED BY <1>3, <2>3, <2>4 DEF t, e, n
<1>5. NoDup(lru'[w])
  <2> SUFFICES ASSUME NEW i \in 1..n - e, NEW j \in 1..n - e, lru'[w][i] = lru'[w][j]
               PROVE  i = j
    BY <1>4 DEF NoDup
  <2> HIDE DEF e, n
  <2>1. e + i \in 1..n /\ e + j \in 1..n /\ lru[w][e + i] = lru[w][e + j]
    BY <1>1, <1>2, <1>4
  <2>2. e + i = e + j
    BY <2>1 DEF NoDup, n
  <2> QED BY <1>2, <2>2
<1>6. ASSUME KeepResident > 0, n > 0, NEW s \in Sessions, s = lru[w][n]
      PROVE  cache'[w][s] = cache[w][s]
  <2>1. \A i \in 1..e : i \in 1..n /\ i # n
    BY <1>1, <1>2, <1>6
  <2>2. n \in 1..n
    BY <1>1, <1>6
  <2>3. s \notin Evicted(w)
    BY <1>6, <2>1, <2>2 DEF Evicted, NoDup
  <2> QED BY <2>3 DEF EvictLru, TypeOK
<1> QED BY <1>2, <1>4, <1>5, <1>6

\* What every worker knows of its own OrderedDict: the keys are distinct, the
\* session whose turn is being stored is the newest key, and the residency promise
\* holds while the reply is under way.  No other worker touches any of it.
KeptBy(w) ==
    /\ NoDup(lru[w])
    /\ job[w].pc \in {"save", "write"} =>
          /\ Len(lru[w]) > 0 /\ lru[w][Len(lru[w])] = job[w].s
          /\ cache[w][job[w].s] = job[w].kv
    /\ job[w].pc = "reply" =>
          /\ Len(lru[w]) <= KeepResident
          /\ KeepResident > 0 => cache[w][job[w].s] = job[w].kv

KeptInv == \A w \in Workers : KeptBy(w)

\* A worker that takes no step keeps its residency.
LEMMA OthersKeep ==
    ASSUME TypeOK, NEW v \in Workers, KeptBy(v), job'[v] = job[v],
           lru'[v] = lru[v], cache'[v] = cache[v]
    PROVE  KeptBy(v)'
BY DEF KeptBy, NoDup

\* Every step keeps the residency invariant.
LEMMA KeptStep ==
    ASSUME TypeOK, KeptInv, [Next]_vars
    PROVE  KeptInv'
<1>0. \A w \in Workers : job[w].s \in Sessions /\ lru[w] \in Seq(Sessions)
  BY DEF TypeOK, Job
<1> SUFFICES ASSUME NEW v \in Workers PROVE KeptBy(v)'
  BY DEF KeptInv
<1>00. KeptBy(v)
  BY DEF KeptInv
<1>1. ASSUME NEW w \in Workers, NEW s \in Sessions,
             GetResident(w, s) \/ GetPersisted(w, s) \/ GetNone(w, s)
      PROVE  KeptBy(v)'
  <2>1. /\ job'[w].pc \in {"load", "generate"}
        /\ \A u \in Workers \ {w} : job'[u] = job[u] /\ lru'[u] = lru[u]
        /\ cache' = cache
        /\ lru'[w] \in {lru[w], Touch(w, s)}
    BY <1>1, BeginFrame DEF GetResident, GetPersisted, GetNone, TypeOK
  <2>2. NoDup(lru'[w])
    BY <2>1, TouchKeys DEF KeptInv, KeptBy
  <2>3. CASE v = w
    BY <2>1, <2>2, <2>3 DEF KeptBy, NoDup
  <2> QED BY <1>00, <2>1, <2>3, OthersKeep
<1>2. ASSUME NEW w \in Workers, Load(w)
      PROVE  KeptBy(v)'
  <2>1. /\ job'[w].pc = "generate" /\ lru'[w] = Touch(w, job[w].s)
        /\ \A u \in Workers \ {w} : job'[u] = job[u] /\ lru'[u] = lru[u] /\ cache'[u] = cache[u]
    BY <1>2 DEF Load, TypeOK, Job
  <2>2. NoDup(lru'[w])
    BY <1>0, <2>1, TouchKeys DEF KeptInv, KeptBy
  <2>3. CASE v = w
    BY <2>1, <2>2, <2>3 DEF KeptBy, NoDup
  <2> QED BY <1>00, <2>1, <2>3, OthersKeep
<1>3. ASSUME NEW w \in Workers, Generate(w)
      PROVE  KeptBy(v)'
  <2>1. /\ job'[w].pc = "save" /\ job'[w].s = job[w].s /\ lru'[w] = Touch(w, job[w].s)
        /\ cache'[w][job[w].s] = job'[w].kv
        /\ \A u \in Workers \ {w} : job'[u] = job[u] /\ lru'[u] = lru[u] /\ cache'[u] = cache[u]
    BY <1>0, <1>3 DEF Generate, TypeOK, Job
  <2>2. NoDup(lru'[w]) /\ Len(lru'[w]) > 0 /\ lru'[w][Len(lru'[w])] = job[w].s
    BY <1>0, <2>1, TouchKeys DEF KeptInv, KeptBy
  <2>3. CASE v = w
    BY <2>1, <2>2, <2>3 DEF KeptBy, NoDup
  <2> QED BY <1>00, <2>1, <2>3, OthersKeep
<1>4. ASSUME NEW w \in Workers,
             \/ LoadRaises(w) \/ GenerateRaises(w) \/ SaveRaises(w)
             \/ OpenForSave(w) \/ Reply(w)
      PROVE  KeptBy(v)'
  <2>1. /\ lru' = lru /\ cache' = cache
        /\ job'[w].s = job[w].s /\ job'[w].kv = job[w].kv
        /\ \/ job'[w].pc = "idle"
           \/ job[w].pc = "save" /\ job'[w].pc = "write"
        /\ \A u \in Workers \ {w} : job'[u] = job[u]
    BY <1>4, GotoFrame DEF LoadRaises, GenerateRaises, SaveRaises, OpenForSave, Reply
  <2>2. CASE v = w
    BY <1>00, <2>1, <2>2 DEF KeptBy, NoDup
  <2> QED BY <1>00, <2>1, <2>2, OthersKeep
<1>5. ASSUME NEW w \in Workers, SaveDone(w) \/ SkipSave(w)
      PROVE  KeptBy(v)'
  <2>1. /\ EvictLru(w) /\ job[w].pc \in {"save", "write"}
        /\ job'[w].pc = "reply" /\ job'[w].s = job[w].s /\ job'[w].kv = job[w].kv
        /\ \A u \in Workers \ {w} : job'[u] = job[u] /\ lru'[u] = lru[u] /\ cache'[u] = cache[u]
    BY <1>5, GotoFrame DEF SaveDone, SkipSave, EvictLru, TypeOK
  <2>2. KeptBy(w)
    BY DEF KeptInv
  <2>3. /\ NoDup(lru'[w]) /\ Len(lru'[w]) <= KeepResident
        /\ KeepResident > 0 => cache'[w][job[w].s] = cache[w][job[w].s]
    BY <1>0, <2>1, <2>2, EvictionKeepsNewest DEF KeptBy
  <2>4. CASE v = w
    BY <2>1, <2>2, <2>3, <2>4 DEF KeptBy, NoDup
  <2> QED BY <1>00, <2>1, <2>4, OthersKeep
<1>6. ASSUME NEW w \in Workers, NEW s \in Sessions, Drop(w, s)
      PROVE  KeptBy(v)'
  <2>1. /\ job' = job /\ job[w].pc = "idle" /\ lru'[w] = Without(lru[w], s)
        /\ \A u \in Workers \ {w} : lru'[u] = lru[u] /\ cache'[u] = cache[u]
    BY <1>6 DEF Drop, Idle, TypeOK
  <2>2. NoDup(lru'[w])
    BY <1>0, <2>1, WithoutKeys DEF KeptInv, KeptBy
  <2>3. CASE v = w
    BY <2>1, <2>2, <2>3 DEF KeptBy, NoDup
  <2> QED BY <1>00, <2>1, <2>3, OthersKeep
<1>7. ASSUME NEW w \in Workers, Restart(w)
      PROVE  KeptBy(v)'
  <2>1. /\ job'[w].pc = "idle" /\ lru'[w] = << >>
        /\ \A u \in Workers \ {w} : job'[u] = job[u] /\ lru'[u] = lru[u] /\ cache'[u] = cache[u]
    BY <1>7, GotoFrame DEF Restart, TypeOK
  <2>2. NoDup(lru'[w])
    BY <2>1 DEF NoDup
  <2>3. CASE v = w
    BY <2>1, <2>2, <2>3 DEF KeptBy, NoDup
  <2> QED BY <1>00, <2>1, <2>3, OthersKeep
<1>8. CASE UNCHANGED vars
  BY <1>00, <1>8, OthersKeep DEF vars
<1> QED BY <1>1, <1>2, <1>3, <1>4, <1>5, <1>6, <1>7, <1>8 DEF Next

\* When a turn returns its worker is back within keep_resident and, unless it
\* keeps nothing, still holds the session just used: for every routing, store and
\* fault (SessionManager._put).
THEOREM ResidencyIsKept == Spec => []ResidencyAfterPut
<1>1. Init => KeptInv
  BY DEF Init, KeptInv, KeptBy, NoDup
<1>2. TypeOK /\ KeptInv /\ [Next]_vars => KeptInv'
  BY KeptStep
<1>3. KeptInv => ResidencyAfterPut
  BY DEF KeptInv, KeptBy, ResidencyAfterPut
<1> QED BY TypeCorrect, <1>1, <1>2, <1>3, PTL DEF Spec

-----------------------------------------------------------------------------
(* A dropped conversation does not come back. *)

\* No turn of kv was dropped with an earlier life of session s.
After(kv, s) == \A i \in kv.log : i >= floor[s]

\* Every copy of a session a later turn could continue is of its present life: the
\* resident ones, the files, and the calls in progress; a deployment that does not
\* persist has no files.  With sticky routing a drop finds no other worker holding
\* the session.
FreshInv ==
    /\ SingleHolder
    /\ \A s \in Sessions : floor[s] <= nextId
    /\ \A w \in Workers, s \in Sessions : After(cache[w][s], s)
    /\ \A s \in Sessions, f \in Formats : After(file[s][f].kv, s)
    /\ \A w \in Workers : ~Idle(w) =>
          After(job[w].kv, job[w].s) /\ job[w].id >= floor[job[w].s]
    /\ ~persist =>
          /\ \A s \in Sessions, f \in Formats : file[s][f] = Missing
          /\ \A w \in Workers : job[w].pc # "write"

\* Nothing was dropped from nothing.
LEMMA NothingIsFresh ==
    ASSUME NEW s PROVE After(NoKV, s)
BY DEF After, NoKV

\* A call that takes session s to w leaves it with one holder, because the router
\* asked (Routed); forgetting copies or ending a call never adds a holder.
LEMMA HolderStep ==
    ASSUME TypeOK, SingleHolder, Routing = "sticky",
           NEW w \in Workers, NEW s \in Sessions,
           \A v \in Workers \ {w} : job'[v] = job[v],
           \A v \in Workers, r \in Sessions :
               cache'[v][r] \in {cache[v][r], NoKV} \/ (v = w /\ r = s),
           job'[w].pc = "idle" \/ job'[w].s = s,
           Busy(w, s) \/ Routed(w, s)
    PROVE  SingleHolder'
<1>1. \A v \in Workers, r \in Sessions : Holds(v, r)' => Holds(v, r) \/ (v = w /\ r = s)
  BY DEF Holds, Resident, Busy, Idle
<1>2. \A v \in Workers \ {w} : ~Holds(v, s)
  <2>1. CASE Busy(w, s)
    BY <2>1 DEF SingleHolder, Holds
  <2>2. CASE Routed(w, s)
    BY <2>2 DEF Routed, Holds
  <2> QED BY <2>1, <2>2
<1> QED BY <1>1, <1>2 DEF SingleHolder

\* Every step keeps dropped turns out of every copy.
LEMMA FreshStep ==
    ASSUME Routing = "sticky", TypeOK, TypeOK', FreshInv, [Next]_vars
    PROVE  FreshInv'
<1> USE DEF FreshInv
<1>0. /\ \A w \in Workers : job[w].s \in Sessions /\ fmt[w] \in Formats /\ job[w].id \in Nat
      /\ nextId \in Nat /\ floor \in [Sessions -> Nat]
  BY ConstantsAssumption DEF TypeOK, Job
<1>1. ASSUME NEW w \in Workers, NEW s \in Sessions,
             GetResident(w, s) \/ GetPersisted(w, s) \/ GetNone(w, s)
      PROVE  FreshInv'
  <2>1. /\ job'[w].s = s /\ job'[w].kv \in {cache[w][s], NoKV} /\ job'[w].id = nextId
        /\ job'[w].pc # "write"
        /\ \A v \in Workers \ {w} : job'[v] = job[v]
        /\ UNCHANGED <<cache, file, floor, persist>> /\ nextId' = nextId + 1
        /\ Routed(w, s)
    BY <1>1 DEF GetResident, GetPersisted, GetNone, BeginTurn, TypeOK
  <2>2. SingleHolder'
    BY <2>1, HolderStep
  <2>3. After(job'[w].kv, s)
    BY <2>1, NothingIsFresh
  <2>4. \A v \in Workers : ~Idle(v)' =>
           After(job'[v].kv, job'[v].s) /\ job'[v].id >= floor[job'[v].s]
    BY <1>0, <2>1, <2>3 DEF Idle
  <2> QED BY <1>0, <2>1, <2>2, <2>4 DEF After
<1>2. ASSUME NEW w \in Workers, Load(w)
      PROVE  FreshInv'
  <2>1. PICK s \in Sessions : s = job[w].s
    BY <1>0
  <2>2. PICK f \in Formats : f = Resolve(w, s)
    BY <1>0, <1>2, <2>1 DEF Load, Has, Resolve
  <2>3. /\ Busy(w, s) /\ job'[w].s = s /\ job'[w].kv = file[s][f].kv /\ job'[w].id = job[w].id
        /\ job'[w].pc # "write"
        /\ \A v \in Workers \ {w} : job'[v] = job[v]
        /\ UNCHANGED <<file, floor, persist, nextId>>
        /\ cache'[w][s] = file[s][f].kv
        /\ \A v \in Workers, r \in Sessions : (v = w /\ r = s) \/ cache'[v][r] = cache[v][r]
    BY <1>2, <2>1, <2>2 DEF Load, TypeOK, Job, Busy, Idle
  <2>4. SingleHolder'
    BY <2>3, HolderStep
  <2>5. After(file[s][f].kv, s) /\ job[w].id >= floor[s]
    BY <2>1, <2>3 DEF Busy
  <2>6. \A v \in Workers, r \in Sessions : After(cache'[v][r], r)
    BY <2>3, <2>5
  <2>7. \A v \in Workers : ~Idle(v)' =>
           After(job'[v].kv, job'[v].s) /\ job'[v].id >= floor[job'[v].s]
    BY <2>3, <2>5 DEF Idle
  <2> QED BY <2>3, <2>4, <2>6, <2>7 DEF After
<1>3. ASSUME NEW w \in Workers, Generate(w)
      PROVE  FreshInv'
  <2>1. PICK s \in Sessions : s = job[w].s
    BY <1>0
  <2>2. /\ Busy(w, s) /\ job'[w].s = s /\ job'[w].kv = Extended(w) /\ job'[w].id = job[w].id
        /\ job'[w].pc # "write"
        /\ \A v \in Workers \ {w} : job'[v] = job[v]
        /\ UNCHANGED <<file, floor, persist, nextId>>
        /\ cache'[w][s] = Extended(w)
        /\ \A v \in Workers, r \in Sessions : (v = w /\ r = s) \/ cache'[v][r] = cache[v][r]
    BY <1>3, <2>1 DEF Generate, TypeOK, Job, Busy, Idle
  <2>3. SingleHolder'
    BY <2>2, HolderStep
  <2>4. After(Extended(w), s) /\ job[w].id >= floor[s]
    BY <2>1, <2>2 DEF Busy, After, Extended
  <2>5. \A v \in Workers, r \in Sessions : After(cache'[v][r], r)
    BY <2>2, <2>4
  <2>6. \A v \in Workers : ~Idle(v)' =>
           After(job'[v].kv, job'[v].s) /\ job'[v].id >= floor[job'[v].s]
    BY <2>2, <2>4 DEF Idle
  <2> QED BY <2>2, <2>3, <2>5, <2>6 DEF After
<1>4. ASSUME NEW w \in Workers, NEW s \in Sessions, Drop(w, s)
      PROVE  FreshInv'
  <2>1. /\ Routed(w, s) /\ Idle(w) /\ UNCHANGED <<job, persist, nextId>>
        /\ cache'[w][s] = NoKV
        /\ \A v \in Workers, r \in Sessions : (v = w /\ r = s) \/ cache'[v][r] = cache[v][r]
        /\ floor'[s] = nextId /\ \A r \in Sessions \ {s} : floor'[r] = floor[r]
        /\ persist => \A f \in Formats : file'[s][f] = Missing
        /\ ~persist => file' = file
        /\ \A r \in Sessions \ {s} : file'[r] = file[r]
    BY <1>4 DEF Drop, TypeOK
  <2>2. SingleHolder'
    BY <2>1, HolderStep DEF Idle
  <2>3. \A v \in Workers : cache'[v][s] = NoKV /\ (~Idle(v) => job[v].s # s)
    BY <2>1 DEF Routed, Resident, Busy
  <2>4. \A f \in Formats : file'[s][f].kv = NoKV
    BY <2>1 DEF Missing
  <2>5. \A r \in Sessions : floor'[r] <= nextId
    BY <1>0, <2>1
  <2>6. \A v \in Workers, r \in Sessions : After(cache[v][r], r)'
    BY <2>1, <2>3, NothingIsFresh DEF After, NoKV
  <2>7. \A r \in Sessions, f \in Formats : After(file[r][f].kv, r)'
    BY <2>1, <2>4 DEF After, NoKV
  <2>8. \A v \in Workers : ~Idle(v)' =>
           After(job[v].kv, job[v].s)' /\ job'[v].id >= floor'[job'[v].s]
    BY <1>0, <2>1, <2>3 DEF After, Idle
  <2>9. ~persist' =>
           /\ \A r \in Sessions, f \in Formats : file'[r][f] = Missing
           /\ \A v \in Workers : job'[v].pc # "write"
    BY <2>1
  <2> QED BY <2>1, <2>2, <2>5, <2>6, <2>7, <2>8, <2>9
<1>5. ASSUME NEW w \in Workers,
             \/ LoadRaises(w) \/ GenerateRaises(w) \/ SaveRaises(w) \/ Reply(w)
             \/ OpenForSave(w) \/ SaveDone(w) \/ SkipSave(w) \/ Restart(w)
      PROVE  FreshInv'
  <2>1. PICK s \in Sessions : s = job[w].s
    BY <1>0
  <2>0. PICK pc \in {"idle", "write", "reply"} :
           Goto(w, pc) /\ (pc # "idle" => ~Idle(w)) /\ (pc = "write" => persist)
    BY <1>5 DEF LoadRaises, GenerateRaises, SaveRaises, Reply, OpenForSave, SaveDone,
                SkipSave, Restart, Idle
  <2>2. /\ job'[w].s = s /\ job'[w].kv = job[w].kv /\ job'[w].id = job[w].id
        /\ job'[w].pc = pc
        /\ \A v \in Workers \ {w} : job'[v] = job[v]
    BY <2>0, <2>1 DEF Goto, TypeOK, Job
  <2>10. UNCHANGED <<floor, persist, nextId>>
    BY <1>5 DEF LoadRaises, GenerateRaises, SaveRaises, Reply, OpenForSave, SaveDone,
                SkipSave, Restart
  <2>3. \A v \in Workers, r \in Sessions : cache'[v][r] \in {cache[v][r], NoKV}
    <3>1. CASE EvictLru(w)
      BY <3>1, EvictionOnlyForgets
    <3>2. CASE Restart(w)
      BY <3>2 DEF Restart, TypeOK
    <3>3. CASE cache' = cache
      BY <3>3
    <3> QED BY <1>5, <3>1, <3>2, <3>3 DEF LoadRaises, GenerateRaises, SaveRaises, Reply,
              OpenForSave, SaveDone, SkipSave
  <2>4. SingleHolder'
    <3>1. \A v \in Workers, r \in Sessions : Holds(v, r)' => Holds(v, r)
      BY <2>0, <2>1, <2>2, <2>3 DEF Holds, Resident, Busy, Idle
    <3> QED BY <3>1 DEF SingleHolder
  <2>5. \A v \in Workers, r \in Sessions : After(cache'[v][r], r)
    BY <2>3, NothingIsFresh
  <2>6. \A v \in Workers : ~Idle(v)' =>
           After(job'[v].kv, job'[v].s) /\ job'[v].id >= floor[job'[v].s]
    BY <2>0, <2>1, <2>2 DEF Idle
  <2>7. \A r \in Sessions, f \in Formats :
           \/ file'[r][f] = file[r][f]
           \/ persist /\ file'[r][f].kv = NoKV
           \/ persist /\ r = s /\ ~Idle(w) /\ file'[r][f].kv = job[w].kv
    <3>1. CASE OpenForSave(w)
      BY <1>0, <2>1, <3>1 DEF OpenForSave, Torn, TypeOK
    <3>2. CASE SaveDone(w)
      <4>1. persist /\ ~Idle(w)
        BY <3>2 DEF SaveDone, Idle
      <4> QED BY <1>0, <2>1, <3>2, <4>1 DEF SaveDone, Whole, TypeOK
    <3>3. CASE file' = file
      BY <3>3
    <3> QED BY <1>5, <3>1, <3>2, <3>3 DEF LoadRaises, GenerateRaises, SaveRaises, Reply,
              SkipSave, Restart
  <2>8. \A r \in Sessions, f \in Formats : After(file'[r][f].kv, r)
    BY <2>1, <2>7, NothingIsFresh
  <2>9. ~persist =>
           /\ \A r \in Sessions, f \in Formats : file'[r][f] = Missing
           /\ \A v \in Workers : job'[v].pc # "write"
    BY <2>0, <2>2, <2>7
  <2> QED BY <2>10, <2>4, <2>5, <2>6, <2>8, <2>9 DEF After
<1>6. CASE UNCHANGED vars
  <2>1. UNCHANGED <<persist, cache, job, file, nextId, floor>>
    BY <1>6 DEF vars
  <2>2. SingleHolder'
    BY <2>1 DEF SingleHolder, Holds, Resident, Busy, Idle
  <2> QED BY <2>1, <2>2 DEF After, Idle
<1> QED BY <1>1, <1>2, <1>3, <1>4, <1>5, <1>6 DEF Next

\* With sticky routing a session id used again after drop() starts from nothing,
\* in every copy a later turn could continue from, whether or not sessions are
\* persisted, whatever formats the stores use and whatever fails
\* (SessionManager.drop, SessionStore.delete).
THEOREM DroppedStaysDropped ==
    ASSUME Routing = "sticky"
    PROVE  Spec => []NoResurrection
<1>1. Init => FreshInv
  BY DEF Init, FreshInv, SingleHolder, Holds, Resident, Busy, Idle, After, NoKV, Missing
<1>2. TypeOK /\ TypeOK' /\ FreshInv /\ [Next]_vars => FreshInv'
  BY FreshStep
<1>3. FreshInv => NoResurrection
  BY DEF FreshInv, After, NoResurrection
<1> QED BY TypeCorrect, <1>1, <1>2, <1>3, PTL DEF Spec
=============================================================================
