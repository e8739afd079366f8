-------------------------- MODULE SegmentedSession --------------------------
(***************************************************************************)
(* dexa.segment.SegmentedSession: a mutable, versioned, branchable context *)
(* whose KV follows every mutation by incremental recompute, on the device *)
(* (dexa.engine.TorchKVSession) or through numpy                           *)
(* (HFBackend.recompute_incremental), and is persisted in a SessionStore.  *)
(*                                                                         *)
(* The KV of one token is abstracted to what it was computed from: the     *)
(* tokens of the cache it attended to, itself last.  A cache is exact for  *)
(* a context when it is the one a full prefill of its tokens produces.     *)
(***************************************************************************)
EXTENDS SegmentPlan

CONSTANTS
    Handles,       \* variables of the application that hold a session
    Labels,        \* version labels
    Ids,           \* session ids in the store
    Configs,       \* deployments: [onDevice, mapped : BOOLEAN, segs : segments in use]
    Starts,        \* the segmentations sessions are created with
    None,
    MaxSegs,       \* bound: segments in a context
    MaxMutations   \* bound: mutations in a behaviour

(* the tokens that occur in segments *)
TokenIds == UNION { UNION { Range(seg) : seg \in c.segs } : c \in Configs }

ASSUME SegmentedAssumption ==
    /\ \A c \in Configs : /\ c.onDevice \in BOOLEAN /\ c.mapped \in BOOLEAN
                          /\ c.segs \subseteq Seq(TokenIds)
    /\ Starts \subseteq Seq(Seq(TokenIds))
    /\ MaxSegs \in Nat /\ MaxMutations \in Nat

(* None is neither a session id nor KV nor an object that holds KV *)
ASSUME NoneAssumption ==
    /\ None \notin Ids
    /\ None \notin Seq(Seq(TokenIds))
    /\ None \notin [cache : Seq(Seq(TokenIds)) \cup {None}]
    /\ None \notin [kv : Seq(Seq(TokenIds)), map : {None}]

VARIABLES
    conf,      \* the deployment, fixed
    sess,      \* sess[h]: the session object held by h, or None
    versions,  \* versions[h][l]: its committed version l, or None
    file,      \* file[id]: the KV persisted under id, or None
    mutations  \* how many mutations were made, for the bound

vars == <<conf, sess, versions, file, mutations>>

OnDevice    == conf.onDevice  \* SegmentedSession(on_device=...)
MappedLoads == conf.mapped    \* store.load returns views of the file: blob, float32
Segs        == conf.segs

-----------------------------------------------------------------------------
(* KV caches. *)

Junk == <<"junk">>

Prefill(toks) == [i \in DOMAIN toks |-> SubSeq(toks, 1, i)]

(* a forward of toks with kv as past_key_values *)
Forward(kv, toks) ==
    LET past == [i \in DOMAIN kv |-> Last(kv[i])]
    IN  kv \o [j \in DOMAIN toks |-> past \o SubSeq(toks, 1, j)]

(* A numpy KVCache: its entries, and the file its arrays are views of.     *)
KVCache(kv, map) == [kv |-> kv, map |-> map]

(* the KVCache of _copy_kv, which copies the arrays *)
CopyKV(c) == IF c = None THEN None ELSE KVCache(c.kv, None)

(* What an array that is a view of file id reads after kv was written to   *)
(* that file in place.                                                     *)
AfterWrite(c, id, kv) ==
    IF c # None /\ c.map = id /\ c.kv # kv
    THEN [c EXCEPT !.kv = [i \in DOMAIN c.kv |-> Junk]]
    ELSE c

(* The TorchKVSession: its DynamicCache, None before the first forward.    *)
Device(cache) == [cache |-> cache]

NewDevice(toks) == Device(IF toks = << >> THEN None ELSE Prefill(toks))

(* from_kvcache: the tensors are built from copies of read-only views *)
FromKVCache(c) == Device(c.kv)

(* clone *)
Clone(dev) == IF dev = None THEN None ELSE Device(dev.cache)

(* to_kvcache: the arrays are new *)
ToKVCache(dev) == KVCache(dev.cache, None)

Truncate(cache, n) ==
    IF cache = None \/ n >= Len(cache) THEN cache ELSE SubSeq(cache, 1, n)

DeviceAppend(cache, toks) ==
    CASE toks = << >> -> cache
      [] toks # << >> /\ cache = None -> Prefill(toks)
      [] toks # << >> /\ cache # None -> Forward(cache, toks)

(* TorchKVSession.edit_suffix(prefix, new_tokens[prefix:]) *)
EditSuffix(dev, prefix, toks) ==
    Device(DeviceAppend(Truncate(dev.cache, prefix),
                        SubSeq(toks, prefix + 1, Len(toks))))

(* greedy raises without a cache, and without a last token to feed *)
GreedyRaises(dev) == dev.cache \in {None, << >>}

(* greedy, with out what the model says: the KV behind each prediction.    *)
(* A copy of the cache loses its last entry, the last token is fed again,  *)
(* then every token that was generated.                                    *)
Greedy(dev, out) ==
    LET last == Last(Last(dev.cache))
        fed(k) == <<last>> \o SubSeq(out, 1, k - 1)
    IN  [k \in DOMAIN out |-> Last(Forward(Front(dev.cache), fed(k)))]

(* HFBackend.recompute_incremental: _slice_kv keeps the arrays only when   *)
(* it keeps all of them, extend always builds new ones                     *)
Recompute(c, prefix, toks) ==
    LET base == SubSeq(c.kv, 1, prefix)
        tail == SubSeq(toks, prefix + 1, Len(toks))
    IN  CASE tail # << >> -> KVCache(Forward(base, tail), None)
          [] tail = << >> /\ base = c.kv -> c
          [] tail = << >> /\ base # c.kv -> KVCache(base, None)

ReusedTokens(prevCtx, newCtx) ==
    TokensOf(PlanIncremental(prevCtx, newCtx, "exact"), "reuse_exact")

-----------------------------------------------------------------------------
(* Session objects. *)

NoVersions == [l \in Labels |-> None]

NoStats == [mutations |-> 0, recomputed |-> 0, full |-> 0]

(* failed (history): the last rollback raised and no KV was built since *)
Session(ctx, dev, kv) ==
    [ctx |-> ctx, dev |-> dev, kv |-> kv, stats |-> NoStats, failed |-> FALSE]

Live(h) == sess[h] # None

(* h is bound to a new object, which has no versions *)
Bind(h, s) ==
    /\ sess' = [sess EXCEPT ![h] = s]
    /\ versions' = [versions EXCEPT ![h] = NoVersions]

(* The kv property.  On the device it materializes lazily; Unmaterializable *)
(* says that to_kvcache would raise, there being no cache to read.         *)
Unmaterializable(s) == OnDevice /\ s.kv = None /\ s.dev # None /\ s.dev.cache = None

Materialized(s) ==
    IF OnDevice /\ s.kv = None /\ s.dev # None THEN ToKVCache(s.dev) ELSE s.kv

(* SegmentedSession(backend, segments) with at least one token or none     *)
Create(h, ctx) ==
    /\ ~Live(h)
    /\ ctx = << >> \/ Tokens(ctx) # << >>
    /\ Bind(h, CASE ctx = << >> -> Session(ctx, None, None)
                 [] ctx # << >> /\ OnDevice -> Session(ctx, NewDevice(Tokens(ctx)), None)
                 [] ctx # << >> /\ ~OnDevice ->
                       Session(ctx, None, KVCache(Prefill(Tokens(ctx)), None)))
    /\ UNCHANGED <<conf, file, mutations>>

Cold(s) == (s.dev = None /\ s.kv = None) \/ s.ctx = << >>

(* the tokens _apply re-uses *)
Reused(s, newCtx) == IF Cold(s) THEN 0 ELSE ReusedTokens(s.ctx, newCtx)

AppliedDev(s, newCtx) ==
    CASE ~OnDevice -> None
      [] OnDevice /\ Cold(s) -> NewDevice(Tokens(newCtx))
      [] OnDevice /\ ~Cold(s) -> EditSuffix(s.dev, Reused(s, newCtx), Tokens(newCtx))

(* the materialized copy survives the mutation *)
AppliedKV_Keeps(s, newCtx) ==
    CASE OnDevice -> s.kv
      [] ~OnDevice /\ Cold(s) -> KVCache(Prefill(Tokens(newCtx)), None)
      [] ~OnDevice /\ ~Cold(s) -> Recompute(s.kv, Reused(s, newCtx), Tokens(newCtx))

AppliedKV(s, newCtx) ==
    CASE OnDevice -> None
      [] ~OnDevice /\ Cold(s) -> KVCache(Prefill(Tokens(newCtx)), None)
      [] ~OnDevice /\ ~Cold(s) -> Recompute(s.kv, Reused(s, newCtx), Tokens(newCtx))

(* a cold start is not booked as recomputation *)
AppliedStats_ColdIsFree(s, newCtx) ==
    [mutations |-> s.stats.mutations + 1,
     recomputed |-> s.stats.recomputed
                      + IF Cold(s) THEN 0 ELSE Len(Tokens(newCtx)) - Reused(s, newCtx),
     full |-> s.stats.full + Len(Tokens(newCtx))]

AppliedStats(s, newCtx) ==
    [mutations |-> s.stats.mutations + 1,
     recomputed |-> s.stats.recomputed + Len(Tokens(newCtx)) - Reused(s, newCtx),
     full |-> s.stats.full + Len(Tokens(newCtx))]

(* the session after _apply *)
Applied(s, newCtx) ==
    [ctx |-> newCtx, dev |-> AppliedDev(s, newCtx), kv |-> AppliedKV(s, newCtx),
     stats |-> AppliedStats(s, newCtx), failed |-> FALSE]

(* A cold prefill of no tokens is left out on the numpy path: the model    *)
(* library decides whether a forward over an empty input raises.           *)
Apply(h, newCtx) ==
    /\ Live(h)
    /\ mutations < MaxMutations
    /\ Cold(sess[h]) /\ ~OnDevice => Tokens(newCtx) # << >>
    /\ sess' = [sess EXCEPT ![h] = Applied(@, newCtx)]
    /\ mutations' = mutations + 1
    /\ UNCHANGED <<conf, versions, file>>

AppendSegment(h, seg) ==
    /\ Live(h)
    /\ Len(sess[h].ctx) < MaxSegs
    /\ Apply(h, Append(sess[h].ctx, seg))

EditSegment(h, i, seg) ==
    /\ Live(h)
    /\ i \in DOMAIN sess[h].ctx
    /\ Apply(h, [sess[h].ctx EXCEPT ![i] = seg])

DeleteSegment(h, i) ==
    /\ Live(h)
    /\ i \in DOMAIN sess[h].ctx
    /\ Apply(h, RemoveAt(sess[h].ctx, i))

(* a label that was used before keeps the KV it was first given *)
Commit_KeepsOldKV(h, l) ==
    LET s == sess[h]
        kv == IF versions[h][l] = None THEN CopyKV(Materialized(s)) ELSE versions[h][l].kv
    IN  /\ Live(h)
        /\ ~Unmaterializable(s)
        /\ sess' = [sess EXCEPT ![h].kv = Materialized(s)]
        /\ versions' = [versions EXCEPT ![h][l] = [segments |-> s.ctx, kv |-> kv, failed |-> s.failed]]
        /\ UNCHANGED <<conf, file, mutations>>

Commit(h, l) ==
    LET s == sess[h]
    IN  /\ Live(h)
        /\ ~Unmaterializable(s)
        /\ sess' = [sess EXCEPT ![h].kv = Materialized(s)]
        /\ versions' = [versions EXCEPT ![h][l] = [segments |-> s.ctx, kv |-> CopyKV(Materialized(s)),
                                                   failed |-> s.failed]]
        /\ UNCHANGED <<conf, file, mutations>>

Rollback(h, l) ==
    LET v == versions[h][l]
    IN  /\ Live(h)
        /\ v # None
        /\ OnDevice => v.kv # None
        /\ sess' = [sess EXCEPT ![h].ctx = v.segments,
                                ![h].dev = IF OnDevice THEN FromKVCache(v.kv) ELSE None,
                                ![h].kv = IF OnDevice THEN None ELSE CopyKV(v.kv),
                                ![h].failed = v.failed]
        /\ UNCHANGED <<conf, versions, file, mutations>>

(* On the device a version without KV makes from_kvcache raise, after the  *)
(* context was replaced.                                                   *)
RollbackRaises(h, l) ==
    LET v == versions[h][l]
    IN  /\ Live(h)
        /\ v # None
        /\ OnDevice /\ v.kv = None
        /\ sess' = [sess EXCEPT ![h].ctx = v.segments, ![h].failed = TRUE]
        /\ UNCHANGED <<conf, versions, file, mutations>>

Branch(h, child) ==
    /\ Live(h)
    /\ child # h
    /\ Bind(child, [Session(sess[h].ctx, Clone(sess[h].dev),
                            IF OnDevice THEN None ELSE CopyKV(sess[h].kv))
                      EXCEPT !.failed = sess[h].failed])
    /\ UNCHANGED <<conf, file, mutations>>

(* The file is opened for writing, hence truncated, before the arrays are  *)
(* read: arrays that are views of it are gone by then.                     *)
Save(h, id) ==
    LET s == sess[h]
        c == Materialized(s)
        written == IF c.map = id THEN [i \in DOMAIN c.kv |-> Junk] ELSE c.kv
    IN  /\ Live(h)
        /\ ~Unmaterializable(s)
        /\ c # None
        /\ file' = [file EXCEPT ![id] = written]
        /\ sess' = [g \in Handles |->
                       LET t == IF g = h THEN [s EXCEPT !.kv = c] ELSE sess[g]
                       IN  IF t = None THEN None
                           ELSE [t EXCEPT !.kv = AfterWrite(t.kv, id, written)]]
        /\ versions' = [g \in Handles |-> [l \in Labels |->
                       LET v == versions[g][l]
                       IN  IF v = None THEN None
                           ELSE [v EXCEPT !.kv = AfterWrite(v.kv, id, written)]]]
        /\ UNCHANGED <<conf, mutations>>

(* The application passes the segmentation it saved, or another one of the *)
(* same tokens; a different length raises.                                 *)
Load(h, id, ctx) ==
    /\ file[id] # None
    /\ Len(file[id]) = Len(Tokens(ctx))
    /\ Bind(h, IF OnDevice
               THEN Session(ctx, FromKVCache(KVCache(file[id], None)), None)
               ELSE Session(ctx, None, KVCache(file[id], IF MappedLoads THEN id ELSE None)))
    /\ UNCHANGED <<conf, file, mutations>>

(* diff of two sessions: the common prefix and the tails *)
Diff(a, b) ==
    LET prefix == CHOOSE n \in 0 .. Min({Len(a), Len(b)}) :
                     /\ SubSeq(a, 1, n) = SubSeq(b, 1, n)
                     /\ n < Min({Len(a), Len(b)}) => a[n + 1] # b[n + 1]
    IN  [common |-> prefix,
         only_self |-> SubSeq(a, prefix + 1, Len(a)),
         only_other |-> SubSeq(b, prefix + 1, Len(b))]

-----------------------------------------------------------------------------
Contexts == BoundedSeq(Segs, MaxSegs)

(* The segmentations of the tokens a file records. *)
Segmentations(kv) ==
    { ctx \in Contexts : Tokens(ctx) = [i \in DOMAIN kv |-> Last(kv[i])] }

Init ==
    /\ conf \in Configs
    /\ sess = [h \in Handles |-> None]
    /\ versions = [h \in Handles |-> NoVersions]
    /\ file = [id \in Ids |-> None]
    /\ mutations = 0

Next ==
    \/ \E h \in Handles, ctx \in Starts : Create(h, ctx)
    \/ \E h \in Handles, seg \in Segs : AppendSegment(h, seg)
    \/ \E h \in Handles, i \in 1 .. MaxSegs, seg \in Segs : EditSegment(h, i, seg)
    \/ \E h \in Handles, i \in 1 .. MaxSegs : DeleteSegment(h, i)
    \/ \E h \in Handles, l \in Labels : Commit(h, l)
    \/ \E h \in Handles, l \in Labels : Rollback(h, l)
    \/ \E h \in Handles, l \in Labels : RollbackRaises(h, l)
    \/ \E h, child \in Handles : Branch(h, child)
    \/ \E h \in Handles, id \in Ids : Save(h, id)
    \/ \E h \in Handles, id \in Ids :
          /\ file[id] # None
          /\ \E ctx \in Segmentations(file[id]) : Load(h, id, ctx)

Spec == Init /\ [][Next]_vars

-----------------------------------------------------------------------------
(* Properties. *)

Held(s) ==
    { k \in { IF s.dev = None THEN None ELSE s.dev.cache,
              IF s.kv = None THEN None ELSE s.kv.kv } : k # None }

(* Whatever sequence of mutations, rollbacks, branches and loads produced  *)
(* it, the KV a session holds, on the device and materialized, is that of  *)
(* a full prefill of its current context; a session without KV has no      *)
(* tokens (segment/session.py: "behaviorally identical to a full           *)
(* re-prefill"), and greedy decoding predicts each token from all of the   *)
(* context and the tokens before it.  A rollback that raised leaves the    *)
(* session in between, until its next mutation or rollback.                *)
KVExact ==
    \A h \in Handles : Live(h) /\ ~sess[h].failed =>
        LET toks == Tokens(sess[h].ctx)
        IN  /\ Held(sess[h]) \subseteq {Prefill(toks)}
            /\ toks # << >> => Held(sess[h]) # {}
            /\ sess[h].dev # None /\ ~GreedyRaises(sess[h].dev) =>
                  \A x, y \in Segs :
                      Greedy(sess[h].dev, x \o y)
                          = [k \in DOMAIN (x \o y) |-> toks \o SubSeq(x \o y, 1, k - 1)]
            /\ sess[h].dev # None /\ toks # << >> => ~GreedyRaises(sess[h].dev)

(* A committed version stays what it was when it was committed: exact for  *)
(* its own segments, whatever the session, its branches and the store do   *)
(* later.                                                                  *)
VersionsHold ==
    \A h \in Handles, l \in Labels :
        LET v == versions[h][l]
        IN  v # None => \/ v.failed
                        \/ v.kv = None
                        \/ v.kv.kv = Prefill(Tokens(v.segments))

(* What the store holds is the exact KV of the tokens it records.          *)
FilesHold ==
    \A id \in Ids :
        file[id] # None =>
            file[id] = Prefill([i \in DOMAIN file[id] |-> Last(file[id][i])])

(* Snapshots are exact: no later mutation, rollback, branch or save reaches*)
(* a committed version or a stored file, although KV is shared by reference*)
(* between session, versions and branches and mapped from the store.       *)
SnapshotsExact == VersionsHold /\ FilesHold

LeadingCommon(a, b) ==
    Cardinality({ i \in 1 .. Min({Len(a), Len(b)}) : SubSeq(a, 1, i) = SubSeq(b, 1, i) })

KVOf(s) == IF Held(s) = {} THEN << >> ELSE CHOOSE k \in Held(s) : TRUE

(* The savings a session reports are real: the tokens a mutation does not  *)
(* book as recomputed are leading KV the session already held.             *)
ReuseIsReal ==
    [][\A h \in Handles :
          Live(h) /\ sess'[h] # None /\ sess'[h].stats.mutations = sess[h].stats.mutations + 1 =>
             (sess'[h].stats.full - sess[h].stats.full)
               - (sess'[h].stats.recomputed - sess[h].stats.recomputed)
             <= LeadingCommon(KVOf(sess[h]), KVOf(sess'[h]))]_vars

(* The items of the plan tile the new context, each re-used item names a   *)
(* previous segment of its own content, at its own position if it is       *)
(* re-used exactly, and no previous segment is used twice.                 *)
Tiles(prev, new, mode) ==
    LET plan == PlanIncremental(prev, new, mode)
    IN  /\ Len(plan) = Len(new)
        /\ \A i \in DOMAIN plan :
              /\ plan[i].span[1] = IF i = 1 THEN 0 ELSE plan[i - 1].span[2]
              /\ plan[i].action # "recompute" => prev[plan[i].prev] = new[i]
              /\ plan[i].action = "reuse_exact" =>
                    Offset(prev, plan[i].prev) = plan[i].span[1]
              /\ \A k \in DOMAIN plan :
                    i # k /\ plan[i].prev # NoMatch => plan[i].prev # plan[k].prev
        /\ new # << >> => plan[Len(new)].span[2] = Len(Tokens(new))

Covered(ranges) ==
    UNION { ranges[k][1] .. (ranges[k][2] - 1) : k \in DOMAIN ranges }

(* What an exact plan recomputes is one suffix of the new context, the     *)
(* part behind the longest common segment prefix, which is what diff       *)
(* reports and _apply forwards; recompute_ranges covers each recomputed    *)
(* token once, with no two ranges touching.                                *)
RecomputesSuffix(prev, new) ==
    LET plan == PlanIncremental(prev, new, "exact")
        ranges == RecomputeRanges(plan)
        reused == TokensOf(plan, "reuse_exact")
    IN  /\ Covered(ranges) = reused .. (Len(Tokens(new)) - 1)
        /\ \A k \in 1 .. Len(ranges) - 1 : ranges[k][2] < ranges[k + 1][1]
        /\ RecomputedExact(plan, new) = TokensOf(plan, "recompute")
        /\ SubSeq(Tokens(prev), 1, reused) = SubSeq(Tokens(new), 1, reused)
        /\ reused = Len(Tokens(SubSeq(new, 1, Diff(prev, new).common)))
        /\ Tokens(Diff(prev, new).only_other)
              = SubSeq(Tokens(new), reused + 1, Len(Tokens(new)))

(* The plan between the contexts of any two sessions (a branch and its     *)
(* parent, say) is a sound recipe for the KV of the new context, in both   *)
(* modes (plan_incremental), and what it recomputes is no more and no less *)
(* than the causal-dependency rule requires.                               *)
PlansAreSound ==
    \A g, h \in Handles : Live(g) /\ Live(h) =>
        /\ \A mode \in {"exact", "selective"} : Tiles(sess[g].ctx, sess[h].ctx, mode)
        /\ RecomputesSuffix(sess[g].ctx, sess[h].ctx)
=============================================================================
