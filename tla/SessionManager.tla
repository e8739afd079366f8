--------------------------- MODULE SessionManager ---------------------------
(***************************************************************************)
(* The stateful-session lifecycle of dexa.serving.SessionManager over one  *)
(* shared directory-backed dexa.session.SessionStore.                      *)
(*                                                                         *)
(* Each worker process owns a SessionManager: an LRU of resident KV caches *)
(* (an OrderedDict) in front of the store.  The store is a directory with  *)
(* at most one file per session and on-disk format; a save rewrites that   *)
(* file in place, so between the open that truncates it and the close the  *)
(* file is torn and a load of it raises.                                   *)
(*                                                                         *)
(* A KV cache is abstracted to meta["turns"] and the set of turns folded   *)
(* into it.  Turns are numbered in the order in which they are attempted,  *)
(* so the set determines the order of the conversation.                    *)
(***************************************************************************)
EXTENDS Integers, FiniteSets, Sequences

CONSTANTS
    Workers,       \* the worker processes sharing the store
    Sessions,      \* session ids
    KeepResident,  \* SessionManager(keep_resident=...)
    PersistModes,  \* the values of SessionManager(persist=...) explored
    StoreFormats,  \* the formats a worker's SessionStore may be configured with
    Routing,       \* how the router picks a worker, see Routed
    Faults,        \* which failures happen
    MaxTurns       \* bound: how many turns are attempted in a behaviour

Formats == {"npz", "blob"}

FaultKinds ==
    { "generate",  \* the backend raises during a turn
      "save",      \* opening or writing the session's file raises
      "restart",   \* a worker is restarted between turns
      "crash" }    \* a worker dies at any point

ASSUME ConstantsAssumption ==
    /\ KeepResident \in Nat
    /\ MaxTurns \in Nat
    /\ PersistModes \subseteq BOOLEAN
    /\ Routing \in {"sticky", "serial"}
    /\ StoreFormats \subseteq Formats
    /\ Faults \subseteq FaultKinds

VARIABLES
    persist, \* whether the deployment persists its sessions
    fmt,     \* fmt[w]: the format worker w's store saves in
    cache,   \* cache[w][s]: the KV cache resident in w, NoKV if there is none
    lru,     \* lru[w]: the keys of w's OrderedDict, least recently used first
    job,     \* job[w]: the call w is executing
    file,    \* file[s][f]: the file of session s in format f
    nextId,  \* the number of the next attempted turn
    acked,   \* history: acked[s] is the conversation last returned to the client
    floor    \* history: the turns of s below floor[s] were dropped by the client

vars == <<persist, fmt, cache, lru, job, file, nextId, acked, floor>>

-----------------------------------------------------------------------------
(* Values. *)

KV == [turns : Nat, log : SUBSET Nat]

\* None, for a session that has no KV cache: it counts zero turns.
NoKV == [turns |-> 0, log |-> {}]

File == [state : {"missing", "torn", "whole"}, kv : KV]

Missing == [state |-> "missing", kv |-> NoKV]
Torn    == [state |-> "torn", kv |-> NoKV]
Whole(kv) == [state |-> "whole", kv |-> kv]

Job == [pc : {"idle", "load", "generate", "save", "write", "reply"},
        s : Sessions, id : Nat, kv : KV]

-----------------------------------------------------------------------------
(* The store as one worker sees it: SessionStore.has and _resolve. *)

Exists(s, f) == file[s][f].state # "missing"

Has(s) == \E f \in Formats : Exists(s, f)

Resolve(w, s) ==
    IF Exists(s, fmt[w]) THEN fmt[w] ELSE CHOOSE f \in Formats : Exists(s, f)

(* The residency cache: one OrderedDict, kept as cache[w] and lru[w]. *)

Resident(w, s) == cache[w][s] # NoKV

IsKey(seq, s) == \E i \in 1..Len(seq) : seq[i] = s

\* pop(s, None): the keys after s move up by one place.
Without(seq, s) ==
    IF IsKey(seq, s)
    THEN LET k == CHOOSE i \in 1..Len(seq) : seq[i] = s
         IN  [i \in 1..Len(seq) - 1 |-> IF i < k THEN seq[i] ELSE seq[i + 1]]
    ELSE seq

\* Mutant: an existing key keeps its place in the OrderedDict.
Touch_KeepsPlace(w, s) ==
    IF IsKey(lru[w], s) THEN lru[w] ELSE Append(lru[w], s)

\* move_to_end, or insertion of a new key.
Touch(w, s) == Append(Without(lru[w], s), s)

\* while len(_resident) > keep_resident: popitem(last=False)
Excess(w) == IF Len(lru[w]) > KeepResident THEN Len(lru[w]) - KeepResident ELSE 0

Evicted(w) == {lru[w][i] : i \in 1..Excess(w)}

EvictLru(w) ==
    /\ lru' = [lru EXCEPT ![w] = SubSeq(lru[w], Excess(w) + 1, Len(lru[w]))]
    /\ cache' = [cache EXCEPT ![w] =
                    [s \in Sessions |-> IF s \in Evicted(w) THEN NoKV ELSE cache[w][s]]]

-----------------------------------------------------------------------------
Idle(w) == job[w].pc = "idle"

Goto(w, pc) == job' = [job EXCEPT ![w].pc = pc]

Busy(w, s) == ~Idle(w) /\ job[w].s = s

Holds(w, s) == Resident(w, s) \/ Busy(w, s)

\* The router (external) sends the calls about one session one after the other.
\* "sticky": a call reaches w only when no other live worker still holds the
\* session; "serial": it may go to any worker.
Routed(w, s) ==
    \A v \in Workers \ {w} : ~Busy(v, s) /\ (Routing = "sticky" => ~Resident(v, s))

Init ==
    /\ persist \in PersistModes
    /\ fmt \in [Workers -> StoreFormats]
    /\ cache = [w \in Workers |-> [s \in Sessions |-> NoKV]]
    /\ lru = [w \in Workers |-> << >>]
    /\ job \in [Workers -> {[pc |-> "idle", s |-> s, id |-> 0, kv |-> NoKV] : s \in Sessions}]
    /\ \A v, w \in Workers : job[v] = job[w]
    /\ file = [s \in Sessions |-> [f \in Formats |-> Missing]]
    /\ nextId = 1
    /\ acked = [s \in Sessions |-> {}]
    /\ floor = [s \in Sessions |-> 1]

\* A client calls turn(s, ...) on worker w: _get begins.
BeginTurn(w, s, pc, kv) ==
    /\ Idle(w)
    /\ Routed(w, s)
    /\ nextId <= MaxTurns
    /\ nextId' = nextId + 1
    /\ job' = [job EXCEPT ![w] = [pc |-> pc, s |-> s, id |-> nextId, kv |-> kv]]
    /\ UNCHANGED <<persist, fmt, cache, file, acked, floor>>

GetResident(w, s) ==
    /\ Resident(w, s)
    /\ BeginTurn(w, s, "generate", cache[w][s])
    /\ lru' = [lru EXCEPT ![w] = Touch(w, s)]

GetPersisted(w, s) ==
    /\ ~Resident(w, s)
    /\ persist /\ Has(s)
    /\ BeginTurn(w, s, "load", NoKV)
    /\ UNCHANGED lru

\* Mutant: a file that does not load counts as no session at all.
GetNone_TornIsNone(w, s) ==
    /\ ~Resident(w, s)
    /\ ~(persist /\ \E f \in Formats : file[s][f].state = "whole")
    /\ BeginTurn(w, s, "generate", NoKV)
    /\ UNCHANGED lru

GetNone(w, s) ==
    /\ ~Resident(w, s)
    /\ ~(persist /\ Has(s))
    /\ BeginTurn(w, s, "generate", NoKV)
    /\ UNCHANGED lru

\* store.load succeeded: the restored cache becomes resident (nothing is evicted).
Load(w) ==
    LET s == job[w].s
        f == file[s][Resolve(w, s)]
    IN  /\ job[w].pc = "load"
        /\ Has(s)
        /\ f.state = "whole"
        /\ cache' = [cache EXCEPT ![w][s] = f.kv]
        /\ lru' = [lru EXCEPT ![w] = Touch(w, s)]
        /\ job' = [job EXCEPT ![w].pc = "generate", ![w].kv = f.kv]
        /\ UNCHANGED <<persist, fmt, file, nextId, acked, floor>>

\* The file vanished since has(), or it is torn: the turn raises.
LoadRaises(w) ==
    LET s == job[w].s
    IN  /\ job[w].pc = "load"
        /\ Has(s) => file[s][Resolve(w, s)].state = "torn"
        /\ Goto(w, "idle")
        /\ UNCHANGED <<persist, fmt, cache, lru, file, nextId, acked, floor>>

GenerateRaises(w) ==
    /\ "generate" \in Faults
    /\ job[w].pc = "generate"
    /\ Goto(w, "idle")
    /\ UNCHANGED <<persist, fmt, cache, lru, file, nextId, acked, floor>>

\* The KV cache after the turn: context, prompt and response, and the turn count.
Extended(w) == [turns |-> job[w].kv.turns + 1, log |-> job[w].kv.log \union {job[w].id}]

\* generate_and_extend returned; _put makes the grown cache resident.
Generate(w) ==
    LET s == job[w].s
    IN  /\ job[w].pc = "generate"
        /\ cache' = [cache EXCEPT ![w][s] = Extended(w)]
        /\ lru' = [lru EXCEPT ![w] = Touch(w, s)]
        /\ job' = [job EXCEPT ![w].pc = "save", ![w].kv = Extended(w)]
        /\ UNCHANGED <<persist, fmt, file, nextId, acked, floor>>

\* store.save opens the session's file for writing, which truncates it.
OpenForSave(w) ==
    /\ job[w].pc = "save"
    /\ persist
    /\ Goto(w, "write")
    /\ file' = [file EXCEPT ![job[w].s][fmt[w]] = Torn]
    /\ UNCHANGED <<persist, fmt, cache, lru, nextId, acked, floor>>

\* store.save returned; _put evicts down to keep_resident.
SaveDone(w) ==
    /\ job[w].pc = "write"
    /\ Goto(w, "reply")
    /\ file' = [file EXCEPT ![job[w].s][fmt[w]] = Whole(job[w].kv)]
    /\ EvictLru(w)
    /\ UNCHANGED <<persist, fmt, nextId, acked, floor>>

\* persist=False: _put goes straight to the eviction loop.
SkipSave(w) ==
    /\ job[w].pc = "save"
    /\ ~persist
    /\ Goto(w, "reply")
    /\ EvictLru(w)
    /\ UNCHANGED <<persist, fmt, file, nextId, acked, floor>>

\* Opening or writing the file raised: _put and turn raise after the grown cache
\* has become resident, and nothing is evicted.
SaveRaises(w) ==
    /\ "save" \in Faults
    /\ persist
    /\ job[w].pc \in {"save", "write"}
    /\ Goto(w, "idle")
    /\ UNCHANGED <<persist, fmt, cache, lru, file, nextId, acked, floor>>

\* turn returns (text, info) to the client.
Reply(w) ==
    /\ job[w].pc = "reply"
    /\ Goto(w, "idle")
    /\ acked' = [acked EXCEPT ![job[w].s] = job[w].kv.log]
    /\ UNCHANGED <<persist, fmt, cache, lru, file, nextId, floor>>

\* Mutant: drop forgets the resident copy only.
Drop_ResidentOnly(w, s) ==
    /\ Idle(w)
    /\ Routed(w, s)
    /\ cache' = [cache EXCEPT ![w][s] = NoKV]
    /\ lru' = [lru EXCEPT ![w] = Without(lru[w], s)]
    /\ acked' = [acked EXCEPT ![s] = {}]
    /\ floor' = [floor EXCEPT ![s] = nextId]
    /\ UNCHANGED <<persist, fmt, job, file, nextId>>

\* drop(s): forget the resident copy, then delete the files of both formats.
Drop(w, s) ==
    /\ Idle(w)
    /\ Routed(w, s)
    /\ cache' = [cache EXCEPT ![w][s] = NoKV]
    /\ lru' = [lru EXCEPT ![w] = Without(lru[w], s)]
    /\ file' = IF persist THEN [file EXCEPT ![s] = [f \in Formats |-> Missing]] ELSE file
    /\ acked' = [acked EXCEPT ![s] = {}]
    /\ floor' = [floor EXCEPT ![s] = nextId]
    /\ UNCHANGED <<persist, fmt, job, nextId>>

\* The process ends and a new one starts with an empty SessionManager, possibly
\* configured with another format.
Restart(w) ==
    /\ "crash" \in Faults \/ ("restart" \in Faults /\ Idle(w))
    /\ \E f \in StoreFormats : fmt' = [fmt EXCEPT ![w] = f]
    /\ cache' = [cache EXCEPT ![w] = [s \in Sessions |-> NoKV]]
    /\ lru' = [lru EXCEPT ![w] = << >>]
    /\ Goto(w, "idle")
    /\ UNCHANGED <<persist, file, nextId, acked, floor>>

Next ==
    \E w \in Workers :
        \/ \E s \in Sessions :
              GetResident(w, s) \/ GetPersisted(w, s) \/ GetNone(w, s) \/ Drop(w, s)
        \/ Load(w) \/ LoadRaises(w)
        \/ Generate(w) \/ GenerateRaises(w)
        \/ OpenForSave(w) \/ SaveDone(w) \/ SkipSave(w) \/ SaveRaises(w)
        \/ Reply(w) \/ Restart(w)

Spec == Init /\ [][Next]_vars

-----------------------------------------------------------------------------
(* Properties. *)

\* Every variable has its type; the OrderedDict has one key per resident cache.
TypeOK ==
    /\ persist \in PersistModes
    /\ fmt \in [Workers -> StoreFormats]
    /\ cache \in [Workers -> [Sessions -> KV]]
    /\ lru \in [Workers -> Seq(Sessions)]
    /\ job \in [Workers -> Job]
    /\ file \in [Sessions -> [Formats -> File]]
    /\ nextId \in Nat \ {0}
    /\ acked \in [Sessions -> SUBSET Nat]
    /\ floor \in [Sessions -> Nat]

\* With persist=True the context a turn decodes against holds every turn of the
\* session that was ever returned to its client: a turn either continues the
\* whole acknowledged conversation or raises, whatever crashes, failed saves and
\* evictions came before (SessionManager._get, _put).
NoSilentLoss ==
    persist => \A w \in Workers :
        job[w].pc \in {"generate", "save", "write", "reply"}
            => acked[job[w].s] \subseteq job[w].kv.log

\* The parts of ConversationInv: at most one live worker holds a session, ...
SingleHolder ==
    \A s \in Sessions, v, w \in Workers : Holds(v, s) /\ Holds(w, s) => v = w

\* ... every resident copy has the acknowledged turns, ...
CachesComplete ==
    \A w \in Workers, s \in Sessions : Resident(w, s) => acked[s] \subseteq cache[w][s].log

\* ... so has every file that can be read, and only a session without
\* acknowledged turns has no file, ...
FilesComplete ==
    \A s \in Sessions :
        /\ ~Has(s) => acked[s] = {}
        /\ \A f \in Formats :
              /\ file[s][f].state = "whole" => acked[s] \subseteq file[s][f].kv.log
              /\ Exists(s, f) => f \in StoreFormats

\* ... and a call in progress agrees with the resident copy until the eviction
\* loop, and with the file once it is written.
JobsInStep ==
    \A w \in Workers :
        /\ job[w].pc \in {"generate", "save", "write"} => cache[w][job[w].s] = job[w].kv
        /\ job[w].pc = "reply" =>
              /\ cache[w][job[w].s] \in {NoKV, job[w].kv}
              /\ \A f \in StoreFormats : file[job[w].s][f] = Whole(job[w].kv)

\* Where the acknowledged conversation of a session is while it is in use, in
\* transit to the store, or at rest: the strengthening of NoSilentLoss that every
\* step preserves (sticky routing, persist=True, one format).
ConversationInv ==
    SingleHolder /\ CachesComplete /\ FilesComplete /\ JobsInStep /\ NoSilentLoss

\* A session id used again after drop() starts from nothing: no turn from before
\* the drop is in the context of a later one (SessionManager.drop,
\* SessionStore.delete).
NoResurrection ==
    \A w \in Workers :
        ~Idle(w) => \A i \in job[w].kv.log : i >= floor[job[w].s]

\* When turn returns, the worker is back within keep_resident, and (unless it
\* keeps nothing) the session just used is among those it kept (_put).
ResidencyAfterPut ==
    \A w \in Workers :
        job[w].pc = "reply" =>
            /\ Len(lru[w]) <= KeepResident
            /\ KeepResident > 0 => cache[w][job[w].s] = job[w].kv

\* "The session can be restored on any worker after a restart" (module
\* docstring): while no process holds a session that has acknowledged turns, the
\* store holds them all, readable, in the file a worker would open.
RestorableAnywhere ==
    \A s \in Sessions :
        (acked[s] # {} /\ \A w \in Workers : ~Holds(w, s)) =>
            \A w \in Workers :
                LET f == file[s][Resolve(w, s)]
                IN  Has(s) /\ f.state = "whole" /\ acked[s] \subseteq f.kv.log
=============================================================================
