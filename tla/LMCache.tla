------------------------------- MODULE LMCache -------------------------------
(***************************************************************************)
(* LMCacheStrategy of bench/lmcache_baseline.py over the tiered store: a   *)
(* request is a chain of token blocks, each stored under a key that hashes *)
(* all tokens up to its end.  The blocks found from the start on are       *)
(* loaded; from the first miss on every block is prefilled and put.  The   *)
(* store may have other users between two requests.                        *)
(***************************************************************************)
EXTENDS TieredCacheStore, Sequences, Functions

CONSTANTS
    Workload    \* sequences of blocks [key, n], n its tokens (and bytes)

(* _chunk and hash_tokens(token_ids[:end]): a key fixes all blocks before  *)
(* its own                                                                 *)
ASSUME ChainAssumption ==
    /\ Workload \subseteq Seq([key : Slots, n : Sizes])
    /\ \A p, q \in Workload : \A i \in DOMAIN p, j \in DOMAIN q :
          p[i].key = q[j].key => i = j /\ SubSeq(p, 1, i) = SubSeq(q, 1, j)

VARIABLES
    request,        \* the blocks of the request being served
    at,             \* the next block; 0 between requests
    diverged,       \* a block has missed
    reused,         \* reused_tokens of this request
    recomputed,     \* recomputed_tokens of this request
    served          \* history: the last request, if no other user came since

clientVars == <<request, at, diverged, reused, recomputed, served>>
allVars == <<tierVars, clientVars>>

(* The tokens of request r, one by one: the j-th of its block i            *)
TokenSet(r) == UNION {{i} \X (1 .. r[i].n) : i \in DOMAIN r}
KeysOf(r) == {r[i].key : i \in DOMAIN r}

(* The store is content-addressed: a block's key fixes its size *)
SizesOf(s) ==
    IF \E r \in Workload : s \in KeysOf(r)
    THEN {b.n : b \in {c \in UNION {Range(r) : r \in Workload} : c.key = s}}
    ELSE Sizes

LMInit ==
    /\ StoreInit
    /\ request = << >> /\ at = 0 /\ diverged = FALSE
    /\ reused = 0 /\ recomputed = 0 /\ served = << >>

(* TieredCacheStore.has *)
IsIndexed(s) == s \in index

(* process is called *)
Begin(r) ==
    /\ level = 0 /\ at = 0 /\ clock + Len(r) <= MaxClock
    /\ request' = r /\ at' = 1 /\ diverged' = FALSE
    /\ reused' = 0 /\ recomputed' = 0
    /\ UNCHANGED <<tierVars, served>>

(* No miss so far and the block is resident: it is loaded *)
LoadBlock ==
    /\ at \in DOMAIN request
    /\ ~diverged /\ IsIndexed(request[at].key)
    /\ Get(request[at].key)
    /\ reused' = reused + request[at].n
    /\ at' = at + 1
    /\ UNCHANGED <<request, diverged, recomputed, served>>

(* Only a block the store lacks is put *)
ComputeBlock_OnlyNew ==
    /\ at \in DOMAIN request
    /\ diverged \/ ~IsIndexed(request[at].key)
    /\ \/ PutNew(request[at].key, request[at].n)
       \/ level = 0 /\ IsIndexed(request[at].key) /\ UNCHANGED tierVars
    /\ diverged' = TRUE
    /\ recomputed' = recomputed + request[at].n
    /\ at' = at + 1
    /\ UNCHANGED <<request, reused, served>>

(* The first miss and every block behind it: prefilled and put, which only *)
(* promotes the block if the store has it                                  *)
ComputeBlock ==
    /\ at \in DOMAIN request
    /\ diverged \/ ~IsIndexed(request[at].key)
    /\ \/ PutNew(request[at].key, request[at].n)
       \/ PutAgain(request[at].key)
    /\ diverged' = TRUE
    /\ recomputed' = recomputed + request[at].n
    /\ at' = at + 1
    /\ UNCHANGED <<request, reused, served>>

(* The RequestResult is returned *)
Finish ==
    /\ level = 0 /\ at > Len(request)
    /\ at' = 0 /\ served' = request
    /\ UNCHANGED <<tierVars, request, diverged, reused, recomputed>>

(* Another user of the store calls it between two requests *)
OtherUser ==
    /\ at = 0
    /\ \/ \E s \in Slots : \E n \in SizesOf(s) : PutNew(s, n)
       \/ \E s \in Slots : PutAgain(s) \/ Get(s) \/ Evict(s)
    /\ served' = << >>
    /\ UNCHANGED <<request, at, diverged, reused, recomputed>>

StoreStep == Cascade /\ UNCHANGED clientVars

LMNext ==
    \/ \E r \in Workload : Begin(r)
    \/ LoadBlock \/ ComputeBlock \/ Finish
    \/ OtherUser \/ StoreStep

(* A call of process, and the cascade under it, runs to its end *)
LMSpec ==
    /\ LMInit /\ [][LMNext]_allVars
    /\ WF_allVars(LoadBlock \/ ComputeBlock \/ Finish \/ StoreStep)

-----------------------------------------------------------------------------
(* The reuse index names exactly the resident entries; the byte counters   *)
(* of _used, which are only ever adjusted, are what those entries occupy;  *)
(* and whenever no operation is running every tier is within its capacity  *)
(* ("capacity_bytes bounds the resident bytes"): one walk from the top is  *)
(* enough although each tier's overflow lands in the next.                 *)
BooksAreExact == IndexIsExact /\ UsedIsExact /\ WithinCapacity

(* A request that fits the top tier is resident there when process returns,*)
(* however many of its own blocks its loads and puts pushed down or out on *)
(* the way; so the same request served again at once recomputes nothing.   *)
ServedIsResident ==
    (level = 0 /\ served # << >> /\ Cardinality(TokenSet(served)) <= Capacity[1]) =>
        /\ at = 0 \/ request = served =>
              \A s \in KeysOf(served) : s \in InTier(1)
        /\ at > 0 /\ request = served => ~diverged
=============================================================================
