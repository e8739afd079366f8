-------------------------- MODULE TieredCacheStore --------------------------
(***************************************************************************)
(* The tiered, content-addressed KV store of memory/store.py.              *)
(*                                                                         *)
(* Entries live in an ordered hierarchy of tiers (gpu, cpu, nvme: 1, 2, 3).*)
(* put and get make an entry the most recently used one and bring it to    *)
(* the top tier; _enforce_capacity then walks the tiers from the top and   *)
(* demotes, tier by tier, the least recently used entry until each tier    *)
(* fits.  An entry pushed off the last tier is dropped.                    *)
(*                                                                         *)
(* The object is used by one thread, so an operation runs to its end before*)
(* the next one starts; the cascade is still one action per iteration of   *)
(* its loops, with the tier it is working on in `level'.  A slot is a pair *)
(* (tenant, key); the handle made from it is the slot itself, that is, the *)
(* f-string "{tenant}::{key}" is taken to be injective.  The reported      *)
(* counters (hits, promotions, peaks, modelled seconds) are left out: no   *)
(* operation reads them.                                                   *)
(***************************************************************************)
EXTENDS Integers, FiniteSets

CONSTANTS
    Slots,      \* the (tenant, key) pairs callers use
    NTiers,     \* len(tiers)
    Capacity,   \* capacity_bytes of each tier
    Sizes,      \* the sizes nbytes() may report
    MaxClock    \* bound on the LRU clock, i.e. on the number of put and get

Tiers == 1 .. NTiers

ASSUME TiersAssumption ==
    /\ NTiers \in Nat \ {0}
    /\ Capacity \in [Tiers -> Nat]
    /\ Sizes \subseteq Nat
    /\ MaxClock \in Nat

NoSlot == "no slot"

ASSUME SlotsAssumption == NoSlot \notin Slots

NoHot == [slot |-> NoSlot, nbytes |-> 0]

VARIABLES
    entries,    \* _entries: the resident slots and their _Entry
    index,      \* _index: the slots a reuse probe finds
    used,       \* _used: the bytes accounted to each tier
    clock,      \* _clock
    level,      \* the tier _enforce_capacity is at; 0 between operations
    hot         \* history: the slot the last put or get was about, and its size

tierVars == <<entries, index, used, clock, level, hot>>

Entry == [tier : Tiers, nbytes : Nat, last_used : Nat]

-----------------------------------------------------------------------------

InTier(t) == {s \in DOMAIN entries : entries[s].tier = t}

(* _lru_in: s is the entry of tier t that was used longest ago (the clock  *)
(* ticks at every use, so there is one at most)                            *)
IsLruIn(s, t) ==
    /\ s \in InTier(t)
    /\ \A r \in InTier(t) : entries[s].last_used <= entries[r].last_used

(* The loop condition of _enforce_capacity *)
OverCapacity(t) == used[t] > Capacity[t]

(* _used after n bytes moved from tier a to tier b *)
Recount(a, b, n) ==
    LET taken == [used EXCEPT ![a] = @ - n]
    IN  [taken EXCEPT ![b] = @ + n]

(* _entries without s *)
Without(s) == [r \in DOMAIN entries \ {s} |-> entries[r]]

StoreInit ==
    /\ entries = [s \in {} |-> [tier |-> 1, nbytes |-> 0, last_used |-> 0]]
    /\ index = {}
    /\ used = [t \in Tiers |-> 0]
    /\ clock = 0
    /\ level = 0
    /\ hot = NoHot

-----------------------------------------------------------------------------

TouchAndPromote_NoTouch(s) ==
    LET e == entries[s]
    IN  /\ clock' = clock + 1
        /\ entries' = [entries EXCEPT ![s].tier = 1]
        /\ IF e.tier = 1
           THEN UNCHANGED <<used, level>>
           ELSE used' = Recount(e.tier, 1, e.nbytes) /\ level' = 1
        /\ hot' = [slot |-> s, nbytes |-> e.nbytes]
        /\ UNCHANGED index

(* Promotion stops one tier up instead of at the top *)
TouchAndPromote_OneUp(s) ==
    LET e   == entries[s]
        dst == IF e.tier = 1 THEN 1 ELSE e.tier - 1
    IN  /\ clock' = clock + 1
        /\ entries' = [entries EXCEPT ![s] =
                          [e EXCEPT !.tier = dst, !.last_used = clock + 1]]
        /\ IF e.tier = 1
           THEN UNCHANGED <<used, level>>
           ELSE used' = Recount(e.tier, dst, e.nbytes) /\ level' = 1
        /\ hot' = [slot |-> s, nbytes |-> e.nbytes]
        /\ UNCHANGED index

(* _touch and _promote: s becomes the most recently used entry and, if it  *)
(* was lower down, moves to the top tier, which may then be too full       *)
TouchAndPromote(s) ==
    LET e == entries[s]
    IN  /\ clock' = clock + 1
        /\ entries' = [entries EXCEPT ![s] =
              [tier |-> 1, nbytes |-> e.nbytes, last_used |-> clock + 1]]
        /\ IF e.tier = 1
           THEN UNCHANGED <<used, level>>
           ELSE used' = Recount(e.tier, 1, e.nbytes) /\ level' = 1
        /\ hot' = [slot |-> s, nbytes |-> e.nbytes]
        /\ UNCHANGED index

(* put of a slot the index does not have: a new entry in the top tier *)
PutNew(s, n) ==
    /\ level = 0 /\ clock < MaxClock
    /\ s \notin index
    /\ clock' = clock + 1
    /\ entries' = [r \in DOMAIN entries \cup {s} |->
                      IF r = s
                      THEN [tier |-> 1, nbytes |-> n, last_used |-> clock + 1]
                      ELSE entries[r]]
    /\ index' = index \cup {s}
    /\ used' = [used EXCEPT ![1] = @ + n]
    /\ level' = 1
    /\ hot' = [slot |-> s, nbytes |-> n]

(* put of a slot that is already indexed: no bytes, only a promotion *)
PutAgain(s) ==
    /\ level = 0 /\ clock < MaxClock
    /\ s \in index
    /\ TouchAndPromote(s)

(* get of a resident handle (an unknown one returns None, nothing changes) *)
Get(s) ==
    /\ level = 0 /\ clock < MaxClock
    /\ s \in DOMAIN entries
    /\ TouchAndPromote(s)

Remove_KeepsIndex(s) ==
    /\ entries' = Without(s)
    /\ used' = [used EXCEPT ![entries[s].tier] = @ - entries[s].nbytes]
    /\ UNCHANGED index

(* The body of evict, also used when an entry falls off the last tier *)
Remove(s) ==
    /\ entries' = Without(s)
    /\ index' = index \ {s}
    /\ used' = [used EXCEPT ![entries[s].tier] = @ - entries[s].nbytes]

(* evict called by a user of the store *)
Evict(s) ==
    /\ level = 0
    /\ s \in DOMAIN entries
    /\ Remove(s)
    /\ hot' = IF hot.slot = s THEN NoHot ELSE hot
    /\ UNCHANGED <<clock, level>>

-----------------------------------------------------------------------------
(* _enforce_capacity *)

(* The tier is too full: its least recently used entry goes one tier down *)
DemoteLru(s) ==
    /\ level \in 1 .. NTiers - 1
    /\ OverCapacity(level) /\ IsLruIn(s, level)
    /\ LET e == entries[s]
       IN  /\ entries' = [entries EXCEPT ![s] =
                 [tier |-> level + 1, nbytes |-> e.nbytes, last_used |-> e.last_used]]
           /\ used' = Recount(level, level + 1, e.nbytes)
    /\ UNCHANGED <<index, clock, level, hot>>

(* The victim is the last arrival *)
DropLru_Newest(s) ==
    /\ level = NTiers
    /\ OverCapacity(level) /\ s \in InTier(level)
    /\ \A r \in InTier(level) : entries[r].last_used <= entries[s].last_used
    /\ Remove(s)
    /\ UNCHANGED <<clock, level, hot>>

(* The last tier is too full: its least recently used entry is dropped *)
DropLru(s) ==
    /\ level = NTiers
    /\ OverCapacity(level) /\ IsLruIn(s, level)
    /\ Remove(s)
    /\ UNCHANGED <<clock, level, hot>>

(* The tier fits, or has nothing left to move: on to the next one, and     *)
(* after the last one the put or get returns                               *)
NextTier ==
    /\ level \in Tiers
    /\ (~OverCapacity(level) \/ InTier(level) = {})
    /\ level' = IF level = NTiers THEN 0 ELSE level + 1
    /\ UNCHANGED <<entries, index, used, clock, hot>>

Cascade == (\E s \in Slots : DemoteLru(s) \/ DropLru(s)) \/ NextTier

StoreNext ==
    \/ \E s \in Slots, n \in Sizes : PutNew(s, n)
    \/ \E s \in Slots : PutAgain(s) \/ Get(s) \/ Evict(s)
    \/ Cascade

StoreSpec == StoreInit /\ [][StoreNext]_tierVars

-----------------------------------------------------------------------------

(* Types of the store's dictionaries and counters: the cascade never       *)
(* demotes past the last tier.                                             *)
TypeOK ==
    /\ DOMAIN entries \subseteq Slots
    /\ \A s \in DOMAIN entries : entries[s] \in Entry
    /\ index \subseteq Slots
    /\ used \in [Tiers -> Int]
    /\ clock \in 0 .. MaxClock
    /\ level \in 0 .. NTiers
    /\ hot \in [slot : Slots \cup {NoSlot}, nbytes : Nat]

(* The bytes that the slots S hold in the dictionary e, one by one         *)
Bytes(e, S) == UNION {{s} \X (1 .. e[s].nbytes) : s \in S}

(* The running byte counts of _used equal what the resident entries of each*)
(* tier really occupy, after any mix of puts, promotions, demotions, drops *)
(* and evicts: they are only ever adjusted, never recomputed.              *)
UsedIsExact ==
    \A t \in Tiers : used[t] = Cardinality(Bytes(entries, InTier(t)))

(* Whenever no operation is running every tier is within its capacity      *)
(* ("capacity_bytes bounds the resident bytes"): one walk from the top is  *)
(* enough although each tier's overflow lands in the next.                 *)
WithinCapacity == level = 0 => \A t \in Tiers : used[t] <= Capacity[t]

(* The reuse index and the entries always agree, in the middle of a cascade*)
(* too: has never reports a handle that get would miss, and put never looks*)
(* up a handle that is gone.                                               *)
IndexIsExact == index = DOMAIN entries

(* Everything in a tier was used more recently than everything below it:   *)
(* per-tier LRU with promotion to the top is LRU over the whole store.     *)
TiersAreOrdered ==
    \A r, s \in DOMAIN entries :
        entries[r].tier < entries[s].tier =>
            entries[r].last_used > entries[s].last_used

(* The entry a put or get was about ends in the fastest tier that can hold *)
(* it, and is dropped only when it is larger than every tier: older entries*)
(* make room first, however large the cascade they cause.  (An entry that  *)
(* no tier can hold takes every other entry with it: put then returns a    *)
(* handle that get misses, and the store is empty.)                        *)
HotIsInFastestFit ==
    (level = 0 /\ hot # NoHot) =>
        IF \E t \in Tiers : hot.nbytes <= Capacity[t]
        THEN /\ hot.slot \in DOMAIN entries
             /\ hot.nbytes <= Capacity[entries[hot.slot].tier]
             /\ \A t \in 1 .. entries[hot.slot].tier - 1 :
                   Capacity[t] < hot.nbytes
        ELSE DOMAIN entries = {}

(* The cascade drops nothing but the entry that was used longest ago of all*)
(* the entries of the store ("the least-recently-used (oldest) entry is the*)
(* one dropped", tests/test_store.py).                                     *)
DropsOnlyTheOldest ==
    [][level # 0 =>
          \A s \in DOMAIN entries \ DOMAIN entries' :
              \A r \in DOMAIN entries :
                  entries[s].last_used <= entries[r].last_used]_tierVars

=============================================================================
