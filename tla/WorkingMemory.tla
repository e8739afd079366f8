---------------------------- MODULE WorkingMemory ----------------------------
(***************************************************************************)
(* The bounded working memory of memory/working_memory.py: a compacted     *)
(* prefix [0, compactEnd) and a raw window of the most recent tokens,      *)
(*      combined cache = [ compact_memory ; recent_raw ].                  *)
(*                                                                         *)
(* Tokens are represented by their positions, so all_tokens is its length  *)
(* `total', the raw window is the interval of positions it was prefilled   *)
(* from, and the compact memory is the length of the prefix it was built   *)
(* from together with the number of KV rows it holds.                      *)
(*                                                                         *)
(* append is one action per call it makes of the backend or the compactor, *)
(* because each of them may raise (out of memory, a lost engine) and the   *)
(* fields assigned before the exception stay assigned: the object is used  *)
(* again afterwards.  Reported statistics (peaks, counts, seconds), which   *)
(* no operation reads, are left out.                                       *)
(***************************************************************************)
EXTENDS Integers, FiniteSets

CONSTANTS
    BudgetTokens,       \* budget_tokens
    KeepRecentTokens,   \* keep_recent_tokens
    Compactors,         \* the compactors a memory may be built with
    MaxTotal,           \* bound on the tokens appended
    MaxVersion,         \* bound on the version a commit may start from
    MaxSnapshots        \* bound on the handles taken

(* The checks of __init__ *)
ASSUME BudgetAssumption ==
    /\ BudgetTokens \in Nat /\ KeepRecentTokens \in Nat
    /\ KeepRecentTokens < BudgetTokens

ASSUME BoundsAssumption ==
    /\ Compactors \subseteq {"uniform", "sensitivity"}
    /\ MaxTotal \in Nat /\ MaxVersion \in Nat /\ MaxSnapshots \in Nat

VARIABLES
    compactor,      \* the compactor it was built with
    total,          \* total, len(all_tokens)
    compactEnd,     \* compact_end
    compact,        \* compact_mem
    recent,         \* recent_raw
    version,        \* _version
    stage,          \* where the running append is
    raised,         \* history: the last append raised
    unversioned,    \* history: some compaction raised before its version bump
    snaps           \* the handles given out by snapshot and commit

memory == <<total, compactEnd, compact, recent>>
memoryVars == <<compactor, memory, version, stage, raised, unversioned, snaps>>

compact_budget == BudgetTokens - KeepRecentTokens

NoCompact == [of |-> 0, phys |-> 0]
NoRecent == [lo |-> 0, hi |-> 0]

-----------------------------------------------------------------------------

n_recent == recent.hi - recent.lo

current_tokens == compact.phys + n_recent

(* What _refresh_recent prefills: the positions [compactEnd, total) *)
Window ==
    IF compactEnd = total THEN NoRecent ELSE [lo |-> compactEnd, hi |-> total]

(* The rows a compactor leaves in the head that compact_phys looks at: the *)
(* uniform ones keep min(target, n); attention matching with               *)
(* budget_alloc="sensitivity" moves rows between heads, so one head may    *)
(* get any number as long as the prefix is longer than the target          *)
CompactSizes(n) ==
    IF compactor = "uniform" \/ n <= compact_budget
    THEN {IF n <= compact_budget THEN n ELSE compact_budget}
    ELSE 1 .. n

(* Where _compact_step ends the compacted prefix *)
NewEnd == total - KeepRecentTokens

MustCompact_KeepsOne ==
    /\ current_tokens > BudgetTokens
    /\ total - compactEnd > KeepRecentTokens + 1

(* The loop condition of _maybe_compact *)
MustCompact ==
    /\ current_tokens > BudgetTokens
    /\ total - compactEnd > KeepRecentTokens

Init ==
    /\ compactor \in Compactors
    /\ total = 0 /\ compactEnd = 0
    /\ compact = NoCompact /\ recent = NoRecent
    /\ version = 0
    /\ stage = "idle"
    /\ raised = FALSE /\ unversioned = FALSE
    /\ snaps = {}

-----------------------------------------------------------------------------

(* append: the tokens are in all_tokens before anything can fail (append   *)
(* of an empty chunk returns at once and changes nothing)                  *)
AppendTokens(n) ==
    /\ stage = "idle"
    /\ total + n <= MaxTotal
    /\ total' = total + n
    /\ stage' = "refresh"
    /\ UNCHANGED <<compactor, compactEnd, compact, recent, version, raised, unversioned, snaps>>

(* The first _refresh_recent returns *)
Refresh ==
    /\ stage = "refresh"
    /\ recent' = Window
    /\ stage' = "loop"
    /\ UNCHANGED <<compactor, total, compactEnd, compact, version, raised,
                   unversioned, snaps>>

(* _compact_step up to the assignment of compact_mem and compact_end *)
Compact ==
    /\ stage = "loop" /\ MustCompact
    /\ \E p \in CompactSizes(NewEnd) : compact' = [of |-> NewEnd, phys |-> p]
    /\ compactEnd' = NewEnd
    /\ stage' = "refit"
    /\ UNCHANGED <<compactor, total, recent, version, raised, unversioned, snaps>>

(* The recent window is not prefilled again after the compaction *)
Refit_KeepsWindow ==
    /\ stage = "refit"
    /\ version' = version + 1
    /\ stage' = "loop"
    /\ UNCHANGED <<compactor, total, compactEnd, compact, recent,
                   raised, unversioned, snaps>>

Refit_NoBump ==
    /\ stage = "refit"
    /\ recent' = Window
    /\ stage' = "loop"
    /\ UNCHANGED <<compactor, total, compactEnd, compact, version,
                   raised, unversioned, snaps>>

(* The rest of _compact_step: the window shrinks to what was not compacted,*)
(* and only then is the version bumped.    (compact_end has grown, so the  *)
(* "no progress" exit of the loop is never taken: see LoopProgress.)       *)
Refit ==
    /\ stage = "refit"
    /\ recent' = Window
    /\ version' = version + 1
    /\ stage' = "loop"
    /\ UNCHANGED <<compactor, total, compactEnd, compact,
                   raised, unversioned, snaps>>

(* The while condition moved into the loop as an if: it waits for a budget *)
(* that no further step will reach                                         *)
Return_OnlyWithinBudget ==
    /\ stage = "loop" /\ current_tokens <= BudgetTokens
    /\ stage' = "idle"
    /\ raised' = FALSE
    /\ UNCHANGED <<compactor, memory, version, unversioned, snaps>>

(* The loop is done and append returns *)
Return ==
    /\ stage = "loop" /\ ~MustCompact
    /\ stage' = "idle"
    /\ raised' = FALSE
    /\ UNCHANGED <<compactor, memory, version, unversioned, snaps>>

(* A backend or compactor call raises out of append: prefill of the window,*)
(* prefill, reference queries or compaction of the prefix, or the prefill  *)
(* of the shrunken window after compact_mem was already replaced           *)
Raise ==
    /\ stage \in {"refresh", "refit"} \/ (stage = "loop" /\ MustCompact)
    /\ stage' = "idle"
    /\ raised' = TRUE
    /\ unversioned' = (unversioned \/ stage = "refit")
    /\ UNCHANGED <<compactor, memory, version, snaps>>

-----------------------------------------------------------------------------

(* snapshot, at version v: a deep copy, nothing shared with the memory *)
Handle(v) ==
    [compact |-> compact, compactEnd |-> compactEnd, total |-> total,
     recent |-> n_recent, version |-> v]

Snapshot ==
    /\ stage = "idle"
    /\ Cardinality(snaps) < MaxSnapshots
    /\ snaps' = snaps \cup {Handle(version)}
    /\ UNCHANGED <<compactor, memory, version, stage, raised, unversioned>>

Commit ==
    /\ stage = "idle"
    /\ Cardinality(snaps) < MaxSnapshots /\ version < MaxVersion
    /\ version' = version + 1
    /\ snaps' = snaps \cup {Handle(version + 1)}
    /\ UNCHANGED <<compactor, memory, stage, raised, unversioned>>

Next ==
    \/ \E n \in 1 .. MaxTotal : AppendTokens(n)
    \/ Refresh \/ Compact \/ Refit \/ Return \/ Raise
    \/ Snapshot \/ Commit

Spec == Init /\ [][Next]_memoryVars

(* append runs on: each of its calls returns or raises *)
FairSpec == Spec /\ WF_memoryVars(Refresh \/ Compact \/ Refit \/ Return \/ Raise)

-----------------------------------------------------------------------------

(* Types of the memory's fields. *)
MemoryTypeOK ==
    /\ compactor \in Compactors
    /\ total \in 0 .. MaxTotal /\ compactEnd \in 0 .. total
    /\ compact \in [of : Nat, phys : Nat] /\ compact.phys <= compact.of
    /\ recent \in [lo : Nat, hi : Nat] /\ recent.lo <= recent.hi
    /\ version \in Nat
    /\ stage \in {"idle", "refresh", "loop", "refit"}
    /\ raised \in BOOLEAN /\ unversioned \in BOOLEAN
    /\ \A s \in snaps : s \in [compact : [of : Nat, phys : Nat], compactEnd : Nat,
                               total : Nat, recent : Int, version : Nat]

(* After an append that returned, a query sees every token appended so far *)
(* exactly once and in its place: the compact memory stands for the prefix *)
(* [0, compactEnd) and the raw window starts right there and ends at total,*)
(* even when earlier appends raised half way through (combined).           *)
EveryTokenOnce ==
    (stage = "idle" /\ ~raised) =>
        /\ compact.of + n_recent = total
        /\ n_recent > 0 => recent.lo = compact.of

(* Even after an append that raised, what a query sees has no hole: the raw*)
(* window never starts after the end of the compacted prefix.  (It may     *)
(* overlap it, and may miss the tokens of the append that raised.)         *)
NoHole == recent # NoRecent => recent.lo <= compact.of

(* Compact memory and raw window together are the whole context: every    *)
(* token once after an append that returned, and never a hole between them.*)
ContextIsWhole == EveryTokenOnce /\ NoHole

(* "current_tokens = compact_phys + recent_tokens <= budget_tokens after   *)
(* every append" that returned, for the compactors that honour their       *)
(* per-head target.  Repairs itself: it also holds after an append that    *)
(* follows any number of failed ones.                                      *)
WithinBudget ==
    (stage = "idle" /\ ~raised /\ compactor = "uniform") =>
        current_tokens <= BudgetTokens

(* Handles with the same version hold the same compact memory ("version:   *)
(* bumps on every compaction / commit"), as long as no compaction raised   *)
(* between installing its result and bumping the version.                  *)
VersionsIdentify ==
    ~unversioned =>
        \A r, s \in snaps : r.version = s.version => r.compact = s.compact

(* Every pass of the compaction loop folds more of the history into the    *)
(* compact memory and never gives any of it back ("safety: no progress"    *)
(* is unreachable).                                                        *)
LoopProgress ==
    [][compact' # compact => compactEnd' > compactEnd /\ compact'.of > compact.of]_memoryVars

(* append always ends: one pass of the loop is enough, whatever the size of*)
(* the chunk and whatever the compactor leaves.                            *)
AppendEnds == stage # "idle" ~> stage = "idle"
=============================================================================
