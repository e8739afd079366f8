--------------------------- MODULE SpeculativeExec ---------------------------
(***************************************************************************)
(* Speculative execution of tests after an edit, the tool loop of          *)
(* experiments/speculative-tool-exec: live_agent.py ("live"),              *)
(* modal/live_agent_modal.py ("modal") and replay.py ("replay").           *)
(*                                                                         *)
(* While the model thinks, the harness runs in the background the test it  *)
(* expects to be asked for; a matching call is served the result of that   *)
(* run, any other call that is not read-only kills it.  The working tree   *)
(* is a version number; `shown' is what git status and git diff show of    *)
(* it, which is all that tree_fingerprint sees.  A speculative run reads   *)
(* the tree from its start to its end.                                     *)
(*                                                                         *)
(* spec_kill signals the process group of the wrapper; timeout(1) gives    *)
(* the test a group of its own, so a killed run goes on as an orphan whose *)
(* exit status nobody writes.                                              *)
(***************************************************************************)
EXTENDS Integers, Sequences, FiniteSets

CONSTANTS
    Harnesses,      \* the harnesses explored
    Tests,          \* test-like commands the model runs
    Script,         \* the run of a created .py file, one of Tests
    Slow,           \* tests that outlast the 300 s of a speculative run
    MaxCalls,       \* bound on the tool calls (max_steps)
    None

ASSUME SpeculationAssumption ==
    /\ Harnesses \subseteq {"live", "modal", "replay"}
    /\ Script \in Tests /\ Slow \subseteq Tests
    /\ None \notin Tests
    /\ MaxCalls \in Nat

VARIABLES
    harness,
    tree,           \* version of the working tree
    shown,          \* version of what git shows of it
    fp,             \* the last fingerprint taken
    last_test,      \* the most recent test-like command
    pending,        \* the command of the pending speculative run
    run,            \* /tmp/spec.*: the run started last
    orphans,        \* killed runs that still execute
    pc,             \* "none", "call", "wait" for the pending run, "ended"
    calls,          \* calls answered
    seen,           \* the result returned last to the model
    launches, hits, misses,
    mismatches      \* hits whose validation run gave another result

counters == <<launches, hits, misses, mismatches>>
vars == <<harness, tree, shown, fp, last_test, pending, run, orphans, pc, calls, seen, counters>>

NoRun == [cmd |-> None]
Result(cmd, on, cut) == [cmd |-> cmd, on |-> on, cut |-> cut]

(* No sandbox: before the first task and after the end of one *)
NoTask ==
    /\ tree = 0 /\ shown = 0 /\ fp = 0
    /\ last_test = None /\ pending = None /\ run = NoRun /\ orphans = 0
    /\ calls = 0 /\ seen = None
    /\ launches = 0 /\ hits = 0 /\ misses = 0 /\ mismatches = 0
    /\ pc = "none"

(* A fresh sandbox from the task's image, its tree fingerprinted *)
Boot ==
    /\ pc = "none"
    /\ pc' = "call"
    /\ UNCHANGED <<harness, tree, shown, fp, last_test, pending, run, orphans, calls, seen, counters>>

(* The sandbox is terminated with all that runs in it *)
Close ==
    /\ tree' = 0 /\ shown' = 0 /\ fp' = 0
    /\ last_test' = None /\ pending' = None /\ run' = NoRun /\ orphans' = 0
    /\ calls' = 0 /\ seen' = None
    /\ launches' = 0 /\ hits' = 0 /\ misses' = 0 /\ mismatches' = 0
    /\ pc' = "none"
    /\ UNCHANGED harness

-----------------------------------------------------------------------------
(* The background run *)

Executing == run # NoRun /\ ~run.done

(* spec_start: forgets the previous run's files *)
Started(cmd) == [cmd |-> cmd, from |-> tree', done |-> FALSE, result |-> None]

(* What a run that read the trees from..upto reports *)
Torn == -1
On(from, upto) == IF from = upto THEN from ELSE Torn

(* The wrapper writes /tmp/spec.rc when the test ends or timeout cuts it *)
RunEnds ==
    /\ Executing
    /\ run' = [run EXCEPT !.done = TRUE,
                          !.result = Result(run.cmd, On(run.from, tree), run.cmd \in Slow)]
    /\ UNCHANGED <<harness, tree, shown, fp, last_test, pending, orphans, pc, calls, seen, counters>>

OrphanEnds ==
    /\ orphans > 0
    /\ orphans' = orphans - 1
    /\ UNCHANGED <<harness, tree, shown, fp, last_test, pending, run, pc, calls, seen, counters>>

(* spec_kill: /tmp/spec.rc is never written by a run killed before its end *)
KilledRun ==
    [run |-> IF Executing THEN NoRun ELSE run,
     orphans |-> IF Executing THEN orphans + 1 ELSE orphans]

-----------------------------------------------------------------------------
(* Tool calls *)

Returns(result) == seen' = result /\ calls' = calls + 1

Calling == pc = "call" /\ calls < MaxCalls

(* A read-only command or a view: a pending run stays *)
Read ==
    /\ Calling
    /\ Returns(Result("read", tree, FALSE))
    /\ UNCHANGED <<harness, tree, shown, fp, last_test, pending, run, orphans, pc, counters>>

Missed_Uncounted == misses

(* A pending run that the call does not ask for is killed and counted *)
Missed == IF pending = None THEN misses ELSE misses + 1

(* editor.py: an edit that fails writes nothing *)
Edited(version, ok) == IF ok THEN version + 1 ELSE version

(* What is launched after an edit that git shows and that succeeded:      *)
(* live_agent.py and replay.py run the most recent test, whatever the     *)
(* kind of edit                                                           *)
LiveTarget == last_test
ReplayTarget == last_test

(* Modal runs the most recent test after a modification, the file itself  *)
(* after the creation of a .py file, and nothing for a created file of    *)
(* another kind or an edit that both creates and modifies                 *)
ModalTarget(kind) ==
    CASE kind = "created" -> Script [] kind = "other" -> None [] OTHER -> last_test

Target(kind) ==
    CASE harness = "live" -> LiveTarget
      [] harness = "replay" -> ReplayTarget
      [] harness = "modal" -> ModalTarget(kind)

Edit_KeepsPending(kind, ok) ==
    /\ Calling
    /\ tree' = Edited(tree, ok)
    /\ shown' = Edited(shown, ok /\ kind # "hidden")
    /\ fp' = shown'
    /\ Returns(Result("edit", tree, FALSE))
    /\ LET target == IF pending = None /\ ok /\ shown' # fp THEN Target(kind) ELSE None IN
       IF target # None
       THEN /\ pending' = target /\ run' = Started(target)
            /\ launches' = launches + 1
       ELSE UNCHANGED <<pending, run, launches>>
    /\ UNCHANGED <<harness, last_test, orphans, pc, hits, misses, mismatches>>

(* An edit: of a tracked file, of a new one, or one git does not show (an  *)
(* untracked file edited again, an ignored one).  It may fail and change   *)
(* nothing.  A pending run is killed first; then the tree is fingerprinted *)
(* and, if it changed, a run launched.                                     *)
Edit(kind, ok) ==
    /\ Calling
    /\ misses' = Missed
    /\ tree' = Edited(tree, ok)
    /\ shown' = Edited(shown, ok /\ kind # "hidden")
    /\ fp' = shown'
    /\ Returns(Result("edit", tree, FALSE))
    /\ LET killed == IF pending = None THEN [run |-> run, orphans |-> orphans]
                     ELSE KilledRun
           target == IF ok /\ shown' # fp THEN Target(kind) ELSE None IN
       /\ orphans' = killed.orphans
       /\ pending' = target
       /\ run' = IF target = None THEN killed.run ELSE Started(target)
       /\ launches' = IF target = None THEN launches ELSE launches + 1
    /\ UNCHANGED <<harness, last_test, pc, hits, mismatches>>

(* exec within the limit of a call, which is that of a speculative run     *)
(* (300 s) except in live_agent.py                                         *)
Exec(t) == Result(t, tree, t \in Slow /\ harness # "live")

(* A test that is not pending is run for real *)
RunTest(t) ==
    /\ Calling
    /\ pending # t
    /\ misses' = Missed
    /\ Returns(Exec(t))
    /\ last_test' = t
    /\ LET killed == IF pending = None THEN [run |-> run, orphans |-> orphans]
                     ELSE KilledRun IN
       run' = killed.run /\ orphans' = killed.orphans
    /\ pending' = None
    /\ fp' = shown
    /\ UNCHANGED <<harness, tree, shown, pc, launches, hits, mismatches>>

(* The pending test is asked for: wait for its run *)
AskPending(t) ==
    /\ Calling
    /\ pending = t
    /\ pc' = "wait"
    /\ UNCHANGED <<harness, tree, shown, fp, last_test, pending, run, orphans, calls, seen, counters>>

(* A hit of a live harness: the result of the run is the call's result *)
LiveHit(result) ==
    /\ harness # "replay"
    /\ Returns(result)
    /\ UNCHANGED mismatches

(* A hit of replay.py: the command is run for real as well, recorded and   *)
(* compared with the result of the speculative run                         *)
ReplayHit(result) ==
    /\ harness = "replay"
    /\ Returns(Exec(pending))
    /\ mismatches' = IF result = Exec(pending) THEN mismatches ELSE mismatches + 1

Serve(result) ==
    /\ LiveHit(result) \/ ReplayHit(result)
    /\ last_test' = pending
    /\ pending' = None
    /\ fp' = shown
    /\ hits' = hits + 1
    /\ pc' = "call"

(* spec_poll_done, then spec_result *)
Served ==
    /\ pc = "wait" /\ run # NoRun /\ run.done
    /\ Serve(run.result)
    /\ UNCHANGED <<harness, tree, shown, run, orphans, launches, misses>>

WaitTimesOut_Anytime ==
    /\ pc = "wait" /\ Executing
    /\ harness # "live"
    /\ Serve(Result(run.cmd, On(run.from, tree), TRUE))
    /\ run' = KilledRun.run /\ orphans' = KilledRun.orphans
    /\ UNCHANGED <<harness, tree, shown, launches, misses>>

(* The wait outlasts per_cmd_timeout: the run is killed and what it wrote  *)
(* so far is served as a failure.  live_agent.py waits 600 s, longer than  *)
(* any speculative run takes.                                              *)
WaitTimesOut ==
    /\ pc = "wait" /\ Executing /\ run.cmd \in Slow
    /\ harness # "live"
    /\ Serve(Result(run.cmd, On(run.from, tree), TRUE))
    /\ run' = KilledRun.run /\ orphans' = KilledRun.orphans
    /\ UNCHANGED <<harness, tree, shown, launches, misses>>

(* submit, the end of the trajectory or of max_steps: a pending run is     *)
(* killed, and only replay.py counts it as a miss                          *)
End ==
    /\ pc = "call"
    /\ pc' = "ended"
    /\ misses' = IF harness = "replay" THEN Missed ELSE misses
    /\ IF pending = None THEN UNCHANGED <<run, orphans>>
       ELSE run' = KilledRun.run /\ orphans' = KilledRun.orphans
    /\ UNCHANGED <<harness, tree, shown, fp, last_test, pending, calls, seen, launches, hits, mismatches>>

(* What the model may ask for next *)
ModelCalls ==
    \/ Read
    \/ \E kind \in {"modified", "created", "other", "hidden"}, ok \in BOOLEAN :
          Edit(kind, ok)
    \/ \E t \in Tests : RunTest(t) \/ AskPending(t)
    \/ End

(* What goes on meanwhile in the sandbox and in the wait for it *)
Background == RunEnds \/ OrphanEnds \/ Served \/ WaitTimesOut

-----------------------------------------------------------------------------
(* Properties *)

Results == [cmd : Tests \cup {"read", "edit"}, on : Nat \cup {Torn}, cut : BOOLEAN]

(* Type invariant *)
TypeOK ==
    /\ harness \in Harnesses
    /\ tree \in Nat /\ shown \in 0 .. tree /\ fp \in 0 .. shown
    /\ last_test \in Tests \cup {None} /\ pending \in Tests \cup {None}
    /\ run \in {NoRun} \cup [cmd : Tests, from : Nat, done : BOOLEAN,
                             result : Results \cup {None}]
    /\ orphans \in Nat
    /\ pc \in {"none", "call", "wait", "ended"}
    /\ calls \in Nat /\ seen \in Results \cup {None}
    /\ launches \in Nat /\ hits \in Nat /\ misses \in Nat /\ mismatches \in Nat

Plain == INSTANCE PlainHarness

(* Speculation is invisible to the model: every result, served or not, is  *)
(* what running that command at that moment on that tree gives, for tests  *)
(* within the time limit of a speculative run (run_task, replay_session)   *)
SpeculationIsInvisible == Plain!PlainSpec

(* A pending run is of the current tree: it is the run started last, and   *)
(* neither an orphan nor an edit git does not show can stand in for it;    *)
(* so a validation run of replay.py agrees with the run it validates       *)
PendingIsCurrent ==
    /\ mismatches = 0
    /\ pending # None /\ pc # "ended" =>
           /\ run # NoRun /\ run.cmd = pending /\ run.from = tree
           /\ run.done => run.result.on = tree

(* Every launch is accounted for: as a hit, as a miss, or as the run still *)
(* pending, which at the end only replay.py counts (spec_events)           *)
LaunchesAccounted ==
    launches = hits + misses
        + (IF pending # None /\ ~(pc = "ended" /\ harness = "replay") THEN 1 ELSE 0)
=============================================================================
