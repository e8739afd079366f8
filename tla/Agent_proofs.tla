----------------------------- MODULE Agent_proofs -----------------------------
(***************************************************************************)
(* What an agent relies on.  Speculation is invisible and accounted for,   *)
(* and what a batch records is kept, for any set of tests, any batch, and  *)
(* any number of processes killed and started again; then the working      *)
(* memory it reads from.                                                   *)
(***************************************************************************)
EXTENDS TaskRunner, WorkingMemory, SequenceTheorems, TLAPS

(* A run that is over, and was not killed, reports its own command, cut    *)
(* only if it takes too long.                                              *)
RunIsExact ==
    run # NoRun /\ run.done =>
        run.result = Result(run.cmd, run.result.on, run.cmd \in Slow)

(* The inductive invariant.  What is waited for is the pending run, so the *)
(* wait ends with its result; a harness without a sandbox is as it started.*)
HarnessInv ==
    /\ TypeOK
    /\ RunIsExact
    /\ PendingIsCurrent
    /\ LaunchesAccounted
    /\ pc = "wait" => pending # None
    /\ pc = "none" => NoTask

(* A wait is served at most what running the pending test now would give:  *)
(* no edit came between the start of the run and the answer.               *)
LEMMA WaitedForIsCurrent ==
    ASSUME HarnessInv, pc = "wait"
    PROVE  /\ pending \in Tests /\ run # NoRun /\ run.cmd = pending
           /\ run \in [cmd : Tests, from : Nat, done : BOOLEAN, result : Results \cup {None}]
           /\ On(run.from, tree) = tree
           /\ run.done => run.result = Result(pending, tree, pending \in Slow)
<1>1. pending \in Tests /\ run # NoRun /\ run.cmd = pending /\ run.from = tree
  BY DEF HarnessInv, TypeOK, PendingIsCurrent
<1>2. run \in [cmd : Tests, from : Nat, done : BOOLEAN, result : Results \cup {None}]
  BY <1>1 DEF HarnessInv, TypeOK
<1>3. ASSUME run.done PROVE run.result = Result(pending, tree, pending \in Slow)
  BY <1>1, <1>3 DEF HarnessInv, RunIsExact, PendingIsCurrent
<1> QED BY <1>1, <1>2, <1>3 DEF On

LEMMA HarnessInvInit == RunnerInit => HarnessInv
  BY SpeculationAssumption
  DEF RunnerInit, NoTask, HarnessInv, TypeOK, RunIsExact, PendingIsCurrent,
      LaunchesAccounted, NoRun

(* A sandbox that is closed is as it was before the first task *)
LEMMA CloseInv == HarnessInv /\ Close => HarnessInv'
  BY SpeculationAssumption
  DEF Close, NoTask, HarnessInv, TypeOK, RunIsExact, PendingIsCurrent,
      LaunchesAccounted, NoRun

LEMMA StutterInv == HarnessInv /\ UNCHANGED vars => HarnessInv'
  BY DEF vars, counters, HarnessInv, TypeOK, NoTask, RunIsExact, PendingIsCurrent,
         LaunchesAccounted

-----------------------------------------------------------------------------
(* The steps inside a sandbox *)

LEMMA ReadInv == HarnessInv /\ Read => HarnessInv'
<1> SUFFICES ASSUME HarnessInv, Read PROVE HarnessInv'
  OBVIOUS
<1> USE DEF Read, Calling, Returns, counters
<1>1. TypeOK'
  BY DEF HarnessInv, TypeOK, Result, Results
<1>2. (RunIsExact /\ PendingIsCurrent /\ LaunchesAccounted)'
  BY DEF HarnessInv, RunIsExact, PendingIsCurrent, LaunchesAccounted
<1> QED BY <1>1, <1>2 DEF HarnessInv

(* What is left of the background run after spec_kill *)
LEMMA KilledRunType ==
    ASSUME HarnessInv
    PROVE  /\ KilledRun.run \in {NoRun, run}
           /\ KilledRun.orphans \in Nat
  BY DEF HarnessInv, TypeOK, KilledRun

LEMMA EditInv ==
    ASSUME HarnessInv, NEW kind \in {"modified", "created", "other", "hidden"},
           NEW ok \in BOOLEAN, Edit(kind, ok)
    PROVE  HarnessInv'
<1> DEFINE killed == IF pending = None THEN [run |-> run, orphans |-> orphans] ELSE KilledRun
           target == IF ok /\ shown' # fp THEN Target(kind) ELSE None
<1>1. killed.run \in {NoRun, run} /\ killed.orphans \in Nat
  BY KilledRunType DEF HarnessInv, TypeOK
<1>2. target \in Tests \cup {None}
  BY SpeculationAssumption
  DEF HarnessInv, TypeOK, Target, LiveTarget, ReplayTarget, ModalTarget
<1>3. /\ pending' = target /\ orphans' = killed.orphans
      /\ run' = IF target = None THEN killed.run ELSE Started(target)
      /\ launches' = IF target = None THEN launches ELSE launches + 1
  BY DEF Edit
<1> HIDE DEF killed, target
<1>4. TypeOK'
  <2>1. tree' \in Nat /\ shown' \in 0 .. tree' /\ fp' \in 0 .. shown'
    BY DEF Edit, Edited, HarnessInv, TypeOK
  <2>2. run' \in {NoRun} \cup [cmd : Tests, from : Nat, done : BOOLEAN,
                               result : Results \cup {None}]
    BY <1>1, <1>2, <1>3, <2>1 DEF Started, HarnessInv, TypeOK
  <2>3. calls' \in Nat /\ seen' \in Results
    BY DEF Edit, Returns, Result, Results, HarnessInv, TypeOK
  <2>4. launches' \in Nat /\ misses' \in Nat
    BY <1>3 DEF Edit, Missed, HarnessInv, TypeOK
  <2> QED
    BY <1>1, <1>2, <1>3, <2>1, <2>2, <2>3, <2>4 DEF Edit, HarnessInv, TypeOK
<1>5. RunIsExact'
  BY <1>1, <1>3 DEF HarnessInv, RunIsExact, Started
<1>6. PendingIsCurrent'
  BY <1>2, <1>3, SpeculationAssumption
  DEF Edit, Started, NoRun, HarnessInv, PendingIsCurrent
<1>7. LaunchesAccounted'
  BY <1>3 DEF Edit, Calling, Missed, HarnessInv, TypeOK, LaunchesAccounted
<1> QED BY <1>4, <1>5, <1>6, <1>7 DEF HarnessInv, Edit, Calling

LEMMA RunTestInv ==
    ASSUME HarnessInv, NEW t \in Tests, RunTest(t)
    PROVE  HarnessInv'
<1> DEFINE killed == IF pending = None THEN [run |-> run, orphans |-> orphans] ELSE KilledRun
<1>1. killed.run \in {NoRun, run} /\ killed.orphans \in Nat
  BY KilledRunType DEF HarnessInv, TypeOK
<1>2. run' = killed.run /\ orphans' = killed.orphans
  BY DEF RunTest
<1> HIDE DEF killed
<1>3. TypeOK'
  <2>1. calls' \in Nat /\ seen' \in Results
    BY DEF RunTest, Returns, Exec, Result, Results, HarnessInv, TypeOK
  <2> QED BY <1>1, <1>2, <2>1 DEF RunTest, Missed, HarnessInv, TypeOK
<1>4. (RunIsExact /\ PendingIsCurrent)'
  BY <1>1, <1>2 DEF RunTest, HarnessInv, RunIsExact, PendingIsCurrent
<1>5. LaunchesAccounted'
  BY DEF RunTest, Calling, Missed, HarnessInv, TypeOK, LaunchesAccounted
<1> QED BY <1>3, <1>4, <1>5 DEF HarnessInv, RunTest, Calling

LEMMA AskPendingInv ==
    ASSUME HarnessInv, NEW t \in Tests, AskPending(t)
    PROVE  HarnessInv'
  BY SpeculationAssumption
  DEF AskPending, Calling, counters, HarnessInv, TypeOK, RunIsExact, PendingIsCurrent,
      LaunchesAccounted, NoTask

LEMMA EndInv == HarnessInv /\ End => HarnessInv'
<1> SUFFICES ASSUME HarnessInv, End PROVE HarnessInv'
  OBVIOUS
<1>1. run' \in {NoRun, run} /\ orphans' \in Nat
  BY KilledRunType DEF End, HarnessInv, TypeOK
<1>2. TypeOK'
  BY <1>1 DEF End, Missed, HarnessInv, TypeOK
<1>3. (RunIsExact /\ PendingIsCurrent)'
  BY <1>1 DEF End, HarnessInv, RunIsExact, PendingIsCurrent
<1>4. LaunchesAccounted'
  BY DEF End, Missed, HarnessInv, TypeOK, LaunchesAccounted
<1> QED BY <1>2, <1>3, <1>4 DEF HarnessInv, End

LEMMA RunEndsInv == HarnessInv /\ RunEnds => HarnessInv'
<1> SUFFICES ASSUME HarnessInv, RunEnds PROVE HarnessInv'
  OBVIOUS
<1>1. run \in [cmd : Tests, from : Nat, done : BOOLEAN, result : Results \cup {None}]
  BY DEF RunEnds, Executing, HarnessInv, TypeOK
<1>2. /\ run'.cmd = run.cmd /\ run'.from = run.from /\ run'.done = TRUE
      /\ run'.result = Result(run.cmd, On(run.from, tree), run.cmd \in Slow)
      /\ run' \in [cmd : Tests, from : Nat, done : BOOLEAN, result : Results]
  <2>1. Result(run.cmd, On(run.from, tree), run.cmd \in Slow) \in Results
    BY <1>1 DEF Result, Results, On, HarnessInv, TypeOK
  <2> QED BY <1>1, <2>1 DEF RunEnds
<1>3. TypeOK'
  BY <1>2 DEF RunEnds, counters, HarnessInv, TypeOK
<1>4. RunIsExact'
  BY <1>2 DEF RunIsExact, Result
<1>5. PendingIsCurrent'
  <2>1. run' # NoRun
    BY <1>2, SpeculationAssumption DEF NoRun
  <2> QED
    BY <1>2, <2>1 DEF RunEnds, counters, HarnessInv, PendingIsCurrent, On, Result
<1>6. LaunchesAccounted'
  BY DEF RunEnds, counters, HarnessInv, LaunchesAccounted
<1>7. pc # "none"
  BY DEF HarnessInv, NoTask, RunEnds, Executing
<1> QED BY <1>3, <1>4, <1>5, <1>6, <1>7 DEF HarnessInv, RunEnds

LEMMA OrphanEndsInv == HarnessInv /\ OrphanEnds => HarnessInv'
  BY DEF OrphanEnds, counters, HarnessInv, TypeOK, RunIsExact, PendingIsCurrent,
         LaunchesAccounted, NoTask

(* Whatever way a wait ends, what is served is the pending test's result   *)
(* on the current tree, cut only if the test is slow; and the validation   *)
(* run of replay.py gives the same                                         *)
LEMMA ServeInv ==
    ASSUME HarnessInv, pc = "wait", NEW result, Serve(result),
           result = Result(pending, tree, pending \in Slow),
           run' \in {NoRun, run}, orphans' \in Nat,
           UNCHANGED <<harness, tree, shown, launches, misses>>
    PROVE  HarnessInv'
<1>1. pending \in Tests
  BY WaitedForIsCurrent
<1>2. result \in Results
  BY <1>1 DEF Result, Results, HarnessInv, TypeOK
<1>3. CASE harness # "replay"
  <2>1. seen' = result /\ calls' = calls + 1 /\ mismatches' = mismatches
    BY <1>3 DEF Serve, LiveHit, ReplayHit, Returns
  <2>2. TypeOK'
    BY <1>1, <1>2, <2>1 DEF Serve, HarnessInv, TypeOK
  <2> QED
    BY <1>1, <2>1, <2>2 DEF Serve, HarnessInv, TypeOK, RunIsExact, PendingIsCurrent, LaunchesAccounted
<1>4. CASE harness = "replay"
  <2>1. Exec(pending) = result
    BY <1>4 DEF Exec
  <2>2. seen' = result /\ calls' = calls + 1 /\ mismatches' = mismatches
    BY <1>4, <2>1 DEF Serve, LiveHit, ReplayHit, Returns
  <2>3. TypeOK'
    BY <1>1, <1>2, <2>2 DEF Serve, HarnessInv, TypeOK
  <2> QED
    BY <1>1, <2>2, <2>3 DEF Serve, HarnessInv, TypeOK, RunIsExact, PendingIsCurrent, LaunchesAccounted
<1> QED BY <1>3, <1>4

LEMMA ServedResult ==
    ASSUME HarnessInv, Served
    PROVE  pc = "wait" /\ run.result = Result(pending, tree, pending \in Slow)
  BY WaitedForIsCurrent DEF Served

LEMMA TimeoutResult ==
    ASSUME HarnessInv, WaitTimesOut
    PROVE  /\ pc = "wait" /\ pending \in Slow
           /\ Result(run.cmd, On(run.from, tree), TRUE) = Result(pending, tree, pending \in Slow)
  BY WaitedForIsCurrent DEF WaitTimesOut, Result

LEMMA BackgroundInv == HarnessInv /\ Background => HarnessInv'
<1> SUFFICES ASSUME HarnessInv, Background PROVE HarnessInv'
  OBVIOUS
<1>1. CASE Served
  BY <1>1, ServedResult, ServeInv DEF Served, HarnessInv, TypeOK
<1>2. CASE WaitTimesOut
  <2>1. run' \in {NoRun, run} /\ orphans' \in Nat
    BY <1>2, KilledRunType DEF WaitTimesOut
  <2> QED BY <1>2, <2>1, TimeoutResult, ServeInv DEF WaitTimesOut
<1> QED BY <1>1, <1>2, RunEndsInv, OrphanEndsInv DEF Background

LEMMA ModelCallsInv == HarnessInv /\ ModelCalls => HarnessInv'
  BY ReadInv, EditInv, RunTestInv, AskPendingInv, EndInv DEF ModelCalls

LEMMA BootInv == HarnessInv /\ Boot => HarnessInv'
  BY DEF Boot, NoTask, counters, HarnessInv, TypeOK, RunIsExact, PendingIsCurrent,
         LaunchesAccounted

-----------------------------------------------------------------------------
(* The batch *)

LEMMA RaisesClose == Raises => Close
  BY DEF Raises, Leave

(* What a step of the batch does to the harness *)
LEMMA HarnessSteps ==
    [RunnerNext]_allvars => Boot \/ ModelCalls \/ Background \/ Close \/ UNCHANGED vars
<1> SUFFICES ASSUME [RunnerNext]_allvars
             PROVE  Boot \/ ModelCalls \/ Background \/ Close \/ UNCHANGED vars
  OBVIOUS
<1>1. CASE StartTask
  BY <1>1 DEF StartTask
<1>2. CASE ModelAnswers
  BY <1>2 DEF ModelAnswers
<1>3. CASE InSandbox
  BY <1>3 DEF InSandbox
<1>4. CASE TaskEnds \/ TaskFails \/ ChatFails \/ Crash
  BY <1>4, RaisesClose DEF TaskEnds, Leave, TaskFails, ChatFails, Crash
<1>5. CASE StartRun \/ WaitForServer \/ AppendRecord \/ RunEndsAll
  BY <1>5 DEF StartRun, WaitForServer, AppendRecord, RunEndsAll
<1>6. CASE StartGrade \/ GradeOne \/ GradeEnds
  BY <1>6 DEF StartGrade, GradeOne, GradeEnds
<1>7. CASE UNCHANGED allvars
  BY <1>7 DEF allvars
<1> QED BY <1>1, <1>2, <1>3, <1>4, <1>5, <1>6, <1>7 DEF RunnerNext

LEMMA HarnessInvNext == HarnessInv /\ [RunnerNext]_allvars => HarnessInv'
  BY HarnessSteps, BootInv, ModelCallsInv, BackgroundInv, CloseInv, StutterInv

LEMMA HarnessInvHolds == RunnerSpec => []HarnessInv
  BY HarnessInvInit, HarnessInvNext, PTL DEF RunnerSpec

(* The run a harness waits for is the one it launched last, on the tree as *)
(* it still is, whatever was killed, orphaned or edited unseen before      *)
(* (spec_start, spec_kill, run_task)                                       *)
THEOREM NothingStalePends == RunnerSpec => []PendingIsCurrent
<1>1. HarnessInv => PendingIsCurrent
  BY DEF HarnessInv
<1> QED BY <1>1, HarnessInvHolds, PTL

(* Every launch ends as a hit or a miss or is still pending (spec_events)  *)
THEOREM EveryLaunchCounts == RunnerSpec => []LaunchesAccounted
<1>1. HarnessInv => LaunchesAccounted
  BY DEF HarnessInv
<1> QED BY <1>1, HarnessInvHolds, PTL

-----------------------------------------------------------------------------
(* The refinement *)

plainvars == <<tree, calls, seen>>

LEMMA ServesPlainly ==
    ASSUME HarnessInv, pc = "wait", NEW result, Serve(result),
           result = Result(pending, tree, pending \in Slow), UNCHANGED tree
    PROVE  Plain!RunTest(pending)
<1>1. seen' = result /\ calls' = calls + 1
  BY DEF Serve, LiveHit, ReplayHit, Returns, Exec
<1>2. (pending \in Slow) \in BOOLEAN
  OBVIOUS
<1> QED BY <1>1, <1>2 DEF Plain!RunTest, Plain!Returns, Plain!Result, Result

LEMMA PlainStep ==
    HarnessInv /\ [RunnerNext]_allvars => [Plain!PlainNext]_plainvars
<1> SUFFICES ASSUME HarnessInv, [RunnerNext]_allvars
             PROVE  [Plain!PlainNext]_plainvars
  OBVIOUS
<1> USE DEF plainvars
<1>1. CASE Read
  BY <1>1 DEF Read, Returns, Result, Plain!PlainNext, Plain!Look, Plain!Returns, Plain!Result
<1>2. ASSUME NEW kind \in {"modified", "created", "other", "hidden"}, NEW ok \in BOOLEAN,
             Edit(kind, ok)
      PROVE  [Plain!PlainNext]_plainvars
  BY <1>2
  DEF Edit, Edited, Returns, Result, Plain!PlainNext, Plain!Edit, Plain!Returns, Plain!Result
<1>3. ASSUME NEW t \in Tests, RunTest(t) PROVE [Plain!PlainNext]_plainvars
  <2>1. Plain!RunTest(t)
    BY <1>3 DEF RunTest, Exec, Returns, Result, Plain!RunTest, Plain!Returns, Plain!Result
  <2> QED BY <2>1 DEF Plain!PlainNext
<1>4. ASSUME NEW t \in Tests, AskPending(t) PROVE [Plain!PlainNext]_plainvars
  BY <1>4 DEF AskPending
<1>5. CASE Served
  <2>1. Plain!RunTest(pending) /\ pending \in Tests
    BY <1>5, ServedResult, ServesPlainly, WaitedForIsCurrent DEF Served
  <2> QED BY <2>1 DEF Plain!PlainNext
<1>6. CASE WaitTimesOut
  <2>1. Plain!RunTest(pending) /\ pending \in Tests
    BY <1>6, TimeoutResult, ServesPlainly, WaitedForIsCurrent DEF WaitTimesOut
  <2> QED BY <2>1 DEF Plain!PlainNext
<1>7. CASE End \/ RunEnds \/ OrphanEnds \/ Boot \/ UNCHANGED vars
  BY <1>7 DEF End, RunEnds, OrphanEnds, Boot, vars
<1>8. CASE Close
  BY <1>8 DEF Close, Plain!PlainNext, Plain!NewTask
<1> QED
  BY <1>1, <1>2, <1>3, <1>4, <1>5, <1>6, <1>7, <1>8, HarnessSteps DEF ModelCalls, Background

(* The model cannot tell a speculating harness from a plain one: what it   *)
(* is shown, hits, misses, time limits and failures included, a plain      *)
(* harness shows it (run_task, replay_session)                             *)
THEOREM ModelCannotTell == RunnerSpec => SpeculationIsInvisible
<1>1. RunnerInit => Plain!PlainInit
  BY DEF RunnerInit, NoTask, Plain!PlainInit
<1>2. HarnessInv /\ [RunnerNext]_allvars => [Plain!PlainNext]_<<tree, calls, seen>>
  BY PlainStep DEF plainvars
<1> QED
  BY <1>1, <1>2, HarnessInvHolds, PTL DEF RunnerSpec, SpeculationIsInvisible, Plain!PlainSpec

-----------------------------------------------------------------------------
(* The out file *)

Grade == {None, "resolved", "unresolved"}
Rec == [id : Range(Tasks), error : BOOLEAN, patch : BOOLEAN, grade : Grade]

(* A record may have got a grade since *)
Keeps(old, new) ==
    /\ new = [old EXCEPT !.grade = new.grade]
    /\ old.grade # None => new = old

(* A file is a sequence of records and torn lines, the last of them torn   *)
(* when the next append continues it.  The sandbox is open for the current *)
(* task, and what is graded are the records of the file, place by place.   *)
FileInv ==
    /\ file \in Seq(Rec \cup {Unparsable}) /\ finished \in Seq(Rec)
    /\ current \in Range(Tasks) \cup {None}
    /\ (current = None) <=> (pc = "none")
    /\ todo \subseteq DOMAIN Tasks
    /\ ragged => Len(file) > 0 /\ file[Len(file)] = Unparsable
    /\ mode = "grade" =>
          /\ recs \in Seq(Rec) /\ Len(recs) = Len(file) /\ Parsable(file) = DOMAIN file
          /\ \A i \in DOMAIN file : Keeps(file[i], recs[i])

(* No task is in two places: recorded, waiting to be, in the sandbox, or   *)
(* still to start; and none is on its way while no process runs.           *)
Waiting == {finished[i].id : i \in DOMAIN finished}
Ahead == {Tasks[i] : i \in todo}

RecordedOnce == \A i, j \in Parsable(file) : file[i].id = file[j].id => i = j

BatchInv ==
    harness # "live" =>
        /\ mode # "run" => current = None /\ finished = <<>>
        /\ mode \notin {"wait", "run"} => todo = {}
        /\ RecordedOnce
        /\ \A i, j \in DOMAIN finished : finished[i].id = finished[j].id => i = j
        /\ Recorded(file) \cap (Waiting \cup {current} \cup Ahead) = {}
        /\ Waiting \cap ({current} \cup Ahead) = {}
        /\ current \notin Ahead

LEMMA RecordIsARec ==
    ASSUME NEW id \in Range(Tasks), NEW error \in BOOLEAN, NEW patch \in BOOLEAN
    PROVE  Record(id, error, patch) \in Rec /\ Record(id, error, patch).id = id
  BY DEF Record, Rec, Grade

LEMMA RecsAreParsable ==
    /\ \A r \in Rec : r # Unparsable /\ r.id \in Range(Tasks) /\ r.id # None
    /\ None \notin Range(Tasks) /\ \A i \in DOMAIN Tasks : Tasks[i] \in Range(Tasks)
<1>1. None \notin Range(Tasks) /\ \A i \in DOMAIN Tasks : Tasks[i] \in Range(Tasks)
  BY RunnerAssumption DEF Range
<1>2. ASSUME NEW r \in Rec PROVE r # Unparsable /\ r.id \in Range(Tasks)
  <2>1. DOMAIN r = {"id", "error", "patch", "grade"} /\ r.id \in Range(Tasks)
    BY DEF Rec
  <2>2. DOMAIN Unparsable = {"id"}
    BY DEF Unparsable
  <2> QED BY <2>1, <2>2
<1> QED BY <1>1, <1>2

(* The parsable lines of a file are its records *)
LEMMA ParsableLines ==
    ASSUME NEW f \in Seq(Rec \cup {Unparsable})
    PROVE  /\ Parsable(f) \subseteq DOMAIN f
           /\ \A i \in DOMAIN f : i \in Parsable(f) <=> f[i] \in Rec
           /\ Recorded(f) \subseteq Range(Tasks)
  BY RecsAreParsable DEF Parsable, Recorded

(* An append loses no record: it adds its line, or makes the torn last     *)
(* line longer, which stays unparsable.                                    *)
LEMMA AppendedKeeps ==
    ASSUME FileInv, NEW line \in Rec \cup {Unparsable}, NEW f, f = Appended(line)
    PROVE  /\ f \in Seq(Rec \cup {Unparsable}) /\ Len(f) > 0
           /\ \A i \in Parsable(file) : i \in Parsable(f) /\ f[i] = file[i]
           /\ \A i \in Parsable(f) : i \in Parsable(file) \/ (i = Len(file) + 1 /\ f[i] = line)
           /\ ragged \/ line = Unparsable => f[Len(f)] = Unparsable
<1>1. file \in Seq(Rec \cup {Unparsable}) /\ Len(file) \in Nat
  BY DEF FileInv
<1>2. CASE ragged
  <2>1. Len(file) > 0 /\ file[Len(file)] = Unparsable /\ Len(file) \in DOMAIN file
    BY <1>1, <1>2 DEF FileInv
  <2>2. f = [file EXCEPT ![Len(file)] = Unparsable]
    BY <1>2 DEF Appended
  <2>3. f = file
    BY <1>1, <2>1, <2>2
  <2> QED BY <1>1, <2>1, <2>3
<1>3. CASE ~ragged
  <2>1. f = Append(file, line)
    BY <1>3 DEF Appended
  <2>2. /\ f \in Seq(Rec \cup {Unparsable}) /\ Len(f) = Len(file) + 1
        /\ f[Len(file) + 1] = line /\ \A i \in 1 .. Len(file) : f[i] = file[i]
    BY <1>1, <2>1
  <2>3. DOMAIN file = 1 .. Len(file) /\ DOMAIN f = 1 .. Len(file) + 1
    BY <1>1, <2>2
  <2> QED BY <1>1, <1>3, <2>2, <2>3 DEF Parsable
<1> QED BY <1>2, <1>3

LEMMA FileInvInit == RunnerInit => FileInv /\ BatchInv
<1> SUFFICES ASSUME RunnerInit PROVE FileInv /\ BatchInv
  OBVIOUS
<1>1. /\ file = <<>> /\ finished = <<>> /\ todo = {} /\ current = None /\ ~ragged
      /\ mode = "down" /\ pc = "none"
  BY DEF RunnerInit, NoTask
<1>2. Parsable(file) = {} /\ DOMAIN finished = {}
  BY <1>1 DEF Parsable
<1> QED BY <1>1, <1>2 DEF FileInv, BatchInv, RecordedOnce, Recorded, Waiting, Ahead

(* A step in a sandbox neither opens nor closes it *)
LEMMA SandboxStays ==
    ASSUME ModelCalls \/ Background PROVE (pc' = "none") <=> (pc = "none")
<1>1. CASE Read \/ \E kind \in {"modified", "created", "other", "hidden"}, ok \in BOOLEAN : Edit(kind, ok)
  BY <1>1 DEF Read, Edit, Calling
<1>2. CASE \E t \in Tests : RunTest(t) \/ AskPending(t)
  BY <1>2 DEF RunTest, AskPending, Calling
<1>3. CASE End \/ Served \/ WaitTimesOut
  BY <1>3 DEF End, Served, WaitTimesOut, Serve
<1>4. CASE RunEnds \/ OrphanEnds
  BY <1>4 DEF RunEnds, OrphanEnds
<1> QED BY <1>1, <1>2, <1>3, <1>4 DEF ModelCalls, Background

(* The task that leaves the sandbox leaves a record of its own *)
LEMMA LeaveInv ==
    ASSUME FileInv, current # None, NEW error \in BOOLEAN, NEW patch \in BOOLEAN,
           Leave(Record(current, error, patch))
    PROVE  /\ FileInv'
           /\ finished' = Append(finished, Record(current, error, patch))
           /\ UNCHANGED <<mode, todo, file, ragged, recs>> /\ current' = None
<1>1. current \in Range(Tasks)
  BY DEF FileInv
<1>2. Record(current, error, patch) \in Rec
  BY <1>1, RecordIsARec
<1>3. finished' \in Seq(Rec)
  BY <1>2 DEF FileInv, Leave
<1>4. pc' = "none"
  BY DEF Leave, Close
<1> QED BY <1>3, <1>4 DEF FileInv, Leave

LEMMA RaisesInv ==
    ASSUME FileInv, current # None, Raises
    PROVE  /\ FileInv' /\ UNCHANGED <<file, ragged>> /\ current' = None
           /\ harness # "live" =>
                 /\ finished' = Append(finished, Record(current, TRUE, FALSE))
                 /\ UNCHANGED <<mode, todo, file>>
<1>1. CASE harness = "live"
  <2>1. pc' = "none"
    BY <1>1 DEF Raises, Close
  <2> QED BY <1>1, <2>1 DEF Raises, FileInv
<1>2. CASE harness # "live"
  <2>1. Leave(Record(current, TRUE, FALSE))
    BY <1>2 DEF Raises
  <2> QED BY <1>2, <2>1, LeaveInv
<1> QED BY <1>1, <1>2

(* Every line that could be parsed has its place in the file after a step *)
LinesStay == \A i \in Parsable(file) : \E j \in Parsable(file') : Keeps(file[i], file'[j])

LEMMA UnchangedLinesStay ==
    ASSUME FileInv, UNCHANGED file PROVE LinesStay
<1>1. \A i \in Parsable(file) : file[i] \in Rec
  BY ParsableLines DEF FileInv
<1>2. \A r \in Rec : Keeps(r, r)
  BY DEF Keeps, Rec
<1> QED BY <1>1, <1>2 DEF LinesStay

LEMMA AppendKeepsLines ==
    ASSUME FileInv, NEW line \in Rec \cup {Unparsable}, file' = Appended(line)
    PROVE  LinesStay
<1>1. \A i \in Parsable(file) : i \in Parsable(file') /\ file'[i] = file[i]
  BY AppendedKeeps
<1>2. \A i \in Parsable(file) : file[i] \in Rec
  BY ParsableLines DEF FileInv
<1>3. \A r \in Rec : Keeps(r, r)
  BY DEF Keeps, Rec
<1> QED BY <1>1, <1>2, <1>3 DEF LinesStay

LEMMA AppendRecordInv ==
    ASSUME FileInv, AppendRecord PROVE FileInv' /\ LinesStay
<1>1. Head(finished) \in Rec /\ Tail(finished) \in Seq(Rec)
  BY DEF AppendRecord, FileInv
<1>2. file' \in Seq(Rec \cup {Unparsable}) /\ LinesStay
  BY <1>1, AppendedKeeps, AppendKeepsLines DEF AppendRecord
<1>3. ~ragged' /\ mode' = "run" /\ UNCHANGED <<current, todo, pc>>
  BY DEF AppendRecord, vars
<1> QED BY <1>1, <1>2, <1>3 DEF AppendRecord, FileInv

LEMMA CrashInv ==
    ASSUME FileInv, Crash PROVE FileInv' /\ LinesStay
<1>1. /\ pc' = "none" /\ mode' = "down" /\ current' = None /\ todo' = {}
      /\ finished' = <<>>
  BY DEF Crash, Close
<1>2. CASE UNCHANGED <<file, ragged>>
  BY <1>1, <1>2, UnchangedLinesStay DEF FileInv
<1>3. CASE file' = Appended(Unparsable) /\ ragged'
  <2>1. file' \in Seq(Rec \cup {Unparsable}) /\ Len(file') > 0 /\ file'[Len(file')] = Unparsable
        /\ LinesStay
    BY <1>3, AppendedKeeps, AppendKeepsLines
  <2> QED BY <1>1, <1>3, <2>1 DEF FileInv
<1> QED BY <1>2, <1>3 DEF Crash

(* What the grader writes in place of the file *)
LEMMA GradeEndsInv ==
    ASSUME FileInv, GradeEnds
    PROVE  /\ FileInv' /\ LinesStay
           /\ Parsable(file) = DOMAIN file /\ DOMAIN file' = DOMAIN file
           /\ \A i \in DOMAIN file : file[i] \in Rec /\ file'[i] \in Rec /\ file'[i].id = file[i].id
<1> DEFINE graded(r) == IF r.grade = None THEN [r EXCEPT !.grade = "unresolved"] ELSE r
<1>1. /\ recs \in Seq(Rec) /\ Len(recs) = Len(file) /\ Parsable(file) = DOMAIN file
      /\ \A i \in DOMAIN file : Keeps(file[i], recs[i])
      /\ file \in Seq(Rec \cup {Unparsable})
  BY DEF FileInv, GradeEnds
<1>2. DOMAIN recs = DOMAIN file /\ DOMAIN file = 1 .. Len(file) /\ Len(file) \in Nat
  BY <1>1
<1>3. file' = [i \in 1 .. Len(file) |-> graded(recs[i])]
  BY <1>2 DEF GradeEnds
<1>4. \A r \in Rec : graded(r) \in Rec /\ graded(r).id = r.id /\ graded(r) # Unparsable
  <2>1. \A r \in Rec : graded(r) \in Rec /\ graded(r).id = r.id
    BY DEF Rec, Grade
  <2> QED BY <2>1, RecsAreParsable
<1>5. \A i \in DOMAIN file : recs[i] \in Rec /\ file[i] \in Rec
  BY <1>1, <1>2, ParsableLines
<1>6. \A old, new \in Rec : Keeps(old, new) => Keeps(old, graded(new)) /\ new.id = old.id
  BY DEF Keeps, Rec, Grade
<1>7. \A i \in DOMAIN file :
         file'[i] \in Rec /\ file'[i].id = file[i].id /\ Keeps(file[i], file'[i])
  <2> HIDE DEF graded
  <2> QED BY <1>1, <1>2, <1>3, <1>4, <1>5, <1>6
<1>8. file' \in Seq(Rec) /\ Len(file') = Len(file) /\ DOMAIN file' = DOMAIN file
  <2> HIDE DEF graded
  <2>1. file' \in [1 .. Len(file) -> Rec]
    BY <1>2, <1>3, <1>7
  <2> QED BY <1>2, <2>1
<1>9. \A i \in DOMAIN file : i \in Parsable(file')
  BY <1>7, <1>8, RecsAreParsable DEF Parsable
<1>10. LinesStay
  BY <1>1, <1>7, <1>9 DEF LinesStay
<1>11. ~ragged
  <2>1. \A i \in DOMAIN file : file[i] # Unparsable
    BY <1>5, RecsAreParsable
  <2> QED BY <1>2, <2>1 DEF FileInv
<1>12. mode' = "down" /\ UNCHANGED <<ragged, current, todo, finished, pc>>
  BY DEF GradeEnds, vars
<1>13. file' \in Seq(Rec \cup {Unparsable})
  BY <1>8
<1>14. FileInv'
  BY <1>11, <1>12, <1>13 DEF FileInv
<1> QED BY <1>1, <1>5, <1>7, <1>8, <1>10, <1>14

LEMMA GradingInv ==
    ASSUME FileInv, StartGrade \/ GradeOne PROVE FileInv'
<1>1. CASE StartGrade
  <2>1. recs' = file /\ Parsable(file) = DOMAIN file /\ file \in Seq(Rec \cup {Unparsable})
        /\ UNCHANGED <<current, todo, finished, file, ragged, pc>>
    BY <1>1 DEF StartGrade, FileInv, vars
  <2>2. Len(file) \in Nat /\ DOMAIN file = 1 .. Len(file) /\ \A i \in DOMAIN file : file[i] \in Rec
    BY <2>1, ParsableLines
  <2>3. file \in Seq(Rec)
    BY <2>1, <2>2
  <2>4. \A r \in Rec : Keeps(r, r)
    BY DEF Keeps, Rec
  <2> QED BY <2>1, <2>2, <2>3, <2>4 DEF FileInv
<1>2. CASE GradeOne
  <2>1. PICK i \in DOMAIN recs, g \in Grade :
           recs[i].grade = None /\ recs' = [recs EXCEPT ![i].grade = g]
    BY <1>2 DEF GradeOne, Grades, Grade
  <2>2. /\ recs \in Seq(Rec) /\ Len(recs) = Len(file)
        /\ \A j \in DOMAIN file : Keeps(file[j], recs[j])
        /\ Parsable(file) = DOMAIN file /\ file \in Seq(Rec \cup {Unparsable})
        /\ UNCHANGED <<mode, current, todo, finished, file, ragged, pc>>
    BY <1>2 DEF GradeOne, FileInv, vars
  <2>3. \A r \in Rec : [r EXCEPT !.grade = g] \in Rec
    BY DEF Rec
  <2>4. recs' \in Seq(Rec) /\ Len(recs') = Len(recs)
    BY <2>1, <2>2, <2>3
  <2>5. \A old, new \in Rec :
           Keeps(old, new) /\ new.grade = None => Keeps(old, [new EXCEPT !.grade = g])
    BY DEF Keeps, Rec
  <2>6. DOMAIN recs = DOMAIN file /\ \A j \in DOMAIN file : file[j] \in Rec /\ recs[j] \in Rec
    BY <2>2, ParsableLines
  <2>7. \A j \in DOMAIN file : Keeps(file[j], recs'[j])
    <3> TAKE j \in DOMAIN file
    <3>1. recs'[j] = IF j = i THEN [recs[j] EXCEPT !.grade = g] ELSE recs[j]
      BY <2>1, <2>6
    <3> QED BY <2>1, <2>2, <2>5, <2>6, <3>1
  <2> QED BY <2>2, <2>4, <2>7 DEF FileInv
<1> QED BY <1>1, <1>2

LEMMA FileInvNext == FileInv /\ [RunnerNext]_allvars => FileInv' /\ LinesStay
<1> SUFFICES ASSUME FileInv, [RunnerNext]_allvars PROVE FileInv' /\ LinesStay
  OBVIOUS
<1>1. CASE StartRun
  <2>1. /\ mode' \in {"wait", "run"} /\ todo' \subseteq DOMAIN Tasks
        /\ UNCHANGED <<current, finished, file, ragged, pc>>
    BY <1>1 DEF StartRun, vars
  <2> QED BY <2>1, UnchangedLinesStay DEF FileInv
<1>2. CASE WaitForServer
  <2>1. /\ mode' \in {"run", "down"} /\ todo' \in {todo, {}}
        /\ UNCHANGED <<current, finished, file, ragged, pc>>
    BY <1>2 DEF WaitForServer, vars
  <2> QED BY <2>1, UnchangedLinesStay DEF FileInv
<1>3. CASE StartTask
  <2>1. PICK i \in todo : current' = Tasks[i] /\ todo' = todo \ {i}
    BY <1>3 DEF StartTask
  <2>2. current' \in Range(Tasks) /\ current' # None
    BY <2>1, RecsAreParsable DEF FileInv
  <2>3. mode' = "run" /\ pc' # "none" /\ UNCHANGED <<finished, file, ragged>>
    BY <1>3 DEF StartTask, Boot
  <2> QED BY <2>1, <2>2, <2>3, UnchangedLinesStay DEF FileInv
<1>4. CASE ModelAnswers \/ InSandbox
  <2>1. (pc' = "none") <=> (pc = "none")
    BY <1>4, SandboxStays DEF ModelAnswers, InSandbox
  <2>2. UNCHANGED <<mode, todo, current, finished, file, ragged, recs>>
    BY <1>4 DEF ModelAnswers, InSandbox, runner
  <2> QED BY <2>1, <2>2, UnchangedLinesStay DEF FileInv
<1>5. CASE TaskEnds
  <2>1. current # None /\ (tree > 0) \in BOOLEAN
    BY <1>5 DEF TaskEnds, FileInv
  <2>2. FileInv' /\ UNCHANGED file
    BY <1>5, <2>1, LeaveInv DEF TaskEnds
  <2> QED BY <2>2, UnchangedLinesStay
<1>6. CASE TaskFails
  <2>1. current # None /\ Raises
    BY <1>6 DEF TaskFails, FileInv
  <2> QED BY <2>1, RaisesInv, UnchangedLinesStay
<1>7. CASE ChatFails
  <2>1. current # None
    BY <1>7 DEF ChatFails, FileInv
  <2>2. CASE Raises
    BY <2>1, <2>2, RaisesInv, UnchangedLinesStay
  <2>3. CASE UNCHANGED <<vars, mode, todo, current, finished, file, ragged, recs, starts>>
    BY <2>3, UnchangedLinesStay DEF FileInv, vars
  <2> QED BY <1>7, <2>2, <2>3 DEF ChatFails
<1>8. CASE RunEndsAll
  BY <1>8, UnchangedLinesStay DEF RunEndsAll, FileInv, vars
<1>9. CASE UNCHANGED allvars
  BY <1>9, UnchangedLinesStay DEF allvars, runner, vars, FileInv
<1>10. CASE StartGrade \/ GradeOne
  <2>1. UNCHANGED file
    BY <1>10 DEF StartGrade, GradeOne
  <2> QED BY <1>10, <2>1, GradingInv, UnchangedLinesStay
<1> QED
  BY <1>1, <1>2, <1>3, <1>4, <1>5, <1>6, <1>7, <1>8, <1>9, <1>10,
     AppendRecordInv, CrashInv, GradeEndsInv DEF RunnerNext

-----------------------------------------------------------------------------
(* A task is recorded once, if the batch names it once *)

TasksDiffer == \A i, j \in DOMAIN Tasks : Tasks[i] = Tasks[j] => i = j

(* Nothing on its way: no process runs a task *)
LEMMA NoneIsNoTask ==
    ASSUME FileInv
    PROVE  /\ Recorded(file) \subseteq Range(Tasks) /\ Waiting \subseteq Range(Tasks)
           /\ Ahead \subseteq Range(Tasks) /\ None \notin Range(Tasks)
<1>1. Recorded(file) \subseteq Range(Tasks)
  BY ParsableLines DEF FileInv
<1>2. \A i \in DOMAIN finished : finished[i] \in Rec
  BY DEF FileInv
<1> QED BY <1>1, <1>2, RecsAreParsable DEF FileInv, Waiting, Ahead

LEMMA StandingBatchInv ==
    ASSUME BatchInv, UNCHANGED <<harness, mode, todo, current, finished, file>>
    PROVE  BatchInv'
<1>1. /\ RecordedOnce' = RecordedOnce /\ Recorded(file') = Recorded(file)
      /\ Waiting' = Waiting /\ Ahead' = Ahead
  BY DEF RecordedOnce, Recorded, Parsable, Waiting, Ahead
<1> QED BY <1>1 DEF BatchInv

(* The task that leaves the sandbox waits to be recorded *)
LEMMA LeaveBatchInv ==
    ASSUME FileInv, BatchInv, harness # "live", current # None, NEW rec \in Rec, rec.id = current,
           finished' = Append(finished, rec), current' = None,
           UNCHANGED <<harness, mode, todo, file>>
    PROVE  BatchInv'
<1>1. /\ finished \in Seq(Rec) /\ mode = "run"
      /\ \A i, j \in DOMAIN finished : finished[i].id = finished[j].id => i = j
      /\ \A i \in DOMAIN finished : finished[i].id # current
  BY DEF FileInv, BatchInv, Waiting
<1>2. /\ DOMAIN finished' = DOMAIN finished \cup {Len(finished) + 1}
      /\ finished'[Len(finished) + 1] = rec
      /\ \A i \in DOMAIN finished : finished'[i] = finished[i]
  BY <1>1
<1>3. \A i, j \in DOMAIN finished' : finished'[i].id = finished'[j].id => i = j
  BY <1>1, <1>2
<1>4. Waiting' = Waiting \cup {current}
  BY <1>2 DEF Waiting
<1>5. /\ Ahead' = Ahead /\ Recorded(file)' = Recorded(file) /\ RecordedOnce' = RecordedOnce
  BY DEF Ahead, Recorded, RecordedOnce, Parsable
<1> QED BY <1>1, <1>3, <1>4, <1>5, NoneIsNoTask DEF BatchInv

LEMMA AppendBatchInv ==
    ASSUME FileInv, BatchInv, AppendRecord PROVE BatchInv'
<1> SUFFICES ASSUME harness # "live" PROVE BatchInv'
  BY DEF AppendRecord, vars, BatchInv
<1> DEFINE rec == Head(finished)
<1>1. /\ finished \in Seq(Rec) /\ finished # <<>> /\ finished' = Tail(finished)
      /\ UNCHANGED <<harness, mode, todo, current>> /\ mode = "run"
  BY DEF FileInv, AppendRecord, vars
<1>2. \A i, j \in DOMAIN finished : finished[i].id = finished[j].id => i = j
  BY DEF AppendRecord, BatchInv
<1>3. /\ rec = finished[1] /\ rec \in Rec /\ 1 \in DOMAIN finished
      /\ \A i \in DOMAIN finished' : i + 1 \in DOMAIN finished /\ finished'[i] = finished[i + 1]
      /\ \A i \in DOMAIN finished' : i \in Nat \ {0}
  BY <1>1
<1>4. \A i, j \in DOMAIN finished' : finished'[i].id = finished'[j].id => i = j
  BY <1>2, <1>3
<1>5. Waiting' \subseteq Waiting \ {rec.id} /\ rec.id \in Waiting
  BY <1>2, <1>3 DEF Waiting
<1>6. \A i \in Parsable(file') : (i \in Parsable(file) /\ file'[i] = file[i])
                                 \/ (i = Len(file) + 1 /\ file'[i] = rec)
  BY <1>3, AppendedKeeps DEF AppendRecord
<1>7. Recorded(file') \subseteq Recorded(file) \cup {rec.id}
  BY <1>6 DEF Recorded
<1>8. \A i \in Parsable(file) : file[i].id # rec.id
  BY <1>5 DEF BatchInv, Recorded
<1>9. RecordedOnce'
  BY <1>6, <1>8 DEF RecordedOnce, BatchInv
<1>10. Ahead' = Ahead
  BY <1>1 DEF Ahead
<1>11. current # rec.id /\ rec.id \notin Ahead
  BY <1>5 DEF BatchInv
<1> HIDE DEF rec
<1> QED BY <1>1, <1>4, <1>5, <1>7, <1>9, <1>10, <1>11 DEF BatchInv

(* A line that is rewritten in its place, or torn, records nothing new *)
LEMMA RewriteBatchInv ==
    ASSUME BatchInv, harness # "live", FileInv',
           \A i \in Parsable(file') : i \in Parsable(file) /\ file'[i].id = file[i].id,
           mode' = "down", todo' = {}, current' = None, finished' = <<>>, UNCHANGED harness
    PROVE  BatchInv'
<1>1. RecordedOnce'
  BY DEF RecordedOnce, BatchInv
<1>2. Waiting' = {} /\ Ahead' = {} /\ DOMAIN finished' = {}
  BY DEF Waiting, Ahead
<1>3. current' \notin Recorded(file')
  <2>1. None \notin Range(Tasks) /\ Recorded(file') \subseteq Range(Tasks)
    BY ParsableLines, RecsAreParsable DEF FileInv
  <2> QED BY <2>1
<1> QED BY <1>1, <1>2, <1>3 DEF BatchInv

LEMMA HarnessStays == [RunnerNext]_allvars => harness' = harness
  BY HarnessSteps
  DEF Boot, ModelCalls, Read, Edit, RunTest, AskPending, End, Background, RunEnds, OrphanEnds,
      Served, WaitTimesOut, Close, vars

LEMMA BatchInvNext ==
    ASSUME TasksDiffer
    PROVE  HarnessInv /\ FileInv /\ FileInv' /\ BatchInv /\ [RunnerNext]_allvars => BatchInv'
<1> SUFFICES ASSUME HarnessInv, FileInv, FileInv', BatchInv, [RunnerNext]_allvars, harness' # "live"
             PROVE  BatchInv'
  BY DEF BatchInv
<1>0. harness' = harness /\ harness \in {"modal", "replay"}
  BY HarnessStays, SpeculationAssumption DEF HarnessInv, TypeOK
<1>1. CASE StartRun
  <2>1. /\ current = None /\ finished = <<>> /\ mode' \in {"wait", "run"}
        /\ UNCHANGED <<current, finished, file>>
        /\ todo' = {i \in DOMAIN Tasks : Tasks[i] \notin Recorded(file)}
    BY <1>0, <1>1 DEF StartRun, BatchInv, Done, ModalDone, ReplayDone
  <2>2. Waiting' = {} /\ Ahead' \cap Recorded(file) = {} /\ DOMAIN finished' = {}
    BY <2>1 DEF Waiting, Ahead
  <2>3. RecordedOnce' /\ Recorded(file') = Recorded(file)
    BY <1>0, <2>1 DEF BatchInv, RecordedOnce, Parsable
  <2>4. None \notin Recorded(file) /\ None \notin Ahead'
    BY NoneIsNoTask, RecsAreParsable, <2>1 DEF Ahead
  <2> QED BY <2>1, <2>2, <2>3, <2>4 DEF BatchInv
<1>2. CASE WaitForServer
  <2>1. /\ current = None /\ finished = <<>> /\ mode' \in {"run", "down"}
        /\ todo' = todo \/ (mode' = "down" /\ todo' = {})
        /\ mode' = "run" => todo' = todo
        /\ UNCHANGED <<current, finished, file>>
    BY <1>0, <1>2 DEF WaitForServer, BatchInv
  <2>2. Waiting' = {} /\ Ahead' \subseteq Ahead /\ DOMAIN finished' = {}
    BY <2>1 DEF Waiting, Ahead
  <2>3. RecordedOnce' /\ Recorded(file') = Recorded(file)
    BY <1>0, <2>1 DEF BatchInv, RecordedOnce, Parsable
  <2>4. mode' # "run" => todo' = {}
    BY <1>2 DEF WaitForServer
  <2> QED BY <1>0, <2>1, <2>2, <2>3, <2>4 DEF BatchInv
<1>3. CASE StartTask
  <2>1. PICK i \in todo : current' = Tasks[i] /\ todo' = todo \ {i}
    BY <1>3 DEF StartTask
  <2>2. mode' = "run" /\ UNCHANGED <<finished, file>>
    BY <1>3 DEF StartTask
  <2>3. current' \in Ahead /\ Ahead' \subseteq Ahead \ {current'}
    BY <2>1 DEF Ahead, FileInv, TasksDiffer
  <2>4. RecordedOnce' /\ Recorded(file') = Recorded(file) /\ Waiting' = Waiting
    BY <1>0, <2>2 DEF BatchInv, RecordedOnce, Parsable, Waiting
  <2> QED BY <1>0, <2>2, <2>3, <2>4 DEF BatchInv
<1>4. CASE ModelAnswers \/ InSandbox
  <2>1. UNCHANGED <<mode, todo, current, finished, file>>
    BY <1>4 DEF ModelAnswers, InSandbox, runner
  <2> QED BY <1>0, <2>1, StandingBatchInv
<1>5. CASE TaskEnds
  <2> DEFINE rec == Record(current, FALSE, tree > 0)
  <2>1. current # None /\ current \in Range(Tasks) /\ (tree > 0) \in BOOLEAN
    BY <1>5 DEF TaskEnds, FileInv
  <2>2. /\ finished' = Append(finished, rec)
        /\ UNCHANGED <<mode, todo, file>> /\ current' = None
    BY <1>5, <2>1, LeaveInv DEF TaskEnds
  <2>3. rec \in Rec /\ rec.id = current
    BY <2>1, RecordIsARec
  <2> HIDE DEF rec
  <2> QED BY <1>0, <2>1, <2>2, <2>3, LeaveBatchInv
<1>6. ASSUME current # None, Raises PROVE BatchInv'
  <2> DEFINE rec == Record(current, TRUE, FALSE)
  <2>1. /\ finished' = Append(finished, rec)
        /\ UNCHANGED <<mode, todo, file>> /\ current' = None
    BY <1>0, <1>6, RaisesInv
  <2>2. rec \in Rec /\ rec.id = current
    BY <1>6, RecordIsARec DEF FileInv
  <2> HIDE DEF rec
  <2> QED BY <1>0, <1>6, <2>1, <2>2, LeaveBatchInv
<1>7. CASE TaskFails
  BY <1>6, <1>7 DEF TaskFails, FileInv
<1>8. CASE ChatFails
  <2>1. CASE UNCHANGED <<vars, mode, todo, current, finished, file, ragged, recs, starts>>
    BY <1>0, <2>1, StandingBatchInv
  <2> QED BY <1>6, <1>8, <2>1 DEF ChatFails, FileInv
<1>9. CASE RunEndsAll
  <2>1. /\ current = None /\ todo = {} /\ finished = <<>> /\ mode' = "down"
        /\ UNCHANGED <<todo, current, finished, file>>
    BY <1>9 DEF RunEndsAll
  <2> QED BY <1>0, <2>1, ParsableLines, RewriteBatchInv
<1>10. CASE Crash
  <2>1. /\ mode' = "down" /\ todo' = {} /\ current' = None /\ finished' = <<>>
        /\ UNCHANGED file \/ file' = Appended(Unparsable)
    BY <1>10 DEF Crash
  <2>2. ASSUME file' = Appended(Unparsable), NEW i \in Parsable(file')
        PROVE  i \in Parsable(file) /\ file'[i] = file[i]
    <3>1. file'[i] # Unparsable
      BY DEF Parsable
    <3> QED BY <2>2, <3>1, AppendedKeeps
  <2> QED BY <1>0, <2>1, <2>2, RewriteBatchInv
<1>11. CASE StartGrade \/ GradeOne
  <2>1. /\ UNCHANGED <<todo, current, finished, file>>
        /\ mode \in {"down", "grade"} /\ mode' = "grade"
    BY <1>11 DEF StartGrade, GradeOne
  <2>2. /\ RecordedOnce' = RecordedOnce /\ Recorded(file') = Recorded(file)
        /\ Waiting' = Waiting /\ Ahead' = Ahead
    BY <2>1 DEF RecordedOnce, Recorded, Parsable, Waiting, Ahead
  <2> QED BY <1>0, <2>1, <2>2 DEF BatchInv
<1>12. CASE GradeEnds
  <2>1. /\ mode = "grade" /\ mode' = "down"
        /\ UNCHANGED <<todo, current, finished>>
    BY <1>12 DEF GradeEnds
  <2>2. current = None /\ finished = <<>> /\ todo = {}
    BY <1>0, <2>1 DEF BatchInv
  <2>3. \A i \in Parsable(file') : i \in Parsable(file) /\ file'[i].id = file[i].id
    BY <1>12, GradeEndsInv DEF Parsable
  <2> QED BY <1>0, <2>1, <2>2, <2>3, RewriteBatchInv
<1>13. CASE UNCHANGED allvars
  BY <1>0, <1>13, StandingBatchInv DEF allvars, runner
<1> QED
  BY <1>1, <1>2, <1>3, <1>4, <1>5, <1>7, <1>8, <1>9, <1>10, <1>11, <1>12, <1>13,
     AppendBatchInv DEF RunnerNext

(* What a batch has recorded stays, through torn lines, restarts and        *)
(* grading, and no task is recorded twice by a harness that resumes (main,  *)
(* grade_file of live_agent_modal.py; replay.py), in a batch that names no  *)
(* task twice.                                                              *)
THEOREM RecordsStay ==
    ASSUME TasksDiffer PROVE RunnerSpec => RecordsAreKept
<1> DEFINE Inv == HarnessInv /\ FileInv /\ BatchInv
<1>1. RunnerInit => Inv
  BY HarnessInvInit, FileInvInit
<1>2. Inv /\ [RunnerNext]_allvars => Inv'
  BY HarnessInvNext, FileInvNext, BatchInvNext
<1>3. Inv /\ Inv' /\ [RunnerNext]_allvars =>
        [/\ \A i \in Parsable(file) :
               \E j \in Parsable(file') :
                  /\ file'[j] = [file[i] EXCEPT !.grade = file'[j].grade]
                  /\ file[i].grade # None => file'[j] = file[i]
         /\ harness # "live" =>
               \A i, j \in Parsable(file') : file'[i].id = file'[j].id => i = j
        ]_allvars
  <2> SUFFICES ASSUME Inv, Inv', [RunnerNext]_allvars
               PROVE  /\ LinesStay
                      /\ harness # "live" => RecordedOnce'
    BY DEF LinesStay, Keeps, RecordedOnce
  <2>1. LinesStay
    BY FileInvNext
  <2> QED BY <2>1, HarnessStays DEF BatchInv
<1> HIDE DEF Inv
<1> QED BY <1>1, <1>2, <1>3, PTL DEF RunnerSpec, RecordsAreKept

-----------------------------------------------------------------------------
(***************************************************************************)
(* The working memory, for every budget, every window size and any mix of  *)
(* chunks, failures, snapshots and commits.                                *)
(***************************************************************************)

(* The compact memory was built from exactly the prefix the memory thinks  *)
(* it was, fits the part of the budget set aside for it, and the raw window*)
(* is never ahead of it; inside the loop the window is up to date.         *)
PartsFit ==
    /\ compact.of = compactEnd
    /\ recent.lo <= compactEnd
    /\ stage = "loop" => recent = Window
    /\ compactor = "uniform" => compact.phys <= compact_budget

(* No handle is from the future, and the handles of the current version    *)
(* hold the current compact memory, except between the installation of a   *)
(* new one and the version bump.                                           *)
HandlesInStep ==
    ~unversioned =>
        \A s \in snaps :
            /\ s.version <= version
            /\ stage # "refit" /\ s.version = version => s.compact = compact

(* The inductive invariant *)
MemoryInv ==
    /\ MemoryTypeOK
    /\ PartsFit
    /\ EveryTokenOnce
    /\ WithinBudget
    /\ HandlesInStep
    /\ VersionsIdentify

-----------------------------------------------------------------------------

\* What _refresh_recent prefills is an interval that starts at compact_end and
\* has total - compact_end positions.
LEMMA WindowFits ==
    ASSUME MemoryTypeOK
    PROVE  /\ Window \in [lo : Nat, hi : Nat] /\ Window.lo <= Window.hi
           /\ Window.lo <= compactEnd
           /\ Window.hi - Window.lo = total - compactEnd
           /\ Window.hi - Window.lo > 0 => Window.lo = compactEnd
BY BoundsAssumption DEF MemoryTypeOK, Window, NoRecent

\* A new memory satisfies the invariant (WorkingMemory.__init__).
LEMMA MemoryInit == Init => MemoryInv
<1> SUFFICES ASSUME Init PROVE MemoryInv
  OBVIOUS
<1> USE BudgetAssumption, BoundsAssumption DEF Init, NoCompact, NoRecent
<1>1. compact.of = 0 /\ compact.phys = 0 /\ recent.lo = 0 /\ recent.hi = 0
  OBVIOUS
<1>2. MemoryTypeOK
  <2>1. compact \in [of : Nat, phys : Nat] /\ recent \in [lo : Nat, hi : Nat]
    OBVIOUS
  <2>2. total \in 0 .. MaxTotal /\ compactEnd \in 0 .. total /\ version \in Nat
    OBVIOUS
  <2>3. raised \in BOOLEAN /\ unversioned \in BOOLEAN /\ compactor \in Compactors
    OBVIOUS
  <2>4. \A s \in snaps : s \in [compact : [of : Nat, phys : Nat], compactEnd : Nat,
                                total : Nat, recent : Int, version : Nat]
    OBVIOUS
  <2> QED BY <1>1, <2>1, <2>2, <2>3, <2>4 DEF MemoryTypeOK
<1>3. PartsFit
  BY <1>1 DEF PartsFit, compact_budget
<1>4. EveryTokenOnce /\ WithinBudget
  BY <1>1 DEF EveryTokenOnce, WithinBudget, n_recent, current_tokens
<1>5. HandlesInStep /\ VersionsIdentify
  BY DEF HandlesInStep, VersionsIdentify
<1> QED BY <1>2, <1>3, <1>4, <1>5 DEF MemoryInv

\* A handle is well typed (WorkingMemory.snapshot).
LEMMA HandleType ==
    ASSUME MemoryTypeOK, NEW v \in Nat
    PROVE  Handle(v) \in [compact : [of : Nat, phys : Nat], compactEnd : Nat,
                          total : Nat, recent : Int, version : Nat]
BY BoundsAssumption DEF MemoryTypeOK, Handle, n_recent

\* Every step preserves the invariant: those of append that return, those that
\* raise, and the versioning calls.
LEMMA MemoryStep ==
    ASSUME MemoryInv, [Next]_memoryVars
    PROVE  MemoryInv'
<1> USE BudgetAssumption, BoundsAssumption DEF MemoryInv
<1>0. /\ total \in Nat /\ compactEnd \in Nat /\ compactEnd <= total
      /\ compact \in [of : Nat, phys : Nat] /\ recent \in [lo : Nat, hi : Nat]
      /\ compact.phys \in Nat /\ compact.of \in Nat /\ recent.lo \in Nat /\ recent.hi \in Nat
      /\ version \in Nat
  BY DEF MemoryTypeOK
<1>1. ASSUME NEW n \in 1 .. MaxTotal, AppendTokens(n)
      PROVE  MemoryInv'
  <2>1. MemoryTypeOK'
    BY <1>0, <1>1 DEF AppendTokens, MemoryTypeOK
  <2>2. PartsFit' /\ EveryTokenOnce' /\ WithinBudget'
    BY <1>0, <1>1 DEF AppendTokens, PartsFit, EveryTokenOnce, WithinBudget
  <2>3. HandlesInStep' /\ VersionsIdentify'
    BY <1>1 DEF AppendTokens, HandlesInStep, VersionsIdentify
  <2> QED BY <2>1, <2>2, <2>3
<1>2. CASE Refresh
  <2>1. MemoryTypeOK'
    BY <1>2, WindowFits DEF Refresh, MemoryTypeOK
  <2>2. PartsFit'
    BY <1>2, WindowFits DEF Refresh, PartsFit, Window
  <2>3. EveryTokenOnce' /\ WithinBudget'
    BY <1>2 DEF Refresh, EveryTokenOnce, WithinBudget
  <2>4. HandlesInStep' /\ VersionsIdentify'
    BY <1>2 DEF Refresh, HandlesInStep, VersionsIdentify
  <2> QED BY <2>1, <2>2, <2>3, <2>4
<1>3. CASE Compact
  <2>1. NewEnd \in Nat /\ NewEnd <= total /\ NewEnd > compactEnd
    BY <1>0, <1>3 DEF Compact, MustCompact, NewEnd
  <2>2. PICK p \in CompactSizes(NewEnd) : compact' = [of |-> NewEnd, phys |-> p]
    BY <1>3 DEF Compact
  <2>3. p \in Nat /\ p <= NewEnd /\ (compactor = "uniform" => p <= compact_budget)
    BY <2>1 DEF CompactSizes, compact_budget
  <2>4. MemoryTypeOK'
    BY <1>3, <2>1, <2>2, <2>3 DEF Compact, MemoryTypeOK
  <2>5. PartsFit'
    BY <1>0, <1>3, <2>1, <2>2, <2>3 DEF Compact, PartsFit, compact_budget
  <2>6. EveryTokenOnce' /\ WithinBudget'
    BY <1>3 DEF Compact, EveryTokenOnce, WithinBudget
  <2>7. HandlesInStep' /\ VersionsIdentify'
    BY <1>3 DEF Compact, HandlesInStep, VersionsIdentify
  <2> QED BY <2>4, <2>5, <2>6, <2>7
<1>4. CASE Refit
  <2>1. MemoryTypeOK'
    BY <1>4, WindowFits DEF Refit, MemoryTypeOK
  <2>2. PartsFit'
    BY <1>4, WindowFits DEF Refit, PartsFit, Window, compact_budget
  <2>3. EveryTokenOnce' /\ WithinBudget'
    BY <1>4 DEF Refit, EveryTokenOnce, WithinBudget
  <2>4. HandlesInStep'
    <3> SUFFICES ASSUME ~unversioned', NEW s \in snaps'
                 PROVE  s.version <= version' /\ s.version # version'
      BY DEF HandlesInStep
    <3>1. s \in snaps /\ s.version \in Nat /\ s.version <= version
      BY <1>4 DEF Refit, HandlesInStep, MemoryTypeOK
    <3> QED BY <1>0, <1>4, <3>1 DEF Refit
  <2>5. VersionsIdentify'
    BY <1>4 DEF Refit, VersionsIdentify
  <2> QED BY <2>1, <2>2, <2>3, <2>4, <2>5
<1>5. CASE Return
  <2>1. MemoryTypeOK'
    BY <1>5 DEF Return, memory, MemoryTypeOK
  <2>2. PartsFit'
    BY <1>5 DEF Return, memory, PartsFit
  <2>3. /\ n_recent = total - compactEnd
        /\ n_recent > 0 => recent.lo = compactEnd
    BY <1>5, WindowFits DEF Return, PartsFit, n_recent
  <2>4. EveryTokenOnce'
    BY <1>0, <1>5, <2>3 DEF Return, memory, EveryTokenOnce, PartsFit, n_recent
  <2>5. compactor = "uniform" => current_tokens <= BudgetTokens
    BY <1>0, <1>5, <2>3 DEF Return, MustCompact, PartsFit, current_tokens, compact_budget
  <2>6. WithinBudget'
    BY <1>5, <2>5 DEF Return, memory, WithinBudget, current_tokens, n_recent
  <2>7. HandlesInStep' /\ VersionsIdentify'
    BY <1>5 DEF Return, memory, HandlesInStep, VersionsIdentify
  <2> QED BY <2>1, <2>2, <2>4, <2>6, <2>7
<1>6. CASE Raise
  <2>1. MemoryTypeOK'
    BY <1>6 DEF Raise, memory, MemoryTypeOK
  <2>2. PartsFit' /\ EveryTokenOnce' /\ WithinBudget'
    BY <1>6 DEF Raise, memory, PartsFit, EveryTokenOnce, WithinBudget
  <2>3. HandlesInStep' /\ VersionsIdentify'
    BY <1>6 DEF Raise, memory, HandlesInStep, VersionsIdentify
  <2> QED BY <2>1, <2>2, <2>3
<1>7. CASE Snapshot
  <2>0. /\ UNCHANGED <<compactor, total, compactEnd, compact, recent, version, stage, raised, unversioned>>
        /\ snaps' = snaps \cup {Handle(version)}
    BY <1>7 DEF Snapshot, memory
  <2>1. MemoryTypeOK'
    BY <1>0, <2>0, HandleType DEF MemoryTypeOK
  <2>2. PartsFit' /\ EveryTokenOnce' /\ WithinBudget'
    BY <2>0 DEF PartsFit, EveryTokenOnce, WithinBudget, Window, n_recent, current_tokens
  <2>3. Handle(version).version = version /\ Handle(version).compact = compact
    BY DEF Handle
  <2>4. HandlesInStep'
    BY <1>0, <2>0, <2>3 DEF HandlesInStep
  <2>5. VersionsIdentify'
    BY <1>7, <2>0, <2>3 DEF Snapshot, HandlesInStep, VersionsIdentify
  <2> QED BY <2>1, <2>2, <2>4, <2>5
<1>8. CASE Commit
  <2>0. /\ UNCHANGED <<compactor, total, compactEnd, compact, recent, stage, raised, unversioned>>
        /\ version' = version + 1 /\ version' \in Nat
        /\ snaps' = snaps \cup {Handle(version')}
    BY <1>0, <1>8 DEF Commit, memory
  <2>1. MemoryTypeOK'
    BY <2>0, HandleType DEF MemoryTypeOK
  <2>2. PartsFit' /\ EveryTokenOnce' /\ WithinBudget'
    BY <2>0 DEF PartsFit, EveryTokenOnce, WithinBudget, Window, n_recent, current_tokens
  <2>3. Handle(version').version = version' /\ Handle(version').compact = compact
    BY DEF Handle
  <2>4. ~unversioned => \A s \in snaps : s.version \in Nat /\ s.version < version'
    BY <1>0, <2>0 DEF HandlesInStep, MemoryTypeOK
  <2>5. HandlesInStep'
    BY <2>0, <2>3, <2>4 DEF HandlesInStep
  <2>6. VersionsIdentify'
    BY <2>0, <2>3, <2>4 DEF VersionsIdentify
  <2> QED BY <2>1, <2>2, <2>5, <2>6
<1>9. CASE UNCHANGED memoryVars
  BY <1>9 DEF memoryVars, memory, MemoryTypeOK, PartsFit, EveryTokenOnce, WithinBudget, HandlesInStep,
              VersionsIdentify, Window, n_recent, current_tokens
<1> QED BY <1>1, <1>2, <1>3, <1>4, <1>5, <1>6, <1>7, <1>8, <1>9 DEF Next

-----------------------------------------------------------------------------

\* The invariant holds in every reachable state.
LEMMA MemoryAlways == Spec => []MemoryInv
<1>1. MemoryInv /\ [Next]_memoryVars => MemoryInv'
  BY MemoryStep
<1> QED BY MemoryInit, <1>1, PTL DEF Spec

\* After every append that returns, the working set is within budget_tokens, for
\* every budget and window and after any number of failed appends
\* (WorkingMemory._maybe_compact).
THEOREM BudgetHolds == Spec => []WithinBudget
<1>1. MemoryInv => WithinBudget
  BY DEF MemoryInv
<1> QED BY MemoryAlways, <1>1, PTL

\* After every append that returns, compact memory and raw window together stand
\* for every token exactly once (WorkingMemory.combined).
THEOREM NothingForgotten == Spec => []EveryTokenOnce
<1>1. MemoryInv => EveryTokenOnce
  BY DEF MemoryInv
<1> QED BY MemoryAlways, <1>1, PTL

\* Even when an append raised half way, the raw window never starts after the
\* compacted prefix ends (WorkingMemory._compact_step, _refresh_recent).
THEOREM NeverAHole == Spec => []NoHole
<1>1. MemoryInv => NoHole
  BY DEF MemoryInv, PartsFit, NoHole
<1> QED BY MemoryAlways, <1>1, PTL

\* Two handles with one version hold one compact memory, unless a compaction
\* raised before its bump (WorkingMemory.snapshot, commit).
THEOREM VersionsAreSound == Spec => []VersionsIdentify
<1>1. MemoryInv => VersionsIdentify
  BY DEF MemoryInv
<1> QED BY MemoryAlways, <1>1, PTL

\* Every pass of the compaction loop moves compact_end forward
\* (WorkingMemory._maybe_compact).
THEOREM LoopAdvances == Spec => LoopProgress
<1> DEFINE A == compact' # compact => compactEnd' > compactEnd /\ compact'.of > compact.of
<1>1. ASSUME MemoryInv, [Next]_memoryVars
      PROVE  [A]_memoryVars
  <2> SUFFICES ASSUME Next, compact' # compact
               PROVE  compactEnd' > compactEnd /\ compact'.of > compact.of
    BY <1>1
  <2>1. Compact
    BY DEF Next, AppendTokens, Refresh, Refit, Return, Raise, Snapshot, Commit, memory
  <2>2. NewEnd > compactEnd /\ compactEnd' = NewEnd /\ compact'.of = NewEnd
    BY <1>1, <2>1, BudgetAssumption, BoundsAssumption
    DEF Compact, MustCompact, NewEnd, MemoryInv, MemoryTypeOK
  <2> QED BY <1>1, <2>2 DEF MemoryInv, PartsFit
<1> QED BY MemoryAlways, <1>1, PTL DEF Spec, LoopProgress

(* The combined cache a query sees is the whole context, whatever failed   *)
(* before (WorkingMemory.combined).                                        *)
THEOREM ContextKept == Spec => []ContextIsWhole
BY NothingForgotten, NeverAHole, PTL DEF ContextIsWhole
=============================================================================
