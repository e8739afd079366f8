----------------------------- MODULE TaskRunner -----------------------------
(***************************************************************************)
(* The batch around the tool loop of SpeculativeExec: main of the three    *)
(* scripts of experiments/speculative-tool-exec, and the grading of a      *)
(* finished file by live_agent_modal.py.                                   *)
(*                                                                         *)
(* A process runs the tasks one after the other, each in a sandbox of its  *)
(* own, and appends one JSON line per task to the out file.  It may be     *)
(* killed at any moment, also in the middle of a line; the line appended   *)
(* next then continues the torn one and neither can be parsed.  Started    *)
(* again, live_agent_modal.py skips the lines it cannot parse and the      *)
(* tasks it finds recorded; replay.py fails on such a line; live_agent.py  *)
(* does not look at the file.  One process works on a file at a time.      *)
(***************************************************************************)
EXTENDS SpeculativeExec

CONSTANTS
    Tasks,          \* the sequence of tasks of the batch
    Attempts,       \* attempts of a chat completion
    MaxStarts       \* bound on the processes started

ASSUME RunnerAssumption ==
    /\ Tasks \in Seq(STRING) /\ \A i \in DOMAIN Tasks : Tasks[i] # None
    /\ Attempts \in Nat \ {0} /\ MaxStarts \in Nat

VARIABLES
    mode,           \* "down", "wait" for the server, "run", "grade"
    todo,           \* places in Tasks of what this process has not started
    current,        \* the task in the sandbox
    attempt,        \* failed attempts of the current chat completion
    finished,       \* records not yet appended
    file,           \* the lines of the out file
    ragged,         \* the last line has no end
    recs,           \* the records being graded
    starts

runner == <<mode, todo, current, attempt, finished, file, ragged, recs, starts>>
allvars == <<vars, runner>>

(* A line that json.loads refuses *)
Unparsable == [id |-> None]
Record(id, error, patch) == [id |-> id, error |-> error, patch |-> patch, grade |-> None]

Parsable(lines) == {i \in DOMAIN lines : lines[i] # Unparsable}
Recorded(lines) == {lines[i].id : i \in Parsable(lines)}

RunnerInit ==
    /\ harness \in Harnesses /\ NoTask
    /\ mode = "down" /\ todo = {} /\ current = None /\ attempt = 0
    /\ finished = <<>> /\ file = <<>> /\ ragged = FALSE
    /\ recs = <<>> /\ starts = 0

-----------------------------------------------------------------------------
(* A process *)

LiveDone == {}
ReplayDone == Recorded(file)
ModalDone == Recorded(file)

Done ==
    CASE harness = "live" -> LiveDone
      [] harness = "replay" -> ReplayDone
      [] harness = "modal" -> ModalDone

StartRun ==
    /\ mode = "down" /\ starts < MaxStarts
    /\ harness = "replay" => Parsable(file) = DOMAIN file
    /\ mode' = IF harness = "modal" THEN "wait" ELSE "run"
    /\ todo' = {i \in DOMAIN Tasks : Tasks[i] \notin Done}
    /\ starts' = starts + 1
    /\ UNCHANGED <<vars, current, attempt, finished, file, ragged, recs>>

(* The server answers, or max_wait is over *)
WaitForServer ==
    /\ mode = "wait"
    /\ \/ mode' = "run" /\ UNCHANGED todo
       \/ mode' = "down" /\ todo' = {}
    /\ UNCHANGED <<vars, current, attempt, finished, file, ragged, recs, starts>>

StartTask ==
    /\ mode = "run" /\ current = None
    /\ harness # "modal" => finished = <<>>
    /\ Boot
    /\ \E i \in todo :
          /\ \A j \in todo : i <= j
          /\ current' = Tasks[i] /\ todo' = todo \ {i}
    /\ attempt' = 0
    /\ UNCHANGED <<mode, finished, file, ragged, recs, starts>>

ModelAnswers ==
    /\ mode = "run" /\ current # None
    /\ ModelCalls
    /\ attempt' = 0
    /\ UNCHANGED <<mode, todo, current, finished, file, ragged, recs, starts>>

InSandbox ==
    /\ Background
    /\ UNCHANGED runner

(* The task leaves run_task with a record: the sandbox is closed *)
Leave(rec) ==
    /\ Close
    /\ finished' = Append(finished, rec)
    /\ current' = None /\ attempt' = 0
    /\ UNCHANGED <<mode, todo, file, ragged, recs, starts>>

(* The loop is over: the patch is the diff of the tree *)
TaskEnds ==
    /\ pc = "ended"
    /\ Leave(Record(current, FALSE, tree > 0))

(* An exception from the sandbox or from the model: recorded as an error  *)
(* by the modal and the replay harness; it ends live_agent.py             *)
Raises ==
    IF harness = "live"
    THEN /\ Close
         /\ mode' = "down" /\ todo' = {} /\ current' = None /\ attempt' = 0
         /\ UNCHANGED <<finished, file, ragged, recs, starts>>
    ELSE Leave(Record(current, TRUE, FALSE))

TaskFails ==
    /\ mode = "run" /\ pc \in {"call", "wait"}
    /\ Raises

ChatFails_Forever ==
    /\ mode = "run" /\ harness = "modal" /\ pc = "call" /\ calls < MaxCalls
    /\ attempt' = (attempt + 1) % Attempts
    /\ UNCHANGED <<vars, mode, todo, current, finished, file, ragged, recs, starts>>

(* chat: an attempt fails; a context that overflows is shrunk and sent    *)
(* again, other failures are retried after a pause, the last one raises   *)
ChatFails ==
    /\ mode = "run" /\ harness = "modal" /\ pc = "call" /\ calls < MaxCalls
    /\ IF attempt + 1 < Attempts
       THEN /\ attempt' = attempt + 1
            /\ UNCHANGED <<vars, mode, todo, current, finished, file, ragged, recs, starts>>
       ELSE Raises

(* What an append makes of the file *)
Appended(line) ==
    IF ragged THEN [file EXCEPT ![Len(file)] = Unparsable] ELSE Append(file, line)

(* The main thread writes the oldest record; on Modal a worker may have   *)
(* gone on to the next task                                               *)
AppendRecord ==
    /\ mode = "run" /\ finished # <<>>
    /\ file' = Appended(Head(finished)) /\ ragged' = FALSE
    /\ finished' = Tail(finished)
    /\ UNCHANGED <<vars, mode, todo, current, attempt, recs, starts>>

RunEndsAll ==
    /\ mode = "run" /\ current = None /\ todo = {} /\ finished = <<>>
    /\ mode' = "down"
    /\ UNCHANGED <<vars, todo, current, attempt, finished, file, ragged, recs, starts>>

(* The process is killed, perhaps while it writes a line.  Its sandbox    *)
(* ends by its own time limit, a container is removed by the next task.   *)
Crash ==
    /\ mode # "down"
    /\ Close
    /\ mode' = "down" /\ todo' = {} /\ current' = None /\ attempt' = 0
    /\ finished' = <<>> /\ recs' = <<>>
    /\ \/ UNCHANGED <<file, ragged>>
       \/ /\ mode = "run" /\ finished # <<>>
          /\ file' = Appended(Unparsable) /\ ragged' = TRUE
    /\ UNCHANGED starts

-----------------------------------------------------------------------------
(* Grading, of a file that can be parsed as a whole *)

StartGrade ==
    /\ harness = "modal" /\ mode = "down" /\ starts < MaxStarts
    /\ file # <<>> /\ Parsable(file) = DOMAIN file
    /\ mode' = "grade" /\ recs' = file
    /\ starts' = starts + 1
    /\ UNCHANGED <<vars, todo, current, attempt, finished, file, ragged>>

(* grade: an empty patch is not run; otherwise the tests decide, or an    *)
(* error of the sandbox does                                              *)
Grades(patch) == IF ~patch THEN {"unresolved"} ELSE {"resolved", "unresolved"}

(* One worker grades one record, in a sandbox of its own *)
GradeOne ==
    /\ mode = "grade"
    /\ \E i \in DOMAIN recs :
          /\ recs[i].grade = None /\ ~recs[i].error
          /\ \E g \in Grades(recs[i].patch) : recs' = [recs EXCEPT ![i].grade = g]
    /\ UNCHANGED <<vars, mode, todo, current, attempt, finished, file, ragged, starts>>

Ungraded == {i \in DOMAIN recs : recs[i].grade = None /\ ~recs[i].error}

GradeEnds_OnlyGraded ==
    /\ mode = "grade" /\ Ungraded = {}
    /\ mode' = "down"
    /\ file' = SelectSeq(recs, LAMBDA r : ~r.error) /\ recs' = <<>>
    /\ UNCHANGED <<vars, todo, current, attempt, finished, ragged, starts>>

(* Errored tasks count as unresolved; the file is replaced at once *)
GradeEnds ==
    /\ mode = "grade" /\ Ungraded = {}
    /\ mode' = "down"
    /\ file' = [i \in DOMAIN recs |->
                   IF recs[i].grade = None THEN [recs[i] EXCEPT !.grade = "unresolved"]
                   ELSE recs[i]]
    /\ recs' = <<>>
    /\ UNCHANGED <<vars, todo, current, attempt, finished, ragged, starts>>

-----------------------------------------------------------------------------
RunnerNext ==
    \/ StartRun \/ WaitForServer \/ StartTask \/ ModelAnswers \/ InSandbox
    \/ TaskEnds \/ TaskFails \/ ChatFails \/ AppendRecord \/ RunEndsAll \/ Crash
    \/ StartGrade \/ GradeOne \/ GradeEnds

(* The steps of a running process, none of which waits for the operator:  *)
(* the model answers or the request fails in time, processes of the       *)
(* sandbox make progress, and the wait for one has a limit                *)
RunnerSpec ==
    /\ RunnerInit /\ [][RunnerNext]_allvars
    /\ WF_allvars(RunEnds /\ UNCHANGED runner)
    /\ WF_allvars((Served \/ WaitTimesOut) /\ UNCHANGED runner)
    /\ WF_allvars(OrphanEnds /\ UNCHANGED runner)
    /\ WF_allvars(ModelAnswers \/ ChatFails)
    /\ WF_allvars(WaitForServer \/ StartTask \/ TaskEnds \/ AppendRecord \/ RunEndsAll)
    /\ WF_allvars(GradeOne \/ GradeEnds)

-----------------------------------------------------------------------------
(* Properties *)

(* What a batch has recorded stays, through crashes in the middle of a     *)
(* line, restarts, further tasks and grading: no line that could be parsed *)
(* is lost, a grade is never replaced, and a harness that resumes does not *)
(* run a recorded task again (main, grade_file)                            *)
RecordsAreKept ==
    [][/\ \A i \in Parsable(file) :
             \E j \in Parsable(file') :
                /\ file'[j] = [file[i] EXCEPT !.grade = file'[j].grade]
                /\ file[i].grade # None => file'[j] = file[i]
       /\ harness # "live" =>
             \A i, j \in Parsable(file') : file'[i].id = file'[j].id => i = j
      ]_allvars

(* A process ends: no wait for a speculative run, for the model or for the *)
(* server goes on for ever (wait_for_server, chat, run_task, grade_file)   *)
BatchEnds == mode # "down" ~> mode = "down"
=============================================================================
