-------------------------- MODULE MCSpeculativeExec --------------------------
(* A batch of two tasks of up to four tool calls over a test, a slow test  *)
(* and the run of a new script, on the three harnesses, started up to      *)
(* three times; any of the processes may be killed.                        *)
EXTENDS TaskRunner

MCTasks == <<"a", "b">>
=============================================================================
