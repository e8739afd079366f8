---------------------------- MODULE PlainHarness ----------------------------
(***************************************************************************)
(* The coding-agent harness without speculation: every tool call runs when *)
(* the model asks for it, on the working tree as it is then, and its       *)
(* result is what the model sees of it.                                    *)
(***************************************************************************)
EXTENDS Naturals, Sequences

CONSTANTS
    Tests,      \* test-like commands
    Slow,       \* the ones a time limit may cut short
    None

VARIABLES
    tree,       \* version of the working tree
    calls,      \* calls answered in this task
    seen        \* the result returned last

Result(cmd, on, cut) == [cmd |-> cmd, on |-> on, cut |-> cut]

Returns(result) == seen' = result /\ calls' = calls + 1

PlainInit == tree = 0 /\ calls = 0 /\ seen = None

Look == Returns(Result("read", tree, FALSE)) /\ UNCHANGED tree

Edit ==
    /\ tree' \in {tree, tree + 1}
    /\ Returns(Result("edit", tree, FALSE))

RunTest(t) ==
    /\ \E cut \in BOOLEAN :
          (cut => t \in Slow) /\ Returns(Result(t, tree, cut))
    /\ UNCHANGED tree

(* The next task starts on a tree of its own *)
NewTask == tree' = 0 /\ calls' = 0 /\ seen' = None

PlainNext == NewTask \/ Look \/ Edit \/ \E t \in Tests : RunTest(t)

PlainSpec == PlainInit /\ [][PlainNext]_<<tree, calls, seen>>
=============================================================================
