------------------------------ MODULE MCEngine ------------------------------
EXTENDS Engine

CONSTANTS tok1, tok2, tokNL

MCLayers == {0}
MCKVHeads == {0, 1}
MCTokenIds == {tok1, tok2, tokNL}
MCSegments == { <<tok1>>, <<tok2, tok2>> }
MCPrompts == { << >>, <<tok1>> }
MCResponses == { << >>, <<tok2>>, <<tok2, tok1>> }
MCCorpora == { <<tok1>>, <<tok1, tok2, tok2>>, <<tok2, tok2, tok1, tok1>> }
MCBudgets ==
    { [ratio |-> 2, tokens |-> NoBudget, min |-> 1],
      [ratio |-> NoBudget, tokens |-> 2, min |-> 1],
      [ratio |-> NoBudget, tokens |-> 1, min |-> 3] }
AM(select, alloc, mass, recent) ==
    [select |-> select, alloc |-> alloc, mass |-> mass, recent |-> recent]
MCAMConfigs ==
    { AM("highest_attention", "uniform", <<0, 1>>, <<0, 1>>),
      AM("highest_attention", "sensitivity", <<0, 1>>, <<0, 1>>),
      AM("omp", "uniform", <<0, 1>>, <<0, 1>>),
      AM("highest_attention", "uniform", <<1, 2>>, <<1, 4>>) }
MCRecentFracs == { <<1, 2>> }
MCSelectFracs == { <<1, 2>> }
MCLatents == { NoPerceivers, 3 }
MCChats ==
    { << [question |-> <<tok1, tok2, tokNL, tok1>>, answer |-> <<tok2, tokNL>>] >>,
      << [question |-> <<tok1, tokNL, tok2>>, answer |-> <<tok2>>] >> }
MCDtypes == { "float32", "bfloat16" }
MCBlockTables == { << <<3, 1, 2>> >>, << <<2>>, <<3>> >> }
MCPaths == { << >>, <<"npz">> }
=============================================================================
