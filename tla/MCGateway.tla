------------------------------ MODULE MCGateway ------------------------------
(* Two gateway processes over one database, two overlapping requests, and  *)
(* a credit one call overdraws.  In accounts mode the requests carry one   *)
(* screen and one text, so that their histories differ by keys, processes  *)
(* and time only; the static mode varies screens and texts.                *)
EXTENDS Gateway, TLC

MCAccountInputs == {<<i, x>> \in Asked : i # NoImage /\ x = CHOOSE t \in Texts : TRUE}
MCStaticInputs == Asked

\* The price list, in cents per million tokens, and the sizes of pricing.py
\* divided by 28 (the areas by 28 * 28); screens up to the aspect ratio at
\* which one side is held at a single block.
MCSides == {1, 2, 5, 13, 27, 28, 46, 68, 72, 73, 137, 200, 900}
Models == {"gpt-4o", "gpt-4o-mini", "claude-3-5-sonnet", Ours}
MCPrices == [m \in Models |->
    CASE m = "gpt-4o" -> [in |-> 250, out |-> 1000]
      [] m = "gpt-4o-mini" -> [in |-> 15, out |-> 60]
      [] m = "claude-3-5-sonnet" -> [in |-> 300, out |-> 1500]
      [] m = Ours -> [in |-> 20, out |-> 20]]
MCSchemes == [m \in Models |->
    CASE m = "gpt-4o" -> "openai"
      [] m = "gpt-4o-mini" -> "openai_mini"
      [] m = "claude-3-5-sonnet" -> "anthropic"
      [] m = Ours -> "qwen"]
MCBaseTokens == [s \in {"openai", "openai_mini"} |-> IF s = "openai" THEN 85 ELSE 2833]
MCTileTokens == [s \in {"openai", "openai_mini"} |-> IF s = "openai" THEN 170 ELSE 5667]

Symmetry == Permutations(Procs) \cup Permutations(Requests)
            \cup Permutations(Threads) \cup Permutations(Orgs)
=============================================================================
