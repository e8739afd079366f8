--------------------------- MODULE MCDexaConnector ---------------------------
(* Instances of DexaConnector for TLC. *)
EXTENDS DexaConnector, TLC

CONSTANTS i1, i2, r1, r2, r3, p1, p2

\* r1 and r2 have the same prompt; r3 has another, of two whole blocks.
TwoPrompts == [r \in Requests |-> IF r = r3 THEN p2 ELSE p1]
Lengths    == [p \in Prompts |-> IF p = p1 THEN 5 ELSE 4]

OneInstance  == [r \in Requests |-> i1]
TwoInstances == [r \in Requests |-> IF r = r2 THEN i2 ELSE i1]

\* One instance with asynchronous loads and local prefix hits; ...
Async == [instOf |-> OneInstance, arriving |-> {r1, r2, r3}, async |-> TRUE, minLoad |-> 4,
          contention |-> FALSE, maxSeqs |-> 0, localHits |-> TRUE, allocFails |-> FALSE]

\* ... synchronous loads, contention-aware claims and failing allocations; ...
Sync == [instOf |-> OneInstance, arriving |-> {r1, r2}, async |-> FALSE, minLoad |-> 6,
         contention |-> TRUE, maxSeqs |-> 1, localHits |-> FALSE, allocFails |-> TRUE]

\* ... two instances that race on one key.
Shared == [Async EXCEPT !.instOf = TwoInstances, !.arriving = {r1, r2}, !.localHits = FALSE]

MCDeployments == {Async, Sync, Shared}

AllocFailure == {[Async EXCEPT !.arriving = {r1}, !.allocFails = TRUE, !.localHits = FALSE]}
=============================================================================
