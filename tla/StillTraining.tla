---------------------------- MODULE StillTraining ----------------------------
(***************************************************************************)
(* compaction/still/train.py: the perceivers of STILL are distilled from   *)
(* the frozen model before they serve.  The teacher decodes an answer over *)
(* the full cache of a context, the student over the slots the perceivers  *)
(* make of it; the loss compares the two row by row.  A gradient step      *)
(* changes the numbers in a perceiver, not what it reads or how many slots *)
(* it makes; it is counted.  The loss is a function of the rows and is     *)
(* represented by them.                                                    *)
(***************************************************************************)
EXTENDS Compaction

(* StillPerceiver.__init__ raises without a latent *)
CanBuild(n) == n >= 1

Perceiver(n) == [latents |-> n, steps |-> 0]

(* build_perceivers: one for each layer, all of one size *)
BuildPerceivers(n) == [l \in Layers |-> Perceiver(n)]

(* _full_kv: one prefill, from position 0 on *)
ContextKV(toks) == KVCache(Forward(<< >>, toks, 0), Arange(0, Len(toks)), toks)

(* _decode_logits: the answer over slots that all heads have the same      *)
(* number of, hence without padding; causal among the fed tokens           *)
DecodeOver(heads, logicalLen, input) ==
    [j \in DOMAIN input |->
       [cached |-> [q \in QHeads |-> heads[kv_head_of(q)]],
        fed |-> [i \in 1 .. j |-> [tok |-> input[i], pos |-> logicalLen + i - 1]]]]

(* _sample_loss: what the two sides of the divergence were read from *)
SampleLoss(perceivers, sample) ==
    LET T == Len(sample.context)
        full == ContextKV(sample.context)
    IN  [answer |-> sample.answer,
         teacher |-> DecodeOver([h \in Heads |-> SlotsOf(full, h)], T, sample.answer),
         student |-> DecodeOver([h \in Heads |-> Perceive(full, perceivers[h[1]].latents)],
                                T, sample.answer)]

(* the mean over no sample cannot be stacked *)
TrainFails(samples, steps) == steps > 0 /\ samples = << >>

(* train: every step reads all samples and changes every perceiver; the    *)
(* history has an entry for each step                                      *)
Train(perceivers, samples, steps) ==
    [perceivers |-> [l \in Layers |-> [perceivers[l] EXCEPT !.steps = @ + steps]],
     history |-> [s \in 1 .. steps |->
                    [i \in DOMAIN samples |-> SampleLoss(perceivers, samples[i])]]]
=============================================================================
