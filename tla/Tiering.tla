------------------------------- MODULE Tiering -------------------------------
(***************************************************************************)
(* Where the KV of an idle session is worth keeping, and what a warm turn  *)
(* saves: dexa_platform/sessions/tiering.py and its port edge/src/         *)
(* tiering.ts, written from each of the two.                               *)
(*                                                                         *)
(* Context sizes are counted in blocks of 512 tokens, KV sizes in 0.01 GB, *)
(* times in ms, idle times in seconds.  The four figures of an             *)
(* interpolated profile share a denominator, so the break-evens, which are *)
(* ratios of them, are compared without dividing.                          *)
(***************************************************************************)
EXTENDS Integers, Sequences

(* PROFILE: kv, prefill, restore from RAM, restore from NVMe *)
Measured ==
    << [at |-> 8,   v |-> <<23, 296, 25, 246>>],
       [at |-> 32,  v |-> <<94, 1321, 115, 390>>],
       [at |-> 64,  v |-> <<188, 3167, 182, 646>>],
       [at |-> 128, v |-> <<376, 8567, 297, 1228>>] >>

Last == Len(Measured)

ScaledEntry(i, n) == [den |-> Measured[i].at, v |-> [k \in 1 .. 4 |-> Measured[i].v[k] * n]]

Between(i, n) ==
    LET a == Measured[i]
        b == Measured[i + 1] IN
    [den |-> b.at - a.at,
     v |-> [k \in 1 .. 4 |-> a.v[k] * (b.at - a.at) + (n - a.at) * (b.v[k] - a.v[k])]]

(* profile_for: the first segment that reaches n, scaled outside the table *)
profile_for(n) ==
    CASE n <= Measured[1].at -> ScaledEntry(1, n)
      [] n > Measured[1].at /\ n <= Measured[Last].at ->
           Between(CHOOSE i \in 1 .. Last - 1 :
                      /\ n <= Measured[i + 1].at
                      /\ \A j \in 1 .. i - 1 : n > Measured[j + 1].at, n)
      [] OTHER -> ScaledEntry(Last, n)

(* profileFor: the end of the table is extrapolated, then a while loop *)
profileFor(n) ==
    CASE n <= Measured[1].at -> ScaledEntry(1, n)
      [] n >= Measured[Last].at -> ScaledEntry(Last, n)
      [] OTHER ->
           Between(CHOOSE i \in 1 .. Last - 1 :
                      ~(n > Measured[i + 1].at) /\ \A j \in 1 .. i - 1 : n > Measured[j + 1].at, n)

(* breakevens: seconds, over the common divisor kv.  6, 30 and 900 are the *)
(* rates of the three tiers in these units.                                *)
breakevens(p) ==
    [kv |-> p.v[1],
     warm_s |-> 6 * p.v[2],
     ram_s |-> 30 * (p.v[2] - p.v[3]),
     nvme_s |-> 900 * (p.v[2] - p.v[4])]

Coldness == [warm |-> 0, ram |-> 1, nvme |-> 2, drop |-> 3]

(* TieringPolicy.decide *)
decide(idle, n) ==
    LET be == breakevens(profile_for(n)) IN
    CASE idle * be.kv <= be.warm_s -> "warm"
      [] idle * be.kv > be.warm_s /\ idle * be.kv <= be.ram_s -> "ram"
      [] idle * be.kv > be.warm_s /\ idle * be.kv > be.ram_s /\ idle * be.kv <= be.nvme_s -> "nvme"
      [] OTHER -> "drop"

(* decideTier *)
decideTier(idle, n) ==
    LET be == breakevens(profileFor(n)) IN
    IF idle * be.kv <= be.warm_s THEN "warm"
    ELSE IF idle * be.kv <= be.ram_s THEN "ram"
    ELSE IF idle * be.kv <= be.nvme_s THEN "nvme" ELSE "drop"

Positive(n) == IF n > 0 THEN n ELSE 0

(* round of Python: ties go to the even neighbour *)
HalfEven(n, d) ==
    LET q == n \div d
        r == 2 * (n % d) IN
    IF r > d \/ (r = d /\ q % 2 = 1) THEN q + 1 ELSE q

(* estimated_savings: saved_ms to one decimal, in tenths of ms *)
estimated_savings(n, warm) ==
    LET p == profile_for(n) IN
    IF warm THEN HalfEven(10 * Positive(p.v[2] - p.v[3]), p.den) ELSE 0

(* estimatedSavings: savedMs to a whole ms, ties up, in tenths of ms *)
estimatedSavings(n, warm) ==
    LET p == profileFor(n) IN
    IF warm THEN 10 * ((2 * Positive(p.v[2] - p.v[3]) + p.den) \div (2 * p.den)) ELSE 0
=============================================================================
