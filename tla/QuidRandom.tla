------------------------------ MODULE QuidRandom ------------------------------
(***************************************************************************)
(* true_random and quid_set_rnd_seed of quid.c: when the generator of the  *)
(* C library is seeded, and with what.                                     *)
(*                                                                         *)
(* srand gets the system time divided by UIDS_PER_TICK, here the variable  *)
(* bucket; rand then yields the series that belongs to that seed, so a     *)
(* drawn number is the pair of the seed and its place in the series.  What *)
(* true_random makes of the number (it adds the tick count and converts a  *)
(* double to 16 bits) is left to QuidCreate.                               *)
(***************************************************************************)
EXTENDS SeedCycle

CONSTANTS RND_SEED_CYCLE,  \* the cycle at start, 4096 in the source
          Cycles,          \* the cycles a program passes to quid_set_rnd_seed
          MaxBucket        \* bound: the last value of bucket

ASSUME RandomAssumption ==
    /\ RND_SEED_CYCLE \in Int32
    /\ Cycles \subseteq Int32
    /\ MaxBucket \in Nat

VARIABLES max_rnd_seed,    \* static int max_rnd_seed
          rnd_seed_count,  \* static int rnd_seed_count
          bucket,          \* system time / UIDS_PER_TICK
          seed,            \* the last argument of srand, -1 before the first call
          drawn,           \* how many numbers rand has returned since then
          overrun          \* since then the cycle was negative, or set below the count

vars == <<max_rnd_seed, rnd_seed_count, bucket, seed, drawn, overrun>>

\* Bound: drawn stops at the number of values of an int, which a counter that
\* seeds whenever it is zero never takes it to.
MaxDrawn == INT_MAX - INT_MIN + 1

Init ==
    /\ max_rnd_seed = RND_SEED_CYCLE
    /\ rnd_seed_count = 0
    /\ bucket = 0
    /\ seed = -1
    /\ drawn = 0
    /\ overrun = FALSE

Tick ==
    /\ bucket < MaxBucket
    /\ bucket' = bucket + 1
    /\ UNCHANGED <<max_rnd_seed, rnd_seed_count, seed, drawn, overrun>>

\* quid_set_rnd_seed
SetRndSeed(cnt) ==
    /\ max_rnd_seed' = cnt
    /\ overrun' = (overrun \/ cnt < rnd_seed_count)
    /\ UNCHANGED <<rnd_seed_count, bucket, seed, drawn>>

\* Fault: the counter is tested at its other end.
MustSeed_AtMax == rnd_seed_count = max_rnd_seed

MustSeed == rnd_seed_count = 0

\* true_random: srand when the counter is zero, then rand.
Draw ==
    /\ IF MustSeed
       THEN seed' = bucket /\ drawn' = 1 /\ overrun' = (max_rnd_seed < 0)
       ELSE drawn' = (IF drawn = MaxDrawn THEN drawn ELSE drawn + 1) /\ UNCHANGED <<seed, overrun>>
    /\ rnd_seed_count' = Advance(rnd_seed_count, max_rnd_seed)
    /\ UNCHANGED <<max_rnd_seed, bucket>>

Next == Tick \/ Draw \/ \E cnt \in Cycles : SetRndSeed(cnt)

Spec == Init /\ [][Next]_vars

\* A program that keeps making identifiers.
FairSpec == Spec /\ WF_vars(Draw)

------------------------------------------------------------------------------
\* Properties.

TypeOK ==
    /\ max_rnd_seed \in Int32
    /\ rnd_seed_count \in Int32
    /\ bucket \in 0..MaxBucket
    /\ seed \in -1..MaxBucket
    /\ drawn \in 0..MaxDrawn
    /\ overrun \in BOOLEAN

\* The counter stands for the numbers drawn from the current seed, modulo
\* the width of an int, whatever cycles the program sets and when: no
\* sequence of calls makes true_random reseed for any other reason than the
\* counter coming back to zero.
CountIsDrawn ==
    rnd_seed_count # 0 =>
        rnd_seed_count = IF drawn <= INT_MAX THEN drawn
                         ELSE drawn - MaxDrawn

\* true_random takes at most n + 1 numbers from a seed if the cycle is n (it
\* counts from zero and compares before it counts), unless the program has
\* meanwhile set the cycle below the count or to a negative number.
SeedServesCycle ==
    [][Draw /\ ~overrun /\ max_rnd_seed >= 0 => drawn' <= max_rnd_seed + 1]_vars

\* Whatever the program sets, true_random is seeded again and again, at the
\* latest when the counter has gone through all values of an int.
SeedsAgain == []<>(rnd_seed_count = 0)
==============================================================================
