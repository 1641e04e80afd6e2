------------------------------ MODULE SeedCycle ------------------------------
(***************************************************************************)
(* The counter that true_random and get_memory_seed share in form: a C int *)
(* that starts at zero, means "seed now" when it is zero, and is set to    *)
(* zero again where it equals a maximum that the program can change.       *)
(***************************************************************************)
EXTENDS Integers

CONSTANT INT_MAX    \* 2^31 - 1 on the platforms the library supports

ASSUME SeedCycleAssumption == INT_MAX \in Nat \ {0}

INT_MIN == -INT_MAX - 1
Int32 == INT_MIN..INT_MAX

\* Fault: the counter is wider than an int.
IntSucc_Wide(n) == n + 1

\* n + 1 as the compiled code computes it: signed overflow is undefined in C
\* and wraps in the builds the project has.
IntSucc(n) == IF n = INT_MAX THEN INT_MIN ELSE n + 1

\* Fault: the counter is never set to zero.
Advance_NoReset(count, max) == IntSucc(count)

\* Fault: the counter stops at its largest value.
Advance_Saturating(count, max) ==
    IF count = max THEN 0 ELSE IF count = INT_MAX THEN INT_MAX ELSE count + 1

\* count = (count == max) ? 0 : count + 1
Advance(count, max) == IF count = max THEN 0 ELSE IntSucc(count)
==============================================================================
