-------------------------- MODULE QuidRandom_proofs --------------------------
(***************************************************************************)
(* Theorems about true_random's counter, for every width of int and every  *)
(* series of calls of quid_set_rnd_seed.                                   *)
(***************************************************************************)
EXTENDS QuidRandom, TLAPS

\* Advance stays within an int, and is zero or the successor.
LEMMA AdvanceStep ==
    ASSUME NEW n \in Int32, NEW max \in Int32
    PROVE  /\ Advance(n, max) \in Int32
           /\ n = max => Advance(n, max) = 0
           /\ n # max /\ n = INT_MAX => Advance(n, max) = INT_MIN
           /\ n # max /\ n # INT_MAX => Advance(n, max) = n + 1
BY SeedCycleAssumption DEF Advance, IntSucc, Int32, INT_MIN, MaxDrawn

DrawnInv ==
    /\ TypeOK
    /\ CountIsDrawn
    /\ rnd_seed_count # 0 => drawn >= 1 /\ drawn <= INT_MAX - INT_MIN

LEMMA DrawnInvariant == Spec => []DrawnInv
<1>1. Init => DrawnInv
    <2>1. Init => overrun \in BOOLEAN
        BY Zenon DEF Init
    <2> QED
        BY <2>1, SeedCycleAssumption, RandomAssumption
        DEF Init, DrawnInv, TypeOK, CountIsDrawn, Int32, INT_MIN, MaxDrawn
<1>2. DrawnInv /\ [Next]_vars => DrawnInv'
    <2> SUFFICES ASSUME DrawnInv, [Next]_vars
                 PROVE  DrawnInv'
        OBVIOUS
    <2> USE DEF DrawnInv
    <2>0. overrun' \in BOOLEAN
        <3>1. overrun \in BOOLEAN
            BY Zenon DEF TypeOK
        <3>2. \/ overrun' = overrun
              \/ \E cnt \in Cycles : overrun' = (overrun \/ cnt < rnd_seed_count)
              \/ overrun' = (max_rnd_seed < 0)
            <4>1. Draw => overrun' = overrun \/ overrun' = (max_rnd_seed < 0)
                BY Zenon DEF Draw
            <4> QED BY <4>1, Zenon DEF Next, Tick, SetRndSeed, vars
        <3>3. \A cnt \in Cycles : (overrun \/ cnt < rnd_seed_count) \in BOOLEAN
            BY SMT
        <3>4. (max_rnd_seed < 0) \in BOOLEAN
            BY SMT
        <3> QED BY <3>1, <3>2, <3>3, <3>4, Zenon
    <2>1. CASE Tick
        BY <2>1, RandomAssumption DEF Tick, TypeOK, CountIsDrawn
    <2>2. ASSUME NEW cnt \in Cycles, SetRndSeed(cnt)
          PROVE  DrawnInv'
        BY <2>0, <2>2, RandomAssumption DEF SetRndSeed, TypeOK, CountIsDrawn
    <2>3. CASE Draw
        <3>1. rnd_seed_count' = Advance(rnd_seed_count, max_rnd_seed)
            BY <2>3 DEF Draw
        <3>2. CASE rnd_seed_count = 0
            <4>1. drawn' = 1 /\ seed' = bucket
                BY <2>3, <3>2 DEF Draw, MustSeed
            <4>2. rnd_seed_count' = 0 \/ rnd_seed_count' = 1
                BY <3>1, <3>2, AdvanceStep, SeedCycleAssumption DEF TypeOK
            <4> QED
                BY <2>0, <2>3, <4>1, <4>2, SeedCycleAssumption
                DEF Draw, TypeOK, CountIsDrawn, Int32, INT_MIN, MaxDrawn
        <3>3. CASE rnd_seed_count # 0
            <4>1. drawn' = drawn + 1 /\ seed' = seed
                BY <2>3, <3>3, SeedCycleAssumption DEF Draw, MustSeed, MaxDrawn, INT_MIN
            <4>2. /\ rnd_seed_count' \in Int32
                  /\ \/ rnd_seed_count' = 0
                     \/ rnd_seed_count = INT_MAX /\ rnd_seed_count' = INT_MIN
                     \/ rnd_seed_count # INT_MAX /\ rnd_seed_count' = rnd_seed_count + 1
                BY <3>1, AdvanceStep DEF TypeOK
            <4> QED
                BY <2>0, <2>3, <3>3, <4>1, <4>2, SeedCycleAssumption
                DEF Draw, TypeOK, CountIsDrawn, Int32, INT_MIN, MaxDrawn
        <3> QED BY <3>2, <3>3
    <2>4. CASE UNCHANGED vars
        BY <2>4 DEF vars, TypeOK, CountIsDrawn
    <2> QED BY <2>1, <2>2, <2>3, <2>4 DEF Next
<1> QED BY <1>1, <1>2, PTL DEF Spec

\* The variables keep their types; the counter wraps within an int.
THEOREM RandomTypeCorrect == Spec => []TypeOK
BY DrawnInvariant, PTL DEF DrawnInv

\* The counter always equals the numbers drawn from the seed, modulo the
\* width of an int.
THEOREM CountTracksDrawn == Spec => []CountIsDrawn
BY DrawnInvariant, PTL DEF DrawnInv

------------------------------------------------------------------------------
(***************************************************************************)
(* Unless it was overrun, the cycle is never below the counter, so the     *)
(* comparison for equality always meets it.                                *)
(***************************************************************************)
CycleInv ==
    ~overrun =>
        /\ rnd_seed_count >= 0
        /\ rnd_seed_count # 0 => rnd_seed_count = drawn /\ drawn <= max_rnd_seed

LEMMA CycleInvariant == Spec => [](DrawnInv /\ CycleInv)
<1>1. Init => CycleInv
    BY DEF Init, CycleInv
<1>2. DrawnInv /\ CycleInv /\ [Next]_vars => CycleInv'
    <2> SUFFICES ASSUME DrawnInv, CycleInv, [Next]_vars, ~overrun'
                 PROVE  CycleInv'
        BY DEF CycleInv
    <2> USE DEF DrawnInv
    <2>1. CASE Tick
        BY <2>1 DEF Tick, CycleInv
    <2>2. ASSUME NEW cnt \in Cycles, SetRndSeed(cnt)
          PROVE  CycleInv'
        <3>1. cnt \in Int /\ rnd_seed_count \in Int
            BY RandomAssumption DEF TypeOK, Int32, INT_MIN, MaxDrawn
        <3>2. ~overrun /\ ~(cnt < rnd_seed_count)
            BY <2>2, Zenon DEF SetRndSeed
        <3>3. max_rnd_seed' = cnt /\ UNCHANGED <<rnd_seed_count, drawn>>
            BY <2>2 DEF SetRndSeed
        <3> QED BY <3>1, <3>2, <3>3 DEF CycleInv
    <2>3. CASE Draw
        <3>1. /\ rnd_seed_count = max_rnd_seed => rnd_seed_count' = 0
              /\ rnd_seed_count # max_rnd_seed /\ rnd_seed_count # INT_MAX =>
                    rnd_seed_count' = rnd_seed_count + 1
            BY <2>3, AdvanceStep DEF Draw, TypeOK
        <3>2. /\ max_rnd_seed' = max_rnd_seed /\ max_rnd_seed <= INT_MAX
              /\ max_rnd_seed \in Int /\ rnd_seed_count \in Int /\ drawn \in Int
              /\ INT_MAX \in Nat \ {0}
            BY <2>3, SeedCycleAssumption DEF Draw, TypeOK, Int32, INT_MIN, MaxDrawn
        <3>3. CASE rnd_seed_count = 0
            <4>1. drawn' = 1 /\ ~(max_rnd_seed < 0)
                BY <2>3, <3>3, Zenon DEF Draw, MustSeed
            <4> QED BY <3>1, <3>2, <3>3, <4>1 DEF CycleInv
        <3>4. CASE rnd_seed_count # 0
            <4>1. drawn' = drawn + 1 /\ ~overrun
                BY <2>3, <3>4, SeedCycleAssumption DEF Draw, MustSeed, MaxDrawn, INT_MIN
            <4> QED BY <3>1, <3>2, <3>4, <4>1 DEF CycleInv
        <3> QED BY <3>3, <3>4
    <2>4. CASE UNCHANGED vars
        BY <2>4 DEF vars, CycleInv
    <2> QED BY <2>1, <2>2, <2>3, <2>4 DEF Next
<1> QED BY <1>1, <1>2, DrawnInvariant, PTL DEF Spec

\* A seed serves at most n + 1 numbers of a cycle n, unless the program sets
\* the cycle below the count or to a negative number.
THEOREM CycleServed == Spec => SeedServesCycle
<1>1. DrawnInv /\ CycleInv /\ [Next]_vars =>
          [Draw /\ ~overrun /\ max_rnd_seed >= 0 => drawn' <= max_rnd_seed + 1]_vars
    <2> SUFFICES ASSUME DrawnInv, CycleInv, Draw, ~overrun, max_rnd_seed >= 0
                 PROVE  drawn' <= max_rnd_seed + 1
        OBVIOUS
    <2>1. max_rnd_seed \in Int /\ drawn \in Int
        BY DEF DrawnInv, TypeOK, Int32
    <2>2. CASE rnd_seed_count = 0
        BY <2>1, <2>2 DEF Draw, MustSeed
    <2>3. CASE rnd_seed_count # 0
        BY <2>1, <2>3 DEF Draw, MustSeed, CycleInv
    <2> QED BY <2>2, <2>3
<1> QED BY <1>1, CycleInvariant, PTL DEF Spec, SeedServesCycle
==============================================================================
