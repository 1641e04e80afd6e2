-------------------------- MODULE QuidMemSeed_proofs --------------------------
(***************************************************************************)
(* Theorems about get_memory_seed, for every number of processes and of    *)
(* crashes, every width of int and every series of calls.                  *)
(***************************************************************************)
EXTENDS QuidMemSeed, TLAPS

LEMMA AdvanceIsInt ==
    ASSUME NEW n \in Int32, NEW max \in Int32
    PROVE  Advance(n, max) \in Int32
BY SeedCycleAssumption DEF Advance, IntSucc, Int32, INT_MIN

LEMMA ZeroIsInt == 0 \in Int32
BY SeedCycleAssumption DEF Int32, INT_MIN

\* A process past the loading of the seed holds one and keeps it, the file that it
\* reads does not disappear, and who writes it may open it.
LoadedInv ==
    \A p \in Procs :
        /\ pc[p] \in {"create", "write", "advance"} => saved_node[p] \in Seeds
        /\ mem_seed_count[p] # 0 => saved_node[p] \in Seeds
        /\ node[p] # Zero
        /\ pc[p] = "read" => file # Absent
        /\ pc[p] = "write" => p \notin denied

SeedInv == TypeOK /\ LoadedInv

LEMMA SeedInvariant == Spec => []SeedInv
<1>1. Init => SeedInv
    BY ZeroIsInt, MemSeedAssumption DEF Init, SeedInv, TypeOK, LoadedInv
<1>2. SeedInv /\ [Next]_vars => SeedInv'
    <2> SUFFICES ASSUME SeedInv, [Next]_vars
                 PROVE  SeedInv'
        OBVIOUS
    <2> USE DEF SeedInv
    <2>1. ASSUME NEW p \in Procs, NEW cnt \in Cycles, SetMemSeed(p, cnt)
          PROVE  SeedInv'
        BY <2>1, MemSeedAssumption DEF SetMemSeed, TypeOK, LoadedInv
    <2>2. ASSUME NEW p \in Procs, Call(p)
          PROVE  SeedInv'
        BY <2>2 DEF Call, MustLoad, Goto, statics, TypeOK, LoadedInv
    <2>3. ASSUME NEW p \in Procs, OpenToRead(p)
          PROVE  SeedInv'
        BY <2>3 DEF OpenToRead, Goto, statics, TypeOK, LoadedInv
    <2>4. ASSUME NEW p \in Procs, Read(p)
          PROVE  SeedInv'
        <3>1. file \in Seeds \cup {Empty}
            BY <2>4 DEF Read, TypeOK, LoadedInv
        <3>2. CASE file = Empty
            BY <2>4, <3>2 DEF Read, Goto, TypeOK, LoadedInv
        <3>3. CASE file \in Seeds /\ file # Empty
            <4>1. /\ pc' = [pc EXCEPT ![p] = "advance"]
                  /\ saved_node' = [saved_node EXCEPT ![p] = file]
                  /\ parted' = [parted EXCEPT ![p] = FALSE]
                  /\ UNCHANGED <<file, denied, faults, max_mem_seed,
                                 mem_seed_count, node>>
                BY <2>4, <3>3 DEF Read, Goto
            <4>2. TypeOK'
                BY <3>3, <4>1 DEF TypeOK
            <4>3. LoadedInv'
                BY <3>3, <4>1 DEF TypeOK, LoadedInv
            <4> QED BY <4>2, <4>3
        <3> QED BY <3>1, <3>2, <3>3
    <2>5. ASSUME NEW p \in Procs, PickSeed(p) \/ CannotRead(p)
          PROVE  SeedInv'
        <3>1. TakeStack(p) /\ faults' \in 0..MaxFaults
            BY <2>5, MemSeedAssumption DEF PickSeed, CannotRead, Fault, TypeOK
        <3> QED BY <3>1 DEF TakeStack, Goto, TypeOK, LoadedInv
    <2>6. ASSUME NEW p \in Procs, OpenToWrite(p)
          PROVE  SeedInv'
        BY <2>6, MemSeedAssumption DEF OpenToWrite, Goto, statics, TypeOK, LoadedInv
    <2>7. ASSUME NEW p \in Procs, CannotCreate(p)
          PROVE  SeedInv'
        <3>1. faults' \in 0..MaxFaults
            BY <2>7, MemSeedAssumption DEF CannotCreate, Fault, TypeOK
        <3> QED BY <2>7, <3>1 DEF CannotCreate, Goto, statics, TypeOK, LoadedInv
    <2>8. ASSUME NEW p \in Procs, Write(p)
          PROVE  SeedInv'
        BY <2>8, MemSeedAssumption DEF Write, Goto, statics, TypeOK, LoadedInv
    <2>9. ASSUME NEW p \in Procs, InputOutputFails(p)
          PROVE  SeedInv'
        BY <2>9, MemSeedAssumption
        DEF InputOutputFails, Fault, Goto, statics, TypeOK, LoadedInv
    <2>10. ASSUME NEW p \in Procs, Return(p)
           PROVE  SeedInv'
        <3>1. saved_node[p] \in Seeds /\ Zero \notin Seeds
            BY <2>10, MemSeedAssumption DEF Return, LoadedInv
        <3>2. mem_seed_count' \in [Procs -> Int32]
            BY <2>10, AdvanceIsInt DEF Return, TypeOK
        <3> QED BY <2>10, <3>1, <3>2 DEF Return, Goto, TypeOK, LoadedInv
    <2>11. ASSUME NEW p \in Procs, Restart(p) \/ Crash(p)
           PROVE  SeedInv'
        <3>1. Fresh(p) /\ faults' \in 0..MaxFaults
            BY <2>11, MemSeedAssumption DEF Restart, Crash, TypeOK
        <3>2. TypeOK'
            BY <3>1, ZeroIsInt, MemSeedAssumption DEF Fresh, Goto, TypeOK
        <3>3. LoadedInv'
            BY <3>1, MemSeedAssumption DEF Fresh, Goto, TypeOK, LoadedInv
        <3> QED BY <3>2, <3>3
    <2>12. CASE UNCHANGED vars
        BY <2>12 DEF vars, TypeOK, LoadedInv
    <2> QED
        BY <2>1, <2>2, <2>3, <2>4, <2>5, <2>6, <2>7, <2>8, <2>9, <2>10, <2>11, <2>12
        DEF Next
<1> QED BY <1>1, <1>2, PTL DEF Spec

\* The variables keep their types.
THEOREM MemSeedTypeCorrect == Spec => []TypeOK
BY SeedInvariant, PTL DEF SeedInv

\* Whatever fails and whatever cycles are set, no call returns the zeroes
\* of the static variable.
THEOREM SeedReturned == Spec => []ReturnsSeed
<1>1. SeedInv => ReturnsSeed
    BY DEF SeedInv, LoadedInv, ReturnsSeed
<1> QED BY <1>1, SeedInvariant, PTL

------------------------------------------------------------------------------
(***************************************************************************)
(* Until a call fails or a process crashes, only a process that is about   *)
(* to fill the file leaves it empty.                                       *)
(***************************************************************************)
THEOREM EmptyIsTransient == Spec => []EmptyMeansWriting
<1>1. Init => EmptyMeansWriting
    BY MemSeedAssumption DEF Init, EmptyMeansWriting
<1>2. SeedInv /\ EmptyMeansWriting /\ [Next]_vars => EmptyMeansWriting'
    <2> SUFFICES ASSUME SeedInv, EmptyMeansWriting, [Next]_vars,
                        faults' = 0, file' = Empty
                 PROVE  \E q \in Procs : pc'[q] = "write"
        BY DEF EmptyMeansWriting
    <2> USE DEF SeedInv
    <2>1. ASSUME NEW p \in Procs, OpenToWrite(p)
          PROVE  \E q \in Procs : pc'[q] = "write"
        BY <2>1 DEF OpenToWrite, Goto, TypeOK
    <2>2. ASSUME NEW p \in Procs, Write(p)
          PROVE  \E q \in Procs : pc'[q] = "write"
        BY <2>2, MemSeedAssumption DEF Write, LoadedInv
    <2>3. ASSUME NEW p \in Procs, CannotRead(p) \/ InputOutputFails(p) \/ Crash(p)
          PROVE  \E q \in Procs : pc'[q] = "write"
        BY <2>3 DEF CannotRead, InputOutputFails, Fault, Crash, TypeOK
    <2>4. CASE /\ file' = file /\ faults' = faults
               /\ \A q \in Procs : pc[q] = "write" => pc'[q] = "write"
        BY <2>4 DEF EmptyMeansWriting
    <2>5. ASSUME NEW p \in Procs,
                 \/ \E cnt \in Cycles : SetMemSeed(p, cnt)
                 \/ Call(p) \/ OpenToRead(p) \/ Read(p) \/ PickSeed(p)
                 \/ CannotCreate(p) \/ Return(p) \/ Restart(p)
          PROVE  \E q \in Procs : pc'[q] = "write"
        <3>1. file' = file /\ faults' = faults /\ pc[p] # "write"
            BY <2>5
            DEF SetMemSeed, Call, OpenToRead, Read, PickSeed, TakeStack, CannotCreate,
                Fault, Return, Restart, Fresh, TypeOK
        <3>2. \A q \in Procs \ {p} : pc'[q] = pc[q]
            BY <2>5
            DEF SetMemSeed, Call, OpenToRead, Read, PickSeed, TakeStack, CannotCreate,
                Return, Restart, Fresh, Goto, TypeOK
        <3> QED BY <3>1, <3>2, <2>4
    <2>6. CASE UNCHANGED vars
        BY <2>6, <2>4 DEF vars
    <2> QED BY <2>1, <2>2, <2>3, <2>5, <2>6 DEF Next
<1> QED BY <1>1, <1>2, SeedInvariant, PTL DEF Spec

\* Once a seed is settled in the file, no number of processes, cycles and crashes
\* replaces it, as long as every fopen that should read it succeeds.
THEOREM SettledForGood == Spec => SettledStays
<1>1. SeedInv /\ [Next]_vars
      => [Settled /\ ~(\E p \in Procs : CannotRead(p)) => file' = file /\ Settled']_vars
    <2> SUFFICES ASSUME SeedInv, [Next]_vars, Settled,
                        \A p \in Procs : ~CannotRead(p)
                 PROVE  file' = file /\ Settled'
        OBVIOUS
    <2> USE DEF SeedInv
    <2>1. file # Absent /\ \A p \in Procs : pc[p] # "write"
        BY MemSeedAssumption DEF Settled, LoadedInv
    <2>2. ASSUME NEW p \in Procs, OpenToWrite(p) \/ Write(p)
          PROVE  FALSE
        BY <2>1, <2>2 DEF OpenToWrite, Write, Settled
    <2>3. ASSUME NEW p \in Procs, PickSeed(p)
          PROVE  file' = file /\ Settled'
        BY <2>1, <2>3 DEF PickSeed, TakeStack, Goto, Settled, TypeOK
    <2>4. ASSUME NEW p \in Procs, NEW cnt \in Cycles, SetMemSeed(p, cnt)
          PROVE  file' = file /\ Settled'
        BY <2>4 DEF SetMemSeed, Settled
    <2>5. ASSUME NEW p \in Procs,
                 \/ Call(p) \/ OpenToRead(p) \/ Read(p)
                 \/ CannotCreate(p) \/ InputOutputFails(p) \/ Return(p)
          PROVE  file' = file /\ Settled'
        BY <2>5
        DEF Call, OpenToRead, Read, CannotCreate, InputOutputFails, Return, Goto,
            Settled, TypeOK
    <2>6. ASSUME NEW p \in Procs, Restart(p) \/ Crash(p)
          PROVE  file' = file /\ Settled'
        BY <2>6 DEF Restart, Crash, Fresh, Goto, Settled, TypeOK
    <2>7. CASE UNCHANGED vars
        BY <2>7 DEF vars, Settled
    <2> QED BY <2>2, <2>3, <2>4, <2>5, <2>6, <2>7 DEF Next
<1> QED BY <1>1, SeedInvariant, PTL DEF Spec, SettledStays

------------------------------------------------------------------------------
(***************************************************************************)
(* From the end of the loading to the end of the cycle, the seed that a    *)
(* process holds is in the file, unless another one has replaced it or the *)
(* file could not be opened.  While it loads a seed, none is held.         *)
(***************************************************************************)
InFile(p) == file \in Seeds /\ saved_node[p] = file

HeldInv ==
    \A p \in Procs :
        /\ pc[p] \in {"open", "read", "create", "write"} => mem_seed_count[p] = 0
        /\ pc[p] = "advance" /\ ~parted[p] => InFile(p)
        /\ pc[p] = "idle" /\ mem_seed_count[p] # 0 /\ ~parted[p] => InFile(p)
        /\ pc[p] = "idle" /\ ~parted[p] => node[p] \in {NoNode, file}

LEMMA HeldInvariant == Spec => []HeldInv
<1>1. Init => HeldInv
    BY DEF Init, HeldInv
<1>2. SeedInv /\ HeldInv /\ [Next]_vars => HeldInv'
    <2> SUFFICES ASSUME SeedInv, HeldInv, [Next]_vars
                 PROVE  HeldInv'
        OBVIOUS
    <2> USE DEF SeedInv, InFile
    <2>1. ASSUME NEW p \in Procs, NEW cnt \in Cycles, SetMemSeed(p, cnt)
          PROVE  HeldInv'
        BY <2>1 DEF SetMemSeed, HeldInv
    <2>2. ASSUME NEW p \in Procs, Call(p)
          PROVE  HeldInv'
        BY <2>2 DEF Call, MustLoad, Goto, statics, TypeOK, HeldInv
    <2>3. ASSUME NEW p \in Procs, OpenToRead(p)
          PROVE  HeldInv'
        BY <2>3 DEF OpenToRead, Goto, statics, TypeOK, HeldInv
    <2>4. ASSUME NEW p \in Procs, Read(p)
          PROVE  HeldInv'
        <3>1. CASE file = Empty
            BY <2>4, <3>1 DEF Read, Goto, TypeOK, HeldInv
        <3>2. CASE file # Empty
            <4>1. file \in Seeds
                BY <2>4, <3>2 DEF Read, TypeOK, LoadedInv
            <4> QED BY <2>4, <3>2, <4>1 DEF Read, Goto, TypeOK, HeldInv
        <3> QED BY <3>1, <3>2
    <2>5. ASSUME NEW p \in Procs, PickSeed(p) \/ CannotRead(p)
          PROVE  HeldInv'
        <3>1. TakeStack(p)
            BY <2>5 DEF PickSeed, CannotRead
        <3> QED BY <3>1 DEF TakeStack, Goto, TypeOK, HeldInv
    <2>6. ASSUME NEW p \in Procs, OpenToWrite(p)
          PROVE  HeldInv'
        BY <2>6 DEF OpenToWrite, Goto, statics, TypeOK, HeldInv
    <2>7. ASSUME NEW p \in Procs, CannotCreate(p) \/ InputOutputFails(p)
          PROVE  HeldInv'
        BY <2>7 DEF CannotCreate, InputOutputFails, Goto, statics, TypeOK, HeldInv
    <2>8. ASSUME NEW p \in Procs, Write(p)
          PROVE  HeldInv'
        <3>1. saved_node[p] \in Seeds
            BY <2>8 DEF Write, LoadedInv
        <3> QED BY <2>8, <3>1 DEF Write, Goto, statics, TypeOK, HeldInv
    <2>9. ASSUME NEW p \in Procs, Return(p)
          PROVE  HeldInv'
        BY <2>9 DEF Return, Goto, TypeOK, HeldInv
    <2>10. ASSUME NEW p \in Procs, Restart(p) \/ Crash(p)
           PROVE  HeldInv'
        BY <2>10 DEF Restart, Crash, Fresh, Goto, TypeOK, HeldInv
    <2>11. CASE UNCHANGED vars
        BY <2>11 DEF vars, HeldInv
    <2> QED
        BY <2>1, <2>2, <2>3, <2>4, <2>5, <2>6, <2>7, <2>8, <2>9, <2>10, <2>11
        DEF Next
<1> QED BY <1>1, <1>2, SeedInvariant, PTL DEF Spec

\* Every process returns the seed that is in the file, through every crash and
\* every failing call, until another one replaces it or it can be opened in
\* neither mode.
THEOREM SeedIsInFile == Spec => []ReturnsFile
<1>1. HeldInv => ReturnsFile
    BY DEF HeldInv, ReturnsFile
<1> QED BY <1>1, HeldInvariant, PTL
==============================================================================
