----------------------------- MODULE QuidMemSeed -----------------------------
(***************************************************************************)
(* get_memory_seed and quid_set_mem_seed of quid.c: the seed in the nodes  *)
(* of REV4 identifiers, kept in the file RANDFILE that all processes of a  *)
(* directory share.                                                        *)
(*                                                                         *)
(* Every library call on the file is a step of its own: another process    *)
(* may run, or this one may crash, between fopen and fread, and between    *)
(* fopen, which truncates, and fclose, which writes what fwrite buffered.  *)
(* A process that the library ends with exit(-1), or that ends by itself,  *)
(* is started again with fresh statics.                                    *)
(***************************************************************************)
EXTENDS SeedCycle

CONSTANTS Procs,           \* processes that run in the same directory
          Seeds,           \* what the uninitialised stack may hold
          MEM_SEED_CYCLE,  \* the cycle at start, 65536 in the source
          Cycles,          \* the cycles passed to quid_set_mem_seed
          Permissions,     \* sets of processes that may not open the file at all
          MayFail,         \* TRUE: fopen, fread, fwrite or fclose may fail
          MaxFaults,       \* bound: how many crashes and failures there are
          Absent, Empty,   \* no file; a file of length zero
          Zero, NoNode     \* the static's initial bytes; no call returned yet

ASSUME MemSeedAssumption ==
    /\ MEM_SEED_CYCLE \in Int32
    /\ Cycles \subseteq Int32
    /\ Permissions \subseteq SUBSET Procs
    /\ MayFail \in BOOLEAN
    /\ MaxFaults \in Nat
    /\ Absent # Empty
    /\ Zero # NoNode
    /\ {Absent, Empty, Zero, NoNode} \cap Seeds = {}

VARIABLES file,            \* RANDFILE
          denied,          \* the processes that may not open it
          faults,          \* how many crashes and failures there were
          max_mem_seed,    \* static int max_mem_seed
          mem_seed_count,  \* static int mem_seed_count
          saved_node,      \* static cuuid_node_t saved_node
          pc,              \* where each process is in get_memory_seed
          node,            \* the node the last call of this run returned
          parted           \* ghost: may the file hold another seed than saved_node?

statics == <<max_mem_seed, mem_seed_count, saved_node>>
vars == <<file, denied, faults, max_mem_seed, mem_seed_count, saved_node, pc, node, parted>>

Init ==
    /\ file = Absent
    /\ denied \in Permissions
    /\ faults = 0
    /\ max_mem_seed = [p \in Procs |-> MEM_SEED_CYCLE]
    /\ mem_seed_count = [p \in Procs |-> 0]
    /\ saved_node = [p \in Procs |-> Zero]
    /\ pc = [p \in Procs |-> "idle"]
    /\ node = [p \in Procs |-> NoNode]
    /\ parted = [p \in Procs |-> FALSE]

Goto(p, l) == pc' = [pc EXCEPT ![p] = l]

------------------------------------------------------------------------------
\* quid_set_mem_seed
SetMemSeed(p, cnt) ==
    /\ pc[p] = "idle"
    /\ max_mem_seed' = [max_mem_seed EXCEPT ![p] = cnt]
    /\ UNCHANGED <<file, denied, faults, mem_seed_count, saved_node, pc, node, parted>>

------------------------------------------------------------------------------
\* get_memory_seed.

\* Fault: the seed is loaded once and kept.
MustLoad_Once(p) == saved_node[p] = Zero

\* Fault: the counter is tested at its other end.
MustLoad_AtMax(p) == mem_seed_count[p] = max_mem_seed[p]

MustLoad(p) == mem_seed_count[p] = 0

Call(p) ==
    /\ pc[p] = "idle"
    /\ Goto(p, IF MustLoad(p) THEN "open" ELSE "advance")
    /\ UNCHANGED <<file, denied, faults, statics, node, parted>>

\* A library call on the file fails; how often, MaxFaults bounds.
Fault == MayFail /\ faults < MaxFaults /\ faults' = faults + 1

\* fopen(RANDFILE, "rb")
OpenToRead(p) ==
    /\ pc[p] = "open"
    /\ file # Absent /\ p \notin denied
    /\ Goto(p, "read")
    /\ UNCHANGED <<file, denied, faults, statics, node, parted>>

\* Fault: an empty file is not taken for an error.
Read_NoCheck(p) ==
    /\ pc[p] = "read"
    /\ saved_node' = [saved_node EXCEPT ![p] = IF file = Empty THEN @ ELSE file]
    /\ parted' = [parted EXCEPT ![p] = FALSE]
    /\ Goto(p, "advance")
    /\ UNCHANGED <<file, denied, faults, max_mem_seed, mem_seed_count, node>>

\* fread and fclose; FATAL_ERROR_BAIL where there is nothing to read.
Read(p) ==
    /\ pc[p] = "read"
    /\ IF file = Empty
       THEN Goto(p, "exited") /\ UNCHANGED <<saved_node, parted>>
       ELSE /\ Goto(p, "advance")
            /\ saved_node' = [saved_node EXCEPT ![p] = file]
            /\ parted' = [parted EXCEPT ![p] = FALSE]
    /\ UNCHANGED <<file, denied, faults, max_mem_seed, mem_seed_count, node>>

\* fopen(RANDFILE, "rb") has failed: take what the stack holds as the seed.
TakeStack(p) ==
    /\ pc[p] = "open"
    /\ \E s \in Seeds : saved_node' = [saved_node EXCEPT ![p] = s]
    /\ Goto(p, "create")
    /\ UNCHANGED <<file, denied, max_mem_seed, mem_seed_count, node, parted>>

\* Fault: the result of fopen is not looked at.
PickSeed_Always(p) == TakeStack(p) /\ UNCHANGED faults

\* There is no file, or none that the process may read.
PickSeed(p) ==
    /\ file = Absent \/ p \in denied
    /\ TakeStack(p)
    /\ UNCHANGED faults

\* There is one, but the call fails: no descriptor is free, or, on Windows,
\* another process has the file open.
CannotRead(p) ==
    /\ file # Absent /\ p \notin denied
    /\ Fault
    /\ TakeStack(p)

\* fopen(RANDFILE, "wb") creates the file or truncates it.
OpenToWrite(p) ==
    /\ pc[p] = "create"
    /\ p \notin denied
    /\ file' = Empty
    /\ parted' = [q \in Procs |-> parted[q] \/ q # p]
    /\ Goto(p, "write")
    /\ UNCHANGED <<denied, faults, statics, node>>

\* fopen(RANDFILE, "wb") fails, which the function does not mind.
CannotCreate(p) ==
    /\ pc[p] = "create"
    /\ IF p \in denied THEN UNCHANGED faults ELSE Fault
    /\ parted' = [parted EXCEPT ![p] = TRUE]
    /\ Goto(p, "advance")
    /\ UNCHANGED <<file, denied, statics, node>>

\* Fault: the file is closed without the node having been written.
Write_Nothing(p) ==
    /\ pc[p] = "write"
    /\ Goto(p, "advance")
    /\ UNCHANGED <<file, denied, faults, statics, node, parted>>

\* fwrite and fclose
Write(p) ==
    /\ pc[p] = "write"
    /\ file' = saved_node[p]
    /\ parted' = [q \in Procs |-> q # p]
    /\ Goto(p, "advance")
    /\ UNCHANGED <<denied, faults, statics, node>>

\* fread, fwrite or fclose fails, as on a full disk: FATAL_ERROR_BAIL, and the
\* file stays as it is.
InputOutputFails(p) ==
    /\ pc[p] \in {"read", "write"}
    /\ Fault
    /\ Goto(p, "exited")
    /\ UNCHANGED <<file, denied, statics, node, parted>>

\* Advance the counter and return the seed.
Return(p) ==
    /\ pc[p] = "advance"
    /\ mem_seed_count' = [mem_seed_count EXCEPT ![p] = Advance(@, max_mem_seed[p])]
    /\ node' = [node EXCEPT ![p] = saved_node[p]]
    /\ Goto(p, "idle")
    /\ UNCHANGED <<file, denied, faults, max_mem_seed, saved_node, parted>>

------------------------------------------------------------------------------
\* The life of a process.

\* The statics of a new run.
Fresh(p) ==
    /\ max_mem_seed' = [max_mem_seed EXCEPT ![p] = MEM_SEED_CYCLE]
    /\ mem_seed_count' = [mem_seed_count EXCEPT ![p] = 0]
    /\ saved_node' = [saved_node EXCEPT ![p] = Zero]
    /\ node' = [node EXCEPT ![p] = NoNode]
    /\ parted' = [parted EXCEPT ![p] = FALSE]
    /\ Goto(p, "idle")
    /\ UNCHANGED <<file, denied>>

\* A run that is over, by exit(-1) or by its own will, is followed by another.
Restart(p) ==
    /\ pc[p] = "exited" \/ pc[p] = "idle"
    /\ Fresh(p)
    /\ UNCHANGED faults

\* The process is killed inside the call.
Crash(p) ==
    /\ faults < MaxFaults
    /\ pc[p] \notin {"idle", "exited"}
    /\ faults' = faults + 1
    /\ Fresh(p)

Load(p) ==
    \/ OpenToRead(p) \/ Read(p) \/ PickSeed(p) \/ CannotRead(p) \/ OpenToWrite(p)
    \/ CannotCreate(p) \/ Write(p) \/ InputOutputFails(p) \/ Return(p)

Next ==
    \E p \in Procs :
        \/ \E cnt \in Cycles : SetMemSeed(p, cnt)
        \/ Call(p)
        \/ OpenToRead(p)
        \/ Read(p)
        \/ PickSeed(p)
        \/ CannotRead(p)
        \/ OpenToWrite(p)
        \/ CannotCreate(p)
        \/ Write(p)
        \/ InputOutputFails(p)
        \/ Return(p)
        \/ Restart(p)
        \/ Crash(p)

Spec == Init /\ [][Next]_vars

\* A call that is under way goes on, a process that was ended by the library
\* is started again, and programs keep making identifiers.
FairSpec ==
    /\ Spec
    /\ \A p \in Procs :
          /\ WF_vars(Load(p))
          /\ WF_vars(Call(p))
          /\ WF_vars((pc[p] = "exited") /\ Restart(p))

------------------------------------------------------------------------------
\* Properties.

TypeOK ==
    /\ file \in Seeds \cup {Absent, Empty}
    /\ denied \in Permissions
    /\ faults \in 0..MaxFaults
    /\ max_mem_seed \in [Procs -> Int32]
    /\ mem_seed_count \in [Procs -> Int32]
    /\ saved_node \in [Procs -> Seeds \cup {Zero}]
    /\ pc \in [Procs -> {"idle", "open", "read", "create", "write", "advance", "exited"}]
    /\ node \in [Procs -> Seeds \cup {Zero, NoNode}]
    /\ parted \in [Procs -> BOOLEAN]

\* get_memory_seed never returns the zeroes its static starts with: whatever
\* cycles are set, whatever fails, the first call of a run loads a seed.
ReturnsSeed == \A p \in Procs : node[p] # Zero

\* Before the first crash or full disk, the file is empty only while some process
\* is between the fopen that truncates it and the fclose that fills it.
EmptyMeansWriting ==
    faults = 0 /\ file = Empty => \E p \in Procs : pc[p] = "write"

\* The processes of a directory that may open its seed file end up with one seed,
\* once no more call fails and nobody crashes: the race to create the file is over
\* in the end, and who took another seed reads the file after its cycle.
SeedsConverge == <>[](\A p \in Procs \ denied : node[p] \in {NoNode, file})

\* "Read seed or create if not exist": a seed is in the file, and no process that
\* can write is about to create the file because it found none.
Settled == file \in Seeds /\ \A p \in Procs \ denied : pc[p] \notin {"create", "write"}

\* Once the seed file is settled it stays as it is for all processes, through
\* cycles, crashes and full disks, until an fopen that should read it fails: the
\* function takes that for a missing file and replaces the seed (get_memory_seed).
SettledStays ==
    [][Settled /\ ~(\E p \in Procs : CannotRead(p)) => file' = file /\ Settled']_vars

\* The seed that a call has returned is the one in the file, through cycles of any
\* length, crashes and failing calls, until another process replaces the file, or
\* unless it could be opened neither to read nor to write (get_memory_seed).
ReturnsFile ==
    \A p \in Procs : pc[p] = "idle" /\ ~parted[p] => node[p] \in {NoNode, file}

\* "Read seed or create if not exist": some process gets its seed in the end.
SomeCallReturns == <>(\E p \in Procs : node[p] # NoNode)
==============================================================================
