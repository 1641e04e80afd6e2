------------------------------ MODULE QuidClock ------------------------------
(***************************************************************************)
(* get_current_time of quid.c: the timestamps the identifiers are made of. *)
(*                                                                         *)
(* A process is one run of a program that links the library; it owns the   *)
(* static variables inited, time_last and ids_this_tick.  The processes    *)
(* share nothing but the system clock.  The clock counts granules, the     *)
(* steps in which the platform reports time, and get_system_time returns   *)
(* it in units of 100 ns: Resolution is 10 where gettimeofday counts       *)
(* microseconds and 10000 where win32_gettimeofday counts milliseconds.    *)
(*                                                                         *)
(* One step of the loop reads the clock once and then touches only the     *)
(* process's own statics, so it is one action; the clock, which other      *)
(* programs may also set back, moves between two steps.                    *)
(***************************************************************************)
EXTENDS Naturals, Sequences

CONSTANTS Procs,          \* processes
          UIDS_PER_TICK,  \* 1024 in the source
          Resolution,     \* 100 ns units per granule of the system clock
          BootTime,       \* granules since 1970 when the model starts
          MaxJump,        \* bound: granules the clock gains in one step
          MaxClock,       \* bound: the last granule modelled
          MaxStepBacks    \* bound: how often the clock is set back

ASSUME ClockAssumption ==
    /\ UIDS_PER_TICK \in Nat \ {0}
    /\ Resolution \in Nat \ {0}
    /\ BootTime \in Nat \ {0}       \* get_system_time asserts it is past 2001
    /\ MaxJump \in Nat
    /\ MaxClock \in Nat /\ BootTime <= MaxClock
    /\ MaxStepBacks \in Nat

VARIABLES clock,          \* granules since 1970
          stepBacks,      \* how often the clock was set back
          inited,         \* static int inited
          time_last,      \* static cuuid_time_t time_last
          ids_this_tick,  \* static uint16_t ids_this_tick
          pc,             \* "idle", or "loop" inside get_current_time
          stamps,         \* the timestamps each process received, in order
          burst           \* how many of them since the clock last moved

statics == <<inited, time_last, ids_this_tick>>
vars == <<clock, stepBacks, inited, time_last, ids_this_tick, pc, stamps, burst>>

\* get_system_time: seconds and microseconds squeezed into one integer.
SystemTime == clock * Resolution

Init ==
    /\ clock = BootTime
    /\ stepBacks = 0
    /\ inited = [p \in Procs |-> FALSE]
    /\ time_last = [p \in Procs |-> 0]
    /\ ids_this_tick = [p \in Procs |-> 0]
    /\ pc = [p \in Procs |-> "idle"]
    /\ stamps = [p \in Procs |-> <<>>]
    /\ burst = [p \in Procs |-> 0]

------------------------------------------------------------------------------
\* The system clock.

Tick ==
    /\ \E n \in 1..MaxJump :
          /\ clock + n <= MaxClock
          /\ clock' = clock + n
    /\ burst' = [p \in Procs |-> 0]
    /\ UNCHANGED <<stepBacks, statics, pc, stamps>>

StepBack ==
    /\ stepBacks < MaxStepBacks
    /\ clock > BootTime
    /\ clock' \in BootTime..(clock - 1)
    /\ stepBacks' = stepBacks + 1
    /\ burst' = [p \in Procs |-> 0]
    /\ UNCHANGED <<statics, pc, stamps>>

------------------------------------------------------------------------------
\* get_current_time.

\* The call, with the initialisation of the first one.  No call starts in
\* the last granule: the clock that would end its loop is not modelled.
Enter(p) ==
    /\ pc[p] = "idle"
    /\ clock < MaxClock
    /\ pc' = [pc EXCEPT ![p] = "loop"]
    /\ inited' = [inited EXCEPT ![p] = TRUE]
    /\ ids_this_tick' = IF inited[p] THEN ids_this_tick
                        ELSE [ids_this_tick EXCEPT ![p] = UIDS_PER_TICK]
    /\ UNCHANGED <<clock, stepBacks, time_last, stamps, burst>>

\* Fault: time_last is set before it is compared.
IsNewTick_UpdatedFirst(p) == SystemTime # SystemTime

IsNewTick(p) == time_last[p] # SystemTime

\* Fault: the last count is handed out too.
HasQuota_Inclusive(p) == ids_this_tick[p] <= UIDS_PER_TICK

HasQuota(p) == ids_this_tick[p] < UIDS_PER_TICK

\* Fault: the count is not added to the reading.
Return_BareClock(p) ==
    /\ pc' = [pc EXCEPT ![p] = "idle"]
    /\ stamps' = [stamps EXCEPT ![p] = Append(@, SystemTime)]
    /\ burst' = [burst EXCEPT ![p] = @ + 1]
    /\ UNCHANGED <<clock, stepBacks, inited>>

\* *timestamp = time_now + ids_this_tick; the call returns.
Return(p) ==
    /\ pc' = [pc EXCEPT ![p] = "idle"]
    /\ stamps' = [stamps EXCEPT ![p] = Append(@, SystemTime + ids_this_tick'[p])]
    /\ burst' = [burst EXCEPT ![p] = @ + 1]
    /\ UNCHANGED <<clock, stepBacks, inited>>

\* Fault: time_last is not set.
NewTick_KeepsTime(p) ==
    /\ pc[p] = "loop"
    /\ IsNewTick(p)
    /\ ids_this_tick' = [ids_this_tick EXCEPT ![p] = 0]
    /\ time_last' = time_last
    /\ Return(p)

NewTick(p) ==
    /\ pc[p] = "loop"
    /\ IsNewTick(p)
    /\ ids_this_tick' = [ids_this_tick EXCEPT ![p] = 0]
    /\ time_last' = [time_last EXCEPT ![p] = SystemTime]
    /\ Return(p)

SameTick(p) ==
    /\ pc[p] = "loop"
    /\ ~IsNewTick(p)
    /\ HasQuota(p)
    /\ ids_this_tick' = [ids_this_tick EXCEPT ![p] = @ + 1]
    /\ time_last' = time_last
    /\ Return(p)

\* The quota of this tick is used up: read the clock again.
Spin(p) ==
    /\ pc[p] = "loop"
    /\ ~IsNewTick(p)
    /\ ~HasQuota(p)
    /\ UNCHANGED vars

------------------------------------------------------------------------------
\* The modelled time is over and no call is under way.
Horizon ==
    /\ clock = MaxClock
    /\ \A p \in Procs : pc[p] = "idle"
    /\ UNCHANGED vars

Next ==
    \/ Tick
    \/ StepBack
    \/ Horizon
    \/ \E p \in Procs : Enter(p) \/ NewTick(p) \/ SameTick(p) \/ Spin(p)

Spec == Init /\ [][Next]_vars

\* The clock runs, and a process inside the loop keeps reading it.
Fairness ==
    /\ WF_vars(Tick)
    /\ \A p \in Procs : WF_vars(NewTick(p) \/ SameTick(p))

FairSpec == Spec /\ Fairness

------------------------------------------------------------------------------
\* Properties.

TypeOK ==
    /\ clock \in Nat /\ BootTime <= clock /\ clock <= MaxClock
    /\ stepBacks \in 0..MaxStepBacks
    /\ inited \in [Procs -> BOOLEAN]
    /\ time_last \in [Procs -> Nat]
    /\ ids_this_tick \in [Procs -> 0..UIDS_PER_TICK]
    /\ pc \in [Procs -> {"idle", "loop"}]
    /\ stamps \in [Procs -> Seq(Nat)]
    /\ burst \in [Procs -> Nat]

\* The platform on which the quota fits between two readings of the clock.
QuotaFitsTick == UIDS_PER_TICK < Resolution

\* As long as nobody sets the clock back, the timestamps a process gets from
\* get_current_time strictly increase, however its calls fall on the ticks:
\* the count added to a reading never reaches the next reading.
StampsIncrease ==
    stepBacks = 0 =>
        \A p \in Procs : \A i, j \in 1..Len(stamps[p]) :
            i < j => stamps[p][i] < stamps[p][j]

\* Even when the clock is set back, two successive calls of get_current_time
\* in one process never return the same timestamp.
SuccessiveStampsDiffer ==
    \A p \in Procs : \A i \in 1..Len(stamps[p]) :
        i + 1 \in 1..Len(stamps[p]) => stamps[p][i] # stamps[p][i + 1]

\* While the clock stands still get_current_time hands out no more than
\* UIDS_PER_TICK timestamps and the one that opened the tick.
TickQuotaAndOne == \A p \in Procs : burst[p] <= UIDS_PER_TICK + 1

\* The README's "globally unique number", of the timestamps one process gets
\* from get_current_time while nobody sets the clock back.
StampsUnique ==
    stepBacks = 0 =>
        \A p \in Procs : \A i, j \in 1..Len(stamps[p]) :
            i # j => stamps[p][i] # stamps[p][j]

\* A call of get_current_time returns: the loop that waits for the next tick
\* ends because the clock runs.
CallReturns == \A p \in Procs : (pc[p] = "loop") ~> (pc[p] = "idle")

\* get_current_time implements the abstract source of timestamps.
Source == INSTANCE StampSource
            WITH Stamps <- 0..(MaxClock * Resolution + UIDS_PER_TICK),
                 steady <- (stepBacks = 0)
ImplementsSource == Source!Spec
==============================================================================
