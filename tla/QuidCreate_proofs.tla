--------------------------- MODULE QuidCreate_proofs ---------------------------
(***************************************************************************)
(* Theorems about get_current_time, for every number of processes, every   *)
(* quota and resolution, and every bound; and about quid_create as a whole:*)
(* with what QuidCodec_proofs says of the layout, the identifiers of a     *)
(* process differ.                                                         *)
(***************************************************************************)
EXTENDS QuidCreate, QuidCodec_proofs, SequenceTheorems, TLAPS

------------------------------------------------------------------------------
\* get_current_time.

\* Multiples of the resolution are a whole granule apart.
LEMMA ReadingsApart ==
    ASSUME NEW c \in Nat, NEW d \in Nat, c < d
    PROVE  c * Resolution + Resolution <= d * Resolution
<1>1. PICK k \in Nat : d = c + 1 + k
    <2>1. d - c - 1 \in Nat /\ d = c + 1 + (d - c - 1)
        OBVIOUS
    <2> QED BY <2>1
<1>2. d * Resolution = c * Resolution + Resolution + k * Resolution
    BY <1>1, ClockAssumption
<1>3. k * Resolution \in Nat /\ c * Resolution \in Nat
    BY ClockAssumption
<1> QED BY <1>2, <1>3, ClockAssumption

LEMMA ReadingIsNat == ASSUME NEW c \in Nat PROVE c * Resolution \in Nat
BY ClockAssumption

\* A reading and a count within the quota stay within the modelled time.
LEMMA ReadingInRange ==
    ASSUME TypeOK, NEW k \in 0..UIDS_PER_TICK
    PROVE  SystemTime + k \in 0..(MaxClock * Resolution + UIDS_PER_TICK)
<1>1. /\ clock * Resolution \in Nat /\ MaxClock * Resolution \in Nat
      /\ UIDS_PER_TICK \in Nat /\ Resolution \in Nat
    BY ReadingIsNat, ClockAssumption DEF TypeOK
<1>2. clock * Resolution <= MaxClock * Resolution
    <2>1. clock = MaxClock \/ clock * Resolution + Resolution <= MaxClock * Resolution
        BY ReadingsApart, ClockAssumption DEF TypeOK
    <2> QED BY <1>1, <2>1
<1> QED BY <1>1, <1>2 DEF SystemTime

\* Every variable keeps its type; in particular the count of the tick never
\* exceeds the quota.
THEOREM TypeCorrect == Spec => []TypeOK
<1>1. Init => TypeOK
    BY ClockAssumption DEF Init, TypeOK
<1>2. TypeOK /\ [Next]_vars => TypeOK'
    <2> SUFFICES ASSUME TypeOK, [Next]_vars
                 PROVE  TypeOK'
        OBVIOUS
    <2> USE ClockAssumption DEF TypeOK
    <2>1. CASE Tick
        BY <2>1 DEF Tick, statics
    <2>2. CASE StepBack
        BY <2>2 DEF StepBack, statics
    <2>3. CASE Horizon
        BY <2>3 DEF Horizon, vars
    <2>4. ASSUME NEW p \in Procs, Enter(p)
          PROVE  TypeOK'
        BY <2>4 DEF Enter
    <2>5. ASSUME NEW p \in Procs, NewTick(p)
          PROVE  TypeOK'
        <3>1. SystemTime \in Nat
            BY DEF SystemTime
        <3>2. ids_this_tick' \in [Procs -> 0..UIDS_PER_TICK] /\ ids_this_tick'[p] = 0
            BY <2>5 DEF NewTick
        <3>3. SystemTime + ids_this_tick'[p] \in Nat
            BY <3>1, <3>2
        <3>4. stamps' \in [Procs -> Seq(Nat)]
            BY <2>5, <3>3 DEF NewTick, Return
        <3>5. time_last' \in [Procs -> Nat]
            BY <2>5, <3>1 DEF NewTick
        <3> QED BY <2>5, <3>2, <3>4, <3>5 DEF NewTick, Return
    <2>6. ASSUME NEW p \in Procs, SameTick(p)
          PROVE  TypeOK'
        <3>1. SystemTime \in Nat
            BY DEF SystemTime
        <3>2. ids_this_tick' \in [Procs -> 0..UIDS_PER_TICK]
            BY <2>6 DEF SameTick, HasQuota
        <3>3. SystemTime + ids_this_tick'[p] \in Nat
            BY <3>1, <3>2
        <3>4. stamps' \in [Procs -> Seq(Nat)]
            BY <2>6, <3>3 DEF SameTick, Return
        <3> QED BY <2>6, <3>2, <3>4 DEF SameTick, Return
    <2>7. ASSUME NEW p \in Procs, Spin(p)
          PROVE  TypeOK'
        BY <2>7 DEF Spin, vars
    <2>8. CASE UNCHANGED vars
        BY <2>8 DEF vars
    <2> QED BY <2>1, <2>2, <2>3, <2>4, <2>5, <2>6, <2>7, <2>8 DEF Next
<1> QED BY <1>1, <1>2, PTL DEF Spec

------------------------------------------------------------------------------
(***************************************************************************)
(* The statics always describe the last stamp: it is time_last plus the    *)
(* count of the tick, and time_last is a reading of the clock.             *)
(***************************************************************************)
InitedInv ==
    \A p \in Procs : (pc[p] = "loop" \/ stamps[p] # <<>>) => inited[p]

ReadingInv == \A p \in Procs : \E c \in Nat : time_last[p] = c * Resolution

LastStampInv ==
    \A p \in Procs : stamps[p] # <<>> =>
        stamps[p][Len(stamps[p])] = time_last[p] + ids_this_tick[p]

StaticsInv == TypeOK /\ InitedInv /\ ReadingInv /\ LastStampInv

\* What a returning call appends, in terms of the statics it leaves behind.
LEMMA ReturnAppends ==
    ASSUME TypeOK, NEW p \in Procs, NewTick(p) \/ SameTick(p)
    PROVE  /\ time_last' \in [Procs -> Nat] /\ ids_this_tick' \in [Procs -> 0..UIDS_PER_TICK]
           /\ time_last'[p] = SystemTime
           /\ stamps'[p] = Append(stamps[p], time_last'[p] + ids_this_tick'[p])
           /\ Len(stamps'[p]) = Len(stamps[p]) + 1
           /\ Len(stamps[p]) \in Nat
           /\ stamps'[p][Len(stamps[p]) + 1] = time_last'[p] + ids_this_tick'[p]
           /\ \A i \in 1..Len(stamps[p]) : stamps'[p][i] = stamps[p][i]
           /\ \A q \in Procs \ {p} : /\ time_last'[q] = time_last[q]
                                     /\ ids_this_tick'[q] = ids_this_tick[q]
                                     /\ stamps'[q] = stamps[q]
<1>1. SystemTime \in Nat
    BY ClockAssumption DEF TypeOK, SystemTime
<1>2. /\ time_last' \in [Procs -> Nat]
      /\ ids_this_tick' \in [Procs -> 0..UIDS_PER_TICK]
      /\ time_last'[p] = SystemTime
      /\ \A q \in Procs \ {p} : /\ time_last'[q] = time_last[q]
                                /\ ids_this_tick'[q] = ids_this_tick[q]
    <2>1. CASE NewTick(p)
        BY <1>1, <2>1, ClockAssumption DEF NewTick, TypeOK
    <2>2. CASE SameTick(p)
        BY <1>1, <2>2, ClockAssumption DEF SameTick, IsNewTick, HasQuota, TypeOK
    <2> QED BY <2>1, <2>2
<1>3. stamps' = [stamps EXCEPT ![p] = Append(@, SystemTime + ids_this_tick'[p])]
    BY DEF NewTick, SameTick, Return
<1>4. stamps'[p] = Append(stamps[p], time_last'[p] + ids_this_tick'[p])
    BY <1>2, <1>3 DEF TypeOK
<1>5. /\ stamps[p] \in Seq(Nat)
      /\ time_last'[p] + ids_this_tick'[p] \in Nat
    BY <1>1, <1>2, ClockAssumption DEF TypeOK
<1>6. /\ Len(stamps'[p]) = Len(stamps[p]) + 1
      /\ Len(stamps[p]) \in Nat
      /\ stamps'[p][Len(stamps[p]) + 1] = time_last'[p] + ids_this_tick'[p]
      /\ \A i \in 1..Len(stamps[p]) : stamps'[p][i] = stamps[p][i]
    BY <1>4, <1>5, AppendProperties
<1>7. \A q \in Procs \ {p} : stamps'[q] = stamps[q]
    BY <1>3 DEF TypeOK
<1> QED BY <1>2, <1>4, <1>6, <1>7

LEMMA StaticsInvariant == Spec => []StaticsInv
<1>1. Init => InitedInv /\ ReadingInv /\ LastStampInv
    <2> SUFFICES ASSUME Init PROVE InitedInv /\ ReadingInv /\ LastStampInv
        OBVIOUS
    <2>1. 0 = 0 * Resolution
        BY ClockAssumption
    <2> QED BY <2>1 DEF Init, InitedInv, ReadingInv, LastStampInv
<1>2. StaticsInv /\ TypeOK' /\ [Next]_vars => (InitedInv /\ ReadingInv /\ LastStampInv)'
    <2> SUFFICES ASSUME StaticsInv, TypeOK', [Next]_vars
                 PROVE  (InitedInv /\ ReadingInv /\ LastStampInv)'
        OBVIOUS
    <2> USE DEF StaticsInv
    <2>1. CASE UNCHANGED <<statics, pc, stamps>>
        BY <2>1 DEF InitedInv, ReadingInv, LastStampInv, statics
    <2>2. ASSUME NEW p \in Procs, Enter(p)
          PROVE  (InitedInv /\ ReadingInv /\ LastStampInv)'
        BY <2>2 DEF Enter, TypeOK, InitedInv, ReadingInv, LastStampInv
    <2>3. ASSUME NEW p \in Procs, NewTick(p) \/ SameTick(p)
          PROVE  (InitedInv /\ ReadingInv /\ LastStampInv)'
        <3>1. InitedInv'
            <4>1. pc[p] = "loop" /\ pc' = [pc EXCEPT ![p] = "idle"] /\ inited' = inited
                BY <2>3 DEF NewTick, SameTick, Return
            <4>2. inited[p] /\ \A q \in Procs \ {p} : pc'[q] = pc[q]
                BY <4>1 DEF InitedInv, TypeOK
            <4>3. \A q \in Procs \ {p} : stamps'[q] = stamps[q]
                BY <2>3, ReturnAppends
            <4> QED BY <4>1, <4>2, <4>3 DEF InitedInv
        <3>2. ReadingInv'
            <4>1. time_last'[p] = clock * Resolution /\ clock \in Nat
                BY <2>3, ReturnAppends DEF SystemTime, TypeOK
            <4>2. \A q \in Procs \ {p} : time_last'[q] = time_last[q]
                BY <2>3, ReturnAppends
            <4> QED BY <4>1, <4>2 DEF ReadingInv
        <3>3. LastStampInv'
            <4>1. ASSUME NEW q \in Procs, stamps'[q] # <<>>
                  PROVE  stamps'[q][Len(stamps'[q])] = time_last'[q] + ids_this_tick'[q]
                <5>1. CASE q = p
                    BY <2>3, <5>1, ReturnAppends
                <5>2. CASE q # p
                    BY <2>3, <4>1, <5>2, ReturnAppends DEF LastStampInv
                <5> QED BY <5>1, <5>2
            <4> QED BY <4>1 DEF LastStampInv
        <3> QED BY <3>1, <3>2, <3>3
    <2> QED
        BY <2>1, <2>2, <2>3 DEF Next, Tick, StepBack, Horizon, Spin, vars, statics
<1> QED BY <1>1, <1>2, TypeCorrect, PTL DEF Spec, StaticsInv

------------------------------------------------------------------------------
(***************************************************************************)
(* A clock that is set back cannot make two successive calls return the    *)
(* same stamp: the readings behind them are equal, and the count has       *)
(* grown, or they are Resolution apart, and no count reaches that far.     *)
(***************************************************************************)
\* The stamp that a call appends differs from the last one of the process.
LEMMA AppendedDiffers ==
    ASSUME StaticsInv, QuotaFitsTick, NEW p \in Procs, NewTick(p) \/ SameTick(p)
    PROVE  time_last[p] + ids_this_tick[p] # time_last'[p] + ids_this_tick'[p]
<1> USE DEF StaticsInv
<1>1. CASE NewTick(p)
    <2>1. time_last[p] # clock * Resolution /\ ids_this_tick'[p] = 0
        BY <1>1 DEF NewTick, IsNewTick, SystemTime, TypeOK
    <2>2. PICK c \in Nat : time_last[p] = c * Resolution
        BY DEF ReadingInv
    <2>3. c < clock \/ clock < c
        BY <2>1, <2>2 DEF TypeOK
    <2>4. \/ time_last[p] + Resolution <= clock * Resolution
          \/ clock * Resolution + Resolution <= time_last[p]
        BY <2>2, <2>3, ReadingsApart DEF TypeOK
    <2>5. clock * Resolution \in Nat /\ ids_this_tick[p] \in 0..UIDS_PER_TICK
        BY ReadingIsNat DEF TypeOK
    <2>6. time_last'[p] = clock * Resolution /\ time_last[p] \in Nat
        BY ReturnAppends DEF SystemTime, TypeOK
    <2> QED BY <2>1, <2>4, <2>5, <2>6, ClockAssumption DEF QuotaFitsTick
<1>2. CASE SameTick(p)
    BY <1>2 DEF SameTick, TypeOK
<1> QED BY <1>1, <1>2

DifferInv == StaticsInv /\ SuccessiveStampsDiffer

\* Two successive stamps of a process differ wherever a tick holds the quota,
\* also when the clock is set back between them.
THEOREM SuccessiveDiffer ==
    ASSUME QuotaFitsTick
    PROVE  Spec => []SuccessiveStampsDiffer
<1>1. Init => SuccessiveStampsDiffer
    BY DEF Init, SuccessiveStampsDiffer
<1>2. DifferInv /\ TypeOK' /\ [Next]_vars => SuccessiveStampsDiffer'
    <2> SUFFICES ASSUME DifferInv, [Next]_vars
                 PROVE  SuccessiveStampsDiffer'
        OBVIOUS
    <2> USE DEF DifferInv, StaticsInv
    <2>1. CASE UNCHANGED stamps
        BY <2>1 DEF SuccessiveStampsDiffer
    <2>2. ASSUME NEW p \in Procs, NewTick(p) \/ SameTick(p)
          PROVE  SuccessiveStampsDiffer'
        <3> DEFINE n == Len(stamps[p])
        <3>1. n # 0 => stamps'[p][n] # stamps'[p][n + 1]
            <4> SUFFICES ASSUME n # 0
                         PROVE  stamps'[p][n] # stamps'[p][n + 1]
                OBVIOUS
            <4>1. stamps[p] # <<>> /\ n \in 1..n
                BY <2>2, ReturnAppends
            <4>2. stamps'[p][n] = time_last[p] + ids_this_tick[p]
                BY <2>2, <4>1, ReturnAppends DEF LastStampInv
            <4> QED BY <2>2, <4>2, ReturnAppends, AppendedDiffers
        <3>2. ASSUME NEW q \in Procs, NEW i \in 1..Len(stamps'[q]),
                     i + 1 \in 1..Len(stamps'[q])
              PROVE  stamps'[q][i] # stamps'[q][i + 1]
            <4>1. CASE q # p
                <5>1. stamps'[q] = stamps[q]
                    BY <2>2, <4>1, ReturnAppends
                <5> QED BY <3>2, <5>1 DEF SuccessiveStampsDiffer
            <4>2. CASE q = p /\ i + 1 <= n
                <5>1. i \in 1..n /\ i + 1 \in 1..n
                    BY <2>2, <3>2, <4>2, ReturnAppends
                <5> QED BY <2>2, <4>2, <5>1, ReturnAppends DEF SuccessiveStampsDiffer
            <4>3. CASE q = p /\ ~(i + 1 <= n)
                <5>1. i = n /\ n # 0
                    BY <2>2, <3>2, <4>3, ReturnAppends
                <5> QED BY <3>1, <4>3, <5>1
            <4> QED BY <4>1, <4>2, <4>3
        <3> QED BY <3>2 DEF SuccessiveStampsDiffer
    <2> QED
        BY <2>1, <2>2 DEF Next, Tick, StepBack, Horizon, Enter, Spin, vars
<1> QED BY <1>1, <1>2, TypeCorrect, StaticsInvariant, PTL DEF Spec, DifferInv

------------------------------------------------------------------------------
(***************************************************************************)
(* Until the clock is set back, time_last is never ahead of it and all     *)
(* stamps lie at or below time_last plus the count; the next reading is    *)
(* then above all of them.                                                 *)
(***************************************************************************)
PastInv == stepBacks = 0 => \A p \in Procs : time_last[p] <= SystemTime

StampsBelowInv ==
    stepBacks = 0 =>
        \A p \in Procs : \A i \in 1..Len(stamps[p]) :
            stamps[p][i] <= time_last[p] + ids_this_tick[p]

IncreaseInv == StaticsInv /\ PastInv /\ StampsBelowInv

\* The stamp that a call appends is above all earlier ones of the process.
LEMMA AppendedIsLater ==
    ASSUME IncreaseInv, QuotaFitsTick, stepBacks = 0, NEW p \in Procs, NewTick(p) \/ SameTick(p)
    PROVE  time_last[p] + ids_this_tick[p] < time_last'[p] + ids_this_tick'[p]
<1> USE DEF IncreaseInv, StaticsInv
<1>1. CASE NewTick(p)
    <2>1. time_last[p] # clock * Resolution /\ ids_this_tick'[p] = 0
        BY <1>1 DEF NewTick, IsNewTick, SystemTime, TypeOK
    <2>2. PICK c \in Nat : time_last[p] = c * Resolution
        BY DEF ReadingInv
    <2>3. clock \in Nat /\ clock * Resolution \in Nat /\ time_last[p] \in Nat
        BY ReadingIsNat DEF TypeOK
    <2>4. time_last[p] < clock * Resolution
        BY <2>1, <2>3 DEF PastInv, SystemTime
    <2>5. ~(clock < c)
        <3>1. clock < c => clock * Resolution + Resolution <= c * Resolution
            BY <2>3, ReadingsApart
        <3> QED BY <3>1, <2>2, <2>3, <2>4, ClockAssumption
    <2>6. c < clock
        BY <2>1, <2>2, <2>3, <2>5
    <2>7. time_last[p] + Resolution <= clock * Resolution
        BY <2>2, <2>3, <2>6, ReadingsApart
    <2>8. time_last'[p] = clock * Resolution /\ ids_this_tick[p] \in 0..UIDS_PER_TICK
        BY ReturnAppends DEF SystemTime, TypeOK
    <2> QED BY <2>1, <2>3, <2>7, <2>8, ClockAssumption DEF QuotaFitsTick
<1>2. CASE SameTick(p)
    BY <1>2 DEF SameTick, TypeOK
<1> QED BY <1>1, <1>2

\* A clock that was set back stays one that was.
LEMMA StepBacksGrow ==
    ASSUME TypeOK, [Next]_vars, stepBacks' = 0
    PROVE  stepBacks = 0 /\ ~StepBack
BY DEF Next, Tick, StepBack, Horizon, Enter, Spin, NewTick, SameTick, Return, vars, TypeOK

LEMMA IncreaseInvariant ==
    ASSUME QuotaFitsTick
    PROVE  Spec => []IncreaseInv
<1>1. Init => PastInv /\ StampsBelowInv
    <2> SUFFICES ASSUME Init PROVE PastInv /\ StampsBelowInv
        OBVIOUS
    <2>1. clock * Resolution \in Nat
        BY ReadingIsNat, ClockAssumption DEF Init
    <2> QED BY <2>1 DEF Init, PastInv, StampsBelowInv, SystemTime
<1>2. IncreaseInv /\ TypeOK' /\ [Next]_vars => (PastInv /\ StampsBelowInv)'
    <2> SUFFICES ASSUME IncreaseInv, TypeOK', [Next]_vars, stepBacks' = 0
                 PROVE  (PastInv /\ StampsBelowInv)'
        BY DEF PastInv, StampsBelowInv
    <2> USE DEF IncreaseInv, StaticsInv
    <2>0. stepBacks = 0 /\ ~StepBack
        BY StepBacksGrow
    <2>1. CASE Tick
        <3>1. SystemTime <= SystemTime'
            <4>1. clock \in Nat /\ clock' \in Nat /\ clock < clock'
                BY <2>1, ClockAssumption DEF Tick, TypeOK
            <4>2. clock * Resolution + Resolution <= clock' * Resolution
                BY <4>1, ReadingsApart
            <4>3. clock * Resolution \in Nat /\ clock' * Resolution \in Nat
                BY <4>1, ReadingIsNat
            <4> QED BY <4>2, <4>3, ClockAssumption DEF SystemTime
        <3>2. SystemTime \in Nat /\ SystemTime' \in Nat
            BY ReadingIsNat DEF SystemTime, TypeOK
        <3> QED
            BY <2>0, <2>1, <3>1, <3>2 DEF Tick, statics, PastInv, StampsBelowInv, TypeOK
    <2>2. CASE StepBack
        BY <2>0, <2>2
    <2>3. ASSUME NEW p \in Procs, Enter(p)
          PROVE  (PastInv /\ StampsBelowInv)'
        <3>1. PastInv'
            BY <2>0, <2>3 DEF Enter, PastInv, SystemTime
        <3>2. inited[p] => ids_this_tick' = ids_this_tick
            BY <2>3 DEF Enter
        <3>3. ~inited[p] => stamps[p] = <<>>
            BY DEF InitedInv
        <3>4. \A q \in Procs \ {p} : ids_this_tick'[q] = ids_this_tick[q]
            BY <2>3 DEF Enter, TypeOK
        <3> QED
            BY <2>0, <2>3, <3>1, <3>2, <3>3, <3>4 DEF Enter, StampsBelowInv
    <2>4. ASSUME NEW p \in Procs, NewTick(p) \/ SameTick(p)
          PROVE  (PastInv /\ StampsBelowInv)'
        <3>1. SystemTime' = SystemTime /\ SystemTime \in Nat
            <4>1. clock' = clock /\ clock \in Nat
                BY <2>4 DEF NewTick, SameTick, Return, TypeOK
            <4> QED BY <4>1, ReadingIsNat DEF SystemTime
        <3>2. PastInv'
            <4> SUFFICES ASSUME NEW q \in Procs
                         PROVE  time_last'[q] <= SystemTime
                BY <3>1 DEF PastInv
            <4>1. CASE q = p
                BY <2>4, <3>1, <4>1, ReturnAppends
            <4>2. CASE q # p
                BY <2>0, <2>4, <4>2, ReturnAppends DEF PastInv
            <4> QED BY <4>1, <4>2
        <3>3. ASSUME NEW q \in Procs, NEW i \in 1..Len(stamps'[q])
              PROVE  stamps'[q][i] <= time_last'[q] + ids_this_tick'[q]
            <4>1. CASE q # p
                <5>1. /\ stamps'[q] = stamps[q] /\ time_last'[q] = time_last[q]
                      /\ ids_this_tick'[q] = ids_this_tick[q]
                    BY <2>4, <4>1, ReturnAppends
                <5> QED BY <2>0, <3>3, <5>1 DEF StampsBelowInv
            <4>2. CASE q = p /\ i = Len(stamps[p]) + 1
                <5>1. /\ stamps'[q][i] = time_last'[q] + ids_this_tick'[q]
                      /\ time_last'[q] \in Nat /\ ids_this_tick'[q] \in Nat
                    BY <2>4, <4>2, ReturnAppends, ClockAssumption
                <5> QED BY <5>1
            <4>3. CASE q = p /\ i # Len(stamps[p]) + 1
                <5>1. i \in 1..Len(stamps[p])
                    BY <2>4, <4>3, ReturnAppends
                <5>2. stamps'[q][i] = stamps[p][i] /\ stamps[p][i] <= time_last[p] + ids_this_tick[p]
                    BY <2>0, <2>4, <4>3, <5>1, ReturnAppends DEF StampsBelowInv
                <5>3. stamps[p][i] \in Nat
                    BY <5>1, ElementOfSeq DEF TypeOK
                <5>4. /\ time_last[p] \in Nat /\ ids_this_tick[p] \in Nat
                      /\ time_last'[p] \in Nat /\ ids_this_tick'[p] \in Nat
                    <6>1. time_last[p] \in Nat /\ ids_this_tick[p] \in Nat
                        BY ClockAssumption DEF TypeOK
                    <6>2. time_last'[p] \in Nat /\ ids_this_tick'[p] \in Nat
                        BY <2>4, ReturnAppends, ClockAssumption
                    <6> QED BY <6>1, <6>2
                <5>5. time_last[p] + ids_this_tick[p] < time_last'[p] + ids_this_tick'[p]
                    BY <2>0, <2>4, AppendedIsLater
                <5>6. stamps[p][i] <= time_last'[p] + ids_this_tick'[p]
                    BY <5>2, <5>3, <5>4, <5>5
                <5> QED BY <4>3, <5>2, <5>6
            <4> QED BY <4>1, <4>2, <4>3
        <3> QED BY <3>2, <3>3 DEF StampsBelowInv
    <2>5. CASE UNCHANGED vars
        BY <2>0, <2>5 DEF vars, PastInv, StampsBelowInv, SystemTime
    <2> QED
        BY <2>1, <2>2, <2>3, <2>4, <2>5 DEF Next, Horizon, Spin
<1> QED BY <1>1, <1>2, TypeCorrect, StaticsInvariant, PTL DEF Spec, IncreaseInv

\* On a platform whose clock steps in more units than the quota, the stamps of
\* a process strictly increase until somebody sets it back.
THEOREM Increase ==
    ASSUME QuotaFitsTick
    PROVE  Spec => []StampsIncrease
<1>1. Init => StampsIncrease
    BY DEF Init, StampsIncrease
<1>2. IncreaseInv /\ StampsIncrease /\ [Next]_vars => StampsIncrease'
    <2> SUFFICES ASSUME IncreaseInv, StampsIncrease, [Next]_vars, stepBacks' = 0
                 PROVE  StampsIncrease'
        BY DEF StampsIncrease
    <2> USE DEF IncreaseInv, StaticsInv
    <2>0. stepBacks = 0
        BY StepBacksGrow
    <2>1. CASE UNCHANGED stamps
        BY <2>0, <2>1 DEF StampsIncrease
    <2>2. ASSUME NEW p \in Procs, NewTick(p) \/ SameTick(p)
          PROVE  StampsIncrease'
        <3>1. ASSUME NEW q \in Procs, NEW i \in 1..Len(stamps'[q]),
                     NEW j \in 1..Len(stamps'[q]), i < j
              PROVE  stamps'[q][i] < stamps'[q][j]
            <4>1. CASE q # p
                <5>1. stamps'[q] = stamps[q]
                    BY <2>2, <4>1, ReturnAppends
                <5> QED BY <2>0, <3>1, <5>1 DEF StampsIncrease
            <4>2. CASE q = p /\ j # Len(stamps[p]) + 1
                <5>1. i \in 1..Len(stamps[p]) /\ j \in 1..Len(stamps[p])
                    BY <2>2, <3>1, <4>2, ReturnAppends
                <5> QED
                    BY <2>0, <2>2, <3>1, <4>2, <5>1, ReturnAppends DEF StampsIncrease
            <4>3. CASE q = p /\ j = Len(stamps[p]) + 1
                <5>1. i \in 1..Len(stamps[p])
                    BY <2>2, <3>1, <4>3, ReturnAppends
                <5>2. stamps'[q][i] = stamps[p][i] /\ stamps[p][i] <= time_last[p] + ids_this_tick[p]
                    BY <2>0, <2>2, <4>3, <5>1, ReturnAppends DEF StampsBelowInv
                <5>3. stamps[p][i] \in Nat
                    BY <5>1, ElementOfSeq DEF TypeOK
                <5>4. stamps'[q][j] = time_last'[p] + ids_this_tick'[p]
                    BY <2>2, <4>3, ReturnAppends
                <5>5. /\ time_last[p] \in Nat /\ ids_this_tick[p] \in Nat
                      /\ time_last'[p] \in Nat /\ ids_this_tick'[p] \in Nat
                    <6>1. time_last[p] \in Nat /\ ids_this_tick[p] \in Nat
                        BY ClockAssumption DEF TypeOK
                    <6>2. time_last'[p] \in Nat /\ ids_this_tick'[p] \in Nat
                        BY <2>2, ReturnAppends, ClockAssumption
                    <6> QED BY <6>1, <6>2
                <5>6. time_last[p] + ids_this_tick[p] < time_last'[p] + ids_this_tick'[p]
                    BY <2>0, <2>2, AppendedIsLater
                <5> QED BY <4>3, <5>2, <5>3, <5>4, <5>5, <5>6
            <4> QED BY <4>1, <4>2, <4>3
        <3> QED BY <3>1 DEF StampsIncrease
    <2> QED
        BY <2>1, <2>2 DEF Next, Tick, StepBack, Horizon, Enter, Spin, vars
<1> QED BY <1>1, <1>2, IncreaseInvariant, PTL DEF Spec

\* On the same platforms get_current_time implements StampSource: each of its
\* steps issues one stamp to one process, sets the clock back, or does neither.
THEOREM Refinement ==
    ASSUME QuotaFitsTick
    PROVE  Spec => ImplementsSource
<1>1. Init => Source!Init
    BY DEF Init, Source!Init
<1>2. IncreaseInv /\ [Next]_vars => [Source!Next]_<<stamps, stepBacks = 0>>
    <2> SUFFICES ASSUME IncreaseInv, [Next]_vars
                 PROVE  Source!Next \/ UNCHANGED <<stamps, stepBacks = 0>>
        OBVIOUS
    <2> USE DEF IncreaseInv, StaticsInv
    <2>1. ASSUME NEW p \in Procs, NewTick(p) \/ SameTick(p)
          PROVE  Source!Next
        <3> DEFINE t == SystemTime + ids_this_tick'[p]
        <3>1. /\ t = time_last'[p] + ids_this_tick'[p]
              /\ ids_this_tick'[p] \in 0..UIDS_PER_TICK
              /\ time_last'[p] = clock * Resolution
            BY <2>1, ReturnAppends DEF SystemTime
        <3>2. t \in 0..(MaxClock * Resolution + UIDS_PER_TICK)
            BY <3>1, ReadingInRange DEF SystemTime
        <3>3. ASSUME stepBacks = 0, NEW i \in 1..Len(stamps[p])
              PROVE  stamps[p][i] < t
            <4>1. stamps[p][i] \in Nat /\ stamps[p][i] <= time_last[p] + ids_this_tick[p]
                BY <3>3, ElementOfSeq DEF TypeOK, StampsBelowInv
            <4>2. time_last[p] + ids_this_tick[p] < t
                BY <2>1, <3>1, <3>3, AppendedIsLater
            <4>3. time_last[p] + ids_this_tick[p] \in Nat /\ t \in Nat
                BY <3>2, ClockAssumption DEF TypeOK
            <4> HIDE DEF t
            <4> QED BY <4>1, <4>2, <4>3
        <3>4. stamps[p] # <<>> => stamps[p][Len(stamps[p])] # t
            BY <2>1, <3>1, AppendedDiffers DEF LastStampInv
        <3>5. stamps' = [stamps EXCEPT ![p] = Append(@, t)] /\ stepBacks' = stepBacks
            BY <2>1 DEF NewTick, SameTick, Return
        <3>6. Source!Issue(p, t)
            BY <3>3, <3>4, <3>5 DEF Source!Issue
        <3> QED BY <3>2, <3>6 DEF Source!Next
    <2>2. CASE StepBack
        BY <2>2 DEF StepBack, TypeOK, Source!Next, Source!SetBack
    <2> QED
        BY <2>1, <2>2 DEF Next, Tick, Horizon, Enter, Spin, vars
<1> QED BY <1>1, <1>2, IncreaseInvariant, PTL DEF Spec, ImplementsSource, Source!Spec

------------------------------------------------------------------------------
(***************************************************************************)
(* The stamps handed out since the clock moved are counted by              *)
(* ids_this_tick, save the one that set it to zero.                        *)
(***************************************************************************)
BurstInv ==
    \A p \in Procs : \/ burst[p] = 0
                     \/ time_last[p] = SystemTime /\ burst[p] <= ids_this_tick[p] + 1

\* However the clock moves, one of its ticks yields at most UIDS_PER_TICK + 1
\* timestamps to a process.
THEOREM QuotaHolds == Spec => []TickQuotaAndOne
<1>1. Init => BurstInv
    BY DEF Init, BurstInv
<1>2. TypeOK /\ BurstInv /\ [Next]_vars => BurstInv'
    <2> SUFFICES ASSUME TypeOK, BurstInv, [Next]_vars
                 PROVE  BurstInv'
        OBVIOUS
    <2>1. CASE Tick \/ StepBack
        BY <2>1 DEF Tick, StepBack, BurstInv
    <2>2. ASSUME NEW p \in Procs, Enter(p)
          PROVE  BurstInv'
        <3>1. ids_this_tick[p] <= ids_this_tick'[p] /\ ids_this_tick[p] \in Nat /\ ids_this_tick'[p] \in Nat
            BY <2>2, ClockAssumption DEF Enter, TypeOK
        <3>2. \A q \in Procs \ {p} : ids_this_tick'[q] = ids_this_tick[q]
            BY <2>2 DEF Enter, TypeOK
        <3>3. UNCHANGED <<SystemTime, time_last, burst>>
            BY <2>2 DEF Enter, SystemTime
        <3>4. burst \in [Procs -> Nat]
            BY DEF TypeOK
        <3> QED BY <3>1, <3>2, <3>3, <3>4 DEF BurstInv
    <2>3. ASSUME NEW p \in Procs, NewTick(p) \/ SameTick(p)
          PROVE  BurstInv'
        <3>1. SystemTime' = SystemTime
            BY <2>3 DEF NewTick, SameTick, Return, SystemTime
        <3>2. /\ burst'[p] = burst[p] + 1
              /\ \A q \in Procs \ {p} : burst'[q] = burst[q]
            BY <2>3 DEF NewTick, SameTick, Return, TypeOK
        <3>3. time_last'[p] = SystemTime
            BY <2>3, ReturnAppends
        <3>4. burst'[p] <= ids_this_tick'[p] + 1
            <4>1. CASE NewTick(p)
                <5>1. burst[p] = 0 /\ ids_this_tick'[p] = 0
                    BY <4>1 DEF NewTick, IsNewTick, BurstInv, TypeOK
                <5> QED BY <3>2, <5>1
            <4>2. CASE SameTick(p)
                <5>1. ids_this_tick'[p] = ids_this_tick[p] + 1
                    BY <4>2 DEF SameTick, TypeOK
                <5>2. burst[p] \in Nat /\ ids_this_tick[p] \in Nat
                    BY ClockAssumption DEF TypeOK
                <5> QED BY <3>2, <5>1, <5>2 DEF BurstInv
            <4> QED BY <2>3, <4>1, <4>2
        <3>5. \A q \in Procs \ {p} : /\ time_last'[q] = time_last[q]
                                     /\ ids_this_tick'[q] = ids_this_tick[q]
            BY <2>3, ReturnAppends
        <3>6. ASSUME NEW q \in Procs
              PROVE  \/ burst'[q] = 0
                     \/ time_last'[q] = SystemTime' /\ burst'[q] <= ids_this_tick'[q] + 1
            <4>1. CASE q = p
                BY <4>1, <3>1, <3>3, <3>4
            <4>2. CASE q # p
                BY <4>2, <3>1, <3>2, <3>5 DEF BurstInv
            <4> QED BY <4>1, <4>2
        <3> QED BY <3>6 DEF BurstInv
    <2>4. CASE UNCHANGED vars
        BY <2>4 DEF vars, BurstInv, SystemTime
    <2> QED BY <2>1, <2>2, <2>3, <2>4 DEF Next, Horizon, Spin
<1>3. TypeOK /\ BurstInv => TickQuotaAndOne
    <2> SUFFICES ASSUME TypeOK, BurstInv, NEW p \in Procs
                 PROVE  burst[p] <= UIDS_PER_TICK + 1
        BY DEF TickQuotaAndOne
    <2>1. burst[p] \in Nat /\ ids_this_tick[p] \in 0..UIDS_PER_TICK /\ UIDS_PER_TICK \in Nat
        BY ClockAssumption DEF TypeOK
    <2> QED BY <2>1 DEF BurstInv
<1> QED BY <1>1, <1>2, <1>3, TypeCorrect, PTL DEF Spec

------------------------------------------------------------------------------
\* quid_create.

\* The identifiers are made on top of get_current_time and never change what
\* it does.
LEMMA UsesClock == CreateSpec => Spec
<1>1. CreateInit => Init
    BY DEF CreateInit
<1>2. [CreateNext]_createVars => [Next]_vars
    BY DEF CreateNext, createVars, Ask, Finish, Next
<1> QED BY <1>1, <1>2, PTL DEF CreateSpec, Spec

Issuable == 0..(MaxClock * Resolution + UIDS_PER_TICK)

\* Every timestamp lies in the modelled time, which the identifiers can hold.
IssuableInv ==
    \A p \in Procs : \A i \in 1..Len(stamps[p]) : stamps[p][i] \in Issuable

\* Every identifier was made from the timestamp of the same number.
MadeInv ==
    \A p \in Procs :
        /\ Len(made[p]) = Len(stamps[p])
        /\ \A i \in 1..Len(made[p]) : Made(made[p][i].id, OriginOf(p, i))

RequestInv == \A p \in Procs : pc[p] = "loop" => request[p] \in Requests

CreateInv == CreateTypeOK /\ RequestInv /\ IssuableInv /\ MadeInv

\* What quid_create makes of a request and a timestamp.
LEMMA CreatedReadsBack ==
    ASSUME NEW r \in Requests, NEW stamp \in Issuable, NEW seq \in RandomValues,
           NEW rnd0 \in RandomValues, NEW rnd5 \in RandomValues, NEW seed \in MemSeeds
    PROVE  LET u == Created(r, stamp, seq, rnd0, rnd5, seed)
           IN  /\ u \in cuuid_t
               /\ Made(u, Origin(r.rev, Bits(stamp), r.flag, r.subc,
                                 IF r.rev = QUID_REV4 THEN NoTag ELSE r.tag))
<1>1. /\ r.rev \in {QUID_REV4, QUID_REV7} /\ r.flag \in Byte /\ r.subc \in Byte
      /\ r.tag \in Tag \cup {NoTag}
    BY CreateAssumption DEF Requests
<1>2. Bits(stamp) \in Timestamp
    BY BitsAssumption DEF Issuable
<1>3. CASE r.rev = QUID_REV4
    <2>1. Field(rnd0, 0, 8) \in Byte /\ Field(rnd5, 0, 8) \in Byte /\ seed \in Node
        BY CreateAssumption DEF Field, Byte
    <2> QED BY <1>1, <1>2, <1>3, <2>1, Rev4ReadsBack DEF Created
<1>4. CASE r.rev # QUID_REV4
    <2>1. r.rev = QUID_REV7
        BY <1>1, <1>4
    <2> QED BY <1>1, <1>2, <1>4, <2>1, Rev7ReadsBack DEF Created
<1> QED BY <1>3, <1>4

\* The step that returns a timestamp and makes the identifier.
LEMMA FinishStep ==
    ASSUME TypeOK, CreateInv, NEW p \in Procs, Finish(p)
    PROVE  CreateInv'
<1> DEFINE n == Len(stamps[p])
           t == SystemTime + ids_this_tick'[p]
           r == request[p]
<1>1. PICK seq \in RandomValues, rnd0 \in RandomValues, rnd5 \in RandomValues,
           seed \in MemSeeds :
          made' = [made EXCEPT ![p] = Append(@,
                     [id |-> Created(r, stamps'[p][Len(stamps'[p])], seq, rnd0, rnd5, seed),
                      request |-> r])]
    BY DEF Finish
<1>2. pc[p] = "loop" /\ r \in Requests
    BY DEF Finish, NewTick, SameTick, CreateInv, RequestInv
<1>3. t \in Issuable
    <2>1. ids_this_tick'[p] \in 0..UIDS_PER_TICK
        BY ReturnAppends DEF Finish
    <2> QED BY <2>1, ReadingInRange DEF Issuable
<1>4. stamps' = [stamps EXCEPT ![p] = Append(@, t)]
    BY DEF Finish, NewTick, SameTick, Return
<1>5. stamps[p] \in Seq(Nat) /\ stamps'[p] = Append(stamps[p], t)
    BY <1>4 DEF TypeOK
<1>6. /\ Len(stamps'[p]) = n + 1 /\ stamps'[p][n + 1] = t
      /\ \A i \in 1..n : stamps'[p][i] = stamps[p][i]
    BY <1>5
<1> DEFINE u == Created(r, t, seq, rnd0, rnd5, seed)
<1>7. u \in cuuid_t /\ Made(u, Origin(r.rev, Bits(t), r.flag, r.subc,
                                      IF r.rev = QUID_REV4 THEN NoTag ELSE r.tag))
    BY <1>2, <1>3, CreatedReadsBack
<1>8. made' = [made EXCEPT ![p] = Append(@, [id |-> u, request |-> r])]
    BY <1>1, <1>6
<1> HIDE DEF t, u
<1>9. made[p] \in Seq([id : cuuid_t, request : Requests]) /\ Len(made[p]) = n
    BY DEF CreateInv, CreateTypeOK, MadeInv
<1>10. /\ made'[p] = Append(made[p], [id |-> u, request |-> r])
       /\ Len(made'[p]) = n + 1
       /\ made'[p][n + 1] = [id |-> u, request |-> r]
       /\ \A i \in 1..n : made'[p][i] = made[p][i]
    BY <1>8, <1>9 DEF CreateInv, CreateTypeOK
<1>11. \A q \in Procs \ {p} : made'[q] = made[q] /\ stamps'[q] = stamps[q]
    BY <1>4, <1>8 DEF TypeOK, CreateInv, CreateTypeOK
<1>12. CreateTypeOK'
    <2>1. [id |-> u, request |-> r] \in [id : cuuid_t, request : Requests]
        BY <1>2, <1>7
    <2>2. made' \in [Procs -> Seq([id : cuuid_t, request : Requests])]
        <3> DEFINE S == [id : cuuid_t, request : Requests]
        <3>1. made[p] \in Seq(S) /\ [id |-> u, request |-> r] \in S
            BY <1>9, <2>1
        <3>2. made'[p] \in Seq(S)
            <4> HIDE DEF S
            <4> QED BY <1>10, <3>1, AppendProperties
        <3> HIDE DEF S
        <3>3. made \in [Procs -> Seq(S)]
            BY DEF CreateInv, CreateTypeOK, S
        <3>4. made' \in [Procs -> Seq(S)]
            BY <1>8, <3>2, <3>3
        <3> QED BY <3>4 DEF S
    <2> QED BY <2>2 DEF Finish, CreateInv, CreateTypeOK
<1>13. RequestInv'
    BY DEF Finish, NewTick, SameTick, Return, RequestInv, CreateInv, CreateTypeOK, TypeOK
<1>14. IssuableInv'
    <2> SUFFICES ASSUME NEW q \in Procs, NEW i \in 1..Len(stamps'[q])
                 PROVE  stamps'[q][i] \in Issuable
        BY DEF IssuableInv, Issuable
    <2>1. CASE q = p
        BY <2>1, <1>3, <1>5, <1>6 DEF CreateInv, IssuableInv
    <2>2. CASE q # p
        BY <2>2, <1>11 DEF CreateInv, IssuableInv
    <2> QED BY <2>1, <2>2
<1>15. MadeInv'
    <2>1. ASSUME NEW q \in Procs, NEW i \in 1..Len(made'[q])
          PROVE  Made(made'[q][i].id, OriginOf(q, i)')
        <3>1. CASE q = p /\ i = n + 1
            BY <3>1, <1>6, <1>7, <1>10 DEF OriginOf
        <3>2. CASE q # p \/ i # n + 1
            <4>1. /\ i \in 1..Len(made[q]) /\ made'[q][i] = made[q][i]
                  /\ stamps'[q][i] = stamps[q][i]
                <5>1. CASE q # p
                    BY <5>1, <1>11
                <5>2. CASE q = p
                    <6>1. n \in Nat
                        BY <1>5
                    <6>2. i \in 1..n
                        BY <3>2, <5>2, <6>1, <1>10
                    <6> QED BY <5>2, <6>2, <1>6, <1>9, <1>10
                <5> QED BY <5>1, <5>2
            <4>2. OriginOf(q, i)' = OriginOf(q, i)
                BY <4>1 DEF OriginOf
            <4> QED BY <4>1, <4>2 DEF CreateInv, MadeInv
        <3> QED BY <3>1, <3>2
    <2>2. ASSUME NEW q \in Procs PROVE Len(made'[q]) = Len(stamps'[q])
        <3>1. CASE q = p
            BY <3>1, <1>6, <1>10
        <3>2. CASE q # p
            BY <3>2, <1>11 DEF CreateInv, MadeInv
        <3> QED BY <3>1, <3>2
    <2> QED BY <2>1, <2>2 DEF MadeInv, Made, ReadsBack
<1> QED BY <1>12, <1>13, <1>14, <1>15 DEF CreateInv

LEMMA CreateInvariant == CreateSpec => []CreateInv
<1>1. CreateInit => CreateInv
    BY DEF CreateInit, Init, CreateInv, CreateTypeOK, RequestInv, IssuableInv, MadeInv
<1>2. TypeOK /\ CreateInv /\ [CreateNext]_createVars => CreateInv'
    <2> SUFFICES ASSUME TypeOK, CreateInv, [CreateNext]_createVars
                 PROVE  CreateInv'
        OBVIOUS
    <2>1. ASSUME UNCHANGED <<made, stamps>>, CreateTypeOK', RequestInv'
          PROVE  CreateInv'
        BY <2>1 DEF CreateInv, IssuableInv, MadeInv, OriginOf, Issuable
    <2>2. CASE (Tick \/ StepBack \/ Horizon \/ \E p \in Procs : Spin(p))
               /\ UNCHANGED <<request, made>>
        <3>1. UNCHANGED <<pc, stamps>>
            BY <2>2 DEF Tick, StepBack, Horizon, Spin, vars
        <3>2. CreateTypeOK' /\ RequestInv'
            BY <2>2, <3>1 DEF CreateInv, CreateTypeOK, RequestInv
        <3> QED BY <2>1, <2>2, <3>1, <3>2
    <2>3. ASSUME NEW p \in Procs, Ask(p)
          PROVE  CreateInv'
        <3>1. UNCHANGED <<made, stamps>>
            BY <2>3 DEF Ask, Enter
        <3>2. CreateTypeOK' /\ RequestInv'
            BY <2>3 DEF Ask, Enter, CreateInv, CreateTypeOK, RequestInv, TypeOK
        <3> QED BY <2>1, <3>1, <3>2
    <2>4. ASSUME NEW p \in Procs, Finish(p)
          PROVE  CreateInv'
        BY <2>4, FinishStep
    <2>5. CASE UNCHANGED createVars
        BY <2>1, <2>5 DEF createVars, vars, CreateInv, CreateTypeOK, RequestInv
    <2> QED BY <2>2, <2>3, <2>4, <2>5 DEF CreateNext
<1> QED BY <1>1, <1>2, UsesClock, TypeCorrect, PTL DEF CreateSpec

\* The identifiers and requests keep their types.
THEOREM CreateTypeCorrect == CreateSpec => []CreateTypeOK
BY CreateInvariant, PTL DEF CreateInv

\* Two identifiers, of one process or of two, are equal only if their
\* timestamps and what was asked for are.
LEMMA EqualIds ==
    ASSUME CreateInv, NEW p \in Procs, NEW q \in Procs,
           NEW i \in 1..Len(made[p]), NEW j \in 1..Len(made[q]),
           quid_cmp(made[p][i].id, made[q][j].id)
    PROVE  stamps[p][i] = stamps[q][j] /\ SameOrigin(OriginOf(p, i), OriginOf(q, j))
<1> DEFINE u == made[p][i].id
           w == made[q][j].id
<1>1. Made(u, OriginOf(p, i)) /\ Made(w, OriginOf(q, j))
    BY DEF CreateInv, MadeInv
<1>2. SameOrigin(OriginOf(p, i), OriginOf(q, j))
    BY <1>1, EqualOrigins
<1>3. stamps[p][i] \in Issuable /\ stamps[q][j] \in Issuable
    BY DEF CreateInv, IssuableInv, MadeInv
<1>4. stamps[p][i] = stamps[q][j]
    BY <1>2, <1>3, BitsAssumption DEF SameOrigin, OriginOf, Origin, Issuable
<1> QED BY <1>2, <1>4

\* Identifiers collide only where timestamps do, whatever the processes ask
\* for, on every clock.
THEOREM CollidingStamps == CreateSpec => []SameIdSameOrigin
<1>1. CreateInv => SameIdSameOrigin
    BY EqualIds DEF SameIdSameOrigin
<1> QED BY <1>1, CreateInvariant, PTL

\* Where the quota fits between two readings of the clock, a process never
\* makes the same identifier twice until somebody sets the clock back.
THEOREM UniqueInProcess ==
    ASSUME QuotaFitsTick
    PROVE  CreateSpec => []ProcessIdsDiffer
<1>1. CreateInv /\ TypeOK /\ StampsIncrease => ProcessIdsDiffer
    <2> SUFFICES ASSUME CreateInv, TypeOK, StampsIncrease, stepBacks = 0, NEW p \in Procs,
                        NEW i \in 1..Len(made[p]), NEW j \in 1..Len(made[p]), i < j
                 PROVE  ~quid_cmp(made[p][i].id, made[p][j].id)
        BY DEF ProcessIdsDiffer
    <2>1. i \in 1..Len(stamps[p]) /\ j \in 1..Len(stamps[p])
        BY DEF CreateInv, MadeInv
    <2>2. stamps[p][i] < stamps[p][j]
        BY <2>1 DEF StampsIncrease
    <2>3. stamps[p][i] \in Nat /\ stamps[p][j] \in Nat
        BY <2>1, ElementOfSeq DEF TypeOK
    <2>4. stamps[p][i] # stamps[p][j]
        BY <2>2, <2>3
    <2> QED BY <2>4, EqualIds
<1> QED BY <1>1, CreateInvariant, UsesClock, TypeCorrect, Increase, PTL
==============================================================================
