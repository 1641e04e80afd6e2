--------------------------- MODULE QuidUtil_proofs ---------------------------
(***************************************************************************)
(* Theorems about the command line tool, for any number of processes,      *)
(* command lines, failures and interrupts.  The second half is about texts *)
(* of identifiers, in which a field may have any number of digits.         *)
(***************************************************************************)
EXTENDS QuidUtil, SequenceTheorems, WellFoundedInduction, TLAPS

Formats == {"bracket", "hex", "dec"}

Confs ==
    [n : 0..(ULL - 1), delay : -MaxDelay..MaxDelay, fname : Names \cup {NoFile}, fmat : Formats,
     nout : BOOLEAN, vbose : BOOLEAN, flg : SUBSET {IDF[f] : f \in FlagNames},
     cat : Categories, tag : Tags \cup {NoTag}]

Structures == [version : {4, 7}, fields : Fields \cup {<<>>}]

LineSet == [fields : Fields \cup {<<>>}, format : Formats]

\* Everything but the files and their buffers.
ProcessesOK ==
    /\ args \in CommandLines
    /\ pc \in [Procs -> Labels]
    /\ todo \in [Procs -> Seq(OptionSet)]
    /\ conf \in [Procs -> Confs]
    /\ cuuid \in [Procs -> Structures]
    /\ i \in [Procs -> 0..(ULL - 1)]
    /\ intflag \in [Procs -> BOOLEAN]
    /\ out \in [Procs -> Seq(LineSet)]
    /\ status \in [Procs -> {"running", "success", "failure", "bailed", "killed"}]
    /\ faults \in 0..MaxFaults
    /\ signals \in 0..MaxSignals
    /\ slept \in [Procs -> Nat]
    /\ late \in [Procs -> Nat]
    /\ lossy \in [Procs -> BOOLEAN]

LEMMA ModuloULL ==
    ASSUME NEW v \in Int
    PROVE  v % ULL \in 0..(ULL - 1) /\ (v \in 0..(ULL - 1) => v % ULL = v)
BY UtilAssumption

LEMMA FlagNamesAre ==
    FlagNames = {"set_public", "set_safe", "set_master", "set_sign", "set_tag", "set_strict"}
BY DEF FlagNames, IDF

\* What is known of the value of an option.
LEMMA OptionValues ==
    ASSUME NEW o \in OptionSet
    PROVE  /\ o.name \in {"category", "count", "delay", "rev"} => o.value \in Int
           /\ o.name = "delay" => o.value \in -MaxDelay..MaxDelay
           /\ o.name = "output" => o.value \in Names
BY FlagNamesAre DEF OptionSet, Information

LEMMA DefaultsAreConf == Defaults \in Confs
BY UtilAssumption DEF Defaults, Confs, Formats, Categories

LEMMA UpdatedIsConf ==
    ASSUME NEW c \in Confs, NEW o \in OptionSet, Accepted(o)
    PROVE  Updated(c, o) \in Confs
<1>1. CASE o.name \in {"category", "count", "delay", "output"}
    <2>1. CASE o.name = "category"
        BY <2>1 DEF Updated, Accepted, Confs
    <2>2. CASE o.name = "count"
        <3>1. Count(o.value) \in 0..(ULL - 1)
            BY <2>2, OptionValues, ModuloULL DEF Count
        <3> QED BY <2>2, <3>1 DEF Updated, Confs
    <2>3. CASE o.name \in {"delay", "output"}
        BY <2>3, OptionValues DEF Updated, Confs
    <2> QED BY <1>1, <2>1, <2>2, <2>3
<1>2. CASE o.name \in {"hex", "number", "silent", "verbose"}
    BY <1>2 DEF Updated, Confs, Formats
<1>3. CASE o.name = "tag"
    BY <1>3 DEF Updated, Accepted, Confs
<1>4. CASE o.name \in FlagNames
    BY <1>4, FlagNamesAre DEF Updated, Confs
<1>5. CASE o.name \notin {"category", "count", "delay", "output", "hex", "number",
                          "silent", "verbose", "tag"} \cup FlagNames
    BY <1>5 DEF Updated
<1> QED BY <1>1, <1>2, <1>3, <1>4, <1>5

LEMMA ProcessesInit == Init => ProcessesOK
<1> SUFFICES ASSUME Init PROVE ProcessesOK
    OBVIOUS
<1>1. todo \in [Procs -> Seq(OptionSet)]
    BY CommandLineAssumption DEF Init
<1>2. out \in [Procs -> Seq(LineSet)]
    BY EmptySeq DEF Init
<1>3. i \in [Procs -> 0..(ULL - 1)] /\ faults \in 0..MaxFaults /\ signals \in 0..MaxSignals
    BY UtilAssumption DEF Init
<1> QED BY <1>1, <1>2, <1>3, DefaultsAreConf DEF Init, ProcessesOK, Labels, Structures

LEMMA SleptIsNat == \A d \in -MaxDelay..MaxDelay : Slept(d) \in Nat
BY UtilAssumption DEF Slept

\* A delay is below a second or above zero, and the first if no delay is longer.
LEMMA ShortOrLong ==
    \A d \in 0..MaxDelay : /\ d \in 0..999 \/ d > 0
                           /\ MaxDelay <= 999 => d \in 0..999
BY UtilAssumption

\* On Windows, and below a second, all of the delay is waited.
LEMMA SleptInTime ==
    ASSUME WIN32 \/ MaxDelay <= 999, NEW d \in 0..MaxDelay
    PROVE  Slept(d) = d
<1>1. CASE d \in 0..999
    BY <1>1 DEF Slept
<1>2. CASE WIN32 /\ d > 0
    BY <1>2 DEF Slept
<1> QED BY <1>1, <1>2, ShortOrLong

LEMMA WriteOutStep ==
    ASSUME ProcessesOK, NEW p \in Procs, NEW pieces, WriteOut(p, pieces)
    PROVE  faults' \in 0..MaxFaults /\ lossy' \in [Procs -> BOOLEAN]
<1>1. CASE UNCHANGED <<faults, lossy>>
    BY <1>1 DEF ProcessesOK
<1>2. CASE faults < MaxFaults /\ faults' = faults + 1 /\ lossy' = [lossy EXCEPT ![p] = TRUE]
    BY <1>2, UtilAssumption DEF ProcessesOK
<1> QED BY <1>1, <1>2 DEF WriteOut

LEMMA ProcessesStep == ProcessesOK /\ [Next]_vars => ProcessesOK'
<1> SUFFICES ASSUME ProcessesOK, [Next]_vars
             PROVE  ProcessesOK'
    OBVIOUS
<1> USE DEF ProcessesOK
<1>1. ASSUME NEW p \in Procs, ReadOption(p) PROVE ProcessesOK'
    <2> DEFINE o == Head(todo[p])
    <2>1. o \in OptionSet /\ Tail(todo[p]) \in Seq(OptionSet)
        BY <1>1, HeadTailProperties DEF ReadOption
    <2>2. Accepted(o) /\ conf' = [conf EXCEPT ![p] = Updated(@, o)]
          /\ cuuid' = [cuuid EXCEPT ![p].version = IF o.name = "rev" THEN o.value ELSE @]
          /\ todo' = [todo EXCEPT ![p] = Tail(@)]
          /\ UNCHANGED <<args, pc, i, intflag, out, status, faults, signals, slept, late, lossy>>
        BY <1>1 DEF ReadOption
    <2> HIDE DEF o
    <2>3. Updated(conf[p], o) \in Confs
        BY <2>1, <2>2, UpdatedIsConf
    <2>4. cuuid' \in [Procs -> Structures]
        BY <2>2 DEF Accepted, Structures
    <2> QED BY <2>1, <2>2, <2>3, <2>4
<1>2. ASSUME NEW p \in Procs, QuitOption(p) PROVE ProcessesOK'
    BY <1>2 DEF QuitOption, Exit, Goto, Labels
<1>3. ASSUME NEW p \in Procs, EndOptions(p) PROVE ProcessesOK'
    BY <1>3 DEF EndOptions, Goto, Labels
<1>4. ASSUME NEW p \in Procs, CheckOperand(p) PROVE ProcessesOK'
    <2>1. UNCHANGED <<args, todo, conf, cuuid, i, intflag, out, faults, signals, slept,
                      late, lossy>>
          /\ (UNCHANGED <<pc, status>> \/ Exit(p, "success"))
        BY <1>4 DEF CheckOperand
    <2> QED BY <2>1 DEF Exit, Goto, Labels
<1>5. ASSUME NEW p \in Procs, CheckName(p) PROVE ProcessesOK'
    BY <1>5 DEF CheckName, Exit, Goto, Labels
<1>6. ASSUME NEW p \in Procs, OpenFile(p) PROVE ProcessesOK'
    BY <1>6 DEF OpenFile, Goto, Labels
<1>7. ASSUME NEW p \in Procs, CannotOpen(p) PROVE ProcessesOK'
    BY <1>7, UtilAssumption DEF CannotOpen, Exit, Goto, Labels
<1>8. ASSUME NEW p \in Procs, CreateId(p) PROVE ProcessesOK'
    <2>1. PICK u \in Fields : cuuid' = [cuuid EXCEPT ![p] = NewStructure(u)]
        BY <1>8 DEF CreateId
    <2>2. NewStructure(u) \in Structures
        BY DEF NewStructure, Structures, VersionOf
    <2> QED BY <1>8, <2>1, <2>2 DEF CreateId, Goto, Labels
<1>9. ASSUME NEW p \in Procs, TestFlag(p) PROVE ProcessesOK'
    BY <1>9 DEF TestFlag, AfterTest, Goto, Labels
<1>10. ASSUME NEW p \in Procs, Output(p) PROVE ProcessesOK'
    <2>1. Line(p) \in LineSet
        BY DEF Line, LineSet, Structures, Confs
    <2>2. Append(out[p], Line(p)) \in Seq(LineSet)
        BY <2>1, AppendProperties
    <2>3. /\ UNCHANGED <<args, todo, conf, cuuid, i, intflag, status, signals, slept>>
          /\ pc' = [pc EXCEPT ![p] = "rest"]
          /\ \/ UNCHANGED <<out, late>>
             \/ /\ out' = [out EXCEPT ![p] = Append(@, Line(p))]
                /\ late' = [late EXCEPT ![p] = IF intflag[p] THEN @ + 1 ELSE @]
        BY <1>10 DEF Output, Goto, AfterOutput
    <2>4. faults' \in 0..MaxFaults /\ lossy' \in [Procs -> BOOLEAN]
        <3>1. CASE UNCHANGED <<faults, lossy>>
            BY <3>1
        <3>2. CASE \E pieces : WriteOut(p, pieces)
            BY <3>2, WriteOutStep
        <3> QED BY <1>10, <3>1, <3>2 DEF Output
    <2>5. out' \in [Procs -> Seq(LineSet)] /\ late' \in [Procs -> Nat]
        <3>1. CASE UNCHANGED <<out, late>>
            BY <3>1
        <3>2. ASSUME out' = [out EXCEPT ![p] = Append(@, Line(p))],
                     late' = [late EXCEPT ![p] = IF intflag[p] THEN @ + 1 ELSE @]
              PROVE  out' \in [Procs -> Seq(LineSet)] /\ late' \in [Procs -> Nat]
            <4>1. out' \in [Procs -> Seq(LineSet)]
                BY <2>2, <3>2
            <4>2. late[p] + 1 \in Nat
                OBVIOUS
            <4> QED BY <3>2, <4>1, <4>2
        <3> QED BY <2>3, <3>1, <3>2
    <2> QED BY <2>3, <2>4, <2>5 DEF Labels
<1>11. ASSUME NEW p \in Procs, Rest(p) PROVE ProcessesOK'
    <2>1. (i[p] + 1) % ULL \in 0..(ULL - 1)
        <3>1. i[p] + 1 \in Int
            BY UtilAssumption
        <3> QED BY <3>1, ModuloULL
    <2>2. Slept(conf[p].delay) \in Nat
        BY SleptIsNat DEF Confs
    <2>3. slept' \in [Procs -> Nat]
        BY <1>11, <2>2 DEF Rest
    <2> QED BY <1>11, <2>1, <2>3 DEF Rest, Goto, Labels
<1>12. ASSUME NEW p \in Procs, EndLoop(p) PROVE ProcessesOK'
    BY <1>12 DEF EndLoop, Goto, Labels
<1>13. ASSUME NEW p \in Procs, CloseFile(p) PROVE ProcessesOK'
    <2>1. faults' \in 0..MaxFaults /\ lossy' \in [Procs -> BOOLEAN]
        <3>1. CASE UNCHANGED <<faults, lossy>>
            BY <3>1
        <3>2. CASE WriteOut(p, buf[p])
            BY <3>2, WriteOutStep
        <3> QED BY <1>13, <3>1, <3>2 DEF CloseFile
    <2> QED BY <1>13, <2>1 DEF CloseFile, Exit, Goto, Labels
<1>14. ASSUME NEW p \in Procs, Interrupt(p) PROVE ProcessesOK'
    <2>1. (i[p] + 1) % ULL \in 0..(ULL - 1)
        <3>1. i[p] + 1 \in Int
            BY UtilAssumption
        <3> QED BY <3>1, ModuloULL
    <2>2. signals' \in 0..MaxSignals
        BY <1>14, UtilAssumption DEF Interrupt
    <2>3. /\ pc' \in [Procs -> Labels] /\ i' \in [Procs -> 0..(ULL - 1)]
          /\ intflag' \in [Procs -> BOOLEAN]
          /\ status' \in [Procs -> {"running", "success", "failure", "bailed", "killed"}]
        <3>1. CASE Exit(p, "killed") /\ UNCHANGED <<intflag, i>>
            BY <3>1 DEF Exit, Goto, Labels
        <3>2. CASE /\ intflag' = [intflag EXCEPT ![p] = TRUE]
                   /\ UNCHANGED <<pc, i, status>>
            BY <3>2
        <3>3. CASE /\ intflag' = [intflag EXCEPT ![p] = TRUE]
                   /\ Goto(p, "create")
                   /\ i' = [i EXCEPT ![p] = (@ + 1) % ULL]
                   /\ UNCHANGED status
            BY <2>1, <3>3 DEF Goto, Labels
        <3> QED BY <1>14, <3>1, <3>2, <3>3 DEF Interrupt
    <2> QED BY <1>14, <2>2, <2>3 DEF Interrupt
<1>15. ASSUME NEW p \in Procs, BailOut(p) PROVE ProcessesOK'
    BY <1>15, UtilAssumption DEF BailOut, Goto, Labels
<1>16. CASE UNCHANGED vars
    BY <1>16 DEF vars
<1> QED
    BY <1>1, <1>2, <1>3, <1>4, <1>5, <1>6, <1>7, <1>8, <1>9, <1>10, <1>11, <1>12, <1>13,
       <1>14, <1>15, <1>16
    DEF Next, Step

------------------------------------------------------------------------------
\* What a process has done at each place of main.

\* Lines printed for n identifiers, and milliseconds waited after them.
PrintedOf(c, n) == IF c.nout /\ c.fname = NoFile THEN 0 ELSE n
DelayOf(c, n) == n * Slept(c.delay)

Before == {"options", "operands", "open", "fopen"}
Loop == {"create", "test", "print", "rest"}

\* All are made, or the loop was left.
Over(p) ==
    /\ i[p] = conf[p].n \/ (intflag[p] /\ i[p] < conf[p].n)
    /\ Len(out[p]) = PrintedOf(conf[p], i[p])

Placed(p) ==
    /\ status[p] = "running" <=> pc[p] # "exit"
    /\ pc[p] \in Before =>
          i[p] = 0 /\ Len(out[p]) = 0 /\ slept[p] = 0 /\ late[p] = 0
    /\ pc[p] \notin {"options", "exit"} => todo[p] = <<>>
    /\ pc[p] = "operands" => args[p].operands # 0

Counted(p) ==
    /\ pc[p] = "create" => i[p] <= conf[p].n
    /\ pc[p] \in Loop \ {"create"} => i[p] < conf[p].n
    /\ pc[p] \in Loop \ {"rest"} => Len(out[p]) = PrintedOf(conf[p], i[p])
    /\ pc[p] = "rest" => Len(out[p]) = PrintedOf(conf[p], i[p] + 1)
    /\ pc[p] = "close" => Over(p)
    /\ status[p] = "success" /\ todo[p] = <<>> /\ args[p].operands = 0 => Over(p)
    /\ status[p] = "failure" => Len(out[p]) = 0

\* A line is printed after the interrupt only if it came behind the test.
Stopped(p) ==
    /\ late[p] <= 1
    /\ ~intflag[p] \/ pc[p] = "print" => late[p] = 0

Rested(p) ==
    ~intflag[p] /\ status[p] # "failure" => slept[p] = DelayOf(conf[p], i[p])

Progress(p) == Placed(p) /\ Counted(p) /\ Stopped(p) /\ Rested(p)

UtilInv == ProcessesOK /\ \A p \in Procs : Progress(p)

\* All that Progress speaks of.
Own(q) == <<args[q], pc[q], todo[q], conf[q], i[q], intflag[q], out[q], status[q],
            slept[q], late[q]>>

LEMMA DelayStep ==
    ASSUME NEW c \in Confs, NEW n \in Nat
    PROVE  DelayOf(c, 0) = 0 /\ DelayOf(c, n + 1) = DelayOf(c, n) + Slept(c.delay)
<1>1. PICK d \in Nat : d = Slept(c.delay)
    <2>1. c.delay \in -MaxDelay..MaxDelay
        BY DEF Confs
    <2> QED BY <2>1, SleptIsNat
<1> QED BY <1>1 DEF DelayOf

LEMMA OwnProgress ==
    ASSUME NEW q \in Procs, Progress(q), Own(q)' = Own(q)
    PROVE  Progress(q)'
BY DEF Own, Progress, Placed, Counted, Stopped, Rested, Over

\* A step of one process leaves the others' variables alone.
LEMMA OthersStay ==
    ASSUME ProcessesOK, NEW p \in Procs, Step(p) \/ Interrupt(p),
           NEW q \in Procs, q # p
    PROVE  Own(q)' = Own(q)
<1> USE DEF ProcessesOK, Own, Goto, Exit
<1>1. CASE ReadOption(p) \/ QuitOption(p) \/ EndOptions(p)
    BY <1>1 DEF ReadOption, QuitOption, EndOptions
<1>2. CASE CheckOperand(p)
    BY <1>2 DEF CheckOperand
<1>3. CASE CheckName(p) \/ OpenFile(p) \/ CannotOpen(p)
    BY <1>3 DEF CheckName, OpenFile, CannotOpen
<1>4. CASE CreateId(p) \/ BailOut(p) \/ TestFlag(p) \/ Rest(p) \/ EndLoop(p) \/ CloseFile(p)
    BY <1>4 DEF CreateId, BailOut, TestFlag, Rest, EndLoop, CloseFile
<1>5. CASE Output(p)
    BY <1>5 DEF Output
<1>6. CASE Interrupt(p)
    BY <1>6 DEF Interrupt
<1> QED BY <1>1, <1>2, <1>3, <1>4, <1>5, <1>6 DEF Step

LEMMA ProgressInit == Init => \A p \in Procs : Progress(p)
<1> SUFFICES ASSUME Init, NEW p \in Procs PROVE Progress(p)
    OBVIOUS
<1>1. /\ pc[p] = "options" /\ status[p] = "running" /\ ~intflag[p]
      /\ i[p] = 0 /\ Len(out[p]) = 0 /\ slept[p] = 0 /\ late[p] = 0
    BY EmptySeq DEF Init
<1>2. DelayOf(conf[p], 0) = 0
    BY ProcessesInit, DelayStep DEF ProcessesOK
<1> QED BY <1>1, <1>2
    DEF Progress, Placed, Counted, Stopped, Rested, Before, Loop

\* A step before the loop, of which nothing is counted.
LEMMA ProgressBefore ==
    ASSUME ProcessesOK, NEW p \in Procs, Progress(p), pc[p] \in Before,
           UNCHANGED <<i, intflag, out, slept, late>>,
           \/ pc'[p] \in Before \cup {"create"} /\ status'[p] = "running"
           \/ pc'[p] = "exit" /\ status'[p] = "failure"
           \/ pc'[p] = "exit" /\ status'[p] = "success"
              /\ (todo'[p] # <<>> \/ args'[p].operands # 0),
           pc'[p] \notin {"options", "exit"} => todo'[p] = <<>>,
           pc'[p] = "operands" => args'[p].operands # 0,
           conf'[p] \in Confs
    PROVE  Progress(p)'
<1>1. i[p] = 0 /\ Len(out[p]) = 0 /\ slept[p] = 0 /\ late[p] = 0
    BY DEF Progress, Placed
<1>2. DelayOf(conf'[p], 0) = 0
    BY DelayStep
<1>3. PrintedOf(conf'[p], 0) = 0
    BY DEF PrintedOf
<1>4. 0 <= conf'[p].n
    <2>1. conf'[p].n \in 0..(ULL - 1)
        BY DEF Confs
    <2> QED BY <2>1, UtilAssumption
<1> QED BY <1>1, <1>2, <1>3, <1>4
    DEF Progress, Placed, Counted, Stopped, Rested, Before, Loop, Labels

LEMMA ProgressStep ==
    ASSUME ProcessesOK, ProcessesOK', NEW p \in Procs, Progress(p),
           Step(p) \/ Interrupt(p)
    PROVE  Progress(p)'
<1> DEFINE c == conf[p]
<1>n. i[p] \in 0..(ULL - 1) /\ c.n \in 0..(ULL - 1) /\ late[p] \in Nat
    BY DEF ProcessesOK, Confs
<1>c. conf'[p] \in Confs
    BY DEF ProcessesOK
<1>1. CASE ReadOption(p)
    BY <1>1, <1>c, ProgressBefore
    DEF ReadOption, ProcessesOK, Progress, Placed, Before
<1>2. CASE QuitOption(p)
    BY <1>2, <1>c, ProgressBefore DEF QuitOption, Exit, Goto, ProcessesOK, Before
<1>3. CASE EndOptions(p)
    <2>1. args[p].operands \in Nat
        BY CommandLineAssumption DEF ProcessesOK
    <2>2. args[p].operands > 0 => args[p].operands # 0
        BY <2>1
    <2> QED BY <1>3, <1>c, <2>2, ProgressBefore
        DEF EndOptions, Goto, ProcessesOK, Progress, Placed, Before
<1>4. CASE CheckOperand(p)
    <2>1. /\ pc[p] = "operands" /\ UNCHANGED <<args, todo, i, intflag, out, slept, late>>
          /\ (UNCHANGED <<pc, status>> \/ Exit(p, "success"))
        BY <1>4 DEF CheckOperand
    <2> QED BY <2>1, <1>c, ProgressBefore
        DEF Exit, Goto, ProcessesOK, Progress, Placed, Before
<1>5. CASE CheckName(p) \/ OpenFile(p) \/ CannotOpen(p)
    BY <1>5, <1>c, ProgressBefore
    DEF CheckName, OpenFile, CannotOpen, Exit, Goto, ProcessesOK, Progress, Placed, Before
<1>6. CASE CreateId(p)
    BY <1>6, <1>n DEF CreateId, Goto, ProcessesOK,
        Progress, Placed, Counted, Stopped, Rested, Before, Loop
<1>7. CASE TestFlag(p)
    BY <1>7, <1>n DEF TestFlag, AfterTest, Goto, ProcessesOK,
        Progress, Placed, Counted, Stopped, Rested, Before, Loop, Over
<1>8. CASE Output(p)
    <2>1. /\ pc[p] = "print" /\ pc'[p] = "rest"
          /\ UNCHANGED <<args, todo, conf, i, intflag, status, slept>>
          /\ IF c.nout /\ c.fname = NoFile THEN UNCHANGED <<out, late>>
             ELSE /\ out' = [out EXCEPT ![p] = Append(@, Line(p))]
                  /\ late' = [late EXCEPT ![p] = IF intflag[p] THEN @ + 1 ELSE @]
        BY <1>8 DEF Output, AfterOutput, Goto, ProcessesOK
    <2>2. Len(Append(out[p], Line(p))) = Len(out[p]) + 1
        <3>1. Line(p) \in LineSet
            BY DEF ProcessesOK, Line, LineSet, Structures, Confs
        <3> QED BY <3>1, AppendProperties DEF ProcessesOK
    <2>3. Len(out'[p]) = PrintedOf(c, i[p] + 1)
        BY <2>1, <2>2, <1>n
        DEF ProcessesOK, Progress, Counted, PrintedOf, Loop
    <2>4. late'[p] <= 1 /\ (~intflag[p] => late'[p] = 0)
        <3>1. late[p] = 0
            BY <2>1 DEF Progress, Stopped
        <3>2. late'[p] \in {0, 1} /\ (~intflag[p] => late'[p] = 0)
            <4>1. late'[p] = late[p]
                  \/ late'[p] = (IF intflag[p] THEN late[p] + 1 ELSE late[p])
                BY <2>1 DEF ProcessesOK
            <4> QED BY <3>1, <4>1
        <3> QED BY <3>2
    <2> QED BY <2>1, <2>3, <2>4, <1>n
        DEF Progress, Placed, Counted, Stopped, Rested, Before, Loop
<1>9. CASE Rest(p)
    <2>1. /\ pc[p] = "rest" /\ pc'[p] = "create" /\ i'[p] = (i[p] + 1) % ULL
          /\ slept'[p] = slept[p] + Slept(c.delay)
          /\ UNCHANGED <<args, todo, conf, intflag, out, status, late>>
        BY <1>9 DEF Rest, Goto, ProcessesOK
    <2>2. i[p] < c.n
        BY <2>1 DEF Progress, Counted, Loop
    <2>3. i'[p] = i[p] + 1
        <3>1. i[p] + 1 \in 0..(ULL - 1)
            BY <2>2, <1>n, UtilAssumption
        <3> QED BY <2>1, <3>1, ModuloULL
    <2>4. DelayOf(c, i[p] + 1) = DelayOf(c, i[p]) + Slept(c.delay)
        BY <1>n, UtilAssumption, DelayStep DEF ProcessesOK
    <2> QED BY <2>1, <2>2, <2>3, <2>4, <1>n
        DEF Progress, Placed, Counted, Stopped, Rested, Before, Loop
<1>10. CASE EndLoop(p)
    BY <1>10, <1>n DEF EndLoop, Goto, ProcessesOK,
        Progress, Placed, Counted, Stopped, Rested, Before, Loop, Over
<1>11. CASE CloseFile(p)
    BY <1>11, <1>n DEF CloseFile, Exit, Goto, ProcessesOK,
        Progress, Placed, Counted, Stopped, Rested, Before, Loop, Over
<1>12. CASE Interrupt(p)
    <2>1. /\ status[p] = "running" /\ pc[p] # "exit"
          /\ UNCHANGED <<args, todo, conf, out, slept, late>>
        BY <1>12 DEF Interrupt, Progress, Placed
    <2>2. CASE intflag[p] /\ Exit(p, "killed") /\ UNCHANGED <<intflag, i>>
        BY <2>1, <2>2 DEF Exit, Goto, ProcessesOK,
            Progress, Placed, Counted, Stopped, Rested, Before, Loop
    <2>3. CASE intflag' = [intflag EXCEPT ![p] = TRUE] /\ UNCHANGED <<pc, i, status>>
        BY <2>1, <2>3 DEF ProcessesOK,
            Progress, Placed, Counted, Stopped, Rested, Before, Loop, Over
    <2>4. CASE /\ intflag' = [intflag EXCEPT ![p] = TRUE]
               /\ pc[p] = "rest" /\ Goto(p, "create")
               /\ i' = [i EXCEPT ![p] = (@ + 1) % ULL]
               /\ UNCHANGED status
        <3>1. pc'[p] = "create" /\ i'[p] = (i[p] + 1) % ULL /\ intflag'[p] = TRUE
              /\ status'[p] = "running"
            BY <2>1, <2>4 DEF Goto, ProcessesOK
        <3>2. i[p] < c.n
            BY <2>4 DEF Progress, Counted, Loop
        <3>3. i'[p] = i[p] + 1
            <4>1. i[p] + 1 \in 0..(ULL - 1)
                BY <3>2, <1>n, UtilAssumption
            <4> QED BY <3>1, <4>1, ModuloULL
        <3> QED BY <2>1, <2>4, <3>1, <3>2, <3>3, <1>n
            DEF Progress, Placed, Counted, Stopped, Rested, Before, Loop
    <2> QED BY <1>12, <2>2, <2>3, <2>4 DEF Interrupt
<1>13. CASE BailOut(p)
    BY <1>13, <1>n DEF BailOut, Goto, ProcessesOK,
        Progress, Placed, Counted, Stopped, Rested, Before, Loop
<1> QED BY <1>1, <1>2, <1>3, <1>4, <1>5, <1>6, <1>7, <1>8, <1>9, <1>10, <1>11, <1>12,
       <1>13
    DEF Step

LEMMA UtilInvariant == Spec => []UtilInv
<1>1. Init => UtilInv
    BY ProcessesInit, ProgressInit DEF UtilInv
<1>2. UtilInv /\ [Next]_vars => UtilInv'
    <2> SUFFICES ASSUME UtilInv, [Next]_vars PROVE UtilInv'
        OBVIOUS
    <2>1. ProcessesOK'
        BY ProcessesStep DEF UtilInv
    <2>2. ASSUME NEW p \in Procs, Step(p) \/ Interrupt(p), NEW q \in Procs
          PROVE  Progress(q)'
        <3>1. CASE q = p
            BY <2>1, <2>2, <3>1, ProgressStep DEF UtilInv
        <3>2. CASE q # p
            <4>1. Own(q)' = Own(q)
                BY <2>2, <3>2, OthersStay DEF UtilInv
            <4> QED BY <4>1, OwnProgress DEF UtilInv
        <3> QED BY <3>1, <3>2
    <2>3. ASSUME UNCHANGED vars, NEW q \in Procs PROVE Progress(q)'
        <3>1. Own(q)' = Own(q)
            BY <2>3 DEF Own, vars
        <3> QED BY <3>1, OwnProgress DEF UtilInv
    <2> QED BY <2>1, <2>2, <2>3 DEF UtilInv, Next
<1> QED BY <1>1, <1>2, PTL DEF Spec

\* The number reported is that of the identifiers made and printed: all that were
\* asked for, or fewer only after an interrupt; a tool that fails prints none.
THEOREM CountIsAccounted == Spec => []AccountsFor
<1>1. UtilInv => AccountsFor
    <2> SUFFICES ASSUME UtilInv, NEW p \in Procs
                 PROVE  /\ status[p] = "failure" => out[p] = <<>>
                        /\ status[p] = "success" /\ todo[p] = <<>> /\ args[p].operands = 0 =>
                              /\ i[p] = conf[p].n \/ (intflag[p] /\ i[p] < conf[p].n)
                              /\ Len(out[p]) = IF conf[p].nout /\ conf[p].fname = NoFile
                                              THEN 0 ELSE i[p]
        BY DEF AccountsFor
    <2>1. Len(out[p]) = 0 => out[p] = <<>>
        <3>1. out[p] \in Seq(LineSet)
            BY DEF UtilInv, ProcessesOK
        <3> QED BY <3>1, EmptySeq
    <2> QED BY <2>1 DEF UtilInv, Progress, Counted, Over, PrintedOf
<1> QED BY <1>1, UtilInvariant, PTL

\* After an interrupt at most one more identifier is printed.
THEOREM InterruptsStop == Spec => []InterruptStops
<1>1. UtilInv => InterruptStops
    BY DEF UtilInv, Progress, Stopped, InterruptStops
<1> QED BY <1>1, UtilInvariant, PTL

\* "Delay between generation in miliseconds" (usage): a tool that is not
\* interrupted waits the delay it was given once for every identifier (qusleep).
DelayIsWaited ==
    \A p \in Procs :
        status[p] = "success" /\ ~intflag[p] /\ conf[p].delay >= 0
        => slept[p] = i[p] * conf[p].delay

\* A tool that is not interrupted waits its delay once for every identifier it
\* makes, on Windows, or where no delay reaches a second.
THEOREM DelaysAdd ==
    ASSUME WIN32 \/ MaxDelay <= 999
    PROVE  Spec => []DelayIsWaited
<1>1. UtilInv => DelayIsWaited
    <2> SUFFICES ASSUME UtilInv, NEW p \in Procs, status[p] = "success", ~intflag[p],
                        conf[p].delay >= 0
                 PROVE  slept[p] = i[p] * conf[p].delay
        BY DEF DelayIsWaited
    <2>1. slept[p] = i[p] * Slept(conf[p].delay)
        BY UtilAssumption DEF UtilInv, Progress, Rested, DelayOf, ProcessesOK
    <2>2. conf[p].delay \in 0..MaxDelay
        BY UtilAssumption DEF UtilInv, ProcessesOK, Confs
    <2>3. Slept(conf[p].delay) = conf[p].delay
        BY <2>2, SleptInTime
    <2> QED BY <2>1, <2>3
<1> QED BY <1>1, UtilInvariant, PTL

------------------------------------------------------------------------------
\* The output files.

FilesOK ==
    /\ buf \in [Procs -> Seq(Piece)]
    /\ \A p \in Procs : Len(buf[p]) < BufSize
    /\ files \in [Names -> {Absent, Directory} \cup Seq(Piece)]
    /\ OldFilesStay

\* A file that a process has found absent was not there before, and it is
\* a sequence of pieces from fopen on.
FileIsOwn(p) ==
    /\ pc[p] = "fopen" =>
          /\ conf[p].fname \in Names /\ InitialFiles[conf[p].fname] = Absent
          /\ files[conf[p].fname] \in {Absent} \cup Seq(Piece)
    /\ pc[p] \in Loop \cup {"close", "bail"} /\ conf[p].fname # NoFile =>
          /\ InitialFiles[conf[p].fname] = Absent
          /\ files[conf[p].fname] \in Seq(Piece)

StoreInv == UtilInv /\ FilesOK /\ \A p \in Procs : FileIsOwn(p)

LEMMA Blocks ==
    ASSUME NEW n \in Nat
    PROVE  (n \div BufSize) * BufSize \in 0..n /\ n - (n \div BufSize) * BufSize < BufSize
BY UtilAssumption

LEMMA PiecesAre ==
    ASSUME ProcessesOK, NEW p \in Procs
    PROVE  Pieces(p) \in Seq(Piece)
<1>1. Len(out[p]) \in Nat
    BY LenProperties DEF ProcessesOK
<1>2. <<p, Len(out[p]) + 1, 1>> \in Piece /\ <<p, Len(out[p]) + 1, 2>> \in Piece
    BY <1>1 DEF Piece
<1> QED BY <1>2 DEF Pieces

LEMMA BufferStep ==
    ASSUME NEW all \in Seq(Piece)
    PROVE  LET full == (Len(all) \div BufSize) * BufSize
           IN  /\ SubSeq(all, 1, full) \in Seq(Piece)
               /\ SubSeq(all, full + 1, Len(all)) \in Seq(Piece)
               /\ Len(SubSeq(all, full + 1, Len(all))) < BufSize
<1> DEFINE full == (Len(all) \div BufSize) * BufSize
<1>1. Len(all) \in Nat /\ \A k \in 1..Len(all) : all[k] \in Piece
    BY LenProperties, ElementOfSeq
<1>2. full \in 0..Len(all) /\ Len(all) - full < BufSize
    BY <1>1, Blocks
<1> HIDE DEF full
<1>3. SubSeq(all, 1, full) \in Seq(Piece)
    BY <1>1, <1>2, SubSeqProperties
<1>4. SubSeq(all, full + 1, Len(all)) \in Seq(Piece)
      /\ Len(SubSeq(all, full + 1, Len(all))) =
            IF full + 1 <= Len(all) THEN Len(all) - (full + 1) + 1 ELSE 0
    <2>1. full + 1 \in Int /\ Len(all) \in Int
          /\ \A k \in (full + 1)..Len(all) : all[k] \in Piece
        BY <1>1, <1>2
    <2> QED BY <2>1, SubSeqProperties
<1>5. Len(SubSeq(all, full + 1, Len(all))) < BufSize
    BY <1>1, <1>2, <1>4, UtilAssumption
<1> QED BY <1>3, <1>4, <1>5 DEF full

\* A file that was not there before is written.
Written(f) ==
    /\ InitialFiles[f] = Absent
    /\ \E new \in Seq(Piece) : files' = [files EXCEPT ![f] = new]

LEMMA WrittenFiles ==
    ASSUME FilesOK, NEW f \in Names, UNCHANGED files \/ Written(f)
    PROVE  /\ files' \in [Names -> {Absent, Directory} \cup Seq(Piece)]
           /\ OldFilesStay'
           /\ \A g \in Names : files'[g] = files[g] \/ files'[g] \in Seq(Piece)
BY DEF FilesOK, OldFilesStay, Written

LEMMA WriteOutWrites ==
    ASSUME FilesOK, NEW p \in Procs, NEW pieces \in Seq(Piece), WriteOut(p, pieces),
           InitialFiles[conf[p].fname] = Absent, files[conf[p].fname] \in Seq(Piece)
    PROVE  UNCHANGED files \/ Written(conf[p].fname)
<1>1. files[conf[p].fname] \o pieces \in Seq(Piece)
    BY ConcatProperties
<1> QED BY <1>1 DEF WriteOut, Written

LEMMA FileStaysOwn ==
    ASSUME NEW q \in Procs, FileIsOwn(q), conf[q] \in Confs,
           \A g \in Names : files'[g] = files[g] \/ files'[g] \in Seq(Piece),
           conf'[q] = conf[q],
           \/ pc'[q] = pc[q]
           \/ pc'[q] \notin {"fopen", "close", "bail"} \cup Loop
           \/ {pc[q], pc'[q]} \subseteq {"close", "bail"} \cup Loop
    PROVE  FileIsOwn(q)'
<1>1. conf[q].fname \in Names \cup {NoFile}
    BY DEF Confs
<1> QED BY <1>1 DEF FileIsOwn, Loop

LEMMA StoreStep ==
    ASSUME StoreInv, ProcessesOK', NEW p \in Procs, Step(p) \/ Interrupt(p)
    PROVE  FilesOK' /\ FileIsOwn(p)'
           /\ \A g \in Names : files'[g] = files[g] \/ files'[g] \in Seq(Piece)
<1> DEFINE f == conf[p].fname
<1>n. f \in Names \cup {NoFile} /\ conf[p] \in Confs /\ pc[p] \in Labels
    BY DEF StoreInv, UtilInv, ProcessesOK, Confs
<1>t. ProcessesOK /\ FilesOK /\ FileIsOwn(p)
    BY DEF StoreInv, UtilInv
<1>1. ASSUME UNCHANGED <<buf, files>>, FileIsOwn(p)'
      PROVE  FilesOK' /\ FileIsOwn(p)'
             /\ \A g \in Names : files'[g] = files[g] \/ files'[g] \in Seq(Piece)
    BY <1>1, <1>t DEF FilesOK, OldFilesStay
<1>2. CASE ReadOption(p) \/ QuitOption(p) \/ EndOptions(p) \/ CheckOperand(p)
    <2>1. UNCHANGED <<buf, files>>
        BY <1>2 DEF ReadOption, QuitOption, EndOptions, CheckOperand
    <2>2. pc'[p] \in {"options", "operands", "open", "exit"}
        BY <1>2, <1>t DEF ReadOption, QuitOption, EndOptions, CheckOperand, Exit, Goto, ProcessesOK
    <2> QED BY <1>1, <2>1, <2>2 DEF FileIsOwn, Loop
<1>3. CASE CheckName(p)
    <2>1. UNCHANGED <<buf, files, conf>>
        BY <1>3 DEF CheckName
    <2>2. CASE f = NoFile
        BY <1>1, <1>3, <2>1, <2>2, <1>t, UtilAssumption
        DEF CheckName, Goto, FileIsOwn, ProcessesOK
    <2>3. CASE f # NoFile /\ files[f] = Absent
        <3>1. pc'[p] = "fopen"
            BY <1>3, <2>3, <1>t DEF CheckName, check_fname, Goto, ProcessesOK
        <3>2. InitialFiles[f] = Absent
            BY <2>3, <1>n, <1>t DEF FilesOK, OldFilesStay
        <3> QED BY <1>1, <1>n, <2>1, <2>3, <3>1, <3>2 DEF FileIsOwn, Loop
    <2>4. CASE f # NoFile /\ files[f] # Absent
        <3>1. pc'[p] = "exit"
            BY <1>3, <2>4, <1>t DEF CheckName, check_fname, Exit, Goto, ProcessesOK
        <3> QED BY <1>1, <2>1, <3>1 DEF FileIsOwn, Loop
    <2> QED BY <2>2, <2>3, <2>4
<1>4. CASE OpenFile(p)
    <2>1. /\ pc[p] = "fopen" /\ pc'[p] = "create" /\ UNCHANGED <<buf, conf>>
          /\ files' = [files EXCEPT ![f] = Opened(@)]
        BY <1>4, <1>t DEF OpenFile, Goto, ProcessesOK
    <2>2. f \in Names /\ InitialFiles[f] = Absent /\ files[f] \in {Absent} \cup Seq(Piece)
        BY <2>1, <1>t DEF FileIsOwn
    <2>3. Opened(files[f]) \in Seq(Piece)
        BY <2>2, EmptySeq DEF Opened
    <2>4. Written(f)
        BY <2>1, <2>2, <2>3 DEF Written
    <2>5. files'[f] \in Seq(Piece)
        BY <2>1, <2>2, <2>3, <1>t DEF FilesOK
    <2>6. FileIsOwn(p)'
        BY <2>1, <2>2, <2>5 DEF FileIsOwn
    <2> QED BY <2>1, <2>2, <2>4, <2>6, <1>t, WrittenFiles DEF FilesOK
<1>5. CASE CannotOpen(p)
    <2>1. UNCHANGED <<buf, files>> /\ pc'[p] = "exit"
        BY <1>5, <1>t DEF CannotOpen, Exit, Goto, ProcessesOK
    <2> QED BY <1>1, <2>1 DEF FileIsOwn, Loop
<1>6. CASE CreateId(p) \/ BailOut(p) \/ TestFlag(p) \/ Rest(p) \/ EndLoop(p)
    <2>1. /\ UNCHANGED <<buf, files, conf>>
          /\ {pc[p], pc'[p]} \subseteq {"close", "bail"} \cup Loop
        BY <1>6, <1>t DEF CreateId, BailOut, TestFlag, AfterTest, Rest, EndLoop, Goto,
            ProcessesOK, Loop
    <2> QED BY <1>1, <2>1, <1>n, <1>t, FileStaysOwn
<1>7. CASE Output(p)
    <2>1. pc[p] = "print" /\ pc'[p] = "rest" /\ UNCHANGED conf
        BY <1>7, <1>t DEF Output, AfterOutput, Goto, ProcessesOK
    <2>2. CASE f = NoFile
        <3>1. UNCHANGED <<buf, files>>
            BY <1>7, <2>2 DEF Output
        <3> QED BY <1>1, <2>1, <3>1, <1>n, <1>t, FileStaysOwn DEF Loop
    <2>3. CASE f # NoFile
        <3> DEFINE all == buf[p] \o Pieces(p)
                   full == (Len(all) \div BufSize) * BufSize
                   rest == SubSeq(all, full + 1, Len(all))
        <3>1. WriteOut(p, SubSeq(all, 1, full)) /\ buf' = [buf EXCEPT ![p] = rest]
            BY <1>7, <2>3 DEF Output
        <3>2. all \in Seq(Piece)
            BY <1>t, PiecesAre, ConcatProperties DEF FilesOK
        <3>3. SubSeq(all, 1, full) \in Seq(Piece) /\ rest \in Seq(Piece) /\ Len(rest) < BufSize
            BY <3>2, BufferStep
        <3>4. f \in Names /\ InitialFiles[f] = Absent /\ files[f] \in Seq(Piece)
            BY <2>1, <2>3, <1>n, <1>t DEF FileIsOwn, Loop
        <3>5. UNCHANGED files \/ Written(f)
            BY <3>1, <3>3, <3>4, <1>t, WriteOutWrites
        <3>6. buf' \in [Procs -> Seq(Piece)] /\ \A q \in Procs : Len(buf'[q]) < BufSize
            BY <3>1, <3>3, <1>t DEF FilesOK
        <3>7. \A g \in Names : files'[g] = files[g] \/ files'[g] \in Seq(Piece)
            BY <3>4, <3>5, <1>t, WrittenFiles
        <3>8. FileIsOwn(p)'
            BY <2>1, <3>7, <1>n, <1>t, FileStaysOwn DEF Loop
        <3> QED BY <3>4, <3>5, <3>6, <3>7, <3>8, <1>t, WrittenFiles DEF FilesOK
    <2> QED BY <2>2, <2>3
<1>8. CASE CloseFile(p)
    <2>1. pc[p] \in {"close", "bail"} /\ pc'[p] = "exit"
        BY <1>8, <1>t DEF CloseFile, Exit, Goto, ProcessesOK
    <2>2. FileIsOwn(p)'
        BY <2>1 DEF FileIsOwn, Loop
    <2>3. CASE f = NoFile
        <3>1. UNCHANGED <<buf, files>>
            BY <1>8, <2>3 DEF CloseFile
        <3> QED BY <1>1, <2>2, <3>1
    <2>4. CASE f # NoFile
        <3>1. WriteOut(p, buf[p]) /\ buf' = [buf EXCEPT ![p] = <<>>]
            BY <1>8, <2>4 DEF CloseFile
        <3>2. buf[p] \in Seq(Piece) /\ f \in Names
              /\ InitialFiles[f] = Absent /\ files[f] \in Seq(Piece)
            BY <2>1, <2>4, <1>n, <1>t DEF FilesOK, FileIsOwn
        <3>3. UNCHANGED files \/ Written(f)
            BY <3>1, <3>2, <1>t, WriteOutWrites
        <3>4. buf' \in [Procs -> Seq(Piece)] /\ \A q \in Procs : Len(buf'[q]) < BufSize
            BY <3>1, <1>t, EmptySeq, UtilAssumption DEF FilesOK
        <3> QED BY <2>2, <3>2, <3>3, <3>4, <1>t, WrittenFiles DEF FilesOK
    <2> QED BY <2>3, <2>4
<1>9. CASE Interrupt(p)
    <2>1. /\ UNCHANGED <<buf, files, conf>>
          /\ pc'[p] = pc[p] \/ pc'[p] = "exit" \/ (pc[p] = "rest" /\ pc'[p] = "create")
        BY <1>9, <1>t DEF Interrupt, Exit, Goto, ProcessesOK
    <2> QED BY <1>1, <2>1, <1>n, <1>t, FileStaysOwn DEF Loop
<1> QED BY <1>2, <1>3, <1>4, <1>5, <1>6, <1>7, <1>8, <1>9 DEF Step

LEMMA StoreInvariant == Spec => []StoreInv
<1>1. Init => FilesOK /\ \A p \in Procs : FileIsOwn(p)
    <2> SUFFICES ASSUME Init PROVE FilesOK /\ \A p \in Procs : FileIsOwn(p)
        OBVIOUS
    <2>1. \A p \in Procs : pc[p] = "options" /\ buf[p] = <<>>
        BY DEF Init
    <2>2. files \in [Names -> {Absent, Directory} \cup Seq(Piece)]
        <3>1. \A s \in Seq({Old}) : s \in Seq(Piece)
            BY SeqMonotonic DEF Piece
        <3> QED BY <3>1, UtilAssumption DEF Init
    <2>3. buf \in [Procs -> Seq(Piece)] /\ \A p \in Procs : Len(buf[p]) < BufSize
        BY EmptySeq, UtilAssumption DEF Init
    <2>4. OldFilesStay
        BY DEF Init, OldFilesStay
    <2> QED BY <2>1, <2>2, <2>3, <2>4 DEF FilesOK, FileIsOwn, Loop
<1>2. StoreInv /\ UtilInv' /\ [Next]_vars => StoreInv'
    <2> SUFFICES ASSUME StoreInv, UtilInv', [Next]_vars PROVE StoreInv'
        OBVIOUS
    <2>1. ASSUME NEW p \in Procs, Step(p) \/ Interrupt(p)
          PROVE  FilesOK' /\ \A q \in Procs : FileIsOwn(q)'
        <3>1. FilesOK' /\ FileIsOwn(p)'
              /\ \A g \in Names : files'[g] = files[g] \/ files'[g] \in Seq(Piece)
            BY <2>1, StoreStep DEF UtilInv
        <3>2. ASSUME NEW q \in Procs, q # p PROVE FileIsOwn(q)'
            <4>1. pc'[q] = pc[q] /\ conf'[q] = conf[q]
                BY <2>1, <3>2, OthersStay DEF StoreInv, UtilInv, Own
            <4>2. conf[q] \in Confs /\ FileIsOwn(q)
                BY DEF StoreInv, UtilInv, ProcessesOK
            <4> QED BY <3>1, <4>1, <4>2, FileStaysOwn
        <3> QED BY <3>1, <3>2
    <2>2. CASE UNCHANGED vars
        BY <2>2 DEF vars, StoreInv, FilesOK, OldFilesStay, FileIsOwn
    <2> QED BY <2>1, <2>2 DEF StoreInv, Next
<1>3. StoreInv => UtilInv
    BY DEF StoreInv
<1>4. Init /\ UtilInv => StoreInv
    BY <1>1 DEF StoreInv
<1> QED BY <1>2, <1>4, UtilInvariant, PTL DEF Spec

\* The types of main's variables; less than a block stays in a buffer.
THEOREM UtilTypeCorrect == Spec => []TypeOK
<1>1. StoreInv => TypeOK
    <2> SUFFICES ASSUME StoreInv PROVE TypeOK
        OBVIOUS
    <2>1. ProcessesOK /\ FilesOK
        BY DEF StoreInv, UtilInv
    <2>2. \A p \in Procs : conf[p].n \in 0..(ULL - 1) /\ conf[p].cat \in Categories
                            /\ conf[p].fname \in Names \cup {NoFile}
        BY <2>1 DEF ProcessesOK, Confs
    <2> QED BY <2>1, <2>2 DEF ProcessesOK, FilesOK, TypeOK
<1> QED BY <1>1, StoreInvariant, PTL

\* A file that was there before the tool ran is never written.
THEOREM OldFilesAreKept == Spec => []OldFilesStay
<1>1. StoreInv => OldFilesStay
    BY DEF StoreInv, FilesOK
<1> QED BY <1>1, StoreInvariant, PTL

------------------------------------------------------------------------------
\* What the options read so far have set.

LEMMA MaxOfPlaces ==
    ASSUME NEW n \in Nat, NEW places \in SUBSET (1..(n + 1)), n + 1 \in places
    PROVE  Max(places) = n + 1
<1>1. \A y \in places : n + 1 >= y
    OBVIOUS
<1>2. \A x \in places : (\A y \in places : x >= y) => x = n + 1
    OBVIOUS
<1> QED BY <1>1, <1>2 DEF Max

\* One option more is the last of its names, or changes nothing.
LEMMA LastOfStep ==
    ASSUME NEW options, NEW n \in Nat, NEW names
    PROVE  LastOf(options, n + 1, names) =
              IF options[n + 1].name \in names THEN n + 1 ELSE LastOf(options, n, names)
<1> DEFINE Among(m) == {k \in 1..m : options[k].name \in names}
<1>1. CASE options[n + 1].name \in names
    <2>1. Among(n + 1) \in SUBSET (1..(n + 1)) /\ n + 1 \in Among(n + 1)
        BY <1>1
    <2>2. Max(Among(n + 1)) = n + 1
        BY <2>1, MaxOfPlaces
    <2> QED BY <1>1, <2>1, <2>2 DEF LastOf
<1>2. CASE options[n + 1].name \notin names
    <2>1. Among(n + 1) = Among(n)
        BY <1>2
    <2> QED BY <1>2, <2>1 DEF LastOf
<1> QED BY <1>1, <1>2

LEMMA LastOfNone ==
    ASSUME NEW options, NEW names
    PROVE  LastOf(options, 0, names) = 0
BY DEF LastOf

\* The bits of flags.
BitsOf(names) == {IDF[f] : f \in names}

\* The first n options have set the variables of main to what they ask for.
Settings(p, n) ==
    /\ conf[p].cat = ValueIn(args[p].options, n, "category", 1) % CHAR
    /\ conf[p].tag = ValueIn(args[p].options, n, "tag", NoTag)
    /\ conf[p].flg = BitsOf(FlagsIn(args[p].options, n))
    /\ conf[p].fmat = FormatIn(args[p].options, n)
    /\ cuuid[p].version = ValueIn(args[p].options, n, "rev", 7)

\* Some options were read and those in todo were not; nothing is printed yet.
SettingsInv(p) ==
    \E n \in 0..Len(args[p].options) :
        /\ todo[p] = SubSeq(args[p].options, n + 1, Len(args[p].options))
        /\ Settings(p, n)

\* What was made and what was printed is what main's variables ask for.
LinesInv(p) ==
    /\ todo[p] # <<>> => out[p] = <<>>
    /\ pc[p] \in {"test", "print"} =>
          cuuid[p].fields \in Fields /\ Reading(cuuid[p].fields) = Request(p)
    /\ \A k \in 1..Len(out[p]) :
          /\ out[p][k].fields \in Fields
          /\ Reading(out[p][k].fields) = Request(p) /\ out[p][k].format = conf[p].fmat

AskedInv == UtilInv /\ \A p \in Procs : SettingsInv(p) /\ LinesInv(p)

LEMMA ValueStep ==
    ASSUME NEW options, NEW n \in Nat, NEW name, NEW default
    PROVE  ValueIn(options, n + 1, name, default) =
              IF options[n + 1].name = name THEN options[n + 1].value
              ELSE ValueIn(options, n, name, default)
<1>1. LastOf(options, n + 1, {name}) =
         IF options[n + 1].name = name THEN n + 1 ELSE LastOf(options, n, {name})
    BY LastOfStep
<1>2. n + 1 # 0
    OBVIOUS
<1> QED BY <1>1, <1>2 DEF ValueIn

LEMMA FlagsStep ==
    ASSUME NEW options, NEW n \in Nat
    PROVE  FlagsIn(options, n + 1) =
              FlagsIn(options, n) \cup ({options[n + 1].name} \cap FlagNames)
<1>1. \A f \in FlagNames : LastOf(options, n + 1, {f}) =
         IF options[n + 1].name = f THEN n + 1 ELSE LastOf(options, n, {f})
    BY LastOfStep
<1>2. n + 1 # 0
    OBVIOUS
<1> QED BY <1>1, <1>2 DEF FlagsIn

LEMMA FormatStep ==
    ASSUME NEW options, NEW n \in Nat
    PROVE  FormatIn(options, n + 1) =
              IF options[n + 1].name = "hex" THEN "hex"
              ELSE IF options[n + 1].name = "number" THEN "dec"
              ELSE FormatIn(options, n)
<1>1. LastOf(options, n + 1, {"hex", "number"}) =
         IF options[n + 1].name \in {"hex", "number"} THEN n + 1
         ELSE LastOf(options, n, {"hex", "number"})
    BY LastOfStep
<1>2. n + 1 # 0
    OBVIOUS
<1> QED BY <1>1, <1>2 DEF FormatIn

\* What an accepted option does to the variables.
LEMMA UpdatedSettings ==
    ASSUME NEW c \in Confs, NEW o \in OptionSet
    PROVE  LET d == Updated(c, o)
           IN  /\ d.cat = IF o.name = "category" THEN o.value % CHAR ELSE c.cat
               /\ d.tag = IF o.name = "tag" THEN o.value ELSE c.tag
               /\ d.flg = c.flg \cup BitsOf({o.name} \cap FlagNames)
               /\ d.fmat = IF o.name = "hex" THEN "hex"
                           ELSE IF o.name = "number" THEN "dec" ELSE c.fmat
<1> USE FlagNamesAre
<1>1. CASE o.name \in {"category", "tag", "hex", "number"}
    BY <1>1 DEF Updated, Confs, BitsOf, Category
<1>2. CASE o.name \in {"count", "delay", "output", "silent", "verbose"}
    BY <1>2 DEF Updated, Confs, BitsOf
<1>3. CASE o.name \in FlagNames
    <2>1. Updated(c, o) = [c EXCEPT !.flg = @ \cup {IDF[o.name]}]
        BY <1>3 DEF Updated
    <2>2. BitsOf({o.name} \cap FlagNames) = {IDF[o.name]}
        BY <1>3 DEF BitsOf
    <2> QED BY <1>3, <2>1, <2>2 DEF Confs
<1>4. CASE o.name \notin {"category", "count", "delay", "output", "hex", "number",
                          "silent", "verbose", "tag"} \cup FlagNames
    <2>1. Updated(c, o) = c
        BY <1>4 DEF Updated
    <2> QED BY <1>4, <2>1 DEF BitsOf
<1> QED BY <1>1, <1>2, <1>3, <1>4
LEMMA SettingsRead ==
    ASSUME ProcessesOK, NEW p \in Procs, SettingsInv(p), ReadOption(p)
    PROVE  SettingsInv(p)'
<1> DEFINE options == args[p].options
<1>1. options \in Seq(OptionSet)
    BY CommandLineAssumption DEF ProcessesOK
<1>2. PICK n \in 0..Len(options) :
         todo[p] = SubSeq(options, n + 1, Len(options)) /\ Settings(p, n)
    BY DEF SettingsInv
<1>3. Len(options) \in Nat /\ n \in Nat
    BY <1>1, LenProperties
<1>4. n + 1 \in 1..Len(options)
    <2>1. CASE n = Len(options)
        <3>1. todo[p] = <<>>
            BY <1>2, <1>3, <2>1, SubSeqEmpty
        <3> QED BY <3>1 DEF ReadOption
    <2> QED BY <1>3, <2>1
<1>5. options[n + 1] \in OptionSet
    BY <1>1, <1>4, ElementOfSeq
<1> DEFINE o == options[n + 1]
<1>6. Head(todo[p]) = o /\ Tail(todo[p]) = SubSeq(options, n + 2, Len(options))
    <2>1. Len(options) \in (n + 1)..Len(options)
        BY <1>3, <1>4
    <2>2. Head(todo[p]) = o /\ Tail(todo[p]) = SubSeq(options, (n + 1) + 1, Len(options))
        BY <1>1, <1>2, <1>4, <2>1, HeadTailOfSubSeq
    <2>3. (n + 1) + 1 = n + 2
        BY <1>3
    <2> QED BY <2>2, <2>3
<1>7. /\ todo'[p] = SubSeq(options, n + 2, Len(options))
      /\ conf'[p] = Updated(conf[p], o)
      /\ cuuid'[p].version = IF o.name = "rev" THEN o.value ELSE cuuid[p].version
      /\ args'[p] = args[p]
    BY <1>6 DEF ReadOption, ProcessesOK, Structures
<1>8. /\ conf'[p].cat = IF o.name = "category" THEN o.value % CHAR ELSE conf[p].cat
      /\ conf'[p].tag = IF o.name = "tag" THEN o.value ELSE conf[p].tag
      /\ conf'[p].flg = conf[p].flg \cup BitsOf({o.name} \cap FlagNames)
      /\ conf'[p].fmat = IF o.name = "hex" THEN "hex"
                         ELSE IF o.name = "number" THEN "dec" ELSE conf[p].fmat
    <2>1. conf[p] \in Confs /\ o \in OptionSet
        BY <1>5 DEF ProcessesOK
    <2> HIDE DEF o
    <2>2. \A c \in Confs :
             /\ Updated(c, o).cat = IF o.name = "category" THEN o.value % CHAR ELSE c.cat
             /\ Updated(c, o).tag = IF o.name = "tag" THEN o.value ELSE c.tag
             /\ Updated(c, o).flg = c.flg \cup BitsOf({o.name} \cap FlagNames)
             /\ Updated(c, o).fmat = IF o.name = "hex" THEN "hex"
                                     ELSE IF o.name = "number" THEN "dec" ELSE c.fmat
        BY <2>1, UpdatedSettings
    <2> QED BY <1>7, <2>1, <2>2
<1>9. BitsOf(FlagsIn(options, n + 1)) =
         BitsOf(FlagsIn(options, n)) \cup BitsOf({o.name} \cap FlagNames)
    <2>1. FlagsIn(options, n + 1) = FlagsIn(options, n) \cup ({o.name} \cap FlagNames)
        BY <1>3, FlagsStep
    <2> QED BY <2>1 DEF BitsOf
<1>10. Settings(p, n + 1)'
    <2>1. /\ ValueIn(options, n + 1, "category", 1) =
                IF o.name = "category" THEN o.value ELSE ValueIn(options, n, "category", 1)
          /\ ValueIn(options, n + 1, "tag", NoTag) =
                IF o.name = "tag" THEN o.value ELSE ValueIn(options, n, "tag", NoTag)
          /\ ValueIn(options, n + 1, "rev", 7) =
                IF o.name = "rev" THEN o.value ELSE ValueIn(options, n, "rev", 7)
        <3> HIDE DEF options
        <3>1. \A name, default : ValueIn(options, n + 1, name, default) =
                 IF options[n + 1].name = name THEN options[n + 1].value
                 ELSE ValueIn(options, n, name, default)
            BY <1>3, ValueStep
        <3> QED BY <3>1
    <2>2. FormatIn(options, n + 1) =
             IF o.name = "hex" THEN "hex"
             ELSE IF o.name = "number" THEN "dec" ELSE FormatIn(options, n)
        BY <1>3, FormatStep
    <2>3. args'[p].options = options
        BY <1>7
    <2> HIDE DEF options, o
    <2>4. /\ conf[p].cat = ValueIn(options, n, "category", 1) % CHAR
          /\ conf[p].tag = ValueIn(options, n, "tag", NoTag)
          /\ conf[p].flg = BitsOf(FlagsIn(options, n))
          /\ conf[p].fmat = FormatIn(options, n)
          /\ cuuid[p].version = ValueIn(options, n, "rev", 7)
        BY <1>2 DEF Settings, options
    <2>5. /\ conf'[p].cat = ValueIn(options, n + 1, "category", 1) % CHAR
          /\ conf'[p].tag = ValueIn(options, n + 1, "tag", NoTag)
          /\ conf'[p].flg = BitsOf(FlagsIn(options, n + 1))
          /\ conf'[p].fmat = FormatIn(options, n + 1)
          /\ cuuid'[p].version = ValueIn(options, n + 1, "rev", 7)
        BY <1>7, <1>8, <1>9, <2>1, <2>2, <2>4
    <2> QED BY <2>3, <2>5 DEF Settings
<1>11. n + 1 \in 0..Len(options) /\ n + 2 = (n + 1) + 1
    BY <1>3, <1>4
<1> QED BY <1>7, <1>10, <1>11 DEF SettingsInv

LEMMA SettingsStay ==
    ASSUME NEW p \in Procs, SettingsInv(p), args'[p] = args[p], todo'[p] = todo[p],
           conf'[p] = conf[p], cuuid'[p].version = cuuid[p].version
    PROVE  SettingsInv(p)'
BY DEF SettingsInv, Settings

LEMMA LinesStay ==
    ASSUME NEW p \in Procs, LinesInv(p), out'[p] = out[p], todo'[p] = todo[p],
           conf'[p] = conf[p], cuuid'[p] = cuuid[p],
           pc'[p] \in {"test", "print"} => pc[p] \in {"test", "print"}
    PROVE  LinesInv(p)'
BY DEF LinesInv, Request

\* What the next structure asks for is what the last one did.
LEMMA RequestStays ==
    ASSUME ProcessesOK, NEW p \in Procs, CreateId(p)
    PROVE  /\ conf'[p] = conf[p] /\ cuuid'[p].version = cuuid[p].version
           /\ Request(p)' = Request(p)
           /\ cuuid'[p].fields \in Fields /\ Reading(cuuid'[p].fields) = Request(p)
<1>1. PICK u \in Fields : /\ Reading(u) = Request(p)
                          /\ cuuid' = [cuuid EXCEPT ![p] = NewStructure(u)]
    BY DEF CreateId
<1>2. cuuid'[p] = [version |-> VersionOf(u), fields |-> u]
    BY <1>1 DEF ProcessesOK, NewStructure
<1>3. VersionOf(u) = cuuid[p].version
    <2>1. Reading(u).version = cuuid[p].version
        BY <1>1 DEF Request
    <2> QED BY <2>1, ReadingAssumption
<1> QED BY <1>1, <1>2, <1>3 DEF CreateId, Request

LEMMA LinesPrint ==
    ASSUME ProcessesOK, NEW p \in Procs, Progress(p), LinesInv(p), Output(p)
    PROVE  LinesInv(p)'
<1>1. /\ pc[p] = "print" /\ pc'[p] = "rest"
      /\ UNCHANGED <<todo, conf, cuuid>>
      /\ out' = out \/ out'[p] = Append(out[p], Line(p))
    BY DEF Output, Goto, AfterOutput, ProcessesOK
<1>2. todo[p] = <<>>
    BY <1>1 DEF Progress, Placed
<1>3. Request(p)' = Request(p)
    BY <1>1 DEF Request
<1>4. ASSUME NEW k \in 1..Len(out'[p])
      PROVE  /\ out'[p][k].fields \in Fields
             /\ Reading(out'[p][k].fields) = Request(p) /\ out'[p][k].format = conf[p].fmat
    <2>1. CASE out' = out
        BY <1>4, <2>1 DEF LinesInv
    <2>2. CASE out'[p] = Append(out[p], Line(p))
        <3>1. Line(p) \in LineSet /\ out[p] \in Seq(LineSet)
            BY DEF ProcessesOK, Line, LineSet, Structures, Confs
        <3>2. /\ Len(out'[p]) = Len(out[p]) + 1 /\ Len(out[p]) \in Nat
              /\ \A j \in 1..Len(out[p]) : out'[p][j] = out[p][j]
              /\ out'[p][Len(out[p]) + 1] = Line(p)
            BY <2>2, <3>1, AppendProperties, LenProperties
        <3>3. CASE k \in 1..Len(out[p])
            BY <3>2, <3>3 DEF LinesInv
        <3>4. CASE k = Len(out[p]) + 1
            BY <1>1, <3>2, <3>4 DEF LinesInv, Line
        <3> QED BY <1>4, <3>2, <3>3, <3>4
    <2> QED BY <1>1, <2>1, <2>2
<1> QED BY <1>1, <1>2, <1>3, <1>4 DEF LinesInv

LEMMA AskedStep ==
    ASSUME ProcessesOK, NEW p \in Procs, Progress(p), SettingsInv(p), LinesInv(p),
           Step(p) \/ Interrupt(p)
    PROVE  SettingsInv(p)' /\ LinesInv(p)'
<1> USE DEF ProcessesOK
<1>1. CASE ReadOption(p)
    <2>1. out[p] = <<>> /\ out' = out /\ pc' = pc /\ pc[p] = "options"
        BY <1>1 DEF ReadOption, LinesInv
    <2> QED BY <1>1, <2>1, SettingsRead, EmptySeq DEF LinesInv
<1>2. CASE QuitOption(p) \/ EndOptions(p)
    <2>1. UNCHANGED <<args, todo, conf, cuuid, out>>
          /\ pc'[p] \in {"exit", "operands", "open"}
        BY <1>2 DEF QuitOption, EndOptions, Exit, Goto
    <2> QED BY <2>1, SettingsStay, LinesStay
<1>3. CASE CheckOperand(p)
    <2>1. UNCHANGED <<args, todo, conf, cuuid, out>> /\ pc'[p] \in {pc[p], "exit"}
        BY <1>3 DEF CheckOperand, Exit, Goto
    <2> QED BY <2>1, SettingsStay, LinesStay
<1>4. CASE CheckName(p) \/ OpenFile(p) \/ CannotOpen(p)
    <2>1. UNCHANGED <<args, todo, conf, cuuid, out>>
          /\ pc'[p] \in {"exit", "fopen", "create"}
        BY <1>4 DEF CheckName, OpenFile, CannotOpen, Exit, Goto
    <2> QED BY <2>1, SettingsStay, LinesStay
<1>5. CASE CreateId(p)
    <2>1. UNCHANGED <<args, todo, out>>
        BY <1>5 DEF CreateId
    <2> QED BY <1>5, <2>1, RequestStays, SettingsStay DEF LinesInv
<1>6. CASE BailOut(p) \/ TestFlag(p) \/ Rest(p) \/ EndLoop(p) \/ CloseFile(p)
    <2>1. UNCHANGED <<args, todo, conf, cuuid, out>>
          /\ (pc'[p] = "print" => pc[p] = "test") /\ pc'[p] # "test"
        BY <1>6 DEF BailOut, TestFlag, AfterTest, Rest, EndLoop, CloseFile, Exit, Goto
    <2> QED BY <2>1, SettingsStay, LinesStay
<1>7. CASE Output(p)
    <2>1. UNCHANGED <<args, todo, conf, cuuid>>
        BY <1>7 DEF Output
    <2> QED BY <1>7, <2>1, SettingsStay, LinesPrint
<1>8. CASE Interrupt(p)
    <2>1. UNCHANGED <<args, todo, conf, cuuid, out>> /\ pc'[p] \in {pc[p], "exit", "create"}
        BY <1>8 DEF Interrupt, Exit, Goto
    <2> QED BY <2>1, SettingsStay, LinesStay
<1> QED BY <1>1, <1>2, <1>3, <1>4, <1>5, <1>6, <1>7, <1>8 DEF Step

LEMMA AskedInit ==
    ASSUME Init, NEW p \in Procs
    PROVE  SettingsInv(p) /\ LinesInv(p)
<1> DEFINE options == args[p].options
<1>1. options \in Seq(OptionSet)
    BY CommandLineAssumption DEF Init
<1>2. todo[p] = SubSeq(options, 1, Len(options))
    BY <1>1, SubSeqFull DEF Init
<1>3. \A names : LastOf(options, 0, names) = 0
    BY LastOfNone
<1>4. Settings(p, 0)
    <2>1. 1 % CHAR = 1
        BY UtilAssumption
    <2>2. BitsOf(FlagsIn(options, 0)) = {}
        BY <1>3 DEF BitsOf, FlagsIn
    <2> QED BY <1>3, <2>1, <2>2 DEF Settings, ValueIn, FormatIn, Init, Defaults
<1>5. SettingsInv(p)
    <2>1. 0 \in 0..Len(options) /\ 0 + 1 = 1
        BY <1>1, LenProperties
    <2> QED BY <1>2, <1>4, <2>1 DEF SettingsInv
<1>6. out[p] = <<>> /\ pc[p] = "options"
    BY DEF Init
<1> QED BY <1>5, <1>6, EmptySeq DEF LinesInv

\* Nor the structures of the others.
LEMMA OthersKeepTheirs ==
    ASSUME ProcessesOK, NEW p \in Procs, Step(p) \/ Interrupt(p),
           NEW q \in Procs, q # p
    PROVE  cuuid'[q] = cuuid[q]
<1>1. CASE ReadOption(p) \/ CreateId(p)
    BY <1>1 DEF ReadOption, CreateId, ProcessesOK
<1>2. CASE UNCHANGED cuuid
    BY <1>2
<1> QED BY <1>1, <1>2
    DEF Step, QuitOption, EndOptions, CheckOperand, CheckName, OpenFile, CannotOpen,
        BailOut, TestFlag, Output, Rest, EndLoop, CloseFile, Interrupt

LEMMA AskedInvariant == Spec => []AskedInv
<1>1. Init => \A p \in Procs : SettingsInv(p) /\ LinesInv(p)
    BY AskedInit
<1>2. AskedInv /\ UtilInv' /\ [Next]_vars => AskedInv'
    <2> SUFFICES ASSUME AskedInv, UtilInv', [Next]_vars, NEW q \in Procs
                 PROVE  SettingsInv(q)' /\ LinesInv(q)'
        BY DEF AskedInv
    <2>1. ASSUME NEW p \in Procs, Step(p) \/ Interrupt(p)
          PROVE  SettingsInv(q)' /\ LinesInv(q)'
        <3>1. CASE q = p
            BY <2>1, <3>1, AskedStep DEF AskedInv, UtilInv
        <3>2. CASE q # p
            <4>1. Own(q)' = Own(q) /\ cuuid'[q] = cuuid[q]
                BY <2>1, <3>2, OthersStay, OthersKeepTheirs DEF AskedInv, UtilInv
            <4> QED BY <4>1, SettingsStay, LinesStay DEF Own, AskedInv
        <3> QED BY <3>1, <3>2
    <2>2. CASE UNCHANGED vars
        BY <2>2, SettingsStay, LinesStay DEF vars, AskedInv
    <2> QED BY <2>1, <2>2 DEF Next
<1>3. AskedInv => UtilInv
    BY DEF AskedInv
<1>4. Init /\ UtilInv => AskedInv
    BY <1>1 DEF AskedInv
<1> QED BY <1>2, <1>4, UtilInvariant, PTL DEF Spec

\* What is printed is what the command line asks for, the first time and later.
THEOREM LinesAreAsAsked == Spec => []LinesMatchOptions
<1>1. AskedInv => LinesMatchOptions
    <2> SUFFICES ASSUME AskedInv, NEW p \in Procs, NEW k \in 1..Len(out[p])
                 PROVE  /\ Reading(out[p][k].fields).version = VersionAsked(p)
                        /\ Reading(out[p][k].fields).tag = TagAsked(p)
                        /\ Reading(out[p][k].fields).cat = LastGiven(p, "category", 1) % CHAR
                        /\ Reading(out[p][k].fields).flag = {IDF[f] : f \in SetFlags(p)}
                        /\ out[p][k].format = FormatAsked(p)
        BY DEF LinesMatchOptions, CategoryAsked
    <2> DEFINE options == args[p].options
    <2>1. options \in Seq(OptionSet) /\ out[p] \in Seq(LineSet)
        BY CommandLineAssumption DEF AskedInv, UtilInv, ProcessesOK
    <2>2. todo[p] = <<>>
        <3>1. out[p] # <<>>
            BY <2>1, EmptySeq
        <3> QED BY <3>1 DEF AskedInv, LinesInv
    <2>3. PICK n \in 0..Len(options) :
             todo[p] = SubSeq(options, n + 1, Len(options)) /\ Settings(p, n)
        BY DEF AskedInv, SettingsInv
    <2>4. n = Len(options)
        <3>1. Len(options) \in Nat /\ \A m \in (n + 1)..Len(options) : options[m] \in OptionSet
            <4>1. Len(options) \in Nat
                BY <2>1, LenProperties
            <4> QED BY <2>1, <4>1, ElementOfSeq
        <3>2. n + 1 <= Len(options) =>
                 Len(SubSeq(options, n + 1, Len(options))) = Len(options) - (n + 1) + 1
            BY <3>1, SubSeqProperties
        <3>3. Len(todo[p]) = 0
            BY <2>2, EmptySeq
        <3> QED BY <2>3, <3>1, <3>2, <3>3
    <2>5. Reading(out[p][k].fields) = Request(p) /\ out[p][k].format = conf[p].fmat
        BY DEF AskedInv, LinesInv
    <2> QED BY <2>3, <2>4, <2>5
        DEF Settings, Request, VersionAsked, TagAsked, FormatAsked, SetFlags, LastGiven, BitsOf
<1> QED BY <1>1, AskedInvariant, PTL

------------------------------------------------------------------------------
\* The pieces of a process: those in its file and those in its buffer.

\* The piece of process p that has number n.
PieceOf(p, n) == <<p, (n + 1) \div 2, 2 - (n % 2)>>

Ordered(file, p) ==
    \A j, k \in 1..Len(file) :
        file[j][1] = p /\ file[k][1] = p /\ j < k => NumberOf(file[j]) < NumberOf(file[k])

\* The file has the first m pieces of p, in order.
Holds(file, p, m) ==
    /\ Ordered(file, p)
    /\ {NumberOf(file[k]) : k \in {j \in 1..Len(file) : file[j][1] = p}} = 1..m

\* The buffer has the pieces of p that follow the first m.
Follows(b, p, m) == \A k \in 1..Len(b) : b[k] = PieceOf(p, m + k)

\* A file that was not there before holds only what its writers printed.
OwnPieces ==
    \A f \in Names : InitialFiles[f] = Absent /\ files[f] \in Seq(Piece) =>
        \A k \in 1..Len(files[f]) : \E p \in Procs :
            files[f][k][1] = p /\ conf[p].fname = f /\ out[p] # <<>>

\* All pieces are those of p.
AllOf(b, p) == \A k \in 1..Len(b) : b[k][1] = p

KeptBy(p) ==
    /\ AllOf(buf[p], p)
    /\ out[p] = <<>> \/ conf[p].fname = NoFile => buf[p] = <<>>
    /\ out[p] # <<>> /\ conf[p].fname # NoFile =>
          InitialFiles[conf[p].fname] = Absent /\ files[conf[p].fname] \in Seq(Piece)
    /\ status[p] \in {"success", "bailed"} => buf[p] = <<>>
    /\ out[p] # <<>> /\ conf[p].fname # NoFile /\ ~lossy[p] =>
          \E m \in Nat :
              /\ m + Len(buf[p]) = 2 * Len(out[p])
              /\ Holds(files[conf[p].fname], p, m)
              /\ Follows(buf[p], p, m)

KeepInv == StoreInv /\ OwnPieces /\ \A p \in Procs : KeptBy(p)

LEMMA NumbersOfPieces ==
    ASSUME NEW p \in Procs, NEW n \in Nat \ {0}
    PROVE  /\ PieceOf(p, n) \in Piece
           /\ PieceOf(p, n)[1] = p
           /\ NumberOf(PieceOf(p, n)) = n
<1>1. (n + 1) \div 2 \in Nat \ {0} /\ 2 - (n % 2) \in {1, 2}
      /\ 2 * ((n + 1) \div 2 - 1) + (2 - (n % 2)) = n
    OBVIOUS
<1> QED BY <1>1 DEF PieceOf, NumberOf, Piece

LEMMA PiecesFollow ==
    ASSUME ProcessesOK, NEW p \in Procs
    PROVE  Len(Pieces(p)) = 2 /\ Follows(Pieces(p), p, 2 * Len(out[p]))
<1>1. PICK n \in Nat : n = Len(out[p])
    BY LenProperties DEF ProcessesOK
<1>2. /\ ((2 * n + 1) + 1) \div 2 = n + 1 /\ 2 - ((2 * n + 1) % 2) = 1
      /\ ((2 * n + 2) + 1) \div 2 = n + 1 /\ 2 - ((2 * n + 2) % 2) = 2
    OBVIOUS
<1>3. Pieces(p)[1] = PieceOf(p, 2 * n + 1) /\ Pieces(p)[2] = PieceOf(p, 2 * n + 2)
    BY <1>1, <1>2 DEF Pieces, PieceOf
<1>4. Len(Pieces(p)) = 2
    BY DEF Pieces
<1> QED BY <1>1, <1>3, <1>4 DEF Follows

\* Written pieces follow those in the file, and what stays in the buffer follows
\* them.
LEMMA WriteFollows ==
    ASSUME NEW p \in Procs, NEW file \in Seq(Piece), NEW all \in Seq(Piece),
           NEW m \in Nat, NEW full \in 0..Len(all),
           Holds(file, p, m), Follows(all, p, m)
    PROVE  /\ Holds(file \o SubSeq(all, 1, full), p, m + full)
           /\ Follows(SubSeq(all, full + 1, Len(all)), p, m + full)
           /\ Len(SubSeq(all, full + 1, Len(all))) = Len(all) - full
<1> DEFINE written == SubSeq(all, 1, full)
           rest == SubSeq(all, full + 1, Len(all))
           new == file \o written
           Mine(f) == {j \in 1..Len(f) : f[j][1] = p}
<1>1. Len(file) \in Nat /\ Len(all) \in Nat /\ full \in Nat
    BY LenProperties
<1>2. \A k \in 1..Len(all) : all[k] \in Piece
    BY ElementOfSeq
<1>3. /\ written \in Seq(Piece) /\ Len(written) = full
      /\ \A k \in 1..full : written[k] = all[k]
    <2>1. \A k \in 1..full : all[k] \in Piece
        BY <1>1, <1>2
    <2>2. /\ written \in Seq(Piece)
          /\ Len(written) = IF 1 <= full THEN full - 1 + 1 ELSE 0
          /\ \A k \in 1..(full - 1 + 1) : written[k] = all[1 + k - 1]
        BY <1>1, <2>1, SubSeqProperties
    <2> HIDE DEF written
    <2> QED BY <1>1, <2>2
<1>4. /\ Len(rest) = Len(all) - full
      /\ \A k \in 1..(Len(all) - full) : rest[k] = all[full + k]
    <2>1. \A k \in (full + 1)..Len(all) : all[k] \in Piece
        BY <1>1, <1>2
    <2>2. full + 1 \in Int /\ Len(all) \in Int
        BY <1>1
    <2>3. /\ Len(rest) = IF full + 1 <= Len(all) THEN Len(all) - (full + 1) + 1 ELSE 0
          /\ \A k \in 1..(Len(all) - (full + 1) + 1) : rest[k] = all[(full + 1) + k - 1]
        BY <2>1, <2>2, SubSeqProperties
    <2> HIDE DEF rest
    <2>4. Len(rest) = Len(all) - full
        BY <1>1, <2>3
    <2>5. ASSUME NEW k \in 1..(Len(all) - full) PROVE rest[k] = all[full + k]
        <3>1. k \in 1..(Len(all) - (full + 1) + 1) /\ (full + 1) + k - 1 = full + k
            BY <1>1
        <3> QED BY <2>3, <3>1
    <2> QED BY <2>4, <2>5
<1> HIDE DEF written, rest
<1>5. Follows(rest, p, m + full)
    <2>1. ASSUME NEW k \in 1..Len(rest) PROVE rest[k] = PieceOf(p, (m + full) + k)
        <3>1. full + k \in 1..Len(all) /\ m + (full + k) = (m + full) + k
            BY <1>1, <1>4
        <3> QED BY <1>4, <3>1 DEF Follows
    <2> QED BY <2>1 DEF Follows
<1>6. /\ Len(new) = Len(file) + full
      /\ \A k \in 1..Len(file) : new[k] = file[k]
      /\ \A k \in 1..full : new[Len(file) + k] = PieceOf(p, m + k)
    <2>1. /\ Len(new) = Len(file) + Len(written)
          /\ \A k \in 1..(Len(file) + Len(written)) :
                new[k] = IF k <= Len(file) THEN file[k] ELSE written[k - Len(file)]
        BY <1>3, ConcatProperties
    <2> HIDE DEF new
    <2>2. \A k \in 1..full : written[k] = PieceOf(p, m + k)
        BY <1>1, <1>3 DEF Follows
    <2>3. ASSUME NEW k \in 1..full PROVE new[Len(file) + k] = PieceOf(p, m + k)
        <3>1. Len(file) + k \in 1..(Len(file) + Len(written)) /\ ~(Len(file) + k <= Len(file))
              /\ (Len(file) + k) - Len(file) = k
            BY <1>1, <1>3
        <3> QED BY <2>1, <2>2, <3>1
    <2>4. ASSUME NEW k \in 1..Len(file) PROVE new[k] = file[k]
        <3>1. k \in 1..(Len(file) + Len(written)) /\ k <= Len(file)
            BY <1>1, <1>3
        <3> QED BY <2>1, <3>1
    <2> QED BY <1>3, <2>1, <2>3, <2>4
<1> HIDE DEF new
<1>7. \A k \in 1..full : new[Len(file) + k][1] = p /\ NumberOf(new[Len(file) + k]) = m + k
    <2>1. \A k \in 1..full : m + k \in Nat \ {0}
        BY <1>1
    <2> QED BY <1>6, <2>1, NumbersOfPieces
<1>8. \A k \in Mine(new) :
         \/ k \in Mine(file) /\ new[k] = file[k]
         \/ \E d \in 1..full : k = Len(file) + d /\ NumberOf(new[k]) = m + d
    <2>1. ASSUME NEW k \in 1..Len(new), k > Len(file), new[k][1] = p
          PROVE  \E d \in 1..full : k = Len(file) + d /\ NumberOf(new[k]) = m + d
        <3>1. k - Len(file) \in 1..full /\ k = Len(file) + (k - Len(file))
            BY <1>1, <1>6, <2>1
        <3> QED BY <1>7, <3>1
    <2>2. ASSUME NEW k \in 1..Len(new), ~(k > Len(file)), new[k][1] = p
          PROVE  k \in Mine(file) /\ new[k] = file[k]
        BY <1>1, <1>6, <2>2
    <2> QED BY <2>1, <2>2
<1>9. \A k \in Mine(file) : k \in Mine(new) /\ new[k] = file[k]
    BY <1>1, <1>6
<1>10. \A d \in 1..full : Len(file) + d \in Mine(new)
    <2>1. ASSUME NEW d \in 1..full PROVE Len(file) + d \in 1..Len(new)
        BY <1>1, <1>6
    <2> QED BY <1>7, <2>1
<1>11. {NumberOf(file[k]) : k \in Mine(file)} = 1..m
    BY DEF Holds
<1>12. Ordered(new, p)
    <2> SUFFICES ASSUME NEW j \in Mine(new), NEW k \in Mine(new), j < k
                 PROVE  NumberOf(new[j]) < NumberOf(new[k])
        BY DEF Ordered
    <2>1. CASE j \in Mine(file) /\ new[j] = file[j] /\ k \in Mine(file) /\ new[k] = file[k]
        BY <2>1 DEF Holds, Ordered
    <2>2. ASSUME j \in Mine(file), new[j] = file[j],
                 NEW d \in 1..full, k = Len(file) + d, NumberOf(new[k]) = m + d
          PROVE  NumberOf(new[j]) < NumberOf(new[k])
        <3>1. NumberOf(file[j]) \in 1..m
            BY <1>11, <2>2
        <3> QED BY <1>1, <2>2, <3>1
    <2>3. ASSUME NEW d \in 1..full, j = Len(file) + d, NumberOf(new[j]) = m + d,
                 NEW e \in 1..full, k = Len(file) + e, NumberOf(new[k]) = m + e
          PROVE  NumberOf(new[j]) < NumberOf(new[k])
        BY <1>1, <2>3
    <2>4. ASSUME NEW d \in 1..full, j = Len(file) + d, k \in Mine(file)
          PROVE  FALSE
        BY <1>1, <2>4
    <2> QED BY <1>8, <2>1, <2>2, <2>3, <2>4
<1>13. {NumberOf(new[k]) : k \in Mine(new)} = 1..(m + full)
    <2>1. ASSUME NEW k \in Mine(new) PROVE NumberOf(new[k]) \in 1..(m + full)
        <3>1. CASE k \in Mine(file) /\ new[k] = file[k]
            <4>1. NumberOf(file[k]) \in 1..m
                BY <1>11, <3>1
            <4> QED BY <1>1, <3>1, <4>1
        <3>2. ASSUME NEW d \in 1..full, NumberOf(new[k]) = m + d
              PROVE  NumberOf(new[k]) \in 1..(m + full)
            BY <1>1, <3>2
        <3> QED BY <1>8, <3>1, <3>2
    <2>2. ASSUME NEW n \in 1..(m + full) PROVE \E k \in Mine(new) : NumberOf(new[k]) = n
        <3>1. CASE n <= m
            <4>1. n \in 1..m
                BY <1>1, <3>1
            <4>2. PICK k \in Mine(file) : NumberOf(file[k]) = n
                BY <1>11, <4>1
            <4> QED BY <1>9, <4>2
        <3>2. CASE n > m
            <4>1. n - m \in 1..full /\ m + (n - m) = n
                BY <1>1, <3>2
            <4> QED BY <1>7, <1>10, <4>1
        <3> QED BY <1>1, <3>1, <3>2
    <2> QED BY <2>1, <2>2
<1> QED BY <1>4, <1>5, <1>12, <1>13 DEF Holds, written, rest, new

\* Pieces of another process leave a process's own as they are.
LEMMA OthersPieces ==
    ASSUME NEW q \in Procs, NEW file \in Seq(Piece), NEW pieces \in Seq(Piece),
           \A k \in 1..Len(pieces) : pieces[k][1] # q,
           NEW m \in Nat, Holds(file, q, m)
    PROVE  Holds(file \o pieces, q, m)
<1> DEFINE new == file \o pieces
<1>1. Len(file) \in Nat /\ Len(pieces) \in Nat
    BY LenProperties
<1>2. /\ Len(new) = Len(file) + Len(pieces)
      /\ \A k \in 1..(Len(file) + Len(pieces)) :
            new[k] = IF k <= Len(file) THEN file[k] ELSE pieces[k - Len(file)]
    BY ConcatProperties
<1> HIDE DEF new
<1>3. ASSUME NEW k \in 1..Len(new), new[k][1] = q
      PROVE  k \in 1..Len(file)
    <2>1. CASE k > Len(file)
        <3>1. k - Len(file) \in 1..Len(pieces)
            BY <1>1, <1>2, <2>1
        <3>2. new[k] = pieces[k - Len(file)]
            BY <1>1, <1>2, <2>1
        <3> QED BY <1>3, <3>1, <3>2
    <2> QED BY <1>1, <2>1
<1>4. \A k \in 1..Len(file) : k \in 1..Len(new) /\ new[k] = file[k]
    BY <1>1, <1>2
<1>5. {k \in 1..Len(new) : new[k][1] = q} = {k \in 1..Len(file) : file[k][1] = q}
    BY <1>3, <1>4
<1>6. Ordered(new, q)
    BY <1>3, <1>4 DEF Holds, Ordered
<1>7. {NumberOf(new[k]) : k \in {j \in 1..Len(new) : new[j][1] = q}} = 1..m
    <2> DEFINE mine == {k \in 1..Len(file) : file[k][1] = q}
    <2>1. {NumberOf(file[k]) : k \in mine} = 1..m
        BY DEF Holds
    <2>2. \A k \in mine : new[k] = file[k]
        BY <1>4
    <2>3. {NumberOf(new[k]) : k \in mine} = {NumberOf(file[k]) : k \in mine}
        BY <2>2
    <2> QED BY <1>5, <2>1, <2>3
<1> QED BY <1>6, <1>7 DEF Holds, new

\* What a step of p can do to the files: nothing, create one, or add pieces of p.
Creates(p) ==
    /\ conf[p].fname \in Names /\ files[conf[p].fname] = Absent
    /\ files' = [files EXCEPT ![conf[p].fname] = <<>>]

Adds(p) ==
    /\ conf[p].fname \in Names /\ InitialFiles[conf[p].fname] = Absent
    /\ files[conf[p].fname] \in Seq(Piece)
    /\ \E pieces \in Seq(Piece) :
          AllOf(pieces, p) /\ files' = [files EXCEPT ![conf[p].fname] = @ \o pieces]
    /\ out'[p] # <<>> /\ conf'[p].fname = conf[p].fname

\* Once it has printed, a process goes on with the same file.
Continues(p) ==
    out[p] # <<>> => out'[p] # <<>> /\ conf'[p].fname = conf[p].fname

Effect(p) == (files' = files \/ Creates(p) \/ Adds(p)) /\ Continues(p)

LEMMA AllOfParts ==
    ASSUME NEW p, NEW all \in Seq(Piece), AllOf(all, p), NEW full \in 0..Len(all)
    PROVE  AllOf(SubSeq(all, 1, full), p) /\ AllOf(SubSeq(all, full + 1, Len(all)), p)
<1>1. Len(all) \in Nat /\ full \in Nat
    BY LenProperties
<1>2. \A k \in 1..Len(all) : all[k] \in Piece
    BY ElementOfSeq
<1>3. AllOf(SubSeq(all, 1, full), p)
    <2> DEFINE part == SubSeq(all, 1, full)
    <2>1. \A k \in 1..full : all[k] \in Piece
        BY <1>1, <1>2
    <2>2. /\ Len(part) = IF 1 <= full THEN full - 1 + 1 ELSE 0
          /\ \A k \in 1..(full - 1 + 1) : part[k] = all[1 + k - 1]
        BY <1>1, <2>1, SubSeqProperties
    <2> HIDE DEF part
    <2>3. ASSUME NEW k \in 1..Len(part) PROVE part[k][1] = p
        <3>1. k \in 1..(full - 1 + 1) /\ 1 + k - 1 = k /\ k \in 1..Len(all)
            BY <1>1, <2>2
        <3>2. part[k] = all[k]
            BY <2>2, <3>1
        <3> QED BY <3>1, <3>2 DEF AllOf
    <2> QED BY <2>3 DEF AllOf, part
<1>4. AllOf(SubSeq(all, full + 1, Len(all)), p)
    <2> DEFINE part == SubSeq(all, full + 1, Len(all))
    <2>1. full + 1 \in Int /\ Len(all) \in Int
          /\ \A k \in (full + 1)..Len(all) : all[k] \in Piece
        BY <1>1, <1>2
    <2>2. /\ Len(part) = IF full + 1 <= Len(all) THEN Len(all) - (full + 1) + 1 ELSE 0
          /\ \A k \in 1..(Len(all) - (full + 1) + 1) : part[k] = all[(full + 1) + k - 1]
        BY <2>1, SubSeqProperties
    <2> HIDE DEF part
    <2>3. ASSUME NEW k \in 1..Len(part) PROVE part[k][1] = p
        <3>1. k \in 1..(Len(all) - (full + 1) + 1) /\ (full + 1) + k - 1 \in 1..Len(all)
            BY <1>1, <2>2
        <3>2. part[k] = all[(full + 1) + k - 1]
            BY <2>2, <3>1
        <3> QED BY <3>1, <3>2 DEF AllOf
    <2> QED BY <2>3 DEF AllOf, part
<1> QED BY <1>3, <1>4

\* The buffer with a new line: pieces of p, in order if nothing was lost.
LEMMA LineFollows ==
    ASSUME ProcessesOK, NEW p \in Procs, buf[p] \in Seq(Piece), AllOf(buf[p], p)
    PROVE  LET all == buf[p] \o Pieces(p)
           IN  /\ all \in Seq(Piece) /\ Len(all) = Len(buf[p]) + 2
               /\ AllOf(all, p)
               /\ \A m \in Nat : m + Len(buf[p]) = 2 * Len(out[p]) /\ Follows(buf[p], p, m) =>
                                    Follows(all, p, m)
<1> DEFINE all == buf[p] \o Pieces(p)
           old == Len(buf[p])
<1>1. old \in Nat /\ Len(out[p]) \in Nat
    BY LenProperties DEF ProcessesOK
<1>2. Pieces(p) \in Seq(Piece) /\ Len(Pieces(p)) = 2
      /\ Follows(Pieces(p), p, 2 * Len(out[p]))
    BY PiecesAre, PiecesFollow
<1>3. /\ all \in Seq(Piece) /\ Len(all) = old + 2
      /\ \A k \in 1..(old + 2) : all[k] = IF k <= old THEN buf[p][k] ELSE Pieces(p)[k - old]
    <2>1. /\ all \in Seq(Piece) /\ Len(all) = old + Len(Pieces(p))
          /\ \A k \in 1..(old + Len(Pieces(p))) :
                all[k] = IF k <= old THEN buf[p][k] ELSE Pieces(p)[k - old]
        BY <1>2, ConcatProperties
    <2> HIDE DEF all, old
    <2> QED BY <1>2, <2>1
<1>4. Pieces(p)[1][1] = p /\ Pieces(p)[2][1] = p
    BY DEF Pieces
<1> HIDE DEF all
<1>5. ASSUME NEW k \in 1..(old + 2), ~(k <= old)
      PROVE  all[k] = Pieces(p)[k - old] /\ k - old \in {1, 2}
    BY <1>1, <1>3, <1>5
<1>6. AllOf(all, p)
    <2>1. ASSUME NEW k \in 1..Len(all) PROVE all[k][1] = p
        <3>1. CASE k <= old
            <4>1. k \in 1..old /\ all[k] = buf[p][k]
                BY <1>1, <1>3, <3>1
            <4> QED BY <4>1 DEF AllOf
        <3>2. CASE ~(k <= old)
            BY <1>3, <1>4, <1>5, <3>2
        <3> QED BY <3>1, <3>2
    <2> QED BY <2>1 DEF AllOf
<1>7. ASSUME NEW m \in Nat, m + old = 2 * Len(out[p]), Follows(buf[p], p, m)
      PROVE  Follows(all, p, m)
    <2>1. ASSUME NEW k \in 1..Len(all) PROVE all[k] = PieceOf(p, m + k)
        <3>1. CASE k <= old
            <4>1. k \in 1..old /\ all[k] = buf[p][k]
                BY <1>1, <1>3, <3>1
            <4> QED BY <1>7, <4>1 DEF Follows
        <3>2. CASE ~(k <= old)
            <4>1. all[k] = Pieces(p)[k - old] /\ k - old \in 1..Len(Pieces(p))
                BY <1>2, <1>3, <1>5, <3>2
            <4>2. Pieces(p)[k - old] = PieceOf(p, 2 * Len(out[p]) + (k - old))
                BY <1>2, <4>1 DEF Follows
            <4>3. 2 * Len(out[p]) + (k - old) = m + k
                <5>1. k \in Int
                    OBVIOUS
                <5> HIDE DEF old
                <5> QED BY <1>1, <1>7, <5>1
            <4> QED BY <4>1, <4>2, <4>3
        <3> QED BY <3>1, <3>2
    <2> QED BY <2>1 DEF Follows
<1> QED BY <1>3, <1>6, <1>7 DEF all

\* Before a process has printed, its file holds no piece of it.
LEMMA NothingYet ==
    ASSUME OwnPieces, NEW p \in Procs, NEW f \in Names, InitialFiles[f] = Absent,
           files[f] \in Seq(Piece), out[p] = <<>>
    PROVE  Holds(files[f], p, 0)
<1>1. \A k \in 1..Len(files[f]) : files[f][k][1] # p
    BY DEF OwnPieces
<1>2. {k \in 1..Len(files[f]) : files[f][k][1] = p} = {}
    BY <1>1
<1>3. 1..0 = {}
    OBVIOUS
<1> QED BY <1>1, <1>2, <1>3 DEF Holds, Ordered

LEMMA QuietKeeps ==
    ASSUME NEW p \in Procs, KeptBy(p), files' = files, buf'[p] = buf[p],
           lossy'[p] = lossy[p], out'[p] = out[p],
           conf'[p].fname = conf[p].fname \/ out[p] = <<>>,
           status'[p] \in {"success", "bailed"} =>
              status[p] \in {"success", "bailed"} \/ out[p] = <<>>
    PROVE  KeptBy(p)' /\ Effect(p)
BY DEF KeptBy, Effect, Continues

\* A step that writes pieces of p, those that precede what stays in the buffer.
LEMMA WritingKeeps ==
    ASSUME NEW p \in Procs, NEW f \in Names, InitialFiles[f] = Absent,
           conf[p].fname = f, NoFile \notin Names,
           files \in [Names -> {Absent, Directory} \cup Seq(Piece)],
           files[f] \in Seq(Piece), lossy \in [Procs -> BOOLEAN],
           NEW all \in Seq(Piece), AllOf(all, p), NEW full \in 0..Len(all),
           WriteOut(p, SubSeq(all, 1, full)),
           buf'[p] = SubSeq(all, full + 1, Len(all)), conf' = conf,
           all # <<>> => out'[p] # <<>>,
           out[p] # <<>> => out'[p] # <<>>,
           ~lossy[p] => \E m \in Nat : /\ m + Len(all) = 2 * Len(out'[p])
                                       /\ Holds(files[f], p, m) /\ Follows(all, p, m),
           status'[p] \in {"success", "bailed"} => full = Len(all)
    PROVE  KeptBy(p)' /\ Effect(p)
<1> DEFINE first == SubSeq(all, 1, full)
           rest == SubSeq(all, full + 1, Len(all))
<1>1. Len(all) \in Nat /\ full \in Nat
    BY LenProperties
<1>2. first \in Seq(Piece) /\ AllOf(first, p) /\ AllOf(rest, p)
      /\ (all = <<>> => first = <<>> /\ rest = <<>>)
      /\ (full = Len(all) => rest = <<>>)
    <2>1. \A k \in 1..full : all[k] \in Piece
        BY <1>1, ElementOfSeq
    <2>2. first \in Seq(Piece)
        BY <1>1, <2>1, SubSeqProperties
    <2>3. full = Len(all) => rest = <<>>
        <3>1. Len(all) < Len(all) + 1
            BY <1>1
        <3>2. SubSeq(all, Len(all) + 1, Len(all)) = <<>>
            BY <1>1, <3>1, SubSeqEmpty
        <3> QED BY <3>2
    <2>4. all = <<>> => full = Len(all) /\ full = 0
        BY <1>1, EmptySeq
    <2>5. full = 0 => first = <<>>
        BY SubSeqEmpty
    <2> QED BY <2>2, <2>3, <2>4, <2>5, AllOfParts
<1> HIDE DEF first, rest
<1>3. WriteOut(p, first) /\ buf'[p] = rest
    BY DEF first, rest
<1>4. \/ files' = files /\ first = <<>> /\ lossy' = lossy
      \/ files' = [files EXCEPT ![f] = @ \o first] /\ lossy' = lossy
      \/ files' = files /\ lossy'[p] = TRUE
    BY <1>3 DEF WriteOut
<1>5. files'[f] \in Seq(Piece)
    <2>1. files[f] \o first \in Seq(Piece)
        BY <1>2, ConcatProperties
    <2> QED BY <1>4, <2>1
<1>6. Effect(p)
    <2>1. CASE files' = [files EXCEPT ![f] = @ \o first]
        <3>1. CASE all = <<>>
            <4>1. files[f] \o first = files[f]
                BY <1>2, <3>1, ConcatEmptySeq
            <4>2. files' = files
                BY <2>1, <4>1
            <4> QED BY <4>2 DEF Effect, Continues
        <3>2. CASE all # <<>>
            <4>1. Adds(p)
                BY <1>2, <2>1, <3>2 DEF Adds
            <4> QED BY <4>1 DEF Effect, Continues
        <3> QED BY <3>1, <3>2
    <2>2. CASE files' = files
        BY <2>2 DEF Effect, Continues
    <2> QED BY <1>4, <2>1, <2>2
<1>7. ASSUME ~lossy'[p]
      PROVE  \E m \in Nat : /\ m + Len(buf'[p]) = 2 * Len(out'[p])
                            /\ Holds(files'[f], p, m) /\ Follows(buf'[p], p, m)
    <2>1. ~lossy[p] /\ files'[f] = files[f] \o first
        <3>1. first = <<>> => files[f] \o first = files[f]
            BY ConcatEmptySeq
        <3> QED BY <1>4, <1>7, <3>1
    <2>2. PICK m \in Nat : /\ m + Len(all) = 2 * Len(out'[p])
                           /\ Holds(files[f], p, m) /\ Follows(all, p, m)
        BY <2>1
    <2>3. /\ Holds(files[f] \o first, p, m + full)
          /\ Follows(rest, p, m + full) /\ Len(rest) = Len(all) - full
        BY <2>2, WriteFollows DEF first, rest
    <2>4. m + full \in Nat /\ (m + full) + (Len(all) - full) = m + Len(all)
        BY <1>1
    <2> QED BY <1>3, <2>1, <2>2, <2>3, <2>4
<1>8. out'[p] = <<>> => buf'[p] = <<>>
    BY <1>2, <1>3
<1>9. status'[p] \in {"success", "bailed"} => buf'[p] = <<>>
    BY <1>2, <1>3
<1> QED BY <1>2, <1>3, <1>5, <1>6, <1>7, <1>8, <1>9 DEF KeptBy

LEMMA NothingPrinted ==
    ASSUME ProcessesOK, NEW p \in Procs, Progress(p), pc[p] \in Before
    PROVE  out[p] = <<>>
<1>1. out[p] \in Seq(LineSet) /\ Len(out[p]) = 0
    BY DEF ProcessesOK, Progress, Placed
<1> QED BY <1>1, EmptySeq

LEMMA OutputKeeps ==
    ASSUME KeepInv, NEW p \in Procs, Output(p)
    PROVE  KeptBy(p)' /\ Effect(p)
<1> DEFINE f == conf[p].fname
<1>1. ProcessesOK /\ FilesOK /\ KeptBy(p) /\ Progress(p) /\ FileIsOwn(p) /\ OwnPieces
    BY DEF KeepInv, StoreInv, UtilInv
<1>2. pc[p] = "print" /\ UNCHANGED <<conf, status>> /\ status[p] = "running"
    BY <1>1 DEF Output, Progress, Placed
<1>3. Append(out[p], Line(p)) # <<>> /\ Len(Append(out[p], Line(p))) = Len(out[p]) + 1
      /\ Len(out[p]) \in Nat
    <2>1. Line(p) \in LineSet /\ out[p] \in Seq(LineSet)
        BY <1>1 DEF ProcessesOK, Line, LineSet, Structures, Confs
    <2> QED BY <2>1, AppendProperties, LenProperties
<1>4. CASE f = NoFile
    <2>1. UNCHANGED <<buf, files, lossy>> /\ (out' = out \/ out'[p] = Append(out[p], Line(p)))
        BY <1>1, <1>4 DEF Output, ProcessesOK
    <2>2. out[p] # <<>> => out'[p] # <<>>
        BY <1>3, <2>1
    <2>3. Effect(p)
        BY <1>2, <2>1, <2>2 DEF Effect, Continues
    <2>4. KeptBy(p)'
        BY <1>1, <1>2, <1>4, <2>1 DEF KeptBy
    <2> QED BY <2>3, <2>4
<1>5. CASE f # NoFile
    <2> DEFINE all == buf[p] \o Pieces(p)
               full == (Len(all) \div BufSize) * BufSize
    <2>1. /\ WriteOut(p, SubSeq(all, 1, full))
          /\ buf'[p] = SubSeq(all, full + 1, Len(all))
          /\ out'[p] = Append(out[p], Line(p))
        BY <1>1, <1>5 DEF Output, ProcessesOK, FilesOK
    <2>2. f \in Names /\ InitialFiles[f] = Absent /\ files[f] \in Seq(Piece)
        BY <1>1, <1>2, <1>5 DEF FileIsOwn, Loop, ProcessesOK, Confs
    <2>3. /\ all \in Seq(Piece) /\ Len(all) = Len(buf[p]) + 2 /\ AllOf(all, p)
          /\ \A m \in Nat : m + Len(buf[p]) = 2 * Len(out[p]) /\ Follows(buf[p], p, m) =>
                               Follows(all, p, m)
        BY <1>1, LineFollows DEF FilesOK, KeptBy
    <2>4. full \in 0..Len(all)
        BY <2>3, LenProperties, Blocks
    <2>5. ~lossy[p] => \E m \in Nat : /\ m + Len(buf[p]) = 2 * Len(out[p])
                                      /\ Holds(files[f], p, m) /\ Follows(buf[p], p, m)
        <3>1. CASE out[p] = <<>>
            <4>1. Holds(files[f], p, 0)
                BY <1>1, <2>2, <3>1, NothingYet
            <4>2. buf[p] = <<>> /\ Len(buf[p]) = 0 /\ Len(out[p]) = 0
                BY <1>1, <3>1, EmptySeq DEF KeptBy
            <4>3. 0 \in Nat /\ 0 + Len(buf[p]) = 2 * Len(out[p])
                BY <4>2
            <4>4. Follows(buf[p], p, 0)
                BY <4>2 DEF Follows
            <4> QED BY <4>1, <4>3, <4>4
        <3>2. CASE out[p] # <<>>
            BY <1>1, <1>5, <3>2 DEF KeptBy
        <3> QED BY <3>1, <3>2
    <2>6. Len(buf[p]) \in Nat
        BY <1>1, LenProperties DEF FilesOK
    <2> HIDE DEF all
    <2>7. ~lossy[p] => \E m \in Nat : /\ m + Len(all) = 2 * Len(out'[p])
                                      /\ Holds(files[f], p, m) /\ Follows(all, p, m)
        <3>1. ASSUME NEW m \in Nat, m + Len(buf[p]) = 2 * Len(out[p])
              PROVE  m + Len(all) = 2 * Len(out'[p])
            <4>1. Len(out'[p]) = Len(out[p]) + 1 /\ Len(all) = Len(buf[p]) + 2
                BY <1>3, <2>1, <2>3
            <4> QED BY <1>3, <2>6, <3>1, <4>1
        <3> QED BY <2>3, <2>5, <3>1
    <2>8. out'[p] # <<>> /\ ~(status'[p] \in {"success", "bailed"})
        BY <1>2, <1>3, <2>1
    <2>9. NoFile \notin Names /\ lossy \in [Procs -> BOOLEAN] /\ conf' = conf
          /\ files \in [Names -> {Absent, Directory} \cup Seq(Piece)]
        BY <1>1, <1>2, UtilAssumption DEF ProcessesOK, FilesOK
    <2> HIDE DEF full, f
    <2>10. conf[p].fname = f
        BY DEF f
    <2> QED BY <2>1, <2>2, <2>3, <2>4, <2>7, <2>8, <2>9, <2>10, WritingKeeps
<1> QED BY <1>4, <1>5

LEMMA CloseKeeps ==
    ASSUME KeepInv, NEW p \in Procs, CloseFile(p)
    PROVE  KeptBy(p)' /\ Effect(p)
<1> DEFINE f == conf[p].fname
           all == buf[p]
<1>1. ProcessesOK /\ FilesOK /\ KeptBy(p) /\ Progress(p) /\ FileIsOwn(p) /\ OwnPieces
    BY DEF KeepInv, StoreInv, UtilInv
<1>2. pc[p] \in {"close", "bail"} /\ UNCHANGED <<conf, out>>
    BY DEF CloseFile
<1>3. CASE f = NoFile
    <2>1. UNCHANGED <<buf, files, lossy>> /\ buf[p] = <<>>
        BY <1>1, <1>3 DEF CloseFile, KeptBy
    <2> QED BY <1>1, <1>2, <1>3, <2>1 DEF KeptBy, Effect, Continues
<1>4. CASE f # NoFile
    <2>1. all \in Seq(Piece) /\ Len(all) \in Nat
        BY <1>1, LenProperties DEF FilesOK
    <2>2. WriteOut(p, SubSeq(all, 1, Len(all))) /\ buf'[p] = SubSeq(all, Len(all) + 1, Len(all))
        <3>1. SubSeq(all, 1, Len(all)) = all
            BY <2>1, SubSeqFull
        <3>2. SubSeq(all, Len(all) + 1, Len(all)) = <<>>
            <4>1. Len(all) < Len(all) + 1
                BY <2>1
            <4> QED BY <2>1, <4>1, SubSeqEmpty
        <3>3. WriteOut(p, all) /\ buf'[p] = <<>>
            BY <1>1, <1>4 DEF CloseFile, FilesOK
        <3> QED BY <3>1, <3>2, <3>3
    <2>3. f \in Names /\ InitialFiles[f] = Absent /\ files[f] \in Seq(Piece)
        BY <1>1, <1>2, <1>4 DEF FileIsOwn, ProcessesOK, Confs
    <2>4. all # <<>> => out'[p] # <<>>
        BY <1>1, <1>2 DEF KeptBy
    <2>5. ~lossy[p] => \E m \in Nat : /\ m + Len(all) = 2 * Len(out'[p])
                                      /\ Holds(files[f], p, m) /\ Follows(all, p, m)
        <3>1. CASE out[p] = <<>>
            <4>1. Holds(files[f], p, 0)
                BY <1>1, <2>3, <3>1, NothingYet
            <4>2. all = <<>> /\ Len(all) = 0 /\ Len(out'[p]) = 0
                BY <1>1, <1>2, <3>1, EmptySeq DEF KeptBy
            <4>3. 0 \in Nat /\ 0 + Len(all) = 2 * Len(out'[p])
                BY <4>2
            <4>4. Follows(all, p, 0)
                BY <4>2 DEF Follows
            <4> QED BY <4>1, <4>3, <4>4
        <3>2. CASE out[p] # <<>>
            BY <1>1, <1>2, <1>4, <3>2 DEF KeptBy
        <3> QED BY <3>1, <3>2
    <2>6. NoFile \notin Names /\ lossy \in [Procs -> BOOLEAN] /\ conf' = conf
          /\ files \in [Names -> {Absent, Directory} \cup Seq(Piece)]
          /\ AllOf(all, p) /\ (out[p] # <<>> => out'[p] # <<>>)
        BY <1>1, <1>2, UtilAssumption DEF ProcessesOK, FilesOK, KeptBy
    <2>7. conf[p].fname = f /\ Len(all) \in 0..Len(all)
        BY <2>1
    <2> DEFINE full == Len(all)
    <2>8. full = Len(all)
        OBVIOUS
    <2> HIDE DEF f, full
    <2>9. /\ WriteOut(p, SubSeq(all, 1, full)) /\ full \in 0..Len(all)
          /\ buf'[p] = SubSeq(all, full + 1, Len(all))
        BY <2>2, <2>7, <2>8
    <2> HIDE DEF all
    <2> QED BY <2>1, <2>3, <2>4, <2>5, <2>6, <2>7, <2>8, <2>9, WritingKeeps
<1> QED BY <1>3, <1>4

LEMMA KeepStep ==
    ASSUME KeepInv, NEW p \in Procs, Step(p) \/ Interrupt(p)
    PROVE  KeptBy(p)' /\ Effect(p)
<1>1. ProcessesOK /\ FilesOK /\ KeptBy(p) /\ Progress(p) /\ FileIsOwn(p)
    BY DEF KeepInv, StoreInv, UtilInv
<1>2. CASE ReadOption(p)
    <2>1. out[p] = <<>>
        BY <1>1, <1>2, NothingPrinted DEF ReadOption, Before
    <2> QED BY <1>1, <1>2, <2>1, QuietKeeps DEF ReadOption
<1>3. CASE QuitOption(p) \/ CheckOperand(p)
    <2>1. pc[p] \in {"options", "operands"} /\ UNCHANGED <<conf, files, buf, lossy, out>>
        BY <1>3 DEF QuitOption, CheckOperand
    <2>2. out[p] = <<>>
        BY <1>1, <2>1, NothingPrinted DEF Before
    <2> QED BY <1>1, <2>1, <2>2, QuietKeeps
<1>4. CASE CheckName(p) \/ CannotOpen(p)
    <2>1. pc[p] \in {"open", "fopen"} /\ UNCHANGED <<conf, files, buf, lossy, out>>
        BY <1>4 DEF CheckName, CannotOpen
    <2>2. out[p] = <<>>
        BY <1>1, <2>1, NothingPrinted DEF Before
    <2> QED BY <1>1, <2>1, <2>2, QuietKeeps
<1>5. CASE EndOptions(p) \/ CreateId(p) \/ BailOut(p) \/ TestFlag(p) \/ Rest(p) \/ EndLoop(p)
    <2>1. UNCHANGED <<conf, files, buf, lossy, out, status>>
        BY <1>5 DEF EndOptions, CreateId, BailOut, TestFlag, Rest, EndLoop
    <2> QED BY <1>1, <2>1, QuietKeeps
<1>6. CASE OpenFile(p)
    <2>1. pc[p] = "fopen" /\ UNCHANGED <<conf, buf, lossy, out, status>>
          /\ files' = [files EXCEPT ![conf[p].fname] = Opened(@)]
        BY <1>6 DEF OpenFile
    <2>2. out[p] = <<>> /\ conf[p].fname \in Names
        BY <1>1, <2>1, NothingPrinted DEF Before, FileIsOwn
    <2>3. files' = files \/ Creates(p)
        <3>1. CASE files[conf[p].fname] = Absent
            BY <2>1, <2>2, <3>1 DEF Creates, Opened
        <3>2. CASE files[conf[p].fname] # Absent
            <4>1. files' = files
                BY <1>1, <2>1, <3>2 DEF Opened, FilesOK
            <4> QED BY <4>1
        <3> QED BY <3>1, <3>2
    <2>4. KeptBy(p)'
        BY <1>1, <2>1, <2>2 DEF KeptBy
    <2> QED BY <2>1, <2>2, <2>3, <2>4 DEF Effect, Continues
<1>7. CASE Interrupt(p)
    <2>1. /\ UNCHANGED <<conf, files, buf, lossy, out>>
          /\ status' = status \/ status'[p] = "killed"
        BY <1>1, <1>7 DEF Interrupt, Exit, ProcessesOK
    <2> QED BY <1>1, <2>1, QuietKeeps
<1> QED BY <1>2, <1>3, <1>4, <1>5, <1>6, <1>7, OutputKeeps, CloseKeeps DEF Step

\* A step of one process leaves the others' buffers alone.
LEMMA BuffersStay ==
    ASSUME ProcessesOK, FilesOK, NEW p \in Procs, Step(p) \/ Interrupt(p),
           NEW q \in Procs, q # p
    PROVE  buf'[q] = buf[q] /\ lossy'[q] = lossy[q]
<1>1. CASE Output(p) \/ CloseFile(p)
    <2>1. /\ buf' = buf \/ \E b : buf' = [buf EXCEPT ![p] = b]
          /\ lossy' = lossy \/ lossy' = [lossy EXCEPT ![p] = TRUE]
        BY <1>1 DEF Output, CloseFile, WriteOut
    <2> QED BY <2>1 DEF ProcessesOK, FilesOK
<1>2. CASE UNCHANGED <<buf, lossy>>
    BY <1>2
<1> QED BY <1>1, <1>2
    DEF Step, ReadOption, QuitOption, EndOptions, CheckOperand, CheckName, OpenFile,
        CannotOpen, CreateId, BailOut, TestFlag, Rest, EndLoop, Interrupt

LEMMA OthersKeep ==
    ASSUME FilesOK, NEW p \in Procs, Effect(p), NEW q \in Procs, q # p, KeptBy(q),
           Own(q)' = Own(q), buf'[q] = buf[q], lossy'[q] = lossy[q],
           conf[q].fname \in Names \cup {NoFile}
    PROVE  KeptBy(q)'
<1> DEFINE f == conf[q].fname
<1>1. conf'[q] = conf[q] /\ out'[q] = out[q] /\ status'[q] = status[q]
    BY DEF Own
<1>2. CASE out[q] = <<>> \/ f = NoFile
    BY <1>1, <1>2 DEF KeptBy
<1>3. CASE out[q] # <<>> /\ f # NoFile
    <2>1. InitialFiles[f] = Absent /\ files[f] \in Seq(Piece) /\ f \in Names
        BY <1>3 DEF KeptBy
    <2>2. \/ files'[f] = files[f]
          \/ \E pieces \in Seq(Piece) : AllOf(pieces, p) /\ files'[f] = files[f] \o pieces
        <3>1. CASE files' = files
            BY <3>1
        <3>2. CASE Creates(p)
            BY <2>1, <3>2, UtilAssumption DEF Creates, FilesOK
        <3>3. CASE Adds(p)
            BY <2>1, <3>3 DEF Adds, FilesOK
        <3> QED BY <3>1, <3>2, <3>3 DEF Effect
    <2>3. CASE files'[f] = files[f]
        BY <1>1, <2>1, <2>3 DEF KeptBy
    <2>4. ASSUME NEW pieces \in Seq(Piece), AllOf(pieces, p), files'[f] = files[f] \o pieces
          PROVE  KeptBy(q)'
        <3>1. files'[f] \in Seq(Piece)
            BY <2>1, <2>4, ConcatProperties
        <3>2. \A k \in 1..Len(pieces) : pieces[k][1] # q
            BY <2>4 DEF AllOf
        <3>3. \A m \in Nat : Holds(files[f], q, m) => Holds(files'[f], q, m)
            BY <2>1, <2>4, <3>2, OthersPieces
        <3> QED BY <1>1, <1>3, <2>1, <3>1, <3>3 DEF KeptBy
    <2> QED BY <2>2, <2>3, <2>4
<1> QED BY <1>2, <1>3

LEMMA OwnPiecesStep ==
    ASSUME ProcessesOK, FilesOK, OwnPieces, NEW p \in Procs, Effect(p),
           \A q \in Procs \ {p} : Own(q)' = Own(q)
    PROVE  OwnPieces'
<1> SUFFICES ASSUME NEW f \in Names, InitialFiles[f] = Absent, files'[f] \in Seq(Piece),
                    NEW k \in 1..Len(files'[f])
             PROVE  \E q \in Procs : /\ files'[f][k][1] = q /\ conf'[q].fname = f
                                     /\ out'[q] # <<>>
    BY DEF OwnPieces
<1>1. ASSUME files[f] \in Seq(Piece), k \in 1..Len(files[f]), files'[f][k] = files[f][k]
      PROVE  \E q \in Procs : /\ files'[f][k][1] = q /\ conf'[q].fname = f
                              /\ out'[q] # <<>>
    <2>1. PICK q \in Procs : files[f][k][1] = q /\ conf[q].fname = f /\ out[q] # <<>>
        BY <1>1 DEF OwnPieces
    <2>2. conf'[q].fname = f /\ out'[q] # <<>>
        BY <2>1 DEF Effect, Continues, Own
    <2> QED BY <1>1, <2>1, <2>2
<1>2. CASE files'[f] = files[f]
    BY <1>1, <1>2
<1>3. CASE Creates(p) /\ files'[f] # files[f]
    <2>1. files'[f] = <<>>
        BY <1>3 DEF Creates, FilesOK
    <2> QED BY <2>1, EmptySeq
<1>4. CASE Adds(p) /\ files'[f] # files[f]
    <2>1. /\ conf[p].fname = f /\ files[f] \in Seq(Piece) /\ out'[p] # <<>>
          /\ \E pieces \in Seq(Piece) : AllOf(pieces, p) /\ files'[f] = files[f] \o pieces
        BY <1>4 DEF Adds, FilesOK
    <2>2. PICK pieces \in Seq(Piece) : AllOf(pieces, p) /\ files'[f] = files[f] \o pieces
        BY <2>1
    <2>3. /\ Len(files'[f]) = Len(files[f]) + Len(pieces)
          /\ Len(files[f]) \in Nat /\ Len(pieces) \in Nat
          /\ files'[f][k] = IF k <= Len(files[f]) THEN files[f][k]
                            ELSE pieces[k - Len(files[f])]
        BY <2>1, <2>2, ConcatProperties, LenProperties
    <2>4. CASE k <= Len(files[f])
        <3>1. k \in 1..Len(files[f])
            BY <2>3, <2>4
        <3> QED BY <1>1, <2>1, <2>3, <2>4, <3>1
    <2>5. CASE ~(k <= Len(files[f]))
        <3>1. k - Len(files[f]) \in 1..Len(pieces)
            BY <2>3, <2>5
        <3>2. files'[f][k][1] = p
            BY <2>2, <2>3, <2>5, <3>1 DEF AllOf
        <3>3. conf'[p].fname = f
            BY <2>1, <1>4 DEF Adds
        <3> QED BY <2>1, <3>2, <3>3
    <2> QED BY <2>4, <2>5
<1> QED BY <1>2, <1>3, <1>4 DEF Effect

LEMMA KeepInvariant == Spec => []KeepInv
<1>1. Init => OwnPieces /\ \A p \in Procs : KeptBy(p)
    <2> SUFFICES ASSUME Init PROVE OwnPieces /\ \A p \in Procs : KeptBy(p)
        OBVIOUS
    <2>1. OwnPieces
        BY UtilAssumption DEF Init, OwnPieces
    <2>2. ASSUME NEW p \in Procs PROVE KeptBy(p)
        <3>1. out[p] = <<>> /\ buf[p] = <<>> /\ status[p] = "running" /\ Len(<<>>) = 0
            BY EmptySeq DEF Init
        <3> QED BY <3>1 DEF KeptBy, AllOf
    <2> QED BY <2>1, <2>2
<1>2. KeepInv /\ StoreInv' /\ [Next]_vars => KeepInv'
    <2> SUFFICES ASSUME KeepInv, StoreInv', [Next]_vars
                 PROVE  OwnPieces' /\ \A q \in Procs : KeptBy(q)'
        BY DEF KeepInv
    <2>t. ProcessesOK /\ FilesOK /\ OwnPieces /\ \A q \in Procs : KeptBy(q)
        BY DEF KeepInv, StoreInv, UtilInv
    <2>1. ASSUME NEW p \in Procs, Step(p) \/ Interrupt(p)
          PROVE  OwnPieces' /\ \A q \in Procs : KeptBy(q)'
        <3>1. KeptBy(p)' /\ Effect(p)
            BY <2>1, KeepStep
        <3>2. \A q \in Procs \ {p} : Own(q)' = Own(q)
            BY <2>1, <2>t, OthersStay
        <3>3. OwnPieces'
            BY <2>t, <3>1, <3>2, OwnPiecesStep
        <3>4. ASSUME NEW q \in Procs, q # p PROVE KeptBy(q)'
            <4>1. buf'[q] = buf[q] /\ lossy'[q] = lossy[q]
                BY <2>1, <2>t, <3>4, BuffersStay
            <4>2. conf[q].fname \in Names \cup {NoFile}
                BY <2>t DEF ProcessesOK, Confs
            <4> QED BY <2>t, <3>1, <3>2, <3>4, <4>1, <4>2, OthersKeep
        <3> QED BY <3>1, <3>3, <3>4
    <2>2. CASE UNCHANGED vars
        BY <2>2, <2>t DEF vars, OwnPieces, KeptBy
    <2> QED BY <2>1, <2>2 DEF Next
<1>3. KeepInv => StoreInv
    BY DEF KeepInv
<1>4. Init /\ StoreInv => KeepInv
    BY <1>1 DEF KeepInv
<1> QED BY <1>2, <1>4, StoreInvariant, PTL DEF Spec

\* Whatever other processes write to its file, a process finds its pieces there in
\* order, and all of them once it has ended and no write failed.
THEOREM FilesKeepLines == Spec => []FileKeepsLines
<1>1. KeepInv => FileKeepsLines
    <2> SUFFICES ASSUME KeepInv, NEW p \in Procs,
                        conf[p].fname # NoFile, out[p] # <<>>, ~lossy[p]
                 PROVE  /\ Ordered(files[conf[p].fname], p)
                        /\ \E m \in 0..(2 * Len(out[p])) :
                              /\ {NumberOf(files[conf[p].fname][k]) :
                                     k \in {j \in 1..Len(files[conf[p].fname]) :
                                               files[conf[p].fname][j][1] = p}} = 1..m
                              /\ status[p] \in {"success", "bailed"} => m = 2 * Len(out[p])
        BY DEF FileKeepsLines, Ordered
    <2>1. PICK m \in Nat : /\ m + Len(buf[p]) = 2 * Len(out[p])
                           /\ Holds(files[conf[p].fname], p, m)
        BY DEF KeepInv, KeptBy
    <2>2. Len(buf[p]) \in Nat /\ Len(out[p]) \in Nat
        BY LenProperties DEF KeepInv, StoreInv, UtilInv, FilesOK, ProcessesOK
    <2>3. status[p] \in {"success", "bailed"} => Len(buf[p]) = 0
        BY EmptySeq DEF KeepInv, KeptBy
    <2>4. m \in 0..(2 * Len(out[p]))
          /\ (status[p] \in {"success", "bailed"} => m = 2 * Len(out[p]))
        BY <2>1, <2>2, <2>3
    <2> QED BY <2>1, <2>4 DEF Holds
<1> QED BY <1>1, KeepInvariant, PTL

------------------------------------------------------------------------------
\* Induction and recursion over numbers.

\* A set of numbers that has 0, and the next of each it has, has all of them.
LEMMA Induction ==
    ASSUME NEW S, 0 \in S, \A n \in Nat : n \in S => n + 1 \in S
    PROVE  Nat \subseteq S
<1> SUFFICES ASSUME Nat \ S # {} PROVE FALSE
    OBVIOUS
<1> DEFINE R == OpToRel(<, Nat)
<1>1. IsWellFoundedOn(R, Nat)
    BY NatLessThanWellFounded, Zenon
<1>2. \A x, y \in Nat : <<y, x>> \in R <=> y < x
    BY DEF OpToRel
<1> HIDE DEF R
<1>3. PICK x \in Nat \ S : \A y \in Nat \ S : ~(<<y, x>> \in R)
    BY <1>1, WFMin
<1>4. x # 0 /\ x - 1 \in Nat /\ x - 1 < x /\ (x - 1) + 1 = x
    OBVIOUS
<1>5. x - 1 \in S
    BY <1>2, <1>3, <1>4
<1> QED BY <1>4, <1>5

\* f begins with base and takes n steps of F.
Recurs(f, n, base, F) ==
    f[0] = base /\ \A k \in 1..n : f[k] = F[<<k, f[k - 1]>>]

Positive == Nat \ {0}

LEMMA RecursionExists ==
    ASSUME NEW S, NEW base \in S, NEW F \in [Positive \X S -> S]
    PROVE  \A n \in Nat : \E f \in [0..n -> S] : Recurs(f, n, base, F)
<1> DEFINE T == {n \in Nat : \E f \in [0..n -> S] : Recurs(f, n, base, F)}
<1>1. 0 \in T
    <2>1. [k \in 0..0 |-> base] \in [0..0 -> S] /\ Recurs([k \in 0..0 |-> base], 0, base, F)
        BY DEF Recurs
    <2> QED BY <2>1
<1>2. ASSUME NEW n \in Nat, n \in T PROVE n + 1 \in T
    <2>1. PICK f \in [0..n -> S] : Recurs(f, n, base, F)
        BY <1>2
    <2> DEFINE g == [k \in 0..(n + 1) |-> IF k <= n THEN f[k] ELSE F[<<n + 1, f[n]>>]]
    <2>2. f[n] \in S /\ n + 1 \in Positive
        BY DEF Positive
    <2>3. F[<<n + 1, f[n]>>] \in S
        BY <2>2
    <2>4. g \in [0..(n + 1) -> S]
        BY <2>3
    <2>5. g[0] = base
        BY <2>1 DEF Recurs
    <2>6. ASSUME NEW k \in 1..(n + 1) PROVE g[k] = F[<<k, g[k - 1]>>]
        <3>1. CASE k = n + 1
            <4>1. g[k] = F[<<n + 1, f[n]>>] /\ g[k - 1] = f[n]
                BY <3>1
            <4> QED BY <3>1, <4>1
        <3>2. CASE k # n + 1
            <4>1. k \in 1..n /\ k \in 0..(n + 1) /\ k - 1 \in 0..(n + 1) /\ k <= n /\ k - 1 <= n
                BY <3>2
            <4>2. g[k] = f[k] /\ g[k - 1] = f[k - 1]
                BY <4>1
            <4> QED BY <2>1, <4>1, <4>2 DEF Recurs
        <3> QED BY <3>1, <3>2
    <2> HIDE DEF g
    <2>7. Recurs(g, n + 1, base, F)
        BY <2>5, <2>6 DEF Recurs
    <2> QED BY <2>4, <2>7
<1> HIDE DEF T
<1>3. Nat \subseteq T
    BY <1>1, <1>2, Induction
<1> QED BY <1>3 DEF T

LEMMA RecursionUnique ==
    ASSUME NEW base, NEW F, NEW m \in Nat, NEW n \in Nat, NEW f, NEW g,
           Recurs(f, m, base, F), Recurs(g, n, base, F),
           NEW k \in Nat, k <= m, k <= n
    PROVE  f[k] = g[k]
<1> DEFINE T == {j \in Nat : j <= m /\ j <= n => f[j] = g[j]}
<1>1. 0 \in T
    BY DEF Recurs
<1>2. ASSUME NEW j \in Nat, j \in T PROVE j + 1 \in T
    <2> SUFFICES ASSUME j + 1 <= m, j + 1 <= n PROVE f[j + 1] = g[j + 1]
        OBVIOUS
    <2>1. f[j] = g[j] /\ j + 1 \in 1..m /\ j + 1 \in 1..n /\ (j + 1) - 1 = j
        BY <1>2
    <2>2. f[j + 1] = F[<<j + 1, f[j]>>] /\ g[j + 1] = F[<<j + 1, g[j]>>]
        BY <2>1 DEF Recurs
    <2> QED BY <2>1, <2>2
<1> HIDE DEF T
<1>3. Nat \subseteq T
    BY <1>1, <1>2, Induction
<1> QED BY <1>3 DEF T

\* A function that takes the steps of another has its values.
LEMMA SameSteps ==
    ASSUME NEW n \in Nat, NEW f, NEW g, g[0] = f[0],
           \A k \in 1..n : g[k - 1] = f[k - 1] => g[k] = f[k]
    PROVE  \A k \in 0..n : g[k] = f[k]
<1> DEFINE T == {j \in Nat : j <= n => f[j] = g[j]}
<1>1. 0 \in T
    OBVIOUS
<1>2. ASSUME NEW j \in Nat, j \in T PROVE j + 1 \in T
    <2> SUFFICES ASSUME j + 1 <= n PROVE f[j + 1] = g[j + 1]
        OBVIOUS
    <2>1. f[j] = g[j] /\ j + 1 \in 1..n /\ (j + 1) - 1 = j
        BY <1>2
    <2> QED BY <2>1
<1> HIDE DEF T
<1>3. Nat \subseteq T
    BY <1>1, <1>2, Induction
<1> QED BY <1>3 DEF T

\* The same in a form that hides the quantifiers.
Alike(g, f, n) ==
    n \in Nat /\ g[0] = f[0] /\ \A k \in 1..n : g[k - 1] = f[k - 1] => g[k] = f[k]

Agree(g, f, n) == \A k \in 0..n : g[k] = f[k]

LEMMA AlikeAgree ==
    ASSUME NEW g, NEW f, NEW n, Alike(g, f, n)
    PROVE  Agree(g, f, n)
BY SameSteps DEF Alike, Agree

------------------------------------------------------------------------------
\* Digits.

Bases == {10, 16}

\* Shifted, digit by digit.
ShiftOf(base) == [x \in Positive \X Nat |-> x[2] \div base]

LEMMA ShiftedRecurs ==
    ASSUME NEW base \in Bases, NEW v \in Nat, NEW n \in Nat
    PROVE  \E f \in [0..n -> Nat] : Recurs(f, n, v, ShiftOf(base)) /\ Shifted(base, v, n) = f[n]
<1> DEFINE Shape(h) == h = [k \in 0..n |-> IF k = 0 THEN v ELSE h[k - 1] \div base]
           g == CHOOSE h : Shape(h)
<1>1. ShiftOf(base) \in [Positive \X Nat -> Nat]
    BY DEF ShiftOf, Bases
<1>2. PICK f \in [0..n -> Nat] : Recurs(f, n, v, ShiftOf(base))
    BY <1>1, RecursionExists
<1>3. f[0] = v /\ \A k \in 1..n : f[k] = f[k - 1] \div base
    <2>1. ASSUME NEW k \in 1..n PROVE f[k] = f[k - 1] \div base
        <3>1. k \in Positive /\ f[k - 1] \in Nat
            BY DEF Positive
        <3>2. f[k] = ShiftOf(base)[<<k, f[k - 1]>>]
            BY <1>2 DEF Recurs
        <3> QED BY <3>1, <3>2 DEF ShiftOf
    <2> QED BY <1>2, <2>1 DEF Recurs
<1>4. Shape(f)
    <2>1. \A k \in 0..n : f[k] = IF k = 0 THEN v ELSE f[k - 1] \div base
        BY <1>3
    <2>2. f = [k \in 0..n |-> f[k]]
        OBVIOUS
    <2> QED BY <2>1, <2>2
<1>5. Shape(g)
    BY <1>4
<1>6. Shifted(base, v, n) = g[n]
    BY DEF Shifted
<1> HIDE DEF g
<1>7. g[0] = v /\ \A k \in 1..n : g[k] = g[k - 1] \div base
    <2>1. g = [k \in 0..n |-> IF k = 0 THEN v ELSE g[k - 1] \div base]
        BY <1>5
    <2>2. \A k \in 0..n : g[k] = IF k = 0 THEN v ELSE g[k - 1] \div base
        BY <2>1
    <2> QED BY <2>2
<1>8. g[n] = f[n]
    <2>1. g[0] = f[0]
        BY <1>3, <1>7
    <2>2. \A k \in 1..n : g[k - 1] = f[k - 1] => g[k] = f[k]
        BY <1>3, <1>7
    <2>3. \A k \in 0..n : g[k] = f[k]
        BY <2>1, <2>2, SameSteps
    <2> QED BY <2>3
<1> QED BY <1>2, <1>6, <1>8

LEMMA ShiftedSteps ==
    ASSUME NEW base \in Bases, NEW v \in Nat
    PROVE  /\ Shifted(base, v, 0) = v
           /\ \A n \in Nat : Shifted(base, v, n) \in Nat
           /\ \A n \in Nat : Shifted(base, v, n + 1) = Shifted(base, v, n) \div base
<1>1. Shifted(base, v, 0) = v
    <2>1. PICK f \in [0..0 -> Nat] :
             Recurs(f, 0, v, ShiftOf(base)) /\ Shifted(base, v, 0) = f[0]
        BY ShiftedRecurs
    <2> QED BY <2>1 DEF Recurs
<1>2. \A n \in Nat : Shifted(base, v, n) \in Nat
    <2>1. ASSUME NEW n \in Nat PROVE Shifted(base, v, n) \in Nat
        <3>1. PICK f \in [0..n -> Nat] : Shifted(base, v, n) = f[n]
            BY ShiftedRecurs
        <3> QED BY <3>1
    <2> QED BY <2>1
<1>3. ASSUME NEW n \in Nat PROVE Shifted(base, v, n + 1) = Shifted(base, v, n) \div base
    <2>1. PICK f \in [0..n -> Nat] :
             Recurs(f, n, v, ShiftOf(base)) /\ Shifted(base, v, n) = f[n]
        BY ShiftedRecurs
    <2>2. n + 1 \in Nat
        OBVIOUS
    <2>3. PICK g \in [0..(n + 1) -> Nat] :
             Recurs(g, n + 1, v, ShiftOf(base)) /\ Shifted(base, v, n + 1) = g[n + 1]
        BY <2>2, ShiftedRecurs
    <2>4. f[n] = g[n]
        BY <2>1, <2>2, <2>3, RecursionUnique
    <2>5. n + 1 \in 1..(n + 1) /\ (n + 1) - 1 = n /\ g[n] \in Nat /\ n + 1 \in Positive
        BY DEF Positive
    <2>6. g[n + 1] = ShiftOf(base)[<<n + 1, g[n]>>]
        BY <2>3, <2>5 DEF Recurs
    <2>7. g[n + 1] = g[n] \div base
        BY <2>5, <2>6 DEF ShiftOf
    <2> QED BY <2>1, <2>3, <2>4, <2>7
<1> QED BY <1>1, <1>2, <1>3

\* Each digit that is taken off makes a number smaller, until it is zero.
LEMMA ShiftedFalls ==
    ASSUME NEW base \in Bases, NEW v \in Nat
    PROVE  Shifted(base, v, v + 1) = 0
<1> DEFINE s(n) == Shifted(base, v, n)
           T == {n \in Nat : s(n) = 0 \/ s(n) + n <= v}
<1>1. s(0) = v /\ \A n \in Nat : s(n) \in Nat /\ s(n + 1) = s(n) \div base
    BY ShiftedSteps
<1> HIDE DEF s
<1>2. 0 \in T
    BY <1>1
<1>3. ASSUME NEW n \in Nat, n \in T PROVE n + 1 \in T
    <2>1. PICK x \in Nat : x = s(n)
        BY <1>1
    <2>2. x \div base = 0 \/ x \div base <= x - 1
        BY DEF Bases
    <2>3. s(n + 1) = x \div base /\ x \div base \in Nat
        BY <1>1, <2>1 DEF Bases
    <2> QED BY <1>3, <2>1, <2>2, <2>3
<1> HIDE DEF T
<1>4. Nat \subseteq T
    BY <1>2, <1>3, Induction
<1>5. v + 1 \in Nat /\ v + 1 \in T
    BY <1>4
<1>6. s(v + 1) = 0
    BY <1>1, <1>5 DEF T
<1> QED BY <1>6 DEF s

\* Zero stays zero.
LEMMA ShiftedZero ==
    ASSUME NEW base \in Bases, NEW v \in Nat, NEW n \in Nat, Shifted(base, v, n) = 0,
           NEW m \in Nat, n <= m
    PROVE  Shifted(base, v, m) = 0
<1> DEFINE T == {j \in Nat : j >= n => Shifted(base, v, j) = 0}
<1>1. 0 \in T
    <2>1. 0 >= n => n = 0
        OBVIOUS
    <2> QED BY <2>1
<1>2. ASSUME NEW j \in Nat, j \in T PROVE j + 1 \in T
    <2> SUFFICES ASSUME j + 1 >= n PROVE Shifted(base, v, j + 1) = 0
        OBVIOUS
    <2>1. CASE j >= n
        <3>1. Shifted(base, v, j) = 0
            BY <1>2, <2>1
        <3>2. Shifted(base, v, j + 1) = Shifted(base, v, j) \div base
            BY ShiftedSteps
        <3>3. 0 \div base = 0
            BY DEF Bases
        <3> QED BY <3>1, <3>2, <3>3
    <2>2. CASE ~(j >= n)
        <3>1. j + 1 = n
            BY <2>2
        <3> QED BY <3>1
    <2> QED BY <2>1, <2>2
<1> HIDE DEF T
<1>3. Nat \subseteq T
    BY <1>1, <1>2, Induction
<1> QED BY <1>3 DEF T

LEMMA PlacesAre ==
    ASSUME NEW base \in Bases, NEW v \in Nat, NEW n \in Nat
    PROVE  /\ Places(base, v, n) \in Seq(0..(base - 1))
           /\ Len(Places(base, v, n)) = n
           /\ \A k \in 1..n : Places(base, v, n)[k] = Shifted(base, v, n - k) % base
<1>1. ASSUME NEW k \in 1..n PROVE Shifted(base, v, n - k) % base \in 0..(base - 1)
    <2>1. n - k \in Nat
        OBVIOUS
    <2>2. Shifted(base, v, n - k) \in Nat
        BY <2>1, ShiftedSteps
    <2> QED BY <2>2 DEF Bases
<1>2. Places(base, v, n) \in [1..n -> 0..(base - 1)]
    BY <1>1 DEF Places
<1>3. Len(Places(base, v, n)) = n
    BY DEF Places
<1>4. Places(base, v, n) \in Seq(0..(base - 1))
    BY <1>2, SeqDef
<1> QED BY <1>3, <1>4 DEF Places

\* The number of digits is the least that makes zero.
LEMMA NumDigitsIs ==
    ASSUME NEW base \in Bases, NEW v \in Nat
    PROVE  LET n == NumDigits(base, v)
           IN  /\ n \in Nat \ {0} /\ Shifted(base, v, n) = 0
               /\ n > 1 => Shifted(base, v, n - 1) # 0
<1> DEFINE Zero(n) == n \in Positive /\ Shifted(base, v, n) = 0
           Good(n) == Shifted(base, v, n) = 0 /\ (n > 1 => Shifted(base, v, n - 1) # 0)
           T == {n \in Nat : \A m \in 1..n : ~Zero(m)}
<1>1. v + 1 \notin T
    <2>1. Zero(v + 1)
        BY ShiftedFalls DEF Positive
    <2>2. v + 1 \in 1..(v + 1)
        OBVIOUS
    <2> QED BY <2>1, <2>2
<1>2. 0 \in T
    OBVIOUS
<1>3. PICK n \in Nat : n \in T /\ n + 1 \notin T
    <2>1. CASE \A n \in Nat : n \in T => n + 1 \in T
        <3> HIDE DEF T
        <3>1. Nat \subseteq T
            BY <1>2, <2>1, Induction
        <3>2. v + 1 \in Nat
            OBVIOUS
        <3> QED BY <1>1, <3>1, <3>2
    <2> QED BY <2>1
<1>4. Zero(n + 1)
    <2>1. \A m \in 1..(n + 1) : m \in 1..n \/ m = n + 1
        OBVIOUS
    <2> QED BY <1>3, <2>1
<1>5. n + 1 > 1 => ~(Shifted(base, v, (n + 1) - 1) = 0)
    <2>1. n + 1 > 1 => n \in 1..n /\ n \in Positive /\ (n + 1) - 1 = n
        BY DEF Positive
    <2> QED BY <1>3, <2>1
<1>6. n + 1 \in 1..(v + 1)
    <2>1. CASE n > v
        <3>1. v + 1 \in 1..n /\ v + 1 \in Positive
            BY <2>1 DEF Positive
        <3> QED BY <1>3, <3>1, ShiftedFalls
    <2> QED BY <2>1
<1>7. Good(n + 1)
    BY <1>4, <1>5
<1>8. NumDigits(base, v) \in 1..(v + 1) /\ Good(NumDigits(base, v))
    BY <1>6, <1>7 DEF NumDigits
<1> QED BY <1>8

\* A number that fits w digits has no more of them, and w if the first is not zero.
LEMMA DigitsFit ==
    ASSUME NEW v \in Nat, NEW w \in Nat \ {0}, Shifted(16, v, w) = 0
    PROVE  /\ Padded(w, v) = Places(16, v, w)
           /\ NumDigits(16, v) <= w
           /\ Shifted(16, v, w - 1) # 0 => NumDigits(16, v) = w
<1> DEFINE n == NumDigits(16, v)
<1>1. 16 \in Bases
    BY DEF Bases
<1>2. n \in Nat \ {0} /\ Shifted(16, v, n) = 0 /\ (n > 1 => Shifted(16, v, n - 1) # 0)
    BY <1>1, NumDigitsIs
<1> HIDE DEF n
<1>3. n <= w
    <2> SUFFICES ASSUME n > w PROVE FALSE
        BY <1>2
    <2>1. n > 1 /\ n - 1 \in Nat /\ w <= n - 1
        BY <1>2
    <2>2. Shifted(16, v, n - 1) = 0
        BY <1>1, <2>1, ShiftedZero
    <2> QED BY <1>2, <2>1, <2>2
<1>4. Shifted(16, v, w - 1) # 0 => n = w
    <2> SUFFICES ASSUME n < w PROVE Shifted(16, v, w - 1) = 0
        BY <1>2, <1>3
    <2>1. w - 1 \in Nat /\ n <= w - 1 /\ n \in Nat
        BY <1>2
    <2> QED BY <1>1, <1>2, <2>1, ShiftedZero
<1>5. (IF n < w THEN w ELSE n) = w
    BY <1>2, <1>3
<1> QED BY <1>3, <1>4, <1>5 DEF n, Padded

Hex == 0..15

LEMMA ValueSteps ==
    ASSUME NEW ds \in Seq(Hex)
    PROVE  \E f \in [0..Len(ds) -> Nat] :
              /\ f[0] = 0 /\ ValueOf(ds) = f[Len(ds)]
              /\ \A k \in 1..Len(ds) : f[k] = 16 * f[k - 1] + ds[k]
<1> DEFINE Shape(h) == h = [k \in 0..Len(ds) |-> IF k = 0 THEN 0 ELSE 16 * h[k - 1] + ds[k]]
           g == CHOOSE h : Shape(h)
           D(k) == IF k \in 1..Len(ds) THEN ds[k] ELSE 0
           F == [x \in Positive \X Nat |-> 16 * x[2] + D(x[1])]
<1>1. Len(ds) \in Nat /\ \A k \in 1..Len(ds) : ds[k] \in Hex
    BY LenProperties, ElementOfSeq
<1>2. \A k : D(k) \in Nat
    BY <1>1 DEF Hex
<1>3. \A k \in 1..Len(ds) : D(k) = ds[k]
    OBVIOUS
<1> HIDE DEF D
<1>4. F \in [Positive \X Nat -> Nat]
    BY <1>2
<1>5. PICK f \in [0..Len(ds) -> Nat] : Recurs(f, Len(ds), 0, F)
    BY <1>1, <1>4, RecursionExists
<1>6. f[0] = 0 /\ \A k \in 1..Len(ds) : f[k] = 16 * f[k - 1] + ds[k]
    <2>1. ASSUME NEW k \in 1..Len(ds) PROVE f[k] = 16 * f[k - 1] + ds[k]
        <3>1. k \in Positive /\ f[k - 1] \in Nat
            BY <1>1 DEF Positive
        <3>2. f[k] = F[<<k, f[k - 1]>>]
            BY <1>5 DEF Recurs
        <3> QED BY <1>3, <3>1, <3>2
    <2> QED BY <1>5, <2>1 DEF Recurs
<1>7. Shape(f)
    <2>1. \A k \in 0..Len(ds) : f[k] = IF k = 0 THEN 0 ELSE 16 * f[k - 1] + ds[k]
        BY <1>1, <1>6
    <2>2. f = [k \in 0..Len(ds) |-> f[k]]
        OBVIOUS
    <2> QED BY <2>1, <2>2
<1>8. Shape(g)
    BY <1>7
<1>9. ValueOf(ds) = g[Len(ds)]
    BY DEF ValueOf
<1> HIDE DEF g
<1>10. g[0] = 0 /\ \A k \in 1..Len(ds) : g[k] = 16 * g[k - 1] + ds[k]
    <2>1. g = [k \in 0..Len(ds) |-> IF k = 0 THEN 0 ELSE 16 * g[k - 1] + ds[k]]
        BY <1>8
    <2>2. \A k \in 0..Len(ds) : g[k] = IF k = 0 THEN 0 ELSE 16 * g[k - 1] + ds[k]
        BY <2>1
    <2> QED BY <1>1, <2>2
<1>11. g[Len(ds)] = f[Len(ds)]
    <2>1. g[0] = f[0]
        BY <1>6, <1>10
    <2>2. \A k \in 1..Len(ds) : g[k - 1] = f[k - 1] => g[k] = f[k]
        BY <1>6, <1>10
    <2>3. \A k \in 0..Len(ds) : g[k] = f[k]
        BY <1>1, <2>1, <2>2, SameSteps
    <2> QED BY <1>1, <2>3
<1> QED BY <1>6, <1>9, <1>11

\* The digits of a number make that number.
LEMMA ValueOfPlaces ==
    ASSUME NEW v \in Nat, NEW n \in Nat, Shifted(16, v, n) = 0
    PROVE  ValueOf(Places(16, v, n)) = v
<1> DEFINE ds == Places(16, v, n)
           s(k) == Shifted(16, v, k)
<1>1. 16 \in Bases /\ 0..(16 - 1) = Hex
    BY DEF Bases, Hex
<1>2. ds \in Seq(Hex) /\ Len(ds) = n /\ \A k \in 1..n : ds[k] = s(n - k) % 16
    BY <1>1, PlacesAre
<1>3. s(0) = v /\ \A k \in Nat : s(k) \in Nat /\ s(k + 1) = s(k) \div 16
    BY <1>1, ShiftedSteps
<1>4. PICK f \in [0..n -> Nat] : /\ f[0] = 0 /\ ValueOf(ds) = f[n]
                                 /\ \A k \in 1..n : f[k] = 16 * f[k - 1] + ds[k]
    BY <1>2, ValueSteps
<1>5. s(n) = 0
    OBVIOUS
<1> HIDE DEF ds, s
<1> DEFINE T == {k \in Nat : k <= n => f[k] = s(n - k)}
<1>6. 0 \in T
    <2>1. n - 0 = n
        OBVIOUS
    <2> QED BY <1>4, <1>5, <2>1
<1>7. ASSUME NEW k \in Nat, k \in T PROVE k + 1 \in T
    <2> SUFFICES ASSUME k + 1 <= n PROVE f[k + 1] = s(n - (k + 1))
        OBVIOUS
    <2>1. k + 1 \in 1..n /\ (k + 1) - 1 = k /\ n - (k + 1) \in Nat
          /\ (n - (k + 1)) + 1 = n - k
        OBVIOUS
    <2>2. f[k] = s(n - k)
        BY <1>7
    <2>3. f[k + 1] = 16 * s(n - k) + (s(n - (k + 1)) % 16)
        BY <1>2, <1>4, <2>1, <2>2
    <2>4. PICK x \in Nat : x = s(n - (k + 1))
        BY <1>3, <2>1
    <2>5. s(n - k) = x \div 16
        BY <1>3, <2>1, <2>4
    <2>6. 16 * (x \div 16) + (x % 16) = x
        OBVIOUS
    <2> QED BY <2>3, <2>4, <2>5, <2>6
<1> HIDE DEF T
<1>8. Nat \subseteq T
    BY <1>6, <1>7, Induction
<1>9. n - n = 0 /\ n <= n
    OBVIOUS
<1>10. f[n] = s(0)
    BY <1>8, <1>9 DEF T
<1> QED BY <1>3, <1>4, <1>10 DEF ds

\* The digit on top of a number is the first that was read.
LEMMA ValueTop ==
    ASSUME NEW ds \in Seq(Hex), Len(ds) > 0
    PROVE  /\ ValueOf(ds) \in Nat
           /\ Shifted(16, ValueOf(ds), Len(ds) - 1) = ds[1]
<1>1. PICK n \in Nat : n = Len(ds) /\ n > 0
    BY LenProperties
<1>2. \A k \in 1..n : ds[k] \in Hex
    BY <1>1, ElementOfSeq
<1>3. PICK f \in [0..n -> Nat] : /\ f[0] = 0 /\ ValueOf(ds) = f[n]
                                 /\ \A k \in 1..n : f[k] = 16 * f[k - 1] + ds[k]
    BY <1>1, ValueSteps
<1> DEFINE s(k) == Shifted(16, f[n], k)
<1>4. f[n] \in Nat
    BY <1>1
<1>5. s(0) = f[n] /\ \A k \in Nat : s(k + 1) = s(k) \div 16
    <2>1. 16 \in Bases
        BY DEF Bases
    <2> QED BY <1>4, <2>1, ShiftedSteps
<1> HIDE DEF s
<1> DEFINE T == {k \in Nat : k <= n => s(k) = f[n - k]}
<1>6. 0 \in T
    <2>1. n - 0 = n
        OBVIOUS
    <2> QED BY <1>5, <2>1
<1>7. ASSUME NEW k \in Nat, k \in T PROVE k + 1 \in T
    <2> SUFFICES ASSUME k + 1 <= n PROVE s(k + 1) = f[n - (k + 1)]
        OBVIOUS
    <2>1. n - k \in 1..n /\ (n - k) - 1 = n - (k + 1) /\ n - (k + 1) \in 0..n
        OBVIOUS
    <2>2. s(k) = f[n - k]
        BY <1>7
    <2>3. f[n - k] = 16 * f[n - (k + 1)] + ds[n - k]
        BY <1>3, <2>1
    <2>4. PICK x \in Nat, d \in Hex : x = f[n - (k + 1)] /\ d = ds[n - k]
        BY <1>2, <2>1
    <2>5. (16 * x + d) \div 16 = x
        BY DEF Hex
    <2> QED BY <1>5, <2>2, <2>3, <2>4, <2>5
<1> HIDE DEF T
<1>8. Nat \subseteq T
    BY <1>6, <1>7, Induction
<1>9. n - 1 \in Nat /\ n - 1 <= n /\ n - (n - 1) = 1 /\ 1 \in 1..n /\ 1 - 1 = 0
    BY <1>1
<1>10. s(n - 1) = f[1]
    BY <1>8, <1>9 DEF T
<1>11. f[1] = 16 * 0 + ds[1]
    BY <1>3, <1>9
<1>12. ds[1] \in Hex
    BY <1>2, <1>9
<1>13. f[1] = ds[1]
    BY <1>11, <1>12 DEF Hex
<1> QED BY <1>1, <1>3, <1>4, <1>10, <1>13 DEF s

------------------------------------------------------------------------------
\* Offsets.

WidthAt == [x \in Positive \X Nat |-> x[2] + (IF x[1] \in FieldIndex THEN Widths[x[1]] ELSE 0)]

LEMMA WidthsAre ==
    /\ Len(Widths) \in Nat /\ Len(Widths) > 5
    /\ \A k \in FieldIndex : Widths[k] \in Nat \ {0}
BY WidthsAssumption, LenProperties, ElementOfSeq DEF FieldIndex

LEMMA OffsetRecurs ==
    ASSUME NEW n \in 0..Len(Widths)
    PROVE  \E f \in [0..n -> Nat] : Recurs(f, n, 0, WidthAt) /\ Offset(n) = f[n]
<1> DEFINE Shape(h) == h = [k \in 0..n |-> IF k = 0 THEN 0 ELSE h[k - 1] + Widths[k]]
           g == CHOOSE h : Shape(h)
<1>1. n \in Nat /\ \A k \in 1..n : k \in FieldIndex
    BY WidthsAre DEF FieldIndex
<1>2. WidthAt \in [Positive \X Nat -> Nat]
    BY WidthsAre DEF WidthAt
<1>3. PICK f \in [0..n -> Nat] : Recurs(f, n, 0, WidthAt)
    BY <1>1, <1>2, RecursionExists
<1>4. f[0] = 0 /\ \A k \in 1..n : f[k] = f[k - 1] + Widths[k]
    <2>1. ASSUME NEW k \in 1..n PROVE f[k] = f[k - 1] + Widths[k]
        <3>1. k \in Positive /\ f[k - 1] \in Nat /\ k \in FieldIndex
            BY <1>1 DEF Positive
        <3>2. f[k] = WidthAt[<<k, f[k - 1]>>]
            BY <1>3 DEF Recurs
        <3> QED BY <3>1, <3>2 DEF WidthAt
    <2> QED BY <1>3, <2>1 DEF Recurs
<1>5. Shape(f)
    <2>1. \A k \in 0..n : f[k] = IF k = 0 THEN 0 ELSE f[k - 1] + Widths[k]
        BY <1>1, <1>4
    <2>2. f = [k \in 0..n |-> f[k]]
        OBVIOUS
    <2> QED BY <2>1, <2>2
<1>6. Shape(g)
    BY <1>5
<1>7. Offset(n) = g[n]
    BY DEF Offset
<1> HIDE DEF g
<1>8. g[0] = 0 /\ \A k \in 1..n : g[k] = g[k - 1] + Widths[k]
    <2>1. g = [k \in 0..n |-> IF k = 0 THEN 0 ELSE g[k - 1] + Widths[k]]
        BY <1>6
    <2>2. \A k \in 0..n : g[k] = IF k = 0 THEN 0 ELSE g[k - 1] + Widths[k]
        BY <2>1
    <2> QED BY <1>1, <2>2
<1>9. g[n] = f[n]
    <2>1. g[0] = f[0]
        BY <1>4, <1>8
    <2>2. \A k \in 1..n : g[k - 1] = f[k - 1] => g[k] = f[k]
        BY <1>4, <1>8
    <2>3. \A k \in 0..n : g[k] = f[k]
        BY <1>1, <2>1, <2>2, SameSteps
    <2> QED BY <1>1, <2>3
<1> QED BY <1>3, <1>7, <1>9

LEMMA OffsetSteps ==
    /\ Offset(0) = 0
    /\ \A n \in 0..Len(Widths) : Offset(n) \in Nat
    /\ \A n \in FieldIndex : Offset(n) = Offset(n - 1) + Widths[n]
<1>1. Offset(0) = 0
    <2>1. 0 \in 0..Len(Widths)
        BY WidthsAre
    <2>2. PICK f \in [0..0 -> Nat] : Recurs(f, 0, 0, WidthAt) /\ Offset(0) = f[0]
        BY <2>1, OffsetRecurs
    <2> QED BY <2>2 DEF Recurs
<1>2. ASSUME NEW n \in 0..Len(Widths) PROVE Offset(n) \in Nat
    <2>1. PICK f \in [0..n -> Nat] : Offset(n) = f[n]
        BY OffsetRecurs
    <2>2. n \in 0..n
        BY WidthsAre
    <2> QED BY <2>1, <2>2
<1>3. ASSUME NEW n \in FieldIndex PROVE Offset(n) = Offset(n - 1) + Widths[n]
    <2>1. n \in 0..Len(Widths) /\ n - 1 \in 0..Len(Widths) /\ n \in Positive /\ n - 1 \in Nat
          /\ n \in 1..n /\ n \in Nat /\ n - 1 <= n /\ n - 1 <= n - 1
        BY WidthsAre DEF FieldIndex, Positive
    <2>2. PICK f \in [0..n -> Nat] : Recurs(f, n, 0, WidthAt) /\ Offset(n) = f[n]
        BY <2>1, OffsetRecurs
    <2>3. PICK g \in [0..(n - 1) -> Nat] :
             Recurs(g, n - 1, 0, WidthAt) /\ Offset(n - 1) = g[n - 1]
        BY <2>1, OffsetRecurs
    <2>4. f[n - 1] = g[n - 1]
        BY <2>1, <2>2, <2>3, RecursionUnique
    <2>5. f[n] = WidthAt[<<n, f[n - 1]>>] /\ f[n - 1] \in Nat
        <3>1. n - 1 \in 0..n
            BY <2>1
        <3>2. f[n - 1] \in Nat
            BY <2>2, <3>1
        <3>3. f[n] = WidthAt[<<n, f[n - 1]>>]
            BY <2>1, <2>2 DEF Recurs
        <3> QED BY <3>2, <3>3
    <2>6. f[n] = f[n - 1] + Widths[n]
        BY <1>3, <2>1, <2>5 DEF WidthAt
    <2> QED BY <2>2, <2>3, <2>4, <2>6
<1> QED BY <1>1, <1>2, <1>3

------------------------------------------------------------------------------
\* strip_special_chars.

\* What is kept after a character.
Kept(t, c) == IF c \in Marks THEN t ELSE Append(t, c)

LEMMA StripSteps ==
    ASSUME NEW S, NEW s \in Seq(S)
    PROVE  \E f \in [0..Len(s) -> Seq(S)] :
              /\ f[0] = <<>> /\ strip_special_chars(s) = f[Len(s)]
              /\ \A k \in 1..Len(s) : f[k] = Kept(f[k - 1], s[k])
<1> DEFINE n == Len(s)
           Shape(h) == h = [k \in 0..n |->
                              IF k = 0 THEN <<>>
                              ELSE IF s[k] \in Marks THEN h[k - 1] ELSE Append(h[k - 1], s[k])]
           g == CHOOSE h : Shape(h)
           F == [x \in Positive \X Seq(S) |-> IF x[1] \in 1..n THEN Kept(x[2], s[x[1]]) ELSE x[2]]
<1>1. n \in Nat /\ \A k \in 1..n : s[k] \in S
    BY LenProperties, ElementOfSeq
<1>2. \A t \in Seq(S), c \in S : Kept(t, c) \in Seq(S)
    BY AppendProperties DEF Kept
<1> HIDE DEF n
<1>3. F \in [Positive \X Seq(S) -> Seq(S)]
    <2>1. ASSUME NEW x \in Positive \X Seq(S)
          PROVE  (IF x[1] \in 1..n THEN Kept(x[2], s[x[1]]) ELSE x[2]) \in Seq(S)
        <3>1. x[2] \in Seq(S)
            OBVIOUS
        <3> QED BY <1>1, <1>2, <3>1
    <2> QED BY <2>1
<1>4. <<>> \in Seq(S)
    BY EmptySeq
<1>5. PICK f \in [0..n -> Seq(S)] : Recurs(f, n, <<>>, F)
    BY <1>1, <1>3, <1>4, RecursionExists
<1>6. f[0] = <<>> /\ \A k \in 1..n : f[k] = Kept(f[k - 1], s[k])
    <2>1. ASSUME NEW k \in 1..n PROVE f[k] = Kept(f[k - 1], s[k])
        <3>1. k \in Positive /\ f[k - 1] \in Seq(S)
            BY <1>1 DEF Positive
        <3>2. f[k] = F[<<k, f[k - 1]>>]
            BY <1>5 DEF Recurs
        <3> QED BY <3>1, <3>2
    <2> QED BY <1>5, <2>1 DEF Recurs
<1>7. Shape(f)
    <2>1. ASSUME NEW k \in 0..n
          PROVE  f[k] = IF k = 0 THEN <<>>
                        ELSE IF s[k] \in Marks THEN f[k - 1] ELSE Append(f[k - 1], s[k])
        <3>1. CASE k = 0
            BY <1>6, <3>1
        <3>2. CASE k # 0
            <4>1. k \in 1..n
                BY <1>1, <3>2
            <4> QED BY <1>6, <3>2, <4>1 DEF Kept
        <3> QED BY <3>1, <3>2
    <2>2. f = [k \in 0..n |-> f[k]]
        OBVIOUS
    <2> QED BY <2>1, <2>2
<1>8. Shape(g)
    BY <1>7
<1>9. strip_special_chars(s) = g[n]
    BY DEF strip_special_chars, n
<1> HIDE DEF g
<1>10. g[0] = <<>> /\ \A k \in 1..n : g[k] = Kept(g[k - 1], s[k])
    <2>1. g = [k \in 0..n |-> IF k = 0 THEN <<>>
                              ELSE IF s[k] \in Marks THEN g[k - 1]
                              ELSE Append(g[k - 1], s[k])]
        BY <1>8
    <2>2. \A k \in 0..n : g[k] = IF k = 0 THEN <<>>
                                 ELSE IF s[k] \in Marks THEN g[k - 1]
                                 ELSE Append(g[k - 1], s[k])
        BY <2>1
    <2> QED BY <1>1, <2>2 DEF Kept
<1>11. g[n] = f[n]
    <2>1. g[0] = f[0]
        BY <1>6, <1>10
    <2>2. \A k \in 1..n : g[k - 1] = f[k - 1] => g[k] = f[k]
        BY <1>6, <1>10
    <2>3. \A k \in 0..n : g[k] = f[k]
        BY <1>1, <2>1, <2>2, SameSteps
    <2> QED BY <1>1, <2>3
<1> QED BY <1>6, <1>9, <1>11 DEF n

LEMMA StripTyped ==
    ASSUME NEW S, NEW s \in Seq(S)
    PROVE  strip_special_chars(s) \in Seq(S)
<1>1. PICK f \in [0..Len(s) -> Seq(S)] : strip_special_chars(s) = f[Len(s)]
    BY StripSteps
<1>2. Len(s) \in 0..Len(s)
    BY LenProperties
<1> QED BY <1>1, <1>2

LEMMA StripMark ==
    ASSUME NEW c \in Marks
    PROVE  strip_special_chars(<<c>>) = <<>>
<1>1. <<c>> \in Seq({c}) /\ Len(<<c>>) = 1 /\ <<c>>[1] = c
    OBVIOUS
<1>2. PICK f \in [0..1 -> Seq({c})] :
         /\ f[0] = <<>> /\ strip_special_chars(<<c>>) = f[1]
         /\ \A k \in 1..1 : f[k] = Kept(f[k - 1], <<c>>[k])
    BY <1>1, StripSteps
<1>3. f[1] = Kept(f[0], c)
    BY <1>1, <1>2
<1> QED BY <1>2, <1>3 DEF Kept

LEMMA StripNothing == strip_special_chars(<<>>) = <<>>
<1>1. <<>> \in Seq({}) /\ Len(<<>>) = 0
    BY EmptySeq
<1>2. PICK f \in [0..0 -> Seq({})] : f[0] = <<>> /\ strip_special_chars(<<>>) = f[0]
    BY <1>1, StripSteps
<1> QED BY <1>2

\* A text without marks stays as it is.
LEMMA StripClean ==
    ASSUME NEW S, NEW s \in Seq(S), S \cap Marks = {}
    PROVE  strip_special_chars(s) = s
<1>1. PICK n \in Nat : n = Len(s)
    BY LenProperties
<1>2. \A k \in 1..n : s[k] \in S
    BY <1>1, ElementOfSeq
<1>3. PICK f \in [0..n -> Seq(S)] :
         /\ f[0] = <<>> /\ strip_special_chars(s) = f[n]
         /\ \A k \in 1..n : f[k] = Kept(f[k - 1], s[k])
    BY <1>1, StripSteps
<1> DEFINE g == [k \in 0..n |-> SubSeq(s, 1, k)]
<1>4. g[0] = f[0]
    <2>1. SubSeq(s, 1, 0) = <<>>
        BY SubSeqEmpty
    <2>2. 0 \in 0..n
        OBVIOUS
    <2> QED BY <1>3, <2>1, <2>2
<1>5. ASSUME NEW k \in 1..n, g[k - 1] = f[k - 1] PROVE g[k] = f[k]
    <2>1. 1 \in 1..Len(s) /\ k \in 1..Len(s) /\ k - 1 \in 0..n /\ k \in 0..n
        BY <1>1
    <2>2. SubSeq(s, 1, k) = SubSeq(s, 1, k - 1) \o <<s[k]>>
        BY <2>1, SubSeqRecursiveSecond
    <2>3. f[k - 1] \in Seq(S) /\ s[k] \in S /\ s[k] \notin Marks
        BY <1>2, <2>1
    <2>4. f[k] = Append(f[k - 1], s[k])
        BY <1>3, <2>3 DEF Kept
    <2>5. f[k] = f[k - 1] \o <<s[k]>>
        BY <2>3, <2>4, AppendIsConcat
    <2> QED BY <1>5, <2>1, <2>2, <2>5
<1> HIDE DEF g
<1>6. \A k \in 0..n : g[k] = f[k]
    <2>1. \A k \in 1..n : g[k - 1] = f[k - 1] => g[k] = f[k]
        BY <1>5
    <2>2. Alike(g, f, n)
        BY <1>4, <2>1 DEF Alike
    <2>3. Agree(g, f, n)
        BY <2>2, AlikeAgree
    <2> QED BY <2>3 DEF Agree
<1>7. f[n] = g[n] /\ g[n] = SubSeq(s, 1, n)
    BY <1>6 DEF g
<1> QED BY <1>1, <1>3, <1>7, SubSeqFull

LEMMA ConcatAppend ==
    ASSUME NEW S, NEW a \in Seq(S), NEW b \in Seq(S), NEW c \in S
    PROVE  a \o Append(b, c) = Append(a \o b, c)
<1>1. <<c>> \in Seq(S)
    OBVIOUS
<1>2. Append(b, c) = b \o <<c>> /\ Append(a \o b, c) = (a \o b) \o <<c>>
    BY AppendIsConcat, ConcatProperties
<1> QED BY <1>1, <1>2, ConcatAssociative

LEMMA StripConcat ==
    ASSUME NEW S, NEW s \in Seq(S), NEW t \in Seq(S)
    PROVE  strip_special_chars(s \o t) = strip_special_chars(s) \o strip_special_chars(t)
<1>0. \A a \in Seq(S), b \in Seq(S), c \in S : a \o Append(b, c) = Append(a \o b, c)
    BY ConcatAppend
<1>1. PICK m \in Nat, n \in Nat : m = Len(s) /\ n = Len(t)
    BY LenProperties
<1>2. /\ s \o t \in Seq(S) /\ Len(s \o t) = m + n
      /\ \A k \in 1..(m + n) : (s \o t)[k] = IF k <= m THEN s[k] ELSE t[k - m]
    BY <1>1, ConcatProperties
<1>3. \A k \in 1..n : t[k] \in S
    BY <1>1, ElementOfSeq
<1>4. PICK f \in [0..m -> Seq(S)] :
         /\ f[0] = <<>> /\ strip_special_chars(s) = f[m]
         /\ \A k \in 1..m : f[k] = Kept(f[k - 1], s[k])
    BY <1>1, StripSteps
<1>5. PICK g \in [0..n -> Seq(S)] :
         /\ g[0] = <<>> /\ strip_special_chars(t) = g[n]
         /\ \A k \in 1..n : g[k] = Kept(g[k - 1], t[k])
    BY <1>1, StripSteps
<1>6. PICK h \in [0..(m + n) -> Seq(S)] :
         /\ h[0] = <<>> /\ strip_special_chars(s \o t) = h[m + n]
         /\ \A k \in 1..(m + n) : h[k] = Kept(h[k - 1], (s \o t)[k])
    <2>1. PICK st \in Seq(S) : st = s \o t
        BY <1>2
    <2>2. \E h \in [0..Len(st) -> Seq(S)] :
             /\ h[0] = <<>> /\ strip_special_chars(st) = h[Len(st)]
             /\ \A k \in 1..Len(st) : h[k] = Kept(h[k - 1], st[k])
        BY StripSteps
    <2>3. Len(st) = m + n
        BY <1>2, <2>1
    <2> QED BY <2>1, <2>2, <2>3
<1>7. h[m] = f[m]
    <2>1. ASSUME NEW k \in 1..m, h[k - 1] = f[k - 1] PROVE h[k] = f[k]
        <3>1. k \in 1..(m + n) /\ k <= m
            OBVIOUS
        <3>2. h[k] = Kept(h[k - 1], s[k])
            BY <1>2, <1>6, <3>1
        <3> QED BY <1>4, <2>1, <3>2
    <2>2. \A k \in 1..m : h[k - 1] = f[k - 1] => h[k] = f[k]
        BY <2>1
    <2>3. h[0] = f[0]
        BY <1>4, <1>6
    <2>4. \A k \in 0..m : h[k] = f[k]
        <3>1. Alike(h, f, m)
            BY <2>2, <2>3 DEF Alike
        <3>2. Agree(h, f, m)
            BY <3>1, AlikeAgree
        <3> QED BY <3>2 DEF Agree
    <2>5. m \in 0..m
        BY <1>1
    <2> QED BY <2>4, <2>5
<1> DEFINE H == [k \in 0..n |-> h[m + k]]
           G == [k \in 0..n |-> f[m] \o g[k]]
<1>8. G[0] = H[0]
    <2>0. m \in 0..m
        OBVIOUS
    <2>1. f[m] \o <<>> = f[m]
        <3>1. f[m] \in Seq(S)
            BY <2>0
        <3> QED BY <3>1, ConcatEmptySeq
    <2>2. m + 0 = m /\ 0 \in 0..n
        OBVIOUS
    <2>3. G[0] = f[m] \o g[0] /\ H[0] = h[m + 0]
        BY <2>2
    <2> HIDE DEF G, H
    <2> QED BY <1>5, <1>7, <2>1, <2>2, <2>3
<1>9. ASSUME NEW k \in 1..n, G[k - 1] = H[k - 1] PROVE G[k] = H[k]
    <2>1. m + k \in 1..(m + n) /\ ~(m + k <= m) /\ (m + k) - m = k /\ (m + k) - 1 = m + (k - 1)
          /\ k \in 0..n /\ k - 1 \in 0..n
        OBVIOUS
    <2>2. h[m + k] = Kept(h[m + (k - 1)], t[k])
        BY <1>2, <1>6, <2>1
    <2>3. /\ g[k] = Kept(g[k - 1], t[k]) /\ g[k - 1] \in Seq(S)
          /\ f[m] \in Seq(S) /\ t[k] \in S
        <3>1. m \in 0..m
            OBVIOUS
        <3>2. g[k] = Kept(g[k - 1], t[k])
            BY <1>5
        <3>3. g[k - 1] \in Seq(S)
            BY <2>1
        <3>4. f[m] \in Seq(S)
            BY <3>1
        <3> QED BY <1>3, <3>2, <3>3, <3>4
    <2>4. f[m] \o Append(g[k - 1], t[k]) = Append(f[m] \o g[k - 1], t[k])
        <3>1. PICK a \in Seq(S), b \in Seq(S), c \in S : a = f[m] /\ b = g[k - 1] /\ c = t[k]
            BY <2>3
        <3>2. a \o Append(b, c) = Append(a \o b, c)
            BY <1>0, <3>1
        <3> QED BY <3>1, <3>2
    <2>5. f[m] \o g[k] = Kept(f[m] \o g[k - 1], t[k])
        BY <2>3, <2>4 DEF Kept
    <2>6. f[m] \o g[k - 1] = h[m + (k - 1)]
        BY <1>9, <2>1
    <2> QED BY <2>1, <2>2, <2>5, <2>6
<1> HIDE DEF H, G
<1>10. \A k \in 0..n : G[k] = H[k]
    <2>1. \A k \in 1..n : G[k - 1] = H[k - 1] => G[k] = H[k]
        BY <1>9
    <2>2. Alike(G, H, n)
        BY <1>8, <2>1 DEF Alike
    <2>3. Agree(G, H, n)
        BY <2>2, AlikeAgree
    <2> QED BY <2>3 DEF Agree
<1>11. h[m + n] = f[m] \o g[n]
    <2>1. n \in 0..n
        OBVIOUS
    <2> QED BY <1>10, <2>1 DEF G, H
<1> QED BY <1>4, <1>5, <1>6, <1>11

------------------------------------------------------------------------------
\* Fields one after the other.

Texts(n, S) == [1..n -> Seq(S)]

\* How far the first k of the texts go.
Joined(parts, n, S, f) ==
    /\ f \in [0..n -> Seq(S)]
    /\ f[0] = <<>> /\ FlattenSeq(parts) = f[n]
    /\ \A k \in 1..n : f[k] = f[k - 1] \o parts[k]

LEMMA FlattenSteps ==
    ASSUME NEW S, NEW n \in Nat \ {0}, NEW parts \in Texts(n, S)
    PROVE  \E f : Joined(parts, n, S, f)
<1>0. parts \in [1..n -> Seq(S)]
    BY DEF Texts
<1> DEFINE Shape(h) == h = [k \in 1..n |-> IF k = 1 THEN parts[k] ELSE h[k - 1] \o parts[k]]
           g == CHOOSE h : Shape(h)
           F == [x \in Positive \X Seq(S) |-> IF x[1] \in 1..n THEN x[2] \o parts[x[1]] ELSE x[2]]
<1>1. F \in [Positive \X Seq(S) -> Seq(S)]
    <2>1. ASSUME NEW x \in Positive \X Seq(S)
          PROVE  (IF x[1] \in 1..n THEN x[2] \o parts[x[1]] ELSE x[2]) \in Seq(S)
        <3>1. x[2] \in Seq(S)
            OBVIOUS
        <3> QED BY <1>0, <3>1, ConcatProperties
    <2> QED BY <2>1
<1>2. <<>> \in Seq(S)
    BY EmptySeq
<1>3. PICK f \in [0..n -> Seq(S)] : Recurs(f, n, <<>>, F)
    BY <1>1, <1>2, RecursionExists
<1>4. f[0] = <<>> /\ \A k \in 1..n : f[k] = f[k - 1] \o parts[k]
    <2>1. ASSUME NEW k \in 1..n PROVE f[k] = f[k - 1] \o parts[k]
        <3>1. k \in Positive /\ f[k - 1] \in Seq(S)
            BY DEF Positive
        <3>2. f[k] = F[<<k, f[k - 1]>>]
            BY <1>3 DEF Recurs
        <3> QED BY <3>1, <3>2
    <2> QED BY <1>3, <2>1 DEF Recurs
<1>5. f[1] = parts[1]
    <2>0. 1 \in 1..n /\ 1 - 1 = 0
        OBVIOUS
    <2>1. f[1] = <<>> \o parts[1] /\ parts[1] \in Seq(S)
        BY <1>0, <1>4, <2>0
    <2> QED BY <2>1, ConcatEmptySeq
<1> DEFINE h == [k \in 1..n |-> f[k]]
<1>6. Shape(h)
    <2>1. ASSUME NEW k \in 1..n PROVE h[k] = IF k = 1 THEN parts[k] ELSE h[k - 1] \o parts[k]
        <3>1. CASE k = 1
            BY <1>5, <3>1
        <3>2. CASE k # 1
            <4>1. k - 1 \in 1..n
                BY <3>2
            <4> QED BY <1>4, <3>2, <4>1
        <3> QED BY <3>1, <3>2
    <2>2. h = [k \in 1..n |-> h[k]]
        OBVIOUS
    <2> HIDE DEF h
    <2> QED BY <2>1, <2>2
<1>7. Shape(g)
    BY <1>6
<1>8. FlattenSeq(parts) = g[n]
    <2>1. Len(parts) = n /\ n # 0
        BY <1>0
    <2> QED BY <2>1 DEF FlattenSeq
<1> HIDE DEF g
<1>9. \A k \in 1..n : g[k] = IF k = 1 THEN parts[k] ELSE g[k - 1] \o parts[k]
    <2>1. g = [k \in 1..n |-> IF k = 1 THEN parts[k] ELSE g[k - 1] \o parts[k]]
        BY <1>7
    <2> QED BY <2>1
<1> DEFINE G == [k \in 0..n |-> IF k = 0 THEN <<>> ELSE g[k]]
<1>10. G[0] = f[0]
    BY <1>4
<1>11. ASSUME NEW k \in 1..n, G[k - 1] = f[k - 1] PROVE G[k] = f[k]
    <2>1. G[k] = g[k]
        OBVIOUS
    <2>2. CASE k = 1
        BY <1>5, <1>9, <2>1, <2>2
    <2>3. CASE k # 1
        <3>1. k - 1 \in 1..n
            BY <2>3
        <3>2. G[k - 1] = g[k - 1]
            BY <3>1
        <3>3. g[k] = g[k - 1] \o parts[k]
            BY <1>9, <2>3
        <3>4. f[k] = f[k - 1] \o parts[k]
            BY <1>4
        <3>5. g[k - 1] = f[k - 1]
            BY <1>11, <3>2
        <3> QED BY <2>1, <3>3, <3>4, <3>5
    <2> QED BY <2>2, <2>3
<1> HIDE DEF G
<1>12. \A k \in 0..n : G[k] = f[k]
    <2>1. \A k \in 1..n : G[k - 1] = f[k - 1] => G[k] = f[k]
        BY <1>11
    <2>2. Alike(G, f, n)
        BY <1>10, <2>1 DEF Alike
    <2>3. Agree(G, f, n)
        BY <2>2, AlikeAgree
    <2> QED BY <2>3 DEF Agree
<1>13. f[n] = g[n]
    <2>1. n \in 0..n /\ n # 0
        OBVIOUS
    <2> QED BY <1>12, <2>1 DEF G
<1>14. Joined(parts, n, S, f)
    BY <1>4, <1>8, <1>13 DEF Joined
<1> QED BY <1>14

\* The fields of a text one after the other: how far the first k of them go.
FieldsJoined(parts, S, f) ==
    /\ f \in [0..Len(Widths) -> Seq(S)]
    /\ f[0] = <<>> /\ FlattenSeq(parts) = f[Len(Widths)]
    /\ Len(f[0]) = 0
    /\ \A k \in 0..Len(Widths) : Len(f[k]) \in Nat
    /\ \A k \in FieldIndex : /\ f[k] = f[k - 1] \o parts[k]
                             /\ Len(f[k]) = Len(f[k - 1]) + Len(parts[k])

LEMMA FieldSteps ==
    ASSUME NEW S, NEW parts \in Texts(Len(Widths), S)
    PROVE  \E f : FieldsJoined(parts, S, f)
<1>0. PICK f : Joined(parts, Len(Widths), S, f)
    <2>1. Len(Widths) \in Nat \ {0}
        BY WidthsAre
    <2> QED BY <2>1, FlattenSteps
<1>1. PICK n \in Nat \ {0} : n = Len(Widths)
    BY WidthsAre
<1>2. parts \in [1..n -> Seq(S)]
    BY <1>1 DEF Texts
<1>3. /\ f \in [0..n -> Seq(S)] /\ f[0] = <<>> /\ FlattenSeq(parts) = f[n]
      /\ \A k \in 1..n : f[k] = f[k - 1] \o parts[k]
    BY <1>0, <1>1 DEF Joined
<1>4. ASSUME NEW k \in 0..n PROVE Len(f[k]) \in Nat
    <2>1. f[k] \in Seq(S)
        BY <1>3
    <2> QED BY <2>1, LenProperties
<1>5. ASSUME NEW k \in 1..n PROVE Len(f[k]) = Len(f[k - 1]) + Len(parts[k])
    <2>1. k - 1 \in 0..n
        BY <1>1
    <2>2. f[k - 1] \in Seq(S) /\ parts[k] \in Seq(S)
        BY <1>2, <1>3, <2>1
    <2>3. Len(f[k - 1] \o parts[k]) = Len(f[k - 1]) + Len(parts[k])
        BY <2>2, ConcatProperties
    <2> QED BY <1>3, <2>3
<1>6. Len(f[0]) = 0
    BY <1>3
<1>7. FieldsJoined(parts, S, f)
    BY <1>1, <1>3, <1>4, <1>5, <1>6 DEF FieldsJoined, FieldIndex
<1> QED BY <1>7

\* Offset grows with its argument.
LEMMA OffsetGrows ==
    ASSUME NEW k \in 0..Len(Widths), NEW m \in k..Len(Widths)
    PROVE  Offset(k) <= Offset(m)
<1> DEFINE T == {j \in Nat : k <= j /\ j <= Len(Widths) => Offset(k) <= Offset(j)}
<1>1. PICK n \in Nat : n = Len(Widths)
    BY WidthsAre
<1>2. Offset(k) \in Nat
    BY OffsetSteps
<1>3. 0 \in T
    BY <1>2
<1>4. ASSUME NEW j \in Nat, j \in T PROVE j + 1 \in T
    <2> SUFFICES ASSUME k <= j + 1, j + 1 <= n PROVE Offset(k) <= Offset(j + 1)
        BY <1>1
    <2>1. CASE k = j + 1
        BY <1>2, <2>1
    <2>2. CASE k # j + 1
        <3>1. k <= j /\ j <= n /\ j \in 0..n /\ j + 1 \in 1..n /\ (j + 1) - 1 = j
            BY <2>2
        <3>2. Offset(k) <= Offset(j)
            BY <1>1, <1>4, <3>1
        <3>3. j + 1 \in FieldIndex
            BY <1>1, <3>1 DEF FieldIndex
        <3>4. Offset(j + 1) = Offset(j) + Widths[j + 1] /\ Offset(j) \in Nat
            BY <1>1, <3>1, <3>3, OffsetSteps
        <3>5. Widths[j + 1] \in Nat
            BY <3>3, WidthsAre
        <3> QED BY <1>2, <3>2, <3>4, <3>5
    <2> QED BY <2>1, <2>2
<1> HIDE DEF T
<1>5. Nat \subseteq T
    BY <1>3, <1>4, Induction
<1>6. m \in Nat /\ k <= m /\ m <= Len(Widths)
    BY <1>1
<1> QED BY <1>5, <1>6 DEF T

\* Fields that each have their width are found again where strtoquid looks.
LEMMA CutsBack ==
    ASSUME NEW S, NEW parts \in [FieldIndex -> Seq(S)],
           \A k \in FieldIndex : Len(parts[k]) = Widths[k]
    PROVE  /\ FlattenSeq(parts) \in Seq(S)
           /\ Len(FlattenSeq(parts)) = QUID_LEN
           /\ \A k \in FieldIndex :
                 SubSeq(FlattenSeq(parts), Offset(k - 1) + 1, Offset(k)) = parts[k]
<1>0. PICK f : FieldsJoined(parts, S, f)
    <2>1. parts \in Texts(Len(Widths), S)
        BY DEF Texts, FieldIndex
    <2> QED BY <2>1, FieldSteps
<1>1. PICK n \in Nat : n = Len(Widths) /\ n > 5
    BY WidthsAre
<1>2. /\ f \in [0..n -> Seq(S)]
      /\ FlattenSeq(parts) = f[n] /\ Len(f[0]) = 0
      /\ \A k \in 0..n : Len(f[k]) \in Nat
      /\ \A k \in FieldIndex : /\ f[k] = f[k - 1] \o parts[k]
                               /\ Len(f[k]) = Len(f[k - 1]) + Len(parts[k])
    BY <1>0, <1>1 DEF FieldsJoined
<1>3. FieldIndex = 1..n
    BY <1>1 DEF FieldIndex
<1> DEFINE O(k) == Offset(k)
<1>4. /\ O(0) = 0 /\ \A k \in 0..n : O(k) \in Nat
      /\ \A k \in 1..n : O(k) = O(k - 1) + Widths[k] /\ Widths[k] \in Nat \ {0}
    BY <1>1, <1>3, OffsetSteps, WidthsAre
<1>5. \A k \in 0..n : \A m \in k..n : O(k) <= O(m)
    BY <1>1, OffsetGrows
<1> HIDE DEF O
<1>6. \A k \in 0..n : Len(f[k]) = O(k)
    <2> DEFINE T == {j \in Nat : j <= n => Len(f[j]) = O(j)}
    <2>1. 0 \in T
        BY <1>2, <1>4
    <2>2. ASSUME NEW j \in Nat, j \in T PROVE j + 1 \in T
        <3> SUFFICES ASSUME j + 1 <= n PROVE Len(f[j + 1]) = O(j + 1)
            OBVIOUS
        <3>1. j + 1 \in 1..n /\ (j + 1) - 1 = j /\ Len(f[j]) = O(j)
            BY <2>2
        <3>2. Len(f[j + 1]) = Len(f[j]) + Len(parts[j + 1])
            BY <1>2, <1>3, <3>1
        <3>3. O(j + 1) = O(j) + Widths[j + 1]
            BY <1>4, <3>1
        <3> QED BY <1>3, <3>1, <3>2, <3>3
    <2> HIDE DEF T
    <2>3. Nat \subseteq T
        BY <2>1, <2>2, Induction
    <2> QED BY <2>3 DEF T
<1>7. \A k \in 0..n : \A e \in 1..O(k) : f[n][e] = f[k][e]
    <2> SUFFICES ASSUME NEW k \in 0..n, NEW e \in 1..O(k) PROVE f[n][e] = f[k][e]
        OBVIOUS
    <2> DEFINE T == {j \in Nat : k <= j /\ j <= n => f[j][e] = f[k][e]}
    <2>1. 0 \in T
        <3>1. k <= 0 => k = 0
            OBVIOUS
        <3> QED BY <3>1
    <2>2. ASSUME NEW j \in Nat, j \in T PROVE j + 1 \in T
        <3> SUFFICES ASSUME k <= j + 1, j + 1 <= n PROVE f[j + 1][e] = f[k][e]
            OBVIOUS
        <3>1. CASE k = j + 1
            BY <3>1
        <3>2. CASE k # j + 1
            <4>1. k <= j /\ j <= n /\ j \in 0..n /\ j \in k..n /\ j + 1 \in 1..n /\ (j + 1) - 1 = j
                BY <3>2
            <4>2. f[j][e] = f[k][e]
                BY <2>2, <4>1
            <4>3. f[j + 1] = f[j] \o parts[j + 1]
                BY <1>2, <1>3, <4>1
            <4>4. f[j] \in Seq(S) /\ parts[j + 1] \in Seq(S)
                BY <1>2, <1>3, <4>1
            <4>5. O(k) \in Nat /\ O(k) <= O(j) /\ Len(f[j]) = O(j) /\ O(j) \in Nat
                BY <1>4, <1>5, <1>6, <4>1
            <4>6. Len(parts[j + 1]) \in Nat
                BY <4>4, LenProperties
            <4>7. e \in 1..(Len(f[j]) + Len(parts[j + 1])) /\ e <= Len(f[j])
                BY <4>5, <4>6
            <4>8. (f[j] \o parts[j + 1])[e] = f[j][e]
                BY <4>4, <4>7, ConcatProperties
            <4> QED BY <4>2, <4>3, <4>8
        <3> QED BY <3>1, <3>2
    <2> HIDE DEF T
    <2>3. Nat \subseteq T
        BY <2>1, <2>2, Induction
    <2>4. n \in Nat /\ k <= n /\ n <= n
        OBVIOUS
    <2> QED BY <2>3, <2>4 DEF T
<1>8. n \in 0..n /\ f[n] \in Seq(S) /\ Len(f[n]) = O(n)
    <2>1. n \in 0..n
        OBVIOUS
    <2>2. f[n] \in Seq(S)
        BY <1>2, <2>1
    <2> QED BY <1>6, <2>1, <2>2
<1>9. ASSUME NEW k \in 1..n PROVE SubSeq(f[n], O(k - 1) + 1, O(k)) = parts[k]
    <2>1. k - 1 \in 0..n /\ k \in 0..n /\ k \in k..n /\ n \in k..n
        OBVIOUS
    <2>2. PICK a \in Nat, w \in Nat \ {0} : a = O(k - 1) /\ w = Widths[k] /\ O(k) = a + w
        BY <1>4, <2>1
    <2>3. PICK t \in Seq(S) : t = f[n]
        BY <1>8
    <2>4. PICK q \in Seq(S) : q = parts[k] /\ Len(q) = w
        BY <1>3, <2>2
    <2>5. Len(t) \in Nat /\ a + w <= Len(t)
        BY <1>4, <1>5, <1>8, <2>1, <2>2, <2>3
    <2>6. \A e \in (a + 1)..(a + w) : t[e] \in S
        <3>1. ASSUME NEW e \in (a + 1)..(a + w) PROVE t[e] \in S
            <4>1. e \in 1..Len(t)
                BY <2>5
            <4> QED BY <2>3, <4>1, ElementOfSeq
        <3> QED BY <3>1
    <2> DEFINE c == SubSeq(t, a + 1, a + w)
    <2>7. /\ c \in Seq(S) /\ Len(c) = w
          /\ \A e \in 1..w : c[e] = t[a + e]
        <3>1. a + 1 \in Int /\ a + w \in Int /\ a + 1 <= a + w /\ (a + w) - (a + 1) + 1 = w
            OBVIOUS
        <3>2. PICK b \in Int, d \in Int : b = a + 1 /\ d = a + w
            BY <3>1
        <3>3. /\ SubSeq(t, b, d) \in Seq(S)
              /\ Len(SubSeq(t, b, d)) = IF b <= d THEN d - b + 1 ELSE 0
              /\ \A e \in 1..(d - b + 1) : SubSeq(t, b, d)[e] = t[b + e - 1]
            BY <2>6, <3>2, SubSeqProperties
        <3>4. d - b + 1 = w /\ b <= d
            BY <3>2
        <3>5. ASSUME NEW e \in 1..w PROVE SubSeq(t, b, d)[e] = t[a + e]
            <4>1. b + e - 1 = a + e
                BY <3>2
            <4> QED BY <3>3, <3>4, <4>1
        <3> QED BY <3>2, <3>3, <3>4, <3>5
    <2> HIDE DEF c
    <2>8. \A e \in 1..w : c[e] = q[e]
        <3>1. ASSUME NEW e \in 1..w PROVE t[a + e] = q[e]
            <4>1. a + e \in 1..(a + w) /\ ~(a + e <= a) /\ (a + e) - a = e
                OBVIOUS
            <4>2. t[a + e] = f[k][a + e]
                BY <1>7, <2>1, <2>2, <2>3, <4>1
            <4>3. f[k] = f[k - 1] \o q /\ Len(f[k - 1]) = a
                BY <1>2, <1>3, <1>6, <2>1, <2>2, <2>4
            <4>4. PICK h \in Seq(S) : h = f[k - 1]
                BY <1>2, <2>1
            <4>5. a + e \in 1..(Len(h) + Len(q))
                BY <2>4, <4>3, <4>4
            <4>6. (h \o q)[a + e] = IF a + e <= Len(h) THEN h[a + e] ELSE q[(a + e) - Len(h)]
                BY <4>4, <4>5, <2>4, ConcatProperties
            <4> QED BY <4>1, <4>2, <4>3, <4>4, <4>6
        <3> QED BY <2>7, <3>1
    <2>9. c = q
        BY <2>4, <2>7, <2>8, SeqEqual
    <2> QED BY <2>2, <2>3, <2>4, <2>9 DEF c
<1> QED BY <1>1, <1>2, <1>3, <1>8, <1>9 DEF O, QUID_LEN

\* Fields of at most their widths that together have QUID_LEN digits have
\* exactly their widths: what is short cannot be made up for.
LEMMA NoneIsShort ==
    ASSUME NEW S, NEW parts \in [FieldIndex -> Seq(S)],
           \A k \in FieldIndex : Len(parts[k]) <= Widths[k],
           Len(FlattenSeq(parts)) = QUID_LEN
    PROVE  \A k \in FieldIndex : Len(parts[k]) = Widths[k]
<1>0. PICK f : FieldsJoined(parts, S, f)
    <2>1. parts \in Texts(Len(Widths), S)
        BY DEF Texts, FieldIndex
    <2> QED BY <2>1, FieldSteps
<1>1. PICK n \in Nat : n = Len(Widths) /\ n > 5
    BY WidthsAre
<1>2. /\ FlattenSeq(parts) = f[n] /\ Len(f[0]) = 0
      /\ \A k \in 0..n : Len(f[k]) \in Nat
      /\ \A k \in FieldIndex : Len(f[k]) = Len(f[k - 1]) + Len(parts[k])
    BY <1>0, <1>1 DEF FieldsJoined
<1>3. FieldIndex = 1..n
    BY <1>1 DEF FieldIndex
<1> DEFINE O(k) == Offset(k)
           L(k) == Len(f[k])
           P(k) == Len(parts[k])
<1>4. /\ O(0) = 0 /\ \A k \in 0..n : O(k) \in Nat
      /\ \A k \in 1..n : O(k) = O(k - 1) + Widths[k] /\ Widths[k] \in Nat \ {0}
    BY <1>1, <1>3, OffsetSteps, WidthsAre
<1>5. \A k \in 1..n : P(k) \in Nat /\ P(k) <= Widths[k]
    <2>1. ASSUME NEW k \in 1..n PROVE P(k) \in Nat
        <3>1. parts[k] \in Seq(S)
            BY <1>3
        <3> QED BY <3>1, LenProperties
    <2> QED BY <1>3, <2>1
<1>6. /\ L(0) = 0 /\ \A k \in 0..n : L(k) \in Nat
      /\ \A k \in 1..n : L(k) = L(k - 1) + P(k)
    BY <1>2, <1>3
<1>7. L(n) = O(n)
    BY <1>1, <1>2 DEF QUID_LEN
<1> HIDE DEF O, L, P
<1>8. ASSUME NEW k \in 1..n PROVE L(k) <= O(k) - (Widths[k] - P(k)) /\ L(k - 1) <= O(k - 1)
    <2> DEFINE T == {j \in Nat : j <= n => L(j) <= O(j)}
    <2>1. 0 \in T
        BY <1>4, <1>6
    <2>2. ASSUME NEW j \in Nat, j \in T PROVE j + 1 \in T
        <3> SUFFICES ASSUME j + 1 <= n PROVE L(j + 1) <= O(j + 1)
            OBVIOUS
        <3>1. j + 1 \in 1..n /\ (j + 1) - 1 = j /\ L(j) <= O(j) /\ j \in 0..n
            BY <2>2
        <3>2. O(j + 1) = O(j) + Widths[j + 1] /\ O(j) \in Nat /\ Widths[j + 1] \in Nat
            BY <1>4, <3>1
        <3>3. L(j + 1) = L(j) + P(j + 1) /\ L(j) \in Nat
            BY <1>6, <3>1
        <3>4. P(j + 1) \in Nat /\ P(j + 1) <= Widths[j + 1]
            BY <1>5, <3>1
        <3> QED BY <3>1, <3>2, <3>3, <3>4
    <2> HIDE DEF T
    <2>3. Nat \subseteq T
        BY <2>1, <2>2, Induction
    <2>4. k - 1 \in Nat /\ k - 1 \in 0..n /\ k - 1 <= n
        OBVIOUS
    <2>5. L(k - 1) <= O(k - 1)
        BY <2>3, <2>4 DEF T
    <2>6. O(k) = O(k - 1) + Widths[k] /\ O(k - 1) \in Nat /\ Widths[k] \in Nat
        BY <1>4, <2>4
    <2>7. L(k) = L(k - 1) + P(k) /\ L(k - 1) \in Nat
        BY <1>6, <2>4
    <2>8. P(k) \in Nat
        BY <1>5
    <2> QED BY <2>5, <2>6, <2>7, <2>8
<1>9. ASSUME NEW k \in 1..n, P(k) # Widths[k] PROVE FALSE
    <2> DEFINE T == {j \in Nat : k <= j /\ j <= n => L(j) < O(j)}
    <2>1. 0 \in T
        OBVIOUS
    <2>2. ASSUME NEW j \in Nat, j \in T PROVE j + 1 \in T
        <3> SUFFICES ASSUME k <= j + 1, j + 1 <= n PROVE L(j + 1) < O(j + 1)
            OBVIOUS
        <3>1. j + 1 \in 1..n /\ (j + 1) - 1 = j /\ j \in 0..n /\ j + 1 \in 0..n
            OBVIOUS
        <3>2. O(j + 1) = O(j) + Widths[j + 1] /\ O(j) \in Nat /\ Widths[j + 1] \in Nat
            BY <1>4, <3>1
        <3>3. L(j + 1) = L(j) + P(j + 1) /\ L(j) \in Nat
            BY <1>6, <3>1
        <3>4. P(j + 1) \in Nat /\ P(j + 1) <= Widths[j + 1]
            BY <1>5, <3>1
        <3>5. CASE k = j + 1
            <4>1. L(j) <= O(j)
                BY <1>8, <3>1
            <4>2. P(j + 1) < Widths[j + 1]
                BY <1>9, <3>2, <3>4, <3>5
            <4> QED BY <3>2, <3>3, <3>4, <4>1, <4>2
        <3>6. CASE k # j + 1
            <4>1. k <= j /\ j <= n
                BY <3>6
            <4>2. L(j) < O(j)
                BY <2>2, <4>1
            <4> QED BY <3>2, <3>3, <3>4, <4>2
        <3> QED BY <3>5, <3>6
    <2> HIDE DEF T
    <2>3. Nat \subseteq T
        BY <2>1, <2>2, Induction
    <2>4. n \in Nat /\ k <= n /\ n <= n /\ n \in 0..n
        OBVIOUS
    <2>5. L(n) < O(n)
        BY <2>3, <2>4 DEF T
    <2> QED BY <1>4, <1>7, <2>4, <2>5
<1>10. \A k \in 1..n : P(k) = Widths[k]
    BY <1>9
<1> QED BY <1>3, <1>10 DEF P

\* The marks between fields go, the fields stay.
LEMMA StripFlatten ==
    ASSUME NEW S, NEW n \in Nat \ {0}, NEW parts \in Texts(n, S), NEW clean \in Texts(n, S),
           \A k \in 1..n : strip_special_chars(parts[k]) = clean[k]
    PROVE  strip_special_chars(FlattenSeq(parts)) = FlattenSeq(clean)
<1>0. \A s, t \in Seq(S) :
         strip_special_chars(s \o t) = strip_special_chars(s) \o strip_special_chars(t)
    BY StripConcat
<1>1. PICK f : Joined(parts, n, S, f)
    BY FlattenSteps
<1>2. PICK g : Joined(clean, n, S, g)
    BY FlattenSteps
<1>3. /\ f \in [0..n -> Seq(S)] /\ f[0] = <<>> /\ FlattenSeq(parts) = f[n]
      /\ \A k \in 1..n : f[k] = f[k - 1] \o parts[k]
    BY <1>1 DEF Joined
<1>4. /\ g[0] = <<>> /\ FlattenSeq(clean) = g[n]
      /\ \A k \in 1..n : g[k] = g[k - 1] \o clean[k]
    BY <1>2 DEF Joined
<1> DEFINE T == {j \in Nat : j <= n => strip_special_chars(f[j]) = g[j]}
<1>5. 0 \in T
    BY <1>3, <1>4, StripNothing
<1>6. ASSUME NEW j \in Nat, j \in T PROVE j + 1 \in T
    <2> SUFFICES ASSUME j + 1 <= n PROVE strip_special_chars(f[j + 1]) = g[j + 1]
        OBVIOUS
    <2>1. j + 1 \in 1..n /\ (j + 1) - 1 = j /\ j \in 0..n /\ strip_special_chars(f[j]) = g[j]
        BY <1>6
    <2>2. f[j] \in Seq(S) /\ parts[j + 1] \in Seq(S)
        BY <1>3, <2>1 DEF Texts
    <2>3. f[j + 1] = f[j] \o parts[j + 1]
        BY <1>3, <2>1
    <2>4. g[j + 1] = g[j] \o clean[j + 1]
        BY <1>4, <2>1
    <2>5. strip_special_chars(f[j] \o parts[j + 1]) =
             strip_special_chars(f[j]) \o strip_special_chars(parts[j + 1])
        BY <1>0, <2>2
    <2> QED BY <2>1, <2>3, <2>4, <2>5
<1> HIDE DEF T
<1>7. Nat \subseteq T
    BY <1>5, <1>6, Induction
<1>8. strip_special_chars(f[n]) = g[n]
    BY <1>7 DEF T
<1> QED BY <1>3, <1>4, <1>8

LEMMA LengthIsNat == QUID_LEN \in Nat
BY OffsetSteps, WidthsAre DEF QUID_LEN

\* quid_parse puts nothing before a text of the right length.
LEMMA NothingBefore ==
    ASSUME NEW S, NEW t \in Seq(S), Len(t) = QUID_LEN
    PROVE  [j \in 1..(QUID_LEN - Len(t)) |-> 0] \o t = t
<1>1. QUID_LEN - Len(t) = 0
    BY LengthIsNat
<1>2. 1..0 = {}
    OBVIOUS
<1>3. [j \in 1..(QUID_LEN - Len(t)) |-> 0] = <<>>
    BY <1>1, <1>2
<1> QED BY <1>3, ConcatEmptySeq

\* What quid_create makes: every field fits its width.
Fit(u) ==
    /\ u \in [FieldIndex -> Nat]
    /\ \A k \in FieldIndex : Shifted(16, u[k], Widths[k]) = 0

PlacesOf(u) == [k \in FieldIndex |-> Places(16, u[k], Widths[k])]

LEMMA PlacesOfFields ==
    ASSUME NEW u, Fit(u)
    PROVE  /\ PlacesOf(u) \in [FieldIndex -> Seq(Hex)]
           /\ \A k \in FieldIndex : Len(PlacesOf(u)[k]) = Widths[k]
           /\ \A k \in FieldIndex : ValueOf(PlacesOf(u)[k]) = u[k]
<1>1. ASSUME NEW k \in FieldIndex
      PROVE  /\ Places(16, u[k], Widths[k]) \in Seq(Hex)
             /\ Len(Places(16, u[k], Widths[k])) = Widths[k]
             /\ ValueOf(Places(16, u[k], Widths[k])) = u[k]
    <2>1. PICK v \in Nat, w \in Nat : v = u[k] /\ w = Widths[k] /\ Shifted(16, v, w) = 0
        BY WidthsAre DEF Fit
    <2>2. 16 \in Bases /\ 0..(16 - 1) = Hex
        BY DEF Bases, Hex
    <2>3. Places(16, v, w) \in Seq(Hex) /\ Len(Places(16, v, w)) = w
        BY <2>1, <2>2, PlacesAre
    <2>4. ValueOf(Places(16, v, w)) = v
        BY <2>1, ValueOfPlaces
    <2> QED BY <2>1, <2>3, <2>4
<1> QED BY <1>1 DEF PlacesOf

LEMMA PlacesReadBack ==
    ASSUME NEW u, Fit(u)
    PROVE  LET t == FlattenSeq(PlacesOf(u))
           IN  t \in Seq(Hex) /\ Len(t) = QUID_LEN /\ strtoquid(t) = u
<1> DEFINE parts == PlacesOf(u)
           t == FlattenSeq(parts)
<1>1. /\ parts \in [FieldIndex -> Seq(Hex)]
      /\ \A k \in FieldIndex : Len(parts[k]) = Widths[k]
      /\ \A k \in FieldIndex : ValueOf(parts[k]) = u[k]
    BY PlacesOfFields
<1> HIDE DEF parts
<1>2. /\ t \in Seq(Hex) /\ Len(t) = QUID_LEN
      /\ \A k \in FieldIndex : SubSeq(t, Offset(k - 1) + 1, Offset(k)) = parts[k]
    BY <1>1, CutsBack
<1> HIDE DEF t
<1>3. strtoquid(t) = u
    <2>1. strtoquid(t) = [k \in FieldIndex |-> ValueOf(SubSeq(t, Offset(k - 1) + 1, Offset(k)))]
        BY DEF strtoquid
    <2>2. \A k \in FieldIndex : ValueOf(SubSeq(t, Offset(k - 1) + 1, Offset(k))) = u[k]
        BY <1>1, <1>2
    <2>3. u = [k \in FieldIndex |-> u[k]]
        BY DEF Fit
    <2> QED BY <2>1, <2>2, <2>3
<1> QED BY <1>2, <1>3 DEF t, parts

LEMMA NoMarks == Hex \cap Marks = {} /\ 0..9 \subseteq Hex
BY DEF Hex, Marks, Dash, Open, Close, Space

\* Without leading zeros a text has the right length only if it needs none.
LEMMA HexReadsBack ==
    ASSUME NEW u, Fit(u), Accepts(HexText(u))
    PROVE  quid_parse(HexText(u)) = u
<1> DEFINE parts == [k \in FieldIndex |-> Digits(16, u[k])]
           t == FlattenSeq(parts)
<1>1. ASSUME NEW k \in FieldIndex
      PROVE  /\ Digits(16, u[k]) \in Seq(Hex)
             /\ Len(Digits(16, u[k])) = NumDigits(16, u[k])
             /\ NumDigits(16, u[k]) <= Widths[k]
    <2>1. PICK v \in Nat, w \in Nat \ {0} : v = u[k] /\ w = Widths[k] /\ Shifted(16, v, w) = 0
        BY WidthsAre DEF Fit
    <2>2. 16 \in Bases /\ 0..(16 - 1) = Hex
        BY DEF Bases, Hex
    <2>3. PICK n \in Nat : n = NumDigits(16, v)
        BY <2>1, <2>2, NumDigitsIs
    <2>4. Places(16, v, n) \in Seq(Hex) /\ Len(Places(16, v, n)) = n
        <3>1. \A m \in Nat : Places(16, v, m) \in Seq(Hex) /\ Len(Places(16, v, m)) = m
            BY <2>2, PlacesAre
        <3> QED BY <3>1
    <2>5. NumDigits(16, v) <= w
        BY <2>1, DigitsFit
    <2> QED BY <2>1, <2>3, <2>4, <2>5 DEF Digits
<1>2. /\ parts \in [FieldIndex -> Seq(Hex)]
      /\ \A k \in FieldIndex : Len(parts[k]) = NumDigits(16, u[k]) /\ Len(parts[k]) <= Widths[k]
    BY <1>1
<1>3. HexText(u) = t
    BY DEF HexText
<1>4. t \in Seq(Hex)
    <2>1. parts \in Texts(Len(Widths), Hex)
        BY <1>2 DEF Texts, FieldIndex
    <2> HIDE DEF parts
    <2>2. PICK f : FieldsJoined(parts, Hex, f)
        BY <2>1, FieldSteps
    <2>3. Len(Widths) \in 0..Len(Widths)
        BY WidthsAre
    <2> QED BY <2>2, <2>3 DEF FieldsJoined
<1> HIDE DEF parts
<1>5. strip_special_chars(t) = t
    BY <1>4, NoMarks, StripClean
<1> HIDE DEF t
<1>6. Len(t) = QUID_LEN
    BY <1>3, <1>5 DEF Accepts
<1>7. \A k \in FieldIndex : Len(parts[k]) = Widths[k]
    BY <1>2, <1>6, NoneIsShort DEF t
<1>8. parts = PlacesOf(u)
    <2>1. ASSUME NEW k \in FieldIndex PROVE parts[k] = Places(16, u[k], Widths[k])
        <3>1. NumDigits(16, u[k]) = Widths[k]
            BY <1>2, <1>7
        <3> QED BY <3>1 DEF parts, Digits
    <2> QED BY <1>2, <2>1 DEF PlacesOf
<1>9. strtoquid(t) = u
    BY <1>8, PlacesReadBack DEF t
<1>10. [j \in 1..(QUID_LEN - Len(t)) |-> 0] \o t = t
    BY <1>4, <1>6, NothingBefore
<1> QED BY <1>3, <1>5, <1>9, <1>10 DEF quid_parse

\* The version bits of an accepted text are 10 or more; a decimal digit is less.
LEMMA DecRefused ==
    ASSUME NEW u \in [FieldIndex -> Nat]
    PROVE  ~Accepts(DecText(u))
<1> DEFINE parts == [k \in FieldIndex |-> Digits(10, u[k])]
           t == FlattenSeq(parts)
<1>1. ASSUME NEW k \in FieldIndex PROVE Digits(10, u[k]) \in Seq(0..9)
    <2>1. PICK v \in Nat : v = u[k]
        OBVIOUS
    <2>2. 10 \in Bases /\ 10 - 1 = 9
        BY DEF Bases
    <2>3. PICK n \in Nat : n = NumDigits(10, v)
        BY <2>1, <2>2, NumDigitsIs
    <2>4. Places(10, v, n) \in Seq(0..(10 - 1))
        BY <2>1, <2>2, <2>3, PlacesAre
    <2> QED BY <2>1, <2>2, <2>3, <2>4 DEF Digits
<1>2. parts \in Texts(Len(Widths), 0..9)
    BY <1>1 DEF Texts, FieldIndex
<1>3. DecText(u) = t
    BY DEF DecText
<1> HIDE DEF parts
<1>4. t \in Seq(0..9)
    <2>1. PICK f : FieldsJoined(parts, 0..9, f)
        BY <1>2, FieldSteps
    <2>2. Len(Widths) \in 0..Len(Widths)
        BY WidthsAre
    <2> QED BY <2>1, <2>2 DEF FieldsJoined
<1> HIDE DEF t
<1>5. strip_special_chars(t) = t
    <2>1. (0..9) \cap Marks = {}
        BY NoMarks
    <2> QED BY <1>4, <2>1, StripClean
<1> SUFFICES ASSUME Accepts(t) PROVE FALSE
    BY <1>3
<1>6. Len(t) = QUID_LEN /\ VersionBits(strtoquid(t)) \in {10, 11, 14, 15}
    BY <1>5 DEF Accepts, quid_validate
<1> DEFINE k == TimeHiAndVersion
           a == Offset(k - 1)
           b == Offset(k)
           c == SubSeq(t, a + 1, b)
<1>7. k \in FieldIndex /\ k - 1 \in 0..Len(Widths) /\ k \in 0..Len(Widths)
      /\ Len(Widths) \in k..Len(Widths)
    BY WidthsAre DEF FieldIndex, TimeHiAndVersion
<1>8. PICK w \in Nat \ {0} : w = Widths[k]
    BY <1>7, WidthsAre
<1>9. a \in Nat /\ b = a + w /\ b <= QUID_LEN
    BY <1>7, <1>8, OffsetSteps, OffsetGrows DEF QUID_LEN
<1>10. c \in Seq(0..9) /\ Len(c) = w
    <2>1. PICK x \in Int, y \in Int : x = a + 1 /\ y = b
        BY <1>9
    <2>2. \A e \in x..y : t[e] \in 0..9
        <3>1. ASSUME NEW e \in x..y PROVE t[e] \in 0..9
            <4>1. e \in 1..Len(t)
                BY <1>6, <1>9, <2>1, LengthIsNat
            <4> QED BY <1>4, <4>1, ElementOfSeq
        <3> QED BY <3>1
    <2>3. /\ SubSeq(t, x, y) \in Seq(0..9)
          /\ Len(SubSeq(t, x, y)) = IF x <= y THEN y - x + 1 ELSE 0
        BY <2>2, SubSeqProperties
    <2>4. x <= y /\ y - x + 1 = w
        BY <1>9, <2>1
    <2> QED BY <2>1, <2>3, <2>4
<1>11. VersionBits(strtoquid(t)) = Shifted(16, ValueOf(c), Len(c) - 1)
    <2>1. strtoquid(t)[k] = ValueOf(c)
        BY <1>7 DEF strtoquid
    <2> QED BY <1>8, <1>10, <2>1 DEF VersionBits
<1> HIDE DEF c
<1>12. c[1] \in 0..9 /\ c \in Seq(Hex) /\ Len(c) > 0
    <2>1. 1 \in 1..Len(c)
        BY <1>10
    <2>2. c[1] \in 0..9
        BY <1>10, <2>1, ElementOfSeq
    <2>3. c \in Seq(Hex)
        BY <1>10, NoMarks, SeqMonotonic
    <2> QED BY <1>10, <2>2, <2>3
<1>13. Shifted(16, ValueOf(c), Len(c) - 1) = c[1]
    BY <1>12, ValueTop
<1> QED BY <1>6, <1>11, <1>12, <1>13

\* In braces every field is padded, but the upper half of the clock sequence has
\* all its digits anyway, for its first is not zero.
LEMMA BracketStripped ==
    ASSUME NEW u, Fit(u), Shifted(16, u[ClockSeqHi], Widths[ClockSeqHi] - 1) # 0
    PROVE  strip_special_chars(BracketText(u)) = FlattenSeq(PlacesOf(u))
<1> DEFINE Digs(k) == IF k = ClockSeqHi THEN Digits(16, u[k]) ELSE Padded(Widths[k], u[k])
           Mark(k) == IF k \in {1, 2, 3, 5} THEN <<Dash>> ELSE <<>>
           C == Hex \cup Marks
           parts == [k \in FieldIndex |-> Digs(k) \o Mark(k)]
           clean == PlacesOf(u)
           t == FlattenSeq(parts)
<1>1. /\ clean \in [FieldIndex -> Seq(Hex)]
      /\ \A k \in FieldIndex : clean[k] = Places(16, u[k], Widths[k])
    BY PlacesOfFields DEF PlacesOf
<1>2. ASSUME NEW k \in FieldIndex PROVE Digs(k) = clean[k]
    <2>1. PICK v \in Nat, w \in Nat \ {0} : v = u[k] /\ w = Widths[k] /\ Shifted(16, v, w) = 0
        BY WidthsAre DEF Fit
    <2>2. Padded(w, v) = Places(16, v, w)
        BY <2>1, DigitsFit
    <2>3. ASSUME k = ClockSeqHi PROVE Digits(16, v) = Places(16, v, w)
        <3>1. Shifted(16, v, w - 1) # 0
            BY <2>1, <2>3
        <3>2. NumDigits(16, v) = w
            BY <2>1, <3>1, DigitsFit
        <3> QED BY <3>2 DEF Digits
    <2> QED BY <1>1, <2>1, <2>2, <2>3
<1> HIDE DEF Digs, clean
<1>3. \A k : Mark(k) \in Seq(C) /\ strip_special_chars(Mark(k)) = <<>>
    <2>1. Dash \in Marks /\ Dash \in C
        BY DEF Marks
    <2>2. strip_special_chars(<<Dash>>) = <<>> /\ strip_special_chars(<<>>) = <<>>
        BY <2>1, StripMark, StripNothing
    <2>3. <<Dash>> \in Seq(C) /\ <<>> \in Seq(C)
        BY <2>1, EmptySeq
    <2> QED BY <2>2, <2>3
<1> HIDE DEF Mark
<1>4. Seq(Hex) \subseteq Seq(C)
    BY SeqMonotonic
<1>5. \A x, y \in Seq(C) :
         /\ x \o y \in Seq(C)
         /\ strip_special_chars(x \o y) = strip_special_chars(x) \o strip_special_chars(y)
    BY StripConcat, ConcatProperties
<1> HIDE DEF C
<1>6. ASSUME NEW k \in FieldIndex
      PROVE  /\ Digs(k) \o Mark(k) \in Seq(C)
             /\ strip_special_chars(Digs(k) \o Mark(k)) = clean[k]
    <2>1. PICK x \in Seq(Hex) : x = clean[k]
        BY <1>1
    <2>2. x \in Seq(C) /\ Digs(k) = x
        BY <1>2, <1>4, <2>1
    <2>3. strip_special_chars(x) = x
        BY NoMarks, StripClean
    <2>4. x \o <<>> = x
        BY ConcatEmptySeq
    <2>5. PICK y \in Seq(C), m \in Seq(C) : y = x /\ m = Mark(k)
        BY <1>3, <2>2
    <2>6. y \o m \in Seq(C) /\
          strip_special_chars(y \o m) = strip_special_chars(y) \o strip_special_chars(m)
        BY <1>5
    <2>7. strip_special_chars(y) = x /\ strip_special_chars(m) = <<>>
        BY <1>3, <2>3, <2>5
    <2> QED BY <2>1, <2>2, <2>4, <2>5, <2>6, <2>7
<1>7. parts \in Texts(Len(Widths), C) /\ clean \in Texts(Len(Widths), C)
    <2>1. parts \in [FieldIndex -> Seq(C)]
        BY <1>6
    <2>2. clean \in [FieldIndex -> Seq(C)]
        BY <1>1, <1>4
    <2> QED BY <2>1, <2>2 DEF Texts, FieldIndex
<1>8. \A k \in 1..Len(Widths) : strip_special_chars(parts[k]) = clean[k]
    BY <1>6 DEF FieldIndex
<1>9. BracketText(u) = <<Open>> \o t \o <<Close>>
    BY DEF BracketText, Digs, Mark
<1> HIDE DEF parts
<1>10. strip_special_chars(t) = FlattenSeq(clean)
    <2>1. Len(Widths) \in Nat \ {0}
        BY WidthsAre
    <2> QED BY <1>7, <1>8, <2>1, StripFlatten
<1>11. t \in Seq(C)
    <2>1. PICK f : FieldsJoined(parts, C, f)
        BY <1>7, FieldSteps
    <2>2. Len(Widths) \in 0..Len(Widths)
        BY WidthsAre
    <2> QED BY <2>1, <2>2 DEF FieldsJoined
<1> HIDE DEF t
<1>12. /\ <<Open>> \in Seq(C) /\ strip_special_chars(<<Open>>) = <<>>
       /\ <<Close>> \in Seq(C) /\ strip_special_chars(<<Close>>) = <<>>
    <2>1. Open \in Marks /\ Close \in Marks
        BY DEF Marks
    <2>2. Open \in C /\ Close \in C
        BY <2>1 DEF C
    <2> QED BY <2>1, <2>2, StripMark
<1>13. FlattenSeq(clean) \in Seq(Hex)
    BY PlacesReadBack DEF clean
<1>14. strip_special_chars(BracketText(u)) = (<<>> \o FlattenSeq(clean)) \o <<>>
    <2>1. PICK x \in Seq(C), y \in Seq(C), z \in Seq(C) : x = <<Open>> /\ y = t /\ z = <<Close>>
        BY <1>11, <1>12
    <2>2. /\ strip_special_chars(x) = <<>> /\ strip_special_chars(z) = <<>>
          /\ strip_special_chars(y) = FlattenSeq(clean)
        BY <1>10, <1>12, <2>1
    <2>3. x \o y \in Seq(C) /\
          strip_special_chars(x \o y) = strip_special_chars(x) \o strip_special_chars(y)
        BY <1>5
    <2>4. strip_special_chars((x \o y) \o z) = strip_special_chars(x \o y) \o strip_special_chars(z)
        BY <1>5, <2>3
    <2>5. BracketText(u) = (x \o y) \o z
        BY <1>9, <2>1
    <2> QED BY <2>2, <2>3, <2>4, <2>5
<1> QED BY <1>13, <1>14, ConcatEmptySeq DEF clean

LEMMA BracketReadsBack ==
    ASSUME NEW u, Fit(u), Shifted(16, u[ClockSeqHi], Widths[ClockSeqHi] - 1) # 0,
           VersionBits(u) \in {10, 11}
    PROVE  /\ quid_parse(BracketText(u)) = u
           /\ u[TimeLow] # 0 => Accepts(BracketText(u))
<1> DEFINE t == FlattenSeq(PlacesOf(u))
<1>1. strip_special_chars(BracketText(u)) = t
    BY BracketStripped
<1>2. t \in Seq(Hex) /\ Len(t) = QUID_LEN /\ strtoquid(t) = u
    BY PlacesReadBack
<1> HIDE DEF t
<1>3. [j \in 1..(QUID_LEN - Len(t)) |-> 0] \o t = t
    BY <1>2, NothingBefore
<1>4. \A j \in 1..Len(t) : t[j] \in 0..15
    BY <1>2, ElementOfSeq DEF Hex
<1>5. quid_parse(BracketText(u)) = u
    BY <1>1, <1>2, <1>3 DEF quid_parse
<1>6. u[TimeLow] # 0 => Accepts(BracketText(u))
    BY <1>1, <1>2, <1>4 DEF Accepts, quid_validate
<1> QED BY <1>5, <1>6

\* What is printed is refused, or read as what it was; in braces it is refused
\* only if its time is zero (quid_print_file, strip_special_chars, strtoquid,
\* quid_validate).
THEOREM PrintedReadsBack ==
    ASSUME NEW u, Fit(u), Shifted(16, u[ClockSeqHi], Widths[ClockSeqHi] - 1) # 0,
           VersionBits(u) \in {10, 11}, NEW format \in {"bracket", "hex", "dec"}
    PROVE  /\ Accepts(quid_print_file(u, format)) => quid_parse(quid_print_file(u, format)) = u
           /\ format = "bracket" /\ u[TimeLow] # 0 => Accepts(quid_print_file(u, format))
<1>1. CASE format = "hex"
    BY <1>1, HexReadsBack DEF quid_print_file
<1>2. CASE format = "dec"
    <2>1. u \in [FieldIndex -> Nat]
        BY DEF Fit
    <2>2. ~Accepts(DecText(u))
        BY <2>1, DecRefused
    <2>3. quid_print_file(u, format) = DecText(u)
        BY <1>2 DEF quid_print_file
    <2> QED BY <1>2, <2>2, <2>3
<1>3. CASE format = "bracket"
    <2>1. quid_print_file(u, format) = BracketText(u)
        BY <1>3 DEF quid_print_file
    <2> QED BY <2>1, BracketReadsBack
<1> QED BY <1>1, <1>2, <1>3

------------------------------------------------------------------------------
\* Lines given back to the tool.

\* What the library makes can be read back from a line in braces.
LEMMA FieldsFit ==
    ASSUME NEW u \in Fields
    PROVE  /\ Fit(u) /\ Shifted(16, u[ClockSeqHi], Widths[ClockSeqHi] - 1) # 0
           /\ VersionBits(u) \in {10, 11} /\ VersionOf(u) = Reading(u).version
<1>1. Shifted(16, u[ClockSeqHi], Widths[ClockSeqHi] - 1) >= 8
    BY ReadingAssumption
<1>2. Shifted(16, u[ClockSeqHi], Widths[ClockSeqHi] - 1) # 0
    <2>1. ~(0 >= 8)
        OBVIOUS
    <2> QED BY <1>1, <2>1
<1> QED BY <1>2, ReadingAssumption DEF Fit

\* Lines as the tool prints them.
PrintedLines == [fields : Fields, format : Formats]

\* What is known of a report: on such a line it has its fields or a refusal, and
\* a listing is that of an identifier of the library.
Reports ==
    {c \in [line : PrintedLines \cup {NoLine}, valid : BOOLEAN,
            fields : {quid_parse(t) : t \in UserTexts} \cup
                     {quid_parse(quid_print_file(l.fields, l.format)) : l \in PrintedLines},
            listing : {<<>>} \cup {<<Listing(u, tail)>> : u \in Fields, tail \in Tails}] :
        /\ c.line # NoLine =>
              /\ c.valid => c.fields = c.line.fields
              /\ c.line.format = "bracket" /\ c.line.fields[TimeLow] # 0 => c.valid
        /\ c.listing # <<>> =>
              /\ c.valid /\ c.fields \in Fields
              /\ \E tail \in Tails : c.listing = <<Listing(c.fields, tail)>>}

ReportsInv == AskedInv /\ checks \in [Procs -> Seq(Reports)]

LEMMA ShownArePrinted ==
    ASSUME AskedInv, NEW l \in Shown
    PROVE  l \in PrintedLines
<1>1. PICK q \in Procs : l \in {out[q][k] : k \in 1..Len(out[q])}
    BY DEF Shown
<1>2. PICK k \in 1..Len(out[q]) : l = out[q][k]
    BY <1>1
<1>3. out[q] \in Seq(LineSet)
    BY DEF AskedInv, UtilInv, ProcessesOK
<1>4. out[q][k] \in LineSet
    BY <1>3, ElementOfSeq
<1>5. out[q][k].fields \in Fields
    BY DEF AskedInv, LinesInv
<1> QED BY <1>2, <1>4, <1>5 DEF LineSet, PrintedLines

LEMMA AcceptsIsBoolean == \A s : Accepts(s) \in BOOLEAN
BY DEF Accepts

\* The report on an operand.
LEMMA ReportIsRight ==
    ASSUME AskedInv, NEW o \in Operands, NEW tail \in Tails, NEW v,
           NEW c, c = [line |-> o.line, valid |-> Accepts(o.text), fields |-> quid_parse(o.text),
                       listing |-> IF Accepts(o.text) /\ v /\ quid_parse(o.text) \in Fields
                                   THEN <<Listing(quid_parse(o.text), tail)>> ELSE <<>>]
    PROVE  c \in Reports
<1> DEFINE u == quid_parse(o.text)
           valid == Accepts(o.text)
           Sources == {quid_parse(t) : t \in UserTexts} \cup
                      {quid_parse(quid_print_file(l.fields, l.format)) : l \in PrintedLines}
           Listings == {<<>>} \cup {<<Listing(w, t)>> : w \in Fields, t \in Tails}
<1>1. /\ c.line = o.line /\ c.valid = valid /\ c.fields = u
      /\ c.listing = IF valid /\ v /\ u \in Fields THEN <<Listing(u, tail)>> ELSE <<>>
      /\ c = [line |-> c.line, valid |-> c.valid, fields |-> c.fields, listing |-> c.listing]
    OBVIOUS
<1>2. /\ o.line \in PrintedLines \cup {NoLine} /\ u \in Sources
      /\ o.line # NoLine =>
            /\ valid => u = o.line.fields
            /\ o.line.format = "bracket" /\ o.line.fields[TimeLow] # 0 => valid
    <2>1. CASE \E l \in Shown : o = [line |-> l, text |-> quid_print_file(l.fields, l.format)]
        <3>1. PICK l \in Shown : o = [line |-> l, text |-> quid_print_file(l.fields, l.format)]
            BY <2>1
        <3>2. l \in PrintedLines
            BY ShownArePrinted
        <3>3. l.fields \in Fields /\ l.format \in {"bracket", "hex", "dec"}
            BY <3>2 DEF PrintedLines, Formats
        <3>4. o.line = l /\ o.text = quid_print_file(l.fields, l.format)
            BY <3>1
        <3>5. /\ valid => u = l.fields
              /\ l.format = "bracket" /\ l.fields[TimeLow] # 0 => valid
            <4>1. PICK w \in Fields, f \in {"bracket", "hex", "dec"} :
                     w = l.fields /\ f = l.format
                BY <3>3
            <4>2. /\ Accepts(quid_print_file(w, f)) => quid_parse(quid_print_file(w, f)) = w
                  /\ f = "bracket" /\ w[TimeLow] # 0 => Accepts(quid_print_file(w, f))
                BY <4>1, FieldsFit, PrintedReadsBack
            <4> QED BY <3>4, <4>1, <4>2
        <3>6. u \in Sources
            BY <3>2, <3>4
        <3> QED BY <3>2, <3>4, <3>5, <3>6
    <2>2. CASE \E t \in UserTexts : o = [line |-> NoLine, text |-> t]
        BY <2>2
    <2> QED BY <2>1, <2>2 DEF Operands
<1>3. valid \in BOOLEAN
    BY AcceptsIsBoolean
<1> HIDE DEF u, valid, Sources
<1>4. c.listing \in Listings
    BY <1>1
<1>5. c.listing # <<>> =>
         c.valid /\ c.fields \in Fields /\ \E t \in Tails : c.listing = <<Listing(c.fields, t)>>
    BY <1>1
<1> HIDE DEF Listings
<1>6. c \in [line : PrintedLines \cup {NoLine}, valid : BOOLEAN, fields : Sources,
             listing : Listings]
    BY <1>1, <1>2, <1>3, <1>4
<1> QED BY <1>1, <1>2, <1>5, <1>6 DEF Reports, Sources, Listings

LEMMA ReportsStep ==
    ASSUME ReportsInv, NEW p \in Procs, Step(p) \/ Interrupt(p)
    PROVE  checks' \in [Procs -> Seq(Reports)]
<1>1. CASE CheckOperand(p)
    <2>1. PICK o \in Operands, tail \in Tails :
             checks' = [checks EXCEPT ![p] = Append(@,
                [line |-> o.line, valid |-> Accepts(o.text), fields |-> quid_parse(o.text),
                 listing |-> IF Accepts(o.text) /\ conf[p].vbose /\ quid_parse(o.text) \in Fields
                             THEN <<Listing(quid_parse(o.text), tail)>> ELSE <<>>])]
        BY <1>1 DEF CheckOperand
    <2>2. PICK c : /\ checks' = [checks EXCEPT ![p] = Append(@, c)]
                   /\ c = [line |-> o.line, valid |-> Accepts(o.text),
                           fields |-> quid_parse(o.text),
                           listing |-> IF Accepts(o.text) /\ conf[p].vbose
                                          /\ quid_parse(o.text) \in Fields
                                       THEN <<Listing(quid_parse(o.text), tail)>> ELSE <<>>]
        BY <2>1
    <2>3. c \in Reports
        BY <2>2, ReportIsRight DEF ReportsInv
    <2>4. checks[p] \in Seq(Reports)
        BY DEF ReportsInv
    <2>5. Append(checks[p], c) \in Seq(Reports)
        BY <2>3, <2>4, AppendProperties
    <2> QED BY <2>2, <2>5 DEF ReportsInv
<1>2. CASE UNCHANGED checks
    BY <1>2 DEF ReportsInv
<1> QED BY <1>1, <1>2
    DEF Step, ReadOption, QuitOption, EndOptions, CheckName, OpenFile, CannotOpen,
        CreateId, BailOut, TestFlag, Output, Rest, EndLoop, CloseFile, Interrupt

LEMMA ReportsInvariant == Spec => []ReportsInv
<1>1. Init => checks \in [Procs -> Seq(Reports)]
    BY EmptySeq DEF Init
<1>2. ReportsInv /\ AskedInv' /\ [Next]_vars => ReportsInv'
    <2> SUFFICES ASSUME ReportsInv, AskedInv', [Next]_vars
                 PROVE  checks' \in [Procs -> Seq(Reports)]
        BY DEF ReportsInv
    <2>1. CASE Next
        BY <2>1, ReportsStep DEF Next
    <2>2. CASE UNCHANGED vars
        BY <2>2 DEF vars, ReportsInv
    <2> QED BY <2>1, <2>2
<1>3. Init /\ AskedInv => ReportsInv
    BY <1>1 DEF ReportsInv
<1> QED BY <1>2, <1>3, AskedInvariant, PTL DEF Spec

\* A line that the tool has printed is refused or read as the same identifier
\* when it is given back, whatever the format, and in braces it is always
\* accepted unless its time is zero (quid_print_file, quid_parse).
THEOREM LinesAreNotMisread == Spec => []NeverMisread
<1>1. ReportsInv => NeverMisread
    <2> SUFFICES ASSUME ReportsInv, NEW p \in Procs, NEW k \in 1..Len(checks[p])
                 PROVE  checks[p][k].line # NoLine =>
                           /\ checks[p][k].valid => checks[p][k].fields = checks[p][k].line.fields
                           /\ checks[p][k].line.format = "bracket"
                              /\ checks[p][k].line.fields[TimeLow] # 0 => checks[p][k].valid
        BY DEF NeverMisread
    <2>1. checks[p] \in Seq(Reports)
        BY DEF ReportsInv
    <2>2. checks[p][k] \in Reports
        BY <2>1, ElementOfSeq
    <2> QED BY <2>2 DEF Reports
<1> QED BY <1>1, ReportsInvariant, PTL

\* The verbose report on a line says what the command line that made it asked
\* for, with something behind the tag.
TagPrinted(q, tail) ==
    IF VersionAsked(q) = 4 THEN <<"Not implemented">>
    ELSE IF TagAsked(q) = NoTag THEN <<"None">> ELSE <<TagAsked(q), tail>>

LEMMA ReportsList ==
    ASSUME ReportsInv, LinesMatchOptions, NEW p \in Procs, NEW q \in Procs,
           NEW k \in 1..Len(checks[p]), checks[p][k].listing # <<>>,
           NEW m \in 1..Len(out[q]), out[q][m] = checks[p][k].line
    PROVE  /\ Head(checks[p][k].listing).version = VersionAsked(q)
           /\ Head(checks[p][k].listing).category = CategoryAsked(q)
           /\ Head(checks[p][k].listing).flags = SetFlags(q)
           /\ \E tail \in Tails :
                 Head(checks[p][k].listing).tag = TagPrinted(q, tail)
<1>1. PICK c : c = checks[p][k]
    OBVIOUS
<1>2. c \in Reports
    <2>1. checks[p] \in Seq(Reports)
        BY DEF ReportsInv
    <2> QED BY <1>1, <2>1, ElementOfSeq
<1>3. c.line # NoLine
    <2>1. out[q] \in Seq(LineSet)
        BY DEF ReportsInv, AskedInv, UtilInv, ProcessesOK
    <2>2. out[q][m] \in LineSet
        BY <2>1, ElementOfSeq
    <2>3. out[q][m].format \in Formats
        BY <2>2 DEF LineSet
    <2> QED BY <1>1, <2>3 DEF NoLine, Formats
<1>4. PICK u \in Fields, tail \in Tails :
         c.line.fields = u /\ c.listing = <<Listing(u, tail)>>
    BY <1>1, <1>2, <1>3 DEF Reports
<1>5. PICK r : r = Reading(u)
    OBVIOUS
<1>6. /\ r.version = VersionAsked(q) /\ r.tag = TagAsked(q)
      /\ r.cat = CategoryAsked(q) /\ r.flag = {IDF[f] : f \in SetFlags(q)}
    BY <1>1, <1>4, <1>5 DEF LinesMatchOptions
<1>7. VersionOf(u) = r.version
    BY <1>5, FieldsFit
<1>8. Head(checks[p][k].listing) = Listing(u, tail)
    BY <1>1, <1>4
<1>9. /\ Listing(u, tail).version = r.version
      /\ Listing(u, tail).category = r.cat
      /\ Listing(u, tail).tag = TagListed(r, tail)
      /\ Listing(u, tail).flags = {f \in FlagNames : FLAG[f] \in r.flag}
    BY <1>5, <1>7 DEF Listing
<1>10. {f \in FlagNames : FLAG[f] \in r.flag} = SetFlags(q)
    <2>1. SetFlags(q) \subseteq FlagNames
        BY DEF SetFlags, FlagsIn
    <2>2. \A f, g \in FlagNames : FLAG[f] = IDF[g] => f = g
        BY FlagNamesAre DEF FLAG, IDF
    <2>3. \A f \in FlagNames : FLAG[f] = IDF[f]
        BY FlagNamesAre DEF FLAG, IDF
    <2> QED BY <1>6, <2>1, <2>2, <2>3
<1>11. TagListed(r, tail) =
          IF r.version = 4 THEN <<"Not implemented">>
          ELSE IF r.tag = NoTag THEN <<"None">> ELSE <<r.tag, tail>>
    BY DEF TagListed
<1> QED BY <1>6, <1>8, <1>9, <1>10, <1>11 DEF TagPrinted

\* Where a zero byte stands behind the tag buffer, the verbose report on a line
\* says what the command line that made it asked for (input_verbose, quid_tag).
THEOREM ReportsAreAsAsked ==
    ASSUME Tails = {""}
    PROVE  Spec => []ReportsWhatWasAsked
<1>1. ASSUME NEW p \in Procs, NEW q \in Procs, NEW k \in 1..Len(checks[p]),
             \E tail \in Tails : Head(checks[p][k].listing).tag = TagPrinted(q, tail)
      PROVE  Head(checks[p][k].listing).tag = TagPrinted(q, "")
    BY <1>1
<1>2. ReportsInv /\ LinesMatchOptions => ReportsWhatWasAsked
    BY <1>1, ReportsList DEF ReportsWhatWasAsked, TagPrinted
<1> QED BY <1>2, ReportsInvariant, LinesAreAsAsked, PTL
==============================================================================
