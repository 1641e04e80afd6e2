------------------------------ MODULE QuidUtil ------------------------------
(***************************************************************************)
(* The command line tool, quidutil.c: processes that share a file system   *)
(* read their options, check the identifiers they are given, or create     *)
(* identifiers and print them on the screen or append them to a file,      *)
(* until they have made all or are interrupted.                            *)
(*                                                                         *)
(* getopt_long has parsed the command line: its options come first, one by *)
(* one, with the number that atoi makes of a value.  Processes write to a  *)
(* file through the buffer of stdio, whose blocks end anywhere in a line,  *)
(* so that a line has two pieces.                                          *)
(***************************************************************************)
EXTENDS QuidText, FiniteSets

CONSTANTS Procs,         \* processes that run the tool
          CommandLines,  \* [options, operands] of all processes, in each case
          Fields,        \* field tuples of the identifiers the library makes
          Reading(_),    \* what the accessors read from one
          UserTexts,     \* texts from elsewhere, to be checked
          Tags, NoTag,   \* tags of three characters, and the tag of zeroes
          LongTags,      \* tags of more or less
          Tails,         \* what may stand behind the tag buffer of quid_tag up to a
                         \* zero byte: "" where that byte is the next
          ULL, CHAR,     \* 2^64 and 2^8, the numbers of a count and a char
          MaxDelay,      \* whose microseconds are an int, INT_MAX / 1000
          WIN32,         \* the Windows build, with another qusleep?
          BufSize,       \* pieces in a block of stdio
          Names,         \* of files
          InitialFiles,  \* what is there before: Absent, Directory or pieces
          Absent, Directory,
          NoFile,        \* no -o
          MaxFaults,     \* bound: failures of fopen, of write and of the seed file
          MaxSignals     \* bound: interrupts of all processes

\* What a file held before the processes ran.
Old == <<"old", 0, 0>>

\* What is in files and buffers: a half of a process's line.
Piece == (Procs \X (Nat \ {0}) \X {1, 2}) \cup {Old}

ASSUME UtilAssumption ==
    /\ ULL \in Nat /\ ULL > 1 /\ CHAR \in Nat /\ CHAR > 4
    /\ MaxFaults \in Nat /\ MaxSignals \in Nat
    /\ WIN32 \in BOOLEAN /\ MaxDelay \in Nat /\ BufSize \in Nat \ {0}
    /\ NoFile \notin Names
    /\ NoTag \notin Tags /\ Tags \cap LongTags = {}
    /\ Absent \notin Seq(Piece)
    /\ InitialFiles \in [Names -> {Absent, Directory} \cup Seq({Old})]

\* By SameIdSameOrigin and OriginReadsBack the accessors return what an
\* identifier was made from.  The fields have the widths of their types, and the
\* highest bit of the clock sequence is set.
ASSUME ReadingAssumption ==
    \A u \in Fields :
        /\ u \in [FieldIndex -> Nat]
        /\ \A k \in FieldIndex : Shifted(16, u[k], Widths[k]) = 0
        /\ VersionOf(u) = Reading(u).version
        /\ VersionBits(u) \in {10, 11}
        /\ Shifted(16, u[ClockSeqHi], Widths[ClockSeqHi] - 1) >= 8

VARIABLES args,     \* the command line
          pc,       \* where main is
          todo,     \* options not yet read
          conf,     \* variables that the options set
          cuuid,    \* the structure given to quid_create
          i,        \* identifiers made
          intflag,  \* has the handler run?
          buf,      \* pieces in the buffer of fp
          out,      \* lines printed, in screen or buffer
          checks,   \* reports on operands
          status,   \* of the process: "success" is exit code 0
          files,    \* the file system
          faults,   \* failures of files, at most MaxFaults
          signals,  \* interrupts sent, at most MaxSignals
          slept,    \* ghost: milliseconds waited in qusleep
          late,     \* ghost: lines printed after the interrupt
          lossy     \* ghost: has a write of the process failed?

vars == <<args, pc, todo, conf, cuuid, i, intflag, buf, out, checks, status,
          files, faults, signals, slept, late, lossy>>

\* The bits of the flags: IDF_ to set, FLAG_ to test.  1<<4 is not for callers.
IDF == [set_public |-> 0, set_safe |-> 1, set_master |-> 2, set_sign |-> 3,
        set_tag |-> 5, set_strict |-> 6]

\* Fault: the bits of FLAG_ follow one another.
FLAG_Packed == [set_public |-> 0, set_safe |-> 1, set_master |-> 2, set_sign |-> 3,
                set_tag |-> 4, set_strict |-> 5]

FLAG == [set_public |-> 0, set_safe |-> 1, set_master |-> 2, set_sign |-> 3,
         set_tag |-> 5, set_strict |-> 6]

FlagNames == DOMAIN IDF

Categories == 1..4    \* CLS_CMON to CLS_ERROR

Defaults ==
    [n |-> 1, delay |-> 0, fname |-> NoFile, fmat |-> "bracket", nout |-> FALSE,
     vbose |-> FALSE, flg |-> {}, cat |-> 1, tag |-> NoTag]

Init ==
    /\ args \in CommandLines
    /\ pc = [p \in Procs |-> "options"]
    /\ todo = [p \in Procs |-> args[p].options]
    /\ conf = [p \in Procs |-> Defaults]
    /\ cuuid = [p \in Procs |-> [version |-> 7, fields |-> <<>>]]
    /\ i = [p \in Procs |-> 0]
    /\ intflag = [p \in Procs |-> FALSE]
    /\ buf = [p \in Procs |-> <<>>]
    /\ out = [p \in Procs |-> <<>>]
    /\ checks = [p \in Procs |-> <<>>]
    /\ status = [p \in Procs |-> "running"]
    /\ files = InitialFiles
    /\ faults = 0
    /\ signals = 0
    /\ slept = [p \in Procs |-> 0]
    /\ late = [p \in Procs |-> 0]
    /\ lossy = [p \in Procs |-> FALSE]

Goto(p, label) == pc' = [pc EXCEPT ![p] = label]
Exit(p, code) == Goto(p, "exit") /\ status' = [status EXCEPT ![p] = code]

------------------------------------------------------------------------------
\* Options.

\* Those that print something and end the program.
Information == {"list-categories", "version", "help", "?"}

\* An option with its value, a number where atoi or atoll makes one.
OptionSet ==
    [name : {"category", "count", "rev", "rand-seed", "memory-seed"}, value : Int] \cup
    [name : {"delay"}, value : -MaxDelay..MaxDelay] \cup
    [name : {"output"}, value : Names] \cup
    [name : {"tag"}, value : Tags \cup LongTags] \cup
    [name : {"hex", "number", "silent", "verbose"} \cup FlagNames \cup Information,
     value : {0}]

ASSUME CommandLineAssumption ==
    CommandLines \subseteq [Procs -> [options : Seq(OptionSet), operands : Nat]]

\* cat = (char)atoi(optarg)
Category(value) == value % CHAR

Accepted(o) ==
    /\ o.name = "rev" => o.value \in {4, 7}
    /\ o.name = "tag" => o.value \in Tags
    /\ o.name = "category" => Category(o.value) \in Categories

\* Fault: the count stays a signed number.
Count_Signed(value) == value

\* n = atoll(optarg) makes an unsigned number of it.
Count(value) == value % ULL

\* --rev goes to the structure; the seed options set the variables of QuidRandom
\* and QuidMemSeed.
Updated(c, o) ==
    CASE o.name = "category" -> [c EXCEPT !.cat = Category(o.value)]
      [] o.name = "count"    -> [c EXCEPT !.n = Count(o.value)]
      [] o.name = "delay"    -> [c EXCEPT !.delay = o.value]
      [] o.name = "output"   -> [c EXCEPT !.fname = o.value]
      [] o.name = "hex"      -> [c EXCEPT !.fmat = "hex"]
      [] o.name = "number"   -> [c EXCEPT !.fmat = "dec"]
      [] o.name = "silent"   -> [c EXCEPT !.nout = TRUE]
      [] o.name = "verbose"  -> [c EXCEPT !.vbose = TRUE]
      [] o.name = "tag"      -> [c EXCEPT !.tag = o.value]
      [] o.name \in FlagNames -> [c EXCEPT !.flg = @ \cup {IDF[o.name]}]
      [] OTHER -> c

ReadOption(p) ==
    /\ pc[p] = "options" /\ todo[p] # <<>>
    /\ LET o == Head(todo[p])
       IN  /\ o.name \notin Information
           /\ Accepted(o)
           /\ conf' = [conf EXCEPT ![p] = Updated(@, o)]
           /\ cuuid' = [cuuid EXCEPT ![p].version = IF o.name = "rev" THEN o.value ELSE @]
    /\ todo' = [todo EXCEPT ![p] = Tail(@)]
    /\ UNCHANGED <<args, pc, i, intflag, buf, out, checks, status, files, faults,
                   signals, slept, late, lossy>>

\* An option ends the program: it asks for information, or is refused.
QuitOption(p) ==
    /\ pc[p] = "options" /\ todo[p] # <<>>
    /\ \/ Head(todo[p]).name \in Information /\ Exit(p, "success")
       \/ ~Accepted(Head(todo[p])) /\ Exit(p, "failure")
    /\ UNCHANGED <<args, todo, conf, cuuid, i, intflag, buf, out, checks, files,
                   faults, signals, slept, late, lossy>>

\* Operands, if any, are checked and nothing is created.
EndOptions(p) ==
    /\ pc[p] = "options" /\ todo[p] = <<>>
    /\ Goto(p, IF args[p].operands > 0 THEN "operands" ELSE "open")
    /\ UNCHANGED <<args, todo, conf, cuuid, i, intflag, buf, out, checks, status,
                   files, faults, signals, slept, late, lossy>>

------------------------------------------------------------------------------
\* Operands: lines that a process has printed on its screen, or other texts.

NoLine == [fields |-> <<>>, format |-> "none"]
Shown == UNION {{out[q][k] : k \in 1..Len(out[q])} :
                q \in {r \in Procs : conf[r].fname = NoFile}}

\* quid_tag, with the bytes that printf reads after its buffer of three.
TagListed(r, tail) ==
    IF r.version = 4 THEN <<"Not implemented">>
    ELSE IF r.tag = NoTag THEN <<"None">> ELSE <<r.tag, tail>>

\* input_verbose
Listing(u, tail) ==
    [version |-> VersionOf(u), tag |-> TagListed(Reading(u), tail),
     category |-> Reading(u).cat,
     flags |-> {f \in FlagNames : FLAG[f] \in Reading(u).flag}]

Operands ==
    {[line |-> l, text |-> quid_print_file(l.fields, l.format)] : l \in Shown} \cup
    {[line |-> NoLine, text |-> t] : t \in UserTexts}

CheckOperand(p) ==
    /\ pc[p] = "operands"
    /\ \E o \in Operands, tail \in Tails :
          LET u == quid_parse(o.text)
              valid == Accepts(o.text)
          IN  checks' = [checks EXCEPT ![p] = Append(@,
                 [line |-> o.line, valid |-> valid, fields |-> u,
                  listing |-> IF valid /\ conf[p].vbose /\ u \in Fields
                              THEN <<Listing(u, tail)>> ELSE <<>>])]
    /\ IF Len(checks'[p]) = args[p].operands
       THEN Exit(p, "success") ELSE UNCHANGED <<pc, status>>
    /\ UNCHANGED <<args, todo, conf, cuuid, i, intflag, buf, out, files, faults,
                   signals, slept, late, lossy>>

------------------------------------------------------------------------------
\* The output file.

\* Fault: only directories are refused.
check_fname_Dir(file) == file # Directory

\* The file must not exist.
check_fname(file) == file = Absent

CheckName(p) ==
    /\ pc[p] = "open"
    /\ IF conf[p].fname = NoFile THEN Goto(p, "create") /\ UNCHANGED status
       ELSE IF check_fname(files[conf[p].fname]) THEN Goto(p, "fopen") /\ UNCHANGED status
       ELSE Exit(p, "failure")
    /\ UNCHANGED <<args, todo, conf, cuuid, i, intflag, buf, out, checks, files,
                   faults, signals, slept, late, lossy>>

\* Fault: the file is opened to write, not to append.
Opened_Truncated(file) == <<>>

\* fopen "a" creates the file, unless it was created since check_fname.
Opened(file) == IF file = Absent THEN <<>> ELSE file

OpenFile(p) ==
    /\ pc[p] = "fopen"
    /\ Goto(p, "create")
    /\ files' = [files EXCEPT ![conf[p].fname] = Opened(@)]
    /\ UNCHANGED <<args, todo, conf, cuuid, i, intflag, buf, out, checks, status,
                   faults, signals, slept, late, lossy>>

CannotOpen(p) ==
    /\ pc[p] = "fopen" /\ faults < MaxFaults
    /\ faults' = faults + 1
    /\ Exit(p, "failure")
    /\ UNCHANGED <<args, todo, conf, cuuid, i, intflag, buf, out, checks, files,
                   signals, slept, late, lossy>>

\* Pieces go to the file, or are lost.
WriteOut(p, pieces) ==
    \/ /\ files' = IF pieces = <<>> THEN files
                   ELSE [files EXCEPT ![conf[p].fname] = @ \o pieces]
       /\ UNCHANGED <<faults, lossy>>
    \/ /\ pieces # <<>> /\ faults < MaxFaults
       /\ faults' = faults + 1
       /\ lossy' = [lossy EXCEPT ![p] = TRUE]
       /\ UNCHANGED files

------------------------------------------------------------------------------
\* Generation: for (i=0; i<n; ++i).

Request(p) ==
    [version |-> cuuid[p].version, flag |-> conf[p].flg, cat |-> conf[p].cat,
     tag |-> IF cuuid[p].version = 4 THEN NoTag ELSE conf[p].tag]

\* Fault: the structure that was cleared keeps no version.
NewStructure_Unversioned(u) == [version |-> 7, fields |-> u]

\* quid_create takes the version from the structure, clears it and the
\* constructor sets the version again.
NewStructure(u) == [version |-> VersionOf(u), fields |-> u]

CreateId(p) ==
    /\ pc[p] = "create" /\ i[p] < conf[p].n
    /\ \E u \in Fields :
          /\ Reading(u) = Request(p)
          /\ cuuid' = [cuuid EXCEPT ![p] = NewStructure(u)]
    /\ Goto(p, "test")
    /\ UNCHANGED <<args, todo, conf, i, intflag, buf, out, checks, status, files,
                   faults, signals, slept, late, lossy>>

\* A REV4 identifier needs the seed file, without which get_memory_seed ends
\* the process.
BailOut(p) ==
    /\ pc[p] = "create" /\ i[p] < conf[p].n
    /\ cuuid[p].version = 4 /\ faults < MaxFaults
    /\ faults' = faults + 1
    /\ Goto(p, "bail")
    /\ UNCHANGED <<args, todo, conf, cuuid, i, intflag, buf, out, checks, status,
                   files, signals, slept, late, lossy>>

\* Fault: the flag ends the loop only once all are made.
AfterTest_Ignored(p) == "print"

\* Fault: the loop goes on.
AfterTest_Continue(p) == IF intflag[p] THEN "create" ELSE "print"

\* The interrupt drops the identifier just made.
AfterTest(p) == IF intflag[p] THEN "close" ELSE "print"

TestFlag(p) ==
    /\ pc[p] = "test"
    /\ Goto(p, AfterTest(p))
    /\ UNCHANGED <<args, todo, conf, cuuid, i, intflag, buf, out, checks, status,
                   files, faults, signals, slept, late, lossy>>

\* A line goes to the screen, or nowhere, or to the buffer, from which full
\* blocks are written.
Line(p) == [fields |-> cuuid[p].fields, format |-> conf[p].fmat]
Pieces(p) == <<<<p, Len(out[p]) + 1, 1>>, <<p, Len(out[p]) + 1, 2>>>>

\* Fault: the flag is tested after the line is printed.
AfterOutput_Test(p) == IF intflag[p] THEN "close" ELSE "rest"

AfterOutput(p) == "rest"

Output(p) ==
    /\ pc[p] = "print"
    /\ IF conf[p].fname = NoFile
       THEN UNCHANGED <<buf, files, faults, lossy>>
       ELSE LET all  == buf[p] \o Pieces(p)
                full == (Len(all) \div BufSize) * BufSize
            IN  /\ WriteOut(p, SubSeq(all, 1, full))
                /\ buf' = [buf EXCEPT ![p] = SubSeq(all, full + 1, Len(all))]
    /\ IF conf[p].fname = NoFile /\ conf[p].nout THEN UNCHANGED <<out, late>>
       ELSE /\ out' = [out EXCEPT ![p] = Append(@, Line(p))]
            /\ late' = [late EXCEPT ![p] = IF intflag[p] THEN @ + 1 ELSE @]
    /\ Goto(p, AfterOutput(p))
    /\ UNCHANGED <<args, todo, conf, cuuid, i, intflag, checks, status, signals, slept>>

\* qusleep(delay * 1000).  The timer of Windows waits any time above zero.
\* Elsewhere tv_sec is zero, and nanosleep refuses a tv_nsec, a long of 64 bits,
\* of a second or more or less than zero.
Slept(d) == IF d \in 0..999 \/ (WIN32 /\ d > 0) THEN d ELSE 0

Rest(p) ==
    /\ pc[p] = "rest"
    /\ i' = [i EXCEPT ![p] = (@ + 1) % ULL]
    /\ slept' = [slept EXCEPT ![p] = @ + Slept(conf[p].delay)]
    /\ Goto(p, "create")
    /\ UNCHANGED <<args, todo, conf, cuuid, intflag, buf, out, checks, status, files,
                   faults, signals, late, lossy>>

EndLoop(p) ==
    /\ pc[p] = "create" /\ i[p] >= conf[p].n
    /\ Goto(p, "close")
    /\ UNCHANGED <<args, todo, conf, cuuid, i, intflag, buf, out, checks, status,
                   files, faults, signals, slept, late, lossy>>

\* fclose writes the rest of the buffer; its result is ignored.  So does exit.
CloseFile(p) ==
    /\ pc[p] \in {"close", "bail"}
    /\ IF conf[p].fname = NoFile
       THEN UNCHANGED <<buf, files, faults, lossy>>
       ELSE WriteOut(p, buf[p]) /\ buf' = [buf EXCEPT ![p] = <<>>]
    /\ Exit(p, IF pc[p] = "close" THEN "success" ELSE "bailed")
    /\ UNCHANGED <<args, todo, conf, cuuid, i, intflag, out, checks, signals, slept, late>>

------------------------------------------------------------------------------
\* SIGINT runs the handler and ends a nanosleep.  With a signal() that installs
\* it for one signal only, a second one kills the process, with what it has
\* buffered; elsewhere the handler runs again.
Interrupt(p) ==
    /\ status[p] = "running" /\ signals < MaxSignals
    /\ signals' = signals + 1
    /\ \/ intflag[p] /\ Exit(p, "killed") /\ UNCHANGED <<intflag, i>>
       \/ /\ intflag' = [intflag EXCEPT ![p] = TRUE]
          /\ \/ UNCHANGED <<pc, i>>
             \/ /\ pc[p] = "rest" /\ ~WIN32
                /\ Goto(p, "create")
                /\ i' = [i EXCEPT ![p] = (@ + 1) % ULL]
          /\ UNCHANGED status
    /\ UNCHANGED <<args, todo, conf, cuuid, buf, out, checks, files, faults, slept,
                   late, lossy>>

Step(p) ==
    \/ ReadOption(p) \/ QuitOption(p) \/ EndOptions(p)
    \/ CheckOperand(p)
    \/ CheckName(p) \/ OpenFile(p) \/ CannotOpen(p)
    \/ CreateId(p) \/ BailOut(p) \/ TestFlag(p) \/ Output(p) \/ Rest(p)
    \/ EndLoop(p) \/ CloseFile(p)

Next == \E p \in Procs : Step(p) \/ Interrupt(p)

Spec == Init /\ [][Next]_vars /\ \A p \in Procs : WF_vars(Step(p))
------------------------------------------------------------------------------
\* Properties.

Labels == {"options", "operands", "open", "fopen", "create", "test", "print", "rest",
           "close", "bail", "exit"}

TypeOK ==
    /\ args \in CommandLines
    /\ pc \in [Procs -> Labels]
    /\ \A p \in Procs : conf[p].n \in 0..(ULL - 1) /\ conf[p].cat \in Categories
    /\ \A p \in Procs : conf[p].fname \in Names \cup {NoFile}
    /\ i \in [Procs -> 0..(ULL - 1)]
    /\ intflag \in [Procs -> BOOLEAN]
    /\ status \in [Procs -> {"running", "success", "failure", "bailed", "killed"}]
    /\ \A p \in Procs : buf[p] \in Seq(Piece) /\ Len(buf[p]) < BufSize
    /\ \A f \in Names : files[f] \in {Absent, Directory} \/ files[f] \in Seq(Piece)
    /\ faults \in 0..MaxFaults /\ signals \in 0..MaxSignals
    /\ slept \in [Procs -> Nat]
    /\ late \in [Procs -> Nat]
    /\ lossy \in [Procs -> BOOLEAN]

\* The place of the last option among names in the first n, 0 if there is none.
LastOf(options, n, names) ==
    LET places == {k \in 1..n : options[k].name \in names}
    IN  IF places = {} THEN 0 ELSE Max(places)

\* What the first n options ask for: a value, a set of flags and a format.
ValueIn(options, n, name, default) ==
    LET k == LastOf(options, n, {name}) IN IF k = 0 THEN default ELSE options[k].value

FlagsIn(options, n) == {f \in FlagNames : LastOf(options, n, {f}) # 0}

FormatIn(options, n) ==
    LET k == LastOf(options, n, {"hex", "number"})
    IN  IF k = 0 THEN "bracket" ELSE IF options[k].name = "hex" THEN "hex" ELSE "dec"

LastGiven(p, name, default) ==
    ValueIn(args[p].options, Len(args[p].options), name, default)
SetFlags(p) == FlagsIn(args[p].options, Len(args[p].options))
VersionAsked(p) == LastGiven(p, "rev", 7)
TagAsked(p) == IF VersionAsked(p) = 4 THEN NoTag ELSE LastGiven(p, "tag", NoTag)
CategoryAsked(p) == LastGiven(p, "category", 1) % CHAR
FormatAsked(p) == FormatIn(args[p].options, Len(args[p].options))

\* Every identifier that is printed, the first and all later ones, has the
\* version, category, tag, flags and format that the command line asks for,
\* although quid_create takes the version from the structure it overwrites
\* (quid_create, main).
LinesMatchOptions ==
    \A p \in Procs : \A k \in 1..Len(out[p]) :
        LET r == Reading(out[p][k].fields)
        IN  /\ r.version = VersionAsked(p)
            /\ r.tag = TagAsked(p)
            /\ r.cat = CategoryAsked(p)
            /\ r.flag = {IDF[f] : f \in SetFlags(p)}
            /\ out[p][k].format = FormatAsked(p)

\* The number that print_verbose reports is that of the identifiers printed, and
\* the one asked for unless the tool was interrupted; a tool that fails has
\* printed none (main, print_verbose).
AccountsFor ==
    \A p \in Procs :
        /\ status[p] = "failure" => out[p] = <<>>
        /\ status[p] = "success" /\ todo[p] = <<>> /\ args[p].operands = 0 =>
              /\ i[p] = conf[p].n \/ (intflag[p] /\ i[p] < conf[p].n)
              /\ Len(out[p]) = IF conf[p].nout /\ conf[p].fname = NoFile THEN 0 ELSE i[p]

\* After an interrupt at most one more identifier is printed (main, set_signint).
InterruptStops == \A p \in Procs : late[p] <= 1

\* A line that the tool has printed, in any format, is rejected when it is
\* given back or read as the same identifier, and a line in braces whose time
\* is not zero is always accepted (quid_print_file, quid_parse).
NeverMisread ==
    \A p \in Procs : \A k \in 1..Len(checks[p]) :
        LET c == checks[p][k]
        IN  c.line # NoLine =>
            /\ c.valid => c.fields = c.line.fields
            /\ c.line.format = "bracket" /\ c.line.fields[TimeLow] # 0 => c.valid

\* The verbose report on a line lists the version, category, tag and flags of
\* the command line that made it, and prints nothing behind the tag, which fills
\* its buffer to the end (input_verbose, quid_tag).
ReportsWhatWasAsked ==
    \A p, q \in Procs : \A k \in 1..Len(checks[p]) :
        LET c == checks[p][k]
            Maker == \E m \in 1..Len(out[q]) : out[q][m] = c.line
        IN  c.listing # <<>> /\ Maker =>
            LET l == Head(c.listing)
            IN  /\ l.version = VersionAsked(q)
                /\ l.category = CategoryAsked(q)
                /\ l.flags = SetFlags(q)
                /\ l.tag = IF VersionAsked(q) = 4 THEN <<"Not implemented">>
                           ELSE IF TagAsked(q) = NoTag THEN <<"None">>
                           ELSE <<TagAsked(q), "">>

\* A file that was there before, a directory included, is never written,
\* although it is opened a step after it is tested, and not exclusively
\* (check_fname, main).
OldFilesStay ==
    \A f \in Names : InitialFiles[f] # Absent => files[f] = InitialFiles[f]

\* The number of a piece among those of its process.
NumberOf(piece) == 2 * (piece[2] - 1) + piece[3]

\* Whatever blocks of several processes a file holds, the pieces of each are
\* there in order, none of them twice or left out, and all of them once it has
\* ended and no write failed (main, quid_print_file).
FileKeepsLines ==
    \A p \in Procs :
        conf[p].fname # NoFile /\ out[p] # <<>> /\ ~lossy[p] =>
            LET file == files[conf[p].fname]
                mine == {k \in 1..Len(file) : file[k][1] = p}
                held == {NumberOf(file[k]) : k \in mine}
            IN  /\ \A j, k \in mine : j < k => NumberOf(file[j]) < NumberOf(file[k])
                /\ \E m \in 0..(2 * Len(out[p])) :
                      /\ held = 1..m
                      /\ status[p] \in {"success", "bailed"} => m = 2 * Len(out[p])

\* Every run of the tool comes to an end, interrupted or not (main).
Ends == \A p \in Procs : <>(pc[p] = "exit")
==============================================================================
