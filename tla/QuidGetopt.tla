------------------------------ MODULE QuidGetopt ------------------------------
(***************************************************************************)
(* The getopt_long of win32_getopt.h, with which the tool reads its        *)
(* command line on Windows.                                                *)
(*                                                                         *)
(* It permutes the argument vector: words that it passes over are exchanged*)
(* with the options behind them, block by block, until all words are at the*)
(* end.  argv holds the positions that the arguments had at first, so that *)
(* its order can be seen.  A step is one round of the loop at "start": it  *)
(* passes over a word, or ends a call with an option or with -1.           *)
(***************************************************************************)
EXTENDS OptionTable, SequencesExt

CONSTANT Lines   \* the command lines: sequences of arguments

\* "-" alone is a word, so that an option says something.
IsArgument(a) ==
    \/ a \in {Word, DashDash}
    \/ /\ a = Option(a.letters, a.long) /\ a # EMSG
       /\ a.long # NoLong => /\ a.long.matches \subseteq DOMAIN Table
                             /\ a.long.exact \in {0} \cup DOMAIN Table

ASSUME LinesAssumption ==
    \A l \in Lines : Len(l) \in Nat /\ \A k \in 1..Len(l) : IsArgument(l[k])

VARIABLES line,          \* the arguments as they were given
          argv,          \* nargv: a position in line at each index
          posix,         \* posixly_correct
          optind, place,
          nonopt_start,  \* the block of words passed over, and -1 if there is
          nonopt_end,    \* none; -1 also while no option follows the block
          results,       \* what the calls have returned
          done           \* a call has returned -1

vars == <<line, argv, posix, optind, place, nonopt_start, nonopt_end, results, done>>

Nargc == Len(line) + 1    \* the index behind the last argument

Init ==
    /\ line \in Lines
    /\ argv = [k \in 1..Len(line) |-> k]
    /\ posix \in BOOLEAN
    /\ optind = 1
    /\ place = EMSG
    /\ nonopt_start = -1
    /\ nonopt_end = -1
    /\ results = <<>>
    /\ done = FALSE

------------------------------------------------------------------------------
\* permute_args exchanges the blocks start..end-1 and end..opt_end-1 by swaps,
\* in gcd cycles of cyclelen swaps each.

gcd[ab \in Nat \X (Nat \ {0})] ==
    IF ab[1] % ab[2] = 0 THEN ab[2] ELSE gcd[<<ab[2], ab[1] % ab[2]>>]

\* Fault: one cycle is taken to be enough.
ncycle_One(nnonopts, nopts) == 1

ncycle(nnonopts, nopts) == gcd[<<nnonopts, nopts>>]

\* The position behind pos in its cycle.
NextPos(start, end, opt_end, pos) ==
    IF pos >= end THEN pos - (end - start) ELSE pos + (opt_end - end)

\* Where the argument at x was before the two at y and z were exchanged.
Swapped(x, y, z) == IF x = y THEN z ELSE IF x = z THEN y ELSE x

permute_args(start, end, opt_end, v) ==
    LET n         == ncycle(end - start, opt_end - end)
        cyclelen  == (opt_end - start) \div n
        cstart(t) == end + ((t - 1) \div cyclelen)
        pos[t \in 1..(n * cyclelen)] ==    \* in swap t
            NextPos(start, end, opt_end, IF (t - 1) % cyclelen = 0 THEN cstart(t) ELSE pos[t - 1])
        nargv[t \in 0..(n * cyclelen)] ==  \* after swap t
            IF t = 0 THEN v
            ELSE [x \in DOMAIN v |-> nargv[t - 1][Swapped(x, pos[t], cstart(t))]]
    IN  nargv[n * cyclelen]

------------------------------------------------------------------------------
\* Is there another argument to be scanned, and which?
Scan == ~done /\ place = EMSG
Current == line[argv[optind]]

\* An option closes the block of words before it.
ClosedAt(k) == IF nonopt_start # -1 /\ nonopt_end = -1 THEN k ELSE nonopt_end

\* A call returns -1: the words between start and end go behind the options up
\* to k, and the operands begin with them.
Return(k, end) ==
    /\ done' = TRUE
    /\ IF end # -1
       THEN /\ argv' = permute_args(nonopt_start, end, k, argv)
            /\ optind' = k - (end - nonopt_start)
       ELSE /\ optind' = IF nonopt_start # -1 THEN nonopt_start ELSE k
            /\ UNCHANGED argv
    /\ nonopt_start' = -1 /\ nonopt_end' = -1
    /\ UNCHANGED <<line, posix, place, results>>

EndOfVector ==
    /\ Scan /\ optind >= Nargc
    /\ Return(optind, nonopt_end)

\* Fault: the block moved is taken to begin where it was.
BlockStart_Unmoved == nonopt_start

\* Where the block of words begins once the options behind it are before it.
BlockStart == optind - (nonopt_end - nonopt_start)

\* Fault: the word is scanned again.
AfterWord_Same == optind

AfterWord == optind + 1

\* A word is passed over and joins the block, behind which no option may be.
PassWord ==
    /\ Scan /\ optind < Nargc /\ Current = Word /\ ~posix
    /\ IF nonopt_start = -1
       THEN nonopt_start' = optind /\ UNCHANGED <<argv, nonopt_end>>
       ELSE IF nonopt_end # -1
       THEN /\ argv' = permute_args(nonopt_start, nonopt_end, optind, argv)
            /\ nonopt_start' = BlockStart
            /\ nonopt_end' = -1
       ELSE UNCHANGED <<argv, nonopt_start, nonopt_end>>
    /\ optind' = AfterWord
    /\ UNCHANGED <<line, posix, place, results, done>>

StopAtWord ==
    /\ Scan /\ optind < Nargc /\ Current = Word /\ posix
    /\ done' = TRUE
    /\ UNCHANGED <<line, argv, posix, optind, place, nonopt_start, nonopt_end, results>>

StopAtDashes ==
    /\ Scan /\ optind < Nargc /\ Current = DashDash
    /\ Return(optind + 1, ClosedAt(optind))

TakeOption ==
    /\ ~done
    /\ place = EMSG => optind < Nargc /\ Current.kind = "option"
    /\ nonopt_end' = IF place = EMSG THEN ClosedAt(optind) ELSE nonopt_end
    /\ LET r == ReadOption(IF place = EMSG THEN Current ELSE place, optind + 1 < Nargc)
       IN  /\ results' = Append(results,
                    Result(r, argv[optind], IF optind + 1 < Nargc THEN argv[optind + 1] ELSE 0))
           /\ optind' = optind + r.used
           /\ place' = r.place
    /\ UNCHANGED <<line, argv, posix, nonopt_start, done>>

Next == EndOfVector \/ PassWord \/ StopAtWord \/ StopAtDashes \/ TakeOption

Spec == Init /\ [][Next]_vars /\ WF_vars(Next)

------------------------------------------------------------------------------
\* Properties.

TypeOK ==
    /\ line \in Lines
    /\ argv \in [1..Len(line) -> 1..Len(line)]
    /\ posix \in BOOLEAN
    /\ optind \in 1..Nargc
    /\ nonopt_start \in 1..Len(line) \cup {-1}
    /\ nonopt_end \in 1..Len(line) \cup {-1}
    /\ results \in Seq([opt   : Letters \cup ArgLetters \cup {"0", "?"},
                        entry : 0..Len(Table),
                        from  : 1..Len(line),
                        arg   : 0..Len(line)])
    /\ done \in BOOLEAN

\* permute_args is never called for an empty block, which would divide by zero,
\* nor for a part of the vector that has not been read: the words passed over
\* are before the options behind them, and both before optind (getopt_internal,
\* gcd).
BlocksInOrder ==
    ~done =>
    /\ nonopt_start # -1 => nonopt_start < optind
    /\ nonopt_end # -1 =>
          /\ nonopt_start # -1 /\ nonopt_start < nonopt_end
          /\ nonopt_end < optind \/ (nonopt_end = optind /\ place # EMSG)

\* No argument is lost or doubled by the exchanges, and when -1 is returned the
\* options with their arguments stand before optind and the others behind it,
\* each in the order in which they were given (permute_args).
OrderIsKept ==
    /\ IsInjective(argv)
    /\ done => \A x, y \in 1..Len(line) :
                  x < y /\ (y < optind \/ optind <= x) => argv[x] < argv[y]

\* The options returned and the operands left are those of a parser that reads
\* the arguments once and in order and keeps its operands apart.
Skipped ==
    IF done THEN SubSeq(argv, optind, Len(line))
    ELSE IF nonopt_start = -1 THEN <<>>
    ELSE SubSeq(argv, nonopt_start, (IF nonopt_end = -1 THEN optind ELSE nonopt_end) - 1)

Stream == INSTANCE ArgStream WITH
    next <- IF done THEN Nargc ELSE optind,
    operands <- Skipped

ImplementsStream == Stream!SSpec

\* A long option is returned as an entry that it names or abbreviates, with an
\* argument if and only if the entry takes one; where it abbreviates several,
\* they have the same value and cannot be told apart by it (parse_long_options).
LongOptionsFit ==
    \A k \in 1..Len(results) :
        LET r == results[k]
            Candidates == IF line[r.from].long.exact # 0 THEN {line[r.from].long.exact}
                          ELSE line[r.from].long.matches
        IN  r.entry # 0 =>
            /\ r.entry \in Candidates
            /\ \A j \in Candidates : Table[j].val = r.opt
            /\ Table[r.entry].has_arg = "required" <=> r.arg # 0

\* A caller that calls until -1 is returned is given it, whatever the arguments
\* are (getopt_internal).
Terminates == <>done
==============================================================================
