----------------------------- MODULE OptionTable -----------------------------
(***************************************************************************)
(* What one option on a command line says: the letter of a cluster like    *)
(* -qx or -c5, or a long option like --rev=4, which may be abbreviated.    *)
(*                                                                         *)
(* An argument is a word, the mark "--", or an option: letters, and a long *)
(* option behind them ("--rev" has no letters, and "-q-rev" is -q and      *)
(* --rev).  A long option is the set of the table's entries it is a prefix *)
(* of, the one it is equal to, and whether a value follows a "=".          *)
(***************************************************************************)
EXTENDS Integers, Sequences, FiniteSetsExt

CONSTANTS Table,       \* of long options: [has_arg, val], the flags being NULL
          Letters,     \* options without an argument, like q
          ArgLetters,  \* and with one, like c
          NoLong       \* the end of a cluster without a long option

ASSUME TableAssumption ==
    /\ Table \in Seq([has_arg : {"no", "required"}, val : Letters \cup {"0"}])
    /\ "?" \notin Letters \cup ArgLetters

Word == [kind |-> "word"]
DashDash == [kind |-> "dashdash"]
Option(letters, long) == [kind |-> "option", letters |-> letters, long |-> long]
Long(matches, exact, eq) == [matches |-> matches, exact |-> exact, eq |-> eq]

\* Nothing of an argument is left: the empty string EMSG.
EMSG == Option(<<>>, NoLong)

------------------------------------------------------------------------------
\* IDENTICAL_INTERPRETATION.  Most entries have the value 0 and are told apart
\* by their index only, so that --set-s is --set-safe and not ambiguous.
Identical(x, y) == Table[x] = Table[y]

\* Fault: the first entry that fits is taken, whatever the others mean.
Match_First(l) ==
    IF l.exact # 0 THEN l.exact ELSE IF l.matches = {} THEN 0 ELSE Min(l.matches)

\* The entry found, or 0 if there is none or the text is ambiguous.
Match(l) ==
    IF l.exact # 0 THEN l.exact
    ELSE IF l.matches = {} THEN 0
    ELSE LET first == Min(l.matches)
         IN  IF \A j \in l.matches : Identical(j, first) THEN first ELSE 0

\* What a call returns: the option, its entry if it is a long one, where its
\* argument is, how many arguments are done, and what is left of this one.
Found(opt, entry, arg, used, place) ==
    [opt |-> opt, entry |-> entry, arg |-> arg, used |-> used, place |-> place]

BadOption(used, place) == Found("?", 0, "none", used, place)

\* Fault: the index stays behind the argument that is missing.
parse_long_options_NoStepBack(l, more) ==
    LET m == Match(l)
    IN  IF m # 0 /\ ~l.eq /\ Table[m].has_arg = "required" /\ ~more
        THEN BadOption(2, EMSG) ELSE BadOption(1, EMSG)

\* more says whether another argument follows.
parse_long_options(l, more) ==
    LET m     == Match(l)
        takes == m # 0 /\ Table[m].has_arg = "required"
        Entry(arg, used) == Found(Table[m].val, m, arg, used, EMSG)
    IN  CASE takes /\ l.eq           -> Entry("attached", 1)
          [] takes /\ ~l.eq /\ more  -> Entry("next", 2)
          [] m # 0 /\ ~takes /\ ~l.eq -> Entry("none", 1)
          [] OTHER                   -> BadOption(1, EMSG)

\* Fault: a letter whose argument is missing is not passed over.
parse_letter_Stays(o, more) ==
    IF Head(o.letters) \in ArgLetters /\ ~more THEN BadOption(0, EMSG)
    ELSE Found(Head(o.letters), 0, "none", 1, EMSG)

\* The letters in getopt_internal.
parse_letter(o, more) ==
    LET h    == Head(o.letters)
        rest == Option(Tail(o.letters), o.long)
        used == IF rest = EMSG THEN 1 ELSE 0
    IN  CASE h \in ArgLetters ->
                IF rest # EMSG THEN Found(h, 0, "attached", 1, EMSG)
                ELSE IF more THEN Found(h, 0, "next", 2, EMSG)
                ELSE BadOption(1, EMSG)
          [] h \in Letters \ ArgLetters -> Found(h, 0, "none", used, rest)
          [] OTHER -> BadOption(used, rest)

ReadOption(o, more) ==
    IF o.letters = <<>> THEN parse_long_options(o.long, more) ELSE parse_letter(o, more)

\* As the caller keeps it: the option came from argument k, and its own
\* argument, if it has one of its own, from argument a.
Result(r, k, a) ==
    [opt |-> r.opt, entry |-> r.entry, from |-> k,
     arg |-> IF r.arg = "next" THEN a ELSE IF r.arg = "attached" THEN k ELSE 0]
==============================================================================
