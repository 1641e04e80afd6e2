---------------------------- MODULE MCQuidGetopt ----------------------------
(***************************************************************************)
(* An instance of QuidGetopt for TLC: the options of quidutil.c, all       *)
(* command lines of up to three arguments of the kinds that make a         *)
(* difference, and all of seven words and simple options.                  *)
(***************************************************************************)
EXTENDS QuidGetopt

\* long_options of main.
Entry(has_arg, val) == [has_arg |-> has_arg, val |-> val]
MCTable ==
    <<Entry("required", "0"),                       \* category
      Entry("no", "0"), Entry("no", "0"),           \* set-safe, set-master
      Entry("no", "0"), Entry("no", "0"),           \* set-public, set-sign
      Entry("no", "0"), Entry("no", "0"),           \* set-tag, set-strict
      Entry("no", "0"),                             \* list-categories
      Entry("required", "0"), Entry("required", "0"),  \* rev, tag
      Entry("required", "0"), Entry("required", "0"),  \* rand-seed, memory-seed
      Entry("no", "x"), Entry("no", "i"),           \* output-hex, output-number
      Entry("no", "V"), Entry("no", "v"), Entry("no", "h")>>  \* verbose to help

Rev(eq) == Long({9}, 9, eq)
Bare(long) == Option(<<>>, long)

MCArguments ==
    {Word, DashDash,
     Option(<<"q">>, NoLong), Option(<<"q", "x">>, NoLong),
     Option(<<"c">>, NoLong), Option(<<"q", "c">>, Rev(FALSE)),
     Option(<<"z">>, Rev(FALSE)),
     Bare(Rev(TRUE)), Bare(Rev(FALSE)),
     Bare(Long({2, 5, 7}, 0, FALSE)),    \* --set-s
     Bare(Long({15, 16}, 0, FALSE)),     \* --ver
     Bare(Long({}, 0, FALSE)),           \* unknown
     Bare(Long({2}, 2, TRUE))}           \* --set-safe=1

MCLines == UNION {[1..n -> MCArguments] : n \in 0..3} \cup
           [1..7 -> {Word, Option(<<"q">>, NoLong), Option(<<"c">>, NoLong)}]

=============================================================================
