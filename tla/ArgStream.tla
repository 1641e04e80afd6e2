------------------------------ MODULE ArgStream ------------------------------
(***************************************************************************)
(* What getopt_long promises: the arguments are read once, from the first  *)
(* to the last; options are returned in their order, and the words between *)
(* them, and all behind "--", are the operands, in theirs.                 *)
(***************************************************************************)
EXTENDS OptionTable

CONSTANT Lines   \* the command lines: sequences of arguments

VARIABLES line,      \* the arguments
          posix,     \* does the first word end the options?
          next,      \* the argument to be read
          place,     \* what is left of it
          operands,  \* arguments kept for the end
          results,   \* options returned
          done

svars == <<line, posix, next, place, operands, results, done>>

From(k) == [j \in 1..(Len(line) + 1 - k) |-> k + j - 1]

SInit ==
    /\ line \in Lines /\ posix \in BOOLEAN
    /\ next = 1
    /\ place = EMSG
    /\ operands = <<>>
    /\ results = <<>>
    /\ done = FALSE

Fresh == ~done /\ place = EMSG

Finish(k) ==
    /\ done' = TRUE
    /\ operands' = operands \o From(k)
    /\ UNCHANGED <<line, posix, place, results>>

SWord ==
    /\ Fresh /\ next <= Len(line) /\ line[next] = Word /\ ~posix
    /\ next' = next + 1
    /\ operands' = Append(operands, next)
    /\ UNCHANGED <<line, posix, place, results, done>>

SOption ==
    /\ ~done
    /\ place = EMSG => next <= Len(line) /\ line[next].kind = "option"
    /\ LET r == ReadOption(IF place = EMSG THEN line[next] ELSE place, next < Len(line))
       IN  /\ results' = Append(results, Result(r, next, next + 1))
           /\ next' = next + r.used
           /\ place' = r.place
    /\ UNCHANGED <<line, posix, operands, done>>

SEnd ==
    /\ Fresh
    /\ \/ next > Len(line) /\ Finish(next)
       \/ next <= Len(line) /\ line[next] = Word /\ posix /\ Finish(next)
       \/ next <= Len(line) /\ line[next] = DashDash /\ Finish(next + 1)
    /\ next' = Len(line) + 1

SNext == SWord \/ SOption \/ SEnd

SSpec == SInit /\ [][SNext]_svars /\ WF_svars(SNext)
==============================================================================
