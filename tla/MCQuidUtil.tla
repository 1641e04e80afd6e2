----------------------------- MODULE MCQuidUtil -----------------------------
(***************************************************************************)
(* An instance of QuidUtil for TLC: a maker that uses all options, and a   *)
(* second process that appends to the same file or checks what the first   *)
(* has printed.                                                            *)
(***************************************************************************)
EXTENDS QuidUtil, TLC

CONSTANTS maker, other, log, dir, old, abc, long

MCWidths == <<2, 1, 1, 2, 2, 2, 2>>

\* The node holds the flags, and the category with the tag.
MCReading(u) ==
    [version |-> VersionOf(u), flag |-> {b \in 0..6 : (u[6] \div 2^b) % 2 = 1},
     cat |-> u[7] % 16, tag |-> IF u[7] < 16 THEN NoTag ELSE abc]

\* Times that are zero, and that have one or two digits; short and long
\* clock sequences; the flags, categories and tags of the command lines.
MCFields ==
    {<<37, 11, 10, 128, 7, 33, 2>>, <<37, 11, 11, 128, 7, 33, 2>>,
     <<5, 11, 10, 131, 7, 33, 2>>, <<5, 11, 10, 131, 7, 2, 1>>,
     <<37, 11, 11, 128, 7, 64, 18>>, <<37, 11, 11, 128, 23, 64, 18>>,
     <<37, 11, 11, 128, 23, 64, 1>>,
     <<0, 11, 11, 133, 23, 0, 1>>, <<37, 11, 11, 133, 7, 0, 1>>}

O(name, value) == [name |-> name, value |-> value]
Run(options) == [options |-> options, operands |-> 0]
Check(k) == [options |-> <<O("verbose", 0)>>, operands |-> k]
Both(m, o) == maker :> m @@ other :> o

Log(options) == Run(<<O("output", log)>> \o options)

MCCommandLines ==
    {Both(Run(<<O("rev", 4), O("set_public", 0), O("set_tag", 0), O("category", 2),
                O("count", 2)>>), Check(2)),
     Both(Run(<<O("rev", 4), O("rev", 7), O("tag", abc), O("set_strict", 0),
                O("category", 258), O("hex", 0), O("delay", 5)>>), Check(1)),
     Both(Run(<<O("number", 0), O("delay", 1000), O("count", 2)>>), Check(1)),
     Both(Run(<<O("count", -1)>>), Run(<<O("rev", 5)>>)),
     Both(Run(<<O("count", 2), O("silent", 0)>>), Run(<<O("tag", long)>>)),
     Both(Log(<<O("rev", 4), O("set_safe", 0), O("count", 2), O("delay", 5)>>),
          Log(<<O("count", 2), O("set_strict", 0)>>)),
     Both(Log(<<O("category", 0)>>), Run(<<O("output", dir)>>)),
     Both(Run(<<O("output", old)>>), Run(<<O("help", 0), O("rev", 5)>>))}

\* A line with a tag is checked by a process that was also told to set a flag.
TaggedLine ==
    {Both(Run(<<O("tag", abc), O("set_strict", 0), O("category", 258)>>),
          [options |-> <<O("set_public", 0), O("verbose", 0)>>, operands |-> 1])}

MCInitialFiles == log :> Absent @@ dir :> Directory @@ old :> <<Old>>

\* A bad version, a text too short, and an identifier from elsewhere behind a space.
MCUserTexts ==
    {BracketText(<<37, 11, 3, 128, 7, 0, 1>>), <<Open, 1, Dash, 2, Close>>,
     <<Space>> \o BracketText(<<37, 11, 15, 128, 7, 0, 1>>)}
=============================================================================
