------------------------------ MODULE QuidText ------------------------------
(***************************************************************************)
(* Identifiers as texts: the three formats in which quidutil.c prints one  *)
(* and what quid_parse of quid.c makes of a text.                          *)
(*                                                                         *)
(* A field of an identifier is a number and a text a sequence of           *)
(* characters.  A character is a digit, 0 to 15, or one of the marks that  *)
(* strip_special_chars takes out.                                          *)
(***************************************************************************)
EXTENDS Integers, Sequences, SequencesExt

CONSTANT Widths   \* hexadecimal digits of each field:
                  \* 8, 4, 4, then 2 for the sequence's and the node's bytes

ASSUME WidthsAssumption == Widths \in Seq(Nat \ {0}) /\ Len(Widths) > 5

FieldIndex == 1..Len(Widths)

\* The fields by name.
TimeLow == 1
TimeHiAndVersion == 3
ClockSeqHi == 4

Dash == 16
Open == 17
Close == 18
Space == 19

\* v without its last n digits.
Shifted(base, v, n) ==
    LET s[k \in 0..n] == IF k = 0 THEN v ELSE s[k - 1] \div base
    IN  s[n]

\* The last n digits of v.
Places(base, v, n) == [k \in 1..n |-> Shifted(base, v, n - k) % base]

\* The digits of v: one at least, and without leading zeros.
NumDigits(base, v) ==
    CHOOSE n \in 1..(v + 1) : /\ Shifted(base, v, n) = 0
                              /\ n > 1 => Shifted(base, v, n - 1) # 0

Digits(base, v) == Places(base, v, NumDigits(base, v))

\* As many as w asks for, or more.
Padded(w, v) ==
    LET n == NumDigits(16, v)
    IN  Places(16, v, IF n < w THEN w ELSE n)

------------------------------------------------------------------------------
\* Formats.  quid_print_file_hex and quid_print_file_dec print the fields one
\* after the other, and no leading zeros of any.
HexText(u) == FlattenSeq([k \in FieldIndex |-> Digits(16, u[k])])

DecText(u) == FlattenSeq([k \in FieldIndex |-> Digits(10, u[k])])

\* quid_print_file_hex_bracket pads all fields but the upper half of the clock
\* sequence.
BracketText(u) ==
    LET Shown(k) == IF k = ClockSeqHi THEN Digits(16, u[k]) ELSE Padded(Widths[k], u[k])
    IN  <<Open>> \o FlattenSeq([k \in FieldIndex |->
            Shown(k) \o (IF k \in {1, 2, 3, 5} THEN <<Dash>> ELSE <<>>)]) \o <<Close>>

quid_print_file(u, format) ==
    CASE format = "hex" -> HexText(u)
      [] format = "dec" -> DecText(u)
      [] OTHER          -> BracketText(u)

------------------------------------------------------------------------------
\* quid_parse.

Marks == {Dash, Open, Close, Space}

strip_special_chars(s) ==
    LET kept[k \in 0..Len(s)] ==
            IF k = 0 THEN <<>>
            ELSE IF s[k] \in Marks THEN kept[k - 1] ELSE Append(kept[k - 1], s[k])
    IN  kept[Len(s)]

\* The digits of the first n fields: where the next one begins, and QUID_LEN.
Offset(n) ==
    LET o[k \in 0..n] == IF k = 0 THEN 0 ELSE o[k - 1] + Widths[k]
    IN  o[n]

QUID_LEN == Offset(Len(Widths))

\* The number that digits make, strtol with base 16.
ValueOf(digits) ==
    LET v[k \in 0..Len(digits)] == IF k = 0 THEN 0 ELSE 16 * v[k - 1] + digits[k]
    IN  v[Len(digits)]

strtoquid(s) ==
    [k \in FieldIndex |-> ValueOf(SubSeq(s, Offset(k - 1) + 1, Offset(k)))]

\* The four bits above time_hi, and the versions quid_validate finds in them:
\* those of 0xb are in 0xb and 0xf, those of 0xa in 0xa and 0xe as well.
VersionBits(u) == Shifted(16, u[TimeHiAndVersion], Widths[TimeHiAndVersion] - 1)

quid_validate(u) == u[TimeLow] # 0 /\ VersionBits(u) \in {10, 11, 14, 15}

VersionOf(u) == IF VersionBits(u) \in {11, 15} THEN 7 ELSE 4

\* Fault: the text may be too short, and ends a field early.
Accepts_Short(s) ==
    LET t == strip_special_chars(s)
    IN  /\ Len(t) <= QUID_LEN
        /\ \A j \in 1..Len(t) : t[j] \in 0..15
        /\ quid_validate(strtoquid([j \in 1..(QUID_LEN - Len(t)) |-> 0] \o t))

\* quid_parse returns QUID_OK.
Accepts(s) ==
    LET t == strip_special_chars(s)
    IN  /\ Len(t) = QUID_LEN
        /\ \A j \in 1..Len(t) : t[j] \in 0..15    \* ishex
        /\ quid_validate(strtoquid(t))

\* The fields of a text that it accepts.
quid_parse(s) ==
    LET t == strip_special_chars(s)
    IN  strtoquid([j \in 1..(QUID_LEN - Len(t)) |-> 0] \o t)
==============================================================================
