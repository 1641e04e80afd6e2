------------------------------ MODULE MCQuidApi ------------------------------
(***************************************************************************)
(* Instances of QuidApi for TLC: timestamps of 2 + 2 + 3 bits, a keystream *)
(* that depends on time and sequence, and the bytes where the cases lie.   *)
(***************************************************************************)
EXTENDS QuidApi

MCKeyStream(low, hi, lo) ==
    [i \in NodeIndex |-> {b \in 0..7 : (b + i) % 3 \in low} \cup
                         (IF 6 \in hi THEN {i} ELSE {}) \cup (lo \cap {7})]

\* Bits in each part of the timestamp, at both ends of each, and none in the
\* lowest; two that differ in one bit.
MCStamps == {{0, 2, 4}, {1, 3, 5, 6}, {1, 5, 6}, {2}}

MCClockSeqs == {0..15}
MCMemSeeds == {[i \in NodeIndex |-> {i}]}
MCFlags == {{}, {0, 7}}
MCSubcs == {{0}}
MCTags == {NoTag, padding, [i \in 0..2 |-> {i}], [i \in 0..2 |-> IF i = 1 THEN {} ELSE {5}]}

Text(low, nibble) ==
    [time_low |-> low, time_mid |-> {0},
     time_hi_and_version |-> {1} \cup {HiBits + b : b \in nibble},
     clock_seq_hi_and_reserved |-> {7}, clock_seq_low |-> {},
     node |-> [i \in NodeIndex |-> {i}]]

\* REV4, REV7, no version, no time, and the version bits 0xf.
MCUserTexts == {Text({0}, {1, 3}), Text({0}, {0, 1, 3}), Text({0}, {0, 1}),
                Text({}, {0, 1, 3}), Text({1}, 0..3)}
==============================================================================
