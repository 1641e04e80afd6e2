----------------------------- MODULE MCQuidCreate -----------------------------
(* Instances of QuidCreate for TLC: timestamps of five or six bits,        *)
(* which hold all times that the bounds allow.                             *)
EXTENDS QuidCreate, TLC

ProcSymmetry == Permutations(Procs)

MCBits(n) == {b \in 0..(TimeBits - 1) : (n \div 2^b) % 2 = 1}

MCKeyStream(low, hi, lo) ==
    [i \in NodeIndex |-> {b \in 0..7 : (b + i) % 3 \in low} \cup
                         (IF 6 \in hi THEN {i} ELSE {}) \cup (lo \cap {7})]

\* What true_random returns on x86-64.
NoRandom == {{}}
OneSeed == {[i \in NodeIndex |-> {i}]}
BothRevs == {QUID_REV4, QUID_REV7}
OneFlag == {{0, 7}}
OneSubc == {{0}}
NoTags == {NoTag}
==============================================================================
