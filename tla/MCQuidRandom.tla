----------------------------- MODULE MCQuidRandom -----------------------------
(* Instances of QuidRandom for TLC; the cfg files give the numbers.        *)
EXTENDS QuidRandom

AllCycles == Int32
==============================================================================
