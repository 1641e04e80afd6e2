----------------------------- MODULE MCQuidClock -----------------------------
(* Instances of QuidClock for TLC; the cfg files give the numbers.         *)
EXTENDS QuidClock, TLC

ProcSymmetry == Permutations(Procs)
==============================================================================
