----------------------------- MODULE MCQuidMemSeed -----------------------------
(* Instances of QuidMemSeed for TLC; the cfg files give the numbers.       *)
EXTENDS QuidMemSeed

SomeCycles == {-1, 0, 2}

NobodyOrOne == {{}, {CHOOSE p \in Procs : TRUE}}
==============================================================================
