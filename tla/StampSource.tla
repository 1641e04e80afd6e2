----------------------------- MODULE StampSource -----------------------------
(***************************************************************************)
(* What get_current_time promises its caller.  As long as nobody sets the  *)
(* clock back, every process receives a series of timestamps, each later   *)
(* than all those it received before; afterwards a timestamp still differs *)
(* from the one before it.  Nothing is promised about the timestamps of    *)
(* two processes.                                                          *)
(***************************************************************************)
EXTENDS Naturals, Sequences

CONSTANTS Procs,    \* the processes that use the library
          Stamps    \* the timestamps that can be issued

VARIABLES stamps,   \* stamps[p]: the timestamps p received, oldest first
          steady    \* nobody has set the clock back yet

Init ==
    /\ stamps = [p \in Procs |-> <<>>]
    /\ steady = TRUE

Issue(p, t) ==
    /\ steady => \A i \in 1..Len(stamps[p]) : stamps[p][i] < t
    /\ stamps[p] # <<>> => stamps[p][Len(stamps[p])] # t
    /\ stamps' = [stamps EXCEPT ![p] = Append(@, t)]
    /\ UNCHANGED steady

SetBack ==
    /\ steady' = FALSE
    /\ UNCHANGED stamps

Next == SetBack \/ \E p \in Procs, t \in Stamps : Issue(p, t)

Spec == Init /\ [][Next]_<<stamps, steady>>
==============================================================================
