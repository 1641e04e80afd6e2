------------------------------ MODULE QuidCreate ------------------------------
(***************************************************************************)
(* Processes that make identifiers with quid_create: get_current_time of   *)
(* QuidClock composed with the constructors of QuidCodec.                  *)
(*                                                                         *)
(* A call enters get_current_time, may wait there, and leaves it with a    *)
(* timestamp.  What follows touches only the caller's own memory (and the  *)
(* seed file, whose races QuidMemSeed has), so it is part of the step that *)
(* returns the timestamp.  A process that is run again starts with fresh   *)
(* statics: it is one more member of Procs.                                *)
(*                                                                         *)
(* The results of true_random and get_memory_seed are sets.  On x86-64     *)
(* the conversion of a double beyond the range of uint16_t leaves zero, so *)
(* that RandomValues has one member there; elsewhere it may have others.   *)
(***************************************************************************)
EXTENDS QuidClock, QuidCodec

CONSTANTS Bits(_),       \* the bits of a timestamp
          RandomValues,  \* 16-bit results of true_random
          MemSeeds,      \* results of get_memory_seed
          Revs,          \* versions the caller sets before quid_create
          Flags, Subcs, Tags,
          NoRequest      \* no call of quid_create is under way

ASSUME CreateAssumption ==
    /\ RandomValues \subseteq SUBSET (0..15)
    /\ MemSeeds \subseteq Node
    /\ Revs \subseteq {QUID_REV4, QUID_REV7}
    /\ Flags \subseteq Byte /\ Subcs \subseteq Byte
    /\ Tags \subseteq Tag \cup {NoTag}

\* The timestamps of the modelled time fit into an identifier.
ASSUME BitsAssumption ==
    \A m, n \in 0..(MaxClock * Resolution + UIDS_PER_TICK) :
        /\ Bits(m) \in Timestamp
        /\ Bits(m) = Bits(n) => m = n

Requests == [rev : Revs, flag : Flags, subc : Subcs, tag : Tags]

VARIABLES request,  \* the arguments of the call that each process is in
          made      \* the identifiers of each process, with what was requested

createVars == <<vars, request, made>>

CreateInit ==
    /\ Init
    /\ request = [p \in Procs |-> NoRequest]
    /\ made = [p \in Procs |-> <<>>]

\* quid_create dispatches on the requested version and asks for the time.
Ask(p) ==
    /\ Enter(p)
    /\ \E r \in Requests : request' = [request EXCEPT ![p] = r]
    /\ UNCHANGED made

Created(r, stamp, seq, rnd0, rnd5, seed) ==
    IF r.rev = QUID_REV4
    THEN quid_create_rev4(Bits(stamp), seq, Field(rnd0, 0, 8), Field(rnd5, 0, 8),
                          seed, r.flag, r.subc)
    ELSE quid_create_rev7(Bits(stamp), seq, r.flag, r.subc, r.tag)

\* The loop of get_current_time ends, and the identifier is made.
Finish(p) ==
    /\ NewTick(p) \/ SameTick(p)
    /\ \E seq, rnd0, rnd5 \in RandomValues, seed \in MemSeeds :
          made' = [made EXCEPT ![p] = Append(@,
                     [id |-> Created(request[p], stamps'[p][Len(stamps'[p])],
                                     seq, rnd0, rnd5, seed),
                      request |-> request[p]])]
    /\ request' = [request EXCEPT ![p] = NoRequest]

CreateNext ==
    \/ (Tick \/ StepBack \/ Horizon) /\ UNCHANGED <<request, made>>
    \/ \E p \in Procs :
          \/ Ask(p)
          \/ Finish(p)
          \/ Spin(p) /\ UNCHANGED <<request, made>>

CreateSpec == CreateInit /\ [][CreateNext]_createVars

------------------------------------------------------------------------------
\* Properties.

CreateTypeOK ==
    /\ request \in [Procs -> Requests \cup {NoRequest}]
    /\ made \in [Procs -> Seq([id : cuuid_t, request : Requests])]

\* What the i-th identifier of p was made from.
OriginOf(p, i) ==
    LET r == made[p][i].request
    IN  Origin(r.rev, Bits(stamps[p][i]), r.flag, r.subc,
               IF r.rev = QUID_REV4 THEN NoTag ELSE r.tag)

\* As long as nobody sets the clock back, a process never makes the same
\* identifier twice, whatever versions, flags and tags it asks quid_create for
\* and however its calls fall on the ticks.
ProcessIdsDiffer ==
    stepBacks = 0 =>
        \A p \in Procs : \A i, j \in 1..Len(made[p]) :
            i < j => ~quid_cmp(made[p][i].id, made[p][j].id)

\* Two processes make the same identifier only if get_current_time gave both
\* the same timestamp and both asked for the same version, flag, category
\* and tag, also when the clock is set back.
SameIdSameOrigin ==
    \A p, q \in Procs : \A i \in 1..Len(made[p]), j \in 1..Len(made[q]) :
        quid_cmp(made[p][i].id, made[q][j].id)
        => stamps[p][i] = stamps[q][j] /\ SameOrigin(OriginOf(p, i), OriginOf(q, j))

\* The README: "a globally unique number representing an object or subject".
GloballyUnique ==
    stepBacks = 0 =>
        \A p, q \in Procs : \A i \in 1..Len(made[p]), j \in 1..Len(made[q]) :
            p # q => ~quid_cmp(made[p][i].id, made[q][j].id)
==============================================================================
