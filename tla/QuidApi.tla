------------------------------- MODULE QuidApi -------------------------------
(***************************************************************************)
(* A program that calls the library on its own cuuid_t structures and on a *)
(* string: any sequence of quid_create, quid_create_rev4 and _rev7,        *)
(* quid_tostring, quid_parse, quid_validate and quid_tag, with the         *)
(* structures used again and again.                                        *)
(*                                                                         *)
(* origin records what an identifier was made from.  It goes with the      *)
(* identifier through quid_tostring and quid_parse, and is what the        *)
(* accessors are expected to give back.                                    *)
(***************************************************************************)
EXTENDS QuidCodec

CONSTANTS Slots,       \* the program's structures
          Stamps,      \* timestamps that get_current_time returns
          ClockSeqs,   \* 16-bit results of true_random
          MemSeeds,    \* results of get_memory_seed
          Flags, Subcs, Tags,  \* arguments of the constructors
          UserTexts,   \* printed fields of texts from elsewhere
          NDEBUG,      \* are the assertions compiled out?
          NoOrigin     \* not, or not known to be, an identifier of ours

ASSUME ApiAssumption ==
    /\ Stamps \subseteq Timestamp
    /\ ClockSeqs \subseteq SUBSET (0..15)
    /\ MemSeeds \subseteq Node
    /\ Flags \subseteq Byte /\ Subcs \subseteq Byte
    /\ Tags \subseteq Tag \cup {NoTag}
    /\ {NoTag, NotImplemented, Invalid} \cap Tag = {}
    /\ UserTexts \subseteq PrintedFields
    /\ NDEBUG \in BOOLEAN

VARIABLES slot,    \* cuuid_t structures of the caller
          origin,  \* what each of them was made from, or NoOrigin
          text,    \* the caller's string
          tag,     \* static char tag[3] of quid_tag
          failed   \* the assertion that has ended the program, or "none"

vars == <<slot, origin, text, tag, failed>>

ZeroNode == [i \in NodeIndex |-> {}]
Cleared == [time_low |-> {}, time_mid |-> {}, time_hi_and_version |-> {},
            clock_seq_hi_and_reserved |-> {}, clock_seq_low |-> {},
            node |-> ZeroNode, version |-> {}]

\* A text is made of the fields it shows.  It is full with braces and dashes,
\* bare without, and malformed if its length or a digit is wrong.
Malformed == [shape |-> "malformed", fields |-> Printed(Cleared), origin |-> NoOrigin]

Init ==
    /\ slot = [s \in Slots |-> Cleared]
    /\ origin = [s \in Slots |-> NoOrigin]
    /\ text = Malformed
    /\ tag = [i \in 0..2 |-> {}]
    /\ failed = "none"

------------------------------------------------------------------------------
\* The caller sets the version of a structure, as the tests and quid do, or
\* clears it, as the direct constructors require.
SetVersion(s, v) ==
    /\ slot' = [slot EXCEPT ![s].version = v]
    /\ origin' = [origin EXCEPT ![s] = NoOrigin]
    /\ UNCHANGED <<text, tag, failed>>

Clear(s) ==
    /\ slot' = [slot EXCEPT ![s] = Cleared]
    /\ origin' = [origin EXCEPT ![s] = NoOrigin]
    /\ UNCHANGED <<text, tag, failed>>

\* assert(memvcmp(uid, '\0', sizeof(cuuid_t))) of the direct constructors and
\* assert(prekey) of encrypt_node.
MayFill(s) == NDEBUG \/ slot[s] = Cleared
MayEncrypt(low) == NDEBUG \/ low # {}

MakeRev4(s, flag, subc) ==
    \E timestamp \in Stamps, seq, rnd0, rnd5 \in ClockSeqs, seed \in MemSeeds :
        /\ slot' = [slot EXCEPT ![s] =
                       quid_create_rev4(timestamp, seq, Field(rnd0, 0, 8),
                                        Field(rnd5, 0, 8), seed, flag, subc)]
        /\ origin' = [origin EXCEPT ![s] = Origin(QUID_REV4, timestamp, flag, subc, NoTag)]

MakeRev7(s, flag, subc, t) ==
    \E timestamp \in Stamps, seq \in ClockSeqs :
        /\ MayEncrypt(Field(timestamp, 0, LowBits))
        /\ slot' = [slot EXCEPT ![s] = quid_create_rev7(timestamp, seq, flag, subc, t)]
        /\ origin' = [origin EXCEPT ![s] = Origin(QUID_REV7, timestamp, flag, subc, t)]

CreateRev4(s, flag, subc) ==
    /\ MayFill(s)
    /\ MakeRev4(s, flag, subc)
    /\ UNCHANGED <<text, tag, failed>>

CreateRev7(s, flag, subc, t) ==
    /\ MayFill(s)
    /\ MakeRev7(s, flag, subc, t)
    /\ UNCHANGED <<text, tag, failed>>

\* quid_create clears the structure and dispatches on the version it held.
Create(s, flag, subc, t) ==
    /\ IF slot[s].version = QUID_REV4
       THEN MakeRev4(s, flag, subc)
       ELSE MakeRev7(s, flag, subc, t)
    /\ UNCHANGED <<text, tag, failed>>

\* An assertion fails and abort() ends the program: a direct constructor is
\* given a structure that is not empty,
AbortFill(s) ==
    /\ ~MayFill(s)
    /\ failed' = "structure"
    /\ UNCHANGED <<slot, origin, text, tag>>

\* quid_create draws a time whose lower part is zero,
AbortCreate(s) ==
    /\ slot[s].version # QUID_REV4
    /\ \E timestamp \in Stamps : ~MayEncrypt(Field(timestamp, 0, LowBits))
    /\ failed' = "created"
    /\ UNCHANGED <<slot, origin, text, tag>>

\* or an accessor is given a REV7 structure with such a time.
AbortRead(s) ==
    /\ slot[s].version = QUID_REV7
    /\ ~MayEncrypt(slot[s].time_low)
    /\ failed' = "read"
    /\ UNCHANGED <<slot, origin, text, tag>>

------------------------------------------------------------------------------
\* quid_tostring
WriteText(s) ==
    /\ text' = [shape |-> "full", fields |-> Printed(slot[s]), origin |-> origin[s]]
    /\ UNCHANGED <<slot, origin, tag, failed>>

\* The caller gets a text from elsewhere.
UserText ==
    /\ \/ text' = Malformed
       \/ \E u \in UserTexts :
             text' = [shape |-> "full", fields |-> u, origin |-> NoOrigin]
    /\ UNCHANGED <<slot, origin, tag, failed>>

\* quid_parse: QUID_ERROR before anything is written,
ParseMalformed(s) ==
    /\ text.shape = "malformed"
    /\ UNCHANGED vars

\* or after the caller's text and all fields but the version were.
Parse(s) ==
    /\ text.shape # "malformed"
    /\ text' = [text EXCEPT !.shape = "bare"]
    /\ LET u == strtoquid(text.fields, slot[s])
       IN  /\ slot' = [slot EXCEPT ![s] = quid_validate(u)]
           /\ origin' = [origin EXCEPT ![s] = IF Genuine(u) THEN text.origin ELSE NoOrigin]
    /\ UNCHANGED <<tag, failed>>

Validate(s) ==
    /\ slot' = [slot EXCEPT ![s] = quid_validate(@)]
    /\ UNCHANGED <<origin, text, tag, failed>>

\* quid_tag copies the tag to its static buffer where there is one.
ReadTag(s) ==
    /\ slot[s].version = QUID_REV7 => MayEncrypt(slot[s].time_low)
    /\ tag' = IF quid_tag(slot[s]) \in {NotImplemented, Invalid, NoTag}
              THEN tag ELSE quid_tag(slot[s])
    /\ UNCHANGED <<slot, origin, text, failed>>

Step(s) ==
    \/ \E v \in {QUID_REV4, QUID_REV7} : SetVersion(s, v)
    \/ Clear(s)
    \/ \E flag \in Flags, subc \in Subcs :
          \/ CreateRev4(s, flag, subc)
          \/ \E t \in Tags : CreateRev7(s, flag, subc, t) \/ Create(s, flag, subc, t)
    \/ AbortFill(s) \/ AbortCreate(s) \/ AbortRead(s)
    \/ WriteText(s)
    \/ ParseMalformed(s)
    \/ Parse(s)
    \/ Validate(s)
    \/ ReadTag(s)

Next == failed = "none" /\ (UserText \/ \E s \in Slots : Step(s))

Spec == Init /\ [][Next]_vars

------------------------------------------------------------------------------
\* Properties.

TypeOK ==
    /\ slot \in [Slots -> cuuid_t]
    /\ origin \in [Slots -> Origins \cup {NoOrigin}]
    /\ text \in [shape : {"full", "bare", "malformed"}, fields : PrintedFields,
                origin : Origins \cup {NoOrigin}]
    /\ tag \in Tag
    /\ failed \in {"none", "structure", "created", "read"}

\* An identifier keeps its version, creation time, flag, category and tag
\* however it is printed, parsed and validated again: the version that
\* quid_validate finds in the printed time selects the right reading, and
\* encryption and magic are undone.
OriginReadsBack ==
    \A s \in Slots : origin[s] # NoOrigin => ReadsBack(slot[s], origin[s])

\* Identifiers that quid_cmp takes for equal, and an identifier and a text that
\* it takes for equal once strtoquid has read the text, were made from the
\* same version, time, flag, category and (as quid_tag reads it) tag.
EqualMeansSameOrigin ==
    \A s \in Slots : origin[s] # NoOrigin =>
        /\ \A other \in Slots :
              origin[other] # NoOrigin /\ quid_cmp(slot[s], slot[other])
              => SameOrigin(origin[s], origin[other])
        /\ text.origin # NoOrigin /\ quid_cmp(slot[s], strtoquid(text.fields, slot[s]))
           => SameOrigin(origin[s], text.origin)

\* quid_validate and quid_parse take an identifier of the library for one,
\* however it was printed and parsed before, unless the lower 32 bits of its time
\* are zero ("Time lowerbound can *never* be 0", says quid_validate: once in
\* seven minutes it is).
RejectedOnlyForZeroTime ==
    /\ \A s \in Slots :
          origin[s] # NoOrigin => (Genuine(slot[s]) <=> LowTime(origin[s]) # {})
    /\ text.origin # NoOrigin => (Genuine(text.fields) <=> LowTime(text.origin) # {})
==============================================================================
