------------------------------ MODULE QuidCodec ------------------------------
(***************************************************************************)
(* The layout of an identifier: what the constructors of quid.c put into a *)
(* cuuid_t and what the accessors, quid_validate, quid_parse and quid_cmp  *)
(* take out of it.                                                         *)
(*                                                                         *)
(* An unsigned integer is the set of its one bits, so that the masks and   *)
(* exclusive ors of the source are operations on sets; a NULL tag is NoTag.*)
(* The widths of the timestamp's three parts are constants (32, 16 and 12  *)
(* in the source), as is the keystream that chacha.c makes of the time and *)
(* the clock sequence.                                                     *)
(***************************************************************************)
EXTENDS Integers

CONSTANTS LowBits, MidBits, HiBits,  \* widths of time_low, time_mid, time_hi
          MagicBit,                  \* the bit of QUIDMAGIC: 7, for 0x80
          KeyStream(_, _, _),        \* six bytes from time_low and the sequence
          NoTag,                     \* NULL, and "None" as a result of quid_tag
          NotImplemented, Invalid    \* the other strings that quid_tag returns

ASSUME CodecAssumption ==
    /\ LowBits \in Nat \ {0}
    /\ MidBits \in Nat \ {0}
    /\ HiBits \in Nat \ {0}
    /\ MagicBit \in 0..(HiBits - 1)

Byte == SUBSET (0..7)
NodeIndex == 0..5
Node == [NodeIndex -> Byte]
Tag == [0..2 -> Byte]

ASSUME KeyStreamAssumption ==
    \A low \in SUBSET (0..(LowBits - 1)), hi, lo \in Byte : KeyStream(low, hi, lo) \in Node

TimeBits == LowBits + MidBits + HiBits
Timestamp == SUBSET (0..(TimeBits - 1))

Xor(a, b) == (a \ b) \cup (b \ a)

\* width bits of the integer t, from bit first on, and the way back.
Field(t, first, width) == {b \in 0..(width - 1) : first + b \in t}
Place(f, first) == {first + b : b \in f}

------------------------------------------------------------------------------
\* Versions.

QUID_REV4 == {4}           \* 0x10
QUID_REV7 == {1, 4}        \* 0x12

VERSION_REV4 == {HiBits + 1, HiBits + 3}           \* 0xa000
VERSION_REV7 == {HiBits, HiBits + 1, HiBits + 3}   \* 0xb000

QUIDMAGIC == {MagicBit}

\* static const uint8_t padding[3] = {0x12, 0x82, 0x7b}
padding == [i \in 0..2 |-> IF i = 0 THEN {1, 4}
                           ELSE IF i = 1 THEN {1, 7} ELSE {0, 1, 3, 4, 5, 6}]

\* The structure, and the eleven numbers of it that a text shows.
cuuid_t ==
    [time_low : SUBSET (0..(LowBits - 1)),
     time_mid : SUBSET (0..(MidBits - 1)),
     time_hi_and_version : SUBSET (0..(HiBits + 3)),
     clock_seq_hi_and_reserved : Byte,
     clock_seq_low : Byte,
     node : Node,
     version : {{}, QUID_REV4, QUID_REV7}]

PrintedFields ==
    [time_low : SUBSET (0..(LowBits - 1)),
     time_mid : SUBSET (0..(MidBits - 1)),
     time_hi_and_version : SUBSET (0..(HiBits + 3)),
     clock_seq_hi_and_reserved : Byte,
     clock_seq_low : Byte,
     node : Node]

------------------------------------------------------------------------------
\* Constructors.  The timestamp comes from get_current_time, the clock
\* sequence and the random bytes from true_random.

\* Fault: the last byte of the node is left out.
encrypt_node_Short(prekey, preiv1, preiv2, node) ==
    [i \in 0..4 |-> Xor(node[i], KeyStream(prekey, preiv1, preiv2)[i])]

\* The stream cipher's exclusive or, which also decrypts.
encrypt_node(prekey, preiv1, preiv2, node) ==
    [i \in NodeIndex |-> Xor(node[i], KeyStream(prekey, preiv1, preiv2)[i])]

TimeHi(timestamp, version) ==
    Xor(Field(timestamp, LowBits + MidBits, HiBits), QUIDMAGIC) \cup version

\* Fault: the middle part is shifted by one bit too few.
FormatTime_Shift(timestamp, version, seq_hi, seq_low) ==
    [time_low |-> Field(timestamp, 0, LowBits),
     time_mid |-> Field(timestamp, LowBits - 1, MidBits),
     time_hi_and_version |-> TimeHi(timestamp, version),
     clock_seq_hi_and_reserved |-> seq_hi \cup {7},
     clock_seq_low |-> seq_low]

\* The part that the two formats share.
FormatTime(timestamp, version, seq_hi, seq_low) ==
    [time_low |-> Field(timestamp, 0, LowBits),
     time_mid |-> Field(timestamp, LowBits, MidBits),
     time_hi_and_version |-> TimeHi(timestamp, version),
     clock_seq_hi_and_reserved |-> seq_hi \cup {7},
     clock_seq_low |-> seq_low]

\* A cuuid_t of that part, a node and a version.
Quid(time, node, version) ==
    [time_low |-> time.time_low,
     time_mid |-> time.time_mid,
     time_hi_and_version |-> time.time_hi_and_version,
     clock_seq_hi_and_reserved |-> time.clock_seq_hi_and_reserved,
     clock_seq_low |-> time.clock_seq_low,
     node |-> node,
     version |-> version]

\* quid_create_rev4 with format_quid_rev4: the memory seed lends two bytes.
quid_create_rev4(timestamp, clock_seq, rnd0, rnd5, seed, flag, subc) ==
    Quid(FormatTime(timestamp, VERSION_REV4,
                    Field(clock_seq, 8, 6), Field(clock_seq, 0, 8)),
         [i \in NodeIndex |-> CASE i = 0 -> rnd0
                                [] i = 1 -> flag
                                [] i = 2 -> subc
                                [] i = 3 -> seed[3]
                                [] i = 4 -> seed[4]
                                [] OTHER -> rnd5],
         QUID_REV4)

\* A tag is used if none of its bytes is zero.
HasTag(tag) == tag # NoTag /\ \A i \in 0..2 : tag[i] # {}

PlainByte(i, flag, subc, tag) ==
    CASE i = 0 -> QUID_REV7
      [] i = 1 -> flag
      [] i = 2 -> subc
      [] OTHER -> IF HasTag(tag) THEN tag[i - 3] ELSE padding[i - 3]

PlainNode(flag, subc, tag) == [i \in NodeIndex |-> PlainByte(i, flag, subc, tag)]

\* quid_create_rev7 with format_quid_rev7, which keeps four bits (0x4e00) of
\* the upper half of the clock sequence.
quid_create_rev7(timestamp, clock_seq, flag, subc, tag) ==
    LET time == FormatTime(timestamp, VERSION_REV7,
                           Field(clock_seq, 8, 8) \cap {1, 2, 3, 6}, Field(clock_seq, 0, 8))
    IN  Quid(time,
             encrypt_node(time.time_low, time.clock_seq_hi_and_reserved,
                          time.clock_seq_low, PlainNode(flag, subc, tag)),
             QUID_REV7)

------------------------------------------------------------------------------
\* Accessors.

\* The node in the clear.
Decrypted(u) ==
    encrypt_node(u.time_low, u.clock_seq_hi_and_reserved, u.clock_seq_low, u.node)

\* x - v for a constant v that has only bits of the version.  The borrow of a
\* version that x does not hold leaves the 16 bits, so only these four change.
VersionNibble(x) ==
    LET Bit(b) == IF HiBits + b \in x THEN 2^b ELSE 0
    IN  Bit(0) + Bit(1) + Bit(2) + Bit(3)

Minus(x, v) ==
    IF v \subseteq x THEN x \ v
    ELSE {b \in x : b < HiBits} \cup
         {HiBits + b : b \in {c \in 0..3 :
             (((VersionNibble(x) - VersionNibble(v)) % 16) \div 2^c) % 2 = 1}}

\* quid_timeval up to the division into seconds and microseconds.
TimeOf(u) ==
    LET versubtr == CASE u.version = QUID_REV4 -> VERSION_REV4
                      [] u.version = QUID_REV7 -> VERSION_REV7
                      [] OTHER -> {}
    IN  u.time_low
        \cup Place(u.time_mid, LowBits)
        \cup Place(Minus(Xor(u.time_hi_and_version, QUIDMAGIC), versubtr),
                   LowBits + MidBits)

\* The zero that quid_flag and quid_category return for an unknown version.
QUID_ERROR == {}

quid_flag(u) ==
    CASE u.version = QUID_REV4 -> u.node[1]
      [] u.version = QUID_REV7 -> Decrypted(u)[1]
      [] OTHER -> QUID_ERROR

quid_category(u) ==
    CASE u.version = QUID_REV4 -> u.node[2]
      [] u.version = QUID_REV7 -> Decrypted(u)[2]
      [] OTHER -> QUID_ERROR

\* A tag that equals the padding reads as none.
quid_tag(u) ==
    LET node == Decrypted(u)
        tag == [i \in 0..2 |-> node[i + 3]]
    IN  CASE u.version # QUID_REV7 -> NotImplemented
          [] u.version = QUID_REV7 /\ node[0] # QUID_REV7 -> Invalid
          [] u.version = QUID_REV7 /\ node[0] = QUID_REV7 ->
                IF tag = padding THEN NoTag ELSE tag

\* The eleven fields that quid_tostring prints and quid_cmp compares.
Printed(u) ==
    [time_low |-> u.time_low,
     time_mid |-> u.time_mid,
     time_hi_and_version |-> u.time_hi_and_version,
     clock_seq_hi_and_reserved |-> u.clock_seq_hi_and_reserved,
     clock_seq_low |-> u.clock_seq_low,
     node |-> u.node]

quid_cmp(s1, s2) == Printed(s1) = Printed(s2)

\* strtoquid: the fields come from the text, the version stays.
strtoquid(text, u) == Quid(text, text.node, u.version)

\* Fault: only the version that is tried first counts as one.
Genuine_Rev7(u) == u.time_low # {} /\ VERSION_REV7 \subseteq u.time_hi_and_version

\* quid_validate: QUID_OK, and the version it sets.
Genuine(u) == u.time_low # {} /\ VERSION_REV4 \subseteq u.time_hi_and_version

\* Fault: REV4, whose bits REV7 includes, is tried first.
VersionOf_Rev4First(u) ==
    IF VERSION_REV4 \subseteq u.time_hi_and_version THEN QUID_REV4 ELSE QUID_REV7

VersionOf(u) ==
    IF VERSION_REV7 \subseteq u.time_hi_and_version THEN QUID_REV7 ELSE QUID_REV4

quid_validate(u) == IF Genuine(u) THEN [u EXCEPT !.version = VersionOf(u)] ELSE u

------------------------------------------------------------------------------
\* What an identifier is made from, and the property that ties the accessors
\* to the constructors.

Origin(rev, timestamp, flag, subc, t) ==
    [rev |-> rev, timestamp |-> timestamp, flag |-> flag, subc |-> subc, tag |-> t]

Origins ==
    [rev : {QUID_REV4, QUID_REV7}, timestamp : Timestamp, flag : Byte, subc : Byte,
     tag : Tag \cup {NoTag}]

\* The tag that quid_tag gives back for the tag given to a constructor.
TagRead(o) ==
    IF o.rev = QUID_REV4 THEN NotImplemented
    ELSE IF HasTag(o.tag) /\ o.tag # padding THEN o.tag ELSE NoTag

\* The lower 32 bits of the time, which quid_validate expects not to be zero.
LowTime(o) == Field(o.timestamp, 0, LowBits)

\* Two origins that no accessor can tell apart.
SameOrigin(o, r) ==
    /\ o.rev = r.rev
    /\ o.timestamp = r.timestamp
    /\ o.flag = r.flag
    /\ o.subc = r.subc
    /\ TagRead(o) = TagRead(r)

\* The accessors return what u was made from.
ReadsBack(u, o) ==
    /\ u.version = o.rev
    /\ TimeOf(u) = o.timestamp
    /\ quid_flag(u) = o.flag
    /\ quid_category(u) = o.subc
    /\ quid_tag(u) = TagRead(o)
==============================================================================
