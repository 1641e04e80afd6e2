--------------------------- MODULE QuidCodec_proofs ---------------------------
(***************************************************************************)
(* Theorems about the layout of identifiers, for every width of the parts  *)
(* of the timestamp, every keystream and every argument.                   *)
(***************************************************************************)
EXTENDS QuidCodec, TLAPS

\* Encrypting twice is the identity, whatever the keystream.
LEMMA XorTwice == \A a, b : Xor(Xor(a, b), b) = a
BY DEF Xor

LEMMA EncryptTwice ==
    ASSUME NEW prekey, NEW hi, NEW lo, NEW node \in Node
    PROVE  encrypt_node(prekey, hi, lo, encrypt_node(prekey, hi, lo, node)) = node
<1> DEFINE once == encrypt_node(prekey, hi, lo, node)
           twice == encrypt_node(prekey, hi, lo, once)
<1>1. \A i \in NodeIndex : once[i] = Xor(node[i], KeyStream(prekey, hi, lo)[i])
    BY DEF encrypt_node
<1>2. \A i \in NodeIndex : twice[i] = Xor(once[i], KeyStream(prekey, hi, lo)[i])
    BY DEF encrypt_node
<1>3. \A i \in NodeIndex : twice[i] = node[i]
    BY <1>1, <1>2, XorTwice
<1>4. twice = [i \in NodeIndex |-> twice[i]] /\ node = [i \in NodeIndex |-> node[i]]
    BY DEF encrypt_node, Node
<1> QED BY <1>3, <1>4

LEMMA EncryptIsNode ==
    ASSUME NEW low \in SUBSET (0..(LowBits - 1)), NEW hi \in Byte, NEW lo \in Byte,
           NEW node \in Node
    PROVE  encrypt_node(low, hi, lo, node) \in Node
<1>1. KeyStream(low, hi, lo) \in Node
    BY KeyStreamAssumption
<1>2. \A i \in NodeIndex : Xor(node[i], KeyStream(low, hi, lo)[i]) \in Byte
    BY <1>1 DEF Xor, Byte, Node
<1> QED BY <1>2 DEF encrypt_node, Node

\* Three fields side by side make up the number they were cut from.
LEMMA FieldsMakeUp ==
    ASSUME NEW t \in Timestamp
    PROVE  Field(t, 0, LowBits)
             \cup Place(Field(t, LowBits, MidBits), LowBits)
             \cup Place(Field(t, LowBits + MidBits, HiBits), LowBits + MidBits) = t
<1> DEFINE lo == Field(t, 0, LowBits)
           mi == Place(Field(t, LowBits, MidBits), LowBits)
           hi == Place(Field(t, LowBits + MidBits, HiBits), LowBits + MidBits)
<1> USE CodecAssumption
<1>1. lo = {b \in t : b < LowBits}
    <2>1. \A b \in Int : 0 + b = b
        OBVIOUS
    <2>2. \A b \in t : b \in Int /\ 0 <= b
        BY DEF Timestamp, TimeBits
    <2>3. lo = {b \in 0..(LowBits - 1) : b \in t}
        BY <2>1 DEF Field
    <2> QED BY <2>2, <2>3
<1>2. mi = {b \in t : LowBits <= b /\ b < LowBits + MidBits}
    <2>1. ASSUME NEW b \in mi PROVE b \in t /\ LowBits <= b /\ b < LowBits + MidBits
        BY <2>1 DEF Field, Place
    <2>2. ASSUME NEW b \in t, LowBits <= b, b < LowBits + MidBits PROVE b \in mi
        <3>1. b \in Int
            BY DEF Timestamp, TimeBits
        <3>2. b - LowBits \in 0..(MidBits - 1) /\ LowBits + (b - LowBits) = b
            BY <2>2, <3>1
        <3> QED BY <3>2 DEF Field, Place
    <2> QED BY <2>1, <2>2
<1>3. hi = {b \in t : LowBits + MidBits <= b}
    <2>1. ASSUME NEW b \in hi PROVE b \in t /\ LowBits + MidBits <= b
        BY <2>1 DEF Field, Place
    <2>2. ASSUME NEW b \in t, LowBits + MidBits <= b PROVE b \in hi
        <3>1. b \in Int /\ b <= TimeBits - 1
            BY DEF Timestamp, TimeBits
        <3>2. /\ b - (LowBits + MidBits) \in 0..(HiBits - 1)
              /\ (LowBits + MidBits) + (b - (LowBits + MidBits)) = b
            BY <2>2, <3>1 DEF TimeBits
        <3> QED BY <3>2 DEF Field, Place
    <2> QED BY <2>1, <2>2
<1>4. \A b \in t : b \in Int
    BY DEF Timestamp, TimeBits
<1>5. lo \cup mi \cup hi = t
    BY <1>1, <1>2, <1>3, <1>4
<1> QED BY <1>5

\* Magic and version are undone by the subtraction of quid_timeval.
LEMMA TimeHiUndone ==
    ASSUME NEW hi \in SUBSET (0..(HiBits - 1)),
           NEW v \in {VERSION_REV4, VERSION_REV7}
    PROVE  Minus(Xor(Xor(hi, QUIDMAGIC) \cup v, QUIDMAGIC), v) = hi
<1> USE CodecAssumption
<1>1. \A b \in v : b >= HiBits
    BY DEF VERSION_REV4, VERSION_REV7
<1>2. \A b \in hi \cup QUIDMAGIC : b < HiBits
    BY DEF QUIDMAGIC
<1>3. \A b \in v : b \notin hi /\ b \notin QUIDMAGIC
    BY <1>1, <1>2 DEF VERSION_REV4, VERSION_REV7, QUIDMAGIC
<1>4. Xor(Xor(hi, QUIDMAGIC) \cup v, QUIDMAGIC) = hi \cup v
    BY <1>3 DEF Xor
<1>5. v \subseteq hi \cup v /\ (hi \cup v) \ v = hi
    BY <1>3
<1> QED BY <1>4, <1>5 DEF Minus

LEMMA RevsDiffer ==
    /\ QUID_REV4 # QUID_REV7 /\ QUID_REV4 # {} /\ QUID_REV7 # {}
    /\ QUID_REV4 \in Byte /\ QUID_REV7 \in Byte
BY DEF QUID_REV4, QUID_REV7, Byte

\* quid_validate finds the version that the constructor put there.
LEMMA VersionFound ==
    ASSUME NEW hi \in SUBSET (0..(HiBits - 1)), NEW u,
           NEW rev \in {QUID_REV4, QUID_REV7},
           u.time_hi_and_version = Xor(hi, QUIDMAGIC) \cup
               (IF rev = QUID_REV4 THEN VERSION_REV4 ELSE VERSION_REV7)
    PROVE  VersionOf(u) = rev
<1>1. CASE rev = QUID_REV7
    BY <1>1, RevsDiffer DEF VersionOf
<1>2. CASE rev = QUID_REV4
    <2>1. HiBits \notin Xor(hi, QUIDMAGIC) /\ HiBits \notin VERSION_REV4
        BY CodecAssumption DEF Xor, QUIDMAGIC, VERSION_REV4
    <2>2. HiBits \in VERSION_REV7
        BY DEF VERSION_REV7
    <2> QED BY <1>2, <2>1, <2>2, RevsDiffer DEF VersionOf
<1> QED BY <1>1, <1>2

\* What the three parts of the time read as.
LEMMA TimeReadsBack ==
    ASSUME NEW t \in Timestamp, NEW u, NEW rev \in {QUID_REV4, QUID_REV7},
           u.version = rev,
           u.time_low = Field(t, 0, LowBits),
           u.time_mid = Field(t, LowBits, MidBits),
           u.time_hi_and_version =
               TimeHi(t, IF rev = QUID_REV4 THEN VERSION_REV4 ELSE VERSION_REV7)
    PROVE  TimeOf(u) = t /\ VersionOf(u) = rev
<1> DEFINE hi == Field(t, LowBits + MidBits, HiBits)
           v == IF rev = QUID_REV4 THEN VERSION_REV4 ELSE VERSION_REV7
<1>1. hi \in SUBSET (0..(HiBits - 1))
    BY DEF Field
<1>2. u.time_hi_and_version = Xor(hi, QUIDMAGIC) \cup v
    BY DEF TimeHi
<1>3. v \in {VERSION_REV4, VERSION_REV7}
    OBVIOUS
<1>4. Minus(Xor(u.time_hi_and_version, QUIDMAGIC), v) = hi
    BY <1>1, <1>2, <1>3, TimeHiUndone
<1>5. TimeOf(u) = u.time_low \cup Place(u.time_mid, LowBits)
                  \cup Place(Minus(Xor(u.time_hi_and_version, QUIDMAGIC), v), LowBits + MidBits)
    BY RevsDiffer DEF TimeOf
<1>6. TimeOf(u) = t
    BY <1>4, <1>5, FieldsMakeUp
<1>7. VersionOf(u) = rev
    BY <1>1, <1>2, VersionFound
<1> QED BY <1>6, <1>7

LEMMA PaddingIsTag == padding \in Tag
BY DEF padding, Tag, Byte

LEMMA PlainIsNode ==
    ASSUME NEW flag \in Byte, NEW subc \in Byte, NEW t \in Tag \cup {NoTag}
    PROVE  /\ PlainNode(flag, subc, t) \in Node
           /\ PlainNode(flag, subc, t)[0] = QUID_REV7
           /\ PlainNode(flag, subc, t)[1] = flag
           /\ PlainNode(flag, subc, t)[2] = subc
           /\ \A i \in 0..2 : PlainNode(flag, subc, t)[i + 3] =
                  IF HasTag(t) THEN t[i] ELSE padding[i]
<1> DEFINE n == PlainNode(flag, subc, t)
<1>1. ASSUME NEW i \in 3..5
      PROVE  n[i] = (IF HasTag(t) THEN t[i - 3] ELSE padding[i - 3]) /\ n[i] \in Byte
    <2>1. n[i] = IF HasTag(t) THEN t[i - 3] ELSE padding[i - 3]
        BY DEF PlainNode, PlainByte, NodeIndex
    <2>2. i - 3 \in 0..2
        OBVIOUS
    <2>3. padding[i - 3] \in Byte
        BY <2>2, PaddingIsTag DEF Tag
    <2>4. HasTag(t) => t[i - 3] \in Byte
        BY <2>2 DEF HasTag, Tag
    <2> QED BY <2>1, <2>3, <2>4
<1>2. n[0] = QUID_REV7 /\ n[1] = flag /\ n[2] = subc
    BY DEF PlainNode, PlainByte, NodeIndex
<1>3. n = [i \in NodeIndex |-> n[i]]
    BY DEF PlainNode
<1>4. \A i \in NodeIndex : n[i] \in Byte
    BY <1>1, <1>2, RevsDiffer DEF NodeIndex
<1>5. n \in Node
    BY <1>3, <1>4 DEF Node
<1>6. \A i \in 0..2 : n[i + 3] = IF HasTag(t) THEN t[i] ELSE padding[i]
    <2> SUFFICES ASSUME NEW i \in 0..2
                 PROVE  n[i + 3] = IF HasTag(t) THEN t[i] ELSE padding[i]
        OBVIOUS
    <2>1. i + 3 \in 3..5 /\ (i + 3) - 3 = i
        OBVIOUS
    <2> QED BY <2>1, <1>1
<1> QED BY <1>2, <1>5, <1>6

\* Two structures with the same fields read the same.
SameFields(u, w) ==
    /\ u.time_low = w.time_low
    /\ u.time_mid = w.time_mid
    /\ u.time_hi_and_version = w.time_hi_and_version
    /\ u.clock_seq_hi_and_reserved = w.clock_seq_hi_and_reserved
    /\ u.clock_seq_low = w.clock_seq_low
    /\ u.node = w.node
    /\ u.version = w.version

\* The accessors return what u was made from, and quid_validate would find
\* the version that it has, if the lower part of the time lets it.
Made(u, o) ==
    /\ ReadsBack(u, o)
    /\ VersionOf(u) = o.rev
    /\ VERSION_REV4 \subseteq u.time_hi_and_version
    /\ u.time_low = LowTime(o)

LEMMA SameReads ==
    ASSUME NEW u, NEW w, NEW o, SameFields(u, w), Made(u, o)
    PROVE  Made(w, o)
<1>1. /\ TimeOf(u) = TimeOf(w) /\ VersionOf(u) = VersionOf(w)
      /\ u.version = w.version /\ u.time_low = w.time_low
      /\ u.time_hi_and_version = w.time_hi_and_version
    BY DEF SameFields, TimeOf, VersionOf
<1>2. Decrypted(u) = Decrypted(w)
    BY DEF SameFields, Decrypted
<1>3. /\ quid_flag(u) = quid_flag(w)
      /\ quid_category(u) = quid_category(w)
      /\ quid_tag(u) = quid_tag(w)
    BY <1>2 DEF SameFields, quid_flag, quid_category, quid_tag
<1> QED BY <1>1, <1>3 DEF Made, ReadsBack

\* Identifiers that quid_cmp takes for equal were made from the same things.
LEMMA EqualOrigins ==
    ASSUME NEW u, NEW w, NEW o, NEW r, Made(u, o), Made(w, r), quid_cmp(u, w)
    PROVE  SameOrigin(o, r)
<1>1. Printed(u) = Printed(w)
    BY DEF quid_cmp
<1>2. VersionOf(u) = VersionOf(w)
    BY <1>1 DEF Printed, VersionOf
<1>3. u.version = w.version
    BY <1>2 DEF Made, ReadsBack
<1>4. SameFields(u, w)
    BY <1>1, <1>3 DEF Printed, SameFields
<1>5. Made(w, o)
    BY <1>4, SameReads
<1> QED BY <1>5 DEF Made, ReadsBack, SameOrigin

LEMMA HiIsByte ==
    ASSUME NEW x \in SUBSET (0..7)
    PROVE  x \cup {7} \in Byte
BY DEF Byte

LEMMA TimeHiIsField ==
    ASSUME NEW t \in Timestamp, NEW v \in {VERSION_REV4, VERSION_REV7}
    PROVE  TimeHi(t, v) \in SUBSET (0..(HiBits + 3))
BY CodecAssumption DEF TimeHi, Field, Xor, QUIDMAGIC, VERSION_REV4, VERSION_REV7

\* A REV4 identifier reads back as it was made.
THEOREM Rev4ReadsBack ==
    ASSUME NEW t \in Timestamp, NEW seq, NEW rnd0 \in Byte, NEW rnd5 \in Byte,
           NEW seed \in Node, NEW flag \in Byte, NEW subc \in Byte
    PROVE  LET u == quid_create_rev4(t, seq, rnd0, rnd5, seed, flag, subc)
           IN  /\ Made(u, Origin(QUID_REV4, t, flag, subc, NoTag))
               /\ u \in cuuid_t
<1> DEFINE u == quid_create_rev4(t, seq, rnd0, rnd5, seed, flag, subc)
<1>1. /\ u.version = QUID_REV4
      /\ u.time_low = Field(t, 0, LowBits)
      /\ u.time_mid = Field(t, LowBits, MidBits)
      /\ u.time_hi_and_version = TimeHi(t, VERSION_REV4)
      /\ u.clock_seq_hi_and_reserved = Field(seq, 8, 6) \cup {7}
      /\ u.clock_seq_low = Field(seq, 0, 8)
      /\ u.node[1] = flag /\ u.node[2] = subc
    BY DEF quid_create_rev4, Quid, FormatTime, NodeIndex
<1>2. TimeOf(u) = t /\ VersionOf(u) = QUID_REV4
    BY <1>1, TimeReadsBack
<1>3. Made(u, Origin(QUID_REV4, t, flag, subc, NoTag))
    BY <1>1, <1>2, RevsDiffer
    DEF Made, ReadsBack, LowTime, TimeHi, Origin, quid_flag, quid_category, quid_tag, TagRead
<1>4. u.node \in Node
    BY DEF quid_create_rev4, Quid, Node, NodeIndex
<1>5. u \in cuuid_t
    <2>1. u.time_hi_and_version \in SUBSET (0..(HiBits + 3))
        BY <1>1, TimeHiIsField
    <2>2. /\ u.time_low \in SUBSET (0..(LowBits - 1))
          /\ u.time_mid \in SUBSET (0..(MidBits - 1))
          /\ u.clock_seq_low \in Byte
        BY <1>1 DEF Field, Byte
    <2>3. u.clock_seq_hi_and_reserved \in Byte
        <3>1. Field(seq, 8, 6) \in SUBSET (0..7)
            BY DEF Field
        <3> QED BY <1>1, <3>1, HiIsByte
    <2> QED BY <1>1, <1>4, <2>1, <2>2, <2>3 DEF cuuid_t, quid_create_rev4, Quid
<1> QED BY <1>3, <1>5

\* A REV7 identifier reads back as it was made, under any keystream.
THEOREM Rev7ReadsBack ==
    ASSUME NEW t \in Timestamp, NEW seq, NEW flag \in Byte, NEW subc \in Byte,
           NEW tg \in Tag \cup {NoTag}
    PROVE  LET u == quid_create_rev7(t, seq, flag, subc, tg)
           IN  /\ Made(u, Origin(QUID_REV7, t, flag, subc, tg))
               /\ u \in cuuid_t
<1> DEFINE u == quid_create_rev7(t, seq, flag, subc, tg)
           plain == PlainNode(flag, subc, tg)
<1>1. /\ u.version = QUID_REV7
      /\ u.time_low = Field(t, 0, LowBits)
      /\ u.time_mid = Field(t, LowBits, MidBits)
      /\ u.time_hi_and_version = TimeHi(t, VERSION_REV7)
      /\ u.clock_seq_hi_and_reserved = (Field(seq, 8, 8) \cap {1, 2, 3, 6}) \cup {7}
      /\ u.clock_seq_low = Field(seq, 0, 8)
      /\ u.node = encrypt_node(u.time_low, u.clock_seq_hi_and_reserved,
                               u.clock_seq_low, plain)
    BY DEF quid_create_rev7, Quid, FormatTime
<1>2. TimeOf(u) = t /\ VersionOf(u) = QUID_REV7
    <2>1. TimeHi(t, VERSION_REV7) =
              TimeHi(t, IF QUID_REV7 = QUID_REV4 THEN VERSION_REV4 ELSE VERSION_REV7)
        BY RevsDiffer
    <2> QED BY <1>1, <2>1, TimeReadsBack
<1>3. Decrypted(u) = plain
    BY <1>1, EncryptTwice, PlainIsNode DEF Decrypted
<1>4. quid_tag(u) = TagRead(Origin(QUID_REV7, t, flag, subc, tg))
    <2> DEFINE read == [i \in 0..2 |-> plain[i + 3]]
    <2>1. quid_tag(u) = IF read = padding THEN NoTag ELSE read
        BY <1>1, <1>3, PlainIsNode DEF quid_tag
    <2>2. CASE HasTag(tg)
        <3>1. tg \in Tag
            BY <2>2 DEF HasTag
        <3>2. read = tg
            BY <2>2, <3>1, PlainIsNode DEF Tag
        <3> QED BY <2>1, <2>2, <3>2, RevsDiffer DEF TagRead, Origin
    <2>3. CASE ~HasTag(tg)
        <3>1. read = padding
            BY <2>3, PlainIsNode, PaddingIsTag DEF Tag
        <3> QED BY <2>1, <2>3, <3>1, RevsDiffer DEF TagRead, Origin
    <2> QED BY <2>2, <2>3
<1>5. quid_flag(u) = flag /\ quid_category(u) = subc
    BY <1>1, <1>3, PlainIsNode, RevsDiffer DEF quid_flag, quid_category
<1>6. Made(u, Origin(QUID_REV7, t, flag, subc, tg))
    <2>1. VERSION_REV4 \subseteq u.time_hi_and_version
        BY <1>1 DEF TimeHi, VERSION_REV4, VERSION_REV7
    <2> QED BY <1>1, <1>2, <1>4, <1>5, <2>1 DEF Made, ReadsBack, LowTime, Origin
<1>7. u \in cuuid_t
    <2>1. u.time_hi_and_version \in SUBSET (0..(HiBits + 3))
        BY <1>1, TimeHiIsField
    <2>2. /\ u.time_low \in SUBSET (0..(LowBits - 1))
          /\ u.time_mid \in SUBSET (0..(MidBits - 1))
          /\ u.clock_seq_low \in Byte
        BY <1>1 DEF Field, Byte
    <2>3. u.clock_seq_hi_and_reserved \in Byte
        <3>1. Field(seq, 8, 8) \cap {1, 2, 3, 6} \in SUBSET (0..7)
            OBVIOUS
        <3> QED BY <1>1, <3>1, HiIsByte
    <2>4. u.node \in Node
        BY <1>1, <2>2, <2>3, PlainIsNode, EncryptIsNode
    <2> QED BY <1>1, <2>1, <2>2, <2>3, <2>4 DEF cuuid_t, quid_create_rev7, Quid
<1> QED BY <1>6, <1>7
==============================================================================
