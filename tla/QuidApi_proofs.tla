---------------------------- MODULE QuidApi_proofs ----------------------------
(***************************************************************************)
(* Theorems about every sequence of calls of the library's functions.      *)
(***************************************************************************)
EXTENDS QuidApi, QuidCodec_proofs

\* The fields that are printed, with a version.
WithVersion(fields, v) == Quid(fields, fields.node, v)

\* Structures and the text with a known origin hold what that origin makes.
OriginInv ==
    /\ \A s \in Slots : origin[s] # NoOrigin => Made(slot[s], origin[s])
    /\ text.origin # NoOrigin =>
           Made(WithVersion(text.fields, text.origin.rev), text.origin)

ApiInv == TypeOK /\ OriginInv

LEMMA ClearedIsQuid == Cleared \in cuuid_t /\ Printed(Cleared) \in PrintedFields
<1>1. {} \in Byte /\ ZeroNode \in Node
    BY DEF ZeroNode, Node, Byte
<1> QED BY <1>1 DEF Cleared, cuuid_t, Printed, PrintedFields

\* quid_validate changes the version only, to one of the two or not at all.
LEMMA ValidateStep ==
    ASSUME NEW u \in cuuid_t
    PROVE  /\ quid_validate(u) \in cuuid_t
           /\ Printed(quid_validate(u)) = Printed(u)
           /\ Genuine(u) => quid_validate(u).version = VersionOf(u)
           /\ ~Genuine(u) => quid_validate(u) = u
BY DEF quid_validate, VersionOf, cuuid_t, Printed

\* The constructors give a structure that reads as its origin says.
Remade(s) ==
    /\ slot' \in [Slots -> cuuid_t]
    /\ origin' \in [Slots -> Origins \cup {NoOrigin}]
    /\ Made(slot'[s], origin'[s])
    /\ \A q \in Slots \ {s} : slot'[q] = slot[q] /\ origin'[q] = origin[q]

LEMMA MakeRev4Step ==
    ASSUME TypeOK, NEW s \in Slots, NEW flag \in Flags, NEW subc \in Subcs,
           MakeRev4(s, flag, subc)
    PROVE  Remade(s)
<1>1. flag \in Byte /\ subc \in Byte
    BY ApiAssumption
<1>2. PICK timestamp \in Stamps, seq \in ClockSeqs, rnd0 \in ClockSeqs,
             rnd5 \in ClockSeqs, seed \in MemSeeds :
          /\ slot' = [slot EXCEPT ![s] =
                         quid_create_rev4(timestamp, seq, Field(rnd0, 0, 8),
                                          Field(rnd5, 0, 8), seed, flag, subc)]
          /\ origin' = [origin EXCEPT ![s] =
                           Origin(QUID_REV4, timestamp, flag, subc, NoTag)]
    BY DEF MakeRev4
<1>3. timestamp \in Timestamp /\ seed \in Node
      /\ Field(rnd0, 0, 8) \in Byte /\ Field(rnd5, 0, 8) \in Byte
    BY ApiAssumption DEF Field, Byte
<1> DEFINE u == quid_create_rev4(timestamp, seq, Field(rnd0, 0, 8),
                                 Field(rnd5, 0, 8), seed, flag, subc)
           o == Origin(QUID_REV4, timestamp, flag, subc, NoTag)
<1>4. Made(u, o) /\ u \in cuuid_t
    BY <1>1, <1>3, Rev4ReadsBack
<1>5. o \in Origins
    BY <1>1, <1>3 DEF Origin, Origins
<1>6. slot' = [slot EXCEPT ![s] = u] /\ origin' = [origin EXCEPT ![s] = o]
    BY <1>2
<1> HIDE DEF u, o
<1> QED BY <1>4, <1>5, <1>6 DEF TypeOK, Remade

LEMMA MakeRev7Step ==
    ASSUME TypeOK, NEW s \in Slots, NEW flag \in Flags, NEW subc \in Subcs,
           NEW t \in Tags, MakeRev7(s, flag, subc, t)
    PROVE  Remade(s)
<1>1. flag \in Byte /\ subc \in Byte /\ t \in Tag \cup {NoTag}
    BY ApiAssumption
<1>2. PICK timestamp \in Stamps, seq \in ClockSeqs :
          /\ slot' = [slot EXCEPT ![s] = quid_create_rev7(timestamp, seq, flag, subc, t)]
          /\ origin' = [origin EXCEPT ![s] = Origin(QUID_REV7, timestamp, flag, subc, t)]
    BY DEF MakeRev7
<1>3. timestamp \in Timestamp
    BY ApiAssumption
<1> DEFINE u == quid_create_rev7(timestamp, seq, flag, subc, t)
           o == Origin(QUID_REV7, timestamp, flag, subc, t)
<1>4. Made(u, o) /\ u \in cuuid_t
    BY <1>1, <1>3, Rev7ReadsBack
<1>5. o \in Origins
    BY <1>1, <1>3 DEF Origin, Origins
<1>6. slot' = [slot EXCEPT ![s] = u] /\ origin' = [origin EXCEPT ![s] = o]
    BY <1>2
<1> HIDE DEF u, o
<1> QED BY <1>4, <1>5, <1>6 DEF TypeOK, Remade

LEMMA ApiInvariant == Spec => []ApiInv
<1>1. Init => ApiInv
    <2> SUFFICES ASSUME Init PROVE ApiInv
        OBVIOUS
    <2>1. tag \in Tag
        BY DEF Init, Tag, Byte
    <2>2. TypeOK
        BY <2>1, ClearedIsQuid DEF Init, TypeOK, Malformed
    <2> QED BY <2>2 DEF Init, ApiInv, OriginInv, Malformed
<1>2. ApiInv /\ [Next]_vars => ApiInv'
    <2> SUFFICES ASSUME ApiInv, [Next]_vars
                 PROVE  ApiInv'
        OBVIOUS
    <2> USE ApiAssumption DEF ApiInv
    <2>1. CASE UserText
        <3>1. UNCHANGED <<slot, origin, tag, failed>> /\ text'.origin = NoOrigin
            BY <2>1 DEF UserText, Malformed
        <3>2. text' \in [shape : {"full", "bare", "malformed"}, fields : PrintedFields,
                         origin : Origins \cup {NoOrigin}]
            BY <2>1, ClearedIsQuid DEF UserText, Malformed, ApiAssumption
        <3> QED BY <3>1, <3>2 DEF TypeOK, OriginInv
    <2>2. ASSUME NEW s \in Slots, NEW v \in {QUID_REV4, QUID_REV7}, SetVersion(s, v)
          PROVE  ApiInv'
        <3>1. [slot[s] EXCEPT !.version = v] \in cuuid_t
            BY DEF TypeOK, cuuid_t
        <3>2. slot' \in [Slots -> cuuid_t] /\ origin'[s] = NoOrigin
            BY <2>2, <3>1 DEF SetVersion, TypeOK
        <3>3. \A q \in Slots \ {s} : slot'[q] = slot[q] /\ origin'[q] = origin[q]
            BY <2>2 DEF SetVersion, TypeOK
        <3>4. TypeOK'
            BY <2>2, <3>2 DEF SetVersion, TypeOK
        <3>5. UNCHANGED text
            BY <2>2 DEF SetVersion
        <3> QED BY <3>2, <3>3, <3>4, <3>5 DEF OriginInv
    <2>3. ASSUME NEW s \in Slots, Remade(s), UNCHANGED <<text, tag, failed>>
          PROVE  ApiInv'
        BY <2>3 DEF Remade, TypeOK, OriginInv
    <2>4. ASSUME NEW s \in Slots, WriteText(s)
          PROVE  ApiInv'
        <3>1. Printed(slot[s]) \in PrintedFields
            BY DEF TypeOK, cuuid_t, Printed, PrintedFields
        <3>2. TypeOK'
            BY <2>4, <3>1 DEF WriteText, TypeOK
        <3>3. ASSUME origin[s] # NoOrigin
              PROVE  Made(WithVersion(Printed(slot[s]), origin[s].rev), origin[s])
            <4>1. Made(slot[s], origin[s]) /\ slot[s].version = origin[s].rev
                BY <3>3 DEF OriginInv, Made, ReadsBack
            <4>2. SameFields(slot[s], WithVersion(Printed(slot[s]), origin[s].rev))
                BY <4>1 DEF SameFields, WithVersion, Quid, Printed
            <4> QED BY <4>1, <4>2, SameReads
        <3>4. /\ text'.origin = origin[s] /\ text'.fields = Printed(slot[s])
              /\ UNCHANGED <<slot, origin>>
            BY <2>4 DEF WriteText
        <3> QED BY <3>2, <3>3, <3>4 DEF OriginInv
    <2>5. ASSUME NEW s \in Slots, Parse(s)
          PROVE  ApiInv'
        <3> DEFINE u == strtoquid(text.fields, slot[s])
        <3>1. u \in cuuid_t
            BY DEF strtoquid, Quid, TypeOK, cuuid_t, PrintedFields
        <3>2. /\ slot' = [slot EXCEPT ![s] = quid_validate(u)]
              /\ origin' = [origin EXCEPT ![s] = IF Genuine(u) THEN text.origin ELSE NoOrigin]
              /\ text' = [text EXCEPT !.shape = "bare"]
              /\ UNCHANGED <<tag, failed>>
            BY <2>5 DEF Parse
        <3>3. TypeOK'
            BY <3>1, <3>2, ValidateStep DEF TypeOK
        <3>4. ASSUME Genuine(u), text.origin # NoOrigin
              PROVE  Made(quid_validate(u), text.origin)
            <4> DEFINE w == WithVersion(text.fields, text.origin.rev)
            <4>1. Made(w, text.origin)
                BY <3>4 DEF OriginInv
            <4>2. VersionOf(u) = VersionOf(w)
                BY DEF VersionOf, WithVersion, strtoquid, Quid
            <4>3. VersionOf(u) = text.origin.rev
                BY <4>1, <4>2 DEF Made
            <4>4. quid_validate(u).version = text.origin.rev /\ Printed(quid_validate(u)) = Printed(u)
                BY <3>1, <3>4, <4>3, ValidateStep
            <4>5. Printed(u) = Printed(w) /\ w.version = text.origin.rev
                BY DEF Printed, WithVersion, strtoquid, Quid
            <4>6. SameFields(w, quid_validate(u))
                BY <4>4, <4>5 DEF SameFields, Printed
            <4> QED BY <4>1, <4>6, SameReads
        <3>5. text'.origin = text.origin /\ text'.fields = text.fields
            BY <3>2 DEF TypeOK
        <3>6. \A q \in Slots \ {s} : slot'[q] = slot[q] /\ origin'[q] = origin[q]
            BY <3>2 DEF TypeOK
        <3>7. slot'[s] = quid_validate(u) /\ origin'[s] = IF Genuine(u) THEN text.origin ELSE NoOrigin
            BY <3>2 DEF TypeOK
        <3> HIDE DEF u
        <3> QED BY <3>3, <3>4, <3>5, <3>6, <3>7 DEF OriginInv
    <2>6. ASSUME NEW s \in Slots, Validate(s)
          PROVE  ApiInv'
        <3> DEFINE u == slot[s]
        <3>1. u \in cuuid_t
            BY DEF TypeOK
        <3>2. TypeOK'
            BY <2>6, <3>1, ValidateStep DEF Validate, TypeOK
        <3>3. ASSUME origin[s] # NoOrigin
              PROVE  Made(quid_validate(u), origin[s])
            <4>1. Made(u, origin[s]) /\ u.version = VersionOf(u)
                BY <3>3 DEF OriginInv, Made, ReadsBack
            <4>2. quid_validate(u).version = u.version /\ Printed(quid_validate(u)) = Printed(u)
                BY <3>1, <4>1, ValidateStep
            <4>3. SameFields(u, quid_validate(u))
                BY <4>2 DEF SameFields, Printed
            <4> QED BY <4>1, <4>3, SameReads
        <3>4. /\ slot'[s] = quid_validate(u)
              /\ \A q \in Slots \ {s} : slot'[q] = slot[q]
              /\ UNCHANGED <<origin, text>>
            BY <2>6 DEF Validate, TypeOK
        <3> HIDE DEF u
        <3> QED BY <3>2, <3>3, <3>4 DEF OriginInv
    <2>7. ASSUME NEW s \in Slots, ReadTag(s)
          PROVE  ApiInv'
        <3> DEFINE u == slot[s]
                   read == [i \in 0..2 |-> Decrypted(u)[i + 3]]
        <3>1. Decrypted(u) \in Node
            BY EncryptIsNode DEF Decrypted, TypeOK, cuuid_t
        <3>2. read \in Tag
            <4>1. \A i \in 0..2 : i + 3 \in NodeIndex
                BY DEF NodeIndex
            <4> QED BY <3>1, <4>1 DEF Node, Tag
        <3>3. quid_tag(u) \in {NotImplemented, Invalid, NoTag, read}
            BY DEF quid_tag
        <3>4. tag' \in Tag
            BY <2>7, <3>2, <3>3 DEF ReadTag, TypeOK
        <3> QED BY <2>7, <3>4 DEF ReadTag, TypeOK, OriginInv
    <2>8. CASE UNCHANGED vars
        BY <2>8 DEF vars, TypeOK, OriginInv
    <2>9. ASSUME NEW s \in Slots, NEW flag \in Flags, NEW subc \in Subcs,
                 CreateRev4(s, flag, subc)
          PROVE  ApiInv'
        BY <2>3, <2>9, MakeRev4Step DEF CreateRev4, TypeOK
    <2>10. ASSUME NEW s \in Slots, NEW flag \in Flags, NEW subc \in Subcs, NEW t \in Tags,
                  CreateRev7(s, flag, subc, t) \/ Create(s, flag, subc, t)
           PROVE  ApiInv'
        BY <2>3, <2>10, MakeRev4Step, MakeRev7Step DEF CreateRev7, Create, TypeOK
    <2>11. ASSUME NEW s \in Slots, ParseMalformed(s)
           PROVE  ApiInv'
        BY <2>8, <2>11 DEF ParseMalformed
    <2>12. ASSUME NEW s \in Slots, Clear(s)
           PROVE  ApiInv'
        <3>1. /\ slot' = [slot EXCEPT ![s] = Cleared] /\ origin' = [origin EXCEPT ![s] = NoOrigin]
              /\ UNCHANGED <<text, tag, failed>>
            BY <2>12 DEF Clear, TypeOK
        <3> QED BY <3>1, ClearedIsQuid DEF TypeOK, OriginInv
    <2>13. ASSUME NEW s \in Slots, AbortFill(s) \/ AbortCreate(s) \/ AbortRead(s)
           PROVE  ApiInv'
        <3>1. UNCHANGED <<slot, origin, text, tag>>
            BY <2>13 DEF AbortFill, AbortCreate, AbortRead
        <3>2. failed' \in {"structure", "created", "read"}
            BY <2>13 DEF AbortFill, AbortCreate, AbortRead
        <3> QED BY <3>1, <3>2 DEF TypeOK, OriginInv
    <2> QED
        BY <2>1, <2>2, <2>4, <2>5, <2>6, <2>7, <2>8, <2>9, <2>10, <2>11, <2>12, <2>13
        DEF Next, Step
<1> QED BY <1>1, <1>2, PTL DEF Spec

\* The structures, the text and the static buffer keep their types: every
\* accessor, whatever it is given, returns what its callers rely on.
THEOREM ApiTypeCorrect == Spec => []TypeOK
BY ApiInvariant, PTL DEF ApiInv

\* Every identifier keeps its version, creation time, flag, category and tag
\* through any sequence of quid_tostring, quid_parse and quid_validate.
THEOREM OriginsReadBack == Spec => []OriginReadsBack
<1>1. ApiInv => OriginReadsBack
    BY DEF ApiInv, OriginInv, OriginReadsBack, Made
<1> QED BY <1>1, ApiInvariant, PTL

\* Identifiers that quid_cmp takes for equal have the same origin.
THEOREM EqualIdentifiers == Spec => []EqualMeansSameOrigin
<1>1. ASSUME ApiInv PROVE EqualMeansSameOrigin
    <2> SUFFICES ASSUME NEW s \in Slots, origin[s] # NoOrigin
                 PROVE  /\ \A other \in Slots :
                              origin[other] # NoOrigin /\ quid_cmp(slot[s], slot[other])
                              => SameOrigin(origin[s], origin[other])
                        /\ text.origin # NoOrigin
                           /\ quid_cmp(slot[s], strtoquid(text.fields, slot[s]))
                           => SameOrigin(origin[s], text.origin)
        BY DEF EqualMeansSameOrigin
    <2>1. \A other \in Slots : origin[other] # NoOrigin => Made(slot[other], origin[other])
        BY <1>1 DEF ApiInv, OriginInv
    <2>2. ASSUME text.origin # NoOrigin, quid_cmp(slot[s], strtoquid(text.fields, slot[s]))
          PROVE  SameOrigin(origin[s], text.origin)
        <3> DEFINE w == WithVersion(text.fields, text.origin.rev)
        <3>1. Made(w, text.origin)
            BY <1>1, <2>2 DEF ApiInv, OriginInv
        <3>2. Printed(strtoquid(text.fields, slot[s])) = Printed(w)
            BY DEF Printed, strtoquid, WithVersion, Quid
        <3>3. quid_cmp(slot[s], w)
            BY <2>2, <3>2 DEF quid_cmp
        <3> HIDE DEF w
        <3> QED BY <2>1, <3>1, <3>3, EqualOrigins
    <2> QED BY <2>1, <2>2, EqualOrigins
<1> QED BY <1>1, ApiInvariant, PTL

\* quid_validate and quid_parse reject an identifier of the library only where
\* the lower part of its time is zero.
THEOREM RejectedForZeroTime == Spec => []RejectedOnlyForZeroTime
<1>1. ASSUME ApiInv PROVE RejectedOnlyForZeroTime
    <2>1. \A s \in Slots : origin[s] # NoOrigin => Made(slot[s], origin[s])
        BY <1>1 DEF ApiInv, OriginInv
    <2>2. ASSUME text.origin # NoOrigin
          PROVE  Genuine(text.fields) <=> LowTime(text.origin) # {}
        BY <1>1, <2>2 DEF ApiInv, OriginInv, Made, Genuine, WithVersion, Quid
    <2> QED BY <2>1, <2>2 DEF RejectedOnlyForZeroTime, Made, Genuine
<1> QED BY <1>1, ApiInvariant, PTL
==============================================================================
