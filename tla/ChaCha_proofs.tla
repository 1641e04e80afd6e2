---------------------------- MODULE ChaCha_proofs ----------------------------
(***************************************************************************)
(* The stream cipher, for words of every width, all keys, counters, rounds *)
(* and messages, and any number of calls.                                  *)
(***************************************************************************)
EXTENDS ChaCha, WellFoundedInduction, TLAPS

------------------------------------------------------------------------------
\* Words and bytes.

\* A word has four bytes.
LEMMA Widths ==
    /\ WordBits \in Nat /\ ByteBits \in Nat
    /\ WordBits = 4 * ByteBits /\ WordBits > 3
BY WordAssumption DEF ByteBits

\* What is combined twice with the same bits is what it was.
LEMMA FlipTwice == \A v, w : Flip(Flip(v, w), w) = v
BY DEF Flip

\* PLUSONE flips a bit if and only if all lower bits are set, and drops the last carry.
LEMMA PlusOneIs ==
    ASSUME NEW v \in U32, NEW k
    PROVE  k \in PLUSONE(v) <=> /\ k \in 0..(WordBits - 1)
                                /\ ~(k \in v <=> \A m \in 0..(k - 1) : m \in v)
<1> DEFINE C == Carries(v, {0})
<1>1. k \in C <=> k \in 1..(WordBits - 1) /\ \A m \in 0..(k - 1) : m \in v
    <2>1. ASSUME k \in C PROVE k \in 1..(WordBits - 1) /\ \A m \in 0..(k - 1) : m \in v
        <3>1. k \in 1..(WordBits - 1)
            BY <2>1 DEF Carries
        <3>2. PICK j \in 0..(k - 1) : /\ j \in v \cap {0}
                                      /\ \A m \in (j + 1)..(k - 1) : m \in v \cup {0}
            BY <2>1 DEF Carries
        <3>3. j = 0 /\ 0 \in v
            BY <3>2
        <3>4. \A m \in 0..(k - 1) : m = 0 \/ m \in (j + 1)..(k - 1)
            BY <3>1, <3>3
        <3> QED BY <3>1, <3>2, <3>3, <3>4
    <2>2. ASSUME k \in 1..(WordBits - 1), \A m \in 0..(k - 1) : m \in v PROVE k \in C
        <3>1. 0 \in 0..(k - 1) /\ 0 \in v \cap {0}
            BY <2>2
        <3>2. \A m \in (0 + 1)..(k - 1) : m \in v \cup {0}
            BY <2>2
        <3> QED BY <2>2, <3>1, <3>2 DEF Carries
    <2> QED BY <2>1, <2>2
<1> HIDE DEF C
<1>2. PLUSONE(v) = Flip(Flip(v, {0}), C)
    BY DEF PLUSONE, ADDITION, C
<1>3. k \in v => k \in 0..(WordBits - 1)
    BY DEF U32
<1>4. 0 \in 0..(WordBits - 1) /\ 0 \notin 1..(WordBits - 1)
    BY Widths
<1>5. CASE k = 0
    <2>1. \A m \in 0..(k - 1) : m \in v
        BY <1>5
    <2>2. k \notin C
        BY <1>1, <1>4, <1>5
    <2> QED BY <1>2, <1>4, <1>5, <2>1, <2>2 DEF Flip
<1>6. CASE k # 0
    <2>1. k \in 1..(WordBits - 1) <=> k \in 0..(WordBits - 1)
        BY <1>6, Widths
    <2> QED BY <1>1, <1>2, <1>3, <1>6, <2>1 DEF Flip
<1> QED BY <1>5, <1>6

\* The increment of a word is a word.
LEMMA PlusOneIsWord == ASSUME NEW v \in U32 PROVE PLUSONE(v) \in U32
BY PlusOneIs DEF U32

\* Four bytes make a word.
LEMMA LoadIsWord ==
    ASSUME NEW bytes, NEW k \in Int, \A j \in 0..3 : bytes[k + j] \in U8
    PROVE  Load(bytes, k) \in U32
<1> SUFFICES ASSUME NEW j \in 0..3, NEW b \in bytes[k + j]
             PROVE  ByteBits * j + b \in 0..(WordBits - 1)
    BY DEF Load, U32
<1>1. b \in 0..(ByteBits - 1)
    BY DEF U8
<1>2. ByteBits \in Nat /\ WordBits = 4 * ByteBits
    BY Widths
<1>3. j = 0 \/ j = 1 \/ j = 2 \/ j = 3
    OBVIOUS
<1> QED BY <1>1, <1>2, <1>3

------------------------------------------------------------------------------
\* The state of a context.

States == [0..15 -> U32]

First == InitialState(params.key, params.keylen, params.iv, params.counter)

\* chacha_init fills the state with words.
LEMMA InitialIsState ==
    ASSUME NEW key \in [0..31 -> U8], NEW keylen, NEW iv \in [0..7 -> U8], NEW counter \in U32
    PROVE  InitialState(key, keylen, iv, counter) \in States
<1> DEFINE upper == IF keylen = 256 THEN 16 ELSE 0
           W(j) == CASE j \in 0..3   -> (IF keylen = 256 THEN SIGMA ELSE TAU)[j + 1]
                                            \cap (0..(WordBits - 1))
                     [] j \in 4..7   -> Load(key, 4 * (j - 4))
                     [] j \in 8..11  -> Load(key, upper + 4 * (j - 8))
                     [] j = 12       -> counter
                     [] j = 13       -> {}
                     [] j \in 14..15 -> Load(iv, 4 * (j - 14))
<1>1. ASSUME NEW j \in 0..15 PROVE W(j) \in U32
    <2>1. CASE j \in 0..3
        <3>1. W(j) = (IF keylen = 256 THEN SIGMA ELSE TAU)[j + 1] \cap (0..(WordBits - 1))
            BY <2>1
        <3> HIDE DEF W
        <3> QED BY <3>1 DEF U32
    <2>2. CASE j \in 4..7
        <3> DEFINE k == 4 * (j - 4)
        <3>1. k \in Int /\ \A i \in 0..3 : key[k + i] \in U8
            BY <2>2
        <3>2. W(j) = Load(key, k)
            BY <2>2
        <3> HIDE DEF k, W
        <3> QED BY <3>1, <3>2, LoadIsWord
    <2>3. CASE j \in 8..11
        <3> DEFINE k == upper + 4 * (j - 8)
        <3>1. k \in Int /\ \A i \in 0..3 : key[k + i] \in U8
            BY <2>3
        <3>2. W(j) = Load(key, k)
            BY <2>3
        <3> HIDE DEF k, W
        <3> QED BY <3>1, <3>2, LoadIsWord
    <2>4. CASE j = 12
        BY <2>4
    <2>5. CASE j = 13
        BY <2>5 DEF U32
    <2>6. CASE j \in 14..15
        <3> DEFINE k == 4 * (j - 14)
        <3>1. k \in Int /\ \A i \in 0..3 : iv[k + i] \in U8
            BY <2>6
        <3>2. W(j) = Load(iv, k)
            BY <2>6
        <3> HIDE DEF k, W
        <3> QED BY <3>1, <3>2, LoadIsWord
    <2> QED BY <2>1, <2>2, <2>3, <2>4, <2>5, <2>6
<1>2. InitialState(key, keylen, iv, counter) = [j \in 0..15 |-> W(j)]
    BY DEF InitialState
<1> HIDE DEF W
<1> QED BY <1>1, <1>2 DEF States

\* The state stays one of words when the block counter is advanced.
LEMMA AdvancedIsState ==
    ASSUME NEW s \in States
    PROVE  /\ Advanced(s) \in States
           /\ Advanced(s)[12] = PLUSONE(s[12])
           /\ Advanced(s)[13] = IF PLUSONE(s[12]) = {} THEN PLUSONE(s[13]) ELSE s[13]
           /\ \A j \in (0..15) \ {12, 13} : Advanced(s)[j] = s[j]
<1>1. s[12] \in U32 /\ s[13] \in U32
    BY DEF States
<1>2. PLUSONE(s[12]) \in U32 /\ PLUSONE(s[13]) \in U32
    BY <1>1, PlusOneIsWord
<1> QED BY <1>2 DEF Advanced, States

\* A block is 64 bytes.
LEMMA BlockIsBytes ==
    ASSUME NEW s, NEW rounds
    PROVE  doublerounds(s, rounds) \in [0..63 -> U8]
<1> DEFINE n == 8 * ((rounds + 1) \div 2)
           x[k \in 0..n] ==
               IF k = 0 THEN s ELSE QUARTERROUND(x[k - 1], Quarters[1 + ((k - 1) % 8)])
           merged == [j \in 0..15 |-> ADDITION(x[n][j], s[j])]
<1>1. doublerounds(s, rounds) = [k \in 0..63 |-> {b \in 0..(ByteBits - 1) :
                                       ByteBits * (k % 4) + b \in merged[k \div 4]}]
    BY DEF doublerounds
<1> HIDE DEF merged
<1> QED BY <1>1 DEF U8

Texts == UNION {[0..(len - 1) -> U8] : len \in 0..64}

\* An input combined with a block is as long, and is given back by the same block.
LEMMA CombinedTwice ==
    ASSUME NEW t \in Texts, NEW block \in [0..63 -> U8]
    PROVE  /\ Combined(t, block) \in Texts
           /\ Combined(Combined(t, block), block) = t
<1>1. PICK len \in 0..64 : t \in [0..(len - 1) -> U8]
    BY DEF Texts
<1> DEFINE c == Combined(t, block)
<1>2. c = [k \in 0..(len - 1) |-> Flip(t[k], block[k])]
    BY <1>1 DEF Combined
<1>3. ASSUME NEW k \in 0..(len - 1) PROVE Flip(t[k], block[k]) \in U8
    <2>1. k \in 0..63
        <3>1. len \in 0..64
            BY <1>1
        <3> QED BY ONLY k \in 0..(len - 1), <3>1
    <2>2. t[k] \in U8 /\ block[k] \in U8
        BY <1>1, <2>1
    <2> QED BY <2>2 DEF Flip, U8
<1>4. c \in [0..(len - 1) -> U8]
    BY <1>2, <1>3
<1>5. Combined(c, block) = [k \in 0..(len - 1) |-> Flip(c[k], block[k])]
    BY <1>2 DEF Combined
<1>6. \A k \in 0..(len - 1) : Flip(c[k], block[k]) = t[k]
    BY <1>2, FlipTwice
<1> HIDE DEF c
<1>7. Combined(c, block) = t
    BY <1>1, <1>5, <1>6
<1> QED BY <1>4, <1>7 DEF Texts, c

\* What a call is given is a text.
LEMMA PartIsText ==
    ASSUME NEW m \in [0..63 -> U8], NEW len \in Nat, len <= 64
    PROVE  Part(m, len) \in Texts
<1>1. Part(m, len) \in [0..(len - 1) -> U8] /\ len \in 0..64
    BY DEF Part
<1> QED BY <1>1 DEF Texts

------------------------------------------------------------------------------
\* The users at work.

\* What the sequences are, and how many calls made them.
CallsInv ==
    /\ params \in [key : Keys, iv : IVs, counter : Counters, keylen : KeyLengths,
                   rounds : Rounds]
    /\ ctx \in [Users -> [state : States, rounds : 0..255]]
    /\ phase \in [Users -> {"new", "ready", "aborted"}]
    /\ calls \in [Users -> 0..MaxCalls]
    /\ plain \in Seq(Texts) /\ cipher \in Seq(Texts) /\ got \in Seq(Texts)
    /\ Len(plain) = calls["writer"] /\ Len(cipher) = calls["writer"]
    /\ Len(got) = calls["reader"] /\ Len(got) <= Len(cipher)
    /\ \A u \in Users : phase[u] = "new" => calls[u] = 0
    /\ \A u \in Users : phase[u] = "ready" => ctx[u].rounds = params.rounds

\* s has the states that a context passes through, one for each call of the
\* writer; the reader is at one of them, and each block came from the one
\* before its call.
Trace(s) ==
    /\ s \in [0..calls["writer"] -> States]
    /\ s[0] = First
    /\ \A k \in 1..calls["writer"] : s[k] = Advanced(s[k - 1])
    /\ \A u \in Users : phase[u] = "ready" => ctx[u].state = s[calls[u]]
    /\ \A k \in 1..Len(cipher) :
          cipher[k] = Combined(plain[k], doublerounds(s[k - 1], params.rounds))

RecoverInv == CallsInv /\ ReaderRecovers /\ \E s : Trace(s)

\* The parameters are of the kinds that chacha_init expects.
LEMMA FirstIsState ==
    ASSUME CallsInv PROVE First \in States /\ params.rounds \in 0..255
<1>1. /\ params.key \in [0..31 -> U8] /\ params.iv \in [0..7 -> U8] /\ params.counter \in U32
      /\ params.rounds \in 0..255
    BY ChaChaAssumption DEF CallsInv
<1> QED BY <1>1, InitialIsState DEF First

\* Nothing has been encrypted at first.
LEMMA RecoverInit == Init => RecoverInv
<1> SUFFICES ASSUME Init PROVE RecoverInv
    OBVIOUS
<1>1. CallsInv
    <2>1. /\ ctx \in [Users -> [state : States, rounds : 0..255]]
          /\ calls \in [Users -> 0..MaxCalls] /\ \A u \in Users : calls[u] = 0
        BY ChaChaAssumption DEF Init, States, U32
    <2>2. "writer" \in Users /\ "reader" \in Users
        BY DEF Users
    <2> QED BY <2>1, <2>2 DEF Init, CallsInv
<1>2. First \in States
    BY <1>1, FirstIsState
<1>3. Trace([k \in 0..0 |-> First])
    <2>1. calls["writer"] = 0 /\ Len(cipher) = 0 /\ \A u \in Users : phase[u] # "ready"
        BY DEF Init, Users
    <2> QED BY <1>2, <2>1 DEF Trace
<1>4. ReaderRecovers
    BY DEF Init, ReaderRecovers
<1> QED BY <1>1, <1>3, <1>4 DEF RecoverInv

\* What a sequence of texts is when one is appended.
LEMMA AppendText ==
    ASSUME NEW q \in Seq(Texts), NEW t \in Texts
    PROVE  /\ Append(q, t) \in Seq(Texts)
           /\ Len(Append(q, t)) = Len(q) + 1
           /\ Append(q, t)[Len(q) + 1] = t
           /\ \A k \in 1..Len(q) : Append(q, t)[k] = q[k]
<1> HIDE DEF Texts
<1> QED OBVIOUS

\* What a call does to the contexts, and what comes of its input.
LEMMA CryptStep ==
    ASSUME CallsInv, NEW s, Trace(s), NEW u \in Users, Crypt(u), calls[u] <= calls["writer"]
    PROVE  /\ phase[u] = "ready" /\ phase' = phase /\ params' = params
           /\ calls[u] \in 0..(MaxCalls - 1) /\ calls' \in [Users -> 0..MaxCalls]
           /\ calls'[u] = calls[u] + 1 /\ \A w \in Users \ {u} : calls'[w] = calls[w]
           /\ ctx' \in [Users -> [state : States, rounds : 0..255]]
           /\ ctx'[u].state = Advanced(s[calls[u]])
           /\ \A w \in Users \ {u} : ctx'[w] = ctx[w]
           /\ \A w \in Users : ctx'[w].rounds = ctx[w].rounds
           /\ \A t : Output(u, t) = Combined(t, doublerounds(s[calls[u]], params.rounds))
           /\ s[calls[u]] \in States
<1>1. phase[u] = "ready" /\ calls[u] < MaxCalls /\ UNCHANGED <<params, phase>>
    BY DEF Crypt
<1>2. calls \in [Users -> 0..MaxCalls] /\ MaxCalls \in Nat /\ calls["writer"] \in Nat
    BY ChaChaAssumption DEF CallsInv, Users
<1>3. calls' = [calls EXCEPT ![u] = @ + 1] /\ calls[u] + 1 \in 0..MaxCalls
    BY <1>1, <1>2 DEF Crypt
<1>4. s[calls[u]] \in States
    BY <1>2 DEF Trace
<1>5. ctx[u].state = s[calls[u]] /\ ctx[u].rounds = params.rounds
    BY <1>1 DEF Trace, CallsInv
<1>6. Advanced(s[calls[u]]) \in States
    BY <1>4, AdvancedIsState
<1>7. ctx \in [Users -> [state : States, rounds : 0..255]]
    BY DEF CallsInv
<1>8. ctx' = [ctx EXCEPT ![u].state = Advanced(ctx[u].state)]
    BY DEF Crypt
<1>9. /\ ctx' \in [Users -> [state : States, rounds : 0..255]]
      /\ ctx'[u].state = Advanced(s[calls[u]])
      /\ \A w \in Users \ {u} : ctx'[w] = ctx[w]
      /\ \A w \in Users : ctx'[w].rounds = ctx[w].rounds
    <2> HIDE DEF States
    <2> QED BY <1>5, <1>6, <1>7, <1>8
<1>10. \A t : Output(u, t) = Combined(t, doublerounds(s[calls[u]], params.rounds))
    BY <1>5 DEF Output
<1>11. /\ calls[u] \in 0..(MaxCalls - 1) /\ calls' \in [Users -> 0..MaxCalls]
       /\ calls'[u] = calls[u] + 1 /\ \A w \in Users \ {u} : calls'[w] = calls[w]
    <2>1. calls[u] \in 0..(MaxCalls - 1)
        BY <1>1, <1>2
    <2> QED BY <1>2, <1>3, <2>1
<1> QED BY <1>1, <1>4, <1>9, <1>10, <1>11

\* Every step keeps the texts that have been read those that were written.
LEMMA RecoverStep == RecoverInv /\ [Next]_vars => RecoverInv'
<1> SUFFICES ASSUME RecoverInv, [Next]_vars PROVE RecoverInv'
    OBVIOUS
<1> USE DEF RecoverInv
<1>1. PICK s : Trace(s)
    OBVIOUS
<1>2. /\ "writer" \in Users /\ "reader" \in Users
      /\ \A u \in Users : u = "writer" \/ u = "reader"
      /\ MaxCalls \in Nat /\ calls \in [Users -> 0..MaxCalls]
    BY ChaChaAssumption DEF CallsInv, Users
<1>3. ASSUME NEW u \in Users, Start(u) PROVE RecoverInv'
    <2>1. /\ phase[u] = "new" /\ calls[u] = 0
          /\ UNCHANGED <<params, calls, plain, cipher, got>>
        BY <1>3 DEF Start, CallsInv
    <2>2. ReaderRecovers'
        BY <2>1 DEF ReaderRecovers
    <2>3. CASE params.rounds < 2 \/ params.keylen \notin {128, 256}
        <3>1. phase' = [phase EXCEPT ![u] = "aborted"] /\ ctx' = ctx
            BY <1>3, <2>3 DEF Start
        <3>2. CallsInv'
            BY <2>1, <3>1 DEF CallsInv
        <3>3. Trace(s)'
            BY <1>1, <2>1, <3>1 DEF Trace, First, CallsInv
        <3> QED BY <2>2, <3>2, <3>3
    <2>4. CASE ~(params.rounds < 2 \/ params.keylen \notin {128, 256})
        <3>1. /\ phase' = [phase EXCEPT ![u] = "ready"]
              /\ ctx' = [ctx EXCEPT ![u] = [state |-> First, rounds |-> params.rounds]]
            BY <1>3, <2>4 DEF Start, First
        <3>2. First \in States /\ params.rounds \in 0..255
            BY FirstIsState
        <3>3. CallsInv'
            BY <2>1, <3>1, <3>2 DEF CallsInv
        <3>4. Trace(s)'
            <4>1. First' = First
                BY <2>1 DEF First
            <4>2. \A w \in Users : phase'[w] = "ready" => ctx'[w].state = s[calls[w]]
                BY <1>1, <2>1, <3>1 DEF Trace, CallsInv
            <4> QED BY <1>1, <2>1, <4>1, <4>2 DEF Trace
        <3> QED BY <2>2, <3>3, <3>4
    <2> QED BY <2>3, <2>4
<1>4. ASSUME NEW m \in Messages, NEW len \in Lengths, Write(m, len) PROVE RecoverInv'
    <2> DEFINE t == Part(m, len)
               n == calls["writer"]
               block == doublerounds(s[n], params.rounds)
    <2>1. len <= 64 /\ Crypt("writer") /\ got' = got
          /\ plain' = Append(plain, t) /\ cipher' = Append(cipher, Output("writer", t))
        BY <1>4 DEF Write
    <2>2. t \in Texts
        <3>1. m \in [0..63 -> U8] /\ len \in Nat
            BY ChaChaAssumption
        <3> QED BY <2>1, <3>1, PartIsText
    <2>3. /\ phase["writer"] = "ready" /\ phase' = phase /\ params' = params
          /\ n \in 0..(MaxCalls - 1) /\ calls' \in [Users -> 0..MaxCalls]
          /\ calls'["writer"] = n + 1 /\ calls'["reader"] = calls["reader"]
          /\ ctx' \in [Users -> [state : States, rounds : 0..255]]
          /\ ctx'["writer"].state = Advanced(s[n])
          /\ ctx'["reader"] = ctx["reader"]
          /\ \A w \in Users : ctx'[w].rounds = ctx[w].rounds
          /\ Output("writer", t) = Combined(t, block)
          /\ s[n] \in States
        <3>1. n <= n /\ "reader" \in Users \ {"writer"}
            BY <1>2
        <3> HIDE DEF t
        <3> QED BY <1>1, <1>2, <2>1, <3>1, CryptStep
    <2>4. Combined(t, block) \in Texts
        BY <2>2, BlockIsBytes, CombinedTwice
    <2> HIDE DEF t, block
    <2>5. /\ plain \in Seq(Texts) /\ cipher \in Seq(Texts) /\ got \in Seq(Texts)
          /\ Len(plain) = n /\ Len(cipher) = n
          /\ Len(got) = calls["reader"] /\ Len(got) <= n
        BY DEF CallsInv
    <2>6. /\ plain' \in Seq(Texts) /\ cipher' \in Seq(Texts)
          /\ Len(plain') = n + 1 /\ Len(cipher') = n + 1
          /\ plain'[n + 1] = t /\ cipher'[n + 1] = Combined(t, block)
          /\ \A k \in 1..n : plain'[k] = plain[k] /\ cipher'[k] = cipher[k]
        BY <2>1, <2>2, <2>3, <2>4, <2>5, AppendText
    <2>7. CallsInv'
        <3>1. Len(got') <= Len(cipher')
            BY <2>1, <2>3, <2>5, <2>6
        <3>2. \A u \in Users : phase'[u] = "new" => calls'[u] = 0
            BY <1>2, <2>3 DEF CallsInv
        <3> QED BY <2>1, <2>3, <2>5, <2>6, <3>1, <3>2 DEF CallsInv
    <2>8. ReaderRecovers'
        BY <2>1, <2>3, <2>5, <2>6 DEF ReaderRecovers
    <2>9. \E q : Trace(q)'
        <3>1. \E q \in [0..(n + 1) -> States] :
                 (\A k \in 0..n : q[k] = s[k]) /\ q[n + 1] = Advanced(s[n])
            <4> DEFINE q == [k \in 0..(n + 1) |-> IF k <= n THEN s[k] ELSE Advanced(s[n])]
            <4>1. Advanced(s[n]) \in States /\ \A k \in 0..n : s[k] \in States
                BY <1>1, <2>3, AdvancedIsState DEF Trace
            <4>2. n \in Int
                BY <2>3
            <4>3. q \in [0..(n + 1) -> States]
                BY <4>1, <4>2
            <4>4. (\A k \in 0..n : q[k] = s[k]) /\ q[n + 1] = Advanced(s[n])
                BY <2>3
            <4> QED BY <4>3, <4>4
        <3>2. PICK q \in [0..(n + 1) -> States] :
                 (\A k \in 0..n : q[k] = s[k]) /\ q[n + 1] = Advanced(s[n])
            BY <3>1
        <3>3. q[0] = First'
            BY <1>1, <2>3, <3>2 DEF Trace, First
        <3>4. \A k \in 1..(n + 1) : q[k] = Advanced(q[k - 1])
            <4> SUFFICES ASSUME NEW k \in 1..(n + 1) PROVE q[k] = Advanced(q[k - 1])
                OBVIOUS
            <4>1. CASE k = n + 1
                BY <2>3, <3>2, <4>1
            <4>2. CASE k # n + 1
                <5>1. k \in 1..n /\ k \in 0..n /\ k - 1 \in 0..n
                    BY <2>3, <4>2
                <5> QED BY <1>1, <3>2, <5>1 DEF Trace
            <4> QED BY <4>1, <4>2
        <3>5. \A u \in Users : phase'[u] = "ready" => ctx'[u].state = q[calls'[u]]
            <4>1. ctx'["writer"].state = q[calls'["writer"]]
                BY <2>3, <3>2
            <4>2. phase["reader"] = "ready" => ctx'["reader"].state = q[calls'["reader"]]
                <5>1. calls["reader"] \in 0..n
                    BY <1>2, <2>5
                <5> QED BY <1>1, <1>2, <2>3, <3>2, <5>1 DEF Trace
            <4> QED BY <1>2, <2>3, <4>1, <4>2
        <3>6. \A k \in 1..(n + 1) :
                 cipher'[k] = Combined(plain'[k], doublerounds(q[k - 1], params.rounds))
            <4> SUFFICES ASSUME NEW k \in 1..(n + 1)
                         PROVE  cipher'[k] = Combined(plain'[k],
                                                      doublerounds(q[k - 1], params.rounds))
                OBVIOUS
            <4>1. CASE k = n + 1
                <5>1. k - 1 = n /\ q[n] = s[n]
                    BY <2>3, <3>2, <4>1
                <5> QED BY <2>3, <2>6, <4>1, <5>1 DEF block
            <4>2. CASE k # n + 1
                <5>1. k \in 1..n /\ k - 1 \in 0..n
                    <6>1. n \in Int
                        BY <2>3
                    <6> HIDE DEF n
                    <6> QED BY <4>2, <6>1
                <5> QED BY <1>1, <2>5, <2>6, <3>2, <5>1 DEF Trace
            <4> QED BY <4>1, <4>2
        <3>7. Trace(q)'
            BY <2>3, <2>6, <3>3, <3>4, <3>5, <3>6 DEF Trace
        <3> QED BY <3>7
    <2> QED BY <2>7, <2>8, <2>9
<1>5. CASE Read
    <2> DEFINE n == Len(got)
               c == cipher[n + 1]
               block == doublerounds(s[n], params.rounds)
    <2>1. n < Len(cipher) /\ Crypt("reader") /\ UNCHANGED <<plain, cipher>>
          /\ got' = Append(got, Output("reader", c))
        BY <1>5 DEF Read
    <2>2. /\ plain \in Seq(Texts) /\ cipher \in Seq(Texts) /\ got \in Seq(Texts)
          /\ Len(plain) = calls["writer"] /\ Len(cipher) = calls["writer"]
          /\ n = calls["reader"] /\ n \in Nat /\ calls["writer"] \in Nat
        BY <1>2 DEF CallsInv
    <2>3. /\ phase["reader"] = "ready" /\ phase' = phase /\ params' = params
          /\ n \in 0..(MaxCalls - 1) /\ calls' \in [Users -> 0..MaxCalls]
          /\ calls'["reader"] = n + 1 /\ calls'["writer"] = calls["writer"]
          /\ ctx' \in [Users -> [state : States, rounds : 0..255]]
          /\ ctx'["reader"].state = Advanced(s[n])
          /\ ctx'["writer"] = ctx["writer"]
          /\ \A w \in Users : ctx'[w].rounds = ctx[w].rounds
          /\ Output("reader", c) = Combined(c, block)
        <3>1. calls["reader"] <= calls["writer"] /\ "writer" \in Users \ {"reader"}
            BY <1>2, <2>1, <2>2
        <3> HIDE DEF c
        <3> QED BY <1>1, <1>2, <2>1, <2>2, <3>1, CryptStep
    <2>4. c = Combined(plain[n + 1], block) /\ plain[n + 1] \in Texts
        <3>1. n + 1 \in 1..Len(cipher) /\ (n + 1) - 1 = n
            BY <2>1, <2>2
        <3> HIDE DEF Texts
        <3> QED BY <1>1, <2>2, <3>1 DEF Trace
    <2>5. Combined(c, block) = plain[n + 1]
        <3>1. block \in [0..63 -> U8]
            BY BlockIsBytes
        <3> HIDE DEF block, c, n, Texts
        <3> QED BY <2>4, <3>1, CombinedTwice
    <2> HIDE DEF block, c
    <2>6. /\ got' \in Seq(Texts) /\ Len(got') = n + 1 /\ got'[n + 1] = plain[n + 1]
          /\ \A k \in 1..n : got'[k] = got[k]
        <3> HIDE DEF Texts
        <3> QED BY <2>1, <2>2, <2>3, <2>4, <2>5, AppendText
    <2>7. CallsInv'
        <3>1. Len(got') <= Len(cipher')
            BY <2>1, <2>2, <2>6
        <3>2. \A u \in Users : phase'[u] = "new" => calls'[u] = 0
            BY <1>2, <2>3 DEF CallsInv
        <3> QED BY <2>1, <2>2, <2>3, <2>6, <3>1, <3>2 DEF CallsInv
    <2>8. ReaderRecovers'
        <3> SUFFICES ASSUME NEW k \in 1..(n + 1) PROVE got'[k] = plain'[k]
            BY <2>6 DEF ReaderRecovers
        <3>1. k = n + 1 \/ k \in 1..n
            BY <2>2
        <3> QED BY <2>1, <2>6, <3>1 DEF ReaderRecovers
    <2>9. Trace(s)'
        <3>1. \A u \in Users : phase'[u] = "ready" => ctx'[u].state = s[calls'[u]]
            <4>1. n + 1 \in 1..calls["writer"] /\ (n + 1) - 1 = n
                BY <2>1, <2>2
            <4>2. ctx'["reader"].state = s[n + 1]
                BY <1>1, <2>3, <4>1 DEF Trace
            <4>3. phase["writer"] = "ready" =>
                     ctx'["writer"].state = s[calls'["writer"]]
                BY <1>1, <1>2, <2>3 DEF Trace
            <4>4. ctx'["reader"].state = s[calls'["reader"]]
                BY <2>3, <4>2
            <4> QED BY <1>2, <2>3, <4>3, <4>4
        <3> QED BY <1>1, <2>1, <2>3, <3>1 DEF Trace, First
    <2> QED BY <2>7, <2>8, <2>9
<1>6. ASSUME NEW u \in Users, NEW len \in Lengths, TooLong(u, len) PROVE RecoverInv'
    <2>1. /\ phase' = [phase EXCEPT ![u] = "aborted"]
          /\ UNCHANGED <<params, ctx, calls, plain, cipher, got>>
        BY <1>6 DEF TooLong
    <2>2. ReaderRecovers'
        BY <2>1 DEF ReaderRecovers
    <2>3. CallsInv'
        BY <2>1 DEF CallsInv
    <2>4. Trace(s)'
        BY <1>1, <2>1 DEF Trace, First, CallsInv
    <2> QED BY <2>2, <2>3, <2>4
<1>7. CASE UNCHANGED vars
    <2>1. UNCHANGED <<params, ctx, phase, calls, plain, cipher, got>>
        BY <1>7 DEF vars
    <2>2. CallsInv' /\ ReaderRecovers'
        BY <2>1 DEF CallsInv, ReaderRecovers
    <2>3. Trace(s)'
        BY <1>1, <2>1 DEF Trace, First
    <2> QED BY <2>2, <2>3
<1> QED BY <1>3, <1>4, <1>5, <1>6, <1>7 DEF Next

\* The state keeps its types: no carry leaves a word, and no call is given or
\* makes more than a block, for words of every width.
THEOREM TypeIsKept == Spec => []TypeOK
<1>1. RecoverInv => TypeOK
    <2> SUFFICES ASSUME RecoverInv PROVE TypeOK
        OBVIOUS
    <2>1. \A t \in Texts : IsText(t)
        BY DEF Texts, IsText
    <2>2. /\ Len(plain) \in 0..MaxCalls /\ Len(cipher) \in 0..MaxCalls
          /\ Len(got) \in 0..MaxCalls
        BY DEF RecoverInv, CallsInv, Users
    <2>3. /\ \A k \in 1..Len(plain) : plain[k] \in Texts
          /\ \A k \in 1..Len(cipher) : cipher[k] \in Texts
          /\ \A k \in 1..Len(got) : got[k] \in Texts
        <3> HIDE DEF Texts
        <3> QED BY DEF RecoverInv, CallsInv
    <2> QED BY <2>1, <2>2, <2>3 DEF RecoverInv, CallsInv, TypeOK, States
<1> QED BY <1>1, RecoverInit, RecoverStep, PTL DEF Spec

\* The reader recovers every message, whatever the parameters, the lengths and
\* the lead of the writer are.
THEOREM EveryMessageRecovered == Spec => []ReaderRecovers
<1>1. RecoverInv => ReaderRecovers
    BY DEF RecoverInv
<1> QED BY <1>1, RecoverInit, RecoverStep, PTL DEF Spec

------------------------------------------------------------------------------
\* The block counter.

Width == 2 * WordBits
Digit(v, k) == IF Width - k \in v THEN 1 ELSE 0
DigitsAdd(f, b, v) == f = [k \in 0..b |-> IF k = 0 THEN 0 ELSE 2 * f[k - 1] + Digit(v, k)]

\* A set of numbers that has 0, and the next of each it has, has all of them.
LEMMA Induction ==
    ASSUME NEW S, 0 \in S, ASSUME NEW n \in Nat, n \in S PROVE n + 1 \in S
    PROVE  Nat \subseteq S
<1> SUFFICES ASSUME Nat \ S # {} PROVE FALSE
    OBVIOUS
<1> DEFINE R == OpToRel(<, Nat)
<1>1. IsWellFoundedOn(R, Nat)
    BY NatLessThanWellFounded, Zenon
<1>2. \A x, y \in Nat : <<y, x>> \in R <=> y < x
    BY DEF OpToRel
<1> HIDE DEF R
<1>3. PICK x \in Nat \ S : \A y \in Nat \ S : ~(<<y, x>> \in R)
    BY <1>1, WFMin
<1>4. x # 0 /\ x - 1 \in Nat /\ x - 1 < x /\ (x - 1) + 1 = x
    OBVIOUS
<1>5. x - 1 \in S
    BY <1>2, <1>3, <1>4
<1>6. (x - 1) + 1 \in S
    BY <1>4, <1>5
<1> QED BY <1>4, <1>6

\* The digits make a number of any length.
LEMMA DigitsExist == ASSUME NEW v PROVE \A b \in Nat : \E f : DigitsAdd(f, b, v)
<1> DEFINE T == {b \in Nat : \E f : DigitsAdd(f, b, v)}
<1>1. 0 \in T
    <2>1. DigitsAdd([k \in 0..0 |-> 0], 0, v)
        BY DEF DigitsAdd
    <2> QED BY <2>1
<1>2. ASSUME NEW b \in Nat, b \in T PROVE b + 1 \in T
    <2>1. PICK f : DigitsAdd(f, b, v)
        BY <1>2
    <2> DEFINE g == [k \in 0..(b + 1) |-> IF k <= b THEN f[k] ELSE 2 * f[b] + Digit(v, b + 1)]
    <2>2. ASSUME NEW k \in 0..(b + 1)
          PROVE  g[k] = IF k = 0 THEN 0 ELSE 2 * g[k - 1] + Digit(v, k)
        <3>1. CASE k = b + 1
            <4>1. k # 0 /\ k - 1 = b /\ b \in 0..(b + 1) /\ ~(k <= b)
                BY <3>1
            <4>2. g[k] = 2 * f[b] + Digit(v, k) /\ g[k - 1] = f[b]
                BY <3>1, <4>1
            <4> QED BY <4>1, <4>2
        <3>2. CASE k # b + 1
            <4>1. k \in 0..b /\ (k # 0 => k - 1 \in 0..b)
                BY <3>2
            <4>2. f[k] = IF k = 0 THEN 0 ELSE 2 * f[k - 1] + Digit(v, k)
                BY <2>1, <4>1 DEF DigitsAdd
            <4>3. g[k] = f[k] /\ (k # 0 => g[k - 1] = f[k - 1])
                BY <4>1
            <4> QED BY <4>2, <4>3
        <3> QED BY <3>1, <3>2
    <2>3. g = [k \in 0..(b + 1) |-> g[k]]
        OBVIOUS
    <2> HIDE DEF g
    <2>4. DigitsAdd(g, b + 1, v)
        BY <2>2, <2>3 DEF DigitsAdd
    <2> QED BY <2>4
<1> HIDE DEF T
<1>3. Nat \subseteq T
    BY <1>1, <1>2, Induction
<1> QED BY <1>3 DEF T

\* What the recursion in Number adds up, digit by digit.
LEMMA NumberIs ==
    ASSUME NEW v
    PROVE  \E f \in [0..Width -> Nat] :
              /\ f[0] = 0 /\ Number(v) = f[Width]
              /\ \A k \in 1..Width : f[k] = 2 * f[k - 1] + Digit(v, k)
<1> DEFINE f == CHOOSE g : DigitsAdd(g, Width, v)
<1>1. Width \in Nat
    BY Widths DEF Width
<1>2. DigitsAdd(f, Width, v)
    BY <1>1, DigitsExist
<1>3. Number(v) = f[Width]
    BY DEF Number, DigitsAdd, Digit, Width
<1> HIDE DEF f
<1>4. /\ f = [k \in 0..Width |-> f[k]] /\ f[0] = 0
      /\ \A k \in 1..Width : f[k] = 2 * f[k - 1] + Digit(v, k)
    BY <1>1, <1>2 DEF DigitsAdd
<1> DEFINE T == {k \in Nat : k \in 0..Width => f[k] \in Nat}
<1>5. 0 \in T
    BY <1>4
<1>6. ASSUME NEW k \in Nat, k \in T PROVE k + 1 \in T
    <2> SUFFICES ASSUME k + 1 \in 0..Width PROVE f[k + 1] \in Nat
        OBVIOUS
    <2>1. k \in 0..Width /\ k + 1 \in 1..Width /\ (k + 1) - 1 = k
        BY <1>1
    <2>2. f[k] \in Nat /\ f[k + 1] = 2 * f[k] + Digit(v, k + 1)
        BY <1>4, <1>6, <2>1
    <2>3. Digit(v, k + 1) \in Nat
        BY DEF Digit
    <2> QED BY <2>2, <2>3
<1> HIDE DEF T
<1>7. Nat \subseteq T
    BY <1>5, <1>6, Induction
<1>8. \A k \in 0..Width : f[k] \in Nat
    BY <1>7 DEF T
<1>9. f \in [0..Width -> Nat]
    BY <1>4, <1>8
<1> QED BY <1>3, <1>4, <1>9

Positions == 0..(Width - 1)
AllBelow(v, k) == \A m \in 0..(k - 1) : m \in v

\* w has the bits of v plus one: a bit is flipped if all lower ones are set.
Incremented(v, w) == \A k \in Positions : k \in w <=> ~(k \in v <=> AllBelow(v, k))

\* A set without bits is zero.
LEMMA NumberOfNone == ASSUME NEW v, \A k \in Positions : k \notin v PROVE Number(v) = 0
<1>1. PICK f \in [0..Width -> Nat] :
          /\ f[0] = 0 /\ Number(v) = f[Width]
          /\ \A k \in 1..Width : f[k] = 2 * f[k - 1] + Digit(v, k)
    BY NumberIs
<1>2. Width \in Nat
    BY Widths DEF Width
<1> DEFINE T == {k \in Nat : k \in 0..Width => f[k] = 0}
<1>3. 0 \in T
    BY <1>1
<1>4. ASSUME NEW k \in Nat, k \in T PROVE k + 1 \in T
    <2> SUFFICES ASSUME k + 1 \in 0..Width PROVE f[k + 1] = 0
        OBVIOUS
    <2>1. k \in 0..Width /\ k + 1 \in 1..Width /\ (k + 1) - 1 = k
          /\ Width - (k + 1) \in Positions
        BY <1>2 DEF Positions
    <2>2. f[k] = 0 /\ f[k + 1] = 2 * f[k] + Digit(v, k + 1)
        BY <1>1, <1>4, <2>1
    <2>3. Digit(v, k + 1) = 0
        BY <2>1 DEF Digit
    <2> QED BY <2>2, <2>3
<1> HIDE DEF T
<1>5. Nat \subseteq T
    BY <1>3, <1>4, Induction
<1> QED BY <1>1, <1>2, <1>5 DEF T

\* No number of two words is greater than that of all bits.
LEMMA NumberBelow == ASSUME NEW v PROVE Number(v) \in Nat /\ Number(v) < Blocks /\ Blocks \in Nat
<1> DEFINE all == 0..(2 * WordBits - 1)
<1>1. PICK f \in [0..Width -> Nat] :
          /\ f[0] = 0 /\ Number(v) = f[Width]
          /\ \A k \in 1..Width : f[k] = 2 * f[k - 1] + Digit(v, k)
    BY NumberIs
<1>2. PICK g \in [0..Width -> Nat] :
          /\ g[0] = 0 /\ Number(all) = g[Width]
          /\ \A k \in 1..Width : g[k] = 2 * g[k - 1] + Digit(all, k)
    BY NumberIs
<1>3. Width \in Nat /\ all = Positions
    BY Widths DEF Width, Positions
<1> DEFINE T == {k \in Nat : k \in 0..Width => f[k] <= g[k]}
<1>4. 0 \in T
    BY <1>1, <1>2
<1>5. ASSUME NEW k \in Nat, k \in T PROVE k + 1 \in T
    <2> SUFFICES ASSUME k + 1 \in 0..Width PROVE f[k + 1] <= g[k + 1]
        OBVIOUS
    <2>1. k \in 0..Width /\ k + 1 \in 1..Width /\ (k + 1) - 1 = k
          /\ Width - (k + 1) \in Positions
        BY <1>3 DEF Positions
    <2>2. /\ f[k] \in Nat /\ g[k] \in Nat /\ f[k] <= g[k]
          /\ f[k + 1] = 2 * f[k] + Digit(v, k + 1)
          /\ g[k + 1] = 2 * g[k] + Digit(all, k + 1)
        BY <1>1, <1>2, <1>5, <2>1
    <2>3. Digit(v, k + 1) \in {0, 1} /\ Digit(all, k + 1) = 1
        BY <1>3, <2>1 DEF Digit
    <2> QED BY <2>2, <2>3
<1> HIDE DEF T, all
<1>6. Nat \subseteq T
    BY <1>4, <1>5, Induction
<1>7. f[Width] <= g[Width] /\ f[Width] \in Nat /\ g[Width] \in Nat
    BY <1>3, <1>6 DEF T
<1> QED BY <1>1, <1>2, <1>7 DEF Blocks, all

\* The increment of a number that is not the last is one more, and of the last 0.
LEMMA NumberOfNext ==
    ASSUME NEW v, NEW w, Incremented(v, w)
    PROVE  Number(w) = (Number(v) + 1) % Blocks
<1>1. PICK f \in [0..Width -> Nat] :
          /\ f[0] = 0 /\ Number(v) = f[Width]
          /\ \A k \in 1..Width : f[k] = 2 * f[k - 1] + Digit(v, k)
    BY NumberIs
<1>2. PICK g \in [0..Width -> Nat] :
          /\ g[0] = 0 /\ Number(w) = g[Width]
          /\ \A k \in 1..Width : g[k] = 2 * g[k - 1] + Digit(w, k)
    BY NumberIs
<1>3. Width \in Nat /\ 0 \in Positions
    BY Widths DEF Width, Positions
<1>4. CASE \A k \in Positions : k \in v
    <2>1. \A k \in Positions : AllBelow(v, k)
        BY <1>3, <1>4 DEF Positions, AllBelow
    <2>2. \A k \in Positions : k \notin w
        BY <1>4, <2>1 DEF Incremented
    <2>3. Number(w) = 0
        BY <2>2, NumberOfNone
    <2>4. Number(v) + 1 = Blocks
        <3> DEFINE all == 0..(2 * WordBits - 1)
        <3>1. \A k \in 1..Width : Digit(v, k) = Digit(all, k)
            <4> SUFFICES ASSUME NEW k \in 1..Width PROVE Digit(v, k) = Digit(all, k)
                OBVIOUS
            <4>1. Width - k \in Positions /\ Positions = all
                BY <1>3, Widths DEF Positions, Width
            <4> HIDE DEF all
            <4> QED BY <1>4, <4>1 DEF Digit
        <3> HIDE DEF all
        <3>2. PICK h \in [0..Width -> Nat] :
                  /\ h[0] = 0 /\ Number(all) = h[Width]
                  /\ \A k \in 1..Width : h[k] = 2 * h[k - 1] + Digit(all, k)
            BY NumberIs
        <3> DEFINE T == {k \in Nat : k \in 0..Width => f[k] = h[k]}
        <3>3. 0 \in T
            BY <1>1, <3>2
        <3>4. ASSUME NEW k \in Nat, k \in T PROVE k + 1 \in T
            <4> SUFFICES ASSUME k + 1 \in 0..Width PROVE f[k + 1] = h[k + 1]
                OBVIOUS
            <4>1. k \in 0..Width /\ k + 1 \in 1..Width /\ (k + 1) - 1 = k
                BY <1>3
            <4> QED BY <1>1, <3>1, <3>2, <3>4, <4>1
        <3> HIDE DEF T
        <3>5. Nat \subseteq T
            BY <3>3, <3>4, Induction
        <3>6. f[Width] = h[Width]
            BY <1>3, <3>5 DEF T
        <3> QED BY <1>1, <3>2, <3>6 DEF Blocks, all
    <2>5. Number(v) + 1 \in Nat /\ Number(v) + 1 > 0
        BY NumberBelow
    <2>6. (Number(v) + 1) % Blocks = 0
        BY <2>4, <2>5
    <2> QED BY <2>3, <2>6
<1>5. CASE ~(\A k \in Positions : k \in v)
    <2> DEFINE Plus(k) == IF AllBelow(v, Width - k) THEN 1 ELSE 0
               T == {k \in Nat : k \in 0..Width => g[k] = f[k] + Plus(k)}
    <2>1. 0 \in T
        <3>1. ~AllBelow(v, Width - 0)
            BY <1>3, <1>5 DEF AllBelow, Positions
        <3> QED BY <1>1, <1>2, <3>1
    <2>2. ASSUME NEW k \in Nat, k \in T PROVE k + 1 \in T
        <3> SUFFICES ASSUME k + 1 \in 0..Width PROVE g[k + 1] = f[k + 1] + Plus(k + 1)
            OBVIOUS
        <3> DEFINE i == Width - (k + 1)
        <3>1. /\ k \in 0..Width /\ k + 1 \in 1..Width /\ (k + 1) - 1 = k
              /\ i \in Positions /\ Width - k = i + 1
            BY <1>3 DEF Positions
        <3>2. /\ f[k] \in Nat /\ g[k] = f[k] + Plus(k)
              /\ f[k + 1] = 2 * f[k] + Digit(v, k + 1)
              /\ g[k + 1] = 2 * g[k] + Digit(w, k + 1)
            BY <1>1, <1>2, <2>2, <3>1
        <3>3. AllBelow(v, Width - k) <=> AllBelow(v, i) /\ i \in v
            <4>1. i \in Nat /\ 0..((i + 1) - 1) = 0..(i - 1) \cup {i}
                BY <3>1 DEF Positions
            <4> HIDE DEF i
            <4> QED BY <3>1, <4>1 DEF AllBelow
        <3>4. i \in w <=> ~(i \in v <=> AllBelow(v, i))
            BY <3>1 DEF Incremented
        <3> HIDE DEF i
        <3>5. /\ Digit(v, k + 1) = IF i \in v THEN 1 ELSE 0
              /\ Digit(w, k + 1) = IF i \in w THEN 1 ELSE 0
              /\ Plus(k + 1) = IF AllBelow(v, i) THEN 1 ELSE 0
              /\ Plus(k) = IF AllBelow(v, i) /\ i \in v THEN 1 ELSE 0
            BY <3>3 DEF Digit, i
        <3> HIDE DEF Plus
        <3>6. CASE AllBelow(v, i) /\ i \in v
            <4>1. i \notin w
                BY <3>4, <3>6
            <4> QED BY <3>2, <3>5, <3>6, <4>1
        <3>7. CASE AllBelow(v, i) /\ i \notin v
            <4>1. i \in w
                BY <3>4, <3>7
            <4> QED BY <3>2, <3>5, <3>7, <4>1
        <3>8. CASE ~AllBelow(v, i)
            <4>1. i \in w <=> i \in v
                BY <3>4, <3>8
            <4> QED BY <3>2, <3>5, <3>8, <4>1
        <3> QED BY <3>6, <3>7, <3>8
    <2> HIDE DEF T
    <2>3. Nat \subseteq T
        BY <2>1, <2>2, Induction
    <2>4. g[Width] = f[Width] + Plus(Width)
        BY <1>3, <2>3 DEF T
    <2>5. AllBelow(v, Width - Width)
        BY <1>3 DEF AllBelow
    <2>6. Number(w) = Number(v) + 1
        BY <1>1, <1>2, <2>4, <2>5
    <2>7. Number(v) + 1 < Blocks /\ Number(v) + 1 \in Nat /\ Blocks \in Nat
        BY <2>6, NumberBelow
    <2> QED BY <2>6, <2>7
<1> QED BY <1>4, <1>5

\* To advance a state increments its block counter.
LEMMA AdvancedCounts ==
    ASSUME NEW s \in States
    PROVE  Incremented(BlockCounter(s), BlockCounter(Advanced(s)))
<1> DEFINE x == s[12]
           y == s[13]
           v == BlockCounter(s)
           w == BlockCounter(Advanced(s))
           W == WordBits
           up == PLUSONE(x)
           z == IF up = {} THEN PLUSONE(y) ELSE y
<1>1. x \in U32 /\ y \in U32 /\ W \in Nat /\ Width = 2 * W
    BY Widths DEF States, Width
<1>2. /\ Advanced(s)[12] = PLUSONE(x)
      /\ Advanced(s)[13] = IF PLUSONE(x) = {} THEN PLUSONE(y) ELSE y
    BY AdvancedIsState
<1>3. \A k \in 0..(W - 1) : k \in PLUSONE(x) <=> ~(k \in x <=> AllBelow(x, k))
    BY <1>1, PlusOneIs DEF AllBelow
<1>4. \A k \in 0..(W - 1) : k \in PLUSONE(y) <=> ~(k \in y <=> AllBelow(y, k))
    BY <1>1, PlusOneIs DEF AllBelow
<1>5. PLUSONE(x) \in U32 /\ PLUSONE(y) \in U32
    BY <1>1, PlusOneIsWord
<1>6. PLUSONE(x) = {} <=> AllBelow(x, W)
    <2>1. ASSUME AllBelow(x, W) PROVE PLUSONE(x) = {}
        <3>1. \A k \in 0..(W - 1) : AllBelow(x, k) /\ k \in x
            BY <1>1, <2>1 DEF AllBelow
        <3> QED BY <1>3, <1>5, <3>1 DEF U32
    <2>2. ASSUME PLUSONE(x) = {} PROVE AllBelow(x, W)
        <3> DEFINE T == {k \in Nat : AllBelow(x, k) \/ k > W}
        <3>1. 0 \in T
            BY DEF AllBelow
        <3>2. ASSUME NEW k \in Nat, k \in T PROVE k + 1 \in T
            <4>1. CASE k \in 0..(W - 1)
                <5>1. AllBelow(x, k)
                    BY <1>1, <3>2, <4>1
                <5>2. k \in x
                    BY <1>3, <2>2, <4>1, <5>1
                <5>3. \A m \in 0..((k + 1) - 1) : m \in 0..(k - 1) \/ m = k
                    OBVIOUS
                <5> QED BY <5>1, <5>2, <5>3 DEF AllBelow
            <4>2. CASE k \notin 0..(W - 1)
                <5>1. k + 1 > W
                    BY <1>1, <4>2
                <5> QED BY <5>1
            <4> QED BY <4>1, <4>2
        <3> HIDE DEF T
        <3>3. Nat \subseteq T
            BY <3>1, <3>2, Induction
        <3>4. W \in T /\ ~(W > W)
            BY <1>1, <3>3
        <3> QED BY <3>4 DEF T
    <2> QED BY <2>1, <2>2
<1>7. v = x \cup {W + b : b \in y} /\ w = up \cup {W + b : b \in z}
    BY <1>2 DEF BlockCounter
<1>8. /\ \A k \in x : k \in 0..(W - 1)
      /\ \A k \in y : k \in 0..(W - 1)
      /\ \A k \in up : k \in 0..(W - 1)
      /\ \A k \in z : k \in 0..(W - 1)
    BY <1>1, <1>5 DEF U32
<1> HIDE DEF v, w, x, y, W, up, z
<1>9. ASSUME NEW k \in Positions PROVE k \in w <=> ~(k \in v <=> AllBelow(v, k))
    <2>1. CASE k < W
        <3>1. k \in 0..(W - 1)
            BY <1>1, <2>1 DEF Positions
        <3>2. \A b \in 0..(W - 1) : \A m \in 0..k : m # W + b
            BY <1>1, <2>1, <3>1
        <3>3. \A m \in 0..k : /\ m \in v <=> m \in x
                              /\ m \in w <=> m \in up
            BY <1>7, <1>8, <3>2
        <3>4. k \in 0..k /\ \A m \in 0..(k - 1) : m \in 0..k
            BY <3>1
        <3>5. AllBelow(v, k) <=> AllBelow(x, k)
            BY <3>3, <3>4 DEF AllBelow
        <3> QED BY <1>3, <3>1, <3>3, <3>4, <3>5 DEF up
    <2>2. CASE ~(k < W)
        <3> DEFINE b == k - W
        <3>1. b \in 0..(W - 1) /\ k = W + b
            BY <1>1, <2>2 DEF Positions
        <3> HIDE DEF b
        <3>2. \A m \in 0..(W - 1) : \A c \in 0..(W - 1) : m # W + c
            BY <1>1
        <3>3. \A c \in 0..(W - 1) : \A d \in 0..(W - 1) : W + c = W + d => c = d
            BY <1>1
        <3>4. \A c \in 0..(W - 1) :
                 /\ W + c \in v <=> c \in y
                 /\ W + c \in w <=> c \in z
            BY <1>7, <1>8, <3>2, <3>3
        <3>5. \A m \in 0..(W - 1) : m \in v <=> m \in x
            BY <1>7, <1>8, <3>2
        <3>6. AllBelow(v, k) <=> AllBelow(x, W) /\ AllBelow(y, b)
            <4>1. ASSUME AllBelow(v, k) PROVE AllBelow(x, W) /\ AllBelow(y, b)
                <5>1. \A m \in 0..(W - 1) : m \in 0..(k - 1)
                    BY <1>1, <3>1
                <5>2. \A c \in 0..(b - 1) : c \in 0..(W - 1) /\ W + c \in 0..(k - 1)
                    BY <1>1, <3>1
                <5> QED BY <3>4, <3>5, <4>1, <5>1, <5>2 DEF AllBelow
            <4>2. ASSUME AllBelow(x, W), AllBelow(y, b) PROVE AllBelow(v, k)
                <5> SUFFICES ASSUME NEW m \in 0..(k - 1) PROVE m \in v
                    BY DEF AllBelow
                <5>1. CASE m < W
                    <6>1. m \in 0..(W - 1)
                        BY <1>1, <3>1, <5>1
                    <6> QED BY <3>5, <4>2, <6>1 DEF AllBelow
                <5>2. CASE ~(m < W)
                    <6>1. /\ m - W \in 0..(b - 1) /\ m - W \in 0..(W - 1)
                          /\ W + (m - W) = m
                        BY <1>1, <3>1, <5>2
                    <6>2. m - W \in y
                        BY <4>2, <6>1 DEF AllBelow
                    <6> QED BY <3>4, <6>1, <6>2
                <5> QED BY <5>1, <5>2
            <4> QED BY <4>1, <4>2
        <3>7. /\ k \in v <=> b \in y
              /\ k \in w <=> b \in z
            BY <3>1, <3>4
        <3>8. CASE AllBelow(x, W)
            BY <1>4, <1>6, <3>1, <3>6, <3>7, <3>8 DEF up, z
        <3>9. CASE ~AllBelow(x, W)
            BY <1>6, <3>6, <3>7, <3>9 DEF up, z
        <3> QED BY <3>8, <3>9
    <2> QED BY <2>1, <2>2
<1> QED BY <1>9 DEF Incremented, v, w

\* A multiple of n smaller than n is 0.
LEMMA Multiple ==
    ASSUME NEW n \in Nat, n > 0, NEW k \in Int, n * k \in (-n + 1)..(n - 1)
    PROVE  k = 0
<1>1. CASE k >= 1
    <2>1. n * k >= n
        BY <1>1
    <2> QED BY <2>1
<1>2. CASE k <= -1
    <2>1. n * k <= -n
        BY <1>2
    <2> QED BY <2>1
<1> QED BY <1>1, <1>2

\* Numbers with one remainder that are less than n apart are the same.
LEMMA RemaindersDiffer ==
    ASSUME NEW n \in Nat, n > 0, NEW u \in Nat, NEW v \in Nat, u % n = v % n,
           u - v \in (-n + 1)..(n - 1)
    PROVE  u = v
<1> DEFINE d == u \div n
           e == v \div n
           m == u % n
<1>1. u = n * d + m /\ v = n * e + m /\ m \in Nat /\ d \in Int /\ e \in Int
    OBVIOUS
<1> HIDE DEF d, e, m
<1>2. u - v = n * (d - e)
    BY <1>1
<1>3. d - e = 0
    <2>1. n * (d - e) \in (-n + 1)..(n - 1) /\ d - e \in Int
        BY <1>1, <1>2
    <2> QED BY <2>1, Multiple
<1> QED BY <1>1, <1>3

\* One more can be added before or after the remainder is taken.
LEMMA RemainderOfNext ==
    ASSUME NEW n \in Nat, n > 0, NEW u \in Nat
    PROVE  ((u % n) + 1) % n = (u + 1) % n
<1> DEFINE d == u \div n
           m == u % n
           a == (m + 1) % n
           b == (u + 1) % n
           e == (m + 1) \div n
           f == (u + 1) \div n
<1>1. u = n * d + m /\ m \in 0..(n - 1) /\ d \in Int
    OBVIOUS
<1>2. m + 1 = n * e + a /\ a \in 0..(n - 1) /\ e \in Int
    OBVIOUS
<1>3. u + 1 = n * f + b /\ b \in 0..(n - 1) /\ f \in Int
    OBVIOUS
<1> HIDE DEF d, m, a, b, e, f
<1>4. n * (f - (d + e)) = a - b
    BY <1>1, <1>2, <1>3
<1>5. f - (d + e) = 0
    <2>1. n * (f - (d + e)) \in (-n + 1)..(n - 1) /\ f - (d + e) \in Int
        BY <1>1, <1>2, <1>3, <1>4
    <2> QED BY <2>1, Multiple
<1>6. a = b
    BY <1>2, <1>3, <1>4, <1>5
<1> QED BY <1>6 DEF a, b, m

\* What the states that the contexts pass through have counted.
LEMMA TraceCounts ==
    ASSUME RecoverInv, NEW s, Trace(s)
    PROVE  \A k \in 0..calls["writer"] :
              /\ Number(BlockCounter(s[k])) = (Number(BlockCounter(First)) + k) % Blocks
              /\ \A j \in (0..15) \ {12, 13} : s[k][j] = First[j]
<1> DEFINE n == calls["writer"]
           start == Number(BlockCounter(First))
           T == {k \in Nat : k \in 0..n =>
                    /\ Number(BlockCounter(s[k])) = (start + k) % Blocks
                    /\ \A j \in (0..15) \ {12, 13} : s[k][j] = First[j]}
<1>1. start \in Nat /\ start < Blocks /\ Blocks \in Nat
    BY NumberBelow
<1>2. 0 \in T
    <2>1. s[0] = First
        BY DEF Trace
    <2>2. (start + 0) % Blocks = start
        <3> HIDE DEF start
        <3> QED BY <1>1
    <2> HIDE DEF start
    <2> QED BY <2>1, <2>2 DEF start
<1>3. ASSUME NEW k \in Nat, k \in T PROVE k + 1 \in T
    <2> SUFFICES ASSUME k + 1 \in 0..n
                 PROVE  /\ Number(BlockCounter(s[k + 1])) = (start + (k + 1)) % Blocks
                        /\ \A j \in (0..15) \ {12, 13} : s[k + 1][j] = First[j]
        OBVIOUS
    <2>1. n \in Nat
        BY DEF RecoverInv, CallsInv, Users
    <2>2. k \in 0..n /\ k + 1 \in 1..n /\ (k + 1) - 1 = k
        <3> HIDE DEF n
        <3> QED BY <2>1
    <2>3. s[k] \in States /\ s[k + 1] = Advanced(s[k])
        BY <2>2 DEF Trace
    <2>4. Incremented(BlockCounter(s[k]), BlockCounter(s[k + 1]))
        BY <2>3, AdvancedCounts
    <2>5. Number(BlockCounter(s[k + 1])) = (Number(BlockCounter(s[k])) + 1) % Blocks
        BY <2>4, NumberOfNext
    <2>6. Number(BlockCounter(s[k])) = (start + k) % Blocks
        BY <1>3, <2>2
    <2>7. (((start + k) % Blocks) + 1) % Blocks = ((start + k) + 1) % Blocks
        <3>1. start + k \in Nat /\ Blocks > 0 /\ Blocks \in Nat
            <4> HIDE DEF start
            <4> QED BY <1>1
        <3> HIDE DEF start
        <3> QED BY <3>1, RemainderOfNext
    <2>8. (start + k) + 1 = start + (k + 1)
        <3> HIDE DEF start
        <3> QED BY <1>1
    <2>9. \A j \in (0..15) \ {12, 13} : s[k + 1][j] = First[j]
        BY <1>3, <2>2, <2>3, AdvancedIsState
    <2> HIDE DEF start
    <2> QED BY <2>5, <2>6, <2>7, <2>8, <2>9
<1> HIDE DEF T
<1>4. Nat \subseteq T
    BY <1>2, <1>3, Induction
<1>5. \A k \in 0..n : k \in T
    BY <1>4
<1> QED BY <1>5 DEF T

\* The block counter is the first block plus the calls, modulo 2^64, across the
\* carry between its words.
THEOREM CounterIsRight == Spec => []CounterCountsCalls
<1>1. RecoverInv => CounterCountsCalls
    <2> SUFFICES ASSUME RecoverInv, NEW u \in Users, phase[u] = "ready"
                 PROVE  /\ Number(BlockCounter(ctx[u].state))
                              = (Number(BlockCounter(First)) + calls[u]) % Blocks
                        /\ \A j \in (0..15) \ {12, 13} : ctx[u].state[j] = First[j]
        BY DEF CounterCountsCalls, First
    <2>1. PICK s : Trace(s)
        BY DEF RecoverInv
    <2>2. calls[u] \in 0..calls["writer"] /\ ctx[u].state = s[calls[u]]
        <3>1. calls[u] \in Nat /\ calls["writer"] \in Nat /\ calls[u] <= calls["writer"]
            BY DEF RecoverInv, CallsInv, Users
        <3> QED BY <2>1, <3>1 DEF Trace
    <2> QED BY <2>1, <2>2, TraceCounts
<1> QED BY <1>1, RecoverInit, RecoverStep, PTL DEF Spec

\* Within 2^64 calls no state is used twice.
StatesDiffer ==
    \E s : /\ Trace(s)
           /\ \A j, k \in 0..calls["writer"] : j < k /\ k < j + Blocks => s[j] # s[k]

\* The states from which the blocks of the messages are made differ within 2^64
\* calls, so that no two messages are combined with the block of one state.
THEOREM NoStateTwice == Spec => []StatesDiffer
<1>1. RecoverInv => StatesDiffer
    <2> SUFFICES ASSUME RecoverInv PROVE StatesDiffer
        OBVIOUS
    <2>1. PICK s : Trace(s)
        BY DEF RecoverInv
    <2>2. ASSUME NEW j \in 0..calls["writer"], NEW k \in 0..calls["writer"], j < k,
                 k < j + Blocks, s[j] = s[k]
          PROVE  FALSE
        <3> DEFINE start == Number(BlockCounter(First))
                   a == start + j
                   b == start + k
        <3>1. a % Blocks = b % Blocks
            BY <2>1, <2>2, TraceCounts
        <3>2. start \in Nat /\ start < Blocks /\ Blocks \in Nat
            BY NumberBelow
        <3>3. j \in Nat /\ k \in Nat
            BY DEF RecoverInv, CallsInv, Users
        <3> HIDE DEF start
        <3>4. /\ Blocks > 0 /\ a \in Nat /\ b \in Nat /\ a # b
              /\ a - b \in (-Blocks + 1)..(Blocks - 1)
            BY <2>2, <3>2, <3>3
        <3> HIDE DEF a, b
        <3> QED BY <3>1, <3>2, <3>4, RemaindersDiffer
    <2> QED BY <2>1, <2>2 DEF StatesDiffer
<1> QED BY <1>1, RecoverInit, RecoverStep, PTL DEF Spec
==============================================================================
