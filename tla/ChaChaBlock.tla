----------------------------- MODULE ChaChaBlock -----------------------------
(***************************************************************************)
(* The block function of chacha.c and the key that encrypt_node of quid.c  *)
(* makes for it.  A word and a byte are the sets of their one bits.        *)
(***************************************************************************)
EXTENDS Integers, Sequences

CONSTANT WordBits   \* 32

ASSUME WordAssumption == WordBits \in Nat /\ WordBits > 3 /\ WordBits % 4 = 0

ByteBits == WordBits \div 4

U32 == SUBSET (0..(WordBits - 1))
U8 == SUBSET (0..(ByteBits - 1))

Flip(v, w) == (v \ w) \cup (w \ v)    \* XOR

\* A carry reaches bit k from a bit below that both have, through bits that one
\* of them has.
Carries(v, w) ==
    {k \in 1..(WordBits - 1) : \E j \in 0..(k - 1) :
        j \in v \cap w /\ \A m \in (j + 1)..(k - 1) : m \in v \cup w}

ADDITION(v, w) == Flip(Flip(v, w), Carries(v, w))
PLUSONE(v) == ADDITION(v, {0})

ROTATE(v, c) == {(b + c) % WordBits : b \in v}

QUARTERROUND(x, q) ==
    LET a1 == ADDITION(x[q[1]], x[q[2]])
        d1 == ROTATE(Flip(x[q[4]], a1), 16)
        c1 == ADDITION(x[q[3]], d1)
        b1 == ROTATE(Flip(x[q[2]], c1), 12)
        a2 == ADDITION(a1, b1)
        d2 == ROTATE(Flip(d1, a2), 8)
        c2 == ADDITION(c1, d2)
        b2 == ROTATE(Flip(b1, c2), 7)
    IN  [x EXCEPT ![q[1]] = a2, ![q[2]] = b2, ![q[3]] = c2, ![q[4]] = d2]

\* Of a double round: the columns, then the diagonals.
Quarters == <<<<0, 4, 8, 12>>, <<1, 5, 9, 13>>, <<2, 6, 10, 14>>, <<3, 7, 11, 15>>,
              <<0, 5, 10, 15>>, <<1, 6, 11, 12>>, <<2, 7, 8, 13>>, <<3, 4, 9, 14>>>>

\* An odd number of rounds is rounded up.
doublerounds(input, rounds) ==
    LET n == 8 * ((rounds + 1) \div 2)
        x[k \in 0..n] ==
            IF k = 0 THEN input ELSE QUARTERROUND(x[k - 1], Quarters[1 + ((k - 1) % 8)])
        merged == [j \in 0..15 |-> ADDITION(x[n][j], input[j])]
    IN  [k \in 0..63 |-> {b \in 0..(ByteBits - 1) :
                            ByteBits * (k % 4) + b \in merged[k \div 4]}]

------------------------------------------------------------------------------
\* U8TO32_LITTLE of four bytes from the k-th on.
Load(bytes, k) == UNION {{ByteBits * j + b : b \in bytes[k + j]} : j \in 0..3}

\* "expa", "nd 3" or "nd 1", "2-by" or "6-by", "te k"
SIGMA == <<{0, 2, 5, 6, 11, 12, 13, 14, 20, 21, 22, 24, 29, 30},
           {1, 2, 3, 5, 6, 10, 13, 14, 21, 24, 25, 28, 29},
           {1, 4, 5, 8, 10, 11, 13, 17, 21, 22, 24, 27, 28, 29, 30},
           {2, 4, 5, 6, 8, 10, 13, 14, 21, 24, 25, 27, 29, 30}>>
TAU == [SIGMA EXCEPT ![2] = {1, 2, 3, 5, 6, 10, 13, 14, 21, 24, 28, 29},
                     ![3] = {1, 2, 4, 5, 8, 10, 11, 13, 17, 21, 22, 24, 27, 28, 29, 30}]

\* chacha_init for one of the lengths it knows.
InitialState(key, keylen, iv, counter) ==
    LET upper == IF keylen = 256 THEN 16 ELSE 0
    IN  [j \in 0..15 |->
            CASE j \in 0..3   -> (IF keylen = 256 THEN SIGMA ELSE TAU)[j + 1] \cap (0..(WordBits - 1))
              [] j \in 4..7   -> Load(key, 4 * (j - 4))
              [] j \in 8..11  -> Load(key, upper + 4 * (j - 8))
              [] j = 12       -> counter
              [] j = 13       -> {}
              [] j \in 14..15 -> Load(iv, 4 * (j - 14))]

------------------------------------------------------------------------------
\* Key stretching of encrypt_node: the k-th byte of the key, from the bytes of
\* time_low, and the k-th of the initialization vector.
StretchedKey(prekey) ==
    LET p(j) == {b \in 0..7 : 8 * (j % 4) + b \in prekey}
        tag(j) == {b \in 0..1 : (j \div 2^b) % 2 = 1}
    IN  [k \in 0..15 |->
            LET j == k \div 4
            IN  CASE k % 4 = 0 -> tag(j)
                  [] k % 4 = 1 -> p(j) \cup p(j + 2)
                  [] k % 4 = 2 -> Flip(p(j), p(j + 1))
                  [] k % 4 = 3 -> p(j)]

DerivedIV(preiv1, preiv2) ==
    [k \in 0..7 |-> <<{}, {0}, Flip(preiv1, preiv2), preiv1,
                      {2}, {0, 2}, preiv2 \cap preiv1, preiv2>>[k + 1]]

\* The six bytes that are combined with the node.
NodeStream(prekey, preiv1, preiv2) ==
    LET block == doublerounds(InitialState(StretchedKey(prekey), 128,
                                           DerivedIV(preiv1, preiv2), {}), 4)
    IN  [k \in 0..5 |-> block[k]]
==============================================================================
