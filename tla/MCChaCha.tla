------------------------------ MODULE MCChaCha ------------------------------
(***************************************************************************)
(* ChaCha with words of eight bits, so that the block counter overflows;   *)
(* the block function of 32 bits is compared with published vectors, and   *)
(* encrypt_node with identifiers of the project's tests.                   *)
(***************************************************************************)
EXTENDS ChaCha

MCKeys == {[k \in 0..31 |-> {k % 2}]}
MCIVs == {[k \in 0..7 |-> IF k < 4 THEN {} ELSE {0, 1}]}
\* The first block of the source, and the last of the low word.
MCCounters == {{}, 0..7}
MCMessages == {[k \in 0..63 |-> {k % 2}]}

Real == INSTANCE ChaChaBlock WITH WordBits <- 32

Bits(n) == {b \in 0..7 : (n \div 2^b) % 2 = 1}

\* First bytes of the key stream of a key and an initialization vector of zeroes.
FirstBytes(keylen, rounds) ==
    LET block == Real!doublerounds(
            Real!InitialState([k \in 0..31 |-> {}], keylen, [k \in 0..7 |-> {}], {}), rounds)
    IN  [k \in 1..4 |-> block[k - 1]]

VectorBytes(s) == [k \in 1..4 |-> Bits(s[k])]

\* The eight-round vector of a key of 128 bits, and the twenty-round vector of
\* one of 256.
ASSUME TestVectors ==
    /\ FirstBytes(128, 8) = VectorBytes(<<226, 138, 95, 164>>)
    /\ FirstBytes(256, 20) = VectorBytes(<<118, 184, 224, 173>>)

\* Identifiers of the project's own tests (quid_test.c), by the bytes of their
\* time_low from the lowest on, their clock sequence and their node.
TestIdentifiers ==
    {[low |-> <<240, 138, 243, 250>>, seq |-> <<202, 67>>,
      node |-> <<117, 207, 208, 187, 87, 37>>],
     [low |-> <<104, 36, 255, 211>>, seq |-> <<128, 0>>,
      node |-> <<156, 221, 155, 39, 253, 100>>]}

Decrypted(u) ==
    LET prekey == Real!Load([k \in 0..3 |-> Bits(u.low[k + 1])], 0)
        stream == Real!NodeStream(prekey, Bits(u.seq[1]), Bits(u.seq[2]))
    IN  [k \in 1..6 |-> Flip(Bits(u.node[k]), stream[k - 1])]

\* encrypt_node turns their nodes into version, flag, category and padding.
ASSUME NodesDecrypt ==
    \A u \in TestIdentifiers :
        Decrypted(u) = [k \in 1..6 |-> Bits(<<18, 0, 1, 18, 130, 123>>[k])]
=============================================================================
