-------------------------------- MODULE ChaCha --------------------------------
(***************************************************************************)
(* The stream cipher of chacha.c at work: a writer encrypts messages with  *)
(* chacha_next or chacha_xor, call by call, and a reader decrypts them in  *)
(* their order, with either function.  encrypt_node is a writer, and the   *)
(* accessors are readers, of one message of six bytes.                     *)
(***************************************************************************)
EXTENDS ChaChaBlock

CONSTANTS Keys, IVs,   \* given to chacha_init
          Counters,    \* its first block: 0 in the source
          KeyLengths,  \* 128, 256, and what it refuses
          Rounds,      \* given to chacha_init_ctx
          Messages,    \* sequences of bytes, numbered from 0
          Lengths,     \* of messages; more than 64 is refused
          MaxCalls     \* bound: calls of each user

ASSUME ChaChaAssumption ==
    /\ Keys \subseteq [0..31 -> U8] /\ IVs \subseteq [0..7 -> U8]
    /\ Counters \subseteq U32
    /\ KeyLengths \subseteq Nat /\ Rounds \subseteq 0..255 /\ Lengths \subseteq Nat
    /\ Messages \subseteq [0..63 -> U8] /\ MaxCalls \in Nat

Users == {"writer", "reader"}

VARIABLES params,   \* what both users give to chacha_init_ctx and chacha_init
          ctx,      \* chacha_ctx of each
          phase,    \* "new", "ready", or "aborted"
          calls,    \* ghost: calls of chacha_next and chacha_xor since then
          plain,    \* what the writer has encrypted,
          cipher,   \* what came of it,
          got       \* and what the reader has made of that

vars == <<params, ctx, phase, calls, plain, cipher, got>>

Init ==
    /\ params \in [key : Keys, iv : IVs, counter : Counters, keylen : KeyLengths,
                   rounds : Rounds]
    /\ ctx = [u \in Users |-> [state |-> [j \in 0..15 |-> {}], rounds |-> 0]]
    /\ phase = [u \in Users |-> "new"]
    /\ calls = [u \in Users |-> 0]
    /\ plain = <<>> /\ cipher = <<>> /\ got = <<>>

\* chacha_init_ctx and chacha_init, which abort on values that make no sense.
Start(u) ==
    /\ phase[u] = "new"
    /\ IF params.rounds < 2 \/ params.keylen \notin {128, 256}
       THEN phase' = [phase EXCEPT ![u] = "aborted"] /\ UNCHANGED ctx
       ELSE /\ phase' = [phase EXCEPT ![u] = "ready"]
            /\ ctx' = [ctx EXCEPT ![u] =
                  [state |-> InitialState(params.key, params.keylen, params.iv, params.counter),
                   rounds |-> params.rounds]]
    /\ UNCHANGED <<params, calls, plain, cipher, got>>

\* Fault: the carry of the block counter is lost.
Advanced_NoCarry(state) == [state EXCEPT ![12] = PLUSONE(@)]

\* The 64-bit block counter.
Advanced(state) ==
    [state EXCEPT ![12] = PLUSONE(@),
                  ![13] = IF PLUSONE(state[12]) = {} THEN PLUSONE(@) ELSE @]

\* Fault: the loop runs over the block instead of the input.
Combined_Whole(message, block) ==
    [k \in DOMAIN block |-> IF k \in DOMAIN message THEN Flip(message[k], block[k]) ELSE block[k]]

Combined(message, block) == [k \in DOMAIN message |-> Flip(message[k], block[k])]

\* A call of user u.  chacha_next takes 64 bytes; chacha_xor takes
\* up to 64, and what is left of the block is not used.
Crypt(u) ==
    /\ phase[u] = "ready" /\ calls[u] < MaxCalls
    /\ ctx' = [ctx EXCEPT ![u].state = Advanced(@)]
    /\ calls' = [calls EXCEPT ![u] = @ + 1]
    /\ UNCHANGED <<params, phase>>

Output(u, message) == Combined(message, doublerounds(ctx[u].state, ctx[u].rounds))

Part(m, len) == [k \in 0..(len - 1) |-> m[k]]

Write(m, len) ==
    /\ len <= 64
    /\ Crypt("writer")
    /\ plain' = Append(plain, Part(m, len))
    /\ cipher' = Append(cipher, Output("writer", Part(m, len)))
    /\ UNCHANGED got

Read ==
    /\ Len(got) < Len(cipher)
    /\ LET c == cipher[Len(got) + 1]
       IN  Crypt("reader") /\ got' = Append(got, Output("reader", c))
    /\ UNCHANGED <<plain, cipher>>

\* chacha_xor of more than a block aborts.
TooLong(u, len) ==
    /\ phase[u] = "ready" /\ len > 64
    /\ phase' = [phase EXCEPT ![u] = "aborted"]
    /\ UNCHANGED <<params, ctx, calls, plain, cipher, got>>

Next ==
    \/ \E u \in Users : Start(u)
    \/ \E m \in Messages, len \in Lengths : Write(m, len)
    \/ Read
    \/ \E u \in Users, len \in Lengths : TooLong(u, len)

Spec == Init /\ [][Next]_vars

------------------------------------------------------------------------------
\* Properties.

IsText(t) == \E len \in 0..64 : t \in [0..(len - 1) -> U8]

TypeOK ==
    /\ params \in [key : Keys, iv : IVs, counter : Counters, keylen : KeyLengths,
                   rounds : Rounds]
    /\ ctx \in [Users -> [state : [0..15 -> U32], rounds : 0..255]]
    /\ phase \in [Users -> {"new", "ready", "aborted"}]
    /\ calls \in [Users -> 0..MaxCalls]
    /\ \A s \in {plain, cipher, got} :
          Len(s) \in 0..MaxCalls /\ \A k \in 1..Len(s) : IsText(s[k])

\* The reader recovers every message, whichever lengths the writer has used and
\* however far it is ahead (chacha_next, chacha_xor).
ReaderRecovers == \A k \in 1..Len(got) : got[k] = plain[k]

\* A number of two words, bit by bit from the highest.
Number(v) ==
    LET n[k \in 0..(2 * WordBits)] ==
            IF k = 0 THEN 0 ELSE 2 * n[k - 1] + (IF 2 * WordBits - k \in v THEN 1 ELSE 0)
    IN  n[2 * WordBits]

BlockCounter(state) == state[12] \cup {WordBits + b : b \in state[13]}

Blocks == Number(0..(2 * WordBits - 1)) + 1    \* 2^64

\* The block counter in words 12 and 13 counts the calls from the first block
\* on, across the carry, so that no two of 2^64 messages are combined with the
\* same block; the rest of the state stays (chacha_next, chacha_xor).
CounterCountsCalls ==
    \A u \in Users : phase[u] = "ready" =>
        LET start == InitialState(params.key, params.keylen, params.iv, params.counter)
        IN  /\ Number(BlockCounter(ctx[u].state))
                   = (Number(BlockCounter(start)) + calls[u]) % Blocks
            /\ \A j \in (0..15) \ {12, 13} : ctx[u].state[j] = start[j]
==============================================================================
