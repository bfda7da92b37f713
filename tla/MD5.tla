--------------------------------- MODULE MD5 ---------------------------------
(***************************************************************************)
(* The streaming half of search_md5.cpp: how MD5Update and MD5Final cut    *)
(* what they are given into blocks, whatever the sizes of the pieces, and  *)
(* keep its length.  What the rounds of MD5Transform make of a block is    *)
(* left out: the four state words are the sequence of blocks transformed.  *)
(* An input is a sequence of bytes.                                        *)
(***************************************************************************)
EXTENDS Integers, Sequences

CONSTANTS
    BlockBytes,  \* bytes of a block (64)
    WordBytes,   \* bytes of a word of MD5_CTX (4)
    ByteMod,     \* values of a byte (256)
    WordMod      \* values of a word (2^32)

\* Values of n bytes.
Power[n \in Nat] == IF n = 0 THEN 1 ELSE ByteMod * Power[n - 1]

ASSUME MD5Assumption ==
    /\ BlockBytes \in Nat
    /\ WordBytes \in Nat \ {0}
    /\ 2 * WordBytes < BlockBytes
    /\ ByteMod \in Nat \ {0}
    /\ WordMod \in Nat \ {0}
    /\ WordMod = Power[WordBytes]
    /\ WordMod % (8 * BlockBytes) = 0

Garbage == -1  \* a byte of MD5_CTX.buffer nobody has written

\* MD5_CTX: the length in bits, low word first, the state and the buffer.
MD5Init ==
    [count |-> <<0, 0>>,
     state |-> << >>,
     buffer |-> [j \in 1 .. BlockBytes |-> Garbage]]

PADDING == [j \in 1 .. BlockBytes |-> IF j = 1 THEN 128 ELSE 0]

MD5Transform(state, block) == Append(state, block)

\* memcpy(&buffer[index], s, Len(s)).
Copied(buffer, index, s) ==
    SubSeq(buffer, 1, index) \o s
        \o SubSeq(buffer, index + Len(s) + 1, BlockBytes)

Block(m, k) == SubSeq(m, BlockBytes * (k - 1) + 1, BlockBytes * k)

\* (count[0] >> 3) & 0x3F: how much of the buffer is filled.
Filled(ctx) == (ctx.count[1] \div 8) % BlockBytes

\* Mutant: the high word misses the carry.
AddLengthNoCarry(count, n) ==
    <<(count[1] + 8 * n) % WordMod,
      (count[2] + n \div (WordMod \div 8)) % WordMod>>

\* The 64 bit length in two words: the carry shows as a sum below a summand.
AddLength(count, n) ==
    LET bits == (8 * n) % WordMod
        low == (count[1] + bits) % WordMod
        carry == IF low < bits THEN 1 ELSE 0
    IN  <<low, (count[2] + carry + n \div (WordMod \div 8)) % WordMod>>

\* Mutant: a block that is just completed waits for the next byte.
MD5UpdateLate(ctx, input) ==
    LET index == Filled(ctx)
        partlen == BlockBytes - index
        n == Len(input)
        whole == (n - partlen) \div BlockBytes
        first == Copied(ctx.buffer, index, SubSeq(input, 1, partlen))
        rest == SubSeq(input, partlen + BlockBytes * whole + 1, n)
    IN  [count |-> AddLength(ctx.count, n),
         state |-> IF n > partlen
                   THEN MD5Transform(ctx.state, first)
                            \o [k \in 1 .. whole |->
                                  Block(SubSeq(input, partlen + 1, n), k)]
                   ELSE ctx.state,
         buffer |-> IF n > partlen THEN Copied(first, 0, rest)
                    ELSE Copied(ctx.buffer, index, input)]

\* The buffer is filled up and transformed, then whole blocks straight from
\* the input, and what remains waits in the buffer.
MD5Update(ctx, input) ==
    LET index == Filled(ctx)
        partlen == BlockBytes - index
        n == Len(input)
        whole == (n - partlen) \div BlockBytes
        first == Copied(ctx.buffer, index, SubSeq(input, 1, partlen))
        rest == SubSeq(input, partlen + BlockBytes * whole + 1, n)
    IN  [count |-> AddLength(ctx.count, n),
         state |-> IF n >= partlen
                   THEN MD5Transform(ctx.state, first)
                            \o [k \in 1 .. whole |->
                                  Block(SubSeq(input, partlen + 1, n), k)]
                   ELSE ctx.state,
         buffer |-> IF n >= partlen THEN Copied(first, 0, rest)
                    ELSE Copied(ctx.buffer, index, input)]

\* The bytes of the two words of the length, low byte first.
MD5Encode(count) ==
    [j \in 1 .. 2 * WordBytes |->
        (count[(j - 1) \div WordBytes + 1] \div Power[(j - 1) % WordBytes])
            % ByteMod]

\* padlen: up to where the length goes, in this block or the next.
PadLength(index) ==
    IF index < BlockBytes - 2 * WordBytes
    THEN BlockBytes - 2 * WordBytes - index
    ELSE 2 * BlockBytes - 2 * WordBytes - index

MD5Final(ctx) ==
    MD5Update(MD5Update(ctx, SubSeq(PADDING, 1, PadLength(Filled(ctx)))),
              MD5Encode(ctx.count))

-----------------------------------------------------------------------------
(* What the digest should be of: the message, a one bit, zeros and the     *)
(* message's length in bits, cut into blocks.                              *)

Blocks(m) == [k \in 1 .. Len(m) \div BlockBytes |-> Block(m, k)]

LengthBytes(n) ==
    [j \in 1 .. 2 * WordBytes |-> ((8 * n) \div Power[j - 1]) % ByteMod]

Padded(m) ==
    LET zeros == (BlockBytes - ((Len(m) + 1 + 2 * WordBytes) % BlockBytes))
                    % BlockBytes
    IN  m \o <<128>> \o [j \in 1 .. zeros |-> 0] \o LengthBytes(Len(m))

=============================================================================
