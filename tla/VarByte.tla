------------------------------ MODULE VarByte ------------------------------
(***************************************************************************)
(* The variable byte code of search_util.cpp, in which document ids and    *)
(* positions are stored.                                                   *)
(*                                                                         *)
(* A value is cut into groups of GroupBits bits, the highest first; a byte *)
(* holds a group above a low bit that says whether another one follows.    *)
(* compress_data takes differences before it encodes, decompress_data adds *)
(* them up again after it decodes, both in unsigned arithmetic.            *)
(***************************************************************************)
EXTENDS Integers, Sequences, FiniteSets

\* What a shift by n bits multiplies or divides by.
Pow2[n \in Nat] == IF n = 0 THEN 1 ELSE 2 * Pow2[n - 1]

CONSTANTS
    GroupBits,   \* bits of a value per byte (7 in the code)
    WordBits,    \* bits of an unsigned int (32 in the code)
    Inputs       \* the arrays that are encoded

ASSUME VarByteAssumption ==
    /\ GroupBits \in Nat \ {0}
    /\ WordBits \in Nat \ {0}
    /\ GroupBits =< WordBits
    /\ Inputs \subseteq Seq(0 .. Pow2[WordBits] - 1)

VARIABLES
    pc,        \* where the caller is
    input,     \* history: the array as the caller had it
    deltas,    \* the caller uses compress_data and decompress_data
    arrays,    \* what is being encoded
    j,         \* the group of arrays[i] to write next
    i,         \* the value being encoded
    buffer,    \* the bytes written
    p,         \* how many bytes the decoder has passed
    v,         \* the value being decoded
    out        \* what has been decoded

vars == <<pc, input, deltas, arrays, j, i, buffer, p, v, out>>

Init ==
    /\ input \in Inputs
    /\ deltas \in BOOLEAN
    /\ arrays = input
    /\ pc = IF deltas THEN "difference" ELSE "encode"
    /\ i = 1
    /\ j = 0
    /\ buffer = << >>
    /\ p = 0
    /\ v = 0
    /\ out = << >>

\* compress_data runs from the back, so every difference is of the originals.
Difference ==
    /\ pc = "difference"
    /\ arrays' = [k \in DOMAIN arrays |->
                    IF k = 1 THEN arrays[k]
                    ELSE (arrays[k] - arrays[k - 1]) % Pow2[WordBits]]
    /\ pc' = "encode"
    /\ UNCHANGED <<input, deltas, j, i, buffer, p, v, out>>

\* The bits up to the highest one set.
BitLength(t) == Cardinality({k \in 0 .. WordBits - 1 : Pow2[k] =< t})

\* Mutant: one group more than the value has.
EncodeValueLong ==
    /\ pc = "encode"
    /\ i =< Len(arrays)
    /\ j' = BitLength(arrays[i]) \div GroupBits + 1
    /\ pc' = "group"
    /\ UNCHANGED <<input, deltas, arrays, i, buffer, p, v, out>>

\* The next value and its highest group.
EncodeValue ==
    /\ pc = "encode"
    /\ i =< Len(arrays)
    /\ j' = BitLength(arrays[i]) \div GroupBits
    /\ pc' = "group"
    /\ UNCHANGED <<input, deltas, arrays, i, buffer, p, v, out>>

\* Mutants: no truncation to a byte; every byte says another follows.
GroupByteWide(t, k) ==
    (t \div Pow2[GroupBits * k]) * 2 + (IF k > 0 THEN 1 ELSE 0)

GroupByteEndless(t, k) ==
    ((t \div Pow2[GroupBits * k]) * 2 + 1) % Pow2[GroupBits + 1]

\* The assignment to a char keeps the low GroupBits + 1 bits.
GroupByte(t, k) ==
    ((t \div Pow2[GroupBits * k]) * 2 + (IF k > 0 THEN 1 ELSE 0))
        % Pow2[GroupBits + 1]

\* Another byte, and the next value after a value's last one.
EncodeGroup ==
    /\ pc = "group"
    /\ buffer' = Append(buffer, GroupByte(arrays[i], j))
    /\ IF j > 0
       THEN /\ j' = j - 1
            /\ UNCHANGED <<pc, i>>
       ELSE /\ pc' = "encode"
            /\ i' = i + 1
            /\ UNCHANGED j
    /\ UNCHANGED <<input, deltas, arrays, p, v, out>>

EncodeDone ==
    /\ pc = "encode"
    /\ i > Len(arrays)
    /\ pc' = "decode"
    /\ UNCHANGED <<input, deltas, arrays, j, i, buffer, p, v, out>>

-----------------------------------------------------------------------------
\* What lies behind the buffer does not matter: StaysInBuffer.
Byte(k) == IF k < Len(buffer) THEN buffer[k + 1] ELSE 0

\* Mutants: v is not reset; p does not advance.
DecodeValueAdds ==
    /\ pc = "decode"
    /\ p < Len(buffer)
    /\ v' = (v + Byte(p) \div 2) % Pow2[WordBits]
    /\ pc' = "more"
    /\ UNCHANGED <<input, deltas, arrays, j, i, buffer, p, out>>

DecodeMoreStuck ==
    /\ pc = "more"
    /\ Byte(p) % 2 = 1
    /\ v' = (v % Pow2[WordBits - GroupBits]) * Pow2[GroupBits] + Byte(p + 1) \div 2
    /\ UNCHANGED <<pc, input, deltas, arrays, j, i, buffer, p, out>>

DecodeValue ==
    /\ pc = "decode"
    /\ p < Len(buffer)
    /\ v' = Byte(p) \div 2
    /\ pc' = "more"
    /\ UNCHANGED <<input, deltas, arrays, j, i, buffer, p, out>>

\* The byte under p says another follows; the code does not look at len here.
DecodeMore ==
    /\ pc = "more"
    /\ Byte(p) % 2 = 1
    /\ p' = p + 1
    /\ v' = (v % Pow2[WordBits - GroupBits]) * Pow2[GroupBits] + Byte(p + 1) \div 2
    /\ UNCHANGED <<pc, input, deltas, arrays, j, i, buffer, out>>

DecodeLast ==
    /\ pc = "more"
    /\ Byte(p) % 2 = 0
    /\ p' = p + 1
    /\ out' = Append(out, v)
    /\ pc' = "decode"
    /\ UNCHANGED <<input, deltas, arrays, j, i, buffer, v>>

\* Mutant: sums wider than an unsigned int.
SumsWide(s) ==
    LET sum[k \in DOMAIN s] == IF k = 1 THEN s[k] ELSE s[k] + sum[k - 1]
    IN  [k \in DOMAIN s |-> sum[k]]

\* The sums of decompress_data, or nothing to add up.
Sums(s) ==
    LET sum[k \in DOMAIN s] ==
            IF k = 1 THEN s[k] ELSE (s[k] + sum[k - 1]) % Pow2[WordBits]
    IN  [k \in DOMAIN s |-> sum[k]]

DecodeDone ==
    /\ pc = "decode"
    /\ p >= Len(buffer)
    /\ out' = IF deltas THEN Sums(out) ELSE out
    /\ pc' = "done"
    /\ UNCHANGED <<input, deltas, arrays, j, i, buffer, p, v>>

Done == pc = "done" /\ UNCHANGED vars

Encode == Difference \/ EncodeValue \/ EncodeGroup \/ EncodeDone

Decode == DecodeValue \/ DecodeMore \/ DecodeLast \/ DecodeDone

Next == Encode \/ Decode \/ Done

\* One thread runs the loops.
Spec == Init /\ [][Next]_vars /\ WF_vars(Encode \/ Decode)

-----------------------------------------------------------------------------
UnsignedInt == 0 .. Pow2[WordBits] - 1

\* Values fit an unsigned int and bytes fit a byte.
TypeOK ==
    /\ pc \in {"difference", "encode", "group", "decode", "more", "done"}
    /\ input \in Seq(UnsignedInt)
    /\ deltas \in BOOLEAN
    /\ arrays \in Seq(UnsignedInt)
    /\ j \in 0 .. WordBits
    /\ i \in Nat \ {0}
    /\ buffer \in Seq(0 .. Pow2[GroupBits + 1] - 1)
    /\ p \in Nat
    /\ v \in UnsignedInt
    /\ out \in Seq(UnsignedInt)

\* What comes out is what went in, deltas or not.
RoundTrip == pc = "done" => out = input

\* The values decoded so far are the first ones encoded: no error in one
\* value is made up for by another.
DecodesInOrder ==
    pc \in {"decode", "more"} =>
        /\ Len(out) =< Len(arrays)
        /\ \A k \in DOMAIN out : out[k] = arrays[k]

\* The callers allocate five bytes for a value of 32 bits, in groups of 7.
FitsBuffer ==
    Len(buffer) =< Len(arrays) * (WordBits \div GroupBits + 1)

\* The inner loop of the decoder, which does not compare i with len, never
\* looks behind the end of the buffer.
StaysInBuffer == pc = "more" => p < Len(buffer)

\* Both loops end.
Terminates == <>(pc = "done")

=============================================================================
