------------------------------ MODULE MCParser ------------------------------
(***************************************************************************)
(* Small instances of Parser for TLC: 0 is what lies between words.        *)
(***************************************************************************)
EXTENDS Parser

\* Words are the longest runs without a 0.
Starts(t) == {i \in DOMAIN t : t[i] # 0 /\ (i > 1 => t[i - 1] = 0)}

WordAt(t, i) ==
    SubSeq(t, i, Min({j \in i .. Len(t) : j = Len(t) \/ t[j + 1] = 0}))

MCSegment(t) ==
    LET starts == SetToSortSeq(Starts(t), <)
    IN  [k \in DOMAIN starts |->
            [word |-> WordAt(t, starts[k]), off |-> starts[k] - 1]]

\* Sums of bytes, so that words with the same letters have the same id.
SumOf(s) == FoldSeq(+, 0, s)

MCWordCode(text) == SumOf(text)

MCDocCode(state, word) ==
    FoldSeq(LAMBDA b, n : (SumOf(b) + 3 * b[1] + n) % 11, SumOf(word), state)

\* Nothing; words of one id; a word on a border of two reads and the same
\* word again, in more than two MD5 blocks.
MCContents ==
    {<< >>, <<0, 1, 2, 0, 2, 1, 0, 3>>,
     <<3, 0, 0, 1, 3, 0, 0, 3, 0, 1, 0, 0, 0, 3, 0, 0, 3, 0, 1>>}

\* Of this segmentation, and of no library: words that lie in a part of a text
\* are words of the part, too.  UncutWordsEntered supposes it.
PartsSegmentAlike ==
    \A c \in MCContents : \A i \in 0 .. Len(c) : \A j \in i .. Len(c) :
        \A v \in Range(MCSegment(c)) :
            i =< v.off /\ v.off + Len(v.word) =< j =>
                \E u \in Range(MCSegment(SubSeq(c, i + 1, j))) : u.word = v.word

ASSUME MCPartsAssumption == PartsSegmentAlike

MCPaths == {<<1>>, <<2>>}

=============================================================================
