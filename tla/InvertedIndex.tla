--------------------------- MODULE InvertedIndex ---------------------------
(***************************************************************************)
(* What the index manager promises its callers, with no files in sight.    *)
(*                                                                         *)
(* A document handed to Search_Index_File_Manager::add_doc is pending      *)
(* until a save_index moves every pending posting into the committed       *)
(* index in one step; a crash loses what is pending and nothing else.      *)
(* IndexStore implements this with six files and a merge.                  *)
(***************************************************************************)
EXTENDS Naturals, Sequences, FiniteSets, Bags

CONSTANTS
    Words,      \* word ids
    Docs,       \* document ids
    Contents    \* what a parsed document may hold: [some words -> positions]

VARIABLES
    pending,    \* [some words -> [some docs -> positions]]
    committed   \* [Words -> bag of <<doc, number of occurrences>>]

avars == <<pending, committed>>

(***************************************************************************)
(* The postings of a word once document d, with content c, joins them: the *)
(* document's new entry replaces the one it had.                           *)
(***************************************************************************)
WithDoc(postings, d, c) ==
    [w \in DOMAIN postings \cup DOMAIN c |->
        LET old == IF w \in DOMAIN postings THEN postings[w] ELSE << >>
        IN  IF w \in DOMAIN c
            THEN [e \in DOMAIN old \cup {d} |-> IF e = d THEN c[w] ELSE old[e]]
            ELSE old]

\* The postings of one word as the committed index keeps them.
PostingBag(postings, w) ==
    IF w \in DOMAIN postings
    THEN SetToBag({<<d, Len(postings[w][d])>> : d \in DOMAIN postings[w]})
    ELSE EmptyBag

Init ==
    /\ pending = << >>
    /\ committed = [w \in Words |-> EmptyBag]

AddDoc(d, c) ==
    /\ pending' = WithDoc(pending, d, c)
    /\ UNCHANGED committed

Commit ==
    /\ committed' = [w \in Words |-> committed[w] (+) PostingBag(pending, w)]
    /\ pending' = << >>

Lose ==
    /\ pending' = << >>
    /\ UNCHANGED committed

Next ==
    \/ \E d \in Docs, c \in Contents : AddDoc(d, c)
    \/ Commit
    \/ Lose

Spec == Init /\ [][Next]_avars

=============================================================================
