-------------------------- MODULE IndexRefinement --------------------------
(***************************************************************************)
(* IndexStore implements InvertedIndex.                                    *)
(***************************************************************************)
EXTENDS IndexStore, SequencesExt

\* From the end of the merge to the end of clean() the postings in memory
\* have been handed over.
Handed == Window \cup {"rm_pos", "mv_pos", "clean"}

PendingView == IF pc \in Handed THEN << >> ELSE m_words

\* While main's files are being replaced, the index they will be is the one
\* in memory and the middle file.
LiveIndex == IF pc \in Window THEN wordPos["main"] ELSE wordFile["main"]

LiveDocs ==
    IF pc \in Window THEN docFile["mid"].recs ELSE docFile["main"].recs

\* The postings of an item.
ItemBag(e) == ToBag([i \in DOMAIN e.docs |-> <<e.docs[i], e.hits[i]>>])

CommittedView ==
    [w \in Words |->
        IF w \in DOMAIN LiveIndex
        THEN ItemBag(LiveDocs[LiveIndex[w].start_offset])
        ELSE EmptyBag]

Abstract == INSTANCE InvertedIndex
    WITH pending <- PendingView, committed <- CommittedView

\* Seen through its files, the store only ever adds a document to what is
\* pending, commits everything pending in one step, or loses what is pending.
ImplementsInvertedIndex == Abstract!Spec

=============================================================================
