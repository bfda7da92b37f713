----------------------- MODULE IndexRefinementProofs -----------------------
(***************************************************************************)
(* Proofs that IndexStore implements InvertedIndex, for every value of the *)
(* constants: through all its files, the index commits what is pending in  *)
(* one step, or loses what is pending, and does nothing else.              *)
(***************************************************************************)
EXTENDS IndexRefinement, IndexStoreProofs, FiniteSetTheorems

-----------------------------------------------------------------------------
(* The invariant.                                                          *)

\* The troubles callers are promised to survive: deaths outside the window
\* in which main's files are replaced, or failed opens of the temp files; of
\* both together one.  (A failed open after a death merges what the death
\* left in temp's files.)
SafeTroubles ==
    /\ CrashPoints \cap Window = {}
    /\ FaultPoints \subseteq {"save_open", "save_words"}
    /\ FaultPoints = {} \/ CrashPoints = {} \/ MaxTroubles =< 1

\* How often posting x is among the first n of an item.
Posting(e, i) == <<e.docs[i], e.hits[i]>>

Times(e, n, x) == Cardinality({i \in 1 .. n : Posting(e, i) = x})

\* The postings an index and its document file keep of a word.
BagOf(index, recs, w) ==
    IF w \in DOMAIN index THEN ItemBag(recs[index[w].start_offset])
    ELSE EmptyBag

\* Temp's files hold what is pending.
Saved(index, recs) ==
    \A w \in DOMAIN index :
        ItemBag(recs[index[w].start_offset]) = Abstract!PostingBag(m_words, w)

\* Temp's word file, loaded, is all that is pending or nothing at all.
SavedOrEmpty(index, recs) ==
    \/ index = Nothing
    \/ DOMAIN index = DOMAIN m_words /\ Saved(index, recs)

\* What a failure leaves agrees, and the merge finds main's files.
Calm ==
    /\ ~torn
    /\ pc = "down" => crashes # 0
    /\ CrashPoints = {} => crashes = 0
    /\ crashes = 0 /\ pc \in {"crawl", "save_open", "save", "save_words"} =>
          wordFile["temp"] = Nothing
    /\ missing \subseteq IF pc = "mv_doc" THEN {"doc"} ELSE
                         IF pc = "mv_pos" THEN {"pos"} ELSE
                         IF pc = "down" THEN {"doc", "pos"} ELSE {}
    /\ pc \in {"rm_doc", "mv_doc"} => wordFile["main"] = wordPos["main"]

\* save_index has written the items of the words it has passed.
SaveBags ==
    /\ pc \in {"save", "save_words"} =>
          /\ DOMAIN wordPos["temp"] = DOMAIN m_words \ todo["temp"]
          /\ Saved(wordPos["temp"], docFile["temp"].recs)
    /\ pc = "save_words" => todo["temp"] = {}

\* The item it is writing has each document once, with its hits.
SaveVec ==
    pc = "save" =>
        /\ \A i, j \in DOMAIN vec.docs : vec.docs[i] = vec.docs[j] => i = j
        /\ \A w \in todo["temp"] : Least(w, todo["temp"]) =>
              \A i \in DOMAIN vec.docs :
                  /\ vec.docs[i] \in DOMAIN m_words[w]
                  /\ vec.hits[i] = Len(m_words[w][vec.docs[i]])

LoadBags ==
    pc = "load" => SavedOrEmpty(wordFile["temp"], docFile["temp"].recs)

\* zipper_merge has written, of the words it has passed, what main had and
\* what temp has.
ZipBags ==
    pc \in {"zip", "zip_docs"} =>
        /\ wordPos["main"] = wordFile["main"]
        /\ SavedOrEmpty(wordPos["temp"], docFile["temp"].recs)
        /\ DOMAIN outIndex = (DOMAIN wordPos["main"] \ todo["main"])
                               \cup (DOMAIN wordPos["temp"] \ todo["temp"])
        /\ \A w \in DOMAIN outIndex :
              ItemBag(docFile["mid"].recs[outIndex[w].start_offset]) =
                 BagOf(wordPos["main"], docFile["main"].recs, w)
                 (+) BagOf(wordPos["temp"], docFile["temp"].recs, w)

\* The merged item has what was taken of both.
TakeBags ==
    pc = "zip_docs" =>
        /\ \A w \in Words : NextWord(w) =>
              \A f \in {"main", "temp"} :
                 item[f] = docFile[f].recs[wordPos[f][w].start_offset]
        /\ \A x \in Docs \X Nat :
              Times(vec, Len(vec.docs), x) =
                 Times(item["main"], at["main"], x)
                 + Times(item["temp"], at["temp"], x)

RefInv ==
    /\ Calm
    /\ SaveBags
    /\ SaveVec
    /\ LoadBags
    /\ ZipBags
    /\ TakeBags

-----------------------------------------------------------------------------
(* Counting postings.                                                      *)

\* The count of a posting in n others is a number, and 0 if it is not there.
LEMMA TimesNat ==
    ASSUME NEW e, NEW n \in Nat, NEW x
    PROVE  /\ Times(e, n, x) \in Nat
           /\ IsFiniteSet({i \in 1 .. n : Posting(e, i) = x})
           /\ Times(e, n, x) = 0 <=> \A i \in 1 .. n : Posting(e, i) # x
<1> DEFINE T == {i \in 1 .. n : Posting(e, i) = x}
<1>1. IsFiniteSet(1 .. n)  BY FS_Interval
<1>2. IsFiniteSet(T)  BY <1>1, FS_Subset
<1>3. Cardinality(T) \in Nat  BY <1>2, FS_CardinalityType
<1>4. Cardinality(T) = 0 <=> T = {}  BY <1>2, FS_EmptySet
<1> QED BY <1>2, <1>3, <1>4 DEF Times

\* Items that agree so far count the same.
LEMMA TimesSame ==
    ASSUME NEW e, NEW g, NEW n \in Nat, NEW x,
           \A i \in 1 .. n : Posting(e, i) = Posting(g, i)
    PROVE  Times(e, n, x) = Times(g, n, x)
<1>1. {i \in 1 .. n : Posting(e, i) = x} = {i \in 1 .. n : Posting(g, i) = x}
  OBVIOUS
<1> QED BY <1>1 DEF Times

\* One more posting.
LEMMA TimesStep ==
    ASSUME NEW e, NEW n \in Nat, NEW x
    PROVE  Times(e, n + 1, x) =
              Times(e, n, x) + (IF Posting(e, n + 1) = x THEN 1 ELSE 0)
<1> DEFINE T == {i \in 1 .. n : Posting(e, i) = x}
           U == {i \in 1 .. n + 1 : Posting(e, i) = x}
<1>1. IsFiniteSet(T)  BY TimesNat
<1>2. n + 1 \notin T  OBVIOUS
<1>3. CASE Posting(e, n + 1) = x
  <2>1. U = T \cup {n + 1}  BY <1>3
  <2>2. Cardinality(U) = Cardinality(T) + 1
    BY <1>1, <1>2, <2>1, FS_AddElement
  <2> QED BY <1>3, <2>2 DEF Times
<1>4. CASE Posting(e, n + 1) # x
  <2>1. U = T
    <3>1. ASSUME NEW i \in 1 .. n + 1, Posting(e, i) = x PROVE i \in 1 .. n
      <4>1. i # n + 1  BY <1>4, <3>1
      <4> QED BY <4>1
    <3> QED BY <3>1
  <2>2. Cardinality(T) + 0 = Cardinality(T)  BY <1>1, FS_CardinalityType
  <2> QED BY <1>4, <2>1, <2>2 DEF Times
<1> QED BY <1>3, <1>4

\* Nothing is counted among no postings.
LEMMA TimesNone == \A e, x : Times(e, 0, x) = 0
<1>1. \A e, x : {i \in 1 .. 0 : Posting(e, i) = x} = {}  OBVIOUS
<1> QED BY <1>1, FS_EmptySet DEF Times

\* The bag of an item holds each of its postings as often as it is there.
LEMMA ItemBagTimes ==
    ASSUME NEW e \in Items
    PROVE  /\ DOMAIN ItemBag(e) = {Posting(e, i) : i \in 1 .. Len(e.docs)}
           /\ \A x \in DOMAIN ItemBag(e) :
                 ItemBag(e)[x] = Times(e, Len(e.docs), x)
           /\ ItemBag(e) = [x \in DOMAIN ItemBag(e) |-> ItemBag(e)[x]]
<1> DEFINE s == [i \in DOMAIN e.docs |-> <<e.docs[i], e.hits[i]>>]
<1>1. DOMAIN e.docs = 1 .. Len(e.docs)  BY DEF Items
<1>2. DOMAIN s = 1 .. Len(e.docs) /\ \A i \in DOMAIN s : s[i] = Posting(e, i)
  BY <1>1 DEF Posting
<1>3. Range(s) = {Posting(e, i) : i \in 1 .. Len(e.docs)}
  BY <1>2 DEF Range
<1>4. \A x : {i \in DOMAIN s : s[i] = x} = {i \in 1 .. Len(e.docs) : Posting(e, i) = x}
  BY <1>2
<1>5. ItemBag(e) = [x \in Range(s) |-> Cardinality({i \in DOMAIN s : s[i] = x})]
  BY DEF ItemBag, ToBag
<1> HIDE DEF s
<1> QED BY <1>3, <1>4, <1>5 DEF Times

\* A posting outside the bag is not among the item's.
LEMMA OutsideBag ==
    ASSUME NEW e \in Items, NEW x
    PROVE  /\ Len(e.docs) \in Nat
           /\ x \in DOMAIN ItemBag(e) <=> Times(e, Len(e.docs), x) # 0
<1>1. Len(e.docs) \in Nat  BY DEF Items
<1>2. x \in DOMAIN ItemBag(e) <=> \E i \in 1 .. Len(e.docs) : Posting(e, i) = x
  BY ItemBagTimes
<1>3. Times(e, Len(e.docs), x) = 0
         <=> \A i \in 1 .. Len(e.docs) : Posting(e, i) # x
  BY <1>1, TimesNat
<1> QED BY <1>1, <1>2, <1>3

\* Items whose counts add up have bags that add up.
LEMMA BagsAdd ==
    ASSUME NEW e \in Items, NEW g \in Items, NEW h \in Items,
           \A x \in Docs \X Nat :
              Times(h, Len(h.docs), x) =
                 Times(e, Len(e.docs), x) + Times(g, Len(g.docs), x)
    PROVE  ItemBag(h) = ItemBag(e) (+) ItemBag(g)
<1> DEFINE B == ItemBag(e)
           C == ItemBag(g)
           D == ItemBag(h)
           Count(k, x) == Times(k, Len(k.docs), x)
<1>1. ASSUME NEW k \in Items, NEW x \in DOMAIN ItemBag(k)
      PROVE  x \in Docs \X Nat
  <2>1. PICK i \in 1 .. Len(k.docs) : x = Posting(k, i)
    BY <1>1, ItemBagTimes
  <2>2. k.docs[i] \in Docs /\ k.hits[i] \in Nat  BY DEF Items
  <2> QED BY <2>1, <2>2 DEF Posting
<1>2. \A k \in Items : \A x :
         /\ Count(k, x) \in Nat
         /\ x \in DOMAIN ItemBag(k) <=> Count(k, x) # 0
         /\ x \in DOMAIN ItemBag(k) => ItemBag(k)[x] = Count(k, x)
  BY OutsideBag, TimesNat, ItemBagTimes
<1>3. D = [x \in DOMAIN D |-> D[x]]  BY ItemBagTimes
<1> HIDE DEF B, C, D, Count
<1>4. \A x \in Docs \X Nat : Count(h, x) = Count(e, x) + Count(g, x)
  BY DEF Count
<1>5. DOMAIN D = DOMAIN B \cup DOMAIN C
  <2>1. ASSUME NEW x PROVE x \in DOMAIN D <=> x \in DOMAIN B \cup DOMAIN C
    <3>1. CASE x \in Docs \X Nat
      BY <1>2, <1>4, <3>1 DEF B, C, D
    <3>2. CASE x \notin Docs \X Nat
      BY <1>1, <3>2 DEF B, C, D
    <3> QED BY <3>1, <3>2
  <2> QED BY <2>1
<1>6. ASSUME NEW x \in DOMAIN D
      PROVE  D[x] = (IF x \in DOMAIN B THEN B[x] ELSE 0)
                    + (IF x \in DOMAIN C THEN C[x] ELSE 0)
  <2>1. x \in Docs \X Nat  BY <1>1 DEF D
  <2>2. D[x] = Count(e, x) + Count(g, x)  BY <1>2, <1>4, <2>1 DEF D
  <2>3. Count(e, x) = IF x \in DOMAIN B THEN B[x] ELSE 0  BY <1>2 DEF B
  <2>4. Count(g, x) = IF x \in DOMAIN C THEN C[x] ELSE 0  BY <1>2 DEF C
  <2> QED BY <2>2, <2>3, <2>4
<1>7. D = B (+) C  BY <1>3, <1>5, <1>6 DEF (+)
<1> QED BY <1>7 DEF B, C, D

\* The empty bag adds nothing.
LEMMA BagNothing ==
    ASSUME NEW e \in Items
    PROVE  /\ EmptyBag (+) ItemBag(e) = ItemBag(e)
           /\ ItemBag(e) (+) EmptyBag = ItemBag(e)
<1> DEFINE B == ItemBag(e)
<1>1. DOMAIN EmptyBag = {}  BY DEF EmptyBag, SetToBag
<1>2. B = [x \in DOMAIN B |-> B[x]]  BY ItemBagTimes
<1>3. \A x \in DOMAIN B : B[x] \in Nat
  <2>1. Len(e.docs) \in Nat  BY DEF Items
  <2>2. ASSUME NEW x \in DOMAIN B PROVE B[x] = Times(e, Len(e.docs), x)
    BY ItemBagTimes
  <2>3. ASSUME NEW x PROVE Times(e, Len(e.docs), x) \in Nat
    BY <2>1, TimesNat
  <2> HIDE DEF B
  <2> QED BY <2>2, <2>3
<1> HIDE DEF B
<1>4. EmptyBag (+) B = [x \in DOMAIN B |-> B[x]]
  BY <1>1, <1>3 DEF (+)
<1>5. B (+) EmptyBag = [x \in DOMAIN B |-> B[x]]
  BY <1>1, <1>3 DEF (+)
<1> QED BY <1>2, <1>4, <1>5 DEF B

\* No two empty bags.
LEMMA EmptyPlusEmpty == EmptyBag (+) EmptyBag = EmptyBag
<1>1. EmptyBag = [x \in {} |-> 1]  BY DEF EmptyBag, SetToBag
<1> QED BY <1>1 DEF (+)

-----------------------------------------------------------------------------
(* Items and files.                                                        *)

\* Counts in items with the same documents and hits agree, so do their bags.
LEMMA BagOfPostings ==
    ASSUME NEW e, NEW g, e.docs = g.docs, e.hits = g.hits
    PROVE  ItemBag(e) = ItemBag(g)
BY DEF ItemBag

\* What a merged item counts once a posting of one of the two joins it.
LEMMA AppendTimes ==
    ASSUME NEW e \in Items, NEW d \in Docs, NEW n \in Nat \ {0}, NEW g,
           g.docs = Append(e.docs, d), g.hits = Append(e.hits, n), NEW x
    PROVE  Times(g, Len(g.docs), x) =
              Times(e, Len(e.docs), x) + (IF x = <<d, n>> THEN 1 ELSE 0)
<1> DEFINE k == Len(e.docs)
<1>1. /\ e.docs \in Seq(Docs) /\ e.hits \in Seq(Nat \ {0})
      /\ Len(e.hits) = k /\ k \in Nat
  BY DEF Items
<1>2. Len(g.docs) = k + 1  BY <1>1
<1>3. /\ \A i \in 1 .. k : Posting(e, i) = Posting(g, i)
      /\ Posting(g, k + 1) = <<d, n>>
  BY <1>1, <1>2 DEF Posting
<1>4. Times(g, k, x) = Times(e, k, x)  BY <1>1, <1>3, TimesSame
<1>5. Times(g, k + 1, x) = Times(g, k, x) + (IF Posting(g, k + 1) = x THEN 1 ELSE 0)
  BY <1>1, TimesStep
<1> QED BY <1>2, <1>3, <1>4, <1>5

\* An item that has each document of a word once, with the length of its
\* positions, is the bag of the word's postings.
LEMMA SavedBag ==
    ASSUME NEW e \in Items, NEW p,
           \A i, j \in DOMAIN e.docs : e.docs[i] = e.docs[j] => i = j,
           \A i \in DOMAIN e.docs :
              e.docs[i] \in DOMAIN p /\ e.hits[i] = Len(p[e.docs[i]]),
           DOMAIN p \subseteq Range(e.docs)
    PROVE  ItemBag(e) = SetToBag({<<d, Len(p[d])>> : d \in DOMAIN p})
<1> DEFINE S == {<<d, Len(p[d])>> : d \in DOMAIN p}
           B == ItemBag(e)
           n == Len(e.docs)
<1>1. n \in Nat /\ DOMAIN e.docs = 1 .. n  BY DEF Items
<1>2. DOMAIN B = {Posting(e, i) : i \in 1 .. n}  BY ItemBagTimes
<1>3. ASSUME NEW i \in 1 .. n PROVE Posting(e, i) \in S
  BY <1>1, <1>3 DEF Posting
<1>4. ASSUME NEW d \in DOMAIN p
      PROVE  \E i \in 1 .. n : Posting(e, i) = <<d, Len(p[d])>>
  <2>1. PICK i \in DOMAIN e.docs : e.docs[i] = d  BY <1>4 DEF Range
  <2> QED BY <1>1, <2>1 DEF Posting
<1>5. DOMAIN B = S
  <2> HIDE DEF B, n
  <2> QED BY <1>2, <1>3, <1>4
<1>6. ASSUME NEW x \in DOMAIN B PROVE B[x] = 1
  <2>1. PICK i \in 1 .. n : Posting(e, i) = x  BY <1>2, <1>6
  <2>2. \A j \in 1 .. n : Posting(e, j) = x => j = i
    BY <1>1, <2>1 DEF Posting
  <2>3. {j \in 1 .. n : Posting(e, j) = x} = {i}  BY <2>1, <2>2
  <2>4. Times(e, n, x) = 1  BY <2>3, FS_Singleton DEF Times
  <2> QED BY <1>6, <2>4, ItemBagTimes
<1>7. B = [x \in DOMAIN B |-> B[x]]  BY ItemBagTimes
<1> HIDE DEF B, S
<1>8. B = [x \in S |-> 1]  BY <1>5, <1>6, <1>7
<1> QED BY <1>8 DEF SetToBag, B, S

\* Writing to the end of a file leaves its records alone.
LEMMA WriteKeeps ==
    ASSUME NEW file, IsFile(file, Items), Behind(file), NEW e \in Items
    PROVE  LET new == WriteRec(file, e, ItemSize(e))
           IN  /\ \A o \in DOMAIN file.recs : new.recs[o] = file.recs[o]
               /\ new.recs[file.len] = e
BY WriteBehind DEF WriteRec, Put

\* One more word in an index, with the item written for it.
LEMMA PutEntry ==
    ASSUME NEW index, NEW w, NEW t
    PROVE  /\ DOMAIN Put(index, w, t) = DOMAIN index \cup {w}
           /\ Put(index, w, t)[w] = t
           /\ \A v \in DOMAIN index : v # w => Put(index, w, t)[v] = index[v]
BY DEF Put

-----------------------------------------------------------------------------
(* RefInv is an invariant.                                                 *)

\* It holds of an empty index.
LEMMA RefInit == Init => RefInv
<1> SUFFICES ASSUME Init PROVE RefInv
  OBVIOUS
<1>1. /\ pc = "crawl" /\ wordFile["temp"] = Nothing /\ missing = {} /\ ~torn
      /\ crashes = 0
  BY DEF Init
<1> QED
  BY <1>1 DEF RefInv, Calm, SaveBags, SaveVec, LoadBags, ZipBags, TakeBags

\* A failed open finds temp's word file empty.
LEMMA FailureFindsNothing ==
    ASSUME SafeTroubles, TypeOK, Calm, pc \in {"save_open", "save_words"}, Fail
    PROVE  wordFile["temp"] = Nothing
<1>1. crashes \in Nat /\ faults \in Nat /\ MaxTroubles \in Nat
  BY IndexAssumption DEF TypeOK
<1>2. crashes = 0
  <2>1. CASE CrashPoints = {}  BY <2>1 DEF Calm
  <2>2. CASE MaxTroubles =< 1  BY <1>1, <2>2 DEF Fail
  <2> QED BY <2>1, <2>2 DEF Fail, SafeTroubles
<1> QED BY <1>2 DEF Calm

\* The failures that would leave files that disagree do not happen.
LEMMA SafeFaults ==
    ASSUME SafeTroubles, FileFault
    PROVE  SaveOpenFails \/ SaveTempWordsFails
BY DEF SafeTroubles, FileFault, SaveMainWordsFails, ZipFinished,
       RenameDocFails, RenamePosFails, Fail

\* The merge finds main's files, and the items it looks for in them.
LEMMA NoDeathInMerge ==
    ASSUME TypeOK, TodoKnown, TileInv, Calm
    PROVE  ~MergeAbort /\ \A w \in Words : ~ZipFault(w)
<1>1. ~MergeAbort  BY DEF MergeAbort, Calm
<1>2. ASSUME NEW w \in Words, ZipFault(w) PROVE FALSE
  <2>1. NoFault  BY TilesNoFault
  <2>2. PICK f \in {"main", "temp"} : w \in todo[f] /\ AtEnd(f)
    BY <1>2 DEF ZipFault
  <2>3. ~torn /\ pc = "zip"  BY <1>2 DEF Calm, ZipFault
  <2> QED BY <2>1, <2>2, <2>3 DEF NoFault
<1> QED BY <1>1, <1>2

\* It stays so where the faults are safe.
LEMMA CalmStep ==
    ASSUME SafeTroubles, TypeOK, TodoKnown, TileInv, Calm, [Next]_vars
    PROVE  Calm'
<1> USE DEF vars, memory, locals, files, history
<1>0. /\ crashes \in Nat /\ faults \in Nat
      /\ DOMAIN wordFile = {"main", "temp"}
      /\ DOMAIN wordPos = {"main", "temp", "query"}
  BY DEF TypeOK
<1>1. CASE \E d \in Docs, c \in Contents : AddDoc(d, c)
  <2>1. /\ pc = "crawl" /\ pc' \in {"crawl", "save_open"}
        /\ UNCHANGED <<wordFile, missing, torn, crashes, faults>>
    BY <1>1 DEF AddDoc
  <2> QED BY <2>1 DEF Calm
<1>2. CASE SaveIndex \/ UNCHANGED vars
  <2>1. CASE SaveIndex  BY <2>1 DEF SaveIndex, Calm
  <2>2. CASE UNCHANGED vars  BY <2>2 DEF Calm
  <2> QED BY <1>2, <2>1, <2>2
<1>3. CASE Save
  <2>1. CASE SaveTempWords
    BY <2>1, <1>0 DEF SaveTempWords, Calm
  <2>2. CASE ~SaveTempWords
    <3>1. /\ pc \in {"save_open", "save"} /\ pc' \in {"save", "save_words"}
          /\ UNCHANGED <<wordFile, missing, torn, crashes, faults>>
      BY <1>3, <2>2 DEF Save, SaveOpen, SavePosting, SaveItem, SaveClose
    <3> QED BY <3>1 DEF Calm
  <2> QED BY <2>1, <2>2
<1>4. CASE Merge
  <2>1. CASE ZipDone
    BY <2>1 DEF ZipDone, ZipFinished, Calm
  <2>2. CASE ~ZipDone
    <3>1. /\ pc \in {"load", "zip", "zip_docs"} /\ pc' \in {"zip", "zip_docs"}
          /\ UNCHANGED <<wordFile, missing, torn, crashes, faults>>
      BY <1>4, <2>2 DEF Merge, LoadWordIndexes, ZipCopy, ZipBoth, TakeTemp,
                        TakeMain, Take, ZipItem
    <3> QED BY <3>1 DEF Calm
  <2> QED BY <2>1, <2>2
<1>5. CASE SaveMainWords
  BY <1>5, <1>0 DEF SaveMainWords, Calm
<1>6. CASE RemoveDoc \/ RenameDoc \/ RemovePos \/ RenamePos
  BY <1>6 DEF RemoveDoc, RenameDoc, RemovePos, RenamePos, Calm
<1>7. CASE Clean
  BY <1>7, <1>0 DEF Clean, Calm
<1>8. CASE Initialize \/ Restart
  BY <1>8 DEF Initialize, Restart, Calm
<1>9. CASE Crash
  <2>1. /\ pc' = "down" /\ missing' = missing
        /\ crashes' = crashes + 1 /\ faults' = faults
    BY <1>9 DEF Crash, Die
  <2>2. ~torn' /\ pc \notin Window /\ CrashPoints # {}
    BY <1>9 DEF Crash, SafeTroubles, Calm
  <2> QED BY <1>0, <2>1, <2>2 DEF Calm, Window
<1>10. CASE MergeAbort \/ \E w \in Words : ZipFault(w)
  BY <1>10, NoDeathInMerge
<1>11. CASE FileFault
  <2>1. /\ pc \in {"save_open", "save_words"} /\ Fail /\ pc' = "load"
        /\ torn' = (torn \/ wordFile["temp"] # Nothing)
        /\ UNCHANGED <<wordFile, missing, crashes>>
    BY <1>11, SafeFaults DEF SaveOpenFails, SaveTempWordsFails
  <2>2. torn' = torn  BY <2>1, FailureFindsNothing DEF Calm, TypeOK
  <2> QED BY <2>1, <2>2 DEF Calm
<1> QED BY <1>1, <1>2, <1>3, <1>4, <1>5, <1>6, <1>7, <1>8, <1>9, <1>10, <1>11
        DEF Next, Progress, Install

\* Outside the loops only Calm says anything.
LEMMA RefIdle ==
    ASSUME Calm', pc' \notin {"save", "save_words", "load", "zip", "zip_docs"}
    PROVE  RefInv'
BY DEF RefInv, SaveBags, SaveVec, LoadBags, ZipBags, TakeBags

\* A stutter.
LEMMA RefStutter == ASSUME RefInv, UNCHANGED vars PROVE RefInv'
<1> USE DEF vars, memory, locals, files, history
<1>1. UNCHANGED <<SaveBags, SaveVec, LoadBags>>
  BY DEF SaveBags, SaveVec, LoadBags, Saved, SavedOrEmpty, Abstract!PostingBag
<1>2. UNCHANGED ZipBags
  BY DEF ZipBags, Saved, SavedOrEmpty, Abstract!PostingBag, Todo, BagOf
<1>3. UNCHANGED <<Calm, TakeBags>>
  BY DEF Calm, TakeBags, NextWord
<1> QED BY <1>1, <1>2, <1>3 DEF RefInv

\* A posting that save_index adds to its item is a new one.
LEMMA SavePostingVec ==
    ASSUME TypeOK, TodoKnown, RefInv,
           NEW w \in Words, NEW d \in Docs, SavePosting(w, d)
    PROVE  SaveVec'
<1>1. /\ pc = "save" /\ UNCHANGED <<m_words, todo>>
      /\ Least(w, todo["temp"]) /\ d \in Unsaved(w)
      /\ vec'.docs = Append(vec.docs, d)
      /\ vec'.hits = Append(vec.hits, Len(m_words[w][d]))
  BY DEF SavePosting, memory, Least
<1>2. /\ vec.docs \in Seq(Docs) /\ vec.hits \in Seq(Nat \ {0})
      /\ Len(vec.hits) = Len(vec.docs)
  BY DEF TypeOK, Items
<1>3. d \in DOMAIN m_words[w] /\ \A i \in DOMAIN vec.docs : vec.docs[i] # d
  BY <1>1 DEF Unsaved, Range
<1>4. \A i, j \in DOMAIN vec.docs : vec.docs[i] = vec.docs[j] => i = j
  BY <1>1 DEF RefInv, SaveVec
<1>5. \A i \in DOMAIN vec.docs :
         /\ vec.docs[i] \in DOMAIN m_words[w]
         /\ vec.hits[i] = Len(m_words[w][vec.docs[i]])
  BY <1>1 DEF RefInv, SaveVec, Least
<1>6. /\ DOMAIN vec'.docs = 1 .. Len(vec.docs) + 1
      /\ DOMAIN vec.docs = 1 .. Len(vec.docs)
      /\ \A i \in DOMAIN vec.docs :
            vec'.docs[i] = vec.docs[i] /\ vec'.hits[i] = vec.hits[i]
      /\ vec'.docs[Len(vec.docs) + 1] = d
      /\ vec'.hits[Len(vec.docs) + 1] = Len(m_words[w][d])
  BY <1>1, <1>2
<1>7. \A i \in DOMAIN vec'.docs : i \in DOMAIN vec.docs \/ i = Len(vec.docs) + 1
  BY <1>6
<1>8. \A i, j \in DOMAIN vec'.docs : vec'.docs[i] = vec'.docs[j] => i = j
  BY <1>3, <1>4, <1>6, <1>7
<1>9. \A i \in DOMAIN vec'.docs :
         /\ vec'.docs[i] \in DOMAIN m_words[w]
         /\ vec'.hits[i] = Len(m_words[w][vec'.docs[i]])
  BY <1>3, <1>5, <1>6, <1>7
<1>10. ASSUME NEW v \in todo["temp"], Least(v, todo["temp"]) PROVE v = w
  <2>1. todo["temp"] \in SUBSET Words  BY DEF TypeOK, Pair
  <2> QED BY <1>1, <1>10, <2>1, LeastUnique
<1> QED BY <1>1, <1>8, <1>9, <1>10 DEF SaveVec

\* The item save_index writes for a word is the bag of what is pending of it.
LEMMA SaveItemBags ==
    ASSUME TypeOK, TodoKnown, TileInv, RefInv, NEW w \in Words, SaveItem(w)
    PROVE  SaveBags' /\ SaveVec'
<1> DEFINE index == wordPos["temp"]
           file == docFile["temp"]
           new == WriteRec(file, vec, ItemSize(vec))
           t == [doc_count |-> Len(vec.docs), start_offset |-> file.len,
                 end_offset |-> new.len]
<1>1. /\ pc = "save" /\ pc' = "save" /\ UNCHANGED m_words
      /\ Least(w, todo["temp"]) /\ w \in todo["temp"] /\ Unsaved(w) = {}
      /\ wordPos'["temp"] = Put(index, w, t)
      /\ docFile'["temp"] = new
      /\ todo'["temp"] = todo["temp"] \ {w}
      /\ vec' = NoItem
  BY DEF SaveItem, TypeOK, Pair, Least
<1>2. vec \in Items /\ IsFile(file, Items) /\ Behind(file)
  BY DEF TypeOK, TileInv
<1>3. Tiled(index, file)  BY <1>1 DEF TileInv, SaveTiles
<1>4. w \in DOMAIN m_words  BY <1>1 DEF TodoKnown
<1>5. DOMAIN index = DOMAIN m_words \ todo["temp"] /\ Saved(index, file.recs)
  BY <1>1 DEF RefInv, SaveBags
<1>6. ItemBag(vec) = Abstract!PostingBag(m_words, w)
  <2> DEFINE p == m_words[w]
  <2>1. \A i, j \in DOMAIN vec.docs : vec.docs[i] = vec.docs[j] => i = j
    BY <1>1 DEF RefInv, SaveVec
  <2>2. \A i \in DOMAIN vec.docs :
           vec.docs[i] \in DOMAIN p /\ vec.hits[i] = Len(p[vec.docs[i]])
    BY <1>1 DEF RefInv, SaveVec
  <2>3. DOMAIN p \subseteq Range(vec.docs)  BY <1>1 DEF Unsaved
  <2> HIDE DEF p
  <2>4. ItemBag(vec) = SetToBag({<<d, Len(p[d])>> : d \in DOMAIN p})
    BY <1>2, <2>1, <2>2, <2>3, SavedBag
  <2> QED BY <1>4, <2>4 DEF Abstract!PostingBag, Abstract!SetToBag, SetToBag, p
<1>7. /\ \A o \in DOMAIN file.recs : new.recs[o] = file.recs[o]
      /\ new.recs[file.len] = vec
  BY <1>2, WriteKeeps
<1>8. t.start_offset = file.len  OBVIOUS
<1> HIDE DEF new, t, index, file
<1>9. /\ DOMAIN Put(index, w, t) = DOMAIN index \cup {w}
      /\ Put(index, w, t)[w] = t
      /\ \A v \in DOMAIN index : v # w => Put(index, w, t)[v] = index[v]
  BY DEF Put
<1>10. ASSUME NEW v \in DOMAIN Put(index, w, t)
       PROVE  ItemBag(new.recs[Put(index, w, t)[v].start_offset])
                 = Abstract!PostingBag(m_words, v)
  <2>1. CASE v = w  BY <1>6, <1>7, <1>8, <1>9, <2>1
  <2>2. CASE v # w
    <3>1. v \in DOMAIN index /\ index[v].start_offset \in DOMAIN file.recs
      BY <1>3, <1>9, <2>2 DEF Tiled
    <3> QED BY <1>5, <1>7, <1>9, <2>2, <3>1 DEF Saved
  <2> QED BY <2>1, <2>2
<1>11. SaveBags'
  <2>1. DOMAIN wordPos'["temp"] = DOMAIN m_words' \ todo'["temp"]
    BY <1>1, <1>4, <1>5, <1>9
  <2>2. Saved(wordPos["temp"], docFile["temp"].recs)'
    BY <1>1, <1>10 DEF Saved, Abstract!PostingBag
  <2> QED BY <1>1, <2>1, <2>2 DEF SaveBags
<1>12. SaveVec'  BY <1>1 DEF SaveVec, NoItem
<1> QED BY <1>11, <1>12

\* A step of save_index, or of its failures.
LEMMA SaveRef ==
    ASSUME SafeTroubles, TypeOK, TodoKnown, SortedInv, TileInv, RefInv, Calm',
           Save \/ SaveOpenFails \/ SaveTempWordsFails
    PROVE  RefInv'
<1> USE DEF memory, locals, files, history
<1>1. CASE SaveOpen
  <2>1. /\ pc = "save_open" /\ pc' = "save" /\ UNCHANGED <<m_words, wordPos, vec>>
        /\ todo'["temp"] = DOMAIN m_words
    BY <1>1 DEF SaveOpen, TypeOK, Pair
  <2>2. wordPos["temp"] = Nothing /\ vec = NoItem
    BY <2>1 DEF TileInv, SaveTiles, SortedInv
  <2>3. SaveBags'
    BY <2>1, <2>2 DEF SaveBags, Saved, Nothing
  <2>4. SaveVec'  BY <2>1, <2>2 DEF SaveVec, NoItem
  <2> QED BY <2>1, <2>3, <2>4 DEF RefInv, LoadBags, ZipBags, TakeBags
<1>2. ASSUME NEW w \in Words, NEW d \in Docs, SavePosting(w, d) PROVE RefInv'
  <2>1. /\ pc = "save" /\ pc' = "save"
        /\ UNCHANGED <<m_words, wordPos, todo, docFile>>
    BY <1>2 DEF SavePosting
  <2>2. SaveBags'
    BY <2>1 DEF RefInv, SaveBags, Saved, Abstract!PostingBag
  <2>3. SaveVec'  BY <1>2, SavePostingVec
  <2> QED BY <2>1, <2>2, <2>3 DEF RefInv, LoadBags, ZipBags, TakeBags
<1>3. ASSUME NEW w \in Words, SaveItem(w) PROVE RefInv'
  <2>1. pc' = "save"  BY <1>3 DEF SaveItem
  <2>2. SaveBags' /\ SaveVec'  BY <1>3, SaveItemBags
  <2> QED BY <2>1, <2>2 DEF RefInv, LoadBags, ZipBags, TakeBags
<1>4. CASE SaveClose
  <2>1. /\ pc = "save" /\ pc' = "save_words" /\ todo["temp"] = {}
        /\ UNCHANGED <<m_words, wordPos, todo, docFile>>
    BY <1>4 DEF SaveClose
  <2>2. SaveBags'
    BY <2>1 DEF RefInv, SaveBags, Saved, Abstract!PostingBag
  <2> QED BY <2>1, <2>2 DEF RefInv, SaveVec, LoadBags, ZipBags, TakeBags
<1>5. CASE SaveTempWords
  <2>1. /\ pc = "save_words" /\ pc' = "load"
        /\ wordFile'["temp"] = wordPos["temp"]
        /\ UNCHANGED <<m_words, docFile>>
    BY <1>5 DEF SaveTempWords, TypeOK
  <2>2. /\ DOMAIN wordPos["temp"] = DOMAIN m_words
        /\ Saved(wordPos["temp"], docFile["temp"].recs)
    BY <2>1 DEF RefInv, SaveBags
  <2>3. LoadBags'
    BY <2>1, <2>2 DEF LoadBags, SavedOrEmpty, Saved, Abstract!PostingBag
  <2> QED BY <2>1, <2>3 DEF RefInv, SaveBags, SaveVec, ZipBags, TakeBags
<1>6. CASE SaveOpenFails \/ SaveTempWordsFails
  <2>1. /\ pc \in {"save_open", "save_words"} /\ Fail /\ pc' = "load"
        /\ UNCHANGED wordFile
    BY <1>6 DEF SaveOpenFails, SaveTempWordsFails
  <2>2. wordFile'["temp"] = Nothing  BY <2>1, FailureFindsNothing DEF RefInv
  <2> QED BY <2>1, <2>2
          DEF RefInv, LoadBags, SavedOrEmpty, SaveBags, SaveVec, ZipBags, TakeBags
<1> QED BY <1>1, <1>2, <1>3, <1>4, <1>5, <1>6 DEF Save

\* zipper_merge begins with nothing written.
LEMMA LoadRef ==
    ASSUME TypeOK, RefInv, Calm', LoadWordIndexes
    PROVE  RefInv'
<1>1. /\ pc = "load" /\ pc' = "zip"
      /\ wordPos'["main"] = wordFile["main"] /\ wordPos'["temp"] = wordFile["temp"]
      /\ docFile'["temp"] = docFile["temp"]
      /\ outIndex' = Nothing
      /\ todo' = [f \in {"main", "temp"} |-> DOMAIN wordFile[f]]
      /\ UNCHANGED <<m_words, wordFile>>
  BY DEF LoadWordIndexes, TypeOK
<1>2. SavedOrEmpty(wordPos["temp"], docFile["temp"].recs)'
  BY <1>1 DEF RefInv, LoadBags, SavedOrEmpty, Saved, Abstract!PostingBag
<1>3. ZipBags'
  BY <1>1, <1>2 DEF ZipBags, Todo, Nothing
<1> QED BY <1>1, <1>3 DEF RefInv, LoadBags, SaveBags, SaveVec, TakeBags

\* An item with what main has of the next word and what temp has of it,
\* written to the middle file.
LEMMA WriteOut ==
    ASSUME TypeOK, TodoKnown, TileInv, ZipBags, pc \in {"zip", "zip_docs"},
           NEW w \in Words, NextWord(w), NEW e \in Items, NEW t,
           ItemBag(e) = BagOf(wordPos["main"], docFile["main"].recs, w)
                        (+) BagOf(wordPos["temp"], docFile["temp"].recs, w),
           docFile'["mid"] = WriteRec(docFile["mid"], e, ItemSize(e)),
           outIndex' = Put(outIndex, w, t),
           t.start_offset = docFile["mid"].len,
           \A f \in {"main", "temp"} : todo'[f] = todo[f] \ {w},
           \A f \in {"main", "temp"} : docFile'[f] = docFile[f],
           UNCHANGED <<m_words, wordPos, wordFile>>
    PROVE  ZipBags'
<1> DEFINE file == docFile["mid"]
           new == WriteRec(file, e, ItemSize(e))
           Both(v) == BagOf(wordPos["main"], docFile["main"].recs, v)
                      (+) BagOf(wordPos["temp"], docFile["temp"].recs, v)
<1>1. IsFile(file, Items) /\ Behind(file)  BY DEF TypeOK, TileInv
<1>2. /\ \A o \in DOMAIN file.recs : new.recs[o] = file.recs[o]
      /\ new.recs[file.len] = e
  BY <1>1, WriteKeeps
<1>3. \A v \in DOMAIN outIndex : outIndex[v].start_offset \in DOMAIN file.recs
  BY DEF TileInv, ZipTiles, Tiled
<1>4. /\ DOMAIN outIndex' = DOMAIN outIndex \cup {w}
      /\ outIndex'[w] = t
      /\ \A v \in DOMAIN outIndex : v # w => outIndex'[v] = outIndex[v]
  BY DEF Put
<1>5. \A v \in DOMAIN outIndex :
         ItemBag(file.recs[outIndex[v].start_offset]) = Both(v)
  BY DEF ZipBags
<1>6. ItemBag(e) = Both(w) /\ t.start_offset = file.len  OBVIOUS
<1>7. docFile'["mid"] = new  OBVIOUS
<1> HIDE DEF new, file, Both
<1>8. \A v \in DOMAIN outIndex' :
         ItemBag(docFile'["mid"].recs[outIndex'[v].start_offset]) = Both(v)
  <2>1. ASSUME NEW v \in DOMAIN outIndex'
        PROVE  ItemBag(new.recs[outIndex'[v].start_offset]) = Both(v)
    <3>1. CASE v = w  BY <1>2, <1>4, <1>6, <3>1
    <3>2. CASE v # w  BY <1>2, <1>3, <1>4, <1>5, <3>2
    <3> QED BY <3>1, <3>2
  <2> QED BY <1>7, <2>1
<1>9. DOMAIN outIndex' = (DOMAIN wordPos["main"] \ todo'["main"])
                           \cup (DOMAIN wordPos["temp"] \ todo'["temp"])
  <2>1. DOMAIN outIndex = (DOMAIN wordPos["main"] \ todo["main"])
                           \cup (DOMAIN wordPos["temp"] \ todo["temp"])
    BY DEF ZipBags
  <2>2. w \in todo["main"] \cup todo["temp"]  BY DEF NextWord, Least
  <2>3. \A f \in {"main", "temp"} : todo[f] \subseteq DOMAIN wordPos[f]
    BY DEF TodoKnown
  <2> QED BY <1>4, <2>1, <2>2, <2>3
<1>10. wordPos["main"] = wordFile["main"]  BY DEF ZipBags
<1>11. SavedOrEmpty(wordPos["temp"], docFile["temp"].recs)'
  <2>1. SavedOrEmpty(wordPos["temp"], docFile["temp"].recs)  BY DEF ZipBags
  <2>2. docFile'["temp"] = docFile["temp"] /\ UNCHANGED <<m_words, wordPos>>
    OBVIOUS
  <2> QED BY <2>1, <2>2 DEF SavedOrEmpty, Saved, Abstract!PostingBag
<1>12. \A v : Both(v) = (BagOf(wordPos["main"], docFile["main"].recs, v)
                         (+) BagOf(wordPos["temp"], docFile["temp"].recs, v))'
  BY DEF Both, BagOf
<1> QED BY <1>8, <1>9, <1>10, <1>11, <1>12 DEF ZipBags

\* The item at the cursor of an index is that of its next word.
LEMMA AtNextWord ==
    ASSUME TypeOK, TodoKnown, TileInv, Calm, pc = "zip",
           NEW f \in {"main", "temp"}, NEW w \in todo[f], NextWord(w)
    PROVE  /\ ItemAt(docFile[f], docCur[f])
                 = docFile[f].recs[wordPos[f][w].start_offset]
           /\ w \in DOMAIN wordPos[f]
           /\ ItemAt(docFile[f], docCur[f]) \in Items
<1>1. w \in Words /\ Least(w, todo[f])
  BY DEF TypeOK, Pair, NextWord, Least
<1>2. CursorAt(f)  BY DEF TileInv, ZipTiles, Calm
<1>3. docCur[f] = wordPos[f][w].start_offset  BY <1>1, <1>2 DEF CursorAt
<1>4. w \in DOMAIN wordPos[f]  BY DEF TodoKnown
<1>5. docCur[f] \in DOMAIN docFile[f].recs
  BY <1>2, <1>3, <1>4 DEF CursorAt, Walked
<1>6. ItemAt(docFile[f], docCur[f]) \in Items  BY ReadBoth
<1> QED BY <1>3, <1>4, <1>5, <1>6 DEF ItemAt

\* A word in one index: its item is copied, the other one has nothing of it.
LEMMA ZipCopyRef ==
    ASSUME TypeOK, TodoKnown, TileInv, RefInv, Calm',
           NEW f \in {"main", "temp"}, NEW g \in {"main", "temp"}, f # g,
           NEW w \in Words, ZipCopy(f, g, w)
    PROVE  RefInv'
<1> DEFINE e == ItemAt(docFile[f], docCur[f])
           moved == [e EXCEPT !.offs = Rebase(e.offs, posFile["mid"].len)]
           t == [doc_count |-> wordPos[f][w].doc_count,
                 start_offset |-> docFile["mid"].len,
                 end_offset |->
                    WriteRec(docFile["mid"], moved, ItemSize(moved)).len]
<1>1. /\ pc = "zip" /\ pc' = "zip" /\ NextWord(w) /\ w \in todo[f] \ todo[g]
      /\ docFile'["mid"] = WriteRec(docFile["mid"], moved, ItemSize(moved))
      /\ outIndex' = Put(outIndex, w, t)
      /\ UNCHANGED <<m_words, wordPos, wordFile>>
      /\ \A h \in {"main", "temp"} : todo'[h] = todo[h] \ {w}
      /\ \A h \in {"main", "temp"} : docFile'[h] = docFile[h]
  BY DEF ZipCopy, memory, TypeOK, Pair
<1>2. /\ e = docFile[f].recs[wordPos[f][w].start_offset]
      /\ w \in DOMAIN wordPos[f] /\ e \in Items
  BY <1>1, AtNextWord DEF RefInv
<1>3. moved \in Items
  <2>1. posFile["mid"].len \in Nat  BY DEF TypeOK, IsFile
  <2> QED BY <1>2, <2>1, RebaseItem
<1>4. ItemBag(moved) = ItemBag(e)  BY <1>2, BagOfPostings DEF Items
<1>5. w \notin DOMAIN wordPos[g]
  <2>1. Precede(DOMAIN outIndex, Todo)  BY <1>1 DEF TileInv, ZipTiles
  <2>2. w \in Todo /\ w \in Nat  BY <1>1, IndexAssumption DEF Todo
  <2>3. w \notin DOMAIN outIndex  BY <2>1, <2>2 DEF Precede
  <2> QED BY <1>1, <2>3 DEF RefInv, ZipBags
<1>6. t.start_offset = docFile["mid"].len  OBVIOUS
<1> HIDE DEF e, moved, t
<1>7. ItemBag(moved) = BagOf(wordPos["main"], docFile["main"].recs, w)
                       (+) BagOf(wordPos["temp"], docFile["temp"].recs, w)
  <2>1. BagOf(wordPos[f], docFile[f].recs, w) = ItemBag(moved)
    BY <1>2, <1>4 DEF BagOf
  <2>2. BagOf(wordPos[g], docFile[g].recs, w) = EmptyBag  BY <1>5 DEF BagOf
  <2>3. /\ EmptyBag (+) ItemBag(moved) = ItemBag(moved)
        /\ ItemBag(moved) (+) EmptyBag = ItemBag(moved)
    BY <1>3, BagNothing
  <2>4. CASE f = "main"  BY <2>1, <2>2, <2>3, <2>4
  <2>5. CASE f = "temp"  BY <2>1, <2>2, <2>3, <2>5
  <2> QED BY <2>4, <2>5
<1>8. ZipBags'
  <2>1. ZipBags  BY DEF RefInv
  <2> QED BY <1>1, <1>3, <1>6, <1>7, <2>1, WriteOut
<1> QED BY <1>1, <1>8 DEF RefInv, LoadBags, SaveBags, SaveVec, TakeBags

\* What ZipBags says is about these.
LEMMA ZipBagsKept ==
    ASSUME ZipBags, pc \in {"zip", "zip_docs"},
           UNCHANGED <<m_words, wordPos, wordFile, docFile, todo, outIndex>>
    PROVE  ZipBags'
<1>1. SavedOrEmpty(wordPos["temp"], docFile["temp"].recs)'
  <2>1. SavedOrEmpty(wordPos["temp"], docFile["temp"].recs)  BY DEF ZipBags
  <2> QED BY <2>1 DEF SavedOrEmpty, Saved, Abstract!PostingBag
<1>2. \A w \in DOMAIN outIndex :
         ItemBag(docFile["mid"].recs[outIndex[w].start_offset]) =
            BagOf(wordPos["main"], docFile["main"].recs, w)
            (+) BagOf(wordPos["temp"], docFile["temp"].recs, w)
  BY DEF ZipBags
<1>3. \A w :
         (BagOf(wordPos["main"], docFile["main"].recs, w)
            (+) BagOf(wordPos["temp"], docFile["temp"].recs, w))'
         = BagOf(wordPos["main"], docFile["main"].recs, w)
            (+) BagOf(wordPos["temp"], docFile["temp"].recs, w)
  BY DEF BagOf
<1> QED BY <1>1, <1>2, <1>3 DEF ZipBags

\* A word in both: the two items are what the indexes have of it.
LEMMA ZipBothRef ==
    ASSUME TypeOK, TodoKnown, TileInv, RefInv, Calm', NEW w \in Words, ZipBoth(w)
    PROVE  RefInv'
<1>1. /\ pc = "zip" /\ pc' = "zip_docs" /\ NextWord(w)
      /\ w \in todo["main"] \cap todo["temp"]
      /\ UNCHANGED <<m_words, wordPos, wordFile, docFile, todo, outIndex>>
      /\ \A f \in {"main", "temp"} :
            item'[f] = ItemAt(docFile[f], docCur[f]) /\ at'[f] = 0
      /\ vec' = NoItem
  BY DEF ZipBoth, memory
<1>2. \A f \in {"main", "temp"} :
         item'[f] = docFile[f].recs[wordPos[f][w].start_offset]
  BY <1>1, AtNextWord DEF RefInv
<1>3. ASSUME NEW v \in Words, NextWord(v) PROVE v = w
  <2>1. Todo \in SUBSET Words  BY DEF TypeOK, Pair, Todo
  <2> QED BY <1>1, <1>3, <2>1, LeastUnique DEF NextWord, Todo
<1>4. ASSUME NEW x \in Docs \X Nat
      PROVE  Times(vec', Len(vec'.docs), x) =
                Times(item'["main"], at'["main"], x)
                + Times(item'["temp"], at'["temp"], x)
  <2>1. Len(vec'.docs) = 0  BY <1>1 DEF NoItem
  <2>2. /\ Times(vec', 0, x) = 0 /\ Times(item'["main"], 0, x) = 0
        /\ Times(item'["temp"], 0, x) = 0
    BY TimesNone
  <2> QED BY <1>1, <2>1, <2>2
<1>5. TakeBags'
  <2>1. \A v \in Words : NextWord(v)' => v = w
    BY <1>1, <1>3 DEF NextWord
  <2>2. \A f \in {"main", "temp"} :
           item'[f] = docFile'[f].recs[wordPos'[f][w].start_offset]
    BY <1>1, <1>2
  <2>3. \A v \in Words : NextWord(v)' => \A f \in {"main", "temp"} :
           item'[f] = docFile'[f].recs[wordPos'[f][v].start_offset]
    BY <2>1, <2>2
  <2> QED BY <1>4, <2>3 DEF TakeBags
<1>6. ZipBags'
  BY <1>1, ZipBagsKept DEF RefInv
<1> QED BY <1>1, <1>5, <1>6 DEF RefInv, LoadBags, SaveBags, SaveVec

\* A posting taken of one item is one more in the merged item.
LEMMA TakeRef ==
    ASSUME TypeOK, TodoKnown, TileInv, RefInv, Calm', pc = "zip_docs",
           NEW f \in {"main", "temp"}, NEW g \in {"main", "temp"}, f # g,
           More(f), Take(f)
    PROVE  RefInv'
<1> DEFINE i == at[f] + 1
           e == item[f]
<1>1. /\ pc' = "zip_docs"
      /\ UNCHANGED <<m_words, wordPos, wordFile, docFile, todo, outIndex, item>>
      /\ vec'.docs = Append(vec.docs, e.docs[i])
      /\ vec'.hits = Append(vec.hits, e.hits[i])
      /\ at'[f] = i /\ at'[g] = at[g]
  BY DEF Take, memory, files, TypeOK, Pair
<1>2. /\ e \in Items /\ vec \in Items /\ at[f] \in Nat /\ at[g] \in Nat
  BY DEF TypeOK, Pair
<1>3. i \in 1 .. Len(e.docs)
  BY <1>2 DEF More, Items
<1>4. /\ e.docs \in Seq(Docs)
      /\ e.hits \in Seq(Nat \ {0}) /\ Len(e.hits) = Len(e.docs)
  BY <1>2 DEF Items
<1>5. e.docs[i] \in Docs /\ e.hits[i] \in Nat \ {0}
  <2> HIDE DEF i, e
  <2> QED BY <1>3, <1>4
<1>6. ASSUME NEW x \in Docs \X Nat
      PROVE  Times(vec', Len(vec'.docs), x) =
                Times(item["main"], at'["main"], x)
                + Times(item["temp"], at'["temp"], x)
  <2> DEFINE one == IF x = <<e.docs[i], e.hits[i]>> THEN 1 ELSE 0
  <2>1. Times(vec', Len(vec'.docs), x) = Times(vec, Len(vec.docs), x) + one
    <3> DEFINE d == e.docs[i]
               n == e.hits[i]
    <3>1. /\ vec'.docs = Append(vec.docs, d) /\ vec'.hits = Append(vec.hits, n)
          /\ d \in Docs /\ n \in Nat \ {0} /\ vec \in Items
          /\ one = IF x = <<d, n>> THEN 1 ELSE 0
      BY <1>1, <1>2, <1>5
    <3> HIDE DEF d, n, one
    <3> QED BY <3>1, AppendTimes
  <2>2. Times(e, i, x) = Times(e, at[f], x) + one
    <3>1. Times(e, at[f] + 1, x) =
             Times(e, at[f], x)
             + (IF Posting(e, at[f] + 1) = x THEN 1 ELSE 0)
      BY <1>2, TimesStep
    <3> QED BY <3>1 DEF Posting
  <2>3. Times(vec, Len(vec.docs), x) =
           Times(item["main"], at["main"], x) + Times(item["temp"], at["temp"], x)
    BY DEF RefInv, TakeBags
  <2>4. /\ Times(item["main"], at["main"], x) \in Nat
        /\ Times(item["temp"], at["temp"], x) \in Nat
    BY TimesNat DEF TypeOK, Pair
  <2>5. one \in Nat  OBVIOUS
  <2> HIDE DEF one
  <2>6. CASE f = "main"
    BY <1>1, <2>1, <2>2, <2>3, <2>4, <2>5, <2>6
  <2>7. CASE f = "temp"
    BY <1>1, <2>1, <2>2, <2>3, <2>4, <2>5, <2>7
  <2> QED BY <2>6, <2>7
<1>7. TakeBags'
  <2>1. \A w \in Words : NextWord(w)' => NextWord(w)
    BY <1>1 DEF NextWord
  <2> QED BY <1>1, <1>6, <2>1 DEF RefInv, TakeBags
<1>8. ZipBags'
  BY <1>1, ZipBagsKept DEF RefInv
<1> QED BY <1>1, <1>7, <1>8 DEF RefInv, LoadBags, SaveBags, SaveVec

\* With all postings of both taken, the merged item is the sum of the two.
LEMMA ZipItemRef ==
    ASSUME TypeOK, TodoKnown, TileInv, RefInv, Calm', NEW w \in Words, ZipItem(w)
    PROVE  RefInv'
<1> DEFINE new == WriteRec(docFile["mid"], vec, ItemSize(vec))
           t == [doc_count |-> MergedCount(w),
                 start_offset |-> docFile["mid"].len,
                 end_offset |-> new.len]
<1>1. /\ pc = "zip_docs" /\ pc' = "zip" /\ NextWord(w)
      /\ ~More("main") /\ ~More("temp")
      /\ docFile'["mid"] = new
      /\ outIndex' = Put(outIndex, w, t)
      /\ UNCHANGED <<m_words, wordPos, wordFile>>
      /\ \A h \in {"main", "temp"} : todo'[h] = todo[h] \ {w}
      /\ \A h \in {"main", "temp"} : docFile'[h] = docFile[h]
  BY DEF ZipItem, memory, TypeOK
<1>2. /\ vec \in Items
      /\ \A f \in {"main", "temp"} :
            /\ item[f] \in Items /\ at[f] \in Nat
            /\ item[f] = docFile[f].recs[wordPos[f][w].start_offset]
            /\ w \in DOMAIN wordPos[f]
            /\ at[f] = Len(item[f].docs)
  <2>1. ASSUME NEW f \in {"main", "temp"}
        PROVE  item[f] \in Items /\ at[f] \in Nat /\ Len(item[f].docs) \in Nat
    BY DEF TypeOK, Pair, Items
  <2>2. ASSUME NEW f \in {"main", "temp"} PROVE at[f] = Len(item[f].docs)
    BY <1>1, <2>1 DEF More, TileInv, TakenAll
  <2>3. ASSUME NEW f \in {"main", "temp"}
        PROVE  /\ item[f] = docFile[f].recs[wordPos[f][w].start_offset]
               /\ w \in DOMAIN wordPos[f]
    BY <1>1 DEF RefInv, TakeBags, TodoKnown
  <2>4. vec \in Items  BY DEF TypeOK
  <2> QED BY <2>1, <2>2, <2>3, <2>4
<1>3. ItemBag(vec) = ItemBag(item["main"]) (+) ItemBag(item["temp"])
  <2>1. \A x \in Docs \X Nat :
           Times(vec, Len(vec.docs), x) =
              Times(item["main"], Len(item["main"].docs), x)
              + Times(item["temp"], Len(item["temp"].docs), x)
    BY <1>1, <1>2 DEF RefInv, TakeBags
  <2> QED BY <1>2, <2>1, BagsAdd
<1>4. ItemBag(vec) = BagOf(wordPos["main"], docFile["main"].recs, w)
                     (+) BagOf(wordPos["temp"], docFile["temp"].recs, w)
  BY <1>2, <1>3 DEF BagOf
<1>5. t.start_offset = docFile["mid"].len  OBVIOUS
<1> HIDE DEF t
<1>6. ZipBags'
  <2>1. ZipBags  BY DEF RefInv
  <2> QED BY <1>1, <1>2, <1>4, <1>5, <2>1, WriteOut
<1> QED BY <1>1, <1>6 DEF RefInv, LoadBags, SaveBags, SaveVec, TakeBags

\* Every step keeps RefInv.
LEMMA RefStep ==
    ASSUME SafeTroubles, TypeOK, TodoKnown, SortedInv, TileInv, RefInv, [Next]_vars
    PROVE  RefInv'
<1>1. Calm'  BY CalmStep DEF RefInv
<1>2. CASE Save \/ SaveOpenFails \/ SaveTempWordsFails
  BY <1>1, <1>2, SaveRef
<1>3. CASE LoadWordIndexes
  BY <1>1, <1>3, LoadRef
<1>4. CASE \/ \E w \in Words : ZipCopy("temp", "main", w)
           \/ \E w \in Words : ZipCopy("main", "temp", w)
  BY <1>1, <1>4, ZipCopyRef
<1>5. CASE \E w \in Words : ZipBoth(w)
  BY <1>1, <1>5, ZipBothRef
<1>6. CASE TakeTemp \/ TakeMain
  BY <1>1, <1>6, TakeRef DEF TakeTemp, TakeMain
<1>7. CASE \E w \in Words : ZipItem(w)
  BY <1>1, <1>7, ZipItemRef
<1>8. CASE \/ \E d \in Docs, c \in Contents : AddDoc(d, c)
           \/ SaveIndex \/ ZipDone \/ Install \/ Initialize \/ Crash \/ Restart
  <2>1. pc' \notin {"save", "save_words", "load", "zip", "zip_docs"}
    BY <1>8 DEF AddDoc, SaveIndex, ZipDone, Install, SaveMainWords, RemoveDoc,
                RenameDoc, RemovePos, RenamePos, Clean, Initialize, Crash, Die,
                Restart
  <2> QED BY <1>1, <2>1, RefIdle
<1>9. CASE MergeAbort \/ \E w \in Words : ZipFault(w)
  BY <1>9, NoDeathInMerge DEF RefInv
<1>10. CASE UNCHANGED vars
  BY <1>10, RefStutter
<1>11. FileFault => SaveOpenFails \/ SaveTempWordsFails
  BY SafeFaults
<1> QED
  BY <1>2, <1>3, <1>4, <1>5, <1>6, <1>7, <1>8, <1>9, <1>10, <1>11
     DEF Next, Progress, Merge

-----------------------------------------------------------------------------
(* The steps of the abstract index.                                        *)

\* The empty function is the empty sequence, which the abstract index writes.
LEMMA NoTuple == Nothing = << >>
<1>1. \A f : f \in [{} -> {}] => f = [x \in {} |-> {}]  OBVIOUS
<1>2. << >> \in [{} -> {}]  OBVIOUS
<1> QED BY <1>1, <1>2 DEF Nothing

\* The empty bag and the bag of a set are the same in both modules.
LEMMA SameBags ==
    /\ Abstract!EmptyBag = EmptyBag
    /\ \A w : w \notin DOMAIN m_words => Abstract!PostingBag(m_words, w) = EmptyBag
BY DEF Abstract!EmptyBag, Abstract!SetToBag, EmptyBag, SetToBag,
       Abstract!PostingBag

\* What is committed is what the live index has.
LEMMA Committed == CommittedView = [w \in Words |-> BagOf(LiveIndex, LiveDocs, w)]
BY DEF CommittedView, BagOf

\* A document joins what is pending.
LEMMA AddDocRefines ==
    ASSUME TypeOK, NEW d \in Docs, NEW c \in Contents, AddDoc(d, c)
    PROVE  Abstract!AddDoc(d, c)
<1>1. /\ pc \notin Handed /\ pc' \notin Handed
      /\ pc \notin Window /\ pc' \notin Window
      /\ UNCHANGED <<wordFile, docFile>>
  BY DEF AddDoc, Handed, Window, files
<1>2. UNCHANGED CommittedView
  BY <1>1 DEF CommittedView, LiveIndex, LiveDocs
<1>3. m_words' = [w \in DOMAIN m_words \cup DOMAIN c |->
                    IF w \in DOMAIN c THEN Put(Postings(w), d, c[w])
                    ELSE m_words[w]]
  BY DEF AddDoc
<1>4. ASSUME NEW w \in DOMAIN m_words \cup DOMAIN c
      PROVE  m_words'[w] =
               LET old == IF w \in DOMAIN m_words THEN m_words[w] ELSE << >>
               IN  IF w \in DOMAIN c
                   THEN [e \in DOMAIN old \cup {d} |-> IF e = d THEN c[w] ELSE old[e]]
                   ELSE old
  BY <1>3, NoTuple DEF Put, Postings
<1>5. m_words' = Abstract!WithDoc(m_words, d, c)
  BY <1>3, <1>4 DEF Abstract!WithDoc
<1> QED BY <1>1, <1>2, <1>5 DEF Abstract!AddDoc, PendingView

\* The end of the merge commits what was pending, or loses it when the temp
\* files could not be opened.
LEMMA ZipDoneRefines ==
    ASSUME TypeOK, TileInv, RefInv, ZipDone
    PROVE  Abstract!Commit \/ Abstract!Lose
<1>1. /\ pc = "zip" /\ pc' = "main_words"
      /\ todo["main"] = {} /\ todo["temp"] = {}
      /\ wordPos'["main"] = outIndex /\ docFile' = docFile
  BY DEF ZipDone, ZipFinished, TypeOK
<1>2. /\ PendingView = m_words /\ PendingView' = << >>
      /\ LiveIndex = wordFile["main"] /\ LiveDocs = docFile["main"].recs
      /\ LiveIndex' = outIndex /\ LiveDocs' = docFile["mid"].recs
  BY <1>1 DEF PendingView, Handed, LiveIndex, LiveDocs, Window
<1>3. /\ wordPos["main"] = wordFile["main"]
      /\ SavedOrEmpty(wordPos["temp"], docFile["temp"].recs)
      /\ DOMAIN outIndex = DOMAIN wordPos["main"] \cup DOMAIN wordPos["temp"]
      /\ \A w \in DOMAIN outIndex :
            ItemBag(docFile["mid"].recs[outIndex[w].start_offset]) =
               BagOf(wordPos["main"], docFile["main"].recs, w)
               (+) BagOf(wordPos["temp"], docFile["temp"].recs, w)
  BY <1>1 DEF RefInv, ZipBags
<1>4. ASSUME NEW w \in Words
      PROVE  CommittedView'[w] =
                CommittedView[w] (+) BagOf(wordPos["temp"], docFile["temp"].recs, w)
  <2>1. /\ CommittedView[w] = BagOf(wordPos["main"], docFile["main"].recs, w)
        /\ CommittedView'[w] = BagOf(outIndex, docFile["mid"].recs, w)
    BY <1>2, <1>3 DEF CommittedView, BagOf
  <2>2. CASE w \in DOMAIN outIndex  BY <1>3, <2>1, <2>2 DEF BagOf
  <2>3. CASE w \notin DOMAIN outIndex
    BY <1>3, <2>1, <2>3, EmptyPlusEmpty DEF BagOf
  <2> QED BY <2>2, <2>3
<1>5. CASE wordPos["temp"] = Nothing
  <2>1. Tiled(wordFile["main"], docFile["main"]) /\ IsFile(docFile["main"], Items)
    BY <1>1 DEF TileInv, MainTiles, RefInv, Calm, Window, TypeOK
  <2>2. ASSUME NEW w \in Words PROVE CommittedView'[w] = CommittedView[w]
    <3>1. BagOf(wordPos["temp"], docFile["temp"].recs, w) = EmptyBag
      BY <1>5 DEF BagOf, Nothing
    <3>2. CASE w \in DOMAIN wordFile["main"]
      <4> DEFINE e == docFile["main"].recs[wordFile["main"][w].start_offset]
      <4>1. e \in Items  BY <2>1, <3>2 DEF Tiled, IsFile
      <4>2. CommittedView[w] = ItemBag(e)  BY <1>2, <3>2 DEF CommittedView
      <4> HIDE DEF e
      <4> QED BY <1>4, <3>1, <4>1, <4>2, BagNothing
    <3>3. CASE w \notin DOMAIN wordFile["main"]
      <4>1. CommittedView[w] = EmptyBag  BY <1>2, <3>3 DEF CommittedView
      <4> QED BY <1>4, <3>1, <4>1, EmptyPlusEmpty
    <3> QED BY <3>2, <3>3
  <2>3. CommittedView' = CommittedView
    BY <2>2 DEF CommittedView
  <2> QED BY <1>2, <2>3 DEF Abstract!Lose
<1>6. CASE wordPos["temp"] # Nothing
  <2>1. /\ DOMAIN wordPos["temp"] = DOMAIN m_words
        /\ Saved(wordPos["temp"], docFile["temp"].recs)
    BY <1>3, <1>6 DEF SavedOrEmpty
  <2>2. ASSUME NEW w
        PROVE  BagOf(wordPos["temp"], docFile["temp"].recs, w)
                  = Abstract!PostingBag(m_words, w)
    BY <2>1, SameBags DEF BagOf, Saved
  <2>3. CommittedView' =
           [w \in Words |-> CommittedView[w] (+) Abstract!PostingBag(m_words, w)]
    BY <1>4, <2>2 DEF CommittedView
  <2>4. \A B, C : B (+) C = Abstract!(+)(B, C)
    BY DEF (+), Abstract!(+)
  <2> QED BY <1>2, <2>3, <2>4 DEF Abstract!Commit
<1> QED BY <1>5, <1>6

\* A death loses what is pending and nothing else.
LEMMA CrashRefines ==
    ASSUME SafeTroubles, TypeOK, Crash
    PROVE  Abstract!Lose
<1>1. /\ pc \notin Window /\ pc' = "down" /\ m_words' = Nothing
      /\ UNCHANGED docFile
  BY DEF Crash, Die, SafeTroubles
<1>2. wordFile'["main"] = wordFile["main"]
  BY <1>1 DEF Crash, Interrupted, Window, TypeOK
<1>3. UNCHANGED CommittedView
  BY <1>1, <1>2 DEF CommittedView, LiveIndex, LiveDocs, Window
<1>4. PendingView' = << >>
  BY <1>1, NoTuple DEF PendingView, Handed, Window
<1> QED BY <1>3, <1>4 DEF Abstract!Lose

\* The index that will be live is the same while it is being installed.
LEMMA InstallStutters ==
    ASSUME TypeOK, RefInv, Install
    PROVE  UNCHANGED <<PendingView, CommittedView>>
<1> USE DEF Handed, Window, PendingView, LiveIndex, LiveDocs
<1>0. /\ DOMAIN docFile = {"main", "temp", "mid"}
      /\ DOMAIN wordFile = {"main", "temp"}
  BY DEF TypeOK
<1>1. CASE SaveMainWords
  <2>1. LiveIndex' = LiveIndex /\ LiveDocs' = LiveDocs /\ PendingView' = PendingView
    BY <1>1 DEF SaveMainWords, memory
  <2> QED BY <2>1 DEF CommittedView
<1>2. CASE RemoveDoc
  <2>1. LiveIndex' = LiveIndex /\ LiveDocs' = LiveDocs /\ PendingView' = PendingView
    BY <1>0, <1>2 DEF RemoveDoc, memory
  <2> QED BY <2>1 DEF CommittedView
<1>3. CASE RenameDoc
  <2>1. wordFile["main"] = wordPos["main"]
    BY <1>3 DEF RenameDoc, RefInv, Calm
  <2>2. LiveIndex' = LiveIndex /\ LiveDocs' = LiveDocs /\ PendingView' = PendingView
    BY <1>0, <1>3, <2>1 DEF RenameDoc, memory
  <2> QED BY <2>2 DEF CommittedView
<1>4. CASE RemovePos \/ RenamePos
  <2>1. LiveIndex' = LiveIndex /\ LiveDocs' = LiveDocs /\ PendingView' = PendingView
    BY <1>4 DEF RemovePos, RenamePos
  <2> QED BY <2>1 DEF CommittedView
<1>5. CASE Clean
  <2>1. LiveIndex' = LiveIndex /\ LiveDocs' = LiveDocs /\ PendingView' = PendingView
    BY <1>0, <1>5, NoTuple DEF Clean
  <2> QED BY <2>1 DEF CommittedView
<1> QED BY <1>1, <1>2, <1>3, <1>4, <1>5 DEF Install

\* Everything else before the index is replaced leaves main's files and
\* what is pending alone.
LEMMA OtherStutters ==
    ASSUME TypeOK,
           \/ SaveIndex \/ Save \/ SaveOpenFails \/ SaveTempWordsFails
           \/ Merge /\ ~ZipDone
           \/ Initialize \/ Restart \/ UNCHANGED vars
    PROVE  UNCHANGED <<PendingView, CommittedView>>
<1> USE DEF memory, locals, files, history
<1>0. /\ DOMAIN docFile = {"main", "temp", "mid"}
      /\ DOMAIN wordFile = {"main", "temp"}
  BY DEF TypeOK
<1>1. CASE UNCHANGED vars
  <2>1. UNCHANGED <<pc, m_words, wordFile, wordPos, docFile>>
    BY <1>1 DEF vars
  <2> QED BY <2>1 DEF PendingView, CommittedView, LiveIndex, LiveDocs
<1>2. ASSUME pc \notin Handed, pc' \notin Handed, UNCHANGED m_words,
             wordFile'["main"] = wordFile["main"],
             docFile'["main"] = docFile["main"]
      PROVE  UNCHANGED <<PendingView, CommittedView>>
  <2>1. LiveIndex' = LiveIndex /\ LiveDocs' = LiveDocs /\ PendingView' = PendingView
    BY <1>2 DEF LiveIndex, LiveDocs, PendingView, Handed
  <2> QED BY <2>1 DEF CommittedView
<1> USE DEF Handed, Window
<1>3. CASE SaveIndex \/ Initialize \/ Restart
  BY <1>2, <1>3 DEF SaveIndex, Initialize, Restart
<1>4. CASE Save
  <2>1. CASE SaveTempWords
    BY <1>0, <1>2, <2>1 DEF SaveTempWords
  <2>2. CASE SaveOpen \/ SaveClose
    BY <1>0, <1>2, <2>2 DEF SaveOpen, SaveClose
  <2>3. CASE \E w \in Words, d \in Docs : SavePosting(w, d)
    BY <1>0, <1>2, <2>3 DEF SavePosting
  <2>4. CASE \E w \in Words : SaveItem(w)
    BY <1>0, <1>2, <2>4 DEF SaveItem
  <2> QED BY <1>4, <2>1, <2>2, <2>3, <2>4 DEF Save
<1>5. CASE SaveOpenFails \/ SaveTempWordsFails
  BY <1>0, <1>2, <1>5 DEF SaveOpenFails, SaveTempWordsFails
<1>6. CASE Merge /\ ~ZipDone
  <2>1. CASE LoadWordIndexes
    BY <1>0, <1>2, <2>1 DEF LoadWordIndexes
  <2>2. ASSUME NEW f \in {"main", "temp"}, NEW g \in {"main", "temp"},
               NEW w \in Words, ZipCopy(f, g, w)
        PROVE  UNCHANGED <<PendingView, CommittedView>>
    BY <1>0, <1>2, <2>2 DEF ZipCopy
  <2>3. CASE \E w \in Words : ZipBoth(w)
    BY <1>0, <1>2, <2>3 DEF ZipBoth
  <2>4. CASE TakeTemp \/ TakeMain
    BY <1>2, <2>4 DEF TakeTemp, TakeMain, Take
  <2>5. CASE \E w \in Words : ZipItem(w)
    BY <1>0, <1>2, <2>5 DEF ZipItem
  <2> QED BY <1>6, <2>1, <2>2, <2>3, <2>4, <2>5 DEF Merge
<1> QED BY <1>1, <1>3, <1>4, <1>5, <1>6

\* Every step is one of the abstract index or changes nothing it shows.
LEMMA StepRefines ==
    ASSUME SafeTroubles, TypeOK, TodoKnown, TileInv, RefInv, [Next]_vars
    PROVE  [Abstract!Next]_(Abstract!avars)
<1>1. CASE \E d \in Docs, c \in Contents : AddDoc(d, c)
  BY <1>1, AddDocRefines DEF Abstract!Next
<1>2. CASE ZipDone
  BY <1>2, ZipDoneRefines DEF Abstract!Next
<1>3. CASE Crash
  BY <1>3, CrashRefines DEF Abstract!Next
<1>4. CASE Install
  BY <1>4, InstallStutters DEF Abstract!avars
<1>5. CASE \/ SaveIndex \/ Save \/ SaveOpenFails \/ SaveTempWordsFails
           \/ Merge /\ ~ZipDone
           \/ Initialize \/ Restart \/ UNCHANGED vars
  BY <1>5, OtherStutters DEF Abstract!avars
<1>6. CASE MergeAbort \/ \E w \in Words : ZipFault(w)
  BY <1>6, NoDeathInMerge DEF RefInv
<1>7. FileFault => SaveOpenFails \/ SaveTempWordsFails
  BY SafeFaults
<1> QED BY <1>1, <1>2, <1>3, <1>4, <1>5, <1>6, <1>7 DEF Next, Progress

\* An index that starts empty starts as the abstract one.
LEMMA InitRefines == Init => Abstract!Init
<1> SUFFICES ASSUME Init PROVE Abstract!Init
  OBVIOUS
<1>1. /\ pc = "crawl" /\ m_words = Nothing /\ wordFile["main"] = Nothing
  BY DEF Init, NoMemory
<1>2. PendingView = << >>
  BY <1>1, NoTuple DEF PendingView, Handed, Window
<1>3. CommittedView = [w \in Words |-> Abstract!EmptyBag]
  BY <1>1, SameBags DEF CommittedView, LiveIndex, Window, Nothing
<1> QED BY <1>2, <1>3 DEF Abstract!Init

\* Seen through its files and whatever its constants, the store does what
\* its callers are promised, through any number of deaths outside the window
\* in which main's files are replaced, or of failed opens of the temp files:
\* add_doc makes a document pending, a save commits everything pending in one
\* step, or what is pending is lost.
THEOREM StoreImplementsIndex ==
    ASSUME SafeTroubles
    PROVE  Spec => ImplementsInvertedIndex
<1>1. Init => SortedInv
  BY NoItemSorted, EmptySorted
     DEF Init, NoLocals, SortedInv, PostingsSorted, FileSorted, SaveSorted, ZipSorted
<1>2. SortedInv /\ TypeOK /\ TodoKnown /\ [Next]_vars => SortedInv'
  BY NextSorted
<1>3. TileInv /\ TypeOK /\ TodoKnown /\ [Next]_vars => TileInv'
  BY TileStep
<1>4. TypeOK /\ TodoKnown /\ SortedInv /\ TileInv /\ RefInv /\ [Next]_vars
         => RefInv'
  BY RefStep
<1>5. TypeOK /\ TodoKnown /\ TileInv /\ RefInv /\ [Next]_vars
         => [Abstract!Next]_(Abstract!avars)
  BY StepRefines
<1>6. Init => TileInv /\ RefInv /\ Abstract!Init
  BY TileInit, InitType, RefInit, InitRefines
<1>7. Spec => [](TypeOK /\ TodoKnown)  BY TypeCorrect
<1> QED
  BY <1>1, <1>2, <1>3, <1>4, <1>5, <1>6, <1>7, PTL
     DEF Spec, ImplementsInvertedIndex, Abstract!Spec

=============================================================================
