--------------------------- MODULE SearchProofs ----------------------------
(***************************************************************************)
(* Proofs about SearchSystem, for every value of its constants: a question *)
(* is answered with documents that were once parsed with its words, with   *)
(* all that this process parsed, the counts its logarithms are taken of    *)
(* are right, and the cosines it sorts by are all numbers or none is.      *)
(***************************************************************************)
EXTENDS SearchSystem, IndexStoreProofs, FiniteSetTheorems, Induction

-----------------------------------------------------------------------------
(* The invariant.                                                          *)

\* The documents of an item are in S with the word.
Given(e, w, S) == \A i \in DOMAIN e.docs : <<e.docs[i], w>> \in S

\* All items an index addresses are of documents that are in S with the word.
Holds(index, file, S) ==
    \A w \in DOMAIN index : Given(file.recs[index[w].start_offset], w, S)

\* In memory, in the item being assembled and in temp's files.
SaveGiven ==
    /\ \A w \in DOMAIN m_words : \A d \in DOMAIN m_words[w] : <<d, w>> \in given
    /\ pc \in {"save", "save_words"} =>
          Holds(wordPos["temp"], docFile["temp"], given)
    /\ pc = "save" =>
          \A w \in Words : Least(w, todo["temp"]) => Given(vec, w, given)
    /\ pc = "load" /\ ~torn => Holds(wordFile["temp"], docFile["temp"], given)

\* In what the merge reads and writes.
ZipGiven ==
    pc \in {"zip", "zip_docs"} /\ ~torn =>
        /\ Holds(wordPos["main"], docFile["main"], given)
        /\ Holds(wordPos["temp"], docFile["temp"], given)
        /\ Holds(outIndex, docFile["mid"], given)
        /\ pc = "zip_docs" =>
              \A w \in Words : NextWord(w) =>
                  /\ Given(vec, w, given)
                  /\ Given(item["main"], w, given)
                  /\ Given(item["temp"], w, given)

\* In main's files, old or new.
MainGiven ==
    /\ pc = "main_words" /\ ~torn =>
          Holds(wordPos["main"], docFile["mid"], given)
    /\ pc \in {"rm_doc", "mv_doc"} /\ ~torn =>
          Holds(wordFile["main"], docFile["mid"], given)
    /\ pc \notin Window /\ ~torn =>
          Holds(wordFile["main"], docFile["main"], given)
    /\ pc = "serve" => wordPos["query"] = wordFile["main"]

GivenInv == SaveGiven /\ ZipGiven /\ MainGiven

-----------------------------------------------------------------------------
(* Items and indexes.                                                      *)

\* What is given stays given.
LEMMA HoldsMore ==
    ASSUME NEW S, NEW T, S \subseteq T
    PROVE  /\ \A e, w : Given(e, w, S) => Given(e, w, T)
           /\ \A index, file : Holds(index, file, S) => Holds(index, file, T)
BY DEF Holds, Given

\* An empty index and an empty item.
LEMMA NothingGiven ==
    ASSUME NEW S
    PROVE  /\ \A file : Holds(Nothing, file, S)
           /\ \A w : Given(NoItem, w, S)
BY DEF Holds, Given, Nothing, NoItem

\* An item written for one more word.
LEMMA WriteHolds ==
    ASSUME NEW S, NEW index, NEW file, IsFile(file, Items), Behind(file),
           \A v \in DOMAIN index : index[v].start_offset \in DOMAIN file.recs,
           Holds(index, file, S),
           NEW e \in Items, NEW w, Given(e, w, S), NEW t,
           t.start_offset = file.len
    PROVE  Holds(Put(index, w, t), WriteRec(file, e, ItemSize(e)), S)
<1> DEFINE new == WriteRec(file, e, ItemSize(e))
           ix == Put(index, w, t)
<1>1. /\ \A o \in DOMAIN file.recs : new.recs[o] = file.recs[o]
      /\ new.recs[file.len] = e
  BY WriteBehind DEF WriteRec, Put
<1>2. /\ DOMAIN ix = DOMAIN index \cup {w}
      /\ ix[w] = t
      /\ \A v \in DOMAIN index : v # w => ix[v] = index[v]
  BY DEF Put
<1> HIDE DEF new, ix
<1>3. ASSUME NEW v \in DOMAIN ix
      PROVE  Given(new.recs[ix[v].start_offset], v, S)
  <2>1. CASE v = w  BY <1>1, <1>2, <2>1
  <2>2. CASE v # w
    <3>1. v \in DOMAIN index /\ ix[v] = index[v]  BY <1>2, <2>2
    <3>2. Given(file.recs[index[v].start_offset], v, S)  BY <3>1 DEF Holds
    <3> QED BY <1>1, <3>1, <3>2
  <2> QED BY <2>1, <2>2
<1>4. Holds(ix, new, S)  BY <1>3 DEF Holds
<1> QED BY <1>4 DEF new, ix

\* One posting more.
LEMMA AppendGiven ==
    ASSUME NEW S, NEW e \in Items, NEW w, Given(e, w, S),
           NEW d \in Docs, <<d, w>> \in S, NEW new, new.docs = Append(e.docs, d)
    PROVE  Given(new, w, S)
<1>1. e.docs \in Seq(Docs)  BY DEF Items
<1>2. /\ DOMAIN new.docs = 1 .. (Len(e.docs) + 1)
      /\ new.docs[Len(e.docs) + 1] = d
      /\ \A i \in DOMAIN e.docs : new.docs[i] = e.docs[i]
      /\ DOMAIN e.docs = 1 .. Len(e.docs) /\ Len(e.docs) \in Nat
  BY <1>1
<1>3. ASSUME NEW i \in DOMAIN new.docs PROVE <<new.docs[i], w>> \in S
  <2>1. i \in DOMAIN e.docs \/ i = Len(e.docs) + 1  BY <1>2
  <2> QED BY <1>2, <2>1 DEF Given
<1> QED BY <1>3 DEF Given

-----------------------------------------------------------------------------
(* GivenInv is an invariant.                                               *)

\* It holds of an empty index.
LEMMA GivenInit == Init => GivenInv
<1> SUFFICES ASSUME Init PROVE GivenInv
  OBVIOUS
<1>1. pc = "crawl" /\ m_words = Nothing /\ wordFile["main"] = Nothing
  BY DEF Init, NoMemory
<1>2. DOMAIN m_words = {}  BY <1>1 DEF Nothing
<1> QED BY <1>1, <1>2, NothingGiven DEF GivenInv, SaveGiven, ZipGiven, MainGiven

\* A parsed document: what is new in memory is given.
LEMMA AddDocGiven ==
    ASSUME TypeOK, GivenInv, NEW d \in Docs, NEW c \in Contents, AddDoc(d, c),
           given' = given \cup ({d} \X DOMAIN c)
    PROVE  GivenInv'
<1>1. /\ pc = "crawl" /\ pc' \in {"crawl", "save_open"}
      /\ UNCHANGED <<wordFile, docFile, torn>>
      /\ m_words' = [w \in DOMAIN m_words \cup DOMAIN c |->
                       IF w \in DOMAIN c THEN Put(Postings(w), d, c[w])
                       ELSE m_words[w]]
  BY DEF AddDoc, files
<1>2. given \subseteq given'  OBVIOUS
<1>3. ASSUME NEW w \in DOMAIN m_words', NEW x \in DOMAIN m_words'[w]
      PROVE  <<x, w>> \in given'
  <2>1. CASE w \in DOMAIN c
    <3>1. DOMAIN m_words'[w] = DOMAIN Postings(w) \cup {d}
      BY <1>1, <2>1 DEF Put
    <3>2. CASE x = d  BY <2>1, <3>2
    <3>3. CASE x \in DOMAIN Postings(w)
      <4>1. w \in DOMAIN m_words /\ x \in DOMAIN m_words[w]
        BY <3>3 DEF Postings, Nothing
      <4> QED BY <1>2, <4>1 DEF GivenInv, SaveGiven
    <3> QED BY <3>1, <3>2, <3>3
  <2>2. CASE w \notin DOMAIN c
    <3>1. w \in DOMAIN m_words /\ x \in DOMAIN m_words[w]  BY <1>1, <2>2
    <3> QED BY <1>2, <3>1 DEF GivenInv, SaveGiven
  <2> QED BY <2>1, <2>2
<1>4. ~torn' => Holds(wordFile'["main"], docFile'["main"], given')
  BY <1>1, <1>2, HoldsMore DEF GivenInv, MainGiven, Window
<1> QED BY <1>1, <1>3, <1>4 DEF GivenInv, SaveGiven, ZipGiven, MainGiven

\* Steps that leave what the invariant speaks of alone.
LEMMA QuietGiven ==
    ASSUME TypeOK, GivenInv, given' = given,
           \/ SaveIndex \/ SaveClose \/ RemovePos \/ RenamePos
           \/ RenamePosFails \/ Restart \/ UNCHANGED vars
    PROVE  GivenInv'
<1> USE DEF memory, locals, files, history, GivenInv, SaveGiven, ZipGiven,
            MainGiven, Window
<1>1. CASE SaveIndex \/ Restart
  BY <1>1 DEF SaveIndex, Restart
<1>2. CASE SaveClose
  BY <1>2 DEF SaveClose
<1>3. CASE RemovePos \/ RenamePos \/ RenamePosFails
  BY <1>3 DEF RemovePos, RenamePos, RenamePosFails
<1>4. CASE UNCHANGED vars
  BY <1>4 DEF vars, NextWord
<1> QED BY <1>1, <1>2, <1>3, <1>4

\* save_index: a posting goes from memory to the item.
LEMMA SavePostingGiven ==
    ASSUME TypeOK, TodoKnown, GivenInv, given' = given,
           NEW w \in Words, NEW d \in Docs, SavePosting(w, d)
    PROVE  GivenInv'
<1>1. /\ pc = "save" /\ pc' = "save" /\ Least(w, todo["temp"])
      /\ d \in DOMAIN m_words[w]
      /\ vec'.docs = Append(vec.docs, d)
      /\ UNCHANGED <<m_words, wordPos, wordFile, docFile, todo, torn>>
  BY DEF SavePosting, memory, history, Least, Unsaved
<1>2. w \in DOMAIN m_words  BY <1>1 DEF TodoKnown, Least
<1>3. <<d, w>> \in given  BY <1>1, <1>2 DEF GivenInv, SaveGiven
<1>4. Given(vec, w, given)  BY <1>1 DEF GivenInv, SaveGiven
<1>5. Given(vec', w, given)
  <2>1. vec \in Items  BY DEF TypeOK
  <2> QED BY <1>1, <1>3, <1>4, <2>1, AppendGiven
<1>6. ASSUME NEW v \in Words, Least(v, todo'["temp"])
      PROVE  Given(vec', v, given')
  <2>1. todo["temp"] \in SUBSET Words  BY DEF TypeOK, Pair
  <2>2. v = w  BY <1>1, <1>6, <2>1, LeastUnique
  <2> QED BY <1>5, <2>2
<1> QED BY <1>1, <1>6 DEF GivenInv, SaveGiven, ZipGiven, MainGiven, Window

\* The item goes to temp's document file.
LEMMA SaveItemGiven ==
    ASSUME TypeOK, TileInv, GivenInv, given' = given, NEW w \in Words, SaveItem(w)
    PROVE  GivenInv'
<1> DEFINE out == docFile["temp"]
           t == [doc_count |-> Len(vec.docs), start_offset |-> out.len,
                 end_offset |-> WriteRec(out, vec, ItemSize(vec)).len]
<1>1. /\ pc = "save" /\ pc' = "save" /\ Least(w, todo["temp"])
      /\ docFile'["temp"] = WriteRec(out, vec, ItemSize(vec))
      /\ docFile'["main"] = docFile["main"]
      /\ wordPos'["temp"] = Put(wordPos["temp"], w, t)
      /\ vec' = NoItem
      /\ UNCHANGED <<m_words, wordFile, torn>>
  BY DEF SaveItem, history, TypeOK
<1>2. /\ IsFile(out, Items) /\ Behind(out) /\ vec \in Items
      /\ \A v \in DOMAIN wordPos["temp"] :
            wordPos["temp"][v].start_offset \in DOMAIN out.recs
  BY <1>1 DEF TypeOK, TileInv, SaveTiles, Tiled
<1>3. Holds(wordPos["temp"], out, given) /\ Given(vec, w, given)
  BY <1>1 DEF GivenInv, SaveGiven
<1>4. t.start_offset = out.len  OBVIOUS
<1> HIDE DEF t
<1>5. Holds(wordPos'["temp"], docFile'["temp"], given')
  BY <1>1, <1>2, <1>3, <1>4, WriteHolds
<1> QED BY <1>1, <1>5, NothingGiven
        DEF GivenInv, SaveGiven, ZipGiven, MainGiven, Window

\* The steps of save_index around its loops, and its failures.
LEMMA SaveEndsGiven ==
    ASSUME TypeOK, SortedInv, TileInv, GivenInv, given' = given,
           SaveOpen \/ SaveTempWords \/ SaveOpenFails \/ SaveTempWordsFails
    PROVE  GivenInv'
<1> USE DEF memory, locals, files, history, GivenInv, SaveGiven, ZipGiven,
            MainGiven, Window
<1>1. /\ DOMAIN docFile = {"main", "temp", "mid"}
      /\ DOMAIN wordFile = {"main", "temp"}
  BY DEF TypeOK
<1>2. CASE SaveOpen
  <2>1. /\ docFile'["main"] = docFile["main"]
        /\ wordPos'["temp"] = Nothing /\ vec' = NoItem
        /\ UNCHANGED <<m_words, wordFile, torn>>
        /\ pc = "save_open" /\ pc' = "save"
    BY <1>1, <1>2 DEF SaveOpen, SortedInv, TileInv, SaveTiles
  <2> QED BY <2>1, NothingGiven
<1>3. CASE SaveTempWords
  <2>1. /\ wordFile'["temp"] = wordPos["temp"] /\ wordFile'["main"] = wordFile["main"]
        /\ UNCHANGED <<m_words, docFile, torn>>
        /\ pc = "save_words" /\ pc' = "load"
    BY <1>1, <1>3 DEF SaveTempWords
  <2> QED BY <2>1
<1>4. CASE SaveOpenFails \/ SaveTempWordsFails
  <2>1. /\ docFile'["main"] = docFile["main"]
        /\ UNCHANGED <<m_words, wordFile>>
        /\ torn' = (torn \/ wordFile["temp"] # Nothing)
        /\ pc \in {"save_open", "save_words"} /\ pc' = "load"
    BY <1>1, <1>4 DEF SaveOpenFails, SaveTempWordsFails
  <2>2. ~torn' => ~torn /\ wordFile'["temp"] = Nothing  BY <2>1
  <2> QED BY <2>1, <2>2, NothingGiven
<1> QED BY <1>2, <1>3, <1>4

\* zipper_merge: what it loads is what the files hold.
LEMMA LoadGiven ==
    ASSUME TypeOK, GivenInv, given' = given, LoadWordIndexes
    PROVE  GivenInv'
<1>1. /\ pc = "load" /\ pc' = "zip"
      /\ DOMAIN docFile = {"main", "temp", "mid"}
      /\ DOMAIN wordPos = {"main", "temp", "query"}
  BY DEF LoadWordIndexes, TypeOK
<1>2. /\ outIndex' = Nothing
      /\ UNCHANGED <<m_words, wordFile, torn>>
      /\ \A f \in {"main", "temp"} :
            wordPos'[f] = wordFile[f] /\ docFile'[f] = docFile[f]
  BY <1>1 DEF LoadWordIndexes, history
<1> QED BY <1>1, <1>2, NothingGiven
        DEF GivenInv, SaveGiven, ZipGiven, MainGiven, Window

\* The item at the cursor of an index is that of its next word.
LEMMA ReadGiven ==
    ASSUME TypeOK, TodoKnown, TileInv, GivenInv, ~torn, pc = "zip",
           NEW f \in {"main", "temp"}, NEW w \in todo[f], NextWord(w)
    PROVE  Given(ItemAt(docFile[f], docCur[f]), w, given)
<1>1. w \in Words /\ Least(w, todo[f])
  BY DEF TypeOK, Pair, NextWord, Least
<1>2. CursorAt(f)  BY DEF TileInv, ZipTiles
<1>3. docCur[f] = wordPos[f][w].start_offset  BY <1>1, <1>2 DEF CursorAt
<1>4. w \in DOMAIN wordPos[f]  BY DEF TodoKnown
<1>5. docCur[f] \in DOMAIN docFile[f].recs
  BY <1>2, <1>3, <1>4 DEF CursorAt, Walked
<1>6. Holds(wordPos[f], docFile[f], given)  BY DEF GivenInv, ZipGiven
<1> QED BY <1>3, <1>4, <1>5, <1>6 DEF Holds, ItemAt

\* An item written to the middle file for the next word.
LEMMA WriteOutGiven ==
    ASSUME TypeOK, TileInv, GivenInv, given' = given,
           pc \in {"zip", "zip_docs"}, pc' = "zip",
           NEW w \in Words, NEW e \in Items, ~torn => Given(e, w, given), NEW t,
           t.start_offset = docFile["mid"].len,
           docFile'["mid"] = WriteRec(docFile["mid"], e, ItemSize(e)),
           outIndex' = Put(outIndex, w, t),
           \A f \in {"main", "temp"} : docFile'[f] = docFile[f],
           UNCHANGED <<m_words, wordPos, wordFile, torn>>
    PROVE  GivenInv'
<1>1. /\ IsFile(docFile["mid"], Items) /\ Behind(docFile["mid"])
      /\ \A v \in DOMAIN outIndex :
            outIndex[v].start_offset \in DOMAIN docFile["mid"].recs
  BY DEF TypeOK, TileInv, ZipTiles, Tiled
<1>2. ASSUME ~torn PROVE Holds(outIndex', docFile'["mid"], given')
  <2>1. Holds(outIndex, docFile["mid"], given)  BY <1>2 DEF GivenInv, ZipGiven
  <2> QED BY <1>1, <1>2, <2>1, WriteHolds
<1> QED BY <1>2 DEF GivenInv, SaveGiven, ZipGiven, MainGiven, Window

\* The loops of the merge.
LEMMA ZipCopyGiven ==
    ASSUME TypeOK, TodoKnown, TileInv, GivenInv, given' = given,
           NEW f \in {"main", "temp"}, NEW g \in {"main", "temp"},
           NEW w \in Words, ZipCopy(f, g, w)
    PROVE  GivenInv'
<1> DEFINE e == ItemAt(docFile[f], docCur[f])
           moved == [e EXCEPT !.offs = Rebase(e.offs, posFile["mid"].len)]
           t == [doc_count |-> wordPos[f][w].doc_count,
                 start_offset |-> docFile["mid"].len,
                 end_offset |->
                    WriteRec(docFile["mid"], moved, ItemSize(moved)).len]
<1>1. /\ pc = "zip" /\ pc' = "zip" /\ NextWord(w) /\ w \in todo[f]
      /\ docFile'["mid"] = WriteRec(docFile["mid"], moved, ItemSize(moved))
      /\ outIndex' = Put(outIndex, w, t)
      /\ UNCHANGED <<m_words, wordPos, wordFile, torn>>
      /\ \A h \in {"main", "temp"} : docFile'[h] = docFile[h]
  BY DEF ZipCopy, memory, history, TypeOK
<1>2. e \in Items  BY ReadBoth
<1>3. moved \in Items /\ moved.docs = e.docs
  <2>1. posFile["mid"].len \in Nat  BY DEF TypeOK, IsFile
  <2> QED BY <1>2, <2>1, RebaseItem DEF Items
<1>4. ~torn => Given(e, w, given)  BY <1>1, ReadGiven
<1>5. t.start_offset = docFile["mid"].len  OBVIOUS
<1> HIDE DEF e, moved, t
<1>6. ~torn => Given(moved, w, given)  BY <1>3, <1>4 DEF Given
<1> QED BY <1>1, <1>3, <1>5, <1>6, WriteOutGiven

\* A word of both indexes begins its merge with nothing moved.
LEMMA ZipBothGiven ==
    ASSUME TypeOK, TodoKnown, TileInv, GivenInv, given' = given,
           NEW w \in Words, ZipBoth(w)
    PROVE  GivenInv'
<1>1. /\ pc = "zip" /\ pc' = "zip_docs" /\ NextWord(w)
      /\ w \in todo["main"] \cap todo["temp"]
      /\ UNCHANGED <<m_words, wordPos, wordFile, docFile, todo, outIndex, torn>>
      /\ \A f \in {"main", "temp"} : item'[f] = ItemAt(docFile[f], docCur[f])
      /\ vec' = NoItem
  BY DEF ZipBoth, memory, history
<1>2. \A v \in Words : NextWord(v)' => v = w
  <2>1. Todo \in SUBSET Words  BY DEF TypeOK, Pair, Todo
  <2>2. ASSUME NEW v \in Words, NextWord(v)' PROVE v = w
    <3>1. Least(v, todo["main"] \cup todo["temp"])
      BY <1>1, <2>2 DEF NextWord
    <3> QED BY <1>1, <2>1, <3>1, LeastUnique DEF NextWord, Todo
  <2> QED BY <2>2
<1>3. ASSUME ~torn, NEW f \in {"main", "temp"} PROVE Given(item'[f], w, given)
  BY <1>1, <1>3, ReadGiven
<1>4. ZipGiven'
  BY <1>1, <1>2, <1>3, NothingGiven DEF GivenInv, ZipGiven
<1> QED BY <1>1, <1>4 DEF GivenInv, SaveGiven, MainGiven, Window

\* An item taken from a list is one that was given.
LEMMA TakeGiven ==
    ASSUME TypeOK, TodoKnown, GivenInv, given' = given, pc = "zip_docs",
           NEW f \in {"main", "temp"}, More(f), Take(f)
    PROVE  GivenInv'
<1> DEFINE d == item[f].docs[at[f] + 1]
<1>1. /\ pc' = "zip_docs"
      /\ UNCHANGED <<m_words, wordPos, wordFile, docFile, todo, outIndex, torn, item>>
      /\ vec'.docs = Append(vec.docs, d)
  BY DEF Take, memory, files, history
<1>2. /\ vec \in Items /\ item[f].docs \in Seq(Docs) /\ at[f] \in Nat
  BY DEF TypeOK, Pair, Items
<1>3. at[f] + 1 \in DOMAIN item[f].docs /\ d \in Docs
  BY <1>2 DEF More
<1> HIDE DEF d
<1>4. ASSUME ~torn, NEW w \in Words, NextWord(w) PROVE Given(vec', w, given)
  <2>1. Given(vec, w, given) /\ Given(item[f], w, given)
    BY <1>4 DEF GivenInv, ZipGiven
  <2>2. <<d, w>> \in given  BY <1>3, <2>1 DEF Given, d
  <2> QED BY <1>1, <1>2, <1>3, <2>1, <2>2, AppendGiven
<1>5. \A w \in Words : NextWord(w)' => NextWord(w)
  BY <1>1 DEF NextWord
<1>6. ZipGiven'
  BY <1>1, <1>4, <1>5 DEF GivenInv, ZipGiven
<1> QED BY <1>1, <1>6 DEF GivenInv, SaveGiven, MainGiven, Window

\* A word's merged list is written with all that was given.
LEMMA ZipItemGiven ==
    ASSUME TypeOK, TileInv, GivenInv, given' = given, NEW w \in Words, ZipItem(w)
    PROVE  GivenInv'
<1> DEFINE t == [doc_count |-> MergedCount(w),
                 start_offset |-> docFile["mid"].len,
                 end_offset |-> WriteRec(docFile["mid"], vec, ItemSize(vec)).len]
<1>1. /\ pc = "zip_docs" /\ pc' = "zip" /\ NextWord(w)
      /\ docFile'["mid"] = WriteRec(docFile["mid"], vec, ItemSize(vec))
      /\ outIndex' = Put(outIndex, w, t)
      /\ UNCHANGED <<m_words, wordPos, wordFile, torn>>
      /\ \A h \in {"main", "temp"} : docFile'[h] = docFile[h]
  BY DEF ZipItem, memory, history, TypeOK
<1>2. vec \in Items  BY DEF TypeOK
<1>3. t.start_offset = docFile["mid"].len  OBVIOUS
<1>4. ~torn => Given(vec, w, given)  BY <1>1 DEF GivenInv, ZipGiven
<1> HIDE DEF t
<1> QED BY <1>1, <1>2, <1>3, <1>4, WriteOutGiven

\* The replacement of main's files.
LEMMA InstallGiven ==
    ASSUME TypeOK, GivenInv, given' = given,
           \/ ZipDone \/ SaveMainWordsFails
           \/ SaveMainWords \/ RemoveDoc \/ RenameDoc \/ RenameDocFails
           \/ Clean \/ Initialize
    PROVE  GivenInv'
<1> USE DEF memory, locals, files, history
<1> USE DEF GivenInv, SaveGiven, ZipGiven, MainGiven, Window
<1>1. /\ DOMAIN docFile = {"main", "temp", "mid"}
      /\ DOMAIN wordFile = {"main", "temp"}
      /\ DOMAIN wordPos = {"main", "temp", "query"}
  BY DEF TypeOK
<1>2. CASE ZipDone \/ SaveMainWordsFails
  <2>1. /\ pc = "zip" /\ pc' \in {"main_words", "rm_doc"}
        /\ UNCHANGED <<m_words, docFile>>
        /\ wordPos'["main"] = outIndex
        /\ pc' = "main_words" => UNCHANGED torn
        /\ pc' = "rm_doc" => torn' = TRUE
    BY <1>1, <1>2 DEF ZipDone, SaveMainWordsFails, ZipFinished
  <2> QED BY <2>1
<1>3. CASE SaveMainWords
  <2>1. /\ pc = "main_words" /\ pc' = "rm_doc"
        /\ wordFile'["main"] = wordPos["main"]
        /\ UNCHANGED <<m_words, docFile, torn>>
    BY <1>1, <1>3 DEF SaveMainWords
  <2> QED BY <2>1
<1>4. CASE RemoveDoc
  <2>1. /\ pc = "rm_doc" /\ pc' = "mv_doc"
        /\ docFile'["mid"] = docFile["mid"]
        /\ UNCHANGED <<m_words, wordFile, torn>>
    BY <1>1, <1>4 DEF RemoveDoc
  <2> QED BY <2>1
<1>5. CASE RenameDoc
  <2>1. /\ pc = "mv_doc" /\ pc' = "rm_pos"
        /\ docFile'["main"] = docFile["mid"]
        /\ UNCHANGED <<m_words, wordFile, torn>>
    BY <1>1, <1>5 DEF RenameDoc
  <2> QED BY <2>1
<1>6. CASE RenameDocFails
  <2>1. /\ pc = "mv_doc" /\ pc' = "rm_pos" /\ torn' = TRUE /\ UNCHANGED m_words
    BY <1>6 DEF RenameDocFails
  <2> QED BY <2>1
<1>7. CASE Clean
  <2>1. /\ pc = "clean" /\ pc' \in {"crawl", "init"}
        /\ docFile'["main"] = docFile["main"]
        /\ wordFile'["main"] = wordFile["main"] /\ DOMAIN m_words' = {}
        /\ UNCHANGED torn
    BY <1>1, <1>7 DEF Clean, Nothing
  <2> QED BY <2>1
<1>8. CASE Initialize
  <2>1. /\ pc = "init" /\ pc' = "serve"
        /\ wordPos'["query"] = wordFile["main"]
        /\ UNCHANGED <<m_words, wordFile, docFile, torn>>
    BY <1>1, <1>8 DEF Initialize
  <2> QED BY <2>1
<1> QED BY <1>2, <1>3, <1>4, <1>5, <1>6, <1>7, <1>8

\* A death, also one that a garbled item causes.
LEMMA DeathGiven ==
    ASSUME TypeOK, GivenInv, given' = given, Die,
           ~torn' => /\ ~torn /\ pc \notin Window
                     /\ wordFile'["main"] = wordFile["main"]
    PROVE  GivenInv'
<1>1. pc' = "down" /\ DOMAIN m_words' = {} /\ UNCHANGED docFile
  BY DEF Die, Nothing
<1> QED BY <1>1 DEF GivenInv, SaveGiven, ZipGiven, MainGiven, Window

\* Every step of the store keeps GivenInv.
LEMMA GivenStep ==
    ASSUME TypeOK, TodoKnown, SortedInv, TileInv, GivenInv, given' = given,
           \/ SaveIndex \/ Save \/ Merge \/ Install \/ Initialize \/ Restart
           \/ FileFault \/ UNCHANGED vars
    PROVE  GivenInv'
<1>1. CASE SaveIndex \/ Restart \/ UNCHANGED vars
  BY <1>1, QuietGiven
<1>2. CASE Save
  BY <1>2, QuietGiven, SavePostingGiven, SaveItemGiven, SaveEndsGiven DEF Save
<1>3. CASE Merge
  <2>1. CASE LoadWordIndexes  BY <2>1, LoadGiven
  <2>2. CASE \/ \E w \in Words : ZipCopy("temp", "main", w)
             \/ \E w \in Words : ZipCopy("main", "temp", w)
    BY <2>2, ZipCopyGiven
  <2>3. CASE \E w \in Words : ZipBoth(w)  BY <2>3, ZipBothGiven
  <2>4. CASE TakeTemp \/ TakeMain
    BY <2>4, TakeGiven DEF TakeTemp, TakeMain
  <2>5. CASE \E w \in Words : ZipItem(w)  BY <2>5, ZipItemGiven
  <2>6. CASE ZipDone  BY <2>6, InstallGiven
  <2> QED BY <1>3, <2>1, <2>2, <2>3, <2>4, <2>5, <2>6 DEF Merge
<1>4. CASE Install \/ Initialize
  BY <1>4, QuietGiven, InstallGiven DEF Install
<1>5. CASE FileFault
  BY <1>5, QuietGiven, SaveEndsGiven, InstallGiven DEF FileFault
<1> QED BY <1>1, <1>2, <1>3, <1>4, <1>5

-----------------------------------------------------------------------------
(* Questions.                                                              *)

\* The parser's document was registered when it was made.
LastKnown ==
    \A last \in m_document :
        last.doc \in Docs \cap DOMAIN docs_db /\ last.words \in Contents

StoreInv == TypeOK /\ TodoKnown /\ SortedInv /\ TileInv /\ LastKnown

\* A document is handed over, be it the one of before.
Crawls == CrawlStale \/ \E d \in Docs, c \in Contents : CrawlDoc(d, c)

\* A file that does not open ends the process, or items that cannot be read do.
Faults == CrawlNull \/ \E q \in Questions : QueryFault(q)

\* Files that were never torn are read where an item starts.
LEMMA NotGarbled ==
    ASSUME TileInv, GivenInv, pc = "serve", ~torn, NEW q
    PROVE  ~Garbled(q)
<1>1. /\ Tiled(wordFile["main"], docFile["main"])
      /\ wordPos["query"] = wordFile["main"]
  BY DEF TileInv, MainTiles, GivenInv, MainGiven, Window
<1>2. ASSUME NEW w, Known(w)
      PROVE  wordPos["query"][w].start_offset \in DOMAIN docFile["main"].recs
  BY <1>1, <1>2 DEF Tiled, Known
<1> QED BY <1>2 DEF Garbled

\* The documents of a word were given with it.
LEMMA WordSound ==
    ASSUME TileInv, GivenInv, pc = "serve", ~torn, NEW w, NEW d \in query_word(w)
    PROVE  <<d, w>> \in given
<1>1. /\ Tiled(wordFile["main"], docFile["main"])
      /\ Holds(wordFile["main"], docFile["main"], given)
      /\ wordPos["query"] = wordFile["main"]
  BY DEF TileInv, MainTiles, GivenInv, MainGiven, Window
<1>2. w \in DOMAIN wordFile["main"] /\ d \in Range(ItemOf(w).docs)
  BY <1>1 DEF query_word, Known
<1>3. ItemOf(w) = docFile["main"].recs[wordFile["main"][w].start_offset]
  BY <1>1, <1>2 DEF ItemOf, ItemAt, Tiled
<1>4. Given(ItemOf(w), w, given)  BY <1>1, <1>2, <1>3 DEF Holds
<1> QED BY <1>2, <1>4 DEF Given, Range

\* An answer to a question is sound.
LEMMA QuerySound ==
    ASSUME TileInv, GivenInv, NEW q \in Questions, Query(q) \/ QueryGarbled(q)
    PROVE  AnswersSound'
<1> SUFFICES ASSUME ~torn', NEW d \in answer'.docs, NEW w \in Asked'
             PROVE  <<d, w>> \in given'
  BY DEF AnswersSound
<1>1. pc = "serve" /\ ~torn /\ given' = given
  BY DEF Query, QueryGarbled, vars, history
<1>2. Query(q)  BY <1>1, NotGarbled DEF QueryGarbled
<1>3. answer'.asked = q /\ answer'.docs = DocList(q)  BY <1>2 DEF Query
<1>4. q # << >> /\ \A i \in DOMAIN q : d \in query_word(q[i])
  BY <1>3 DEF DocList
<1>5. PICK i \in DOMAIN q : w = q[i]  BY <1>3 DEF Asked, Range
<1> QED BY <1>1, <1>4, <1>5, WordSound

-----------------------------------------------------------------------------
(* All steps.                                                              *)

\* What was torn stays so.
LEMMA TornStays == ASSUME TypeOK, [Next]_vars, torn PROVE torn'
<1> USE DEF memory, locals, files, history
<1>1. ASSUME NEW d \in Docs, NEW c \in Contents, AddDoc(d, c) PROVE torn'
  BY <1>1 DEF AddDoc
<1>2. CASE Save
  BY <1>2 DEF Save, SaveOpen, SavePosting, SaveItem, SaveClose, SaveTempWords
<1>3. CASE Merge
  BY <1>3 DEF Merge, LoadWordIndexes, ZipCopy, ZipBoth, TakeTemp, TakeMain,
              Take, ZipItem, ZipDone
<1>4. CASE Install
  BY <1>4 DEF Install, SaveMainWords, RemoveDoc, RenameDoc, RemovePos,
              RenamePos, Clean
<1>5. CASE SaveIndex \/ Initialize \/ Restart \/ UNCHANGED vars
  BY <1>5 DEF SaveIndex, Initialize, Restart, vars
<1>6. CASE Crash \/ MergeAbort \/ \E w \in Words : ZipFault(w)
  BY <1>6, DeathTears
<1>7. CASE FileFault
  BY <1>7 DEF FileFault, SaveOpenFails, SaveTempWordsFails,
              SaveMainWordsFails, RenameDocFails, RenamePosFails
<1> QED BY <1>1, <1>2, <1>3, <1>4, <1>5, <1>6, <1>7 DEF Next, Progress

\* What is handed over is registered, and counted by the registry or as a
\* hand-over that was not.
LEMMA CrawlHands ==
    ASSUME LastKnown, Crawls
    PROVE  \E d \in Docs, c \in Contents :
              /\ HandOver(d, c)
              /\ DOMAIN docs_db' = DOMAIN docs_db \cup {d}
              /\ \/ m_docs_count' = m_docs_count + 1 /\ again' = again
                 \/ m_docs_count' = m_docs_count /\ again' = again + 1
<1>1. CASE CrawlStale
  <2>1. PICK last \in m_document : HandOver(last.doc, last.words)
    BY <1>1 DEF CrawlStale
  <2>2. /\ docs_db' = docs_db /\ m_docs_count' = m_docs_count
        /\ again' = again + 1
    BY <1>1 DEF CrawlStale, registry
  <2>3. /\ last.doc \in Docs /\ last.words \in Contents
        /\ DOMAIN docs_db = DOMAIN docs_db \cup {last.doc}
    BY DEF LastKnown
  <2> QED BY <2>1, <2>2, <2>3
<1>2. ASSUME NEW d \in Docs, NEW c \in Contents, CrawlDoc(d, c)
      PROVE  /\ HandOver(d, c)
             /\ DOMAIN docs_db' = DOMAIN docs_db \cup {d}
             /\ m_docs_count' = m_docs_count + 1 /\ again' = again
  BY <1>2 DEF CrawlDoc, Put
<1> QED BY <1>1, <1>2 DEF Crawls

\* The parser forgets its document only when it made another one or died.
LEMMA LastStays ==
    ASSUME LastKnown, SearchNext \/ UNCHANGED searchVars
    PROVE  LastKnown'
<1>1. CASE \/ CrawlStale \/ StoreStep \/ UNCHANGED searchVars
           \/ \E q \in Questions : Query(q) \/ QueryGarbled(q)
  <2>1. UNCHANGED <<docs_db, m_document>>
    BY <1>1
       DEF CrawlStale, StoreStep, Query, QueryGarbled, searchVars, registry, parser
  <2> QED BY <2>1 DEF LastKnown
<1>2. ASSUME NEW d \in Docs, NEW c \in Contents, CrawlDoc(d, c)
      PROVE  LastKnown'
  <2>1. /\ m_document' = {[doc |-> d, words |-> c]}
        /\ d \in DOMAIN docs_db'
    BY <1>2 DEF CrawlDoc, Put
  <2> QED BY <2>1 DEF LastKnown
<1>3. CASE Death  BY <1>3 DEF Death, LastKnown
<1> QED BY <1>1, <1>2, <1>3 DEF SearchNext

\* The store's invariants, which the deaths it knows nothing of keep too.
LEMMA StoreStepInv ==
    ASSUME StoreInv, SearchNext \/ UNCHANGED searchVars
    PROVE  StoreInv'
<1>1. [Next]_vars \/ Faults
  BY DEF SearchNext, CrawlDoc, CrawlStale, HandOver, LastKnown, Query,
         QueryGarbled, StoreStep, Death, Faults, Next, Progress, searchVars,
         StoreInv
<1>2. LastKnown'  BY LastStays DEF StoreInv
<1>3. CASE [Next]_vars
  BY <1>2, <1>3, NextType, NextTodo, NextSorted, TileStep DEF StoreInv
<1>4. CASE Faults
  <2>1. /\ Die /\ UNCHANGED <<wordFile, torn>> /\ pc \in {"crawl", "serve"}
        /\ crashes' \in {crashes, crashes + 1}
    BY <1>4 DEF Faults, CrawlNull, QueryFault
  <2>2. TypeOK'  BY <2>1, DieType DEF StoreInv, TypeOK
  <2>3. TodoKnown'  BY <2>1 DEF Die, TodoKnown
  <2>4. SortedInv'
    BY <2>1, SortedIdle DEF Die, SortedInv, PostingsSorted, StoreInv
  <2>5. TileInv'  BY <2>1, DieTiles DEF StoreInv, Window
  <2> QED BY <1>2, <2>2, <2>3, <2>4, <2>5 DEF StoreInv
<1> QED BY <1>1, <1>3, <1>4

\* What the files hold was given, after every step of the program.
LEMMA SearchGiven ==
    ASSUME StoreInv, GivenInv, SearchNext \/ UNCHANGED searchVars
    PROVE  GivenInv'
<1>1. CASE Crawls
  BY <1>1, CrawlHands, AddDocGiven DEF HandOver, StoreInv
<1>2. ASSUME NEW q \in Questions, Query(q) \/ QueryGarbled(q) PROVE GivenInv'
  BY <1>2, QuietGiven DEF Query, QueryGarbled, StoreInv
<1>3. CASE StoreStep
  BY <1>3, GivenStep DEF StoreStep, StoreInv
<1>4. CASE Death
  <2>1. given' = given  BY <1>4 DEF Death
  <2>2. CASE Crash \/ MergeAbort \/ \E w \in Words : ZipFault(w)
    BY <2>1, <2>2, DeathTears, DeathGiven DEF StoreInv
  <2>3. CASE Faults
    BY <2>1, <2>3, DeathGiven DEF Faults, CrawlNull, QueryFault, StoreInv, Window
  <2> QED BY <1>4, <2>2, <2>3 DEF Death, Faults
<1>5. CASE UNCHANGED searchVars
  BY <1>5, QuietGiven DEF searchVars, StoreInv
<1> QED BY <1>1, <1>2, <1>3, <1>4, <1>5 DEF SearchNext, Crawls

\* Answers stay sound while the store changes behind them.
LEMMA SearchSound ==
    ASSUME StoreInv, GivenInv, AnswersSound, SearchNext \/ UNCHANGED searchVars
    PROVE  AnswersSound'
<1>1. ASSUME NEW q \in Questions, Query(q) \/ QueryGarbled(q)
      PROVE  AnswersSound'
  BY <1>1, QuerySound DEF StoreInv
<1>2. CASE Death
  <2>1. answer'.docs = {}  BY <1>2 DEF Death, NoAnswer
  <2> QED BY <2>1 DEF AnswersSound
<1>3. CASE Crawls \/ StoreStep \/ UNCHANGED searchVars
  <2>1. [Next]_vars /\ answer' = answer /\ given \subseteq given'
    BY <1>3, CrawlHands
       DEF HandOver, StoreStep, searchVars, Next, Progress, StoreInv
  <2>2. ~torn' => ~torn  BY <2>1, TornStays DEF StoreInv
  <2> QED BY <2>1, <2>2 DEF AnswersSound, Asked
<1> QED BY <1>1, <1>2, <1>3 DEF SearchNext, Crawls

\* The program begins with no files and an empty memory.
LEMMA SearchStart == ASSUME SearchInit PROVE StoreInv /\ GivenInv
<1>1. Init  BY DEF SearchInit
<1>2. TypeOK /\ TodoKnown /\ TileInv /\ GivenInv
  BY <1>1, InitType, TileInit, GivenInit DEF Init, TodoKnown
<1>3. SortedInv
  BY <1>1, NoItemSorted, EmptySorted
     DEF Init, NoLocals, SortedInv, PostingsSorted, FileSorted, SaveSorted,
         ZipSorted
<1>4. LastKnown  BY DEF SearchInit, LastKnown
<1> QED BY <1>2, <1>3, <1>4 DEF StoreInv

\* Every document in an answer was once parsed with each word asked for, for
\* any words, documents, contents, batches and questions, through whatever
\* saves, merges, deaths and failures, unless files were left torn.
THEOREM AnswersAreSound == SearchSpec => []AnswersSound
<1> DEFINE SearchInv == StoreInv /\ GivenInv /\ AnswersSound
<1>1. SearchInit => SearchInv
  <2> SUFFICES ASSUME SearchInit PROVE SearchInv
    OBVIOUS
  <2>1. answer.docs = {}  BY DEF SearchInit, NoAnswer
  <2> QED BY <2>1, SearchStart DEF AnswersSound
<1>2. SearchInv /\ [SearchNext]_searchVars => SearchInv'
  BY StoreStepInv, SearchGiven, SearchSound
<1> QED BY <1>1, <1>2, PTL DEF SearchSpec

-----------------------------------------------------------------------------
(***************************************************************************)
(* Completeness.                                                           *)
(***************************************************************************)

-----------------------------------------------------------------------------
(* The invariant.  Files an earlier process left torn are merged with the  *)
(* wrong words; what this process parsed comes from its memory by way of   *)
(* temp's files, or from a main index that it has itself replaced.         *)

InMemory(d, w) == w \in DOMAIN m_words /\ d \in DOMAIN m_words[w]

\* The word's item has the document.
Found(index, file, d, w) ==
    /\ w \in DOMAIN index
    /\ index[w].start_offset \in DOMAIN file.recs
    /\ d \in Range(file.recs[index[w].start_offset].docs)

\* The read position of index f is at the item of its next word, or behind it.
CursorHere(f) ==
    /\ Walked(wordPos[f], docFile[f])
    /\ Precede(DOMAIN wordPos[f] \ todo[f], todo[f])
    /\ pc = "zip" =>
          \A w \in Words :
              Least(w, todo[f]) => docCur[f] = wordPos[f][w].start_offset
    /\ pc = "zip_docs" =>
          \A w \in Words : NextWord(w) => docCur[f] = wordPos[f][w].end_offset

\* The merge has met the posting in index f or will.
Coming(f, d, w) == CursorHere(f) /\ Found(wordPos[f], docFile[f], d, w)

\* It is in the item being assembled, or still to be taken.
Taken(d) ==
    \/ d \in Range(vec.docs)
    \/ \E f \in {"main", "temp"} : \E j \in DOMAIN item[f].docs :
          j > at[f] /\ item[f].docs[j] = d

MemoryFresh ==
    /\ pc = "down" => fresh = {}
    /\ pc \in {"crawl", "save_open", "save", "save_words", "load"} =>
          \A d \in Docs, w \in Words : <<d, w>> \in fresh =>
              \/ InMemory(d, w)
              \/ /\ Walked(wordFile["main"], docFile["main"])
                 /\ Found(wordFile["main"], docFile["main"], d, w)
    /\ pc \in {"save", "save_words"} =>
          \A d \in Docs, w \in Words : InMemory(d, w) =>
              \/ pc = "save" /\ w \in todo["temp"]
              \/ Found(wordPos["temp"], docFile["temp"], d, w)
    /\ pc = "load" =>
          /\ Walked(wordFile["temp"], docFile["temp"])
          /\ \A d \in Docs, w \in Words :
                InMemory(d, w) => Found(wordFile["temp"], docFile["temp"], d, w)

MergeFresh ==
    pc \in {"zip", "zip_docs"} =>
        /\ \A f \in {"main", "temp"} :
              DOMAIN wordPos[f] \subseteq todo[f] \cup DOMAIN outIndex
        /\ \A d \in Docs, w \in Words : <<d, w>> \in fresh =>
              /\ Coming("main", d, w) \/ Coming("temp", d, w)
              /\ w \in DOMAIN outIndex => Found(outIndex, docFile["mid"], d, w)
              /\ pc = "zip_docs" /\ NextWord(w) => Taken(d)

MainFresh ==
    \A d \in Docs, w \in Words : <<d, w>> \in fresh =>
        /\ pc = "main_words" => Found(wordPos["main"], docFile["mid"], d, w)
        /\ pc \in {"rm_doc", "mv_doc"} =>
              Found(wordFile["main"], docFile["mid"], d, w)
        /\ pc \in {"rm_pos", "mv_pos", "clean", "init", "serve"} =>
              Found(wordFile["main"], docFile["main"], d, w)

FreshInv ==
    /\ pc # "serve" => answer = NoAnswer
    /\ fresh \subseteq Docs \X Words
    /\ faults = 0 => MemoryFresh /\ MergeFresh /\ MainFresh

FreshParts == MemoryFresh /\ MergeFresh /\ MainFresh

-----------------------------------------------------------------------------
(* Items and cursors.                                                      *)

\* An item written for one more word.
LEMMA WriteFound ==
    ASSUME NEW index, NEW file, IsFile(file, Items), Behind(file),
           NEW e, e \in Items, NEW w, w \notin DOMAIN index, NEW t,
           t.start_offset = file.len,
           NEW ix, ix = Put(index, w, t),
           NEW new, new = WriteRec(file, e, ItemSize(e)),
           NEW d
    PROVE  /\ \A v : Found(index, file, d, v) => Found(ix, new, d, v)
           /\ d \in Range(e.docs) => Found(ix, new, d, w)
<1>1. /\ \A o \in DOMAIN file.recs : new.recs[o] = file.recs[o]
      /\ new.recs[file.len] = e
      /\ DOMAIN new.recs = DOMAIN file.recs \cup {file.len}
  BY WriteBehind DEF WriteRec, Put
<1>2. /\ DOMAIN ix = DOMAIN index \cup {w}
      /\ ix[w] = t
      /\ \A v \in DOMAIN index : ix[v] = index[v]
  BY DEF Put
<1>3. ASSUME NEW v, Found(index, file, d, v) PROVE Found(ix, new, d, v)
  BY <1>1, <1>2, <1>3 DEF Found
<1>4. ASSUME d \in Range(e.docs) PROVE Found(ix, new, d, w)
  BY <1>1, <1>2, <1>4 DEF Found
<1> QED BY <1>3, <1>4

\* Reading at the cursor finds the next word's item and its end.
LEMMA ReadHere ==
    ASSUME TypeOK, TodoKnown, pc = "zip", NEW f \in {"main", "temp"},
           CursorHere(f), NEW w \in todo[f], NextWord(w)
    PROVE  /\ ItemAt(docFile[f], docCur[f])
                 = docFile[f].recs[wordPos[f][w].start_offset]
           /\ docCur[f] + ItemStep(docFile[f], docCur[f])
                 = wordPos[f][w].end_offset
<1>1. w \in Words /\ Least(w, todo[f])
  BY DEF TypeOK, Pair, NextWord, Least
<1>2. docCur[f] = wordPos[f][w].start_offset  BY <1>1 DEF CursorHere
<1>3. w \in DOMAIN wordPos[f]  BY DEF TodoKnown
<1> QED BY <1>2, <1>3 DEF CursorHere, Walked, ItemAt, ItemStep

\* The cursor of an index whose next word is done is at the one behind it.
LEMMA HereNext ==
    ASSUME NEW f \in {"main", "temp"}, TypeOK, CursorHere(f),
           todo[f] \subseteq DOMAIN wordPos[f],
           NEW w, Least(w, todo[f]), pc' = "zip",
           docCur'[f] = wordPos[f][w].end_offset,
           todo'[f] = todo[f] \ {w},
           wordPos'[f] = wordPos[f], docFile'[f] = docFile[f]
    PROVE  CursorHere(f)'
<1> DEFINE left == todo[f]
           index == wordPos[f]
           file == docFile[f]
<1>1. /\ left \in SUBSET DOMAIN index /\ IsWordIndex(index)
      /\ Walked(index, file) /\ Precede(DOMAIN index \ left, left)
      /\ Least(w, left)
  BY DEF TypeOK, CursorHere
<1>2. Precede(DOMAIN index \ (left \ {w}), left \ {w})
  <2>1. \A x \in left \ {w} : w < x
    BY <1>1, IndexAssumption DEF Least, IsWordIndex, IsPartial
  <2> QED BY <1>1, <2>1 DEF Precede
<1>3. ASSUME NEW v \in Words, Least(v, left \ {w})
      PROVE  index[w].end_offset = index[v].start_offset
  <2> HIDE DEF left, index, file
  <2> QED BY <1>1, <1>3, NextItem, ZenonT(30)
<1> QED BY <1>1, <1>2, <1>3 DEF CursorHere

\* The cursor of an index that does not have the next word stays.
LEMMA HereStays ==
    ASSUME NEW f \in {"main", "temp"}, CursorHere(f), pc = "zip", pc' = "zip",
           docCur'[f] = docCur[f], todo'[f] = todo[f],
           wordPos'[f] = wordPos[f], docFile'[f] = docFile[f]
    PROVE  CursorHere(f)'
BY DEF CursorHere

\* A word that is in the merged index is not to come in either index.
LEMMA NextIsNew ==
    ASSUME TypeOK, TileInv, pc \in {"zip", "zip_docs"}, NEW w \in Todo
    PROVE  w \in Words /\ w \notin DOMAIN outIndex
<1>1. Precede(DOMAIN outIndex, Todo)  BY DEF TileInv, ZipTiles
<1>2. w \in Words  BY DEF TypeOK, Pair, Todo
<1> QED BY <1>1, <1>2, IndexAssumption DEF Precede

-----------------------------------------------------------------------------
(* FreshInv is an invariant: a process that parses and saves.              *)

\* A parsed document is in memory.
LEMMA CrawlFresh ==
    ASSUME TypeOK, FreshParts, NEW d \in Docs, NEW c \in Contents, AddDoc(d, c),
           fresh' = fresh \cup ({d} \X DOMAIN c)
    PROVE  FreshParts'
<1>1. /\ pc = "crawl" /\ pc' \in {"crawl", "save_open"}
      /\ UNCHANGED <<wordFile, docFile>>
      /\ m_words' = [w \in DOMAIN m_words \cup DOMAIN c |->
                       IF w \in DOMAIN c THEN Put(Postings(w), d, c[w])
                       ELSE m_words[w]]
  BY DEF AddDoc, files
<1>2. ASSUME NEW x, NEW w, InMemory(x, w) PROVE InMemory(x, w)'
  BY <1>1, <1>2 DEF InMemory, Put, Postings
<1>3. ASSUME NEW w \in DOMAIN c PROVE InMemory(d, w)'
  BY <1>1 DEF InMemory, Put
<1>4. ASSUME NEW x \in Docs, NEW w \in Words, <<x, w>> \in fresh'
      PROVE  \/ InMemory(x, w)'
             \/ /\ Walked(wordFile'["main"], docFile'["main"])
                /\ Found(wordFile'["main"], docFile'["main"], x, w)
  <2>1. CASE <<x, w>> \in fresh
    BY <1>1, <1>2, <2>1 DEF FreshParts, MemoryFresh
  <2>2. CASE x = d /\ w \in DOMAIN c  BY <1>3, <2>2
  <2> QED BY <1>4, <2>1, <2>2
<1> QED BY <1>1, <1>4 DEF FreshParts, MemoryFresh, MergeFresh, MainFresh

\* Steps that leave what the invariant speaks of alone.
LEMMA QuietFresh ==
    ASSUME TypeOK, TileInv, FreshParts, fresh' = fresh, faults = 0,
           \/ SaveIndex \/ SaveClose \/ RemovePos \/ RenamePos \/ Restart
           \/ \E w \in Words, d \in Docs : SavePosting(w, d)
           \/ UNCHANGED vars
    PROVE  FreshParts'
<1> USE DEF memory, locals, files, history, FreshParts, MemoryFresh,
            MergeFresh, MainFresh, InMemory
<1>1. CASE SaveIndex
  BY <1>1 DEF SaveIndex
<1>2. CASE Restart
  BY <1>2 DEF Restart
<1>3. CASE SaveClose
  BY <1>3 DEF SaveClose
<1>4. CASE RemovePos \/ RenamePos
  BY <1>4 DEF RemovePos, RenamePos
<1>5. CASE \E w \in Words, d \in Docs : SavePosting(w, d)
  BY <1>5 DEF SavePosting
<1>6. CASE UNCHANGED vars
  BY <1>6 DEF vars, NextWord, Coming, CursorHere, Taken
<1> QED BY <1>1, <1>2, <1>3, <1>4, <1>5, <1>6

\* save_index opens, writes and closes temp's files.
LEMMA SaveItemFresh ==
    ASSUME TypeOK, TodoKnown, TileInv, FreshParts, fresh' = fresh,
           NEW w \in Words, SaveItem(w)
    PROVE  FreshParts'
<1> DEFINE out == docFile["temp"]
           index == wordPos["temp"]
           t == [doc_count |-> Len(vec.docs), start_offset |-> out.len,
                 end_offset |-> WriteRec(out, vec, ItemSize(vec)).len]
<1>1. /\ pc = "save" /\ pc' = "save" /\ Least(w, todo["temp"])
      /\ DOMAIN m_words[w] \subseteq Range(vec.docs)
      /\ docFile'["temp"] = WriteRec(out, vec, ItemSize(vec))
      /\ docFile'["main"] = docFile["main"]
      /\ wordPos'["temp"] = Put(index, w, t)
      /\ todo'["temp"] = todo["temp"] \ {w}
      /\ UNCHANGED <<m_words, wordFile>>
  BY DEF SaveItem, history, TypeOK, Unsaved, Pair
<1>2. /\ IsFile(out, Items) /\ Behind(out) /\ vec \in Items
      /\ Precede(DOMAIN index, todo["temp"])
  BY <1>1 DEF TypeOK, TileInv, SaveTiles
<1>3. w \notin DOMAIN index  BY <1>1, <1>2, IndexAssumption DEF Precede, Least
<1>4. t.start_offset = out.len  OBVIOUS
<1> HIDE DEF t, out, index
<1>5. /\ \A d, v : Found(index, out, d, v) =>
                     Found(wordPos'["temp"], docFile'["temp"], d, v)
      /\ \A d \in Range(vec.docs) : Found(wordPos'["temp"], docFile'["temp"], d, w)
  <2> DEFINE ix == wordPos'["temp"]
             new == docFile'["temp"]
  <2>1. ix = Put(index, w, t) /\ new = WriteRec(out, vec, ItemSize(vec))
    BY <1>1
  <2> HIDE DEF ix, new
  <2>2. ASSUME NEW d
        PROVE  /\ \A v : Found(index, out, d, v) => Found(ix, new, d, v)
               /\ d \in Range(vec.docs) => Found(ix, new, d, w)
    BY <1>2, <1>3, <1>4, <2>1, WriteFound
  <2> QED BY <2>2 DEF ix, new
<1>6. ASSUME NEW d \in Docs, NEW v \in Words, InMemory(d, v)
      PROVE  \/ v \in todo'["temp"]
             \/ Found(wordPos'["temp"], docFile'["temp"], d, v)
  <2>1. v \in todo["temp"] \/ Found(index, out, d, v)
    BY <1>1, <1>6 DEF FreshParts, MemoryFresh, index, out
  <2>2. CASE v = w  BY <1>1, <1>5, <1>6, <2>2 DEF InMemory
  <2> QED BY <1>1, <1>5, <2>1, <2>2
<1>7. \A d, v : InMemory(d, v)' = InMemory(d, v)  BY <1>1 DEF InMemory
<1> QED BY <1>1, <1>6, <1>7 DEF FreshParts, MemoryFresh, MergeFresh, MainFresh

\* The end of a save changes no list.
LEMMA SaveEndsFresh ==
    ASSUME TypeOK, TodoKnown, TileInv, FreshParts, fresh' = fresh,
           SaveOpen \/ SaveTempWords
    PROVE  FreshParts'
<1> USE DEF memory, locals, files, history, FreshParts, MemoryFresh,
            MergeFresh, MainFresh, InMemory
<1>1. /\ DOMAIN docFile = {"main", "temp", "mid"}
      /\ DOMAIN wordFile = {"main", "temp"}
      /\ todo \in Pair(SUBSET Words)
  BY DEF TypeOK
<1>2. CASE SaveOpen
  <2>1. /\ docFile'["main"] = docFile["main"]
        /\ todo'["temp"] = DOMAIN m_words
        /\ UNCHANGED <<m_words, wordFile>>
        /\ pc = "save_open" /\ pc' = "save"
    BY <1>1, <1>2 DEF SaveOpen, Pair
  <2> QED BY <2>1
<1>3. CASE SaveTempWords
  <2>1. /\ wordFile'["temp"] = wordPos["temp"] /\ wordFile'["main"] = wordFile["main"]
        /\ UNCHANGED <<m_words, docFile>>
        /\ pc = "save_words" /\ pc' = "load"
    BY <1>1, <1>3 DEF SaveTempWords
  <2>2. Walked(wordPos["temp"], docFile["temp"])
    BY <2>1, TiledWalked DEF TileInv, SaveTiles
  <2> QED BY <2>1, <2>2
<1> QED BY <1>2, <1>3

\* What zipper_merge loads: temp has all of the memory, and main is sound if
\* anything this process parsed has left the memory.
LEMMA LoadFresh ==
    ASSUME TypeOK, FreshParts, fresh' = fresh, LoadWordIndexes
    PROVE  FreshParts'
<1>1. /\ pc = "load" /\ pc' = "zip"
      /\ DOMAIN docFile = {"main", "temp", "mid"}
      /\ DOMAIN wordPos = {"main", "temp", "query"}
  BY DEF LoadWordIndexes, TypeOK
<1>2. /\ outIndex' = Nothing
      /\ \A f \in {"main", "temp"} :
            /\ wordPos'[f] = wordFile[f] /\ docFile'[f] = docFile[f]
            /\ todo'[f] = DOMAIN wordFile[f] /\ docCur'[f] = 0
  BY <1>1 DEF LoadWordIndexes
<1>3. ASSUME NEW f \in {"main", "temp"}, Walked(wordFile[f], docFile[f])
      PROVE  CursorHere(f)'
  <2>1. ASSUME NEW w \in Words, Least(w, DOMAIN wordFile[f])
        PROVE  wordFile[f][w].start_offset = 0
    BY <1>3, <2>1 DEF Walked, Least
  <2> QED BY <1>1, <1>2, <1>3, <2>1 DEF CursorHere, Precede
<1>4. ASSUME NEW d \in Docs, NEW w \in Words, <<d, w>> \in fresh
      PROVE  Coming("main", d, w)' \/ Coming("temp", d, w)'
  <2>1. CASE InMemory(d, w)
    <3>1. /\ Walked(wordFile["temp"], docFile["temp"])
          /\ Found(wordFile["temp"], docFile["temp"], d, w)
      BY <1>1, <2>1 DEF FreshParts, MemoryFresh
    <3> QED BY <1>2, <1>3, <3>1 DEF Coming
  <2>2. CASE /\ Walked(wordFile["main"], docFile["main"])
             /\ Found(wordFile["main"], docFile["main"], d, w)
    BY <1>2, <1>3, <2>2 DEF Coming
  <2> QED BY <1>1, <1>4, <2>1, <2>2 DEF FreshParts, MemoryFresh
<1>5. DOMAIN outIndex' = {}  BY <1>2 DEF Nothing
<1> QED BY <1>1, <1>2, <1>4, <1>5
        DEF FreshParts, MemoryFresh, MergeFresh, MainFresh

\* An item written to the middle file for the next word: it has all documents
\* of the word, and those of the words before are found as they were.
LEMMA WriteOutFresh ==
    ASSUME TypeOK, TodoKnown, TileInv, MergeFresh, fresh' = fresh,
           pc \in {"zip", "zip_docs"}, pc' = "zip",
           NEW w \in Words, NextWord(w), NEW e \in Items,
           \A d \in Docs : <<d, w>> \in fresh => d \in Range(e.docs),
           NEW t, t.start_offset = docFile["mid"].len,
           docFile'["mid"] = WriteRec(docFile["mid"], e, ItemSize(e)),
           outIndex' = Put(outIndex, w, t),
           \A f \in {"main", "temp"} :
              /\ todo'[f] = todo[f] \ {w}
              /\ docFile'[f] = docFile[f]
              /\ CursorHere(f) => CursorHere(f)',
           UNCHANGED wordPos
    PROVE  FreshParts'
<1>1. w \notin DOMAIN outIndex
  BY NextIsNew DEF NextWord, Least, Todo
<1>2. IsFile(docFile["mid"], Items) /\ Behind(docFile["mid"])
  BY DEF TypeOK, TileInv
<1>3. /\ \A d, v : Found(outIndex, docFile["mid"], d, v) =>
                     Found(outIndex', docFile'["mid"], d, v)
      /\ \A d \in Range(e.docs) : Found(outIndex', docFile'["mid"], d, w)
      /\ DOMAIN outIndex' = DOMAIN outIndex \cup {w}
  <2> DEFINE index == outIndex
             file == docFile["mid"]
             ix == outIndex'
             new == docFile'["mid"]
  <2>1. /\ IsFile(file, Items) /\ Behind(file) /\ w \notin DOMAIN index
        /\ t.start_offset = file.len /\ ix = Put(index, w, t)
        /\ new = WriteRec(file, e, ItemSize(e))
    BY <1>1, <1>2
  <2> HIDE DEF index, file, ix, new
  <2>2. ASSUME NEW d
        PROVE  /\ \A v : Found(index, file, d, v) => Found(ix, new, d, v)
               /\ d \in Range(e.docs) => Found(ix, new, d, w)
    BY <2>1, WriteFound
  <2>3. DOMAIN ix = DOMAIN index \cup {w}  BY <2>1 DEF Put
  <2> QED BY <2>2, <2>3 DEF index, file, ix, new
<1>4. ASSUME NEW f \in {"main", "temp"}
      PROVE  DOMAIN wordPos'[f] \subseteq todo'[f] \cup DOMAIN outIndex'
  <2>1. DOMAIN wordPos[f] \subseteq todo[f] \cup DOMAIN outIndex
    BY DEF MergeFresh
  <2> QED BY <1>3, <2>1
<1>5. ASSUME NEW d \in Docs, NEW v \in Words, <<d, v>> \in fresh
      PROVE  /\ Coming("main", d, v)' \/ Coming("temp", d, v)'
             /\ v \in DOMAIN outIndex' =>
                   Found(outIndex', docFile'["mid"], d, v)
  <2>1. Coming("main", d, v) \/ Coming("temp", d, v)
    BY <1>5 DEF MergeFresh
  <2>2. Coming("main", d, v)' \/ Coming("temp", d, v)'
    BY <2>1 DEF Coming
  <2>3. CASE v = w  BY <1>3, <1>5, <2>2, <2>3
  <2>4. CASE v # w
    BY <1>3, <1>5, <2>2, <2>4 DEF MergeFresh
  <2> QED BY <2>3, <2>4
<1> QED BY <1>4, <1>5 DEF FreshParts, MemoryFresh, MergeFresh, MainFresh

\* The next word in one index: what is to come of it comes from there.
LEMMA ZipCopyFresh ==
    ASSUME TypeOK, TodoKnown, TileInv, FreshParts, fresh' = fresh,
           NEW f \in {"main", "temp"}, NEW g \in {"main", "temp"}, f # g,
           NEW w \in Words, ZipCopy(f, g, w)
    PROVE  FreshParts'
<1> DEFINE e == ItemAt(docFile[f], docCur[f])
           moved == [e EXCEPT !.offs = Rebase(e.offs, posFile["mid"].len)]
           t == [doc_count |-> wordPos[f][w].doc_count,
                 start_offset |-> docFile["mid"].len,
                 end_offset |->
                    WriteRec(docFile["mid"], moved, ItemSize(moved)).len]
<1>1. /\ pc = "zip" /\ pc' = "zip" /\ NextWord(w) /\ w \in todo[f] \ todo[g]
      /\ docFile'["mid"] = WriteRec(docFile["mid"], moved, ItemSize(moved))
      /\ outIndex' = Put(outIndex, w, t)
      /\ UNCHANGED wordPos
      /\ docCur'[f] = docCur[f] + ItemStep(docFile[f], docCur[f])
      /\ docCur'[g] = docCur[g]
      /\ todo'[f] = todo[f] \ {w} /\ todo'[g] = todo[g]
      /\ \A h \in {"main", "temp"} :
            todo'[h] = todo[h] \ {w} /\ docFile'[h] = docFile[h]
  BY DEF ZipCopy, memory, TypeOK, Pair
<1>2. e \in Items  BY ReadBoth
<1>3. moved \in Items /\ moved.docs = e.docs
  <2>1. posFile["mid"].len \in Nat  BY DEF TypeOK, IsFile
  <2> QED BY <1>2, <2>1, RebaseItem DEF Items
<1>4. t.start_offset = docFile["mid"].len  OBVIOUS
<1>5. MergeFresh  BY DEF FreshParts
<1>6. ASSUME CursorHere(f)
      PROVE  /\ e = docFile[f].recs[wordPos[f][w].start_offset]
             /\ docCur'[f] = wordPos[f][w].end_offset
  BY <1>1, <1>6, ReadHere
<1> HIDE DEF e, moved, t
<1>7. ASSUME NEW h \in {"main", "temp"}, CursorHere(h) PROVE CursorHere(h)'
  <2>1. CASE h = f
    <3>1. Least(w, todo[f]) /\ todo[f] \subseteq DOMAIN wordPos[f]
      BY <1>1 DEF NextWord, Least, TodoKnown
    <3> QED BY <1>1, <1>6, <1>7, <2>1, <3>1, HereNext
  <2>2. CASE h = g  BY <1>1, <1>7, <2>2, HereStays
  <2> QED BY <2>1, <2>2
<1>8. ASSUME NEW d \in Docs, <<d, w>> \in fresh PROVE d \in Range(moved.docs)
  <2>1. ~Coming(g, d, w)
    <3>1. w \notin DOMAIN outIndex  BY <1>1, NextIsNew DEF Todo
    <3>2. w \notin DOMAIN wordPos[g]  BY <1>1, <1>5, <3>1 DEF MergeFresh
    <3> QED BY <3>2 DEF Coming, Found
  <2>2. Coming(f, d, w)  BY <1>1, <1>5, <1>8, <2>1 DEF MergeFresh
  <2> QED BY <1>3, <1>6, <2>2 DEF Coming, Found
<1> QED BY <1>1, <1>3, <1>4, <1>5, <1>7, <1>8, WriteOutFresh

\* The next word in both: what is to come of it is in one of the two items.
LEMMA ZipBothFresh ==
    ASSUME TypeOK, TodoKnown, TileInv, FreshParts, fresh' = fresh,
           NEW w \in Words, ZipBoth(w)
    PROVE  FreshParts'
<1>1. /\ pc = "zip" /\ pc' = "zip_docs" /\ NextWord(w)
      /\ w \in todo["main"] \cap todo["temp"]
      /\ UNCHANGED <<wordPos, docFile, todo, outIndex>>
      /\ \A f \in {"main", "temp"} :
            /\ item'[f] = ItemAt(docFile[f], docCur[f])
            /\ at'[f] = 0
            /\ docCur'[f] = docCur[f] + ItemStep(docFile[f], docCur[f])
  BY DEF ZipBoth, memory
<1>2. \A v \in Words : NextWord(v)' => v = w
  <2>1. Todo \in SUBSET Words  BY DEF TypeOK, Pair, Todo
  <2>2. ASSUME NEW v \in Words, NextWord(v)' PROVE v = w
    <3>1. Least(v, todo["main"] \cup todo["temp"])
      BY <1>1, <2>2 DEF NextWord
    <3> QED BY <1>1, <2>1, <3>1, LeastUnique DEF NextWord, Todo
  <2> QED BY <2>2
<1>3. ASSUME NEW f \in {"main", "temp"}, CursorHere(f)
      PROVE  /\ item'[f] = docFile[f].recs[wordPos[f][w].start_offset]
             /\ CursorHere(f)'
  <2>1. /\ item'[f] = docFile[f].recs[wordPos[f][w].start_offset]
        /\ docCur'[f] = wordPos[f][w].end_offset
    BY <1>1, <1>3, ReadHere
  <2> QED BY <1>1, <1>2, <1>3, <2>1 DEF CursorHere
<1>4. ASSUME NEW d \in Docs, NEW v \in Words, <<d, v>> \in fresh
      PROVE  /\ Coming("main", d, v)' \/ Coming("temp", d, v)'
             /\ v = w => Taken(d)'
  <2>1. PICK f \in {"main", "temp"} : Coming(f, d, v)
    BY <1>1, <1>4 DEF FreshParts, MergeFresh
  <2>2. Coming(f, d, v)'  BY <1>1, <1>3, <2>1 DEF Coming
  <2>3. ASSUME v = w PROVE Taken(d)'
    <3>1. d \in Range(item'[f].docs)
      BY <1>3, <2>1, <2>3 DEF Coming, Found
    <3>2. item'[f] \in Items  BY <1>1, ReadBoth
    <3>3. PICK j \in DOMAIN item'[f].docs : item'[f].docs[j] = d
      BY <3>1 DEF Range
    <3>4. j > at'[f]  BY <1>1, <3>2, <3>3 DEF Items
    <3> QED BY <3>3, <3>4 DEF Taken
  <2> QED BY <2>2, <2>3
<1>5. MergeFresh'
  BY <1>1, <1>2, <1>4 DEF FreshParts, MergeFresh
<1> QED BY <1>1, <1>5 DEF FreshParts, MemoryFresh, MainFresh

\* One posting more.
LEMMA TakeFresh ==
    ASSUME TypeOK, FreshParts, fresh' = fresh, pc = "zip_docs",
           NEW f \in {"main", "temp"}, More(f), Take(f)
    PROVE  FreshParts'
<1> DEFINE x == item[f].docs[at[f] + 1]
<1>1. /\ pc' = "zip_docs"
      /\ UNCHANGED <<wordPos, docFile, todo, outIndex, docCur, item>>
      /\ vec'.docs = Append(vec.docs, x)
      /\ at' = [at EXCEPT ![f] = at[f] + 1]
  BY DEF Take, memory, files
<1>2. /\ vec.docs \in Seq(Docs) /\ at \in Pair(Nat)
      /\ \A g \in {"main", "temp"} : item[g].docs \in Seq(Docs)
  BY DEF TypeOK, Pair, Items
<1>3. x \in Docs  BY <1>2 DEF More, Pair
<1> HIDE DEF x
<1>4. /\ x \in Range(vec'.docs)
      /\ \A d \in Range(vec.docs) : d \in Range(vec'.docs)
  <2>1. /\ DOMAIN vec'.docs = 1 .. (Len(vec.docs) + 1)
        /\ vec'.docs[Len(vec.docs) + 1] = x
        /\ \A i \in DOMAIN vec.docs : vec'.docs[i] = vec.docs[i]
        /\ DOMAIN vec.docs = 1 .. Len(vec.docs) /\ Len(vec.docs) \in Nat
    BY <1>1, <1>2, <1>3
  <2> QED BY <2>1 DEF Range
<1>5. ASSUME NEW d, Taken(d) PROVE Taken(d)'
  <2>1. CASE d \in Range(vec.docs)  BY <1>4, <2>1 DEF Taken
  <2>2. ASSUME NEW g \in {"main", "temp"}, NEW j \in DOMAIN item[g].docs,
               j > at[g], item[g].docs[j] = d
        PROVE  Taken(d)'
    <3>1. j \in Nat /\ at[g] \in Nat /\ at[f] \in Nat  BY <1>2 DEF Pair
    <3>2. CASE j > at'[g]  BY <1>1, <2>2, <3>2 DEF Taken
    <3>3. CASE ~(j > at'[g])
      <4>1. at'[g] = IF g = f THEN at[f] + 1 ELSE at[g]
        BY <1>1, <1>2 DEF Pair
      <4>2. g = f /\ j = at[f] + 1
        BY <2>2, <3>1, <3>3, <4>1
      <4> QED BY <1>4, <2>2, <4>2 DEF Taken, x
    <3> QED BY <3>2, <3>3
  <2> QED BY <1>5, <2>1, <2>2 DEF Taken
<1>6. \A v \in Words : NextWord(v)' = NextWord(v)
  BY <1>1 DEF NextWord
<1>7. \A g \in {"main", "temp"} : CursorHere(g) => CursorHere(g)'
  BY <1>1, <1>6 DEF CursorHere
<1>8. MergeFresh'
  BY <1>1, <1>5, <1>6, <1>7 DEF FreshParts, MergeFresh, Coming
<1> QED BY <1>1, <1>8 DEF FreshParts, MemoryFresh, MainFresh

\* With nothing left to take, the item has all there is of the word.
LEMMA ZipItemFresh ==
    ASSUME TypeOK, TodoKnown, TileInv, FreshParts, fresh' = fresh,
           NEW w \in Words, ZipItem(w)
    PROVE  FreshParts'
<1> DEFINE t == [doc_count |-> MergedCount(w),
                 start_offset |-> docFile["mid"].len,
                 end_offset |-> WriteRec(docFile["mid"], vec, ItemSize(vec)).len]
<1>1. /\ pc = "zip_docs" /\ pc' = "zip" /\ NextWord(w)
      /\ ~More("main") /\ ~More("temp")
      /\ docFile'["mid"] = WriteRec(docFile["mid"], vec, ItemSize(vec))
      /\ outIndex' = Put(outIndex, w, t)
      /\ UNCHANGED <<wordPos, docCur>>
      /\ \A h \in {"main", "temp"} :
            todo'[h] = todo[h] \ {w} /\ docFile'[h] = docFile[h]
  BY DEF ZipItem, memory, TypeOK
<1>2. vec \in Items  BY DEF TypeOK
<1>3. t.start_offset = docFile["mid"].len  OBVIOUS
<1>4. MergeFresh  BY DEF FreshParts
<1> HIDE DEF t
<1>5. ASSUME NEW d \in Docs, <<d, w>> \in fresh PROVE d \in Range(vec.docs)
  <2>1. Taken(d)  BY <1>1, <1>4, <1>5 DEF MergeFresh
  <2>2. ASSUME NEW f \in {"main", "temp"}, NEW j \in DOMAIN item[f].docs
        PROVE  ~(j > at[f])
    <3>1. item[f].docs \in Seq(Docs) /\ at[f] \in Nat
      BY DEF TypeOK, Pair, Items
    <3> QED BY <1>1, <3>1 DEF More
  <2> QED BY <2>1, <2>2 DEF Taken
<1>6. ASSUME NEW f \in {"main", "temp"}, CursorHere(f) PROVE CursorHere(f)'
  <2>1. /\ Least(w, todo[f]) /\ todo[f] \subseteq DOMAIN wordPos[f]
    <3>1. w \in todo["main"] \cap todo["temp"]  BY <1>1 DEF TodoKnown
    <3> QED BY <1>1, <3>1 DEF NextWord, Least, TodoKnown
  <2>2. docCur'[f] = wordPos[f][w].end_offset  BY <1>1, <1>6 DEF CursorHere
  <2> QED BY <1>1, <1>6, <2>1, <2>2, HereNext
<1> QED BY <1>1, <1>2, <1>3, <1>4, <1>5, <1>6, WriteOutFresh

\* The end of the merge and the replacement of main's files.
LEMMA InstallFresh ==
    ASSUME TypeOK, TileInv, FreshParts, fresh' = fresh, faults = 0,
           ZipDone \/ SaveMainWords \/ RemoveDoc \/ RenameDoc \/ Clean \/ Initialize
    PROVE  FreshParts'
<1> USE DEF memory, locals, files, history
<1> USE DEF FreshParts, MemoryFresh, MergeFresh, MainFresh
<1>1. /\ DOMAIN docFile = {"main", "temp", "mid"}
      /\ DOMAIN wordFile = {"main", "temp"}
      /\ DOMAIN wordPos = {"main", "temp", "query"}
  BY DEF TypeOK
<1>2. CASE ZipDone
  <2>1. /\ pc = "zip" /\ pc' = "main_words" /\ UNCHANGED docFile
        /\ todo["main"] = {} /\ todo["temp"] = {}
        /\ wordPos'["main"] = outIndex
    BY <1>1, <1>2 DEF ZipDone, ZipFinished
  <2>2. ASSUME NEW d \in Docs, NEW w \in Words, <<d, w>> \in fresh
        PROVE  Found(outIndex, docFile["mid"], d, w)
    <3>1. PICK f \in {"main", "temp"} : Coming(f, d, w)
      BY <2>1, <2>2
    <3>2. w \in DOMAIN outIndex  BY <2>1, <3>1 DEF Coming, Found
    <3> QED BY <2>1, <2>2, <3>2
  <2> QED BY <2>1, <2>2
<1>3. CASE SaveMainWords
  <2>1. /\ pc = "main_words" /\ pc' = "rm_doc"
        /\ wordFile'["main"] = wordPos["main"] /\ UNCHANGED docFile
    BY <1>1, <1>3 DEF SaveMainWords
  <2> QED BY <2>1
<1>4. CASE RemoveDoc
  <2>1. /\ pc = "rm_doc" /\ pc' = "mv_doc"
        /\ docFile'["mid"] = docFile["mid"] /\ UNCHANGED wordFile
    BY <1>1, <1>4 DEF RemoveDoc
  <2> QED BY <2>1
<1>5. CASE RenameDoc
  <2>1. /\ pc = "mv_doc" /\ pc' = "rm_pos"
        /\ docFile'["main"] = docFile["mid"] /\ UNCHANGED wordFile
    BY <1>1, <1>5 DEF RenameDoc
  <2> QED BY <2>1
<1>6. CASE Clean
  <2>1. /\ pc = "clean" /\ pc' \in {"crawl", "init"}
        /\ docFile'["main"] = docFile["main"]
        /\ wordFile'["main"] = wordFile["main"]
    BY <1>1, <1>6 DEF Clean
  <2>2. Walked(wordFile["main"], docFile["main"])
    BY <2>1, TiledWalked DEF TileInv, MainTiles
  <2> QED BY <2>1, <2>2
<1>7. CASE Initialize
  <2>1. pc = "init" /\ pc' = "serve" /\ UNCHANGED <<wordFile, docFile>>
    BY <1>7 DEF Initialize
  <2> QED BY <2>1
<1> QED BY <1>2, <1>3, <1>4, <1>5, <1>6, <1>7

\* Failures are counted, and nothing takes them back.
LEMMA FaultsStay == ASSUME TypeOK, FileFault, faults' = 0 PROVE FALSE
BY DEF FileFault, SaveOpenFails, SaveTempWordsFails, SaveMainWordsFails,
       RenameDocFails, RenamePosFails, Fail, TypeOK

\* Every step of the store keeps it.
LEMMA FreshStep ==
    ASSUME StoreInv, FreshParts, fresh' = fresh, faults = 0,
           \/ SaveIndex \/ Save \/ Merge \/ Install \/ Initialize \/ Restart
           \/ UNCHANGED vars
    PROVE  FreshParts'
<1> USE DEF StoreInv
<1>1. CASE SaveIndex \/ Restart \/ UNCHANGED vars
  BY <1>1, QuietFresh
<1>2. CASE Save
  BY <1>2, QuietFresh, SaveItemFresh, SaveEndsFresh DEF Save
<1>3. CASE Merge
  <2>1. CASE LoadWordIndexes  BY <2>1, LoadFresh
  <2>2. CASE \/ \E w \in Words : ZipCopy("temp", "main", w)
             \/ \E w \in Words : ZipCopy("main", "temp", w)
    BY <2>2, ZipCopyFresh
  <2>3. CASE \E w \in Words : ZipBoth(w)  BY <2>3, ZipBothFresh
  <2>4. CASE TakeTemp \/ TakeMain
    BY <2>4, TakeFresh DEF TakeTemp, TakeMain
  <2>5. CASE \E w \in Words : ZipItem(w)  BY <2>5, ZipItemFresh
  <2>6. CASE ZipDone  BY <2>6, InstallFresh
  <2> QED BY <1>3, <2>1, <2>2, <2>3, <2>4, <2>5, <2>6 DEF Merge
<1>4. CASE Install \/ Initialize
  BY <1>4, QuietFresh, InstallFresh DEF Install
<1> QED BY <1>1, <1>2, <1>3, <1>4

-----------------------------------------------------------------------------
(* All steps.                                                              *)

\* It holds of an empty system.
LEMMA FreshStart == ASSUME SearchInit PROVE FreshInv
BY DEF SearchInit, Init, FreshInv, MemoryFresh, MergeFresh, MainFresh

\* Only a process that serves has answered, and failures are only added to.
LEMMA StoreQuiet ==
    ASSUME TypeOK, StoreStep
    PROVE  /\ pc = "serve" => pc' = "serve"
           /\ faults' = 0 => faults = 0 /\ ~FileFault
<1> USE DEF memory, locals, files, history
<1>1. CASE SaveIndex \/ Initialize \/ Restart
  BY <1>1, FaultsStay DEF SaveIndex, Initialize, Restart
<1>2. CASE Save
  BY <1>2, FaultsStay
     DEF Save, SaveOpen, SavePosting, SaveItem, SaveClose, SaveTempWords
<1>3. CASE Merge
  BY <1>3, FaultsStay
     DEF Merge, LoadWordIndexes, ZipCopy, ZipBoth, TakeTemp, TakeMain, Take,
         ZipItem, ZipDone, ZipFinished
<1>4. CASE Install
  BY <1>4, FaultsStay
     DEF Install, SaveMainWords, RemoveDoc, RenameDoc, RemovePos, RenamePos, Clean
<1>5. CASE FileFault
  <2>1. pc # "serve"
    BY <1>5 DEF FileFault, SaveOpenFails, SaveTempWordsFails,
                SaveMainWordsFails, ZipFinished, RenameDocFails,
                RenamePosFails
  <2> QED BY <1>5, <2>1, FaultsStay
<1> QED BY <1>1, <1>2, <1>3, <1>4, <1>5 DEF StoreStep

\* A process that died has parsed nothing and answers nothing.
LEMMA DeadFresh == ASSUME Death PROVE FreshInv' /\ Asked' = {}
<1>1. /\ pc' = "down" /\ answer' = NoAnswer /\ fresh' = {}
  BY DEF Death, Crash, CrawlNull, MergeAbort, ZipFault, QueryFault, Die
<1>2. Asked' = {}  BY <1>1 DEF Asked, NoAnswer, Range
<1> QED BY <1>1, <1>2 DEF FreshInv, MemoryFresh, MergeFresh, MainFresh

\* FreshInv is kept by all steps.
LEMMA FreshKept ==
    ASSUME StoreInv, FreshInv, SearchNext \/ UNCHANGED searchVars
    PROVE  FreshInv'
<1>1. ASSUME NEW d \in Docs, NEW c \in Contents, HandOver(d, c) PROVE FreshInv'
  <2>1. /\ pc = "crawl" /\ answer' = answer /\ faults' = faults
        /\ pc' \in {"crawl", "save_open"}
        /\ fresh' = fresh \cup ({d} \X DOMAIN c) /\ AddDoc(d, c)
    BY <1>1 DEF HandOver, AddDoc, history
  <2>2. DOMAIN c \subseteq Words  BY IndexAssumption
  <2>3. faults = 0 => FreshParts'
    BY <2>1, CrawlFresh DEF StoreInv, FreshInv, FreshParts
  <2>4. fresh' \subseteq Docs \X Words  BY <2>1, <2>2 DEF FreshInv
  <2>5. pc' # "serve" /\ answer' = NoAnswer  BY <2>1 DEF FreshInv
  <2> QED BY <2>1, <2>3, <2>4, <2>5 DEF FreshInv, FreshParts
<1>2. ASSUME NEW q \in Questions, Query(q) \/ QueryGarbled(q) PROVE FreshInv'
  <2>1. UNCHANGED <<vars, fresh>> /\ pc = "serve" /\ pc' = pc /\ faults' = faults
    BY <1>2 DEF Query, QueryGarbled, vars, history
  <2>2. faults = 0 => FreshParts'
    BY <2>1, FreshStep DEF FreshInv, FreshParts
  <2> QED BY <2>1, <2>2 DEF FreshInv, FreshParts
<1>3. CASE StoreStep
  <2>1. fresh' = fresh /\ answer' = answer  BY <1>3 DEF StoreStep
  <2>2. faults' = 0 => faults = 0 /\ FreshParts'
    BY <1>3, <2>1, StoreQuiet, FreshStep
       DEF StoreStep, StoreInv, FreshInv, FreshParts
  <2> QED BY <1>3, <2>1, <2>2, StoreQuiet DEF StoreInv, FreshInv, FreshParts
<1>4. CASE UNCHANGED searchVars
  <2>1. /\ UNCHANGED <<vars, fresh>> /\ answer' = answer
        /\ pc' = pc /\ faults' = faults
    BY <1>4 DEF searchVars, vars, history
  <2>2. faults = 0 => FreshParts'
    BY <2>1, FreshStep DEF FreshInv, FreshParts
  <2> QED BY <2>1, <2>2 DEF FreshInv, FreshParts
<1>5. CASE Crawls  BY <1>1, <1>5, CrawlHands DEF StoreInv
<1> QED BY <1>2, <1>3, <1>4, <1>5, DeadFresh DEF SearchNext, Crawls

\* A question is answered with what was parsed with its words.
LEMMA QueryComplete ==
    ASSUME StoreInv, GivenInv, FreshInv,
           NEW q \in Questions, Query(q) \/ QueryGarbled(q)
    PROVE  AnswersComplete'
<1> SUFFICES ASSUME Asked' # {}, faults' = 0, NEW d \in Docs,
                    \A w \in Asked' : <<d, w>> \in fresh'
             PROVE  d \in answer'.docs
  BY DEF AnswersComplete
<1>1. pc = "serve" /\ faults = 0 /\ fresh' = fresh /\ answer'.asked = q
  BY DEF Query, QueryGarbled, vars, history
<1>2. /\ Tiled(wordPos["query"], docFile["main"])
      /\ wordPos["query"] = wordFile["main"]
  BY <1>1 DEF StoreInv, TileInv, ServedTiled, GivenInv, MainGiven
<1>3. ASSUME NEW w, Known(w)
      PROVE  wordPos["query"][w].start_offset \in DOMAIN docFile["main"].recs
  BY <1>2, <1>3 DEF Tiled, Known
<1>4. Query(q)  BY <1>3 DEF Garbled, QueryGarbled
<1>5. answer'.docs = DocList(q)  BY <1>4 DEF Query
<1>6. q # << >> /\ q \in Seq(Words)
  <2>1. Range(q) # {}  BY <1>1 DEF Asked
  <2> QED BY <2>1, QuestionsAssumption DEF Range
<1>7. ASSUME NEW i \in DOMAIN q PROVE d \in query_word(q[i])
  <2>1. q[i] \in Words  BY <1>6
  <2>2. <<d, q[i]>> \in fresh  BY <1>1 DEF Asked, Range
  <2>3. Found(wordFile["main"], docFile["main"], d, q[i])
    BY <1>1, <2>1, <2>2 DEF FreshInv, MainFresh
  <2>4. /\ Known(q[i])
        /\ ItemOf(q[i]) =
             docFile["main"].recs[wordPos["query"][q[i]].start_offset]
    BY <1>2, <2>3 DEF Found, Known, ItemOf, ItemAt
  <2> QED BY <1>2, <2>3, <2>4 DEF Found, query_word
<1>8. 1 \in DOMAIN q  BY <1>6
<1> QED BY <1>5, <1>6, <1>7, <1>8 DEF DocList

\* Answers stay complete: nothing is parsed while questions are answered.
LEMMA SearchComplete ==
    ASSUME StoreInv, GivenInv, FreshInv, AnswersComplete,
           SearchNext \/ UNCHANGED searchVars
    PROVE  AnswersComplete'
<1>1. ASSUME NEW q \in Questions, Query(q) \/ QueryGarbled(q)
      PROVE  AnswersComplete'
  BY <1>1, QueryComplete
<1>2. CASE Death  BY <1>2, DeadFresh DEF AnswersComplete
<1>3. CASE Crawls
  <2>1. answer' = NoAnswer
    BY <1>3, CrawlHands DEF HandOver, AddDoc, FreshInv, StoreInv
  <2>2. Asked' = {}  BY <2>1 DEF Asked, NoAnswer, Range
  <2> QED BY <2>2 DEF AnswersComplete
<1>4. CASE StoreStep \/ UNCHANGED searchVars
  <2>1. /\ answer' = answer /\ fresh' = fresh
        /\ faults' = 0 => faults = 0
    BY <1>4, StoreQuiet DEF StoreStep, searchVars, vars, history, StoreInv
  <2> QED BY <2>1 DEF AnswersComplete, Asked
<1> QED BY <1>1, <1>2, <1>3, <1>4 DEF SearchNext, Crawls

\* Every document the running process parsed with all words asked for is in
\* the answer, for any words, documents, contents, batches and questions, over
\* whatever index an earlier process left, unless a file operation failed.
THEOREM AnswersAreComplete == SearchSpec => []AnswersComplete
<1> DEFINE CompleteInv == StoreInv /\ GivenInv /\ FreshInv /\ AnswersComplete
<1>1. SearchInit => CompleteInv
  <2> SUFFICES ASSUME SearchInit PROVE CompleteInv
    OBVIOUS
  <2>1. Init /\ answer = NoAnswer  BY DEF SearchInit
  <2>2. StoreInv /\ GivenInv  BY SearchStart
  <2>3. Asked = {}  BY <2>1 DEF NoAnswer, Asked, Range
  <2> QED BY <2>2, <2>3, FreshStart DEF AnswersComplete
<1>2. CompleteInv /\ [SearchNext]_searchVars => CompleteInv'
  BY StoreStepInv, SearchGiven, FreshKept, SearchComplete
<1> QED BY <1>1, <1>2, PTL DEF SearchSpec

-----------------------------------------------------------------------------
(***************************************************************************)
(* Counts.                                                                 *)
(***************************************************************************)

-----------------------------------------------------------------------------
(* The invariant: as long as nothing died or failed, a word's count in     *)
(* main's index, in the merge and in memory together is at most the number *)
(* of documents handed over, and less if one of them lacks the word.       *)

Untroubled == crashes = 0 /\ faults = 0

\* Nothing ends the process.
Unharmed ==
    /\ ~torn
    /\ pc # "down"
    /\ missing \subseteq IF pc = "mv_doc" THEN {"doc"}
                         ELSE IF pc = "mv_pos" THEN {"pos"} ELSE {}

\* No entry without documents.
Occurs(index) == \A w \in DOMAIN index : index[w].doc_count >= 1

CountIn(index, w) == IF w \in DOMAIN index THEN index[w].doc_count ELSE 0

InMem(w) == IF w \in DOMAIN m_words THEN Cardinality(DOMAIN m_words[w]) ELSE 0

ToCome(f, w) == IF w \in todo[f] THEN wordPos[f][w].doc_count ELSE 0

\* What a word may count.
Bound(w) ==
    m_docs_count + again
        - (IF \E e \in DOMAIN docs_db : <<e, w>> \notin fresh THEN 1 ELSE 0)

\* Nothing more is handed over, and no document gets or loses a word.
SameBounds ==
    /\ UNCHANGED <<m_docs_count, again>>
    /\ \A w : Bound(w)' = Bound(w)

\* Temp's entries count what is in memory.
CountsMemory(index) ==
    \A w \in DOMAIN index :
        w \in DOMAIN m_words /\ index[w].doc_count = InMem(w)

MemoryCounts ==
    /\ m_docs_count \in Nat /\ again \in Nat
    /\ \A w \in DOMAIN m_words :
          IsFiniteSet(DOMAIN m_words[w]) /\ DOMAIN m_words[w] # {}
    /\ pc \in {"crawl", "save_open"} => wordPos["temp"] = Nothing
    /\ pc = "save" =>
          \A w \in todo["temp"] : Least(w, todo["temp"]) =>
              /\ IsFiniteSet(Unsaved(w))
              /\ Len(vec.docs) + Cardinality(Unsaved(w)) = InMem(w)
    /\ pc \in {"save", "save_words"} => CountsMemory(wordPos["temp"])
    /\ pc = "load" => CountsMemory(wordFile["temp"])

MergeCounts ==
    pc \in {"zip", "zip_docs"} =>
        /\ Occurs(wordPos["main"]) /\ Occurs(wordPos["temp"]) /\ Occurs(outIndex)
        /\ \A w \in Words :
              CountIn(outIndex, w) + ToCome("main", w) + ToCome("temp", w)
                  =< Bound(w)

MainCounts ==
    /\ pc # "main_words" => Occurs(wordFile["main"])
    /\ pc \in {"crawl", "save_open", "save", "save_words", "load"} =>
          \A w \in Words :
              CountIn(wordFile["main"], w) + InMem(w) =< Bound(w)
    /\ pc = "main_words" =>
          /\ Occurs(wordPos["main"])
          /\ \A w \in Words : CountIn(wordPos["main"], w) =< Bound(w)
    /\ pc \in {"rm_doc", "mv_doc", "rm_pos", "mv_pos", "clean", "init", "serve"} =>
          \A w \in Words : CountIn(wordFile["main"], w) =< Bound(w)

CountParts == Unharmed /\ MemoryCounts /\ MergeCounts /\ MainCounts

CountInv == Untroubled => CountParts

-----------------------------------------------------------------------------
(* Counting.                                                               *)

\* A bound is a number.
LEMMA BoundInt ==
    ASSUME m_docs_count \in Nat, again \in Nat, NEW w PROVE Bound(w) \in Int
BY DEF Bound

\* The count of a word is a number.
LEMMA CountNat ==
    ASSUME NEW index, IsWordIndex(index), NEW w
    PROVE  CountIn(index, w) \in Nat
BY DEF CountIn, IsWordIndex, IsPartial, TermIndexItem

\* An entry changes the count of its word alone.
LEMMA CountPut ==
    ASSUME NEW index, NEW w, NEW t
    PROVE  /\ CountIn(Put(index, w, t), w) = t.doc_count
           /\ \A v : v # w => CountIn(Put(index, w, t), v) = CountIn(index, v)
           /\ Occurs(index) /\ t.doc_count >= 1 => Occurs(Put(index, w, t))
BY DEF CountIn, Put, Occurs

\* What is to come of a word is a number.
LEMMA ToComeNat ==
    ASSUME TypeOK, TodoKnown, pc \in {"zip", "zip_docs"},
           NEW f \in {"main", "temp"}, NEW w
    PROVE  ToCome(f, w) \in Nat
<1>1. IsWordIndex(wordPos[f]) /\ todo[f] \subseteq DOMAIN wordPos[f]
  BY DEF TypeOK, TodoKnown
<1> QED BY <1>1 DEF ToCome, IsWordIndex, IsPartial, TermIndexItem

\* What memory holds of a word is a number.
LEMMA InMemNat ==
    ASSUME MemoryCounts, NEW w PROVE InMem(w) \in Nat
BY FS_CardinalityType DEF MemoryCounts, InMem

\* What is appended is in the range.
LEMMA RangeAppend ==
    ASSUME NEW S, NEW s \in Seq(S), NEW d
    PROVE  Range(Append(s, d)) = Range(s) \cup {d}
<1>1. /\ DOMAIN s = 1 .. Len(s) /\ Len(s) \in Nat
      /\ DOMAIN Append(s, d) = 1 .. Len(s) + 1
      /\ Append(s, d)[Len(s) + 1] = d
      /\ \A i \in 1 .. Len(s) : Append(s, d)[i] = s[i]
  OBVIOUS
<1>2. DOMAIN Append(s, d) = DOMAIN s \cup {Len(s) + 1}  BY <1>1
<1> QED BY <1>1, <1>2 DEF Range

\* One document more is at most one more.
LEMMA PutGrows ==
    ASSUME NEW f, NEW d, NEW x, IsFiniteSet(DOMAIN f)
    PROVE  /\ IsFiniteSet(DOMAIN Put(f, d, x))
           /\ DOMAIN Put(f, d, x) # {}
           /\ Cardinality(DOMAIN f) \in Nat
           /\ Cardinality(DOMAIN Put(f, d, x)) =< Cardinality(DOMAIN f) + 1
           /\ Cardinality(DOMAIN Put(f, d, x)) \in Nat
<1>1. DOMAIN Put(f, d, x) = DOMAIN f \cup {d}  BY DEF Put
<1>2. Cardinality(DOMAIN f) \in Nat  BY FS_CardinalityType
<1> QED BY <1>1, <1>2, FS_AddElement

-----------------------------------------------------------------------------
(* The crawl and the save.                                                 *)

\* The program begins with nothing registered and nothing counted.
LEMMA CountStart == ASSUME SearchInit PROVE CountInv
<1>1. /\ pc = "crawl" /\ ~torn /\ missing = {}
      /\ m_docs_count = 0 /\ again = 0
      /\ m_words = Nothing /\ wordPos["temp"] = Nothing
      /\ wordFile["main"] = Nothing
  BY DEF SearchInit, Init, NoMemory
<1>2. DOMAIN m_words = {} /\ DOMAIN wordFile["main"] = {}
  BY <1>1 DEF Nothing
<1>3. \A w : CountIn(wordFile["main"], w) = 0 /\ InMem(w) = 0 /\ Bound(w) = 0
  <2>1. DOMAIN docs_db = {}  BY DEF SearchInit, Nothing
  <2>2. \A w : ~ \E e \in DOMAIN docs_db : <<e, w>> \notin fresh  BY <2>1
  <2>3. \A w : Bound(w) = m_docs_count + again - 0  BY <2>2 DEF Bound
  <2> QED BY <1>1, <1>2, <2>3 DEF CountIn, InMem
<1> QED BY <1>1, <1>2, <1>3
        DEF CountInv, CountParts, Unharmed, MemoryCounts, MergeCounts,
            MainCounts, Occurs

\* Every document handed over adds one to what its words may count, and at most
\* one to the counts of each of them.
LEMMA CrawlCounts ==
    ASSUME TypeOK, CountParts, NEW d \in Docs, NEW c \in Contents, HandOver(d, c),
           DOMAIN docs_db' = DOMAIN docs_db \cup {d},
           \/ m_docs_count' = m_docs_count + 1 /\ again' = again
           \/ m_docs_count' = m_docs_count /\ again' = again + 1
    PROVE  CountParts'
<1>1. /\ pc = "crawl" /\ pc' \in {"crawl", "save_open"}
      /\ UNCHANGED <<wordPos, wordFile, torn, missing>>
      /\ m_words' = [w \in DOMAIN m_words \cup DOMAIN c |->
                       IF w \in DOMAIN c THEN Put(Postings(w), d, c[w])
                       ELSE m_words[w]]
  BY DEF HandOver, AddDoc, files
<1>2. /\ m_docs_count \in Nat /\ again \in Nat
      /\ m_docs_count' \in Nat /\ again' \in Nat
      /\ m_docs_count' + again' = m_docs_count + again + 1
      /\ \A w \in DOMAIN m_words :
            IsFiniteSet(DOMAIN m_words[w]) /\ DOMAIN m_words[w] # {}
      /\ wordPos["temp"] = Nothing
  BY <1>1 DEF CountParts, MemoryCounts
<1>3. ASSUME NEW w
      PROVE  /\ IsFiniteSet(DOMAIN Postings(w))
             /\ Cardinality(DOMAIN Postings(w)) = InMem(w)
  <2>1. CASE w \in DOMAIN m_words  BY <1>2, <2>1 DEF Postings, InMem
  <2>2. CASE w \notin DOMAIN m_words
    <3>1. DOMAIN Postings(w) = {}  BY <2>2 DEF Postings, Nothing
    <3> QED BY <2>2, <3>1, FS_EmptySet DEF InMem
  <2> QED BY <2>1, <2>2
<1>4. ASSUME NEW w \in DOMAIN c
      PROVE  /\ w \in DOMAIN m_words'
             /\ IsFiniteSet(DOMAIN m_words'[w]) /\ DOMAIN m_words'[w] # {}
             /\ InMem(w)' \in Nat /\ InMem(w) \in Nat /\ InMem(w)' =< InMem(w) + 1
  <2>1. w \in DOMAIN m_words' /\ m_words'[w] = Put(Postings(w), d, c[w])
    BY <1>1
  <2> QED BY <1>3, <2>1, PutGrows DEF InMem
<1>5. ASSUME NEW w, w \notin DOMAIN c
      PROVE  /\ w \in DOMAIN m_words' => w \in DOMAIN m_words
             /\ w \in DOMAIN m_words' => m_words'[w] = m_words[w]
             /\ InMem(w)' = InMem(w)
  BY <1>1, <1>5 DEF InMem
<1>6. MemoryCounts'
  BY <1>1, <1>2, <1>4, <1>5 DEF MemoryCounts
<1>7. ASSUME NEW w \in Words
      PROVE  CountIn(wordFile["main"], w)' + InMem(w)' =< Bound(w)'
  <2>1. CountIn(wordFile["main"], w) \in Nat  BY CountNat DEF TypeOK
  <2>2. CountIn(wordFile["main"], w)' = CountIn(wordFile["main"], w)
    BY <1>1 DEF CountIn
  <2>3. CountIn(wordFile["main"], w) + InMem(w) =< Bound(w)
    BY <1>1 DEF CountParts, MainCounts
  <2>4. InMem(w) \in Nat  BY InMemNat DEF CountParts
  <2>5. /\ DOMAIN docs_db' = DOMAIN docs_db \cup {d}
        /\ fresh' = fresh \cup ({d} \X DOMAIN c)
    BY DEF HandOver
  <2> DEFINE handed == m_docs_count + again
             lacks == \E e \in DOMAIN docs_db : <<e, w>> \notin fresh
             later == m_docs_count' + again'
  <2>6. handed \in Int /\ later = handed + 1
    <3>1. handed \in Int  BY <1>2
    <3>2. later = handed + 1  BY <1>2
    <3> QED BY <3>1, <3>2
  <2>7. /\ lacks => Bound(w) = handed - 1
        /\ ~lacks => Bound(w) = handed
        /\ lacks' => Bound(w)' = later - 1
        /\ ~lacks' => Bound(w)' = later
    BY <1>2 DEF Bound
  <2>8. w \in DOMAIN c /\ lacks' => lacks  BY <2>5
  <2> HIDE DEF handed, later, lacks
  <2>9. /\ Bound(w) \in Int /\ Bound(w)' \in Int /\ Bound(w)' >= Bound(w)
        /\ w \in DOMAIN c => Bound(w)' >= Bound(w) + 1
    BY <2>6, <2>7, <2>8
  <2>10. CASE w \in DOMAIN c
    BY <1>4, <2>1, <2>2, <2>3, <2>4, <2>9, <2>10
  <2>11. CASE w \notin DOMAIN c
    BY <1>5, <2>1, <2>2, <2>3, <2>4, <2>9, <2>11
  <2> QED BY <2>10, <2>11
<1> QED BY <1>1, <1>6, <1>7
        DEF CountParts, Unharmed, MergeCounts, MainCounts

\* Steps that leave the counts alone.
LEMMA QuietCounts ==
    ASSUME TypeOK, CountParts, SameBounds,
           SaveIndex \/ SaveClose \/ UNCHANGED vars
    PROVE  CountParts'
<1> USE DEF SameBounds
<1> USE DEF memory, locals, files, history, vars
<1>1. /\ UNCHANGED <<wordPos, wordFile, torn, missing, m_words, todo, vec, outIndex>>
      /\ \/ pc' = pc
         \/ pc = "crawl" /\ pc' = "save_open"
         \/ pc = "save" /\ pc' = "save_words"
  BY DEF SaveIndex, SaveClose
<1>2. /\ \A w : InMem(w)' = InMem(w) /\ Unsaved(w)' = Unsaved(w)
      /\ \A f, w : ToCome(f, w)' = ToCome(f, w)
  BY <1>1 DEF InMem, Unsaved, ToCome
<1> QED BY <1>1, <1>2
        DEF CountParts, Unharmed, MemoryCounts, MergeCounts, MainCounts,
            CountsMemory

\* Nothing is saved of the next word yet.
LEMMA NextUnsaved ==
    ASSUME MemoryCounts, vec = NoItem, NEW w \in DOMAIN m_words
    PROVE  /\ IsFiniteSet(Unsaved(w))
           /\ Len(vec.docs) + Cardinality(Unsaved(w)) = InMem(w)
<1>1. Unsaved(w) = DOMAIN m_words[w] /\ Len(vec.docs) = 0
  <2>1. vec.docs = << >>  BY DEF NoItem
  <2>2. Range(<< >>) = {}  BY DEF Range
  <2> QED BY <2>1, <2>2 DEF Unsaved
<1>2. IsFiniteSet(DOMAIN m_words[w])  BY DEF MemoryCounts
<1> QED BY <1>1, <1>2, FS_CardinalityType DEF InMem

\* All of memory is to be saved.
LEMMA SaveOpenCounts ==
    ASSUME StoreInv, CountParts, SameBounds, SaveOpen
    PROVE  CountParts'
<1> USE DEF SameBounds
<1>1. /\ pc = "save_open" /\ pc' = "save"
      /\ UNCHANGED <<wordPos, wordFile, torn, missing, m_words, vec>>
      /\ todo'["temp"] = DOMAIN m_words
  BY DEF SaveOpen, memory, history, StoreInv, TypeOK, Pair
<1>2. \A w : InMem(w)' = InMem(w) /\ Unsaved(w)' = Unsaved(w)
  BY <1>1 DEF InMem, Unsaved
<1>3. vec = NoItem /\ MemoryCounts
  BY <1>1 DEF StoreInv, SortedInv, CountParts
<1>4. MemoryCounts'
  <2>1. ASSUME NEW w \in todo'["temp"]
        PROVE  /\ IsFiniteSet(Unsaved(w)')
               /\ Len(vec'.docs) + Cardinality(Unsaved(w)') = InMem(w)'
    BY <1>1, <1>2, <1>3, <2>1, NextUnsaved
  <2>2. CountsMemory(wordPos["temp"])'
    BY <1>1, <1>3 DEF MemoryCounts, CountsMemory, Nothing
  <2> QED BY <1>1, <1>3, <2>1, <2>2 DEF MemoryCounts
<1> QED BY <1>1, <1>2, <1>4 DEF CountParts, Unharmed, MergeCounts, MainCounts

\* A posting moves from what is to save into the item.
LEMMA SavePostingCounts ==
    ASSUME StoreInv, CountParts, SameBounds,
           NEW w \in Words, NEW d \in Docs, SavePosting(w, d)
    PROVE  CountParts'
<1> USE DEF SameBounds
<1>1. /\ pc = "save" /\ pc' = "save"
      /\ UNCHANGED <<wordPos, wordFile, torn, missing, m_words, todo>>
      /\ Least(w, todo["temp"]) /\ d \in Unsaved(w)
      /\ vec'.docs = Append(vec.docs, d)
  BY DEF SavePosting, memory, history, Least
<1>2. \A v : InMem(v)' = InMem(v)  BY <1>1 DEF InMem
<1>3. vec.docs \in Seq(Docs)  BY DEF StoreInv, TypeOK, Items
<1>4. Unsaved(w)' = Unsaved(w) \ {d} /\ Len(vec'.docs) = Len(vec.docs) + 1
  <2>1. Range(vec'.docs) = Range(vec.docs) \cup {d}
    BY <1>1, <1>3, RangeAppend
  <2> QED BY <1>1, <1>3, <2>1 DEF Unsaved
<1>5. /\ IsFiniteSet(Unsaved(w))
      /\ Len(vec.docs) + Cardinality(Unsaved(w)) = InMem(w)
  BY <1>1 DEF CountParts, MemoryCounts, Least
<1>6. /\ IsFiniteSet(Unsaved(w)')
      /\ Len(vec'.docs) + Cardinality(Unsaved(w)') = InMem(w)'
  <2>1. /\ IsFiniteSet(Unsaved(w) \ {d})
        /\ Cardinality(Unsaved(w) \ {d}) = Cardinality(Unsaved(w)) - 1
        /\ Cardinality(Unsaved(w)) \in Nat
    BY <1>1, <1>5, FS_RemoveElement, FS_CardinalityType
  <2> QED BY <1>2, <1>3, <1>4, <1>5, <2>1
<1>7. ASSUME NEW v \in todo["temp"], Least(v, todo["temp"]) PROVE v = w
  <2>1. todo["temp"] \in SUBSET Words  BY DEF StoreInv, TypeOK, Pair
  <2> QED BY <1>1, <1>7, <2>1, LeastUnique
<1>8. MemoryCounts'
  BY <1>1, <1>2, <1>6, <1>7 DEF CountParts, MemoryCounts, CountsMemory
<1> QED BY <1>1, <1>2, <1>8 DEF CountParts, Unharmed, MergeCounts, MainCounts

\* The entry of a word counts what was saved of it: all.
LEMMA SaveItemCounts ==
    ASSUME StoreInv, CountParts, SameBounds,
           NEW w \in Words, SaveItem(w)
    PROVE  CountParts'
<1> USE DEF SameBounds
<1>1. /\ pc = "save" /\ pc' = "save"
      /\ UNCHANGED <<wordFile, torn, missing, m_words>>
      /\ Least(w, todo["temp"]) /\ Unsaved(w) = {}
      /\ vec' = NoItem
      /\ todo'["temp"] = todo["temp"] \ {w}
  BY DEF SaveItem, history, StoreInv, TypeOK, Pair
<1>2. PICK t : /\ t.doc_count = Len(vec.docs)
               /\ wordPos'["temp"] = Put(wordPos["temp"], w, t)
  <2>1. "temp" \in DOMAIN wordPos  BY DEF StoreInv, TypeOK
  <2> QED BY <2>1 DEF SaveItem
<1>3. \A v : InMem(v)' = InMem(v)  BY <1>1 DEF InMem
<1>4. w \in DOMAIN m_words /\ Len(vec.docs) = InMem(w)
  <2>1. Len(vec.docs) + Cardinality(Unsaved(w)) = InMem(w)
    BY <1>1 DEF CountParts, MemoryCounts, Least
  <2>2. Cardinality(Unsaved(w)) = 0  BY <1>1, FS_EmptySet
  <2>3. Len(vec.docs) \in Nat  BY DEF StoreInv, TypeOK, Items
  <2>4. w \in DOMAIN m_words  BY <1>1 DEF StoreInv, TodoKnown, Least
  <2> QED BY <2>1, <2>2, <2>3, <2>4
<1>5. CountsMemory(wordPos["temp"])'
  <2>1. CountsMemory(wordPos["temp"])  BY <1>1 DEF CountParts, MemoryCounts
  <2> QED BY <1>1, <1>2, <1>3, <1>4, <2>1 DEF CountsMemory, Put
<1>6. MemoryCounts'
  <2>1. MemoryCounts  BY DEF CountParts
  <2>2. todo'["temp"] \subseteq DOMAIN m_words
    BY <1>1 DEF StoreInv, TodoKnown
  <2>3. ASSUME NEW v \in todo'["temp"]
        PROVE  /\ IsFiniteSet(Unsaved(v)')
               /\ Len(vec'.docs) + Cardinality(Unsaved(v)') = InMem(v)'
    <3>1. v \in DOMAIN m_words  BY <2>2
    <3>2. Unsaved(v)' = DOMAIN m_words[v] /\ Len(vec'.docs) = 0
      BY <1>1 DEF Unsaved, NoItem, Range
    <3>3. IsFiniteSet(DOMAIN m_words[v])  BY <2>1, <3>1 DEF MemoryCounts
    <3> QED BY <1>3, <3>1, <3>2, <3>3, FS_CardinalityType DEF InMem
  <2> QED BY <1>1, <1>5, <2>1, <2>3 DEF MemoryCounts
<1> QED BY <1>1, <1>3, <1>6 DEF CountParts, Unharmed, MergeCounts, MainCounts

\* Temp's word file is the index that counts memory.
LEMMA SaveTempWordsCounts ==
    ASSUME StoreInv, CountParts, SameBounds, SaveTempWords
    PROVE  CountParts'
<1> USE DEF SameBounds
<1>1. /\ pc = "save_words" /\ pc' = "load"
      /\ UNCHANGED <<torn, missing, m_words>>
      /\ wordFile'["temp"] = wordPos["temp"]
      /\ wordFile'["main"] = wordFile["main"]
  <2>1. DOMAIN wordFile = {"main", "temp"}  BY DEF StoreInv, TypeOK
  <2> QED BY <2>1 DEF SaveTempWords, memory, history
<1>2. \A v : InMem(v)' = InMem(v)  BY <1>1 DEF InMem
<1> QED BY <1>1, <1>2
        DEF CountParts, Unharmed, MemoryCounts, MergeCounts, MainCounts,
            CountsMemory

-----------------------------------------------------------------------------
(* The merge.                                                              *)

\* All of main's and temp's words are to come.
LEMMA LoadCounts ==
    ASSUME StoreInv, CountParts, SameBounds, LoadWordIndexes
    PROVE  CountParts'
<1> USE DEF SameBounds
<1>1. /\ pc = "load" /\ pc' = "zip"
      /\ UNCHANGED <<torn, missing, m_words, wordFile>>
      /\ outIndex' = Nothing
      /\ \A f \in {"main", "temp"} :
            wordPos'[f] = wordFile[f] /\ todo'[f] = DOMAIN wordFile[f]
  <2>1. DOMAIN wordPos = {"main", "temp", "query"}  BY DEF StoreInv, TypeOK
  <2> QED BY <2>1 DEF LoadWordIndexes, history
<1>2. \A v : InMem(v)' = InMem(v)  BY <1>1 DEF InMem
<1>3. /\ MemoryCounts /\ CountsMemory(wordFile["temp"])
      /\ Occurs(wordFile["main"])
      /\ \A w \in Words : CountIn(wordFile["main"], w) + InMem(w) =< Bound(w)
  BY <1>1 DEF CountParts, MemoryCounts, MainCounts
<1>4. Occurs(wordFile["temp"])
  <2>1. ASSUME NEW w \in DOMAIN m_words PROVE InMem(w) >= 1
    <3>1. IsFiniteSet(DOMAIN m_words[w]) /\ DOMAIN m_words[w] # {}
      BY <1>3 DEF MemoryCounts
    <3> QED BY <3>1, FS_EmptySet, FS_CardinalityType DEF InMem
  <2> QED BY <1>3, <2>1 DEF Occurs, CountsMemory
<1>5. ASSUME NEW w \in Words
      PROVE  CountIn(outIndex, w)' + ToCome("main", w)' + ToCome("temp", w)'
                =< Bound(w)
  <2>1. CountIn(outIndex, w)' = 0  BY <1>1 DEF CountIn, Nothing
  <2>2. ToCome("main", w)' = CountIn(wordFile["main"], w)
    BY <1>1 DEF ToCome, CountIn
  <2>3. ToCome("temp", w)' \in Nat /\ ToCome("temp", w)' =< InMem(w)
    <3>1. InMem(w) \in Nat  BY <1>3, InMemNat
    <3> QED BY <1>1, <1>3, <3>1 DEF ToCome, CountsMemory
  <2>4. CountIn(wordFile["main"], w) \in Nat  BY CountNat DEF StoreInv, TypeOK
  <2>5. InMem(w) \in Nat  BY <1>3, InMemNat
  <2>6. Bound(w) \in Int  BY <1>3, BoundInt DEF MemoryCounts
  <2>7. CountIn(wordFile["main"], w) + InMem(w) =< Bound(w)  BY <1>3
  <2> QED BY <2>1, <2>2, <2>3, <2>4, <2>5, <2>6, <2>7
<1>6. MergeCounts'
  <2>1. Occurs(outIndex)'  BY <1>1 DEF Occurs, Nothing
  <2>2. Occurs(wordPos["main"])' /\ Occurs(wordPos["temp"])'
    BY <1>1, <1>3, <1>4 DEF Occurs
  <2> QED BY <1>5, <2>1, <2>2 DEF MergeCounts
<1>7. MemoryCounts'
  BY <1>1, <1>2, <1>3 DEF MemoryCounts
<1> QED BY <1>1, <1>3, <1>6, <1>7 DEF CountParts, Unharmed, MainCounts

\* What a step of the merge leaves alone.
LEMMA MergeKeeps ==
    ASSUME CountParts, SameBounds,
           pc \in {"zip", "zip_docs"}, pc' \in {"zip", "zip_docs"},
           UNCHANGED <<torn, missing, m_words, wordFile>>, MergeCounts'
    PROVE  CountParts'
BY DEF SameBounds, CountParts, Unharmed, MemoryCounts, MainCounts

\* The entry of a word in one index counts what was to come from it.
LEMMA ZipCopyCounts ==
    ASSUME StoreInv, CountParts, SameBounds,
           NEW f \in {"main", "temp"}, NEW g \in {"main", "temp"}, f # g,
           NEW w \in Words, ZipCopy(f, g, w)
    PROVE  CountParts'
<1> USE DEF SameBounds
<1>1. /\ pc = "zip" /\ pc' = "zip"
      /\ UNCHANGED <<torn, missing, m_words, wordFile, wordPos>>
      /\ w \in todo[f] \ todo[g]
      /\ todo'[f] = todo[f] \ {w} /\ todo'[g] = todo[g]
  BY DEF ZipCopy, memory, history, StoreInv, TypeOK, Pair
<1>2. PICK t : /\ t.doc_count = wordPos[f][w].doc_count
               /\ outIndex' = Put(outIndex, w, t)
  BY DEF ZipCopy
<1>3. MergeCounts  BY DEF CountParts
<1>4. /\ CountIn(outIndex, w)' = wordPos[f][w].doc_count
      /\ \A v : v # w => CountIn(outIndex, v)' = CountIn(outIndex, v)
      /\ Occurs(outIndex)'
  <2>1. w \in DOMAIN wordPos[f]  BY <1>1 DEF StoreInv, TodoKnown
  <2>2. wordPos[f][w].doc_count >= 1
    <3>1. Occurs(wordPos[f])  BY <1>1, <1>3 DEF MergeCounts
    <3> QED BY <2>1, <3>1 DEF Occurs
  <2>3. CountIn(outIndex', w) = t.doc_count
    BY <1>2, CountPut
  <2>4. \A v : v # w => CountIn(outIndex', v) = CountIn(outIndex, v)
    BY <1>2, CountPut
  <2>5. Occurs(outIndex')
    <3>1. Occurs(outIndex)  BY <1>1, <1>3 DEF MergeCounts
    <3> QED BY <1>2, <2>2, <3>1, CountPut
  <2> QED BY <1>2, <2>3, <2>4, <2>5
<1>5. ASSUME NEW v \in Words
      PROVE  CountIn(outIndex, v)' + ToCome("main", v)' + ToCome("temp", v)'
                =< Bound(v)
  <2>1. CountIn(outIndex, v) + ToCome("main", v) + ToCome("temp", v)
           =< Bound(v)
    BY <1>1, <1>3 DEF MergeCounts
  <2>2. CASE v # w
    <3>1. ToCome("main", v)' = ToCome("main", v)
          /\ ToCome("temp", v)' = ToCome("temp", v)
      BY <1>1, <2>2 DEF ToCome
    <3> QED BY <1>4, <2>1, <2>2, <3>1
  <2>3. CASE v = w
    <3>1. /\ ToCome(f, v) = wordPos[f][w].doc_count /\ ToCome(f, v)' = 0
          /\ ToCome(g, v) = 0 /\ ToCome(g, v)' = 0
      BY <1>1, <2>3 DEF ToCome
    <3>2. ToCome(f, v) \in Nat  BY <1>1, ToComeNat DEF StoreInv
    <3>3. CountIn(outIndex, v) \in Nat  BY CountNat DEF StoreInv, TypeOK
    <3>4. Bound(v) \in Int  BY BoundInt DEF CountParts, MemoryCounts
    <3>5. CountIn(outIndex, v)' = ToCome(f, v)  BY <1>4, <2>3, <3>1
    <3>6. ToCome("main", v) + ToCome("temp", v) = ToCome(f, v)
          /\ ToCome("main", v)' = 0 /\ ToCome("temp", v)' = 0
      BY <3>1, <3>2
    <3> QED BY <2>1, <3>1, <3>2, <3>3, <3>4, <3>5, <3>6
  <2> QED BY <2>2, <2>3
<1>6. MergeCounts'  BY <1>1, <1>3, <1>4, <1>5 DEF MergeCounts
<1> QED BY <1>1, <1>6, MergeKeeps

\* Beginning to merge two items, and taking their postings, counts nothing.
LEMMA TakeCounts ==
    ASSUME StoreInv, CountParts, SameBounds,
           TakeTemp \/ TakeMain \/ \E w \in Words : ZipBoth(w)
    PROVE  CountParts'
<1> USE DEF SameBounds
<1>1. /\ pc \in {"zip", "zip_docs"} /\ pc' \in {"zip", "zip_docs"}
      /\ UNCHANGED <<torn, missing, m_words, wordFile, wordPos, todo, outIndex>>
  BY DEF TakeTemp, TakeMain, Take, ZipBoth, memory, files, history
<1>2. MergeCounts'
  BY <1>1 DEF CountParts, MergeCounts, ToCome
<1> QED BY <1>1, <1>2, MergeKeeps

\* The entry of a word in both counts what was to come from both.
LEMMA ZipItemCounts ==
    ASSUME StoreInv, CountParts, SameBounds,
           NEW w \in Words, ZipItem(w)
    PROVE  CountParts'
<1> USE DEF SameBounds
<1>1. /\ pc = "zip_docs" /\ pc' = "zip"
      /\ UNCHANGED <<torn, missing, m_words, wordFile, wordPos>>
      /\ w \in todo["main"] \cap todo["temp"]
      /\ \A f \in {"main", "temp"} : todo'[f] = todo[f] \ {w}
  BY DEF ZipItem, memory, history, StoreInv, TodoKnown
<1>2. PICK t : /\ t.doc_count = MergedCount(w)
               /\ outIndex' = Put(outIndex, w, t)
  BY DEF ZipItem
<1>3. MergeCounts  BY DEF CountParts
<1>4. /\ ToCome("main", w) \in Nat /\ ToCome("temp", w) \in Nat
      /\ ToCome("main", w) >= 1
      /\ MergedCount(w) = ToCome("main", w) + ToCome("temp", w)
  <2>1. ToCome("main", w) \in Nat /\ ToCome("temp", w) \in Nat
    BY <1>1, ToComeNat DEF StoreInv
  <2>2. /\ ToCome("main", w) = wordPos["main"][w].doc_count
        /\ ToCome("temp", w) = wordPos["temp"][w].doc_count
    BY <1>1 DEF ToCome
  <2>3. wordPos["main"][w].doc_count >= 1
    <3>1. w \in DOMAIN wordPos["main"]  BY <1>1 DEF StoreInv, TodoKnown
    <3> QED BY <1>1, <1>3, <3>1 DEF MergeCounts, Occurs
  <2> QED BY <2>1, <2>2, <2>3 DEF MergedCount
<1>5. /\ CountIn(outIndex', w) = MergedCount(w)
      /\ \A v : v # w => CountIn(outIndex', v) = CountIn(outIndex, v)
      /\ Occurs(outIndex')
  <2>1. Occurs(outIndex)  BY <1>1, <1>3 DEF MergeCounts
  <2>2. t.doc_count >= 1  BY <1>2, <1>4
  <2> QED BY <1>2, <2>1, <2>2, CountPut
<1>6. ASSUME NEW v \in Words
      PROVE  CountIn(outIndex, v)' + ToCome("main", v)' + ToCome("temp", v)'
                =< Bound(v)
  <2>1. CountIn(outIndex, v) + ToCome("main", v) + ToCome("temp", v)
           =< Bound(v)
    BY <1>1, <1>3 DEF MergeCounts
  <2>2. CASE v # w
    <3>1. ToCome("main", v)' = ToCome("main", v)
          /\ ToCome("temp", v)' = ToCome("temp", v)
      BY <1>1, <2>2 DEF ToCome
    <3> QED BY <1>5, <2>1, <2>2, <3>1
  <2>3. CASE v = w
    <3>1. ToCome("main", v)' = 0 /\ ToCome("temp", v)' = 0
      BY <1>1, <2>3 DEF ToCome
    <3>2. CountIn(outIndex, v) \in Nat  BY CountNat DEF StoreInv, TypeOK
    <3>3. Bound(v) \in Int  BY BoundInt DEF CountParts, MemoryCounts
    <3> QED BY <1>4, <1>5, <2>1, <2>3, <3>1, <3>2, <3>3
  <2> QED BY <2>2, <2>3
<1>7. MergeCounts'  BY <1>1, <1>3, <1>5, <1>6 DEF MergeCounts
<1> QED BY <1>1, <1>7, MergeKeeps

\* At its end nothing is to come, and main's index is what was merged.
LEMMA ZipDoneCounts ==
    ASSUME StoreInv, CountParts, SameBounds, ZipDone
    PROVE  CountParts'
<1> USE DEF SameBounds
<1>1. /\ pc = "zip" /\ pc' = "main_words"
      /\ UNCHANGED <<torn, missing, m_words>>
      /\ todo["main"] = {} /\ todo["temp"] = {}
      /\ wordPos'["main"] = outIndex
  <2>1. DOMAIN wordPos = {"main", "temp", "query"}  BY DEF StoreInv, TypeOK
  <2> QED BY <2>1 DEF ZipDone, ZipFinished
<1>2. MergeCounts  BY DEF CountParts
<1>3. ASSUME NEW w \in Words PROVE CountIn(outIndex, w) =< Bound(w)
  <2>1. ToCome("main", w) = 0 /\ ToCome("temp", w) = 0  BY <1>1 DEF ToCome
  <2>2. CountIn(outIndex, w) + ToCome("main", w) + ToCome("temp", w)
           =< Bound(w)
    BY <1>1, <1>2 DEF MergeCounts
  <2>3. CountIn(outIndex, w) \in Nat  BY CountNat DEF StoreInv, TypeOK
  <2> QED BY <2>1, <2>2, <2>3
<1>4. Occurs(outIndex)  BY <1>1, <1>2 DEF MergeCounts
<1>5. MemoryCounts'
  BY <1>1 DEF CountParts, MemoryCounts
<1> QED BY <1>1, <1>3, <1>4, <1>5
        DEF CountParts, Unharmed, MergeCounts, MainCounts, Occurs, CountIn

-----------------------------------------------------------------------------
(* The replacement of main's files, and the memory emptied.                *)

\* Main's word file is what was merged, and the memory is empty.
LEMMA InstallCounts ==
    ASSUME StoreInv, CountParts, SameBounds, Install \/ Initialize
    PROVE  CountParts'
<1> USE DEF SameBounds
<1> USE DEF memory, locals, files, history
<1>0. DOMAIN wordFile = {"main", "temp"} /\ DOMAIN wordPos = {"main", "temp", "query"}
  BY DEF StoreInv, TypeOK
<1>1. CASE SaveMainWords
  <2>1. /\ pc = "main_words" /\ pc' = "rm_doc"
        /\ UNCHANGED <<torn, missing, m_words>>
        /\ wordFile'["main"] = wordPos["main"]
    BY <1>0, <1>1 DEF SaveMainWords
  <2> QED BY <2>1
          DEF CountParts, Unharmed, MemoryCounts, MergeCounts, MainCounts
<1>2. CASE RemoveDoc \/ RenameDoc \/ RemovePos \/ RenamePos
  <2>1. /\ UNCHANGED <<torn, m_words, wordFile>>
        /\ pc \in {"rm_doc", "mv_doc", "rm_pos", "mv_pos"}
        /\ pc' \in {"mv_doc", "rm_pos", "mv_pos", "clean"}
    BY <1>2 DEF RemoveDoc, RenameDoc, RemovePos, RenamePos
  <2>2. Unharmed'
    BY <1>2, <2>1
       DEF CountParts, Unharmed, RemoveDoc, RenameDoc, RemovePos, RenamePos
  <2> QED BY <2>1, <2>2
          DEF CountParts, MemoryCounts, MergeCounts, MainCounts
<1>3. CASE Initialize
  <2>1. /\ UNCHANGED <<torn, m_words, wordFile>>
        /\ pc = "init" /\ pc' = "serve" /\ missing' = {}
    BY <1>3 DEF Initialize
  <2> QED BY <2>1
          DEF CountParts, Unharmed, MemoryCounts, MergeCounts, MainCounts
<1>4. CASE Clean
  <2>1. /\ pc = "clean" /\ pc' \in {"crawl", "init"}
        /\ UNCHANGED <<torn, missing>>
        /\ m_words' = Nothing /\ wordPos'["temp"] = Nothing
        /\ wordFile'["main"] = wordFile["main"]
    BY <1>0, <1>4 DEF Clean
  <2>2. DOMAIN m_words' = {}  BY <2>1 DEF Nothing
  <2>3. \A w : InMem(w)' = 0  BY <2>2 DEF InMem
  <2>4. \A w \in Words : CountIn(wordFile["main"], w) =< Bound(w)
        /\ CountIn(wordFile["main"], w) \in Nat
    BY <2>1, CountNat DEF CountParts, MainCounts, StoreInv, TypeOK
  <2>5. \A w \in Words : CountIn(wordFile["main"], w)' + InMem(w)' =< Bound(w)
    <3>1. \A w : CountIn(wordFile["main"], w)' = CountIn(wordFile["main"], w)
      BY <2>1 DEF CountIn
    <3> QED BY <2>3, <2>4, <3>1
  <2>6. MemoryCounts'
    BY <2>1, <2>2 DEF CountParts, MemoryCounts
  <2> QED BY <2>1, <2>4, <2>5, <2>6
          DEF CountParts, Unharmed, MergeCounts, MainCounts, CountIn
<1> QED BY <1>1, <1>2, <1>3, <1>4 DEF Install

-----------------------------------------------------------------------------
(* All steps.                                                              *)

\* Without troubles nothing ends the process.
LEMMA NoDeath ==
    ASSUME StoreInv, GivenInv, Untroubled, CountParts, Death
    PROVE  crashes' # 0
<1>1. ~torn  BY DEF CountParts, Unharmed
<1>2. CASE Crash \/ CrawlNull  BY <1>2 DEF Crash, CrawlNull, Untroubled
<1>3. CASE MergeAbort  BY <1>3 DEF MergeAbort, CountParts, Unharmed
<1>4. ASSUME NEW w \in Words, ZipFault(w) PROVE FALSE
  <2>1. NoFault  BY TilesNoFault DEF StoreInv
  <2>2. PICK f \in {"main", "temp"} : w \in todo[f] /\ AtEnd(f)
    BY <1>4 DEF ZipFault
  <2> QED BY <1>1, <1>4, <2>1, <2>2 DEF NoFault, ZipFault
<1>5. ASSUME NEW q \in Questions, QueryFault(q) PROVE FALSE
  BY <1>1, <1>5, NotGarbled DEF QueryFault, StoreInv
<1> QED BY <1>2, <1>3, <1>4, <1>5 DEF Death

\* Only a crash counts as one.
LEMMA StoreNoCrash == ASSUME StoreStep PROVE UNCHANGED crashes
<1> USE DEF memory, locals, files, history
<1>1. CASE SaveIndex \/ Initialize \/ Restart \/ Save
  BY <1>1
     DEF SaveIndex, Initialize, Restart, Save, SaveOpen, SavePosting, SaveItem,
         SaveClose, SaveTempWords
<1>2. CASE Merge
  BY <1>2
     DEF Merge, LoadWordIndexes, ZipCopy, ZipBoth, TakeTemp, TakeMain, Take,
         ZipItem, ZipDone, ZipFinished
<1>3. CASE Install \/ FileFault
  BY <1>3
     DEF Install, SaveMainWords, RemoveDoc, RenameDoc, RemovePos, RenamePos, Clean,
         FileFault, SaveOpenFails, SaveTempWordsFails, SaveMainWordsFails,
         ZipFinished, RenameDocFails, RenamePosFails
<1> QED BY <1>1, <1>2, <1>3 DEF StoreStep

\* A step after which nothing has died or failed is none that does.
LEMMA StillUntroubled ==
    ASSUME StoreInv, SearchNext \/ UNCHANGED searchVars, Untroubled'
    PROVE  Untroubled /\ (StoreStep => ~FileFault)
<1>0. crashes \in Nat /\ faults \in Nat /\ crashes' = 0 /\ faults' = 0
  BY DEF StoreInv, TypeOK, Untroubled
<1>1. ~FileFault  BY <1>0, FaultsStay DEF StoreInv
<1>2. CASE Crawls \/ UNCHANGED searchVars
  <2>1. UNCHANGED <<crashes, faults>>
    BY <1>2, CrawlHands DEF HandOver, AddDoc, history, searchVars, vars, StoreInv
  <2> QED BY <1>0, <1>1, <2>1 DEF Untroubled
<1>3. CASE \E q \in Questions : Query(q) \/ QueryGarbled(q)
  <2>1. UNCHANGED <<crashes, faults>>
    BY <1>3 DEF Query, QueryGarbled, vars, history
  <2> QED BY <1>0, <1>1, <2>1 DEF Untroubled
<1>4. CASE StoreStep
  <2>1. UNCHANGED crashes  BY <1>4, StoreNoCrash
  <2> QED BY <1>0, <1>1, <1>4, <2>1, StoreQuiet DEF Untroubled, StoreInv
<1>5. CASE Death
  <2>1. UNCHANGED faults /\ crashes' \in {crashes, crashes + 1}
    BY <1>5 DEF Death, Crash, CrawlNull, MergeAbort, ZipFault, QueryFault, Die
  <2> QED BY <1>0, <1>1, <2>1 DEF Untroubled
<1> QED BY <1>2, <1>3, <1>4, <1>5 DEF SearchNext, Crawls

\* A step of the store that is not a failure keeps the counts.
LEMMA StoreCounts ==
    ASSUME StoreInv, CountParts, SameBounds,
           SaveIndex \/ Save \/ Merge \/ Install \/ Initialize \/ Restart
    PROVE  CountParts'
<1> USE DEF SameBounds
<1>1. CASE SaveIndex  BY <1>1, QuietCounts DEF StoreInv
<1>2. CASE Save
  BY <1>2, SaveOpenCounts, SavePostingCounts, SaveItemCounts, QuietCounts,
     SaveTempWordsCounts DEF Save, StoreInv
<1>3. CASE Merge
  <2>1. CASE LoadWordIndexes  BY <2>1, LoadCounts
  <2>2. CASE \/ \E w \in Words : ZipCopy("temp", "main", w)
             \/ \E w \in Words : ZipCopy("main", "temp", w)
    BY <2>2, ZipCopyCounts
  <2>3. CASE TakeTemp \/ TakeMain \/ \E w \in Words : ZipBoth(w)
    BY <2>3, TakeCounts
  <2>4. CASE \E w \in Words : ZipItem(w)  BY <2>4, ZipItemCounts
  <2>5. CASE ZipDone  BY <2>5, ZipDoneCounts
  <2> QED BY <1>3, <2>1, <2>2, <2>3, <2>4, <2>5 DEF Merge
<1>4. CASE Install \/ Initialize  BY <1>4, InstallCounts
<1>5. CASE Restart  BY <1>5 DEF Restart, CountParts, Unharmed
<1> QED BY <1>1, <1>2, <1>3, <1>4, <1>5

\* All steps keep it.
LEMMA CountKept ==
    ASSUME StoreInv, GivenInv, CountInv, SearchNext \/ UNCHANGED searchVars
    PROVE  CountInv'
<1> SUFFICES ASSUME Untroubled' PROVE CountParts'
  BY DEF CountInv
<1>0. Untroubled /\ CountParts /\ (StoreStep => ~FileFault)
  BY StillUntroubled DEF CountInv
<1>1. CASE Crawls
  BY <1>0, <1>1, CrawlHands, CrawlCounts DEF StoreInv
<1>2. CASE \/ \E q \in Questions : Query(q) \/ QueryGarbled(q)
           \/ UNCHANGED searchVars
  <2>1. UNCHANGED vars /\ SameBounds
    BY <1>2
       DEF Query, QueryGarbled, registry, parser, searchVars, SameBounds, Bound
  <2> QED BY <1>0, <2>1, QuietCounts DEF StoreInv
<1>3. CASE StoreStep
  <2>1. SameBounds  BY <1>3 DEF StoreStep, registry, parser, SameBounds, Bound
  <2> QED BY <1>0, <1>3, <2>1, StoreCounts DEF StoreStep
<1>4. CASE Death
  BY <1>0, <1>4, NoDeath DEF Untroubled
<1> QED BY <1>1, <1>2, <1>3, <1>4 DEF SearchNext, Crawls

\* What is counted of a word that can be asked for.
LEMMA ServedCount ==
    ASSUME StoreInv, GivenInv, CountInv, Untroubled, pc = "serve", NEW w, Known(w)
    PROVE  /\ wordPos["query"][w].doc_count \in 1 .. Bound(w)
           /\ Bound(w) \in Int /\ Bound(w) =< m_docs_count + again
           /\ m_docs_count \in Nat /\ again \in Nat
<1>1. wordPos["query"] = wordFile["main"]  BY DEF GivenInv, MainGiven
<1>2. IsWordIndex(wordFile["main"])  BY DEF StoreInv, TypeOK
<1>3. w \in Words /\ wordFile["main"][w].doc_count \in Nat
  BY <1>1, <1>2 DEF Known, IsWordIndex, IsPartial, TermIndexItem
<1>4. /\ Occurs(wordFile["main"]) /\ m_docs_count \in Nat /\ again \in Nat
      /\ CountIn(wordFile["main"], w) =< Bound(w)
  BY <1>3 DEF CountInv, CountParts, MemoryCounts, MainCounts
<1>5. Bound(w) \in Int /\ Bound(w) =< m_docs_count + again  BY <1>4 DEF Bound
<1> QED BY <1>1, <1>3, <1>4, <1>5 DEF Known, Occurs, CountIn

\* What get_word_IDF divides by and takes the logarithm of is right for any
\* words, documents, contents, batches and questions: while nothing died or
\* failed, every entry of the loaded word index counts at least one document
\* and no more than the registry does and hand-overs went past it.
THEOREM IdfIsDefined == SearchSpec => []IdfDefined
<1> DEFINE Inv == StoreInv /\ GivenInv /\ CountInv
<1>1. SearchInit => Inv  BY SearchStart, CountStart
<1>2. Inv /\ [SearchNext]_searchVars => Inv'
  BY StoreStepInv, SearchGiven, CountKept
<1>3. Inv => IdfDefined
  <2> HIDE DEF Inv
  <2> SUFFICES ASSUME Inv, pc = "serve", crashes = 0, faults = 0,
                      NEW w \in DOMAIN wordPos["query"]
               PROVE  wordPos["query"][w].doc_count \in 1 .. (m_docs_count + again)
    BY DEF IdfDefined
  <2>1. /\ wordPos["query"][w].doc_count \in 1 .. Bound(w)
        /\ Bound(w) \in Int /\ Bound(w) =< m_docs_count + again
        /\ m_docs_count \in Nat /\ again \in Nat
    BY ServedCount DEF Known, Inv, Untroubled
  <2> QED BY <2>1
<1> QED BY <1>1, <1>2, <1>3, PTL DEF SearchSpec

-----------------------------------------------------------------------------
(***************************************************************************)
(* Types.                                                                  *)
(***************************************************************************)

\* The words of a parsed document, as the registry counts them.
WordTotal(c) == MapThenSumSet(LAMBDA w : Len(c[w]), DOMAIN c)

\* How often a document has each of its words.
Lengths(c) == [w \in DOMAIN c |-> Len(c[w])]

\* A parsed document has finitely many words, so their sum is a total.
LEMMA WordTotalIs ==
    ASSUME NEW c \in Contents
    PROVE  /\ WordTotal(c) = Total(Lengths(c), DOMAIN c)
           /\ WordTotal(c) \in Nat
<1> DEFINE D == DOMAIN c
           P(h) == h = [s \in SUBSET D |->
                          IF s = {} THEN 0
                          ELSE Len(c[CHOOSE x \in s : TRUE])
                                 + h[s \ {CHOOSE x \in s : TRUE}]]
<1>0. IsFiniteSet(D) /\ \A w \in D : c[w] \in Seq(Nat)
  BY IndexAssumption
<1>1. Lengths(c) \in [D -> Nat]  BY <1>0 DEF Lengths
<1>2. ASSUME NEW h PROVE P(h) <=> Summing(h, Lengths(c), D)
  <2>1. ASSUME NEW s \in SUBSET D, s # {}
        PROVE  Lengths(c)[CHOOSE x \in s : TRUE] = Len(c[CHOOSE x \in s : TRUE])
    BY <2>1 DEF Lengths
  <2> QED BY <2>1 DEF Summing
<1>3. PICK h : h = CHOOSE f : P(f)  OBVIOUS
<1>4. WordTotal(c) = h[D]
  BY <1>3 DEF WordTotal, MapThenSumSet, MapThenFoldSet
<1>5. P(h)
  <2>1. \E f : Summing(f, Lengths(c), D)  BY <1>0, <1>1, SumExists
  <2> HIDE DEF P
  <2> QED BY <1>2, <1>3, <2>1
<1>6. h[D] = Total(Lengths(c), D)
  <2> HIDE DEF P
  <2> QED BY <1>0, <1>1, <1>2, <1>5, TotalSame
<1> QED BY <1>0, <1>1, <1>4, <1>6, TotalApart

\* Whatever is read is an item.
LEMMA ReadItem == ASSUME TypeOK, NEW w PROVE ItemOf(w) \in Items
<1>1. IsFile(docFile["main"], Items)  BY DEF TypeOK
<1>2. NoItem \in Items  BY DEF NoItem, Items
<1> QED BY <1>1, <1>2 DEF ItemOf, ItemAt, IsFile

\* lower_bound finds a place in the list, or its end.
LEMMA LowerBoundNat ==
    ASSUME NEW s \in Seq(Nat), NEW x \in Nat
    PROVE  LowerBound(s, x) \in 0 .. Len(s)
<1> DEFINE L == {i \in DOMAIN s : s[i] < x}
<1>1. L \subseteq 1 .. Len(s) /\ Len(s) \in Nat  OBVIOUS
<1>2. IsFiniteSet(1 .. Len(s)) /\ Cardinality(1 .. Len(s)) = Len(s)
  <2>1. 1 \in Int /\ Len(s) \in Int  BY <1>1
  <2>2. IsFiniteSet(1 .. Len(s))  BY <2>1, FS_Interval
  <2>3. Cardinality(1 .. Len(s)) = IF 1 > Len(s) THEN 0 ELSE Len(s) - 1 + 1
    BY <2>1, FS_Interval
  <2> QED BY <1>1, <2>2, <2>3
<1>3. IsFiniteSet(L) /\ Cardinality(L) =< Len(s) /\ Cardinality(L) \in Nat
  <2> HIDE DEF L
  <2> QED BY <1>1, <1>2, FS_Subset, FS_CardinalityType
<1>4. LowerBound(s, x) = Cardinality(L)  BY DEF LowerBound
<1> HIDE DEF L
<1> QED BY <1>1, <1>3, <1>4

\* A count is a number, and -1 if the word is not known.
LEMMA CountInt ==
    ASSUME TypeOK, NEW d, NEW w \in Words
    PROVE  /\ get_doc_word_count(d, w) \in Int
           /\ Known(w) /\ Len(ItemOf(w).offs) # 0 => get_doc_word_count(d, w) # 0
<1> DEFINE e == ItemOf(w)
           i == LowerBound(e.docs, w)
<1>1. /\ e \in Items /\ e.docs \in Seq(Nat) /\ e.hits \in Seq(Nat \ {0})
      /\ Len(e.hits) = Len(e.docs) /\ Len(e.offs) \in Nat
  <2>1. e \in Items  BY ReadItem
  <2> HIDE DEF e
  <2>2. /\ e.docs \in Seq(Docs) /\ e.hits \in Seq(Nat \ {0}) /\ e.offs \in Seq(Nat)
        /\ Len(e.hits) = Len(e.docs)
    BY <2>1 DEF Items
  <2>3. Docs \subseteq Nat  BY IndexAssumption
  <2>4. e.docs \in Seq(Nat)
    <3>1. ASSUME NEW s \in Seq(Docs) PROVE s \in Seq(Nat)
      <4>1. \A k \in 1 .. Len(s) : s[k] \in Docs  OBVIOUS
      <4>2. \A k \in 1 .. Len(s) : s[k] \in Nat  BY <4>1, <2>3
      <4> QED BY <4>2
    <3> QED BY <2>2, <3>1
  <2> QED BY <2>1, <2>2, <2>4
<1>2. i \in 0 .. Len(e.docs)
  <2>1. w \in Nat  BY IndexAssumption
  <2> HIDE DEF e
  <2> QED BY <1>1, <2>1, LowerBoundNat
<1>3. get_doc_word_count(d, w) =
        IF ~Known(w) THEN -1
        ELSE IF i < Len(e.hits) THEN e.hits[i + 1] ELSE 4 * Len(e.offs)
  BY DEF get_doc_word_count
<1>4. i < Len(e.hits) => e.hits[i + 1] \in Nat \ {0}
  <2> HIDE DEF e, i
  <2> QED BY <1>1, <1>2
<1> HIDE DEF e, i
<1>5. get_doc_word_count(d, w) \in Int  BY <1>1, <1>3, <1>4
<1>6. Known(w) /\ Len(e.offs) # 0 => get_doc_word_count(d, w) # 0
  BY <1>1, <1>3, <1>4
<1> QED BY <1>5, <1>6 DEF e

\* An answer is made of documents and numbers.
LEMMA QueryType ==
    ASSUME TypeOK, SearchTypeOK, NEW q \in Questions, Query(q) \/ QueryGarbled(q)
    PROVE  SearchTypeOK'
<1>1. /\ UNCHANGED <<docs_db, m_docs_count, m_document, again, given, fresh>>
      /\ answer'.asked = q
  BY DEF Query, QueryGarbled, registry, parser
<1>2. q \in Seq(Words)  BY QuestionsAssumption
<1>3. Range(q) \subseteq Words  BY <1>2 DEF Range
<1>4. /\ answer'.docs \subseteq Docs
      /\ DOMAIN answer'.counts = answer'.docs
      /\ \A d \in answer'.docs : answer'.counts[d] \in [Range(q) -> Int]
  <2>1. CASE Query(q)
    <3>1. DocList(q) \subseteq Docs
      <4>1. ASSUME NEW w PROVE query_word(w) \subseteq Docs
        <5>1. ItemOf(w).docs \in Seq(Docs)  BY ReadItem DEF Items
        <5> QED BY <5>1 DEF query_word, Range
      <4> QED BY <4>1 DEF DocList
    <3>2. \A d \in DocList(q) :
             [w \in Range(q) |-> get_doc_word_count(d, w)] \in [Range(q) -> Int]
      BY <1>3, CountInt
    <3> QED BY <2>1, <3>1, <3>2 DEF Query
  <2>2. CASE QueryGarbled(q)  BY <2>2 DEF QueryGarbled
  <2> QED BY <2>1, <2>2
<1> QED BY <1>1, <1>4 DEF SearchTypeOK

\* The types are kept.
LEMMA SearchTypes ==
    ASSUME TypeOK, SearchTypeOK, SearchNext \/ UNCHANGED searchVars
    PROVE  SearchTypeOK'
<1>1. ASSUME NEW d \in Docs, NEW c \in Contents, CrawlDoc(d, c)
      PROVE  SearchTypeOK'
  <2>1. /\ docs_db' = Put(docs_db, d, WordTotal(c))
        /\ m_docs_count' = m_docs_count + 1
        /\ given' = given \cup ({d} \X DOMAIN c)
        /\ fresh' = fresh \cup ({d} \X DOMAIN c)
        /\ answer' = answer
        /\ m_document' = {[doc |-> d, words |-> c]} /\ again' = again
    BY <1>1 DEF CrawlDoc, HandOver, WordTotal
  <2>2. WordTotal(c) \in Nat /\ DOMAIN c \subseteq Words
    BY WordTotalIs, IndexAssumption
  <2>3. /\ IsPartial(docs_db', Docs)
        /\ \A e \in DOMAIN docs_db' : docs_db'[e] \in Nat
    BY <2>1, <2>2 DEF Put, IsPartial, SearchTypeOK
  <2>4. given' \subseteq Docs \X Words /\ fresh' \subseteq given'
    BY <2>1, <2>2 DEF SearchTypeOK
  <2>5. m_document' \subseteq [doc : Docs, words : Contents]  BY <2>1
  <2> QED BY <2>1, <2>3, <2>4, <2>5 DEF SearchTypeOK
<1>2. ASSUME NEW q \in Questions, Query(q) \/ QueryGarbled(q)
      PROVE  SearchTypeOK'
  BY <1>2, QueryType
<1>3. CASE StoreStep \/ UNCHANGED searchVars
  BY <1>3 DEF StoreStep, searchVars, registry, parser, SearchTypeOK
<1>4. CASE Death
  <2>1. /\ docs_db' = Nothing /\ m_docs_count' = 0 /\ answer' = NoAnswer
        /\ fresh' = {} /\ given' = given /\ m_document' = {} /\ again' = 0
    BY <1>4 DEF Death
  <2> QED BY <2>1 DEF Nothing, NoAnswer, IsPartial, SearchTypeOK, Range
<1>5. CASE CrawlStale
  <2>1. PICK last \in m_document :
           /\ given' = given \cup ({last.doc} \X DOMAIN last.words)
           /\ fresh' = fresh \cup ({last.doc} \X DOMAIN last.words)
           /\ answer' = answer
    BY <1>5 DEF CrawlStale, HandOver
  <2>2. UNCHANGED <<docs_db, m_docs_count, m_document>> /\ again' = again + 1
    BY <1>5 DEF CrawlStale, registry
  <2>3. last.doc \in Docs /\ DOMAIN last.words \subseteq Words
    BY IndexAssumption DEF SearchTypeOK
  <2>4. given' \subseteq Docs \X Words /\ fresh' \subseteq given'
    BY <2>1, <2>3 DEF SearchTypeOK
  <2> QED BY <2>1, <2>2, <2>4 DEF SearchTypeOK
<1> QED BY <1>1, <1>2, <1>3, <1>4, <1>5 DEF SearchNext

\* The registry counts documents and words, and an answer is of documents and
\* numbers, over whatever index the process finds.
THEOREM SearchTypesAreCorrect == SearchSpec => []SearchTypeOK
<1>1. SearchInit => StoreInv /\ SearchTypeOK
  <2> SUFFICES ASSUME SearchInit PROVE SearchTypeOK
    BY SearchStart
  <2> QED BY DEF SearchInit, Nothing, NoAnswer, IsPartial, SearchTypeOK, Range
<1>2. StoreInv /\ SearchTypeOK /\ [SearchNext]_searchVars
        => StoreInv' /\ SearchTypeOK'
  BY StoreStepInv, SearchTypes DEF StoreInv
<1> QED BY <1>1, <1>2, PTL DEF SearchSpec

-----------------------------------------------------------------------------
(***************************************************************************)
(* Cosines.                                                                *)
(***************************************************************************)

\* The weights of a word, one for each place it is asked for at.
Places(q, w) == {i \in DOMAIN q : q[i] = w}
Weights(q, w) == [i \in Places(q, w) |-> Weight(i, Len(q))]

\* Every place weighs, so a word that is asked for does.
LEMMA WordWeighs ==
    ASSUME NEW S, NEW q \in Seq(S), NEW w \in Range(q)
    PROVE  build_query_vec(q)[w] \in Nat \ {0}
<1> DEFINE I == Places(q, w)
           g == Weights(q, w)
           P(h) == h = [s \in SUBSET I |->
                          IF s = {} THEN 0
                          ELSE Weight(CHOOSE x \in s : TRUE, Len(q))
                                 + h[s \ {CHOOSE x \in s : TRUE}]]
           sum == MapThenSumSet(LAMBDA i : Weight(i, Len(q)), I)
<1>0. /\ I \subseteq 1 .. Len(q) /\ Len(q) \in Nat /\ I # {}
      /\ IsFiniteSet(I)
  <2>1. I \subseteq 1 .. Len(q) /\ Len(q) \in Nat /\ I # {}
    BY DEF Places, Range
  <2>2. IsFiniteSet(1 .. Len(q))
    <3>1. 1 \in Int /\ Len(q) \in Int  BY <2>1
    <3> QED BY <3>1, FS_Interval
  <2> HIDE DEF I
  <2> QED BY <2>1, <2>2, FS_Subset
<1>1. /\ g \in [I -> Nat]
      /\ \A i \in I : g[i] \in Nat \ {0} /\ g[i] = Weight(i, Len(q))
  BY <1>0 DEF Weights, Weight
<1>2. ASSUME NEW h PROVE P(h) <=> Summing(h, g, I)
  <2>1. ASSUME NEW s \in SUBSET I, s # {}
        PROVE  g[CHOOSE x \in s : TRUE] = Weight(CHOOSE x \in s : TRUE, Len(q))
    <3> HIDE DEF I, g
    <3> QED BY <1>1, <2>1
  <2> HIDE DEF I, g
  <2> QED BY <2>1 DEF Summing
<1>3. PICK h : h = CHOOSE f : P(f)  OBVIOUS
<1>4. sum = h[I]
  BY <1>3 DEF MapThenSumSet, MapThenFoldSet
<1>5. P(h)
  <2> HIDE DEF I, g
  <2>1. \E f : Summing(f, g, I)  BY <1>0, <1>1, SumExists
  <2> HIDE DEF P
  <2> QED BY <1>2, <1>3, <2>1
<1>6. h[I] = Total(g, I)
  <2> HIDE DEF P, I, g
  <2> QED BY <1>0, <1>1, <1>2, <1>5, TotalSame
<1>7. Total(g, I) \in Nat \ {0}
  <2> HIDE DEF I, g
  <2> QED BY <1>0, <1>1, TotalPositive
<1>8. build_query_vec(q)[w] = sum  BY DEF build_query_vec, Places
<1> HIDE DEF I, g, sum
<1> QED BY <1>4, <1>6, <1>7, <1>8

\* So does a question.
LEMMA QuestionWeighs ==
    ASSUME NEW S, NEW q \in Seq(S), q # << >>
    PROVE  MapThenSumSet(LAMBDA w : build_query_vec(q)[w], Range(q)) # 0
<1> DEFINE R == Range(q)
           g == build_query_vec(q)
<1>1. R # {} /\ IsFiniteSet(R)
  <2>1. DOMAIN q = 1 .. Len(q) /\ Len(q) \in Nat /\ Len(q) # 0  OBVIOUS
  <2>2. IsFiniteSet(1 .. Len(q))
    <3>1. 1 \in Int /\ Len(q) \in Int  BY <2>1
    <3> QED BY <3>1, FS_Interval
  <2>3. q \in Surjection(1 .. Len(q), R)  BY <2>1 DEF Range, Surjection
  <2>4. 1 \in DOMAIN q  BY <2>1
  <2>5. R # {}  BY <2>4 DEF Range
  <2> HIDE DEF R
  <2> QED BY <2>2, <2>3, <2>5, FS_Surjection
<1>2. \A w \in R : g[w] \in Nat \ {0}  BY WordWeighs
<1>3. g \in [R -> Nat]
  <2>1. g = [w \in R |-> g[w]]  BY DEF build_query_vec
  <2> HIDE DEF g, R
  <2> QED BY <1>2, <2>1
<1>4. MapThenSumSet(LAMBDA w : g[w], R) = Total(g, R)  BY DEF Total
<1> HIDE DEF g, R
<1>5. Total(g, R) \in Nat \ {0}  BY <1>1, <1>2, <1>3, TotalPositive
<1> QED BY <1>4, <1>5 DEF g, R

\* While nothing died or failed, an answer is of words that are known.
AnswerInv ==
    Untroubled /\ answer.docs # {} =>
        /\ answer.asked \in Questions /\ answer.asked # << >>
        /\ \A w \in Asked : Known(w)

\* While questions are answered the store does nothing.
LEMMA ServesOnly == ASSUME TypeOK, StoreStep PROVE pc # "serve"
<1>1. CASE SaveIndex \/ Initialize \/ Restart
  BY <1>1 DEF SaveIndex, Initialize, Restart
<1>2. CASE Save
  BY <1>2 DEF Save, SaveOpen, SavePosting, SaveItem, SaveClose, SaveTempWords
<1>3. CASE Merge
  BY <1>3
     DEF Merge, LoadWordIndexes, ZipCopy, ZipBoth, TakeTemp, TakeMain, Take,
         ZipItem, ZipDone, ZipFinished
<1>4. CASE Install
  BY <1>4
     DEF Install, SaveMainWords, RemoveDoc, RenameDoc, RemovePos, RenamePos, Clean
<1>5. CASE FileFault
  BY <1>5
     DEF FileFault, SaveOpenFails, SaveTempWordsFails, SaveMainWordsFails,
         ZipFinished, RenameDocFails, RenamePosFails
<1> QED BY <1>1, <1>2, <1>3, <1>4, <1>5 DEF StoreStep

\* It stays so.
LEMMA AnswerKept ==
    ASSUME StoreInv, GivenInv, FreshInv, CountInv, AnswerInv,
           SearchNext \/ UNCHANGED searchVars
    PROVE  AnswerInv'
<1> SUFFICES ASSUME Untroubled', answer'.docs # {}
             PROVE  /\ answer'.asked \in Questions /\ answer'.asked # << >>
                    /\ \A w \in Asked' : Known(w)'
  BY DEF AnswerInv
<1>0. Untroubled /\ ~torn
  BY StillUntroubled DEF StoreInv, CountInv, CountParts, Unharmed
<1>1. ASSUME NEW q \in Questions, Query(q) \/ QueryGarbled(q)
      PROVE  /\ answer'.asked \in Questions /\ answer'.asked # << >>
             /\ \A w \in Asked' : Known(w)'
  <2>1. pc = "serve" /\ wordPos' = wordPos
    BY <1>1 DEF Query, QueryGarbled, vars, memory
  <2>2. Query(q)  BY <1>0, <1>1, <2>1, NotGarbled DEF QueryGarbled, StoreInv
  <2>3. answer'.asked = q /\ answer'.docs = DocList(q)  BY <2>2 DEF Query
  <2>4. q # << >> /\ \A i \in DOMAIN q : query_word(q[i]) # {}
    BY <2>3 DEF DocList
  <2>5. \A i \in DOMAIN q : Known(q[i])  BY <2>4 DEF query_word
  <2> QED BY <2>1, <2>3, <2>4, <2>5 DEF Asked, Range, Known
<1>2. CASE Crawls \/ StoreStep
  <2>1. answer' = answer /\ pc # "serve"
    BY <1>2, CrawlHands, ServesOnly DEF HandOver, AddDoc, StoreStep, StoreInv
  <2> QED BY <2>1 DEF FreshInv, NoAnswer
<1>3. CASE UNCHANGED searchVars
  BY <1>0, <1>3 DEF searchVars, vars, memory, AnswerInv, Asked, Known
<1>4. CASE Death  BY <1>4 DEF Death, NoAnswer
<1> QED BY <1>1, <1>2, <1>3, <1>4 DEF SearchNext, Crawls

\* Of documents that have words, all or none have a cosine that is a number.
LEMMA AllOrNone ==
    ASSUME NEW q, NEW d \in Ranked, NEW e \in Ranked, CosineIsNumber(q, d)
    PROVE  CosineIsNumber(q, e)
<1>1. get_doc_total_word_count(e) # 0  BY DEF Ranked
<1>2. \A w : get_doc_word_count(d, w) = get_doc_word_count(e, w)
  BY DEF get_doc_word_count
<1> QED BY <1>1, <1>2 DEF CosineIsNumber

\* All, if a document lacks a word.
LEMMA Comparable ==
    ASSUME StoreInv, GivenInv, CountInv, AnswerInv,
           pc = "serve", Untroubled, again = 0, NEW d \in Ranked,
           NEW v \in Asked, NEW e \in DOMAIN docs_db, <<e, v>> \notin fresh
    PROVE  CosineIsNumber(answer.asked, d)
<1> DEFINE q == answer.asked
<1>1. d \in answer.docs /\ get_doc_total_word_count(d) # 0  BY DEF Ranked
<1>2. q \in Questions /\ q # << >> /\ \A w \in Range(q) : Known(w)
  BY <1>1 DEF AnswerInv, Asked
<1>3. q \in Seq(Words) /\ v \in Range(q)
  BY <1>2, QuestionsAssumption DEF Asked
<1>4. MapThenSumSet(LAMBDA w : build_query_vec(q)[w], Range(q)) # 0
  BY <1>2, <1>3, QuestionWeighs
<1>5. build_query_vec(q)[v] # 0  BY <1>3, WordWeighs
<1>6. ASSUME NEW w \in Range(q)
      PROVE  /\ wordPos["query"][w].doc_count \in 1 .. Bound(w)
             /\ Bound(w) \in Int /\ Bound(w) =< m_docs_count
             /\ m_docs_count \in Nat
  BY <1>2, ServedCount
<1>7. \A w \in Range(q) : get_word_IDF(w) # "infinite"
  <2>1. ASSUME NEW w \in Range(q) PROVE get_word_IDF(w) # "infinite"
    <3>1. m_docs_count # 0  BY <1>6
    <3> QED BY <1>2, <3>1 DEF get_word_IDF
  <2> QED BY <2>1
<1>8. get_word_IDF(v) # "zero"
  <2>1. Bound(v) = m_docs_count - 1  BY <1>3, <1>6 DEF Bound
  <2>2. wordPos["query"][v].doc_count # m_docs_count
    BY <1>3, <1>6, <2>1
  <2> QED BY <2>2 DEF get_word_IDF
<1>9. get_doc_word_count(d, v) # 0
  <2>1. /\ Tiled(wordFile["main"], docFile["main"])
        /\ Counted(wordFile["main"], docFile["main"])
        /\ wordPos["query"] = wordFile["main"]
    BY DEF StoreInv, TileInv, MainTiles, GivenInv, MainGiven, Window,
           CountInv, CountParts, Unharmed
  <2>2. v \in DOMAIN wordPos["query"]  BY <1>2, <1>3 DEF Known
  <2>3. ItemOf(v) = docFile["main"].recs[wordPos["query"][v].start_offset]
    BY <2>1, <2>2 DEF ItemOf, ItemAt, Tiled
  <2>4. wordPos["query"][v].doc_count = Len(ItemOf(v).docs)
    BY <2>1, <2>2, <2>3 DEF Counted
  <2>5. Len(ItemOf(v).docs) # 0  BY <1>3, <1>6, <2>4
  <2>6. Len(ItemOf(v).offs) = Len(ItemOf(v).docs)
    BY ReadItem DEF StoreInv, Items
  <2>7. v \in Words  BY <1>3 DEF Range
  <2> QED BY <1>2, <1>3, <2>5, <2>6, <2>7, CountInt DEF StoreInv
<1> HIDE DEF q
<1>10. CosineIsNumber(q, d)
  BY <1>1, <1>3, <1>4, <1>5, <1>7, <1>8, <1>9 DEF CosineIsNumber
<1> QED BY <1>10 DEF q

\* What an answer is sorted by are all numbers or none of them is, for any words,
\* documents, contents, batches and questions, through whatever deaths, restarts
\* and failures while the items can be read: of the documents that the registry
\* has words of.  They are numbers while one process has registered every document
\* it handed over, if a registered document lacks a word that was asked for.
THEOREM CosinesAreComparable == SearchSpec => []CosinesComparable
<1> DEFINE Inv == StoreInv /\ GivenInv /\ FreshInv /\ CountInv /\ AnswerInv
<1>1. SearchInit => Inv
  <2>1. SearchInit => AnswerInv  BY DEF SearchInit, NoAnswer, AnswerInv
  <2> QED BY <2>1, SearchStart, FreshStart, CountStart
<1>2. Inv /\ [SearchNext]_searchVars => Inv'
  BY StoreStepInv, SearchGiven, FreshKept, CountKept, AnswerKept
<1>3. Inv => CosinesComparable
  <2> SUFFICES ASSUME Inv, pc = "serve" PROVE CosinesComparable
    BY DEF CosinesComparable
  <2> DEFINE N == {d \in Ranked : CosineIsNumber(answer.asked, d)}
  <2>1. N \in {{}, Ranked}
    <3>1. N # {} => N = Ranked  BY AllOrNone
    <3> QED BY <3>1
  <2>2. ASSUME crashes = 0, faults = 0, again = 0,
               NEW w \in Asked, NEW e \in DOMAIN docs_db, <<e, w>> \notin fresh
        PROVE  N = Ranked
    BY <2>2, Comparable DEF Untroubled
  <2> QED BY <2>1, <2>2 DEF CosinesComparable
<1> QED BY <1>1, <1>2, <1>3, PTL DEF SearchSpec

=============================================================================
