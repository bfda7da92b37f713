------------------------- MODULE IndexStoreProofs --------------------------
(***************************************************************************)
(* Proofs about IndexStore, for every value of its constants: its types,   *)
(* the order of postings, and the word indexes, which address whole items of *)
(* the document files, in the order the merge reads them, and count their  *)
(* postings.                                                               *)
(***************************************************************************)
EXTENDS IndexStore, TLAPS, WellFoundedInduction

-----------------------------------------------------------------------------
(* Partial functions, term indexes and files.                              *)

\* Put adds one key to a partial function.
LEMMA PutPartial ==
    ASSUME NEW f, NEW S, NEW T, NEW k \in S, NEW v \in T,
           IsPartial(f, S), \A x \in DOMAIN f : f[x] \in T
    PROVE  /\ IsPartial(Put(f, k, v), S)
           /\ DOMAIN Put(f, k, v) = DOMAIN f \cup {k}
           /\ \A x \in DOMAIN Put(f, k, v) : Put(f, k, v)[x] \in T
BY DEF IsPartial, Put

\* Offsets are natural numbers whatever is taken from what.
LEMMA OffsetNat == ASSUME NEW n \in Int PROVE n % OffMod \in Nat
BY IndexAssumption

\* Put keeps a word index a word index.
LEMMA PutWordIndex ==
    ASSUME NEW index, NEW w \in Words, NEW t \in TermIndexItem,
           IsWordIndex(index)
    PROVE  IsWordIndex(Put(index, w, t))
BY DEF IsWordIndex, IsPartial, Put

\* The empty function is a word index.
LEMMA NothingWordIndex == IsWordIndex(Nothing)
BY DEF IsWordIndex, IsPartial, Nothing

\* The empty file is a file of any records.
LEMMA EmptyIsFile == ASSUME NEW R PROVE IsFile(EmptyFile, R)
BY DEF IsFile, IsPartial, EmptyFile, Nothing

\* Writing a record to the end of a file leaves a file.
LEMMA WriteRecFile ==
    ASSUME NEW file, NEW R, NEW rec \in R, NEW size \in Nat, IsFile(file, R)
    PROVE  IsFile(WriteRec(file, rec, size), R)
BY DEF IsFile, IsPartial, WriteRec, Put

\* The sizes of items and position lists are natural numbers.
LEMMA Sizes ==
    /\ \A e \in Items : ItemSize(e) \in Nat
    /\ \A p \in Seq(Nat) : ListSize(p) \in Nat
<1>1. ASSUME NEW e \in Items PROVE ItemSize(e) \in Nat
  <2>1. Len(e.docs) \in Nat  BY DEF Items
  <2> QED BY <2>1, IndexAssumption DEF ItemSize
<1>2. ASSUME NEW p \in Seq(Nat) PROVE ListSize(p) \in Nat
  <2>1. Len(p) \in Nat  OBVIOUS
  <2> QED BY <2>1, IndexAssumption DEF ListSize
<1> QED BY <1>1, <1>2

\* The empty item is an item.
LEMMA NoItemOK == NoItem \in Items
BY DEF NoItem, Items

\* Reading anywhere in a file gives an item, a list and a step forward.
LEMMA Reading ==
    ASSUME NEW off \in Nat
    PROVE  /\ \A file : IsFile(file, Items) =>
                /\ ItemAt(file, off) \in Items
                /\ ItemStep(file, off) \in Nat
           /\ \A file : IsFile(file, Seq(Nat)) =>
                /\ ListAt(file, off) \in Seq(Nat)
                /\ ListStep(file, off) \in Nat
<1>1. ASSUME NEW file, IsFile(file, Items)
      PROVE  ItemAt(file, off) \in Items /\ ItemStep(file, off) \in Nat
  BY <1>1, Sizes, NoItemOK DEF IsFile, ItemAt, ItemStep
<1>2. ASSUME NEW file, IsFile(file, Seq(Nat))
      PROVE  ListAt(file, off) \in Seq(Nat) /\ ListStep(file, off) \in Nat
  <2>1. << >> \in Seq(Nat)  OBVIOUS
  <2> QED BY <1>2, <2>1, Sizes DEF IsFile, ListAt, ListStep
<1> QED BY <1>1, <1>2

\* An item with one more posting is an item.
LEMMA AppendItem ==
    ASSUME NEW e \in Items, NEW d \in Docs, NEW n \in Nat \ {0}, NEW o \in Nat
    PROVE  [docs |-> Append(e.docs, d), hits |-> Append(e.hits, n),
            offs |-> Append(e.offs, o)] \in Items
<1>1. /\ e.docs \in Seq(Docs) /\ e.hits \in Seq(Nat \ {0}) /\ e.offs \in Seq(Nat)
      /\ Len(e.hits) = Len(e.docs) /\ Len(e.offs) = Len(e.docs)
  BY DEF Items
<1>2. /\ Append(e.docs, d) \in Seq(Docs)
      /\ Append(e.hits, n) \in Seq(Nat \ {0})
      /\ Append(e.offs, o) \in Seq(Nat)
  BY <1>1
<1>3. /\ Len(Append(e.docs, d)) = Len(e.docs) + 1
      /\ Len(Append(e.hits, n)) = Len(e.docs) + 1
      /\ Len(Append(e.offs, o)) = Len(e.docs) + 1
  BY <1>1
<1> DEFINE ds == Append(e.docs, d)
           hs == Append(e.hits, n)
           os == Append(e.offs, o)
<1>4. /\ ds \in Seq(Docs) /\ hs \in Seq(Nat \ {0}) /\ os \in Seq(Nat)
      /\ Len(hs) = Len(ds) /\ Len(os) = Len(ds)
  BY <1>2, <1>3
<1> HIDE DEF ds, hs, os
<1>5. [docs |-> ds, hits |-> hs, offs |-> os] \in Items
  BY <1>4 DEF Items
<1> QED BY <1>5 DEF ds, hs, os

-----------------------------------------------------------------------------
(* Type correctness.                                                       *)

\* The initial state is well typed.
LEMMA InitType == Init => TypeOK
<1> SUFFICES ASSUME Init PROVE TypeOK
  OBVIOUS
<1>1. pc \in Steps /\ finalSave \in BOOLEAN /\ torn \in BOOLEAN
  BY Zenon DEF Init, NoMemory, Steps
<1>0. /\ m_doc_count \in 0 .. BatchSize - 1 /\ missing \subseteq {"doc", "pos"}
      /\ adds \in Nat /\ crashes \in Nat /\ faults \in Nat
  BY IndexAssumption DEF Init, NoMemory
<1>2. IsPartial(m_words, Words) /\ DOMAIN m_words = {}
  BY DEF Init, NoMemory, IsPartial, Nothing
<1>3. /\ DOMAIN wordPos = {"main", "temp", "query"}
      /\ \A f \in DOMAIN wordPos : IsWordIndex(wordPos[f])
      /\ DOMAIN wordFile = {"main", "temp"}
      /\ \A f \in DOMAIN wordFile : IsWordIndex(wordFile[f])
      /\ IsWordIndex(outIndex)
  BY NothingWordIndex DEF Init, NoMemory, NoLocals
<1>4. /\ vec \in Items /\ todo \in Pair(SUBSET Words)
      /\ docCur \in Pair(Nat) /\ posCur \in Pair(Nat)
      /\ item \in Pair(Items) /\ at \in Pair(Nat) /\ base \in Pair(Nat)
  BY NoItemOK DEF Init, NoLocals, Pair
<1>5. /\ DOMAIN docFile = {"main", "temp", "mid"}
      /\ \A f \in DOMAIN docFile : IsFile(docFile[f], Items)
      /\ DOMAIN posFile = {"main", "temp", "mid"}
      /\ \A f \in DOMAIN posFile : IsFile(posFile[f], Seq(Nat))
  BY EmptyIsFile DEF Init
<1> QED BY <1>0, <1>1, <1>2, <1>3, <1>4, <1>5 DEF TypeOK

\* Adding a document keeps the types.
LEMMA AddDocType ==
    ASSUME TypeOK, NEW d \in Docs, NEW c \in Contents, AddDoc(d, c)
    PROVE  TypeOK'
<1>1. /\ IsPartial(c, Words)
      /\ \A w \in DOMAIN c : c[w] \in Seq(Nat) \ {<< >>}
  BY IndexAssumption DEF IsPartial
<1>2. m_doc_count' \in 0 .. BatchSize - 1
  BY IndexAssumption DEF TypeOK, AddDoc
<1>3. ASSUME NEW w \in DOMAIN m_words'
      PROVE  /\ IsPartial(m_words'[w], Docs)
             /\ \A e \in DOMAIN m_words'[w] : m_words'[w][e] \in Seq(Nat) \ {<< >>}
  <2>1. /\ IsPartial(Postings(w), Docs)
        /\ \A e \in DOMAIN Postings(w) : Postings(w)[e] \in Seq(Nat) \ {<< >>}
    BY DEF TypeOK, Postings, IsPartial, Nothing
  <2>2. CASE w \in DOMAIN c
    <3>1. m_words'[w] = Put(Postings(w), d, c[w])
      BY <1>3, <2>2 DEF AddDoc
    <3>2. c[w] \in Seq(Nat) \ {<< >>}
      BY <1>1, <2>2
    <3> QED BY <2>1, <3>1, <3>2 DEF IsPartial, Put
  <2>3. CASE w \notin DOMAIN c
    <3>1. w \in DOMAIN m_words /\ m_words'[w] = m_words[w]
      BY <1>3, <2>3 DEF AddDoc
    <3> QED BY <3>1 DEF TypeOK
  <2> QED BY <2>2, <2>3
<1>4. IsPartial(m_words', Words)
  BY <1>1 DEF TypeOK, AddDoc, IsPartial
<1>5. pc' \in Steps /\ finalSave' \in BOOLEAN
  BY Zenon DEF AddDoc, Steps
<1>6. adds' \in Nat
  BY DEF TypeOK, AddDoc
<1> QED
  BY <1>2, <1>3, <1>4, <1>5, <1>6 DEF TypeOK, AddDoc, locals, files

\* The steps of save_index on the temp index keep the types.
LEMMA SaveType == ASSUME TypeOK, TodoKnown, Save PROVE TypeOK'
<1> USE DEF memory, locals, files, history
<1>1. CASE SaveOpen
  BY <1>1, EmptyIsFile DEF SaveOpen, TypeOK, Steps, Pair, IsPartial
<1>2. ASSUME NEW w \in Words, NEW d \in Docs, SavePosting(w, d) PROVE TypeOK'
  <2>1. w \in DOMAIN m_words /\ d \in DOMAIN m_words[w]
    BY <1>2 DEF TodoKnown, SavePosting, Least, Unsaved
  <2>2. m_words[w][d] \in Seq(Nat) \ {<< >>}
    BY <2>1 DEF TypeOK
  <2>3. vec' \in Items
    <3>1. vec \in Items
      BY DEF TypeOK
    <3> DEFINE off == posFile["temp"].len % OffMod
               n == Len(m_words[w][d])
    <3>2. off \in Nat
      <4>1. posFile["temp"].len \in Nat
        BY DEF TypeOK, IsFile
      <4> QED BY <4>1, OffsetNat
    <3>3. n \in Nat \ {0}
      BY <2>2
    <3>4. vec' = [docs |-> Append(vec.docs, d), hits |-> Append(vec.hits, n),
                  offs |-> Append(vec.offs, off)]
      BY <1>2 DEF SavePosting
    <3> HIDE DEF off, n
    <3> QED BY <3>1, <3>2, <3>3, <3>4, AppendItem
  <2>4. IsFile(WriteRec(posFile["temp"], m_words[w][d],
                        ListSize(m_words[w][d])), Seq(Nat))
    BY <2>2, WriteRecFile, Sizes DEF TypeOK
  <2> QED BY <1>2, <2>3, <2>4 DEF SavePosting, TypeOK
<1>3. ASSUME NEW w \in Words, SaveItem(w) PROVE TypeOK'
  <2> DEFINE out == docFile["temp"]
             written == WriteRec(out, vec, ItemSize(vec))
             entry == [doc_count |-> Len(vec.docs), start_offset |-> out.len,
                       end_offset |-> written.len]
  <2>1. vec \in Items /\ ItemSize(vec) \in Nat
    BY Sizes DEF TypeOK
  <2>2. IsFile(written, Items)
    BY <2>1, WriteRecFile DEF TypeOK
  <2>3. entry \in TermIndexItem
    <3>1. Len(vec.docs) \in Nat  BY <2>1 DEF Items
    <3> QED BY <2>2, <3>1 DEF TypeOK, IsFile, TermIndexItem
  <2>4. IsWordIndex(Put(wordPos["temp"], w, entry))
    BY <2>3, PutWordIndex DEF TypeOK
  <2>5. /\ docFile' = [docFile EXCEPT !["temp"] = written]
        /\ wordPos' = [wordPos EXCEPT !["temp"] = Put(@, w, entry)]
    BY <1>3 DEF SaveItem
  <2> HIDE DEF out, written, entry
  <2> QED BY <1>3, <2>2, <2>4, <2>5, NoItemOK DEF SaveItem, TypeOK, Pair
<1>4. CASE SaveClose
  BY <1>4 DEF SaveClose, TypeOK, Steps
<1>5. CASE SaveTempWords
  BY <1>5 DEF SaveTempWords, TypeOK, Steps
<1> QED BY <1>1, <1>2, <1>3, <1>4, <1>5 DEF Save

\* Install steps.
LEMMA InstallType == ASSUME TypeOK, Install PROVE TypeOK'
<1> USE DEF memory, locals, files, history
<1>1. CASE SaveMainWords
  BY <1>1 DEF SaveMainWords, TypeOK, Steps
<1>2. CASE RemoveDoc
  BY <1>2, EmptyIsFile DEF RemoveDoc, TypeOK, Steps
<1>3. CASE RenameDoc
  BY <1>3, EmptyIsFile DEF RenameDoc, TypeOK, Steps
<1>4. CASE RemovePos
  BY <1>4, EmptyIsFile DEF RemovePos, TypeOK, Steps
<1>5. CASE RenamePos
  BY <1>5, EmptyIsFile DEF RenamePos, TypeOK, Steps
<1>6. CASE Clean
  BY <1>6, EmptyIsFile, NothingWordIndex DEF Clean, TypeOK, Steps, IsPartial, Nothing
<1> QED BY <1>1, <1>2, <1>3, <1>4, <1>5, <1>6 DEF Install

\* Both cursors and items are typed by what Reading says of files.
LEMMA ReadBoth ==
    ASSUME TypeOK, NEW f \in {"main", "temp"}
    PROVE  /\ ItemAt(docFile[f], docCur[f]) \in Items
           /\ docCur[f] + ItemStep(docFile[f], docCur[f]) \in Nat
           /\ ListAt(posFile[f], posCur[f]) \in Seq(Nat)
           /\ posCur[f] + ListStep(posFile[f], posCur[f]) \in Nat
<1>1. /\ docCur[f] \in Nat /\ posCur[f] \in Nat
      /\ IsFile(docFile[f], Items) /\ IsFile(posFile[f], Seq(Nat))
  BY DEF TypeOK, Pair
<1>2. /\ ItemAt(docFile[f], docCur[f]) \in Items
      /\ ItemStep(docFile[f], docCur[f]) \in Nat
  BY <1>1, Reading
<1>3. /\ ListAt(posFile[f], posCur[f]) \in Seq(Nat)
      /\ ListStep(posFile[f], posCur[f]) \in Nat
  BY <1>1, Reading
<1> QED BY <1>1, <1>2, <1>3

\* An item with its offsets rebased is an item.
LEMMA RebaseItem ==
    ASSUME NEW e \in Items, NEW new \in Nat
    PROVE  [e EXCEPT !.offs = Rebase(e.offs, new)] \in Items
<1>1. Rebase(e.offs, new) \in Seq(Nat) /\ Len(Rebase(e.offs, new)) = Len(e.offs)
  <2>1. /\ e.offs \in Seq(Nat) /\ Len(e.offs) \in Nat
        /\ DOMAIN e.offs = 1 .. Len(e.offs)
    BY DEF Items
  <2>2. ASSUME NEW i \in DOMAIN e.offs
        PROVE  (e.offs[i] - e.offs[1] + new) % OffMod \in Nat
    <3>1. e.offs[i] \in Nat /\ e.offs[1] \in Nat
      BY <2>1
    <3>2. e.offs[i] - e.offs[1] + new \in Int
      BY <3>1
    <3> QED BY <3>2, OffsetNat
  <2> QED BY <2>1, <2>2 DEF Rebase
<1> QED BY <1>1 DEF Items

\* Moving a word found in one index keeps the types.
LEMMA ZipCopyType ==
    ASSUME TypeOK, TodoKnown,
           NEW f \in {"main", "temp"}, NEW g \in {"main", "temp"},
           NEW w \in Words, ZipCopy(f, g, w)
    PROVE  TypeOK'
<1> DEFINE e == ItemAt(docFile[f], docCur[f])
           poss == ListAt(posFile[f], posCur[f])
           out == docFile["mid"]
           moved == [e EXCEPT !.offs = Rebase(e.offs, posFile["mid"].len)]
           written == WriteRec(out, moved, ItemSize(moved))
           entry == [doc_count |-> wordPos[f][w].doc_count,
                     start_offset |-> out.len, end_offset |-> written.len]
<1>1. /\ docFile' = [docFile EXCEPT !["mid"] = written]
      /\ posFile' = [posFile EXCEPT !["mid"] = WriteRec(@, poss, ListSize(poss))]
      /\ docCur' = [docCur EXCEPT ![f] = @ + ItemStep(docFile[f], @)]
      /\ posCur' = [posCur EXCEPT ![f] = @ + ListStep(posFile[f], @)]
      /\ outIndex' = Put(outIndex, w, entry)
      /\ todo' = [todo EXCEPT ![f] = @ \ {w}]
      /\ UNCHANGED <<pc, memory, vec, item, at, base, wordFile, missing, history>>
  BY DEF ZipCopy
<1>2. e \in Items /\ poss \in Seq(Nat)
  BY ReadBoth
<1>3. out.len \in Nat /\ posFile["mid"].len \in Nat
  BY DEF TypeOK, IsFile
<1>4. moved \in Items /\ ItemSize(moved) \in Nat /\ ListSize(poss) \in Nat
  BY <1>2, <1>3, RebaseItem, Sizes
<1>5. IsFile(written, Items)
  BY <1>4, WriteRecFile DEF TypeOK
<1>6. IsFile(WriteRec(posFile["mid"], poss, ListSize(poss)), Seq(Nat))
  BY <1>2, <1>4, WriteRecFile DEF TypeOK
<1>7. entry \in TermIndexItem
  <2>1. w \in DOMAIN wordPos[f] /\ f \in DOMAIN wordPos
    BY DEF ZipCopy, TodoKnown, TypeOK
  <2>2. wordPos[f][w] \in TermIndexItem
    BY <2>1 DEF TypeOK, IsWordIndex
  <2>3. wordPos[f][w].doc_count \in Nat /\ written.len \in Nat
    BY <2>2, <1>5 DEF TermIndexItem, IsFile
  <2> QED BY <2>3, <1>3 DEF TermIndexItem
<1>8. IsWordIndex(Put(outIndex, w, entry))
  BY <1>7, PutWordIndex DEF TypeOK
<1>9. docCur' \in Pair(Nat) /\ posCur' \in Pair(Nat)
  BY <1>1, ReadBoth DEF TypeOK, Pair
<1> HIDE DEF e, poss, out, moved, written, entry
<1> QED
  BY <1>1, <1>5, <1>6, <1>8, <1>9 DEF TypeOK, Pair, memory, history

\* Reading both items of a word keeps the types.
LEMMA ZipBothType ==
    ASSUME TypeOK, NEW w \in Words, ZipBoth(w)
    PROVE  TypeOK'
<1> DEFINE mid == posFile["mid"]
           src == ListAt(posFile["temp"], posCur["temp"])
           dest == ListAt(posFile["main"], posCur["main"])
           first == WriteRec(mid, src, ListSize(src))
           second == WriteRec(first, dest, ListSize(dest))
<1>1. /\ base' = [temp |-> mid.len, main |-> first.len]
      /\ posFile' = [posFile EXCEPT !["mid"] = second]
      /\ item' = [f \in {"main", "temp"} |-> ItemAt(docFile[f], docCur[f])]
      /\ at' = [f \in {"main", "temp"} |-> 0]
      /\ vec' = NoItem
      /\ docCur' = [f \in {"main", "temp"} |->
                      docCur[f] + ItemStep(docFile[f], docCur[f])]
      /\ posCur' = [f \in {"main", "temp"} |->
                      posCur[f] + ListStep(posFile[f], posCur[f])]
      /\ pc' = "zip_docs"
      /\ UNCHANGED <<memory, todo, outIndex, wordFile, docFile, missing, history>>
  BY DEF ZipBoth
<1>2. src \in Seq(Nat) /\ dest \in Seq(Nat)
  BY ReadBoth
<1>3. ListSize(src) \in Nat /\ ListSize(dest) \in Nat
  BY <1>2, Sizes
<1>4. IsFile(mid, Seq(Nat))
  BY DEF TypeOK
<1>5. IsFile(first, Seq(Nat))
  BY <1>2, <1>3, <1>4, WriteRecFile
<1>6. IsFile(second, Seq(Nat))
  BY <1>2, <1>3, <1>5, WriteRecFile
<1>7. base' \in Pair(Nat)
  <2>1. mid.len \in Nat /\ first.len \in Nat
    BY <1>4, <1>5 DEF IsFile
  <2> HIDE DEF mid, first
  <2> QED BY <1>1, <2>1 DEF Pair
<1>8. /\ item' \in Pair(Items) /\ docCur' \in Pair(Nat)
      /\ posCur' \in Pair(Nat) /\ at' \in Pair(Nat)
  BY <1>1, ReadBoth DEF Pair
<1> HIDE DEF mid, src, dest, first, second
<1> QED
  BY <1>1, <1>6, <1>7, <1>8, NoItemOK DEF TypeOK, Steps, memory, history

\* Taking one posting keeps the types.
LEMMA TakeType ==
    ASSUME TypeOK, NEW f \in {"main", "temp"}, More(f), Take(f)
    PROVE  TypeOK'
<1> DEFINE i == at[f] + 1
           e == item[f]
           off == (e.offs[i] - e.offs[1] + base[f]) % OffMod
<1>1. /\ vec' = [docs |-> Append(vec.docs, e.docs[i]),
                 hits |-> Append(vec.hits, e.hits[i]),
                 offs |-> Append(vec.offs, off)]
      /\ at' = [at EXCEPT ![f] = i]
      /\ UNCHANGED <<pc, memory, todo, docCur, posCur, item, base, outIndex,
                     files, history>>
  BY DEF Take
<1>2. /\ e \in Items /\ at[f] \in Nat /\ base[f] \in Nat /\ vec \in Items
  BY DEF TypeOK, Pair
<1>3. i \in 1 .. Len(e.docs) /\ e.docs[i] \in Docs
  BY <1>2 DEF More, Items
<1>4. e.hits[i] \in Nat \ {0} /\ off \in Nat
  <2>1. /\ e.hits[i] \in Nat \ {0} /\ e.offs[i] \in Nat /\ e.offs[1] \in Nat
    <3>1. 1 \in 1 .. Len(e.docs)
      BY <1>3
    <3>2. /\ e.hits \in Seq(Nat \ {0}) /\ Len(e.hits) = Len(e.docs)
          /\ e.offs \in Seq(Nat) /\ Len(e.offs) = Len(e.docs)
      BY <1>2 DEF Items
    <3>3. i \in 1 .. Len(e.docs)
      BY <1>3
    <3> HIDE DEF i, e
    <3>4. e.hits[i] \in Nat \ {0}
      BY <3>2, <3>3
    <3>5. e.offs[i] \in Nat /\ e.offs[1] \in Nat
      BY <3>1, <3>2, <3>3
    <3> QED BY <3>4, <3>5
  <2>2. e.offs[i] - e.offs[1] + base[f] \in Int
    BY <1>2, <2>1
  <2> QED BY <2>1, <2>2, OffsetNat
<1>5. vec' \in Items
  <2>1. i \in Nat /\ e.docs[i] \in Docs
    BY <1>3
  <2> HIDE DEF i, e, off
  <2> QED BY <1>1, <1>2, <1>4, <2>1, AppendItem
<1>6. at' \in Pair(Nat)
  <2>1. at \in [{"main", "temp"} -> Nat]
    BY DEF TypeOK, Pair
  <2>2. i \in Nat
    BY <1>2
  <2>3. at' = [at EXCEPT ![f] = i]
    BY <1>1
  <2> HIDE DEF i, e, off
  <2> QED BY <2>1, <2>2, <2>3 DEF Pair
<1> QED
  BY <1>1, <1>5, <1>6 DEF TypeOK, memory, files, history

\* Writing the merged item keeps the types.
LEMMA ZipItemType ==
    ASSUME TypeOK, TodoKnown, NEW w \in Words, ZipItem(w)
    PROVE  TypeOK'
<1> DEFINE out == docFile["mid"]
           written == WriteRec(out, vec, ItemSize(vec))
           n == MergedCount(w)
           entry == [doc_count |-> n, start_offset |-> out.len,
                     end_offset |-> written.len]
<1>1. /\ docFile' = [docFile EXCEPT !["mid"] = written]
      /\ outIndex' = Put(outIndex, w, entry)
      /\ todo' = [f \in {"main", "temp"} |-> todo[f] \ {w}]
      /\ vec' = NoItem
      /\ item' = [f \in {"main", "temp"} |-> NoItem]
      /\ at' = [f \in {"main", "temp"} |-> 0]
      /\ base' = [f \in {"main", "temp"} |-> 0]
      /\ pc' = "zip"
      /\ UNCHANGED <<memory, docCur, posCur, wordFile, posFile, missing, history>>
  BY DEF ZipItem
<1>2. IsFile(written, Items)
  BY WriteRecFile, Sizes DEF TypeOK
<1>3. n \in Nat
  <2>1. w \in todo["temp"] /\ w \in todo["main"]
    BY DEF ZipItem, TodoKnown
  <2>2. w \in DOMAIN wordPos["temp"] /\ w \in DOMAIN wordPos["main"]
    BY <2>1 DEF ZipItem, TodoKnown
  <2>3. /\ wordPos["temp"][w] \in TermIndexItem
        /\ wordPos["main"][w] \in TermIndexItem
    BY <2>2 DEF TypeOK, IsWordIndex
  <2> QED BY <2>3 DEF TermIndexItem, MergedCount
<1>4. entry \in TermIndexItem
  BY <1>2, <1>3 DEF TypeOK, IsFile, TermIndexItem
<1>5. IsWordIndex(Put(outIndex, w, entry))
  BY <1>4, PutWordIndex DEF TypeOK
<1>6. /\ todo' \in Pair(SUBSET Words) /\ item' \in Pair(Items)
      /\ at' \in Pair(Nat) /\ base' \in Pair(Nat)
  BY <1>1, NoItemOK DEF TypeOK, Pair
<1> HIDE DEF out, written, n, entry
<1> QED
  BY <1>1, <1>2, <1>5, <1>6, NoItemOK DEF TypeOK, Steps, memory, history

\* The steps of zipper_merge keep the types.
LEMMA MergeType == ASSUME TypeOK, TodoKnown, Merge PROVE TypeOK'
<1> USE DEF memory, locals, files, history
<1>1. CASE LoadWordIndexes
  <2>1. todo' \in Pair(SUBSET Words)
    BY <1>1 DEF LoadWordIndexes, TypeOK, IsWordIndex, IsPartial, Pair
  <2> QED
    BY <1>1, <2>1, EmptyIsFile, NothingWordIndex
       DEF LoadWordIndexes, TypeOK, Steps, Pair
<1>2. ASSUME NEW w \in Words, ZipCopy("temp", "main", w) PROVE TypeOK'
  BY <1>2, ZipCopyType
<1>3. ASSUME NEW w \in Words, ZipCopy("main", "temp", w) PROVE TypeOK'
  BY <1>3, ZipCopyType
<1>4. ASSUME NEW w \in Words, ZipBoth(w) PROVE TypeOK'
  BY <1>4, ZipBothType
<1>5. CASE TakeTemp
  BY <1>5, TakeType DEF TakeTemp
<1>6. CASE TakeMain
  BY <1>6, TakeType DEF TakeMain
<1>7. ASSUME NEW w \in Words, ZipItem(w) PROVE TypeOK'
  BY <1>7, ZipItemType
<1>8. CASE ZipDone
  BY <1>8, NothingWordIndex DEF ZipDone, ZipFinished, TypeOK, Steps, Pair
<1> QED
  BY <1>1, <1>2, <1>3, <1>4, <1>5, <1>6, <1>7, <1>8 DEF Merge

\* A word file cut off by a death is still a word index.
LEMMA WrittenPartType ==
    ASSUME NEW index, IsWordIndex(index), NEW part \in WrittenParts(index)
    PROVE  IsWordIndex(part)
<1>1. CASE part = Nothing
  BY <1>1, NothingWordIndex
<1>2. CASE part = index
  BY <1>2
<1>3. ASSUME NEW k \in DOMAIN index,
             part = [w \in {v \in DOMAIN index : v < k} |-> index[w]]
      PROVE  IsWordIndex(part)
  BY <1>3 DEF IsWordIndex, IsPartial
<1> QED BY <1>1, <1>2, <1>3 DEF WrittenParts

\* Dying keeps the types of everything but main's word file.
LEMMA DieType ==
    ASSUME TypeOK, Die, torn' \in BOOLEAN, crashes' \in Nat,
           DOMAIN wordFile' = {"main", "temp"},
           \A f \in DOMAIN wordFile' : IsWordIndex(wordFile'[f])
    PROVE  TypeOK'
<1>1. /\ pc' \in Steps /\ finalSave' \in BOOLEAN
  BY Zenon DEF Die, Steps
<1>2. m_doc_count' \in 0 .. BatchSize - 1 /\ adds' \in Nat
  BY IndexAssumption DEF Die, TypeOK
<1>3. IsPartial(m_words', Words) /\ DOMAIN m_words' = {}
  BY DEF Die, IsPartial, Nothing
<1>4. /\ DOMAIN wordPos' = {"main", "temp", "query"}
      /\ \A f \in DOMAIN wordPos' : IsWordIndex(wordPos'[f])
      /\ IsWordIndex(outIndex')
  BY NothingWordIndex DEF Die
<1>5. /\ vec' \in Items /\ todo' \in Pair(SUBSET Words)
      /\ docCur' \in Pair(Nat) /\ posCur' \in Pair(Nat)
      /\ item' \in Pair(Items) /\ at' \in Pair(Nat) /\ base' \in Pair(Nat)
  BY NoItemOK DEF Die, Pair
<1>6. UNCHANGED <<docFile, posFile, missing, faults>>
  BY DEF Die
<1> QED BY <1>1, <1>2, <1>3, <1>4, <1>5, <1>6 DEF TypeOK

\* A failed file operation keeps the types.
LEMMA FaultType == ASSUME TypeOK, FileFault PROVE TypeOK'
<1> USE DEF memory, locals, files
<1>1. faults' \in Nat
  BY DEF FileFault, SaveOpenFails, SaveTempWordsFails, SaveMainWordsFails,
         RenameDocFails, RenamePosFails, Fail, TypeOK
<1>2. torn' \in BOOLEAN
  BY Zenon DEF FileFault, SaveOpenFails, SaveTempWordsFails,
               SaveMainWordsFails, RenameDocFails, RenamePosFails, TypeOK
<1>3. CASE SaveOpenFails
  <2>1. /\ pc' = "load"
        /\ docFile' \in {docFile, [docFile EXCEPT !["temp"] = EmptyFile]}
        /\ posFile' \in {posFile, [posFile EXCEPT !["temp"] = EmptyFile]}
        /\ UNCHANGED <<memory, locals, wordFile, missing, adds, crashes>>
    BY <1>3 DEF SaveOpenFails
  <2>2. /\ DOMAIN docFile' = {"main", "temp", "mid"}
        /\ \A f \in DOMAIN docFile' : IsFile(docFile'[f], Items)
    BY <2>1, EmptyIsFile DEF TypeOK
  <2>3. /\ DOMAIN posFile' = {"main", "temp", "mid"}
        /\ \A f \in DOMAIN posFile' : IsFile(posFile'[f], Seq(Nat))
    BY <2>1, EmptyIsFile DEF TypeOK
  <2> QED BY <1>1, <1>2, <2>1, <2>2, <2>3 DEF TypeOK, Steps
<1>4. CASE SaveTempWordsFails \/ RenameDocFails \/ RenamePosFails
  BY <1>1, <1>2, <1>4
     DEF SaveTempWordsFails, RenameDocFails, RenamePosFails, TypeOK, Steps
<1>5. CASE SaveMainWordsFails
  BY <1>1, <1>2, <1>5, NothingWordIndex
     DEF SaveMainWordsFails, ZipFinished, TypeOK, Steps, Pair
<1> QED BY <1>3, <1>4, <1>5 DEF FileFault

\* Every step keeps the types.
LEMMA NextType == ASSUME TypeOK, TodoKnown, [Next]_vars PROVE TypeOK'
<1>1. ASSUME NEW d \in Docs, NEW c \in Contents, AddDoc(d, c) PROVE TypeOK'
  BY <1>1, AddDocType
<1>2. CASE SaveIndex
  BY <1>2 DEF SaveIndex, TypeOK, Steps, locals, files, history
<1>3. CASE Save
  BY <1>3, SaveType
<1>4. CASE Merge
  BY <1>4, MergeType
<1>5. CASE Install
  BY <1>5, InstallType
<1>6. CASE Initialize
  BY <1>6 DEF Initialize, TypeOK, Steps, locals, files, history
<1>7. CASE Restart
  BY <1>7 DEF Restart, TypeOK, Steps, memory, locals, files, history
<1>8. CASE Crash
  <2>1. Die /\ crashes' \in Nat
    BY <1>8 DEF Crash, TypeOK
  <2>2. torn' \in BOOLEAN
    BY <1>8, Zenon DEF Crash
  <2>3. /\ DOMAIN wordFile' = {"main", "temp"}
        /\ \A f \in DOMAIN wordFile' : IsWordIndex(wordFile'[f])
    <3>1. ASSUME NEW f \in {"main", "temp"}, NEW step, Interrupted(f, step)
          PROVE  /\ DOMAIN wordFile' = {"main", "temp"}
                 /\ \A g \in DOMAIN wordFile' : IsWordIndex(wordFile'[g])
      <4>1. PICK part \in WrittenParts(wordPos[f]) \cup {wordFile[f]} :
               wordFile' = [wordFile EXCEPT ![f] = part]
        BY <3>1 DEF Interrupted
      <4>2. IsWordIndex(part)
        BY <4>1, WrittenPartType DEF TypeOK
      <4> QED BY <4>1, <4>2 DEF TypeOK
    <3>2. CASE UNCHANGED wordFile
      BY <3>2 DEF TypeOK
    <3>3. \/ Interrupted("main", "main_words")
          \/ Interrupted("temp", "save_words")
          \/ UNCHANGED wordFile
      BY <1>8 DEF Crash
    <3> QED BY <3>1, <3>2, <3>3
  <2> QED BY <2>1, <2>2, <2>3, DieType
<1>9. CASE MergeAbort \/ \E w \in Words : ZipFault(w)
  BY <1>9, DieType DEF MergeAbort, ZipFault, TypeOK
<1>10. CASE FileFault
  BY <1>10, FaultType
<1>11. CASE UNCHANGED vars
  BY <1>11 DEF TypeOK, vars, memory, locals, files, history
<1> QED
  BY <1>1, <1>2, <1>3, <1>4, <1>5, <1>6, <1>7, <1>8, <1>9, <1>10, <1>11
     DEF Next, Progress

-----------------------------------------------------------------------------
(* The words a loop has still to reach.                                    *)

\* An index has one least word.
LEMMA LeastUnique ==
    ASSUME NEW S \in SUBSET Words, NEW v, NEW w, Least(v, S), Least(w, S)
    PROVE  v = w
<1>1. v \in Nat /\ w \in Nat
  BY IndexAssumption DEF Least
<1>2. v =< w /\ w =< v
  BY DEF Least
<1> QED BY <1>1, <1>2

\* The steps of the merge walk the indexes they loaded, and the word whose
\* items are being merged stays the next one of both.
LEMMA MergeTodo == ASSUME TypeOK, TodoKnown, Merge PROVE TodoKnown'
<1> USE DEF memory, locals, files, history
<1>1. CASE LoadWordIndexes
  BY <1>1 DEF LoadWordIndexes, TodoKnown, TypeOK
<1>2. ASSUME NEW f \in {"main", "temp"}, NEW g \in {"main", "temp"},
             NEW w \in Words, ZipCopy(f, g, w)
      PROVE  TodoKnown'
  BY <1>2 DEF ZipCopy, TodoKnown, TypeOK, Pair
<1>3. ASSUME NEW w \in Words, ZipBoth(w) PROVE TodoKnown'
  <2>1. /\ pc = "zip" /\ pc' = "zip_docs" /\ NextWord(w)
        /\ w \in todo["main"] \cap todo["temp"]
        /\ UNCHANGED <<todo, wordPos>>
    BY <1>3 DEF ZipBoth
  <2>2. todo["main"] \cup todo["temp"] \in SUBSET Words
    BY DEF TypeOK, Pair
  <2>3. ASSUME NEW v \in Words, NextWord(v) PROVE v = w
    BY <2>1, <2>2, <2>3, LeastUnique DEF NextWord
  <2>4. NextWord(w)' = NextWord(w) /\ \A v \in Words : NextWord(v)' = NextWord(v)
    BY <2>1 DEF NextWord, Least
  <2> QED BY <2>1, <2>3, <2>4 DEF TodoKnown
<1>4. ASSUME NEW f \in {"main", "temp"}, pc = "zip_docs", Take(f)
      PROVE  TodoKnown'
  BY <1>4 DEF Take, TodoKnown, NextWord, Least
<1>5. ASSUME NEW w \in Words, ZipItem(w) PROVE TodoKnown'
  BY <1>5 DEF ZipItem, TodoKnown, TypeOK, Pair
<1>6. CASE ZipDone
  BY <1>6 DEF ZipDone, ZipFinished, TodoKnown
<1> QED
  BY <1>1, <1>2, <1>3, <1>4, <1>5, <1>6 DEF Merge, TakeTemp, TakeMain

\* Every step keeps the words still to reach inside the index walked.
LEMMA NextTodo == ASSUME TypeOK, TodoKnown, [Next]_vars PROVE TodoKnown'
<1> USE DEF memory, locals, files, history
<1>1. ASSUME NEW d \in Docs, NEW c \in Contents, AddDoc(d, c) PROVE TodoKnown'
  BY <1>1 DEF AddDoc, TodoKnown
<1>2. CASE SaveIndex
  BY <1>2 DEF SaveIndex, TodoKnown
<1>3. CASE Save
  <2>1. CASE SaveOpen
    BY <2>1 DEF SaveOpen, TodoKnown, TypeOK, Pair
  <2>2. ASSUME NEW w \in Words, NEW d \in Docs, SavePosting(w, d)
        PROVE  TodoKnown'
    BY <2>2 DEF SavePosting, TodoKnown
  <2>3. ASSUME NEW w \in Words, SaveItem(w) PROVE TodoKnown'
    BY <2>3 DEF SaveItem, TodoKnown, TypeOK, Pair
  <2>4. CASE SaveClose \/ SaveTempWords
    BY <2>4 DEF SaveClose, SaveTempWords, TodoKnown
  <2> QED BY <1>3, <2>1, <2>2, <2>3, <2>4 DEF Save
<1>4. CASE Merge
  BY <1>4, MergeTodo
<1>5. CASE Install
  BY <1>5 DEF Install, SaveMainWords, RemoveDoc, RenameDoc, RemovePos,
              RenamePos, Clean, TodoKnown
<1>6. CASE Initialize \/ Restart
  BY <1>6 DEF Initialize, Restart, TodoKnown
<1>7. ASSUME Die PROVE TodoKnown'
  BY <1>7 DEF Die, TodoKnown
<1>8. CASE FileFault
  BY <1>8 DEF FileFault, SaveOpenFails, SaveTempWordsFails, SaveMainWordsFails,
              ZipFinished, RenameDocFails, RenamePosFails, TodoKnown
<1>9. CASE UNCHANGED vars
  BY <1>9 DEF vars, TodoKnown, NextWord, Least
<1> QED
  BY <1>1, <1>2, <1>3, <1>4, <1>5, <1>6, <1>7, <1>8, <1>9
     DEF Next, Progress, Crash, MergeAbort, ZipFault

\* Every variable always keeps its type, and a loop never reaches for a word
\* that is not in the index it walks.
THEOREM TypeCorrect == Spec => [](TypeOK /\ TodoKnown)
<1>1. Init => TypeOK /\ TodoKnown
  BY InitType DEF Init, TodoKnown
<1>2. TypeOK /\ TodoKnown /\ [Next]_vars => (TypeOK /\ TodoKnown)'
  BY NextType, NextTodo
<1> QED BY <1>1, <1>2, PTL DEF Spec

-----------------------------------------------------------------------------
(* Sorted postings.                                                        *)

FileSorted(file) == \A o \in DOMAIN file.recs : Sorted(file.recs[o].docs)

\* Appending something that is not below anything keeps a list sorted.
LEMMA SortedAppend ==
    ASSUME NEW s \in Seq(Docs), NEW x \in Docs, Sorted(s),
           \A i \in DOMAIN s : s[i] =< x
    PROVE  Sorted(Append(s, x))
<1> DEFINE t == Append(s, x)
<1>1. /\ Len(s) \in Nat /\ DOMAIN s = 1 .. Len(s)
      /\ DOMAIN t = 1 .. Len(s) + 1
      /\ \A i \in 1 .. Len(s) : t[i] = s[i]
      /\ t[Len(s) + 1] = x
  OBVIOUS
<1>2. x =< x
  BY IndexAssumption
<1> HIDE DEF t
<1>3. ASSUME NEW i \in DOMAIN t, NEW j \in DOMAIN t, i < j PROVE t[i] =< t[j]
  <2>1. i \in 1 .. Len(s)
    BY <1>1, <1>3
  <2>2. CASE j \in 1 .. Len(s)
    BY <1>1, <1>3, <2>1, <2>2 DEF Sorted
  <2>3. CASE j = Len(s) + 1
    BY <1>1, <2>1, <2>3
  <2> QED BY <1>1, <2>2, <2>3
<1> QED BY <1>3 DEF Sorted, t

\* The empty item is sorted.
LEMMA NoItemSorted == Sorted(NoItem.docs) /\ DOMAIN NoItem.docs = {}
BY DEF Sorted, NoItem

\* Writing a sorted item to a sorted file leaves it sorted.
LEMMA WriteSorted ==
    ASSUME NEW file, NEW e, NEW n, FileSorted(file), Sorted(e.docs)
    PROVE  FileSorted(WriteRec(file, e, n))
BY DEF FileSorted, WriteRec, Put

\* An empty file is sorted.
LEMMA EmptySorted == FileSorted(EmptyFile)
BY DEF FileSorted, EmptyFile, Nothing

\* Whatever is read from a sorted file is sorted.
LEMMA ReadSorted ==
    ASSUME NEW file, NEW off, FileSorted(file)
    PROVE  Sorted(ItemAt(file, off).docs)
BY NoItemSorted DEF FileSorted, ItemAt

\* A state with no item being assembled and sorted files is sorted.
LEMMA SortedIdle ==
    ASSUME PostingsSorted', vec' = NoItem, pc' \notin {"save", "zip_docs"}
    PROVE  SortedInv'
BY DEF SortedInv, SaveSorted, ZipSorted

\* The save of the temp index assembles and writes sorted items.
LEMMA SaveKeepsSorted ==
    ASSUME TypeOK, TodoKnown, SortedInv, Save
    PROVE  SortedInv'
<1> USE DEF memory, locals, files, history
<1>1. CASE SaveOpen
  <2>1. PostingsSorted'
    BY <1>1, EmptySorted
       DEF SaveOpen, SortedInv, PostingsSorted, FileSorted, TypeOK
  <2>2. vec' = NoItem /\ pc' = "save"
    BY <1>1 DEF SaveOpen, SortedInv
  <2> QED BY <2>1, <2>2, NoItemSorted DEF SortedInv, SaveSorted, ZipSorted
<1>2. ASSUME NEW w \in Words, NEW d \in Docs, SavePosting(w, d)
      PROVE  SortedInv'
  <2>1. /\ pc = "save" /\ pc' = "save" /\ UNCHANGED <<todo, m_words, docFile>>
        /\ Least(w, todo["temp"]) /\ Least(d, Unsaved(w))
        /\ vec'.docs = Append(vec.docs, d)
    BY <1>2 DEF SavePosting
  <2>2. /\ vec.docs \in Seq(Docs) /\ w \in todo["temp"]
        /\ todo["temp"] \in SUBSET Words
    BY <2>1 DEF TypeOK, Items, Least, Pair
  <2>3. \A i \in DOMAIN vec.docs : vec.docs[i] =< d
    BY <2>1, <2>2 DEF SortedInv, SaveSorted, Least
  <2>4. Sorted(vec'.docs)
    BY <2>1, <2>2, <2>3, SortedAppend DEF SortedInv, SaveSorted
  <2>5. ASSUME NEW v \in todo["temp"]', NEW i \in DOMAIN vec'.docs,
               Least(v, todo["temp"])', NEW x \in Unsaved(v)'
        PROVE  vec'.docs[i] =< x
    <3>1. Least(v, todo["temp"])
      BY <2>1, <2>5 DEF Least
    <3>2. v = w
      BY <2>1, <2>2, <3>1, LeastUnique
    <3>3. /\ Range(vec'.docs) = Range(vec.docs) \cup {d}
          /\ \A k \in DOMAIN vec'.docs :
                vec'.docs[k] = d \/ (k \in DOMAIN vec.docs
                                        /\ vec'.docs[k] = vec.docs[k])
      BY <2>1, <2>2 DEF Range
    <3>4. x \in Unsaved(w)
      BY <2>1, <3>2, <3>3 DEF Unsaved
    <3>5. d =< x
      BY <2>1, <3>4 DEF Least
    <3>6. \A k \in DOMAIN vec.docs : vec.docs[k] =< x
      BY <2>1, <2>2, <3>4 DEF SortedInv, SaveSorted
    <3> QED BY <3>3, <3>5, <3>6
  <2>6. PostingsSorted' /\ todo["temp"]' # {}
    BY <2>1, <2>2 DEF SortedInv, PostingsSorted
  <2> QED BY <2>1, <2>4, <2>5, <2>6 DEF SortedInv, SaveSorted, ZipSorted
<1>3. ASSUME NEW w \in Words, SaveItem(w) PROVE SortedInv'
  <2>1. /\ pc = "save" /\ pc' = "save" /\ vec' = NoItem
        /\ docFile' = [docFile EXCEPT !["temp"] =
                          WriteRec(@, vec, ItemSize(vec))]
    BY <1>3 DEF SaveItem
  <2>2. FileSorted(WriteRec(docFile["temp"], vec, ItemSize(vec)))
    BY <2>1, WriteSorted
       DEF SortedInv, SaveSorted, PostingsSorted, FileSorted
  <2>3. PostingsSorted'
    BY <2>1, <2>2 DEF SortedInv, PostingsSorted, FileSorted, TypeOK
  <2> QED BY <2>1, <2>3, NoItemSorted DEF SortedInv, SaveSorted, ZipSorted
<1>4. CASE SaveClose
  BY <1>4, SortedIdle DEF SaveClose, SortedInv, SaveSorted, PostingsSorted
<1>5. CASE SaveTempWords
  BY <1>5, SortedIdle DEF SaveTempWords, SortedInv, PostingsSorted
<1> QED BY <1>1, <1>2, <1>3, <1>4, <1>5 DEF Save

\* Copying a word's item keeps the middle file sorted.
LEMMA ZipCopySorted ==
    ASSUME TypeOK, SortedInv,
           NEW f \in {"main", "temp"}, NEW g \in {"main", "temp"},
           NEW w \in Words, ZipCopy(f, g, w)
    PROVE  SortedInv'
<1> DEFINE e == ItemAt(docFile[f], docCur[f])
           moved == [e EXCEPT !.offs = Rebase(e.offs, posFile["mid"].len)]
<1>1. /\ pc = "zip" /\ pc' = "zip" /\ vec' = vec
      /\ docFile' = [docFile EXCEPT !["mid"] =
                        WriteRec(docFile["mid"], moved, ItemSize(moved))]
  BY DEF ZipCopy
<1>2. e \in Items
  BY ReadBoth
<1>3. moved.docs = e.docs
  BY <1>2 DEF Items
<1>4. Sorted(moved.docs)
  BY <1>3, ReadSorted DEF SortedInv, PostingsSorted, FileSorted
<1> HIDE DEF e, moved
<1>5. FileSorted(WriteRec(docFile["mid"], moved, ItemSize(moved)))
  BY <1>4, WriteSorted DEF SortedInv, PostingsSorted, FileSorted
<1>6. PostingsSorted'
  BY <1>1, <1>5 DEF SortedInv, PostingsSorted, FileSorted, TypeOK
<1> QED BY <1>1, <1>6, SortedIdle DEF SortedInv

\* Taking the smaller of the two next postings keeps the item sorted and
\* not above what is left of both.
LEMMA TakeSorted ==
    ASSUME TypeOK, SortedInv, pc = "zip_docs",
           NEW f \in {"main", "temp"}, NEW g \in {"main", "temp"}, f # g,
           More(f), More(g) => NextDoc(f) =< NextDoc(g), Take(f)
    PROVE  SortedInv'
<1> DEFINE n == at[f] + 1
           d == item[f].docs[n]
<1>1. /\ vec'.docs = Append(vec.docs, d)
      /\ at' = [at EXCEPT ![f] = n]
      /\ UNCHANGED <<pc, item, docFile>>
  BY DEF Take, files
<1>2. /\ vec.docs \in Seq(Docs) /\ at[f] \in Nat /\ at[g] \in Nat
      /\ item[f].docs \in Seq(Docs) /\ item[g].docs \in Seq(Docs)
      /\ at \in [{"main", "temp"} -> Nat]
  BY DEF TypeOK, Pair, Items
<1>3. n \in DOMAIN item[f].docs /\ n \in Nat /\ n > at[f] /\ d \in Docs
  BY <1>2 DEF More
<1>4. \A i \in DOMAIN vec.docs : vec.docs[i] =< d
  BY <1>2, <1>3 DEF SortedInv, ZipSorted
<1>5. Sorted(vec'.docs)
  BY <1>1, <1>2, <1>3, <1>4, SortedAppend DEF SortedInv, ZipSorted
<1>6. \A k \in DOMAIN vec'.docs :
         vec'.docs[k] = d \/ (k \in DOMAIN vec.docs /\ vec'.docs[k] = vec.docs[k])
  BY <1>1, <1>2, <1>3
<1>7. ASSUME NEW j \in DOMAIN item[f].docs, j > n
      PROVE  \A k \in DOMAIN vec'.docs : vec'.docs[k] =< item[f].docs[j]
  <2>1. d =< item[f].docs[j]
    BY <1>3, <1>7 DEF SortedInv, ZipSorted, Sorted
  <2>2. j > at[f]
    BY <1>2, <1>3, <1>7
  <2>3. \A k \in DOMAIN vec.docs : vec.docs[k] =< item[f].docs[j]
    BY <2>2 DEF SortedInv, ZipSorted
  <2> QED BY <1>6, <2>1, <2>3
<1>8. ASSUME NEW j \in DOMAIN item[g].docs, j > at[g]
      PROVE  \A k \in DOMAIN vec'.docs : vec'.docs[k] =< item[g].docs[j]
  <2>1. j \in Nat /\ j =< Len(item[g].docs)
    BY <1>2
  <2>2. More(g) /\ at[g] + 1 \in DOMAIN item[g].docs
    BY <1>2, <1>8, <2>1 DEF More
  <2>3. d =< item[g].docs[at[g] + 1]
    BY <2>2 DEF NextDoc
  <2>4. /\ item[g].docs[at[g] + 1] \in Nat /\ item[g].docs[j] \in Nat
        /\ d \in Nat
    <3>1. \A k \in DOMAIN item[g].docs : item[g].docs[k] \in Docs
      BY <1>2
    <3> HIDE DEF d
    <3> QED BY <1>3, <2>2, <3>1, IndexAssumption
  <2>5. item[g].docs[at[g] + 1] =< item[g].docs[j]
    <3>1. CASE j = at[g] + 1
      BY <2>4, <3>1
    <3>2. CASE j # at[g] + 1
      <4>1. at[g] + 1 < j
        BY <1>2, <1>8, <2>1, <3>2
      <4> QED BY <4>1, <2>2 DEF SortedInv, ZipSorted, Sorted
    <3> QED BY <3>1, <3>2
  <2>6. d =< item[g].docs[j]
    BY <2>3, <2>4, <2>5
  <2>7. \A k \in DOMAIN vec.docs : vec.docs[k] =< item[g].docs[j]
    BY <1>8 DEF SortedInv, ZipSorted
  <2> QED BY <1>6, <2>6, <2>7
<1>9. at'[f] = n /\ at'[g] = at[g]
  BY <1>1, <1>2
<1>10. ZipSorted'
  <2>1. Sorted(item[f].docs) /\ Sorted(item[g].docs)
    BY DEF SortedInv, ZipSorted
  <2> HIDE DEF n, d
  <2> QED BY <1>1, <1>5, <1>7, <1>8, <1>9, <2>1 DEF ZipSorted
<1> QED BY <1>1, <1>10 DEF SortedInv, SaveSorted, PostingsSorted

\* The next document of an index that has more is a number.
LEMMA NextDocNat ==
    ASSUME TypeOK, NEW f \in {"main", "temp"}, More(f)
    PROVE  NextDoc(f) \in Nat
<1>1. item[f].docs \in Seq(Docs) /\ at[f] \in Nat
  BY DEF TypeOK, Pair, Items
<1>2. item[f].docs[at[f] + 1] \in Docs
  BY <1>1 DEF More
<1> QED BY <1>2, IndexAssumption DEF NextDoc

\* The merge of two sorted indexes writes a sorted one.
LEMMA MergeKeepsSorted ==
    ASSUME TypeOK, TodoKnown, SortedInv, Merge
    PROVE  SortedInv'
<1>1. CASE LoadWordIndexes
  <2>1. PostingsSorted'
    BY <1>1, EmptySorted
       DEF LoadWordIndexes, SortedInv, PostingsSorted, FileSorted, TypeOK
  <2> QED BY <1>1, <2>1, SortedIdle DEF LoadWordIndexes, SortedInv
<1>2. ASSUME NEW f \in {"main", "temp"}, NEW g \in {"main", "temp"},
             NEW w \in Words, ZipCopy(f, g, w)
      PROVE  SortedInv'
  BY <1>2, ZipCopySorted
<1>3. ASSUME NEW w \in Words, ZipBoth(w) PROVE SortedInv'
  <2>1. /\ pc' = "zip_docs" /\ vec' = NoItem /\ docFile' = docFile
        /\ \A f \in {"main", "temp"} :
              item'[f] = ItemAt(docFile[f], docCur[f])
    BY <1>3 DEF ZipBoth
  <2>2. \A f \in {"main", "temp"} : Sorted(item'[f].docs)
    BY <2>1, ReadSorted DEF SortedInv, PostingsSorted, FileSorted
  <2>3. PostingsSorted'
    BY <2>1 DEF SortedInv, PostingsSorted
  <2> QED BY <2>1, <2>2, <2>3, NoItemSorted DEF SortedInv, SaveSorted, ZipSorted
<1>4. CASE TakeTemp
  <2>1. More("main") => NextDoc("temp") =< NextDoc("main")
    <3> SUFFICES ASSUME More("main") PROVE NextDoc("temp") =< NextDoc("main")
      OBVIOUS
    <3>1. NextDoc("temp") \in Nat /\ NextDoc("main") \in Nat
      BY <1>4, NextDocNat DEF TakeTemp
    <3> QED BY <1>4, <3>1 DEF TakeTemp
  <2> QED BY <1>4, <2>1, TakeSorted DEF TakeTemp
<1>5. CASE TakeMain
  <2>1. More("temp") => NextDoc("main") =< NextDoc("temp")
    <3> SUFFICES ASSUME More("temp") PROVE NextDoc("main") =< NextDoc("temp")
      OBVIOUS
    <3>1. NextDoc("temp") \in Nat /\ NextDoc("main") \in Nat
      BY <1>5, NextDocNat DEF TakeMain
    <3> QED BY <1>5, <3>1 DEF TakeMain
  <2> QED BY <1>5, <2>1, TakeSorted DEF TakeMain
<1>6. ASSUME NEW w \in Words, ZipItem(w) PROVE SortedInv'
  <2>1. /\ pc = "zip_docs" /\ pc' = "zip" /\ vec' = NoItem
        /\ docFile' = [docFile EXCEPT !["mid"] =
                          WriteRec(docFile["mid"], vec, ItemSize(vec))]
    BY <1>6 DEF ZipItem
  <2>2. FileSorted(WriteRec(docFile["mid"], vec, ItemSize(vec)))
    BY <2>1, WriteSorted DEF SortedInv, ZipSorted, PostingsSorted, FileSorted
  <2>3. PostingsSorted'
    BY <2>1, <2>2 DEF SortedInv, PostingsSorted, FileSorted, TypeOK
  <2> QED BY <2>1, <2>3, SortedIdle
<1>7. CASE ZipDone
  BY <1>7, SortedIdle DEF ZipDone, ZipFinished, SortedInv, PostingsSorted
<1> QED
  BY <1>1, <1>2, <1>3, <1>4, <1>5, <1>6, <1>7 DEF Merge

\* Every step keeps the files and the item being assembled sorted.
LEMMA NextSorted ==
    ASSUME TypeOK, TodoKnown, SortedInv, [Next]_vars
    PROVE  SortedInv'
<1> USE DEF memory, locals, files, history
<1>1. ASSUME NEW d \in Docs, NEW c \in Contents, AddDoc(d, c) PROVE SortedInv'
  BY <1>1, SortedIdle DEF AddDoc, SortedInv, PostingsSorted
<1>2. CASE SaveIndex
  BY <1>2, SortedIdle DEF SaveIndex, SortedInv, PostingsSorted
<1>3. CASE Save
  BY <1>3, SaveKeepsSorted
<1>4. CASE Merge
  BY <1>4, MergeKeepsSorted
<1>5. CASE Install
  <2>1. pc \notin {"save", "zip_docs"} /\ pc' \notin {"save", "zip_docs"} /\ vec' = vec
    BY <1>5 DEF Install, SaveMainWords, RemoveDoc, RenameDoc, RemovePos,
                RenamePos, Clean
  <2>2. PostingsSorted'
    <3>1. CASE SaveMainWords \/ RemovePos \/ RenamePos
      BY <3>1 DEF SaveMainWords, RemovePos, RenamePos, SortedInv, PostingsSorted
    <3>2. CASE RemoveDoc \/ RenameDoc \/ Clean
      BY <3>2, EmptySorted
         DEF RemoveDoc, RenameDoc, Clean, SortedInv, PostingsSorted,
             FileSorted, TypeOK
    <3> QED BY <1>5, <3>1, <3>2 DEF Install
  <2> QED BY <2>1, <2>2, SortedIdle DEF SortedInv
<1>6. CASE Initialize \/ Restart
  BY <1>6, SortedIdle DEF Initialize, Restart, SortedInv, PostingsSorted
<1>7. ASSUME Die PROVE SortedInv'
  BY <1>7, SortedIdle DEF Die, SortedInv, PostingsSorted
<1>8. CASE FileFault
  <2>1. pc \notin {"save", "zip_docs"} /\ pc' \notin {"save", "zip_docs"} /\ vec' = vec
    BY <1>8 DEF FileFault, SaveOpenFails, SaveTempWordsFails,
                SaveMainWordsFails, ZipFinished, RenameDocFails, RenamePosFails
  <2>2. docFile' = docFile \/ docFile' = [docFile EXCEPT !["temp"] = EmptyFile]
    BY <1>8 DEF FileFault, SaveOpenFails, SaveTempWordsFails,
                SaveMainWordsFails, ZipFinished, RenameDocFails, RenamePosFails
  <2>3. PostingsSorted'
    BY <2>2, EmptySorted DEF SortedInv, PostingsSorted, FileSorted, TypeOK
  <2> QED BY <2>1, <2>3, SortedIdle DEF SortedInv
<1>9. CASE UNCHANGED vars
  BY <1>9 DEF vars, SortedInv, PostingsSorted, SaveSorted, ZipSorted, Least,
              Unsaved
<1> QED
  BY <1>1, <1>2, <1>3, <1>4, <1>5, <1>6, <1>7, <1>8, <1>9
     DEF Next, Progress, Crash, MergeAbort, ZipFault

\* The document ids of every item in every document file are always in
\* ascending order, as the binary search of get_doc_word_count requires.
THEOREM SortedPostings == Spec => []PostingsSorted
<1>1. Init => SortedInv
  BY NoItemSorted, EmptySorted
     DEF Init, NoLocals, SortedInv, PostingsSorted, FileSorted, SaveSorted,
         ZipSorted
<1>2. TypeOK /\ TodoKnown /\ SortedInv /\ [Next]_vars => SortedInv'
  BY NextSorted
<1>3. SortedInv => PostingsSorted
  BY DEF SortedInv
<1> QED BY <1>1, <1>2, <1>3, TypeCorrect, PTL DEF Spec

-----------------------------------------------------------------------------
(***************************************************************************)
(* Tiling: what the word indexes address.                                  *)
(***************************************************************************)

-----------------------------------------------------------------------------
(* The invariant.                                                          *)

\* Every record starts before the end of its file.
Behind(file) == \A o \in DOMAIN file.recs : o < file.len

\* The counts of an index are those of the items it addresses.
Counted(index, file) ==
    \A w \in DOMAIN index :
        index[w].doc_count = Len(file.recs[index[w].start_offset].docs)

\* Tiled without the end of the file: what reading front to back needs.
Walked(index, file) ==
    /\ \A w \in DOMAIN index :
          /\ index[w].start_offset \in DOMAIN file.recs
          /\ index[w].end_offset =
                index[w].start_offset
                + ItemSize(file.recs[index[w].start_offset])
          /\ Least(w, DOMAIN index) => index[w].start_offset = 0
    /\ \A v, w \in DOMAIN index :
          (v < w /\ \A u \in DOMAIN index : u =< v \/ u >= w)
              => index[v].end_offset = index[w].start_offset

\* Whatever is in S comes before whatever is in T.
Precede(S, T) == \A v \in S, w \in T : v < w

Todo == todo["main"] \cup todo["temp"]

\* save_index writes temp's item after item; temp's word index was empty
\* before, and describes nothing but what is in the file when it is loaded.
SaveTiles ==
    /\ pc \in {"crawl", "save_open", "down"} => wordPos["temp"] = Nothing
    /\ pc \in {"save", "save_words"} =>
          /\ Tiled(wordPos["temp"], docFile["temp"])
          /\ Counted(wordPos["temp"], docFile["temp"])
    /\ pc = "save" => Precede(DOMAIN wordPos["temp"], todo["temp"])
    /\ pc = "load" /\ ~torn =>
          /\ Walked(wordFile["temp"], docFile["temp"])
          /\ Counted(wordFile["temp"], docFile["temp"])

\* The read position of index f is at the item of its next word, or behind
\* it while the item is being merged.
CursorAt(f) ==
    /\ Walked(wordPos[f], docFile[f])
    /\ Counted(wordPos[f], docFile[f])
    /\ Precede(DOMAIN wordPos[f] \ todo[f], todo[f])
    /\ pc = "zip" =>
          \A w \in Words :
              Least(w, todo[f]) => docCur[f] = wordPos[f][w].start_offset
    /\ pc = "zip_docs" =>
          \A w \in Words : NextWord(w) =>
              /\ docCur[f] = wordPos[f][w].end_offset
              /\ Len(item[f].docs) = wordPos[f][w].doc_count

\* zipper_merge writes the middle file item after item, in any case; what
\* the items hold is right if the files it reads agree.
ZipTiles ==
    pc \in {"zip", "zip_docs"} =>
        /\ Tiled(outIndex, docFile["mid"])
        /\ Precede(DOMAIN outIndex, Todo)
        /\ ~torn =>
              /\ Counted(outIndex, docFile["mid"])
              /\ CursorAt("main")
              /\ CursorAt("temp")

\* The item being assembled has as many postings as were taken.
TakenAll ==
    pc = "zip_docs" =>
        /\ at["main"] =< Len(item["main"].docs)
        /\ at["temp"] =< Len(item["temp"].docs)
        /\ Len(vec.docs) = at["main"] + at["temp"]

\* In the window the new word index belongs to the middle file.
InstallTiles ==
    /\ pc = "main_words" =>
          /\ Tiled(wordPos["main"], docFile["mid"])
          /\ ~torn => Counted(wordPos["main"], docFile["mid"])
    /\ pc \in {"rm_doc", "mv_doc"} =>
          /\ ~torn \/ faults = 0 => Tiled(wordFile["main"], docFile["mid"])
          /\ ~torn => Counted(wordFile["main"], docFile["mid"])

\* Outside of it to main's.
MainTiles ==
    /\ ~torn /\ pc \notin Window =>
          /\ Tiled(wordFile["main"], docFile["main"])
          /\ Counted(wordFile["main"], docFile["main"])
    /\ pc \in {"rm_pos", "mv_pos", "clean", "init"} /\ faults = 0 =>
          Tiled(wordFile["main"], docFile["main"])

TileInv ==
    /\ \A f \in {"main", "temp", "mid"} : Behind(docFile[f])
    /\ SaveTiles
    /\ ZipTiles
    /\ TakenAll
    /\ InstallTiles
    /\ MainTiles
    /\ ServedTiled

-----------------------------------------------------------------------------
(* Words and items.                                                        *)

\* Numbers have a least one.
LEMMA LeastExists ==
    ASSUME NEW S \in SUBSET Words, S # {}
    PROVE  \E x \in S : Least(x, S)
<1>1. IsWellFoundedOn({ss \in Nat \X Nat : ss[1] < ss[2]}, Nat)
  BY NatLessThanWellFounded DEF OpToRel
<1>2. S \subseteq Nat  BY IndexAssumption
<1>3. PICK x \in S :
         \A y \in S : <<y, x>> \notin {ss \in Nat \X Nat : ss[1] < ss[2]}
  BY <1>1, <1>2, WFMin
<1>4. ASSUME NEW y \in S PROVE x =< y
  <2>1. <<y, x>> \in Nat \X Nat  BY <1>2
  <2>2. ~ (y < x)  BY <1>3, <2>1
  <2> QED BY <1>2, <2>2
<1> QED BY <1>4 DEF Least

\* Items are not empty records: a file grows with every one.
LEMMA ItemSizePositive == \A e \in Items : ItemSize(e) \in Nat \ {0}
<1> SUFFICES ASSUME NEW e \in Items PROVE ItemSize(e) \in Nat \ {0}
  OBVIOUS
<1>1. Len(e.docs) \in Nat /\ (IdBytes + 8) \in Nat  BY IndexAssumption DEF Items
<1>2. (IdBytes + 8) * Len(e.docs) \in Nat  BY <1>1
<1> QED BY <1>2 DEF ItemSize

\* The end of a file is no start of a record, before and after a write.
LEMMA WriteBehind ==
    ASSUME NEW file, IsFile(file, Items), Behind(file), NEW e \in Items
    PROVE  /\ Behind(WriteRec(file, e, ItemSize(e)))
           /\ file.len \notin DOMAIN file.recs
<1>1. ItemSize(e) \in Nat \ {0} /\ file.len \in Nat /\ DOMAIN file.recs \subseteq Nat
  BY ItemSizePositive DEF IsFile, IsPartial
<1>2. \A o \in DOMAIN file.recs : o < file.len + ItemSize(e)
  BY <1>1 DEF Behind
<1> QED BY <1>1, <1>2 DEF Behind, WriteRec, Put

\* The empty index and the empty file.
LEMMA NothingTiled ==
    /\ Tiled(Nothing, EmptyFile)
    /\ Behind(EmptyFile)
    /\ \A file : Walked(Nothing, file) /\ Counted(Nothing, file)
BY DEF Tiled, Walked, Counted, Behind, Nothing, EmptyFile

\* A tiling can be walked.
LEMMA TiledWalked ==
    ASSUME NEW index, NEW file, Tiled(index, file)
    PROVE  Walked(index, file)
BY DEF Tiled, Walked

\* An item written behind a tiling for a word above all others.
LEMMA WriteTiled ==
    ASSUME NEW index, IsWordIndex(index), NEW file, IsFile(file, Items),
           Behind(file), Tiled(index, file),
           NEW w \in Words, \A v \in DOMAIN index : v < w,
           NEW e \in Items, NEW n \in Nat
    PROVE  LET new == WriteRec(file, e, ItemSize(e))
               t == [doc_count |-> n, start_offset |-> file.len,
                     end_offset |-> new.len]
           IN  /\ Tiled(Put(index, w, t), new)
               /\ Counted(index, file) /\ n = Len(e.docs) =>
                     Counted(Put(index, w, t), new)
<1> DEFINE new == WriteRec(file, e, ItemSize(e))
           t == [doc_count |-> n, start_offset |-> file.len,
                 end_offset |-> new.len]
           ix == Put(index, w, t)
<1>1. /\ DOMAIN index \subseteq Words
      /\ DOMAIN ix = DOMAIN index \cup {w}
      /\ \A v \in DOMAIN index : ix[v] = index[v] /\ v # w
      /\ ix[w] = t
  <2>1. w \notin DOMAIN index  BY IndexAssumption
  <2> QED BY <2>1 DEF IsWordIndex, IsPartial, Put
<1>2. /\ DOMAIN new.recs = DOMAIN file.recs \cup {file.len}
      /\ \A o \in DOMAIN file.recs : new.recs[o] = file.recs[o]
      /\ new.recs[file.len] = e
      /\ new.len = file.len + ItemSize(e)
  BY WriteBehind DEF WriteRec, Put
<1>3. /\ t.doc_count = n /\ t.start_offset = file.len /\ t.end_offset = new.len
  OBVIOUS
<1>4. \A v \in DOMAIN index : v \in Nat /\ w \in Nat /\ v < w
  BY <1>1, IndexAssumption
<1>5. w \in Nat  BY IndexAssumption
<1> HIDE DEF new, t, ix
<1>6. ASSUME NEW v \in DOMAIN ix
      PROVE  /\ ix[v].start_offset \in DOMAIN new.recs
             /\ ix[v].end_offset =
                   ix[v].start_offset + ItemSize(new.recs[ix[v].start_offset])
             /\ Least(v, DOMAIN ix) => ix[v].start_offset = 0
             /\ (\A u \in DOMAIN ix : u =< v) => ix[v].end_offset = new.len
  <2>1. CASE v \in DOMAIN index
    <3>1. /\ index[v].start_offset \in DOMAIN file.recs
          /\ index[v].end_offset = index[v].start_offset
                + ItemSize(file.recs[index[v].start_offset])
      BY <2>1 DEF Tiled
    <3>2. ~ (\A u \in DOMAIN ix : u =< v)  BY <1>1, <1>4, <2>1
    <3>3. Least(v, DOMAIN ix) => Least(v, DOMAIN index)
      BY <1>1, <2>1 DEF Least
    <3>4. Least(v, DOMAIN index) => index[v].start_offset = 0
      BY <2>1 DEF Tiled
    <3> QED BY <1>1, <1>2, <2>1, <3>1, <3>2, <3>3, <3>4
  <2>2. CASE v = w
    <3>1. Least(w, DOMAIN ix) => file.len = 0
      <4>1. ASSUME Least(w, DOMAIN ix) PROVE DOMAIN index = {}
        BY <1>1, <1>4, <4>1 DEF Least
      <4> QED BY <4>1 DEF Tiled
    <3> QED BY <1>1, <1>2, <1>3, <2>2, <3>1
  <2> QED BY <1>1, <2>1, <2>2
<1>7. ASSUME NEW u \in DOMAIN ix, NEW v \in DOMAIN ix,
             u < v, \A x \in DOMAIN ix : x =< u \/ x >= v
      PROVE  ix[u].end_offset = ix[v].start_offset
  <2>1. u \in DOMAIN index
    <3>1. CASE u = w  BY <1>1, <1>4, <1>5, <1>7, <3>1
    <3> QED BY <1>1, <3>1
  <2>2. CASE v = w
    <3>1. \A x \in DOMAIN index : x =< u
      BY <1>1, <1>4, <1>7, <2>2
    <3>2. index[u].end_offset = file.len  BY <2>1, <3>1 DEF Tiled
    <3> QED BY <1>1, <1>3, <2>1, <2>2, <3>2
  <2>3. CASE v \in DOMAIN index
    <3>1. \A x \in DOMAIN index : x =< u \/ x >= v  BY <1>1, <1>7
    <3>2. index[u].end_offset = index[v].start_offset
      BY <1>7, <2>1, <2>3, <3>1 DEF Tiled
    <3> QED BY <1>1, <2>1, <2>3, <3>2
  <2> QED BY <1>1, <2>2, <2>3
<1>8. Tiled(ix, new)
  <2>1. DOMAIN ix # {}  BY <1>1
  <2> QED BY <1>6, <1>7, <2>1 DEF Tiled
<1>9. ASSUME Counted(index, file), n = Len(e.docs) PROVE Counted(ix, new)
  <2>1. ASSUME NEW v \in DOMAIN ix
        PROVE  ix[v].doc_count = Len(new.recs[ix[v].start_offset].docs)
    <3>1. CASE v \in DOMAIN index
      <4>1. index[v].start_offset \in DOMAIN file.recs  BY <3>1 DEF Tiled
      <4> QED BY <1>1, <1>2, <1>9, <3>1, <4>1 DEF Counted
    <3>2. CASE v = w  BY <1>1, <1>2, <1>3, <1>9, <3>2
    <3> QED BY <1>1, <3>1, <3>2
  <2> QED BY <2>1 DEF Counted
<1> QED BY <1>8, <1>9 DEF new, t, ix

\* What an index addresses is what reading there finds, and how far it goes.
LEMMA WalkedReads ==
    ASSUME NEW index, NEW file, Walked(index, file), Counted(index, file),
           NEW w \in DOMAIN index
    PROVE  LET off == index[w].start_offset
           IN  /\ off \in DOMAIN file.recs
               /\ off + ItemStep(file, off) = index[w].end_offset
               /\ Len(ItemAt(file, off).docs) = index[w].doc_count
BY DEF Walked, Counted, ItemStep, ItemAt

\* The item behind that of a word that is done is that of the next one.
LEMMA NextItem ==
    ASSUME NEW index, IsWordIndex(index), NEW file, Walked(index, file),
           NEW left \in SUBSET DOMAIN index,
           Precede(DOMAIN index \ left, left),
           NEW w, Least(w, left), NEW v, Least(v, left \ {w})
    PROVE  /\ index[w].end_offset = index[v].start_offset
           /\ Precede(DOMAIN index \ (left \ {w}), left \ {w})
<1>1. DOMAIN index \subseteq Nat
  BY IndexAssumption DEF IsWordIndex, IsPartial
<1>2. w \in DOMAIN index /\ v \in DOMAIN index /\ w < v
  BY <1>1 DEF Least
<1>3. ASSUME NEW u \in DOMAIN index PROVE u =< w \/ u >= v
  <2>1. CASE u \in left  BY <1>1, <1>2, <2>1 DEF Least
  <2>2. CASE u \notin left  BY <1>1, <1>2, <2>2 DEF Least, Precede
  <2> QED BY <2>1, <2>2
<1> QED BY <1>1, <1>2, <1>3 DEF Walked, Precede, Least

\* Words done, the next one included, precede the others.
LEMMA PrecedeNext ==
    ASSUME NEW S \in SUBSET Words, NEW left \in SUBSET Words,
           Precede(S, left), NEW w, Least(w, left)
    PROVE  Precede(S \cup {w}, left \ {w})
<1>1. ASSUME NEW x \in left \ {w} PROVE w < x
  BY IndexAssumption DEF Least
<1> QED BY <1>1 DEF Precede

-----------------------------------------------------------------------------
(* The loops of the merge.                                                 *)

\* The cursor of an index whose next word is done is at the one behind it.
LEMMA CursorNext ==
    ASSUME NEW f \in {"main", "temp"}, TypeOK,
           Walked(wordPos[f], docFile[f]), Counted(wordPos[f], docFile[f]),
           Precede(DOMAIN wordPos[f] \ todo[f], todo[f]),
           todo[f] \subseteq DOMAIN wordPos[f],
           NEW w, Least(w, todo[f]), pc' = "zip",
           docCur'[f] = wordPos[f][w].end_offset,
           todo'[f] = todo[f] \ {w},
           wordPos'[f] = wordPos[f], docFile'[f] = docFile[f]
    PROVE  CursorAt(f)'
<1>1. IsWordIndex(wordPos[f])  BY DEF TypeOK
<1>2. w \in DOMAIN wordPos[f] /\ w \in Words
  BY <1>1 DEF Least, IsWordIndex, IsPartial
<1>3. Precede(DOMAIN wordPos[f] \ (todo[f] \ {w}), todo[f] \ {w})
  <2>1. \A x \in todo[f] \ {w} : w < x
    BY <1>1, IndexAssumption DEF Least, IsWordIndex, IsPartial
  <2> QED BY <2>1 DEF Precede
<1>4. ASSUME NEW v \in Words, Least(v, todo[f] \ {w})
      PROVE  wordPos[f][w].end_offset = wordPos[f][v].start_offset
  <2> DEFINE left == todo[f]
             index == wordPos[f]
             file == docFile[f]
  <2>1. /\ left \in SUBSET DOMAIN index /\ IsWordIndex(index)
        /\ Walked(index, file) /\ Precede(DOMAIN index \ left, left)
        /\ Least(w, left) /\ Least(v, left \ {w})
    BY <1>1, <1>4
  <2> HIDE DEF left, index, file
  <2>2. index[w].end_offset = index[v].start_offset
    BY ZenonT(30), <2>1, NextItem
  <2> QED BY <2>2 DEF index
<1> QED BY <1>3, <1>4 DEF CursorAt

\* The cursor of an index that does not have the next word stays.
LEMMA CursorStays ==
    ASSUME NEW f \in {"main", "temp"}, CursorAt(f), pc = "zip", pc' = "zip",
           docCur'[f] = docCur[f], todo'[f] = todo[f],
           wordPos'[f] = wordPos[f], docFile'[f] = docFile[f]
    PROVE  CursorAt(f)'
BY DEF CursorAt

\* Moving a word found in one index.
LEMMA ZipCopyTiles ==
    ASSUME TypeOK, TodoKnown, TileInv,
           NEW f \in {"main", "temp"}, NEW g \in {"main", "temp"}, f # g,
           NEW w \in Words, ZipCopy(f, g, w)
    PROVE  /\ Behind(docFile'["mid"])
           /\ ZipTiles'
<1> DEFINE e == ItemAt(docFile[f], docCur[f])
           out == docFile["mid"]
           moved == [e EXCEPT !.offs = Rebase(e.offs, posFile["mid"].len)]
           n == wordPos[f][w].doc_count
           written == WriteRec(out, moved, ItemSize(moved))
           entry == [doc_count |-> n, start_offset |-> out.len,
                     end_offset |-> written.len]
<1>1. /\ pc = "zip" /\ pc' = "zip" /\ NextWord(w) /\ w \in todo[f] \ todo[g]
      /\ docFile' = [docFile EXCEPT !["mid"] = written]
      /\ docCur' = [docCur EXCEPT ![f] = @ + ItemStep(docFile[f], @)]
      /\ outIndex' = Put(outIndex, w, entry)
      /\ todo' = [todo EXCEPT ![f] = @ \ {w}]
      /\ UNCHANGED <<wordPos, torn>>
  BY DEF ZipCopy, memory, history
<1>2. e \in Items /\ posFile["mid"].len \in Nat
  BY ReadBoth DEF TypeOK, IsFile
<1>3. moved \in Items /\ moved.docs = e.docs
  BY <1>2, RebaseItem DEF Items
<1>4. /\ IsWordIndex(outIndex) /\ IsFile(out, Items)
      /\ todo \in Pair(SUBSET Words) /\ docCur \in Pair(Nat)
      /\ DOMAIN docFile = {"main", "temp", "mid"}
      /\ DOMAIN outIndex \in SUBSET Words
  BY DEF TypeOK, IsWordIndex, IsPartial
<1>5. w \in DOMAIN wordPos[f] /\ todo[f] \subseteq DOMAIN wordPos[f] /\ n \in Nat
  BY <1>1 DEF TodoKnown, TypeOK, IsWordIndex, TermIndexItem
<1> HIDE DEF e, n, written, moved, entry
<1>6. /\ Tiled(outIndex, out) /\ Behind(out) /\ Precede(DOMAIN outIndex, Todo)
      /\ ~torn => Counted(outIndex, out) /\ CursorAt("main") /\ CursorAt("temp")
  BY <1>1 DEF TileInv, ZipTiles, out
<1>7. Least(w, Todo) /\ Todo \in SUBSET Words /\ Todo' = Todo \ {w}
  BY <1>1, <1>4 DEF NextWord, Todo, Pair
<1>8. \A v \in DOMAIN outIndex : v < w  BY <1>6, <1>7 DEF Precede, Least
<1>9. /\ Behind(written)
      /\ Tiled(Put(outIndex, w, entry), written)
      /\ Counted(outIndex, out) /\ n = Len(moved.docs) =>
            Counted(Put(outIndex, w, entry), written)
  BY <1>3, <1>4, <1>5, <1>6, <1>8, WriteTiled, WriteBehind DEF written, entry
<1>10. Precede(DOMAIN outIndex', Todo')
  <2>1. DOMAIN outIndex' = DOMAIN outIndex \cup {w}  BY <1>1 DEF Put
  <2> QED BY <1>4, <1>6, <1>7, <2>1, PrecedeNext
<1>11. ASSUME ~torn
       PROVE  Counted(outIndex', written) /\ CursorAt(f)' /\ CursorAt(g)'
  <2>1. CursorAt(f) /\ CursorAt(g)  BY <1>6, <1>11
  <2>2. Least(w, todo[f])  BY <1>1 DEF NextWord, Least
  <2>3. docCur[f] = wordPos[f][w].start_offset
    BY <1>1, <2>1, <2>2 DEF CursorAt
  <2>4. /\ Walked(wordPos[f], docFile[f]) /\ Counted(wordPos[f], docFile[f])
        /\ Precede(DOMAIN wordPos[f] \ todo[f], todo[f])
    BY <2>1 DEF CursorAt
  <2>5. /\ docCur[f] + ItemStep(docFile[f], docCur[f]) = wordPos[f][w].end_offset
        /\ Len(e.docs) = n
    BY <1>5, <2>3, <2>4, WalkedReads DEF e, n
  <2>6. /\ docCur'[f] = wordPos[f][w].end_offset /\ docCur'[g] = docCur[g]
        /\ todo'[f] = todo[f] \ {w} /\ todo'[g] = todo[g]
        /\ docFile'[f] = docFile[f] /\ docFile'[g] = docFile[g]
    BY <1>1, <1>4, <2>5 DEF Pair
  <2>7. CursorAt(f)'  BY <1>1, <1>5, <2>2, <2>4, <2>6, CursorNext
  <2>8. CursorAt(g)'  BY <1>1, <2>1, <2>6, CursorStays
  <2> QED BY <1>1, <1>3, <1>6, <1>9, <1>11, <2>5, <2>7, <2>8
<1>12. docFile'["mid"] = written  BY <1>1, <1>4
<1> QED BY <1>1, <1>9, <1>10, <1>11, <1>12 DEF ZipTiles

\* Reading both items of a word that is in both.
LEMMA ZipBothTiles ==
    ASSUME TypeOK, TodoKnown, TileInv, NEW w \in Words, ZipBoth(w)
    PROVE  ZipTiles' /\ TakenAll'
<1>1. /\ pc = "zip" /\ pc' = "zip_docs" /\ NextWord(w)
      /\ w \in todo["main"] \cap todo["temp"]
      /\ item' = [f \in {"main", "temp"} |-> ItemAt(docFile[f], docCur[f])]
      /\ at' = [f \in {"main", "temp"} |-> 0]
      /\ vec' = NoItem
      /\ docCur' = [f \in {"main", "temp"} |->
                      docCur[f] + ItemStep(docFile[f], docCur[f])]
      /\ UNCHANGED <<wordPos, todo, outIndex, docFile, torn>>
  BY DEF ZipBoth, memory, history
<1>2. \A v \in Words : NextWord(v)' => v = w
  <2>1. todo["main"] \cup todo["temp"] \in SUBSET Words  BY DEF TypeOK, Pair
  <2>2. ASSUME NEW v \in Words, NextWord(v)' PROVE v = w
    <3>1. Least(v, todo["main"] \cup todo["temp"])
      BY <1>1, <2>2 DEF NextWord
    <3> QED BY <1>1, <2>1, <3>1, LeastUnique DEF NextWord
  <2> QED BY <2>2
<1>3. ASSUME NEW f \in {"main", "temp"}, ~torn PROVE CursorAt(f)'
  <2>1. CursorAt(f)  BY <1>1, <1>3 DEF TileInv, ZipTiles
  <2>2. Least(w, todo[f]) /\ w \in DOMAIN wordPos[f]
    BY <1>1 DEF NextWord, Least, TodoKnown
  <2>3. docCur[f] = wordPos[f][w].start_offset
    BY <1>1, <2>1, <2>2 DEF CursorAt
  <2>4. /\ docCur[f] + ItemStep(docFile[f], docCur[f]) = wordPos[f][w].end_offset
        /\ Len(ItemAt(docFile[f], docCur[f]).docs) = wordPos[f][w].doc_count
    BY <2>1, <2>2, <2>3, WalkedReads DEF CursorAt
  <2> QED BY <1>1, <1>2, <2>1, <2>4 DEF CursorAt
<1>4. ZipTiles'
  BY <1>1, <1>3 DEF TileInv, ZipTiles, Todo
<1>5. TakenAll'
  <2>1. \A f \in {"main", "temp"} : Len(item'[f].docs) \in Nat
    BY <1>1, ReadBoth DEF Items
  <2>2. Len(vec'.docs) = 0 /\ at'["main"] = 0 /\ at'["temp"] = 0
    BY <1>1 DEF NoItem
  <2> QED BY <2>1, <2>2 DEF TakenAll
<1> QED BY <1>4, <1>5

\* One posting more.
LEMMA TakeTiles ==
    ASSUME TypeOK, TileInv, NEW f \in {"main", "temp"}, pc = "zip_docs",
           More(f), Take(f)
    PROVE  ZipTiles' /\ TakenAll'
<1>1. /\ at' = [at EXCEPT ![f] = at[f] + 1]
      /\ vec'.docs = Append(vec.docs, item[f].docs[at[f] + 1])
      /\ UNCHANGED <<pc, wordPos, todo, docCur, item, outIndex, docFile, torn>>
  BY DEF Take, memory, files, history
<1>2. ZipTiles'
  BY <1>1 DEF TileInv, ZipTiles, CursorAt, Todo, NextWord
<1>3. /\ at["main"] =< Len(item["main"].docs)
      /\ at["temp"] =< Len(item["temp"].docs)
      /\ Len(vec.docs) = at["main"] + at["temp"]
  BY DEF TileInv, TakenAll
<1>4. /\ at \in Pair(Nat) /\ vec.docs \in Seq(Docs)
      /\ \A g \in {"main", "temp"} : Len(item[g].docs) \in Nat
  BY DEF TypeOK, Pair, Items
<1>5. Len(vec'.docs) = Len(vec.docs) + 1  BY <1>1, <1>4
<1>6. TakenAll'
  BY <1>1, <1>3, <1>4, <1>5 DEF TakenAll, More, Pair
<1> QED BY <1>2, <1>6

\* The merged item has all postings of both.
LEMMA ZipItemTiles ==
    ASSUME TypeOK, TodoKnown, TileInv, NEW w \in Words, ZipItem(w)
    PROVE  /\ Behind(docFile'["mid"])
           /\ ZipTiles'
<1> DEFINE out == docFile["mid"]
           n == MergedCount(w)
           written == WriteRec(out, vec, ItemSize(vec))
           entry == [doc_count |-> n, start_offset |-> out.len,
                     end_offset |-> written.len]
<1>1. /\ pc = "zip_docs" /\ pc' = "zip" /\ NextWord(w)
      /\ ~More("main") /\ ~More("temp")
      /\ docFile' = [docFile EXCEPT !["mid"] = written]
      /\ outIndex' = Put(outIndex, w, entry)
      /\ todo' = [f \in {"main", "temp"} |-> todo[f] \ {w}]
      /\ UNCHANGED <<wordPos, docCur, torn>>
  BY DEF ZipItem, memory, history
<1>2. w \in todo["main"] \cap todo["temp"]
  BY <1>1 DEF TodoKnown
<1>3. /\ vec \in Items /\ IsWordIndex(outIndex) /\ IsFile(out, Items)
      /\ todo \in Pair(SUBSET Words)
      /\ DOMAIN docFile = {"main", "temp", "mid"}
      /\ DOMAIN outIndex \in SUBSET Words
  BY DEF TypeOK, IsWordIndex, IsPartial
<1>4. \A f \in {"main", "temp"} :
         /\ todo[f] \subseteq DOMAIN wordPos[f]
         /\ w \in DOMAIN wordPos[f]
         /\ wordPos[f][w].doc_count \in Nat
  BY <1>1, <1>2 DEF TodoKnown, TypeOK, IsWordIndex, TermIndexItem
<1>5. n \in Nat  BY <1>4 DEF MergedCount
<1> HIDE DEF n, written, entry
<1>6. /\ Tiled(outIndex, out) /\ Behind(out) /\ Precede(DOMAIN outIndex, Todo)
      /\ ~torn => Counted(outIndex, out) /\ CursorAt("main") /\ CursorAt("temp")
  BY <1>1 DEF TileInv, ZipTiles, out
<1>7. Least(w, Todo) /\ Todo \in SUBSET Words /\ Todo' = Todo \ {w}
  BY <1>1, <1>3 DEF NextWord, Todo, Pair
<1>8. \A v \in DOMAIN outIndex : v < w  BY <1>6, <1>7 DEF Precede, Least
<1>9. /\ Behind(written)
      /\ Tiled(Put(outIndex, w, entry), written)
      /\ Counted(outIndex, out) /\ n = Len(vec.docs) =>
            Counted(Put(outIndex, w, entry), written)
  BY <1>3, <1>5, <1>6, <1>8, WriteTiled, WriteBehind DEF written, entry
<1>10. Precede(DOMAIN outIndex', Todo')
  <2>1. DOMAIN outIndex' = DOMAIN outIndex \cup {w}  BY <1>1 DEF Put
  <2> QED BY <1>3, <1>6, <1>7, <2>1, PrecedeNext
<1>11. ASSUME NEW f \in {"main", "temp"}, ~torn
       PROVE  CursorAt(f)' /\ Len(item[f].docs) = wordPos[f][w].doc_count
  <2>1. CursorAt(f)  BY <1>6, <1>11
  <2>2. Least(w, todo[f])  BY <1>1, <1>2 DEF NextWord, Least
  <2>3. /\ docCur[f] = wordPos[f][w].end_offset
        /\ Len(item[f].docs) = wordPos[f][w].doc_count
    BY <1>1, <2>1 DEF CursorAt
  <2>4. /\ Walked(wordPos[f], docFile[f]) /\ Counted(wordPos[f], docFile[f])
        /\ Precede(DOMAIN wordPos[f] \ todo[f], todo[f])
    BY <2>1 DEF CursorAt
  <2>5. /\ docCur'[f] = wordPos[f][w].end_offset
        /\ todo'[f] = todo[f] \ {w} /\ docFile'[f] = docFile[f]
        /\ wordPos'[f] = wordPos[f]
    BY <1>1, <1>3, <2>3
  <2> QED BY <1>1, <1>4, <2>2, <2>3, <2>4, <2>5, CursorNext
<1>12. ASSUME ~torn PROVE n = Len(vec.docs)
  <2>1. /\ at["main"] =< Len(item["main"].docs)
        /\ at["temp"] =< Len(item["temp"].docs)
        /\ Len(vec.docs) = at["main"] + at["temp"]
    BY <1>1 DEF TileInv, TakenAll
  <2>2. at \in Pair(Nat) /\ \A g \in {"main", "temp"} : Len(item[g].docs) \in Nat
    BY DEF TypeOK, Pair, Items
  <2>3. \A g \in {"main", "temp"} : at[g] = Len(item[g].docs)
    BY <1>1, <2>1, <2>2 DEF More, Pair
  <2> QED BY <1>4, <1>11, <1>12, <2>1, <2>3 DEF n, MergedCount
<1>13. docFile'["mid"] = written  BY <1>1, <1>3
<1> QED BY <1>1, <1>6, <1>9, <1>10, <1>11, <1>12, <1>13 DEF ZipTiles


-----------------------------------------------------------------------------
(* All steps.                                                              *)

\* At the start everything is empty.
LEMMA TileInit == Init => TileInv
<1> SUFFICES ASSUME Init PROVE TileInv
  OBVIOUS
<1>1. /\ pc = "crawl"
      /\ wordPos["temp"] = Nothing /\ wordFile["main"] = Nothing
      /\ \A f \in {"main", "temp", "mid"} : docFile[f] = EmptyFile
  BY DEF Init, NoMemory
<1> QED
  BY <1>1, NothingTiled
     DEF TileInv, SaveTiles, ZipTiles, TakenAll, InstallTiles, MainTiles,
         ServedTiled

\* Steps that leave the files and the word indexes alone.
LEMMA QuietTiles ==
    ASSUME TypeOK, TileInv,
           \/ \E d \in Docs, c \in Contents : AddDoc(d, c)
           \/ SaveIndex
           \/ SaveClose
           \/ \E w \in Words, d \in Docs : SavePosting(w, d)
           \/ RemovePos
           \/ RenamePos
           \/ RenamePosFails
           \/ Restart
           \/ UNCHANGED vars
    PROVE  TileInv'
<1> USE DEF memory, locals, files, history, TileInv, MainTiles, Window
<1>1. ASSUME NEW d \in Docs, NEW c \in Contents, AddDoc(d, c) PROVE TileInv'
  BY <1>1 DEF AddDoc, SaveTiles, ZipTiles, TakenAll, InstallTiles, ServedTiled
<1>2. CASE SaveIndex \/ Restart
  BY <1>2 DEF SaveIndex, Restart, SaveTiles, ZipTiles, TakenAll, InstallTiles,
              ServedTiled
<1>3. CASE SaveClose
  BY <1>3 DEF SaveClose, SaveTiles, ZipTiles, TakenAll, InstallTiles, ServedTiled
<1>4. ASSUME NEW w \in Words, NEW d \in Docs, SavePosting(w, d) PROVE TileInv'
  BY <1>4 DEF SavePosting, SaveTiles, ZipTiles, TakenAll, InstallTiles,
              ServedTiled
<1>5. CASE RemovePos \/ RenamePos \/ RenamePosFails
  <2>1. faults' = faults \/ faults' # 0
    BY <1>5 DEF RemovePos, RenamePos, RenamePosFails, Fail, TypeOK
  <2>2. /\ pc \in {"rm_pos", "mv_pos"} /\ pc' \in {"mv_pos", "clean"}
        /\ UNCHANGED <<wordPos, wordFile, docFile, torn>>
    BY <1>5 DEF RemovePos, RenamePos, RenamePosFails
  <2> QED BY <2>1, <2>2 DEF SaveTiles, ZipTiles, TakenAll, InstallTiles,
                            ServedTiled
<1>6. CASE UNCHANGED vars
  BY <1>6, ZenonT(30) DEF vars, SaveTiles, ZipTiles, TakenAll, InstallTiles, ServedTiled,
              CursorAt, Todo, NextWord
<1> QED BY <1>1, <1>2, <1>3, <1>4, <1>5, <1>6

\* save_index.
LEMMA SaveItemTiles ==
    ASSUME TypeOK, TodoKnown, TileInv, NEW w \in Words, SaveItem(w)
    PROVE  TileInv'
<1> DEFINE out == docFile["temp"]
           written == WriteRec(out, vec, ItemSize(vec))
           index == wordPos["temp"]
           n == Len(vec.docs)
           entry == [doc_count |-> n, start_offset |-> out.len,
                     end_offset |-> written.len]
<1>1. /\ pc = "save" /\ pc' = "save" /\ Least(w, todo["temp"])
      /\ docFile' = [docFile EXCEPT !["temp"] = written]
      /\ wordPos' = [wordPos EXCEPT !["temp"] = Put(@, w, entry)]
      /\ todo' = [todo EXCEPT !["temp"] = @ \ {w}]
      /\ UNCHANGED <<wordFile, torn, faults>>
  BY DEF SaveItem, history
<1>2. /\ vec \in Items /\ IsWordIndex(index) /\ IsFile(out, Items) /\ n \in Nat
      /\ todo \in Pair(SUBSET Words)
      /\ DOMAIN docFile = {"main", "temp", "mid"}
      /\ DOMAIN wordPos = {"main", "temp", "query"}
      /\ DOMAIN index \in SUBSET Words
  BY DEF TypeOK, IsWordIndex, IsPartial, Items
<1>3. /\ Tiled(index, out) /\ Counted(index, out) /\ Behind(out)
      /\ Precede(DOMAIN index, todo["temp"])
  BY <1>1 DEF TileInv, SaveTiles
<1>4. \A v \in DOMAIN index : v < w  BY <1>1, <1>3 DEF Precede, Least
<1> HIDE DEF written, entry, n, index
<1>5. /\ Behind(written)
      /\ Tiled(Put(index, w, entry), written)
      /\ Counted(Put(index, w, entry), written)
  <2>1. n = Len(vec.docs)  BY DEF n
  <2> QED BY <1>2, <1>3, <1>4, <2>1, WriteTiled, WriteBehind DEF written, entry
<1>6. Precede(DOMAIN Put(index, w, entry), todo["temp"] \ {w})
  <2>1. DOMAIN Put(index, w, entry) = DOMAIN index \cup {w}  BY DEF Put
  <2>2. todo["temp"] \in SUBSET Words  BY <1>2 DEF Pair
  <2> QED BY <1>1, <1>2, <1>3, <2>1, <2>2, PrecedeNext
<1>7. /\ docFile'["temp"] = written /\ wordPos'["temp"] = Put(index, w, entry)
      /\ docFile'["main"] = docFile["main"] /\ docFile'["mid"] = docFile["mid"]
      /\ todo'["temp"] = todo["temp"] \ {w}
  BY <1>1, <1>2 DEF Pair, index
<1> QED
  BY <1>1, <1>5, <1>6, <1>7
     DEF TileInv, SaveTiles, ZipTiles, TakenAll, InstallTiles, MainTiles,
         ServedTiled, Window

\* The steps of save_index around its loops.
LEMMA SaveEndsTiles ==
    ASSUME TypeOK, TileInv,
           SaveOpen \/ SaveTempWords \/ SaveOpenFails \/ SaveTempWordsFails
    PROVE  TileInv'
<1> USE DEF memory, locals, files, history
<1> USE DEF TileInv, SaveTiles, ZipTiles, TakenAll, InstallTiles, MainTiles,
            ServedTiled, Window
<1>1. /\ DOMAIN docFile = {"main", "temp", "mid"}
      /\ DOMAIN wordFile = {"main", "temp"}
      /\ todo \in Pair(SUBSET Words)
  BY DEF TypeOK
<1>2. CASE SaveOpen
  <2>1. /\ docFile'["temp"] = EmptyFile /\ wordPos'["temp"] = Nothing
        /\ docFile'["main"] = docFile["main"] /\ docFile'["mid"] = docFile["mid"]
        /\ UNCHANGED <<wordFile, torn, faults>>
        /\ pc = "save_open" /\ pc' = "save"
    BY <1>1, <1>2 DEF SaveOpen
  <2>2. Precede(DOMAIN wordPos'["temp"], todo'["temp"])
    BY <2>1 DEF Precede, Nothing
  <2> QED BY <2>1, <2>2, NothingTiled
<1>3. CASE SaveTempWords
  <2>1. /\ wordFile'["temp"] = wordPos["temp"] /\ wordFile'["main"] = wordFile["main"]
        /\ UNCHANGED <<docFile, torn, faults>>
        /\ pc = "save_words" /\ pc' = "load"
    BY <1>1, <1>3 DEF SaveTempWords
  <2> QED BY <2>1, TiledWalked
<1>4. CASE SaveOpenFails
  <2>1. /\ docFile'["main"] = docFile["main"] /\ docFile'["mid"] = docFile["mid"]
        /\ docFile'["temp"] \in {docFile["temp"], EmptyFile}
        /\ UNCHANGED wordFile
        /\ torn' = (torn \/ wordFile["temp"] # Nothing)
        /\ pc = "save_open" /\ pc' = "load"
    BY <1>1, <1>4 DEF SaveOpenFails
  <2>2. ~torn' => ~torn /\ wordFile'["temp"] = Nothing  BY <2>1
  <2> QED BY <2>1, <2>2, NothingTiled
<1>5. CASE SaveTempWordsFails
  <2>1. /\ UNCHANGED <<docFile, wordFile>>
        /\ torn' = (torn \/ wordFile["temp"] # Nothing)
        /\ pc = "save_words" /\ pc' = "load"
    BY <1>5 DEF SaveTempWordsFails
  <2>2. ~torn' => ~torn /\ wordFile'["temp"] = Nothing  BY <2>1
  <2> QED BY <2>1, <2>2, NothingTiled
<1> QED BY <1>2, <1>3, <1>4, <1>5

\* The beginning of zipper_merge loads what the files say.
LEMMA LoadTiles == ASSUME TypeOK, TileInv, LoadWordIndexes PROVE TileInv'
<1>1. /\ pc = "load" /\ pc' = "zip"
      /\ DOMAIN docFile = {"main", "temp", "mid"}
      /\ DOMAIN wordPos = {"main", "temp", "query"}
  BY DEF LoadWordIndexes, TypeOK
<1>2. /\ docFile'["mid"] = EmptyFile /\ outIndex' = Nothing
      /\ UNCHANGED <<wordFile, torn, faults>>
      /\ \A f \in {"main", "temp"} :
            /\ wordPos'[f] = wordFile[f]
            /\ docFile'[f] = docFile[f]
            /\ todo'[f] = DOMAIN wordFile[f]
            /\ docCur'[f] = 0
  BY <1>1 DEF LoadWordIndexes, history
<1>3. ASSUME ~torn, NEW f \in {"main", "temp"} PROVE CursorAt(f)'
  <2>1. Walked(wordFile[f], docFile[f]) /\ Counted(wordFile[f], docFile[f])
    BY <1>1, <1>3, TiledWalked DEF TileInv, SaveTiles, MainTiles, Window
  <2>2. ASSUME NEW w \in Words, Least(w, DOMAIN wordFile[f])
        PROVE  wordFile[f][w].start_offset = 0
    BY <2>1, <2>2 DEF Walked, Least
  <2> QED BY <1>1, <1>2, <2>1, <2>2 DEF CursorAt, Precede
<1>4. ZipTiles'
  <2>1. Precede(DOMAIN outIndex', Todo')  BY <1>2 DEF Precede, Nothing
  <2> QED BY <1>2, <1>3, <2>1, NothingTiled DEF ZipTiles
<1> QED
  BY <1>1, <1>2, <1>4, NothingTiled
     DEF TileInv, SaveTiles, TakenAll, InstallTiles, MainTiles, ServedTiled,
         Window

\* A turn of its loops.
LEMMA LoopTiles ==
    ASSUME TypeOK, TodoKnown, TileInv,
           \/ \E w \in Words : ZipCopy("temp", "main", w)
           \/ \E w \in Words : ZipCopy("main", "temp", w)
           \/ \E w \in Words : ZipBoth(w)
           \/ TakeTemp
           \/ TakeMain
           \/ \E w \in Words : ZipItem(w)
    PROVE  TileInv'
<1> USE DEF memory, locals, files, history
<1>1. ASSUME NEW f \in {"main", "temp"}, NEW g \in {"main", "temp"}, f # g,
             NEW w \in Words, ZipCopy(f, g, w)
      PROVE  TileInv'
  <2>1. /\ pc = "zip" /\ pc' = "zip"
        /\ UNCHANGED <<wordPos, wordFile, torn, faults>>
        /\ docFile'["main"] = docFile["main"] /\ docFile'["temp"] = docFile["temp"]
    BY <1>1 DEF ZipCopy, TypeOK
  <2>2. Behind(docFile'["mid"]) /\ ZipTiles'  BY <1>1, ZipCopyTiles
  <2> QED BY <2>1, <2>2 DEF TileInv, SaveTiles, TakenAll, InstallTiles, MainTiles,
                            ServedTiled, Window
<1>2. ASSUME NEW w \in Words, ZipBoth(w) PROVE TileInv'
  <2>1. /\ pc = "zip" /\ pc' = "zip_docs"
        /\ UNCHANGED <<wordPos, wordFile, docFile, torn, faults>>
    BY <1>2 DEF ZipBoth
  <2>2. ZipTiles' /\ TakenAll'  BY <1>2, ZipBothTiles
  <2> QED BY <2>1, <2>2 DEF TileInv, SaveTiles, InstallTiles, MainTiles,
                            ServedTiled, Window
<1>3. ASSUME NEW f \in {"main", "temp"}, pc = "zip_docs", More(f), Take(f)
      PROVE  TileInv'
  <2>1. /\ pc' = "zip_docs"
        /\ UNCHANGED <<wordPos, wordFile, docFile, torn, faults>>
    BY <1>3 DEF Take
  <2>2. ZipTiles' /\ TakenAll'  BY <1>3, TakeTiles
  <2> QED BY <1>3, <2>1, <2>2 DEF TileInv, SaveTiles, InstallTiles, MainTiles,
                                  ServedTiled, Window
<1>4. ASSUME NEW w \in Words, ZipItem(w) PROVE TileInv'
  <2>1. /\ pc = "zip_docs" /\ pc' = "zip"
        /\ UNCHANGED <<wordPos, wordFile, torn, faults>>
        /\ docFile'["main"] = docFile["main"] /\ docFile'["temp"] = docFile["temp"]
    BY <1>4 DEF ZipItem, TypeOK
  <2>2. Behind(docFile'["mid"]) /\ ZipTiles'  BY <1>4, ZipItemTiles
  <2> QED BY <2>1, <2>2 DEF TileInv, SaveTiles, TakenAll, InstallTiles, MainTiles,
                            ServedTiled, Window
<1> QED BY <1>1, <1>2, <1>3, <1>4 DEF TakeTemp, TakeMain

\* The end of zipper_merge and the replacement of main's files.
LEMMA InstallStepTiles ==
    ASSUME TypeOK, TileInv,
           \/ ZipDone \/ SaveMainWordsFails
           \/ SaveMainWords \/ RemoveDoc \/ RenameDoc \/ RenameDocFails
           \/ Clean \/ Initialize
    PROVE  TileInv'
<1> USE DEF memory, locals, files, history
<1>1. /\ DOMAIN docFile = {"main", "temp", "mid"}
      /\ DOMAIN wordFile = {"main", "temp"}
      /\ DOMAIN wordPos = {"main", "temp", "query"}
      /\ faults \in Nat
  BY DEF TypeOK
<1>2. CASE ZipDone \/ SaveMainWordsFails
  <2>1. /\ pc = "zip" /\ pc' \in {"main_words", "rm_doc"} /\ UNCHANGED docFile
        /\ wordPos'["main"] = outIndex
        /\ pc' = "main_words" => UNCHANGED <<torn, faults>>
        /\ pc' = "rm_doc" => torn' = TRUE /\ faults' = faults + 1
    BY <1>1, <1>2 DEF ZipDone, SaveMainWordsFails, ZipFinished, Fail
  <2>2. /\ Tiled(outIndex, docFile["mid"])
        /\ ~torn => Counted(outIndex, docFile["mid"])
    BY <2>1 DEF TileInv, ZipTiles
  <2>3. pc' = "rm_doc" => faults' # 0  BY <1>1, <2>1
  <2> QED BY <2>1, <2>2, <2>3
          DEF TileInv, SaveTiles, ZipTiles, TakenAll, InstallTiles, MainTiles,
              ServedTiled, Window
<1>3. CASE SaveMainWords
  <2>1. /\ pc = "main_words" /\ pc' = "rm_doc"
        /\ wordFile'["main"] = wordPos["main"]
        /\ UNCHANGED <<docFile, torn, faults>>
    BY <1>1, <1>3 DEF SaveMainWords
  <2> QED BY <2>1 DEF TileInv, SaveTiles, ZipTiles, TakenAll, InstallTiles,
                      MainTiles, ServedTiled, Window
<1>4. CASE RemoveDoc
  <2>1. /\ pc = "rm_doc" /\ pc' = "mv_doc"
        /\ docFile'["main"] = EmptyFile
        /\ docFile'["temp"] = docFile["temp"] /\ docFile'["mid"] = docFile["mid"]
        /\ UNCHANGED <<wordFile, torn, faults>>
    BY <1>1, <1>4 DEF RemoveDoc
  <2> QED BY <2>1, NothingTiled
          DEF TileInv, SaveTiles, ZipTiles, TakenAll, InstallTiles, MainTiles,
              ServedTiled, Window
<1>5. CASE RenameDoc
  <2>1. /\ pc = "mv_doc" /\ pc' = "rm_pos"
        /\ docFile'["main"] = docFile["mid"]
        /\ docFile'["temp"] = docFile["temp"] /\ docFile'["mid"] = EmptyFile
        /\ UNCHANGED <<wordFile, torn, faults>>
    BY <1>1, <1>5 DEF RenameDoc
  <2> QED BY <2>1, NothingTiled
          DEF TileInv, SaveTiles, ZipTiles, TakenAll, InstallTiles, MainTiles,
              ServedTiled, Window
<1>6. CASE RenameDocFails
  <2>1. /\ pc = "mv_doc" /\ pc' = "rm_pos" /\ torn' = TRUE /\ faults' # 0
        /\ UNCHANGED docFile
    BY <1>1, <1>6 DEF RenameDocFails, Fail
  <2> QED BY <2>1 DEF TileInv, SaveTiles, ZipTiles, TakenAll, InstallTiles,
                      MainTiles, ServedTiled, Window
<1>7. CASE Clean
  <2>1. /\ pc = "clean" /\ pc' \in {"crawl", "init"}
        /\ docFile'["main"] = docFile["main"] /\ docFile'["mid"] = docFile["mid"]
        /\ docFile'["temp"] = EmptyFile
        /\ wordFile'["main"] = wordFile["main"] /\ wordPos'["temp"] = Nothing
        /\ UNCHANGED <<torn, faults>>
    BY <1>1, <1>7 DEF Clean
  <2> QED BY <2>1, NothingTiled
          DEF TileInv, SaveTiles, ZipTiles, TakenAll, InstallTiles, MainTiles,
              ServedTiled, Window
<1>8. CASE Initialize
  <2>1. /\ pc = "init" /\ pc' = "serve"
        /\ wordPos'["query"] = wordFile["main"]
        /\ UNCHANGED <<wordFile, docFile, torn, faults>>
    BY <1>1, <1>8 DEF Initialize
  <2> QED BY <2>1 DEF TileInv, SaveTiles, ZipTiles, TakenAll, InstallTiles,
                      MainTiles, ServedTiled, Window
<1> QED BY <1>2, <1>3, <1>4, <1>5, <1>6, <1>7, <1>8

\* A death in the window tears main's files; elsewhere it leaves them alone.
LEMMA DeathTears ==
    ASSUME TypeOK, Crash \/ MergeAbort \/ \E w \in Words : ZipFault(w)
    PROVE  /\ Die
           /\ ~torn' => /\ ~torn /\ pc \notin Window
                        /\ wordFile'["main"] = wordFile["main"]
<1>1. Die  BY DEF Crash, MergeAbort, ZipFault
<1>2. CASE Crash
  <2>1. torn' = (torn \/ pc \in Window)  BY <1>2 DEF Crash
  <2>2. \/ Interrupted("main", "main_words")
        \/ Interrupted("temp", "save_words")
        \/ UNCHANGED wordFile
    BY <1>2 DEF Crash
  <2>3. Interrupted("temp", "save_words") => wordFile'["main"] = wordFile["main"]
    BY DEF Interrupted, TypeOK
  <2>4. Interrupted("main", "main_words") => pc \in Window
    BY DEF Interrupted, Window
  <2> QED BY <1>1, <2>1, <2>2, <2>3, <2>4
<1>3. CASE MergeAbort \/ \E w \in Words : ZipFault(w)
  BY <1>1, <1>3 DEF MergeAbort, ZipFault, Window
<1> QED BY <1>2, <1>3

\* What a death leaves of main's files is tiled if they were not torn.
LEMMA DieTiles ==
    ASSUME TypeOK, TileInv, Die,
           ~torn' => /\ ~torn /\ pc \notin Window
                     /\ wordFile'["main"] = wordFile["main"]
    PROVE  TileInv'
<1>1. /\ pc' = "down" /\ wordPos'["temp"] = Nothing
      /\ UNCHANGED <<docFile, faults>>
  BY DEF Die
<1> QED
  BY <1>1
     DEF TileInv, SaveTiles, ZipTiles, TakenAll, InstallTiles, MainTiles,
         ServedTiled, Window

\* A death, wherever it strikes.
LEMMA DeathTiles ==
    ASSUME TypeOK, TileInv,
           Crash \/ MergeAbort \/ \E w \in Words : ZipFault(w)
    PROVE  TileInv'
BY DeathTears, DieTiles

\* Every step keeps the items where the word indexes say.
LEMMA TileStep == ASSUME TypeOK, TodoKnown, TileInv, [Next]_vars PROVE TileInv'
<1>1. CASE Save
  BY <1>1, QuietTiles, SaveItemTiles, SaveEndsTiles DEF Save
<1>2. CASE Merge
  BY <1>2, LoadTiles, LoopTiles, InstallStepTiles DEF Merge
<1>3. CASE Install \/ Initialize
  BY <1>3, QuietTiles, InstallStepTiles DEF Install
<1>4. CASE FileFault
  BY <1>4, QuietTiles, SaveEndsTiles, InstallStepTiles DEF FileFault
<1>5. CASE Crash \/ MergeAbort \/ \E w \in Words : ZipFault(w)
  BY <1>5, DeathTiles
<1>6. CASE \/ \E d \in Docs, c \in Contents : AddDoc(d, c)
           \/ SaveIndex \/ Restart \/ UNCHANGED vars
  BY <1>6, QuietTiles
<1> QED BY <1>1, <1>2, <1>3, <1>4, <1>5, <1>6 DEF Next, Progress

-----------------------------------------------------------------------------
(* Theorems.                                                               *)

\* What the merge reads next is an item.
LEMMA TilesNoFault == ASSUME TypeOK, TodoKnown, TileInv PROVE NoFault
<1> SUFFICES ASSUME ~torn, pc = "zip", NEW f \in {"main", "temp"}, todo[f] # {}
             PROVE  ~AtEnd(f)
  BY DEF NoFault
<1>1. todo[f] \in SUBSET Words /\ todo[f] \subseteq DOMAIN wordPos[f]
  BY DEF TypeOK, Pair, TodoKnown
<1>2. PICK w \in todo[f] : Least(w, todo[f])  BY <1>1, LeastExists
<1>3. CursorAt(f)  BY DEF TileInv, ZipTiles
<1>4. docCur[f] = wordPos[f][w].start_offset
  BY <1>1, <1>2, <1>3 DEF CursorAt
<1>5. wordPos[f][w].start_offset \in DOMAIN docFile[f].recs
  BY <1>1, <1>2, <1>3 DEF CursorAt, Walked
<1> QED BY <1>4, <1>5 DEF AtEnd

\* Unless a death or a failure tore them apart, main's word index addresses
\* the items of its document file, which lie back to back from end to end,
\* whatever batches were merged and whenever the process died otherwise.
THEOREM MainIsTiled == Spec => []MainTiled
<1>1. TileInv => MainTiled  BY DEF TileInv, MainTiles, MainTiled
<1> QED BY <1>1, InitType, TileInit, TypeCorrect, TileStep, PTL DEF Spec

\* What a query object serves from is tiled though main's files were torn
\* before, unless a file operation failed.
THEOREM ServedIsTiled == Spec => []ServedTiled
<1>1. TileInv => ServedTiled  BY DEF TileInv
<1> QED BY <1>1, InitType, TileInit, TypeCorrect, TileStep, PTL DEF Spec

\* The document count of a word is the number of its postings.
THEOREM CountsExact == Spec => []DocCountExact
<1>1. TileInv => DocCountExact
  BY DEF TileInv, MainTiles, DocCountExact, Counted
<1> QED BY <1>1, InitType, TileInit, TypeCorrect, TileStep, PTL DEF Spec

\* The merge never reads behind the end of a document file.
THEOREM NeverFaults == Spec => []NoFault
<1> QED BY TilesNoFault, InitType, TileInit, TypeCorrect, TileStep, PTL DEF Spec

=============================================================================
