----------------------------- MODULE IndexStore -----------------------------
(***************************************************************************)
(* The on-disk inverted index of search_index.cpp.                         *)
(*                                                                         *)
(* Search_Index_File_Manager gathers postings in memory (the "temp" index) *)
(* and every BatchSize documents writes them out and merges them into the  *)
(* "main" index.  An index is three files: words (word id -> where its     *)
(* item lies in the document file), documents (one item per word) and      *)
(* positions.  The merge reads both indexes front to back, writes two      *)
(* middle files, overwrites main's word file and then moves the middle     *)
(* files over main's.  The process may die between any two steps.          *)
(*                                                                         *)
(* Every loop of the code is a loop of actions: one posting, one word or   *)
(* one file operation per step.                                            *)
(***************************************************************************)
EXTENDS Integers, Sequences, FiniteSets, Functions

CONSTANTS
    Words,       \* word ids (the keys of m_words)
    Docs,        \* document ids
    Contents,    \* what a parsed document may hold: [some words -> positions]
    BatchSize,   \* documents per automatic save (200 in the code)
    IdBytes,     \* bytes of one encoded document id
    PosBytes,    \* bytes of one encoded position
    OffMod,      \* position offsets are unsigned: arithmetic modulo OffMod
    CrashPoints, \* the steps before which the process may die
    FaultPoints, \* the steps at which a file operation may fail
    MaxAdds,     \* bound: documents added in a whole behaviour
    MaxTroubles  \* bound: deaths of the process and failed file operations in a
                 \* whole behaviour

Steps ==
    {"crawl", "save_open", "save", "save_words", "load", "zip", "zip_docs",
     "main_words", "rm_doc", "mv_doc", "rm_pos", "mv_pos", "clean",
     "init", "serve", "down"}

ASSUME IndexAssumption ==
    /\ Words \subseteq Nat
    /\ Docs \subseteq Nat
    /\ \A c \in Contents :
          /\ DOMAIN c \subseteq Words
          /\ c = [w \in DOMAIN c |-> c[w]]
          /\ IsFiniteSet(DOMAIN c)
          /\ \A w \in DOMAIN c : c[w] \in Seq(Nat) \ {<< >>}
    /\ BatchSize \in Nat \ {0}
    /\ IdBytes \in Nat \ {0}
    /\ PosBytes \in Nat \ {0}
    /\ OffMod \in Nat \ {0}
    /\ CrashPoints \subseteq Steps \ {"down"}
    /\ FaultPoints \subseteq Steps
    /\ MaxAdds \in Nat
    /\ MaxTroubles \in Nat

VARIABLES
    pc,           \* the next step of the process, or "down"
    finalSave,    \* save_index was called by main(), not by add_doc
    m_doc_count,  \* documents added since the last automatic save
    m_words,      \* postings in memory: [words -> [docs -> positions]]
    wordPos,      \* m_word_pos of the main, temp and query objects
    vec,          \* the item being assembled: docs, hits and offs
    todo,         \* words of each index the running loop has not reached
    docCur,       \* read position in each document file
    posCur,       \* read position in each position file
    item,         \* the two items merge_doc_index is merging
    at,           \* how many postings of each item it has taken
    base,         \* pos_offset1 and pos_offset2
    outIndex,     \* final_word_index
    wordFile,     \* word files of main and temp
    docFile,      \* document files of main and temp, and the middle one
    posFile,      \* position files of main and temp, and the middle one
    missing,      \* which of main's document and position files do not exist
    torn,         \* history: a death or a failure left files that disagree
    adds,         \* history: documents added
    crashes,      \* history: deaths of the process
    faults        \* history: failed file operations

locals == <<vec, todo, docCur, posCur, item, at, base, outIndex>>
memory == <<finalSave, m_doc_count, m_words, wordPos>>
files == <<wordFile, docFile, posFile, missing>>
history == <<torn, adds, crashes, faults>>
vars == <<pc, memory, locals, files, history>>

-----------------------------------------------------------------------------
(* Partial functions and files.                                            *)

Nothing == [x \in {} |-> {}]

Put(f, k, v) == [x \in DOMAIN f \cup {k} |-> IF x = k THEN v ELSE f[x]]

Least(x, S) == x \in S /\ \A y \in S : x =< y

\* One entry of each list per document that has the word.
Items ==
    {e \in [docs : Seq(Docs), hits : Seq(Nat \ {0}), offs : Seq(Nat)] :
        Len(e.hits) = Len(e.docs) /\ Len(e.offs) = Len(e.docs)}
NoItem == [docs |-> << >>, hits |-> << >>, offs |-> << >>]

TermIndexItem == [doc_count : Nat, start_offset : Nat, end_offset : Nat]

(***************************************************************************)
(* A file is the records it holds, keyed by the byte they start at, and    *)
(* its length.  A document item is three buffers, each behind a four byte  *)
(* size: encoded ids, then four bytes per hit count and per offset.        *)
(***************************************************************************)
EmptyFile == [recs |-> Nothing, len |-> 0]

ItemSize(e) == 12 + (IdBytes + 8) * Len(e.docs)

ListSize(poss) == 4 + PosBytes * Len(poss)

WriteRec(file, rec, size) ==
    [recs |-> Put(file.recs, file.len, rec), len |-> file.len + size]

\* file_read_buffer_by_head finds no size behind the end of the file: its
\* ret stays 0 and the buffer it returns is empty.
ItemAt(file, off) == IF off \in DOMAIN file.recs THEN file.recs[off] ELSE NoItem

ListAt(file, off) == IF off \in DOMAIN file.recs THEN file.recs[off] ELSE << >>

\* How far reading what starts at off advances in the file.
ItemStep(file, off) ==
    IF off \in DOMAIN file.recs THEN ItemSize(file.recs[off]) ELSE 0

ListStep(file, off) ==
    IF off \in DOMAIN file.recs THEN ListSize(file.recs[off]) ELSE 0

\* The document file of index f has no item left to read.
AtEnd(f) == docCur[f] \notin DOMAIN docFile[f].recs

-----------------------------------------------------------------------------
NoMemory ==
    /\ finalSave = FALSE
    /\ m_doc_count = 0
    /\ m_words = Nothing
    /\ wordPos = [f \in {"main", "temp", "query"} |-> Nothing]

NoLocals ==
    /\ vec = NoItem
    /\ todo = [f \in {"main", "temp"} |-> {}]
    /\ docCur = [f \in {"main", "temp"} |-> 0]
    /\ posCur = [f \in {"main", "temp"} |-> 0]
    /\ item = [f \in {"main", "temp"} |-> NoItem]
    /\ at = [f \in {"main", "temp"} |-> 0]
    /\ base = [f \in {"main", "temp"} |-> 0]
    /\ outIndex = Nothing

\* A first start: the manager's constructor has created its empty files.
Init ==
    /\ pc = "crawl"
    /\ NoMemory
    /\ NoLocals
    /\ wordFile = [f \in {"main", "temp"} |-> Nothing]
    /\ docFile = [f \in {"main", "temp", "mid"} |-> EmptyFile]
    /\ posFile = [f \in {"main", "temp", "mid"} |-> EmptyFile]
    /\ missing = {}
    /\ torn = FALSE
    /\ adds = 0
    /\ crashes = 0
    /\ faults = 0

-----------------------------------------------------------------------------
(* Search_Index_File_Manager::add_doc and Search_Index_File::add_doc.      *)

\* Mutant: the documents a word already has are forgotten.
PostingsForgotten(w) == Nothing

Postings(w) == IF w \in DOMAIN m_words THEN m_words[w] ELSE Nothing

AddDoc(d, c) ==
    /\ pc = "crawl"
    /\ adds < MaxAdds
    /\ m_words' = [w \in DOMAIN m_words \cup DOMAIN c |->
                     IF w \in DOMAIN c THEN Put(Postings(w), d, c[w])
                     ELSE m_words[w]]
    /\ m_doc_count' = (m_doc_count + 1) % BatchSize
    /\ pc' = IF m_doc_count' = 0 THEN "save_open" ELSE "crawl"
    /\ finalSave' = FALSE
    /\ adds' = adds + 1
    /\ UNCHANGED <<wordPos, locals, files, torn, crashes, faults>>

\* Mutant: main() goes on to serve without its save_index.
SaveIndexSkipped ==
    /\ pc = "crawl"
    /\ pc' = "init"
    /\ UNCHANGED <<memory, locals, files, history>>

\* main() saves what the crawl left behind.
SaveIndex ==
    /\ pc = "crawl"
    /\ pc' = "save_open"
    /\ finalSave' = TRUE
    /\ UNCHANGED <<m_doc_count, m_words, wordPos, locals, files, history>>

-----------------------------------------------------------------------------
(* Search_Index_File::save_index of the temp index.                        *)

SaveOpen ==
    /\ pc = "save_open"
    /\ docFile' = [docFile EXCEPT !["temp"] = EmptyFile]
    /\ posFile' = [posFile EXCEPT !["temp"] = EmptyFile]
    /\ todo' = [todo EXCEPT !["temp"] = DOMAIN m_words]
    /\ pc' = "save"
    /\ UNCHANGED <<memory, vec, docCur, posCur, item, at, base, outIndex,
                   wordFile, missing, history>>

\* Documents of word w whose posting is not yet in the item.
Unsaved(w) == DOMAIN m_words[w] \ Range(vec.docs)

\* One turn of the inner loop: the positions of the next document of w.
SavePosting(w, d) ==
    /\ pc = "save"
    /\ Least(w, todo["temp"])
    /\ Least(d, Unsaved(w))
    /\ LET poss == m_words[w][d]
           out == posFile["temp"]
       IN  /\ vec' = [docs |-> Append(vec.docs, d),
                      hits |-> Append(vec.hits, Len(poss)),
                      offs |-> Append(vec.offs, out.len % OffMod)]
           /\ posFile' = [posFile EXCEPT !["temp"] =
                            WriteRec(out, poss, ListSize(poss))]
    /\ UNCHANGED <<pc, memory, todo, docCur, posCur, item, at, base, outIndex,
                   wordFile, docFile, missing, history>>

\* The end of the outer loop's turn: the item of w and its term entry.
SaveItem(w) ==
    /\ pc = "save"
    /\ Least(w, todo["temp"])
    /\ Unsaved(w) = {}
    /\ LET out == docFile["temp"]
           written == WriteRec(out, vec, ItemSize(vec))
       IN  /\ docFile' = [docFile EXCEPT !["temp"] = written]
           /\ wordPos' = [wordPos EXCEPT !["temp"] =
                            Put(@, w, [doc_count |-> Len(vec.docs),
                                       start_offset |-> out.len,
                                       end_offset |-> written.len])]
    /\ vec' = NoItem
    /\ todo' = [todo EXCEPT !["temp"] = @ \ {w}]
    /\ UNCHANGED <<pc, finalSave, m_doc_count, m_words, docCur, posCur, item,
                   at, base, outIndex, wordFile, posFile, missing,
                   history>>

SaveClose ==
    /\ pc = "save"
    /\ todo["temp"] = {}
    /\ pc' = "save_words"
    /\ UNCHANGED <<memory, locals, files, history>>

SaveTempWords ==
    /\ pc = "save_words"
    /\ wordFile' = [wordFile EXCEPT !["temp"] = wordPos["temp"]]
    /\ pc' = "load"
    /\ UNCHANGED <<memory, locals, docFile, posFile, missing, history>>

-----------------------------------------------------------------------------
(* Search_Index_File::zipper_merge of temp (src) into main (dest).         *)

LoadWordIndexes ==
    /\ pc = "load"
    /\ missing = {}
    /\ wordPos' = [wordPos EXCEPT !["main"] = wordFile["main"],
                                  !["temp"] = wordFile["temp"]]
    /\ docFile' = [docFile EXCEPT !["mid"] = EmptyFile]
    /\ posFile' = [posFile EXCEPT !["mid"] = EmptyFile]
    /\ todo' = [f \in {"main", "temp"} |-> DOMAIN wordFile[f]]
    /\ docCur' = [f \in {"main", "temp"} |-> 0]
    /\ posCur' = [f \in {"main", "temp"} |-> 0]
    /\ outIndex' = Nothing
    /\ pc' = "zip"
    /\ UNCHANGED <<finalSave, m_doc_count, m_words, vec, item, at, base,
                   wordFile, missing, history>>

\* The next word of both indexes.
NextWord(w) == Least(w, todo["main"] \cup todo["temp"])

\* Mutant: signed arithmetic.
RebaseSigned(offs, new) == [i \in DOMAIN offs |-> offs[i] - offs[1] + new]

\* merge_doc_index rebases offsets on the item's first one, unsigned.
Rebase(offs, new) ==
    [i \in DOMAIN offs |-> (offs[i] - offs[1] + new) % OffMod]

\* The next word is in index f alone: its item and ONE position list move
\* to the middle files (merge_pos_index, merge_doc_index without conflict).
ZipCopy(f, g, w) ==
    /\ pc = "zip"
    /\ NextWord(w)
    /\ w \in todo[f] \ todo[g]
    /\ LET e == ItemAt(docFile[f], docCur[f])
           poss == ListAt(posFile[f], posCur[f])
           out == docFile["mid"]
           moved == [e EXCEPT !.offs = Rebase(e.offs, posFile["mid"].len)]
           written == WriteRec(out, moved, ItemSize(moved))
       IN  /\ docFile' = [docFile EXCEPT !["mid"] = written]
           /\ posFile' = [posFile EXCEPT !["mid"] =
                            WriteRec(@, poss, ListSize(poss))]
           /\ docCur' = [docCur EXCEPT ![f] = @ + ItemStep(docFile[f], @)]
           /\ posCur' = [posCur EXCEPT ![f] = @ + ListStep(posFile[f], @)]
           /\ outIndex' = Put(outIndex, w,
                              [doc_count |-> wordPos[f][w].doc_count,
                               start_offset |-> out.len,
                               end_offset |-> written.len])
    /\ todo' = [todo EXCEPT ![f] = @ \ {w}]
    /\ UNCHANGED <<pc, memory, vec, item, at, base, wordFile, missing, history>>

\* The next word is in both: one position list of each moves, and both
\* items are read (merge_doc_index with conflict, up to its loop).
ZipBoth(w) ==
    /\ pc = "zip"
    /\ NextWord(w)
    /\ w \in todo["main"] \cap todo["temp"]
    /\ LET mid == posFile["mid"]
           src == ListAt(posFile["temp"], posCur["temp"])
           dest == ListAt(posFile["main"], posCur["main"])
           first == WriteRec(mid, src, ListSize(src))
       IN  /\ base' = [temp |-> mid.len, main |-> first.len]
           /\ posFile' = [posFile EXCEPT !["mid"] =
                            WriteRec(first, dest, ListSize(dest))]
    /\ item' = [f \in {"main", "temp"} |-> ItemAt(docFile[f], docCur[f])]
    /\ at' = [f \in {"main", "temp"} |-> 0]
    /\ vec' = NoItem
    /\ docCur' = [f \in {"main", "temp"} |->
                    docCur[f] + ItemStep(docFile[f], docCur[f])]
    /\ posCur' = [f \in {"main", "temp"} |->
                    posCur[f] + ListStep(posFile[f], posCur[f])]
    /\ pc' = "zip_docs"
    /\ UNCHANGED <<memory, todo, outIndex, wordFile, docFile, missing, history>>

\* The item of index f still has postings.
More(f) == at[f] < Len(item[f].docs)

NextDoc(f) == item[f].docs[at[f] + 1]

Take(f) ==
    LET i == at[f] + 1
        e == item[f]
    IN  /\ vec' = [docs |-> Append(vec.docs, e.docs[i]),
                   hits |-> Append(vec.hits, e.hits[i]),
                   offs |-> Append(vec.offs,
                               (e.offs[i] - e.offs[1] + base[f]) % OffMod)]
        /\ at' = [at EXCEPT ![f] = i]
        /\ UNCHANGED <<pc, memory, todo, docCur, posCur, item, base, outIndex,
                       files, history>>

\* Mutants: temp's posting without a comparison, main's only if smaller.
TakeTempUnordered == pc = "zip_docs" /\ More("temp") /\ Take("temp")

TakeMainIfLess ==
    /\ pc = "zip_docs"
    /\ More("main")
    /\ More("temp") => NextDoc("temp") > NextDoc("main")
    /\ Take("main")

\* On equal ids the code takes main's posting and keeps temp's for later.
TakeTemp ==
    /\ pc = "zip_docs"
    /\ More("temp")
    /\ More("main") => NextDoc("temp") < NextDoc("main")
    /\ Take("temp")

TakeMain ==
    /\ pc = "zip_docs"
    /\ More("main")
    /\ More("temp") => NextDoc("temp") >= NextDoc("main")
    /\ Take("main")

\* Mutant: the count of the new postings alone.
MergedCountOfTemp(w) == wordPos["temp"][w].doc_count

MergedCount(w) == wordPos["temp"][w].doc_count + wordPos["main"][w].doc_count

\* The end of merge_doc_index with conflict, and the word's new entry.
ZipItem(w) ==
    /\ pc = "zip_docs"
    /\ NextWord(w)
    /\ ~More("main")
    /\ ~More("temp")
    /\ LET out == docFile["mid"]
           written == WriteRec(out, vec, ItemSize(vec))
       IN  /\ docFile' = [docFile EXCEPT !["mid"] = written]
           /\ outIndex' = Put(outIndex, w,
                              [doc_count |-> MergedCount(w),
                               start_offset |-> out.len,
                               end_offset |-> written.len])
    /\ todo' = [f \in {"main", "temp"} |-> todo[f] \ {w}]
    /\ vec' = NoItem
    /\ item' = [f \in {"main", "temp"} |-> NoItem]
    /\ at' = [f \in {"main", "temp"} |-> 0]
    /\ base' = [f \in {"main", "temp"} |-> 0]
    /\ pc' = "zip"
    /\ UNCHANGED <<memory, docCur, posCur, wordFile, posFile, missing, history>>

\* Both lists are done and the locals go out of scope.
ZipFinished ==
    /\ pc = "zip"
    /\ todo["main"] = {}
    /\ todo["temp"] = {}
    /\ wordPos' = [wordPos EXCEPT !["main"] = outIndex]
    /\ docCur' = [f \in {"main", "temp"} |-> 0]
    /\ posCur' = [f \in {"main", "temp"} |-> 0]
    /\ outIndex' = Nothing
    /\ UNCHANGED <<finalSave, m_doc_count, m_words, vec, todo, item, at, base,
                   docFile, posFile, missing, adds, crashes>>

\* save_word_index opens main's word file, which empties it.
ZipDone ==
    /\ ZipFinished
    /\ wordFile' = [wordFile EXCEPT !["main"] = Nothing]
    /\ pc' = "main_words"
    /\ UNCHANGED <<torn, faults>>

\* Mutant: the new word index is not written.
SaveMainWordsSkipped ==
    /\ pc = "main_words"
    /\ pc' = "rm_doc"
    /\ UNCHANGED <<memory, locals, files, history>>

SaveMainWords ==
    /\ pc = "main_words"
    /\ wordFile' = [wordFile EXCEPT !["main"] = wordPos["main"]]
    /\ pc' = "rm_doc"
    /\ UNCHANGED <<memory, locals, docFile, posFile, missing, history>>

\* move_file of the middle document file: remove, then rename.
RemoveDoc ==
    /\ pc = "rm_doc"
    /\ docFile' = [docFile EXCEPT !["main"] = EmptyFile]
    /\ missing' = missing \cup {"doc"}
    /\ pc' = "mv_doc"
    /\ UNCHANGED <<memory, locals, wordFile, posFile, history>>

\* Mutant: the rename fails, and nobody looks.
RenameDocFailed ==
    /\ pc = "mv_doc"
    /\ pc' = "rm_pos"
    /\ UNCHANGED <<memory, locals, files, history>>

RenameDoc ==
    /\ pc = "mv_doc"
    /\ docFile' = [docFile EXCEPT !["main"] = docFile["mid"],
                                  !["mid"] = EmptyFile]
    /\ missing' = missing \ {"doc"}
    /\ pc' = "rm_pos"
    /\ UNCHANGED <<memory, locals, wordFile, posFile, history>>

RemovePos ==
    /\ pc = "rm_pos"
    /\ posFile' = [posFile EXCEPT !["main"] = EmptyFile]
    /\ missing' = missing \cup {"pos"}
    /\ pc' = "mv_pos"
    /\ UNCHANGED <<memory, locals, wordFile, docFile, history>>

RenamePos ==
    /\ pc = "mv_pos"
    /\ posFile' = [posFile EXCEPT !["main"] = posFile["mid"],
                                  !["mid"] = EmptyFile]
    /\ missing' = missing \ {"pos"}
    /\ pc' = "clean"
    /\ UNCHANGED <<memory, locals, wordFile, docFile, history>>

\* Search_Index_File::clean of the temp index, and the return to the caller.
Clean ==
    /\ pc = "clean"
    /\ m_words' = Nothing
    /\ wordPos' = [wordPos EXCEPT !["temp"] = Nothing]
    /\ wordFile' = [wordFile EXCEPT !["temp"] = Nothing]
    /\ docFile' = [docFile EXCEPT !["temp"] = EmptyFile]
    /\ posFile' = [posFile EXCEPT !["temp"] = EmptyFile]
    /\ pc' = IF finalSave THEN "init" ELSE "crawl"
    /\ finalSave' = FALSE
    /\ UNCHANGED <<m_doc_count, locals, missing, history>>

\* Mutant: the word index is not loaded.
InitializeUnloaded ==
    /\ pc = "init"
    /\ pc' = "serve"
    /\ UNCHANGED <<memory, locals, files, history>>

\* Search_Index::initialize: set_index_file_path creates what is missing.
Initialize ==
    /\ pc = "init"
    /\ wordPos' = [wordPos EXCEPT !["query"] = wordFile["main"]]
    /\ missing' = {}
    /\ pc' = "serve"
    /\ UNCHANGED <<finalSave, m_doc_count, m_words, locals, wordFile, docFile,
                   posFile, history>>

-----------------------------------------------------------------------------
(* Deaths and restarts.                                                    *)

\* Main's word file has been emptied or replaced, its document file has not.
Window == {"main_words", "rm_doc", "mv_doc"}

\* The word file as far as it was written: its entries below some word.  Of a
\* line that is cut, load_word_index makes an entry by reading on in its buffer,
\* what was there before; a cut is taken to be between two lines.
WrittenParts(index) ==
    {[w \in {v \in DOMAIN index : v < k} |-> index[w]] : k \in DOMAIN index}
        \cup {Nothing, index}

\* A death in save_word_index leaves a part of the file, or the old one.
Interrupted(f, step) ==
    /\ pc = step
    /\ \E part \in WrittenParts(wordPos[f]) \cup {wordFile[f]} :
          wordFile' = [wordFile EXCEPT ![f] = part]

Die ==
    /\ pc' = "down"
    /\ finalSave' = FALSE
    /\ m_doc_count' = 0
    /\ m_words' = Nothing
    /\ wordPos' = [f \in {"main", "temp", "query"} |-> Nothing]
    /\ vec' = NoItem
    /\ todo' = [f \in {"main", "temp"} |-> {}]
    /\ docCur' = [f \in {"main", "temp"} |-> 0]
    /\ posCur' = [f \in {"main", "temp"} |-> 0]
    /\ item' = [f \in {"main", "temp"} |-> NoItem]
    /\ at' = [f \in {"main", "temp"} |-> 0]
    /\ base' = [f \in {"main", "temp"} |-> 0]
    /\ outIndex' = Nothing
    /\ UNCHANGED <<docFile, posFile, missing, adds, faults>>

Crash ==
    /\ pc \in CrashPoints
    /\ crashes + faults < MaxTroubles
    /\ Die
    /\ \/ Interrupted("main", "main_words")
       \/ Interrupted("temp", "save_words")
       \/ pc \notin {"main_words", "save_words"} /\ UNCHANGED wordFile
    /\ torn' = (torn \/ pc \in Window)
    /\ crashes' = crashes + 1

\* The item the word file promises is not in the document file: the decoded
\* offset vector is empty and its element 0 is read through a null pointer.
\* A build that drops the unused read goes on with an empty item instead.
ZipFault(w) ==
    /\ pc = "zip"
    /\ NextWord(w)
    /\ \E f \in {"main", "temp"} : w \in todo[f] /\ AtEnd(f)
    /\ Die
    /\ UNCHANGED <<wordFile, torn, crashes>>

\* zipper_merge asserts that main's files are there.  The middle files it has
\* just emptied are emptied by the next merge again.
MergeAbort ==
    /\ pc = "load"
    /\ missing # {}
    /\ Die
    /\ UNCHANGED <<wordFile, torn, crashes>>

\* A new process: set_index_file_path creates the files that are missing.
Restart ==
    /\ pc = "down"
    /\ pc' = "crawl"
    /\ missing' = {}
    /\ UNCHANGED <<memory, locals, wordFile, docFile, posFile, history>>

-----------------------------------------------------------------------------
(* Failed file operations.  Only save_index looks at what fopen returned,  *)
(* and its caller does not look at what it returned.                       *)

Fail ==
    /\ pc \in FaultPoints
    /\ crashes + faults < MaxTroubles
    /\ faults' = faults + 1

\* One of the two files cannot be opened; the other one has been emptied.
\* The merge that follows reads what it finds: nothing, since clean emptied
\* the temp files, unless a process died after it had written them.
SaveOpenFails ==
    /\ pc = "save_open"
    /\ Fail
    /\ docFile' \in {docFile, [docFile EXCEPT !["temp"] = EmptyFile]}
    /\ posFile' \in {posFile, [posFile EXCEPT !["temp"] = EmptyFile]}
    /\ docFile' = docFile \/ posFile' = posFile
    /\ torn' = (torn \/ wordFile["temp"] # Nothing)
    /\ pc' = "load"
    /\ UNCHANGED <<memory, locals, wordFile, missing, adds, crashes>>

\* save_word_index does nothing when it cannot open its file: temp's.
SaveTempWordsFails ==
    /\ pc = "save_words"
    /\ Fail
    /\ torn' = (torn \/ wordFile["temp"] # Nothing)
    /\ pc' = "load"
    /\ UNCHANGED <<memory, locals, files, adds, crashes>>

\* The same for main's, whose other files are replaced all the same.
SaveMainWordsFails ==
    /\ ZipFinished
    /\ Fail
    /\ torn' = TRUE
    /\ pc' = "rm_doc"
    /\ UNCHANGED wordFile

\* move_file has removed the old file, and its rename fails.
RenameDocFails ==
    /\ pc = "mv_doc"
    /\ Fail
    /\ torn' = TRUE
    /\ pc' = "rm_pos"
    /\ UNCHANGED <<memory, locals, files, adds, crashes>>

RenamePosFails ==
    /\ pc = "mv_pos"
    /\ Fail
    /\ pc' = "clean"
    /\ UNCHANGED <<memory, locals, files, torn, adds, crashes>>

FileFault ==
    \/ SaveOpenFails
    \/ SaveTempWordsFails
    \/ SaveMainWordsFails
    \/ RenameDocFails
    \/ RenamePosFails

-----------------------------------------------------------------------------
Save ==
    \/ SaveOpen
    \/ \E w \in Words, d \in Docs : SavePosting(w, d)
    \/ \E w \in Words : SaveItem(w)
    \/ SaveClose
    \/ SaveTempWords

Merge ==
    \/ LoadWordIndexes
    \/ \E w \in Words : ZipCopy("temp", "main", w)
    \/ \E w \in Words : ZipCopy("main", "temp", w)
    \/ \E w \in Words : ZipBoth(w)
    \/ TakeTemp
    \/ TakeMain
    \/ \E w \in Words : ZipItem(w)
    \/ ZipDone

Install ==
    \/ SaveMainWords
    \/ RemoveDoc
    \/ RenameDoc
    \/ RemovePos
    \/ RenamePos
    \/ Clean

\* The steps main()'s thread takes by itself.
Progress ==
    \/ SaveIndex
    \/ Save
    \/ Merge
    \/ Install
    \/ Initialize
    \/ MergeAbort
    \/ Restart

Next ==
    \/ \E d \in Docs, c \in Contents : AddDoc(d, c)
    \/ Progress
    \/ Crash
    \/ \E w \in Words : ZipFault(w)
    \/ FileFault

Spec == Init /\ [][Next]_vars

\* One thread runs the steps, so the enabled one is taken; the crawl ends
\* because what it traverses is finite.  Nothing obliges it to find a
\* document, nor the process to die, nor a file operation to fail.
LiveSpec == Spec /\ WF_vars(Progress)

-----------------------------------------------------------------------------
(* Properties.                                                             *)

IsPartial(f, S) == f = [k \in DOMAIN f |-> f[k]] /\ DOMAIN f \subseteq S

IsWordIndex(index) ==
    IsPartial(index, Words) /\ \A w \in DOMAIN index : index[w] \in TermIndexItem

IsFile(file, records) ==
    /\ file = [recs |-> file.recs, len |-> file.len]
    /\ file.len \in Nat
    /\ IsPartial(file.recs, Nat)
    /\ \A o \in DOMAIN file.recs : file.recs[o] \in records

Pair(S) == [{"main", "temp"} -> S]

\* Every variable keeps its type: word indexes map words to term items,
\* document files hold items and position files hold position lists.
TypeOK ==
    /\ pc \in Steps
    /\ finalSave \in BOOLEAN
    /\ m_doc_count \in 0 .. BatchSize - 1
    /\ IsPartial(m_words, Words)
    /\ \A w \in DOMAIN m_words :
          /\ IsPartial(m_words[w], Docs)
          /\ \A d \in DOMAIN m_words[w] : m_words[w][d] \in Seq(Nat) \ {<< >>}
    /\ DOMAIN wordPos = {"main", "temp", "query"}
    /\ \A f \in DOMAIN wordPos : IsWordIndex(wordPos[f])
    /\ vec \in Items
    /\ todo \in Pair(SUBSET Words)
    /\ docCur \in Pair(Nat)
    /\ posCur \in Pair(Nat)
    /\ item \in Pair(Items)
    /\ at \in Pair(Nat)
    /\ base \in Pair(Nat)
    /\ IsWordIndex(outIndex)
    /\ DOMAIN wordFile = {"main", "temp"}
    /\ \A f \in DOMAIN wordFile : IsWordIndex(wordFile[f])
    /\ DOMAIN docFile = {"main", "temp", "mid"}
    /\ \A f \in DOMAIN docFile : IsFile(docFile[f], Items)
    /\ DOMAIN posFile = {"main", "temp", "mid"}
    /\ \A f \in DOMAIN posFile : IsFile(posFile[f], Seq(Nat))
    /\ missing \subseteq {"doc", "pos"}
    /\ torn \in BOOLEAN
    /\ adds \in Nat
    /\ crashes \in Nat
    /\ faults \in Nat

Sorted(s) == \A i, j \in DOMAIN s : i < j => s[i] =< s[j]

(***************************************************************************)
(* The document ids of every item on disk are in ascending order, as the   *)
(* binary search of get_doc_word_count takes for granted ("doc_ids are     *)
(* already in order"): through every save and merge, whatever documents    *)
(* come back in a later batch, and after any crash.                        *)
(***************************************************************************)
PostingsSorted ==
    \A f \in {"main", "temp", "mid"} :
        \A o \in DOMAIN docFile[f].recs : Sorted(docFile[f].recs[o].docs)

(***************************************************************************)
(* The items of a document file lie in word order, back to back from byte  *)
(* 0 to the end of the file, where the word index says they are: exactly   *)
(* what reading the file front to back while walking the index needs.      *)
(***************************************************************************)
Tiled(index, file) ==
    /\ \A w \in DOMAIN index :
          /\ index[w].start_offset \in DOMAIN file.recs
          /\ index[w].end_offset =
                index[w].start_offset
                + ItemSize(file.recs[index[w].start_offset])
          /\ Least(w, DOMAIN index) => index[w].start_offset = 0
          /\ (\A v \in DOMAIN index : v =< w) => index[w].end_offset = file.len
    /\ \A v, w \in DOMAIN index :
          (v < w /\ \A u \in DOMAIN index : u =< v \/ u >= w)
              => index[v].end_offset = index[w].start_offset
    /\ DOMAIN index = {} => file.len = 0

(***************************************************************************)
(* What makes TypeOK and PostingsSorted inductive: the words a loop has    *)
(* still to reach are in the index it walks, the word being merged is in   *)
(* both, and the item being assembled is sorted and not above anything     *)
(* that may still join it.                                                 *)
(***************************************************************************)
TodoKnown ==
    /\ pc = "save" => todo["temp"] \subseteq DOMAIN m_words
    /\ pc \in {"zip", "zip_docs"} =>
          \A f \in {"main", "temp"} : todo[f] \subseteq DOMAIN wordPos[f]
    /\ pc = "zip_docs" =>
          \A w \in Words : NextWord(w) => w \in todo["main"] \cap todo["temp"]

SaveSorted ==
    pc = "save" =>
        /\ todo["temp"] = {} => vec = NoItem
        /\ Sorted(vec.docs)
        /\ \A w \in todo["temp"], i \in DOMAIN vec.docs :
              Least(w, todo["temp"]) =>
                  \A d \in Unsaved(w) : vec.docs[i] =< d

ZipSorted ==
    pc = "zip_docs" =>
        /\ Sorted(vec.docs)
        /\ \A f \in {"main", "temp"} :
              /\ Sorted(item[f].docs)
              /\ \A i \in DOMAIN vec.docs, j \in DOMAIN item[f].docs :
                    j > at[f] => vec.docs[i] =< item[f].docs[j]

SortedInv ==
    /\ PostingsSorted
    /\ pc \notin {"save", "zip_docs"} => vec = NoItem
    /\ SaveSorted
    /\ ZipSorted

\* Outside the window in which zipper_merge replaces them, and unless the
\* process once died inside it, main's word and document files agree.
MainTiled ==
    ~torn /\ pc \notin Window => Tiled(wordFile["main"], docFile["main"])

\* The index a query object serves from always addresses items of its
\* document file, even when an earlier process died in the window: the
\* save before initialize() has rewritten both files.  Only a failed file
\* operation can undo this.
ServedTiled ==
    pc = "serve" /\ faults = 0 => Tiled(wordPos["query"], docFile["main"])

\* doc_count, from which get_word_IDF computes, is the number of postings of
\* the word's item, unless the process once died in the window.
DocCountExact ==
    ~torn /\ pc \notin Window =>
        \A w \in DOMAIN wordFile["main"] :
            LET t == wordFile["main"][w]
            IN  t.doc_count = Len(docFile["main"].recs[t.start_offset].docs)

\* A merge of indexes that agree never reads behind the end of a document
\* file: file_read_buffer_by_head and pos_offset_vec[0] are then defined.
NoFault ==
    ~torn /\ pc = "zip" =>
        \A f \in {"main", "temp"} : todo[f] # {} => ~AtEnd(f)

(***************************************************************************)
(* The header comment of search_index.cpp promises, behind the doc list    *)
(* and the hit counts of an item, the "offset of every doc in position     *)
(* file": at each such offset a list with that document's hit count.       *)
(***************************************************************************)
OffsetsAddressLists ==
    pc = "serve" =>
        \A w \in DOMAIN wordPos["query"] :
            LET e == docFile["main"].recs[wordPos["query"][w].start_offset]
                lists == posFile["main"].recs
            IN  \A i \in DOMAIN e.offs :
                    /\ e.offs[i] \in DOMAIN lists
                    /\ Len(lists[e.offs[i]]) = e.hits[i]

\* With deaths limited, the process ends up serving queries for good: no
\* loop of the save or of the merge gets stuck, whatever the crashes left
\* behind, unless one of them hit the window.
UntornServes == <>[](pc = "serve" \/ torn)

\* A posting in memory reaches main's document file unless a process dies or
\* a file operation fails.
IndexedDocs(w) ==
    IF pc \notin Window /\ w \in DOMAIN wordFile["main"]
    THEN Range(docFile["main"].recs[wordFile["main"][w].start_offset].docs)
    ELSE {}

EventuallyIndexed ==
    \A w \in Words, d \in Docs :
        (w \in DOMAIN m_words /\ d \in DOMAIN m_words[w])
            ~> (crashes + faults > 0 \/ d \in IndexedDocs(w))

=============================================================================
