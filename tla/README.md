# A TLA+ model of LocalSearch

LocalSearch is a small full-text search engine: a crawl hands documents to an
inverted index kept in flat files, and an HTTP server answers questions from
that index. This directory specifies the program in TLA+, checks small
instances of it with TLC and proves theorems about it with TLAPS.

Paths of source files are relative to the root of the repository.

## 1. Inventory

| Part | State | Operations | Correct when |
|---|---|---|---|
| Index files: `Search_Index_File` (`src/search_index.cpp`) | `m_words` (postings in memory), `m_word_pos` (word index), three files: words, documents, positions | `add_doc`, `save_index`, `zipper_merge`, `load_word_index`, `save_word_index`, `clean` | the word index addresses whole items of the document file; items are sorted by document; no posting is lost or invented by a merge |
| Index manager: `Search_Index_File_Manager` | a main and a temp `Search_Index_File`, `m_doc_count` | `add_doc` (saves every 200 documents), `save_index` (write temp, merge, clean) | a batch is committed whole or not at all; nothing handed over is forgotten |
| Index queries: `Search_Index`, `Search_Query` | the main word index, two open files | `initialize`, `query_word`, `get_word_IDF`, `get_doc_word_count`, `query`, `get_similarity` | an answer holds exactly the documents with all the words, with their own counts |
| Document registry: `Search_DocID`, `Search_WordId` (`src/search_doc_word.cpp`) | maps in memory (`USE_DB` is 0), `m_docs_count` | `add_document`, `add_word`, `get_doc_path`, `get_doc_total_word_count`, `get_doc_count` | it knows every document the index knows, with the sum of its word counts |
| Codes (`src/search_util.cpp`) | none | `variable_byte_encode`/`decode`, `compress_data`/`decompress_data`, `regular_byte_*`, `move_file`, `truncate_file`, `create_file_if_nonexist` | decoding inverts encoding, within the buffers the callers allocate |
| Parser (`src/search_parser.cpp`) | `m_document`, the last document built | `parse_file`, `parse_text`, `get_document` | one posting per word id and document with all positions, in ascending order; no word is lost; every call ends |
| MD5 (`src/search_md5.cpp`) | `MD5_CTX`: bit count, state, a buffer of 64 bytes | `MD5Init`, `MD5Update`, `MD5Final`, `get_file_md5_code`, `get_buffer_md5_code` | the code depends on the bytes and not on the pieces they came in |
| Crawler (`src/search_crawl.cpp`) | configuration | `load_config`, `traverse_mysql` (never called); the traversals that call `add_doc` are commented out | the configuration read is the one written |
| HTTP server (`src/search_http_server.cpp`) | `m_listen_socket`, `m_exit`, the thread | `start_server`, the accept loop, `stop_server`, the encoding of questions | whoever asks gets the answer to its own question; one client's request does nothing to another's; the thread serves until it is stopped (it is not: section 4) |
| B+ tree `Search_DB` (`src/search_db.cpp`) | meta block, internal nodes and leaves in a file | constructor, `search`, `search_range`, `insert`, `update`, `remove` | a sorted map: every stored record is found, every block at least half full, the chain of leaves in order, parent and sibling links exact; unused while `USE_DB` is 0 |
| Segmentation, porting layer | - | the scws wrapper; threads, sockets, mutexes | - |
| Vendored: pugixml, `3rd/B+Tree` | - | - | - |

**How they interact.** `main()` runs everything in one thread: the crawl, then
`Search_Index_File_Manager::save_index`, then `Search_Index::initialize`, then
the HTTP server's thread, while `main()` sleeps. The crawl's contract with the
rest is a parsed document: the parser enters it in the registry
(`add_document`) and the traversal hands it to the manager (`add_doc`). The
manager and the query side share nothing but main's three files. The registry
is shared memory between parser and queries. The server's thread is the only
one that runs beside `main()`, which then sleeps; the two meet in the server's
object and in the kernel's descriptors.

**What is hard.**

- *Death of the process.* Saving a batch rewrites up to eight files in turn.
  `zipper_merge` overwrites main's word file before it moves the new document
  and position files into place, and `move_file` removes before it renames.
- *Failed file operations*: only `save_index` and `zipper_merge` look at what
  `fopen` returned; nobody looks at `rename` or at what `save_index` returned.
- *Ordering*: the merge reads document and position files front to back,
  driven by the words of the word index, and never uses the offsets stored
  there. Any disagreement shifts every later item to another word.
- *Documents that come back* in a later batch meet their own older posting.
- *Long sequences of calls*: only after many insertions and removals do the
  B+ tree's blocks split, lend, merge and the root collapse, in every
  combination; what one leaves stale (a parent field, a last key) another
  relies on much later.
- *Two readings of one file*: the parser opens a file once for its id and once
  for its words, and what a failed open leaves behind is the document of an
  earlier call.
- *Copies of the server*: `instance()` returns the server by value, so the
  thread, `start_server` and `stop_server` do not work on one object, and
  descriptor 0, which an untouched copy holds, is somebody's.
- *Arithmetic*: offsets are rebased in unsigned arithmetic, the variable byte
  code writes groups that are not needed, differences wrap.

The list of hazards, each at its line and with the properties that cover it,
is in `PROJECT.json`.

## 2. Modules

| Module | Models | Kind |
|---|---|---|
| `InvertedIndex` | what the manager promises its callers | abstract specification |
| `IndexStore` | `Search_Index_File`, the manager, `main()`'s order of steps, deaths and failed file operations | detailed specification |
| `IndexRefinement` | `IndexStore` implements `InvertedIndex` | refinement mapping |
| `SearchSystem` | `IndexStore` together with the registry and the query side | composition |
| `Parser`, over `MD5` | `Search_Parser`, what it calls of `Search_MD5`, the registries it fills, files that change | detailed specification, and the algorithm under it |
| `HttpServer` | the server's objects, its thread, `stop_server`, clients, the encoding of questions | detailed specification |
| `VarByte` | the variable byte code and its differences | algorithm |
| `SearchDB` | the B+ tree database, against the map its callers build | detailed specification |
| `IndexStoreProofs`, `IndexRefinementProofs`, `SearchProofs`, `ParserProofs` (with the proofs about `MD5`), `HttpServerProofs`, `VarByteProofs`, `SearchDBProofs`, `Induction` | - | theorems and their proofs |
| `MCIndexStore`, `MCSearchSystem`, `MCParser`, `MCHttpServer`, `MCVarByte`, `MCSearchDB` | - | small instances for TLC |

A definition whose comment starts with "Mutant" is a wrong variant of the
definition behind it and belongs to no specification: `PROJECT.json` lists,
for every property of every run, the variant that violates it.

### IndexStore

One process with a program counter `pc`. Every loop of the code is a loop of
actions, so the process can die between any two turns.

| Code | Actions |
|---|---|
| `Search_Index_File_Manager::add_doc` and `Search_Index_File::add_doc` | `AddDoc` |
| `main()` calling `save_index` | `SaveIndex` (`finalSave` says where to return to) |
| `save_index` of temp | `SaveOpen`, `SavePosting` (inner loop), `SaveItem` (outer loop), `SaveClose`, `SaveTempWords` |
| `zipper_merge`: loads and opens | `LoadWordIndexes`, `MergeAbort` (the assertion) |
| its loops, one word per step | `ZipCopy` (word in one index: the loop's second and third branch and both drains), `ZipBoth` (word in both) |
| `merge_doc_index` with conflict | `TakeTemp`, `TakeMain` (one posting per step), `ZipItem` |
| `merge_doc_index` without conflict, `merge_pos_index` | inside `ZipCopy`, `ZipBoth` |
| end of `zipper_merge` | `ZipDone` (opening the word file empties it), `SaveMainWords`, `RemoveDoc`, `RenameDoc`, `RemovePos`, `RenamePos` |
| `clean` | `Clean` |
| `Search_Index::initialize` | `Initialize` |
| constructor after a death | `Restart` |
| a death | `Crash`; `ZipFault` where the code reads element 0 of an empty vector |
| failed `fopen` or `rename` | `SaveOpenFails`, `SaveTempWordsFails`, `SaveMainWordsFails`, `RenameDocFails`, `RenamePosFails` |

A file is a record of `recs`, a function from the byte a record starts at to
what decoding it yields, and `len`. Encoded sizes are real: an item takes
12 + (IdBytes + 8) n bytes for n documents, a position list 4 + PosBytes n. The
code's encoded ids and positions vary from one to five bytes; here they have
one size each, a constant. That the bytes decode to what was encoded is the
subject of `VarByte`, and of the fixed four byte code nothing is left to say.
The C library's buffering is not modelled: temp and middle files are rewritten
from scratch by whoever uses them next, so what part of them a death leaves
matters only through the temp word file, of which `Crash` keeps any part, as
it does of main's.

Main's loops choose the least word (`NextWord`) because `std::map` iterates in
key order; `SavePosting` takes the least document likewise.

### SearchSystem

`IndexStore`'s actions joined with the registry and with the parser's last
document, `m_document`: `CrawlDoc` is the end of a `parse_*` call that registers
its document, together with `AddDoc`. A `parse_file` whose file does not open
leaves `m_document` alone and registers nothing, and the traversal calls `add_doc`
all the same: `CrawlStale` hands the document of before over once more, and
`CrawlNull`, where there is none, reads through a null pointer and ends the
process. `again` counts the unregistered hand-overs. `Query` is `Search_Query::query` down
to the counts `get_similarity` asks for; `Death` empties what is in memory.
The server answers one question at a time while nothing else runs, so a
question is one step. `get_doc_word_count` searches for the word's id, as the
code does. When a failed file operation has left offsets that point into the
middle of items, `QueryGarbled` and `QueryFault` allow any documents, or a
death.

Of the ranking the model keeps what decides whether `std::sort` is given an
order: the weights of `build_query_vec` (by place in the question, added up for
a word that is asked for again), whether a word's IDF is a number, zero or
infinite, and hence whether a cosine is a number or 0/0 (`CosineIsNumber`).
`given` and `fresh` are history variables: what was ever parsed, and what the
running process parsed.

After a restart `get_doc_count` starts from 0 over an index that has kept its
documents, IDFs are negative or infinite, and `get_doc_total_word_count` of a
document of before is 0, so its cosine is no number; documents of the running
process still have one, or none of them has (`CosinesComparable`). `IdfDefined` is of a process that did
all the indexing itself.

### Parser and MD5

| Code | Actions |
|---|---|
| `get_file_md5_code`: open, the `fread` loop, `MD5Final` | `ParseFile`, `HashRead`, `HashDone` |
| `parse_file`: `fopen` | `OpenFails`, `OpenFile` |
| its `while (!feof(file))` | `ReadBlock`, `ReadEnd`, `ReadError` (a read that fails sets no end of file) |
| its loop over the words of a block | `EnterKnown`, `EnterNew`, `BlockDone` |
| `parse_text` up to its loop | `ParseText` |
| `add_document` at the end of both | `Register` |
| the traversal: `add_doc(get_document())` | `Hand`; `HandNull` where there is no document yet |
| anybody else | `Edit`: a file changes, appears or goes while it is not open |

The file is opened twice, and `Edit` may come in between. If the second open
fails the call reports nothing and `m_document` is that of the call before: the
traversal hands it over again (`CrawlStale` of `SearchSystem`).

`Segment` and the two codes are constants. `BufferCode`, for a word or an
identity, is one `MD5Update` with all of it: a function of the text
(`WordCode`). `FileCode` takes many pieces. The code also adds in `state[4]`,
one word past the state array, which is the first word of the buffer; so the id
is a function of the blocks transformed and of what the buffer starts with
(`DocCode`). `MD5` keeps the blocks themselves where the code keeps the four
words its rounds make of them: two runs with equal blocks have equal states,
and that the blocks are right is what `IdIsDigest` says. Ids may collide, and
in the instance words with the same letters do.

### HttpServer

| Code | Actions |
|---|---|
| `start_server` up to `listen`, with its failures | `StartServer` |
| `thread_create` | `CreateThread` (0 is returned with or without a thread) |
| `stop_server` | `StopInstance` (the copy), `StopExit`, `StopShutdown`, `StopClose` |
| `while(false==m_exit)`, the argument of `accept` | `Loop` |
| `accept` | `Accept`, `AcceptFails` |
| `recv`, the two `strstr`, `url_decode` | `Recv`; of a request that is no search, `RecvOther` or `RecvKills`; `RecvNothing` (the other end is gone: the empty question is asked) |
| query, the joining of the answer | `SearchWords` |
| `send` | `Send`, `SendKills` (SIGPIPE) |
| `closesocket` | `Close` |
| clients | `Connect`, `Ask`, `HangUp` |

`instance()` returns by value. The object `start_server` fills, whose address
the thread keeps, is a temporary; `stop_server` works on a copy of the
singleton, which nobody ever wrote to. The singleton is static, so its members
are 0: `m_exit` is false, and the socket is descriptor 0. Whether the two
temporaries get the same memory is up to the build: `shared` is chosen in
`Init`, and otherwise the memory behind the thread's `this` is taken to stay as
it was. What is not the server's, `zero`, is descriptor 0: at first the
standard input, and, once `stop_server` has closed it, the next client's
socket. A request arrives in one piece. `NoSearch` stands for one without
`GET /?search=` or ` HTTP/1.1`, as for a page's icon, or longer than the buffers:
`recv_request` looks at neither result of `strstr`, so the process ends
(`RecvKills`), or, if the uninitialised buffer still holds both texts, asks some
other question (`RecvOther`).

### VarByte

The loops of `variable_byte_encode` and `variable_byte_decode`, one byte per
step, and the differences around them. `GroupBits` (7 in the code) and
`WordBits` (32) are constants.

### SearchDB

One caller; the file is three variables: the meta block, and the internal
nodes and leaves by offset. Offsets are numbered in the order `alloc` hands
them out. A block that was merged away stays in the file, as in the code, and
stale parents keep pointing at it.

| Code | Actions |
|---|---|
| constructor with `force_empty`, and without | `Init`, `Open` |
| `insert` into a leaf with room, and into a full one | `InsertRecord`, `InsertSplit` |
| `insert_key_to_index`, one level per step | `IndexRoot`, `IndexKey`, `IndexSplit` |
| `update` | `Update` |
| `remove`: alone, after a loan, with a merge | `RemoveRecord`, `BorrowLeft`, `BorrowRight`, `RemoveMerge` |
| `change_parent_child`, one level per step | `ChangeKey` |
| `remove_from_index`, one level per step | `ShrinkRoot`, `ShrinkNode`, `NodeBorrowsLeft`, `NodeBorrowsRight`, `NodeMerges` |
| `search`, `search_range` | `Lookup`, `search_range` (operators: they change nothing) |

The code calls `change_parent_child` before it writes the leaves; nothing reads
the leaves in between, so the leaf step comes first here. `lower_bound` and
`upper_bound` are the bisection of the C++ library, since `keycmp` is no order
on all keys. The last key of an internal node takes no part in a search; the
code leaves the root's uninitialised, here `Garbage`, which is below every key
so that a comparison with it shows. The code moves four bytes of every
`off_t` and `size_t`; the model is of the builds where these have four
(32 bit), elsewhere the upper halves of what `map` fills are uninitialised.
`stored` is a history variable: the map the calls since the last emptying
build.

## 3. Runs

| Run | Shows | Instance |
|---|---|---|
| `index_crash` | all invariants of `IndexStore`, and that the process ends up serving | 2 words, 2 documents, 3 contents, batches of 2, 3 additions, 2 troubles: deaths anywhere or failed operations |
| `index_refine` | whole batches are committed or lost, despite a death outside the replacement window, or a failed open of a temp file; every posting handed over is eventually in main's document file if nothing fails | the same, 4 additions, 1 trouble |
| `search` | answers are sound and complete, document frequencies are defined but for unregistered hand-overs, the ranking compares numbers | as `index_crash`, with an empty content besides, and 4 questions: each word, both, one of them twice |
| `parser` | ids are MD5's of the content, positions and totals agree, every byte is in a block and every word of a block entered, calls end | 2 paths, 3 contents, blocks of 8 bytes and words of 2 for MD5, reads of 5 bytes, 2 calls, 1 edit |
| `http` | whose answer a client gets, who is cut off, that every question is answered | 2 clients, 2 questions and a request that is none, 2 calls of `stop_server`, 1 failure of `accept` |
| `varbyte_small` | the code round-trips, fits its buffer and terminates | every array of up to two 5 bit values, groups of 2 bits |
| `db_calls` | lookups and range queries agree with the calls, chain, counts, occupancy and parent links are right, calls end | order 4; any calls with 6 keys and 2 values on two leaves; 17 rising keys, then any calls with the lowest 7; 13 falling keys, then any calls with the highest 6 |
| `index_offsets`, `search_counts` | findings 1 and 2 (violations) | 3 and 2 additions |
| `db_reopen`, `db_lend`, `db_collapse` | findings 3 to 5 (violations) | 1 record; 30 keys and order 6; 11 keys and order 4 |

**Why the bounds are enough.** Two words are the least for which an item can
be attributed to the wrong word and for which one index can lack a word in
front of and behind another. Two documents with batches of two and three
additions give: a merge into an empty main, a merge of two non-empty indexes, a
document that comes back in the same batch and in a later one, and equal ids
in both items. One content has a word twice, so hit counts and list sizes
differ. Two troubles (`MaxTroubles`) leave any state the files can be left in
by one process, and strike again while the second one recovers from it. In
`index_refine` one is the limit because two do break the promise: a process
dies behind its temp word file, and the next one's temp files cannot be
opened, so it merges what the first one left. `OffMod` = 1024 is above every
file length of these instances and makes a negative difference visible. Values
of five bits in groups of two are, like the code's 32 and seven, a width that
is no multiple of the group: a value has up to three bytes, the highest of
them not full, and every bit length that is a multiple of the group occurs.

The parser's longest content is more than two MD5 blocks and four reads long;
`HashRead` may return any number of bytes, so every cut into pieces occurs, and
with words of two bytes the bit count carries from its low word into its high
one. A word of that content lies on the border of two reads and occurs again
elsewhere, and another begins exactly at a border. Two calls are the least for
which a call can hand over the document of another; one edit can fall between
the two readings, or make a file vanish or unreadable between two calls.

For the server two clients suffice for one to be cut off by the other, and two
calls of `stop_server` for one to free a descriptor and the other to close it
again when a client has got it. The questions hold a percent sign and a byte
above 127; `MCHttpServer` assumes, and so has TLC evaluate, that decoding undoes
either encoding for every byte alone and behind a percent sign.

Trees grow with the order, so `SearchDB`'s runs use blocks of four entries
(20 in the code), the least for which a half full block has two. Two levels of
internal nodes need 11 keys that fall or 14 that rise; callers (`Callers`) that
load these in one order and are then free with the keys of one end reach every
loan, merge, split and the collapse of the root in a few thousand states. A
caller's `slots` stops insertions that would split a leaf once that many blocks
were handed out. With these bounds `db_calls` ends before the condition of
finding 5 arises, and with order 4 a node that borrows has one child left, so
finding 4 cannot; its trees are also too small for the third defect of this kind
(section 4, the stale last key). What `db_calls` shows of `FindsStored` is the
rest of the algorithm. `ParentLinks` leaves out the root's own parent (finding 5).

`CHECK_DEADLOCK FALSE` is set for the runs of `IndexStore` alone (a process
that serves, with no death left, has nothing to do there), for `parser` (the
process is dead once a null document was handed over, and idle once it has made
its calls) and for `http` (the thread waits in `accept` for clients that are all
gone, or in a build or failure without a thread nobody does anything). The runs
of `SearchSystem`, `VarByte` and `SearchDB` check for deadlock.

**What holds only under a condition.**

- `MainTiled`, `DocCountExact`, `NoFault`, `AnswersSound` and `UntornServes` do
  not promise anything once `torn`: a death between the opening of main's word
  file and the renaming of its document file, or a failed operation there,
  leaves files that disagree, and the next merge then pairs items with the
  wrong words. `ServedTiled` and `AnswersComplete` hold even then, because the
  final save rewrites both files from one walk.
- `EventuallyIndexed` promises nothing once a process has died or an operation
  failed: a batch may then be lost.
- `IdfDefined` speaks of a process that did all the indexing. A document that is
  handed over again without being registered may be counted once more than the
  registry counts, so the bound is the registry's count and `again`; where that
  count is above the registry's alone, the code's IDF is negative.
- `CosinesComparable` says that there are never some numbers and some not among
  what is sorted, which would be no order: in every state, after deaths and
  failures too, if the items that are read are whole. It speaks of documents the
  registry has words of (`Ranked`): one of an earlier process, or one that comes
  back empty, has total 0 and no cosine. That the cosines are numbers if a document
  lacks a word asked for is said only of one process that has registered whatever it
  handed over; for a question whose words every document has, all are 0/0, which
  compares equal.
- `BlocksEntered` is about the words the segmentation finds in the blocks;
  `UncutWordsEntered` compares these with the words of the whole text. It leaves
  out words on the border of two reads, which are entered as two, and is checked
  with a segmentation that finds a word also in a part of the text it lies in
  (`PartsSegmentAlike` of `MCParser`), which no library promises.
- `PositionsPoint` states what the code does: the first position of a word in a
  file is the start of the block it was found in (`src/search_parser.cpp:52`),
  all others are the word's.
- `CallsEnd` of `Parser` leaves out a file that can be opened and not read, for
  which the loop never ends.
- `CutOnlyByOthers` names the three ways in which a client is cut off: another one
  hung up, another one (or itself) sent what is no search, or `stop_server` was
  called twice.
- `EveryoneServed` leaves out a thread that does not exist (after a failed
  `thread_create` clients connect and nobody answers) or has ended, and counts
  a client that was cut off as done.

**Fairness.** `LiveSpec` has weak fairness of `Progress`, the disjunction of
the steps `main()`'s thread takes by itself, among which at most one kind is
enabled at a time; a restart is among them, so a process that died is started
again. Nothing is assumed of `AddDoc` (the crawl may end at any time, and does
end: `SaveIndex` stays enabled in "crawl"), of `Crash`, nor of failed
operations. `Parser` has weak fairness of `Step`, the steps of a call that has
begun, and nothing of the calls or of `Edit`. `HttpServer` has weak fairness of
`main()`'s steps, of a call of `stop_server` that has begun and of the thread,
each of which runs on by itself; and each client that has connected asks or
hangs up in the end, since otherwise the thread waits in `recv` for ever.
Nobody has to connect, or to call `stop_server`. `VarByte` has weak fairness of
its loops, and `SearchDB` of the steps up the tree: a call of the database does
not wait for anything.

## 4. Findings

1. `merge_pos_index` (`src/search_index.cpp:392`) moves one position list per
   word; `save_index` writes one per document of the word. From the first word
   with two documents on, stored offsets address other lists or none
   (`index_offsets`). Nothing in the program reads the position file yet.
2. `get_doc_word_count` (`src/search_index.cpp:752`) looks for the word's id in
   the list of document ids, so a document's similarity is computed from
   another document's count (`search_counts`).

The next concern `src/search_db.cpp`.

3. The constructor empties an existing database (`:44`): `map` returns the
   number of blocks read, 1, where the vendored original (`3rd/B+Tree/bpt.h:208`)
   returns 0 (`db_reopen`). With a file that does not exist it would seek in a
   null `FILE`.
4. An internal node that borrows from the left loses its first separator
   (`:383`), and the records below it are not found (`db_lend`).
5. After the root collapses (`:295`) the new root's parent is the old root; when
   it splits, half the tree is entered there and no longer found
   (`db_collapse`).

Findings 4 and 5 are in the vendored original as well. More places where
reading for the model showed what the code does, for which no run is kept:

- A node's last key, which no search looks at, is stale after its last two
  children merged, and becomes a separator when the node itself merges
  (`src/search_db.cpp:467`, where the line that would refresh it is commented
  out). With order 4, 24 falling keys and the removal of 13 and 23,
  `FindsStored` fails.
- `search_range` reports a page that is full at the end of a leaf as the last
  (`src/search_db.cpp:115`): `next` of the operator `search_range` is then false.
- `keycmp` (`src/search_db.h:27`) is no order for unsigned keys half the width
  apart or more. With `KeyMod` = 8, keys 1 and 5 are each less than the other,
  and 5 can be stored twice.
- `stop_server` misses the server (`src/search_http_server.h:14`): it works on a
  copy, never reaches the listening socket, and ends the thread only in builds in
  which the copy lies where the thread's object lay. No document or comment says
  what it should do, so this is no finding. After a failed `setsockopt` the new
  socket is left open.
- A request that is no search, as a browser's for the page's icon, ends the process
  or asks what an earlier request left in the buffer
  (`src/search_http_server.cpp:156`), and every other client is cut off.
- The registry is not saved across a restart (`USE_DB` is 0), though the header
  of `src/search_doc_word.h` says it is kept in a database.
- A document that is handed over again after a failed open
  (`src/search_parser.cpp:14`) raises the count of its words' documents, if its
  batch was saved in between, and not `m_docs_count` (`CrawlStale`, `again`). Before
  there is a document, the failed open ends the process (`CrawlNull`, `HandNull`).
- `remove_from_index` writes the child of a full node's last entry behind the array
  (`src/search_db.cpp:284`), on the stack; the model leaves that write out.
- Of a line of a word file that a death has cut, `load_word_index`
  (`src/search_index.cpp:45`) makes an entry by reading on in its buffer; the model
  cuts word files between lines, and in what is then left nothing is promised
  anyway (`torn`).
- `load_config` (`src/search_crawl.cpp:61`) reads the port, user and password
  from the attribute `host`, and every table and field from the node of the
  database (`iter` where `iter2` and `iter3` are meant); `traverse_mysql` builds
  its statement from `tb_fields[i]` where `j` counts.

## 5. Proofs

All theorems are for any values of the constants that satisfy the named
assumptions of the modules:

- `IndexAssumption`: words and documents are naturals, batch and byte sizes are
  positive, a content maps finitely many words to nonempty sequences of
  naturals (a word gets into `DocItem` with its first hit);
- `QuestionsAssumption`: questions are sequences of words;
- `ParserAssumption`: the segmentation returns words in the order of the text,
  not empty, and each lies in the text at the offset it is returned with (`Lies`);
- `MD5Assumption`: the two words of the length fit a block, and hold as many
  bytes as the module says they do;
- `VarByteAssumption`: a group is not wider than a word, and arrays are of words;
- `HttpAssumption`: questions and answers are sequences of bytes;
- `TreeAssumption`: the order of a tree is even and at least 4, keys are positive
  numbers of a width that has a half, and callers use keys and values.

**`Induction`** has what the other modules need of induction. The library's
theorems about it take an operator as a parameter, which no installed prover can
instantiate; here they are stated of a set of numbers, the set of those for
which the claim holds. From that come the recursion theorem for functions on the
naturals, the powers of a base with the rules of quotients and remainders, and
sums over finite sets.

**`IndexStoreProofs`**

- `TypeCorrect`: `Spec => [](TypeOK /\ TodoKnown)`. `TypeOK` alone is not
  inductive: a loop reads `wordPos[f][w]` and `m_words[w]` for the words of
  `todo`, so `TodoKnown` adds that these are in the index the loop walks, and
  that the word being merged is in both.
- `SortedPostings`: `Spec => []PostingsSorted`. The strengthening `SortedInv`
  says of the item being assembled that it is sorted and not above anything
  that may still be appended: in `save_index` the least document not yet
  taken, in `merge_doc_index` the rest of both items, each of which is sorted
  because it was read from a file. It covers deaths and failed operations,
  since no property of `torn` is needed.
- `MainIsTiled`, `ServedIsTiled`, `CountsExact` and `NeverFaults`, from one
  invariant, `TileInv`. A finished file is tiled by the items of its index; of a
  file that is being written, the items written so far tile it up to its end and
  belong to the words before those in `todo`; and the read position of each
  index is at the item of its next word, or, while that word's item is being
  assembled, behind it. The step that matters is the one to the next word: the
  end of its item is where the item of the least remaining word starts, which
  needs that a set of naturals has a least element and that the words done
  precede the words to do. What is said of the middle file needs nothing of
  `torn`: it is tiled even if the files it was merged from are not, which is why
  `ServedTiled` survives a tear and `MainTiled` does not.

**`IndexRefinementProofs`**: `StoreImplementsIndex`, that every behaviour of
`Spec` is one of `InvertedIndex` under the mapping of `IndexRefinement`, given
`SafeTroubles`: no death in the replacement window, no failures but of temp's
opens, and not both deaths and failures unless only one trouble in all.
The last is needed: a failed open after a death would merge what the death left
in temp's files. The invariant `RefInv`, on top of `TileInv`, counts postings:
temp's items have what is in memory (`SaveBags`, `SaveVec`), the middle file's
have main's and temp's together (`ZipBags`), and the item being merged has what
was taken of both so far (`TakeBags`). `ZipDone`, with which the middle file is
whole, is the step that commits, and all other steps of a save are stutters.

**`SearchProofs`**

- `AnswersAreSound`: `SearchSpec => []AnswersSound`. The invariant `GivenInv`
  says of every file, index and item on the way (memory, temp's files, the
  loaded indexes, the item being merged, the middle file, main's files) that its
  postings were given. The store's invariants are carried along, and kept also
  by a death over a garbled item, a step `IndexStore` alone does not have.
- `AnswersAreComplete`: `SearchSpec => []AnswersComplete`. `FreshInv` follows
  what the running process parsed: it is in memory, or the process has saved
  before, main's index can be walked from item to item, and main has it; while
  temp is written, it is still to be written or in temp; while the files are
  merged, it is in an index whose read position is right, and in the middle file
  once its word has passed. Main's files may be torn by an earlier process: then
  a posting cannot be in main alone, since this process has not replaced main
  yet.
- `IdfIsDefined`: `SearchSpec => []IdfDefined`. The document count of a word is
  bounded by the number of hand-overs (`m_docs_count` and `again`), but not while the
  word is counted in more than one place, and `CountInv` bounds the sum: its count in
  main's word file and the documents memory has of it; in the merge, its count
  in the new index and what is to come from both old ones. A document that is
  handed over again, registered or not, adds one hand-over and at most one to each
  word, and its posting in main stays beside the new one. That temp's counts are
  memory's takes a step of its own for every posting that moves from memory to the
  item. All of it holds only of a process that did all the indexing: the registry
  dies with a process and the index does not.
- `CosinesAreComparable`: `SearchSpec => []CosinesComparable`. Whether an IDF is a
  number, zero or infinite is a matter of the word, and hit counts are above 0 in
  any item that can be read; so the cosines of the registered documents are numbers
  or not together, wherever the index came from. For the second part `CountInv` is
  proved with a bound of a word's own, `Bound(w)`: a word that some document of
  the registry never had is counted at least once less often than documents were
  handed over. `LastKnown` is needed for the hand-overs without registration: the
  document handed over again is one the process has parsed.
- `SearchTypesAreCorrect`: `SearchSpec => []SearchTypeOK`: that what is served
  has the types of the code's maps, the answer included.

**`ParserProofs`**

- `TypeCorrect`, `AscendingPositions`. The first position of a word is the start
  of its block and the others are the words' own, so their order is not that of
  one counter; `AscendInv` says that every position is before the words of the
  block still to come, or before the next block.
- `PositionsPointAtWords`: `Spec => []PositionsPoint`. `PointInv` says of the
  words of a block that are still to be entered where in the text they lie,
  which is where the block does: `fread`'s pieces, put one behind the other, are
  the content up to the file position.
- `BlockWordsAreEntered`: `Spec => []BlocksEntered`, of any segmentation. `EnterInv`
  says of every byte that it lies in a block or is ahead of the reading, and of
  every word of a block begun that it is entered or waits; when the end of the file
  is seen nothing is ahead, since only a read that leaves nothing sees it. Where the
  blocks lie is `PointInv`'s.
- `TotalsAreSums`: `Spec => []TotalsAgree`. The total of the registry is the sum
  of the hit counts over the words of the document, a sum over a finite set in
  which each word that is entered changes one summand by one.
- `IdsAreDigests`: `Spec => []IdIsDigest`. The document id a call computes from
  pieces of any lengths is MD5 of the content as one message. `StreamOf` is what
  the object holds when it was given a message: its full blocks are in the state, the rest
  is at the front of the buffer, and the count of bits is the message's, in two words with the carry of the first in the
  second. The update keeps it whether the piece fills the buffer, several blocks
  or none, and the final call pads with one block or with two.

**`HttpServerProofs`**: `TypeCorrect` (whoever is served is a client),
`CutByOthers`, for which `CutInv` keeps account of whose descriptor
the number 0 is; `EncodingRoundTrips`, that `url_decode` undoes
both ways the page may encode a question, for every sequence of bytes, by
induction over its length; and with it `AnswersToOwnQuestions`.

**`VarByteProofs`**: `TypeCorrect`, `RoundTripExact`, `DecodedInOrder`,
`BufferSuffices` and `BufferNotLeft`, for words and groups of any width, hence
also for the code's 32 bits in groups of seven. The invariant ties the loops to
the arithmetic of the code: what has been shifted out of a value and what is
left of it make up the value, and the bytes written decode to the values done.
The buffer has room for one byte more per value than the quotient of the two
widths, and no value has more groups than that.

**`SearchDBProofs`**: every invariant that the runs of `SearchDB` check, for any
order, callers and number of calls, on two premises. `KeysNear`: keys are less
than half the width of a key apart; otherwise `keycmp` is no order (section 4).
`[][~Underflow]_vars`: no removal leaves its leaf less than half full, since the
loans and merges that follow lose records (findings 4 and 5). Insertions with all
their splits, up to new roots, updates, other removals and reopenings are covered.

- `InsertedIsFound` (`FindsStored`): a search finds every stored record with its
  value and no other.
- `ParentsAreNamed` (`ParentLinks`): every block but the root names the node it
  hangs under.
- `ChainListsStored` (`ChainIsMap`): the chain of leaves lists the stored records
  in order, and the same backwards, while an insertion climbs, too.
- `TreeFitsChain` (`TreeIsChain`): the leaves under the nodes are the chain, in
  its order, and the meta block counts the blocks.
- `BlocksAreFilled` (`Occupied`): no block is overfull, and none but the root or
  an only leaf less than half full.
- `TreeTypesAreCorrect` (`TypeOK`).
- `RangesAreReturned` (`RangeIsPrefix`): a range query returns the first records
  of the range, as many as there are or are asked for.

The invariant, `InOrder`, says that there is a way to give each block a level and
an interval of keys, such that blocks of one level do not overlap, a leaf holds
exactly the stored records of its interval, leaves are chained in both directions
by the ends of their intervals, a node's separators divide its interval among its
children, children name their node as parent, and the root is at the top, has all
keys and no parent (`Tree`). What a node above leads to is
kept apart from what a block has (`top` and `hi`): while an insertion is on its
way up, the two differ for the block that was split, and its new sibling is led
to by no node (`Pending`). It has to follow the parent field of the block that was
split, which the code copies to the new one and corrects in the children of the
right half of a node (`SplitNodeTree`); that no child of the left half is among
them is because intervals do not overlap. The way down (`SearchIs`) is an
induction over the levels, and the bisection of `lower_bound` and `upper_bound`
(`BisectFinds`) one over the length of what is left to search.

What follows for whole levels and for the chain rests on one notion: a sequence
of blocks tiles an interval if each block's begins where the one's before ends
(`Tiles`). The root tiles all keys; the children of blocks that tile an interval
tile it, too (by induction over the levels down to level 0); the chain, followed
from the first leaf until there is no next one, tiles it as well. Two tilings by
disjoint blocks are the same sequence, and it has every leaf in it. The records
of a tiling, one leaf behind the other, are the sorted map cut to the interval,
and a sorted sequence of given records is unique; a range query is the same for
a tiling whose first and last leaf are cut.

How many blocks there are and how full is a second invariant on top, `Measured`:
the meta block counts the blocks of each kind and hands out slots in order, every
leaf but an only one and every node but the root is at least half full, and every
leaf names a node as parent. It is not inductive by itself: when the root splits,
what was the root becomes an inner node, hence the halves are counted before
(`RootHalved`). `TypeOK` needs both invariants: that children are blocks of the
file is the tree's, that slots are not given twice is the count's.

The proofs go action by action: one lemma per group of actions and part of the
invariant, on top of lemmas about what `WriteRec`, `ItemAt`, `Append`, sequences
and partial functions do.

Every invariant that a passing run checks but one is stated by a theorem, those of
`SearchDB` on the premises named above. Only model-checked:

- `UncutWordsEntered`: it is true of a segmentation that treats parts of a text like
  the whole, and such a premise would say of the library what it does not promise.
- `SearchDB` in the presence of loans and merges. The run `db_calls` has them, in
  trees in which they go well; findings 4 and 5 are trees in which they do not, so
  that no theorem holds of all.
- All liveness (`UntornServes`, `EventuallyIndexed`, `EveryoneServed`,
  `CallsEnd`, `Terminates`): fairness and `ENABLED` are out of the prover's
  reach.

## 6. Not modelled

- Vendored code: pugixml (11,500 of the repository's 16,900 lines of source), of
  which only the unused configuration is read, and `3rd/B+Tree`, which is not
  built. `SearchDB` models the program's own edition of the latter.
- The crawler: `load_config` reads a configuration that `traverse_mysql` alone
  would use, which nothing calls and which drops the rows it fetches. The
  commented-out traversals are modelled by the calls they make.
- Of the porting layer the mutexes, events, semaphores and clocks, which nobody
  uses; threads and sockets are steps of `HttpServer`.
- `USE_DB` 1, which is not built.
- What the rounds of MD5 do to a block; what words the segmentation finds.
- The floating point of `get_similarity`, hence the ranking itself.
- Requests that arrive in pieces.
- Failed `fwrite` (a full disk), power loss, and the failed opens of `clean`,
  `initialize`, `zipper_merge`'s own files and the truncating helpers.
- Offsets beyond the widths of `int` and `unsigned`.
- Deaths between the writes of a B+ tree operation: while the constructor
  empties every file it opens, what they leave is never read.

## 7. Plan

In this order, most important first; items 1 to 6 exist.

1. `IndexStore`, `InvertedIndex`, `IndexRefinement`, `SearchSystem`, `VarByte`.
2. `SearchDB`.
3. `HttpServer`; `Parser` over `MD5`; the weights and the cosines of a question.
4. `TypeCorrect`, `SortedPostings`; the tiling invariants; the refinement.
5. Soundness and completeness of answers; the theorems of parser and server.
6. The counts behind the IDF and the cosines; MD5 of a message in pieces; the
   byte code for every width; the B+ tree while leaves stay half full.
7. What is left to model: a sorted map as the abstract specification of
   `SearchDB`, a registry that survives restarts, deaths between the block
   writes of a `SearchDB` whose constructor is mended, and offsets of bounded
   width in the merge.
