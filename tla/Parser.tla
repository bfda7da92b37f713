------------------------------- MODULE Parser -------------------------------
(***************************************************************************)
(* Search_Parser with what it calls: the two passes of parse_file over a   *)
(* file (one for the document's id, one for its words), parse_text, and    *)
(* the two registries every document and word is entered in.  The caller   *)
(* is a traversal: parse, then hand get_document() to the index.           *)
(*                                                                         *)
(* Files may change, vanish or be unreadable whenever they are not open.   *)
(***************************************************************************)
EXTENDS MD5, FiniteSets, SequencesExt, FiniteSetsExt

CONSTANTS
    Paths,         \* what the traversal visits, and names of texts
    Absent,        \* no file
    Unreadable,    \* a file that can be opened and not read: a directory
    Contents,      \* what may be in a file or text: sequences of bytes
    HashBytes,     \* buffer of get_file_md5_code (5 MB)
    ReadBytes,     \* buffer of parse_file (1 MB)
    Segment(_),    \* scws: the words of a text and where they start
    DocCode(_, _), \* document id from the state and the word behind it
    WordCode(_),   \* id of a text that lies in one buffer
    NULL,
    MaxCalls,      \* bound: parses
    MaxEdits       \* bound: changes of files

SegValue == [word : Seq(Nat), off : Nat]

\* The pieces of a text that fread may return.
Pieces(c) == {SubSeq(c, i, j) : i \in 1 .. Len(c) + 1, j \in 0 .. Len(c)}

\* The word of a segment is what lies in the text at its offset.
Lies(v, t) ==
    /\ v.word # << >>
    /\ v.off + Len(v.word) =< Len(t)
    /\ v.word = SubSeq(t, v.off + 1, v.off + Len(v.word))

\* Of the library: words are in the order of the text, inside it and not empty.
ASSUME ParserAssumption ==
    /\ HashBytes \in Nat \ {0}
    /\ ReadBytes \in Nat \ {0}
    /\ MaxCalls \in Nat
    /\ MaxEdits \in Nat
    /\ Paths \subseteq Seq(Nat)
    /\ \A c \in Contents :
          /\ c \in Seq(Nat)
          /\ \A t \in Pieces(c) :
                /\ Segment(t) \in Seq(SegValue)
                /\ \A i \in DOMAIN Segment(t) : Lies(Segment(t)[i], t)
                /\ \A i, j \in DOMAIN Segment(t) :
                      i < j => Segment(t)[i].off < Segment(t)[j].off

VARIABLES
    files,          \* what lies at each path
    pc,             \* the next step
    kind,           \* the call: "file" or "text"
    path,           \* its argument
    left,           \* what the open file, or the text, still holds
    eof,            \* feof(file)
    ctx,            \* the MD5 context of get_file_md5_code
    doc_id,         \* its result
    m_document,     \* the last document built
    file_read_pos,  \* bytes before the running block
    length,         \* bytes of the running block
    words,          \* its words not yet entered
    word_count,     \* words entered
    word_db,        \* Search_WordId: [ids -> words]
    docs_db,        \* Search_DocID: [ids -> path and total word count]
    hashed,         \* history: the content the id was computed from
    body,           \* history: the content the words were read from
    borders,        \* history: where the blocks of the second pass start
    calls, edits    \* history: parses, changes of files

pass1 == <<left, ctx, doc_id, hashed>>
pass2 == <<m_document, file_read_pos, length, words, word_count, eof, body,
           borders>>
registries == <<word_db, docs_db>>
outside == <<files, edits>>
vars == <<pc, kind, path, calls, pass1, pass2, registries, outside>>

Put(f, k, v) == [x \in DOMAIN f \cup {k} |-> IF x = k THEN v ELSE f[x]]

Nothing == [x \in {} |-> {}]

\* What a file gives to who reads it.
Bytes(file) == IF file = Unreadable THEN << >> ELSE file

NoLocals ==
    /\ kind = "file"
    /\ path = << >>
    /\ left = << >>
    /\ eof = FALSE
    /\ ctx = MD5Init
    /\ doc_id = 0
    /\ file_read_pos = 0
    /\ length = 0
    /\ words = << >>
    /\ word_count = 0
    /\ hashed = Absent
    /\ body = << >>
    /\ borders = {}

Init ==
    /\ files \in [Paths -> Contents \cup {Absent, Unreadable}]
    /\ pc = "idle"
    /\ NoLocals
    /\ m_document = NULL
    /\ word_db = Nothing
    /\ docs_db = Nothing
    /\ calls = 0
    /\ edits = 0

\* What is at a path may change whenever the program does not have it open.
Edit(p, f) ==
    /\ edits < MaxEdits
    /\ pc \in {"idle", "open"}
    /\ files' = [files EXCEPT ![p] = f]
    /\ edits' = edits + 1
    /\ UNCHANGED <<pc, kind, path, calls, pass1, pass2, registries>>

-----------------------------------------------------------------------------
(* get_file_md5_code and get_buffer_md5_code.                              *)

\* One update with the whole buffer: a function of the text.
BufferCode(text) == WordCode(text)

\* state[4] is the word behind the state: the first one of the buffer.
FileCode(c) == DocCode(c.state, SubSeq(c.buffer, 1, WordBytes))

ParseFile(p) ==
    /\ pc = "idle"
    /\ calls < MaxCalls
    /\ calls' = calls + 1
    /\ kind' = "file"
    /\ path' = p
    /\ ctx' = MD5Init
    /\ doc_id' = 0
    /\ hashed' = files[p]
    /\ IF files[p] = Absent
       THEN pc' = "open" /\ left' = << >>
       ELSE pc' = "hash" /\ left' = Bytes(files[p])
    /\ UNCHANGED <<pass2, registries, outside>>

\* fread fills its buffer unless the file ends.  Here it may always return
\* less, so that the digest is checked for every cut into pieces.
HashRead ==
    /\ pc = "hash"
    /\ \E n \in 1 .. Len(left) :
          /\ n =< HashBytes
          /\ ctx' = MD5Update(ctx, SubSeq(left, 1, n))
          /\ left' = SubSeq(left, n + 1, Len(left))
    /\ UNCHANGED <<pc, kind, path, calls, doc_id, hashed, pass2, registries,
                   outside>>

HashDone ==
    /\ pc = "hash"
    /\ left = << >>
    /\ ctx' = MD5Final(ctx)
    /\ doc_id' = FileCode(ctx')
    /\ pc' = "open"
    /\ UNCHANGED <<kind, path, calls, left, hashed, pass2, registries, outside>>

-----------------------------------------------------------------------------
(* The second pass.                                                        *)

NewDocument(id, p) == [doc_id |-> id, doc_path |-> p, words |-> Nothing]

\* Nothing is reported, and m_document is still that of an earlier call.
OpenFails ==
    /\ pc = "open"
    /\ files[path] = Absent
    /\ pc' = "done"
    /\ UNCHANGED <<kind, path, calls, pass1, pass2, registries, outside>>

OpenFile ==
    /\ pc = "open"
    /\ files[path] # Absent
    /\ m_document' = NewDocument(doc_id, path)
    /\ left' = Bytes(files[path])
    /\ body' = left'
    /\ word_count' = 0
    /\ file_read_pos' = 0
    /\ length' = 0
    /\ eof' = FALSE
    /\ borders' = {}
    /\ pc' = "read"
    /\ UNCHANGED <<kind, path, calls, ctx, doc_id, hashed, words, registries,
                   outside>>

\* Mutant: the last word is kept for a next block that may not come.
BlockWordsButLast(block) ==
    SubSeq(Segment(block), 1, Len(Segment(block)) - 1)

\* Mutant: a short read is the end, and its bytes are not looked at.
BlockWordsOfFull(block) ==
    IF Len(block) < ReadBytes THEN << >> ELSE Segment(block)

BlockWords(block) == Segment(block)

\* Only a read that asks for more than there is sets the end of file.
ReadBlock ==
    /\ pc = "read"
    /\ ~eof
    /\ left # << >>
    /\ length' = Min({ReadBytes, Len(left)})
    /\ words' = BlockWords(SubSeq(left, 1, length'))
    /\ left' = SubSeq(left, length' + 1, Len(left))
    /\ eof' = (length' < ReadBytes)
    /\ borders' = borders \cup {file_read_pos}
    /\ pc' = "words"
    /\ UNCHANGED <<kind, path, calls, ctx, doc_id, hashed, m_document,
                   file_read_pos, word_count, body, registries, outside>>

\* Mutant: a read of nothing is no end.
ReadEndIgnored ==
    /\ pc = "read"
    /\ ~eof
    /\ left = << >>
    /\ UNCHANGED vars

ReadEnd ==
    /\ pc = "read"
    /\ ~eof
    /\ left = << >>
    /\ files[path] # Unreadable
    /\ eof' = TRUE
    /\ UNCHANGED <<pc, kind, path, calls, pass1, m_document, file_read_pos,
                   length, words, word_count, body, borders, registries, outside>>

\* An error is no end of file: the loop reads nothing for ever.
ReadError ==
    /\ pc = "read"
    /\ files[path] = Unreadable
    /\ UNCHANGED vars

ParseText(p, text) ==
    /\ pc = "idle"
    /\ calls < MaxCalls
    /\ calls' = calls + 1
    /\ kind' = "text"
    /\ path' = p
    /\ doc_id' = BufferCode(p)
    /\ m_document' = NewDocument(doc_id', p)
    /\ words' = Segment(text)
    /\ word_count' = 0
    /\ file_read_pos' = 0
    /\ length' = Len(text)
    /\ left' = << >>
    /\ body' = text
    /\ borders' = {0}
    /\ hashed' = Absent
    /\ pc' = "words"
    /\ UNCHANGED <<ctx, eof, registries, outside>>

\* Mutant: the offset in the block alone.
PositionInBlock == Head(words).off

\* Mutant: counted from one.
PositionFromOne == file_read_pos + Head(words).off + 1

\* Mutant: of the block's end, as if file_read_pos were advanced already.
PositionFromEnd == file_read_pos - length + Head(words).off

Position == file_read_pos + Head(words).off

\* parse_file notes the start of the block for the first of a word.
FirstPosition == IF kind = "file" THEN file_read_pos ELSE Position

WordId == BufferCode(Head(words).word)

\* Mutant: only words that are new to the document.
CountedNew ==
    word_count + IF WordId \in DOMAIN m_document.words THEN 0 ELSE 1

Counted == word_count + 1

\* A word whose id the document has, or another word of that id.
EnterKnown ==
    /\ pc = "words"
    /\ words # << >>
    /\ WordId \in DOMAIN m_document.words
    /\ m_document' = [m_document EXCEPT !.words[WordId].positions =
                        Append(@, Position)]
    /\ words' = Tail(words)
    /\ word_count' = Counted
    /\ UNCHANGED <<pc, kind, path, calls, pass1, file_read_pos, length, eof,
                   body, borders, registries, outside>>

EnterNew ==
    /\ pc = "words"
    /\ words # << >>
    /\ WordId \notin DOMAIN m_document.words
    /\ m_document' = [m_document EXCEPT !.words =
                        Put(@, WordId, [word |-> Head(words).word,
                                        positions |-> <<FirstPosition>>])]
    /\ word_db' = Put(word_db, WordId, Head(words).word)
    /\ words' = Tail(words)
    /\ word_count' = Counted
    /\ UNCHANGED <<pc, kind, path, calls, pass1, file_read_pos, length, eof,
                   body, borders, docs_db, outside>>

BlockDone ==
    /\ pc = "words"
    /\ words = << >>
    /\ kind = "file"
    /\ file_read_pos' = file_read_pos + length
    /\ pc' = "read"
    /\ UNCHANGED <<kind, path, calls, pass1, m_document, length, words,
                   word_count, eof, body, borders, registries, outside>>

\* Search_DocID::add_document at the end of both functions.
Register ==
    /\ \/ pc = "read" /\ eof
       \/ pc = "words" /\ words = << >> /\ kind = "text"
    /\ docs_db' = Put(docs_db, m_document.doc_id,
                      [path |-> path, word_count |-> word_count])
    /\ pc' = "done"
    /\ UNCHANGED <<kind, path, calls, pass1, pass2, word_db, outside>>

-----------------------------------------------------------------------------
(* The traversal hands get_document() on, whatever the parse returned.     *)

\* The locals of a call that has returned.
Forget ==
    /\ kind' = "file"
    /\ path' = << >>
    /\ left' = << >>
    /\ eof' = FALSE
    /\ ctx' = MD5Init
    /\ doc_id' = 0
    /\ file_read_pos' = 0
    /\ length' = 0
    /\ words' = << >>
    /\ word_count' = 0
    /\ hashed' = Absent
    /\ body' = << >>
    /\ borders' = {}

Hand ==
    /\ pc = "done"
    /\ m_document # NULL
    /\ pc' = "idle"
    /\ Forget
    /\ UNCHANGED <<m_document, calls, registries, outside>>

\* add_doc follows the null pointer.
HandNull ==
    /\ pc = "done"
    /\ m_document = NULL
    /\ pc' = "dead"
    /\ UNCHANGED <<kind, path, calls, pass1, pass2, registries, outside>>

Hash == HashRead \/ HashDone

Read == OpenFails \/ OpenFile \/ ReadBlock \/ ReadEnd \/ ReadError

Enter == EnterKnown \/ EnterNew \/ BlockDone \/ Register

Step == Hash \/ Read \/ Enter \/ Hand \/ HandNull

Next ==
    \/ \E p \in Paths : ParseFile(p)
    \/ \E p \in Paths, text \in Contents : ParseText(p, text)
    \/ \E p \in Paths, f \in Contents \cup {Absent, Unreadable} : Edit(p, f)
    \/ Step

\* The crawl's thread runs on.
Spec == Init /\ [][Next]_vars /\ WF_vars(Step)

-----------------------------------------------------------------------------
(* Properties.                                                             *)

Building == pc \in {"read", "words"}

Listed(id) == m_document.words[id].positions

\* Documents map word ids to a word and where it is; counters count.
TypeOK ==
    /\ files \in [Paths -> Contents \cup {Absent, Unreadable}]
    /\ pc \in {"idle", "hash", "open", "read", "words", "done", "dead"}
    /\ kind \in {"file", "text"}
    /\ path \in Paths \cup {<< >>}
    /\ left \in Seq(Nat)
    /\ eof \in BOOLEAN
    /\ file_read_pos \in Nat
    /\ length \in Nat
    /\ words \in Seq(SegValue)
    /\ word_count \in Nat
    /\ borders \subseteq Nat
    /\ m_document # NULL =>
          /\ m_document.doc_path \in Paths
          /\ \A id \in DOMAIN m_document.words :
                Listed(id) \in Seq(Nat)

\* The id get_file_md5_code computes is that of the message MD5 defines,
\* whatever pieces the file was read in, the word behind the state included.
IdIsDigest ==
    pc = "open" /\ hashed # Absent =>
        LET blocks == Blocks(Padded(Bytes(hashed)))
        IN  doc_id = DocCode(blocks, SubSeq(blocks[Len(blocks)], 1, WordBytes))

\* A word's positions ascend, though the first is another kind of number
\* than the rest.
PositionsAscend ==
    m_document # NULL =>
        \A id \in DOMAIN m_document.words :
            \A i, j \in DOMAIN Listed(id) :
                i < j => Listed(id)[i] < Listed(id)[j]

\* A word with that id begins at each position; only the first one in a file
\* is where a block begins.
PositionsPoint ==
    Building =>
        \A id \in DOMAIN m_document.words : \A i \in DOMAIN Listed(id) :
            LET p == Listed(id)[i]
            IN  IF kind = "file" /\ i = 1 THEN p \in borders
                ELSE \E n \in 1 .. Len(body) - p :
                        BufferCode(SubSeq(body, p + 1, p + n)) = id

\* The total get_similarity divides by is the sum of the word counts it
\* divides: for the document of every call that ended, though the next call
\* may have failed and hand the same document over again.
TotalsAgree ==
    pc \in {"idle", "done"} /\ m_document # NULL =>
        /\ m_document.doc_id \in DOMAIN docs_db
        /\ docs_db[m_document.doc_id].path = m_document.doc_path
        /\ docs_db[m_document.doc_id].word_count =
              MapThenSumSet(LAMBDA id : Len(Listed(id)), DOMAIN m_document.words)

\* What lies behind a border: the whole text, or what fread was to bring.
BlockAt(b) ==
    IF kind = "text" THEN body
    ELSE SubSeq(body, b + 1, Min({b + ReadBytes, Len(body)}))

\* The blocks leave no byte of the content out, and every word the library
\* finds in one of them is in the document and in the registry.
BlocksEntered ==
    pc = "done" /\ body # << >> =>
        /\ \A i \in DOMAIN body : \E b \in borders : i \in b + 1 .. b + Len(BlockAt(b))
        /\ \A b \in borders : \A w \in Range(Segment(BlockAt(b))) :
              /\ BufferCode(w.word) \in DOMAIN m_document.words
              /\ BufferCode(w.word) \in DOMAIN word_db

\* No word of the whole text is lost that lies within one block, if the words
\* found in a part are those of the text that lie in it.
UncutWordsEntered ==
    pc = "done" /\ body # << >> =>
        \A w \in Range(Segment(body)) :
            \/ \E b \in borders : w.off < b /\ b < w.off + Len(w.word)
            \/ /\ BufferCode(w.word) \in DOMAIN m_document.words
               /\ BufferCode(w.word) \in DOMAIN word_db

Unreads == pc = "read" /\ files[path] = Unreadable

\* Every call ends, unless it reads what cannot be read.
CallsEnd == (pc # "idle") ~> (pc \in {"idle", "dead"} \/ Unreads)

=============================================================================
