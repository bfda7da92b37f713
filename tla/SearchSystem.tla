---------------------------- MODULE SearchSystem ----------------------------
(***************************************************************************)
(* The whole program of search_main.cpp: the crawl registers every parsed  *)
(* document with Search_DocID and hands it to the index manager, then      *)
(* the index is loaded and Search_Query answers questions from it.         *)
(*                                                                         *)
(* Search_DocID keeps what it knows in memory (USE_DB is 0); the index is  *)
(* on disk.  The HTTP thread answers one question at a time while main()   *)
(* sleeps, so a question is one step.                                      *)
(*                                                                         *)
(* The parser keeps the document it made last.  A file that cannot be      *)
(* opened leaves it there, and the crawl, which does not look at what      *)
(* parse_file returned, hands it over once more: the index counts it, the  *)
(* registry does not.                                                      *)
(***************************************************************************)
EXTENDS IndexStore, FiniteSetsExt

CONSTANT Questions   \* what may be asked: sequences of word ids

ASSUME QuestionsAssumption == Questions \subseteq Seq(Words)

VARIABLES
    docs_db,       \* Search_DocID: [some docs -> total word count]
    m_docs_count,  \* Search_DocID: calls of add_document
    m_document,    \* Search_Parser: the document it made last, {} for NULL
    answer,        \* the last question, its documents and their word counts
    given,         \* history: <<doc, word>> of every document ever handed over
    fresh,         \* history: the same, of the running process alone
    again          \* history: its hand-overs that were not registered

registry == <<docs_db, m_docs_count>>
parser == <<m_document, again>>
searchVars == <<vars, registry, parser, answer, given, fresh>>

NoAnswer == [asked |-> << >>, docs |-> {}, counts |-> Nothing]

SearchInit ==
    /\ Init
    /\ docs_db = Nothing
    /\ m_docs_count = 0
    /\ m_document = {}
    /\ answer = NoAnswer
    /\ given = {}
    /\ fresh = {}
    /\ again = 0

-----------------------------------------------------------------------------
\* The index manager's add_doc.
HandOver(d, c) ==
    /\ AddDoc(d, c)
    /\ given' = given \cup ({d} \X DOMAIN c)
    /\ fresh' = fresh \cup ({d} \X DOMAIN c)
    /\ UNCHANGED answer

\* Mutant: a document that comes back is not counted again.
CrawlDocCountedOnce(d, c) ==
    /\ HandOver(d, c)
    /\ docs_db' = Put(docs_db, d, MapThenSumSet(LAMBDA w : Len(c[w]), DOMAIN c))
    /\ m_docs_count' = m_docs_count + (IF d \in DOMAIN docs_db THEN 0 ELSE 1)
    /\ m_document' = {[doc |-> d, words |-> c]}
    /\ UNCHANGED again

\* Search_Parser::parse_text, or parse_file of a file that opens, and the
\* hand-over of the document it made.
CrawlDoc(d, c) ==
    /\ HandOver(d, c)
    /\ docs_db' = Put(docs_db, d, MapThenSumSet(LAMBDA w : Len(c[w]), DOMAIN c))
    /\ m_docs_count' = m_docs_count + 1
    /\ m_document' = {[doc |-> d, words |-> c]}
    /\ UNCHANGED again

\* parse_file of a file that does not open: the document of before is handed
\* over once more.
CrawlStale ==
    /\ \E last \in m_document : HandOver(last.doc, last.words)
    /\ again' = again + 1
    /\ UNCHANGED <<registry, m_document>>

\* The same before there is a document: add_doc reads through NULL.
CrawlNull ==
    /\ pc = "crawl"
    /\ m_document = {}
    /\ crashes + faults < MaxTroubles
    /\ Die
    /\ crashes' = crashes + 1
    /\ UNCHANGED <<wordFile, torn>>

-----------------------------------------------------------------------------
(* Search_Index, the query side of the index.                              *)

\* The item read_item_from_doc_index finds at the word's start_offset.
ItemOf(w) == ItemAt(docFile["main"], wordPos["query"][w].start_offset)

Known(w) == w \in DOMAIN wordPos["query"]

\* Mutant: the last document is left out.
query_wordButLast(w) ==
    IF Known(w)
    THEN {ItemOf(w).docs[i] : i \in DOMAIN ItemOf(w).docs \ {Len(ItemOf(w).docs)}}
    ELSE {}

query_word(w) == IF Known(w) THEN Range(ItemOf(w).docs) ELSE {}

\* std::lower_bound as an index from 0.
LowerBound(s, x) == Cardinality({i \in DOMAIN s : s[i] < x})

\* The search is for word_id, not for doc_id.  One past the last count lies
\* the size of the offset list, four bytes an offset.
get_doc_word_count(doc_id, word_id) ==
    LET e == ItemOf(word_id)
        index == LowerBound(e.docs, word_id)
    IN  IF ~Known(word_id) THEN -1
        ELSE IF index < Len(e.hits) THEN e.hits[index + 1]
        ELSE 4 * Len(e.offs)

\* Mutant: the documents of any of the words.
DocListOfAny(q) == UNION {query_word(q[i]) : i \in DOMAIN q}

\* Search_Query::query: the documents of the first word, then intersected
\* with those of each other word.  A word asked for again changes nothing.
DocList(q) ==
    IF q = << >> THEN {}
    ELSE {d \in query_word(q[1]) : \A i \in DOMAIN q : d \in query_word(q[i])}

\* Mutant: the last word of a question weighs nothing.
WeightFromNone(i, len) == len - i

\* The word at the front weighs most.
Weight(i, len) == len - i + 1

\* The weights of a word that is asked for again are added up.
build_query_vec(q) ==
    [w \in Range(q) |->
        MapThenSumSet(LAMBDA i : Weight(i, Len(q)), {i \in DOMAIN q : q[i] = w})]

\* What becomes of the logarithm of get_doc_count() / count: without documents
\* it is infinite, and 0 for a word that is in all of them.
get_word_IDF(w) ==
    IF ~Known(w) \/ m_docs_count = 0 THEN "infinite"
    ELSE IF wordPos["query"][w].doc_count = m_docs_count THEN "zero"
    ELSE "number"

get_doc_total_word_count(d) == IF d \in DOMAIN docs_db THEN docs_db[d] ELSE 0

\* Neither of get_similarity's vectors has length 0, and no operand is
\* infinite: their cosine is a number.
CosineIsNumber(q, d) ==
    LET weights == build_query_vec(q)
        idf(w) == get_word_IDF(w)
    IN  /\ MapThenSumSet(LAMBDA w : weights[w], Range(q)) # 0
        /\ get_doc_total_word_count(d) # 0
        /\ \A w \in Range(q) : idf(w) # "infinite"
        /\ \E w \in Range(q) : idf(w) # "zero" /\ weights[w] # 0
        /\ \E w \in Range(q) : idf(w) # "zero" /\ get_doc_word_count(d, w) # 0

\* Only a failed file operation leaves a word index whose offsets point into
\* the middle of items: what is read there is no item.
Garbled(q) ==
    \E w \in Range(q) :
        /\ Known(w)
        /\ LET off == wordPos["query"][w].start_offset
           IN  off < docFile["main"].len /\ off \notin DOMAIN docFile["main"].recs

\* Mutant: every document of the registry is ranked.
QueryRanksAll(q) ==
    /\ pc = "serve"
    /\ ~Garbled(q)
    /\ answer' = [asked |-> q,
                  docs |-> DocList(q),
                  counts |-> [d \in DOMAIN docs_db |->
                                [w \in Range(q) |-> get_doc_word_count(d, w)]]]
    /\ UNCHANGED <<vars, registry, parser, given, fresh>>

\* get_similarity asks for the count of every word in every document.
Query(q) ==
    /\ pc = "serve"
    /\ ~Garbled(q)
    /\ answer' = [asked |-> q,
                  docs |-> DocList(q),
                  counts |-> [d \in DocList(q) |->
                                [w \in Range(q) |-> get_doc_word_count(d, w)]]]
    /\ UNCHANGED <<vars, registry, parser, given, fresh>>

\* Any documents may come back, with counts that mean nothing (here -1), or
\* a size read from the wrong bytes ends the process.
QueryGarbled(q) ==
    /\ pc = "serve"
    /\ Garbled(q)
    /\ \E docs \in SUBSET Docs :
          answer' = [asked |-> q, docs |-> docs,
                     counts |-> [d \in docs |-> [w \in Range(q) |-> -1]]]
    /\ UNCHANGED <<vars, registry, parser, given, fresh>>

QueryFault(q) ==
    /\ pc = "serve"
    /\ Garbled(q)
    /\ Die
    /\ UNCHANGED <<wordFile, torn, crashes>>

-----------------------------------------------------------------------------
\* Steps of the store that leave the registry alone.
StoreStep ==
    /\ SaveIndex \/ Save \/ Merge \/ Install \/ Initialize \/ Restart \/ FileFault
    /\ UNCHANGED <<registry, parser, answer, given, fresh>>

\* The registry, the parser and the answer die with the process.
Death ==
    /\ \/ Crash
       \/ CrawlNull
       \/ MergeAbort
       \/ \E w \in Words : ZipFault(w)
       \/ \E q \in Questions : QueryFault(q)
    /\ docs_db' = Nothing
    /\ m_docs_count' = 0
    /\ m_document' = {}
    /\ answer' = NoAnswer
    /\ fresh' = {}
    /\ again' = 0
    /\ UNCHANGED given

SearchNext ==
    \/ \E d \in Docs, c \in Contents : CrawlDoc(d, c)
    \/ CrawlStale
    \/ \E q \in Questions : Query(q)
    \/ \E q \in Questions : QueryGarbled(q)
    \/ StoreStep
    \/ Death

SearchSpec == SearchInit /\ [][SearchNext]_searchVars

-----------------------------------------------------------------------------
(* Properties.                                                             *)

\* The registry counts documents, the answer lists documents and counts.
SearchTypeOK ==
    /\ IsPartial(docs_db, Docs)
    /\ \A d \in DOMAIN docs_db : docs_db[d] \in Nat
    /\ m_docs_count \in Nat
    /\ again \in Nat
    /\ m_document \subseteq [doc : Docs, words : Contents]
    /\ answer.asked \in Questions \cup {<< >>}
    /\ answer.docs \subseteq Docs
    /\ DOMAIN answer.counts = answer.docs
    /\ \A d \in answer.docs :
          answer.counts[d] \in [Range(answer.asked) -> Int]
    /\ fresh \subseteq given
    /\ given \subseteq Docs \X Words

Asked == Range(answer.asked)

\* Every document in an answer was once parsed with each word asked for,
\* through whatever batches, merges and restarts, unless a process died
\* while the main index was being replaced.
AnswersSound ==
    ~torn => \A d \in answer.docs, w \in Asked : <<d, w>> \in given

\* Every document this process parsed with the words asked for is in the
\* answer, even over an index an earlier process left torn, unless a file
\* operation failed.
AnswersComplete ==
    Asked # {} /\ faults = 0 =>
        \A d \in Docs :
            (\A w \in Asked : <<d, w>> \in fresh) => d \in answer.docs

\* The logarithm get_word_IDF takes is of a count that is at most the
\* registry's, while a single process has done all the indexing, so that no IDF
\* is negative or infinite; only documents handed over once more for a file that
\* did not open take a count above it, each by one at most.
IdfDefined ==
    pc = "serve" /\ crashes = 0 /\ faults = 0 =>
        \A w \in DOMAIN wordPos["query"] :
            wordPos["query"][w].doc_count \in 1 .. (m_docs_count + again)

\* The documents of an answer that the registry has words of.  One that came
\* back without any is still in the answer for its old words.
Ranked == {d \in answer.docs : get_doc_total_word_count(d) # 0}

\* The sort of an answer never compares a number with 0/0, for which its
\* comparison would be no order, through whatever deaths, restarts and failures
\* if the items can be read; except for a document the registry has no words of,
\* as after a restart all those of before.  And all are numbers while one
\* process has registered every document it handed over, if one of them lacks a
\* word that was asked for.
CosinesComparable ==
    pc = "serve" /\ ~Garbled(answer.asked) =>
        LET numbers == {d \in Ranked : CosineIsNumber(answer.asked, d)}
        IN  /\ numbers \in {{}, Ranked}
            /\ crashes = 0 /\ faults = 0 /\ again = 0 =>
                  ((\E w \in Asked, e \in DOMAIN docs_db : <<e, w>> \notin fresh) =>
                      numbers = Ranked)

\* get_doc_word_count returns the number of the word in the document (its
\* comment), as the hit count in the document's posting has it.
CountsAreTheDocuments ==
    \A d \in answer.docs, w \in Asked :
        \E i \in DOMAIN ItemOf(w).docs :
            /\ ItemOf(w).docs[i] = d
            /\ ItemOf(w).hits[i] = answer.counts[d][w]

=============================================================================
