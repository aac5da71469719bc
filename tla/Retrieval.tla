------------------------------- MODULE Retrieval -------------------------------
(***************************************************************************)
(* What an agent is given to read: memories and document chunks.           *)
(*   src/memory/memory-retrieval.service.ts, memory-embedding.repository   *)
(*   src/documents/document-retrieval.service.ts,                          *)
(*   document-chunk-embedding.repository                                   *)
(* The closeness of an item to the question is a number of the item: sim   *)
(* by its vector, overlap by its words. "found" tells whether the SQL      *)
(* "contains" meets one of the question's words, which are stripped of     *)
(* their accents while the stored content is not.                          *)
(***************************************************************************)
EXTENDS Integers, FiniteSets, Sequences

CONSTANTS Memories, Chunks, Docs,   \* Memories and Docs are disjoint sets of ids
          InitialMemories, InitialChunks, InitialDocs,
          Queries, Questions,    \* Questions: what may be asked, [of, lane, words, filtered]
          Limit, Dimensions, AnnDimensions,
          MaxCandidates,         \* as many documents pass a filter
          MaxChanges

Lanes == {"personal", "professional"}
Dims == {0} \union Dimensions      \* 0: no vector
MemoryRow == [lane : Lanes, active : BOOLEAN, dims : Dims, sim : Int, found : BOOLEAN, overlap : Int, worth : Int, uses : Nat, recent : BOOLEAN]
ChunkRow == [doc : Docs, dims : Dims, ann : BOOLEAN, sim : Int, found : BOOLEAN, overlap : Int]
DocRow == [lane : Lanes, ready : BOOLEAN, matches : BOOLEAN, run : BOOLEAN]    \* run: the pipeline is at work on it

Kinds == {"memories", "chunks"}
Phases == {"idle", "filter", "embed", "search", "text", "access", "done"}
Modes == {"semantic", "text", "none"}

ASSUME RetrievalConstants ==
    /\ IsFiniteSet(Memories) /\ IsFiniteSet(Chunks) /\ IsFiniteSet(Queries)
    /\ {Limit, MaxCandidates, MaxChanges} \subseteq Nat /\ 0 \notin Dimensions
    /\ \A ms \in InitialMemories : ms \in [Memories -> MemoryRow] /\ \A m \in Memories : ms[m].uses = 0
    /\ InitialChunks \subseteq [Chunks -> ChunkRow] /\ InitialDocs \subseteq [Docs -> DocRow]
    /\ Questions \subseteq [of : Kinds, lane : Lanes, words : BOOLEAN, filtered : BOOLEAN]

VARIABLES memories, chunks, docs,
          query,      \* a retrieval under way
          retyped,    \* retyped[q]: documents the pipeline classified since q read the filter
          changes

retrievalVars == <<memories, chunks, docs, query, retyped, changes>>

NoQuery == [pc |-> "idle", of |-> "memories", lane |-> "personal", words |-> TRUE, filtered |-> FALSE, among |-> {},
            dims |-> 0, mode |-> "none", result |-> <<>>, seen |-> {}]

Listings == Seq(Memories \union Chunks)
Lookup == [pc : Phases, of : Kinds, lane : Lanes, words : BOOLEAN, filtered : BOOLEAN, among : SUBSET Docs, dims : Dims,
           mode : Modes, result : Listings, seen : SUBSET (Memories \union Chunks)]

(* What an answer holds. *)
Handed(s) == {s[i] : i \in DOMAIN s}

RetrievalTypeOK ==
    /\ memories \in [Memories -> MemoryRow] /\ chunks \in [Chunks -> ChunkRow] /\ docs \in [Docs -> DocRow]
    /\ query \in [Queries -> Lookup] /\ retyped \in [Queries -> SUBSET Docs] /\ changes \in 0..MaxChanges
    /\ \A m \in Memories : memories[m].uses <= Cardinality(Queries)
    /\ \A q \in Queries : Len(query[q].result) <= Limit

RetrievalInit ==
    /\ memories \in InitialMemories /\ chunks \in InitialChunks /\ docs \in InitialDocs
    /\ query = [q \in Queries |-> NoQuery] /\ retyped = [q \in Queries |-> {}] /\ changes = 0

-------------------------------------------------------------------------------

(* ORDER BY ... LIMIT n: the sets of n rows such that no other row has more. *)
Top(rows, n, value) ==
    {T \in SUBSET rows : /\ Cardinality(T) = (IF Cardinality(rows) < n THEN Cardinality(rows) ELSE n)
                         /\ \A in \in T, out \in rows \ T : value[in] >= value[out]}
(* The rows in descending order. *)
Sorted(rows, value) ==
    {s \in [1..Cardinality(rows) -> rows] : /\ Handed(s) = rows
                                            /\ \A i, j \in DOMAIN s : i < j => value[s[i]] >= value[s[j]]}

SimilarityWeight == 10
FrequencySaturation == 2

RecencyWeight == 2

(* Half of the score is closeness; importance and confidence are the         *)
(* memory's worth, and one handed out lately or often gains a little.        *)
Score(m, closeness) ==
    SimilarityWeight * closeness + memories[m].worth + (IF memories[m].recent THEN RecencyWeight ELSE 0)
        + (IF memories[m].uses < FrequencySaturation THEN memories[m].uses ELSE FrequencySaturation)

(* Rows of another lane, archived, without a vector or with one of another   *)
(* size are not compared.                                                    *)
ComparableMemories(q) ==
    {m \in Memories : memories[m].lane = q.lane /\ memories[m].active /\ memories[m].dims = q.dims}
SearchSimilarMemories(q) == Top(ComparableMemories(q), Limit, [m \in Memories |-> memories[m].sim])

(* The column with the index is used for its dimension, the other otherwise. *)
ComparableChunks(q) ==
    {c \in Chunks : /\ docs[chunks[c].doc].lane = q.lane /\ docs[chunks[c].doc].ready
                    /\ IF q.dims = AnnDimensions THEN chunks[c].ann ELSE chunks[c].dims = q.dims}
ChunkOverfetch == 5
(* The search through the index is approximate: it may miss any of the rows. *)
SearchSimilarChunks(q) ==
    LET rows == ComparableChunks(q) n == Limit * ChunkOverfetch IN
    IF q.dims = AnnDimensions THEN UNION {Top(S, n, [c \in Chunks |-> chunks[c].sim]) : S \in SUBSET rows}
    ELSE Top(rows, n, [c \in Chunks |-> chunks[c].sim])

-------------------------------------------------------------------------------
(* A question, of memories or of chunks; a document filter (tags, a type) or none. *)
Retrieve(q) ==
    /\ query[q].pc = "idle"
    /\ \E x \in Questions :
         query' = [query EXCEPT ![q] = [NoQuery EXCEPT !.pc = IF x.filtered THEN "filter" ELSE "embed",
                     !.of = x.of, !.lane = x.lane, !.words = x.words, !.filtered = x.filtered]]
    /\ UNCHANGED <<memories, chunks, docs, retyped, changes>>

(* The documents that match the filter, as they are before the search: any   *)
(* so many of them.                                                          *)
Matching(lane) == {d \in Docs : docs[d].lane = lane /\ docs[d].ready /\ docs[d].matches}
CandidateDocumentIds(q) ==
    /\ query[q].pc = "filter"
    /\ \E ids \in Top(Matching(query[q].lane), MaxCandidates, [d \in Docs |-> 0]) :
          query' = [query EXCEPT ![q].among = ids, ![q].pc = IF ids = {} THEN "done" ELSE "embed"]
    /\ UNCHANGED <<memories, chunks, docs, retyped, changes>>

(* No provider, or an error: the words decide. *)
EmbedQuery(q) ==
    /\ query[q].pc = "embed"
    /\ \/ \E d \in Dimensions : query' = [query EXCEPT ![q].pc = "search", ![q].dims = d]
       \/ query' = [query EXCEPT ![q].pc = "text"]
    /\ UNCHANGED <<memories, chunks, docs, retyped, changes>>

Answer(q, mode, rows, pc) ==
    query' = [query EXCEPT ![q].mode = IF rows = <<>> THEN "none" ELSE mode, ![q].result = rows, ![q].pc = pc]

(* Nothing comparable: fall through to the words. *)
SearchMemories(q) ==
    /\ query[q].pc = "search" /\ query[q].of = "memories"
    /\ \E T \in SearchSimilarMemories(query[q]) :
         IF T = {} THEN query' = [query EXCEPT ![q].pc = "text"]
         ELSE \E s \in Sorted(T, [m \in Memories |-> Score(m, memories[m].sim)]) :
                query' = [query EXCEPT ![q].mode = "semantic", ![q].result = s, ![q].pc = "access",
                                       ![q].seen = ComparableMemories(query[q])]
    /\ UNCHANGED <<memories, chunks, docs, retyped, changes>>

TextOverfetch == 3

(* Any three times as many rows as asked for, then the best of them. *)
MemoriesByText(q) ==
    /\ query[q].pc = "text" /\ query[q].of = "memories"
    /\ LET rows == {m \in Memories : query[q].words /\ memories[m].lane = query[q].lane
                                       /\ memories[m].active /\ memories[m].found}
           Worth == [m \in Memories |-> Score(m, memories[m].overlap)]
       IN \E F \in Top(rows, Limit * TextOverfetch, [m \in Memories |-> 0]) : \E T \in Top(F, Limit, Worth) :
            \E s \in Sorted(T, Worth) : Answer(q, "text", s, "access")
    /\ UNCHANGED <<memories, chunks, docs, retyped, changes>>

(* Every memory handed out was used once more, and now, whatever it has      *)
(* become since.                                                             *)
RecordAccess(q) ==
    /\ query[q].pc = "access"
    /\ memories' = [m \in Memories |->
                      IF m \in Handed(query[q].result) THEN [memories[m] EXCEPT !.uses = @ + 1, !.recent = TRUE]
                      ELSE memories[m]]
    /\ query' = [query EXCEPT ![q].pc = "done"]
    /\ UNCHANGED <<chunks, docs, retyped, changes>>

(* candidateDocumentIds is null without a filter. *)
Admitted(q, c) == query[q].filtered => chunks[c].doc \in query[q].among

(* The first of them. An approximate search promises nothing of the others.  *)
Shown(q, s, compared) ==
    query' = [query EXCEPT ![q].mode = "semantic", ![q].pc = "done", ![q].seen = compared,
                           ![q].result = SubSeq(s, 1, IF Len(s) < Limit THEN Len(s) ELSE Limit)]

(* Mutant: the filter is forgotten by the vector search. *)
SearchChunksUnfiltered(q) ==
    /\ query[q].pc = "search" /\ query[q].of = "chunks"
    /\ \E T \in SearchSimilarChunks(query[q]) :
         IF T = {} THEN query' = [query EXCEPT ![q].pc = "text"]
         ELSE \E s \in Sorted(T, [c \in Chunks |-> chunks[c].sim]) :
                Shown(q, s, {})
    /\ UNCHANGED <<memories, chunks, docs, retyped, changes>>

(* The nearest chunks of the lane, then those of the filter, then the first  *)
(* ones; none left: the words.                                               *)
SearchChunks(q) ==
    /\ query[q].pc = "search" /\ query[q].of = "chunks"
    /\ \E T \in SearchSimilarChunks(query[q]) :
         LET kept == {c \in T : Admitted(q, c)} IN
         IF kept = {} THEN query' = [query EXCEPT ![q].pc = "text"]
         ELSE \E s \in Sorted(kept, [c \in Chunks |-> chunks[c].sim]) :
                Shown(q, s, IF query[q].dims = AnnDimensions THEN {}
                            ELSE {c \in ComparableChunks(query[q]) : Admitted(q, c)})
    /\ UNCHANGED <<memories, chunks, docs, retyped, changes>>

ChunksByText(q) ==
    /\ query[q].pc = "text" /\ query[q].of = "chunks"
    /\ LET rows == {c \in Chunks : /\ query[q].words /\ chunks[c].found
                                   /\ docs[chunks[c].doc].lane = query[q].lane /\ docs[chunks[c].doc].ready
                                   /\ Admitted(q, c)}
       IN \E F \in Top(rows, Limit * TextOverfetch, [c \in Chunks |-> 0]) :
          \E T \in Top(F, Limit, [c \in Chunks |-> chunks[c].overlap]) :
          \E s \in Sorted(T, [c \in Chunks |-> chunks[c].overlap]) : Answer(q, "text", s, "done")
    /\ UNCHANGED <<memories, chunks, docs, retyped, changes>>

-------------------------------------------------------------------------------
(* What the rest of the system does meanwhile.                               *)
Change == changes < MaxChanges /\ changes' = changes + 1 /\ UNCHANGED <<query, retyped>>

SetEmbedding(m) ==
    /\ Change
    /\ \E d \in Dimensions : memories' = [memories EXCEPT ![m].dims = d]
    /\ UNCHANGED <<chunks, docs>>

(* Only a vector of the indexed size reaches the indexed column, which keeps *)
(* it when a vector of another size follows.                                 *)
SetChunkEmbedding(c) ==
    /\ Change
    /\ \E d \in Dimensions : chunks' = [chunks EXCEPT ![c].dims = d, ![c].ann = @ \/ d = AnnDimensions]
    /\ UNCHANGED <<memories, docs>>

(* The user archives it, or it was last handed out long ago. *)
MemoryAges(m) ==
    /\ Change
    /\ \/ memories' = [memories EXCEPT ![m].active = FALSE]
       \/ memories' = [memories EXCEPT ![m].recent = FALSE]
    /\ UNCHANGED <<chunks, docs>>

(* Archived; queued for the pipeline again; given a tag of the filter. *)
DocumentChanges(d) ==
    /\ Change
    /\ \/ docs' = [docs EXCEPT ![d].ready = FALSE]
       \/ docs' = [docs EXCEPT ![d].ready = FALSE, ![d].run = TRUE]
       \/ docs' = [docs EXCEPT ![d].matches = TRUE]
    /\ UNCHANGED <<memories, chunks>>

(* The pipeline writes the type and the tags the model gives the document.   *)
Reclassify(d) ==
    /\ docs[d].run
    /\ \E b \in BOOLEAN : docs' = [docs EXCEPT ![d].matches = b]
    /\ retyped' = [q \in Queries |-> IF query[q].pc \in {"idle", "filter"} THEN retyped[q] ELSE retyped[q] \union {d}]
    /\ UNCHANGED <<memories, chunks, query, changes>>

(* Ready again, left for review, or failed. *)
Indexed(d) ==
    /\ docs[d].run
    /\ \E b \in BOOLEAN : docs' = [docs EXCEPT ![d].ready = b, ![d].run = FALSE]
    /\ UNCHANGED <<memories, chunks, query, retyped, changes>>

RetrievalNext ==
    \/ \E q \in Queries : \/ Retrieve(q) \/ CandidateDocumentIds(q) \/ EmbedQuery(q) \/ SearchMemories(q)
                          \/ MemoriesByText(q) \/ RecordAccess(q) \/ SearchChunks(q) \/ ChunksByText(q)
    \/ \E m \in Memories : SetEmbedding(m) \/ MemoryAges(m)
    \/ \E c \in Chunks : SetChunkEmbedding(c)
    \/ \E d \in Docs : DocumentChanges(d) \/ Reclassify(d) \/ Indexed(d)

RetrievalSpec == RetrievalInit /\ [][RetrievalNext]_retrievalVars

-------------------------------------------------------------------------------
(* Nothing of another lane is ever handed out, whatever changes before the   *)
(* search; a filtered answer holds only documents that passed the filter when *)
(* it was read, and one of them that does not match was classified since.    *)
LaneKept ==
    \A q \in Queries : \A i \in DOMAIN query[q].result :
        LET x == query[q].result[i] d == chunks[x].doc IN
        IF query[q].of = "memories" THEN memories[x].lane = query[q].lane
        ELSE /\ docs[d].lane = query[q].lane
             /\ query[q].filtered => d \in query[q].among /\ (docs[d].matches \/ d \in retyped[q])

(* Two conversations may retrieve at once: every memory handed out is        *)
(* counted, once for each of them.                                           *)
UsesCounted ==
    \A m \in Memories :
        memories[m].uses = Cardinality({q \in Queries : query[q].pc = "done" /\ query[q].of = "memories"
                                                          /\ m \in Handed(query[q].result)})

(* Of the memories compared, none that is left out is nearer than one handed *)
(* out, whatever importance, recency and use weigh; nor of the chunks of the *)
(* filter, though the search takes its rows before the filter, and the answer *)
(* its first ones after it.                                                  *)
Sim(of, x) == IF of = "memories" THEN memories[x].sim ELSE chunks[x].sim
NearestKept ==
    \A q \in Queries : query[q].mode = "semantic" =>
        \A i \in DOMAIN query[q].result, x \in query[q].seen \ Handed(query[q].result) :
            Sim(query[q].of, query[q].result[i]) >= Sim(query[q].of, x)

(* One retrieval makes what it hands out recent and used, which weighs in the *)
(* next; but of two that compared the same memories, one hands out what the  *)
(* other does, up to memories that are equally near.                         *)
UseBringsNothingIn ==
    \A q, r \in Queries :
        /\ query[q].mode = "semantic" /\ query[q].of = "memories"
        /\ query[r].mode = "semantic" /\ query[r].of = "memories" /\ query[q].seen = query[r].seen
        => \A m \in Handed(query[q].result) \ Handed(query[r].result), n \in Handed(query[r].result) \ Handed(query[q].result) :
                memories[m].sim = memories[n].sim

(* What every retrieval keeps, at every point. *)
RetrievalSafe == RetrievalTypeOK /\ LaneKept /\ UsesCounted /\ NearestKept /\ UseBringsNothingIn

(* Why it holds: an answer is empty until it is found, only memories are     *)
(* counted, the memories handed out were compared, and a document that passed *)
(* a filter matches it until the pipeline classifies it.                     *)
AnswerInv ==
    \A q \in Queries : LET x == query[q] IN
        /\ x.pc \notin {"access", "done"} => x.result = <<>> /\ x.mode = "none"
        /\ x.pc = "access" => x.of = "memories"
        /\ x.pc = "filter" => x.filtered
        /\ x.filtered /\ x.pc \notin {"idle", "filter"} =>
               \A d \in x.among : docs[d].lane = x.lane /\ (docs[d].matches \/ d \in retyped[q])
        /\ x.mode = "semantic" /\ x.of = "memories" => Handed(x.result) \subseteq x.seen
        /\ Handed(x.result) \union x.seen \subseteq IF x.of = "memories" THEN Memories ELSE Chunks
RetrievalInv == AnswerInv /\ LaneKept /\ UsesCounted /\ NearestKept

-------------------------------------------------------------------------------
(* What the code does not keep. A memory that holds the question's words is  *)
(* found: not when another one has a vector and it has none or one of        *)
(* another size, nor when its words carry accents.                           *)
WordsAreFound ==
    \A q \in Queries, m \in Memories :
        query[q].pc = "done" /\ query[q].of = "memories" /\ query[q].words /\ memories[m].overlap > 0
            /\ memories[m].lane = query[q].lane /\ memories[m].active /\ Cardinality(Memories) <= Limit
        => m \in Handed(query[q].result)

(* A document of a filtered answer matches the filter when it is handed out:  *)
(* not when the pipeline gave it another type after the filter was read.     *)
FilterHolds ==
    [][\A q \in Queries : query[q].pc = "search" /\ query'[q].mode = "semantic" /\ query[q].filtered =>
          \A i \in DOMAIN query'[q].result : docs[chunks[query'[q].result[i]].doc].matches]_retrievalVars

(* A filter admits the documents that match it: not beyond the first 500.    *)
FilterIsWhole ==
    \A q \in Queries : query[q].filtered /\ query[q].pc \in {"embed", "done"} /\ changes = 0
                         => query[q].among = Matching(query[q].lane)

(* "metadata/tag filters narrow the candidate set in SQL FIRST ... then      *)
(* semantic ... ranks within that already-narrowed set": the vector search   *)
(* takes its rows before the filter, so that chunks of other documents crowd *)
(* out the ones asked for.                                                   *)
FilteredFirst ==
    \A q \in Queries :
        query[q].pc = "done" /\ query[q].of = "chunks" /\ query[q].filtered /\ changes = 0
            /\ query[q].dims \notin {0, AnnDimensions}
            /\ (\E c \in ComparableChunks(query[q]) : chunks[c].doc \in query[q].among)
        => query[q].mode = "semantic"
===============================================================================
