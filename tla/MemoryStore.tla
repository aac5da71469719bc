------------------------------ MODULE MemoryStore ------------------------------
(***************************************************************************)
(* The memories of one user, scope, space and kind about one subject: all  *)
(* are similar enough to supersede each other.                             *)
(*   src/memory/memory.service.ts                 rows and the embed queue *)
(*   src/memory/memory-extraction.service.ts      commitCandidates         *)
(*   src/memory/queue/processors/                 the two workers          *)
(*   src/memory/memory-embedding.repository.ts    setEmbedding             *)
(* A writer is a run of commitCandidates (the extraction job, the document *)
(* pipeline, an incoming email) or a plain create (the API, create_memory).*)
(* Entity links are upserts nobody orders and are left out.                *)
(***************************************************************************)
EXTENDS Integers, Sequences, FiniteSets

CONSTANTS Extraction,      \* the run of the extraction job
          Others,          \* the other writers
          Editors,         \* PATCH requests
          Contents,        \* what a memory can say
          Digits,          \* Digits[c]: countDigits of content c
          MemAttempts,     \* MEMORY_JOB_DEFAULT_OPTIONS.attempts
          MaxHits,         \* bound on throws of writers and editors
          MaxMisses,       \* bound on failures of the embedding provider
          MaxArchived      \* bound on archive requests

Writers == {Extraction} \union Others
ASSUME MemoryConstants ==
    /\ Digits \in [Contents -> Nat] /\ MemAttempts \in Nat \ {0}
    /\ {MaxHits, MaxMisses, MaxArchived} \subseteq Nat

VARIABLES
    memories,   \* the rows, in the order of their creation
    writer,     \* writer[w]: where it stands, its content, the row found, the row made, attempts
    editor,     \* editor[e]: where update() stands, its row and content
    embedJobs,  \* waiting embedding jobs, as [row, made]
    embedder,   \* the job being embedded and the content it read
    hits, misses

memVars == <<memories, writer, editor, embedJobs, embedder, hits, misses>>

NoVector == "none"
(* A writer or editor that has not begun or has ended. *)
AtRest(pc) == [pc |-> pc, content |-> NoVector, found |-> 0, made |-> 0, tries |-> 0, changed |-> FALSE]
FreshMemory(c) == [content |-> c, status |-> "active", by |-> 0, vector |-> NoVector,
                   edited |-> FALSE, reverted |-> FALSE]
Unbusy == [busy |-> FALSE, row |-> 0, made |-> 0, content |-> NoVector]
Active(i) == memories[i].status = "active"

MemoryRow == [content : Contents, status : {"active", "superseded", "archived"}, by : Nat,
              vector : Contents \union {NoVector}, edited : BOOLEAN, reverted : BOOLEAN]
Place == [pc : {"idle", "find", "create", "mark", "write", "enqueue", "done", "failed"},
          content : Contents \union {NoVector}, found : Nat, made : Nat, tries : 0..MemAttempts, changed : BOOLEAN]
EmbedJob == [row : Nat \ {0}, made : 0..MemAttempts]

MemTypeOK ==
    /\ memories \in Seq(MemoryRow)
    /\ \A i \in DOMAIN memories : memories[i].by \in {0} \union (i + 1)..Len(memories)
    /\ writer \in [Writers -> Place] /\ editor \in [Editors -> Place]
    /\ \A w \in Writers : writer[w].pc # "write" /\ writer[w].found <= Len(memories) /\ writer[w].made <= Len(memories)
    /\ \A e \in Editors : editor[e].pc \notin {"find", "create", "mark"} /\ editor[e].found <= Len(memories)
    /\ embedJobs \in Seq(EmbedJob) /\ \A k \in DOMAIN embedJobs : embedJobs[k].row <= Len(memories)
    /\ embedder \in [busy : BOOLEAN, row : 0..Len(memories), made : 0..MemAttempts, content : Contents \union {NoVector}]
    /\ hits \in 0..MaxHits /\ misses \in 0..MaxMisses

MemInit ==
    /\ memories = <<>>
    /\ writer = [w \in Writers |-> AtRest("idle")] /\ editor = [e \in Editors |-> AtRest("idle")]
    /\ embedJobs = <<>> /\ embedder = Unbusy
    /\ hits = 0 /\ misses = 0

MemHit == hits < MaxHits /\ hits' = hits + 1

-------------------------------------------------------------------------------
(* Writers *)

(* A candidate the model proposed, or the content of a plain create. *)
Propose(w, c) ==
    /\ writer[w].pc = "idle"
    /\ \E pc \in IF w = Extraction THEN {"find"} ELSE {"find", "create"} :
        writer' = [writer EXCEPT ![w].pc = pc, ![w].content = c]
    /\ UNCHANGED <<memories, editor, embedJobs, embedder, hits, misses>>

(* The active memory whose words overlap most: the contents here overlap    *)
(* enough, and which one overlaps most is a choice.                         *)
MostSimilar == LET active == {j \in DOMAIN memories : Active(j)} IN IF active = {} THEN {0} ELSE active

(* Mutant: the count of digits is not compared. *)
FindSupersessionCandidateAny(w) ==
    /\ writer[w].pc = "find"
    /\ \E i \in MostSimilar :
        writer' = [writer EXCEPT ![w].found = i, ![w].pc = "create"]
    /\ UNCHANGED <<memories, editor, embedJobs, embedder, hits, misses>>

(* The most similar active memory; one with more digits is kept and the     *)
(* candidate dropped.                                                       *)
FindSupersessionCandidate(w) ==
    /\ writer[w].pc = "find"
    /\ \E i \in MostSimilar :
        writer' = [writer EXCEPT ![w] = IF i # 0 /\ Digits[@.content] < Digits[memories[i].content]
                                        THEN AtRest("done") ELSE [@ EXCEPT !.found = i, !.pc = "create"]]
    /\ UNCHANGED <<memories, editor, embedJobs, embedder, hits, misses>>

(* create, or the first write of supersede. *)
CreateMemory(w) ==
    /\ writer[w].pc = "create"
    /\ memories' = Append(memories, FreshMemory(writer[w].content))
    /\ writer' = [writer EXCEPT ![w].made = Len(memories) + 1,
                                ![w].pc = IF writer[w].found = 0 THEN "enqueue" ELSE "mark"]
    /\ UNCHANGED <<editor, embedJobs, embedder, hits, misses>>

(* The second write of supersede, whatever became of the old row. *)
MarkSuperseded(w) ==
    /\ writer[w].pc = "mark"
    /\ memories' = [memories EXCEPT ![writer[w].found].status = "superseded", ![writer[w].found].by = writer[w].made]
    /\ writer' = [writer EXCEPT ![w].pc = "enqueue"]
    /\ UNCHANGED <<editor, embedJobs, embedder, hits, misses>>

EnqueueEmbedding(w) ==
    /\ writer[w].pc = "enqueue"
    /\ embedJobs' = Append(embedJobs, [row |-> writer[w].made, made |-> 0])
    /\ writer' = [writer EXCEPT ![w] = AtRest("done")]
    /\ UNCHANGED <<memories, editor, embedder, hits, misses>>

(* The extraction job is tried again from its start; a document or an email *)
(* goes on without memories, a request fails.                               *)
WriterThrows(w) ==
    /\ writer[w].pc \in {"find", "create", "mark", "enqueue"} /\ MemHit
    /\ writer' = [writer EXCEPT ![w] = IF w = Extraction /\ @.tries + 1 < MemAttempts
                        THEN [AtRest("find") EXCEPT !.content = writer[w].content, !.tries = writer[w].tries + 1]
                        ELSE AtRest("failed")]
    /\ UNCHANGED <<memories, editor, embedJobs, embedder, misses>>

-------------------------------------------------------------------------------
(* MemoryService.update and archive *)

ReadForUpdate(e, i, c) ==
    /\ editor[e].pc = "idle"
    /\ editor' = [editor EXCEPT ![e] = [AtRest("write") EXCEPT !.found = i, !.content = c,
                                        !.changed = memories[i].content # c]]
    /\ UNCHANGED <<memories, writer, embedJobs, embedder, hits, misses>>

(* The write puts back the text read before if the row was edited since and *)
(* this edit sends the text it had read: nothing is queued for it then.     *)
PutsBack(e) == ~editor[e].changed /\ memories[editor[e].found].content # editor[e].content

WriteUpdate(e) ==
    /\ editor[e].pc = "write"
    /\ LET i == editor[e].found IN
        memories' = [memories EXCEPT ![i].content = editor[e].content, ![i].edited = TRUE,
                                     ![i].reverted = memories[i].reverted \/ PutsBack(e)]
    /\ editor' = [editor EXCEPT ![e] = IF @.changed THEN [@ EXCEPT !.pc = "enqueue"] ELSE AtRest("done")]
    /\ UNCHANGED <<writer, embedJobs, embedder, hits, misses>>

EnqueueUpdated(e) ==
    /\ editor[e].pc = "enqueue"
    /\ embedJobs' = Append(embedJobs, [row |-> editor[e].found, made |-> 0])
    /\ editor' = [editor EXCEPT ![e] = AtRest("done")]
    /\ UNCHANGED <<memories, writer, embedder, hits, misses>>

UpdateFails(e) ==
    /\ editor[e].pc \in {"write", "enqueue"} /\ MemHit
    /\ editor' = [editor EXCEPT ![e] = AtRest("failed")]
    /\ UNCHANGED <<memories, writer, embedJobs, embedder, misses>>

ArchiveMemory(i) ==
    /\ Cardinality({j \in DOMAIN memories : memories[j].status = "archived"}) < MaxArchived
    /\ memories' = [memories EXCEPT ![i].status = "archived"]
    /\ UNCHANGED <<writer, editor, embedJobs, embedder, hits, misses>>

-------------------------------------------------------------------------------
(* MemoryEmbeddingProcessor, one job at a time *)

ReadForEmbedding ==
    /\ ~embedder.busy /\ embedJobs # <<>>
    /\ embedder' = [busy |-> TRUE, row |-> Head(embedJobs).row, made |-> Head(embedJobs).made,
                    content |-> memories[Head(embedJobs).row].content]
    /\ embedJobs' = Tail(embedJobs)
    /\ UNCHANGED <<memories, writer, editor, hits, misses>>

SetEmbedding ==
    /\ embedder.busy
    /\ memories' = [memories EXCEPT ![embedder.row].vector = embedder.content]
    /\ embedder' = Unbusy
    /\ UNCHANGED <<writer, editor, embedJobs, hits, misses>>

(* A configured provider that fails throws, for the queue to retry. *)
ProviderFails ==
    /\ embedder.busy /\ misses < MaxMisses
    /\ misses' = misses + 1 /\ embedder' = Unbusy
    /\ embedJobs' = IF embedder.made + 1 < MemAttempts
                    THEN Append(embedJobs, [row |-> embedder.row, made |-> embedder.made + 1]) ELSE embedJobs
    /\ UNCHANGED <<memories, writer, editor, hits>>

Write(w) == FindSupersessionCandidate(w) \/ CreateMemory(w) \/ MarkSuperseded(w) \/ EnqueueEmbedding(w)

MemNext ==
    \/ \E w \in Writers : (\E c \in Contents : Propose(w, c)) \/ Write(w) \/ WriterThrows(w)
    \/ \E e \in Editors :
        \/ \E i \in DOMAIN memories, c \in Contents : ReadForUpdate(e, i, c)
        \/ WriteUpdate(e) \/ EnqueueUpdated(e) \/ UpdateFails(e)
    \/ \E i \in DOMAIN memories : ArchiveMemory(i)
    \/ ReadForEmbedding \/ SetEmbedding \/ ProviderFails

MemSpec == MemInit /\ [][MemNext]_memVars

-------------------------------------------------------------------------------
(* What was learnt about a subject is never without an active memory, unless *)
(* the user archived one: supersessions by several writers, throws between   *)
(* their two writes and retries included (supersede).                        *)
SubjectKept ==
    /\ memories # <<>>
    /\ \A i \in DOMAIN memories : memories[i].status # "archived"
    => \E i \in DOMAIN memories : Active(i)

(* "A near-duplicate restatement that drops detail must never supersede":    *)
(* through concurrent writers and retries, a replacement has at least the    *)
(* digits of what it replaced, unless a user edited one of them.             *)
DetailKept ==
    \A i \in DOMAIN memories : memories[i].by # 0 /\ ~memories[i].edited /\ ~memories[memories[i].by].edited
        => Digits[memories[i].content] <= Digits[memories[memories[i].by].content]

Quiet == /\ hits = 0 /\ misses < MemAttempts /\ embedJobs = <<>> /\ ~embedder.busy
         /\ \A w \in Writers : writer[w].pc \in {"idle", "done"}
         /\ \A e \in Editors : editor[e].pc \in {"idle", "done"}

(* Once the queue is empty, no writer threw and the provider failed fewer    *)
(* times than a job is tried, every memory is searched by the embedding of   *)
(* what it says now: an edit while the old text is being embedded leaves no  *)
(* stale vector, unless an edit put back the text of before another one.     *)
QuietIsEmbedded ==
    Quiet => \A i \in DOMAIN memories : memories[i].reverted \/ memories[i].vector = memories[i].content

(* What holds of the memories at every moment. *)
MemSafe == MemTypeOK /\ SubjectKept /\ DetailKept /\ QuietIsEmbedded

(* Why a subject keeps a memory and a replacement the detail: a row is       *)
(* superseded by a later one only, and what a writer holds has the digits of *)
(* the row it found and is what it wrote into the row it made.               *)
WriterHolds(w) ==
    /\ writer[w].pc \in {"find", "create", "mark", "enqueue"} => writer[w].content \in Contents
    /\ writer[w].pc \in {"idle", "find"} => writer[w].found = 0
    /\ writer[w].pc \in {"create", "mark"} /\ writer[w].found # 0 /\ ~memories[writer[w].found].edited
            => Digits[memories[writer[w].found].content] <= Digits[writer[w].content]
    /\ writer[w].pc = "mark" => 0 < writer[w].found /\ writer[w].found < writer[w].made
    /\ writer[w].pc = "mark" /\ ~memories[writer[w].made].edited
            => memories[writer[w].made].content = writer[w].content
    /\ writer[w].pc = "enqueue" => writer[w].made # 0

SupersedeInv ==
    /\ \A i \in DOMAIN memories : memories[i].status = "superseded" => memories[i].by # 0
    /\ \A w \in Writers : WriterHolds(w)

(* Why vectors follow: a row that does not have the vector of its content is *)
(* awaited by a job, also when the embedder is busy with an older text of it.*)
Awaited(i) ==
    \/ \E k \in DOMAIN embedJobs : embedJobs[k].row = i
    \/ \E w \in Writers : writer[w].pc \in {"mark", "enqueue"} /\ writer[w].made = i
    \/ \E e \in Editors : editor[e].pc = "enqueue" /\ editor[e].found = i
(* The text of the vector it has, or is about to get. *)
Embeds(i) == IF embedder.busy /\ embedder.row = i THEN embedder.content ELSE memories[i].vector
Followed(i) == memories[i].reverted \/ Awaited(i) \/ Embeds(i) = memories[i].content

EmbedInv ==
    /\ \A e \in Editors : editor[e].pc \in {"write", "enqueue"} => editor[e].found # 0 /\ editor[e].content \in Contents
    /\ embedder.busy => embedder.row # 0 /\ embedder.made <= misses
    /\ \A k \in DOMAIN embedJobs : embedJobs[k].made <= misses
    /\ hits = 0 /\ misses < MemAttempts => \A i \in DOMAIN memories : Followed(i)

MemInv == SupersedeInv /\ DetailKept /\ EmbedInv

-------------------------------------------------------------------------------
(* What the documents say and the code does not keep. *)

(* The same without the caveat: an edit that adds a date between the look-up *)
(* and the supersession is lost with the memory it was made to.              *)
DetailKeptThroughEdits ==
    \A i \in DOMAIN memories : memories[i].by # 0
        => Digits[memories[i].content] <= Digits[memories[memories[i].by].content]

(* "Content changed, the stored embedding is now stale": of two edits that    *)
(* overlap, one that sends the text it had read is written after the         *)
(* other and puts the old text back without queueing its embedding.          *)
VectorsFollowEdits == Quiet => \A i \in DOMAIN memories : memories[i].vector = memories[i].content

(* "supersedes it instead of creating a duplicate": two writers look before  *)
(* either creates, or one throws between its two writes.                     *)
OneActiveMemory ==
    (\A w \in Writers : writer[w].pc \in {"idle", "done", "failed"})
        => Cardinality({i \in DOMAIN memories : Active(i)}) <= 1

(* A memory the user archived becomes superseded when a writer had found it. *)
ArchivedForGood == [][\A i \in DOMAIN memories : memories[i].status = "archived"
                        => memories'[i].status = "archived"]_memVars
===============================================================================
