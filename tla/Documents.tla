------------------------------- MODULE Documents -------------------------------
(***************************************************************************)
(* Documents from the upload to the searchable row.                        *)
(*   src/documents/document.service.ts            upload, archive, ...     *)
(*   src/documents/queue/                         one job per document     *)
(*   src/documents/document-intake-pipeline.service.ts   process           *)
(*   src/documents/storage/local-document-storage.provider.ts              *)
(* A document is named by the upload that created its row. A file stands   *)
(* for the (user, scope, space, checksum) an upload is deduplicated by.    *)
(* Texts, tags and entities are left out: the latter two are upserts whose *)
(* order nobody can tell. Callers are owners; others get an error first.   *)
(***************************************************************************)
EXTENDS Integers, Sequences, FiniteSets

CONSTANTS Uploads, NoUpload, Files, Intakes, \* Intakes: workers of the document queue
          ChunkCount,       \* chunks of the text of a document
          DocAttempts,      \* DOCUMENT_JOB_DEFAULT_OPTIONS.attempts
          DocMaxStalls,     \* maxStalledCount of the worker (BullMQ default 1)
          DocMaxFaults,     \* bound on throws, crashes and lost locks
          MaxRequests,      \* bound on archive, reprocess and update requests
          MaxDocuments      \* bound on rows: documents share nothing but the workers

ASSUME DocumentConstants ==
    /\ NoUpload \notin Uploads /\ ChunkCount \in Nat \ {0} /\ DocAttempts \in Nat \ {0}
    /\ {DocMaxStalls, DocMaxFaults, MaxRequests, MaxDocuments} \subseteq Nat

VARIABLES
    upload,    \* upload[u]: where the request stands, its file and the document it answers
    document,  \* document[u]: the row upload u created
    content,   \* content[u]: rows per chunk index, tables, extracted memories
    intake,    \* intake[u]: the BullMQ job whose id is the document's
    piece,     \* piece[w]: the run of the pipeline in worker w
    requests, docFaults

docVars == <<upload, document, content, intake, piece, requests, docFaults>>

Statuses == {"none", "queued", "processing", "ready", "needs_review", "failed", "archived"}
NoJob == [state |-> "none", made |-> 0, stalls |-> 0, worker |-> "none"]
NoPiece == [pc |-> "idle", doc |-> NoUpload, review |-> FALSE, at |-> 1, alone |-> TRUE]
Tried == {"extract", "classify", "derive", "chunk", "finish", "audit"}

UploadPlace == [pc : {"idle", "check", "create", "enqueue", "done", "error"}, file : Files \union {"none"},
                doc : Uploads \union {NoUpload}]
DocumentRow == [status : Statuses, file : Files \union {"none"}, title : {"none", "given", "user"},
                review : BOOLEAN, again : BOOLEAN]
Written == [chunks : [1..ChunkCount -> Nat], tables : Nat, memories : Nat]
IntakeJob == [state : {"none", "waiting", "active", "completed", "failed"}, made : 0..DocAttempts,
              stalls : 0..DocMaxStalls, worker : Intakes \union {"none"}]
Piece == [pc : Tried \union {"idle", "start", "catch"}, doc : Uploads \union {NoUpload}, review : BOOLEAN,
          at : 1..(ChunkCount + 1), alone : BOOLEAN]

DocTypeOK ==
    /\ upload \in [Uploads -> UploadPlace] /\ document \in [Uploads -> DocumentRow]
    /\ content \in [Uploads -> Written] /\ intake \in [Uploads -> IntakeJob] /\ piece \in [Intakes -> Piece]
    /\ requests \in 0..MaxRequests /\ docFaults \in 0..DocMaxFaults

DocInit ==
    /\ upload = [u \in Uploads |-> [pc |-> "idle", file |-> "none", doc |-> NoUpload]]
    /\ document = [u \in Uploads |-> [status |-> "none", file |-> "none", title |-> "none",
                                      review |-> FALSE, again |-> FALSE]]
    /\ content = [u \in Uploads |-> [chunks |-> [i \in 1..ChunkCount |-> 0], tables |-> 0, memories |-> 0]]
    /\ intake = [u \in Uploads |-> NoJob]
    /\ piece = [w \in Intakes |-> NoPiece]
    /\ requests = 0 /\ docFaults = 0

Hit == docFaults < DocMaxFaults /\ docFaults' = docFaults + 1

-------------------------------------------------------------------------------
(* DocumentService.upload; empty, large and unsupported files never begin. *)

BeginUpload(u, f) ==
    /\ upload[u].pc = "idle"
    /\ upload' = [upload EXCEPT ![u] = [pc |-> "check", file |-> f, doc |-> NoUpload]]
    /\ UNCHANGED <<document, content, intake, piece, requests, docFaults>>

SameFile(u) == {d \in Uploads : document[d].status # "none" /\ document[d].file = upload[u].file}

(* The row of an earlier upload is returned as it is, whatever its status. *)
FindExisting(u) ==
    /\ upload[u].pc = "check"
    /\ IF SameFile(u) = {}
       THEN upload' = [upload EXCEPT ![u].pc = "create"]
       ELSE \E d \in SameFile(u) : upload' = [upload EXCEPT ![u].pc = "done", ![u].doc = d]
    /\ UNCHANGED <<document, content, intake, piece, requests, docFaults>>

(* storage.save under a new key, then the row: a throw between the two leaves *)
(* a file that no row names.                                               *)
CreateDocument(u) ==
    /\ upload[u].pc = "create" /\ Cardinality({d \in Uploads : document[d].status # "none"}) < MaxDocuments
    /\ document' = [document EXCEPT ![u].status = "queued", ![u].file = upload[u].file]
    /\ upload' = [upload EXCEPT ![u].pc = "enqueue", ![u].doc = u]
    /\ UNCHANGED <<content, intake, piece, requests, docFaults>>

(* The job id is the document's: a job the queue still knows, running or   *)
(* finished, is left as it is and nothing is added.                        *)
Enqueued(u) == IF intake[u].state = "none" THEN [NoJob EXCEPT !.state = "waiting"] ELSE intake[u]

EnqueueUpload(u) ==
    /\ upload[u].pc = "enqueue"
    /\ intake' = [intake EXCEPT ![u] = Enqueued(u)]
    /\ upload' = [upload EXCEPT ![u].pc = "done"]
    /\ UNCHANGED <<document, content, piece, requests, docFaults>>

(* What was written before the throw stays. *)
UploadThrows(u) ==
    /\ upload[u].pc \in {"check", "create", "enqueue"} /\ Hit
    /\ upload' = [upload EXCEPT ![u].pc = "error"]
    /\ UNCHANGED <<document, content, intake, piece, requests>>

-------------------------------------------------------------------------------
(* The other requests on a document, which look at nothing but the owner. *)

Request(u) == /\ document[u].status # "none" /\ upload[u].pc \in {"done", "error"}
              /\ requests < MaxRequests /\ requests' = requests + 1

Archive(u) ==
    /\ Request(u)
    /\ document' = [document EXCEPT ![u].status = "archived"]
    /\ UNCHANGED <<upload, content, intake, piece, docFaults>>

UpdateTitle(u) ==
    /\ Request(u)
    /\ document' = [document EXCEPT ![u].title = "user"]
    /\ UNCHANGED <<upload, content, intake, piece, docFaults>>

(* reprocess: the update, then the enqueue, which may throw. *)
Reprocess(u) ==
    /\ Request(u)
    /\ document' = [document EXCEPT ![u].status = "queued", ![u].review = FALSE, ![u].again = TRUE]
    /\ \/ intake' = [intake EXCEPT ![u] = Enqueued(u)] /\ UNCHANGED docFaults
       \/ Hit /\ UNCHANGED intake
    /\ UNCHANGED <<upload, content, piece>>

-------------------------------------------------------------------------------
(* The job: external, as its options use BullMQ. *)

Holds(w) == intake[piece[w].doc].state = "active" /\ intake[piece[w].doc].worker = w

PickUpIntake(w, u) ==
    /\ piece[w].pc = "idle" /\ intake[u].state = "waiting"
    /\ piece' = [piece EXCEPT ![w] = [NoPiece EXCEPT !.pc = "start", !.doc = u]]
    /\ intake' = [intake EXCEPT ![u].state = "active", ![u].worker = w]
    /\ UNCHANGED <<upload, document, content, requests, docFaults>>

Complete(w) == /\ piece' = [piece EXCEPT ![w] = NoPiece]
               /\ intake' = IF Holds(w) THEN [intake EXCEPT ![piece[w].doc].state = "completed",
                                                            ![piece[w].doc].worker = "none"]
                            ELSE intake

Rethrow(w) ==
    LET j == intake[piece[w].doc] IN
    /\ piece' = [piece EXCEPT ![w] = NoPiece]
    /\ intake' = IF Holds(w)
                 THEN [intake EXCEPT ![piece[w].doc] =
                        [j EXCEPT !.state = IF j.made + 1 < DocAttempts THEN "waiting" ELSE "failed",
                                  !.made = @ + 1, !.worker = "none"]]
                 ELSE intake

(* The lock of an active job expires: its worker died, or runs on without it. *)
StallIntake(u) ==
    /\ intake[u].state = "active"
    /\ IF \E w \in Intakes : intake[u].worker = w /\ piece[w].doc = u
       THEN Hit /\ piece' = [piece EXCEPT ![intake[u].worker].alone = FALSE]
       ELSE UNCHANGED <<piece, docFaults>>
    /\ intake' = [intake EXCEPT ![u].state = IF intake[u].stalls < DocMaxStalls THEN "waiting" ELSE "failed",
                                ![u].stalls = IF @ < DocMaxStalls THEN @ + 1 ELSE @,
                                ![u].worker = "none"]
    /\ UNCHANGED <<upload, document, content, requests>>

(* removeOnComplete, removeOnFail: a finished job is forgotten after many others. *)
ForgetIntake(u) ==
    /\ intake[u].state \in {"completed", "failed"}
    /\ intake' = [intake EXCEPT ![u] = NoJob]
    /\ UNCHANGED <<upload, document, content, piece, requests, docFaults>>

-------------------------------------------------------------------------------
(* DocumentIntakePipelineService.process *)

StepTo(w, pc) == piece' = [piece EXCEPT ![w].pc = pc]

StartIntake(w) ==
    /\ piece[w].pc = "start"
    /\ document' = [document EXCEPT ![piece[w].doc].status = "processing"]
    /\ StepTo(w, "extract")
    /\ UNCHANGED <<upload, content, intake, requests, docFaults>>

(* No text: the document waits for a human and the job is done. *)
Extract(w) ==
    /\ piece[w].pc = "extract"
    /\ \/ StepTo(w, "classify") /\ UNCHANGED <<document, intake>>
       \/ /\ document' = [document EXCEPT ![piece[w].doc].status = "needs_review",
                                          ![piece[w].doc].review = TRUE]
          /\ Complete(w)
    /\ UNCHANGED <<upload, content, requests, docFaults>>

(* classify never fails the document: without an answer it needs a review. *)
Classify(w) ==
    /\ piece[w].pc = "classify"
    /\ \E review \in BOOLEAN :
        /\ document' = [document EXCEPT ![piece[w].doc].title = "given", ![piece[w].doc].review = review]
        /\ piece' = [piece EXCEPT ![w].pc = "derive", ![w].review = review]
    /\ UNCHANGED <<upload, content, intake, requests, docFaults>>

(* persistTables, then extractMemories, which is best effort: new rows both. *)
Derive(w) ==
    /\ piece[w].pc = "derive"
    /\ \E learns \in 0..1 : content' = [content EXCEPT ![piece[w].doc].tables = @ + 1,
                                                      ![piece[w].doc].memories = @ + learns]
    /\ StepTo(w, "chunk")
    /\ UNCHANGED <<upload, document, intake, requests, docFaults>>

(* Mutant: the last chunk is left out. *)
ChunkAndEmbedShort(w) ==
    /\ piece[w].pc = "chunk"
    /\ IF piece[w].at >= ChunkCount THEN StepTo(w, "finish") /\ UNCHANGED content
       ELSE /\ content' = [content EXCEPT ![piece[w].doc].chunks[piece[w].at] = @ + 1]
            /\ piece' = [piece EXCEPT ![w].at = @ + 1]
    /\ UNCHANGED <<upload, document, intake, requests, docFaults>>

(* chunkAndEmbed: a new row per chunk, then its embedding, if there is one; *)
(* rows of an earlier attempt are still there.                             *)
ChunkAndEmbed(w) ==
    /\ piece[w].pc = "chunk"
    /\ IF piece[w].at > ChunkCount THEN StepTo(w, "finish") /\ UNCHANGED content
       ELSE /\ content' = [content EXCEPT ![piece[w].doc].chunks[piece[w].at] = @ + 1]
            /\ piece' = [piece EXCEPT ![w].at = @ + 1]
    /\ UNCHANGED <<upload, document, intake, requests, docFaults>>

FinishIntake(w) ==
    /\ piece[w].pc = "finish"
    /\ document' = [document EXCEPT ![piece[w].doc].status = IF piece[w].review THEN "needs_review" ELSE "ready"]
    /\ StepTo(w, "audit")
    /\ UNCHANGED <<upload, content, intake, requests, docFaults>>

AuditCompleted(w) ==
    /\ piece[w].pc = "audit"
    /\ Complete(w)
    /\ UNCHANGED <<upload, document, content, requests, docFaults>>

IntakeThrows(w) ==
    /\ piece[w].pc \in Tried /\ Hit
    /\ StepTo(w, "catch")
    /\ UNCHANGED <<upload, document, content, intake, requests>>

(* Mutant: the error is logged and not written. *)
MarkFailedLogs(w) ==
    /\ piece[w].pc = "catch"
    /\ Complete(w)
    /\ UNCHANGED <<upload, document, content, requests, docFaults>>

(* The failed status, then the error goes to the queue. *)
MarkFailed(w) ==
    /\ piece[w].pc = "catch"
    /\ document' = [document EXCEPT ![piece[w].doc].status = "failed"]
    /\ Rethrow(w)
    /\ UNCHANGED <<upload, content, requests, docFaults>>

(* Before the try, or in the catch itself: nothing is written. *)
LeavesProcessing(w) ==
    /\ piece[w].pc \in {"start", "catch"} /\ Hit
    /\ Rethrow(w)
    /\ UNCHANGED <<upload, document, content, requests>>

IntakeCrash ==
    /\ Hit
    /\ piece' = [w \in Intakes |-> NoPiece]
    /\ upload' = [u \in Uploads |-> IF upload[u].pc \in {"idle", "done"} THEN upload[u]
                                    ELSE [upload[u] EXCEPT !.pc = "error"]]
    /\ UNCHANGED <<document, content, intake, requests>>

Pipeline(w) ==
    \/ \E u \in Uploads : PickUpIntake(w, u)
    \/ StartIntake(w) \/ Extract(w) \/ Classify(w) \/ Derive(w)
    \/ ChunkAndEmbed(w) \/ FinishIntake(w) \/ AuditCompleted(w) \/ MarkFailed(w)

Upload(u) == FindExisting(u) \/ CreateDocument(u) \/ EnqueueUpload(u)

DocNext ==
    \/ \E u \in Uploads : \/ \E f \in Files : BeginUpload(u, f)
                          \/ Upload(u) \/ UploadThrows(u)
                          \/ Archive(u) \/ UpdateTitle(u) \/ Reprocess(u)
                          \/ StallIntake(u) \/ ForgetIntake(u)
    \/ \E w \in Intakes : Pipeline(w) \/ IntakeThrows(w) \/ LeavesProcessing(w)
    \/ IntakeCrash

DocSpec == DocInit /\ [][DocNext]_docVars
(* Promises settle, workers take jobs, the queue finds stalled ones. *)
DocFairness == /\ \A u \in Uploads : WF_docVars(Upload(u))
               /\ \A u \in Uploads : WF_docVars(StallIntake(u) /\ UNCHANGED docFaults)
               /\ \A w \in Intakes : WF_docVars(Pipeline(w))

-------------------------------------------------------------------------------
(* A ready document has a row for every chunk of its text, whatever failed,  *)
(* was retried, ran twice or was requested meanwhile (chunkAndEmbed runs     *)
(* before the status is written).                                            *)
ReadyIsIndexed ==
    \A u \in Uploads : document[u].status = "ready" => \A i \in 1..ChunkCount : content[u].chunks[i] > 0

(* Two runs work on one document only when the queue lost the lock of the    *)
(* first: uploads, reprocessing and retries never make two jobs              *)
(* (enqueueProcessing, "can never schedule two processing jobs").            *)
OneIntakePerDocument ==
    \A v, w \in Intakes : /\ piece[v].doc = piece[w].doc /\ piece[v].doc # NoUpload
                           /\ piece[v].alone /\ piece[w].alone
                           => v = w

(* A document whose own upload was acknowledged is processed, fails or is    *)
(* archived, whichever step throws and even if a worker dies or loses its    *)
(* lock once. (Two such failures can leave it processing, and a reprocess    *)
(* request, whose job the queue may ignore, queued.)                         *)
UploadsSettle ==
    \A u \in Uploads : upload[u].pc = "done" /\ upload[u].doc = u
        ~> document[u].status \in {"ready", "needs_review", "failed", "archived"} \/ document[u].again

(* What holds of the documents at every moment. *)
DocSafe == DocTypeOK /\ ReadyIsIndexed /\ OneIntakePerDocument

(* Why they hold: a run has written the chunks before the one it is at, and  *)
(* all of them once it writes the status; nothing removes a chunk. A run     *)
(* that kept its lock is the worker of the one job its document can have.    *)
PieceInv(w) ==
    /\ piece[w].pc # "idle" <=> piece[w].doc \in Uploads
    /\ piece[w].pc \in {"start", "extract", "classify", "derive"} => piece[w].at = 1
    /\ piece[w].pc = "chunk" => \A i \in 1..(piece[w].at - 1) : content[piece[w].doc].chunks[i] > 0
    /\ piece[w].pc \in {"finish", "audit"} => \A i \in 1..ChunkCount : content[piece[w].doc].chunks[i] > 0
    /\ piece[w].pc # "idle" /\ piece[w].alone => Holds(w)

DocInv ==
    /\ ReadyIsIndexed
    /\ \A u \in Uploads : intake[u].state \in {"waiting", "active"} => intake[u].made < DocAttempts
    /\ \A w \in Intakes : PieceInv(w)

-------------------------------------------------------------------------------
(* What the documents say and the code does not keep. *)

(* docs/frontend/API_CONTRACT.md: reprocess "re-runs the pipeline". The job  *)
(* of the first run is still known to the queue, which ignores the new one.  *)
ReprocessRuns == \A u \in Uploads : document[u].status = "queued" ~> document[u].status # "queued"

(* "A document is extracted once", and its tables and chunks with it: a      *)
(* retried job appends to what the failed attempt left.                      *)
ExtractedOnce ==
    \A u \in Uploads : /\ content[u].memories <= 1 /\ content[u].tables <= 1
                       /\ \A i \in 1..ChunkCount : content[u].chunks[i] <= 1

(* "An identical file already uploaded is not re-stored": two uploads at the *)
(* same time both find nothing.                                              *)
StoredOnce == \A u, v \in Uploads : document[u].status # "none" /\ document[v].status # "none"
                                    /\ document[u].file = document[v].file => u = v

(* A file that is uploaded again is in the pipeline or was: the request that *)
(* created its row may have failed before it queued the job.                 *)
KnownIsQueued == \A u \in Uploads : upload[u].pc = "done" =>
                    document[upload[u].doc].status # "queued" \/ intake[upload[u].doc].state # "none"
                        \/ upload[upload[u].doc].pc = "enqueue"

(* A run that began before overwrites the status an archive request wrote.   *)
ArchivedStays == [][\A u \in Uploads : document[u].status = "archived" /\ document'[u].status # "archived"
                        => requests' # requests]_docVars
===============================================================================
