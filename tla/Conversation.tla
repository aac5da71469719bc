----------------------------- MODULE Conversation -----------------------------
(***************************************************************************)
(* The turns of one conversation, from the message to the background jobs. *)
(*   src/orchestrator/mora-orchestrator.service.ts  handleMessage and below*)
(*   src/conversations/conversations.service.ts     rows, scope, history   *)
(*   src/agents/personal-agent.service.ts, professional-agent.service.ts   *)
(*   src/context/context-builder.service.ts         build                  *)
(*   src/memory/conversation-summary.service.ts     shouldSummarize, ...   *)
(*   src/memory/queue/                              the jobs               *)
(* Turns of one conversation overlap (text and voice, two tabs). What a    *)
(* text says is left out; "knows" is the set of scopes whose stores        *)
(* (memories, documents, tools) a text was generated from. A row is named  *)
(* by its place in the conversation, which is the order of createdAt.      *)
(***************************************************************************)
EXTENDS Integers, Sequences, FiniteSets, FiniteSetsExt

CONSTANTS Turns, NoTurn,
          Professional,      \* the professional spaces
          CrossScope,        \* app.crossScopeEnabled
          HistoryLimit,      \* RECENT_MESSAGES_LIMIT
          SummaryThreshold,  \* app.memory.summaryMessageThreshold
          MaxFaults          \* bound on the calls that throw and on stalled jobs

ASSUME ConversationConstants ==
    /\ NoTurn \notin Turns /\ CrossScope \in BOOLEAN /\ "general" \in Professional
    /\ HistoryLimit \in Nat \ {0} /\ SummaryThreshold \in Nat \ {0} /\ MaxFaults \in Nat

VARIABLES
    msgs,      \* the rows of the conversation
    title,     \* the turn whose title the conversation bears
    turn,      \* turn[t]: where handleMessage stands, and its locals
    recorded,  \* turns whose router decision is saved
    pending,   \* pending actions created, as <<turn, scope>>
    summary,   \* summary[lane]: to, the last row it covers; count; what it knows
    extracts,  \* turns with a memory extraction job
    jobs,      \* waiting summary jobs, as lanes
    worker,    \* the summary job being processed
    faults

vars == <<msgs, title, turn, recorded, pending, summary, extracts, jobs, worker, faults>>

Scopes == {"personal", "professional"}
Lanes == {[scope |-> "personal", space |-> "personal"]}
         \union [scope : {"professional"}, space : Professional]
Neutral(s) == [scope |-> s, space |-> s]
NoLane == Neutral("none")
(* What the router returns; greeting is an intent of a direct turn. *)
Decisions == [lane : Lanes \union {Neutral("hybrid")}, greeting : {FALSE}]
             \union [lane : {Neutral("direct")}, greeting : BOOLEAN]

NoContext == [rows |-> {}, after |-> 0, knows |-> {}]
Resting == [pc |-> "idle", lane |-> NoLane, part |-> NoLane, rest |-> NoLane,
            untitled |-> FALSE, ctx |-> NoContext, knows |-> {}]
Idle == [busy |-> FALSE, lane |-> NoLane, to |-> 0, new |-> 0, knows |-> {}]
Row == [turn : Turns, role : {"user", "assistant"},
        lane : Lanes \union {Neutral("direct"), Neutral("hybrid")},
        cut : BOOLEAN, knows : SUBSET Scopes]

Steps == {"idle", "route", "save", "dispatch", "direct", "split", "context", "history", "model",
          "resolve", "phrase", "answer", "record", "title", "extract", "check", "done", "failed"}

Handling == [pc : Steps, lane : Lanes \union {Neutral("direct"), Neutral("hybrid"), NoLane},
             part : Lanes \union {NoLane}, rest : Lanes \union {NoLane}, untitled : BOOLEAN,
             ctx : [rows : SUBSET Nat, after : Nat, knows : SUBSET Scopes], knows : SUBSET Scopes]

TypeOK ==
    /\ msgs \in Seq(Row) /\ title \in Turns \union {NoTurn}
    /\ turn \in [Turns -> Handling] /\ \A t \in Turns : turn[t].ctx.rows \subseteq DOMAIN msgs
    /\ recorded \subseteq Turns /\ pending \subseteq Turns \X Scopes /\ extracts \subseteq Turns
    /\ summary \in [Lanes -> [to : 0..Len(msgs), count : 0..Len(msgs), knows : SUBSET Scopes]]
    /\ jobs \in Seq(Lanes) /\ faults \in 0..MaxFaults
    /\ worker \in [busy : BOOLEAN, lane : Lanes \union {NoLane}, to : 0..Len(msgs), new : Nat, knows : SUBSET Scopes]

Init ==
    /\ msgs = <<>> /\ title = NoTurn /\ turn = [t \in Turns |-> Resting]
    /\ recorded = {} /\ pending = {} /\ extracts = {}
    /\ summary = [l \in Lanes |-> [to |-> 0, count |-> 0, knows |-> {}]]
    /\ jobs = <<>> /\ worker = Idle /\ faults = 0

Goto(t, pc) == turn' = [turn EXCEPT ![t].pc = pc]

-------------------------------------------------------------------------------
(* ConversationsService. *)

(* addMessage: the new row is the last one. *)
AddMessage(t, role, knows) ==
    msgs' = Append(msgs, [turn |-> t, role |-> role, lane |-> turn[t].lane,
                          cut |-> FALSE, knows |-> knows])

Visible(scope) == {i \in DOMAIN msgs : msgs[i].lane.scope \in {scope, "direct"}}

VisibleAll(scope) == {i \in DOMAIN msgs : msgs[i].lane.scope \in {scope, "direct", "hybrid"}}

(* getActiveScope: the lane of the last scoped user row. *)
ActiveScope ==
    LET scoped == {i \in DOMAIN msgs : msgs[i].role = "user" /\ msgs[i].lane.scope \in Scopes}
    IN  IF scoped = {} THEN NoLane ELSE msgs[Max(scoped)].lane

(* Mutant: the rows a summary covers are read again. *)
ScopedHistoryRepeats(scope, since) ==
    {i \in Visible(scope) : Cardinality({j \in Visible(scope) : j > i}) < HistoryLimit}

(* Mutant: the scope is not part of the query. *)
ScopedHistoryAnyScope(scope, since) ==
    {i \in VisibleAll(scope) : i > since
        /\ Cardinality({j \in VisibleAll(scope) : j > i}) < HistoryLimit}

(* getScopedHistory: the last HistoryLimit visible rows after `since`, then *)
(* without the answers that were cut.                                       *)
ScopedHistory(scope, since) ==
    LET after == {i \in Visible(scope) : i > since}
    IN  {i \in after : Cardinality({j \in after : j > i}) < HistoryLimit
                       /\ ~(msgs[i].role = "assistant" /\ msgs[i].cut)}

(* The update is guarded by `where: { title: null }`. *)
SetTitleIfMissing(t) == title' = IF title = NoTurn THEN t ELSE title

(* markMessageInterrupted, called by the voice gateway for a row it answered. *)
Interrupt(i) ==
    /\ msgs[i].role = "assistant" /\ ~msgs[i].cut
    /\ msgs' = [msgs EXCEPT ![i].cut = TRUE]
    /\ UNCHANGED <<title, turn, recorded, pending, summary, extracts, jobs, worker, faults>>

-------------------------------------------------------------------------------
(* handleMessage: one action for each stretch between two awaits. *)

(* getOrCreateConversation: the title is read here and used at the end. *)
Begin(t) ==
    /\ turn[t].pc = "idle"
    /\ turn' = [turn EXCEPT ![t].pc = "route", ![t].untitled = title = NoTurn]
    /\ UNCHANGED <<msgs, title, recorded, pending, summary, extracts, jobs, worker, faults>>

(* applyConversationContinuity: a turn without a scope of its own stays in *)
(* the scope of the conversation, greetings excepted.                      *)
Continued(d) ==
    IF d.lane.scope \in {"direct", "hybrid"} /\ ~d.greeting /\ ActiveScope # NoLane
    THEN ActiveScope ELSE d.lane

(* classify answers d; a routing override is a scoped d, kept as it is. *)
Route(t, d) ==
    /\ turn[t].pc = "route"
    /\ turn' = [turn EXCEPT ![t].pc = "save", ![t].lane = Continued(d)]
    /\ UNCHANGED <<msgs, title, recorded, pending, summary, extracts, jobs, worker, faults>>

SaveUser(t) ==
    /\ turn[t].pc = "save"
    /\ AddMessage(t, "user", {})
    /\ Goto(t, "dispatch")
    /\ UNCHANGED <<title, recorded, pending, summary, extracts, jobs, worker, faults>>

(* A hybrid turn is refused unless cross scope is enabled. *)
Dispatch(t) ==
    LET lane == turn[t].lane IN
    /\ turn[t].pc = "dispatch"
    /\ turn' = [turn EXCEPT
            ![t].pc = CASE lane.scope \in Scopes -> "context"
                        [] lane.scope = "direct" -> "direct"
                        [] OTHER -> IF CrossScope THEN "split" ELSE "answer",
            ![t].part = IF lane \in Lanes THEN lane ELSE NoLane]
    /\ UNCHANGED <<msgs, title, recorded, pending, summary, extracts, jobs, worker, faults>>

(* The essential profile and the message, no store and no history; without  *)
(* a model a fixed text.                                                    *)
HandleDirect(t) ==
    /\ turn[t].pc = "direct" /\ Goto(t, "answer")
    /\ UNCHANGED <<msgs, title, recorded, pending, summary, extracts, jobs, worker, faults>>

(* dispatchSplitHybrid: the personal part first, then the professional one *)
(* in the space its own classification finds; no split, no answer.         *)
SplitHybrid(t, space) ==
    /\ turn[t].pc = "split"
    /\ \/ turn' = [turn EXCEPT ![t].pc = "context",
                       ![t].part = [scope |-> "personal", space |-> "personal"],
                       ![t].rest = [scope |-> "professional", space |-> space]]
       \/ Goto(t, "answer")
    /\ UNCHANGED <<msgs, title, recorded, pending, summary, extracts, jobs, worker, faults>>

(* ContextBuilder.build, first reads: the facts and the summary. *)
ReadSummary(t) ==
    /\ turn[t].pc = "context"
    /\ turn' = [turn EXCEPT ![t].pc = "history",
                    ![t].ctx = [rows |-> {}, after |-> summary[turn[t].part].to,
                                knows |-> summary[turn[t].part].knows]]
    /\ UNCHANGED <<msgs, title, recorded, pending, summary, extracts, jobs, worker, faults>>

(* ContextBuilder.build, last reads and assembly: the newest row is always *)
(* kept, older ones as the budget allows; the summary may not fit in.      *)
ReadHistory(t) ==
    LET rows == ScopedHistory(turn[t].part.scope, turn[t].ctx.after) IN
    /\ turn[t].pc = "history"
    /\ \E from \in IF rows = {} THEN {0} ELSE rows :
         turn' = [turn EXCEPT ![t].pc = "model",
                      ![t].ctx = [rows |-> {i \in rows : i >= from}, after |-> turn[t].ctx.after,
                                  knows |-> turn[t].ctx.knows \union {turn[t].part.scope}
                                            \union UNION {msgs[i].knows : i \in rows}]]
    /\ UNCHANGED <<msgs, title, recorded, pending, summary, extracts, jobs, worker, faults>>

(* Mutant: the half that was answered comes again. *)
EndPartAgain(t) ==
    turn' = [turn EXCEPT ![t].pc = IF turn[t].rest = NoLane THEN "answer" ELSE "context",
                         ![t].part = turn[t].rest,
                         ![t].knows = @ \union turn[t].ctx.knows, ![t].ctx = NoContext]

(* The text of this half is there; the second half of a split comes next. *)
EndPart(t) ==
    turn' = [turn EXCEPT ![t].pc = IF turn[t].rest = NoLane THEN "answer" ELSE "context",
                         ![t].part = turn[t].rest, ![t].rest = NoLane,
                         ![t].knows = @ \union turn[t].ctx.knows, ![t].ctx = NoContext]

(* The completion of the agent: a text, or the first of its tool calls. *)
Handle(t, scope) ==
    /\ turn[t].pc = "model" /\ turn[t].part.scope = scope
    /\ EndPart(t) \/ Goto(t, "resolve")
    /\ UNCHANGED <<msgs, title, recorded, pending, summary, extracts, jobs, worker, faults>>

PersonalAgent(t) == Handle(t, "personal")
ProfessionalAgent(t) == Handle(t, "professional")

(* resolveAgentResponse: the call is refused, leaves a pending action (N2,  *)
(* N3), or was executed and is still to be phrased.                         *)
ResolveToolCall(t) ==
    /\ turn[t].pc = "resolve"
    /\ \/ EndPart(t) /\ UNCHANGED pending
       \/ EndPart(t) /\ pending' = pending \union {<<t, turn[t].part.scope>>}
       \/ Goto(t, "phrase") /\ UNCHANGED pending
    /\ UNCHANGED <<msgs, title, recorded, summary, extracts, jobs, worker, faults>>

SummarizeToolResult(t) ==
    /\ turn[t].pc = "phrase" /\ EndPart(t)
    /\ UNCHANGED <<msgs, title, recorded, pending, summary, extracts, jobs, worker, faults>>

Asked(t) == \E s \in Scopes : <<t, s>> \in pending
(* Two actions at once are not returned: the user is told to ask again. *)
Returned(t) == Cardinality({s \in Scopes : <<t, s>> \in pending}) = 1

SaveAnswer(t) ==
    /\ turn[t].pc = "answer"
    /\ AddMessage(t, "assistant", turn[t].knows)
    /\ Goto(t, "record")
    /\ UNCHANGED <<title, recorded, pending, summary, extracts, jobs, worker, faults>>

(* The router decision and the audit entry; then the reply is on its way,  *)
(* and the background jobs follow for a scoped turn that asks for nothing. *)
Record(t) ==
    /\ turn[t].pc = "record"
    /\ recorded' = recorded \union {t}
    /\ Goto(t, IF turn[t].lane \in Lanes /\ ~Returned(t) THEN "title" ELSE "done")
    /\ UNCHANGED <<msgs, title, pending, summary, extracts, jobs, worker, faults>>

(* titleConversation: only if no title was read at the start; it may fail, *)
(* or find no model, and is not tried again.                               *)
Title(t) ==
    /\ turn[t].pc = "title"
    /\ \/ turn[t].untitled /\ SetTitleIfMissing(t)
       \/ UNCHANGED title
    /\ Goto(t, "extract")
    /\ UNCHANGED <<msgs, recorded, pending, summary, extracts, jobs, worker, faults>>

EnqueueExtraction(t) ==
    /\ turn[t].pc = "extract"
    /\ extracts' = extracts \union {t}
    /\ Goto(t, "check")
    /\ UNCHANGED <<msgs, title, recorded, pending, summary, jobs, worker, faults>>

Unsummarized(l) == {i \in Visible(l.scope) : i > summary[l].to}

ShouldSummarize(l) == Cardinality(Unsummarized(l)) >= SummaryThreshold

CheckSummary(t) ==
    /\ turn[t].pc = "check"
    /\ jobs' = IF ShouldSummarize(turn[t].lane) THEN Append(jobs, turn[t].lane) ELSE jobs
    /\ Goto(t, "done")
    /\ UNCHANGED <<msgs, title, recorded, pending, summary, extracts, worker, faults>>

(* A query, a tool or an enqueue throws: the request ends with an error, or *)
(* the rest of the background work is dropped with a warning.               *)
Throw(t) ==
    /\ turn[t].pc \notin {"idle", "done", "failed"} /\ faults < MaxFaults
    /\ faults' = faults + 1
    /\ turn' = [turn EXCEPT ![t] = [Resting EXCEPT !.pc = "failed"]]
    /\ UNCHANGED <<msgs, title, recorded, pending, summary, extracts, jobs, worker>>

-------------------------------------------------------------------------------
(* ConversationSummaryProcessor: one job at a time (the worker's default). *)

(* summarize, up to the model call; nothing new ends the job. *)
ReadUnsummarized ==
    /\ jobs # <<>> /\ ~worker.busy
    /\ LET l == Head(jobs)
           rows == Unsummarized(l)
       IN  IF rows = {} THEN jobs' = Tail(jobs) /\ UNCHANGED worker
           ELSE /\ worker' = [busy |-> TRUE, lane |-> l, to |-> Max(rows), new |-> Cardinality(rows),
                              knows |-> UNION {msgs[i].knows : i \in rows}]
                /\ UNCHANGED jobs
    /\ UNCHANGED <<msgs, title, turn, recorded, pending, summary, extracts, faults>>

(* The upsert extends the summary read before; without a model it stays. *)
WriteSummary ==
    /\ worker.busy
    /\ \/ summary' = [summary EXCEPT ![worker.lane] =
                    [to |-> worker.to, count |-> @.count + worker.new, knows |-> @.knows \union worker.knows]]
       \/ UNCHANGED summary
    /\ jobs' = Tail(jobs) /\ worker' = Idle
    /\ UNCHANGED <<msgs, title, turn, recorded, pending, extracts, faults>>

(* A crash, or a failed query: the job is attempted again from its start. *)
RetrySummary ==
    /\ worker.busy /\ faults < MaxFaults
    /\ faults' = faults + 1 /\ worker' = Idle
    /\ UNCHANGED <<msgs, title, turn, recorded, pending, summary, extracts, jobs>>

Advance(t) ==
    \/ \E d \in Decisions : Route(t, d)
    \/ SaveUser(t) \/ Dispatch(t) \/ ReadSummary(t) \/ ReadHistory(t)
    \/ \E space \in Professional : SplitHybrid(t, space)
    \/ HandleDirect(t) \/ PersonalAgent(t) \/ ProfessionalAgent(t) \/ ResolveToolCall(t) \/ SummarizeToolResult(t)
    \/ SaveAnswer(t) \/ Record(t) \/ Title(t) \/ EnqueueExtraction(t) \/ CheckSummary(t)

Next ==
    \/ \E t \in Turns : Begin(t) \/ Advance(t) \/ Throw(t)
    \/ \E i \in DOMAIN msgs : Interrupt(i)
    \/ ReadUnsummarized \/ WriteSummary \/ RetrySummary

Spec == Init /\ [][Next]_vars
(* Promises and the queue make progress; users and failures owe nothing. *)
FairSpec == Spec /\ \A t \in Turns : WF_vars(Advance(t))
                 /\ WF_vars(ReadUnsummarized) /\ WF_vars(WriteSummary)

-------------------------------------------------------------------------------
(* Personal never sees professional and vice versa: what the agent of a     *)
(* scope is handed, history and summary included, was generated from the    *)
(* stores of that scope only, however turns and summaries interleave        *)
(* (getScopedHistory, the comment of dispatchSplitHybrid).                  *)
ScopeIsolation ==
    \A t \in Turns : turn[t].pc = "model" => turn[t].ctx.knows \subseteq {turn[t].part.scope}

(* A summary has counted each row up to its last one once: retries, jobs    *)
(* queued twice and rows added while the model writes lose and repeat none. *)
SummaryCountsOnce ==
    \A l \in Lanes : summary[l].count = Cardinality({i \in Visible(l.scope) : i <= summary[l].to})

(* The raw history never repeats what the summary handed with it covers.    *)
HistoryNeverRepeats ==
    \A t \in Turns : turn[t].pc = "model" => \A i \in turn[t].ctx.rows : i > turn[t].ctx.after

(* Memories are extracted from complete exchanges of one lane, and never    *)
(* from one that waits for a confirmation.                                  *)
ExtractionOfExchange ==
    \A t \in extracts :
        /\ ~Returned(t)
        /\ \E i, j \in DOMAIN msgs : /\ i < j /\ msgs[i].turn = t /\ msgs[j].turn = t
                                     /\ msgs[i].role = "user" /\ msgs[j].role = "assistant"
                                     /\ msgs[i].lane = msgs[j].lane /\ msgs[i].lane \in Lanes

(* Rows of the conversation are used once: in a summary, in the history     *)
(* handed to a model, in the extraction of memories.                        *)
RowsUsedOnce == TypeOK /\ SummaryCountsOnce /\ HistoryNeverRepeats /\ ExtractionOfExchange

(* Why they hold. A turn works on one part at a time; what it is handed for *)
(* a part, and so what a turn of one scope knows, is of the part's scope.   *)
Working == {"context", "history", "model", "resolve", "phrase"}
PartInv(h) ==
    /\ h.pc \notin {"idle", "route", "failed"} => h.lane \in Lanes \union {Neutral("direct"), Neutral("hybrid")}
    /\ h.pc \in {"idle", "route", "save", "dispatch"} => h.rest = NoLane /\ h.knows = {}
    /\ h.pc = "direct" => h.lane = Neutral("direct")
    /\ h.pc = "split" => h.lane = Neutral("hybrid")
    /\ h.pc \in Working => /\ h.part \in Lanes /\ h.lane # Neutral("direct")
                           /\ h.lane \in Lanes => h.part = h.lane /\ h.rest = NoLane
    /\ h.pc \in Working \ {"context"} => h.ctx.knows \subseteq {h.part.scope}
    /\ h.lane = Neutral("direct") => h.knows = {}
    /\ h.lane \in Lanes => h.knows \subseteq {h.lane.scope}
    /\ h.pc \in {"title", "extract", "check"} => h.lane \in Lanes
    /\ h.pc = "model" => \A i \in h.ctx.rows : i > h.ctx.after

(* The rows of a lane, and the summaries made of them, know its scope only. *)
Clean(m) == /\ m.lane = Neutral("direct") => m.knows = {}
            /\ m.lane \in Lanes => m.knows \subseteq {m.lane.scope}
KnowledgeInv ==
    /\ \A i \in DOMAIN msgs : Clean(msgs[i])
    /\ \A l \in Lanes : summary[l].knows \subseteq {l.scope}
    /\ worker.busy => worker.lane \in Lanes /\ worker.knows \subseteq {worker.lane.scope}

(* The one worker has counted the visible rows behind the summary it        *)
(* extends, up to the row it will be said to cover.                         *)
Between(l, from, to) == {i \in Visible(l.scope) : from < i /\ i <= to}
WorkerInv ==
    worker.busy => /\ jobs # <<>> /\ summary[worker.lane].to <= worker.to
                   /\ worker.new = Cardinality(Between(worker.lane, summary[worker.lane].to, worker.to))

(* The rows of a turn are where its place says, and a turn that queues an   *)
(* extraction has asked for nothing.                                        *)
Accepted == Working \union {"dispatch", "direct", "split", "answer"}
UserRow(t, l, i) == msgs[i].turn = t /\ msgs[i].role = "user" /\ msgs[i].lane = l
Exchange(t, l) == \E i, j \in DOMAIN msgs : /\ i < j /\ UserRow(t, l, i)
                                           /\ msgs[j].turn = t /\ msgs[j].role = "assistant" /\ msgs[j].lane = l
TrackInv(t) ==
    /\ turn[t].pc \in Accepted => \E i \in DOMAIN msgs : UserRow(t, turn[t].lane, i)
    /\ turn[t].pc \in {"record", "title", "extract"} => Exchange(t, turn[t].lane)
    /\ turn[t].pc \in {"title", "extract"} => ~Returned(t)
    /\ t \in extracts => /\ turn[t].pc \in {"check", "done", "failed"} /\ ~Returned(t)
                         /\ \E l \in Lanes : Exchange(t, l)

ConversationInv == /\ \A t \in Turns : PartInv(turn[t]) /\ TrackInv(t)
                   /\ KnowledgeInv /\ WorkerInv /\ SummaryCountsOnce

(* A message that was accepted is answered or fails: no turn stays halfway. *)
TurnsEnd == \A t \in Turns : turn[t].pc = "route" ~> turn[t].pc \in {"done", "failed"}

-------------------------------------------------------------------------------
(* What the documents say and the code does not keep. *)

(* "the latest user message is ALWAYS sent to the model": not the halves of  *)
(* a split, saved in the scope no history reads, nor a message that a        *)
(* summary job covered before the history was read.                          *)
LatestMessageSent ==
    \A t \in Turns : turn[t].pc = "model" =>
        \E i \in turn[t].ctx.rows : msgs[i].turn = t /\ msgs[i].role = "user"

(* Two pending actions of one split turn are created and never returned.     *)
ActionsReturned == \A t \in recorded : Asked(t) => Returned(t)
===============================================================================
