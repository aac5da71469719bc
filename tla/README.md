# Mora backend: a TLA+ development

Mora is a NestJS backend for a personal and professional assistant. Clients
talk to it over REST and over a voice WebSocket. A message is routed to an
agent, the agent may ask for a tool, and a tool that touches the outside world
waits for the user's confirmation. Jobs (reminders, WhatsApp missions,
documents, memory) run in BullMQ workers; rows live in PostgreSQL through
Prisma. There are no locks: what keeps concurrent handlers apart are conditional
updates, unique keys and in-memory maps. This development models the parts where
that discipline carries the correctness of the program.

Paths below are relative to `src/src/` unless they start with `docs/` or `prisma/`.

## 1. Inventory

| Component | State it keeps | Operations | Interacts with | Hard behaviour | Correct when |
|---|---|---|---|---|---|
| Tool executor, permissions, audit (`tools/`, `audit/`) | `tool_calls`, `audit_entries` | `requestExecution`, `executeNow` | pending actions, skills, every service | several writes around one effect | nothing confirmed-only runs unconfirmed; the ledgers agree |
| Pending actions (`pending-actions/`) | `pending_actions` | create, approve, reject, cancel, expire | tool executor, voice, REST | approvals, rejections and the deadline race; restarts | decided once, executed at most once |
| Skills (`skills/`) | `user_skills` | enable, disable | tool executor | switched between a claim and the run | a disabled tool does not run |
| Voice turns (`voice/voice.gateway.ts`, `voice-turn-runner`, `voice-turn`, `voice-runtime.registry`) | in-memory session state, `voice_turns` | speech start and end, interrupt, run, speak | orchestrator, pending actions, STT, TTS | a barge-in between any two awaits, un-awaited writes | silence after a barge-in; an answer decides what was asked |
| Voice connections (`voice.gateway.ts`, `voice-session`) | socket map, `voice_sessions` | connect, `session.start`, state changes, end, close | voice turns, REST | reads before awaits, late close events | one socket per session, owner only, legal states |
| Reminders (`reminders/`) | `reminders`, delayed jobs | create, deliver, cancel | queue, notifications, missions | retries, stalled jobs, crashes | one notification at most, none lost, cancellation respected |
| WhatsApp missions (`whatsapp/whatsapp-mission*`) | `whatsapp_missions`, turn jobs | start, inbound, turn, finish, cancel, sweep | messages, reminders, notifications, LLM | duplicate webhooks, retries after effects, silence | bounded messages, one turn per message, ends and reports |
| WhatsApp messages and accounts (`whatsapp/`) | contacts, conversations, messages, delivery statuses | ingest, send, status update, inbox | provider API | repeated and reordered webhooks | no duplicate message, statuses move forward |
| Notifications (`notifications/`) | `notifications` | create, mark read | reminders, missions | - | owner only |
| Auth and API keys (`auth/`) | refresh tokens, API keys | login, refresh, logout | users | concurrent refresh | a token is rotated once |
| Orchestrator, router, agents, context (`orchestrator/`, `router/`, `agents/`, `context/`) | messages | classify, continuity, hybrid split, dispatch | LLM, tools, memory | failure half way, two proposals at once | every proposal reaches the user |
| LLM and AI providers (`llm/`, `ai-providers/`) | provider rows, call log | select, fallback, set default | every LLM caller | concurrent defaults | one default per slot; the selection order |
| Memory and embedding (`memory/`, `embedding/`) | facts, memories, summaries, vectors | extract, upsert, supersede, summarise | queue, LLM | read-then-write upserts | one active fact per key |
| Documents (`documents/`) | documents, chunks, tables, files | upload, intake, archive, reprocess | queue, embedding | retried pipeline steps | chunks of one run only |
| Google, contacts, calendar (`google/`, `contacts/`, `calendar/`) | tokens, contacts, events | connect, refresh, import, push, free slots | Google API | partial failure of a push; a setting read twice | no duplicate contact; a slot is free |
| Mailboxes (`email/`) | accounts, threads, messages | pull, send, remove, health | contacts, memory | two pulls of one mail, a removal during a pull | a mail is stored and read once |
| Vision (`vision/`) | `vision_assets`, stored files | validate, store, analyse | conversations, LLM | two requests with one image | a note is about the image it came with |
| Tool implementations (`tools/impl/`, `tasks/`) | the rows of other parts | fifty tools | executor, every service | the row or contact changes between the look and the act | nothing of another lane |
| Avatar, bug reports, users | rows | one write per route | - | - | owner only |
| MCP endpoint, business connectors, CLI, health, config, common, database | - | glue | - | - | - |

`PROJECT.json` lists every component with its sources and status, and under
`hazards` what is hard to test, line by line.

## 2. Modules

| Module | Models | Checked as |
|---|---|---|
| `PendingLifecycle` | the promise of the confirmation flow | abstract specification |
| `PendingActions` | executor, permissions, skills, pending actions | `MCPendingActions`; implements `PendingLifecycle` |
| `PendingActionsProofs` | - | theorems about `PendingActions` |
| `Reminders`, `RemindersProofs` | a reminder from row to notification | `MCOutreach`, `MCReminders`, theorems |
| `VoiceTurns`, `VoiceTurnsProofs` | overlapping turns of one voice session | `MCVoiceTurns`, theorems |
| `WhatsAppMission`, `WhatsAppMissionProofs` | missions of one conversation | `MCOutreach`, `MCWhatsAppMission`, theorems |
| `Conversation`, `ConversationProofs` | orchestrator, agents, context, summaries, extraction jobs | `MCConversation`, theorems |
| `Documents`, `MemoryStore`, `ProfileFacts` | what Mora knows | `MCKnowledge` |
| `KnowledgeProofs` | - | theorems about each of these three |
| `AiProviders`, `Sessions`, `GoogleGrant`, `AddressBook`, `Mailbox` | the services behind a conversation | `MCServices` |
| `ServicesProofs` | - | theorems about `Sessions`, `GoogleGrant`, `Mailbox`, `AiProviders`, `Calendar` and `AddressBook` |
| `Router`, `Retrieval`, `Tools`, `Calendar`, `Vision`, `WhatsAppDelivery` | routing, search, tools and channels | `MCSurfaces` |
| `VoiceConnection` | sockets and voice sessions | `MCConnection` |
| `SurfacesProofs` | - | theorems about `WhatsAppDelivery`, `Vision`, `Tools`, `VoiceConnection`, `Router` and `Retrieval` |

`MCOutreach`, `MCKnowledge`, `MCServices` and `MCSurfaces` each compose several components
that share no state: a behaviour picks one part and works on it, and the others
stay at their start, so that the state spaces add instead of multiplying. In the
last three, each part's invariants are gathered in one named conjunction (`DocSafe`,
`BookSafe`, ...), whose conjuncts section 3 lists.

Conventions shared by the modules:

- JavaScript runs to completion between awaits, so one action is the code
  between two awaits; what a handler read before an await is kept in its record
  (`req[r]`, `flow[t]`, `turn[t]`, `piece[w]`, `sync[r]`, ...) and may be stale later.
- A conditional `updateMany` is one atomic step; a `find` followed by an
  `update` is two. Unique keys of the schema and of the migrations are guards of
  the write that would break them.
- Calls made with `void` are pending writes that land later in any order.
- A failure of an awaited call is an action of its own (`DbError`,
  `DeliveryThrows`, `RunFails`, ...) bounded by a `Max...` constant; `Faulty`
  names the calls that may fail in an instance. A crash forgets handlers, keeps
  rows and jobs.
- Texts, prompts, transcripts and reports are left out. What the LLM, a tool, the
  speech services or the contact answer is a free choice among the cases the code
  tells apart.
- A definition whose comment starts with "Mutant" is a plausible bug. No
  specification uses it; each checked property is shown to fail when it replaces
  the definition it precedes.

### PendingActions

`row[a]` is the `pending_actions` row, `call[r]` the `tool_calls` row that
request `r` creates, `req[r]` the request in flight, `ran` the requests that
invoked `tool.execute()`. `RequestExecution`, `CheckSkill` and `CreatePending`
are `requestExecution`; `StartCall` to `AuditCall` are `executeNow` with its
catch branch; `Decide`, `ExpireAction`, the three claims, `LookupTool`,
`GateSkill`, `BlockAction` and `SettleAction` are `approve`, `reject` and
`cancel`. `Restart` may come back with other tools registered.

### VoiceTurns

`state` is the `VoiceRuntimeState` of one connected session, `flow[t]` one
`finalizeTurn`/`run` call. `SpeechStarted`, `SpeechEnded`, `ConfirmSilence` and
`AudioEnd` are the ways audio begins and ends a turn; `Interrupt`,
`CloseSession` and `Disconnect` stop it; `Transcribed` to `FailTurn` are the
await points of the turn. Generations are numbers where the code draws UUIDs.
`Thrown` is an awaited call that throws: nothing catches it, so the rest of the
turn does not run, and the tail of `finalizeTurn` neither. `spoken`, `asked`,
`silenced`, `state.speech` and `flow[t].adrift` (the action of the turn has been
let go of) record history for the properties.

### Reminders

`delayed[r]` is the BullMQ job (external: attempts, lock, stalled-job recovery as
the worker options use them), `run[w]` a run of the processor, which goes on
after `LoseLock` gave its job to another worker. Due times are left out: a
delayed job may be picked up at any moment.

### WhatsAppMission

One conversation. `hook[d]` is a webhook delivery, `job[x]` the turn job of
message `x`, `act[a]` the single worker or a `cancel` call. A sweep and a turn
share the worker because both are jobs of the same queue with concurrency 1.

### Conversation

`msgs` are the rows of one conversation in the order of `createdAt`, `turn[t]` a
call of `handleMessage` with the parts still to answer, and the summary rows and
jobs of each lane stand beside them. A row carries the scope it was saved in and
`knows`, the scopes whose stores its text was generated from, so that a leak
between personal and professional is a fact about rows and not about wording.
Routing is what `Router` may decide; continuity, direct answers, the hybrid
split, the two agents, tool requests and the jobs queued after a reply follow the code.

### Documents, MemoryStore, ProfileFacts

`document[u]` is a row named by the upload that created it, `content[u]` what
the pipeline has written for it, `intake[u]` its one job (`jobId` is derived from
the document) and `piece[w]` a run of the pipeline, which may go on after its
lock expired. `memories` are the rows about one subject, each with the digits of
its content and the embedding it is found by; a writer is a run of
`commitCandidates`, whose create and supersession are two writes. `edited` and
`reverted` are history: the user changed the row, and an edit wrote back the text
of before another edit (section 5, `VectorsFollowEdits`). `facts` are the
rows of one profile key and `upsert[j]` a job's place in `upsertEssential`.

### AiProviders, Sessions, GoogleGrant, AddressBook, Mailbox

`AiProviders` has the rows of one kind, the transaction of a change in two steps,
the partial unique index on defaults, and the calls made through the row chosen.
`Sessions` is login, refresh, rotation, logout and expiry of refresh tokens.
`GoogleGrant` relates three places that hold a grant: Google, the row, the cached
access token. `AddressBook` has Mora's contacts and Google's people with the runs
of import (page by page, as far as `MAX_PAGES`; people without a name are skipped)
and push (the `MAX_PER_RUN` oldest contacts, as they were read) and the jobs that
mirror edits. `Mailbox` has overlapping
pulls, which look for a sender, a thread and a mail and create what they did not
find in later steps, and the removal of a box; a contact that is deleted during a pull
is left out.

### Router, Retrieval, Tools, Calendar, Vision, WhatsAppDelivery, VoiceConnection

`Router` is `classify` and `splitHybrid` as functions of the features the
patterns find, checked on every combination of features. `Retrieval` ranks
memories and chunks by vector, or by words when there is none, while documents
are archived, tagged, queued for the pipeline again, given another type by it and
made ready; the new chunks of such a run are left out. `Tools` is one
table row per tool (what it reads, compares, resolves, writes) and the few steps
in which any of them runs. A name is looked up in the names and the companies of
the one address book, in a list that ends at `ListLimit`; the addresses are read
one contact after the other, and once more when the message leaves (not for
files). Between any two steps a contact may be renamed, move to another company,
be blocked, gain or lose an address, go, or get a namesake. A new contact is
stored as personal whatever the caller's lane, and its addresses follow one by
one, any of which may be refused. `Calendar` has both calendars behind the setting that
each call reads anew, and the free-slot walk. `Vision` has the header checks and
the two steps behind an asset. `WhatsAppDelivery` has sends, delivery reports and
the accounts and conversations they belong to. `VoiceConnection` has the socket
map, the session rows, the two halves of every `transition()`, and reads and
writes that fail: `session.end` swallows the failure of `end()` and closes and
unregisters the socket all the same, which `torn` remembers.

## 3. Runs

| Run | Bounds | Shows |
|---|---|---|
| `pending_actions` | 2 users, 1 action, 3 tools (N1, N2, N4), 3 requests, 1 fault | at most one execution, only with the owner's approval, decisions respected |
| `pending_settles` | 1 user, 1 tool, 3 requests, 2 faults, fair | the two ledgers agree, the refinement of `PendingLifecycle`, approved actions settle |
| `voice_turns` | 2 hands-free turns, 3 generations, the calls of one turn may throw, fair | silence after a barge-in, turns cut off are not shown as completed, one response, asked actions survive; a proposed action is asked about, cancelled or decided, unless the connection is lost or the call let go of it |
| `voice_talk` | 2 push-to-talk turns after one that asked a confirmation, 2 generations, one at a time | each spoken answer decides one action the client was asked about |
| `outreach`, reminders | 1 reminder, 2 workers, 2 cancels, 3 attempts, 1 stall, 5 mishaps, fair | one notification at most, cancellation respected, no acknowledged reminder stays scheduled |
| `outreach`, missions | 1 mission, 2 messages, 2 hooks, 2 cancels, limit 2, 2 attempts, 1 fault, fair | the message limit, `MissionSafe` (one turn per message, no report of a mission that goes on and no more reports than actors), missions end and are reported |
| `reminders_lost` | 1 reminder, 2 workers, 1 fault | counterexample, section 5 |
| `mission_limit` | 1 mission, 2 messages, limit 2, 1 fault | counterexample, section 5 |
| `conversation` | 2 turns, 2 professional spaces, history 3, a summary after 2 rows, 1 fault, fair | no scope is handed what the other generated, no row is used twice, every turn ends |
| `knowledge` | below | documents, memories and profile facts |
| `services` | below | tokens, the Google grant, contacts, mailboxes, providers |
| `surfaces` | below | routing, search, tools, calendars, images, deliveries |
| `connections` | 1 session, 3 sockets, 2 handlers, 2 users, any call may fail | `ConnSafe` (one live socket per session until it is ended or torn down behind a failed `end()`, owners only), statuses follow the table |

### The parts of the composed runs

| Invariant | Conjuncts, besides the types | Bounds |
|---|---|---|
| `DocSafe` | `ReadyIsIndexed`, `OneIntakePerDocument` | 2 uploads of 1 file, 2 workers, 2 chunks, 2 attempts, 1 stall, 1 fault, 1 request |
| `MemSafe` | `SubjectKept`, `DetailKept`, `QuietIsEmbedded` | the extraction job, 1 other writer, 1 editor, 2 contents, 2 attempts, 1 hit, 1 miss, 1 archive |
| `FactSafe` | `KeyKept`, `OneFactPerFailure` | 3 jobs, 2 values, 2 attempts, 2 faults |
| `SessionSafe` | `SingleUseInTurn` | 2 refreshes, 3 tokens, 1 failed write |
| `GrantSafe` | `NoTokenWithoutAccount` | 3 callers, 2 grants, 1 failure |
| `BookSafe` | `LinkedOnce`, `InStep`, `PushedOnce` | 2 runs, 2 remote jobs, 3 contacts, 3 people (one without a name), 1 edit, 1 failure; pages of 1, 2 pages, 1 contact pushed |
| `MailSafe` | `ReadOnce`, `ThreadPerPull`, `NothingLeftBehind` | 2 pulls, 2 boxes, 2 mails (one in both), 1 failure |
| `AiSafe` | `DefaultsInTurn`, `BestProvider`, `PromptStays`, `AnswerKept` | 2 users and SYSTEM, 2 starting tables, 2 requests, 1 call, 4 rows |
| `RouterSafe` | `NeverDirect`, `KeywordsDecide`, `FiledRight` | every combination of features, every answer of the model |
| `RetrievalSafe` | `LaneKept`, `UsesCounted`, `NearestKept`, `UseBringsNothingIn` | 2 questions at once, 4 memories, 4 chunks of 3 documents, limit 2, 1 candidate document, 1 change (a pipeline run comes with it) |
| `ToolsSafe` | `ToolsKeepLane`, `NobodyElse`, `ApprovedFirst` | 2 calls, 2 lanes, 8 rows, 4 contacts with namesakes and a company, a list of at most 2, new names drawn from 2, 1 change |
| `CalendarSafe` | `SlotsAreFree`, `ChangesInLane`, `ListingInLane` | 1 call, 4 overlapping events, 3 windows, days of 8 hours, 2 disturbances |
| `VisionSafe` | `NotesOfOwnImages`, `AttachedAtHome`, `StoredIsAcceptable` | 2 requests, 2 conversations, 5 images (3 kinds, one cut short, one too large) |
| `DeliverySafe` | `OrderIrrelevant`, `RowMeansSent` | 2 accounts, 2 contacts, 2 texts, 2 reports at once |

`QuietIsEmbedded` excepts `reverted` rows, which one editor cannot make; the
theorem about it (section 4) has any number of editors.
`knowledge` also checks `UploadsSettle`; `ConnSafe` is `OneSocketPerSession` and
`OnlyOwnerAttached`. In `conversation`, `RowsUsedOnce` is `SummaryCountsOnce`,
`HistoryNeverRepeats` and `ExtractionOfExchange`.

### Why the bounds are enough for the question asked

- Three requests are the proposal and two decisions that race; the invariants
  speak of pairs of requests, and the proofs remove the bound. Two faults
  reach a failed write inside the catch branch of another failed write.
- Two hands-free turns and three generations let a turn that waits for the
  orchestrator, or for its audio, be overtaken by a second one or be cut off twice,
  and a second one be cut off as well; the proofs remove the bound. `voice_turns` has
  no `audio.end`: a
  hands-free barge-in always draws a new generation and clears
  `currentPendingActionId`, and that is what its properties rest on. Where
  push-to-talk breaks them see section 5.
- `voice_talk` starts from `AfterQuestion`, the session as a first
  push-to-talk turn leaves it when it asked for a confirmation and was heard out;
  two more turns are a first and a second answer to the same question.
- `Failing` names the turn whose awaited calls may throw.
  A failure of the orchestrator itself, or of a cancellation, may meet any turn.
- Two workers are the run that lost its lock and its replacement; five mishaps
  exceed attempts and stalls together. Reminders share nothing but workers.
- A limit of 2 is the opening and one reply, so the second message meets it;
  the second delivery of a message is concurrent or late; two cancellations race.
  `outreach` leaves out the failures between a send and the update that counts it,
  and between the update that ends a mission and its report (`SafeSteps`); with
  them the limit and the report do not hold (section 5).
- Two turns of a conversation are enough for a turn to be read by another and
  by both jobs of a lane; a history of 3 rows is shorter than two exchanges.
- Three sockets of one session are the one that is torn down, the one that
  takes its place and the one its late close event would let in.
- Every other part has two concurrent callers and one failure, or two where a
  retry may fail again: a race and its repair. Where a third actor matters
  (`Connectors`, `FactJobs`) there are three.

Deadlock is checked in the two pending runs only. Elsewhere the system may
really stop: a session ends, identifiers and bounded supplies of requests are
used up, and nothing obliges a user to act.

### Fairness

`WF` is only given to steps the runtime takes by itself: an awaited promise
settles and its continuation runs (`Step`, `Run`, `Advance`, `Pipeline`,
`Upload`, `DeliverReminder`, `Finish`, ...), a pending write lands, a worker takes a waiting job,
BullMQ's stalled-job check recovers the job of a dead worker, the deadline of a
mission passes and the repeated sweep job reaches an idle worker. Users, contacts
and failures are never fair. The services and surfaces are checked for safety only.

## 4. Proofs

TLC checks small instances; the theorems hold for every value of the constants.
Each module of proofs is about the specification of its component, from the
component's own `Init`. A component that the composed runs take as one part has
its own specification (`ReminderSpec`, `SessionSpec`, `MemSpec`, ...): a behaviour of the run
either works on that part or leaves it at its start, so the theorem covers it.

| Theorem | States |
|---|---|
| `PendingActionsProofs!TypeCorrect` | `Spec => []TypeOK` |
| `PendingActionsProofs!ClaimExclusive` | `Spec => [](TypeOK /\ ClaimInv)` |
| `PendingActionsProofs!ExecutedAtMostOnce` | `Spec => []AtMostOneExecution` |
| `PendingActionsProofs!DecisionsAreRespected` | `Spec => []DecisionRespected` |
| `PendingActionsProofs!LifecycleRefined` | `Spec => ImplementsLifecycle` |
| `PendingActionsProofs!RunsAreConfirmed` | `Spec => []ConfirmationRequired` |
| `PendingActionsProofs!LedgersStayInAgreement` | `Spec => []LedgersAgree` |
| `RemindersProofs!TypeCorrect` | `ReminderSpec => []ReminderTypeOK` |
| `RemindersProofs!ClaimExclusive` | `ReminderSpec => []DeliveryInv` |
| `RemindersProofs!NotifiedAtMostOnce` | `ReminderSpec => []AtMostOneNotification` |
| `RemindersProofs!CancellationRespected` | `ReminderSpec => CancelledIsQuiet` |
| `VoiceTurnsProofs!TypeCorrect` | `Spec => []TypeOK` |
| `VoiceTurnsProofs!BargeInSilences` | `Spec => NoAudioAfterBargeIn` |
| `VoiceTurnsProofs!AnswersAreBound` | `Spec => []ConfirmationBound` |
| `VoiceTurnsProofs!OneVoice` | `~PushToTalk`: `Spec => []AtMostOneResponse` |
| `VoiceTurnsProofs!CutOffIsNotCompleted` | `~PushToTalk`: `Spec => []SilencedTurnsSettle` |
| `VoiceTurnsProofs!QuestionsSurvive` | `~PushToTalk`: `Spec => []AskedActionsSurvive` |
| `WhatsAppMissionProofs!TypeCorrect` | `Spec => []TypeOK` |
| `WhatsAppMissionProofs!DuplicatesIgnored` | `Spec => []OneTurnPerMessage` |
| `WhatsAppMissionProofs!ContactNotFlooded` | `SendsAreCounted`: `Spec => []MessagesBounded` |
| `WhatsAppMissionProofs!ReportedByEachOnce` | `Spec => []ReportsAfterTheEnd` |
| `WhatsAppMissionProofs!MissionsStayInOrder` | `Spec => []MissionSafe` |
| `ConversationProofs!ScopesStayApart` | `Spec => []ScopeIsolation` |
| `ConversationProofs!RowsAreUsedOnce` | `Spec => []RowsUsedOnce` |
| `SurfacesProofs!OneLiveSocket` | `ConnSpec => []ConnSafe` |
| `SurfacesProofs!StatusFollowsTable` | `ConnSpec => LegalUntilEnded` |
| `SurfacesProofs!TurnsNeverMoveTheStatus` | a session is only ever `created`, `listening`, `paused` or `ended` |
| `KnowledgeProofs!ReadyMeansSearchable` | `DocSpec => []DocSafe` |
| `KnowledgeProofs!MemoriesStay` | `MemSpec => []MemSafe` |
| `KnowledgeProofs!ProfileStaysTaught` | `FactSpec => []FactSafe` |
| `ServicesProofs!TokensRotateOnce` | `SessionSpec => []SessionSafe` |
| `ServicesProofs!DisconnectForgets` | `GrantSpec => []GrantSafe` |
| `ServicesProofs!MailsAreReadOnce` | `MailSpec => []MailSafe` |
| `ServicesProofs!ProvidersSafe` | `AiSpec => []AiSafe` |
| `ServicesProofs!AgendaSafe` | `CalendarSpec => []CalendarSafe` |
| `ServicesProofs!BooksInStep` | `BookSpec => []BookSafe` |
| `SurfacesProofs!StatusesOnlyAdvance` | `DeliverySpec => []DeliverySafe` |
| `SurfacesProofs!NotesAreOfTheirImages` | `VisionSpec => []VisionSafe` |
| `SurfacesProofs!ToolsStayInLane` | `ToolsSpec => []ToolsSafe` |
| `SurfacesProofs!RoutedRight` | `RouterSpec => []RouterSafe` |
| `SurfacesProofs!RetrievedRight` | `RetrievalSpec => []RetrievalSafe` |

Every safety invariant and every action property of the runs that pass is among
them, under the two hypotheses named below.

### Assumptions

The named `ASSUME` of each module, which TLC evaluates on every run: null values
are not elements of the sets they stand beside, tables have their types,
attempts are positive, bounds are naturals. `MissionConstants` wants finitely
many cancellations, `FactConstants` finitely many jobs and `MailConstants`
finitely many pulls, because `ReportsAfterTheEnd`, `OneFactPerFailure` and
`ReadOnce` rest on counting them; `FactValues` is not empty because a job starts
with some value. `ToolConstants` has the rows and contacts that stand at the
start typed, each row naming a contact that exists and unmarked by any tool, and
the names a user asks for not empty;
`VisionConstants` has each request bring a sequence of images.
`AiConstants`, `CalendarConstants`, `BookConstants` and `RetrievalConstants` have
the rows that stand at the start typed, as the schema has them: one default for
each tier of providers (the index), a lane on every event of Mora's own, memories
nobody has used yet. `AiConstants` lets a patch give columns of their types only;
`BookConstants` keeps the placeholder and the missing name apart from the names and
limits positive; `RetrievalConstants`
wants finitely many rows and questions, because uses are counted, and vectors of
positive size. `RouterConstants` says that no pattern matches a text without words.

Two hypotheses narrow a theorem, and both are where the code needs them:

- `ContactNotFlooded` assumes that the calls between a send and the update
  that counts it (`SendsAreCounted`) do not fail. With them the limit does not
  hold: the run `mission_limit` prints the trace. The run `outreach` has the same
  restriction (`SafeSteps`).
- Three theorems about voice turns assume a client that never sends `audio.end`
  (`~PushToTalk`). With it `AtMostOneResponse` and `AskedActionsSurvive` fail
  (section 5); the three other theorems have no such hypothesis.

### The arguments

**Pending actions.** `AtMostOneExecution` is not inductive: a second request
about to run the tool would break it. `PendingActions!ClaimInv` adds why there is
none: while a request stands between its claim and its last write the row stays
`approved`, only one request stands there for an action, and nobody has run the
tool before it does. The last, unconditional write of `approve` is therefore
harmless. The refinement shows, from the same invariant, that each action is a
move of the abstract status, an abstract execution, or hidden. `PermissionInv`
follows the permission from the checks of `requestExecution` through the row to
the run: a row that exists names a tool that is not N4, and a request about it is
its owner's. `LedgerInv` adds what the `tool_calls` row says while the request
works: the call is recorded before the action is settled, by the one request
that holds the action.

**Reminders.** `DeliveryInv` is `PlacesInv` (a run or call past its first step
names a reminder that was created), `AttemptsInv` (a job that may run again has
attempts left, a reminder not yet queued has no running job) and `ClaimInv` (a
run past its claim is the only one, its row can no longer be claimed, and
nothing was notified yet). The first two are what `ReminderTypeOK` needs to be
preserved by retries; the third gives both safety theorems.

**Voice turns.** `GenerationInv`: no turn is ahead of the session's generation
and a silenced one is behind it, so every later check finds it stale.
`QuestionInv`: a question is asked when the orchestrator answers, and the turn
that takes it off the open set is the only one that decides it. For hands-free
clients `UtteranceInv` says that an utterance is finalized once, hence one turn
of the current generation; `CancelInv` that what an interruption cancels was not
asked about; `InterruptInv` that a turn with a row is the one an interruption
would interrupt, or has been interrupted.

**Missions.** `StartInv` and `ActorInv` give every actor a mission with a row,
and a turn room for a reply. `SendInv` is the induction for the limit: between
turns the count of an active mission covers what was sent, in a turn the value
read at its start does. `HookInv`: of the deliveries of a message one stores it
(the unique key) and only that one queues. `ReportInv`: once a mission has
ended nobody starts to finish it, so the reports given and the actors on their
way to one never outnumber the actors.

**Conversation.** `ScopeIsolation` speaks of one place of a turn; what it rests
on is spread over the rows, the summaries and the other turns. `PartInv`: a turn
works on one part at a time, what it is handed for a part is of the part's
scope, so a turn of one scope knows that scope only, and a direct one nothing;
only the turns of a split know both, and their rows are saved in a scope no
history reads. `KnowledgeInv` carries this to the rows of a lane, to the
summaries made of them and to the one under way. For `SummaryCountsOnce`,
`WorkerInv` says that the worker has counted exactly the visible rows between
the summary it will extend and the row it will be said to cover: rows added
while the model writes come behind that row, and no other job writes meanwhile.
`TrackInv` places the rows of a turn by where it stands, so that an extraction
job comes from a complete exchange that asked for nothing. `MaxProperties` (a
finite set of row numbers has a greatest element) is proved by counting, because
induction over sets is out of the prover's reach.

**Voice connections.** `StatusInv` (nobody asks for the states of a turn, so a
session is only created, listening, paused or ended), `SocketInv` (a socket with a
session serves its owner and is the one the map names, until the session ends or
is torn down) and
`HandlerInv` (what a handler read before an await stays true until it writes).
`TurnsNeverMoveTheStatus` is a consequence worth a look: the transitions the
turns ask for are all refused by the table.

**Documents.** `PieceInv`: a run has written the chunks before the one it is at,
and all of them once it writes a status; nothing removes a chunk. A run that
kept its lock is the worker of the one job its document can have.

**Memories.** A row is superseded by a later one only, so the last row of a
subject is active or archived. `WriterHolds` carries the digits of the row found
from the look-up to the second write, through edits of either row. `EmbedInv`: a
row without the vector of its content is awaited by a job, a writer or an editor
that will queue one, even while an older text of it is being embedded. Proving
this for any number of editors is what showed `VectorsFollowEdits` (section 5)
to fail with two of them; the run has one, which cannot overlap itself.

**Profile facts.** `MarkInv`: nobody supersedes the last row, for a run only marks
a row older than the one it made. `CountInv`: each run in progress but the first
has cost a failure, and a run whose row somebody else superseded leaves one
fact more than it replaces.

**Services.** `SessionInv`: as long as no two requests about one token overlap,
a refresh past its check is alone with its token, which has paid for nothing
yet. `GrantInv`: as long as one connector at a time is under way, a token is
fetched or stored only while the account exists. For mailboxes `StoredInv` says
that the pull that stored a mail is alone with it until it has read it, and
`ReadsInv` counts: the times a mail was read and the pulls that may still read
it are never more than the pulls, so that the reads stay a bounded number even
after a removal let a mail be stored again. `ThreadsInv` counts the same way the
threads with a sender and the pulls that may still open one: once there is a
thread, only those that looked before.

**Deliveries.** `SendInv`: the row of a text is written once, after it left, and
nothing was reported of it before. `HeardInv`: of a text that was not reported
twice at once, the status its row has, or is about to get, is the furthest heard.

**Images.** `AssetInv` and `LookInv`: an asset keeps its image, conversation and
space and says nothing or what its image shows, however often it is described,
marked or failed by several requests; the asset a request has found or stored is
of its own conversation and space; messages carry the name of an answered
request only.

**Tools.** `CallsInv`: what a call compared before an await stays true until it
acts. Records keep their lane; who was blocked when the call began still is,
unless somebody unblocked the contact. Contacts do change, so a call remembers
(for the properties only) which have changed since it began, and `SearchHolds`
says that what it has read of a contact is true of every other one: those listed
bear or belong to the name, those marked exact bear it, those whose address was
found have one, and if the list was whole, everybody the name means is on it. A
pool of one at the end (`PoolIsOne`) then leaves no second steady contact that
fits as well (`OneIsRight`), and `RightParty` is kept until the message leaves.
`NobodyElse` is therefore silent about a contact that changed under the tool, one
that appeared meanwhile, and the names beyond the limit of the list
(`NamesakesAsked`, section 5). `ToolsKeepLane` speaks of records: contacts are one
book that every lane reads.

**Providers.** `RequestInv` keeps the partial index (`OneDefault`) through both
halves of a transaction; as long as no two requests coincide, `Current` says that
the tier and the defaults a request has read are those of the table when it
commits, so the index refuses nothing. `Bound`: a call knows the one row it chose
and has sent to no other. `BestProvider` speaks of the table alone: the six tiers
are walked in order, and the first row of the first tier that has one is above
every other eligible row in the order the comment of the code describes.

**Calendar.** `LaneInv`: what a tool compared stays of its lane until it is
changed, because no edit gives an event another lane or home, and the calendar
named by the second reading of the setting changes only events of its own. For free slots the cursor of the walk is the
furthest end among the blocks before (`LastEnd`), so that a gap between the
cursor and the next start meets no block, nested ones included.

**Address books.** `LinkedOnce` and `InStep` rest on each other. While no two
runs overlap, a link once written is never replaced, and the row a run is about to link has
none (`LinksStay`). `Progress` follows an undisturbed run: each person it no
longer has to do is linked or known, each contact it no longer has to push is
linked or has no name to push; what it copied of the people still ahead is what
Google holds (`AsFound`). A run that stops at the limit of its pages or of its push is
not followed (`clean`). A run that starts after one at whose end the books
agreed finds little to do (`LittleToDo`), so it does not undo what the earlier
one is remembered for. Edits and remote jobs mark every run that has started as
disturbed; deleted contacts lose their identities (`OwnedOnce`).

**Router.** `RouterInv`: the model and the default are reached only by a text on
which every rule is silent, and a decision, once taken, is already what
`RouterSafe` asks of it, whatever the split makes of the text. The rest is a
case distinction over the rules, in their order, for every text of the type `Text`.

**Retrieval.** `AnswerInv`: an answer is empty until it is found, and a
document that passed a filter meets it until the pipeline gives it another type,
which `retyped` remembers for each retrieval that has read the filter; lanes never
change. The uses of a memory are counted by the set of finished retrievals that
handed it out, which grows by one retrieval at a time; that a ranking takes the
best is a lemma about `Top` for every finite set. An exact search of chunks takes
its rows, then the filter, then the first ones: what is left out lies behind a
row of `Top` or behind the cut in the descending order (`FirstAreNearest`).
`UseBringsNothingIn` follows from `NearestKept` said of both answers.

Every one of these invariants was model-checked on the instance of its run
before it was proved.

### Only model-checked

- Liveness (`ApprovedSettles`, `ProposalsSurface`, `EventuallyNotified`,
  `MissionsEnd`, `EndIsReported`, `TurnsEnd`, `UploadsSettle`): under fairness,
  which the prover does not reach.
- `voice_talk` starts from a state after a first question; `AnswersAreBound`
  is the same property from the start of a session.

## 5. Where code and documents disagree

Two disagreements are runs of their own (`reminders_lost`, `mission_limit`) and
findings in `PROJECT.json`. The others are stated in the modules, below "What the
documents say" or "What the code does not keep". Put the definition in place of
the properties of the run named here, with the change of bounds given, and TLC
prints the trace.

### Confirmations, voice, reminders, missions

| Property | Run | Text | What happens |
|---|---|---|---|
| `ExpiredExecutesNothing` | `pending_actions` | `docs/frontend/API_CONTRACT.md:782` "and executes nothing" | two approvals around the deadline: one is answered `expired`, the other runs the tool |
| `AskedActionsSurvive` | `voice_turns`, `PushToTalk` TRUE, `MaxGen` 2 | `voice/voice.gateway.ts:553` | of two `audio.end` in a row the first asks about an action and the second takes it from the open set to answer it; a barge-in then finds it current but not open and cancels it (`:555`) |
| `AtMostOneResponse` | `voice_turns`, `PushToTalk` TRUE, `MaxGen` 2 | `voice/voice-turn-runner.service.ts:43` "guarantees at most one active assistant generation per session" | two `audio.end` in a row run under one generation and both answer |
| `UnheardRepliesMarked` | `voice_turns` | `docs/OPEN_ISSUES.md:15` | the late result of an old turn overwrites `currentAssistantMessageId`; the reply that was cut off is never marked |
| `NothingAdrift` | `voice_turns` | `orchestrator/mora-orchestrator.service.ts:283`, `voice/voice-turn-runner.service.ts:167` | an action stays pending that nobody asks about: the orchestrator throws after it was created, a split turn creates two and returns neither, or the cancellation of a stale turn fails |
| `InterruptionsHeard` | `voice_turns` | `docs/frontend/FRONTEND_HANDOFF.md:651` | `session.interrupt` after the speech began bumps the generation of that recording, which is then dropped as stale |
| `SecondSocketRejected` | `connections` | `docs/frontend/LOVABLE_MASTER_PROMPT.md:195` | an ended session is started again, or one whose `end()` failed and whose socket was unregistered all the same (`voice.gateway.ts:285-286`); the late close of the first socket removes the entry of the second, a third attaches |
| `EndedIsFinal` | `connections` | `voice/voice.types.ts:25` | a transition read before the end is written after it |
| `NoSocketOnEnded` | `connections` | `voice/voice.gateway.ts:130` | `session.start` does not look at the status |
| `DroppedCanReconnect` | `connections` | `docs/frontend/LOVABLE_MASTER_PROMPT.md:197` | a socket that closes while `session.start` waits is registered for good |
| `OneSessionPerSocket` | `connections`, 2 sessions | `docs/frontend/API_CONTRACT.md:930` | a second `session.start` registers the socket twice |
| `DeliveredStaysDelivered` | `outreach` | `docs/frontend/API_CONTRACT.md:767` | a cancellation that read before the claim overwrites `delivered` |
| `ReportedOnce` | `outreach` | `whatsapp/whatsapp-mission.service.ts:189` | a cancel and a turn both pass the check of `finish` |
| `OneMissionPerContact` | `outreach`, 2 missions | `whatsapp/whatsapp-mission.service.ts:60` | two starts look before either is recorded |
| `StoppedIsSilent` | `outreach` | `whatsapp/whatsapp-mission.service.ts:162` | the mission is stopped while its turn waits for the model; the reply still goes out |
| `EndIsReported` | `outreach`, `Faulty <- Steps` | `whatsapp/whatsapp-mission.service.ts:42` "ends with a report" | the notification fails after the update that ends the mission and the retry finds nothing to finish |
| `BookedOnce` | `mission_limit` | `prisma/schema.prisma:1407` | the update behind the booking fails and the retried turn books again |

`EventuallyNotified` names the ways an acknowledged reminder may still end
without a notification: exhausted retries, a wasted claim (`reminders_lost`),
and a `cancel` whose last write fails after it removed the job, which leaves a
scheduled row without a job.

### Conversation and knowledge

| Property | Run | Text | What happens |
|---|---|---|---|
| `LatestMessageSent` | `conversation` | `context/context-builder.service.ts:205` "the latest user message is ALWAYS sent" | not the halves of a split, nor a message a summary covered before the history was read |
| `ActionsReturned` | `conversation` | `docs/frontend/API_CONTRACT.md:171` | both halves of a split propose an action; the reply asks about neither, and both stay pending |
| `ReprocessRuns` | `knowledge` | `docs/frontend/API_CONTRACT.md:804` "re-runs the pipeline" | the queue still knows the job of the first run and ignores the new one |
| `ExtractedOnce` | `knowledge` | `documents/document-intake-pipeline.service.ts:210` | a retried job appends to what the failed attempt left |
| `StoredOnce` | `knowledge`, `MaxDocuments` 2 | `documents/document.service.ts:58` | two uploads at once both find nothing |
| `KnownIsQueued` | `knowledge` | `documents/document.service.ts:58` | the upload that created the row failed before it queued the job; the next one returns the row as it is |
| `ArchivedStays` | `knowledge` | - | a run that began before overwrites the status an archive request wrote |
| `VectorsFollowEdits` | `knowledge`, 2 `Editors` | `memory/memory.service.ts:89` "is now stale" | of two edits that overlap, one that sends the text it had read is written last: the old text is back and its embedding is not queued |
| `OneActiveMemory` | `knowledge` | `memory/memory-extraction.service.ts:243` | two writers look before either creates, or one throws between its two writes |
| `DetailKeptThroughEdits` | `knowledge` | `memory/memory-extraction.service.ts:243` | an edit between the look and the supersession is lost |
| `ArchivedForGood` | `knowledge` | - | a memory the user archived becomes superseded |
| `OneFactPerKey` | `knowledge` | `memory/profile-facts.service.ts:86` | overlapping runs, or a run that fails between its two writes, leave two |
| `ConfidenceGrows` | `knowledge` | `memory/profile-facts.service.ts:121` "nudge confidence up" | a maximum computed from an old read is written over a higher one |

### Services

| Property | Run | Text | What happens |
|---|---|---|---|
| `NeverThrows` | `services` | `llm/llm.service.ts:40` | a key stored under another encryption key throws outside the `try` |
| `StatusTellsTruth` | `services` | `ai-providers/ai-provider.service.ts:246` | the status asks without a scope, so a scoped provider does not count |
| `SingleUse` | `services` | `docs/ARCHITECTURE.md:59` | two refreshes read the token before either revokes it |
| `NoTokenAfterDisconnect` | `services` | `google/google-oauth.service.ts:159` | a call that read the account before the disconnect caches its token after it |
| `NamesKept` | `services`, a person named by a number and a named one with the same identity | `google/google-contacts-sync.service.ts:122` | the user renames the contact between the look and the write |
| `DeletedStaysAway` | `services` | - | an import meets the person before the remote job deletes it |
| `NobodyTwice` | `services` | `google/google-contacts-sync.processor.ts:16` | an import fails between the contact and its resource name, and the next push creates the person again |
| `InStepAlways` | `services` | `google/google-contacts-sync.processor.ts:13` "in step" | a person beyond the last page is never imported, and contacts without a name fill the places of a push |
| `EveryBoxServed` | `services` | `email/email-sync.processor.ts:9` | a mail sent to two boxes is stored for the first only, its id being unique over all |
| `OneContactEach` | `services` | `contacts/contact.service.ts:90` "the actual reconciliation mechanism" | two pulls meet a new sender, both create a contact, and the one whose `addIdentity` is refused keeps no address |
| `OneThreadEach` | `services` | `email/email-message.service.ts:164` (its name) | two pulls find no thread with a sender and both create one |
| `StoredIsRead` | `services` | `email/email-sync.processor.ts:11` | a failure between the row and the extraction leaves a mail nobody reads |

### Surfaces

| Property | Run | Text | What happens |
|---|---|---|---|
| `SpaceOfItsRoute` | `surfaces` | `router/mora-router.service.ts:357` | only a personal decision is corrected: a professional one may be filed under `personal` |
| `WordsAreFound` | `surfaces`, `Limit` 4 | - | a memory with the question's words is not found when another one has a vector, or when its words carry accents |
| `FilteredFirst` | `surfaces`, `Limit` 1, `Chunks` of six, five of them nearer and of a document outside the filter | `documents/document-retrieval.service.ts:32` "FIRST" | the vector search takes its rows before the filter |
| `FilterHolds` | `surfaces` | - | the pipeline gives a candidate another type, and it is ready again before the search reads its chunks |
| `FilterIsWhole` | `surfaces` | - | a filter admits its first 500 documents, in no order (1 in the run) |
| `SendsAreApproved` | `surfaces` | `whatsapp/whatsapp-message.service.ts:126` | the tools that reach `sendAndPersist` are N1 (`tools/impl/whatsapp-send-message.tool.ts:27`) |
| `BlockedGetsNothing` | `surfaces` | - | files are sent without looking at the contact |
| `DraftsKeepLane` | `surfaces` | - | the draft tools read rows of any lane |
| `NamesakesAsked` | `surfaces` | `tools/impl/whatsapp-contact-resolver.ts:13` "never guesses" | the list ends at 2000 contacts (`contacts/contact.service.ts:48`; 2 in the run): a namesake beyond it is not asked about |
| `CreatedInLane` | `surfaces` | `tools/impl/create-contact.tool.ts:36` "dans le scope/space de la conversation en cours" | every contact is stored as personal (`contacts/contact.service.ts:27`) |
| `ListedCanBeChanged` | `surfaces`, 2 agents | - | an event made in Google itself has no lane: it is listed and every change is refused |
| `SlotsEndInWorkday` | `surfaces` | - | only the start of a slot is compared with working hours |
| `OneAssetPerImage` | `surfaces` | - | two requests with one image both find no asset |
| `DescribedStays` | `surfaces` | - | the failure of a second request is written over the description of the first |
| `ReadIsKept` | `surfaces` | `whatsapp/whatsapp-status.util.ts:27` "only move forward" | two reports handled at once: the earlier status is written last |
| `FailedMeansUnsent` | `surfaces` | - | an account removed while a text leaves makes the call fail although the contact has it |
| `OneConversation` | `surfaces` | - | two first messages open two conversations with one contact |

A dash stands where no document promises the property; it is what the code
around it would be expected to keep.

## 6. Not modelled, and the plan

Out of scope: provider I/O (Evolution API, Gmail, IMAP and SMTP, Google HTTP,
STT, TTS, LLM HTTP), signal processing, text extraction and the document
chunker, the query over document tables, the parsing of what the model extracts,
prompt texts and the wording of replies, configuration and its validation,
health checks, the command line, the MCP endpoint and server (which call the
executor or the REST routes), plain one-write routes (users, API keys, bug
reports), read-only listings, and the avatar events, which nothing reads back.
Audit rows are written and never read by the code.

Modelled in part, with the reason beside each component in `PROJECT.json`:
LLM and embedding calls are one step that answers or throws; skills and
notifications appear where other parts use them.

Planned: the chunker against a reference definition, and the table query.
