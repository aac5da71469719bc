------------------------------ MODULE VoiceTurns ------------------------------
(***************************************************************************)
(* One connected voice session: the turns that overlap in it.              *)
(*   src/voice/voice.gateway.ts              handleAudioFrame, finalizeTurn,*)
(*                                           interrupt, stopActiveGeneration*)
(*   src/voice/voice-turn-runner.service.ts  run, speak                    *)
(*   src/voice/voice-runtime.registry.ts     the in-memory session state   *)
(*   src/voice/voice-turn.service.ts         the voice_turns rows          *)
(* A turn is one call of finalizeTurn; its message and the pending action  *)
(* it may propose are named after it. Steps run from one await to the      *)
(* next, so the synchronous code between two awaits is one action; the     *)
(* write a call waits for is part of the step that resumes it (no step in  *)
(* between reads what it writes, and no write in between ends otherwise).  *)
(* Calls made with "void" are writes that land later, in any order; one    *)
(* that fails never lands.                                                 *)
(* Generations are numbered; the code draws fresh UUIDs.                   *)
(***************************************************************************)
EXTENDS Naturals, FiniteSets

CONSTANTS Turns, NoTurn,
          PushToTalk,     \* whether the client ever sends audio.end
          MaxGen,         \* bound on the generations minted
          MaxUnderWay,    \* bound on the turns in progress at once
          Failing         \* the turns whose awaited calls may throw

ASSUME VoiceConstants ==
    /\ NoTurn \notin Turns /\ Failing \subseteq Turns /\ PushToTalk \in BOOLEAN
    /\ MaxGen \in Nat \ {0} /\ MaxUnderWay \in Nat \ {0}

VARIABLES
    state,      \* the VoiceRuntimeState of the session
    flow,       \* flow[t]: the finalizeTurn/run call of turn t
    turnRow,    \* turnRow[t]: status of its voice_turns row
    message,    \* message[t]: its assistant message
    action,     \* action[t]: status of the pending action it proposed
    writes,     \* un-awaited writes that have not reached the database
    connected,  \* the socket is open and the registry holds the session
    spoken,     \* turns whose audio was sent to the client
    asked,      \* turns whose action.pending_confirmation was sent
    silenced    \* turns that were under way when the user cut in

vars == <<state, flow, turnRow, message, action, writes, connected, spoken, asked, silenced>>
rows == <<turnRow, message, action>>

Pcs == {"free", "stt", "thinking", "starting", "drop", "approve", "reject", "decided",
        "orchestrating", "cancelStale", "markStale", "interruptStale", "tts", "profile",
        "synthesis", "completing", "failing", "done"}
Turn0 == Turns \union {NoTurn}
Gens == 0..MaxGen                       \* 0 is the absent sttGenerationId

TypeOK ==
    /\ state \in [generation : 1..MaxGen, stt : BOOLEAN, sttGeneration : Gens,
                  speaking : BOOLEAN, silence : BOOLEAN, speech : Gens,
                  turn : Turn0, msg : Turn0, pending : Turn0, tts : Turn0,
                  open : SUBSET Turns, aborted : SUBSET Turns]
    /\ flow \in [Turns -> [pc : Pcs, gen : Gens, target : Turn0, lost : BOOLEAN, adrift : BOOLEAN]]
    /\ turnRow \in [Turns -> {"none", "in_progress", "completed", "interrupted", "failed"}]
    /\ message \in [Turns -> {"none", "saved", "interrupted"}]
    /\ action \in [Turns -> {"none", "pending", "approved", "rejected", "cancelled"}]
    /\ writes \subseteq {"interrupt", "mark", "cancel"} \X Turns
    /\ connected \in BOOLEAN
    /\ spoken \subseteq Turns /\ asked \subseteq Turns /\ silenced \subseteq Turns

(* VoiceRuntimeRegistry.create. The field speech is not in the code: it    *)
(* remembers the generation of the last speech_started. silence stands for *)
(* speechEndedAtMs with its 350 ms timer running. flow[t].lost remembers an *)
(* utterance dropped for nothing, flow[t].adrift a pending action that the *)
(* call which created it has let go of.                                    *)
Init ==
    /\ state = [generation |-> 1, stt |-> FALSE, sttGeneration |-> 0, speaking |-> FALSE,
                silence |-> FALSE, speech |-> 0, turn |-> NoTurn, msg |-> NoTurn,
                pending |-> NoTurn, tts |-> NoTurn, open |-> {}, aborted |-> {}]
    /\ flow = [t \in Turns |-> [pc |-> "free", gen |-> 0, target |-> NoTurn,
                            lost |-> FALSE, adrift |-> FALSE]]
    /\ turnRow = [t \in Turns |-> "none"]
    /\ message = [t \in Turns |-> "none"]
    /\ action = [t \in Turns |-> "none"]
    /\ writes = {}
    /\ connected = TRUE
    /\ spoken = {} /\ asked = {} /\ silenced = {}

-------------------------------------------------------------------------------
Stale(t) == flow[t].gen # state.generation

(* isCurrentInputGeneration also fails once the registry dropped the session. *)
CurrentInput(t) == connected /\ ~Stale(t)

(* An utterance dropped although the user has not spoken again since. *)
Unheard(t) == connected /\ flow[t].gen = state.speech

Goto(t, p) == flow' = [flow EXCEPT ![t].pc = p]

(* The tail of finalizeTurn: forget the turn unless a newer one replaced it. *)
EndFlow(t, s) ==
    /\ Goto(t, "done")
    /\ state' = [s EXCEPT !.turn = IF @ = t THEN NoTurn ELSE @]

UnderWay == {t \in Turns : flow[t].pc \notin {"free", "done"}}

(* stopActiveGeneration, as a function of the runtime state s. *)
Stopped(s) ==
    [s EXCEPT !.aborted = IF s.tts = NoTurn THEN @ ELSE @ \union {s.tts},
              !.tts = NoTurn, !.turn = NoTurn, !.msg = NoTurn, !.pending = NoTurn]

(* Mutant: every proposed action is cancelled, the ones asked about too. *)
StopWritesCancelAll(s) ==
    {<<"interrupt", t>> : t \in {s.turn} \ {NoTurn}}
        \union {<<"mark", t>> : t \in {s.msg} \ {NoTurn}}
        \union {<<"cancel", t>> : t \in {s.pending} \ {NoTurn}}

(* The un-awaited writes of stopActiveGeneration. *)
StopWrites(s) ==
    {<<"interrupt", t>> : t \in {s.turn} \ {NoTurn}}
        \union {<<"mark", t>> : t \in {s.msg} \ {NoTurn}}
        \union {<<"cancel", t>> : t \in ({s.pending} \ {NoTurn}) \ s.open}

-------------------------------------------------------------------------------
(* The client and the audio frames *)

(* createStt resolves after a frame found no STT session. *)
SttReady ==
    /\ connected /\ ~state.stt
    /\ state' = [state EXCEPT !.stt = TRUE,
                              !.sttGeneration = IF @ = 0 THEN state.generation ELSE @]
    /\ UNCHANGED <<flow, rows, writes, connected, spoken, asked, silenced>>

(* Mutant: speech_started keeps the generation. *)
SpeechStartedSameGeneration ==
    /\ connected /\ ~state.speaking
    /\ state' = [state EXCEPT !.sttGeneration = state.generation, !.speaking = TRUE,
                              !.silence = FALSE, !.speech = state.generation]
    /\ UNCHANGED <<flow, rows, writes, connected, spoken, asked, silenced>>

(* speech_started: a new generation, and a barge-in if anything is active. *)
SpeechStarted ==
    /\ connected /\ ~state.speaking /\ state.generation < MaxGen
    /\ LET g == state.generation + 1
           s == [state EXCEPT !.generation = g, !.sttGeneration = g, !.speaking = TRUE,
                              !.silence = FALSE, !.speech = g]
           active == state.tts # NoTurn \/ state.turn # NoTurn
       IN  /\ state' = IF active THEN Stopped(s) ELSE s
           /\ writes' = IF active THEN writes \union StopWrites(s) ELSE writes
    /\ silenced' = silenced \union UnderWay
    /\ UNCHANGED <<flow, rows, connected, spoken, asked>>

SpeechEnded ==
    /\ connected /\ state.speaking
    /\ state' = [state EXCEPT !.speaking = FALSE, !.silence = TRUE]
    /\ UNCHANGED <<flow, rows, writes, connected, spoken, asked, silenced>>

(* The synchronous head of finalizeTurn. The id is new; any free one would do. *)
Finalize(t, s) ==
    /\ flow[t].pc = "free" /\ t = (CHOOSE u \in Turns : flow[u].pc = "free")
    /\ Cardinality(UnderWay) < MaxUnderWay
    /\ flow' = [flow EXCEPT ![t].pc = "stt", ![t].gen = s.sttGeneration]
    /\ state' = [s EXCEPT !.stt = FALSE, !.sttGeneration = 0]

(* The timer behind speech_ended fires and speech has not started again. *)
ConfirmSilence ==
    /\ connected /\ state.silence
    /\ LET s == [state EXCEPT !.silence = FALSE]
       IN  \/ ~state.stt /\ state' = s /\ UNCHANGED flow
           \/ state.stt /\ \E t \in Turns : Finalize(t, s)
    /\ UNCHANGED <<rows, writes, connected, spoken, asked, silenced>>

AudioEnd ==
    /\ PushToTalk /\ connected /\ state.stt
    /\ \E t \in Turns : Finalize(t, state)
    /\ UNCHANGED <<rows, writes, connected, spoken, asked, silenced>>

(* session.interrupt *)
Interrupt ==
    /\ connected /\ state.generation < MaxGen
    /\ state' = [Stopped(state) EXCEPT !.generation = @ + 1]
    /\ writes' = writes \union StopWrites(state)
    /\ silenced' = silenced \union UnderWay
    /\ UNCHANGED <<flow, rows, connected, spoken, asked>>

(* The close handler: VoiceRuntimeRegistry.destroy. The calls in flight    *)
(* keep their reference to the state object.                               *)
Disconnect ==
    /\ connected /\ connected' = FALSE
    /\ state' = [state EXCEPT !.aborted = IF state.tts = NoTurn THEN @ ELSE @ \union {state.tts}]
    /\ UNCHANGED <<flow, rows, writes, spoken, asked, silenced>>

(* closeSessionSocket: the session was ended over the socket or by REST. *)
CloseSession ==
    /\ connected /\ connected' = FALSE
    /\ state' = Stopped(state)
    /\ writes' = writes \union StopWrites(state)
    /\ UNCHANGED <<flow, rows, spoken, asked, silenced>>

(* The same action decided through the REST routes. *)
DecideByRest ==
    /\ \E t \in Turns, d \in {"approved", "rejected"} :
        action[t] = "pending" /\ action' = [action EXCEPT ![t] = d]
    /\ UNCHANGED <<state, flow, turnRow, message, writes, connected, spoken, asked, silenced>>

-------------------------------------------------------------------------------
(* finalizeTurn *)

(* sttSession.finalize() returns: stale, empty, or a transcript. *)
Transcribed(t) ==
    /\ flow[t].pc = "stt"
    /\ \/ /\ ~CurrentInput(t)
          /\ flow' = [flow EXCEPT ![t].pc = "done", ![t].lost = Unheard(t)]
       \/ CurrentInput(t) /\ \E p \in {"done", "thinking"} : Goto(t, p)
    /\ UNCHANGED <<state, rows, writes, connected, spoken, asked, silenced>>

(* Behind the transition to thinking: the concurrency guard, then start(). *)
StartTurn(t) ==
    /\ flow[t].pc = "thinking"
    /\ \/ /\ ~CurrentInput(t)
          /\ flow' = [flow EXCEPT ![t].pc = "done", ![t].lost = Unheard(t)]
          /\ UNCHANGED <<state, writes>>
       \/ /\ CurrentInput(t)
          /\ Goto(t, "starting")
          /\ state' = Stopped(state)
          /\ writes' = writes \union StopWrites(state)
    /\ UNCHANGED <<rows, connected, spoken, asked, silenced>>

(* Mutant: a confirmed action stays in openPendingActionIds. *)
TurnStartedKeepsOpen(t) ==
    /\ flow[t].pc = "starting" /\ CurrentInput(t)
    /\ turnRow' = [turnRow EXCEPT ![t] = "in_progress"]
    /\ \/ Goto(t, "orchestrating")
       \/ \E a \in state.open : flow' = [flow EXCEPT ![t].pc = "approve", ![t].target = a]
    /\ state' = [state EXCEPT !.turn = t]
    /\ UNCHANGED <<message, action, writes, connected, spoken, asked, silenced>>

(* The turn row exists; run() goes synchronously to its first await: a     *)
(* spoken yes or no is bound to the one open pending action, two open ones *)
(* ask for clarification, anything else goes to the orchestrator.          *)
TurnStarted(t) ==
    /\ flow[t].pc = "starting"
    /\ turnRow' = [turnRow EXCEPT ![t] = "in_progress"]
    /\ LET s == [state EXCEPT !.turn = t]
       IN  \/ ~CurrentInput(t) /\ Goto(t, "drop") /\ UNCHANGED state
           \/ CurrentInput(t) /\ Goto(t, "orchestrating") /\ state' = s
           \/ /\ CurrentInput(t) /\ Cardinality(state.open) > 1
              /\ Goto(t, "completing") /\ state' = s
           \/ /\ CurrentInput(t)
              /\ \E a \in Turns, p \in {"approve", "reject"} :
                    /\ state.open = {a}
                    /\ flow' = [flow EXCEPT ![t].pc = p, ![t].target = a]
              /\ state' = [s EXCEPT !.open = {}]
    /\ UNCHANGED <<message, action, writes, connected, spoken, asked, silenced>>

DropTurn(t) ==
    /\ flow[t].pc = "drop"
    /\ turnRow' = [turnRow EXCEPT ![t] = "interrupted"]
    /\ Goto(t, "done")
    /\ UNCHANGED <<state, message, action, writes, connected, spoken, asked, silenced>>

-------------------------------------------------------------------------------
(* VoiceTurnRunnerService.run *)

(* approve() and reject() of PendingActions at their interface: the        *)
(* conditional update on a pending row.                                    *)
DecideAction(t) ==
    /\ flow[t].pc \in {"approve", "reject"}
    /\ LET a == flow[t].target
           d == IF flow[t].pc = "approve" THEN "approved" ELSE "rejected"
       IN  action' = [action EXCEPT ![a] = IF @ = "pending" THEN d ELSE @]
    /\ Goto(t, "decided")
    /\ UNCHANGED <<state, turnRow, message, writes, connected, spoken, asked, silenced>>

Decided(t) ==
    /\ flow[t].pc = "decided"
    /\ Goto(t, IF Stale(t) THEN "completing" ELSE "tts")
    /\ UNCHANGED <<state, rows, writes, connected, spoken, asked, silenced>>

(* What the orchestrator leaves behind: it saves its message and creates a *)
(* pending action along the way.                                           *)
Result(t, saved, created) ==
    /\ message' = IF saved THEN [message EXCEPT ![t] = "saved"] ELSE message
    /\ action' = IF created THEN [action EXCEPT ![t] = "pending"] ELSE action

(* handleMessage throws, before or after its writes: an action that exists *)
(* by then is not heard of again.                                          *)
OrchestratorFailed(t) ==
    /\ flow[t].pc = "orchestrating"
    /\ \E saved, created \in BOOLEAN :
        /\ Result(t, saved, created)
        /\ flow' = [flow EXCEPT ![t].pc = "failing", ![t].adrift = created]
    /\ UNCHANGED <<state, turnRow, writes, connected, spoken, asked, silenced>>

(* The result is stored before staleness is looked at. It names the action *)
(* that was created, unless a split turn created one in each half.         *)
OrchestratorReturned(t) ==
    /\ flow[t].pc = "orchestrating"
    /\ \E created, named \in BOOLEAN :
        LET s == [state EXCEPT !.msg = t, !.pending = IF named THEN t ELSE NoTurn]
            ask == named /\ ~Stale(t)
            next == IF ~Stale(t) THEN "tts" ELSE IF named THEN "cancelStale" ELSE "markStale"
        IN  /\ named => created
            /\ Result(t, TRUE, created)
            /\ state' = [s EXCEPT !.open = IF ask THEN @ \union {t} ELSE @]
            /\ asked' = IF ask /\ connected THEN asked \union {t} ELSE asked
            /\ flow' = [flow EXCEPT ![t].pc = next, ![t].adrift = created /\ ~named]
    /\ UNCHANGED <<turnRow, writes, connected, spoken, silenced>>

CancelPending(a) == action' = [action EXCEPT ![a] = IF @ = "pending" THEN "cancelled" ELSE @]

(* Mutant: the action a stale run proposed is left open. *)
CancelStaleSkipped(t) ==
    /\ flow[t].pc = "cancelStale"
    /\ Goto(t, "markStale")
    /\ UNCHANGED <<state, rows, writes, connected, spoken, asked, silenced>>

CancelStale(t) ==
    /\ flow[t].pc = "cancelStale"
    /\ CancelPending(t)
    /\ Goto(t, "markStale")
    /\ UNCHANGED <<state, turnRow, message, writes, connected, spoken, asked, silenced>>

(* Then the two fields are cleared, whoever they belong to by now. *)
MarkStale(t) ==
    /\ flow[t].pc = "markStale"
    /\ message' = [message EXCEPT ![t] = "interrupted"]
    /\ state' = [state EXCEPT !.msg = NoTurn, !.pending = NoTurn]
    /\ Goto(t, "interruptStale")
    /\ UNCHANGED <<turnRow, action, writes, connected, spoken, asked, silenced>>

InterruptStale(t) ==
    /\ flow[t].pc = "interruptStale"
    /\ turnRow' = [turnRow EXCEPT ![t] = "interrupted"]
    /\ EndFlow(t, state)
    /\ UNCHANGED <<message, action, writes, connected, spoken, asked, silenced>>

(* Mutant: complete() without its condition on the status. *)
CompleteTurnUnguarded(t) ==
    /\ flow[t].pc = "completing"
    /\ turnRow' = [turnRow EXCEPT ![t] = "completed"]
    /\ EndFlow(t, state)
    /\ UNCHANGED <<message, action, writes, connected, spoken, asked, silenced>>

(* VoiceTurnService.complete writes only a row still in progress. A normal *)
(* turn then clears the two fields, whoever they belong to by now.         *)
CompleteTurn(t) ==
    /\ flow[t].pc = "completing"
    /\ turnRow' = [turnRow EXCEPT ![t] = IF @ = "in_progress" THEN "completed" ELSE @]
    /\ EndFlow(t, IF message[t] = "none" THEN state
                  ELSE [state EXCEPT !.msg = NoTurn, !.pending = NoTurn])
    /\ UNCHANGED <<message, action, writes, connected, spoken, asked, silenced>>

FailTurn(t) ==
    /\ flow[t].pc = "failing"
    /\ turnRow' = [turnRow EXCEPT ![t] = "failed"]
    /\ EndFlow(t, state)
    /\ UNCHANGED <<message, action, writes, connected, spoken, asked, silenced>>

-------------------------------------------------------------------------------
(* VoiceTurnRunnerService.speak *)

LookupTts(t) ==
    /\ flow[t].pc = "tts"
    /\ \/ Goto(t, "completing")                     \* no provider, or stale
       \/ ~Stale(t) /\ Goto(t, "profile")
    /\ UNCHANGED <<state, rows, writes, connected, spoken, asked, silenced>>

(* A new AbortController replaces the one in the runtime state. *)
StartSpeaking(t) ==
    /\ flow[t].pc = "profile"
    /\ \/ Stale(t) /\ Goto(t, "completing") /\ UNCHANGED state
       \/ ~Stale(t) /\ Goto(t, "synthesis") /\ state' = [state EXCEPT !.tts = t]
    /\ UNCHANGED <<rows, writes, connected, spoken, asked, silenced>>

(* Mutant: the audio is sent whatever happened during the synthesis. *)
SynthesizedUnchecked(t) ==
    /\ flow[t].pc = "synthesis"
    /\ spoken' = IF connected THEN spoken \union {t} ELSE spoken
    /\ Goto(t, "completing")
    /\ UNCHANGED <<state, rows, writes, connected, asked, silenced>>

(* The audio is complete, or the provider failed. *)
Synthesized(t) ==
    /\ flow[t].pc = "synthesis"
    /\ \/ UNCHANGED spoken
       \/ /\ t \notin state.aborted /\ ~Stale(t)
          /\ spoken' = IF connected THEN spoken \union {t} ELSE spoken
    /\ state' = [state EXCEPT !.tts = IF @ = t THEN NoTurn ELSE @]
    /\ Goto(t, "completing")
    /\ UNCHANGED <<rows, writes, connected, asked, silenced>>

-------------------------------------------------------------------------------
(* A call that run or finalizeTurn awaits throws. Nothing above catches it: *)
(* the rest of the turn, the tail of finalizeTurn included, does not run.  *)
(* Node by default ends the process at that, which is Disconnect and the   *)
(* same end for every call under way, wherever it is.                      *)
Thrown(t) ==
    /\ t \in UnderWay \intersect Failing
    /\ flow' = [flow EXCEPT ![t].pc = "done", ![t].adrift = @ \/ flow[t].pc = "cancelStale"]
    /\ UNCHANGED <<state, rows, writes, connected, spoken, asked, silenced>>

(* An un-awaited write reaches the database. *)
Land(w) ==
    /\ w \in writes /\ writes' = writes \ {w}
    /\ \/ /\ w[1] = "interrupt"
          /\ turnRow' = [turnRow EXCEPT ![w[2]] = "interrupted"]
          /\ UNCHANGED <<message, action>>
       \/ /\ w[1] = "mark"
          /\ message' = [message EXCEPT ![w[2]] = "interrupted"]
          /\ UNCHANGED <<turnRow, action>>
       \/ /\ w[1] = "cancel"
          /\ CancelPending(w[2])
          /\ UNCHANGED <<turnRow, message>>
    /\ UNCHANGED <<state, flow, connected, spoken, asked, silenced>>

(* A cancellation that fails leaves the action as it is. *)
CancelLost(w) ==
    /\ w \in writes /\ w[1] = "cancel" /\ writes' = writes \ {w}
    /\ flow' = [flow EXCEPT ![w[2]].adrift = TRUE]
    /\ UNCHANGED <<state, rows, connected, spoken, asked, silenced>>

Run(t) ==
    \/ Transcribed(t) \/ StartTurn(t) \/ TurnStarted(t) \/ DropTurn(t)
    \/ DecideAction(t) \/ Decided(t) \/ OrchestratorFailed(t) \/ OrchestratorReturned(t)
    \/ CancelStale(t) \/ MarkStale(t) \/ InterruptStale(t) \/ CompleteTurn(t) \/ FailTurn(t)
    \/ LookupTts(t) \/ StartSpeaking(t) \/ Synthesized(t) \/ Thrown(t)

Client ==
    \/ SttReady \/ SpeechStarted \/ SpeechEnded \/ ConfirmSilence \/ AudioEnd
    \/ Interrupt \/ Disconnect \/ CloseSession \/ DecideByRest

Next == Client \/ (\E t \in Turns : Run(t)) \/ (\E w \in writes : Land(w) \/ CancelLost(w))

Spec == Init /\ [][Next]_vars

(* Promises settle and writes land; nothing obliges the user to act. *)
FairSpec == Spec /\ (\A t \in Turns : WF_vars(Run(t))) /\ WF_vars(\E w \in writes : Land(w) \/ CancelLost(w))

-------------------------------------------------------------------------------
(* Properties *)

(* Once the user has cut in, by voice or with session.interrupt, no turn   *)
(* that was under way ever sends audio again, however late the             *)
(* orchestrator or the TTS provider answers.                               *)
NoAudioAfterBargeIn == [][(spoken' \ spoken) \intersect silenced = {}]_vars

(* A turn that the user cut off is never shown as completed once its call  *)
(* is over and its writes have landed.                                     *)
SilencedTurnsSettle ==
    \A t \in silenced :
        flow[t].pc = "done" /\ <<"interrupt", t>> \notin writes => turnRow[t] # "completed"

(* The turns that are current between their orchestrator call and audio.   *)
Responding == {t \in Turns : ~Stale(t) /\ flow[t].pc \in {"orchestrating", "tts", "profile", "synthesis"}}

(* Two turns that may both still speak would be heard over each other.     *)
AtMostOneResponse == Cardinality(Responding) <= 1

(* Talking over the spoken question only stops the audio: an action the    *)
(* client was asked about is never cancelled by an interruption.           *)
AskedActionsSurvive == \A t \in asked : action[t] # "cancelled"

(* A spoken yes or no decides one action, one the client was asked about,  *)
(* and no action is decided by the voice of two turns.                     *)
ConfirmationBound ==
    /\ \A t \in Turns : flow[t].target \in asked \union {NoTurn}
    /\ \A s, t \in Turns : flow[s].target = flow[t].target /\ flow[t].target # NoTurn => s = t

(* A proposed action does not linger unseen, however late the orchestrator *)
(* answers and whoever has cut in by then: it is put to the user,          *)
(* cancelled or decided elsewhere, unless the connection is lost or the    *)
(* call let go of it (the orchestrator failed after it was created, a      *)
(* split turn created two, its cancellation failed).                       *)
ProposalsSurface ==
    \A t \in Turns : action[t] = "pending" ~>
        (t \in asked \/ action[t] # "pending" \/ ~connected \/ flow[t].adrift)

-------------------------------------------------------------------------------
(* Why they hold.                                                          *)

Begun(t) == flow[t].pc # "free"

(* The orchestrator of these turns has answered, or is not asked any more. *)
Answered == {t \in Turns : flow[t].pc \in {"cancelStale", "markStale", "interruptStale", "tts", "profile",
                                           "synthesis", "completing", "failing", "done"}}

(* The turns with a row, until finalizeTurn returns.                       *)
Started == {t \in Turns : flow[t].pc \in {"approve", "reject", "decided", "orchestrating", "cancelStale",
                                          "markStale", "interruptStale", "tts", "profile", "synthesis",
                                          "completing", "failing"}}

(* No turn is ahead of the session, and a silenced one is behind it.       *)
GenerationInv ==
    /\ state.sttGeneration <= state.generation
    /\ \A t \in Turns : flow[t].gen <= state.generation
    /\ \A t \in silenced : Begun(t) /\ Stale(t)

(* A question is asked when the orchestrator answers, and a spoken yes or  *)
(* no takes it off the open ones.                                          *)
QuestionInv ==
    /\ asked \subseteq Answered /\ state.open \subseteq Answered
    /\ connected => state.open \subseteq asked
    /\ \A t \in Turns : flow[t].target # NoTurn => flow[t].target \in asked \ state.open
    /\ \A s, t \in Turns : flow[s].target = flow[t].target /\ flow[t].target # NoTurn => s = t

(* Of a client that never sends audio.end: an utterance is finalized once, *)
(* so no two turns are of the current generation, and nobody replaces a    *)
(* current turn that is about to start.                                    *)
UtteranceInv ==
    /\ ~(state.speaking /\ state.silence)
    /\ state.speaking \/ state.silence => \A t \in Turns : ~Begun(t) \/ Stale(t)
    /\ \A s, t \in Turns : Begun(s) /\ Begun(t) /\ ~Stale(s) /\ ~Stale(t) => s = t
    /\ \A t \in Turns : flow[t].pc = "starting" /\ ~Stale(t)
                        => state.turn = NoTurn /\ state.pending \notin state.open

(* What an interruption cancels was not asked about.                       *)
CancelInv ==
    /\ state.pending \in Answered \union {NoTurn}
    /\ state.pending \in asked => state.pending \in state.open
    /\ \A t \in Turns : <<"cancel", t>> \in writes => t \in Answered \ asked
    /\ \A t \in Turns : flow[t].pc = "cancelStale" => t \notin asked

(* A turn that has a row is the one an interruption would interrupt, or    *)
(* has been interrupted; once it is silenced only the latter.              *)
Cut(t) == <<"interrupt", t>> \in writes \/ turnRow[t] = "interrupted"
InterruptInv ==
    /\ \A t \in Started : state.turn = t \/ Cut(t)
    /\ \A t \in Turns : turnRow[t] = "completed" => flow[t].pc = "done"
    /\ \A t \in silenced :
        /\ state.turn # t
        /\ t \in Started => Cut(t)
        /\ t \notin Started => Cut(t) \/ turnRow[t] # "completed"

TurnInv == GenerationInv /\ QuestionInv
HandsFreeInv == UtteranceInv /\ CancelInv /\ AskedActionsSurvive /\ InterruptInv

-------------------------------------------------------------------------------
(* What the documents say and the code does not keep: no run checks these; *)
(* README.md tells how each of them fails.                                 *)

(* A reply cut off before it was heard is marked interrupted, so that it   *)
(* is left out of the history rebuilt for the next turn.                   *)
UnheardRepliesMarked ==
    \A t \in silenced \ spoken :
        flow[t].pc = "done" /\ message[t] # "none" /\ <<"mark", t>> \notin writes =>
            message[t] = "interrupted"

(* What the user says while interrupting is answered: an utterance is      *)
(* dropped as stale only when the user has started to speak again.         *)
InterruptionsHeard == \A t \in Turns : ~flow[t].lost

(* The user hears of every action that waits for a decision.               *)
NothingAdrift == \A t \in Turns : flow[t].adrift => action[t] # "pending"
===============================================================================
