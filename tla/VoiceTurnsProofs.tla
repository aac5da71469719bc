---------------------------- MODULE VoiceTurnsProofs ----------------------------
(***************************************************************************)
(* Proofs about VoiceTurns, for any turns, clients and bounds. What only a *)
(* client that never sends audio.end can rely on says so.                  *)
(***************************************************************************)
EXTENDS VoiceTurns, FiniteSetTheorems, TLAPS

States == [generation : 1..MaxGen, stt : BOOLEAN, sttGeneration : Gens,
           speaking : BOOLEAN, silence : BOOLEAN, speech : Gens,
           turn : Turn0, msg : Turn0, pending : Turn0, tts : Turn0,
           open : SUBSET Turns, aborted : SUBSET Turns]
Flows == [pc : Pcs, gen : Gens, target : Turn0, lost : BOOLEAN, adrift : BOOLEAN]
TurnRows == {"none", "in_progress", "completed", "interrupted", "failed"}
Messages == {"none", "saved", "interrupted"}
Decisions == {"none", "pending", "approved", "rejected", "cancelled"}
Late == {"interrupt", "mark", "cancel"} \X Turns

LEMMA TypeFacts ==
    ASSUME TypeOK
    PROVE  /\ state \in States /\ flow \in [Turns -> Flows] /\ turnRow \in [Turns -> TurnRows]
           /\ message \in [Turns -> Messages] /\ action \in [Turns -> Decisions]
           /\ writes \subseteq Late /\ connected \in BOOLEAN
           /\ spoken \subseteq Turns /\ asked \subseteq Turns /\ silenced \subseteq Turns
           /\ NoTurn \notin Turns /\ MaxGen \in Nat \ {0}
BY VoiceConstants DEF TypeOK, States, Flows, TurnRows, Messages, Decisions, Late

LEMMA TypeKept ==
    ASSUME state' \in States, flow' \in [Turns -> Flows], turnRow' \in [Turns -> TurnRows],
           message' \in [Turns -> Messages], action' \in [Turns -> Decisions],
           writes' \subseteq Late, connected' \in BOOLEAN,
           spoken' \subseteq Turns, asked' \subseteq Turns, silenced' \subseteq Turns
    PROVE  TypeOK'
BY DEF TypeOK, States, Flows, TurnRows, Messages, Decisions, Late

(* What stopActiveGeneration leaves of the session, and what it writes.    *)
LEMMA StoppedIs ==
    ASSUME NEW s \in States
    PROVE  /\ Stopped(s) \in States
           /\ Stopped(s).turn = NoTurn /\ Stopped(s).pending = NoTurn /\ Stopped(s).open = s.open
           /\ Stopped(s).generation = s.generation /\ Stopped(s).sttGeneration = s.sttGeneration
           /\ Stopped(s).speaking = s.speaking /\ Stopped(s).silence = s.silence
<1> DEFINE gone == IF s.tts = NoTurn THEN s.aborted ELSE s.aborted \union {s.tts}
<1>1. gone \in SUBSET Turns
    BY DEF States, Turn0
<1>2. Stopped(s) = [s EXCEPT !.aborted = gone, !.tts = NoTurn, !.turn = NoTurn, !.msg = NoTurn, !.pending = NoTurn]
    BY DEF Stopped
<1> HIDE DEF gone
<1> QED
    BY <1>1, <1>2 DEF States, Turn0

LEMMA StopWritesAre ==
    ASSUME NEW s \in States
    PROVE  /\ StopWrites(s) \subseteq Late
           /\ \A t \in Turns : /\ s.turn = t => <<"interrupt", t>> \in StopWrites(s)
                               /\ <<"cancel", t>> \in StopWrites(s) => s.pending = t /\ t \notin s.open
<1>1. /\ s.turn \in Turns \union {NoTurn} /\ s.msg \in Turns \union {NoTurn}
      /\ s.pending \in Turns \union {NoTurn}
    BY DEF States, Turn0
<1> QED
    BY <1>1, VoiceConstants DEF StopWrites, Late

-------------------------------------------------------------------------------
(* The steps of a call *)

(* What the steps of turn t have in common.                                *)
Effects(t) ==
    /\ state' \in States /\ flow' \in [Turns -> Flows] /\ turnRow' \in [Turns -> TurnRows]
    /\ message' \in [Turns -> Messages] /\ action' \in [Turns -> Decisions]
    /\ spoken' \subseteq Turns /\ connected' = connected /\ silenced' = silenced
    /\ \A u \in Turns \ {t} : flow'[u] = flow[u] /\ turnRow'[u] = turnRow[u]
    /\ flow[t].pc \notin {"free", "done"} /\ flow'[t].pc # "free" /\ flow'[t].gen = flow[t].gen
    /\ t \in Answered => t \in Answered'
    /\ state'.generation = state.generation /\ state'.sttGeneration = state.sttGeneration
    /\ state'.speaking = state.speaking /\ state'.silence = state.silence
    (* the questions *)
    /\ \/ state'.open = state.open /\ asked' = asked /\ flow'[t].target = flow[t].target
       \/ /\ flow[t].pc = "orchestrating" /\ ~Stale(t) /\ t \in Answered'
          /\ state'.open = state.open \union {t} /\ state'.pending = t
          /\ asked' = IF connected THEN asked \union {t} ELSE asked
          /\ flow'[t].target = flow[t].target /\ action'[t] = "pending"
       \/ /\ flow[t].pc = "starting" /\ CurrentInput(t)
          /\ state.open = {flow'[t].target} /\ flow'[t].target \in Turns
          /\ state'.open = {} /\ asked' = asked /\ state'.pending = state.pending
    /\ \/ state'.pending \in {state.pending, NoTurn}
       \/ state'.pending = t /\ flow[t].pc = "orchestrating" /\ t \in Answered'
    (* the row *)
    /\ \/ state'.turn = state.turn /\ writes' = writes
       \/ state'.turn = NoTurn /\ writes' = writes /\ state.turn = t /\ t \notin Started'
       \/ state'.turn = NoTurn /\ writes' = writes \union StopWrites(state)
       \/ state'.turn = t /\ writes' = writes /\ flow[t].pc = "starting" /\ CurrentInput(t)
    /\ flow'[t].pc = "starting" => state'.turn = NoTurn /\ state'.pending = NoTurn
    /\ t \in Started' => t \in Started \/ (state'.turn = t /\ ~Stale(t))
    /\ t \in Started /\ t \in Started' => turnRow'[t] = turnRow[t]
    /\ turnRow'[t] = "completed" =>
          \/ turnRow[t] = "completed"
          \/ turnRow[t] = "in_progress" /\ t \in Started /\ flow'[t].pc = "done"
    /\ turnRow[t] = "interrupted" => turnRow'[t] # "completed"
    (* what is cancelled, and what is heard *)
    /\ \A u \in Turns : action'[u] = "cancelled" => action[u] = "cancelled" \/ (u = t /\ flow[t].pc = "cancelStale")
    /\ flow'[t].pc = "cancelStale" => flow[t].pc = "orchestrating" /\ asked' = asked
    /\ spoken' = spoken \/ (spoken' = spoken \union {t} /\ ~Stale(t))

LEMMA Goes ==
    ASSUME TypeOK, NEW t \in Turns, NEW p \in Pcs, Goto(t, p)
    PROVE  /\ flow' \in [Turns -> Flows] /\ \A u \in Turns \ {t} : flow'[u] = flow[u]
           /\ flow'[t].pc = p /\ flow'[t].gen = flow[t].gen /\ flow'[t].target = flow[t].target
<1> DEFINE f == [flow[t] EXCEPT !.pc = p]
<1>1. flow' = [flow EXCEPT ![t] = f] /\ flow \in [Turns -> Flows]
    BY TypeFacts DEF Goto
<1>2. f \in Flows /\ f.pc = p /\ f.gen = flow[t].gen /\ f.target = flow[t].target
    BY <1>1 DEF Flows
<1> HIDE DEF f
<1> QED
    BY <1>1, <1>2

LEMMA GoesAdrift ==
    ASSUME TypeOK, NEW t \in Turns, NEW p \in Pcs, NEW b \in BOOLEAN,
           flow' = [flow EXCEPT ![t].pc = p, ![t].adrift = b]
    PROVE  /\ flow' \in [Turns -> Flows] /\ \A u \in Turns \ {t} : flow'[u] = flow[u]
           /\ flow'[t].pc = p /\ flow'[t].gen = flow[t].gen /\ flow'[t].target = flow[t].target
<1> DEFINE f == [flow[t] EXCEPT !.pc = p, !.adrift = b]
<1>1. flow' = [flow EXCEPT ![t] = f] /\ flow \in [Turns -> Flows]
    BY TypeFacts
<1>2. f \in Flows /\ f.pc = p /\ f.gen = flow[t].gen /\ f.target = flow[t].target
    BY <1>1 DEF Flows
<1> HIDE DEF f
<1> QED
    BY <1>1, <1>2

(* The steps that change nothing but the call and, maybe, messages and     *)
(* actions.                                                                *)
LEMMA QuietEffects ==
    ASSUME TypeOK, NEW t \in Turns, NEW p \in Pcs,
           flow' \in [Turns -> Flows], \A u \in Turns \ {t} : flow'[u] = flow[u],
           flow'[t].pc = p, flow'[t].gen = flow[t].gen, flow'[t].target = flow[t].target,
           flow[t].pc \notin {"free", "done"}, p \notin {"free", "starting", "cancelStale"},
           flow[t].pc \in {"stt", "thinking", "starting", "drop"} => p \in {"thinking", "drop", "done"},
           t \in Answered => t \in Answered',
           action' \in [Turns -> Decisions], message' \in [Turns -> Messages],
           \A u \in Turns : action'[u] = "cancelled" => action[u] = "cancelled" \/ (u = t /\ flow[t].pc = "cancelStale"),
           UNCHANGED <<state, turnRow, writes, connected, spoken, asked, silenced>>
    PROVE  Effects(t)
<1>1. /\ state \in States /\ flow[t].pc \in Pcs /\ turnRow \in [Turns -> TurnRows] /\ spoken \subseteq Turns
      /\ state.pending \in {state.pending, NoTurn}
    BY TypeFacts DEF Flows
<1>2. t \in Started' => t \in Started
    BY <1>1 DEF Started, Pcs
<1> QED
    BY <1>1, <1>2 DEF Effects

(* finalizeTurn, up to its first row.                                      *)
LEMMA BeginEffects ==
    ASSUME TypeOK, NEW t \in Turns, Transcribed(t) \/ StartTurn(t) \/ TurnStarted(t) \/ DropTurn(t)
    PROVE  Effects(t)
<1>0. /\ state \in States /\ flow \in [Turns -> Flows] /\ turnRow \in [Turns -> TurnRows]
      /\ message \in [Turns -> Messages] /\ action \in [Turns -> Decisions] /\ spoken \subseteq Turns
      /\ NoTurn \notin Turns
    BY TypeFacts
<1>1. ASSUME flow' = [flow EXCEPT ![t].pc = "done", ![t].lost = Unheard(t)]
      PROVE  /\ flow' \in [Turns -> Flows] /\ \A u \in Turns \ {t} : flow'[u] = flow[u]
             /\ flow'[t].pc = "done" /\ flow'[t].gen = flow[t].gen /\ flow'[t].target = flow[t].target
  <2> DEFINE lost == Unheard(t)
             f == [flow[t] EXCEPT !.pc = "done", !.lost = lost]
  <2>1. lost \in BOOLEAN
    BY DEF Unheard
  <2>2. flow' = [flow EXCEPT ![t] = f]
    BY <1>1
  <2> HIDE DEF lost
  <2>3. f \in Flows /\ f.pc = "done" /\ f.gen = flow[t].gen /\ f.target = flow[t].target
    BY <1>0, <2>1, ZenonT(60) DEF Flows, Pcs
  <2> HIDE DEF f
  <2> QED
    BY <1>0, <2>2, <2>3
<1>2. CASE Transcribed(t)
  <2>1. PICK p \in {"done", "thinking"} :
            /\ flow' \in [Turns -> Flows] /\ \A u \in Turns \ {t} : flow'[u] = flow[u]
            /\ flow'[t].pc = p /\ flow'[t].gen = flow[t].gen /\ flow'[t].target = flow[t].target
    BY <1>1, <1>2, Goes DEF Transcribed, Pcs
  <2>2. /\ flow[t].pc = "stt"
        /\ UNCHANGED <<state, turnRow, message, action, writes, connected, spoken, asked, silenced>>
    BY <1>2 DEF Transcribed, rows
  <2>3. p \in Pcs /\ t \notin Answered
    BY <2>2 DEF Pcs, Answered
  <2> QED
    BY <1>0, <2>1, <2>2, <2>3, QuietEffects
<1>3. CASE StartTurn(t)
  <2>1. /\ flow[t].pc = "thinking" /\ t \notin Answered
        /\ UNCHANGED <<turnRow, message, action, connected, spoken, asked, silenced>>
    BY <1>3 DEF StartTurn, rows, Answered
  <2>2. CASE flow' = [flow EXCEPT ![t].pc = "done", ![t].lost = Unheard(t)] /\ UNCHANGED <<state, writes>>
    BY <1>0, <1>1, <2>1, <2>2, QuietEffects DEF Pcs
  <2>3. CASE Goto(t, "starting") /\ state' = Stopped(state) /\ writes' = writes \union StopWrites(state)
    <3>1. /\ flow' \in [Turns -> Flows] /\ \A u \in Turns \ {t} : flow'[u] = flow[u]
          /\ flow'[t].pc = "starting" /\ flow'[t].gen = flow[t].gen /\ flow'[t].target = flow[t].target
        BY <2>3, Goes DEF Pcs
    <3>2. t \notin Started'
        BY <3>1 DEF Started
    <3> QED
        BY <1>0, <2>1, <2>3, <3>1, <3>2, StoppedIs DEF Effects
  <2> QED
    BY <1>3, <2>2, <2>3 DEF StartTurn
<1>4. CASE TurnStarted(t)
  <2>1. /\ flow[t].pc = "starting" /\ t \notin Answered
        /\ turnRow' = [turnRow EXCEPT ![t] = "in_progress"]
        /\ UNCHANGED <<message, action, writes, connected, spoken, asked, silenced>>
    BY <1>4 DEF TurnStarted, Answered
  <2>2. turnRow' \in [Turns -> TurnRows] /\ turnRow'[t] = "in_progress" /\ \A u \in Turns \ {t} : turnRow'[u] = turnRow[u]
    BY <1>0, <2>1 DEF TurnRows
  <2>3. t \notin Started
    BY <2>1 DEF Started
  <2>4. CASE Goto(t, "drop") /\ UNCHANGED state
    <3>1. /\ flow' \in [Turns -> Flows] /\ \A u \in Turns \ {t} : flow'[u] = flow[u]
          /\ flow'[t].pc = "drop" /\ flow'[t].gen = flow[t].gen /\ flow'[t].target = flow[t].target
        BY <2>4, Goes DEF Pcs
    <3>2. t \notin Started'
        BY <3>1 DEF Started
    <3> QED
        BY <1>0, <2>1, <2>2, <2>3, <2>4, <3>1, <3>2 DEF Effects
  <2>5. ASSUME NEW p \in {"orchestrating", "completing"}, CurrentInput(t), Goto(t, p),
               state' = [state EXCEPT !.turn = t]
        PROVE  Effects(t)
    <3>1. /\ flow' \in [Turns -> Flows] /\ \A u \in Turns \ {t} : flow'[u] = flow[u]
          /\ flow'[t].pc = p /\ flow'[t].gen = flow[t].gen /\ flow'[t].target = flow[t].target
        BY <2>5, Goes DEF Pcs
    <3>2. /\ state' \in States /\ state'.turn = t /\ state'.pending = state.pending /\ state'.open = state.open
          /\ state'.generation = state.generation /\ state'.sttGeneration = state.sttGeneration
          /\ state'.speaking = state.speaking /\ state'.silence = state.silence
        BY <1>0, <2>5 DEF States, Turn0
    <3>3. ~Stale(t)
        BY <2>5 DEF CurrentInput
    <3> QED
        BY <1>0, <2>1, <2>2, <2>3, <2>5, <3>1, <3>2, <3>3 DEF Effects
  <2>6. ASSUME NEW a \in Turns, NEW p \in {"approve", "reject"}, CurrentInput(t), state.open = {a},
               flow' = [flow EXCEPT ![t].pc = p, ![t].target = a],
               state' = [[state EXCEPT !.turn = t] EXCEPT !.open = {}]
        PROVE  Effects(t)
    <3> DEFINE f == [[flow[t] EXCEPT !.pc = p] EXCEPT !.target = a]
    <3>0. p \in Pcs /\ a \in Turn0 /\ flow[t] \in Flows
        BY <1>0 DEF Pcs, Turn0
    <3>1. flow' = [flow EXCEPT ![t] = f]
        BY <1>0, <2>6, <3>0 DEF Flows
    <3>5. f \in Flows /\ f.pc = p /\ f.gen = flow[t].gen /\ f.target = a
        BY <3>0 DEF Flows
    <3> HIDE DEF f
    <3>2. /\ flow' \in [Turns -> Flows] /\ \A u \in Turns \ {t} : flow'[u] = flow[u]
          /\ flow'[t].pc = p /\ flow'[t].gen = flow[t].gen /\ flow'[t].target = a
        BY <1>0, <3>1, <3>5
    <3>3. /\ state' \in States /\ state'.turn = t /\ state'.pending = state.pending /\ state'.open = {}
          /\ state'.generation = state.generation /\ state'.sttGeneration = state.sttGeneration
          /\ state'.speaking = state.speaking /\ state'.silence = state.silence
        BY <1>0, <2>6 DEF States, Turn0
    <3>4. ~Stale(t)
        BY <2>6 DEF CurrentInput
    <3> QED
        BY <1>0, <2>1, <2>2, <2>3, <2>6, <3>2, <3>3, <3>4 DEF Effects
  <2> QED
    BY <1>4, <2>4, <2>5, <2>6 DEF TurnStarted
<1>5. CASE DropTurn(t)
  <2>1. /\ flow[t].pc = "drop" /\ t \notin Answered /\ t \notin Started
        /\ turnRow' = [turnRow EXCEPT ![t] = "interrupted"] /\ Goto(t, "done")
        /\ UNCHANGED <<state, message, action, writes, connected, spoken, asked, silenced>>
    BY <1>5 DEF DropTurn, Answered, Started
  <2>2. turnRow' \in [Turns -> TurnRows] /\ turnRow'[t] = "interrupted" /\ \A u \in Turns \ {t} : turnRow'[u] = turnRow[u]
    BY <1>0, <2>1 DEF TurnRows
  <2>3. /\ flow' \in [Turns -> Flows] /\ \A u \in Turns \ {t} : flow'[u] = flow[u]
        /\ flow'[t].pc = "done" /\ flow'[t].gen = flow[t].gen /\ flow'[t].target = flow[t].target
    BY <2>1, Goes DEF Pcs
  <2>4. t \notin Started'
    BY <2>3 DEF Started
  <2> QED
    BY <1>0, <2>1, <2>2, <2>3, <2>4 DEF Effects
<1> QED
    BY <1>2, <1>3, <1>4, <1>5

(* VoiceTurnRunnerService.run, and the end of finalizeTurn.                *)
LEMMA RunnerEffects ==
    ASSUME TypeOK, NEW t \in Turns,
           \/ DecideAction(t) \/ Decided(t) \/ OrchestratorFailed(t) \/ OrchestratorReturned(t)
           \/ CancelStale(t) \/ MarkStale(t) \/ InterruptStale(t) \/ CompleteTurn(t) \/ FailTurn(t)
    PROVE  Effects(t)
<1>0. /\ state \in States /\ flow \in [Turns -> Flows] /\ turnRow \in [Turns -> TurnRows]
      /\ message \in [Turns -> Messages] /\ action \in [Turns -> Decisions] /\ spoken \subseteq Turns
      /\ NoTurn \notin Turns
    BY TypeFacts
<1>1. ASSUME NEW a \in Turn0, NEW d \in {"approved", "rejected", "cancelled"},
             action' = [action EXCEPT ![a] = IF @ = "pending" THEN d ELSE @]
      PROVE  /\ action' \in [Turns -> Decisions]
             /\ \A u \in Turns : action'[u] = action[u] \/ (u = a /\ action'[u] = d)
    BY <1>0, <1>1 DEF Decisions, Turn0
<1>2. CASE DecideAction(t)
  <2>1. /\ flow[t].pc \in {"approve", "reject"} /\ t \notin Answered /\ Goto(t, "decided")
        /\ UNCHANGED <<state, turnRow, message, writes, connected, spoken, asked, silenced>>
    BY <1>2 DEF DecideAction, Answered
  <2>2. /\ action' \in [Turns -> Decisions]
        /\ \A u \in Turns : action'[u] = "cancelled" => action[u] = "cancelled"
    <3> DEFINE d == IF flow[t].pc = "approve" THEN "approved" ELSE "rejected"
    <3>1. d \in {"approved", "rejected"} /\ flow[t].target \in Turn0
        BY <1>0 DEF Flows
    <3>2. action' = [action EXCEPT ![flow[t].target] = IF @ = "pending" THEN d ELSE @]
        BY <1>2 DEF DecideAction
    <3> HIDE DEF d
    <3> QED
        BY <1>1, <3>1, <3>2
  <2>3. "decided" \in Pcs
    BY DEF Pcs
  <2> QED
    BY <1>0, <2>1, <2>2, <2>3, Goes, QuietEffects
<1>3. CASE Decided(t)
  <2>1. PICK p \in {"completing", "tts"} : Goto(t, p)
    BY <1>3 DEF Decided
  <2>2. p \in Pcs /\ flow[t].pc = "decided" /\ t \notin Answered
        /\ UNCHANGED <<state, turnRow, message, action, writes, connected, spoken, asked, silenced>>
    BY <1>3 DEF Decided, Pcs, Answered, rows
  <2> QED
    BY <1>0, <2>1, <2>2, Goes, QuietEffects
<1>4. CASE OrchestratorFailed(t)
  <2>1. PICK saved \in BOOLEAN, created \in BOOLEAN :
            /\ Result(t, saved, created)
            /\ flow' = [flow EXCEPT ![t].pc = "failing", ![t].adrift = created]
    BY <1>4 DEF OrchestratorFailed
  <2>2. /\ "failing" \in Pcs /\ flow[t].pc = "orchestrating" /\ t \notin Answered
        /\ UNCHANGED <<state, turnRow, writes, connected, spoken, asked, silenced>>
    BY <1>4 DEF OrchestratorFailed, Pcs, Answered
  <2>3. /\ flow' \in [Turns -> Flows] /\ \A u \in Turns \ {t} : flow'[u] = flow[u]
        /\ flow'[t].pc = "failing" /\ flow'[t].gen = flow[t].gen /\ flow'[t].target = flow[t].target
    BY <2>1, <2>2, GoesAdrift
  <2>4. /\ message' \in [Turns -> Messages] /\ action' \in [Turns -> Decisions]
        /\ \A u \in Turns : action'[u] = "cancelled" => action[u] = "cancelled"
    BY <1>0, <2>1 DEF Result, Messages, Decisions
  <2>5. t \in Answered'
    BY <2>3 DEF Answered
  <2> QED
    BY <2>2, <2>3, <2>4, <2>5, QuietEffects
<1>5. CASE OrchestratorReturned(t)
  <2>1. PICK created \in BOOLEAN, named \in BOOLEAN :
            /\ named => created
            /\ Result(t, TRUE, created)
            /\ state' = [[state EXCEPT !.msg = t, !.pending = IF named THEN t ELSE NoTurn]
                            EXCEPT !.open = IF named /\ ~Stale(t) THEN @ \union {t} ELSE @]
            /\ asked' = IF named /\ ~Stale(t) /\ connected THEN asked \union {t} ELSE asked
            /\ flow' = [flow EXCEPT ![t].pc = IF ~Stale(t) THEN "tts" ELSE IF named THEN "cancelStale" ELSE "markStale",
                                    ![t].adrift = created /\ ~named]
    BY <1>5 DEF OrchestratorReturned
  <2>2. /\ flow[t].pc = "orchestrating" /\ t \notin Answered /\ t \in Started
        /\ UNCHANGED <<turnRow, writes, connected, spoken, silenced>>
    BY <1>5 DEF OrchestratorReturned, Answered, Started
  <2> DEFINE p == IF ~Stale(t) THEN "tts" ELSE IF named THEN "cancelStale" ELSE "markStale"
             pending == IF named THEN t ELSE NoTurn
             open == IF named /\ ~Stale(t) THEN state.open \union {t} ELSE state.open
  <2>3. p \in Pcs /\ p \in {"tts", "cancelStale", "markStale"} /\ (p = "cancelStale" => Stale(t))
    BY DEF Pcs
  <2>4. /\ flow' \in [Turns -> Flows] /\ \A u \in Turns \ {t} : flow'[u] = flow[u]
        /\ flow'[t].pc = p /\ flow'[t].gen = flow[t].gen /\ flow'[t].target = flow[t].target
    <3>1. flow' = [flow EXCEPT ![t].pc = p, ![t].adrift = created /\ ~named] /\ (created /\ ~named) \in BOOLEAN
        BY <2>1
    <3> HIDE DEF p
    <3> QED
        BY <2>3, <3>1, GoesAdrift
  <2>5. t \in Answered' /\ t \in Started'
    BY <2>3, <2>4 DEF Answered, Started
  <2>6. /\ state' \in States /\ state'.turn = state.turn /\ state'.pending = pending /\ state'.open = open
        /\ state'.generation = state.generation /\ state'.sttGeneration = state.sttGeneration
        /\ state'.speaking = state.speaking /\ state'.silence = state.silence
    <3>1. pending \in Turn0 /\ open \in SUBSET Turns /\ t \in Turn0
        BY <1>0 DEF Turn0, States
    <3>2. state' = [[state EXCEPT !.msg = t, !.pending = pending] EXCEPT !.open = open]
        BY <1>0, <2>1 DEF States
    <3> HIDE DEF pending, open
    <3> QED
        BY <1>0, <3>1, <3>2 DEF States
  <2>7. /\ message' \in [Turns -> Messages] /\ action' \in [Turns -> Decisions]
        /\ \A u \in Turns : action'[u] = "cancelled" => action[u] = "cancelled"
        /\ named => action'[t] = "pending"
    BY <1>0, <2>1 DEF Result, Messages, Decisions
  <2> HIDE DEF p
  <2> QED
    BY <1>0, <2>1, <2>2, <2>3, <2>4, <2>5, <2>6, <2>7 DEF Effects
<1>6. CASE CancelStale(t)
  <2>1. /\ flow[t].pc = "cancelStale" /\ Goto(t, "markStale") /\ "markStale" \in Pcs
        /\ UNCHANGED <<state, turnRow, message, writes, connected, spoken, asked, silenced>>
    BY <1>6 DEF CancelStale, Pcs
  <2>2. /\ action' \in [Turns -> Decisions]
        /\ \A u \in Turns : action'[u] = "cancelled" => action[u] = "cancelled" \/ u = t
    BY <1>1, <1>6, ZenonT(60) DEF CancelStale, CancelPending, Turn0
  <2>3. /\ flow' \in [Turns -> Flows] /\ \A u \in Turns \ {t} : flow'[u] = flow[u]
        /\ flow'[t].pc = "markStale" /\ flow'[t].gen = flow[t].gen /\ flow'[t].target = flow[t].target
    BY <2>1, Goes
  <2>4. t \in Answered'
    BY <2>3 DEF Answered
  <2> QED
    BY <1>0, <2>1, <2>2, <2>3, <2>4, QuietEffects
<1>7. CASE MarkStale(t)
  <2>1. /\ flow[t].pc = "markStale" /\ Goto(t, "interruptStale") /\ "interruptStale" \in Pcs
        /\ message' = [message EXCEPT ![t] = "interrupted"]
        /\ state' = [state EXCEPT !.msg = NoTurn, !.pending = NoTurn]
        /\ UNCHANGED <<turnRow, action, writes, connected, spoken, asked, silenced>>
    BY <1>7 DEF MarkStale, Pcs
  <2>2. /\ flow' \in [Turns -> Flows] /\ \A u \in Turns \ {t} : flow'[u] = flow[u]
        /\ flow'[t].pc = "interruptStale" /\ flow'[t].gen = flow[t].gen /\ flow'[t].target = flow[t].target
    BY <2>1, Goes
  <2>3. t \in Answered' /\ t \in Started
    BY <2>1, <2>2 DEF Answered, Started
  <2>4. /\ state' \in States /\ state'.turn = state.turn /\ state'.pending = NoTurn /\ state'.open = state.open
        /\ state'.generation = state.generation /\ state'.sttGeneration = state.sttGeneration
        /\ state'.speaking = state.speaking /\ state'.silence = state.silence
    BY <1>0, <2>1 DEF States, Turn0
  <2>5. message' \in [Turns -> Messages]
    BY <1>0, <2>1 DEF Messages
  <2> QED
    BY <1>0, <2>1, <2>2, <2>3, <2>4, <2>5 DEF Effects
<1>8. ASSUME NEW s \in States, EndFlow(t, s),
             s.generation = state.generation, s.sttGeneration = state.sttGeneration,
             s.speaking = state.speaking, s.silence = state.silence, s.open = state.open,
             s.turn = state.turn, s.pending \in {state.pending, NoTurn},
             flow[t].pc \in {"interruptStale", "completing", "failing"},
             NEW row \in TurnRows, turnRow' = [turnRow EXCEPT ![t] = row],
             row = "completed" => turnRow[t] \in {"completed", "in_progress"},
             UNCHANGED <<message, action, writes, connected, spoken, asked, silenced>>
      PROVE  Effects(t)
  <2>1. /\ flow' \in [Turns -> Flows] /\ \A u \in Turns \ {t} : flow'[u] = flow[u]
        /\ flow'[t].pc = "done" /\ flow'[t].gen = flow[t].gen /\ flow'[t].target = flow[t].target
    <3>1. "done" \in Pcs
        BY DEF Pcs
    <3> QED
        BY <1>8, <3>1, Goes DEF EndFlow
  <2>2. t \in Answered' /\ t \notin Started' /\ t \in Started
    BY <1>8, <2>1 DEF Answered, Started
  <2>3. /\ state' \in States /\ (state'.turn = s.turn \/ (state'.turn = NoTurn /\ s.turn = t))
        /\ state'.pending = s.pending /\ state'.open = s.open
        /\ state'.generation = s.generation /\ state'.sttGeneration = s.sttGeneration
        /\ state'.speaking = s.speaking /\ state'.silence = s.silence
    <3> DEFINE turn == IF s.turn = t THEN NoTurn ELSE s.turn
    <3>1. turn \in Turn0 /\ (turn = s.turn \/ (turn = NoTurn /\ s.turn = t))
        BY DEF States, Turn0
    <3>2. state' = [s EXCEPT !.turn = turn]
        BY <1>8 DEF EndFlow
    <3> HIDE DEF turn
    <3> QED
        BY <3>1, <3>2 DEF States
  <2>4. turnRow' \in [Turns -> TurnRows] /\ turnRow'[t] = row /\ \A u \in Turns \ {t} : turnRow'[u] = turnRow[u]
    BY <1>0, <1>8
  <2> QED
    BY <1>0, <1>8, <2>1, <2>2, <2>3, <2>4 DEF Effects
<1>9. CASE InterruptStale(t)
  <2>1. "interrupted" \in TurnRows
    BY DEF TurnRows
  <2> QED
    BY <1>0, <1>8, <1>9, <2>1 DEF InterruptStale
<1>10. CASE CompleteTurn(t)
  <2> DEFINE row == IF turnRow[t] = "in_progress" THEN "completed" ELSE turnRow[t]
             s == IF message[t] = "none" THEN state ELSE [state EXCEPT !.msg = NoTurn, !.pending = NoTurn]
  <2>1. row \in TurnRows /\ (row = "completed" => turnRow[t] \in {"completed", "in_progress"})
    BY <1>0 DEF TurnRows
  <2>2. /\ s \in States /\ s.generation = state.generation /\ s.sttGeneration = state.sttGeneration
        /\ s.speaking = state.speaking /\ s.silence = state.silence /\ s.open = state.open
        /\ s.turn = state.turn /\ s.pending \in {state.pending, NoTurn}
    BY <1>0 DEF States, Turn0
  <2>3. /\ flow[t].pc = "completing" /\ turnRow' = [turnRow EXCEPT ![t] = row] /\ EndFlow(t, s)
        /\ UNCHANGED <<message, action, writes, connected, spoken, asked, silenced>>
    BY <1>10 DEF CompleteTurn
  <2> HIDE DEF row, s
  <2> QED
    BY <1>8, <2>1, <2>2, <2>3
<1>11. CASE FailTurn(t)
  <2>1. "failed" \in TurnRows
    BY DEF TurnRows
  <2> QED
    BY <1>0, <1>8, <1>11, <2>1 DEF FailTurn
<1> QED
    BY <1>2, <1>3, <1>4, <1>5, <1>6, <1>7, <1>9, <1>10, <1>11

(* VoiceTurnRunnerService.speak.                                           *)
LEMMA SpeakEffects ==
    ASSUME TypeOK, NEW t \in Turns, LookupTts(t) \/ StartSpeaking(t) \/ Synthesized(t)
    PROVE  Effects(t)
<1>0. /\ state \in States /\ flow \in [Turns -> Flows] /\ turnRow \in [Turns -> TurnRows]
      /\ message \in [Turns -> Messages] /\ action \in [Turns -> Decisions] /\ spoken \subseteq Turns
      /\ NoTurn \notin Turns
    BY TypeFacts
<1>1. PICK p \in {"completing", "profile", "synthesis"} : Goto(t, p)
    BY DEF LookupTts, StartSpeaking, Synthesized
<1>2. /\ flow' \in [Turns -> Flows] /\ \A u \in Turns \ {t} : flow'[u] = flow[u]
      /\ flow'[t].pc = p /\ flow'[t].gen = flow[t].gen /\ flow'[t].target = flow[t].target
  <2>1. p \in Pcs
    BY DEF Pcs
  <2> QED
    BY <1>1, <2>1, Goes
<1>3. /\ flow[t].pc \in {"tts", "profile", "synthesis"} /\ t \in Answered' /\ t \in Started /\ t \in Started'
      /\ UNCHANGED <<turnRow, message, action, writes, connected, asked, silenced>>
    BY <1>2 DEF LookupTts, StartSpeaking, Synthesized, rows, Answered, Started
<1>4. /\ spoken' \subseteq Turns
      /\ spoken' = spoken \/ (spoken' = spoken \union {t} /\ ~Stale(t))
    BY <1>0 DEF LookupTts, StartSpeaking, Synthesized
<1>5. \E tts \in Turn0 : state' = state \/ state' = [state EXCEPT !.tts = tts]
    BY <1>0 DEF LookupTts, StartSpeaking, Synthesized, Turn0, States
<1>6. /\ state' \in States /\ state'.turn = state.turn /\ state'.pending = state.pending
      /\ state'.open = state.open
      /\ state'.generation = state.generation /\ state'.sttGeneration = state.sttGeneration
      /\ state'.speaking = state.speaking /\ state'.silence = state.silence
    BY <1>0, <1>5 DEF States
<1> QED
    BY <1>0, <1>2, <1>3, <1>4, <1>6 DEF Effects

(* A call of the turn throws: the call is over, and nothing else changes.  *)
LEMMA ThrownEffects ==
    ASSUME TypeOK, NEW t \in Turns, Thrown(t)
    PROVE  Effects(t)
<1> DEFINE b == flow[t].adrift \/ flow[t].pc = "cancelStale"
<1>1. /\ flow[t].pc \notin {"free", "done"} /\ flow' = [flow EXCEPT ![t].pc = "done", ![t].adrift = b]
      /\ UNCHANGED <<state, turnRow, message, action, writes, connected, spoken, asked, silenced>>
    BY DEF Thrown, UnderWay, rows
<1>2. b \in BOOLEAN /\ "done" \in Pcs
    BY TypeFacts DEF Flows, Pcs
<1> HIDE DEF b
<1>3. /\ flow' \in [Turns -> Flows] /\ \A u \in Turns \ {t} : flow'[u] = flow[u]
      /\ flow'[t].pc = "done" /\ flow'[t].gen = flow[t].gen /\ flow'[t].target = flow[t].target
    BY <1>1, <1>2, GoesAdrift
<1>4. t \in Answered'
    BY <1>3 DEF Answered
<1> QED
    BY <1>1, <1>2, <1>3, <1>4, TypeFacts, QuietEffects

LEMMA RunEffects ==
    ASSUME TypeOK, NEW t \in Turns, Run(t)
    PROVE  Effects(t)
BY BeginEffects, RunnerEffects, SpeakEffects, ThrownEffects DEF Run

LEMMA RunKeepsType ==
    ASSUME TypeOK, NEW t \in Turns, Effects(t)
    PROVE  TypeOK'
<1>1. asked' \subseteq Turns /\ writes' \subseteq Late /\ connected' \in BOOLEAN /\ silenced' \subseteq Turns
    BY TypeFacts, StopWritesAre DEF Effects
<1> QED
    BY <1>1, TypeKept DEF Effects

LEMMA RunKeepsTurnInv ==
    ASSUME TypeOK, TurnInv, NEW t \in Turns, Effects(t)
    PROVE  TurnInv'
<1>0. /\ flow \in [Turns -> Flows] /\ state \in States /\ asked \subseteq Turns /\ silenced \subseteq Turns
      /\ NoTurn \notin Turns /\ state.open \subseteq Turns
    BY TypeFacts DEF States
<1>1. GenerationInv'
    BY <1>0 DEF TurnInv, GenerationInv, Effects, Begun, Stale
<1>2. Answered \subseteq Answered'
    BY DEF Effects, Answered
<1>3. CASE state'.open = state.open /\ asked' = asked /\ flow'[t].target = flow[t].target
  <2>1. \A u \in Turns : flow'[u].target = flow[u].target
    BY <1>3 DEF Effects
  <2> QED
    BY <1>1, <1>2, <1>3, <2>1 DEF TurnInv, QuestionInv, Effects
<1>4. CASE /\ flow[t].pc = "orchestrating" /\ t \in Answered'
           /\ state'.open = state.open \union {t}
           /\ asked' = IF connected THEN asked \union {t} ELSE asked
           /\ flow'[t].target = flow[t].target
  <2>1. \A u \in Turns : flow'[u].target = flow[u].target
    BY <1>4 DEF Effects
  <2>2. t \notin Answered
    BY <1>4 DEF Answered
  <2>3. \A u \in Turns : flow'[u].target # NoTurn => flow'[u].target \in asked' \ state'.open
    BY <1>4, <2>1, <2>2 DEF TurnInv, QuestionInv
  <2> QED
    BY <1>1, <1>2, <1>4, <2>1, <2>3 DEF TurnInv, QuestionInv, Effects
<1>5. CASE /\ CurrentInput(t) /\ state.open = {flow'[t].target} /\ flow'[t].target \in Turns
           /\ state'.open = {} /\ asked' = asked
  <2>1. \A u \in Turns \ {t} : flow'[u].target = flow[u].target /\ flow[u].target # flow'[t].target
    BY <1>0, <1>5 DEF TurnInv, QuestionInv, Effects
  <2>2. flow'[t].target \in asked
    BY <1>5 DEF TurnInv, QuestionInv, CurrentInput
  <2>3. \A u \in Turns : flow'[u].target # NoTurn => flow'[u].target \in asked' \ state'.open
    BY <1>5, <2>1, <2>2 DEF TurnInv, QuestionInv
  <2>4. \A s, u \in Turns : flow'[s].target = flow'[u].target /\ flow'[u].target # NoTurn => s = u
    BY <1>5, <2>1 DEF TurnInv, QuestionInv
  <2> QED
    BY <1>1, <1>2, <1>5, <2>3, <2>4 DEF TurnInv, QuestionInv, Effects
<1> QED
    BY <1>3, <1>4, <1>5 DEF Effects

LEMMA RunKeepsHandsFree ==
    ASSUME TypeOK, TurnInv, HandsFreeInv, NEW t \in Turns, Effects(t)
    PROVE  HandsFreeInv'
<1>0. /\ flow \in [Turns -> Flows] /\ state \in States /\ asked \subseteq Turns /\ silenced \subseteq Turns
      /\ NoTurn \notin Turns /\ state.open \subseteq Turns /\ turnRow \in [Turns -> TurnRows]
    BY TypeFacts DEF States
<1>1. /\ \A u \in Turns : (Begun(u)' <=> Begun(u)) /\ (Stale(u)' <=> Stale(u))
      /\ \A u \in Turns \ {t} : /\ u \in Answered' <=> u \in Answered
                                /\ u \in Started' <=> u \in Started
      /\ Answered \subseteq Answered'
    BY DEF Effects, Begun, Stale, Answered, Started
<1>2. ASSUME NEW u \in Turns, flow[u].pc = "starting", ~Stale(u), u # t PROVE Stale(t)
  <2>1. Begun(t) /\ Begun(u)
    BY <1>2 DEF Effects, Begun
  <2> QED
    BY <1>2, <2>1 DEF HandsFreeInv, UtteranceInv
<1>3. UtteranceInv'
  <2>1. ASSUME NEW u \in Turns, flow'[u].pc = "starting", ~Stale(u)'
        PROVE  state'.turn = NoTurn /\ state'.pending \notin state'.open
    <3>1. state'.open \subseteq Turns
        BY <1>0 DEF Effects, States
    <3>2. CASE u = t
        BY <1>0, <2>1, <3>1, <3>2 DEF Effects
    <3>3. CASE u # t
      <4>1. Stale(t) /\ state.turn = NoTurn /\ state.pending \notin state.open
        BY <1>1, <1>2, <2>1, <3>3 DEF Effects, HandsFreeInv, UtteranceInv
      <4>2. state'.open = state.open /\ state'.turn = NoTurn
        BY <4>1 DEF Effects, CurrentInput
      <4>3. flow[t].pc = "orchestrating" => t \notin state.open
        BY DEF TurnInv, QuestionInv, Answered
      <4> QED
        BY <1>0, <4>1, <4>2, <4>3 DEF Effects
    <3> QED
        BY <3>2, <3>3
  <2> QED
    BY <1>1, <2>1 DEF HandsFreeInv, UtteranceInv, Effects
<1>4. ASSUME flow[t].pc = "orchestrating"
      PROVE  t \notin Answered /\ t \notin asked /\ state.pending # t /\ <<"cancel", t>> \notin writes
  <2>1. t \notin Answered
    BY <1>4 DEF Answered
  <2> QED
    BY <1>0, <2>1 DEF TurnInv, QuestionInv, HandsFreeInv, CancelInv
<1>5. \A u \in Turns : <<"cancel", u>> \in writes' => <<"cancel", u>> \in writes \/ (state.pending = u /\ u \notin state.open)
    BY <1>0, StopWritesAre DEF Effects
<1>6. \A u \in Turns : u \in asked' => u \in asked \/ (u = t /\ flow[t].pc = "orchestrating")
    BY DEF Effects
<1>7. CancelInv'
  <2>1. state'.pending \in Answered' \union {NoTurn}
    BY <1>1 DEF Effects, HandsFreeInv, CancelInv
  <2>2. state'.pending \in asked' => state'.pending \in state'.open
    <3>1. CASE state'.open = state.open /\ asked' = asked
        BY <1>0, <1>4, <3>1 DEF Effects, HandsFreeInv, CancelInv
    <3>2. CASE state'.pending = t /\ state'.open = state.open \union {t}
        BY <3>2
    <3>3. CASE flow[t].pc = "starting" /\ CurrentInput(t) /\ asked' = asked /\ state'.pending = state.pending
      <4>1. state.pending \notin state.open
        BY <3>3 DEF HandsFreeInv, UtteranceInv, CurrentInput
      <4> QED
        BY <3>3, <4>1 DEF HandsFreeInv, CancelInv
    <3> QED
        BY <3>1, <3>2, <3>3 DEF Effects
  <2>3. ASSUME NEW u \in Turns, <<"cancel", u>> \in writes' PROVE u \in Answered' \ asked'
    <3>1. u \in Answered \ asked
        BY <1>0, <1>5, <2>3 DEF HandsFreeInv, CancelInv
    <3> QED
        BY <1>1, <1>4, <1>6, <3>1
  <2>4. ASSUME NEW u \in Turns, flow'[u].pc = "cancelStale" PROVE u \notin asked'
    <3>1. CASE u = t
        BY <1>4, <2>4, <3>1 DEF Effects
    <3>2. CASE u # t
        BY <1>6, <2>4, <3>2 DEF Effects, HandsFreeInv, CancelInv
    <3> QED
        BY <3>1, <3>2
  <2> QED
    BY <2>1, <2>2, <2>3, <2>4 DEF CancelInv
<1>8. AskedActionsSurvive'
  <2> SUFFICES ASSUME NEW u \in asked', action'[u] = "cancelled" PROVE FALSE
    BY DEF AskedActionsSurvive
  <2>1. u \in Turns
    BY <1>0, <1>6 DEF Effects
  <2>2. CASE u \in asked
    BY <2>1, <2>2 DEF Effects, HandsFreeInv, AskedActionsSurvive, CancelInv
  <2>3. CASE u \notin asked
    BY <2>1, <2>3 DEF Effects
  <2> QED
    BY <2>2, <2>3
<1>9. InterruptInv'
  <2>1. \A u \in Turns \ {t} : Cut(u) => Cut(u)'
    BY DEF Cut, Effects
  <2>2. t \in Started /\ t \in Started' /\ Cut(t) => Cut(t)'
    BY DEF Cut, Effects
  <2>3. ASSUME NEW u \in Started' PROVE state'.turn = u \/ Cut(u)'
    <3>1. u \in Turns /\ (u \in Started \/ (u = t /\ state'.turn = t))
        BY <1>1 DEF Effects, Started
    <3>2. CASE u \in Started /\ Cut(u)
        BY <2>1, <2>2, <2>3, <3>1, <3>2
    <3>3. CASE u \in Started /\ state.turn = u /\ state'.turn # u
      <4>1. CASE writes' = writes \union StopWrites(state)
        BY <1>0, <3>1, <3>3, <4>1, StopWritesAre DEF Cut
      <4>2. CASE state.turn = t /\ t \notin Started'
        BY <2>3, <3>3, <4>2
      <4>3. CASE flow[t].pc = "starting" /\ CurrentInput(t)
        BY <1>0, <3>1, <3>3, <4>3 DEF CurrentInput, HandsFreeInv, UtteranceInv
      <4> QED
        BY <3>3, <4>1, <4>2, <4>3 DEF Effects
    <3> QED
        BY <3>1, <3>2, <3>3 DEF HandsFreeInv, InterruptInv
  <2>4. \A u \in Turns : turnRow'[u] = "completed" => flow'[u].pc = "done"
    BY <1>0 DEF Effects, HandsFreeInv, InterruptInv
  <2>5. ASSUME NEW u \in silenced'
        PROVE  /\ state'.turn # u
               /\ u \in Started' => Cut(u)'
               /\ u \notin Started' => Cut(u)' \/ turnRow'[u] # "completed"
    <3>1. u \in Turns /\ u \in silenced /\ Stale(u) /\ state.turn # u
        BY <1>0, <2>5 DEF Effects, TurnInv, GenerationInv, HandsFreeInv, InterruptInv
    <3>2. state'.turn # u
        BY <1>0, <3>1 DEF Effects, CurrentInput
    <3>3. u \in Started' => Cut(u)'
        BY <2>3, <3>2
    <3>4. CASE u # t
        BY <1>1, <2>1, <3>1, <3>2, <3>3, <3>4 DEF Effects, HandsFreeInv, InterruptInv
    <3>5. CASE u = t /\ u \notin Started'
      <4>1. turnRow[t] # "completed"
        BY DEF Effects, HandsFreeInv, InterruptInv
      <4>2. CASE <<"interrupt", t>> \in writes
        BY <3>2, <3>5, <4>2 DEF Effects, Cut
      <4>3. CASE <<"interrupt", t>> \notin writes /\ turnRow'[t] = "completed"
        <5>1. turnRow[t] = "in_progress" /\ t \notin Started
            BY <3>1, <3>5, <4>1, <4>3 DEF Effects, HandsFreeInv, InterruptInv, Cut
        <5> QED
            BY <3>1, <4>1, <4>3, <5>1 DEF Effects
      <4> QED
        BY <3>2, <3>3, <3>5, <4>2, <4>3
    <3> QED
        BY <3>2, <3>3, <3>4, <3>5
  <2> QED
    BY <2>3, <2>4, <2>5 DEF InterruptInv
<1> QED
    BY <1>3, <1>7, <1>8, <1>9 DEF HandsFreeInv

-------------------------------------------------------------------------------
(* The client, the frames and the writes that land                         *)

LEMMA Finalized ==
    ASSUME TypeOK, NEW t \in Turns, NEW s \in States, Finalize(t, s)
    PROVE  /\ flow' \in [Turns -> Flows] /\ \A u \in Turns \ {t} : flow'[u] = flow[u]
           /\ flow[t].pc = "free" /\ flow'[t].pc = "stt" /\ flow'[t].gen = s.sttGeneration
           /\ flow'[t].target = flow[t].target
           /\ state' \in States /\ state'.sttGeneration = 0 /\ state'.generation = s.generation
           /\ state'.speaking = s.speaking /\ state'.silence = s.silence
           /\ state'.turn = s.turn /\ state'.pending = s.pending /\ state'.open = s.open
<1>0. flow \in [Turns -> Flows] /\ flow[t] \in Flows /\ "stt" \in Pcs /\ s.sttGeneration \in Gens /\ 0 \in Gens
    BY TypeFacts DEF States, Pcs, Gens
<1> DEFINE f == [[flow[t] EXCEPT !.pc = "stt"] EXCEPT !.gen = s.sttGeneration]
<1>1. flow' = [flow EXCEPT ![t] = f]
  <2>1. flow' = [flow EXCEPT ![t].pc = "stt", ![t].gen = s.sttGeneration]
    BY DEF Finalize
  <2> QED
    BY <1>0, <2>1 DEF Flows
<1>2. f \in Flows /\ f.pc = "stt" /\ f.gen = s.sttGeneration /\ f.target = flow[t].target
    BY <1>0 DEF Flows
<1> HIDE DEF f
<1>3. flow' \in [Turns -> Flows] /\ flow'[t] = f /\ \A u \in Turns \ {t} : flow'[u] = flow[u]
    BY <1>0, <1>1, <1>2
<1>4. state' = [s EXCEPT !.stt = FALSE, !.sttGeneration = 0] /\ flow[t].pc = "free"
    BY DEF Finalize
<1> QED
    BY <1>0, <1>2, <1>3, <1>4 DEF States

(* What every step outside the calls leaves, except the finalization of an *)
(* utterance.                                                              *)
Surroundings ==
    /\ state' \in States /\ turnRow' \in [Turns -> TurnRows] /\ message' \in [Turns -> Messages]
    /\ action' \in [Turns -> Decisions] /\ writes' \subseteq Late /\ connected' \in BOOLEAN
    /\ flow' \in [Turns -> Flows] /\ asked' = asked /\ spoken' = spoken /\ state'.open = state.open
    /\ \A u \in Turns : flow'[u].pc = flow[u].pc /\ flow'[u].gen = flow[u].gen /\ flow'[u].target = flow[u].target
    /\ connected' => connected
    /\ \/ state'.generation = state.generation /\ silenced' = silenced
       \/ /\ state'.generation = state.generation + 1 /\ silenced' = silenced \union UnderWay
          /\ state'.turn = NoTurn
    /\ state'.sttGeneration \in {state.sttGeneration, state'.generation}
    /\ \/ state'.turn = state.turn /\ state'.pending = state.pending
       \/ state'.turn = NoTurn /\ state'.pending = NoTurn /\ StopWrites(state) \subseteq writes'
    /\ \A u \in Turns : /\ <<"interrupt", u>> \in writes => <<"interrupt", u>> \in writes' \/ turnRow'[u] = "interrupted"
                        /\ <<"cancel", u>> \in writes' => <<"cancel", u>> \in writes \union StopWrites(state)
                        /\ turnRow'[u] \in {turnRow[u], "interrupted"}
                        /\ action'[u] = "cancelled" => action[u] = "cancelled" \/ <<"cancel", u>> \in writes
    /\ state'.speaking /\ state'.silence => state.speaking /\ state.silence
    /\ state'.speaking \/ state'.silence
          => state.speaking \/ state.silence \/ state'.generation = state.generation + 1

LEMMA ClientKeepsType ==
    ASSUME TypeOK, Surroundings
    PROVE  TypeOK'
BY TypeFacts, TypeKept DEF Surroundings, UnderWay

LEMMA ClientKeepsTurnInv ==
    ASSUME TypeOK, TurnInv, Surroundings
    PROVE  TurnInv'
<1>0. state \in States /\ flow \in [Turns -> Flows]
    BY TypeFacts
<1>1. state.generation \in Nat /\ \A t \in Turns : flow[t].gen \in Nat
    BY <1>0 DEF States, Flows, Gens
<1>2. GenerationInv'
  <2>1. /\ state.sttGeneration <= state.generation /\ state.sttGeneration \in Nat
        /\ \A t \in Turns : flow[t].gen <= state.generation
    BY <1>0 DEF TurnInv, GenerationInv, States, Gens
  <2>2. CASE state'.generation = state.generation /\ silenced' = silenced
    <3>1. /\ \A t \in Turns : flow'[t].gen = flow[t].gen /\ flow'[t].pc = flow[t].pc
          /\ state'.sttGeneration \in {state.sttGeneration, state.generation}
        BY <2>2 DEF Surroundings
    <3>2. \A t \in silenced : t \in Turns /\ flow[t].pc # "free" /\ flow[t].gen # state.generation
        BY TypeFacts DEF TurnInv, GenerationInv, Begun, Stale
    <3> QED
        BY <1>1, <2>1, <2>2, <3>1, <3>2 DEF GenerationInv, Begun, Stale
  <2>3. CASE state'.generation = state.generation + 1 /\ silenced' = silenced \union UnderWay
    <3>1. /\ state'.sttGeneration <= state'.generation
          /\ \A t \in Turns : flow'[t].gen <= state'.generation /\ flow'[t].gen # state'.generation
        BY <1>1, <2>1, <2>3 DEF Surroundings
    <3>2. \A t \in silenced' : t \in Turns /\ flow'[t].pc # "free"
        BY <2>3, TypeFacts DEF Surroundings, UnderWay, TurnInv, GenerationInv, Begun
    <3> QED
        BY <3>1, <3>2 DEF GenerationInv, Begun, Stale
  <2> QED
    BY <2>2, <2>3 DEF Surroundings
<1>3. Answered' = Answered
    BY DEF Surroundings, Answered
<1> QED
    BY <1>2, <1>3 DEF Surroundings, TurnInv, QuestionInv

LEMMA ClientKeepsHandsFree ==
    ASSUME TypeOK, TurnInv, HandsFreeInv, Surroundings
    PROVE  HandsFreeInv'
<1>0. /\ state \in States /\ flow \in [Turns -> Flows] /\ asked \subseteq Turns /\ NoTurn \notin Turns
      /\ silenced \subseteq Turns /\ state.open \subseteq Turns
    BY TypeFacts DEF States
<1>1. /\ Answered' = Answered /\ Started' = Started
      /\ \A t \in Turns : Begun(t)' <=> Begun(t)
    BY DEF Surroundings, Answered, Started, Begun
<1>2. /\ state'.generation = state.generation => \A t \in Turns : Stale(t)' <=> Stale(t)
      /\ state'.generation = state.generation + 1 => \A t \in Turns : Stale(t)'
  <2>1. state.generation \in Nat /\ \A t \in Turns : flow[t].gen \in Nat /\ flow[t].gen <= state.generation
    BY <1>0 DEF States, Flows, Gens, TurnInv, GenerationInv
  <2> QED
    BY <2>1 DEF Surroundings, Stale
<1>3. UtteranceInv'
  <2>1. ~(state'.speaking /\ state'.silence)
    BY DEF Surroundings, HandsFreeInv, UtteranceInv
  <2>2. CASE state'.generation = state.generation + 1
    BY <1>2, <2>1, <2>2 DEF UtteranceInv
  <2>3. CASE state'.generation = state.generation
    <3>1. state'.speaking \/ state'.silence => state.speaking \/ state.silence
        <4>1. state.generation # state.generation + 1
            BY <1>0 DEF States
        <4> QED
            BY <2>3, <4>1 DEF Surroundings
    <3>2. \A t \in Turns : flow[t].pc = "starting" /\ ~Stale(t) => state'.turn = NoTurn /\ state'.pending \notin state'.open
        BY <1>0 DEF Surroundings, HandsFreeInv, UtteranceInv
    <3> QED
        BY <1>1, <1>2, <2>1, <2>3, <3>1, <3>2 DEF Surroundings, HandsFreeInv, UtteranceInv
  <2> QED
    BY <2>2, <2>3 DEF Surroundings
<1>4. CancelInv'
  <2>1. \A t \in Turns : <<"cancel", t>> \in writes' => t \in Answered \ asked
    BY <1>0, StopWritesAre DEF Surroundings, HandsFreeInv, CancelInv
  <2> QED
    BY <1>0, <1>1, <2>1 DEF Surroundings, HandsFreeInv, CancelInv
<1>5. AskedActionsSurvive'
    BY <1>0 DEF Surroundings, HandsFreeInv, CancelInv, AskedActionsSurvive
<1>6. InterruptInv'
  <2>1. \A t \in Turns : Cut(t) => Cut(t)'
    BY DEF Surroundings, Cut
  <2>2. ASSUME NEW t \in Started PROVE state'.turn = t \/ Cut(t)'
    <3>1. t \in Turns
        BY DEF Started
    <3>2. CASE Cut(t)
        BY <2>1, <3>1, <3>2
    <3>3. CASE state.turn = t
        BY <1>0, <3>1, <3>3, StopWritesAre DEF Surroundings, Cut
    <3> QED
        BY <3>2, <3>3 DEF HandsFreeInv, InterruptInv
  <2>3. \A t \in Turns : turnRow'[t] = "completed" => turnRow[t] = "completed" /\ flow[t].pc = "done"
    BY DEF Surroundings, HandsFreeInv, InterruptInv
  <2>4. ASSUME NEW t \in silenced'
        PROVE  /\ state'.turn # t
               /\ t \in Started => Cut(t)'
               /\ t \notin Started => Cut(t)' \/ turnRow'[t] # "completed"
    <3>1. t \in Turns
        BY <1>0 DEF Surroundings, UnderWay
    <3>2. CASE t \in silenced
      <4>1. state'.turn # t
        BY <1>0, <3>1, <3>2 DEF Surroundings, HandsFreeInv, InterruptInv
      <4> QED
        BY <2>1, <2>2, <2>3, <3>1, <3>2, <4>1 DEF HandsFreeInv, InterruptInv
    <3>3. CASE t \notin silenced
      <4>1. flow[t].pc # "done" /\ state'.turn = NoTurn
        BY <3>3 DEF Surroundings, UnderWay
      <4> QED
        BY <1>0, <2>2, <2>3, <3>1, <4>1
    <3> QED
        BY <3>2, <3>3
  <2> QED
    BY <1>1, <2>2, <2>3, <2>4 DEF InterruptInv, Surroundings
<1> QED
    BY <1>3, <1>4, <1>5, <1>6 DEF HandsFreeInv

LEMMA ClientEffects ==
    ASSUME TypeOK,
           \/ SttReady \/ SpeechStarted \/ SpeechEnded \/ Interrupt \/ Disconnect \/ CloseSession \/ DecideByRest
           \/ ConfirmSilence /\ UNCHANGED flow
    PROVE  Surroundings
<1>0. /\ state \in States /\ flow \in [Turns -> Flows] /\ turnRow \in [Turns -> TurnRows] /\ message \in [Turns -> Messages]
      /\ action \in [Turns -> Decisions] /\ writes \subseteq Late /\ connected \in BOOLEAN
      /\ state.generation \in Nat /\ MaxGen \in Nat /\ StopWrites(state) \subseteq Late
    BY TypeFacts, StopWritesAre DEF States
(* The session goes on, nothing is stopped. *)
<1>1. ASSUME state' \in States, state'.open = state.open, state'.generation = state.generation,
             state'.sttGeneration \in {state.sttGeneration, state.generation},
             state'.turn = state.turn, state'.pending = state.pending,
             state'.speaking /\ state'.silence => state.speaking /\ state.silence,
             state'.speaking \/ state'.silence => state.speaking \/ state.silence,
             action' = action, connected' \in BOOLEAN, connected' => connected,
             UNCHANGED <<flow, turnRow, message, writes, spoken, asked, silenced>>
      PROVE  Surroundings
    BY <1>0, <1>1 DEF Surroundings
(* Something is stopped. *)
<1>2. ASSUME state' \in States, state'.open = state.open, state'.turn = NoTurn,
             \/ state'.generation = state.generation /\ silenced' = silenced
             \/ state'.generation = state.generation + 1 /\ silenced' = silenced \union UnderWay,
             state'.sttGeneration \in {state.sttGeneration, state'.generation},
             state'.pending = NoTurn, writes' = writes \union StopWrites(state),
             state'.speaking /\ state'.silence => state.speaking /\ state.silence,
             state'.speaking \/ state'.silence
                => state.speaking \/ state.silence \/ state'.generation = state.generation + 1,
             connected' \in BOOLEAN, connected' => connected,
             UNCHANGED <<flow, turnRow, message, action, spoken, asked>>
      PROVE  Surroundings
    BY <1>0, <1>2 DEF Surroundings
<1>3. CASE SttReady
  <2> DEFINE g == IF state.sttGeneration = 0 THEN state.generation ELSE state.sttGeneration
  <2>1. g \in Gens /\ g \in {state.sttGeneration, state.generation}
    BY <1>0 DEF States, Gens
  <2>2. state' = [state EXCEPT !.stt = TRUE, !.sttGeneration = g]
    BY <1>0, <1>3 DEF SttReady, States
  <2> HIDE DEF g
  <2>3. /\ state' \in States /\ state'.open = state.open /\ state'.generation = state.generation
        /\ state'.sttGeneration = g /\ state'.turn = state.turn /\ state'.pending = state.pending
        /\ state'.speaking = state.speaking /\ state'.silence = state.silence
    BY <1>0, <2>1, <2>2 DEF States
  <2> QED
    BY <1>0, <1>1, <1>3, <2>1, <2>3 DEF SttReady, rows
<1>4. CASE SpeechStarted
  <2> DEFINE g == state.generation + 1
             s == [state EXCEPT !.generation = g, !.sttGeneration = g, !.speaking = TRUE,
                                !.silence = FALSE, !.speech = g]
  <2>1. /\ s \in States /\ s.generation = g /\ s.sttGeneration = g /\ s.speaking = TRUE /\ s.silence = FALSE
        /\ s.turn = state.turn /\ s.msg = state.msg /\ s.pending = state.pending
        /\ s.open = state.open /\ s.tts = state.tts
    <3>1. g \in 1..MaxGen /\ g \in Gens
        BY <1>0, <1>4 DEF SpeechStarted, Gens
    <3> HIDE DEF g
    <3> QED
        BY <1>0, <3>1 DEF States
  <2>2. StopWrites(s) = StopWrites(state)
    <3> HIDE DEF s
    <3> QED
        BY <2>1 DEF StopWrites
  <2>3. /\ \/ state' = Stopped(s) /\ writes' = writes \union StopWrites(s)
           \/ state' = s /\ writes' = writes /\ state.turn = NoTurn
        /\ silenced' = silenced \union UnderWay
        /\ UNCHANGED <<flow, turnRow, message, action, connected, spoken, asked>>
    BY <1>4 DEF SpeechStarted, rows
  <2> HIDE DEF s
  <2>4. CASE state' = Stopped(s) /\ writes' = writes \union StopWrites(s)
    BY <1>0, <1>2, <2>1, <2>2, <2>3, <2>4, StoppedIs
  <2>5. CASE state' = s /\ writes' = writes /\ state.turn = NoTurn
    BY <1>0, <2>1, <2>3, <2>5 DEF Surroundings
  <2> QED
    BY <2>3, <2>4, <2>5
<1>5. CASE SpeechEnded
  <2>1. /\ state.speaking /\ state' = [state EXCEPT !.speaking = FALSE, !.silence = TRUE]
        /\ UNCHANGED <<flow, turnRow, message, action, writes, connected, spoken, asked, silenced>>
    BY <1>5 DEF SpeechEnded, rows
  <2>2. /\ state' \in States /\ state'.open = state.open /\ state'.generation = state.generation
        /\ state'.sttGeneration = state.sttGeneration /\ state'.turn = state.turn /\ state'.pending = state.pending
        /\ state'.speaking = FALSE /\ state'.silence = TRUE
    BY <1>0, <2>1 DEF States
  <2> QED
    BY <1>0, <1>1, <2>1, <2>2
<1>6. CASE ConfirmSilence /\ UNCHANGED flow
  <2>1. ~\E t \in Turns : Finalize(t, [state EXCEPT !.silence = FALSE])
    <3> SUFFICES ASSUME NEW t \in Turns, Finalize(t, [state EXCEPT !.silence = FALSE]) PROVE FALSE
        OBVIOUS
    <3>1. [state EXCEPT !.silence = FALSE] \in States /\ flow[t].pc = "free"
        BY <1>0 DEF States, Finalize
    <3>2. flow'[t].pc = "stt"
        BY <3>1, Finalized
    <3> QED
        BY <1>6, <3>1, <3>2
  <2>2. /\ state' = [state EXCEPT !.silence = FALSE]
        /\ UNCHANGED <<flow, turnRow, message, action, writes, connected, spoken, asked, silenced>>
    BY <1>6, <2>1 DEF ConfirmSilence, rows
  <2>3. /\ state' \in States /\ state'.open = state.open /\ state'.generation = state.generation
        /\ state'.sttGeneration = state.sttGeneration /\ state'.turn = state.turn /\ state'.pending = state.pending
        /\ state'.speaking = state.speaking /\ state'.silence = FALSE
    BY <1>0, <2>2 DEF States
  <2> QED
    BY <1>0, <1>1, <2>2, <2>3
<1>7. CASE Interrupt
  <2>1. Stopped(state) \in States
    BY <1>0, StoppedIs
  <2>2. state' = [Stopped(state) EXCEPT !.generation = state.generation + 1] /\ state.generation + 1 \in 1..MaxGen
    <3>1. state' = [Stopped(state) EXCEPT !.generation = Stopped(state).generation + 1]
        BY <1>7 DEF Interrupt
    <3>2. state.generation < MaxGen
        BY <1>7 DEF Interrupt
    <3> QED
        BY <1>0, <3>1, <3>2, StoppedIs
  <2>3. /\ state' \in States /\ state'.open = Stopped(state).open /\ state'.generation = state.generation + 1
        /\ state'.sttGeneration = Stopped(state).sttGeneration /\ state'.turn = Stopped(state).turn
        /\ state'.pending = Stopped(state).pending
        /\ state'.speaking = Stopped(state).speaking /\ state'.silence = Stopped(state).silence
    BY <2>1, <2>2 DEF States
  <2> QED
    BY <1>0, <1>2, <1>7, <2>3, StoppedIs DEF Interrupt, rows
<1>8. CASE Disconnect
  <2> DEFINE gone == IF state.tts = NoTurn THEN state.aborted ELSE state.aborted \union {state.tts}
  <2>1. gone \in SUBSET Turns
    BY <1>0 DEF States, Turn0
  <2>2. /\ state' = [state EXCEPT !.aborted = gone] /\ connected' = FALSE
        /\ UNCHANGED <<flow, turnRow, message, action, writes, spoken, asked, silenced>>
    BY <1>8 DEF Disconnect, rows
  <2> HIDE DEF gone
  <2>3. /\ state' \in States /\ state'.open = state.open /\ state'.generation = state.generation
        /\ state'.sttGeneration = state.sttGeneration /\ state'.turn = state.turn /\ state'.pending = state.pending
        /\ state'.speaking = state.speaking /\ state'.silence = state.silence
    BY <1>0, <2>1, <2>2 DEF States
  <2> QED
    BY <1>0, <1>1, <2>2, <2>3
<1>9. CASE CloseSession
    BY <1>0, <1>2, <1>9, StoppedIs DEF CloseSession, rows
<1>10. CASE DecideByRest
  <2>1. PICK t \in Turns, d \in {"approved", "rejected"} : action' = [action EXCEPT ![t] = d]
    BY <1>10 DEF DecideByRest
  <2>2. /\ action' \in [Turns -> Decisions] /\ \A u \in Turns : action'[u] = "cancelled" => action[u] = "cancelled"
    BY <1>0, <2>1 DEF Decisions
  <2> QED
    BY <1>0, <1>10, <2>2 DEF DecideByRest, Surroundings
<1> QED
    BY <1>3, <1>4, <1>5, <1>6, <1>7, <1>8, <1>9, <1>10

LEMMA LandEffects ==
    ASSUME TypeOK, NEW w \in writes, Land(w)
    PROVE  Surroundings
<1>0. /\ state \in States /\ flow \in [Turns -> Flows] /\ turnRow \in [Turns -> TurnRows] /\ message \in [Turns -> Messages]
      /\ action \in [Turns -> Decisions] /\ writes \subseteq Late /\ connected \in BOOLEAN
    BY TypeFacts
<1>1. w[2] \in Turns /\ w = <<w[1], w[2]>>
    BY <1>0 DEF Late
<1>2. /\ writes' = writes \ {w}
      /\ UNCHANGED <<state, flow, connected, spoken, asked, silenced>>
    BY DEF Land
<1>3. CASE w[1] = "interrupt" /\ turnRow' = [turnRow EXCEPT ![w[2]] = "interrupted"] /\ UNCHANGED <<message, action>>
  <2>1. /\ turnRow' \in [Turns -> TurnRows] /\ turnRow'[w[2]] = "interrupted"
        /\ \A u \in Turns : turnRow'[u] \in {turnRow[u], "interrupted"}
    BY <1>0, <1>1, <1>3 DEF TurnRows
  <2>2. \A u \in Turns : <<"interrupt", u>> = w => turnRow'[u] = "interrupted"
    BY <2>1
  <2> QED
    BY <1>0, <1>2, <1>3, <2>1, <2>2 DEF Surroundings
<1>4. CASE w[1] = "mark" /\ message' = [message EXCEPT ![w[2]] = "interrupted"] /\ UNCHANGED <<turnRow, action>>
  <2>1. message' \in [Turns -> Messages]
    BY <1>0, <1>1, <1>4 DEF Messages
  <2>2. \A u \in Turns : <<"interrupt", u>> # w
    BY <1>4
  <2> QED
    BY <1>0, <1>2, <1>4, <2>1, <2>2 DEF Surroundings
<1>5. CASE w[1] = "cancel" /\ CancelPending(w[2]) /\ UNCHANGED <<turnRow, message>>
  <2>1. /\ action' \in [Turns -> Decisions]
        /\ \A u \in Turns : action'[u] = "cancelled" => action[u] = "cancelled" \/ u = w[2]
    BY <1>0, <1>1, <1>5 DEF Decisions, CancelPending
  <2>2. /\ \A u \in Turns : <<"interrupt", u>> # w
        /\ <<"cancel", w[2]>> \in writes
    BY <1>1, <1>5
  <2> QED
    BY <1>0, <1>2, <1>5, <2>1, <2>2 DEF Surroundings
<1> QED
    BY <1>3, <1>4, <1>5 DEF Land

LEMMA CancelLostEffects ==
    ASSUME TypeOK, NEW w \in writes, CancelLost(w)
    PROVE  Surroundings
<1>0. /\ state \in States /\ flow \in [Turns -> Flows] /\ turnRow \in [Turns -> TurnRows]
      /\ message \in [Turns -> Messages] /\ action \in [Turns -> Decisions] /\ writes \subseteq Late
      /\ connected \in BOOLEAN
    BY TypeFacts
<1>1. /\ w[1] = "cancel" /\ writes' = writes \ {w} /\ flow' = [flow EXCEPT ![w[2]].adrift = TRUE]
      /\ UNCHANGED <<state, turnRow, message, action, connected, spoken, asked, silenced>>
    BY DEF CancelLost, rows
<1>2. w[2] \in Turns /\ \A u \in Turns : <<"interrupt", u>> # w
    BY <1>0, <1>1 DEF Late
<1> DEFINE f == [flow[w[2]] EXCEPT !.adrift = TRUE]
<1>3. f \in Flows /\ f.pc = flow[w[2]].pc /\ f.gen = flow[w[2]].gen /\ f.target = flow[w[2]].target
    BY <1>0, <1>2 DEF Flows
<1>4. flow' = [flow EXCEPT ![w[2]] = f]
    BY <1>1
<1> HIDE DEF f
<1>5. /\ flow' \in [Turns -> Flows]
      /\ \A u \in Turns : flow'[u].pc = flow[u].pc /\ flow'[u].gen = flow[u].gen /\ flow'[u].target = flow[u].target
    BY <1>0, <1>2, <1>3, <1>4
<1> QED
    BY <1>0, <1>1, <1>2, <1>5 DEF Surroundings

(* The head of finalizeTurn: a free turn, of the generation in which its   *)
(* utterance began. A client that never sends audio.end comes here only    *)
(* from the silence after an utterance.                                    *)
LEMMA FinalizeKeeps ==
    ASSUME TypeOK, TurnInv, NEW t \in Turns, NEW s \in States, Finalize(t, s),
           s.generation = state.generation, s.speaking = state.speaking, s.silence \in {FALSE, state.silence},
           s.turn = state.turn, s.pending = state.pending, s.open = state.open,
           s.sttGeneration = state.sttGeneration,
           UNCHANGED <<turnRow, message, action, writes, connected, spoken, asked, silenced>>
    PROVE  TypeOK' /\ TurnInv' /\ (HandsFreeInv /\ state.silence /\ ~s.silence => HandsFreeInv')
<1>0. /\ flow' \in [Turns -> Flows] /\ \A u \in Turns \ {t} : flow'[u] = flow[u]
      /\ flow[t].pc = "free" /\ flow'[t].pc = "stt" /\ flow'[t].gen = state.sttGeneration
      /\ flow'[t].target = flow[t].target
      /\ state' \in States /\ state'.sttGeneration = 0 /\ state'.generation = state.generation
      /\ state'.speaking = state.speaking /\ state'.silence = s.silence
      /\ state'.turn = state.turn /\ state'.pending = state.pending /\ state'.open = state.open
    BY Finalized
<1>1. TypeOK'
    BY <1>0, TypeFacts, TypeKept
<1>2. /\ Answered' = Answered /\ Started' = Started
      /\ \A u \in Turns : flow'[u].target = flow[u].target
    BY <1>0 DEF Answered, Started
<1>3. state \in States /\ state.generation \in Nat
    BY TypeFacts DEF States
<1>4. GenerationInv'
  <2>1. 0 <= state.generation /\ state.sttGeneration <= state.generation
    BY <1>3 DEF TurnInv, GenerationInv
  <2>2. \A u \in Turns : flow'[u].gen <= state'.generation
    BY <1>0, <2>1 DEF TurnInv, GenerationInv
  <2>3. \A u \in silenced : u # t /\ u \in Turns
    BY <1>0, TypeFacts DEF TurnInv, GenerationInv, Begun
  <2> QED
    BY <1>0, <2>1, <2>2, <2>3 DEF TurnInv, GenerationInv, Begun, Stale
<1>5. QuestionInv'
    BY <1>0, <1>2 DEF TurnInv, QuestionInv
<1>6. ASSUME HandsFreeInv, state.silence, ~s.silence PROVE HandsFreeInv'
  <2>1. \A u \in Turns \ {t} : ~Begun(u)' \/ Stale(u)'
    BY <1>0, <1>6 DEF HandsFreeInv, UtteranceInv, Begun, Stale
  <2>2. state'.speaking = FALSE /\ state'.silence = FALSE
    BY <1>0, <1>6 DEF HandsFreeInv, UtteranceInv, States
  <2>3. UtteranceInv'
    BY <1>0, <2>1, <2>2 DEF UtteranceInv, Begun
  <2>4. CancelInv' /\ AskedActionsSurvive'
    BY <1>0, <1>2, <1>6 DEF HandsFreeInv, CancelInv, AskedActionsSurvive
  <2>5. InterruptInv'
    BY <1>0, <1>2, <1>6 DEF HandsFreeInv, InterruptInv, Cut
  <2> QED
    BY <2>3, <2>4, <2>5 DEF HandsFreeInv
<1> QED
    BY <1>1, <1>4, <1>5, <1>6 DEF TurnInv

(* What every client can rely on, and what one without audio.end can.      *)
Inv == TypeOK /\ TurnInv /\ (~PushToTalk => HandsFreeInv)

LEMMA ClientStep ==
    ASSUME Inv, Client
    PROVE  Inv'
<1>1. CASE Surroundings
    BY <1>1, ClientKeepsType, ClientKeepsTurnInv, ClientKeepsHandsFree DEF Inv
<1>2. TypeOK /\ TurnInv /\ state \in States
    BY TypeFacts DEF Inv
<1>3. ASSUME NEW t \in Turns, state.silence, ConfirmSilence, Finalize(t, [state EXCEPT !.silence = FALSE])
      PROVE  Inv'
  <2> DEFINE s == [state EXCEPT !.silence = FALSE]
  <2>1. /\ s \in States /\ s.generation = state.generation /\ s.speaking = state.speaking /\ s.silence = FALSE
        /\ s.turn = state.turn /\ s.pending = state.pending /\ s.open = state.open
        /\ s.sttGeneration = state.sttGeneration
    BY <1>2 DEF States
  <2>2. /\ Finalize(t, s)
        /\ UNCHANGED <<turnRow, message, action, writes, connected, spoken, asked, silenced>>
    BY <1>3 DEF ConfirmSilence, rows
  <2> HIDE DEF s
  <2> QED
    BY <1>2, <1>3, <2>1, <2>2, FinalizeKeeps DEF Inv
<1>4. CASE ConfirmSilence
    BY <1>1, <1>2, <1>3, <1>4, ClientEffects DEF ConfirmSilence
<1>5. CASE AudioEnd
  <2>1. PICK t \in Turns : PushToTalk /\ Finalize(t, state)
    BY <1>5 DEF AudioEnd
  <2> QED
    BY <1>2, <1>5, <2>1, FinalizeKeeps DEF Inv, AudioEnd, rows
<1> QED
    BY <1>1, <1>2, <1>4, <1>5, ClientEffects DEF Client

LEMMA InvStep ==
    ASSUME Inv, [Next]_vars
    PROVE  Inv'
<1>1. CASE Client
    BY <1>1, ClientStep
<1>2. ASSUME NEW t \in Turns, Run(t) PROVE Inv'
    BY <1>2, RunEffects, RunKeepsType, RunKeepsTurnInv, RunKeepsHandsFree DEF Inv
<1>3. ASSUME NEW w \in writes, Land(w) \/ CancelLost(w) PROVE Inv'
    BY <1>3, LandEffects, CancelLostEffects, ClientKeepsType, ClientKeepsTurnInv, ClientKeepsHandsFree DEF Inv
<1>4. CASE UNCHANGED vars
    BY <1>4 DEF vars, rows, Inv, TypeOK, TurnInv, GenerationInv, QuestionInv, HandsFreeInv, UtteranceInv,
               CancelInv, InterruptInv, AskedActionsSurvive, Begun, Stale, Answered, Started, Cut
<1> QED
    BY <1>1, <1>2, <1>3, <1>4 DEF Next

LEMMA Invariance == Spec => []Inv
<1>1. Init => Inv
  <2> SUFFICES ASSUME Init PROVE Inv
    OBVIOUS
  <2>1. TypeOK
    BY VoiceConstants DEF Init, TypeOK, Gens, Turn0, Pcs
  <2>2. TurnInv
    BY VoiceConstants DEF Init, TurnInv, GenerationInv, QuestionInv, Answered
  <2>3. HandsFreeInv
    BY VoiceConstants DEF Init, HandsFreeInv, UtteranceInv, CancelInv, InterruptInv, AskedActionsSurvive,
                          Begun, Stale, Answered, Started, Cut
  <2> QED
    BY <2>1, <2>2, <2>3 DEF Inv
<1>2. Inv /\ [Next]_vars => Inv'
    BY InvStep
<1> QED
    BY <1>1, <1>2, PTL DEF Spec

-------------------------------------------------------------------------------
(* What follows for every client                                           *)

THEOREM TypeCorrect == Spec => []TypeOK
<1>1. Inv => TypeOK
    BY DEF Inv
<1> QED
    BY <1>1, Invariance, PTL

(* Once the user has cut in, nothing of what was under way is heard        *)
(* (speak checks the generation that SpeechStarted and session.interrupt   *)
(* have moved on).                                                         *)
THEOREM BargeInSilences == Spec => NoAudioAfterBargeIn
<1>1. Inv /\ [Next]_vars => [(spoken' \ spoken) \intersect silenced = {}]_vars
  <2> SUFFICES ASSUME Inv, Next PROVE (spoken' \ spoken) \intersect silenced = {}
    OBVIOUS
  <2>1. CASE Client
    BY <2>1 DEF Client, SttReady, SpeechStarted, SpeechEnded, ConfirmSilence, AudioEnd, Interrupt, Disconnect,
               CloseSession, DecideByRest
  <2>2. ASSUME NEW t \in Turns, Run(t) PROVE (spoken' \ spoken) \intersect silenced = {}
    <3>1. spoken' = spoken \/ (spoken' = spoken \union {t} /\ ~Stale(t))
        BY <2>2, RunEffects DEF Inv, Effects
    <3> QED
        BY <3>1 DEF Inv, TurnInv, GenerationInv
  <2>3. ASSUME NEW w \in writes, Land(w) \/ CancelLost(w) PROVE spoken' = spoken
    BY <2>3 DEF Land, CancelLost
  <2> QED
    BY <2>1, <2>2, <2>3 DEF Next
<1> QED
    BY <1>1, Invariance, PTL DEF Spec, NoAudioAfterBargeIn

(* A spoken yes or no decides one action the client was asked about, and   *)
(* no action is decided by two turns (run takes it off the open ones).     *)
THEOREM AnswersAreBound == Spec => []ConfirmationBound
<1>1. Inv => ConfirmationBound
    BY DEF Inv, TurnInv, QuestionInv, ConfirmationBound
<1> QED
    BY <1>1, Invariance, PTL

-------------------------------------------------------------------------------
(* What follows for a client that never sends audio.end                    *)

(* Two replies are never on their way to the speaker at once.              *)
THEOREM OneVoice == ASSUME ~PushToTalk PROVE Spec => []AtMostOneResponse
<1>1. Inv => AtMostOneResponse
  <2> SUFFICES ASSUME Inv PROVE Cardinality(Responding) <= 1
    BY DEF AtMostOneResponse
  <2>1. \A s, t \in Responding : s = t
    BY DEF Inv, HandsFreeInv, UtteranceInv, Responding, Begun
  <2>2. CASE Responding = {}
    BY <2>2, FS_EmptySet
  <2>3. CASE Responding # {}
    <3>1. PICK t \in Responding : Responding = {t}
        BY <2>1, <2>3
    <3>2. Cardinality({t}) = 1
        BY FS_Singleton
    <3> QED
        BY <3>1, <3>2
  <2> QED
    BY <2>2, <2>3
<1> QED
    BY <1>1, Invariance, PTL

(* A turn the user cut off is not shown as completed once its call is over *)
(* and its writes have landed.                                             *)
THEOREM CutOffIsNotCompleted == ASSUME ~PushToTalk PROVE Spec => []SilencedTurnsSettle
<1>1. Inv => SilencedTurnsSettle
    BY DEF Inv, HandsFreeInv, InterruptInv, SilencedTurnsSettle, Cut, Started
<1> QED
    BY <1>1, Invariance, PTL

(* An action the client was asked about is not cancelled by talking over   *)
(* the question.                                                           *)
THEOREM QuestionsSurvive == ASSUME ~PushToTalk PROVE Spec => []AskedActionsSurvive
<1>1. Inv => AskedActionsSurvive
    BY DEF Inv, HandsFreeInv
<1> QED
    BY <1>1, Invariance, PTL

===============================================================================
