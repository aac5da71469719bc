---------------------------- MODULE VoiceConnection ----------------------------
(***************************************************************************)
(* How sockets attach to voice sessions and how sessions end.              *)
(*   src/voice/voice.gateway.ts          handleConnection, handleMessage,  *)
(*                                       closeSessionSocket                *)
(*   src/voice/voice-session.service.ts  create, transition, end           *)
(*   src/voice/voice.types.ts            VOICE_STATE_TRANSITIONS           *)
(* A call is one message handler or REST request; it runs from await to    *)
(* await, a read and the write that follows it being separate steps. The   *)
(* runtime registry holds a session exactly when the map sockets does.     *)
(***************************************************************************)
EXTENDS Naturals, FiniteSets

CONSTANTS Sessions, Sockets, Calls, Users, NoSession, NoSocket, NoUser

ASSUME ConnectionConstants ==
    NoSession \notin Sessions /\ NoSocket \notin Sockets /\ NoUser \notin Users

VARIABLES
    row,        \* row[s]: the voice_sessions row
    sock,       \* sock[c]: readyState, token user, sessionId of the closure
    sockets,    \* the gateway's map from sessions to sockets
    call,       \* call[h]: the handler in flight
    ended,      \* sessions that end() has ended
    torn        \* sessions whose socket was closed behind an end() that failed

connVars == <<row, sock, sockets, call, ended, torn>>

States == {"created", "listening", "user_speaking", "transcribing", "thinking",
           "assistant_speaking", "interrupted", "paused", "ended", "error"}

(* VOICE_STATE_TRANSITIONS *)
Transitions ==
    [created            |-> {"listening", "ended", "error"},
     listening          |-> {"user_speaking", "paused", "ended", "error"},
     user_speaking      |-> {"transcribing", "listening", "ended", "error"},
     transcribing       |-> {"thinking", "listening", "ended", "error"},
     thinking           |-> {"assistant_speaking", "listening", "ended", "error"},
     assistant_speaking |-> {"listening", "interrupted", "ended", "error"},
     interrupted        |-> {"listening", "user_speaking", "ended", "error"},
     paused             |-> {"listening", "ended", "error"},
     ended              |-> {},
     error              |-> {"listening", "ended"}]

Idle == [pc |-> "idle", op |-> "none", user |-> NoUser, socket |-> NoSocket,
         session |-> NoSession, seen |-> "none", to |-> "none"]

ConnTypeOK ==
    /\ row \in [Sessions -> [status : States \union {"none"}, user : Users \union {NoUser}]]
    /\ sock \in [Sockets -> [phase : {"new", "open", "closing", "closed"},
                             user : Users \union {NoUser},
                             session : Sessions \union {NoSession}]]
    /\ sockets \in [Sessions -> Sockets \union {NoSocket}]
    /\ call \in [Calls -> [pc : {"idle", "load", "attach", "check", "write", "own", "end",
                                 "notify", "close"},
                           op : {"none", "start", "state", "end", "rest"},
                           user : Users \union {NoUser}, socket : Sockets \union {NoSocket},
                           session : Sessions \union {NoSession},
                           seen : States \union {"none"}, to : States \union {"none"}]]
    /\ ended \subseteq Sessions /\ torn \subseteq Sessions

ConnInit ==
    /\ row = [s \in Sessions |-> [status |-> "none", user |-> NoUser]]
    /\ sock = [c \in Sockets |-> [phase |-> "new", user |-> NoUser, session |-> NoSession]]
    /\ sockets = [s \in Sessions |-> NoSocket]
    /\ call = [h \in Calls |-> Idle]
    /\ ended = {} /\ torn = {}

-------------------------------------------------------------------------------
(* A socket delivers messages until its close event. *)
Receives(c) == sock[c].phase \in {"open", "closing"}

Close(c) == sock' = [sock EXCEPT ![c].phase = IF @ = "open" THEN "closing" ELSE @]

Begin(h, r) == call[h].pc = "idle" /\ call' = [call EXCEPT ![h] = r]

Return(h) == call' = [call EXCEPT ![h] = Idle]

Step(h, p) == call' = [call EXCEPT ![h].pc = p]

(* POST /voice/sessions *)
Create(s, u) ==
    /\ row[s].status = "none"
    /\ row' = [row EXCEPT ![s] = [status |-> "created", user |-> u]]
    /\ UNCHANGED <<sock, sockets, call, ended, torn>>

(* A connection whose token was accepted; the others are closed at once. *)
Connect(c, u) ==
    /\ sock[c].phase = "new"
    /\ sock' = [sock EXCEPT ![c].phase = "open", ![c].user = u]
    /\ UNCHANGED <<row, sockets, call, ended, torn>>

(* The idle timer, the server's own close() or the client's. *)
IdleTimeout(c) ==
    /\ sock[c].phase = "open" /\ Close(c)
    /\ UNCHANGED <<row, sockets, call, ended, torn>>

(* The close event: the entry of the closure's session goes, whoever it is. *)
SocketClosed(c) ==
    /\ Receives(c)
    /\ sock' = [sock EXCEPT ![c].phase = "closed"]
    /\ sockets' = [s \in Sessions |-> IF s = sock[c].session THEN NoSocket ELSE sockets[s]]
    /\ UNCHANGED <<row, call, ended, torn>>

-------------------------------------------------------------------------------
(* session.start *)

StartSession(h, c, s) ==
    /\ Receives(c)
    /\ Begin(h, [Idle EXCEPT !.pc = "load", !.op = "start", !.user = sock[c].user,
                             !.socket = c, !.session = s])
    /\ UNCHANGED <<row, sock, sockets, ended, torn>>

LoadSession(h) ==
    /\ call[h].pc = "load"
    /\ call' = [call EXCEPT ![h].pc = "attach", ![h].seen = row[call[h].session].status]
    /\ UNCHANGED <<row, sock, sockets, ended, torn>>

(* The checks behind the read. The session may be past its two hours. *)
Refuse(h) ==
    /\ call[h].pc = "attach"
    /\ Close(call[h].socket) /\ Return(h)
    /\ UNCHANGED <<row, sockets, ended, torn>>

Admissible(h) ==
    /\ call[h].seen # "none"
    /\ row[call[h].session].user = call[h].user

(* Mutant: the second-socket check is missing. *)
AttachUnchecked(h) ==
    /\ call[h].pc = "attach" /\ Admissible(h)
    /\ sock' = [sock EXCEPT ![call[h].socket].session = call[h].session]
    /\ sockets' = [sockets EXCEPT ![call[h].session] = call[h].socket]
    /\ Return(h)
    /\ UNCHANGED <<row, ended, torn>>

(* Registered, then moved to listening unless the read said so already. *)
Attach(h) ==
    /\ call[h].pc = "attach" /\ Admissible(h)
    /\ sockets[call[h].session] = NoSocket
    /\ sock' = [sock EXCEPT ![call[h].socket].session = call[h].session]
    /\ sockets' = [sockets EXCEPT ![call[h].session] = call[h].socket]
    /\ \/ call[h].seen = "listening" /\ Return(h)
       \/ /\ call[h].seen # "listening"
          /\ call' = [call EXCEPT ![h].pc = "check", ![h].to = "listening"]
    /\ UNCHANGED <<row, ended, torn>>

-------------------------------------------------------------------------------
(* VoiceSessionService.transition: a read, then an unconditional update.   *)

(* session.pause, session.resume and what the turns of the session ask. *)
Requested == {"paused", "listening", "transcribing", "thinking", "assistant_speaking",
              "interrupted"}

ChangeState(h, c, to) ==
    /\ Receives(c) /\ sock[c].session # NoSession
    /\ Begin(h, [Idle EXCEPT !.pc = "check", !.op = "state", !.socket = c,
                             !.session = sock[c].session, !.to = to])
    /\ UNCHANGED <<row, sock, sockets, ended, torn>>

(* Mutant: the table is not consulted. *)
CheckTransitionNever(h) ==
    /\ call[h].pc = "check" /\ Step(h, "write")
    /\ UNCHANGED <<row, sock, sockets, ended, torn>>

CheckTransition(h) ==
    /\ call[h].pc = "check"
    /\ LET from == row[call[h].session].status
       IN  \/ call[h].to \in Transitions[from] /\ Step(h, "write")
           \/ call[h].to \notin Transitions[from] /\ Return(h)
    /\ UNCHANGED <<row, sock, sockets, ended, torn>>

WriteTransition(h) ==
    /\ call[h].pc = "write"
    /\ row' = [row EXCEPT ![call[h].session].status = call[h].to]
    /\ Return(h)
    /\ UNCHANGED <<sock, sockets, ended, torn>>

-------------------------------------------------------------------------------
(* VoiceSessionService.end, from session.end or POST sessions/:id/end *)

EndBySocket(h, c) ==
    /\ Receives(c) /\ sock[c].session # NoSession
    /\ Begin(h, [Idle EXCEPT !.pc = "own", !.op = "end", !.user = sock[c].user,
                             !.socket = c, !.session = sock[c].session])
    /\ UNCHANGED <<row, sock, sockets, ended, torn>>

EndByRest(h, s, u) ==
    /\ Begin(h, [Idle EXCEPT !.pc = "own", !.op = "rest", !.user = u, !.session = s])
    /\ UNCHANGED <<row, sock, sockets, ended, torn>>

(* end() is over, it may have failed: session.end goes on to tear the      *)
(* socket down, whatever happened.                                         *)
AfterEnd(h) == IF call[h].op = "end" THEN Step(h, "close") ELSE Return(h)

(* getOwned, and nothing to do for a session already ended. *)
ReadOwned(h) ==
    /\ call[h].pc = "own"
    /\ LET r == row[call[h].session]
       IN  \/ (r.user # call[h].user \/ r.status = "ended") /\ AfterEnd(h)
           \/ r.user = call[h].user /\ r.status # "ended" /\ Step(h, "end")
    /\ UNCHANGED <<row, sock, sockets, ended, torn>>

WriteEnded(h) ==
    /\ call[h].pc = "end"
    /\ row' = [row EXCEPT ![call[h].session].status = "ended"]
    /\ ended' = ended \union {call[h].session}
    /\ Step(h, "notify")
    /\ UNCHANGED <<sock, sockets, torn>>

(* closeSessionSocket: say so on the socket, close it and unregister it. *)
CloseSessionSocket(s) ==
    /\ \/ sockets[s] = NoSocket /\ UNCHANGED sock
       \/ sockets[s] # NoSocket /\ Close(sockets[s])
    /\ sockets' = [sockets EXCEPT ![s] = NoSocket]

NotifyEnded(h) ==
    /\ call[h].pc \in {"notify", "close"}
    /\ LET s == call[h].session
       IN  /\ CloseSessionSocket(s)
           /\ torn' = IF s \in ended \/ sockets[s] = NoSocket THEN torn ELSE torn \union {s}
    /\ IF call[h].pc = "notify" THEN AfterEnd(h) ELSE Return(h)
    /\ UNCHANGED <<row, ended>>

(* A read or an update fails. What becomes of end() is swallowed for a     *)
(* socket and answered for a request; the other handlers stop there.       *)
DatabaseFails(h) ==
    /\ \/ call[h].pc \in {"load", "check", "write"} /\ Return(h)
       \/ call[h].pc \in {"own", "end"} /\ AfterEnd(h)
    /\ UNCHANGED <<row, sock, sockets, ended, torn>>

Handle(h) ==
    \/ LoadSession(h) \/ Refuse(h) \/ Attach(h) \/ CheckTransition(h) \/ WriteTransition(h)
    \/ ReadOwned(h) \/ WriteEnded(h) \/ NotifyEnded(h) \/ DatabaseFails(h)

ConnNext ==
    \/ \E s \in Sessions, u \in Users : Create(s, u)
    \/ \E c \in Sockets, u \in Users : Connect(c, u)
    \/ \E c \in Sockets : IdleTimeout(c) \/ SocketClosed(c)
    \/ \E h \in Calls, c \in Sockets, s \in Sessions : StartSession(h, c, s)
    \/ \E h \in Calls, c \in Sockets, to \in Requested : ChangeState(h, c, to)
    \/ \E h \in Calls, c \in Sockets : EndBySocket(h, c)
    \/ \E h \in Calls, s \in Sessions, u \in Users : EndByRest(h, s, u)
    \/ \E h \in Calls : Handle(h)

ConnSpec == ConnInit /\ [][ConnNext]_connVars

-------------------------------------------------------------------------------
(* Properties *)

Attached(s) == {c \in Sockets : sock[c].phase = "open" /\ sock[c].session = s}

(* A session has one live socket at most, although every session.start     *)
(* decides on what it read before an await, until it is ended or its       *)
(* socket is closed behind an end() that failed.                           *)
OneSocketPerSession == \A s \in Sessions \ (ended \union torn) : Cardinality(Attached(s)) <= 1

(* A socket only ever serves sessions of the user its token names. *)
OnlyOwnerAttached ==
    \A c \in Sockets : sock[c].session # NoSession => row[sock[c].session].user = sock[c].user

(* What every message handler and request leaves true of sockets. *)
ConnSafe == ConnTypeOK /\ OneSocketPerSession /\ OnlyOwnerAttached

(* While the session is not ended by the user, its status moves only along *)
(* the table, whatever the order of concurrent reads and writes.           *)
LegalUntilEnded ==
    [][\A s \in Sessions \ ended' :
        row'[s].status = row[s].status \/ row[s].status = "none"
            \/ row'[s].status \in Transitions[row[s].status]]_connVars

-------------------------------------------------------------------------------
(* Why they hold.                                                          *)

(* Nobody asks for user_speaking, so a session never leaves the four states*)
(* of its start, its pauses and its end; the turns' own requests are all   *)
(* refused by the table.                                                   *)
StatusInv == \A s \in Sessions :
    /\ row[s].status \in {"none", "created", "listening", "paused", "ended"}
    /\ row[s].status = "none" => row[s].user = NoUser
    /\ row[s].status = "ended" => s \in ended

(* A socket with a session serves its owner and is the one the map names,  *)
(* until the session ends or its socket is torn down.                      *)
SocketInv == \A c \in Sockets :
    /\ sock[c].phase = "new" => sock[c].session = NoSession
    /\ sock[c].phase # "new" => sock[c].user \in Users
    /\ sock[c].session # NoSession => row[sock[c].session].user = sock[c].user
    /\ Receives(c) /\ sock[c].session \in Sessions \ (ended \union torn) => sockets[sock[c].session] = c

(* What a handler has read stays true until it writes: the owner of the    *)
(* session and of the socket, and that a pause follows listening.          *)
HandlerInv == \A h \in Calls : call[h].pc # "idle" =>
    /\ call[h].session \in Sessions
    /\ call[h].pc \in {"load", "attach"} =>
        /\ call[h].socket \in Sockets /\ sock[call[h].socket].phase # "new"
        /\ call[h].user = sock[call[h].socket].user
        /\ call[h].pc = "attach" /\ call[h].seen # "none" => row[call[h].session].status # "none"
    /\ call[h].pc \in {"check", "write"} => row[call[h].session].status # "none"
    /\ call[h].pc = "check" => call[h].to \in Requested
    /\ call[h].pc = "write" => /\ call[h].to \in {"listening", "paused"}
                               /\ call[h].to = "paused" => row[call[h].session].status # "created"
    /\ call[h].pc \in {"own", "end"} => /\ call[h].user \in Users
                                        /\ call[h].op = "end" \/ call[h].pc = "end"
                                              => row[call[h].session].user = call[h].user
    /\ call[h].pc = "notify" => call[h].session \in ended

ConnInv == StatusInv /\ SocketInv /\ HandlerInv

-------------------------------------------------------------------------------
(* What the documents say and the code does not keep: no run checks these; *)
(* README.md tells how each of them fails.                                 *)

(* Ended, torn down or not, a session has one live socket at most. *)
SecondSocketRejected == \A s \in Sessions : Cardinality(Attached(s)) <= 1

(* Nothing leads out of ended. *)
EndedIsFinal == [][\A s \in Sessions : row[s].status = "ended" => row'[s].status = "ended"]_connVars

(* Once every call that ends it has returned, an ended session has no      *)
(* socket.                                                                 *)
NoSocketOnEnded ==
    \A s \in Sessions :
        row[s].status = "ended" /\ (\A h \in Calls : call[h].session = s => call[h].pc = "idle")
            => sockets[s] = NoSocket

(* The map never keeps a closed socket: a session whose connection dropped *)
(* can be connected again.                                                 *)
DroppedCanReconnect == \A s \in Sessions : sockets[s] # NoSocket => sock[sockets[s]].phase # "closed"

(* A socket is registered for one session at a time. *)
OneSessionPerSocket == \A c \in Sockets : Cardinality({s \in Sessions : sockets[s] = c}) <= 1
===============================================================================
