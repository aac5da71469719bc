----------------------------- MODULE MCVoiceTurns -----------------------------
(* Small instances of VoiceTurns, and one that starts later.                *)
EXTENDS VoiceTurns

(* The session after its first push-to-talk turn, without a barge-in: the   *)
(* turn proposed an action, the client was asked, and the audio was played. *)
AfterQuestion ==
    /\ state = [generation |-> 1, stt |-> FALSE, sttGeneration |-> 0, speaking |-> FALSE,
                silence |-> FALSE, speech |-> 0, turn |-> NoTurn, msg |-> NoTurn,
                pending |-> NoTurn, tts |-> NoTurn, open |-> {1}, aborted |-> {}]
    /\ flow = [t \in Turns |-> [pc |-> IF t = 1 THEN "done" ELSE "free", gen |-> IF t = 1 THEN 1 ELSE 0,
                                target |-> NoTurn, lost |-> FALSE, adrift |-> FALSE]]
    /\ turnRow = [t \in Turns |-> IF t = 1 THEN "completed" ELSE "none"]
    /\ message = [t \in Turns |-> IF t = 1 THEN "saved" ELSE "none"]
    /\ action = [t \in Turns |-> IF t = 1 THEN "pending" ELSE "none"]
    /\ writes = {} /\ connected = TRUE
    /\ spoken = {1} /\ asked = {1} /\ silenced = {}

TalkSpec == AfterQuestion /\ [][Next]_vars
===============================================================================
