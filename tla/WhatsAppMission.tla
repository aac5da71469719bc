---------------------------- MODULE WhatsAppMission ----------------------------
(***************************************************************************)
(* Goal-driven conversations with one contact.                             *)
(*   src/whatsapp/whatsapp-mission.service.ts   start, onInbound, runTurn, *)
(*                                              cancel, sweep, finish      *)
(*   src/whatsapp/whatsapp-mission.processor.ts one worker, concurrency 1  *)
(*   src/whatsapp/whatsapp-message.service.ts   ingestInbound,             *)
(*                                              sendAndPersist             *)
(*   src/whatsapp/whatsapp-webhook.controller.ts                           *)
(* Everything happens in one conversation. Texts, findings and reports are *)
(* left out; what the model answers is any of the cases the code tells     *)
(* apart. A turn job carries the id of the message that queued it.         *)
(***************************************************************************)
EXTENDS Naturals, FiniteSets

CONSTANTS Missions, Messages, Hooks, Cancels, Worker,
          NoMission, NoMessage,
          MaxMessages,  \* MISSION_MAX_MESSAGES
          Attempts,     \* attempts of a turn job
          Faulty,       \* the awaited calls that may fail
          MaxFaults     \* bound on failures

Actors == {Worker} \union Cancels
Steps == {"llm", "send", "persist", "count", "finish", "close", "report", "queue", "record"}

ASSUME MissionConstants ==
    /\ NoMission \notin Missions /\ NoMessage \notin Messages /\ Worker \notin Cancels
    /\ IsFiniteSet(Cancels) /\ MaxMessages \in Nat \ {0} /\ Attempts \in Nat \ {0} /\ MaxFaults \in Nat
    /\ Faulty \subseteq Steps

VARIABLES
    mission,    \* mission[m]: status and messagesSent of its row
    overdue,    \* missions whose deadlineAt has passed
    starting,   \* starting[m]: where the start() call stands
    stored,     \* inbound messages with a row (unique providerMessageId)
    hook,       \* hook[d]: a webhook delivery
    job,        \* job[x]: the turn job queued for message x
    act,        \* act[a]: the worker's job, or a cancel() call
    sent,       \* sent[m]: messages the contact received on its behalf
    booked,     \* booked[m]: reminders created for its appointment
    told,       \* told[m]: notifications about its end
    faults

vars == <<mission, overdue, starting, stored, hook, job, act, sent, booked, told, faults>>
world == <<sent, booked, told>>

Idle == [pc |-> "idle", mission |-> NoMission, seen |-> 0, why |-> "none",
         job |-> NoMessage, list |-> {}]
Endings == {"completed", "limit_reached", "error", "cancelled"}

TypeOK ==
    /\ mission \in [Missions -> [status : {"none", "active", "done", "stopped"},
                                 count : 0..MaxMessages]]
    /\ overdue \subseteq Missions
    /\ starting \in [Missions -> {"none", "send", "record", "returned", "thrown"}]
    /\ stored \subseteq Messages
    /\ hook \in [Hooks -> [pc : {"idle", "look", "store", "queue", "returned"},
                           message : Messages \union {NoMessage}]]
    /\ job \in [Messages -> [state : {"none", "waiting", "active", "gone"}, made : 0..Attempts,
                             queued : Nat]]
    /\ act \in [Actors -> [pc : {"idle", "find", "llm", "send", "persist", "count",
                                 "finish", "book", "close", "report"},
                           mission : Missions \union {NoMission}, seen : 0..MaxMessages,
                           why : Endings \union {"none"},
                           job : Messages \union {NoMessage}, list : SUBSET Missions]]
    /\ sent \in [Missions -> Nat] /\ booked \in [Missions -> Nat] /\ told \in [Missions -> Nat]
    /\ faults \in 0..MaxFaults

Init ==
    /\ mission = [m \in Missions |-> [status |-> "none", count |-> 0]]
    /\ overdue = {}
    /\ starting = [m \in Missions |-> "none"]
    /\ stored = {}
    /\ hook = [d \in Hooks |-> [pc |-> "idle", message |-> NoMessage]]
    /\ job = [x \in Messages |-> [state |-> "none", made |-> 0, queued |-> 0]]
    /\ act = [a \in Actors |-> Idle]
    /\ sent = [m \in Missions |-> 0]
    /\ booked = [m \in Missions |-> 0]
    /\ told = [m \in Missions |-> 0]
    /\ faults = 0

Active == {m \in Missions : mission[m].status = "active"}

Fault(step) == step \in Faulty /\ faults < MaxFaults /\ faults' = faults + 1

Goto(a, p) == act' = [act EXCEPT ![a].pc = p]

-------------------------------------------------------------------------------
(* start(), behind the confirmed tool call: look, send, record *)

StartMission(m) ==
    /\ starting[m] = "none"
    /\ starting' = [starting EXCEPT ![m] = IF Active # {} THEN "thrown" ELSE "send"]
    /\ UNCHANGED <<mission, overdue, stored, hook, job, act, world, faults>>

SendOpening(m) ==
    /\ starting[m] = "send"
    /\ starting' = [starting EXCEPT ![m] = "record"]
    /\ sent' = [sent EXCEPT ![m] = @ + 1]
    /\ UNCHANGED <<mission, overdue, stored, hook, job, act, booked, told, faults>>

RecordMission(m) ==
    /\ starting[m] = "record"
    /\ starting' = [starting EXCEPT ![m] = "returned"]
    /\ mission' = [mission EXCEPT ![m] = [status |-> "active", count |-> 1]]
    /\ UNCHANGED <<overdue, stored, hook, job, act, world, faults>>

StartThrows(m) ==
    /\ starting[m] \in {"send", "record"} /\ Fault(starting[m])
    /\ starting' = [starting EXCEPT ![m] = "thrown"]
    /\ UNCHANGED <<mission, overdue, stored, hook, job, act, world>>

DeadlinePasses(m) ==
    /\ m \in Active \ overdue
    /\ overdue' = overdue \union {m}
    /\ UNCHANGED <<mission, starting, stored, hook, job, act, world, faults>>

-------------------------------------------------------------------------------
(* A webhook delivery; Evolution may deliver a message more than once *)

Deliver(d, x) ==
    /\ hook[d].pc = "idle"
    /\ hook' = [hook EXCEPT ![d] = [pc |-> "look", message |-> x]]
    /\ UNCHANGED <<mission, overdue, starting, stored, job, act, world, faults>>

(* A message already stored, or one from a blocked contact, ends here. *)
LookForDuplicate(d) ==
    /\ hook[d].pc = "look"
    /\ \/ hook' = [hook EXCEPT ![d].pc = "returned"]
       \/ /\ hook[d].message \notin stored
          /\ hook' = [hook EXCEPT ![d].pc = "store"]
    /\ UNCHANGED <<mission, overdue, starting, stored, job, act, world, faults>>

(* Mutant: no unique constraint behind the look. *)
StoreInboundTwice(d) ==
    /\ hook[d].pc = "store"
    /\ hook' = [hook EXCEPT ![d].pc = "queue"]
    /\ stored' = stored \union {hook[d].message}
    /\ UNCHANGED <<mission, overdue, starting, job, act, world, faults>>

(* The insert; the unique key on providerMessageId makes a second one throw. *)
StoreInbound(d) ==
    /\ hook[d].pc = "store"
    /\ hook' = [hook EXCEPT ![d].pc = IF hook[d].message \in stored THEN "returned" ELSE "queue"]
    /\ stored' = stored \union {hook[d].message}
    /\ UNCHANGED <<mission, overdue, starting, job, act, world, faults>>

(* onInbound *)
QueueTurn(d) ==
    /\ hook[d].pc = "queue"
    /\ hook' = [hook EXCEPT ![d].pc = "returned"]
    /\ job' = IF Active = {} THEN job
              ELSE [job EXCEPT ![hook[d].message] = [state |-> "waiting", made |-> 0,
                                                     queued |-> @.queued + 1]]
    /\ UNCHANGED <<mission, overdue, starting, stored, act, world, faults>>

HookThrows(d) ==
    /\ hook[d].pc = "queue" /\ Fault("queue")
    /\ hook' = [hook EXCEPT ![d].pc = "returned"]
    /\ UNCHANGED <<mission, overdue, starting, stored, job, act, world>>

-------------------------------------------------------------------------------
(* The worker: one job at a time *)

TakeJob(x) ==
    /\ act[Worker].pc = "idle" /\ job[x].state = "waiting"
    /\ act' = [act EXCEPT ![Worker] = [Idle EXCEPT !.pc = "find", !.job = x]]
    /\ job' = [job EXCEPT ![x].state = "active"]
    /\ UNCHANGED <<mission, overdue, starting, stored, hook, world, faults>>

(* What is left of a job or call when finish() returns: a sweep goes on    *)
(* with its next mission.                                                  *)
Over(a) ==
    /\ act' = [act EXCEPT ![a] =
            IF @.list = {} THEN Idle
            ELSE LET m == CHOOSE n \in @.list : TRUE
                 IN  [@ EXCEPT !.pc = "finish", !.mission = m, !.list = act[a].list \ {m}]]
    /\ job' = IF act[a].job = NoMessage THEN job ELSE [job EXCEPT ![act[a].job].state = "gone"]

Conclude(a, why) == act' = [act EXCEPT ![a].pc = "finish", ![a].why = why]

(* The limits looked at before every turn. *)
Spent(m) == m \in overdue \/ mission[m].count >= MaxMessages

(* runTurn reads the mission: none is active, a limit is reached, or ask. *)
FindMission ==
    /\ act[Worker].pc = "find"
    /\ \/ Active = {} /\ Over(Worker)
       \/ \E m \in Active :
            act' = [act EXCEPT ![Worker].mission = m, ![Worker].seen = mission[m].count,
                               ![Worker].pc = IF Spent(m) THEN "finish" ELSE "llm",
                               ![Worker].why = IF Spent(m) THEN "limit_reached" ELSE "none"]
          /\ UNCHANGED job
    /\ UNCHANGED <<mission, overdue, starting, stored, hook, world, faults>>

(* The model answered: unusable, done or not done, with a reply or not. *)
ModelAnswers ==
    /\ act[Worker].pc = "llm"
    /\ \/ Conclude(Worker, "error")
       \/ \E why \in {"none", "completed"} :
            act' = [act EXCEPT ![Worker].pc = "send", ![Worker].why = why]
       \/ Conclude(Worker, "completed")
       \/ Goto(Worker, "count")
    /\ UNCHANGED <<mission, overdue, starting, stored, hook, job, world, faults>>

(* sendAndPersist: the provider has the message before there is a row. *)
SendReply ==
    /\ act[Worker].pc = "send"
    /\ sent' = [sent EXCEPT ![act[Worker].mission] = @ + 1]
    /\ Goto(Worker, "persist")
    /\ UNCHANGED <<mission, overdue, starting, stored, hook, job, booked, told, faults>>

PersistReply ==
    /\ act[Worker].pc = "persist"
    /\ IF act[Worker].why = "completed" THEN Goto(Worker, "finish")
       ELSE act' = [act EXCEPT ![Worker].pc = "count", ![Worker].seen = @ + 1]
    /\ UNCHANGED <<mission, overdue, starting, stored, hook, job, world, faults>>

(* Mutant: the reply is not added to messagesSent. *)
CountMessagesForgotten ==
    /\ act[Worker].pc = "count" /\ Over(Worker)
    /\ UNCHANGED <<mission, overdue, starting, stored, hook, world, faults>>

(* messagesSent is written from the value read at the start of the turn. *)
CountMessages ==
    /\ act[Worker].pc = "count"
    /\ mission' = [mission EXCEPT ![act[Worker].mission].count = act[Worker].seen]
    /\ \/ act[Worker].seen < MaxMessages /\ Over(Worker)
       \/ act[Worker].seen >= MaxMessages /\ Conclude(Worker, "limit_reached") /\ UNCHANGED job
    /\ UNCHANGED <<overdue, starting, stored, hook, world, faults>>

(* Mutant: the sweep finds nothing. *)
SweepNothing ==
    /\ act[Worker].pc = "idle"
    /\ UNCHANGED vars

(* sweep(): the overdue missions, finished one after the other. *)
Sweep ==
    /\ act[Worker].pc = "idle" /\ overdue \intersect Active # {}
    /\ \E m \in overdue \intersect Active :
        act' = [act EXCEPT ![Worker] =
            [Idle EXCEPT !.pc = "finish", !.mission = m, !.why = "limit_reached",
                         !.list = (overdue \intersect Active) \ {m}]]
    /\ UNCHANGED <<mission, overdue, starting, stored, hook, job, world, faults>>

Cancel(k) ==
    /\ act[k].pc = "idle"
    /\ \E m \in Active : act' = [act EXCEPT ![k] = [Idle EXCEPT !.pc = "finish", !.mission = m,
                                                                !.why = "cancelled"]]
    /\ UNCHANGED <<mission, overdue, starting, stored, hook, job, world, faults>>

-------------------------------------------------------------------------------
(* finish() *)

(* A confirmed future date is booked; the mission must still be active. *)
ReadForFinish(a) ==
    /\ act[a].pc = "finish"
    /\ LET m == act[a].mission
       IN  \/ m \notin Active /\ Over(a)
           \/ m \in Active /\ Goto(a, "close") /\ UNCHANGED job
           \/ m \in Active /\ act[a].why = "completed" /\ Goto(a, "book") /\ UNCHANGED job
    /\ UNCHANGED <<mission, overdue, starting, stored, hook, world, faults>>

(* reminders.create(), whose failure is only logged. *)
BookReminder(a) ==
    /\ act[a].pc = "book"
    /\ \/ booked' = [booked EXCEPT ![act[a].mission] = @ + 1]
       \/ UNCHANGED booked
    /\ Goto(a, "close")
    /\ UNCHANGED <<mission, overdue, starting, stored, hook, job, sent, told, faults>>

(* Mutant: only a completed mission is closed. *)
CloseCompletedOnly(a) ==
    /\ act[a].pc = "close"
    /\ mission' = IF act[a].why = "completed" THEN [mission EXCEPT ![act[a].mission].status = "done"] ELSE mission
    /\ Goto(a, "report")
    /\ UNCHANGED <<overdue, starting, stored, hook, job, world, faults>>

(* The update does not look at the status again. *)
CloseMission(a) ==
    /\ act[a].pc = "close"
    /\ mission' = [mission EXCEPT ![act[a].mission].status =
                        IF act[a].why = "completed" THEN "done" ELSE "stopped"]
    /\ Goto(a, "report")
    /\ UNCHANGED <<overdue, starting, stored, hook, job, world, faults>>

(* Mutant: the user is not told. *)
ReportSkipped(a) ==
    /\ act[a].pc = "report" /\ Over(a)
    /\ UNCHANGED <<mission, overdue, starting, stored, hook, world, faults>>

Report(a) ==
    /\ act[a].pc = "report" /\ Over(a)
    /\ told' = [told EXCEPT ![act[a].mission] = @ + 1]
    /\ UNCHANGED <<mission, overdue, starting, stored, hook, sent, booked, faults>>

(* A call fails: a turn job is tried again, anything else is given up. *)
Throws(a) ==
    /\ act[a].pc # "idle" /\ Fault(act[a].pc)
    /\ act' = [act EXCEPT ![a] = Idle]
    /\ LET x == act[a].job
       IN  job' = IF x = NoMessage THEN job
                  ELSE [job EXCEPT ![x].made = @ + 1,
                                   ![x].state = IF job[x].made + 1 < Attempts THEN "waiting" ELSE "gone"]
    /\ UNCHANGED <<mission, overdue, starting, stored, hook, world>>

Turn == FindMission \/ ModelAnswers \/ SendReply \/ PersistReply \/ CountMessages

Finish(a) == ReadForFinish(a) \/ BookReminder(a) \/ CloseMission(a) \/ Report(a)

Start(m) == SendOpening(m) \/ RecordMission(m)

Hook(d) == LookForDuplicate(d) \/ StoreInbound(d) \/ QueueTurn(d)

Next ==
    \/ \E m \in Missions : StartMission(m) \/ Start(m) \/ StartThrows(m) \/ DeadlinePasses(m)
    \/ \E d \in Hooks : (\E x \in Messages : Deliver(d, x)) \/ Hook(d) \/ HookThrows(d)
    \/ \E x \in Messages : TakeJob(x)
    \/ Turn \/ Sweep
    \/ \E k \in Cancels : Cancel(k)
    \/ \E a \in Actors : Finish(a) \/ Throws(a)

Spec == Init /\ [][Next]_vars

(* Calls return, the deadline comes, and an idle worker gets the sweep its *)
(* scheduler repeats. Contacts and users may stay silent.                  *)
Fairness ==
    /\ \A m \in Missions : WF_vars(Start(m)) /\ WF_vars(DeadlinePasses(m))
    /\ WF_vars(Turn) /\ WF_vars(Sweep)
    /\ \A a \in Actors : WF_vars(Finish(a))

-------------------------------------------------------------------------------
(* Properties *)

(* The contact never receives more than MISSION_MAX_MESSAGES messages, the *)
(* opening and the closing ones included, although jobs fail and are tried *)
(* again (unless they fail between a send and the update that counts it).  *)
MessagesBounded == \A m \in Missions : sent[m] <= MaxMessages

(* A message delivered several times by the webhook, at the same time or   *)
(* later, is answered by one turn.                                         *)
OneTurnPerMessage == \A x \in Messages : job[x].queued <= 1

(* A cancellation, the sweep and a turn may finish the same mission: there *)
(* are no more reports than actors, and none about a mission that goes on. *)
ReportsAfterTheEnd ==
    \A m \in Missions : /\ told[m] <= Cardinality(Actors)
                        /\ m \in Active => told[m] = 0

(* What holds of the missions whatever fails. *)
MissionSafe == OneTurnPerMessage /\ ReportsAfterTheEnd

(* Every mission ends, even if the contact never answers. *)
MissionsEnd == \A m \in Missions : m \in Active ~> m \notin Active

(* The end of a mission is reported to its user. *)
EndIsReported ==
    \A m \in Missions : mission[m].status \in {"done", "stopped"} ~> told[m] > 0

-------------------------------------------------------------------------------
(* Why the bounds hold.                                                    *)

(* The failures the bound on messages needs to stay away: those between a  *)
(* send and the update that counts it or that ends the mission.            *)
SendsAreCounted == Faulty \intersect {"persist", "count", "finish", "close"} = {}

(* A mission has a row once start() has sent its opening and recorded it.  *)
StartInv == \A m \in Missions :
    /\ starting[m] = "returned" <=> mission[m].status # "none"
    /\ starting[m] \in {"none", "send"} => sent[m] = 0
    /\ starting[m] \in {"record", "thrown"} => sent[m] <= 1

(* What an actor works on has a row; what it reports has ended. A turn has *)
(* room for a reply. Only the worker runs jobs, none beyond its attempts.  *)
ActorInv ==
    /\ \A a \in Actors :
        /\ act[a].pc \notin {"idle", "find"} =>
              act[a].mission \in Missions /\ mission[act[a].mission].status # "none"
        /\ act[a].pc = "report" => act[a].mission \notin Active
        /\ \A m \in act[a].list : mission[m].status # "none"
        /\ act[a].job # NoMessage => job[act[a].job].made < Attempts
    /\ act[Worker].pc \in {"llm", "send", "persist"} => act[Worker].seen < MaxMessages
    /\ \A k \in Cancels : act[k].job = NoMessage /\ act[k].pc \in {"idle", "finish", "book", "close", "report"}
    /\ \A x \in Messages : job[x].state # "gone" => job[x].made < Attempts

(* Between turns the count of an active mission covers what was sent; in a *)
(* turn the value read at its start does.                                  *)
SendInv ==
    LET w == act[Worker]
    IN  /\ \A m \in Active :
              \/ sent[m] <= mission[m].count
              \/ w.mission = m /\ w.pc \in {"persist", "count", "finish", "book", "close"}
        /\ w.pc \in {"llm", "send", "count"} => sent[w.mission] <= w.seen
        /\ w.pc = "persist" => sent[w.mission] <= w.seen + 1

(* Once a mission has ended nobody starts to finish it, so the reports and *)
(* the actors still on their way to one do not outgrow the actors.         *)
Finishing(m) == {a \in Actors : act[a].mission = m /\ act[a].pc \in {"book", "close", "report"}}
ReportInv == \A m \in Missions :
    /\ mission[m].status \in {"none", "active"} => told[m] = 0
    /\ told[m] + Cardinality(Finishing(m)) <= Cardinality(Actors)

(* Of the deliveries of a message one stores it, and only that one queues. *)
HookInv ==
    /\ \A x \in Messages : job[x].queued <= 1 /\ (job[x].queued = 1 => x \in stored)
    /\ \A d \in Hooks : hook[d].pc \in {"look", "store", "queue"} => hook[d].message \in Messages
    /\ \A d \in Hooks : hook[d].pc = "queue" =>
        /\ hook[d].message \in stored /\ job[hook[d].message].queued = 0
        /\ \A e \in Hooks : hook[e].pc = "queue" /\ hook[e].message = hook[d].message => e = d

-------------------------------------------------------------------------------
(* What the documents say and the code does not keep: no run checks these; *)
(* README.md tells how each of them fails.                                 *)

(* A mission is reported once. *)
ReportedOnce == \A m \in Missions : told[m] <= 1

(* A contact never has two missions at a time. *)
OneMissionPerContact == Cardinality(Active) <= 1

(* A mission that was stopped sends nothing more. *)
StoppedIsSilent ==
    [][\A m \in Missions : mission[m].status \in {"done", "stopped"} => sent'[m] = sent[m]]_vars

(* The agreed appointment is booked once, retries of the job included. *)
BookedOnce == \A m \in Missions : booked[m] <= 1
===============================================================================
