------------------------- MODULE WhatsAppMissionProofs -------------------------
(***************************************************************************)
(* Proofs about WhatsAppMission, for any missions, messages, deliveries    *)
(* and cancellations, any limit, attempts and failures.                    *)
(***************************************************************************)
EXTENDS WhatsAppMission, FiniteSetTheorems, TLAPS

Rows == [status : {"none", "active", "done", "stopped"}, count : 0..MaxMessages]
Deliveries == [pc : {"idle", "look", "store", "queue", "returned"}, message : Messages \union {NoMessage}]
Jobs == [state : {"none", "waiting", "active", "gone"}, made : 0..Attempts, queued : Nat]
Acts == [pc : {"idle", "find", "llm", "send", "persist", "count", "finish", "book", "close", "report"},
         mission : Missions \union {NoMission}, seen : 0..MaxMessages,
         why : Endings \union {"none"},
         job : Messages \union {NoMessage}, list : SUBSET Missions]

(* The part of ActorInv about one actor in state r.                        *)
ActorOK(r) ==
    /\ r.pc \notin {"idle", "find"} => r.mission \in Missions /\ mission[r.mission].status # "none"
    /\ r.pc = "report" => r.mission \notin Active
    /\ \A m \in r.list : mission[m].status # "none"
    /\ r.job # NoMessage => job[r.job].made < Attempts

(* What does not depend on which calls fail, and what does.               *)
MissionInv == StartInv /\ ActorInv /\ HookInv /\ (SendsAreCounted => SendInv /\ MessagesBounded)

Keeps == TypeOK' /\ MissionInv'

LEMMA TypeFacts ==
    ASSUME TypeOK
    PROVE  /\ mission \in [Missions -> Rows] /\ overdue \subseteq Missions
           /\ starting \in [Missions -> {"none", "send", "record", "returned", "thrown"}]
           /\ stored \subseteq Messages /\ hook \in [Hooks -> Deliveries]
           /\ job \in [Messages -> Jobs] /\ act \in [Actors -> Acts]
           /\ sent \in [Missions -> Nat] /\ booked \in [Missions -> Nat] /\ told \in [Missions -> Nat]
           /\ faults \in 0..MaxFaults
           /\ MaxMessages \in Nat \ {0} /\ Attempts \in Nat \ {0} /\ MaxFaults \in Nat
           /\ NoMission \notin Missions /\ NoMessage \notin Messages /\ Worker \notin Cancels
           /\ Worker \in Actors /\ Cancels \subseteq Actors
BY MissionConstants DEF TypeOK, Rows, Deliveries, Jobs, Acts, Actors

LEMMA TypeKept ==
    ASSUME mission' \in [Missions -> Rows], overdue' \subseteq Missions,
           starting' \in [Missions -> {"none", "send", "record", "returned", "thrown"}],
           stored' \subseteq Messages, hook' \in [Hooks -> Deliveries],
           job' \in [Messages -> Jobs], act' \in [Actors -> Acts],
           sent' \in [Missions -> Nat], booked' \in [Missions -> Nat], told' \in [Missions -> Nat],
           faults' \in 0..MaxFaults
    PROVE  TypeOK'
BY DEF TypeOK, Rows, Deliveries, Jobs, Acts

LEMMA FaultCounts ==
    ASSUME TypeOK, NEW step, Fault(step)
    PROVE  step \in Faulty /\ faults' \in 0..MaxFaults
BY TypeFacts DEF Fault

-------------------------------------------------------------------------------
(* start() and the deadline *)

(* A step that works on missions without a row, or on the deadlines.       *)
LEMMA StartMoves ==
    ASSUME TypeOK, MissionInv,
           starting' \in [Missions -> {"none", "send", "record", "returned", "thrown"}],
           mission' \in [Missions -> Rows], sent' \in [Missions -> Nat], overdue' \subseteq Missions,
           faults' \in 0..MaxFaults,
           \A m \in Missions : mission[m].status # "none" => mission'[m] = mission[m] /\ sent'[m] = sent[m],
           \A m \in Missions : mission[m].status = "none" /\ mission'[m].status # "none"
                => sent'[m] <= mission'[m].count,
           SendsAreCounted => \A m \in Missions : sent'[m] <= MaxMessages,
           StartInv',
           UNCHANGED <<stored, hook, job, act, booked, told>>
    PROVE  Keeps
<1>0. /\ mission \in [Missions -> Rows] /\ act \in [Actors -> Acts] /\ Worker \in Actors
      /\ NoMission \notin Missions
    BY TypeFacts
<1>1. TypeOK'
    BY TypeFacts, TypeKept
<1>2. ActorInv'
  <2>1. ASSUME NEW a \in Actors PROVE ActorOK(act[a])'
    BY <1>0 DEF MissionInv, ActorInv, ActorOK, Active, Acts
  <2> QED
    BY <2>1 DEF MissionInv, ActorInv, ActorOK
<1>3. ASSUME SendsAreCounted PROVE SendInv'
  <2> DEFINE w == act[Worker]
  <2>1. act'[Worker] = w /\ w \in Acts
    BY <1>0
  <2>2. w.pc \notin {"idle", "find"} => w.mission \in Missions /\ sent'[w.mission] = sent[w.mission]
    BY <1>0 DEF MissionInv, ActorInv
  <2>3. ASSUME NEW m \in Missions, mission'[m].status = "active"
        PROVE  \/ sent'[m] <= mission'[m].count
               \/ w.mission = m /\ w.pc \in {"persist", "count", "finish", "book", "close"}
    <3>1. CASE mission[m].status = "none"
        BY <2>3, <3>1
    <3>2. CASE mission[m].status # "none"
        BY <1>3, <2>3, <3>2 DEF MissionInv, SendInv, Active
    <3> QED
        BY <3>1, <3>2
  <2> HIDE DEF w
  <2>4. /\ w.pc \in {"llm", "send", "count"} => sent[w.mission] <= w.seen
        /\ w.pc = "persist" => sent[w.mission] <= w.seen + 1
    BY <1>3 DEF MissionInv, SendInv, w
  <2> QED
    BY <2>1, <2>2, <2>3, <2>4 DEF SendInv, Active
<1>4. HookInv' /\ (SendsAreCounted => MessagesBounded')
    BY DEF MissionInv, HookInv, MessagesBounded
<1> QED
    BY <1>1, <1>2, <1>3, <1>4 DEF Keeps, MissionInv

LEMMA StartKeeps ==
    ASSUME TypeOK, MissionInv, NEW m \in Missions,
           StartMission(m) \/ Start(m) \/ StartThrows(m) \/ DeadlinePasses(m)
    PROVE  Keeps
<1>0. /\ mission \in [Missions -> Rows] /\ sent \in [Missions -> Nat] /\ overdue \subseteq Missions
      /\ starting \in [Missions -> {"none", "send", "record", "returned", "thrown"}]
      /\ MaxMessages \in Nat \ {0} /\ faults \in 0..MaxFaults /\ StartInv /\ (SendsAreCounted => MessagesBounded)
    BY TypeFacts DEF MissionInv
<1>1. CASE StartMission(m)
  <2>1. StartInv'
    BY <1>0, <1>1 DEF StartMission, StartInv, world
  <2> QED
    BY <1>0, <1>1, <2>1, StartMoves DEF StartMission, world, MessagesBounded
<1>2. CASE SendOpening(m)
  <2>1. /\ sent' = [sent EXCEPT ![m] = sent[m] + 1] /\ sent[m] = 0 /\ mission[m].status = "none"
        /\ sent' \in [Missions -> Nat]
    BY <1>0, <1>2 DEF SendOpening, StartInv
  <2>2. StartInv'
    BY <1>0, <1>2, <2>1 DEF SendOpening, StartInv
  <2>3. SendsAreCounted => \A n \in Missions : sent'[n] <= MaxMessages
    BY <1>0, <2>1 DEF MessagesBounded
  <2> QED
    BY <1>0, <1>2, <2>1, <2>2, <2>3, StartMoves DEF SendOpening
<1>3. CASE RecordMission(m)
  <2> DEFINE r == [status |-> "active", count |-> 1]
  <2>1. r \in Rows /\ r.status # "none" /\ r.count = 1
    BY <1>0 DEF Rows
  <2>2. mission' = [mission EXCEPT ![m] = r] /\ sent[m] <= 1 /\ mission[m].status = "none"
    BY <1>0, <1>3 DEF RecordMission, StartInv
  <2> HIDE DEF r
  <2>3. mission' \in [Missions -> Rows]
    BY <1>0, <2>1, <2>2
  <2>4. StartInv'
    BY <1>0, <1>3, <2>1, <2>2 DEF RecordMission, StartInv, world
  <2> QED
    BY <1>0, <1>3, <2>1, <2>2, <2>3, <2>4, StartMoves DEF RecordMission, world, MessagesBounded
<1>4. CASE StartThrows(m)
  <2>1. StartInv'
    BY <1>0, <1>4 DEF StartThrows, StartInv, world
  <2>2. faults' \in 0..MaxFaults
    BY <1>4, FaultCounts DEF StartThrows
  <2> QED
    BY <1>0, <1>4, <2>1, <2>2, StartMoves DEF StartThrows, world, MessagesBounded
<1>5. CASE DeadlinePasses(m)
  <2>1. StartInv'
    BY <1>0, <1>5 DEF DeadlinePasses, StartInv, world
  <2> QED
    BY <1>0, <1>5, <2>1, StartMoves DEF DeadlinePasses, world, MessagesBounded
<1> QED
    BY <1>1, <1>2, <1>3, <1>4, <1>5 DEF Start

-------------------------------------------------------------------------------
(* Deliveries of the webhook *)

(* A step of a delivery: at most the job of its message changes, and that  *)
(* one is new.                                                             *)
LEMMA HookMoves ==
    ASSUME TypeOK, MissionInv, hook' \in [Hooks -> Deliveries], stored' \subseteq Messages,
           job' \in [Messages -> Jobs], faults' \in 0..MaxFaults, HookInv',
           \A x \in Messages : job'[x] = job[x] \/ job'[x].made = 0,
           UNCHANGED <<mission, overdue, starting, act, sent, booked, told>>
    PROVE  Keeps
<1>0. /\ act \in [Actors -> Acts] /\ Attempts \in Nat \ {0} /\ Cancels \subseteq Actors
    BY TypeFacts
<1>1. TypeOK'
    BY TypeFacts, TypeKept
<1>2. ActorInv'
  <2>1. ASSUME NEW a \in Actors PROVE ActorOK(act[a])'
    <3>1. act[a].job # NoMessage => act[a].job \in Messages /\ job'[act[a].job].made < Attempts
        BY <1>0 DEF MissionInv, ActorInv, Acts
    <3> QED
        BY <3>1 DEF MissionInv, ActorInv, ActorOK, Active
  <2>2. \A x \in Messages : job'[x].state # "gone" => job'[x].made < Attempts
    BY <1>0 DEF MissionInv, ActorInv
  <2> QED
    BY <2>1, <2>2 DEF MissionInv, ActorInv, ActorOK
<1>3. StartInv' /\ (SendsAreCounted => SendInv' /\ MessagesBounded')
    BY DEF MissionInv, SendInv, StartInv, MessagesBounded, Active
<1> QED
    BY <1>1, <1>2, <1>3 DEF Keeps, MissionInv

LEMMA HookKeeps ==
    ASSUME TypeOK, MissionInv, NEW d \in Hooks,
           (\E x \in Messages : Deliver(d, x)) \/ Hook(d) \/ HookThrows(d)
    PROVE  Keeps
<1>0. /\ hook \in [Hooks -> Deliveries] /\ stored \subseteq Messages /\ job \in [Messages -> Jobs]
      /\ faults \in 0..MaxFaults /\ HookInv /\ Attempts \in Nat \ {0}
    BY TypeFacts DEF MissionInv
<1>1. ASSUME NEW x \in Messages, Deliver(d, x) PROVE Keeps
  <2> DEFINE r == [pc |-> "look", message |-> x]
  <2>1. hook' = [hook EXCEPT ![d] = r] /\ r \in Deliveries /\ r.pc = "look" /\ r.message = x
    BY <1>1 DEF Deliver, Deliveries
  <2> HIDE DEF r
  <2>2. hook' \in [Hooks -> Deliveries] /\ hook'[d] = r /\ \A e \in Hooks \ {d} : hook'[e] = hook[e]
    BY <1>0, <2>1
  <2>3. HookInv'
    BY <1>0, <1>1, <2>1, <2>2 DEF HookInv, Deliver
  <2> QED
    BY <1>0, <1>1, <2>2, <2>3, HookMoves DEF Deliver, world
<1>2. ASSUME NEW p \in {"returned", "store", "queue"}, hook' = [hook EXCEPT ![d].pc = p]
      PROVE  /\ hook' \in [Hooks -> Deliveries] /\ hook'[d].pc = p /\ hook'[d].message = hook[d].message
             /\ \A e \in Hooks \ {d} : hook'[e] = hook[e]
  <2> DEFINE r == [hook[d] EXCEPT !.pc = p]
  <2>1. hook' = [hook EXCEPT ![d] = r]
    BY <1>2
  <2>2. r \in Deliveries /\ r.pc = p /\ r.message = hook[d].message
    BY <1>0 DEF Deliveries
  <2> HIDE DEF r
  <2> QED
    BY <1>0, <2>1, <2>2
<1>3. CASE LookForDuplicate(d)
  <2>1. PICK p \in {"returned", "store"} : hook' = [hook EXCEPT ![d].pc = p]
    BY <1>3 DEF LookForDuplicate
  <2>2. /\ hook' \in [Hooks -> Deliveries] /\ hook'[d].pc = p /\ hook'[d].message = hook[d].message
        /\ \A e \in Hooks \ {d} : hook'[e] = hook[e]
    BY <1>2, <2>1
  <2>3. HookInv'
    BY <1>0, <1>3, <2>2 DEF HookInv, LookForDuplicate
  <2> QED
    BY <1>0, <1>3, <2>2, <2>3, HookMoves DEF LookForDuplicate, world
<1>4. CASE StoreInbound(d)
  <2> DEFINE p == IF hook[d].message \in stored THEN "returned" ELSE "queue"
  <2>1. /\ hook' \in [Hooks -> Deliveries] /\ hook'[d].pc = p /\ hook'[d].message = hook[d].message
        /\ \A e \in Hooks \ {d} : hook'[e] = hook[e]
    BY <1>2, <1>4 DEF StoreInbound
  <2>2. hook[d].message \in Messages /\ stored' = stored \union {hook[d].message} /\ job' = job
    BY <1>0, <1>4 DEF StoreInbound, HookInv
  <2>3. hook[d].message \notin stored => job[hook[d].message].queued = 0
    BY <1>0, <2>2 DEF HookInv, Jobs
  <2>4. HookInv'
    <3>1. \A x \in Messages : job'[x].queued <= 1 /\ (job'[x].queued = 1 => x \in stored')
        BY <1>0, <2>2 DEF HookInv
    <3>2. \A e \in Hooks : hook'[e].pc \in {"look", "store", "queue"} => hook'[e].message \in Messages
        BY <1>0, <2>1, <2>2 DEF HookInv
    <3>3. ASSUME NEW e \in Hooks, hook'[e].pc = "queue"
          PROVE  hook'[e].message \in stored' /\ job'[hook'[e].message].queued = 0
        <4>1. CASE e = d
            BY <2>1, <2>2, <2>3, <3>3, <4>1
        <4>2. CASE e # d
            BY <1>0, <2>1, <2>2, <3>3, <4>2 DEF HookInv
        <4> QED
            BY <4>1, <4>2
    <3>4. ASSUME NEW e \in Hooks, NEW f \in Hooks, hook'[e].pc = "queue", hook'[f].pc = "queue",
                 hook'[f].message = hook'[e].message
          PROVE  e = f
        <4>1. CASE e # d /\ f # d
            BY <1>0, <2>1, <3>4, <4>1 DEF HookInv
        <4>2. CASE e = d /\ f # d
            BY <1>0, <2>1, <3>4, <4>2 DEF HookInv
        <4>3. CASE e # d /\ f = d
            BY <1>0, <2>1, <3>4, <4>3 DEF HookInv
        <4> QED
            BY <4>1, <4>2, <4>3
    <3> QED
        BY <3>1, <3>2, <3>3, <3>4 DEF HookInv
  <2> QED
    BY <1>0, <1>4, <2>1, <2>2, <2>4, HookMoves DEF StoreInbound, world
<1>5. CASE QueueTurn(d)
  <2> DEFINE x == hook[d].message
             r == [state |-> "waiting", made |-> 0, queued |-> job[x].queued + 1]
  <2>1. /\ hook' \in [Hooks -> Deliveries] /\ hook'[d].pc = "returned"
        /\ \A e \in Hooks \ {d} : hook'[e] = hook[e]
    BY <1>2, <1>5 DEF QueueTurn
  <2>2. x \in Messages /\ x \in stored /\ job[x].queued = 0 /\ hook[d].pc = "queue"
    BY <1>0, <1>5 DEF QueueTurn, HookInv
  <2>3. r \in Jobs /\ r.made = 0 /\ r.queued = 1
    BY <1>0, <2>2 DEF Jobs
  <2>4. job' = job \/ job' = [job EXCEPT ![x] = r]
    BY <1>0, <1>5, <2>2 DEF QueueTurn
  <2> HIDE DEF r
  <2>5. /\ job' \in [Messages -> Jobs] /\ (job'[x] = job[x] \/ job'[x] = r)
        /\ \A y \in Messages \ {x} : job'[y] = job[y]
    BY <1>0, <2>2, <2>3, <2>4
  <2>6. \A e \in Hooks : hook'[e].pc = "queue" => hook[e].message # x /\ hook'[e] = hook[e]
    BY <1>0, <2>1, <2>2 DEF HookInv
  <2>7. HookInv'
    <3>1. stored' = stored
        BY <1>5 DEF QueueTurn
    <3>2. \A y \in Messages : job'[y].queued <= 1 /\ (job'[y].queued = 1 => y \in stored')
        BY <1>0, <2>2, <2>3, <2>5, <3>1 DEF HookInv
    <3> HIDE DEF x
    <3> QED
        BY <1>0, <2>1, <2>5, <2>6, <3>1, <3>2 DEF HookInv
  <2> QED
    BY <1>0, <1>5, <2>1, <2>3, <2>5, <2>7, HookMoves DEF QueueTurn, world
<1>6. CASE HookThrows(d)
  <2>1. /\ hook' \in [Hooks -> Deliveries] /\ hook'[d].pc = "returned"
        /\ \A e \in Hooks \ {d} : hook'[e] = hook[e]
    BY <1>2, <1>6 DEF HookThrows
  <2>2. HookInv'
    BY <1>0, <1>6, <2>1 DEF HookInv, HookThrows
  <2>3. faults' \in 0..MaxFaults
    BY <1>6, FaultCounts DEF HookThrows
  <2> QED
    BY <1>0, <1>6, <2>1, <2>2, <2>3, HookMoves DEF HookThrows, world
<1> QED
    BY <1>1, <1>3, <1>4, <1>5, <1>6 DEF Hook

-------------------------------------------------------------------------------
(* The worker and the calls that cancel *)

LEMMA ActorMoves ==
    ASSUME TypeOK, MissionInv, NEW a \in Actors,
           act' \in [Actors -> Acts], \A b \in Actors \ {a} : act'[b] = act[b], ActorOK(act[a])',
           a \in Cancels => /\ job' = job /\ act'[a].job = NoMessage
                            /\ act'[a].pc \in {"idle", "finish", "book", "close", "report"},
           a = Worker /\ act'[a].pc \in {"llm", "send", "persist"} => act'[a].seen < MaxMessages,
           job' \in [Messages -> Jobs],
           \A x \in Messages : job'[x].queued = job[x].queued,
           \A x \in Messages : job'[x].state # "gone" => job'[x].made < Attempts,
           mission' \in [Missions -> Rows],
           \A m \in Missions : /\ mission'[m].status = "none" <=> mission[m].status = "none"
                               /\ mission'[m].status = "active" => mission[m].status = "active",
           sent' \in [Missions -> Nat], booked' \in [Missions -> Nat], told' \in [Missions -> Nat],
           \A m \in Missions : mission[m].status = "none" => sent'[m] = sent[m],
           SendsAreCounted => SendInv' /\ MessagesBounded', faults' \in 0..MaxFaults,
           UNCHANGED <<overdue, starting, stored, hook>>
    PROVE  Keeps
<1>0. act \in [Actors -> Acts] /\ Cancels \subseteq Actors /\ Actors = {Worker} \union Cancels
    BY TypeFacts DEF Actors
<1>1. TypeOK'
    BY TypeFacts, TypeKept
<1>2. ActorInv'
  <2>1. ASSUME NEW b \in Actors \ {a} PROVE ActorOK(act[b])'
    <3>1. act'[b] = act[b] /\ act[b] \in Acts /\ ActorOK(act[b])
        BY <1>0 DEF MissionInv, ActorInv, ActorOK
    <3>2. act[b].job # NoMessage => job'[act[b].job].made < Attempts
        BY <1>0, <3>1 DEF MissionInv, ActorInv, ActorOK
    <3>3. Active' \subseteq Active
        BY DEF Active
    <3> QED
        BY <3>1, <3>2, <3>3 DEF ActorOK, Acts
  <2>2. \A k \in Cancels : act'[k].job = NoMessage /\ act'[k].pc \in {"idle", "finish", "book", "close", "report"}
    BY <1>0 DEF MissionInv, ActorInv
  <2>3. \A b \in Actors : ActorOK(act[b])'
    BY <2>1
  <2>4. act'[Worker].pc \in {"llm", "send", "persist"} => act'[Worker].seen < MaxMessages
    BY <1>0 DEF MissionInv, ActorInv
  <2>5. \A x \in Messages : job'[x].state # "gone" => job'[x].made < Attempts
    OBVIOUS
  <2> QED
    BY <2>2, <2>3, <2>4, <2>5 DEF ActorInv, ActorOK
<1>3. StartInv'
    BY DEF MissionInv, StartInv
<1>4. HookInv'
    BY TypeFacts DEF MissionInv, HookInv, Jobs
<1> QED
    BY <1>1, <1>2, <1>3, <1>4 DEF Keeps, MissionInv

(* The next step of an actor, all but its position kept.                   *)
LEMMA Goes ==
    ASSUME TypeOK, NEW a \in Actors,
           NEW p \in {"send", "persist", "count", "finish", "book", "close", "report"},
           NEW why \in Endings \union {"none"},
           \/ act' = [act EXCEPT ![a].pc = p] /\ why = act[a].why
           \/ act' = [act EXCEPT ![a].pc = p, ![a].why = why]
    PROVE  /\ act' \in [Actors -> Acts] /\ \A b \in Actors \ {a} : act'[b] = act[b]
           /\ act'[a].pc = p /\ act'[a].mission = act[a].mission /\ act'[a].seen = act[a].seen
           /\ act'[a].job = act[a].job /\ act'[a].list = act[a].list /\ act'[a].why = why
<1>0. act \in [Actors -> Acts] /\ act[a] \in Acts
    BY TypeFacts
<1> DEFINE r == [[act[a] EXCEPT !.pc = p] EXCEPT !.why = why]
<1>1. act' = [act EXCEPT ![a] = r]
  <2>1. CASE act' = [act EXCEPT ![a].pc = p] /\ why = act[a].why
    <3>1. [act[a] EXCEPT !.pc = p] = r
        BY <1>0, <2>1 DEF Acts
    <3> QED
        BY <2>1, <3>1
  <2>2. CASE act' = [act EXCEPT ![a].pc = p, ![a].why = why]
    BY <1>0, <2>2 DEF Acts
  <2> QED
    BY <2>1, <2>2
<1>2. /\ r \in Acts /\ r.pc = p /\ r.mission = act[a].mission /\ r.seen = act[a].seen
      /\ r.job = act[a].job /\ r.list = act[a].list /\ r.why = why
    BY <1>0 DEF Acts
<1> HIDE DEF r
<1> QED
    BY <1>0, <1>1, <1>2

(* What is left of an actor whose finish() has returned.                   *)
LEMMA OverLeaves ==
    ASSUME TypeOK, ActorInv, NEW a \in Actors, Over(a)
    PROVE  /\ act' \in [Actors -> Acts] /\ \A b \in Actors \ {a} : act'[b] = act[b]
           /\ act'[a].pc \in {"idle", "finish"} /\ act'[a].list \subseteq act[a].list
           /\ act'[a].pc = "finish" => act'[a].mission \in Missions /\ mission[act'[a].mission].status # "none"
           /\ act'[a].job \in {act[a].job, NoMessage}
           /\ job' \in [Messages -> Jobs] /\ (act[a].job = NoMessage => job' = job)
           /\ \A x \in Messages : /\ job'[x].queued = job[x].queued /\ job'[x].made = job[x].made
                                  /\ job'[x].state # "gone" => job[x].state # "gone"
<1>0. act \in [Actors -> Acts] /\ act[a] \in Acts /\ job \in [Messages -> Jobs]
    BY TypeFacts
<1>1. Idle \in Acts /\ Idle.pc = "idle" /\ Idle.list = {} /\ Idle.job = NoMessage
    BY TypeFacts DEF Idle, Acts
<1> DEFINE m == CHOOSE n \in act[a].list : TRUE
           r == [act[a] EXCEPT !.pc = "finish", !.mission = m, !.list = act[a].list \ {m}]
<1>2. /\ job' \in [Messages -> Jobs] /\ (act[a].job = NoMessage => job' = job)
      /\ \A x \in Messages : /\ job'[x].queued = job[x].queued /\ job'[x].made = job[x].made
                             /\ job'[x].state # "gone" => job[x].state # "gone"
  <2>1. CASE act[a].job = NoMessage
    BY <1>0, <2>1 DEF Over
  <2>2. CASE act[a].job # NoMessage
    <3> DEFINE x == act[a].job
               j == [job[x] EXCEPT !.state = "gone"]
    <3>1. x \in Messages /\ job' = [job EXCEPT ![x] = j]
        BY <1>0, <2>2 DEF Over, Acts
    <3>2. j \in Jobs /\ j.state = "gone" /\ j.made = job[x].made /\ j.queued = job[x].queued
        BY <1>0, <3>1 DEF Jobs
    <3> HIDE DEF j
    <3> QED
        BY <1>0, <2>2, <3>1, <3>2
  <2> QED
    BY <2>1, <2>2
<1>3. CASE act[a].list = {}
  <2>1. act' = [act EXCEPT ![a] = Idle]
    BY <1>3 DEF Over
  <2>2. act' \in [Actors -> Acts] /\ act'[a] = Idle /\ \A b \in Actors \ {a} : act'[b] = act[b]
    BY <1>0, <1>1, <2>1
  <2> QED
    BY <1>1, <1>2, <2>2
<1>4. CASE act[a].list # {}
  <2>1. m \in act[a].list /\ act[a].list \subseteq Missions
    BY <1>0, <1>4 DEF Acts
  <2>2. act' = [act EXCEPT ![a] = r]
    <3>1. act' = [act EXCEPT ![a] = IF act[a].list = {} THEN Idle ELSE r]
        BY DEF Over
    <3>2. (IF act[a].list = {} THEN Idle ELSE r) = r
        BY <1>4
    <3> HIDE DEF r
    <3> QED
        BY <3>1, <3>2
  <2>3. /\ r \in Acts /\ r.pc = "finish" /\ r.mission = m /\ r.list = act[a].list \ {m}
        /\ r.job = act[a].job
    <3> HIDE DEF m
    <3> QED
        BY <1>0, <2>1 DEF Acts
  <2> HIDE DEF r, m
  <2>4. act' \in [Actors -> Acts] /\ act'[a] = r /\ \A b \in Actors \ {a} : act'[b] = act[b]
    BY <1>0, <2>2, <2>3
  <2>5. mission[m].status # "none"
    BY <2>1 DEF ActorInv
  <2> QED
    BY <1>2, <2>1, <2>3, <2>4, <2>5
<1> QED
    BY <1>3, <1>4

(* A step that leaves the worker, what was sent and the counts alone.      *)
LEMMA SendsUntouched ==
    ASSUME SendInv, act'[Worker] = act[Worker], sent' = sent,
           \A m \in Missions : /\ mission'[m].count = mission[m].count
                               /\ mission'[m].status = "active" => mission[m].status = "active"
    PROVE  SendInv'
BY DEF SendInv, Active

(* A worker's step that changes no mission and sends nothing, and ends     *)
(* between turns or where a mission is finished.                           *)
LEMMA WorkerSettles ==
    ASSUME SendInv, act'[Worker].pc \in {"idle", "find", "finish", "book", "close", "report"},
           mission' = mission, sent' = sent,
           \/ act[Worker].pc \notin {"persist", "count", "finish", "book", "close"}
           \/ act[Worker].mission \notin Active
           \/ /\ act'[Worker].mission = act[Worker].mission
              /\ act'[Worker].pc \in {"finish", "book", "close"}
    PROVE  SendInv'
BY DEF SendInv, Active

LEMMA ActorFacts ==
    ASSUME TypeOK, MissionInv, NEW a \in Actors
    PROVE  /\ mission \in [Missions -> Rows] /\ job \in [Messages -> Jobs] /\ act \in [Actors -> Acts]
           /\ sent \in [Missions -> Nat] /\ booked \in [Missions -> Nat] /\ told \in [Missions -> Nat]
           /\ faults \in 0..MaxFaults /\ MaxMessages \in Nat /\ Attempts \in Nat \ {0}
           /\ act[a] \in Acts /\ ActorOK(act[a]) /\ ActorInv /\ (SendsAreCounted => SendInv /\ MessagesBounded)
           /\ a \in Cancels => act[a].job = NoMessage /\ act[a].pc \in {"idle", "finish", "book", "close", "report"}
           /\ a = Worker \/ (a \in Cancels /\ a # Worker)
           /\ \A x \in Messages : job[x].state # "gone" => job[x].made < Attempts
           /\ MessagesBounded' <=> \A m \in Missions : sent'[m] <= MaxMessages
BY TypeFacts DEF MissionInv, ActorInv, ActorOK, MessagesBounded, Actors

(* The turn of a job.                                                      *)
LEMMA TurnKeeps ==
    ASSUME TypeOK, MissionInv, Turn \/ \E x \in Messages : TakeJob(x)
    PROVE  Keeps
<1> DEFINE w == act[Worker]
<1>0. /\ mission \in [Missions -> Rows] /\ job \in [Messages -> Jobs] /\ act \in [Actors -> Acts]
      /\ sent \in [Missions -> Nat] /\ booked \in [Missions -> Nat] /\ told \in [Missions -> Nat]
      /\ faults \in 0..MaxFaults /\ MaxMessages \in Nat /\ Attempts \in Nat \ {0}
      /\ w \in Acts /\ ActorOK(w) /\ ActorInv /\ (SendsAreCounted => SendInv /\ MessagesBounded)
      /\ Worker \in Actors /\ Worker \notin Cancels
      /\ \A x \in Messages : job[x].state # "gone" => job[x].made < Attempts
    BY ActorFacts, TypeFacts
<1>1. ASSUME NEW x \in Messages, TakeJob(x) PROVE Keeps
  <2> DEFINE r == [Idle EXCEPT !.pc = "find", !.job = x]
             j == [job[x] EXCEPT !.state = "active"]
  <2>1. /\ act' = [act EXCEPT ![Worker] = r] /\ job' = [job EXCEPT ![x] = j]
        /\ w.pc = "idle" /\ job[x].state = "waiting"
    BY <1>1 DEF TakeJob
  <2>2. r \in Acts /\ r.pc = "find" /\ r.job = x /\ r.list = {}
    <3>1. Idle \in Acts /\ Idle.list = {}
        BY TypeFacts DEF Idle, Acts
    <3> QED
        BY <3>1 DEF Acts
  <2>3. j \in Jobs /\ j.state = "active" /\ j.made = job[x].made /\ j.queued = job[x].queued
    BY <1>0 DEF Jobs
  <2> HIDE DEF r, j
  <2>4. /\ act' \in [Actors -> Acts] /\ act'[Worker] = r /\ \A b \in Actors \ {Worker} : act'[b] = act[b]
        /\ job' \in [Messages -> Jobs] /\ job'[x] = j /\ \A y \in Messages \ {x} : job'[y] = job[y]
    BY <1>0, <2>1, <2>2, <2>3
  <2>5. ActorOK(act[Worker])'
    BY <1>0, <2>1, <2>2, <2>3, <2>4 DEF ActorOK
  <2>6. SendsAreCounted => SendInv'
    BY <1>0, <1>1, <2>1, <2>2, <2>4, WorkerSettles DEF TakeJob, world
  <2> QED
    <3>1. \A y \in Messages : /\ job'[y].queued = job[y].queued
                              /\ job'[y].state # "gone" => job'[y].made < Attempts
        BY <1>0, <2>1, <2>3, <2>4
    <3> QED
        BY <1>0, <1>1, <2>2, <2>4, <2>5, <2>6, <3>1, ActorMoves DEF TakeJob, world, MessagesBounded
<1>2. CASE FindMission
  <2>1. CASE Active = {} /\ Over(Worker)
    <3>1. /\ act' \in [Actors -> Acts] /\ \A b \in Actors \ {Worker} : act'[b] = act[b]
          /\ act'[Worker].pc \in {"idle", "finish"} /\ act'[Worker].list \subseteq w.list
          /\ act'[Worker].pc = "finish" =>
                act'[Worker].mission \in Missions /\ mission[act'[Worker].mission].status # "none"
          /\ act'[Worker].job \in {w.job, NoMessage}
          /\ job' \in [Messages -> Jobs]
          /\ \A x \in Messages : /\ job'[x].queued = job[x].queued /\ job'[x].made = job[x].made
                                 /\ job'[x].state # "gone" => job[x].state # "gone"
        BY <1>0, <2>1, OverLeaves
    <3>2. ActorOK(act[Worker])'
      <4>1. mission' = mission
        BY <1>2 DEF FindMission
      <4> QED
        BY <1>0, <3>1, <4>1 DEF ActorOK, Acts
    <3>3. SendsAreCounted => SendInv'
        BY <1>0, <1>2, <3>1, WorkerSettles DEF FindMission, world
    <3> QED
        BY <1>0, <1>2, <3>1, <3>2, <3>3, ActorMoves DEF FindMission, world, MessagesBounded
  <2>2. ASSUME NEW m \in Active,
               act' = [act EXCEPT ![Worker].mission = m, ![Worker].seen = mission[m].count,
                            ![Worker].pc = IF Spent(m) THEN "finish" ELSE "llm",
                            ![Worker].why = IF Spent(m) THEN "limit_reached" ELSE "none"],
               UNCHANGED job
        PROVE  Keeps
    <3> DEFINE p == IF Spent(m) THEN "finish" ELSE "llm"
               why == IF Spent(m) THEN "limit_reached" ELSE "none"
               r == [[[[w EXCEPT !.mission = m] EXCEPT !.seen = mission[m].count] EXCEPT !.pc = p] EXCEPT !.why = why]
    <3>1. p \in {"finish", "llm"} /\ why \in Endings \union {"none"} /\ (p = "llm" => mission[m].count < MaxMessages)
        BY <1>0, <2>2 DEF Spent, Active, Rows, Endings
    <3>2. act' = [act EXCEPT ![Worker] = r]
      <4> HIDE DEF p, why
      <4>1. act' = [act EXCEPT ![Worker].mission = m, ![Worker].seen = mission[m].count,
                            ![Worker].pc = p, ![Worker].why = why]
        BY <2>2 DEF p, why
      <4> QED
        BY <1>0, <4>1 DEF Acts
    <3> HIDE DEF p, why
    <3>3. m \in Missions /\ mission[m].count \in 0..MaxMessages /\ mission[m].status = "active"
        BY <1>0 DEF Active, Rows
    <3>4. /\ r \in Acts /\ r.pc = p /\ r.mission = m /\ r.seen = mission[m].count
          /\ r.job = w.job /\ r.list = w.list
        BY <1>0, <3>1, <3>3 DEF Acts
    <3> HIDE DEF r
    <3>5. act' \in [Actors -> Acts] /\ act'[Worker] = r /\ \A b \in Actors \ {Worker} : act'[b] = act[b]
        BY <1>0, <3>2, <3>4
    <3>6. ActorOK(act[Worker])'
      <4>1. mission' = mission /\ job' = job
        BY <1>2, <2>2 DEF FindMission
      <4> QED
        BY <1>0, <3>1, <3>3, <3>4, <3>5, <4>1 DEF ActorOK
    <3>7. SendsAreCounted => SendInv'
        BY <1>0, <1>2, <3>1, <3>3, <3>4, <3>5 DEF SendInv, Active, FindMission, world
    <3> QED
        BY <1>0, <1>2, <2>2, <3>1, <3>4, <3>5, <3>6, <3>7, ActorMoves, ZenonT(60) DEF FindMission, world, MessagesBounded
  <2> QED
    BY <1>2, <2>1, <2>2 DEF FindMission
<1>3. CASE ModelAnswers
  <2>1. PICK p \in {"finish", "send", "count"} : \E why \in Endings \union {"none"} :
            \/ act' = [act EXCEPT ![Worker].pc = p] /\ why = act[Worker].why
            \/ act' = [act EXCEPT ![Worker].pc = p, ![Worker].why = why]
    BY <1>0, <1>3 DEF ModelAnswers, Conclude, Goto, Endings, Acts
  <2>2. /\ act' \in [Actors -> Acts] /\ \A b \in Actors \ {Worker} : act'[b] = act[b]
        /\ act'[Worker].pc = p /\ act'[Worker].mission = w.mission /\ act'[Worker].seen = w.seen
        /\ act'[Worker].job = w.job /\ act'[Worker].list = w.list
    BY <1>0, <2>1, Goes
  <2>3. ActorOK(act[Worker])'
    BY <1>0, <1>3, <2>2 DEF ActorOK, ModelAnswers
  <2>4. SendsAreCounted => SendInv'
    BY <1>0, <1>3, <2>2 DEF SendInv, Active, ModelAnswers, world, Acts
  <2>5. act'[Worker].seen < MaxMessages
    BY <1>0, <1>3, <2>2 DEF ActorInv, ModelAnswers
  <2> QED
    BY <1>0, <1>3, <2>2, <2>3, <2>4, <2>5, ActorMoves DEF ModelAnswers, world, MessagesBounded
<1>4. CASE SendReply
  <2>1. /\ act' \in [Actors -> Acts] /\ \A b \in Actors \ {Worker} : act'[b] = act[b]
        /\ act'[Worker].pc = "persist" /\ act'[Worker].mission = w.mission /\ act'[Worker].seen = w.seen
        /\ act'[Worker].job = w.job /\ act'[Worker].list = w.list
    BY <1>0, <1>4, Goes, ZenonT(60) DEF SendReply, Goto, Acts
  <2> DEFINE m == w.mission
  <2>2. /\ m \in Missions /\ mission[m].status # "none" /\ w.pc = "send"
        /\ w.seen < MaxMessages /\ (SendsAreCounted => sent[m] <= w.seen)
        /\ sent' = [sent EXCEPT ![m] = sent[m] + 1] /\ w.seen \in Nat
    BY <1>0, <1>4 DEF SendReply, ActorOK, ActorInv, SendInv, Acts
  <2> HIDE DEF m
  <2>3. /\ sent' \in [Missions -> Nat] /\ sent'[m] = sent[m] + 1
        /\ \A n \in Missions \ {m} : sent'[n] = sent[n]
    BY <1>0, <2>2
  <2>4. SendsAreCounted => \A n \in Missions : sent'[n] <= MaxMessages
    BY <1>0, <2>2, <2>3 DEF MessagesBounded
  <2>5. ActorOK(act[Worker])'
    BY <1>0, <1>4, <2>1, <2>2 DEF ActorOK, SendReply
  <2>6. SendsAreCounted => SendInv'
    BY <1>0, <1>4, <2>1, <2>2, <2>3 DEF SendInv, Active, SendReply, m
  <2>7. /\ \A n \in Missions : mission[n].status = "none" => sent'[n] = sent[n]
        /\ \A x \in Messages : job'[x].queued = job[x].queued /\ job'[x].state = job[x].state /\ job'[x].made = job[x].made
    BY <1>4, <2>2, <2>3 DEF SendReply
  <2> QED
    BY <1>0, <1>4, <2>1, <2>2, <2>3, <2>4, <2>5, <2>6, <2>7, ActorMoves DEF SendReply, MessagesBounded
<1>5. CASE PersistReply
  <2>0. /\ w.pc = "persist" /\ w.mission \in Missions /\ mission[w.mission].status # "none"
        /\ w.seen < MaxMessages /\ (SendsAreCounted => sent[w.mission] <= w.seen + 1) /\ w.seen \in Nat
        /\ mission' = mission /\ sent' = sent
    BY <1>0, <1>5 DEF PersistReply, ActorOK, ActorInv, SendInv, Acts, world
  <2>1. /\ act' \in [Actors -> Acts] /\ \A b \in Actors \ {Worker} : act'[b] = act[b]
        /\ act'[Worker].mission = w.mission /\ act'[Worker].job = w.job /\ act'[Worker].list = w.list
        /\ \/ act'[Worker].pc = "finish"
           \/ act'[Worker].pc = "count" /\ act'[Worker].seen = w.seen + 1
    <3>1. CASE Goto(Worker, "finish")
        BY <1>0, <3>1, Goes, ZenonT(60) DEF Goto, Acts
    <3>2. CASE act' = [act EXCEPT ![Worker].pc = "count", ![Worker].seen = @ + 1]
      <4> DEFINE r == [[w EXCEPT !.pc = "count"] EXCEPT !.seen = w.seen + 1]
      <4>1. act' = [act EXCEPT ![Worker] = r]
        BY <1>0, <3>2 DEF Acts
      <4>2. w.seen + 1 \in 0..MaxMessages
        BY <1>0, <2>0
      <4>3. /\ r \in Acts /\ r.pc = "count" /\ r.mission = w.mission /\ r.seen = w.seen + 1
            /\ r.job = w.job /\ r.list = w.list
        BY <1>0, <4>2 DEF Acts
      <4> HIDE DEF r
      <4> QED
        BY <1>0, <4>1, <4>3
    <3> QED
        BY <1>5, <3>1, <3>2 DEF PersistReply
  <2>2. ActorOK(act[Worker])'
    BY <1>0, <1>5, <2>0, <2>1 DEF ActorOK, PersistReply
  <2>3. SendsAreCounted => SendInv'
    BY <1>0, <2>0, <2>1 DEF SendInv, Active
  <2> QED
    BY <1>0, <1>5, <2>1, <2>2, <2>3, ActorMoves DEF PersistReply, world, MessagesBounded
<1>6. CASE CountMessages
  <2> DEFINE m == w.mission
             e == [mission[m] EXCEPT !.count = w.seen]
  <2>1. /\ w.pc = "count" /\ m \in Missions /\ mission[m].status # "none"
        /\ SendsAreCounted => sent[m] <= w.seen
        /\ w.seen \in 0..MaxMessages
        /\ mission' = [mission EXCEPT ![m] = e] /\ sent' = sent
    BY <1>0, <1>6 DEF CountMessages, ActorOK, SendInv, Acts, world
  <2>2. e \in Rows /\ e.status = mission[m].status /\ e.count = w.seen
    BY <1>0, <2>1 DEF Rows
  <2> HIDE DEF e
  <2>3. /\ mission' \in [Missions -> Rows] /\ mission'[m] = e
        /\ \A n \in Missions \ {m} : mission'[n] = mission[n]
        /\ \A n \in Missions : mission'[n].status = mission[n].status
    BY <1>0, <2>1, <2>2
  <2>4. /\ act' \in [Actors -> Acts] /\ \A b \in Actors \ {Worker} : act'[b] = act[b]
        /\ act'[Worker].pc \in {"idle", "finish"} /\ act'[Worker].list \subseteq w.list
        /\ act'[Worker].pc = "finish" =>
              act'[Worker].mission \in Missions /\ mission[act'[Worker].mission].status # "none"
        /\ act'[Worker].job \in {w.job, NoMessage}
        /\ job' \in [Messages -> Jobs]
        /\ \A x \in Messages : /\ job'[x].queued = job[x].queued /\ job'[x].made = job[x].made
                               /\ job'[x].state # "gone" => job[x].state # "gone"
    <3>1. CASE Over(Worker)
        BY <1>0, <3>1, OverLeaves
    <3>2. CASE Conclude(Worker, "limit_reached") /\ UNCHANGED job
        BY <1>0, <2>1, <3>2, Goes DEF Conclude, Endings
    <3> QED
        BY <1>6, <3>1, <3>2 DEF CountMessages
  <2>5. ActorOK(act[Worker])'
    <3>1. act'[Worker].list \subseteq Missions /\ \A n \in act'[Worker].list : mission'[n].status # "none"
        BY <1>0, <2>3, <2>4 DEF ActorOK, Acts
    <3>2. act'[Worker].pc = "finish" =>
              act'[Worker].mission \in Missions /\ mission'[act'[Worker].mission].status # "none"
        BY <2>3, <2>4
    <3>3. act'[Worker].job # NoMessage => job'[act'[Worker].job].made < Attempts
        BY <1>0, <2>4 DEF ActorOK, Acts
    <3> QED
        BY <2>4, <3>1, <3>2, <3>3 DEF ActorOK
  <2>6. SendsAreCounted => SendInv'
    <3>1. SendsAreCounted =>
            \A n \in Missions : mission'[n].status = "active" => sent'[n] <= mission'[n].count
        BY <1>0, <2>1, <2>2, <2>3 DEF SendInv, Active
    <3> QED
        BY <2>4, <3>1 DEF SendInv, Active
  <2> QED
    BY <1>0, <1>6, <2>1, <2>3, <2>4, <2>5, <2>6, ActorMoves DEF CountMessages, world, MessagesBounded
<1> QED
    BY <1>1, <1>2, <1>3, <1>4, <1>5, <1>6 DEF Turn

(* The sweep and a cancellation start to finish missions that are active.  *)
LEMMA FinishStarts ==
    ASSUME TypeOK, NEW a \in Actors, (a = Worker /\ Sweep) \/ (a \in Cancels /\ Cancel(a))
    PROVE  \E r \in Acts : /\ act' = [act EXCEPT ![a] = r]
                           /\ r.pc = "finish" /\ r.mission \in Active /\ r.job = NoMessage /\ r.list \subseteq Active
<1>0. Idle \in Acts /\ Idle.job = NoMessage /\ Idle.list = {} /\ Active \subseteq Missions
    BY TypeFacts DEF Idle, Acts, Active
<1>1. CASE a = Worker /\ Sweep
  <2>1. PICK n \in overdue \intersect Active :
            act' = [act EXCEPT ![Worker] = [Idle EXCEPT !.pc = "finish", !.mission = n, !.why = "limit_reached",
                                                       !.list = (overdue \intersect Active) \ {n}]]
    BY <1>1 DEF Sweep
  <2> DEFINE list == (overdue \intersect Active) \ {n}
             r == [Idle EXCEPT !.pc = "finish", !.mission = n, !.why = "limit_reached", !.list = list]
  <2>2. list \subseteq Active /\ act' = [act EXCEPT ![a] = r]
    BY <1>1, <2>1
  <2> HIDE DEF list
  <2>3. r \in Acts /\ r.pc = "finish" /\ r.mission = n /\ r.job = NoMessage /\ r.list = list
    BY <1>0, <2>2 DEF Acts, Endings
  <2> HIDE DEF r
  <2> QED
    BY <2>2, <2>3
<1>2. CASE a \in Cancels /\ Cancel(a)
  <2>1. PICK n \in Active :
            act' = [act EXCEPT ![a] = [Idle EXCEPT !.pc = "finish", !.mission = n, !.why = "cancelled"]]
    BY <1>2 DEF Cancel
  <2> DEFINE r == [Idle EXCEPT !.pc = "finish", !.mission = n, !.why = "cancelled"]
  <2>2. act' = [act EXCEPT ![a] = r]
    BY <2>1
  <2>3. r \in Acts /\ r.pc = "finish" /\ r.mission = n /\ r.job = NoMessage /\ r.list = {}
    BY <1>0 DEF Acts, Endings
  <2> HIDE DEF r
  <2> QED
    BY <2>2, <2>3
<1> QED
    BY <1>1, <1>2

(* The sweep of the deadlines, a cancellation, and finish().               *)
LEMMA FinishKeeps ==
    ASSUME TypeOK, MissionInv, NEW a \in Actors,
           (a = Worker /\ Sweep) \/ (a \in Cancels /\ Cancel(a)) \/ Finish(a)
    PROVE  Keeps
<1>0. /\ mission \in [Missions -> Rows] /\ job \in [Messages -> Jobs] /\ act \in [Actors -> Acts]
      /\ sent \in [Missions -> Nat] /\ booked \in [Missions -> Nat] /\ told \in [Missions -> Nat]
      /\ faults \in 0..MaxFaults /\ MaxMessages \in Nat /\ Attempts \in Nat \ {0}
      /\ act[a] \in Acts /\ ActorOK(act[a]) /\ ActorInv /\ (SendsAreCounted => SendInv /\ MessagesBounded)
      /\ a \in Cancels => act[a].job = NoMessage /\ act[a].pc \in {"idle", "finish", "book", "close", "report"}
      /\ a = Worker \/ (a \in Cancels /\ a # Worker)
      /\ \A x \in Messages : job[x].state # "gone" => job[x].made < Attempts
      /\ Worker \in Actors /\ Worker \notin Cancels
    BY ActorFacts, TypeFacts
<1> DEFINE m == act[a].mission
           (* What every one of these steps leaves of the actor. *)
           Rest == /\ act' \in [Actors -> Acts] /\ \A b \in Actors \ {a} : act'[b] = act[b]
                   /\ ActorOK(act[a])'
                   /\ a \in Cancels => /\ job' = job /\ act'[a].job = NoMessage
                                       /\ act'[a].pc \in {"idle", "finish", "book", "close", "report"}
                   /\ job' \in [Messages -> Jobs]
                   /\ \A x \in Messages : /\ job'[x].queued = job[x].queued
                                          /\ job'[x].state # "gone" => job'[x].made < Attempts
<1>1. CASE (a = Worker /\ Sweep) \/ (a \in Cancels /\ Cancel(a))
  <2>1. Active \subseteq Missions
    BY DEF Active
  <2>2. PICK r \in Acts : /\ act' = [act EXCEPT ![a] = r]
                          /\ r.pc = "finish" /\ r.mission \in Active /\ r.job = NoMessage /\ r.list \subseteq Active
    BY <1>1, FinishStarts
  <2>3. act' \in [Actors -> Acts] /\ act'[a] = r /\ \A b \in Actors \ {a} : act'[b] = act[b]
    BY <1>0, <2>2
  <2>4. /\ UNCHANGED <<mission, overdue, starting, stored, hook, job, world, faults>>
        /\ act[a].pc = "idle"
    BY <1>1 DEF Sweep, Cancel
  <2>5. ActorOK(act[a])'
    BY <2>2, <2>3, <2>4 DEF ActorOK, Active
  <2>6. SendsAreCounted => SendInv'
    <3>1. CASE a = Worker
        BY <1>0, <2>2, <2>3, <2>4, <3>1, WorkerSettles DEF world
    <3>2. CASE a # Worker
        BY <1>0, <2>3, <2>4, <3>2, SendsUntouched DEF world
    <3> QED
        BY <3>1, <3>2
  <2> QED
    BY <1>0, <2>2, <2>3, <2>4, <2>5, <2>6, ActorMoves DEF world, MessagesBounded
<1>2. ASSUME Over(a), mission' = mission
      PROVE  Rest /\ act'[a].pc \in {"idle", "finish"}
  <2>1. /\ act' \in [Actors -> Acts] /\ \A b \in Actors \ {a} : act'[b] = act[b]
        /\ act'[a].pc \in {"idle", "finish"} /\ act'[a].list \subseteq act[a].list
        /\ act'[a].pc = "finish" => act'[a].mission \in Missions /\ mission[act'[a].mission].status # "none"
        /\ act'[a].job \in {act[a].job, NoMessage}
        /\ job' \in [Messages -> Jobs] /\ (act[a].job = NoMessage => job' = job)
        /\ \A x \in Messages : /\ job'[x].queued = job[x].queued /\ job'[x].made = job[x].made
                               /\ job'[x].state # "gone" => job[x].state # "gone"
    BY <1>0, <1>2, OverLeaves
  <2>2. ActorOK(act[a])'
    BY <1>0, <1>2, <2>1 DEF ActorOK, Acts
  <2> QED
    BY <1>0, <2>1, <2>2
<1>3. ASSUME NEW p \in {"book", "close", "report"}, Goto(a, p), UNCHANGED job, act[a].pc # "idle", act[a].pc # "find",
             \A n \in Missions : mission'[n].status = "none" <=> mission[n].status = "none",
             p = "report" => mission'[m].status # "active"
      PROVE  Rest /\ act'[a].pc = p /\ act'[a].mission = m
  <2>1. /\ act' \in [Actors -> Acts] /\ \A b \in Actors \ {a} : act'[b] = act[b]
        /\ act'[a].pc = p /\ act'[a].mission = act[a].mission /\ act'[a].seen = act[a].seen
        /\ act'[a].job = act[a].job /\ act'[a].list = act[a].list
    BY <1>0, <1>3, Goes, ZenonT(60) DEF Goto, Acts
  <2>2. ActorOK(act[a])'
    BY <1>0, <1>3, <2>1 DEF ActorOK, Active, Acts
  <2> QED
    BY <1>0, <1>3, <2>1, <2>2
<1>4. ASSUME Rest, mission' = mission, sent' = sent, UNCHANGED <<overdue, starting, stored, hook>>,
             booked' \in [Missions -> Nat], told' \in [Missions -> Nat], faults' = faults,
             \/ m \notin Active /\ act'[a].pc \in {"idle", "finish"}
             \/ act'[a].mission = m /\ act'[a].pc \in {"book", "close"}
      PROVE  Keeps
  <2>1. SendsAreCounted => SendInv'
    <3>1. CASE a = Worker
        BY <1>0, <1>4, <3>1, WorkerSettles
    <3>2. CASE a # Worker
        BY <1>0, <1>4, <3>2, SendsUntouched
    <3> QED
        BY <3>1, <3>2
  <2> QED
    BY <1>0, <1>4, <2>1, ActorMoves DEF MessagesBounded
<1>5. CASE ReadForFinish(a)
  <2>1. UNCHANGED <<mission, overdue, starting, stored, hook, world, faults>> /\ act[a].pc = "finish"
    BY <1>5 DEF ReadForFinish
  <2>2. CASE m \notin Active /\ Over(a)
    BY <1>0, <1>2, <1>4, <2>1, <2>2 DEF world
  <2>3. CASE \E p \in {"close", "book"} : Goto(a, p) /\ UNCHANGED job
    BY <1>0, <1>3, <1>4, <2>1, <2>3 DEF world
  <2> QED
    BY <1>5, <2>2, <2>3 DEF ReadForFinish
<1>6. CASE BookReminder(a)
  <2>1. /\ UNCHANGED <<mission, overdue, starting, stored, hook, job, sent, told, faults>> /\ act[a].pc = "book"
        /\ Goto(a, "close")
    BY <1>6 DEF BookReminder
  <2>2. booked' \in [Missions -> Nat]
    BY <1>0, <1>6 DEF BookReminder
  <2> QED
    BY <1>0, <1>3, <1>4, <2>1, <2>2
<1>7. CASE CloseMission(a)
  <2> DEFINE st == IF act[a].why = "completed" THEN "done" ELSE "stopped"
             e == [mission[m] EXCEPT !.status = st]
  <2>1. /\ UNCHANGED <<overdue, starting, stored, hook, job, sent, booked, told, faults>> /\ act[a].pc = "close"
        /\ Goto(a, "report") /\ m \in Missions /\ mission[m].status # "none"
        /\ mission' = [mission EXCEPT ![m] = e]
    BY <1>0, <1>7 DEF CloseMission, world, ActorOK
  <2>2. e \in Rows /\ e.status \in {"done", "stopped"} /\ e.count = mission[m].count
    BY <1>0, <2>1 DEF Rows
  <2> HIDE DEF e
  <2>3. /\ mission' \in [Missions -> Rows] /\ mission'[m] = e
        /\ \A n \in Missions \ {m} : mission'[n] = mission[n]
    BY <1>0, <2>1, <2>2
  <2>4. \A n \in Missions : /\ mission'[n].count = mission[n].count
                            /\ mission'[n].status = "none" <=> mission[n].status = "none"
                            /\ mission'[n].status = "active" => mission[n].status = "active" /\ n # m
    BY <2>1, <2>2, <2>3
  <2>5. Rest /\ act'[a].pc = "report" /\ act'[a].mission = m
    BY <1>0, <1>3, <2>1, <2>2, <2>3, <2>4
  <2> HIDE DEF m
  <2>6. SendsAreCounted => SendInv'
    <3>1. CASE a = Worker
        BY <1>0, <2>1, <2>4, <2>5, <3>1 DEF SendInv, Active, m
    <3>2. CASE a # Worker
        BY <1>0, <2>1, <2>4, <2>5, <3>2, SendsUntouched
    <3> QED
        BY <3>1, <3>2
  <2> QED
    BY <1>0, <2>1, <2>3, <2>4, <2>5, <2>6, ActorMoves DEF MessagesBounded
<1>8. CASE Report(a)
  <2>1. /\ UNCHANGED <<mission, overdue, starting, stored, hook, sent, booked, faults>> /\ act[a].pc = "report"
        /\ Over(a) /\ m \notin Active
    BY <1>0, <1>8 DEF Report, ActorOK
  <2>2. told' \in [Missions -> Nat]
    <3>1. m \in Missions /\ told' = [told EXCEPT ![m] = told[m] + 1]
        BY <1>0, <1>8 DEF Report, ActorOK
    <3> QED
        BY <1>0, <3>1
  <2> QED
    BY <1>0, <1>2, <1>4, <2>1, <2>2
<1>9. CASE Finish(a)
    BY <1>5, <1>6, <1>7, <1>8, <1>9 DEF Finish
<1> QED
    BY <1>1, <1>9

(* A failure that does not fall between a send and what counts it.         *)
LEMMA ThrowKeeps ==
    ASSUME TypeOK, MissionInv, NEW a \in Actors, Throws(a)
    PROVE  Keeps
<1>0. /\ mission \in [Missions -> Rows] /\ job \in [Messages -> Jobs] /\ act \in [Actors -> Acts]
      /\ sent \in [Missions -> Nat] /\ booked \in [Missions -> Nat] /\ told \in [Missions -> Nat]
      /\ Attempts \in Nat \ {0} /\ act[a] \in Acts /\ ActorOK(act[a]) /\ ActorInv /\ (SendsAreCounted => SendInv /\ MessagesBounded)
      /\ a \in Cancels => act[a].job = NoMessage
      /\ a = Worker \/ (a \in Cancels /\ a # Worker)
      /\ \A x \in Messages : job[x].state # "gone" => job[x].made < Attempts
      /\ Worker \in Actors
    BY ActorFacts, TypeFacts
<1>1. /\ act[a].pc \in Faulty /\ faults' \in 0..MaxFaults
      /\ act' = [act EXCEPT ![a] = Idle]
      /\ UNCHANGED <<mission, overdue, starting, stored, hook, sent, booked, told>>
    BY FaultCounts DEF Throws, world
<1>2. Idle \in Acts /\ Idle.pc = "idle" /\ Idle.list = {} /\ Idle.job = NoMessage
    BY TypeFacts DEF Idle, Acts
<1>3. act' \in [Actors -> Acts] /\ act'[a] = Idle /\ \A b \in Actors \ {a} : act'[b] = act[b]
    BY <1>0, <1>1, <1>2
<1>4. /\ job' \in [Messages -> Jobs] /\ (act[a].job = NoMessage => job' = job)
      /\ \A x \in Messages : /\ job'[x].queued = job[x].queued
                             /\ job'[x].state # "gone" => job'[x].made < Attempts
  <2>1. CASE act[a].job = NoMessage
    BY <1>0, <2>1 DEF Throws
  <2>2. CASE act[a].job # NoMessage
    <3> DEFINE x == act[a].job
               st == IF job[x].made + 1 < Attempts THEN "waiting" ELSE "gone"
               j == [[job[x] EXCEPT !.made = job[x].made + 1] EXCEPT !.state = st]
    <3>1. x \in Messages /\ job[x] \in Jobs /\ job[x].made < Attempts
        BY <1>0, <2>2 DEF ActorOK, Acts
    <3>2. job' = [job EXCEPT ![x] = j]
      <4>1. job' = [job EXCEPT ![x].made = job[x].made + 1, ![x].state = st]
        BY <2>2 DEF Throws
      <4> HIDE DEF st
      <4> QED
        BY <1>0, <3>1, <4>1 DEF Jobs
    <3>3. st \in {"waiting", "gone"} /\ (st # "gone" => job[x].made + 1 < Attempts)
          /\ job[x].made + 1 \in 0..Attempts
        BY <1>0, <3>1 DEF Jobs
    <3> HIDE DEF st
    <3>4. j \in Jobs /\ j.state = st /\ j.made = job[x].made + 1 /\ j.queued = job[x].queued
        BY <3>1, <3>3 DEF Jobs
    <3> HIDE DEF j
    <3> QED
        BY <1>0, <2>2, <3>1, <3>2, <3>3, <3>4
  <2> QED
    BY <2>1, <2>2
<1>5. ActorOK(act[a])'
    BY <1>2, <1>3 DEF ActorOK
<1>6. SendsAreCounted => SendInv'
  <2>1. CASE a = Worker
    <3>1. SendsAreCounted => act[a].pc \notin {"persist", "count", "finish", "book", "close"}
        BY <1>1, MissionConstants DEF SendsAreCounted, Steps
    <3> QED
        BY <1>0, <1>1, <1>2, <1>3, <2>1, <3>1, WorkerSettles
  <2>2. CASE a # Worker
    BY <1>0, <1>1, <1>3, <2>2, SendsUntouched
  <2> QED
    BY <2>1, <2>2
<1> QED
    BY <1>0, <1>1, <1>2, <1>3, <1>4, <1>5, <1>6, ActorMoves DEF MessagesBounded

LEMMA MissionStep ==
    ASSUME TypeOK, MissionInv, [Next]_vars
    PROVE  Keeps
<1>1. CASE UNCHANGED vars
    BY <1>1 DEF vars, world, Keeps, TypeOK, MissionInv, StartInv, ActorInv, SendInv, HookInv, MessagesBounded, Active
<1>2. Worker \in Actors /\ Cancels \subseteq Actors
    BY TypeFacts
<1> QED
    BY <1>1, <1>2, StartKeeps, HookKeeps, TurnKeeps, FinishKeeps, ThrowKeeps DEF Next

LEMMA MissionInvariant == Spec => [](TypeOK /\ MissionInv)
<1>1. Init => TypeOK /\ MissionInv
  <2> SUFFICES ASSUME Init PROVE TypeOK /\ MissionInv
    OBVIOUS
  <2>1. MaxMessages \in Nat \ {0} /\ Attempts \in Nat \ {0} /\ MaxFaults \in Nat
    BY MissionConstants
  <2>2. TypeOK
    BY <2>1 DEF Init, TypeOK, Idle
  <2>3. StartInv /\ ActorInv /\ SendInv /\ HookInv /\ MessagesBounded
    BY <2>1 DEF Init, StartInv, ActorInv, SendInv, HookInv, MessagesBounded, Active, Idle, Actors
  <2> QED
    BY <2>2, <2>3 DEF MissionInv
<1>2. TypeOK /\ MissionInv /\ [Next]_vars => (TypeOK /\ MissionInv)'
    BY MissionStep DEF Keeps
<1> QED
    BY <1>1, <1>2, PTL DEF Spec

(* The types, attempts of a job included, whatever fails.                  *)
THEOREM TypeCorrect == Spec => []TypeOK
BY MissionInvariant, PTL

(* A message that the webhook delivers several times, at the same time or  *)
(* later, queues one turn, whatever fails (ingestInbound, onInbound).      *)
THEOREM DuplicatesIgnored == Spec => []OneTurnPerMessage
<1>1. TypeOK /\ MissionInv => OneTurnPerMessage
    BY DEF MissionInv, HookInv, OneTurnPerMessage
<1> QED
    BY <1>1, MissionInvariant, PTL

(* The contact never receives more than MISSION_MAX_MESSAGES messages, as  *)
(* long as no failure falls between a send and the update that counts it   *)
(* or ends the mission (runTurn, finish).                                  *)
THEOREM ContactNotFlooded == ASSUME SendsAreCounted PROVE Spec => []MessagesBounded
<1>1. MissionInv => MessagesBounded
    BY DEF MissionInv
<1> QED
    BY <1>1, MissionInvariant, PTL

-------------------------------------------------------------------------------
(* Reports *)

Ways == {"book", "close", "report"}

(* Who finishes a mission that has ended was finishing it before.          *)
LEMMA NobodyJoins ==
    ASSUME TypeOK, MissionInv, [Next]_vars, NEW m \in Missions, m \notin Active
    PROVE  /\ Finishing(m)' \subseteq Finishing(m)
           /\ \/ told'[m] = told[m]
              \/ told'[m] = told[m] + 1 /\ \E a \in Finishing(m) : a \notin Finishing(m)'
<1>0. /\ act \in [Actors -> Acts] /\ told \in [Missions -> Nat] /\ ActorInv
      /\ Worker \in Actors /\ Cancels \subseteq Actors
    BY TypeFacts DEF MissionInv
<1>Typed. \A a \in Actors : act[a].why \in Endings \union {"none"}
    BY <1>0 DEF Acts
<1> DEFINE Goal == /\ Finishing(m)' \subseteq Finishing(m)
                   /\ \/ told'[m] = told[m]
                      \/ told'[m] = told[m] + 1 /\ \E a \in Finishing(m) : a \notin Finishing(m)'
<1>1. ASSUME NEW a \in Actors, \A b \in Actors \ {a} : act'[b] = act[b],
             act'[a].pc \in Ways => \/ act[a].pc \in Ways /\ act'[a].mission = act[a].mission
                                    \/ act'[a].mission # m,
             told' = told
      PROVE  Goal
    BY <1>1 DEF Finishing, Ways
<1>2. CASE act' = act /\ told' = told
    BY <1>2 DEF Finishing
<1>3. ASSUME NEW a \in Actors, NEW r \in {Idle}, act' = [act EXCEPT ![a] = r], told' = told PROVE Goal
    BY <1>0, <1>1, <1>3 DEF Ways, Idle
<1>4. ASSUME NEW a \in Actors, NEW p \in {"send", "persist", "count", "finish"} \union Ways,
             NEW why \in Endings \union {"none"},
             \/ act' = [act EXCEPT ![a].pc = p] /\ why = act[a].why
             \/ act' = [act EXCEPT ![a].pc = p, ![a].why = why],
             p \in Ways => act[a].pc \in Ways \/ act[a].mission # m,
             told' = told
      PROVE  Goal
  <2>1. p \in {"send", "persist", "count", "finish", "book", "close", "report"}
    BY DEF Ways
  <2>2. /\ \A b \in Actors \ {a} : act'[b] = act[b]
        /\ act'[a].pc = p /\ act'[a].mission = act[a].mission
    BY <1>4, <2>1, Goes
  <2> QED
    BY <1>1, <1>4, <2>2
<1>5. ASSUME NEW a \in Actors, Over(a) PROVE /\ \A b \in Actors \ {a} : act'[b] = act[b]
                                             /\ act'[a].pc \notin Ways
    BY <1>0, <1>5, OverLeaves DEF Ways
<1>6. ASSUME NEW n \in Missions, StartMission(n) \/ Start(n) \/ StartThrows(n) \/ DeadlinePasses(n) PROVE Goal
    BY <1>2, <1>6 DEF Start, StartMission, SendOpening, RecordMission, StartThrows, DeadlinePasses, world
<1>7. ASSUME NEW d \in Hooks, (\E x \in Messages : Deliver(d, x)) \/ Hook(d) \/ HookThrows(d) PROVE Goal
    BY <1>2, <1>7 DEF Hook, Deliver, LookForDuplicate, StoreInbound, QueueTurn, HookThrows, world
<1>8. ASSUME NEW x \in Messages, TakeJob(x) PROVE Goal
  <2> DEFINE r == [Idle EXCEPT !.pc = "find", !.job = x]
  <2>1. act' = [act EXCEPT ![Worker] = r] /\ told' = told
    BY <1>8 DEF TakeJob, world
  <2>2. r.pc = "find"
    BY DEF Idle
  <2> HIDE DEF r
  <2>3. act'[Worker].pc = "find" /\ \A b \in Actors \ {Worker} : act'[b] = act[b]
    BY <1>0, <2>1, <2>2
  <2> QED
    BY <1>0, <1>1, <2>1, <2>3 DEF Ways
<1>9. CASE FindMission
  <2>1. CASE Over(Worker)
    BY <1>0, <1>1, <1>5, <1>9, <2>1 DEF FindMission, world
  <2>2. ASSUME NEW n \in Active,
               act' = [act EXCEPT ![Worker].mission = n, ![Worker].seen = mission[n].count,
                            ![Worker].pc = IF Spent(n) THEN "finish" ELSE "llm",
                            ![Worker].why = IF Spent(n) THEN "limit_reached" ELSE "none"]
        PROVE  Goal
    <3>1. \A b \in Actors \ {Worker} : act'[b] = act[b]
        BY <1>0, <2>2
    <3>2. act'[Worker].pc \in {"finish", "llm"}
        BY <1>0, <2>2 DEF Acts
    <3> QED
        BY <1>0, <1>1, <1>9, <3>1, <3>2 DEF FindMission, world, Ways
  <2> QED
    BY <1>9, <2>1, <2>2 DEF FindMission
<1>10. CASE ModelAnswers
  <2>1. PICK p \in {"finish", "send", "count"} : \E why \in Endings \union {"none"} :
            \/ act' = [act EXCEPT ![Worker].pc = p] /\ why = act[Worker].why
            \/ act' = [act EXCEPT ![Worker].pc = p, ![Worker].why = why]
    BY <1>0, <1>10 DEF ModelAnswers, Conclude, Goto, Endings, Acts
  <2> QED
    BY <1>0, <1>4, <1>10, <2>1 DEF ModelAnswers, world, Ways
<1>11. CASE SendReply
  <2>1. "persist" \notin Ways /\ act' = [act EXCEPT ![Worker].pc = "persist"] /\ told' = told
    BY <1>11 DEF SendReply, Goto, Ways
  <2> QED
    BY <1>0, <1>4, <2>1, <1>Typed
<1>12. CASE PersistReply
  <2>1. CASE Goto(Worker, "finish")
    <3>1. "finish" \notin Ways /\ act' = [act EXCEPT ![Worker].pc = "finish"] /\ told' = told
        BY <1>12, <2>1 DEF PersistReply, Goto, Ways, world
    <3> QED
        BY <1>0, <1>4, <3>1, <1>Typed
  <2>2. CASE act' = [act EXCEPT ![Worker].pc = "count", ![Worker].seen = @ + 1]
    <3>1. act'[Worker].pc = "count" /\ \A b \in Actors \ {Worker} : act'[b] = act[b]
        BY <1>0, <2>2 DEF Acts
    <3> QED
        BY <1>0, <1>1, <1>12, <3>1 DEF PersistReply, Ways, world
  <2> QED
    BY <1>12, <2>1, <2>2 DEF PersistReply
<1>13. CASE CountMessages
  <2>1. CASE Over(Worker)
    BY <1>0, <1>1, <1>5, <1>13, <2>1 DEF CountMessages, world
  <2>2. CASE Conclude(Worker, "limit_reached")
    <3>1. /\ "finish" \notin Ways /\ "limit_reached" \in Endings /\ told' = told
          /\ act' = [act EXCEPT ![Worker].pc = "finish", ![Worker].why = "limit_reached"]
        BY <1>13, <2>2 DEF CountMessages, Conclude, Endings, Ways, world
    <3> QED
        BY <1>0, <1>4, <3>1
  <2> QED
    BY <1>13, <2>1, <2>2 DEF CountMessages
<1>14. ASSUME NEW a \in Actors, (a = Worker /\ Sweep) \/ (a \in Cancels /\ Cancel(a)) PROVE Goal
  <2>1. PICK r \in Acts : act' = [act EXCEPT ![a] = r] /\ r.pc = "finish"
    BY <1>14, FinishStarts
  <2>2. act'[a].pc = "finish" /\ \A b \in Actors \ {a} : act'[b] = act[b]
    BY <1>0, <2>1
  <2>3. told' = told
    BY <1>14 DEF Sweep, Cancel, world
  <2> QED
    BY <1>1, <2>2, <2>3 DEF Ways
<1>15. ASSUME NEW a \in Actors, ReadForFinish(a) PROVE Goal
  <2>1. told' = told
    BY <1>15 DEF ReadForFinish, world
  <2>2. CASE Over(a)
    BY <1>1, <1>5, <2>1, <2>2
  <2>3. CASE act[a].mission \in Active /\ \E p \in {"close", "book"} : Goto(a, p)
    <3>1. act[a].mission # m
        BY <2>3
    <3>2. act[a].why \in Endings \union {"none"}
        BY <1>0 DEF Acts
    <3> QED
        BY <1>4, <2>1, <2>3, <3>1, <3>2 DEF Goto, Ways
  <2> QED
    BY <1>15, <2>2, <2>3 DEF ReadForFinish
<1>16. ASSUME NEW a \in Actors, BookReminder(a) \/ CloseMission(a) PROVE Goal
  <2>1. /\ act[a].pc \in Ways /\ told' = told /\ act[a].why \in Endings \union {"none"}
        /\ \E p \in {"close", "report"} : Goto(a, p)
    BY <1>0, <1>16 DEF BookReminder, CloseMission, Ways, world, Acts
  <2> QED
    BY <1>4, <2>1 DEF Goto, Ways
<1>17. ASSUME NEW a \in Actors, Report(a) PROVE Goal
  <2>1. /\ \A b \in Actors \ {a} : act'[b] = act[b]
        /\ act'[a].pc \notin Ways /\ act[a].pc = "report" /\ act[a].mission \in Missions
        /\ told' = [told EXCEPT ![act[a].mission] = told[act[a].mission] + 1]
    BY <1>0, <1>5, <1>17 DEF Report, ActorInv
  <2>2. Finishing(m)' \subseteq Finishing(m) /\ a \notin Finishing(m)'
    BY <2>1 DEF Finishing, Ways
  <2>3. CASE act[a].mission = m
    <3>1. a \in Finishing(m) /\ told'[m] = told[m] + 1
        BY <1>0, <2>1, <2>3 DEF Finishing
    <3> QED
        BY <2>2, <3>1
  <2>4. CASE act[a].mission # m
    BY <1>0, <2>1, <2>2, <2>4
  <2> QED
    BY <2>3, <2>4
<1>18. ASSUME NEW a \in Actors, Throws(a) PROVE Goal
    BY <1>3, <1>18 DEF Throws, world
<1>19. CASE UNCHANGED vars
    BY <1>2, <1>19 DEF vars, world
<1>20. Goal
    BY <1>0, <1>6, <1>7, <1>8, <1>9, <1>10, <1>11, <1>12, <1>13, <1>14, <1>15, <1>16, <1>17, <1>18, <1>19
       DEF Next, Turn, Finish
<1> QED
    BY <1>20

(* No step ends a mission and reports it, or reports one that goes on.     *)
LEMMA ToldAfterTheEnd ==
    ASSUME TypeOK, MissionInv, [Next]_vars, NEW m \in Missions, mission[m].status \in {"none", "active"}
    PROVE  told'[m] = told[m]
<1>0. /\ act \in [Actors -> Acts] /\ told \in [Missions -> Nat] /\ ActorInv
    BY TypeFacts DEF MissionInv
<1>1. ASSUME NEW a \in Actors, Report(a) PROVE told'[m] = told[m]
  <2>1. /\ act[a].mission \in Missions /\ act[a].mission \notin Active
        /\ mission[act[a].mission].status # "none"
        /\ told' = [told EXCEPT ![act[a].mission] = told[act[a].mission] + 1]
    <3>1. act[a].pc = "report"
        BY <1>1 DEF Report
    <3>2. act[a].mission \in Missions /\ mission[act[a].mission].status # "none" /\ act[a].mission \notin Active
        BY <1>0, <3>1 DEF ActorInv
    <3> QED
        BY <1>1, <3>2 DEF Report
  <2> QED
    BY <1>0, <2>1 DEF Active
<1>2. CASE told' = told
    BY <1>2
<1>3. ASSUME NEW n \in Missions, StartMission(n) \/ Start(n) \/ StartThrows(n) \/ DeadlinePasses(n)
      PROVE  told' = told
    BY <1>3 DEF Start, StartMission, SendOpening, RecordMission, StartThrows, DeadlinePasses, world
<1>4. ASSUME NEW d \in Hooks, (\E x \in Messages : Deliver(d, x)) \/ Hook(d) \/ HookThrows(d)
      PROVE  told' = told
    BY <1>4 DEF Hook, Deliver, LookForDuplicate, StoreInbound, QueueTurn, HookThrows, world
<1>5. ASSUME Turn \/ Sweep \/ (\E x \in Messages : TakeJob(x)) \/ (\E k \in Cancels : Cancel(k))
      PROVE  told' = told
    BY <1>5 DEF Turn, FindMission, ModelAnswers, SendReply, PersistReply, CountMessages, Sweep, Cancel,
               TakeJob, world
<1>6. ASSUME NEW a \in Actors, ReadForFinish(a) \/ BookReminder(a) \/ CloseMission(a) \/ Throws(a)
      PROVE  told' = told
    BY <1>6 DEF ReadForFinish, BookReminder, CloseMission, Throws, world
<1>7. CASE UNCHANGED vars
    BY <1>7 DEF vars, world
<1> QED
    BY <1>1, <1>2, <1>3, <1>4, <1>5, <1>6, <1>7 DEF Next, Finish

LEMMA EndsAreFinal ==
    ASSUME TypeOK, MissionInv, [Next]_vars, NEW m \in Missions, mission[m].status \in {"done", "stopped"}
    PROVE  mission'[m].status \in {"done", "stopped"}
<1>0. mission \in [Missions -> Rows] /\ StartInv
    BY TypeFacts DEF MissionInv
<1>1. ASSUME NEW n \in Missions, StartMission(n) \/ Start(n) \/ StartThrows(n) \/ DeadlinePasses(n)
      PROVE  mission'[m] = mission[m]
    BY <1>0, <1>1 DEF Start, StartMission, SendOpening, RecordMission, StartThrows, DeadlinePasses, StartInv
<1>2. ASSUME NEW d \in Hooks, (\E x \in Messages : Deliver(d, x)) \/ Hook(d) \/ HookThrows(d)
      PROVE  mission' = mission
    BY <1>2 DEF Hook, Deliver, LookForDuplicate, StoreInbound, QueueTurn, HookThrows
<1>3. CASE FindMission \/ ModelAnswers \/ SendReply \/ PersistReply \/ Sweep
    BY <1>3 DEF FindMission, ModelAnswers, SendReply, PersistReply, Sweep
<1>4. CASE (\E x \in Messages : TakeJob(x)) \/ (\E k \in Cancels : Cancel(k))
    BY <1>4 DEF Cancel, TakeJob
<1>5. CASE CountMessages
  <2> DEFINE w == act[Worker]
             e == [mission[w.mission] EXCEPT !.count = w.seen]
  <2>1. mission' = [mission EXCEPT ![w.mission] = e]
    BY <1>5 DEF CountMessages
  <2>2. w.mission = m => e.status = mission[m].status
    BY <1>0 DEF Rows
  <2> HIDE DEF e, w
  <2> QED
    BY <1>0, <2>1, <2>2
<1>6. ASSUME NEW a \in Actors, ReadForFinish(a) \/ BookReminder(a) \/ Report(a) \/ Throws(a)
      PROVE  mission' = mission
    BY <1>6 DEF ReadForFinish, BookReminder, Report, Throws
<1>7. ASSUME NEW a \in Actors, CloseMission(a) PROVE mission'[m].status \in {"done", "stopped"}
  <2> DEFINE st == IF act[a].why = "completed" THEN "done" ELSE "stopped"
             e == [mission[act[a].mission] EXCEPT !.status = st]
  <2>1. mission' = [mission EXCEPT ![act[a].mission] = e]
    BY <1>7 DEF CloseMission
  <2>2. act[a].mission = m => e.status \in {"done", "stopped"}
    BY <1>0 DEF Rows
  <2> HIDE DEF e
  <2> QED
    BY <1>0, <2>1, <2>2
<1>8. CASE UNCHANGED vars
    BY <1>8 DEF vars
<1> QED
    BY <1>1, <1>2, <1>3, <1>4, <1>5, <1>6, <1>7, <1>8 DEF Next, Finish, Turn

(* The reports of a mission and the actors on their way to one.            *)
LEMMA ReportStep ==
    ASSUME TypeOK, MissionInv, ReportInv, [Next]_vars
    PROVE  ReportInv'
<1>0. /\ mission \in [Missions -> Rows] /\ told \in [Missions -> Nat] /\ TypeOK'
      /\ mission' \in [Missions -> Rows]
    BY TypeFacts, MissionStep DEF Keeps, TypeOK, Rows
<1>1. IsFiniteSet(Actors) /\ Cardinality(Actors) \in Nat
    BY MissionConstants, FS_AddElement, FS_CardinalityType DEF Actors
<1> SUFFICES ASSUME NEW m \in Missions
             PROVE  /\ mission'[m].status \in {"none", "active"} => told'[m] = 0
                    /\ told'[m] + Cardinality(Finishing(m)') <= Cardinality(Actors)
    BY DEF ReportInv, Finishing
<1>2. /\ mission[m].status \in {"none", "active"} => told[m] = 0
      /\ told[m] \in Nat /\ told[m] + Cardinality(Finishing(m)) <= Cardinality(Actors)
    BY <1>0 DEF ReportInv
<1>3. /\ IsFiniteSet(Finishing(m)) /\ Cardinality(Finishing(m)) \in Nat
      /\ IsFiniteSet(Finishing(m)') /\ Cardinality(Finishing(m)') \in Nat
      /\ Cardinality(Finishing(m)') <= Cardinality(Actors)
  <2>1. Finishing(m) \subseteq Actors /\ Finishing(m)' \subseteq Actors
    BY DEF Finishing
  <2> QED
    BY <1>1, <2>1, FS_Subset, FS_CardinalityType
<1>4. CASE mission[m].status \in {"none", "active"}
  <2>1. told'[m] = 0
    BY <1>2, <1>4, ToldAfterTheEnd
  <2> QED
    BY <1>1, <1>3, <2>1
<1>5. CASE mission[m].status \in {"done", "stopped"}
  <2>1. mission'[m].status \notin {"none", "active"}
    BY <1>5, EndsAreFinal
  <2>2. m \notin Active
    BY <1>5 DEF Active
  <2>3. Finishing(m)' \subseteq Finishing(m)
    BY <2>2, NobodyJoins
  <2>4. Cardinality(Finishing(m)') <= Cardinality(Finishing(m))
    BY <1>3, <2>3, FS_Subset
  <2>5. CASE told'[m] = told[m]
    BY <1>1, <1>2, <1>3, <2>1, <2>4, <2>5
  <2>6. CASE told'[m] = told[m] + 1 /\ \E a \in Finishing(m) : a \notin Finishing(m)'
    <3>1. Finishing(m)' # Finishing(m)
        BY <2>6
    <3>2. Cardinality(Finishing(m)') < Cardinality(Finishing(m))
        BY <1>3, <2>3, <3>1, FS_Subset
    <3> QED
        BY <1>1, <1>2, <1>3, <2>1, <2>6, <3>2
  <2> QED
    BY <2>2, <2>5, <2>6, NobodyJoins
<1> QED
    BY <1>0, <1>4, <1>5 DEF Rows

(* A mission is reported no more often than there are actors, and never     *)
(* while it goes on, whoever cancels while the sweep or a turn finishes it  *)
(* (finish reads the status, the update does not look at it again).         *)
THEOREM ReportedByEachOnce == Spec => []ReportsAfterTheEnd
<1>1. Init => ReportInv
  <2> SUFFICES ASSUME Init, NEW m \in Missions
               PROVE  told[m] = 0 /\ Finishing(m) = {} /\ Cardinality(Actors) \in Nat
    BY FS_EmptySet DEF ReportInv
  <2>1. IsFiniteSet(Actors)
    BY MissionConstants, FS_AddElement DEF Actors
  <2> QED
    BY <2>1, FS_CardinalityType DEF Init, Idle, Finishing
<1>2. TypeOK /\ MissionInv /\ ReportInv /\ [Next]_vars => ReportInv'
    BY ReportStep
<1>3. TypeOK /\ ReportInv => ReportsAfterTheEnd
  <2> SUFFICES ASSUME TypeOK, ReportInv, NEW m \in Missions
               PROVE  told[m] <= Cardinality(Actors) /\ (m \in Active => told[m] = 0)
    BY DEF ReportsAfterTheEnd
  <2>1. IsFiniteSet(Actors) /\ Finishing(m) \subseteq Actors
    BY MissionConstants, FS_AddElement DEF Actors, Finishing
  <2>2. Cardinality(Finishing(m)) \in Nat /\ Cardinality(Actors) \in Nat
    BY <2>1, FS_Subset, FS_CardinalityType
  <2> QED
    BY <2>2, TypeFacts DEF ReportInv, Active
<1> QED
    BY <1>1, <1>2, <1>3, MissionInvariant, PTL DEF Spec

(* Both hold together, whatever fails: repeated webhooks and competing ends *)
(* (ingestInbound, onInbound, finish).                                      *)
THEOREM MissionsStayInOrder == Spec => []MissionSafe
<1>1. OneTurnPerMessage /\ ReportsAfterTheEnd => MissionSafe
    BY DEF MissionSafe
<1> QED
    BY <1>1, DuplicatesIgnored, ReportedByEachOnce, PTL

===============================================================================
