------------------------------- MODULE Reminders -------------------------------
(***************************************************************************)
(* A reminder from its row through its delayed job to its notification.    *)
(*   src/reminders/reminder.service.ts       create, cancel                *)
(*   src/reminders/queue/processors/reminder-delivery.processor.ts process *)
(*   src/reminders/queue/reminder-queue.constants.ts     attempts          *)
(*   src/notifications/notification.service.ts           create            *)
(* The queue is BullMQ: a job is handed to one worker, retried when the    *)
(* processor throws, and handed out again when its worker lost the lock    *)
(* (a crash, or an event loop blocked too long: the first run goes on).    *)
(* Due times are left out: a delayed job may be picked up at any moment.   *)
(***************************************************************************)
EXTENDS Naturals, FiniteSets

CONSTANTS Reminders, Workers, ReminderCancels, NoReminder, NoWorker,
          DeliveryAttempts, \* REMINDER_JOB_DEFAULT_OPTIONS.attempts
          MaxStalls,        \* how often the queue recovers a stalled job
          FaultyDelivery,   \* the awaited calls that may fail
          MaxMishaps        \* bound on failures and crashes

ReminderSteps == {"load", "claim", "notify", "queue", "link", "cancel", "stall", "crash"}

ASSUME ReminderConstants ==
    /\ NoReminder \notin Reminders /\ NoWorker \notin Workers
    /\ DeliveryAttempts \in Nat \ {0} /\ MaxStalls \in Nat /\ MaxMishaps \in Nat
    /\ FaultyDelivery \subseteq ReminderSteps

VARIABLES
    row,        \* row[r]: status and bullJobId of the reminder
    creating,   \* creating[r]: where its create() call stands
    delayed,    \* delayed[r]: its BullMQ job
    run,        \* run[w]: the job a worker processes
    cancelling, \* cancelling[k]: a cancel() call
    notes,      \* notes[r]: notifications stored for it
    mishaps

reminderVars == <<row, creating, delayed, run, cancelling, notes, mishaps>>

Resting == [pc |-> "idle", reminder |-> NoReminder]

ReminderTypeOK ==
    /\ row \in [Reminders -> [status : {"none", "scheduled", "delivered", "cancelled"},
                              linked : BOOLEAN]]
    /\ creating \in [Reminders -> {"none", "queue", "link", "returned", "thrown"}]
    /\ delayed \in [Reminders -> [state : {"none", "waiting", "active", "completed", "failed", "removed"},
                                  worker : Workers \union {NoWorker},
                                  made : 0..DeliveryAttempts, stalls : 0..MaxStalls]]
    /\ run \in [Workers -> [pc : {"idle", "load", "claim", "notify"},
                            reminder : Reminders \union {NoReminder}]]
    /\ cancelling \in [ReminderCancels -> [pc : {"idle", "remove", "write", "returned"},
                                           reminder : Reminders \union {NoReminder}]]
    /\ notes \in [Reminders -> Nat]
    /\ mishaps \in 0..MaxMishaps

ReminderInit ==
    /\ row = [r \in Reminders |-> [status |-> "none", linked |-> FALSE]]
    /\ creating = [r \in Reminders |-> "none"]
    /\ delayed = [r \in Reminders |-> [state |-> "none", worker |-> NoWorker, made |-> 0, stalls |-> 0]]
    /\ run = [w \in Workers |-> Resting]
    /\ cancelling = [k \in ReminderCancels |-> Resting]
    /\ notes = [r \in Reminders |-> 0]
    /\ mishaps = 0

Mishap(step) == step \in FaultyDelivery /\ mishaps < MaxMishaps /\ mishaps' = mishaps + 1

-------------------------------------------------------------------------------
(* ReminderService.create: the row, the delayed job, the link between them. *)

CreateRow(r) ==
    /\ creating[r] = "none"
    /\ row' = [row EXCEPT ![r].status = "scheduled"]
    /\ creating' = [creating EXCEPT ![r] = "queue"]
    /\ UNCHANGED <<delayed, run, cancelling, notes, mishaps>>

QueueJob(r) ==
    /\ creating[r] = "queue"
    /\ delayed' = [delayed EXCEPT ![r].state = "waiting"]
    /\ creating' = [creating EXCEPT ![r] = "link"]
    /\ UNCHANGED <<row, run, cancelling, notes, mishaps>>

LinkJob(r) ==
    /\ creating[r] = "link"
    /\ row' = [row EXCEPT ![r].linked = TRUE]
    /\ creating' = [creating EXCEPT ![r] = "returned"]
    /\ UNCHANGED <<delayed, run, cancelling, notes, mishaps>>

CreateThrows(r) ==
    /\ creating[r] \in {"queue", "link"} /\ Mishap(creating[r])
    /\ creating' = [creating EXCEPT ![r] = "thrown"]
    /\ UNCHANGED <<row, delayed, run, cancelling, notes>>

-------------------------------------------------------------------------------
(* ReminderDeliveryProcessor.process *)

PickUp(w, r) ==
    /\ run[w].pc = "idle" /\ delayed[r].state = "waiting"
    /\ run' = [run EXCEPT ![w] = [pc |-> "load", reminder |-> r]]
    /\ delayed' = [delayed EXCEPT ![r].state = "active", ![r].worker = w]
    /\ UNCHANGED <<row, creating, cancelling, notes, mishaps>>

(* A run reports to the queue only while it holds the job's lock. *)
FinishRun(w, r) ==
    /\ run' = [run EXCEPT ![w] = Resting]
    /\ delayed' = IF delayed[r].state = "active" /\ delayed[r].worker = w
                  THEN [delayed EXCEPT ![r].state = "completed"]
                  ELSE delayed

(* Already delivered or cancelled: nothing to do. *)
LoadReminder(w) ==
    /\ run[w].pc = "load"
    /\ LET r == run[w].reminder
       IN  \/ row[r].status \in {"delivered", "cancelled"} /\ FinishRun(w, r)
           \/ /\ row[r].status = "scheduled"
              /\ run' = [run EXCEPT ![w].pc = "claim"]
              /\ UNCHANGED delayed
    /\ UNCHANGED <<row, creating, cancelling, notes, mishaps>>

(* Mutant: the claim is a plain update. *)
ClaimDeliveryUnguarded(w) ==
    /\ run[w].pc = "claim"
    /\ row' = [row EXCEPT ![run[w].reminder].status = "delivered"]
    /\ run' = [run EXCEPT ![w].pc = "notify"]
    /\ UNCHANGED <<creating, delayed, cancelling, notes, mishaps>>

(* The conditional update of a row still scheduled. *)
ClaimDelivery(w) ==
    /\ run[w].pc = "claim"
    /\ LET r == run[w].reminder
       IN  \/ row[r].status # "scheduled" /\ FinishRun(w, r) /\ UNCHANGED row
           \/ /\ row[r].status = "scheduled"
              /\ row' = [row EXCEPT ![r].status = "delivered"]
              /\ run' = [run EXCEPT ![w].pc = "notify"]
              /\ UNCHANGED delayed
    /\ UNCHANGED <<creating, cancelling, notes, mishaps>>

NotifyUser(w) ==
    /\ run[w].pc = "notify"
    /\ notes' = [notes EXCEPT ![run[w].reminder] = @ + 1]
    /\ FinishRun(w, run[w].reminder)
    /\ UNCHANGED <<row, creating, cancelling, mishaps>>

(* Mutant: a single attempt. *)
RetryNever(j) == [j EXCEPT !.state = "failed", !.worker = NoWorker]

(* The options of the job: attempts, then the failed set. *)
Retry(j) == IF j.made + 1 < DeliveryAttempts
            THEN [j EXCEPT !.state = "waiting", !.made = @ + 1, !.worker = NoWorker]
            ELSE [j EXCEPT !.state = "failed", !.made = @ + 1, !.worker = NoWorker]

DeliveryThrows(w) ==
    /\ run[w].pc # "idle" /\ Mishap(run[w].pc)
    /\ LET r == run[w].reminder
       IN  delayed' = IF delayed[r].state = "active" /\ delayed[r].worker = w
                      THEN [delayed EXCEPT ![r] = Retry(@)]
                      ELSE delayed
    /\ run' = [run EXCEPT ![w] = Resting]
    /\ UNCHANGED <<row, creating, cancelling, notes>>

(* The queue finds the lock of an active job expired: its worker died, or  *)
(* goes on without it.                                                     *)
Alive(r) == delayed[r].worker # NoWorker /\ run[delayed[r].worker].reminder = r

Recover(r) ==
    /\ delayed[r].state = "active"
    /\ delayed' = [delayed EXCEPT ![r].worker = NoWorker,
                                  ![r].state = IF delayed[r].stalls < MaxStalls THEN "waiting" ELSE "failed",
                                  ![r].stalls = IF @ < MaxStalls THEN @ + 1 ELSE @]
    /\ UNCHANGED <<row, creating, run, cancelling, notes>>

RecoverDead(r) == ~Alive(r) /\ Recover(r) /\ UNCHANGED mishaps

LoseLock(r) == Alive(r) /\ Recover(r) /\ Mishap("stall")

-------------------------------------------------------------------------------
(* ReminderService.cancel *)

(* A reminder no longer scheduled is returned as it is. *)
CancelReminder(k, r) ==
    /\ cancelling[k].pc = "idle" /\ row[r].status # "none"
    /\ cancelling' = [cancelling EXCEPT ![k] =
            [pc |-> IF row[r].status # "scheduled" THEN "returned"
                    ELSE IF row[r].linked THEN "remove" ELSE "write",
             reminder |-> r]]
    /\ UNCHANGED <<row, creating, delayed, run, notes, mishaps>>

(* job.remove() fails on a job that a worker has locked; that is logged. *)
RemoveJob(k) ==
    /\ cancelling[k].pc = "remove"
    /\ LET r == cancelling[k].reminder
       IN  delayed' = IF delayed[r].state = "active" THEN delayed
                      ELSE [delayed EXCEPT ![r].state = "removed"]
    /\ cancelling' = [cancelling EXCEPT ![k].pc = "write"]
    /\ UNCHANGED <<row, creating, run, notes, mishaps>>

(* The update does not look at the status again. *)
WriteCancelled(k) ==
    /\ cancelling[k].pc = "write"
    /\ row' = [row EXCEPT ![cancelling[k].reminder].status = "cancelled"]
    /\ cancelling' = [cancelling EXCEPT ![k].pc = "returned"]
    /\ UNCHANGED <<creating, delayed, run, notes, mishaps>>

CancelThrows(k) ==
    /\ cancelling[k].pc \in {"remove", "write"} /\ Mishap("cancel")
    /\ cancelling' = [cancelling EXCEPT ![k].pc = "returned"]
    /\ UNCHANGED <<row, creating, delayed, run, notes>>

(* The process dies: calls and runs are gone, rows and jobs stay. *)
Crash ==
    /\ Mishap("crash")
    /\ creating' = [r \in Reminders |-> IF creating[r] \in {"queue", "link"} THEN "thrown" ELSE creating[r]]
    /\ run' = [w \in Workers |-> Resting]
    /\ cancelling' = [k \in ReminderCancels |-> IF cancelling[k].pc = "idle" THEN cancelling[k]
                                        ELSE [cancelling[k] EXCEPT !.pc = "returned"]]
    /\ UNCHANGED <<row, delayed, notes>>

DeliverReminder(w) == (\E r \in Reminders : PickUp(w, r)) \/ LoadReminder(w) \/ ClaimDelivery(w) \/ NotifyUser(w)

Create(r) == CreateRow(r) \/ QueueJob(r) \/ LinkJob(r)

ReminderNext ==
    \/ \E r \in Reminders : Create(r) \/ CreateThrows(r) \/ RecoverDead(r) \/ LoseLock(r)
    \/ \E w \in Workers : DeliverReminder(w) \/ DeliveryThrows(w)
    \/ \E k \in ReminderCancels :
        \/ \E r \in Reminders : CancelReminder(k, r)
        \/ RemoveJob(k) \/ WriteCancelled(k) \/ CancelThrows(k)
    \/ Crash

ReminderSpec == ReminderInit /\ [][ReminderNext]_reminderVars

(* Calls return and a worker takes waiting jobs; nobody has to cancel. *)
ReminderFairness ==
    /\ \A r \in Reminders : WF_reminderVars(QueueJob(r) \/ LinkJob(r)) /\ WF_reminderVars(RecoverDead(r))
    /\ \A w \in Workers : WF_reminderVars(DeliverReminder(w))
    /\ \A k \in ReminderCancels : WF_reminderVars(RemoveJob(k) \/ WriteCancelled(k))

-------------------------------------------------------------------------------
(* Properties *)

(* A reminder is notified once at most, although the queue may run its job *)
(* several times, two of them at the same time.                            *)
AtMostOneNotification == \A r \in Reminders : notes[r] <= 1

(* Why that is so: a run that has claimed a reminder is the only one, has  *)
(* not notified yet, and has left the row in a status nobody can claim     *)
(* from; jobs that may run again have attempts left.                       *)
Notifying(w, r) == run[w].pc = "notify" /\ run[w].reminder = r

PlacesInv ==
    /\ \A w \in Workers : run[w].pc # "idle" => run[w].reminder \in Reminders
    /\ \A k \in ReminderCancels : cancelling[k].pc \in {"remove", "write"} =>
            cancelling[k].reminder \in Reminders /\ creating[cancelling[k].reminder] # "none"
    /\ \A r \in Reminders : row[r].status # "none" => creating[r] # "none"

AttemptsInv ==
    \A r \in Reminders :
        /\ delayed[r].state \in {"waiting", "active"} => delayed[r].made < DeliveryAttempts
        /\ creating[r] \in {"none", "queue"} =>
                delayed[r].made = 0 /\ delayed[r].state \notin {"waiting", "active"}

ClaimInv ==
    \A r \in Reminders :
        /\ notes[r] \in {0, 1}
        /\ notes[r] = 1 => row[r].status \in {"delivered", "cancelled"}
        /\ \A w \in Workers : Notifying(w, r) =>
                /\ row[r].status \in {"delivered", "cancelled"} /\ notes[r] = 0
                /\ \A v \in Workers : Notifying(v, r) => v = w

DeliveryInv == PlacesInv /\ AttemptsInv /\ ClaimInv

(* Some run has claimed the reminder.                                      *)
Claimed(r) == notes[r] > 0 \/ \E w \in Workers : Notifying(w, r)

(* No notification is stored for a reminder whose row was cancelled before *)
(* any run had claimed it, even if the job could not be removed.           *)
CancelledIsQuiet ==
    [][\A r \in Reminders : row[r].status = "cancelled" /\ ~Claimed(r) => notes'[r] = 0 /\ ~Claimed(r)']_reminderVars

(* The job was given up: it failed as often as it may, or its worker was   *)
(* lost once more than the queue recovers it.                              *)
Exhausted(r) ==
    /\ delayed[r].state = "failed"
    /\ delayed[r].made = DeliveryAttempts \/ delayed[r].stalls = MaxStalls

(* A claim whose run failed or died before it stored the notification. *)
LostAfterClaim(r) == row[r].status = "delivered" /\ ~Claimed(r)

(* Whatever fails, a reminder whose creation was acknowledged does not     *)
(* stay scheduled: its user is notified or has it cancelled (the job is    *)
(* gone even if the last write of cancel fails), unless the queue has used *)
(* up its retries or the claim was wasted.                                 *)
EventuallyNotified ==
    \A r \in Reminders :
        creating[r] = "returned" ~>
            \/ notes[r] = 1
            \/ row[r].status = "cancelled" \/ delayed[r].state = "removed"
            \/ Exhausted(r) \/ LostAfterClaim(r)

(* A reminder is never lost silently: once its job is over, its user has   *)
(* the notification, or cancelled it.                                      *)
NeverLostSilently ==
    \A r \in Reminders :
        delayed[r].state \in {"completed", "failed"} /\ (\A w \in Workers : run[w].reminder # r) =>
            notes[r] = 1 \/ row[r].status = "cancelled"

-------------------------------------------------------------------------------
(* What the documents say and the code does not keep: no run checks these; *)
(* README.md tells how each of them fails.                                 *)

(* Cancelling a delivered reminder changes nothing. *)
DeliveredStaysDelivered ==
    [][\A r \in Reminders : row[r].status = "delivered" => row'[r].status = "delivered"]_reminderVars
===============================================================================
