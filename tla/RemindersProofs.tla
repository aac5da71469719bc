--------------------------- MODULE RemindersProofs ---------------------------
(***************************************************************************)
(* Proofs about Reminders, for any number of reminders, workers, cancel    *)
(* calls, attempts and faults.                                             *)
(***************************************************************************)
EXTENDS Reminders, TLAPS

IInv == ReminderTypeOK /\ DeliveryInv

Jobs == [state : {"none", "waiting", "active", "completed", "failed", "removed"},
         worker : Workers \union {NoWorker}, made : 0..DeliveryAttempts, stalls : 0..MaxStalls]

Rows == [status : {"none", "scheduled", "delivered", "cancelled"}, linked : BOOLEAN]
Runs == [pc : {"idle", "load", "claim", "notify"}, reminder : Reminders \union {NoReminder}]

(* A row, a job or a run that only changes its state keeps its type. *)
LEMMA RowMoves ==
    ASSUME NEW f \in [Reminders -> Rows], NEW r \in Reminders
    PROVE  /\ [f EXCEPT ![r].status = "scheduled"] \in [Reminders -> Rows]
           /\ [f EXCEPT ![r].linked = TRUE] \in [Reminders -> Rows]
<1>1. [f[r] EXCEPT !.status = "scheduled"] \in Rows /\ [f[r] EXCEPT !.linked = TRUE] \in Rows
    BY DEF Rows
<1> QED
    BY <1>1

LEMMA JobMoves ==
    ASSUME NEW f \in [Reminders -> Jobs], NEW r \in Reminders, NEW s \in {"waiting", "removed"}
    PROVE  [f EXCEPT ![r].state = s] \in [Reminders -> Jobs]
<1>1. [f[r] EXCEPT !.state = s] \in Jobs
    BY DEF Jobs
<1> QED
    BY <1>1

LEMMA RunMoves ==
    ASSUME NEW f \in [Workers -> Runs], NEW w \in Workers, NEW pc \in {"idle", "load", "claim", "notify"}
    PROVE  [f EXCEPT ![w].pc = pc] \in [Workers -> Runs]
<1>1. [f[w] EXCEPT !.pc = pc] \in Runs
    BY DEF Runs
<1> QED
    BY <1>1

(* The initial state satisfies the inductive invariant. *)
LEMMA InitInv == ReminderInit => IInv
<1> SUFFICES ASSUME ReminderInit PROVE IInv
    OBVIOUS
<1> USE ReminderConstants
<1>1. ReminderTypeOK
    BY DEF ReminderInit, ReminderTypeOK, Resting
<1>2. DeliveryInv
    BY DEF ReminderInit, DeliveryInv, PlacesInv, AttemptsInv, ClaimInv, Resting, Notifying
<1> QED
    BY <1>1, <1>2 DEF IInv

(* A run that returns frees its worker and starts no job. *)
LEMMA FinishEffect ==
    ASSUME ReminderTypeOK, NEW w \in Workers, NEW r \in Reminders, FinishRun(w, r)
    PROVE  /\ run' = [run EXCEPT ![w] = Resting]
           /\ delayed' \in [Reminders -> Jobs]
           /\ \A q \in Reminders :
                /\ delayed'[q].made = delayed[q].made
                /\ delayed'[q].state \in {"waiting", "active"} => delayed'[q].state = delayed[q].state
BY DEF ReminderTypeOK, FinishRun, Jobs

(* Every step of create() preserves it. *)
LEMMA CreateStep ==
    ASSUME IInv, NEW r \in Reminders, Create(r) \/ CreateThrows(r)
    PROVE  IInv'
<1> USE ReminderConstants DEF IInv, DeliveryInv
<1>1. CASE CreateRow(r)
    <2>1. ReminderTypeOK'
        <3>1. row \in [Reminders -> Rows]
            BY DEF ReminderTypeOK, Rows
        <3>2. row' \in [Reminders -> Rows]
            BY <1>1, <3>1, RowMoves DEF CreateRow
        <3>3. creating' \in [Reminders -> {"none", "queue", "link", "returned", "thrown"}]
            BY <1>1 DEF CreateRow, ReminderTypeOK
        <3> QED
            BY <1>1, <3>2, <3>3 DEF CreateRow, ReminderTypeOK, Rows
    <2>2. PlacesInv'
        BY <1>1 DEF CreateRow, ReminderTypeOK, PlacesInv
    <2>3. AttemptsInv'
        BY <1>1 DEF CreateRow, ReminderTypeOK, AttemptsInv
    <2>4. ClaimInv'
        BY <1>1 DEF CreateRow, ReminderTypeOK, ClaimInv, PlacesInv, Notifying
    <2> QED
        BY <2>1, <2>2, <2>3, <2>4
<1>2. CASE QueueJob(r)
    <2>1. ReminderTypeOK'
        <3>1. delayed \in [Reminders -> Jobs]
            BY DEF ReminderTypeOK, Jobs
        <3>2. delayed' \in [Reminders -> Jobs]
            BY <1>2, <3>1, JobMoves DEF QueueJob
        <3>3. creating' \in [Reminders -> {"none", "queue", "link", "returned", "thrown"}]
            BY <1>2 DEF QueueJob, ReminderTypeOK
        <3> QED
            BY <1>2, <3>2, <3>3 DEF QueueJob, ReminderTypeOK, Jobs
    <2>2. PlacesInv'
        BY <1>2 DEF QueueJob, ReminderTypeOK, PlacesInv
    <2>3. AttemptsInv'
        BY <1>2 DEF QueueJob, ReminderTypeOK, AttemptsInv
    <2>4. ClaimInv'
        BY <1>2 DEF QueueJob, ReminderTypeOK, ClaimInv, PlacesInv, Notifying
    <2> QED
        BY <2>1, <2>2, <2>3, <2>4
<1>3. CASE LinkJob(r)
    <2>1. ReminderTypeOK'
        <3>1. row \in [Reminders -> Rows]
            BY DEF ReminderTypeOK, Rows
        <3>2. row' \in [Reminders -> Rows]
            BY <1>3, <3>1, RowMoves DEF LinkJob
        <3>3. creating' \in [Reminders -> {"none", "queue", "link", "returned", "thrown"}]
            BY <1>3 DEF LinkJob, ReminderTypeOK
        <3> QED
            BY <1>3, <3>2, <3>3 DEF LinkJob, ReminderTypeOK, Rows
    <2>2. PlacesInv'
        BY <1>3 DEF LinkJob, ReminderTypeOK, PlacesInv
    <2>3. AttemptsInv'
        BY <1>3 DEF LinkJob, ReminderTypeOK, AttemptsInv
    <2>4. ClaimInv'
        BY <1>3 DEF LinkJob, ReminderTypeOK, ClaimInv, PlacesInv, Notifying
    <2> QED
        BY <2>1, <2>2, <2>3, <2>4
<1>4. CASE CreateThrows(r)
    <2>1. ReminderTypeOK'
        BY <1>4 DEF CreateThrows, ReminderTypeOK, Mishap
    <2>2. PlacesInv'
        BY <1>4 DEF CreateThrows, ReminderTypeOK, PlacesInv, Mishap
    <2>3. AttemptsInv'
        BY <1>4 DEF CreateThrows, ReminderTypeOK, AttemptsInv, Mishap
    <2>4. ClaimInv'
        BY <1>4 DEF CreateThrows, ReminderTypeOK, ClaimInv, PlacesInv, Notifying, Mishap
    <2> QED
        BY <2>1, <2>2, <2>3, <2>4
<1> QED
    BY <1>1, <1>2, <1>3, <1>4 DEF Create

(* Every step of the processor preserves it. *)
LEMMA DeliverStep ==
    ASSUME IInv, NEW w \in Workers, DeliverReminder(w)
    PROVE  IInv'
<1> USE ReminderConstants DEF IInv, DeliveryInv
<1>1. ASSUME NEW r \in Reminders, PickUp(w, r)
      PROVE  IInv'
    <2>1. ReminderTypeOK'
        <3>1. delayed' \in [Reminders -> Jobs]
            <4>1. delayed[r] \in Jobs
                BY DEF ReminderTypeOK, Jobs
            <4>2. [delayed[r] EXCEPT !.state = "active", !.worker = w] \in Jobs
                BY <4>1 DEF Jobs
            <4>3. delayed' = [delayed EXCEPT ![r] = [delayed[r] EXCEPT !.state = "active", !.worker = w]]
                BY <1>1 DEF PickUp, ReminderTypeOK
            <4> QED
                BY <4>2, <4>3 DEF ReminderTypeOK, Jobs
        <3>2. run' \in [Workers -> [pc : {"idle", "load", "claim", "notify"},
                                    reminder : Reminders \union {NoReminder}]]
            BY <1>1 DEF PickUp, ReminderTypeOK
        <3> QED
            BY <1>1, <3>1, <3>2 DEF PickUp, ReminderTypeOK, Jobs
    <2>2. PlacesInv'
        BY <1>1 DEF PickUp, ReminderTypeOK, PlacesInv
    <2>3. AttemptsInv'
        BY <1>1 DEF PickUp, ReminderTypeOK, AttemptsInv
    <2>4. ClaimInv'
        BY <1>1 DEF PickUp, ReminderTypeOK, ClaimInv, PlacesInv, Notifying
    <2> QED
        BY <2>1, <2>2, <2>3, <2>4
<1>2. CASE LoadReminder(w)
    <2> DEFINE r == run[w].reminder
    <2>1. r \in Reminders
        BY <1>2 DEF LoadReminder, PlacesInv
    <2>2. CASE FinishRun(w, r)
        <3>0. /\ run' = [run EXCEPT ![w] = Resting]
              /\ delayed' \in [Reminders -> Jobs]
              /\ \A q \in Reminders :
                   /\ delayed'[q].made = delayed[q].made
                   /\ delayed'[q].state \in {"waiting", "active"} => delayed'[q].state = delayed[q].state
            BY <2>1, <2>2, FinishEffect
        <3>1. ReminderTypeOK'
            BY <1>2, <2>1, <3>0 DEF LoadReminder, ReminderTypeOK, Jobs, Resting
        <3>2. PlacesInv'
            BY <1>2, <2>1, <3>0 DEF LoadReminder, ReminderTypeOK, PlacesInv, Jobs, Resting
        <3>3. AttemptsInv'
            BY <1>2, <2>1, <3>0 DEF LoadReminder, ReminderTypeOK, AttemptsInv, Jobs, Resting
        <3>4. ClaimInv'
            BY <1>2, <2>1, <3>0 DEF LoadReminder, ReminderTypeOK, ClaimInv, PlacesInv, Notifying, Jobs, Resting
        <3> QED
            BY <3>1, <3>2, <3>3, <3>4
    <2>3. CASE run' = [run EXCEPT ![w].pc = "claim"] /\ UNCHANGED delayed
        <3>1. ReminderTypeOK'
            <4>1. run \in [Workers -> Runs]
                BY DEF ReminderTypeOK, Runs
            <4>2. run' \in [Workers -> Runs]
                BY <2>3, <4>1, RunMoves
            <4> QED
                BY <1>2, <2>3, <4>2 DEF LoadReminder, ReminderTypeOK, Runs
        <3>2. PlacesInv'
            BY <1>2, <2>1, <2>3 DEF LoadReminder, ReminderTypeOK, PlacesInv
        <3>3. AttemptsInv'
            BY <1>2, <2>1, <2>3 DEF LoadReminder, ReminderTypeOK, AttemptsInv
        <3>4. ClaimInv'
            BY <1>2, <2>1, <2>3 DEF LoadReminder, ReminderTypeOK, ClaimInv, PlacesInv, Notifying
        <3> QED
            BY <3>1, <3>2, <3>3, <3>4
    <2> QED
        BY <1>2, <2>2, <2>3 DEF LoadReminder
<1>3. CASE ClaimDelivery(w)
    <2> DEFINE r == run[w].reminder
    <2>1. r \in Reminders
        BY <1>3 DEF ClaimDelivery, PlacesInv
    <2>2. CASE FinishRun(w, r) /\ UNCHANGED row
        <3>0. /\ run' = [run EXCEPT ![w] = Resting]
              /\ delayed' \in [Reminders -> Jobs]
              /\ \A q \in Reminders :
                   /\ delayed'[q].made = delayed[q].made
                   /\ delayed'[q].state \in {"waiting", "active"} => delayed'[q].state = delayed[q].state
            BY <2>1, <2>2, FinishEffect
        <3>1. ReminderTypeOK'
            BY <1>3, <2>1, <2>2, <3>0 DEF ClaimDelivery, ReminderTypeOK, Jobs, Resting
        <3>2. PlacesInv'
            BY <1>3, <2>1, <2>2, <3>0 DEF ClaimDelivery, ReminderTypeOK, PlacesInv, Jobs, Resting
        <3>3. AttemptsInv'
            BY <1>3, <2>1, <2>2, <3>0 DEF ClaimDelivery, ReminderTypeOK, AttemptsInv, Jobs, Resting
        <3>4. ClaimInv'
            BY <1>3, <2>1, <2>2, <3>0 DEF ClaimDelivery, ReminderTypeOK, ClaimInv, PlacesInv, Notifying, Jobs, Resting
        <3> QED
            BY <3>1, <3>2, <3>3, <3>4
    <2>3. CASE /\ row[r].status = "scheduled"
               /\ row' = [row EXCEPT ![r].status = "delivered"]
               /\ run' = [run EXCEPT ![w].pc = "notify"]
               /\ UNCHANGED delayed
        <3>1. ReminderTypeOK'
            BY <1>3, <2>1, <2>3 DEF ClaimDelivery, ReminderTypeOK
        <3>2. PlacesInv'
            BY <1>3, <2>1, <2>3 DEF ClaimDelivery, ReminderTypeOK, PlacesInv
        <3>3. AttemptsInv'
            BY <1>3, <2>1, <2>3 DEF ClaimDelivery, ReminderTypeOK, AttemptsInv
        <3>4. ClaimInv'
            BY <1>3, <2>1, <2>3 DEF ClaimDelivery, ReminderTypeOK, ClaimInv, PlacesInv, Notifying
        <3> QED
            BY <3>1, <3>2, <3>3, <3>4
    <2> QED
        BY <1>3, <2>2, <2>3 DEF ClaimDelivery
<1>4. CASE NotifyUser(w)
    <2> DEFINE r == run[w].reminder
    <2>1. r \in Reminders
        BY <1>4 DEF NotifyUser, PlacesInv
    <2>0. /\ run' = [run EXCEPT ![w] = Resting]
      /\ delayed' \in [Reminders -> Jobs]
      /\ \A q \in Reminders :
           /\ delayed'[q].made = delayed[q].made
           /\ delayed'[q].state \in {"waiting", "active"} => delayed'[q].state = delayed[q].state
        BY <1>4, <2>1, FinishEffect DEF NotifyUser
    <2>2. ReminderTypeOK'
        <3>1. notes' \in [Reminders -> Nat]
            BY <1>4, <2>1 DEF NotifyUser, ReminderTypeOK
        <3>2. run' \in [Workers -> [pc : {"idle", "load", "claim", "notify"},
                                    reminder : Reminders \union {NoReminder}]]
            BY <2>0 DEF ReminderTypeOK, Resting
        <3> QED
            BY <1>4, <2>0, <3>1, <3>2 DEF NotifyUser, ReminderTypeOK, Jobs
    <2>3. PlacesInv'
        BY <1>4, <2>1, <2>0 DEF NotifyUser, ReminderTypeOK, PlacesInv, Jobs, Resting
    <2>4. AttemptsInv'
        BY <1>4, <2>1, <2>0 DEF NotifyUser, ReminderTypeOK, AttemptsInv, Jobs, Resting
    <2>5. ClaimInv'
        BY <1>4, <2>1, <2>0 DEF NotifyUser, ReminderTypeOK, ClaimInv, PlacesInv, Notifying, Jobs, Resting
    <2> QED
        BY <2>2, <2>3, <2>4, <2>5
<1> QED
    BY <1>1, <1>2, <1>3, <1>4 DEF DeliverReminder

(* Failures, stalls and crashes preserve it. *)
LEMMA FailureStep ==
    ASSUME IInv,
           \/ \E w \in Workers : DeliveryThrows(w)
           \/ \E r \in Reminders : RecoverDead(r) \/ LoseLock(r)
           \/ Crash
    PROVE  IInv'
<1> USE ReminderConstants DEF IInv, DeliveryInv
<1>1. ASSUME NEW w \in Workers, DeliveryThrows(w)
      PROVE  IInv'
    <2> DEFINE r == run[w].reminder
    <2>0. r \in Reminders
        BY <1>1 DEF DeliveryThrows, PlacesInv
    <2>1. /\ run' = [run EXCEPT ![w] = Resting]
          /\ UNCHANGED <<row, creating, cancelling, notes>>
          /\ mishaps' \in 0..MaxMishaps
        BY <1>1 DEF DeliveryThrows, Mishap, ReminderTypeOK
    <2>2. /\ delayed' \in [Reminders -> Jobs]
          /\ \A q \in Reminders :
                \/ delayed'[q] = delayed[q]
                \/ /\ delayed[q].state = "active"
                   /\ delayed'[q].state \in {"waiting", "active"} => delayed'[q].made < DeliveryAttempts
        <3>1. CASE delayed' = delayed
            BY <3>1 DEF ReminderTypeOK, Jobs
        <3>2. CASE delayed[r].state = "active" /\ delayed' = [delayed EXCEPT ![r] = Retry(@)]
            <4>1. delayed[r] \in Jobs /\ delayed[r].made < DeliveryAttempts
                BY <2>0, <3>2 DEF ReminderTypeOK, AttemptsInv, Jobs
            <4>2. /\ Retry(delayed[r]) \in Jobs
                  /\ Retry(delayed[r]).state = "waiting" => Retry(delayed[r]).made < DeliveryAttempts
                  /\ Retry(delayed[r]).state \in {"waiting", "failed"}
                <5>1. delayed[r].made + 1 \in 0..DeliveryAttempts
                    BY <4>1 DEF Jobs
                <5>2. CASE delayed[r].made + 1 < DeliveryAttempts
                    <6>1. Retry(delayed[r]) = [delayed[r] EXCEPT !.state = "waiting", !.made = @ + 1, !.worker = NoWorker]
                        BY <5>2 DEF Retry
                    <6> QED
                        BY <4>1, <5>1, <5>2, <6>1 DEF Jobs
                <5>3. CASE ~(delayed[r].made + 1 < DeliveryAttempts)
                    <6>1. Retry(delayed[r]) = [delayed[r] EXCEPT !.state = "failed", !.made = @ + 1, !.worker = NoWorker]
                        BY <5>3 DEF Retry
                    <6> QED
                        BY <4>1, <5>1, <6>1 DEF Jobs
                <5> QED
                    BY <5>2, <5>3
            <4>3. /\ delayed'[r] = Retry(delayed[r])
                  /\ \A q \in Reminders : q # r => delayed'[q] = delayed[q]
                BY <2>0, <3>2 DEF ReminderTypeOK
            <4> QED
                BY <2>0, <3>2, <4>2, <4>3 DEF ReminderTypeOK, Jobs
        <3> QED
            BY <1>1, <3>1, <3>2 DEF DeliveryThrows
    <2>3. ReminderTypeOK'
        BY <2>1, <2>2 DEF ReminderTypeOK, Jobs, Resting
    <2>4. PlacesInv'
        BY <2>1 DEF ReminderTypeOK, PlacesInv, Resting
    <2>5. AttemptsInv'
        BY <2>1, <2>2 DEF AttemptsInv
    <2>6. ClaimInv'
        BY <2>1 DEF ReminderTypeOK, ClaimInv, Notifying, Resting
    <2> QED
        BY <2>3, <2>4, <2>5, <2>6
<1>2. ASSUME NEW r \in Reminders, Recover(r), mishaps' \in 0..MaxMishaps
      PROVE  IInv'
    <2>1. ReminderTypeOK'
        BY <1>2 DEF Recover, ReminderTypeOK
    <2>2. PlacesInv'
        BY <1>2 DEF Recover, ReminderTypeOK, PlacesInv
    <2>3. AttemptsInv'
        BY <1>2 DEF Recover, ReminderTypeOK, AttemptsInv
    <2>4. ClaimInv'
        BY <1>2 DEF Recover, ReminderTypeOK, ClaimInv, PlacesInv, Notifying
    <2> QED
        BY <2>1, <2>2, <2>3, <2>4
<1>3. CASE Crash
    <2>1. ReminderTypeOK'
        BY <1>3 DEF Crash, ReminderTypeOK, Mishap, Resting
    <2>2. PlacesInv'
        BY <1>3 DEF Crash, ReminderTypeOK, PlacesInv, Mishap, Resting
    <2>3. AttemptsInv'
        BY <1>3 DEF Crash, ReminderTypeOK, AttemptsInv, Mishap, Resting
    <2>4. ClaimInv'
        BY <1>3 DEF Crash, ReminderTypeOK, ClaimInv, PlacesInv, Notifying, Mishap, Resting
    <2> QED
        BY <2>1, <2>2, <2>3, <2>4
<1>4. ASSUME NEW r \in Reminders, RecoverDead(r) \/ LoseLock(r)
      PROVE  mishaps' \in 0..MaxMishaps
    BY <1>4 DEF RecoverDead, LoseLock, Mishap, ReminderTypeOK
<1> QED
    BY <1>1, <1>2, <1>3, <1>4 DEF RecoverDead, LoseLock

(* Every step of cancel() preserves it. *)
LEMMA CancelStep ==
    ASSUME IInv, NEW k \in ReminderCancels,
           \/ \E r \in Reminders : CancelReminder(k, r)
           \/ RemoveJob(k) \/ WriteCancelled(k) \/ CancelThrows(k)
    PROVE  IInv'
<1> USE ReminderConstants DEF IInv, DeliveryInv
<1>1. ASSUME NEW r \in Reminders, CancelReminder(k, r)
      PROVE  IInv'
    <2>1. ReminderTypeOK'
        BY <1>1 DEF CancelReminder, ReminderTypeOK
    <2>2. PlacesInv'
        BY <1>1 DEF CancelReminder, ReminderTypeOK, PlacesInv
    <2>3. AttemptsInv'
        BY <1>1 DEF CancelReminder, ReminderTypeOK, AttemptsInv
    <2>4. ClaimInv'
        BY <1>1 DEF CancelReminder, ReminderTypeOK, ClaimInv, PlacesInv, Notifying
    <2> QED
        BY <2>1, <2>2, <2>3, <2>4
<1>2. CASE RemoveJob(k)
    <2>0. cancelling[k].reminder \in Reminders
        BY <1>2 DEF RemoveJob, PlacesInv
    <2>1. ReminderTypeOK'
      <3>1. cancelling' \in [ReminderCancels -> [pc : {"idle", "remove", "write", "returned"},
                                         reminder : Reminders \union {NoReminder}]]
        BY <1>2 DEF RemoveJob, ReminderTypeOK
      <3>2. CASE delayed[cancelling[k].reminder].state = "active"
        BY <1>2, <3>1, <3>2 DEF RemoveJob, ReminderTypeOK
      <3>3. CASE delayed[cancelling[k].reminder].state # "active"
        <4>1. delayed' = [delayed EXCEPT ![cancelling[k].reminder].state = "removed"]
            BY <1>2, <3>3 DEF RemoveJob
        <4>2. delayed \in [Reminders -> Jobs]
            BY DEF ReminderTypeOK, Jobs
        <4>3. delayed' \in [Reminders -> Jobs]
            BY <2>0, <4>1, <4>2, JobMoves
        <4> QED
            BY <1>2, <3>1, <4>3 DEF RemoveJob, ReminderTypeOK, Jobs
      <3> QED
        BY <3>2, <3>3
    <2>2. PlacesInv'
        BY <1>2, <2>0 DEF RemoveJob, ReminderTypeOK, PlacesInv
    <2>3. AttemptsInv'
        BY <1>2, <2>0 DEF RemoveJob, ReminderTypeOK, AttemptsInv
    <2>4. ClaimInv'
        BY <1>2, <2>0 DEF RemoveJob, ReminderTypeOK, ClaimInv, PlacesInv, Notifying
    <2> QED
        BY <2>1, <2>2, <2>3, <2>4
<1>3. CASE WriteCancelled(k)
    <2>0. cancelling[k].reminder \in Reminders
        BY <1>3 DEF WriteCancelled, PlacesInv
    <2>1. ReminderTypeOK'
        BY <1>3, <2>0 DEF WriteCancelled, ReminderTypeOK
    <2>2. PlacesInv'
        BY <1>3, <2>0 DEF WriteCancelled, ReminderTypeOK, PlacesInv
    <2>3. AttemptsInv'
        BY <1>3, <2>0 DEF WriteCancelled, ReminderTypeOK, AttemptsInv
    <2>4. ClaimInv'
        BY <1>3, <2>0 DEF WriteCancelled, ReminderTypeOK, ClaimInv, PlacesInv, Notifying
    <2> QED
        BY <2>1, <2>2, <2>3, <2>4
<1>4. CASE CancelThrows(k)
    <2>1. ReminderTypeOK'
        <3>1. cancelling' \in [ReminderCancels -> [pc : {"idle", "remove", "write", "returned"},
                                           reminder : Reminders \union {NoReminder}]]
            BY <1>4 DEF CancelThrows, ReminderTypeOK
        <3>2. mishaps' \in 0..MaxMishaps
            BY <1>4 DEF CancelThrows, ReminderTypeOK, Mishap
        <3> QED
            BY <1>4, <3>1, <3>2 DEF CancelThrows, ReminderTypeOK
    <2>2. PlacesInv'
        BY <1>4 DEF CancelThrows, ReminderTypeOK, PlacesInv, Mishap
    <2>3. AttemptsInv'
        BY <1>4 DEF CancelThrows, ReminderTypeOK, AttemptsInv, Mishap
    <2>4. ClaimInv'
        BY <1>4 DEF CancelThrows, ReminderTypeOK, ClaimInv, PlacesInv, Notifying, Mishap
    <2> QED
        BY <2>1, <2>2, <2>3, <2>4
<1> QED
    BY <1>1, <1>2, <1>3, <1>4

(* The inductive invariant, hence the type invariant. *)
THEOREM Invariant == ReminderSpec => []IInv
<1>1. ReminderInit => IInv
    BY InitInv
<1>2. IInv /\ [ReminderNext]_reminderVars => IInv'
    <2> SUFFICES ASSUME IInv, [ReminderNext]_reminderVars PROVE IInv'
        OBVIOUS
    <2>1. CASE UNCHANGED reminderVars
        BY <2>1 DEF reminderVars, IInv, ReminderTypeOK, DeliveryInv, PlacesInv, AttemptsInv, ClaimInv, Notifying
    <2>2. ASSUME NEW r \in Reminders, Create(r) \/ CreateThrows(r) PROVE IInv'
        BY <2>2, CreateStep
    <2>3. ASSUME NEW w \in Workers, DeliverReminder(w) PROVE IInv'
        BY <2>3, DeliverStep
    <2>4. ASSUME \/ \E w \in Workers : DeliveryThrows(w)
                 \/ \E r \in Reminders : RecoverDead(r) \/ LoseLock(r)
                 \/ Crash
          PROVE  IInv'
        BY <2>4, FailureStep
    <2>5. ASSUME NEW k \in ReminderCancels,
                 \/ \E r \in Reminders : CancelReminder(k, r)
                 \/ RemoveJob(k) \/ WriteCancelled(k) \/ CancelThrows(k)
          PROVE  IInv'
        BY <2>5, CancelStep
    <2> QED
        BY <2>1, <2>2, <2>3, <2>4, <2>5 DEF ReminderNext
<1> QED
    BY <1>1, <1>2, PTL DEF ReminderSpec

(* The state stays well typed. *)
THEOREM TypeCorrect == ReminderSpec => []ReminderTypeOK
<1>1. IInv => ReminderTypeOK
    BY DEF IInv
<1> QED
    BY <1>1, Invariant, PTL

(* The claim of a delivery is exclusive: a run that has won it is the only *)
(* one, finds no notification yet, and nobody can win it again.            *)
THEOREM ClaimExclusive == ReminderSpec => []DeliveryInv
<1>1. IInv => DeliveryInv
    BY DEF IInv
<1> QED
    BY <1>1, Invariant, PTL

(* However often the queue runs the delivery job of a reminder, and with   *)
(* whatever failures, its user gets one notification at most.              *)
THEOREM NotifiedAtMostOnce == ReminderSpec => []AtMostOneNotification
<1>1. IInv => AtMostOneNotification
    BY DEF IInv, DeliveryInv, ClaimInv, AtMostOneNotification
<1> QED
    BY <1>1, Invariant, PTL

(* A cancellation that comes before the claim is respected: no run claims  *)
(* or notifies the reminder afterwards, whatever the queue does with the   *)
(* job that could not be removed.                                          *)
THEOREM CancellationRespected == ReminderSpec => CancelledIsQuiet
<1> DEFINE Quiet(r) == row[r].status = "cancelled" /\ ~Claimed(r) => notes'[r] = 0 /\ ~Claimed(r)'
<1>1. IInv /\ [ReminderNext]_reminderVars => [\A r \in Reminders : Quiet(r)]_reminderVars
    <2> SUFFICES ASSUME IInv, ReminderNext, NEW r \in Reminders,
                        row[r].status = "cancelled", ~Claimed(r)
                 PROVE  notes'[r] = 0 /\ ~Claimed(r)'
        OBVIOUS
    <2> USE DEF IInv, DeliveryInv
    <2>1. notes[r] = 0 /\ \A v \in Workers : ~Notifying(v, r)
        BY DEF Claimed, ClaimInv
    <2>2. SUFFICES notes'[r] = 0 /\ \A v \in Workers : ~Notifying(v, r)'
        BY <2>2 DEF Claimed
    <2>3. ASSUME notes' = notes, run' = run
          PROVE  notes'[r] = 0 /\ \A v \in Workers : ~Notifying(v, r)'
        BY <2>1, <2>3 DEF Notifying
    <2>4. ASSUME notes' = notes, NEW w \in Workers, run' = [run EXCEPT ![w] = Resting]
          PROVE  notes'[r] = 0 /\ \A v \in Workers : ~Notifying(v, r)'
        BY <2>1, <2>4 DEF Notifying, Resting, ReminderTypeOK
    <2>5. ASSUME NEW q \in Reminders, Create(q) \/ CreateThrows(q) \/ RecoverDead(q) \/ LoseLock(q)
          PROVE  notes' = notes /\ run' = run
        BY <2>5 DEF Create, CreateRow, QueueJob, LinkJob, CreateThrows, RecoverDead, LoseLock, Recover
    <2>6. ASSUME NEW k \in ReminderCancels,
                 \/ \E q \in Reminders : CancelReminder(k, q)
                 \/ RemoveJob(k) \/ WriteCancelled(k) \/ CancelThrows(k)
          PROVE  notes' = notes /\ run' = run
        BY <2>6 DEF CancelReminder, RemoveJob, WriteCancelled, CancelThrows
    <2>7. ASSUME NEW w \in Workers, DeliverReminder(w) \/ DeliveryThrows(w)
          PROVE  notes'[r] = 0 /\ \A v \in Workers : ~Notifying(v, r)'
        <3>1. ASSUME NEW q \in Reminders, PickUp(w, q)
              PROVE  notes'[r] = 0 /\ \A v \in Workers : ~Notifying(v, r)'
            BY <2>1, <3>1 DEF PickUp, Notifying, ReminderTypeOK
        <3>2. CASE LoadReminder(w)
            <4>1. CASE run' = [run EXCEPT ![w].pc = "claim"]
                BY <2>1, <3>2, <4>1 DEF LoadReminder, Notifying, ReminderTypeOK
            <4> QED
                BY <2>4, <3>2, <4>1 DEF LoadReminder, FinishRun
        <3>3. CASE ClaimDelivery(w)
            <4>1. CASE row[run[w].reminder].status = "scheduled" /\ run' = [run EXCEPT ![w].pc = "notify"]
                BY <2>1, <3>3, <4>1 DEF ClaimDelivery, Notifying, ReminderTypeOK
            <4> QED
                BY <2>4, <3>3, <4>1 DEF ClaimDelivery, FinishRun
        <3>4. CASE NotifyUser(w)
            <4>1. run[w].reminder # r
                BY <2>1, <3>4 DEF NotifyUser, Notifying
            <4>2. notes'[r] = notes[r]
                BY <3>4, <4>1 DEF NotifyUser, ReminderTypeOK
            <4>3. run' = [run EXCEPT ![w] = Resting]
                BY <3>4 DEF NotifyUser, FinishRun
            <4> QED
                BY <2>1, <4>2, <4>3 DEF Notifying, Resting, ReminderTypeOK
        <3>5. CASE DeliveryThrows(w)
            BY <2>4, <3>5 DEF DeliveryThrows
        <3> QED
            BY <2>7, <3>1, <3>2, <3>3, <3>4, <3>5 DEF DeliverReminder
    <2>8. CASE Crash
        BY <2>1, <2>8 DEF Crash, Notifying, Resting
    <2> QED
        BY <2>3, <2>5, <2>6, <2>7, <2>8 DEF ReminderNext
<1> QED
    BY <1>1, Invariant, PTL DEF ReminderSpec, CancelledIsQuiet

===============================================================================
