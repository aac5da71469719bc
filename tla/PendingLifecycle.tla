--------------------------- MODULE PendingLifecycle ---------------------------
(***************************************************************************)
(* What the confirmation flow promises about one pending action, without   *)
(* requests, databases or crashes: a proposed tool call waits for the      *)
(* user, is decided once, and runs at most once and only after approval.   *)
(* The lifecycle is the one named by the class comment of                  *)
(* src/pending-actions/pending-action.service.ts and by the status column  *)
(* of prisma/schema.prisma.                                                *)
(***************************************************************************)

CONSTANT Actions          \* identifiers of pending_actions rows

VARIABLES status,         \* the status column, "none" before the row exists
          executed        \* the actions whose tool has been executed

lifecycleVars == <<status, executed>>

PendingStatus == {"none", "pending", "approved", "rejected", "executed",
                  "expired", "cancelled", "failed"}

(* A decided action never changes again. *)
FinalStatus == {"rejected", "executed", "expired", "cancelled", "failed"}

Init ==
    /\ status = [a \in Actions |-> "none"]
    /\ executed = {}

Move(a, from, to) ==
    /\ status[a] = from
    /\ status' = [status EXCEPT ![a] = to]
    /\ UNCHANGED executed

Create(a)  == Move(a, "none", "pending")
Approve(a) == Move(a, "pending", "approved")
Decline(a) == \E s \in {"rejected", "cancelled", "expired"} : Move(a, "pending", s)

Execute(a) ==
    /\ status[a] = "approved"
    /\ a \notin executed
    /\ executed' = executed \union {a}
    /\ UNCHANGED status

Succeed(a) == a \in executed /\ Move(a, "approved", "executed")
Fail(a)    == Move(a, "approved", "failed")

Next == \E a \in Actions :
            Create(a) \/ Approve(a) \/ Decline(a) \/ Execute(a) \/ Succeed(a) \/ Fail(a)

Spec == Init /\ [][Next]_lifecycleVars
===============================================================================
