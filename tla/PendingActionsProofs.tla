------------------------- MODULE PendingActionsProofs -------------------------
(***************************************************************************)
(* Proofs about PendingActions, for any number of users, actions, tools,   *)
(* requests and faults.                                                    *)
(***************************************************************************)
EXTENDS PendingActions, TLAPS

(* The fields of a request that are fixed when it arrives. *)
KeepsFields(r) ==
    /\ req'[r].op = req[r].op
    /\ req'[r].user = req[r].user
    /\ req'[r].act = req[r].act
    /\ req'[r].tool = req[r].tool

(* What a step that moves request r on leaves alone. *)
KeepsRequest(r) == KeepsFields(r) /\ \A q \in Requests \ {r} : req'[q] = req[q]

LEMMA GotoEffect ==
    ASSUME TypeOK, NEW r \in Requests, NEW p \in Pcs, Goto(r, p)
    PROVE  /\ req' \in [Requests -> Request]
           /\ KeepsRequest(r)
           /\ req'[r].pc = p /\ req'[r].result = req[r].result /\ req'[r].outcome = req[r].outcome
BY DEF TypeOK, Goto, Request, KeepsRequest, KeepsFields

LEMMA FinishEffect ==
    ASSUME TypeOK, NEW r \in Requests, NEW o \in Outcomes, Finish(r, o)
    PROVE  /\ req' \in [Requests -> Request]
           /\ KeepsRequest(r)
           /\ req'[r].pc = "done" /\ req'[r].result = req[r].result /\ req'[r].outcome = o
<1>1. "done" \in Pcs
    BY DEF Pcs
<1> QED
    BY <1>1 DEF TypeOK, Finish, Request, KeepsRequest, KeepsFields

LEMMA ThenReportEffect ==
    ASSUME TypeOK, NEW r \in Requests, NEW o \in Outcomes, ThenReport(r, o)
    PROVE  /\ req' \in [Requests -> Request]
           /\ KeepsRequest(r)
           /\ req'[r].pc = "report" /\ req'[r].result = req[r].result /\ req'[r].outcome = o
<1>1. "report" \in Pcs
    BY DEF Pcs
<1> QED
    BY <1>1 DEF TypeOK, ThenReport, Request, KeepsRequest, KeepsFields

LEMMA EndCallEffect ==
    ASSUME TypeOK, NEW r \in Requests, NEW p \in Pcs, NEW res \in Results, EndCall(r, p, res)
    PROVE  /\ req' \in [Requests -> Request]
           /\ KeepsRequest(r)
           /\ req'[r].pc = p /\ req'[r].result = res /\ req'[r].outcome = req[r].outcome
BY DEF TypeOK, EndCall, Request, KeepsRequest, KeepsFields

LEMMA ArriveEffect ==
    ASSUME TypeOK, NEW r \in Requests, NEW o \in Ops, NEW u \in Users,
           NEW a \in Actions \union {NoAction}, NEW t \in Tools \union {NoTool},
           NEW p \in Pcs, NEW oc \in Outcomes, Arrive(r, o, u, a, t, p, oc)
    PROVE  /\ req' \in [Requests -> Request]
           /\ \A q \in Requests \ {r} : req'[q] = req[q]
           /\ req[r].pc = "idle"
           /\ req'[r].pc = p /\ req'[r].op = o /\ req'[r].user = u /\ req'[r].act = a
           /\ req'[r].tool = t /\ req'[r].outcome = oc
<1>1. "unknown" \in Results
    BY DEF Results
<1> QED
    BY <1>1 DEF TypeOK, Arrive, Request

LEMMA RestartEffect ==
    ASSUME TypeOK, Restart
    PROVE  /\ req' \in [Requests -> Request]
           /\ \A q \in Requests : KeepsFields(q)
           /\ \A q \in Requests : \/ req'[q] = req[q] /\ ~Active(q)
                                  \/ req'[q].pc = "done" /\ req'[q].outcome = "error"
<1>1. "done" \in Pcs /\ "error" \in Outcomes
    BY DEF Pcs, Outcomes
<1>2. ASSUME NEW q \in Requests
      PROVE  /\ Lost(q) \in Request
             /\ Lost(q).op = req[q].op /\ Lost(q).user = req[q].user /\ Lost(q).act = req[q].act
             /\ Lost(q).tool = req[q].tool /\ Lost(q).pc = "done" /\ Lost(q).outcome = "error"
    BY <1>1 DEF Lost, TypeOK, Request
<1>3. req' = [q \in Requests |-> IF Active(q) THEN Lost(q) ELSE req[q]]
    BY DEF Restart
<1> QED
    BY <1>2, <1>3 DEF TypeOK, KeepsFields

LEMMA SetStatusEffect ==
    ASSUME TypeOK, NEW a \in Actions \union {NoAction}, NEW s \in PendingStatus, SetStatus(a, s)
    PROVE  /\ row' \in [Actions -> [status : PendingStatus, owner : Users \union {NoUser},
                                    tool : Tools \union {NoTool}]]
           /\ \A b \in Actions :
                /\ row'[b].owner = row[b].owner /\ row'[b].tool = row[b].tool
                /\ row'[b].status = IF b = a THEN s ELSE row[b].status
<1> DEFINE Rec == [status : PendingStatus, owner : Users \union {NoUser}, tool : Tools \union {NoTool}]
<1>1. CASE a \in Actions
    BY <1>1 DEF TypeOK, SetStatus
<1>2. CASE a = NoAction
    BY <1>2, PendingConstants DEF TypeOK, SetStatus
<1> QED
    BY <1>1, <1>2

(* Every step of the specification keeps the state well typed. *)
LEMMA TypeStep == TypeOK /\ [Next]_vars => TypeOK'
<1> SUFFICES ASSUME TypeOK, [Next]_vars
             PROVE  TypeOK'
    OBVIOUS
<1> USE PendingConstants
<1>1. ASSUME NEW r \in Requests, RequestExecution(r) PROVE TypeOK'
  <2>1. PICK u \in Users, t \in Tools, p \in {"skill", "done"}, oc \in {"none", "rejected_call"} :
            Arrive(r, "propose", u, NoAction, t, p, oc)
    BY <1>1 DEF RequestExecution
  <2>2. "propose" \in Ops /\ p \in Pcs /\ oc \in Outcomes
    BY <2>1 DEF Ops, Pcs, Outcomes
  <2>3. req' \in [Requests -> Request]
    BY <2>1, <2>2, ArriveEffect
  <2> QED
    BY <1>1, <2>3 DEF TypeOK, RequestExecution, CallStatus
<1>2. ASSUME NEW r \in Requests, Decide(r) PROVE TypeOK'
  <2>1. PICK o \in {"approve", "reject", "cancel"}, u \in Users, a \in Actions \union {NoAction},
            t \in Tools \union {NoTool}, p \in {"expire", "claim", "done"},
            oc \in {"none", "refused"} : Arrive(r, o, u, a, t, p, oc)
    BY <1>2 DEF Decide, TypeOK
  <2>2. o \in Ops /\ p \in Pcs /\ oc \in Outcomes
    BY <2>1 DEF Ops, Pcs, Outcomes
  <2>3. req' \in [Requests -> Request]
    BY <2>1, <2>2, ArriveEffect
  <2> QED
    BY <1>2, <2>3 DEF TypeOK, Decide
<1>3. ASSUME NEW r \in Requests, CheckSkill(r) PROVE TypeOK'
    BY <1>3, GotoEffect, FinishEffect DEF TypeOK, CheckSkill, Pcs, Outcomes, CallStatus
<1>4. ASSUME NEW r \in Requests, CreatePending(r) PROVE TypeOK'
    BY <1>4, ThenReportEffect DEF TypeOK, CreatePending, Outcomes, PendingStatus, Request
<1>5. ASSUME NEW r \in Requests, StartCall(r) PROVE TypeOK'
    BY <1>5, GotoEffect DEF TypeOK, StartCall, Pcs, CallStatus
<1>6. ASSUME NEW r \in Requests, RunTool(r) PROVE TypeOK'
    BY <1>6, EndCallEffect DEF TypeOK, RunTool, Pcs, Results
<1>7. ASSUME NEW r \in Requests, RecordCall(r) PROVE TypeOK'
    BY <1>7, GotoEffect DEF TypeOK, RecordCall, Pcs, CallStatus
<1>8. ASSUME NEW r \in Requests, RecordThrow(r) PROVE TypeOK'
    BY <1>8, GotoEffect DEF TypeOK, RecordThrow, Pcs, CallStatus
<1>9. ASSUME NEW r \in Requests, AuditCall(r) PROVE TypeOK'
    BY <1>9, GotoEffect, FinishEffect DEF TypeOK, AuditCall, Return, Pcs, Outcomes
<1>10. ASSUME NEW r \in Requests, ExpireAction(r) PROVE TypeOK'
    BY <1>10, ThenReportEffect, SetStatusEffect DEF TypeOK, ExpireAction, ClaimPending, PendingStatus, Outcomes, Request
<1>11. ASSUME NEW r \in Requests, ClaimApproval(r) PROVE TypeOK'
    BY <1>11, GotoEffect, ThenReportEffect, SetStatusEffect DEF TypeOK, ClaimApproval, ClaimPending, PendingStatus, Outcomes, Pcs, Request
<1>12. ASSUME NEW r \in Requests, ClaimRejection(r) PROVE TypeOK'
    BY <1>12, ThenReportEffect, SetStatusEffect DEF TypeOK, ClaimRejection, ClaimPending, PendingStatus, Outcomes, Request
<1>13. ASSUME NEW r \in Requests, ClaimCancellation(r) PROVE TypeOK'
    BY <1>13, ThenReportEffect, SetStatusEffect DEF TypeOK, ClaimCancellation, ClaimPending, PendingStatus, Outcomes, Request
<1>14. ASSUME NEW r \in Requests, LookupTool(r) PROVE TypeOK'
    BY <1>14, GotoEffect DEF TypeOK, LookupTool, Pcs
<1>15. ASSUME NEW r \in Requests, GateSkill(r) PROVE TypeOK'
    BY <1>15, GotoEffect DEF TypeOK, GateSkill, Pcs
<1>16. ASSUME NEW r \in Requests, BlockAction(r) PROVE TypeOK'
    BY <1>16, FinishEffect, SetStatusEffect DEF TypeOK, BlockAction, PendingStatus, Outcomes, Request
<1>17. ASSUME NEW r \in Requests, SettleAction(r) PROVE TypeOK'
    BY <1>17, FinishEffect, SetStatusEffect DEF TypeOK, SettleAction, PendingStatus, Outcomes, Request
<1>18. ASSUME NEW r \in Requests, Report(r) PROVE TypeOK'
    BY <1>18, GotoEffect DEF TypeOK, Report, Pcs
<1>19. ASSUME NEW r \in Requests, DbError(r) PROVE TypeOK'
    BY <1>19, FinishEffect, EndCallEffect DEF TypeOK, DbError, Outcomes, Pcs, Results
<1>20. CASE SetEnabled
    BY <1>20 DEF TypeOK, SetEnabled
<1>21. CASE PassDeadline
    BY <1>21 DEF TypeOK, PassDeadline
<1>22. CASE Restart
    BY <1>22, RestartEffect DEF TypeOK, Restart
<1>23. CASE UNCHANGED vars
    BY <1>23 DEF TypeOK, vars
<1> QED
    BY <1>1, <1>2, <1>3, <1>4, <1>5, <1>6, <1>7, <1>8, <1>9, <1>10, <1>11, <1>12, <1>13, <1>14, <1>15, <1>16, <1>17, <1>18, <1>19, <1>20, <1>21, <1>22, <1>23 DEF Next, Step

(* Rows, requests and call records keep their shape in every reachable     *)
(* state.                                                                  *)
THEOREM TypeCorrect == Spec => []TypeOK
<1>1. Init => TypeOK
    BY PendingConstants DEF Init, TypeOK, Request, PendingStatus, Ops, Pcs, Results, Outcomes,
                            CallStatus
<1> QED
    BY <1>1, TypeStep, PTL DEF Spec

(* A step of request r that neither writes a row nor runs a tool keeps the *)
(* invariant when it does not enter the claimed region.                    *)
LEMMA Advance ==
    ASSUME TypeOK, ClaimInv, NEW r \in Requests, KeepsRequest(r), row' = row, ran' = ran,
           RequestInv(r)', Holds(r)' => Holds(r),
           Holds(r)' /\ req'[r].pc \in BeforeRun => req[r].pc \in BeforeRun,
           req'[r].outcome \in {"rejected", "cancelled"} => req'[r].outcome = req[r].outcome
    PROVE  ClaimInv'
<1>1. \A q \in Requests : req'[q].act = req[q].act /\ req'[q].op = req[q].op
    BY DEF KeepsRequest, KeepsFields
<1>2. \A q \in Requests : RequestInv(q)'
    BY DEF KeepsRequest, RequestInv, ClaimInv
<1>3. \A q \in Requests : Holds(q)' => Holds(q) /\ (req'[q].pc \in BeforeRun => req[q].pc \in BeforeRun)
    BY DEF KeepsRequest, Holds
<1>4. \A q \in Requests : RowInv(q)'
    BY <1>1, <1>3 DEF KeepsRequest, RowInv, ClaimInv
<1>5. \A p, q \in Requests : Holds(p)' /\ Holds(q)' /\ req'[p].act = req'[q].act => p = q
    BY <1>1, <1>3 DEF ClaimInv
<1>6. \A p, q \in Requests : Holds(q)' /\ req'[q].pc \in BeforeRun /\ p \in ran' =>
            req'[p].act # req'[q].act
    BY <1>1, <1>3 DEF ClaimInv
<1>7. \A p, q \in ran' : req'[p].act = req'[q].act /\ req'[q].act \in Actions => p = q
    BY <1>1 DEF ClaimInv, TypeOK
<1> QED
    BY <1>2, <1>4, <1>5, <1>6, <1>7 DEF ClaimInv

(* The steps of a request that only move it on. *)
LEMMA QuietStep ==
    ASSUME TypeOK, ClaimInv, NEW r \in Requests,
           \/ CheckSkill(r) \/ StartCall(r) \/ RecordCall(r) \/ RecordThrow(r) \/ AuditCall(r)
           \/ LookupTool(r) \/ GateSkill(r) \/ Report(r) \/ DbError(r)
    PROVE  ClaimInv'
<1> RequestInv(r)
    BY DEF ClaimInv
<1> DEFINE Quiet == /\ KeepsRequest(r) /\ row' = row /\ ran' = ran
                    /\ RequestInv(r)'
                    /\ Holds(r)' => Holds(r)
                    /\ Holds(r)' /\ req'[r].pc \in BeforeRun => req[r].pc \in BeforeRun
                    /\ req'[r].outcome \in {"rejected", "cancelled"} => req'[r].outcome = req[r].outcome
<1>1. ASSUME CheckSkill(r) PROVE Quiet
    BY <1>1, GotoEffect, FinishEffect DEF CheckSkill, Pcs, Outcomes, KeepsRequest, KeepsFields, RequestInv, Holds, BeforeRun, AfterRun
<1>2. ASSUME StartCall(r) PROVE Quiet
    BY <1>2, GotoEffect DEF StartCall, Pcs, KeepsRequest, KeepsFields, RequestInv, Holds, BeforeRun, AfterRun
<1>3. ASSUME RecordCall(r) PROVE Quiet
    BY <1>3, GotoEffect DEF RecordCall, Pcs, KeepsRequest, KeepsFields, RequestInv, Holds, BeforeRun, AfterRun
<1>4. ASSUME RecordThrow(r) PROVE Quiet
    BY <1>4, GotoEffect DEF RecordThrow, Pcs, KeepsRequest, KeepsFields, RequestInv, Holds, BeforeRun, AfterRun
<1>5. ASSUME AuditCall(r) PROVE Quiet
    BY <1>5, GotoEffect, FinishEffect DEF AuditCall, Return, Pcs, Outcomes, KeepsRequest, KeepsFields, RequestInv, Holds, BeforeRun, AfterRun
<1>6. ASSUME LookupTool(r) PROVE Quiet
    BY <1>6, GotoEffect DEF LookupTool, Pcs, KeepsRequest, KeepsFields, RequestInv, Holds, BeforeRun, AfterRun
<1>7. ASSUME GateSkill(r) PROVE Quiet
    BY <1>7, GotoEffect DEF GateSkill, Pcs, KeepsRequest, KeepsFields, RequestInv, Holds, BeforeRun, AfterRun
<1>8. ASSUME Report(r) PROVE Quiet
    BY <1>8, GotoEffect DEF Report, Pcs, KeepsRequest, KeepsFields, RequestInv, Holds, BeforeRun, AfterRun
<1>9. ASSUME DbError(r) PROVE Quiet
    BY <1>9, FinishEffect, EndCallEffect DEF DbError, Active, Outcomes, Pcs, Results, KeepsRequest, KeepsFields, RequestInv, Holds, BeforeRun, AfterRun
<1>10. Quiet
    BY <1>1, <1>2, <1>3, <1>4, <1>5, <1>6, <1>7, <1>8, <1>9
<1> QED
    BY <1>10, Advance

(* A decision that leaves the claimed region alone: the row of r's action  *)
(* goes from pending to s, or stays as it was decided before.              *)
LEMMA DeclineStep ==
    ASSUME TypeOK, ClaimInv, NEW r \in Requests, NEW s \in {"rejected", "cancelled", "expired"},
           req[r].pc \in {"claim", "expire"}, KeepsRequest(r), req'[r].pc = "report", ran' = ran,
           \A b \in Actions : row'[b].status =
               IF b = req[r].act /\ row[b].status = "pending" THEN s ELSE row[b].status,
           req'[r].outcome \in {"rejected", "cancelled"} =>
               row[req[r].act].status = "pending" /\ req'[r].outcome = s
    PROVE  ClaimInv'
<1>1. \A q \in Requests : req'[q].act = req[q].act /\ req'[q].op = req[q].op
    BY DEF KeepsRequest, KeepsFields
<1>2. req[r].act \in Actions
    BY DEF ClaimInv, RequestInv
<1>3. \A q \in Requests : RequestInv(q)'
    BY <1>1, <1>2 DEF KeepsRequest, RequestInv, ClaimInv, AfterRun
<1>4. \A q \in Requests : Holds(q)' => q # r /\ Holds(q) /\ req'[q].pc = req[q].pc
    BY DEF KeepsRequest, Holds, BeforeRun, AfterRun
<1>5. \A q \in Requests : RowInv(q)'
  <2> SUFFICES ASSUME NEW q \in Requests PROVE RowInv(q)'
    OBVIOUS
  <2>1. RequestInv(q) /\ RowInv(q)
    BY DEF ClaimInv
  <2>2. CASE q = r
    BY <1>1, <1>2, <1>4, <2>1, <2>2 DEF RowInv, RequestInv
  <2>3. CASE q # r
    BY <1>1, <1>2, <1>4, <2>1, <2>3 DEF RowInv, RequestInv, KeepsRequest, Holds, BeforeRun, AfterRun
  <2> QED
    BY <2>2, <2>3
<1>6. \A p, q \in Requests : Holds(p)' /\ Holds(q)' /\ req'[p].act = req'[q].act => p = q
    BY <1>1, <1>4 DEF ClaimInv
<1>7. \A p, q \in Requests : Holds(q)' /\ req'[q].pc \in BeforeRun /\ p \in ran' =>
            req'[p].act # req'[q].act
    BY <1>1, <1>4 DEF ClaimInv
<1>8. \A p, q \in ran' : req'[p].act = req'[q].act /\ req'[q].act \in Actions => p = q
    BY <1>1 DEF ClaimInv, TypeOK
<1> QED
    BY <1>3, <1>5, <1>6, <1>7, <1>8 DEF ClaimInv

(* The request that wins the claim is the only one holding the action.     *)
LEMMA ClaimStep ==
    ASSUME TypeOK, ClaimInv, NEW r \in Requests, req[r].pc = "claim", req[r].op = "approve",
           KeepsRequest(r), req'[r].pc = "lookup", ran' = ran, req'[r].outcome = req[r].outcome,
           row[req[r].act].status = "pending",
           \A b \in Actions : row'[b].status = IF b = req[r].act THEN "approved" ELSE row[b].status
    PROVE  ClaimInv'
<1>1. \A q \in Requests : req'[q].act = req[q].act /\ req'[q].op = req[q].op
    BY DEF KeepsRequest, KeepsFields
<1>2. req[r].act \in Actions
    BY DEF ClaimInv, RequestInv
<1>3. \A q \in Requests : RequestInv(q)'
    BY <1>1, <1>2 DEF KeepsRequest, RequestInv, ClaimInv, AfterRun
<1>4. \A q \in Requests : q # r /\ Holds(q)' => Holds(q) /\ req'[q].pc = req[q].pc
    BY DEF KeepsRequest, Holds
<1>5. \A q \in Requests : Holds(q) => req[q].act # req[r].act
    BY DEF ClaimInv, RowInv
<1>6. \A q \in ran : req[q].act # req[r].act
    BY <1>2, PendingConstants DEF ClaimInv, RowInv, RequestInv, TypeOK, Request, Ops
<1>7. \A q \in Requests : RowInv(q)'
  <2> SUFFICES ASSUME NEW q \in Requests PROVE RowInv(q)'
    OBVIOUS
  <2>1. RequestInv(q) /\ RowInv(q)
    BY DEF ClaimInv
  <2>2. CASE q = r
    BY <1>1, <1>2, <2>1, <2>2 DEF RowInv, RequestInv
  <2>3. CASE q # r
    BY <1>1, <1>2, <1>4, <2>1, <2>3 DEF RowInv, RequestInv, KeepsRequest, Holds, BeforeRun, AfterRun
  <2> QED
    BY <2>2, <2>3
<1>8. \A p, q \in Requests : Holds(p)' /\ Holds(q)' /\ req'[p].act = req'[q].act => p = q
    BY <1>1, <1>4, <1>5 DEF ClaimInv
<1>9. \A p, q \in Requests : Holds(q)' /\ req'[q].pc \in BeforeRun /\ p \in ran' =>
            req'[p].act # req'[q].act
    BY <1>1, <1>4, <1>6 DEF ClaimInv
<1>10. \A p, q \in ran' : req'[p].act = req'[q].act /\ req'[q].act \in Actions => p = q
    BY <1>1 DEF ClaimInv, TypeOK
<1> QED
    BY <1>3, <1>7, <1>8, <1>9, <1>10 DEF ClaimInv

(* The holder writes the final status and lets go. *)
LEMMA ReleaseStep ==
    ASSUME TypeOK, ClaimInv, NEW r \in Requests, NEW s \in {"executed", "failed"}, Holds(r),
           KeepsRequest(r), req'[r].pc = "done", req'[r].outcome = "executed", ran' = ran,
           \A b \in Actions : row'[b].status = IF b = req[r].act THEN s ELSE row[b].status
    PROVE  ClaimInv'
<1>1. \A q \in Requests : req'[q].act = req[q].act /\ req'[q].op = req[q].op
    BY DEF KeepsRequest, KeepsFields
<1>2. req[r].act \in Actions /\ row[req[r].act].status = "approved"
    BY DEF ClaimInv, RequestInv, RowInv, Holds, BeforeRun, AfterRun
<1>3. \A q \in Requests : RequestInv(q)'
    BY <1>1, <1>2 DEF KeepsRequest, RequestInv, ClaimInv, AfterRun
<1>4. \A q \in Requests : Holds(q)' =>
            q # r /\ Holds(q) /\ req'[q].pc = req[q].pc /\ req[q].act # req[r].act
    BY DEF KeepsRequest, Holds, BeforeRun, AfterRun, ClaimInv
<1>5. \A q \in Requests : RowInv(q)'
  <2> SUFFICES ASSUME NEW q \in Requests PROVE RowInv(q)'
    OBVIOUS
  <2>1. RequestInv(q) /\ RowInv(q)
    BY DEF ClaimInv
  <2>2. CASE q = r
    BY <1>1, <1>2, <1>4, <2>1, <2>2 DEF RowInv, RequestInv
  <2>3. CASE q # r
    BY <1>1, <1>2, <1>4, <2>1, <2>3 DEF RowInv, RequestInv, KeepsRequest, Holds, BeforeRun, AfterRun
  <2> QED
    BY <2>2, <2>3
<1>6. \A p, q \in Requests : Holds(p)' /\ Holds(q)' /\ req'[p].act = req'[q].act => p = q
    BY <1>1, <1>4 DEF ClaimInv
<1>7. \A p, q \in Requests : Holds(q)' /\ req'[q].pc \in BeforeRun /\ p \in ran' =>
            req'[p].act # req'[q].act
    BY <1>1, <1>4 DEF ClaimInv
<1>8. \A p, q \in ran' : req'[p].act = req'[q].act /\ req'[q].act \in Actions => p = q
    BY <1>1 DEF ClaimInv, TypeOK
<1> QED
    BY <1>3, <1>5, <1>6, <1>7, <1>8 DEF ClaimInv

(* A request that arrives holds nothing and has run nothing. *)
LEMMA ArrivalStep ==
    ASSUME TypeOK, ClaimInv, NEW r \in Requests, req[r].pc = "idle",
           \A q \in Requests \ {r} : req'[q] = req[q], row' = row, ran' = ran,
           RequestInv(r)', ~Holds(r)', req'[r].outcome \notin {"rejected", "cancelled"}
    PROVE  ClaimInv'
<1>1. r \notin ran
    BY DEF ClaimInv, RequestInv
<1>2. \A q \in Requests : RequestInv(q)'
    BY DEF RequestInv, ClaimInv
<1>3. \A q \in Requests : Holds(q)' => q # r /\ Holds(q)
    BY DEF Holds
<1>4. \A q \in Requests : RowInv(q)'
    BY <1>1, <1>3 DEF RowInv, ClaimInv
<1>5. \A p, q \in Requests : Holds(p)' /\ Holds(q)' /\ req'[p].act = req'[q].act => p = q
    BY <1>3 DEF ClaimInv
<1>6. \A p, q \in Requests : Holds(q)' /\ req'[q].pc \in BeforeRun /\ p \in ran' =>
            req'[p].act # req'[q].act
    BY <1>1, <1>3 DEF ClaimInv
<1>7. \A p, q \in ran' : req'[p].act = req'[q].act /\ req'[q].act \in Actions => p = q
    BY <1>1 DEF ClaimInv, TypeOK
<1> QED
    BY <1>2, <1>4, <1>5, <1>6, <1>7 DEF ClaimInv

(* No request works on a row that does not exist yet. *)
LEMMA CreateStep ==
    ASSUME TypeOK, ClaimInv, NEW r \in Requests, CreatePending(r)
    PROVE  ClaimInv'
<1>1. /\ KeepsRequest(r) /\ req'[r].pc = "report" /\ req[r].pc = "create" /\ ran' = ran
      /\ req'[r].outcome = "pending_confirmation"
    BY ThenReportEffect DEF CreatePending, Outcomes
<1>2. PICK a \in Actions : /\ row[a].status = "none"
                           /\ \A b \in Actions : row'[b].status = IF b = a THEN "pending"
                                                                  ELSE row[b].status
    BY DEF CreatePending, TypeOK
<1>3. \A q \in Requests : req'[q].act = req[q].act /\ req'[q].op = req[q].op
    BY <1>1 DEF KeepsRequest, KeepsFields
<1>4. \A q \in Requests : RequestInv(q)'
    BY <1>1, <1>3 DEF KeepsRequest, RequestInv, ClaimInv, AfterRun
<1>5. \A q \in Requests : Holds(q)' => q # r /\ Holds(q) /\ req'[q].pc = req[q].pc
    BY <1>1 DEF KeepsRequest, Holds, BeforeRun, AfterRun
<1>6. \A q \in Requests : RowInv(q)'
  <2> SUFFICES ASSUME NEW q \in Requests PROVE RowInv(q)'
    OBVIOUS
  <2>1. RequestInv(q) /\ RowInv(q) /\ RequestInv(r)
    BY DEF ClaimInv
  <2>2. CASE q = r
    BY <1>1, <1>3, <1>5, <2>1, <2>2 DEF RowInv, RequestInv
  <2>3. CASE q # r
    BY <1>1, <1>2, <1>3, <1>5, <2>1, <2>3 DEF RowInv, RequestInv, KeepsRequest, Holds, BeforeRun, AfterRun
  <2> QED
    BY <2>2, <2>3
<1>7. \A p, q \in Requests : Holds(p)' /\ Holds(q)' /\ req'[p].act = req'[q].act => p = q
    BY <1>3, <1>5 DEF ClaimInv
<1>8. \A p, q \in Requests : Holds(q)' /\ req'[q].pc \in BeforeRun /\ p \in ran' =>
            req'[p].act # req'[q].act
    BY <1>1, <1>3, <1>5 DEF ClaimInv
<1>9. \A p, q \in ran' : req'[p].act = req'[q].act /\ req'[q].act \in Actions => p = q
    BY <1>1, <1>3 DEF ClaimInv, TypeOK
<1> QED
    BY <1>4, <1>6, <1>7, <1>8, <1>9 DEF ClaimInv

(* The tool runs in the request that holds the action, for the first time. *)
LEMMA RunStep ==
    ASSUME TypeOK, ClaimInv, NEW r \in Requests, RunTool(r)
    PROVE  ClaimInv'
<1>1. /\ KeepsRequest(r) /\ req'[r].pc \in {"record", "recordThrow"} /\ req[r].pc = "run"
      /\ row' = row /\ ran' = ran \union {r} /\ req'[r].outcome = req[r].outcome
    BY EndCallEffect DEF RunTool, Pcs, Results
<1>2. \A q \in Requests : req'[q].act = req[q].act /\ req'[q].op = req[q].op
    BY <1>1 DEF KeepsRequest, KeepsFields
<1>3. RequestInv(r) /\ RowInv(r)
    BY DEF ClaimInv
<1>4. req[r].op \in {"propose", "approve"}
    BY <1>1, <1>3 DEF RequestInv, TypeOK, Request, Ops
<1>5. \A q \in Requests : RequestInv(q)'
    BY <1>1, <1>2, <1>4 DEF KeepsRequest, RequestInv, ClaimInv, AfterRun
<1>6. \A q \in Requests : Holds(q)' => Holds(q) /\ (req'[q].pc \in BeforeRun => q # r /\ req[q].pc \in BeforeRun)
    BY <1>1 DEF KeepsRequest, KeepsFields, Holds, BeforeRun, AfterRun
<1>7. \A q \in Requests : RowInv(q)'
    BY <1>1, <1>2, <1>6 DEF KeepsRequest, RowInv, ClaimInv, Holds, BeforeRun
<1>8. \A p, q \in Requests : Holds(p)' /\ Holds(q)' /\ req'[p].act = req'[q].act => p = q
    BY <1>2, <1>6 DEF ClaimInv
<1>9. req[r].op = "propose" => req[r].act = NoAction
    BY <1>3 DEF RequestInv
<1>10. \A p \in ran : req[r].act \in Actions => req[p].act # req[r].act
    BY <1>1, <1>4, <1>9, PendingConstants DEF ClaimInv, TypeOK, Holds, BeforeRun
<1>11. \A p, q \in Requests : Holds(q)' /\ req'[q].pc \in BeforeRun /\ p \in ran' =>
            req'[p].act # req'[q].act
  <2> SUFFICES ASSUME NEW p \in Requests, NEW q \in Requests,
                      Holds(q)', req'[q].pc \in BeforeRun, p \in ran'
               PROVE  req'[p].act # req'[q].act
    OBVIOUS
  <2>1. q # r /\ Holds(q) /\ req[q].pc \in BeforeRun
    BY <1>6
  <2>2. CASE p \in ran
    BY <1>2, <2>1, <2>2 DEF ClaimInv
  <2>3. CASE p = r /\ Holds(r)
    BY <1>2, <2>1, <2>3 DEF ClaimInv
  <2>4. CASE p = r /\ req[r].op = "propose"
    BY <1>2, <1>9, <2>1, <2>4, PendingConstants DEF ClaimInv, RequestInv, Holds, BeforeRun
  <2> QED
    BY <1>1, <1>4, <2>2, <2>3, <2>4 DEF Holds, BeforeRun
<1>12. \A p, q \in ran' : req'[p].act = req'[q].act /\ req'[q].act \in Actions => p = q
    BY <1>1, <1>2, <1>10 DEF ClaimInv, TypeOK
<1> QED
    BY <1>5, <1>7, <1>8, <1>11, <1>12 DEF ClaimInv

(* A restart releases nothing and runs nothing. *)
LEMMA RestartStep ==
    ASSUME TypeOK, ClaimInv, Restart
    PROVE  ClaimInv'
<1>1. /\ row' = row /\ ran' = ran
      /\ \A q \in Requests : KeepsFields(q)
      /\ \A q \in Requests : \/ req'[q] = req[q]
                             \/ /\ req'[q].pc = "done" /\ req'[q].outcome = "error"
                                /\ Active(q)
    BY RestartEffect DEF Restart
<1>2. \A q \in Requests : req'[q].act = req[q].act /\ req'[q].op = req[q].op
    BY <1>1 DEF KeepsFields
<1>3. \A q \in Requests : RequestInv(q)'
    BY <1>1, <1>2 DEF RequestInv, ClaimInv, AfterRun, Active
<1>4. \A q \in Requests : Holds(q)' => Holds(q) /\ req'[q].pc = req[q].pc
    BY <1>1 DEF Holds, BeforeRun, AfterRun
<1>5. \A q \in Requests : RowInv(q)'
    BY <1>1, <1>2, <1>4 DEF RowInv, ClaimInv
<1>6. \A p, q \in Requests : Holds(p)' /\ Holds(q)' /\ req'[p].act = req'[q].act => p = q
    BY <1>2, <1>4 DEF ClaimInv
<1>7. \A p, q \in Requests : Holds(q)' /\ req'[q].pc \in BeforeRun /\ p \in ran' =>
            req'[p].act # req'[q].act
    BY <1>1, <1>2, <1>4 DEF ClaimInv
<1>8. \A p, q \in ran' : req'[p].act = req'[q].act /\ req'[q].act \in Actions => p = q
    BY <1>1, <1>2 DEF ClaimInv, TypeOK
<1> QED
    BY <1>3, <1>5, <1>6, <1>7, <1>8 DEF ClaimInv

(* The invariant is inductive. *)
LEMMA ClaimInvStep == TypeOK /\ ClaimInv /\ [Next]_vars => ClaimInv'
<1> SUFFICES ASSUME TypeOK, ClaimInv, [Next]_vars
             PROVE  ClaimInv'
    OBVIOUS
<1>1. ASSUME NEW r \in Requests, RequestExecution(r) PROVE ClaimInv'
  <2>1. PICK u \in Users, t \in Tools, p \in {"skill", "done"}, oc \in {"none", "rejected_call"} :
            Arrive(r, "propose", u, NoAction, t, p, oc)
    BY <1>1 DEF RequestExecution
  <2>2. "propose" \in Ops /\ p \in Pcs /\ oc \in Outcomes
    BY <2>1 DEF Ops, Pcs, Outcomes
  <2>3. /\ req[r].pc = "idle" /\ \A q \in Requests \ {r} : req'[q] = req[q]
        /\ req'[r].pc = p /\ req'[r].op = "propose" /\ req'[r].act = NoAction /\ req'[r].outcome = oc
    BY <2>1, <2>2, ArriveEffect
  <2>4. RequestInv(r)' /\ ~Holds(r)' /\ row' = row /\ ran' = ran
    BY <1>1, <2>3 DEF RequestExecution, RequestInv, ClaimInv, Holds, AfterRun
  <2> QED
    BY <2>3, <2>4, ArrivalStep
<1>2. ASSUME NEW r \in Requests, Decide(r) PROVE ClaimInv'
  <2>1. PICK o \in {"approve", "reject", "cancel"}, u \in Users, a \in Actions \union {NoAction},
            t \in Tools \union {NoTool}, p \in {"expire", "claim", "done"},
            oc \in {"none", "refused"} :
            /\ Arrive(r, o, u, a, t, p, oc)
            /\ p # "done" => a \in Actions
            /\ p = "expire" => o = "approve"
    BY <1>2 DEF Decide, TypeOK
  <2>2. o \in Ops /\ p \in Pcs /\ oc \in Outcomes
    BY <2>1 DEF Ops, Pcs, Outcomes
  <2>3. /\ req[r].pc = "idle" /\ \A q \in Requests \ {r} : req'[q] = req[q]
        /\ req'[r].pc = p /\ req'[r].op = o /\ req'[r].act = a /\ req'[r].outcome = oc
    BY <2>1, <2>2, ArriveEffect
  <2>4. RequestInv(r)' /\ ~Holds(r)' /\ row' = row /\ ran' = ran
    BY <1>2, <2>1, <2>3 DEF Decide, RequestInv, ClaimInv, Holds, BeforeRun, AfterRun
  <2> QED
    BY <2>3, <2>4, ArrivalStep
<1>3. ASSUME NEW r \in Requests,
             \/ CheckSkill(r) \/ StartCall(r) \/ RecordCall(r) \/ RecordThrow(r) \/ AuditCall(r)
             \/ LookupTool(r) \/ GateSkill(r) \/ Report(r) \/ DbError(r)
      PROVE  ClaimInv'
    BY <1>3, QuietStep
<1>4. ASSUME NEW r \in Requests, CreatePending(r) PROVE ClaimInv'
    BY <1>4, CreateStep
<1>5. ASSUME NEW r \in Requests, RunTool(r) PROVE ClaimInv'
    BY <1>5, RunStep
<1>6. ASSUME NEW r \in Requests, ExpireAction(r) PROVE ClaimInv'
  <2>1. KeepsRequest(r) /\ req'[r].pc = "report" /\ req'[r].outcome = "expired"
    BY <1>6, ThenReportEffect DEF ExpireAction, Outcomes
  <2>2. \A b \in Actions : row'[b].status =
            IF b = req[r].act /\ row[b].status = "pending" THEN "expired" ELSE row[b].status
    BY <1>6, SetStatusEffect DEF ExpireAction, ClaimPending, PendingStatus, TypeOK, Request
  <2> QED
    BY <1>6, <2>1, <2>2, DeclineStep DEF ExpireAction
<1>7. ASSUME NEW r \in Requests, ClaimRejection(r) PROVE ClaimInv'
  <2>1. /\ KeepsRequest(r) /\ req'[r].pc = "report"
        /\ req'[r].outcome = IF row[req[r].act].status = "pending" THEN "rejected" ELSE "already_processed"
    BY <1>7, ThenReportEffect DEF ClaimRejection, Outcomes
  <2>2. \A b \in Actions : row'[b].status =
            IF b = req[r].act /\ row[b].status = "pending" THEN "rejected" ELSE row[b].status
    BY <1>7, SetStatusEffect DEF ClaimRejection, ClaimPending, PendingStatus, TypeOK, Request
  <2> QED
    BY <1>7, <2>1, <2>2, DeclineStep DEF ClaimRejection
<1>8. ASSUME NEW r \in Requests, ClaimCancellation(r) PROVE ClaimInv'
  <2>1. /\ KeepsRequest(r) /\ req'[r].pc = "report"
        /\ req'[r].outcome = IF row[req[r].act].status = "pending" THEN "cancelled" ELSE "already_processed"
    BY <1>8, ThenReportEffect DEF ClaimCancellation, Outcomes
  <2>2. \A b \in Actions : row'[b].status =
            IF b = req[r].act /\ row[b].status = "pending" THEN "cancelled" ELSE row[b].status
    BY <1>8, SetStatusEffect DEF ClaimCancellation, ClaimPending, PendingStatus, TypeOK, Request
  <2> QED
    BY <1>8, <2>1, <2>2, DeclineStep DEF ClaimCancellation
<1>9. ASSUME NEW r \in Requests, ClaimApproval(r) PROVE ClaimInv'
  <2>1. CASE row[req[r].act].status = "pending"
    <3>1. KeepsRequest(r) /\ req'[r].pc = "lookup" /\ req'[r].outcome = req[r].outcome
        BY <1>9, <2>1, GotoEffect DEF ClaimApproval, Pcs
    <3>2. \A b \in Actions : row'[b].status = IF b = req[r].act THEN "approved" ELSE row[b].status
        BY <1>9, <2>1, SetStatusEffect DEF ClaimApproval, ClaimPending, PendingStatus, TypeOK, Request
    <3> QED
        BY <1>9, <2>1, <3>1, <3>2, ClaimStep DEF ClaimApproval
  <2>2. CASE row[req[r].act].status # "pending"
    <3>1. KeepsRequest(r) /\ req'[r].pc = "report" /\ req'[r].outcome = "already_processed"
        BY <1>9, <2>2, ThenReportEffect DEF ClaimApproval, Outcomes
    <3>2. row' = row /\ ran' = ran /\ req[r].pc = "claim" /\ req[r].op = "approve"
        BY <1>9, <2>2 DEF ClaimApproval, ClaimPending
    <3>3. RequestInv(r)' /\ ~Holds(r)'
        BY <3>1, <3>2 DEF ClaimInv, RequestInv, Holds, BeforeRun, AfterRun, KeepsRequest, KeepsFields
    <3> QED
        BY <3>1, <3>2, <3>3, Advance
  <2> QED
    BY <2>1, <2>2
<1>10. ASSUME NEW r \in Requests, BlockAction(r) PROVE ClaimInv'
  <2>1. KeepsRequest(r) /\ req'[r].pc = "done" /\ req'[r].outcome = "executed"
    BY <1>10, FinishEffect DEF BlockAction, Outcomes
  <2>2. \A b \in Actions : row'[b].status = IF b = req[r].act THEN "failed" ELSE row[b].status
    BY <1>10, SetStatusEffect DEF BlockAction, PendingStatus, TypeOK, Request
  <2>3. Holds(r)
    BY <1>10 DEF BlockAction, ClaimInv, RequestInv, Holds, BeforeRun, TypeOK, Request, Ops
  <2> QED
    BY <1>10, <2>1, <2>2, <2>3, ReleaseStep DEF BlockAction
<1>11. ASSUME NEW r \in Requests, SettleAction(r) PROVE ClaimInv'
  <2>1. KeepsRequest(r) /\ req'[r].pc = "done" /\ req'[r].outcome = "executed"
    BY <1>11, FinishEffect DEF SettleAction, Outcomes
  <2>2. PICK s \in {"executed", "failed"} : SetStatus(req[r].act, s)
    BY <1>11 DEF SettleAction
  <2>3. \A b \in Actions : row'[b].status = IF b = req[r].act THEN s ELSE row[b].status
    BY <2>2, SetStatusEffect DEF PendingStatus, TypeOK, Request
  <2>4. Holds(r)
    BY <1>11 DEF SettleAction, ClaimInv, RequestInv, Holds, AfterRun, TypeOK, Request, Ops
  <2> QED
    BY <1>11, <2>1, <2>3, <2>4, ReleaseStep DEF SettleAction
<1>12. CASE SetEnabled
    BY <1>12 DEF SetEnabled, ClaimInv, RequestInv, RowInv, Holds
<1>13. CASE PassDeadline
    BY <1>13 DEF PassDeadline, ClaimInv, RequestInv, RowInv, Holds
<1>14. CASE Restart
    BY <1>14, RestartStep
<1>15. CASE UNCHANGED vars
    BY <1>15 DEF vars, ClaimInv, RequestInv, RowInv, Holds
<1> QED
    BY <1>1, <1>2, <1>3, <1>4, <1>5, <1>6, <1>7, <1>8, <1>9, <1>10, <1>11, <1>12, <1>13, <1>14,
       <1>15 DEF Next, Step

(* At any moment one request at most is past the claim of an action, the   *)
(* row is approved while it is, and no tool has run for it before.         *)
THEOREM ClaimExclusive == Spec => [](TypeOK /\ ClaimInv)
<1>1. Init => TypeOK /\ ClaimInv
  <2>1. Init => TypeOK
    BY PendingConstants DEF Init, TypeOK, Request, PendingStatus, Ops, Pcs, Results, Outcomes,
                            CallStatus
  <2>2. Init => ClaimInv
    BY DEF Init, ClaimInv, RequestInv, RowInv, Holds, BeforeRun, AfterRun
  <2> QED
    BY <2>1, <2>2
<1> QED
    BY <1>1, TypeStep, ClaimInvStep, PTL DEF Spec

(* Racing or repeated approvals, failed writes and restarts never make the *)
(* tool of one action run twice.                                           *)
THEOREM ExecutedAtMostOnce == Spec => []AtMostOneExecution
<1>1. TypeOK /\ ClaimInv => AtMostOneExecution
    BY DEF ClaimInv, AtMostOneExecution, RunsOf
<1> QED
    BY <1>1, ClaimExclusive, PTL

(* A rejection or cancellation that was reported is never overtaken by an  *)
(* approval: the status stays and the tool never runs.                     *)
THEOREM DecisionsAreRespected == Spec => []DecisionRespected
<1>1. TypeOK /\ ClaimInv => DecisionRespected
  <2> SUFFICES ASSUME TypeOK, ClaimInv PROVE DecisionRespected
    OBVIOUS
  <2>1. \A q \in ran : req[q].act \in Actions => req[q].op = "approve"
    BY PendingConstants DEF ClaimInv, RequestInv, TypeOK, Request, Ops
  <2>2. \A q \in ran : req[q].act \in Actions =>
            row[req[q].act].status \in {"approved", "executed", "failed"}
    BY <2>1 DEF ClaimInv, RowInv, TypeOK
  <2> QED
    BY <2>2 DEF DecisionRespected, RunsOf, ClaimInv, RequestInv, RowInv
<1> QED
    BY <1>1, ClaimExclusive, PTL

(* The abstract state does not see a step that changes neither a status    *)
(* nor what has run.                                                       *)
LEMMA HiddenStep ==
    ASSUME TypeOK, row' = row, ran' = ran, \A q \in ran : req'[q].act = req[q].act
    PROVE  UNCHANGED PL!lifecycleVars
<1>1. \A a \in Actions : RunsOf(a)' = RunsOf(a)
    BY DEF RunsOf
<1> QED
    BY <1>1 DEF PL!lifecycleVars

(* A write of one row's status is a move of the abstract status. *)
LEMMA MoveStep ==
    ASSUME TypeOK, NEW a \in Actions, NEW from, NEW to, row[a].status = from, ran' = ran,
           \A q \in ran : req'[q].act = req[q].act,
           \A b \in Actions : row'[b].status = IF b = a THEN to ELSE row[b].status
    PROVE  PL!Move(a, from, to)
<1>1. \A b \in Actions : RunsOf(b)' = RunsOf(b)
    BY DEF RunsOf
<1>2. [b \in Actions |-> row[b].status]' = [[b \in Actions |-> row[b].status] EXCEPT ![a] = to]
    OBVIOUS
<1> QED
    BY <1>1, <1>2 DEF PL!Move

(* Every step of a request is a step of the abstract lifecycle or hidden.  *)
LEMMA LifecycleStep == TypeOK /\ ClaimInv /\ [Next]_vars => [PL!Next]_(PL!lifecycleVars)
<1> SUFFICES ASSUME TypeOK, ClaimInv, [Next]_vars
             PROVE  PL!Next \/ UNCHANGED PL!lifecycleVars
    OBVIOUS
<1> DEFINE Goal == PL!Next \/ UNCHANGED PL!lifecycleVars
           SameActs == \A q \in ran : req'[q].act = req[q].act
<1>0. \A r \in Requests : KeepsRequest(r) => SameActs
    BY DEF KeepsRequest, KeepsFields, TypeOK
<1>1. ASSUME NEW r \in Requests, RequestExecution(r) \/ Decide(r) PROVE Goal
  <2>1. /\ row' = row /\ ran' = ran /\ req[r].pc = "idle"
        /\ \A q \in Requests \ {r} : req'[q] = req[q]
    BY <1>1 DEF RequestExecution, Decide, Arrive, TypeOK
  <2>2. r \notin ran
    BY <2>1 DEF ClaimInv, RequestInv
  <2> QED
    BY <2>1, <2>2, HiddenStep DEF TypeOK
<1>2. ASSUME NEW r \in Requests,
             \/ CheckSkill(r) \/ StartCall(r) \/ RecordCall(r) \/ RecordThrow(r) \/ AuditCall(r)
             \/ LookupTool(r) \/ GateSkill(r) \/ Report(r) \/ DbError(r)
      PROVE  Goal
  <2>1. row' = row /\ ran' = ran
    BY <1>2 DEF CheckSkill, StartCall, RecordCall, RecordThrow, AuditCall, LookupTool, GateSkill,
                Report, DbError
  <2>2. KeepsRequest(r)
    <3>1. CASE CheckSkill(r) \/ AuditCall(r)
        BY <3>1, GotoEffect, FinishEffect DEF CheckSkill, AuditCall, Return, Pcs, Outcomes
    <3>2. CASE StartCall(r) \/ RecordCall(r) \/ RecordThrow(r) \/ Report(r)
        BY <3>2, GotoEffect DEF StartCall, RecordCall, RecordThrow, Report, Pcs
    <3>3. CASE LookupTool(r) \/ GateSkill(r)
        BY <3>3, GotoEffect DEF LookupTool, GateSkill, Pcs
    <3>4. CASE DbError(r)
        BY <3>4, FinishEffect, EndCallEffect DEF DbError, Pcs, Results, Outcomes
    <3> QED
        BY <1>2, <3>1, <3>2, <3>3, <3>4
  <2> QED
    BY <1>0, <2>1, <2>2, HiddenStep
<1>3. ASSUME NEW r \in Requests, CreatePending(r) PROVE Goal
  <2>1. KeepsRequest(r) /\ ran' = ran
    BY <1>3, ThenReportEffect DEF CreatePending, Outcomes
  <2>2. PICK a \in Actions : /\ row[a].status = "none"
                             /\ \A b \in Actions : row'[b].status = IF b = a THEN "pending"
                                                                    ELSE row[b].status
    BY <1>3 DEF CreatePending, TypeOK
  <2>3. PL!Move(a, "none", "pending")
    BY <1>0, <2>1, <2>2, MoveStep
  <2> QED
    BY <2>3 DEF PL!Next, PL!Create
<1>4. ASSUME NEW r \in Requests, RunTool(r) PROVE Goal
  <2>1. /\ KeepsRequest(r) /\ row' = row /\ ran' = ran \union {r} /\ req[r].pc = "run"
    BY <1>4, EndCallEffect DEF RunTool, Pcs, Results
  <2>2. \A q \in Requests : req'[q].act = req[q].act
    BY <2>1 DEF KeepsRequest, KeepsFields
  <2>3. RequestInv(r) /\ RowInv(r)
    BY DEF ClaimInv
  <2>4. CASE req[r].op = "approve"
    <3>1. req[r].act \in Actions /\ row[req[r].act].status = "approved" /\ RunsOf(req[r].act) = {}
        BY <2>1, <2>3, <2>4 DEF RequestInv, RowInv, ClaimInv, Holds, BeforeRun, RunsOf, TypeOK
    <3>2. \A a \in Actions : RunsOf(a)' = IF a = req[r].act THEN {r} ELSE RunsOf(a)
        BY <2>1, <2>2, <3>1 DEF RunsOf, TypeOK
    <3>3. PL!Execute(req[r].act)
        BY <2>1, <3>1, <3>2 DEF PL!Execute
    <3> QED
        BY <3>1, <3>3 DEF PL!Next
  <2>5. CASE req[r].op # "approve"
    <3>1. req[r].act = NoAction
        BY <2>1, <2>3, <2>5 DEF RequestInv, TypeOK, Request, Ops
    <3>2. \A a \in Actions : RunsOf(a)' = RunsOf(a)
        BY <2>1, <2>2, <3>1, PendingConstants DEF RunsOf, TypeOK
    <3> QED
        BY <2>1, <3>2 DEF PL!lifecycleVars
  <2> QED
    BY <2>4, <2>5
<1>5. ASSUME NEW r \in Requests, NEW s \in {"expired", "rejected", "cancelled"},
             req[r].pc \in {"claim", "expire"}, KeepsRequest(r), ran' = ran,
             ClaimPending(req[r].act, s)
      PROVE  Goal
  <2>1. req[r].act \in Actions
    BY <1>5 DEF ClaimInv, RequestInv
  <2>2. CASE row[req[r].act].status = "pending"
    <3>1. \A b \in Actions : row'[b].status = IF b = req[r].act THEN s ELSE row[b].status
        BY <1>5, <2>1, <2>2, SetStatusEffect DEF ClaimPending, PendingStatus
    <3>2. PL!Move(req[r].act, "pending", s)
        BY <1>0, <1>5, <2>1, <2>2, <3>1, MoveStep
    <3> QED
        BY <2>1, <3>2 DEF PL!Next, PL!Decline
  <2>3. CASE row[req[r].act].status # "pending"
    BY <1>0, <1>5, <2>3, HiddenStep DEF ClaimPending
  <2> QED
    BY <2>2, <2>3
<1>6. ASSUME NEW r \in Requests, ExpireAction(r) PROVE Goal
  <2>1. KeepsRequest(r)
    BY <1>6, ThenReportEffect DEF ExpireAction, Outcomes
  <2> QED
    BY <1>5, <1>6, <2>1 DEF ExpireAction
<1>7. ASSUME NEW r \in Requests, ClaimRejection(r) PROVE Goal
  <2>1. KeepsRequest(r)
    BY <1>7, ThenReportEffect DEF ClaimRejection, Outcomes
  <2> QED
    BY <1>5, <1>7, <2>1 DEF ClaimRejection
<1>8. ASSUME NEW r \in Requests, ClaimCancellation(r) PROVE Goal
  <2>1. KeepsRequest(r)
    BY <1>8, ThenReportEffect DEF ClaimCancellation, Outcomes
  <2> QED
    BY <1>5, <1>8, <2>1 DEF ClaimCancellation
<1>9. ASSUME NEW r \in Requests, ClaimApproval(r) PROVE Goal
  <2>1. KeepsRequest(r)
    BY <1>9, GotoEffect, ThenReportEffect DEF ClaimApproval, Outcomes, Pcs
  <2>2. req[r].act \in Actions
    BY <1>9 DEF ClaimApproval, ClaimInv, RequestInv
  <2>3. CASE row[req[r].act].status = "pending"
    <3>1. \A b \in Actions : row'[b].status = IF b = req[r].act THEN "approved" ELSE row[b].status
        BY <1>9, <2>2, <2>3, SetStatusEffect DEF ClaimApproval, ClaimPending, PendingStatus
    <3>2. PL!Move(req[r].act, "pending", "approved")
        BY <1>0, <1>9, <2>1, <2>2, <2>3, <3>1, MoveStep DEF ClaimApproval
    <3> QED
        BY <2>2, <3>2 DEF PL!Next, PL!Approve
  <2>4. CASE row[req[r].act].status # "pending"
    BY <1>0, <1>9, <2>1, <2>4, HiddenStep DEF ClaimApproval, ClaimPending
  <2> QED
    BY <2>3, <2>4
<1>10. ASSUME NEW r \in Requests, BlockAction(r) \/ SettleAction(r) PROVE Goal
  <2>1. KeepsRequest(r) /\ ran' = ran
    BY <1>10, FinishEffect DEF BlockAction, SettleAction, Outcomes
  <2>2. PICK s \in {"executed", "failed"} :
            SetStatus(req[r].act, s) /\ (s = "executed" => req[r].pc = "settle")
    BY <1>10 DEF BlockAction, SettleAction
  <2>3. Holds(r)
    BY <1>10 DEF BlockAction, SettleAction, ClaimInv, RequestInv, Holds, BeforeRun, AfterRun, TypeOK,
                 Request, Ops
  <2>4. req[r].act \in Actions /\ row[req[r].act].status = "approved"
    BY <2>3 DEF ClaimInv, RequestInv, RowInv, Holds, BeforeRun, AfterRun
  <2>5. \A b \in Actions : row'[b].status = IF b = req[r].act THEN s ELSE row[b].status
    BY <2>2, <2>4, SetStatusEffect DEF PendingStatus
  <2>6. PL!Move(req[r].act, "approved", s)
    BY <1>0, <2>1, <2>4, <2>5, MoveStep
  <2>7. s = "executed" => RunsOf(req[r].act) # {}
    BY <2>2 DEF ClaimInv, RequestInv, AfterRun, RunsOf
  <2> QED
    BY <2>2, <2>4, <2>6, <2>7 DEF PL!Next, PL!Succeed, PL!Fail
<1>11. CASE SetEnabled \/ PassDeadline \/ UNCHANGED vars
    BY <1>11, HiddenStep DEF SetEnabled, PassDeadline, vars
<1>12. CASE Restart
  <2>1. row' = row /\ ran' = ran /\ SameActs
    BY <1>12, RestartEffect DEF Restart, KeepsFields, TypeOK
  <2> QED
    BY <2>1, HiddenStep
<1> QED
    BY <1>1, <1>2, <1>3, <1>4, <1>6, <1>7, <1>8, <1>9, <1>10, <1>11, <1>12 DEF Next, Step

(* The tool executor and PendingActionService implement the abstract       *)
(* lifecycle: one decision, one execution, and only after approval.        *)
THEOREM LifecycleRefined == Spec => ImplementsLifecycle
<1>1. Init => PL!Init
    BY DEF Init, PL!Init, RunsOf
<1> QED
    BY <1>1, LifecycleStep, ClaimExclusive, PTL DEF Spec, ImplementsLifecycle, PL!Spec
-------------------------------------------------------------------------------
(* What a step of a request that has arrived leaves alone: the other       *)
(* requests, the owner and the tool of every row, and what has run but for *)
(* the request itself. A row that exists goes on existing.                 *)
Orderly(r) ==
    /\ KeepsRequest(r)
    /\ \A a \in Actions : row[a].status # "none" =>
            /\ row'[a].owner = row[a].owner /\ row'[a].tool = row[a].tool
            /\ row'[a].status # "none"
    /\ \A a \in Actions : row'[a].status # "none" /\ row[a].status = "none" =>
            req[r].pc = "create" /\ row'[a].tool = req[r].tool
    /\ ran \subseteq ran' /\ ran' \subseteq ran \union {r}

(* The steps that write no row. *)
LEMMA OrderlyQuiet ==
    ASSUME TypeOK, NEW r \in Requests,
           \/ CheckSkill(r) \/ StartCall(r) \/ RunTool(r) \/ RecordCall(r) \/ RecordThrow(r)
           \/ AuditCall(r) \/ LookupTool(r) \/ GateSkill(r) \/ Report(r) \/ DbError(r)
    PROVE  Orderly(r) /\ row' = row
<1>1. row' = row /\ ran \subseteq ran' /\ ran' \subseteq ran \union {r}
    BY DEF CheckSkill, StartCall, RunTool, RecordCall, RecordThrow, AuditCall, LookupTool, GateSkill,
           Report, DbError
<1>2. KeepsRequest(r)
  <2>1. CASE CheckSkill(r) \/ AuditCall(r)
    BY <2>1, GotoEffect, FinishEffect DEF CheckSkill, AuditCall, Return, Pcs, Outcomes
  <2>2. CASE StartCall(r) \/ RecordCall(r) \/ RecordThrow(r) \/ Report(r)
    BY <2>2, GotoEffect DEF StartCall, RecordCall, RecordThrow, Report, Pcs
  <2>3. CASE LookupTool(r) \/ GateSkill(r)
    BY <2>3, GotoEffect DEF LookupTool, GateSkill, Pcs
  <2>4. CASE DbError(r) \/ RunTool(r)
    BY <2>4, FinishEffect, EndCallEffect DEF DbError, RunTool, Pcs, Results, Outcomes
  <2> QED
    BY <2>1, <2>2, <2>3, <2>4
<1> QED
    BY <1>1, <1>2 DEF Orderly

(* The steps that write the status of the action they work on. *)
LEMMA OrderlyWrite ==
    ASSUME TypeOK, ClaimInv, NEW r \in Requests, PermitInv(r),
           \/ ExpireAction(r) \/ ClaimApproval(r) \/ ClaimRejection(r) \/ ClaimCancellation(r)
           \/ BlockAction(r) \/ SettleAction(r)
    PROVE  Orderly(r) /\ ran' = ran
<1>1. ran' = ran
    BY DEF ExpireAction, ClaimApproval, ClaimRejection, ClaimCancellation, BlockAction, SettleAction
<1>2. KeepsRequest(r)
  <2>1. CASE ExpireAction(r) \/ ClaimRejection(r) \/ ClaimCancellation(r)
    BY <2>1, ThenReportEffect DEF ExpireAction, ClaimRejection, ClaimCancellation, Outcomes
  <2>2. CASE ClaimApproval(r)
    BY <2>2, GotoEffect, ThenReportEffect DEF ClaimApproval, Outcomes, Pcs
  <2>3. CASE BlockAction(r) \/ SettleAction(r)
    BY <2>3, FinishEffect DEF BlockAction, SettleAction, Outcomes
  <2> QED
    BY <2>1, <2>2, <2>3
<1>3. req[r].act \in Actions /\ row[req[r].act].status # "none"
    BY PendingConstants DEF ExpireAction, ClaimApproval, ClaimRejection, ClaimCancellation, BlockAction, SettleAction,
           ClaimInv, RequestInv, PermitInv, TypeOK, Request, Ops
<1>4. \/ row' = row
      \/ \E s \in PendingStatus \ {"none"} : SetStatus(req[r].act, s)
    BY DEF ExpireAction, ClaimApproval, ClaimRejection, ClaimCancellation, BlockAction, SettleAction,
           ClaimPending, PendingStatus
<1> QED
    BY <1>1, <1>2, <1>3, <1>4, SetStatusEffect DEF Orderly

(* Where an orderly step may take the invariant: only the request that     *)
(* moved has something to show.                                            *)
LEMMA PermitKept ==
    ASSUME TypeOK, PermissionInv, NEW r \in Requests, Orderly(r),
           req[r].pc = "create" => req[r].op = "propose",
           req[r].op = "propose" /\ (req'[r].pc \in {"skill", "create"} \/ Executing(r)') =>
               req[r].pc \in {"skill", "create"} \/ Executing(r),
           req[r].op = "propose" /\ Executing(r)' => Executing(r) \/ Immediate(req[r].tool)
    PROVE  PermissionInv'
<1>1. \A q \in Requests : /\ req'[q].op = req[q].op /\ req'[q].user = req[q].user
                          /\ req'[q].act = req[q].act /\ req'[q].tool = req[q].tool
    BY DEF Orderly, KeepsRequest, KeepsFields
<1>2. ASSUME NEW q \in Requests \ {r} PROVE PermitInv(q)'
    BY <1>1, <1>2 DEF PermissionInv, PermitInv, Orderly, KeepsRequest, Executing, Immediate
<1>3. PermitInv(r)'
    BY <1>1 DEF PermissionInv, PermitInv, Orderly, Immediate
<1>4. ASSUME NEW a \in Actions, row'[a].status # "none"
      PROVE  row'[a].tool \in Tools /\ Level[row'[a].tool] # "N4"
    BY <1>4 DEF PermissionInv, PermitInv, Orderly
<1> QED
    BY <1>2, <1>3, <1>4 DEF PermissionInv

(* No request acts without permission, and none gains it on the way. *)
LEMMA PermissionStep == TypeOK /\ ClaimInv /\ PermissionInv /\ [Next]_vars => PermissionInv'
<1> SUFFICES ASSUME TypeOK, ClaimInv, PermissionInv, [Next]_vars
             PROVE  PermissionInv'
    OBVIOUS
<1> USE PendingConstants
<1>1. ASSUME NEW r \in Requests, RequestExecution(r) PROVE PermissionInv'
  <2>1. PICK u \in Users, t \in Tools, p \in {"skill", "done"}, oc \in {"none", "rejected_call"} :
            /\ Arrive(r, "propose", u, NoAction, t, p, oc)
            /\ p = "skill" => Level[t] # "N4"
    BY <1>1 DEF RequestExecution, Allowed
  <2>2. "propose" \in Ops /\ p \in Pcs /\ oc \in Outcomes
    BY <2>1 DEF Ops, Pcs, Outcomes
  <2>3. /\ req[r].pc = "idle" /\ \A q \in Requests \ {r} : req'[q] = req[q]
        /\ req'[r].pc = p /\ req'[r].op = "propose" /\ req'[r].act = NoAction /\ req'[r].tool = t
    BY <2>1, <2>2, ArriveEffect
  <2>4. row' = row /\ ran' = ran /\ r \notin ran
    BY <1>1, <2>3 DEF RequestExecution, ClaimInv, RequestInv
  <2>5. PermitInv(r)'
    BY <2>1, <2>3, <2>4 DEF PermitInv, Executing, AfterRun
  <2> QED
    BY <2>3, <2>4, <2>5 DEF PermissionInv, PermitInv, Executing, Immediate
<1>2. ASSUME NEW r \in Requests, Decide(r) PROVE PermissionInv'
  <2>1. PICK o \in {"approve", "reject", "cancel"}, u \in Users, a \in Actions \union {NoAction},
            t \in Tools \union {NoTool}, p \in {"expire", "claim", "done"},
            oc \in {"none", "refused"} :
            /\ Arrive(r, o, u, a, t, p, oc)
            /\ a \in Actions => row[a].status # "none" /\ row[a].owner = u /\ row[a].tool = t
    BY <1>2 DEF Decide, MayDecide, TypeOK
  <2>2. o \in Ops /\ p \in Pcs /\ oc \in Outcomes
    BY <2>1 DEF Ops, Pcs, Outcomes
  <2>3. /\ req[r].pc = "idle" /\ \A q \in Requests \ {r} : req'[q] = req[q]
        /\ req'[r].pc = p /\ req'[r].op = o /\ req'[r].act = a /\ req'[r].tool = t /\ req'[r].user = u
    BY <2>1, <2>2, ArriveEffect
  <2>4. row' = row /\ ran' = ran
    BY <1>2 DEF Decide
  <2>5. PermitInv(r)'
    BY <2>1, <2>3, <2>4 DEF PermitInv
  <2> QED
    BY <2>3, <2>4, <2>5 DEF PermissionInv, PermitInv, Executing, Immediate
<1>3. ASSUME NEW r \in Requests, CreatePending(r) PROVE PermissionInv'
  <2>1. /\ KeepsRequest(r) /\ req'[r].pc = "report" /\ req[r].pc = "create" /\ ran' = ran
    BY <1>3, ThenReportEffect DEF CreatePending, Outcomes
  <2>2. req[r].op = "propose"
    BY <2>1 DEF ClaimInv, RequestInv, TypeOK, Request
  <2>3. PICK a \in Actions : /\ row[a].status = "none"
                             /\ row' = [row EXCEPT ![a] = [status |-> "pending", owner |-> req[r].user,
                                                           tool |-> req[r].tool]]
    BY <1>3 DEF CreatePending
  <2>4. Orderly(r)
    BY <2>1, <2>3 DEF Orderly, TypeOK
  <2> QED
    BY <2>1, <2>2, <2>4, PermitKept DEF Executing, AfterRun
<1>4. ASSUME NEW r \in Requests, CheckSkill(r) PROVE PermissionInv'
  <2>1. Orderly(r) /\ ran' = ran
    BY <1>4, OrderlyQuiet DEF CheckSkill
  <2>2. req'[r].pc \in {"done", "create"} \/ (req'[r].pc = "start" /\ Immediate(req[r].tool))
    BY <1>4, GotoEffect, FinishEffect DEF CheckSkill, Pcs, Outcomes
  <2> QED
    BY <1>4, <2>1, <2>2, PermitKept DEF CheckSkill, Executing, AfterRun
<1>5. ASSUME NEW r \in Requests, StartCall(r) \/ RunTool(r) \/ RecordCall(r) \/ RecordThrow(r) \/ AuditCall(r)
      PROVE  PermissionInv'
  <2>1. Orderly(r)
    BY <1>5, OrderlyQuiet
  <2>2. Executing(r) /\ req[r].pc \notin {"create", "skill"}
    BY <1>5 DEF StartCall, RunTool, RecordCall, RecordThrow, AuditCall, Executing, AfterRun
  <2>3. req'[r].pc \notin {"create", "skill"}
    BY <1>5, GotoEffect, FinishEffect, EndCallEffect
       DEF StartCall, RunTool, RecordCall, RecordThrow, AuditCall, Return, Pcs, Outcomes, Results
  <2> QED
    BY <2>1, <2>2, <2>3, PermitKept
<1>6. ASSUME NEW r \in Requests, LookupTool(r) \/ GateSkill(r) PROVE PermissionInv'
  <2>1. Orderly(r)
    BY <1>6, OrderlyQuiet
  <2>2. req[r].op # "propose" /\ req[r].pc # "create"
    BY <1>6 DEF LookupTool, GateSkill, ClaimInv, RequestInv
  <2> QED
    BY <2>1, <2>2, PermitKept
<1>7. ASSUME NEW r \in Requests, Report(r) \/ DbError(r) PROVE PermissionInv'
  <2>1. Orderly(r) /\ ran' = ran
    BY <1>7, OrderlyQuiet DEF Report, DbError
  <2>2. req[r].pc = "create" => req[r].op = "propose"
    BY DEF ClaimInv, RequestInv, TypeOK, Request
  <2>3. req'[r].pc = "done" \/ (req'[r].pc = "recordThrow" /\ req[r].pc \in AfterRun)
    BY <1>7, GotoEffect, FinishEffect, EndCallEffect DEF Report, DbError, Pcs, Outcomes, Results, AfterRun
  <2> QED
    BY <2>1, <2>2, <2>3, PermitKept DEF Executing, AfterRun
<1>8. ASSUME NEW r \in Requests,
             \/ ExpireAction(r) \/ ClaimApproval(r) \/ ClaimRejection(r) \/ ClaimCancellation(r)
             \/ BlockAction(r) \/ SettleAction(r)
      PROVE  PermissionInv'
  <2>1. Orderly(r)
    BY <1>8, OrderlyWrite DEF PermissionInv
  <2>2. req[r].op # "propose" /\ req[r].pc # "create"
    BY <1>8 DEF ExpireAction, ClaimApproval, ClaimRejection, ClaimCancellation, BlockAction, SettleAction,
                ClaimInv, RequestInv
  <2> QED
    BY <2>1, <2>2, PermitKept
<1>9. CASE SetEnabled \/ PassDeadline \/ UNCHANGED vars
    BY <1>9 DEF SetEnabled, PassDeadline, vars, PermissionInv, PermitInv, Executing, Immediate
<1>10. CASE Restart
  <2>1. /\ row' = row /\ ran' = ran
        /\ \A q \in Requests : KeepsFields(q)
        /\ \A q \in Requests : req'[q] = req[q] \/ req'[q].pc = "done"
    BY <1>10, RestartEffect DEF Restart
  <2> QED
    BY <2>1 DEF KeepsFields, PermissionInv, PermitInv, Executing, AfterRun, Immediate
<1> QED
    BY <1>1, <1>2, <1>3, <1>4, <1>5, <1>6, <1>7, <1>8, <1>9, <1>10 DEF Next, Step

(* Every run of a tool was either allowed at once or approved by the user  *)
(* for whom the action was created; a blocked tool never runs.             *)
THEOREM RunsAreConfirmed == Spec => []ConfirmationRequired
<1>1. Init => PermissionInv
    BY PendingConstants DEF Init, PermissionInv, PermitInv, Executing, AfterRun
<1>2. TypeOK /\ ClaimInv /\ PermissionInv => ConfirmationRequired
  <2> SUFFICES ASSUME TypeOK, ClaimInv, PermissionInv, NEW r \in ran
               PROVE  /\ Level[req[r].tool] # "N4"
                      /\ \/ req[r].op = "propose" /\ Level[req[r].tool] = "N1" /\ req[r].tool \notin Confirmed
                         \/ /\ req[r].op = "approve"
                            /\ req[r].user = row[req[r].act].owner
                            /\ req[r].tool = row[req[r].act].tool
    BY DEF ConfirmationRequired
  <2>1. r \in Requests /\ PermitInv(r) /\ RequestInv(r) /\ req[r].op \in {"propose", "approve"}
    BY DEF TypeOK, Request, Ops, ClaimInv, RequestInv, PermissionInv
  <2>2. CASE req[r].op = "propose"
    BY <2>1, <2>2 DEF PermitInv, Executing, Immediate
  <2>3. CASE req[r].op = "approve"
    BY <2>1, <2>3 DEF PermitInv, RequestInv, PermissionInv
  <2> QED
    BY <2>1, <2>2, <2>3
<1> QED
    BY <1>1, <1>2, PermissionStep, ClaimExclusive, PTL DEF Spec
-------------------------------------------------------------------------------
(* A step that settles no action keeps the ledgers in agreement when it    *)
(* leaves the call of every settled action alone.                          *)
LEMMA LedgerKept ==
    ASSUME TypeOK, LedgerInv, NEW r \in Requests, KeepsRequest(r), CallInv(r)',
           ran \subseteq ran', ran' \subseteq ran \union {r},
           \A a \in Actions : row'[a].status \in {"executed", "failed"} => row'[a].status = row[a].status,
           \A q \in Requests \ {r} : call'[q] = call[q],
           \/ call'[r] = call[r]
           \/ req[r].act \in Actions => row'[req[r].act].status \notin {"executed", "failed"}
    PROVE  LedgerInv'
<1>1. \A q \in Requests : req'[q].act = req[q].act
    BY DEF KeepsRequest, KeepsFields
<1>2. ASSUME NEW q \in Requests PROVE CallInv(q)'
  <2>1. CASE q = r
    BY <2>1
  <2>2. CASE q # r
    BY <2>2 DEF LedgerInv, CallInv, KeepsRequest
  <2> QED
    BY <2>1, <2>2
<1>3. ASSUME NEW a \in Actions, row'[a].status = "executed"
      PROVE  \E q \in RunsOf(a)' : call'[q] = "success"
  <2>1. PICK q \in RunsOf(a) : call[q] = "success"
    BY <1>3 DEF LedgerInv, LedgersAgree
  <2>2. q \in RunsOf(a)' /\ q \in Requests /\ req[q].act = a
    BY <1>1 DEF RunsOf, TypeOK
  <2>3. call'[q] = call[q]
    BY <1>3, <2>2
  <2> QED
    BY <2>1, <2>2, <2>3
<1>4. ASSUME NEW a \in Actions, row'[a].status = "failed", NEW q \in Requests, req'[q].act = a
      PROVE  call'[q] # "success"
    BY <1>1, <1>4 DEF LedgerInv, LedgersAgree
<1> QED
    BY <1>2, <1>3, <1>4 DEF LedgerInv, LedgersAgree

(* A request that arrives has no successful call yet. *)
LEMMA LedgerArrival ==
    ASSUME TypeOK, ClaimInv, LedgerInv, NEW r \in Requests, req[r].pc = "idle",
           \A q \in Requests \ {r} : req'[q] = req[q] /\ call'[q] = call[q],
           req'[r].pc \in {"skill", "done", "expire", "claim"},
           call'[r] = call[r] \/ call'[r] # "success",
           row' = row, ran' = ran
    PROVE  LedgerInv'
<1>1. r \notin ran /\ call'[r] # "success"
    BY DEF ClaimInv, RequestInv, LedgerInv, CallInv
<1>2. ASSUME NEW q \in Requests PROVE CallInv(q)'
    BY <1>1 DEF LedgerInv, CallInv
<1>3. ASSUME NEW a \in Actions, row'[a].status = "executed"
      PROVE  \E q \in RunsOf(a)' : call'[q] = "success"
    BY <1>1, <1>3 DEF LedgerInv, LedgersAgree, RunsOf, TypeOK
<1>4. ASSUME NEW a \in Actions, row'[a].status = "failed", NEW q \in Requests, req'[q].act = a
      PROVE  call'[q] # "success"
    BY <1>1, <1>4 DEF LedgerInv, LedgersAgree
<1> QED
    BY <1>2, <1>3, <1>4 DEF LedgerInv, LedgersAgree

(* The write that settles an action: its holder is the only request whose  *)
(* call can have succeeded.                                                *)
LEMMA LedgerSettles ==
    ASSUME TypeOK, ClaimInv, LedgerInv, NEW r \in Requests, Holds(r), KeepsRequest(r),
           req'[r].pc = "done", ran' = ran, call' = call, NEW s \in {"executed", "failed"},
           \A b \in Actions : row'[b].status = IF b = req[r].act THEN s ELSE row[b].status,
           s = "executed" => r \in ran /\ call[r] = "success",
           s = "failed" => call[r] # "success"
    PROVE  LedgerInv'
<1>1. \A q \in Requests : req'[q].act = req[q].act
    BY DEF KeepsRequest, KeepsFields
<1>2. req[r].act \in Actions
    BY DEF ClaimInv, RequestInv, Holds, BeforeRun, AfterRun
<1>3. ASSUME NEW q \in Requests PROVE CallInv(q)'
    BY DEF LedgerInv, CallInv, KeepsRequest
<1>4. ASSUME NEW a \in Actions, row'[a].status = "executed"
      PROVE  \E q \in RunsOf(a)' : call'[q] = "success"
  <2>1. CASE a = req[r].act
    BY <1>1, <1>4, <2>1 DEF RunsOf
  <2>2. CASE a # req[r].act
    BY <1>1, <1>4, <2>2 DEF LedgerInv, LedgersAgree, RunsOf, TypeOK
  <2> QED
    BY <2>1, <2>2
<1>5. ASSUME NEW a \in Actions, row'[a].status = "failed", NEW q \in Requests, req'[q].act = a
      PROVE  call'[q] # "success"
  <2>1. CASE a # req[r].act
    BY <1>1, <1>5, <2>1 DEF LedgerInv, LedgersAgree
  <2>2. CASE a = req[r].act /\ q \in ran /\ r \in ran
    BY <1>1, <1>2, <1>5, <2>2 DEF ClaimInv
  <2>3. CASE a = req[r].act /\ q \in ran /\ r \notin ran
    BY <1>1, <1>5, <2>3 DEF ClaimInv, RequestInv, Holds
  <2>4. CASE q \notin ran
    BY <2>4 DEF LedgerInv, CallInv
  <2> QED
    BY <2>1, <2>2, <2>3, <2>4
<1> QED
    BY <1>3, <1>4, <1>5 DEF LedgerInv, LedgersAgree

(* Every step keeps the two ledgers in agreement. *)
LEMMA LedgerStep == TypeOK /\ ClaimInv /\ LedgerInv /\ [Next]_vars => LedgerInv'
<1> SUFFICES ASSUME TypeOK, ClaimInv, LedgerInv, [Next]_vars
             PROVE  LedgerInv'
    OBVIOUS
<1>1. ASSUME NEW r \in Requests, RequestExecution(r) PROVE LedgerInv'
  <2>1. PICK u \in Users, t \in Tools, p \in {"skill", "done"}, oc \in {"none", "rejected_call"} :
            Arrive(r, "propose", u, NoAction, t, p, oc)
    BY <1>1 DEF RequestExecution
  <2>2. "propose" \in Ops /\ p \in Pcs /\ oc \in Outcomes
    BY <2>1 DEF Ops, Pcs, Outcomes
  <2>3. req[r].pc = "idle" /\ req'[r].pc = p /\ \A q \in Requests \ {r} : req'[q] = req[q]
    BY <2>1, <2>2, ArriveEffect
  <2>4. /\ row' = row /\ ran' = ran
        /\ call' = call \/ \E s \in {"none", "failed", "rejected"} : call' = [call EXCEPT ![r] = s]
    BY <1>1 DEF RequestExecution
  <2>5. /\ \A q \in Requests \ {r} : call'[q] = call[q]
        /\ call'[r] = call[r] \/ call'[r] # "success"
    BY <2>4 DEF TypeOK
  <2> QED
    BY <2>1, <2>3, <2>4, <2>5, LedgerArrival
<1>2. ASSUME NEW r \in Requests, Decide(r) PROVE LedgerInv'
  <2>1. PICK o \in {"approve", "reject", "cancel"}, u \in Users, a \in Actions \union {NoAction},
            t \in Tools \union {NoTool}, p \in {"expire", "claim", "done"},
            oc \in {"none", "refused"} : Arrive(r, o, u, a, t, p, oc)
    BY <1>2 DEF Decide, TypeOK
  <2>2. o \in Ops /\ p \in Pcs /\ oc \in Outcomes
    BY <2>1 DEF Ops, Pcs, Outcomes
  <2>3. req[r].pc = "idle" /\ req'[r].pc = p /\ \A q \in Requests \ {r} : req'[q] = req[q]
    BY <2>1, <2>2, ArriveEffect
  <2>4. row' = row /\ ran' = ran /\ call' = call
    BY <1>2 DEF Decide
  <2> QED
    BY <2>1, <2>3, <2>4, LedgerArrival
<1>3. ASSUME NEW r \in Requests, CheckSkill(r) \/ LookupTool(r) \/ GateSkill(r) \/ Report(r) PROVE LedgerInv'
  <2>1. Orderly(r) /\ row' = row /\ ran' = ran
    BY <1>3, OrderlyQuiet DEF CheckSkill, LookupTool, GateSkill, Report
  <2>2. req'[r].pc \in {"done", "start", "create", "gate", "block"}
    BY <1>3, GotoEffect, FinishEffect DEF CheckSkill, LookupTool, GateSkill, Report, Pcs, Outcomes
  <2>3. \/ call' = call
        \/ req[r].pc = "skill" /\ call' = [call EXCEPT ![r] = "rejected"]
    BY <1>3 DEF CheckSkill, LookupTool, GateSkill, Report
  <2>4. call'[r] = "success" => call[r] = "success"
    BY <2>3 DEF TypeOK
  <2>5. CallInv(r)'
    BY <2>1, <2>2, <2>4 DEF CallInv, LedgerInv
  <2>6. req[r].pc = "skill" => req[r].act \notin Actions
    BY PendingConstants DEF ClaimInv, RequestInv
  <2>7. (\A q \in Requests \ {r} : call'[q] = call[q]) /\ (call'[r] = call[r] \/ req[r].act \notin Actions)
    BY <2>3, <2>6 DEF TypeOK
  <2> QED
    BY <2>1, <2>5, <2>7, LedgerKept DEF Orderly
<1>4. ASSUME NEW r \in Requests, StartCall(r) \/ RecordCall(r) \/ RecordThrow(r) PROVE LedgerInv'
  <2>1. Orderly(r) /\ row' = row /\ ran' = ran
    BY <1>4, OrderlyQuiet DEF StartCall, RecordCall, RecordThrow
  <2>2. /\ req[r].pc = "start" => req'[r].pc = "run" /\ call' = [call EXCEPT ![r] = "executing"]
        /\ req[r].pc = "record" =>
               /\ req'[r].pc = "audit"
               /\ call' = [call EXCEPT ![r] = IF req[r].result = "ok" THEN "success" ELSE "failed"]
        /\ req[r].pc = "recordThrow" =>
               req'[r].pc = "auditThrow" /\ call' = [call EXCEPT ![r] = "failed"]
        /\ req[r].pc \in {"start", "record", "recordThrow"} /\ req'[r].result = req[r].result
    BY <1>4, GotoEffect DEF StartCall, RecordCall, RecordThrow, Pcs
  <2>3. CallInv(r)'
    BY <2>1, <2>2 DEF CallInv, LedgerInv, TypeOK, ClaimInv, RequestInv, AfterRun
  <2>4. req[r].act \in Actions => row[req[r].act].status = "approved"
    BY <2>2, PendingConstants DEF ClaimInv, RequestInv, RowInv, Holds, BeforeRun, AfterRun, TypeOK, Request, Ops
  <2>5. \A q \in Requests \ {r} : call'[q] = call[q]
    BY <2>2 DEF TypeOK
  <2> QED
    BY <2>1, <2>3, <2>4, <2>5, LedgerKept DEF Orderly
<1>5. ASSUME NEW r \in Requests, RunTool(r) PROVE LedgerInv'
  <2>1. Orderly(r) /\ row' = row /\ call' = call /\ ran \subseteq ran'
    BY <1>5, OrderlyQuiet DEF RunTool
  <2>2. \/ req'[r].pc = "record"
        \/ req'[r].pc = "recordThrow" /\ req'[r].result = "failed"
    BY <1>5, EndCallEffect DEF RunTool, Pcs, Results
  <2>3. CallInv(r)'
    BY <2>1, <2>2 DEF CallInv, LedgerInv
  <2> QED
    BY <2>1, <2>3, LedgerKept DEF Orderly
<1>6. ASSUME NEW r \in Requests, AuditCall(r) PROVE LedgerInv'
  <2>1. Orderly(r) /\ row' = row /\ call' = call /\ ran' = ran
    BY <1>6, OrderlyQuiet DEF AuditCall
  <2>2. /\ req'[r].pc \in {"settle", "done"} /\ req'[r].result = req[r].result
        /\ req[r].pc \in {"audit", "auditThrow"}
    BY <1>6, GotoEffect, FinishEffect DEF AuditCall, Return, Pcs, Outcomes
  <2>3. CallInv(r)'
    BY <2>1, <2>2 DEF CallInv, LedgerInv
  <2> QED
    BY <2>1, <2>3, LedgerKept DEF Orderly
<1>7. ASSUME NEW r \in Requests, DbError(r) PROVE LedgerInv'
  <2>1. Orderly(r) /\ row' = row /\ call' = call /\ ran' = ran
    BY <1>7, OrderlyQuiet DEF DbError
  <2>2. \/ req'[r].pc = "done"
        \/ req'[r].pc = "recordThrow" /\ req'[r].result = "failed"
    BY <1>7, EndCallEffect, FinishEffect DEF DbError, Pcs, Results, Outcomes
  <2>3. CallInv(r)'
    BY <2>1, <2>2 DEF CallInv, LedgerInv
  <2> QED
    BY <2>1, <2>3, LedgerKept DEF Orderly
<1>8. ASSUME NEW r \in Requests, CreatePending(r) PROVE LedgerInv'
  <2>1. KeepsRequest(r) /\ req'[r].pc = "report" /\ ran' = ran /\ call' = call
    BY <1>8, ThenReportEffect DEF CreatePending, Outcomes
  <2>2. \A a \in Actions : row'[a].status \in {"executed", "failed"} => row'[a].status = row[a].status
    BY <1>8 DEF CreatePending, TypeOK
  <2>3. CallInv(r)'
    BY <2>1 DEF CallInv, LedgerInv
  <2> QED
    BY <2>1, <2>2, <2>3, LedgerKept
<1>9. ASSUME NEW r \in Requests, ExpireAction(r) \/ ClaimApproval(r) \/ ClaimRejection(r) \/ ClaimCancellation(r)
      PROVE  LedgerInv'
  <2>1. ran' = ran /\ call' = call
    BY <1>9 DEF ExpireAction, ClaimApproval, ClaimRejection, ClaimCancellation
  <2>2. KeepsRequest(r) /\ req'[r].pc \in {"lookup", "report"}
    <3>1. CASE ExpireAction(r) \/ ClaimRejection(r) \/ ClaimCancellation(r)
        BY <3>1, ThenReportEffect DEF ExpireAction, ClaimRejection, ClaimCancellation, Outcomes
    <3>2. CASE ClaimApproval(r)
        BY <3>2, GotoEffect, ThenReportEffect DEF ClaimApproval, Outcomes, Pcs
    <3> QED
        BY <1>9, <3>1, <3>2
  <2>3. \/ row' = row
        \/ \E s \in {"approved", "rejected", "cancelled", "expired"} : SetStatus(req[r].act, s)
    BY <1>9 DEF ExpireAction, ClaimApproval, ClaimRejection, ClaimCancellation, ClaimPending
  <2>4. \A a \in Actions : row'[a].status \in {"executed", "failed"} => row'[a].status = row[a].status
    BY <2>3, SetStatusEffect DEF TypeOK, Request, PendingStatus
  <2>5. CallInv(r)'
    BY <2>1, <2>2 DEF CallInv, LedgerInv
  <2> QED
    BY <2>1, <2>2, <2>4, <2>5, LedgerKept
<1>10. ASSUME NEW r \in Requests, BlockAction(r) PROVE LedgerInv'
  <2>1. KeepsRequest(r) /\ req'[r].pc = "done" /\ ran' = ran /\ call' = call
    BY <1>10, FinishEffect DEF BlockAction, Outcomes
  <2>2. \A b \in Actions : row'[b].status = IF b = req[r].act THEN "failed" ELSE row[b].status
    BY <1>10, SetStatusEffect DEF BlockAction, PendingStatus, TypeOK, Request
  <2>3. Holds(r) /\ req[r].pc \in BeforeRun
    BY <1>10 DEF BlockAction, ClaimInv, RequestInv, Holds, BeforeRun, TypeOK, Request, Ops
  <2>4. call[r] # "success"
    BY <2>3 DEF LedgerInv, CallInv, ClaimInv
  <2> QED
    BY <2>1, <2>2, <2>3, <2>4, LedgerSettles
<1>11. ASSUME NEW r \in Requests, SettleAction(r) PROVE LedgerInv'
  <2>1. KeepsRequest(r) /\ req'[r].pc = "done" /\ ran' = ran /\ call' = call
    BY <1>11, FinishEffect DEF SettleAction, Outcomes
  <2>2. PICK s \in {"executed", "failed"} :
            SetStatus(req[r].act, s) /\ (s = "executed" <=> req[r].result = "ok")
    BY <1>11 DEF SettleAction
  <2>3. \A b \in Actions : row'[b].status = IF b = req[r].act THEN s ELSE row[b].status
    BY <2>2, SetStatusEffect DEF PendingStatus, TypeOK, Request
  <2>4. Holds(r)
    BY <1>11 DEF SettleAction, ClaimInv, RequestInv, Holds, AfterRun, TypeOK, Request, Ops
  <2>5. call[r] = "success" <=> s = "executed"
    BY <1>11, <2>2 DEF SettleAction, LedgerInv, CallInv
  <2>6. call[r] = "success" => r \in ran
    BY DEF LedgerInv, CallInv
  <2> QED
    BY <2>1, <2>3, <2>4, <2>5, <2>6, LedgerSettles
<1>12. CASE SetEnabled \/ PassDeadline \/ UNCHANGED vars
    BY <1>12 DEF SetEnabled, PassDeadline, vars, LedgerInv, LedgersAgree, CallInv, RunsOf
<1>13. CASE Restart
  <2>1. /\ row' = row /\ ran' = ran /\ call' = call
        /\ \A q \in Requests : req'[q].act = req[q].act
        /\ \A q \in Requests : req'[q] = req[q] \/ req'[q].pc = "done"
    BY <1>13, RestartEffect DEF Restart, KeepsFields
  <2>2. \A a \in Actions : RunsOf(a)' = RunsOf(a)
    BY <2>1 DEF RunsOf, TypeOK
  <2>3. \A q \in Requests : CallInv(q)'
    BY <2>1 DEF LedgerInv, CallInv
  <2> QED
    BY <2>1, <2>2, <2>3 DEF LedgerInv, LedgersAgree
<1> QED
    BY <1>1, <1>2, <1>3, <1>4, <1>5, <1>6, <1>7, <1>8, <1>9, <1>10, <1>11, <1>12, <1>13 DEF Next, Step

(* pending_actions never shows an execution that tool_calls does not, nor  *)
(* a failure of a call that succeeded, whatever fails or restarts.         *)
THEOREM LedgersStayInAgreement == Spec => []LedgersAgree
<1>1. Init => LedgerInv
    BY DEF Init, LedgerInv, LedgersAgree, CallInv
<1>2. LedgerInv => LedgersAgree
    BY DEF LedgerInv
<1> QED
    BY <1>1, <1>2, LedgerStep, ClaimExclusive, PTL DEF Spec
===============================================================================
