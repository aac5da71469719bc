---------------------------- MODULE PendingActions ----------------------------
(***************************************************************************)
(* The tool pipeline and the confirmation flow:                            *)
(*   src/tools/tool-executor.service.ts   requestExecution, executeNow     *)
(*   src/tools/permission.service.ts      check                            *)
(*   src/skills/user-skills.service.ts    isToolEnabled, setEnabled        *)
(*   src/pending-actions/pending-action.service.ts approve, reject, cancel *)
(* Every request is a process that runs from one await to the next; the    *)
(* rows of pending_actions and tool_calls are what the requests share.     *)
(* A request identifier is used once, so it also names the tool_calls row  *)
(* the request creates.                                                    *)
(***************************************************************************)
EXTENDS Naturals, FiniteSets

CONSTANTS Users, Actions, Tools, Skills, Scopes, Requests,
          NoAction,       \* the absent pendingActionId
          NoTool, NoUser, \* fields of a request that has not arrived
          NoSkill,        \* a tool that belongs to no skill
          Level,          \* Level[t]: the tool's securityLevel
          Confirmed,      \* the tools with requiresConfirmation
          AllowedScopes,  \* AllowedScopes[t]: the scopes that may call t
          SkillOf,        \* SkillOf[t]: the skill that groups t
          MaxFaults       \* bound on restarts and failed database writes

ASSUME PendingConstants ==
    /\ NoAction \notin Actions /\ NoTool \notin Tools /\ NoUser \notin Users
    /\ Level \in [Tools -> {"N1", "N2", "N3", "N4"}]
    /\ Confirmed \subseteq Tools
    /\ AllowedScopes \in [Tools -> SUBSET Scopes]
    /\ NoSkill \notin Skills /\ SkillOf \in [Tools -> Skills \union {NoSkill}]
    /\ MaxFaults \in Nat

VARIABLES row,       \* row[a]: the pending_actions row
          overdue,   \* the actions whose expiresAt has passed
          registry,  \* the tools registered by the running process
          disabled,  \* <<user, skill>> pairs switched off in user_skills
          req,       \* req[r]: the request in flight
          call,      \* call[r]: status of the tool_calls row created by r
          ran,       \* the requests that have invoked tool.execute()
          faults     \* restarts and failed writes so far

vars == <<row, overdue, registry, disabled, req, call, ran, faults>>

PendingStatus == {"none", "pending", "approved", "rejected", "executed",
                  "expired", "cancelled", "failed"}
Ops == {"propose", "approve", "reject", "cancel"}
Pcs == {"idle", "skill", "create", "expire", "claim", "lookup", "gate", "block",
        "start", "run", "record", "audit", "recordThrow", "auditThrow",
        "settle", "report", "done"}
Results == {"unknown", "ok", "failed"}
Outcomes == {"none", "rejected_call", "pending_confirmation", "executed", "refused",
             "expired", "already_processed", "rejected", "cancelled", "error"}
CallStatus == {"none", "executing", "success", "failed", "rejected"}

Request == [pc : Pcs, op : Ops, user : Users \union {NoUser},
            act : Actions \union {NoAction}, tool : Tools \union {NoTool},
            result : Results, outcome : Outcomes]

TypeOK ==
    /\ row \in [Actions -> [status : PendingStatus, owner : Users \union {NoUser},
                            tool : Tools \union {NoTool}]]
    /\ overdue \subseteq Actions
    /\ registry \subseteq Tools
    /\ disabled \subseteq Users \X Skills
    /\ req \in [Requests -> Request]
    /\ call \in [Requests -> CallStatus]
    /\ ran \subseteq Requests
    /\ faults \in 0..MaxFaults

Init ==
    /\ row = [a \in Actions |-> [status |-> "none", owner |-> NoUser, tool |-> NoTool]]
    /\ overdue = {}
    /\ registry = Tools
    /\ disabled = {}
    /\ req = [r \in Requests |-> [pc |-> "idle", op |-> "propose", user |-> NoUser,
                 act |-> NoAction, tool |-> NoTool, result |-> "unknown", outcome |-> "none"]]
    /\ call = [r \in Requests |-> "none"]
    /\ ran = {}
    /\ faults = 0

-------------------------------------------------------------------------------
(* Moving a request on. *)

Goto(r, p) == req' = [req EXCEPT ![r].pc = p]

Finish(r, o) == req' = [req EXCEPT ![r].pc = "done", ![r].outcome = o]

(* tool.execute(), or a write behind it, ended with result res. *)
EndCall(r, p, res) == req' = [req EXCEPT ![r].pc = p, ![r].result = res]

(* The outcome is known; an audit entry or a re-read precedes the return. *)
ThenReport(r, o) == req' = [req EXCEPT ![r].pc = "report", ![r].outcome = o]

SetStatus(a, s) == row' = [row EXCEPT ![a].status = s]

(* PermissionService.check *)
Allowed(t, scope) == scope \in AllowedScopes[t] /\ Level[t] # "N4"

(* The tools requestExecution runs at once. *)
Immediate(t) == Level[t] = "N1" /\ t \notin Confirmed

(* UserSkillsService.isToolEnabled: a missing row means enabled, and a     *)
(* tool that belongs to no skill is never gated.                           *)
IsToolEnabled(u, t) == <<u, SkillOf[t]>> \notin disabled

-------------------------------------------------------------------------------
(* ToolExecutorService.requestExecution *)

Arrive(r, o, u, a, t, p, oc) ==
    /\ req[r].pc = "idle"
    /\ req' = [req EXCEPT ![r] = [pc |-> p, op |-> o, user |-> u, act |-> a, tool |-> t,
                                  result |-> "unknown", outcome |-> oc]]

(* Unknown tools are audited only; invalid input and refused permissions   *)
(* leave a tool_calls row.                                                 *)
RequestExecution(r) ==
    \E u \in Users, t \in Tools, scope \in Scopes, valid \in BOOLEAN :
        /\ IF t \in registry /\ valid /\ Allowed(t, scope)
           THEN Arrive(r, "propose", u, NoAction, t, "skill", "none") /\ UNCHANGED call
           ELSE /\ Arrive(r, "propose", u, NoAction, t, "done", "rejected_call")
                /\ call' = [call EXCEPT ![r] = IF t \notin registry THEN "none"
                                               ELSE IF ~valid THEN "failed" ELSE "rejected"]
        /\ UNCHANGED <<row, overdue, registry, disabled, ran, faults>>

CheckSkill(r) ==
    /\ req[r].pc = "skill"
    /\ \/ /\ ~IsToolEnabled(req[r].user, req[r].tool)
          /\ Finish(r, "rejected_call")
          /\ call' = [call EXCEPT ![r] = "rejected"]
       \/ /\ IsToolEnabled(req[r].user, req[r].tool)
          /\ Goto(r, IF Immediate(req[r].tool) THEN "start" ELSE "create")
          /\ UNCHANGED call
    /\ UNCHANGED <<row, overdue, registry, disabled, ran, faults>>

CreatePending(r) ==
    /\ req[r].pc = "create"
    /\ \E a \in Actions :
        /\ row[a].status = "none"
        /\ row' = [row EXCEPT ![a] = [status |-> "pending", owner |-> req[r].user,
                                      tool |-> req[r].tool]]
    /\ ThenReport(r, "pending_confirmation")
    /\ UNCHANGED <<overdue, registry, disabled, call, ran, faults>>

-------------------------------------------------------------------------------
(* ToolExecutorService.executeNow *)

StartCall(r) ==
    /\ req[r].pc = "start"
    /\ call' = [call EXCEPT ![r] = "executing"]
    /\ Goto(r, "run")
    /\ UNCHANGED <<row, overdue, registry, disabled, ran, faults>>

(* tool.execute() reports success, reports failure, or throws. *)
RunTool(r) ==
    /\ req[r].pc = "run"
    /\ ran' = ran \union {r}
    /\ \/ EndCall(r, "record", "ok")
       \/ EndCall(r, "record", "failed")
       \/ EndCall(r, "recordThrow", "failed")
    /\ UNCHANGED <<row, overdue, registry, disabled, call, faults>>

RecordCall(r) ==
    /\ req[r].pc = "record"
    /\ call' = [call EXCEPT ![r] = IF req[r].result = "ok" THEN "success" ELSE "failed"]
    /\ Goto(r, "audit")
    /\ UNCHANGED <<row, overdue, registry, disabled, ran, faults>>

(* The catch branch, reached when the tool or one of the two writes in the *)
(* try block threw: whatever the tool did, the call is recorded as failed. *)
RecordThrow(r) ==
    /\ req[r].pc = "recordThrow"
    /\ call' = [call EXCEPT ![r] = "failed"]
    /\ Goto(r, "auditThrow")
    /\ UNCHANGED <<row, overdue, registry, disabled, ran, faults>>

(* executeNow returns: to requestExecution, or to approve. *)
Return(r) == IF req[r].op = "approve" THEN Goto(r, "settle") ELSE Finish(r, "executed")

AuditCall(r) ==
    /\ req[r].pc \in {"audit", "auditThrow"}
    /\ Return(r)
    /\ UNCHANGED <<row, overdue, registry, disabled, call, ran, faults>>

-------------------------------------------------------------------------------
(* PendingActionService *)

(* Mutant: the ownership check of getById is missing. *)
MayDecideAnyUser(u, a) == row[a].status # "none"

(* getById refuses a missing row and a row of another user. *)
MayDecide(u, a) == row[a].status # "none" /\ row[a].owner = u

(* approve: the row is read once; its status, expiry and tool are used     *)
(* after later awaits. reject and cancel only read it to check ownership.  *)
Decide(r) ==
    \E o \in {"approve", "reject", "cancel"}, u \in Users, a \in Actions :
        /\ \/ /\ ~MayDecide(u, a)
              /\ Arrive(r, o, u, NoAction, NoTool, "done", "refused")
           \/ /\ MayDecide(u, a)
              /\ Arrive(r, o, u, a, row[a].tool,
                        IF o = "approve" /\ row[a].status = "pending" /\ a \in overdue
                        THEN "expire" ELSE "claim", "none")
        /\ UNCHANGED <<row, overdue, registry, disabled, call, ran, faults>>

(* updateMany WHERE status = 'pending' SET status = s *)
ClaimPending(a, s) == IF row[a].status = "pending" THEN SetStatus(a, s) ELSE UNCHANGED row

ExpireAction(r) ==
    /\ req[r].pc = "expire"
    /\ ClaimPending(req[r].act, "expired")
    /\ ThenReport(r, "expired")
    /\ UNCHANGED <<overdue, registry, disabled, call, ran, faults>>

(* Mutant: the claim is read first and written without its WHERE clause. *)
ClaimApprovalUnguarded(r) ==
    /\ req[r].pc = "claim" /\ req[r].op = "approve"
    /\ SetStatus(req[r].act, "approved")
    /\ Goto(r, "lookup")
    /\ UNCHANGED <<overdue, registry, disabled, call, ran, faults>>

ClaimApproval(r) ==
    /\ req[r].pc = "claim" /\ req[r].op = "approve"
    /\ ClaimPending(req[r].act, "approved")
    /\ IF row[req[r].act].status = "pending" THEN Goto(r, "lookup")
                                             ELSE ThenReport(r, "already_processed")
    /\ UNCHANGED <<overdue, registry, disabled, call, ran, faults>>

(* Mutant: reject overwrites whatever was decided before. *)
ClaimRejectionUnguarded(r) ==
    /\ req[r].pc = "claim" /\ req[r].op = "reject"
    /\ SetStatus(req[r].act, "rejected")
    /\ ThenReport(r, "rejected")
    /\ UNCHANGED <<overdue, registry, disabled, call, ran, faults>>

ClaimRejection(r) ==
    /\ req[r].pc = "claim" /\ req[r].op = "reject"
    /\ ClaimPending(req[r].act, "rejected")
    /\ ThenReport(r, IF row[req[r].act].status = "pending" THEN "rejected" ELSE "already_processed")
    /\ UNCHANGED <<overdue, registry, disabled, call, ran, faults>>

(* Mutant: cancel also withdraws an action that is already approved. *)
ClaimCancellationLate(r) ==
    /\ req[r].pc = "claim" /\ req[r].op = "cancel"
    /\ IF row[req[r].act].status \in {"pending", "approved"}
       THEN SetStatus(req[r].act, "cancelled") /\ ThenReport(r, "cancelled")
       ELSE UNCHANGED row /\ ThenReport(r, "already_processed")
    /\ UNCHANGED <<overdue, registry, disabled, call, ran, faults>>

ClaimCancellation(r) ==
    /\ req[r].pc = "claim" /\ req[r].op = "cancel"
    /\ ClaimPending(req[r].act, "cancelled")
    /\ ThenReport(r, IF row[req[r].act].status = "pending" THEN "cancelled" ELSE "already_processed")
    /\ UNCHANGED <<overdue, registry, disabled, call, ran, faults>>

LookupTool(r) ==
    /\ req[r].pc = "lookup"
    /\ Goto(r, IF req[r].tool \in registry THEN "gate" ELSE "block")
    /\ UNCHANGED <<row, overdue, registry, disabled, call, ran, faults>>

(* Mutant: a disabled skill returns early and leaves the row approved. *)
GateSkillDropsAction(r) ==
    /\ req[r].pc = "gate"
    /\ IF IsToolEnabled(req[r].user, req[r].tool) THEN Goto(r, "start") ELSE Finish(r, "executed")
    /\ UNCHANGED <<row, overdue, registry, disabled, call, ran, faults>>

GateSkill(r) ==
    /\ req[r].pc = "gate"
    /\ Goto(r, IF IsToolEnabled(req[r].user, req[r].tool) THEN "start" ELSE "block")
    /\ UNCHANGED <<row, overdue, registry, disabled, call, ran, faults>>

(* The two early returns that fail an approved action without running it. *)
BlockAction(r) ==
    /\ req[r].pc = "block"
    /\ SetStatus(req[r].act, "failed")
    /\ Finish(r, "executed")
    /\ UNCHANGED <<overdue, registry, disabled, call, ran, faults>>

(* Mutant: result.ok is not looked at. *)
SettleAlwaysExecuted(r) ==
    /\ req[r].pc = "settle"
    /\ SetStatus(req[r].act, "executed")
    /\ Finish(r, "executed")
    /\ UNCHANGED <<overdue, registry, disabled, call, ran, faults>>

(* The last write of approve has no WHERE on the status. *)
SettleAction(r) ==
    /\ req[r].pc = "settle"
    /\ SetStatus(req[r].act, IF req[r].result = "ok" THEN "executed" ELSE "failed")
    /\ Finish(r, "executed")
    /\ UNCHANGED <<overdue, registry, disabled, call, ran, faults>>

(* audit.log and findUniqueOrThrow behind an outcome that is settled. *)
Report(r) ==
    /\ req[r].pc = "report"
    /\ Goto(r, "done")
    /\ UNCHANGED <<row, overdue, registry, disabled, call, ran, faults>>

-------------------------------------------------------------------------------
(* The environment *)

(* UserSkillsService.setEnabled *)
SetEnabled ==
    /\ \E u \in Users, s \in Skills :
        \/ disabled' = disabled \union {<<u, s>>}
        \/ disabled' = disabled \ {<<u, s>>}
    /\ UNCHANGED <<row, overdue, registry, req, call, ran, faults>>

(* Thirty minutes pass: expiresAt of an existing row is behind the clock. *)
PassDeadline ==
    /\ \E a \in Actions \ overdue :
        /\ row[a].status # "none"
        /\ overdue' = overdue \union {a}
    /\ UNCHANGED <<row, registry, disabled, req, call, ran, faults>>

Active(r) == req[r].pc \notin {"idle", "done"}

(* A database call of the request throws. Inside the try block of          *)
(* executeNow the catch branch runs; anywhere else the request ends.       *)
DbError(r) ==
    /\ faults < MaxFaults /\ faults' = faults + 1
    /\ Active(r) /\ req[r].pc # "run"
    /\ IF req[r].pc \in {"record", "audit"}
       THEN EndCall(r, "recordThrow", "failed")
       ELSE Finish(r, "error")
    /\ UNCHANGED <<row, overdue, registry, disabled, call, ran>>

Lost(r) == [req[r] EXCEPT !.pc = "done", !.outcome = "error"]

(* The process restarts, perhaps as another build with other tools: every  *)
(* request in flight is lost and nothing resumes it.                       *)
Restart ==
    /\ faults < MaxFaults /\ faults' = faults + 1
    /\ req' = [r \in Requests |-> IF Active(r) THEN Lost(r) ELSE req[r]]
    /\ registry' \in SUBSET Tools
    /\ UNCHANGED <<row, overdue, disabled, call, ran>>

Step(r) ==
    \/ CheckSkill(r) \/ CreatePending(r) \/ StartCall(r) \/ RunTool(r)
    \/ RecordCall(r) \/ AuditCall(r) \/ RecordThrow(r) \/ ExpireAction(r)
    \/ ClaimApproval(r) \/ ClaimRejection(r) \/ ClaimCancellation(r)
    \/ LookupTool(r) \/ GateSkill(r) \/ BlockAction(r) \/ SettleAction(r) \/ Report(r)

Next ==
    \/ \E r \in Requests : RequestExecution(r) \/ Decide(r) \/ Step(r) \/ DbError(r)
    \/ SetEnabled \/ PassDeadline \/ Restart

Spec == Init /\ [][Next]_vars

(* A request that has arrived keeps running: the event loop resumes every  *)
(* await, and tools and database calls return or throw.                    *)
FairSpec == Spec /\ \A r \in Requests : WF_vars(Step(r))

-------------------------------------------------------------------------------
(* Properties *)

(* The requests that invoked the tool on behalf of action a. *)
RunsOf(a) == {r \in ran : req[r].act = a}

(* However many approvals of one action race each other, retry after an    *)
(* error or are cut short by a restart, its tool is invoked at most once   *)
(* (the atomic claim in approve).                                          *)
AtMostOneExecution == \A a \in Actions : \A r1, r2 \in RunsOf(a) : r1 = r2

(* A tool that needs confirmation runs only in an approve request of the   *)
(* user for whom the action was created, and an N4 tool never runs.        *)
ConfirmationRequired ==
    \A r \in ran :
        /\ Level[req[r].tool] # "N4"
        /\ \/ req[r].op = "propose" /\ Level[req[r].tool] = "N1" /\ req[r].tool \notin Confirmed
           \/ /\ req[r].op = "approve"
              /\ req[r].user = row[req[r].act].owner
              /\ req[r].tool = row[req[r].act].tool

(* What a caller was told stays true of the row: a rejected or cancelled   *)
(* action keeps that status and its tool has not run and will not run, and *)
(* an action whose tool has run is shown as approved, executed or failed.  *)
DecisionRespected ==
    /\ \A r \in Requests : req[r].outcome \in {"rejected", "cancelled"} =>
            row[req[r].act].status = req[r].outcome /\ RunsOf(req[r].act) = {}
    /\ \A a \in Actions : RunsOf(a) # {} => row[a].status \in {"approved", "executed", "failed"}

(* pending_actions and tool_calls tell the same story: an action shown as  *)
(* executed has a successful call, one shown as failed has none, even when *)
(* a write between tool.execute() and the last update failed.              *)
LedgersAgree ==
    \A a \in Actions :
        /\ row[a].status = "executed" => \E r \in RunsOf(a) : call[r] = "success"
        /\ row[a].status = "failed" => \A r \in Requests : req[r].act = a => call[r] # "success"

(* The steps of approve between winning the claim and the last write. *)
BeforeRun == {"lookup", "gate", "block", "start", "run"}
AfterRun == {"record", "audit", "recordThrow", "auditThrow", "settle"}
Holds(r) == req[r].op = "approve" /\ req[r].pc \in BeforeRun \union AfterRun
Executing(r) == req[r].pc \in {"start", "run"} \union AfterRun \/ r \in ran

(* The control flow of one request: which steps each operation reaches.    *)
RequestInv(r) ==
    /\ req[r].pc = "idle" => req[r].act = NoAction /\ r \notin ran /\ req[r].outcome = "none"
    /\ req[r].op = "propose" =>
            /\ req[r].act = NoAction
            /\ req[r].pc \notin {"expire", "claim", "lookup", "gate", "block", "settle"}
    /\ req[r].op # "propose" /\ req[r].pc # "done" =>
            req[r].act \in Actions /\ req[r].pc \notin {"skill", "create"}
    /\ req[r].op \in {"reject", "cancel"} =>
            req[r].pc \in {"claim", "report", "done"} /\ r \notin ran
    /\ req[r].pc \in AfterRun => r \in ran
    /\ r \in ran /\ req[r].op = "approve" => req[r].act \in Actions
    /\ req[r].outcome \in {"rejected", "cancelled"} => req[r].act \in Actions

(* How the row of the action stands while and after a request works on it. *)
RowInv(r) ==
    /\ r \in ran /\ req[r].op = "approve" =>
            row[req[r].act].status \in {"approved", "executed", "failed"}
    /\ req[r].outcome \in {"rejected", "cancelled"} => row[req[r].act].status = req[r].outcome
    /\ Holds(r) => row[req[r].act].status = "approved"

(* Why the claim is enough: the row of an action stays approved while the  *)
(* one request that won its claim holds it, and no tool has run for it     *)
(* until that request runs it; so the unconditional last write of approve  *)
(* only ever overwrites the request's own claim.                           *)
ClaimInv ==
    /\ \A r \in Requests : RequestInv(r)
    /\ \A r \in Requests : RowInv(r)
    /\ \A q, r \in Requests : Holds(q) /\ Holds(r) /\ req[q].act = req[r].act => q = r
    /\ \A q, r \in Requests : Holds(r) /\ req[r].pc \in BeforeRun /\ q \in ran =>
            req[q].act # req[r].act
    /\ \A q, r \in ran : req[q].act = req[r].act /\ req[r].act \in Actions => q = r

(* What permits request r to run its tool: requestExecution checked the    *)
(* tool, or the action it decides is the user's own and names the tool.    *)
PermitInv(r) ==
    /\ req[r].op = "propose" /\ (req[r].pc \in {"skill", "create"} \/ Executing(r)) =>
            req[r].tool \in Tools /\ Level[req[r].tool] # "N4"
    /\ req[r].op = "propose" /\ Executing(r) => Immediate(req[r].tool)
    /\ req[r].act \in Actions =>
            /\ row[req[r].act].status # "none"
            /\ row[req[r].act].owner = req[r].user
            /\ row[req[r].act].tool = req[r].tool

(* Every pending action was proposed by a request that passed the checks,  *)
(* and neither its owner nor its tool changes afterwards.                  *)
PermissionInv ==
    /\ \A r \in Requests : PermitInv(r)
    /\ \A a \in Actions : row[a].status # "none" =>
            row[a].tool \in Tools /\ Level[row[a].tool] # "N4"

(* What the tool_calls row of request r says while the request works.      *)
CallInv(r) ==
    /\ call[r] = "success" => r \in ran
    /\ req[r].pc \in {"audit", "settle"} => (call[r] = "success" <=> req[r].result = "ok")
    /\ req[r].pc \in {"recordThrow", "auditThrow"} => req[r].result = "failed"
    /\ req[r].pc = "auditThrow" => call[r] # "success"

(* The ledgers agree because the call is recorded before the action is     *)
(* settled, by the one request that holds the action.                      *)
LedgerInv == LedgersAgree /\ \A r \in Requests : CallInv(r)

(* The abstract view: the statuses, and which actions invoked their tool.  *)
PL == INSTANCE PendingLifecycle WITH
        status <- [a \in Actions |-> row[a].status],
        executed <- {a \in Actions : RunsOf(a) # {}}

(* The flow implements PendingLifecycle: decided once, run at most once    *)
(* and after approval, and a final status never changes.                   *)
ImplementsLifecycle == PL!Spec

(* Every approved action is settled, as each early return of approve       *)
(* writes a final status, unless a write failed or the process restarted.  *)
ApprovedSettles ==
    \A a \in Actions :
        row[a].status = "approved" ~> row[a].status \in {"executed", "failed"} \/ faults > 0

-------------------------------------------------------------------------------
(* What the documents say and the code does not keep: no run checks these; *)
(* README.md tells how each of them fails.                                 *)

(* docs/frontend/API_CONTRACT.md: approving an expired action answers      *)
(* expired "and executes nothing". The expired answer is decided from the  *)
(* row read at the start of approve, whatever the conditional update did.  *)
ExpiredExecutesNothing ==
    \A r \in Requests : req[r].outcome = "expired" => RunsOf(req[r].act) = {}
===============================================================================
