--------------------------------- MODULE Tools ---------------------------------
(***************************************************************************)
(* The tools an agent may call, and what each may reach.                   *)
(*   src/tools/impl/*.tool.ts             one definition per tool          *)
(*   src/tools/impl/whatsapp-contact-resolver.ts                           *)
(*   src/tasks/task.service.ts            the rows behind the task tools   *)
(* One user; a lane is a scope and a space. A tool reads, compares the     *)
(* lane, then acts: rows may change between the two. How a confirmation is *)
(* asked for and claimed is PendingActions; here it is one step.           *)
(***************************************************************************)
EXTENDS Integers, Sequences, FiniteSets

CONSTANTS ToolCalls, AskedCalls,   \* the calls, and those not prepared by draft_action
          ToolLanes,
          AskedNames, GivenNames,   \* the names the user asks for, the names and companies contacts get
          InitialRecords,     \* <<[kind, lane, party, live, by]>>
          InitialContacts,    \* <<[lane, name, company, blocked, phone, mail]>>, names are sets of words
          ListLimit,          \* LIST_LIMIT of ContactService
          MaxMoves, MaxRecords

VARIABLES records, contacts, toolCall, moves

toolVars == <<records, contacts, toolCall, moves>>

ScopeOf(lane) == IF lane = "personal" THEN "personal" ELSE "professional"
Both == {"personal", "professional"}

-------------------------------------------------------------------------------
(* A tool: its security level, the scopes that may call it, what it does and *)
(* on which rows, or through which address.                                  *)
Tool(level, does, kind) == [level |-> level, scopes |-> Both, does |-> does, kind |-> kind]
Connector(space) == [level |-> "N1", scopes |-> {"professional"}, does |-> "connector", kind |-> space]

CalendarCancelEventTool == Tool("N2", "change", "event")
CalendarCreateEventTool == Tool("N2", "create", "event")
CalendarFindFreeSlotsTool == Tool("N1", "list", "event")
CalendarGetEventTool == Tool("N1", "get", "event")
CalendarListEventsTool == Tool("N1", "list", "event")
CalendarUpdateEventTool == Tool("N2", "change", "event")
CancelReminderTool == Tool("N2", "change", "reminder")
CompleteTaskTool == Tool("N2", "change", "task")
CreateContactTool == Tool("N2", "addContact", "contact")
CreateMemoryTool == Tool("N1", "create", "memory")
CreateReminderTool == Tool("N2", "create", "reminder")
CreateTaskTool == Tool("N2", "create", "task")
DraftActionTool == Tool("N1", "prepare", "pending")
EmailDraftReplyTool == Tool("N1", "draft", "thread")
EmailListThreadsTool == Tool("N1", "list", "thread")
EmailReadThreadTool == Tool("N1", "get", "thread")
EmailSearchTool == Tool("N1", "list", "thread")
EmailSendAttachmentTool == Tool("N2", "file", "thread")
EmailSendToContactTool == Tool("N2", "sendTo", "mail")
EmailSendTool == Tool("N2", "reply", "thread")
GetContactTool == Tool("N1", "getContact", "contact")
GetDocumentTool == Tool("N1", "get", "document")
GetProfileFactsTool == Tool("N1", "list", "fact")
GetTaskTool == Tool("N1", "get", "task")
ListContactsTool == Tool("N1", "contacts", "contact")
ListPendingActionsTool == Tool("N1", "list", "pending")
ListRemindersTool == Tool("N1", "list", "reminder")
ListTasksTool == Tool("N1", "list", "task")
LogistiGAGetEntityTool == Connector("logistiga")
LogistiGAGetSummaryTool == Connector("logistiga")
LogistiGASearchTool == Connector("logistiga")
PistonGetEntityTool == Connector("piston")
PistonGetSummaryTool == Connector("piston")
PistonSearchTool == Connector("piston")
QueryDocumentTableTool == Tool("N1", "get", "document")
SearchContactsTool == Tool("N1", "contacts", "contact")
SearchDocumentContentTool == Tool("N1", "list", "document")
SearchDocumentsTool == Tool("N1", "list", "document")
SearchMemoriesTool == Tool("N1", "list", "memory")
UpdateContactTool == Tool("N2", "changeContact", "contact")
UpdateTaskTool == Tool("N2", "change", "task")
WhatsAppCancelMissionTool == Tool("N1", "stopMission", "phone")
WhatsAppDraftReplyTool == Tool("N1", "draft", "talk")
WhatsAppGetContactTool == Tool("N1", "getContact", "phone")
WhatsAppListConversationsTool == Tool("N1", "list", "talk")
WhatsAppReadMessagesTool == Tool("N1", "get", "talk")
WhatsAppSearchMessagesTool == Tool("N1", "list", "talk")
WhatsAppSendDocumentTool == Tool("N1", "file", "talk")
WhatsAppSendMessageTool == Tool("N1", "reply", "talk")
WhatsAppSendToContactTool == Tool("N1", "sendTo", "phone")
WhatsAppStartMissionTool == Tool("N2", "mission", "phone")

ToolSet ==
    { CalendarCancelEventTool, CalendarCreateEventTool, CalendarFindFreeSlotsTool, CalendarGetEventTool,
      CalendarListEventsTool, CalendarUpdateEventTool, CancelReminderTool, CompleteTaskTool, CreateContactTool,
      CreateMemoryTool, CreateReminderTool, CreateTaskTool, DraftActionTool, EmailDraftReplyTool,
      EmailListThreadsTool, EmailReadThreadTool, EmailSearchTool, EmailSendAttachmentTool, EmailSendToContactTool,
      EmailSendTool, GetContactTool, GetDocumentTool, GetProfileFactsTool, GetTaskTool, ListContactsTool,
      ListPendingActionsTool, ListRemindersTool, ListTasksTool, LogistiGAGetEntityTool, LogistiGAGetSummaryTool,
      LogistiGASearchTool, PistonGetEntityTool, PistonGetSummaryTool, PistonSearchTool, QueryDocumentTableTool,
      SearchContactsTool, SearchDocumentContentTool, SearchDocumentsTool, SearchMemoriesTool, UpdateContactTool,
      UpdateTaskTool, WhatsAppCancelMissionTool, WhatsAppDraftReplyTool, WhatsAppGetContactTool,
      WhatsAppListConversationsTool, WhatsAppReadMessagesTool, WhatsAppSearchMessagesTool, WhatsAppSendDocumentTool,
      WhatsAppSendMessageTool, WhatsAppSendToContactTool, WhatsAppStartMissionTool }

ByRow == {"get", "change", "draft", "reply", "file"}      \* tools given the id of a row
ByContact == {"getContact", "changeContact"}              \* the id or number of a contact
ByName == {"sendTo", "mission", "stopMission"}            \* a name the user said

(* The rows. Every contact is stored in the personal lane; a removed one is  *)
(* left without a lane, a name, a company and addresses.                     *)
ContactNames == {{}} \union GivenNames \union {InitialContacts[p].name : p \in DOMAIN InitialContacts}
                    \union {InitialContacts[p].company : p \in DOMAIN InitialContacts}
ContactRow == [lane : {"personal", "none"}, name : ContactNames, company : ContactNames, blocked : BOOLEAN,
               phone : BOOLEAN, mail : BOOLEAN]
NewContact(name, company, blocked) ==
    [lane |-> "personal", name |-> name, company |-> company, blocked |-> blocked, phone |-> FALSE, mail |-> FALSE]
Removed == [NewContact({}, {}, FALSE) EXCEPT !.lane = "none"]
RowKinds == {t.kind : t \in ToolSet}
RecordRow(n) == [kind : RowKinds, lane : ToolLanes, party : 0..n, live : BOOLEAN, by : ToolLanes \union {"none"}]

ASSUME ToolConstants ==
    /\ "personal" \in ToolLanes /\ {ListLimit, MaxMoves, MaxRecords} \subseteq Nat /\ {} \notin AskedNames
    /\ InitialContacts \in Seq(ContactRow)
    /\ InitialRecords \in Seq(RecordRow(Len(InitialContacts))) /\ Len(InitialRecords) <= MaxRecords
    /\ \A i \in DOMAIN InitialRecords : InitialRecords[i].by = "none"

-------------------------------------------------------------------------------

(* What a call found in the address book: the contacts it listed, whether    *)
(* they are all that match, which bear exactly the name or are blocked,      *)
(* whose address is still to be read and who has one.                        *)
SearchPlace(k) ==
    [found : SUBSET (1..k), exact : SUBSET (1..k), barred : SUBSET (1..k), left : SUBSET (1..k),
     reached : SUBSET (1..k), whole : BOOLEAN]
NoSearch == [found |-> {}, exact |-> {}, barred |-> {}, left |-> {}, reached |-> {}, whole |-> FALSE]

(* blocked, known and changed remember, for the properties, who was blocked  *)
(* and how many contacts there were when it began, and who changed since.    *)
Called(t, lane, args, pc) ==
    [pc |-> pc, tool |-> t, lane |-> lane, target |-> args.target, file |-> args.file, name |-> args.name,
     party |-> 0, approved |-> FALSE, blocked |-> {}, known |-> 0, changed |-> {}, search |-> NoSearch,
     wants |-> {}, result |-> {}, sent |-> FALSE]
NotCalled == Called(ListTasksTool, "personal", [target |-> 0, file |-> 0, name |-> {}], "idle")

CallPlace(n, k) ==    \* with n records and k contacts
    [pc : {"idle", "waiting", "check", "addresses", "act", "done", "refused"}, tool : ToolSet, lane : ToolLanes,
     target : Nat, file : Nat, name : AskedNames \union {{}}, party : 0..k, approved : BOOLEAN,
     blocked : SUBSET (1..k), known : 0..k, changed : SUBSET (1..k), search : SearchPlace(k),
     wants : SUBSET {"phone", "mail"}, result : SUBSET (1..n), sent : BOOLEAN]

ToolsTypeOK ==
    /\ contacts \in Seq(ContactRow) /\ records \in Seq(RecordRow(Len(contacts))) /\ Len(records) <= MaxRecords
    /\ toolCall \in [ToolCalls -> CallPlace(Len(records), Len(contacts))] /\ moves \in 0..MaxMoves

ToolsInit ==
    /\ records = InitialRecords /\ contacts = InitialContacts
    /\ toolCall = [c \in ToolCalls |-> NotCalled] /\ moves = 0

Blocked == {p \in DOMAIN contacts : contacts[p].blocked}
Address(p, kind) == IF kind \in {"phone", "talk"} THEN contacts[p].phone ELSE contacts[p].mail

(* A call with arguments that fit its tool: a row, a contact or a name. *)
Arguments(t) ==
    [target : IF t.does \in ByRow THEN {i \in DOMAIN records : records[i].kind = t.kind}
              ELSE IF t.does \in ByContact THEN DOMAIN contacts ELSE {0},
     file : IF t.does = "file" THEN {i \in DOMAIN records : records[i].kind = "document"} ELSE {0},
     name : IF t.does \in ByName THEN AskedNames ELSE {{}}]

Started(call) == [call EXCEPT !.pc = "check", !.blocked = Blocked, !.known = Len(contacts), !.changed = {}]

(* The executor (PendingActions has it in full): a scope that is not allowed *)
(* or a skill switched off is refused, N2 waits for the user.                *)
Ask(c, t, lane, args) ==
    /\ toolCall[c].pc = "idle" /\ c \in AskedCalls
    /\ \/ toolCall' = [toolCall EXCEPT ![c] = Called(t, lane, args, "refused")]
       \/ /\ ScopeOf(lane) \in t.scopes
          /\ toolCall' = [toolCall EXCEPT ![c] = IF t.level = "N2" THEN Called(t, lane, args, "waiting")
                                                 ELSE Started(Called(t, lane, args, "check"))]
    /\ UNCHANGED <<records, contacts, moves>>

Decide(c) ==
    /\ toolCall[c].pc = "waiting"
    /\ \/ toolCall' = [toolCall EXCEPT ![c] = [Started(toolCall[c]) EXCEPT !.approved = TRUE]]
       \/ toolCall' = [toolCall EXCEPT ![c].pc = "refused"]
    /\ UNCHANGED <<records, contacts, moves>>

Runs(c, does) == toolCall[c].pc = "check" /\ toolCall[c].tool.does \in does
Fail(c) == toolCall' = [toolCall EXCEPT ![c].pc = "refused"] /\ UNCHANGED <<records, contacts, moves>>
Give(c, rows) ==
    toolCall' = [toolCall EXCEPT ![c].pc = "done", ![c].result = rows] /\ UNCHANGED <<records, contacts, moves>>
GoOn(c, party) ==
    toolCall' = [toolCall EXCEPT ![c].pc = "act", ![c].party = party] /\ UNCHANGED <<records, contacts, moves>>

(* A contact is written; the calls that run remember who changed, and hold   *)
(* nothing against a contact that is unblocked.                              *)
SameToFind(e, f) == e.name = f.name /\ e.company = f.company /\ e.phone = f.phone /\ e.mail = f.mail
Told(call, p, row) ==
    [call EXCEPT !.blocked = call.blocked \ (IF row.blocked THEN {} ELSE {p}),
                 !.changed = call.changed \union (IF SameToFind(row, contacts[p]) THEN {} ELSE {p})]
WriteContact(p, row, calls) ==
    /\ contacts' = [contacts EXCEPT ![p] = row]
    /\ toolCall' = [d \in ToolCalls |-> Told(calls[d], p, row)]
    /\ UNCHANGED records

(* The rows of the caller's lane. *)
ListRecords(c) ==
    /\ Runs(c, {"list"})
    /\ Give(c, {i \in DOMAIN records : /\ records[i].kind = toolCall[c].tool.kind /\ records[i].live
                                       /\ records[i].lane = toolCall[c].lane})

(* One address book: neither scope nor space filters it. *)
ListAllContacts(c) == Runs(c, {"contacts"}) /\ Give(c, {})

InLane(c, i) == records[i].live /\ records[i].lane = toolCall[c].lane

GetRecord(c) ==
    /\ Runs(c, {"get"})
    /\ IF InLane(c, toolCall[c].target) THEN Give(c, {toolCall[c].target}) ELSE Fail(c)

(* By its id, or by a number that nobody may have. *)
GetOneContact(c) ==
    /\ Runs(c, {"getContact"})
    /\ LET e == contacts[toolCall[c].target] IN
       IF e.lane = toolCall[c].lane \/ (toolCall[c].tool.kind = "phone" /\ ~e.phone) THEN Give(c, {}) ELSE Fail(c)

(* The messages of the thread or the conversation, whatever its lane; the    *)
(* model may be absent.                                                      *)
DraftReply(c) == Runs(c, {"draft"}) /\ (Give(c, {toolCall[c].target}) \/ Fail(c))

AskConnector(c) ==
    /\ Runs(c, {"connector"})
    /\ IF toolCall[c].lane = toolCall[c].tool.kind THEN Give(c, {}) ELSE Fail(c)

CreateRecord(c) ==
    /\ Runs(c, {"create"}) /\ Len(records) < MaxRecords
    /\ records' = Append(records, [kind |-> toolCall[c].tool.kind, lane |-> toolCall[c].lane, party |-> 0,
                                   live |-> TRUE, by |-> toolCall[c].lane])
    /\ toolCall' = [toolCall EXCEPT ![c].pc = "done", ![c].result = {Len(records')}]
    /\ UNCHANGED <<contacts, moves>>

(* The contact is stored in the personal lane whatever the caller's; its     *)
(* addresses follow one by one.                                              *)
CreateContact(c) ==
    /\ Runs(c, {"addContact"})
    /\ \E name \in GivenNames \ {{}}, company \in GivenNames, blocked \in BOOLEAN, wants \in SUBSET {"phone", "mail"} :
         /\ contacts' = Append(contacts, NewContact(name, company, blocked))
         /\ toolCall' = [toolCall EXCEPT ![c].pc = IF wants = {} THEN "done" ELSE "act", ![c].wants = wants,
                                         ![c].target = Len(contacts')]
    /\ UNCHANGED <<records, moves>>

(* An address of another contact is refused (Conflict), and so is one for a  *)
(* contact that is gone: what was stored before stays.                       *)
AddIdentity(c) ==
    /\ toolCall[c].pc = "act" /\ toolCall[c].tool.does = "addContact"
    /\ LET p == toolCall[c].target
           phone == "phone" \in toolCall[c].wants
           wants == toolCall[c].wants \ (IF phone THEN {"phone"} ELSE {"mail"})
           row == [contacts[p] EXCEPT !.phone = contacts[p].phone \/ phone, !.mail = contacts[p].mail \/ ~phone]
       IN \/ Fail(c)
          \/ /\ contacts[p].lane # "none"
             /\ WriteContact(p, row, [toolCall EXCEPT ![c].pc = IF wants = {} THEN "done" ELSE "act", ![c].wants = wants])
             /\ UNCHANGED moves

(* draft_action leaves a pending action of another tool, whatever its level. *)
DraftAction(c, d, t, args) ==
    /\ Runs(c, {"prepare"}) /\ toolCall[d].pc = "idle"
    /\ IF ScopeOf(toolCall[c].lane) \notin t.scopes \/ t.level = "N4" THEN Fail(c)
       ELSE /\ toolCall' = [toolCall EXCEPT ![c].pc = "done",
                              ![d] = Called(t, toolCall[c].lane, args, "waiting")]
            /\ UNCHANGED <<records, contacts, moves>>

-------------------------------------------------------------------------------
(* Tools that change a row: compare, then change.                            *)

CheckChange(c) ==
    /\ Runs(c, {"change"})
    /\ IF InLane(c, toolCall[c].target) THEN GoOn(c, 0) ELSE Fail(c)

(* The row is looked up once more; it may have gone. *)
ChangeRecord(c) ==
    /\ toolCall[c].pc = "act" /\ toolCall[c].tool.does = "change"
    /\ IF ~records[toolCall[c].target].live THEN Fail(c)
       ELSE /\ records' = [records EXCEPT ![toolCall[c].target].by = toolCall[c].lane]
            /\ toolCall' = [toolCall EXCEPT ![c].pc = "done", ![c].result = {toolCall[c].target}]
            /\ UNCHANGED <<contacts, moves>>

CheckContact(c) ==
    /\ Runs(c, {"changeContact"})
    /\ IF contacts[toolCall[c].target].lane = toolCall[c].lane THEN GoOn(c, toolCall[c].target) ELSE Fail(c)

(* Its name and its trust level, in one write; the contact may have gone. *)
ChangeOneContact(c) ==
    /\ toolCall[c].pc = "act" /\ toolCall[c].tool.does = "changeContact"
    /\ LET p == toolCall[c].target IN
       IF contacts[p].lane = "none" THEN Fail(c)
       ELSE /\ \E name \in {contacts[p].name} \union GivenNames, blocked \in BOOLEAN :
                  WriteContact(p, [contacts[p] EXCEPT !.name = name, !.blocked = blocked], [toolCall EXCEPT ![c].pc = "done"])
            /\ UNCHANGED moves

-------------------------------------------------------------------------------
(* Tools that write to someone: find out to whom, then send.                 *)

(* A blocked contact is not answered; a thread may have no contact. *)
CheckReply(c) ==
    /\ Runs(c, {"reply"})
    /\ LET i == toolCall[c].target IN
       IF InLane(c, i) /\ records[i].party \notin Blocked THEN GoOn(c, records[i].party) ELSE Fail(c)

(* The row and the document are of the lane, the contact has an address. *)
CheckFile(c) ==
    /\ Runs(c, {"file"})
    /\ LET p == records[toolCall[c].target].party IN
       IF InLane(c, toolCall[c].target) /\ InLane(c, toolCall[c].file) /\ p # 0 /\ Address(p, toolCall[c].tool.kind)
       THEN GoOn(c, p) ELSE Fail(c)

(* A name means the contacts whose name or company contains it; the list     *)
(* gives LIST_LIMIT of them, with the names and trust levels of that moment. *)
Means(name, p) == name \subseteq contacts[p].name \/ name \subseteq contacts[p].company
LookUpContacts(c) ==
    /\ Runs(c, ByName)
    /\ LET matches == {p \in DOMAIN contacts : Means(toolCall[c].name, p)}
           size == Cardinality(matches)
       IN IF matches = {} THEN Fail(c)
          ELSE /\ \E found \in SUBSET matches :
                    /\ Cardinality(found) = IF size <= ListLimit THEN size ELSE ListLimit
                    /\ toolCall' = [toolCall EXCEPT ![c].pc = "addresses",
                         ![c].search = [found |-> found, exact |-> {p \in found : contacts[p].name = toolCall[c].name},
                                        barred |-> found \intersect Blocked, left |-> found, reached |-> {},
                                        whole |-> found = matches]]
               /\ UNCHANGED <<records, contacts, moves>>

(* The addresses are read one contact after the other. *)
ReadIdentity(c, p) ==
    LET s == toolCall[c].search IN
    /\ toolCall[c].pc = "addresses" /\ p \in s.left
    /\ toolCall' = [toolCall EXCEPT ![c].search =
         [s EXCEPT !.left = s.left \ {p},
                   !.reached = IF Address(p, toolCall[c].tool.kind) THEN s.reached \union {p} ELSE s.reached]]
    /\ UNCHANGED <<records, contacts, moves>>

(* Those with an address: of exactly that name if any, or all of them. *)
Pool(c) ==
    LET s == toolCall[c].search IN
    IF s.exact \intersect s.reached # {} THEN s.exact \intersect s.reached ELSE s.reached
Resolves(c, kind) == toolCall[c].pc = "addresses" /\ toolCall[c].search.left = {} /\ toolCall[c].tool.kind = kind

(* Mutant: the first of several is taken. *)
ResolveFirst(c) ==
    /\ Resolves(c, "phone")
    /\ IF Pool(c) = {} THEN Fail(c)
       ELSE LET p == CHOOSE q \in Pool(c) : \A r \in Pool(c) : q <= r
            IN IF p \in toolCall[c].search.barred THEN Fail(c) ELSE GoOn(c, p)

(* "It never guesses": one contact, not blocked, or a question. *)
ResolveWhatsAppTarget(c) ==
    /\ Resolves(c, "phone")
    /\ IF Cardinality(Pool(c)) # 1 THEN Fail(c)
       ELSE LET p == CHOOSE q \in Pool(c) : TRUE IN IF p \in toolCall[c].search.barred THEN Fail(c) ELSE GoOn(c, p)

ResolveMailTarget(c) ==
    /\ Resolves(c, "mail")
    /\ IF Cardinality(Pool(c)) # 1 THEN Fail(c)
       ELSE LET p == CHOOSE q \in Pool(c) : TRUE IN IF p \in toolCall[c].search.barred THEN Fail(c) ELSE GoOn(c, p)

(* The address is read once more, except for files; a mail to no address is  *)
(* sent to nobody. The provider takes it or refuses.                         *)
SendIt(c) ==
    /\ toolCall[c].pc = "act" /\ toolCall[c].tool.does \in {"reply", "file", "sendTo", "mission"}
    /\ LET p == toolCall[c].party
           reaches == p # 0 /\ (toolCall[c].tool.does = "file" \/ Address(p, toolCall[c].tool.kind))
       IN \/ Fail(c)
          \/ /\ reaches \/ toolCall[c].tool.kind = "thread"
             /\ toolCall' = [toolCall EXCEPT ![c].pc = "done", ![c].sent = reaches]
             /\ UNCHANGED <<records, contacts, moves>>

StopMission(c) == toolCall[c].pc = "act" /\ toolCall[c].tool.does = "stopMission" /\ Give(c, {})

-------------------------------------------------------------------------------
(* The user and the synchronisations, between any two steps: a contact is    *)
(* renamed, blocked or unblocked, gains or loses an address, is removed; a   *)
(* namesake appears; a row goes.                                             *)
ChangesOf(p) ==
    \/ \E name \in {contacts[p].name} \union GivenNames, company \in {contacts[p].company} \union GivenNames,
          blocked \in BOOLEAN :
         WriteContact(p, [contacts[p] EXCEPT !.name = name, !.company = company, !.blocked = blocked], toolCall)
    \/ \E row \in {[contacts[p] EXCEPT !.phone = ~contacts[p].phone],
                   [contacts[p] EXCEPT !.mail = ~contacts[p].mail], Removed} :
         WriteContact(p, row, toolCall)
Meanwhile ==
    /\ moves < MaxMoves /\ moves' = moves + 1
    /\ \/ \E p \in DOMAIN contacts : contacts[p].lane # "none" /\ ChangesOf(p)
       \/ /\ \E p \in DOMAIN contacts : contacts[p].lane # "none" /\ contacts' = Append(contacts, contacts[p])
          /\ UNCHANGED <<records, toolCall>>
       \/ /\ \E i \in DOMAIN records : records' = [records EXCEPT ![i].live = FALSE]
          /\ UNCHANGED <<contacts, toolCall>>

ToolsNext ==
    \/ \E c \in ToolCalls :
         \/ \E t \in ToolSet : \E lane \in ToolLanes, args \in Arguments(t) : Ask(c, t, lane, args)
         \/ \E d \in ToolCalls \ {c} : \E t \in ToolSet \ {DraftActionTool} : \E args \in Arguments(t) : DraftAction(c, d, t, args)
         \/ Decide(c) \/ ListRecords(c) \/ ListAllContacts(c) \/ GetRecord(c) \/ GetOneContact(c) \/ DraftReply(c)
         \/ AskConnector(c) \/ CreateRecord(c) \/ CreateContact(c) \/ AddIdentity(c) \/ CheckChange(c) \/ ChangeRecord(c)
         \/ CheckContact(c) \/ ChangeOneContact(c) \/ CheckReply(c) \/ CheckFile(c) \/ LookUpContacts(c)
         \/ (\E p \in DOMAIN contacts : ReadIdentity(c, p)) \/ ResolveWhatsAppTarget(c) \/ ResolveMailTarget(c)
         \/ SendIt(c) \/ StopMission(c)
    \/ Meanwhile

ToolsSpec == ToolsInit /\ [][ToolsNext]_toolVars

-------------------------------------------------------------------------------
(* "A Personal conversation must not read a Professional task even for the   *)
(* same user": what a tool lists, gets, creates or changes is of its lane,   *)
(* drafts of replies apart, and no row carries the mark of another lane.     *)
ToolsKeepLane ==
    /\ \A c \in ToolCalls : toolCall[c].tool.does # "draft" => \A i \in toolCall[c].result : records[i].lane = toolCall[c].lane
    /\ \A i \in DOMAIN records : records[i].by \in {"none", records[i].lane}

(* A contact that was blocked before the tool ran, and is, gets neither a    *)
(* message nor a mission. A name reaches a contact whose name or company it  *)
(* is, unless that contact changed while the tool ran; and if the list had   *)
(* room for all it means, nobody is written to while another contact, which  *)
(* was there and did not change, bears exactly that name - or matches it as  *)
(* well as the one written to does ("it never guesses").                     *)
Steady(call) == (1..call.known) \ call.changed
RightParty(call) ==
    /\ call.party \notin call.changed => Means(call.name, call.party)
    /\ call.search.whole => \A p \in Steady(call) : p # call.party /\ Address(p, call.tool.kind) /\ Means(call.name, p) =>
         /\ contacts[p].name # call.name
         /\ call.party \notin call.changed => contacts[call.party].name = call.name
NobodyElse ==
    \A c \in ToolCalls : toolCall[c].sent =>
        /\ toolCall[c].tool.does # "file" => toolCall[c].party \notin toolCall[c].blocked
        /\ toolCall[c].tool.does \in ByName => RightParty(toolCall[c])

(* A tool of level N2 acts after the user's approval only, and so does any   *)
(* tool that was prepared by draft_action.                                   *)
ApprovedFirst ==
    \A c \in ToolCalls :
        toolCall[c].tool.level = "N2" /\ toolCall[c].pc \in {"check", "addresses", "act", "done"} => toolCall[c].approved

(* What holds of the tools while rows change under them. *)
ToolsSafe == ToolsTypeOK /\ ToolsKeepLane /\ NobodyElse /\ ApprovedFirst

(* Why they hold: what a tool has compared stays true until it acts, for    *)
(* rows keep their lane, who was blocked when a tool began still is or is    *)
(* not held against it any more, and what a call read of a contact is true   *)
(* of it unless it has changed.                                              *)
SearchHolds(call) ==
    LET s == call.search IN
    /\ s.left \union s.reached \union s.exact \subseteq s.found /\ call.blocked \intersect s.found \subseteq s.barred
    /\ \A p \in s.found \ call.changed : Means(call.name, p) /\ (p \in s.exact <=> contacts[p].name = call.name)
    /\ s.whole => {p \in Steady(call) : Means(call.name, p)} \subseteq s.found
    /\ {p \in s.found \ s.left : p \in Steady(call) /\ Address(p, call.tool.kind)} \subseteq s.reached
MayWriteTo(call) ==
    /\ call.tool.does # "file" => call.party \notin call.blocked
    /\ call.tool.does \in ByName => call.party # 0 /\ RightParty(call)
CallHolds(call) ==
    /\ call.pc # "idle" /\ call.tool.does \in ByRow => call.target \in DOMAIN records
    /\ call.pc # "idle" /\ call.tool.does \in ByContact => call.target \in DOMAIN contacts
    /\ call.pc # "idle" /\ call.tool.does = "file" => call.file \in DOMAIN records
    /\ call.pc = "act" /\ call.tool.does = "addContact" => call.target \in DOMAIN contacts
    /\ call.blocked \subseteq Blocked /\ (call.sent => call.pc = "done" /\ MayWriteTo(call))
    /\ call.pc = "act" /\ call.tool.does = "change" => records[call.target].lane = call.lane
    /\ call.pc = "addresses" => call.tool.does \in ByName /\ SearchHolds(call)
    /\ call.pc = "act" /\ call.tool.does \in {"reply", "file", "sendTo", "mission"} => MayWriteTo(call)
CallsInv == \A c \in ToolCalls : CallHolds(toolCall[c])

ToolsInv == CallsInv /\ ToolsKeepLane /\ NobodyElse /\ ApprovedFirst

-------------------------------------------------------------------------------
(* What the code does not keep. sendAndPersist is "only ever reached after   *)
(* ToolExecutor's N2/N3 confirmation policy already approved it": the tools  *)
(* that reach it are N1.                                                     *)
SendsAreApproved == \A c \in ToolCalls : toolCall[c].sent => toolCall[c].approved

(* A blocked contact gets nothing: files are sent without looking. *)
BlockedGetsNothing == \A c \in ToolCalls : toolCall[c].sent => toolCall[c].party \notin toolCall[c].blocked

(* No tool shows rows of another lane: the drafts do. *)
DraftsKeepLane == \A c \in ToolCalls : \A i \in toolCall[c].result : records[i].lane = toolCall[c].lane

(* "Several contacts with that name" are a question: LIST_LIMIT of those a   *)
(* name means are looked at, and a namesake may be beyond it.                *)
NamesakesAsked ==
    \A c \in ToolCalls : toolCall[c].sent /\ toolCall[c].tool.does \in ByName =>
        \A p \in Steady(toolCall[c]) :
           p # toolCall[c].party /\ Address(p, toolCall[c].tool.kind) => contacts[p].name # toolCall[c].name

(* create_contact creates "dans le scope/space de la conversation en cours": *)
(* every contact is stored as personal.                                      *)
CreatedInLane ==
    \A c \in ToolCalls : toolCall[c].tool.does = "addContact" /\ toolCall[c].pc = "done" =>
        contacts[toolCall[c].target].lane \in {toolCall[c].lane, "none"}
===============================================================================
