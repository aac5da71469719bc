--------------------------- MODULE WhatsAppDelivery ---------------------------
(***************************************************************************)
(* Outbound messages: the account they leave from, the conversation they   *)
(* are filed in, and their delivery status.                                *)
(*   src/whatsapp/whatsapp-account.service.ts                              *)
(*   src/whatsapp/whatsapp-message.service.ts  sendToContact,              *)
(*                    sendAndPersist, sendTextForUser, applyDeliveryStatus *)
(*   src/whatsapp/whatsapp-status.util.ts                                  *)
(* Every Text is sent by one call. The provider reports on it in any       *)
(* order, repeats itself, and may report before its row exists; webhooks   *)
(* are handled concurrently.                                               *)
(***************************************************************************)
EXTENDS Integers, Sequences, FiniteSets

CONSTANTS Accounts, Parties, Outbound, Reports, Reported, MaxTalks    \* Reported: the texts the provider reports on

ASSUME DeliveryConstants == MaxTalks \in Nat /\ Reported \subseteq Outbound /\ "none" \notin Outbound

VARIABLES accounts,    \* the user's accounts, the newest first
          talks,       \* the whatsapp_conversations rows: [account, party, gone]
          sending,     \* a call of sendToContact or sendTextForUser
          accepted,    \* the texts the provider accepted
          delivery,    \* the status of the row of a text, "none" without a row
          report,      \* a call of applyDeliveryStatus
          heard,       \* the statuses reported while the row exists
          overlapped   \* texts two reports were applied to at once

deliveryVars == <<accounts, talks, sending, accepted, delivery, report, heard, overlapped>>

DeliveryStatuses == {"sent", "delivered", "read", "failed"}
EvolutionStatuses == {"PENDING", "SERVER_ACK", "DELIVERY_ACK", "READ", "PLAYED", "ERROR", "DELETED"}
NotSending == [pc |-> "idle", party |-> "none", account |-> "none", talk |-> 0]
NoReport == [pc |-> "idle", text |-> "none", next |-> "none"]

Talk == [account : Accounts, party : Parties, gone : BOOLEAN]
SendPlace(n) == [pc : {"idle", "create", "connect", "send", "persist", "done", "failed"},
                 party : Parties \union {"none"}, account : Accounts \union {"none"}, talk : 0..n]
ReportPlace == [pc : {"idle", "write"}, text : Outbound \union {"none"}, next : DeliveryStatuses \union {"none"}]

DeliveryTypeOK ==
    /\ accounts \in Seq(Accounts) /\ talks \in Seq(Talk) /\ Len(talks) <= MaxTalks
    /\ sending \in [Outbound -> SendPlace(Len(talks))] /\ accepted \subseteq Outbound
    /\ delivery \in [Outbound -> DeliveryStatuses \union {"none"}] /\ report \in [Reports -> ReportPlace]
    /\ heard \in [Outbound -> SUBSET DeliveryStatuses] /\ overlapped \subseteq Outbound

DeliveryInit ==
    /\ accounts = <<>> /\ talks = <<>> /\ sending = [x \in Outbound |-> NotSending] /\ accepted = {}
    /\ delivery = [x \in Outbound |-> "none"] /\ report = [u \in Reports |-> NoReport]
    /\ heard = [x \in Outbound |-> {}] /\ overlapped = {}

-------------------------------------------------------------------------------

(* DELETED carries no delivery information. *)
MapEvolutionStatus ==
    [PENDING |-> "sent", SERVER_ACK |-> "sent", DELIVERY_ACK |-> "delivered",
     READ |-> "read", PLAYED |-> "read", ERROR |-> "failed", DELETED |-> "none"]

Rank == [sent |-> 0, delivered |-> 1, read |-> 2, failed |-> -1]

(* Mutant: a late status is applied whatever its rank. *)
ShouldAdvanceAlways(current, next) == next # current

ShouldAdvance(current, next) ==
    IF next = "failed" THEN current # "read" ELSE Rank[next] > Rank[current]

-------------------------------------------------------------------------------

AddAccount(a) ==
    /\ \A i \in DOMAIN accounts : accounts[i] # a
    /\ \A i \in DOMAIN talks : talks[i].account # a
    /\ accounts' = <<a>> \o accounts
    /\ UNCHANGED <<talks, sending, accepted, delivery, report, heard, overlapped>>

(* The conversations and messages go with the account. *)
RemoveAccount(a) ==
    /\ \E i \in DOMAIN accounts : /\ accounts[i] = a
                                 /\ accounts' = SubSeq(accounts, 1, i - 1) \o SubSeq(accounts, i + 1, Len(accounts))
    /\ talks' = [i \in DOMAIN talks |-> [talks[i] EXCEPT !.gone = @ \/ talks[i].account = a]]
    /\ delivery' = [x \in Outbound |->
                      IF sending[x].talk \in DOMAIN talks /\ talks[sending[x].talk].account = a THEN "none"
                      ELSE delivery[x]]
    /\ UNCHANGED <<sending, accepted, report, heard, overlapped>>

Refused(x) == sending' = [sending EXCEPT ![x].pc = "failed"]

(* The conversation with the contact on the newest account: found, or none yet. *)
OpenConversationForContact(x, party) ==
    /\ sending[x].pc = "idle"
    /\ IF accounts = <<>> THEN Refused(x)
       ELSE LET found == {i \in DOMAIN talks : talks[i].account = Head(accounts) /\ talks[i].party = party
                                                 /\ ~talks[i].gone}
                call(pc, i) == [pc |-> pc, party |-> party, account |-> Head(accounts), talk |-> i]
            IN \/ found = {} /\ sending' = [sending EXCEPT ![x] = call("create", 0)]
               \/ \E i \in found : sending' = [sending EXCEPT ![x] = call("connect", i)]
    /\ UNCHANGED <<accounts, talks, accepted, delivery, report, heard, overlapped>>

(* No constraint makes the row unique; it needs its account. *)
CreateConversation(x) ==
    /\ sending[x].pc = "create"
    /\ IF \A i \in DOMAIN accounts : accounts[i] # sending[x].account THEN Refused(x) /\ UNCHANGED talks
       ELSE /\ Len(talks) < MaxTalks
            /\ talks' = Append(talks, [account |-> sending[x].account, party |-> sending[x].party, gone |-> FALSE])
            /\ sending' = [sending EXCEPT ![x].pc = "connect", ![x].talk = Len(talks')]
    /\ UNCHANGED <<accounts, accepted, delivery, report, heard, overlapped>>

(* An answer in a conversation the user sees. *)
SendTextForUser(x, i) ==
    /\ sending[x].pc = "idle" /\ i \in DOMAIN talks /\ ~talks[i].gone
    /\ sending' = [sending EXCEPT ![x] = [pc |-> "connect", party |-> talks[i].party,
                                          account |-> talks[i].account, talk |-> i]]
    /\ UNCHANGED <<accounts, talks, accepted, delivery, report, heard, overlapped>>

(* The rows of the conversation and of its account, read again. *)
ResolveConnection(x) ==
    /\ sending[x].pc = "connect"
    /\ IF talks[sending[x].talk].gone THEN Refused(x)
       ELSE sending' = [sending EXCEPT ![x].pc = "send"]
    /\ UNCHANGED <<accounts, talks, accepted, delivery, report, heard, overlapped>>

SendTextMessage(x) ==
    /\ sending[x].pc = "send"
    /\ \/ Refused(x) /\ UNCHANGED accepted
       \/ sending' = [sending EXCEPT ![x].pc = "persist"] /\ accepted' = accepted \union {x}
    /\ UNCHANGED <<accounts, talks, delivery, report, heard, overlapped>>

(* The row needs its conversation: without it the call fails after the text left. *)
PersistOutbound(x) ==
    /\ sending[x].pc = "persist"
    /\ IF talks[sending[x].talk].gone THEN Refused(x) /\ UNCHANGED delivery
       ELSE sending' = [sending EXCEPT ![x].pc = "done"] /\ delivery' = [delivery EXCEPT ![x] = "sent"]
    /\ UNCHANGED <<accounts, talks, accepted, report, heard, overlapped>>

(* Statuses without meaning, texts without a row and steps back are ignored. *)
ReadReported(u, x, e) ==
    /\ report[u].pc = "idle" /\ x \in accepted /\ MapEvolutionStatus[e] # "none" /\ delivery[x] # "none"
    /\ LET next == MapEvolutionStatus[e] IN
         /\ report' = IF ShouldAdvance(delivery[x], next)
                      THEN [report EXCEPT ![u] = [pc |-> "write", text |-> x, next |-> next]] ELSE report
         /\ heard' = [heard EXCEPT ![x] = @ \union {next}]
    /\ overlapped' = overlapped \union (IF \E v \in Reports : report[v].text = x THEN {x} ELSE {})
    /\ UNCHANGED <<accounts, talks, sending, accepted, delivery>>

(* The update does not look at the status again; without a row it throws. *)
WriteReported(u) ==
    /\ report[u].pc = "write"
    /\ delivery' = [delivery EXCEPT ![report[u].text] = IF @ = "none" THEN @ ELSE report[u].next]
    /\ report' = [report EXCEPT ![u] = NoReport]
    /\ UNCHANGED <<accounts, talks, sending, accepted, heard, overlapped>>

DeliveryNext ==
    \/ \E a \in Accounts : AddAccount(a) \/ RemoveAccount(a)
    \/ \E x \in Outbound : \/ \E party \in Parties : OpenConversationForContact(x, party)
                           \/ \E i \in DOMAIN talks : SendTextForUser(x, i)
                           \/ CreateConversation(x) \/ ResolveConnection(x) \/ SendTextMessage(x) \/ PersistOutbound(x)
    \/ \E u \in Reports : WriteReported(u) \/ \E x \in Reported, e \in EvolutionStatuses : ReadReported(u, x, e)

DeliverySpec == DeliveryInit /\ [][DeliveryNext]_deliveryVars

-------------------------------------------------------------------------------
(* "Statuses only move forward: a late delivered never downgrades read, and  *)
(* failed never overrides a read": reports handled one after the other leave *)
(* the furthest status, in whatever order and however often they come.       *)
OrderIrrelevant ==
    \A x \in Outbound \ overlapped :
        delivery[x] # "none" /\ (\A u \in Reports : report[u].text # x) =>
            /\ "read" \in heard[x] => delivery[x] = "read"
            /\ "failed" \notin heard[x] => \A s \in heard[x] : Rank[delivery[x]] >= Rank[s]

(* A row tells of a text that left, filed with the contact it was for.       *)
RowMeansSent ==
    \A x \in Outbound :
        /\ delivery[x] # "none" => x \in accepted
        /\ sending[x].talk # 0 => talks[sending[x].talk].party = sending[x].party

(* What holds of outbound messages while accounts come and go. *)
DeliverySafe == DeliveryTypeOK /\ OrderIrrelevant /\ RowMeansSent

(* Why they hold: the row of a text is written once, after the text left,   *)
(* and nothing was reported of it before.                                   *)
SendInv == \A x \in Outbound :
    /\ sending[x].pc \in {"persist", "done"} => x \in accepted
    /\ sending[x].pc = "create" => sending[x].account \in Accounts /\ sending[x].party \in Parties
    /\ sending[x].pc \in {"connect", "send", "persist"} => sending[x].talk # 0
    /\ sending[x].pc # "done" => delivery[x] = "none" /\ heard[x] = {} /\ \A u \in Reports : report[u].text # x

(* Of the texts not reported twice at once, the status the row has or is    *)
(* about to get is the furthest of those heard.                             *)
Furthest(x, s) ==
    /\ "read" \in heard[x] => s = "read"
    /\ "failed" \notin heard[x] => \A h \in heard[x] : Rank[s] >= Rank[h]
HeardInv == \A x \in Outbound \ overlapped :
    /\ \A u, v \in Reports : report[u].text = x /\ report[v].text = x => u = v
    /\ delivery[x] # "none" => /\ \A u \in Reports : report[u].text = x => Furthest(x, report[u].next)
                               /\ (\A u \in Reports : report[u].text # x) => Furthest(x, delivery[x])

ReportsInv == \A u \in Reports :
    IF report[u].pc = "idle" THEN report[u].text = "none"
    ELSE report[u].text \in Outbound /\ report[u].next \in DeliveryStatuses

DeliveryInv == SendInv /\ HeardInv /\ ReportsInv /\ RowMeansSent

-------------------------------------------------------------------------------
(* What the code does not keep. Two reports handled at once let the earlier  *)
(* status win.                                                               *)
ReadIsKept ==
    \A x \in Outbound :
        "read" \in heard[x] /\ (\A u \in Reports : report[u].text # x) => delivery[x] \in {"read", "none"}

(* An account removed while a text leaves makes the call fail although the   *)
(* contact has the text.                                                     *)
FailedMeansUnsent == \A x \in Outbound : sending[x].pc = "failed" => x \notin accepted

(* Two first messages open two conversations with one contact.               *)
OneConversation ==
    \A i, j \in DOMAIN talks : talks[i] = talks[j] /\ ~talks[i].gone => i = j
===============================================================================
