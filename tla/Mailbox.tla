------------------------------- MODULE Mailbox -------------------------------
(***************************************************************************)
(* The e-mails of one user's mailboxes.                                    *)
(*   src/email/email-message.service.ts   syncInbound, ingestOne, sends    *)
(*   src/email/email-account.service.ts   the mailboxes and their health   *)
(*   src/email/email-sync.processor.ts    every mailbox, every 15 minutes  *)
(* A pull is a scheduled one or a POST .../sync. What a provider returns is*)
(* external: the mails of the box that were not dropped by its limit.      *)
(***************************************************************************)
EXTENDS Integers, FiniteSets

CONSTANTS Pulls,           \* pulls that may overlap
          Boxes,           \* e-mail accounts
          Mails,           \* provider message ids
          InBox,           \* InBox[b]: the mails of box b
          Senders, From,   \* From[m]: who sent mail m
          MaxTroubles      \* bound on failures

ASSUME MailConstants ==
    /\ "none" \notin Boxes /\ IsFiniteSet(Pulls)
    /\ InBox \in [Boxes -> SUBSET Mails] /\ From \in [Mails -> Senders] /\ MaxTroubles \in Nat

VARIABLES
    box,         \* box[b]: "configured", "connected", "error" or "deleted"
    sender,      \* sender[s]: "unknown", or the trust of its contact: "known" or "blocked"
    strays,      \* senders of whom a contact without its address was left behind
    stored,      \* stored[m]: the box whose thread holds the inbound row of m, or "none"
    threads,     \* threads[<<b, s>>]: threads of a sender in a box
    read,        \* read[m]: times its facts were extracted
    pull,        \* pull[p]: where it stands, its box, the mails left and the mail at hand
    troubles

mailVars == <<box, sender, strays, stored, threads, read, pull, troubles>>

Resting == [pc |-> "idle", box |-> "none", todo |-> {}, mail |-> "none"]
Pulling(p) == pull[p].pc \notin {"idle", "done"}
Sender(p) == From[pull[p].mail]

PullPlace == [pc : {"idle", "next", "contact", "create", "identify", "thread", "open", "store",
                    "touch", "read", "done"},
              box : Boxes \union {"none"}, todo : SUBSET Mails, mail : Mails \union {"none"}]

MailTypeOK ==
    /\ box \in [Boxes -> {"configured", "connected", "error", "deleted"}]
    /\ sender \in [Senders -> {"unknown", "known", "blocked"}]
    /\ strays \subseteq Senders /\ stored \in [Mails -> Boxes \union {"none"}]
    /\ threads \in [Boxes \X Senders -> 0..Cardinality(Pulls)]
    /\ read \in [Mails -> 0..Cardinality(Pulls)] /\ pull \in [Pulls -> PullPlace]
    /\ troubles \in 0..MaxTroubles

MailInit ==
    /\ box = [b \in Boxes |-> "configured"] /\ sender = [s \in Senders |-> "unknown"]
    /\ strays = {} /\ stored = [m \in Mails |-> "none"] /\ threads = [t \in Boxes \X Senders |-> 0]
    /\ read = [m \in Mails |-> 0] /\ pull = [p \in Pulls |-> Resting] /\ troubles = 0

PullTo(p, pc) == pull' = [pull EXCEPT ![p].pc = pc]
EndPull(p) == pull' = [pull EXCEPT ![p] = [Resting EXCEPT !.pc = "done"]]
Trouble == troubles < MaxTroubles /\ troubles' = troubles + 1

(* resolveConnection and fetchRecent. *)
StartPull(p, b) ==
    /\ pull[p].pc = "idle" /\ box[b] # "deleted"
    /\ pull' = [pull EXCEPT ![p] = [pc |-> "next", box |-> b, todo |-> InBox[b], mail |-> "none"]]
    /\ UNCHANGED <<box, sender, strays, stored, threads, read, troubles>>

(* The look for a row with the provider's id, of whichever box. *)
NextMail(p, m) ==
    /\ pull[p].pc = "next" /\ m \in pull[p].todo
    /\ pull' = [pull EXCEPT ![p].todo = @ \ {m}, ![p].mail = m,
                            ![p].pc = IF stored[m] = "none" THEN "contact" ELSE "next"]
    /\ UNCHANGED <<box, sender, strays, stored, threads, read, troubles>>

(* findByIdentity; a blocked contact ends it. *)
FindSender(p) ==
    /\ pull[p].pc = "contact"
    /\ PullTo(p, CASE sender[Sender(p)] = "unknown" -> "create"
                   [] sender[Sender(p)] = "known"   -> "thread"
                   [] sender[Sender(p)] = "blocked" -> "next")
    /\ UNCHANGED <<box, sender, strays, stored, threads, read, troubles>>

(* The contact is created; it has no address yet. *)
CreateSender(p) ==
    /\ pull[p].pc = "create" /\ PullTo(p, "identify")
    /\ UNCHANGED <<box, sender, strays, stored, threads, read, troubles>>

(* addIdentity: an address belongs to one contact of the user. The loser of *)
(* a race throws, and its contact stays behind.                             *)
IdentifySender(p) ==
    LET s == Sender(p) IN
    /\ pull[p].pc = "identify"
    /\ \/ sender[s] = "unknown" /\ PullTo(p, "thread")
          /\ sender' = [sender EXCEPT ![s] = "known"] /\ UNCHANGED strays
       \/ sender[s] # "unknown" /\ EndPull(p)
          /\ strays' = strays \union {s} /\ UNCHANGED sender
    /\ UNCHANGED <<box, stored, threads, read, troubles>>

(* getOrCreateThread: a findFirst, and a create when it found none. No key  *)
(* keeps a thread from being opened twice; without its account it throws.   *)
FindThread(p) ==
    /\ pull[p].pc = "thread"
    /\ PullTo(p, IF threads[<<pull[p].box, Sender(p)>>] > 0 THEN "store" ELSE "open")
    /\ UNCHANGED <<box, sender, strays, stored, threads, read, troubles>>

OpenThread(p) ==
    LET t == <<pull[p].box, Sender(p)>> IN
    /\ pull[p].pc = "open"
    /\ IF box[pull[p].box] = "deleted" THEN EndPull(p) /\ UNCHANGED threads
       ELSE PullTo(p, "store") /\ threads' = [threads EXCEPT ![t] = @ + 1]
    /\ UNCHANGED <<box, sender, strays, stored, read, troubles>>

(* Mutant: nothing but the first look keeps a mail from being stored twice. *)
StoreMailAgain(p) ==
    /\ pull[p].pc = "store"
    /\ PullTo(p, "touch") /\ stored' = [stored EXCEPT ![pull[p].mail] = pull[p].box]
    /\ UNCHANGED <<box, sender, strays, threads, read, troubles>>

(* provider_message_id is unique: a second insert throws and ends the pull, *)
(* and so does one into a thread that is gone.                              *)
StoreMail(p) ==
    /\ pull[p].pc = "store"
    /\ IF stored[pull[p].mail] # "none" \/ box[pull[p].box] = "deleted" THEN EndPull(p) /\ UNCHANGED stored
       ELSE PullTo(p, "touch") /\ stored' = [stored EXCEPT ![pull[p].mail] = pull[p].box]
    /\ UNCHANGED <<box, sender, strays, threads, read, troubles>>

(* lastMessageAt of the thread and lastInteractionAt of the contact. *)
TouchThread(p) ==
    /\ pull[p].pc = "touch"
    /\ IF box[pull[p].box] = "deleted" THEN EndPull(p) ELSE PullTo(p, "read")
    /\ UNCHANGED <<box, sender, strays, stored, threads, read, troubles>>

(* extractMemory, best effort. *)
ReadFacts(p) ==
    /\ pull[p].pc = "read" /\ PullTo(p, "next")
    /\ \/ read' = [read EXCEPT ![pull[p].mail] = @ + 1] /\ UNCHANGED troubles
       \/ Trouble /\ UNCHANGED read
    /\ UNCHANGED <<box, sender, strays, stored, threads>>

(* updateHealth: the row may be gone. *)
ReportHealth(p) ==
    /\ pull[p].pc = "next" /\ pull[p].todo = {} /\ EndPull(p)
    /\ box' = IF box[pull[p].box] = "deleted" THEN box ELSE [box EXCEPT ![pull[p].box] = "connected"]
    /\ UNCHANGED <<sender, strays, stored, threads, read, troubles>>

PullThrows(p) ==
    /\ pull[p].pc \in {"next", "contact", "create", "identify", "thread", "open", "store", "touch"}
    /\ Trouble /\ EndPull(p)
    /\ strays' = IF pull[p].pc = "identify" THEN strays \union {Sender(p)} ELSE strays
    /\ UNCHANGED <<box, sender, stored, threads, read>>

(* Removing the account takes its threads and messages with it. *)
RemoveBox(b) ==
    /\ box[b] # "deleted" /\ box' = [box EXCEPT ![b] = "deleted"]
    /\ stored' = [m \in Mails |-> IF stored[m] = b THEN "none" ELSE stored[m]]
    /\ threads' = [t \in DOMAIN threads |-> IF t[1] = b THEN 0 ELSE threads[t]]
    /\ UNCHANGED <<sender, strays, read, pull, troubles>>

CheckHealth(b, status) ==
    /\ box[b] # "deleted" /\ box' = [box EXCEPT ![b] = status]
    /\ UNCHANGED <<sender, strays, stored, threads, read, pull, troubles>>

BlockSender(s) ==
    /\ sender[s] = "known" /\ sender' = [sender EXCEPT ![s] = "blocked"]
    /\ UNCHANGED <<box, strays, stored, threads, read, pull, troubles>>

MailNext ==
    \/ \E p \in Pulls : \/ \E b \in Boxes : StartPull(p, b)
                        \/ \E m \in Mails : NextMail(p, m)
                        \/ FindSender(p) \/ CreateSender(p) \/ IdentifySender(p)
                        \/ FindThread(p) \/ OpenThread(p) \/ StoreMail(p) \/ TouchThread(p)
                        \/ ReadFacts(p) \/ ReportHealth(p) \/ PullThrows(p)
    \/ \E b \in Boxes : RemoveBox(b) \/ \E status \in {"connected", "error"} : CheckHealth(b, status)
    \/ \E s \in Senders : BlockSender(s)

MailSpec == MailInit /\ [][MailNext]_mailVars

-------------------------------------------------------------------------------
(* "Idempotent on providerMessageId": while no mailbox was removed, a mail is *)
(* read for facts once at most, and only by the pull that stored it, however  *)
(* many pulls overlap and wherever they fail (ingestOne).                     *)
ReadOnce == (\A b \in Boxes : box[b] # "deleted") =>
    \A m \in Mails : read[m] <= 1 /\ (read[m] = 1 => stored[m] # "none")

(* "a user disconnecting a mailbox must leave nothing of it behind": pulls   *)
(* under way when the account goes store nothing for it afterwards.          *)
NothingLeftBehind ==
    \A b \in Boxes : box[b] = "deleted" =>
        /\ \A m \in Mails : stored[m] # b
        /\ \A s \in Senders : threads[<<b, s>>] = 0

(* A pull opens one thread at most with a sender, so a sender has as many   *)
(* threads in a box as pulls overlapped on the first mail, and later pulls  *)
(* add none (getOrCreateThread).                                            *)
ThreadPerPull == \A t \in Boxes \X Senders : threads[t] <= Cardinality(Pulls)

(* What holds of the mailboxes at every moment. *)
MailSafe == MailTypeOK /\ ReadOnce /\ ThreadPerPull /\ NothingLeftBehind

(* Why they hold: a pull takes a mail once, and the one that stored it is   *)
(* alone with it until it has read it.                                      *)
Handling(p) ==
    pull[p].pc \in {"contact", "create", "identify", "thread", "open", "store", "touch", "read"}
PlaceInv == \A p \in Pulls :
    /\ Pulling(p) => pull[p].box \in Boxes
    /\ Handling(p) => pull[p].mail \in Mails \ pull[p].todo

Reads(p) == pull[p].pc \in {"touch", "read"}
StoredInv == (\A b \in Boxes : box[b] # "deleted") =>
    /\ ReadOnce
    /\ \A p \in Pulls : Reads(p) => stored[pull[p].mail] # "none" /\ read[pull[p].mail] = 0
    /\ \A p, q \in Pulls : Reads(p) /\ Reads(q) /\ pull[p].mail = pull[q].mail => p = q

(* The pulls that may still read m. *)
Ahead(m) == {p \in Pulls : \/ pull[p].pc = "idle" \/ m \in pull[p].todo
                           \/ Handling(p) /\ pull[p].mail = m}
ReadsInv == \A m \in Mails : read[m] + Cardinality(Ahead(m)) <= Cardinality(Pulls)

(* The pulls that may still open thread t: once there is one, only those    *)
(* that looked before it was there.                                         *)
Opening(t) == {p \in Pulls : \/ pull[p].pc = "idle"
                             \/ /\ Pulling(p) /\ pull[p].box = t[1]
                                /\ threads[t] = 0 \/ (pull[p].pc = "open" /\ Sender(p) = t[2])}
ThreadsInv == \A t \in Boxes \X Senders : threads[t] + Cardinality(Opening(t)) <= Cardinality(Pulls)

MailInv == PlaceInv /\ StoredInv /\ ReadsInv /\ ThreadsInv /\ NothingLeftBehind

-------------------------------------------------------------------------------
(* What the documents say and the code does not keep. *)

(* "Pulls new mail for every connected mailbox": a message sent to two boxes *)
(* is stored for the first only, the id being unique over all of them.       *)
EveryBoxServed ==
    \A p \in Pulls, b \in Boxes : pull[p].pc = "next" /\ pull[p].todo = {} /\ pull[p].box = b =>
        \A m \in InBox[b] : stored[m] = b \/ sender[From[m]] = "blocked" \/ box[b] = "deleted"

(* "this is the actual reconciliation mechanism": two pulls that meet a new  *)
(* sender create two contacts, and one of them keeps no address.             *)
OneContactEach == strays = {}

(* getOrCreateThread by its name: two pulls open two threads with a sender.  *)
OneThreadEach == \A t \in Boxes \X Senders : threads[t] <= 1

(* "Each inbound e-mail is read for durable facts as it comes in": a failure *)
(* between the row and the extraction leaves a stored mail nobody reads.     *)
StoredIsRead == (\A p \in Pulls : ~Pulling(p)) => \A m \in Mails : stored[m] # "none" => read[m] > 0
===============================================================================
