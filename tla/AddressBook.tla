----------------------------- MODULE AddressBook -----------------------------
(***************************************************************************)
(* The contacts of one user in Mora and in Google, and what keeps the two  *)
(* in step.                                                                *)
(*   src/contacts/contact.service.ts, contacts.controller.ts   the book    *)
(*   src/google/google-contacts-sync.service.ts     Google -> Mora         *)
(*   src/google/google-contacts-push.service.ts     Mora -> Google         *)
(*   src/google/google-contacts-sync.processor.ts   both, every 30 minutes *)
(*   src/google/google-contacts-remote.processor.ts edits and deletions    *)
(* An identity is a normalised phone number or address. A run of the two   *)
(* synchronisations is the scheduled one or POST /google/contacts/sync.    *)
(***************************************************************************)
EXTENDS Integers, Sequences, FiniteSets

CONSTANTS Syncs,            \* runs that may overlap
          Remote,          \* the jobs the remote processor runs at a time (concurrency 2)
          Names,           \* real names
          Identities,
          InitialPeople,   \* what Google may hold at the start
          PAGE_SIZE, MAX_PAGES,    \* an import reads so many people at a time, so many times
          MAX_PER_RUN,     \* a push takes so many contacts
          MaxContacts, MaxPeople,
          MaxEdits,        \* bound on the user's requests
          MaxErrors        \* bound on failed writes and requests

Placeholder == "+241"      \* a number where a name should be (isPlaceholderName)
Nameless == "none"         \* a person of Google without a name

Contact == [name : Names \union {Placeholder}, ids : SUBSET Identities, link : Nat, gone : BOOLEAN]
CopyRow == [name : Names \union {Placeholder, Nameless}, ids : SUBSET Identities]
Person == [name : Names \union {Placeholder, Nameless}, ids : SUBSET Identities, gone : BOOLEAN, version : Nat]
RemoteJob == [op : {"update", "delete"}, person : Nat, name : Names \union {Placeholder}, ids : SUBSET Identities]

ASSUME BookConstants ==
    /\ {Placeholder, Nameless} \intersect Names = {} /\ {PAGE_SIZE, MAX_PAGES, MAX_PER_RUN} \subseteq Nat \ {0}
    /\ {MaxContacts, MaxPeople, MaxEdits, MaxErrors} \subseteq Nat
    /\ \A ps \in InitialPeople : ps \in Seq(Person)

VARIABLES
    book,        \* Mora; link is the Google person, 0 for none
    people,      \* Google
    sync,        \* sync[r]: where the run stands, the person or contact it is at, what it found, what is left
    reading,        \* reading[r]: the rows as it read them, the people on later pages, the identities to attach
    jobs,        \* the remote queue
    worker,      \* worker[w]: the job and the version it read
    edits, errors,
    met          \* two runs overlapped

bookVars == <<book, people, sync, reading, jobs, worker, edits, errors, met>>

(* clean: nothing went wrong, disturbed the run or was beyond its limits.    *)
AtStart == [pc |-> "idle", person |-> 0, found |-> 0, rename |-> FALSE, todo |-> {}, clean |-> TRUE]
Unread == [snap |-> <<>>, rest |-> {}, left |-> {}, page |-> 0]
FreeWorker == [pc |-> "idle", job |-> <<>>, version |-> 0]
Going(r) == sync[r].pc \notin {"idle", "done"}
Here == {i \in DOMAIN book : ~book[i].gone}
There == {g \in DOMAIN people : ~people[g].gone}
Owner(x) == {i \in Here : x \in book[i].ids}    \* findByIdentity

Importing == {"import", "same", "link", "rename", "create", "mark", "identify"}
RunSteps == {"idle", "push", "store", "done"} \union Importing
Run == [pc : RunSteps, person : Nat, found : Nat, rename : BOOLEAN, todo : SUBSET Nat, clean : BOOLEAN]
Reading == [snap : Seq(CopyRow), rest : SUBSET Nat, left : SUBSET Identities, page : 0..MAX_PAGES]
AsRead(rows) == [k \in DOMAIN rows |-> [name |-> rows[k].name, ids |-> rows[k].ids]]
Least(S, n) == {i \in S : Cardinality({j \in S : j < i}) < n}

BookTypeOK ==
    /\ book \in Seq(Contact) /\ people \in Seq(Person) /\ jobs \in Seq(RemoteJob)
    /\ sync \in [Syncs -> Run] /\ reading \in [Syncs -> Reading]
    /\ worker \in [Remote -> [pc : {"idle", "patch"}, job : RemoteJob \union {<<>>}, version : Nat]]
    /\ \A i \in DOMAIN book : book[i].link \in {0} \union DOMAIN people
    /\ \A x \in Identities : Cardinality(Owner(x)) <= 1
    /\ \A r \in Syncs : sync[r].found \in {0} \union DOMAIN book /\ sync[r].person \in {0} \union DOMAIN people
    /\ edits \in 0..MaxEdits /\ errors \in 0..MaxErrors /\ met \in BOOLEAN

BookInit ==
    /\ book = <<>> /\ people \in InitialPeople
    /\ sync = [r \in Syncs |-> AtStart] /\ reading = [r \in Syncs |-> Unread]
    /\ jobs = <<>> /\ worker = [w \in Remote |-> FreeWorker]
    /\ edits = 0 /\ errors = 0 /\ met = FALSE

Go(r, s) == sync' = [sync EXCEPT ![r] = s]
Retains(r, y) == reading' = [reading EXCEPT ![r] = y]
Mistake == errors < MaxErrors /\ errors' = errors + 1
(* The change meets a run, or comes after it: the books may differ now. *)
Disturbs == sync' = [r \in Syncs |-> IF sync[r].pc = "idle" THEN sync[r] ELSE [sync[r] EXCEPT !.clean = FALSE]]

-------------------------------------------------------------------------------
(* The user and ContactsController *)

Edit == edits < MaxEdits /\ edits' = edits + 1 /\ Disturbs /\ UNCHANGED <<people, reading, worker, errors, met>>

CreateContact(name) ==
    /\ Len(book) < MaxContacts
    /\ book' = Append(book, [name |-> name, ids |-> {}, link |-> 0, gone |-> FALSE])
    /\ Edit /\ UNCHANGED jobs

(* update, addIdentity and removeIdentity; mirrorToGoogle then queues the   *)
(* contact as it is now, if it is in Google.                                *)
ChangeContact(i, c) ==
    /\ book' = [book EXCEPT ![i] = c]
    /\ jobs' = IF c.link = 0 THEN jobs
               ELSE Append(jobs, [op |-> "update", person |-> c.link, name |-> c.name, ids |-> c.ids])
    /\ Edit

UpdateContact(i, name) == ChangeContact(i, [book[i] EXCEPT !.name = name])

(* An identity of another contact is a conflict. *)
AddIdentity(i, x) == Owner(x) \subseteq {i} /\ ChangeContact(i, [book[i] EXCEPT !.ids = @ \union {x}])

RemoveIdentity(i, x) == x \in book[i].ids /\ ChangeContact(i, [book[i] EXCEPT !.ids = @ \ {x}])

RemoveContact(i) ==
    /\ book' = [book EXCEPT ![i] = [@ EXCEPT !.gone = TRUE, !.ids = {}]]
    /\ jobs' = IF book[i].link = 0 THEN jobs
               ELSE Append(jobs, [op |-> "delete", person |-> book[i].link, name |-> Placeholder, ids |-> {}])
    /\ Edit

-------------------------------------------------------------------------------
(* GoogleContactsSyncService.sync: page after page, one person after another *)

StartRun(r) ==
    /\ sync[r].pc = "idle" /\ Go(r, [AtStart EXCEPT !.pc = "import"]) /\ Retains(r, [Unread EXCEPT !.rest = There])
    /\ met' = (met \/ \E s \in Syncs : Going(s))
    /\ UNCHANGED <<book, people, jobs, worker, edits, errors>>

(* Google lists the people that were there when the listing began, in an    *)
(* order of its own.                                                        *)
ReadPage(r) ==
    /\ sync[r].pc = "import" /\ sync[r].todo = {} /\ reading[r].rest # {} /\ reading[r].page < MAX_PAGES
    /\ \E listed \in SUBSET reading[r].rest :
        /\ Cardinality(listed) = PAGE_SIZE \/ (listed = reading[r].rest /\ Cardinality(listed) < PAGE_SIZE)
        /\ Go(r, [sync[r] EXCEPT !.todo = listed \intersect There])
        /\ Retains(r, [reading[r] EXCEPT !.page = @ + 1, !.rest = @ \ listed, !.snap = AsRead(people)])
    /\ UNCHANGED <<book, people, jobs, worker, edits, errors, met>>

Linked(g) == {i \in Here : book[i].link = g}
SameName(e) == IF e.ids # {} THEN {}
               ELSE {i \in Here : book[i].name = e.name /\ book[i].link = 0 /\ book[i].ids = {}}
Known(e) == UNION {Owner(x) : x \in e.ids}

(* Who the person is: skipped without a name or when linked already;        *)
(* recognised by name without a phone or address, else by an identity; new. *)
Meets(r, g, linked) ==
    LET e == reading[r].snap[g]
        At(pc, i) == [sync[r] EXCEPT !.pc = pc, !.person = g, !.found = i, !.todo = @ \ {g}]
    IN
    \/ (e.name = Nameless \/ linked # {}) /\ Go(r, [sync[r] EXCEPT !.todo = @ \ {g}])
    \/ /\ e.name # Nameless /\ linked = {}
       /\ \/ \E i \in SameName(e) : Go(r, At("same", i))
          \/ /\ SameName(e) = {}
             /\ \E i \in Known(e) : Go(r, [At("link", i) EXCEPT !.rename = book[i].name = Placeholder])
          \/ SameName(e) \union Known(e) = {} /\ Go(r, At("create", sync[r].found))

(* Mutant: the recorded resource name is not looked for. *)
RecogniseUnlinked(r, g) ==
    /\ sync[r].pc = "import" /\ g \in sync[r].todo /\ Meets(r, g, {})
    /\ UNCHANGED <<book, people, reading, jobs, worker, edits, errors, met>>

Recognise(r, g) ==
    /\ sync[r].pc = "import" /\ g \in sync[r].todo /\ Meets(r, g, Linked(g))
    /\ UNCHANGED <<book, people, reading, jobs, worker, edits, errors, met>>

(* A write to a contact that is gone throws and ends the run. *)
Stop(r) == Go(r, [AtStart EXCEPT !.pc = "done", !.clean = FALSE])
OnContact(r, i, change, pc) ==
    /\ IF book[i].gone THEN Stop(r) /\ UNCHANGED book
       ELSE book' = [book EXCEPT ![i] = change] /\ Go(r, [sync[r] EXCEPT !.pc = pc, !.found = i])
    /\ UNCHANGED <<people, reading, jobs, worker, edits, errors, met>>

LinkSameName(r) ==
    LET i == sync[r].found IN
    sync[r].pc = "same" /\ OnContact(r, i, [book[i] EXCEPT !.link = sync[r].person], "import")

(* updateMany on the unlinked contact: no error when it is linked or gone. *)
LinkKnown(r) ==
    LET i == sync[r].found IN
    /\ sync[r].pc = "link"
    /\ book' = IF book[i].gone \/ book[i].link # 0 THEN book
                   ELSE [book EXCEPT ![i].link = sync[r].person]
    /\ Go(r, [sync[r] EXCEPT !.pc = IF sync[r].rename THEN "rename" ELSE "import"])
    /\ UNCHANGED <<people, reading, jobs, worker, edits, errors, met>>

(* The name was a placeholder when the contact was read. *)
FillName(r) ==
    LET i == sync[r].found IN
    /\ sync[r].pc = "rename"
    /\ OnContact(r, i, [book[i] EXCEPT !.name = reading[r].snap[sync[r].person].name], "import")

ImportPerson(r) ==
    /\ sync[r].pc = "create" /\ Len(book) < MaxContacts
    /\ book' = Append(book, [name |-> reading[r].snap[sync[r].person].name, ids |-> {}, link |-> 0, gone |-> FALSE])
    /\ Go(r, [sync[r] EXCEPT !.pc = "mark", !.found = Len(book) + 1])
    /\ Retains(r, [reading[r] EXCEPT !.left = reading[r].snap[sync[r].person].ids])
    /\ UNCHANGED <<people, jobs, worker, edits, errors, met>>

MarkImported(r) ==
    LET i == sync[r].found IN
    sync[r].pc = "mark" /\ OnContact(r, i, [book[i] EXCEPT !.link = sync[r].person],
                                     IF reading[r].left = {} THEN "import" ELSE "identify")

(* addIdentity, one awaited call after the other: when the contact is gone   *)
(* or another one has taken the identity, it throws and the rest is lost.    *)
IdentifyImported(r, x) ==
    LET i == sync[r].found IN
    /\ sync[r].pc = "identify" /\ x \in reading[r].left /\ Retains(r, [reading[r] EXCEPT !.left = @ \ {x}])
    /\ IF book[i].gone \/ Owner(x) \ {i} # {} THEN Stop(r) /\ UNCHANGED book
       ELSE /\ book' = [book EXCEPT ![i].ids = @ \union {x}]
            /\ Go(r, [sync[r] EXCEPT !.pc = IF reading[r].left = {x} THEN "import" ELSE "identify"])
    /\ UNCHANGED <<people, jobs, worker, edits, errors, met>>

-------------------------------------------------------------------------------
(* GoogleContactsPushService.push *)

(* The oldest contacts without a resource name, read once; a number for a   *)
(* name takes a place among them and stays.                                 *)
Pending == {i \in Here : book[i].link = 0}
StartPush(r) ==
    LET taken == Least(Pending, MAX_PER_RUN) IN
    /\ sync[r].pc = "import" /\ sync[r].todo = {} /\ (reading[r].rest = {} \/ reading[r].page = MAX_PAGES)
    /\ Go(r, [sync[r] EXCEPT !.pc = "push", !.todo = {i \in taken : book[i].name # Placeholder},
                             !.clean = @ /\ reading[r].rest = {} /\ taken = Pending])
    /\ Retains(r, [reading[r] EXCEPT !.snap = AsRead(book), !.rest = {}])
    /\ UNCHANGED <<book, people, jobs, worker, edits, errors, met>>

(* createContact at Google, of the contact as it was read. *)
PushContact(r, i) ==
    /\ sync[r].pc = "push" /\ i \in sync[r].todo /\ Len(people) < MaxPeople
    /\ LET e == reading[r].snap[i] IN
       people' = Append(people, [name |-> e.name, ids |-> e.ids, gone |-> FALSE, version |-> 0])
    /\ Go(r, [sync[r] EXCEPT !.pc = "store", !.person = Len(people) + 1, !.found = i, !.todo = @ \ {i}])
    /\ UNCHANGED <<book, reading, jobs, worker, edits, errors, met>>

(* The update that remembers the resource name, without a condition; the    *)
(* contact may be gone.                                                     *)
StoreLink(r) ==
    /\ sync[r].pc = "store" /\ Go(r, [sync[r] EXCEPT !.pc = "push"])
    /\ book' = IF book[sync[r].found].gone THEN book
                   ELSE [book EXCEPT ![sync[r].found].link = sync[r].person]
    /\ UNCHANGED <<people, reading, jobs, worker, edits, errors, met>>

EndRun(r) ==
    /\ sync[r].pc = "push" /\ sync[r].todo = {} /\ Go(r, [AtStart EXCEPT !.pc = "done", !.clean = sync[r].clean])
    /\ UNCHANGED <<book, people, reading, jobs, worker, edits, errors, met>>

(* In the import a failure ends the run, in the push it costs one contact.  *)
RunFails(r) ==
    /\ Going(r) /\ Mistake
    /\ CASE sync[r].pc = "push" -> \E i \in sync[r].todo : Go(r, [sync[r] EXCEPT !.todo = @ \ {i}, !.clean = FALSE])
         [] sync[r].pc = "store" -> Go(r, [sync[r] EXCEPT !.pc = "push", !.clean = FALSE])
         [] OTHER -> Stop(r)
    /\ UNCHANGED <<book, people, reading, jobs, worker, edits, met>>

-------------------------------------------------------------------------------
(* GoogleContactsRemoteProcessor *)

TakeRemoteJob(w) ==
    /\ worker[w].pc = "idle" /\ jobs # <<>> /\ jobs' = Tail(jobs)
    /\ LET j == Head(jobs) IN
       IF people[j.person].gone THEN UNCHANGED <<worker, people, sync>>
       ELSE IF j.op = "delete"
       THEN people' = [people EXCEPT ![j.person].gone = TRUE] /\ Disturbs /\ UNCHANGED worker
       ELSE worker' = [worker EXCEPT ![w] = [pc |-> "patch", job |-> j, version |-> people[j.person].version]]
            /\ UNCHANGED <<people, sync>>
    /\ UNCHANGED <<book, reading, edits, errors, met>>

(* Google refuses a patch with an old etag; the job comes back later.       *)
PatchPerson(w) ==
    LET j == worker[w].job IN
    /\ worker[w].pc = "patch" /\ worker' = [worker EXCEPT ![w] = FreeWorker]
    /\ IF people[j.person].gone \/ people[j.person].version # worker[w].version
       THEN jobs' = Append(jobs, j) /\ UNCHANGED <<people, sync>>
       ELSE /\ people' = [people EXCEPT ![j.person] = [name |-> j.name, ids |-> j.ids, gone |-> FALSE, version |-> @.version + 1]]
            /\ Disturbs /\ UNCHANGED jobs
    /\ UNCHANGED <<book, reading, edits, errors, met>>

BookNext ==
    \/ \E name \in Names \union {Placeholder} : CreateContact(name)
    \/ \E i \in Here : \/ RemoveContact(i)
                       \/ \E name \in Names : UpdateContact(i, name)
                       \/ \E x \in Identities : AddIdentity(i, x) \/ RemoveIdentity(i, x)
    \/ \E r \in Syncs :
        \/ StartRun(r) \/ ReadPage(r) \/ LinkSameName(r) \/ LinkKnown(r) \/ FillName(r) \/ ImportPerson(r) \/ MarkImported(r)
        \/ StartPush(r) \/ StoreLink(r) \/ EndRun(r) \/ RunFails(r)
        \/ \E g \in DOMAIN people : Recognise(r, g)
        \/ \E x \in Identities : IdentifyImported(r, x)
        \/ \E i \in DOMAIN book : PushContact(r, i)
    \/ \E w \in Remote : TakeRemoteJob(w) \/ PatchPerson(w)

BookSpec == BookInit /\ [][BookNext]_bookVars

-------------------------------------------------------------------------------
(* "A contact is pushed once ... the next run and the next pull never         *)
(* duplicate it": as long as runs do not overlap, no two contacts of Mora are *)
(* linked to one person of Google, whatever fails, is edited or deleted.      *)
LinkedOnce == ~met => \A i, j \in Here : i # j /\ book[i].link # 0 => book[i].link # book[j].link

(* "Keeps Google and Mora's contact books in step": after a run that nothing *)
(* disturbed and that met neither the limit of an import nor that of a push, *)
(* every person of Google with a name is a contact, by link or by identity,  *)
(* and every contact with a name is in Google.                               *)
AgreeOn(g) == Linked(g) \union Known(people[g]) # {} \/ people[g].name = Nameless
Agreement == (\A g \in There : AgreeOn(g)) /\ \A i \in Here : book[i].link # 0 \/ book[i].name = Placeholder
InStep == \A r \in Syncs : sync[r].pc = "done" /\ sync[r].clean /\ ~met => Agreement

(* Without failures and overlapping runs a contact is never created at Google *)
(* twice: no two people exist because of the same contact.                    *)
PushedOnce ==
    ~met /\ errors = 0 => \A r \in Syncs : sync[r].pc = "store" => book[sync[r].found].link = 0

(* What holds of the two books at every moment. *)
BookSafe == BookTypeOK /\ LinkedOnce /\ InStep /\ PushedOnce

(* Why it holds. An identity has one owner; what is under way names what     *)
(* exists.                                                                   *)
OwnedOnce == \A i, j \in Here : i # j => book[i].ids \intersect book[j].ids = {}
Named ==
    /\ \A r \in Syncs :
        /\ sync[r].pc \in {"same", "link", "rename", "mark", "identify", "store"} => sync[r].found # 0
        /\ sync[r].pc \in {"same", "link", "create", "rename", "mark", "identify", "store"} => sync[r].person # 0
        /\ sync[r].pc \in {"link", "create", "rename"} =>
                sync[r].person \in DOMAIN reading[r].snap /\ reading[r].snap[sync[r].person].name # Nameless
        /\ sync[r].pc \in Importing => sync[r].todo \union reading[r].rest \subseteq DOMAIN people
        /\ sync[r].pc \in {"push", "store"} => sync[r].todo \subseteq DOMAIN book
        /\ sync[r].todo \subseteq DOMAIN reading[r].snap
    /\ \A k \in DOMAIN jobs : jobs[k].person \in DOMAIN people
    /\ \A w \in Remote : worker[w].pc = "patch" => worker[w].job \in RemoteJob /\ worker[w].job.person \in DOMAIN people

(* A run that meets no other finds the links as it left them.                *)
LinksStay(x) ==
    /\ x.pc \in {"same", "link", "create", "mark", "store"} => Linked(x.person) = {}
    /\ x.pc \in {"same", "mark", "store"} => book[x.found].link = 0
    /\ x.pc \in {"push", "store"} => \A i \in x.todo : book[i].link = 0 /\ (x.pc = "store" => i # x.found)
    /\ x.pc = "rename" /\ ~book[x.found].gone => book[x.found].link # 0

(* Undisturbed, what it has read is so, and it has dealt with every person   *)
(* and contact that it does not still have to do.                            *)
AsFound(x, y) ==
    x.pc \in Importing =>
        \A g \in x.todo : g \in There /\ y.snap[g].name = people[g].name /\ y.snap[g].ids = people[g].ids
Progress(x, y) ==
    /\ x.pc \in Importing => \A g \in There : \/ g \in x.todo \union y.rest \/ AgreeOn(g)
                                             \/ (x.pc \in {"same", "create", "mark"} /\ g = x.person)
    /\ x.pc \in {"push", "store"} =>
        /\ x.todo \subseteq Here /\ \A g \in There : AgreeOn(g) \/ (x.pc = "store" /\ g = x.person)
        /\ \A i \in Here : book[i].link # 0 \/ book[i].name = Placeholder \/ i \in x.todo
                        \/ (x.pc = "store" /\ i = x.found)
    /\ x.pc = "store" => x.found \in Here

(* A run after one at whose end the books agreed has little to do.           *)
LittleToDo(x) ==
    /\ x.pc \in {"import", "link", "rename", "push"}
    /\ x.pc = "push" => x.todo = {}

RunsInv ==
    ~met => \A r \in Syncs : LET x == sync[r] IN
        /\ LinksStay(x) /\ (x.clean => AsFound(x, reading[r]) /\ Progress(x, reading[r]))
        /\ \A q \in Syncs : Going(r) /\ Going(q) => q = r
        /\ \A q \in Syncs : Going(r) /\ sync[q].pc = "done" /\ sync[q].clean => LittleToDo(x) /\ AsFound(x, reading[r])
BookInv == OwnedOnce /\ Named /\ RunsInv /\ LinkedOnce /\ InStep

-------------------------------------------------------------------------------
(* What the documents say and the code does not keep. *)

(* "never overwrite a name the user set": the user renames the contact       *)
(* between the look at its name and the write.                               *)
NamesKept ==
    [][\A i \in DOMAIN book : book'[i].name # book[i].name /\ edits' = edits
            => book[i].name = Placeholder]_bookVars

(* A contact the user deleted comes back when a run meets its person before  *)
(* the remote job deletes it.                                                *)
DeletedStaysAway ==
    \A i, j \in DOMAIN book : book[i].gone /\ book[i].link # 0 /\ j > i => book[j].link # book[i].link

(* "a repeated run never duplicates anyone": an import fails before it has   *)
(* stored the resource name of the contact it made, which is then pushed as  *)
(* a person of its own.                                                      *)
NobodyTwice == [][edits = 0 => people' = people]_bookVars

(* The books are not in step after a run that met a limit: a person beyond   *)
(* the last page is never a contact, and contacts without a name keep the    *)
(* places of a push.                                                         *)
InStepAlways == \A r \in Syncs : sync[r].pc = "done" /\ edits + errors = 0 /\ ~met => Agreement
===============================================================================
