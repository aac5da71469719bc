------------------------------ MODULE AiProviders ------------------------------
(***************************************************************************)
(* The providers of one kind that users (BYOK) and administrators (SYSTEM) *)
(* configure, and the calls that are answered through them.                *)
(*   src/ai-providers/ai-provider.service.ts     rows, transactions, choice*)
(*   src/ai-providers/ai-model-selector.service.ts                         *)
(*   src/llm/llm.service.ts, src/embedding/embedding.service.ts   the calls*)
(* A transaction is READ COMMITTED: it reads rows, and its writes are seen *)
(* by the others when it commits. A patch is the record of the columns a   *)
(* request gives.                                                          *)
(***************************************************************************)
EXTENDS Integers, Sequences, FiniteSets

CONSTANTS AiUsers, System,     \* owners: users, and the owner null of SYSTEM rows
          AiRequests,          \* concurrent requests to the provider routes
          AiCalls,             \* concurrent completions or embeddings
          InitialRows,         \* the rows some earlier requests may have left
          NewRows, Patches,    \* what a create may give and an update may change
          MaxProviders,        \* no create begins with that many rows
          EnvConfigured        \* OPENAI_API_KEY is set

Owners == AiUsers \union {System}
Scopes == {"none", "s"}
Spaces == {"none", "p"}

(* The columns a request may give, and a row. *)
Column == [scope |-> Scopes, space |-> Spaces, isActive |-> BOOLEAN, isDefault |-> BOOLEAN, prio |-> Int,
           adapter |-> BOOLEAN, legible |-> BOOLEAN, deleted |-> BOOLEAN]
Provider == [owner : Owners, scope : Scopes, space : Spaces, isActive : BOOLEAN, isDefault : BOOLEAN, prio : Int,
             adapter : BOOLEAN, legible : BOOLEAN, deleted : BOOLEAN]
Tier(p) == <<p.owner, p.scope, p.space>>

(* ai_providers_one_default_per_kind_scope_space, a partial unique index.   *)
OneDefault(rows) ==
    \A i, j \in DOMAIN rows : /\ i # j /\ rows[i].isDefault /\ rows[j].isDefault
                               /\ ~rows[i].deleted /\ ~rows[j].deleted => Tier(rows[i]) # Tier(rows[j])

ASSUME AiConstants ==
    /\ System \notin AiUsers /\ MaxProviders \in Nat /\ EnvConfigured \in BOOLEAN
    /\ \A rows \in InitialRows : rows \in Seq(Provider) /\ Len(rows) <= MaxProviders /\ OneDefault(rows)
    /\ NewRows \subseteq Provider
    /\ \A patch \in Patches : /\ DOMAIN patch \subseteq DOMAIN Column
                               /\ \A c \in DOMAIN patch : patch[c] \in Column[c]

VARIABLES
    providers,   \* the rows, oldest first
    request,     \* request[r]: where it stands, its owner, row, patch and the defaults it unsets
    llm,         \* llm[c]: where it stands, its user, the row it chose, what came of it
    coincided    \* two requests were under way at once, or one moved a default onto another

aiVars == <<providers, request, llm, coincided>>

NoRequest == [pc |-> "idle", owner |-> System, row |-> 0, patch |-> <<>>, tier |-> <<>>, unset |-> {}]
Ended(pc) == [NoRequest EXCEPT !.pc = pc]
UnderWay(r) == request[r].pc \in {"unset", "commit", "test"}
Ids == DOMAIN providers
(* An update sets the columns it is given and leaves the others alone. *)
Patched(patch, row) == [c \in DOMAIN row |-> IF c \in DOMAIN patch THEN patch[c] ELSE row[c]]

(* Where a request and a call stand, with n rows. *)
Places == {"idle", "unset", "commit", "test", "done", "failed", "refused"}
Given == Patches \union Provider \union {<<>>}
TierKeys == {<<>>} \union (Owners \X Scopes \X Spaces)
Request(n) == [pc : Places, owner : Owners, row : 0..n, patch : Given, tier : TierKeys, unset : SUBSET (1..n)]
Call(n) == [pc : {"idle", "call", "log", "env", "done"}, user : Owners, row : 0..n, sent : SUBSET (0..n),
            returned : BOOLEAN, answer : {"none", "content", "failed", "unconfigured", "thrown"}]

AiTypeOK ==
    /\ providers \in Seq(Provider)
    /\ request \in [AiRequests -> Request(Len(providers))]
    /\ llm \in [AiCalls -> Call(Len(providers))]
    /\ coincided \in BOOLEAN

AiInit ==
    /\ providers \in InitialRows
    /\ request = [r \in AiRequests |-> NoRequest]
    /\ llm = [c \in AiCalls |-> [pc |-> "idle", user |-> System, row |-> 0,
                                 sent |-> {}, returned |-> FALSE, answer |-> "none"]]
    /\ coincided = FALSE

-------------------------------------------------------------------------------
(* Requests to the provider routes *)

Start(r, q) ==
    /\ request[r].pc = "idle" /\ request' = [request EXCEPT ![r] = q]
    /\ coincided' = (coincided \/ \E s \in AiRequests : UnderWay(s))
    /\ UNCHANGED <<providers, llm>>

(* create: the key is encrypted, the transaction has not begun. *)
CreateProvider(r, owner, p) ==
    /\ Len(providers) < MaxProviders
    /\ Start(r, [Ended("unset") EXCEPT !.owner = owner, !.patch = [p EXCEPT !.owner = owner],
                                       !.tier = <<owner, p.scope, p.space>>])

GetOwnedRow(owner, i) == ~providers[i].deleted /\ providers[i].owner = owner

(* update, enable, disable, setDefault and delete of row i, as it is read.  *)
ChangeProvider(r, owner, i, patch) ==
    Start(r, IF ~GetOwnedRow(owner, i) THEN Ended("failed")
             ELSE [Ended("unset") EXCEPT !.owner = owner, !.row = i, !.patch = patch,
                                         !.tier = Tier(Patched(patch, providers[i]))])

(* testConnection: a key that cannot be decrypted throws before the ping.   *)
TestConnection(r, owner, i) ==
    Start(r, IF ~GetOwnedRow(owner, i) \/ ~providers[i].legible THEN Ended("failed")
             ELSE [Ended("test") EXCEPT !.owner = owner, !.row = i])

(* The owner's other defaults in a tier, which is the one of the row as     *)
(* getOwnedRow read it, before the transaction; an update's own scope and   *)
(* space win.                                                               *)
Siblings(tier, except) ==
    {j \in Ids \ {except} : ~providers[j].deleted /\ providers[j].isDefault /\ Tier(providers[j]) = tier}

MakesDefault(q) == "isDefault" \in DOMAIN q.patch /\ q.patch.isDefault

UnsetSiblingDefaults(r) ==
    LET q == request[r] IN
    /\ q.pc = "unset"
    /\ request' = [request EXCEPT ![r].pc = "commit",
                   ![r].unset = IF MakesDefault(q) THEN Siblings(q.tier, q.row) ELSE {}]
    /\ UNCHANGED <<providers, llm, coincided>>

MovesDefault(q) == /\ q.row # 0 /\ ~MakesDefault(q) /\ providers[q.row].isDefault
                   /\ Tier(Patched(q.patch, providers[q.row])) # Tier(providers[q.row])
WithoutDefaults(ids) == [j \in Ids |-> IF j \in ids THEN [providers[j] EXCEPT !.isDefault = FALSE] ELSE providers[j]]

Written(q, rows) == IF q.row = 0 THEN Append(rows, q.patch) ELSE [rows EXCEPT ![q.row] = Patched(q.patch, @)]

(* The write of the transaction and its commit. A row deleted meanwhile or  *)
(* a second default rolls it back.                                          *)
Commit(r, kept) ==
    LET q == request[r] IN
    /\ q.pc = "commit"
    /\ IF q.row # 0 /\ providers[q.row].deleted
       THEN request' = [request EXCEPT ![r] = Ended("failed")] /\ UNCHANGED <<providers, coincided>>
       ELSE IF ~OneDefault(Written(q, kept))
       THEN /\ request' = [request EXCEPT ![r] = Ended("refused")] /\ UNCHANGED providers
            /\ coincided' = (coincided \/ MovesDefault(q))
       ELSE /\ request' = [request EXCEPT ![r] = Ended("done")] /\ providers' = Written(q, kept)
            /\ UNCHANGED coincided
    /\ UNCHANGED llm

(* Mutant: the siblings keep their flag. *)
CommitAddsDefault(r) == Commit(r, providers)

CommitProvider(r) == Commit(r, WithoutDefaults(request[r].unset))

(* testConnection stores what became of the ping, whoever edited the row.   *)
StoreTest(r) ==
    /\ request[r].pc = "test"
    /\ request' = [request EXCEPT ![r] = Ended(IF providers[request[r].row].deleted THEN "failed" ELSE "done")]
    /\ UNCHANGED <<providers, llm, coincided>>

(* A write fails, or there is no key to encrypt with. *)
RequestFails(r) ==
    /\ UnderWay(r) /\ request' = [request EXCEPT ![r] = Ended("failed")]
    /\ UNCHANGED <<providers, llm, coincided>>

-------------------------------------------------------------------------------
(* selectProviderRow: pools, tiers within a pool, order within a tier *)

Candidates == {i \in Ids : ~providers[i].deleted /\ providers[i].isActive}
Pools(user) == << {i \in Candidates : providers[i].owner = user},
                  {i \in Candidates : providers[i].owner = System} >>
Tiers(pool, p) ==
    << {i \in pool : providers[i].scope = p.scope /\ providers[i].space = p.space /\ p # [scope |-> "none", space |-> "none"]},
       {i \in pool : providers[i].scope = p.scope /\ providers[i].space = "none" /\ p.scope # "none"},
       {i \in pool : providers[i].scope = "none" /\ providers[i].space = "none"} >>

Before(i, j) ==
    IF providers[i].isDefault # providers[j].isDefault THEN providers[i].isDefault
    ELSE IF providers[i].prio # providers[j].prio THEN providers[i].prio > providers[j].prio
    ELSE i <= j

First(sets) == LET full == {k \in DOMAIN sets : sets[k] # {}}
               IN IF full = {} THEN {} ELSE sets[CHOOSE k \in full : \A l \in full : k <= l]

SelectProviderRow(user, p) ==
    LET tier == First(Tiers(Pools(user)[1], p) \o Tiers(Pools(user)[2], p))
    IN  IF tier = {} THEN 0 ELSE CHOOSE i \in tier : \A j \in tier : Before(i, j)

-------------------------------------------------------------------------------
(* LlmService.complete and EmbeddingService.embed *)

Params == [scope : Scopes, space : Spaces]

(* selectProvider and its adapter. The connection is a copy: the row may    *)
(* change after it. A key that cannot be decrypted throws out of complete;  *)
(* without a row or an adapter the environment serves.                      *)
CompleteRequest(c, u, p) ==
    LET i == SelectProviderRow(u, p) IN
    /\ llm[c].pc = "idle"
    /\ llm' = [llm EXCEPT ![c] =
                IF i # 0 /\ ~providers[i].legible THEN [@ EXCEPT !.pc = "done", !.answer = "thrown"]
                ELSE IF i # 0 /\ providers[i].adapter THEN [@ EXCEPT !.pc = "call", !.user = u, !.row = i]
                ELSE [@ EXCEPT !.pc = "env", !.user = u]]
    /\ UNCHANGED <<providers, request, coincided>>

(* adapter.complete or adapter.embed: the provider answers or throws. *)
CallAdapter(c) ==
    /\ llm[c].pc = "call"
    /\ \E ok \in BOOLEAN : llm' = [llm EXCEPT ![c].pc = "log", ![c].sent = @ \union {llm[c].row}, ![c].returned = ok]
    /\ UNCHANGED <<providers, request, coincided>>

(* LlmCallLogger.log swallows its own failure. *)
LogCall(c) ==
    /\ llm[c].pc = "log"
    /\ llm' = [llm EXCEPT ![c].pc = "done", ![c].answer = IF llm[c].returned THEN "content" ELSE "failed"]
    /\ UNCHANGED <<providers, request, coincided>>

CallEnv(c) ==
    /\ llm[c].pc = "env"
    /\ IF ~EnvConfigured THEN llm' = [llm EXCEPT ![c].pc = "done", ![c].answer = "unconfigured"]
       ELSE \E ok \in BOOLEAN : llm' = [llm EXCEPT ![c].pc = "done", ![c].sent = @ \union {0},
                                        ![c].returned = ok, ![c].answer = IF ok THEN "content" ELSE "failed"]
    /\ UNCHANGED <<providers, request, coincided>>

(* embed goes through the same steps with the embedding adapters, and an    *)
(* EMBEDDING_PROVIDER of its own.                                           *)
Embed(c, u, p) == CompleteRequest(c, u, p)
EmbedEnv(c) == CallEnv(c)

AiNext ==
    \/ \E r \in AiRequests, owner \in Owners :
        \/ \E p \in NewRows : CreateProvider(r, owner, p)
        \/ \E i \in Ids : TestConnection(r, owner, i) \/ \E patch \in Patches : ChangeProvider(r, owner, i, patch)
    \/ \E r \in AiRequests : UnsetSiblingDefaults(r) \/ CommitProvider(r) \/ StoreTest(r) \/ RequestFails(r)
    \/ \E c \in AiCalls : \/ \E u \in AiUsers, p \in Params : CompleteRequest(c, u, p) \/ Embed(c, u, p)
                          \/ CallAdapter(c) \/ LogCall(c) \/ CallEnv(c) \/ EmbedEnv(c)

AiSpec == AiInit /\ [][AiNext]_aiVars

-------------------------------------------------------------------------------

(* Making a row the default never fails on the index: as long as requests   *)
(* come one at a time, whatever the owner, the scope and the row, its        *)
(* siblings have lost the flag first (an update that only moves a default to *)
(* another scope clears no one and is left out).                             *)
DefaultsInTurn == ~coincided => \A r \in AiRequests : request[r].pc # "refused"

Specificity(i, p) ==
    IF p # [scope |-> "none", space |-> "none"] /\ providers[i].scope = p.scope /\ providers[i].space = p.space THEN 3
    ELSE IF p.scope # "none" /\ providers[i].scope = p.scope /\ providers[i].space = "none" THEN 2
    ELSE IF providers[i].scope = "none" /\ providers[i].space = "none" THEN 1 ELSE 0

(* The rule of getProviderForUseCase, as an order: whatever rows the         *)
(* requests leave, the row chosen is active, of the user or SYSTEM, and      *)
(* nothing eligible is better in ownership, then specificity, then the       *)
(* default flag, then priority, then age.                                    *)
BestProvider ==
    \A u \in AiUsers, p \in Params :
        LET best == SelectProviderRow(u, p)
            eligible == {i \in Candidates : providers[i].owner \in {u, System} /\ Specificity(i, p) > 0}
            Key(i) == << IF providers[i].owner = u THEN 1 ELSE 0, Specificity(i, p),
                         IF providers[i].isDefault THEN 1 ELSE 0, providers[i].prio, -i >>
            Less(a, b) == \E k \in 1..5 : a[k] < b[k] /\ \A l \in 1..(k - 1) : a[l] = b[l]
        IN  IF eligible = {} THEN best = 0
            ELSE best \in eligible /\ \A j \in eligible \ {best} : Less(Key(j), Key(best))

(* A prompt reaches one provider, of its user or of SYSTEM, or the one of   *)
(* the environment: rows changed under a call, and failures, send it to no  *)
(* second one.                                                              *)
PromptStays ==
    \A c \in AiCalls : /\ Cardinality(llm[c].sent) <= 1
                       /\ \A i \in llm[c].sent \ {0} : providers[i].owner \in {llm[c].user, System}

(* What the provider returned is what the caller gets, whatever becomes of  *)
(* the record of the call (LlmCallLogger.log inside the try of complete).   *)
AnswerKept == \A c \in AiCalls : llm[c].pc = "done" /\ llm[c].returned => llm[c].answer = "content"

(* What holds of the providers and the calls at every moment. *)
AiSafe == AiTypeOK /\ DefaultsInTurn /\ BestProvider /\ PromptStays /\ AnswerKept

(* Why they hold. A request has a row to change or a row to add; as long as *)
(* it is alone, what it read of its row and of the defaults beside it is so.*)
Sound(q) ==
    /\ q.pc \in {"unset", "commit"} => IF q.row = 0 THEN q.patch \in Provider ELSE q.patch \in Patches
    /\ q.pc = "test" => q.row # 0
Current(q) ==
    /\ q.pc \in {"unset", "commit"} =>
        IF q.row = 0 THEN q.tier = Tier(q.patch)
        ELSE ~providers[q.row].deleted /\ q.tier = Tier(Patched(q.patch, providers[q.row]))
    /\ q.pc = "commit" => q.unset = IF MakesDefault(q) THEN Siblings(q.tier, q.row) ELSE {}
RequestInv ==
    /\ OneDefault(providers) /\ \A r \in AiRequests : Sound(request[r])
    /\ ~coincided => /\ \A r, s \in AiRequests : UnderWay(r) /\ UnderWay(s) => r = s
                     /\ \A r \in AiRequests : Current(request[r]) /\ request[r].pc # "refused"

(* A call knows one row, or the environment, and has sent to no other.      *)
Bound(l) ==
    /\ l.sent \subseteq {l.row} /\ (l.row # 0 => providers[l.row].owner \in {l.user, System})
    /\ l.pc \in {"idle", "env"} => l.row = 0
    /\ l.pc \in {"idle", "call", "env"} => l.sent = {} /\ ~l.returned
    /\ l.pc \in {"call", "log"} => l.row # 0
    /\ l.pc = "done" /\ l.returned => l.answer = "content"
AiInv == RequestInv /\ \A c \in AiCalls : Bound(llm[c])

-------------------------------------------------------------------------------
(* What the documents say and the code does not keep. *)

(* "Never throws for a missing/misconfigured provider": a key stored under  *)
(* another MORA_ENCRYPTION_KEY throws in toConnection, outside the try.     *)
NeverThrows == \A c \in AiCalls : llm[c].answer # "thrown"

(* getStatus: "for each kind, whether a provider will actually resolve for  *)
(* this user". It asks without scope, so a scoped provider does not count.  *)
StatusTellsTruth ==
    \A u \in AiUsers : (\E p \in Params : SelectProviderRow(u, p) # 0)
                        => SelectProviderRow(u, [scope |-> "none", space |-> "none"]) # 0
===============================================================================
