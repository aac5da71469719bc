----------------------------- MODULE GoogleGrant -----------------------------
(***************************************************************************)
(* The Google grant of one user: src/google/google-oauth.service.ts.       *)
(* The refresh token is in the database, the access token in memory.       *)
(* Google's side of a grant is external; the state of the callback is the  *)
(* user's own.                                                             *)
(***************************************************************************)
EXTENDS Integers, Sequences

CONSTANTS Connectors,      \* concurrent callbacks, disconnects and calls that need a token
          MaxGrants,       \* bound on grants of Google
          MaxBreaks        \* bound on failed writes and requests

ASSUME GrantConstants == {MaxGrants, MaxBreaks} \subseteq Nat

VARIABLES
    grants,      \* Google: grants[g] is "live" or "revoked"
    account,     \* the grant of the google_accounts row, 0 without one
    cache,       \* the grant of the cached access token, 0 without one
    connector,   \* connector[c]: what it does, where it stands, the grant it holds
    crossed,     \* two connectors were under way at once
    breaks

grantVars == <<grants, account, cache, connector, crossed, breaks>>

Off == [pc |-> "idle", op |-> "none", grant |-> 0]
Connecting(c) == connector[c].pc \notin {"idle", "done"}

GrantTypeOK ==
    /\ grants \in Seq({"live", "revoked"})
    /\ account \in 0..Len(grants) /\ cache \in 0..Len(grants)
    /\ connector \in [Connectors ->
            [pc : {"idle", "exchange", "upsert", "cache", "revoke", "delete", "uncache", "done"},
             op : {"none", "callback", "token", "disconnect"}, grant : 0..Len(grants)]]
    /\ crossed \in BOOLEAN /\ breaks \in 0..MaxBreaks

GrantInit ==
    /\ grants = <<>> /\ account = 0 /\ cache = 0 /\ breaks = 0
    /\ connector = [c \in Connectors |-> Off] /\ crossed = FALSE

Break == breaks < MaxBreaks /\ breaks' = breaks + 1

Enter(c, op, pc, g) ==
    /\ connector[c].pc = "idle" /\ connector' = [connector EXCEPT ![c] = [pc |-> pc, op |-> op, grant |-> g]]
    /\ crossed' = (crossed \/ \E d \in Connectors : Connecting(d))
    /\ UNCHANGED <<grants, account, cache, breaks>>

MoveConnector(c, pc) == connector' = [connector EXCEPT ![c] = IF pc = "done" THEN [Off EXCEPT !.pc = pc] ELSE [@ EXCEPT !.pc = pc]]

(* handleCallback of a state this user signed: the exchange of the code is  *)
(* a grant at Google.                                                       *)
HandleCallback(c) == Len(grants) < MaxGrants /\ Enter(c, "callback", "exchange", 0)

ExchangeCode(c) ==
    /\ connector[c].pc = "exchange" /\ connector[c].op = "callback" /\ Len(grants) < MaxGrants
    /\ grants' = Append(grants, "live")
    /\ connector' = [connector EXCEPT ![c].pc = "upsert", ![c].grant = Len(grants) + 1]
    /\ UNCHANGED <<account, cache, crossed, breaks>>

UpsertAccount(c) ==
    /\ connector[c].pc = "upsert" /\ account' = connector[c].grant /\ MoveConnector(c, "cache")
    /\ UNCHANGED <<grants, cache, crossed, breaks>>

(* getAccessToken: a cached token, no account, or a refresh at Google. *)
GetAccessToken(c) ==
    IF cache # 0 THEN Enter(c, "token", "done", 0)
    ELSE IF account = 0 THEN Enter(c, "token", "done", 0)
    ELSE Enter(c, "token", "exchange", account)

(* invalid_grant asks the user to connect again. *)
RefreshGrant(c) ==
    /\ connector[c].pc = "exchange" /\ connector[c].op = "token"
    /\ MoveConnector(c, IF grants[connector[c].grant] = "live" THEN "cache" ELSE "done")
    /\ UNCHANGED <<grants, account, cache, crossed, breaks>>

SetCache(c) ==
    /\ connector[c].pc = "cache" /\ cache' = connector[c].grant /\ MoveConnector(c, "done")
    /\ UNCHANGED <<grants, account, crossed, breaks>>

CacheExpires ==
    /\ cache # 0 /\ cache' = 0
    /\ UNCHANGED <<grants, account, connector, crossed, breaks>>

Disconnect(c) == Enter(c, "disconnect", IF account = 0 THEN "done" ELSE "revoke", account)

(* Best effort: the revocation may fail, the row goes anyway. *)
RevokeGrant(c) ==
    /\ connector[c].pc = "revoke" /\ MoveConnector(c, "delete")
    /\ \/ grants' = [grants EXCEPT ![connector[c].grant] = "revoked"] /\ UNCHANGED breaks
       \/ Break /\ UNCHANGED grants
    /\ UNCHANGED <<account, cache, crossed>>

(* Deleting a row that is gone throws. *)
DeleteAccount(c) ==
    /\ connector[c].pc = "delete" /\ account' = 0
    /\ MoveConnector(c, IF account = 0 THEN "done" ELSE "uncache")
    /\ UNCHANGED <<grants, cache, crossed, breaks>>

(* Mutant: the cached token outlives the account. *)
UncacheForgotten(c) ==
    /\ connector[c].pc = "uncache" /\ MoveConnector(c, "done")
    /\ UNCHANGED <<grants, account, cache, crossed, breaks>>

Uncache(c) ==
    /\ connector[c].pc = "uncache" /\ cache' = 0 /\ MoveConnector(c, "done")
    /\ UNCHANGED <<grants, account, crossed, breaks>>

ConnectorFails(c) ==
    /\ connector[c].pc \in {"exchange", "upsert", "delete"} /\ Break /\ MoveConnector(c, "done")
    /\ UNCHANGED <<grants, account, cache, crossed>>

GrantNext ==
    \/ CacheExpires
    \/ \E c \in Connectors :
        \/ HandleCallback(c) \/ GetAccessToken(c) \/ Disconnect(c)
        \/ ExchangeCode(c) \/ UpsertAccount(c) \/ RefreshGrant(c) \/ SetCache(c)
        \/ RevokeGrant(c) \/ DeleteAccount(c) \/ Uncache(c) \/ ConnectorFails(c)

GrantSpec == GrantInit /\ [][GrantNext]_grantVars

-------------------------------------------------------------------------------
(* Once the user has disconnected and nothing overlapped, Mora holds no      *)
(* access token of the account any more (disconnect, getAccessToken).        *)
NoTokenWithoutAccount ==
    ~crossed /\ (\A c \in Connectors : ~Connecting(c)) => (account = 0 => cache = 0)

(* Why the cache is empty without an account: as long as one connector at a *)
(* time is under way, a token is fetched or stored only while the account   *)
(* exists, and between the delete and the uncache nobody looks.             *)
GrantInv == ~crossed =>
    /\ \A c, d \in Connectors : Connecting(c) /\ Connecting(d) => c = d
    /\ \A c \in Connectors :
        /\ connector[c].pc \in {"cache", "revoke", "delete"} => account # 0
        /\ connector[c].pc = "exchange" /\ connector[c].op = "token" => account # 0
        /\ connector[c].pc = "upsert" => connector[c].grant # 0
    /\ (\A c \in Connectors : connector[c].pc # "uncache") => (account = 0 => cache = 0)

(* What holds of the grant at every moment. *)
GrantSafe == GrantTypeOK /\ NoTokenWithoutAccount

-------------------------------------------------------------------------------
(* What the documents say and the code does not keep. *)

(* A call that had read the account before the disconnect caches its token   *)
(* after it; the next call is served from the cache.                         *)
NoTokenAfterDisconnect ==
    (\A c \in Connectors : ~Connecting(c)) => (account = 0 => cache = 0)
===============================================================================
