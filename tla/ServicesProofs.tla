---------------------------- MODULE ServicesProofs ----------------------------
(***************************************************************************)
(* Proofs about the services behind a conversation, each for any number of *)
(* callers and any bounds.                                                 *)
(***************************************************************************)
EXTENDS Sessions, GoogleGrant, Mailbox, AiProviders, Calendar, AddressBook, FiniteSetTheorems, SequenceTheorems, TLAPS

-------------------------------------------------------------------------------
(* Refresh tokens *)

Token == [revoked : BOOLEAN, expired : BOOLEAN, used : 0..MaxTokens]
Refreshing(n) == [Refreshers -> [pc : {"idle", "revoke", "issue", "done"}, token : 0..n]]
Held(f) == refresh[f].pc \in {"revoke", "issue"}

LEMMA TokenFacts ==
    ASSUME SessionTypeOK
    PROVE  /\ tokens \in Seq(Token) /\ Len(tokens) \in Nat /\ DOMAIN tokens = 1..Len(tokens)
           /\ \A t \in DOMAIN tokens : tokens[t] \in Token
           /\ refresh \in Refreshing(Len(tokens))
BY ElementOfSeq, LenProperties DEF SessionTypeOK, Token, Refreshing

(* A step that changes the row of one token, and counts no pair for it.    *)
LEMMA TokenChanges ==
    ASSUME SessionTypeOK, NEW t \in DOMAIN tokens, NEW e \in Token,
           tokens' = [tokens EXCEPT ![t] = e]
    PROVE  /\ tokens' \in Seq(Token) /\ Len(tokens') = Len(tokens) /\ DOMAIN tokens' = DOMAIN tokens
           /\ \A u \in DOMAIN tokens : tokens'[u] = IF u = t THEN e ELSE tokens[u]
BY TokenFacts, ExceptSeq, LenProperties

(* A login or a refresh that appends a fresh token to ts. *)
LEMMA TokenIssued ==
    ASSUME NEW ts \in Seq(Token), tokens' = IssueTokenPair(ts)
    PROVE  /\ tokens' \in Seq(Token) /\ Len(tokens') = Len(ts) + 1
           /\ DOMAIN tokens' = 1..Len(ts) + 1
           /\ \A u \in 1..Len(ts) : tokens'[u] = ts[u]
           /\ tokens'[Len(ts) + 1] = Fresh
<1>1. Fresh \in Token
    BY SessionConstants DEF Fresh, Token
<1> QED
    BY <1>1, AppendProperties, LenProperties DEF IssueTokenPair

(* The invariant of SessionInv with the property it explains. *)
TokensInv == SessionInv /\ SingleUseInTurn

LEMMA SessionStep ==
    SessionTypeOK /\ TokensInv /\ [SessionNext]_sessionVars => SessionTypeOK' /\ TokensInv'
<1> SUFFICES ASSUME SessionTypeOK, TokensInv, [SessionNext]_sessionVars
             PROVE  SessionTypeOK' /\ TokensInv'
    OBVIOUS
<1> USE SessionConstants
<1>0. /\ tokens \in Seq(Token) /\ Len(tokens) \in Nat /\ DOMAIN tokens = 1..Len(tokens)
      /\ \A t \in DOMAIN tokens : tokens[t] \in Token /\ tokens[t].used \in Nat
      /\ refresh \in Refreshing(Len(tokens))
    BY TokenFacts DEF Token
<1> DEFINE Goal == SessionTypeOK' /\ TokensInv'
<1>1. CASE Login
  <2>1. /\ tokens' \in Seq(Token) /\ Len(tokens') = Len(tokens) + 1 /\ DOMAIN tokens' = 1..Len(tokens) + 1
        /\ \A u \in DOMAIN tokens : tokens'[u] = tokens[u]
        /\ tokens'[Len(tokens) + 1] = Fresh
        /\ refresh' = refresh /\ raced' = raced /\ slips' = slips /\ Len(tokens) < MaxTokens
    BY <1>0, <1>1, TokenIssued DEF Login
  <2>2. refresh' \in Refreshing(Len(tokens'))
    BY <1>0, <2>1 DEF Refreshing
  <2>3. SessionTypeOK'
    BY <2>1, <2>2 DEF SessionTypeOK, Token, Refreshing
  <2>4. \A u \in DOMAIN tokens' : u \in DOMAIN tokens \/ tokens'[u] = Fresh
    BY <1>0, <2>1
  <2>5. SessionInv'
    BY <1>0, <2>1, <2>4 DEF TokensInv, SessionInv, Fresh
  <2>6. SingleUseInTurn'
    BY <1>0, <2>1, <2>4 DEF TokensInv, SingleUseInTurn, Fresh
  <2> QED
    BY <2>3, <2>5, <2>6 DEF TokensInv
<1>2. ASSUME NEW t \in DOMAIN tokens, Expire(t) \/ Logout(t) PROVE Goal
  <2>1. PICK e \in Token : /\ tokens' = [tokens EXCEPT ![t] = e] /\ e.used = tokens[t].used
                           /\ tokens[t].revoked => e.revoked
    <3>1. CASE Expire(t)
      <4> DEFINE e == [tokens[t] EXCEPT !.expired = TRUE]
      <4>1. tokens' = [tokens EXCEPT ![t] = e]
        BY <3>1 DEF Expire
      <4>2. e \in Token /\ e.used = tokens[t].used /\ e.revoked = tokens[t].revoked
        BY <1>0 DEF Token
      <4> QED
        BY <4>1, <4>2
    <3>2. CASE Logout(t)
      <4> DEFINE e == [tokens[t] EXCEPT !.revoked = TRUE]
      <4>1. tokens' = [tokens EXCEPT ![t] = e]
        BY <3>2 DEF Logout
      <4>2. e \in Token /\ e.used = tokens[t].used /\ e.revoked = TRUE
        BY <1>0 DEF Token
      <4> QED
        BY <4>1, <4>2
    <3> QED
        BY <1>2, <3>1, <3>2
  <2>2. /\ tokens' \in Seq(Token) /\ Len(tokens') = Len(tokens) /\ DOMAIN tokens' = DOMAIN tokens
        /\ \A u \in DOMAIN tokens : tokens'[u] = IF u = t THEN e ELSE tokens[u]
    BY <2>1, TokenChanges
  <2>3. refresh' = refresh /\ slips' = slips /\ raced' \in BOOLEAN /\ (raced => raced')
    BY <1>2 DEF Expire, Logout, SessionTypeOK
  <2>4. SessionTypeOK'
    BY <2>2, <2>3 DEF SessionTypeOK, Token
  <2>5. TokensInv'
    BY <2>1, <2>2, <2>3 DEF TokensInv, SessionInv, SingleUseInTurn
  <2> QED
    BY <2>4, <2>5
<1>3. ASSUME NEW t \in DOMAIN tokens, NEW f \in Refreshers, Refresh(f, t) PROVE Goal
  <2>1. /\ tokens' = tokens /\ slips' = slips
        /\ raced' = (raced \/ \E g \in Refreshers : Held(g) /\ refresh[g].token = t)
    BY <1>3 DEF Refresh, Presented, Held
  <2>2. PICK e \in [pc : {"idle", "revoke", "issue", "done"}, token : 0..Len(tokens)] :
            /\ refresh' = [refresh EXCEPT ![f] = e] /\ e.pc \in {"revoke", "done"}
            /\ e.pc = "revoke" => e.token = t /\ Usable(t)
    <3>1. t \in 0..Len(tokens) /\ 0 \in 0..Len(tokens)
        BY <1>0
    <3>2. CASE Usable(t)
      <4> DEFINE e == [pc |-> "revoke", token |-> t]
      <4>1. refresh' = [refresh EXCEPT ![f] = e]
        BY <1>3, <3>2 DEF Refresh
      <4>2. e \in [pc : {"idle", "revoke", "issue", "done"}, token : 0..Len(tokens)] /\ e.pc = "revoke" /\ e.token = t
        BY <3>1
      <4> HIDE DEF e
      <4> QED
        BY <3>2, <4>1, <4>2
    <3>3. CASE ~Usable(t)
      <4> DEFINE e == [pc |-> "done", token |-> 0]
      <4>1. [Nowhere EXCEPT !.pc = "done"] = e
        BY DEF Nowhere
      <4>2. refresh' = [refresh EXCEPT ![f] = e]
        BY <1>3, <3>3, <4>1 DEF Refresh
      <4>3. e \in [pc : {"idle", "revoke", "issue", "done"}, token : 0..Len(tokens)] /\ e.pc = "done"
        BY <3>1
      <4> HIDE DEF e
      <4> QED
        BY <4>2, <4>3
    <3> QED
        BY <3>2, <3>3
  <2>3. /\ refresh' \in Refreshing(Len(tokens))
        /\ \A g \in Refreshers : refresh'[g] = IF g = f THEN e ELSE refresh[g]
    BY <1>0, <2>2 DEF Refreshing
  <2>4. SessionTypeOK'
    BY <2>1, <2>3 DEF SessionTypeOK, Refreshing
  <2>5. Usable(t) => tokens[t].used = 0
    BY <1>0 DEF Usable, TokensInv, SingleUseInTurn
  <2>6. SessionInv'
    <3>1. \A g \in Refreshers : refresh'[g].pc \in {"revoke", "issue"} =>
              IF g = f THEN refresh'[g].pc = "revoke" /\ refresh'[g].token = t /\ tokens[t].used = 0
                       ELSE Held(g) /\ refresh'[g] = refresh[g]
        BY <2>2, <2>3, <2>5 DEF Held
    <3>2. ~raced' => ~raced /\ \A g \in Refreshers : Held(g) => refresh[g].token # t
        BY <2>1
    <3>3. ASSUME ~raced', NEW g \in Refreshers, NEW h \in Refreshers,
                 refresh'[g].pc \in {"revoke", "issue"}, refresh'[h].pc \in {"revoke", "issue"},
                 refresh'[g].token = refresh'[h].token
          PROVE  g = h
        BY <3>1, <3>2, <3>3 DEF TokensInv, SessionInv, Held
    <3>4. ASSUME NEW g \in Refreshers
          PROVE  /\ refresh'[g].pc \in {"revoke", "issue"} =>
                       refresh'[g].token \in DOMAIN tokens /\ (~raced' => tokens[refresh'[g].token].used = 0)
                 /\ refresh'[g].pc = "issue" => tokens[refresh'[g].token].revoked
        BY <3>1, <3>2 DEF TokensInv, SessionInv, Held
    <3> QED
        BY <2>1, <3>3, <3>4 DEF TokensInv, SessionInv
  <2>7. SingleUseInTurn'
    BY <2>1 DEF TokensInv, SingleUseInTurn
  <2> QED
    BY <2>4, <2>6, <2>7 DEF TokensInv
<1>4. ASSUME NEW f \in Refreshers, RevokePresented(f) PROVE Goal
  <2> DEFINE t == refresh[f].token
             e == [tokens[t] EXCEPT !.revoked = TRUE]
  <2>1. /\ refresh[f].pc = "revoke" /\ t \in DOMAIN tokens /\ raced' = raced /\ slips' = slips
        /\ tokens' = [tokens EXCEPT ![t] = e]
    BY <1>4 DEF RevokePresented, TokensInv, SessionInv
  <2>2. e \in Token /\ e.used = tokens[t].used /\ e.revoked = TRUE
    BY <1>0, <2>1 DEF Token
  <2>3. /\ tokens' \in Seq(Token) /\ Len(tokens') = Len(tokens) /\ DOMAIN tokens' = DOMAIN tokens
        /\ \A u \in DOMAIN tokens : /\ tokens'[u].used = tokens[u].used
                                    /\ u = t \/ tokens[u].revoked => tokens'[u].revoked
    <3> HIDE DEF t, e
    <3>1. /\ tokens' \in Seq(Token) /\ Len(tokens') = Len(tokens) /\ DOMAIN tokens' = DOMAIN tokens
          /\ \A u \in DOMAIN tokens : tokens'[u] = IF u = t THEN e ELSE tokens[u]
        BY <2>1, <2>2, TokenChanges
    <3> QED
        BY <2>2, <3>1
  <2>4. /\ refresh' \in Refreshing(Len(tokens)) /\ refresh'[f].pc = "issue" /\ refresh'[f].token = t
        /\ \A g \in Refreshers \ {f} : refresh'[g] = refresh[g]
    BY <1>0, <1>4 DEF RevokePresented, Refreshing
  <2>5. SessionTypeOK'
    BY <2>1, <2>3, <2>4 DEF SessionTypeOK, Refreshing, Token
  <2>6. SessionInv'
    BY <2>1, <2>3, <2>4, SMTT(60) DEF TokensInv, SessionInv
  <2>7. SingleUseInTurn'
    BY <2>1, <2>3 DEF TokensInv, SingleUseInTurn
  <2> QED
    BY <2>5, <2>6, <2>7 DEF TokensInv
<1>5. ASSUME NEW f \in Refreshers, IssueNext(f) PROVE Goal
  <2> DEFINE t == refresh[f].token
             e == [tokens[t] EXCEPT !.used = @ + 1]
             ts == [tokens EXCEPT ![t] = e]
  <2>1. /\ refresh[f].pc = "issue" /\ t \in DOMAIN tokens /\ raced' = raced /\ slips' = slips
        /\ Len(tokens) < MaxTokens /\ tokens[t].revoked /\ tokens[t].used < Len(tokens)
        /\ ~raced => tokens[t].used = 0
    BY <1>5 DEF IssueNext, TokensInv, SessionInv
  <2>2. e \in Token /\ e.used = tokens[t].used + 1 /\ e.revoked = TRUE
    <3>1. tokens[t] \in Token /\ tokens[t].used + 1 \in 0..MaxTokens /\ MaxTokens \in Nat
        BY <1>0, <2>1, SMTT(60) DEF Token
    <3> QED
        BY <2>1, <3>1 DEF Token
  <2>3. tokens' = IssueTokenPair(ts)
    BY <1>5 DEF IssueNext
  <2>4. /\ ts \in Seq(Token) /\ Len(ts) = Len(tokens)
        /\ \A u \in 1..Len(tokens) : ts[u] = IF u = t THEN e ELSE tokens[u]
    <3> HIDE DEF t, e
    <3> QED
        BY <1>0, <2>1, <2>2, ExceptSeq
  <2>5. /\ tokens' \in Seq(Token) /\ Len(tokens') = Len(tokens) + 1 /\ DOMAIN tokens' = 1..Len(tokens) + 1
        /\ \A u \in 1..Len(tokens) : tokens'[u] = IF u = t THEN e ELSE tokens[u]
        /\ tokens'[Len(tokens) + 1] = Fresh
    <3> HIDE DEF ts
    <3> QED
        BY <2>3, <2>4, TokenIssued
  <2>6. \A u \in DOMAIN tokens' : u \in DOMAIN tokens \/ tokens'[u] = Fresh
    BY <1>0, <2>5
  <2>7. /\ refresh' \in Refreshing(Len(tokens)) /\ refresh'[f].pc = "done"
        /\ \A g \in Refreshers \ {f} : refresh'[g] = refresh[g]
    BY <1>0, <1>5 DEF IssueNext, Refreshing, Nowhere
  <2>8. SessionTypeOK'
    BY <1>0, <2>1, <2>5, <2>7 DEF SessionTypeOK, Refreshing, Token
  <2> HIDE DEF e, t
  <2>9. \A g \in Refreshers : refresh'[g].pc \in {"revoke", "issue"} =>
            g # f /\ (~raced => refresh[g].token # t)
    BY <2>1, <2>7 DEF TokensInv, SessionInv, t
  <2>10. SessionInv'
    <3>1. \A u \in DOMAIN tokens' : tokens'[u].used < Len(tokens')
        BY <1>0, <2>1, <2>2, <2>5, <2>6, SMTT(60) DEF TokensInv, SessionInv, Fresh
    <3>2. \A u \in DOMAIN tokens : u \in DOMAIN tokens' /\ (tokens[u].revoked => tokens'[u].revoked)
                                  /\ (u # t => tokens'[u] = tokens[u])
        BY <1>0, <2>2, <2>5
    <3>3. Len(tokens') <= MaxTokens
        BY <1>0, <2>1, <2>5
    <3> QED
        BY <2>1, <2>7, <2>9, <3>1, <3>2, <3>3, SMTT(60) DEF TokensInv, SessionInv
  <2>11. SingleUseInTurn'
    BY <1>0, <2>1, <2>2, <2>5, <2>6 DEF TokensInv, SingleUseInTurn, Fresh
  <2> QED
    BY <2>8, <2>10, <2>11 DEF TokensInv
<1>6. ASSUME NEW f \in Refreshers, RefreshFails(f) PROVE Goal
  <2>1. /\ tokens' = tokens /\ raced' = raced /\ slips' \in 0..MaxSlips
        /\ refresh' \in Refreshing(Len(tokens)) /\ refresh'[f].pc = "done"
        /\ \A g \in Refreshers \ {f} : refresh'[g] = refresh[g]
    BY <1>0, <1>6 DEF RefreshFails, Slip, Refreshing, Nowhere, SessionTypeOK
  <2>2. SessionTypeOK'
    BY <2>1 DEF SessionTypeOK, Refreshing
  <2>3. TokensInv'
    BY <2>1 DEF TokensInv, SessionInv, SingleUseInTurn
  <2> QED
    BY <2>2, <2>3
<1>7. CASE UNCHANGED sessionVars
    BY <1>7 DEF sessionVars, SessionTypeOK, TokensInv, SessionInv, SingleUseInTurn
<1> QED
    BY <1>1, <1>2, <1>3, <1>4, <1>5, <1>6, <1>7 DEF SessionNext

(* A pair is never issued for a token that stays usable, and a token that  *)
(* no two requests fought over pays for one pair at most.                  *)
THEOREM TokensRotateOnce == SessionSpec => []SessionSafe
<1>1. SessionInit => SessionTypeOK /\ TokensInv
  <2> SUFFICES ASSUME SessionInit PROVE SessionTypeOK /\ TokensInv
    OBVIOUS
  <2>1. tokens \in Seq(Token) /\ Len(tokens) = 0 /\ DOMAIN tokens = {}
    BY EmptySeq DEF SessionInit
  <2>2. refresh \in Refreshing(0) /\ \A f \in Refreshers : refresh[f].pc = "idle"
    BY DEF SessionInit, Refreshing, Nowhere
  <2>3. raced \in BOOLEAN /\ slips = 0 /\ {MaxTokens, MaxSlips} \subseteq Nat /\ slips \in 0..MaxSlips
    <3>1. raced \in BOOLEAN /\ slips = 0
        BY DEF SessionInit
    <3> QED
        BY <3>1, SessionConstants
  <2>4. SessionTypeOK
    BY <2>1, <2>2, <2>3 DEF SessionTypeOK, Refreshing, Token
  <2> QED
    BY <2>1, <2>2, <2>3, <2>4 DEF TokensInv, SessionInv, SingleUseInTurn
<1>2. SessionTypeOK /\ TokensInv => SessionSafe
    BY DEF TokensInv, SessionSafe
<1> QED
    BY <1>1, <1>2, SessionStep, PTL DEF SessionSpec

-------------------------------------------------------------------------------
(* The Google grant *)

Pcs == {"idle", "exchange", "upsert", "cache", "revoke", "delete", "uncache", "done"}
Joined(n) == [Connectors -> [pc : Pcs, op : {"none", "callback", "token", "disconnect"}, grant : 0..n]]

(* A connector that enters: alone, unless connectors cross.                *)
LEMMA EnterKeeps ==
    ASSUME GrantTypeOK, GrantInv, NEW c \in Connectors, NEW op \in {"callback", "token", "disconnect"},
           NEW pc \in Pcs, NEW g \in 0..Len(grants), Enter(c, op, pc, g),
           pc \in {"exchange", "revoke", "done"},
           pc = "revoke" \/ (pc = "exchange" /\ op = "token") => account # 0
    PROVE  GrantTypeOK' /\ GrantInv'
<1> DEFINE e == [pc |-> pc, op |-> op, grant |-> g]
<1>0. /\ connector \in Joined(Len(grants)) /\ Len(grants) \in Nat
      /\ connector' = [connector EXCEPT ![c] = e]
      /\ e \in [pc : Pcs, op : {"none", "callback", "token", "disconnect"}, grant : 0..Len(grants)]
      /\ e.pc = pc /\ e.op = op /\ e.grant = g
    BY DEF Enter, Joined, GrantTypeOK, Pcs
<1> HIDE DEF e
<1>a. crossed' = (crossed \/ \E d \in Connectors : Connecting(d))
    BY DEF Enter
<1>b. /\ connector[c].pc = "idle"
      /\ grants' = grants /\ account' = account /\ cache' = cache /\ breaks' = breaks
    BY DEF Enter
<1>1. /\ connector' \in Joined(Len(grants))
      /\ connector'[c] = e
      /\ \A d \in Connectors \ {c} : connector'[d] = connector[d]
      /\ crossed' \in BOOLEAN /\ (~crossed' => ~crossed /\ \A d \in Connectors : ~Connecting(d))
    BY <1>0, <1>a DEF Joined, GrantTypeOK
<1>2. GrantTypeOK'
    BY <1>0, <1>1, <1>b DEF GrantTypeOK, Joined, Pcs
<1>3. GrantInv'
    BY <1>0, <1>1, <1>b DEF GrantInv, Connecting
<1> QED
    BY <1>2, <1>3

(* A connector that moves on, and may end.                                 *)
LEMMA ConnectorMoves ==
    ASSUME GrantTypeOK, NEW c \in Connectors, NEW pc \in Pcs, MoveConnector(c, pc)
    PROVE  /\ connector' \in Joined(Len(grants)) /\ connector'[c].pc = pc
           /\ pc # "done" => connector'[c].op = connector[c].op /\ connector'[c].grant = connector[c].grant
           /\ \A d \in Connectors \ {c} : connector'[d] = connector[d]
<1>1. Len(grants) \in Nat /\ connector \in Joined(Len(grants))
    BY DEF GrantTypeOK, Joined, Pcs
<1> DEFINE e == IF pc = "done" THEN [Off EXCEPT !.pc = pc] ELSE [connector[c] EXCEPT !.pc = pc]
<1>2. connector' = [connector EXCEPT ![c] = e]
    BY DEF MoveConnector
<1>3. e \in [pc : Pcs, op : {"none", "callback", "token", "disconnect"}, grant : 0..Len(grants)]
    BY <1>1 DEF Joined, Off
<1>4. e.pc = pc /\ (pc # "done" => e.op = connector[c].op /\ e.grant = connector[c].grant)
    BY <1>1 DEF Joined, Off
<1> HIDE DEF e
<1> QED
    BY <1>1, <1>2, <1>3, <1>4 DEF Joined

LEMMA GrantStep ==
    GrantTypeOK /\ GrantInv /\ [GrantNext]_grantVars => GrantTypeOK' /\ GrantInv'
<1> SUFFICES ASSUME GrantTypeOK, GrantInv, [GrantNext]_grantVars
             PROVE  GrantTypeOK' /\ GrantInv'
    OBVIOUS
<1>0. /\ Len(grants) \in Nat /\ grants \in Seq({"live", "revoked"}) /\ DOMAIN grants = 1..Len(grants)
      /\ account \in 0..Len(grants) /\ cache \in 0..Len(grants) /\ breaks \in 0..MaxBreaks
      /\ connector \in Joined(Len(grants)) /\ crossed \in BOOLEAN
      /\ MaxBreaks \in Nat
    BY LenProperties, GrantConstants DEF GrantTypeOK, Joined, Pcs
<1> DEFINE Goal == GrantTypeOK' /\ GrantInv'
<1>1. CASE CacheExpires
    BY <1>0, <1>1 DEF CacheExpires, GrantTypeOK, GrantInv, Connecting
<1>2. ASSUME NEW c \in Connectors, HandleCallback(c) \/ GetAccessToken(c) \/ Disconnect(c) PROVE Goal
  <2>1. CASE HandleCallback(c)
    BY <1>0, <2>1, EnterKeeps DEF HandleCallback, Pcs
  <2>2. CASE GetAccessToken(c)
    BY <1>0, <2>2, EnterKeeps DEF GetAccessToken, Pcs
  <2>3. CASE Disconnect(c)
    BY <1>0, <2>3, EnterKeeps DEF Disconnect, Pcs
  <2> QED
    BY <1>2, <2>1, <2>2, <2>3
<1>3. ASSUME NEW c \in Connectors, ExchangeCode(c) PROVE Goal
  <2>1. /\ grants' \in Seq({"live", "revoked"}) /\ Len(grants') = Len(grants) + 1
    BY <1>0, <1>3, AppendProperties DEF ExchangeCode
  <2> DEFINE e == [[connector[c] EXCEPT !.pc = "upsert"] EXCEPT !.grant = Len(grants) + 1]
  <2>2. connector' = [connector EXCEPT ![c] = e] /\ connector[c].pc = "exchange"
    BY <1>0, <1>3 DEF ExchangeCode, Joined
  <2>3. /\ e \in [pc : Pcs, op : {"none", "callback", "token", "disconnect"}, grant : 0..Len(grants')]
        /\ e.pc = "upsert" /\ e.grant # 0
    <3>1. Len(grants) + 1 \in 0..Len(grants') /\ Len(grants) + 1 # 0
        BY <1>0, <2>1
    <3>2. connector[c] \in [pc : Pcs, op : {"none", "callback", "token", "disconnect"}, grant : 0..Len(grants)]
        BY <1>0 DEF Joined
    <3> QED
        BY <3>1, <3>2 DEF Pcs
  <2> HIDE DEF e
  <2>4. /\ connector' \in Joined(Len(grants')) /\ connector'[c] = e
        /\ \A d \in Connectors \ {c} : connector'[d] = connector[d]
    BY <1>0, <2>1, <2>2, <2>3 DEF Joined
  <2>5. GrantTypeOK'
    BY <1>0, <1>3, <2>1, <2>4 DEF ExchangeCode, GrantTypeOK, Joined, Pcs
  <2>6. GrantInv'
    BY <1>0, <1>3, <2>2, <2>3, <2>4, ZenonT(60) DEF ExchangeCode, GrantInv, Connecting
  <2> QED
    BY <2>5, <2>6
<1>4. ASSUME NEW c \in Connectors, NEW pc \in Pcs, MoveConnector(c, pc), Connecting(c), pc # "idle",
             grants' \in Seq({"live", "revoked"}), Len(grants') = Len(grants),
             account' \in 0..Len(grants), cache' \in 0..Len(grants),
             crossed' = crossed, breaks' \in 0..MaxBreaks,
             ~crossed => /\ pc \in {"cache", "revoke", "delete"} => account' # 0
                         /\ pc = "exchange" /\ connector[c].op = "token" => account' # 0
                         /\ pc = "upsert" => connector[c].grant # 0
                         /\ pc # "uncache" => (account' = 0 => cache' = 0)
      PROVE Goal
  <2>1. /\ connector' \in Joined(Len(grants)) /\ connector'[c].pc = pc
        /\ pc # "done" => connector'[c].op = connector[c].op /\ connector'[c].grant = connector[c].grant
        /\ \A d \in Connectors \ {c} : connector'[d] = connector[d]
    BY <1>4, ConnectorMoves
  <2>2. GrantTypeOK'
    BY <1>0, <1>4, <2>1 DEF GrantTypeOK, Joined, Pcs
  <2>3. ASSUME ~crossed PROVE \A d \in Connectors \ {c} : connector'[d].pc \in {"idle", "done"}
    BY <1>4, <2>1, <2>3 DEF GrantInv, Connecting
  <2>4. GrantInv'
    BY <1>4, <2>1, <2>3 DEF GrantInv, Connecting
  <2> QED
    BY <2>2, <2>4
<1>5. ASSUME NEW c \in Connectors,
             \/ UpsertAccount(c) \/ RefreshGrant(c) \/ SetCache(c) \/ RevokeGrant(c)
             \/ DeleteAccount(c) \/ Uncache(c) \/ ConnectorFails(c)
      PROVE Goal
  <2>0. connector[c].grant \in 0..Len(grants)
    BY <1>0 DEF Joined
  <2>1. CASE UpsertAccount(c)
    <3>1. Connecting(c) /\ (~crossed => account' # 0)
        BY <2>1 DEF UpsertAccount, GrantInv, Connecting
    <3> QED
        BY <1>0, <1>4, <2>0, <2>1, <3>1 DEF UpsertAccount, Pcs
  <2>2. CASE RefreshGrant(c)
    <3>1. Connecting(c) /\ (~crossed => account # 0)
        BY <2>2 DEF RefreshGrant, GrantInv, Connecting
    <3> DEFINE pc == IF grants[connector[c].grant] = "live" THEN "cache" ELSE "done"
    <3>2. pc \in {"cache", "done"} /\ MoveConnector(c, pc)
        BY <2>2 DEF RefreshGrant
    <3> HIDE DEF pc
    <3> QED
        BY <1>0, <1>4, <2>2, <3>1, <3>2 DEF RefreshGrant, Pcs
  <2>3. CASE SetCache(c)
    <3>1. Connecting(c) /\ (~crossed => account # 0)
        BY <2>3 DEF SetCache, GrantInv, Connecting
    <3> QED
        BY <1>0, <1>4, <2>0, <2>3, <3>1 DEF SetCache, Pcs
  <2>4. CASE RevokeGrant(c)
    <3>1. Connecting(c) /\ (~crossed => account # 0)
        BY <2>4 DEF RevokeGrant, GrantInv, Connecting
    <3>2. grants' \in Seq({"live", "revoked"}) /\ Len(grants') = Len(grants) /\ breaks' \in 0..MaxBreaks
      <4>1. CASE grants' = [grants EXCEPT ![connector[c].grant] = "revoked"] /\ UNCHANGED breaks
        <5>1. CASE connector[c].grant \in DOMAIN grants
            BY <1>0, <4>1, <5>1, ExceptSeq
        <5>2. CASE connector[c].grant \notin DOMAIN grants
            <6>1. grants \in [1..Len(grants) -> {"live", "revoked"}]
                BY <1>0, LenProperties
            <6>2. grants' = grants
                BY <1>0, <4>1, <5>2, <6>1
            <6> QED
                BY <1>0, <4>1, <6>2
        <5> QED
            BY <5>1, <5>2
      <4>2. CASE Break /\ UNCHANGED grants
        BY <1>0, <4>2 DEF Break
      <4> QED
        BY <2>4, <4>1, <4>2 DEF RevokeGrant
    <3> QED
        BY <1>0, <1>4, <2>4, <3>1, <3>2 DEF RevokeGrant, Pcs
  <2>5. CASE DeleteAccount(c)
    <3>1. Connecting(c) /\ (~crossed => account # 0)
        BY <2>5 DEF DeleteAccount, GrantInv, Connecting
    <3> DEFINE pc == IF account = 0 THEN "done" ELSE "uncache"
    <3>2. pc \in {"done", "uncache"} /\ MoveConnector(c, pc) /\ (~crossed => pc = "uncache")
        BY <2>5, <3>1 DEF DeleteAccount
    <3> HIDE DEF pc
    <3> QED
        BY <1>0, <1>4, <2>5, <3>1, <3>2 DEF DeleteAccount, Pcs
  <2>6. CASE Uncache(c)
    <3>1. Connecting(c)
        BY <2>6 DEF Uncache, Connecting
    <3> QED
        BY <1>0, <1>4, <2>6, <3>1 DEF Uncache, Pcs
  <2>7. CASE ConnectorFails(c)
    <3>1. /\ Connecting(c) /\ breaks' \in 0..MaxBreaks
          /\ ~crossed => \A d \in Connectors : connector[d].pc # "uncache"
        BY <1>0, <2>7 DEF ConnectorFails, Break, GrantInv, Connecting
    <3> QED
        BY <1>0, <1>4, <2>7, <3>1 DEF ConnectorFails, Pcs, GrantInv
  <2> QED
    BY <1>5, <2>1, <2>2, <2>3, <2>4, <2>5, <2>6, <2>7
<1>6. CASE UNCHANGED grantVars
    BY <1>6 DEF grantVars, GrantTypeOK, GrantInv, Connecting
<1> QED
    BY <1>1, <1>2, <1>3, <1>5, <1>6 DEF GrantNext

(* Once the user has disconnected and nothing overlapped, no access token  *)
(* of the account is left: for any number of callbacks, disconnects and    *)
(* calls that need a token.                                                *)
THEOREM DisconnectForgets == GrantSpec => []GrantSafe
<1>1. GrantInit => GrantTypeOK /\ GrantInv
  <2> SUFFICES ASSUME GrantInit PROVE GrantTypeOK /\ GrantInv
    OBVIOUS
  <2>1. grants \in Seq({"live", "revoked"}) /\ Len(grants) = 0
    BY EmptySeq DEF GrantInit
  <2>2. connector \in Joined(0) /\ \A c \in Connectors : connector[c].pc = "idle"
    BY DEF GrantInit, Joined, Off, Pcs
  <2>3. account \in 0..Len(grants) /\ cache \in 0..Len(grants) /\ cache = 0 /\ breaks \in 0..MaxBreaks
    BY <2>1, GrantConstants DEF GrantInit
  <2>4. crossed \in BOOLEAN
    BY DEF GrantInit
  <2>5. GrantTypeOK
    BY <2>1, <2>2, <2>3, <2>4 DEF GrantTypeOK, Joined, Pcs
  <2> QED
    BY <2>2, <2>3, <2>5 DEF GrantInv, Connecting
<1>2. GrantTypeOK /\ GrantInv => GrantSafe
    BY DEF GrantInv, GrantSafe, NoTokenWithoutAccount, Connecting
<1> QED
    BY <1>1, <1>2, GrantStep, PTL DEF GrantSpec
-------------------------------------------------------------------------------
(* Mailboxes *)

MailIInv == MailTypeOK /\ MailInv

InHand == {"contact", "create", "identify", "thread", "open", "store", "touch", "read"}

(* PlaceInv, Ahead and Opening, of a pull in state r.                      *)
PlaceOK(r) == /\ r.pc \notin {"idle", "done"} => r.box \in Boxes
              /\ r.pc \in InHand => r.mail \in Mails \ r.todo
MayRead(r, m) == \/ r.pc = "idle" \/ m \in r.todo
                 \/ r.pc \in InHand /\ r.mail = m

MayOpen(r, t) == \/ r.pc = "idle"
                 \/ /\ r.pc \notin {"idle", "done"} /\ r.box = t[1]
                    /\ threads[t] = 0 \/ (r.pc = "open" /\ From[r.mail] = t[2])

LEMMA MailFacts ==
    ASSUME MailIInv
    PROVE  /\ box \in [Boxes -> {"configured", "connected", "error", "deleted"}]
           /\ sender \in [Senders -> {"unknown", "known", "blocked"}]
           /\ stored \in [Mails -> Boxes \union {"none"}] /\ threads \in [Boxes \X Senders -> 0..Cardinality(Pulls)]
           /\ strays \subseteq Senders
           /\ read \in [Mails -> 0..Cardinality(Pulls)] /\ pull \in [Pulls -> PullPlace]
           /\ troubles \in 0..MaxTroubles /\ MaxTroubles \in Nat
           /\ "none" \notin Boxes /\ InBox \in [Boxes -> SUBSET Mails] /\ From \in [Mails -> Senders]
           /\ PlaceInv /\ StoredInv /\ ReadsInv /\ ThreadsInv /\ NothingLeftBehind
           /\ IsFiniteSet(Pulls) /\ Cardinality(Pulls) \in Nat
BY MailConstants, FS_CardinalityType DEF MailIInv, MailInv, MailTypeOK

LEMMA AheadCounts ==
    ASSUME MailIInv, NEW m \in Mails
    PROVE  IsFiniteSet(Ahead(m)) /\ Cardinality(Ahead(m)) \in Nat /\ Cardinality(Ahead(m)) <= Cardinality(Pulls)
BY MailFacts, FS_Subset, FS_CardinalityType DEF Ahead

LEMMA OpeningCounts ==
    ASSUME MailIInv, NEW t \in Boxes \X Senders
    PROVE  /\ IsFiniteSet(Opening(t)) /\ Cardinality(Opening(t)) \in Nat
           /\ threads[t] \in Nat /\ threads[t] + Cardinality(Opening(t)) <= Cardinality(Pulls)
           /\ \A p \in Pulls : p \in Opening(t) <=> MayOpen(pull[p], t)
<1>1. IsFiniteSet(Opening(t)) /\ Cardinality(Opening(t)) \in Nat
    BY MailFacts, FS_Subset, FS_CardinalityType DEF Opening
<1>2. \A p \in Pulls : p \in Opening(t) <=> MayOpen(pull[p], t)
    BY DEF Opening, MayOpen, Pulling, Sender
<1> QED
    BY <1>1, <1>2, MailFacts DEF ThreadsInv

(* Threads stay, and the pull moves to r, from where it opens no thread it *)
(* could not open before.                                                  *)
LEMMA ThreadsKept ==
    ASSUME MailIInv, NEW p \in Pulls, NEW r \in PullPlace, pull' = [pull EXCEPT ![p] = r],
           UNCHANGED threads, \A t \in Boxes \X Senders : MayOpen(r, t) => MayOpen(pull[p], t)
    PROVE  ThreadsInv'
<1>1. pull' \in [Pulls -> PullPlace] /\ pull'[p] = r /\ \A q \in Pulls \ {p} : pull'[q] = pull[q]
    BY MailFacts
<1> SUFFICES ASSUME NEW t \in Boxes \X Senders
             PROVE  threads'[t] + Cardinality(Opening(t)') <= Cardinality(Pulls)
    BY DEF ThreadsInv
<1>2. ASSUME NEW q \in Opening(t)' PROVE q \in Opening(t)
  <2>1. q \in Pulls /\ MayOpen(pull'[q], t)
    BY DEF Opening, MayOpen, Pulling, Sender
  <2>2. MayOpen(pull[q], t)
    BY <1>1, <2>1
  <2> QED
    BY <2>1, <2>2, OpeningCounts
<1>3. Cardinality(Opening(t)') <= Cardinality(Opening(t)) /\ Cardinality(Opening(t)') \in Nat
    BY <1>2, OpeningCounts, FS_Subset, FS_CardinalityType
<1> QED
    BY <1>3, OpeningCounts, MailFacts

(* A pull moves to r without storing or reading anything: it takes no mail *)
(* anew, and was with its mail already if it is to read it.                *)
LEMMA PullMoves ==
    ASSUME MailIInv, NEW p \in Pulls, NEW r \in PullPlace, pull' = [pull EXCEPT ![p] = r],
           PlaceOK(r), \A m \in Mails : MayRead(r, m) => MayRead(pull[p], m), UNCHANGED read
    PROVE  pull' \in [Pulls -> PullPlace] /\ PlaceInv' /\ ReadsInv'
<1>1. pull' \in [Pulls -> PullPlace] /\ pull'[p] = r /\ \A q \in Pulls \ {p} : pull'[q] = pull[q]
    BY MailFacts
<1>2. PlaceInv'
    BY <1>1, MailFacts DEF PlaceInv, PlaceOK, Pulling, Handling, InHand
<1>3. ASSUME NEW m \in Mails PROVE read'[m] + Cardinality(Ahead(m)') <= Cardinality(Pulls)
  <2>1. Ahead(m)' \subseteq Ahead(m)
    <3> SUFFICES ASSUME NEW q \in Ahead(m)' PROVE q \in Ahead(m)
        OBVIOUS
    <3>1. q \in Pulls /\ MayRead(pull'[q], m)
        BY DEF Ahead, MayRead, Handling, InHand
    <3>2. MayRead(pull[q], m)
        BY <1>1, <3>1
    <3> QED
        BY <3>1, <3>2 DEF Ahead, MayRead, Handling, InHand
  <2>2. Cardinality(Ahead(m)') <= Cardinality(Ahead(m)) /\ Cardinality(Ahead(m)') \in Nat
    BY <2>1, AheadCounts, FS_Subset, FS_CardinalityType
  <2>3. read'[m] = read[m] /\ read[m] \in Nat /\ read[m] + Cardinality(Ahead(m)) <= Cardinality(Pulls)
    BY MailFacts DEF ReadsInv
  <2> QED
    BY <2>2, <2>3, AheadCounts, MailFacts
<1> QED
    BY <1>1, <1>2, <1>3 DEF ReadsInv

(* As long as rows stay and the pull does not come to read a mail.         *)
LEMMA PullPasses ==
    ASSUME MailIInv, NEW p \in Pulls, NEW r \in PullPlace, pull' = [pull EXCEPT ![p] = r],
           PlaceOK(r), \A m \in Mails : MayRead(r, m) => MayRead(pull[p], m),
           r.pc \in {"touch", "read"} => Reads(p) /\ r.mail = pull[p].mail,
           UNCHANGED <<read, stored>>, \A b \in Boxes : box'[b] = "deleted" <=> box[b] = "deleted"
    PROVE  pull' \in [Pulls -> PullPlace] /\ PlaceInv' /\ ReadsInv' /\ StoredInv'
<1>1. pull' \in [Pulls -> PullPlace] /\ pull'[p] = r /\ \A q \in Pulls \ {p} : pull'[q] = pull[q]
    BY MailFacts
<1>2. \A q \in Pulls : Reads(q)' => Reads(q) /\ pull'[q].mail = pull[q].mail
    BY <1>1 DEF Reads
<1>3. StoredInv'
    BY <1>1, <1>2, MailFacts, SMTT(60) DEF StoredInv, ReadOnce
<1> QED
    BY <1>3, PullMoves

LEMMA MailKept ==
    ASSUME MailIInv, strays' \subseteq Senders, sender' \in [Senders -> {"unknown", "known", "blocked"}],
           box' \in [Boxes -> {"configured", "connected", "error", "deleted"}],
           stored' \in [Mails -> Boxes \union {"none"}], threads' \in [Boxes \X Senders -> 0..Cardinality(Pulls)],
           read' \in [Mails -> 0..Cardinality(Pulls)], troubles' \in 0..MaxTroubles,
           pull' \in [Pulls -> PullPlace], PlaceInv', ReadsInv', ThreadsInv', StoredInv', NothingLeftBehind'
    PROVE  MailIInv'
BY DEF MailIInv, MailInv, MailTypeOK

(* The states a pull goes to. *)
LEMMA PullStates ==
    ASSUME MailIInv, NEW p \in Pulls
    PROVE  LET r == [Resting EXCEPT !.pc = "done"] IN
           /\ r \in PullPlace /\ r.pc = "done" /\ r.todo = {} /\ PlaceOK(r)
           /\ \A m \in Mails : ~MayRead(r, m)
           /\ \A t \in Boxes \X Senders : ~MayOpen(r, t)
BY DEF PullPlace, Resting, PlaceOK, MayRead, MayOpen, InHand

LEMMA PullGoesOn ==
    ASSUME MailIInv, NEW p \in Pulls, NEW pc \in InHand \union {"next"}, Handling(p)
    PROVE  LET r == [pull[p] EXCEPT !.pc = pc] IN
           /\ r \in PullPlace /\ r.pc = pc /\ r.todo = pull[p].todo /\ r.mail = pull[p].mail
           /\ r.box = pull[p].box /\ PlaceOK(r)
           /\ \A m \in Mails : MayRead(r, m) => MayRead(pull[p], m)
           /\ pc # "open" \/ threads[<<pull[p].box, Sender(p)>>] = 0 =>
                \A t \in Boxes \X Senders : MayOpen(r, t) => MayOpen(pull[p], t)
<1>1. /\ pull[p] \in PullPlace /\ pull[p].box \in Boxes /\ pull[p].mail \in Mails \ pull[p].todo
      /\ pull[p].pc \in InHand
    BY MailFacts DEF PlaceInv, Pulling, Handling, InHand
<1> DEFINE r == [pull[p] EXCEPT !.pc = pc]
<1>2. /\ r \in PullPlace /\ r.pc = pc /\ r.todo = pull[p].todo /\ r.mail = pull[p].mail
      /\ r.box = pull[p].box
    BY <1>1 DEF PullPlace, InHand
<1> HIDE DEF r
<1>3. PlaceOK(r) /\ \A m \in Mails : MayRead(r, m) => MayRead(pull[p], m)
    BY <1>1, <1>2 DEF PlaceOK, MayRead, InHand
<1>4. ASSUME pc # "open" \/ threads[<<pull[p].box, Sender(p)>>] = 0,
             NEW t \in Boxes \X Senders, MayOpen(r, t)
      PROVE  MayOpen(pull[p], t)
  <2>1. pull[p].pc \notin {"idle", "done"} /\ pull[p].box = t[1] /\ pc # "idle"
    BY <1>1, <1>2, <1>4 DEF MayOpen, InHand
  <2>2. threads[t] = 0 \/ (pc = "open" /\ Sender(p) = t[2])
    BY <1>2, <1>4, <2>1 DEF MayOpen, Sender
  <2>3. Sender(p) = t[2] => t = <<pull[p].box, Sender(p)>>
    BY <2>1
  <2> QED
    BY <1>4, <2>1, <2>2, <2>3 DEF MayOpen
<1> QED
    BY <1>2, <1>3, <1>4 DEF r

LEMMA MailStep == MailIInv /\ [MailNext]_mailVars => MailIInv'
<1> SUFFICES ASSUME MailIInv, [MailNext]_mailVars PROVE MailIInv'
    OBVIOUS
<1> DEFINE rest == [Resting EXCEPT !.pc = "done"]
<1> DEFINE to(p, pc) == [pull[p] EXCEPT !.pc = pc]
<1>1. ASSUME NEW p \in Pulls, NEW b \in Boxes, StartPull(p, b) PROVE MailIInv'
  <2> DEFINE r == [pc |-> "next", box |-> b, todo |-> InBox[b], mail |-> "none"]
  <2>1. r \in PullPlace /\ r.pc = "next" /\ PlaceOK(r) /\ (\A m \in Mails : MayRead(pull[p], m))
        /\ \A t \in Boxes \X Senders : MayOpen(pull[p], t)
    BY <1>1, MailFacts DEF PullPlace, PlaceOK, MayRead, MayOpen, StartPull, InHand
  <2>2. pull' = [pull EXCEPT ![p] = r] /\ UNCHANGED <<box, sender, strays, stored, threads, read, troubles>>
    BY <1>1 DEF StartPull
  <2> HIDE DEF r
  <2>4. pull' \in [Pulls -> PullPlace] /\ PlaceInv' /\ ReadsInv' /\ StoredInv'
    BY <2>1, <2>2, PullPasses
  <2>5. ThreadsInv'
    BY <2>1, <2>2, ThreadsKept
  <2>3. pull' \in [Pulls -> PullPlace] /\ PlaceInv' /\ ReadsInv' /\ StoredInv' /\ ThreadsInv'
    BY <2>4, <2>5
  <2> QED
    BY <2>2, <2>3, MailKept, MailFacts DEF NothingLeftBehind
<1>2. ASSUME NEW p \in Pulls, NEW m \in Mails, NextMail(p, m) PROVE MailIInv'
  <2> DEFINE pc == IF stored[m] = "none" THEN "contact" ELSE "next"
             r == [pull[p] EXCEPT !.todo = pull[p].todo \ {m}, !.mail = m, !.pc = pc]
  <2>1. pc \in {"contact", "next"}
    OBVIOUS
  <2>2. pull' = [pull EXCEPT ![p] = r] /\ UNCHANGED <<box, sender, strays, stored, threads, read, troubles>>
    BY <1>2 DEF NextMail
  <2> HIDE DEF pc
  <2>3. pull[p] \in PullPlace /\ pull[p].box \in Boxes /\ m \in pull[p].todo /\ pull[p].pc = "next"
    BY <1>2, MailFacts DEF NextMail, PlaceInv, Pulling
  <2>4. r \in PullPlace /\ r.pc = pc /\ PlaceOK(r) /\ \A k \in Mails : MayRead(r, k) => MayRead(pull[p], k)
    BY <2>1, <2>3 DEF PullPlace, PlaceOK, MayRead, InHand
  <2>6. \A t \in Boxes \X Senders : MayOpen(r, t) => MayOpen(pull[p], t)
    <3>1. r.pc \in {"contact", "next"} /\ r.box = pull[p].box
        BY <2>1, <2>3 DEF PullPlace
    <3> HIDE DEF r
    <3> QED
        BY <2>3, <3>1 DEF MayOpen
  <2> HIDE DEF r
  <2>5. pull' \in [Pulls -> PullPlace] /\ PlaceInv' /\ ReadsInv' /\ StoredInv' /\ ThreadsInv'
    BY <2>1, <2>2, <2>4, <2>6, PullPasses, ThreadsKept
  <2> QED
    BY <2>2, <2>5, MailKept, MailFacts DEF NothingLeftBehind
<1>3. ASSUME NEW p \in Pulls, NEW pc \in {"next", "create", "identify", "thread", "open", "store"},
             Handling(p), ~Reads(p), PullTo(p, pc), pc = "open" => threads[<<pull[p].box, Sender(p)>>] = 0,
             UNCHANGED <<box, strays, stored, threads, read, troubles>>,
             sender' \in [Senders -> {"unknown", "known", "blocked"}]
      PROVE  MailIInv'
  <2>1. pull' = [pull EXCEPT ![p] = to(p, pc)] /\ pc \in InHand \union {"next"}
    BY <1>3 DEF PullTo, InHand
  <2>2. /\ to(p, pc) \in PullPlace /\ to(p, pc).pc = pc /\ PlaceOK(to(p, pc))
        /\ \A m \in Mails : MayRead(to(p, pc), m) => MayRead(pull[p], m)
        /\ \A t \in Boxes \X Senders : MayOpen(to(p, pc), t) => MayOpen(pull[p], t)
    BY <1>3, <2>1, PullGoesOn
  <2> DEFINE r == to(p, pc)
  <2> HIDE DEF r, to
  <2>3. pull' \in [Pulls -> PullPlace] /\ PlaceInv' /\ ReadsInv' /\ StoredInv' /\ ThreadsInv'
    BY <1>3, <2>1, <2>2, PullPasses, ThreadsKept
  <2> QED
    BY <1>3, <2>3, MailKept, MailFacts DEF NothingLeftBehind
<1>4. ASSUME NEW p \in Pulls, EndPull(p), Pulling(p), UNCHANGED <<sender, stored, threads, read>>, strays' \subseteq Senders,
             box' \in [Boxes -> {"configured", "connected", "error", "deleted"}],
             \A b \in Boxes : box'[b] = "deleted" <=> box[b] = "deleted", troubles' \in 0..MaxTroubles
      PROVE  MailIInv'
  <2>1. pull' = [pull EXCEPT ![p] = rest]
    BY <1>4 DEF EndPull
  <2>2. rest \in PullPlace /\ rest.pc = "done" /\ PlaceOK(rest) /\ (\A m \in Mails : ~MayRead(rest, m))
        /\ \A t \in Boxes \X Senders : ~MayOpen(rest, t)
    BY PullStates
  <2> HIDE DEF rest
  <2>5. pull' \in [Pulls -> PullPlace] /\ PlaceInv' /\ ReadsInv' /\ StoredInv'
    BY <1>4, <2>1, <2>2, PullPasses
  <2>6. ThreadsInv'
    BY <1>4, <2>1, <2>2, ThreadsKept
  <2>3. pull' \in [Pulls -> PullPlace] /\ PlaceInv' /\ ReadsInv' /\ StoredInv' /\ ThreadsInv'
    BY <2>5, <2>6
  <2>4. NothingLeftBehind'
    BY <1>4, MailFacts DEF NothingLeftBehind
  <2> QED
    BY <1>4, <2>3, <2>4, MailKept, MailFacts
<1>16. ASSUME NEW p \in Pulls, FindSender(p) PROVE MailIInv'
  <2>1. /\ Handling(p) /\ ~Reads(p) /\ sender[Sender(p)] \in {"unknown", "known", "blocked"}
        /\ UNCHANGED <<box, sender, strays, stored, threads, read, troubles>>
    BY <1>16, MailFacts DEF FindSender, Handling, Reads, PlaceInv, Sender
  <2>2. PullTo(p, "create") \/ PullTo(p, "thread") \/ PullTo(p, "next")
    BY <1>16, <2>1 DEF FindSender
  <2> QED
    BY <1>3, <2>1, <2>2, MailFacts
<1>17. ASSUME NEW p \in Pulls, CreateSender(p) PROVE MailIInv'
    BY <1>3, <1>17, MailFacts DEF CreateSender, Handling, Reads
<1>18. ASSUME NEW p \in Pulls, IdentifySender(p) PROVE MailIInv'
  <2>1. /\ Handling(p) /\ ~Reads(p) /\ Pulling(p) /\ Sender(p) \in Senders
        /\ UNCHANGED <<box, stored, threads, read, troubles>>
    BY <1>18, MailFacts DEF IdentifySender, Handling, Reads, Pulling, PlaceInv, Sender
  <2>2. CASE PullTo(p, "thread") /\ sender' = [sender EXCEPT ![Sender(p)] = "known"] /\ UNCHANGED strays
    BY <1>3, <2>1, <2>2, MailFacts
  <2>3. CASE EndPull(p) /\ strays' = strays \union {Sender(p)} /\ UNCHANGED sender
    BY <1>4, <2>1, <2>3, MailFacts
  <2> QED
    BY <1>18, <2>2, <2>3 DEF IdentifySender
<1>19. ASSUME NEW p \in Pulls, FindThread(p) PROVE MailIInv'
  <2>1. /\ Handling(p) /\ ~Reads(p) /\ <<pull[p].box, Sender(p)>> \in Boxes \X Senders
        /\ UNCHANGED <<box, sender, strays, stored, threads, read, troubles>>
    BY <1>19, MailFacts DEF FindThread, Handling, Reads, Pulling, PlaceInv, Sender
  <2>2. threads[<<pull[p].box, Sender(p)>>] \in Nat
    BY <2>1, OpeningCounts
  <2>3. \/ PullTo(p, "store")
        \/ PullTo(p, "open") /\ threads[<<pull[p].box, Sender(p)>>] = 0
    BY <1>19, <2>2 DEF FindThread
  <2> QED
    BY <1>3, <2>1, <2>3, MailFacts
<1>5. ASSUME NEW p \in Pulls, OpenThread(p) PROVE MailIInv'
  <2>0. /\ Handling(p) /\ ~Reads(p) /\ Pulling(p) /\ pull[p].pc = "open"
        /\ <<pull[p].box, Sender(p)>> \in Boxes \X Senders
        /\ UNCHANGED <<box, sender, strays, stored, read, troubles>>
    BY <1>5, MailFacts DEF OpenThread, Handling, Reads, Pulling, PlaceInv, Sender
  <2>t. PICK t \in Boxes \X Senders : t = <<pull[p].box, Sender(p)>>
    BY <2>0
  <2>1. Handling(p) /\ ~Reads(p) /\ Pulling(p) /\ pull[p].pc = "open" /\ t \in Boxes \X Senders
        /\ t[1] = pull[p].box /\ t[2] = Sender(p) /\ UNCHANGED <<box, sender, strays, stored, read, troubles>>
    BY <2>0, <2>t
  <2>2. CASE box[pull[p].box] = "deleted"
    BY <1>4, <1>5, <2>1, <2>2, MailFacts DEF OpenThread
  <2>3. CASE box[pull[p].box] # "deleted"
    <3>1. threads' = [threads EXCEPT ![t] = threads[t] + 1] /\ pull' = [pull EXCEPT ![p] = to(p, "store")]
        BY <1>5, <2>3, <2>t DEF OpenThread, PullTo
    <3>2. /\ to(p, "store") \in PullPlace /\ to(p, "store").pc = "store" /\ PlaceOK(to(p, "store"))
          /\ \A m \in Mails : MayRead(to(p, "store"), m) => MayRead(pull[p], m)
          /\ to(p, "store").box = t[1]
        BY <2>1, PullGoesOn DEF InHand
    <3> DEFINE r == to(p, "store")
    <3> HIDE DEF r, to
    <3>3. pull' \in [Pulls -> PullPlace] /\ PlaceInv' /\ ReadsInv' /\ StoredInv'
        BY <2>1, <3>1, <3>2, PullPasses
    <3>4. pull'[p] = to(p, "store") /\ \A q \in Pulls \ {p} : pull'[q] = pull[q]
        BY <3>1, <3>2, MailFacts
    <3>5. /\ threads[t] \in Nat /\ threads'[t] = threads[t] + 1
          /\ \A k \in Boxes \X Senders : k # t => threads'[k] = threads[k]
        BY <2>1, <3>1, MailFacts, OpeningCounts
    <3>6. \A k \in Boxes \X Senders : Opening(k)' \subseteq Opening(k)
      <4> SUFFICES ASSUME NEW k \in Boxes \X Senders, NEW q \in Opening(k)' PROVE q \in Opening(k)
        OBVIOUS
      <4>1. q \in Pulls /\ MayOpen(pull[q], k)'
        BY DEF Opening, MayOpen, Pulling, Sender
      <4>2. CASE q = p
        <5>1. k[1] = t[1] /\ threads'[k] = 0
          BY <3>2, <3>4, <4>1, <4>2 DEF MayOpen
        <5>2. threads[k] = 0
          BY <3>5, <5>1
        <5> QED
          BY <2>1, <4>2, <5>1, <5>2, OpeningCounts DEF MayOpen
      <4>3. CASE q # p
        <5>1. threads'[k] = 0 => threads[k] = 0
          BY <3>5
        <5>2. MayOpen(pull[q], k)
          BY <3>4, <4>1, <4>3, <5>1 DEF MayOpen
        <5> QED
          BY <4>1, <5>2, OpeningCounts
      <4> QED
        BY <4>2, <4>3
    <3>7. p \in Opening(t) /\ p \notin Opening(t)'
      <4>1. MayOpen(pull[p], t) /\ ~MayOpen(pull[p], t)'
        BY <2>1, <3>2, <3>4, <3>5 DEF MayOpen, Sender
      <4> QED
        BY <2>1, <4>1, OpeningCounts DEF Opening, MayOpen, Pulling, Sender
    <3>8. ThreadsInv'
      <4> SUFFICES ASSUME NEW k \in Boxes \X Senders
                   PROVE  threads'[k] + Cardinality(Opening(k)') <= Cardinality(Pulls)
        BY DEF ThreadsInv
      <4>1. /\ Cardinality(Opening(k)') \in Nat /\ Cardinality(Opening(k)') <= Cardinality(Opening(k))
            /\ k = t => Cardinality(Opening(k)') < Cardinality(Opening(k))
        BY <3>6, <3>7, OpeningCounts, FS_Subset, FS_CardinalityType
      <4> QED
        BY <3>5, <4>1, OpeningCounts, MailFacts
    <3>9. threads' \in [Boxes \X Senders -> 0..Cardinality(Pulls)]
      <4>1. Cardinality(Opening(t)') \in Nat /\ threads[t] + 1 \in Nat
            /\ threads[t] + 1 + Cardinality(Opening(t)') <= Cardinality(Pulls)
        BY <2>1, <3>5, <3>6, <3>8, OpeningCounts, FS_Subset, FS_CardinalityType DEF ThreadsInv
      <4>2. threads[t] + 1 \in 0..Cardinality(Pulls)
        BY <4>1, MailFacts
      <4> QED
        BY <2>1, <3>1, <4>2, MailFacts
    <3>10. NothingLeftBehind'
      <4> SUFFICES ASSUME NEW b \in Boxes, box[b] = "deleted"
                   PROVE  (\A m \in Mails : stored[m] # b) /\ \A s \in Senders : threads'[<<b, s>>] = 0
        BY <2>1 DEF NothingLeftBehind
      <4>1. b # t[1]
        BY <2>1, <2>3
      <4>2. \A s \in Senders : <<b, s>> \in Boxes \X Senders /\ <<b, s>> # t
        BY <4>1
      <4> QED
        BY <3>5, <4>2, MailFacts DEF NothingLeftBehind
    <3> QED
        BY <2>1, <3>3, <3>8, <3>9, <3>10, MailKept, MailFacts
  <2> QED
    BY <2>2, <2>3
<1>6. ASSUME NEW p \in Pulls, StoreMail(p) PROVE MailIInv'
  <2> DEFINE m == pull[p].mail
             b == pull[p].box
  <2>1. Handling(p) /\ Pulling(p) /\ b \in Boxes /\ m \in Mails
        /\ UNCHANGED <<box, sender, strays, threads, read, troubles>>
    BY <1>6, MailFacts DEF StoreMail, Handling, Pulling, PlaceInv
  <2>2. CASE stored[m] # "none" \/ box[b] = "deleted"
    BY <1>4, <1>6, <2>1, <2>2, MailFacts DEF StoreMail
  <2>3. CASE ~(stored[m] # "none" \/ box[b] = "deleted")
    <3>1. stored' = [stored EXCEPT ![m] = b] /\ pull' = [pull EXCEPT ![p] = to(p, "touch")]
        BY <1>6, <2>3 DEF StoreMail, PullTo
    <3>2. /\ to(p, "touch") \in PullPlace /\ to(p, "touch").mail = m /\ PlaceOK(to(p, "touch"))
          /\ to(p, "touch").pc = "touch"
          /\ \A k \in Mails : MayRead(to(p, "touch"), k) => MayRead(pull[p], k)
          /\ \A t \in Boxes \X Senders : MayOpen(to(p, "touch"), t) => MayOpen(pull[p], t)
        BY <2>1, PullGoesOn DEF InHand
    <3> DEFINE r == to(p, "touch")
    <3> HIDE DEF r, to
    <3>3. pull' \in [Pulls -> PullPlace] /\ PlaceInv' /\ ReadsInv' /\ ThreadsInv'
        BY <2>1, <3>1, <3>2, PullMoves, ThreadsKept
    <3>4. /\ pull'[p].pc = "touch" /\ pull'[p].mail = m /\ \A q \in Pulls \ {p} : pull'[q] = pull[q]
        BY <3>1, <3>2, MailFacts
    <3> HIDE DEF m, b
    <3>5. /\ stored' \in [Mails -> Boxes \union {"none"}] /\ stored'[m] = b
          /\ \A k \in Mails \ {m} : stored'[k] = stored[k]
        BY <2>1, <3>1, MailFacts
    <3>6. StoredInv'
      <4> SUFFICES ASSUME \A c \in Boxes : box[c] # "deleted" PROVE StoredInv'
        BY <2>1 DEF StoredInv
      <4>1. /\ \A k \in Mails : read[k] <= 1 /\ (read[k] = 1 => stored[k] # "none")
            /\ \A q \in Pulls : Reads(q) => stored[pull[q].mail] # "none" /\ read[pull[q].mail] = 0
            /\ \A q, s \in Pulls : Reads(q) /\ Reads(s) /\ pull[q].mail = pull[s].mail => q = s
        BY MailFacts DEF StoredInv, ReadOnce
      <4>2. \A q \in Pulls : Reads(q) => pull[q].mail \in Mails /\ pull[q].mail # m
        BY <2>3, <4>1, MailFacts DEF PlaceInv, Handling, Reads
      <4>3. read[m] = 0
        BY SMTT(60), <2>1, <2>3, <4>1, MailFacts
      <4>4. \A q \in Pulls \ {p} : Reads(q)' => Reads(q) /\ pull'[q].mail = pull[q].mail
        BY <3>4 DEF Reads
      <4>5. b # "none"
        BY <2>1, MailFacts
      <4>6. ReadOnce'
        BY <2>1, <3>5, <4>1, <4>5 DEF ReadOnce
      <4>7. \A q \in Pulls : Reads(q)' => stored'[pull'[q].mail] # "none" /\ read'[pull'[q].mail] = 0
        BY <2>1, <3>4, <3>5, <4>1, <4>2, <4>3, <4>4, <4>5
      <4>8. \A q, s \in Pulls : Reads(q)' /\ Reads(s)' /\ pull'[q].mail = pull'[s].mail => q = s
        BY <3>4, <4>1, <4>2, <4>4
      <4> QED
        BY <4>6, <4>7, <4>8 DEF StoredInv
    <3>7. NothingLeftBehind'
        BY <2>1, <2>3, <3>5, MailFacts DEF NothingLeftBehind
    <3> QED
        BY <2>1, <3>3, <3>5, <3>6, <3>7, MailKept, MailFacts
  <2> QED
    BY <2>2, <2>3
<1>7. ASSUME NEW p \in Pulls, TouchThread(p) PROVE MailIInv'
  <2>1. Handling(p) /\ Pulling(p) /\ Reads(p) /\ UNCHANGED <<box, sender, strays, stored, threads, read, troubles>>
    BY <1>7 DEF TouchThread, Handling, Pulling, Reads
  <2>2. CASE EndPull(p)
    BY <1>4, <2>1, <2>2, MailFacts
  <2>3. CASE PullTo(p, "read")
    <3>1. pull' = [pull EXCEPT ![p] = to(p, "read")]
        BY <2>3 DEF PullTo
    <3>2. /\ to(p, "read") \in PullPlace /\ to(p, "read").mail = pull[p].mail /\ PlaceOK(to(p, "read"))
          /\ \A k \in Mails : MayRead(to(p, "read"), k) => MayRead(pull[p], k)
          /\ \A t \in Boxes \X Senders : MayOpen(to(p, "read"), t) => MayOpen(pull[p], t)
        BY <2>1, PullGoesOn DEF InHand
    <3> DEFINE r == to(p, "read")
    <3> HIDE DEF r, to
    <3>3. pull' \in [Pulls -> PullPlace] /\ PlaceInv' /\ ReadsInv' /\ StoredInv' /\ ThreadsInv'
        BY <2>1, <3>1, <3>2, PullPasses, ThreadsKept
    <3> QED
        BY <2>1, <3>3, MailKept, MailFacts DEF NothingLeftBehind
  <2> QED
    BY <1>7, <2>2, <2>3 DEF TouchThread
<1>8. ASSUME NEW p \in Pulls, ReadFacts(p) PROVE MailIInv'
  <2> DEFINE r == to(p, "next")
  <2>0. Handling(p) /\ Reads(p) /\ UNCHANGED <<box, sender, strays, stored, threads>>
    BY <1>8 DEF ReadFacts, Handling, Reads
  <2>m. PICK m \in Mails : m = pull[p].mail /\ m \notin pull[p].todo
    BY <2>0, MailFacts DEF PlaceInv
  <2>1. Handling(p) /\ Reads(p) /\ m = pull[p].mail /\ m \in Mails \ pull[p].todo
        /\ UNCHANGED <<box, sender, strays, stored, threads>>
    BY <2>0, <2>m
  <2>2. pull' = [pull EXCEPT ![p] = r]
    BY <1>8 DEF ReadFacts, PullTo
  <2>3. /\ r \in PullPlace /\ r.pc = "next" /\ r.todo = pull[p].todo /\ PlaceOK(r)
        /\ \A k \in Mails : MayRead(r, k) => MayRead(pull[p], k)
        /\ \A t \in Boxes \X Senders : MayOpen(r, t) => MayOpen(pull[p], t)
    BY <2>1, PullGoesOn
  <2> HIDE DEF r, to
  <2>6. ThreadsInv'
    BY <2>1, <2>2, <2>3, ThreadsKept
  <2>4. CASE Trouble /\ UNCHANGED read
    <3>1. pull' \in [Pulls -> PullPlace] /\ PlaceInv' /\ ReadsInv' /\ StoredInv'
        BY <2>1, <2>2, <2>3, <2>4, PullPasses
    <3>2. troubles' \in 0..MaxTroubles
        BY <2>4, MailFacts DEF Trouble
    <3> QED
        BY <2>1, <2>4, <2>6, <3>1, <3>2, MailKept, MailFacts DEF NothingLeftBehind
  <2>5. CASE read' = [read EXCEPT ![m] = read[m] + 1] /\ UNCHANGED troubles
    <3>1. pull' \in [Pulls -> PullPlace] /\ pull'[p] = r /\ \A q \in Pulls \ {p} : pull'[q] = pull[q]
        BY <2>2, <2>3, MailFacts
    <3>2. PlaceInv'
        BY <2>3, <3>1, MailFacts DEF PlaceInv, PlaceOK, Pulling, Handling, InHand
    <3>3. \A k \in Mails : Ahead(k)' \subseteq Ahead(k)
      <4> SUFFICES ASSUME NEW k \in Mails, NEW q \in Ahead(k)' PROVE q \in Ahead(k)
        OBVIOUS
      <4>1. q \in Pulls /\ MayRead(pull'[q], k)
        BY DEF Ahead, MayRead, Handling, InHand
      <4>2. MayRead(pull[q], k)
        BY <2>3, <3>1, <4>1
      <4> QED
        BY <4>1, <4>2 DEF Ahead, MayRead, Handling, InHand
    <3>4. p \in Ahead(m) /\ p \notin Ahead(m)'
        BY <2>1, <2>3, <3>1 DEF Ahead, Handling
    <3>5. read[m] \in Nat /\ read'[m] = read[m] + 1 /\ \A k \in Mails \ {m} : read'[k] = read[k]
        BY <2>1, <2>5, MailFacts
    <3>6. /\ Cardinality(Ahead(m)') \in Nat /\ Cardinality(Ahead(m)) \in Nat
          /\ Cardinality(Ahead(m)') < Cardinality(Ahead(m))
        BY <2>1, <3>3, <3>4, AheadCounts, FS_Subset, FS_CardinalityType
    <3>7. \A k \in Mails : Cardinality(Ahead(k)') \in Nat /\ Cardinality(Ahead(k)') <= Cardinality(Ahead(k))
        BY <3>3, AheadCounts, FS_Subset, FS_CardinalityType
    <3>8. ReadsInv'
      <4> SUFFICES ASSUME NEW k \in Mails PROVE read'[k] + Cardinality(Ahead(k)') <= Cardinality(Pulls)
        BY DEF ReadsInv
      <4>1. read[k] \in Nat /\ read[k] + Cardinality(Ahead(k)) <= Cardinality(Pulls) /\ Cardinality(Ahead(k)) \in Nat
        BY AheadCounts, MailFacts DEF ReadsInv
      <4>2. CASE k = m
        BY <3>5, <3>6, <4>1, <4>2, MailFacts
      <4>3. CASE k # m
        BY <3>5, <3>7, <4>1, <4>3, MailFacts
      <4> QED
        BY <4>2, <4>3
    <3>9. read' \in [Mails -> 0..Cardinality(Pulls)]
      <4>1. read[m] + 1 \in 0..Cardinality(Pulls)
        BY <2>1, <3>5, <3>6, MailFacts DEF ReadsInv
      <4> QED
        BY <2>1, <2>5, <4>1, MailFacts
    <3>10. StoredInv'
      <4> SUFFICES ASSUME \A c \in Boxes : box[c] # "deleted" PROVE StoredInv'
        BY <2>1 DEF StoredInv
      <4>1. /\ \A k \in Mails : read[k] <= 1 /\ (read[k] = 1 => stored[k] # "none")
            /\ \A q \in Pulls : Reads(q) => stored[pull[q].mail] # "none" /\ read[pull[q].mail] = 0
            /\ \A q, s \in Pulls : Reads(q) /\ Reads(s) /\ pull[q].mail = pull[s].mail => q = s
        BY MailFacts DEF StoredInv, ReadOnce
      <4>2. read[m] = 0 /\ stored[m] # "none"
        BY <2>1, <4>1
      <4>3. \A q \in Pulls : Reads(q)' => q # p /\ Reads(q) /\ pull'[q].mail = pull[q].mail
        BY <2>3, <3>1 DEF Reads
      <4>4. \A q \in Pulls \ {p} : Reads(q) => pull[q].mail \in Mails \ {m}
        BY <2>1, <4>1, MailFacts DEF PlaceInv, Handling, Reads
      <4>5. ReadOnce'
        BY <2>1, <3>5, <4>1, <4>2 DEF ReadOnce
      <4>6. \A q \in Pulls : Reads(q)' => stored'[pull'[q].mail] # "none" /\ read'[pull'[q].mail] = 0
        BY <2>1, <3>5, <4>1, <4>3, <4>4
      <4> QED
        BY <4>1, <4>3, <4>5, <4>6 DEF StoredInv
    <3> QED
        BY <2>1, <2>5, <2>6, <3>1, <3>2, <3>8, <3>9, <3>10, MailKept, MailFacts DEF NothingLeftBehind
  <2> QED
    BY <1>8, <2>1, <2>4, <2>5, MailFacts DEF ReadFacts
<1>9. ASSUME NEW p \in Pulls, ReportHealth(p) PROVE MailIInv'
  <2>1. Pulling(p) /\ EndPull(p) /\ UNCHANGED <<sender, strays, stored, threads, read, troubles>> /\ pull[p].box \in Boxes
    BY <1>9, MailFacts DEF ReportHealth, Pulling, PlaceInv
  <2>2. /\ box' \in [Boxes -> {"configured", "connected", "error", "deleted"}]
        /\ \A b \in Boxes : box'[b] = "deleted" <=> box[b] = "deleted"
    BY <1>9, <2>1, MailFacts DEF ReportHealth
  <2> QED
    BY <1>4, <2>1, <2>2, MailFacts
<1>10. ASSUME NEW p \in Pulls, PullThrows(p) PROVE MailIInv'
  <2>1. Pulling(p) /\ EndPull(p) /\ UNCHANGED <<box, sender, stored, threads, read>> /\ troubles' \in 0..MaxTroubles
    BY <1>10, MailFacts DEF PullThrows, Pulling, Trouble
  <2>2. strays' \subseteq Senders
    BY <1>10, MailFacts DEF PullThrows, Pulling, Handling, PlaceInv, Sender
  <2> QED
    BY <1>4, <2>1, <2>2, MailFacts
<1>11. ASSUME NEW b \in Boxes, RemoveBox(b) PROVE MailIInv'
  <2>1. /\ box' \in [Boxes -> {"configured", "connected", "error", "deleted"}] /\ box'[b] = "deleted"
        /\ \A c \in Boxes \ {b} : box'[c] = box[c]
        /\ UNCHANGED <<sender, strays, read, pull, troubles>>
    BY <1>11, MailFacts DEF RemoveBox
  <2>2. stored' \in [Mails -> Boxes \union {"none"}] /\ \A m \in Mails : stored'[m] = IF stored[m] = b THEN "none" ELSE stored[m]
    BY <1>11, MailFacts DEF RemoveBox
  <2>3. /\ threads' \in [Boxes \X Senders -> 0..Cardinality(Pulls)]
        /\ \A c \in Boxes, s \in Senders : threads'[<<c, s>>] = IF c = b THEN 0 ELSE threads[<<c, s>>]
    <3>1. DOMAIN threads = Boxes \X Senders
        BY MailFacts
    <3> QED
        BY <1>11, <3>1, MailFacts DEF RemoveBox
  <2>4. PlaceInv' /\ ReadsInv'
    BY <2>1, MailFacts DEF PlaceInv, ReadsInv, Pulling, Handling, Ahead
  <2>5. StoredInv'
    BY <2>1 DEF StoredInv
  <2>6. NothingLeftBehind'
    BY <2>1, <2>2, <2>3, MailFacts DEF NothingLeftBehind
  <2>7. ThreadsInv'
    <3> SUFFICES ASSUME NEW t \in Boxes \X Senders
                 PROVE  threads'[t] + Cardinality(Opening(t)') <= Cardinality(Pulls)
        BY DEF ThreadsInv
    <3>1. CASE t[1] = b
      <4>1. threads'[t] = 0
        BY <2>3, <3>1
      <4>2. Cardinality(Opening(t)') \in Nat /\ Cardinality(Opening(t)') <= Cardinality(Pulls)
        BY MailFacts, FS_Subset, FS_CardinalityType DEF Opening
      <4> QED
        BY <4>1, <4>2, MailFacts
    <3>2. CASE t[1] # b
      <4>1. threads'[t] = threads[t]
        BY <2>3, <3>2
      <4>2. Opening(t)' = Opening(t)
        BY <2>1, <4>1 DEF Opening, Pulling, Sender
      <4> QED
        BY <4>1, <4>2, OpeningCounts
    <3> QED
        BY <3>1, <3>2
  <2> QED
    BY <2>1, <2>2, <2>3, <2>4, <2>5, <2>6, <2>7, MailKept, MailFacts
<1>12. ASSUME UNCHANGED <<strays, stored, threads, read, pull, troubles>>,
              sender' \in [Senders -> {"unknown", "known", "blocked"}],
              box' \in [Boxes -> {"configured", "connected", "error", "deleted"}],
              \A b \in Boxes : box'[b] = "deleted" <=> box[b] = "deleted"
       PROVE  MailIInv'
  <2>1. PlaceInv' /\ ReadsInv' /\ ThreadsInv'
    BY <1>12, MailFacts DEF PlaceInv, ReadsInv, ThreadsInv, Pulling, Handling, Ahead, Opening, Sender
  <2>2. StoredInv'
    BY <1>12, MailFacts DEF StoredInv, ReadOnce, Reads
  <2>3. NothingLeftBehind'
    BY <1>12, MailFacts DEF NothingLeftBehind
  <2> QED
    BY <1>12, <2>1, <2>2, <2>3, MailKept, MailFacts
<1>13. ASSUME NEW b \in Boxes, NEW status \in {"connected", "error"}, CheckHealth(b, status) PROVE MailIInv'
    BY <1>12, <1>13, MailFacts DEF CheckHealth
<1>14. ASSUME NEW s \in Senders, BlockSender(s) PROVE MailIInv'
    BY <1>12, <1>14, MailFacts DEF BlockSender
<1>15. CASE UNCHANGED mailVars
    BY <1>12, <1>15, MailFacts DEF mailVars
<1> QED
    BY <1>1, <1>2, <1>5, <1>6, <1>7, <1>8, <1>9, <1>10, <1>11, <1>13, <1>14, <1>15, <1>16, <1>17, <1>18, <1>19
    DEF MailNext

(* However many pulls overlap and wherever they fail: as long as no mailbox *)
(* was removed, a mail is read for facts once at most, by the pull that     *)
(* stored it (ingestOne); a mailbox that was removed leaves nothing,        *)
(* whatever the pulls under way do then (remove); and a sender has at most  *)
(* one thread for each pull that met its first mail (getOrCreateThread).    *)
THEOREM MailsAreReadOnce == MailSpec => []MailSafe
<1>1. MailInit => MailIInv
  <2> SUFFICES ASSUME MailInit PROVE MailIInv
    OBVIOUS
  <2>0. IsFiniteSet(Pulls) /\ Cardinality(Pulls) \in Nat /\ MaxTroubles \in Nat
    BY MailConstants, FS_CardinalityType
  <2>1. /\ pull \in [Pulls -> PullPlace] /\ \A p \in Pulls : pull[p].pc = "idle"
        /\ box \in [Boxes -> {"configured", "connected", "error", "deleted"}]
        /\ \A b \in Boxes : box[b] # "deleted"
    BY DEF MailInit, Resting, PullPlace
  <2>2. MailTypeOK
    BY <2>0, <2>1 DEF MailInit, MailTypeOK
  <2>3. PlaceInv /\ StoredInv /\ NothingLeftBehind
    BY <2>1 DEF MailInit, PlaceInv, StoredInv, ReadOnce, NothingLeftBehind, Pulling, Handling, Reads
  <2>4. ReadsInv
    <3> SUFFICES ASSUME NEW m \in Mails PROVE read[m] + Cardinality(Ahead(m)) <= Cardinality(Pulls)
        BY DEF ReadsInv
    <3>1. Ahead(m) = Pulls /\ read[m] = 0
        BY <2>1 DEF Ahead, MailInit
    <3> QED
        BY <2>0, <3>1
  <2>5. ThreadsInv
    <3> SUFFICES ASSUME NEW t \in Boxes \X Senders PROVE threads[t] + Cardinality(Opening(t)) <= Cardinality(Pulls)
        BY DEF ThreadsInv
    <3>1. Opening(t) = Pulls /\ threads[t] = 0
        BY <2>1 DEF Opening, MailInit
    <3> QED
        BY <2>0, <3>1
  <2> QED
    BY <2>2, <2>3, <2>4, <2>5 DEF MailIInv, MailInv
<1>2. MailIInv => MailSafe
  <2> SUFFICES ASSUME MailIInv PROVE MailSafe
    OBVIOUS
  <2>1. ThreadPerPull
    BY MailFacts DEF ThreadPerPull
  <2> QED
    BY <2>1, MailFacts DEF MailSafe, MailIInv, StoredInv, ReadOnce
<1> QED
    BY <1>1, <1>2, MailStep, PTL DEF MailSpec

-------------------------------------------------------------------------------
(* Providers *)

LEMMA ProviderFacts ==
    ASSUME AiTypeOK
    PROVE  /\ providers \in Seq(Provider) /\ Len(providers) \in Nat /\ Ids = 1..Len(providers)
           /\ \A i \in Ids : providers[i] \in Provider
           /\ request \in [AiRequests -> Request(Len(providers))] /\ llm \in [AiCalls -> Call(Len(providers))]
BY ElementOfSeq, LenProperties DEF AiTypeOK, Ids

(* A patch gives a row other columns, and never another owner.              *)
LEMMA PatchedRow ==
    ASSUME NEW patch \in Patches, NEW row \in Provider
    PROVE  Patched(patch, row) \in Provider /\ Patched(patch, row).owner = row.owner
<1>1. DOMAIN patch \subseteq DOMAIN Column /\ \A c \in DOMAIN patch : patch[c] \in Column[c]
    BY AiConstants
<1>2. DOMAIN Column = {"scope", "space", "isActive", "isDefault", "prio", "adapter", "legible", "deleted"}
    BY DEF Column
<1>3. DOMAIN row = {"owner", "scope", "space", "isActive", "isDefault", "prio", "adapter", "legible", "deleted"}
    BY DEF Provider
<1> DEFINE new == [c \in DOMAIN row |-> IF c \in DOMAIN patch THEN patch[c] ELSE row[c]]
<1>4. DOMAIN new = DOMAIN row /\ \A c \in DOMAIN row : new[c] = IF c \in DOMAIN patch THEN patch[c] ELSE row[c]
    OBVIOUS
<1> HIDE DEF new
<1>5. /\ new.owner = row.owner
      /\ new.scope \in Scopes /\ new.space \in Spaces /\ new.prio \in Int
      /\ {new.isActive, new.isDefault, new.adapter, new.legible, new.deleted} \subseteq BOOLEAN
    BY <1>1, <1>2, <1>3, <1>4, SMTT(30) DEF Provider, Column
<1>6. new \in Provider
    BY <1>3, <1>4, <1>5, SMTT(30) DEF Provider, new
<1> QED
    BY <1>5, <1>6 DEF Patched, new

(* A request as a record, and one that has ended or just begun.             *)
LEMMA EndedFacts ==
    ASSUME NEW n \in Nat, NEW pc \in Places
    PROVE  /\ Ended(pc) \in Request(n) /\ Ended(pc).pc = pc /\ Ended(pc).row = 0 /\ Ended(pc).unset = {}
           /\ Ended(pc).owner = System /\ Ended(pc).patch = <<>> /\ Ended(pc).tier = <<>>
BY DEF Ended, NoRequest, Request, Owners, Places, Given, TierKeys

(* A step of one request that leaves the rows and the calls alone.          *)
LEMMA RequestMoves ==
    ASSUME AiTypeOK, AiInv, NEW r \in AiRequests, NEW q \in Request(Len(providers)),
           request' = [request EXCEPT ![r] = q], UNCHANGED <<providers, llm>>,
           coincided' \in BOOLEAN, coincided => coincided', Sound(q),
           ~coincided' => /\ Current(q) /\ q.pc # "refused"
                          /\ q.pc \in {"unset", "commit", "test"} => \A s \in AiRequests \ {r} : ~UnderWay(s)
    PROVE  AiTypeOK' /\ AiInv'
<1>1. /\ request' \in [AiRequests -> Request(Len(providers))] /\ request'[r] = q
      /\ \A s \in AiRequests \ {r} : request'[s] = request[s]
    BY ProviderFacts
<1>2. AiTypeOK'
    BY <1>1 DEF AiTypeOK
<1>3. \A c \in AiCalls : Bound(llm[c])'
    BY DEF AiInv, Bound
<1>4. OneDefault(providers)' /\ \A s \in AiRequests : Sound(request[s])'
    BY <1>1 DEF AiInv, RequestInv, Sound
<1>5. ASSUME ~coincided', NEW s \in AiRequests PROVE Current(request[s])' /\ request'[s].pc # "refused"
  <2>1. Current(request'[s]) /\ request'[s].pc # "refused"
    BY <1>1, <1>5 DEF AiInv, RequestInv
  <2>2. Current(request[s])'
    BY <2>1 DEF Current, Siblings, Ids
  <2> QED
    BY <2>1, <2>2
<1>6. ASSUME ~coincided', NEW s \in AiRequests, NEW u \in AiRequests, UnderWay(s)', UnderWay(u)' PROVE s = u
    BY <1>1, <1>6 DEF AiInv, RequestInv, UnderWay
<1> QED
    BY <1>2, <1>3, <1>4, <1>5, <1>6 DEF AiInv, RequestInv

LEMMA Starts ==
    ASSUME AiTypeOK, AiInv, NEW r \in AiRequests, NEW q \in Request(Len(providers)), Start(r, q),
           Sound(q), q.pc \in {"failed"} \/ (q.pc \in {"unset", "test"} /\ Current(q))
    PROVE  AiTypeOK' /\ AiInv'
<1>1. /\ request' = [request EXCEPT ![r] = q] /\ UNCHANGED <<providers, llm>>
      /\ coincided' = (coincided \/ \E s \in AiRequests : UnderWay(s))
    BY DEF Start
<1>2. coincided' \in BOOLEAN /\ (coincided => coincided') /\ (~coincided' => \A s \in AiRequests : ~UnderWay(s))
    BY <1>1 DEF AiTypeOK
<1>3. Current(q) /\ q.pc # "refused"
    BY DEF Current
<1> QED
    BY <1>1, <1>2, <1>3, RequestMoves

LEMMA CreateStep ==
    ASSUME AiTypeOK, AiInv, NEW r \in AiRequests, NEW owner \in Owners, NEW p \in NewRows,
           CreateProvider(r, owner, p)
    PROVE  AiTypeOK' /\ AiInv'
<1> DEFINE new == [p EXCEPT !.owner = owner]
           q == [Ended("unset") EXCEPT !.owner = owner, !.patch = new, !.tier = <<owner, p.scope, p.space>>]
<1>1. p \in Provider
    BY AiConstants
<1>2. new \in Provider /\ Tier(new) = <<owner, p.scope, p.space>>
    BY <1>1 DEF Provider, Tier
<1>3. Start(r, q)
    BY DEF CreateProvider
<1>4. <<owner, p.scope, p.space>> \in Owners \X Scopes \X Spaces
    BY <1>1 DEF Provider
<1> HIDE DEF new
<1>5. Ended("unset") \in Request(Len(providers)) /\ Ended("unset").pc = "unset" /\ Ended("unset").row = 0
    BY EndedFacts, ProviderFacts DEF Places
<1>6. /\ q \in Request(Len(providers))
      /\ q.pc = "unset" /\ q.row = 0 /\ q.patch = new /\ q.tier = Tier(new)
  <2>1. new \in Given /\ <<owner, p.scope, p.space>> \in TierKeys
    BY <1>2, <1>4 DEF Given, TierKeys
  <2> QED
    BY <1>2, <1>5, <2>1 DEF Request
<1> HIDE DEF q
<1>7. Sound(q) /\ Current(q)
    BY <1>2, <1>6 DEF Sound, Current
<1> QED
    BY <1>3, <1>6, <1>7, Starts

LEMMA ChangeStep ==
    ASSUME AiTypeOK, AiInv, NEW r \in AiRequests, NEW owner \in Owners, NEW i \in Ids, NEW patch \in Patches,
           ChangeProvider(r, owner, i, patch)
    PROVE  AiTypeOK' /\ AiInv'
<1> DEFINE row == Patched(patch, providers[i])
           q == [Ended("unset") EXCEPT !.owner = owner, !.row = i, !.patch = patch, !.tier = Tier(row)]
<1>1. row \in Provider /\ i \in 1..Len(providers) /\ Len(providers) \in Nat
    BY PatchedRow, ProviderFacts
<1> HIDE DEF row
<1>2. CASE ~GetOwnedRow(owner, i)
  <2>1. Start(r, Ended("failed"))
    BY <1>2 DEF ChangeProvider
  <2> QED
    BY <1>1, <2>1, EndedFacts, Starts DEF Sound, Places
<1>3. CASE GetOwnedRow(owner, i)
  <2>1. Start(r, q)
    BY <1>3 DEF ChangeProvider, row
  <2>2. Ended("unset") \in Request(Len(providers)) /\ Ended("unset").pc = "unset"
    BY <1>1, EndedFacts DEF Places
  <2>3. Tier(row) \in TierKeys /\ patch \in Given
    BY <1>1 DEF Provider, Tier, TierKeys, Given
  <2>4. q \in Request(Len(providers)) /\ q.pc = "unset" /\ q.row = i /\ q.patch = patch /\ q.tier = Tier(row)
    <3> DEFINE Rows == 0..Len(providers)
               Unsets == SUBSET (1..Len(providers))
    <3>1. Ended("unset") \in [pc : Places, owner : Owners, row : Rows, patch : Given, tier : TierKeys, unset : Unsets]
      BY <2>2 DEF Request
    <3>2. i \in Rows
      BY <1>1
    <3> HIDE DEF Rows, Unsets
    <3>3. /\ q \in [pc : Places, owner : Owners, row : Rows, patch : Given, tier : TierKeys, unset : Unsets]
          /\ q.pc = "unset" /\ q.row = i /\ q.patch = patch /\ q.tier = Tier(row)
      BY <2>2, <2>3, <3>1, <3>2
    <3> HIDE DEF q
    <3> QED
      BY <3>3 DEF Request, Rows, Unsets
  <2> HIDE DEF q
  <2>5. q.row # 0
    BY <1>1, <2>4
  <2>6. Sound(q) /\ Current(q)
    BY <1>3, <2>4, <2>5 DEF Sound, Current, GetOwnedRow, row
  <2> QED
    BY <2>1, <2>4, <2>5, <2>6, Starts
<1> QED
    BY <1>2, <1>3

LEMMA TestStep ==
    ASSUME AiTypeOK, AiInv, NEW r \in AiRequests, NEW owner \in Owners, NEW i \in Ids,
           TestConnection(r, owner, i)
    PROVE  AiTypeOK' /\ AiInv'
<1> DEFINE q == [Ended("test") EXCEPT !.owner = owner, !.row = i]
<1>1. i \in 1..Len(providers) /\ Len(providers) \in Nat
    BY ProviderFacts
<1>2. CASE Start(r, Ended("failed"))
    BY <1>1, <1>2, EndedFacts, Starts DEF Sound, Places
<1>3. CASE Start(r, q)
  <2>1. Ended("test") \in Request(Len(providers)) /\ Ended("test").pc = "test"
    BY <1>1, EndedFacts DEF Places
  <2>2. q \in Request(Len(providers)) /\ q.pc = "test" /\ q.row = i
    <3> DEFINE Rows == 0..Len(providers)
               Unsets == SUBSET (1..Len(providers))
    <3>1. Ended("test") \in [pc : Places, owner : Owners, row : Rows, patch : Given, tier : TierKeys, unset : Unsets]
      BY <2>1 DEF Request
    <3>2. i \in Rows
      BY <1>1
    <3> HIDE DEF Rows, Unsets
    <3>3. /\ q \in [pc : Places, owner : Owners, row : Rows, patch : Given, tier : TierKeys, unset : Unsets]
          /\ q.pc = "test" /\ q.row = i
      BY <2>1, <3>1, <3>2
    <3> HIDE DEF q
    <3> QED
      BY <3>3 DEF Request, Rows, Unsets
  <2> HIDE DEF q
  <2> QED
    BY <1>1, <1>3, <2>2, Starts DEF Sound, Current
<1> QED
    BY <1>2, <1>3 DEF TestConnection

LEMMA UnsetStep ==
    ASSUME AiTypeOK, AiInv, NEW r \in AiRequests, UnsetSiblingDefaults(r)
    PROVE  AiTypeOK' /\ AiInv'
<1>1. PICK q : q = request[r]
    OBVIOUS
<1> DEFINE cleared == IF MakesDefault(q) THEN Siblings(q.tier, q.row) ELSE {}
           new == [q EXCEPT !.pc = "commit", !.unset = cleared]
<1>2. q \in Request(Len(providers)) /\ q.pc = "unset" /\ Sound(q) /\ UnderWay(r)
    BY <1>1, ProviderFacts DEF UnsetSiblingDefaults, AiInv, RequestInv, UnderWay
<1>3. cleared \subseteq 1..Len(providers)
    BY ProviderFacts DEF Siblings
<1>4. request' = [request EXCEPT ![r] = new] /\ UNCHANGED <<providers, llm, coincided>>
  <2> HIDE DEF cleared
  <2>1. request' = [request EXCEPT ![r].pc = "commit", ![r].unset = cleared]
    BY <1>1 DEF UnsetSiblingDefaults, cleared
  <2> QED
    BY <1>1, <2>1, ProviderFacts DEF UnsetSiblingDefaults
<1> HIDE DEF cleared
<1>5. /\ new \in Request(Len(providers)) /\ new.pc = "commit" /\ new.unset = cleared
      /\ new.row = q.row /\ new.patch = q.patch /\ new.tier = q.tier
    BY <1>2, <1>3 DEF Request, Places
<1> HIDE DEF new
<1>6. Sound(new) /\ (Current(q) => Current(new))
    BY <1>2, <1>5 DEF Sound, Current, MakesDefault, cleared
<1>7. ~coincided => Current(q) /\ \A s \in AiRequests \ {r} : ~UnderWay(s)
    BY <1>1, <1>2 DEF AiInv, RequestInv
<1>8. /\ coincided' \in BOOLEAN /\ (coincided => coincided') /\ new.pc # "refused"
      /\ ~coincided' => Current(new) /\ \A s \in AiRequests \ {r} : ~UnderWay(s)
    BY <1>4, <1>5, <1>6, <1>7 DEF AiTypeOK
<1>9. Sound(new) /\ UNCHANGED <<providers, llm>>
    BY <1>4, <1>6
<1> QED
    BY <1>4, <1>5, <1>8, <1>9, RequestMoves

(* A request that ends without a write.                                     *)
LEMMA Ends ==
    ASSUME AiTypeOK, AiInv, NEW r \in AiRequests, NEW pc \in {"done", "failed"},
           request' = [request EXCEPT ![r] = Ended(pc)], UNCHANGED <<providers, llm, coincided>>
    PROVE  AiTypeOK' /\ AiInv'
<1>1. /\ Ended(pc) \in Request(Len(providers)) /\ Ended(pc).pc = pc /\ coincided' \in BOOLEAN
      /\ Sound(Ended(pc)) /\ Current(Ended(pc))
    BY EndedFacts, ProviderFacts DEF AiTypeOK, Sound, Current, Places
<1> QED
    BY <1>1, RequestMoves

(* What the transaction leaves of the rows it clears, and what it writes.   *)
LEMMA KeptRows ==
    ASSUME AiTypeOK, NEW ids \in SUBSET Ids
    PROVE  /\ WithoutDefaults(ids) \in Seq(Provider) /\ Len(WithoutDefaults(ids)) = Len(providers)
           /\ \A j \in Ids : LET row == WithoutDefaults(ids)[j] IN
                /\ row \in Provider /\ row.owner = providers[j].owner /\ row.deleted = providers[j].deleted
                /\ Tier(row) = Tier(providers[j]) /\ (row.isDefault <=> j \notin ids /\ providers[j].isDefault)
                /\ j \notin ids => row = providers[j]
<1> DEFINE Row(j) == IF j \in ids THEN [providers[j] EXCEPT !.isDefault = FALSE] ELSE providers[j]
<1>1. ASSUME NEW j \in Ids
      PROVE  /\ Row(j) \in Provider /\ Row(j).owner = providers[j].owner /\ Row(j).deleted = providers[j].deleted
             /\ Tier(Row(j)) = Tier(providers[j]) /\ (Row(j).isDefault <=> j \notin ids /\ providers[j].isDefault)
             /\ j \notin ids => Row(j) = providers[j]
    BY ProviderFacts DEF Provider, Tier
<1>2. WithoutDefaults(ids) = [j \in 1..Len(providers) |-> Row(j)] /\ Ids = 1..Len(providers) /\ Len(providers) \in Nat
    BY ProviderFacts DEF WithoutDefaults
<1> HIDE DEF Row
<1>3. WithoutDefaults(ids) \in Seq(Provider) /\ Len(WithoutDefaults(ids)) = Len(providers)
    BY <1>1, <1>2, IsASeq, LenProperties
<1>4. \A j \in Ids : WithoutDefaults(ids)[j] = Row(j)
    BY <1>2
<1> QED
    BY <1>1, <1>3, <1>4

LEMMA WrittenRows ==
    ASSUME AiTypeOK, AiInv, NEW r \in AiRequests, request[r].pc = "commit"
    PROVE  LET q == request[r]
               kept == WithoutDefaults(q.unset)
               rows == Written(q, kept)
           IN  /\ rows \in Seq(Provider) /\ Len(providers) <= Len(rows) /\ DOMAIN rows = 1..Len(rows)
               /\ q.unset \subseteq Ids /\ q.row \in {0} \union Ids
               /\ \A j \in Ids : rows[j].owner = providers[j].owner
               /\ \A j \in Ids \ {q.row} : rows[j] = kept[j]
               /\ q.row = 0 => /\ q.patch \in Provider /\ Len(rows) = Len(providers) + 1
                               /\ rows[Len(providers) + 1] = q.patch
               /\ q.row # 0 => /\ q.patch \in Patches /\ Len(rows) = Len(providers)
                               /\ rows[q.row] = Patched(q.patch, kept[q.row])
<1>1. PICK q : q = request[r]
    OBVIOUS
<1>2. PICK kept : kept = WithoutDefaults(q.unset)
    OBVIOUS
<1>3. /\ q \in Request(Len(providers)) /\ Sound(q) /\ q.pc = "commit" /\ Len(providers) \in Nat
      /\ Ids = 1..Len(providers)
    BY <1>1, ProviderFacts DEF AiInv, RequestInv
<1>4. q.unset \subseteq Ids /\ q.row \in {0} \union Ids
    BY <1>3 DEF Request
<1>5. /\ kept \in Seq(Provider) /\ Len(kept) = Len(providers) /\ DOMAIN kept = 1..Len(providers)
      /\ \A j \in Ids : kept[j] \in Provider /\ kept[j].owner = providers[j].owner
    BY <1>2, <1>3, <1>4, KeptRows, LenProperties
<1>6. CASE q.row = 0
  <2>1. q.patch \in Provider /\ Written(q, kept) = Append(kept, q.patch)
    BY <1>3, <1>6 DEF Sound, Written
  <2>2. /\ Append(kept, q.patch) \in Seq(Provider) /\ Len(Append(kept, q.patch)) = Len(providers) + 1
        /\ \A j \in 1..Len(providers) : Append(kept, q.patch)[j] = kept[j]
        /\ Append(kept, q.patch)[Len(providers) + 1] = q.patch
    BY <1>3, <1>5, <2>1, AppendProperties
  <2>3. DOMAIN Append(kept, q.patch) = 1..Len(Append(kept, q.patch)) /\ Len(providers) <= Len(providers) + 1
    BY <1>3, <2>2, LenProperties
  <2> QED
    BY <1>1, <1>2, <1>3, <1>4, <1>5, <1>6, <2>1, <2>2, <2>3
<1>7. CASE q.row # 0
  <2> DEFINE new == Patched(q.patch, kept[q.row])
  <2>1. q.patch \in Patches /\ q.row \in Ids /\ Written(q, kept) = [kept EXCEPT ![q.row] = new]
    BY <1>3, <1>4, <1>7 DEF Sound, Written
  <2>2. new \in Provider /\ new.owner = kept[q.row].owner
    BY <1>5, <2>1, PatchedRow
  <2> HIDE DEF new
  <2>3. /\ [kept EXCEPT ![q.row] = new] \in Seq(Provider) /\ Len([kept EXCEPT ![q.row] = new]) = Len(providers)
        /\ \A j \in 1..Len(providers) : [kept EXCEPT ![q.row] = new][j] = IF j = q.row THEN new ELSE kept[j]
    BY <1>3, <1>5, <2>1, <2>2, ExceptSeq
  <2>4. DOMAIN [kept EXCEPT ![q.row] = new] = 1..Len(providers) /\ Len(providers) <= Len(providers)
    BY <1>3, <1>5
  <2> HIDE DEF new
  <2>5. \A j \in Ids : [kept EXCEPT ![q.row] = new][j].owner = providers[j].owner
    BY <1>3, <1>5, <2>1, <2>2, <2>3
  <2>6. [kept EXCEPT ![q.row] = new][q.row] = Patched(q.patch, kept[q.row])
    BY <1>3, <2>1, <2>3 DEF new
  <2> QED
    BY <1>1, <1>2, <1>3, <1>4, <1>7, <2>1, <2>3, <2>4, <2>5, <2>6
<1> QED
    BY <1>6, <1>7

(* A request that is alone never writes a second default.                   *)
LEMMA NoClash ==
    ASSUME AiTypeOK, AiInv, ~coincided, NEW r \in AiRequests, request[r].pc = "commit",
           ~MovesDefault(request[r])
    PROVE  OneDefault(Written(request[r], WithoutDefaults(request[r].unset)))
<1>1. PICK q : q = request[r]
    OBVIOUS
<1>2. PICK kept : kept = WithoutDefaults(q.unset)
    OBVIOUS
<1>3. PICK rows : rows = Written(q, kept)
    OBVIOUS
<1>4. PICK w : w = IF q.row = 0 THEN Len(providers) + 1 ELSE q.row
    OBVIOUS
<1>5. /\ DOMAIN rows = 1..Len(rows) /\ Len(rows) \in Nat /\ Ids = 1..Len(providers) /\ Len(providers) \in Nat
      /\ q.unset \subseteq Ids /\ q.row \in {0} \union Ids
      /\ \A j \in Ids \ {q.row} : rows[j] = kept[j]
      /\ q.row = 0 => q.patch \in Provider /\ Len(rows) = Len(providers) + 1 /\ rows[Len(providers) + 1] = q.patch
      /\ q.row # 0 => q.patch \in Patches /\ Len(rows) = Len(providers) /\ rows[q.row] = Patched(q.patch, kept[q.row])
    BY <1>1, <1>2, <1>3, WrittenRows, ProviderFacts, LenProperties
<1>6. /\ Current(q) /\ q.pc = "commit" /\ OneDefault(providers) /\ ~MovesDefault(q)
    BY <1>1 DEF AiInv, RequestInv
<1>7. \A j \in Ids : /\ kept[j].deleted = providers[j].deleted /\ Tier(kept[j]) = Tier(providers[j])
                     /\ (kept[j].isDefault <=> j \notin q.unset /\ providers[j].isDefault)
                     /\ j \notin q.unset => kept[j] = providers[j]
  <2>1. q.unset \in SUBSET Ids
    BY <1>5
  <2>2. \A j \in Ids : LET row == WithoutDefaults(q.unset)[j] IN
            /\ row.deleted = providers[j].deleted /\ Tier(row) = Tier(providers[j])
            /\ (row.isDefault <=> j \notin q.unset /\ providers[j].isDefault)
            /\ j \notin q.unset => row = providers[j]
    BY <2>1, KeptRows
  <2> QED
    BY <1>2, <2>2
<1>8. q.row \notin q.unset /\ q.unset = IF MakesDefault(q) THEN Siblings(q.tier, q.row) ELSE {}
    BY <1>5, <1>6 DEF Current, Siblings
<1>9. q.tier = Tier(rows[w]) /\ (q.row # 0 => ~providers[q.row].deleted)
  <2>1. CASE q.row = 0
    BY <1>4, <1>5, <1>6, <2>1 DEF Current
  <2>2. CASE q.row # 0
    <3>1. q.row \in Ids /\ kept[q.row] = providers[q.row]
      BY <1>5, <1>7, <1>8, <2>2
    <3>2. rows[w] = Patched(q.patch, providers[q.row])
      BY <1>4, <1>5, <2>2, <3>1
    <3> QED
      BY <1>6, <2>2, <3>2 DEF Current
  <2> QED
    BY <2>1, <2>2
<1>10. \A j \in DOMAIN rows \ {w} : j \in Ids /\ j # q.row /\ rows[j] = kept[j]
  <2>1. ASSUME NEW j \in DOMAIN rows, j # w PROVE j \in Ids \ {q.row}
    <3>1. CASE q.row = 0
      <4>1. w = Len(providers) + 1 /\ DOMAIN rows = 1..(Len(providers) + 1)
        <5>1. w = Len(providers) + 1
          BY <1>4, <3>1
        <5>2. Len(rows) = Len(providers) + 1
          BY <1>5, <3>1
        <5>3. DOMAIN rows = 1..Len(rows)
          BY <1>5
        <5> QED
          BY <5>1, <5>2, <5>3
      <4>2. Len(providers) \in Nat /\ Ids = 1..Len(providers)
        BY <1>5
      <4>3. j \in 1..Len(providers) /\ j # 0
        BY <2>1, <4>1, <4>2
      <4> QED
        BY <3>1, <4>2, <4>3
    <3>2. CASE q.row # 0
      BY <1>4, <1>5, <2>1, <3>2
    <3> QED
      BY <3>1, <3>2
  <2> QED
    BY <1>5, <2>1
<1>11. ASSUME NEW j \in DOMAIN rows \ {w}, rows[w].isDefault, rows[j].isDefault, ~rows[j].deleted,
              Tier(rows[j]) = Tier(rows[w])
       PROVE  FALSE
  <2>1. /\ j \in Ids /\ j # q.row /\ j \notin q.unset /\ providers[j].isDefault /\ ~providers[j].deleted
        /\ Tier(providers[j]) = q.tier
    BY <1>7, <1>9, <1>10, <1>11
  <2>2. ~MakesDefault(q)
    BY <1>8, <2>1 DEF Siblings
  <2>3. CASE q.row = 0
    BY <1>4, <1>5, <1>11, <2>2, <2>3 DEF MakesDefault, Provider
  <2>4. CASE q.row # 0
    <3>1. /\ q.row \in Ids /\ kept[q.row] = providers[q.row] /\ w = q.row
          /\ rows[w] = Patched(q.patch, providers[q.row]) /\ providers[q.row] \in Provider
      BY <1>4, <1>5, <1>7, <1>8, <2>4, ProviderFacts
    <3>2. "isDefault" \in DOMAIN providers[q.row]
      BY <3>1 DEF Provider
    <3>3. providers[q.row].isDefault
      BY <1>11, <2>2, <3>1, <3>2 DEF MakesDefault, Patched
    <3>4. Tier(rows[w]) = Tier(providers[q.row])
      BY <1>6, <2>2, <2>4, <3>1, <3>3 DEF MovesDefault
    <3> QED
      BY <1>6, <1>9, <2>1, <2>4, <3>1, <3>3, <3>4 DEF OneDefault, Ids
  <2> QED
    BY <2>3, <2>4
<1>12. ASSUME NEW i \in DOMAIN rows \ {w}, NEW j \in DOMAIN rows \ {w}, i # j, rows[i].isDefault, rows[j].isDefault,
              ~rows[i].deleted, ~rows[j].deleted
       PROVE  Tier(rows[i]) # Tier(rows[j])
    BY <1>6, <1>7, <1>10, <1>12 DEF OneDefault, Ids
<1> QED
    BY <1>1, <1>2, <1>3, <1>11, <1>12 DEF OneDefault

LEMMA CommitStep ==
    ASSUME AiTypeOK, AiInv, NEW r \in AiRequests, CommitProvider(r)
    PROVE  AiTypeOK' /\ AiInv'
<1>1. PICK q : q = request[r]
    OBVIOUS
<1>2. PICK rows : rows = Written(q, WithoutDefaults(q.unset))
    OBVIOUS
<1>3. /\ q.pc = "commit" /\ UNCHANGED llm /\ UnderWay(r)
      /\ \/ request' = [request EXCEPT ![r] = Ended("failed")] /\ UNCHANGED <<providers, coincided>>
         \/ /\ ~OneDefault(rows) /\ request' = [request EXCEPT ![r] = Ended("refused")] /\ UNCHANGED providers
            /\ coincided' = (coincided \/ MovesDefault(q))
         \/ /\ OneDefault(rows) /\ request' = [request EXCEPT ![r] = Ended("done")] /\ providers' = rows
            /\ UNCHANGED coincided
    BY <1>1, <1>2 DEF CommitProvider, Commit, UnderWay
<1>4. CASE request' = [request EXCEPT ![r] = Ended("failed")] /\ UNCHANGED <<providers, coincided>>
    BY <1>3, <1>4, Ends
<1>5. CASE /\ ~OneDefault(rows) /\ request' = [request EXCEPT ![r] = Ended("refused")] /\ UNCHANGED providers
           /\ coincided' = (coincided \/ MovesDefault(q))
  <2>1. coincided'
    BY <1>1, <1>2, <1>3, <1>5, NoClash
  <2>2. /\ Ended("refused") \in Request(Len(providers)) /\ Ended("refused").pc = "refused" /\ coincided' \in BOOLEAN
        /\ Sound(Ended("refused")) /\ UNCHANGED <<providers, llm>>
    <3>1. coincided \in BOOLEAN /\ MovesDefault(q) \in BOOLEAN
      BY DEF AiTypeOK, MovesDefault
    <3> QED
      BY <1>3, <1>5, <2>1, EndedFacts, ProviderFacts DEF Sound, Places
  <2> QED
    BY <1>5, <2>1, <2>2, RequestMoves
<1>6. CASE /\ OneDefault(rows) /\ request' = [request EXCEPT ![r] = Ended("done")] /\ providers' = rows
           /\ UNCHANGED coincided
  <2>1. /\ rows \in Seq(Provider) /\ Len(providers) <= Len(rows) /\ Len(rows) \in Nat /\ Len(providers) \in Nat
        /\ Ids = 1..Len(providers) /\ \A j \in Ids : rows[j].owner = providers[j].owner
    BY <1>1, <1>2, <1>3, WrittenRows, ProviderFacts, LenProperties
  <2>2. request \in [AiRequests -> Request(Len(rows))] /\ llm \in [AiCalls -> Call(Len(rows))]
    <3>1. \A p \in Request(Len(providers)) : p \in Request(Len(rows))
      BY <2>1 DEF Request
    <3>2. \A l \in Call(Len(providers)) : l \in Call(Len(rows))
      BY <2>1 DEF Call
    <3> QED
      BY <3>1, <3>2, ProviderFacts
  <2>3. Ended("done") \in Request(Len(rows)) /\ Ended("done").pc = "done"
    BY <2>1, EndedFacts DEF Places
  <2>4. /\ request' \in [AiRequests -> Request(Len(rows))] /\ request'[r].pc = "done"
        /\ \A s \in AiRequests \ {r} : request'[s] = request[s]
    BY <1>6, <2>2, <2>3
  <2>5. AiTypeOK'
    BY <1>3, <1>6, <2>1, <2>2, <2>4 DEF AiTypeOK
  <2>6. \A c \in AiCalls : Bound(llm[c])'
    <3> SUFFICES ASSUME NEW c \in AiCalls PROVE Bound(llm[c])'
      OBVIOUS
    <3>1. Bound(llm[c]) /\ llm[c] \in Call(Len(providers))
      BY ProviderFacts DEF AiInv
    <3>2. llm[c].row # 0 => llm[c].row \in Ids
      BY <2>1, <3>1 DEF Call
    <3> QED
      BY <1>3, <1>6, <2>1, <3>1, <3>2 DEF Bound
  <2>7. \A s \in AiRequests : Sound(request[s])'
    BY <2>4 DEF AiInv, RequestInv, Sound
  <2>8. ASSUME ~coincided', NEW s \in AiRequests
        PROVE  ~UnderWay(s)' /\ Current(request[s])' /\ request'[s].pc # "refused"
    BY <1>3, <1>6, <2>4, <2>8 DEF AiInv, RequestInv, UnderWay, Current
  <2> QED
    BY <1>6, <2>5, <2>6, <2>7, <2>8 DEF AiInv, RequestInv
<1> QED
    BY <1>3, <1>4, <1>5, <1>6

-------------------------------------------------------------------------------
(* The choice of a provider *)

(* A finite total order has a first element: otherwise each element would    *)
(* have fewer behind it than there are elements, and two would have as many. *)
LEMMA FirstOfOrder ==
    ASSUME NEW S, IsFiniteSet(S), S # {}, NEW R,
           \A x, y \in S : <<x, y>> \in R \/ <<y, x>> \in R,
           \A x, y \in S : <<x, y>> \in R /\ <<y, x>> \in R => x = y,
           \A x, y, z \in S : <<x, y>> \in R /\ <<y, z>> \in R => <<x, z>> \in R
    PROVE  \E x \in S : \A y \in S : <<x, y>> \in R
<1> DEFINE Behind(x) == {y \in S : <<x, y>> \in R}
           rank == [x \in S |-> Cardinality(Behind(x))]
           n == Cardinality(S) - 1
<1>1. \A x \in S : IsFiniteSet(Behind(x)) /\ Cardinality(Behind(x)) \in Nat /\ Cardinality(Behind(x)) # 0
  <2> SUFFICES ASSUME NEW x \in S
               PROVE  IsFiniteSet(Behind(x)) /\ Cardinality(Behind(x)) \in Nat /\ Cardinality(Behind(x)) # 0
    OBVIOUS
  <2>1. Behind(x) \in SUBSET S /\ x \in Behind(x)
    OBVIOUS
  <2> HIDE DEF Behind
  <2>2. IsFiniteSet(Behind(x))
    BY <2>1, FS_Subset
  <2> QED
    BY <2>1, <2>2, FS_CardinalityType, FS_EmptySet
<1>2. \A x, y \in S : <<x, y>> \in R /\ x # y => Cardinality(Behind(x)) # Cardinality(Behind(y))
  <2> SUFFICES ASSUME NEW x \in S, NEW y \in S, <<x, y>> \in R, x # y
               PROVE  Cardinality(Behind(x)) # Cardinality(Behind(y))
    OBVIOUS
  <2>1. Behind(y) \in SUBSET Behind(x) /\ x \in Behind(x) /\ x \notin Behind(y)
    OBVIOUS
  <2>2. IsFiniteSet(Behind(x))
    BY <1>1
  <2> HIDE DEF Behind
  <2>3. Cardinality(Behind(x)) = Cardinality(Behind(y)) => Behind(x) = Behind(y)
    BY <2>1, <2>2, FS_Subset
  <2> QED
    BY <2>1, <2>3
<1> SUFFICES ASSUME \A x \in S : \E y \in S : <<x, y>> \notin R PROVE FALSE
  OBVIOUS
<1>3. Cardinality(S) \in Nat /\ Cardinality(S) # 0
  BY FS_CardinalityType, FS_EmptySet
<1>4. \A x \in S : Cardinality(Behind(x)) < Cardinality(S)
  <2> SUFFICES ASSUME NEW x \in S PROVE Cardinality(Behind(x)) < Cardinality(S)
    OBVIOUS
  <2>1. PICK y \in S : <<x, y>> \notin R
    OBVIOUS
  <2>2. Behind(x) \in SUBSET S /\ y \notin Behind(x)
    BY <2>1
  <2> HIDE DEF Behind
  <2>3. Cardinality(Behind(x)) <= Cardinality(S) /\ Cardinality(Behind(x)) # Cardinality(S)
    BY <2>1, <2>2, FS_Subset
  <2> QED
    BY <1>1, <1>3, <2>3
<1>5. rank \in [S -> 1..n]
  <2>1. \A x \in S : Cardinality(Behind(x)) \in 1..n
    <3> HIDE DEF Behind
    <3> QED
      BY <1>1, <1>3, <1>4
  <2> HIDE DEF Behind, n
  <2> QED
    BY <2>1
<1>6. IsFiniteSet(1..n) /\ Cardinality(1..n) < Cardinality(S)
  <2>1. n \in Int /\ 1 \in Int /\ n < Cardinality(S) /\ n >= 0
    BY <1>3
  <2> HIDE DEF n
  <2>2. IsFiniteSet(1..n) /\ Cardinality(1..n) = IF 1 > n THEN 0 ELSE n - 1 + 1
    BY <2>1, FS_Interval
  <2>3. Cardinality(1..n) = n
    BY <2>1, <2>2
  <2> QED
    BY <2>1, <2>2, <2>3
<1>7. PICK x, y \in S : x # y /\ rank[x] = rank[y]
  <2> DEFINE T == 1..n
  <2> HIDE DEF rank, n
  <2>1. rank \in [S -> T] /\ IsFiniteSet(T) /\ Cardinality(T) < Cardinality(S)
    BY <1>5, <1>6
  <2> HIDE DEF T
  <2> QED
    BY <2>1, FS_PigeonHole
<1>8. Cardinality(Behind(x)) = Cardinality(Behind(y))
  BY <1>7
<1> HIDE DEF Behind, rank
<1> QED
  BY <1>2, <1>7, <1>8

(* A tier has one row before all others: default first, then priority, then *)
(* age.                                                                     *)
LEMMA BestOfTier ==
    ASSUME AiTypeOK, NEW tier \in SUBSET Ids, tier # {}
    PROVE  LET best == CHOOSE i \in tier : \A j \in tier : Before(i, j) IN
           best \in tier /\ \A j \in tier : Before(best, j)
<1> DEFINE R == {x \in tier \X tier : Before(x[1], x[2])}
<1>1. \A x, y \in tier : <<x, y>> \in R <=> Before(x, y)
  <2> SUFFICES ASSUME NEW x \in tier, NEW y \in tier PROVE <<x, y>> \in R <=> Before(x, y)
    OBVIOUS
  <2>1. <<x, y>> \in tier \X tier /\ <<x, y>>[1] = x /\ <<x, y>>[2] = y
    OBVIOUS
  <2> QED
    BY <2>1, ZenonT(30)
<1> HIDE DEF R
<1>2. \A i \in tier : i \in Int /\ providers[i].prio \in Int /\ providers[i].isDefault \in BOOLEAN
  BY ProviderFacts DEF Provider
<1>3. IsFiniteSet(tier)
  <2>1. Len(providers) \in Int /\ 1 \in Int
    BY ProviderFacts
  <2>2. IsFiniteSet(Ids)
    BY <2>1, ProviderFacts, FS_Interval
  <2> QED
    BY <2>2, FS_Subset
<1>4. \A x, y \in tier : Before(x, y) \/ Before(y, x)
  BY <1>2 DEF Before
<1>5. \A x, y \in tier : Before(x, y) /\ Before(y, x) => x = y
  BY <1>2 DEF Before
<1>6. \A x, y, z \in tier : Before(x, y) /\ Before(y, z) => Before(x, z)
  BY <1>2 DEF Before
<1>7. \E x \in tier : \A y \in tier : <<x, y>> \in R
  BY <1>1, <1>3, <1>4, <1>5, <1>6, FirstOfOrder
<1>8. \E i \in tier : \A j \in tier : Before(i, j)
  BY <1>1, <1>7
<1> QED
  BY <1>8

(* The first of six sets that is not empty.                                 *)
LEMMA FirstOfSix ==
    ASSUME NEW sets, DOMAIN sets = 1..6
    PROVE  \/ First(sets) = {} /\ \A k \in 1..6 : sets[k] = {}
           \/ \E k \in 1..6 : /\ sets[k] # {} /\ First(sets) = sets[k]
                              /\ \A l \in 1..6 : l < k => sets[l] = {}
<1> DEFINE full == {k \in DOMAIN sets : sets[k] # {}}
<1>1. CASE full = {}
  BY <1>1 DEF First
<1>2. CASE full # {}
  <2> DEFINE k == CHOOSE k \in full : \A l \in full : k <= l
  <2>1. \E i \in full : \A l \in full : i <= l
    <3>1. \A l \in full : l = 1 \/ l = 2 \/ l = 3 \/ l = 4 \/ l = 5 \/ l = 6
      BY SMTT(30)
    <3> HIDE DEF full
    <3>2. CASE 1 \in full
      BY <3>1, <3>2
    <3>3. CASE 1 \notin full /\ 2 \in full
      BY <3>1, <3>3
    <3>4. CASE 1 \notin full /\ 2 \notin full /\ 3 \in full
      BY <3>1, <3>4
    <3>5. CASE 1 \notin full /\ 2 \notin full /\ 3 \notin full /\ 4 \in full
      BY <3>1, <3>5
    <3>6. CASE 1 \notin full /\ 2 \notin full /\ 3 \notin full /\ 4 \notin full /\ 5 \in full
      BY <3>1, <3>6
    <3>7. CASE 1 \notin full /\ 2 \notin full /\ 3 \notin full /\ 4 \notin full /\ 5 \notin full
      BY <1>2, <3>1, <3>7
    <3> QED
      BY <3>2, <3>3, <3>4, <3>5, <3>6, <3>7
  <2>2. k \in full /\ \A l \in full : k <= l
    BY <2>1
  <2>3. First(sets) = sets[k]
    BY <1>2 DEF First
  <2> HIDE DEF k
  <2> QED
    BY <2>2, <2>3
<1> QED
  BY <1>1, <1>2

LEMMA ThreeAndThree ==
    ASSUME NEW S, NEW a \in Seq(S), NEW b \in Seq(S), Len(a) = 3, Len(b) = 3
    PROVE  /\ a \o b \in Seq(S) /\ Len(a \o b) = 6
           /\ \A k \in 1..6 : (a \o b)[k] = IF k <= 3 THEN a[k] ELSE b[k - 3]
<1>1. /\ a \o b \in Seq(S) /\ Len(a \o b) = Len(a) + Len(b)
      /\ \A i \in 1..Len(a) + Len(b) : (a \o b)[i] = IF i <= Len(a) THEN a[i] ELSE b[i - Len(a)]
    BY ConcatProperties, ZenonT(30)
<1> QED
    BY <1>1

(* The tiers of a user and a use, best first: the user's three, then        *)
(* SYSTEM's.                                                                *)
LEMMA SixTiers ==
    ASSUME AiTypeOK, NEW u \in AiUsers, NEW p \in Params
    PROVE  LET sets == Tiers(Pools(u)[1], p) \o Tiers(Pools(u)[2], p)
               own == {i \in Candidates : providers[i].owner = u}
               shared == {i \in Candidates : providers[i].owner = System}
           IN  /\ DOMAIN sets = 1..6
               /\ sets[1] = Tiers(own, p)[1] /\ sets[2] = Tiers(own, p)[2] /\ sets[3] = Tiers(own, p)[3]
               /\ sets[4] = Tiers(shared, p)[1] /\ sets[5] = Tiers(shared, p)[2] /\ sets[6] = Tiers(shared, p)[3]
<1> DEFINE own == {i \in Candidates : providers[i].owner = u}
           shared == {i \in Candidates : providers[i].owner = System}
<1>1. Pools(u)[1] = own /\ Pools(u)[2] = shared
    BY DEF Pools
<1>2. ASSUME NEW pool \in SUBSET Candidates
      PROVE  Tiers(pool, p) \in Seq(SUBSET Candidates) /\ Len(Tiers(pool, p)) = 3
    BY DEF Tiers
<1> HIDE DEF own, shared
<1>3. PICK a : a = Tiers(own, p)
    OBVIOUS
<1>4. PICK b : b = Tiers(shared, p)
    OBVIOUS
<1>5. a \in Seq(SUBSET Candidates) /\ b \in Seq(SUBSET Candidates) /\ Len(a) = 3 /\ Len(b) = 3
    BY <1>2, <1>3, <1>4 DEF own, shared
<1>6. /\ Len(a \o b) = 6 /\ a \o b \in Seq(SUBSET Candidates)
      /\ \A k \in 1..6 : (a \o b)[k] = IF k <= 3 THEN a[k] ELSE b[k - 3]
    BY <1>5, ThreeAndThree
<1>7. DOMAIN (a \o b) = 1..6
    BY <1>6, LenProperties
<1>8. /\ (a \o b)[1] = a[1] /\ (a \o b)[2] = a[2] /\ (a \o b)[3] = a[3]
      /\ (a \o b)[4] = b[1] /\ (a \o b)[5] = b[2] /\ (a \o b)[6] = b[3]
    BY <1>6
<1> QED
    BY <1>1, <1>3, <1>4, <1>7, <1>8 DEF own, shared

(* The row chosen is before all others of the first tier that has any.      *)
LEMMA Choice ==
    ASSUME AiTypeOK, NEW u \in AiUsers, NEW p \in Params
    PROVE  LET sets == Tiers(Pools(u)[1], p) \o Tiers(Pools(u)[2], p)
               best == SelectProviderRow(u, p)
           IN  \/ best = 0 /\ \A k \in 1..6 : sets[k] = {}
               \/ \E k \in 1..6 : /\ best \in sets[k] /\ \A l \in 1..6 : l < k => sets[l] = {}
                                  /\ \A j \in sets[k] : Before(best, j)
<1>1. PICK sets : sets = Tiers(Pools(u)[1], p) \o Tiers(Pools(u)[2], p)
    OBVIOUS
<1>2. DOMAIN sets = 1..6 /\ \A k \in 1..6 : sets[k] \subseteq Ids
  <2>1. ASSUME NEW pool \in SUBSET Candidates
        PROVE  Tiers(pool, p)[1] \subseteq Ids /\ Tiers(pool, p)[2] \subseteq Ids /\ Tiers(pool, p)[3] \subseteq Ids
    <3>1. Tiers(pool, p)[1] \subseteq pool /\ Tiers(pool, p)[2] \subseteq pool /\ Tiers(pool, p)[3] \subseteq pool
      BY DEF Tiers
    <3>2. Candidates \subseteq Ids
      BY DEF Candidates
    <3> QED
      BY <3>1, <3>2
  <2>2. /\ DOMAIN sets = 1..6
        /\ sets[1] \subseteq Ids /\ sets[2] \subseteq Ids /\ sets[3] \subseteq Ids
        /\ sets[4] \subseteq Ids /\ sets[5] \subseteq Ids /\ sets[6] \subseteq Ids
    BY <1>1, <2>1, SixTiers, ZenonT(60)
  <2>3. \A k \in 1..6 : k = 1 \/ k = 2 \/ k = 3 \/ k = 4 \/ k = 5 \/ k = 6
    OBVIOUS
  <2> QED
    BY <2>2, <2>3
<1>3. SelectProviderRow(u, p) = IF First(sets) = {} THEN 0
                                ELSE CHOOSE i \in First(sets) : \A j \in First(sets) : Before(i, j)
    BY <1>1 DEF SelectProviderRow
<1>4. CASE First(sets) = {} /\ \A k \in 1..6 : sets[k] = {}
    BY <1>1, <1>3, <1>4
<1>5. ASSUME NEW k \in 1..6, sets[k] # {}, First(sets) = sets[k], \A l \in 1..6 : l < k => sets[l] = {}
      PROVE  /\ SelectProviderRow(u, p) \in sets[k]
             /\ \A j \in sets[k] : Before(SelectProviderRow(u, p), j)
  <2>1. PICK tier : tier = sets[k]
    OBVIOUS
  <2>2. tier \in SUBSET Ids /\ tier # {}
    BY <1>2, <1>5, <2>1
  <2>3. SelectProviderRow(u, p) = CHOOSE i \in tier : \A j \in tier : Before(i, j)
    BY <1>3, <1>5, <2>1
  <2>4. LET best == CHOOSE i \in tier : \A j \in tier : Before(i, j) IN
        best \in tier /\ \A j \in tier : Before(best, j)
    BY <2>2, BestOfTier
  <2> QED
    BY <2>1, <2>3, <2>4
<1>6. \/ First(sets) = {} /\ \A k \in 1..6 : sets[k] = {}
      \/ \E k \in 1..6 : /\ sets[k] # {} /\ First(sets) = sets[k]
                         /\ \A l \in 1..6 : l < k => sets[l] = {}
    BY <1>2, FirstOfSix
<1> QED
    BY <1>1, <1>4, <1>5, <1>6

LEMMA ChosenRow ==
    ASSUME AiTypeOK, NEW u \in AiUsers, NEW p \in Params, SelectProviderRow(u, p) # 0
    PROVE  /\ SelectProviderRow(u, p) \in Candidates
           /\ providers[SelectProviderRow(u, p)].owner \in {u, System}
<1>1. PICK sets : sets = Tiers(Pools(u)[1], p) \o Tiers(Pools(u)[2], p)
    OBVIOUS
<1>2. PICK k \in 1..6 : SelectProviderRow(u, p) \in sets[k]
    BY <1>1, Choice
<1> DEFINE Served == {i \in Candidates : providers[i].owner \in {u, System}}
<1>3. /\ sets[1] \subseteq Served /\ sets[2] \subseteq Served /\ sets[3] \subseteq Served
      /\ sets[4] \subseteq Served /\ sets[5] \subseteq Served /\ sets[6] \subseteq Served
  <2>1. ASSUME NEW pool \in SUBSET Served
        PROVE  Tiers(pool, p)[1] \subseteq Served /\ Tiers(pool, p)[2] \subseteq Served /\ Tiers(pool, p)[3] \subseteq Served
    BY DEF Tiers
  <2>2. /\ {i \in Candidates : providers[i].owner = u} \in SUBSET Served
        /\ {i \in Candidates : providers[i].owner = System} \in SUBSET Served
    OBVIOUS
  <2> HIDE DEF Served
  <2> QED
    BY <1>1, <2>1, <2>2, SixTiers
<1>4. k = 1 \/ k = 2 \/ k = 3 \/ k = 4 \/ k = 5 \/ k = 6
    OBVIOUS
<1>5. SelectProviderRow(u, p) \in Served
  <2> HIDE DEF Served
  <2> QED
    BY <1>2, <1>3, <1>4
<1> QED
    BY <1>5

(* Tiers follow specificity. *)
LEMMA TierFacts ==
    ASSUME AiTypeOK, NEW p \in Params, NEW pool \in SUBSET Ids, NEW i \in pool
    PROVE  /\ Specificity(i, p) \in 0..3
           /\ Specificity(i, p) = 3 <=> i \in Tiers(pool, p)[1]
           /\ i \in Tiers(pool, p)[2] => Specificity(i, p) >= 2
           /\ Specificity(i, p) = 2 => i \in Tiers(pool, p)[2]
           /\ i \in Tiers(pool, p)[3] => Specificity(i, p) >= 1
           /\ Specificity(i, p) = 1 => i \in Tiers(pool, p)[3]
<1>1. PICK none : none = [scope |-> "none", space |-> "none"]
    OBVIOUS
<1>2. p = none <=> p.scope = "none" /\ p.space = "none"
    BY <1>1 DEF Params
<1>3. /\ i \in Tiers(pool, p)[1] <=> providers[i].scope = p.scope /\ providers[i].space = p.space /\ p # none
      /\ i \in Tiers(pool, p)[2] <=> providers[i].scope = p.scope /\ providers[i].space = "none" /\ p.scope # "none"
      /\ i \in Tiers(pool, p)[3] <=> providers[i].scope = "none" /\ providers[i].space = "none"
    BY <1>1 DEF Tiers
<1>4. Specificity(i, p) =
        IF p # none /\ providers[i].scope = p.scope /\ providers[i].space = p.space THEN 3
        ELSE IF p.scope # "none" /\ providers[i].scope = p.scope /\ providers[i].space = "none" THEN 2
        ELSE IF providers[i].scope = "none" /\ providers[i].space = "none" THEN 1 ELSE 0
    BY <1>1 DEF Specificity
<1> QED
    BY <1>2, <1>3, <1>4

(* The order of two keys of five parts.                                     *)
LEMMA KeyOrder ==
    ASSUME NEW a1 \in Int, NEW a2 \in Int, NEW a3 \in Int, NEW a4 \in Int, NEW a5 \in Int,
           NEW b1 \in Int, NEW b2 \in Int, NEW b3 \in Int, NEW b4 \in Int, NEW b5 \in Int,
           \/ a1 < b1
           \/ a1 = b1 /\ a2 < b2
           \/ a1 = b1 /\ a2 = b2 /\ a3 < b3
           \/ a1 = b1 /\ a2 = b2 /\ a3 = b3 /\ a4 < b4
           \/ a1 = b1 /\ a2 = b2 /\ a3 = b3 /\ a4 = b4 /\ a5 < b5
    PROVE  \E k \in 1..5 : /\ <<a1, a2, a3, a4, a5>>[k] < <<b1, b2, b3, b4, b5>>[k]
                           /\ \A l \in 1..(k - 1) : <<a1, a2, a3, a4, a5>>[l] = <<b1, b2, b3, b4, b5>>[l]
<1>1. PICK a : a = <<a1, a2, a3, a4, a5>>
    OBVIOUS
<1>2. PICK b : b = <<b1, b2, b3, b4, b5>>
    OBVIOUS
<1>3. /\ a[1] = a1 /\ a[2] = a2 /\ a[3] = a3 /\ a[4] = a4 /\ a[5] = a5
      /\ b[1] = b1 /\ b[2] = b2 /\ b[3] = b3 /\ b[4] = b4 /\ b[5] = b5
    BY <1>1, <1>2
<1> DEFINE Goal(k) == a[k] < b[k] /\ \A l \in 1..(k - 1) : a[l] = b[l]
<1>4. ASSUME a1 < b1 PROVE Goal(1)
  <2>1. \A l \in 1..(1 - 1) : FALSE
    OBVIOUS
  <2> QED
    BY <1>3, <1>4, <2>1
<1>5. ASSUME a1 = b1, a2 < b2 PROVE Goal(2)
  <2>1. \A l \in 1..(2 - 1) : l = 1
    OBVIOUS
  <2> QED
    BY <1>3, <1>5, <2>1
<1>6. ASSUME a1 = b1, a2 = b2, a3 < b3 PROVE Goal(3)
  <2>1. \A l \in 1..(3 - 1) : l = 1 \/ l = 2
    OBVIOUS
  <2> QED
    BY <1>3, <1>6, <2>1
<1>7. ASSUME a1 = b1, a2 = b2, a3 = b3, a4 < b4 PROVE Goal(4)
  <2>1. \A l \in 1..(4 - 1) : l = 1 \/ l = 2 \/ l = 3
    OBVIOUS
  <2> QED
    BY <1>3, <1>7, <2>1
<1>8. ASSUME a1 = b1, a2 = b2, a3 = b3, a4 = b4, a5 < b5 PROVE Goal(5)
  <2>1. \A l \in 1..(5 - 1) : l = 1 \/ l = 2 \/ l = 3 \/ l = 4
    OBVIOUS
  <2> QED
    BY <1>3, <1>8, <2>1
<1> HIDE DEF Goal
<1>9. Goal(1) \/ Goal(2) \/ Goal(3) \/ Goal(4) \/ Goal(5)
    BY <1>4, <1>5, <1>6, <1>7, <1>8
<1>10. \E k \in 1..5 : Goal(k)
    BY <1>9
<1> QED
    BY <1>1, <1>2, <1>10 DEF Goal

(* A row that serves the user and the use is in the tier of its owner and   *)
(* its specificity.                                                         *)
LEMMA PlaceOfRow ==
    ASSUME AiTypeOK, NEW u \in AiUsers, NEW p \in Params, NEW j \in Candidates,
           providers[j].owner \in {u, System}, Specificity(j, p) > 0
    PROVE  LET sets == Tiers(Pools(u)[1], p) \o Tiers(Pools(u)[2], p)
               k == (IF providers[j].owner = u THEN 4 ELSE 7) - Specificity(j, p)
           IN  k \in 1..6 /\ j \in sets[k]
<1>1. PICK sets : sets = Tiers(Pools(u)[1], p) \o Tiers(Pools(u)[2], p)
    OBVIOUS
<1>2. PICK own : own = {i \in Candidates : providers[i].owner = u}
    OBVIOUS
<1>3. PICK shared : shared = {i \in Candidates : providers[i].owner = System}
    OBVIOUS
<1>4. own \in SUBSET Ids /\ shared \in SUBSET Ids
    BY <1>2, <1>3 DEF Candidates
<1>5. PICK s \in 0..3 : s = Specificity(j, p)
    BY TierFacts DEF Candidates
<1>6. s = 1 \/ s = 2 \/ s = 3
    BY <1>5
<1>7. /\ sets[1] = Tiers(own, p)[1] /\ sets[2] = Tiers(own, p)[2] /\ sets[3] = Tiers(own, p)[3]
      /\ sets[4] = Tiers(shared, p)[1] /\ sets[5] = Tiers(shared, p)[2] /\ sets[6] = Tiers(shared, p)[3]
    BY <1>1, <1>2, <1>3, SixTiers
<1>8. CASE providers[j].owner = u
  <2>1. j \in own
    BY <1>2, <1>8
  <2>2. (s = 3 => j \in sets[1]) /\ (s = 2 => j \in sets[2]) /\ (s = 1 => j \in sets[3])
    BY <1>4, <1>5, <1>7, <2>1, TierFacts
  <2>3. \E k \in 1..6 : k = 4 - s /\ j \in sets[k]
    BY <1>6, <2>2
  <2> QED
    BY <1>1, <1>5, <1>8, <2>3
<1>9. CASE providers[j].owner # u
  <2>1. j \in shared
    BY <1>3, <1>9
  <2>2. (s = 3 => j \in sets[4]) /\ (s = 2 => j \in sets[5]) /\ (s = 1 => j \in sets[6])
    BY <1>4, <1>5, <1>7, <2>1, TierFacts
  <2>3. \E k \in 1..6 : k = 7 - s /\ j \in sets[k]
    BY <1>6, <2>2
  <2> QED
    BY <1>1, <1>5, <1>9, <2>3
<1> QED
    BY <1>8, <1>9

LEMMA RowOfPlace ==
    ASSUME AiTypeOK, NEW u \in AiUsers, NEW p \in Params, NEW k \in 1..6, NEW i,
           i \in (Tiers(Pools(u)[1], p) \o Tiers(Pools(u)[2], p))[k]
    PROVE  /\ i \in Candidates /\ Specificity(i, p) \in 1..3
           /\ k <= 3 => providers[i].owner = u /\ Specificity(i, p) >= 4 - k
           /\ k > 3 => providers[i].owner = System /\ Specificity(i, p) >= 7 - k
<1>1. PICK sets : sets = Tiers(Pools(u)[1], p) \o Tiers(Pools(u)[2], p)
    OBVIOUS
<1>2. PICK own : own = {j \in Candidates : providers[j].owner = u}
    OBVIOUS
<1>3. PICK shared : shared = {j \in Candidates : providers[j].owner = System}
    OBVIOUS
<1>4. /\ own \in SUBSET Ids /\ shared \in SUBSET Ids
      /\ \A j \in own : j \in Candidates /\ providers[j].owner = u
      /\ \A j \in shared : j \in Candidates /\ providers[j].owner = System
    BY <1>2, <1>3 DEF Candidates
<1>5. /\ sets[1] = Tiers(own, p)[1] /\ sets[2] = Tiers(own, p)[2] /\ sets[3] = Tiers(own, p)[3]
      /\ sets[4] = Tiers(shared, p)[1] /\ sets[5] = Tiers(shared, p)[2] /\ sets[6] = Tiers(shared, p)[3]
    BY <1>1, <1>2, <1>3, SixTiers
<1>6. i \in sets[k]
    BY <1>1
<1>7. ASSUME NEW pool \in SUBSET Ids
      PROVE  /\ i \in Tiers(pool, p)[1] => i \in pool /\ Specificity(i, p) = 3
             /\ i \in Tiers(pool, p)[2] => i \in pool /\ Specificity(i, p) \in 2..3
             /\ i \in Tiers(pool, p)[3] => i \in pool /\ Specificity(i, p) \in 1..3
  <2>1. i \in Tiers(pool, p)[1] \/ i \in Tiers(pool, p)[2] \/ i \in Tiers(pool, p)[3] => i \in pool
    BY DEF Tiers
  <2> QED
    BY <2>1, TierFacts
<1>8. k = 1 \/ k = 2 \/ k = 3 \/ k = 4 \/ k = 5 \/ k = 6
    OBVIOUS
<1>9. \/ k <= 3 /\ i \in own /\ Specificity(i, p) \in 1..3 /\ Specificity(i, p) >= 4 - k
      \/ k > 3 /\ i \in shared /\ Specificity(i, p) \in 1..3 /\ Specificity(i, p) >= 7 - k
  <2>1. CASE k = 1
    BY <1>4, <1>5, <1>6, <1>7, <2>1
  <2>2. CASE k = 2
    BY <1>4, <1>5, <1>6, <1>7, <2>2
  <2>3. CASE k = 3
    BY <1>4, <1>5, <1>6, <1>7, <2>3
  <2>4. CASE k = 4
    BY <1>4, <1>5, <1>6, <1>7, <2>4
  <2>5. CASE k = 5
    BY <1>4, <1>5, <1>6, <1>7, <2>5
  <2>6. CASE k = 6
    BY <1>4, <1>5, <1>6, <1>7, <2>6
  <2> QED
    BY <1>8, <2>1, <2>2, <2>3, <2>4, <2>5, <2>6
<1> QED
    BY <1>4, <1>9

LEMMA BestChosen ==
    ASSUME AiTypeOK
    PROVE  BestProvider
<1> SUFFICES ASSUME NEW u \in AiUsers, NEW p \in Params
             PROVE  LET best == SelectProviderRow(u, p)
                        eligible == {i \in Candidates : providers[i].owner \in {u, System} /\ Specificity(i, p) > 0}
                        Key(i) == << IF providers[i].owner = u THEN 1 ELSE 0, Specificity(i, p),
                                     IF providers[i].isDefault THEN 1 ELSE 0, providers[i].prio, -i >>
                        Less(a, b) == \E k \in 1..5 : a[k] < b[k] /\ \A l \in 1..(k - 1) : a[l] = b[l]
                    IN  IF eligible = {} THEN best = 0
                        ELSE best \in eligible /\ \A j \in eligible \ {best} : Less(Key(j), Key(best))
    BY DEF BestProvider
<1>1. PICK sets : sets = Tiers(Pools(u)[1], p) \o Tiers(Pools(u)[2], p)
    OBVIOUS
<1>2. PICK best : best = SelectProviderRow(u, p)
    OBVIOUS
<1>3. PICK eligible : eligible = {i \in Candidates : providers[i].owner \in {u, System} /\ Specificity(i, p) > 0}
    OBVIOUS
<1>4. \A j \in eligible : /\ j \in Candidates /\ providers[j].owner \in {u, System}
                          /\ Specificity(j, p) > 0 /\ Specificity(j, p) \in 0..3
    BY <1>3, TierFacts DEF Candidates
<1>5. \A j \in eligible : \E k \in 1..6 : /\ k = (IF providers[j].owner = u THEN 4 ELSE 7) - Specificity(j, p)
                                          /\ j \in sets[k]
  <2> SUFFICES ASSUME NEW j \in eligible
               PROVE  \E k \in 1..6 : /\ k = (IF providers[j].owner = u THEN 4 ELSE 7) - Specificity(j, p)
                                      /\ j \in sets[k]
    OBVIOUS
  <2>1. LET k == (IF providers[j].owner = u THEN 4 ELSE 7) - Specificity(j, p) IN k \in 1..6 /\ j \in sets[k]
    BY <1>1, <1>4, PlaceOfRow
  <2> QED
    BY <2>1
<1>6. u # System
    BY AiConstants
<1>7. \/ best = 0 /\ \A k \in 1..6 : sets[k] = {}
      \/ \E k \in 1..6 : /\ best \in sets[k] /\ \A l \in 1..6 : l < k => sets[l] = {}
                         /\ \A j \in sets[k] : Before(best, j)
    BY <1>1, <1>2, Choice
<1>8. CASE best = 0 /\ \A k \in 1..6 : sets[k] = {}
  <2>1. eligible = {}
    BY <1>5, <1>8
  <2> QED
    BY <1>2, <1>3, <1>8, <2>1
<1>9. ASSUME NEW k \in 1..6, best \in sets[k], \A l \in 1..6 : l < k => sets[l] = {},
             \A j \in sets[k] : Before(best, j)
      PROVE  /\ best \in eligible
             /\ \A j \in eligible \ {best} :
                    \E c \in 1..5 :
                        LET Key(i) == << IF providers[i].owner = u THEN 1 ELSE 0, Specificity(i, p),
                                         IF providers[i].isDefault THEN 1 ELSE 0, providers[i].prio, -i >>
                        IN  Key(j)[c] < Key(best)[c] /\ \A l \in 1..(c - 1) : Key(j)[l] = Key(best)[l]
  <2>1. /\ best \in Candidates /\ Specificity(best, p) \in 1..3
        /\ k <= 3 => providers[best].owner = u /\ Specificity(best, p) >= 4 - k
        /\ k > 3 => providers[best].owner = System /\ Specificity(best, p) >= 7 - k
    BY <1>1, <1>9, RowOfPlace
  <2>2. best \in eligible
    BY <1>3, <2>1
  <2>3. ASSUME NEW j \in eligible, j # best
        PROVE  \E c \in 1..5 :
                   LET Key(i) == << IF providers[i].owner = u THEN 1 ELSE 0, Specificity(i, p),
                                    IF providers[i].isDefault THEN 1 ELSE 0, providers[i].prio, -i >>
                   IN  Key(j)[c] < Key(best)[c] /\ \A l \in 1..(c - 1) : Key(j)[l] = Key(best)[l]
    <3>1. PICK o : o = IF providers[j].owner = u THEN 1 ELSE 0
      OBVIOUS
    <3>2. PICK ob : ob = IF providers[best].owner = u THEN 1 ELSE 0
      OBVIOUS
    <3>3. PICK s \in 0..3 : s = Specificity(j, p)
      BY <1>4
    <3>4. PICK sb \in 1..3 : sb = Specificity(best, p)
      BY <2>1
    <3>5. PICK m \in 1..6 : m = (IF o = 1 THEN 4 ELSE 7) - s /\ j \in sets[m]
      BY <1>5, <3>1, <3>3
    <3>6. m >= k /\ (k <= 3 => ob = 1 /\ sb >= 4 - k) /\ (k > 3 => ob = 0 /\ sb >= 7 - k) /\ s > 0 /\ o \in {0, 1}
      BY <1>4, <1>6, <1>9, <2>1, <3>1, <3>2, <3>3, <3>4, <3>5
    <3>7. o < ob \/ (o = ob /\ s < sb) \/ (o = ob /\ s = sb /\ m = k)
      BY <3>3, <3>4, <3>5, <3>6
    <3>8. /\ j \in Int /\ best \in Int /\ providers[j].prio \in Int /\ providers[best].prio \in Int
          /\ providers[j].isDefault \in BOOLEAN /\ providers[best].isDefault \in BOOLEAN
      BY <1>4, <2>1, ProviderFacts DEF Candidates, Provider
    <3>9. PICK d \in {0, 1} : d = IF providers[j].isDefault THEN 1 ELSE 0
      OBVIOUS
    <3>10. PICK db \in {0, 1} : db = IF providers[best].isDefault THEN 1 ELSE 0
      OBVIOUS
    <3>11. m = k => \/ d < db \/ (d = db /\ providers[j].prio < providers[best].prio)
                    \/ (d = db /\ providers[j].prio = providers[best].prio /\ -j < -best)
      <4>1. m = k => Before(best, j)
        BY <1>9, <3>5
      <4> QED
        BY <2>3, <3>8, <3>9, <3>10, <4>1 DEF Before
    <3>12. \E c \in 1..5 :
               /\ <<o, s, d, providers[j].prio, -j>>[c] < <<ob, sb, db, providers[best].prio, -best>>[c]
               /\ \A l \in 1..(c - 1) :
                      <<o, s, d, providers[j].prio, -j>>[l] = <<ob, sb, db, providers[best].prio, -best>>[l]
      <4>1. o \in Int /\ ob \in Int /\ s \in Int /\ sb \in Int /\ d \in Int /\ db \in Int /\ -j \in Int /\ -best \in Int
        BY <3>6, <3>8
      <4>2. \/ o < ob
            \/ o = ob /\ s < sb
            \/ o = ob /\ s = sb /\ d < db
            \/ o = ob /\ s = sb /\ d = db /\ providers[j].prio < providers[best].prio
            \/ o = ob /\ s = sb /\ d = db /\ providers[j].prio = providers[best].prio /\ -j < -best
        BY <3>7, <3>11
      <4> QED
        BY <3>8, <4>1, <4>2, KeyOrder
    <3> QED
      BY <3>1, <3>2, <3>3, <3>4, <3>9, <3>10, <3>12
  <2> QED
    BY <2>2, <2>3
<1>10. CASE \E k \in 1..6 : /\ best \in sets[k] /\ \A l \in 1..6 : l < k => sets[l] = {}
                            /\ \A j \in sets[k] : Before(best, j)
  <2>1. PICK k \in 1..6 : /\ best \in sets[k] /\ \A l \in 1..6 : l < k => sets[l] = {}
                          /\ \A j \in sets[k] : Before(best, j)
    BY <1>10
  <2>2. /\ best \in eligible
        /\ \A j \in eligible \ {best} :
               \E c \in 1..5 :
                   LET Key(i) == << IF providers[i].owner = u THEN 1 ELSE 0, Specificity(i, p),
                                    IF providers[i].isDefault THEN 1 ELSE 0, providers[i].prio, -i >>
                   IN  Key(j)[c] < Key(best)[c] /\ \A l \in 1..(c - 1) : Key(j)[l] = Key(best)[l]
    BY <1>9, <2>1
  <2> QED
    BY <1>2, <1>3, <2>2
<1> QED
    BY <1>7, <1>8, <1>10

-------------------------------------------------------------------------------
(* The calls *)

(* A step of one call that leaves the rows and the requests alone.          *)
LEMMA CallMoves ==
    ASSUME AiTypeOK, AiInv, NEW c \in AiCalls, NEW l \in Call(Len(providers)), Bound(l),
           llm' = [llm EXCEPT ![c] = l], UNCHANGED <<providers, request, coincided>>
    PROVE  AiTypeOK' /\ AiInv'
<1>1. /\ llm' \in [AiCalls -> Call(Len(providers))] /\ llm'[c] = l
      /\ \A d \in AiCalls \ {c} : llm'[d] = llm[d]
    BY ProviderFacts
<1>2. AiTypeOK'
    BY <1>1 DEF AiTypeOK
<1>3. \A d \in AiCalls : Bound(llm'[d])
    BY <1>1 DEF AiInv
<1>4. \A d \in AiCalls : Bound(llm[d])'
    BY <1>3 DEF Bound
<1>5. RequestInv'
    BY DEF AiInv, RequestInv, OneDefault, Sound, Current, UnderWay, Siblings, Ids
<1> QED
    BY <1>2, <1>4, <1>5 DEF AiInv

LEMMA CompleteStep ==
    ASSUME AiTypeOK, AiInv, NEW c \in AiCalls, NEW u \in AiUsers, NEW p \in Params, CompleteRequest(c, u, p)
    PROVE  AiTypeOK' /\ AiInv'
<1>1. PICK i : i = SelectProviderRow(u, p)
    OBVIOUS
<1>2. /\ i # 0 => i \in 1..Len(providers) /\ providers[i].owner \in {u, System}
      /\ Len(providers) \in Nat /\ u \in Owners
    BY <1>1, ChosenRow, ProviderFacts DEF Candidates, Owners
<1>3. PICK l : l = llm[c]
    OBVIOUS
<1>4. /\ l \in Call(Len(providers)) /\ l.pc = "idle" /\ l.row = 0 /\ l.sent = {} /\ ~l.returned
      /\ UNCHANGED <<providers, request, coincided>>
    BY <1>3, ProviderFacts DEF AiInv, Bound, CompleteRequest
<1>5. PICK new : /\ llm' = [llm EXCEPT ![c] = new]
                 /\ \/ new = [l EXCEPT !.pc = "done", !.answer = "thrown"]
                    \/ new = [l EXCEPT !.pc = "call", !.user = u, !.row = i] /\ i # 0
                    \/ new = [l EXCEPT !.pc = "env", !.user = u]
    BY <1>1, <1>3, ProviderFacts DEF CompleteRequest
<1> DEFINE Rows == 0..Len(providers)
<1>6. l \in [pc : {"idle", "call", "log", "env", "done"}, user : Owners, row : Rows, sent : SUBSET Rows,
             returned : BOOLEAN, answer : {"none", "content", "failed", "unconfigured", "thrown"}]
    BY <1>4 DEF Call
<1>7. i # 0 => i \in Rows
    BY <1>2
<1> HIDE DEF Rows
<1>8. CASE new = [l EXCEPT !.pc = "done", !.answer = "thrown"]
  <2>1. new \in [pc : {"idle", "call", "log", "env", "done"}, user : Owners, row : Rows, sent : SUBSET Rows,
             returned : BOOLEAN, answer : {"none", "content", "failed", "unconfigured", "thrown"}]
        /\ new.pc = "done" /\ new.row = 0 /\ new.sent = {} /\ ~new.returned
    BY <1>4, <1>6, <1>8
  <2>2. new \in Call(Len(providers)) /\ Bound(new)
    BY <2>1 DEF Call, Rows, Bound
  <2> QED
    BY <1>4, <1>5, <2>2, CallMoves
<1>9. CASE new = [l EXCEPT !.pc = "call", !.user = u, !.row = i] /\ i # 0
  <2>1. new \in [pc : {"idle", "call", "log", "env", "done"}, user : Owners, row : Rows, sent : SUBSET Rows,
             returned : BOOLEAN, answer : {"none", "content", "failed", "unconfigured", "thrown"}]
        /\ new.pc = "call" /\ new.row = i /\ new.sent = {} /\ ~new.returned /\ new.user = u
    BY <1>2, <1>4, <1>6, <1>7, <1>9
  <2>2. new \in Call(Len(providers)) /\ Bound(new)
    BY <1>2, <1>9, <2>1 DEF Call, Rows, Bound
  <2> QED
    BY <1>4, <1>5, <2>2, CallMoves
<1>10. CASE new = [l EXCEPT !.pc = "env", !.user = u]
  <2>1. new \in [pc : {"idle", "call", "log", "env", "done"}, user : Owners, row : Rows, sent : SUBSET Rows,
             returned : BOOLEAN, answer : {"none", "content", "failed", "unconfigured", "thrown"}]
        /\ new.pc = "env" /\ new.row = 0 /\ new.sent = {} /\ ~new.returned
    BY <1>2, <1>4, <1>6, <1>10
  <2>2. new \in Call(Len(providers)) /\ Bound(new)
    BY <2>1 DEF Call, Rows, Bound
  <2> QED
    BY <1>4, <1>5, <2>2, CallMoves
<1> QED
    BY <1>5, <1>8, <1>9, <1>10

LEMMA AdapterStep ==
    ASSUME AiTypeOK, AiInv, NEW c \in AiCalls, CallAdapter(c) \/ LogCall(c) \/ CallEnv(c)
    PROVE  AiTypeOK' /\ AiInv'
<1>1. PICK l : l = llm[c]
    OBVIOUS
<1>2. l \in Call(Len(providers)) /\ Bound(l) /\ UNCHANGED <<providers, request, coincided>>
    BY <1>1, ProviderFacts DEF AiInv, CallAdapter, LogCall, CallEnv
<1> DEFINE Rows == 0..Len(providers)
<1>3. l \in [pc : {"idle", "call", "log", "env", "done"}, user : Owners, row : Rows, sent : SUBSET Rows,
             returned : BOOLEAN, answer : {"none", "content", "failed", "unconfigured", "thrown"}]
    BY <1>2 DEF Call
<1>4. 0 \in Rows
    BY ProviderFacts
<1> HIDE DEF Rows
<1>5. CASE CallAdapter(c)
  <2>1. PICK ok \in BOOLEAN : llm' = [llm EXCEPT ![c].pc = "log", ![c].sent = @ \union {llm[c].row}, ![c].returned = ok]
    BY <1>5 DEF CallAdapter
  <2> DEFINE new == [l EXCEPT !.pc = "log", !.sent = l.sent \union {l.row}, !.returned = ok]
  <2>2. llm' = [llm EXCEPT ![c] = new]
    BY <1>1, <2>1, ProviderFacts
  <2>3. l.sent \union {l.row} \in SUBSET Rows
    BY <1>3
  <2>4. new \in [pc : {"idle", "call", "log", "env", "done"}, user : Owners, row : Rows, sent : SUBSET Rows,
             returned : BOOLEAN, answer : {"none", "content", "failed", "unconfigured", "thrown"}]
        /\ new.pc = "log" /\ new.row = l.row /\ new.sent = l.sent \union {l.row} /\ new.user = l.user
    BY <1>3, <2>3
  <2> HIDE DEF new
  <2>5. l.pc = "call"
    BY <1>1, <1>5 DEF CallAdapter
  <2>6. new \in Call(Len(providers)) /\ Bound(new)
    BY <1>2, <2>4, <2>5 DEF Call, Rows, Bound
  <2> QED
    BY <1>2, <2>2, <2>6, CallMoves
<1>6. CASE LogCall(c)
  <2> DEFINE answer == IF l.returned THEN "content" ELSE "failed"
             new == [l EXCEPT !.pc = "done", !.answer = answer]
  <2>1. llm' = [llm EXCEPT ![c] = new]
    BY <1>1, <1>6, ProviderFacts DEF LogCall
  <2>2. answer \in {"none", "content", "failed", "unconfigured", "thrown"} /\ (l.returned => answer = "content")
    OBVIOUS
  <2> HIDE DEF answer
  <2>3. new \in [pc : {"idle", "call", "log", "env", "done"}, user : Owners, row : Rows, sent : SUBSET Rows,
             returned : BOOLEAN, answer : {"none", "content", "failed", "unconfigured", "thrown"}]
        /\ new.pc = "done" /\ new.row = l.row /\ new.sent = l.sent /\ new.user = l.user
        /\ new.returned = l.returned /\ new.answer = answer
    BY <1>3, <2>2
  <2> HIDE DEF new
  <2>4. new \in Call(Len(providers)) /\ Bound(new)
    BY <1>2, <2>2, <2>3 DEF Call, Rows, Bound
  <2> QED
    BY <1>2, <2>1, <2>4, CallMoves
<1>7. CASE CallEnv(c)
  <2>1. l.pc = "env" /\ l.row = 0 /\ l.sent = {} /\ ~l.returned
    BY <1>1, <1>2, <1>7 DEF CallEnv, Bound
  <2>2. CASE llm' = [llm EXCEPT ![c].pc = "done", ![c].answer = "unconfigured"]
    <3> DEFINE new == [l EXCEPT !.pc = "done", !.answer = "unconfigured"]
    <3>1. llm' = [llm EXCEPT ![c] = new]
      BY <1>1, <2>2, ProviderFacts
    <3>2. new \in [pc : {"idle", "call", "log", "env", "done"}, user : Owners, row : Rows, sent : SUBSET Rows,
               returned : BOOLEAN, answer : {"none", "content", "failed", "unconfigured", "thrown"}]
          /\ new.pc = "done" /\ new.row = 0 /\ new.sent = {} /\ ~new.returned
      BY <1>3, <2>1
    <3> HIDE DEF new
    <3>3. new \in Call(Len(providers)) /\ Bound(new)
      BY <3>2 DEF Call, Rows, Bound
    <3> QED
      BY <1>2, <3>1, <3>3, CallMoves
  <2>3. CASE \E ok \in BOOLEAN : llm' = [llm EXCEPT ![c].pc = "done", ![c].sent = @ \union {0},
                                         ![c].returned = ok, ![c].answer = IF ok THEN "content" ELSE "failed"]
    <3>1. PICK ok \in BOOLEAN : llm' = [llm EXCEPT ![c].pc = "done", ![c].sent = @ \union {0},
                                        ![c].returned = ok, ![c].answer = IF ok THEN "content" ELSE "failed"]
      BY <2>3
    <3>2. PICK answer \in {"content", "failed"} : answer = IF ok THEN "content" ELSE "failed"
      OBVIOUS
    <3> DEFINE new == [l EXCEPT !.pc = "done", !.sent = {0}, !.returned = ok, !.answer = answer]
    <3>3. llm' = [llm EXCEPT ![c] = new]
      <4>1. llm[c].sent \union {0} = {0}
        BY <1>1, <2>1
      <4> QED
        BY <1>1, <3>1, <3>2, <4>1, ProviderFacts
    <3>4. new \in [pc : {"idle", "call", "log", "env", "done"}, user : Owners, row : Rows, sent : SUBSET Rows,
               returned : BOOLEAN, answer : {"none", "content", "failed", "unconfigured", "thrown"}]
          /\ new.pc = "done" /\ new.row = 0 /\ new.sent = {0} /\ new.returned = ok /\ new.answer = answer
      BY <1>3, <1>4, <2>1
    <3> HIDE DEF new
    <3>5. new \in Call(Len(providers)) /\ Bound(new)
      BY <3>2, <3>4 DEF Call, Rows, Bound
    <3> QED
      BY <1>2, <3>3, <3>5, CallMoves
  <2> QED
    BY <1>7, <2>2, <2>3 DEF CallEnv
<1> QED
    BY <1>5, <1>6, <1>7

-------------------------------------------------------------------------------
(* The providers at every moment *)

LEMMA AiStarts == AiInit => AiTypeOK /\ AiInv
<1> SUFFICES ASSUME AiInit PROVE AiTypeOK /\ AiInv
    OBVIOUS
<1>1. providers \in Seq(Provider) /\ OneDefault(providers) /\ Len(providers) \in Nat
    BY AiConstants, LenProperties DEF AiInit
<1>2. NoRequest \in Request(Len(providers)) /\ NoRequest.pc = "idle"
    BY <1>1 DEF NoRequest, Request, Owners, Places, Given, TierKeys
<1>3. \A r \in AiRequests : request[r] = NoRequest
    BY DEF AiInit
<1>4. \A c \in AiCalls : llm[c] \in Call(Len(providers)) /\ Bound(llm[c])
    BY <1>1 DEF AiInit, Call, Bound, Owners
<1>5. AiTypeOK
    BY <1>1, <1>2, <1>4 DEF AiInit, AiTypeOK
<1>6. RequestInv
    BY <1>1, <1>2, <1>3 DEF AiInit, RequestInv, Sound, Current, UnderWay
<1> QED
    BY <1>4, <1>5, <1>6 DEF AiInv

LEMMA AiStep == AiTypeOK /\ AiInv /\ [AiNext]_aiVars => AiTypeOK' /\ AiInv'
<1> SUFFICES ASSUME AiTypeOK, AiInv, [AiNext]_aiVars PROVE AiTypeOK' /\ AiInv'
    OBVIOUS
<1>1. CASE UNCHANGED aiVars
    BY <1>1 DEF aiVars, AiTypeOK, AiInv, RequestInv, OneDefault, Sound, Current, UnderWay, Siblings, Ids, Bound
<1>2. ASSUME NEW r \in AiRequests, NEW owner \in Owners,
             \/ \E p \in NewRows : CreateProvider(r, owner, p)
             \/ \E i \in Ids : TestConnection(r, owner, i) \/ \E patch \in Patches : ChangeProvider(r, owner, i, patch)
      PROVE  AiTypeOK' /\ AiInv'
    BY <1>2, CreateStep, TestStep, ChangeStep
<1>3. ASSUME NEW r \in AiRequests, StoreTest(r) \/ RequestFails(r) PROVE AiTypeOK' /\ AiInv'
  <2>1. PICK pc \in {"done", "failed"} : request' = [request EXCEPT ![r] = Ended(pc)]
    BY <1>3 DEF StoreTest, RequestFails
  <2> QED
    BY <1>3, <2>1, Ends DEF StoreTest, RequestFails
<1>4. ASSUME NEW r \in AiRequests, UnsetSiblingDefaults(r) \/ CommitProvider(r) PROVE AiTypeOK' /\ AiInv'
    BY <1>4, UnsetStep, CommitStep
<1>5. ASSUME NEW c \in AiCalls, \/ \E u \in AiUsers, p \in Params : CompleteRequest(c, u, p) \/ Embed(c, u, p)
                                \/ CallAdapter(c) \/ LogCall(c) \/ CallEnv(c) \/ EmbedEnv(c)
      PROVE  AiTypeOK' /\ AiInv'
    BY <1>5, CompleteStep, AdapterStep DEF Embed, EmbedEnv
<1> QED
    BY <1>1, <1>2, <1>3, <1>4, <1>5 DEF AiNext

LEMMA AiImplies == AiTypeOK /\ AiInv => AiSafe
<1> SUFFICES ASSUME AiTypeOK, AiInv PROVE AiSafe
    OBVIOUS
<1>1. DefaultsInTurn
    BY DEF DefaultsInTurn, AiInv, RequestInv
<1>2. PromptStays
  <2> SUFFICES ASSUME NEW c \in AiCalls
               PROVE  /\ Cardinality(llm[c].sent) <= 1
                      /\ \A i \in llm[c].sent \ {0} : providers[i].owner \in {llm[c].user, System}
    BY DEF PromptStays
  <2>1. Bound(llm[c])
    BY DEF AiInv
  <2>2. PICK row : row = llm[c].row
    OBVIOUS
  <2>3. IsFiniteSet({row}) /\ Cardinality({row}) = 1
    BY FS_Singleton
  <2>4. llm[c].sent \in SUBSET {row}
    BY <2>1, <2>2 DEF Bound
  <2>5. Cardinality(llm[c].sent) <= Cardinality({row})
    BY <2>3, <2>4, FS_Subset
  <2> QED
    BY <2>1, <2>3, <2>5 DEF Bound
<1>3. AnswerKept
    BY DEF AnswerKept, AiInv, Bound
<1> QED
    BY <1>1, <1>2, <1>3, BestChosen DEF AiSafe

(* AiSafe: whatever requests and calls run at once, a request that is alone *)
(* never fails on the index of defaults, the row chosen for a use is the    *)
(* best of those that serve it, a prompt reaches one provider, of its user  *)
(* or of SYSTEM, and what that one returned is the answer.                  *)
THEOREM ProvidersSafe == AiSpec => []AiSafe
<1> USE DEF AiSpec
<1>1. AiInit => AiTypeOK /\ AiInv
    BY AiStarts
<1>2. AiTypeOK /\ AiInv /\ [AiNext]_aiVars => (AiTypeOK /\ AiInv)'
    BY AiStep
<1>3. AiTypeOK /\ AiInv => AiSafe
    BY AiImplies
<1> QED
    BY <1>1, <1>2, <1>3, PTL

-------------------------------------------------------------------------------
(* The agenda *)

(* What an entry of the agenda means for the events it is about.            *)
EntryOK(q, es) ==
    /\ q.op \in {"update", "cancel"} => q.event \in DOMAIN es
    /\ q.pc \in {"compare", "again", "change"} => q.op \in {"update", "cancel"}
    /\ q.pc \in {"again", "change"} => es[q.event].lane = q.lane
    /\ q.pc # "done" => q.result = {}
    /\ \A s \in q.slots :
         /\ s[1] >= q.span[1] /\ s[2] <= q.span[2] /\ s[1] < s[2] /\ WithinWorkday(s[1])
         /\ \A b \in q.seen : s[2] <= b[1] \/ b[2] <= s[1]
    /\ q.pc = "done" /\ q.op \in {"update", "cancel"} =>
         es[q.event].lane = q.lane /\ es[q.event].home = q.target
    /\ q.op = "list" => \A i \in q.result : es[i].lane \in {q.lane, NoLane}

LEMMA EntriesOK == CalendarInv <=> \A a \in Agents : EntryOK(agenda[a], events)
BY DEF CalendarInv, LaneInv, SlotsAreFree, ChangesInLane, ListingInLane, EntryOK

LEMMA AgendaFacts ==
    ASSUME CalendarTypeOK
    PROVE  /\ events \in Seq(Event) /\ Len(events) \in Nat /\ DOMAIN events = 1..Len(events)
           /\ \A i \in DOMAIN events : events[i] \in Event /\ events[i].start \in Int /\ events[i].end \in Int
           /\ agenda \in [Agents -> Entry(Len(events))]
BY ElementOfSeq, LenProperties DEF CalendarTypeOK, Event

(* Events may be added and moved, and entries of the agenda change: what     *)
(* held holds if the lanes and the homes stay.                               *)
LEMMA AgendaMoves ==
    ASSUME CalendarTypeOK, CalendarInv, events' \in Seq(Event), Len(events) <= Len(events'), Len(events') <= MaxEvents,
           \A i \in DOMAIN events : events'[i].lane = events[i].lane /\ events'[i].home = events[i].home,
           agenda' \in [Agents -> Entry(Len(events'))],
           \A a \in Agents : agenda'[a] = agenda[a] \/ EntryOK(agenda'[a], events'),
           backend' \in Homes, disturbances' \in 0..MaxDisturbances
    PROVE  CalendarTypeOK' /\ CalendarInv'
<1>1. CalendarTypeOK'
    BY DEF CalendarTypeOK
<1>2. /\ Len(events) \in Nat /\ Len(events') \in Nat /\ DOMAIN events = 1..Len(events) /\ DOMAIN events' = 1..Len(events')
      /\ agenda \in [Agents -> Entry(Len(events))]
    BY AgendaFacts, LenProperties
<1>3. DOMAIN events \subseteq DOMAIN events'
    BY <1>2
<1>4. ASSUME NEW a \in Agents PROVE EntryOK(agenda'[a], events')
  <2>1. PICK q : q = agenda[a]
    OBVIOUS
  <2>2. EntryOK(q, events) /\ q \in Entry(Len(events))
    BY <1>2, <2>1, EntriesOK
  <2>3. q.result \subseteq DOMAIN events
    BY <1>2, <2>2 DEF Entry
  <2>4. /\ q.op \in {"update", "cancel"} => q.event \in DOMAIN events /\ q.event \in DOMAIN events'
        /\ q.pc \in {"compare", "again", "change"} => q.op \in {"update", "cancel"}
        /\ q.pc \in {"again", "change"} => events'[q.event].lane = q.lane
        /\ q.pc # "done" => q.result = {}
    BY <1>3, <2>2 DEF EntryOK
  <2>5. /\ q.pc = "done" /\ q.op \in {"update", "cancel"} =>
             events'[q.event].lane = q.lane /\ events'[q.event].home = q.target
        /\ q.op = "list" => \A i \in q.result : events'[i].lane \in {q.lane, NoLane}
    BY <2>2, <2>3 DEF EntryOK
  <2>6. EntryOK(q, events')
    BY <2>2, <2>4, <2>5 DEF EntryOK
  <2> QED
    BY <2>1, <2>6
<1>5. \A a \in Agents : EntryOK(agenda[a], events)'
    BY <1>4 DEF EntryOK, WithinWorkday
<1> QED
    BY <1>1, <1>5, EntriesOK DEF CalendarInv, LaneInv, SlotsAreFree, ChangesInLane, ListingInLane, EntryOK

(* A call goes on, and no event changes.                                     *)
LEMMA EntryMoves ==
    ASSUME CalendarTypeOK, CalendarInv, NEW a \in Agents, NEW q \in Entry(Len(events)), EntryOK(q, events),
           agenda' = [agenda EXCEPT ![a] = q], UNCHANGED <<backend, events, disturbances>>
    PROVE  CalendarTypeOK' /\ CalendarInv'
<1>1. agenda' \in [Agents -> Entry(Len(events'))] /\ \A b \in Agents : agenda'[b] = agenda[b] \/ EntryOK(agenda'[b], events')
    BY AgendaFacts
<1>2. Len(events') = Len(events) /\ Len(events) \in Nat /\ events' \in Seq(Event)
    BY AgendaFacts
<1>3. Len(events') <= MaxEvents /\ backend' \in Homes /\ disturbances' \in 0..MaxDisturbances
    BY DEF CalendarTypeOK
<1> QED
    BY <1>1, <1>2, <1>3, AgendaMoves

(* An entry with one of its parts replaced, or two, or three.               *)
GoesOn(q, pc) == [q EXCEPT !.pc = pc]
AtHome(q, pc, home) == [q EXCEPT !.pc = pc, !.target = home]
WithRows(q, pc, rows) == [q EXCEPT !.pc = pc, !.result = rows]
WithSlots(q, pc, slots, seen) == [q EXCEPT !.pc = pc, !.slots = slots, !.seen = seen]

LEMMA EntryGoesOn ==
    ASSUME NEW n \in Nat, NEW q \in Entry(n), NEW pc \in Steps
    PROVE  LET e == GoesOn(q, pc) IN
           /\ e \in Entry(n)
           /\ e.pc = pc /\ e.op = q.op /\ e.lane = q.lane /\ e.target = q.target /\ e.event = q.event
           /\ e.span = q.span /\ e.result = q.result /\ e.slots = q.slots /\ e.seen = q.seen
<1>1. PICK Rows, Pairs, Lists, Sets : Rows = 0..n /\ Pairs = Int \X Int /\ Lists = SUBSET (1..n) /\ Sets = SUBSET (Int \X Int)
    OBVIOUS
<1>2. Entry(n) = [pc : Steps, op : Ops, lane : AgendaLanes, target : Homes, event : Rows, span : Pairs,
              result : Lists, slots : Sets, seen : Sets]
    BY <1>1 DEF Entry
<1>3. q \in [pc : Steps, op : Ops, lane : AgendaLanes, target : Homes, event : Rows, span : Pairs,
              result : Lists, slots : Sets, seen : Sets]
    BY <1>2
<1>4. pc \in Steps
    BY <1>1
<1> DEFINE e == [q EXCEPT !.pc = pc]
<1>5.      /\ e \in [pc : Steps, op : Ops, lane : AgendaLanes, target : Homes, event : Rows, span : Pairs,
              result : Lists, slots : Sets, seen : Sets]
           /\ e.pc = pc /\ e.op = q.op /\ e.lane = q.lane /\ e.target = q.target /\ e.event = q.event
           /\ e.span = q.span /\ e.result = q.result /\ e.slots = q.slots /\ e.seen = q.seen
    BY <1>3, <1>4
<1>6. e \in Entry(n) /\ e = GoesOn(q, pc)
    BY <1>2, <1>5 DEF GoesOn
<1> HIDE DEF e
<1> QED
    BY <1>5, <1>6

LEMMA EntryAtHome ==
    ASSUME NEW n \in Nat, NEW q \in Entry(n), NEW pc \in Steps, NEW home \in Homes
    PROVE  LET e == AtHome(q, pc, home) IN
           /\ e \in Entry(n)
           /\ e.pc = pc /\ e.op = q.op /\ e.lane = q.lane /\ e.target = home /\ e.event = q.event
           /\ e.span = q.span /\ e.result = q.result /\ e.slots = q.slots /\ e.seen = q.seen
<1>1. PICK Rows, Pairs, Lists, Sets : Rows = 0..n /\ Pairs = Int \X Int /\ Lists = SUBSET (1..n) /\ Sets = SUBSET (Int \X Int)
    OBVIOUS
<1>2. Entry(n) = [pc : Steps, op : Ops, lane : AgendaLanes, target : Homes, event : Rows, span : Pairs,
              result : Lists, slots : Sets, seen : Sets]
    BY <1>1 DEF Entry
<1>3. q \in [pc : Steps, op : Ops, lane : AgendaLanes, target : Homes, event : Rows, span : Pairs,
              result : Lists, slots : Sets, seen : Sets]
    BY <1>2
<1>4. pc \in Steps /\ home \in Homes
    BY <1>1
<1> DEFINE e == [q EXCEPT !.pc = pc, !.target = home]
<1>5.      /\ e \in [pc : Steps, op : Ops, lane : AgendaLanes, target : Homes, event : Rows, span : Pairs,
              result : Lists, slots : Sets, seen : Sets]
           /\ e.pc = pc /\ e.op = q.op /\ e.lane = q.lane /\ e.target = home /\ e.event = q.event
           /\ e.span = q.span /\ e.result = q.result /\ e.slots = q.slots /\ e.seen = q.seen
    BY <1>3, <1>4
<1>6. e \in Entry(n) /\ e = AtHome(q, pc, home)
    BY <1>2, <1>5 DEF AtHome
<1> HIDE DEF e
<1> QED
    BY <1>5, <1>6

LEMMA EntryWithRows ==
    ASSUME NEW n \in Nat, NEW q \in Entry(n), NEW pc \in Steps, NEW rows \in SUBSET (1..n)
    PROVE  LET e == WithRows(q, pc, rows) IN
           /\ e \in Entry(n)
           /\ e.pc = pc /\ e.op = q.op /\ e.lane = q.lane /\ e.target = q.target /\ e.event = q.event
           /\ e.span = q.span /\ e.result = rows /\ e.slots = q.slots /\ e.seen = q.seen
<1>1. PICK Rows, Pairs, Lists, Sets : Rows = 0..n /\ Pairs = Int \X Int /\ Lists = SUBSET (1..n) /\ Sets = SUBSET (Int \X Int)
    OBVIOUS
<1>2. Entry(n) = [pc : Steps, op : Ops, lane : AgendaLanes, target : Homes, event : Rows, span : Pairs,
              result : Lists, slots : Sets, seen : Sets]
    BY <1>1 DEF Entry
<1>3. q \in [pc : Steps, op : Ops, lane : AgendaLanes, target : Homes, event : Rows, span : Pairs,
              result : Lists, slots : Sets, seen : Sets]
    BY <1>2
<1>4. pc \in Steps /\ rows \in Lists
    BY <1>1
<1> DEFINE e == [q EXCEPT !.pc = pc, !.result = rows]
<1>5.      /\ e \in [pc : Steps, op : Ops, lane : AgendaLanes, target : Homes, event : Rows, span : Pairs,
              result : Lists, slots : Sets, seen : Sets]
           /\ e.pc = pc /\ e.op = q.op /\ e.lane = q.lane /\ e.target = q.target /\ e.event = q.event
           /\ e.span = q.span /\ e.result = rows /\ e.slots = q.slots /\ e.seen = q.seen
    BY <1>3, <1>4
<1>6. e \in Entry(n) /\ e = WithRows(q, pc, rows)
    BY <1>2, <1>5 DEF WithRows
<1> HIDE DEF e
<1> QED
    BY <1>5, <1>6

LEMMA EntryWithSlots ==
    ASSUME NEW n \in Nat, NEW q \in Entry(n), NEW pc \in Steps, NEW slots \in SUBSET (Int \X Int), NEW seen \in SUBSET (Int \X Int)
    PROVE  LET e == WithSlots(q, pc, slots, seen) IN
           /\ e \in Entry(n)
           /\ e.pc = pc /\ e.op = q.op /\ e.lane = q.lane /\ e.target = q.target /\ e.event = q.event
           /\ e.span = q.span /\ e.result = q.result /\ e.slots = slots /\ e.seen = seen
<1>1. PICK Rows, Pairs, Lists, Sets : Rows = 0..n /\ Pairs = Int \X Int /\ Lists = SUBSET (1..n) /\ Sets = SUBSET (Int \X Int)
    OBVIOUS
<1>2. Entry(n) = [pc : Steps, op : Ops, lane : AgendaLanes, target : Homes, event : Rows, span : Pairs,
              result : Lists, slots : Sets, seen : Sets]
    BY <1>1 DEF Entry
<1>3. q \in [pc : Steps, op : Ops, lane : AgendaLanes, target : Homes, event : Rows, span : Pairs,
              result : Lists, slots : Sets, seen : Sets]
    BY <1>2
<1>4. pc \in Steps /\ slots \in Sets /\ seen \in Sets
    BY <1>1
<1> DEFINE e == [q EXCEPT !.pc = pc, !.slots = slots, !.seen = seen]
<1>5.      /\ e \in [pc : Steps, op : Ops, lane : AgendaLanes, target : Homes, event : Rows, span : Pairs,
              result : Lists, slots : Sets, seen : Sets]
           /\ e.pc = pc /\ e.op = q.op /\ e.lane = q.lane /\ e.target = q.target /\ e.event = q.event
           /\ e.span = q.span /\ e.result = q.result /\ e.slots = slots /\ e.seen = seen
    BY <1>3, <1>4
<1>6. e \in Entry(n) /\ e = WithSlots(q, pc, slots, seen)
    BY <1>2, <1>5 DEF WithSlots
<1> HIDE DEF e
<1> QED
    BY <1>5, <1>6

-------------------------------------------------------------------------------
(* Free time *)

LEMMA BusyBlocks ==
    ASSUME CalendarTypeOK, NEW home, NEW lane, NEW from, NEW to
    PROVE  /\ Busy(home, lane, from, to) \subseteq DOMAIN events /\ IsFiniteSet(Busy(home, lane, from, to))
           /\ \A i \in Busy(home, lane, from, to) : events[i].start <= to \/ events[i].start < to
<1>1. Busy(home, lane, from, to) \in SUBSET DOMAIN events
    BY DEF Busy, ListEvents, Live
<1>2. IsFiniteSet(DOMAIN events)
  <2>1. 1 \in Int /\ Len(events) \in Int
    BY AgendaFacts
  <2> QED
    BY <2>1, AgendaFacts, FS_Interval
<1>3. IsFiniteSet(Busy(home, lane, from, to))
    BY <1>1, <1>2, FS_Subset
<1>4. \A i \in Busy(home, lane, from, to) : events[i].start <= to \/ events[i].start < to
    BY DEF Busy, ListEvents
<1> QED
    BY <1>1, <1>3, <1>4

(* The cursor of the scan stands after every block it has passed.            *)
LEMMA LastEndFacts ==
    ASSUME CalendarTypeOK, NEW from \in Int, NEW blocks \in SUBSET DOMAIN events, IsFiniteSet(blocks)
    PROVE  /\ LastEnd(blocks, from) \in Int /\ LastEnd(blocks, from) >= from
           /\ \A i \in blocks : LastEnd(blocks, from) >= events[i].end
<1> DEFINE ends == {from} \union {events[i].end : i \in blocks}
           R == {x \in ends \X ends : x[1] >= x[2]}
           f == [i \in blocks |-> events[i].end]
<1>1. \A t \in ends : t \in Int
    BY AgendaFacts
<1>2. IsFiniteSet(ends)
  <2>1. f \in Surjection(blocks, {events[i].end : i \in blocks})
    BY DEF Surjection
  <2>2. IsFiniteSet({events[i].end : i \in blocks})
    BY <2>1, FS_Surjection
  <2> QED
    BY <2>2, FS_Singleton, FS_Union
<1>3. from \in ends
    OBVIOUS
<1>4. \A x, y \in ends : <<x, y>> \in R <=> x >= y
  <2> HIDE DEF ends
  <2> SUFFICES ASSUME NEW x \in ends, NEW y \in ends PROVE <<x, y>> \in R <=> x >= y
    OBVIOUS
  <2>1. <<x, y>> \in ends \X ends /\ <<x, y>>[1] = x /\ <<x, y>>[2] = y
    OBVIOUS
  <2> QED
    BY <2>1, ZenonT(30)
<1>5. \A i \in blocks : events[i].end \in ends
    OBVIOUS
<1>6. LastEnd(blocks, from) = CHOOSE t \in ends : \A u \in ends : t >= u
    BY DEF LastEnd
<1> HIDE DEF ends, R
<1>7. \E t \in ends : \A u \in ends : <<t, u>> \in R
  <2>1. ASSUME NEW x \in ends, NEW y \in ends PROVE <<x, y>> \in R \/ <<y, x>> \in R
    <3>1. x >= y \/ y >= x
      BY <1>1
    <3> QED
      BY <1>4, <3>1
  <2>2. \A x, y \in ends : <<x, y>> \in R /\ <<y, x>> \in R => x = y
    BY <1>1, <1>4
  <2>3. \A x, y, z \in ends : <<x, y>> \in R /\ <<y, z>> \in R => <<x, z>> \in R
    BY <1>1, <1>4
  <2> QED
    BY <1>2, <1>3, <2>1, <2>2, <2>3, FirstOfOrder
<1>8. \E t \in ends : \A u \in ends : t >= u
    BY <1>4, <1>7
<1>9. LastEnd(blocks, from) \in ends /\ \A u \in ends : LastEnd(blocks, from) >= u
    BY <1>6, <1>8, ZenonT(30)
<1> QED
    BY <1>1, <1>3, <1>5, <1>9

(* A slot begins where every earlier block has ended and ends before the     *)
(* next begins.                                                              *)
LEMMA SlotsFound ==
    ASSUME CalendarTypeOK, NEW home \in Homes, NEW lane, NEW from \in Int, NEW to \in Int, NEW duration \in 1..2
    PROVE  /\ FindFreeSlots(home, lane, from, to, duration) \subseteq Int \X Int
           /\ \A s \in FindFreeSlots(home, lane, from, to, duration) :
                /\ s[1] >= from /\ s[2] <= to /\ s[1] < s[2] /\ WithinWorkday(s[1])
                /\ \A i \in Busy(home, lane, from, to) : s[2] <= events[i].start \/ events[i].end <= s[1]
<1>1. PICK busy : busy = Busy(home, lane, from, to)
    OBVIOUS
<1>2. /\ busy \subseteq DOMAIN events /\ IsFiniteSet(busy)
      /\ \A i \in busy : events[i].start \in Int /\ events[i].end \in Int /\ events[i].start <= to
  <2>1. /\ busy \subseteq DOMAIN events /\ IsFiniteSet(busy)
        /\ \A i \in busy : events[i].start <= to \/ events[i].start < to
    BY <1>1, BusyBlocks
  <2>2. \A i \in busy : events[i].start \in Int /\ events[i].end \in Int
    BY <2>1, AgendaFacts
  <2> QED
    BY <2>1, <2>2
<1> DEFINE Earlier(i) == {j \in busy : events[j].start < events[i].start}
           gaps == {<<LastEnd(Earlier(i), from), events[i].start>> : i \in busy} \union {<<LastEnd(busy, from), to>>}
           free == {g \in gaps : g[2] - g[1] >= duration /\ WithinWorkday(g[1])}
<1>3. ASSUME NEW blocks \in SUBSET busy
      PROVE  /\ LastEnd(blocks, from) \in Int /\ LastEnd(blocks, from) >= from
             /\ \A i \in blocks : LastEnd(blocks, from) >= events[i].end
  <2>1. IsFiniteSet(blocks) /\ blocks \in SUBSET DOMAIN events
    BY <1>2, FS_Subset
  <2> QED
    BY <2>1, LastEndFacts
<1>4. \A g \in gaps : /\ g \in Int \X Int /\ g[1] >= from /\ g[2] <= to
                      /\ \A i \in busy : g[2] <= events[i].start \/ events[i].end <= g[1]
  <2>1. ASSUME NEW j \in busy, NEW g, g = <<LastEnd(Earlier(j), from), events[j].start>>
        PROVE  /\ g \in Int \X Int /\ g[1] >= from /\ g[2] <= to
               /\ \A i \in busy : g[2] <= events[i].start \/ events[i].end <= g[1]
    <3>1. PICK x : x = LastEnd(Earlier(j), from)
      OBVIOUS
    <3>2. x \in Int /\ x >= from /\ \A i \in Earlier(j) : x >= events[i].end
      BY <1>3, <3>1
    <3>3. \A i \in busy : i \in Earlier(j) \/ events[i].start >= events[j].start
      BY <1>2
    <3> HIDE DEF Earlier
    <3>4. g[1] = x /\ g[2] = events[j].start /\ events[j].start \in Int /\ events[j].start <= to /\ g \in Int \X Int
      BY <1>2, <2>1, <3>1, <3>2
    <3>5. \A i \in busy : events[j].start <= events[i].start \/ events[i].end <= x
      BY <1>2, <3>2, <3>3
    <3> QED
      BY <3>2, <3>4, <3>5
  <2>2. ASSUME NEW g, g = <<LastEnd(busy, from), to>>
        PROVE  /\ g \in Int \X Int /\ g[1] >= from /\ g[2] <= to
               /\ \A i \in busy : g[2] <= events[i].start \/ events[i].end <= g[1]
    <3>1. PICK x : x = LastEnd(busy, from)
      OBVIOUS
    <3>2. x \in Int /\ x >= from /\ \A i \in busy : x >= events[i].end
      BY <1>3, <3>1
    <3> QED
      BY <1>2, <2>2, <3>1, <3>2
  <2> HIDE DEF Earlier
  <2> QED
    BY <2>1, <2>2
<1>5. FindFreeSlots(home, lane, from, to, duration) =
        IF home = "mora" THEN {<<g[1], g[1] + duration>> : g \in free} ELSE free
    BY <1>1 DEF FindFreeSlots
<1>6. \A g \in free : g \in gaps /\ g[2] - g[1] >= duration /\ WithinWorkday(g[1])
    OBVIOUS
<1> HIDE DEF free, gaps
<1>7. duration \in Int /\ duration >= 1
    OBVIOUS
<1>8. \A g \in free : /\ g \in Int \X Int /\ g[1] \in Int /\ g[2] \in Int
                      /\ g[1] >= from /\ g[2] <= to /\ g[1] < g[2] /\ g[1] + duration <= g[2] /\ WithinWorkday(g[1])
                      /\ \A i \in busy : g[2] <= events[i].start \/ events[i].end <= g[1]
    BY <1>4, <1>6, <1>7
<1>9. ASSUME NEW s \in FindFreeSlots(home, lane, from, to, duration)
      PROVE  /\ s \in Int \X Int /\ s[1] >= from /\ s[2] <= to /\ s[1] < s[2] /\ WithinWorkday(s[1])
             /\ \A i \in busy : s[2] <= events[i].start \/ events[i].end <= s[1]
  <2>1. CASE s \in free
    BY <1>8, <2>1
  <2>2. CASE \E g \in free : s = <<g[1], g[1] + duration>>
    <3>1. PICK g \in free : s = <<g[1], g[1] + duration>>
      BY <2>2
    <3>2. PICK x \in Int, y \in Int : x = g[1] /\ y = g[2]
      BY <1>8
    <3>3. /\ x >= from /\ y <= to /\ x < y /\ x + duration <= y /\ WithinWorkday(x)
          /\ \A i \in busy : y <= events[i].start \/ events[i].end <= x
      BY <1>8, <3>2
    <3>4. s = <<x, x + duration>> /\ s[1] = x /\ s[2] = x + duration /\ s \in Int \X Int
      BY <1>7, <3>1, <3>2
    <3>5. \A i \in busy : x + duration <= events[i].start \/ events[i].end <= x
      BY <1>2, <1>7, <3>3
    <3> QED
      BY <1>7, <3>3, <3>4, <3>5
  <2> QED
    BY <1>5, <1>9, <2>1, <2>2
<1> QED
    BY <1>1, <1>9

-------------------------------------------------------------------------------
(* The calls *)

(* A call that goes on or gives up, with the same target or another.         *)
LEMMA EntrySteps ==
    ASSUME CalendarTypeOK, CalendarInv, NEW a \in Agents, NEW pc \in {"compare", "again", "change", "refused"},
           NEW home \in Homes, agenda[a].pc # "done",
           \/ agenda' = [agenda EXCEPT ![a].pc = pc]
           \/ agenda' = [agenda EXCEPT ![a].pc = pc, ![a].target = home],
           pc # "refused" => agenda[a].op \in {"update", "cancel"},
           pc \in {"again", "change"} => events[agenda[a].event].lane = agenda[a].lane,
           UNCHANGED <<backend, events, disturbances>>
    PROVE  CalendarTypeOK' /\ CalendarInv'
<1>1. PICK q : q = agenda[a]
    OBVIOUS
<1>2. q \in Entry(Len(events)) /\ Len(events) \in Nat /\ EntryOK(q, events) /\ q.pc # "done"
    BY <1>1, AgendaFacts, EntriesOK
<1>3. pc \in Steps
    BY DEF Steps
<1>4. PICK n \in Nat : n = Len(events)
    BY <1>2
<1>5. q \in Entry(n)
    BY <1>2, <1>4
<1>6. PICK e \in Entry(Len(events)) :
        /\ agenda' = [agenda EXCEPT ![a] = e]
        /\ e.pc = pc /\ e.op = q.op /\ e.lane = q.lane /\ e.event = q.event
        /\ e.span = q.span /\ e.result = q.result /\ e.slots = q.slots /\ e.seen = q.seen
  <2>1. CASE agenda' = [agenda EXCEPT ![a].pc = pc]
    <3> DEFINE e == GoesOn(q, pc)
    <3>1. agenda' = [agenda EXCEPT ![a] = e]
      BY <1>1, <2>1, AgendaFacts DEF GoesOn
    <3>2. /\ e \in Entry(n)
          /\ e.pc = pc /\ e.op = q.op /\ e.lane = q.lane /\ e.target = q.target /\ e.event = q.event
          /\ e.span = q.span /\ e.result = q.result /\ e.slots = q.slots /\ e.seen = q.seen
      BY <1>5, <1>3, EntryGoesOn
    <3> HIDE DEF e
    <3> QED
      BY <1>4, <3>1, <3>2
  <2>2. CASE agenda' = [agenda EXCEPT ![a].pc = pc, ![a].target = home]
    <3> DEFINE e == AtHome(q, pc, home)
    <3>1. agenda' = [agenda EXCEPT ![a] = e]
      BY <1>1, <2>2, AgendaFacts DEF AtHome
    <3>2. /\ e \in Entry(n)
          /\ e.pc = pc /\ e.op = q.op /\ e.lane = q.lane /\ e.target = home /\ e.event = q.event
          /\ e.span = q.span /\ e.result = q.result /\ e.slots = q.slots /\ e.seen = q.seen
      BY <1>5, <1>3, EntryAtHome
    <3> HIDE DEF e
    <3> QED
      BY <1>4, <3>1, <3>2
  <2> QED
    BY <2>1, <2>2
<1>7. EntryOK(e, events)
    BY <1>1, <1>2, <1>6 DEF EntryOK
<1> QED
    BY <1>6, <1>7, EntryMoves

(* The entry of a call that has just read the setting.                       *)
Asking(op, lane, home, i, span) ==
    [NoCall EXCEPT !.pc = "call", !.op = op, !.lane = lane, !.target = home, !.event = i, !.span = span]

LEMMA EntryOfCall ==
    ASSUME NEW n \in Nat, NEW op \in Ops, NEW lane \in AgendaLanes, NEW home \in Homes, NEW i \in 0..n, NEW span \in Int \X Int
    PROVE  LET e == Asking(op, lane, home, i, span) IN
           /\ e \in Entry(n)
           /\ e.pc = "call" /\ e.op = op /\ e.event = i /\ e.result = {} /\ e.slots = {}
<1>1. PICK Rows, Pairs, Lists, Sets : Rows = 0..n /\ Pairs = Int \X Int /\ Lists = SUBSET (1..n) /\ Sets = SUBSET (Int \X Int)
    OBVIOUS
<1>2. Entry(n) = [pc : Steps, op : Ops, lane : AgendaLanes, target : Homes, event : Rows, span : Pairs,
              result : Lists, slots : Sets, seen : Sets]
    BY <1>1 DEF Entry
<1>3. /\ 0 \in Rows /\ <<0, 1>> \in Pairs /\ {} \in Lists /\ {} \in Sets /\ i \in Rows /\ span \in Pairs
      /\ "idle" \in Steps /\ "call" \in Steps /\ "none" \in Ops /\ "personal" \in AgendaLanes /\ "mora" \in Homes
    BY <1>1 DEF Steps, Ops, AgendaLanes, Homes
<1> DEFINE q == NoCall
<1>4. /\ q \in [pc : Steps, op : Ops, lane : AgendaLanes, target : Homes, event : Rows, span : Pairs,
              result : Lists, slots : Sets, seen : Sets]
      /\ q.result = {} /\ q.slots = {}
    BY <1>3 DEF NoCall
<1> HIDE DEF q
<1> DEFINE e == [q EXCEPT !.pc = "call", !.op = op, !.lane = lane, !.target = home, !.event = i, !.span = span]
<1>5. /\ e \in [pc : Steps, op : Ops, lane : AgendaLanes, target : Homes, event : Rows, span : Pairs,
              result : Lists, slots : Sets, seen : Sets]
      /\ e.pc = "call" /\ e.op = op /\ e.event = i /\ e.result = {} /\ e.slots = {}
    BY <1>3, <1>4
<1>6. e \in Entry(n) /\ e = Asking(op, lane, home, i, span)
    BY <1>2, <1>5 DEF Asking, q
<1> HIDE DEF e
<1> QED
    BY <1>5, <1>6

LEMMA TargetStep ==
    ASSUME CalendarTypeOK, CalendarInv, NEW a \in Agents, NEW op \in Ops, NEW lane \in AgendaLanes, NEW i \in Nat,
           NEW span \in Windows, Target(a, op, lane, i, span),
           IF op \in {"update", "cancel"} THEN i \in DOMAIN events ELSE i = 0
    PROVE  CalendarTypeOK' /\ CalendarInv'
<1> DEFINE q == Asking(op, lane, backend, i, span)
<1>1. agenda' = [agenda EXCEPT ![a] = q] /\ UNCHANGED <<backend, events, disturbances>>
    BY DEF Target, Asking
<1>2. /\ q \in Entry(Len(events))
      /\ q.pc = "call" /\ q.op = op /\ q.event = i /\ q.result = {} /\ q.slots = {}
  <2>1. i \in 0..Len(events) /\ span \in Int \X Int /\ backend \in Homes /\ Len(events) \in Nat
    BY AgendaFacts, CalendarConstants DEF CalendarTypeOK
  <2> QED
    BY <2>1, EntryOfCall
<1> HIDE DEF q
<1>3. EntryOK(q, events)
    BY <1>2 DEF EntryOK
<1> QED
    BY <1>1, <1>2, <1>3, EntryMoves

LEMMA GetStep ==
    ASSUME CalendarTypeOK, CalendarInv, NEW a \in Agents, GetMoraEvent(a) \/ GetGoogleEvent(a)
    PROVE  CalendarTypeOK' /\ CalendarInv'
<1>1. /\ agenda[a].pc # "done" /\ agenda[a].op \in {"update", "cancel"} /\ UNCHANGED <<backend, events, disturbances>>
      /\ \E pc \in {"compare", "refused"} : agenda' = [agenda EXCEPT ![a].pc = pc]
    BY DEF GetMoraEvent, GetGoogleEvent, Decline
<1>2. "mora" \in Homes
    BY DEF Homes
<1> QED
    BY <1>1, <1>2, EntrySteps

LEMMA CompareStep ==
    ASSUME CalendarTypeOK, CalendarInv, NEW a \in Agents, CompareLane(a)
    PROVE  CalendarTypeOK' /\ CalendarInv'
<1>1. /\ agenda[a].pc = "compare" /\ UNCHANGED <<backend, events, disturbances>>
      /\ \/ agenda' = [agenda EXCEPT ![a].pc = "refused"]
         \/ agenda' = [agenda EXCEPT ![a].pc = "again"] /\ events[agenda[a].event].lane = agenda[a].lane
    BY DEF CompareLane, Decline
<1>2. agenda[a].op \in {"update", "cancel"} /\ "mora" \in Homes
    BY <1>1 DEF CalendarInv, LaneInv, Homes
<1> QED
    BY <1>1, <1>2, EntrySteps

LEMMA AgainStep ==
    ASSUME CalendarTypeOK, CalendarInv, NEW a \in Agents, TargetAgain(a)
    PROVE  CalendarTypeOK' /\ CalendarInv'
<1>1. /\ agenda[a].pc = "again" /\ UNCHANGED <<backend, events, disturbances>>
      /\ agenda' = [agenda EXCEPT ![a].pc = "change", ![a].target = backend]
    BY DEF TargetAgain
<1>2. agenda[a].op \in {"update", "cancel"} /\ events[agenda[a].event].lane = agenda[a].lane /\ backend \in Homes
    BY <1>1 DEF CalendarInv, LaneInv, CalendarTypeOK
<1> QED
    BY <1>1, <1>2, EntrySteps

(* A call that ends with rows to show, after the events changed or not.      *)
LEMMA FinishStep ==
    ASSUME CalendarTypeOK, CalendarInv, NEW a \in Agents, NEW rows \in SUBSET DOMAIN events, Finish(a, rows),
           agenda[a].op \in {"update", "cancel"} =>
                events[agenda[a].event].lane = agenda[a].lane /\ events[agenda[a].event].home = agenda[a].target,
           agenda[a].op = "list" => \A i \in rows : events[i].lane \in {agenda[a].lane, NoLane},
           events' \in Seq(Event), Len(events) <= Len(events'), Len(events') <= MaxEvents,
           \A i \in DOMAIN events : events'[i].lane = events[i].lane /\ events'[i].home = events[i].home,
           UNCHANGED <<backend, disturbances>>
    PROVE  CalendarTypeOK' /\ CalendarInv'
<1>1. PICK q : q = agenda[a]
    OBVIOUS
<1>2. /\ q \in Entry(Len(events)) /\ Len(events) \in Nat /\ Len(events') \in Nat /\ EntryOK(q, events)
      /\ DOMAIN events = 1..Len(events) /\ DOMAIN events' = 1..Len(events')
    BY <1>1, AgendaFacts, EntriesOK, LenProperties
<1>3. "done" \in Steps /\ rows \in SUBSET (1..Len(events))
    BY <1>2 DEF Steps
<1> DEFINE e == WithRows(q, "done", rows)
<1>4. agenda' = [agenda EXCEPT ![a] = e]
    BY <1>1, AgendaFacts DEF Finish, WithRows
<1>5. /\ e \in Entry(Len(events))
      /\ e.pc = "done" /\ e.op = q.op /\ e.lane = q.lane /\ e.target = q.target /\ e.event = q.event
      /\ e.span = q.span /\ e.result = rows /\ e.slots = q.slots /\ e.seen = q.seen
    BY <1>2, <1>3, EntryWithRows
<1> HIDE DEF e
<1>6. \A p \in Entry(Len(events)) : p \in Entry(Len(events'))
  <2>1. /\ 0..Len(events) \subseteq 0..Len(events') /\ SUBSET (1..Len(events)) \subseteq SUBSET (1..Len(events'))
    BY <1>2
  <2> QED
    BY <2>1 DEF Entry
<1>7. agenda' \in [Agents -> Entry(Len(events'))] /\ agenda'[a] = e /\ \A b \in Agents \ {a} : agenda'[b] = agenda[b]
    BY <1>4, <1>5, <1>6, AgendaFacts
<1>8. EntryOK(e, events')
  <2>1. e.op \in {"update", "cancel"} => e.event \in DOMAIN events /\ e.event \in DOMAIN events'
    BY <1>2, <1>5 DEF EntryOK
  <2>2. e.op \in {"update", "cancel"} => events'[e.event].lane = e.lane /\ events'[e.event].home = e.target
    BY <1>1, <1>5, <2>1
  <2>3. e.op = "list" => \A i \in e.result : events'[i].lane \in {e.lane, NoLane}
    BY <1>1, <1>5
  <2>4. \A s \in e.slots :
         /\ s[1] >= e.span[1] /\ s[2] <= e.span[2] /\ s[1] < s[2] /\ WithinWorkday(s[1])
         /\ \A b \in e.seen : s[2] <= b[1] \/ b[2] <= s[1]
    BY <1>2, <1>5 DEF EntryOK
  <2> QED
    BY <1>5, <2>1, <2>2, <2>3, <2>4 DEF EntryOK
<1>9. backend' \in Homes /\ disturbances' \in 0..MaxDisturbances
    BY DEF CalendarTypeOK
<1> QED
    BY <1>7, <1>8, <1>9, AgendaMoves

LEMMA EventAdded ==
    ASSUME CalendarTypeOK, NEW home \in Homes, NEW lane \in AgendaLanes \union {NoLane}, NEW span \in Int \X Int,
           home = "mora" => lane \in AgendaLanes, AddEvent(home, lane, span)
    PROVE  /\ events' \in Seq(Event) /\ Len(events) <= Len(events') /\ Len(events') <= MaxEvents
           /\ \A i \in DOMAIN events : events'[i] = events[i]
<1>1. PICK e : e = [home |-> home, lane |-> lane, start |-> span[1], end |-> span[2], gone |-> FALSE]
    OBVIOUS
<1>2. e \in Event
  <2>1. span[1] \in Int /\ span[2] \in Int
    OBVIOUS
  <2> QED
    BY <1>1, <2>1 DEF Event
<1>3. events' = Append(events, e) /\ Len(events) < MaxEvents /\ MaxEvents \in Nat /\ Len(events) \in Nat
    BY <1>1, CalendarConstants, AgendaFacts DEF AddEvent
<1>4. events' \in Seq(Event) /\ Len(events') = Len(events) + 1 /\ \A i \in 1..Len(events) : events'[i] = events[i]
    BY <1>2, <1>3, AgendaFacts, AppendProperties
<1> QED
    BY <1>3, <1>4, AgendaFacts

LEMMA EventChanged ==
    ASSUME CalendarTypeOK, NEW i \in DOMAIN events, NEW op, NEW span \in Int \X Int, Changed(i, op, span)
    PROVE  /\ events' \in Seq(Event) /\ Len(events) <= Len(events') /\ Len(events') <= MaxEvents
           /\ \A j \in DOMAIN events : events'[j].lane = events[j].lane /\ events'[j].home = events[j].home
<1>1. PICK old : old = events[i]
    OBVIOUS
<1>2. old \in Event /\ events \in Seq(Event) /\ Len(events) \in Nat /\ DOMAIN events = 1..Len(events)
    BY <1>1, AgendaFacts
<1>3. span[1] \in Int /\ span[2] \in Int
    OBVIOUS
<1>4. PICK e : /\ events' = [events EXCEPT ![i] = e]
               /\ e = [old EXCEPT !.gone = TRUE] \/ e = [old EXCEPT !.start = span[1], !.end = span[2]]
    BY <1>1, <1>2 DEF Changed
<1>5. e \in Event /\ e.lane = old.lane /\ e.home = old.home
    BY <1>2, <1>3, <1>4 DEF Event
<1>6. /\ events' \in Seq(Event) /\ Len(events') = Len(events)
      /\ \A j \in 1..Len(events) : events'[j] = IF j = i THEN e ELSE events[j]
    BY <1>2, <1>4, <1>5, ExceptSeq
<1>7. Len(events) <= MaxEvents
    BY DEF CalendarTypeOK
<1> QED
    BY <1>1, <1>2, <1>5, <1>6, <1>7

LEMMA CreateEventStep ==
    ASSUME CalendarTypeOK, CalendarInv, NEW a \in Agents, CreateMoraEvent(a) \/ CreateGoogleEvent(a)
    PROVE  CalendarTypeOK' /\ CalendarInv'
<1>1. /\ agenda[a].pc = "call" /\ agenda[a].op = "create" /\ UNCHANGED <<backend, disturbances>>
      /\ \/ Decline(a) /\ UNCHANGED events
         \/ (AddEvent("mora", agenda[a].lane, agenda[a].span) \/ AddEvent("google", agenda[a].lane, agenda[a].span))
            /\ Finish(a, {})
    BY DEF CreateMoraEvent, CreateGoogleEvent, Asked
<1>2. agenda[a].lane \in AgendaLanes /\ agenda[a].span \in Int \X Int /\ "mora" \in Homes /\ "google" \in Homes
    BY AgendaFacts DEF Entry, Homes
<1>3. CASE Decline(a) /\ UNCHANGED events
    BY <1>1, <1>2, <1>3, EntrySteps DEF Decline
<1>4. CASE /\ AddEvent("mora", agenda[a].lane, agenda[a].span) \/ AddEvent("google", agenda[a].lane, agenda[a].span)
           /\ Finish(a, {})
  <2>1. /\ events' \in Seq(Event) /\ Len(events) <= Len(events') /\ Len(events') <= MaxEvents
        /\ \A i \in DOMAIN events : events'[i] = events[i]
    BY <1>2, <1>4, EventAdded
  <2> QED
    BY <1>1, <1>4, <2>1, FinishStep
<1> QED
    BY <1>1, <1>3, <1>4

LEMMA ListStep ==
    ASSUME CalendarTypeOK, CalendarInv, NEW a \in Agents, ListMoraEvents(a) \/ ListGoogleEvents(a)
    PROVE  CalendarTypeOK' /\ CalendarInv'
<1>1. PICK home \in Homes :
        /\ agenda[a].pc = "call" /\ agenda[a].op = "list" /\ UNCHANGED <<backend, events, disturbances>>
        /\ \/ Decline(a)
           \/ Finish(a, ListEvents(home, agenda[a].lane, agenda[a].span[1], agenda[a].span[2]))
    BY DEF ListMoraEvents, ListGoogleEvents, Asked, Homes
<1>2. CASE Decline(a)
    BY <1>1, <1>2, EntrySteps DEF Decline
<1>3. CASE Finish(a, ListEvents(home, agenda[a].lane, agenda[a].span[1], agenda[a].span[2]))
  <2>1. PICK rows : rows = ListEvents(home, agenda[a].lane, agenda[a].span[1], agenda[a].span[2])
    OBVIOUS
  <2>2. rows \in SUBSET DOMAIN events /\ \A i \in rows : events[i].lane \in {agenda[a].lane, NoLane}
    BY <2>1 DEF ListEvents, Live, MatchesScope
  <2>3. events' = events /\ events \in Seq(Event) /\ Len(events) \in Nat /\ Len(events) <= MaxEvents
    BY <1>1, AgendaFacts DEF CalendarTypeOK
  <2>4. Len(events) <= Len(events') /\ Len(events') <= MaxEvents /\ events' \in Seq(Event)
    BY <2>3
  <2> QED
    BY <1>1, <1>3, <2>1, <2>2, <2>3, <2>4, FinishStep
<1> QED
    BY <1>1, <1>2, <1>3

LEMMA SlotStep ==
    ASSUME CalendarTypeOK, CalendarInv, NEW a \in Agents, FindSlots(a)
    PROVE  CalendarTypeOK' /\ CalendarInv'
<1>1. PICK q : q = agenda[a]
    OBVIOUS
<1>2. /\ q \in Entry(Len(events)) /\ Len(events) \in Nat /\ EntryOK(q, events)
      /\ q.pc = "call" /\ q.op = "slots" /\ UNCHANGED <<backend, events, disturbances>>
    BY <1>1, AgendaFacts, EntriesOK DEF FindSlots, Asked
<1>3. PICK from \in Int, to \in Int : from = q.span[1] /\ to = q.span[2]
    BY <1>2 DEF Entry
<1>4. PICK duration \in 1..2 :
        agenda' = [agenda EXCEPT ![a].pc = "done",
            ![a].slots = FindFreeSlots(q.target, q.lane, from, to, duration),
            ![a].seen = {<<events[i].start, events[i].end>> : i \in Busy(q.target, q.lane, from, to)}]
    BY <1>1, <1>3 DEF FindSlots
<1>5. PICK slots : slots = FindFreeSlots(q.target, q.lane, from, to, duration)
    OBVIOUS
<1>6. PICK busy : busy = Busy(q.target, q.lane, from, to)
    OBVIOUS
<1>7. PICK seen : seen = {<<events[i].start, events[i].end>> : i \in busy}
    OBVIOUS
<1>8. q.target \in Homes /\ q.lane \in AgendaLanes
    BY <1>2 DEF Entry
<1>9. /\ slots \in SUBSET (Int \X Int)
      /\ \A s \in slots : /\ s[1] >= from /\ s[2] <= to /\ s[1] < s[2] /\ WithinWorkday(s[1])
                          /\ \A i \in busy : s[2] <= events[i].start \/ events[i].end <= s[1]
    BY <1>5, <1>6, <1>8, SlotsFound
<1>10. seen \in SUBSET (Int \X Int)
  <2>1. \A i \in busy : events[i].start \in Int /\ events[i].end \in Int
    BY <1>6, BusyBlocks, AgendaFacts
  <2> QED
    BY <1>7, <2>1
<1>11. "done" \in Steps
    BY DEF Steps
<1> DEFINE e == WithSlots(q, "done", slots, seen)
<1>12. agenda' = [agenda EXCEPT ![a] = e]
    BY <1>1, <1>4, <1>5, <1>6, <1>7, AgendaFacts DEF WithSlots
<1>13. /\ e \in Entry(Len(events))
       /\ e.pc = "done" /\ e.op = q.op /\ e.lane = q.lane /\ e.target = q.target /\ e.event = q.event
       /\ e.span = q.span /\ e.result = q.result /\ e.slots = slots /\ e.seen = seen
    BY <1>2, <1>9, <1>10, <1>11, EntryWithSlots
<1> HIDE DEF e
<1>14. \A s \in slots : \A b \in seen : s[2] <= b[1] \/ b[2] <= s[1]
    BY <1>7, <1>9
<1>15. EntryOK(e, events)
    BY <1>2, <1>3, <1>9, <1>13, <1>14 DEF EntryOK
<1> QED
    BY <1>2, <1>12, <1>13, <1>15, EntryMoves

LEMMA ChangeEventStep ==
    ASSUME CalendarTypeOK, CalendarInv, NEW a \in Agents, ChangeMoraEvent(a) \/ ChangeGoogleEvent(a)
    PROVE  CalendarTypeOK' /\ CalendarInv'
<1>1. PICK q : q = agenda[a]
    OBVIOUS
<1>2. /\ q \in Entry(Len(events)) /\ q.pc = "change" /\ q.op \in {"update", "cancel"} /\ q.event \in DOMAIN events
      /\ events[q.event].lane = q.lane /\ q.span \in Int \X Int /\ UNCHANGED <<backend, disturbances>>
    BY <1>1, AgendaFacts DEF ChangeMoraEvent, ChangeGoogleEvent, CalendarInv, LaneInv, Entry
<1>3. \/ Decline(a) /\ UNCHANGED events
      \/ Changed(q.event, q.op, q.span) /\ Finish(a, {q.event}) /\ events[q.event].home = q.target
    BY <1>1 DEF ChangeMoraEvent, ChangeGoogleEvent, Live
<1>4. CASE Decline(a) /\ UNCHANGED events
  <2>1. "mora" \in Homes
    BY DEF Homes
  <2> QED
    BY <1>1, <1>2, <1>4, <2>1, EntrySteps DEF Decline
<1>5. CASE Changed(q.event, q.op, q.span) /\ Finish(a, {q.event}) /\ events[q.event].home = q.target
  <2>1. /\ events' \in Seq(Event) /\ Len(events) <= Len(events') /\ Len(events') <= MaxEvents
        /\ \A j \in DOMAIN events : events'[j].lane = events[j].lane /\ events'[j].home = events[j].home
    BY <1>2, <1>5, EventChanged
  <2>2. {q.event} \in SUBSET DOMAIN events /\ q.op # "list"
    BY <1>2
  <2> QED
    BY <1>1, <1>2, <1>5, <2>1, <2>2, FinishStep
<1> QED
    BY <1>3, <1>4, <1>5

(* The setting and the events change under the calls.                        *)
LEMMA DisturbStep ==
    ASSUME CalendarTypeOK, CalendarInv,
           \/ SwitchBackend
           \/ \E span \in Windows : \/ GoogleOwnEvent(span)
                                    \/ \E i \in DOMAIN events, op \in {"update", "cancel"} : ChangeByRequest(i, op, span)
    PROVE  CalendarTypeOK' /\ CalendarInv'
<1>1. Disturb /\ backend' \in Homes
    BY DEF SwitchBackend, GoogleOwnEvent, ChangeByRequest, Homes, CalendarTypeOK
<1>2. disturbances' \in 0..MaxDisturbances /\ UNCHANGED agenda
    BY <1>1, CalendarConstants DEF Disturb, CalendarTypeOK
<1>3. /\ events' \in Seq(Event) /\ Len(events) <= Len(events') /\ Len(events') <= MaxEvents
      /\ \A i \in DOMAIN events : events'[i].lane = events[i].lane /\ events'[i].home = events[i].home
  <2>1. CASE SwitchBackend
    <3>1. events' = events /\ events \in Seq(Event) /\ Len(events) \in Nat /\ Len(events) <= MaxEvents
      BY <2>1, AgendaFacts DEF SwitchBackend, CalendarTypeOK
    <3> QED
      BY <3>1
  <2>2. ASSUME NEW span \in Windows, GoogleOwnEvent(span)
        PROVE  /\ events' \in Seq(Event) /\ Len(events) <= Len(events') /\ Len(events') <= MaxEvents
               /\ \A i \in DOMAIN events : events'[i] = events[i]
    <3>1. AddEvent("google", NoLane, span) /\ span \in Int \X Int /\ "google" \in Homes /\ NoLane \in AgendaLanes \union {NoLane}
      BY <2>2, CalendarConstants DEF GoogleOwnEvent, Homes
    <3> QED
      BY <3>1, EventAdded
  <2>3. ASSUME NEW span \in Windows, NEW i \in DOMAIN events, NEW op, ChangeByRequest(i, op, span)
        PROVE  /\ events' \in Seq(Event) /\ Len(events) <= Len(events') /\ Len(events') <= MaxEvents
               /\ \A j \in DOMAIN events : events'[j].lane = events[j].lane /\ events'[j].home = events[j].home
    <3>1. Changed(i, op, span) /\ span \in Int \X Int
      BY <2>3, CalendarConstants DEF ChangeByRequest
    <3> QED
      BY <3>1, EventChanged
  <2> QED
    BY <2>1, <2>2, <2>3
<1>4. agenda' \in [Agents -> Entry(Len(events'))]
  <2>1. Len(events) \in Nat /\ Len(events') \in Nat
    BY <1>3, AgendaFacts, LenProperties
  <2>2. /\ 0..Len(events) \subseteq 0..Len(events') /\ SUBSET (1..Len(events)) \subseteq SUBSET (1..Len(events'))
    BY <1>3, <2>1
  <2>3. \A p \in Entry(Len(events)) : p \in Entry(Len(events'))
    BY <2>2 DEF Entry
  <2> QED
    BY <1>2, <2>3, AgendaFacts
<1> QED
    BY <1>1, <1>2, <1>3, <1>4, AgendaMoves

LEMMA CalendarStep == CalendarTypeOK /\ CalendarInv /\ [CalendarNext]_calendarVars => (CalendarTypeOK /\ CalendarInv)'
<1> SUFFICES ASSUME CalendarTypeOK, CalendarInv, [CalendarNext]_calendarVars PROVE CalendarTypeOK' /\ CalendarInv'
    OBVIOUS
<1>1. CASE UNCHANGED calendarVars
  <2>1. CalendarTypeOK'
    BY <1>1 DEF calendarVars, CalendarTypeOK
  <2>2. CalendarInv'
    BY <1>1 DEF calendarVars, CalendarInv, LaneInv, SlotsAreFree, WithinWorkday, ChangesInLane, ListingInLane
  <2> QED
    BY <2>1, <2>2
<1>2. ASSUME NEW a \in Agents, NEW lane \in AgendaLanes, NEW span \in Windows,
             \/ \E op \in {"create", "list", "slots"} : Target(a, op, lane, 0, span)
             \/ \E op \in {"update", "cancel"}, i \in DOMAIN events : Target(a, op, lane, i, span)
      PROVE  CalendarTypeOK' /\ CalendarInv'
  <2>1. CASE \E op \in {"create", "list", "slots"} : Target(a, op, lane, 0, span)
    <3>1. PICK op \in {"create", "list", "slots"} : Target(a, op, lane, 0, span)
      BY <2>1
    <3>2. op \in Ops /\ op \notin {"update", "cancel"} /\ 0 \in Nat
      BY DEF Ops
    <3> QED
      BY <3>1, <3>2, TargetStep
  <2>2. CASE \E op \in {"update", "cancel"}, i \in DOMAIN events : Target(a, op, lane, i, span)
    <3>1. PICK op \in {"update", "cancel"}, i \in DOMAIN events : Target(a, op, lane, i, span)
      BY <2>2
    <3>2. op \in Ops /\ i \in Nat
      BY AgendaFacts DEF Ops
    <3> QED
      BY <3>1, <3>2, TargetStep
  <2> QED
    BY <1>2, <2>1, <2>2
<1>3. ASSUME NEW a \in Agents,
             \/ CreateMoraEvent(a) \/ CreateGoogleEvent(a) \/ ListMoraEvents(a) \/ ListGoogleEvents(a)
             \/ FindSlots(a) \/ GetMoraEvent(a) \/ GetGoogleEvent(a) \/ CompareLane(a) \/ TargetAgain(a)
             \/ ChangeMoraEvent(a) \/ ChangeGoogleEvent(a)
      PROVE  CalendarTypeOK' /\ CalendarInv'
    BY <1>3, CreateEventStep, ListStep, SlotStep, GetStep, CompareStep, AgainStep, ChangeEventStep
<1> QED
    BY <1>1, <1>2, <1>3, DisturbStep DEF CalendarNext

(* CalendarSafe: whatever the calls, the requests, the setting and the user  *)
(* in Google's own calendar do at once, a slot offered meets no block it was *)
(* looked for among, a change an agent made is of its lane and of the        *)
(* calendar the event belongs to, and a listing shows the lane only.         *)
THEOREM AgendaSafe == CalendarSpec => []CalendarSafe
<1>1. CalendarInit => CalendarTypeOK /\ CalendarInv
  <2> SUFFICES ASSUME CalendarInit PROVE CalendarTypeOK /\ CalendarInv
    OBVIOUS
  <2>1. events \in Seq(Event) /\ Len(events) \in Nat /\ Len(events) <= MaxEvents
    BY CalendarConstants, LenProperties DEF CalendarInit
  <2>2. NoCall \in Entry(Len(events))
    BY <2>1 DEF NoCall, Entry, Steps, Ops, AgendaLanes, Homes
  <2>3. CalendarTypeOK
    BY <2>1, <2>2, CalendarConstants DEF CalendarInit, CalendarTypeOK, Homes
  <2>4. \A a \in Agents : agenda[a].pc = "idle" /\ agenda[a].op = "none" /\ agenda[a].result = {} /\ agenda[a].slots = {}
    BY DEF CalendarInit, NoCall
  <2>5. \A a \in Agents : EntryOK(agenda[a], events)
    BY <2>4 DEF EntryOK
  <2> QED
    BY <2>3, <2>5, EntriesOK
<1>2. CalendarTypeOK /\ CalendarInv => CalendarSafe
    BY DEF CalendarInv, CalendarSafe
<1> QED
    BY <1>1, <1>2, CalendarStep, PTL DEF CalendarSpec

-------------------------------------------------------------------------------
(* The two address books *)

(* The parts of the invariant, of any two books and any run.                 *)
HereIn(b) == {i \in DOMAIN b : ~b[i].gone}
ThereIn(p) == {g \in DOMAIN p : ~p[g].gone}
Both(b, p, g) == p[g].name = Nameless \/ \E i \in HereIn(b) : b[i].link = g \/ b[i].ids \cap p[g].ids # {}
OwnedIn(b) == \A i, j \in HereIn(b) : i # j => b[i].ids \cap b[j].ids = {}
OnceIn(b) == \A i, j \in HereIn(b) : i # j /\ b[i].link # 0 => b[i].link # b[j].link
AgreedIn(b, p) ==
    /\ \A g \in ThereIn(p) : Both(b, p, g)
    /\ \A i \in HereIn(b) : b[i].link # 0 \/ b[i].name = Placeholder

BooksOK(b, p) ==
    /\ b \in Seq(Contact) /\ p \in Seq(Person) /\ OwnedIn(b)
    /\ \A i \in DOMAIN b : b[i].link = 0 \/ b[i].link \in DOMAIN p

RunNamed(x, u, b, p) ==
    /\ x \in Run /\ (x.found = 0 \/ x.found \in DOMAIN b) /\ (x.person = 0 \/ x.person \in DOMAIN p)
    /\ x.pc \in {"same", "link", "rename", "mark", "identify", "store"} => x.found # 0
    /\ x.pc \in {"same", "link", "create", "rename", "mark", "identify", "store"} => x.person # 0
    /\ x.pc \in {"link", "create", "rename"} => x.person \in DOMAIN u.snap /\ u.snap[x.person].name # Nameless
    /\ x.pc \in Importing => x.todo \subseteq DOMAIN p /\ u.rest \subseteq DOMAIN p
    /\ x.pc \in {"push", "store"} => x.todo \subseteq DOMAIN b
    /\ u \in Reading /\ x.todo \subseteq DOMAIN u.snap

JobsNamed(js, ws, p) ==
    /\ js \in Seq(RemoteJob) /\ \A k \in DOMAIN js : js[k].person \in DOMAIN p
    /\ ws \in [Remote -> [pc : {"idle", "patch"}, job : RemoteJob \union {<<>>}, version : Nat]]
    /\ \A w \in Remote : ws[w].pc = "patch" => ws[w].job \in RemoteJob /\ ws[w].job.person \in DOMAIN p

LinksIn(x, b) ==
    /\ x.pc \in {"same", "link", "create", "mark", "store"} => \A i \in HereIn(b) : b[i].link # x.person
    /\ x.pc \in {"same", "mark", "store"} => b[x.found].link = 0
    /\ x.pc \in {"push", "store"} => \A i \in x.todo : b[i].link = 0 /\ (x.pc = "store" => i # x.found)
    /\ x.pc = "rename" /\ ~b[x.found].gone => b[x.found].link # 0

FreshIn(x, u, p) ==
    x.pc \in Importing =>
        \A g \in x.todo : g \in ThereIn(p) /\ u.snap[g].name = p[g].name /\ u.snap[g].ids = p[g].ids

ProgressIn(x, u, b, p) ==
    /\ x.pc \in Importing => \A g \in ThereIn(p) : \/ g \in x.todo \/ g \in u.rest \/ Both(b, p, g)
                                                   \/ (x.pc \in {"same", "create", "mark"} /\ g = x.person)
    /\ x.pc \in {"push", "store"} =>
        /\ x.todo \subseteq HereIn(b) /\ \A g \in ThereIn(p) : Both(b, p, g) \/ (x.pc = "store" /\ g = x.person)
        /\ \A i \in HereIn(b) : b[i].link # 0 \/ b[i].name = Placeholder \/ i \in x.todo
                                  \/ (x.pc = "store" /\ i = x.found)
    /\ x.pc = "store" => x.found \in HereIn(b)

LittleIn(x, u, p) ==
    /\ x.pc \in {"import", "link", "rename", "push"} /\ (x.pc = "push" => x.todo = {})
    /\ FreshIn(x, u, p)

(* What holds of one run and the books.                                      *)
RunIn(x, u, b, p) ==
    /\ LinksIn(x, b) /\ (x.clean => FreshIn(x, u, p) /\ ProgressIn(x, u, b, p))
    /\ x.pc = "done" /\ x.clean => AgreedIn(b, p)

IsGoing(x) == x.pc \notin {"idle", "done"}

(* While no two runs met.                                                    *)
AloneIn(s, z, b, p) ==
    /\ OnceIn(b) /\ \A r \in Syncs : RunIn(s[r], z[r], b, p)
    /\ \A q, r \in Syncs : IsGoing(s[r]) /\ IsGoing(s[q]) => q = r
    /\ \A q, r \in Syncs : IsGoing(s[r]) /\ s[q].pc = "done" /\ s[q].clean => LittleIn(s[r], z[r], p)

BookParts ==
    /\ BooksOK(book, people) /\ JobsNamed(jobs, worker, people)
    /\ sync \in [Syncs -> Run] /\ reading \in [Syncs -> Reading]
    /\ \A r \in Syncs : RunNamed(sync[r], reading[r], book, people)
    /\ edits \in 0..MaxEdits /\ errors \in 0..MaxErrors /\ met \in BOOLEAN
    /\ ~met => AloneIn(sync, reading, book, people)

(* The invariant in these words.                                             *)
LEMMA BookWords ==
    /\ Here = HereIn(book) /\ There = ThereIn(people)
    /\ \A g : AgreeOn(g) <=> Both(book, people, g)
<1>1. Here = HereIn(book) /\ There = ThereIn(people)
    BY DEF Here, There, HereIn, ThereIn
<1>2. \A g : AgreeOn(g) <=> Both(book, people, g)
    BY <1>1 DEF AgreeOn, Linked, Known, Owner, Both
<1> QED
    BY <1>1, <1>2

LEMMA RunWords ==
    ASSUME NEW x \in Run, NEW u \in Reading
    PROVE  /\ LinksStay(x) <=> LinksIn(x, book)
           /\ AsFound(x, u) <=> FreshIn(x, u, people)
           /\ Progress(x, u) <=> ProgressIn(x, u, book, people)
           /\ LittleToDo(x) /\ AsFound(x, u) <=> LittleIn(x, u, people)
<1>1. LinksStay(x) <=> LinksIn(x, book)
    BY BookWords DEF LinksStay, LinksIn, Linked
<1>4. There = ThereIn(people) /\ Here = HereIn(book) /\ \A g : AgreeOn(g) <=> Both(book, people, g)
    BY BookWords
<1>2. Progress(x, u) <=> ProgressIn(x, u, book, people)
  <2>1. (\A g \in There : g \in x.todo \union u.rest \/ AgreeOn(g) \/ (x.pc \in {"same", "create", "mark"} /\ g = x.person))
        <=> \A g \in ThereIn(people) : \/ g \in x.todo \/ g \in u.rest \/ Both(book, people, g)
                                        \/ (x.pc \in {"same", "create", "mark"} /\ g = x.person)
    BY <1>4
  <2> QED
    BY <1>4, <2>1 DEF Progress, ProgressIn
<1>3. AsFound(x, u) <=> FreshIn(x, u, people)
    BY <1>4 DEF AsFound, FreshIn
<1>5. LittleToDo(x) /\ AsFound(x, u) <=> LittleIn(x, u, people)
    BY <1>3 DEF LittleToDo, LittleIn
<1> QED
    BY <1>1, <1>2, <1>3, <1>5

LEMMA BookInParts == BookTypeOK /\ BookInv => BookParts
<1> SUFFICES ASSUME BookTypeOK, BookInv PROVE BookParts
    OBVIOUS
<1>3. BooksOK(book, people)
    BY BookWords DEF BookTypeOK, BookInv, OwnedOnce, BooksOK, OwnedIn
<1>4. JobsNamed(jobs, worker, people) /\ \A r \in Syncs : RunNamed(sync[r], reading[r], book, people)
    BY DEF BookTypeOK, BookInv, Named, JobsNamed, RunNamed
<1>5. ASSUME ~met PROVE AloneIn(sync, reading, book, people)
  <2>1. OnceIn(book)
    BY BookWords, <1>5 DEF BookInv, LinkedOnce, OnceIn
  <2>2. ASSUME NEW r \in Syncs PROVE RunIn(sync[r], reading[r], book, people)
    <3>1. PICK x \in Run, u \in Reading : x = sync[r] /\ u = reading[r]
      BY DEF BookTypeOK
    <3>2. LinksStay(x) /\ (x.clean => AsFound(x, u) /\ Progress(x, u))
      BY <1>5, <3>1 DEF BookInv, RunsInv
    <3>3. LinksIn(x, book) /\ (x.clean => FreshIn(x, u, people) /\ ProgressIn(x, u, book, people))
      BY <3>2, RunWords
    <3>5. x.pc = "done" /\ x.clean => AgreedIn(book, people)
      BY BookWords, <1>5, <3>1 DEF BookInv, InStep, Agreement, AgreedIn
    <3> QED
      BY <3>1, <3>3, <3>5 DEF RunIn
  <2>3. ASSUME NEW r \in Syncs, IsGoing(sync[r]), NEW q \in Syncs
        PROVE  /\ IsGoing(sync[q]) => q = r
               /\ sync[q].pc = "done" /\ sync[q].clean => LittleIn(sync[r], reading[r], people)
    <3>1. PICK x \in Run, u \in Reading : x = sync[r] /\ u = reading[r]
      BY DEF BookTypeOK
    <3>2. Going(r) /\ (Going(q) <=> IsGoing(sync[q]))
      BY <2>3 DEF Going, IsGoing
    <3>3. (Going(q) => q = r) /\ (sync[q].pc = "done" /\ sync[q].clean => LittleToDo(x) /\ AsFound(x, u))
      BY <1>5, <3>1, <3>2 DEF BookInv, RunsInv
    <3> QED
      BY <3>1, <3>2, <3>3, RunWords
  <2> QED
    BY <2>1, <2>2, <2>3 DEF AloneIn
<1> QED
    BY <1>3, <1>4, <1>5 DEF BookTypeOK, BookParts

LEMMA BookFromParts == BookParts => BookTypeOK /\ BookInv
<1> SUFFICES ASSUME BookParts PROVE BookTypeOK /\ BookInv
    OBVIOUS
<1>1. OwnedOnce
    BY BookWords DEF OwnedOnce, BookParts, BooksOK, OwnedIn
<1>2. Named
    BY DEF BookParts, Named, JobsNamed, RunNamed
<1>3. ASSUME NEW x \in Identities PROVE Cardinality(Owner(x)) <= 1
  <2>1. \A i, j \in Owner(x) : i = j
    BY <1>1 DEF Owner, OwnedOnce
  <2>2. CASE Owner(x) = {}
    BY <2>2, FS_EmptySet
  <2>3. CASE Owner(x) # {}
    <3>1. PICK i : Owner(x) = {i}
      BY <2>1, <2>3
    <3> QED
      BY <3>1, FS_Singleton
  <2> QED
    BY <2>2, <2>3
<1>4. BookTypeOK
  <2>1. \A i \in DOMAIN book : book[i].link \in {0} \union DOMAIN people
    BY DEF BookParts, BooksOK
  <2>2. \A r \in Syncs : sync[r].found \in {0} \union DOMAIN book /\ sync[r].person \in {0} \union DOMAIN people
    BY DEF BookParts, RunNamed
  <2> QED
    BY <1>3, <2>1, <2>2 DEF BookTypeOK, BookParts, BooksOK, JobsNamed
<1>5. RunsInv /\ LinkedOnce /\ InStep
  <2> SUFFICES ASSUME ~met PROVE RunsInv /\ LinkedOnce /\ InStep
    BY DEF RunsInv, LinkedOnce, InStep
  <2>1. AloneIn(sync, reading, book, people)
    BY DEF BookParts
  <2>2. LinkedOnce
    BY <2>1, BookWords DEF AloneIn, OnceIn, LinkedOnce
  <2>3. ASSUME NEW r \in Syncs, NEW x \in Run, x = sync[r], NEW u \in Reading, u = reading[r]
        PROVE  LinksStay(x) /\ (x.clean => AsFound(x, u) /\ Progress(x, u)) /\ (x.pc = "done" /\ x.clean => AgreedIn(book, people))
    <3>1. RunIn(x, u, book, people)
      BY <2>1, <2>3 DEF AloneIn
    <3> QED
      BY <3>1, RunWords DEF RunIn
  <2>4. InStep
    BY <2>3, BookWords DEF InStep, Agreement, AgreedIn, BookParts
  <2>5. ASSUME NEW r \in Syncs, NEW x \in Run, x = sync[r], NEW u \in Reading, u = reading[r], Going(r), NEW q \in Syncs
        PROVE  (Going(q) => q = r) /\ (sync[q].pc = "done" /\ sync[q].clean => LittleToDo(x) /\ AsFound(x, u))
    <3>1. IsGoing(sync[r]) /\ (Going(q) <=> IsGoing(sync[q]))
      BY <2>5 DEF Going, IsGoing
    <3>2. (IsGoing(sync[q]) => q = r) /\ (sync[q].pc = "done" /\ sync[q].clean => LittleIn(x, u, people))
      BY <2>1, <2>5, <3>1 DEF AloneIn
    <3> QED
      BY <3>1, <3>2, RunWords
  <2>6. RunsInv
    <3>1. \A r \in Syncs : sync[r] \in Run /\ reading[r] \in Reading
      BY DEF BookParts
    <3> QED
      BY <2>3, <2>5, <3>1 DEF RunsInv
  <2> QED
    BY <2>2, <2>4, <2>6
<1> QED
    BY <1>1, <1>2, <1>4, <1>5 DEF BookInv

(* A run with some of its parts replaced.                                    *)
Goes(x, pc) == [x EXCEPT !.pc = pc]
Passes(x, todo) == [x EXCEPT !.todo = todo]
TurnsOn(x, pc, todo, clean) == [x EXCEPT !.pc = pc, !.todo = todo, !.clean = clean]
Notes(x, pc, person, found, todo) == [x EXCEPT !.pc = pc, !.person = person, !.found = found, !.todo = todo]
NotesName(x, pc, person, found, todo, rename) == [x EXCEPT !.pc = pc, !.person = person, !.found = found, !.todo = todo, !.rename = rename]
Keeps(x, pc, found) == [x EXCEPT !.pc = pc, !.found = found]
Soils(x, clean) == [x EXCEPT !.clean = clean]
SoilsOn(x, pc, clean) == [x EXCEPT !.pc = pc, !.clean = clean]
Skips(x, todo, clean) == [x EXCEPT !.todo = todo, !.clean = clean]

LEMMA GoesRun ==
    ASSUME NEW x \in Run, NEW pc \in RunSteps
    PROVE  LET e == Goes(x, pc) IN
           /\ e \in Run
           /\ e.pc = pc /\ e.person = x.person /\ e.found = x.found /\ e.rename = x.rename /\ e.todo = x.todo /\ e.clean = x.clean
<1>1. PICK Ps, Ns, Ts : Ps = RunSteps /\ Ns = Nat /\ Ts = SUBSET Nat
    OBVIOUS
<1>2. Run = [pc : Ps, person : Ns, found : Ns, rename : BOOLEAN, todo : Ts, clean : BOOLEAN]
    BY <1>1 DEF Run
<1>3. x \in [pc : Ps, person : Ns, found : Ns, rename : BOOLEAN, todo : Ts, clean : BOOLEAN]
    BY <1>2
<1>4. pc \in Ps
    BY <1>1
<1> DEFINE e == [x EXCEPT !.pc = pc]
<1>5. /\ e \in [pc : Ps, person : Ns, found : Ns, rename : BOOLEAN, todo : Ts, clean : BOOLEAN]
      /\ e.pc = pc /\ e.person = x.person /\ e.found = x.found /\ e.rename = x.rename /\ e.todo = x.todo /\ e.clean = x.clean
    BY <1>3, <1>4
<1>6. e \in Run /\ e = Goes(x, pc)
    BY <1>2, <1>5 DEF Goes
<1> HIDE DEF e
<1> QED
    BY <1>5, <1>6

LEMMA PassesRun ==
    ASSUME NEW x \in Run, NEW todo \in SUBSET Nat
    PROVE  LET e == Passes(x, todo) IN
           /\ e \in Run
           /\ e.pc = x.pc /\ e.person = x.person /\ e.found = x.found /\ e.rename = x.rename /\ e.todo = todo /\ e.clean = x.clean
<1>1. PICK Ps, Ns, Ts : Ps = RunSteps /\ Ns = Nat /\ Ts = SUBSET Nat
    OBVIOUS
<1>2. Run = [pc : Ps, person : Ns, found : Ns, rename : BOOLEAN, todo : Ts, clean : BOOLEAN]
    BY <1>1 DEF Run
<1>3. x \in [pc : Ps, person : Ns, found : Ns, rename : BOOLEAN, todo : Ts, clean : BOOLEAN]
    BY <1>2
<1>4. todo \in Ts
    BY <1>1
<1> DEFINE e == [x EXCEPT !.todo = todo]
<1>5. /\ e \in [pc : Ps, person : Ns, found : Ns, rename : BOOLEAN, todo : Ts, clean : BOOLEAN]
      /\ e.pc = x.pc /\ e.person = x.person /\ e.found = x.found /\ e.rename = x.rename /\ e.todo = todo /\ e.clean = x.clean
    BY <1>3, <1>4
<1>6. e \in Run /\ e = Passes(x, todo)
    BY <1>2, <1>5 DEF Passes
<1> HIDE DEF e
<1> QED
    BY <1>5, <1>6

LEMMA TurnsOnRun ==
    ASSUME NEW x \in Run, NEW pc \in RunSteps, NEW todo \in SUBSET Nat, NEW clean \in BOOLEAN
    PROVE  LET e == TurnsOn(x, pc, todo, clean) IN
           /\ e \in Run
           /\ e.pc = pc /\ e.person = x.person /\ e.found = x.found /\ e.rename = x.rename /\ e.todo = todo /\ e.clean = clean
<1>1. PICK Ps, Ns, Ts : Ps = RunSteps /\ Ns = Nat /\ Ts = SUBSET Nat
    OBVIOUS
<1>2. Run = [pc : Ps, person : Ns, found : Ns, rename : BOOLEAN, todo : Ts, clean : BOOLEAN]
    BY <1>1 DEF Run
<1>3. x \in [pc : Ps, person : Ns, found : Ns, rename : BOOLEAN, todo : Ts, clean : BOOLEAN]
    BY <1>2
<1>4. pc \in Ps /\ todo \in Ts /\ clean \in BOOLEAN
    BY <1>1
<1> DEFINE e == [x EXCEPT !.pc = pc, !.todo = todo, !.clean = clean]
<1>5. /\ e \in [pc : Ps, person : Ns, found : Ns, rename : BOOLEAN, todo : Ts, clean : BOOLEAN]
      /\ e.pc = pc /\ e.person = x.person /\ e.found = x.found /\ e.rename = x.rename /\ e.todo = todo /\ e.clean = clean
    BY <1>3, <1>4
<1>6. e \in Run /\ e = TurnsOn(x, pc, todo, clean)
    BY <1>2, <1>5 DEF TurnsOn
<1> HIDE DEF e
<1> QED
    BY <1>5, <1>6

LEMMA NotesRun ==
    ASSUME NEW x \in Run, NEW pc \in RunSteps, NEW person \in Nat, NEW found \in Nat, NEW todo \in SUBSET Nat
    PROVE  LET e == Notes(x, pc, person, found, todo) IN
           /\ e \in Run
           /\ e.pc = pc /\ e.person = person /\ e.found = found /\ e.rename = x.rename /\ e.todo = todo /\ e.clean = x.clean
<1>1. PICK Ps, Ns, Ts : Ps = RunSteps /\ Ns = Nat /\ Ts = SUBSET Nat
    OBVIOUS
<1>2. Run = [pc : Ps, person : Ns, found : Ns, rename : BOOLEAN, todo : Ts, clean : BOOLEAN]
    BY <1>1 DEF Run
<1>3. x \in [pc : Ps, person : Ns, found : Ns, rename : BOOLEAN, todo : Ts, clean : BOOLEAN]
    BY <1>2
<1>4. pc \in Ps /\ person \in Ns /\ found \in Ns /\ todo \in Ts
    BY <1>1
<1> DEFINE e == [x EXCEPT !.pc = pc, !.person = person, !.found = found, !.todo = todo]
<1>5. /\ e \in [pc : Ps, person : Ns, found : Ns, rename : BOOLEAN, todo : Ts, clean : BOOLEAN]
      /\ e.pc = pc /\ e.person = person /\ e.found = found /\ e.rename = x.rename /\ e.todo = todo /\ e.clean = x.clean
    BY <1>3, <1>4
<1>6. e \in Run /\ e = Notes(x, pc, person, found, todo)
    BY <1>2, <1>5 DEF Notes
<1> HIDE DEF e
<1> QED
    BY <1>5, <1>6

LEMMA NotesNameRun ==
    ASSUME NEW x \in Run, NEW pc \in RunSteps, NEW person \in Nat, NEW found \in Nat, NEW todo \in SUBSET Nat, NEW rename \in BOOLEAN
    PROVE  LET e == NotesName(x, pc, person, found, todo, rename) IN
           /\ e \in Run
           /\ e.pc = pc /\ e.person = person /\ e.found = found /\ e.rename = rename /\ e.todo = todo /\ e.clean = x.clean
<1>1. PICK Ps, Ns, Ts : Ps = RunSteps /\ Ns = Nat /\ Ts = SUBSET Nat
    OBVIOUS
<1>2. Run = [pc : Ps, person : Ns, found : Ns, rename : BOOLEAN, todo : Ts, clean : BOOLEAN]
    BY <1>1 DEF Run
<1>3. x \in [pc : Ps, person : Ns, found : Ns, rename : BOOLEAN, todo : Ts, clean : BOOLEAN]
    BY <1>2
<1>4. pc \in Ps /\ person \in Ns /\ found \in Ns /\ todo \in Ts /\ rename \in BOOLEAN
    BY <1>1
<1> DEFINE e == [x EXCEPT !.pc = pc, !.person = person, !.found = found, !.todo = todo, !.rename = rename]
<1>5. /\ e \in [pc : Ps, person : Ns, found : Ns, rename : BOOLEAN, todo : Ts, clean : BOOLEAN]
      /\ e.pc = pc /\ e.person = person /\ e.found = found /\ e.rename = rename /\ e.todo = todo /\ e.clean = x.clean
    BY <1>3, <1>4
<1>6. e \in Run /\ e = NotesName(x, pc, person, found, todo, rename)
    BY <1>2, <1>5 DEF NotesName
<1> HIDE DEF e
<1> QED
    BY <1>5, <1>6

LEMMA KeepsRun ==
    ASSUME NEW x \in Run, NEW pc \in RunSteps, NEW found \in Nat
    PROVE  LET e == Keeps(x, pc, found) IN
           /\ e \in Run
           /\ e.pc = pc /\ e.person = x.person /\ e.found = found /\ e.rename = x.rename /\ e.todo = x.todo /\ e.clean = x.clean
<1>1. PICK Ps, Ns, Ts : Ps = RunSteps /\ Ns = Nat /\ Ts = SUBSET Nat
    OBVIOUS
<1>2. Run = [pc : Ps, person : Ns, found : Ns, rename : BOOLEAN, todo : Ts, clean : BOOLEAN]
    BY <1>1 DEF Run
<1>3. x \in [pc : Ps, person : Ns, found : Ns, rename : BOOLEAN, todo : Ts, clean : BOOLEAN]
    BY <1>2
<1>4. pc \in Ps /\ found \in Ns
    BY <1>1
<1> DEFINE e == [x EXCEPT !.pc = pc, !.found = found]
<1>5. /\ e \in [pc : Ps, person : Ns, found : Ns, rename : BOOLEAN, todo : Ts, clean : BOOLEAN]
      /\ e.pc = pc /\ e.person = x.person /\ e.found = found /\ e.rename = x.rename /\ e.todo = x.todo /\ e.clean = x.clean
    BY <1>3, <1>4
<1>6. e \in Run /\ e = Keeps(x, pc, found)
    BY <1>2, <1>5 DEF Keeps
<1> HIDE DEF e
<1> QED
    BY <1>5, <1>6

LEMMA SoilsRun ==
    ASSUME NEW x \in Run, NEW clean \in BOOLEAN
    PROVE  LET e == Soils(x, clean) IN
           /\ e \in Run
           /\ e.pc = x.pc /\ e.person = x.person /\ e.found = x.found /\ e.rename = x.rename /\ e.todo = x.todo /\ e.clean = clean
<1>1. PICK Ps, Ns, Ts : Ps = RunSteps /\ Ns = Nat /\ Ts = SUBSET Nat
    OBVIOUS
<1>2. Run = [pc : Ps, person : Ns, found : Ns, rename : BOOLEAN, todo : Ts, clean : BOOLEAN]
    BY <1>1 DEF Run
<1>3. x \in [pc : Ps, person : Ns, found : Ns, rename : BOOLEAN, todo : Ts, clean : BOOLEAN]
    BY <1>2
<1>4. clean \in BOOLEAN
    BY <1>1
<1> DEFINE e == [x EXCEPT !.clean = clean]
<1>5. /\ e \in [pc : Ps, person : Ns, found : Ns, rename : BOOLEAN, todo : Ts, clean : BOOLEAN]
      /\ e.pc = x.pc /\ e.person = x.person /\ e.found = x.found /\ e.rename = x.rename /\ e.todo = x.todo /\ e.clean = clean
    BY <1>3, <1>4
<1>6. e \in Run /\ e = Soils(x, clean)
    BY <1>2, <1>5 DEF Soils
<1> HIDE DEF e
<1> QED
    BY <1>5, <1>6

LEMMA SoilsOnRun ==
    ASSUME NEW x \in Run, NEW pc \in RunSteps, NEW clean \in BOOLEAN
    PROVE  LET e == SoilsOn(x, pc, clean) IN
           /\ e \in Run
           /\ e.pc = pc /\ e.person = x.person /\ e.found = x.found /\ e.rename = x.rename /\ e.todo = x.todo /\ e.clean = clean
<1>1. PICK Ps, Ns, Ts : Ps = RunSteps /\ Ns = Nat /\ Ts = SUBSET Nat
    OBVIOUS
<1>2. Run = [pc : Ps, person : Ns, found : Ns, rename : BOOLEAN, todo : Ts, clean : BOOLEAN]
    BY <1>1 DEF Run
<1>3. x \in [pc : Ps, person : Ns, found : Ns, rename : BOOLEAN, todo : Ts, clean : BOOLEAN]
    BY <1>2
<1>4. pc \in Ps /\ clean \in BOOLEAN
    BY <1>1
<1> DEFINE e == [x EXCEPT !.pc = pc, !.clean = clean]
<1>5. /\ e \in [pc : Ps, person : Ns, found : Ns, rename : BOOLEAN, todo : Ts, clean : BOOLEAN]
      /\ e.pc = pc /\ e.person = x.person /\ e.found = x.found /\ e.rename = x.rename /\ e.todo = x.todo /\ e.clean = clean
    BY <1>3, <1>4
<1>6. e \in Run /\ e = SoilsOn(x, pc, clean)
    BY <1>2, <1>5 DEF SoilsOn
<1> HIDE DEF e
<1> QED
    BY <1>5, <1>6

LEMMA SkipsRun ==
    ASSUME NEW x \in Run, NEW todo \in SUBSET Nat, NEW clean \in BOOLEAN
    PROVE  LET e == Skips(x, todo, clean) IN
           /\ e \in Run
           /\ e.pc = x.pc /\ e.person = x.person /\ e.found = x.found /\ e.rename = x.rename /\ e.todo = todo /\ e.clean = clean
<1>1. PICK Ps, Ns, Ts : Ps = RunSteps /\ Ns = Nat /\ Ts = SUBSET Nat
    OBVIOUS
<1>2. Run = [pc : Ps, person : Ns, found : Ns, rename : BOOLEAN, todo : Ts, clean : BOOLEAN]
    BY <1>1 DEF Run
<1>3. x \in [pc : Ps, person : Ns, found : Ns, rename : BOOLEAN, todo : Ts, clean : BOOLEAN]
    BY <1>2
<1>4. todo \in Ts /\ clean \in BOOLEAN
    BY <1>1
<1> DEFINE e == [x EXCEPT !.todo = todo, !.clean = clean]
<1>5. /\ e \in [pc : Ps, person : Ns, found : Ns, rename : BOOLEAN, todo : Ts, clean : BOOLEAN]
      /\ e.pc = x.pc /\ e.person = x.person /\ e.found = x.found /\ e.rename = x.rename /\ e.todo = todo /\ e.clean = clean
    BY <1>3, <1>4
<1>6. e \in Run /\ e = Skips(x, todo, clean)
    BY <1>2, <1>5 DEF Skips
<1> HIDE DEF e
<1> QED
    BY <1>5, <1>6

(* A contact with some of its columns changed.                               *)
Naming(c, name) == [c EXCEPT !.name = name]
Holding(c, ids) == [c EXCEPT !.ids = ids]
Linking(c, link) == [c EXCEPT !.link = link]
Leaving(c) == [c EXCEPT !.gone = TRUE, !.ids = {}]
Departs(c) == [c EXCEPT !.gone = TRUE]

LEMMA NamingContact ==
    ASSUME NEW c \in Contact, NEW name \in Names \union {Placeholder}
    PROVE  LET e == Naming(c, name) IN
           /\ e \in Contact
           /\ e.name = name /\ e.ids = c.ids /\ e.link = c.link /\ e.gone = c.gone
<1>1. PICK Ns, Is, Ls : Ns = Names \union {Placeholder} /\ Is = SUBSET Identities /\ Ls = Nat
    OBVIOUS
<1>2. Contact = [name : Ns, ids : Is, link : Ls, gone : BOOLEAN]
    BY <1>1 DEF Contact
<1>3. c \in [name : Ns, ids : Is, link : Ls, gone : BOOLEAN]
    BY <1>2
<1>4. name \in Ns
    BY <1>1
<1> DEFINE e == [c EXCEPT !.name = name]
<1>5. /\ e \in [name : Ns, ids : Is, link : Ls, gone : BOOLEAN]
      /\ e.name = name /\ e.ids = c.ids /\ e.link = c.link /\ e.gone = c.gone
    BY <1>3, <1>4
<1>6. e \in Contact /\ e = Naming(c, name)
    BY <1>2, <1>5 DEF Naming
<1> HIDE DEF e
<1> QED
    BY <1>5, <1>6

LEMMA HoldingContact ==
    ASSUME NEW c \in Contact, NEW ids \in SUBSET Identities
    PROVE  LET e == Holding(c, ids) IN
           /\ e \in Contact
           /\ e.name = c.name /\ e.ids = ids /\ e.link = c.link /\ e.gone = c.gone
<1>1. PICK Ns, Is, Ls : Ns = Names \union {Placeholder} /\ Is = SUBSET Identities /\ Ls = Nat
    OBVIOUS
<1>2. Contact = [name : Ns, ids : Is, link : Ls, gone : BOOLEAN]
    BY <1>1 DEF Contact
<1>3. c \in [name : Ns, ids : Is, link : Ls, gone : BOOLEAN]
    BY <1>2
<1>4. ids \in Is
    BY <1>1
<1> DEFINE e == [c EXCEPT !.ids = ids]
<1>5. /\ e \in [name : Ns, ids : Is, link : Ls, gone : BOOLEAN]
      /\ e.name = c.name /\ e.ids = ids /\ e.link = c.link /\ e.gone = c.gone
    BY <1>3, <1>4
<1>6. e \in Contact /\ e = Holding(c, ids)
    BY <1>2, <1>5 DEF Holding
<1> HIDE DEF e
<1> QED
    BY <1>5, <1>6

LEMMA LinkingContact ==
    ASSUME NEW c \in Contact, NEW link \in Nat
    PROVE  LET e == Linking(c, link) IN
           /\ e \in Contact
           /\ e.name = c.name /\ e.ids = c.ids /\ e.link = link /\ e.gone = c.gone
<1>1. PICK Ns, Is, Ls : Ns = Names \union {Placeholder} /\ Is = SUBSET Identities /\ Ls = Nat
    OBVIOUS
<1>2. Contact = [name : Ns, ids : Is, link : Ls, gone : BOOLEAN]
    BY <1>1 DEF Contact
<1>3. c \in [name : Ns, ids : Is, link : Ls, gone : BOOLEAN]
    BY <1>2
<1>4. link \in Ls
    BY <1>1
<1> DEFINE e == [c EXCEPT !.link = link]
<1>5. /\ e \in [name : Ns, ids : Is, link : Ls, gone : BOOLEAN]
      /\ e.name = c.name /\ e.ids = c.ids /\ e.link = link /\ e.gone = c.gone
    BY <1>3, <1>4
<1>6. e \in Contact /\ e = Linking(c, link)
    BY <1>2, <1>5 DEF Linking
<1> HIDE DEF e
<1> QED
    BY <1>5, <1>6

LEMMA LeavingContact ==
    ASSUME NEW c \in Contact
    PROVE  LET e == Leaving(c) IN
           /\ e \in Contact
           /\ e.name = c.name /\ e.ids = {} /\ e.link = c.link /\ e.gone = TRUE
<1>1. PICK Ns, Is, Ls : Ns = Names \union {Placeholder} /\ Is = SUBSET Identities /\ Ls = Nat
    OBVIOUS
<1>2. Contact = [name : Ns, ids : Is, link : Ls, gone : BOOLEAN]
    BY <1>1 DEF Contact
<1>3. c \in [name : Ns, ids : Is, link : Ls, gone : BOOLEAN]
    BY <1>2
<1>4. {} \in Is
    BY <1>1
<1> DEFINE e == [c EXCEPT !.gone = TRUE, !.ids = {}]
<1>5. /\ e \in [name : Ns, ids : Is, link : Ls, gone : BOOLEAN]
      /\ e.name = c.name /\ e.ids = {} /\ e.link = c.link /\ e.gone = TRUE
    BY <1>3, <1>4
<1>6. e \in Contact /\ e = Leaving(c)
    BY <1>2, <1>5 DEF Leaving
<1> HIDE DEF e
<1> QED
    BY <1>5, <1>6

LEMMA DepartsPerson ==
    ASSUME NEW c \in Person
    PROVE  LET e == Departs(c) IN
           /\ e \in Person
           /\ e.name = c.name /\ e.ids = c.ids /\ e.gone = TRUE /\ e.version = c.version
<1>1. PICK Ns, Is, Vs : Ns = Names \union {Placeholder, Nameless} /\ Is = SUBSET Identities /\ Vs = Nat
    OBVIOUS
<1>2. Person = [name : Ns, ids : Is, gone : BOOLEAN, version : Vs]
    BY <1>1 DEF Person
<1>3. c \in [name : Ns, ids : Is, gone : BOOLEAN, version : Vs]
    BY <1>2
<1> DEFINE e == [c EXCEPT !.gone = TRUE]
<1>5. /\ e \in [name : Ns, ids : Is, gone : BOOLEAN, version : Vs]
      /\ e.name = c.name /\ e.ids = c.ids /\ e.gone = TRUE /\ e.version = c.version
    BY <1>3
<1>6. e \in Person /\ e = Departs(c)
    BY <1>2, <1>5 DEF Departs
<1> HIDE DEF e
<1> QED
    BY <1>5, <1>6


(* Entries changed and added.                                                *)
LEMMA EntryChanged ==
    ASSUME NEW S, NEW q \in Seq(S), NEW i \in DOMAIN q, NEW e \in S, NEW t, t = [q EXCEPT ![i] = e]
    PROVE  t \in Seq(S) /\ DOMAIN t = DOMAIN q /\ t[i] = e /\ \A k \in DOMAIN q : k # i => t[k] = q[k]
<1>1. DOMAIN q = 1..Len(q) /\ Len(q) \in Nat
    BY LenProperties
<1>2. t \in Seq(S) /\ Len(t) = Len(q) /\ \A k \in 1..Len(q) : t[k] = IF k = i THEN e ELSE q[k]
    BY <1>1, ExceptSeq
<1>3. DOMAIN t = 1..Len(t)
    BY <1>2, LenProperties
<1> QED
    BY <1>1, <1>2, <1>3

LEMMA EntryAppended ==
    ASSUME NEW S, NEW q \in Seq(S), NEW e \in S, NEW t, t = Append(q, e)
    PROVE  /\ t \in Seq(S) /\ DOMAIN q \subseteq DOMAIN t /\ Len(q) + 1 \in DOMAIN t /\ Len(q) + 1 \notin DOMAIN q
           /\ Len(q) + 1 \in Nat /\ Len(q) + 1 # 0
           /\ t[Len(q) + 1] = e /\ \A k \in DOMAIN q : t[k] = q[k]
           /\ \A k \in DOMAIN t : k \in DOMAIN q \/ k = Len(q) + 1
<1>1. DOMAIN q = 1..Len(q) /\ Len(q) \in Nat
    BY LenProperties
<1>2. t \in Seq(S) /\ Len(t) = Len(q) + 1 /\ (\A k \in 1..Len(q) : t[k] = q[k]) /\ t[Len(q) + 1] = e
    BY AppendProperties
<1>3. DOMAIN t = 1..Len(t)
    BY <1>2, LenProperties
<1> QED
    BY <1>1, <1>2, <1>3

(* What exists stays, so what is under way goes on naming what exists.       *)
LEMMA NamedStay ==
    ASSUME NEW b, NEW p, NEW c, NEW q, DOMAIN b \subseteq DOMAIN c, DOMAIN p \subseteq DOMAIN q
    PROVE  /\ \A x, u : RunNamed(x, u, b, p) => RunNamed(x, u, c, q)
           /\ \A js, ws : JobsNamed(js, ws, p) => JobsNamed(js, ws, q)
<1>1. ASSUME NEW x, NEW u, RunNamed(x, u, b, p) PROVE RunNamed(x, u, c, q)
    BY <1>1 DEF RunNamed
<1>2. ASSUME NEW js, NEW ws, JobsNamed(js, ws, p) PROVE JobsNamed(js, ws, q)
    BY <1>2 DEF JobsNamed
<1> QED
    BY <1>1, <1>2

(* The only run under way makes a step.                                      *)
(* A step of a run leaves what the others read.                              *)
ReadsOnly(r, u) == reading' \in [Syncs -> Reading] /\ reading'[r] = u /\ \A k \in Syncs : k # r => reading'[k] = reading[k]

LEMMA ReadsNothing ==
    ASSUME BookParts, NEW r \in Syncs, reading' = reading, NEW u, u = reading[r]
    PROVE  ReadsOnly(r, u)
    BY DEF BookParts, ReadsOnly

LEMMA ReadsAnew ==
    ASSUME BookParts, NEW r \in Syncs, NEW u \in Reading, reading' = [reading EXCEPT ![r] = u]
    PROVE  ReadsOnly(r, u)
    BY DEF BookParts, ReadsOnly

AloneMove(r, y, s, z, b, p, t, w, c, q) ==
    /\ t = [s EXCEPT ![r] = y] /\ \A k \in Syncs : k # r => w[k] = z[k]
    /\ AloneIn(s, z, b, p) /\ IsGoing(s[r]) /\ OnceIn(c) /\ RunIn(y, w[r], c, q)
    /\ AgreedIn(b, p) /\ LittleIn(s[r], z[r], p) => AgreedIn(c, q) /\ (IsGoing(y) => LittleIn(y, w[r], q))

LEMMA AloneMoves ==
    ASSUME NEW s \in [Syncs -> Run], NEW b, NEW p, NEW r \in Syncs, NEW y, NEW t, NEW c, NEW q, NEW z, NEW w,
           AloneMove(r, y, s, z, b, p, t, w, c, q)
    PROVE  AloneIn(t, w, c, q)
<1>0. /\ t = [s EXCEPT ![r] = y] /\ \A k \in Syncs : k # r => w[k] = z[k]
      /\ AloneIn(s, z, b, p) /\ IsGoing(s[r]) /\ OnceIn(c) /\ RunIn(y, w[r], c, q)
      /\ AgreedIn(b, p) /\ LittleIn(s[r], z[r], p) => AgreedIn(c, q) /\ (IsGoing(y) => LittleIn(y, w[r], q))
    BY DEF AloneMove
<1>1. t[r] = y /\ \A k \in Syncs : k # r => t[k] = s[k]
    BY <1>0
<1>2. \A k \in Syncs : k # r => ~IsGoing(s[k])
    BY <1>0 DEF AloneIn
<1>3. ASSUME NEW k \in Syncs, k # r, s[k].pc = "done", s[k].clean
      PROVE  AgreedIn(c, q) /\ (IsGoing(y) => LittleIn(y, w[r], q))
  <2>1. AgreedIn(b, p)
    BY <1>0, <1>3 DEF AloneIn, RunIn
  <2>2. LittleIn(s[r], z[r], p)
    BY <1>0, <1>3 DEF AloneIn
  <2> QED
    BY <1>0, <2>1, <2>2
<1>4. ASSUME NEW k \in Syncs PROVE RunIn(t[k], w[k], c, q)
  <2>1. CASE k = r
    BY <1>0, <1>1, <2>1
  <2>2. CASE k # r
    <3>1. PICK x : x = t[k] /\ x = s[k]
      BY <1>1, <2>2
    <3>2. x.pc = "idle" \/ x.pc = "done"
      BY <1>2, <2>2, <3>1 DEF IsGoing
    <3>3. LinksIn(x, c) /\ FreshIn(x, w[k], q) /\ ProgressIn(x, w[k], c, q)
      BY <3>2 DEF LinksIn, FreshIn, ProgressIn, Importing
    <3>4. x.pc = "done" /\ x.clean => AgreedIn(c, q)
      BY <1>3, <2>2, <3>1
    <3> QED
      BY <3>1, <3>3, <3>4 DEF RunIn
  <2> QED
    BY <2>1, <2>2
<1>5. ASSUME NEW k \in Syncs, IsGoing(t[k])
      PROVE  /\ k = r
             /\ \A m \in Syncs : t[m].pc = "done" /\ t[m].clean => LittleIn(t[k], w[k], q)
  <2>1. k = r
    BY <1>1, <1>2, <1>5
  <2>2. ASSUME NEW m \in Syncs, t[m].pc = "done", t[m].clean PROVE LittleIn(t[k], w[k], q)
    <3>1. m # r
      BY <1>5, <2>1, <2>2 DEF IsGoing
    <3> QED
      BY <1>1, <1>3, <1>5, <2>1, <2>2, <3>1
  <2> QED
    BY <2>1, <2>2
<1> QED
    BY <1>0, <1>4, <1>5 DEF AloneIn

LEMMA RunMoves ==
    ASSUME BookParts, NEW r \in Syncs, IsGoing(sync[r]), NEW y, sync' = [sync EXCEPT ![r] = y],
           NEW u, ReadsOnly(r, u),
           BooksOK(book', people'), DOMAIN book \subseteq DOMAIN book', DOMAIN people \subseteq DOMAIN people',
           RunNamed(y, u, book', people'),
           AloneIn(sync, reading, book, people) =>
                /\ OnceIn(book') /\ RunIn(y, u, book', people')
                /\ AgreedIn(book, people) /\ LittleIn(sync[r], reading[r], people) =>
                        AgreedIn(book', people') /\ (IsGoing(y) => LittleIn(y, u, people')),
           jobs' = jobs, worker' = worker, edits' = edits, errors' \in 0..MaxErrors, met' = met
    PROVE  BookParts'
<1>1. sync \in [Syncs -> Run] /\ y \in Run
    BY DEF BookParts, RunNamed
<1>2. /\ sync' \in [Syncs -> Run] /\ sync'[r] = y /\ \A k \in Syncs : k # r => sync'[k] = sync[k]
      /\ reading' \in [Syncs -> Reading] /\ reading'[r] = u /\ \A k \in Syncs : k # r => reading'[k] = reading[k]
    BY <1>1 DEF ReadsOnly
<1>3. \A k \in Syncs : RunNamed(sync'[k], reading'[k], book', people')
  <2>1. \A k \in Syncs : RunNamed(sync[k], reading[k], book', people')
    BY NamedStay DEF BookParts
  <2> QED
    BY <1>2, <2>1
<1>4. JobsNamed(jobs', worker', people')
  <2>1. JobsNamed(jobs, worker, people')
    BY NamedStay DEF BookParts
  <2> QED
    BY <2>1
<1>5. ASSUME ~met' PROVE AloneIn(sync', reading', book', people')
  <2>1. AloneIn(sync, reading, book, people)
    BY <1>5 DEF BookParts
  <2>2. /\ OnceIn(book') /\ RunIn(y, u, book', people')
        /\ AgreedIn(book, people) /\ LittleIn(sync[r], reading[r], people) =>
                AgreedIn(book', people') /\ (IsGoing(y) => LittleIn(y, u, people'))
    BY <2>1
  <2>3. OnceIn(book') /\ RunIn(y, reading'[r], book', people')
    BY <1>2, <2>2
  <2>4. AgreedIn(book, people) /\ LittleIn(sync[r], reading[r], people) =>
                AgreedIn(book', people') /\ (IsGoing(y) => LittleIn(y, reading'[r], people'))
    BY <1>2, <2>2
  <2>5. PICK s, b, p, z, t, c, q, w :
            /\ s = sync /\ b = book /\ p = people /\ z = reading /\ t = sync' /\ c = book' /\ q = people' /\ w = reading'
    OBVIOUS
  <2>6. s \in [Syncs -> Run] /\ AloneMove(r, y, s, z, b, p, t, w, c, q)
    BY <1>1, <1>2, <2>1, <2>3, <2>4, <2>5 DEF AloneMove
  <2>7. AloneIn(t, w, c, q)
    BY <2>6, AloneMoves
  <2> QED
    BY <2>5, <2>7
<1> QED
    BY <1>2, <1>3, <1>4, <1>5 DEF BookParts

(* A request of the user or a remote job meets the runs.                     *)
LEMMA LinksKept ==
    ASSUME NEW x, NEW u, NEW y, NEW b, NEW p, NEW c, RunNamed(x, u, b, p), LinksIn(x, b),
           y.pc = x.pc, y.person = x.person, y.found = x.found, y.todo = x.todo,
           \A i \in DOMAIN b : i \in DOMAIN c /\ c[i].link = b[i].link /\ (b[i].gone => c[i].gone),
           \A i \in DOMAIN c : i \in DOMAIN b \/ c[i].link = 0,
           0 \notin DOMAIN b
    PROVE  LinksIn(y, c)
<1>1. \A i \in HereIn(c) : i \in HereIn(b) \/ c[i].link = 0
    BY DEF HereIn
<1>2. x.pc \in {"same", "link", "create", "mark", "store"} => \A i \in HereIn(c) : c[i].link # x.person
    BY <1>1 DEF LinksIn, RunNamed, HereIn
<1>3. x.pc \in {"same", "mark", "store"} => c[x.found].link = 0
    BY DEF LinksIn, RunNamed
<1>4. x.pc \in {"push", "store"} => \A i \in x.todo : c[i].link = 0 /\ (x.pc = "store" => i # x.found)
    BY DEF LinksIn, RunNamed
<1>5. x.pc = "rename" /\ ~c[x.found].gone => c[x.found].link # 0
    BY DEF LinksIn, RunNamed
<1> QED
    BY <1>2, <1>3, <1>4, <1>5 DEF LinksIn

LEMMA Soiled ==
    ASSUME Disturbs, sync \in [Syncs -> Run]
    PROVE  /\ sync' \in [Syncs -> Run]
           /\ \A r \in Syncs :
                /\ sync'[r].pc = sync[r].pc /\ sync'[r].person = sync[r].person /\ sync'[r].found = sync[r].found
                /\ sync'[r].todo = sync[r].todo
                /\ sync[r].pc = "idle" \/ ~sync'[r].clean
<1>1. sync' = [r \in Syncs |-> IF sync[r].pc = "idle" THEN sync[r] ELSE Soils(sync[r], FALSE)]
    BY DEF Disturbs, Soils
<1>2. ASSUME NEW r \in Syncs
      PROVE  /\ sync'[r] \in Run
             /\ sync'[r].pc = sync[r].pc /\ sync'[r].person = sync[r].person /\ sync'[r].found = sync[r].found
             /\ sync'[r].todo = sync[r].todo
             /\ sync[r].pc = "idle" \/ ~sync'[r].clean
  <2>1. PICK x \in Run : x = sync[r]
    OBVIOUS
  <2>2. PICK e : e = Soils(x, FALSE)
    OBVIOUS
  <2>3. e \in Run /\ e.pc = x.pc /\ e.person = x.person /\ e.found = x.found /\ e.todo = x.todo /\ e.clean = FALSE
    BY <2>2, SoilsRun
  <2>4. sync'[r] = IF x.pc = "idle" THEN x ELSE e
    BY <1>1, <2>1, <2>2
  <2> QED
    BY <2>1, <2>3, <2>4
<1> QED
    BY <1>1, <1>2

LEMMA BooksDisturbed ==
    ASSUME BookParts, Disturbs, BooksOK(book', people'),
           \A i \in DOMAIN book : i \in DOMAIN book' /\ book'[i].link = book[i].link /\ (book[i].gone => book'[i].gone),
           \A i \in DOMAIN book' : i \in DOMAIN book \/ book'[i].link = 0,
           DOMAIN people \subseteq DOMAIN people', JobsNamed(jobs', worker', people'),
           reading' = reading, edits' \in 0..MaxEdits, errors' = errors, met' = met
    PROVE  BookParts'
<1>0. sync \in [Syncs -> Run] /\ book \in Seq(Contact) /\ DOMAIN book \subseteq DOMAIN book' /\ 0 \notin DOMAIN book
  <2>1. book \in Seq(Contact)
    BY DEF BookParts, BooksOK
  <2>2. DOMAIN book = 1..Len(book)
    BY <2>1, LenProperties
  <2> QED
    BY <2>1, <2>2 DEF BookParts
<1>1. /\ sync' \in [Syncs -> Run]
      /\ \A r \in Syncs :
            /\ sync'[r].pc = sync[r].pc /\ sync'[r].person = sync[r].person /\ sync'[r].found = sync[r].found
            /\ sync'[r].todo = sync[r].todo
            /\ sync[r].pc = "idle" \/ ~sync'[r].clean
    BY <1>0, Soiled
<1>2. ASSUME NEW r \in Syncs PROVE RunNamed(sync'[r], reading'[r], book', people')
  <2>1. PICK x, y, u : x = sync[r] /\ y = sync'[r] /\ u = reading[r]
    OBVIOUS
  <2>2. RunNamed(x, u, book', people')
    BY <1>0, <2>1, NamedStay DEF BookParts
  <2>3. y \in Run /\ y.pc = x.pc /\ y.person = x.person /\ y.found = x.found /\ y.todo = x.todo
    BY <1>1, <2>1
  <2>4. RunNamed(y, u, book', people')
    BY <2>2, <2>3 DEF RunNamed
  <2> QED
    BY <2>1, <2>4
<1>3. ASSUME ~met' PROVE AloneIn(sync', reading', book', people')
  <2>1. AloneIn(sync, reading, book, people)
    BY <1>3 DEF BookParts
  <2>2. OnceIn(book')
    BY <2>1 DEF AloneIn, OnceIn, HereIn
  <2>3. ASSUME NEW r \in Syncs PROVE RunIn(sync'[r], reading'[r], book', people')
    <3>1. PICK x, y, u : x = sync[r] /\ y = sync'[r] /\ u = reading[r]
      OBVIOUS
    <3>2. y.pc = x.pc /\ y.person = x.person /\ y.found = x.found /\ y.todo = x.todo /\ (x.pc = "idle" \/ ~y.clean)
      BY <1>1, <3>1
    <3>3. RunNamed(x, u, book, people) /\ LinksIn(x, book)
      BY <2>1, <3>1 DEF BookParts, AloneIn, RunIn
    <3>4. LinksIn(y, book')
      BY <1>0, <3>2, <3>3, LinksKept
    <3>5. y.clean => FreshIn(y, u, people') /\ ProgressIn(y, u, book', people')
      BY <3>2 DEF FreshIn, ProgressIn, Importing
    <3>6. RunIn(y, u, book', people')
      BY <3>2, <3>4, <3>5 DEF RunIn
    <3> QED
      BY <3>1, <3>6
  <2>4. \A r \in Syncs : /\ IsGoing(sync'[r]) <=> IsGoing(sync[r])
                         /\ ~(sync'[r].pc = "done" /\ sync'[r].clean)
    BY <1>1 DEF IsGoing
  <2> QED
    BY <2>1, <2>2, <2>3, <2>4 DEF AloneIn
<1> QED
    BY <1>1, <1>2, <1>3 DEF BookParts

Put(q, i, e) == [q EXCEPT ![i] = e]

LEMMA ContactChanged ==
    ASSUME NEW b, NEW p, BooksOK(b, p), NEW i \in DOMAIN b, NEW c \in Contact, c.link = 0 \/ c.link \in DOMAIN p,
           NEW t, t = Put(b, i, c),
           ~c.gone => \A k \in HereIn(b) : k # i => c.ids \cap b[k].ids = {}
    PROVE  BooksOK(t, p) /\ DOMAIN t = DOMAIN b /\ t[i] = c /\ \A k \in DOMAIN b : k # i => t[k] = b[k]
<1>1. b \in Seq(Contact)
    BY DEF BooksOK
<1>2. t \in Seq(Contact) /\ DOMAIN t = DOMAIN b /\ t[i] = c /\ \A k \in DOMAIN b : k # i => t[k] = b[k]
    BY <1>1, EntryChanged DEF Put
<1>3. OwnedIn(t)
  <2> SUFFICES ASSUME NEW k \in HereIn(t), NEW m \in HereIn(t), k # m PROVE t[k].ids \cap t[m].ids = {}
    BY DEF OwnedIn
  <2>1. CASE k # i /\ m # i
    BY <1>2, <2>1 DEF BooksOK, OwnedIn, HereIn
  <2>2. CASE k = i
    <3>1. m \in HereIn(b) /\ t[m] = b[m] /\ t[k] = c /\ ~c.gone
      BY <1>2, <2>2 DEF HereIn
    <3> QED
      BY <2>2, <3>1
  <2>3. CASE m = i
    <3>1. k \in HereIn(b) /\ t[k] = b[k] /\ t[m] = c /\ ~c.gone
      BY <1>2, <2>3 DEF HereIn
    <3>2. c.ids \cap b[k].ids = {}
      BY <2>3, <3>1
    <3> QED
      BY <3>1, <3>2
  <2> QED
    BY <2>1, <2>2, <2>3
<1>4. \A k \in DOMAIN t : t[k].link = 0 \/ t[k].link \in DOMAIN p
  <2> TAKE k \in DOMAIN t
  <2>1. CASE k = i
    BY <1>2, <2>1
  <2>2. CASE k # i
    BY <1>2, <2>2 DEF BooksOK
  <2> QED
    BY <2>1, <2>2
<1> QED
    BY <1>2, <1>3, <1>4 DEF BooksOK

LEMMA ContactAdded ==
    ASSUME NEW b, NEW p, BooksOK(b, p), NEW c \in Contact, c.link = 0, c.ids = {}, NEW t, t = Append(b, c)
    PROVE  BooksOK(t, p)
<1>0. PICK n : n = Len(b) + 1
    OBVIOUS
<1>1. b \in Seq(Contact)
    BY DEF BooksOK
<1>2. /\ t \in Seq(Contact) /\ DOMAIN b \subseteq DOMAIN t /\ n \in DOMAIN t /\ n \notin DOMAIN b /\ n \in Nat /\ n # 0
      /\ t[n] = c /\ \A k \in DOMAIN b : t[k] = b[k]
      /\ \A k \in DOMAIN t : k \in DOMAIN b \/ k = n
    BY <1>0, <1>1, EntryAppended
<1>3. OwnedIn(t)
  <2> SUFFICES ASSUME NEW k \in HereIn(t), NEW m \in HereIn(t), k # m PROVE t[k].ids \cap t[m].ids = {}
    BY DEF OwnedIn
  <2>1. CASE k # n /\ m # n
    <3>1. k \in HereIn(b) /\ m \in HereIn(b) /\ t[k] = b[k] /\ t[m] = b[m]
      BY <1>2, <2>1 DEF HereIn
    <3> QED
      BY <3>1 DEF BooksOK, OwnedIn
  <2>2. CASE k = n \/ m = n
    <3>1. t[k].ids = {} \/ t[m].ids = {}
      BY <1>2, <2>2
    <3> QED
      BY <3>1
  <2> QED
    BY <2>1, <2>2
<1>4. \A k \in DOMAIN t : t[k].link = 0 \/ t[k].link \in DOMAIN p
  <2> TAKE k \in DOMAIN t
  <2>1. CASE k = n
    BY <1>2, <2>1
  <2>2. CASE k # n
    BY <1>2, <2>2 DEF BooksOK
  <2> QED
    BY <2>1, <2>2
<1> QED
    BY <1>2, <1>3, <1>4 DEF BooksOK

LEMMA JobAdded ==
    ASSUME NEW js, NEW ws, NEW p, JobsNamed(js, ws, p), NEW j \in RemoteJob, j.person \in DOMAIN p
    PROVE  JobsNamed(Append(js, j), ws, p)
<1>1. PICK t : t = Append(js, j)
    OBVIOUS
<1>2. js \in Seq(RemoteJob)
    BY DEF JobsNamed
<1>3. t \in Seq(RemoteJob) /\ t[Len(js) + 1] = j /\ (\A k \in DOMAIN js : t[k] = js[k])
      /\ \A k \in DOMAIN t : k \in DOMAIN js \/ k = Len(js) + 1
    BY <1>1, <1>2, EntryAppended
<1>4. \A k \in DOMAIN t : t[k].person \in DOMAIN p
    BY <1>3 DEF JobsNamed
<1>5. JobsNamed(t, ws, p)
    BY <1>3, <1>4 DEF JobsNamed
<1> QED
    BY <1>1, <1>5

-------------------------------------------------------------------------------
(* What the user and the remote jobs do                                      *)

LEMMA CountEdit == ASSUME BookParts, Edit PROVE edits' \in 0..MaxEdits
    BY BookConstants DEF BookParts, Edit

LEMMA CreateContactStep ==
    ASSUME BookParts, NEW name \in Names \union {Placeholder}, CreateContact(name)
    PROVE  BookParts'
<1>0. [name |-> name, ids |-> {}, link |-> 0, gone |-> FALSE] \in Contact
    BY DEF Contact
<1>1. PICK c \in Contact : c = [name |-> name, ids |-> {}, link |-> 0, gone |-> FALSE] /\ c.link = 0 /\ c.ids = {}
    BY <1>0
<1>2. book' = Append(book, c) /\ Edit /\ jobs' = jobs /\ people' = people /\ worker' = worker /\ reading' = reading
    BY <1>1 DEF CreateContact, Edit
<1>3. BooksOK(book, people)
    BY DEF BookParts
<1>4. PICK t, n : t = book' /\ t = Append(book, c) /\ n = Len(book) + 1
    BY <1>2
<1>12. BooksOK(t, people)
    BY <1>1, <1>3, <1>4, ContactAdded
<1>13. /\ DOMAIN book \subseteq DOMAIN t /\ t[n] = c
       /\ (\A k \in DOMAIN book : t[k] = book[k]) /\ \A k \in DOMAIN t : k \in DOMAIN book \/ k = n
  <2>1. book \in Seq(Contact)
    BY <1>3 DEF BooksOK
  <2> QED
    BY <1>4, <2>1, EntryAppended
<1>5. /\ BooksOK(book', people) /\ DOMAIN book \subseteq DOMAIN book' /\ book'[n] = c
      /\ (\A k \in DOMAIN book : book'[k] = book[k]) /\ \A k \in DOMAIN book' : k \in DOMAIN book \/ k = n
    BY <1>4, <1>12, <1>13
<1>6. \A i \in DOMAIN book : i \in DOMAIN book' /\ book'[i].link = book[i].link /\ (book[i].gone => book'[i].gone)
    BY <1>5
<1>7. \A i \in DOMAIN book' : i \in DOMAIN book \/ book'[i].link = 0
    BY <1>1, <1>5
<1>8. Disturbs /\ reading' = reading /\ errors' = errors /\ met' = met /\ edits' \in 0..MaxEdits
    BY <1>2, CountEdit DEF Edit
<1>9. BooksOK(book', people') /\ JobsNamed(jobs', worker', people') /\ DOMAIN people \subseteq DOMAIN people'
    BY <1>2, <1>5 DEF BookParts
<1> QED
    BY <1>6, <1>7, <1>8, <1>9, BooksDisturbed

(* The contact the request names; it keeps its link, and no other contact    *)
(* has an identity of it.                                                    *)
LEMMA ContactDisturbed ==
    ASSUME BookParts, NEW i \in DOMAIN book, NEW c \in Contact, c.link = book[i].link, book[i].gone => c.gone,
           ~c.gone => \A k \in HereIn(book) : k # i => c.ids \cap book[k].ids = {},
           book' = [book EXCEPT ![i] = c],
           jobs' = jobs \/ \E j \in RemoteJob : j.person = c.link /\ c.link # 0 /\ jobs' = Append(jobs, j),
           Edit
    PROVE  BookParts'
<1>1. BooksOK(book, people) /\ (c.link = 0 \/ c.link \in DOMAIN people)
    BY DEF BookParts, BooksOK
<1>2. BooksOK(book', people) /\ DOMAIN book' = DOMAIN book /\ book'[i] = c /\ \A k \in DOMAIN book : k # i => book'[k] = book[k]
    BY <1>1, ContactChanged DEF Put
<1>3. \A k \in DOMAIN book : k \in DOMAIN book' /\ book'[k].link = book[k].link /\ (book[k].gone => book'[k].gone)
    BY <1>2
<1>4. \A k \in DOMAIN book' : k \in DOMAIN book \/ book'[k].link = 0
    BY <1>2
<1>5. Disturbs /\ reading' = reading /\ errors' = errors /\ met' = met /\ edits' \in 0..MaxEdits /\ people' = people /\ worker' = worker
    BY CountEdit DEF Edit
<1>6. JobsNamed(jobs', worker', people')
  <2>1. JobsNamed(jobs, worker, people)
    BY DEF BookParts
  <2>2. CASE jobs' = jobs
    BY <1>5, <2>1, <2>2
  <2>3. CASE \E j \in RemoteJob : j.person = c.link /\ c.link # 0 /\ jobs' = Append(jobs, j)
    <3>1. PICK j \in RemoteJob : j.person = c.link /\ c.link # 0 /\ jobs' = Append(jobs, j)
      BY <2>3
    <3>2. j.person \in DOMAIN people
      BY <1>1, <3>1
    <3>3. JobsNamed(Append(jobs, j), worker, people)
      BY <2>1, <3>2, JobAdded
    <3> QED
      BY <1>5, <3>1, <3>3
  <2> QED
    BY <2>2, <2>3
<1>7. BooksOK(book', people') /\ DOMAIN people \subseteq DOMAIN people'
    BY <1>2, <1>5
<1> QED
    BY <1>3, <1>4, <1>5, <1>6, <1>7, BooksDisturbed

LEMMA ChangeContactStep ==
    ASSUME BookParts, NEW i \in Here, NEW c \in Contact, c.link = book[i].link, c.gone = book[i].gone,
           \A k \in HereIn(book) : k # i => c.ids \cap book[k].ids = {}, ChangeContact(i, c)
    PROVE  BookParts'
<1>1. i \in DOMAIN book
    BY DEF Here
<1> DEFINE j == [op |-> "update", person |-> c.link, name |-> c.name, ids |-> c.ids]
<1>2. j \in RemoteJob /\ j.person = c.link
    BY DEF Contact, RemoteJob
<1>3. jobs' = IF c.link = 0 THEN jobs ELSE Append(jobs, j)
    BY DEF ChangeContact
<1>4. book' = [book EXCEPT ![i] = c] /\ Edit
    BY DEF ChangeContact
<1> HIDE DEF j
<1>5. jobs' = jobs \/ \E k \in RemoteJob : k.person = c.link /\ c.link # 0 /\ jobs' = Append(jobs, k)
    BY <1>2, <1>3
<1> QED
    BY <1>1, <1>4, <1>5, ContactDisturbed

LEMMA EditSteps ==
    ASSUME BookParts, NEW i \in Here,
           \/ RemoveContact(i)
           \/ \E name \in Names : UpdateContact(i, name)
           \/ \E x \in Identities : AddIdentity(i, x) \/ RemoveIdentity(i, x)
    PROVE  BookParts'
<1>1. PICK c \in Contact : c = book[i]
    BY DEF Here, BookParts, BooksOK
<1>2. i \in DOMAIN book /\ i \in HereIn(book) /\ ~c.gone /\ (c.link = 0 \/ c.link \in DOMAIN people)
    BY <1>1 DEF Here, HereIn, BookParts, BooksOK
<1>3. \A k \in HereIn(book) : k # i => c.ids \cap book[k].ids = {}
    BY <1>1, <1>2 DEF BookParts, BooksOK, OwnedIn
<1>4. CASE RemoveContact(i)
  <2>1. PICK e : e = Leaving(c)
    OBVIOUS
  <2>2. e \in Contact /\ e.link = c.link /\ e.gone = TRUE /\ e.ids = {}
    BY <2>1, LeavingContact
  <2>3. book' = [book EXCEPT ![i] = e]
    BY <1>1, <1>4, <2>1 DEF RemoveContact, Leaving
  <2> DEFINE j == [op |-> "delete", person |-> c.link, name |-> Placeholder, ids |-> {}]
  <2>4. j \in RemoteJob /\ j.person = c.link
    BY DEF Contact, RemoteJob
  <2>5. jobs' = (IF c.link = 0 THEN jobs ELSE Append(jobs, j)) /\ Edit
    BY <1>1, <1>4 DEF RemoveContact
  <2> HIDE DEF j
  <2>6. jobs' = jobs \/ \E k \in RemoteJob : k.person = e.link /\ e.link # 0 /\ jobs' = Append(jobs, k)
    BY <2>2, <2>4, <2>5
  <2> QED
    BY <1>1, <1>2, <2>2, <2>3, <2>5, <2>6, ContactDisturbed
<1>5. ASSUME NEW name \in Names, UpdateContact(i, name) PROVE BookParts'
  <2>1. PICK e : e = Naming(c, name)
    OBVIOUS
  <2>2. e \in Contact /\ e.link = c.link /\ e.gone = c.gone /\ e.ids = c.ids
    BY <2>1, NamingContact
  <2>3. ChangeContact(i, e)
    BY <1>1, <1>5, <2>1 DEF UpdateContact, Naming
  <2> QED
    BY <1>1, <1>3, <2>2, <2>3, ChangeContactStep
<1>6. ASSUME NEW x \in Identities, AddIdentity(i, x) PROVE BookParts'
  <2>1. PICK e : e = Holding(c, c.ids \union {x})
    OBVIOUS
  <2>2. c.ids \union {x} \in SUBSET Identities
    BY DEF Contact
  <2>3. e \in Contact /\ e.link = c.link /\ e.gone = c.gone /\ e.ids = c.ids \union {x}
    BY <2>1, <2>2, HoldingContact
  <2>4. ChangeContact(i, e) /\ Owner(x) \subseteq {i}
    BY <1>1, <1>6, <2>1 DEF AddIdentity, Holding
  <2>5. \A k \in HereIn(book) : k # i => x \notin book[k].ids
    BY <2>4 DEF Owner, Here, HereIn
  <2>6. \A k \in HereIn(book) : k # i => e.ids \cap book[k].ids = {}
    BY <1>3, <2>3, <2>5
  <2> QED
    BY <1>1, <2>3, <2>4, <2>6, ChangeContactStep
<1>7. ASSUME NEW x \in Identities, RemoveIdentity(i, x) PROVE BookParts'
  <2>1. PICK e : e = Holding(c, c.ids \ {x})
    OBVIOUS
  <2>2. c.ids \ {x} \in SUBSET Identities
    BY DEF Contact
  <2>3. e \in Contact /\ e.link = c.link /\ e.gone = c.gone /\ e.ids = c.ids \ {x}
    BY <2>1, <2>2, HoldingContact
  <2>4. ChangeContact(i, e)
    BY <1>1, <1>7, <2>1 DEF RemoveIdentity, Holding
  <2>6. \A k \in HereIn(book) : k # i => e.ids \cap book[k].ids = {}
    BY <1>3, <2>3
  <2> QED
    BY <1>1, <2>3, <2>4, <2>6, ChangeContactStep
<1> QED
    BY <1>4, <1>5, <1>6, <1>7

LEMMA PersonChanged ==
    ASSUME NEW b, NEW p, BooksOK(b, p), NEW g \in DOMAIN p, NEW e \in Person, NEW q, q = Put(p, g, e)
    PROVE  BooksOK(b, q) /\ DOMAIN q = DOMAIN p
<1>1. q \in Seq(Person) /\ DOMAIN q = DOMAIN p
  <2>1. p \in Seq(Person)
    BY DEF BooksOK
  <2> QED
    BY <2>1, EntryChanged DEF Put
<1> QED
    BY <1>1 DEF BooksOK

LEMMA OnlyJobs ==
    ASSUME BookParts, JobsNamed(jobs', worker', people),
           book' = book, people' = people, sync' = sync, reading' = reading, edits' = edits, errors' = errors, met' = met
    PROVE  BookParts'
    BY DEF BookParts

LEMMA PeopleDisturbed ==
    ASSUME BookParts, BooksOK(book, people'), DOMAIN people' = DOMAIN people, Disturbs,
           JobsNamed(jobs', worker', people), book' = book, reading' = reading, edits' = edits, errors' = errors, met' = met
    PROVE  BookParts'
<1>1. JobsNamed(jobs', worker', people')
    BY NamedStay
<1>2. BooksOK(book', people') /\ \A i \in DOMAIN book : i \in DOMAIN book' /\ book'[i].link = book[i].link /\ (book[i].gone => book'[i].gone)
    BY DEF BookParts
<1>3. (\A i \in DOMAIN book' : i \in DOMAIN book \/ book'[i].link = 0) /\ DOMAIN people \subseteq DOMAIN people' /\ edits' \in 0..MaxEdits
    BY DEF BookParts
<1> QED
    BY <1>1, <1>2, <1>3, BooksDisturbed

LEMMA TakeRemoteJobStep ==
    ASSUME BookParts, NEW w \in Remote, TakeRemoteJob(w)
    PROVE  BookParts'
<1>1. JobsNamed(jobs, worker, people) /\ BooksOK(book, people)
    BY DEF BookParts
<1>2. PICK j, rest : j = Head(jobs) /\ rest = Tail(jobs) /\ jobs # <<>>
    BY DEF TakeRemoteJob
<1>3. j \in RemoteJob /\ j.person \in DOMAIN people /\ JobsNamed(rest, worker, people)
  <2>1. jobs \in Seq(RemoteJob) /\ \A k \in DOMAIN jobs : jobs[k].person \in DOMAIN people
    BY <1>1 DEF JobsNamed
  <2>2. /\ j \in RemoteJob /\ rest \in Seq(RemoteJob) /\ Len(rest) = Len(jobs) - 1
        /\ \A i \in 1..Len(rest) : rest[i] = jobs[i + 1]
    BY <1>2, <2>1, HeadTailProperties
  <2>3. DOMAIN jobs = 1..Len(jobs) /\ Len(jobs) \in Nat \ {0} /\ DOMAIN rest = 1..Len(rest) /\ j = jobs[1]
    BY <1>2, <2>1, <2>2, LenProperties, EmptySeq
  <2>4. \A k \in DOMAIN rest : k + 1 \in DOMAIN jobs /\ rest[k] = jobs[k + 1]
    BY <2>2, <2>3
  <2>5. \A k \in DOMAIN rest : rest[k].person \in DOMAIN people
    BY <2>1, <2>4
  <2>6. j.person \in DOMAIN people
    BY <2>1, <2>3
  <2> QED
    BY <1>1, <2>2, <2>5, <2>6 DEF JobsNamed
<1>4. jobs' = rest /\ book' = book /\ reading' = reading /\ edits' = edits /\ errors' = errors /\ met' = met
    BY <1>2 DEF TakeRemoteJob
<1>5. \/ UNCHANGED <<worker, people, sync>>
      \/ people' = [people EXCEPT ![j.person] = Departs(people[j.person])] /\ Disturbs /\ UNCHANGED worker
      \/ /\ worker' = [worker EXCEPT ![w] = [pc |-> "patch", job |-> j, version |-> people[j.person].version]]
         /\ UNCHANGED <<people, sync>>
    BY <1>2 DEF TakeRemoteJob, Departs
<1>6. CASE UNCHANGED <<worker, people, sync>>
    BY <1>3, <1>4, <1>6, OnlyJobs
<1>7. CASE people' = [people EXCEPT ![j.person] = Departs(people[j.person])] /\ Disturbs /\ UNCHANGED worker
  <2>1. PICK e, q : e = Departs(people[j.person]) /\ q = people'
    OBVIOUS
  <2>2. people[j.person] \in Person
    BY <1>1, <1>3 DEF BooksOK
  <2>3. e \in Person
    BY <2>1, <2>2, DepartsPerson
  <2>4. q = [people EXCEPT ![j.person] = e]
    BY <1>7, <2>1
  <2>7. PICK b, p, g : b = book /\ p = people /\ g = j.person
    OBVIOUS
  <2>8. BooksOK(b, p) /\ g \in DOMAIN p /\ q = Put(p, g, e)
    BY <1>1, <1>3, <2>4, <2>7 DEF Put
  <2>9. BooksOK(b, q) /\ DOMAIN q = DOMAIN p
    BY <2>3, <2>8, PersonChanged
  <2>5. BooksOK(book, q) /\ DOMAIN q = DOMAIN people
    BY <2>7, <2>9
  <2>6. BooksOK(book, people') /\ DOMAIN people' = DOMAIN people /\ JobsNamed(jobs', worker', people)
    BY <1>3, <1>4, <1>7, <2>1, <2>5
  <2> QED
    BY <1>4, <1>7, <2>6, PeopleDisturbed
<1>8. CASE /\ worker' = [worker EXCEPT ![w] = [pc |-> "patch", job |-> j, version |-> people[j.person].version]]
           /\ UNCHANGED <<people, sync>>
  <2>0. people[j.person] \in Person
    BY <1>1, <1>3 DEF BooksOK
  <2>1. PICK v \in Nat : v = people[j.person].version
    BY <2>0 DEF Person
  <2>2. PICK ws : ws = worker' /\ ws = [worker EXCEPT ![w] = [pc |-> "patch", job |-> j, version |-> v]]
    BY <1>8, <2>1
  <2>3. JobsNamed(rest, ws, people)
    BY <1>3, <2>2 DEF JobsNamed
  <2> QED
    BY <1>4, <1>8, <2>2, <2>3, OnlyJobs
<1> QED
    BY <1>5, <1>6, <1>7, <1>8

LEMMA PatchPersonStep ==
    ASSUME BookParts, NEW w \in Remote, PatchPerson(w)
    PROVE  BookParts'
<1>1. JobsNamed(jobs, worker, people) /\ BooksOK(book, people)
    BY DEF BookParts
<1>2. PICK j : j = worker[w].job
    OBVIOUS
<1>3. j \in RemoteJob /\ j.person \in DOMAIN people
    BY <1>1, <1>2 DEF JobsNamed, PatchPerson
<1>4. PICK ws : ws = worker' /\ ws = [worker EXCEPT ![w] = FreeWorker]
    BY DEF PatchPerson
<1>5. JobsNamed(jobs, ws, people)
    BY <1>1, <1>4 DEF JobsNamed, FreeWorker
<1>6. book' = book /\ reading' = reading /\ edits' = edits /\ errors' = errors /\ met' = met
    BY DEF PatchPerson
<1>7. \/ jobs' = Append(jobs, j) /\ UNCHANGED <<people, sync>>
      \/ /\ people' = [people EXCEPT ![j.person] =
                            [name |-> j.name, ids |-> j.ids, gone |-> FALSE, version |-> people[j.person].version + 1]]
         /\ Disturbs /\ UNCHANGED jobs
    BY <1>2 DEF PatchPerson
<1>8. CASE jobs' = Append(jobs, j) /\ UNCHANGED <<people, sync>>
  <2>1. JobsNamed(Append(jobs, j), ws, people)
    BY <1>3, <1>5, JobAdded
  <2>2. JobsNamed(jobs', worker', people)
    BY <1>4, <1>8, <2>1
  <2> QED
    BY <1>6, <1>8, <2>2, OnlyJobs
<1>9. CASE /\ people' = [people EXCEPT ![j.person] =
                            [name |-> j.name, ids |-> j.ids, gone |-> FALSE, version |-> people[j.person].version + 1]]
           /\ Disturbs /\ UNCHANGED jobs
  <2>0. people[j.person] \in Person
    BY <1>1, <1>3 DEF BooksOK
  <2>1. PICK v \in Nat : v = people[j.person].version
    BY <2>0 DEF Person
  <2>2. PICK e : e = [name |-> j.name, ids |-> j.ids, gone |-> FALSE, version |-> v + 1]
    OBVIOUS
  <2>3. e \in Person
    BY <1>3, <2>2 DEF Person, RemoteJob
  <2>4. PICK q : q = people' /\ q = [people EXCEPT ![j.person] = e]
    BY <1>9, <2>1, <2>2
  <2>7. PICK b, p, g : b = book /\ p = people /\ g = j.person
    OBVIOUS
  <2>8. BooksOK(b, p) /\ g \in DOMAIN p /\ q = Put(p, g, e)
    BY <1>1, <1>3, <2>4, <2>7 DEF Put
  <2>9. BooksOK(b, q) /\ DOMAIN q = DOMAIN p
    BY <2>3, <2>8, PersonChanged
  <2>5. BooksOK(book, q) /\ DOMAIN q = DOMAIN people
    BY <2>7, <2>9
  <2>6. BooksOK(book, people') /\ DOMAIN people' = DOMAIN people /\ JobsNamed(jobs', worker', people)
    BY <1>4, <1>5, <1>9, <2>4, <2>5
  <2> QED
    BY <1>6, <1>9, <2>6, PeopleDisturbed
<1> QED
    BY <1>7, <1>8, <1>9

-------------------------------------------------------------------------------
(* Steps of a run that leave both books as they are                          *)

LEMMA RunTurns ==
    ASSUME BookParts, NEW r \in Syncs, IsGoing(sync[r]), NEW y, sync' = [sync EXCEPT ![r] = y],
           NEW u, ReadsOnly(r, u),
           RunNamed(y, u, book, people),
           AloneIn(sync, reading, book, people) =>
                /\ RunIn(y, u, book, people)
                /\ AgreedIn(book, people) /\ LittleIn(sync[r], reading[r], people) /\ IsGoing(y) => LittleIn(y, u, people),
           book' = book, people' = people,
           jobs' = jobs, worker' = worker, edits' = edits, errors' \in 0..MaxErrors, met' = met
    PROVE  BookParts'
<1>1. BooksOK(book', people') /\ DOMAIN book \subseteq DOMAIN book' /\ DOMAIN people \subseteq DOMAIN people'
    BY DEF BookParts
<1>2. RunNamed(y, u, book', people')
    OBVIOUS
<1>3. AloneIn(sync, reading, book, people) =>
                /\ OnceIn(book') /\ RunIn(y, u, book', people')
                /\ AgreedIn(book, people) /\ LittleIn(sync[r], reading[r], people) =>
                        AgreedIn(book', people') /\ (IsGoing(y) => LittleIn(y, u, people'))
    BY DEF AloneIn
<1> QED
    BY <1>1, <1>2, <1>3, RunMoves

LEMMA StepNames ==
    /\ {"idle", "done", "import", "same", "link", "rename", "create", "mark", "identify", "push", "store"} = RunSteps
    /\ AtStart \in Run /\ AtStart.person = 0 /\ AtStart.found = 0 /\ AtStart.todo = {}
<1>1. {"idle", "done", "import", "same", "link", "rename", "create", "mark", "identify", "push", "store"} = RunSteps
    BY DEF RunSteps, Importing
<1> QED
    BY <1>1 DEF AtStart, Run

(* The books number from 1.                                                  *)
LEMMA BookNumbers ==
    ASSUME NEW b, NEW p, BooksOK(b, p)
    PROVE  DOMAIN b \subseteq Nat \ {0} /\ DOMAIN p \subseteq Nat \ {0}
<1>1. DOMAIN b = 1..Len(b) /\ Len(b) \in Nat /\ DOMAIN p = 1..Len(p) /\ Len(p) \in Nat
    BY LenProperties DEF BooksOK
<1> QED
    BY <1>1

LEMMA EndedRun ==
    ASSUME NEW clean \in BOOLEAN, NEW y, y = SoilsOn(AtStart, "done", clean), NEW b, NEW p, NEW u \in Reading
    PROVE  /\ RunNamed(y, u, b, p) /\ LinksIn(y, b) /\ FreshIn(y, u, p) /\ ProgressIn(y, u, b, p) /\ ~IsGoing(y)
           /\ y.clean = clean
<1>1. y \in Run /\ y.pc = "done" /\ y.found = 0 /\ y.person = 0 /\ y.todo = {} /\ y.clean = clean
  <2>1. PICK x, pc : x = AtStart /\ pc = "done"
    OBVIOUS
  <2>2. x \in Run /\ x.person = 0 /\ x.found = 0 /\ x.todo = {} /\ pc \in RunSteps /\ y = SoilsOn(x, pc, clean)
    BY <2>1, StepNames
  <2>3. y \in Run /\ y.pc = pc /\ y.found = x.found /\ y.person = x.person /\ y.todo = x.todo /\ y.clean = clean
    BY <2>2, SoilsOnRun
  <2> QED
    BY <2>1, <2>2, <2>3
<1>2. RunNamed(y, u, b, p)
    BY <1>1 DEF RunNamed, Importing
<1>3. LinksIn(y, b)
    BY <1>1 DEF LinksIn
<1>4. FreshIn(y, u, p) /\ ProgressIn(y, u, b, p)
    BY <1>1 DEF FreshIn, ProgressIn, Importing
<1> QED
    BY <1>1, <1>2, <1>3, <1>4 DEF IsGoing

LEMMA RunStops ==
    ASSUME BookParts, NEW r \in Syncs, IsGoing(sync[r]), Stop(r), book' = book, people' = people,
           NEW u \in Reading, ReadsOnly(r, u),
           jobs' = jobs, worker' = worker, edits' = edits, errors' \in 0..MaxErrors, met' = met
    PROVE  BookParts'
<1>1. PICK y : y = SoilsOn(AtStart, "done", FALSE)
    OBVIOUS
<1>2. sync' = [sync EXCEPT ![r] = y]
    BY <1>1 DEF Stop, Go, SoilsOn
<1>3. RunNamed(y, u, book, people) /\ LinksIn(y, book) /\ ~IsGoing(y) /\ y.clean = FALSE
    BY <1>1, EndedRun
<1>4. RunIn(y, u, book, people)
    BY <1>3 DEF RunIn
<1> QED
    BY <1>2, <1>3, <1>4, RunTurns

(* What a run has read, with its parts. *)
ReadOf(snap, rest, left, page) == [snap |-> snap, rest |-> rest, left |-> left, page |-> page]
PageOf(u, snap, rest, page) == [u EXCEPT !.page = page, !.rest = rest, !.snap = snap]
RowsOf(u, snap, rest) == [u EXCEPT !.snap = snap, !.rest = rest]
RestOf(u, rest) == [u EXCEPT !.rest = rest]

LEMMA ReadOfReading ==
    ASSUME NEW snap \in Seq(CopyRow), NEW rest \in SUBSET Nat, NEW left \in SUBSET Identities, NEW page \in 0..MAX_PAGES
    PROVE  LET u == ReadOf(snap, rest, left, page) IN
           u \in Reading /\ u.snap = snap /\ u.rest = rest /\ u.left = left /\ u.page = page
<1>1. PICK Ss, Rs, Ls, Ps : Ss = Seq(CopyRow) /\ Rs = SUBSET Nat /\ Ls = SUBSET Identities /\ Ps = 0..MAX_PAGES
    OBVIOUS
<1>2. Reading = [snap : Ss, rest : Rs, left : Ls, page : Ps]
    BY <1>1 DEF Reading
<1> QED
    BY <1>1, <1>2 DEF ReadOf

LEMMA ReadingParts ==
    ASSUME NEW u \in Reading
    PROVE  /\ u.snap \in Seq(CopyRow) /\ u.rest \in SUBSET Nat /\ u.left \in SUBSET Identities /\ u.page \in 0..MAX_PAGES
           /\ u = ReadOf(u.snap, u.rest, u.left, u.page)
<1>1. PICK Ss, Rs, Ls, Ps : Ss = Seq(CopyRow) /\ Rs = SUBSET Nat /\ Ls = SUBSET Identities /\ Ps = 0..MAX_PAGES
    OBVIOUS
<1>2. u \in [snap : Ss, rest : Rs, left : Ls, page : Ps]
    BY <1>1 DEF Reading
<1> QED
    BY <1>1, <1>2 DEF ReadOf

LEMMA PageOfReading ==
    ASSUME NEW u \in Reading, NEW snap \in Seq(CopyRow), NEW rest \in SUBSET Nat, NEW page \in 0..MAX_PAGES
    PROVE  LET e == PageOf(u, snap, rest, page) IN e \in Reading /\ e.snap = snap /\ e.rest = rest
<1>1. PICK Ss, Rs, Ls, Ps : Ss = Seq(CopyRow) /\ Rs = SUBSET Nat /\ Ls = SUBSET Identities /\ Ps = 0..MAX_PAGES
    OBVIOUS
<1>2. Reading = [snap : Ss, rest : Rs, left : Ls, page : Ps]
    BY <1>1 DEF Reading
<1> DEFINE e == [u EXCEPT !.page = page, !.rest = rest, !.snap = snap]
<1>3. e \in [snap : Ss, rest : Rs, left : Ls, page : Ps] /\ e.snap = snap /\ e.rest = rest
    BY <1>1, <1>2
<1>4. e \in Reading /\ e = PageOf(u, snap, rest, page)
    BY <1>2, <1>3 DEF PageOf
<1> HIDE DEF e
<1> QED
    BY <1>3, <1>4

LEMMA RowsOfReading ==
    ASSUME NEW u \in Reading, NEW snap \in Seq(CopyRow), NEW rest \in SUBSET Nat
    PROVE  LET e == RowsOf(u, snap, rest) IN e \in Reading /\ e.snap = snap /\ e.rest = rest
<1>1. PICK Ss, Rs, Ls, Ps : Ss = Seq(CopyRow) /\ Rs = SUBSET Nat /\ Ls = SUBSET Identities /\ Ps = 0..MAX_PAGES
    OBVIOUS
<1>2. Reading = [snap : Ss, rest : Rs, left : Ls, page : Ps]
    BY <1>1 DEF Reading
<1> DEFINE e == [u EXCEPT !.snap = snap, !.rest = rest]
<1>3. e \in [snap : Ss, rest : Rs, left : Ls, page : Ps] /\ e.snap = snap /\ e.rest = rest
    BY <1>1, <1>2
<1>4. e \in Reading /\ e = RowsOf(u, snap, rest)
    BY <1>2, <1>3 DEF RowsOf
<1> HIDE DEF e
<1> QED
    BY <1>3, <1>4

LEMMA RestOfReading ==
    ASSUME NEW u \in Reading, NEW rest \in SUBSET Nat
    PROVE  LET e == RestOf(u, rest) IN e \in Reading /\ e.snap = u.snap /\ e.rest = rest
<1>1. PICK Ss, Rs, Ls, Ps : Ss = Seq(CopyRow) /\ Rs = SUBSET Nat /\ Ls = SUBSET Identities /\ Ps = 0..MAX_PAGES
    OBVIOUS
<1>2. Reading = [snap : Ss, rest : Rs, left : Ls, page : Ps]
    BY <1>1 DEF Reading
<1> DEFINE e == [u EXCEPT !.rest = rest]
<1>3. e \in [snap : Ss, rest : Rs, left : Ls, page : Ps] /\ e.snap = u.snap /\ e.rest = rest
    BY <1>1, <1>2
<1>4. e \in Reading /\ e = RestOf(u, rest)
    BY <1>2, <1>3 DEF RestOf
<1> HIDE DEF e
<1> QED
    BY <1>3, <1>4

LEMMA UnreadReading == Unread \in Reading /\ Unread.snap = <<>>
<1>1. <<>> \in Seq(CopyRow) /\ {} \in SUBSET Nat /\ {} \in SUBSET Identities /\ 0 \in 0..MAX_PAGES
    BY BookConstants
<1> QED
    BY <1>1, ReadOfReading DEF ReadOf, Unread

(* The rows as a run read them. *)
LEMMA AsReadRows ==
    ASSUME NEW rows, rows \in Seq(Contact) \/ rows \in Seq(Person), NEW snap, snap = AsRead(rows)
    PROVE  /\ snap \in Seq(CopyRow) /\ DOMAIN snap = DOMAIN rows
           /\ \A k \in DOMAIN rows : snap[k].name = rows[k].name /\ snap[k].ids = rows[k].ids
<1>1. DOMAIN rows = 1..Len(rows) /\ Len(rows) \in Nat
    BY LenProperties
<1>2. ASSUME NEW k \in DOMAIN rows PROVE [name |-> rows[k].name, ids |-> rows[k].ids] \in CopyRow
  <2>1. CASE rows \in Seq(Contact)
    <3>1. rows[k] \in Contact
      BY <1>2, <2>1
    <3> QED
      BY <3>1 DEF Contact, CopyRow
  <2>2. CASE rows \in Seq(Person)
    <3>1. rows[k] \in Person
      BY <1>2, <2>2
    <3> QED
      BY <3>1 DEF Person, CopyRow
  <2> QED
    BY <2>1, <2>2
<1>3. snap \in [1..Len(rows) -> CopyRow]
    BY <1>1, <1>2 DEF AsRead
<1>4. snap \in Seq(CopyRow)
    BY <1>1, <1>3, SeqDef
<1> QED
    BY <1>1, <1>4 DEF AsRead

LEMMA StartRunStep ==
    ASSUME BookParts, NEW r \in Syncs, StartRun(r)
    PROVE  BookParts'
<1>1. PICK y, pc : pc = "import" /\ y = Goes(AtStart, pc)
    OBVIOUS
<1>2. sync' = [sync EXCEPT ![r] = y] /\ sync[r].pc = "idle"
    BY <1>1 DEF StartRun, Go, Goes
<1>3. ThereIn(people) \subseteq DOMAIN people /\ ThereIn(people) \in SUBSET Nat
    BY BookNumbers DEF ThereIn, BookParts
<1>4. y \in Run /\ y.pc = "import" /\ y.found = 0 /\ y.person = 0 /\ y.todo = {}
  <2>1. PICK x : x = AtStart
    OBVIOUS
  <2>2. x \in Run /\ x.person = 0 /\ x.found = 0 /\ x.todo = {} /\ pc \in RunSteps
    BY <1>1, <2>1, StepNames
  <2> QED
    BY <1>1, <2>1, <2>2, GoesRun
<1>13. PICK n, rest, u : n = Unread /\ rest = ThereIn(people) /\ u = RestOf(n, rest)
    OBVIOUS
<1>14. reading' = [reading EXCEPT ![r] = u]
    BY <1>13, BookWords DEF StartRun, Retains, RestOf
<1>15. u \in Reading /\ u.snap = <<>> /\ u.rest = ThereIn(people)
  <2>1. n \in Reading /\ n.snap = <<>>
    BY <1>13, UnreadReading
  <2> QED
    BY <1>3, <1>13, <2>1, RestOfReading
<1>16. ReadsOnly(r, u)
    BY <1>14, <1>15, ReadsAnew
<1>5. /\ sync \in [Syncs -> Run] /\ sync' \in [Syncs -> Run]
      /\ sync'[r] = y /\ \A k \in Syncs : k # r => sync'[k] = sync[k]
    BY <1>2, <1>4 DEF BookParts
<1>6. RunNamed(y, u, book, people)
    BY <1>3, <1>4, <1>15 DEF RunNamed
<1>7. \A k \in Syncs : RunNamed(sync'[k], reading'[k], book, people)
    BY <1>5, <1>6, <1>16 DEF BookParts, ReadsOnly
<1>8. met' \in BOOLEAN
    BY DEF StartRun, BookParts
<1>9. ASSUME ~met' PROVE AloneIn(sync', reading', book, people)
  <2>1. AloneIn(sync, reading, book, people) /\ \A s \in Syncs : ~IsGoing(sync[s])
    BY <1>9 DEF StartRun, BookParts, Going, IsGoing
  <2>2. LinksIn(y, book)
    BY <1>4 DEF LinksIn
  <2>3. FreshIn(y, u, people) /\ ProgressIn(y, u, book, people)
    BY <1>4, <1>15 DEF FreshIn, ProgressIn
  <2>4. RunIn(y, u, book, people)
    BY <1>4, <2>2, <2>3 DEF RunIn
  <2>5. LittleIn(y, u, people)
    BY <1>4, <2>3 DEF LittleIn
  <2>6. \A k \in Syncs : RunIn(sync'[k], reading'[k], book, people)
    BY <1>5, <1>16, <2>1, <2>4 DEF AloneIn, ReadsOnly
  <2>7. \A k \in Syncs : IsGoing(sync'[k]) => k = r
    BY <1>5, <2>1
  <2> QED
    BY <1>5, <1>16, <2>1, <2>5, <2>6, <2>7 DEF AloneIn, ReadsOnly
<1>10. UNCHANGED <<book, people, jobs, worker, edits, errors>>
    BY DEF StartRun
<1>11. /\ BooksOK(book', people') /\ JobsNamed(jobs', worker', people')
       /\ edits' \in 0..MaxEdits /\ errors' \in 0..MaxErrors
    BY <1>10 DEF BookParts
<1>12. (\A k \in Syncs : RunNamed(sync'[k], reading'[k], book', people')) /\ (~met' => AloneIn(sync', reading', book', people'))
    BY <1>7, <1>9, <1>10
<1> QED
    BY <1>5, <1>8, <1>11, <1>12, <1>16 DEF BookParts, ReadsOnly

(* A page of people is read.                                                 *)
LEMMA ReadPageStep ==
    ASSUME BookParts, NEW r \in Syncs, ReadPage(r)
    PROVE  BookParts'
<1>1. PICK x \in Run, u \in Reading : x = sync[r] /\ u = reading[r]
    BY DEF BookParts
<1>2. /\ x.pc = "import" /\ x.todo = {} /\ RunNamed(x, u, book, people) /\ BooksOK(book, people) /\ IsGoing(x)
      /\ u.page < MAX_PAGES /\ UNCHANGED <<book, people, jobs, worker, edits, errors, met>>
    BY <1>1 DEF ReadPage, BookParts, IsGoing
<1>3. PICK listed \in SUBSET u.rest :
            /\ Go(r, [x EXCEPT !.todo = listed \cap There])
            /\ Retains(r, [u EXCEPT !.page = @ + 1, !.rest = @ \ listed, !.snap = AsRead(people)])
    BY <1>1 DEF ReadPage
<1>4. PICK todo, y : todo = listed \cap ThereIn(people) /\ y = Passes(x, todo)
    OBVIOUS
<1>5. sync' = [sync EXCEPT ![r] = y]
    BY <1>3, <1>4, BookWords DEF Go, Passes
<1>6. todo \in SUBSET Nat /\ todo \subseteq DOMAIN people /\ todo \subseteq ThereIn(people)
    BY <1>2, <1>4, BookNumbers DEF ThereIn
<1>7. /\ y \in Run /\ y.pc = "import" /\ y.person = x.person /\ y.found = x.found /\ y.todo = todo
      /\ y.clean = x.clean
    BY <1>2, <1>4, <1>6, PassesRun
<1>8. PICK snap, rest, left, page : /\ snap = AsRead(people) /\ rest = u.rest \ listed /\ left = u.left /\ page = u.page + 1
    OBVIOUS
<1>9. PICK v : v = PageOf(u, snap, rest, page)
    OBVIOUS
<1>10. /\ snap \in Seq(CopyRow) /\ DOMAIN snap = DOMAIN people
       /\ \A k \in DOMAIN people : snap[k].name = people[k].name /\ snap[k].ids = people[k].ids
    BY <1>2, <1>8, AsReadRows DEF BooksOK
<1>11. rest \in SUBSET Nat /\ left \in SUBSET Identities /\ page \in 0..MAX_PAGES
  <2>1. u.rest \in SUBSET Nat /\ u.left \in SUBSET Identities /\ u.page \in 0..MAX_PAGES
    BY ReadingParts
  <2>2. MAX_PAGES \in Nat
    BY BookConstants
  <2>3. page \in 0..MAX_PAGES
    BY <1>2, <1>8, <2>1, <2>2
  <2> QED
    BY <1>8, <2>1, <2>3
<1>12. v \in Reading /\ v.snap = snap /\ v.rest = rest
    BY <1>9, <1>10, <1>11, PageOfReading
<1>13. reading' = [reading EXCEPT ![r] = v]
  <2>1. [u EXCEPT !.page = @ + 1, !.rest = @ \ listed, !.snap = AsRead(people)] = v
    BY <1>8, <1>9, ReadingParts DEF PageOf, ReadOf
  <2> QED
    BY <1>3, <2>1 DEF Retains
<1>14. ReadsOnly(r, v)
    BY <1>12, <1>13, ReadsAnew
<1>15. RunNamed(y, v, book, people)
    BY <1>2, <1>6, <1>7, <1>8, <1>10, <1>12 DEF RunNamed, Importing
<1>16. FreshIn(y, v, people)
    BY <1>6, <1>7, <1>10, <1>12 DEF FreshIn
<1>17. ASSUME RunIn(x, u, book, people) PROVE RunIn(y, v, book, people)
  <2>1. LinksIn(y, book)
    BY <1>7 DEF LinksIn
  <2>2. ASSUME y.clean PROVE ProgressIn(y, v, book, people)
    <3>1. \A g \in ThereIn(people) : g \in u.rest \/ Both(book, people, g)
      BY <1>2, <1>7, <1>17, <2>2 DEF RunIn, ProgressIn, Importing
    <3>2. \A g \in ThereIn(people) : g \in y.todo \/ g \in v.rest \/ Both(book, people, g)
      BY <1>4, <1>7, <1>8, <1>12, <3>1
    <3> QED
      BY <1>7, <3>2 DEF ProgressIn
  <2> QED
    BY <1>7, <1>16, <2>1, <2>2 DEF RunIn
<1>18. LittleIn(y, v, people)
    BY <1>7, <1>16 DEF LittleIn
<1>19. AloneIn(sync, reading, book, people) =>
                /\ RunIn(y, v, book, people)
                /\ AgreedIn(book, people) /\ LittleIn(sync[r], reading[r], people) /\ IsGoing(y) => LittleIn(y, v, people)
    BY <1>1, <1>17, <1>18 DEF AloneIn
<1>20. errors' \in 0..MaxErrors /\ IsGoing(sync[r])
    BY <1>1, <1>2 DEF BookParts
<1> QED
    BY <1>2, <1>5, <1>14, <1>15, <1>19, <1>20, RunTurns

(* What the run finds of the person, as it read the person.                  *)
LEMMA PersonFound ==
    ASSUME NEW g, NEW e
    PROVE  /\ Linked(g) # {} => Both(book, people, g)
           /\ Linked(g) = {} => \A i \in HereIn(book) : book[i].link # g
           /\ \A i \in SameName(e) : i \in HereIn(book) /\ book[i].link = 0 /\ e.ids = {}
           /\ \A i \in Known(e) : i \in HereIn(book)
           /\ e.name = people[g].name /\ e.ids = people[g].ids =>
                /\ Known(e) # {} => Both(book, people, g)
                /\ e.name = Nameless => Both(book, people, g)
                /\ e.name # Nameless /\ Linked(g) = {} /\ Both(book, people, g) => Known(e) # {} /\ e.ids # {}
<1>1. Here = HereIn(book)
    BY BookWords
<1>2. /\ Linked(g) # {} => Both(book, people, g)
      /\ Linked(g) = {} => \A i \in HereIn(book) : book[i].link # g
    BY <1>1 DEF Linked, Both
<1>4. \A i \in SameName(e) : i \in HereIn(book) /\ book[i].link = 0 /\ e.ids = {}
    BY <1>1 DEF SameName
<1>5. \A i \in Known(e) : i \in HereIn(book)
    BY <1>1 DEF Known, Owner
<1>6. ASSUME e.name = people[g].name, e.ids = people[g].ids
      PROVE  /\ Known(e) # {} => Both(book, people, g)
             /\ e.name = Nameless => Both(book, people, g)
             /\ e.name # Nameless /\ Linked(g) = {} /\ Both(book, people, g) => Known(e) # {} /\ e.ids # {}
  <2>1. Known(e) # {} => Both(book, people, g)
    BY <1>1, <1>6 DEF Known, Owner, Both
  <2>2. e.name = Nameless => Both(book, people, g)
    BY <1>6 DEF Both
  <2>3. ASSUME e.name # Nameless, Linked(g) = {}, Both(book, people, g) PROVE Known(e) # {} /\ e.ids # {}
    <3>1. PICK i \in HereIn(book) : book[i].ids \cap people[g].ids # {}
      BY <1>1, <1>6, <2>3 DEF Linked, Both
    <3>2. PICK z : z \in book[i].ids /\ z \in e.ids
      BY <1>6, <3>1
    <3>3. i \in Owner(z)
      BY <1>1, <3>2 DEF Owner
    <3> QED
      BY <3>2, <3>3 DEF Known
  <2> QED
    BY <2>1, <2>2, <2>3
<1> QED
    BY <1>2, <1>4, <1>5, <1>6

(* Sound: what the run concludes of the person it read is so of the person.  *)
LEMMA Decided ==
    ASSUME NEW b, NEW p, BooksOK(b, p), NEW x \in Run, NEW y \in Run, NEW u \in Reading, RunNamed(x, u, b, p), x.pc = "import",
           NEW g \in DOMAIN p, g \in x.todo, y.clean = x.clean, y.todo = x.todo \ {g},
           y.found = 0 \/ y.found \in DOMAIN b,
           NEW sound, sound = (u.snap[g].name = p[g].name /\ u.snap[g].ids = p[g].ids),
           \/ y.pc = "import" /\ y.person = x.person /\ (sound => Both(b, p, g))
           \/ /\ y.person = g /\ \A i \in HereIn(b) : b[i].link # g
              /\ \/ y.pc = "same" /\ y.found # 0 /\ b[y.found].link = 0 /\ (sound => ~Both(b, p, g))
                 \/ y.pc = "link" /\ y.found # 0 /\ (sound => Both(b, p, g)) /\ u.snap[g].name # Nameless
                 \/ y.pc = "create" /\ (sound => ~Both(b, p, g)) /\ u.snap[g].name # Nameless
    PROVE  /\ RunNamed(y, u, b, p)
           /\ RunIn(x, u, b, p) => RunIn(y, u, b, p)
           /\ AgreedIn(b, p) /\ LittleIn(x, u, p) => LittleIn(y, u, p)
<1>1. RunNamed(y, u, b, p)
    BY BookNumbers DEF RunNamed, Importing
<1>4. ASSUME FreshIn(x, u, p) PROVE FreshIn(y, u, p) /\ sound /\ g \in ThereIn(p)
  <2>1. \A h \in x.todo : h \in ThereIn(p) /\ u.snap[h].name = p[h].name /\ u.snap[h].ids = p[h].ids
    BY <1>4 DEF FreshIn, Importing
  <2> QED
    BY <2>1 DEF FreshIn
<1>2. ASSUME RunIn(x, u, b, p) PROVE RunIn(y, u, b, p)
  <2>1. LinksIn(y, b)
    BY DEF LinksIn
  <2>2. ASSUME y.clean PROVE FreshIn(y, u, p) /\ ProgressIn(y, u, b, p)
    <3>1. FreshIn(y, u, p) /\ sound /\ \A h \in ThereIn(p) : h \in x.todo \/ h \in u.rest \/ Both(b, p, h)
      BY <1>2, <1>4, <2>2 DEF RunIn, ProgressIn, Importing
    <3>2. \A h \in ThereIn(p) : \/ h \in y.todo \/ h \in u.rest \/ Both(b, p, h)
                                \/ (y.pc \in {"same", "create", "mark"} /\ h = y.person)
      BY <3>1
    <3> QED
      BY <3>1, <3>2 DEF ProgressIn
  <2> QED
    BY <2>1, <2>2 DEF RunIn
<1>3. ASSUME AgreedIn(b, p), LittleIn(x, u, p) PROVE LittleIn(y, u, p)
  <2>1. FreshIn(y, u, p) /\ sound /\ g \in ThereIn(p)
    BY <1>3, <1>4 DEF LittleIn
  <2>2. Both(b, p, g)
    BY <1>3, <2>1 DEF AgreedIn
  <2> QED
    BY <2>1, <2>2 DEF LittleIn
<1> QED
    BY <1>1, <1>2, <1>3

LEMMA RecogniseStep ==
    ASSUME BookParts, NEW r \in Syncs, NEW g \in DOMAIN people, Recognise(r, g)
    PROVE  BookParts'
<1>1. PICK x \in Run, u \in Reading : x = sync[r] /\ u = reading[r]
    BY DEF BookParts
<1>2. /\ x.pc = "import" /\ g \in x.todo /\ RunNamed(x, u, book, people) /\ BooksOK(book, people) /\ IsGoing(x)
      /\ UNCHANGED <<book, people, reading, jobs, worker, edits, errors, met>>
    BY <1>1 DEF Recognise, BookParts, IsGoing
<1>3. /\ {"import", "same", "link", "create"} \subseteq RunSteps /\ x.todo \ {g} \in SUBSET Nat
      /\ g \in Nat /\ g # 0 /\ DOMAIN book \subseteq Nat \ {0} /\ x.found \in Nat /\ x.person \in Nat
    BY <1>2, BookNumbers DEF RunSteps, Importing, Run
<1>8. PICK e, sound : e = u.snap[g] /\ sound = (u.snap[g].name = people[g].name /\ u.snap[g].ids = people[g].ids)
    OBVIOUS
<1>9. \/ (e.name = Nameless \/ Linked(g) # {}) /\ Go(r, [x EXCEPT !.todo = @ \ {g}])
      \/ /\ e.name # Nameless /\ Linked(g) = {}
         /\ \/ \E i \in SameName(e) : Go(r, [x EXCEPT !.pc = "same", !.person = g, !.found = i, !.todo = @ \ {g}])
            \/ \E i \in Known(e) : Go(r, [[x EXCEPT !.pc = "link", !.person = g, !.found = i, !.todo = @ \ {g}]
                                                EXCEPT !.rename = book[i].name = Placeholder])
            \/ /\ Known(e) = {}
               /\ Go(r, [x EXCEPT !.pc = "create", !.person = g, !.found = x.found, !.todo = @ \ {g}])
    BY <1>1, <1>8 DEF Recognise, Meets
<1>4. SUFFICES ASSUME NEW y \in Run, y.clean = x.clean, y.todo = x.todo \ {g}, sync' = [sync EXCEPT ![r] = y],
                      y.found = 0 \/ y.found \in DOMAIN book,
                      \/ y.pc = "import" /\ y.person = x.person /\ (sound => Both(book, people, g))
                      \/ /\ y.person = g /\ \A i \in HereIn(book) : book[i].link # g
                         /\ \/ y.pc = "same" /\ y.found # 0 /\ book[y.found].link = 0 /\ (sound => ~Both(book, people, g))
                            \/ y.pc = "link" /\ y.found # 0 /\ (sound => Both(book, people, g)) /\ u.snap[g].name # Nameless
                            \/ y.pc = "create" /\ (sound => ~Both(book, people, g)) /\ u.snap[g].name # Nameless
               PROVE  BookParts'
  <2>1. CASE (e.name = Nameless \/ Linked(g) # {}) /\ Go(r, [x EXCEPT !.todo = @ \ {g}])
    <3>1. PICK y : y = Passes(x, x.todo \ {g})
      OBVIOUS
    <3>2. /\ y \in Run /\ y.clean = x.clean /\ y.todo = x.todo \ {g} /\ y.pc = "import" /\ y.person = x.person
          /\ y.found = x.found
      BY <1>2, <1>3, <3>1, PassesRun
    <3>3. sync' = [sync EXCEPT ![r] = y]
      BY <2>1, <3>1 DEF Go, Passes
    <3>4. sound => Both(book, people, g)
      BY <1>8, <2>1, PersonFound
    <3> QED
      BY <1>2, <1>4, <3>2, <3>3, <3>4 DEF RunNamed
  <2>2. ASSUME e.name # Nameless, Linked(g) = {}, NEW i \in SameName(e),
               Go(r, [x EXCEPT !.pc = "same", !.person = g, !.found = i, !.todo = @ \ {g}])
        PROVE  BookParts'
    <3>0. i \in DOMAIN book /\ i \in Nat /\ i # 0 /\ book[i].link = 0 /\ e.ids = {}
      BY <1>3, PersonFound DEF HereIn
    <3>1. PICK y, pc : pc = "same" /\ y = Notes(x, pc, g, i, x.todo \ {g})
      OBVIOUS
    <3>2. y \in Run /\ y.clean = x.clean /\ y.todo = x.todo \ {g} /\ y.pc = "same" /\ y.person = g /\ y.found = i
      BY <1>3, <3>0, <3>1, NotesRun
    <3>3. sync' = [sync EXCEPT ![r] = y]
      BY <2>2, <3>1 DEF Go, Notes
    <3>4. (sound => ~Both(book, people, g)) /\ \A k \in HereIn(book) : book[k].link # g
      BY <1>8, <2>2, <3>0, PersonFound
    <3> QED
      BY <1>4, <3>0, <3>2, <3>3, <3>4
  <2>3. ASSUME e.name # Nameless, Linked(g) = {}, NEW i \in Known(e),
               Go(r, [[x EXCEPT !.pc = "link", !.person = g, !.found = i, !.todo = @ \ {g}]
                            EXCEPT !.rename = book[i].name = Placeholder])
        PROVE  BookParts'
    <3>0. i \in DOMAIN book /\ i \in Nat /\ i # 0
      BY <1>3, PersonFound DEF HereIn
    <3>1. PICK y, pc, todo, rename : /\ pc = "link" /\ rename = (book[i].name = Placeholder) /\ todo = x.todo \ {g}
                                      /\ y = NotesName(x, pc, g, i, todo, rename)
      OBVIOUS
    <3>2. y \in Run /\ y.clean = x.clean /\ y.todo = x.todo \ {g} /\ y.pc = "link" /\ y.person = g /\ y.found = i
      <4>1. pc \in RunSteps /\ rename \in BOOLEAN /\ todo \in SUBSET Nat
        BY <1>3, <3>1
      <4>2. y \in Run /\ y.clean = x.clean /\ y.todo = todo /\ y.pc = pc /\ y.person = g /\ y.found = i
        <5>1. g \in Nat /\ i \in Nat /\ y = NotesName(x, pc, g, i, todo, rename)
          BY <1>3, <3>0, <3>1
        <5> QED
          BY <4>1, <5>1, NotesNameRun
      <4> QED
        BY <3>1, <4>2
    <3>3. sync' = [sync EXCEPT ![r] = y]
      BY <2>3, <3>1 DEF Go, NotesName
    <3>4. (sound => Both(book, people, g)) /\ \A k \in HereIn(book) : book[k].link # g
      BY <1>8, <2>3, PersonFound
    <3> QED
      BY <1>4, <1>8, <2>3, <3>0, <3>2, <3>3, <3>4
  <2>4. CASE /\ e.name # Nameless /\ Linked(g) = {} /\ Known(e) = {}
             /\ Go(r, [x EXCEPT !.pc = "create", !.person = g, !.found = x.found, !.todo = @ \ {g}])
    <3>1. PICK y, pc : pc = "create" /\ y = Notes(x, pc, g, x.found, x.todo \ {g})
      OBVIOUS
    <3>2. y \in Run /\ y.clean = x.clean /\ y.todo = x.todo \ {g} /\ y.pc = "create" /\ y.person = g /\ y.found = x.found
      BY <1>3, <3>1, NotesRun
    <3>3. sync' = [sync EXCEPT ![r] = y]
      BY <2>4, <3>1 DEF Go, Notes
    <3>4. (sound => ~Both(book, people, g)) /\ \A k \in HereIn(book) : book[k].link # g
      BY <1>8, <2>4, PersonFound
    <3> QED
      BY <1>2, <1>4, <1>8, <2>4, <3>2, <3>3, <3>4 DEF RunNamed
  <2> QED
    BY <1>9, <2>1, <2>2, <2>3, <2>4
<1>5. /\ RunNamed(y, u, book, people)
      /\ RunIn(x, u, book, people) => RunIn(y, u, book, people)
      /\ AgreedIn(book, people) /\ LittleIn(x, u, people) => LittleIn(y, u, people)
    BY <1>2, <1>4, <1>8, Decided
<1>6. AloneIn(sync, reading, book, people) =>
                /\ RunIn(y, u, book, people)
                /\ AgreedIn(book, people) /\ LittleIn(sync[r], reading[r], people) /\ IsGoing(y) => LittleIn(y, u, people)
    BY <1>1, <1>5 DEF AloneIn
<1>7. errors' \in 0..MaxErrors /\ IsGoing(sync[r]) /\ ReadsOnly(r, u)
    BY <1>1, <1>2, ReadsNothing DEF BookParts
<1> QED
    BY <1>2, <1>4, <1>5, <1>6, <1>7, RunTurns

(* What a push takes; undisturbed and within the limits, all there is.       *)
LEMMA StartPushStep ==
    ASSUME BookParts, NEW r \in Syncs, StartPush(r)
    PROVE  BookParts'
<1>1. PICK x \in Run, u \in Reading : x = sync[r] /\ u = reading[r]
    BY DEF BookParts
<1>2. /\ x.pc = "import" /\ x.todo = {} /\ RunNamed(x, u, book, people) /\ BooksOK(book, people) /\ IsGoing(x)
      /\ UNCHANGED <<book, people, jobs, worker, edits, errors, met>>
    BY <1>1 DEF StartPush, BookParts, IsGoing
<1>3. PICK taken, todo : taken = Least(Pending, MAX_PER_RUN) /\ todo = {i \in taken : book[i].name # Placeholder}
    OBVIOUS
<1>17. taken \subseteq {i \in HereIn(book) : book[i].link = 0} /\ Pending = {i \in HereIn(book) : book[i].link = 0}
    BY <1>3, BookWords DEF Least, Pending
<1>4. PICK pc, clean, y : /\ pc = "push" /\ clean = (x.clean /\ u.rest = {} /\ taken = Pending)
                          /\ y = TurnsOn(x, pc, todo, clean)
    OBVIOUS
<1>5. sync' = [sync EXCEPT ![r] = y]
    BY <1>1, <1>3, <1>4 DEF StartPush, Go, TurnsOn
<1>6. todo \in SUBSET Nat /\ todo \subseteq HereIn(book) /\ todo \subseteq DOMAIN book /\ pc \in RunSteps /\ clean \in BOOLEAN
    BY <1>2, <1>3, <1>4, <1>17, BookNumbers, StepNames DEF HereIn
<1>7. y \in Run /\ y.pc = "push" /\ y.todo = todo /\ y.found = x.found /\ y.person = x.person /\ y.clean = clean
  <2>1. y = TurnsOn(x, pc, todo, clean) /\ pc = "push"
    BY <1>4
  <2>2. /\ y \in Run
        /\ y.pc = pc /\ y.person = x.person /\ y.found = x.found /\ y.todo = todo /\ y.clean = clean
    BY <1>6, <2>1, TurnsOnRun
  <2> QED
    BY <2>1, <2>2
<1>11. PICK snap, rest, v : snap = AsRead(book) /\ rest = {} /\ v = RowsOf(u, snap, rest)
    OBVIOUS
<1>12. snap \in Seq(CopyRow) /\ DOMAIN snap = DOMAIN book
    BY <1>2, <1>11, AsReadRows DEF BooksOK
<1>13. v \in Reading /\ v.snap = snap
    BY <1>11, <1>12, RowsOfReading
<1>14. reading' = [reading EXCEPT ![r] = v]
  <2>1. v = [u EXCEPT !.snap = AsRead(book), !.rest = {}]
    BY <1>11 DEF RowsOf
  <2> QED
    BY <1>1, <2>1 DEF Retains, StartPush
<1>15. ReadsOnly(r, v)
    BY <1>13, <1>14, ReadsAnew
<1>8. RunNamed(y, v, book, people)
    BY <1>2, <1>6, <1>7, <1>12, <1>13 DEF RunNamed, Importing
<1>16. FreshIn(y, v, people)
    BY <1>7 DEF FreshIn, Importing
<1>9. ASSUME AloneIn(sync, reading, book, people)
      PROVE  /\ RunIn(y, v, book, people)
             /\ AgreedIn(book, people) => LittleIn(y, v, people)
  <2>1. RunIn(x, u, book, people)
    BY <1>1, <1>9 DEF AloneIn
  <2>2. LinksIn(y, book)
    BY <1>3, <1>7, <1>17 DEF LinksIn
  <2>3. ASSUME y.clean PROVE ProgressIn(y, v, book, people)
    <3>1. x.clean /\ u.rest = {} /\ \A i \in HereIn(book) : book[i].link # 0 \/ book[i].name = Placeholder \/ i \in todo
      BY <1>3, <1>4, <1>7, <1>17, <2>3
    <3>2. \A h \in ThereIn(people) : Both(book, people, h)
      BY <1>2, <2>1, <3>1 DEF RunIn, ProgressIn, Importing
    <3> QED
      BY <1>6, <1>7, <3>1, <3>2 DEF ProgressIn, Importing
  <2>4. AgreedIn(book, people) => LittleIn(y, v, people)
    <3>1. AgreedIn(book, people) => todo = {}
      BY <1>3, <1>17 DEF AgreedIn
    <3> QED
      BY <1>7, <1>16, <3>1 DEF LittleIn
  <2> QED
    BY <1>7, <1>16, <2>2, <2>3, <2>4 DEF RunIn
<1>10. errors' \in 0..MaxErrors /\ IsGoing(sync[r])
    BY <1>1, <1>2 DEF BookParts
<1> QED
    BY <1>2, <1>5, <1>8, <1>9, <1>10, <1>15, RunTurns

LEMMA EndRunStep ==
    ASSUME BookParts, NEW r \in Syncs, EndRun(r)
    PROVE  BookParts'
<1>1. PICK x \in Run, u \in Reading : x = sync[r] /\ u = reading[r]
    BY DEF BookParts
<1>2. /\ x.pc = "push" /\ x.todo = {} /\ IsGoing(x) /\ x.clean \in BOOLEAN
      /\ UNCHANGED <<book, people, reading, jobs, worker, edits, errors, met>>
    BY <1>1 DEF EndRun, IsGoing, Run
<1>3. PICK clean, y : clean = x.clean /\ y = SoilsOn(AtStart, "done", clean)
    OBVIOUS
<1>4. sync' = [sync EXCEPT ![r] = y]
    BY <1>1, <1>3 DEF EndRun, Go, SoilsOn
<1>5. RunNamed(y, u, book, people) /\ LinksIn(y, book) /\ FreshIn(y, u, people) /\ ProgressIn(y, u, book, people) /\ ~IsGoing(y) /\ y.clean = x.clean
    BY <1>2, <1>3, EndedRun
<1>6. ASSUME AloneIn(sync, reading, book, people) PROVE RunIn(y, u, book, people)
  <2>1. RunIn(x, u, book, people)
    BY <1>1, <1>6 DEF AloneIn
  <2>2. x.clean => AgreedIn(book, people)
    BY <1>2, <2>1 DEF RunIn, ProgressIn, AgreedIn
  <2> QED
    BY <1>5, <2>2 DEF RunIn
<1>7. errors' \in 0..MaxErrors /\ IsGoing(sync[r]) /\ ReadsOnly(r, u)
    BY <1>1, <1>2, ReadsNothing DEF BookParts
<1> QED
    BY <1>2, <1>4, <1>5, <1>6, <1>7, RunTurns

LEMMA RunFailsStep ==
    ASSUME BookParts, NEW r \in Syncs, RunFails(r)
    PROVE  BookParts'
<1>1. PICK x \in Run, u \in Reading : x = sync[r] /\ u = reading[r]
    BY DEF BookParts
<1>2. /\ RunNamed(x, u, book, people) /\ IsGoing(x) /\ IsGoing(sync[r])
      /\ UNCHANGED <<book, people, reading, jobs, worker, edits, met>>
    BY <1>1 DEF RunFails, IsGoing, Going, BookParts
<1>3. errors' \in 0..MaxErrors
  <2>1. MaxErrors \in Nat /\ errors \in 0..MaxErrors
    BY BookConstants DEF BookParts
  <2>2. errors < MaxErrors /\ errors' = errors + 1
    BY DEF RunFails, Mistake
  <2> QED
    BY <2>1, <2>2
<1>7. ReadsOnly(r, u)
    BY <1>1, <1>2, ReadsNothing
<1>4. CASE x.pc = "push"
  <2>1. PICK i \in x.todo : Go(r, [x EXCEPT !.todo = @ \ {i}, !.clean = FALSE])
    BY <1>1, <1>4 DEF RunFails
  <2>2. PICK todo, y : todo = x.todo \ {i} /\ y = Skips(x, todo, FALSE)
    OBVIOUS
  <2>3. sync' = [sync EXCEPT ![r] = y]
    BY <2>1, <2>2 DEF Go, Skips
  <2>4. todo \in SUBSET Nat
    BY <2>2 DEF Run
  <2>5. y \in Run /\ y.pc = "push" /\ y.todo = todo /\ y.found = x.found /\ y.person = x.person /\ y.clean = FALSE
    BY <1>4, <2>2, <2>4, SkipsRun
  <2>6. RunNamed(y, u, book, people)
    BY <1>2, <1>4, <2>2, <2>5 DEF RunNamed, Importing
  <2>7. ASSUME RunIn(x, u, book, people) PROVE RunIn(y, u, book, people)
    <3>1. LinksIn(y, book)
      BY <1>4, <2>2, <2>5, <2>7 DEF RunIn, LinksIn
    <3> QED
      BY <2>5, <3>1 DEF RunIn
  <2>8. ~LittleIn(x, u, people)
    BY <1>4 DEF LittleIn
  <2>9. AloneIn(sync, reading, book, people) =>
                /\ RunIn(y, u, book, people)
                /\ AgreedIn(book, people) /\ LittleIn(sync[r], reading[r], people) /\ IsGoing(y) => LittleIn(y, u, people)
    BY <1>1, <2>7, <2>8 DEF AloneIn
  <2> QED
    BY <1>2, <1>3, <1>7, <2>3, <2>6, <2>9, RunTurns
<1>5. CASE x.pc = "store"
  <2>1. Go(r, [x EXCEPT !.pc = "push", !.clean = FALSE])
    BY <1>1, <1>5 DEF RunFails
  <2>2. PICK pc, y : pc = "push" /\ y = SoilsOn(x, pc, FALSE)
    OBVIOUS
  <2>3. sync' = [sync EXCEPT ![r] = y]
    BY <2>1, <2>2 DEF Go, SoilsOn
  <2>4. pc \in RunSteps
    BY <2>2, StepNames
  <2>5. y \in Run /\ y.pc = pc /\ y.todo = x.todo /\ y.found = x.found /\ y.person = x.person /\ y.clean = FALSE
    BY <2>2, <2>4, SoilsOnRun
  <2>6. RunNamed(y, u, book, people)
    BY <1>2, <1>5, <2>2, <2>5 DEF RunNamed, Importing
  <2>7. ASSUME RunIn(x, u, book, people) PROVE RunIn(y, u, book, people)
    <3>1. LinksIn(y, book)
      BY <1>5, <2>2, <2>5, <2>7 DEF RunIn, LinksIn
    <3> QED
      BY <2>2, <2>5, <3>1 DEF RunIn
  <2>8. ~LittleIn(x, u, people)
    BY <1>5 DEF LittleIn
  <2>9. AloneIn(sync, reading, book, people) =>
                /\ RunIn(y, u, book, people)
                /\ AgreedIn(book, people) /\ LittleIn(sync[r], reading[r], people) /\ IsGoing(y) => LittleIn(y, u, people)
    BY <1>1, <2>7, <2>8 DEF AloneIn
  <2> QED
    BY <1>2, <1>3, <1>7, <2>3, <2>6, <2>9, RunTurns
<1>6. CASE x.pc # "push" /\ x.pc # "store"
  <2>1. Stop(r)
    BY <1>1, <1>6 DEF RunFails
  <2> QED
    BY <1>2, <1>3, <1>7, <2>1, RunStops
<1> QED
    BY <1>4, <1>5, <1>6

-------------------------------------------------------------------------------
(* Steps of a run that write to a book                                       *)

LEMMA RunWrites ==
    ASSUME BookParts, NEW r \in Syncs, NEW x, x = sync[r], IsGoing(x), NEW y, sync' = [sync EXCEPT ![r] = y],
           NEW u, u = reading[r], NEW v, ReadsOnly(r, v),
           NEW t, book' = t, BooksOK(t, people), DOMAIN book \subseteq DOMAIN t, RunNamed(y, v, t, people),
           OnceIn(book) /\ RunIn(x, u, book, people) =>
                /\ OnceIn(t) /\ RunIn(y, v, t, people)
                /\ AgreedIn(book, people) /\ LittleIn(x, u, people) => AgreedIn(t, people) /\ (IsGoing(y) => LittleIn(y, v, people)),
           UNCHANGED <<people, jobs, worker, edits, errors, met>>
    PROVE  BookParts'
<1>1. /\ BooksOK(book', people') /\ DOMAIN book \subseteq DOMAIN book' /\ DOMAIN people \subseteq DOMAIN people'
      /\ RunNamed(y, v, book', people') /\ errors' \in 0..MaxErrors /\ IsGoing(sync[r])
    BY DEF BookParts
<1>2. AloneIn(sync, reading, book, people) => OnceIn(book) /\ RunIn(x, u, book, people)
    BY DEF AloneIn
<1>3. AloneIn(sync, reading, book, people) =>
                /\ OnceIn(book') /\ RunIn(y, v, book', people')
                /\ AgreedIn(book, people) /\ LittleIn(sync[r], reading[r], people) =>
                        AgreedIn(book', people') /\ (IsGoing(y) => LittleIn(y, v, people'))
    BY <1>2
<1> QED
    BY <1>1, <1>3, RunMoves

(* A link written where there was none.                                      *)
LEMMA LinkWritten ==
    ASSUME NEW b, NEW p, BooksOK(b, p), NEW i \in DOMAIN b, NEW g \in DOMAIN p,
           NEW t, t = Put(b, i, Linking(b[i], g))
    PROVE  /\ BooksOK(t, p) /\ DOMAIN t = DOMAIN b /\ HereIn(t) = HereIn(b)
           /\ t[i].link = g /\ g # 0 /\ \A k \in DOMAIN b : k # i => t[k].link = b[k].link
           /\ \A k \in DOMAIN b : t[k].ids = b[k].ids /\ t[k].name = b[k].name
           /\ OnceIn(b) /\ (\A k \in HereIn(b) : b[k].link # g) => OnceIn(t)
           /\ b[i].link = 0 => \A h \in DOMAIN p : Both(b, p, h) => Both(t, p, h)
           /\ i \in HereIn(b) => Both(t, p, g)
           /\ AgreedIn(b, p) /\ b[i].link = 0 => AgreedIn(t, p)
<1>1. PICK c \in Contact : c = b[i]
    BY DEF BooksOK
<1>2. PICK e : e = Linking(c, g)
    OBVIOUS
<1>3. g \in Nat /\ g # 0 /\ DOMAIN p \subseteq Nat \ {0}
    BY BookNumbers
<1>4. e \in Contact /\ e.name = c.name /\ e.ids = c.ids /\ e.link = g /\ e.gone = c.gone
    BY <1>2, <1>3, LinkingContact
<1>5. t = Put(b, i, e)
    BY <1>1, <1>2
<1>6. ~e.gone => \A k \in HereIn(b) : k # i => e.ids \cap b[k].ids = {}
    BY <1>1, <1>4 DEF BooksOK, OwnedIn, HereIn
<1>7. BooksOK(t, p) /\ DOMAIN t = DOMAIN b /\ t[i] = e /\ \A k \in DOMAIN b : k # i => t[k] = b[k]
    BY <1>4, <1>5, <1>6, ContactChanged
<1>8. /\ t[i].link = g /\ \A k \in DOMAIN b : k # i => t[k].link = b[k].link
      /\ \A k \in DOMAIN b : t[k].ids = b[k].ids /\ t[k].name = b[k].name /\ t[k].gone = b[k].gone
    BY <1>1, <1>4, <1>7
<1>9. HereIn(t) = HereIn(b)
    BY <1>7, <1>8 DEF HereIn
<1>10. OnceIn(b) /\ (\A k \in HereIn(b) : b[k].link # g) => OnceIn(t)
    BY <1>8, <1>9 DEF OnceIn, HereIn
<1>11. ASSUME b[i].link = 0, NEW h \in DOMAIN p, Both(b, p, h) PROVE Both(t, p, h)
  <2>4. CASE p[h].name = Nameless
    BY <2>4 DEF Both
  <2>5. CASE p[h].name # Nameless
    <3>1. PICK k \in HereIn(b) : b[k].link = h \/ b[k].ids \cap p[h].ids # {}
      BY <1>11, <2>5 DEF Both
    <3>2. k \in HereIn(t) /\ k \in DOMAIN b /\ h # 0
      BY <1>3, <1>9, <3>1 DEF HereIn
    <3>3. t[k].link = h \/ t[k].ids \cap p[h].ids # {}
      BY <1>8, <1>11, <3>1, <3>2
    <3> QED
      BY <3>2, <3>3 DEF Both
  <2> QED
    BY <2>4, <2>5
<1>12. i \in HereIn(b) => Both(t, p, g)
    BY <1>8, <1>9 DEF Both
<1>13. ASSUME AgreedIn(b, p), b[i].link = 0 PROVE AgreedIn(t, p)
  <2>1. \A h \in ThereIn(p) : Both(t, p, h)
    BY <1>11, <1>13 DEF AgreedIn, ThereIn
  <2>2. \A k \in HereIn(t) : t[k].link # 0 \/ t[k].name = Placeholder
    BY <1>3, <1>8, <1>9, <1>13 DEF AgreedIn, HereIn
  <2> QED
    BY <2>1, <2>2 DEF AgreedIn
<1> QED
    BY <1>3, <1>7, <1>8, <1>9, <1>10, <1>11, <1>12, <1>13

(* The person is linked to the contact of the same name, or to the new one.  *)
LEMMA LinkSteps ==
    ASSUME BookParts, NEW r \in Syncs, LinkSameName(r) \/ MarkImported(r)
    PROVE  BookParts'
<1>1. PICK x \in Run, u \in Reading : x = sync[r] /\ u = reading[r]
    BY DEF BookParts
<1>2. PICK i, g : i = x.found /\ g = x.person
    OBVIOUS
<1>0. PICK pc : /\ (x.pc = "same" /\ pc = "import") \/ (x.pc = "mark" /\ (pc = "import" \/ pc = "identify"))
                /\ OnContact(r, i, [book[i] EXCEPT !.link = g], pc)
  <2>1. CASE LinkSameName(r)
    BY <1>1, <1>2, <2>1 DEF LinkSameName
  <2>2. CASE MarkImported(r)
    <3>1. PICK pc : pc = IF u.left = {} THEN "import" ELSE "identify"
      OBVIOUS
    <3> QED
      BY <1>1, <1>2, <2>2, <3>1 DEF MarkImported
  <2> QED
    BY <2>1, <2>2
<1>3. IsGoing(x) /\ UNCHANGED <<people, reading, jobs, worker, edits, errors, met>>
    BY <1>0 DEF OnContact, IsGoing
<1>30. ReadsOnly(r, u)
    BY <1>1, <1>3, ReadsNothing
<1>4. RunNamed(x, u, book, people) /\ BooksOK(book, people) /\ i \in DOMAIN book /\ g \in DOMAIN people /\ pc \in RunSteps
    BY <1>0, <1>1, <1>2, <1>3, StepNames DEF BookParts, RunNamed
<1>5. CASE book[i].gone
  <2>1. Stop(r) /\ book' = book /\ errors' \in 0..MaxErrors
    BY <1>0, <1>5 DEF OnContact, BookParts
  <2> QED
    BY <1>1, <1>3, <1>30, <2>1, RunStops
<1>6. CASE ~book[i].gone
  <2>1. PICK y, t : y = Keeps(x, pc, i) /\ t = book'
    OBVIOUS
  <2>2. sync' = [sync EXCEPT ![r] = y] /\ t = Put(book, i, Linking(book[i], g))
    BY <1>0, <1>1, <1>6, <2>1 DEF OnContact, Go, Keeps, Linking, Put
  <2>3. i \in Nat
    BY <1>4, BookNumbers
  <2>4. y \in Run /\ y.pc = pc /\ y.todo = x.todo /\ y.found = i /\ y.person = g /\ y.clean = x.clean
    BY <1>2, <1>4, <2>1, <2>3, KeepsRun
  <2>5. i \in HereIn(book)
    BY <1>4, <1>6 DEF HereIn
  <2>6. /\ BooksOK(t, people) /\ DOMAIN t = DOMAIN book /\ t[i].ids = book[i].ids
        /\ OnceIn(book) /\ (\A k \in HereIn(book) : book[k].link # g) => OnceIn(t)
        /\ book[i].link = 0 => \A h \in DOMAIN people : Both(book, people, h) => Both(t, people, h)
        /\ Both(t, people, g)
    BY <1>4, <2>2, <2>5, LinkWritten
  <2>7. RunNamed(y, u, t, people)
    <3>1. i # 0 /\ g # 0
      BY <1>4, BookNumbers
    <3> QED
      BY <1>0, <1>2, <1>3, <1>4, <2>4, <2>6, <3>1 DEF RunNamed, Importing
  <2>8. ASSUME OnceIn(book), RunIn(x, u, book, people) PROVE OnceIn(t) /\ RunIn(y, u, t, people)
    <3>1. book[i].link = 0 /\ \A k \in HereIn(book) : book[k].link # g
      BY <1>0, <1>2, <2>8 DEF RunIn, LinksIn
    <3>2. LinksIn(y, t)
      BY <1>0, <2>4 DEF LinksIn
    <3>3. ASSUME y.clean PROVE FreshIn(y, u, people) /\ ProgressIn(y, u, t, people)
      <4>1. /\ FreshIn(x, u, people)
            /\ \A h \in ThereIn(people) : h \in x.todo \/ h \in u.rest \/ Both(book, people, h) \/ h = g
        BY <1>0, <1>2, <2>4, <2>8, <3>3 DEF RunIn, ProgressIn, Importing
      <4>2. \A h \in ThereIn(people) : h \in y.todo \/ h \in u.rest \/ Both(t, people, h)
        BY <2>4, <2>6, <3>1, <4>1 DEF ThereIn
      <4>3. FreshIn(y, u, people)
        BY <1>0, <2>4, <4>1 DEF FreshIn, Importing
      <4> QED
        BY <1>0, <2>4, <4>2, <4>3 DEF ProgressIn
    <3> QED
      BY <1>0, <2>4, <2>6, <2>8, <3>1, <3>2, <3>3 DEF RunIn
  <2>9. ~LittleIn(x, u, people)
    BY <1>0 DEF LittleIn
  <2> QED
    BY <1>1, <1>3, <1>30, <2>1, <2>2, <2>6, <2>7, <2>8, <2>9, RunWrites
<1> QED
    BY <1>5, <1>6

LEMMA LinkKnownStep ==
    ASSUME BookParts, NEW r \in Syncs, LinkKnown(r)
    PROVE  BookParts'
<1>1. PICK x \in Run, u \in Reading : x = sync[r] /\ u = reading[r]
    BY DEF BookParts
<1>2. PICK i, g, pc, t : i = x.found /\ g = x.person /\ pc = (IF x.rename THEN "rename" ELSE "import") /\ t = book'
    OBVIOUS
<1>3. /\ x.pc = "link" /\ IsGoing(x) /\ UNCHANGED <<people, reading, jobs, worker, edits, errors, met>>
      /\ \/ (book[i].gone \/ book[i].link # 0) /\ t = book
         \/ ~book[i].gone /\ book[i].link = 0 /\ t = Put(book, i, Linking(book[i], g))
    BY <1>1, <1>2 DEF LinkKnown, IsGoing, Put, Linking
<1>30. ReadsOnly(r, u)
    BY <1>1, <1>3, ReadsNothing
<1>4. pc = "rename" \/ pc = "import"
    BY <1>2
<1>5. RunNamed(x, u, book, people) /\ BooksOK(book, people) /\ i \in DOMAIN book /\ g \in DOMAIN people /\ pc \in RunSteps
    BY <1>1, <1>2, <1>3, <1>4, StepNames DEF BookParts, RunNamed
<1>6. PICK y : y = Goes(x, pc)
    OBVIOUS
<1>7. sync' = [sync EXCEPT ![r] = y]
    BY <1>1, <1>2, <1>6 DEF LinkKnown, Go, Goes
<1>8. y \in Run /\ y.pc = pc /\ y.todo = x.todo /\ y.found = i /\ y.person = g /\ y.clean = x.clean
    BY <1>2, <1>5, <1>6, GoesRun
<1>9. /\ BooksOK(t, people) /\ DOMAIN t = DOMAIN book /\ (t[i].link # 0 \/ t[i].gone)
      /\ OnceIn(book) /\ (\A k \in HereIn(book) : book[k].link # g) => OnceIn(t)
      /\ \A h \in DOMAIN people : Both(book, people, h) => Both(t, people, h)
      /\ AgreedIn(book, people) => AgreedIn(t, people)
  <2>1. CASE (book[i].gone \/ book[i].link # 0) /\ t = book
    BY <1>5, <2>1
  <2>2. CASE ~book[i].gone /\ book[i].link = 0 /\ t = Put(book, i, Linking(book[i], g))
    <3>1. i \in HereIn(book)
      BY <1>5, <2>2 DEF HereIn
    <3>2. /\ BooksOK(t, people) /\ DOMAIN t = DOMAIN book /\ t[i].link = g /\ g # 0
          /\ OnceIn(book) /\ (\A k \in HereIn(book) : book[k].link # g) => OnceIn(t)
          /\ book[i].link = 0 => \A h \in DOMAIN people : Both(book, people, h) => Both(t, people, h)
          /\ AgreedIn(book, people) /\ book[i].link = 0 => AgreedIn(t, people)
      BY <1>5, <2>2, LinkWritten
    <3> QED
      BY <2>2, <3>2
  <2> QED
    BY <1>3, <2>1, <2>2
<1>10. RunNamed(y, u, t, people)
    BY <1>2, <1>3, <1>4, <1>5, <1>8, <1>9 DEF RunNamed, Importing
<1>11. ASSUME OnceIn(book), RunIn(x, u, book, people) PROVE OnceIn(t) /\ RunIn(y, u, t, people)
  <2>1. \A k \in HereIn(book) : book[k].link # g
    BY <1>2, <1>3, <1>11 DEF RunIn, LinksIn
  <2>2. LinksIn(y, t)
    BY <1>4, <1>8, <1>9 DEF LinksIn
  <2>3. ASSUME y.clean PROVE FreshIn(y, u, people) /\ ProgressIn(y, u, t, people)
    <3>1. FreshIn(x, u, people) /\ \A h \in ThereIn(people) : h \in x.todo \/ h \in u.rest \/ Both(book, people, h)
      BY <1>3, <1>8, <1>11, <2>3 DEF RunIn, ProgressIn, Importing
    <3>2. \A h \in ThereIn(people) : h \in y.todo \/ h \in u.rest \/ Both(t, people, h)
      BY <1>8, <1>9, <3>1 DEF ThereIn
    <3>3. FreshIn(y, u, people)
      BY <1>3, <1>8, <3>1 DEF FreshIn, Importing
    <3> QED
      BY <1>4, <1>8, <3>2, <3>3 DEF ProgressIn
  <2> QED
    BY <1>4, <1>8, <1>9, <1>11, <2>1, <2>2, <2>3 DEF RunIn
<1>12. LittleIn(x, u, people) => LittleIn(y, u, people)
    BY <1>3, <1>4, <1>8 DEF LittleIn, FreshIn, Importing
<1>13. DOMAIN book \subseteq DOMAIN t /\ book' = t
    BY <1>2, <1>9
<1> QED
    BY <1>1, <1>3, <1>7, <1>9, <1>10, <1>11, <1>12, <1>13, <1>30, RunWrites

LEMMA SnapEntry ==
    ASSUME NEW u \in Reading, NEW g \in DOMAIN u.snap
    PROVE  /\ u.snap[g].ids \in SUBSET Identities
           /\ u.snap[g].name # Nameless => u.snap[g].name \in Names \union {Placeholder}
<1>1. u.snap \in Seq(CopyRow)
    BY ReadingParts
<1>2. u.snap[g] \in CopyRow
    BY <1>1
<1> QED
    BY <1>2 DEF CopyRow

LEMMA FillNameStep ==
    ASSUME BookParts, NEW r \in Syncs, FillName(r)
    PROVE  BookParts'
<1>1. PICK x \in Run, u \in Reading : x = sync[r] /\ u = reading[r]
    BY DEF BookParts
<1>2. PICK i, name, pc, t : i = x.found /\ name = u.snap[x.person].name /\ pc = "import" /\ t = book'
    OBVIOUS
<1>3. /\ x.pc = "rename" /\ IsGoing(x) /\ OnContact(r, i, [book[i] EXCEPT !.name = name], pc)
      /\ UNCHANGED <<people, reading, jobs, worker, edits, errors, met>>
    BY <1>1, <1>2 DEF FillName, OnContact, IsGoing
<1>30. ReadsOnly(r, u)
    BY <1>1, <1>3, ReadsNothing
<1>4. RunNamed(x, u, book, people) /\ BooksOK(book, people) /\ i \in DOMAIN book /\ x.person \in DOMAIN people /\ pc \in RunSteps
    BY <1>1, <1>2, <1>3, StepNames DEF BookParts, RunNamed
<1>5. CASE book[i].gone
  <2>1. Stop(r) /\ book' = book /\ errors' \in 0..MaxErrors
    BY <1>3, <1>5 DEF OnContact, BookParts
  <2> QED
    BY <1>1, <1>3, <1>30, <2>1, RunStops
<1>6. CASE ~book[i].gone
  <2>0. PICK c \in Contact : c = book[i]
    BY <1>4 DEF BooksOK
  <2>1. PICK y, e : y = Keeps(x, pc, i) /\ e = Naming(c, name)
    OBVIOUS
  <2>2. sync' = [sync EXCEPT ![r] = y] /\ t = Put(book, i, e)
    BY <1>1, <1>2, <1>3, <1>6, <2>0, <2>1 DEF OnContact, Go, Keeps, Naming, Put
  <2>3. i \in Nat
    BY <1>4, BookNumbers
  <2>4. y \in Run /\ y.pc = pc /\ y.todo = x.todo /\ y.found = i /\ y.person = x.person /\ y.clean = x.clean
    BY <1>2, <1>4, <2>1, <2>3, KeepsRun
  <2>5. name \in Names \union {Placeholder}
    <3>1. x.person \in DOMAIN u.snap /\ name # Nameless
      BY <1>2, <1>3, <1>4 DEF RunNamed
    <3> QED
      BY <1>2, <3>1, SnapEntry
  <2>6. e \in Contact /\ e.ids = c.ids /\ e.link = c.link /\ e.gone = c.gone
    BY <2>1, <2>5, NamingContact
  <2>7. /\ ~e.gone => \A k \in HereIn(book) : k # i => e.ids \cap book[k].ids = {}
        /\ e.link = 0 \/ e.link \in DOMAIN people
    BY <1>4, <2>0, <2>6 DEF BooksOK, OwnedIn, HereIn
  <2>8. BooksOK(t, people) /\ DOMAIN t = DOMAIN book /\ t[i] = e /\ \A k \in DOMAIN book : k # i => t[k] = book[k]
    BY <1>4, <2>2, <2>6, <2>7, ContactChanged
  <2>9. /\ \A k \in DOMAIN book : t[k].link = book[k].link /\ t[k].ids = book[k].ids /\ t[k].gone = book[k].gone
        /\ \A k \in DOMAIN book : k # i => t[k].name = book[k].name
    BY <2>0, <2>6, <2>8
  <2>10. HereIn(t) = HereIn(book)
    BY <2>8, <2>9 DEF HereIn
  <2>11. \A h : Both(book, people, h) => Both(t, people, h)
    BY <2>9, <2>10 DEF Both, HereIn
  <2>12. RunNamed(y, u, t, people)
    BY <1>2, <1>3, <1>4, <2>4, <2>8 DEF RunNamed, Importing
  <2>13. ASSUME OnceIn(book), RunIn(x, u, book, people)
         PROVE  OnceIn(t) /\ RunIn(y, u, t, people) /\ (AgreedIn(book, people) => AgreedIn(t, people))
    <3>0. book[i].link # 0
      BY <1>2, <1>3, <1>6, <2>13 DEF RunIn, LinksIn
    <3>1. OnceIn(t)
      BY <2>9, <2>10, <2>13 DEF OnceIn, HereIn
    <3>2. LinksIn(y, t)
      BY <1>2, <2>4 DEF LinksIn
    <3>3. ASSUME y.clean PROVE FreshIn(y, u, people) /\ ProgressIn(y, u, t, people)
      <4>1. FreshIn(x, u, people) /\ \A h \in ThereIn(people) : h \in x.todo \/ h \in u.rest \/ Both(book, people, h)
        BY <1>3, <2>4, <2>13, <3>3 DEF RunIn, ProgressIn, Importing
      <4>2. \A h \in ThereIn(people) : h \in y.todo \/ h \in u.rest \/ Both(t, people, h)
        BY <2>4, <2>11, <4>1
      <4>3. FreshIn(y, u, people)
        BY <1>3, <2>4, <4>1 DEF FreshIn, Importing
      <4> QED
        BY <1>2, <2>4, <4>2, <4>3 DEF ProgressIn
    <3>4. ASSUME AgreedIn(book, people) PROVE AgreedIn(t, people)
      <4>1. \A h \in ThereIn(people) : Both(t, people, h)
        BY <2>11, <3>4 DEF AgreedIn
      <4>2. \A k \in HereIn(t) : t[k].link # 0 \/ t[k].name = Placeholder
        BY <2>9, <2>10, <3>0, <3>4 DEF AgreedIn, HereIn
      <4> QED
        BY <4>1, <4>2 DEF AgreedIn
    <3> QED
      BY <1>2, <2>4, <3>1, <3>2, <3>3, <3>4 DEF RunIn
  <2>14. LittleIn(x, u, people) => LittleIn(y, u, people)
    BY <1>2, <1>3, <2>4 DEF LittleIn, FreshIn, Importing
  <2>15. DOMAIN book \subseteq DOMAIN t /\ book' = t
    BY <1>2, <2>8
  <2> QED
    BY <1>1, <1>3, <1>30, <2>2, <2>8, <2>12, <2>13, <2>14, <2>15, RunWrites
<1> QED
    BY <1>5, <1>6

LEMMA ImportPersonStep ==
    ASSUME BookParts, NEW r \in Syncs, ImportPerson(r)
    PROVE  BookParts'
<1>1. PICK x \in Run, u \in Reading : x = sync[r] /\ u = reading[r]
    BY DEF BookParts
<1>2. PICK g, n, pc, t : g = x.person /\ n = Len(book) + 1 /\ pc = "mark" /\ t = book'
    OBVIOUS
<1>3. x.pc = "create" /\ IsGoing(x) /\ UNCHANGED <<people, jobs, worker, edits, errors, met>>
    BY <1>1 DEF ImportPerson, IsGoing
<1>4. RunNamed(x, u, book, people) /\ BooksOK(book, people) /\ g \in DOMAIN people /\ g # 0 /\ pc \in RunSteps
    BY <1>1, <1>2, <1>3, StepNames DEF BookParts, RunNamed
<1>17. PICK e : e = u.snap[g]
    OBVIOUS
<1>18. e.ids \in SUBSET Identities /\ e.name \in Names \union {Placeholder}
  <2>1. g \in DOMAIN u.snap /\ e.name # Nameless
    BY <1>2, <1>3, <1>4, <1>17 DEF RunNamed
  <2> QED
    BY <1>17, <2>1, SnapEntry
<1>5. [name |-> e.name, ids |-> {}, link |-> 0, gone |-> FALSE] \in Contact
    BY <1>18 DEF Contact
<1>6. PICK c \in Contact : /\ c = [name |-> e.name, ids |-> {}, link |-> 0, gone |-> FALSE]
                           /\ c.link = 0 /\ c.ids = {} /\ ~c.gone
    BY <1>5
<1>7. t = Append(book, c)
    BY <1>1, <1>2, <1>6, <1>17 DEF ImportPerson
<1>19. PICK snap, rest, left, page, v :
            /\ snap = u.snap /\ rest = u.rest /\ left = e.ids /\ page = u.page /\ v = ReadOf(snap, rest, left, page)
    OBVIOUS
<1>20. v \in Reading /\ v.snap = u.snap /\ v.rest = u.rest
    BY <1>18, <1>19, ReadOfReading, ReadingParts
<1>21. reading' = [reading EXCEPT ![r] = v]
  <2>1. PICK w : w = [u EXCEPT !.left = e.ids]
    OBVIOUS
  <2>2. u = ReadOf(u.snap, u.rest, u.left, u.page)
    BY ReadingParts
  <2>3. w = v
    BY <1>19, <2>1, <2>2 DEF ReadOf
  <2> QED
    BY <1>1, <1>2, <1>17, <2>1, <2>3 DEF Retains, ImportPerson
<1>22. ReadsOnly(r, v)
    BY <1>20, <1>21, ReadsAnew
<1>8. PICK y : y = Keeps(x, pc, n)
    OBVIOUS
<1>9. sync' = [sync EXCEPT ![r] = y]
    BY <1>1, <1>2, <1>8 DEF ImportPerson, Go, Keeps
<1>10. BooksOK(t, people)
    BY <1>4, <1>6, <1>7, ContactAdded
<1>11. /\ DOMAIN book \subseteq DOMAIN t /\ n \in DOMAIN t /\ n \notin DOMAIN book /\ n \in Nat /\ n # 0
       /\ t[n] = c /\ (\A k \in DOMAIN book : t[k] = book[k]) /\ \A k \in DOMAIN t : k \in DOMAIN book \/ k = n
  <2>1. book \in Seq(Contact)
    BY <1>4 DEF BooksOK
  <2> QED
    BY <1>2, <1>7, <2>1, EntryAppended
<1>12. y \in Run /\ y.pc = pc /\ y.todo = x.todo /\ y.found = n /\ y.person = g /\ y.clean = x.clean
    BY <1>2, <1>4, <1>8, <1>11, KeepsRun
<1>13. RunNamed(y, v, t, people)
    BY <1>2, <1>3, <1>4, <1>11, <1>12, <1>20 DEF RunNamed, Importing
<1>14. ASSUME OnceIn(book), RunIn(x, u, book, people) PROVE OnceIn(t) /\ RunIn(y, v, t, people)
  <2>1. HereIn(t) = HereIn(book) \union {n} /\ \A k \in HereIn(book) : k # n /\ t[k] = book[k]
    BY <1>6, <1>11 DEF HereIn
  <2>2. OnceIn(t)
    BY <1>6, <1>11, <1>14, <2>1 DEF OnceIn
  <2>3. \A k \in HereIn(book) : book[k].link # g
    BY <1>2, <1>3, <1>14 DEF RunIn, LinksIn
  <2>4. LinksIn(y, t)
    <3>1. \A k \in HereIn(t) : t[k].link # g
      BY <1>4, <1>6, <1>11, <2>1, <2>3
    <3> QED
      BY <1>2, <1>6, <1>11, <1>12, <3>1 DEF LinksIn
  <2>5. ASSUME y.clean PROVE FreshIn(y, v, people) /\ ProgressIn(y, v, t, people)
    <3>1. /\ FreshIn(x, u, people)
          /\ \A h \in ThereIn(people) : h \in x.todo \/ h \in u.rest \/ Both(book, people, h) \/ h = g
      BY <1>2, <1>3, <1>12, <1>14, <2>5 DEF RunIn, ProgressIn, Importing
    <3>2. \A h : Both(book, people, h) => Both(t, people, h)
      BY <2>1 DEF Both
    <3>3. \A h \in ThereIn(people) : h \in y.todo \/ h \in v.rest \/ Both(t, people, h) \/ h = y.person
      BY <1>12, <1>20, <3>1, <3>2
    <3>4. FreshIn(y, v, people)
      BY <1>3, <1>12, <1>20, <3>1 DEF FreshIn, Importing
    <3> QED
      BY <1>2, <1>12, <3>3, <3>4 DEF ProgressIn
  <2> QED
    BY <1>2, <1>12, <2>2, <2>4, <2>5 DEF RunIn
<1>15. ~LittleIn(x, u, people)
    BY <1>3 DEF LittleIn
<1>16. book' = t
    BY <1>2
<1> QED
    BY <1>1, <1>3, <1>9, <1>10, <1>11, <1>13, <1>14, <1>15, <1>16, <1>22, RunWrites

LEMMA IdentifyStep ==
    ASSUME BookParts, NEW r \in Syncs, NEW z \in Identities, IdentifyImported(r, z)
    PROVE  BookParts'
<1>1. PICK x \in Run, u \in Reading : x = sync[r] /\ u = reading[r]
    BY DEF BookParts
<1>2. PICK i, pc, t : i = x.found /\ pc = (IF u.left = {z} THEN "import" ELSE "identify") /\ t = book'
    OBVIOUS
<1>3. x.pc = "identify" /\ IsGoing(x) /\ UNCHANGED <<people, jobs, worker, edits, errors, met>>
    BY <1>1 DEF IdentifyImported, IsGoing
<1>4. /\ RunNamed(x, u, book, people) /\ BooksOK(book, people) /\ i \in DOMAIN book /\ x.person \in DOMAIN people
      /\ pc \in RunSteps /\ (pc = "import" \/ pc = "identify")
    BY <1>1, <1>2, <1>3, StepNames DEF BookParts, RunNamed
<1>8. PICK snap, rest, left, page, v :
            /\ snap = u.snap /\ rest = u.rest /\ left = u.left \ {z} /\ page = u.page /\ v = ReadOf(snap, rest, left, page)
    OBVIOUS
<1>9. v \in Reading /\ v.snap = u.snap /\ v.rest = u.rest
  <2>1. left \in SUBSET Identities
    BY <1>8, ReadingParts
  <2> QED
    BY <1>8, <2>1, ReadOfReading, ReadingParts
<1>10. reading' = [reading EXCEPT ![r] = v]
  <2>1. PICK w : w = [u EXCEPT !.left = @ \ {z}]
    OBVIOUS
  <2>2. u = ReadOf(u.snap, u.rest, u.left, u.page)
    BY ReadingParts
  <2>3. w = v
    BY <1>8, <2>1, <2>2 DEF ReadOf
  <2> QED
    BY <1>1, <2>1, <2>3 DEF Retains, IdentifyImported
<1>11. ReadsOnly(r, v)
    BY <1>9, <1>10, ReadsAnew
<1>5. CASE Stop(r) /\ UNCHANGED book
  <2>1. errors' \in 0..MaxErrors
    BY <1>3 DEF BookParts
  <2> QED
    BY <1>1, <1>3, <1>5, <1>9, <1>11, <2>1, RunStops
<1>6. CASE /\ ~book[i].gone /\ Owner(z) \ {i} = {}
           /\ book' = [book EXCEPT ![i].ids = @ \union {z}] /\ Go(r, [x EXCEPT !.pc = pc])
  <2>0. PICK c \in Contact : c = book[i]
    BY <1>4 DEF BooksOK
  <2>3. PICK ids : ids = c.ids \union {z}
    OBVIOUS
  <2>1. PICK y, e : y = Goes(x, pc) /\ e = Holding(c, ids)
    OBVIOUS
  <2>2. sync' = [sync EXCEPT ![r] = y] /\ t = Put(book, i, e)
    BY <1>2, <1>6, <2>0, <2>1, <2>3 DEF Go, Goes, Holding, Put
  <2>4. y \in Run /\ y.pc = pc /\ y.todo = x.todo /\ y.found = i /\ y.person = x.person /\ y.clean = x.clean
    BY <1>2, <1>4, <2>1, GoesRun
  <2>5. ids \in SUBSET Identities
    BY <2>3 DEF Contact
  <2>6. e \in Contact /\ e.name = c.name /\ e.ids = ids /\ e.link = c.link /\ e.gone = c.gone
    BY <2>1, <2>5, HoldingContact
  <2>7. /\ ~e.gone => \A k \in HereIn(book) : k # i => e.ids \cap book[k].ids = {}
        /\ e.link = 0 \/ e.link \in DOMAIN people
    <3>1. ASSUME NEW k \in HereIn(book), k # i PROVE e.ids \cap book[k].ids = {}
      <4>1. z \notin book[k].ids
        BY <1>6, <3>1, BookWords DEF Owner
      <4>2. i \in HereIn(book)
        BY <1>4, <1>6 DEF HereIn
      <4>3. c.ids \cap book[k].ids = {}
        BY <1>4, <2>0, <3>1, <4>2 DEF BooksOK, OwnedIn
      <4> QED
        BY <2>3, <2>6, <4>1, <4>3
    <3>2. e.link = 0 \/ e.link \in DOMAIN people
      BY <1>4, <2>0, <2>6 DEF BooksOK
    <3> QED
      BY <3>1, <3>2
  <2>8. BooksOK(t, people) /\ DOMAIN t = DOMAIN book /\ t[i] = e /\ \A k \in DOMAIN book : k # i => t[k] = book[k]
    BY <1>4, <2>2, <2>6, <2>7, ContactChanged
  <2>9. \A k \in DOMAIN book : t[k].link = book[k].link /\ t[k].gone = book[k].gone /\ book[k].ids \subseteq t[k].ids
    BY <2>0, <2>3, <2>6, <2>8
  <2>10. HereIn(t) = HereIn(book)
    BY <2>8, <2>9 DEF HereIn
  <2>11. \A h : Both(book, people, h) => Both(t, people, h)
    <3> TAKE h
    <3>1. \A k \in HereIn(book) : k \in DOMAIN book
      BY DEF HereIn
    <3>2. \A k \in HereIn(book) : book[k].ids \cap people[h].ids # {} => t[k].ids \cap people[h].ids # {}
      BY <2>9, <3>1
    <3> QED
      BY <2>9, <2>10, <3>1, <3>2 DEF Both
  <2>12. RunNamed(y, v, t, people)
    BY <1>2, <1>3, <1>4, <1>9, <2>4, <2>8 DEF RunNamed, Importing
  <2>13. ASSUME OnceIn(book), RunIn(x, u, book, people) PROVE OnceIn(t) /\ RunIn(y, v, t, people)
    <3>1. OnceIn(t)
      BY <2>9, <2>10, <2>13 DEF OnceIn, HereIn
    <3>2. LinksIn(y, t)
      BY <1>4, <2>4 DEF LinksIn
    <3>3. ASSUME y.clean PROVE FreshIn(y, v, people) /\ ProgressIn(y, v, t, people)
      <4>1. FreshIn(x, u, people) /\ \A h \in ThereIn(people) : h \in x.todo \/ h \in u.rest \/ Both(book, people, h)
        BY <1>3, <2>4, <2>13, <3>3 DEF RunIn, ProgressIn, Importing
      <4>2. \A h \in ThereIn(people) : h \in y.todo \/ h \in v.rest \/ Both(t, people, h)
        BY <1>9, <2>4, <2>11, <4>1
      <4>3. FreshIn(y, v, people)
        BY <1>3, <1>9, <2>4, <4>1 DEF FreshIn, Importing
      <4> QED
        BY <1>4, <2>4, <4>2, <4>3 DEF ProgressIn
    <3> QED
      BY <1>4, <2>4, <3>1, <3>2, <3>3 DEF RunIn
  <2>14. ~LittleIn(x, u, people)
    BY <1>3 DEF LittleIn
  <2>15. DOMAIN book \subseteq DOMAIN t /\ book' = t
    BY <1>2, <2>8
  <2> QED
    BY <1>1, <1>3, <1>11, <2>2, <2>8, <2>12, <2>13, <2>14, <2>15, RunWrites
<1>7. \/ Stop(r) /\ UNCHANGED book
      \/ /\ ~book[i].gone /\ Owner(z) \ {i} = {}
         /\ book' = [book EXCEPT ![i].ids = @ \union {z}] /\ Go(r, [x EXCEPT !.pc = pc])
    BY <1>1, <1>2 DEF IdentifyImported
<1> QED
    BY <1>5, <1>6, <1>7

LEMMA StoreLinkStep ==
    ASSUME BookParts, NEW r \in Syncs, StoreLink(r)
    PROVE  BookParts'
<1>1. PICK x \in Run, u \in Reading : x = sync[r] /\ u = reading[r]
    BY DEF BookParts
<1>2. PICK i, g, pc, t : i = x.found /\ g = x.person /\ pc = "push" /\ t = book'
    OBVIOUS
<1>3. /\ x.pc = "store" /\ IsGoing(x) /\ UNCHANGED <<people, reading, jobs, worker, edits, errors, met>>
      /\ \/ book[i].gone /\ t = book
         \/ ~book[i].gone /\ t = Put(book, i, Linking(book[i], g))
    BY <1>1, <1>2 DEF StoreLink, IsGoing, Put, Linking
<1>30. ReadsOnly(r, u)
    BY <1>1, <1>3, ReadsNothing
<1>4. RunNamed(x, u, book, people) /\ BooksOK(book, people) /\ i \in DOMAIN book /\ g \in DOMAIN people /\ pc \in RunSteps
    BY <1>1, <1>2, <1>3, StepNames DEF BookParts, RunNamed
<1>5. PICK y : y = Goes(x, pc)
    OBVIOUS
<1>6. sync' = [sync EXCEPT ![r] = y]
    BY <1>1, <1>2, <1>5 DEF StoreLink, Go, Goes
<1>7. y \in Run /\ y.pc = pc /\ y.todo = x.todo /\ y.found = i /\ y.person = g /\ y.clean = x.clean
    BY <1>2, <1>4, <1>5, GoesRun
<1>8. /\ BooksOK(t, people) /\ DOMAIN t = DOMAIN book /\ HereIn(t) = HereIn(book)
      /\ \A k \in DOMAIN book : k # i => t[k].link = book[k].link
      /\ \A k \in DOMAIN book : t[k].name = book[k].name
      /\ OnceIn(book) /\ (\A k \in HereIn(book) : book[k].link # g) => OnceIn(t)
      /\ i \in HereIn(book) => t[i].link # 0 /\ Both(t, people, g)
      /\ book[i].link = 0 => \A h \in DOMAIN people : Both(book, people, h) => Both(t, people, h)
  <2>1. CASE book[i].gone /\ t = book
    BY <1>4, <2>1 DEF HereIn
  <2>2. CASE ~book[i].gone /\ t = Put(book, i, Linking(book[i], g))
    <3>2. /\ BooksOK(t, people) /\ DOMAIN t = DOMAIN book /\ HereIn(t) = HereIn(book)
          /\ t[i].link = g /\ g # 0 /\ \A k \in DOMAIN book : k # i => t[k].link = book[k].link
          /\ \A k \in DOMAIN book : t[k].ids = book[k].ids /\ t[k].name = book[k].name
          /\ OnceIn(book) /\ (\A k \in HereIn(book) : book[k].link # g) => OnceIn(t)
          /\ book[i].link = 0 => \A h \in DOMAIN people : Both(book, people, h) => Both(t, people, h)
          /\ i \in HereIn(book) => Both(t, people, g)
      BY <1>4, <2>2, LinkWritten
    <3> QED
      BY <3>2
  <2> QED
    BY <1>3, <2>1, <2>2
<1>9. RunNamed(y, u, t, people)
    BY <1>2, <1>3, <1>4, <1>7, <1>8 DEF RunNamed, Importing
<1>10. ASSUME OnceIn(book), RunIn(x, u, book, people) PROVE OnceIn(t) /\ RunIn(y, u, t, people)
  <2>1. /\ \A k \in HereIn(book) : book[k].link # g
        /\ book[i].link = 0 /\ \A k \in x.todo : book[k].link = 0 /\ k # i
    BY <1>2, <1>3, <1>10 DEF RunIn, LinksIn
  <2>2. x.todo \subseteq DOMAIN book
    BY <1>3, <1>4 DEF RunNamed
  <2>3. LinksIn(y, t)
    <3>1. \A k \in y.todo : t[k].link = 0
      BY <1>7, <1>8, <2>1, <2>2
    <3> QED
      BY <1>2, <1>7, <3>1 DEF LinksIn
  <2>4. ASSUME y.clean PROVE FreshIn(y, u, people) /\ ProgressIn(y, u, t, people)
    <3>1. /\ x.todo \subseteq HereIn(book) /\ i \in HereIn(book)
          /\ \A h \in ThereIn(people) : Both(book, people, h) \/ h = g
          /\ \A k \in HereIn(book) : book[k].link # 0 \/ book[k].name = Placeholder \/ k \in x.todo \/ k = i
      BY <1>2, <1>3, <1>7, <1>10, <2>4 DEF RunIn, ProgressIn
    <3>2. \A h \in ThereIn(people) : Both(t, people, h)
      BY <1>8, <2>1, <3>1 DEF ThereIn
    <3>3. \A k \in HereIn(t) : t[k].link # 0 \/ t[k].name = Placeholder \/ k \in y.todo
      BY <1>7, <1>8, <3>1 DEF HereIn
    <3>4. FreshIn(y, u, people)
      BY <1>2, <1>7 DEF FreshIn, Importing
    <3> QED
      BY <1>2, <1>7, <1>8, <3>1, <3>2, <3>3, <3>4 DEF ProgressIn, Importing
  <2> QED
    BY <1>2, <1>7, <1>8, <1>10, <2>1, <2>3, <2>4 DEF RunIn
<1>11. ~LittleIn(x, u, people)
    BY <1>3 DEF LittleIn
<1>12. DOMAIN book \subseteq DOMAIN t /\ book' = t
    BY <1>2, <1>8
<1> QED
    BY <1>1, <1>3, <1>6, <1>8, <1>9, <1>10, <1>11, <1>12, <1>30, RunWrites

LEMMA PushContactStep ==
    ASSUME BookParts, NEW r \in Syncs, NEW i \in DOMAIN book, PushContact(r, i)
    PROVE  BookParts'
<1>1. PICK x \in Run, u \in Reading : x = sync[r] /\ u = reading[r]
    BY DEF BookParts
<1>2. PICK n, pc, todo, q : n = Len(people) + 1 /\ pc = "store" /\ todo = x.todo \ {i} /\ q = people'
    OBVIOUS
<1>3. x.pc = "push" /\ IsGoing(x) /\ i \in x.todo /\ UNCHANGED <<book, reading, jobs, worker, edits, errors, met>>
    BY <1>1 DEF PushContact, IsGoing
<1>4. /\ RunNamed(x, u, book, people) /\ BooksOK(book, people) /\ pc \in RunSteps /\ i \in Nat /\ i # 0
      /\ todo \in SUBSET Nat
    BY <1>1, <1>2, <1>3, StepNames, BookNumbers DEF BookParts, Run
<1>18. PICK d : d = u.snap[i]
    OBVIOUS
<1>5. [name |-> d.name, ids |-> d.ids, gone |-> FALSE, version |-> 0] \in Person
  <2>1. i \in DOMAIN u.snap
    BY <1>3, <1>4 DEF RunNamed
  <2>2. d \in CopyRow
    BY <1>18, <2>1, ReadingParts
  <2> QED
    BY <2>2 DEF Person, CopyRow
<1>6. PICK e \in Person : e = [name |-> d.name, ids |-> d.ids, gone |-> FALSE, version |-> 0]
    BY <1>5
<1>7. q = Append(people, e)
    BY <1>1, <1>2, <1>6, <1>18 DEF PushContact
<1>8. /\ q \in Seq(Person) /\ DOMAIN people \subseteq DOMAIN q /\ n \in DOMAIN q /\ n \notin DOMAIN people /\ n \in Nat /\ n # 0
      /\ (\A k \in DOMAIN people : q[k] = people[k]) /\ \A k \in DOMAIN q : k \in DOMAIN people \/ k = n
  <2>1. people \in Seq(Person)
    BY <1>4 DEF BooksOK
  <2> QED
    BY <1>2, <1>7, <2>1, EntryAppended
<1>9. PICK y : y = Notes(x, pc, n, i, todo)
    OBVIOUS
<1>10. sync' = [sync EXCEPT ![r] = y]
    BY <1>1, <1>2, <1>9 DEF PushContact, Go, Notes
<1>11. y \in Run /\ y.pc = pc /\ y.todo = todo /\ y.found = i /\ y.person = n /\ y.clean = x.clean
    BY <1>4, <1>8, <1>9, NotesRun
<1>12. BooksOK(book, q)
    BY <1>4, <1>8 DEF BooksOK
<1>13. RunNamed(y, u, book, q)
    BY <1>2, <1>3, <1>4, <1>8, <1>11 DEF RunNamed, Importing
<1>14. ASSUME RunIn(x, u, book, people) PROVE RunIn(y, u, book, q)
  <2>1. \A k \in x.todo : book[k].link = 0
    BY <1>3, <1>14 DEF RunIn, LinksIn
  <2>2. \A k \in HereIn(book) : book[k].link # n
    BY <1>4, <1>8 DEF BooksOK, HereIn
  <2>3. LinksIn(y, book)
    BY <1>2, <1>3, <1>11, <2>1, <2>2 DEF LinksIn
  <2>4. ASSUME y.clean PROVE FreshIn(y, u, q) /\ ProgressIn(y, u, book, q)
    <3>1. /\ x.todo \subseteq HereIn(book)
          /\ \A h \in ThereIn(people) : Both(book, people, h)
          /\ \A k \in HereIn(book) : book[k].link # 0 \/ book[k].name = Placeholder \/ k \in x.todo
      BY <1>3, <1>11, <1>14, <2>4 DEF RunIn, ProgressIn
    <3>2. ASSUME NEW h \in ThereIn(q), h # n PROVE Both(book, q, h)
      <4>1. h \in ThereIn(people) /\ q[h] = people[h]
        BY <1>8, <3>2 DEF ThereIn
      <4> QED
        BY <3>1, <4>1 DEF Both
    <3>3. todo \subseteq HereIn(book) /\ i \in HereIn(book)
      BY <1>2, <1>3, <3>1
    <3>4. \A k \in HereIn(book) : book[k].link # 0 \/ book[k].name = Placeholder \/ k \in todo \/ k = i
      BY <1>2, <3>1
    <3>5. FreshIn(y, u, q)
      BY <1>2, <1>11 DEF FreshIn, Importing
    <3> QED
      BY <1>2, <1>11, <3>2, <3>3, <3>4, <3>5 DEF ProgressIn, Importing
  <2> QED
    BY <1>2, <1>11, <2>3, <2>4 DEF RunIn
<1>15. ~LittleIn(x, u, people)
    BY <1>3 DEF LittleIn
<1>16. AloneIn(sync, reading, book, people) =>
                /\ OnceIn(book') /\ RunIn(y, u, book', people')
                /\ AgreedIn(book, people) /\ LittleIn(sync[r], reading[r], people) =>
                        AgreedIn(book', people') /\ (IsGoing(y) => LittleIn(y, u, people'))
  <2> SUFFICES ASSUME AloneIn(sync, reading, book, people)
               PROVE  /\ OnceIn(book') /\ RunIn(y, u, book', people')
                      /\ ~LittleIn(sync[r], reading[r], people)
    OBVIOUS
  <2>1. OnceIn(book) /\ RunIn(x, u, book, people)
    BY <1>1 DEF AloneIn
  <2>2. RunIn(y, u, book, q)
    BY <1>14, <2>1
  <2> QED
    BY <1>1, <1>2, <1>3, <1>15, <2>1, <2>2
<1>17. /\ BooksOK(book', people') /\ DOMAIN book \subseteq DOMAIN book' /\ DOMAIN people \subseteq DOMAIN people'
       /\ RunNamed(y, u, book', people') /\ errors' \in 0..MaxErrors /\ IsGoing(sync[r]) /\ ReadsOnly(r, u)
    BY <1>1, <1>2, <1>3, <1>8, <1>12, <1>13, ReadsNothing DEF BookParts
<1> QED
    BY <1>3, <1>10, <1>16, <1>17, RunMoves

LEMMA BookStarts == BookInit => BookTypeOK /\ BookInv
<1> SUFFICES ASSUME BookInit PROVE BookParts
    BY BookFromParts
<1>1. PICK s, z : s = sync /\ s = [r \in Syncs |-> AtStart] /\ z = reading /\ z = [r \in Syncs |-> Unread]
    BY DEF BookInit
<1>2. s \in [Syncs -> Run] /\ \A r \in Syncs : s[r].pc = "idle" /\ s[r].found = 0 /\ s[r].person = 0 /\ s[r].todo = {}
    BY <1>1, StepNames DEF AtStart
<1>9. z \in [Syncs -> Reading]
    BY <1>1, UnreadReading
<1>3. people \in Seq(Person) /\ book = <<>> /\ book \in Seq(Contact) /\ DOMAIN book = {}
    BY BookConstants DEF BookInit
<1>4. BooksOK(book, people)
    BY <1>3 DEF BooksOK, OwnedIn, HereIn
<1>5. \A r \in Syncs : RunNamed(s[r], z[r], book, people)
    BY <1>2, <1>9 DEF RunNamed, Importing
<1>6. JobsNamed(jobs, worker, people)
    BY DEF BookInit, JobsNamed, FreeWorker
<1>7. AloneIn(s, z, book, people)
  <2>1. OnceIn(book)
    BY <1>3 DEF OnceIn, HereIn
  <2>2. ASSUME NEW r \in Syncs PROVE RunIn(s[r], z[r], book, people)
    BY <1>2 DEF RunIn, LinksIn, FreshIn, ProgressIn, Importing
  <2>3. \A r \in Syncs : ~IsGoing(s[r])
    BY <1>2 DEF IsGoing
  <2> QED
    BY <2>1, <2>2, <2>3 DEF AloneIn
<1>8. edits \in 0..MaxEdits /\ errors \in 0..MaxErrors /\ met \in BOOLEAN
  <2>1. MaxEdits \in Nat /\ MaxErrors \in Nat
    BY BookConstants
  <2>2. edits = 0 /\ errors = 0 /\ met = FALSE
    BY DEF BookInit
  <2>3. edits \in 0..MaxEdits /\ errors \in 0..MaxErrors
    BY <2>1, <2>2
  <2> QED
    BY <2>2, <2>3
<1> QED
    BY <1>1, <1>2, <1>4, <1>5, <1>6, <1>7, <1>8, <1>9 DEF BookParts

LEMMA BookStep == BookTypeOK /\ BookInv /\ [BookNext]_bookVars => (BookTypeOK /\ BookInv)'
<1> SUFFICES ASSUME BookParts, [BookNext]_bookVars PROVE BookParts'
    BY BookInParts, BookFromParts, PTL
<1>1. ASSUME NEW name \in Names \union {Placeholder}, CreateContact(name) PROVE BookParts'
    BY <1>1, CreateContactStep
<1>2. ASSUME NEW i \in Here,
             \/ RemoveContact(i)
             \/ \E name \in Names : UpdateContact(i, name)
             \/ \E x \in Identities : AddIdentity(i, x) \/ RemoveIdentity(i, x)
      PROVE  BookParts'
    BY <1>2, EditSteps
<1>3. ASSUME NEW r \in Syncs,
             \/ StartRun(r) \/ ReadPage(r) \/ LinkSameName(r) \/ LinkKnown(r) \/ FillName(r) \/ ImportPerson(r) \/ MarkImported(r)
             \/ StartPush(r) \/ StoreLink(r) \/ EndRun(r) \/ RunFails(r)
      PROVE  BookParts'
    BY <1>3, StartRunStep, ReadPageStep, LinkSteps, LinkKnownStep, FillNameStep, ImportPersonStep,
       StartPushStep, StoreLinkStep, EndRunStep, RunFailsStep
<1>4. ASSUME NEW r \in Syncs, NEW g \in DOMAIN people, Recognise(r, g) PROVE BookParts'
    BY <1>4, RecogniseStep
<1>8. ASSUME NEW r \in Syncs, NEW x \in Identities, IdentifyImported(r, x) PROVE BookParts'
    BY <1>8, IdentifyStep
<1>5. ASSUME NEW r \in Syncs, NEW i \in DOMAIN book, PushContact(r, i) PROVE BookParts'
    BY <1>5, PushContactStep
<1>6. ASSUME NEW w \in Remote, TakeRemoteJob(w) \/ PatchPerson(w) PROVE BookParts'
    BY <1>6, TakeRemoteJobStep, PatchPersonStep
<1>7. CASE UNCHANGED bookVars
    BY <1>7 DEF bookVars, BookParts
<1> QED
    BY <1>1, <1>2, <1>3, <1>4, <1>5, <1>6, <1>7, <1>8 DEF BookNext

LEMMA BookImplies == BookTypeOK /\ BookInv => BookSafe
<1> SUFFICES ASSUME BookTypeOK, BookInv PROVE PushedOnce
    BY DEF BookSafe, BookInv
<1> SUFFICES ASSUME ~met, NEW r \in Syncs, sync[r].pc = "store" PROVE book[sync[r].found].link = 0
    BY DEF PushedOnce
<1>1. LinksStay(sync[r])
    BY DEF BookInv, RunsInv
<1> QED
    BY <1>1 DEF LinksStay

(* Of the two address books: no two contacts of Mora are linked to one person *)
(* of Google as long as runs of GoogleContactsSyncProcessor do not overlap,   *)
(* whatever fails, is edited or deleted; after a run that nothing disturbed   *)
(* and that met no limit every person with a name is a contact and every      *)
(* named contact is in Google; and a contact about to be linked to the person *)
(* created for it has no link yet.                                            *)
THEOREM BooksInStep == BookSpec => []BookSafe
<1>1. BookInit => BookTypeOK /\ BookInv
    BY BookStarts
<1>2. BookTypeOK /\ BookInv /\ [BookNext]_bookVars => (BookTypeOK /\ BookInv)'
    BY BookStep
<1>3. BookTypeOK /\ BookInv => BookSafe
    BY BookImplies
<1> QED
    BY <1>1, <1>2, <1>3, PTL DEF BookSpec
===============================================================================
