------------------------------- MODULE Sessions -------------------------------
(***************************************************************************)
(* The refresh tokens of one user.                                         *)
(*   src/auth/auth.service.ts              login, refresh, logout          *)
(* Passwords, signatures and hashes are libraries: a presented token is one*)
(* that was issued.                                                        *)
(***************************************************************************)
EXTENDS Integers, Sequences

CONSTANTS Refreshers,      \* concurrent calls of POST /auth/refresh
          MaxTokens,       \* bound on refresh tokens
          MaxSlips         \* bound on failed writes

ASSUME SessionConstants == {MaxTokens, MaxSlips} \subseteq Nat

VARIABLES
    tokens,      \* the refresh tokens, as [revoked, expired, used: pairs issued for it]
    refresh,     \* refresh[f]: where it stands and its token
    raced,       \* two refreshes, or a refresh and a logout, of one token overlapped
    slips

sessionVars == <<tokens, refresh, raced, slips>>

Nowhere == [pc |-> "idle", token |-> 0]
Usable(t) == ~tokens[t].revoked /\ ~tokens[t].expired
Presented(t) == \E f \in Refreshers : refresh[f].pc \in {"revoke", "issue"} /\ refresh[f].token = t

SessionTypeOK ==
    /\ tokens \in Seq([revoked : BOOLEAN, expired : BOOLEAN, used : 0..MaxTokens])
    /\ refresh \in [Refreshers -> [pc : {"idle", "revoke", "issue", "done"}, token : 0..Len(tokens)]]
    /\ raced \in BOOLEAN /\ slips \in 0..MaxSlips

SessionInit == tokens = <<>> /\ refresh = [f \in Refreshers |-> Nowhere] /\ raced = FALSE /\ slips = 0

Slip == slips < MaxSlips /\ slips' = slips + 1

Fresh == [revoked |-> FALSE, expired |-> FALSE, used |-> 0]
IssueTokenPair(ts) == Append(ts, Fresh)

Login ==
    /\ Len(tokens) < MaxTokens /\ tokens' = IssueTokenPair(tokens)
    /\ UNCHANGED <<refresh, raced, slips>>

Expire(t) ==
    /\ ~tokens[t].expired /\ tokens' = [tokens EXCEPT ![t].expired = TRUE]
    /\ UNCHANGED <<refresh, raced, slips>>

(* Mutant: a token is refused for its age only. *)
RefreshRevoked(f, t) ==
    /\ refresh[f].pc = "idle"
    /\ refresh' = [refresh EXCEPT ![f] = IF ~tokens[t].expired THEN [pc |-> "revoke", token |-> t]
                                         ELSE [Nowhere EXCEPT !.pc = "done"]]
    /\ raced' = (raced \/ Presented(t))
    /\ UNCHANGED <<tokens, slips>>

(* The stored token is read and checked; the comparison of the hashes that  *)
(* follows takes a while.                                                   *)
Refresh(f, t) ==
    /\ refresh[f].pc = "idle"
    /\ refresh' = [refresh EXCEPT ![f] = IF Usable(t) THEN [pc |-> "revoke", token |-> t]
                                         ELSE [Nowhere EXCEPT !.pc = "done"]]
    /\ raced' = (raced \/ Presented(t))
    /\ UNCHANGED <<tokens, slips>>

RevokePresented(f) ==
    /\ refresh[f].pc = "revoke" /\ refresh' = [refresh EXCEPT ![f].pc = "issue"]
    /\ tokens' = [tokens EXCEPT ![refresh[f].token].revoked = TRUE]
    /\ UNCHANGED <<raced, slips>>

IssueNext(f) ==
    /\ refresh[f].pc = "issue" /\ Len(tokens) < MaxTokens
    /\ tokens' = IssueTokenPair([tokens EXCEPT ![refresh[f].token].used = @ + 1])
    /\ refresh' = [refresh EXCEPT ![f] = [Nowhere EXCEPT !.pc = "done"]]
    /\ UNCHANGED <<raced, slips>>

RefreshFails(f) ==
    /\ refresh[f].pc \in {"revoke", "issue"} /\ Slip
    /\ refresh' = [refresh EXCEPT ![f] = [Nowhere EXCEPT !.pc = "done"]]
    /\ UNCHANGED <<tokens, raced>>

Logout(t) ==
    /\ ~tokens[t].revoked /\ tokens' = [tokens EXCEPT ![t].revoked = TRUE]
    /\ raced' = (raced \/ Presented(t))
    /\ UNCHANGED <<refresh, slips>>

SessionNext ==
    \/ Login
    \/ \E t \in DOMAIN tokens : Expire(t) \/ Logout(t) \/ \E f \in Refreshers : Refresh(f, t)
    \/ \E f \in Refreshers : RevokePresented(f) \/ IssueNext(f) \/ RefreshFails(f)

SessionSpec == SessionInit /\ [][SessionNext]_sessionVars

-------------------------------------------------------------------------------
(* "Rejects reused or revoked tokens outright": a pair is never issued for a *)
(* token that stays usable, whatever fails, and as long as no two requests   *)
(* about one token overlap it pays for one pair.                             *)
SingleUseInTurn ==
    \A t \in DOMAIN tokens : /\ tokens[t].used > 0 => tokens[t].revoked
                             /\ ~raced => tokens[t].used <= 1

(* Why a token in turn pays once: a refresh that passed the check is alone   *)
(* with its token, which has paid for nothing yet, and has revoked it before *)
(* it issues the pair.                                                       *)
SessionInv ==
    /\ Len(tokens) <= MaxTokens
    /\ \A t \in DOMAIN tokens : tokens[t].used < Len(tokens)
    /\ \A f \in Refreshers :
        /\ refresh[f].pc \in {"revoke", "issue"} =>
                /\ refresh[f].token \in DOMAIN tokens
                /\ ~raced => tokens[refresh[f].token].used = 0
        /\ refresh[f].pc = "issue" => tokens[refresh[f].token].revoked
    /\ ~raced => \A f, g \in Refreshers :
            /\ refresh[f].pc \in {"revoke", "issue"} /\ refresh[g].pc \in {"revoke", "issue"}
            /\ refresh[f].token = refresh[g].token
            => f = g

(* What holds of the refresh tokens at every moment. *)
SessionSafe == SessionTypeOK /\ SingleUseInTurn

-------------------------------------------------------------------------------
(* What the documents say and the code does not keep. *)

(* ARCHITECTURE.md: "a stolen-then-replayed refresh token is a single-use":  *)
(* two requests that both read the token before either revokes it both get   *)
(* a pair.                                                                   *)
SingleUse == \A t \in DOMAIN tokens : tokens[t].used <= 1
===============================================================================
