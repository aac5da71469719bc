---------------------------- MODULE SurfacesProofs ----------------------------
(***************************************************************************)
(* Proofs about what the user sees of a conversation: the status of a text *)
(* sent, the notes on images, the work of the tools, the sockets of voice  *)
(* sessions. Each holds for any number of concurrent requests and any      *)
(* bounds.                                                                 *)
(***************************************************************************)
EXTENDS Router, Retrieval, WhatsAppDelivery, Vision, Tools, VoiceConnection, FiniteSetTheorems, SequenceTheorems, TLAPS

-------------------------------------------------------------------------------
(* Outbound messages *)

DeliveryIInv == DeliveryTypeOK /\ DeliveryInv

LEMMA DeliveryFacts ==
    ASSUME DeliveryTypeOK
    PROVE  /\ Len(talks) \in Nat /\ DOMAIN talks = 1..Len(talks) /\ \A i \in DOMAIN talks : talks[i] \in Talk
           /\ \A x \in Outbound : /\ sending[x] \in SendPlace(Len(talks)) /\ sending[x].talk \in 0..Len(talks)
                                  /\ delivery[x] \in DeliveryStatuses \union {"none"}
                                  /\ heard[x] \subseteq DeliveryStatuses
           /\ \A u \in Reports : report[u] \in ReportPlace
BY ElementOfSeq, LenProperties DEF DeliveryTypeOK, SendPlace

(* What the texts no report is about keep, and with them the invariant.    *)
LEMMA DeliveryHolds ==
    ASSUME DeliveryTypeOK', SendInv', HeardInv', ReportsInv', RowMeansSent' PROVE DeliveryIInv'
BY DEF DeliveryIInv, DeliveryInv

(* The furthest status stays the furthest when another one is reported.    *)
LEMMA FurthestStays ==
    ASSUME NEW x \in Outbound, NEW current \in DeliveryStatuses, NEW next \in DeliveryStatuses,
           heard[x] \subseteq DeliveryStatuses, heard'[x] = heard[x] \union {next},
           Furthest(x, current)
    PROVE  Furthest(x, IF ShouldAdvance(current, next) THEN next ELSE current)'
<1> DEFINE s == IF ShouldAdvance(current, next) THEN next ELSE current
<1>1. \A h \in DeliveryStatuses : Rank[h] \in -1..2 /\ (Rank[h] = 2 <=> h = "read")
    BY DEF Rank, DeliveryStatuses
<1>2. CASE next = "failed"
    BY <1>2 DEF Furthest, ShouldAdvance
<1>3. CASE next # "failed" /\ Rank[next] > Rank[current]
  <2>1. current # "read"
    BY <1>1, <1>3
  <2> QED
    BY <1>1, <1>3, <2>1 DEF Furthest, ShouldAdvance
<1>4. CASE next # "failed" /\ ~(Rank[next] > Rank[current])
  <2>1. next = "read" => current = "read"
    BY <1>1, <1>4
  <2> QED
    BY <1>1, <1>4, <2>1 DEF Furthest, ShouldAdvance
<1> QED
    BY <1>2, <1>3, <1>4

(* A call that moves on without writing a row: it has the text accepted     *)
(* before its row is written, and a conversation with the contact before    *)
(* it asks for the connection.                                              *)
LEMMA CallMoves ==
    ASSUME DeliveryIInv, NEW x \in Outbound, NEW n \in Nat, NEW r \in SendPlace(n),
           sending' = [sending EXCEPT ![x] = r], sending[x].pc # "done", r.pc # "done",
           r.pc = "persist" => x \in accepted',
           r.pc = "create" => r.account \in Accounts /\ r.party \in Parties,
           r.pc \in {"connect", "send", "persist"} => r.talk # 0,
           r.talk # 0 => talks'[r.talk].party = r.party,
           talks' \in Seq(Talk), Len(talks') = n, Len(talks) <= n, n <= MaxTalks,
           \A i \in DOMAIN talks : talks'[i] = talks[i],
           accepted \subseteq accepted', accepted' \subseteq Outbound,
           UNCHANGED <<accounts, delivery, report, heard, overlapped>>
    PROVE  DeliveryIInv'
<1>0. DeliveryTypeOK /\ SendInv /\ HeardInv /\ ReportsInv /\ RowMeansSent
    BY DEF DeliveryIInv, DeliveryInv
<1>1. sending \in [Outbound -> SendPlace(Len(talks))]
    BY <1>0 DEF DeliveryTypeOK
<1>2. sending'[x] = r /\ \A y \in Outbound \ {x} : sending'[y] = sending[y]
    BY <1>1
<1>3. \A y \in Outbound : sending[y] \in SendPlace(n)
    BY <1>0, DeliveryFacts DEF SendPlace
<1>4. DeliveryTypeOK'
    BY <1>0, <1>1, <1>3 DEF DeliveryTypeOK
<1>5. SendInv'
    BY <1>0, <1>2 DEF SendInv
<1>6. HeardInv' /\ ReportsInv'
    BY <1>0 DEF HeardInv, ReportsInv, Furthest
<1>7. RowMeansSent'
    BY <1>0, <1>2, DeliveryFacts DEF RowMeansSent
<1> QED
    BY <1>4, <1>5, <1>6, <1>7, DeliveryHolds

(* As long as neither the conversations nor the accepted texts change.     *)
LEMMA CallPasses ==
    ASSUME DeliveryIInv, NEW x \in Outbound, NEW r \in SendPlace(Len(talks)),
           sending' = [sending EXCEPT ![x] = r], sending[x].pc # "done", r.pc \notin {"persist", "done"},
           r.pc = "create" => r.account \in Accounts /\ r.party \in Parties,
           r.pc \in {"connect", "send"} => r.talk # 0,
           r.talk # 0 => talks[r.talk].party = r.party,
           UNCHANGED <<accounts, talks, accepted, delivery, report, heard, overlapped>>
    PROVE  DeliveryIInv'
<1>1. Len(talks) \in Nat /\ Len(talks) <= MaxTalks /\ talks \in Seq(Talk) /\ accepted \subseteq Outbound
    BY DeliveryFacts DEF DeliveryIInv, DeliveryTypeOK
<1>2. /\ talks' \in Seq(Talk) /\ Len(talks') = Len(talks) /\ Len(talks) <= Len(talks)
      /\ \A i \in DOMAIN talks : talks'[i] = talks[i]
      /\ accepted \subseteq accepted' /\ accepted' \subseteq Outbound
      /\ r.talk # 0 => talks'[r.talk].party = r.party
    BY <1>1
<1>3. r.pc = "persist" => x \in accepted'
    OBVIOUS
<1>4. r.pc \in {"connect", "send", "persist"} => r.talk # 0
    OBVIOUS
<1> QED
    BY <1>1, <1>2, <1>3, <1>4, CallMoves

LEMMA DeliveryStep == DeliveryIInv /\ [DeliveryNext]_deliveryVars => DeliveryIInv'
<1> SUFFICES ASSUME DeliveryIInv, [DeliveryNext]_deliveryVars PROVE DeliveryIInv'
    OBVIOUS
<1> USE DeliveryConstants
<1>0. DeliveryTypeOK /\ SendInv /\ HeardInv /\ ReportsInv /\ RowMeansSent
    BY DEF DeliveryIInv, DeliveryInv
<1>f. /\ Len(talks) \in Nat /\ Len(talks) <= MaxTalks /\ talks \in Seq(Talk)
      /\ \A x \in Outbound : sending[x] \in SendPlace(Len(talks))
    BY <1>0, DeliveryFacts DEF DeliveryTypeOK
<1>1. ASSUME NEW a \in Accounts, AddAccount(a) PROVE DeliveryIInv'
  <2>1. accounts' \in Seq(Accounts)
    BY <1>0, <1>1, ConcatProperties DEF AddAccount, DeliveryTypeOK
  <2> QED
    BY <1>0, <1>1, <2>1, DeliveryHolds
    DEF AddAccount, DeliveryTypeOK, SendInv, HeardInv, ReportsInv, RowMeansSent, Furthest
<1>2. ASSUME NEW a \in Accounts, RemoveAccount(a) PROVE DeliveryIInv'
  <2>1. accounts' \in Seq(Accounts)
    <3>1. PICK i \in DOMAIN accounts :
                accounts' = SubSeq(accounts, 1, i - 1) \o SubSeq(accounts, i + 1, Len(accounts))
        BY <1>2 DEF RemoveAccount
    <3>2. accounts \in Seq(Accounts) /\ Len(accounts) \in Nat /\ i \in 1..Len(accounts)
        BY <1>0, LenProperties DEF DeliveryTypeOK
    <3>3. SubSeq(accounts, 1, i - 1) \in Seq(Accounts)
        BY <3>2, SubSeqProperties, ElementOfSeq
    <3>4. SubSeq(accounts, i + 1, Len(accounts)) \in Seq(Accounts)
        BY <3>2, SubSeqProperties, ElementOfSeq
    <3> QED
        BY <3>1, <3>3, <3>4, ConcatProperties
  <2>2. /\ talks' \in Seq(Talk) /\ Len(talks') = Len(talks) /\ DOMAIN talks' = DOMAIN talks
        /\ \A i \in DOMAIN talks : talks'[i].party = talks[i].party
    <3> DEFINE g(i) == [talks[i] EXCEPT !.gone = @ \/ talks[i].account = a]
    <3>1. talks' = [i \in 1..Len(talks) |-> g(i)]
        BY <1>0, <1>2, DeliveryFacts DEF RemoveAccount
    <3>2. \A i \in DOMAIN talks : g(i) \in Talk /\ g(i).party = talks[i].party
        BY <1>0, DeliveryFacts DEF Talk
    <3> HIDE DEF g
    <3> QED
        BY <1>0, <3>1, <3>2, DeliveryFacts, LenProperties
  <2>3. /\ delivery' \in [Outbound -> DeliveryStatuses \union {"none"}]
        /\ \A x \in Outbound : delivery'[x] \in {"none", delivery[x]}
        /\ UNCHANGED <<sending, accepted, report, heard, overlapped>>
    BY <1>0, <1>2 DEF RemoveAccount, DeliveryTypeOK
  <2>4. DeliveryTypeOK'
    BY <1>0, <2>1, <2>2, <2>3 DEF DeliveryTypeOK
  <2>5. SendInv' /\ ReportsInv'
    BY <1>0, <2>3 DEF SendInv, ReportsInv
  <2>6. HeardInv'
    BY <1>0, <2>3 DEF HeardInv, Furthest
  <2>7. RowMeansSent'
    BY <1>0, <2>2, <2>3, DeliveryFacts DEF RowMeansSent
  <2> QED
    BY <2>4, <2>5, <2>6, <2>7, DeliveryHolds
<1>r. ASSUME NEW x \in Outbound, Refused(x), sending[x].pc # "done",
             UNCHANGED <<accounts, talks, accepted, delivery, report, heard, overlapped>>
      PROVE  DeliveryIInv'
  <2> DEFINE r == [sending[x] EXCEPT !.pc = "failed"]
  <2>1. sending' = [sending EXCEPT ![x] = r]
    BY <1>0, <1>r DEF Refused, DeliveryTypeOK
  <2>2. r \in SendPlace(Len(talks)) /\ r.pc = "failed" /\ r.talk = sending[x].talk /\ r.party = sending[x].party
    BY <1>f DEF SendPlace
  <2>3. r.talk # 0 => talks[r.talk].party = r.party
    BY <1>0, <2>2 DEF RowMeansSent
  <2> HIDE DEF r
  <2> QED
    BY <1>r, <2>1, <2>2, <2>3, CallPasses
<1>3. ASSUME NEW x \in Outbound, NEW party \in Parties, OpenConversationForContact(x, party) PROVE DeliveryIInv'
  <2>1. sending[x].pc = "idle" /\ UNCHANGED <<accounts, talks, accepted, delivery, report, heard, overlapped>>
    BY <1>3 DEF OpenConversationForContact
  <2>2. CASE accounts = <<>>
    BY <1>3, <1>r, <2>1, <2>2 DEF OpenConversationForContact
  <2>3. CASE accounts # <<>>
    <3> DEFINE account == Head(accounts)
               to(pc, i) == [pc |-> pc, party |-> party, account |-> account, talk |-> i]
    <3>1. account \in Accounts
        BY <1>0, <2>3, HeadTailProperties DEF DeliveryTypeOK
    <3>2. \/ sending' = [sending EXCEPT ![x] = to("create", 0)]
          \/ \E i \in DOMAIN talks : talks[i].party = party /\ sending' = [sending EXCEPT ![x] = to("connect", i)]
        BY <1>3, <2>3 DEF OpenConversationForContact
    <3> HIDE DEF account
    <3>3. CASE sending' = [sending EXCEPT ![x] = to("create", 0)]
      <4>1. to("create", 0) \in SendPlace(Len(talks))
        BY <1>f, <3>1 DEF SendPlace
      <4> QED
        BY <2>1, <3>1, <3>3, <4>1, CallPasses
    <3>4. ASSUME NEW i \in DOMAIN talks, talks[i].party = party, sending' = [sending EXCEPT ![x] = to("connect", i)]
          PROVE  DeliveryIInv'
      <4>1. to("connect", i) \in SendPlace(Len(talks)) /\ i # 0
        BY <1>0, <1>f, <3>1, DeliveryFacts DEF SendPlace
      <4> QED
        BY <2>1, <3>4, <4>1, CallPasses
    <3> QED
        BY <3>2, <3>3, <3>4
  <2> QED
    BY <2>2, <2>3
<1>4. ASSUME NEW x \in Outbound, CreateConversation(x) PROVE DeliveryIInv'
  <2>1. sending[x].pc = "create" /\ UNCHANGED <<accounts, accepted, delivery, report, heard, overlapped>>
        /\ sending[x].account \in Accounts /\ sending[x].party \in Parties
    BY <1>0, <1>4 DEF CreateConversation, SendInv
  <2>2. CASE \A i \in DOMAIN accounts : accounts[i] # sending[x].account
    BY <1>4, <1>r, <2>1, <2>2 DEF CreateConversation
  <2>3. CASE ~\A i \in DOMAIN accounts : accounts[i] # sending[x].account
    <3> DEFINE kept == [account |-> sending[x].account, party |-> sending[x].party, gone |-> FALSE]
               n == Len(talks) + 1
               r == [pc |-> "connect", party |-> sending[x].party, account |-> sending[x].account, talk |-> n]
    <3>1. kept \in Talk /\ kept.party = sending[x].party /\ talks' = Append(talks, kept) /\ Len(talks) < MaxTalks
        BY <1>4, <2>1, <2>3 DEF CreateConversation, Talk
    <3> HIDE DEF kept
    <3>2. /\ talks' \in Seq(Talk) /\ Len(talks') = n /\ talks'[n] = kept /\ n \in Nat /\ n <= MaxTalks
          /\ \A i \in DOMAIN talks : talks'[i] = talks[i]
        BY <1>0, <1>f, <3>1, AppendProperties, DeliveryFacts
    <3>3. sending' = [sending EXCEPT ![x] = r]
      <4>1. sending' = [sending EXCEPT ![x].pc = "connect", ![x].talk = n]
        BY <1>4, <2>3, <3>2 DEF CreateConversation
      <4>2. sending \in [Outbound -> SendPlace(Len(talks))]
        BY <1>0 DEF DeliveryTypeOK
      <4>3. sending'[x] = r
        BY <1>f, <4>1, <4>2 DEF SendPlace
      <4> QED
        BY <4>1, <4>2, <4>3
    <3>4. r \in SendPlace(n) /\ r.pc = "connect" /\ r.talk = n /\ r.party = kept.party
        BY <1>f, <2>1, <3>1 DEF SendPlace
    <3> HIDE DEF r, n
    <3>5. Len(talks) <= n /\ n # 0
        BY <1>f DEF n
    <3> QED
        BY <1>0, <1>f, <2>1, <3>2, <3>3, <3>4, <3>5, CallMoves DEF DeliveryTypeOK
  <2> QED
    BY <2>2, <2>3
<1>5. ASSUME NEW x \in Outbound, NEW i \in DOMAIN talks, SendTextForUser(x, i) PROVE DeliveryIInv'
  <2> DEFINE r == [pc |-> "connect", party |-> talks[i].party, account |-> talks[i].account, talk |-> i]
  <2>1. r \in SendPlace(Len(talks)) /\ i # 0
    BY <1>0, <1>f, DeliveryFacts DEF SendPlace, Talk
  <2>2. sending' = [sending EXCEPT ![x] = r] /\ sending[x].pc = "idle"
        /\ UNCHANGED <<accounts, talks, accepted, delivery, report, heard, overlapped>>
    BY <1>5 DEF SendTextForUser
  <2> QED
    BY <2>1, <2>2, CallPasses
<1>g. ASSUME NEW x \in Outbound, NEW pc \in {"send", "persist"}, sending[x].pc \in {"connect", "send"},
             sending' = [sending EXCEPT ![x].pc = pc], pc = "persist" => x \in accepted',
             accepted \subseteq accepted', accepted' \subseteq Outbound,
             UNCHANGED <<accounts, talks, delivery, report, heard, overlapped>>
      PROVE  DeliveryIInv'
  <2> DEFINE r == [sending[x] EXCEPT !.pc = pc]
  <2>1. sending' = [sending EXCEPT ![x] = r]
    BY <1>0, <1>g DEF DeliveryTypeOK
  <2>2. r \in SendPlace(Len(talks)) /\ r.pc = pc /\ r.talk = sending[x].talk /\ r.party = sending[x].party
    BY <1>f DEF SendPlace
  <2>3. r.talk # 0 /\ talks[r.talk].party = r.party
    BY <1>0, <1>g, <2>2 DEF RowMeansSent, SendInv
  <2>4. /\ talks' \in Seq(Talk) /\ Len(talks') = Len(talks) /\ Len(talks) <= Len(talks)
        /\ \A i \in DOMAIN talks : talks'[i] = talks[i]
        /\ r.talk # 0 => talks'[r.talk].party = r.party
        /\ r.pc = "persist" => x \in accepted'
    BY <1>f, <1>g, <2>2, <2>3
  <2> HIDE DEF r
  <2> QED
    BY <1>f, <1>g, <2>1, <2>2, <2>3, <2>4, CallMoves
<1>6. ASSUME NEW x \in Outbound, ResolveConnection(x) PROVE DeliveryIInv'
  <2>1. sending[x].pc = "connect" /\ UNCHANGED <<accounts, talks, accepted, delivery, report, heard, overlapped>>
    BY <1>6 DEF ResolveConnection
  <2>2. Refused(x) \/ sending' = [sending EXCEPT ![x].pc = "send"]
    BY <1>6 DEF ResolveConnection
  <2>3. accepted' \subseteq Outbound
    BY <1>0, <2>1 DEF DeliveryTypeOK
  <2> QED
    BY <1>r, <1>g, <2>1, <2>2, <2>3
<1>7. ASSUME NEW x \in Outbound, SendTextMessage(x) PROVE DeliveryIInv'
  <2>1. sending[x].pc = "send" /\ UNCHANGED <<accounts, talks, delivery, report, heard, overlapped>>
    BY <1>7 DEF SendTextMessage
  <2>2. \/ Refused(x) /\ UNCHANGED accepted
        \/ sending' = [sending EXCEPT ![x].pc = "persist"] /\ accepted' = accepted \union {x}
    BY <1>7 DEF SendTextMessage
  <2>3. accepted' \subseteq Outbound
    BY <1>0, <2>2 DEF DeliveryTypeOK
  <2> QED
    BY <1>r, <1>g, <2>1, <2>2, <2>3
<1>8. ASSUME NEW x \in Outbound, PersistOutbound(x) PROVE DeliveryIInv'
  <2>1. sending[x].pc = "persist" /\ UNCHANGED <<accounts, talks, accepted, report, heard, overlapped>>
    BY <1>8 DEF PersistOutbound
  <2>2. CASE talks[sending[x].talk].gone
    BY <1>8, <1>r, <2>1, <2>2 DEF PersistOutbound
  <2>3. CASE ~talks[sending[x].talk].gone
    <3> DEFINE r == [sending[x] EXCEPT !.pc = "done"]
    <3>1. sending' = [sending EXCEPT ![x] = r] /\ delivery' = [delivery EXCEPT ![x] = "sent"]
        BY <1>0, <1>8, <2>3 DEF PersistOutbound, DeliveryTypeOK
    <3>2. r \in SendPlace(Len(talks)) /\ r.pc = "done" /\ r.talk = sending[x].talk /\ r.party = sending[x].party
        BY <1>f DEF SendPlace
    <3> HIDE DEF r
    <3>3. /\ sending'[x] = r /\ delivery'[x] = "sent"
          /\ \A y \in Outbound \ {x} : sending'[y] = sending[y] /\ delivery'[y] = delivery[y]
        BY <1>0, <3>1 DEF DeliveryTypeOK
    <3>4. x \in accepted /\ heard[x] = {} /\ \A u \in Reports : report[u].text # x
        BY <1>0, <2>1 DEF SendInv
    <3>5. DeliveryTypeOK'
        BY <1>0, <2>1, <3>1, <3>2 DEF DeliveryTypeOK, DeliveryStatuses
    <3>6. SendInv'
        BY <1>0, <2>1, <3>2, <3>3, <3>4 DEF SendInv
    <3>7. HeardInv' /\ ReportsInv'
        BY <1>0, <2>1, <3>3, <3>4 DEF HeardInv, ReportsInv, Furthest
    <3>8. RowMeansSent'
        BY <1>0, <2>1, <3>2, <3>3, <3>4 DEF RowMeansSent
    <3> QED
        BY <3>5, <3>6, <3>7, <3>8, DeliveryHolds
  <2> QED
    BY <2>2, <2>3
<1>9. ASSUME NEW u \in Reports, WriteReported(u) PROVE DeliveryIInv'
  <2> DEFINE x == report[u].text
             s == IF delivery[x] = "none" THEN "none" ELSE report[u].next
  <2>1. x \in Outbound /\ report[u].next \in DeliveryStatuses /\ report[u].pc = "write"
        /\ UNCHANGED <<accounts, talks, sending, accepted, heard, overlapped>>
    BY <1>0, <1>9 DEF WriteReported, ReportsInv
  <2>2. /\ delivery'[x] = s /\ \A y \in Outbound \ {x} : delivery'[y] = delivery[y]
        /\ delivery' \in [Outbound -> DeliveryStatuses \union {"none"}]
    BY <1>0, <1>9, <2>1 DEF WriteReported, DeliveryTypeOK
  <2>3. /\ report'[u] = NoReport /\ \A v \in Reports \ {u} : report'[v] = report[v]
        /\ report' \in [Reports -> ReportPlace]
    BY <1>0, <1>9 DEF WriteReported, DeliveryTypeOK, ReportPlace, NoReport
  <2>4. DeliveryTypeOK'
    BY <1>0, <2>1, <2>2, <2>3 DEF DeliveryTypeOK
  <2>5. SendInv'
    BY <1>0, <2>1, <2>2, <2>3 DEF SendInv, NoReport
  <2>6. ReportsInv'
    BY <1>0, <2>3 DEF ReportsInv, NoReport
  <2>7. HeardInv'
    <3> SUFFICES ASSUME NEW y \in Outbound \ overlapped
                 PROVE  /\ \A v, w \in Reports : report'[v].text = y /\ report'[w].text = y => v = w
                        /\ delivery'[y] # "none" =>
                              /\ \A v \in Reports : report'[v].text = y => Furthest(y, report'[v].next)
                              /\ (\A v \in Reports : report'[v].text # y) => Furthest(y, delivery'[y])
        BY <2>1 DEF HeardInv, Furthest
    <3>1. "none" # y
        OBVIOUS
    <3>2. CASE y = x
        BY <1>0, <2>1, <2>2, <2>3, <3>1, <3>2 DEF HeardInv, NoReport
    <3>3. CASE y # x
        BY <1>0, <2>1, <2>2, <2>3, <3>1, <3>3 DEF HeardInv, NoReport
    <3> QED
        BY <3>2, <3>3
  <2>8. RowMeansSent'
    BY <1>0, <2>1, <2>2 DEF RowMeansSent
  <2> QED
    BY <2>4, <2>5, <2>6, <2>7, <2>8, DeliveryHolds
<1>10. ASSUME NEW u \in Reports, NEW x \in Reported, NEW e \in EvolutionStatuses, ReadReported(u, x, e)
       PROVE  DeliveryIInv'
  <2> DEFINE next == MapEvolutionStatus[e]
             s == IF ShouldAdvance(delivery[x], next) THEN next ELSE delivery[x]
  <2>1. /\ x \in Outbound /\ x # "none" /\ report[u].pc = "idle" /\ next \in DeliveryStatuses
        /\ delivery[x] \in DeliveryStatuses
        /\ UNCHANGED <<accounts, talks, sending, accepted, delivery>>
    BY <1>0, <1>10, DeliveryFacts DEF ReadReported, MapEvolutionStatus, EvolutionStatuses, DeliveryStatuses
  <2>2. /\ heard'[x] = heard[x] \union {next} /\ \A y \in Outbound \ {x} : heard'[y] = heard[y]
        /\ heard' \in [Outbound -> SUBSET DeliveryStatuses]
    BY <1>0, <1>10, <2>1 DEF ReadReported, DeliveryTypeOK
  <2>3. /\ report' \in [Reports -> ReportPlace] /\ \A v \in Reports \ {u} : report'[v] = report[v]
        /\ ShouldAdvance(delivery[x], next) => report'[u] = [pc |-> "write", text |-> x, next |-> next]
        /\ ~ShouldAdvance(delivery[x], next) => report'[u] = report[u]
    BY <1>0, <1>10, <2>1 DEF ReadReported, DeliveryTypeOK, ReportPlace
  <2>4. report[u].text = "none" /\ sending[x].pc = "done"
    BY <1>0, <2>1 DEF ReportsInv, SendInv, DeliveryStatuses
  <2>5. /\ overlapped' \subseteq Outbound /\ overlapped \subseteq overlapped'
        /\ x \notin overlapped' => \A v \in Reports : report[v].text # x
    BY <1>0, <1>10, <2>1 DEF ReadReported, DeliveryTypeOK
  <2> HIDE DEF next
  <2>6. DeliveryTypeOK'
    BY <1>0, <2>1, <2>2, <2>3, <2>5 DEF DeliveryTypeOK
  <2>7. SendInv' /\ ReportsInv' /\ RowMeansSent'
    BY <1>0, <2>1, <2>2, <2>3, <2>4 DEF SendInv, ReportsInv, RowMeansSent
  <2>8. HeardInv'
    <3> SUFFICES ASSUME NEW y \in Outbound \ overlapped'
                 PROVE  /\ \A v, w \in Reports : report'[v].text = y /\ report'[w].text = y => v = w
                        /\ delivery'[y] # "none" =>
                              /\ \A v \in Reports : report'[v].text = y => Furthest(y, report[v].next)'
                              /\ (\A v \in Reports : report'[v].text # y) => Furthest(y, delivery[y])'
        BY DEF HeardInv
    <3>1. CASE y = x
      <4>1. \A v \in Reports : report[v].text # x
        BY <2>5, <3>1
      <4>2. Furthest(x, delivery[x])
        BY <1>0, <2>1, <2>5, <3>1, <4>1 DEF HeardInv, DeliveryStatuses
      <4>3. Furthest(x, s)'
        BY <1>0, <2>1, <2>2, <4>2, FurthestStays, DeliveryFacts
      <4>4. CASE ShouldAdvance(delivery[x], next)
        BY <2>1, <2>3, <3>1, <4>1, <4>3, <4>4 DEF Furthest
      <4>5. CASE ~ShouldAdvance(delivery[x], next)
        BY <2>1, <2>3, <3>1, <4>1, <4>3, <4>5 DEF Furthest
      <4> QED
        BY <4>4, <4>5
    <3>2. CASE y # x
      <4>1. heard'[y] = heard[y] /\ delivery'[y] = delivery[y] /\ y \notin overlapped
        BY <2>1, <2>2, <2>5, <3>2
      <4>2. \A v \in Reports : report'[v].text = y <=> report[v].text = y
        BY <2>3, <2>4, <3>2
      <4>3. \A v \in Reports : report[v].text = y => report'[v] = report[v]
        BY <2>3, <2>4, <3>2
      <4> QED
        BY <1>0, <4>1, <4>2, <4>3 DEF HeardInv, Furthest
    <3> QED
        BY <3>1, <3>2
  <2> QED
    BY <2>6, <2>7, <2>8, DeliveryHolds
<1>11. CASE UNCHANGED deliveryVars
    BY <1>0, <1>11, DeliveryHolds
    DEF deliveryVars, DeliveryTypeOK, SendInv, HeardInv, ReportsInv, RowMeansSent, Furthest
<1> QED
    BY <1>1, <1>2, <1>3, <1>4, <1>5, <1>6, <1>7, <1>8, <1>9, <1>10, <1>11 DEF DeliveryNext

(* "Statuses only move forward" (whatsapp-status.util.ts): reports handled  *)
(* one after the other leave the furthest status, in whatever order and     *)
(* however often they come, and a row tells of a text that left, filed with *)
(* the contact it was for (applyDeliveryStatus, sendAndPersist).            *)
THEOREM StatusesOnlyAdvance == DeliverySpec => []DeliverySafe
<1> USE DeliveryConstants
<1>1. DeliveryInit => DeliveryIInv
  <2> SUFFICES ASSUME DeliveryInit PROVE DeliveryIInv
    OBVIOUS
  <2>1. DeliveryTypeOK
    <3>1. Len(talks) = 0 /\ talks \in Seq(Talk) /\ accounts \in Seq(Accounts)
        BY EmptySeq DEF DeliveryInit
    <3> QED
        BY <3>1 DEF DeliveryInit, DeliveryTypeOK, NotSending, SendPlace, NoReport, ReportPlace
  <2>2. SendInv /\ HeardInv /\ ReportsInv /\ RowMeansSent
    BY DEF DeliveryInit, SendInv, HeardInv, ReportsInv, RowMeansSent, NotSending, NoReport
  <2> QED
    BY <2>1, <2>2 DEF DeliveryIInv, DeliveryInv
<1>2. DeliveryIInv => DeliverySafe
  <2> SUFFICES ASSUME DeliveryIInv PROVE OrderIrrelevant
    BY DEF DeliveryIInv, DeliveryInv, DeliverySafe
  <2> QED
    BY DEF DeliveryIInv, DeliveryInv, OrderIrrelevant, HeardInv, Furthest
<1> QED
    BY <1>1, <1>2, DeliveryStep, PTL DEF DeliverySpec

-------------------------------------------------------------------------------
(* Images *)

VisionIInv == VisionTypeOK /\ VisionInv

(* LookInv and NotesOfOwnImages, of a request in state r over the rows.    *)
LookOK(r, rows) ==
    /\ r.pc \in {"find", "store", "describe", "mark", "fail"} =>
            r.files # <<>> /\ r.room \in Rooms /\ r.space \in VisionSpaces
    /\ r.pc = "store" => Acceptable(Head(r.files))
    /\ r.pc \in {"describe", "mark", "fail"} =>
            r.asset # 0 /\ rows[r.asset].room = r.room /\ rows[r.asset].space = r.space
    /\ Len(r.described) = Len(r.used)
NotesOK(r, rows) ==
    \A k \in DOMAIN r.described :
        /\ rows[r.described[k]].room = r.room /\ rows[r.described[k]].space = r.space
        /\ r.used[k] \in {"none", rows[r.described[k]].image.name}

LEMMA VisionFacts ==
    ASSUME VisionIInv
    PROVE  /\ assets \in Seq(Asset) /\ Len(assets) \in Nat /\ DOMAIN assets = 1..Len(assets) /\ Len(assets) <= MaxAssets
           /\ \A i \in DOMAIN assets : /\ assets[i] \in Asset /\ Acceptable(assets[i].image)
                                       /\ assets[i].of \in {"none", assets[i].image.name}
                                       /\ assets[i].message # "none" => /\ looking[assets[i].message].pc = "done"
                                                                        /\ looking[assets[i].message].room = assets[i].room
           /\ looking \in [Looks -> Look(Len(assets))]
           /\ \A r \in Looks : LookOK(looking[r], assets) /\ NotesOK(looking[r], assets)
<1>1. VisionTypeOK /\ LookInv /\ AssetInv /\ NotesOfOwnImages /\ AttachedAtHome /\ StoredIsAcceptable
    BY DEF VisionIInv, VisionInv
<1> QED
    BY <1>1, ElementOfSeq, LenProperties
    DEF VisionTypeOK, LookInv, AssetInv, NotesOfOwnImages, AttachedAtHome, StoredIsAcceptable, LookOK, NotesOK

(* Notes stay right for a request that moves on, and when assets are added.  *)
LEMMA NotesStay ==
    ASSUME NEW x, NEW y, NEW rows, NEW more, NotesOK(x, rows),
           y.described = x.described, y.used = x.used, y.room = x.room, y.space = x.space,
           \A k \in DOMAIN x.described : more[x.described[k]] = rows[x.described[k]]
    PROVE  NotesOK(y, more)
<1> SUFFICES ASSUME NEW k \in DOMAIN x.described
             PROVE  /\ more[x.described[k]].room = x.room /\ more[x.described[k]].space = x.space
                    /\ x.used[k] \in {"none", more[x.described[k]].image.name}
    BY DEF NotesOK
<1>1. more[x.described[k]] = rows[x.described[k]]
    OBVIOUS
<1>2. /\ rows[x.described[k]].room = x.room /\ rows[x.described[k]].space = x.space
      /\ x.used[k] \in {"none", rows[x.described[k]].image.name}
    BY DEF NotesOK
<1> QED
    BY <1>1, <1>2

(* A request keeps its place when assets are added.                        *)
LEMMA LookGrows ==
    ASSUME NEW m \in Nat, NEW n \in Nat, m <= n, NEW r \in Look(m)
    PROVE  r \in Look(n)
<1>1. r.described \in Seq(1..n)
    BY SeqMonotonic DEF Look
<1> QED
    BY <1>1 DEF Look

LEMMA DescribedAreAssets ==
    ASSUME NEW n \in Nat, NEW r \in Look(n)
    PROVE  /\ Len(r.described) \in Nat /\ DOMAIN r.described = 1..Len(r.described)
           /\ \A k \in DOMAIN r.described : r.described[k] \in 1..n
BY ElementOfSeq, LenProperties DEF Look

(* A request moves to r, rows are added or change: none changes its image,  *)
(* its conversation, its space or the message it is shown with.             *)
LEMMA LookMoves ==
    ASSUME VisionIInv, NEW q \in Looks, NEW n \in Nat, NEW r \in Look(n),
           looking' = [looking EXCEPT ![q] = r], looking[q].pc # "done", r.pc # "done",
           assets' \in Seq(Asset), Len(assets') = n, Len(assets) <= n, n <= MaxAssets,
           \A i \in DOMAIN assets : /\ assets'[i].room = assets[i].room /\ assets'[i].space = assets[i].space
                                    /\ assets'[i].image = assets[i].image /\ assets'[i].message = assets[i].message,
           \A i \in DOMAIN assets' : /\ i \notin DOMAIN assets => assets'[i].message = "none"
                                     /\ Acceptable(assets'[i].image) /\ assets'[i].of \in {"none", assets'[i].image.name},
           LookOK(r, assets'), NotesOK(r, assets')
    PROVE  VisionIInv'
<1>1. /\ looking'[q] = r /\ \A s \in Looks \ {q} : looking'[s] = looking[s]
      /\ looking' \in [Looks -> Look(n)]
  <2>1. \A s \in Looks : looking[s] \in Look(n)
    BY VisionFacts, LookGrows
  <2> QED
    BY <2>1, VisionFacts
<1>2. DOMAIN assets' = 1..n /\ DOMAIN assets \subseteq DOMAIN assets'
    BY VisionFacts, LenProperties
<1>3. \A s \in Looks : LookOK(looking'[s], assets') /\ NotesOK(looking'[s], assets')
  <2> SUFFICES ASSUME NEW s \in Looks \ {q} PROVE LookOK(looking[s], assets') /\ NotesOK(looking[s], assets')
    BY <1>1
  <2>1. looking[s] \in Look(Len(assets)) /\ LookOK(looking[s], assets) /\ NotesOK(looking[s], assets)
    BY VisionFacts
  <2>2. looking[s].asset # 0 => looking[s].asset \in DOMAIN assets
    BY <2>1, VisionFacts DEF Look
  <2>3. LookOK(looking[s], assets')
    BY <2>1, <2>2 DEF LookOK
  <2>4. NotesOK(looking[s], assets')
    <3>1. \A k \in DOMAIN looking[s].described : looking[s].described[k] \in DOMAIN assets
        BY <2>1, VisionFacts, DescribedAreAssets
    <3> QED
        BY <2>1, <3>1 DEF NotesOK
  <2> QED
    BY <2>3, <2>4
<1>4. VisionTypeOK'
    BY <1>1 DEF VisionTypeOK
<1>5. LookInv' /\ NotesOfOwnImages'
    BY <1>3 DEF LookInv, NotesOfOwnImages, LookOK, NotesOK
<1>6. \A i \in DOMAIN assets' : assets'[i].message # "none" => i \in DOMAIN assets /\ assets[i].message \in Looks \ {q}
  <2> SUFFICES ASSUME NEW i \in DOMAIN assets', assets'[i].message # "none"
               PROVE  i \in DOMAIN assets /\ assets[i].message \in Looks \ {q}
    OBVIOUS
  <2>1. i \in DOMAIN assets /\ assets[i].message = assets'[i].message
    OBVIOUS
  <2>2. assets[i].message \in Looks /\ looking[assets[i].message].pc = "done"
    BY <2>1, VisionFacts DEF Asset
  <2> QED
    BY <2>1, <2>2
<1>7. AssetInv' /\ StoredIsAcceptable'
    BY <1>1, <1>6, VisionFacts DEF AssetInv, StoredIsAcceptable
<1>8. AttachedAtHome'
  <2>1. ASSUME NEW i \in DOMAIN assets', assets'[i].message # "none"
        PROVE  looking'[assets'[i].message].room = assets'[i].room
    BY <1>1, <1>6, <2>1, VisionFacts
  <2>2. ASSUME NEW s \in Looks, looking'[s].pc = "done", NEW k \in DOMAIN looking'[s].described
        PROVE  assets'[looking'[s].described[k]].message # "none"
    <3>1. s # q /\ looking'[s] = looking[s]
        BY <1>1, <2>2
    <3>2. looking[s].described[k] \in DOMAIN assets
        BY <2>2, <3>1, VisionFacts, DescribedAreAssets
    <3>3. assets[looking[s].described[k]].message # "none"
        BY <2>2, <3>1 DEF VisionIInv, VisionInv, AttachedAtHome
    <3> QED
        BY <3>1, <3>2, <3>3
  <2> QED
    BY <2>1, <2>2 DEF AttachedAtHome
<1> QED
    BY <1>4, <1>5, <1>7, <1>8 DEF VisionIInv, VisionInv

(* As long as the rows stay.                                               *)
LEMMA LookPasses ==
    ASSUME VisionIInv, NEW q \in Looks, NEW r \in Look(Len(assets)),
           looking' = [looking EXCEPT ![q] = r], looking[q].pc # "done", r.pc # "done", UNCHANGED assets,
           LookOK(r, assets), NotesOK(r, assets)
    PROVE  VisionIInv'
<1>1. /\ Len(assets) \in Nat /\ assets' \in Seq(Asset) /\ Len(assets') = Len(assets) /\ Len(assets) <= Len(assets)
      /\ Len(assets) <= MaxAssets
      /\ \A i \in DOMAIN assets : /\ assets'[i].room = assets[i].room /\ assets'[i].space = assets[i].space
                                  /\ assets'[i].image = assets[i].image /\ assets'[i].message = assets[i].message
      /\ \A i \in DOMAIN assets' : /\ i \notin DOMAIN assets => assets'[i].message = "none"
                                   /\ Acceptable(assets'[i].image) /\ assets'[i].of \in {"none", assets'[i].image.name}
      /\ LookOK(r, assets') /\ NotesOK(r, assets')
    BY VisionFacts
<1> QED
    BY <1>1, LookMoves

(* A request that has thrown, answered or is about to describe: its place   *)
(* and the notes it has so far are as they were.                            *)
LEMMA LookGoesOn ==
    ASSUME VisionIInv, NEW q \in Looks, NEW pc \in {"store", "mark", "fail", "turn", "attach", "failed"}
    PROVE  LET r == [looking[q] EXCEPT !.pc = pc] IN
           /\ r \in Look(Len(assets)) /\ r.pc = pc /\ r.described = looking[q].described /\ r.used = looking[q].used
           /\ r.room = looking[q].room /\ r.space = looking[q].space /\ r.files = looking[q].files
           /\ r.asset = looking[q].asset
BY VisionFacts, ZenonT(60) DEF Look

LEMMA LookThrows ==
    ASSUME VisionIInv, NEW q \in Looks, NEW pc \in {"turn", "attach", "failed"},
           looking' = [looking EXCEPT ![q].pc = pc], looking[q].pc # "done", UNCHANGED assets
    PROVE  VisionIInv'
<1> DEFINE r == [looking[q] EXCEPT !.pc = pc]
<1>1. looking' = [looking EXCEPT ![q] = r]
    BY VisionFacts
<1>2. /\ r \in Look(Len(assets)) /\ r.pc = pc /\ r.described = looking[q].described /\ r.used = looking[q].used
      /\ r.room = looking[q].room /\ r.space = looking[q].space
    BY VisionFacts, ZenonT(60) DEF Look
<1> HIDE DEF r
<1>3. LookOK(r, assets) /\ NotesOK(r, assets)
    BY <1>2, VisionFacts, SMTT(60) DEF LookOK, NotesOK
<1> QED
    BY <1>1, <1>2, <1>3, LookPasses

(* The next file, once asset i of this conversation has been described.    *)
LEMMA NextFile ==
    ASSUME NEW n \in Nat, NEW look \in Look(n), NEW i \in 1..n, assets' \in Seq(Asset), Len(assets') = n,
           look.files # <<>>, look.room \in Rooms, look.space \in VisionSpaces, Len(look.described) = Len(look.used),
           NotesOK(look, assets'), assets'[i].room = look.room, assets'[i].space = look.space,
           assets'[i].of \in {"none", assets'[i].image.name}
    PROVE  LET r == Next1(look, i) IN
           r \in Look(n) /\ r.pc # "done" /\ LookOK(r, assets') /\ NotesOK(r, assets')
<1> DEFINE of == assets'[i].of
           r == [pc |-> IF Tail(look.files) = <<>> THEN "turn" ELSE "find", room |-> look.room, space |-> look.space,
                 files |-> Tail(look.files), asset |-> 0, described |-> Append(look.described, i),
                 used |-> Append(look.used, of)]
<1>1. of \in Summaries
  <2>1. assets'[i] \in Asset
    BY ElementOfSeq
  <2> QED
    BY <2>1 DEF Asset
<1>2. Next1(look, i) = r
    BY DEF Next1
<1> HIDE DEF of
<1>3. Tail(look.files) \in Seq(Images)
    BY HeadTailProperties DEF Look
<1>4. /\ Append(look.described, i) \in Seq(1..n) /\ Len(Append(look.described, i)) = Len(look.described) + 1
      /\ Len(look.described) \in Nat
      /\ \A k \in 1..Len(look.described) : Append(look.described, i)[k] = look.described[k]
      /\ Append(look.described, i)[Len(look.described) + 1] = i
      /\ DOMAIN Append(look.described, i) = 1..Len(look.described) + 1
      /\ DOMAIN look.described = 1..Len(look.described)
    BY AppendProperties, LenProperties DEF Look
<1>5. /\ Append(look.used, of) \in Seq(Summaries) /\ Len(Append(look.used, of)) = Len(look.used) + 1
      /\ \A k \in 1..Len(look.used) : Append(look.used, of)[k] = look.used[k]
      /\ Append(look.used, of)[Len(look.used) + 1] = of
    BY <1>1, AppendProperties, LenProperties DEF Look
<1>6. r \in Look(n)
    BY <1>3, <1>4, <1>5 DEF Look
<1>7. LookOK(r, assets')
    BY <1>4, <1>5 DEF LookOK
<1>8. NotesOK(r, assets')
  <2> SUFFICES ASSUME NEW k \in 1..Len(look.described) + 1
               PROVE  LET a == assets'[Append(look.described, i)[k]] IN
                      a.room = look.room /\ a.space = look.space /\ Append(look.used, of)[k] \in {"none", a.image.name}
    BY <1>4 DEF NotesOK
  <2>1. CASE k \in 1..Len(look.described)
    BY <1>4, <1>5, <2>1 DEF NotesOK
  <2>2. CASE k = Len(look.described) + 1
    <3>1. Append(look.described, i)[k] = i
      BY <1>4, <2>2
    <3>2. Append(look.used, of)[k] = of
      BY <1>5, <2>2
    <3> QED
      BY <3>1, <3>2 DEF of
  <2>3. k \in 1..Len(look.described) \/ k = Len(look.described) + 1
    <3>1. Len(look.described) \in Nat
      BY <1>4
    <3> QED
      BY <3>1
  <2> QED
    BY <2>1, <2>2, <2>3
<1> QED
    BY <1>2, <1>6, <1>7, <1>8

(* The row of one asset changes in what was read and its status.           *)
LEMMA RowChanges ==
    ASSUME VisionIInv, NEW i \in DOMAIN assets, NEW e \in Asset, assets' = [assets EXCEPT ![i] = e],
           e.room = assets[i].room, e.space = assets[i].space, e.image = assets[i].image,
           e.message = assets[i].message, e.of \in {"none", assets[i].image.name}
    PROVE  /\ assets' \in Seq(Asset) /\ Len(assets') = Len(assets) /\ DOMAIN assets' = DOMAIN assets
           /\ \A k \in DOMAIN assets : /\ assets'[k].room = assets[k].room /\ assets'[k].space = assets[k].space
                                       /\ assets'[k].image = assets[k].image /\ assets'[k].message = assets[k].message
           /\ \A k \in DOMAIN assets' : /\ k \notin DOMAIN assets => assets'[k].message = "none"
                                        /\ Acceptable(assets'[k].image) /\ assets'[k].of \in {"none", assets'[k].image.name}
<1>1. /\ assets' \in Seq(Asset) /\ Len(assets') = Len(assets)
      /\ \A k \in 1..Len(assets) : assets'[k] = IF k = i THEN e ELSE assets[k]
    BY VisionFacts, ExceptSeq
<1>2. DOMAIN assets' = DOMAIN assets /\ DOMAIN assets = 1..Len(assets)
    BY <1>1, VisionFacts, LenProperties
<1> QED
    BY <1>1, <1>2, VisionFacts

LEMMA VisionStep == VisionIInv /\ [VisionNext]_visionVars => VisionIInv'
<1> SUFFICES ASSUME VisionIInv, [VisionNext]_visionVars PROVE VisionIInv'
    OBVIOUS
<1> USE VisionConstants
<1>1. ASSUME NEW q \in Looks, NEW room \in Rooms, NEW scope \in {"personal", "professional"},
             NEW space \in {"general", "other"}, NEW files \in Selections, Analyze(q, room, scope, space, files)
      PROVE  VisionIInv'
  <2>1. looking[q].pc = "idle" /\ UNCHANGED assets
    BY <1>1 DEF Analyze
  <2>2. CASE files = <<>> \/ Len(files) > MaxFiles \/ NormalizeTargetSpace(scope, space) = "none"
    BY <1>1, <2>1, <2>2, LookThrows DEF Analyze, Throws
  <2>3. CASE ~(files = <<>> \/ Len(files) > MaxFiles \/ NormalizeTargetSpace(scope, space) = "none")
    <3> DEFINE r == [pc |-> "find", room |-> room, space |-> NormalizeTargetSpace(scope, space), files |-> files,
                     asset |-> 0, described |-> <<>>, used |-> <<>>]
    <3>1. looking' = [looking EXCEPT ![q] = r] /\ files # <<>>
        BY <1>1, <2>3 DEF Analyze
    <3>2. NormalizeTargetSpace(scope, space) \in VisionSpaces /\ files \in Seq(Images)
        BY <2>3 DEF NormalizeTargetSpace, VisionSpaces
    <3>3. \A n \in Nat : <<>> \in Seq(1..n) /\ <<>> \in Seq(Summaries)
        BY EmptySeq
    <3>4. /\ r \in Look(Len(assets)) /\ r.pc = "find" /\ r.files = files /\ r.room = room
          /\ r.space \in VisionSpaces /\ r.described = <<>> /\ r.used = <<>>
        BY <3>2, <3>3, VisionFacts DEF Look
    <3> HIDE DEF r
    <3>5. LookOK(r, assets) /\ NotesOK(r, assets)
        BY <3>1, <3>4, EmptySeq DEF LookOK, NotesOK
    <3> QED
        BY <2>1, <3>1, <3>4, <3>5, LookPasses
  <2> QED
    BY <2>2, <2>3
<1>2. ASSUME NEW q \in Looks, FindAsset(q) PROVE VisionIInv'
  <2>1. /\ looking[q].pc = "find" /\ UNCHANGED assets /\ looking[q] \in Look(Len(assets)) /\ looking[q].files # <<>>
        /\ looking[q].room \in Rooms /\ looking[q].space \in VisionSpaces
        /\ Len(looking[q].described) = Len(looking[q].used) /\ NotesOK(looking[q], assets)
    BY <1>2, VisionFacts DEF FindAsset, LookOK
  <2>2. CASE ~Acceptable(Head(looking[q].files))
    BY <1>2, <2>1, <2>2, LookThrows DEF FindAsset, Throws
  <2>3. CASE Acceptable(Head(looking[q].files)) /\ looking' = [looking EXCEPT ![q].pc = "store"]
    <3> DEFINE r == [looking[q] EXCEPT !.pc = "store"]
    <3>1. looking' = [looking EXCEPT ![q] = r]
        BY <2>3, VisionFacts
    <3>2. /\ r \in Look(Len(assets)) /\ r.pc = "store" /\ r.described = looking[q].described /\ r.used = looking[q].used
          /\ r.room = looking[q].room /\ r.space = looking[q].space /\ r.files = looking[q].files
        BY LookGoesOn
    <3> HIDE DEF r
    <3>3. LookOK(r, assets) /\ NotesOK(r, assets)
        BY <2>1, <2>3, <3>2 DEF LookOK, NotesOK
    <3> QED
        BY <2>1, <3>1, <3>2, <3>3, LookPasses
  <2>4. ASSUME NEW i \in SameImage(q), looking' = [looking EXCEPT ![q] = Next1(looking[q], i)] PROVE VisionIInv'
    <3> DEFINE r == Next1(looking[q], i)
    <3>1. i \in 1..Len(assets) /\ assets[i].room = looking[q].room /\ assets[i].space = looking[q].space
          /\ assets[i].of \in {"none", assets[i].image.name} /\ Len(assets) \in Nat /\ assets' = assets
          /\ assets \in Seq(Asset)
        BY <2>1, VisionFacts DEF SameImage
    <3>2. r \in Look(Len(assets)) /\ r.pc # "done" /\ LookOK(r, assets) /\ NotesOK(r, assets)
        BY <2>1, <3>1, NextFile
    <3> HIDE DEF r
    <3> QED
        BY <2>1, <2>4, <3>2, LookPasses DEF r
  <2>5. ASSUME NEW i \in SameImage(q), looking' = [looking EXCEPT ![q] = [looking[q] EXCEPT !.asset = i, !.pc = "describe"]]
        PROVE  VisionIInv'
    <3> DEFINE r == [looking[q] EXCEPT !.asset = i, !.pc = "describe"]
    <3>1. i \in 1..Len(assets) /\ assets[i].room = looking[q].room /\ assets[i].space = looking[q].space
        BY VisionFacts DEF SameImage
    <3>a. r = [looking[q] EXCEPT !.asset = i, !.pc = "describe"] /\ i \in 0..Len(assets) /\ Len(assets) \in Nat
        BY <3>1, VisionFacts
    <3> HIDE DEF r
    <3>2. /\ r \in Look(Len(assets)) /\ r.pc = "describe" /\ r.asset = i /\ r.described = looking[q].described
          /\ r.used = looking[q].used /\ r.room = looking[q].room /\ r.space = looking[q].space
          /\ r.files = looking[q].files
        BY <2>1, <3>a DEF Look
    <3>3. LookOK(r, assets)
        BY <2>1, <3>1, <3>2 DEF LookOK
    <3>4. NotesOK(r, assets)
        BY <2>1, <3>2, NotesStay
    <3> QED
        BY <2>1, <2>5, <3>2, <3>3, <3>4, LookPasses DEF r
  <2> QED
    BY <1>2, <2>2, <2>3, <2>4, <2>5 DEF FindAsset
<1>3. ASSUME NEW q \in Looks, StoreAsset(q) PROVE VisionIInv'
  <2> DEFINE n == Len(assets) + 1
             image == Head(looking[q].files)
             e == [room |-> looking[q].room, space |-> looking[q].space, image |-> image, status |-> "ready",
                   of |-> "none", message |-> "none"]
             r == [looking[q] EXCEPT !.asset = n, !.pc = "describe"]
  <2>1. /\ looking[q].pc = "store" /\ Len(assets) < MaxAssets /\ looking[q] \in Look(Len(assets))
        /\ looking[q].files # <<>> /\ looking[q].room \in Rooms /\ looking[q].space \in VisionSpaces
        /\ Acceptable(image) /\ Len(looking[q].described) = Len(looking[q].used) /\ NotesOK(looking[q], assets)
    BY <1>3, VisionFacts DEF StoreAsset, LookOK
  <2>2. image \in Images
    BY <2>1, HeadTailProperties DEF Look
  <2>3. e \in Asset /\ e.image = image /\ e.of = "none" /\ e.message = "none" /\ e.room = looking[q].room
        /\ e.space = looking[q].space
    BY <2>1, <2>2 DEF Asset, Summaries
  <2>4. assets' = Append(assets, e)
    BY <1>3 DEF StoreAsset
  <2> HIDE DEF e
  <2>5. /\ assets' \in Seq(Asset) /\ Len(assets') = n /\ DOMAIN assets' = 1..n /\ assets'[n] = e /\ n \in Nat
        /\ \A i \in DOMAIN assets : assets'[i] = assets[i]
        /\ Len(assets) <= n /\ n <= MaxAssets /\ n # 0
    BY <2>1, <2>3, <2>4, AppendProperties, LenProperties, VisionFacts
  <2>6. looking' = [looking EXCEPT ![q] = r]
    <3>1. looking' = [looking EXCEPT ![q].asset = n, ![q].pc = "describe"]
        BY <1>3, <2>5 DEF StoreAsset
    <3> QED
        BY <3>1, VisionFacts
  <2>7. looking[q] \in Look(n)
    BY <2>1, <2>5, LookGrows, VisionFacts
  <2>a. r = [looking[q] EXCEPT !.asset = n, !.pc = "describe"] /\ n \in 0..n
    BY <2>5
  <2> HIDE DEF r
  <2>8. /\ r \in Look(n) /\ r.pc = "describe" /\ r.asset = n /\ r.described = looking[q].described
        /\ r.used = looking[q].used /\ r.room = looking[q].room /\ r.space = looking[q].space
        /\ r.files = looking[q].files
    BY <2>5, <2>7, <2>a DEF Look
  <2>9. \A i \in DOMAIN assets : assets'[i] = assets[i]
    BY <2>5
  <2>10. \A i \in DOMAIN assets' : /\ i \notin DOMAIN assets => assets'[i].message = "none"
                                   /\ Acceptable(assets'[i].image) /\ assets'[i].of \in {"none", assets'[i].image.name}
    <3> SUFFICES ASSUME NEW i \in 1..n
                 PROVE  /\ i \notin DOMAIN assets => assets'[i].message = "none"
                        /\ Acceptable(assets'[i].image) /\ assets'[i].of \in {"none", assets'[i].image.name}
        BY <2>5
    <3>1. CASE i = n
        BY <2>1, <2>3, <2>5, <3>1
    <3>2. CASE i \in DOMAIN assets
        BY <2>5, <3>2, VisionFacts
    <3>3. i = n \/ i \in DOMAIN assets
        BY VisionFacts
    <3> QED
        BY <3>1, <3>2, <3>3
  <2>11. LookOK(r, assets')
    BY <2>1, <2>3, <2>5, <2>8 DEF LookOK
  <2>12. NotesOK(r, assets')
    <3>1. \A k \in DOMAIN looking[q].described : looking[q].described[k] \in DOMAIN assets
        BY <2>1, VisionFacts, DescribedAreAssets
    <3>2. \A k \in DOMAIN looking[q].described : assets'[looking[q].described[k]] = assets[looking[q].described[k]]
        BY <2>9, <3>1
    <3>3. NotesOK(looking[q], assets)
        BY <2>1
    <3> QED
        BY <2>8, <3>2, <3>3, NotesStay
  <2> HIDE DEF n
  <2> QED
    BY <2>1, <2>5, <2>6, <2>8, <2>9, <2>10, <2>11, <2>12, LookMoves
<1>4. ASSUME NEW q \in Looks, AnalyzeImage(q) PROVE VisionIInv'
  <2>1. PICK pc \in {"mark", "fail"} : looking' = [looking EXCEPT ![q].pc = pc]
    BY <1>4 DEF AnalyzeImage
  <2> DEFINE r == [looking[q] EXCEPT !.pc = pc]
  <2>2. looking' = [looking EXCEPT ![q] = r] /\ looking[q].pc = "describe" /\ UNCHANGED assets
    BY <1>4, <2>1, VisionFacts DEF AnalyzeImage
  <2>3. /\ r \in Look(Len(assets)) /\ r.pc = pc /\ r.described = looking[q].described /\ r.used = looking[q].used
        /\ r.room = looking[q].room /\ r.space = looking[q].space /\ r.files = looking[q].files
        /\ r.asset = looking[q].asset
    BY VisionFacts, ZenonT(60) DEF Look
  <2> HIDE DEF r
  <2>a. LookOK(looking[q], assets) /\ NotesOK(looking[q], assets)
    BY VisionFacts
  <2>4. LookOK(r, assets)
    BY <2>2, <2>3, <2>a DEF LookOK
  <2>5. NotesOK(r, assets)
    BY <2>3, <2>a, NotesStay
  <2> QED
    BY <2>2, <2>3, <2>4, <2>5, LookPasses
<1>5. ASSUME NEW q \in Looks, MarkAnalyzed(q) PROVE VisionIInv'
  <2> DEFINE i == looking[q].asset
  <2>1. /\ looking[q].pc = "mark" /\ looking[q] \in Look(Len(assets)) /\ looking[q].files # <<>>
        /\ looking[q].room \in Rooms /\ looking[q].space \in VisionSpaces /\ i \in DOMAIN assets
        /\ assets[i].room = looking[q].room /\ assets[i].space = looking[q].space
        /\ Len(looking[q].described) = Len(looking[q].used) /\ NotesOK(looking[q], assets)
    BY <1>5, VisionFacts DEF MarkAnalyzed, LookOK, Look
  <2>2. PICK of \in {"none", assets[i].image.name} :
            /\ assets' = [assets EXCEPT ![i].status = "analyzed", ![i].of = of]
            /\ looking' = [looking EXCEPT ![q] = Next1(looking[q], i)]
    BY <1>5 DEF MarkAnalyzed
  <2> DEFINE e == [assets[i] EXCEPT !.status = "analyzed", !.of = of]
             r == Next1(looking[q], i)
  <2>3. assets' = [assets EXCEPT ![i] = e]
    BY <2>1, <2>2, VisionFacts
  <2>a. e = [assets[i] EXCEPT !.status = "analyzed", !.of = of] /\ assets[i] \in Asset /\ of \in Summaries
    BY <2>1, VisionFacts DEF Asset, Summaries
  <2> HIDE DEF e
  <2>b. /\ e \in Asset /\ e.room = assets[i].room /\ e.space = assets[i].space /\ e.image = assets[i].image
        /\ e.message = assets[i].message /\ e.of \in {"none", assets[i].image.name}
    BY <2>a DEF Asset
  <2>4. /\ assets' \in Seq(Asset) /\ Len(assets') = Len(assets) /\ DOMAIN assets' = DOMAIN assets
        /\ \A k \in DOMAIN assets : /\ assets'[k].room = assets[k].room /\ assets'[k].space = assets[k].space
                                    /\ assets'[k].image = assets[k].image /\ assets'[k].message = assets[k].message
        /\ \A k \in DOMAIN assets' : /\ k \notin DOMAIN assets => assets'[k].message = "none"
                                     /\ Acceptable(assets'[k].image) /\ assets'[k].of \in {"none", assets'[k].image.name}
    BY <2>1, <2>3, <2>b, RowChanges
  <2>5. NotesOK(looking[q], assets')
    <3>1. \A k \in DOMAIN looking[q].described : looking[q].described[k] \in DOMAIN assets
        BY <2>1, VisionFacts, DescribedAreAssets
    <3> QED
        BY <2>1, <2>4, <3>1, ZenonT(60) DEF NotesOK
  <2>6. Len(assets) \in Nat /\ i \in 1..Len(assets) /\ Len(assets) <= Len(assets) /\ Len(assets) <= MaxAssets
    BY <2>1, VisionFacts
  <2>7. r \in Look(Len(assets)) /\ r.pc # "done" /\ LookOK(r, assets') /\ NotesOK(r, assets')
    <3>1. assets'[i].room = looking[q].room /\ assets'[i].space = looking[q].space
          /\ assets'[i].of \in {"none", assets'[i].image.name}
        BY <2>1, <2>4
    <3> HIDE DEF i
    <3> QED
        BY <2>1, <2>4, <2>5, <2>6, <3>1, NextFile
  <2>8. looking' = [looking EXCEPT ![q] = r] /\ looking[q].pc # "done"
    BY <2>1, <2>2
  <2> HIDE DEF r, i
  <2> QED
    BY <2>4, <2>6, <2>7, <2>8, LookMoves
<1>6. ASSUME NEW q \in Looks, MarkFailed(q) PROVE VisionIInv'
  <2> DEFINE i == looking[q].asset
             r == [looking[q] EXCEPT !.pc = "failed"]
             e == [assets[i] EXCEPT !.status = "failed"]
  <2>1. /\ looking[q].pc = "fail" /\ looking[q] \in Look(Len(assets)) /\ i \in DOMAIN assets
        /\ Len(looking[q].described) = Len(looking[q].used) /\ NotesOK(looking[q], assets)
        /\ assets[i].of \in {"none", assets[i].image.name}
    BY <1>6, VisionFacts DEF MarkFailed, LookOK, Look
  <2>2. assets' = [assets EXCEPT ![i] = e] /\ looking' = [looking EXCEPT ![q] = r]
    BY <1>6, <2>1, VisionFacts DEF MarkFailed, Throws
  <2>a. /\ e \in Asset /\ e.room = assets[i].room /\ e.space = assets[i].space /\ e.image = assets[i].image
        /\ e.message = assets[i].message /\ e.of \in {"none", assets[i].image.name}
    BY <2>1, VisionFacts DEF Asset
  <2> HIDE DEF e
  <2>3. /\ assets' \in Seq(Asset) /\ Len(assets') = Len(assets) /\ DOMAIN assets' = DOMAIN assets
        /\ \A k \in DOMAIN assets : /\ assets'[k].room = assets[k].room /\ assets'[k].space = assets[k].space
                                    /\ assets'[k].image = assets[k].image /\ assets'[k].message = assets[k].message
        /\ \A k \in DOMAIN assets' : /\ k \notin DOMAIN assets => assets'[k].message = "none"
                                     /\ Acceptable(assets'[k].image) /\ assets'[k].of \in {"none", assets'[k].image.name}
    BY <2>1, <2>2, <2>a, RowChanges
  <2>4. r \in Look(Len(assets)) /\ r.pc = "failed" /\ r.described = looking[q].described /\ r.used = looking[q].used
        /\ r.room = looking[q].room /\ r.space = looking[q].space
    BY <2>1 DEF Look
  <2>5. Len(assets) \in Nat /\ Len(assets) <= Len(assets) /\ Len(assets) <= MaxAssets
    BY VisionFacts
  <2> HIDE DEF r
  <2>6. LookOK(r, assets')
    BY <2>1, <2>4 DEF LookOK
  <2>7. NotesOK(r, assets')
    <3>1. \A k \in DOMAIN looking[q].described : looking[q].described[k] \in DOMAIN assets
        BY <2>1, VisionFacts, DescribedAreAssets
    <3> QED
        BY <2>1, <2>3, <2>4, <3>1 DEF NotesOK
  <2> HIDE DEF i, e
  <2> QED
    BY <2>1, <2>2, <2>3, <2>4, <2>5, <2>6, <2>7, LookMoves
<1>7. ASSUME NEW q \in Looks, AnswerLook(q) PROVE VisionIInv'
  <2>1. PICK pc \in {"attach", "failed"} : looking' = [looking EXCEPT ![q].pc = pc]
    BY <1>7 DEF AnswerLook
  <2>2. looking[q].pc = "turn" /\ UNCHANGED assets
    BY <1>7 DEF AnswerLook
  <2> QED
    BY <2>1, <2>2, LookThrows
<1>8. ASSUME NEW q \in Looks, AttachToMessage(q) PROVE VisionIInv'
  <2> DEFINE Own(i) == \E k \in DOMAIN looking[q].described : looking[q].described[k] = i
             kept(i) == IF Own(i) THEN [assets[i] EXCEPT !.message = q] ELSE assets[i]
             r == [looking[q] EXCEPT !.pc = "done"]
  <2>1. /\ looking[q].pc = "attach" /\ looking[q] \in Look(Len(assets)) /\ NotesOK(looking[q], assets)
        /\ LookOK(looking[q], assets)
    BY <1>8, VisionFacts DEF AttachToMessage
  <2>2. assets' = [i \in 1..Len(assets) |-> kept(i)] /\ looking' = [looking EXCEPT ![q] = r]
    BY <1>8, <2>1, VisionFacts DEF AttachToMessage
  <2>3. \A i \in DOMAIN assets : kept(i) \in Asset
    BY VisionFacts DEF Asset
  <2>4. \A i \in DOMAIN assets : /\ kept(i).room = assets[i].room /\ kept(i).space = assets[i].space
                                 /\ kept(i).image = assets[i].image /\ kept(i).of = assets[i].of
                                 /\ kept(i).message = IF Own(i) THEN q ELSE assets[i].message
    BY VisionFacts DEF Asset
  <2> HIDE DEF kept
  <2>5. /\ assets' \in Seq(Asset) /\ Len(assets') = Len(assets) /\ DOMAIN assets' = DOMAIN assets
        /\ \A i \in DOMAIN assets : assets'[i] = kept(i)
    BY <2>2, <2>3, VisionFacts, SeqDef, LenProperties
  <2>6. \A i \in DOMAIN assets : /\ assets'[i].room = assets[i].room /\ assets'[i].space = assets[i].space
                                 /\ assets'[i].image = assets[i].image /\ assets'[i].of = assets[i].of
                                 /\ assets'[i].message = IF Own(i) THEN q ELSE assets[i].message
    BY <2>4, <2>5
  <2>7. /\ r \in Look(Len(assets)) /\ r.pc = "done" /\ r.described = looking[q].described /\ r.used = looking[q].used
        /\ r.room = looking[q].room /\ r.space = looking[q].space
    BY <2>1 DEF Look
  <2> HIDE DEF r
  <2>8. looking'[q] = r /\ (\A s \in Looks \ {q} : looking'[s] = looking[s]) /\ looking' \in [Looks -> Look(Len(assets))]
    BY <2>2, <2>7, VisionFacts
  <2>9. \A s \in Looks : looking'[s].described = looking[s].described /\ looking'[s].used = looking[s].used
                         /\ looking'[s].room = looking[s].room /\ looking'[s].space = looking[s].space
    BY <2>7, <2>8
  <2>10. \A s \in Looks : \A k \in DOMAIN looking[s].described : looking[s].described[k] \in DOMAIN assets
    BY VisionFacts, DescribedAreAssets
  <2>11. VisionTypeOK'
    BY <2>5, <2>8, VisionFacts DEF VisionTypeOK
  <2>12. NotesOfOwnImages'
    BY <2>6, <2>9, <2>10 DEF VisionIInv, VisionInv, NotesOfOwnImages
  <2>13. LookInv'
    <3> SUFFICES ASSUME NEW s \in Looks PROVE LookOK(looking'[s], assets')
        BY DEF LookInv, LookOK
    <3>1. CASE s = q
        BY <2>1, <2>7, <2>8, <3>1 DEF LookOK
    <3>2. CASE s # q
      <4>1. looking'[s] = looking[s] /\ looking[s] \in Look(Len(assets)) /\ LookOK(looking[s], assets)
        BY <2>8, <3>2, VisionFacts
      <4>2. looking[s].asset # 0 => looking[s].asset \in DOMAIN assets
        BY <4>1, VisionFacts DEF Look
      <4> QED
        BY <2>6, <4>1, <4>2 DEF LookOK
    <3> QED
        BY <3>1, <3>2
  <2>14. AssetInv' /\ StoredIsAcceptable'
    <3> SUFFICES ASSUME NEW i \in DOMAIN assets
                 PROVE  /\ assets'[i].of \in {"none", assets'[i].image.name} /\ Acceptable(assets'[i].image)
                        /\ assets'[i].message # "none" => looking'[assets'[i].message].pc = "done"
        BY <2>5 DEF AssetInv, StoredIsAcceptable
    <3>1. assets'[i].of \in {"none", assets'[i].image.name} /\ Acceptable(assets'[i].image)
        BY <2>6, VisionFacts
    <3>2. CASE Own(i)
        BY <2>6, <2>7, <2>8, <3>1, <3>2
    <3>3. CASE ~Own(i)
        BY <2>6, <2>7, <2>8, <3>1, <3>3, VisionFacts DEF Asset
    <3> QED
        BY <3>2, <3>3
  <2>15. AttachedAtHome'
    <3>1. ASSUME NEW i \in DOMAIN assets, assets'[i].message # "none"
          PROVE  looking'[assets'[i].message].room = assets'[i].room
      <4>1. CASE Own(i)
        BY <2>1, <2>6, <2>9, <4>1 DEF NotesOK
      <4>2. CASE ~Own(i)
        BY <2>6, <2>9, <3>1, <4>2, VisionFacts DEF Asset
      <4> QED
        BY <4>1, <4>2
    <3>2. ASSUME NEW s \in Looks, looking'[s].pc = "done", NEW k \in DOMAIN looking[s].described
          PROVE  assets'[looking[s].described[k]].message # "none"
      <4>1. CASE s = q
        BY <2>6, <2>10, <4>1
      <4>2. CASE s # q
        <5>1. assets[looking[s].described[k]].message # "none"
            BY <2>8, <3>2, <4>2 DEF VisionIInv, VisionInv, AttachedAtHome
        <5> QED
            BY <2>6, <2>10, <5>1
      <4> QED
        BY <4>1, <4>2
    <3> QED
        BY <2>5, <2>9, <3>1, <3>2 DEF AttachedAtHome
  <2> QED
    BY <2>11, <2>12, <2>13, <2>14, <2>15 DEF VisionIInv, VisionInv
<1>9. CASE UNCHANGED visionVars
    BY <1>9 DEF visionVars, VisionIInv, VisionInv, VisionTypeOK, LookInv, AssetInv, NotesOfOwnImages, AttachedAtHome,
                StoredIsAcceptable
<1> QED
    BY <1>1, <1>2, <1>3, <1>4, <1>5, <1>6, <1>7, <1>8, <1>9 DEF VisionNext

(* However many requests bring images of a conversation at once, and        *)
(* whichever of them fails: every note a turn is given is of an asset of    *)
(* its conversation and space and says nothing or what was read in that     *)
(* image, and an answered turn leaves its images attached (analyze).        *)
THEOREM NotesAreOfTheirImages == VisionSpec => []VisionSafe
<1>1. VisionInit => VisionIInv
  <2> SUFFICES ASSUME VisionInit PROVE VisionIInv
    OBVIOUS
  <2>1. /\ \A S : <<>> \in Seq(S)
        /\ Len(assets) = 0 /\ DOMAIN assets = {} /\ DOMAIN <<>> = {}
    BY EmptySeq DEF VisionInit
  <2>2. NotLooking \in Look(0)
    BY <2>1 DEF NotLooking, Look
  <2>3. VisionTypeOK
    BY <2>1, <2>2, VisionConstants DEF VisionInit, VisionTypeOK
  <2> QED
    BY <2>1, <2>3
    DEF VisionInit, VisionIInv, VisionInv, LookInv, AssetInv, NotesOfOwnImages, AttachedAtHome, StoredIsAcceptable,
        NotLooking
<1>2. VisionIInv => VisionSafe
    BY DEF VisionIInv, VisionInv, VisionSafe
<1> QED
    BY <1>1, <1>2, VisionStep, PTL DEF VisionSpec

-------------------------------------------------------------------------------
(* Tools *)

ToolsIInv == ToolsTypeOK /\ ToolsInv

(* What holds of a call in state r. *)
CallOK(r) ==
    /\ r \in CallPlace(Len(records), Len(contacts)) /\ CallHolds(r)
    /\ r.tool.does # "draft" => \A i \in r.result : records[i].lane = r.lane
    /\ r.tool.level = "N2" /\ r.pc \in {"check", "addresses", "act", "done"} => r.approved

RowsOK ==
    /\ contacts \in Seq(ContactRow) /\ records \in Seq(RecordRow(Len(contacts))) /\ Len(records) <= MaxRecords
    /\ moves \in 0..MaxMoves
    /\ \A i \in DOMAIN records : records[i].by \in {"none", records[i].lane}

LEMMA ToolsParts ==
    ASSUME ToolsIInv
    PROVE  RowsOK /\ toolCall \in [ToolCalls -> CallPlace(Len(records), Len(contacts))]
                  /\ \A c \in ToolCalls : CallOK(toolCall[c])
BY DEF ToolsIInv, ToolsTypeOK, ToolsInv, CallsInv, ToolsKeepLane, ApprovedFirst, RowsOK, CallOK

CallsOK == toolCall \in [ToolCalls -> CallPlace(Len(records), Len(contacts))] /\ \A c \in ToolCalls : CallOK(toolCall[c])

LEMMA ToolsHold == RowsOK /\ CallsOK => ToolsIInv
<1> SUFFICES ASSUME RowsOK, CallsOK PROVE ToolsIInv
    OBVIOUS
<1>1. ToolsTypeOK /\ CallsInv /\ ToolsKeepLane /\ ApprovedFirst
    BY DEF ToolsTypeOK, CallsInv, ToolsKeepLane, ApprovedFirst, RowsOK, CallsOK, CallOK
<1>2. NobodyElse
    BY DEF NobodyElse, CallsOK, CallOK, CallHolds, MayWriteTo
<1> QED
    BY <1>1, <1>2 DEF ToolsIInv, ToolsInv

LEMMA RowFacts ==
    ASSUME RowsOK
    PROVE  /\ Len(contacts) \in Nat /\ DOMAIN contacts = 1..Len(contacts)
           /\ \A p \in DOMAIN contacts : contacts[p] \in ContactRow
           /\ Len(records) \in Nat /\ DOMAIN records = 1..Len(records)
           /\ \A i \in DOMAIN records : records[i] \in RecordRow(Len(contacts))
BY ElementOfSeq, LenProperties DEF RowsOK

(* What every step leaves of the rows: rows are added and records keep their *)
(* lane.                                                                    *)
RowsKept ==
    /\ RowsOK /\ RowsOK' /\ Len(contacts) <= Len(contacts') /\ Len(records) <= Len(records')
    /\ \A i \in DOMAIN records : records'[i].lane = records[i].lane

(* Most leave the contacts as well.                                        *)
ContactsKept ==
    /\ Blocked \subseteq Blocked'
    /\ \A p \in DOMAIN contacts : SameToFind(contacts'[p], contacts[p])

LEMMA CallPlaceGrows ==
    ASSUME NEW n \in Nat, NEW k \in Nat, NEW n1 \in Nat, NEW k1 \in Nat, n <= n1, k <= k1, NEW r \in CallPlace(n, k)
    PROVE  r \in CallPlace(n1, k1)
<1>1. SearchPlace(k) \subseteq SearchPlace(k1)
    BY DEF SearchPlace
<1>2. r.search \in SearchPlace(k1)
    BY <1>1 DEF CallPlace
<1>3. /\ r.party \in 0..k1 /\ r.blocked \in SUBSET (1..k1) /\ r.known \in 0..k1 /\ r.changed \in SUBSET (1..k1)
      /\ r.result \in SUBSET (1..n1)
    BY DEF CallPlace
<1>4. PICK a, d, f, g, h, x, y, z :
            /\ a = 0..k1 /\ d = SUBSET (1..k1) /\ f = SUBSET (1..n1) /\ g = SearchPlace(k1)
            /\ x = 0..k /\ y = SUBSET (1..k) /\ z = SUBSET (1..n) /\ h = SearchPlace(k)
    OBVIOUS
<1>5. r \in [pc : {"idle", "waiting", "check", "addresses", "act", "done", "refused"}, tool : ToolSet, lane : ToolLanes,
              target : Nat, file : Nat, name : AskedNames \union {{}}, party : x, approved : BOOLEAN,
              blocked : y, known : x, changed : y, search : h,
              wants : SUBSET {"phone", "mail"}, result : z, sent : BOOLEAN]
    BY <1>4 DEF CallPlace
<1>6. r.party \in a /\ r.blocked \in d /\ r.known \in a /\ r.changed \in d /\ r.result \in f /\ r.search \in g
    BY <1>2, <1>3, <1>4
<1>7. r \in [pc : {"idle", "waiting", "check", "addresses", "act", "done", "refused"}, tool : ToolSet, lane : ToolLanes,
              target : Nat, file : Nat, name : AskedNames \union {{}}, party : a, approved : BOOLEAN,
              blocked : d, known : a, changed : d, search : g,
              wants : SUBSET {"phone", "mail"}, result : f, sent : BOOLEAN]
    BY <1>5, <1>6
<1> QED
    BY <1>4, <1>7 DEF CallPlace

(* What a call read of a contact that has not changed is still true of it.  *)
LEMMA ContactSame ==
    ASSUME NEW p, SameToFind(contacts'[p], contacts[p]), NEW name, NEW kind
    PROVE  /\ Means(name, p)' = Means(name, p) /\ Address(p, kind)' = Address(p, kind)
           /\ contacts'[p].name = contacts[p].name
BY DEF SameToFind, Means, Address

LEMMA SearchKept ==
    ASSUME RowsKept, NEW r \in CallPlace(Len(records), Len(contacts)),
           \A p \in DOMAIN contacts : p \notin r.changed => SameToFind(contacts'[p], contacts[p])
    PROVE  /\ r.party # 0 /\ RightParty(r) => RightParty(r)'
           /\ SearchHolds(r) => SearchHolds(r)'
<1>1. Len(contacts) \in Nat /\ DOMAIN contacts = 1..Len(contacts)
    BY RowFacts DEF RowsKept
<1>2. r.party \in 0..Len(contacts) /\ r.known \in 0..Len(contacts) /\ r.search.found \in SUBSET (1..Len(contacts))
    BY DEF CallPlace, SearchPlace
<1>3. \A p \in DOMAIN contacts : p \notin r.changed =>
            /\ Means(r.name, p)' = Means(r.name, p) /\ Address(p, r.tool.kind)' = Address(p, r.tool.kind)
            /\ contacts'[p].name = contacts[p].name
    BY ContactSame
<1>4. /\ \A p \in Steady(r) : p \in DOMAIN contacts /\ p \notin r.changed
      /\ \A p \in r.search.found : p \in DOMAIN contacts
      /\ r.party # 0 => r.party \in DOMAIN contacts
    BY <1>1, <1>2 DEF Steady
<1>5. ASSUME r.party # 0, RightParty(r) PROVE RightParty(r)'
    BY <1>3, <1>4, <1>5 DEF RightParty, Steady
<1>6. ASSUME SearchHolds(r) PROVE SearchHolds(r)'
    BY <1>3, <1>4, <1>6 DEF SearchHolds, Steady
<1> QED
    BY <1>5, <1>6

LEMMA CallKept ==
    ASSUME RowsKept, NEW r, CallOK(r), r.blocked \subseteq Blocked',
           \A p \in DOMAIN contacts : p \notin r.changed => SameToFind(contacts'[p], contacts[p])
    PROVE  CallOK(r)'
<1>1. /\ Len(contacts) \in Nat /\ DOMAIN contacts = 1..Len(contacts) /\ Len(records) \in Nat
      /\ DOMAIN records = 1..Len(records) /\ RowsOK /\ RowsOK'
      /\ Len(contacts') \in Nat /\ DOMAIN contacts' = 1..Len(contacts') /\ Len(records') \in Nat
      /\ DOMAIN records' = 1..Len(records')
    BY RowFacts, LenProperties DEF RowsKept, RowsOK
<1>2. r.result \in SUBSET (1..Len(records)) /\ r \in CallPlace(Len(records), Len(contacts))
    BY DEF CallOK, CallPlace
<1>3. (r \in CallPlace(Len(records), Len(contacts)))'
  <2>1. r \in CallPlace(Len(records'), Len(contacts'))
    BY <1>1, <1>2, CallPlaceGrows DEF RowsKept
  <2> QED
    BY <2>1 DEF CallPlace, SearchPlace
<1>4. (r.party # 0 /\ RightParty(r) => RightParty(r)') /\ (SearchHolds(r) => SearchHolds(r)')
    BY <1>2, SearchKept
<1>5. MayWriteTo(r) => MayWriteTo(r)'
    BY <1>4 DEF MayWriteTo
<1>6. CallHolds(r)'
  <2>1. CallHolds(r)
    BY DEF CallOK
  <2>2. r.pc = "act" /\ r.tool.does = "change" => r.target \in DOMAIN records
    BY <2>1 DEF CallHolds, ByRow
  <2> QED
    BY <1>1, <1>4, <1>5, <2>1, <2>2 DEF CallHolds, RowsKept
<1>7. (r.tool.does # "draft" => \A i \in r.result : records[i].lane = r.lane)'
    BY <1>1, <1>2 DEF CallOK, RowsKept
<1> QED
    BY <1>3, <1>6, <1>7 DEF CallOK

(* The next state, call by call.                                           *)
LEMMA CallsHold ==
    ASSUME RowsOK', toolCall' = [c \in ToolCalls |-> toolCall'[c]],
           \A c \in ToolCalls : \E q : q = toolCall'[c] /\ CallOK(q)'
    PROVE  ToolsIInv'
<1>1. ASSUME NEW c \in ToolCalls PROVE CallOK(toolCall[c])'
  <2>1. PICK q : q = toolCall'[c] /\ CallOK(q)'
    OBVIOUS
  <2> QED
    BY <2>1 DEF CallOK, CallHolds, MayWriteTo, RightParty, SearchHolds, Steady, Means, Address
<1>2. \A c \in ToolCalls : toolCall'[c] \in CallPlace(Len(records'), Len(contacts'))
    BY <1>1 DEF CallOK
<1>3. RowsOK' /\ CallsOK'
    BY <1>1, <1>2 DEF CallsOK
<1> QED
    BY <1>3, ToolsHold, PTL

(* A call moves to r, and the rows change in a way the others do not mind.  *)
LEMMA CallMovesTo ==
    ASSUME ToolsIInv, NEW c \in ToolCalls, NEW r, toolCall' = [toolCall EXCEPT ![c] = r], CallOK(r)',
           RowsKept, ContactsKept
    PROVE  ToolsIInv'
<1>1. toolCall \in [ToolCalls -> CallPlace(Len(records), Len(contacts))] /\ \A d \in ToolCalls : CallOK(toolCall[d])
    BY ToolsParts
<1>2. toolCall'[c] = r /\ \A d \in ToolCalls \ {c} : toolCall'[d] = toolCall[d]
    BY <1>1
<1>3. ASSUME NEW d \in ToolCalls PROVE \E q : q = toolCall'[d] /\ CallOK(q)'
  <2>1. PICK q : q = toolCall'[d]
    OBVIOUS
  <2>2. CASE d = c
    BY <1>2, <2>1, <2>2
  <2>3. CASE d # c
    <3>1. CallOK(q) /\ q.blocked \subseteq Blocked
        BY <1>1, <1>2, <2>1, <2>3 DEF CallOK, CallHolds
    <3>2. CallOK(q)'
        BY <3>1, CallKept DEF ContactsKept
    <3> QED
        BY <2>1, <3>2
  <2> QED
    BY <2>2, <2>3
<1>4. toolCall' = [d \in ToolCalls |-> toolCall'[d]] /\ RowsOK'
    BY <1>1 DEF RowsKept
<1> QED
    BY <1>3, <1>4, CallsHold

LEMMA RowsStay ==
    ASSUME ToolsIInv, UNCHANGED <<records, contacts, moves>>
    PROVE  RowsKept /\ ContactsKept
<1>1. RowsOK
    BY ToolsParts
<1>2. RowsOK'
    BY <1>1 DEF RowsOK
<1>3. Len(contacts) \in Nat /\ Len(records) \in Nat
    BY <1>1, RowFacts
<1> QED
    BY <1>1, <1>2, <1>3 DEF RowsKept, ContactsKept, SameToFind, Blocked

(* As long as the rows stay.                                               *)
LEMMA CallStays ==
    ASSUME ToolsIInv, NEW c \in ToolCalls, NEW r, toolCall' = [toolCall EXCEPT ![c] = r], CallOK(r),
           UNCHANGED <<records, contacts, moves>>
    PROVE  ToolsIInv'
<1>1. RowsKept /\ ContactsKept /\ r.blocked \subseteq Blocked
    BY RowsStay DEF CallOK, CallHolds
<1>2. CallOK(r)'
    BY <1>1, CallKept DEF ContactsKept
<1> QED
    BY <1>1, <1>2, CallMovesTo

(* A new call, with arguments that fit its tool.                           *)
LEMMA NewCallOK ==
    ASSUME RowsOK, NEW t \in ToolSet, NEW lane \in ToolLanes, NEW args \in Arguments(t),
           NEW pc \in {"refused", "waiting", "check"}, pc = "check" => t.level # "N2"
    PROVE  CallOK(Called(t, lane, args, pc))
<1> DEFINE r == Called(t, lane, args, pc)
<1>1. /\ args.target \in IF t.does \in ByRow THEN {i \in DOMAIN records : records[i].kind = t.kind}
                         ELSE IF t.does \in ByContact THEN DOMAIN contacts ELSE {0}
      /\ args.file \in IF t.does = "file" THEN {i \in DOMAIN records : records[i].kind = "document"} ELSE {0}
      /\ args.name \in IF t.does \in ByName THEN AskedNames ELSE {{}}
    BY DEF Arguments
<1>2. args.target \in Nat /\ args.file \in Nat /\ args.name \in AskedNames \union {{}}
    BY <1>1, RowFacts
<1>3. /\ t.does \in ByRow => args.target \in DOMAIN records
      /\ t.does \in ByContact => args.target \in DOMAIN contacts
      /\ t.does = "file" => args.file \in DOMAIN records
    BY <1>1 DEF ByRow, ByContact
<1>4. /\ r.pc = pc /\ r.tool = t /\ r.lane = lane /\ r.target = args.target /\ r.file = args.file /\ r.name = args.name
      /\ r.party = 0 /\ r.approved = FALSE /\ r.blocked = {} /\ r.known = 0 /\ r.result = {} /\ r.sent = FALSE
    BY DEF Called
<1>5. r \in CallPlace(Len(records), Len(contacts))
  <2>1. NoSearch \in SearchPlace(Len(contacts))
    BY DEF NoSearch, SearchPlace
  <2>2. Len(contacts) \in Nat
    BY RowFacts
  <2> QED
    BY <1>2, <2>1, <2>2 DEF Called, CallPlace
<1> HIDE DEF r
<1>6. CallHolds(r)
    BY <1>3, <1>4 DEF CallHolds
<1>7. CallOK(r)
    BY <1>4, <1>5, <1>6 DEF CallOK
<1> QED
    BY <1>7 DEF r

(* A call as it begins: it knows the contacts and who is blocked.          *)
LEMMA StartedFields ==
    ASSUME NEW n \in Nat, NEW k \in Nat, NEW ask \in CallPlace(n, k), k = Len(contacts), Blocked \subseteq 1..k
    PROVE  /\ Started(ask) \in CallPlace(n, k) /\ Started(ask).pc = "check" /\ Started(ask).tool = ask.tool
           /\ Started(ask).lane = ask.lane /\ Started(ask).target = ask.target /\ Started(ask).file = ask.file
           /\ Started(ask).blocked = Blocked /\ Started(ask).result = ask.result
           /\ Started(ask).sent = ask.sent /\ Started(ask).approved = ask.approved
<1>1. PICK b, m, z : b = Blocked /\ m = Len(contacts) /\ z = {}
    OBVIOUS
<1>2. b \in SUBSET (1..k) /\ m \in 0..k /\ z \in SUBSET (1..k)
    BY <1>1
<1> DEFINE r == [ask EXCEPT !.pc = "check", !.blocked = b, !.known = m, !.changed = z]
<1>3. Started(ask) = r
    BY <1>1 DEF Started
<1>4. r \in CallPlace(n, k)
    BY <1>2 DEF CallPlace
<1>5. /\ r.pc = "check" /\ r.tool = ask.tool /\ r.lane = ask.lane /\ r.target = ask.target /\ r.file = ask.file
      /\ r.blocked = b /\ r.result = ask.result /\ r.sent = ask.sent /\ r.approved = ask.approved
    BY DEF CallPlace
<1> QED
    BY <1>1, <1>3, <1>4, <1>5

LEMMA StartedOK ==
    ASSUME RowsOK, NEW ask, CallOK(ask), ask.pc # "idle", ~ask.sent,
           NEW r \in CallPlace(Len(records), Len(contacts)), r.pc = "check", r.tool = ask.tool, r.lane = ask.lane,
           r.target = ask.target, r.file = ask.file, r.blocked = Blocked, r.result = ask.result, r.sent = ask.sent,
           r.tool.level = "N2" => r.approved
    PROVE  CallOK(r)
<1>1. CallHolds(r)
    BY DEF CallOK, CallHolds
<1> QED
    BY <1>1 DEF CallOK

LEMMA CallFails ==
    ASSUME ToolsIInv, NEW c \in ToolCalls, Fail(c), toolCall[c].pc \in {"waiting", "check", "addresses", "act"}
    PROVE  ToolsIInv'
<1> DEFINE ask == toolCall[c]
           r == [ask EXCEPT !.pc = "refused"]
<1>1. toolCall' = [toolCall EXCEPT ![c] = r] /\ UNCHANGED <<records, contacts, moves>>
    BY ToolsParts DEF Fail
<1>2. CallOK(ask) /\ ask \in CallPlace(Len(records), Len(contacts))
    BY ToolsParts DEF CallOK
<1>3. /\ r \in CallPlace(Len(records), Len(contacts)) /\ r.pc = "refused" /\ r.tool = ask.tool /\ r.lane = ask.lane
      /\ r.target = ask.target /\ r.file = ask.file /\ r.blocked = ask.blocked /\ r.result = ask.result
      /\ r.sent = ask.sent
    BY <1>2 DEF CallPlace
<1> HIDE DEF r
<1>4. CallHolds(r)
    BY <1>2, <1>3 DEF CallOK, CallHolds
<1>5. CallOK(r)
    BY <1>2, <1>3, <1>4 DEF CallOK
<1> QED
    BY <1>1, <1>5, CallStays

LEMMA CallGives ==
    ASSUME ToolsIInv, NEW c \in ToolCalls, NEW rows, Give(c, rows), toolCall[c].pc \in {"check", "act"},
           rows \subseteq DOMAIN records,
           toolCall[c].tool.does # "draft" => \A i \in rows : records[i].lane = toolCall[c].lane
    PROVE  ToolsIInv'
<1> DEFINE ask == toolCall[c]
           r == [ask EXCEPT !.pc = "done", !.result = rows]
<1>1. toolCall' = [toolCall EXCEPT ![c] = r] /\ UNCHANGED <<records, contacts, moves>>
    BY ToolsParts DEF Give
<1>2. CallOK(ask) /\ ask \in CallPlace(Len(records), Len(contacts)) /\ rows \in SUBSET (1..Len(records))
    BY ToolsParts, RowFacts DEF CallOK
<1>3. /\ r \in CallPlace(Len(records), Len(contacts)) /\ r.pc = "done" /\ r.tool = ask.tool /\ r.lane = ask.lane
      /\ r.target = ask.target /\ r.file = ask.file /\ r.blocked = ask.blocked /\ r.result = rows
      /\ r.sent = ask.sent /\ r.approved = ask.approved
    BY <1>2 DEF CallPlace
<1> HIDE DEF r
<1>4. CallHolds(r)
    BY <1>2, <1>3 DEF CallOK, CallHolds
<1>5. CallOK(r)
    BY <1>2, <1>3, <1>4 DEF CallOK
<1> QED
    BY <1>1, <1>5, CallStays

(* r is ask, gone on to act for the party.                                  *)
Moved(r, ask, party) ==
    /\ r \in CallPlace(Len(records), Len(contacts)) /\ r.pc = "act" /\ r.tool = ask.tool /\ r.lane = ask.lane
    /\ r.target = ask.target /\ r.file = ask.file /\ r.blocked = ask.blocked /\ r.result = ask.result
    /\ r.sent = ask.sent /\ r.approved = ask.approved /\ r.party = party /\ r.known = ask.known
    /\ r.name = ask.name /\ r.changed = ask.changed /\ r.search = ask.search

LEMMA MovedFields ==
    ASSUME NEW ask \in CallPlace(Len(records), Len(contacts)), NEW party \in 0..Len(contacts)
    PROVE  Moved([ask EXCEPT !.pc = "act", !.party = party], ask, party)
<1>1. PICK r : r = [ask EXCEPT !.pc = "act", !.party = party]
    OBVIOUS
<1>2. Moved(r, ask, party)
    BY <1>1 DEF Moved, CallPlace
<1> QED
    BY <1>1, <1>2

(* What a party has to be for the call to write to it.                      *)
RightFor(ask, party) ==
    /\ party \notin ask.changed => Means(ask.name, party)
    /\ ask.search.whole => \A q \in Steady(ask) : q # party /\ Address(q, ask.tool.kind) /\ Means(ask.name, q) =>
         /\ contacts[q].name # ask.name
         /\ party \notin ask.changed => contacts[party].name = ask.name
MayFor(ask, party) ==
    /\ ask.tool.does # "file" => party \notin ask.blocked
    /\ ask.tool.does \in ByName => party # 0 /\ RightFor(ask, party)

LEMMA MovedMay ==
    ASSUME NEW r, NEW ask, NEW party, Moved(r, ask, party), MayFor(ask, party)
    PROVE  MayWriteTo(r)
BY DEF Moved, MayFor, RightFor, MayWriteTo, RightParty, Steady

LEMMA CallGoesOn ==
    ASSUME ToolsIInv, NEW c \in ToolCalls, NEW party \in 0..Len(contacts), GoOn(c, party),
           toolCall[c].pc \in {"check", "addresses"}, toolCall[c].tool.does # "addContact",
           toolCall[c].tool.does = "change" => records[toolCall[c].target].lane = toolCall[c].lane,
           toolCall[c].tool.does \in {"reply", "file", "sendTo", "mission"} => MayFor(toolCall[c], party)
    PROVE  ToolsIInv'
<1> DEFINE ask == toolCall[c]
           r == [ask EXCEPT !.pc = "act", !.party = party]
<1>1. toolCall' = [toolCall EXCEPT ![c] = r] /\ UNCHANGED <<records, contacts, moves>>
    BY ToolsParts DEF GoOn
<1>2. CallOK(ask) /\ ask \in CallPlace(Len(records), Len(contacts))
    BY ToolsParts DEF CallOK
<1>3. Moved(r, ask, party)
    BY <1>2, MovedFields
<1> HIDE DEF r
<1>4. CallHolds(ask) /\ ask.pc \in {"check", "addresses"} /\ ask.tool.does # "addContact"
    BY <1>2 DEF CallOK
<1>5. CallHolds(r)
  <2>1. r.pc = "act" /\ r.tool = ask.tool /\ r.lane = ask.lane /\ r.target = ask.target /\ r.file = ask.file
        /\ r.blocked = ask.blocked /\ r.sent = ask.sent
    BY <1>3 DEF Moved
  <2>2. r.tool.does \in {"reply", "file", "sendTo", "mission"} => MayWriteTo(r)
    BY <1>3, <2>1, MovedMay
  <2> QED
    BY <1>4, <2>1, <2>2 DEF CallHolds
<1>6. CallOK(r)
    BY <1>2, <1>3, <1>5 DEF CallOK, Moved
<1> QED
    BY <1>1, <1>6, CallStays

(* A reply goes to the party of its row, which is not held to be blocked.   *)
LEMMA RowGoesOn ==
    ASSUME ToolsIInv, NEW c \in ToolCalls, NEW party \in 0..Len(contacts), GoOn(c, party), toolCall[c].pc = "check",
           toolCall[c].tool.does \in {"reply", "file", "change", "changeContact"},
           toolCall[c].tool.does = "change" => records[toolCall[c].target].lane = toolCall[c].lane,
           toolCall[c].tool.does = "reply" => party \notin toolCall[c].blocked
    PROVE  ToolsIInv'
<1>1. toolCall[c].tool.does \in {"reply", "file"} => MayFor(toolCall[c], party)
    BY DEF MayFor, ByName
<1> QED
    BY <1>1, CallGoesOn

(* The ways the rows change.                                               *)
LEMMA ContactAdded ==
    ASSUME RowsOK, NEW e \in ContactRow, contacts' = Append(contacts, e), records' = records, moves' \in 0..MaxMoves
    PROVE  RowsKept /\ ContactsKept /\ Len(contacts') = Len(contacts) + 1 /\ DOMAIN contacts' = 1..Len(contacts) + 1
<1> DEFINE n == Len(contacts)
<1>1. /\ contacts' \in Seq(ContactRow) /\ Len(contacts') = n + 1 /\ n \in Nat /\ DOMAIN contacts = 1..n
      /\ DOMAIN contacts' = 1..n + 1 /\ \A p \in DOMAIN contacts : contacts'[p] = contacts[p]
    BY RowFacts, AppendProperties, LenProperties DEF RowsOK
<1>2. records \in Seq(RecordRow(n + 1))
  <2>1. RecordRow(n) \subseteq RecordRow(n + 1)
    BY <1>1 DEF RecordRow
  <2> QED
    BY <2>1, SeqMonotonic DEF RowsOK
<1>3. RowsOK'
    BY <1>1, <1>2 DEF RowsOK
<1>4. Len(records) \in Nat
    BY RowFacts
<1> QED
    BY <1>1, <1>3, <1>4 DEF RowsKept, ContactsKept, SameToFind, Blocked

LEMMA ContactChanges ==
    ASSUME RowsOK, NEW p \in DOMAIN contacts, NEW e \in ContactRow,
           contacts' = [contacts EXCEPT ![p] = e], records' = records, moves' \in 0..MaxMoves
    PROVE  /\ RowsKept /\ DOMAIN contacts' = DOMAIN contacts
           /\ \A q \in DOMAIN contacts : contacts'[q] = IF q = p THEN e ELSE contacts[q]
<1>1. contacts \in Seq(ContactRow) /\ Len(contacts) \in Nat /\ DOMAIN contacts = 1..Len(contacts)
    BY RowFacts DEF RowsOK
<1>2. /\ contacts' \in Seq(ContactRow) /\ Len(contacts') = Len(contacts)
      /\ \A q \in 1..Len(contacts) : contacts'[q] = IF q = p THEN e ELSE contacts[q]
    BY <1>1, ExceptSeq, SMTT(60)
<1>3. DOMAIN contacts' = DOMAIN contacts
    BY <1>1, <1>2, LenProperties
<1>4. RowsOK'
    BY <1>2 DEF RowsOK
<1>5. Len(records) \in Nat
    BY RowFacts
<1> QED
    BY <1>1, <1>2, <1>3, <1>4, <1>5 DEF RowsKept

(* A call that is told of a change holds against nobody what is not so, and *)
(* relies on no contact that has changed.                                   *)
LEMMA ToldFields ==
    ASSUME RowsOK, NEW p \in DOMAIN contacts, NEW now, NEW r \in CallPlace(Len(records), Len(contacts))
    PROVE  LET t == Told(r, p, now) IN
           /\ t \in CallPlace(Len(records), Len(contacts)) /\ t.pc = r.pc /\ t.tool = r.tool /\ t.lane = r.lane
           /\ t.target = r.target /\ t.file = r.file /\ t.name = r.name /\ t.party = r.party
           /\ t.approved = r.approved /\ t.known = r.known /\ t.search = r.search /\ t.result = r.result /\ t.sent = r.sent
           /\ t.blocked = r.blocked \ (IF now.blocked THEN {} ELSE {p})
           /\ t.changed = r.changed \union (IF SameToFind(now, contacts[p]) THEN {} ELSE {p})
<1>1. PICK b, m : /\ b = r.blocked \ (IF now.blocked THEN {} ELSE {p})
                  /\ m = r.changed \union (IF SameToFind(now, contacts[p]) THEN {} ELSE {p})
    OBVIOUS
<1>2. DOMAIN contacts = 1..Len(contacts) /\ r.blocked \in SUBSET (1..Len(contacts)) /\ r.changed \in SUBSET (1..Len(contacts))
    BY RowFacts DEF CallPlace
<1>3. b \in SUBSET (1..Len(contacts)) /\ m \in SUBSET (1..Len(contacts))
    BY <1>1, <1>2
<1> DEFINE t == [r EXCEPT !.blocked = b, !.changed = m]
<1>4. Told(r, p, now) = t
    BY <1>1 DEF Told
<1>5. /\ t \in CallPlace(Len(records), Len(contacts)) /\ t.pc = r.pc /\ t.tool = r.tool /\ t.lane = r.lane
      /\ t.target = r.target /\ t.file = r.file /\ t.name = r.name /\ t.party = r.party
      /\ t.approved = r.approved /\ t.known = r.known /\ t.search = r.search /\ t.result = r.result /\ t.sent = r.sent
      /\ t.blocked = b /\ t.changed = m
    BY <1>3 DEF CallPlace
<1> HIDE DEF t
<1> QED
    BY <1>1, <1>4, <1>5

LEMMA ToldOK ==
    ASSUME RowsOK, NEW p \in DOMAIN contacts, NEW now, NEW r, CallOK(r), NEW t, t = Told(r, p, now)
    PROVE  CallOK(t)
<1>1. r \in CallPlace(Len(records), Len(contacts)) /\ CallHolds(r)
    BY DEF CallOK
<1>2. /\ t \in CallPlace(Len(records), Len(contacts)) /\ t.pc = r.pc /\ t.tool = r.tool /\ t.lane = r.lane
      /\ t.target = r.target /\ t.file = r.file /\ t.name = r.name /\ t.party = r.party
      /\ t.approved = r.approved /\ t.known = r.known /\ t.search = r.search /\ t.result = r.result /\ t.sent = r.sent
      /\ t.blocked \subseteq r.blocked /\ r.changed \subseteq t.changed
    BY <1>1, ToldFields
<1>3. RightParty(r) => RightParty(t)
    BY <1>2 DEF RightParty, Steady
<1>4. SearchHolds(r) => SearchHolds(t)
    BY <1>2 DEF SearchHolds, Steady
<1>5. MayWriteTo(r) => MayWriteTo(t)
    BY <1>2, <1>3 DEF MayWriteTo
<1>6. CallHolds(t)
    BY <1>1, <1>2, <1>4, <1>5 DEF CallHolds
<1> QED
    BY <1>2, <1>6 DEF CallOK

LEMMA ContactWritten ==
    ASSUME ToolsIInv, NEW p \in DOMAIN contacts, NEW now \in ContactRow, NEW calls, WriteContact(p, now, calls),
           moves' \in 0..MaxMoves, \A d \in ToolCalls : CallOK(calls[d])
    PROVE  ToolsIInv'
<1>1. RowsOK /\ contacts' = [contacts EXCEPT ![p] = now] /\ records' = records
    BY ToolsParts DEF WriteContact
<1>2. /\ RowsKept /\ DOMAIN contacts' = DOMAIN contacts
      /\ \A q \in DOMAIN contacts : contacts'[q] = IF q = p THEN now ELSE contacts[q]
    BY <1>1, ContactChanges
<1>3. ASSUME NEW d \in ToolCalls PROVE \E q : q = toolCall'[d] /\ CallOK(q)'
  <2>1. PICK r, q : r = calls[d] /\ q = Told(r, p, now)
    OBVIOUS
  <2>2. toolCall'[d] = q
    BY <2>1 DEF WriteContact
  <2>3. CallOK(r) /\ CallOK(q)
    BY <1>1, <2>1, ToldOK
  <2>4. /\ q.blocked = r.blocked \ (IF now.blocked THEN {} ELSE {p})
        /\ q.changed = r.changed \union (IF SameToFind(now, contacts[p]) THEN {} ELSE {p})
    BY <1>1, <2>1, <2>3, ToldFields DEF CallOK
  <2>5. q.blocked \subseteq Blocked'
    <3>1. r.blocked \subseteq Blocked
        BY <2>3 DEF CallOK, CallHolds
    <3> QED
        BY <1>2, <2>4, <3>1 DEF Blocked
  <2>6. \A x \in DOMAIN contacts : x \notin q.changed => SameToFind(contacts'[x], contacts[x])
    <3>1. SameToFind(now, contacts[p]) \/ p \in q.changed
        BY <2>4
    <3>2. \A x \in DOMAIN contacts : x # p => SameToFind(contacts'[x], contacts[x])
        BY <1>2 DEF SameToFind
    <3> QED
        BY <1>2, <3>1, <3>2
  <2>7. CallOK(q)'
    BY <1>2, <2>3, <2>5, <2>6, CallKept
  <2> QED
    BY <2>2, <2>7
<1>4. toolCall' = [d \in ToolCalls |-> toolCall'[d]] /\ RowsOK'
    BY <1>2 DEF WriteContact, RowsKept
<1> QED
    BY <1>3, <1>4, CallsHold

LEMMA RecordChanges ==
    ASSUME RowsOK, NEW i \in DOMAIN records, NEW e \in RecordRow(Len(contacts)), e.lane = records[i].lane,
           e.by \in {"none", records[i].lane}, records' = [records EXCEPT ![i] = e], contacts' = contacts,
           moves' \in 0..MaxMoves
    PROVE  RowsKept /\ ContactsKept /\ DOMAIN records' = DOMAIN records
<1>1. /\ Len(contacts) \in Nat /\ Len(records) \in Nat /\ DOMAIN records = 1..Len(records)
      /\ records \in Seq(RecordRow(Len(contacts)))
    BY RowFacts DEF RowsOK
<1>2. /\ records' \in Seq(RecordRow(Len(contacts))) /\ Len(records') = Len(records)
      /\ \A k \in 1..Len(records) : records'[k] = IF k = i THEN e ELSE records[k]
    BY <1>1, ExceptSeq
<1>3. DOMAIN records' = DOMAIN records
    BY <1>1, <1>2, LenProperties
<1>4. RowsOK'
    BY <1>1, <1>2, <1>3 DEF RowsOK
<1> QED
    BY <1>1, <1>2, <1>3, <1>4 DEF RowsKept, ContactsKept, SameToFind, Blocked

LEMMA RecordAdded ==
    ASSUME RowsOK, Len(records) < MaxRecords, NEW e \in RecordRow(Len(contacts)), e.by = e.lane,
           records' = Append(records, e), contacts' = contacts, moves' = moves
    PROVE  /\ RowsKept /\ ContactsKept
           /\ Len(records') = Len(records) + 1 /\ records'[Len(records) + 1] = e
<1>1. /\ Len(contacts) \in Nat /\ Len(records) \in Nat /\ DOMAIN records = 1..Len(records)
      /\ records \in Seq(RecordRow(Len(contacts)))
    BY RowFacts DEF RowsOK
<1>2. /\ records' \in Seq(RecordRow(Len(contacts))) /\ Len(records') = Len(records) + 1
      /\ \A k \in 1..Len(records) : records'[k] = records[k]
      /\ records'[Len(records) + 1] = e
    BY <1>1, AppendProperties
<1>3. DOMAIN records' = 1..Len(records) + 1
    BY <1>2, LenProperties
<1>4. Len(records) + 1 <= MaxRecords
    BY <1>1, ToolConstants
<1>5. \A k \in DOMAIN records' : records'[k].by \in {"none", records'[k].lane}
  <2> SUFFICES ASSUME NEW k \in 1..Len(records) + 1 PROVE records'[k].by \in {"none", records'[k].lane}
    BY <1>3
  <2>1. CASE k \in 1..Len(records)
    BY <1>1, <1>2, <2>1 DEF RowsOK
  <2>2. CASE k = Len(records) + 1
    BY <1>2, <2>2
  <2> QED
    BY <1>1, <2>1, <2>2
<1>6. RowsOK'
    BY <1>2, <1>4, <1>5 DEF RowsOK
<1> QED
    BY <1>1, <1>2, <1>6 DEF RowsKept, ContactsKept, SameToFind, Blocked

(* "It never guesses": if one contact is left of those found, no other one  *)
(* that did not change bears the name, or matches it as well.               *)
LEMMA PoolIsOne ==
    ASSUME RowsOK, NEW c \in ToolCalls, CallOK(toolCall[c]), toolCall[c].pc = "addresses", Cardinality(Pool(c)) = 1
    PROVE  \E p \in toolCall[c].search.reached : Pool(c) = {p}
<1> DEFINE s == toolCall[c].search
<1>1. Pool(c) \subseteq s.reached
    BY DEF Pool
<1>2. s.reached \subseteq 1..Len(contacts) /\ Len(contacts) \in Nat
  <2>1. s \in SearchPlace(Len(contacts))
    BY DEF CallOK, CallPlace
  <2> QED
    BY <2>1, RowFacts DEF SearchPlace
<1>3. IsFiniteSet(Pool(c))
  <2>1. IsFiniteSet(1..Len(contacts))
    BY <1>2, FS_Interval
  <2> QED
    BY <1>1, <1>2, <2>1, FS_Subset
<1>4. PICK p : Pool(c) = {p}
    BY <1>3, FS_Singleton
<1> QED
    BY <1>1, <1>4

LEMMA OneIsRight ==
    ASSUME NEW c \in ToolCalls, NEW p, Pool(c) = {p}, NEW ask, ask = toolCall[c], SearchHolds(ask), ask.search.left = {},
           p \in ask.search.reached
    PROVE  RightFor(ask, p)
<1>1. PICK s : s = ask.search
    OBVIOUS
<1>0. Pool(c) = IF s.exact \intersect s.reached # {} THEN s.exact \intersect s.reached ELSE s.reached
    BY <1>1, Zenon DEF Pool
<1>2. /\ {p} = IF s.exact \intersect s.reached # {} THEN s.exact \intersect s.reached ELSE s.reached
      /\ s.left = {} /\ p \in s.reached /\ s.reached \subseteq s.found
  <2>1. s.left = {} /\ p \in s.reached /\ s.reached \subseteq s.found
    BY <1>1 DEF SearchHolds
  <2> QED
    BY <1>0, <2>1, Zenon
<1>3. \A q \in s.found \ ask.changed : Means(ask.name, q) /\ (q \in s.exact <=> contacts[q].name = ask.name)
    BY <1>1 DEF SearchHolds
<1>4. \A q \in Steady(ask) : (s.whole /\ Means(ask.name, q) => q \in s.found)
    BY <1>1 DEF SearchHolds
<1>5. \A q \in Steady(ask) : (q \in s.found \ s.left /\ Address(q, ask.tool.kind) => q \in s.reached)
    BY <1>1 DEF SearchHolds
<1>6. ASSUME s.whole, NEW q \in Steady(ask), q # p, Address(q, ask.tool.kind), Means(ask.name, q)
      PROVE  contacts[q].name # ask.name /\ (p \notin ask.changed => contacts[p].name = ask.name)
  <2>1. q \in s.found /\ q \notin ask.changed
    BY <1>4, <1>6 DEF Steady
  <2>2. q \in s.reached
    BY <1>2, <1>5, <1>6, <2>1
  <2>3. s.exact \intersect s.reached = {p}
    BY <1>2, <1>6, <2>2
  <2> QED
    BY <1>2, <1>3, <1>6, <2>1, <2>2, <2>3
<1>7. p \notin ask.changed => Means(ask.name, p)
    BY <1>2, <1>3
<1> QED
    BY <1>1, <1>6, <1>7 DEF RightFor

LEMMA ResolvedGoesOn ==
    ASSUME ToolsIInv, NEW c \in ToolCalls, toolCall[c].pc = "addresses", toolCall[c].search.left = {},
           Cardinality(Pool(c)) = 1, NEW p, p = CHOOSE q \in Pool(c) : TRUE,
           p \notin toolCall[c].search.barred, GoOn(c, p)
    PROVE  ToolsIInv'
<1>1. /\ RowsOK /\ CallOK(toolCall[c]) /\ toolCall[c] \in CallPlace(Len(records), Len(contacts))
      /\ SearchHolds(toolCall[c]) /\ toolCall[c].tool.does \in ByName
    BY ToolsParts DEF CallOK, CallHolds
<1>2. PICK q \in toolCall[c].search.reached : Pool(c) = {q}
    BY <1>1, PoolIsOne
<1>3. p = q
    BY <1>2
<1>4. /\ p \in 0..Len(contacts) /\ p # 0
  <2>1. toolCall[c].search \in SearchPlace(Len(contacts)) /\ Len(contacts) \in Nat
    BY <1>1, RowFacts DEF CallPlace
  <2> QED
    BY <1>2, <1>3, <2>1 DEF SearchPlace
<1>5. p \notin toolCall[c].blocked
    BY <1>1, <1>2, <1>3 DEF SearchHolds
<1>6. RightFor(toolCall[c], p)
    BY <1>1, <1>2, <1>3, OneIsRight
<1>7. MayFor(toolCall[c], p)
    BY <1>4, <1>5, <1>6 DEF MayFor
<1>8. toolCall[c].tool.does \notin {"change", "addContact"}
    BY <1>1 DEF ByName
<1> QED
    BY <1>4, <1>7, <1>8, CallGoesOn

(* The contacts that were listed, and those whose address is read.         *)
Listing(ask, found, whole) ==
    [found |-> found, exact |-> {p \in found : contacts[p].name = ask.name}, barred |-> found \intersect Blocked,
     left |-> found, reached |-> {}, whole |-> whole]
AllMeant(ask) == {p \in DOMAIN contacts : Means(ask.name, p)}
Listed(r, ask, s) == r = [ask EXCEPT !.pc = "addresses", !.search = s]

LEMMA ListedOK ==
    ASSUME RowsOK, NEW ask, CallOK(ask), ask.pc = "check", ask.tool.does \in ByName, NEW found,
           found \subseteq AllMeant(ask), NEW s, s = Listing(ask, found, found = AllMeant(ask)), NEW r, Listed(r, ask, s)
    PROVE  CallOK(r)
<1>0. PICK matches : matches = {p \in DOMAIN contacts : Means(ask.name, p)} /\ matches = AllMeant(ask)
    BY DEF AllMeant
<1>1. /\ ask \in CallPlace(Len(records), Len(contacts)) /\ CallHolds(ask) /\ DOMAIN contacts = 1..Len(contacts)
      /\ ask.known \in 0..Len(contacts) /\ Len(contacts) \in Nat
    BY RowFacts DEF CallOK, CallPlace
<1>4. /\ s.found = found /\ s.exact = {p \in found : contacts[p].name = ask.name} /\ s.barred = found \intersect Blocked
      /\ s.left = found /\ s.reached = {} /\ s.whole = (found = matches)
    BY <1>0 DEF Listing
<1>2. s \in SearchPlace(Len(contacts))
  <2>1. PICK e, b, w, z : /\ e = {p \in found : contacts[p].name = ask.name} /\ b = found \intersect Blocked
                          /\ w = (found = matches) /\ z = {}
    OBVIOUS
  <2>2. /\ found \in SUBSET (1..Len(contacts)) /\ e \in SUBSET (1..Len(contacts)) /\ b \in SUBSET (1..Len(contacts))
        /\ z \in SUBSET (1..Len(contacts)) /\ w \in BOOLEAN
    BY <1>0, <1>1, <2>1
  <2>3. s = [found |-> found, exact |-> e, barred |-> b, left |-> found, reached |-> z, whole |-> w]
    BY <1>0, <2>1 DEF Listing
  <2>4. [found |-> found, exact |-> e, barred |-> b, left |-> found, reached |-> z, whole |-> w] \in SearchPlace(Len(contacts))
    BY <2>2 DEF SearchPlace
  <2> QED
    BY <2>3, <2>4, Zenon
<1>3. /\ r \in CallPlace(Len(records), Len(contacts)) /\ r.pc = "addresses" /\ r.tool = ask.tool /\ r.lane = ask.lane
      /\ r.target = ask.target /\ r.file = ask.file /\ r.name = ask.name /\ r.approved = ask.approved
      /\ r.known = ask.known /\ r.search = s /\ r.result = ask.result /\ r.sent = ask.sent
      /\ r.blocked = ask.blocked /\ r.changed = ask.changed
    BY <1>1, <1>2 DEF CallPlace, Listed
<1>5. SearchHolds(r)
  <2>1. r.search.left \union r.search.reached \union r.search.exact \subseteq r.search.found
    BY <1>3, <1>4
  <2>2. r.blocked \intersect r.search.found \subseteq r.search.barred
    BY <1>1, <1>3, <1>4 DEF CallHolds
  <2>3. \A p \in r.search.found : Means(r.name, p) /\ (p \in r.search.exact <=> contacts[p].name = r.name)
    BY <1>0, <1>3, <1>4
  <2>4. \A p \in Steady(r) : p \in DOMAIN contacts
    BY <1>1, <1>3 DEF Steady
  <2>5. \A p \in Steady(r) : r.search.whole /\ Means(r.name, p) => p \in r.search.found
    BY <1>0, <1>3, <1>4, <2>4
  <2>6. r.search.found \ r.search.left = {}
    BY <1>3, <1>4
  <2> QED
    BY <2>1, <2>2, <2>3, <2>5, <2>6 DEF SearchHolds
<1>6. CallHolds(r)
    BY <1>1, <1>3, <1>5 DEF CallHolds
<1> QED
    BY <1>3, <1>6 DEF CallOK

LEMMA ReadOK ==
    ASSUME NEW ask, CallOK(ask), ask.pc = "addresses", NEW p, NEW s, s = ask.search, p \in s.left, NEW t,
           t = [s EXCEPT !.left = s.left \ {p},
                         !.reached = IF Address(p, ask.tool.kind) THEN s.reached \union {p} ELSE s.reached],
           NEW r, r = [ask EXCEPT !.search = t]
    PROVE  CallOK(r)
<1>1. /\ ask \in CallPlace(Len(records), Len(contacts)) /\ CallHolds(ask) /\ SearchHolds(ask)
      /\ s \in SearchPlace(Len(contacts)) /\ ask.tool.does \in ByName
    BY DEF CallOK, CallPlace, CallHolds
<1>2. /\ t \in SearchPlace(Len(contacts)) /\ t.found = s.found /\ t.exact = s.exact /\ t.barred = s.barred
      /\ t.whole = s.whole /\ t.left = s.left \ {p}
      /\ t.reached = IF Address(p, ask.tool.kind) THEN s.reached \union {p} ELSE s.reached
  <2>1. PICK a, b : /\ a = s.left \ {p}
                    /\ b = IF Address(p, ask.tool.kind) THEN s.reached \union {p} ELSE s.reached
    OBVIOUS
  <2>2. /\ s.left \in SUBSET (1..Len(contacts)) /\ s.reached \in SUBSET (1..Len(contacts))
    BY <1>1 DEF SearchPlace
  <2>3. a \in SUBSET (1..Len(contacts)) /\ b \in SUBSET (1..Len(contacts))
    BY <2>1, <2>2
  <2>4. t = [s EXCEPT !.left = a, !.reached = b]
    BY <2>1
  <2>5. /\ t \in SearchPlace(Len(contacts)) /\ t.found = s.found /\ t.exact = s.exact /\ t.barred = s.barred
        /\ t.whole = s.whole /\ t.left = a /\ t.reached = b
    BY <1>1, <2>3, <2>4 DEF SearchPlace
  <2> QED
    BY <2>1, <2>5
<1>3. /\ r \in CallPlace(Len(records), Len(contacts)) /\ r.pc = "addresses" /\ r.tool = ask.tool /\ r.lane = ask.lane
      /\ r.target = ask.target /\ r.file = ask.file /\ r.name = ask.name /\ r.approved = ask.approved
      /\ r.known = ask.known /\ r.search = t /\ r.result = ask.result /\ r.sent = ask.sent
      /\ r.blocked = ask.blocked /\ r.changed = ask.changed
    BY <1>1, <1>2 DEF CallPlace
<1>4. SearchHolds(r)
  <2>1. /\ t.left \union t.reached \union t.exact \subseteq t.found /\ r.blocked \intersect t.found \subseteq t.barred
        /\ \A q \in t.found \ r.changed : Means(r.name, q) /\ (q \in t.exact <=> contacts[q].name = r.name)
    BY <1>1, <1>2, <1>3 DEF SearchHolds
  <2>2. /\ s.whole => {q \in Steady(ask) : Means(ask.name, q)} \subseteq s.found
        /\ {q \in s.found \ s.left : q \in Steady(ask) /\ Address(q, ask.tool.kind)} \subseteq s.reached
    BY <1>1 DEF SearchHolds
  <2>3. Steady(r) = Steady(ask)
    BY <1>3 DEF Steady
  <2>4. /\ t.whole => {q \in Steady(r) : Means(r.name, q)} \subseteq t.found
        /\ {q \in t.found \ t.left : q \in Steady(r) /\ Address(q, r.tool.kind)} \subseteq t.reached
    BY <1>2, <1>3, <2>2, <2>3
  <2> QED
    BY <1>3, <2>1, <2>4 DEF SearchHolds
<1>5. CallHolds(r)
    BY <1>1, <1>3, <1>4 DEF CallHolds
<1> QED
    BY <1>3, <1>5 DEF CallOK

(* create_contact, once its contact is stored.                             *)
LEMMA CreatedOK ==
    ASSUME NEW r, CallOK(r), r.pc \in {"check", "act"}, r.tool.does = "addContact", NEW pc \in {"act", "done"},
           NEW wants \in SUBSET {"phone", "mail"}, NEW target \in DOMAIN contacts, target \in Nat,
           NEW q, q = [r EXCEPT !.pc = pc, !.wants = wants, !.target = target]
    PROVE  CallOK(q)
<1>1. r \in CallPlace(Len(records), Len(contacts)) /\ CallHolds(r)
    BY DEF CallOK
<1>2. /\ q \in CallPlace(Len(records), Len(contacts)) /\ q.pc = pc /\ q.tool = r.tool /\ q.lane = r.lane
      /\ q.target = target /\ q.file = r.file /\ q.blocked = r.blocked /\ q.result = r.result /\ q.sent = r.sent
      /\ q.approved = r.approved
    BY <1>1 DEF CallPlace
<1>3. CallHolds(q)
    BY <1>1, <1>2 DEF CallHolds, ByRow, ByContact
<1> QED
    BY <1>2, <1>3 DEF CallOK

LEMMA ChangedContactRows ==
    ASSUME NEW e \in ContactRow
    PROVE  /\ Removed \in ContactRow
           /\ \A name \in {e.name} \union GivenNames, company \in {e.company} \union GivenNames, blocked \in BOOLEAN :
                 [e EXCEPT !.name = name, !.company = company, !.blocked = blocked] \in ContactRow
           /\ [e EXCEPT !.phone = ~e.phone] \in ContactRow /\ [e EXCEPT !.mail = ~e.mail] \in ContactRow
           /\ \A name \in {e.name} \union GivenNames, blocked \in BOOLEAN :
                 [e EXCEPT !.name = name, !.blocked = blocked] \in ContactRow
           /\ \A phone, mail \in BOOLEAN : [e EXCEPT !.phone = phone, !.mail = mail] \in ContactRow
<1>1. PICK names : names = ContactNames
    OBVIOUS
<1>2. {} \in names /\ GivenNames \subseteq names /\ e.name \in names /\ e.company \in names
    BY <1>1 DEF ContactNames, ContactRow
<1>3. ContactRow = [lane : {"personal", "none"}, name : names, company : names, blocked : BOOLEAN, phone : BOOLEAN,
                    mail : BOOLEAN]
    BY <1>1 DEF ContactRow
<1>4. Removed \in ContactRow
    BY <1>2, <1>3 DEF Removed, NewContact
<1>5. \A name \in {e.name} \union GivenNames, company \in {e.company} \union GivenNames, blocked \in BOOLEAN :
            [e EXCEPT !.name = name, !.company = company, !.blocked = blocked] \in ContactRow
    BY <1>2, <1>3
<1>6. [e EXCEPT !.phone = ~e.phone] \in ContactRow /\ [e EXCEPT !.mail = ~e.mail] \in ContactRow
  <2>1. PICK x \in BOOLEAN, y \in BOOLEAN : x = ~e.phone /\ y = ~e.mail
    OBVIOUS
  <2>2. [e EXCEPT !.phone = x] \in ContactRow /\ [e EXCEPT !.mail = y] \in ContactRow
    BY <1>3
  <2> QED
    BY <2>1, <2>2
<1>7. \A name \in {e.name} \union GivenNames, blocked \in BOOLEAN :
            [e EXCEPT !.name = name, !.blocked = blocked] \in ContactRow
    BY <1>2, <1>3
<1>8. \A phone, mail \in BOOLEAN : [e EXCEPT !.phone = phone, !.mail = mail] \in ContactRow
    BY <1>3
<1> QED
    BY <1>4, <1>5, <1>6, <1>7, <1>8

LEMMA ToolsStep == ToolsIInv /\ [ToolsNext]_toolVars => ToolsIInv'
<1> SUFFICES ASSUME ToolsIInv, [ToolsNext]_toolVars PROVE ToolsIInv'
    OBVIOUS
<1>0. /\ RowsOK /\ toolCall \in [ToolCalls -> CallPlace(Len(records), Len(contacts))]
      /\ Len(contacts) \in Nat /\ DOMAIN contacts = 1..Len(contacts) /\ Len(records) \in Nat
      /\ DOMAIN records = 1..Len(records)
    BY ToolsParts, RowFacts
<1>c. \A c \in ToolCalls : /\ CallOK(toolCall[c]) /\ toolCall[c] \in CallPlace(Len(records), Len(contacts))
                           /\ CallHolds(toolCall[c]) /\ toolCall[c].lane \in ToolLanes /\ toolCall[c].tool \in ToolSet
    BY ToolsParts DEF CallOK, CallPlace
<1>r. ASSUME NEW c \in ToolCalls, toolCall[c].pc # "idle"
      PROVE  /\ toolCall[c].tool.does \in ByRow => toolCall[c].target \in DOMAIN records
             /\ toolCall[c].tool.does \in ByContact => toolCall[c].target \in DOMAIN contacts
             /\ toolCall[c].tool.does = "file" => toolCall[c].file \in DOMAIN records
    BY <1>c, <1>r DEF CallHolds
<1>s. ASSUME NEW ask, CallOK(ask), ask.pc # "idle", ~ask.sent, ask.tool.level # "N2"
      PROVE  CallOK(Started(ask))
  <2>1. ask \in CallPlace(Len(records), Len(contacts)) /\ Blocked \subseteq 1..Len(contacts)
    BY <1>0, <1>s DEF CallOK, Blocked
  <2>2. /\ Started(ask) \in CallPlace(Len(records), Len(contacts)) /\ Started(ask).pc = "check"
        /\ Started(ask).tool = ask.tool /\ Started(ask).lane = ask.lane /\ Started(ask).target = ask.target
        /\ Started(ask).file = ask.file /\ Started(ask).blocked = Blocked /\ Started(ask).result = ask.result
        /\ Started(ask).sent = ask.sent
    BY <1>0, <2>1, StartedFields
  <2> QED
    BY <1>0, <1>s, <2>2, StartedOK
<1>1. ASSUME NEW c \in ToolCalls, NEW t \in ToolSet, NEW lane \in ToolLanes, NEW args \in Arguments(t), Ask(c, t, lane, args)
      PROVE  ToolsIInv'
  <2>1. UNCHANGED <<records, contacts, moves>>
    BY <1>1 DEF Ask
  <2>2. CASE toolCall' = [toolCall EXCEPT ![c] = Called(t, lane, args, "refused")]
    BY <1>0, <2>1, <2>2, NewCallOK, CallStays
  <2>3. CASE t.level = "N2" /\ toolCall' = [toolCall EXCEPT ![c] = Called(t, lane, args, "waiting")]
    BY <1>0, <2>1, <2>3, NewCallOK, CallStays
  <2>4. CASE t.level # "N2" /\ toolCall' = [toolCall EXCEPT ![c] = Started(Called(t, lane, args, "check"))]
    <3>1. PICK ask : ask = Called(t, lane, args, "check")
        OBVIOUS
    <3>2. CallOK(ask)
        BY <1>0, <2>4, <3>1, NewCallOK
    <3>3. ask.pc = "check" /\ ask.sent = FALSE /\ ask.tool = t
        BY <3>1 DEF Called
    <3>4. CallOK(Started(ask))
        BY <1>s, <2>4, <3>2, <3>3
    <3> QED
        BY <2>1, <2>4, <3>1, <3>4, CallStays
  <2> QED
    BY <1>1, <2>2, <2>3, <2>4 DEF Ask
<1>2. ASSUME NEW c \in ToolCalls, NEW d \in ToolCalls \ {c}, NEW t \in ToolSet, NEW args \in Arguments(t),
             DraftAction(c, d, t, args)
      PROVE  ToolsIInv'
  <2>1. toolCall[c].pc = "check"
    BY <1>2 DEF DraftAction, Runs
  <2>2. CASE Fail(c)
    BY <2>1, <2>2, CallFails
  <2>3. CASE ~Fail(c)
    <3> DEFINE ask == toolCall[c]
               r == [ask EXCEPT !.pc = "done"]
               prepared == Called(t, ask.lane, args, "waiting")
    <3>1. /\ toolCall' = [toolCall EXCEPT ![c].pc = "done", ![d] = prepared]
          /\ UNCHANGED <<records, contacts, moves>>
        BY <1>2, <2>3 DEF DraftAction
    <3>2. /\ toolCall'[c] = r /\ toolCall'[d] = prepared /\ \A e \in ToolCalls \ {c, d} : toolCall'[e] = toolCall[e]
          /\ toolCall' = [e \in ToolCalls |-> toolCall'[e]]
        BY <1>0, <3>1
    <3>3. CallOK(prepared)
        BY <1>0, <1>c, NewCallOK
    <3>4. CallOK(r)
      <4>1. ask \in CallPlace(Len(records), Len(contacts)) /\ CallOK(ask) /\ CallHolds(ask) /\ ask.pc = "check"
        BY <1>c, <2>1
      <4> HIDE DEF ask
      <4>2. /\ r \in CallPlace(Len(records), Len(contacts)) /\ r.pc = "done" /\ r.tool = ask.tool /\ r.lane = ask.lane
            /\ r.target = ask.target /\ r.file = ask.file /\ r.blocked = ask.blocked /\ r.result = ask.result
            /\ r.sent = ask.sent /\ r.approved = ask.approved
        BY <4>1 DEF CallPlace
      <4> HIDE DEF r
      <4>3. CallHolds(r)
        BY <4>1, <4>2 DEF CallHolds
      <4> QED
        BY <4>1, <4>2, <4>3 DEF CallOK
    <3> HIDE DEF r, prepared
    <3>5. RowsKept /\ ContactsKept
        BY <3>1, RowsStay
    <3>6. ASSUME NEW e \in ToolCalls PROVE \E q : q = toolCall'[e] /\ CallOK(q)'
      <4>1. PICK q : q = toolCall'[e]
        OBVIOUS
      <4>2. CallOK(q)
        BY <1>c, <3>2, <3>3, <3>4, <4>1
      <4>3. CallOK(q)'
        BY <3>5, <4>2, CallKept DEF CallOK, CallHolds, ContactsKept
      <4> QED
        BY <4>1, <4>3
    <3> QED
        BY <3>2, <3>5, <3>6, CallsHold DEF RowsKept
  <2> QED
    BY <2>2, <2>3
<1>3. ASSUME NEW c \in ToolCalls, Decide(c) PROVE ToolsIInv'
  <2>1. toolCall[c].pc = "waiting" /\ UNCHANGED <<records, contacts, moves>>
    BY <1>3 DEF Decide
  <2>2. CASE toolCall' = [toolCall EXCEPT ![c].pc = "refused"]
    BY <2>1, <2>2, CallFails DEF Fail
  <2>3. CASE toolCall' = [toolCall EXCEPT ![c] = [Started(toolCall[c]) EXCEPT !.approved = TRUE]]
    <3>1. PICK ask : ask = toolCall[c]
        OBVIOUS
    <3>2. PICK s : s = Started(ask)
        OBVIOUS
    <3>3. CallOK(ask) /\ ask \in CallPlace(Len(records), Len(contacts)) /\ ask.pc = "waiting" /\ ~ask.sent
        BY <1>c, <2>1, <3>1 DEF CallHolds
    <3>4. /\ s \in CallPlace(Len(records), Len(contacts)) /\ s.pc = "check"
          /\ s.tool = ask.tool /\ s.lane = ask.lane /\ s.target = ask.target
          /\ s.file = ask.file /\ s.blocked = Blocked /\ s.result = ask.result /\ s.sent = ask.sent
        BY <1>0, <3>2, <3>3, StartedFields, ZenonT(60) DEF Blocked
    <3> DEFINE r == [s EXCEPT !.approved = TRUE]
    <3>5. /\ r \in CallPlace(Len(records), Len(contacts)) /\ r.pc = s.pc /\ r.tool = s.tool /\ r.lane = s.lane
          /\ r.target = s.target /\ r.file = s.file /\ r.blocked = s.blocked /\ r.result = s.result
          /\ r.sent = s.sent /\ r.approved = TRUE
        BY <3>4 DEF CallPlace
    <3>6. toolCall' = [toolCall EXCEPT ![c] = r]
        BY <2>3, <3>1, <3>2
    <3> HIDE DEF r
    <3>7. CallOK(r)
        BY <1>0, <3>3, <3>4, <3>5, StartedOK
    <3> QED
        BY <2>1, <3>6, <3>7, CallStays
  <2> QED
    BY <1>3, <2>2, <2>3 DEF Decide
<1>4. ASSUME NEW c \in ToolCalls, ListRecords(c) PROVE ToolsIInv'
  <2> DEFINE rows == {i \in DOMAIN records : /\ records[i].kind = toolCall[c].tool.kind /\ records[i].live
                                             /\ records[i].lane = toolCall[c].lane}
  <2>1. Give(c, rows) /\ toolCall[c].pc = "check"
    BY <1>4 DEF ListRecords, Runs
  <2>2. rows \subseteq DOMAIN records /\ \A i \in rows : records[i].lane = toolCall[c].lane
    OBVIOUS
  <2> HIDE DEF rows
  <2> QED
    BY <2>1, <2>2, CallGives
<1>5. ASSUME NEW c \in ToolCalls, ListAllContacts(c) \/ GetOneContact(c) \/ AskConnector(c) \/ StopMission(c) PROVE ToolsIInv'
  <2>1. toolCall[c].pc \in {"check", "act"} /\ (Give(c, {}) \/ Fail(c))
    BY <1>5 DEF ListAllContacts, GetOneContact, AskConnector, StopMission, Runs
  <2> QED
    BY <2>1, CallGives, CallFails
<1>6. ASSUME NEW c \in ToolCalls, GetRecord(c) \/ DraftReply(c) PROVE ToolsIInv'
  <2>1. /\ toolCall[c].pc = "check" /\ toolCall[c].target \in DOMAIN records
        /\ Fail(c) \/ Give(c, {toolCall[c].target})
        /\ toolCall[c].tool.does # "draft" => Fail(c) \/ records[toolCall[c].target].lane = toolCall[c].lane
    <3>1. CASE GetRecord(c)
        BY <1>r, <3>1 DEF GetRecord, Runs, ByRow, InLane
    <3>2. CASE DraftReply(c)
        BY <1>r, <3>2 DEF DraftReply, Runs, ByRow
    <3> QED
        BY <1>6, <3>1, <3>2
  <2> QED
    BY <2>1, CallGives, CallFails
<1>7. ASSUME NEW c \in ToolCalls, CreateRecord(c) PROVE ToolsIInv'
  <2>1. PICK ask : ask = toolCall[c]
    OBVIOUS
  <2>2. PICK n : n = Len(records) + 1
    OBVIOUS
  <2> DEFINE e == [kind |-> ask.tool.kind, lane |-> ask.lane, party |-> 0, live |-> TRUE, by |-> ask.lane]
             r == [ask EXCEPT !.pc = "done", !.result = {n}]
  <2>3. /\ ask.pc = "check" /\ records' = Append(records, e) /\ Len(records) < MaxRecords /\ contacts' = contacts
        /\ moves' = moves /\ CallOK(ask) /\ ask \in CallPlace(Len(records), Len(contacts))
    BY <1>7, <1>c, <2>1 DEF CreateRecord, Runs
  <2>4. e \in RecordRow(Len(contacts)) /\ e.by = e.lane /\ e.lane = ask.lane
    BY <1>0, <1>c, <2>1 DEF RecordRow, RowKinds
  <2> HIDE DEF e
  <2>5. RowsKept /\ ContactsKept /\ Len(records') = n /\ records'[n] = e
    BY <1>0, <2>2, <2>3, <2>4, RecordAdded
  <2>6. toolCall' = [toolCall EXCEPT ![c] = r]
    <3>1. toolCall' = [toolCall EXCEPT ![c].pc = "done", ![c].result = {n}]
        BY <1>7, <2>5 DEF CreateRecord
    <3> QED
        BY <1>0, <2>1, <3>1
  <2>7. CallOK(ask)'
    BY <2>3, <2>5, CallKept DEF CallOK, CallHolds, ContactsKept
  <2>8. ask \in CallPlace(n, Len(contacts)) /\ n \in Nat /\ n # 0
    BY <1>0, <2>2, <2>3 DEF CallPlace
  <2>9. /\ r \in CallPlace(n, Len(contacts)) /\ r.pc = "done" /\ r.tool = ask.tool /\ r.lane = ask.lane
        /\ r.target = ask.target /\ r.file = ask.file /\ r.blocked = ask.blocked /\ r.result = {n}
        /\ r.sent = ask.sent /\ r.approved = ask.approved
    <3>1. PICK k, rows : k = Len(contacts) /\ rows = {n}
        OBVIOUS
    <3>2. rows \in SUBSET (1..n) /\ ask \in CallPlace(n, k) /\ r = [ask EXCEPT !.pc = "done", !.result = rows]
        BY <2>8, <3>1
    <3> HIDE DEF r
    <3>3. /\ r \in CallPlace(n, k) /\ r.pc = "done" /\ r.tool = ask.tool /\ r.lane = ask.lane
          /\ r.target = ask.target /\ r.file = ask.file /\ r.blocked = ask.blocked /\ r.result = rows
          /\ r.sent = ask.sent /\ r.approved = ask.approved
        BY <3>2 DEF CallPlace
    <3> QED
        BY <3>1, <3>3
  <2> HIDE DEF r
  <2>10. CallHolds(r)'
    <3>1. ~ask.sent
        BY <2>3 DEF CallOK, CallHolds
    <3> QED
        BY <2>3, <2>7, <2>9, <3>1 DEF CallOK, CallHolds
  <2>11. CallOK(r)'
    BY <2>3, <2>4, <2>5, <2>9, <2>10 DEF CallOK
  <2> QED
    BY <2>5, <2>6, <2>11, CallMovesTo
<1>8. ASSUME NEW c \in ToolCalls, CreateContact(c) PROVE ToolsIInv'
  <2>1. PICK ask : ask = toolCall[c]
    OBVIOUS
  <2>2. /\ ask.pc = "check" /\ ask.tool.does = "addContact" /\ CallOK(ask) /\ records' = records
        /\ moves' = moves /\ moves \in 0..MaxMoves
    BY <1>8, <1>0, <1>c, <2>1 DEF CreateContact, Runs, RowsOK
  <2>3. PICK name \in GivenNames, company \in GivenNames, blocked \in BOOLEAN, wants \in SUBSET {"phone", "mail"} :
            /\ contacts' = Append(contacts, NewContact(name, company, blocked))
            /\ toolCall' = [toolCall EXCEPT ![c].pc = IF wants = {} THEN "done" ELSE "act", ![c].wants = wants,
                                            ![c].target = Len(contacts')]
    BY <1>8 DEF CreateContact
  <2>4. PICK e \in ContactRow : e = NewContact(name, company, blocked)
    BY DEF NewContact, ContactRow, ContactNames
  <2>5. RowsKept /\ ContactsKept /\ Len(contacts') = Len(contacts) + 1 /\ DOMAIN contacts' = 1..Len(contacts) + 1
    BY <1>0, <2>2, <2>3, <2>4, ContactAdded
  <2>6. PICK pc, target : /\ pc = (IF wants = {} THEN "done" ELSE "act") /\ target = Len(contacts')
                          /\ pc \in {"act", "done"}
    OBVIOUS
  <2>7. PICK q : q = [ask EXCEPT !.pc = pc, !.wants = wants, !.target = target]
    OBVIOUS
  <2>8. toolCall' = [toolCall EXCEPT ![c] = q]
    BY <1>0, <2>1, <2>3, <2>6, <2>7
  <2>9. CallOK(ask)'
    BY <2>2, <2>5, CallKept DEF CallOK, CallHolds, ContactsKept
  <2>10. target \in Nat /\ target \in DOMAIN contacts'
    BY <1>0, <2>5, <2>6
  <2>11. CallOK(q)'
    <3>1. (ask \in CallPlace(Len(records), Len(contacts)) /\ CallHolds(ask))'
        BY <2>9 DEF CallOK
    <3>2. PICK n, k : n = Len(records') /\ k = Len(contacts')
        OBVIOUS
    <3>4. ask \in CallPlace(n, k)
        BY <3>1, <3>2 DEF CallPlace, SearchPlace
    <3>5. /\ q \in CallPlace(n, k) /\ q.pc = pc /\ q.tool = ask.tool /\ q.lane = ask.lane
          /\ q.target = target /\ q.file = ask.file /\ q.blocked = ask.blocked /\ q.result = ask.result /\ q.sent = ask.sent
          /\ q.approved = ask.approved
        BY <2>6, <2>7, <2>10, <3>4 DEF CallPlace
    <3>6. (q \in CallPlace(Len(records), Len(contacts)))'
        BY <3>2, <3>5 DEF CallPlace, SearchPlace
    <3>3. CallHolds(q)'
      <4>1. ~q.sent /\ q.pc # "check" /\ q.pc # "addresses" /\ q.tool.does = "addContact"
        BY <2>2, <2>6, <3>5 DEF CallOK, CallHolds
      <4>2. q.blocked \subseteq Blocked'
        BY <3>1, <3>5 DEF CallHolds
      <4>3. q.target \in DOMAIN contacts'
        BY <2>10, <3>5
      <4> QED
        BY <4>1, <4>2, <4>3 DEF CallHolds, ByRow, ByContact
    <3> QED
        BY <2>2, <2>9, <3>3, <3>5, <3>6 DEF CallOK
  <2> QED
    BY <2>5, <2>8, <2>11, CallMovesTo
<1>19. ASSUME NEW c \in ToolCalls, AddIdentity(c) PROVE ToolsIInv'
  <2>1. PICK ask, p : ask = toolCall[c] /\ p = ask.target
    OBVIOUS
  <2>2. ask.pc = "act" /\ ask.tool.does = "addContact" /\ CallOK(ask) /\ ask \in CallPlace(Len(records), Len(contacts))
    BY <1>19, <1>c, <2>1 DEF AddIdentity
  <2>3. p \in DOMAIN contacts /\ p \in Nat /\ ask.wants \in SUBSET {"phone", "mail"}
    BY <2>1, <2>2 DEF CallOK, CallHolds, CallPlace
  <2>4. CASE Fail(c)
    BY <2>1, <2>2, <2>4, CallFails
  <2>5. CASE ~Fail(c)
    <3>1. PICK phone, wants, pc, now :
            /\ phone = ("phone" \in ask.wants) /\ wants = ask.wants \ (IF phone THEN {"phone"} ELSE {"mail"})
            /\ pc = IF wants = {} THEN "done" ELSE "act"
            /\ now = [contacts[p] EXCEPT !.phone = contacts[p].phone \/ phone, !.mail = contacts[p].mail \/ ~phone]
        OBVIOUS
    <3>2. PICK calls : calls = [toolCall EXCEPT ![c].pc = pc, ![c].wants = wants]
        OBVIOUS
    <3>3. WriteContact(p, now, calls) /\ moves' = moves
        BY <1>19, <2>1, <2>5, <3>1, <3>2 DEF AddIdentity
    <3>4. now \in ContactRow
      <4>1. contacts[p] \in ContactRow
        BY <1>0, <2>3, RowFacts
      <4>2. PICK x \in BOOLEAN, y \in BOOLEAN : x = (contacts[p].phone \/ phone) /\ y = (contacts[p].mail \/ ~phone)
        BY <3>1
      <4>3. now = [contacts[p] EXCEPT !.phone = x, !.mail = y]
        BY <3>1, <4>2
      <4> QED
        BY <4>1, <4>3, ChangedContactRows
    <3>5. ASSUME NEW d \in ToolCalls PROVE CallOK(calls[d])
      <4>1. CASE d # c
        <5>1. calls[d] = toolCall[d]
            BY <1>0, <3>2, <4>1
        <5> QED
            BY <1>c, <5>1
      <4>2. CASE d = c
        <5>1. PICK q : q = [ask EXCEPT !.pc = pc, !.wants = wants, !.target = p]
            OBVIOUS
        <5>2. calls[d] = [ask EXCEPT !.pc = pc, !.wants = wants]
            BY <1>0, <2>1, <3>2, <4>2
        <5>3. q = [ask EXCEPT !.pc = pc, !.wants = wants]
            BY <2>1, <2>2, <5>1 DEF CallPlace
        <5>4. wants \in SUBSET {"phone", "mail"} /\ pc \in {"act", "done"}
            BY <2>3, <3>1
        <5>5. CallOK(q)
            BY <2>2, <2>3, <5>1, <5>4, CreatedOK
        <5> QED
            BY <5>2, <5>3, <5>5
      <4> QED
        BY <4>1, <4>2
    <3>6. moves' \in 0..MaxMoves
        BY <1>0, <3>3 DEF RowsOK
    <3> QED
        BY <2>3, <3>3, <3>4, <3>5, <3>6, ContactWritten
  <2> QED
    BY <2>4, <2>5
<1>9. ASSUME NEW c \in ToolCalls, CheckChange(c) PROVE ToolsIInv'
  <2>1. toolCall[c].pc = "check" /\ toolCall[c].tool.does = "change" /\ 0 \in 0..Len(contacts)
    BY <1>0, <1>9 DEF CheckChange, Runs
  <2>2. Fail(c) \/ (GoOn(c, 0) /\ records[toolCall[c].target].lane = toolCall[c].lane)
    BY <1>9 DEF CheckChange, InLane
  <2> QED
    BY <2>1, <2>2, CallFails, RowGoesOn
<1>10. ASSUME NEW c \in ToolCalls, ChangeRecord(c) PROVE ToolsIInv'
  <2>1. PICK ask : ask = toolCall[c]
    OBVIOUS
  <2>2. PICK i : i = ask.target
    OBVIOUS
  <2> DEFINE e == [records[i] EXCEPT !.by = ask.lane]
             r == [ask EXCEPT !.pc = "done", !.result = {i}]
  <2>3. /\ ask.pc = "act" /\ ask.tool.does = "change" /\ CallOK(ask) /\ ask \in CallPlace(Len(records), Len(contacts))
        /\ ask.lane \in ToolLanes /\ i \in DOMAIN records
    BY <1>10, <1>c, <1>r, <2>1, <2>2 DEF ChangeRecord, ByRow
  <2>4. records[i].lane = ask.lane
    BY <2>2, <2>3 DEF CallOK, CallHolds
  <2>5. CASE Fail(c)
    BY <2>1, <2>3, <2>5, CallFails
  <2>6. CASE ~Fail(c)
    <3>1. /\ records' = [records EXCEPT ![i] = e] /\ contacts' = contacts /\ moves' = moves /\ moves \in 0..MaxMoves
          /\ toolCall' = [toolCall EXCEPT ![c] = r]
        BY <1>0, <1>10, <2>1, <2>2, <2>6 DEF ChangeRecord, RowsOK
    <3>2. records[i] \in RecordRow(Len(contacts))
        BY <1>0, <2>3, RowFacts
    <3>3. e \in RecordRow(Len(contacts)) /\ e.lane = records[i].lane /\ e.by = ask.lane
        BY <2>3, <3>2 DEF RecordRow
    <3> HIDE DEF e
    <3>4. RowsKept /\ ContactsKept /\ DOMAIN records' = DOMAIN records
        BY <1>0, <2>3, <2>4, <3>1, <3>3, RecordChanges
    <3>5. PICK rows : rows = {i}
        OBVIOUS
    <3>6. rows \in SUBSET (1..Len(records)) /\ r = [ask EXCEPT !.pc = "done", !.result = rows]
        BY <1>0, <2>3, <3>5
    <3> HIDE DEF r
    <3>7. /\ r \in CallPlace(Len(records), Len(contacts)) /\ r.pc = "done" /\ r.tool = ask.tool /\ r.lane = ask.lane
          /\ r.target = ask.target /\ r.file = ask.file /\ r.blocked = ask.blocked /\ r.result = rows
          /\ r.sent = ask.sent /\ r.approved = ask.approved
        BY <2>3, <3>6 DEF CallPlace
    <3>8. CallHolds(r)
        BY <2>3, <3>7 DEF CallOK, CallHolds
    <3>9. CallOK(r)
        BY <2>3, <2>4, <3>5, <3>7, <3>8 DEF CallOK
    <3>10. PICK q : q = r
        OBVIOUS
    <3>11. CallOK(q)'
        BY <3>4, <3>9, <3>10, CallKept DEF CallOK, CallHolds, ContactsKept
    <3> QED
        BY <3>1, <3>4, <3>10, <3>11, CallMovesTo
  <2> QED
    BY <2>5, <2>6
<1>11. ASSUME NEW c \in ToolCalls, CheckContact(c) PROVE ToolsIInv'
  <2>1. /\ toolCall[c].pc = "check" /\ toolCall[c].tool.does = "changeContact"
        /\ Fail(c) \/ GoOn(c, toolCall[c].target)
    BY <1>11 DEF CheckContact, Runs
  <2>2. toolCall[c].target \in 0..Len(contacts)
    BY <1>0, <1>r, <2>1 DEF ByContact
  <2> QED
    BY <2>1, <2>2, CallFails, RowGoesOn
<1>12. ASSUME NEW c \in ToolCalls, CheckReply(c) PROVE ToolsIInv'
  <2> DEFINE party == records[toolCall[c].target].party
  <2>1. /\ toolCall[c].pc = "check" /\ toolCall[c].tool.does = "reply"
        /\ Fail(c) \/ (GoOn(c, party) /\ party \notin Blocked)
    BY <1>12 DEF CheckReply, Runs
  <2>2. party \in 0..Len(contacts)
    <3>1. records[toolCall[c].target] \in RecordRow(Len(contacts))
        BY <1>0, <1>r, <2>1, RowFacts DEF ByRow
    <3> QED
        BY <3>1 DEF RecordRow
  <2>3. toolCall[c].blocked \subseteq Blocked
    BY <1>c DEF CallHolds
  <2> HIDE DEF party
  <2> QED
    BY <2>1, <2>2, <2>3, CallFails, RowGoesOn
<1>13. ASSUME NEW c \in ToolCalls, CheckFile(c) PROVE ToolsIInv'
  <2> DEFINE party == records[toolCall[c].target].party
  <2>1. toolCall[c].pc = "check" /\ toolCall[c].tool.does = "file" /\ (Fail(c) \/ GoOn(c, party))
    BY <1>13 DEF CheckFile, Runs
  <2>2. party \in 0..Len(contacts)
    <3>1. records[toolCall[c].target] \in RecordRow(Len(contacts))
        BY <1>0, <1>r, <2>1, RowFacts DEF ByRow
    <3> QED
        BY <3>1 DEF RecordRow
  <2> HIDE DEF party
  <2> QED
    BY <2>1, <2>2, CallFails, RowGoesOn
<1>14. ASSUME NEW c \in ToolCalls, ResolveWhatsAppTarget(c) \/ ResolveMailTarget(c) PROVE ToolsIInv'
  <2> DEFINE p == CHOOSE q \in Pool(c) : TRUE
  <2>1. /\ toolCall[c].pc = "addresses" /\ toolCall[c].search.left = {}
        /\ Fail(c) \/ (Cardinality(Pool(c)) = 1 /\ p \notin toolCall[c].search.barred /\ GoOn(c, p))
    BY <1>14 DEF ResolveWhatsAppTarget, ResolveMailTarget, Resolves
  <2>2. p = CHOOSE q \in Pool(c) : TRUE
    OBVIOUS
  <2> HIDE DEF p
  <2> QED
    BY <2>1, <2>2, CallFails, ResolvedGoesOn
<1>15. ASSUME NEW c \in ToolCalls, SendIt(c) PROVE ToolsIInv'
  <2>1. PICK ask : ask = toolCall[c]
    OBVIOUS
  <2>2. PICK sent : sent = (ask.party # 0 /\ (ask.tool.does = "file" \/ Address(ask.party, ask.tool.kind)))
    OBVIOUS
  <2> DEFINE r == [ask EXCEPT !.pc = "done", !.sent = sent]
  <2>3. /\ ask.pc = "act" /\ ask.tool.does \in {"reply", "file", "sendTo", "mission"} /\ CallOK(ask)
        /\ ask \in CallPlace(Len(records), Len(contacts))
    BY <1>15, <1>c, <2>1 DEF SendIt
  <2>4. CASE Fail(c)
    BY <2>1, <2>3, <2>4, CallFails
  <2>5. CASE ~Fail(c)
    <3>1. toolCall' = [toolCall EXCEPT ![c] = r] /\ UNCHANGED <<records, contacts, moves>>
        BY <1>0, <1>15, <2>1, <2>2, <2>5 DEF SendIt
    <3>2. sent \in BOOLEAN
        BY <2>2
    <3>3. /\ r \in CallPlace(Len(records), Len(contacts)) /\ r.pc = "done" /\ r.tool = ask.tool /\ r.lane = ask.lane
          /\ r.target = ask.target /\ r.file = ask.file /\ r.blocked = ask.blocked /\ r.result = ask.result
          /\ r.party = ask.party /\ r.known = ask.known /\ r.approved = ask.approved
          /\ r.name = ask.name /\ r.changed = ask.changed /\ r.search = ask.search
        BY <2>3, <3>2 DEF CallPlace
    <3> HIDE DEF r
    <3>4. MayWriteTo(r)
      <4>1. MayWriteTo(ask)
        BY <2>3 DEF CallOK, CallHolds
      <4>2. RightParty(ask) => RightParty(r)
        BY <3>3 DEF RightParty, Steady
      <4> QED
        BY <3>3, <4>1, <4>2 DEF MayWriteTo
    <3>5. CallHolds(r)
        BY <2>3, <3>3, <3>4 DEF CallOK, CallHolds
    <3>6. CallOK(r)
        BY <2>3, <3>3, <3>5 DEF CallOK
    <3> QED
        BY <3>1, <3>6, CallStays
  <2> QED
    BY <2>4, <2>5
<1>16. ASSUME NEW c \in ToolCalls, ChangeOneContact(c) PROVE ToolsIInv'
  <2>1. PICK ask, p : ask = toolCall[c] /\ p = ask.target
    OBVIOUS
  <2>2. /\ ask.pc = "act" /\ ask.tool.does = "changeContact" /\ CallOK(ask)
        /\ ask \in CallPlace(Len(records), Len(contacts)) /\ p \in DOMAIN contacts
    BY <1>16, <1>c, <1>r, <2>1 DEF ChangeOneContact, ByContact
  <2>3. CASE Fail(c)
    BY <2>1, <2>2, <2>3, CallFails
  <2>4. CASE ~Fail(c)
    <3>1. PICK name \in {contacts[p].name} \union GivenNames, blocked \in BOOLEAN :
            WriteContact(p, [contacts[p] EXCEPT !.name = name, !.blocked = blocked], [toolCall EXCEPT ![c].pc = "done"])
        BY <1>16, <2>1, <2>4 DEF ChangeOneContact
    <3>2. PICK now, calls : /\ now = [contacts[p] EXCEPT !.name = name, !.blocked = blocked]
                            /\ calls = [toolCall EXCEPT ![c].pc = "done"]
        OBVIOUS
    <3>3. WriteContact(p, now, calls)
        BY <3>1, <3>2
    <3>4. now \in ContactRow
      <4>1. contacts[p] \in ContactRow
        BY <1>0, <2>2, RowFacts
      <4> QED
        BY <3>2, <4>1, ChangedContactRows
    <3>5. ASSUME NEW d \in ToolCalls PROVE CallOK(calls[d])
      <4>1. CASE d # c
        <5>1. calls[d] = toolCall[d]
            BY <1>0, <3>2, <4>1
        <5> QED
            BY <1>c, <5>1
      <4>2. CASE d = c
        <5>1. PICK q : q = [ask EXCEPT !.pc = "done"]
            OBVIOUS
        <5>2. calls[d] = q
            BY <1>0, <2>1, <3>2, <4>2, <5>1
        <5>3. /\ q \in CallPlace(Len(records), Len(contacts)) /\ q.pc = "done" /\ q.tool = ask.tool /\ q.lane = ask.lane
              /\ q.target = ask.target /\ q.file = ask.file /\ q.blocked = ask.blocked /\ q.result = ask.result
              /\ q.sent = ask.sent /\ q.approved = ask.approved
            BY <2>2, <5>1 DEF CallPlace
        <5>4. CallHolds(q)
            BY <2>2, <5>3 DEF CallOK, CallHolds
        <5>5. CallOK(q)
            BY <2>2, <5>3, <5>4 DEF CallOK
        <5> QED
            BY <5>2, <5>5
      <4> QED
        BY <4>1, <4>2
    <3>6. moves' \in 0..MaxMoves
        BY <1>0, <1>16, <2>1, <2>4 DEF ChangeOneContact, RowsOK
    <3> QED
        BY <2>2, <3>3, <3>4, <3>5, <3>6, ContactWritten
  <2> QED
    BY <2>3, <2>4
<1>20. ASSUME NEW c \in ToolCalls, LookUpContacts(c) PROVE ToolsIInv'
  <2>1. PICK ask, matches : ask = toolCall[c] /\ matches = AllMeant(ask)
    OBVIOUS
  <2>2. ask.pc = "check" /\ ask.tool.does \in ByName /\ CallOK(ask)
    BY <1>20, <1>c, <2>1 DEF LookUpContacts, Runs
  <2>3. CASE Fail(c)
    BY <2>1, <2>2, <2>3, CallFails
  <2>4. CASE ~Fail(c)
    <3>1. PICK found \in SUBSET matches :
            toolCall' = [toolCall EXCEPT ![c].pc = "addresses",
                 ![c].search = [found |-> found, exact |-> {p \in found : contacts[p].name = toolCall[c].name},
                                barred |-> found \intersect Blocked, left |-> found, reached |-> {},
                                whole |-> found = matches]]
        BY <1>20, <2>1, <2>4 DEF LookUpContacts, AllMeant
    <3>2. UNCHANGED <<records, contacts, moves>>
        BY <1>20, <2>4 DEF LookUpContacts
    <3>3. PICK s, r : s = Listing(ask, found, found = matches) /\ Listed(r, ask, s)
        BY DEF Listed
    <3>4. toolCall' = [toolCall EXCEPT ![c] = r]
      <4>1. toolCall' = [toolCall EXCEPT ![c].pc = "addresses", ![c].search = s]
        BY <2>1, <3>1, <3>3 DEF Listing
      <4>2. PICK place : toolCall \in [ToolCalls -> place] /\ place = CallPlace(Len(records), Len(contacts))
        BY <1>0
      <4>3. PICK calls, new : calls = toolCall' /\ new = s
        OBVIOUS
      <4>4. calls = [toolCall EXCEPT ![c].pc = "addresses", ![c].search = new]
        BY <4>1, <4>3
      <4>5. r = [toolCall[c] EXCEPT !.pc = "addresses", !.search = new]
        BY <2>1, <3>3, <4>3, Zenon DEF Listed
      <4>6. calls = [toolCall EXCEPT ![c] = r]
        BY <4>2, <4>4, <4>5
      <4> QED
        BY <4>3, <4>6
    <3>5. found \subseteq matches
        BY <3>1, Zenon
    <3>6. CallOK(r)
        BY <1>0, <2>1, <2>2, <3>3, <3>5, ListedOK
    <3> QED
        BY <3>2, <3>4, <3>6, CallStays
  <2> QED
    BY <2>3, <2>4
<1>21. ASSUME NEW c \in ToolCalls, NEW p \in DOMAIN contacts, ReadIdentity(c, p) PROVE ToolsIInv'
  <2>1. PICK ask, s : ask = toolCall[c] /\ s = ask.search
    OBVIOUS
  <2>2. PICK t, r : /\ t = [s EXCEPT !.left = s.left \ {p},
                                !.reached = IF Address(p, ask.tool.kind) THEN s.reached \union {p} ELSE s.reached]
                    /\ r = [ask EXCEPT !.search = t]
    OBVIOUS
  <2>3. /\ ask.pc = "addresses" /\ p \in s.left /\ toolCall' = [toolCall EXCEPT ![c].search = t]
        /\ UNCHANGED <<records, contacts, moves>>
    BY <1>21, <2>1, <2>2 DEF ReadIdentity
  <2>4. toolCall' = [toolCall EXCEPT ![c] = r]
    BY <1>0, <2>1, <2>2, <2>3
  <2>5. CallOK(r)
    BY <1>c, <2>1, <2>2, <2>3, ReadOK
  <2> QED
    BY <2>3, <2>4, <2>5, CallStays
<1>17. CASE Meanwhile
  <2>1. moves' \in 0..MaxMoves
    BY <1>0, <1>17, ToolConstants DEF Meanwhile, RowsOK
  <2>2. ASSUME NEW p \in DOMAIN contacts, ChangesOf(p) PROVE ToolsIInv'
    <3>1. contacts[p] \in ContactRow
        BY <1>0, RowFacts
    <3>2. \A now \in ContactRow : WriteContact(p, now, toolCall) => ToolsIInv'
        BY <1>c, <2>1, ContactWritten
    <3>3. ASSUME NEW name \in {contacts[p].name} \union GivenNames, NEW company \in {contacts[p].company} \union GivenNames,
                 NEW blocked \in BOOLEAN
          PROVE  [contacts[p] EXCEPT !.name = name, !.company = company, !.blocked = blocked] \in ContactRow
        BY <3>1, ChangedContactRows
    <3>4. /\ [contacts[p] EXCEPT !.phone = ~contacts[p].phone] \in ContactRow
          /\ [contacts[p] EXCEPT !.mail = ~contacts[p].mail] \in ContactRow /\ Removed \in ContactRow
        BY <3>1, ChangedContactRows
    <3> QED
        BY <2>2, <3>2, <3>3, <3>4, Zenon DEF ChangesOf
  <2>3. ASSUME toolCall' = toolCall, RowsKept, ContactsKept PROVE ToolsIInv'
    <3>1. ASSUME NEW d \in ToolCalls PROVE \E q : q = toolCall'[d] /\ CallOK(q)'
      <4>1. PICK q : q = toolCall[d]
        OBVIOUS
      <4>2. CallOK(q)'
        BY <1>c, <2>3, <4>1, CallKept DEF CallHolds, ContactsKept
      <4> QED
        BY <2>3, <4>1, <4>2
    <3> QED
        BY <1>0, <2>3, <3>1, CallsHold DEF RowsKept
  <2>4. ASSUME NEW p \in DOMAIN contacts, contacts' = Append(contacts, contacts[p]), UNCHANGED <<records, toolCall>>
        PROVE  ToolsIInv'
    <3>1. contacts[p] \in ContactRow
        BY <1>0, RowFacts
    <3> QED
        BY <1>0, <2>1, <2>3, <2>4, <3>1, ContactAdded
  <2>5. ASSUME NEW i \in DOMAIN records, records' = [records EXCEPT ![i].live = FALSE], UNCHANGED <<contacts, toolCall>>
        PROVE  ToolsIInv'
    <3> DEFINE e == [records[i] EXCEPT !.live = FALSE]
    <3>1. records[i] \in RecordRow(Len(contacts)) /\ records[i].by \in {"none", records[i].lane}
        BY <1>0, RowFacts DEF RowsOK
    <3>2. e \in RecordRow(Len(contacts)) /\ e.lane = records[i].lane /\ e.by = records[i].by
        BY <3>1 DEF RecordRow
    <3>3. records' = [records EXCEPT ![i] = e]
        BY <2>5
    <3> HIDE DEF e
    <3> QED
        BY <1>0, <2>1, <2>3, <2>5, <3>1, <3>2, <3>3, RecordChanges
  <2> QED
    BY <1>17, <2>2, <2>4, <2>5 DEF Meanwhile
<1>18. CASE UNCHANGED toolVars
  <2>1. toolCall' = toolCall /\ UNCHANGED <<records, contacts, moves>>
    BY <1>18 DEF toolVars
  <2>2. RowsKept /\ ContactsKept
    BY <2>1, RowsStay
  <2>3. ASSUME NEW d \in ToolCalls PROVE \E q : q = toolCall'[d] /\ CallOK(q)'
    <3>1. PICK q : q = toolCall[d]
        OBVIOUS
    <3>2. CallOK(q)'
        BY <1>c, <2>2, <3>1, CallKept DEF CallHolds, ContactsKept
    <3> QED
        BY <2>1, <3>1, <3>2
  <2> QED
    BY <1>0, <2>1, <2>2, <2>3, CallsHold DEF RowsKept
<1> QED
    BY <1>1, <1>2, <1>3, <1>4, <1>5, <1>6, <1>7, <1>8, <1>9, <1>10, <1>11, <1>12, <1>13, <1>14, <1>15, <1>16, <1>17, <1>18,
       <1>19, <1>20, <1>21
    DEF ToolsNext

(* While rows change under them and contacts are renamed, removed, blocked  *)
(* or given other addresses: a tool lists, gets, creates and changes rows of *)
(* its own lane, drafts of replies apart; a contact that was blocked before *)
(* and still is gets neither a message nor a mission; a name reaches a      *)
(* contact it means and, if the list of contacts was not cut short, no one  *)
(* beside another steady contact it means as well ("it never guesses",      *)
(* whatsapp-contact-resolver.ts); and N2 tools act after approval only.     *)
THEOREM ToolsStayInLane == ToolsSpec => []ToolsSafe
<1>1. ToolsInit => ToolsIInv
  <2> SUFFICES ASSUME ToolsInit PROVE ToolsIInv
    OBVIOUS
  <2>1. RowsOK
    BY ToolConstants DEF ToolsInit, RowsOK
  <2>2. Len(contacts) \in Nat /\ Len(records) \in Nat
    BY <2>1, RowFacts
  <2>3. /\ NotCalled.pc = "idle" /\ NotCalled.tool = ListTasksTool /\ NotCalled.blocked = {} /\ NotCalled.sent = FALSE
        /\ NotCalled.result = {}
        /\ NotCalled \in CallPlace(Len(records), Len(contacts))
    <3>1. ListTasksTool \in ToolSet
        BY DEF ToolSet
    <3> QED
      <4>1. NoSearch \in SearchPlace(Len(contacts))
        BY DEF NoSearch, SearchPlace
      <4> QED
        BY <2>2, <3>1, <4>1, ToolConstants DEF NotCalled, Called, CallPlace
  <2>4. CallOK(NotCalled)
    BY <2>3 DEF CallOK, CallHolds
  <2>5. CallsOK
    BY <2>3, <2>4 DEF ToolsInit, CallsOK
  <2> QED
    BY <2>1, <2>5, ToolsHold
<1>2. ToolsIInv => ToolsSafe
    BY DEF ToolsIInv, ToolsInv, ToolsSafe
<1> QED
    BY <1>1, <1>2, ToolsStep, PTL DEF ToolsSpec

-------------------------------------------------------------------------------
(* Voice connections *)

Rows == [status : States \union {"none"}, user : Users \union {NoUser}]
Socks == [phase : {"new", "open", "closing", "closed"}, user : Users \union {NoUser},
          session : Sessions \union {NoSession}]
Handlers == [pc : {"idle", "load", "attach", "check", "write", "own", "end", "notify", "close"},
             op : {"none", "start", "state", "end", "rest"},
             user : Users \union {NoUser}, socket : Sockets \union {NoSocket},
             session : Sessions \union {NoSession},
             seen : States \union {"none"}, to : States \union {"none"}]

(* The part of HandlerInv about one handler in state r.                    *)
HandlerOK(r) == r.pc # "idle" =>
    /\ r.session \in Sessions
    /\ r.pc \in {"load", "attach"} =>
        /\ r.socket \in Sockets /\ sock[r.socket].phase # "new"
        /\ r.user = sock[r.socket].user
        /\ r.pc = "attach" /\ r.seen # "none" => row[r.session].status # "none"
    /\ r.pc \in {"check", "write"} => row[r.session].status # "none"
    /\ r.pc = "check" => r.to \in Requested
    /\ r.pc = "write" => /\ r.to \in {"listening", "paused"}
                         /\ r.to = "paused" => row[r.session].status # "created"
    /\ r.pc \in {"own", "end"} => /\ r.user \in Users
                                  /\ r.op = "end" \/ r.pc = "end" => row[r.session].user = r.user
    /\ r.pc = "notify" => r.session \in ended

LEMMA ConnTypeFacts ==
    ASSUME ConnTypeOK
    PROVE  /\ row \in [Sessions -> Rows] /\ sock \in [Sockets -> Socks]
           /\ sockets \in [Sessions -> Sockets \union {NoSocket}]
           /\ call \in [Calls -> Handlers] /\ ended \subseteq Sessions /\ torn \subseteq Sessions
BY DEF ConnTypeOK, Rows, Socks, Handlers

LEMMA ConnTypeKept ==
    ASSUME row' \in [Sessions -> Rows], sock' \in [Sockets -> Socks],
           sockets' \in [Sessions -> Sockets \union {NoSocket}],
           call' \in [Calls -> Handlers], ended' \subseteq Sessions, torn' \subseteq Sessions
    PROVE  ConnTypeOK'
BY DEF ConnTypeOK, Rows, Socks, Handlers

(* The handlers that do not move keep what they have read, as long as rows *)
(* and sockets keep their owners and no row returns to created.            *)
LEMMA HandlersKept ==
    ASSUME ConnTypeOK, HandlerInv, NEW h \in Calls,
           \A g \in Calls \ {h} : call'[g] = call[g], HandlerOK(call[h])',
           \A c \in Sockets : sock[c].phase # "new" => sock'[c].phase # "new" /\ sock'[c].user = sock[c].user,
           \A s \in Sessions : row[s].status # "none" =>
                /\ row'[s].status # "none" /\ row'[s].user = row[s].user
                /\ row[s].status # "created" => row'[s].status # "created",
           StatusInv, ended \subseteq ended'
    PROVE  HandlerInv'
<1>2. ASSUME NEW g \in Calls \ {h} PROVE HandlerOK(call[g])'
  <2>1. HandlerOK(call[g])
    BY DEF HandlerInv, HandlerOK
  <2>2. call[g].user \in Users => call[g].user # NoUser
    BY ConnectionConstants
  <2>3. call'[g] = call[g]
    OBVIOUS
  <2> QED
    BY <2>1, <2>2, <2>3 DEF HandlerOK, StatusInv
<1> QED
    BY <1>2 DEF HandlerInv, HandlerOK

(* Steps that leave the handlers alone.                                    *)
LEMMA NoHandlerMoves ==
    ASSUME ConnTypeOK, HandlerInv, StatusInv, call' = call, ended' = ended,
           \A c \in Sockets : sock[c].phase # "new" => sock'[c].phase # "new" /\ sock'[c].user = sock[c].user,
           \A s \in Sessions : row[s].status # "none" => row'[s] = row[s]
    PROVE  HandlerInv'
<1> SUFFICES ASSUME NEW h \in Calls PROVE HandlerOK(call[h])'
    BY DEF HandlerInv, HandlerOK
<1>1. HandlerOK(call[h])
    BY DEF HandlerInv, HandlerOK
<1>2. call[h].user \in Users => call[h].user # NoUser
    BY ConnectionConstants
<1> QED
    BY <1>1, <1>2 DEF HandlerOK, StatusInv

(* The records a handler passes through.                                   *)
LEMMA HandlerRecords ==
    ASSUME ConnTypeOK, NEW h \in Calls
    PROVE  /\ Idle \in Handlers /\ Idle.pc = "idle"
           /\ call[h] \in Handlers
           /\ call' = [call EXCEPT ![h] = Idle] =>
                /\ call' \in [Calls -> Handlers] /\ call'[h].pc = "idle"
                /\ \A g \in Calls \ {h} : call'[g] = call[g]
           /\ \A p \in {"load", "attach", "check", "write", "own", "end", "notify", "close"} :
                Step(h, p) =>
                /\ call' \in [Calls -> Handlers]
                /\ call'[h] \in Handlers /\ call'[h].pc = p /\ call'[h].op = call[h].op
                /\ call'[h].user = call[h].user /\ call'[h].socket = call[h].socket
                /\ call'[h].session = call[h].session /\ call'[h].seen = call[h].seen
                /\ call'[h].to = call[h].to
                /\ \A g \in Calls \ {h} : call'[g] = call[g]
<1>1. call \in [Calls -> Handlers]
    BY ConnTypeFacts
<1>2. Idle \in Handlers /\ Idle.pc = "idle"
    BY DEF Idle, Handlers
<1>3. call[h] \in Handlers
    BY <1>1
<1>4. ASSUME NEW p \in {"load", "attach", "check", "write", "own", "end", "notify", "close"}, Step(h, p)
      PROVE  /\ call' \in [Calls -> Handlers]
             /\ call'[h] \in Handlers /\ call'[h].pc = p /\ call'[h].op = call[h].op
             /\ call'[h].user = call[h].user /\ call'[h].socket = call[h].socket
             /\ call'[h].session = call[h].session /\ call'[h].seen = call[h].seen
             /\ call'[h].to = call[h].to
             /\ \A g \in Calls \ {h} : call'[g] = call[g]
  <2> DEFINE r == [call[h] EXCEPT !.pc = p]
  <2>1. call' = [call EXCEPT ![h] = r]
    BY <1>4 DEF Step
  <2>2. /\ r \in Handlers /\ r.pc = p /\ r.op = call[h].op /\ r.user = call[h].user
        /\ r.socket = call[h].socket /\ r.session = call[h].session /\ r.seen = call[h].seen
        /\ r.to = call[h].to
    BY <1>3 DEF Handlers
  <2> HIDE DEF r
  <2> QED
    BY <1>1, <2>1, <2>2
<1> QED
    BY <1>1, <1>2, <1>3, <1>4

(* A socket that is asked to close keeps its user and session, and goes on *)
(* receiving until its close event.                                        *)
LEMMA SocketCloses ==
    ASSUME ConnTypeOK, SocketInv, NEW c \in Sockets, Close(c), row' = row, ended' = ended,
           torn \subseteq torn', \A s \in Sessions \ (ended \union torn') : sockets'[s] = sockets[s]
    PROVE  /\ sock' \in [Sockets -> Socks] /\ SocketInv'
           /\ \A d \in Sockets : /\ sock'[d].user = sock[d].user /\ sock'[d].session = sock[d].session
                                 /\ sock[d].phase = "new" <=> sock'[d].phase = "new"
<1>1. sock \in [Sockets -> Socks]
    BY ConnTypeFacts
<1> DEFINE r == [sock[c] EXCEPT !.phase = IF @ = "open" THEN "closing" ELSE @]
<1>2. sock' = [sock EXCEPT ![c] = r]
    BY DEF Close
<1>3. /\ r \in Socks /\ r.user = sock[c].user /\ r.session = sock[c].session
      /\ r.phase = IF sock[c].phase = "open" THEN "closing" ELSE sock[c].phase
    BY <1>1 DEF Socks
<1> HIDE DEF r
<1>4. /\ sock' \in [Sockets -> Socks]
      /\ \A d \in Sockets : /\ sock'[d].user = sock[d].user /\ sock'[d].session = sock[d].session
                            /\ sock[d].phase = "new" <=> sock'[d].phase = "new"
                            /\ sock'[d].phase \in {"open", "closing"} <=> sock[d].phase \in {"open", "closing"}
    BY <1>1, <1>2, <1>3
<1>5. SocketInv'
    BY <1>4 DEF SocketInv, Receives
<1> QED
    BY <1>4, <1>5

Keeps == ConnTypeOK' /\ ConnInv'

(* Requests and events that come from outside: new rows, new sockets, and  *)
(* sockets that close.                                                     *)
LEMMA OutsideKeeps ==
    ASSUME ConnTypeOK, ConnInv,
           \/ \E s \in Sessions, u \in Users : Create(s, u)
           \/ \E c \in Sockets, u \in Users : Connect(c, u)
           \/ \E c \in Sockets : IdleTimeout(c) \/ SocketClosed(c)
    PROVE  Keeps
<1>0. /\ row \in [Sessions -> Rows] /\ sock \in [Sockets -> Socks]
      /\ sockets \in [Sessions -> Sockets \union {NoSocket}]
      /\ call \in [Calls -> Handlers] /\ ended \subseteq Sessions /\ torn \subseteq Sessions
    BY ConnTypeFacts
<1>1. ASSUME NEW s \in Sessions, NEW u \in Users, Create(s, u) PROVE Keeps
  <2> DEFINE r == [status |-> "created", user |-> u]
  <2>1. /\ r \in Rows /\ r.status = "created" /\ r.user = u /\ row[s].status = "none"
        /\ row' = [row EXCEPT ![s] = r]
        /\ sock' = sock /\ sockets' = sockets /\ call' = call /\ ended' = ended /\ torn' = torn
    BY <1>1 DEF Create, Rows, States
  <2> HIDE DEF r
  <2>2. row' \in [Sessions -> Rows] /\ row'[s] = r /\ \A t \in Sessions \ {s} : row'[t] = row[t]
    BY <1>0, <2>1
  <2>3. ConnTypeOK'
    BY <1>0, <2>1, <2>2, ConnTypeKept
  <2>4. StatusInv'
    BY <2>1, <2>2 DEF ConnInv, StatusInv
  <2>5. \A c \in Sockets : sock[c].session # NoSession => sock[c].session # s
    BY <1>0, <2>1, ConnectionConstants DEF ConnInv, StatusInv, SocketInv, Socks
  <2>6. SocketInv'
    BY <1>0, <2>1, <2>2, <2>5 DEF ConnInv, SocketInv, Receives, Socks
  <2>7. HandlerInv'
    BY <2>1, <2>2, NoHandlerMoves DEF ConnInv
  <2> QED
    BY <2>3, <2>4, <2>6, <2>7 DEF Keeps, ConnInv
<1>2. ASSUME NEW c \in Sockets, NEW u \in Users, Connect(c, u) PROVE Keeps
  <2> DEFINE r == [[sock[c] EXCEPT !.phase = "open"] EXCEPT !.user = u]
  <2>1. /\ sock' = [sock EXCEPT ![c] = r] /\ sock[c].phase = "new"
        /\ row' = row /\ sockets' = sockets /\ call' = call /\ ended' = ended /\ torn' = torn
    BY <1>0, <1>2 DEF Connect, Socks
  <2>2. r \in Socks /\ r.phase = "open" /\ r.user = u /\ r.session = NoSession
    BY <1>0, <2>1 DEF Socks, ConnInv, SocketInv
  <2> HIDE DEF r
  <2>3. sock' \in [Sockets -> Socks] /\ sock'[c] = r /\ \A d \in Sockets \ {c} : sock'[d] = sock[d]
    BY <1>0, <2>1, <2>2
  <2>4. ConnTypeOK'
    BY <1>0, <2>1, <2>3, ConnTypeKept
  <2>5. StatusInv'
    BY <2>1 DEF ConnInv, StatusInv
  <2>6. SocketInv'
    BY <2>1, <2>2, <2>3, ConnectionConstants DEF ConnInv, SocketInv, Receives
  <2>7. HandlerInv'
    BY <2>1, <2>3, NoHandlerMoves DEF ConnInv
  <2> QED
    BY <2>4, <2>5, <2>6, <2>7 DEF Keeps, ConnInv
<1>3. ASSUME NEW c \in Sockets, IdleTimeout(c) PROVE Keeps
  <2>1. Close(c) /\ row' = row /\ sockets' = sockets /\ call' = call /\ ended' = ended /\ torn' = torn
    BY <1>3 DEF IdleTimeout
  <2>2. /\ sock' \in [Sockets -> Socks] /\ SocketInv'
        /\ \A d \in Sockets : /\ sock'[d].user = sock[d].user /\ sock'[d].session = sock[d].session
                              /\ sock[d].phase = "new" <=> sock'[d].phase = "new"
    BY <2>1, SocketCloses DEF ConnInv
  <2>3. ConnTypeOK'
    BY <1>0, <2>1, <2>2, ConnTypeKept
  <2>4. StatusInv' /\ HandlerInv'
    <3>1. HandlerInv'
        BY <2>1, <2>2, NoHandlerMoves DEF ConnInv
    <3> QED
        BY <2>1, <3>1 DEF ConnInv, StatusInv
  <2> QED
    BY <2>2, <2>3, <2>4 DEF Keeps, ConnInv
<1>4. ASSUME NEW c \in Sockets, SocketClosed(c) PROVE Keeps
  <2> DEFINE r == [sock[c] EXCEPT !.phase = "closed"]
  <2>1. /\ sock' = [sock EXCEPT ![c] = r] /\ Receives(c)
        /\ sockets' = [s \in Sessions |-> IF s = sock[c].session THEN NoSocket ELSE sockets[s]]
        /\ row' = row /\ call' = call /\ ended' = ended /\ torn' = torn
    BY <1>4 DEF SocketClosed
  <2>2. r \in Socks /\ r.phase = "closed" /\ r.user = sock[c].user /\ r.session = sock[c].session
    BY <1>0 DEF Socks
  <2> HIDE DEF r
  <2>3. /\ sock' \in [Sockets -> Socks] /\ sock'[c] = r /\ \A d \in Sockets \ {c} : sock'[d] = sock[d]
        /\ sockets' \in [Sessions -> Sockets \union {NoSocket}]
    BY <1>0, <2>1, <2>2
  <2>4. ConnTypeOK'
    BY <1>0, <2>1, <2>3, ConnTypeKept
  <2>5. StatusInv'
    BY <2>1 DEF ConnInv, StatusInv
  <2>6. SocketInv'
    <3>1. ASSUME NEW d \in Sockets \ {c}, Receives(d), sock[d].session \in Sessions \ (ended \union torn)
          PROVE  sock[d].session # sock[c].session
        BY <2>1, <3>1 DEF ConnInv, SocketInv
    <3>2. ASSUME NEW d \in Sockets, Receives(d)', sock'[d].session \in Sessions \ (ended \union torn)
          PROVE  sockets'[sock'[d].session] = d
        BY <2>1, <2>2, <2>3, <3>1, <3>2 DEF ConnInv, SocketInv, Receives
    <3> QED
        BY <2>1, <2>2, <2>3, <3>2 DEF ConnInv, SocketInv, Receives
  <2>7. HandlerInv'
    BY <2>1, <2>2, <2>3, NoHandlerMoves DEF ConnInv
  <2> QED
    BY <2>4, <2>5, <2>6, <2>7 DEF Keeps, ConnInv
<1> QED
    BY <1>1, <1>2, <1>3, <1>4

(* A message or a request begins a handler.                                *)
LEMMA BeginKeeps ==
    ASSUME ConnTypeOK, ConnInv,
           \/ \E h \in Calls, c \in Sockets, s \in Sessions : StartSession(h, c, s)
           \/ \E h \in Calls, c \in Sockets, to \in Requested : ChangeState(h, c, to)
           \/ \E h \in Calls, c \in Sockets : EndBySocket(h, c)
           \/ \E h \in Calls, s \in Sessions, u \in Users : EndByRest(h, s, u)
    PROVE  Keeps
<1>0. /\ row \in [Sessions -> Rows] /\ sock \in [Sockets -> Socks]
      /\ sockets \in [Sessions -> Sockets \union {NoSocket}]
      /\ call \in [Calls -> Handlers] /\ ended \subseteq Sessions /\ torn \subseteq Sessions
      /\ Idle \in Handlers
    BY ConnTypeFacts, HandlerRecords DEF Idle, Handlers
<1>1. PICK h \in Calls : \E r \in Handlers :
        /\ call' = [call EXCEPT ![h] = r] /\ HandlerOK(r)
        /\ row' = row /\ sock' = sock /\ sockets' = sockets /\ ended' = ended /\ torn' = torn
  <2>1. ASSUME NEW h \in Calls, NEW c \in Sockets, NEW s \in Sessions, StartSession(h, c, s)
        PROVE  \E r \in Handlers : /\ call' = [call EXCEPT ![h] = r] /\ HandlerOK(r)
                    /\ row' = row /\ sock' = sock /\ sockets' = sockets /\ ended' = ended /\ torn' = torn
    <3> DEFINE r == [Idle EXCEPT !.pc = "load", !.op = "start", !.user = sock[c].user, !.socket = c, !.session = s]
    <3>1. /\ r.pc = "load" /\ r.op = "start" /\ r.user = sock[c].user /\ r.socket = c
          /\ r.session = s /\ r.seen = "none" /\ r.to = "none"
        BY DEF Idle
    <3>2. r \in Handlers /\ HandlerOK(r)
        BY <1>0, <2>1, <3>1, ZenonT(60) DEF Handlers, HandlerOK, StartSession, Receives, Socks
    <3> HIDE DEF r
    <3> QED
        BY <2>1, <3>2 DEF StartSession, Begin, r
  <2>2. ASSUME NEW h \in Calls, NEW c \in Sockets, NEW to \in Requested, ChangeState(h, c, to)
        PROVE  \E r \in Handlers : /\ call' = [call EXCEPT ![h] = r] /\ HandlerOK(r)
                    /\ row' = row /\ sock' = sock /\ sockets' = sockets /\ ended' = ended /\ torn' = torn
    <3> DEFINE r == [Idle EXCEPT !.pc = "check", !.op = "state", !.socket = c, !.session = sock[c].session, !.to = to]
    <3>1. /\ r.pc = "check" /\ r.op = "state" /\ r.user = NoUser /\ r.socket = c
          /\ r.session = sock[c].session /\ r.seen = "none" /\ r.to = to
        BY DEF Idle
    <3>2. sock[c].session \in Sessions /\ sock[c].phase # "new" /\ to \in States
        BY <1>0, <2>2 DEF ChangeState, Receives, Socks, Requested, States
    <3>3. row[sock[c].session].status # "none"
        BY <2>2, <3>2, ConnectionConstants, ZenonT(60) DEF ConnInv, StatusInv, SocketInv, ChangeState
    <3>4. r \in Handlers /\ HandlerOK(r)
        BY <1>0, <3>1, <3>2, <3>3 DEF Handlers, HandlerOK
    <3> HIDE DEF r
    <3> QED
        BY <2>2, <3>4 DEF ChangeState, Begin, r
  <2>3. ASSUME NEW h \in Calls, NEW c \in Sockets, EndBySocket(h, c)
        PROVE  \E r \in Handlers : /\ call' = [call EXCEPT ![h] = r] /\ HandlerOK(r)
                    /\ row' = row /\ sock' = sock /\ sockets' = sockets /\ ended' = ended /\ torn' = torn
    <3> DEFINE r == [Idle EXCEPT !.pc = "own", !.op = "end", !.user = sock[c].user, !.socket = c, !.session = sock[c].session]
    <3>1. /\ r.pc = "own" /\ r.op = "end" /\ r.user = sock[c].user /\ r.socket = c
          /\ r.session = sock[c].session /\ r.seen = "none" /\ r.to = "none"
        BY DEF Idle
    <3>2. sock[c].session \in Sessions /\ sock[c].phase # "new"
        BY <1>0, <2>3 DEF EndBySocket, Receives, Socks
    <3>3. row[sock[c].session].user = sock[c].user /\ sock[c].user \in Users
        BY <2>3, <3>2 DEF ConnInv, SocketInv, EndBySocket
    <3>4. r \in Handlers /\ HandlerOK(r)
        BY <1>0, <3>1, <3>2, <3>3 DEF Handlers, HandlerOK
    <3> HIDE DEF r
    <3> QED
        BY <2>3, <3>4 DEF EndBySocket, Begin, r
  <2>4. ASSUME NEW h \in Calls, NEW s \in Sessions, NEW u \in Users, EndByRest(h, s, u)
        PROVE  \E r \in Handlers : /\ call' = [call EXCEPT ![h] = r] /\ HandlerOK(r)
                    /\ row' = row /\ sock' = sock /\ sockets' = sockets /\ ended' = ended /\ torn' = torn
    <3> DEFINE r == [Idle EXCEPT !.pc = "own", !.op = "rest", !.user = u, !.session = s]
    <3>1. /\ r.pc = "own" /\ r.op = "rest" /\ r.user = u /\ r.socket = NoSocket
          /\ r.session = s /\ r.seen = "none" /\ r.to = "none"
        BY DEF Idle
    <3>2. r \in Handlers /\ HandlerOK(r)
        BY <1>0, <3>1 DEF Handlers, HandlerOK
    <3> HIDE DEF r
    <3> QED
        BY <2>4, <3>2 DEF EndByRest, Begin, r
  <2> QED
    BY <2>1, <2>2, <2>3, <2>4
<1>2. PICK r \in Handlers :
        /\ call' = [call EXCEPT ![h] = r] /\ HandlerOK(r)
        /\ row' = row /\ sock' = sock /\ sockets' = sockets /\ ended' = ended /\ torn' = torn
    BY <1>1
<1>3. /\ call' \in [Calls -> Handlers] /\ call'[h] = r /\ \A g \in Calls \ {h} : call'[g] = call[g]
    BY <1>0, <1>2
<1>4. HandlerOK(call[h])'
    BY <1>2, <1>3 DEF HandlerOK
<1>5. HandlerInv'
    BY <1>2, <1>3, <1>4, HandlersKept DEF ConnInv
<1>6. ConnTypeOK'
    BY <1>0, <1>2, <1>3, ConnTypeKept
<1>7. StatusInv' /\ SocketInv'
    BY <1>2 DEF ConnInv, StatusInv, SocketInv, Receives
<1> QED
    BY <1>5, <1>6, <1>7 DEF Keeps, ConnInv

(* A handler that moves on and touches no row.                             *)
LEMMA HandlerMoves ==
    ASSUME ConnTypeOK, ConnInv, NEW h \in Calls, call' \in [Calls -> Handlers],
           \A g \in Calls \ {h} : call'[g] = call[g], HandlerOK(call[h])',
           row' = row, ended' = ended, torn' \subseteq Sessions, sock' \in [Sockets -> Socks], SocketInv',
           sockets' \in [Sessions -> Sockets \union {NoSocket}],
           \A c \in Sockets : sock[c].phase # "new" => sock'[c].phase # "new" /\ sock'[c].user = sock[c].user
    PROVE  Keeps
<1>1. HandlerInv'
    BY HandlersKept DEF ConnInv
<1>2. ConnTypeOK'
    BY ConnTypeFacts, ConnTypeKept
<1>3. StatusInv'
    BY DEF ConnInv, StatusInv
<1> QED
    BY <1>1, <1>2, <1>3 DEF Keeps, ConnInv

(* The steps of a handler that attaches a socket.                          *)
LEMMA StartKeeps ==
    ASSUME ConnTypeOK, ConnInv, NEW h \in Calls, LoadSession(h) \/ Refuse(h) \/ Attach(h)
    PROVE  Keeps
<1>0. /\ row \in [Sessions -> Rows] /\ sock \in [Sockets -> Socks]
      /\ sockets \in [Sessions -> Sockets \union {NoSocket}]
      /\ call \in [Calls -> Handlers] /\ ended \subseteq Sessions /\ torn \subseteq Sessions
      /\ StatusInv /\ SocketInv /\ HandlerOK(call[h])
    BY ConnTypeFacts DEF ConnInv, HandlerInv, HandlerOK
<1>1. CASE LoadSession(h)
  <2> DEFINE s == call[h].session
             r == [[call[h] EXCEPT !.pc = "attach"] EXCEPT !.seen = row[s].status]
  <2>1. /\ call[h] \in Handlers /\ call[h].pc = "load" /\ s \in Sessions
        /\ row[s].status \in States \union {"none"}
    BY <1>0, <1>1 DEF LoadSession, HandlerOK, Rows
  <2>2. call' = [call EXCEPT ![h] = r]
    BY <1>0, <1>1, <2>1 DEF LoadSession, Handlers
  <2>3. /\ r \in Handlers /\ r.pc = "attach" /\ r.seen = row[s].status
        /\ r.session = s /\ r.user = call[h].user /\ r.socket = call[h].socket
    BY <2>1 DEF Handlers
  <2> HIDE DEF r
  <2>4. call' \in [Calls -> Handlers] /\ call'[h] = r /\ \A g \in Calls \ {h} : call'[g] = call[g]
    BY <1>0, <2>2, <2>3
  <2>5. row' = row /\ sock' = sock /\ sockets' = sockets /\ ended' = ended /\ torn' = torn
    BY <1>1 DEF LoadSession
  <2>6. HandlerOK(call[h])'
    BY <1>0, <2>1, <2>3, <2>4, <2>5 DEF HandlerOK
  <2>7. SocketInv'
    BY <1>0, <2>5 DEF SocketInv, Receives
  <2> QED
    BY <1>0, <2>4, <2>5, <2>6, <2>7, HandlerMoves
<1>2. CASE Refuse(h)
  <2>1. /\ call[h].socket \in Sockets /\ Close(call[h].socket) /\ Return(h)
        /\ row' = row /\ sockets' = sockets /\ ended' = ended /\ torn' = torn
    BY <1>0, <1>2 DEF Refuse, HandlerOK
  <2>2. /\ sock' \in [Sockets -> Socks] /\ SocketInv'
        /\ \A d \in Sockets : /\ sock'[d].user = sock[d].user
                              /\ sock[d].phase = "new" <=> sock'[d].phase = "new"
    BY <1>0, <2>1, SocketCloses
  <2>3. /\ call' \in [Calls -> Handlers] /\ call'[h].pc = "idle"
        /\ \A g \in Calls \ {h} : call'[g] = call[g]
    BY <2>1, HandlerRecords DEF Return
  <2>4. HandlerOK(call[h])'
    BY <2>3 DEF HandlerOK
  <2> QED
    BY <1>0, <2>1, <2>2, <2>3, <2>4, HandlerMoves
<1>3. CASE Attach(h)
  <2> DEFINE s == call[h].session
             c == call[h].socket
             e == [sock[c] EXCEPT !.session = s]
  <2>1. /\ call[h].pc = "attach" /\ s \in Sessions /\ c \in Sockets /\ sock[c].phase # "new"
        /\ row[s].user = sock[c].user /\ row[s].status # "none" /\ sockets[s] = NoSocket
    BY <1>0, <1>3 DEF Attach, Admissible, HandlerOK
  <2>2. /\ sock' = [sock EXCEPT ![c] = e] /\ sockets' = [sockets EXCEPT ![s] = c]
        /\ row' = row /\ ended' = ended /\ torn' = torn
    BY <1>3 DEF Attach
  <2>3. e \in Socks /\ e.session = s /\ e.phase = sock[c].phase /\ e.user = sock[c].user
    BY <1>0, <2>1 DEF Socks
  <2> HIDE DEF e
  <2>4. /\ sock' \in [Sockets -> Socks] /\ sock'[c] = e /\ \A d \in Sockets \ {c} : sock'[d] = sock[d]
        /\ sockets' \in [Sessions -> Sockets \union {NoSocket}] /\ sockets'[s] = c
        /\ \A t \in Sessions \ {s} : sockets'[t] = sockets[t]
    BY <1>0, <2>1, <2>2, <2>3
  <2>5. SocketInv'
    <3>1. ASSUME NEW d \in Sockets \ {c}, Receives(d), sock[d].session \in Sessions \ (ended \union torn)
          PROVE  sock[d].session # s
        BY <1>0, <2>1, <3>1, ConnectionConstants DEF SocketInv
    <3>2. ASSUME NEW d \in Sockets, Receives(d)', sock'[d].session \in Sessions \ (ended \union torn)
          PROVE  sockets'[sock'[d].session] = d
        BY <1>0, <2>3, <2>4, <3>1, <3>2 DEF SocketInv, Receives
    <3>3. ASSUME NEW d \in Sockets
          PROVE  /\ sock'[d].phase = "new" => sock'[d].session = NoSession
                 /\ sock'[d].phase # "new" => sock'[d].user \in Users
                 /\ sock'[d].session # NoSession => row'[sock'[d].session].user = sock'[d].user
        BY <1>0, <2>1, <2>2, <2>3, <2>4 DEF SocketInv
    <3> QED
        BY <2>2, <3>2, <3>3 DEF SocketInv
  <2>6. /\ call' \in [Calls -> Handlers] /\ \A g \in Calls \ {h} : call'[g] = call[g]
        /\ HandlerOK(call[h])'
    <3>1. CASE Return(h)
        BY <3>1, HandlerRecords DEF Return, HandlerOK
    <3>2. CASE call' = [call EXCEPT ![h].pc = "check", ![h].to = "listening"]
      <4> DEFINE r == [[call[h] EXCEPT !.pc = "check"] EXCEPT !.to = "listening"]
      <4>1. call[h] \in Handlers
        BY <1>0
      <4>2. call' = [call EXCEPT ![h] = r]
        BY <1>0, <3>2, <4>1 DEF Handlers
      <4>3. r \in Handlers /\ r.pc = "check" /\ r.to = "listening" /\ r.session = s
        BY <4>1, ZenonT(60) DEF Handlers, States
      <4> HIDE DEF r
      <4>4. call' \in [Calls -> Handlers] /\ call'[h] = r /\ \A g \in Calls \ {h} : call'[g] = call[g]
        BY <1>0, <4>2, <4>3
      <4>5. HandlerOK(call[h])'
        BY <2>1, <2>2, <4>3, <4>4 DEF HandlerOK, Requested
      <4> QED
        BY <4>4, <4>5
    <3> QED
        BY <1>3, <3>1, <3>2 DEF Attach
  <2>7. \A d \in Sockets : sock[d].phase # "new" => sock'[d].phase # "new" /\ sock'[d].user = sock[d].user
    BY <2>3, <2>4
  <2> QED
    BY <1>0, <2>2, <2>4, <2>5, <2>6, <2>7, HandlerMoves
<1> QED
    BY <1>1, <1>2, <1>3

(* A write to one row that keeps its owner, and its past: no row returns to*)
(* the state created.                                                      *)
LEMMA RowWritten ==
    ASSUME ConnTypeOK, ConnInv, NEW h \in Calls, NEW s \in Sessions, NEW to \in {"listening", "paused", "ended"},
           row' = [row EXCEPT ![s].status = to], row[s].status # "none",
           torn' = torn /\ ended' = ended \union (IF to = "ended" THEN {s} ELSE {}),
           sock' = sock, sockets' = sockets,
           call' \in [Calls -> Handlers], \A g \in Calls \ {h} : call'[g] = call[g], HandlerOK(call[h])'
    PROVE  Keeps
<1>0. /\ row \in [Sessions -> Rows] /\ sock \in [Sockets -> Socks]
      /\ sockets \in [Sessions -> Sockets \union {NoSocket}] /\ ended \subseteq Sessions /\ torn \subseteq Sessions
    BY ConnTypeFacts
<1> DEFINE r == [row[s] EXCEPT !.status = to]
<1>1. row' = [row EXCEPT ![s] = r]
    OBVIOUS
<1>2. r \in Rows /\ r.status = to /\ r.user = row[s].user
    BY <1>0 DEF Rows, States
<1> HIDE DEF r
<1>3. row' \in [Sessions -> Rows] /\ row'[s] = r /\ \A t \in Sessions \ {s} : row'[t] = row[t]
    BY <1>0, <1>1, <1>2
<1>4. ended \subseteq ended' /\ ended' \subseteq Sessions /\ (to = "ended" => s \in ended')
    BY <1>0
<1>5. ConnTypeOK'
    BY <1>0, <1>3, <1>4, ConnTypeKept
<1>6. StatusInv'
    BY <1>2, <1>3, <1>4 DEF ConnInv, StatusInv
<1>7. SocketInv'
    BY <1>0, <1>2, <1>3, <1>4 DEF ConnInv, SocketInv, Receives, Socks
<1>8. HandlerInv'
    BY <1>2, <1>3, <1>4, HandlersKept DEF ConnInv
<1> QED
    BY <1>5, <1>6, <1>7, <1>8 DEF Keeps, ConnInv

(* The steps of a transition.                                              *)
LEMMA TransitionKeeps ==
    ASSUME ConnTypeOK, ConnInv, NEW h \in Calls, CheckTransition(h) \/ WriteTransition(h)
    PROVE  Keeps
<1>0. /\ row \in [Sessions -> Rows] /\ sock \in [Sockets -> Socks]
      /\ sockets \in [Sessions -> Sockets \union {NoSocket}]
      /\ call \in [Calls -> Handlers] /\ ended \subseteq Sessions /\ torn \subseteq Sessions
      /\ StatusInv /\ SocketInv /\ HandlerOK(call[h])
    BY ConnTypeFacts DEF ConnInv, HandlerInv, HandlerOK
<1>1. CASE CheckTransition(h)
  <2> DEFINE s == call[h].session
  <2>1. /\ call[h].pc = "check" /\ s \in Sessions /\ call[h].to \in Requested
        /\ row[s].status \in {"created", "listening", "paused", "ended"}
        /\ row' = row /\ sock' = sock /\ sockets' = sockets /\ ended' = ended /\ torn' = torn
    BY <1>0, <1>1 DEF CheckTransition, HandlerOK, StatusInv
  <2>2. /\ call' \in [Calls -> Handlers] /\ \A g \in Calls \ {h} : call'[g] = call[g]
        /\ HandlerOK(call[h])'
    <3>1. CASE Return(h)
        BY <3>1, HandlerRecords DEF Return, HandlerOK
    <3>2. CASE call[h].to \in Transitions[row[s].status] /\ Step(h, "write")
      <4>1. /\ call[h].to \in {"listening", "paused"}
            /\ call[h].to = "paused" => row[s].status # "created"
        BY <2>1, <3>2 DEF Transitions, Requested
      <4>2. /\ call' \in [Calls -> Handlers]
            /\ call'[h].pc = "write" /\ call'[h].session = s /\ call'[h].to = call[h].to
            /\ \A g \in Calls \ {h} : call'[g] = call[g]
        BY <3>2, HandlerRecords
      <4> QED
        BY <2>1, <4>1, <4>2 DEF HandlerOK
    <3> QED
        BY <1>1, <3>1, <3>2 DEF CheckTransition
  <2>3. SocketInv'
    BY <1>0, <2>1 DEF SocketInv, Receives
  <2> QED
    BY <1>0, <2>1, <2>2, <2>3, HandlerMoves
<1>2. CASE WriteTransition(h)
  <2> DEFINE s == call[h].session
  <2>1. /\ s \in Sessions /\ call[h].to \in {"listening", "paused"} /\ row[s].status # "none"
        /\ row' = [row EXCEPT ![s].status = call[h].to]
        /\ sock' = sock /\ sockets' = sockets /\ ended' = ended /\ torn' = torn /\ Return(h)
    BY <1>0, <1>2 DEF WriteTransition, HandlerOK
  <2>2. /\ call' \in [Calls -> Handlers] /\ call'[h].pc = "idle"
        /\ \A g \in Calls \ {h} : call'[g] = call[g]
    BY <2>1, HandlerRecords DEF Return
  <2>3. HandlerOK(call[h])'
    BY <2>2 DEF HandlerOK
  <2> QED
    BY <2>1, <2>2, <2>3, RowWritten
<1> QED
    BY <1>1, <1>2

(* The steps of an end.                                                    *)
LEMMA EndKeeps ==
    ASSUME ConnTypeOK, ConnInv, NEW h \in Calls, ReadOwned(h) \/ WriteEnded(h) \/ NotifyEnded(h) \/ DatabaseFails(h)
    PROVE  Keeps
<1>0. /\ row \in [Sessions -> Rows] /\ sock \in [Sockets -> Socks]
      /\ sockets \in [Sessions -> Sockets \union {NoSocket}]
      /\ call \in [Calls -> Handlers] /\ ended \subseteq Sessions /\ torn \subseteq Sessions
      /\ StatusInv /\ SocketInv /\ HandlerOK(call[h])
    BY ConnTypeFacts DEF ConnInv, HandlerInv, HandlerOK
<1> DEFINE s == call[h].session
<1>1. CASE ReadOwned(h)
  <2>1. /\ call[h].pc = "own" /\ s \in Sessions /\ call[h].user \in Users
        /\ call[h].op = "end" => row[s].user = call[h].user
        /\ row' = row /\ sock' = sock /\ sockets' = sockets /\ ended' = ended /\ torn' = torn
    BY <1>0, <1>1 DEF ReadOwned, HandlerOK
  <2>2. /\ call' \in [Calls -> Handlers] /\ \A g \in Calls \ {h} : call'[g] = call[g]
        /\ HandlerOK(call[h])'
    <3>1. CASE Return(h)
        BY <3>1, HandlerRecords DEF Return, HandlerOK
    <3>2. CASE row[s].user = call[h].user /\ Step(h, "end")
      <4>1. /\ call' \in [Calls -> Handlers] /\ \A g \in Calls \ {h} : call'[g] = call[g]
            /\ call'[h].pc = "end" /\ call'[h].session = s /\ call'[h].user = call[h].user
        BY <3>2, HandlerRecords
      <4> QED
        BY <2>1, <3>2, <4>1 DEF HandlerOK
    <3>3. CASE call[h].op = "end" /\ (row[s].user # call[h].user \/ row[s].status = "ended") /\ Step(h, "close")
      <4>1. /\ call' \in [Calls -> Handlers] /\ \A g \in Calls \ {h} : call'[g] = call[g]
            /\ call'[h].pc = "close" /\ call'[h].session = s
        BY <3>3, HandlerRecords
      <4> QED
        BY <2>1, <4>1 DEF HandlerOK
    <3> QED
        BY <1>1, <3>1, <3>2, <3>3 DEF ReadOwned, AfterEnd
  <2>3. SocketInv'
    BY <1>0, <2>1 DEF SocketInv, Receives
  <2> QED
    BY <1>0, <2>1, <2>2, <2>3, HandlerMoves
<1>2. CASE WriteEnded(h)
  <2>1. /\ s \in Sessions /\ row[s].user \in Users /\ row' = [row EXCEPT ![s].status = "ended"]
        /\ torn' = torn /\ ended' = ended \union {s} /\ sock' = sock /\ sockets' = sockets /\ Step(h, "notify")
    BY <1>0, <1>2 DEF WriteEnded, HandlerOK
  <2>2. row[s].status # "none"
    BY <1>0, <2>1, ConnectionConstants DEF StatusInv
  <2>3. /\ call' \in [Calls -> Handlers] /\ \A g \in Calls \ {h} : call'[g] = call[g]
        /\ call'[h].pc = "notify" /\ call'[h].session = s
    BY <2>1, HandlerRecords
  <2>4. HandlerOK(call[h])'
    BY <2>1, <2>3 DEF HandlerOK
  <2> QED
    BY <2>1, <2>2, <2>3, <2>4, RowWritten
<1>3. CASE NotifyEnded(h)
  <2>1. /\ call[h].pc \in {"notify", "close"} /\ s \in Sessions /\ CloseSessionSocket(s) /\ row' = row /\ ended' = ended
        /\ torn \subseteq torn' /\ torn' \subseteq Sessions
        /\ sockets[s] = NoSocket \/ s \in ended \union torn'
    BY <1>0, <1>3 DEF NotifyEnded, HandlerOK
  <2>2. /\ sockets' \in [Sessions -> Sockets \union {NoSocket}]
        /\ \A t \in Sessions \ (ended \union torn') : sockets'[t] = sockets[t]
    BY <1>0, <2>1 DEF CloseSessionSocket
  <2>3. /\ sock' \in [Sockets -> Socks] /\ SocketInv'
        /\ \A d \in Sockets : sock[d].phase # "new" => sock'[d].phase # "new" /\ sock'[d].user = sock[d].user
    <3>1. CASE sock' = sock
        BY <1>0, <2>1, <2>2, <3>1 DEF SocketInv, Receives
    <3>2. CASE sockets[s] # NoSocket /\ Close(sockets[s])
        BY <1>0, <2>1, <2>2, <3>2, SocketCloses
    <3> QED
        BY <2>1, <3>1, <3>2 DEF CloseSessionSocket
  <2>4. /\ call' \in [Calls -> Handlers] /\ \A g \in Calls \ {h} : call'[g] = call[g]
        /\ HandlerOK(call[h])'
    <3>1. CASE Return(h)
        BY <3>1, HandlerRecords DEF Return, HandlerOK
    <3>2. CASE Step(h, "close")
      <4>1. /\ call' \in [Calls -> Handlers] /\ \A g \in Calls \ {h} : call'[g] = call[g]
            /\ call'[h].pc = "close" /\ call'[h].session = s
        BY <3>2, HandlerRecords
      <4> QED
        BY <2>1, <4>1 DEF HandlerOK
    <3> QED
        BY <1>3, <3>1, <3>2 DEF NotifyEnded, AfterEnd
  <2> QED
    BY <2>1, <2>2, <2>3, <2>4, HandlerMoves
<1>4. CASE DatabaseFails(h)
  <2>1. /\ call[h].pc # "idle" /\ s \in Sessions
        /\ row' = row /\ sock' = sock /\ sockets' = sockets /\ ended' = ended /\ torn' = torn
    BY <1>0, <1>4 DEF DatabaseFails, HandlerOK
  <2>2. /\ call' \in [Calls -> Handlers] /\ \A g \in Calls \ {h} : call'[g] = call[g]
        /\ HandlerOK(call[h])'
    <3>1. CASE Return(h)
        BY <3>1, HandlerRecords DEF Return, HandlerOK
    <3>2. CASE Step(h, "close")
      <4>1. /\ call' \in [Calls -> Handlers] /\ \A g \in Calls \ {h} : call'[g] = call[g]
            /\ call'[h].pc = "close" /\ call'[h].session = s
        BY <3>2, HandlerRecords
      <4> QED
        BY <2>1, <4>1 DEF HandlerOK
    <3> QED
        BY <1>4, <3>1, <3>2 DEF DatabaseFails, AfterEnd
  <2>3. SocketInv'
    BY <1>0, <2>1 DEF SocketInv, Receives
  <2> QED
    BY <1>0, <2>1, <2>2, <2>3, HandlerMoves
<1> QED
    BY <1>1, <1>2, <1>3, <1>4

LEMMA ConnStep ==
    ASSUME ConnTypeOK, ConnInv, [ConnNext]_connVars
    PROVE  Keeps
<1>1. CASE UNCHANGED connVars
  <2>1. /\ row' = row /\ sock' = sock /\ sockets' = sockets /\ call' = call /\ ended' = ended /\ torn' = torn
    BY <1>1 DEF connVars
  <2>2. ConnTypeOK'
    BY <2>1 DEF ConnTypeOK
  <2>3. StatusInv' /\ SocketInv'
    BY <2>1 DEF ConnInv, StatusInv, SocketInv, Receives
  <2>4. HandlerInv'
    BY <2>1, NoHandlerMoves DEF ConnInv
  <2> QED
    BY <2>2, <2>3, <2>4 DEF Keeps, ConnInv
<1>2. ASSUME NEW h \in Calls, Handle(h) PROVE Keeps
    BY <1>2, StartKeeps, TransitionKeeps, EndKeeps DEF Handle
<1> QED
    BY <1>1, <1>2, OutsideKeeps, BeginKeeps DEF ConnNext

(* The invariant: from the initial state on, in every state.               *)
LEMMA ConnInvariant == ConnSpec => [](ConnTypeOK /\ ConnInv)
<1>1. ConnInit => ConnTypeOK /\ ConnInv
    BY DEF ConnInit, ConnTypeOK, ConnInv, StatusInv, SocketInv, HandlerInv, Receives, Idle, States
<1>2. ConnTypeOK /\ ConnInv /\ [ConnNext]_connVars => (ConnTypeOK /\ ConnInv)'
    BY ConnStep DEF Keeps
<1> QED
    BY <1>1, <1>2, PTL DEF ConnSpec

(* A session that nobody has ended, and whose socket no failed end() has   *)
(* torn down, has one live socket at most, and every socket serves the     *)
(* user of its token, however the reads and writes of the handlers         *)
(* interleave and fail (voice.gateway.ts, session.start, session.end).     *)
THEOREM OneLiveSocket == ConnSpec => []ConnSafe
<1>1. ASSUME ConnTypeOK, ConnInv PROVE ConnSafe
  <2>1. OnlyOwnerAttached
    BY <1>1 DEF OnlyOwnerAttached, ConnInv, SocketInv
  <2>2. ASSUME NEW s \in Sessions \ (ended \union torn) PROVE Cardinality(Attached(s)) <= 1
    <3>1. Attached(s) \subseteq {sockets[s]}
        BY <1>1 DEF Attached, ConnInv, SocketInv, Receives
    <3>2. Attached(s) = {} \/ Attached(s) = {sockets[s]}
        BY <3>1
    <3>3. Cardinality({}) = 0
        BY FS_EmptySet
    <3>4. Cardinality({sockets[s]}) = 1
        BY FS_Singleton
    <3> QED
        BY <3>2, <3>3, <3>4
  <2> QED
    BY <1>1, <2>1, <2>2 DEF ConnSafe, OneSocketPerSession
<1> QED
    BY <1>1, ConnInvariant, PTL

(* Until the user ends it, the status of a session moves along the table,  *)
(* although the update of a transition trusts an older read                *)
(* (VoiceSessionService.transition).                                       *)
THEOREM StatusFollowsTable == ConnSpec => LegalUntilEnded
<1> DEFINE Legal == \A s \in Sessions \ ended' :
        row'[s].status = row[s].status \/ row[s].status = "none"
            \/ row'[s].status \in Transitions[row[s].status]
<1>1. ASSUME ConnTypeOK, ConnInv, [ConnNext]_connVars PROVE [Legal]_connVars
  <2>1. CASE row' = row
    BY <2>1
  <2>2. ASSUME NEW s \in Sessions, NEW u \in Users, Create(s, u) PROVE Legal
    BY <1>1, <2>2, ConnTypeFacts DEF Create
  <2>3. ASSUME NEW h \in Calls, WriteTransition(h) PROVE Legal
    <3> DEFINE s == call[h].session
    <3>1. /\ s \in Sessions /\ call[h].to \in {"listening", "paused"} /\ row[s].status # "none"
          /\ call[h].to = "paused" => row[s].status # "created"
          /\ row' = [row EXCEPT ![s].status = call[h].to] /\ ended' = ended
        BY <1>1, <2>3 DEF WriteTransition, ConnInv, HandlerInv
    <3>2. row[s].status \in {"created", "listening", "paused"} \/ s \in ended
        BY <1>1, <3>1 DEF ConnInv, StatusInv
    <3>3. row'[s].status = call[h].to /\ \A t \in Sessions \ {s} : row'[t] = row[t]
        BY <1>1, <3>1, ConnTypeFacts DEF Rows
    <3>4. /\ "listening" \in Transitions["created"] /\ "listening" \in Transitions["paused"]
          /\ "paused" \in Transitions["listening"]
        BY DEF Transitions
    <3> QED
        BY <3>1, <3>2, <3>3, <3>4
  <2>4. ASSUME NEW h \in Calls, WriteEnded(h) PROVE Legal
    <3>1. /\ ended' = ended \union {call[h].session}
          /\ \A t \in Sessions \ {call[h].session} : row'[t] = row[t]
        BY <1>1, <2>4, ConnTypeFacts DEF WriteEnded
    <3> QED
        BY <3>1
  <2>5. \/ row' = row \/ \E s \in Sessions, u \in Users : Create(s, u)
        \/ \E h \in Calls : WriteTransition(h) \/ WriteEnded(h)
    BY <1>1 DEF ConnNext, connVars, Connect, IdleTimeout, SocketClosed, StartSession, ChangeState, EndBySocket,
                EndByRest, Handle, LoadSession, Refuse, Attach, CheckTransition, ReadOwned, NotifyEnded, DatabaseFails
  <2> QED
    BY <2>1, <2>2, <2>3, <2>4, <2>5
<1> QED
    BY <1>1, ConnInvariant, PTL DEF ConnSpec, LegalUntilEnded

(* The status the row shows: the turns never move it, so it only says      *)
(* whether the session has started, is paused or has ended (the table      *)
(* lets nobody past listening without user_speaking, which nobody asks).   *)
THEOREM TurnsNeverMoveTheStatus ==
    ConnSpec => [](\A s \in Sessions : row[s].status \in {"none", "created", "listening", "paused", "ended"})
<1>1. ConnInv => \A s \in Sessions : row[s].status \in {"none", "created", "listening", "paused", "ended"}
    BY DEF ConnInv, StatusInv
<1> QED
    BY <1>1, ConnInvariant, PTL

-------------------------------------------------------------------------------
(* The routing of a message *)

(* What every decision built has, on whatever path.                         *)
LEMMA BuiltDecision ==
    ASSUME NEW t \in Text, NEW route \in Routes, NEW space \in Filed, NEW intent \in Intents,
           NEW method \in {"rules", "llm-fallback", "default-fallback"}
    PROVE  LET d == BuildResult(t, route, space, intent, method)
           IN  /\ d \in Decision /\ d.route = route /\ (t.sensitive <=> d.security = "high")
               /\ route = "personal" => d.space = "personal"
<1>1. DetectComplexity(t) \in {"low", "medium", "high"}
    BY DEF DetectComplexity
<1>2. DetectSecurityLevel(t, route) \in {"low", "medium", "high"}
      /\ (t.sensitive <=> DetectSecurityLevel(t, route) = "high")
    BY DEF DetectSecurityLevel, Text
<1>3. "personal" \in Filed
    BY DEF Filed, Routes
<1> QED
    BY <1>1, <1>2, <1>3 DEF BuildResult, Decision

LEMMA IntentAndSpace ==
    ASSUME NEW t \in Text
    PROVE  /\ DetectIntent(t) \in Intents /\ ProfessionalSpace(t) \in Filed
           /\ {"direct", "personal", "hybrid"} \subseteq Filed /\ {"unknown", "learn_preference"} \subseteq Intents
BY DEF DetectIntent, ProfessionalSpace, Intents, Filed, Routes

(* A rule that is sure decides by the keywords, and sends no one who speaks *)
(* of their own data, or teaches, to direct.                                *)
LEMMA RulesDecide ==
    ASSUME NEW t \in Texts, NEW d \in ClassifyWithRules(t)
    PROVE  /\ d \in Decision /\ ClassifyWithRules(t) = {d}
           /\ t.words > 0 /\ (t.userData \/ t.learning) => d.route # "direct"
           /\ t.personal \/ t.spaces # {} \/ t.general =>
                d.route = IF ~(t.spaces # {} \/ t.general) THEN "personal"
                          ELSE IF t.personal THEN "hybrid" ELSE "professional"
           /\ d.route = "personal" => d.space = "personal"
           /\ t.sensitive <=> d.security = "high"
<1>1. t \in Text /\ (t.words = 0 => ~t.personal /\ ~t.general /\ t.spaces = {})
    BY RouterConstants
<1>2. t.words \in Nat /\ {t.personal, t.general, t.userData, t.learning} \subseteq BOOLEAN
    BY <1>1 DEF Text
<1> DEFINE professional == t.spaces # {} \/ t.general
           By(route, space, intent) == BuildResult(t, route, space, intent, "rules")
<1>3. PICK route \in Routes, space \in Filed, intent \in Intents :
        /\ ClassifyWithRules(t) = {By(route, space, intent)}
        /\ t.words > 0 /\ (t.userData \/ t.learning) => route # "direct"
        /\ t.personal \/ professional =>
             route = IF ~professional THEN "personal" ELSE IF t.personal THEN "hybrid" ELSE "professional"
  <2> HIDE DEF By
  <2>1. "direct" \in Routes /\ "personal" \in Routes /\ "professional" \in Routes /\ "hybrid" \in Routes
    BY DEF Routes
  <2>2. /\ DetectIntent(t) \in Intents /\ ProfessionalSpace(t) \in Filed
        /\ "direct" \in Filed /\ "personal" \in Filed /\ "hybrid" \in Filed
        /\ "unknown" \in Intents /\ "learn_preference" \in Intents
    BY <1>1, IntentAndSpace
  <2>3. ClassifyWithRules(t) =
           IF t.words = 0 THEN {By("direct", "direct", "unknown")}
           ELSE IF t.personal /\ professional THEN {By("hybrid", "hybrid", DetectIntent(t))}
           ELSE IF professional THEN {By("professional", ProfessionalSpace(t), DetectIntent(t))}
           ELSE IF t.personal \/ t.userData THEN {By("personal", "personal", DetectIntent(t))}
           ELSE IF t.learning THEN {By("personal", "personal", "learn_preference")}
           ELSE IF (t.greeting /\ t.words <= GreetingMaxWords) \/ t.factual \/ t.words <= 3
                THEN {By("direct", "direct", DetectIntent(t))}
           ELSE {}
    BY DEF ClassifyWithRules, By
  <2>4. CASE t.words = 0
    BY <1>1, <1>2, <2>1, <2>2, <2>3, <2>4
  <2>5. CASE t.words # 0 /\ t.personal /\ professional
    BY <2>1, <2>2, <2>3, <2>5
  <2>6. CASE t.words # 0 /\ ~t.personal /\ professional
    BY <2>1, <2>2, <2>3, <2>6
  <2>7. CASE t.words # 0 /\ ~professional /\ (t.personal \/ t.userData)
    BY <2>1, <2>2, <2>3, <2>7
  <2>8. CASE t.words # 0 /\ ~professional /\ ~t.personal /\ ~t.userData /\ t.learning
    BY <2>1, <2>2, <2>3, <2>8
  <2>9. CASE t.words # 0 /\ ~professional /\ ~t.personal /\ ~t.userData /\ ~t.learning
    BY <2>1, <2>2, <2>3, <2>9
  <2> QED
    BY <2>4, <2>5, <2>6, <2>7, <2>8, <2>9
<1>4. d = By(route, space, intent)
    BY <1>3
<1>5. d \in Decision /\ d.route = route /\ (t.sensitive <=> d.security = "high") /\ (route = "personal" => d.space = "personal")
    BY <1>1, <1>4, BuiltDecision
<1> HIDE DEF By
<1> QED
    BY <1>3, <1>4, <1>5

LEMMA SilentRules ==
    ASSUME NEW t \in Texts, ClassifyWithRules(t) = {}
    PROVE  t.words # 0 /\ ~t.userData /\ ~t.learning /\ ~t.personal /\ ~t.general /\ t.spaces = {}
BY DEF ClassifyWithRules

(* A decision of the model or the default, on which no rule has a word.     *)
LEMMA UnruledDecision ==
    ASSUME RouterTypeOK, RouterInv, NEW d \in Decision, NEW pc \in {"split", "done"},
           ClassifyWithRules(text) = {}, pc = "split" => d.route = "hybrid",
           d.route = "personal" => d.space = "personal", text.sensitive <=> d.security = "high",
           UNCHANGED text, routing' = [routing EXCEPT !.pc = pc, !.decision = d]
    PROVE  RouterTypeOK' /\ RouterInv'
<1>1. routing'.pc = pc /\ routing'.decision = d /\ RouterTypeOK'
    BY DEF RouterTypeOK
<1>2. ~text.userData /\ ~text.learning /\ ~text.personal /\ ~text.general /\ text.spaces = {}
    BY SilentRules DEF RouterTypeOK
<1> QED
    BY <1>1, <1>2 DEF RouterInv

LEMMA RouterStep == RouterTypeOK /\ RouterInv /\ [RouterNext]_routerVars => (RouterTypeOK /\ RouterInv)'
<1> SUFFICES ASSUME RouterTypeOK, RouterInv, [RouterNext]_routerVars PROVE RouterTypeOK' /\ RouterInv'
    OBVIOUS
<1>0. text \in Texts /\ text \in Text
    BY RouterConstants DEF RouterTypeOK
<1>1. CASE UNCHANGED routerVars
    BY <1>1 DEF routerVars, RouterTypeOK, RouterInv
<1>2. CASE Classify
  <2>1. CASE ClassifyWithRules(text) = {}
    <3>1. routing' = [routing EXCEPT !.pc = "model"] /\ UNCHANGED text /\ routing.pc = "rules"
      BY <1>2, <2>1 DEF Classify
    <3> QED
      BY <2>1, <3>1 DEF RouterTypeOK, RouterInv
  <2>2. CASE ClassifyWithRules(text) # {}
    <3> DEFINE d == CHOOSE d \in ClassifyWithRules(text) : TRUE
    <3>1. d \in ClassifyWithRules(text)
      BY <2>2
    <3>2. routing' = [routing EXCEPT !.pc = IF d.route = "hybrid" THEN "split" ELSE "done", !.decision = d]
          /\ UNCHANGED text
      BY <1>2, <2>2 DEF Classify
    <3> HIDE DEF d
    <3>3. /\ d \in Decision
          /\ text.words > 0 /\ (text.userData \/ text.learning) => d.route # "direct"
          /\ text.personal \/ text.spaces # {} \/ text.general =>
               d.route = IF ~(text.spaces # {} \/ text.general) THEN "personal"
                         ELSE IF text.personal THEN "hybrid" ELSE "professional"
          /\ d.route = "personal" => d.space = "personal"
          /\ text.sensitive <=> d.security = "high"
      BY <1>0, <3>1, RulesDecide
    <3>4. PICK pc \in {"split", "done"} : pc = IF d.route = "hybrid" THEN "split" ELSE "done"
      OBVIOUS
    <3>5. routing'.pc = pc /\ routing'.decision = d /\ RouterTypeOK'
      BY <3>2, <3>3, <3>4 DEF RouterTypeOK
    <3> QED
      BY <3>2, <3>3, <3>4, <3>5 DEF RouterInv
  <2> QED
    BY <2>1, <2>2
<1>3. CASE ClassifyWithLlm
  <2>0. routing.pc = "model" /\ UNCHANGED text /\ ClassifyWithRules(text) = {}
    BY <1>3 DEF ClassifyWithLlm, RouterInv
  <2>1. CASE routing' = [routing EXCEPT !.pc = "default"]
    BY <2>0, <2>1 DEF RouterTypeOK, RouterInv
  <2>2. ASSUME NEW route \in Routes, NEW space \in ModelSpaces \union {"absent"},
               LET d == BuildResult(text, route, IF space = "absent" THEN DefaultSpaceFor(route) ELSE space,
                                    "unknown", "llm-fallback")
               IN routing' = [routing EXCEPT !.pc = IF route = "hybrid" THEN "split" ELSE "done", !.decision = d]
        PROVE  RouterTypeOK' /\ RouterInv'
    <3>1. PICK filed \in Filed : filed = IF space = "absent" THEN DefaultSpaceFor(route) ELSE space
      BY DEF Filed, DefaultSpaceFor
    <3>2. PICK d : d = BuildResult(text, route, filed, "unknown", "llm-fallback")
      OBVIOUS
    <3>3. PICK pc \in {"split", "done"} : pc = IF route = "hybrid" THEN "split" ELSE "done"
      OBVIOUS
    <3>4. "unknown" \in Intents
      BY DEF Intents
    <3>5. /\ d \in Decision /\ d.route = route /\ (text.sensitive <=> d.security = "high")
          /\ route = "personal" => d.space = "personal"
      BY <1>0, <3>2, <3>4, BuiltDecision
    <3>6. routing' = [routing EXCEPT !.pc = pc, !.decision = d] /\ (pc = "split" => d.route = "hybrid")
      BY <2>2, <3>1, <3>2, <3>3, <3>5
    <3> QED
      BY <2>0, <3>5, <3>6, UnruledDecision
  <2> QED
    BY <1>3, <2>1, <2>2 DEF ClassifyWithLlm
<1>4. CASE DefaultFallback
  <2>0. routing.pc = "default" /\ UNCHANGED text /\ ClassifyWithRules(text) = {}
    BY <1>4 DEF DefaultFallback, RouterInv
  <2>1. PICK d : d = BuildResult(text, "direct", "direct", "unknown", "default-fallback")
    OBVIOUS
  <2>2. /\ d \in Decision /\ d.route = "direct" /\ (text.sensitive <=> d.security = "high")
    <3>1. "direct" \in Routes /\ "direct" \in Filed /\ "unknown" \in Intents
      BY DEF Routes, Filed, Intents
    <3> QED
      BY <1>0, <2>1, <3>1, BuiltDecision
  <2>3. routing' = [routing EXCEPT !.pc = "done", !.decision = d]
    BY <1>4, <2>1 DEF DefaultFallback
  <2> QED
    BY <2>0, <2>2, <2>3, UnruledDecision
<1>5. CASE SplitHybridText
  <2>1. PICK both \in BOOLEAN : routing' = [routing EXCEPT !.pc = "done", !.parts = both]
    BY <1>5 DEF SplitHybridText
  <2>2. routing.pc = "split" /\ UNCHANGED text
    BY <1>5 DEF SplitHybridText
  <2>3. routing'.pc = "done" /\ routing'.decision = routing.decision /\ RouterTypeOK'
    BY <2>1, <2>2 DEF RouterTypeOK
  <2> QED
    BY <2>2, <2>3 DEF RouterInv
<1> QED
    BY <1>1, <1>2, <1>3, <1>4, <1>5 DEF RouterNext

(* RouterSafe: whatever a message says and whatever the model answers, one   *)
(* about the user's own data, or that teaches a preference, is never given   *)
(* to direct, keywords of a side decide the side, and a secret is of the     *)
(* highest security level on every path.                                     *)
THEOREM RoutedRight == RouterSpec => []RouterSafe
<1>1. RouterInit => RouterTypeOK /\ RouterInv
    BY DEF RouterInit, RouterTypeOK, RouterInv, NoDecision
<1>2. RouterTypeOK /\ RouterInv => RouterSafe
  <2> SUFFICES ASSUME RouterTypeOK, RouterInv PROVE RouterSafe
    OBVIOUS
  <2>1. routing.pc \in {"rules", "model", "default"} => routing.decision.route = "none"
    BY DEF RouterInv, NoDecision
  <2>2. routing.pc \in {"rules", "model", "default", "split", "done"}
    BY DEF RouterTypeOK
  <2>3. FiledRight
    BY <2>1, <2>2 DEF RouterInv, FiledRight
  <2> QED
    BY <2>3 DEF RouterSafe, NeverDirect, KeywordsDecide, RouterInv
<1> QED
    BY <1>1, <1>2, RouterStep, PTL DEF RouterSpec

-------------------------------------------------------------------------------
(* What is retrieved *)

(* A retrieval with some of its parts replaced.                              *)
Filters(x, among, pc) == [x EXCEPT !.among = among, !.pc = pc]
Embeds(x, pc, dims) == [x EXCEPT !.pc = pc, !.dims = dims]
Proceeds(x, pc) == [x EXCEPT !.pc = pc]
Answers(x, mode, result, pc) == [x EXCEPT !.mode = mode, !.result = result, !.pc = pc]
Finds(x, mode, result, pc, seen) == [x EXCEPT !.mode = mode, !.result = result, !.pc = pc, !.seen = seen]

LEMMA FiltersLookup ==
    ASSUME NEW x \in Lookup, NEW among \in SUBSET Docs, NEW pc \in Phases
    PROVE  LET e == Filters(x, among, pc) IN
           /\ e \in Lookup
           /\ e.pc = pc /\ e.of = x.of /\ e.lane = x.lane /\ e.words = x.words /\ e.filtered = x.filtered
           /\ e.among = among /\ e.dims = x.dims /\ e.mode = x.mode /\ e.result = x.result /\ e.seen = x.seen
<1>1. PICK Ps, Ks, Ls, Ds : Ps = Phases /\ Ks = Kinds /\ Ls = Lanes /\ Ds = SUBSET Docs
    OBVIOUS
<1>2. PICK Zs, Ms, Rs, Ss : Zs = Dims /\ Ms = Modes /\ Rs = Listings /\ Ss = SUBSET (Memories \union Chunks)
    OBVIOUS
<1>3. Lookup = [pc : Ps, of : Ks, lane : Ls, words : BOOLEAN, filtered : BOOLEAN, among : Ds, dims : Zs, mode : Ms, result : Rs, seen : Ss]
    BY <1>1, <1>2 DEF Lookup
<1>4. x \in [pc : Ps, of : Ks, lane : Ls, words : BOOLEAN, filtered : BOOLEAN, among : Ds, dims : Zs, mode : Ms, result : Rs, seen : Ss]
    BY <1>3
<1>5. among \in Ds /\ pc \in Ps
    BY <1>1, <1>2
<1> DEFINE e == [x EXCEPT !.among = among, !.pc = pc]
<1>6. /\ e \in [pc : Ps, of : Ks, lane : Ls, words : BOOLEAN, filtered : BOOLEAN, among : Ds, dims : Zs, mode : Ms, result : Rs, seen : Ss]
      /\ e.pc = pc /\ e.of = x.of /\ e.lane = x.lane /\ e.words = x.words /\ e.filtered = x.filtered
      /\ e.among = among /\ e.dims = x.dims /\ e.mode = x.mode /\ e.result = x.result /\ e.seen = x.seen
    BY <1>4, <1>5
<1>7. e \in Lookup /\ e = Filters(x, among, pc)
    BY <1>3, <1>6 DEF Filters
<1> HIDE DEF e
<1> QED
    BY <1>6, <1>7

LEMMA EmbedsLookup ==
    ASSUME NEW x \in Lookup, NEW pc \in Phases, NEW dims \in Dims
    PROVE  LET e == Embeds(x, pc, dims) IN
           /\ e \in Lookup
           /\ e.pc = pc /\ e.of = x.of /\ e.lane = x.lane /\ e.words = x.words /\ e.filtered = x.filtered
           /\ e.among = x.among /\ e.dims = dims /\ e.mode = x.mode /\ e.result = x.result /\ e.seen = x.seen
<1>1. PICK Ps, Ks, Ls, Ds : Ps = Phases /\ Ks = Kinds /\ Ls = Lanes /\ Ds = SUBSET Docs
    OBVIOUS
<1>2. PICK Zs, Ms, Rs, Ss : Zs = Dims /\ Ms = Modes /\ Rs = Listings /\ Ss = SUBSET (Memories \union Chunks)
    OBVIOUS
<1>3. Lookup = [pc : Ps, of : Ks, lane : Ls, words : BOOLEAN, filtered : BOOLEAN, among : Ds, dims : Zs, mode : Ms, result : Rs, seen : Ss]
    BY <1>1, <1>2 DEF Lookup
<1>4. x \in [pc : Ps, of : Ks, lane : Ls, words : BOOLEAN, filtered : BOOLEAN, among : Ds, dims : Zs, mode : Ms, result : Rs, seen : Ss]
    BY <1>3
<1>5. pc \in Ps /\ dims \in Zs
    BY <1>1, <1>2
<1> DEFINE e == [x EXCEPT !.pc = pc, !.dims = dims]
<1>6. /\ e \in [pc : Ps, of : Ks, lane : Ls, words : BOOLEAN, filtered : BOOLEAN, among : Ds, dims : Zs, mode : Ms, result : Rs, seen : Ss]
      /\ e.pc = pc /\ e.of = x.of /\ e.lane = x.lane /\ e.words = x.words /\ e.filtered = x.filtered
      /\ e.among = x.among /\ e.dims = dims /\ e.mode = x.mode /\ e.result = x.result /\ e.seen = x.seen
    BY <1>4, <1>5
<1>7. e \in Lookup /\ e = Embeds(x, pc, dims)
    BY <1>3, <1>6 DEF Embeds
<1> HIDE DEF e
<1> QED
    BY <1>6, <1>7

LEMMA ProceedsLookup ==
    ASSUME NEW x \in Lookup, NEW pc \in Phases
    PROVE  LET e == Proceeds(x, pc) IN
           /\ e \in Lookup
           /\ e.pc = pc /\ e.of = x.of /\ e.lane = x.lane /\ e.words = x.words /\ e.filtered = x.filtered
           /\ e.among = x.among /\ e.dims = x.dims /\ e.mode = x.mode /\ e.result = x.result /\ e.seen = x.seen
<1>1. PICK Ps, Ks, Ls, Ds : Ps = Phases /\ Ks = Kinds /\ Ls = Lanes /\ Ds = SUBSET Docs
    OBVIOUS
<1>2. PICK Zs, Ms, Rs, Ss : Zs = Dims /\ Ms = Modes /\ Rs = Listings /\ Ss = SUBSET (Memories \union Chunks)
    OBVIOUS
<1>3. Lookup = [pc : Ps, of : Ks, lane : Ls, words : BOOLEAN, filtered : BOOLEAN, among : Ds, dims : Zs, mode : Ms, result : Rs, seen : Ss]
    BY <1>1, <1>2 DEF Lookup
<1>4. x \in [pc : Ps, of : Ks, lane : Ls, words : BOOLEAN, filtered : BOOLEAN, among : Ds, dims : Zs, mode : Ms, result : Rs, seen : Ss]
    BY <1>3
<1>5. pc \in Ps
    BY <1>1, <1>2
<1> DEFINE e == [x EXCEPT !.pc = pc]
<1>6. /\ e \in [pc : Ps, of : Ks, lane : Ls, words : BOOLEAN, filtered : BOOLEAN, among : Ds, dims : Zs, mode : Ms, result : Rs, seen : Ss]
      /\ e.pc = pc /\ e.of = x.of /\ e.lane = x.lane /\ e.words = x.words /\ e.filtered = x.filtered
      /\ e.among = x.among /\ e.dims = x.dims /\ e.mode = x.mode /\ e.result = x.result /\ e.seen = x.seen
    BY <1>4, <1>5
<1>7. e \in Lookup /\ e = Proceeds(x, pc)
    BY <1>3, <1>6 DEF Proceeds
<1> HIDE DEF e
<1> QED
    BY <1>6, <1>7

LEMMA AnswersLookup ==
    ASSUME NEW x \in Lookup, NEW mode \in Modes, NEW result \in Listings, NEW pc \in Phases
    PROVE  LET e == Answers(x, mode, result, pc) IN
           /\ e \in Lookup
           /\ e.pc = pc /\ e.of = x.of /\ e.lane = x.lane /\ e.words = x.words /\ e.filtered = x.filtered
           /\ e.among = x.among /\ e.dims = x.dims /\ e.mode = mode /\ e.result = result /\ e.seen = x.seen
<1>1. PICK Ps, Ks, Ls, Ds : Ps = Phases /\ Ks = Kinds /\ Ls = Lanes /\ Ds = SUBSET Docs
    OBVIOUS
<1>2. PICK Zs, Ms, Rs, Ss : Zs = Dims /\ Ms = Modes /\ Rs = Listings /\ Ss = SUBSET (Memories \union Chunks)
    OBVIOUS
<1>3. Lookup = [pc : Ps, of : Ks, lane : Ls, words : BOOLEAN, filtered : BOOLEAN, among : Ds, dims : Zs, mode : Ms, result : Rs, seen : Ss]
    BY <1>1, <1>2 DEF Lookup
<1>4. x \in [pc : Ps, of : Ks, lane : Ls, words : BOOLEAN, filtered : BOOLEAN, among : Ds, dims : Zs, mode : Ms, result : Rs, seen : Ss]
    BY <1>3
<1>5. mode \in Ms /\ result \in Rs /\ pc \in Ps
    BY <1>1, <1>2
<1> DEFINE e == [x EXCEPT !.mode = mode, !.result = result, !.pc = pc]
<1>6. /\ e \in [pc : Ps, of : Ks, lane : Ls, words : BOOLEAN, filtered : BOOLEAN, among : Ds, dims : Zs, mode : Ms, result : Rs, seen : Ss]
      /\ e.pc = pc /\ e.of = x.of /\ e.lane = x.lane /\ e.words = x.words /\ e.filtered = x.filtered
      /\ e.among = x.among /\ e.dims = x.dims /\ e.mode = mode /\ e.result = result /\ e.seen = x.seen
    BY <1>4, <1>5
<1>7. e \in Lookup /\ e = Answers(x, mode, result, pc)
    BY <1>3, <1>6 DEF Answers
<1> HIDE DEF e
<1> QED
    BY <1>6, <1>7

LEMMA FindsLookup ==
    ASSUME NEW x \in Lookup, NEW mode \in Modes, NEW result \in Listings, NEW pc \in Phases, NEW seen \in SUBSET (Memories \union Chunks)
    PROVE  LET e == Finds(x, mode, result, pc, seen) IN
           /\ e \in Lookup
           /\ e.pc = pc /\ e.of = x.of /\ e.lane = x.lane /\ e.words = x.words /\ e.filtered = x.filtered
           /\ e.among = x.among /\ e.dims = x.dims /\ e.mode = mode /\ e.result = result /\ e.seen = seen
<1>1. PICK Ps, Ks, Ls, Ds : Ps = Phases /\ Ks = Kinds /\ Ls = Lanes /\ Ds = SUBSET Docs
    OBVIOUS
<1>2. PICK Zs, Ms, Rs, Ss : Zs = Dims /\ Ms = Modes /\ Rs = Listings /\ Ss = SUBSET (Memories \union Chunks)
    OBVIOUS
<1>3. Lookup = [pc : Ps, of : Ks, lane : Ls, words : BOOLEAN, filtered : BOOLEAN, among : Ds, dims : Zs, mode : Ms, result : Rs, seen : Ss]
    BY <1>1, <1>2 DEF Lookup
<1>4. x \in [pc : Ps, of : Ks, lane : Ls, words : BOOLEAN, filtered : BOOLEAN, among : Ds, dims : Zs, mode : Ms, result : Rs, seen : Ss]
    BY <1>3
<1>5. mode \in Ms /\ result \in Rs /\ pc \in Ps /\ seen \in Ss
    BY <1>1, <1>2
<1> DEFINE e == [x EXCEPT !.mode = mode, !.result = result, !.pc = pc, !.seen = seen]
<1>6. /\ e \in [pc : Ps, of : Ks, lane : Ls, words : BOOLEAN, filtered : BOOLEAN, among : Ds, dims : Zs, mode : Ms, result : Rs, seen : Ss]
      /\ e.pc = pc /\ e.of = x.of /\ e.lane = x.lane /\ e.words = x.words /\ e.filtered = x.filtered
      /\ e.among = x.among /\ e.dims = x.dims /\ e.mode = mode /\ e.result = result /\ e.seen = seen
    BY <1>4, <1>5
<1>7. e \in Lookup /\ e = Finds(x, mode, result, pc, seen)
    BY <1>3, <1>6 DEF Finds
<1> HIDE DEF e
<1> QED
    BY <1>6, <1>7

(* What one retrieval keeps, of the rows as they are and of the documents    *)
(* classified since it read the filter.                                      *)
AnswerOK(x, rt, ms, cs, ds) ==
    /\ x.pc \notin {"access", "done"} => x.result = <<>> /\ x.mode = "none"
    /\ x.pc = "access" => x.of = "memories"
    /\ x.pc = "filter" => x.filtered
    /\ x.filtered /\ x.pc \notin {"idle", "filter"} =>
         \A d \in x.among : ds[d].lane = x.lane /\ (ds[d].matches \/ d \in rt)
    /\ x.mode = "semantic" /\ x.of = "memories" => Handed(x.result) \subseteq x.seen
    /\ Handed(x.result) \union x.seen \subseteq IF x.of = "memories" THEN Memories ELSE Chunks
    /\ \A i \in DOMAIN x.result :
         IF x.of = "memories" THEN ms[x.result[i]].lane = x.lane
         ELSE /\ ds[cs[x.result[i]].doc].lane = x.lane
              /\ x.filtered => /\ cs[x.result[i]].doc \in x.among
                               /\ ds[cs[x.result[i]].doc].matches \/ cs[x.result[i]].doc \in rt
    /\ x.mode = "semantic" =>
         \A i \in DOMAIN x.result, y \in x.seen \ Handed(x.result) :
            (IF x.of = "memories" THEN ms[x.result[i]].sim ELSE cs[x.result[i]].sim)
              >= (IF x.of = "memories" THEN ms[y].sim ELSE cs[y].sim)

(* The retrievals that counted a memory.                                     *)
UsedBy(f, m) == {q \in Queries : f[q].pc = "done" /\ f[q].of = "memories" /\ m \in Handed(f[q].result)}

LEMMA AnswersOK ==
    /\ RetrievalInv <=> UsesCounted /\ \A q \in Queries : AnswerOK(query[q], retyped[q], memories, chunks, docs)
    /\ UsesCounted <=> \A m \in Memories : memories[m].uses = Cardinality(UsedBy(query, m))
<1>1. RetrievalInv <=> UsesCounted /\ \A q \in Queries : AnswerOK(query[q], retyped[q], memories, chunks, docs)
    BY DEF RetrievalInv, AnswerInv, LaneKept, NearestKept, Sim, AnswerOK
<1>2. UsesCounted <=> \A m \in Memories : memories[m].uses = Cardinality(UsedBy(query, m))
    BY DEF UsesCounted, UsedBy
<1> QED
    BY <1>1, <1>2

(* All of them keep it.                                                      *)
AnswersFit == \A q \in Queries : AnswerOK(query[q], retyped[q], memories, chunks, docs)

LEMMA FitIsEnough == UsesCounted /\ AnswersFit => RetrievalInv
BY AnswersOK DEF AnswersFit

LEMMA UsedByFinite ==
    ASSUME NEW f, NEW m
    PROVE  IsFiniteSet(UsedBy(f, m)) /\ Cardinality(UsedBy(f, m)) \in Nat /\ Cardinality(UsedBy(f, m)) <= Cardinality(Queries)
<1>1. UsedBy(f, m) \in SUBSET Queries /\ IsFiniteSet(Queries)
    BY RetrievalConstants DEF UsedBy
<1> QED
    BY <1>1, FS_Subset, FS_CardinalityType

LEMMA NothingHanded == Handed(<<>>) = {} /\ DOMAIN <<>> = {}
BY DEF Handed

(* The best n rows, and an order of them.                                    *)
LEMMA TopFacts ==
    ASSUME NEW rows, IsFiniteSet(rows), NEW n \in Nat, NEW value, NEW T \in Top(rows, n, value)
    PROVE  /\ T \subseteq rows /\ IsFiniteSet(T) /\ Cardinality(T) \in Nat /\ Cardinality(T) <= n
           /\ \A in \in T, out \in rows \ T : value[in] >= value[out]
<1>1. /\ T \in SUBSET rows /\ Cardinality(T) = (IF Cardinality(rows) < n THEN Cardinality(rows) ELSE n)
      /\ \A in \in T, out \in rows \ T : value[in] >= value[out]
    BY DEF Top
<1>2. IsFiniteSet(T) /\ Cardinality(T) \in Nat /\ Cardinality(rows) \in Nat
    BY <1>1, FS_Subset, FS_CardinalityType
<1> QED
    BY <1>1, <1>2

LEMMA SortedFacts ==
    ASSUME NEW rows, IsFiniteSet(rows), NEW value, NEW s \in Sorted(rows, value)
    PROVE  /\ s \in Seq(rows) /\ Len(s) = Cardinality(rows) /\ Len(s) \in Nat /\ DOMAIN s = 1..Len(s)
           /\ Handed(s) = rows /\ \A i \in DOMAIN s : s[i] \in rows
           /\ \A i, j \in DOMAIN s : i < j => value[s[i]] >= value[s[j]]
<1>1. PICK n \in Nat : n = Cardinality(rows)
    BY FS_CardinalityType
<1>2. s \in [1..n -> rows] /\ Handed(s) = rows /\ \A i, j \in DOMAIN s : i < j => value[s[i]] >= value[s[j]]
    BY <1>1 DEF Sorted
<1>3. s \in Seq(rows) /\ Len(s) = n
    BY <1>2
<1> QED
    BY <1>1, <1>2, <1>3, LenProperties

LEMMA RetrievalFacts ==
    ASSUME RetrievalTypeOK
    PROVE  /\ \A m \in Memories : /\ memories[m] \in MemoryRow /\ memories[m].lane \in Lanes
                                  /\ memories[m].sim \in Int /\ memories[m].uses \in Nat
           /\ \A c \in Chunks : chunks[c] \in ChunkRow /\ chunks[c].doc \in Docs /\ chunks[c].sim \in Int
           /\ \A d \in Docs : docs[d] \in DocRow
           /\ \A q \in Queries : query[q] \in Lookup
BY DEF RetrievalTypeOK, MemoryRow, ChunkRow

-------------------------------------------------------------------------------
(* The steps of a retrieval *)

(* A retrieval goes on, and no old changes. A memory is counted in           *)
(* RecordAccess only, so nothing else may end with memories to show.         *)
LEMMA LookupMoves ==
    ASSUME RetrievalTypeOK, RetrievalInv, NEW q \in Queries, NEW e \in Lookup, AnswerOK(e, retyped[q], memories, chunks, docs),
           Len(e.result) <= Limit, query[q].pc # "done", e.pc = "done" /\ e.of = "memories" => e.result = <<>>,
           query' = [query EXCEPT ![q] = e], UNCHANGED <<memories, chunks, docs, retyped, changes>>
    PROVE  RetrievalTypeOK' /\ RetrievalInv'
<1>1. query \in [Queries -> Lookup]
    BY DEF RetrievalTypeOK
<1>2. query' \in [Queries -> Lookup] /\ query'[q] = e /\ \A r \in Queries \ {q} : query'[r] = query[r]
    BY <1>1
<1>3. RetrievalTypeOK'
    BY <1>2 DEF RetrievalTypeOK
<1>4. \A r \in Queries : AnswerOK(query'[r], retyped[r], memories, chunks, docs)
    BY <1>2, AnswersOK
<1>5. \A m \in Memories : UsedBy(query', m) = UsedBy(query, m)
  <2> SUFFICES ASSUME NEW m \in Memories, NEW r \in Queries
               PROVE  (query'[r].pc = "done" /\ query'[r].of = "memories" /\ m \in Handed(query'[r].result))
                        <=> (query[r].pc = "done" /\ query[r].of = "memories" /\ m \in Handed(query[r].result))
    BY DEF UsedBy
  <2>1. CASE r = q
    BY <1>2, <2>1, NothingHanded
  <2>2. CASE r # q
    BY <1>2, <2>2
  <2> QED
    BY <2>1, <2>2
<1>6. AnswersFit'
    BY <1>4 DEF AnswersFit
<1>7. UsesCounted'
    BY <1>5, AnswersOK DEF UsedBy, UsesCounted, Handed
<1>8. RetrievalInv'
    BY <1>6, <1>7, FitIsEnough, PTL
<1> QED
    BY <1>3, <1>8

(* Nothing is shown yet.                                                     *)
LEMMA NothingYet ==
    ASSUME NEW x \in Lookup, NEW rt, NEW ms, NEW cs, NEW ds, x.pc # "access", x.result = <<>>, x.mode = "none",
           x.pc = "filter" => x.filtered,
           x.seen \subseteq IF x.of = "memories" THEN Memories ELSE Chunks,
           x.filtered /\ x.pc \notin {"idle", "filter"} =>
              \A d \in x.among : ds[d].lane = x.lane /\ (ds[d].matches \/ d \in rt)
    PROVE  AnswerOK(x, rt, ms, cs, ds)
BY NothingHanded DEF AnswerOK

LEMMA LookupFacts ==
    ASSUME RetrievalTypeOK, RetrievalInv, NEW q \in Queries, NEW x, x = query[q]
    PROVE  x \in Lookup /\ AnswerOK(x, retyped[q], memories, chunks, docs) /\ Len(x.result) <= Limit
BY AnswersOK DEF RetrievalTypeOK

(* A question just asked.                                                    *)
Asks(pc, of, lane, words, filtered) ==
    [NoQuery EXCEPT !.pc = pc, !.of = of, !.lane = lane, !.words = words, !.filtered = filtered]

LEMMA AsksLookup ==
    ASSUME NEW pc \in Phases, NEW of \in Kinds, NEW lane \in Lanes, NEW words \in BOOLEAN, NEW filtered \in BOOLEAN
    PROVE  LET e == Asks(pc, of, lane, words, filtered) IN
           /\ e \in Lookup
           /\ e.pc = pc /\ e.of = of /\ e.lane = lane /\ e.filtered = filtered /\ e.among = {}
           /\ e.mode = "none" /\ e.result = <<>> /\ e.seen = {}
<1>1. PICK Ps, Ks, Ls, Ds : Ps = Phases /\ Ks = Kinds /\ Ls = Lanes /\ Ds = SUBSET Docs
    OBVIOUS
<1>2. PICK Zs, Ms, Rs, Ss : Zs = Dims /\ Ms = Modes /\ Rs = Listings /\ Ss = SUBSET (Memories \union Chunks)
    OBVIOUS
<1>3. Lookup = [pc : Ps, of : Ks, lane : Ls, words : BOOLEAN, filtered : BOOLEAN, among : Ds, dims : Zs, mode : Ms, result : Rs, seen : Ss]
    BY <1>1, <1>2 DEF Lookup
<1>4. /\ "idle" \in Ps /\ "memories" \in Ks /\ "personal" \in Ls /\ {} \in Ds /\ 0 \in Zs /\ "none" \in Ms /\ <<>> \in Rs /\ {} \in Ss
      /\ pc \in Ps /\ of \in Ks /\ lane \in Ls
    BY <1>1, <1>2 DEF Phases, Kinds, Lanes, Dims, Modes, Listings
<1> DEFINE x == NoQuery
<1>5. /\ x \in [pc : Ps, of : Ks, lane : Ls, words : BOOLEAN, filtered : BOOLEAN, among : Ds, dims : Zs, mode : Ms, result : Rs, seen : Ss]
      /\ x.among = {} /\ x.mode = "none" /\ x.result = <<>> /\ x.seen = {}
    BY <1>4 DEF NoQuery
<1> HIDE DEF x
<1> DEFINE e == [x EXCEPT !.pc = pc, !.of = of, !.lane = lane, !.words = words, !.filtered = filtered]
<1>6. /\ e \in [pc : Ps, of : Ks, lane : Ls, words : BOOLEAN, filtered : BOOLEAN, among : Ds, dims : Zs, mode : Ms, result : Rs, seen : Ss]
      /\ e.pc = pc /\ e.of = of /\ e.lane = lane /\ e.filtered = filtered /\ e.among = {}
      /\ e.mode = "none" /\ e.result = <<>> /\ e.seen = {}
    BY <1>4, <1>5
<1>7. e \in Lookup /\ e = Asks(pc, of, lane, words, filtered)
    BY <1>3, <1>6 DEF Asks, x
<1> HIDE DEF e
<1> QED
    BY <1>6, <1>7

LEMMA RetrieveStep ==
    ASSUME RetrievalTypeOK, RetrievalInv, NEW q \in Queries, Retrieve(q)
    PROVE  RetrievalTypeOK' /\ RetrievalInv'
<1>1. PICK x \in Questions :
        query' = [query EXCEPT ![q] = [NoQuery EXCEPT !.pc = IF x.filtered THEN "filter" ELSE "embed",
                     !.of = x.of, !.lane = x.lane, !.words = x.words, !.filtered = x.filtered]]
    BY DEF Retrieve
<1>2. PICK of \in Kinds, lane \in Lanes, words \in BOOLEAN, filtered \in BOOLEAN :
        x.of = of /\ x.lane = lane /\ x.words = words /\ x.filtered = filtered
    BY RetrievalConstants
<1>3. PICK pc \in Phases : pc = IF filtered THEN "filter" ELSE "embed"
    BY DEF Phases
<1> DEFINE e == Asks(pc, of, lane, words, filtered)
<1>4. query' = [query EXCEPT ![q] = e]
    BY <1>1, <1>2, <1>3 DEF Asks
<1>5. /\ e \in Lookup /\ e.pc = pc /\ e.of = of /\ e.lane = lane /\ e.filtered = filtered /\ e.among = {}
      /\ e.mode = "none" /\ e.result = <<>> /\ e.seen = {}
    BY AsksLookup
<1> HIDE DEF e
<1>6. AnswerOK(e, retyped[q], memories, chunks, docs)
  <2>1. \A d \in e.among : docs[d].lane = e.lane /\ (docs[d].matches \/ d \in retyped[q])
    BY <1>5
  <2>2. e.pc # "access" /\ (e.pc = "filter" => e.filtered)
    BY <1>3, <1>5
  <2> QED
    BY <1>5, <2>1, <2>2, NothingYet
<1>7. Len(e.result) <= Limit /\ query[q].pc # "done"
    BY <1>5, EmptySeq, RetrievalConstants DEF Retrieve
<1> QED
    BY <1>4, <1>5, <1>6, <1>7, LookupMoves DEF Retrieve

LEMMA FilterStep ==
    ASSUME RetrievalTypeOK, RetrievalInv, NEW q \in Queries, CandidateDocumentIds(q)
    PROVE  RetrievalTypeOK' /\ RetrievalInv'
<1>1. PICK x : x = query[q]
    OBVIOUS
<1>2. /\ x \in Lookup /\ AnswerOK(x, retyped[q], memories, chunks, docs) /\ Len(x.result) <= Limit /\ x.pc = "filter"
      /\ UNCHANGED <<memories, chunks, docs, retyped, changes>>
    BY <1>1, LookupFacts DEF CandidateDocumentIds
<1>3. PICK zeros : zeros = [d \in Docs |-> 0]
    OBVIOUS
<1>4. PICK among \in Top(Matching(x.lane), MaxCandidates, zeros) :
        query' = [query EXCEPT ![q].among = among, ![q].pc = IF among = {} THEN "done" ELSE "embed"]
    BY <1>1, <1>3 DEF CandidateDocumentIds
<1>5. PICK pc \in Phases : pc = IF among = {} THEN "done" ELSE "embed"
    BY DEF Phases
<1> DEFINE e == Filters(x, among, pc)
<1>6. query' = [query EXCEPT ![q] = e]
    BY <1>1, <1>4, <1>5 DEF Filters, RetrievalTypeOK
<1>7. among \in SUBSET Docs /\ \A d \in among : docs[d].lane = x.lane /\ docs[d].matches
    BY DEF Top, Matching
<1>8. /\ e \in Lookup
      /\ e.pc = pc /\ e.of = x.of /\ e.lane = x.lane /\ e.words = x.words /\ e.filtered = x.filtered
      /\ e.among = among /\ e.dims = x.dims /\ e.mode = x.mode /\ e.result = x.result /\ e.seen = x.seen
    BY <1>2, <1>7, FiltersLookup
<1> HIDE DEF e
<1>9. e.result = <<>> /\ e.mode = "none" /\ e.seen \subseteq IF e.of = "memories" THEN Memories ELSE Chunks
    BY <1>2, <1>8 DEF AnswerOK
<1>10. AnswerOK(e, retyped[q], memories, chunks, docs)
  <2>1. \A d \in e.among : docs[d].lane = e.lane /\ (docs[d].matches \/ d \in retyped[q])
    BY <1>7, <1>8
  <2>2. e.pc # "access" /\ e.pc # "filter"
    BY <1>5, <1>8
  <2> QED
    BY <1>8, <1>9, <2>1, <2>2, NothingYet
<1> QED
    BY <1>1, <1>2, <1>6, <1>8, <1>9, <1>10, LookupMoves

(* A retrieval that has found nothing yet and goes on.                       *)
LEMMA GoesOnSteps ==
    ASSUME RetrievalTypeOK, RetrievalInv, NEW q \in Queries, NEW e \in Lookup, NEW x, x = query[q],
           x.pc \in {"embed", "search"}, e.pc \in {"search", "text"}, e.filtered = x.filtered, e.lane = x.lane,
           e.among = x.among, e.result = x.result, e.mode = x.mode, e.of = x.of, e.seen = x.seen,
           query' = [query EXCEPT ![q] = e], UNCHANGED <<memories, chunks, docs, retyped, changes>>
    PROVE  RetrievalTypeOK' /\ RetrievalInv'
<1>1. AnswerOK(x, retyped[q], memories, chunks, docs) /\ Len(x.result) <= Limit
    BY LookupFacts
<1>2. /\ e.result = <<>> /\ e.mode = "none" /\ e.seen \subseteq IF e.of = "memories" THEN Memories ELSE Chunks
      /\ e.filtered => \A d \in e.among : docs[d].lane = e.lane /\ (docs[d].matches \/ d \in retyped[q])
    BY <1>1 DEF AnswerOK
<1>3. AnswerOK(e, retyped[q], memories, chunks, docs)
    BY <1>2, NothingYet
<1> QED
    BY <1>1, <1>3, LookupMoves

LEMMA ToTheWords ==
    ASSUME RetrievalTypeOK, RetrievalInv, NEW q \in Queries, query[q].pc \in {"embed", "search"},
           query' = [query EXCEPT ![q].pc = "text"], UNCHANGED <<memories, chunks, docs, retyped, changes>>
    PROVE  RetrievalTypeOK' /\ RetrievalInv'
<1>1. PICK x : x = query[q]
    OBVIOUS
<1>2. x \in Lookup /\ "text" \in Phases
    BY <1>1, LookupFacts DEF Phases
<1> DEFINE e == Proceeds(x, "text")
<1>3. query' = [query EXCEPT ![q] = e]
    BY <1>1 DEF Proceeds, RetrievalTypeOK
<1>4. /\ e \in Lookup /\ e.pc = "text" /\ e.lane = x.lane /\ e.filtered = x.filtered /\ e.among = x.among
      /\ e.mode = x.mode /\ e.result = x.result /\ e.of = x.of /\ e.seen = x.seen
    BY <1>2, ProceedsLookup
<1> HIDE DEF e
<1> QED
    BY <1>1, <1>3, <1>4, GoesOnSteps, ZenonT(60)

LEMMA EmbedStep ==
    ASSUME RetrievalTypeOK, RetrievalInv, NEW q \in Queries, EmbedQuery(q)
    PROVE  RetrievalTypeOK' /\ RetrievalInv'
<1>1. CASE query' = [query EXCEPT ![q].pc = "text"]
    BY <1>1, ToTheWords DEF EmbedQuery
<1>2. CASE \E d \in Dimensions : query' = [query EXCEPT ![q].pc = "search", ![q].dims = d]
  <2>1. PICK x : x = query[q]
    OBVIOUS
  <2>2. PICK d \in Dims : query' = [query EXCEPT ![q].pc = "search", ![q].dims = d]
    BY <1>2 DEF Dims
  <2>3. x \in Lookup /\ "search" \in Phases
    BY <2>1, LookupFacts DEF Phases
  <2> DEFINE e == Embeds(x, "search", d)
  <2>4. query' = [query EXCEPT ![q] = e]
    BY <2>1, <2>2 DEF Embeds, RetrievalTypeOK
  <2>5. /\ e \in Lookup /\ e.pc = "search" /\ e.lane = x.lane /\ e.filtered = x.filtered /\ e.among = x.among
        /\ e.mode = x.mode /\ e.result = x.result /\ e.of = x.of /\ e.seen = x.seen
    BY <2>3, EmbedsLookup
  <2> HIDE DEF e
  <2> QED
    BY <2>1, <2>4, <2>5, GoesOnSteps DEF EmbedQuery
<1> QED
    BY <1>1, <1>2 DEF EmbedQuery

(* Memories are shown: of the lane, at most as many as may be, and if they   *)
(* were found by their vectors, the nearest of those compared.               *)
LEMMA MemoriesFound ==
    ASSUME RetrievalTypeOK, RetrievalInv, NEW q \in Queries, NEW e \in Lookup, NEW T \in SUBSET Memories, NEW value,
           IsFiniteSet(T), Cardinality(T) <= Limit, NEW s \in Sorted(T, value),
           \A m \in T : memories[m].lane = e.lane,
           e.seen \subseteq Memories, e.mode = "semantic" => T \subseteq e.seen,
           e.mode = "semantic" => \A in \in T, out \in e.seen \ T : memories[in].sim >= memories[out].sim,
           e.of = "memories", e.pc = "access", e.result = s, query[q].pc \in {"search", "text"},
           e.filtered = query[q].filtered, e.among = query[q].among, e.lane = query[q].lane,
           query' = [query EXCEPT ![q] = e], UNCHANGED <<memories, chunks, docs, retyped, changes>>
    PROVE  RetrievalTypeOK' /\ RetrievalInv'
<1>1. PICK x : x = query[q]
    OBVIOUS
<1>2. AnswerOK(x, retyped[q], memories, chunks, docs)
    BY <1>1, LookupFacts
<1>3. Len(s) = Cardinality(T) /\ Handed(s) = T /\ \A i \in DOMAIN s : s[i] \in T
    BY SortedFacts
<1>4. e.filtered => \A d \in e.among : docs[d].lane = e.lane /\ (docs[d].matches \/ d \in retyped[q])
    BY <1>1, <1>2 DEF AnswerOK
<1>5. AnswerOK(e, retyped[q], memories, chunks, docs)
    BY <1>3, <1>4 DEF AnswerOK
<1> QED
    BY <1>3, <1>5, LookupMoves

LEMMA SearchMemoriesStep ==
    ASSUME RetrievalTypeOK, RetrievalInv, NEW q \in Queries, SearchMemories(q)
    PROVE  RetrievalTypeOK' /\ RetrievalInv'
<1>1. PICK x : x = query[q]
    OBVIOUS
<1>2. x \in Lookup /\ x.pc = "search" /\ x.of = "memories"
    BY <1>1, LookupFacts DEF SearchMemories
<1>3. PICK rows : rows = ComparableMemories(x)
    OBVIOUS
<1>4. PICK sims : sims = [m \in Memories |-> memories[m].sim]
    OBVIOUS
<1>5. PICK T \in Top(rows, Limit, sims) :
        IF T = {} THEN query' = [query EXCEPT ![q].pc = "text"]
        ELSE \E s \in Sorted(T, [m \in Memories |-> Score(m, memories[m].sim)]) :
                query' = [query EXCEPT ![q].mode = "semantic", ![q].result = s, ![q].pc = "access", ![q].seen = rows]
    BY <1>1, <1>3, <1>4 DEF SearchMemories, SearchSimilarMemories
<1>6. rows \in SUBSET Memories /\ IsFiniteSet(rows) /\ \A m \in rows : memories[m].lane = x.lane
  <2>1. rows \in SUBSET Memories /\ IsFiniteSet(Memories)
    BY <1>3, RetrievalConstants DEF ComparableMemories
  <2> QED
    BY <1>3, <2>1, FS_Subset DEF ComparableMemories
<1>7. /\ T \subseteq rows /\ IsFiniteSet(T) /\ Cardinality(T) <= Limit
      /\ \A in \in T, out \in rows \ T : memories[in].sim >= memories[out].sim
  <2>1. /\ T \subseteq rows /\ IsFiniteSet(T) /\ Cardinality(T) <= Limit
        /\ \A in \in T, out \in rows \ T : sims[in] >= sims[out]
    BY <1>6, RetrievalConstants, TopFacts
  <2> QED
    BY <1>4, <1>6, <2>1
<1>8. CASE T = {}
    BY <1>1, <1>2, <1>5, <1>8, ToTheWords DEF SearchMemories
<1>9. CASE T # {}
  <2>1. PICK value : value = [m \in Memories |-> Score(m, memories[m].sim)]
    OBVIOUS
  <2>2. PICK s \in Sorted(T, value) :
          query' = [query EXCEPT ![q].mode = "semantic", ![q].result = s, ![q].pc = "access", ![q].seen = rows]
    BY <1>5, <1>9, <2>1
  <2>3. s \in Listings
    BY <1>6, <1>7, SortedFacts, SeqMonotonic DEF Listings
  <2> DEFINE e == Finds(x, "semantic", s, "access", rows)
  <2>4. query' = [query EXCEPT ![q] = e]
    BY <1>1, <2>2 DEF Finds, RetrievalTypeOK
  <2>5. x \in Lookup /\ "semantic" \in Modes /\ "access" \in Phases /\ rows \in SUBSET (Memories \union Chunks)
    BY <1>2, <1>6 DEF Modes, Phases
  <2>6. /\ e \in Lookup
        /\ e.pc = "access" /\ e.of = x.of /\ e.lane = x.lane /\ e.words = x.words /\ e.filtered = x.filtered
        /\ e.among = x.among /\ e.dims = x.dims /\ e.mode = "semantic" /\ e.result = s /\ e.seen = rows
    BY <2>3, <2>5, FindsLookup
  <2> HIDE DEF e
  <2>7. \A m \in T : memories[m].lane = e.lane
    BY <1>6, <1>7, <2>6
  <2>8. \A in \in T, out \in e.seen \ T : memories[in].sim >= memories[out].sim
    BY <1>7, <2>6
  <2>9. T \in SUBSET Memories /\ e.seen \subseteq Memories /\ T \subseteq e.seen
    BY <1>6, <1>7, <2>6
  <2> QED
    <3>1. /\ e.of = "memories" /\ e.pc = "access" /\ e.result = s /\ query[q].pc \in {"search", "text"}
          /\ e.filtered = query[q].filtered /\ e.among = query[q].among /\ e.lane = query[q].lane
      BY <1>1, <1>2, <2>6
    <3>2. IsFiniteSet(T) /\ Cardinality(T) <= Limit /\ e \in Lookup /\ UNCHANGED <<memories, chunks, docs, retyped, changes>>
      BY <1>7, <2>6 DEF SearchMemories
    <3> QED
      BY <2>4, <2>7, <2>8, <2>9, <3>1, <3>2, MemoriesFound
<1> QED
    BY <1>8, <1>9

LEMMA MemoriesByTextStep ==
    ASSUME RetrievalTypeOK, RetrievalInv, NEW q \in Queries, MemoriesByText(q)
    PROVE  RetrievalTypeOK' /\ RetrievalInv'
<1>1. PICK x : x = query[q]
    OBVIOUS
<1>2. x \in Lookup /\ x.pc = "text" /\ x.of = "memories" /\ UNCHANGED <<memories, chunks, docs, retyped, changes>>
    BY <1>1, LookupFacts DEF MemoriesByText
<1>3. PICK rows : rows = {m \in Memories : x.words /\ memories[m].lane = x.lane /\ memories[m].active /\ memories[m].found}
    OBVIOUS
<1>4. PICK worth : worth = [m \in Memories |-> Score(m, memories[m].overlap)]
    OBVIOUS
<1>5. PICK zeros : zeros = [m \in Memories |-> 0]
    OBVIOUS
<1>6. PICK F \in Top(rows, Limit * TextOverfetch, zeros) : \E T \in Top(F, Limit, worth) : \E s \in Sorted(T, worth) :
        Answer(q, "text", s, "access")
    BY <1>1, <1>3, <1>4, <1>5 DEF MemoriesByText
<1>7. PICK T \in Top(F, Limit, worth) : \E s \in Sorted(T, worth) : Answer(q, "text", s, "access")
    BY <1>6
<1>8. PICK s \in Sorted(T, worth) : Answer(q, "text", s, "access")
    BY <1>7
<1>9. rows \in SUBSET Memories /\ IsFiniteSet(rows) /\ \A m \in rows : memories[m].lane = x.lane
  <2>1. rows \in SUBSET Memories /\ IsFiniteSet(Memories)
    BY <1>3, RetrievalConstants
  <2> QED
    BY <1>3, <2>1, FS_Subset
<1>10. T \subseteq rows /\ IsFiniteSet(T) /\ Cardinality(T) <= Limit
  <2>1. Limit \in Nat /\ Limit * TextOverfetch \in Nat
    BY RetrievalConstants DEF TextOverfetch
  <2>2. F \subseteq rows /\ IsFiniteSet(F)
    BY <1>9, <2>1, TopFacts
  <2> QED
    BY <2>1, <2>2, TopFacts
<1>11. PICK mode \in Modes : mode = IF s = <<>> THEN "none" ELSE "text"
    BY DEF Modes
<1> DEFINE e == Answers(x, mode, s, "access")
<1>12. query' = [query EXCEPT ![q] = e]
    BY <1>1, <1>8, <1>11 DEF Answers, Answer, RetrievalTypeOK
<1>13. s \in Listings
    BY <1>9, <1>10, SortedFacts, SeqMonotonic DEF Listings
<1>14. "access" \in Phases
    BY DEF Phases
<1>15. /\ e \in Lookup
       /\ e.pc = "access" /\ e.of = x.of /\ e.lane = x.lane /\ e.words = x.words /\ e.filtered = x.filtered
       /\ e.among = x.among /\ e.dims = x.dims /\ e.mode = mode /\ e.result = s /\ e.seen = x.seen
    BY <1>2, <1>13, <1>14, AnswersLookup
<1> HIDE DEF e
<1>16. /\ e.of = "memories" /\ e.mode # "semantic" /\ query[q].pc \in {"search", "text"}
       /\ e.filtered = query[q].filtered /\ e.among = query[q].among /\ e.lane = query[q].lane
    BY <1>1, <1>2, <1>11, <1>15
<1>17. T \in SUBSET Memories /\ e.seen \subseteq Memories /\ \A m \in T : memories[m].lane = e.lane
  <2>1. AnswerOK(x, retyped[q], memories, chunks, docs)
    BY <1>1, LookupFacts
  <2>2. x.seen \subseteq Memories
    BY <1>2, <2>1 DEF AnswerOK
  <2> QED
    BY <1>9, <1>10, <1>15, <2>2
<1> QED
    BY <1>2, <1>10, <1>12, <1>15, <1>16, <1>17, MemoriesFound

(* Chunks are shown: of documents of the lane and, with a filter, of the     *)
(* filter.                                                                   *)
LEMMA ChunksFound ==
    ASSUME RetrievalTypeOK, RetrievalInv, NEW q \in Queries, NEW x, x = query[q], NEW e \in Lookup, NEW s \in Listings,
           Len(s) <= Limit,
           \A i \in DOMAIN s : /\ s[i] \in Chunks /\ docs[chunks[s[i]].doc].lane = x.lane
                               /\ x.filtered => chunks[s[i]].doc \in x.among,
           x.of = "chunks", x.pc \in {"search", "text"}, e.pc = "done", e.of = x.of, e.lane = x.lane,
           e.filtered = x.filtered, e.among = x.among, e.result = s, e.seen \subseteq Chunks,
           e.mode = "semantic" => \A i \in DOMAIN s, y \in e.seen \ Handed(s) : chunks[s[i]].sim >= chunks[y].sim,
           query' = [query EXCEPT ![q] = e], UNCHANGED <<memories, chunks, docs, retyped, changes>>
    PROVE  RetrievalTypeOK' /\ RetrievalInv'
<1>1. x \in Lookup /\ AnswerOK(x, retyped[q], memories, chunks, docs)
    BY LookupFacts
<1>2. x.filtered => \A d \in x.among : docs[d].lane = x.lane /\ (docs[d].matches \/ d \in retyped[q])
    BY <1>1 DEF AnswerOK
<1>3. AnswerOK(e, retyped[q], memories, chunks, docs)
  <2>1. Handed(e.result) \subseteq Chunks
    BY DEF Handed
  <2>2. \A i \in DOMAIN e.result :
          /\ docs[chunks[e.result[i]].doc].lane = e.lane
          /\ e.filtered => /\ chunks[e.result[i]].doc \in e.among
                           /\ docs[chunks[e.result[i]].doc].matches \/ chunks[e.result[i]].doc \in retyped[q]
    BY <1>2
  <2>3. e.of = "chunks" /\ e.pc = "done" /\ e.filtered = x.filtered /\ e.among = x.among /\ e.lane = x.lane
    OBVIOUS
  <2> QED
    BY <1>2, <2>1, <2>2, <2>3 DEF AnswerOK
<1>4. e.of # "memories" /\ query[q].pc # "done"
    OBVIOUS
<1> QED
    BY <1>3, <1>4, LookupMoves

LEMMA ComparableAreChunks ==
    ASSUME NEW x, NEW T \in SearchSimilarChunks(x)
    PROVE  T \subseteq ComparableChunks(x) /\ ComparableChunks(x) \subseteq Chunks
<1>1. T \subseteq ComparableChunks(x)
    BY DEF SearchSimilarChunks, Top
<1> QED
    BY <1>1 DEF ComparableChunks

LEMMA FirstRows ==
    ASSUME NEW S, NEW s \in Seq(S), NEW n \in Nat, n <= Len(s)
    PROVE  SubSeq(s, 1, n) \in Seq(S) /\ Len(SubSeq(s, 1, n)) = n /\ \A i \in 1..n : SubSeq(s, 1, n)[i] = s[i]
<1>1. 1 \in Int /\ n \in Int /\ \A i \in 1..n : s[i] \in S
    BY LenProperties, ElementOfSeq
<1>2. /\ SubSeq(s, 1, n) \in Seq(S) /\ Len(SubSeq(s, 1, n)) = IF 1 <= n THEN n - 1 + 1 ELSE 0
      /\ \A i \in 1..(n - 1 + 1) : SubSeq(s, 1, n)[i] = s[1 + i - 1]
    BY <1>1, SubSeqProperties
<1> QED
    BY <1>2

(* The first rows of those in descending order are nearer than the others.   *)
LEMMA FirstAreNearest ==
    ASSUME NEW rows, IsFiniteSet(rows), NEW value, NEW s \in Sorted(rows, value), NEW n \in Nat, n <= Len(s),
           NEW i \in 1..n, NEW y \in rows, \A k \in 1..n : y # s[k]
    PROVE  value[s[i]] >= value[y]
<1>1. /\ Len(s) \in Nat /\ DOMAIN s = 1..Len(s) /\ Handed(s) = rows
      /\ \A k, j \in DOMAIN s : k < j => value[s[k]] >= value[s[j]]
    BY SortedFacts
<1>2. PICK j \in DOMAIN s : y = s[j]
    BY <1>1 DEF Handed
<1>3. i \in DOMAIN s /\ i < j
    BY <1>1, <1>2
<1> QED
    BY <1>1, <1>2, <1>3

LEMMA SearchChunksStep ==
    ASSUME RetrievalTypeOK, RetrievalInv, NEW q \in Queries, SearchChunks(q)
    PROVE  RetrievalTypeOK' /\ RetrievalInv'
<1>1. PICK x : x = query[q]
    OBVIOUS
<1>2. x \in Lookup /\ x.pc = "search" /\ x.of = "chunks" /\ UNCHANGED <<memories, chunks, docs, retyped, changes>>
    BY <1>1, LookupFacts DEF SearchChunks
<1>3. PICK sims : sims = [c \in Chunks |-> chunks[c].sim]
    OBVIOUS
<1>4. PICK compared : compared = IF x.dims = AnnDimensions THEN {} ELSE {c \in ComparableChunks(x) : Admitted(q, c)}
    OBVIOUS
<1>5. PICK T \in SearchSimilarChunks(x) :
        IF {c \in T : Admitted(q, c)} = {} THEN query' = [query EXCEPT ![q].pc = "text"]
        ELSE \E s \in Sorted({c \in T : Admitted(q, c)}, sims) : Shown(q, s, compared)
    BY <1>1, <1>3, <1>4 DEF SearchChunks
<1>6. PICK kept : /\ kept = {c \in T : Admitted(q, c)}
                  /\ kept # {} => \E s \in Sorted(kept, sims) : Shown(q, s, compared)
    BY <1>5
<1>7. CASE kept = {}
    BY <1>1, <1>2, <1>5, <1>6, <1>7, ToTheWords
<1>8. CASE kept # {}
  <2>1. PICK s \in Sorted(kept, sims) : Shown(q, s, compared)
    BY <1>6, <1>8
  <2>2. /\ kept \in SUBSET Chunks /\ IsFiniteSet(kept)
        /\ \A c \in kept : docs[chunks[c].doc].lane = x.lane /\ (x.filtered => chunks[c].doc \in x.among)
    <3>1. kept \in SUBSET Chunks /\ IsFiniteSet(Chunks) /\ T \subseteq ComparableChunks(x)
      BY <1>6, ComparableAreChunks, RetrievalConstants
    <3>2. \A c \in kept : docs[chunks[c].doc].lane = x.lane
      <4>1. \A c \in ComparableChunks(x) : docs[chunks[c].doc].lane = x.lane
        BY DEF ComparableChunks
      <4> QED
        BY <1>6, <3>1, <4>1
    <3>3. \A c \in kept : x.filtered => chunks[c].doc \in x.among
      BY <1>1, <1>6 DEF Admitted
    <3> QED
      BY <3>1, <3>2, <3>3, FS_Subset
  <2>3. s \in Seq(kept) /\ Len(s) \in Nat /\ DOMAIN s = 1..Len(s) /\ \A i \in DOMAIN s : s[i] \in kept
    BY <2>2, SortedFacts
  <2>4. PICK n \in Nat : n = (IF Len(s) < Limit THEN Len(s) ELSE Limit) /\ n <= Len(s) /\ n <= Limit
    <3>1. Limit \in Nat /\ Len(s) \in Nat
      BY <2>3, RetrievalConstants
    <3>2. CASE Len(s) < Limit
      BY <3>1, <3>2
    <3>3. CASE ~(Len(s) < Limit)
      BY <3>1, <3>3
    <3> QED
      BY <3>2, <3>3
  <2>5. PICK first : first = SubSeq(s, 1, n)
    OBVIOUS
  <2>6. first \in Seq(kept) /\ Len(first) = n /\ (\A i \in 1..n : first[i] \in kept /\ first[i] = s[i]) /\ DOMAIN first = 1..n
    <3>1. SubSeq(s, 1, n) \in Seq(kept) /\ Len(SubSeq(s, 1, n)) = n /\ \A i \in 1..n : SubSeq(s, 1, n)[i] = s[i]
      BY <2>3, <2>4, FirstRows
    <3>2. first \in Seq(kept) /\ Len(first) = n /\ \A i \in 1..n : first[i] = s[i]
      BY <2>4, <2>5, <3>1
    <3> QED
      BY <3>2, ElementOfSeq, LenProperties
  <2>7. first \in Listings
    BY <2>2, <2>6, SeqMonotonic DEF Listings
  <2>8. \A i \in DOMAIN first : /\ first[i] \in Chunks /\ docs[chunks[first[i]].doc].lane = x.lane
                                /\ x.filtered => chunks[first[i]].doc \in x.among
    BY <2>2, <2>6
  <2>9. compared \subseteq Chunks /\ \A i \in DOMAIN first, y \in compared \ Handed(first) : chunks[first[i]].sim >= chunks[y].sim
    <3>1. compared \subseteq Chunks
      BY <1>4, ComparableAreChunks
    <3>2. ASSUME NEW i \in DOMAIN first, NEW y \in compared \ Handed(first) PROVE sims[first[i]] >= sims[y]
      <4>1. x.dims # AnnDimensions /\ y \in ComparableChunks(x) /\ Admitted(q, y)
        BY <1>4, <3>2
      <4>2. T \in Top(ComparableChunks(x), Limit * ChunkOverfetch, sims)
        BY <1>3, <4>1 DEF SearchSimilarChunks
      <4>3. i \in 1..n /\ first[i] \in T /\ first[i] = s[i]
        BY <1>6, <2>6
      <4>4. CASE y \in T
        <5>1. y \in kept
          BY <1>6, <4>1, <4>4
        <5>2. \A k \in 1..n : y # s[k]
          BY <2>6 DEF Handed
        <5>3. sims[s[i]] >= sims[y]
          BY <2>2, <2>4, <4>3, <5>1, <5>2, FirstAreNearest
        <5> QED
          BY <4>3, <5>3
      <4>5. CASE y \notin T
        BY <4>1, <4>2, <4>3, <4>5 DEF Top
      <4> QED
        BY <4>4, <4>5
    <3>3. \A i \in DOMAIN first, y \in compared \ Handed(first) : sims[first[i]] = chunks[first[i]].sim /\ sims[y] = chunks[y].sim
      BY <1>3, <2>8, <3>1
    <3> QED
      BY <3>1, <3>2, <3>3
  <2> DEFINE e == Finds(x, "semantic", first, "done", compared)
  <2>10. query' = [query EXCEPT ![q] = e]
    BY <1>1, <2>1, <2>4, <2>5 DEF Shown, Finds, RetrievalTypeOK
  <2>11. "semantic" \in Modes /\ "done" \in Phases /\ compared \in SUBSET (Memories \union Chunks)
    BY <2>9 DEF Modes, Phases
  <2>12. /\ e \in Lookup
         /\ e.pc = "done" /\ e.of = x.of /\ e.lane = x.lane /\ e.words = x.words /\ e.filtered = x.filtered
         /\ e.among = x.among /\ e.dims = x.dims /\ e.mode = "semantic" /\ e.result = first /\ e.seen = compared
    BY <1>2, <2>7, <2>11, FindsLookup
  <2> HIDE DEF e
  <2>13. Len(first) <= Limit
    BY <2>4, <2>6
  <2> QED
    BY <1>1, <1>2, <2>7, <2>8, <2>9, <2>10, <2>12, <2>13, ChunksFound
<1> QED
    BY <1>7, <1>8

LEMMA ChunksByTextStep ==
    ASSUME RetrievalTypeOK, RetrievalInv, NEW q \in Queries, ChunksByText(q)
    PROVE  RetrievalTypeOK' /\ RetrievalInv'
<1>1. PICK x : x = query[q]
    OBVIOUS
<1>2. x \in Lookup /\ x.pc = "text" /\ x.of = "chunks" /\ UNCHANGED <<memories, chunks, docs, retyped, changes>>
    BY <1>1, LookupFacts DEF ChunksByText
<1>3. PICK rows : rows = {c \in Chunks : /\ x.words /\ chunks[c].found
                                         /\ docs[chunks[c].doc].lane = x.lane /\ docs[chunks[c].doc].ready
                                         /\ Admitted(q, c)}
    OBVIOUS
<1>4. PICK words : words = [c \in Chunks |-> chunks[c].overlap]
    OBVIOUS
<1>5. PICK zeros : zeros = [c \in Chunks |-> 0]
    OBVIOUS
<1>6. PICK F \in Top(rows, Limit * TextOverfetch, zeros) : \E T \in Top(F, Limit, words) :
        \E s \in Sorted(T, words) : Answer(q, "text", s, "done")
    BY <1>1, <1>3, <1>4, <1>5 DEF ChunksByText
<1>7. PICK T \in Top(F, Limit, words) : \E s \in Sorted(T, words) : Answer(q, "text", s, "done")
    BY <1>6
<1>8. PICK s \in Sorted(T, words) : Answer(q, "text", s, "done")
    BY <1>7
<1>9. /\ rows \in SUBSET Chunks /\ IsFiniteSet(rows)
      /\ \A c \in rows : docs[chunks[c].doc].lane = x.lane /\ (x.filtered => chunks[c].doc \in x.among)
  <2>1. rows \in SUBSET Chunks /\ IsFiniteSet(Chunks)
    BY <1>3, RetrievalConstants
  <2>2. \A c \in rows : docs[chunks[c].doc].lane = x.lane /\ (x.filtered => chunks[c].doc \in x.among)
    BY <1>1, <1>3 DEF Admitted
  <2> QED
    BY <2>1, <2>2, FS_Subset
<1>10. T \subseteq rows /\ IsFiniteSet(T) /\ Cardinality(T) <= Limit
  <2>1. Limit \in Nat /\ Limit * TextOverfetch \in Nat
    BY RetrievalConstants DEF TextOverfetch
  <2>2. F \subseteq rows /\ IsFiniteSet(F)
    BY <1>9, <2>1, TopFacts
  <2> QED
    BY <2>1, <2>2, TopFacts
<1>11. /\ s \in Seq(T) /\ Len(s) = Cardinality(T) /\ DOMAIN s = 1..Len(s) /\ \A i \in DOMAIN s : s[i] \in T
    BY <1>10, SortedFacts
<1>12. s \in Listings
    BY <1>9, <1>10, <1>11, SeqMonotonic DEF Listings
<1>13. \A i \in DOMAIN s : /\ s[i] \in Chunks /\ docs[chunks[s[i]].doc].lane = x.lane
                           /\ x.filtered => chunks[s[i]].doc \in x.among
    BY <1>9, <1>10, <1>11
<1>14. PICK mode \in Modes : mode = IF s = <<>> THEN "none" ELSE "text"
    BY DEF Modes
<1> DEFINE e == Answers(x, mode, s, "done")
<1>15. query' = [query EXCEPT ![q] = e]
    BY <1>1, <1>8, <1>14 DEF Answers, Answer, RetrievalTypeOK
<1>16. "done" \in Phases
    BY DEF Phases
<1>17. /\ e \in Lookup
       /\ e.pc = "done" /\ e.of = x.of /\ e.lane = x.lane /\ e.words = x.words /\ e.filtered = x.filtered
       /\ e.among = x.among /\ e.dims = x.dims /\ e.mode = mode /\ e.result = s /\ e.seen = x.seen
    BY <1>2, <1>12, <1>16, AnswersLookup
<1> HIDE DEF e
<1>18. e.seen \subseteq Chunks
  <2>1. AnswerOK(x, retyped[q], memories, chunks, docs)
    BY <1>1, LookupFacts
  <2> QED
    BY <1>2, <1>17, <2>1 DEF AnswerOK
<1>19. Len(s) <= Limit /\ e.mode # "semantic"
    BY <1>10, <1>11, <1>14, <1>17
<1> QED
    BY <1>1, <1>2, <1>12, <1>13, <1>15, <1>17, <1>18, <1>19, ChunksFound

(* The rows change, in nothing an answer rests on: a document that leaves a  *)
(* filter was classified since.                                              *)
StillAdmitted(q) ==
    query'[q].pc \notin {"idle", "filter"} =>
        \A d \in Docs : docs[d].matches \/ d \in retyped[q] => docs'[d].matches \/ d \in retyped'[q]

LEMMA RowsMove ==
    ASSUME RetrievalTypeOK, memories' \in [Memories -> MemoryRow], chunks' \in [Chunks -> ChunkRow], docs' \in [Docs -> DocRow],
           \A m \in Memories : memories'[m].lane = memories[m].lane /\ memories'[m].sim = memories[m].sim,
           \A c \in Chunks : chunks'[c].doc = chunks[c].doc /\ chunks'[c].sim = chunks[c].sim,
           \A d \in Docs : docs'[d].lane = docs[d].lane,
           query' \in [Queries -> Lookup], retyped' \in [Queries -> SUBSET Docs],
           \A r \in Queries : StillAdmitted(r),
           \A r \in Queries : AnswerOK(query'[r], retyped[r], memories, chunks, docs) /\ Len(query'[r].result) <= Limit,
           \A m \in Memories : memories'[m].uses = Cardinality(UsedBy(query', m)),
           changes' \in 0..MaxChanges
    PROVE  RetrievalTypeOK' /\ RetrievalInv'
<1>1. RetrievalTypeOK'
    BY UsedByFinite DEF RetrievalTypeOK
<1>2. \A c \in Chunks : chunks[c].doc \in Docs
    BY RetrievalFacts
<1>3. ASSUME NEW r \in Queries PROVE AnswerOK(query'[r], retyped'[r], memories', chunks', docs')
  <2>1. PICK x, rt, now : x = query'[r] /\ rt = retyped[r] /\ now = retyped'[r]
    OBVIOUS
  <2>2. /\ AnswerOK(x, rt, memories, chunks, docs) /\ x \in Lookup
        /\ x.among \subseteq Docs /\ x.of \in {"memories", "chunks"}
    <3>1. AnswerOK(x, rt, memories, chunks, docs) /\ x \in Lookup
      BY <2>1
    <3> QED
      BY <3>1 DEF Lookup, Kinds
  <2>3. \A i \in DOMAIN x.result : x.result[i] \in Handed(x.result)
    BY DEF Handed
  <2>4. x.pc \notin {"idle", "filter"} => \A d \in Docs : docs[d].matches \/ d \in rt => docs'[d].matches \/ d \in now
    BY <2>1 DEF StillAdmitted
  <2>5. x.pc \in {"idle", "filter"} => DOMAIN x.result = {}
    BY <2>2, NothingHanded DEF AnswerOK
  <2>6. \A i \in DOMAIN x.result :
         IF x.of = "memories" THEN memories'[x.result[i]].lane = x.lane
         ELSE /\ docs'[chunks'[x.result[i]].doc].lane = x.lane
              /\ x.filtered => /\ chunks'[x.result[i]].doc \in x.among
                               /\ docs'[chunks'[x.result[i]].doc].matches \/ chunks'[x.result[i]].doc \in now
    <3>1. CASE x.of = "memories"
      BY <2>2, <2>3, <3>1 DEF AnswerOK
    <3>2. CASE x.of # "memories"
      <4>1. \A i \in DOMAIN x.result : x.result[i] \in Chunks
        BY <2>2, <2>3, <3>2 DEF AnswerOK
      <4>2. \A i \in DOMAIN x.result :
              /\ docs[chunks[x.result[i]].doc].lane = x.lane
              /\ x.filtered => /\ chunks[x.result[i]].doc \in x.among
                               /\ docs[chunks[x.result[i]].doc].matches \/ chunks[x.result[i]].doc \in rt
        BY <2>2, <3>2 DEF AnswerOK
      <4> QED
        BY <1>2, <2>4, <2>5, <3>2, <4>1, <4>2
    <3> QED
      BY <3>1, <3>2
  <2>7. ASSUME x.mode = "semantic", NEW i \in DOMAIN x.result, NEW y \in x.seen \ Handed(x.result)
        PROVE  (IF x.of = "memories" THEN memories'[x.result[i]].sim ELSE chunks'[x.result[i]].sim)
                 >= (IF x.of = "memories" THEN memories'[y].sim ELSE chunks'[y].sim)
    <3>1. CASE x.of = "memories"
      <4>1. x.result[i] \in Memories /\ y \in Memories /\ memories[x.result[i]].sim >= memories[y].sim
        BY <2>2, <2>3, <2>7, <3>1 DEF AnswerOK
      <4> QED
        BY <3>1, <4>1
    <3>2. CASE x.of # "memories"
      <4>1. x.result[i] \in Chunks /\ y \in Chunks /\ chunks[x.result[i]].sim >= chunks[y].sim
        BY <2>2, <2>3, <2>7, <3>2 DEF AnswerOK
      <4> QED
        BY <3>2, <4>1
    <3> QED
      BY <3>1, <3>2
  <2>8. x.filtered /\ x.pc \notin {"idle", "filter"} => \A d \in x.among : docs'[d].lane = x.lane /\ (docs'[d].matches \/ d \in now)
    <3> SUFFICES ASSUME x.filtered, x.pc \notin {"idle", "filter"}, NEW d \in x.among
                 PROVE  docs'[d].lane = x.lane /\ (docs'[d].matches \/ d \in now)
      OBVIOUS
    <3>1. docs[d].lane = x.lane /\ (docs[d].matches \/ d \in rt) /\ d \in Docs
      BY <2>2 DEF AnswerOK
    <3> QED
      BY <2>4, <3>1
  <2>9. AnswerOK(x, now, memories', chunks', docs')
    BY <2>2, <2>6, <2>7, <2>8 DEF AnswerOK
  <2> QED
    BY <2>1, <2>9
<1>4. AnswersFit'
    BY <1>3 DEF AnswersFit
<1>5. UsesCounted'
    BY DEF UsesCounted, UsedBy, Handed
<1>6. RetrievalInv'
    BY <1>4, <1>5, FitIsEnough, PTL
<1> QED
    BY <1>1, <1>6

(* The memories handed out are counted, all at once, and the retrieval ends. *)
LEMMA RecordAccessStep ==
    ASSUME RetrievalTypeOK, RetrievalInv, NEW q \in Queries, RecordAccess(q)
    PROVE  RetrievalTypeOK' /\ RetrievalInv'
<1>1. PICK x : x = query[q]
    OBVIOUS
<1>2. /\ x \in Lookup /\ AnswerOK(x, retyped[q], memories, chunks, docs) /\ Len(x.result) <= Limit
      /\ x.pc = "access" /\ x.of = "memories" /\ UNCHANGED <<chunks, docs, retyped, changes>>
  <2>1. x \in Lookup /\ AnswerOK(x, retyped[q], memories, chunks, docs) /\ Len(x.result) <= Limit
    BY <1>1, LookupFacts
  <2>2. x.pc = "access" /\ UNCHANGED <<chunks, docs, retyped, changes>>
    BY <1>1 DEF RecordAccess
  <2>3. x.of = "memories"
    BY <2>1, <2>2 DEF AnswerOK
  <2> QED
    BY <2>1, <2>2, <2>3
<1> DEFINE e == Proceeds(x, "done")
<1>3. query' = [query EXCEPT ![q] = e]
    BY <1>1 DEF RecordAccess, Proceeds, RetrievalTypeOK
<1>4. /\ e \in Lookup
      /\ e.pc = "done" /\ e.of = x.of /\ e.lane = x.lane /\ e.words = x.words /\ e.filtered = x.filtered
      /\ e.among = x.among /\ e.dims = x.dims /\ e.mode = x.mode /\ e.result = x.result /\ e.seen = x.seen
    BY <1>2, ProceedsLookup DEF Phases
<1> HIDE DEF e
<1>5. /\ query' \in [Queries -> Lookup] /\ query'[q] = e /\ \A r \in Queries \ {q} : query'[r] = query[r]
    BY <1>3, <1>4 DEF RetrievalTypeOK
<1>6. PICK more : more = [m \in Memories |-> IF m \in Handed(x.result) THEN 1 ELSE 0]
    OBVIOUS
<1>7. \A m \in Memories : more[m] \in {0, 1} /\ (more[m] = 1 <=> m \in Handed(x.result))
    BY <1>6
<1>8. ASSUME NEW m \in Memories
      PROVE  /\ memories'[m] \in MemoryRow /\ memories'[m].lane = memories[m].lane /\ memories'[m].sim = memories[m].sim
             /\ memories'[m].uses = memories[m].uses + more[m]
  <2>1. PICK old \in MemoryRow : old = memories[m]
    BY RetrievalFacts
  <2>2. CASE m \in Handed(x.result)
    <3>1. PICK u \in Nat : u = old.uses + 1
      BY <2>1 DEF MemoryRow
    <3>2. memories'[m] = [old EXCEPT !.uses = u, !.recent = TRUE]
      BY <1>1, <2>1, <2>2, <3>1 DEF RecordAccess
    <3>3. /\ [old EXCEPT !.uses = u, !.recent = TRUE] \in MemoryRow /\ [old EXCEPT !.uses = u, !.recent = TRUE].lane = old.lane
          /\ [old EXCEPT !.uses = u, !.recent = TRUE].sim = old.sim /\ [old EXCEPT !.uses = u, !.recent = TRUE].uses = u
      BY DEF MemoryRow
    <3> QED
      BY <1>7, <2>1, <2>2, <3>1, <3>2, <3>3
  <2>3. CASE m \notin Handed(x.result)
    <3>1. memories'[m] = old
      BY <1>1, <2>1, <2>3 DEF RecordAccess
    <3>2. old.uses \in Nat /\ more[m] = 0
      BY <1>7, <2>1, <2>3 DEF MemoryRow
    <3> QED
      BY <2>1, <3>1, <3>2
  <2> QED
    BY <2>2, <2>3
<1>9. memories' \in [Memories -> MemoryRow]
    BY <1>8 DEF RecordAccess
<1>10. \A m \in Memories : memories'[m].uses = Cardinality(UsedBy(query', m))
  <2> SUFFICES ASSUME NEW m \in Memories PROVE memories'[m].uses = Cardinality(UsedBy(query', m))
    OBVIOUS
  <2>1. q \notin UsedBy(query, m) /\ IsFiniteSet(UsedBy(query, m)) /\ memories[m].uses = Cardinality(UsedBy(query, m))
    BY <1>1, <1>2, UsedByFinite, AnswersOK DEF UsedBy
  <2>2. CASE m \in Handed(x.result)
    <3>1. UsedBy(query', m) = UsedBy(query, m) \cup {q}
      <4> SUFFICES ASSUME NEW r \in Queries
                   PROVE  (query'[r].pc = "done" /\ query'[r].of = "memories" /\ m \in Handed(query'[r].result))
                            <=> (r = q \/ (query[r].pc = "done" /\ query[r].of = "memories" /\ m \in Handed(query[r].result)))
        BY DEF UsedBy
      <4>1. CASE r = q
        BY <1>2, <1>4, <1>5, <2>2, <4>1
      <4>2. CASE r # q
        BY <1>5, <4>2
      <4> QED
        BY <4>1, <4>2
    <3>2. Cardinality(UsedBy(query', m)) = Cardinality(UsedBy(query, m)) + 1
      BY <2>1, <3>1, FS_AddElement
    <3> QED
      BY <1>7, <1>8, <2>1, <2>2, <3>2
  <2>3. CASE m \notin Handed(x.result)
    <3>1. UsedBy(query', m) = UsedBy(query, m)
      <4> SUFFICES ASSUME NEW r \in Queries
                   PROVE  (query'[r].pc = "done" /\ query'[r].of = "memories" /\ m \in Handed(query'[r].result))
                            <=> (query[r].pc = "done" /\ query[r].of = "memories" /\ m \in Handed(query[r].result))
        BY DEF UsedBy
      <4>1. CASE r = q
        BY <1>1, <1>2, <1>4, <1>5, <2>3, <4>1
      <4>2. CASE r # q
        BY <1>5, <4>2
      <4> QED
        BY <4>1, <4>2
    <3>2. more[m] = 0 /\ memories[m].uses \in Nat
      BY <1>7, <2>3, RetrievalFacts
    <3> QED
      BY <1>8, <2>1, <3>1, <3>2
  <2> QED
    BY <2>2, <2>3
<1>11. \A r \in Queries : AnswerOK(query'[r], retyped[r], memories, chunks, docs)
  <2>1. AnswerOK(e, retyped[q], memories, chunks, docs)
    BY <1>2, <1>4 DEF AnswerOK
  <2> QED
    BY <1>5, <2>1, AnswersOK
<1>12. /\ chunks' \in [Chunks -> ChunkRow] /\ docs' \in [Docs -> DocRow] /\ changes' \in 0..MaxChanges
       /\ (\A c \in Chunks : chunks'[c].doc = chunks[c].doc /\ chunks'[c].sim = chunks[c].sim)
       /\ (\A d \in Docs : docs'[d].lane = docs[d].lane) /\ retyped' \in [Queries -> SUBSET Docs]
    BY <1>2 DEF RetrievalTypeOK
<1>13. \A r \in Queries : StillAdmitted(r)
    BY <1>2 DEF StillAdmitted
<1>14. \A r \in Queries : Len(query'[r].result) <= Limit
    BY <1>2, <1>4, <1>5 DEF RetrievalTypeOK
<1>15. \A m \in Memories : memories'[m].lane = memories[m].lane /\ memories'[m].sim = memories[m].sim
    BY <1>8
<1> QED
    BY <1>5, <1>9, <1>10, <1>11, <1>12, <1>13, <1>14, <1>15, RowsMove

(* What the rest of the system does meanwhile, to memories and chunks and to *)
(* documents.                                                                *)
LEMMA MemoryChange ==
    ASSUME RetrievalTypeOK, NEW k \in Memories,
           \/ memories' = [memories EXCEPT ![k].active = FALSE]
           \/ memories' = [memories EXCEPT ![k].recent = FALSE]
           \/ \E d \in Dimensions : memories' = [memories EXCEPT ![k].dims = d]
    PROVE  /\ memories' \in [Memories -> MemoryRow]
           /\ \A m \in Memories : /\ memories'[m].lane = memories[m].lane /\ memories'[m].sim = memories[m].sim
                                  /\ memories'[m].uses = memories[m].uses
<1>1. PICK old \in MemoryRow : old = memories[k]
    BY RetrievalFacts
<1>2. CASE memories' = [memories EXCEPT ![k].active = FALSE] \/ memories' = [memories EXCEPT ![k].recent = FALSE]
  <2>1. PICK new : /\ memories' = [memories EXCEPT ![k] = new]
                   /\ new = [old EXCEPT !.active = FALSE] \/ new = [old EXCEPT !.recent = FALSE]
    BY <1>1, <1>2
  <2>2. new \in MemoryRow /\ new.lane = old.lane /\ new.sim = old.sim /\ new.uses = old.uses
    BY <2>1 DEF MemoryRow
  <2> QED
    BY <1>1, <2>1, <2>2 DEF RetrievalTypeOK
<1>3. CASE \E d \in Dimensions : memories' = [memories EXCEPT ![k].dims = d]
  <2>1. PICK d \in Dims : memories' = [memories EXCEPT ![k].dims = d]
    BY <1>3 DEF Dims
  <2>2. PICK new : memories' = [memories EXCEPT ![k] = new] /\ new = [old EXCEPT !.dims = d]
    BY <1>1, <2>1
  <2>3. new \in MemoryRow /\ new.lane = old.lane /\ new.sim = old.sim /\ new.uses = old.uses
    BY <2>2 DEF MemoryRow
  <2> QED
    BY <1>1, <2>2, <2>3 DEF RetrievalTypeOK
<1> QED
    BY <1>2, <1>3

LEMMA ChunkChange ==
    ASSUME RetrievalTypeOK, NEW k \in Chunks, SetChunkEmbedding(k)
    PROVE  /\ chunks' \in [Chunks -> ChunkRow]
           /\ \A c \in Chunks : chunks'[c].doc = chunks[c].doc /\ chunks'[c].sim = chunks[c].sim
<1>1. PICK old \in ChunkRow : old = chunks[k]
    BY RetrievalFacts
<1>2. PICK d \in Dims, ann \in BOOLEAN : chunks' = [chunks EXCEPT ![k] = [old EXCEPT !.dims = d, !.ann = ann]]
  <2>1. PICK d \in Dimensions : chunks' = [chunks EXCEPT ![k].dims = d, ![k].ann = @ \/ d = AnnDimensions]
    BY DEF SetChunkEmbedding
  <2>2. PICK ann \in BOOLEAN : ann = (old.ann \/ d = AnnDimensions)
    OBVIOUS
  <2>3. chunks' = [chunks EXCEPT ![k] = [old EXCEPT !.dims = d, !.ann = ann]]
    BY <1>1, <2>1, <2>2 DEF RetrievalTypeOK
  <2> QED
    BY <2>3 DEF Dims
<1>3. PICK new : new = [old EXCEPT !.dims = d, !.ann = ann]
    OBVIOUS
<1>4. new \in ChunkRow /\ new.doc = old.doc /\ new.sim = old.sim
    BY <1>3 DEF ChunkRow
<1> QED
    BY <1>1, <1>2, <1>3, <1>4 DEF RetrievalTypeOK

(* A document changes, in its readiness, its run or its match.               *)
LEMMA DocumentRows ==
    ASSUME RetrievalTypeOK, NEW k \in Docs, NEW b \in BOOLEAN,
           \/ docs' = [docs EXCEPT ![k].ready = FALSE]
           \/ docs' = [docs EXCEPT ![k].ready = FALSE, ![k].run = TRUE]
           \/ docs' = [docs EXCEPT ![k].ready = b, ![k].run = FALSE]
           \/ docs' = [docs EXCEPT ![k].matches = b]
    PROVE  /\ docs' \in [Docs -> DocRow] /\ \A d \in Docs : docs'[d].lane = docs[d].lane
           /\ \A d \in Docs \ {k} : docs'[d] = docs[d]
           /\ docs' # [docs EXCEPT ![k].matches = b] => docs'[k].matches = docs[k].matches
           /\ docs' = [docs EXCEPT ![k].matches = b] => docs'[k].matches = b
<1>1. PICK old \in DocRow : old = docs[k]
    BY RetrievalFacts
<1>2. PICK new : /\ docs' = [docs EXCEPT ![k] = new]
                 /\ \/ new = [old EXCEPT !.ready = FALSE]
                    \/ new = [old EXCEPT !.ready = FALSE, !.run = TRUE]
                    \/ new = [old EXCEPT !.ready = b, !.run = FALSE]
                    \/ new = [old EXCEPT !.matches = b]
  <2>1. docs \in [Docs -> DocRow]
    BY DEF RetrievalTypeOK
  <2>2. CASE docs' = [docs EXCEPT ![k].ready = FALSE]
    BY <1>1, <2>2
  <2>3. CASE docs' = [docs EXCEPT ![k].ready = FALSE, ![k].run = TRUE]
    <3>1. docs' = [docs EXCEPT ![k] = [old EXCEPT !.ready = FALSE, !.run = TRUE]]
      BY <1>1, <2>1, <2>3
    <3> QED
      BY <3>1
  <2>4. CASE docs' = [docs EXCEPT ![k].ready = b, ![k].run = FALSE]
    <3>1. docs' = [docs EXCEPT ![k] = [old EXCEPT !.ready = b, !.run = FALSE]]
      BY <1>1, <2>1, <2>4
    <3> QED
      BY <3>1
  <2>5. CASE docs' = [docs EXCEPT ![k].matches = b]
    BY <1>1, <2>5
  <2> QED
    BY <2>2, <2>3, <2>4, <2>5
<1>3. new \in DocRow /\ new.lane = old.lane
    BY <1>2 DEF DocRow
<1>4. docs' \in [Docs -> DocRow] /\ docs'[k] = new /\ \A d \in Docs \ {k} : docs'[d] = docs[d]
    BY <1>2, <1>3 DEF RetrievalTypeOK
<1>5. docs' = [docs EXCEPT ![k].matches = b] => docs'[k].matches = b
    BY <1>1 DEF RetrievalTypeOK, DocRow
<1>6. docs' # [docs EXCEPT ![k].matches = b] => new.matches = old.matches
  <2>1. new = [old EXCEPT !.matches = b] => docs' = [docs EXCEPT ![k].matches = b]
    BY <1>1, <1>2
  <2>2. \/ new.matches = old.matches \/ new = [old EXCEPT !.matches = b]
    BY <1>2 DEF DocRow
  <2> QED
    BY <2>1, <2>2
<1> QED
    BY <1>1, <1>3, <1>4, <1>5, <1>6

(* Nothing a retrieval has changes but the documents it knows classified.    *)
LEMMA AroundQueries ==
    ASSUME RetrievalTypeOK, RetrievalInv, query' = query, changes' \in 0..MaxChanges,
           memories' \in [Memories -> MemoryRow], chunks' \in [Chunks -> ChunkRow], docs' \in [Docs -> DocRow],
           \A m \in Memories : /\ memories'[m].lane = memories[m].lane /\ memories'[m].sim = memories[m].sim
                               /\ memories'[m].uses = memories[m].uses,
           \A c \in Chunks : chunks'[c].doc = chunks[c].doc /\ chunks'[c].sim = chunks[c].sim,
           \A d \in Docs : docs'[d].lane = docs[d].lane,
           retyped' \in [Queries -> SUBSET Docs], \A r \in Queries : StillAdmitted(r)
    PROVE  RetrievalTypeOK' /\ RetrievalInv'
<1>1. /\ query' \in [Queries -> Lookup]
      /\ \A r \in Queries : AnswerOK(query'[r], retyped[r], memories, chunks, docs) /\ Len(query'[r].result) <= Limit
    BY AnswersOK DEF RetrievalTypeOK
<1>2. \A m \in Memories : memories'[m].uses = Cardinality(UsedBy(query', m))
    BY AnswersOK
<1> QED
    BY <1>1, <1>2, RowsMove

LEMMA ChangeStep ==
    ASSUME RetrievalTypeOK, RetrievalInv,
           \/ \E m \in Memories : SetEmbedding(m) \/ MemoryAges(m)
           \/ \E c \in Chunks : SetChunkEmbedding(c)
           \/ \E d \in Docs : DocumentChanges(d) \/ Reclassify(d) \/ Indexed(d)
    PROVE  RetrievalTypeOK' /\ RetrievalInv'
<1>1. query' = query /\ changes' \in 0..MaxChanges
  <2>1. changes \in 0..MaxChanges /\ MaxChanges \in Nat
    BY RetrievalConstants DEF RetrievalTypeOK
  <2>2. Change \/ UNCHANGED <<query, changes>>
    BY DEF SetEmbedding, MemoryAges, SetChunkEmbedding, DocumentChanges, Reclassify, Indexed
  <2> QED
    BY <2>1, <2>2 DEF Change
<1>2. memories \in [Memories -> MemoryRow] /\ chunks \in [Chunks -> ChunkRow] /\ docs \in [Docs -> DocRow]
      /\ retyped \in [Queries -> SUBSET Docs]
    BY DEF RetrievalTypeOK
<1>3. ASSUME NEW m \in Memories, SetEmbedding(m) \/ MemoryAges(m) PROVE RetrievalTypeOK' /\ RetrievalInv'
  <2>1. UNCHANGED <<chunks, docs, retyped>>
    BY <1>3 DEF SetEmbedding, MemoryAges, Change
  <2>2. /\ memories' \in [Memories -> MemoryRow]
        /\ \A k \in Memories : /\ memories'[k].lane = memories[k].lane /\ memories'[k].sim = memories[k].sim
                               /\ memories'[k].uses = memories[k].uses
    BY <1>3, MemoryChange DEF SetEmbedding, MemoryAges
  <2>3. \A r \in Queries : StillAdmitted(r)
    BY <2>1 DEF StillAdmitted
  <2> QED
    BY <1>1, <1>2, <2>1, <2>2, <2>3, AroundQueries
<1>4. ASSUME NEW c \in Chunks, SetChunkEmbedding(c) PROVE RetrievalTypeOK' /\ RetrievalInv'
  <2>1. UNCHANGED <<memories, docs, retyped>>
    BY <1>4 DEF SetChunkEmbedding, Change
  <2>2. /\ chunks' \in [Chunks -> ChunkRow]
        /\ \A k \in Chunks : chunks'[k].doc = chunks[k].doc /\ chunks'[k].sim = chunks[k].sim
    BY <1>4, ChunkChange
  <2>3. \A r \in Queries : StillAdmitted(r)
    BY <2>1 DEF StillAdmitted
  <2> QED
    BY <1>1, <1>2, <2>1, <2>2, <2>3, AroundQueries
<1>5. ASSUME NEW d \in Docs, DocumentChanges(d) \/ Indexed(d) PROVE RetrievalTypeOK' /\ RetrievalInv'
  <2>1. UNCHANGED <<memories, chunks, retyped>>
    BY <1>5 DEF DocumentChanges, Indexed, Change
  <2>2. PICK b \in BOOLEAN :
          \/ docs' = [docs EXCEPT ![d].ready = FALSE]
          \/ docs' = [docs EXCEPT ![d].ready = FALSE, ![d].run = TRUE]
          \/ docs' = [docs EXCEPT ![d].ready = b, ![d].run = FALSE]
          \/ b = TRUE /\ docs' = [docs EXCEPT ![d].matches = b]
    BY <1>5 DEF DocumentChanges, Indexed
  <2>3. /\ docs' \in [Docs -> DocRow] /\ \A k \in Docs : docs'[k].lane = docs[k].lane
        /\ \A k \in Docs \ {d} : docs'[k] = docs[k]
        /\ docs' # [docs EXCEPT ![d].matches = b] => docs'[d].matches = docs[d].matches
        /\ docs' = [docs EXCEPT ![d].matches = b] => docs'[d].matches = b
    BY <2>2, DocumentRows
  <2>4. docs[d].matches => docs'[d].matches
    <3>1. CASE docs' = [docs EXCEPT ![d].matches = b]
      <4>1. CASE b = TRUE
        BY <2>3, <3>1, <4>1
      <4>2. CASE b = FALSE
        <5>1. \/ docs' = [docs EXCEPT ![d].ready = FALSE]
              \/ docs' = [docs EXCEPT ![d].ready = FALSE, ![d].run = TRUE]
              \/ docs' = [docs EXCEPT ![d].ready = b, ![d].run = FALSE]
          BY <2>2, <4>2
        <5>2. docs'[d].matches = docs[d].matches
          BY <1>2, <5>1 DEF DocRow
        <5> QED
          BY <5>2
      <4> QED
        BY <4>1, <4>2
    <3>2. CASE docs' # [docs EXCEPT ![d].matches = b]
      BY <2>3, <3>2
    <3> QED
      BY <3>1, <3>2
  <2>5. \A r \in Queries : StillAdmitted(r)
    BY <2>1, <2>3, <2>4 DEF StillAdmitted
  <2> QED
    BY <1>1, <1>2, <2>1, <2>3, <2>5, AroundQueries
<1>6. ASSUME NEW d \in Docs, Reclassify(d) PROVE RetrievalTypeOK' /\ RetrievalInv'
  <2>1. UNCHANGED <<memories, chunks>>
    BY <1>6 DEF Reclassify
  <2>2. PICK b \in BOOLEAN : docs' = [docs EXCEPT ![d].matches = b]
    BY <1>6 DEF Reclassify
  <2>3. /\ docs' \in [Docs -> DocRow] /\ \A k \in Docs : docs'[k].lane = docs[k].lane
        /\ \A k \in Docs \ {d} : docs'[k] = docs[k]
    BY <2>2, DocumentRows
  <2>4. /\ retyped' \in [Queries -> SUBSET Docs]
        /\ \A r \in Queries : /\ retyped[r] \subseteq retyped'[r]
                              /\ query[r].pc \notin {"idle", "filter"} => d \in retyped'[r]
    BY <1>2, <1>6 DEF Reclassify
  <2>5. \A r \in Queries : StillAdmitted(r)
    BY <1>1, <2>3, <2>4 DEF StillAdmitted
  <2> QED
    BY <1>1, <1>2, <2>1, <2>3, <2>4, <2>5, AroundQueries
<1> QED
    BY <1>3, <1>4, <1>5, <1>6

LEMMA RetrievalStep == RetrievalTypeOK /\ RetrievalInv /\ [RetrievalNext]_retrievalVars => (RetrievalTypeOK /\ RetrievalInv)'
<1> SUFFICES ASSUME RetrievalTypeOK, RetrievalInv, [RetrievalNext]_retrievalVars PROVE RetrievalTypeOK' /\ RetrievalInv'
    OBVIOUS
<1>1. CASE UNCHANGED retrievalVars
  <2>1. memories' = memories /\ chunks' = chunks /\ docs' = docs /\ query' = query /\ changes' = changes
        /\ retyped' = retyped
    BY <1>1 DEF retrievalVars
  <2>2. \A r \in Queries : StillAdmitted(r)
    BY <2>1 DEF StillAdmitted
  <2> QED
    BY <2>1, <2>2, AroundQueries DEF RetrievalTypeOK
<1>2. ASSUME NEW q \in Queries,
             \/ Retrieve(q) \/ CandidateDocumentIds(q) \/ EmbedQuery(q) \/ SearchMemories(q)
             \/ MemoriesByText(q) \/ RecordAccess(q) \/ SearchChunks(q) \/ ChunksByText(q)
      PROVE  RetrievalTypeOK' /\ RetrievalInv'
    BY <1>2, RetrieveStep, FilterStep, EmbedStep, SearchMemoriesStep, MemoriesByTextStep, RecordAccessStep,
       SearchChunksStep, ChunksByTextStep
<1> QED
    BY <1>1, <1>2, ChangeStep DEF RetrievalNext

(* A memory compared and left out is no nearer than one handed out: of two   *)
(* answers over the same memories, each says so of the other.                *)
LEMMA NothingIn == RetrievalTypeOK /\ RetrievalInv => UseBringsNothingIn
<1> SUFFICES ASSUME RetrievalTypeOK, RetrievalInv, NEW q \in Queries, NEW r \in Queries,
                    query[q].mode = "semantic", query[q].of = "memories",
                    query[r].mode = "semantic", query[r].of = "memories", query[q].seen = query[r].seen,
                    NEW m \in Handed(query[q].result) \ Handed(query[r].result),
                    NEW n \in Handed(query[r].result) \ Handed(query[q].result)
             PROVE  memories[m].sim = memories[n].sim
    BY DEF UseBringsNothingIn
<1>1. PICK x, y : x = query[q] /\ y = query[r]
    OBVIOUS
<1>2. AnswerOK(x, retyped[q], memories, chunks, docs) /\ AnswerOK(y, retyped[r], memories, chunks, docs)
    BY <1>1, AnswersOK
<1>3. m \in x.seen /\ n \in y.seen /\ m \in Memories /\ n \in Memories
    BY <1>1, <1>2 DEF AnswerOK
<1>4. PICK i \in DOMAIN x.result, j \in DOMAIN y.result : m = x.result[i] /\ n = y.result[j]
    BY <1>1 DEF Handed
<1>5. memories[m].sim >= memories[n].sim
    BY <1>1, <1>2, <1>3, <1>4 DEF AnswerOK
<1>6. memories[n].sim >= memories[m].sim
    BY <1>1, <1>2, <1>3, <1>4 DEF AnswerOK
<1>7. memories[m].sim \in Int /\ memories[n].sim \in Int
    BY <1>3, RetrievalFacts
<1> QED
    BY <1>5, <1>6, <1>7

(* RetrievalSafe: whatever is embedded, archived, classified again or asked  *)
(* meanwhile, nothing of another lane is handed out and nothing that did not *)
(* pass the filter, and a document that no longer meets it was classified    *)
(* since; every use of a memory is counted once; what is found by its vector *)
(* is the nearest of what was compared, and two answers over the same        *)
(* memories differ only in memories equally near.                            *)
THEOREM RetrievedRight == RetrievalSpec => []RetrievalSafe
<1>1. RetrievalInit => RetrievalTypeOK /\ RetrievalInv
  <2> SUFFICES ASSUME RetrievalInit PROVE RetrievalTypeOK /\ RetrievalInv
    OBVIOUS
  <2> DEFINE x == NoQuery
  <2>1. /\ x \in Lookup /\ x.pc = "idle" /\ x.filtered = FALSE /\ x.mode = "none" /\ x.result = <<>> /\ x.seen = {}
    <3>1. <<>> \in Listings /\ 0 \in Dims /\ "none" \in Modes /\ "idle" \in Phases /\ "memories" \in Kinds /\ "personal" \in Lanes
      BY DEF Listings, Dims, Modes, Phases, Kinds, Lanes
    <3> QED
      BY <3>1 DEF NoQuery, Lookup
  <2> HIDE DEF x
  <2>2. query = [q \in Queries |-> x]
    BY DEF RetrievalInit, x
  <2>3. \A m \in Memories : memories[m].uses = 0 /\ Cardinality(UsedBy(query, m)) = 0
    <3>1. \A m \in Memories : UsedBy(query, m) = {}
      BY <2>1, <2>2 DEF UsedBy
    <3> QED
      BY <3>1, FS_EmptySet, RetrievalConstants DEF RetrievalInit
  <2>4. RetrievalTypeOK
    <3>1. Cardinality(Queries) \in Nat /\ Len(<<>>) = 0
      BY RetrievalConstants, FS_CardinalityType, EmptySeq
    <3>2. \A m \in Memories : memories[m].uses <= Cardinality(Queries)
      BY <2>3, <3>1
    <3>3. \A q \in Queries : query[q] \in Lookup /\ Len(query[q].result) <= Limit
      BY <2>1, <2>2, <3>1, RetrievalConstants
    <3> QED
      BY <2>2, <3>2, <3>3, RetrievalConstants DEF RetrievalInit, RetrievalTypeOK
  <2>5. \A q \in Queries : AnswerOK(x, retyped[q], memories, chunks, docs)
    BY <2>1, NothingYet
  <2>6. UsesCounted
    BY <2>3, AnswersOK
  <2> QED
    BY <2>2, <2>4, <2>5, <2>6, AnswersOK
<1>2. RetrievalTypeOK /\ RetrievalInv => RetrievalSafe
    BY NothingIn DEF RetrievalInv, RetrievalSafe
<1> QED
    BY <1>1, <1>2, RetrievalStep, PTL DEF RetrievalSpec
====
