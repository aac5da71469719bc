-------------------------- MODULE ConversationProofs --------------------------
(***************************************************************************)
(* Proofs about Conversation, for any number of turns, professional spaces *)
(* and failures and any limits of the history and the summaries.           *)
(***************************************************************************)
EXTENDS Conversation, FiniteSetTheorems, SequenceTheorems, TLAPS

IInv == TypeOK /\ ConversationInv

-------------------------------------------------------------------------------
(* Data *)

(* A finite set of numbers has a largest one: otherwise each number would   *)
(* have fewer below it than there are numbers, and two numbers as many.     *)
LEMMA MaxProperties ==
    ASSUME NEW S \in SUBSET Int, IsFiniteSet(S), S # {}
    PROVE  Max(S) \in S /\ \A x \in S : Max(S) >= x
<1> DEFINE Below(x) == {y \in S : y <= x}
           rank == [x \in S |-> Cardinality(Below(x))]
<1>1. \A x \in S : IsFiniteSet(Below(x)) /\ Cardinality(Below(x)) \in Nat /\ Cardinality(Below(x)) # 0
  <2> SUFFICES ASSUME NEW x \in S
               PROVE  IsFiniteSet(Below(x)) /\ Cardinality(Below(x)) \in Nat /\ Cardinality(Below(x)) # 0
    OBVIOUS
  <2>1. Below(x) \in SUBSET S /\ x \in Below(x)
    OBVIOUS
  <2> HIDE DEF Below
  <2>2. IsFiniteSet(Below(x))
    BY <2>1, FS_Subset
  <2> QED
    BY <2>1, <2>2, FS_CardinalityType, FS_EmptySet
<1>2. \A x, y \in S : x < y => Cardinality(Below(x)) # Cardinality(Below(y))
  <2> SUFFICES ASSUME NEW x \in S, NEW y \in S, x < y PROVE Cardinality(Below(x)) # Cardinality(Below(y))
    OBVIOUS
  <2>1. /\ \A z \in Below(x) : z \in Below(y)
        /\ y \in Below(y) /\ y \notin Below(x)
    <3>1. x \in Int /\ y \in Int /\ \A z \in S : z \in Int
      OBVIOUS
    <3> QED
      BY <3>1
  <2>2. IsFiniteSet(Below(y))
    BY <1>1
  <2> HIDE DEF Below
  <2>3. Cardinality(Below(y)) = Cardinality(Below(x)) => Below(y) = Below(x)
    BY <2>1, <2>2, FS_Subset
  <2> QED
    BY <2>1, <2>3
<1>3. \E m \in S : \A x \in S : m >= x
  <2> SUFFICES ASSUME \A m \in S : \E x \in S : x > m PROVE FALSE
    OBVIOUS
  <2>1. Cardinality(S) \in Nat /\ Cardinality(S) # 0
    BY FS_CardinalityType, FS_EmptySet
  <2>2. \A x \in S : Cardinality(Below(x)) < Cardinality(S)
    <3> SUFFICES ASSUME NEW x \in S PROVE Cardinality(Below(x)) < Cardinality(S)
      OBVIOUS
    <3>1. PICK y \in S : y > x
      OBVIOUS
    <3>2. Below(x) \in SUBSET S /\ y \notin Below(x)
      BY <3>1
    <3> HIDE DEF Below
    <3>3. Cardinality(Below(x)) <= Cardinality(S) /\ Cardinality(Below(x)) # Cardinality(S)
      BY <3>1, <3>2, FS_Subset
    <3> QED
      BY <3>3, <1>1, <2>1
  <2>3. rank \in [S -> 1..(Cardinality(S) - 1)]
    <3>1. \A x \in S : Cardinality(Below(x)) \in 1..(Cardinality(S) - 1)
      <4> HIDE DEF Below
      <4> QED
        BY <1>1, <2>1, <2>2
    <3> HIDE DEF Below
    <3> QED
      BY <3>1
  <2>4. /\ IsFiniteSet(1..(Cardinality(S) - 1))
        /\ Cardinality(1..(Cardinality(S) - 1)) < Cardinality(S)
    <3> DEFINE n == Cardinality(S) - 1
    <3>1. n \in Int /\ 1 \in Int /\ n < Cardinality(S) /\ n >= 0
      BY <2>1
    <3> HIDE DEF n
    <3>2. IsFiniteSet(1..n) /\ Cardinality(1..n) = IF 1 > n THEN 0 ELSE n - 1 + 1
      BY <3>1, FS_Interval
    <3>3. Cardinality(1..n) = n
      BY <3>1, <3>2
    <3> QED
      BY <3>1, <3>2, <3>3 DEF n
  <2>5. PICK x, y \in S : x # y /\ rank[x] = rank[y]
    <3> HIDE DEF rank
    <3> QED
      BY <2>3, <2>4, FS_PigeonHole
  <2>6. Cardinality(Below(x)) = Cardinality(Below(y))
    BY <2>5
  <2> HIDE DEF Below, rank
  <2> QED
    BY <1>2, <2>5, <2>6
<1> HIDE DEF Below, rank
<1> QED
  BY <1>3 DEF Max

(* The scopes and lanes are what they look like.                            *)
LEMMA LaneFacts ==
    /\ \A l \in Lanes : /\ l.scope \in Scopes /\ l # NoLane
                        /\ l # Neutral("direct") /\ l # Neutral("hybrid")
    /\ NoLane # Neutral("direct") /\ NoLane # Neutral("hybrid") /\ Neutral("direct") # Neutral("hybrid")
    /\ NoLane.scope = "none" /\ Neutral("direct").scope = "direct" /\ Neutral("hybrid").scope = "hybrid"
<1>1. \A l \in Lanes : l.scope \in Scopes
  BY DEF Lanes, Scopes
<1>2. /\ NoLane.scope = "none" /\ Neutral("direct").scope = "direct" /\ Neutral("hybrid").scope = "hybrid"
  BY DEF NoLane, Neutral
<1>3. /\ \A l \in Lanes : l.scope # "none" /\ l.scope # "direct" /\ l.scope # "hybrid"
  BY <1>1 DEF Scopes
<1> QED
  BY <1>1, <1>2, <1>3

(* The lane of a conversation is one, if it has any.                        *)
LEMMA ActiveScopeType ==
    ASSUME TypeOK
    PROVE  ActiveScope \in Lanes \union {NoLane}
<1> DEFINE scoped == {i \in DOMAIN msgs : msgs[i].role = "user" /\ msgs[i].lane.scope \in Scopes}
<1>1. CASE scoped = {}
  BY <1>1 DEF ActiveScope
<1>2. CASE scoped # {}
  <2>1. msgs \in Seq(Row) /\ Len(msgs) \in Nat /\ DOMAIN msgs = 1..Len(msgs)
    BY LenProperties DEF TypeOK
  <2>2. scoped \in SUBSET (1..Len(msgs)) /\ scoped \in SUBSET Int
    BY <2>1
  <2>3. IsFiniteSet(scoped)
    <3>1. 1 \in Int /\ Len(msgs) \in Int
      BY <2>1
    <3>2. IsFiniteSet(1..Len(msgs))
      BY <3>1, FS_Interval
    <3> HIDE DEF scoped
    <3> QED
      BY <2>2, <3>2, FS_Subset
  <2>4. Max(scoped) \in scoped
    <3> HIDE DEF scoped
    <3> QED
      BY <1>2, <2>2, <2>3, MaxProperties
  <2>5. PICK i \in 1..Len(msgs) : i = Max(scoped) /\ msgs[i].lane.scope \in Scopes
    BY <2>1, <2>4
  <2>6. msgs[i] \in Row
    BY <2>1, ElementOfSeq
  <2>7. msgs[i].lane \in Lanes \union {Neutral("direct"), Neutral("hybrid")}
    BY <2>6 DEF Row
  <2>8. msgs[i].lane \in Lanes
    BY <2>5, <2>7, LaneFacts DEF Scopes
  <2>9. ActiveScope = msgs[i].lane
    BY <1>2, <2>5 DEF ActiveScope
  <2> QED
    BY <2>8, <2>9
<1> QED
  BY <1>1, <1>2

(* What the agents of a scope can see was generated from that scope.        *)
LEMMA VisibleIsClean ==
    ASSUME TypeOK, KnowledgeInv, NEW s \in Scopes, NEW i \in Visible(s)
    PROVE  msgs[i].knows \subseteq {s}
<1>1. msgs \in Seq(Row) /\ i \in 1..Len(msgs) /\ msgs[i].lane.scope \in {s, "direct"} /\ Clean(msgs[i])
  BY LenProperties DEF TypeOK, Visible, KnowledgeInv
<1>2. msgs[i] \in Row
  BY <1>1, ElementOfSeq
<1>3. msgs[i].lane \in Lanes \union {Neutral("direct"), Neutral("hybrid")}
  BY <1>2 DEF Row
<1> QED
  BY <1>1, <1>3, LaneFacts DEF Clean, Scopes

-------------------------------------------------------------------------------
(* Rows that stay *)

RowsKept ==
    /\ DOMAIN msgs \subseteq DOMAIN msgs'
    /\ \A i \in DOMAIN msgs : /\ msgs'[i].turn = msgs[i].turn /\ msgs'[i].role = msgs[i].role
                              /\ msgs'[i].lane = msgs[i].lane

(* What the code writes on behalf of turn t concerns no other turn.         *)
OnlyTurn(t) ==
    \A u \in Turns \ {t} : /\ turn'[u] = turn[u] /\ (u \in extracts' <=> u \in extracts)
                           /\ \A s \in Scopes : <<u, s>> \in pending' <=> <<u, s>> \in pending

LEMMA ExchangesStay ==
    ASSUME RowsKept, NEW t, NEW l, Exchange(t, l)
    PROVE  Exchange(t, l)'
BY DEF RowsKept, Exchange, UserRow

LEMMA TracksStay ==
    ASSUME RowsKept, NEW u \in Turns, TrackInv(u), turn'[u] = turn[u], u \in extracts' <=> u \in extracts,
           \A s \in Scopes : <<u, s>> \in pending' <=> <<u, s>> \in pending
    PROVE  TrackInv(u)'
<1>1. Returned(u)' <=> Returned(u)
  BY DEF Returned
<1>2. \A l : Exchange(u, l) => Exchange(u, l)'
  BY ExchangesStay
<1>3. \A l : (\E i \in DOMAIN msgs : UserRow(u, l, i)) => (\E i \in DOMAIN msgs : UserRow(u, l, i))'
  BY DEF RowsKept, UserRow
<1> QED
  BY <1>1, <1>2, <1>3 DEF TrackInv

LEMMA OthersStay ==
    ASSUME IInv, NEW t \in Turns, OnlyTurn(t), RowsKept, PartInv(turn'[t]), TrackInv(t)'
    PROVE  (\A u \in Turns : PartInv(turn[u]) /\ TrackInv(u))'
<1> SUFFICES ASSUME NEW u \in Turns PROVE PartInv(turn'[u]) /\ TrackInv(u)'
  OBVIOUS
<1>1. CASE u = t
  BY <1>1
<1>2. CASE u # t
  BY <1>2, TracksStay DEF IInv, ConversationInv, OnlyTurn
<1> QED
  BY <1>1, <1>2

-------------------------------------------------------------------------------
(* Steps of one turn *)

(* A step of a turn that writes no row and touches no summary is judged by  *)
(* the turn alone.                                                          *)
LEMMA TurnStep ==
    ASSUME IInv, NEW t \in Turns, OnlyTurn(t), turn' \in [Turns -> Handling],
           turn'[t].ctx.rows \subseteq DOMAIN msgs, PartInv(turn'[t]), TrackInv(t)',
           msgs' = msgs, summary' = summary, worker' = worker,
           jobs' \in Seq(Lanes), worker.busy => jobs' # <<>>,
           title' \in Turns \union {NoTurn}, recorded' \subseteq Turns, pending' \subseteq Turns \X Scopes,
           extracts' \subseteq Turns, faults' \in 0..MaxFaults
    PROVE  IInv'
<1>1. RowsKept
  BY DEF RowsKept
<1>2. (\A u \in Turns : PartInv(turn[u]) /\ TrackInv(u))'
  BY <1>1, OthersStay
<1>3. TypeOK'
  <2>1. \A u \in Turns : turn'[u].ctx.rows \subseteq DOMAIN msgs
    BY DEF OnlyTurn, IInv, TypeOK
  <2> QED
    BY <2>1 DEF IInv, TypeOK
<1>4. KnowledgeInv'
  BY DEF IInv, ConversationInv, KnowledgeInv
<1>5. /\ \A s : Visible(s)' = Visible(s)
      /\ \A l, from, to : Between(l, from, to)' = Between(l, from, to)
  BY DEF Visible, Between
<1>6. WorkerInv' /\ SummaryCountsOnce'
  BY <1>5 DEF IInv, ConversationInv, WorkerInv, SummaryCountsOnce
<1> QED
  BY <1>2, <1>3, <1>4, <1>6 DEF IInv, ConversationInv

(* A turn on its way between its two rows stays behind the first one.       *)
LEMMA StillAccepted ==
    ASSUME IInv, NEW t \in Turns, turn[t].pc \in Accepted, turn'[t].pc \in Accepted,
           turn'[t].lane = turn[t].lane, msgs' = msgs, extracts' = extracts
    PROVE  TrackInv(t)'
<1>1. TrackInv(t)
  BY DEF IInv, ConversationInv
<1>2. \A l, i : UserRow(t, l, i)' <=> UserRow(t, l, i)
  BY DEF UserRow
<1>3. turn'[t].pc \notin {"record", "title", "extract"} /\ t \notin extracts
  BY <1>1 DEF TrackInv, Accepted, Working
<1>4. (\E i \in DOMAIN msgs : UserRow(t, turn[t].lane, i))'
  BY <1>1, <1>2 DEF TrackInv
<1> QED
  BY <1>3, <1>4 DEF TrackInv

LEMMA GotoFacts ==
    ASSUME turn \in [Turns -> Handling], NEW t \in Turns, NEW pc \in Steps, Goto(t, pc)
    PROVE  /\ turn' \in [Turns -> Handling] /\ turn'[t].pc = pc /\ turn'[t].lane = turn[t].lane
           /\ turn'[t].part = turn[t].part /\ turn'[t].rest = turn[t].rest /\ turn'[t].ctx = turn[t].ctx
           /\ turn'[t].knows = turn[t].knows /\ turn'[t].untitled = turn[t].untitled
           /\ \A u \in Turns \ {t} : turn'[u] = turn[u]
<1>1. PICK h : h = turn[t]
  OBVIOUS
<1>2. h \in Handling
  BY <1>1
<1>3. [h EXCEPT !.pc = pc] \in Handling
  BY <1>2 DEF Handling
<1>4. turn' = [turn EXCEPT ![t] = [h EXCEPT !.pc = pc]]
  BY <1>1 DEF Goto
<1> HIDE DEF Handling
<1>5. turn' \in [Turns -> Handling] /\ turn'[t] = [h EXCEPT !.pc = pc] /\ \A u \in Turns \ {t} : turn'[u] = turn[u]
  BY <1>3, <1>4
<1> QED
  BY <1>1, <1>2, <1>5 DEF Handling

LEMMA BeginStep ==
    ASSUME IInv, NEW t \in Turns, Begin(t)
    PROVE  IInv'
<1>1. PICK h : h = turn[t]
  OBVIOUS
<1>2. PICK b : b = (title = NoTurn)
  OBVIOUS
<1>3. h \in Handling /\ h.pc = "idle" /\ PartInv(h) /\ TrackInv(t) /\ b \in BOOLEAN
  BY <1>1, <1>2 DEF IInv, TypeOK, ConversationInv, Begin
<1> DEFINE g == [h EXCEPT !.pc = "route", !.untitled = b]
<1>4. /\ g \in Handling /\ g.pc = "route" /\ g.lane = h.lane /\ g.rest = h.rest /\ g.knows = h.knows
      /\ g.ctx = h.ctx
  BY <1>3 DEF Handling, Steps
<1>5. turn' = [turn EXCEPT ![t] = g]
  BY <1>1, <1>2 DEF Begin
<1> HIDE DEF g
<1>6. turn' \in [Turns -> Handling] /\ turn'[t] = g /\ \A u \in Turns \ {t} : turn'[u] = turn[u]
  BY <1>4, <1>5 DEF IInv, TypeOK
<1>7. PartInv(turn'[t])
  BY <1>3, <1>4, <1>6 DEF PartInv, Working
<1>8. TrackInv(t)'
  BY <1>1, <1>3, <1>4, <1>6 DEF TrackInv, Accepted, Working, Begin
<1>9. turn'[t].ctx.rows \subseteq DOMAIN msgs
  BY <1>1, <1>4, <1>6 DEF IInv, TypeOK
<1>10. OnlyTurn(t)
  BY <1>6 DEF OnlyTurn, Begin
<1> QED
  BY <1>6, <1>7, <1>8, <1>9, <1>10, TurnStep DEF Begin, IInv, TypeOK, ConversationInv, WorkerInv

LEMMA RouteStep ==
    ASSUME IInv, NEW t \in Turns, NEW d \in Decisions, Route(t, d)
    PROVE  IInv'
<1>1. PICK h : h = turn[t]
  OBVIOUS
<1>2. PICK l : l = Continued(d)
  OBVIOUS
<1>3. h \in Handling /\ h.pc = "route" /\ PartInv(h) /\ TrackInv(t)
  BY <1>1 DEF IInv, TypeOK, ConversationInv, Route
<1>4. l \in Lanes \union {Neutral("direct"), Neutral("hybrid")}
  <2>1. d.lane \in Lanes \union {Neutral("direct"), Neutral("hybrid")}
    BY DEF Decisions
  <2>2. ActiveScope \in Lanes \union {NoLane}
    BY ActiveScopeType DEF IInv
  <2> QED
    BY <1>2, <2>1, <2>2 DEF Continued
<1> DEFINE g == [h EXCEPT !.pc = "save", !.lane = l]
<1>5. /\ g \in Handling /\ g.pc = "save" /\ g.lane = l /\ g.rest = h.rest /\ g.knows = h.knows
      /\ g.ctx = h.ctx
  BY <1>3, <1>4 DEF Handling, Steps
<1>6. turn' = [turn EXCEPT ![t] = g]
  BY <1>1, <1>2 DEF Route
<1> HIDE DEF g
<1>7. turn' \in [Turns -> Handling] /\ turn'[t] = g /\ \A u \in Turns \ {t} : turn'[u] = turn[u]
  BY <1>5, <1>6 DEF IInv, TypeOK
<1>8. PartInv(turn'[t])
  BY <1>3, <1>4, <1>5, <1>7 DEF PartInv, Working
<1>9. TrackInv(t)'
  BY <1>1, <1>3, <1>5, <1>7 DEF TrackInv, Accepted, Working, Route
<1>10. turn'[t].ctx.rows \subseteq DOMAIN msgs
  BY <1>1, <1>5, <1>7 DEF IInv, TypeOK
<1>11. OnlyTurn(t)
  BY <1>7 DEF OnlyTurn, Route
<1> QED
  BY <1>7, <1>8, <1>9, <1>10, <1>11, TurnStep DEF Route, IInv, TypeOK, ConversationInv, WorkerInv

LEMMA DispatchStep ==
    ASSUME IInv, NEW t \in Turns, Dispatch(t)
    PROVE  IInv'
<1>1. PICK h : h = turn[t]
  OBVIOUS
<1>2. h \in Handling /\ h.pc = "dispatch" /\ PartInv(h)
  BY <1>1 DEF IInv, TypeOK, ConversationInv, Dispatch
<1>3. h.lane \in Lanes \union {Neutral("direct"), Neutral("hybrid")} /\ h.rest = NoLane /\ h.knows = {}
  BY <1>2 DEF PartInv
<1>4. PICK pc : pc = CASE h.lane.scope \in Scopes -> "context"
                       [] h.lane.scope = "direct" -> "direct"
                       [] OTHER -> IF CrossScope THEN "split" ELSE "answer"
  OBVIOUS
<1>5. PICK l : l = IF h.lane \in Lanes THEN h.lane ELSE NoLane
  OBVIOUS
<1>6. /\ h.lane \in Lanes => pc = "context"
      /\ h.lane = Neutral("direct") => pc = "direct"
      /\ h.lane = Neutral("hybrid") => pc \in {"split", "answer"}
  BY <1>4, LaneFacts DEF Scopes
<1>7. pc \in {"context", "direct", "split", "answer"} /\ l \in Lanes \union {NoLane}
  BY <1>3, <1>5, <1>6
<1> DEFINE g == [h EXCEPT !.pc = pc, !.part = l]
<1>8. /\ g \in Handling /\ g.pc = pc /\ g.part = l /\ g.lane = h.lane /\ g.rest = h.rest /\ g.knows = h.knows
      /\ g.ctx = h.ctx
  BY <1>2, <1>7 DEF Handling, Steps
<1>9. turn' = [turn EXCEPT ![t] = g]
  <2>1. turn' = [turn EXCEPT ![t].pc = pc, ![t].part = l]
    BY <1>1, <1>4, <1>5 DEF Dispatch
  <2> QED
    BY <1>1, <2>1
<1> HIDE DEF g
<1>10. turn' \in [Turns -> Handling] /\ turn'[t] = g /\ \A u \in Turns \ {t} : turn'[u] = turn[u]
  BY <1>8, <1>9 DEF IInv, TypeOK
<1>11. PartInv(g)
  BY <1>3, <1>5, <1>6, <1>7, <1>8, LaneFacts DEF PartInv, Working
<1>12. TrackInv(t)'
  BY <1>1, <1>2, <1>7, <1>8, <1>10, StillAccepted DEF Accepted, Working, Dispatch
<1>13. turn'[t].ctx.rows \subseteq DOMAIN msgs
  BY <1>1, <1>8, <1>10 DEF IInv, TypeOK
<1>14. OnlyTurn(t)
  BY <1>10 DEF OnlyTurn, Dispatch
<1> QED
  BY <1>10, <1>11, <1>12, <1>13, <1>14, TurnStep DEF Dispatch, IInv, TypeOK, ConversationInv, WorkerInv

LEMMA HandleDirectStep ==
    ASSUME IInv, NEW t \in Turns, HandleDirect(t)
    PROVE  IInv'
<1>1. /\ turn \in [Turns -> Handling] /\ turn[t].pc = "direct" /\ PartInv(turn[t]) /\ Goto(t, "answer")
      /\ "answer" \in Steps
  BY DEF IInv, TypeOK, ConversationInv, HandleDirect, Steps
<1>2. /\ turn' \in [Turns -> Handling] /\ turn'[t].pc = "answer" /\ turn'[t].lane = turn[t].lane
      /\ turn'[t].knows = turn[t].knows /\ turn'[t].ctx = turn[t].ctx
      /\ \A u \in Turns \ {t} : turn'[u] = turn[u]
  BY <1>1, GotoFacts
<1>3. PartInv(turn'[t])
  BY <1>1, <1>2 DEF PartInv, Working
<1>4. TrackInv(t)'
  BY <1>1, <1>2, StillAccepted DEF Accepted, Working, HandleDirect
<1>5. turn'[t].ctx.rows \subseteq DOMAIN msgs /\ OnlyTurn(t)
  BY <1>2 DEF IInv, TypeOK, OnlyTurn, HandleDirect
<1> QED
  BY <1>2, <1>3, <1>4, <1>5, TurnStep DEF HandleDirect, IInv, TypeOK, ConversationInv, WorkerInv

LEMMA SplitHybridStep ==
    ASSUME IInv, NEW t \in Turns, NEW space \in Professional, SplitHybrid(t, space)
    PROVE  IInv'
<1>1. PICK h : h = turn[t]
  OBVIOUS
<1>2. h \in Handling /\ h.pc = "split" /\ PartInv(h) /\ h.ctx.rows \subseteq DOMAIN msgs
  BY <1>1 DEF IInv, TypeOK, ConversationInv, SplitHybrid
<1>3. h.lane = Neutral("hybrid")
  BY <1>2 DEF PartInv
<1>4. CASE Goto(t, "answer")
  <2>1. "answer" \in Steps /\ turn \in [Turns -> Handling]
    BY DEF Steps, IInv, TypeOK
  <2>2. /\ turn' \in [Turns -> Handling] /\ turn'[t].pc = "answer" /\ turn'[t].lane = turn[t].lane
        /\ turn'[t].knows = turn[t].knows /\ turn'[t].ctx = turn[t].ctx
        /\ \A u \in Turns \ {t} : turn'[u] = turn[u]
    BY <1>4, <2>1, GotoFacts
  <2>3. PartInv(turn'[t])
    BY <1>1, <1>3, <2>2, LaneFacts DEF PartInv, Working
  <2>4. TrackInv(t)'
    BY <1>1, <1>2, <2>2, StillAccepted DEF Accepted, Working, SplitHybrid
  <2>5. turn'[t].ctx.rows \subseteq DOMAIN msgs /\ OnlyTurn(t)
    BY <2>2 DEF IInv, TypeOK, OnlyTurn, SplitHybrid
  <2> QED
    BY <2>2, <2>3, <2>4, <2>5, TurnStep DEF SplitHybrid, IInv, TypeOK, ConversationInv, WorkerInv
<1>5. CASE ~ Goto(t, "answer")
  <2>1. PICK p, q : p = [scope |-> "personal", space |-> "personal"] /\ q = [scope |-> "professional", space |-> space]
    OBVIOUS
  <2>2. p \in Lanes /\ q \in Lanes
    BY <2>1 DEF Lanes
  <2> DEFINE g == [h EXCEPT !.pc = "context", !.part = p, !.rest = q]
  <2>3. /\ g \in Handling /\ g.pc = "context" /\ g.part = p /\ g.rest = q /\ g.lane = h.lane
        /\ g.knows = h.knows /\ g.ctx = h.ctx
    BY <1>2, <2>2 DEF Handling, Steps
  <2>4. turn' = [turn EXCEPT ![t] = g]
    BY <1>1, <1>5, <2>1 DEF SplitHybrid
  <2> HIDE DEF g
  <2>5. turn' \in [Turns -> Handling] /\ turn'[t] = g /\ \A u \in Turns \ {t} : turn'[u] = turn[u]
    BY <2>3, <2>4 DEF IInv, TypeOK
  <2>6. PartInv(turn'[t])
    BY <1>3, <2>2, <2>3, <2>5, LaneFacts DEF PartInv, Working
  <2>7. TrackInv(t)'
    BY <1>1, <1>2, <2>3, <2>5, StillAccepted DEF Accepted, Working, SplitHybrid
  <2>8. turn'[t].ctx.rows \subseteq DOMAIN msgs /\ OnlyTurn(t)
    BY <1>2, <2>3, <2>5 DEF OnlyTurn, SplitHybrid
  <2> QED
    BY <2>5, <2>6, <2>7, <2>8, TurnStep DEF SplitHybrid, IInv, TypeOK, ConversationInv, WorkerInv
<1> QED
  BY <1>4, <1>5

LEMMA ReadSummaryStep ==
    ASSUME IInv, NEW t \in Turns, ReadSummary(t)
    PROVE  IInv'
<1>1. PICK h : h = turn[t]
  OBVIOUS
<1>2. h \in Handling /\ h.pc = "context" /\ PartInv(h)
  BY <1>1 DEF IInv, TypeOK, ConversationInv, ReadSummary
<1>3. h.part \in Lanes /\ h.lane # Neutral("direct") /\ (h.lane \in Lanes => h.part = h.lane /\ h.rest = NoLane)
  BY <1>2 DEF PartInv, Working
<1>4. PICK c : c = [rows |-> {}, after |-> summary[h.part].to, knows |-> summary[h.part].knows]
  OBVIOUS
<1>5. /\ c \in [rows : SUBSET Nat, after : Nat, knows : SUBSET Scopes] /\ c.rows = {}
      /\ c.knows \subseteq {h.part.scope}
  <2>1. summary[h.part] \in [to : 0..Len(msgs), count : 0..Len(msgs), knows : SUBSET Scopes]
    BY <1>3 DEF IInv, TypeOK
  <2>2. summary[h.part].to \in Nat /\ summary[h.part].knows \in SUBSET Scopes
    BY <2>1
  <2>3. summary[h.part].knows \subseteq {h.part.scope}
    BY <1>3 DEF IInv, ConversationInv, KnowledgeInv
  <2> QED
    BY <1>4, <2>2, <2>3
<1> DEFINE g == [h EXCEPT !.pc = "history", !.ctx = c]
<1>6. /\ g \in Handling /\ g.pc = "history" /\ g.ctx = c /\ g.part = h.part /\ g.lane = h.lane
      /\ g.rest = h.rest /\ g.knows = h.knows
  BY <1>2, <1>5 DEF Handling, Steps
<1>7. turn' = [turn EXCEPT ![t] = g]
  BY <1>1, <1>4 DEF ReadSummary
<1> HIDE DEF g
<1>8. turn' \in [Turns -> Handling] /\ turn'[t] = g /\ \A u \in Turns \ {t} : turn'[u] = turn[u]
  BY <1>6, <1>7 DEF IInv, TypeOK
<1>9. PartInv(turn'[t])
  BY <1>2, <1>3, <1>5, <1>6, <1>8 DEF PartInv, Working
<1>10. TrackInv(t)'
  BY <1>1, <1>2, <1>6, <1>8, StillAccepted DEF Accepted, Working, ReadSummary
<1>11. turn'[t].ctx.rows \subseteq DOMAIN msgs /\ OnlyTurn(t)
  BY <1>5, <1>6, <1>8 DEF OnlyTurn, ReadSummary
<1> QED
  BY <1>8, <1>9, <1>10, <1>11, TurnStep DEF ReadSummary, IInv, TypeOK, ConversationInv, WorkerInv

(* The rows read come after the summary and know the scope only; so does    *)
(* what the agent of that scope is handed.                                  *)
LEMMA ReadHistoryStep ==
    ASSUME IInv, NEW t \in Turns, ReadHistory(t)
    PROVE  IInv'
<1>1. PICK h : h = turn[t]
  OBVIOUS
<1>2. h \in Handling /\ h.pc = "history" /\ PartInv(h)
  BY <1>1 DEF IInv, TypeOK, ConversationInv, ReadHistory
<1>3. /\ h.part \in Lanes /\ h.lane # Neutral("direct") /\ (h.lane \in Lanes => h.part = h.lane /\ h.rest = NoLane)
      /\ h.ctx.knows \subseteq {h.part.scope} /\ h.part.scope \in Scopes
  BY <1>2, LaneFacts DEF PartInv, Working
<1>4. PICK rows : rows = ScopedHistory(h.part.scope, h.ctx.after)
  OBVIOUS
<1>5. /\ rows \subseteq Visible(h.part.scope) /\ rows \subseteq DOMAIN msgs
      /\ \A i \in rows : i > h.ctx.after
  BY <1>4 DEF ScopedHistory, Visible
<1>6. PICK knows : knows = h.ctx.knows \union {h.part.scope} \union UNION {msgs[i].knows : i \in rows}
  OBVIOUS
<1>7. knows \subseteq {h.part.scope}
  <2>1. \A i \in rows : msgs[i].knows \subseteq {h.part.scope}
    BY <1>3, <1>5, VisibleIsClean DEF IInv, ConversationInv
  <2> SUFFICES ASSUME NEW x \in knows PROVE x \in {h.part.scope}
    OBVIOUS
  <2> DEFINE stores == {msgs[i].knows : i \in rows}
  <2>3. knows = h.ctx.knows \union {h.part.scope} \union UNION stores
    BY <1>6
  <2>4. \A e \in stores : e \subseteq {h.part.scope}
    BY <2>1
  <2> HIDE DEF stores
  <2>5. CASE x \in UNION stores
    <3>1. \E e \in stores : x \in e
      BY <2>5
    <3> QED
      BY <3>1, <2>4
  <2>6. x \in h.ctx.knows \/ x \in UNION stores \/ x \in {h.part.scope}
    BY <2>3
  <2>7. h.ctx.knows \subseteq {h.part.scope}
    BY <1>3
  <2> QED
    BY <2>5, <2>6, <2>7
<1>8. PICK from : turn' = [turn EXCEPT ![t].pc = "model",
                        ![t].ctx = [rows |-> {i \in rows : i >= from}, after |-> h.ctx.after, knows |-> knows]]
  BY <1>1, <1>4, <1>6, ZenonT(60) DEF ReadHistory
<1>9. PICK sent : sent = {i \in rows : i >= from}
  OBVIOUS
<1>10. PICK c : c = [rows |-> sent, after |-> h.ctx.after, knows |-> knows]
  OBVIOUS
<1>11. /\ c \in [rows : SUBSET Nat, after : Nat, knows : SUBSET Scopes] /\ c.rows \subseteq DOMAIN msgs
       /\ c.knows \subseteq {h.part.scope} /\ \A i \in c.rows : i > c.after
  <2>1. DOMAIN msgs \subseteq Nat
    BY LenProperties DEF IInv, TypeOK
  <2>2. sent \in SUBSET Nat /\ sent \subseteq DOMAIN msgs /\ knows \in SUBSET Scopes /\ \A i \in sent : i > h.ctx.after
    BY <1>3, <1>5, <1>7, <1>9, <2>1
  <2>3. h.ctx.after \in Nat
    BY <1>2 DEF Handling
  <2> QED
    BY <1>7, <1>10, <2>2, <2>3
<1> DEFINE g == [h EXCEPT !.pc = "model", !.ctx = c]
<1>12. /\ g \in Handling /\ g.pc = "model" /\ g.ctx = c /\ g.part = h.part /\ g.lane = h.lane
       /\ g.rest = h.rest /\ g.knows = h.knows
  BY <1>2, <1>11 DEF Handling, Steps
<1>13. turn' = [turn EXCEPT ![t] = g]
  BY <1>1, <1>8, <1>9, <1>10
<1> HIDE DEF g
<1>14. turn' \in [Turns -> Handling] /\ turn'[t] = g /\ \A u \in Turns \ {t} : turn'[u] = turn[u]
  BY <1>12, <1>13 DEF IInv, TypeOK
<1>15. PartInv(turn'[t])
  BY <1>2, <1>3, <1>11, <1>12, <1>14 DEF PartInv, Working
<1>16. TrackInv(t)'
  BY <1>1, <1>2, <1>12, <1>14, StillAccepted DEF Accepted, Working, ReadHistory
<1>17. turn'[t].ctx.rows \subseteq DOMAIN msgs /\ OnlyTurn(t)
  BY <1>11, <1>12, <1>14 DEF OnlyTurn, ReadHistory
<1> QED
  BY <1>14, <1>15, <1>16, <1>17, TurnStep DEF ReadHistory, IInv, TypeOK, ConversationInv, WorkerInv

(* The end of a part adds what its agent was handed to what the turn knows, *)
(* which for a turn of one scope is that scope.                             *)
LEMMA EndPartFacts ==
    ASSUME IInv, NEW t \in Turns, turn[t].pc \in Working \ {"context"}, EndPart(t), msgs' = msgs, extracts' = extracts
    PROVE  /\ turn' \in [Turns -> Handling] /\ \A u \in Turns \ {t} : turn'[u] = turn[u]
           /\ turn'[t].ctx.rows \subseteq DOMAIN msgs /\ PartInv(turn'[t]) /\ TrackInv(t)'
<1>1. PICK h : h = turn[t]
  OBVIOUS
<1>2. h \in Handling /\ h.pc \in Working \ {"context"} /\ PartInv(h)
  BY <1>1 DEF IInv, TypeOK, ConversationInv
<1>3. /\ h.part \in Lanes /\ h.lane # Neutral("direct") /\ (h.lane \in Lanes => h.part = h.lane /\ h.rest = NoLane)
      /\ h.ctx.knows \subseteq {h.part.scope} /\ (h.lane \in Lanes => h.knows \subseteq {h.lane.scope})
      /\ h.rest \in Lanes \union {NoLane} /\ h.lane \in Lanes \union {Neutral("direct"), Neutral("hybrid")}
      /\ h.knows \subseteq Scopes /\ h.ctx.knows \subseteq Scopes
  BY <1>2 DEF PartInv, Handling, Working
<1>4. PICK pc, k, c : /\ pc = IF h.rest = NoLane THEN "answer" ELSE "context"
                      /\ k = h.knows \union h.ctx.knows /\ c = NoContext
  OBVIOUS
<1> DEFINE g == [h EXCEPT !.pc = pc, !.part = h.rest, !.rest = NoLane, !.knows = k, !.ctx = c]
<1>5. c \in [rows : SUBSET Nat, after : Nat, knows : SUBSET Scopes] /\ c.rows = {}
  BY <1>4 DEF NoContext
<1>6. pc \in Steps /\ k \in SUBSET Scopes /\ (h.lane \in Lanes => k \subseteq {h.lane.scope})
  BY <1>3, <1>4 DEF Steps
<1>7. /\ g \in Handling /\ g.pc = pc /\ g.part = h.rest /\ g.rest = NoLane /\ g.knows = k /\ g.ctx = c
      /\ g.lane = h.lane
  BY <1>2, <1>3, <1>5, <1>6 DEF Handling
<1>8. turn' = [turn EXCEPT ![t] = g]
  BY <1>1, <1>4 DEF EndPart
<1> HIDE DEF g
<1>9. turn' \in [Turns -> Handling] /\ turn'[t] = g /\ \A u \in Turns \ {t} : turn'[u] = turn[u]
  BY <1>7, <1>8 DEF IInv, TypeOK
<1>10. PartInv(g)
  BY <1>3, <1>4, <1>6, <1>7 DEF PartInv, Working
<1>11. TrackInv(t)'
  BY <1>1, <1>2, <1>4, <1>7, <1>9, StillAccepted DEF Accepted, Working
<1> QED
  BY <1>5, <1>7, <1>9, <1>10, <1>11

LEMMA HandleStep ==
    ASSUME IInv, NEW t \in Turns, NEW scope, Handle(t, scope)
    PROVE  IInv'
<1>1. turn[t].pc = "model" /\ turn \in [Turns -> Handling] /\ PartInv(turn[t])
  BY DEF Handle, IInv, TypeOK, ConversationInv
<1>2. CASE EndPart(t)
  <2>1. /\ turn' \in [Turns -> Handling] /\ \A u \in Turns \ {t} : turn'[u] = turn[u]
        /\ turn'[t].ctx.rows \subseteq DOMAIN msgs /\ PartInv(turn'[t]) /\ TrackInv(t)'
    BY <1>1, <1>2, EndPartFacts DEF Handle, Working
  <2>2. OnlyTurn(t)
    BY <2>1 DEF OnlyTurn, Handle
  <2> QED
    BY <2>1, <2>2, TurnStep DEF Handle, IInv, TypeOK, ConversationInv, WorkerInv
<1>3. CASE Goto(t, "resolve")
  <2>1. "resolve" \in Steps
    BY DEF Steps
  <2>2. /\ turn' \in [Turns -> Handling] /\ turn'[t].pc = "resolve" /\ turn'[t].lane = turn[t].lane
        /\ turn'[t].part = turn[t].part /\ turn'[t].rest = turn[t].rest /\ turn'[t].ctx = turn[t].ctx
        /\ turn'[t].knows = turn[t].knows /\ \A u \in Turns \ {t} : turn'[u] = turn[u]
    BY <1>1, <1>3, <2>1, GotoFacts
  <2>3. PartInv(turn'[t])
    BY <1>1, <2>2 DEF PartInv, Working
  <2>4. TrackInv(t)'
    BY <1>1, <2>2, StillAccepted DEF Accepted, Working, Handle
  <2>5. turn'[t].ctx.rows \subseteq DOMAIN msgs /\ OnlyTurn(t)
    BY <2>2 DEF IInv, TypeOK, OnlyTurn, Handle
  <2> QED
    BY <2>2, <2>3, <2>4, <2>5, TurnStep DEF Handle, IInv, TypeOK, ConversationInv, WorkerInv
<1> QED
  BY <1>2, <1>3 DEF Handle

LEMMA ResolveToolCallStep ==
    ASSUME IInv, NEW t \in Turns, ResolveToolCall(t)
    PROVE  IInv'
<1>1. turn[t].pc = "resolve" /\ turn \in [Turns -> Handling] /\ PartInv(turn[t]) /\ turn[t].part.scope \in Scopes
  BY LaneFacts DEF ResolveToolCall, IInv, TypeOK, ConversationInv, PartInv, Working
<1>2. /\ pending' \subseteq Turns \X Scopes
      /\ \A u \in Turns \ {t}, s \in Scopes : <<u, s>> \in pending' <=> <<u, s>> \in pending
  BY <1>1 DEF ResolveToolCall, IInv, TypeOK
<1>3. CASE EndPart(t)
  <2>1. /\ turn' \in [Turns -> Handling] /\ \A u \in Turns \ {t} : turn'[u] = turn[u]
        /\ turn'[t].ctx.rows \subseteq DOMAIN msgs /\ PartInv(turn'[t]) /\ TrackInv(t)'
    BY <1>1, <1>3, EndPartFacts DEF ResolveToolCall, Working
  <2>2. OnlyTurn(t)
    BY <1>2, <2>1 DEF OnlyTurn, ResolveToolCall
  <2> QED
    BY <1>2, <2>1, <2>2, TurnStep DEF ResolveToolCall, IInv, TypeOK, ConversationInv, WorkerInv
<1>4. CASE Goto(t, "phrase")
  <2>1. "phrase" \in Steps
    BY DEF Steps
  <2>2. /\ turn' \in [Turns -> Handling] /\ turn'[t].pc = "phrase" /\ turn'[t].lane = turn[t].lane
        /\ turn'[t].part = turn[t].part /\ turn'[t].rest = turn[t].rest /\ turn'[t].ctx = turn[t].ctx
        /\ turn'[t].knows = turn[t].knows /\ \A u \in Turns \ {t} : turn'[u] = turn[u]
    BY <1>1, <1>4, <2>1, GotoFacts
  <2>3. PartInv(turn'[t])
    BY <1>1, <2>2 DEF PartInv, Working
  <2>4. TrackInv(t)'
    BY <1>1, <2>2, StillAccepted DEF Accepted, Working, ResolveToolCall
  <2>5. turn'[t].ctx.rows \subseteq DOMAIN msgs /\ OnlyTurn(t)
    BY <1>2, <2>2 DEF IInv, TypeOK, OnlyTurn, ResolveToolCall
  <2> QED
    BY <1>2, <2>2, <2>3, <2>4, <2>5, TurnStep DEF ResolveToolCall, IInv, TypeOK, ConversationInv, WorkerInv
<1> QED
  BY <1>3, <1>4 DEF ResolveToolCall

LEMMA SummarizeToolResultStep ==
    ASSUME IInv, NEW t \in Turns, SummarizeToolResult(t)
    PROVE  IInv'
<1>1. /\ turn' \in [Turns -> Handling] /\ \A u \in Turns \ {t} : turn'[u] = turn[u]
      /\ turn'[t].ctx.rows \subseteq DOMAIN msgs /\ PartInv(turn'[t]) /\ TrackInv(t)'
  BY EndPartFacts DEF SummarizeToolResult, Working
<1>2. OnlyTurn(t)
  BY <1>1 DEF OnlyTurn, SummarizeToolResult
<1> QED
  BY <1>1, <1>2, TurnStep DEF SummarizeToolResult, IInv, TypeOK, ConversationInv, WorkerInv

(* The reply of a scoped turn is on its way; its exchange is complete.      *)
LEMMA RecordStep ==
    ASSUME IInv, NEW t \in Turns, Record(t)
    PROVE  IInv'
<1>1. /\ turn[t].pc = "record" /\ turn \in [Turns -> Handling] /\ PartInv(turn[t]) /\ TrackInv(t)
      /\ turn[t].ctx.rows \subseteq DOMAIN msgs
  BY DEF Record, IInv, TypeOK, ConversationInv
<1>2. PICK pc : pc = IF turn[t].lane \in Lanes /\ ~Returned(t) THEN "title" ELSE "done"
  OBVIOUS
<1>3. pc \in Steps /\ Goto(t, pc)
  BY <1>2 DEF Steps, Record
<1>4. /\ turn' \in [Turns -> Handling] /\ turn'[t].pc = pc /\ turn'[t].lane = turn[t].lane
      /\ turn'[t].ctx = turn[t].ctx /\ turn'[t].knows = turn[t].knows /\ \A u \in Turns \ {t} : turn'[u] = turn[u]
  BY <1>1, <1>3, GotoFacts
<1>5. PartInv(turn'[t])
  BY <1>1, <1>2, <1>4 DEF PartInv, Working
<1>6. TrackInv(t)'
  <2>1. t \notin extracts' /\ (\A l : Exchange(t, l)' <=> Exchange(t, l)) /\ (Returned(t)' <=> Returned(t))
    BY <1>1 DEF Record, TrackInv, Exchange, UserRow, Returned
  <2>2. Exchange(t, turn[t].lane) /\ (pc = "title" => ~Returned(t)) /\ pc \in {"title", "done"}
    BY <1>1, <1>2 DEF TrackInv
  <2>3. (turn[t].pc \in {"record", "title", "extract"} => Exchange(t, turn[t].lane))'
    BY <1>4, <2>1, <2>2
  <2> QED
    BY <1>4, <2>1, <2>2, <2>3 DEF TrackInv, Accepted, Working
<1>7. turn'[t].ctx.rows \subseteq DOMAIN msgs /\ OnlyTurn(t)
  BY <1>1, <1>4 DEF OnlyTurn, Record
<1> QED
  BY <1>4, <1>5, <1>6, <1>7, TurnStep DEF Record, IInv, TypeOK, ConversationInv, WorkerInv

LEMMA TitleStep ==
    ASSUME IInv, NEW t \in Turns, Title(t)
    PROVE  IInv'
<1>1. /\ turn[t].pc = "title" /\ turn \in [Turns -> Handling] /\ PartInv(turn[t]) /\ TrackInv(t)
      /\ turn[t].ctx.rows \subseteq DOMAIN msgs /\ Goto(t, "extract") /\ "extract" \in Steps
  BY DEF Title, IInv, TypeOK, ConversationInv, Steps
<1>2. /\ turn' \in [Turns -> Handling] /\ turn'[t].pc = "extract" /\ turn'[t].lane = turn[t].lane
      /\ turn'[t].ctx = turn[t].ctx /\ turn'[t].knows = turn[t].knows /\ \A u \in Turns \ {t} : turn'[u] = turn[u]
  BY <1>1, GotoFacts
<1>3. PartInv(turn'[t])
  BY <1>1, <1>2 DEF PartInv, Working
<1>4. TrackInv(t)'
  <2>1. t \notin extracts' /\ (\A l : Exchange(t, l)' <=> Exchange(t, l)) /\ (Returned(t)' <=> Returned(t))
    BY <1>1 DEF Title, TrackInv, Exchange, UserRow, Returned
  <2>2. Exchange(t, turn[t].lane) /\ ~Returned(t)
    BY <1>1 DEF TrackInv
  <2>3. Exchange(t, turn[t].lane)'
    BY <1>2, <2>1, <2>2
  <2> QED
    BY <1>2, <2>1, <2>2, <2>3 DEF TrackInv, Accepted, Working
<1>5. turn'[t].ctx.rows \subseteq DOMAIN msgs /\ OnlyTurn(t)
  BY <1>1, <1>2 DEF OnlyTurn, Title
<1>6. title' \in Turns \union {NoTurn}
  BY DEF Title, SetTitleIfMissing, IInv, TypeOK
<1> QED
  BY <1>2, <1>3, <1>4, <1>5, <1>6, TurnStep DEF Title, IInv, TypeOK, ConversationInv, WorkerInv

LEMMA EnqueueExtractionStep ==
    ASSUME IInv, NEW t \in Turns, EnqueueExtraction(t)
    PROVE  IInv'
<1>1. /\ turn[t].pc = "extract" /\ turn \in [Turns -> Handling] /\ PartInv(turn[t]) /\ TrackInv(t)
      /\ turn[t].ctx.rows \subseteq DOMAIN msgs /\ Goto(t, "check") /\ "check" \in Steps
  BY DEF EnqueueExtraction, IInv, TypeOK, ConversationInv, Steps
<1>2. /\ turn' \in [Turns -> Handling] /\ turn'[t].pc = "check" /\ turn'[t].lane = turn[t].lane
      /\ turn'[t].ctx = turn[t].ctx /\ turn'[t].knows = turn[t].knows /\ \A u \in Turns \ {t} : turn'[u] = turn[u]
  BY <1>1, GotoFacts
<1>3. PartInv(turn'[t])
  BY <1>1, <1>2 DEF PartInv, Working
<1>4. TrackInv(t)'
  <2>1. (\A l : Exchange(t, l)' <=> Exchange(t, l)) /\ (Returned(t)' <=> Returned(t))
    BY DEF EnqueueExtraction, Exchange, UserRow, Returned
  <2>2. Exchange(t, turn[t].lane) /\ ~Returned(t) /\ turn[t].lane \in Lanes
    BY <1>1 DEF TrackInv, PartInv
  <2>3. (\E l \in Lanes : Exchange(t, l))'
    BY <2>1, <2>2 DEF Lanes
  <2> QED
    BY <1>2, <2>1, <2>2, <2>3 DEF TrackInv, Accepted, Working
<1>5. turn'[t].ctx.rows \subseteq DOMAIN msgs /\ OnlyTurn(t) /\ extracts' \subseteq Turns
  BY <1>1, <1>2 DEF OnlyTurn, EnqueueExtraction, IInv, TypeOK
<1> QED
  BY <1>2, <1>3, <1>4, <1>5, TurnStep DEF EnqueueExtraction, IInv, TypeOK, ConversationInv, WorkerInv

(* A turn that is over keeps what its extraction job rests on.              *)
LEMMA ExtractionStays ==
    ASSUME NEW t \in Turns, TrackInv(t), turn'[t].pc \in {"done", "failed"},
           msgs' = msgs, pending' = pending, extracts' = extracts
    PROVE  TrackInv(t)'
<1>1. (\A l : Exchange(t, l)' <=> Exchange(t, l)) /\ (Returned(t)' <=> Returned(t))
  BY DEF Exchange, UserRow, Returned
<1>2. t \in extracts => ~Returned(t) /\ \E l \in Lanes : Exchange(t, l)
  BY DEF TrackInv
<1>3. (t \in extracts => ~Returned(t) /\ \E l \in Lanes : Exchange(t, l))'
  BY <1>1, <1>2 DEF Lanes
<1> QED
  BY <1>3 DEF TrackInv, Accepted, Working

LEMMA CheckSummaryStep ==
    ASSUME IInv, NEW t \in Turns, CheckSummary(t)
    PROVE  IInv'
<1>1. /\ turn[t].pc = "check" /\ turn \in [Turns -> Handling] /\ PartInv(turn[t]) /\ TrackInv(t)
      /\ turn[t].ctx.rows \subseteq DOMAIN msgs /\ Goto(t, "done") /\ "done" \in Steps
  BY DEF CheckSummary, IInv, TypeOK, ConversationInv, Steps
<1>2. /\ turn' \in [Turns -> Handling] /\ turn'[t].pc = "done" /\ turn'[t].lane = turn[t].lane
      /\ turn'[t].ctx = turn[t].ctx /\ turn'[t].knows = turn[t].knows /\ \A u \in Turns \ {t} : turn'[u] = turn[u]
  BY <1>1, GotoFacts
<1>3. PartInv(turn'[t])
  BY <1>1, <1>2 DEF PartInv, Working
<1>4. TrackInv(t)'
  BY <1>1, <1>2, ExtractionStays DEF CheckSummary
<1>5. turn'[t].ctx.rows \subseteq DOMAIN msgs /\ OnlyTurn(t)
  BY <1>1, <1>2 DEF OnlyTurn, CheckSummary
<1>6. jobs' \in Seq(Lanes) /\ (worker.busy => jobs' # <<>>)
  <2>1. jobs \in Seq(Lanes) /\ (worker.busy => jobs # <<>>) /\ turn[t].lane \in Lanes
    BY <1>1 DEF IInv, TypeOK, ConversationInv, WorkerInv, PartInv
  <2> QED
    BY <2>1, AppendProperties DEF CheckSummary
<1> QED
  BY <1>2, <1>3, <1>4, <1>5, <1>6, TurnStep DEF CheckSummary, IInv, TypeOK

LEMMA ThrowStep ==
    ASSUME IInv, NEW t \in Turns, Throw(t)
    PROVE  IInv'
<1>1. PICK g : g = [Resting EXCEPT !.pc = "failed"]
  OBVIOUS
<1>2. /\ g \in Handling /\ g.pc = "failed" /\ g.lane = NoLane /\ g.knows = {} /\ g.ctx.rows = {}
  BY <1>1 DEF Resting, Handling, NoContext, Steps
<1>3. /\ turn' \in [Turns -> Handling] /\ turn'[t] = g /\ \A u \in Turns \ {t} : turn'[u] = turn[u]
  BY <1>1, <1>2 DEF Throw, IInv, TypeOK
<1>4. PartInv(g)
  BY <1>2, LaneFacts DEF PartInv, Working
<1>5. TrackInv(t)'
  BY <1>2, <1>3, ExtractionStays DEF Throw, IInv, ConversationInv
<1>6. turn'[t].ctx.rows \subseteq DOMAIN msgs /\ OnlyTurn(t)
  BY <1>2, <1>3 DEF OnlyTurn, Throw
<1>7. faults' \in 0..MaxFaults
  BY ConversationConstants DEF Throw, IInv, TypeOK
<1> QED
  BY <1>3, <1>4, <1>5, <1>6, <1>7, TurnStep DEF Throw, IInv, TypeOK, ConversationInv, WorkerInv

-------------------------------------------------------------------------------
(* Rows that come or are marked *)

(* Rows that join at the end, or are marked as cut, move no row that a      *)
(* summary covers or a job has counted.                                     *)
LEMMA CountsStay ==
    ASSUME IInv, RowsKept, msgs' \in Seq(Row), Len(msgs') >= Len(msgs), \A i \in DOMAIN msgs' : Clean(msgs'[i]),
           summary' = summary, worker' = worker, jobs' = jobs
    PROVE  /\ KnowledgeInv' /\ WorkerInv' /\ SummaryCountsOnce'
           /\ summary' \in [Lanes -> [to : 0..Len(msgs'), count : 0..Len(msgs'), knows : SUBSET Scopes]]
           /\ worker' \in [busy : BOOLEAN, lane : Lanes \union {NoLane}, to : 0..Len(msgs'), new : Nat,
                           knows : SUBSET Scopes]
<1>1. /\ msgs \in Seq(Row) /\ Len(msgs) \in Nat /\ DOMAIN msgs = 1..Len(msgs)
      /\ Len(msgs') \in Nat /\ DOMAIN msgs' = 1..Len(msgs')
  BY LenProperties DEF IInv, TypeOK
<1>2. \A s, i : i \in DOMAIN msgs => (i \in Visible(s)' <=> i \in Visible(s))
  BY DEF RowsKept, Visible
<1>3. \A s : Visible(s) \subseteq DOMAIN msgs /\ Visible(s)' \subseteq DOMAIN msgs'
  BY DEF Visible
<1>4. 0..Len(msgs) \subseteq 0..Len(msgs')
  BY <1>1
<1>5. \A l \in Lanes : /\ summary[l].to \in 0..Len(msgs) /\ summary[l].count \in 0..Len(msgs)
                       /\ summary[l].knows \in SUBSET Scopes
  BY DEF IInv, TypeOK
<1>6. SummaryCountsOnce'
  <2> SUFFICES ASSUME NEW l \in Lanes
               PROVE  summary[l].count = Cardinality({i \in Visible(l.scope)' : i <= summary[l].to})
    BY DEF SummaryCountsOnce
  <2>1. {i \in Visible(l.scope)' : i <= summary[l].to} = {i \in Visible(l.scope) : i <= summary[l].to}
    BY <1>1, <1>2, <1>3, <1>5
  <2> QED
    BY <2>1 DEF IInv, ConversationInv, SummaryCountsOnce
<1>7. WorkerInv'
  <2> SUFFICES ASSUME worker.busy
               PROVE  /\ jobs # <<>> /\ summary[worker.lane].to <= worker.to
                      /\ worker.new = Cardinality(Between(worker.lane, summary[worker.lane].to, worker.to)')
    BY DEF WorkerInv
  <2>1. /\ jobs # <<>> /\ summary[worker.lane].to <= worker.to /\ worker.to \in 0..Len(msgs)
        /\ worker.new = Cardinality(Between(worker.lane, summary[worker.lane].to, worker.to))
        /\ worker.lane \in Lanes
    BY DEF IInv, ConversationInv, WorkerInv, KnowledgeInv, TypeOK
  <2>2. summary[worker.lane].to \in 0..Len(msgs)
    BY <1>5, <2>1
  <2>3. Between(worker.lane, summary[worker.lane].to, worker.to)'
        = Between(worker.lane, summary[worker.lane].to, worker.to)
    BY <1>1, <1>2, <1>3, <2>1, <2>2 DEF Between
  <2> QED
    BY <2>1, <2>3
<1>8. KnowledgeInv'
  BY DEF IInv, ConversationInv, KnowledgeInv
<1>9. summary' \in [Lanes -> [to : 0..Len(msgs'), count : 0..Len(msgs'), knows : SUBSET Scopes]]
  <2>1. summary \in [Lanes -> [to : 0..Len(msgs), count : 0..Len(msgs), knows : SUBSET Scopes]]
    BY DEF IInv, TypeOK
  <2> QED
    BY <1>4, <2>1
<1>10. worker' \in [busy : BOOLEAN, lane : Lanes \union {NoLane}, to : 0..Len(msgs'), new : Nat, knows : SUBSET Scopes]
  <2>1. worker \in [busy : BOOLEAN, lane : Lanes \union {NoLane}, to : 0..Len(msgs), new : Nat, knows : SUBSET Scopes]
    BY DEF IInv, TypeOK
  <2> QED
    BY <1>4, <2>1
<1> QED
  BY <1>6, <1>7, <1>8, <1>9, <1>10

(* A row that turn t saves comes last.                                      *)
LEMMA RowAdded ==
    ASSUME msgs \in Seq(Row), NEW m \in Row, msgs' = Append(msgs, m)
    PROVE  /\ msgs' \in Seq(Row) /\ RowsKept /\ Len(msgs') = Len(msgs) + 1 /\ Len(msgs) \in Nat
           /\ DOMAIN msgs = 1..Len(msgs) /\ DOMAIN msgs' = 1..(Len(msgs) + 1)
           /\ msgs'[Len(msgs) + 1] = m /\ \A i \in DOMAIN msgs : msgs'[i] = msgs[i]
<1>1. /\ Append(msgs, m) \in Seq(Row) /\ Len(Append(msgs, m)) = Len(msgs) + 1
      /\ \A i \in 1..Len(msgs) : Append(msgs, m)[i] = msgs[i]
      /\ Append(msgs, m)[Len(msgs) + 1] = m
  BY AppendProperties
<1>2. /\ Len(msgs) \in Nat /\ DOMAIN msgs = 1..Len(msgs)
      /\ DOMAIN Append(msgs, m) = 1..Len(Append(msgs, m))
  BY <1>1, LenProperties
<1> QED
  BY <1>1, <1>2 DEF RowsKept

LEMMA RowStep ==
    ASSUME IInv, NEW t \in Turns, OnlyTurn(t), turn' \in [Turns -> Handling],
           turn'[t].ctx.rows \subseteq DOMAIN msgs, PartInv(turn'[t]), TrackInv(t)',
           NEW m \in Row, Clean(m), msgs' = Append(msgs, m),
           UNCHANGED <<title, recorded, pending, summary, extracts, jobs, worker, faults>>
    PROVE  IInv'
<1>1. /\ msgs' \in Seq(Row) /\ RowsKept /\ Len(msgs') = Len(msgs) + 1 /\ Len(msgs) \in Nat
      /\ DOMAIN msgs = 1..Len(msgs) /\ DOMAIN msgs' = 1..(Len(msgs) + 1)
      /\ msgs'[Len(msgs) + 1] = m /\ \A i \in DOMAIN msgs : msgs'[i] = msgs[i]
  BY RowAdded DEF IInv, TypeOK
<1>2. (\A u \in Turns : PartInv(turn[u]) /\ TrackInv(u))'
  BY <1>1, OthersStay
<1>3. \A i \in DOMAIN msgs' : Clean(msgs'[i])
  <2>1. \A i \in DOMAIN msgs : Clean(msgs[i])
    BY DEF IInv, ConversationInv, KnowledgeInv
  <2>2. \A i \in DOMAIN msgs' : i \in DOMAIN msgs \/ i = Len(msgs) + 1
    BY <1>1
  <2> QED
    BY <1>1, <2>1, <2>2
<1>4. /\ KnowledgeInv' /\ WorkerInv' /\ SummaryCountsOnce'
      /\ summary' \in [Lanes -> [to : 0..Len(msgs'), count : 0..Len(msgs'), knows : SUBSET Scopes]]
      /\ worker' \in [busy : BOOLEAN, lane : Lanes \union {NoLane}, to : 0..Len(msgs'), new : Nat,
                      knows : SUBSET Scopes]
  <2>1. Len(msgs') >= Len(msgs)
    BY <1>1
  <2> QED
    BY <1>1, <1>3, <2>1, CountsStay
<1>5. TypeOK'
  <2>1. \A u \in Turns : turn'[u].ctx.rows \subseteq DOMAIN msgs'
    BY <1>1 DEF OnlyTurn, IInv, TypeOK, RowsKept
  <2> QED
    BY <1>1, <1>4, <2>1 DEF IInv, TypeOK
<1> QED
  BY <1>2, <1>4, <1>5 DEF IInv, ConversationInv

LEMMA SaveUserStep ==
    ASSUME IInv, NEW t \in Turns, SaveUser(t)
    PROVE  IInv'
<1>1. /\ turn[t].pc = "save" /\ turn \in [Turns -> Handling] /\ PartInv(turn[t]) /\ TrackInv(t)
      /\ turn[t].ctx.rows \subseteq DOMAIN msgs /\ Goto(t, "dispatch") /\ "dispatch" \in Steps
      /\ turn[t].lane \in Lanes \union {Neutral("direct"), Neutral("hybrid")}
  BY DEF SaveUser, IInv, TypeOK, ConversationInv, Steps, PartInv
<1>2. PICK m : m = [turn |-> t, role |-> "user", lane |-> turn[t].lane, cut |-> FALSE, knows |-> {}]
  OBVIOUS
<1>3. m \in Row /\ Clean(m) /\ m.turn = t /\ m.role = "user" /\ m.lane = turn[t].lane
  BY <1>1, <1>2 DEF Row, Clean
<1>4. msgs' = Append(msgs, m)
  BY <1>2 DEF SaveUser, AddMessage
<1>5. /\ turn' \in [Turns -> Handling] /\ turn'[t].pc = "dispatch" /\ turn'[t].lane = turn[t].lane
      /\ turn'[t].rest = turn[t].rest /\ turn'[t].ctx = turn[t].ctx /\ turn'[t].knows = turn[t].knows
      /\ \A u \in Turns \ {t} : turn'[u] = turn[u]
  BY <1>1, GotoFacts
<1>6. PartInv(turn'[t])
  BY <1>1, <1>5 DEF PartInv, Working
<1>7. TrackInv(t)'
  <2>1. Len(msgs) \in Nat /\ DOMAIN msgs' = 1..(Len(msgs) + 1) /\ msgs'[Len(msgs) + 1] = m
    BY <1>3, <1>4, RowAdded DEF IInv, TypeOK
  <2>2. (\E i \in DOMAIN msgs : UserRow(t, turn[t].lane, i))'
    <3>1. Len(msgs) + 1 \in DOMAIN msgs'
      BY <2>1
    <3> QED
      BY <1>3, <1>5, <2>1, <3>1 DEF UserRow
  <2>3. t \notin extracts'
    BY <1>1 DEF TrackInv, SaveUser
  <2> QED
    BY <1>5, <2>2, <2>3 DEF TrackInv
<1>8. turn'[t].ctx.rows \subseteq DOMAIN msgs /\ OnlyTurn(t)
  BY <1>1, <1>5 DEF OnlyTurn, SaveUser
<1> QED
  BY <1>3, <1>4, <1>5, <1>6, <1>7, <1>8, RowStep DEF SaveUser

LEMMA SaveAnswerStep ==
    ASSUME IInv, NEW t \in Turns, SaveAnswer(t)
    PROVE  IInv'
<1>1. /\ turn[t].pc = "answer" /\ turn \in [Turns -> Handling] /\ PartInv(turn[t]) /\ TrackInv(t)
      /\ turn[t].ctx.rows \subseteq DOMAIN msgs /\ Goto(t, "record") /\ "record" \in Steps
  BY DEF SaveAnswer, IInv, TypeOK, ConversationInv, Steps
<1>2. /\ turn[t].lane \in Lanes \union {Neutral("direct"), Neutral("hybrid")} /\ turn[t].knows \in SUBSET Scopes
      /\ turn[t].lane = Neutral("direct") => turn[t].knows = {}
      /\ turn[t].lane \in Lanes => turn[t].knows \subseteq {turn[t].lane.scope}
  BY <1>1 DEF PartInv, Handling
<1>3. PICK m : m = [turn |-> t, role |-> "assistant", lane |-> turn[t].lane, cut |-> FALSE, knows |-> turn[t].knows]
  OBVIOUS
<1>4. m \in Row /\ Clean(m) /\ m.turn = t /\ m.role = "assistant" /\ m.lane = turn[t].lane
  BY <1>2, <1>3 DEF Row, Clean
<1>5. msgs' = Append(msgs, m)
  BY <1>3 DEF SaveAnswer, AddMessage
<1>6. /\ turn' \in [Turns -> Handling] /\ turn'[t].pc = "record" /\ turn'[t].lane = turn[t].lane
      /\ turn'[t].ctx = turn[t].ctx /\ turn'[t].knows = turn[t].knows /\ \A u \in Turns \ {t} : turn'[u] = turn[u]
  BY <1>1, GotoFacts
<1>7. PartInv(turn'[t])
  BY <1>1, <1>6 DEF PartInv, Working
<1>8. TrackInv(t)'
  <2>1. /\ Len(msgs) \in Nat /\ DOMAIN msgs = 1..Len(msgs) /\ DOMAIN msgs' = 1..(Len(msgs) + 1)
        /\ msgs'[Len(msgs) + 1] = m /\ \A i \in DOMAIN msgs : msgs'[i] = msgs[i]
    BY <1>4, <1>5, RowAdded DEF IInv, TypeOK
  <2>2. PICK l : l = turn[t].lane
    OBVIOUS
  <2>3. PICK i \in DOMAIN msgs : UserRow(t, l, i)
    BY <1>1, <2>2 DEF TrackInv, Accepted
  <2>4. Exchange(t, l)'
    <3>1. i \in DOMAIN msgs' /\ Len(msgs) + 1 \in DOMAIN msgs' /\ i < Len(msgs) + 1 /\ UserRow(t, l, i)'
      BY <2>1, <2>3 DEF UserRow
    <3> QED
      BY <1>4, <2>1, <2>2, <3>1 DEF Exchange
  <2>5. t \notin extracts'
    BY <1>1 DEF TrackInv, SaveAnswer
  <2>6. Exchange(t, turn[t].lane)'
    BY <1>6, <2>2, <2>4
  <2> QED
    BY <1>6, <2>5, <2>6 DEF TrackInv, Accepted, Working
<1>9. turn'[t].ctx.rows \subseteq DOMAIN msgs /\ OnlyTurn(t)
  BY <1>1, <1>6 DEF OnlyTurn, SaveAnswer
<1> QED
  BY <1>4, <1>5, <1>6, <1>7, <1>8, <1>9, RowStep DEF SaveAnswer

LEMMA InterruptStep ==
    ASSUME IInv, NEW i \in DOMAIN msgs, Interrupt(i)
    PROVE  IInv'
<1>1. msgs \in Seq(Row) /\ Len(msgs) \in Nat /\ i \in 1..Len(msgs) /\ DOMAIN msgs = 1..Len(msgs)
  BY LenProperties DEF IInv, TypeOK
<1>2. PICK e : e = msgs[i]
  OBVIOUS
<1>3. e \in Row
  BY <1>1, <1>2, ElementOfSeq
<1> DEFINE m == [e EXCEPT !.cut = TRUE]
<1>4. m \in Row /\ m.turn = e.turn /\ m.role = e.role /\ m.lane = e.lane /\ m.knows = e.knows
  BY <1>3 DEF Row
<1>5. msgs' = [msgs EXCEPT ![i] = m]
  BY <1>2 DEF Interrupt
<1> HIDE DEF m
<1>6. /\ msgs' \in Seq(Row) /\ Len(msgs') = Len(msgs)
      /\ \A j \in 1..Len(msgs) : msgs'[j] = IF j = i THEN m ELSE msgs[j]
  BY <1>1, <1>4, <1>5, ExceptSeq
<1>7. DOMAIN msgs' = DOMAIN msgs
  BY <1>1, <1>6, LenProperties
<1>8. RowsKept
  BY <1>1, <1>2, <1>4, <1>6, <1>7 DEF RowsKept
<1>9. \A j \in DOMAIN msgs' : Clean(msgs'[j])
  BY <1>1, <1>2, <1>4, <1>6, <1>7 DEF IInv, ConversationInv, KnowledgeInv, Clean
<1>10. /\ KnowledgeInv' /\ WorkerInv' /\ SummaryCountsOnce'
       /\ summary' \in [Lanes -> [to : 0..Len(msgs'), count : 0..Len(msgs'), knows : SUBSET Scopes]]
       /\ worker' \in [busy : BOOLEAN, lane : Lanes \union {NoLane}, to : 0..Len(msgs'), new : Nat,
                       knows : SUBSET Scopes]
  <2>1. Len(msgs') >= Len(msgs) /\ summary' = summary /\ worker' = worker /\ jobs' = jobs
    BY <1>1, <1>6 DEF Interrupt
  <2> QED
    BY <1>6, <1>8, <1>9, <2>1, CountsStay
<1>11. TypeOK'
  BY <1>6, <1>7, <1>10 DEF IInv, TypeOK, Interrupt
<1>12. (\A u \in Turns : PartInv(turn[u]) /\ TrackInv(u))'
  <2> SUFFICES ASSUME NEW u \in Turns PROVE PartInv(turn'[u]) /\ TrackInv(u)'
    OBVIOUS
  <2>1. TrackInv(u)'
    BY <1>8, TracksStay DEF IInv, ConversationInv, Interrupt
  <2> QED
    BY <2>1 DEF IInv, ConversationInv, Interrupt
<1> QED
  BY <1>10, <1>11, <1>12 DEF IInv, ConversationInv

-------------------------------------------------------------------------------
(* Summaries *)

(* The worker's steps leave the turns alone.                                *)
LEMMA WorkerStep ==
    ASSUME IInv, UNCHANGED <<msgs, title, turn, recorded, pending, extracts>>,
           summary' \in [Lanes -> [to : 0..Len(msgs), count : 0..Len(msgs), knows : SUBSET Scopes]],
           worker' \in [busy : BOOLEAN, lane : Lanes \union {NoLane}, to : 0..Len(msgs), new : Nat, knows : SUBSET Scopes],
           jobs' \in Seq(Lanes), faults' \in 0..MaxFaults, KnowledgeInv', WorkerInv', SummaryCountsOnce'
    PROVE  IInv'
<1>1. TypeOK'
  BY DEF IInv, TypeOK
<1>2. (\A u \in Turns : PartInv(turn[u]) /\ TrackInv(u))'
  <2>1. RowsKept
    BY DEF RowsKept
  <2> SUFFICES ASSUME NEW u \in Turns PROVE PartInv(turn'[u]) /\ TrackInv(u)'
    OBVIOUS
  <2>2. TrackInv(u)'
    BY <2>1, TracksStay DEF IInv, ConversationInv
  <2> QED
    BY <2>2 DEF IInv, ConversationInv
<1> QED
  BY <1>1, <1>2 DEF IInv, ConversationInv

LEMMA RetrySummaryStep ==
    ASSUME IInv, RetrySummary
    PROVE  IInv'
<1>1. Idle \in [busy : BOOLEAN, lane : Lanes \union {NoLane}, to : 0..Len(msgs), new : Nat, knows : SUBSET Scopes]
      /\ ~Idle.busy
  BY LenProperties DEF Idle, IInv, TypeOK
<1>2. faults' \in 0..MaxFaults
  BY ConversationConstants DEF RetrySummary, IInv, TypeOK
<1>3. KnowledgeInv' /\ WorkerInv' /\ SummaryCountsOnce'
  BY <1>1 DEF RetrySummary, IInv, ConversationInv, KnowledgeInv, WorkerInv, SummaryCountsOnce, Visible
<1> QED
  BY <1>1, <1>2, <1>3, WorkerStep DEF RetrySummary, IInv, TypeOK

(* Rows have finitely many numbers.                                         *)
LEMMA RowsAreFinite ==
    ASSUME TypeOK, NEW S \in SUBSET DOMAIN msgs
    PROVE  /\ IsFiniteSet(S) /\ Cardinality(S) \in 0..Len(msgs) /\ S \in SUBSET Int
           /\ Len(msgs) \in Nat /\ DOMAIN msgs = 1..Len(msgs)
<1>1. Len(msgs) \in Nat /\ DOMAIN msgs = 1..Len(msgs)
  BY LenProperties DEF TypeOK
<1>2. PICK n \in Nat : n = Len(msgs)
  BY <1>1
<1>3. 1 \in Int /\ n \in Int
  BY <1>2
<1>4. IsFiniteSet(1..n) /\ Cardinality(1..n) = IF 1 > n THEN 0 ELSE n - 1 + 1
  BY <1>3, FS_Interval
<1>5. Cardinality(1..n) = n /\ S \in SUBSET (1..n)
  BY <1>1, <1>2, <1>4
<1>6. IsFiniteSet(S) /\ Cardinality(S) <= n
  BY <1>4, <1>5, FS_Subset
<1>7. Cardinality(S) \in Nat
  BY <1>6, FS_CardinalityType
<1>8. Cardinality(S) \in 0..n /\ S \in SUBSET Int
  BY <1>2, <1>5, <1>6, <1>7
<1> QED
  BY <1>1, <1>2, <1>6, <1>8

LEMMA ReadUnsummarizedStep ==
    ASSUME IInv, ReadUnsummarized
    PROVE  IInv'
<1>1. TypeOK /\ KnowledgeInv /\ jobs \in Seq(Lanes) /\ jobs # <<>> /\ ~worker.busy
  BY DEF IInv, TypeOK, ConversationInv, ReadUnsummarized
<1>2. PICK l : l = Head(jobs)
  OBVIOUS
<1>3. l \in Lanes /\ Tail(jobs) \in Seq(Lanes) /\ l.scope \in Scopes
  BY <1>1, <1>2, HeadTailProperties, LaneFacts
<1>4. PICK rows : rows = Unsummarized(l)
  OBVIOUS
<1>5. rows \in SUBSET DOMAIN msgs /\ rows \subseteq Visible(l.scope)
  BY <1>4 DEF Unsummarized, Visible
<1>6. /\ IsFiniteSet(rows) /\ Cardinality(rows) \in 0..Len(msgs) /\ rows \in SUBSET Int
      /\ Len(msgs) \in Nat /\ DOMAIN msgs = 1..Len(msgs)
  BY <1>1, <1>5, RowsAreFinite
<1>7. /\ \A s : Visible(s)' = Visible(s)
      /\ \A k, from, to : Between(k, from, to)' = Between(k, from, to)
  BY DEF ReadUnsummarized, Visible, Between
<1>8. SummaryCountsOnce'
  BY <1>7 DEF ReadUnsummarized, IInv, ConversationInv, SummaryCountsOnce
<1>9. CASE rows = {}
  <2>1. jobs' = Tail(jobs) /\ worker' = worker
    BY <1>2, <1>4, <1>9 DEF ReadUnsummarized
  <2>2. KnowledgeInv' /\ WorkerInv'
    BY <1>1, <2>1 DEF ReadUnsummarized, KnowledgeInv, WorkerInv
  <2> QED
    BY <1>3, <1>8, <2>1, <2>2, WorkerStep DEF ReadUnsummarized, IInv, TypeOK
<1>10. CASE rows # {}
  <2>1. PICK m, knows : m = Max(rows) /\ knows = UNION {msgs[i].knows : i \in rows}
    OBVIOUS
  <2>2. m \in rows /\ \A i \in rows : m >= i
    BY <1>6, <1>10, <2>1, MaxProperties
  <2>3. jobs' = jobs /\ worker' = [busy |-> TRUE, lane |-> l, to |-> m, new |-> Cardinality(rows), knows |-> knows]
    BY <1>2, <1>4, <1>10, <2>1 DEF ReadUnsummarized
  <2>4. knows \subseteq {l.scope}
    <3> DEFINE stores == {msgs[i].knows : i \in rows}
    <3>1. \A e \in stores : e \subseteq {l.scope}
      BY <1>1, <1>3, <1>5, VisibleIsClean
    <3>2. knows = UNION stores
      BY <2>1
    <3> HIDE DEF stores
    <3> QED
      BY <3>1, <3>2
  <2>5. m \in 0..Len(msgs) /\ Cardinality(rows) \in Nat /\ knows \in SUBSET Scopes
    BY <1>3, <1>5, <1>6, <2>2, <2>4
  <2>6. summary[l].to \in 0..Len(msgs) /\ summary[l].to <= m /\ rows = Between(l, summary[l].to, m)
    <3>1. summary[l].to \in 0..Len(msgs)
      BY <1>1, <1>3 DEF TypeOK
    <3>2. \A i \in rows : i > summary[l].to
      BY <1>4 DEF Unsummarized
    <3>3. summary[l].to <= m
      BY <1>5, <1>6, <2>2, <3>1, <3>2
    <3>4. \A i : i \in rows <=> i \in Visible(l.scope) /\ i > summary[l].to /\ i <= m
      BY <1>4, <1>5, <1>6, <2>2 DEF Unsummarized
    <3>5. \A i \in Visible(l.scope) : i \in Int
      BY <1>6 DEF Visible
    <3>6. \A i : i \in Between(l, summary[l].to, m) <=> i \in rows
      BY <3>1, <3>4, <3>5 DEF Between
    <3> QED
      BY <3>1, <3>3, <3>6
  <2>7. worker' \in [busy : BOOLEAN, lane : Lanes \union {NoLane}, to : 0..Len(msgs), new : Nat, knows : SUBSET Scopes]
    BY <1>3, <2>3, <2>5
  <2>8. /\ worker'.busy /\ worker'.lane = l /\ worker'.to = m /\ worker'.new = Cardinality(rows)
        /\ worker'.knows = knows
    BY <2>3
  <2>9. KnowledgeInv'
    BY <1>1, <1>3, <2>4, <2>8 DEF KnowledgeInv, ReadUnsummarized
  <2>10. WorkerInv'
    <3>1. summary' = summary
      BY DEF ReadUnsummarized
    <3>2. Between(l, summary[l].to, m)' = rows
      BY <2>6, <1>7, <3>1
    <3> QED
      BY <1>1, <2>3, <2>6, <2>8, <3>1, <3>2 DEF WorkerInv
  <2> QED
    BY <1>1, <1>8, <2>3, <2>7, <2>9, <2>10, WorkerStep DEF ReadUnsummarized, IInv, TypeOK
<1> QED
  BY <1>9, <1>10

(* The rows behind a summary and the rows the job counted do not overlap    *)
(* and are the rows behind the new summary.                                 *)
LEMMA WriteSummaryStep ==
    ASSUME IInv, WriteSummary
    PROVE  IInv'
<1>1. TypeOK /\ KnowledgeInv /\ WorkerInv /\ SummaryCountsOnce /\ worker.busy
  BY DEF IInv, ConversationInv, WriteSummary
<1>2. PICK w : w = worker
  OBVIOUS
<1>3. PICK old : old = summary[w.lane]
  OBVIOUS
<1>4. /\ w.lane \in Lanes /\ w.to \in 0..Len(msgs) /\ w.new \in Nat /\ w.knows \in SUBSET Scopes
      /\ w.knows \subseteq {w.lane.scope} /\ jobs # <<>> /\ jobs \in Seq(Lanes) /\ old.to <= w.to
      /\ w.new = Cardinality(Between(w.lane, old.to, w.to))
  BY <1>1, <1>2, <1>3 DEF TypeOK, KnowledgeInv, WorkerInv
<1>5. /\ old.to \in 0..Len(msgs) /\ old.count \in 0..Len(msgs) /\ old.knows \in SUBSET Scopes
      /\ old.knows \subseteq {w.lane.scope}
      /\ old.count = Cardinality({i \in Visible(w.lane.scope) : i <= old.to})
  BY <1>1, <1>3, <1>4 DEF TypeOK, KnowledgeInv, SummaryCountsOnce
<1>6. PICK new : new = [to |-> w.to, count |-> old.count + w.new, knows |-> old.knows \union w.knows]
  OBVIOUS
<1>7. new.count \in 0..Len(msgs) /\ new.count = Cardinality({i \in Visible(w.lane.scope) : i <= w.to})
  <2> DEFINE A == {i \in Visible(w.lane.scope) : i <= old.to}
             B == Between(w.lane, old.to, w.to)
             C == {i \in Visible(w.lane.scope) : i <= w.to}
  <2>1. A \in SUBSET DOMAIN msgs /\ B \in SUBSET DOMAIN msgs /\ C \in SUBSET DOMAIN msgs
    BY DEF Visible, Between
  <2>2. DOMAIN msgs \subseteq Int
    BY <1>1, <2>1, RowsAreFinite
  <2>3. C = A \union B /\ A \intersect B = {}
    <3>1. old.to \in Int /\ w.to \in Int /\ old.to <= w.to /\ \A i \in Visible(w.lane.scope) : i \in Int
      BY <1>4, <1>5, <2>2 DEF Visible
    <3>2. \A i \in Visible(w.lane.scope) : /\ i <= w.to <=> i <= old.to \/ (old.to < i /\ i <= w.to)
                                           /\ ~(i <= old.to /\ old.to < i)
      BY <3>1
    <3> QED
      BY <3>2 DEF Between
  <2> HIDE DEF A, B, C
  <2>4. /\ IsFiniteSet(A) /\ IsFiniteSet(B) /\ Cardinality(A) \in 0..Len(msgs) /\ Cardinality(B) \in 0..Len(msgs)
        /\ Cardinality(C) \in 0..Len(msgs)
    BY <1>1, <2>1, RowsAreFinite
  <2>5. Cardinality(A \union B) = Cardinality(A) + Cardinality(B) - Cardinality(A \intersect B)
    BY <2>4, FS_Union
  <2>6. Cardinality(C) = Cardinality(A) + Cardinality(B)
    <3>1. Cardinality(A \intersect B) = 0
      BY <2>3, FS_EmptySet
    <3>2. Cardinality(A) \in Int /\ Cardinality(B) \in Int
      BY <2>4, RowsAreFinite, <1>1, <2>1
    <3> QED
      BY <2>3, <2>5, <3>1, <3>2
  <2>7. old.count = Cardinality(A) /\ w.new = Cardinality(B) /\ new.count = old.count + w.new
    BY <1>4, <1>5, <1>6 DEF A, B
  <2> QED
    BY <2>4, <2>6, <2>7 DEF C
<1>8. new \in [to : 0..Len(msgs), count : 0..Len(msgs), knows : SUBSET Scopes] /\ new.to = w.to
      /\ new.knows \subseteq {w.lane.scope}
  BY <1>4, <1>5, <1>6, <1>7
<1>9. summary' = [summary EXCEPT ![w.lane] = new] \/ summary' = summary
  BY <1>2, <1>3, <1>6 DEF WriteSummary
<1>10. /\ summary' \in [Lanes -> [to : 0..Len(msgs), count : 0..Len(msgs), knows : SUBSET Scopes]]
       /\ \A l \in Lanes : summary'[l] = summary[l] \/ (l = w.lane /\ summary'[l] = new)
  <2> DEFINE Summaries == [to : 0..Len(msgs), count : 0..Len(msgs), knows : SUBSET Scopes]
  <2>1. summary \in [Lanes -> Summaries] /\ new \in Summaries /\ w.lane \in Lanes
    BY <1>1, <1>4, <1>8 DEF TypeOK
  <2> HIDE DEF Summaries
  <2>2. /\ summary' \in [Lanes -> Summaries]
        /\ \A l \in Lanes : summary'[l] = summary[l] \/ (l = w.lane /\ summary'[l] = new)
    <3>1. CASE summary' = summary
      BY <2>1, <3>1
    <3>2. CASE summary' = [summary EXCEPT ![w.lane] = new]
      <4>1. /\ summary' \in [Lanes -> Summaries] /\ summary'[w.lane] = new
            /\ \A l \in Lanes \ {w.lane} : summary'[l] = summary[l]
        BY <2>1, <3>2
      <4> QED
        BY <4>1
    <3> QED
      BY <1>9, <3>1, <3>2
  <2> QED
    BY <2>2 DEF Summaries
<1>11. \A s : Visible(s)' = Visible(s)
  BY DEF WriteSummary, Visible
<1>12. SummaryCountsOnce'
  <2> SUFFICES ASSUME NEW l \in Lanes
               PROVE  summary'[l].count = Cardinality({i \in Visible(l.scope) : i <= summary'[l].to})
    BY <1>11 DEF SummaryCountsOnce
  <2> QED
    BY <1>1, <1>7, <1>8, <1>10 DEF SummaryCountsOnce
<1>13. jobs' \in Seq(Lanes) /\ worker' = Idle
  BY <1>4, HeadTailProperties DEF WriteSummary
<1>14. Idle \in [busy : BOOLEAN, lane : Lanes \union {NoLane}, to : 0..Len(msgs), new : Nat, knows : SUBSET Scopes]
       /\ ~Idle.busy
  BY LenProperties DEF Idle, IInv, TypeOK
<1>15. KnowledgeInv' /\ WorkerInv'
  BY <1>1, <1>8, <1>10, <1>13, <1>14 DEF KnowledgeInv, WorkerInv, WriteSummary
<1> QED
  BY <1>10, <1>12, <1>13, <1>14, <1>15, WorkerStep DEF WriteSummary, IInv, TypeOK

-------------------------------------------------------------------------------
(* Theorems *)

LEMMA Initially == Init => IInv
<1> SUFFICES ASSUME Init PROVE IInv
  OBVIOUS
<1>1. msgs = <<>> /\ jobs = <<>> /\ msgs \in Seq(Row) /\ jobs \in Seq(Lanes) /\ Len(msgs) = 0 /\ DOMAIN msgs = {}
  BY EmptySeq, LenProperties DEF Init
<1>2. /\ Resting \in Handling /\ Resting.pc = "idle" /\ Resting.lane = NoLane /\ Resting.rest = NoLane
      /\ Resting.knows = {} /\ Resting.ctx.rows = {}
  BY DEF Resting, Handling, NoContext, Steps
<1>3. /\ summary \in [Lanes -> [to : 0..Len(msgs), count : 0..Len(msgs), knows : SUBSET Scopes]]
      /\ \A l \in Lanes : summary[l].knows = {} /\ summary[l].to = 0 /\ summary[l].count = 0
  BY <1>1 DEF Init
<1>4. worker \in [busy : BOOLEAN, lane : Lanes \union {NoLane}, to : 0..Len(msgs), new : Nat, knows : SUBSET Scopes]
      /\ ~worker.busy
  BY <1>1 DEF Init, Idle
<1>5. TypeOK
  BY <1>1, <1>2, <1>3, <1>4, ConversationConstants DEF Init, TypeOK
<1>6. \A t \in Turns : PartInv(turn[t]) /\ TrackInv(t)
  BY <1>2, LaneFacts DEF Init, PartInv, TrackInv, Working, Accepted
<1>7. KnowledgeInv /\ WorkerInv
  BY <1>1, <1>3, <1>4 DEF KnowledgeInv, WorkerInv
<1>8. SummaryCountsOnce
  <2>1. \A s : Visible(s) = {}
    BY <1>1 DEF Visible
  <2>2. \A l \in Lanes : {i \in Visible(l.scope) : i <= summary[l].to} = {}
    BY <2>1
  <2> QED
    BY <1>3, <2>2, FS_EmptySet DEF SummaryCountsOnce
<1> QED
  BY <1>5, <1>6, <1>7, <1>8 DEF IInv, ConversationInv

LEMMA NextStep == IInv /\ [Next]_vars => IInv'
<1> SUFFICES ASSUME IInv, [Next]_vars PROVE IInv'
  OBVIOUS
<1>1. CASE UNCHANGED vars
  <2>1. \A s : Visible(s)' = Visible(s)
    BY <1>1 DEF vars, Visible
  <2>2. SummaryCountsOnce'
    BY <1>1, <2>1 DEF vars, IInv, ConversationInv, SummaryCountsOnce
  <2>3. KnowledgeInv' /\ WorkerInv'
    BY <1>1, <2>1 DEF vars, IInv, ConversationInv, KnowledgeInv, WorkerInv, Between
  <2> QED
    BY <1>1, <2>2, <2>3, WorkerStep DEF vars, IInv, TypeOK
<1>2. CASE \E t \in Turns : Begin(t) \/ Throw(t)
  BY <1>2, BeginStep, ThrowStep
<1>3. CASE \E t \in Turns : Advance(t)
  BY <1>3, RouteStep, SaveUserStep, DispatchStep, ReadSummaryStep, ReadHistoryStep, SplitHybridStep,
     HandleDirectStep, HandleStep, ResolveToolCallStep, SummarizeToolResultStep, SaveAnswerStep, RecordStep,
     TitleStep, EnqueueExtractionStep, CheckSummaryStep DEF Advance, PersonalAgent, ProfessionalAgent
<1>4. CASE \E i \in DOMAIN msgs : Interrupt(i)
  BY <1>4, InterruptStep
<1>5. CASE ReadUnsummarized \/ WriteSummary \/ RetrySummary
  BY <1>5, ReadUnsummarizedStep, WriteSummaryStep, RetrySummaryStep
<1> QED
  BY <1>1, <1>2, <1>3, <1>4, <1>5 DEF Next

LEMMA Invariant == Spec => []IInv
<1> QED
  BY Initially, NextStep, PTL DEF Spec

(* "Personal never sees professional and vice versa": however turns of one  *)
(* conversation, interruptions and summary jobs interleave and fail, what   *)
(* an agent is handed was generated from the stores of its scope only       *)
(* (getScopedHistory, ContextBuilder.build, dispatchSplitHybrid).           *)
THEOREM ScopesStayApart == Spec => []ScopeIsolation
<1>1. IInv => ScopeIsolation
  BY DEF IInv, ConversationInv, PartInv, ScopeIsolation, Working
<1> QED
  BY <1>1, Invariant, PTL

(* Each row is counted by the summary of a lane once and is not handed to a *)
(* model beside it; memories are extracted from complete exchanges of one   *)
(* lane that asked for nothing (ConversationSummaryService, handleMessage). *)
THEOREM RowsAreUsedOnce == Spec => []RowsUsedOnce
<1>1. IInv => RowsUsedOnce
  <2> SUFFICES ASSUME IInv PROVE RowsUsedOnce
    OBVIOUS
  <2>1. HistoryNeverRepeats
    BY DEF IInv, ConversationInv, PartInv, HistoryNeverRepeats
  <2>2. ExtractionOfExchange
    <3> SUFFICES ASSUME NEW t \in extracts
                 PROVE  /\ ~Returned(t)
                        /\ \E i, j \in DOMAIN msgs :
                              /\ i < j /\ msgs[i].turn = t /\ msgs[j].turn = t
                              /\ msgs[i].role = "user" /\ msgs[j].role = "assistant"
                              /\ msgs[i].lane = msgs[j].lane /\ msgs[i].lane \in Lanes
      BY DEF ExtractionOfExchange
    <3>1. t \in Turns /\ TrackInv(t)
      BY DEF IInv, TypeOK, ConversationInv
    <3>2. ~Returned(t) /\ \E l \in Lanes : Exchange(t, l)
      BY <3>1 DEF TrackInv
    <3>3. PICK l \in Lanes : Exchange(t, l)
      BY <3>2
    <3> QED
      BY <3>2, <3>3 DEF Exchange, UserRow
  <2> QED
    BY <2>1, <2>2 DEF IInv, ConversationInv, RowsUsedOnce
<1> QED
  BY <1>1, Invariant, PTL
===============================================================================
