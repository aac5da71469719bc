---------------------------- MODULE KnowledgeProofs ----------------------------
(***************************************************************************)
(* Proofs about what Mora knows: the facts of the essential profile, the   *)
(* memories and the documents, each for any number of jobs, writers,       *)
(* uploads, workers, attempts and faults.                                  *)
(***************************************************************************)
EXTENDS ProfileFacts, MemoryStore, Documents, FiniteSetTheorems, SequenceTheorems, TLAPS

-------------------------------------------------------------------------------
(* Profile facts *)

LEMMA FactFacts ==
    ASSUME FactTypeOK
    PROVE  /\ facts \in Seq(FactRow) /\ Len(facts) \in Nat /\ DOMAIN facts = 1..Len(facts)
           /\ \A i \in DOMAIN facts : facts[i] \in FactRow
           /\ upsert \in [FactJobs -> Upsert] /\ factFaults \in Nat
           /\ FactAttempts \in Nat \ {0} /\ FactMaxFaults \in Nat
           /\ facts # <<>> <=> Len(facts) > 0
           /\ ActiveFacts \subseteq 1..Len(facts)
BY ElementOfSeq, LenProperties, EmptySeq, FactConstants DEF FactTypeOK, ActiveFacts

(* The rows and the runs are finitely many, so counting them makes sense. *)
LEMMA FactCounts ==
    ASSUME FactTypeOK
    PROVE  /\ IsFiniteSet(ActiveFacts) /\ Cardinality(ActiveFacts) \in Nat
           /\ IsFiniteSet(Runs) /\ Cardinality(Runs) \in Nat
           /\ IsFiniteSet(Marking) /\ Cardinality(Marking) \in Nat
<1>1. IsFiniteSet(1..Len(facts))
    BY FS_Interval, FactFacts
<1>2. IsFiniteSet(ActiveFacts) /\ Cardinality(ActiveFacts) \in Nat
    BY <1>1, FS_Subset, FS_CardinalityType, FactFacts
<1>3. IsFiniteSet(Runs) /\ Cardinality(Runs) \in Nat
    BY FS_Subset, FS_CardinalityType, FactConstants DEF Runs
<1>4. IsFiniteSet(Marking) /\ Cardinality(Marking) \in Nat
    BY FS_Subset, FS_CardinalityType, FactConstants DEF Marking
<1> QED
    BY <1>2, <1>3, <1>4

(* One job moves to u: the sets of runs and of marking runs follow it. *)
LEMMA UpsertMoves ==
    ASSUME FactTypeOK, NEW j \in FactJobs, NEW u \in Upsert, upsert' = [upsert EXCEPT ![j] = u]
    PROVE  /\ upsert' \in [FactJobs -> Upsert] /\ upsert'[j] = u
           /\ \A k \in FactJobs \ {j} : upsert'[k] = upsert[k]
           /\ \A k \in FactJobs \ {j} : k \in Runs' <=> k \in Runs
           /\ j \in Runs' <=> u.pc \in {"find", "create", "bump", "mark"}
           /\ j \in Runs <=> Running(j)
           /\ Cardinality(Runs') = IF j \in Runs /\ j \notin Runs' THEN Cardinality(Runs) - 1
                                   ELSE IF j \notin Runs /\ j \in Runs' THEN Cardinality(Runs) + 1
                                   ELSE Cardinality(Runs)
           /\ Cardinality(Marking') = IF upsert[j].pc = "mark" /\ u.pc # "mark" THEN Cardinality(Marking) - 1
                                      ELSE IF upsert[j].pc # "mark" /\ u.pc = "mark" THEN Cardinality(Marking) + 1
                                      ELSE Cardinality(Marking)
<1>1. /\ upsert' \in [FactJobs -> Upsert] /\ upsert'[j] = u
      /\ \A k \in FactJobs \ {j} : upsert'[k] = upsert[k]
    BY FactFacts
<1>2. /\ \A k \in FactJobs \ {j} : k \in Runs' <=> k \in Runs
      /\ j \in Runs' <=> u.pc \in {"find", "create", "bump", "mark"}
      /\ j \in Runs <=> Running(j)
    BY <1>1 DEF Runs, Running
<1>3. Runs' = IF j \in Runs' THEN Runs \union {j} ELSE Runs \ {j}
    BY <1>2 DEF Runs
<1>4. Cardinality(Runs') = IF j \in Runs /\ j \notin Runs' THEN Cardinality(Runs) - 1
                           ELSE IF j \notin Runs /\ j \in Runs' THEN Cardinality(Runs) + 1
                           ELSE Cardinality(Runs)
    BY <1>3, FactCounts, FS_AddElement, FS_RemoveElement
<1>5. Marking' = IF u.pc = "mark" THEN Marking \union {j} ELSE Marking \ {j}
    BY <1>1 DEF Marking
<1>6. j \in Marking <=> upsert[j].pc = "mark"
    BY DEF Marking
<1>7. Cardinality(Marking') = IF upsert[j].pc = "mark" /\ u.pc # "mark" THEN Cardinality(Marking) - 1
                              ELSE IF upsert[j].pc # "mark" /\ u.pc = "mark" THEN Cardinality(Marking) + 1
                              ELSE Cardinality(Marking)
    BY <1>5, <1>6, FactCounts, FS_AddElement, FS_RemoveElement
<1> QED
    BY <1>1, <1>2, <1>4, <1>7

FactIInv == FactTypeOK /\ FactInv

LEMMA CommitFactStep ==
    ASSUME FactIInv, NEW j \in FactJobs, NEW v \in FactValues, NEW c \in Confidences, CommitEssentialFacts(j, v, c)
    PROVE  FactIInv'
<1> USE DEF FactIInv, FactInv
<1> DEFINE u == [[[upsert[j] EXCEPT !.pc = "find"] EXCEPT !.value = v] EXCEPT !.confidence = c]
<1>1. /\ upsert' = [upsert EXCEPT ![j] = u] /\ UNCHANGED facts /\ factFaults' <= FactMaxFaults
      /\ factFaults' = IF Runs # {} THEN factFaults + 1 ELSE factFaults
      /\ upsert[j].pc = "idle"
    BY FactFacts DEF CommitEssentialFacts, Runs, Upsert
<1>2. /\ u \in Upsert /\ u.pc = "find" /\ u.found = upsert[j].found
      /\ u.made = upsert[j].made /\ u.tries = upsert[j].tries
    BY FactFacts DEF Upsert
<1> HIDE DEF u
<1>3. /\ upsert' \in [FactJobs -> Upsert] /\ upsert'[j] = u
      /\ \A k \in FactJobs \ {j} : upsert'[k] = upsert[k]
      /\ j \notin Runs /\ j \in Runs'
      /\ Cardinality(Runs') = Cardinality(Runs) + 1 /\ Cardinality(Marking') = Cardinality(Marking)
    BY <1>1, <1>2, UpsertMoves DEF Running
<1>4. FactTypeOK'
    BY <1>1, <1>2, <1>3, FactFacts DEF FactTypeOK
<1>5. MarkInv'
  <2>1. ActiveFacts' = ActiveFacts
    BY <1>1 DEF ActiveFacts
  <2> QED
    BY <1>1, <1>2, <1>3, <2>1 DEF MarkInv, Running
<1>6. CountInv'
  <2>1. ActiveFacts' = ActiveFacts /\ ~Overtaken(j)'
    BY <1>1, <1>2, <1>3 DEF ActiveFacts, Overtaken
  <2>2. CASE Runs # {}
    BY <1>1, <1>3, <2>1, <2>2, FactCounts, FactFacts, SMTT(60) DEF CountInv
  <2>3. CASE Runs = {}
    <3>1. Cardinality(Runs) = 0 /\ Cardinality(Marking) = 0
      <4>1. Marking = {}
        BY <2>3 DEF Runs, Marking, Running
      <4> QED
        BY <4>1, <2>3, FS_EmptySet
    <3> QED
      BY <1>1, <1>3, <2>1, <2>3, <3>1, FactCounts, FactFacts DEF CountInv
  <2> QED
    BY <2>2, <2>3
<1> QED
    BY <1>4, <1>5, <1>6

LEMMA FindFactStep ==
    ASSUME FactIInv, NEW j \in FactJobs, FindFact(j)
    PROVE  FactIInv'
<1> USE DEF FactIInv, FactInv
<1>1. PICK i \in IF ActiveFacts = {} THEN {0} ELSE ActiveFacts :
        upsert' = [upsert EXCEPT ![j].found = i, ![j].seen = IF i = 0 THEN 0 ELSE facts[i].confidence,
                    ![j].pc = IF i # 0 /\ facts[i].value = upsert[j].value THEN "bump" ELSE "create"]
    BY DEF FindFact
<1> DEFINE s == IF i = 0 THEN 0 ELSE facts[i].confidence
           p == IF i # 0 /\ facts[i].value = upsert[j].value THEN "bump" ELSE "create"
           u == [[[upsert[j] EXCEPT !.found = i] EXCEPT !.seen = s] EXCEPT !.pc = p]
<1>2. i \in Nat /\ i <= Len(facts) /\ (i = 0 => ActiveFacts = {}) /\ (i # 0 => i \in ActiveFacts /\ i \in DOMAIN facts)
    BY FactFacts
<1>3. s \in {0} \union Confidences
    BY <1>2, FactFacts DEF FactRow
<1>4. /\ upsert' = [upsert EXCEPT ![j] = u] /\ UNCHANGED facts /\ UNCHANGED factFaults
      /\ upsert[j].pc = "find"
    BY <1>1, FactFacts DEF FindFact, Upsert
<1>5. p \in {"bump", "create"} /\ (p = "bump" => i # 0)
    OBVIOUS
<1> HIDE DEF s, p
<1>6. /\ u \in Upsert /\ u.pc = p /\ u.found = i
      /\ u.made = upsert[j].made /\ u.tries = upsert[j].tries
    BY <1>2, <1>3, <1>5, FactFacts DEF Upsert
<1> HIDE DEF u
<1>7. /\ upsert' \in [FactJobs -> Upsert] /\ upsert'[j] = u
      /\ \A k \in FactJobs \ {j} : upsert'[k] = upsert[k]
      /\ j \in Runs /\ j \in Runs'
      /\ Cardinality(Runs') = Cardinality(Runs) /\ Cardinality(Marking') = Cardinality(Marking)
    BY <1>4, <1>5, <1>6, UpsertMoves DEF Running
<1>8. ActiveFacts' = ActiveFacts
    BY <1>4 DEF ActiveFacts
<1>9. FactTypeOK'
    BY <1>2, <1>4, <1>6, <1>7, FactFacts DEF FactTypeOK
<1>10. MarkInv'
    BY <1>2, <1>4, <1>5, <1>6, <1>7, <1>8 DEF MarkInv, Running
<1>11. CountInv'
  <2>1. CASE i = 0
    <3>1. Cardinality(ActiveFacts) = 0
      BY <2>1, <1>2, FS_EmptySet
    <3> QED
      BY <3>1, <1>4, <1>7, <1>8, FactCounts, FactFacts DEF CountInv
  <2>2. CASE i # 0
    <3>1. ~Overtaken(j)'
      BY <2>2, <1>2, <1>6, <1>7, <1>8 DEF Overtaken
    <3> QED
      BY <3>1, <1>4, <1>7, <1>8, FactCounts, FactFacts DEF CountInv
  <2> QED
    BY <2>1, <2>2
<1> QED
    BY <1>9, <1>10, <1>11
(* The row of a profile key that a step changes, e in its place. *)
LEMMA FactChanges ==
    ASSUME FactTypeOK, NEW i \in DOMAIN facts, NEW e \in FactRow, facts' = [facts EXCEPT ![i] = e]
    PROVE  /\ facts' \in Seq(FactRow) /\ Len(facts') = Len(facts) /\ DOMAIN facts' = DOMAIN facts
           /\ \A k \in DOMAIN facts : facts'[k] = IF k = i THEN e ELSE facts[k]
           /\ ActiveFacts' = IF e.status = "active" THEN ActiveFacts \union {i} ELSE ActiveFacts \ {i}
<1>1. /\ facts' \in Seq(FactRow) /\ Len(facts') = Len(facts) /\ DOMAIN facts' = DOMAIN facts
      /\ \A k \in DOMAIN facts : facts'[k] = IF k = i THEN e ELSE facts[k]
    BY FactFacts, ExceptSeq, LenProperties
<1> QED
    BY <1>1 DEF ActiveFacts

LEMMA BumpFactStep ==
    ASSUME FactIInv, NEW j \in FactJobs, BumpConfidence(j)
    PROVE  FactIInv'
<1> USE DEF FactIInv, FactInv
<1> DEFINE i == upsert[j].found
           c == IF upsert[j].seen < upsert[j].confidence THEN upsert[j].confidence ELSE upsert[j].seen
           e == [facts[i] EXCEPT !.confidence = c]
           u == [upsert[j] EXCEPT !.pc = "done"]
<1>1. i \in DOMAIN facts /\ facts[i] \in FactRow /\ upsert[j].pc = "bump" /\ upsert[j] \in Upsert
    BY FactFacts DEF BumpConfidence, MarkInv, FactTypeOK, Upsert
<1>2. c \in Confidences
    BY <1>1 DEF Upsert, Confidences
<1>3. facts' = [facts EXCEPT ![i] = e] /\ upsert' = [upsert EXCEPT ![j] = u] /\ UNCHANGED factFaults
    BY <1>1, FactFacts DEF BumpConfidence, FactRow, Upsert
<1> HIDE DEF c
<1>4. e \in FactRow /\ e.status = facts[i].status /\ e.by = facts[i].by
    BY <1>1, <1>2 DEF FactRow
<1>5. u \in Upsert /\ u.pc = "done" /\ u.found = upsert[j].found /\ u.made = upsert[j].made /\ u.tries = upsert[j].tries
    BY <1>1 DEF Upsert
<1> HIDE DEF e, u
<1>6. /\ facts' \in Seq(FactRow) /\ Len(facts') = Len(facts) /\ DOMAIN facts' = DOMAIN facts
      /\ \A k \in DOMAIN facts : facts'[k] = IF k = i THEN e ELSE facts[k]
      /\ ActiveFacts' = ActiveFacts
    BY <1>1, <1>3, <1>4, FactChanges, ZenonT(60) DEF ActiveFacts
<1>7. /\ upsert' \in [FactJobs -> Upsert] /\ upsert'[j] = u
      /\ \A k \in FactJobs \ {j} : upsert'[k] = upsert[k]
      /\ \A k \in FactJobs \ {j} : k \in Runs' <=> k \in Runs
      /\ j \in Runs /\ j \notin Runs'
      /\ Cardinality(Runs') = Cardinality(Runs) - 1 /\ Cardinality(Marking') = Cardinality(Marking)
    BY <1>1, <1>3, <1>5, UpsertMoves DEF Running
<1>8. FactTypeOK'
    BY <1>1, <1>3, <1>4, <1>5, <1>6, <1>7, FactFacts DEF FactTypeOK
<1>9. MarkInv'
    <2>1. facts' # <<>> <=> facts # <<>>
        BY <1>6, <1>8, FactFacts, EmptySeq, LenProperties
    <2> QED
        BY <2>1, <1>1, <1>5, <1>6, <1>7 DEF MarkInv, Running
<1>10. CountInv'
    BY <1>3, <1>6, <1>7, FactCounts, FactFacts, SMTT(60) DEF CountInv
<1> QED
    BY <1>8, <1>9, <1>10

LEMMA CreateFactStep ==
    ASSUME FactIInv, NEW j \in FactJobs, CreateFact(j)
    PROVE  FactIInv'
<1> USE DEF FactIInv, FactInv
<1> DEFINE n == Len(facts) + 1
           e == [value |-> upsert[j].value, confidence |-> upsert[j].confidence, status |-> "active", by |-> 0]
           p == IF upsert[j].found = 0 THEN "done" ELSE "mark"
           u == [[upsert[j] EXCEPT !.made = n] EXCEPT !.pc = p]
<1>1. /\ facts' = Append(facts, e) /\ upsert' = [upsert EXCEPT ![j] = u] /\ UNCHANGED factFaults
      /\ upsert[j].pc = "create" /\ upsert[j] \in Upsert /\ upsert[j].found \in Nat /\ upsert[j].found <= Len(facts)
    BY FactFacts DEF CreateFact, Upsert, FactTypeOK
<1>2. e \in FactRow /\ e.status = "active" /\ e.by = 0
    BY <1>1 DEF FactRow, Upsert
<1>3. n \in Nat
    BY FactFacts
<1>4. /\ u \in Upsert /\ u.pc = p /\ u.found = upsert[j].found /\ u.made = n /\ u.tries = upsert[j].tries
    BY <1>1, <1>3 DEF Upsert
<1> HIDE DEF e, u
<1>5. /\ facts' \in Seq(FactRow) /\ Len(facts') = n /\ DOMAIN facts' = 1..n
      /\ \A k \in DOMAIN facts : facts'[k] = facts[k]
      /\ facts'[n] = e
    BY <1>1, <1>2, FactFacts, AppendProperties, LenProperties
<1>6. /\ ActiveFacts' = ActiveFacts \union {n} /\ n \notin ActiveFacts
      /\ Cardinality(ActiveFacts') = Cardinality(ActiveFacts) + 1
  <2>1. ActiveFacts' = ActiveFacts \union {n} /\ n \notin ActiveFacts
    BY <1>2, <1>5, FactFacts DEF ActiveFacts
  <2> QED
    BY <2>1, FactCounts, FS_AddElement
<1>7. /\ upsert' \in [FactJobs -> Upsert] /\ upsert'[j] = u
      /\ \A k \in FactJobs \ {j} : upsert'[k] = upsert[k]
      /\ \A k \in FactJobs \ {j} : k \in Runs' <=> k \in Runs
      /\ j \in Runs /\ (j \in Runs' <=> p = "mark")
      /\ Cardinality(Runs') = IF p = "mark" THEN Cardinality(Runs) ELSE Cardinality(Runs) - 1
      /\ Cardinality(Marking') = IF p = "mark" THEN Cardinality(Marking) + 1 ELSE Cardinality(Marking)
    BY <1>1, <1>4, UpsertMoves DEF Running
<1>8. FactTypeOK'
  <2>1. \A k \in DOMAIN facts' : facts'[k].by <= Len(facts')
    <3>1. \A k \in DOMAIN facts : facts[k].by \in Nat /\ facts[k].by <= Len(facts) /\ facts'[k].by = facts[k].by
      BY <1>5, FactFacts DEF FactTypeOK, FactRow
    <3>2. facts'[n].by = 0
      BY <1>2, <1>5
    <3> QED
      BY <3>1, <3>2, <1>5, FactFacts
  <2>2. \A k \in FactJobs : upsert'[k].found <= Len(facts') /\ upsert'[k].made <= Len(facts')
    <3>1. \A k \in FactJobs : upsert[k].found \in Nat /\ upsert[k].made \in Nat
      BY FactFacts DEF Upsert
    <3> QED
      BY <3>1, <1>1, <1>3, <1>4, <1>5, <1>7, FactFacts DEF FactTypeOK
  <2> QED
    BY <2>1, <2>2, <1>1, <1>5, <1>7 DEF FactTypeOK
<1>9. MarkInv'
    BY <1>1, <1>3, <1>4, <1>5, <1>6, <1>7 DEF MarkInv, Running
<1>10. CountInv'
  <2>1. \A k \in FactJobs \ {j} : Overtaken(k)' => Overtaken(k)
    BY <1>6, <1>7 DEF Overtaken
  <2>2. CASE p = "done"
    <3>1. upsert[j].found = 0 /\ Overtaken(j)
      BY <1>1, <2>2, FactFacts DEF Overtaken
    <3>2. \A k \in Runs : k \in FactJobs
      BY DEF Runs
    <3>3. (\A k \in Runs' : Overtaken(k)') => \A k \in Runs : Overtaken(k)
      BY <1>7, <2>1, <3>1, <3>2
    <3> QED
      BY <2>2, <1>1, <1>6, <1>7, <3>3, FactCounts, FactFacts, SMTT(60) DEF CountInv
  <2>3. CASE p = "mark"
    <3>1. Overtaken(j)' => Overtaken(j)
      BY <1>1, <1>4, <1>6, <1>7 DEF Overtaken
    <3>2. \A k \in Runs : k \in FactJobs
      BY DEF Runs
    <3>3. (\A k \in Runs' : Overtaken(k)') => \A k \in Runs : Overtaken(k)
      BY <1>7, <2>1, <2>3, <3>1, <3>2
    <3>4. /\ Cardinality(Runs') = Cardinality(Runs) /\ factFaults' = factFaults
          /\ Cardinality(ActiveFacts') = Cardinality(ActiveFacts) + 1
          /\ Cardinality(Marking') = Cardinality(Marking) + 1
      BY <2>3, <1>1, <1>6, <1>7
    <3> QED
      BY <3>3, <3>4, FactCounts, FactFacts, SMTT(60) DEF CountInv
  <2> QED
    BY <2>2, <2>3
<1> QED
    BY <1>8, <1>9, <1>10

LEMMA SupersedeFactStep ==
    ASSUME FactIInv, NEW j \in FactJobs, SupersedeFact(j)
    PROVE  FactIInv'
<1> USE DEF FactIInv, FactInv
<1> DEFINE i == upsert[j].found
           e == [[facts[i] EXCEPT !.status = "superseded"] EXCEPT !.by = upsert[j].made]
           u == [upsert[j] EXCEPT !.pc = "done"]
<1>1. /\ i \in DOMAIN facts /\ facts[i] \in FactRow /\ upsert[j].pc = "mark" /\ upsert[j] \in Upsert
      /\ i < upsert[j].made /\ upsert[j].made \in Nat /\ upsert[j].made <= Len(facts)
    BY FactFacts DEF SupersedeFact, MarkInv, FactTypeOK, Upsert
<1>2. facts' = [facts EXCEPT ![i] = e] /\ upsert' = [upsert EXCEPT ![j] = u] /\ UNCHANGED factFaults
    BY <1>1, FactFacts DEF SupersedeFact, FactRow, Upsert
<1>3. e \in FactRow /\ e.status = "superseded" /\ e.by = upsert[j].made
    BY <1>1 DEF FactRow
<1>4. u \in Upsert /\ u.pc = "done" /\ u.found = upsert[j].found /\ u.made = upsert[j].made /\ u.tries = upsert[j].tries
    BY <1>1 DEF Upsert
<1> HIDE DEF e, u
<1>5. /\ facts' \in Seq(FactRow) /\ Len(facts') = Len(facts) /\ DOMAIN facts' = DOMAIN facts
      /\ \A k \in DOMAIN facts : facts'[k] = IF k = i THEN e ELSE facts[k]
      /\ ActiveFacts' = ActiveFacts \ {i}
    BY <1>1, <1>2, <1>3, FactChanges
<1>6. Cardinality(ActiveFacts') = IF i \in ActiveFacts THEN Cardinality(ActiveFacts) - 1 ELSE Cardinality(ActiveFacts)
    BY <1>5, FactCounts, FS_RemoveElement
<1>7. /\ upsert' \in [FactJobs -> Upsert] /\ upsert'[j] = u
      /\ \A k \in FactJobs \ {j} : upsert'[k] = upsert[k]
      /\ \A k \in FactJobs \ {j} : k \in Runs' <=> k \in Runs
      /\ j \in Runs /\ j \notin Runs'
      /\ Cardinality(Runs') = Cardinality(Runs) - 1 /\ Cardinality(Marking') = Cardinality(Marking) - 1
    BY <1>1, <1>2, <1>4, UpsertMoves DEF Running
<1>8. FactTypeOK'
    BY <1>1, <1>2, <1>3, <1>4, <1>5, <1>7, FactFacts DEF FactTypeOK
<1>9. MarkInv'
  <2>1. facts' # <<>> <=> facts # <<>>
    BY <1>5, <1>8, FactFacts, EmptySeq, LenProperties
  <2>2. facts # <<>> => Len(facts) \in ActiveFacts'
    BY <1>1, <1>5, FactFacts DEF MarkInv
  <2> QED
    BY <2>1, <2>2, <1>1, <1>4, <1>5, <1>7 DEF MarkInv, Running
<1>10. CountInv'
  <2>1. CASE i \in ActiveFacts
    BY <2>1, <1>2, <1>6, <1>7, FactCounts, FactFacts, SMTT(60) DEF CountInv
  <2>2. CASE i \notin ActiveFacts
    <3>1. Overtaken(j)
      BY <2>2, <1>1 DEF Overtaken
    <3>2. ActiveFacts' = ActiveFacts
      BY <2>2, <1>5
    <3>3. \A k \in FactJobs \ {j} : Overtaken(k)' => Overtaken(k)
      BY <1>7, <3>2 DEF Overtaken
    <3>4. \A k \in Runs : k \in FactJobs
      BY DEF Runs
    <3>5. (\A k \in Runs' : Overtaken(k)') => \A k \in Runs : Overtaken(k)
      BY <1>7, <3>1, <3>3, <3>4
    <3> QED
      BY <2>2, <1>2, <1>6, <1>7, <3>5, FactCounts, FactFacts, SMTT(60) DEF CountInv
  <2> QED
    BY <2>1, <2>2
<1> QED
    BY <1>8, <1>9, <1>10

LEMMA UpsertFailsStep ==
    ASSUME FactIInv, NEW j \in FactJobs, UpsertFails(j)
    PROVE  FactIInv'
<1> USE DEF FactIInv, FactInv
<1> DEFINE p == IF upsert[j].tries + 1 < FactAttempts THEN "find" ELSE "failed"
           t == upsert[j].tries + 1
           u == [[[[upsert[j] EXCEPT !.found = 0] EXCEPT !.made = 0] EXCEPT !.tries = t] EXCEPT !.pc = p]
<1>1. /\ upsert' = [upsert EXCEPT ![j] = u] /\ UNCHANGED facts /\ factFaults' = factFaults + 1
      /\ factFaults < FactMaxFaults /\ upsert[j] \in Upsert /\ Running(j)
    BY FactFacts DEF UpsertFails, Upsert
<1>2. t \in 0..FactAttempts /\ (p = "find" => t < FactAttempts)
    BY <1>1, FactFacts DEF MarkInv, Upsert
<1>3. p \in {"find", "failed"}
    OBVIOUS
<1> HIDE DEF p, t
<1>4. u \in Upsert /\ u.pc = p /\ u.found = 0 /\ u.made = 0 /\ u.tries = t
    BY <1>1, <1>2, <1>3 DEF Upsert
<1> HIDE DEF u
<1>5. /\ upsert' \in [FactJobs -> Upsert] /\ upsert'[j] = u
      /\ \A k \in FactJobs \ {j} : upsert'[k] = upsert[k]
      /\ j \in Runs /\ (j \in Runs' <=> p = "find")
      /\ Cardinality(Runs') = IF p = "find" THEN Cardinality(Runs) ELSE Cardinality(Runs) - 1
      /\ Cardinality(Marking') = IF upsert[j].pc = "mark" THEN Cardinality(Marking) - 1 ELSE Cardinality(Marking)
    BY <1>1, <1>3, <1>4, UpsertMoves
<1>6. ActiveFacts' = ActiveFacts
    BY <1>1 DEF ActiveFacts
<1>7. FactTypeOK'
    BY <1>1, <1>4, <1>5, FactFacts DEF FactTypeOK
<1>8. MarkInv'
    BY <1>1, <1>2, <1>3, <1>4, <1>5, <1>6 DEF MarkInv, Running
<1>9. CountInv'
  <2>1. Cardinality(Marking') \in Nat
    BY FS_Subset, FS_CardinalityType, FactConstants DEF Marking
  <2>2. CASE p = "find"
    <3>1. ~Overtaken(j)'
      BY <2>2, <1>4, <1>5 DEF Overtaken
    <3> QED
      BY <2>1, <2>2, <3>1, <1>1, <1>5, <1>6, FactCounts, FactFacts, SMTT(60) DEF CountInv
  <2>3. CASE p = "failed"
    <3>1. /\ Cardinality(Runs') = Cardinality(Runs) - 1 /\ Cardinality(ActiveFacts') = Cardinality(ActiveFacts)
          /\ factFaults' = factFaults + 1 /\ Cardinality(Marking') >= Cardinality(Marking) - 1
      BY <2>1, <2>3, <1>1, <1>5, <1>6, FactCounts
    <3> QED
      BY <2>1, <3>1, FactCounts, FactFacts, SMTT(60) DEF CountInv
  <2> QED
    BY <2>2, <2>3, <1>3
<1> QED
    BY <1>7, <1>8, <1>9

LEMMA FactInvariant == FactSpec => []FactIInv
<1>1. FactInit => FactIInv
  <2> SUFFICES ASSUME FactInit PROVE FactIInv
    OBVIOUS
  <2> DEFINE u == [pc |-> "idle", value |-> CHOOSE v \in FactValues : TRUE, confidence |-> 1,
                   seen |-> 0, found |-> 0, made |-> 0, tries |-> 0]
  <2>1. (CHOOSE v \in FactValues : TRUE) \in FactValues
    BY FactConstants
  <2>2. u \in Upsert /\ u.pc = "idle" /\ u.found = 0 /\ u.made = 0 /\ u.tries = 0
    BY <2>1, FactConstants DEF Upsert, Confidences
  <2>3. upsert = [j \in FactJobs |-> u] /\ facts = <<>> /\ factFaults = 0
    BY DEF FactInit
  <2> HIDE DEF u
  <2>4. facts \in Seq(FactRow) /\ Len(facts) = 0 /\ DOMAIN facts = {}
    BY <2>3
  <2>5. FactTypeOK
    BY <2>2, <2>3, <2>4, FactConstants DEF FactTypeOK
  <2>6. MarkInv
    BY <2>2, <2>3, <2>4, FactConstants DEF MarkInv, Running
  <2>7. ActiveFacts = {} /\ Runs = {} /\ Marking = {}
    BY <2>2, <2>3, <2>4 DEF ActiveFacts, Runs, Running, Marking
  <2>8. CountInv
    BY <2>3, <2>7, FS_EmptySet DEF CountInv
  <2> QED
    BY <2>5, <2>6, <2>8 DEF FactIInv, FactInv
<1>2. FactIInv /\ [FactNext]_factVars => FactIInv'
  <2> SUFFICES ASSUME FactIInv, [FactNext]_factVars PROVE FactIInv'
    OBVIOUS
  <2>1. CASE UNCHANGED factVars
    BY <2>1 DEF FactIInv, FactInv, FactTypeOK, MarkInv, CountInv, Runs, Marking, Overtaken, Running,
                ActiveFacts, factVars
  <2>2. CASE FactNext
    BY <2>2, CommitFactStep, FindFactStep, BumpFactStep, CreateFactStep, SupersedeFactStep, UpsertFailsStep DEF FactNext
  <2> QED
    BY <2>1, <2>2
<1> QED
    BY <1>1, <1>2, PTL DEF FactSpec

(* The active facts of a profile key: never none once one was taught, and   *)
(* for each fault one more than the single one of a quiet key, at most.     *)
THEOREM ProfileStaysTaught == FactSpec => []FactSafe
<1>1. FactIInv => FactSafe
  <2> SUFFICES ASSUME FactIInv PROVE FactSafe
    OBVIOUS
  <2>1. KeyKept
    BY DEF FactIInv, FactInv, MarkInv, KeyKept
  <2>2. OneFactPerFailure
    <3>1. CASE Runs = {}
      <4>1. \A j \in Runs : Overtaken(j)
        BY <3>1
      <4> QED
        BY <4>1, FactCounts, FactFacts DEF FactIInv, FactInv, CountInv, OneFactPerFailure, Marking
    <3>2. CASE Runs # {}
      <4>1. Cardinality(Runs) > 0
        BY <3>2, FactCounts, FS_EmptySet DEF FactIInv
      <4> QED
        BY <4>1, FactCounts, FactFacts DEF FactIInv, FactInv, CountInv, OneFactPerFailure, Marking
    <3> QED
      BY <3>1, <3>2
  <2> QED
    BY <2>1, <2>2 DEF FactSafe, FactIInv
<1> QED
    BY <1>1, FactInvariant, PTL
-------------------------------------------------------------------------------
(* Memories *)

LEMMA MemFacts ==
    ASSUME MemTypeOK
    PROVE  /\ memories \in Seq(MemoryRow) /\ Len(memories) \in Nat /\ DOMAIN memories = 1..Len(memories)
           /\ \A i \in DOMAIN memories : memories[i] \in MemoryRow
           /\ writer \in [Writers -> Place] /\ editor \in [Editors -> Place]
           /\ embedJobs \in Seq(EmbedJob) /\ Len(embedJobs) \in Nat /\ DOMAIN embedJobs = 1..Len(embedJobs)
           /\ \A k \in DOMAIN embedJobs : embedJobs[k] \in EmbedJob
           /\ hits \in Nat /\ misses \in Nat /\ MemAttempts \in Nat \ {0}
           /\ Digits \in [Contents -> Nat]
           /\ MaxHits \in Nat /\ MaxMisses \in Nat
BY ElementOfSeq, LenProperties, MemoryConstants DEF MemTypeOK

LEMMA PlacesAtRest ==
    ASSUME NEW p \in {"idle", "find", "write", "done", "failed"}
    PROVE  /\ AtRest(p) \in Place /\ AtRest(p).pc = p /\ AtRest(p).found = 0 /\ AtRest(p).made = 0
           /\ AtRest(p).tries = 0 /\ AtRest(p).changed = FALSE
BY MemoryConstants DEF AtRest, Place

(* A step that changes one row of the subject, e in its place. *)
LEMMA RowChanges ==
    ASSUME MemTypeOK, NEW i \in DOMAIN memories, NEW e \in MemoryRow, memories' = [memories EXCEPT ![i] = e]
    PROVE  /\ memories' \in Seq(MemoryRow) /\ Len(memories') = Len(memories) /\ DOMAIN memories' = DOMAIN memories
           /\ memories'[i] = e
           /\ \A k \in DOMAIN memories \ {i} : memories'[k] = memories[k]
BY MemFacts, ExceptSeq, LenProperties

(* A step that adds one. *)
LEMMA RowAdded ==
    ASSUME MemTypeOK, NEW e \in MemoryRow, memories' = Append(memories, e)
    PROVE  /\ memories' \in Seq(MemoryRow) /\ Len(memories') = Len(memories) + 1
           /\ DOMAIN memories' = 1..Len(memories) + 1
           /\ memories'[Len(memories) + 1] = e
           /\ \A k \in DOMAIN memories : memories'[k] = memories[k]
BY MemFacts, AppendProperties, LenProperties

(* A job that is appended to the queue, and one that is taken from it. *)
LEMMA JobAdded ==
    ASSUME MemTypeOK, NEW e \in EmbedJob, embedJobs' = Append(embedJobs, e)
    PROVE  /\ embedJobs' \in Seq(EmbedJob) /\ Len(embedJobs') = Len(embedJobs) + 1
           /\ DOMAIN embedJobs' = 1..Len(embedJobs) + 1
           /\ embedJobs'[Len(embedJobs) + 1] = e
           /\ \A k \in DOMAIN embedJobs : embedJobs'[k] = embedJobs[k] /\ k \in DOMAIN embedJobs'
BY MemFacts, AppendProperties, LenProperties

LEMMA JobTaken ==
    ASSUME MemTypeOK, embedJobs # <<>>, embedJobs' = Tail(embedJobs)
    PROVE  /\ embedJobs' \in Seq(EmbedJob) /\ Len(embedJobs') = Len(embedJobs) - 1
           /\ DOMAIN embedJobs' = 1..Len(embedJobs) - 1 /\ 1 \in DOMAIN embedJobs
           /\ Head(embedJobs) = embedJobs[1]
           /\ \A k \in DOMAIN embedJobs' : k + 1 \in DOMAIN embedJobs /\ embedJobs'[k] = embedJobs[k + 1]
           /\ \A k \in DOMAIN embedJobs : k # 1 => k - 1 \in DOMAIN embedJobs' /\ embedJobs'[k - 1] = embedJobs[k]
<1>1. /\ embedJobs' \in Seq(EmbedJob) /\ Len(embedJobs') = Len(embedJobs) - 1
      /\ \A k \in 1..Len(embedJobs') : embedJobs'[k] = embedJobs[k + 1]
      /\ Head(embedJobs) = embedJobs[1]
    BY MemFacts, HeadTailProperties
<1>2. Len(embedJobs) > 0 /\ DOMAIN embedJobs' = 1..Len(embedJobs')
    BY <1>1, MemFacts, EmptySeq, LenProperties
<1> QED
    BY <1>1, <1>2, MemFacts

MemIInv == MemTypeOK /\ MemInv

(* The rows keep their texts or are edited, so a writer that rests keeps what it holds. *)
LEMMA WriterKeeps ==
    ASSUME MemTypeOK, NEW w \in Writers, WriterHolds(w), writer'[w] = writer[w],
           \A i \in DOMAIN memories : \/ memories'[i].edited
                                      \/ memories'[i].content = memories[i].content
                                         /\ memories'[i].edited = memories[i].edited
    PROVE  WriterHolds(w)'
<1>1. writer[w] \in Place /\ writer[w].found \in Nat /\ writer[w].made \in Nat
    BY MemFacts DEF Place
<1>2. writer[w].found # 0 => writer[w].found \in DOMAIN memories
    BY <1>1, MemFacts DEF MemTypeOK
<1>3. writer[w].made # 0 => writer[w].made \in DOMAIN memories
    BY <1>1, MemFacts DEF MemTypeOK
<1>4. writer[w].pc = "mark" => writer[w].made # 0
    BY <1>1 DEF WriterHolds
<1> QED
    BY <1>2, <1>3, <1>4 DEF WriterHolds

(* The same for the vectors: what a row awaits or embeds goes on. *)
LEMMA StillFollowed ==
    ASSUME EmbedInv, NEW i \in DOMAIN memories, hits = 0, misses < MemAttempts,
           embedder' = embedder, memories'[i].content = memories[i].content,
           memories'[i].vector = memories[i].vector, memories'[i].reverted = memories[i].reverted,
           Awaited(i) => Awaited(i)'
    PROVE  Followed(i)'
BY DEF EmbedInv, Followed, Embeds

(* A writer moves to p, a place in which nothing waits less than before, and *)
(* the rows stay as they are.                                                *)
LEMMA WriterMoves ==
    ASSUME MemIInv, NEW w \in Writers, NEW p \in Place, writer' = [writer EXCEPT ![w] = p],
           UNCHANGED <<memories, editor, embedJobs, embedder, misses>>,
           p.pc # "write", p.found <= Len(memories), p.made <= Len(memories),
           hits' \in 0..MaxHits, WriterHolds(w)',
           hits' = 0 => hits = 0 /\ writer[w].pc \notin {"mark", "enqueue"}
    PROVE  MemIInv'
<1> USE DEF MemIInv, MemInv
<1>1. /\ writer' \in [Writers -> Place] /\ writer'[w] = p
      /\ \A v \in Writers \ {w} : writer'[v] = writer[v]
    BY MemFacts
<1>2. MemTypeOK'
    BY <1>1 DEF MemTypeOK
<1>3. \A v \in Writers \ {w} : WriterHolds(v)'
    BY <1>1 DEF SupersedeInv, WriterHolds
<1>4. SupersedeInv' /\ DetailKept'
    BY <1>3 DEF SupersedeInv, DetailKept
<1>5. EmbedInv'
  <2>1. \A i \in DOMAIN memories : Awaited(i) /\ hits' = 0 => Awaited(i)'
    BY <1>1 DEF Awaited
  <2>2. hits' = 0 /\ misses' < MemAttempts => \A i \in DOMAIN memories' : Followed(i)'
    BY <2>1, StillFollowed
  <2> QED
    BY <2>2 DEF EmbedInv
<1> QED
    BY <1>2, <1>4, <1>5

LEMMA ProposeStep ==
    ASSUME MemIInv, NEW w \in Writers, NEW c \in Contents, Propose(w, c)
    PROVE  MemIInv'
<1> USE DEF MemIInv, MemInv
<1>1. PICK pc \in {"find", "create"} : writer' = [writer EXCEPT ![w].pc = pc, ![w].content = c]
    BY DEF Propose
<1> DEFINE p == [[writer[w] EXCEPT !.pc = pc] EXCEPT !.content = c]
<1>2. writer[w] \in Place /\ writer[w].pc = "idle" /\ writer[w].found = 0 /\ writer[w].made <= Len(memories)
    BY MemFacts DEF Propose, SupersedeInv, WriterHolds, MemTypeOK
<1>3. p \in Place /\ p.pc = pc /\ p.content = c /\ p.found = 0 /\ p.made = writer[w].made
    BY <1>2 DEF Place
<1>4. writer' = [writer EXCEPT ![w] = p]
    BY <1>1, <1>2, MemFacts DEF Place
<1> HIDE DEF p
<1>5. writer'[w] = p
    BY <1>3, <1>4, MemFacts
<1>6. WriterHolds(w)'
    BY <1>3, <1>5 DEF WriterHolds
<1> QED
    BY <1>2, <1>3, <1>4, <1>6, MemFacts, WriterMoves DEF Propose, MemTypeOK
LEMMA FindStep ==
    ASSUME MemIInv, NEW w \in Writers, FindSupersessionCandidate(w)
    PROVE  MemIInv'
<1> USE DEF MemIInv, MemInv
<1>1. PICK i \in MostSimilar :
        writer' = [writer EXCEPT ![w] = IF i # 0 /\ Digits[@.content] < Digits[memories[i].content]
                                        THEN AtRest("done") ELSE [@ EXCEPT !.found = i, !.pc = "create"]]
    BY DEF FindSupersessionCandidate
<1>2. i \in Nat /\ i <= Len(memories) /\ (i # 0 => i \in DOMAIN memories /\ memories[i] \in MemoryRow)
    BY MemFacts DEF MostSimilar
<1>3. /\ writer[w] \in Place /\ writer[w].pc = "find" /\ writer[w].made <= Len(memories)
      /\ writer[w].content \in Contents
      /\ UNCHANGED <<memories, editor, embedJobs, embedder, hits, misses>>
    BY MemFacts DEF FindSupersessionCandidate, SupersedeInv, WriterHolds, MemTypeOK
<1>4. CASE i # 0 /\ Digits[writer[w].content] < Digits[memories[i].content]
  <2>1. writer' = [writer EXCEPT ![w] = AtRest("done")]
    BY <1>1, <1>4
  <2>2. writer'[w] = AtRest("done")
    BY <2>1, MemFacts
  <2>3. WriterHolds(w)'
    BY <2>2, PlacesAtRest DEF WriterHolds
  <2> QED
    <3>1. AtRest("done") \in Place /\ AtRest("done").pc = "done" /\ AtRest("done").found = 0 /\ AtRest("done").made = 0
      BY PlacesAtRest
    <3>2. hits' \in 0..MaxHits /\ Len(memories) \in Nat
      BY <1>3, MemFacts DEF MemTypeOK
    <3> DEFINE p == AtRest("done")
    <3>3. p \in Place /\ p.pc # "write" /\ p.found <= Len(memories) /\ p.made <= Len(memories)
      BY <3>1, <3>2
    <3>4. writer' = [writer EXCEPT ![w] = p]
      BY <2>1
    <3> HIDE DEF p
    <3> QED
      BY <2>3, <1>3, <3>2, <3>3, <3>4, WriterMoves
<1>5. CASE ~(i # 0 /\ Digits[writer[w].content] < Digits[memories[i].content])
  <2> DEFINE p == [[writer[w] EXCEPT !.found = i] EXCEPT !.pc = "create"]
  <2>1. writer' = [writer EXCEPT ![w] = p]
    BY <1>1, <1>3, <1>5, MemFacts DEF Place
  <2>2. p \in Place /\ p.pc = "create" /\ p.found = i /\ p.made = writer[w].made /\ p.content = writer[w].content
    BY <1>2, <1>3 DEF Place
  <2> HIDE DEF p
  <2>3. writer'[w] = p
    BY <2>1, MemFacts
  <2>4. i # 0 => Digits[memories[i].content] <= Digits[writer[w].content]
    BY <1>2, <1>3, <1>5, MemFacts DEF MemoryRow
  <2>5. WriterHolds(w)'
    BY <2>2, <2>3, <2>4, <1>3 DEF WriterHolds
  <2> QED
    BY <2>1, <2>2, <2>5, <1>2, <1>3, MemFacts, WriterMoves DEF MemTypeOK
<1> QED
    BY <1>4, <1>5

LEMMA WriterThrowsStep ==
    ASSUME MemIInv, NEW w \in Writers, WriterThrows(w)
    PROVE  MemIInv'
<1> USE DEF MemIInv, MemInv
<1> DEFINE again == w = Extraction /\ writer[w].tries + 1 < MemAttempts
           q == [[AtRest("find") EXCEPT !.content = writer[w].content] EXCEPT !.tries = writer[w].tries + 1]
           p == IF again THEN q ELSE AtRest("failed")
<1>1. /\ writer[w] \in Place /\ UNCHANGED <<memories, editor, embedJobs, embedder, misses>>
      /\ hits' = hits + 1 /\ hits' \in 0..MaxHits /\ hits' # 0
      /\ writer[w].pc \in {"find", "create", "mark", "enqueue"}
    BY MemFacts DEF WriterThrows, MemHit
<1>2. writer' = [writer EXCEPT ![w] = p]
  <2>1. [AtRest("find") EXCEPT !.content = writer[w].content, !.tries = writer[w].tries + 1] = q
    BY DEF AtRest
  <2>2. writer' = [writer EXCEPT ![w] =
            IF again THEN [AtRest("find") EXCEPT !.content = writer[w].content, !.tries = writer[w].tries + 1]
            ELSE AtRest("failed")]
    BY DEF WriterThrows
  <2> QED
    BY <2>1, <2>2
<1>3. again => /\ q \in Place /\ q.pc = "find" /\ q.found = 0 /\ q.made = 0 /\ q.content = writer[w].content
  <2>1. again => writer[w].tries + 1 \in 0..MemAttempts
    BY <1>1, MemFacts DEF Place
  <2> QED
    BY <2>1, <1>1 DEF Place, AtRest
<1>4. p \in Place /\ p.pc \in {"find", "failed"} /\ p.found = 0 /\ p.made = 0 /\ (p.pc = "find" => p.content = writer[w].content)
    BY <1>3, PlacesAtRest
<1> HIDE DEF p
<1>5. writer'[w] = p
    BY <1>2, <1>4, MemFacts
<1>6. WriterHolds(w)'
    BY <1>1, <1>4, <1>5 DEF WriterHolds, SupersedeInv
<1> QED
  <2>1. p.found <= Len(memories) /\ p.made <= Len(memories) /\ p.pc # "write"
    BY <1>4, MemFacts
  <2> QED
    BY <1>1, <1>2, <1>4, <1>6, <2>1, WriterMoves

(* The row made last: what is left of the older ones is as it was. *)
LEMMA CreateMemoryStep ==
    ASSUME MemIInv, NEW w \in Writers, CreateMemory(w)
    PROVE  MemIInv'
<1> USE DEF MemIInv, MemInv
<1> DEFINE n == Len(memories) + 1
           e == FreshMemory(writer[w].content)
           to == IF writer[w].found = 0 THEN "enqueue" ELSE "mark"
           p == [[writer[w] EXCEPT !.made = n] EXCEPT !.pc = to]
<1>1. /\ writer[w] \in Place /\ writer[w].pc = "create" /\ writer[w].content \in Contents
      /\ writer[w].found \in Nat /\ writer[w].found <= Len(memories) /\ n \in Nat
      /\ UNCHANGED <<editor, embedJobs, embedder, hits, misses>>
    BY MemFacts DEF CreateMemory, SupersedeInv, WriterHolds, MemTypeOK, Place
<1>2. memories' = Append(memories, e) /\ writer' = [writer EXCEPT ![w] = p]
    BY <1>1, MemFacts DEF CreateMemory, Place
<1>3. /\ e \in MemoryRow /\ e.status = "active" /\ e.by = 0 /\ ~e.edited /\ ~e.reverted
      /\ e.content = writer[w].content
    BY <1>1 DEF FreshMemory, MemoryRow
<1>4. /\ p \in Place /\ p.pc = to /\ p.made = n /\ p.found = writer[w].found /\ p.content = writer[w].content
    BY <1>1 DEF Place
<1> HIDE DEF e, p
<1>5. /\ memories' \in Seq(MemoryRow) /\ Len(memories') = n
      /\ DOMAIN memories' = 1..n /\ memories'[n] = e
      /\ \A k \in DOMAIN memories : memories'[k] = memories[k]
    BY <1>2, <1>3, RowAdded
<1>6. /\ writer' \in [Writers -> Place] /\ writer'[w] = p
      /\ \A v \in Writers \ {w} : writer'[v] = writer[v]
    BY <1>2, <1>4, MemFacts
<1>7. DOMAIN memories = 1..Len(memories) /\ Len(memories) \in Nat /\ n = Len(memories) + 1
      /\ \A k \in DOMAIN memories' : k \in DOMAIN memories \/ k = n
    BY <1>5, MemFacts
<1>8. MemTypeOK'
  <2>1. \A i \in DOMAIN memories' : memories'[i].by \in {0} \union (i + 1)..Len(memories')
    BY <1>3, <1>5, <1>7 DEF MemTypeOK
  <2>2. \A v \in Writers : /\ writer'[v].pc # "write" /\ writer'[v].found <= Len(memories')
                           /\ writer'[v].made <= Len(memories')
    <3>1. \A v \in Writers \ {w} : /\ writer[v].pc # "write" /\ writer[v].found <= Len(memories)
                             /\ writer[v].made <= Len(memories) /\ writer[v].found \in Nat /\ writer[v].made \in Nat
      BY MemFacts DEF MemTypeOK, Place
    <3> QED
      BY <3>1, <1>1, <1>4, <1>5, <1>6, <1>7
  <2>3. \A f \in Editors : editor'[f].pc \notin {"find", "create", "mark"} /\ editor'[f].found <= Len(memories')
    <3>1. \A f \in Editors : editor[f].found \in Nat
      BY MemFacts DEF Place
    <3> QED
      BY <3>1, <1>1, <1>5, <1>7 DEF MemTypeOK
  <2>4. \A k \in DOMAIN embedJobs' : embedJobs'[k].row <= Len(memories')
    <3>1. \A k \in DOMAIN embedJobs : embedJobs[k].row \in Nat
      BY MemFacts DEF EmbedJob
    <3> QED
      BY <3>1, <1>1, <1>5, <1>7 DEF MemTypeOK
  <2>5. embedder' \in [busy : BOOLEAN, row : 0..Len(memories'), made : 0..MemAttempts,
                       content : Contents \union {NoVector}]
    <3>1. embedder.row \in 0..Len(memories')
      BY <1>5, <1>7 DEF MemTypeOK
    <3> QED
      BY <3>1, <1>1 DEF MemTypeOK
  <2> QED
    BY <2>1, <2>2, <2>3, <2>4, <2>5, <1>1, <1>5, <1>6 DEF MemTypeOK
<1>9. SupersedeInv'
  <2>1. \A v \in Writers \ {w} : WriterHolds(v)'
    BY <1>5, <1>6, WriterKeeps DEF SupersedeInv
  <2>2. WriterHolds(w)'
    <3>1. writer[w].found # 0 => writer[w].found \in DOMAIN memories
      BY <1>1, <1>7
    <3>2. writer[w].found # 0 /\ ~memories[writer[w].found].edited
            => Digits[memories[writer[w].found].content] <= Digits[writer[w].content]
      BY <1>1 DEF SupersedeInv, WriterHolds
    <3> QED
      BY <3>1, <3>2, <1>1, <1>3, <1>4, <1>5, <1>6, <1>7 DEF WriterHolds
  <2>3. \A i \in DOMAIN memories' : memories'[i].status = "superseded" => memories'[i].by # 0
    BY <1>3, <1>5, <1>7 DEF SupersedeInv
  <2> QED
    BY <2>1, <2>2, <2>3 DEF SupersedeInv
<1>10. DetailKept'
  <2> SUFFICES ASSUME NEW i \in DOMAIN memories', memories'[i].by # 0, ~memories'[i].edited,
                      ~memories'[memories'[i].by].edited
               PROVE  Digits[memories'[i].content] <= Digits[memories'[memories'[i].by].content]
    BY DEF DetailKept
  <2>1. i \in DOMAIN memories /\ memories'[i] = memories[i]
    BY <1>3, <1>5, <1>7
  <2>2. memories[i].by \in DOMAIN memories
    BY <2>1, <1>7 DEF MemTypeOK
  <2> QED
    BY <2>1, <2>2, <1>5 DEF DetailKept
<1>11. EmbedInv'
  <2>1. \A i \in DOMAIN memories : Awaited(i) => Awaited(i)'
    BY <1>1, <1>6 DEF Awaited
  <2>2. hits' = 0 /\ misses' < MemAttempts => \A i \in DOMAIN memories : Followed(i)'
    BY <2>1, <1>1, <1>5, StillFollowed
  <2>3. \A i \in DOMAIN memories' : i = n => Awaited(i)'
    BY <1>1, <1>4, <1>6 DEF Awaited
  <2>4. hits' = 0 /\ misses' < MemAttempts => \A i \in DOMAIN memories' : Followed(i)'
    BY <2>2, <2>3, <1>7 DEF Followed
  <2> QED
    BY <2>4, <1>1 DEF EmbedInv
<1> QED
    BY <1>8, <1>9, <1>10, <1>11

LEMMA MarkSupersededStep ==
    ASSUME MemIInv, NEW w \in Writers, MarkSuperseded(w)
    PROVE  MemIInv'
<1> USE DEF MemIInv, MemInv
<1> DEFINE i == writer[w].found
           j == writer[w].made
           e == [[memories[i] EXCEPT !.status = "superseded"] EXCEPT !.by = j]
           p == [writer[w] EXCEPT !.pc = "enqueue"]
<1>1. /\ writer[w] \in Place /\ writer[w].pc = "mark" /\ writer[w].content \in Contents
      /\ i \in Nat /\ j \in Nat /\ 0 < i /\ i < j /\ j <= Len(memories)
      /\ i \in DOMAIN memories /\ j \in DOMAIN memories /\ memories[i] \in MemoryRow
      /\ UNCHANGED <<editor, embedJobs, embedder, hits, misses>>
    BY MemFacts, SMTT(60) DEF MarkSuperseded, SupersedeInv, WriterHolds, MemTypeOK, Place
<1>2. memories' = [memories EXCEPT ![i] = e] /\ writer' = [writer EXCEPT ![w] = p]
    BY <1>1, MemFacts DEF MarkSuperseded, MemoryRow
<1>3. /\ e \in MemoryRow /\ e.status = "superseded" /\ e.by = j /\ e.content = memories[i].content
      /\ e.edited = memories[i].edited /\ e.reverted = memories[i].reverted /\ e.vector = memories[i].vector
    BY <1>1 DEF MemoryRow
<1>4. p \in Place /\ p.pc = "enqueue" /\ p.made = j /\ p.found = i /\ p.content = writer[w].content
    BY <1>1 DEF Place
<1> HIDE DEF e, p
<1>5. /\ memories' \in Seq(MemoryRow) /\ Len(memories') = Len(memories) /\ DOMAIN memories' = DOMAIN memories
      /\ memories'[i] = e /\ \A k \in DOMAIN memories \ {i} : memories'[k] = memories[k]
    BY <1>1, <1>2, <1>3, RowChanges
<1>6. /\ writer' \in [Writers -> Place] /\ writer'[w] = p
      /\ \A v \in Writers \ {w} : writer'[v] = writer[v]
    BY <1>2, <1>4, MemFacts
<1>7. \A k \in DOMAIN memories : /\ memories'[k].content = memories[k].content
                                 /\ memories'[k].edited = memories[k].edited
                                 /\ memories'[k].reverted = memories[k].reverted
                                 /\ memories'[k].vector = memories[k].vector
    BY <1>3, <1>5
<1>8. MemTypeOK'
  <2>1. \A k \in DOMAIN memories' : memories'[k].by \in {0} \union (k + 1)..Len(memories')
    <3>1. j \in (i + 1)..Len(memories)
      BY <1>1, MemFacts
    <3> QED
      BY <3>1, <1>3, <1>5 DEF MemTypeOK
  <2>2. \A v \in Writers : /\ writer'[v].pc # "write" /\ writer'[v].found <= Len(memories')
                           /\ writer'[v].made <= Len(memories')
    BY <1>1, <1>4, <1>5, <1>6 DEF MemTypeOK
  <2> QED
    BY <2>1, <2>2, <1>1, <1>5, <1>6 DEF MemTypeOK
<1>9. SupersedeInv'
  <2>1. \A v \in Writers \ {w} : WriterHolds(v)'
    BY <1>5, <1>6, <1>7, WriterKeeps DEF SupersedeInv
  <2>2. WriterHolds(w)'
    BY <1>1, <1>4, <1>6 DEF WriterHolds
  <2>3. \A k \in DOMAIN memories' : memories'[k].status = "superseded" => memories'[k].by # 0
    BY <1>1, <1>3, <1>5 DEF SupersedeInv
  <2> QED
    BY <2>1, <2>2, <2>3 DEF SupersedeInv
<1>10. DetailKept'
  <2> SUFFICES ASSUME NEW k \in DOMAIN memories', memories'[k].by # 0, ~memories'[k].edited,
                      ~memories'[memories'[k].by].edited
               PROVE  Digits[memories'[k].content] <= Digits[memories'[memories'[k].by].content]
    BY DEF DetailKept
  <2>1. CASE k = i
    <3>1. Digits[memories[i].content] <= Digits[writer[w].content] /\ memories[j].content = writer[w].content
      BY <2>1, <1>1, <1>3, <1>5, <1>7 DEF SupersedeInv, WriterHolds
    <3> QED
      BY <3>1, <2>1, <1>1, <1>3, <1>5, <1>7
  <2>2. CASE k # i
    <3>1. memories'[k] = memories[k] /\ memories[k].by \in DOMAIN memories
      BY <2>2, <1>5, MemFacts DEF MemTypeOK
    <3> QED
      BY <3>1, <1>5, <1>7 DEF DetailKept
  <2> QED
    BY <2>1, <2>2
<1>11. EmbedInv'
  <2>1. \A k \in DOMAIN memories : Awaited(k) => Awaited(k)'
    BY <1>1, <1>4, <1>6 DEF Awaited
  <2>2. hits' = 0 /\ misses' < MemAttempts => \A k \in DOMAIN memories' : Followed(k)'
    BY <2>1, <1>1, <1>5, <1>7, StillFollowed
  <2> QED
    BY <2>2, <1>1 DEF EmbedInv
<1> QED
    BY <1>8, <1>9, <1>10, <1>11

(* A job for row i joins the queue, and whoever waited to queue it moves on. *)
LEMMA JobQueued ==
    ASSUME MemIInv, NEW i \in Nat \ {0}, i <= Len(memories),
           embedJobs' = Append(embedJobs, [row |-> i, made |-> 0]),
           UNCHANGED <<memories, embedder, hits, misses>>,
           writer' \in [Writers -> Place], editor' \in [Editors -> Place],
           \A w \in Writers : writer'[w] = writer[w] \/ (writer'[w] = AtRest("done") /\ writer[w].made = i),
           \A e \in Editors : editor'[e] = editor[e] \/ (editor'[e] = AtRest("done") /\ editor[e].found = i)
    PROVE  MemIInv'
<1> USE DEF MemIInv, MemInv
<1> DEFINE e == [row |-> i, made |-> 0]
           p == AtRest("done")
<1>1. e \in EmbedJob /\ e.row = i /\ e.made = 0
    BY MemFacts DEF EmbedJob
<1>2. p \in Place /\ p.pc = "done" /\ p.found = 0 /\ p.made = 0
    BY PlacesAtRest
<1>3. embedJobs' = Append(embedJobs, e)
    OBVIOUS
<1> HIDE DEF e
<1>4. /\ embedJobs' \in Seq(EmbedJob) /\ DOMAIN embedJobs' = 1..Len(embedJobs) + 1
      /\ embedJobs'[Len(embedJobs) + 1] = e
      /\ \A k \in DOMAIN embedJobs : embedJobs'[k] = embedJobs[k] /\ k \in DOMAIN embedJobs'
    BY <1>1, <1>3, JobAdded
<1>5. /\ \A w \in Writers : writer'[w] = writer[w] \/ (writer'[w] = p /\ writer[w].made = i)
      /\ \A f \in Editors : editor'[f] = editor[f] \/ (editor'[f] = p /\ editor[f].found = i)
    OBVIOUS
<1> HIDE DEF p
<1>6. MemTypeOK'
  <2>1. \A k \in DOMAIN embedJobs' : embedJobs'[k].row <= Len(memories')
    BY <1>1, <1>4, MemFacts DEF MemTypeOK
  <2>2. \A w \in Writers : /\ writer'[w].pc # "write" /\ writer'[w].found <= Len(memories')
                           /\ writer'[w].made <= Len(memories')
    BY <1>2, <1>5, MemFacts DEF MemTypeOK
  <2>3. \A f \in Editors : editor'[f].pc \notin {"find", "create", "mark"} /\ editor'[f].found <= Len(memories')
    BY <1>2, <1>5, MemFacts DEF MemTypeOK
  <2> QED
    BY <2>1, <2>2, <2>3, <1>4 DEF MemTypeOK
<1>7. SupersedeInv' /\ DetailKept'
  <2>1. \A w \in Writers : WriterHolds(w)'
    BY <1>2, <1>5 DEF SupersedeInv, WriterHolds
  <2> QED
    BY <2>1 DEF SupersedeInv, DetailKept
<1>8. EmbedInv'
  <2>1. \A k \in DOMAIN memories : Awaited(k) => Awaited(k)'
    <3> SUFFICES ASSUME NEW k \in DOMAIN memories, Awaited(k) PROVE Awaited(k)'
      OBVIOUS
    <3>1. CASE k = i
      <4>1. Len(embedJobs) + 1 \in DOMAIN embedJobs'
        BY <1>4, MemFacts
      <4> QED
        BY <4>1, <3>1, <1>1, <1>4 DEF Awaited
    <3>2. CASE k # i
      BY <3>2, <1>4, <1>5 DEF Awaited
    <3> QED
      BY <3>1, <3>2
  <2>2. hits' = 0 /\ misses' < MemAttempts => \A k \in DOMAIN memories' : Followed(k)'
    BY <2>1, StillFollowed
  <2>3. \A k \in DOMAIN embedJobs' : embedJobs'[k].made <= misses'
    BY <1>1, <1>4, MemFacts DEF EmbedInv
  <2>4. \A f \in Editors : editor'[f].pc \in {"write", "enqueue"} => editor'[f].found # 0 /\ editor'[f].content \in Contents
    BY <1>2, <1>5 DEF EmbedInv
  <2> QED
    BY <2>2, <2>3, <2>4 DEF EmbedInv
<1> QED
    BY <1>6, <1>7, <1>8

LEMMA EnqueueEmbeddingStep ==
    ASSUME MemIInv, NEW w \in Writers, EnqueueEmbedding(w)
    PROVE  MemIInv'
<1> USE DEF MemIInv, MemInv
<1> DEFINE i == writer[w].made
           p == AtRest("done")
<1>1. /\ i \in Nat \ {0} /\ i <= Len(memories)
      /\ embedJobs' = Append(embedJobs, [row |-> i, made |-> 0]) /\ writer' = [writer EXCEPT ![w] = p]
      /\ UNCHANGED <<memories, embedder, hits, misses>> /\ editor' = editor
    BY MemFacts DEF EnqueueEmbedding, SupersedeInv, WriterHolds, MemTypeOK, Place
<1>2. p \in Place
    BY PlacesAtRest
<1> HIDE DEF p
<1>3. /\ writer' \in [Writers -> Place]
      /\ \A v \in Writers : writer'[v] = writer[v] \/ (writer'[v] = p /\ writer[v].made = i)
    BY <1>1, <1>2, MemFacts
<1> QED
    BY <1>1, <1>3, JobQueued, MemFacts DEF p

LEMMA EnqueueUpdatedStep ==
    ASSUME MemIInv, NEW e \in Editors, EnqueueUpdated(e)
    PROVE  MemIInv'
<1> USE DEF MemIInv, MemInv
<1> DEFINE i == editor[e].found
           p == AtRest("done")
<1>1. /\ i \in Nat \ {0} /\ i <= Len(memories)
      /\ embedJobs' = Append(embedJobs, [row |-> i, made |-> 0]) /\ editor' = [editor EXCEPT ![e] = p]
      /\ UNCHANGED <<memories, embedder, hits, misses>> /\ writer' = writer
    BY MemFacts DEF EnqueueUpdated, EmbedInv, MemTypeOK, Place
<1>2. p \in Place
    BY PlacesAtRest
<1> HIDE DEF p
<1>3. /\ editor' \in [Editors -> Place]
      /\ \A f \in Editors : editor'[f] = editor[f] \/ (editor'[f] = p /\ editor[f].found = i)
    BY <1>1, <1>2, MemFacts
<1> QED
    BY <1>1, <1>3, JobQueued, MemFacts DEF p

(* An editor moves to p without touching a row. *)
LEMMA EditorMoves ==
    ASSUME MemIInv, NEW e \in Editors, NEW p \in Place, editor' = [editor EXCEPT ![e] = p],
           UNCHANGED <<memories, writer, embedJobs, embedder, misses>>,
           p.pc \in {"write", "done", "failed"}, p.found <= Len(memories),
           p.pc = "write" => p.found # 0 /\ p.content \in Contents,
           hits' \in 0..MaxHits, hits' = 0 => hits = 0 /\ editor[e].pc # "enqueue"
    PROVE  MemIInv'
<1> USE DEF MemIInv, MemInv
<1>1. /\ editor' \in [Editors -> Place] /\ editor'[e] = p
      /\ \A f \in Editors \ {e} : editor'[f] = editor[f]
    BY MemFacts
<1>2. MemTypeOK'
    BY <1>1 DEF MemTypeOK
<1>3. SupersedeInv' /\ DetailKept'
    BY DEF SupersedeInv, WriterHolds, DetailKept
<1>4. EmbedInv'
  <2>1. \A i \in DOMAIN memories : Awaited(i) /\ hits' = 0 => Awaited(i)'
    BY <1>1 DEF Awaited
  <2>2. hits' = 0 /\ misses' < MemAttempts => \A i \in DOMAIN memories' : Followed(i)'
    BY <2>1, StillFollowed
  <2> QED
    BY <2>2, <1>1 DEF EmbedInv
<1> QED
    BY <1>2, <1>3, <1>4

LEMMA ReadForUpdateStep ==
    ASSUME MemIInv, NEW e \in Editors, NEW i \in DOMAIN memories, NEW c \in Contents, ReadForUpdate(e, i, c)
    PROVE  MemIInv'
<1> USE DEF MemIInv, MemInv
<1> DEFINE ch == memories[i].content # c
           p == [[[AtRest("write") EXCEPT !.found = i] EXCEPT !.content = c] EXCEPT !.changed = ch]
<1>1. editor' = [editor EXCEPT ![e] = p]
    BY DEF ReadForUpdate, AtRest
<1>2. ch \in BOOLEAN /\ i \in Nat \ {0} /\ i <= Len(memories) /\ hits \in 0..MaxHits
    BY MemFacts DEF MemTypeOK
<1> HIDE DEF ch
<1>3. p \in Place /\ p.pc = "write" /\ p.found = i /\ p.content = c
  <2> DEFINE q == AtRest("write")
  <2>1. q \in Place /\ q.pc = "write"
    BY PlacesAtRest
  <2> HIDE DEF q
  <2>2. p = [[[q EXCEPT !.found = i] EXCEPT !.content = c] EXCEPT !.changed = ch]
    BY DEF q
  <2> QED
    BY <1>2, <2>1, <2>2 DEF Place
<1> HIDE DEF p
<1> QED
    BY <1>1, <1>2, <1>3, EditorMoves DEF ReadForUpdate

LEMMA UpdateFailsStep ==
    ASSUME MemIInv, NEW e \in Editors, UpdateFails(e)
    PROVE  MemIInv'
<1> USE DEF MemIInv, MemInv
<1> DEFINE p == AtRest("failed")
<1>1. p \in Place /\ p.pc = "failed" /\ p.found <= Len(memories)
    BY PlacesAtRest, MemFacts
<1>2. editor' = [editor EXCEPT ![e] = p]
    BY DEF UpdateFails
<1> HIDE DEF p
<1>3. hits' \in 0..MaxHits /\ hits' # 0
    BY MemFacts DEF UpdateFails, MemHit
<1> QED
    BY <1>1, <1>2, <1>3, EditorMoves DEF UpdateFails

(* The text of a row, and whatever followed it, is another one now. *)
LEMMA WriteUpdateStep ==
    ASSUME MemIInv, NEW e \in Editors, WriteUpdate(e)
    PROVE  MemIInv'
<1> USE DEF MemIInv, MemInv
<1> DEFINE i == editor[e].found
           c == editor[e].content
           back == memories[i].reverted \/ PutsBack(e)
           m == [[[memories[i] EXCEPT !.content = c] EXCEPT !.edited = TRUE] EXCEPT !.reverted = back]
           q == [editor[e] EXCEPT !.pc = "enqueue"]
           p == IF editor[e].changed THEN q ELSE AtRest("done")
<1>1. /\ editor[e] \in Place /\ editor[e].pc = "write" /\ c \in Contents /\ i \in Nat /\ i # 0 /\ i <= Len(memories)
      /\ i \in DOMAIN memories /\ memories[i] \in MemoryRow
      /\ UNCHANGED <<writer, embedJobs, embedder, hits, misses>>
    BY MemFacts DEF WriteUpdate, EmbedInv, MemTypeOK, Place
<1>2. memories' = [memories EXCEPT ![i] = m] /\ editor' = [editor EXCEPT ![e] = p]
  <2>1. editor' = [editor EXCEPT ![e] = p]
    BY DEF WriteUpdate
  <2>2. memories' = [memories EXCEPT ![i] =
            [memories[i] EXCEPT !.content = c, !.edited = TRUE, !.reverted = back]]
    BY <1>1, MemFacts DEF WriteUpdate
  <2> HIDE DEF back
  <2>3. [memories[i] EXCEPT !.content = c, !.edited = TRUE, !.reverted = back] = m
    BY <1>1 DEF MemoryRow
  <2> HIDE DEF m
  <2> QED
    BY <2>1, <2>2, <2>3
<1>3. back \in BOOLEAN /\ (back <=> memories[i].reverted \/ PutsBack(e))
    BY <1>1 DEF PutsBack, MemoryRow, Place
<1> HIDE DEF back
<1>4. /\ m \in MemoryRow /\ m.status = memories[i].status /\ m.by = memories[i].by /\ m.content = c
      /\ m.edited = TRUE /\ m.reverted = back /\ m.vector = memories[i].vector
    BY <1>1, <1>3 DEF MemoryRow
<1>5. q \in Place /\ q.pc = "enqueue" /\ q.found = i /\ q.content = c
    BY <1>1 DEF Place
<1>6. /\ p \in Place /\ p.pc = (IF editor[e].changed THEN "enqueue" ELSE "done")
      /\ (p.pc = "enqueue" => p.found = i /\ p.content = c) /\ p.found <= Len(memories)
    BY <1>1, <1>5, PlacesAtRest, MemFacts
<1> HIDE DEF m, q, p
<1>7. /\ memories' \in Seq(MemoryRow) /\ Len(memories') = Len(memories) /\ DOMAIN memories' = DOMAIN memories
      /\ memories'[i] = m /\ \A k \in DOMAIN memories \ {i} : memories'[k] = memories[k]
    BY <1>1, <1>2, <1>4, RowChanges
<1>8. /\ editor' \in [Editors -> Place] /\ editor'[e] = p
      /\ \A f \in Editors \ {e} : editor'[f] = editor[f]
    BY <1>2, <1>6, MemFacts
<1>9. MemTypeOK'
  <2>1. \A k \in DOMAIN memories' : memories'[k].by \in {0} \union (k + 1)..Len(memories')
    BY <1>4, <1>7 DEF MemTypeOK
  <2>2. \A f \in Editors : editor'[f].pc \notin {"find", "create", "mark"} /\ editor'[f].found <= Len(memories')
    BY <1>6, <1>7, <1>8 DEF MemTypeOK
  <2> QED
    BY <2>1, <2>2, <1>1, <1>7, <1>8 DEF MemTypeOK
<1>10. SupersedeInv'
  <2>1. \A v \in Writers : WriterHolds(v)'
    BY <1>1, <1>4, <1>7, WriterKeeps DEF SupersedeInv
  <2>2. \A k \in DOMAIN memories' : memories'[k].status = "superseded" => memories'[k].by # 0
    BY <1>4, <1>7 DEF SupersedeInv
  <2> QED
    BY <2>1, <2>2 DEF SupersedeInv
<1>11. DetailKept'
  <2> SUFFICES ASSUME NEW k \in DOMAIN memories', memories'[k].by # 0, ~memories'[k].edited,
                      ~memories'[memories'[k].by].edited
               PROVE  Digits[memories'[k].content] <= Digits[memories'[memories'[k].by].content]
    BY DEF DetailKept
  <2>1. k # i /\ memories'[k] = memories[k] /\ memories[k].by \in DOMAIN memories
    BY <1>4, <1>7, MemFacts DEF MemTypeOK
  <2>2. memories[k].by # i
    BY <2>1, <1>4, <1>7
  <2> QED
    BY <2>1, <2>2, <1>7 DEF DetailKept
<1>12. EmbedInv'
  <2>1. \A k \in DOMAIN memories : Awaited(k) => Awaited(k)'
    BY <1>1, <1>8 DEF Awaited
  <2>2. hits' = 0 /\ misses' < MemAttempts => \A k \in DOMAIN memories \ {i} : Followed(k)'
    BY <2>1, <1>1, <1>7, StillFollowed
  <2>3. hits' = 0 /\ misses' < MemAttempts => \A k \in DOMAIN memories' : k = i => Followed(k)'
    <3>1. CASE editor[e].changed
      BY <3>1, <1>6, <1>8 DEF Followed, Awaited
    <3>2. CASE ~editor[e].changed /\ memories[i].content # c
      BY <3>2, <1>3, <1>4, <1>7 DEF Followed, PutsBack
    <3>3. CASE memories[i].content = c
      <4> SUFFICES ASSUME hits' = 0, misses' < MemAttempts, NEW k \in DOMAIN memories', k = i PROVE Followed(k)'
        OBVIOUS
      <4>1. Followed(k)
        BY <1>1 DEF EmbedInv
      <4> QED
        BY <4>1, <2>1, <3>3, <1>1, <1>3, <1>4, <1>7 DEF Followed, Embeds
    <3> QED
      BY <3>1, <3>2, <3>3
  <2>4. \A f \in Editors : editor'[f].pc \in {"write", "enqueue"} => editor'[f].found # 0 /\ editor'[f].content \in Contents
    BY <1>1, <1>6, <1>8 DEF EmbedInv
  <2>5. hits' = 0 /\ misses' < MemAttempts => \A k \in DOMAIN memories' : Followed(k)'
    BY <2>2, <2>3, <1>7
  <2> QED
    BY <2>4, <2>5, <1>1 DEF EmbedInv
<1> QED
    BY <1>9, <1>10, <1>11, <1>12

LEMMA ArchiveMemoryStep ==
    ASSUME MemIInv, NEW i \in DOMAIN memories, ArchiveMemory(i)
    PROVE  MemIInv'
<1> USE DEF MemIInv, MemInv
<1> DEFINE m == [memories[i] EXCEPT !.status = "archived"]
<1>1. /\ memories[i] \in MemoryRow /\ memories' = [memories EXCEPT ![i] = m]
      /\ UNCHANGED <<writer, editor, embedJobs, embedder, hits, misses>>
    BY MemFacts DEF ArchiveMemory, MemoryRow
<1>2. /\ m \in MemoryRow /\ m.status = "archived" /\ m.by = memories[i].by /\ m.content = memories[i].content
      /\ m.edited = memories[i].edited /\ m.reverted = memories[i].reverted /\ m.vector = memories[i].vector
    BY <1>1 DEF MemoryRow
<1> HIDE DEF m
<1>3. /\ memories' \in Seq(MemoryRow) /\ Len(memories') = Len(memories) /\ DOMAIN memories' = DOMAIN memories
      /\ memories'[i] = m /\ \A k \in DOMAIN memories \ {i} : memories'[k] = memories[k]
    BY <1>1, <1>2, RowChanges
<1>4. \A k \in DOMAIN memories : /\ memories'[k].content = memories[k].content
                                 /\ memories'[k].edited = memories[k].edited
                                 /\ memories'[k].reverted = memories[k].reverted
                                 /\ memories'[k].vector = memories[k].vector
                                 /\ memories'[k].by = memories[k].by
                                 /\ memories'[k].status = "superseded" => memories[k].status = "superseded"
    BY <1>2, <1>3
<1>5. MemTypeOK'
    BY <1>1, <1>3, <1>4 DEF MemTypeOK
<1>6. SupersedeInv'
  <2>1. \A v \in Writers : WriterHolds(v)'
    BY <1>1, <1>4, WriterKeeps DEF SupersedeInv
  <2> QED
    BY <2>1, <1>3, <1>4 DEF SupersedeInv
<1>7. DetailKept'
  <2>1. \A k \in DOMAIN memories : memories[k].by # 0 => memories[k].by \in DOMAIN memories
    BY MemFacts DEF MemTypeOK
  <2> QED
    BY <2>1, <1>3, <1>4 DEF DetailKept
<1>8. EmbedInv'
  <2>1. \A k \in DOMAIN memories : Awaited(k) => Awaited(k)'
    BY <1>1 DEF Awaited
  <2>2. hits' = 0 /\ misses' < MemAttempts => \A k \in DOMAIN memories' : Followed(k)'
    BY <2>1, <1>1, <1>3, <1>4, StillFollowed
  <2> QED
    BY <2>2, <1>1 DEF EmbedInv
<1> QED
    BY <1>5, <1>6, <1>7, <1>8

(* The first job leaves the queue and its row is what the embedder reads now. *)
LEMMA ReadForEmbeddingStep ==
    ASSUME MemIInv, ReadForEmbedding
    PROVE  MemIInv'
<1> USE DEF MemIInv, MemInv
<1> DEFINE i == embedJobs[1].row
<1>1. /\ embedJobs' \in Seq(EmbedJob) /\ 1 \in DOMAIN embedJobs /\ Head(embedJobs) = embedJobs[1]
      /\ \A k \in DOMAIN embedJobs' : k + 1 \in DOMAIN embedJobs /\ embedJobs'[k] = embedJobs[k + 1]
      /\ \A k \in DOMAIN embedJobs : k # 1 => k - 1 \in DOMAIN embedJobs' /\ embedJobs'[k - 1] = embedJobs[k]
    BY JobTaken DEF ReadForEmbedding
<1>2. /\ ~embedder.busy /\ UNCHANGED <<memories, writer, editor, hits, misses>>
      /\ embedder' = [busy |-> TRUE, row |-> i, made |-> embedJobs[1].made, content |-> memories[i].content]
    BY <1>1 DEF ReadForEmbedding
<1>3. /\ i \in Nat \ {0} /\ i <= Len(memories) /\ i \in DOMAIN memories /\ memories[i] \in MemoryRow
      /\ embedJobs[1].made \in 0..MemAttempts /\ embedJobs[1].made <= misses
    BY <1>1, MemFacts DEF MemTypeOK, EmbedJob, EmbedInv
<1>4. /\ embedder' \in [busy : BOOLEAN, row : 0..Len(memories), made : 0..MemAttempts,
                        content : Contents \union {NoVector}]
      /\ embedder'.busy /\ embedder'.row = i /\ embedder'.made = embedJobs[1].made
      /\ embedder'.content = memories[i].content
    BY <1>2, <1>3, MemFacts DEF MemoryRow
<1>5. MemTypeOK'
    BY <1>1, <1>2, <1>4 DEF MemTypeOK
<1>6. SupersedeInv' /\ DetailKept'
    BY <1>2 DEF SupersedeInv, WriterHolds, DetailKept
<1>7. EmbedInv'
  <2>1. \A k \in DOMAIN memories \ {i} : Awaited(k) => Awaited(k)'
    BY <1>1, <1>2 DEF Awaited
  <2>2. hits' = 0 /\ misses' < MemAttempts => \A k \in DOMAIN memories' : Followed(k)'
    <3> SUFFICES ASSUME hits' = 0, misses' < MemAttempts, NEW k \in DOMAIN memories' PROVE Followed(k)'
      OBVIOUS
    <3>1. CASE k = i
      BY <3>1, <1>2, <1>4 DEF Followed, Embeds
    <3>2. CASE k # i
      <4>1. Followed(k)
        BY <1>2 DEF EmbedInv
      <4> QED
        BY <4>1, <3>2, <2>1, <1>2, <1>4 DEF Followed, Embeds
    <3> QED
      BY <3>1, <3>2
  <2>3. \A k \in DOMAIN embedJobs' : embedJobs'[k].made <= misses'
    BY <1>1, <1>2 DEF EmbedInv
  <2> QED
    BY <2>2, <2>3, <1>2, <1>3, <1>4 DEF EmbedInv
<1> QED
    BY <1>5, <1>6, <1>7

LEMMA RestsWhenUnbusy ==
    ASSUME MemTypeOK
    PROVE  Unbusy \in [busy : BOOLEAN, row : 0..Len(memories), made : 0..MemAttempts,
                       content : Contents \union {NoVector}] /\ ~Unbusy.busy
BY MemFacts DEF Unbusy

LEMMA SetEmbeddingStep ==
    ASSUME MemIInv, SetEmbedding
    PROVE  MemIInv'
<1> USE DEF MemIInv, MemInv
<1> DEFINE i == embedder.row
           m == [memories[i] EXCEPT !.vector = embedder.content]
<1>1. /\ i \in DOMAIN memories /\ memories[i] \in MemoryRow /\ memories' = [memories EXCEPT ![i] = m]
      /\ embedder.busy /\ embedder' = Unbusy /\ embedder.content \in Contents \union {NoVector}
      /\ UNCHANGED <<writer, editor, embedJobs, hits, misses>>
    BY MemFacts DEF SetEmbedding, MemoryRow, MemTypeOK, EmbedInv
<1>2. /\ m \in MemoryRow /\ m.status = memories[i].status /\ m.by = memories[i].by
      /\ m.content = memories[i].content /\ m.edited = memories[i].edited
      /\ m.reverted = memories[i].reverted /\ m.vector = embedder.content
    BY <1>1 DEF MemoryRow
<1> HIDE DEF m
<1>3. /\ memories' \in Seq(MemoryRow) /\ Len(memories') = Len(memories) /\ DOMAIN memories' = DOMAIN memories
      /\ memories'[i] = m /\ \A k \in DOMAIN memories \ {i} : memories'[k] = memories[k]
    BY <1>1, <1>2, RowChanges
<1>4. \A k \in DOMAIN memories : /\ memories'[k].content = memories[k].content
                                 /\ memories'[k].edited = memories[k].edited
                                 /\ memories'[k].reverted = memories[k].reverted
                                 /\ memories'[k].by = memories[k].by
                                 /\ memories'[k].status = memories[k].status
                                 /\ memories'[k].vector = Embeds(k)
    BY <1>1, <1>2, <1>3 DEF Embeds
<1>5. MemTypeOK'
    BY <1>1, <1>3, <1>4, RestsWhenUnbusy DEF MemTypeOK
<1>6. SupersedeInv'
  <2>1. \A v \in Writers : WriterHolds(v)'
    BY <1>1, <1>4, WriterKeeps DEF SupersedeInv
  <2> QED
    BY <2>1, <1>3, <1>4 DEF SupersedeInv
<1>7. DetailKept'
  <2>1. \A k \in DOMAIN memories : memories[k].by # 0 => memories[k].by \in DOMAIN memories
    BY MemFacts DEF MemTypeOK
  <2> QED
    BY <2>1, <1>3, <1>4 DEF DetailKept
<1>8. EmbedInv'
  <2>1. \A k \in DOMAIN memories : Awaited(k) => Awaited(k)'
    BY <1>1 DEF Awaited
  <2>2. ~embedder'.busy
    BY <1>1, RestsWhenUnbusy
  <2>3. hits' = 0 /\ misses' < MemAttempts => \A k \in DOMAIN memories' : Followed(k)'
    <3> SUFFICES ASSUME hits' = 0, misses' < MemAttempts, NEW k \in DOMAIN memories' PROVE Followed(k)'
      OBVIOUS
    <3>1. Followed(k)
      BY <1>1, <1>3 DEF EmbedInv
    <3>2. Embeds(k)' = Embeds(k)
      BY <2>2, <1>3, <1>4 DEF Embeds
    <3> QED
      BY <3>1, <3>2, <2>1, <1>3, <1>4 DEF Followed
  <2> QED
    BY <2>2, <2>3, <1>1 DEF EmbedInv
<1> QED
    BY <1>5, <1>6, <1>7, <1>8

(* A job is dropped only by a failure that uses up the attempts of a job. *)
LEMMA ProviderFailsStep ==
    ASSUME MemIInv, ProviderFails
    PROVE  MemIInv'
<1> USE DEF MemIInv, MemInv
<1> DEFINE i == embedder.row
           e == [row |-> i, made |-> embedder.made + 1]
           again == embedder.made + 1 < MemAttempts
<1>1. /\ embedder.busy /\ i \in Nat \ {0} /\ i <= Len(memories) /\ embedder.made \in Nat /\ embedder.made <= misses
      /\ misses' = misses + 1 /\ misses' \in 0..MaxMisses /\ misses \in Nat /\ embedder' = Unbusy
      /\ UNCHANGED <<memories, writer, editor, hits>>
      /\ embedJobs' = IF again THEN Append(embedJobs, e) ELSE embedJobs
    BY MemFacts DEF ProviderFails, MemTypeOK, EmbedInv
<1>2. ~embedder'.busy
    BY <1>1, RestsWhenUnbusy
<1>3. again => e \in EmbedJob /\ e.row = i /\ e.made <= misses'
    BY <1>1, MemFacts, SMTT(60) DEF EmbedJob
<1> HIDE DEF e
<1>4. again => /\ embedJobs' \in Seq(EmbedJob) /\ DOMAIN embedJobs' = 1..Len(embedJobs) + 1
               /\ Len(embedJobs) + 1 \in DOMAIN embedJobs' /\ embedJobs'[Len(embedJobs) + 1] = e
               /\ \A k \in DOMAIN embedJobs : embedJobs'[k] = embedJobs[k] /\ k \in DOMAIN embedJobs'
    BY <1>1, <1>3, JobAdded, MemFacts
<1>5. /\ embedJobs' \in Seq(EmbedJob) /\ \A k \in DOMAIN embedJobs : embedJobs'[k] = embedJobs[k] /\ k \in DOMAIN embedJobs'
      /\ \A k \in DOMAIN embedJobs' : k \in DOMAIN embedJobs \/ (again /\ embedJobs'[k] = e)
    BY <1>1, <1>4, MemFacts
<1>6. MemTypeOK'
  <2>1. \A k \in DOMAIN embedJobs' : embedJobs'[k].row <= Len(memories')
    BY <1>1, <1>3, <1>5 DEF MemTypeOK
  <2> QED
    BY <2>1, <1>1, <1>5, RestsWhenUnbusy DEF MemTypeOK
<1>7. SupersedeInv' /\ DetailKept'
    BY <1>1 DEF SupersedeInv, WriterHolds, DetailKept
<1>8. EmbedInv'
  <2>1. \A k \in DOMAIN memories : Awaited(k) => Awaited(k)'
    BY <1>1, <1>5 DEF Awaited
  <2>2. misses' < MemAttempts => \A k \in DOMAIN memories : k = i => Awaited(k)'
    <3>1. misses' < MemAttempts => again
      BY <1>1, MemFacts
    <3> QED
      BY <3>1, <1>3, <1>4 DEF Awaited
  <2>3. hits' = 0 /\ misses' < MemAttempts => \A k \in DOMAIN memories' : Followed(k)'
    <3> SUFFICES ASSUME hits' = 0, misses' < MemAttempts, NEW k \in DOMAIN memories' PROVE Followed(k)'
      OBVIOUS
    <3>1. CASE k = i
      BY <3>1, <2>2, <1>1 DEF Followed
    <3>2. CASE k # i
      <4>1. Followed(k)
        BY <1>1, MemFacts DEF EmbedInv
      <4> QED
        BY <4>1, <3>2, <2>1, <1>1, <1>2 DEF Followed, Embeds
    <3> QED
      BY <3>1, <3>2
  <2>4. \A k \in DOMAIN embedJobs' : embedJobs'[k].made <= misses'
    <3>1. \A k \in DOMAIN embedJobs : embedJobs[k].made \in Nat
      BY MemFacts DEF EmbedJob
    <3> QED
      BY <3>1, <1>1, <1>3, <1>5 DEF EmbedInv
  <2> QED
    BY <2>3, <2>4, <1>1, <1>2 DEF EmbedInv
<1> QED
    BY <1>6, <1>7, <1>8

LEMMA MemInvariant == MemSpec => []MemIInv
<1>1. MemInit => MemIInv
  <2> SUFFICES ASSUME MemInit PROVE MemIInv
    OBVIOUS
  <2> DEFINE p == AtRest("idle")
  <2>1. p \in Place /\ p.pc = "idle" /\ p.found = 0 /\ p.made = 0
    BY PlacesAtRest
  <2>2. memories = <<>> /\ embedJobs = <<>> /\ hits = 0 /\ misses = 0
    BY DEF MemInit
  <2>3. writer = [w \in Writers |-> p] /\ editor = [e \in Editors |-> p]
    BY DEF MemInit
  <2> HIDE DEF p
  <2>4. memories \in Seq(MemoryRow) /\ Len(memories) = 0 /\ DOMAIN memories = {}
    BY <2>2
  <2>5. embedJobs \in Seq(EmbedJob) /\ DOMAIN embedJobs = {}
    BY <2>2
  <2>6. /\ embedder \in [busy : BOOLEAN, row : 0..Len(memories), made : 0..MemAttempts,
                         content : Contents \union {NoVector}] /\ ~embedder.busy
    BY <2>4, MemoryConstants DEF MemInit, Unbusy
  <2>7. MemTypeOK
    BY <2>1, <2>2, <2>3, <2>4, <2>5, <2>6, MemoryConstants DEF MemTypeOK
  <2>8. SupersedeInv /\ DetailKept
    BY <2>1, <2>3, <2>4 DEF SupersedeInv, WriterHolds, DetailKept
  <2>9. EmbedInv
    BY <2>1, <2>3, <2>4, <2>5, <2>6 DEF EmbedInv
  <2> QED
    BY <2>7, <2>8, <2>9 DEF MemIInv, MemInv
<1>2. MemIInv /\ [MemNext]_memVars => MemIInv'
  <2> SUFFICES ASSUME MemIInv, [MemNext]_memVars PROVE MemIInv'
    OBVIOUS
  <2>1. CASE UNCHANGED memVars
    BY <2>1 DEF MemIInv, MemInv, MemTypeOK, SupersedeInv, WriterHolds, DetailKept, EmbedInv, Followed, Awaited,
                Embeds, memVars
  <2>2. ASSUME NEW w \in Writers, (\E c \in Contents : Propose(w, c)) \/ Write(w) \/ WriterThrows(w)
        PROVE  MemIInv'
    BY <2>2, ProposeStep, FindStep, CreateMemoryStep, MarkSupersededStep, EnqueueEmbeddingStep, WriterThrowsStep DEF Write
  <2>3. ASSUME NEW e \in Editors, \/ \E i \in DOMAIN memories, c \in Contents : ReadForUpdate(e, i, c)
                                  \/ WriteUpdate(e) \/ EnqueueUpdated(e) \/ UpdateFails(e)
        PROVE  MemIInv'
    BY <2>3, ReadForUpdateStep, WriteUpdateStep, EnqueueUpdatedStep, UpdateFailsStep
  <2>4. ASSUME NEW i \in DOMAIN memories, ArchiveMemory(i) PROVE MemIInv'
    BY <2>4, ArchiveMemoryStep
  <2>5. CASE ReadForEmbedding \/ SetEmbedding \/ ProviderFails
    BY <2>5, ReadForEmbeddingStep, SetEmbeddingStep, ProviderFailsStep
  <2> QED
    BY <2>1, <2>2, <2>3, <2>4, <2>5 DEF MemNext
<1> QED
    BY <1>1, <1>2, PTL DEF MemSpec

(* A subject never loses its memory to writers that race or throw, no        *)
(* replacement loses detail, and vectors follow the texts, for any number of *)
(* writers, editors, contents, attempts and failures.                        *)
THEOREM MemoriesStay == MemSpec => []MemSafe
<1>1. MemIInv => MemSafe
  <2> SUFFICES ASSUME MemIInv PROVE MemSafe
    OBVIOUS
  <2>1. SubjectKept
    <3> SUFFICES ASSUME memories # <<>>, \A i \in DOMAIN memories : memories[i].status # "archived"
                 PROVE  \E i \in DOMAIN memories : Active(i)
      BY DEF SubjectKept
    <3>1. Len(memories) \in DOMAIN memories /\ memories[Len(memories)] \in MemoryRow
      BY MemFacts, EmptySeq DEF MemIInv
    <3>2. memories[Len(memories)].by = 0
      BY <3>1, MemFacts DEF MemIInv, MemTypeOK
    <3>3. memories[Len(memories)].status # "superseded"
      BY <3>1, <3>2 DEF MemIInv, MemInv, SupersedeInv
    <3> QED
      BY <3>1, <3>3 DEF Active, MemoryRow
  <2>2. QuietIsEmbedded
    <3> SUFFICES ASSUME Quiet, NEW i \in DOMAIN memories
                 PROVE  memories[i].reverted \/ memories[i].vector = memories[i].content
      BY DEF QuietIsEmbedded
    <3>1. Followed(i)
      BY DEF Quiet, MemIInv, MemInv, EmbedInv
    <3>2. ~Awaited(i)
      BY DEF Quiet, Awaited
    <3> QED
      BY <3>1, <3>2 DEF Followed, Embeds, Quiet
  <2> QED
    BY <2>1, <2>2 DEF MemSafe, MemIInv, MemInv
<1> QED
    BY <1>1, MemInvariant, PTL

-------------------------------------------------------------------------------
(* Documents *)

LEMMA DocFacts ==
    /\ ChunkCount \in Nat \ {0} /\ DocAttempts \in Nat \ {0} /\ NoUpload \notin Uploads
    /\ DocMaxStalls \in Nat /\ DocMaxFaults \in Nat /\ MaxRequests \in Nat
    /\ NoPiece \in Piece /\ NoPiece.pc = "idle" /\ NoPiece.doc = NoUpload /\ NoPiece.at = 1
    /\ NoJob \in IntakeJob /\ NoJob.state = "none" /\ NoJob.made = 0
BY DocumentConstants DEF NoPiece, Piece, NoJob, IntakeJob

DocIInv == DocTypeOK /\ DocInv

(* What a step must leave: chunks stay, a row becomes ready with its chunks, *)
(* a job that will run has attempts left, and a run that kept its lock and   *)
(* does not move still has it.                                               *)
LEMMA DocStep ==
    ASSUME DocIInv, DocTypeOK',
           \A u \in Uploads, i \in 1..ChunkCount : content[u].chunks[i] > 0 => content'[u].chunks[i] > 0,
           \A u \in Uploads : document'[u].status = "ready" =>
                document[u].status = "ready" \/ \A i \in 1..ChunkCount : content'[u].chunks[i] > 0,
           \A u \in Uploads : intake'[u].state \in {"waiting", "active"} => intake'[u].made < DocAttempts,
           \A w \in Intakes : PieceInv(w)' \/ (piece'[w] = piece[w] /\ (piece[w].alone /\ Holds(w) => Holds(w)'))
    PROVE  DocIInv'
<1>1. ReadyIsIndexed'
    BY DEF DocIInv, DocInv, ReadyIsIndexed
<1>2. \A w \in Intakes : PieceInv(w)'
  <2> SUFFICES ASSUME NEW w \in Intakes, piece'[w] = piece[w], piece[w].alone /\ Holds(w) => Holds(w)'
               PROVE  PieceInv(w)'
    OBVIOUS
  <2>1. PieceInv(w) /\ piece[w] \in Piece
    BY DEF DocIInv, DocInv, DocTypeOK
  <2>2. piece[w].pc # "idle" => piece[w].doc \in Uploads
    BY <2>1 DEF PieceInv
  <2>3. piece[w].pc = "chunk" => \A i \in 1..(piece[w].at - 1) : content'[piece[w].doc].chunks[i] > 0
    <3>1. \A i \in 1..(piece[w].at - 1) : i \in 1..ChunkCount
      BY <2>1, DocFacts DEF Piece
    <3> QED
      BY <3>1, <2>1, <2>2 DEF PieceInv
  <2>4. piece[w].pc \in {"finish", "audit"} => \A i \in 1..ChunkCount : content'[piece[w].doc].chunks[i] > 0
    BY <2>1, <2>2 DEF PieceInv
  <2> QED
    BY <2>1, <2>3, <2>4 DEF PieceInv
<1> QED
    BY <1>1, <1>2 DEF DocIInv, DocInv

(* A step that only a request or the queue takes, about document u: no run   *)
(* that kept its lock is on a job that is not active.                        *)
LEMMA RequestStep ==
    ASSUME DocIInv, DocTypeOK', UNCHANGED <<content, piece>>, NEW u \in Uploads,
           \A d \in Uploads : document'[d].status = "ready" => document[d].status = "ready",
           \A d \in Uploads \ {u} : intake'[d] = intake[d],
           \/ intake'[u] = intake[u]
           \/ intake[u].state # "active" /\ intake'[u].made = 0
    PROVE  DocIInv'
<1>1. \A d \in Uploads : intake'[d].state \in {"waiting", "active"} => intake'[d].made < DocAttempts
    BY DocFacts DEF DocIInv, DocInv
<1>2. \A w \in Intakes : piece[w].alone /\ Holds(w) => Holds(w)' \/ piece[w].pc = "idle"
    BY DEF DocIInv, DocInv, PieceInv, Holds
<1>3. \A w \in Intakes : PieceInv(w)' \/ (piece'[w] = piece[w] /\ (piece[w].alone /\ Holds(w) => Holds(w)'))
  <2> SUFFICES ASSUME NEW w \in Intakes, piece[w].pc = "idle" PROVE PieceInv(w)'
    BY <1>2
  <2> QED
    BY DEF PieceInv, DocIInv, DocInv
<1> QED
    BY <1>1, <1>3, DocStep

LEMMA UploadSteps ==
    ASSUME DocIInv, NEW u \in Uploads,
           (\E f \in Files : BeginUpload(u, f)) \/ FindExisting(u) \/ CreateDocument(u) \/ UploadThrows(u)
    PROVE  DocIInv'
<1> USE DEF DocIInv
<1>1. ASSUME NEW f \in Files, BeginUpload(u, f) PROVE DocIInv'
  <2>1. [pc |-> "check", file |-> f, doc |-> NoUpload] \in UploadPlace
    BY DEF UploadPlace
  <2>2. DocTypeOK'
    BY <1>1, <2>1 DEF BeginUpload, DocTypeOK
  <2> QED
    BY <1>1, <2>2, RequestStep DEF BeginUpload
<1>2. CASE FindExisting(u)
  <2>1. DocTypeOK'
    BY <1>2 DEF FindExisting, SameFile, DocTypeOK, UploadPlace
  <2> QED
    BY <1>2, <2>1, RequestStep DEF FindExisting
<1>3. CASE CreateDocument(u)
  <2> DEFINE r == [[document[u] EXCEPT !.status = "queued"] EXCEPT !.file = upload[u].file]
             p == [[upload[u] EXCEPT !.pc = "enqueue"] EXCEPT !.doc = u]
  <2>1. /\ document[u] \in DocumentRow /\ upload[u] \in UploadPlace
        /\ UNCHANGED <<content, intake, piece, requests, docFaults>>
    BY <1>3 DEF CreateDocument, DocTypeOK
  <2>2. document' = [document EXCEPT ![u] = r] /\ upload' = [upload EXCEPT ![u] = p]
    BY <1>3, <2>1 DEF CreateDocument, DocumentRow, UploadPlace, DocTypeOK
  <2>3. r \in DocumentRow /\ r.status = "queued" /\ p \in UploadPlace
    BY <2>1 DEF DocumentRow, UploadPlace, Statuses
  <2> HIDE DEF r, p
  <2>4. DocTypeOK'
    BY <2>1, <2>2, <2>3 DEF DocTypeOK
  <2>5. \A d \in Uploads : document'[d].status = "ready" => document[d].status = "ready"
    BY <2>2, <2>3 DEF DocTypeOK
  <2> QED
    BY <2>1, <2>4, <2>5, RequestStep
<1>4. CASE UploadThrows(u)
  <2>1. DocTypeOK'
    BY <1>4, DocFacts DEF UploadThrows, Hit, DocTypeOK, UploadPlace
  <2> QED
    BY <1>4, <2>1, RequestStep DEF UploadThrows
<1> QED
    BY <1>1, <1>2, <1>3, <1>4

LEMMA EnqueuedJob ==
    ASSUME DocTypeOK, NEW u \in Uploads, NEW j, j = [intake EXCEPT ![u] = Enqueued(u)]
    PROVE  /\ j \in [Uploads -> IntakeJob] /\ \A d \in Uploads \ {u} : j[d] = intake[d]
           /\ j[u] = intake[u] \/ (intake[u].state # "active" /\ j[u].made = 0)
<1>1. intake[u] \in IntakeJob
    BY DEF DocTypeOK
<1>2. /\ Enqueued(u) \in IntakeJob
      /\ Enqueued(u) = intake[u] \/ (intake[u].state # "active" /\ Enqueued(u).made = 0)
  <2>1. CASE intake[u].state = "none"
    <3> DEFINE e == [NoJob EXCEPT !.state = "waiting"]
    <3>1. e \in IntakeJob /\ e.made = 0
      BY DocFacts DEF IntakeJob
    <3> QED
      BY <2>1, <3>1 DEF Enqueued
  <2>2. CASE intake[u].state # "none"
    BY <1>1, <2>2 DEF Enqueued
  <2> QED
    BY <2>1, <2>2
<1> QED
    BY <1>2 DEF DocTypeOK

LEMMA EnqueueUploadStep ==
    ASSUME DocIInv, NEW u \in Uploads, EnqueueUpload(u)
    PROVE  DocIInv'
<1> USE DEF DocIInv
<1>1. DocTypeOK'
  <2>1. intake' \in [Uploads -> IntakeJob]
    BY EnqueuedJob DEF EnqueueUpload
  <2>2. [upload[u] EXCEPT !.pc = "done"] \in UploadPlace
    BY DEF DocTypeOK, UploadPlace
  <2> QED
    BY <2>1, <2>2 DEF EnqueueUpload, DocTypeOK
<1> QED
    BY <1>1, EnqueuedJob, RequestStep DEF EnqueueUpload

LEMMA OtherRequestSteps ==
    ASSUME DocIInv, NEW u \in Uploads, Archive(u) \/ UpdateTitle(u) \/ Reprocess(u) \/ ForgetIntake(u)
    PROVE  DocIInv'
<1> USE DEF DocIInv
<1>1. document[u] \in DocumentRow
    BY DEF DocTypeOK
<1>2. ASSUME Request(u) PROVE requests' \in 0..MaxRequests
    BY <1>2, DocFacts DEF Request, DocTypeOK
<1>3. CASE Archive(u)
  <2> DEFINE r == [document[u] EXCEPT !.status = "archived"]
  <2>1. r \in DocumentRow /\ r.status = "archived" /\ document' = [document EXCEPT ![u] = r]
    BY <1>1, <1>3 DEF Archive, DocumentRow, Statuses
  <2> HIDE DEF r
  <2>2. DocTypeOK'
    BY <2>1, <1>2, <1>3 DEF Archive, DocTypeOK
  <2>3. \A d \in Uploads : document'[d].status = "ready" => document[d].status = "ready"
    BY <2>1 DEF DocTypeOK
  <2> QED
    BY <2>2, <2>3, <1>3, RequestStep DEF Archive
<1>4. CASE UpdateTitle(u)
  <2> DEFINE r == [document[u] EXCEPT !.title = "user"]
  <2>1. r \in DocumentRow /\ r.status = document[u].status /\ document' = [document EXCEPT ![u] = r]
    BY <1>1, <1>4 DEF UpdateTitle, DocumentRow
  <2> HIDE DEF r
  <2>2. DocTypeOK'
    BY <2>1, <1>2, <1>4 DEF UpdateTitle, DocTypeOK
  <2>3. \A d \in Uploads : document'[d].status = "ready" => document[d].status = "ready"
    BY <2>1 DEF DocTypeOK
  <2> QED
    BY <2>2, <2>3, <1>4, RequestStep DEF UpdateTitle
<1>5. CASE Reprocess(u)
  <2> DEFINE r == [[[document[u] EXCEPT !.status = "queued"] EXCEPT !.review = FALSE] EXCEPT !.again = TRUE]
  <2>1. r \in DocumentRow /\ r.status = "queued" /\ document' = [document EXCEPT ![u] = r]
    BY <1>1, <1>5 DEF Reprocess, DocumentRow, Statuses, DocTypeOK
  <2> HIDE DEF r
  <2>2. \/ intake' = [intake EXCEPT ![u] = Enqueued(u)] /\ UNCHANGED docFaults
        \/ docFaults' \in 0..DocMaxFaults /\ UNCHANGED intake
    BY <1>5, DocFacts DEF Reprocess, Hit, DocTypeOK
  <2>3. /\ intake' \in [Uploads -> IntakeJob] /\ \A d \in Uploads \ {u} : intake'[d] = intake[d]
        /\ intake'[u] = intake[u] \/ (intake[u].state # "active" /\ intake'[u].made = 0)
    BY <2>2, EnqueuedJob DEF DocTypeOK
  <2>4. DocTypeOK'
    BY <2>1, <2>2, <2>3, <1>2, <1>5, ZenonT(60) DEF Reprocess, DocTypeOK
  <2>5. \A d \in Uploads : document'[d].status = "ready" => document[d].status = "ready"
    BY <2>1 DEF DocTypeOK
  <2> QED
    BY <2>3, <2>4, <2>5, <1>5, RequestStep DEF Reprocess
<1>6. CASE ForgetIntake(u)
  <2>1. DocTypeOK'
    BY <1>6, DocFacts DEF ForgetIntake, DocTypeOK
  <2>2. /\ \A d \in Uploads \ {u} : intake'[d] = intake[d]
        /\ intake[u].state # "active" /\ intake'[u].made = 0
    BY <1>6, DocFacts DEF ForgetIntake, DocTypeOK
  <2> QED
    BY <2>1, <2>2, <1>6, RequestStep DEF ForgetIntake
<1> QED
    BY <1>3, <1>4, <1>5, <1>6

(* One run moves to p; the other runs stay as they are.                      *)
LEMMA PieceMoves ==
    ASSUME DocTypeOK, NEW w \in Intakes, NEW p \in Piece, piece' = [piece EXCEPT ![w] = p]
    PROVE  /\ piece' \in [Intakes -> Piece] /\ piece'[w] = p
           /\ \A v \in Intakes \ {w} : piece'[v] = piece[v]
BY DEF DocTypeOK

(* A run goes from one step to the next and leaves its job alone; what it    *)
(* wrote is in the row or the content of its document.                       *)
LEMMA PieceStep ==
    ASSUME DocIInv, NEW w \in Intakes, NEW p \in Piece, piece' = [piece EXCEPT ![w] = p],
           UNCHANGED <<upload, intake, requests>>, piece[w].pc # "idle",
           document' \in [Uploads -> DocumentRow], content' \in [Uploads -> Written], docFaults' \in 0..DocMaxFaults,
           \A u \in Uploads, i \in 1..ChunkCount : content[u].chunks[i] > 0 => content'[u].chunks[i] > 0,
           \A u \in Uploads : document'[u].status = "ready" =>
                document[u].status = "ready" \/ \A i \in 1..ChunkCount : content'[u].chunks[i] > 0,
           p.doc = piece[w].doc, p.pc # "idle", p.alone = piece[w].alone,
           p.pc \in {"start", "extract", "classify", "derive"} => p.at = 1,
           p.pc = "chunk" => \A i \in 1..(p.at - 1) : content'[p.doc].chunks[i] > 0,
           p.pc \in {"finish", "audit"} => \A i \in 1..ChunkCount : content'[p.doc].chunks[i] > 0
    PROVE  DocIInv'
<1> USE DEF DocIInv
<1>1. /\ piece' \in [Intakes -> Piece] /\ piece'[w] = p
      /\ \A v \in Intakes \ {w} : piece'[v] = piece[v]
    BY PieceMoves
<1>2. DocTypeOK'
    BY <1>1 DEF DocTypeOK
<1>3. PieceInv(w)'
    BY <1>1 DEF DocInv, PieceInv, Holds
<1>4. \A v \in Intakes \ {w} : Holds(v) => Holds(v)'
    BY <1>1 DEF Holds
<1>5. \A u \in Uploads : intake'[u].state \in {"waiting", "active"} => intake'[u].made < DocAttempts
    BY DEF DocInv
<1> QED
    BY <1>1, <1>2, <1>3, <1>4, <1>5, DocStep

(* A run is over: it goes back to idle, and a job that is still its own is   *)
(* put into the state j.                                                     *)
LEMMA PieceEnds ==
    ASSUME DocIInv, NEW w \in Intakes, piece' = [piece EXCEPT ![w] = NoPiece], piece[w].pc # "idle",
           UNCHANGED <<upload, content, requests>>,
           document' \in [Uploads -> DocumentRow], docFaults' \in 0..DocMaxFaults,
           \A u \in Uploads : document'[u].status = "ready" => document[u].status = "ready",
           NEW j \in IntakeJob, j.state \in {"waiting", "active"} => j.made < DocAttempts,
           intake' = IF Holds(w) THEN [intake EXCEPT ![piece[w].doc] = j] ELSE intake
    PROVE  DocIInv'
<1> USE DEF DocIInv
<1>1. /\ piece' \in [Intakes -> Piece] /\ piece'[w] = NoPiece
      /\ \A v \in Intakes \ {w} : piece'[v] = piece[v]
    BY DocFacts, PieceMoves
<1>2. piece[w].doc \in Uploads
    BY DEF DocInv, PieceInv
<1>3. /\ intake' \in [Uploads -> IntakeJob]
      /\ \A u \in Uploads : \/ intake'[u] = intake[u]
                            \/ Holds(w) /\ u = piece[w].doc /\ intake'[u] = j
    BY <1>2 DEF DocTypeOK
<1>4. DocTypeOK'
    BY <1>1, <1>3 DEF DocTypeOK
<1>5. PieceInv(w)'
    BY <1>1, DocFacts DEF PieceInv
<1>6. \A v \in Intakes \ {w} : piece[v].alone /\ Holds(v) => Holds(v)' \/ piece[v].pc = "idle"
  <2> SUFFICES ASSUME NEW v \in Intakes \ {w}, piece[v].alone, Holds(v), piece[v].pc # "idle" PROVE Holds(v)'
    OBVIOUS
  <2>1. piece[v].doc \in Uploads
    BY DEF DocInv, PieceInv
  <2>2. ~(Holds(w) /\ piece[v].doc = piece[w].doc)
    BY DEF Holds
  <2> QED
    BY <2>1, <2>2, <1>1, <1>3 DEF Holds
<1>7. \A v \in Intakes : PieceInv(v)' \/ (piece'[v] = piece[v] /\ (piece[v].alone /\ Holds(v) => Holds(v)'))
  <2> SUFFICES ASSUME NEW v \in Intakes \ {w}, piece[v].pc = "idle" PROVE PieceInv(v)'
    BY <1>1, <1>5, <1>6
  <2> QED
    BY <1>1 DEF PieceInv, DocInv
<1>8. \A u \in Uploads : intake'[u].state \in {"waiting", "active"} => intake'[u].made < DocAttempts
    BY <1>3 DEF DocInv
<1> QED
    BY <1>4, <1>7, <1>8, DocStep

(* The row of the document a run works on, r in its place. *)
LEMMA DocumentChanges ==
    ASSUME DocTypeOK, NEW u \in Uploads, NEW r \in DocumentRow, document' = [document EXCEPT ![u] = r]
    PROVE  /\ document' \in [Uploads -> DocumentRow] /\ document'[u] = r
           /\ \A d \in Uploads \ {u} : document'[d] = document[d]
BY DEF DocTypeOK

LEMMA CompleteOrRethrow ==
    ASSUME DocIInv, NEW w \in Intakes, piece[w].pc # "idle", Complete(w) \/ Rethrow(w),
           UNCHANGED <<upload, content, requests>>,
           document' \in [Uploads -> DocumentRow], docFaults' \in 0..DocMaxFaults,
           \A u \in Uploads : document'[u].status = "ready" => document[u].status = "ready"
    PROVE  DocIInv'
<1> USE DEF DocIInv
<1> DEFINE k == intake[piece[w].doc]
           s == IF k.made + 1 < DocAttempts THEN "waiting" ELSE "failed"
           c == [[k EXCEPT !.state = "completed"] EXCEPT !.worker = "none"]
           r == [[[k EXCEPT !.state = s] EXCEPT !.made = k.made + 1] EXCEPT !.worker = "none"]
<1>1. piece[w].doc \in Uploads /\ k \in IntakeJob
    BY DEF DocInv, PieceInv, DocTypeOK
<1>2. CASE Complete(w)
  <2>1. c \in IntakeJob /\ c.state = "completed"
    BY <1>1 DEF IntakeJob
  <2>2. intake' = IF Holds(w) THEN [intake EXCEPT ![piece[w].doc] = c] ELSE intake
    BY <1>1, <1>2 DEF Complete, DocTypeOK, IntakeJob
  <2>3. piece' = [piece EXCEPT ![w] = NoPiece]
    BY <1>2 DEF Complete
  <2> HIDE DEF c
  <2> QED
    BY <2>1, <2>2, <2>3, PieceEnds
<1>3. CASE Rethrow(w) /\ Holds(w)
  <2>1. k.made \in Nat /\ k.made + 1 \in 0..DocAttempts
    BY <1>1, <1>3, DocFacts DEF DocInv, Holds, IntakeJob
  <2>2. s \in {"waiting", "failed"} /\ (s = "waiting" => k.made + 1 < DocAttempts)
    OBVIOUS
  <2>3. intake' = IF Holds(w) THEN [intake EXCEPT ![piece[w].doc] = r] ELSE intake
    BY <1>1, <1>3 DEF Rethrow, IntakeJob
  <2> HIDE DEF s
  <2>4. r \in IntakeJob /\ r.state = s /\ r.made = k.made + 1
    BY <1>1, <2>1, <2>2 DEF IntakeJob
  <2>5. piece' = [piece EXCEPT ![w] = NoPiece]
    BY <1>3 DEF Rethrow
  <2> HIDE DEF r, k
  <2>6. r.state \in {"waiting", "active"} => r.made < DocAttempts
    BY <2>2, <2>4
  <2> QED
    BY <2>3, <2>4, <2>5, <2>6, PieceEnds
<1>4. CASE Rethrow(w) /\ ~Holds(w)
  <2>1. intake' = IF Holds(w) THEN [intake EXCEPT ![piece[w].doc] = NoJob] ELSE intake
    BY <1>4 DEF Rethrow
  <2>2. piece' = [piece EXCEPT ![w] = NoPiece]
    BY <1>4 DEF Rethrow
  <2> QED
    BY <2>1, <2>2, DocFacts, PieceEnds
<1> QED
    BY <1>2, <1>3, <1>4

LEMMA StepFacts ==
    ASSUME DocIInv, NEW w \in Intakes, piece[w].pc # "idle"
    PROVE  /\ piece[w] \in Piece /\ piece[w].doc \in Uploads
           /\ document[piece[w].doc] \in DocumentRow /\ content[piece[w].doc] \in Written
           /\ content \in [Uploads -> Written] /\ document \in [Uploads -> DocumentRow]
           /\ docFaults \in 0..DocMaxFaults /\ PieceInv(w)
           /\ \A pc \in Tried \union {"catch"} :
                LET p == [piece[w] EXCEPT !.pc = pc] IN
                /\ p \in Piece /\ p.pc = pc /\ p.pc # "idle" /\ p.doc = piece[w].doc
                /\ p.at = piece[w].at /\ p.alone = piece[w].alone /\ p.review = piece[w].review
<1>1. /\ piece[w] \in Piece /\ piece[w].doc \in Uploads /\ PieceInv(w)
    BY DEF DocIInv, DocInv, DocTypeOK, PieceInv
<1> QED
    BY <1>1 DEF DocIInv, DocTypeOK, Piece, Tried

LEMMA StartIntakeStep ==
    ASSUME DocIInv, NEW w \in Intakes, StartIntake(w)
    PROVE  DocIInv'
<1> DEFINE u == piece[w].doc
           r == [document[u] EXCEPT !.status = "processing"]
           p == [piece[w] EXCEPT !.pc = "extract"]
<1>1. /\ piece[w].pc = "start" /\ piece' = [piece EXCEPT ![w] = p] /\ document' = [document EXCEPT ![u] = r]
      /\ UNCHANGED <<upload, content, intake, requests, docFaults>>
    BY DEF StartIntake, StepTo
<1>2. /\ p \in Piece /\ p.pc = "extract" /\ p.doc = u /\ p.at = 1 /\ p.alone = piece[w].alone /\ u \in Uploads
    BY <1>1, StepFacts DEF PieceInv, Tried
<1>3. r \in DocumentRow /\ r.status = "processing"
    BY <1>1, StepFacts, SMTT(60) DEF DocumentRow, Statuses
<1> HIDE DEF r, p
<1>4. /\ document' \in [Uploads -> DocumentRow]
      /\ \A d \in Uploads : document'[d].status = "ready" => document[d].status = "ready"
    BY <1>1, <1>2, <1>3, DocumentChanges DEF DocIInv
<1> QED
    BY <1>1, <1>2, <1>4, StepFacts, PieceStep

LEMMA ExtractStep ==
    ASSUME DocIInv, NEW w \in Intakes, Extract(w)
    PROVE  DocIInv'
<1> DEFINE u == piece[w].doc
<1>1. piece[w].pc = "extract" /\ UNCHANGED <<upload, content, requests, docFaults>> /\ u \in Uploads
    BY StepFacts DEF Extract
<1>2. CASE StepTo(w, "classify") /\ UNCHANGED <<document, intake>>
  <2> DEFINE p == [piece[w] EXCEPT !.pc = "classify"]
  <2>1. piece' = [piece EXCEPT ![w] = p]
    BY <1>2 DEF StepTo
  <2>2. p \in Piece /\ p.pc = "classify" /\ p.doc = u /\ p.at = 1 /\ p.alone = piece[w].alone
    BY <1>1, StepFacts DEF PieceInv, Tried
  <2> HIDE DEF p
  <2> QED
    BY <1>1, <1>2, <2>1, <2>2, StepFacts, PieceStep
<1>3. CASE /\ document' = [document EXCEPT ![u].status = "needs_review", ![u].review = TRUE]
           /\ Complete(w)
  <2> DEFINE r == [[document[u] EXCEPT !.status = "needs_review"] EXCEPT !.review = TRUE]
  <2>1. document' = [document EXCEPT ![u] = r]
    BY <1>1, <1>3, StepFacts DEF DocumentRow
  <2>2. r \in DocumentRow /\ r.status = "needs_review"
    BY <1>1, StepFacts, ZenonT(60) DEF DocumentRow, Statuses
  <2> HIDE DEF r
  <2>3. /\ document' \in [Uploads -> DocumentRow]
        /\ \A d \in Uploads : document'[d].status = "ready" => document[d].status = "ready"
    BY <1>1, <2>1, <2>2, DocumentChanges DEF DocIInv
  <2> QED
    BY <1>1, <1>3, <2>3, StepFacts, CompleteOrRethrow
<1> QED
    BY <1>2, <1>3 DEF Extract

LEMMA ClassifyStep ==
    ASSUME DocIInv, NEW w \in Intakes, Classify(w)
    PROVE  DocIInv'
<1> DEFINE u == piece[w].doc
<1>1. PICK b \in BOOLEAN :
        /\ document' = [document EXCEPT ![u].title = "given", ![u].review = b]
        /\ piece' = [piece EXCEPT ![w].pc = "derive", ![w].review = b]
    BY DEF Classify
<1> DEFINE r == [[document[u] EXCEPT !.title = "given"] EXCEPT !.review = b]
           p == [[piece[w] EXCEPT !.pc = "derive"] EXCEPT !.review = b]
<1>2. /\ piece[w].pc = "classify" /\ UNCHANGED <<upload, content, intake, requests, docFaults>>
    BY DEF Classify
<1>3. u \in Uploads /\ piece[w] \in Piece /\ document[u] \in DocumentRow /\ piece[w].at = 1
    BY <1>2, StepFacts DEF PieceInv
<1>4. piece' = [piece EXCEPT ![w] = p] /\ document' = [document EXCEPT ![u] = r]
  <2>1. [piece[w] EXCEPT !.pc = "derive", !.review = b] = p
    BY <1>3 DEF Piece
  <2>2. piece' = [piece EXCEPT ![w] = [piece[w] EXCEPT !.pc = "derive", !.review = b]]
    BY <1>1
  <2>3. [document[u] EXCEPT !.title = "given", !.review = b] = r
    BY <1>3 DEF DocumentRow
  <2>4. document' = [document EXCEPT ![u] = [document[u] EXCEPT !.title = "given", !.review = b]]
    BY <1>1, <1>3, <1>2, StepFacts
  <2> HIDE DEF p, r
  <2> QED
    BY <2>1, <2>2, <2>3, <2>4
<1>5. p \in Piece /\ p.pc = "derive" /\ p.doc = u /\ p.at = 1 /\ p.alone = piece[w].alone
    BY <1>3 DEF Piece, Tried
<1>6. r \in DocumentRow /\ r.status = document[u].status
    BY <1>3 DEF DocumentRow
<1> HIDE DEF r, p
<1>7. /\ document' \in [Uploads -> DocumentRow]
      /\ \A d \in Uploads : document'[d].status = "ready" => document[d].status = "ready"
    BY <1>3, <1>4, <1>6, DocumentChanges DEF DocIInv
<1> QED
    BY <1>2, <1>3, <1>4, <1>5, <1>7, StepFacts, PieceStep

LEMMA DeriveStep ==
    ASSUME DocIInv, NEW w \in Intakes, Derive(w)
    PROVE  DocIInv'
<1> DEFINE u == piece[w].doc
           p == [piece[w] EXCEPT !.pc = "chunk"]
<1>1. PICK l \in 0..1 : content' = [content EXCEPT ![u].tables = @ + 1, ![u].memories = @ + l]
    BY DEF Derive
<1> DEFINE x == [[content[u] EXCEPT !.tables = content[u].tables + 1] EXCEPT !.memories = content[u].memories + l]
<1>2. /\ piece[w].pc = "derive" /\ UNCHANGED <<upload, document, intake, requests, docFaults>>
      /\ piece' = [piece EXCEPT ![w] = p]
    BY DEF Derive, StepTo
<1>3. u \in Uploads /\ piece[w] \in Piece /\ content[u] \in Written /\ piece[w].at = 1
    BY <1>2, StepFacts DEF PieceInv
<1>4. content' = [content EXCEPT ![u] = x]
    BY <1>1, <1>2, <1>3, StepFacts DEF Written
<1>5. x \in Written /\ x.chunks = content[u].chunks
  <2>1. content[u].tables + 1 \in Nat /\ content[u].memories + l \in Nat
    BY <1>3 DEF Written
  <2> QED
    BY <1>3, <2>1 DEF Written
<1>6. p \in Piece /\ p.pc = "chunk" /\ p.doc = u /\ p.at = 1 /\ p.alone = piece[w].alone
    BY <1>3 DEF Piece, Tried
<1> HIDE DEF x, p
<1>7. /\ content' \in [Uploads -> Written]
      /\ \A d \in Uploads : content'[d].chunks = content[d].chunks
    BY <1>2, <1>3, <1>4, <1>5, StepFacts
<1>8. \A d \in Uploads, i \in 1..ChunkCount : content[d].chunks[i] > 0 => content'[d].chunks[i] > 0
    BY <1>7
<1>9. \A i \in 1..(p.at - 1) : content'[p.doc].chunks[i] > 0
    BY <1>6
<1>10. \A d \in Uploads : document'[d].status = "ready" => document[d].status = "ready"
    BY <1>2
<1> QED
    BY <1>2, <1>3, <1>6, <1>7, <1>8, <1>9, <1>10, StepFacts, PieceStep

(* One more chunk, or the end of them. *)
LEMMA ChunkStep ==
    ASSUME DocIInv, NEW w \in Intakes, ChunkAndEmbed(w)
    PROVE  DocIInv'
<1> DEFINE u == piece[w].doc
           n == piece[w].at
<1>1. /\ piece[w].pc = "chunk" /\ UNCHANGED <<upload, document, intake, requests, docFaults>>
    BY DEF ChunkAndEmbed
<1>2. /\ u \in Uploads /\ piece[w] \in Piece /\ content[u] \in Written /\ n \in 1..ChunkCount + 1
      /\ content[u].chunks \in [1..ChunkCount -> Nat]
      /\ \A i \in 1..(n - 1) : content[u].chunks[i] > 0
    BY <1>1, StepFacts DEF PieceInv, Piece, Written
<1>3. CASE n > ChunkCount
  <2> DEFINE p == [piece[w] EXCEPT !.pc = "finish"]
  <2>1. piece' = [piece EXCEPT ![w] = p] /\ UNCHANGED content
    BY <1>3 DEF ChunkAndEmbed, StepTo
  <2>2. p \in Piece /\ p.pc = "finish" /\ p.doc = u /\ p.alone = piece[w].alone
    BY <1>2 DEF Piece, Tried
  <2> HIDE DEF p
  <2>3. \A i \in 1..ChunkCount : content[u].chunks[i] > 0
    BY <1>2, <1>3, DocFacts
  <2> QED
    BY <1>1, <1>2, <2>1, <2>2, <2>3, StepFacts, PieceStep
<1>4. CASE ~(n > ChunkCount)
  <2> DEFINE p == [piece[w] EXCEPT !.at = n + 1]
             c == [content[u].chunks EXCEPT ![n] = content[u].chunks[n] + 1]
             x == [content[u] EXCEPT !.chunks = c]
  <2>1. piece' = [piece EXCEPT ![w] = p]
    BY <1>4 DEF ChunkAndEmbed
  <2>2. content' = [content EXCEPT ![u] = x]
    BY <1>4 DEF ChunkAndEmbed
  <2>3. n \in 1..ChunkCount /\ n + 1 \in 1..ChunkCount + 1
    BY SMTT(60), <1>2, <1>4, DocFacts
  <2>4. /\ c \in [1..ChunkCount -> Nat] /\ c[n] > 0
        /\ \A i \in 1..ChunkCount : content[u].chunks[i] > 0 => c[i] > 0
    <3> DEFINE m == content[u].chunks[n]
               k == m + 1
    <3>1. m \in Nat
      <4> HIDE DEF u, n
      <4> QED
        BY <1>2, <2>3
    <3> HIDE DEF m
    <3>2. k \in Nat /\ k > 0
      BY <3>1
    <3> HIDE DEF k
    <3>3. c = [content[u].chunks EXCEPT ![n] = k]
      BY DEF k, m
    <3> HIDE DEF c
    <3> QED
      BY <1>2, <2>3, <3>2, <3>3
  <2> HIDE DEF c
  <2>5. x \in Written /\ x.chunks = c
    BY <1>2, <2>4 DEF Written
  <2>6. p \in Piece /\ p.pc = "chunk" /\ p.doc = u /\ p.at = n + 1 /\ p.alone = piece[w].alone
    BY <1>1, <1>2, <2>3 DEF Piece
  <2> HIDE DEF x, p
  <2>7. /\ content' \in [Uploads -> Written] /\ content'[u].chunks = c
        /\ \A d \in Uploads \ {u} : content'[d] = content[d]
    BY <1>1, <1>2, <2>2, <2>5, StepFacts
  <2>8. \A d \in Uploads, i \in 1..ChunkCount : content[d].chunks[i] > 0 => content'[d].chunks[i] > 0
    BY <2>4, <2>7
  <2>9. \A i \in 1..(p.at - 1) : content'[p.doc].chunks[i] > 0
    <3>1. \A i \in 1..(p.at - 1) : i = n \/ (i \in 1..(n - 1) /\ i \in 1..ChunkCount)
      BY <2>3, <2>6, DocFacts
    <3> QED
      BY <3>1, <1>2, <2>4, <2>6, <2>7
  <2> QED
    BY <1>1, <1>2, <2>1, <2>6, <2>7, <2>8, <2>9, StepFacts, PieceStep
<1> QED
    BY <1>3, <1>4

LEMMA FinishIntakeStep ==
    ASSUME DocIInv, NEW w \in Intakes, FinishIntake(w)
    PROVE  DocIInv'
<1> DEFINE u == piece[w].doc
           s == IF piece[w].review THEN "needs_review" ELSE "ready"
           r == [document[u] EXCEPT !.status = s]
           p == [piece[w] EXCEPT !.pc = "audit"]
<1>1. /\ piece[w].pc = "finish" /\ piece' = [piece EXCEPT ![w] = p] /\ document' = [document EXCEPT ![u] = r]
      /\ UNCHANGED <<upload, content, intake, requests, docFaults>>
    BY DEF FinishIntake, StepTo
<1>2. /\ p \in Piece /\ p.pc = "audit" /\ p.doc = u /\ p.alone = piece[w].alone /\ u \in Uploads
      /\ \A i \in 1..ChunkCount : content[u].chunks[i] > 0
    BY <1>1, StepFacts DEF PieceInv, Tried
<1>3. s \in Statuses
    BY DEF Statuses
<1> HIDE DEF s
<1>4. r \in DocumentRow
    BY <1>1, <1>3, StepFacts DEF DocumentRow
<1> HIDE DEF r, p
<1>5. /\ document' \in [Uploads -> DocumentRow]
      /\ \A d \in Uploads \ {u} : document'[d] = document[d]
    BY <1>1, <1>2, <1>4, DocumentChanges DEF DocIInv
<1>6. \A d \in Uploads : document'[d].status = "ready" =>
            document[d].status = "ready" \/ \A i \in 1..ChunkCount : content'[d].chunks[i] > 0
    BY <1>1, <1>2, <1>5
<1> QED
    BY <1>1, <1>2, <1>5, <1>6, StepFacts, PieceStep

LEMMA EndSteps ==
    ASSUME DocIInv, NEW w \in Intakes, AuditCompleted(w) \/ MarkFailed(w) \/ LeavesProcessing(w)
    PROVE  DocIInv'
<1>1. CASE AuditCompleted(w)
    BY <1>1, StepFacts, CompleteOrRethrow DEF AuditCompleted
<1>2. CASE MarkFailed(w)
  <2> DEFINE u == piece[w].doc
             r == [document[u] EXCEPT !.status = "failed"]
  <2>1. /\ piece[w].pc = "catch" /\ document' = [document EXCEPT ![u] = r] /\ Rethrow(w)
        /\ UNCHANGED <<upload, content, requests, docFaults>>
    BY <1>2 DEF MarkFailed
  <2>2. u \in Uploads /\ r \in DocumentRow /\ r.status = "failed"
    BY <2>1, StepFacts DEF DocumentRow, Statuses
  <2> HIDE DEF r
  <2>3. /\ document' \in [Uploads -> DocumentRow]
        /\ \A d \in Uploads : document'[d].status = "ready" => document[d].status = "ready"
    BY <2>1, <2>2, DocumentChanges DEF DocIInv
  <2> QED
    BY <2>1, <2>3, StepFacts, CompleteOrRethrow
<1>3. CASE LeavesProcessing(w)
  <2>1. /\ piece[w].pc # "idle" /\ Rethrow(w) /\ UNCHANGED <<upload, document, content, requests>>
    BY <1>3 DEF LeavesProcessing
  <2>2. docFaults' \in 0..DocMaxFaults
    BY <1>3, DocFacts DEF LeavesProcessing, Hit, DocIInv, DocTypeOK
  <2> QED
    BY <2>1, <2>2, StepFacts, CompleteOrRethrow
<1> QED
    BY <1>1, <1>2, <1>3

LEMMA IntakeThrowsStep ==
    ASSUME DocIInv, NEW w \in Intakes, IntakeThrows(w)
    PROVE  DocIInv'
<1> DEFINE p == [piece[w] EXCEPT !.pc = "catch"]
<1>1. /\ piece[w].pc # "idle" /\ piece' = [piece EXCEPT ![w] = p]
      /\ UNCHANGED <<upload, document, content, intake, requests>>
    BY DEF IntakeThrows, StepTo, Tried
<1>2. docFaults' \in 0..DocMaxFaults
    BY DocFacts DEF IntakeThrows, Hit, DocIInv, DocTypeOK
<1>3. p \in Piece /\ p.pc = "catch" /\ p.doc = piece[w].doc /\ p.alone = piece[w].alone
    BY <1>1, StepFacts
<1> HIDE DEF p
<1> QED
    BY <1>1, <1>2, <1>3, StepFacts, PieceStep

(* Whoever kept its lock on document u is the worker the queue names.        *)
LEMMA PickUpStep ==
    ASSUME DocIInv, NEW w \in Intakes, NEW u \in Uploads, PickUpIntake(w, u)
    PROVE  DocIInv'
<1> USE DEF DocIInv
<1> DEFINE p == [[NoPiece EXCEPT !.pc = "start"] EXCEPT !.doc = u]
           j == [[intake[u] EXCEPT !.state = "active"] EXCEPT !.worker = w]
<1>1. /\ piece[w].pc = "idle" /\ intake[u].state = "waiting" /\ intake[u] \in IntakeJob
      /\ UNCHANGED <<upload, document, content, requests, docFaults>>
    BY DEF PickUpIntake, DocTypeOK
<1>2. piece' = [piece EXCEPT ![w] = p] /\ intake' = [intake EXCEPT ![u] = j]
    BY <1>1 DEF PickUpIntake, NoPiece, DocTypeOK, IntakeJob
<1>3. /\ p \in Piece /\ p.pc = "start" /\ p.doc = u /\ p.at = 1
    BY DocFacts DEF NoPiece, Piece
<1>4. j \in IntakeJob /\ j.state = "active" /\ j.worker = w /\ j.made = intake[u].made
    BY <1>1 DEF IntakeJob
<1> HIDE DEF p, j
<1>5. /\ piece' \in [Intakes -> Piece] /\ piece'[w] = p /\ \A v \in Intakes \ {w} : piece'[v] = piece[v]
    BY <1>2, <1>3, PieceMoves
<1>6. /\ intake' \in [Uploads -> IntakeJob] /\ intake'[u] = j /\ \A d \in Uploads \ {u} : intake'[d] = intake[d]
    BY <1>2, <1>4 DEF DocTypeOK
<1>7. DocTypeOK'
    BY <1>1, <1>5, <1>6 DEF DocTypeOK
<1>8. \A d \in Uploads : intake'[d].state \in {"waiting", "active"} => intake'[d].made < DocAttempts
    BY <1>1, <1>4, <1>6 DEF DocInv
<1>9. PieceInv(w)'
    BY <1>3, <1>4, <1>5, <1>6 DEF PieceInv, Holds
<1>10. \A v \in Intakes \ {w} : PieceInv(v)' \/ (piece'[v] = piece[v] /\ (piece[v].alone /\ Holds(v) => Holds(v)'))
  <2> SUFFICES ASSUME NEW v \in Intakes \ {w} PROVE PieceInv(v)' \/ (Holds(v) => Holds(v)')
    BY <1>5
  <2>1. CASE piece[v].pc = "idle"
    BY <2>1, <1>5 DEF PieceInv, DocInv
  <2>2. CASE piece[v].pc # "idle"
    <3>1. piece[v].doc \in Uploads
      BY <2>2 DEF PieceInv, DocInv
    <3> QED
      BY <3>1, <1>1, <1>5, <1>6 DEF Holds
  <2> QED
    BY <2>1, <2>2
<1> QED
    BY <1>1, <1>7, <1>8, <1>9, <1>10, DocStep

LEMMA StallStep ==
    ASSUME DocIInv, NEW u \in Uploads, StallIntake(u)
    PROVE  DocIInv'
<1> USE DEF DocIInv
<1> DEFINE s == IF intake[u].stalls < DocMaxStalls THEN "waiting" ELSE "failed"
           n == IF intake[u].stalls < DocMaxStalls THEN intake[u].stalls + 1 ELSE intake[u].stalls
           j == [[[intake[u] EXCEPT !.state = s] EXCEPT !.stalls = n] EXCEPT !.worker = "none"]
           h == intake[u].worker
           p == [piece[h] EXCEPT !.alone = FALSE]
           own == \E w \in Intakes : intake[u].worker = w /\ piece[w].doc = u
<1>1. intake[u].state = "active" /\ intake[u] \in IntakeJob /\ UNCHANGED <<upload, document, content, requests>>
    BY DEF StallIntake, DocTypeOK
<1>2. intake' = [intake EXCEPT ![u] = j]
    BY <1>1 DEF StallIntake, DocTypeOK, IntakeJob
<1>3. s \in {"waiting", "failed"} /\ n \in 0..DocMaxStalls
    BY <1>1, DocFacts DEF IntakeJob
<1> HIDE DEF s, n
<1>4. j \in IntakeJob /\ j.made = intake[u].made
    BY <1>1, <1>3 DEF IntakeJob
<1> HIDE DEF j
<1>5. /\ intake' \in [Uploads -> IntakeJob] /\ intake'[u] = j /\ \A d \in Uploads \ {u} : intake'[d] = intake[d]
    BY <1>2, <1>4 DEF DocTypeOK
<1>6. \A d \in Uploads : intake'[d].state \in {"waiting", "active"} => intake'[d].made < DocAttempts
    BY <1>1, <1>4, <1>5 DEF DocInv
<1>7. docFaults' \in 0..DocMaxFaults
    BY DocFacts DEF StallIntake, Hit, DocTypeOK
<1>8. \A v \in Intakes : piece'[v] = piece[v] =>
            PieceInv(v)' \/ (piece[v].alone /\ Holds(v) => Holds(v)') \/ (piece[v].alone /\ piece[v].doc = u)
  <2> SUFFICES ASSUME NEW v \in Intakes, piece'[v] = piece[v], piece[v].doc # u
               PROVE  PieceInv(v)' \/ (Holds(v) => Holds(v)')
    OBVIOUS
  <2>1. CASE piece[v].pc = "idle"
    BY <2>1 DEF PieceInv, DocInv
  <2>2. CASE piece[v].pc # "idle"
    <3>1. piece[v].doc \in Uploads
      BY <2>2 DEF PieceInv, DocInv
    <3> QED
      BY <3>1, <1>5 DEF Holds
  <2> QED
    BY <2>1, <2>2
<1>9. \A v \in Intakes : piece[v].alone /\ piece[v].doc = u => own /\ v = h
  <2> SUFFICES ASSUME NEW v \in Intakes, piece[v].alone, piece[v].doc = u PROVE intake[u].worker = v
    OBVIOUS
  <2> QED
    BY DEF DocInv, PieceInv, Holds
<1>10. CASE own
  <2>1. h \in Intakes /\ piece[h].doc = u /\ piece[h] \in Piece
    BY <1>10 DEF DocTypeOK
  <2>2. piece' = [piece EXCEPT ![h] = p]
    BY <1>10 DEF StallIntake
  <2>3. p \in Piece /\ p.pc = piece[h].pc /\ p.doc = piece[h].doc /\ p.at = piece[h].at /\ p.alone = FALSE
    BY <2>1 DEF Piece
  <2> HIDE DEF p
  <2>4. /\ piece' \in [Intakes -> Piece] /\ piece'[h] = p /\ \A v \in Intakes \ {h} : piece'[v] = piece[v]
    BY <2>1, <2>2, <2>3, PieceMoves
  <2>5. DocTypeOK'
    BY <1>1, <1>5, <1>7, <2>4 DEF DocTypeOK
  <2>6. \A v \in Intakes : v = h => PieceInv(v)'
    <3> SUFFICES ASSUME NEW v \in Intakes, v = h PROVE PieceInv(v)'
      OBVIOUS
    <3>1. piece'[v] = p /\ PieceInv(v) /\ UNCHANGED content
      BY <1>1, <2>4 DEF DocInv
    <3> QED
      BY <3>1, <2>3 DEF PieceInv
  <2>7. \A v \in Intakes : PieceInv(v)' \/ (piece'[v] = piece[v] /\ (piece[v].alone /\ Holds(v) => Holds(v)'))
    BY <1>8, <1>9, <2>4, <2>6
  <2> QED
    BY <1>1, <1>6, <2>5, <2>7, DocStep
<1>11. CASE ~own
  <2>1. UNCHANGED piece
    BY <1>11 DEF StallIntake
  <2>2. DocTypeOK'
    BY <1>1, <1>5, <1>7, <2>1 DEF DocTypeOK
  <2>3. \A v \in Intakes : PieceInv(v)' \/ (piece'[v] = piece[v] /\ (piece[v].alone /\ Holds(v) => Holds(v)'))
    BY <1>8, <1>9, <1>11, <2>1
  <2> QED
    BY <1>1, <1>6, <2>2, <2>3, DocStep
<1> QED
    BY <1>10, <1>11

LEMMA IntakeCrashStep ==
    ASSUME DocIInv, IntakeCrash
    PROVE  DocIInv'
<1> USE DEF DocIInv
<1>1. /\ piece' = [w \in Intakes |-> NoPiece] /\ UNCHANGED <<document, content, intake, requests>>
      /\ docFaults' \in 0..DocMaxFaults
    BY DocFacts DEF IntakeCrash, Hit, DocTypeOK
<1>2. upload' \in [Uploads -> UploadPlace]
  <2>1. \A u \in Uploads : [upload[u] EXCEPT !.pc = "error"] \in UploadPlace
    BY DEF DocTypeOK, UploadPlace
  <2> QED
    BY <2>1 DEF IntakeCrash, DocTypeOK
<1>3. DocTypeOK'
    BY <1>1, <1>2, DocFacts DEF DocTypeOK
<1>4. \A w \in Intakes : PieceInv(w)'
    BY <1>1, DocFacts DEF PieceInv
<1>5. \A u \in Uploads : intake'[u].state \in {"waiting", "active"} => intake'[u].made < DocAttempts
    BY <1>1 DEF DocInv
<1> QED
    BY <1>1, <1>3, <1>4, <1>5, DocStep

LEMMA DocInvariant == DocSpec => []DocIInv
<1>1. DocInit => DocIInv
  <2> SUFFICES ASSUME DocInit PROVE DocIInv
    OBVIOUS
  <2>1. DocTypeOK
    BY DocFacts DEF DocInit, DocTypeOK, UploadPlace, DocumentRow, Written, Statuses
  <2>2. ReadyIsIndexed
    BY DEF DocInit, ReadyIsIndexed
  <2>3. \A u \in Uploads : intake[u].state = "none"
    BY DocFacts DEF DocInit
  <2>4. \A w \in Intakes : PieceInv(w)
    BY DocFacts DEF DocInit, PieceInv
  <2> QED
    BY <2>1, <2>2, <2>3, <2>4 DEF DocIInv, DocInv
<1>2. DocIInv /\ [DocNext]_docVars => DocIInv'
  <2> SUFFICES ASSUME DocIInv, [DocNext]_docVars PROVE DocIInv'
    OBVIOUS
  <2>1. CASE UNCHANGED docVars
    BY <2>1 DEF DocIInv, DocInv, DocTypeOK, ReadyIsIndexed, PieceInv, Holds, docVars
  <2>2. ASSUME NEW u \in Uploads, \/ \E f \in Files : BeginUpload(u, f)
                                  \/ Upload(u) \/ UploadThrows(u)
                                  \/ Archive(u) \/ UpdateTitle(u) \/ Reprocess(u)
                                  \/ StallIntake(u) \/ ForgetIntake(u)
        PROVE  DocIInv'
    BY <2>2, UploadSteps, EnqueueUploadStep, OtherRequestSteps, StallStep DEF Upload
  <2>3. ASSUME NEW w \in Intakes, Pipeline(w) \/ IntakeThrows(w) \/ LeavesProcessing(w)
        PROVE  DocIInv'
    BY <2>3, PickUpStep, StartIntakeStep, ExtractStep, ClassifyStep, DeriveStep, ChunkStep, FinishIntakeStep,
       EndSteps, IntakeThrowsStep DEF Pipeline
  <2>4. CASE IntakeCrash
    BY <2>4, IntakeCrashStep
  <2> QED
    BY <2>1, <2>2, <2>3, <2>4 DEF DocNext
<1> QED
    BY <1>1, <1>2, PTL DEF DocSpec

(* What the user is told is ready can be found, and a document is worked on  *)
(* by one run of the pipeline as long as the queue loses no lock, for any    *)
(* number of uploads, workers, chunks, attempts, stalls and failures.        *)
THEOREM ReadyMeansSearchable == DocSpec => []DocSafe
<1>1. DocIInv => DocSafe
  <2> SUFFICES ASSUME DocIInv PROVE DocSafe
    OBVIOUS
  <2>1. OneIntakePerDocument
    <3> SUFFICES ASSUME NEW v \in Intakes, NEW w \in Intakes, piece[v].doc = piece[w].doc,
                        piece[v].doc # NoUpload, piece[v].alone, piece[w].alone
                 PROVE  v = w
      BY DEF OneIntakePerDocument
    <3>1. piece[v].doc \in Uploads
      BY DEF DocIInv, DocTypeOK, Piece
    <3> QED
      BY <3>1 DEF DocIInv, DocInv, PieceInv, Holds
  <2> QED
    BY <2>1 DEF DocSafe, DocIInv, DocInv
<1> QED
    BY <1>1, DocInvariant, PTL
===============================================================================
