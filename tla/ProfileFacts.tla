------------------------------ MODULE ProfileFacts ------------------------------
(***************************************************************************)
(* One key of the essential profile (src/memory/profile-facts.service.ts), *)
(* written by the jobs of the extraction worker                            *)
(* (memory-extraction.service.ts, commitEssentialFacts). One job runs at a *)
(* time, but a job whose lock expired runs on while another begins.        *)
(***************************************************************************)
EXTENDS Integers, Sequences, FiniteSets

CONSTANTS FactJobs, FactValues,
          FactAttempts,   \* MEMORY_JOB_DEFAULT_OPTIONS.attempts
          FactMaxFaults   \* bound on failed queries, crashes and lost locks

ASSUME FactConstants ==
    /\ IsFiniteSet(FactJobs) /\ FactValues # {}
    /\ FactAttempts \in Nat \ {0} /\ FactMaxFaults \in Nat

VARIABLES facts,    \* the rows of the key
          upsert,   \* upsert[j]: where upsertEssential stands in job j
          factFaults

factVars == <<facts, upsert, factFaults>>

Confidences == 1..2
Running(j) == upsert[j].pc \in {"find", "create", "bump", "mark"}

FactRow == [value : FactValues, confidence : Confidences, status : {"active", "superseded"}, by : Nat]
Upsert == [pc : {"idle", "find", "create", "bump", "mark", "done", "failed"}, value : FactValues,
           confidence : Confidences, seen : {0} \union Confidences, found : Nat, made : Nat, tries : 0..FactAttempts]

FactTypeOK ==
    /\ facts \in Seq(FactRow) /\ \A i \in DOMAIN facts : facts[i].by <= Len(facts)
    /\ upsert \in [FactJobs -> Upsert]
    /\ \A j \in FactJobs : upsert[j].found <= Len(facts) /\ upsert[j].made <= Len(facts)
    /\ factFaults \in 0..FactMaxFaults

FactInit ==
    /\ facts = <<>>
    /\ upsert = [j \in FactJobs |-> [pc |-> "idle", value |-> CHOOSE v \in FactValues : TRUE, confidence |-> 1,
                                     seen |-> 0, found |-> 0, made |-> 0, tries |-> 0]]
    /\ factFaults = 0

(* The model states a fact; the job comes to its first query. It begins     *)
(* while another runs only if that one lost its lock.                       *)
CommitEssentialFacts(j, v, c) ==
    /\ upsert[j].pc = "idle"
    /\ factFaults' = IF \E k \in FactJobs : Running(k) THEN factFaults + 1 ELSE factFaults
    /\ factFaults' <= FactMaxFaults
    /\ upsert' = [upsert EXCEPT ![j].pc = "find", ![j].value = v, ![j].confidence = c]
    /\ UNCHANGED facts

ActiveFacts == {i \in DOMAIN facts : facts[i].status = "active"}

(* Mutant: any row of the key will do. *)
FindFactAny(j) ==
    /\ upsert[j].pc = "find"
    /\ \E i \in IF facts = <<>> THEN {0} ELSE DOMAIN facts :
        upsert' = [upsert EXCEPT ![j].found = i, ![j].seen = IF i = 0 THEN 0 ELSE facts[i].confidence,
                    ![j].pc = IF i # 0 /\ facts[i].value = upsert[j].value THEN "bump" ELSE "create"]
    /\ UNCHANGED <<facts, factFaults>>

(* An active row of the key; the same value again only raises confidence. *)
FindFact(j) ==
    /\ upsert[j].pc = "find"
    /\ \E i \in IF ActiveFacts = {} THEN {0} ELSE ActiveFacts :
        upsert' = [upsert EXCEPT ![j].found = i, ![j].seen = IF i = 0 THEN 0 ELSE facts[i].confidence,
                    ![j].pc = IF i # 0 /\ facts[i].value = upsert[j].value THEN "bump" ELSE "create"]
    /\ UNCHANGED <<facts, factFaults>>

BumpConfidence(j) ==
    /\ upsert[j].pc = "bump"
    /\ facts' = [facts EXCEPT ![upsert[j].found].confidence =
                    IF upsert[j].seen < upsert[j].confidence THEN upsert[j].confidence ELSE upsert[j].seen]
    /\ upsert' = [upsert EXCEPT ![j].pc = "done"]
    /\ UNCHANGED factFaults

CreateFact(j) ==
    /\ upsert[j].pc = "create"
    /\ facts' = Append(facts, [value |-> upsert[j].value, confidence |-> upsert[j].confidence,
                               status |-> "active", by |-> 0])
    /\ upsert' = [upsert EXCEPT ![j].made = Len(facts) + 1, ![j].pc = IF upsert[j].found = 0 THEN "done" ELSE "mark"]
    /\ UNCHANGED factFaults

SupersedeFact(j) ==
    /\ upsert[j].pc = "mark"
    /\ facts' = [facts EXCEPT ![upsert[j].found].status = "superseded", ![upsert[j].found].by = upsert[j].made]
    /\ upsert' = [upsert EXCEPT ![j].pc = "done"]
    /\ UNCHANGED factFaults

(* A query fails or the worker dies: the job starts over. *)
UpsertFails(j) ==
    /\ Running(j) /\ factFaults < FactMaxFaults
    /\ factFaults' = factFaults + 1
    /\ upsert' = [upsert EXCEPT ![j].found = 0, ![j].made = 0, ![j].tries = @ + 1,
                    ![j].pc = IF upsert[j].tries + 1 < FactAttempts THEN "find" ELSE "failed"]
    /\ UNCHANGED facts

FactNext == \E j \in FactJobs :
    \/ \E v \in FactValues, c \in Confidences : CommitEssentialFacts(j, v, c)
    \/ FindFact(j) \/ BumpConfidence(j) \/ CreateFact(j) \/ SupersedeFact(j) \/ UpsertFails(j)

FactSpec == FactInit /\ [][FactNext]_factVars

-------------------------------------------------------------------------------
(* A preference the user taught stays taught: whatever overlaps, fails or is *)
(* retried, the key never loses its last active fact.                        *)
KeyKept == facts # <<>> => ActiveFacts # {}

(* A stray active fact of the key costs a failure: each failed query, crash  *)
(* or lost lock leaves at most one, and without any the key has one fact,    *)
(* or two while a run stands between its two writes.                         *)
OneFactPerFailure ==
    Cardinality(ActiveFacts) <= 1 + factFaults + Cardinality({j \in FactJobs : upsert[j].pc = "mark"})

(* What holds of a profile key at every moment. *)
FactSafe == FactTypeOK /\ KeyKept /\ OneFactPerFailure

(* Why a fact is left: nobody supersedes the last row, for a run only marks  *)
(* a row older than the one it made.                                         *)
MarkInv ==
    /\ facts # <<>> => Len(facts) \in ActiveFacts
    /\ \A j \in FactJobs :
        /\ Running(j) \/ upsert[j].pc = "idle" => upsert[j].tries < FactAttempts
        /\ upsert[j].pc \in {"bump", "mark"} => upsert[j].found > 0
        /\ upsert[j].pc = "mark" => upsert[j].found < upsert[j].made

(* Why stray facts cost failures: each run in progress but the first has     *)
(* cost one, and a run whose row somebody else superseded, or that found     *)
(* none, will leave one fact more than it replaces.                          *)
Runs == {j \in FactJobs : Running(j)}
Marking == {j \in FactJobs : upsert[j].pc = "mark"}
Overtaken(j) == upsert[j].pc \in {"create", "mark"} /\ upsert[j].found \notin ActiveFacts
CountInv ==
    /\ Cardinality(Runs) <= 1 + factFaults
    /\ Cardinality(ActiveFacts) + Cardinality(Runs) <= 2 + factFaults + Cardinality(Marking)
    /\ (\A j \in Runs : Overtaken(j)) =>
            Cardinality(ActiveFacts) + Cardinality(Runs) <= 1 + factFaults + Cardinality(Marking)

FactInv == MarkInv /\ CountInv

-------------------------------------------------------------------------------
(* What the documents say and the code does not keep. *)

(* "Writes (or supersedes) one Essential Profile fact", matched by key: two  *)
(* runs that overlap, or a run that fails between its two writes, leave two. *)
OneFactPerKey == (\A j \in FactJobs : ~Running(j)) => Cardinality(ActiveFacts) <= 1

(* A confidence is only nudged up.                                           *)
ConfidenceGrows == [][\A i \in DOMAIN facts : facts'[i].confidence >= facts[i].confidence]_factVars
===============================================================================
