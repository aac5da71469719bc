----------------------------- MODULE MCKnowledge -----------------------------
(* What Mora knows, one store at a time: a behaviour works on the documents, *)
(* the memories or the profile facts, and the other two stay at their start, *)
(* so that the state spaces add instead of multiplying.                      *)
EXTENDS Documents, MemoryStore, ProfileFacts, TLC

VARIABLE store

allVars == <<docVars, memVars, factVars, store>>

MCDigits == ("plain" :> 0) @@ ("dated" :> 1)

Init == DocInit /\ MemInit /\ FactInit /\ store \in {"documents", "memories", "facts"}

Next ==
    /\ \/ store = "documents" /\ DocNext /\ UNCHANGED <<memVars, factVars>>
       \/ store = "memories" /\ MemNext /\ UNCHANGED <<docVars, factVars>>
       \/ store = "facts" /\ FactNext /\ UNCHANGED <<docVars, memVars>>
    /\ UNCHANGED store

Spec == Init /\ [][Next]_allVars /\ (store = "documents" => DocFairness)
===============================================================================
