--------------------------- MODULE MCPendingActions ---------------------------
(* Small instances of PendingActions: a lookup tool that runs at once, a   *)
(* tool that needs confirmation and a blocked one, the last two in a skill. *)
EXTENDS PendingActions, TLC

CONSTANTS lookup, send, wipe, personal, business

MCLevel == [t \in Tools |-> IF t = lookup THEN "N1" ELSE IF t = send THEN "N2" ELSE "N4"]
MCAllowedScopes == [t \in Tools |-> IF t = send THEN {personal} ELSE Scopes]
MCSkillOf == [t \in Tools |-> IF t = lookup THEN NoSkill ELSE "skill"]

(* Requests are interchangeable, and so are users.                         *)
MCSymmetry == Permutations(Requests) \union Permutations(Users)
===============================================================================
