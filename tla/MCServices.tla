----------------------------- MODULE MCServices -----------------------------
(* The services behind a conversation, one at a time: a behaviour works on   *)
(* one of them and the others stay at their start, so that the state spaces  *)
(* add instead of multiplying.                                               *)
EXTENDS AiProviders, Sessions, GoogleGrant, AddressBook, Mailbox, TLC

VARIABLE service

allVars == <<aiVars, sessionVars, grantVars, bookVars, mailVars, service>>

(* Rows of SYSTEM and of two users, in and out of a scope; one without an    *)
(* adapter, one whose key cannot be decrypted.                               *)
Row(owner, scope, space, def, prio) ==
    [owner |-> owner, scope |-> scope, space |-> space, isActive |-> TRUE, isDefault |-> def,
     prio |-> prio, adapter |-> TRUE, legible |-> TRUE, deleted |-> FALSE]
MCRows ==
    { << Row("sys", "none", "none", TRUE, 0), Row("u1", "none", "none", FALSE, 0), Row("u1", "none", "none", FALSE, 1) >>,
      << Row("sys", "s", "none", TRUE, 1), [Row("u1", "s", "p", FALSE, 0) EXCEPT !.adapter = FALSE],
         [Row("u2", "none", "none", TRUE, 0) EXCEPT !.legible = FALSE] >> }
MCNew == {Row("sys", "none", "none", TRUE, 0)}
MCPatches == { [isDefault |-> TRUE], [isActive |-> FALSE], [isActive |-> TRUE, isDefault |-> FALSE],
               [deleted |-> TRUE], [scope |-> "s", legible |-> TRUE] }

MCPerson(name, ids) == [name |-> name, ids |-> ids, gone |-> FALSE, version |-> 0]
MCPeople == {<<>>, <<MCPerson("A", {"x", "y"})>>,
             <<MCPerson("A", {}), MCPerson("B", {"x"}), MCPerson(Nameless, {"y"})>>}

MCInBox == ("b1" :> {"m1", "m2"}) @@ ("b2" :> {"m2"})
MCFrom == ("m1" :> "s1") @@ ("m2" :> "s1")

Init ==
    /\ service \in {"ai", "sessions", "grant", "book", "mail"}
    /\ service # "ai" => providers = CHOOSE s \in MCRows : TRUE
    /\ service # "book" => people = <<>>
    /\ AiInit /\ SessionInit /\ GrantInit /\ BookInit /\ MailInit

Next ==
    /\ \/ service = "ai" /\ AiNext /\ UNCHANGED <<sessionVars, grantVars, bookVars, mailVars>>
       \/ service = "sessions" /\ SessionNext /\ UNCHANGED <<aiVars, grantVars, bookVars, mailVars>>
       \/ service = "grant" /\ GrantNext /\ UNCHANGED <<aiVars, sessionVars, bookVars, mailVars>>
       \/ service = "book" /\ BookNext /\ UNCHANGED <<aiVars, sessionVars, grantVars, mailVars>>
       \/ service = "mail" /\ MailNext /\ UNCHANGED <<aiVars, sessionVars, grantVars, bookVars>>
    /\ UNCHANGED service

Spec == Init /\ [][Next]_allVars
===============================================================================
