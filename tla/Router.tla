-------------------------------- MODULE Router --------------------------------
(***************************************************************************)
(* Which agent answers a message.                                          *)
(*   src/router/mora-router.service.ts   classify, splitHybrid             *)
(* A text is the record of what the patterns find in it and how long it is.*)
(* The rules come first; only a text on which they are silent reaches the  *)
(* model, whose answer is any JSON, or none.                               *)
(***************************************************************************)
EXTENDS Integers, Sequences, FiniteSets

CONSTANTS Texts,          \* what the patterns may find in the messages
          ModelSpaces     \* what the model may write as a space

(* What a text is, as the rules see it: in an empty one no pattern matches. *)
Text == [words : Nat, sentences : Nat, personal : BOOLEAN, spaces : SUBSET {"logistiga", "piston", "code"},
         general : BOOLEAN, userData : BOOLEAN, learning : BOOLEAN, greeting : BOOLEAN, factual : BOOLEAN,
         task : BOOLEAN, question : BOOLEAN, sensitive : BOOLEAN]

ASSUME RouterConstants ==
    Texts \subseteq Text /\ \A t \in Texts : t.words = 0 => ~t.personal /\ ~t.general /\ t.spaces = {}

VARIABLES text, routing   \* the message, and where its classification stands

routerVars == <<text, routing>>

Routes == {"direct", "personal", "professional", "hybrid"}
Filed == Routes \union {"logistiga", "piston", "code", "general"} \union ModelSpaces
Intents == {"learn_preference", "greeting", "task", "question", "information", "unknown"}
NoDecision == [route |-> "none", space |-> "none", intent |-> "none", security |-> "none",
               complexity |-> "none", method |-> "none"]

Decision == [route : Routes, space : Filed, intent : Intents, security : {"low", "medium", "high"},
             complexity : {"low", "medium", "high"}, method : {"rules", "llm-fallback", "default-fallback"}]

RouterTypeOK ==
    /\ text \in Texts
    /\ routing \in [pc : {"rules", "model", "default", "split", "done"}, decision : {NoDecision} \union Decision,
                    parts : BOOLEAN]

RouterInit == text \in Texts /\ routing = [pc |-> "rules", decision |-> NoDecision, parts |-> FALSE]

-------------------------------------------------------------------------------

(* The first professional pattern that matches names the space. *)
ProfessionalSpace(t) ==
    CASE "logistiga" \in t.spaces -> "logistiga"
      [] "logistiga" \notin t.spaces /\ "piston" \in t.spaces -> "piston"
      [] t.spaces = {"code"} -> "code"
      [] OTHER -> "general"

DetectIntent(t) ==
    IF t.learning THEN "learn_preference"
    ELSE IF t.greeting THEN "greeting"
    ELSE IF t.task THEN "task"
    ELSE IF t.question THEN "question" ELSE "information"

DetectComplexity(t) ==
    IF t.words > 40 \/ t.sentences > 3 THEN "high"
    ELSE IF t.words > 12 \/ t.sentences > 1 THEN "medium" ELSE "low"

DetectSecurityLevel(t, route) ==
    IF t.sensitive THEN "high" ELSE IF route \in {"professional", "hybrid"} THEN "medium" ELSE "low"

DefaultSpaceFor(route) == IF route = "professional" THEN "general" ELSE route

(* A personal decision is always in the personal space. *)
BuildResult(t, route, space, intent, method) ==
    [route |-> route, space |-> IF route = "personal" THEN "personal" ELSE space, intent |-> intent,
     security |-> DetectSecurityLevel(t, route), complexity |-> DetectComplexity(t), method |-> method]

GreetingMaxWords == 6

(* Mutant: what the user stored comes after the short messages. *)
ClassifyWithRulesLate(t) ==
    LET professional == t.spaces # {} \/ t.general
        By(route, space, intent) == {BuildResult(t, route, space, intent, "rules")}
    IN  IF t.words = 0 THEN By("direct", "direct", "unknown")
        ELSE IF t.personal /\ professional THEN By("hybrid", "hybrid", DetectIntent(t))
        ELSE IF professional THEN By("professional", ProfessionalSpace(t), DetectIntent(t))
        ELSE IF t.personal THEN By("personal", "personal", DetectIntent(t))
        ELSE IF t.words <= 3 THEN By("direct", "direct", DetectIntent(t))
        ELSE IF t.userData THEN By("personal", "personal", DetectIntent(t))
        ELSE IF t.learning THEN By("personal", "personal", "learn_preference")
        ELSE {}

(* The rules in the order they are tried; {} when none is sure. *)
ClassifyWithRules(t) ==
    LET professional == t.spaces # {} \/ t.general
        By(route, space, intent) == {BuildResult(t, route, space, intent, "rules")}
    IN  IF t.words = 0 THEN By("direct", "direct", "unknown")
        ELSE IF t.personal /\ professional THEN By("hybrid", "hybrid", DetectIntent(t))
        ELSE IF professional THEN By("professional", ProfessionalSpace(t), DetectIntent(t))
        ELSE IF t.personal \/ t.userData THEN By("personal", "personal", DetectIntent(t))
        ELSE IF t.learning THEN By("personal", "personal", "learn_preference")
        ELSE IF (t.greeting /\ t.words <= GreetingMaxWords) \/ t.factual \/ t.words <= 3
             THEN By("direct", "direct", DetectIntent(t))
        ELSE {}

-------------------------------------------------------------------------------

Classify ==
    /\ routing.pc = "rules"
    /\ LET found == ClassifyWithRules(text) IN
       routing' = IF found = {} THEN [routing EXCEPT !.pc = "model"]
                  ELSE LET d == CHOOSE d \in found : TRUE
                       IN [routing EXCEPT !.pc = IF d.route = "hybrid" THEN "split" ELSE "done", !.decision = d]
    /\ UNCHANGED text

(* No model, JSON that does not parse or an unknown route: the default. The *)
(* space is taken as the model wrote it.                                    *)
ClassifyWithLlm ==
    /\ routing.pc = "model"
    /\ \/ routing' = [routing EXCEPT !.pc = "default"]
       \/ \E route \in Routes, space \in ModelSpaces \union {"absent"} :
            LET d == BuildResult(text, route, IF space = "absent" THEN DefaultSpaceFor(route) ELSE space,
                                 "unknown", "llm-fallback")
            IN routing' = [routing EXCEPT !.pc = IF route = "hybrid" THEN "split" ELSE "done", !.decision = d]
    /\ UNCHANGED text

DefaultFallback ==
    /\ routing.pc = "default"
    /\ routing' = [routing EXCEPT !.pc = "done", !.decision =
                    BuildResult(text, "direct", "direct", "unknown", "default-fallback")]
    /\ UNCHANGED text

(* Both parts, or none when one is missing or nothing can be parsed. *)
SplitHybridText ==
    /\ routing.pc = "split"
    /\ \E both \in BOOLEAN : routing' = [routing EXCEPT !.pc = "done", !.parts = both]
    /\ UNCHANGED text

RouterNext == Classify \/ ClassifyWithLlm \/ DefaultFallback \/ SplitHybridText

RouterSpec == RouterInit /\ [][RouterNext]_routerVars

-------------------------------------------------------------------------------
(* "no path (with or without an LLM) can put it on direct": a message about  *)
(* the user's own data, or one that teaches a preference, reaches an agent   *)
(* with tools, whatever else it says and whatever the model answers.         *)
NeverDirect ==
    routing.pc = "done" /\ text.words > 0 /\ (text.userData \/ text.learning) => routing.decision.route # "direct"

(* The model is asked only when no keyword decides, and never overrides one: *)
(* a message with keywords of one side is never given to the other.          *)
KeywordsDecide ==
    LET professional == text.spaces # {} \/ text.general IN
    routing.pc = "done" /\ (text.personal \/ professional) =>
        routing.decision.route = IF ~professional THEN "personal"
                                 ELSE IF text.personal THEN "hybrid" ELSE "professional"

(* A personal decision is filed under the personal space only, and a message *)
(* that mentions a secret is of the highest security level on every path.    *)
FiledRight ==
    /\ routing.decision.route = "personal" => routing.decision.space = "personal"
    /\ routing.pc = "done" => (text.sensitive <=> routing.decision.security = "high")

(* What holds of every message and every answer of the model. *)
RouterSafe == RouterTypeOK /\ NeverDirect /\ KeywordsDecide /\ FiledRight

(* Why it holds: the model and the default are reached only by a text on     *)
(* which every rule is silent, and a split only by a hybrid decision.        *)
RouterInv ==
    /\ routing.pc \in {"model", "default"} => ClassifyWithRules(text) = {}
    /\ routing.pc \in {"rules", "model", "default"} => routing.decision = NoDecision
    /\ routing.pc = "split" => routing.decision.route = "hybrid"
    /\ routing.pc \in {"split", "done"} =>
        LET professional == text.spaces # {} \/ text.general IN
        /\ text.words > 0 /\ (text.userData \/ text.learning) => routing.decision.route # "direct"
        /\ text.personal \/ professional =>
            routing.decision.route = IF ~professional THEN "personal"
                                     ELSE IF text.personal THEN "hybrid" ELSE "professional"
        /\ routing.decision.route = "personal" => routing.decision.space = "personal"
        /\ text.sensitive <=> routing.decision.security = "high"

-------------------------------------------------------------------------------
(* What the code does not keep. The prompt lists the spaces of each route,   *)
(* and only a personal decision is corrected: a professional one may be      *)
(* filed under "personal", where no professional agent looks for it.         *)
SpaceOfItsRoute ==
    routing.decision.route = "professional" => routing.decision.space \in {"general", "logistiga", "piston", "code"}
===============================================================================
