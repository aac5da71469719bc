----------------------------- MODULE MCSurfaces -----------------------------
(* The parts a conversation reaches through its routing, its tools and its   *)
(* channels, one at a time: a behaviour works on one of them and the others  *)
(* stay at their start, so that the state spaces add instead of multiplying. *)
EXTENDS Router, Retrieval, Tools, Calendar, Vision, WhatsAppDelivery

VARIABLE surface

surfaceVars == <<routerVars, retrievalVars, toolVars, calendarVars, visionVars, deliveryVars, surface>>

(* Messages with and without keywords of each side, short and long. *)
MCTexts ==
    LET features == [words : {0, 2, 5, 13, 41}, sentences : {1, 4}, personal : BOOLEAN,
                 spaces : {{}, {"logistiga"}, {"piston", "logistiga"}, {"code"}}, general : BOOLEAN,
                 userData : BOOLEAN, learning : BOOLEAN, greeting : BOOLEAN, factual : BOOLEAN,
                 task : BOOLEAN, question : BOOLEAN, sensitive : BOOLEAN]
    IN {t \in features : t.words = 0 => /\ t.spaces = {} /\ t.sentences = 1
                                    /\ ~(t.personal \/ t.general \/ t.userData \/ t.learning \/ t.greeting
                                           \/ t.factual \/ t.task \/ t.question \/ t.sensitive)}

(* Three memories of a lane (the furthest weighs most and may have another   *)
(* size; one has an accent) and one of the other lane; four chunks of three  *)
(* documents.                                                                *)
Memory(lane, dims, sim, found, overlap, worth) ==
    [lane |-> lane, active |-> TRUE, dims |-> dims, sim |-> sim, found |-> found, overlap |-> overlap,
     worth |-> worth, uses |-> 0, recent |-> FALSE]
Chunk(doc, dims, sim, found) ==
    [doc |-> doc, dims |-> dims, ann |-> dims = 2, sim |-> sim, found |-> found, overlap |-> IF found THEN 1 ELSE 0]
MCMemories ==
    { [m1 |-> [Memory("personal", 1, 2, TRUE, 1, 0) EXCEPT !.recent = TRUE], m2 |-> Memory("personal", d, 1, FALSE, 2, 11),
       m3 |-> Memory("personal", 1, 3, TRUE, 1, 5), m4 |-> Memory("professional", 1, 2, TRUE, 2, 9)] : d \in {1, 2} }
MCChunks == {[k1 |-> Chunk("f1", 1, 2, TRUE), k2 |-> Chunk("f2", 1, 1, TRUE), k3 |-> Chunk("f3", 2, 2, TRUE),
              k4 |-> Chunk("f2", 1, 0, TRUE)]}
Question(of, lane, words, filtered) == [of |-> of, lane |-> lane, words |-> words, filtered |-> filtered]
MCQuestions == { Question("memories", "personal", TRUE, FALSE), Question("memories", "professional", FALSE, FALSE),
                 Question("chunks", "personal", TRUE, TRUE), Question("chunks", "personal", TRUE, FALSE) }
MCDoc(lane, matches) == [lane |-> lane, ready |-> TRUE, matches |-> matches, run |-> FALSE]
MCDocs == {[f1 |-> MCDoc("personal", b), f2 |-> MCDoc("personal", TRUE), f3 |-> MCDoc("professional", TRUE)] : b \in BOOLEAN}

(* Rows of two lanes; a conversation with a blocked contact. *)
MCRow(kind, lane, party) == [kind |-> kind, lane |-> lane, party |-> party, live |-> TRUE, by |-> "none"]
MCRecords == << MCRow("task", "personal", 0), MCRow("task", "logistiga", 0), MCRow("talk", "logistiga", 1),
                MCRow("talk", "logistiga", 2), MCRow("thread", "personal", 1), MCRow("thread", "logistiga", 0),
                MCRow("document", "logistiga", 0), MCRow("document", "personal", 0) >>
Party(name, company, blocked, phone, mail) ==
    [lane |-> "personal", name |-> name, company |-> company, blocked |-> blocked, phone |-> phone, mail |-> mail]
MCContacts == << Party({"Ana"}, {}, FALSE, TRUE, TRUE), Party({"Ana", "Di"}, {}, TRUE, TRUE, TRUE),
                 Party({"Cy"}, {"Bo"}, FALSE, TRUE, FALSE), Party({"Cy"}, {}, FALSE, TRUE, TRUE) >>
MCNames == {{"Ana"}, {"Bo"}, {"Cy"}}
MCGivenNames == {{"Ana"}, {}}

(* One sound image of each kind; a JPEG cut before its frame header. *)
Image(name, kind, bytes, segments, width) ==
    [name |-> name, kind |-> kind, bytes |-> bytes, segments |-> segments, chunk |-> "VP8L", width |-> width, height |-> 1]
MCImages == { Image("a", "png", 24, <<>>, 1), Image("b", "jpeg", 30, <<[marker |-> 224, length |-> 4], [marker |-> 192, length |-> 12]>>, 2),
              Image("c", "jpeg", 12, <<[marker |-> 224, length |-> 4], [marker |-> 192, length |-> 12]>>, 2),
              Image("d", "webp", 30, <<>>, 2), Image("e", "png", 24, <<>>, 9) }
MCSelections ==
    LET named(n) == CHOOSE i \in MCImages : i.name = n IN
    {<<>>, <<named("a")>>, <<named("b"), named("a")>>, <<named("c")>>, <<named("d"), named("e")>>,
     <<named("a"), named("a"), named("a")>>}

(* Overlapping events of both calendars, one with no label. *)
MCEvent(home, lane, start, end) == [home |-> home, lane |-> lane, start |-> start, end |-> end, gone |-> FALSE]
MCEvents ==
    { << MCEvent("mora", "personal", 1, 4), MCEvent("mora", "personal", 2, 3), MCEvent("google", "personal", s, 3),
         MCEvent("google", "none", 1, 4) >> : s \in {0, 2} }
      \union {<< MCEvent("mora", "professional", 5, 6), MCEvent("google", "professional", 6, 7) >>}
MCWindows == {<<0, 6>>, <<1, 7>>, <<2, 4>>}

Init ==
    /\ surface \in {"router", "retrieval", "tools", "calendar", "vision", "delivery"}
    /\ surface # "router" => text = CHOOSE t \in Texts : TRUE
    /\ surface # "retrieval" => memories = (CHOOSE m \in MCMemories : TRUE) /\ chunks = (CHOOSE k \in InitialChunks : TRUE)
                               /\ docs = (CHOOSE d \in InitialDocs : TRUE)
    /\ surface # "calendar" => events = CHOOSE e \in MCEvents : TRUE
    /\ RouterInit /\ RetrievalInit /\ ToolsInit /\ CalendarInit /\ VisionInit /\ DeliveryInit

Next ==
    /\ \/ surface = "router" /\ RouterNext /\ UNCHANGED <<retrievalVars, toolVars, calendarVars, visionVars, deliveryVars>>
       \/ surface = "retrieval" /\ RetrievalNext /\ UNCHANGED <<routerVars, toolVars, calendarVars, visionVars, deliveryVars>>
       \/ surface = "tools" /\ ToolsNext /\ UNCHANGED <<routerVars, retrievalVars, calendarVars, visionVars, deliveryVars>>
       \/ surface = "calendar" /\ CalendarNext /\ UNCHANGED <<routerVars, retrievalVars, toolVars, visionVars, deliveryVars>>
       \/ surface = "vision" /\ VisionNext /\ UNCHANGED <<routerVars, retrievalVars, toolVars, calendarVars, deliveryVars>>
       \/ surface = "delivery" /\ DeliveryNext /\ UNCHANGED <<routerVars, retrievalVars, toolVars, calendarVars, visionVars>>
    /\ UNCHANGED surface

Spec == Init /\ [][Next]_surfaceVars
===============================================================================
