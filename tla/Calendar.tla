------------------------------- MODULE Calendar -------------------------------
(***************************************************************************)
(* The agenda: Mora's own rows or Google's events, chosen by a setting that*)
(* every call reads anew.                                                  *)
(*   src/calendar/calendar-provider.router.ts                              *)
(*   src/calendar/mora-calendar.provider.ts                                *)
(*   src/google/google-calendar.provider.ts                                *)
(*   src/tools/impl/calendar-*.tool.ts: get, compare the lane, change      *)
(* Time is counted in hours. A lane stands for a scope and a space.        *)
(***************************************************************************)
EXTENDS Integers, Sequences, FiniteSets

CONSTANTS Agents,                    \* tool calls and requests under way
          InitialEvents, Windows,    \* what is in the calendars, the times asked for
          DayHours, WorkdayStart, WorkdayEnd,
          MaxEvents, MaxDisturbances

Homes == {"mora", "google"}
AgendaLanes == {"personal", "professional"}
NoLane == "none"        \* an event made in Google itself carries no label

(* An event; Mora's own are always of a lane. *)
Event == {e \in [home : Homes, lane : AgendaLanes \union {NoLane}, start : Int, end : Int, gone : BOOLEAN] :
            e.home = "mora" => e.lane \in AgendaLanes}

ASSUME CalendarConstants ==
    /\ MaxEvents \in Nat /\ MaxDisturbances \in Nat /\ Windows \subseteq Int \X Int
    /\ \A es \in InitialEvents : es \in Seq(Event) /\ Len(es) <= MaxEvents

VARIABLES backend,    \* the `calendar` skill's provider
          events,     \* [home, lane, start, end, gone]
          agenda,     \* a call under way
          disturbances

calendarVars == <<backend, events, agenda, disturbances>>

NoCall == [pc |-> "idle", op |-> "none", lane |-> "personal", target |-> "mora", event |-> 0,
           span |-> <<0, 1>>, result |-> {}, slots |-> {}, seen |-> {}]

Steps == {"idle", "call", "compare", "again", "change", "done", "refused"}
Ops == {"none", "create", "list", "slots", "update", "cancel"}
Entry(n) == [pc : Steps, op : Ops, lane : AgendaLanes, target : Homes, event : 0..n, span : Int \X Int,
             result : SUBSET (1..n), slots : SUBSET (Int \X Int), seen : SUBSET (Int \X Int)]

CalendarTypeOK ==
    /\ backend \in Homes /\ events \in Seq(Event) /\ Len(events) <= MaxEvents
    /\ agenda \in [Agents -> Entry(Len(events))] /\ disturbances \in 0..MaxDisturbances

CalendarInit ==
    /\ backend = "mora" /\ events \in InitialEvents /\ agenda = [a \in Agents |-> NoCall] /\ disturbances = 0

-------------------------------------------------------------------------------

Live(home) == {i \in DOMAIN events : events[i].home = home /\ ~events[i].gone}

(* A Google event without a label matches every lane. *)
MatchesScope(i, lane) == events[i].lane \in {lane, NoLane}

(* The events of a window; Mora's rows are of one lane. *)
ListEvents(home, lane, from, to) ==
    {i \in Live(home) : events[i].start <= to /\ events[i].end >= from /\ MatchesScope(i, lane)}

(* Google's free/busy answer knows no lane. *)
Busy(home, lane, from, to) ==
    IF home = "mora" THEN ListEvents(home, lane, from, to)
    ELSE {i \in Live(home) : events[i].start < to /\ events[i].end > from}

WithinWorkday(t) == t % DayHours >= WorkdayStart /\ t % DayHours < WorkdayEnd

(* Where the scan stands before a block: after every block that starts       *)
(* earlier, in the order of their starts.                                    *)
LastEnd(blocks, from) ==
    LET ends == {from} \union {events[i].end : i \in blocks} IN CHOOSE t \in ends : \A u \in ends : t >= u

(* Mutant: the cursor jumps to the end of the last block read. *)
FindFreeSlotsJump(home, lane, from, to, duration) ==
    LET busy == Busy(home, lane, from, to)
        CursorAt(i) == LET before == {j \in busy \ {i} : events[j].start <= events[i].start}
                       IN IF before = {} THEN from
                          ELSE events[CHOOSE j \in before : \A k \in before : events[j].start >= events[k].start].end
        gaps == {<<CursorAt(i), events[i].start>> : i \in busy}
                  \union {<<IF busy = {} THEN from ELSE events[CHOOSE j \in busy : \A k \in busy : events[j].start >= events[k].start].end, to>>}
    IN {<<g[1], g[1] + duration>> : g \in {h \in gaps : h[2] - h[1] >= duration /\ WithinWorkday(h[1])}}

(* The gaps before every block and after the last one: Mora offers their     *)
(* beginning, Google the whole gap. Among blocks that start together the     *)
(* first in the order sees the gap.                                          *)
FindFreeSlots(home, lane, from, to, duration) ==
    LET busy == Busy(home, lane, from, to)
        Earlier(i) == {j \in busy : events[j].start < events[i].start}
        gaps == {<<LastEnd(Earlier(i), from), events[i].start>> : i \in busy}
                  \union {<<LastEnd(busy, from), to>>}
        free == {g \in gaps : g[2] - g[1] >= duration /\ WithinWorkday(g[1])}
    IN IF home = "mora" THEN {<<g[1], g[1] + duration>> : g \in free} ELSE free

-------------------------------------------------------------------------------
(* The router reads the setting, then calls the provider it names.           *)
Target(a, op, lane, i, span) ==
    /\ agenda[a].pc = "idle"
    /\ agenda' = [agenda EXCEPT ![a] = [NoCall EXCEPT !.pc = "call", !.op = op, !.lane = lane,
                                                      !.target = backend, !.event = i, !.span = span]]
    /\ UNCHANGED <<backend, events, disturbances>>

Asked(a, op, home) == agenda[a].pc = "call" /\ agenda[a].op = op /\ agenda[a].target = home
Finish(a, result) == agenda' = [agenda EXCEPT ![a].pc = "done", ![a].result = result]
Decline(a) == agenda' = [agenda EXCEPT ![a].pc = "refused"]

AddEvent(home, lane, span) ==
    /\ Len(events) < MaxEvents
    /\ events' = Append(events, [home |-> home, lane |-> lane, start |-> span[1], end |-> span[2], gone |-> FALSE])

CreateMoraEvent(a) ==
    /\ Asked(a, "create", "mora")
    /\ AddEvent("mora", agenda[a].lane, agenda[a].span) /\ Finish(a, {})
    /\ UNCHANGED <<backend, disturbances>>

(* The lane is written into the event's private properties. Google may refuse. *)
CreateGoogleEvent(a) ==
    /\ Asked(a, "create", "google")
    /\ \/ AddEvent("google", agenda[a].lane, agenda[a].span) /\ Finish(a, {})
       \/ Decline(a) /\ UNCHANGED events
    /\ UNCHANGED <<backend, disturbances>>

ListMoraEvents(a) ==
    /\ Asked(a, "list", "mora")
    /\ Finish(a, ListEvents("mora", agenda[a].lane, agenda[a].span[1], agenda[a].span[2]))
    /\ UNCHANGED <<backend, events, disturbances>>

ListGoogleEvents(a) ==
    /\ Asked(a, "list", "google")
    /\ \/ Finish(a, ListEvents("google", agenda[a].lane, agenda[a].span[1], agenda[a].span[2]))
       \/ Decline(a)
    /\ UNCHANGED <<backend, events, disturbances>>

FindSlots(a) ==
    /\ Asked(a, "slots", agenda[a].target)
    /\ LET from == agenda[a].span[1] to == agenda[a].span[2] IN
       \E duration \in 1..2 :
         agenda' = [agenda EXCEPT ![a].pc = "done",
            ![a].slots = FindFreeSlots(agenda[a].target, agenda[a].lane, from, to, duration),
            ![a].seen = {<<events[i].start, events[i].end>> : i \in Busy(agenda[a].target, agenda[a].lane, from, to)}]
    /\ UNCHANGED <<backend, events, disturbances>>

(* calendar_update_event and calendar_cancel_event: the event must exist. *)
GetMoraEvent(a) ==
    /\ agenda[a].pc = "call" /\ agenda[a].op \in {"update", "cancel"} /\ agenda[a].target = "mora"
    /\ IF events[agenda[a].event].home # "mora" THEN Decline(a)
       ELSE agenda' = [agenda EXCEPT ![a].pc = "compare"]
    /\ UNCHANGED <<backend, events, disturbances>>

(* An event without a label is shown as one of personal/general. *)
GetGoogleEvent(a) ==
    /\ agenda[a].pc = "call" /\ agenda[a].op \in {"update", "cancel"} /\ agenda[a].target = "google"
    /\ IF agenda[a].event \notin Live("google") THEN Decline(a)
       ELSE agenda' = [agenda EXCEPT ![a].pc = "compare"]
    /\ UNCHANGED <<backend, events, disturbances>>

(* personal/general is no lane of an agent, so an unlabelled event is refused. *)
CompareLane(a) ==
    /\ agenda[a].pc = "compare"
    /\ IF events[agenda[a].event].lane # agenda[a].lane THEN Decline(a)
       ELSE agenda' = [agenda EXCEPT ![a].pc = "again"]
    /\ UNCHANGED <<backend, events, disturbances>>

(* The change asks the router once more. *)
TargetAgain(a) ==
    /\ agenda[a].pc = "again"
    /\ agenda' = [agenda EXCEPT ![a].pc = "change", ![a].target = backend]
    /\ UNCHANGED <<backend, events, disturbances>>

Changed(i, op, span) ==
    events' = IF op = "cancel" THEN [events EXCEPT ![i].gone = TRUE]
              ELSE [events EXCEPT ![i].start = span[1], ![i].end = span[2]]

(* A cancelled row is still a row: it is changed like any other. *)
ChangeMoraEvent(a) ==
    /\ agenda[a].pc = "change" /\ agenda[a].target = "mora"
    /\ IF events[agenda[a].event].home # "mora" THEN Decline(a) /\ UNCHANGED events
       ELSE Changed(agenda[a].event, agenda[a].op, agenda[a].span) /\ Finish(a, {agenda[a].event})
    /\ UNCHANGED <<backend, disturbances>>

ChangeGoogleEvent(a) ==
    /\ agenda[a].pc = "change" /\ agenda[a].target = "google"
    /\ \/ Decline(a) /\ UNCHANGED events
       \/ /\ agenda[a].event \in Live("google")
          /\ Changed(agenda[a].event, agenda[a].op, agenda[a].span) /\ Finish(a, {agenda[a].event})
    /\ UNCHANGED <<backend, disturbances>>

-------------------------------------------------------------------------------
(* The user's setting, the user's own requests, which know no lane, and the  *)
(* user in Google's own calendar (external).                                 *)
Disturb == disturbances < MaxDisturbances /\ disturbances' = disturbances + 1 /\ UNCHANGED agenda

SwitchBackend ==
    /\ Disturb
    /\ backend' = IF backend = "mora" THEN "google" ELSE "mora"
    /\ UNCHANGED events

ChangeByRequest(i, op, span) ==
    /\ Disturb
    /\ events[i].home = backend /\ (backend = "google" => ~events[i].gone) /\ Changed(i, op, span)
    /\ UNCHANGED backend

GoogleOwnEvent(span) ==
    /\ Disturb
    /\ AddEvent("google", NoLane, span)
    /\ UNCHANGED backend

CalendarNext ==
    \/ \E a \in Agents, lane \in AgendaLanes, span \in Windows :
         \/ \E op \in {"create", "list", "slots"} : Target(a, op, lane, 0, span)
         \/ \E op \in {"update", "cancel"}, i \in DOMAIN events : Target(a, op, lane, i, span)
    \/ \E a \in Agents :
         \/ CreateMoraEvent(a) \/ CreateGoogleEvent(a) \/ ListMoraEvents(a) \/ ListGoogleEvents(a)
         \/ FindSlots(a) \/ GetMoraEvent(a) \/ GetGoogleEvent(a) \/ CompareLane(a) \/ TargetAgain(a)
         \/ ChangeMoraEvent(a) \/ ChangeGoogleEvent(a)
    \/ SwitchBackend
    \/ \E span \in Windows : GoogleOwnEvent(span) \/ \E i \in DOMAIN events, op \in {"update", "cancel"} : ChangeByRequest(i, op, span)

CalendarSpec == CalendarInit /\ [][CalendarNext]_calendarVars

-------------------------------------------------------------------------------
(* A slot is free: it lies in the window, starts in working hours and meets  *)
(* none of the blocks, nested and overlapping ones included.                 *)
SlotsAreFree ==
    \A a \in Agents :
        \A s \in agenda[a].slots :
            /\ s[1] >= agenda[a].span[1] /\ s[2] <= agenda[a].span[2] /\ s[1] < s[2] /\ WithinWorkday(s[1])
            /\ \A b \in agenda[a].seen : s[2] <= b[1] \/ b[2] <= s[1]

(* A change made by an agent is of its own lane and in the calendar the      *)
(* event belongs to, though the setting is read twice on the way.            *)
ChangesInLane ==
    \A a \in Agents :
        agenda[a].pc = "done" /\ agenda[a].op \in {"update", "cancel"} =>
            /\ events[agenda[a].event].lane = agenda[a].lane
            /\ events[agenda[a].event].home = agenda[a].target

(* A listing shows the lane's events, and what has no lane. *)
ListingInLane ==
    \A a \in Agents : agenda[a].op = "list" => \A i \in agenda[a].result : events[i].lane \in {agenda[a].lane, NoLane}

(* What holds of the agenda under concurrent calls and a changing setting. *)
CalendarSafe == CalendarTypeOK /\ SlotsAreFree /\ ChangesInLane /\ ListingInLane

(* Why it holds: past the comparison the event is of the lane of the call,   *)
(* and no event ever changes its lane or its home.                           *)
LaneInv ==
    \A a \in Agents :
        /\ agenda[a].op \in {"update", "cancel"} => agenda[a].event \in DOMAIN events
        /\ agenda[a].pc \in {"compare", "again", "change"} => agenda[a].op \in {"update", "cancel"}
        /\ agenda[a].pc \in {"again", "change"} => events[agenda[a].event].lane = agenda[a].lane
        /\ agenda[a].pc # "done" => agenda[a].result = {}
CalendarInv == LaneInv /\ SlotsAreFree /\ ChangesInLane /\ ListingInLane

-------------------------------------------------------------------------------
(* What the code does not keep. An event a listing shows can be changed: not *)
(* one made in Google itself.                                                *)
ListedCanBeChanged ==
    \A a, b \in Agents :
        agenda[a].op = "list" /\ agenda[b].op = "update" /\ agenda[b].pc = "refused" /\ disturbances = 0
            => agenda[b].event \notin agenda[a].result

(* A slot ends within the working day: only its start is compared.           *)
SlotsEndInWorkday ==
    \A a \in Agents : \A s \in agenda[a].slots : (s[2] - 1) % DayHours < WorkdayEnd
===============================================================================
