------------------------------ MODULE MCOutreach ------------------------------
(* What goes on without the user: small instances of the reminders and of    *)
(* the WhatsApp missions, one at a time. Each has its own workers, and of    *)
(* the reminders a mission books only the number matters to it.              *)
EXTENDS Reminders, WhatsAppMission

VARIABLE outreach

outreachVars == <<reminderVars, vars, outreach>>

(* Every failure but those between a send and the update that counts it, and *)
(* between the update that ends a mission and its report.                    *)
SafeSteps == Steps \ {"persist", "count", "finish", "close", "report"}

OutreachInit == ReminderInit /\ Init /\ outreach \in {"reminders", "missions"}

OutreachNext ==
    /\ \/ outreach = "reminders" /\ ReminderNext /\ UNCHANGED vars
       \/ outreach = "missions" /\ Next /\ UNCHANGED reminderVars
    /\ UNCHANGED outreach

OutreachSpec ==
    /\ OutreachInit /\ [][OutreachNext]_outreachVars
    /\ outreach = "reminders" => ReminderFairness
    /\ outreach = "missions" => Fairness
===============================================================================
