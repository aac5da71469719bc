----------------------------- MODULE MCReminders -----------------------------
(* A small instance of Reminders. *)
EXTENDS Reminders

Delivery == {"load", "claim", "notify"}
===============================================================================
