-------------------------- MODULE MCWhatsAppMission --------------------------
(* A small instance of WhatsAppMission. *)
EXTENDS WhatsAppMission

Everything == Steps
===============================================================================
