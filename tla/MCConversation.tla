----------------------------- MODULE MCConversation -----------------------------
(* A small instance of Conversation: two turns, two professional spaces, a     *)
(* summary after every exchange.                                              *)
EXTENDS Conversation, TLC

MCSymmetry == Permutations(Turns)
===============================================================================
