----------------------------- MODULE MCConnection -----------------------------
(* A small instance of VoiceConnection. Sockets, handlers and users differ  *)
(* in nothing but their names.                                              *)
EXTENDS VoiceConnection, TLC

MCSymmetry == Permutations(Sockets) \union Permutations(Calls) \union Permutations(Users)
===============================================================================
