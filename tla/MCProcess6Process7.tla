-------------------------- MODULE MCProcess6Process7 --------------------------
(* Process6Process7 for TLC: the constants are in the .cfg files. *)
EXTENDS Process6Process7
=============================================================================
