------------------------------ MODULE MCProcess4 ------------------------------
(* Process4 for TLC: the values of its constants are in the .cfg files. *)
EXTENDS Process4
=============================================================================
