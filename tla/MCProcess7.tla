------------------------------ MODULE MCProcess7 ------------------------------
(* Process7 for TLC: four threads, the inner one created before the outer. *)
EXTENDS Process7

MCKeys == {<<7, t>> : t \in 0..4}
MCOthers == {1, 3}
MCData ==
  [threads1_proc |-> 7, threads1_count |-> 4, threads1_outer |-> 4, threads1_inner |-> 2]
=============================================================================
