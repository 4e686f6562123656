----------------------------- MODULE MCCheckedLog -----------------------------
(***************************************************************************)
(* CheckedLog for TLC, with two requirements.  In the first one process    *)
(* with three threads plays the parts of P4, P6 and P7, so that all orders *)
(* of its threads are seen by all checks; checkThreads1 requires two of    *)
(* the threads, so that it also sees one too many.  In the second, P1      *)
(* plays P7 and P2 the others.                                             *)
(***************************************************************************)
EXTENDS CheckedLog

OneProcess ==
  [clients |-> {<<1, 0>>, <<2, 0>>, <<2, 1>>, <<2, 2>>, <<2, 3>>},
   odd |-> {<<2, 0>>},
   data |-> [nrProcs |-> 2, procs |-> <<0, 1>>,
             threads1_proc |-> 2, threads1_count |-> 2,
             threads1_outer |-> 1, threads1_inner |-> 2, threads1_3 |-> 2,
             threads2_proc |-> 2, threads2_count |-> 3,
             threads2_waiter |-> 2, threads2_max |-> 2,
             threads3_proc |-> 2, threads3_count |-> 3,
             threads3_before |-> 1, threads3_after |-> 3]]

TwoProcesses ==
  [clients |-> {<<1, 1>>, <<2, 0>>, <<2, 1>>, <<2, 2>>},
   odd |-> {<<2, 1>>},
   data |-> [nrProcs |-> 2, procs |-> <<0, 1>>,
             threads1_proc |-> 1, threads1_count |-> 1,
             threads1_outer |-> 1, threads1_inner |-> 1, threads1_3 |-> 1,
             threads2_proc |-> 2, threads2_count |-> 2,
             threads2_waiter |-> 2, threads2_max |-> 1,
             threads3_proc |-> 2, threads3_count |-> 2,
             threads3_before |-> 1, threads3_after |-> 2]]

MCRequirements == {OneProcess, TwoProcesses}
MCKeys == UNION {r.clients : r \in MCRequirements}
=============================================================================
