---------------------------- MODULE MCInfoServer ----------------------------
(* P1 with one child, and a test that may be killed; with a child of that      *)
(* child; P1 with two children, the second forked while the first may speak.   *)
EXTENDS InfoServer

MCKeys == (1..3) \X {0}

\* The other fields of a2_data.json only say whose BEGIN is delayed.
Setup(parents, kills) ==
  [data |-> [nrProcs |-> Len(parents), procs |-> parents,
             threads1_proc |-> 2, threads1_inner |-> 1, threads1_3 |-> 2,
             threads2_proc |-> 2, threads2_count |-> 2, threads2_waiter |-> 2,
             threads3_proc |-> 1, threads3_before |-> 1],
   expired |-> kills]

MCSetups == {Setup(<<0, 1>>, 1), Setup(<<0, 1, 1>>, 0),
             Setup(<<0, 1, 2>>, 0)}
=============================================================================
