---------------------------- MODULE ThreadBarrier ----------------------------
(***************************************************************************)
(* What process P4 promises to whoever watches its info() messages: the    *)
(* abstract specification that Process4 implements.  A thread has been     *)
(* announced (BEGIN), has finished (END), or neither.                      *)
(*                                                                         *)
(*  - No more than Capacity threads are between BEGIN and END.             *)
(*  - The waiter ends only while exactly Capacity threads, itself          *)
(*    included, are between BEGIN and END.                                 *)
(*  - Before the waiter has ended, the others keep enough threads back for *)
(*    it to be able to end.                                                *)
(***************************************************************************)
EXTENDS Integers, FiniteSets

CONSTANTS
  Workers,    \* all the threads, the waiter included
  TheWaiter,  \* the thread that may end only in a full house (T4.11)
  Capacity    \* how many threads may be between BEGIN and END at a time

VARIABLE status

Between == {t \in Workers : status[t] = "running"}

\* Threads other than the waiter that have still to say END.
Unfinished == {t \in Workers \ {TheWaiter} : status[t] # "ended"}

Init == status = [t \in Workers |-> "idle"]

Begin(t) ==
  /\ status[t] = "idle"
  /\ Cardinality(Between) < Capacity
  /\ status' = [status EXCEPT ![t] = "running"]

End(t) ==
  /\ t # TheWaiter
  /\ status[t] = "running"
  /\ status[TheWaiter] = "ended" \/ Cardinality(Unfinished) >= Capacity
  /\ status' = [status EXCEPT ![t] = "ended"]

EndWaiter ==
  /\ status[TheWaiter] = "running"
  /\ Cardinality(Between) = Capacity
  /\ status' = [status EXCEPT ![TheWaiter] = "ended"]

\* Not a step of the code: everybody has ended.
Terminated == (\A t \in Workers : status[t] = "ended") /\ UNCHANGED status

Next == (\E t \in Workers : Begin(t) \/ End(t)) \/ EndWaiter \/ Terminated

Spec == Init /\ [][Next]_status
-----------------------------------------------------------------------------
TypeOK == status \in [Workers -> {"idle", "running", "ended"}]

\* Until the waiter has ended, enough of the others are left to fill the house
\* with it.
HouseCanFill ==
  status[TheWaiter] # "ended" => Cardinality(Unfinished) >= Capacity - 1
=============================================================================
