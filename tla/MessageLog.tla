------------------------------ MODULE MessageLog ------------------------------
(***************************************************************************)
(* What the server of the A2 tester keeps of a test run: Server.addInfo()  *)
(* of tester.py.  It numbers the messages it accepts and remembers, for    *)
(* each pair (process, thread), the numbers of its BEGIN and of its END.   *)
(* One call of addInfo() is one action.  Other modules take the actions    *)
(* from here: what their programs say is recorded by this code.            *)
(***************************************************************************)
EXTENDS Naturals, FiniteSets

CONSTANTS
  Keys,        \* the pairs (process, thread) that can be named in a message
  MaxErrors    \* bound: messages refused in a run

ASSUME MessageLogAssumption == MaxErrors \in Nat

VARIABLES
  time,       \* Server.time: the number of the last message accepted
  infos,      \* the keys of Server.infos
  timeStart,  \* Info.timeStart, 0 without an Info
  timeEnd,    \* Info.timeEnd, 0 until END
  errors      \* len(Server.errors)

logVars == <<time, infos, timeStart, timeEnd, errors>>

\* Server.reset()
EmptyLog ==
  /\ time = 0
  /\ infos = {}
  /\ timeStart = [k \in Keys |-> 0]
  /\ timeEnd = [k \in Keys |-> 0]
  /\ errors = 0

AcceptsBegin(k) == k \notin infos
AcceptsEnd(k) == k \in infos /\ timeEnd[k] = 0

\* A slip: the number is taken before it is raised.
ThisTime == time
NextTime == time + 1

\* BEGIN of a thread that has not been heard of.
RecordBegin(k) ==
  /\ AcceptsBegin(k)
  /\ time' = time + 1
  /\ infos' = infos \cup {k}
  /\ timeStart' = [timeStart EXCEPT ![k] = NextTime]
  /\ timeEnd' = [timeEnd EXCEPT ![k] = 0]
  /\ UNCHANGED errors

\* END of a thread that has begun and not ended.
RecordEnd(k) ==
  /\ AcceptsEnd(k)
  /\ time' = time + 1
  /\ timeEnd' = [timeEnd EXCEPT ![k] = NextTime]
  /\ UNCHANGED <<infos, timeStart, errors>>

\* "more than one BEGIN", "more than one END", "END before BEGIN".
Refuse ==
  /\ errors < MaxErrors
  /\ errors' = errors + 1
  /\ UNCHANGED <<time, infos, timeStart, timeEnd>>

AddBegin(k) == RecordBegin(k) \/ (~ AcceptsBegin(k) /\ Refuse)
AddEnd(k) == RecordEnd(k) \/ (~ AcceptsEnd(k) /\ Refuse)

LogInit == EmptyLog

LogNext == \E k \in Keys : AddBegin(k) \/ AddEnd(k)

LogSpec == LogInit /\ [][LogNext]_logVars
-----------------------------------------------------------------------------
LogTypeOK ==
  /\ time \in Nat
  /\ infos \subseteq Keys
  /\ timeStart \in [Keys -> Nat]
  /\ timeEnd \in [Keys -> Nat]
  /\ errors \in 0..MaxErrors

\* The numbers tell the order of arrival, whatever the clients send and repeat:
\* no number is given twice, all are between 1 and `time`, and the END of a
\* thread has a higher one than its BEGIN.  The checks of the tester compare
\* nothing but these numbers.
WellNumbered ==
  /\ \A k \in infos :
       /\ timeStart[k] \in 1..time
       /\ timeEnd[k] # 0 => timeEnd[k] \in timeStart[k]+1..time
  /\ \A k \in Keys \ infos : timeStart[k] = 0 /\ timeEnd[k] = 0
  /\ \A j, k \in infos :
       /\ j # k => timeStart[j] # timeStart[k]
       /\ timeStart[j] # timeEnd[k]
       /\ j # k /\ timeEnd[j] # 0 => timeEnd[j] # timeEnd[k]

\* A number, once given, is never changed: what was observed stays observed.
NumbersStay ==
  [][\A k \in Keys : /\ timeStart[k] # 0 => timeStart'[k] = timeStart[k]
                     /\ timeEnd[k] # 0 => timeEnd'[k] = timeEnd[k]]_logVars
=============================================================================
