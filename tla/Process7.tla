-------------------------------- MODULE Process7 --------------------------------
(***************************************************************************)
(* process_7() of a2.c: the messages of T7.2 lie within those of T7.5.     *)
(* The two share a mutex and two condition variables on the stack of the   *)
(* main thread.  T7.3 and T7.4 only send their messages; so does T7.1,     *)
(* whose wait for T6.5 is the subject of Process6Process7.                 *)
(***************************************************************************)
EXTENDS MessageLog, Checks

CONSTANTS
  Inner, Outer,  \* T7.2 and T7.5
  Others,        \* the other threads
  ThreadCount    \* how many there are: they are numbered from 1

P == 7
T(t) == <<P, t>>
Threads == 1..ThreadCount

ASSUME Process7Assumption ==
  /\ ThreadCount \in Nat
  /\ Inner # Outer
  /\ Inner \notin Others /\ Outer \notin Others
  /\ Threads = {Inner, Outer} \cup Others
  /\ Keys = {T(t) : t \in 0..ThreadCount}
  /\ data.threads1_proc = P /\ data.threads1_count = ThreadCount
  /\ data.threads1_outer = Outer /\ data.threads1_inner = Inner

Nobody == 0     \* no thread has this number but the main one, which locks nothing

VARIABLES
  main,              \* where the main thread is
  created,           \* how many threads it has created
  joined,            \* how many threads it has joined
  pc,                \* where a thread is
  guard,             \* who holds process_7_synchronization.guard
  flags              \* those of its flags that are true

syncVars == <<guard, flags>>
mainVars == <<main, created, joined>>
vars == <<logVars, mainVars, syncVars, pc>>

Places == {"absent", "lock", "test", "wait", "asleep", "unlock", "begin", "end",
           "lockNotify", "notify", "done"}

Init ==
  /\ EmptyLog
  /\ main = "begin" /\ created = 0 /\ joined = 0
  /\ pc = [t \in Threads |-> "absent"]
  /\ guard = Nobody
  /\ flags = {}

\* info(BEGIN, 7, 0), initialize_process_7_sync()
MainBegin ==
  /\ main = "begin"
  /\ AddBegin(T(0))
  /\ main' = "create"
  /\ UNCHANGED <<created, joined, syncVars, pc>>

CreateThread ==
  /\ main = "create" /\ created < ThreadCount
  /\ created' = created + 1
  /\ pc' = [pc EXCEPT ![created + 1] = IF created + 1 = Inner THEN "lock" ELSE "begin"]
  /\ main' = IF created + 1 = ThreadCount THEN "join" ELSE "create"
  /\ UNCHANGED <<logVars, joined, syncVars>>


HasEnded(t) == pc[t] = "done"

JoinThread ==
  /\ main = "join" /\ joined < ThreadCount
  /\ HasEnded(joined + 1)
  /\ joined' = joined + 1
  /\ main' = IF joined + 1 = ThreadCount THEN "end" ELSE "join"
  /\ UNCHANGED <<logVars, created, syncVars, pc>>

\* info(END, 7, 0), and the structure goes out of scope.
MainEnd ==
  /\ main = "end"
  /\ AddEnd(T(0))
  /\ main' = "returned"
  /\ UNCHANGED <<created, joined, syncVars, pc>>

Move(t, from, to) == pc[t] = from /\ pc' = [pc EXCEPT ![t] = to]

\* A slip: the guard is not taken before the flag is set.
LockForWaitOnly(t) ==
  /\ guard = Nobody \/ pc[t] = "lockNotify"
  /\ guard' = IF pc[t] = "lock" THEN t ELSE guard
  /\ Move(t, "lock", "test") \/ Move(t, "lockNotify", "notify")
  /\ UNCHANGED <<logVars, mainVars, flags>>

\* pthread_mutex_lock(), also at the end of pthread_cond_wait().
Lock(t) ==
  /\ guard = Nobody
  /\ guard' = t
  /\ Move(t, "lock", "test") \/ Move(t, "lockNotify", "notify")
  /\ UNCHANGED <<logVars, mainVars, flags>>

\* A slip: the thread waits for no news.
NoNews(t) == TRUE

\* The condition of the loop of T7.2, of T7.5.
Awaited(t) == (IF t = Inner THEN "thread_5_started" ELSE "thread_2_exited") \in flags

Test(t) ==
  /\ Move(t, "test", IF Awaited(t) THEN "unlock" ELSE "wait")
  /\ UNCHANGED <<logVars, mainVars, syncVars>>

\* pthread_cond_wait(): unlock and go to sleep in one.
Wait(t) ==
  /\ Move(t, "wait", "asleep")
  /\ guard' = Nobody
  /\ UNCHANGED <<logVars, mainVars, flags>>

SpuriousWake(t) ==
  /\ Move(t, "asleep", "lock")
  /\ UNCHANGED <<logVars, mainVars, syncVars>>

Unlock(t) ==
  /\ Move(t, "unlock", IF t = Inner THEN "begin" ELSE "end")
  /\ guard' = Nobody
  /\ UNCHANGED <<logVars, mainVars, flags>>

InfoBegin(t) ==
  /\ AddBegin(T(t))
  /\ Move(t, "begin", IF t = Outer THEN "lockNotify" ELSE "end")
  /\ UNCHANGED <<mainVars, syncVars>>

InfoEnd(t) ==
  /\ AddEnd(T(t))
  /\ Move(t, "end", IF t = Inner THEN "lockNotify" ELSE "done")
  /\ UNCHANGED <<mainVars, syncVars>>

Announces(t) == IF t = Inner THEN "thread_2_exited" ELSE "thread_5_started"

\* A slip: the other thread is not signalled.
NotifySilently(t) ==
  /\ Move(t, "notify", IF t = Inner THEN "done" ELSE "lock")
  /\ guard' = Nobody
  /\ flags' = flags \cup {Announces(t)}
  /\ UNCHANGED <<logVars, mainVars>>

\* Set the flag, signal the other thread, unlock.
Notify(t) ==
  LET other == IF t = Inner THEN Outer ELSE Inner
      next == IF t = Inner THEN "done" ELSE "lock"
  IN  /\ pc[t] = "notify"
      /\ pc' = [pc EXCEPT ![t] = next,
                          ![other] = IF @ = "asleep" THEN "lock" ELSE @]
      /\ guard' = Nobody
      /\ flags' = flags \cup {Announces(t)}
      /\ UNCHANGED <<logVars, mainVars>>

\* Not a step of the code: process_7() has returned.
Returned == main = "returned" /\ UNCHANGED vars

MainStep == MainBegin \/ CreateThread \/ JoinThread \/ MainEnd

ThreadStep(t) ==
  Lock(t) \/ Test(t) \/ Wait(t) \/ Unlock(t) \/ InfoBegin(t) \/ InfoEnd(t) \/ Notify(t)

Next ==
  \/ MainStep
  \/ \E t \in Threads : ThreadStep(t) \/ SpuriousWake(t)
  \/ Returned

Spec == Init /\ [][Next]_vars

\* Every thread runs on; a mutex that is free again and again is got at last,
\* whatever spurious wake-ups there are.
FairSpec ==
  /\ Spec
  /\ WF_vars(MainStep)
  /\ \A t \in Threads : WF_vars(ThreadStep(t)) /\ SF_vars(Lock(t))
-----------------------------------------------------------------------------
TypeOK ==
  /\ LogTypeOK
  /\ main \in {"begin", "create", "join", "end", "returned"}
  /\ created \in 0..ThreadCount /\ joined \in 0..ThreadCount
  /\ pc \in [Threads -> Places]
  /\ guard \in Threads \cup {Nobody}
  /\ flags \subseteq {"thread_5_started", "thread_2_exited"}

\* The messages of T7.2 lie within those of T7.5, at every moment: T7.2 is not
\* heard of before T7.5 has begun, and T7.5 does not end before T7.2 has.
Nested ==
  /\ T(Inner) \in infos => /\ T(Outer) \in infos
                           /\ timeStart[T(Outer)] < timeStart[T(Inner)]
  /\ T(Outer) \in infos /\ timeEnd[T(Outer)] # 0
       => /\ timeEnd[T(Inner)] # 0
          /\ timeEnd[T(Inner)] < timeEnd[T(Outer)]

\* Who sleeps has something to wait for: no signal comes between the look at the
\* flag and the sleep.
NoLostWakeup == \A t \in {Inner, Outer} : pc[t] \in {"wait", "asleep"} => ~ Awaited(t)

\* The mutex, the condition variables and the flags are on the stack of
\* process_7(): nobody touches them when it returns.
StackOutlivesThreads == main \in {"end", "returned"} => \A t \in Threads : pc[t] = "done"

\* What the server has recorded of P7.
Infos ==
  [k \in infos |-> [pid |-> P, ppid |-> P, tid |-> k[2],
                    timeStart |-> timeStart[k], timeEnd |-> timeEnd[k]]]

\* When process_7() returns, checkThreads1() gives it the full points.
FullThreads1Score == main = "returned" => errors = 0 /\ Threads1Score(Infos) = Full

\* process_7() returns: neither thread waits for ever for the other.
Termination == <>(main = "returned")
=============================================================================
