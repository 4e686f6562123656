----------------------- MODULE Process6Process7Proofs -----------------------
(***************************************************************************)
(* Proofs about Process6Process7.  For any number of runs: its types, and  *)
(* if nobody opens the object while it is set up, the exclusion of the     *)
(* critical sections.  For a run that starts from an empty system: the     *)
(* order of the threads, that there is one object, and that it is gone in  *)
(* the end.                                                                *)
(***************************************************************************)
EXTENDS Process6Process7, TLAPS

\* Objects are created at most once by each process of each run.
Opened(p) == IF main_pc[p] = "open" THEN 0 ELSE 1
ObjectsInv == used <= 2 * (run - 1) + Opened("P6") + Opened("P7")

\* A thread is at its END message only after BEGIN, and signals only if there
\* is a flag for it.
ThreadsInv ==
  \A t \in Threads :
    /\ pc[t] = "end" => t \in began
    /\ pc[t] \in {"notify_lock", "notify"} => t \in Announced
    /\ pc[t] \in {"wait_lock", "wait", "check", "stranded"} => t \in Waiting

\* Who sets up an object, or is in its critical section, has it mapped; there
\* are no threads before.
MappedInv ==
  /\ \A p \in Processes :
       main_pc[p] \in {"size", "init", "reset"} => mapped[p] # None
  /\ \A t \in Threads : pc[t] \in {"check", "notify"} => Sync(t) # None
  /\ \A t \in Threads :
       \/ main_pc[OwnerOf[t]] \in {"join", "done", "dead"}
       \/ pc[t] = "absent"

TypeInv == TypeOK /\ ObjectsInv /\ ThreadsInv /\ MappedInv

\* What has been announced has happened: a flag is set, or about to be, only
\* after the END message of its thread, and a thread is past its loop only
\* after the END message of its predecessor.
OrderInv ==
  /\ \A o \in Objects : exited[o] \subseteq ended
  /\ \A t \in Threads :
       pc[t] \in {"notify_lock", "notify", "done"} => t \in ended
  /\ \A t \in Waiting :
       \/ pc[t] \in {"begin", "end", "notify_lock", "notify", "done"}
       \/ t \in began
       => WaitsFor[t] \in ended

\* Who is in a critical section holds the mutex of its object.
GuardInv ==
  \A t \in Threads : pc[t] \in {"check", "notify"} => guard[Sync(t)] = t

\* Unless setting up races with opening, the creator is alone with the object
\* it initialises: that is what keeps the mutex of a critical section from
\* being initialised under it.
SetUpInv ==
  /\ \A p \in Processes : mapped[p] <= used
  /\ name <= used
  /\ \A p, q \in Processes :
       main_pc[p] = "open" /\ main_pc[q] = "reopen" => name # None
  /\ \A p, q \in Processes :
       main_pc[p] \in {"size", "init", "reset"} /\ p # q
         => mapped[q] # mapped[p] /\ main_pc[q] # "reopen"

LEMMA Cast ==
  /\ \A t \in Threads : OwnerOf[t] \in Processes
  /\ Waiting = {"T71", "T63"}
  /\ \A t \in Waiting : WaitsFor[t] \in Announced /\ t \in Threads
  /\ \A t \in Threads : t \notin Waiting => t \in Announced
BY DEF Threads, OwnerOf, Processes, Waiting, WaitsFor, Announced
-----------------------------------------------------------------------------
(* The types. *)

LEMMA TypeInvInit == Init => TypeInv
BY Process6Process7Assumption, SMT
   DEF Init, StartOfRun, TypeInv, TypeOK, ObjectsInv, ThreadsInv, MappedInv,
       Opened, Objects, None, Processes, Threads, Announced, Sync, shm_vars,
       message_vars

LEMMA TypeInvStep == TypeInv /\ [Next]_vars => TypeInv'
<1> SUFFICES ASSUME TypeInv, [Next]_vars PROVE TypeInv'
  OBVIOUS
<1> USE Process6Process7Assumption, Cast
    DEF TypeInv, TypeOK, ObjectsInv, ThreadsInv, MappedInv, Opened, Objects, None,
        Sync, shm_vars, message_vars
<1>1. ASSUME NEW p \in Processes, Open(p) PROVE TypeInv'
  BY <1>1, SMT DEF Open, Processes
<1>2. ASSUME NEW p \in Processes, Size(p) PROVE TypeInv'
  <2>1. TypeOK'
    <3>1. mapped[p] \in Objects
      BY <1>2, SMT DEF Size
    <3>2. sized' \subseteq Objects
      BY <1>2, <3>1 DEF Size
    <3> QED
      BY <1>2, <3>2, SMT DEF Size, Processes
  <2>2. ObjectsInv'
    BY <1>2, SMT DEF Size, Processes
  <2>3. ThreadsInv'
    BY <1>2, SMT DEF Size, Processes
  <2>4. MappedInv'
    BY <1>2, SMT DEF Size, Processes
  <2> QED
    BY <2>1, <2>2, <2>3, <2>4
<1>3. ASSUME NEW p \in Processes, Reopen(p) PROVE TypeInv'
  <2>1. TypeOK'
    BY <1>3, SMT DEF Reopen, Processes
  <2>2. ObjectsInv'
    BY <1>3, SMT DEF Reopen, Processes
  <2>3. ThreadsInv'
    BY <1>3, SMT DEF Reopen, Processes
  <2>4. MappedInv'
    <3>1. \A t \in Threads : OwnerOf[t] = p => pc'[t] = "absent"
      BY <1>3, SMT DEF Reopen
    <3>2. \A t \in Threads : OwnerOf[t] # p => Sync(t)' = Sync(t)
      BY <1>3, SMT DEF Reopen
    <3>3. \A q \in Processes : q # p => mapped'[q] = mapped[q]
      BY <1>3, SMT DEF Reopen
    <3>4. /\ main_pc' \in [Processes -> {"open", "size", "reopen", "init", "reset",
                                       "create", "join", "done", "dead"}]
          /\ main_pc'[p] = "create"
          /\ \A q \in Processes : q # p => main_pc'[q] = main_pc[q]
      BY <1>3, SMT DEF Reopen
    <3>5. \A q \in Processes :
            main_pc'[q] \in {"size", "init", "reset"} => mapped'[q] # None
      BY <3>3, <3>4, SMT
    <3>6. \A t \in Threads :
            pc'[t] \in {"check", "notify"} => mapped'[OwnerOf[t]] # None
      BY <1>3, <3>1, <3>2, SMT DEF Reopen
    <3>7. \A t \in Threads :
            \/ main_pc'[OwnerOf[t]] \in {"join", "done", "dead"}
            \/ pc'[t] = "absent"
      BY <1>3, <3>1, <3>4, SMT DEF Reopen
    <3> QED
      BY <3>5, <3>6, <3>7
  <2> QED
    BY <2>1, <2>2, <2>3, <2>4
<1>4. ASSUME NEW p \in Processes, InitialiseGuard(p) PROVE TypeInv'
  BY <1>4, SMT DEF InitialiseGuard, Processes
<1>5. ASSUME NEW p \in Processes, ResetFlags(p) PROVE TypeInv'
  BY <1>5, SMT DEF ResetFlags, Processes
<1>6. ASSUME NEW p \in Processes, CreateThreads(p) PROVE TypeInv'
  BY <1>6, SMT DEF CreateThreads, FirstStep, ThreadsOf, Processes
<1>7. ASSUME NEW p \in Processes, Cleanup(p) PROVE TypeInv'
  BY <1>7, SMT DEF Cleanup, AllJoined, Unlinked, ThreadsOf, Processes
<1>8. ASSUME NEW t \in Threads, Lock(t) PROVE TypeInv'
  BY <1>8, SMT DEF Lock, Accessible, GuardIsFree
<1>9. ASSUME NEW t \in Threads, Check(t) PROVE TypeInv'
  <2>1. TypeOK'
    BY <1>9, SMT DEF Check, MayBegin
  <2>2. ObjectsInv'
    BY <1>9, SMT DEF Check, MayBegin
  <2>3. ThreadsInv'
    BY <1>9, SMT DEF Check, MayBegin
  <2>4. MappedInv'
    BY <1>9, SMT DEF Check, MayBegin
  <2> QED
    BY <2>1, <2>2, <2>3, <2>4
<1>10. ASSUME NEW t \in Threads, InfoBegin(t) PROVE TypeInv'
  BY <1>10, SMT DEF InfoBegin
<1>11. ASSUME NEW t \in Threads, InfoEnd(t) PROVE TypeInv'
  BY <1>11, SMT DEF InfoEnd
<1>12. ASSUME NEW t \in Threads, Notify(t) PROVE TypeInv'
  BY <1>12, SMT DEF Notify, Sleepers
<1>13. ASSUME NEW t \in Threads, Crash(t) PROVE TypeInv'
  BY <1>13, SMT DEF Crash, Accessible
<1>14. ASSUME NEW t \in Threads, SpuriousWake(t) PROVE TypeInv'
  BY <1>14, SMT DEF SpuriousWake
<1>15. CASE NextTest
  BY <1>15, SMT DEF NextTest, Processes
<1>16. CASE UNCHANGED vars
  BY <1>16, SMT DEF vars
<1>17. QED
  BY <1>1, <1>2, <1>3, <1>4, <1>5, <1>6, <1>7, <1>8, <1>9, <1>10, <1>11, <1>12, <1>13, <1>14, <1>15, <1>16 DEF Next, Main, Proceed, Terminated

\* The types hold for any number of runs, set up with races or without: no
\* thread sends END without BEGIN, whatever it reads in the shared memory.
THEOREM TypeCorrect == Spec => []TypeOK
<1>1. TypeInv => TypeOK
  BY DEF TypeInv
<1> QED
  BY TypeInvInit, TypeInvStep, <1>1, PTL DEF Spec
-----------------------------------------------------------------------------
(* The order of the threads. *)

LEMMA OrderInvInit == Init => OrderInv
BY SMT DEF Init, StartOfRun, OrderInv, Threads, Waiting, WaitsFor

LEMMA OrderInvStep ==
  MaxRuns = 1 /\ TypeInv /\ OrderInv /\ [Next]_vars => OrderInv'
<1> SUFFICES ASSUME MaxRuns = 1, TypeInv, OrderInv, [Next]_vars PROVE OrderInv'
  OBVIOUS
<1> USE Cast
    DEF TypeInv, TypeOK, ThreadsInv, MappedInv, OrderInv, Sync, None, shm_vars,
        message_vars
<1>1. ASSUME NEW p \in Processes, Open(p) PROVE OrderInv'
  BY <1>1, SMT DEF Open, BeingSetUp
<1>2. ASSUME NEW p \in Processes, Size(p) PROVE OrderInv'
  BY <1>2, SMT DEF Size
<1>3. ASSUME NEW p \in Processes, Reopen(p) PROVE OrderInv'
  BY <1>3, SMT DEF Reopen
<1>4. ASSUME NEW p \in Processes, InitialiseGuard(p) PROVE OrderInv'
  BY <1>4, SMT DEF InitialiseGuard
<1>5. ASSUME NEW p \in Processes, ResetFlags(p) PROVE OrderInv'
  BY <1>5, SMT DEF ResetFlags
<1>6. ASSUME NEW p \in Processes, CreateThreads(p) PROVE OrderInv'
  BY <1>6, SMT DEF CreateThreads, FirstStep, ThreadsOf
<1>7. ASSUME NEW p \in Processes, Cleanup(p) PROVE OrderInv'
  BY <1>7, SMT DEF Cleanup, AllJoined, Unlinked, ThreadsOf
<1>8. ASSUME NEW t \in Threads, Lock(t) PROVE OrderInv'
  BY <1>8, SMT DEF Lock, Accessible, GuardIsFree
<1>9. ASSUME NEW t \in Threads, Check(t) PROVE OrderInv'
  BY <1>9, SMT DEF Check, MayBegin
<1>10. ASSUME NEW t \in Threads, InfoBegin(t) PROVE OrderInv'
  BY <1>10, SMT DEF InfoBegin
<1>11. ASSUME NEW t \in Threads, InfoEnd(t) PROVE OrderInv'
  BY <1>11, SMT DEF InfoEnd
<1>12. ASSUME NEW t \in Threads, Notify(t) PROVE OrderInv'
  BY <1>12, SMT DEF Notify, Sleepers
<1>13. ASSUME NEW t \in Threads, Crash(t) PROVE OrderInv'
  BY <1>13, SMT DEF Crash, Accessible
<1>14. ASSUME NEW t \in Threads, SpuriousWake(t) PROVE OrderInv'
  BY <1>14, SMT DEF SpuriousWake
<1>15. CASE NextTest
  BY <1>15, SMT DEF NextTest
<1>16. CASE UNCHANGED vars
  BY <1>16, SMT DEF vars
<1>17. QED
  BY <1>1, <1>2, <1>3, <1>4, <1>5, <1>6, <1>7, <1>8, <1>9, <1>10, <1>11, <1>12, <1>13, <1>14, <1>15, <1>16 DEF Next, Main, Proceed, Terminated

\* In the first run of a system without an object of that name, T7.1 begins
\* after T6.5 has ended and T6.3 after T7.1 has, whatever the interleaving:
\* even if the flags are looked at while the creator still initialises them,
\* and even if a process crashes.
THEOREM OrderHolds == ASSUME MaxRuns = 1 PROVE Spec => []InOrder
<1>1. OrderInv => InOrder
  BY DEF OrderInv, InOrder
<1>2. TypeInv /\ OrderInv /\ [Next]_vars => OrderInv'
  BY OrderInvStep
<1> QED
  BY TypeInvInit, TypeInvStep, OrderInvInit, <1>1, <1>2, PTL DEF Spec
-----------------------------------------------------------------------------
(* Mutual exclusion. *)

ExclusionInv == GuardInv /\ SetUpInv

LEMMA ExclusionInvInit == Init => ExclusionInv
BY SMT DEF Init, StartOfRun, ExclusionInv, GuardInv, SetUpInv, None, Processes

LEMMA ExclusionInvStep ==
  ~SetupRaces /\ TypeInv /\ ExclusionInv /\ [Next]_vars => ExclusionInv'
<1> SUFFICES ASSUME ~SetupRaces, TypeInv, ExclusionInv, [Next]_vars
             PROVE  ExclusionInv'
  OBVIOUS
<1> USE Cast, Process6Process7Assumption
    DEF TypeInv, TypeOK, ThreadsInv, MappedInv, ExclusionInv, GuardInv, SetUpInv, Sync,
        None, Objects, shm_vars, message_vars
<1>1. ASSUME NEW p \in Processes, Open(p) PROVE ExclusionInv'
  <2>1. GuardInv'
    BY <1>1, SMT DEF Open, BeingSetUp, Processes
  <2>2. SetUpInv'
    BY <1>1, SMT DEF Open, BeingSetUp, Processes
  <2> QED
    BY <2>1, <2>2
<1>2. ASSUME NEW p \in Processes, Size(p) PROVE ExclusionInv'
  BY <1>2, SMT DEF Size
<1>3. ASSUME NEW p \in Processes, Reopen(p) PROVE ExclusionInv'
  <2>1. GuardInv'
    BY <1>3, SMT DEF Reopen, Processes
  <2>2. SetUpInv'
    BY <1>3, SMT DEF Reopen, Processes
  <2> QED
    BY <2>1, <2>2
<1>4. ASSUME NEW p \in Processes, InitialiseGuard(p) PROVE ExclusionInv'
  BY <1>4, SMT DEF InitialiseGuard
<1>5. ASSUME NEW p \in Processes, ResetFlags(p) PROVE ExclusionInv'
  BY <1>5, SMT DEF ResetFlags
<1>6. ASSUME NEW p \in Processes, CreateThreads(p) PROVE ExclusionInv'
  BY <1>6, SMT DEF CreateThreads, FirstStep, ThreadsOf
<1>7. ASSUME NEW p \in Processes, Cleanup(p) PROVE ExclusionInv'
  <2>1. GuardInv'
    BY <1>7, SMT DEF Cleanup, AllJoined, Unlinked, ThreadsOf, Processes
  <2>2. SetUpInv'
    BY <1>7, SMT DEF Cleanup, AllJoined, Unlinked, ThreadsOf, Processes
  <2> QED
    BY <2>1, <2>2
<1>8. ASSUME NEW t \in Threads, Lock(t) PROVE ExclusionInv'
  <2>1. GuardInv'
    <3>1. Sync(t) \in Objects /\ guard'[Sync(t)] = t
      BY <1>8, SMT DEF Lock, Accessible
    <3>2. ASSUME NEW u \in Threads \ {t}, pc'[u] \in {"check", "notify"}
          PROVE  guard'[Sync(u)] = u
      <4>1. guard[Sync(u)] = u
        BY <1>8, <3>2, SMT DEF Lock
      <4>2. Sync(u) # Sync(t)
        BY <1>8, <4>1, SMT DEF Lock, GuardIsFree, Threads
      <4> QED
        BY <1>8, <4>1, <4>2, SMT DEF Lock
    <3>3. mapped' = mapped
      BY <1>8 DEF Lock
    <3> QED
      BY <3>1, <3>2, <3>3
  <2>2. SetUpInv'
    BY <1>8, SMT DEF Lock, Accessible, GuardIsFree
  <2> QED
    BY <2>1, <2>2
<1>9. ASSUME NEW t \in Threads, Check(t) PROVE ExclusionInv'
  BY <1>9, SMT DEF Check, MayBegin
<1>10. ASSUME NEW t \in Threads, InfoBegin(t) PROVE ExclusionInv'
  BY <1>10, SMT DEF InfoBegin
<1>11. ASSUME NEW t \in Threads, InfoEnd(t) PROVE ExclusionInv'
  BY <1>11, SMT DEF InfoEnd
<1>12. ASSUME NEW t \in Threads, Notify(t) PROVE ExclusionInv'
  BY <1>12, SMT DEF Notify, Sleepers
<1>13. ASSUME NEW t \in Threads, Crash(t) PROVE ExclusionInv'
  BY <1>13, SMT DEF Crash, Accessible
<1>14. ASSUME NEW t \in Threads, SpuriousWake(t) PROVE ExclusionInv'
  BY <1>14, SMT DEF SpuriousWake
<1>15. CASE NextTest
  BY <1>15, SMT DEF NextTest
<1>16. CASE UNCHANGED vars
  BY <1>16, SMT DEF vars
<1>17. QED
  BY <1>1, <1>2, <1>3, <1>4, <1>5, <1>6, <1>7, <1>8, <1>9, <1>10, <1>11, <1>12, <1>13, <1>14, <1>15, <1>16 DEF Next, Main, Proceed, Terminated

\* If nobody opens the object while it is being set up, its flags are accessed
\* by one thread at a time, however many runs were killed before and in
\* whatever state they left the object.
THEOREM MutualExclusionHolds ==
  ASSUME ~SetupRaces PROVE Spec => []MutualExclusion
<1>1. ExclusionInv => MutualExclusion
  BY DEF ExclusionInv, GuardInv, MutualExclusion
<1>2. TypeInv /\ ExclusionInv /\ [Next]_vars => ExclusionInv'
  BY ExclusionInvStep
<1> QED
  BY TypeInvInit, TypeInvStep, ExclusionInvInit, <1>1, <1>2, PTL DEF Spec
-----------------------------------------------------------------------------
(* One object, and its end. *)

\* In one run a process that has cleaned up has seen the other one start its
\* threads: T6.3 waits for T7.1 and T7.1 for T6.5.  So nobody opens the object
\* any more when its name has gone.
MeetInv ==
  /\ used <= 1 /\ name <= used
  /\ \A p \in Processes : mapped[p] <= used
  /\ used = 1 /\ name = None => \E p \in Processes : main_pc[p] = "done"
  /\ \A p \in Processes : main_pc[p] = "done" =>
       /\ name = None /\ \A q \in Processes : main_pc[q] \in {"join", "done", "dead"}
       /\ \A t \in ThreadsOf(p) : pc[t] = "done"
  /\ \A t \in ended : pc[t] # "absent"

LEMMA MeetInvInit == Init => MeetInv
BY SMT DEF Init, StartOfRun, MeetInv, Processes, Threads, None

LEMMA BothHaveStarted ==
  ASSUME TypeInv, OrderInv, MeetInv, NEW p \in Processes, AllJoined(p), NEW q \in Processes
  PROVE  main_pc[q] \in {"join", "done", "dead"}
<1>1. \A t \in ended : main_pc[OwnerOf[t]] \in {"join", "done", "dead"}
  BY DEF TypeInv, TypeOK, MappedInv, MeetInv
<1>2. CASE p = "P6"
  <2>1. pc["T63"] = "done"
    BY <1>2 DEF AllJoined, ThreadsOf, Threads, OwnerOf
  <2>2. "T71" \in ended
    BY <2>1 DEF OrderInv, Waiting, WaitsFor
  <2> QED
    BY <1>1, <1>2, <2>2 DEF OwnerOf, Processes, AllJoined
<1>3. CASE p = "P7"
  <2>1. pc["T71"] = "done"
    BY <1>3 DEF AllJoined, ThreadsOf, Threads, OwnerOf
  <2>2. "T65" \in ended
    BY <2>1 DEF OrderInv, Waiting, WaitsFor
  <2> QED
    BY <1>1, <1>3, <2>2 DEF OwnerOf, Processes, AllJoined
<1> QED
  BY <1>2, <1>3 DEF Processes

LEMMA MeetInvStep ==
  MaxRuns = 1 /\ TypeInv /\ OrderInv /\ MeetInv /\ [Next]_vars => MeetInv'
<1> SUFFICES ASSUME MaxRuns = 1, TypeInv, OrderInv, MeetInv, [Next]_vars PROVE MeetInv'
  OBVIOUS
<1> USE Cast
    DEF TypeInv, TypeOK, ThreadsInv, MappedInv, MeetInv, None, shm_vars, message_vars
<1>1. ASSUME NEW p \in Processes, Open(p) PROVE MeetInv'
  <2>1. \A q \in Processes : main_pc[q] # "done"
    BY <1>1 DEF Open
  <2>2. name = None => used = 0
    BY <2>1, SMT DEF Objects
  <2> QED
    BY <1>1, <2>1, <2>2, SMT DEF Open, Objects
<1>2. ASSUME NEW p \in Processes, Size(p) PROVE MeetInv'
  BY <1>2, SMT DEF Size
<1>3. ASSUME NEW p \in Processes, Reopen(p) PROVE MeetInv'
  BY <1>3, SMT DEF Reopen
<1>4. ASSUME NEW p \in Processes, InitialiseGuard(p) PROVE MeetInv'
  BY <1>4, SMT DEF InitialiseGuard
<1>5. ASSUME NEW p \in Processes, ResetFlags(p) PROVE MeetInv'
  BY <1>5, SMT DEF ResetFlags
<1>6. ASSUME NEW p \in Processes, CreateThreads(p) PROVE MeetInv'
  BY <1>6, SMT DEF CreateThreads, FirstStep, ThreadsOf
<1>7. ASSUME NEW p \in Processes, Cleanup(p) PROVE MeetInv'
  <2>1. \A q \in Processes : main_pc[q] \in {"join", "done", "dead"}
    BY <1>7, BothHaveStarted DEF Cleanup
  <2> QED
    BY <1>7, <2>1, SMT DEF Cleanup, Unlinked, Objects, AllJoined
<1>8. ASSUME NEW t \in Threads, Lock(t) PROVE MeetInv'
  BY <1>8, SMT DEF Lock
<1>9. ASSUME NEW t \in Threads, Check(t) PROVE MeetInv'
  BY <1>9, SMT DEF Check, MayBegin, ThreadsOf
<1>10. ASSUME NEW t \in Threads, InfoBegin(t) PROVE MeetInv'
  BY <1>10, SMT DEF InfoBegin
<1>11. ASSUME NEW t \in Threads, InfoEnd(t) PROVE MeetInv'
  BY <1>11, SMT DEF InfoEnd
<1>12. ASSUME NEW t \in Threads, Notify(t) PROVE MeetInv'
  BY <1>12, SMT DEF Notify, Sleepers, ThreadsOf
<1>13. ASSUME NEW t \in Threads, Crash(t) PROVE MeetInv'
  <2>1. main_pc[OwnerOf[t]] \in {"join", "done", "dead"}
    BY <1>13 DEF Crash
  <2>2. main_pc[OwnerOf[t]] # "done"
    BY <1>13 DEF Crash, ThreadsOf
  <2> QED
    BY <1>13, <2>1, <2>2, SMT DEF Crash, ThreadsOf
<1>14. ASSUME NEW t \in Threads, SpuriousWake(t) PROVE MeetInv'
  BY <1>14, SMT DEF SpuriousWake
<1>15. CASE NextTest
  BY <1>15, SMT DEF NextTest
<1>16. CASE UNCHANGED vars
  BY <1>16, SMT DEF vars
<1>17. QED
  BY <1>1, <1>2, <1>3, <1>4, <1>5, <1>6, <1>7, <1>8, <1>9, <1>10, <1>11, <1>12, <1>13, <1>14, <1>15, <1>16 DEF Next, Main, Proceed, Terminated

LEMMA MeetInvariance == ASSUME MaxRuns = 1 PROVE Spec => [](TypeInv /\ MeetInv)
<1>1. TypeInv /\ OrderInv /\ [Next]_vars => OrderInv'
  BY OrderInvStep
<1>2. TypeInv /\ OrderInv /\ MeetInv /\ [Next]_vars => MeetInv'
  BY MeetInvStep
<1> QED
  BY TypeInvInit, TypeInvStep, OrderInvInit, MeetInvInit, <1>1, <1>2, PTL DEF Spec

\* In a run that starts from an empty system the two processes never use two
\* objects, whoever of them unlinks the name first and whoever crashes.
THEOREM OneObjectHolds == ASSUME MaxRuns = 1 PROVE Spec => []OneObject
<1>1. TypeInv /\ MeetInv => OneObject
  <2> SUFFICES ASSUME TypeInv, MeetInv PROVE OneObject
    OBVIOUS
  <2>1. \A p \in Processes : mapped[p] \in {0, 1}
    BY SMT DEF TypeInv, TypeOK, MeetInv, Objects, None
  <2> QED
    BY <2>1, SMT DEF TypeInv, TypeOK, MeetInv, OneObject, None
<1> QED
  BY MeetInvariance, <1>1, PTL

\* Nor do they leave the object behind when both have ended.
THEOREM NothingLeftBehindHolds == ASSUME MaxRuns = 1 PROVE Spec => []NothingLeftBehind
<1>1. MeetInv => NothingLeftBehind
  BY DEF MeetInv, NothingLeftBehind, Processes
<1> QED
  BY MeetInvariance, <1>1, PTL
=============================================================================
