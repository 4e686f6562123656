--------------------------- MODULE Process6Process7 ---------------------------
(***************************************************************************)
(* Processes P6 and P7 of a2.c and the three of their threads that wait    *)
(* for each other across the process border: T7.1 begins after T6.5 has    *)
(* ended, T6.3 begins after T7.1 has ended.                                *)
(*                                                                         *)
(* They meet in a shared memory object with a well-known name.  The        *)
(* process whose O_EXCL open succeeds gives the object its size and then   *)
(* initialises it, while the other may already have mapped it: nothing     *)
(* makes the second process wait for the first.  The object outlives the   *)
(* processes until somebody unlinks its name.                              *)
(***************************************************************************)
EXTENDS Integers, FiniteSets

CONSTANTS
  MaxRuns,     \* how many times the tester starts the program
  SetupRaces   \* FALSE: nobody opens the object while it is being set up

ASSUME Process6Process7Assumption ==
  /\ MaxRuns \in Nat \ {0}
  /\ SetupRaces \in BOOLEAN

Processes == {"P6", "P7"}
Threads == {"T65", "T71", "T63"}
OwnerOf == [T65 |-> "P6", T71 |-> "P7", T63 |-> "P6"]

\* Who waits for the end of whom, and whose end is announced in the object.
WaitsFor == [T71 |-> "T65", T63 |-> "T71"]
Waiting == DOMAIN WaitsFor
Announced == {"T65", "T71"}

\* Every object is opened by one process of one run at least.
Objects == 1..(2 * MaxRuns)
None == 0

VARIABLES
  run,      \* the number of the run
  name,     \* the object OS_ASSIG_2_P6_P7_SYNC_SHM stands for, or None
  used,     \* how many objects have been created
  sized,    \* the objects that ftruncate has given their size
  guard,    \* the mutex of each object
  exited,   \* the flags that are set in each object
  main_pc,  \* the main thread of each process
  mapped,   \* the object each process has mapped, None if mmap failed
  pc,       \* the three threads
  began, ended   \* the messages the tester has received in this run

shm_vars == <<name, used, sized, guard, exited>>
message_vars == <<began, ended>>
vars == <<run, shm_vars, main_pc, mapped, pc, message_vars>>

ThreadsOf(p) == {t \in Threads : OwnerOf[t] = p}
Sync(t) == mapped[OwnerOf[t]]

\* Thread t can touch the object: it is mapped, and there are pages behind it.
Accessible(t) == Sync(t) # None /\ Sync(t) \in sized

StartOfRun ==
  /\ main_pc = [p \in Processes |-> "open"]
  /\ mapped = [p \in Processes |-> None]
  /\ pc = [t \in Threads |-> "absent"]
  /\ began = {}
  /\ ended = {}

Init ==
  /\ StartOfRun
  /\ run = 1
  /\ name = None
  /\ used = 0
  \* A new object is empty, and reads as zeros once it has its size.
  /\ sized = {}
  /\ guard = [o \in Objects |-> "unlocked"]
  /\ exited = [o \in Objects |-> {}]
-----------------------------------------------------------------------------
(* The main threads: process_6() and process_7(). *)

BeingSetUp == \E p \in Processes : main_pc[p] \in {"size", "init", "reset"}

\* shm_open with O_EXCL.
Open(p) ==
  /\ main_pc[p] = "open"
  /\ SetupRaces \/ ~BeingSetUp
  /\ \/ /\ name = None
        /\ used' = used + 1
        /\ name' = used'
        /\ mapped' = [mapped EXCEPT ![p] = used']
        /\ main_pc' = [main_pc EXCEPT ![p] = "size"]
     \/ /\ name # None
        /\ main_pc' = [main_pc EXCEPT ![p] = "reopen"]
        /\ UNCHANGED <<used, name, mapped>>
  /\ UNCHANGED <<run, sized, guard, exited, pc, message_vars>>

\* The creator: ftruncate and mmap.
Size(p) ==
  /\ main_pc[p] = "size"
  /\ sized' = sized \cup {mapped[p]}
  /\ main_pc' = [main_pc EXCEPT ![p] = "init"]
  /\ UNCHANGED <<run, name, used, guard, exited, mapped, pc, message_vars>>

\* The other: shm_open without O_CREAT, which fails if the name has gone in the
\* meantime, and mmap, which then fails too.
Reopen(p) ==
  /\ main_pc[p] = "reopen"
  /\ mapped' = [mapped EXCEPT ![p] = name]
  /\ main_pc' = [main_pc EXCEPT ![p] = "create"]
  /\ UNCHANGED <<run, shm_vars, pc, message_vars>>

\* pthread_mutex_init and pthread_cond_init.  The mutex is free afterwards,
\* whoever held it; a thread that sleeps on the old condition variable is out
\* of reach of those who signal the new one.
InitialiseGuard(p) ==
  /\ main_pc[p] = "init"
  /\ guard' = [guard EXCEPT ![mapped[p]] = "unlocked"]
  /\ pc' = [t \in Threads |->
              IF pc[t] = "wait" /\ Sync(t) = mapped[p]
              THEN "stranded" ELSE pc[t]]
  /\ main_pc' = [main_pc EXCEPT ![p] = "reset"]
  /\ UNCHANGED <<run, name, used, sized, exited, mapped, message_vars>>

\* The two flags are set to false.
ResetFlags(p) ==
  /\ main_pc[p] = "reset"
  /\ exited' = [exited EXCEPT ![mapped[p]] = {}]
  /\ main_pc' = [main_pc EXCEPT ![p] = "create"]
  /\ UNCHANGED <<run, name, used, sized, guard, mapped, pc, message_vars>>

FirstStep(t) == IF t \in Waiting THEN "wait_lock" ELSE "begin"

\* The loop of pthread_create.  (The other threads of the processes touch
\* nothing that is modelled here.)
CreateThreads(p) ==
  /\ main_pc[p] = "create"
  /\ pc' = [t \in Threads |->
              IF t \in ThreadsOf(p) THEN FirstStep(t) ELSE pc[t]]
  /\ main_pc' = [main_pc EXCEPT ![p] = "join"]
  /\ UNCHANGED <<run, shm_vars, mapped, message_vars>>

\* The slip: the object is cleaned up as soon as the threads are started.
AllCreated(p) == main_pc[p] = "join"
AllJoined(p) == main_pc[p] = "join" /\ \A t \in ThreadsOf(p) : pc[t] = "done"

\* The slip: the name stays.
KeepName == name
Unlinked == None

\* munmap, shm_unlink, whose failure is ignored, and the last message.
Cleanup(p) ==
  /\ AllJoined(p)
  /\ name' = Unlinked
  /\ main_pc' = [main_pc EXCEPT ![p] = "done"]
  /\ UNCHANGED <<run, used, sized, guard, exited, mapped, pc, message_vars>>

(* The threads: process_6_thread_5(), process_7_thread_1(), ... *)

\* The mutex is shared by the processes.  The slip: it is one for each process,
\* as without PTHREAD_PROCESS_SHARED it may be.
FreeForProcess(t) == guard[Sync(t)] \notin ThreadsOf(OwnerOf[t])
GuardIsFree(t) == guard[Sync(t)] = "unlocked"

\* pthread_mutex_lock, of whatever the shared memory holds at that time.
Lock(t) ==
  /\ pc[t] \in {"wait_lock", "notify_lock"}
  /\ Accessible(t)
  /\ GuardIsFree(t)
  /\ guard' = [guard EXCEPT ![Sync(t)] = t]
  /\ pc' = [pc EXCEPT ![t] = IF @ = "wait_lock" THEN "check" ELSE "notify"]
  /\ UNCHANGED <<run, name, used, sized, exited, main_pc, mapped, message_vars>>

\* The slip: the flag is not looked at.
MayBeginAtOnce(t) == t \in Waiting
MayBegin(t) == WaitsFor[t] \in exited[Sync(t)]

Check(t) ==
  /\ pc[t] = "check"
  /\ \/ MayBegin(t) /\ pc' = [pc EXCEPT ![t] = "begin"]
     \/ ~MayBegin(t) /\ pc' = [pc EXCEPT ![t] = "wait"]
  /\ guard' = [guard EXCEPT ![Sync(t)] = "unlocked"]
  /\ UNCHANGED <<run, name, used, sized, exited, main_pc, mapped, message_vars>>

InfoBegin(t) ==
  /\ pc[t] = "begin"
  /\ began' = began \cup {t}
  /\ pc' = [pc EXCEPT ![t] = "end"]
  /\ UNCHANGED <<run, shm_vars, main_pc, mapped, ended>>

InfoEnd(t) ==
  /\ pc[t] = "end"
  /\ ended' = ended \cup {t}
  /\ pc' = [pc EXCEPT ![t] = IF t \in Announced THEN "notify_lock" ELSE "done"]
  /\ UNCHANGED <<run, shm_vars, main_pc, mapped, began>>

\* Who sleeps on the condition variable that t signals; the slip: t signals the
\* other one.
SleepersOnTheOther(t) == {u \in Waiting : /\ WaitsFor[u] # t
                                          /\ pc[u] = "wait"
                                          /\ Sync(u) = Sync(t)}
Sleepers(t) == {u \in Waiting : /\ WaitsFor[u] = t
                                /\ pc[u] = "wait"
                                /\ Sync(u) = Sync(t)}

\* The flag of t is set, the condition variable signalled (it has one waiter
\* at most), and the mutex unlocked.
Notify(t) ==
  /\ pc[t] = "notify"
  /\ exited' = [exited EXCEPT ![Sync(t)] = @ \cup {t}]
  /\ guard' = [guard EXCEPT ![Sync(t)] = "unlocked"]
  /\ pc' = [u \in Threads |-> IF u = t THEN "done"
                             ELSE IF u \in Sleepers(t) THEN "wait_lock"
                             ELSE pc[u]]
  /\ UNCHANGED <<run, name, used, sized, main_pc, mapped, message_vars>>

SpuriousWake(t) ==
  /\ pc[t] \in {"wait", "stranded"}
  /\ pc' = [pc EXCEPT ![t] = "wait_lock"]
  /\ UNCHANGED <<run, shm_vars, main_pc, mapped, message_vars>>

(* What may go wrong. *)

\* A thread touches an object that is not mapped (SIGSEGV), or that has no
\* pages yet (SIGBUS): its process dies, and with it all of its threads.
Crash(t) ==
  /\ pc[t] \in {"wait_lock", "notify_lock"}
  /\ ~Accessible(t)
  /\ main_pc' = [main_pc EXCEPT ![OwnerOf[t]] = "dead"]
  /\ pc' = [u \in Threads |->
              IF OwnerOf[u] = OwnerOf[t] THEN "dead" ELSE pc[u]]
  /\ UNCHANGED <<run, shm_vars, mapped, message_vars>>

\* The tester starts the program again: after a run that has ended, or one that
\* it has killed when the time was over.  The object of the old run stays as it
\* is, unless its name was unlinked; a mutex stays with its dead owner.
NextTest ==
  /\ run < MaxRuns
  /\ run' = run + 1
  /\ guard' = [o \in Objects |->
                 IF guard[o] = "unlocked" THEN "unlocked" ELSE "dead_owner"]
  /\ main_pc' = [p \in Processes |-> "open"]
  /\ mapped' = [p \in Processes |-> None]
  /\ pc' = [t \in Threads |-> "absent"]
  /\ began' = {}
  /\ ended' = {}
  /\ UNCHANGED <<name, used, sized, exited>>

\* Not a step of the code: both processes have ended.
Terminated ==
  /\ \A p \in Processes : main_pc[p] = "done"
  /\ UNCHANGED vars
-----------------------------------------------------------------------------
Main(p) ==
  \/ Open(p) \/ Size(p) \/ Reopen(p) \/ InitialiseGuard(p) \/ ResetFlags(p)
  \/ CreateThreads(p) \/ Cleanup(p)

Proceed(t) ==
  Check(t) \/ InfoBegin(t) \/ InfoEnd(t) \/ Notify(t) \/ Crash(t)

Next ==
  \/ \E p \in Processes : Main(p)
  \/ \E t \in Threads : Lock(t) \/ Proceed(t) \/ SpuriousWake(t)
  \/ NextTest
  \/ Terminated

Spec == Init /\ [][Next]_vars

\* Processes and threads are scheduled, and a free mutex is granted in the end.
Fairness ==
  /\ \A p \in Processes : WF_vars(Main(p))
  /\ \A t \in Threads : WF_vars(Proceed(t)) /\ SF_vars(Lock(t))

FairSpec == Spec /\ Fairness
-----------------------------------------------------------------------------
(* Properties. *)

\* The one type invariant; a thread sends END after BEGIN, and there are
\* enough objects for the runs.
TypeOK ==
  /\ run \in 1..MaxRuns
  /\ name \in Objects \cup {None}
  /\ used \in Objects \cup {0}
  /\ sized \subseteq Objects
  /\ guard \in [Objects -> Threads \cup {"unlocked", "dead_owner"}]
  /\ exited \in [Objects -> SUBSET Announced]
  /\ main_pc \in [Processes -> {"open", "size", "reopen", "init", "reset",
                                "create", "join", "done", "dead"}]
  /\ mapped \in [Processes -> Objects \cup {None}]
  /\ pc \in [Threads -> {"absent", "wait_lock", "check", "wait", "stranded",
                         "begin", "end", "notify_lock", "notify", "done",
                         "dead"}]
  /\ began \subseteq Threads
  /\ ended \subseteq began

\* T7.1 begins after T6.5 has ended, and T6.3 after T7.1 has: what
\* checkThreads3 of tester.py checks ("thread T%d.%d starts before T%d.%d
\* ended", tester.py:330, and its counterpart at 334).
InOrder == \A t \in Waiting : t \in began => WaitsFor[t] \in ended

\* The two processes meet in one object: nobody unlinks the name before the
\* other has opened it, although each of them does so without asking.
OneObject ==
  /\ used <= run
  /\ \A p, q \in Processes : None \in {mapped[p], mapped[q]}
                              \/ mapped[p] = mapped[q]

\* Whoever is the last to end leaves no object behind.
NothingLeftBehind ==
  (\A p \in Processes : main_pc[p] = "done") => name = None

\* The flags of an object are looked at and set by one thread at a time, even
\* if it was left behind by a run that was killed.
MutualExclusion ==
  \A t, u \in Threads :
    /\ {pc[t], pc[u]} \subseteq {"check", "notify"}
    /\ Sync(t) = Sync(u)
    => t = u

\* Both processes end, unless the tester kills them: no thread misses the end of
\* its predecessor, and no process dies, as long as the object is new and set up
\* before it is opened again.
BothEnd == <>(run > 1 \/ \A p \in Processes : main_pc[p] = "done")

\* "the condition is already fulfilled so as to not accidentally lock the
\* thread forever", says README.md:22 of the loops around pthread_cond_wait: a
\* thread whose predecessor has announced its end begins, if it is alive.
NotLockedForever ==
  \A t \in Waiting :
    pc[WaitsFor[t]] = "done" /\ pc[t] # "absent"
      ~> t \in began \/ pc[t] = "dead"
=============================================================================
