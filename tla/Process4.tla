------------------------------- MODULE Process4 -------------------------------
(***************************************************************************)
(* Process P4 of a2.c: 35 threads, of which at most MAX_THREAD_COUNT may   *)
(* run at a time, and thread T4.11, which may end only while exactly       *)
(* MAX_THREAD_COUNT threads run.                                           *)
(*                                                                         *)
(* The threads synchronise through two mutexes and three condition         *)
(* variables.  A mutex is the thread that holds it, or Unlocked.  A        *)
(* condition variable is the set of threads whose program counter is at    *)
(* the corresponding "..._wait": pthread_cond_wait releases the mutex and  *)
(* joins the set in one step, a wake-up moves a thread back to where it    *)
(* locks the mutex again and re-evaluates the condition of its loop.       *)
(*                                                                         *)
(* One action is one of: taking a mutex, the rest of a critical section    *)
(* (which contains no blocking call except where an action says so), a     *)
(* call of info(), whose effect is the message the tester records.         *)
(***************************************************************************)
EXTENDS Integers, FiniteSets

CONSTANTS
  N,                \* the number of threads process_4() creates (35)
  Waiter,           \* the thread that runs process_4_thread_11() (11)
  MAX_THREAD_COUNT  \* sync->MAX_THREAD_COUNT (6)

ASSUME Process4Assumption ==
  /\ N \in Nat
  /\ MAX_THREAD_COUNT \in 1..N
  /\ Waiter \in 1..N

Threads == 1..N
Generic == Threads \ {Waiter}
Unlocked == 0

VARIABLES
  pc,            \* where each thread is
  outside_info_guard,
  within_info_guard,
  running_threads_without_info_count,
  running_threads_with_info_count,
  number_of_threads_that_may_still_terminate,
  created,       \* threads created so far by the loop of the main thread
  joined,        \* threads joined so far by the main thread
  main_ended     \* the main thread has sent info(END, 4, 0)

main_vars == <<created, joined, main_ended>>
count_vars == <<running_threads_without_info_count,
                running_threads_with_info_count,
                number_of_threads_that_may_still_terminate>>
guard_vars == <<outside_info_guard, within_info_guard>>
vars == <<pc, guard_vars, count_vars, main_vars>>
-----------------------------------------------------------------------------
(* Sets of program counters. *)

\* Inside a critical section of the one mutex or of the other.
HoldsOutside == {"enter_check", "leave"}
HoldsWithin == {"count", "exit_check", "quorum_check", "quorum_end",
                "quorum_release"}

\* Counted in running_threads_with_info_count.
Counted == {"exit_lock", "exit_check", "exit_wait", "quorum_lock",
            "quorum_check", "quorum_wait", "quorum_end", "quorum_release"}

\* Counted in running_threads_without_info_count.
Entered == Counted \cup {"begin", "count_lock", "count", "end",
                         "leave_lock", "leave"}

\* Between the BEGIN and the END message, as the tester sees them.
Running == {"count_lock", "count", "exit_lock", "exit_check", "exit_wait",
            "end", "quorum_lock", "quorum_check", "quorum_wait",
            "quorum_end"}

\* Trying to get past the entrance, and awake.
Entering == {"enter_lock", "enter_check"}

\* Past the loop at which a generic thread asks whether it may terminate.
Released == {"end", "leave_lock", "leave", "done"}

GenericPC == {"absent", "enter_wait", "done"} \cup Entering
             \cup {"begin", "count_lock", "count", "exit_lock", "exit_check",
                   "exit_wait", "end", "leave_lock", "leave"}
WaiterPC == {"absent", "enter_wait", "done"} \cup Entering
            \cup {"begin", "count_lock", "count", "quorum_lock",
                  "quorum_check", "quorum_wait", "quorum_end",
                  "quorum_release", "leave_lock", "leave"}
PC == GenericPC \cup WaiterPC

\* How many threads of D the function f puts in S.
CountIn(D, f, S) == Cardinality({t \in D : f[t] \in S})

At(S) == {t \in Threads : pc[t] \in S}
Num(S) == CountIn(Threads, pc, S)

\* Thread t moves to p, the threads of W wake up and move to q.
MoveAndWake(t, p, W, q) ==
  pc' = [u \in Threads |-> IF u = t THEN p
                           ELSE IF u \in W THEN q ELSE pc[u]]

Move(t, p) == MoveAndWake(t, p, {}, p)

\* What pthread_cond_signal may wake of the threads S: one, if there is one.
\* (That it may wake more is covered by SpuriousWake.)
Signalled(S) == IF S = {} THEN {{}} ELSE {{t} : t \in S}

\* What pthread_cond_broadcast wakes.
Broadcast(S) == {S}

\* Whom the end of thread t wakes at the entrance: a generic thread signals one
\* of the sleepers, the Waiter broadcasts to all of them.  The slip: only the
\* Waiter thinks of them.
WokenByWaiterOnly(t) ==
  IF t = Waiter THEN Broadcast(At({"enter_wait"})) ELSE {{}}
WokenByLeaving(t) ==
  IF t = Waiter THEN Broadcast(At({"enter_wait"}))
  ELSE Signalled(At({"enter_wait"}))

\* The conditions of the loops, each with the slip it invites: off by one; no
\* thread kept back for the waiter; the counter of the other mutex.
NoRoomOffByOne == running_threads_without_info_count > MAX_THREAD_COUNT
NoRoom == running_threads_without_info_count >= MAX_THREAD_COUNT

NobodyKeptBack == FALSE
MustStay == number_of_threads_that_may_still_terminate = 0

HouseEntered == running_threads_without_info_count >= MAX_THREAD_COUNT
HouseFull == running_threads_with_info_count >= MAX_THREAD_COUNT

LockOutside(t, from, to) ==
  /\ pc[t] = from
  /\ outside_info_guard = Unlocked
  /\ outside_info_guard' = t
  /\ Move(t, to)
  /\ UNCHANGED <<within_info_guard, count_vars, main_vars>>

LockWithin(t, from, to) ==
  /\ pc[t] = from
  /\ within_info_guard = Unlocked
  /\ within_info_guard' = t
  /\ Move(t, to)
  /\ UNCHANGED <<outside_info_guard, count_vars, main_vars>>

UnlockOutside ==
  outside_info_guard' = Unlocked /\ UNCHANGED within_info_guard
UnlockWithin ==
  within_info_guard' = Unlocked /\ UNCHANGED outside_info_guard
-----------------------------------------------------------------------------
Init ==
  /\ pc = [t \in Threads |-> "absent"]
  /\ outside_info_guard = Unlocked
  /\ within_info_guard = Unlocked
  /\ running_threads_without_info_count = 0
  /\ running_threads_with_info_count = 0
  \* 35 - 6
  /\ number_of_threads_that_may_still_terminate = N - MAX_THREAD_COUNT
  /\ created = 0
  /\ joined = 0
  /\ main_ended = FALSE

(* The main thread of the process: process_4(). *)

\* pthread_join returns when the thread has ended.
HasEnded(t) == pc[t] = "done"

CreateThread ==
  /\ created < N
  /\ created' = created + 1
  /\ Move(created + 1, "enter_lock")
  /\ UNCHANGED <<guard_vars, count_vars, joined, main_ended>>

JoinThread ==
  /\ created = N
  /\ joined < N
  /\ HasEnded(joined + 1)
  /\ joined' = joined + 1
  /\ UNCHANGED <<pc, guard_vars, count_vars, created, main_ended>>

\* waitpid() for P7, which ends on its own, and info(END, 4, 0).
MainEnd ==
  /\ joined = N
  /\ ~main_ended
  /\ main_ended' = TRUE
  /\ UNCHANGED <<pc, guard_vars, count_vars, created, joined>>

(* The entrance, the same for every thread. *)

EnterLock(t) == LockOutside(t, "enter_lock", "enter_check")

EnterCheck(t) ==
  /\ pc[t] = "enter_check"
  /\ \/ /\ NoRoom
        /\ Move(t, "enter_wait")
        /\ UNCHANGED running_threads_without_info_count
     \/ /\ ~NoRoom
        /\ running_threads_without_info_count' =
             running_threads_without_info_count + 1
        /\ Move(t, "begin")
  /\ UnlockOutside
  /\ UNCHANGED <<running_threads_with_info_count,
                 number_of_threads_that_may_still_terminate, main_vars>>

\* info(BEGIN, 4, t), outside both mutexes.
InfoBegin(t) ==
  /\ pc[t] = "begin"
  /\ Move(t, "count_lock")
  /\ UNCHANGED <<guard_vars, count_vars, main_vars>>

CountLock(t) == LockWithin(t, "count_lock", "count")

\* Only a generic thread signals thread_count_increased_cond: the one thread
\* that ever waits for it is the Waiter.
Count(t) ==
  /\ pc[t] = "count"
  /\ running_threads_with_info_count' = running_threads_with_info_count + 1
  /\ \/ /\ t # Waiter
        /\ \E W \in Signalled(At({"quorum_wait"})) :
             MoveAndWake(t, "exit_lock", W, "quorum_lock")
     \/ /\ t = Waiter
        /\ Move(t, "quorum_lock")
  /\ UnlockWithin
  /\ UNCHANGED <<running_threads_without_info_count,
                 number_of_threads_that_may_still_terminate, main_vars>>

(* The exit of a generic thread. *)

ExitLock(t) == LockWithin(t, "exit_lock", "exit_check")

ExitCheck(t) ==
  /\ pc[t] = "exit_check"
  /\ \/ /\ MustStay
        /\ Move(t, "exit_wait")
        /\ UNCHANGED <<running_threads_with_info_count,
                       number_of_threads_that_may_still_terminate>>
     \/ /\ ~MustStay
        /\ number_of_threads_that_may_still_terminate' =
             number_of_threads_that_may_still_terminate - 1
        /\ running_threads_with_info_count' =
             running_threads_with_info_count - 1
        /\ Move(t, "end")
  /\ UnlockWithin
  /\ UNCHANGED <<running_threads_without_info_count, main_vars>>

\* info(END, 4, t), outside both mutexes.
InfoEnd(t) ==
  /\ pc[t] = "end"
  /\ Move(t, "leave_lock")
  /\ UNCHANGED <<guard_vars, count_vars, main_vars>>

LeaveLock(t) == LockOutside(t, "leave_lock", "leave")

Leave(t) ==
  /\ pc[t] = "leave"
  /\ running_threads_without_info_count' =
       running_threads_without_info_count - 1
  /\ \E W \in WokenByLeaving(t) :
       MoveAndWake(t, "done", W, "enter_lock")
  /\ UnlockOutside
  /\ UNCHANGED <<running_threads_with_info_count,
                 number_of_threads_that_may_still_terminate, main_vars>>

(* The exit of the Waiter, T4.11. *)

QuorumLock(t) == LockWithin(t, "quorum_lock", "quorum_check")

\* When the loop ends, within_info_guard stays locked.
QuorumCheck(t) ==
  /\ pc[t] = "quorum_check"
  /\ \/ /\ ~HouseFull
        /\ Move(t, "quorum_wait")
        /\ UnlockWithin
     \/ /\ HouseFull
        /\ Move(t, "quorum_end")
        /\ UNCHANGED guard_vars
  /\ UNCHANGED <<count_vars, main_vars>>

\* info(END, 4, 11), which the code calls with within_info_guard locked.
QuorumInfoEnd(t) ==
  /\ pc[t] = "quorum_end"
  /\ Move(t, "quorum_release")
  /\ UNCHANGED <<guard_vars, count_vars, main_vars>>

\* The permits of the 5 threads that were kept back, and a broadcast.
QuorumRelease(t) ==
  /\ pc[t] = "quorum_release"
  /\ running_threads_with_info_count' = running_threads_with_info_count - 1
  /\ number_of_threads_that_may_still_terminate' =
       number_of_threads_that_may_still_terminate + (MAX_THREAD_COUNT - 1)
  /\ \E W \in Broadcast(At({"exit_wait"})) :
       MoveAndWake(t, "leave_lock", W, "exit_lock")
  /\ UnlockWithin
  /\ UNCHANGED <<running_threads_without_info_count, main_vars>>

\* pthread_cond_wait may return without a signal.
SpuriousWake(t) ==
  /\ \/ pc[t] = "enter_wait" /\ Move(t, "enter_lock")
     \/ pc[t] = "exit_wait" /\ Move(t, "exit_lock")
     \/ pc[t] = "quorum_wait" /\ Move(t, "quorum_lock")
  /\ UNCHANGED <<guard_vars, count_vars, main_vars>>
-----------------------------------------------------------------------------
Main == CreateThread \/ JoinThread \/ MainEnd

\* The steps that need a mutex.
Acquire(t) ==
  EnterLock(t) \/ CountLock(t) \/ ExitLock(t) \/ LeaveLock(t) \/ QuorumLock(t)

\* The steps that never block.
Proceed(t) ==
  \/ EnterCheck(t) \/ InfoBegin(t) \/ Count(t) \/ ExitCheck(t)
  \/ InfoEnd(t) \/ Leave(t) \/ QuorumCheck(t) \/ QuorumInfoEnd(t)
  \/ QuorumRelease(t)

\* Not a step of the code: the process has ended.
Terminated == main_ended /\ UNCHANGED vars

Next ==
  \/ Main
  \/ \E t \in Threads : Acquire(t) \/ Proceed(t) \/ SpuriousWake(t)
  \/ Terminated

Spec == Init /\ [][Next]_vars

\* Every thread is scheduled, and a thread that asks for a mutex again and
\* again while it is released gets it in the end.  Nothing makes a spurious
\* wake-up happen.
Fairness ==
  /\ WF_vars(Main)
  /\ \A t \in Threads : WF_vars(Proceed(t)) /\ SF_vars(Acquire(t))

FairSpec == Spec /\ Fairness
-----------------------------------------------------------------------------
(* Properties. *)

\* The one type invariant: program counters by role, counters within bounds
\* (none of them ever goes below zero), mutexes held by threads.
TypeOK ==
  /\ pc \in [Threads -> PC]
  /\ \A t \in Generic : pc[t] \in GenericPC
  /\ pc[Waiter] \in WaiterPC
  /\ outside_info_guard \in 0..N
  /\ within_info_guard \in 0..N
  /\ running_threads_without_info_count \in 0..MAX_THREAD_COUNT
  /\ running_threads_with_info_count \in 0..MAX_THREAD_COUNT
  /\ number_of_threads_that_may_still_terminate \in 0..N
  /\ created \in 0..N
  /\ joined \in 0..N
  /\ main_ended \in BOOLEAN

\* At no moment are more than MAX_THREAD_COUNT threads between their BEGIN and
\* their END message: checkThreads2 of tester.py counts them.  The code
\* guards a different number, of the threads past the entrance.
AtMostMaxRunning == Num(Running) <= MAX_THREAD_COUNT

\* T4.11 sends END while exactly MAX_THREAD_COUNT threads, itself included,
\* are between BEGIN and END: the waiterGroup of checkThreads2.  The threads
\* of the full house cannot slip out between the check and the message.
WaiterEndsInFullHouse ==
  pc[Waiter] = "quorum_end" => Num(Running) = MAX_THREAD_COUNT

Asleep == {"enter_wait", "exit_wait", "quorum_wait"}

\* Once all threads are created, they never all sleep on condition variables
\* with some of them unfinished: T4.11 waits for a full house, the last
\* MAX_THREAD_COUNT - 1 wait for T4.11, and the rest for room at the entrance.
NeverAllAsleep ==
  created = N /\ (\E t \in Threads : pc[t] # "done")
    => \E t \in Threads : pc[t] \notin Asleep \cup {"done"}

\* No wake-up of more_threads_may_enter_cond is lost: if a thread sleeps at
\* the entrance, each free place is about to be asked for by an awake thread,
\* although a leaving thread wakes just one sleeper.
NoLostWakeup ==
  At({"enter_wait"}) # {}
    => running_threads_without_info_count + Num(Entering) >= MAX_THREAD_COUNT

\* The structure "sync" with the mutexes lives on the stack of process_4(),
\* which returns after its last message: by then no thread can touch it.
StackOutlivesThreads == main_ended => \A t \in Threads : pc[t] = "done"

(* The inductive invariant. *)

\* A mutex belongs to the thread that is in its critical section.
MutexInv ==
  \A t \in Threads :
    /\ outside_info_guard = t <=> pc[t] \in HoldsOutside
    /\ within_info_guard = t <=> pc[t] \in HoldsWithin

\* The two counters count what they are meant to count.
CountInv ==
  /\ running_threads_without_info_count = Num(Entered)
  /\ running_threads_with_info_count = Num(Counted)

WaiterReleased == pc[Waiter] \in {"leave_lock", "leave", "done"}

\* A permit to terminate is spent once, and MAX_THREAD_COUNT - 1 of them are
\* held back until T4.11 has ended.
PermitInv ==
  number_of_threads_that_may_still_terminate
    + CountIn(Generic, pc, Released)
  = (N - MAX_THREAD_COUNT)
    + (IF WaiterReleased THEN MAX_THREAD_COUNT - 1 ELSE 0)

\* While T4.11 holds the mutex after its loop, the house stays full.
QuorumInv ==
  pc[Waiter] \in {"quorum_end", "quorum_release"}
    => running_threads_with_info_count = MAX_THREAD_COUNT

\* Nobody sleeps whose condition has come true without a wake-up on its way.
SleepInv ==
  /\ NoLostWakeup
  /\ At({"exit_wait"}) # {} => number_of_threads_that_may_still_terminate = 0
  /\ pc[Waiter] = "quorum_wait"
       => running_threads_with_info_count < MAX_THREAD_COUNT

\* Threads exist in the order of creation and are joined when they are done.
MainInv ==
  /\ \A t \in Threads : pc[t] = "absent" <=> t > created
  /\ \A t \in Threads : t <= joined => pc[t] = "done"
  /\ main_ended => joined = N

\* All of it together: the inductive invariant, from which the safety
\* properties above follow without a look at the steps.
Process4Inv ==
  /\ TypeOK
  /\ MutexInv
  /\ CountInv
  /\ PermitInv
  /\ QuorumInv
  /\ SleepInv
  /\ MainInv

(* Refinement and liveness. *)

StatusOf(t) ==
  IF pc[t] \in {"absent", "enter_wait", "begin"} \cup Entering THEN "idle"
  ELSE IF pc[t] \in Running THEN "running"
  ELSE "ended"

Barrier == INSTANCE ThreadBarrier WITH
  Workers <- Threads, TheWaiter <- Waiter, Capacity <- MAX_THREAD_COUNT,
  status <- [t \in Threads |-> StatusOf(t)]

\* The messages of P4 are those of the abstract barrier: besides the two
\* invariants above, a generic thread ends only if the threads that are left
\* can still fill the house for T4.11.
ImplementsBarrier == Barrier!Spec

\* Until T4.11 has ended, enough of the others are left to fill the house with
\* it: the reason why process_4_generic_thread() counts permits.
HouseCanFill == Barrier!HouseCanFill

\* P4 ends: every thread is done and joined, whatever the interleaving.
Termination == <>main_ended
=============================================================================
