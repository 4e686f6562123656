---------------------------- MODULE Process4Proofs ----------------------------
(***************************************************************************)
(* The theorems of Process4, for every number of threads, every waiter and *)
(* every MAX_THREAD_COUNT.  All of them come from one inductive invariant, *)
(* Process4Inv: the two counters count threads by where they are, and the  *)
(* permits account for the generic threads that have passed their loop.    *)
(* The last part shows that Process4 implements ThreadBarrier.             *)
(***************************************************************************)
EXTENDS Process4, TLAPS, FiniteSetTheorems

(* Counting threads. *)

\* The set CountIn counts is finite: counts are natural numbers.
LEMMA CountNat ==
  ASSUME NEW D, IsFiniteSet(D), NEW f, NEW S
  PROVE  CountIn(D, f, S) \in Nat /\ CountIn(D, f, S) <= Cardinality(D)
<1>1. {t \in D : f[t] \in S} \in SUBSET D
  OBVIOUS
<1>2. QED
  BY <1>1, FS_Subset, FS_CardinalityType DEF CountIn

\* If nobody of D enters or leaves S, the count stays.
LEMMA CountSame ==
  ASSUME NEW D, NEW f, NEW g, NEW S,
         \A t \in D : f[t] \in S <=> g[t] \in S
  PROVE  CountIn(D, g, S) = CountIn(D, f, S)
<1>1. {t \in D : f[t] \in S} = {t \in D : g[t] \in S}
  OBVIOUS
<1>2. QED
  BY <1>1 DEF CountIn

\* If t enters S and nobody else enters or leaves it, the count grows by one.
LEMMA CountUp ==
  ASSUME NEW D, IsFiniteSet(D), NEW f, NEW g, NEW S, NEW t \in D,
         f[t] \notin S, g[t] \in S,
         \A u \in D \ {t} : f[u] \in S <=> g[u] \in S
  PROVE  CountIn(D, g, S) = CountIn(D, f, S) + 1
<1> DEFINE F == {u \in D : f[u] \in S}
           G == {u \in D : g[u] \in S}
<1>1. G = F \cup {t} /\ t \notin F
  OBVIOUS
<1>2. IsFiniteSet(F)
  BY FS_Subset, F \in SUBSET D
<1>3. Cardinality(G) = Cardinality(F) + 1
  BY <1>1, <1>2, FS_AddElement
<1>4. QED
  BY <1>3 DEF CountIn

\* If t leaves S and nobody else enters or leaves it, the count falls by one.
LEMMA CountDown ==
  ASSUME NEW D, IsFiniteSet(D), NEW f, NEW g, NEW S, NEW t \in D,
         f[t] \in S, g[t] \notin S,
         \A u \in D \ {t} : f[u] \in S <=> g[u] \in S
  PROVE  CountIn(D, g, S) = CountIn(D, f, S) - 1
<1>1. CountIn(D, f, S) = CountIn(D, g, S) + 1
  <2>1. \A u \in D \ {t} : g[u] \in S <=> f[u] \in S
    OBVIOUS
  <2>2. QED
    BY <2>1, CountUp
<1>2. CountIn(D, g, S) \in Nat
  BY CountNat
<1>3. QED
  BY <1>1, <1>2

\* A part is not more than the whole, and if it is as much it is the whole.
LEMMA CountSubset ==
  ASSUME NEW D, IsFiniteSet(D), NEW f, NEW S, NEW T,
         \A t \in D : f[t] \in S => f[t] \in T
  PROVE  /\ CountIn(D, f, S) <= CountIn(D, f, T)
         /\ CountIn(D, f, S) = CountIn(D, f, T)
              => \A t \in D : f[t] \in T => f[t] \in S
<1> DEFINE A == {t \in D : f[t] \in S}
           B == {t \in D : f[t] \in T}
<1>1. IsFiniteSet(B) /\ A \in SUBSET B
  BY FS_Subset, B \in SUBSET D
<1>2. /\ Cardinality(A) <= Cardinality(B)
      /\ Cardinality(B) = Cardinality(A) => A = B
  BY <1>1, FS_Subset
<1>3. QED
  BY <1>2 DEF CountIn

\* If nobody, or everybody, of D is in S.
LEMMA CountNone ==
  ASSUME NEW D, NEW f, NEW S, \A t \in D : f[t] \notin S
  PROVE  CountIn(D, f, S) = 0
<1>1. {t \in D : f[t] \in S} = {}
  OBVIOUS
<1>2. QED
  BY <1>1, FS_EmptySet DEF CountIn

LEMMA CountAll ==
  ASSUME NEW D, NEW f, NEW S, \A t \in D : f[t] \in S
  PROVE  CountIn(D, f, S) = Cardinality(D)
<1>1. {t \in D : f[t] \in S} = D
  OBVIOUS
<1>2. QED
  BY <1>1 DEF CountIn

\* A count is positive if it counts somebody.
LEMMA CountPositive ==
  ASSUME NEW D, IsFiniteSet(D), NEW f, NEW S, NEW t \in D, f[t] \in S
  PROVE  CountIn(D, f, S) > 0
<1> DEFINE F == {u \in D : f[u] \in S}
<1>1. IsFiniteSet(F) /\ F # {}
  BY FS_Subset, F \in SUBSET D
<1>2. Cardinality(F) \in Nat /\ Cardinality(F) # 0
  BY <1>1, FS_EmptySet, FS_CardinalityType
<1>3. QED
  BY <1>2 DEF CountIn

\* Everybody is either in S or in T.
LEMMA CountSplit ==
  ASSUME NEW D, IsFiniteSet(D), NEW f, NEW S, NEW T,
         \A t \in D : f[t] \in S <=> f[t] \notin T
  PROVE  CountIn(D, f, S) + CountIn(D, f, T) = Cardinality(D)
<1> DEFINE A == {t \in D : f[t] \in S}
           B == {t \in D : f[t] \in T}
<1>1. IsFiniteSet(A) /\ IsFiniteSet(B)
  BY FS_Subset, A \in SUBSET D, B \in SUBSET D
<1>2. A \cup B = D /\ A \cap B = {}
  OBVIOUS
<1>3. Cardinality(D) = Cardinality(A) + Cardinality(B) - Cardinality({})
  BY <1>1, <1>2, FS_Union
<1>4. QED
  BY <1>1, <1>3, FS_EmptySet, FS_CardinalityType DEF CountIn

\* The sizes of the sets of threads.
LEMMA ThreadSets ==
  /\ IsFiniteSet(Threads) /\ Cardinality(Threads) = N
  /\ IsFiniteSet(Generic) /\ Cardinality(Generic) = N - 1
  /\ Generic \subseteq Threads /\ Waiter \in Threads
<1>1. IsFiniteSet(Threads) /\ Cardinality(Threads) = N
  BY FS_Interval, Process4Assumption DEF Threads
<1>2. Waiter \in Threads
  BY Process4Assumption DEF Threads
<1>3. IsFiniteSet(Generic) /\ Cardinality(Generic) = N - 1
  BY <1>1, <1>2, FS_RemoveElement DEF Generic
<1>4. QED
  BY <1>1, <1>2, <1>3 DEF Generic
-----------------------------------------------------------------------------
(* The inductive invariant, action by action. *)

\* The counts an invariant speaks of are numbers.
LEMMA CountsAreNumbers ==
  ASSUME NEW f, NEW S
  PROVE  CountIn(Threads, f, S) \in Nat /\ CountIn(Generic, f, S) \in Nat
BY CountNat, ThreadSets

\* All threads are the generic ones and the waiter.
LEMMA CountWaiter ==
  ASSUME NEW f, NEW S
  PROVE  CountIn(Threads, f, S)
           = CountIn(Generic, f, S) + (IF f[Waiter] \in S THEN 1 ELSE 0)
<1> DEFINE A == {t \in Threads : f[t] \in S}
           B == {t \in Generic : f[t] \in S}
<1>1. IsFiniteSet(B)
  BY ThreadSets, FS_Subset, B \in SUBSET Generic
<1>2. A = IF f[Waiter] \in S THEN B \cup {Waiter} ELSE B
  BY ThreadSets DEF Generic
<1>3. Waiter \notin B
  BY DEF Generic
<1> HIDE DEF A, B
<1>4. Cardinality(A) = Cardinality(B) + (IF f[Waiter] \in S THEN 1 ELSE 0)
  <2>1. CASE f[Waiter] \in S
    <3>1. Cardinality(B \cup {Waiter}) = Cardinality(B) + 1
      BY <1>1, <1>3, FS_AddElement
    <3>2. QED
      BY <1>2, <2>1, <3>1
  <2>2. CASE f[Waiter] \notin S
    <3>1. A = B /\ Cardinality(B) \in Nat
      BY <1>1, <1>2, <2>2, FS_CardinalityType
    <3>2. QED
      BY <2>2, <3>1
  <2>3. QED
    BY <2>1, <2>2
<1>5. QED
  BY <1>4 DEF CountIn, A, B

\* Thread t enters or leaves S, the others stay in it or out of it.
LEMMA ThreadEnters ==
  ASSUME NEW S, NEW t \in Threads, pc[t] \notin S, pc'[t] \in S,
         \A u \in Threads \ {t} : pc[u] \in S <=> pc'[u] \in S
  PROVE  CountIn(Threads, pc', S) = CountIn(Threads, pc, S) + 1
<1>1. IsFiniteSet(Threads)
  BY ThreadSets
<1>2. QED
  BY <1>1, CountUp

LEMMA ThreadLeaves ==
  ASSUME NEW S, NEW t \in Threads, pc[t] \in S, pc'[t] \notin S,
         \A u \in Threads \ {t} : pc[u] \in S <=> pc'[u] \in S
  PROVE  CountIn(Threads, pc', S) = CountIn(Threads, pc, S) - 1
<1>1. IsFiniteSet(Threads)
  BY ThreadSets
<1>2. QED
  BY <1>1, CountDown

\* Thread t is the only one that moves.
OnlyMoves(t) == \A u \in Threads \ {t} : pc'[u] = pc[u]

\* What the move of one thread does to a count.
LEMMA MoveCount ==
  ASSUME NEW t \in Threads, OnlyMoves(t), NEW S
  PROVE  /\ (pc[t] \in S <=> pc'[t] \in S)
              => /\ CountIn(Threads, pc', S) = CountIn(Threads, pc, S)
                 /\ CountIn(Generic, pc', S) = CountIn(Generic, pc, S)
         /\ pc[t] \notin S /\ pc'[t] \in S
              => /\ CountIn(Threads, pc', S) = CountIn(Threads, pc, S) + 1
                 /\ t # Waiter => CountIn(Generic, pc', S)
                                  = CountIn(Generic, pc, S) + 1
         /\ pc[t] \in S /\ pc'[t] \notin S
              => CountIn(Threads, pc', S) = CountIn(Threads, pc, S) - 1
         /\ t = Waiter => CountIn(Generic, pc', S) = CountIn(Generic, pc, S)
<1> USE ThreadSets
<1>1. \A u \in Threads \ {t} : pc[u] \in S <=> pc'[u] \in S
  BY DEF OnlyMoves
<1>2. \A u \in Generic \ {t} : pc[u] \in S <=> pc'[u] \in S
  BY <1>1 DEF Generic
<1>3. ASSUME pc[t] \in S <=> pc'[t] \in S
      PROVE  /\ CountIn(Threads, pc', S) = CountIn(Threads, pc, S)
             /\ CountIn(Generic, pc', S) = CountIn(Generic, pc, S)
  <2>1. \A u \in Threads : pc[u] \in S <=> pc'[u] \in S
    BY <1>1, <1>3
  <2>2. \A u \in Generic : pc[u] \in S <=> pc'[u] \in S
    BY <2>1
  <2>3. QED
    BY <2>1, <2>2, CountSame
<1>4. ASSUME pc[t] \notin S, pc'[t] \in S
      PROVE  CountIn(Threads, pc', S) = CountIn(Threads, pc, S) + 1
  BY <1>1, <1>4, CountUp
<1>5. ASSUME pc[t] \notin S, pc'[t] \in S, t # Waiter
      PROVE  CountIn(Generic, pc', S) = CountIn(Generic, pc, S) + 1
  <2>1. t \in Generic
    BY <1>5 DEF Generic
  <2>2. QED
    BY <1>2, <1>5, <2>1, CountUp
<1>6. ASSUME pc[t] \in S, pc'[t] \notin S
      PROVE  CountIn(Threads, pc', S) = CountIn(Threads, pc, S) - 1
  BY <1>1, <1>6, CountDown
<1>7. ASSUME t = Waiter
      PROVE  CountIn(Generic, pc', S) = CountIn(Generic, pc, S)
  <2>1. \A u \in Generic : pc[u] \in S <=> pc'[u] \in S
    BY <1>2, <1>7 DEF Generic
  <2>2. QED
    BY <2>1, CountSame
<1>8. QED
  BY <1>3, <1>4, <1>5, <1>6, <1>7

\* What Move says of the program counters.
LEMMA MoveIs ==
  ASSUME TypeOK, NEW t \in Threads, NEW p, Move(t, p)
  PROVE  /\ OnlyMoves(t) /\ pc'[t] = p
         /\ pc' = [u \in Threads |-> IF u = t THEN p ELSE pc[u]]
BY DEF Move, MoveAndWake, OnlyMoves

\* A step in which one thread moves and stays in every set the invariant
\* counts preserves all that does not speak of types and mutexes.
LEMMA QuietStep ==
  ASSUME Process4Inv, TypeOK', MutexInv',
         NEW t \in Threads, OnlyMoves(t),
         UNCHANGED <<count_vars, main_vars>>,
         pc[t] \in Entered <=> pc'[t] \in Entered,
         pc[t] \in Counted <=> pc'[t] \in Counted,
         pc[t] \in Entering <=> pc'[t] \in Entering,
         pc[t] \in Released <=> pc'[t] \in Released,
         pc[t] \notin {"absent", "done"},
         pc'[t] \notin Asleep \cup {"absent"},
         pc'[t] \in {"quorum_end", "quorum_release"} => pc[t] = "quorum_end"
  PROVE  Process4Inv'
<1> USE ThreadSets, Process4Assumption DEF Process4Inv
<1>1. /\ CountIn(Threads, pc', Entered) = CountIn(Threads, pc, Entered)
      /\ CountIn(Threads, pc', Counted) = CountIn(Threads, pc, Counted)
      /\ CountIn(Threads, pc', Entering) = CountIn(Threads, pc, Entering)
      /\ CountIn(Generic, pc', Released) = CountIn(Generic, pc, Released)
  BY MoveCount
<1>2. \A u \in Threads : u = t \/ pc'[u] = pc[u]
  BY DEF OnlyMoves
<1>3. CountInv' /\ PermitInv'
  BY <1>1, <1>2 DEF CountInv, PermitInv, Num, WaiterReleased, count_vars,
                    TypeOK, PC, WaiterPC, Released, Entering
<1>4. QuorumInv'
  BY <1>2 DEF QuorumInv, count_vars
<1>5. SleepInv'
  <2>1. \A S \in {"enter_wait", "exit_wait"} :
          At({S})' # {} => At({S}) # {}
    BY <1>2 DEF At, Asleep
  <2>2. QED
    BY <1>1, <1>2, <2>1 DEF SleepInv, NoLostWakeup, Num, Asleep, count_vars
<1>6. MainInv'
  BY <1>2 DEF MainInv, main_vars
<1>7. QED
  BY <1>3, <1>4, <1>5, <1>6

LEMMA InitInv == Init => Process4Inv
<1> SUFFICES ASSUME Init PROVE Process4Inv
  OBVIOUS
<1> USE ThreadSets, Process4Assumption DEF Init, Threads
<1>1. TypeOK
  <2>1. main_ended \in BOOLEAN
    OBVIOUS
  <2>2. QED
    BY <2>1 DEF TypeOK, PC, GenericPC, WaiterPC, Generic, Unlocked
<1>a. MutexInv
  BY DEF MutexInv, Unlocked, HoldsOutside, HoldsWithin
<1>2. /\ CountIn(Threads, pc, Entered) = 0
      /\ CountIn(Threads, pc, Counted) = 0
      /\ CountIn(Generic, pc, Released) = 0
  BY CountNone DEF Entered, Counted, Released, Generic
<1>3. CountInv /\ PermitInv
  BY <1>2 DEF CountInv, PermitInv, Num, WaiterReleased
<1>4. QuorumInv /\ SleepInv /\ MainInv
  BY DEF QuorumInv, SleepInv, NoLostWakeup, At, MainInv
<1>5. QED
  BY <1>1, <1>a, <1>3, <1>4 DEF Process4Inv

LEMMA CreateThreadStep ==
  ASSUME Process4Inv, CreateThread PROVE Process4Inv'
<1> USE ThreadSets, Process4Assumption DEF Process4Inv
<1>0. created + 1 \in Threads
  BY DEF CreateThread, TypeOK, Threads
<1>t. PICK t \in Threads : t = created + 1
  BY <1>0
<1>1. /\ pc[t] = "absent" /\ created < N
      /\ pc' = [u \in Threads |-> IF u = t THEN "enter_lock" ELSE pc[u]]
      /\ UNCHANGED <<guard_vars, count_vars, joined, main_ended>>
      /\ created' = created + 1
  BY <1>t DEF CreateThread, Move, MoveAndWake, TypeOK, MainInv, Threads
<1>2. TypeOK' /\ MutexInv'
  BY <1>1 DEF TypeOK, MutexInv, PC, GenericPC, WaiterPC, Entering, Generic,
              guard_vars, count_vars, HoldsOutside, HoldsWithin,
              Threads
<1>3. OnlyMoves(t) /\ pc'[t] = "enter_lock"
  BY <1>1 DEF OnlyMoves, TypeOK
<1>4. CountInv' /\ PermitInv'
  <2>1. /\ CountIn(Threads, pc', Entered) = CountIn(Threads, pc, Entered)
        /\ CountIn(Threads, pc', Counted) = CountIn(Threads, pc, Counted)
        /\ CountIn(Generic, pc', Released) = CountIn(Generic, pc, Released)
    BY <1>1, <1>3, MoveCount DEF Entered, Counted, Released
  <2>2. QED
    BY <1>1, <2>1 DEF CountInv, PermitInv, Num, WaiterReleased, count_vars
<1>5. CountIn(Threads, pc', Entering) = CountIn(Threads, pc, Entering) + 1
  BY <1>1, <1>3, MoveCount DEF Entering
<1>6. QuorumInv' /\ SleepInv'
  <2>1. \A S \in {"enter_wait", "exit_wait"} :
          At({S})' # {} => At({S}) # {}
    BY <1>1 DEF At
  <2>2. QED
    BY <1>1, <1>5, <2>1, CountsAreNumbers
       DEF QuorumInv, SleepInv, NoLostWakeup, Num, count_vars, TypeOK
<1>7. MainInv'
  BY <1>1, <1>t DEF MainInv, TypeOK, Threads
<1>8. QED
  BY <1>2, <1>4, <1>6, <1>7

LEMMA JoinStep ==
  ASSUME Process4Inv, JoinThread \/ MainEnd PROVE Process4Inv'
<1> USE ThreadSets, Process4Assumption DEF Process4Inv, Threads
<1>1. UNCHANGED <<pc, guard_vars, count_vars, created>>
  BY DEF JoinThread, MainEnd
<1>2. TypeOK'
  <2>1. main_ended' \in BOOLEAN
    BY DEF JoinThread, MainEnd, TypeOK
  <2>2. joined' \in 0..N
    BY DEF JoinThread, MainEnd, TypeOK
  <2>3. QED
    BY <1>1, <2>1, <2>2 DEF TypeOK, guard_vars, count_vars
<1>3. MutexInv' /\ CountInv' /\ PermitInv' /\ QuorumInv' /\ SleepInv'
  BY <1>1 DEF MutexInv, CountInv, PermitInv, QuorumInv, SleepInv, Num, At,
              NoLostWakeup, WaiterReleased, guard_vars, count_vars
<1>4. MainInv'
  BY <1>1 DEF MainInv, JoinThread, HasEnded, MainEnd, TypeOK
<1>5. QED
  BY <1>2, <1>3, <1>4
\* Taking a mutex.
LEMMA AcquireStep ==
  ASSUME Process4Inv, NEW t \in Threads, Acquire(t) PROVE Process4Inv'
<1> USE ThreadSets, Process4Assumption DEF Process4Inv
<1>1. ASSUME NEW from, NEW to, LockOutside(t, from, to),
             <<from, to>> \in {<<"enter_lock", "enter_check">>,
                               <<"leave_lock", "leave">>}
      PROVE  Process4Inv'
  <2>1. /\ pc[t] = from /\ OnlyMoves(t) /\ pc'[t] = to
        /\ pc' = [u \in Threads |-> IF u = t THEN to ELSE pc[u]]
        /\ outside_info_guard = Unlocked /\ outside_info_guard' = t
        /\ UNCHANGED <<within_info_guard, count_vars, main_vars>>
    BY <1>1, MoveIs DEF LockOutside
  <2>2. TypeOK'
    BY <1>1, <2>1 DEF TypeOK, PC, GenericPC, WaiterPC, Entering, Generic,
                      Threads, count_vars, main_vars
  <2>3. MutexInv'
    BY <1>1, <2>1 DEF MutexInv, TypeOK, HoldsOutside, HoldsWithin, Unlocked,
                      Threads
  <2>4. QED
    BY <1>1, <2>1, <2>2, <2>3, QuietStep
       DEF Entered, Counted, Entering, Released, Asleep
<1>2. ASSUME NEW from, NEW to, LockWithin(t, from, to),
             <<from, to>> \in {<<"count_lock", "count">>,
                               <<"exit_lock", "exit_check">>,
                               <<"quorum_lock", "quorum_check">>}
      PROVE  Process4Inv'
  <2>1. /\ pc[t] = from /\ OnlyMoves(t) /\ pc'[t] = to
        /\ pc' = [u \in Threads |-> IF u = t THEN to ELSE pc[u]]
        /\ within_info_guard = Unlocked /\ within_info_guard' = t
        /\ UNCHANGED <<outside_info_guard, count_vars, main_vars>>
    BY <1>2, MoveIs DEF LockWithin
  <2>2. TypeOK'
    BY <1>2, <2>1 DEF TypeOK, PC, GenericPC, WaiterPC, Entering, Generic,
                      Threads, count_vars, main_vars
  <2>3. MutexInv'
    BY <1>2, <2>1 DEF MutexInv, TypeOK, HoldsOutside, HoldsWithin, Unlocked,
                      Threads
  <2>4. QED
    BY <1>2, <2>1, <2>2, <2>3, QuietStep
       DEF Entered, Counted, Entering, Released, Asleep
<1>3. QED
  BY <1>1, <1>2 DEF Acquire, EnterLock, CountLock, ExitLock, LeaveLock,
                    QuorumLock

\* Sending a message.
LEMMA InfoStep ==
  ASSUME Process4Inv, NEW t \in Threads,
         InfoBegin(t) \/ InfoEnd(t) \/ QuorumInfoEnd(t)
  PROVE  Process4Inv'
<1> USE ThreadSets, Process4Assumption DEF Process4Inv
<1>1. PICK from, to :
        /\ <<from, to>> \in {<<"begin", "count_lock">>,
                             <<"end", "leave_lock">>,
                             <<"quorum_end", "quorum_release">>}
        /\ pc[t] = from /\ Move(t, to)
        /\ UNCHANGED <<guard_vars, count_vars, main_vars>>
  BY DEF InfoBegin, InfoEnd, QuorumInfoEnd
<1>2. /\ OnlyMoves(t) /\ pc'[t] = to
      /\ pc' = [u \in Threads |-> IF u = t THEN to ELSE pc[u]]
  BY <1>1, MoveIs
<1>3. TypeOK'
  BY <1>1, <1>2 DEF TypeOK, PC, GenericPC, WaiterPC, Entering, Generic,
                    guard_vars, count_vars, main_vars
<1>4. MutexInv'
  BY <1>1, <1>2 DEF MutexInv, TypeOK, HoldsOutside, HoldsWithin, guard_vars
<1>5. \/ pc[t] = "begin" /\ pc'[t] = "count_lock"
      \/ pc[t] = "end" /\ pc'[t] = "leave_lock" 
      \/ pc[t] = "quorum_end" /\ pc'[t] = "quorum_release"
  BY <1>1, <1>2
<1>6. QED
  BY <1>1, <1>2, <1>3, <1>4, <1>5, QuietStep
     DEF Entered, Counted, Entering, Released, Asleep
\* The entrance: a thread sleeps only if there is no room.
LEMMA EnterCheckStep ==
  ASSUME Process4Inv, NEW t \in Threads, EnterCheck(t) PROVE Process4Inv'
<1> USE ThreadSets, Process4Assumption DEF Process4Inv
<1>1. PICK to \in {"enter_wait", "begin"} :
        /\ pc[t] = "enter_check" /\ Move(t, to) /\ UnlockOutside
        /\ to = "enter_wait"
             => /\ running_threads_without_info_count >= MAX_THREAD_COUNT
                /\ UNCHANGED running_threads_without_info_count
        /\ to = "begin"
             => /\ running_threads_without_info_count < MAX_THREAD_COUNT
                /\ running_threads_without_info_count'
                     = running_threads_without_info_count + 1
        /\ UNCHANGED <<running_threads_with_info_count,
                       number_of_threads_that_may_still_terminate, main_vars>>
  BY DEF EnterCheck, NoRoom, TypeOK
<1>2. /\ OnlyMoves(t) /\ pc'[t] = to
      /\ pc' = [u \in Threads |-> IF u = t THEN to ELSE pc[u]]
  BY <1>1, MoveIs
<1>3. TypeOK'
  BY <1>1, <1>2 DEF TypeOK, PC, GenericPC, WaiterPC, Entering, Generic,
                    UnlockOutside, Unlocked, main_vars
<1>4. MutexInv'
  BY <1>1, <1>2 DEF MutexInv, TypeOK, HoldsOutside, HoldsWithin, Unlocked,
                    UnlockOutside, Threads
<1>5. CountInv' /\ PermitInv'
  <2>1. /\ CountIn(Threads, pc', Counted) = CountIn(Threads, pc, Counted)
        /\ CountIn(Generic, pc', Released) = CountIn(Generic, pc, Released)
    BY <1>1, <1>2, MoveCount DEF Counted, Released
  <2>2. CountIn(Threads, pc', Entered)
         = CountIn(Threads, pc, Entered) + IF to = "begin" THEN 1 ELSE 0
    BY <1>1, <1>2, MoveCount, CountsAreNumbers DEF Entered, Counted
  <2>3. QED
    BY <1>1, <1>2, <2>1, <2>2
       DEF CountInv, PermitInv, Num, WaiterReleased, TypeOK
<1>6. QuorumInv'
  BY <1>1, <1>2 DEF QuorumInv, OnlyMoves
<1>7. SleepInv'
  <2>1. CountIn(Threads, pc', Entering) = CountIn(Threads, pc, Entering) - 1
    BY <1>1, <1>2, MoveCount DEF Entering
  <2>2. NoLostWakeup'
    <3>1. CASE to = "enter_wait"
      BY <1>1, <3>1, CountsAreNumbers DEF NoLostWakeup, Num, TypeOK
    <3>2. CASE to = "begin"
      <4>1. At({"enter_wait"})' # {} => At({"enter_wait"}) # {}
        BY <1>2, <3>2 DEF At
      <4>2. QED
        BY <1>1, <2>1, <3>2, <4>1, CountsAreNumbers
           DEF SleepInv, NoLostWakeup, Num, TypeOK
    <3>3. QED
      BY <3>1, <3>2
  <2>3. At({"exit_wait"})' # {} => At({"exit_wait"}) # {}
    BY <1>2 DEF At
  <2>4. QED
    BY <1>1, <1>2, <2>2, <2>3 DEF SleepInv
<1>8. MainInv'
  BY <1>1, <1>2 DEF MainInv, main_vars
<1>9. QED
  BY <1>3, <1>4, <1>5, <1>6, <1>7, <1>8

\* Counting oneself: there are never more counted threads than entered ones,
\* and T4.11 does not sleep through the last of them.
LEMMA CountStep ==
  ASSUME Process4Inv, NEW t \in Threads, Count(t) PROVE Process4Inv'
<1> USE ThreadSets, Process4Assumption DEF Process4Inv
<1>1. /\ pc[t] = "count" /\ UnlockWithin
      /\ running_threads_with_info_count' = running_threads_with_info_count + 1
      /\ UNCHANGED <<running_threads_without_info_count,
                     number_of_threads_that_may_still_terminate, main_vars>>
  BY DEF Count
<1> DEFINE to == IF t = Waiter THEN "quorum_lock" ELSE "exit_lock"
<1>2. PICK W \in SUBSET At({"quorum_wait"}) :
        /\ pc' = [u \in Threads |-> IF u = t THEN to
                                    ELSE IF u \in W THEN "quorum_lock"
                                    ELSE pc[u]]
        /\ t # Waiter /\ At({"quorum_wait"}) # {} => W # {}
  <2>1. CASE t = Waiter
    <3>1. pc' = [u \in Threads |-> IF u = t THEN to
                                  ELSE IF u \in {} THEN "quorum_lock"
                                  ELSE pc[u]]
      BY <2>1 DEF Count, Move, MoveAndWake
    <3>2. WITNESS {} \in SUBSET At({"quorum_wait"})
    <3>3. QED
      BY <2>1, <3>1
  <2>2. CASE t # Waiter
    BY <2>2 DEF Count, MoveAndWake, Signalled
  <2>3. QED
    BY <2>1, <2>2
<1>3. At({"quorum_wait"}) \subseteq {Waiter}
  BY DEF At, TypeOK, GenericPC, Entering, Generic
<1>4. \A u \in Threads :
        \/ u = t /\ pc[u] = "count" /\ pc'[u] = to
        \/ u # t /\ pc'[u] = pc[u]
        \/ u # t /\ u = Waiter /\ pc[u] = "quorum_wait" /\ pc'[u] = "quorum_lock"
  BY <1>1, <1>2, <1>3 DEF At, TypeOK
<1>5. /\ CountIn(Threads, pc', Entered) = CountIn(Threads, pc, Entered)
      /\ CountIn(Threads, pc', Entering) = CountIn(Threads, pc, Entering)
      /\ CountIn(Generic, pc', Released) = CountIn(Generic, pc, Released)
  <2>1. \A u \in Threads : /\ pc[u] \in Entered <=> pc'[u] \in Entered
                           /\ pc[u] \in Entering <=> pc'[u] \in Entering
                           /\ pc[u] \in Released <=> pc'[u] \in Released
    BY <1>4 DEF Entered, Counted, Entering, Released
  <2>2. \A u \in Generic : pc[u] \in Released <=> pc'[u] \in Released
    BY <2>1
  <2>3. QED
    BY <2>1, <2>2, CountSame
<1>6. CountIn(Threads, pc', Counted) = CountIn(Threads, pc, Counted) + 1
  <2>1. pc[t] \notin Counted /\ pc'[t] \in Counted
    BY <1>4 DEF Counted
  <2>2. \A u \in Threads \ {t} : pc[u] \in Counted <=> pc'[u] \in Counted
    BY <1>4 DEF Counted
  <2>3. QED
    BY <2>1, <2>2, ThreadEnters
<1>7. CountInv' /\ PermitInv'
  BY <1>1, <1>4, <1>5, <1>6 DEF CountInv, PermitInv, Num, WaiterReleased
<1>8. running_threads_with_info_count + 1 \in 0..MAX_THREAD_COUNT
  <2>1. \A u \in Threads : pc'[u] \in Counted => pc'[u] \in Entered
    BY DEF Entered
  <2>2. CountIn(Threads, pc', Counted) <= CountIn(Threads, pc', Entered)
    BY <2>1, CountSubset
  <2>3. QED
    BY <1>1, <1>7, <2>2, CountsAreNumbers DEF CountInv, Num, TypeOK
<1>9. TypeOK'
  BY <1>1, <1>2, <1>4, <1>8
     DEF TypeOK, PC, GenericPC, WaiterPC, Entering, Generic, UnlockWithin,
         Unlocked, main_vars
<1>10. MutexInv'
  BY <1>1, <1>4 DEF MutexInv, TypeOK, HoldsOutside, HoldsWithin, Unlocked,
                    UnlockWithin, Threads
<1>11. QuorumInv'
  \* T4.11 is not past its loop: it would hold the mutex that t holds.
  <2>1. pc[Waiter] \notin {"quorum_end", "quorum_release"}
    BY <1>1 DEF MutexInv, HoldsWithin, Threads
  <2>2. QED
    BY <1>4, <2>1 DEF QuorumInv
<1>12. SleepInv'
  <2>1. \A S \in {"enter_wait", "exit_wait"} :
          At({S})' # {} => At({S}) # {}
    BY <1>4 DEF At
  <2>2. pc'[Waiter] # "quorum_wait"
    BY <1>2, <1>3, <1>4 DEF At
  <2>3. QED
    BY <1>1, <1>5, <2>1, <2>2 DEF SleepInv, NoLostWakeup, Num
<1>13. MainInv'
  BY <1>1, <1>4 DEF MainInv, main_vars
<1>14. QED
  BY <1>7, <1>9, <1>10, <1>11, <1>12, <1>13
\* Terminating: a permit is spent, or the thread sleeps because none is left.
LEMMA ExitCheckStep ==
  ASSUME Process4Inv, NEW t \in Threads, ExitCheck(t) PROVE Process4Inv'
<1> USE ThreadSets, Process4Assumption DEF Process4Inv
<1>1. PICK to \in {"exit_wait", "end"} :
        /\ pc[t] = "exit_check" /\ Move(t, to) /\ UnlockWithin
        /\ to = "exit_wait"
             => /\ number_of_threads_that_may_still_terminate = 0
                /\ UNCHANGED <<number_of_threads_that_may_still_terminate,
                               running_threads_with_info_count>>
        /\ to = "end"
             => /\ number_of_threads_that_may_still_terminate # 0
                /\ number_of_threads_that_may_still_terminate'
                     = number_of_threads_that_may_still_terminate - 1
                /\ running_threads_with_info_count'
                     = running_threads_with_info_count - 1
        /\ UNCHANGED <<running_threads_without_info_count, main_vars>>
  BY DEF ExitCheck, MustStay
<1>2. /\ OnlyMoves(t) /\ pc'[t] = to
      /\ pc' = [u \in Threads |-> IF u = t THEN to ELSE pc[u]]
  BY <1>1, MoveIs
<1>3. t # Waiter
  BY <1>1 DEF TypeOK, WaiterPC, Entering
<1>4. CountInv' /\ PermitInv'
  <2>1. CountIn(Threads, pc', Entered) = CountIn(Threads, pc, Entered)
    BY <1>1, <1>2, MoveCount DEF Entered, Counted
  <2>2. CountIn(Threads, pc', Counted)
         = CountIn(Threads, pc, Counted) - IF to = "end" THEN 1 ELSE 0
    BY <1>1, <1>2, MoveCount, CountsAreNumbers DEF Counted
  <2>3. CountIn(Generic, pc', Released)
         = CountIn(Generic, pc, Released) + IF to = "end" THEN 1 ELSE 0
    BY <1>1, <1>2, <1>3, MoveCount, CountsAreNumbers DEF Released
  <2>4. WaiterReleased' <=> WaiterReleased
    BY <1>2, <1>3 DEF OnlyMoves, WaiterReleased
  <2>5. QED
    BY <1>1, <2>1, <2>2, <2>3, <2>4, CountsAreNumbers
       DEF CountInv, PermitInv, Num, TypeOK
<1>5. TypeOK'
  <2>1. running_threads_with_info_count' \in 0..MAX_THREAD_COUNT
    BY <1>1, <1>4, CountsAreNumbers DEF CountInv, Num, TypeOK
  <2>2. number_of_threads_that_may_still_terminate' \in 0..N
    BY <1>1 DEF TypeOK
  <2>3. QED
    BY <1>1, <1>2, <1>3, <2>1, <2>2
       DEF TypeOK, PC, GenericPC, WaiterPC, Entering, Generic, UnlockWithin,
           Unlocked, main_vars
<1>6. MutexInv'
  BY <1>1, <1>2 DEF MutexInv, TypeOK, HoldsOutside, HoldsWithin, Unlocked,
                    UnlockWithin, Threads
<1>7. QuorumInv'
  \* T4.11 is not past its loop: it would hold the mutex that t holds.
  <2>1. pc[Waiter] \notin {"quorum_end", "quorum_release"}
    BY <1>1, <1>3 DEF MutexInv, HoldsWithin, Threads
  <2>2. QED
    BY <1>2, <1>3, <2>1 DEF QuorumInv, OnlyMoves
<1>8. SleepInv'
  <2>1. CountIn(Threads, pc', Entering) = CountIn(Threads, pc, Entering)
    BY <1>1, <1>2, MoveCount DEF Entering
  <2>2. At({"enter_wait"})' # {} => At({"enter_wait"}) # {}
    BY <1>1, <1>2 DEF At
  <2>3. to = "end" => At({"exit_wait"})' = {}
    BY <1>1, <1>2 DEF At, SleepInv
  <2>4. pc'[Waiter] = pc[Waiter]
    BY <1>2, <1>3 DEF OnlyMoves
  <2>5. QED
    BY <1>1, <2>1, <2>2, <2>3, <2>4 DEF SleepInv, NoLostWakeup, Num, TypeOK
<1>9. MainInv'
  BY <1>1, <1>2 DEF MainInv, main_vars
<1>10. QED
  BY <1>4, <1>5, <1>6, <1>7, <1>8, <1>9

\* Leaving: the free place is offered to one sleeper at least, if any sleeps.
LEMMA LeaveStep ==
  ASSUME Process4Inv, NEW t \in Threads, Leave(t) PROVE Process4Inv'
<1> USE ThreadSets, Process4Assumption DEF Process4Inv
<1>1. /\ pc[t] = "leave" /\ UnlockOutside
      /\ running_threads_without_info_count'
           = running_threads_without_info_count - 1
      /\ UNCHANGED <<running_threads_with_info_count,
                     number_of_threads_that_may_still_terminate, main_vars>>
  BY DEF Leave
<1>2. PICK W \in SUBSET At({"enter_wait"}) :
        /\ MoveAndWake(t, "done", W, "enter_lock")
        /\ W = At({"enter_wait"}) \/ \E u \in W : W = {u}
  BY DEF Leave, WokenByLeaving, Signalled, Broadcast
<1>3. \A u \in Threads :
        \/ u = t /\ pc[u] = "leave" /\ pc'[u] = "done"
        \/ u # t /\ u \in W /\ pc[u] = "enter_wait" /\ pc'[u] = "enter_lock"
        \/ u # t /\ u \notin W /\ pc'[u] = pc[u]
  BY <1>1, <1>2 DEF MoveAndWake, At
<1>4. CountInv' /\ PermitInv'
  <2>1. /\ \A u \in Threads : pc[u] \in Counted <=> pc'[u] \in Counted
        /\ \A u \in Generic : pc[u] \in Released <=> pc'[u] \in Released
    BY <1>3 DEF Counted, Released
  <2>2. /\ CountIn(Threads, pc', Counted) = CountIn(Threads, pc, Counted)
        /\ CountIn(Generic, pc', Released) = CountIn(Generic, pc, Released)
    BY <2>1, CountSame
  <2>3. /\ pc[t] \in Entered /\ pc'[t] \notin Entered
        /\ \A u \in Threads \ {t} : pc[u] \in Entered <=> pc'[u] \in Entered
    BY <1>3 DEF Entered, Counted
  <2>4. CountIn(Threads, pc', Entered) = CountIn(Threads, pc, Entered) - 1
    BY <2>3, ThreadLeaves
  <2>5. WaiterReleased' <=> WaiterReleased
    BY <1>3 DEF WaiterReleased
  <2>6. QED
    BY <1>1, <2>2, <2>4, <2>5 DEF CountInv, PermitInv, Num
<1>5. TypeOK'
  <2>1. running_threads_without_info_count' \in 0..MAX_THREAD_COUNT
    BY <1>1, <1>4, CountsAreNumbers DEF CountInv, Num, TypeOK
  <2>2. pc' \in [Threads -> PC]
    BY <1>2 DEF MoveAndWake, TypeOK, PC, GenericPC, Entering
  <2>3. (\A u \in Generic : pc'[u] \in GenericPC) /\ pc'[Waiter] \in WaiterPC
    BY <1>3 DEF TypeOK, GenericPC, WaiterPC, Entering
  <2>4. QED
    BY <1>1, <2>1, <2>2, <2>3 DEF TypeOK, UnlockOutside, Unlocked, main_vars
<1>6. MutexInv'
  BY <1>1, <1>3 DEF MutexInv, TypeOK, HoldsOutside, HoldsWithin, Unlocked,
                    UnlockOutside, Threads
<1>7. QuorumInv'
  BY <1>1, <1>3 DEF QuorumInv
<1>8. NoLostWakeup'
  <2>1. CASE W = At({"enter_wait"})
    <3>1. At({"enter_wait"})' = {}
      BY <1>3, <2>1 DEF At
    <3>2. QED
      BY <3>1 DEF NoLostWakeup
  <2>2. CASE \E u \in W : W = {u}
    <3>1. PICK u \in W : W = {u}
      BY <2>2
    <3>2. /\ u \in Threads /\ pc[u] \notin Entering /\ pc'[u] \in Entering
          /\ \A v \in Threads \ {u} : pc[v] \in Entering <=> pc'[v] \in Entering
      BY <1>1, <1>3, <3>1 DEF At, Entering
    <3>3. CountIn(Threads, pc', Entering) = CountIn(Threads, pc, Entering) + 1
      BY <3>2, ThreadEnters
    <3>4. At({"enter_wait"}) # {}
      BY <3>1
    <3>5. QED
      BY <1>1, <3>3, <3>4, CountsAreNumbers
         DEF SleepInv, NoLostWakeup, Num, TypeOK
  <2>3. QED
    BY <1>2, <2>1, <2>2
<1>9. SleepInv'
  <2>1. At({"exit_wait"})' # {} => At({"exit_wait"}) # {}
    BY <1>3 DEF At
  <2>2. QED
    BY <1>1, <1>3, <1>8, <2>1 DEF SleepInv
<1>10. MainInv'
  BY <1>1, <1>3 DEF MainInv, main_vars
<1>11. QED
  BY <1>4, <1>5, <1>6, <1>7, <1>9, <1>10
\* The loop of T4.11: it goes on with the mutex, and with a full house.
LEMMA QuorumCheckStep ==
  ASSUME Process4Inv, NEW t \in Threads, QuorumCheck(t) PROVE Process4Inv'
<1> USE ThreadSets, Process4Assumption DEF Process4Inv
<1>1. PICK to \in {"quorum_wait", "quorum_end"} :
        /\ pc[t] = "quorum_check" /\ Move(t, to)
        /\ to = "quorum_wait"
             => /\ running_threads_with_info_count < MAX_THREAD_COUNT
                /\ UnlockWithin
        /\ to = "quorum_end"
             => /\ running_threads_with_info_count >= MAX_THREAD_COUNT
                /\ UNCHANGED guard_vars
        /\ UNCHANGED <<count_vars, main_vars>>
  BY DEF QuorumCheck, HouseFull, TypeOK
<1>2. /\ OnlyMoves(t) /\ pc'[t] = to
      /\ pc' = [u \in Threads |-> IF u = t THEN to ELSE pc[u]]
  BY <1>1, MoveIs
<1>3. t = Waiter
  BY <1>1 DEF TypeOK, GenericPC, Entering, Generic
<1>4. TypeOK'
  BY <1>1, <1>2, <1>3
     DEF TypeOK, PC, GenericPC, WaiterPC, Entering, Generic, UnlockWithin,
         Unlocked, guard_vars, count_vars, main_vars
<1>5. MutexInv'
  BY <1>1, <1>2 DEF MutexInv, TypeOK, HoldsOutside, HoldsWithin, Unlocked,
                    UnlockWithin, guard_vars, Threads
<1>6. /\ CountIn(Threads, pc', Entered) = CountIn(Threads, pc, Entered)
      /\ CountIn(Threads, pc', Counted) = CountIn(Threads, pc, Counted)
      /\ CountIn(Threads, pc', Entering) = CountIn(Threads, pc, Entering)
      /\ CountIn(Generic, pc', Released) = CountIn(Generic, pc, Released)
  BY <1>1, <1>2, MoveCount DEF Entered, Counted, Entering, Released
<1>7. CountInv' /\ PermitInv'
  BY <1>1, <1>2, <1>3, <1>6
     DEF CountInv, PermitInv, Num, WaiterReleased, count_vars
<1>8. QuorumInv'
  BY <1>1, <1>2, <1>3 DEF QuorumInv, TypeOK, count_vars
<1>9. SleepInv'
  <2>1. \A S \in {"enter_wait", "exit_wait"} :
          At({S})' # {} => At({S}) # {}
    BY <1>1, <1>2 DEF At
  <2>2. QED
    BY <1>1, <1>2, <1>3, <1>6, <2>1
       DEF SleepInv, NoLostWakeup, Num, count_vars
<1>10. MainInv'
  BY <1>1, <1>2 DEF MainInv, main_vars
<1>11. QED
  BY <1>4, <1>5, <1>7, <1>8, <1>9, <1>10

\* T4.11 hands out the permits that were held back, and wakes everybody.
LEMMA QuorumReleaseStep ==
  ASSUME Process4Inv, NEW t \in Threads, QuorumRelease(t) PROVE Process4Inv'
<1> USE ThreadSets, Process4Assumption DEF Process4Inv
<1>1. /\ pc[t] = "quorum_release" /\ UnlockWithin
      /\ running_threads_with_info_count' = running_threads_with_info_count - 1
      /\ number_of_threads_that_may_still_terminate' =
           number_of_threads_that_may_still_terminate + (MAX_THREAD_COUNT - 1)
      /\ MoveAndWake(t, "leave_lock", At({"exit_wait"}), "exit_lock")
      /\ UNCHANGED <<running_threads_without_info_count, main_vars>>
  BY DEF QuorumRelease, Broadcast
<1>2. t = Waiter
  BY <1>1 DEF TypeOK, GenericPC, Entering, Generic
<1>3. \A u \in Threads :
        \/ u = t /\ pc[u] = "quorum_release" /\ pc'[u] = "leave_lock"
        \/ u # t /\ pc[u] = "exit_wait" /\ pc'[u] = "exit_lock"
        \/ u # t /\ pc[u] # "exit_wait" /\ pc'[u] = pc[u]
  BY <1>1 DEF MoveAndWake, At
<1>4. /\ CountIn(Threads, pc', Entered) = CountIn(Threads, pc, Entered)
      /\ CountIn(Threads, pc', Entering) = CountIn(Threads, pc, Entering)
      /\ CountIn(Generic, pc', Released) = CountIn(Generic, pc, Released)
  <2>1. \A u \in Threads : /\ pc[u] \in Entered <=> pc'[u] \in Entered
                           /\ pc[u] \in Entering <=> pc'[u] \in Entering
    BY <1>3 DEF Entered, Counted, Entering
  <2>2. \A u \in Generic : pc[u] \in Released <=> pc'[u] \in Released
    BY <1>2, <1>3 DEF Released, Generic
  <2>3. QED
    BY <2>1, <2>2, CountSame
<1>5. CountIn(Threads, pc', Counted) = CountIn(Threads, pc, Counted) - 1
  <2>1. /\ pc[t] \in Counted /\ pc'[t] \notin Counted
        /\ \A u \in Threads \ {t} : pc[u] \in Counted <=> pc'[u] \in Counted
    BY <1>3 DEF Counted
  <2>2. QED
    BY <2>1, ThreadLeaves
<1>6. CountInv'
  BY <1>1, <1>4, <1>5 DEF CountInv, Num
<1>7. PermitInv'
  <2>1. ~WaiterReleased /\ WaiterReleased'
    BY <1>2, <1>3 DEF WaiterReleased
  <2>2. QED
    BY <1>1, <1>4, <2>1, CountsAreNumbers DEF PermitInv, TypeOK
<1>8. TypeOK'
  <2>1. running_threads_with_info_count' \in 0..MAX_THREAD_COUNT
    BY <1>1, <1>6, CountsAreNumbers DEF CountInv, Num, TypeOK
  <2>2. number_of_threads_that_may_still_terminate' \in 0..N
    BY <1>1, <1>7, CountsAreNumbers DEF PermitInv, TypeOK
  <2>3. pc' \in [Threads -> PC]
    BY <1>1 DEF MoveAndWake, TypeOK, PC, GenericPC
  <2>4. (\A u \in Generic : pc'[u] \in GenericPC) /\ pc'[Waiter] \in WaiterPC
    BY <1>2, <1>3 DEF TypeOK, GenericPC, WaiterPC, Generic
  <2>5. QED
    BY <1>1, <2>1, <2>2, <2>3, <2>4
       DEF TypeOK, UnlockWithin, Unlocked, main_vars
<1>9. MutexInv'
  BY <1>1, <1>3 DEF MutexInv, TypeOK, HoldsOutside, HoldsWithin, Unlocked,
                    UnlockWithin, Threads
<1>10. QuorumInv'
  BY <1>2, <1>3 DEF QuorumInv
<1>11. SleepInv'
  <2>1. At({"exit_wait"})' = {} /\ At({"enter_wait"})' = At({"enter_wait"})
    BY <1>3 DEF At
  <2>2. QED
    BY <1>1, <1>2, <1>3, <1>4, <2>1 DEF SleepInv, NoLostWakeup, Num
<1>12. MainInv'
  BY <1>1, <1>3 DEF MainInv, main_vars
<1>13. QED
  BY <1>6, <1>7, <1>8, <1>9, <1>10, <1>11, <1>12

\* A wake-up without a signal: the thread re-evaluates its condition.
LEMMA SpuriousWakeStep ==
  ASSUME Process4Inv, NEW t \in Threads, SpuriousWake(t) PROVE Process4Inv'
<1> USE ThreadSets, Process4Assumption DEF Process4Inv
<1>1. PICK from, to :
        /\ <<from, to>> \in {<<"enter_wait", "enter_lock">>,
                             <<"exit_wait", "exit_lock">>,
                             <<"quorum_wait", "quorum_lock">>}
        /\ pc[t] = from /\ Move(t, to)
        /\ UNCHANGED <<guard_vars, count_vars, main_vars>>
  BY DEF SpuriousWake
<1>2. /\ OnlyMoves(t) /\ pc'[t] = to
      /\ pc' = [u \in Threads |-> IF u = t THEN to ELSE pc[u]]
  BY <1>1, MoveIs
<1>3. TypeOK'
  BY <1>1, <1>2 DEF TypeOK, PC, GenericPC, WaiterPC, Entering, Generic,
                    guard_vars, count_vars, main_vars
<1>4. MutexInv'
  BY <1>1, <1>2 DEF MutexInv, TypeOK, HoldsOutside, HoldsWithin, guard_vars
<1>5. /\ CountIn(Threads, pc', Entered) = CountIn(Threads, pc, Entered)
      /\ CountIn(Threads, pc', Counted) = CountIn(Threads, pc, Counted)
      /\ CountIn(Generic, pc', Released) = CountIn(Generic, pc, Released)
  BY <1>1, <1>2, MoveCount DEF Entered, Counted, Released
<1>6. CountIn(Threads, pc', Entering) >= CountIn(Threads, pc, Entering)
  <2>1. \/ pc[t] \in Entering <=> pc'[t] \in Entering
        \/ pc[t] \notin Entering /\ pc'[t] \in Entering
    BY <1>1, <1>2 DEF Entering
  <2>2. QED
    BY <1>2, <2>1, MoveCount, CountsAreNumbers
<1>7. CountInv' /\ PermitInv'
  BY <1>1, <1>2, <1>5
     DEF CountInv, PermitInv, Num, WaiterReleased, count_vars, OnlyMoves
<1>8. QuorumInv'
  BY <1>1, <1>2 DEF QuorumInv, count_vars
<1>9. SleepInv'
  <2>1. \A S \in {"enter_wait", "exit_wait"} :
          At({S})' # {} => At({S}) # {}
    BY <1>1, <1>2 DEF At
  <2>2. QED
    BY <1>1, <1>2, <1>6, <2>1, CountsAreNumbers
       DEF SleepInv, NoLostWakeup, Num, TypeOK, count_vars
<1>10. MainInv'
  BY <1>1, <1>2 DEF MainInv, main_vars
<1>11. QED
  BY <1>3, <1>4, <1>7, <1>8, <1>9, <1>10

LEMMA StutterStep ==
  ASSUME Process4Inv, UNCHANGED vars PROVE Process4Inv'
BY DEF Process4Inv, TypeOK, MutexInv, CountInv, PermitInv, QuorumInv,
       SleepInv, NoLostWakeup, MainInv, WaiterReleased, At, Num, vars,
       guard_vars, count_vars, main_vars

LEMMA NextStep == Process4Inv /\ [Next]_vars => Process4Inv'
<1> SUFFICES ASSUME Process4Inv, [Next]_vars PROVE Process4Inv'
  OBVIOUS
<1>1. CASE Main
  BY <1>1, CreateThreadStep, JoinStep DEF Main
<1>2. ASSUME NEW t \in Threads, Acquire(t) PROVE Process4Inv'
  BY <1>2, AcquireStep
<1>3. ASSUME NEW t \in Threads, Proceed(t) PROVE Process4Inv'
  BY <1>3, EnterCheckStep, InfoStep, CountStep, ExitCheckStep, LeaveStep,
     QuorumCheckStep, QuorumReleaseStep DEF Proceed
<1>4. ASSUME NEW t \in Threads, SpuriousWake(t) PROVE Process4Inv'
  BY <1>4, SpuriousWakeStep
<1>5. CASE UNCHANGED vars
  BY <1>5, StutterStep
<1>6. QED
  BY <1>1, <1>2, <1>3, <1>4, <1>5 DEF Next, Terminated
-----------------------------------------------------------------------------
(* The theorems. *)

\* The invariant holds of P4 with any number of threads, whatever the
\* interleaving: pthread_mutex, the counters and the permits agree.
THEOREM Process4Invariance == Spec => []Process4Inv
BY InitInv, NextStep, PTL DEF Spec
\* Every thread between its BEGIN and its END is past the entrance.
LEMMA RunningEntered ==
  ASSUME Process4Inv PROVE AtMostMaxRunning
<1>1. \A t \in Threads : pc[t] \in Running => pc[t] \in Entered
  BY DEF Running, Entered, Counted
<1>2. CountIn(Threads, pc, Running) <= CountIn(Threads, pc, Entered)
  BY <1>1, CountSubset, ThreadSets
<1>3. QED
  BY <1>2, CountsAreNumbers, Process4Assumption
     DEF AtMostMaxRunning, Process4Inv, CountInv, Num, TypeOK

\* If as many threads are counted as may be past the entrance, nobody is past
\* the entrance and not counted: nobody is about to begin or about to end.
LEMMA FullHouse ==
  ASSUME Process4Inv PROVE WaiterEndsInFullHouse
<1> SUFFICES ASSUME pc[Waiter] = "quorum_end"
             PROVE  Num(Running) = MAX_THREAD_COUNT
  BY DEF WaiterEndsInFullHouse
<1> USE ThreadSets, CountsAreNumbers DEF Process4Inv
<1>1. CountIn(Threads, pc, Counted) = MAX_THREAD_COUNT
  BY DEF QuorumInv, CountInv, Num
<1>2. \A t \in Threads : pc[t] \in Counted => pc[t] \in Running
  <2>1. \A t \in Threads : pc[t] # "quorum_release"
    BY DEF TypeOK, GenericPC, Entering, Generic
  <2>2. QED
    BY <2>1 DEF Counted, Running
<1>3. CountIn(Threads, pc, Counted) <= CountIn(Threads, pc, Running)
  BY <1>2, CountSubset
<1>4. CountIn(Threads, pc, Running) <= MAX_THREAD_COUNT
  BY RunningEntered DEF AtMostMaxRunning, Num
<1>5. QED
  BY <1>1, <1>3, <1>4, Process4Assumption DEF Num

\* Suppose all threads sleep or are done.  Not all permits are there (or no
\* generic thread would sleep at its exit), so either T4.11 has ended and there
\* are permits for everybody, or exactly MAX_THREAD_COUNT - 1 generic threads
\* are left: with T4.11 past the entrance the house is full.
LEMMA SomebodyAwake ==
  ASSUME Process4Inv PROVE NeverAllAsleep
<1> SUFFICES ASSUME created = N,
                    NEW t \in Threads, pc[t] # "done",
                    \A u \in Threads : pc[u] \in Asleep \cup {"done"}
             PROVE  FALSE
  BY DEF NeverAllAsleep
<1> USE ThreadSets, Process4Assumption DEF Process4Inv
<1> DEFINE c == CountIn(Generic, pc, Counted)
           r == CountIn(Generic, pc, Released)
           left == CountIn(Generic, pc, Counted \cup {"enter_wait"})
<1>1. c \in Nat /\ r \in Nat /\ left \in Nat
  BY CountsAreNumbers
<1>2. /\ pc[Waiter] \in {"enter_wait", "quorum_wait", "done"}
      /\ \A u \in Generic : pc[u] \in {"enter_wait", "exit_wait", "done"}
  BY DEF TypeOK, WaiterPC, GenericPC, Entering, Asleep, Generic
<1>3. left + r = N - 1 /\ c <= left
  <2>1. \A u \in Generic :
          pc[u] \in Counted \cup {"enter_wait"} <=> pc[u] \notin Released
    BY <1>2 DEF Counted, Released
  <2>2. \A u \in Generic :
          pc[u] \in Counted => pc[u] \in Counted \cup {"enter_wait"}
    OBVIOUS
  <2>3. left + r = Cardinality(Generic)
    BY <2>1, CountSplit
  <2>4. c <= left
    BY <2>2, CountSubset
  <2>5. QED
    BY <2>3, <2>4
\* Everybody past the entrance is counted, and nobody is on the way there.
<1>4. /\ running_threads_with_info_count
            = c + (IF pc[Waiter] = "quorum_wait" THEN 1 ELSE 0)
      /\ running_threads_without_info_count = running_threads_with_info_count
  <2>1. pc[Waiter] \in Counted <=> pc[Waiter] = "quorum_wait"
    BY <1>2 DEF Counted
  <2>2. \A u \in Threads : pc[u] \in Entered <=> pc[u] \in Counted
    BY DEF Entered, Counted, Asleep
  <2>3. At(Entered) = At(Counted)
    BY <2>2 DEF At
  <2>4. Num(Entered) = Num(Counted)
    BY <2>3 DEF Num, CountIn, At
  <2>5. QED
    BY <2>1, <2>4, CountWaiter DEF CountInv, Num
<1>5. Num(Entering) = 0
  <2>1. \A u \in Threads : pc[u] \notin Entering
    BY DEF Entering, Asleep
  <2>2. QED
    BY <2>1, CountNone DEF Num
<1>6. WaiterReleased <=> pc[Waiter] = "done"
  BY <1>2 DEF WaiterReleased
<1>7. pc[Waiter] = "quorum_wait" => running_threads_with_info_count < MAX_THREAD_COUNT
  BY DEF SleepInv
<1>8. c > 0 => /\ number_of_threads_that_may_still_terminate = 0
               /\ r = (N - MAX_THREAD_COUNT)
                      + (IF pc[Waiter] = "done" THEN MAX_THREAD_COUNT - 1 ELSE 0)
  <2>1. SUFFICES ASSUME c > 0
                 PROVE  number_of_threads_that_may_still_terminate = 0
    BY <1>1, <1>6 DEF PermitInv, TypeOK
  <2>2. PICK u \in Generic : pc[u] \in Counted
    <3>1. (\A u \in Generic : pc[u] \notin Counted) => c = 0
      BY CountNone
    <3>2. QED
      BY <2>1, <3>1
  <2>3. pc[u] = "exit_wait"
    BY <1>2, <2>2 DEF Counted
  <2>4. QED
    BY <2>3 DEF SleepInv, At
<1>9. CASE At({"enter_wait"}) # {}
  <2>1. running_threads_with_info_count = MAX_THREAD_COUNT
    BY <1>4, <1>5, <1>9 DEF SleepInv, NoLostWakeup, TypeOK
  <2>2. c = MAX_THREAD_COUNT /\ pc[Waiter] # "quorum_wait"
    BY <1>1, <1>4, <1>7, <2>1
  <2>3. QED
    BY <1>1, <1>3, <1>8, <2>2
<1>10. CASE At({"enter_wait"}) = {}
  <2>1. \A u \in Threads : pc[u] # "enter_wait"
    BY <1>10 DEF At
  <2>2. left = c
    <3>1. {u \in Generic : pc[u] \in Counted \cup {"enter_wait"}}
            = {u \in Generic : pc[u] \in Counted}
      BY <2>1
    <3>2. QED
      BY <3>1 DEF CountIn
  <2>3. CASE c > 0
    \* T4.11 done: permits for all.  T4.11 waiting: the house is full.
    BY <1>1, <1>2, <1>3, <1>4, <1>7, <1>8, <2>1, <2>2, <2>3
  <2>4. CASE c = 0
    \* All generic threads are done, with more permits than T4.11 left them.
    <3>1. \A u \in Generic : pc[u] # "exit_wait"
      BY <2>4, CountPositive DEF Counted
    <3>2. pc[Waiter] = "quorum_wait"
      BY <1>2, <2>1, <3>1 DEF Generic
    <3>3. number_of_threads_that_may_still_terminate = 1 - MAX_THREAD_COUNT
      BY <1>1, <1>3, <1>6, <2>2, <2>4, <3>2 DEF PermitInv, TypeOK
    <3>4. QED
      BY <1>4, <1>7, <2>4, <3>2, <3>3 DEF TypeOK
  <2>5. QED
    BY <1>1, <2>3, <2>4
<1>11. QED
  BY <1>9, <1>10

\* No more than MAX_THREAD_COUNT threads between BEGIN and END.
THEOREM AtMostMaxRunningHolds == Spec => []AtMostMaxRunning
BY Process4Invariance, RunningEntered, PTL

\* T4.11 ends in a full house.
THEOREM FullHouseHolds == Spec => []WaiterEndsInFullHouse
BY Process4Invariance, FullHouse, PTL

\* P4 never gets stuck: as long as a thread is not done, some thread is awake.
THEOREM NeverAllAsleepHolds == Spec => []NeverAllAsleep
BY Process4Invariance, SomebodyAwake, PTL

\* No free place at the entrance is forgotten while somebody sleeps there.
THEOREM NoLostWakeupHolds == Spec => []NoLostWakeup
<1>1. Process4Inv => NoLostWakeup
  BY DEF Process4Inv, SleepInv
<1>2. QED
  BY <1>1, Process4Invariance, PTL

\* When process_4() returns, no thread uses its stack.
THEOREM StackOutlivesThreadsHolds == Spec => []StackOutlivesThreads
<1>1. Process4Inv => StackOutlivesThreads
  BY DEF Process4Inv, MainInv, StackOutlivesThreads, Threads
<1>2. QED
  BY <1>1, Process4Invariance, PTL

\* Types, in particular that no counter leaves its bounds.
THEOREM TypeCorrect == Spec => []TypeOK
<1>1. Process4Inv => TypeOK
  BY DEF Process4Inv
<1>2. QED
  BY <1>1, Process4Invariance, PTL

-----------------------------------------------------------------------------
(* Process4 implements ThreadBarrier: an info() call is a step of the      *)
(* barrier, every other step of P4 is invisible to it.  (That it also      *)
(* implements the barrier's fairness is checked by TLC.)  And it keeps     *)
(* enough threads for the barrier to be filled.                            *)

\* What the tester sees of every thread.
bar == [t \in Threads |-> StatusOf(t)]

LEMMA StatusOfThread ==
  ASSUME Process4Inv, NEW t \in Threads
  PROVE  /\ bar[t] = "idle"
              <=> pc[t] \in {"absent", "enter_wait", "begin"} \cup Entering
         /\ bar[t] = "running" <=> pc[t] \in Running
         /\ bar[t] = "ended"
              <=> pc[t] \in {"quorum_release", "leave_lock", "leave", "done"}
BY DEF bar, StatusOf, Process4Inv, TypeOK, PC, GenericPC, WaiterPC, Entering,
       Running

\* Steps without a message.
LEMMA SilentStep ==
  ASSUME Process4Inv, Process4Inv', [Next]_vars,
         ~(\E t \in Threads : InfoBegin(t) \/ InfoEnd(t) \/ QuorumInfoEnd(t))
  PROVE  bar' = bar
<1> USE DEF Process4Inv
<1>1. SUFFICES ASSUME NEW u \in Threads PROVE StatusOf(u)' = StatusOf(u)
  BY DEF bar
<1>2. CASE UNCHANGED pc
  BY <1>2 DEF StatusOf
<1>3. CASE CreateThread
  <2>1. pc[created + 1] = "absent"
    BY <1>3 DEF CreateThread, MainInv, TypeOK, Threads
  <2>2. pc'[u] = pc[u] \/ (pc[u] = "absent" /\ pc'[u] = "enter_lock")
    BY <1>3, <2>1 DEF CreateThread, Move, MoveAndWake
  <2>3. QED
    BY <2>2 DEF StatusOf, Entering, Running
<1>4. ASSUME NEW t \in Threads, Acquire(t)
      PROVE  StatusOf(u)' = StatusOf(u)
  BY <1>4 DEF Acquire, EnterLock, CountLock, ExitLock, LeaveLock, QuorumLock,
              LockOutside, LockWithin, Move, MoveAndWake, StatusOf, Entering,
              Running
<1>5. ASSUME NEW t \in Threads, EnterCheck(t) \/ QuorumCheck(t)
      PROVE  StatusOf(u)' = StatusOf(u)
  BY <1>5 DEF EnterCheck, QuorumCheck, Move, MoveAndWake, StatusOf, Entering,
              Running
<1>6. ASSUME NEW t \in Threads, Count(t)
      PROVE  StatusOf(u)' = StatusOf(u)
  <2>1. pc'[u] = pc[u] \/ {pc[u], pc'[u]} \subseteq Running
    BY <1>6 DEF Count, Signalled, At, Move, MoveAndWake, Running
  <2>2. QED
    BY <2>1 DEF StatusOf, Running, Entering
<1>7. ASSUME NEW t \in Threads, ExitCheck(t)
      PROVE  StatusOf(u)' = StatusOf(u)
  BY <1>7 DEF ExitCheck, Move, MoveAndWake, StatusOf, Entering, Running
<1>8. ASSUME NEW t \in Threads, Leave(t)
      PROVE  StatusOf(u)' = StatusOf(u)
  <2>1. \/ pc'[u] = pc[u]
        \/ pc[u] = "leave" /\ pc'[u] = "done"
        \/ pc[u] = "enter_wait" /\ pc'[u] = "enter_lock"
    BY <1>8 DEF Leave, WokenByLeaving, Signalled, Broadcast, At, MoveAndWake
  <2>2. QED
    BY <2>1 DEF StatusOf, Running, Entering
<1>9. ASSUME NEW t \in Threads, QuorumRelease(t)
      PROVE  StatusOf(u)' = StatusOf(u)
  BY <1>9 DEF QuorumRelease, Broadcast, At, MoveAndWake, StatusOf, Entering, Running
<1>10. ASSUME NEW t \in Threads, SpuriousWake(t)
       PROVE  StatusOf(u)' = StatusOf(u)
  BY <1>10 DEF SpuriousWake, Move, MoveAndWake, StatusOf, Entering, Running
<1>11. QED
  BY <1>2, <1>3, <1>4, <1>5, <1>6, <1>7, <1>8, <1>9, <1>10
     DEF Next, Main, JoinThread, MainEnd, Proceed, Terminated, vars

\* The instance of the barrier brings its own name of Cardinality.
LEMMA SameCardinality ==
  ASSUME NEW S PROVE Barrier!Cardinality(S) = Cardinality(S)
BY DEF Barrier!Cardinality, Cardinality

\* The threads between BEGIN and END are those the barrier counts.
LEMMA BetweenIsRunning ==
  ASSUME Process4Inv PROVE Cardinality(Barrier!Between) = Num(Running)
<1>1. Barrier!Between = {t \in Threads : pc[t] \in Running}
  BY StatusOfThread DEF Barrier!Between, bar
<1>2. QED
  BY <1>1 DEF Num, CountIn

\* BEGIN: there is room for one more, since there is room for it afterwards.
LEMMA BeginStep ==
  ASSUME Process4Inv, Process4Inv', NEW t \in Threads, InfoBegin(t)
  PROVE  Barrier!Begin(t)
<1> USE DEF Process4Inv
<1>1. /\ pc[t] = "begin" /\ OnlyMoves(t) /\ pc'[t] = "count_lock"
      /\ pc' = [u \in Threads |-> IF u = t THEN "count_lock" ELSE pc[u]]
  BY MoveIs DEF InfoBegin
<1>2. Num(Running)' = Num(Running) + 1
  BY <1>1, MoveCount DEF Num, Running
<1>3. Num(Running)' <= MAX_THREAD_COUNT
  <2>1. AtMostMaxRunning'
    <3>1. \A u \in Threads : pc'[u] \in Running => pc'[u] \in Entered
      BY DEF Running, Entered, Counted
    <3>2. CountIn(Threads, pc', Running) <= CountIn(Threads, pc', Entered)
      BY <3>1, CountSubset, ThreadSets
    <3>3. QED
      BY <3>2, CountsAreNumbers, Process4Assumption
         DEF AtMostMaxRunning, CountInv, Num, TypeOK
  <2>2. QED
    BY <2>1 DEF AtMostMaxRunning
<1>4. Cardinality(Barrier!Between) < MAX_THREAD_COUNT
  BY <1>2, <1>3, BetweenIsRunning, CountsAreNumbers, Process4Assumption DEF Num
<1>5. bar[t] = "idle"
  BY <1>1, StatusOfThread
<1>6. bar' = [bar EXCEPT ![t] = "running"]
  BY <1>1 DEF bar, StatusOf, Running, Entering
<1>7. QED
  BY <1>4, <1>5, <1>6, SameCardinality DEF Barrier!Begin, bar

\* END of a generic thread: the permits say that enough threads are left.
LEMMA EndStep ==
  ASSUME Process4Inv, Process4Inv', NEW t \in Threads, InfoEnd(t)
  PROVE  Barrier!End(t)
<1> USE ThreadSets DEF Process4Inv
<1> DEFINE Ended == {"leave_lock", "leave", "done"}
<1>1. /\ pc[t] = "end" /\ OnlyMoves(t) /\ pc'[t] = "leave_lock" /\ t # Waiter
      /\ pc' = [u \in Threads |-> IF u = t THEN "leave_lock" ELSE pc[u]]
      /\ UNCHANGED number_of_threads_that_may_still_terminate
  BY MoveIs DEF InfoEnd, TypeOK, WaiterPC, Entering, count_vars
<1>2. ASSUME bar[Waiter] # "ended"
      PROVE  Cardinality(Barrier!Unfinished) >= MAX_THREAD_COUNT
  <2>1. ~WaiterReleased
    BY <1>2, StatusOfThread DEF WaiterReleased
  <2>2. CountIn(Generic, pc, Released) <= N - MAX_THREAD_COUNT
    BY <2>1, CountsAreNumbers, Process4Assumption DEF PermitInv, TypeOK
  <2>3. CountIn(Generic, pc', Ended) = CountIn(Generic, pc, Ended) + 1
    BY <1>1, MoveCount
  <2>4. CountIn(Generic, pc', Ended) <= CountIn(Generic, pc', Released)
    <3>1. \A u \in Generic : pc'[u] \in Ended => pc'[u] \in Released
      BY DEF Released
    <3>2. QED
      BY <3>1, CountSubset
  <2>5. CountIn(Generic, pc', Released) = CountIn(Generic, pc, Released)
    BY <1>1, MoveCount DEF Released
  <2>6. Barrier!Unfinished = {u \in Generic : pc[u] \in PC \ Ended}
    <3>1. \A u \in Generic : bar[u] # "ended" <=> pc[u] \in PC \ Ended
      BY StatusOfThread DEF TypeOK, GenericPC, Entering, Generic
    <3>2. QED
      BY <3>1 DEF Barrier!Unfinished, Generic, bar
  <2>7. CountIn(Generic, pc, PC \ Ended) + CountIn(Generic, pc, Ended) = N - 1
    <3>1. \A u \in Generic : pc[u] \in PC \ Ended <=> pc[u] \notin Ended
      BY DEF TypeOK, Generic
    <3>2. CountIn(Generic, pc, PC \ Ended) + CountIn(Generic, pc, Ended)
            = Cardinality(Generic)
      BY <3>1, CountSplit
    <3>3. QED
      BY <3>2
  <2> HIDE DEF Ended
  <2>8. Cardinality(Barrier!Unfinished) >= MAX_THREAD_COUNT
    <3>1. Cardinality(Barrier!Unfinished) = CountIn(Generic, pc, PC \ Ended)
      BY <2>6 DEF CountIn
    <3>2. QED
      BY <3>1, <2>2, <2>3, <2>4, <2>5, <2>7, CountsAreNumbers,
         Process4Assumption
  <2>9. QED
    BY <2>8
<1>3. bar[t] = "running"
  BY <1>1, StatusOfThread DEF Running
<1>4. bar' = [bar EXCEPT ![t] = "ended"]
  BY <1>1 DEF bar, StatusOf, Running, Entering
<1>5. bar[Waiter] = "ended" \/ Cardinality(Barrier!Unfinished) >= MAX_THREAD_COUNT
  BY <1>2
<1>6. QED
  BY <1>1, <1>3, <1>4, <1>5, SameCardinality DEF Barrier!End, bar

\* END of T4.11: the house is full.
LEMMA EndWaiterStep ==
  ASSUME Process4Inv, NEW t \in Threads, QuorumInfoEnd(t)
  PROVE  Barrier!EndWaiter
<1> USE ThreadSets DEF Process4Inv
<1>1. /\ pc[t] = "quorum_end" /\ t = Waiter
      /\ pc' = [u \in Threads |-> IF u = t THEN "quorum_release" ELSE pc[u]]
  BY MoveIs DEF QuorumInfoEnd, TypeOK, GenericPC, Entering, Generic
<1>2. Cardinality(Barrier!Between) = MAX_THREAD_COUNT
  BY <1>1, FullHouse, BetweenIsRunning DEF WaiterEndsInFullHouse
<1>3. bar[Waiter] = "running"
  BY <1>1, StatusOfThread DEF Running
<1>4. bar' = [bar EXCEPT ![Waiter] = "ended"]
  BY <1>1 DEF bar, StatusOf, Running, Entering
<1>5. QED
  BY <1>2, <1>3, <1>4, SameCardinality DEF Barrier!EndWaiter, bar

\* Every behaviour of P4, seen through its messages, is one of the barrier.
THEOREM Refinement == Spec => ImplementsBarrier
<1>1. Init => Barrier!Init
  BY DEF Init, Barrier!Init, StatusOf
<1>2. ASSUME Process4Inv, Process4Inv', [Next]_vars
      PROVE  [Barrier!Next]_bar
  <2>1. ASSUME NEW t \in Threads, InfoBegin(t) PROVE Barrier!Next
    BY <1>2, <2>1, BeginStep DEF Barrier!Next
  <2>2. ASSUME NEW t \in Threads, InfoEnd(t) PROVE Barrier!Next
    BY <1>2, <2>2, EndStep DEF Barrier!Next
  <2>3. ASSUME NEW t \in Threads, QuorumInfoEnd(t) PROVE Barrier!Next
    BY <1>2, <2>3, EndWaiterStep DEF Barrier!Next
  <2>4. QED
    BY <1>2, <2>1, <2>2, <2>3, SilentStep
<1>3. ASSUME Process4Inv, Process4Inv', [Next]_vars
      PROVE  [Barrier!Next]_[t \in Threads |-> StatusOf(t)]
  BY <1>2, <1>3 DEF bar
<1>4. QED
  BY <1>1, <1>3, Process4Invariance, PTL
     DEF Spec, ImplementsBarrier, Barrier!Spec

\* Before T4.11 has released its mutex N - MAX_THREAD_COUNT threads have been let
\* go at most, and nobody ends without being let go.
LEMMA PermitsLeaveEnough ==
  ASSUME Process4Inv, bar[Waiter] # "ended"
  PROVE  Cardinality(Barrier!Unfinished) >= MAX_THREAD_COUNT - 1
<1> USE ThreadSets DEF Process4Inv
<1> DEFINE Ended == {"leave_lock", "leave", "done"}
<1>1. CountIn(Generic, pc, Released) <= N - MAX_THREAD_COUNT
  <2>1. ~WaiterReleased
    BY StatusOfThread DEF WaiterReleased
  <2> QED
    BY <2>1, CountsAreNumbers, Process4Assumption DEF PermitInv, TypeOK
<1>2. CountIn(Generic, pc, Ended) <= CountIn(Generic, pc, Released)
  <2>1. \A u \in Generic : pc[u] \in Ended => pc[u] \in Released
    BY DEF Released
  <2> QED
    BY <2>1, CountSubset
<1>3. Barrier!Unfinished = {u \in Generic : pc[u] \in PC \ Ended}
  <2>1. \A u \in Generic : bar[u] # "ended" <=> pc[u] \in PC \ Ended
    BY StatusOfThread DEF TypeOK, GenericPC, Entering, Generic
  <2> QED
    BY <2>1 DEF Barrier!Unfinished, Generic, bar
<1>4. CountIn(Generic, pc, PC \ Ended) + CountIn(Generic, pc, Ended) = N - 1
  <2>1. \A u \in Generic : pc[u] \in PC \ Ended <=> pc[u] \notin Ended
    BY DEF TypeOK, Generic
  <2>2. CountIn(Generic, pc, PC \ Ended) + CountIn(Generic, pc, Ended)
          = Cardinality(Generic)
    BY <2>1, CountSplit
  <2> QED
    BY <2>2
<1> HIDE DEF Ended
<1>5. Cardinality(Barrier!Unfinished) = CountIn(Generic, pc, PC \ Ended)
  BY <1>3 DEF CountIn
<1> QED
  BY <1>1, <1>2, <1>4, <1>5, CountsAreNumbers, Process4Assumption

\* For any number of threads and any gate, enough threads are left for T4.11 to
\* find its full house, as long as it has not ended.
THEOREM HouseCanFillHolds == Spec => []HouseCanFill
<1>1. Process4Inv => HouseCanFill
  BY PermitsLeaveEnough, SameCardinality DEF HouseCanFill, Barrier!HouseCanFill, bar
<1> QED
  BY <1>1, Process4Invariance, PTL
=============================================================================
