---------------------------- MODULE Process7Proofs ----------------------------
(***************************************************************************)
(* Proofs about Process7: for any number of threads, and wherever the      *)
(* inner and the outer one stand among them, the messages of the inner     *)
(* thread lie within those of the outer one, no signal is lost, and        *)
(* process_7() returns after its threads.                                  *)
(***************************************************************************)
EXTENDS Process7, FiniteSetTheorems, TLAPS

-----------------------------------------------------------------------------
(* The log of the server, as far as the programs change it *)

\* What a message that is not refused does to the log.
LEMMA Recorded ==
  ASSUME LogTypeOK, WellNumbered, NEW k \in Keys,
         \/ AddBegin(k) /\ k \notin infos
         \/ AddEnd(k) /\ k \in infos /\ timeEnd[k] = 0
  PROVE  LogTypeOK' /\ WellNumbered' /\ errors' = errors
<1>1. CASE RecordBegin(k)
  <2>1. LogTypeOK' /\ errors' = errors
    BY <1>1 DEF RecordBegin, NextTime, LogTypeOK
  <2>2. WellNumbered'
    BY <1>1 DEF RecordBegin, NextTime, AcceptsBegin, LogTypeOK, WellNumbered
  <2>3. QED
    BY <2>1, <2>2
<1>2. CASE RecordEnd(k)
  <2>1. LogTypeOK' /\ errors' = errors
    BY <1>2 DEF RecordEnd, NextTime, LogTypeOK
  <2>2. WellNumbered'
    BY <1>2 DEF RecordEnd, NextTime, AcceptsEnd, LogTypeOK, WellNumbered
  <2>3. QED
    BY <2>1, <2>2
<1>3. QED
  BY <1>1, <1>2 DEF AddBegin, AddEnd, AcceptsBegin, AcceptsEnd

\* An accepted BEGIN and an accepted END.
LEMMA BeginRecorded ==
  ASSUME LogTypeOK, WellNumbered, NEW k \in Keys, AddBegin(k), k \notin infos
  PROVE  /\ LogTypeOK' /\ WellNumbered' /\ errors' = errors
         /\ infos' = infos \cup {k}
         /\ timeStart'[k] = time + 1
         /\ \A j \in Keys \ {k} : timeStart'[j] = timeStart[j]
         /\ \A j \in Keys : timeEnd'[j] = timeEnd[j]
<1>1. RecordBegin(k)
  BY DEF AddBegin, AcceptsBegin
<1>2. QED
  BY <1>1, Recorded DEF RecordBegin, NextTime, LogTypeOK, WellNumbered

LEMMA EndRecorded ==
  ASSUME LogTypeOK, WellNumbered, NEW k \in Keys, AddEnd(k), k \in infos, timeEnd[k] = 0
  PROVE  /\ LogTypeOK' /\ WellNumbered' /\ errors' = errors
         /\ infos' = infos
         /\ timeEnd'[k] = time + 1 /\ timeEnd'[k] # 0
         /\ timeStart' = timeStart
         /\ \A j \in Keys \ {k} : timeEnd'[j] = timeEnd[j]
<1>1. RecordEnd(k)
  BY DEF AddEnd, AcceptsEnd
<1>2. QED
  BY <1>1, Recorded DEF RecordEnd, NextTime, LogTypeOK

\* A step that sends nothing.
LEMMA Untouched ==
  ASSUME LogTypeOK, WellNumbered, UNCHANGED logVars
  PROVE  LogTypeOK' /\ WellNumbered' /\ errors' = errors
BY DEF logVars, LogTypeOK, WellNumbered

\* The threads 1..n of a process are n keys.
LEMMA ThreadsCounted ==
  ASSUME NEW n \in Nat, NEW proc
  PROVE  /\ IsFiniteSet({<<proc, t>> : t \in 1..n})
         /\ Cardinality({<<proc, t>> : t \in 1..n}) = n
<1> DEFINE K == {<<proc, t>> : t \in 1..n}
           f == [t \in 1..n |-> <<proc, t>>]
<1>1. f \in Bijection(1..n, K)
  <2>1. f \in Injection(1..n, K)
    BY DEF Injection, IsInjective
  <2>2. f \in Surjection(1..n, K)
    BY DEF Surjection
  <2> QED
    BY <2>1, <2>2 DEF Bijection
<1>2. ExistsBijection(1..n, K)
  BY <1>1 DEF ExistsBijection
<1>3. IsFiniteSet(1..n) /\ Cardinality(1..n) = n
  BY FS_Interval
<1> QED
  BY <1>2, <1>3, FS_Bijection

-----------------------------------------------------------------------------
(* The programs *)

\* A thread that is silent, one between its messages, one that has ended.
Silent(k) == k \notin infos /\ timeEnd[k] = 0
Speaking(k) == k \in infos /\ timeEnd[k] = 0
Ended(k) == k \in infos /\ timeEnd[k] # 0

MainInv ==
  /\ main = "begin" => Silent(T(0)) /\ created = 0
  /\ main \in {"create", "join", "end"} => Speaking(T(0))
  /\ main # "create" /\ main # "begin" => created = ThreadCount
  /\ main \in {"end", "returned"} => joined = ThreadCount
  /\ main = "returned" => Ended(T(0))
  /\ \A t \in Threads : t > created => pc[t] = "absent"
  /\ \A t \in Threads : t <= joined => pc[t] = "done"

\* What a thread has said, by where it is.
InnerInv ==
  /\ pc[Inner] \in {"absent", "lock", "test", "wait", "asleep", "unlock", "begin"}
       => Silent(T(Inner))
  /\ pc[Inner] = "end" => Speaking(T(Inner))
  /\ pc[Inner] \in {"lockNotify", "notify", "done"} => Ended(T(Inner))
  /\ pc[Inner] \in {"unlock", "begin", "end", "lockNotify", "notify", "done"}
       => "thread_5_started" \in flags

OuterInv ==
  /\ pc[Outer] \in {"absent", "begin"} => Silent(T(Outer))
  /\ pc[Outer] \in {"lockNotify", "notify", "lock", "test", "wait", "asleep", "unlock", "end"}
       => Speaking(T(Outer))
  /\ pc[Outer] = "done" => Ended(T(Outer))
  /\ pc[Outer] \in {"unlock", "end", "done"} => "thread_2_exited" \in flags

OtherInv ==
  \A t \in Others :
    /\ pc[t] \in {"absent", "begin", "end", "done"}
    /\ pc[t] \in {"absent", "begin"} => Silent(T(t))
    /\ pc[t] = "end" => Speaking(T(t))
    /\ pc[t] = "done" => Ended(T(t))

\* The flags are set after the messages they stand for.
FlagInv ==
  /\ "thread_5_started" \in flags => T(Outer) \in infos
  /\ "thread_2_exited" \in flags => Ended(T(Inner))

\* The mutex is held where the code holds it.
GuardInv ==
  \A t \in Threads : pc[t] \in {"test", "wait", "unlock", "notify"} <=> guard = t

P7Inv ==
  /\ TypeOK /\ WellNumbered /\ errors = 0
  /\ MainInv /\ InnerInv /\ OuterInv /\ OtherInv /\ FlagInv /\ GuardInv
  /\ NoLostWakeup /\ Nested
-----------------------------------------------------------------------------
LEMMA Numbers ==
  /\ ThreadCount \in Nat
  /\ Inner \in Threads /\ Outer \in Threads /\ Others \subseteq Threads
  /\ Inner # Outer /\ Inner \notin Others /\ Outer \notin Others
  /\ \A t \in Threads : t \in Others \/ t = Inner \/ t = Outer
  /\ T(0) \in Keys /\ \A t \in Threads : T(t) \in Keys /\ T(t) # T(0)
  /\ \A t, u \in Threads : T(t) = T(u) => t = u
  /\ \A t \in Threads : t \in Nat /\ t # 0 /\ t <= ThreadCount
  /\ \A i \in 0..ThreadCount : i # ThreadCount => i + 1 \in Threads /\ i + 1 \in 0..ThreadCount
BY Process7Assumption DEF T, P, Threads

LEMMA InitInv == Init => P7Inv
<1> SUFFICES ASSUME Init PROVE P7Inv
  OBVIOUS
<1> USE Numbers DEF Init, EmptyLog
<1>1. LogTypeOK /\ WellNumbered /\ errors = 0
  BY MessageLogAssumption DEF LogTypeOK, WellNumbered
<1>6. TypeOK
  BY <1>1 DEF TypeOK, Nobody, Places
<1>2. MainInv
  BY DEF MainInv, Silent
<1>3. InnerInv /\ OuterInv /\ OtherInv /\ FlagInv
  BY DEF InnerInv, OuterInv, OtherInv, FlagInv, Silent
<1>4. GuardInv /\ NoLostWakeup /\ Nested
  BY DEF GuardInv, Nobody, NoLostWakeup, Nested
<1>5. QED
  BY <1>1, <1>2, <1>3, <1>4, <1>6 DEF P7Inv

\* The main thread announces P7.
LEMMA MainBeginKeepsInv ==
  ASSUME P7Inv, MainBegin
  PROVE  P7Inv'
<1> USE Numbers DEF P7Inv, mainVars, syncVars
<1>1. /\ LogTypeOK' /\ WellNumbered' /\ errors' = 0
      /\ infos' = infos \cup {T(0)}
      /\ timeStart'[T(0)] = time + 1
      /\ \A j \in Keys \ {T(0)} : timeStart'[j] = timeStart[j]
      /\ \A j \in Keys : timeEnd'[j] = timeEnd[j]
  <2>1. T(0) \in Keys /\ T(0) \notin infos /\ AddBegin(T(0))
    BY DEF MainBegin, MainInv, Silent
  <2>2. QED
    BY <2>1, BeginRecorded DEF TypeOK
<1>2. TypeOK'
  BY <1>1 DEF MainBegin, TypeOK, Places, Nobody
<1>3. MainInv'
  BY <1>1 DEF MainBegin, MainInv, TypeOK, Silent, Speaking, Ended
<1>4. InnerInv'
  BY <1>1 DEF MainBegin, InnerInv, TypeOK, MainInv, Awaited, GuardInv, Silent, Speaking, Ended
<1>5. OuterInv'
  BY <1>1 DEF MainBegin, OuterInv, TypeOK, MainInv, Awaited, GuardInv, Silent, Speaking, Ended
<1>6. OtherInv'
  BY <1>1 DEF MainBegin, OtherInv, TypeOK, MainInv, Silent, Speaking, Ended
<1>7. FlagInv' /\ GuardInv'
  BY <1>1 DEF MainBegin, FlagInv, GuardInv, InnerInv, OuterInv, OtherInv, MainInv, TypeOK, Silent, Speaking, Ended, Nobody
<1>8. NoLostWakeup'
  BY <1>1 DEF MainBegin, NoLostWakeup, Awaited, GuardInv, InnerInv, OuterInv, MainInv, TypeOK
<1>9. Nested'
  BY <1>1 DEF MainBegin, Nested, FlagInv, InnerInv, OuterInv, TypeOK, LogTypeOK, WellNumbered, Silent, Speaking, Ended
<1>10. QED
  BY <1>1, <1>2, <1>3, <1>4, <1>5, <1>6, <1>7, <1>8, <1>9

\* The main thread creates a thread.
LEMMA CreateThreadKeepsInv ==
  ASSUME P7Inv, CreateThread
  PROVE  P7Inv'
<1> USE Numbers DEF P7Inv, mainVars, syncVars
<1>1. /\ LogTypeOK' /\ WellNumbered' /\ errors' = 0
      /\ infos' = infos /\ timeStart' = timeStart /\ timeEnd' = timeEnd
  BY Untouched DEF CreateThread, TypeOK, logVars
<1>2. TypeOK'
  BY <1>1 DEF CreateThread, TypeOK, Places, Nobody
<1>3. MainInv'
  BY <1>1 DEF CreateThread, MainInv, TypeOK, Silent, Speaking, Ended
<1>4. InnerInv'
  BY <1>1 DEF CreateThread, InnerInv, TypeOK, MainInv, Awaited, GuardInv, Silent, Speaking, Ended
<1>5. OuterInv'
  BY <1>1 DEF CreateThread, OuterInv, TypeOK, MainInv, Awaited, GuardInv, Silent, Speaking, Ended
<1>6. OtherInv'
  BY <1>1 DEF CreateThread, OtherInv, TypeOK, MainInv, Silent, Speaking, Ended
<1>7. FlagInv' /\ GuardInv'
  BY <1>1 DEF CreateThread, FlagInv, GuardInv, InnerInv, OuterInv, OtherInv, MainInv, TypeOK, Silent, Speaking, Ended, Nobody
<1>8. NoLostWakeup'
  BY <1>1 DEF CreateThread, NoLostWakeup, Awaited, GuardInv, InnerInv, OuterInv, MainInv, TypeOK
<1>9. Nested'
  BY <1>1 DEF CreateThread, Nested, FlagInv, InnerInv, OuterInv, TypeOK, LogTypeOK, WellNumbered, Silent, Speaking, Ended
<1>10. QED
  BY <1>1, <1>2, <1>3, <1>4, <1>5, <1>6, <1>7, <1>8, <1>9

\* It joins one.
LEMMA JoinThreadKeepsInv ==
  ASSUME P7Inv, JoinThread
  PROVE  P7Inv'
<1> USE Numbers DEF P7Inv, mainVars, syncVars
<1>1. /\ LogTypeOK' /\ WellNumbered' /\ errors' = 0
      /\ infos' = infos /\ timeStart' = timeStart /\ timeEnd' = timeEnd
  BY Untouched DEF JoinThread, TypeOK, logVars
<1>2. TypeOK'
  BY <1>1 DEF JoinThread, TypeOK, Places, Nobody
<1>3. MainInv'
  BY <1>1 DEF JoinThread, HasEnded, MainInv, TypeOK, Silent, Speaking, Ended
<1>4. InnerInv'
  BY <1>1 DEF JoinThread, InnerInv, TypeOK, MainInv, Awaited, GuardInv, Silent, Speaking, Ended
<1>5. OuterInv'
  BY <1>1 DEF JoinThread, OuterInv, TypeOK, MainInv, Awaited, GuardInv, Silent, Speaking, Ended
<1>6. OtherInv'
  BY <1>1 DEF JoinThread, OtherInv, TypeOK, MainInv, Silent, Speaking, Ended
<1>7. FlagInv' /\ GuardInv'
  BY <1>1 DEF JoinThread, FlagInv, GuardInv, InnerInv, OuterInv, OtherInv, MainInv, TypeOK, Silent, Speaking, Ended, Nobody
<1>8. NoLostWakeup'
  BY <1>1 DEF JoinThread, NoLostWakeup, Awaited, GuardInv, InnerInv, OuterInv, MainInv, TypeOK
<1>9. Nested'
  BY <1>1 DEF JoinThread, Nested, FlagInv, InnerInv, OuterInv, TypeOK, LogTypeOK, WellNumbered, Silent, Speaking, Ended
<1>10. QED
  BY <1>1, <1>2, <1>3, <1>4, <1>5, <1>6, <1>7, <1>8, <1>9

\* It announces the end.
LEMMA MainEndKeepsInv ==
  ASSUME P7Inv, MainEnd
  PROVE  P7Inv'
<1> USE Numbers DEF P7Inv, mainVars, syncVars
<1>1. /\ LogTypeOK' /\ WellNumbered' /\ errors' = 0
      /\ infos' = infos /\ timeStart' = timeStart
      /\ timeEnd'[T(0)] = time + 1 /\ timeEnd'[T(0)] # 0
      /\ \A j \in Keys \ {T(0)} : timeEnd'[j] = timeEnd[j]
  <2>1. T(0) \in Keys /\ T(0) \in infos /\ timeEnd[T(0)] = 0 /\ AddEnd(T(0))
    BY DEF MainEnd, MainInv, Speaking
  <2>2. QED
    BY <2>1, EndRecorded DEF TypeOK
<1>2. TypeOK'
  BY <1>1 DEF MainEnd, TypeOK, Places, Nobody
<1>3. MainInv'
  BY <1>1 DEF MainEnd, MainInv, TypeOK, Silent, Speaking, Ended
<1>4. InnerInv'
  BY <1>1 DEF MainEnd, InnerInv, TypeOK, MainInv, Awaited, GuardInv, Silent, Speaking, Ended
<1>5. OuterInv'
  BY <1>1 DEF MainEnd, OuterInv, TypeOK, MainInv, Awaited, GuardInv, Silent, Speaking, Ended
<1>6. OtherInv'
  BY <1>1 DEF MainEnd, OtherInv, TypeOK, MainInv, Silent, Speaking, Ended
<1>7. FlagInv' /\ GuardInv'
  BY <1>1 DEF MainEnd, FlagInv, GuardInv, InnerInv, OuterInv, OtherInv, MainInv, TypeOK, Silent, Speaking, Ended, Nobody
<1>8. NoLostWakeup'
  BY <1>1 DEF MainEnd, NoLostWakeup, Awaited, GuardInv, InnerInv, OuterInv, MainInv, TypeOK
<1>9. Nested'
  BY <1>1 DEF MainEnd, Nested, FlagInv, InnerInv, OuterInv, TypeOK, LogTypeOK, WellNumbered, Silent, Speaking, Ended
<1>10. QED
  BY <1>1, <1>2, <1>3, <1>4, <1>5, <1>6, <1>7, <1>8, <1>9

\* A thread gets the mutex.
LEMMA LockKeepsInv ==
  ASSUME P7Inv, NEW t \in Threads, Lock(t)
  PROVE  P7Inv'
<1> USE Numbers DEF P7Inv, mainVars, syncVars
<1>1. /\ LogTypeOK' /\ WellNumbered' /\ errors' = 0
      /\ infos' = infos /\ timeStart' = timeStart /\ timeEnd' = timeEnd
  BY Untouched DEF Lock, TypeOK, logVars
<1>2. TypeOK'
  BY <1>1 DEF Lock, Move, TypeOK, Places, Nobody
<1>3. MainInv'
  BY <1>1 DEF Lock, Move, MainInv, TypeOK, Silent, Speaking, Ended
<1>4. InnerInv'
  BY <1>1 DEF Lock, Move, InnerInv, TypeOK, MainInv, Awaited, GuardInv, Silent, Speaking, Ended
<1>5. OuterInv'
  BY <1>1 DEF Lock, Move, OuterInv, TypeOK, MainInv, Awaited, GuardInv, Silent, Speaking, Ended
<1>6. OtherInv'
  BY <1>1 DEF Lock, Move, OtherInv, TypeOK, MainInv, Silent, Speaking, Ended
<1>7. FlagInv' /\ GuardInv'
  BY <1>1 DEF Lock, Move, FlagInv, GuardInv, InnerInv, OuterInv, OtherInv, MainInv, TypeOK, Silent, Speaking, Ended, Nobody
<1>8. NoLostWakeup'
  BY <1>1 DEF Lock, Move, NoLostWakeup, Awaited, GuardInv, InnerInv, OuterInv, MainInv, TypeOK
<1>9. Nested'
  BY <1>1 DEF Lock, Move, Nested, FlagInv, InnerInv, OuterInv, TypeOK, LogTypeOK, WellNumbered, Silent, Speaking, Ended
<1>10. QED
  BY <1>1, <1>2, <1>3, <1>4, <1>5, <1>6, <1>7, <1>8, <1>9

\* It looks at the flag it waits for.
LEMMA TestKeepsInv ==
  ASSUME P7Inv, NEW t \in Threads, Test(t)
  PROVE  P7Inv'
<1> USE Numbers DEF P7Inv, mainVars, syncVars
<1>1. /\ LogTypeOK' /\ WellNumbered' /\ errors' = 0
      /\ infos' = infos /\ timeStart' = timeStart /\ timeEnd' = timeEnd
  BY Untouched DEF Test, TypeOK, logVars
<1>2. TypeOK'
  BY <1>1 DEF Test, Move, TypeOK, Places, Nobody
<1>3. MainInv'
  BY <1>1 DEF Test, Move, MainInv, TypeOK, Silent, Speaking, Ended
<1>4. InnerInv'
  BY <1>1 DEF Test, Move, InnerInv, TypeOK, MainInv, Awaited, GuardInv, Silent, Speaking, Ended
<1>5. OuterInv'
  BY <1>1 DEF Test, Move, OuterInv, TypeOK, MainInv, Awaited, GuardInv, Silent, Speaking, Ended
<1>6. OtherInv'
  BY <1>1 DEF Test, Move, OtherInv, TypeOK, MainInv, Silent, Speaking, Ended
<1>7. FlagInv' /\ GuardInv'
  BY <1>1 DEF Test, Move, FlagInv, GuardInv, InnerInv, OuterInv, OtherInv, MainInv, TypeOK, Silent, Speaking, Ended, Nobody
<1>8. NoLostWakeup'
  BY <1>1 DEF Test, Move, NoLostWakeup, Awaited, GuardInv, InnerInv, OuterInv, MainInv, TypeOK
<1>9. Nested'
  BY <1>1 DEF Test, Move, Nested, FlagInv, InnerInv, OuterInv, TypeOK, LogTypeOK, WellNumbered, Silent, Speaking, Ended
<1>10. QED
  BY <1>1, <1>2, <1>3, <1>4, <1>5, <1>6, <1>7, <1>8, <1>9

\* It goes to sleep.
LEMMA WaitKeepsInv ==
  ASSUME P7Inv, NEW t \in Threads, Wait(t)
  PROVE  P7Inv'
<1> USE Numbers DEF P7Inv, mainVars, syncVars
<1>1. /\ LogTypeOK' /\ WellNumbered' /\ errors' = 0
      /\ infos' = infos /\ timeStart' = timeStart /\ timeEnd' = timeEnd
  BY Untouched DEF Wait, TypeOK, logVars
<1>2. TypeOK'
  BY <1>1 DEF Wait, Move, TypeOK, Places, Nobody
<1>3. MainInv'
  BY <1>1 DEF Wait, Move, MainInv, TypeOK, Silent, Speaking, Ended
<1>4. InnerInv'
  BY <1>1 DEF Wait, Move, InnerInv, TypeOK, MainInv, Awaited, GuardInv, Silent, Speaking, Ended
<1>5. OuterInv'
  BY <1>1 DEF Wait, Move, OuterInv, TypeOK, MainInv, Awaited, GuardInv, Silent, Speaking, Ended
<1>6. OtherInv'
  BY <1>1 DEF Wait, Move, OtherInv, TypeOK, MainInv, Silent, Speaking, Ended
<1>7. FlagInv' /\ GuardInv'
  BY <1>1 DEF Wait, Move, FlagInv, GuardInv, InnerInv, OuterInv, OtherInv, MainInv, TypeOK, Silent, Speaking, Ended, Nobody
<1>8. NoLostWakeup'
  BY <1>1 DEF Wait, Move, NoLostWakeup, Awaited, GuardInv, InnerInv, OuterInv, MainInv, TypeOK
<1>9. Nested'
  BY <1>1 DEF Wait, Move, Nested, FlagInv, InnerInv, OuterInv, TypeOK, LogTypeOK, WellNumbered, Silent, Speaking, Ended
<1>10. QED
  BY <1>1, <1>2, <1>3, <1>4, <1>5, <1>6, <1>7, <1>8, <1>9

\* It wakes up for no reason.
LEMMA SpuriousWakeKeepsInv ==
  ASSUME P7Inv, NEW t \in Threads, SpuriousWake(t)
  PROVE  P7Inv'
<1> USE Numbers DEF P7Inv, mainVars, syncVars
<1>1. /\ LogTypeOK' /\ WellNumbered' /\ errors' = 0
      /\ infos' = infos /\ timeStart' = timeStart /\ timeEnd' = timeEnd
  BY Untouched DEF SpuriousWake, TypeOK, logVars
<1>2. TypeOK'
  BY <1>1 DEF SpuriousWake, Move, TypeOK, Places, Nobody
<1>3. MainInv'
  BY <1>1 DEF SpuriousWake, Move, MainInv, TypeOK, Silent, Speaking, Ended
<1>4. InnerInv'
  BY <1>1 DEF SpuriousWake, Move, InnerInv, TypeOK, MainInv, Awaited, GuardInv, Silent, Speaking, Ended
<1>5. OuterInv'
  BY <1>1 DEF SpuriousWake, Move, OuterInv, TypeOK, MainInv, Awaited, GuardInv, Silent, Speaking, Ended
<1>6. OtherInv'
  BY <1>1 DEF SpuriousWake, Move, OtherInv, TypeOK, MainInv, Silent, Speaking, Ended
<1>7. FlagInv' /\ GuardInv'
  BY <1>1 DEF SpuriousWake, Move, FlagInv, GuardInv, InnerInv, OuterInv, OtherInv, MainInv, TypeOK, Silent, Speaking, Ended, Nobody
<1>8. NoLostWakeup'
  BY <1>1 DEF SpuriousWake, Move, NoLostWakeup, Awaited, GuardInv, InnerInv, OuterInv, MainInv, TypeOK
<1>9. Nested'
  BY <1>1 DEF SpuriousWake, Move, Nested, FlagInv, InnerInv, OuterInv, TypeOK, LogTypeOK, WellNumbered, Silent, Speaking, Ended
<1>10. QED
  BY <1>1, <1>2, <1>3, <1>4, <1>5, <1>6, <1>7, <1>8, <1>9

\* It leaves the critical section.
LEMMA UnlockKeepsInv ==
  ASSUME P7Inv, NEW t \in Threads, Unlock(t)
  PROVE  P7Inv'
<1> USE Numbers DEF P7Inv, mainVars, syncVars
<1>1. /\ LogTypeOK' /\ WellNumbered' /\ errors' = 0
      /\ infos' = infos /\ timeStart' = timeStart /\ timeEnd' = timeEnd
  BY Untouched DEF Unlock, TypeOK, logVars
<1>2. TypeOK'
  BY <1>1 DEF Unlock, Move, TypeOK, Places, Nobody
<1>3. MainInv'
  BY <1>1 DEF Unlock, Move, MainInv, TypeOK, Silent, Speaking, Ended
<1>4. InnerInv'
  BY <1>1 DEF Unlock, Move, InnerInv, TypeOK, MainInv, Awaited, GuardInv, Silent, Speaking, Ended
<1>5. OuterInv'
  BY <1>1 DEF Unlock, Move, OuterInv, TypeOK, MainInv, Awaited, GuardInv, Silent, Speaking, Ended
<1>6. OtherInv'
  BY <1>1 DEF Unlock, Move, OtherInv, TypeOK, MainInv, Silent, Speaking, Ended
<1>7. FlagInv' /\ GuardInv'
  BY <1>1 DEF Unlock, Move, FlagInv, GuardInv, InnerInv, OuterInv, OtherInv, MainInv, TypeOK, Silent, Speaking, Ended, Nobody
<1>8. NoLostWakeup'
  BY <1>1 DEF Unlock, Move, NoLostWakeup, Awaited, GuardInv, InnerInv, OuterInv, MainInv, TypeOK
<1>9. Nested'
  BY <1>1 DEF Unlock, Move, Nested, FlagInv, InnerInv, OuterInv, TypeOK, LogTypeOK, WellNumbered, Silent, Speaking, Ended
<1>10. QED
  BY <1>1, <1>2, <1>3, <1>4, <1>5, <1>6, <1>7, <1>8, <1>9

\* It announces its beginning.
LEMMA InfoBeginKeepsInv ==
  ASSUME P7Inv, NEW t \in Threads, InfoBegin(t)
  PROVE  P7Inv'
<1> USE Numbers DEF P7Inv, mainVars, syncVars
<1>1. /\ LogTypeOK' /\ WellNumbered' /\ errors' = 0
      /\ infos' = infos \cup {T(t)}
      /\ timeStart'[T(t)] = time + 1
      /\ \A j \in Keys \ {T(t)} : timeStart'[j] = timeStart[j]
      /\ \A j \in Keys : timeEnd'[j] = timeEnd[j]
  <2>1. T(t) \in Keys /\ T(t) \notin infos /\ AddBegin(T(t))
    BY DEF InfoBegin, Move, InnerInv, OuterInv, OtherInv, Silent
  <2>2. QED
    BY <2>1, BeginRecorded DEF TypeOK
<1>2. TypeOK'
  BY <1>1 DEF InfoBegin, Move, TypeOK, Places, Nobody
<1>3. MainInv'
  BY <1>1 DEF InfoBegin, Move, MainInv, TypeOK, Silent, Speaking, Ended
<1>4. InnerInv'
  BY <1>1 DEF InfoBegin, Move, InnerInv, TypeOK, MainInv, Awaited, GuardInv, Silent, Speaking, Ended
<1>5. OuterInv'
  BY <1>1 DEF InfoBegin, Move, OuterInv, TypeOK, MainInv, Awaited, GuardInv, Silent, Speaking, Ended
<1>6. OtherInv'
  BY <1>1 DEF InfoBegin, Move, OtherInv, TypeOK, MainInv, Silent, Speaking, Ended
<1>7. FlagInv' /\ GuardInv'
  BY <1>1 DEF InfoBegin, Move, FlagInv, GuardInv, InnerInv, OuterInv, OtherInv, MainInv, TypeOK, Silent, Speaking, Ended, Nobody
<1>8. NoLostWakeup'
  BY <1>1 DEF InfoBegin, Move, NoLostWakeup, Awaited, GuardInv, InnerInv, OuterInv, MainInv, TypeOK
<1>9. Nested'
  BY <1>1 DEF InfoBegin, Move, Nested, FlagInv, InnerInv, OuterInv, TypeOK, LogTypeOK, WellNumbered, Silent, Speaking, Ended
<1>10. QED
  BY <1>1, <1>2, <1>3, <1>4, <1>5, <1>6, <1>7, <1>8, <1>9

\* It announces its end.
LEMMA InfoEndKeepsInv ==
  ASSUME P7Inv, NEW t \in Threads, InfoEnd(t)
  PROVE  P7Inv'
<1> USE Numbers DEF P7Inv, mainVars, syncVars
<1>1. /\ LogTypeOK' /\ WellNumbered' /\ errors' = 0
      /\ infos' = infos /\ timeStart' = timeStart
      /\ timeEnd'[T(t)] = time + 1 /\ timeEnd'[T(t)] # 0
      /\ \A j \in Keys \ {T(t)} : timeEnd'[j] = timeEnd[j]
  <2>1. T(t) \in Keys /\ T(t) \in infos /\ timeEnd[T(t)] = 0 /\ AddEnd(T(t))
    BY DEF InfoEnd, Move, InnerInv, OuterInv, OtherInv, Speaking
  <2>2. QED
    BY <2>1, EndRecorded DEF TypeOK
<1>2. TypeOK'
  BY <1>1 DEF InfoEnd, Move, TypeOK, Places, Nobody
<1>3. MainInv'
  BY <1>1 DEF InfoEnd, Move, MainInv, TypeOK, Silent, Speaking, Ended
<1>4. InnerInv'
  BY <1>1 DEF InfoEnd, Move, InnerInv, TypeOK, MainInv, Awaited, GuardInv, Silent, Speaking, Ended
<1>5. OuterInv'
  BY <1>1 DEF InfoEnd, Move, OuterInv, TypeOK, MainInv, Awaited, GuardInv, Silent, Speaking, Ended
<1>6. OtherInv'
  BY <1>1 DEF InfoEnd, Move, OtherInv, TypeOK, MainInv, Silent, Speaking, Ended
<1>7. FlagInv' /\ GuardInv'
  BY <1>1 DEF InfoEnd, Move, FlagInv, GuardInv, InnerInv, OuterInv, OtherInv, MainInv, TypeOK, Silent, Speaking, Ended, Nobody
<1>8. NoLostWakeup'
  BY <1>1 DEF InfoEnd, Move, NoLostWakeup, Awaited, GuardInv, InnerInv, OuterInv, MainInv, TypeOK
<1>9. Nested'
  BY <1>1 DEF InfoEnd, Move, Nested, FlagInv, InnerInv, OuterInv, TypeOK, LogTypeOK, WellNumbered, Silent, Speaking, Ended
<1>10. QED
  BY <1>1, <1>2, <1>3, <1>4, <1>5, <1>6, <1>7, <1>8, <1>9

\* It sets its flag and signals the other thread.
LEMMA NotifyKeepsInv ==
  ASSUME P7Inv, NEW t \in Threads, Notify(t)
  PROVE  P7Inv'
<1> USE Numbers DEF P7Inv, mainVars, syncVars
<1>1. /\ LogTypeOK' /\ WellNumbered' /\ errors' = 0
      /\ infos' = infos /\ timeStart' = timeStart /\ timeEnd' = timeEnd
  BY Untouched DEF Notify, TypeOK, logVars
<1>2. TypeOK'
  BY <1>1 DEF Notify, Announces, TypeOK, Places, Nobody
<1>3. MainInv'
  BY <1>1 DEF Notify, Announces, MainInv, TypeOK, Silent, Speaking, Ended
<1>4. InnerInv'
  BY <1>1 DEF Notify, Announces, InnerInv, TypeOK, MainInv, Awaited, GuardInv, Silent, Speaking, Ended
<1>5. OuterInv'
  BY <1>1 DEF Notify, Announces, OuterInv, TypeOK, MainInv, Awaited, GuardInv, Silent, Speaking, Ended
<1>6. OtherInv'
  BY <1>1 DEF Notify, Announces, OtherInv, TypeOK, MainInv, Silent, Speaking, Ended
<1>7. FlagInv' /\ GuardInv'
  BY <1>1 DEF Notify, Announces, FlagInv, GuardInv, InnerInv, OuterInv, OtherInv, MainInv, TypeOK, Silent, Speaking, Ended, Nobody
<1>8. NoLostWakeup'
  BY <1>1 DEF Notify, Announces, NoLostWakeup, Awaited, GuardInv, InnerInv, OuterInv, MainInv, TypeOK
<1>9. Nested'
  BY <1>1 DEF Notify, Announces, Nested, FlagInv, InnerInv, OuterInv, TypeOK, LogTypeOK, WellNumbered, Silent, Speaking, Ended
<1>10. QED
  BY <1>1, <1>2, <1>3, <1>4, <1>5, <1>6, <1>7, <1>8, <1>9

-----------------------------------------------------------------------------
\* The inductive invariant: what has been said, by where the threads are.
THEOREM P7Invariance == Spec => []P7Inv
<1>1. P7Inv /\ [Next]_vars => P7Inv'
  <2> SUFFICES ASSUME P7Inv, [Next]_vars PROVE P7Inv'
    OBVIOUS
  <2>1. CASE MainBegin
    BY <2>1, MainBeginKeepsInv
  <2>2. CASE CreateThread
    BY <2>2, CreateThreadKeepsInv
  <2>3. CASE JoinThread
    BY <2>3, JoinThreadKeepsInv
  <2>4. CASE MainEnd
    BY <2>4, MainEndKeepsInv
  <2>5. ASSUME NEW t \in Threads, Lock(t) PROVE P7Inv'
    BY <2>5, LockKeepsInv
  <2>6. ASSUME NEW t \in Threads, Test(t) PROVE P7Inv'
    BY <2>6, TestKeepsInv
  <2>7. ASSUME NEW t \in Threads, Wait(t) PROVE P7Inv'
    BY <2>7, WaitKeepsInv
  <2>8. ASSUME NEW t \in Threads, SpuriousWake(t) PROVE P7Inv'
    BY <2>8, SpuriousWakeKeepsInv
  <2>9. ASSUME NEW t \in Threads, Unlock(t) PROVE P7Inv'
    BY <2>9, UnlockKeepsInv
  <2>10. ASSUME NEW t \in Threads, InfoBegin(t) PROVE P7Inv'
    BY <2>10, InfoBeginKeepsInv
  <2>11. ASSUME NEW t \in Threads, InfoEnd(t) PROVE P7Inv'
    BY <2>11, InfoEndKeepsInv
  <2>12. ASSUME NEW t \in Threads, Notify(t) PROVE P7Inv'
    BY <2>12, NotifyKeepsInv
  <2>13. CASE UNCHANGED vars
    BY <2>13 DEF vars, logVars, mainVars, syncVars, P7Inv, TypeOK, LogTypeOK, WellNumbered,
       MainInv, InnerInv, OuterInv, OtherInv, FlagInv, GuardInv, NoLostWakeup, Nested,
       Awaited, Silent, Speaking, Ended
  <2>14. QED
    BY <2>1, <2>2, <2>3, <2>4, <2>5, <2>6, <2>7, <2>8, <2>9, <2>10, <2>11, <2>12, <2>13 DEF Next, MainStep, ThreadStep, Returned
<1>2. QED
  BY InitInv, <1>1, PTL DEF Spec

\* The messages of T7.2 lie within those of T7.5.
THEOREM NestedHolds == Spec => []Nested
<1>1. P7Inv => Nested
  BY DEF P7Inv
<1>2. QED
  BY <1>1, P7Invariance, PTL

\* Who sleeps has something to wait for.
THEOREM NoLostWakeupHolds == Spec => []NoLostWakeup
<1>1. P7Inv => NoLostWakeup
  BY DEF P7Inv
<1>2. QED
  BY <1>1, P7Invariance, PTL

\* process_7() returns after its threads.
THEOREM StackOutlivesThreadsHolds == Spec => []StackOutlivesThreads
<1>1. P7Inv => StackOutlivesThreads
  BY Numbers DEF P7Inv, MainInv, StackOutlivesThreads
<1>2. QED
  BY <1>1, P7Invariance, PTL
-----------------------------------------------------------------------------
\* What checkThreads1() looks at when process_7() has returned: the threads are
\* there, all of them, and they have ended.
LEMMA ThreadsAre ==
  ASSUME P7Inv, main = "returned"
  PROVE  /\ infos = Keys
         /\ ThreadsOf(Infos, P) = {T(t) : t \in Threads}
         /\ \A k \in Keys : timeEnd[k] # 0
<1> USE Numbers DEF P7Inv
<1>1. \A t \in Threads : pc[t] = "done"
  BY DEF MainInv, TypeOK
<1>2. \A t \in Threads : Ended(T(t))
  BY <1>1 DEF InnerInv, OuterInv, OtherInv
<1>3. \A k \in Keys : k \in infos /\ timeEnd[k] # 0
  BY <1>2, Process7Assumption DEF MainInv, Ended, Threads
<1>4. infos = Keys
  BY <1>3 DEF TypeOK, LogTypeOK
<1>5. ThreadsOf(Infos, P) = {k \in Keys : k[1] = P /\ k[2] # 0}
  BY <1>4 DEF ThreadsOf, Infos
<1>6. \A k : k \in Keys /\ k[1] = P /\ k[2] # 0 <=> \E t \in Threads : k = T(t)
  BY Process7Assumption DEF T, Threads
<1> QED
  BY <1>3, <1>4, <1>5, <1>6

\* Undisturbed, the program has all the points for T7.2 and T7.5, in whatever
\* order its threads run.
THEOREM FullThreads1ScoreHolds == Spec => []FullThreads1Score
<1>1. ASSUME P7Inv, main = "returned"
      PROVE  errors = 0 /\ Threads1Score(Infos) = Full
  <2> USE Numbers, Process7Assumption
  <2> DEFINE outer == Infos[T(Outer)]
             inner == Infos[T(Inner)]
             S == ThreadsOf(Infos, P)
  <2>1. /\ infos = Keys /\ S = {T(t) : t \in Threads}
        /\ \A k \in Keys : timeEnd[k] # 0
    BY <1>1, ThreadsAre
  <2>2. /\ DOMAIN Infos = Keys
        /\ \A k \in Keys : /\ Infos[k].tid = k[2]
                           /\ Infos[k].timeStart = timeStart[k]
                           /\ Infos[k].timeEnd = timeEnd[k]
    BY <2>1 DEF Infos
  <2>3. \A t \in Threads : /\ T(t) \in Keys /\ T(t)[2] = t /\ t # 0 /\ t \in 1..ThreadCount
    BY DEF T, Threads
  <2>4. T(0) \in Keys /\ T(0) = <<P, 0>> /\ T(0)[2] = 0
    BY DEF T
  <2>5. ThreadsSound(Infos, P, ThreadCount)
    BY <2>1, <2>2, <2>3, <2>4 DEF ThreadsSound
  <2>6. ~ ThreadsMissing(Infos, P, ThreadCount)
    <3>1. S = {<<P, t>> : t \in 1..ThreadCount}
      BY <2>1 DEF T, Threads
    <3>2. ThreadCount \in Nat
      OBVIOUS
    <3> HIDE DEF S
    <3>3. Cardinality(S) = ThreadCount
      BY ONLY <3>1, <3>2, ThreadsCounted
    <3> QED
      BY <3>2, <3>3 DEF ThreadsMissing, S
  <2>7. Nesting(outer, inner) = 2
    <3>1. /\ timeStart[T(Outer)] < timeStart[T(Inner)]
          /\ timeEnd[T(Inner)] < timeEnd[T(Outer)]
      BY <1>1, <2>1 DEF P7Inv, Nested
    <3>2. /\ timeStart[T(Outer)] \in Nat /\ timeStart[T(Inner)] \in Nat
          /\ timeEnd[T(Outer)] \in Nat /\ timeEnd[T(Inner)] \in Nat
      BY <1>1 DEF P7Inv, TypeOK, LogTypeOK
    <3>3. outer.timeStart < inner.timeStart /\ outer.timeEnd > inner.timeEnd
      BY <2>2, <3>1, <3>2
    <3> QED
      BY <3>3 DEF Nesting, Point
  <2>8. /\ outer = Infos[<<data.threads1_proc, data.threads1_outer>>]
        /\ inner = Infos[<<data.threads1_proc, data.threads1_inner>>]
    BY DEF T
  <2> QED
    BY <1>1, <2>5, <2>6, <2>7, <2>8 DEF Threads1Score, P7Inv
<1>2. P7Inv => FullThreads1Score
  BY <1>1 DEF FullThreads1Score
<1> QED
  BY <1>2, P7Invariance, PTL
=============================================================================
