-------------------------- MODULE ProcessTreeProofs --------------------------
(***************************************************************************)
(* Proofs about ProcessTree: for every tree, any threads, any forks that   *)
(* fail, and a kill at any moment, the messages of a process enclose those *)
(* of its children and of its threads, and nothing is refused.             *)
(***************************************************************************)
EXTENDS ProcessTree, FiniteSetTheorems, TLAPS

-----------------------------------------------------------------------------
(* The log of the server, as far as the programs change it *)

\* What a message that is not refused does to the log.
LEMMA Recorded ==
  ASSUME LogTypeOK, WellNumbered, NEW k \in Keys,
         \/ AddBegin(k) /\ k \notin infos
         \/ AddEnd(k) /\ k \in infos /\ timeEnd[k] = 0
  PROVE  LogTypeOK' /\ WellNumbered' /\ errors' = errors
<1>1. CASE RecordBegin(k)
  <2>1. LogTypeOK' /\ errors' = errors
    BY <1>1 DEF RecordBegin, NextTime, LogTypeOK
  <2>2. WellNumbered'
    BY <1>1 DEF RecordBegin, NextTime, AcceptsBegin, LogTypeOK, WellNumbered
  <2>3. QED
    BY <2>1, <2>2
<1>2. CASE RecordEnd(k)
  <2>1. LogTypeOK' /\ errors' = errors
    BY <1>2 DEF RecordEnd, NextTime, LogTypeOK
  <2>2. WellNumbered'
    BY <1>2 DEF RecordEnd, NextTime, AcceptsEnd, LogTypeOK, WellNumbered
  <2>3. QED
    BY <2>1, <2>2
<1>3. QED
  BY <1>1, <1>2 DEF AddBegin, AddEnd, AcceptsBegin, AcceptsEnd

\* An accepted BEGIN and an accepted END.
LEMMA BeginRecorded ==
  ASSUME LogTypeOK, WellNumbered, NEW k \in Keys, AddBegin(k), k \notin infos
  PROVE  /\ LogTypeOK' /\ WellNumbered' /\ errors' = errors
         /\ infos' = infos \cup {k}
         /\ timeStart'[k] = time + 1
         /\ \A j \in Keys \ {k} : timeStart'[j] = timeStart[j]
         /\ \A j \in Keys : timeEnd'[j] = timeEnd[j]
<1>1. RecordBegin(k)
  BY DEF AddBegin, AcceptsBegin
<1>2. QED
  BY <1>1, Recorded DEF RecordBegin, NextTime, LogTypeOK, WellNumbered

LEMMA EndRecorded ==
  ASSUME LogTypeOK, WellNumbered, NEW k \in Keys, AddEnd(k), k \in infos, timeEnd[k] = 0
  PROVE  /\ LogTypeOK' /\ WellNumbered' /\ errors' = errors
         /\ infos' = infos
         /\ timeEnd'[k] = time + 1 /\ timeEnd'[k] # 0
         /\ timeStart' = timeStart
         /\ \A j \in Keys \ {k} : timeEnd'[j] = timeEnd[j]
<1>1. RecordEnd(k)
  BY DEF AddEnd, AcceptsEnd
<1>2. QED
  BY <1>1, Recorded DEF RecordEnd, NextTime, LogTypeOK

\* A step that sends nothing.
LEMMA Untouched ==
  ASSUME LogTypeOK, WellNumbered, UNCHANGED logVars
  PROVE  LogTypeOK' /\ WellNumbered' /\ errors' = errors
BY DEF logVars, LogTypeOK, WellNumbered

-----------------------------------------------------------------------------
(* The programs *)

\* A process has been heard of from its BEGIN on, and has ended at its exit.
MainInv ==
  \A p \in Procs :
    /\ at[p] \in {"absent", "handler", "begin"} => Main(p) \notin infos
    /\ at[p] \in {"fork", "join", "wait", "exited"} => Main(p) \in infos
    /\ timeEnd[Main(p)] # 0 <=> at[p] = "exited"

\* Threads live between the creation and the joining of their process.
ThreadOK(k, p) ==
  /\ at[p] \in {"absent", "handler", "begin", "fork"} => thread[k] = "absent"
  /\ thread[k] \in {"absent", "begin"} => k \notin infos
  /\ thread[k] = "end" => k \in infos /\ timeEnd[k] = 0
  /\ thread[k] \in {"begin", "end"} => at[p] = "join"
  /\ at[p] \in {"wait", "exited"} => thread[k] = "done"
  /\ thread[k] = "done" => at[p] = "killed" \/ timeEnd[k] # 0

ThreadInv == \A k \in Threads : ThreadOK(k, k[1])

\* A process forks and waits for its children one after the other; a child dies
\* before its time only after its parent.
KidOK(c, p, i) ==
  /\ at[c] # "absent" => i <= forked[p] /\ Main(p) \in infos /\ c \notin failed
  /\ c \in failed => i <= forked[p]
  /\ i <= forked[p] => at[c] # "absent" \/ c \in failed
  /\ at[c] = "killed" \/ c \in hangup => Gone(p)
  /\ c \in reaped => Gone(c)
  /\ i <= waited[p] => c \in failed \/ Gone(c)

KidInv ==
  \A p \in Procs : \A i \in DOMAIN children[p] : KidOK(children[p][i], p, i)

LoopInv ==
  \A p \in Procs :
    /\ at[p] \in {"join", "wait", "exited"} => forked[p] = Len(children[p])
    /\ at[p] = "exited" => waited[p] = Len(children[p])

TreeInv ==
  /\ TreeTypeOK /\ WellNumbered /\ NoErrors
  /\ MainInv /\ ThreadInv /\ KidInv /\ LoopInv
-----------------------------------------------------------------------------
\* The keys of main threads and of other threads do not collide.
LEMMA KeysApart ==
  /\ \A p \in Procs : Main(p) \in Keys /\ Main(p) \notin Threads
  /\ \A p, q \in Procs : Main(p) = Main(q) => p = q
  /\ \A k \in Threads : k \in Keys /\ k[1] \in Procs
BY TreeAssumption DEF Main

\* Every child is forked at one place of one process, and is not P1.
LEMMA OneParent ==
  /\ \A p \in Procs : /\ DOMAIN children[p] = 1..Len(children[p])
                      /\ Len(children[p]) \in Nat
                      /\ \A i \in DOMAIN children[p] : children[p][i] \in Procs \ {Root}
  /\ \A p, q \in Procs : \A i \in DOMAIN children[p], j \in DOMAIN children[q] :
       children[p][i] = children[q][j] => p = q /\ i = j
  /\ \A p \in Procs \ {Root} : Parent(p) \in Procs
<1>1. \A p \in Procs : /\ DOMAIN children[p] = 1..Len(children[p])
                       /\ Len(children[p]) \in Nat
                       /\ \A i \in DOMAIN children[p] : children[p][i] \in Procs
  BY TreeAssumption
<1>2. \A p \in Procs \ {Root} : Parent(p) \in Procs
  BY TreeAssumption DEF Parent
<1>3. QED
  BY <1>1, <1>2, TreeAssumption DEF Kids
-----------------------------------------------------------------------------
\* A process announces itself.
LEMMA BeginKeepsInv ==
  ASSUME TreeInv, NEW p \in Procs, Begin(p)
  PROVE  TreeInv'
<1> USE KeysApart DEF TreeInv
<1>1. /\ LogTypeOK' /\ WellNumbered' /\ errors' = errors
      /\ infos' = infos \cup {Main(p)}
      /\ \A j \in Keys : timeEnd'[j] = timeEnd[j]
  <2>1. Main(p) \in Keys /\ Main(p) \notin infos /\ AddBegin(Main(p))
    BY DEF Begin, MainInv
  <2>2. QED
    BY <2>1, BeginRecorded DEF TreeTypeOK
<1>2. TreeTypeOK'
  BY <1>1, OneParent DEF Begin, Goto, TreeTypeOK, Places
<1>3. MainInv'
  BY <1>1 DEF Begin, Goto, MainInv, TreeTypeOK
<1>4. ThreadInv'
  <2> SUFFICES ASSUME NEW u \in Threads, NEW r \in Procs, r = u[1]
               PROVE  ThreadOK(u, r)'
    BY DEF ThreadInv
  <2>1. ThreadOK(u, r)
    BY DEF ThreadInv
  <2>2. QED
    BY <1>1, <2>1 DEF Begin, Goto, ThreadOK, MainInv, TreeTypeOK
<1>5. KidInv'
  <2> SUFFICES ASSUME NEW q \in Procs, NEW j \in DOMAIN children[q],
                      NEW c \in Procs, c = children[q][j]
               PROVE  KidOK(c, q, j)'
    BY OneParent DEF KidInv
  <2>1. KidOK(c, q, j)
    BY DEF KidInv
  <2>9. QED
    BY <1>1, <2>1 DEF Begin, Goto, KidOK, Gone, MainInv, TreeTypeOK
<1>6. LoopInv'
  BY <1>1 DEF Begin, Goto, LoopInv, TreeTypeOK
<1>7. QED
  BY <1>1, <1>2, <1>3, <1>4, <1>5, <1>6 DEF NoErrors

\* A process forks, or fails to.
LEMMA ForkKeepsInv ==
  ASSUME TreeInv, NEW p \in Procs, Fork(p)
  PROVE  TreeInv'
<1> USE KeysApart DEF TreeInv
<1>1. /\ LogTypeOK' /\ WellNumbered' /\ errors' = errors
      /\ infos' = infos /\ timeEnd' = timeEnd
  BY Untouched DEF Fork, TreeTypeOK, logVars
<1> DEFINE f == forked[p] + 1
<1>2. f \in DOMAIN children[p] /\ f \in Nat /\ f <= Len(children[p])
  BY OneParent DEF Fork, TreeTypeOK
<1>3. PICK k \in Procs : k = children[p][f]
  BY <1>2, OneParent
<1>4. /\ at[p] = "fork"
      /\ \/ at' = [at EXCEPT ![k] = "handler"] /\ failed' = failed
         \/ at' = at /\ failed' = failed \cup {k}
      /\ forked' = [forked EXCEPT ![p] = f]
      /\ UNCHANGED <<waited, reaped, hangup, ppid, thread, jammed>>
  BY <1>3 DEF Fork, Goto
<1>5. at[k] = "absent" /\ k \notin failed /\ k \notin hangup /\ k \notin reaped
  <2>1. KidOK(k, p, f)
    BY <1>2, <1>3 DEF KidInv
  <2>2. ~ (f <= forked[p])
    BY DEF TreeTypeOK
  <2>3. QED
    BY <1>4, <2>1, <2>2 DEF KidOK, Gone
<1> HIDE DEF f
<1>6. TreeTypeOK'
  <2>1. at' \in [Procs -> Places] /\ failed' \subseteq Procs
    BY <1>4 DEF TreeTypeOK, Places
  <2>2. /\ forked' \in [Procs -> Nat]
        /\ \A q \in Procs : forked'[q] <= Len(children[q])
    BY <1>2, <1>4 DEF TreeTypeOK
  <2>3. QED
    BY <1>1, <1>4, <2>1, <2>2 DEF TreeTypeOK
<1>7. MainInv'
  BY <1>1, <1>4, <1>5 DEF MainInv, TreeTypeOK
<1>8. ThreadInv'
  <2> SUFFICES ASSUME NEW u \in Threads, NEW r \in Procs, r = u[1]
               PROVE  ThreadOK(u, r)'
    BY DEF ThreadInv
  <2>1. ThreadOK(u, r)
    BY DEF ThreadInv
  <2>2. QED
    BY <1>1, <1>4, <1>5, <2>1 DEF ThreadOK, TreeTypeOK
<1>9. KidInv'
  <2> SUFFICES ASSUME NEW q \in Procs, NEW j \in DOMAIN children[q],
                      NEW c \in Procs, c = children[q][j]
               PROVE  KidOK(c, q, j)'
    BY OneParent DEF KidInv
  <2>1. KidOK(c, q, j) /\ j \in Nat
    BY OneParent DEF KidInv
  <2>2. Main(p) \in infos
    BY <1>4 DEF MainInv
  <2>3. CASE c = k
    <3>1. children[q][j] = children[p][f]
      BY <1>3, <2>3
    <3>3. q = p /\ j = f
      BY <1>2, <3>1, OneParent
    <3>2. QED
      BY <1>1, <1>4, <1>5, <2>1, <2>2, <2>3, <3>3 DEF KidOK, Gone, TreeTypeOK
  <2>4. CASE c # k
    <3>1. q = p => j # f
      BY <1>3, <2>4
    <3>2. at'[c] = at[c] /\ (c \in failed' <=> c \in failed)
      BY <1>4, <2>4 DEF TreeTypeOK
    <3>3. Gone(q) => Gone(q)'
      BY <1>4, <1>5 DEF Gone, TreeTypeOK
    <3>4. j <= forked'[q] <=> j <= forked[q]
      BY <1>4, <2>1, <3>1 DEF TreeTypeOK, f
    <3>5. QED
      BY <1>1, <1>4, <2>1, <3>2, <3>3, <3>4 DEF KidOK, Gone
  <2>5. QED
    BY <2>3, <2>4
<1>10. LoopInv'
  BY <1>4, <1>5 DEF LoopInv, TreeTypeOK
<1>11. QED
  BY <1>1, <1>6, <1>7, <1>8, <1>9, <1>10 DEF NoErrors

\* A child arms its death signal.
LEMMA ArmKeepsInv ==
  ASSUME TreeInv, NEW p \in Procs, Arm(p)
  PROVE  TreeInv'
<1> USE KeysApart DEF TreeInv
<1>1. /\ LogTypeOK' /\ WellNumbered' /\ errors' = errors
      /\ infos' = infos /\ timeEnd' = timeEnd
  BY Untouched DEF Arm, TreeTypeOK, logVars
<1>2. TreeTypeOK'
  BY <1>1, OneParent DEF Arm, Goto, TreeTypeOK, Places
<1>3. MainInv'
  BY <1>1 DEF Arm, Goto, MainInv, TreeTypeOK
<1>4. ThreadInv'
  <2> SUFFICES ASSUME NEW u \in Threads, NEW r \in Procs, r = u[1]
               PROVE  ThreadOK(u, r)'
    BY DEF ThreadInv
  <2>1. ThreadOK(u, r)
    BY DEF ThreadInv
  <2>2. QED
    BY <1>1, <2>1 DEF Arm, Goto, ThreadOK, MainInv, TreeTypeOK
<1>5. KidInv'
  <2> SUFFICES ASSUME NEW q \in Procs, NEW j \in DOMAIN children[q],
                      NEW c \in Procs, c = children[q][j]
               PROVE  KidOK(c, q, j)'
    BY OneParent DEF KidInv
  <2>1. KidOK(c, q, j)
    BY DEF KidInv
  <2>9. QED
    BY <1>1, <2>1 DEF Arm, Goto, KidOK, Gone, MainInv, TreeTypeOK
<1>6. LoopInv'
  BY <1>1 DEF Arm, Goto, LoopInv, TreeTypeOK
<1>7. QED
  BY <1>1, <1>2, <1>3, <1>4, <1>5, <1>6 DEF NoErrors

\* A process creates its threads.
LEMMA CreateThreadsKeepsInv ==
  ASSUME TreeInv, NEW p \in Procs, CreateThreads(p)
  PROVE  TreeInv'
<1> USE KeysApart DEF TreeInv
<1>1. /\ LogTypeOK' /\ WellNumbered' /\ errors' = errors
      /\ infos' = infos /\ timeEnd' = timeEnd
  BY Untouched DEF CreateThreads, TreeTypeOK, logVars
<1>2. TreeTypeOK'
  BY <1>1, OneParent DEF CreateThreads, Goto, TreeTypeOK, Places
<1>3. MainInv'
  BY <1>1 DEF CreateThreads, Goto, MainInv, TreeTypeOK
<1>4. ThreadInv'
  <2> SUFFICES ASSUME NEW u \in Threads, NEW r \in Procs, r = u[1]
               PROVE  ThreadOK(u, r)'
    BY DEF ThreadInv
  <2>1. ThreadOK(u, r)
    BY DEF ThreadInv
  <2>2. QED
    BY <1>1, <2>1 DEF CreateThreads, Goto, ThreadOK, MainInv, TreeTypeOK
<1>5. KidInv'
  <2> SUFFICES ASSUME NEW q \in Procs, NEW j \in DOMAIN children[q],
                      NEW c \in Procs, c = children[q][j]
               PROVE  KidOK(c, q, j)'
    BY OneParent DEF KidInv
  <2>1. KidOK(c, q, j)
    BY DEF KidInv
  <2>9. QED
    BY <1>1, <2>1 DEF CreateThreads, Goto, KidOK, Gone, MainInv, TreeTypeOK
<1>6. LoopInv'
  BY <1>1 DEF CreateThreads, Goto, LoopInv, TreeTypeOK
<1>7. QED
  BY <1>1, <1>2, <1>3, <1>4, <1>5, <1>6 DEF NoErrors

\* A thread announces itself.
LEMMA ThreadBeginKeepsInv ==
  ASSUME TreeInv, NEW t \in Threads, ThreadBegin(t)
  PROVE  TreeInv'
<1> USE KeysApart DEF TreeInv
<1>1. /\ LogTypeOK' /\ WellNumbered' /\ errors' = errors
      /\ infos' = infos \cup {t}
      /\ \A j \in Keys : timeEnd'[j] = timeEnd[j]
  <2>1. t \in Keys /\ t \notin infos /\ AddBegin(t)
    BY DEF ThreadBegin, ThreadInv, ThreadOK
  <2>2. QED
    BY <2>1, BeginRecorded DEF TreeTypeOK
<1>2. TreeTypeOK'
  BY <1>1, OneParent DEF ThreadBegin, TreeTypeOK, Places
<1>3. MainInv'
  BY <1>1 DEF ThreadBegin, MainInv, TreeTypeOK
<1>4. ThreadInv'
  <2> SUFFICES ASSUME NEW u \in Threads, NEW r \in Procs, r = u[1]
               PROVE  ThreadOK(u, r)'
    BY DEF ThreadInv
  <2>1. ThreadOK(u, r)
    BY DEF ThreadInv
  <2>2. /\ thread[t] = "begin" /\ thread' = [thread EXCEPT ![t] = "end"]
        /\ at' = at
    BY DEF ThreadBegin
  <2>3. CASE u = t
    <3>1. timeEnd[t] = 0
      <4>1. t \notin infos
        BY <2>1, <2>2, <2>3 DEF ThreadOK
      <4>2. QED
        BY <4>1 DEF WellNumbered
    <3>2. QED
      BY <1>1, <2>1, <2>2, <2>3, <3>1 DEF ThreadOK, TreeTypeOK
  <2>4. CASE u # t
    BY <1>1, <2>1, <2>2, <2>4 DEF ThreadOK, TreeTypeOK
  <2>5. QED
    BY <2>3, <2>4
<1>5. KidInv'
  <2> SUFFICES ASSUME NEW q \in Procs, NEW j \in DOMAIN children[q],
                      NEW c \in Procs, c = children[q][j]
               PROVE  KidOK(c, q, j)'
    BY OneParent DEF KidInv
  <2>1. KidOK(c, q, j)
    BY DEF KidInv
  <2>9. QED
    BY <1>1, <2>1 DEF ThreadBegin, KidOK, Gone, MainInv, TreeTypeOK
<1>6. LoopInv'
  BY <1>1 DEF ThreadBegin, LoopInv, TreeTypeOK
<1>7. QED
  BY <1>1, <1>2, <1>3, <1>4, <1>5, <1>6 DEF NoErrors

\* A thread announces its end.
LEMMA ThreadEndKeepsInv ==
  ASSUME TreeInv, NEW t \in Threads, ThreadEnd(t)
  PROVE  TreeInv'
<1> USE KeysApart DEF TreeInv
<1>1. /\ LogTypeOK' /\ WellNumbered' /\ errors' = errors
      /\ infos' = infos
      /\ timeEnd'[t] # 0
      /\ \A j \in Keys \ {t} : timeEnd'[j] = timeEnd[j]
  <2>1. t \in Keys /\ t \in infos /\ timeEnd[t] = 0 /\ AddEnd(t)
    BY DEF ThreadEnd, ThreadInv, ThreadOK
  <2>2. QED
    BY <2>1, EndRecorded DEF TreeTypeOK
<1>2. TreeTypeOK'
  BY <1>1, OneParent DEF ThreadEnd, TreeTypeOK, Places
<1>3. MainInv'
  BY <1>1 DEF ThreadEnd, MainInv, TreeTypeOK
<1>4. ThreadInv'
  <2> SUFFICES ASSUME NEW u \in Threads, NEW r \in Procs, r = u[1]
               PROVE  ThreadOK(u, r)'
    BY DEF ThreadInv
  <2>1. ThreadOK(u, r)
    BY DEF ThreadInv
  <2>2. QED
    BY <1>1, <2>1 DEF ThreadEnd, ThreadOK, MainInv, TreeTypeOK
<1>5. KidInv'
  <2> SUFFICES ASSUME NEW q \in Procs, NEW j \in DOMAIN children[q],
                      NEW c \in Procs, c = children[q][j]
               PROVE  KidOK(c, q, j)'
    BY OneParent DEF KidInv
  <2>1. KidOK(c, q, j)
    BY DEF KidInv
  <2>9. QED
    BY <1>1, <2>1 DEF ThreadEnd, KidOK, Gone, MainInv, TreeTypeOK
<1>6. LoopInv'
  BY <1>1 DEF ThreadEnd, LoopInv, TreeTypeOK
<1>7. QED
  BY <1>1, <1>2, <1>3, <1>4, <1>5, <1>6 DEF NoErrors

\* A process joins its threads.
LEMMA JoinThreadsKeepsInv ==
  ASSUME TreeInv, NEW p \in Procs, JoinThreads(p)
  PROVE  TreeInv'
<1> USE KeysApart DEF TreeInv
<1>1. /\ LogTypeOK' /\ WellNumbered' /\ errors' = errors
      /\ infos' = infos /\ timeEnd' = timeEnd
  BY Untouched DEF JoinThreads, TreeTypeOK, logVars
<1>2. TreeTypeOK'
  BY <1>1, OneParent DEF JoinThreads, Goto, TreeTypeOK, Places
<1>3. MainInv'
  BY <1>1 DEF JoinThreads, Goto, MainInv, TreeTypeOK
<1>4. ThreadInv'
  <2> SUFFICES ASSUME NEW u \in Threads, NEW r \in Procs, r = u[1]
               PROVE  ThreadOK(u, r)'
    BY DEF ThreadInv
  <2>1. ThreadOK(u, r)
    BY DEF ThreadInv
  <2>2. QED
    BY <1>1, <2>1 DEF JoinThreads, Goto, ThreadOK, MainInv, TreeTypeOK
<1>5. KidInv'
  <2> SUFFICES ASSUME NEW q \in Procs, NEW j \in DOMAIN children[q],
                      NEW c \in Procs, c = children[q][j]
               PROVE  KidOK(c, q, j)'
    BY OneParent DEF KidInv
  <2>1. KidOK(c, q, j)
    BY DEF KidInv
  <2>9. QED
    BY <1>1, <2>1 DEF JoinThreads, Goto, KidOK, Gone, MainInv, TreeTypeOK
<1>6. LoopInv'
  BY <1>1 DEF JoinThreads, Goto, LoopInv, TreeTypeOK
<1>7. QED
  BY <1>1, <1>2, <1>3, <1>4, <1>5, <1>6 DEF NoErrors

\* A wait returns, for this child, another one, or none.
LEMMA WaitKeepsInv ==
  ASSUME TreeInv, NEW p \in Procs, Wait(p)
  PROVE  TreeInv'
<1> USE KeysApart DEF TreeInv
<1>1. /\ LogTypeOK' /\ WellNumbered' /\ errors' = errors
      /\ infos' = infos /\ timeEnd' = timeEnd
  BY Untouched DEF Wait, TreeTypeOK, logVars
<1>2. TreeTypeOK'
  BY <1>1, OneParent DEF Wait, WaitFor, WaitForAny, Awaitable, Kids, TreeTypeOK, Places
<1>3. MainInv'
  BY <1>1 DEF Wait, WaitFor, WaitForAny, Awaitable, Kids, MainInv, TreeTypeOK
<1>4. ThreadInv'
  <2> SUFFICES ASSUME NEW u \in Threads, NEW r \in Procs, r = u[1]
               PROVE  ThreadOK(u, r)'
    BY DEF ThreadInv
  <2>1. ThreadOK(u, r)
    BY DEF ThreadInv
  <2>2. QED
    BY <1>1, <2>1 DEF Wait, WaitFor, WaitForAny, Awaitable, Kids, ThreadOK, MainInv, TreeTypeOK
<1>5. KidInv'
  <2> SUFFICES ASSUME NEW q \in Procs, NEW j \in DOMAIN children[q],
                      NEW c \in Procs, c = children[q][j]
               PROVE  KidOK(c, q, j)'
    BY OneParent DEF KidInv
  <2>1. KidOK(c, q, j)
    BY DEF KidInv
  <2>2. at' = at /\ UNCHANGED <<forked, failed, hangup>>
    BY DEF Wait
  <2>3. c \in reaped' => Gone(c)
    BY <2>1 DEF Wait, WaitFor, WaitForAny, KidOK
  <2>4. j <= waited'[q] => c \in failed \/ Gone(c)
    <3>1. CASE j <= waited[q]
      BY <2>1, <3>1 DEF KidOK
    <3>2. CASE q = p /\ j = waited[p] + 1 /\ c \notin failed
      <4>1. WaitFor(p, c) /\ at[p] = "wait" /\ j <= Len(children[p])
        BY <3>2, OneParent DEF Wait
      <4>2. at[c] # "absent"
        BY <2>1, <3>2, <4>1 DEF KidOK, LoopInv
      <4>3. c \in Kids(p)
        BY <3>2 DEF Kids
      <4>4. QED
        BY <2>1, <4>1, <4>2, <4>3 DEF WaitFor, Awaitable, KidOK
    <3>3. j \in Nat /\ (j <= waited'[q] => j <= waited[q] \/ (q = p /\ j = waited[p] + 1))
      <4>1. j \in Nat
        BY OneParent
      <4>2. waited \in [Procs -> Nat] /\ waited' = [waited EXCEPT ![p] = waited[p] + 1]
        BY DEF Wait, TreeTypeOK
      <4>3. CASE q = p
        <5>1. waited'[q] = waited[p] + 1 /\ waited[p] \in Nat
          BY <4>2, <4>3
        <5>2. QED
          BY <4>1, <4>3, <5>1
      <4>4. CASE q # p
        <5>1. waited'[q] = waited[q]
          BY <4>2, <4>4
        <5>2. QED
          BY <4>1, <5>1
      <4>5. QED
        BY <4>3, <4>4
    <3>4. QED
      BY <3>1, <3>2, <3>3
  <2>9. QED
    BY <1>1, <2>1, <2>2, <2>3, <2>4 DEF KidOK, Gone
<1>6. LoopInv'
  BY <1>1 DEF Wait, WaitFor, WaitForAny, Awaitable, Kids, LoopInv, TreeTypeOK
<1>7. QED
  BY <1>1, <1>2, <1>3, <1>4, <1>5, <1>6 DEF NoErrors

\* A process announces its end and exits.
LEMMA EndKeepsInv ==
  ASSUME TreeInv, NEW p \in Procs, End(p)
  PROVE  TreeInv'
<1> USE KeysApart DEF TreeInv
<1>1. /\ LogTypeOK' /\ WellNumbered' /\ errors' = errors
      /\ infos' = infos
      /\ timeEnd'[Main(p)] # 0
      /\ \A j \in Keys \ {Main(p)} : timeEnd'[j] = timeEnd[j]
  <2>1. Main(p) \in Keys /\ Main(p) \in infos /\ timeEnd[Main(p)] = 0 /\ AddEnd(Main(p))
    BY DEF End, MainInv
  <2>2. QED
    BY <2>1, EndRecorded DEF TreeTypeOK
<1>2. TreeTypeOK'
  BY <1>1, OneParent DEF End, Goto, Armed, Alive, Kids, TreeTypeOK, Places
<1>3. MainInv'
  BY <1>1 DEF End, Goto, Armed, Alive, Kids, MainInv, TreeTypeOK
<1>4. ThreadInv'
  <2> SUFFICES ASSUME NEW u \in Threads, NEW r \in Procs, r = u[1]
               PROVE  ThreadOK(u, r)'
    BY DEF ThreadInv
  <2>1. ThreadOK(u, r)
    BY DEF ThreadInv
  <2>2. QED
    BY <1>1, <2>1 DEF End, Goto, Armed, Alive, Kids, ThreadOK, MainInv, TreeTypeOK
<1>5. KidInv'
  <2> SUFFICES ASSUME NEW q \in Procs, NEW j \in DOMAIN children[q],
                      NEW c \in Procs, c = children[q][j]
               PROVE  KidOK(c, q, j)'
    BY OneParent DEF KidInv
  <2>1. KidOK(c, q, j)
    BY DEF KidInv
  <2>2. c \in Kids(p) => q = p
    BY OneParent DEF Kids
  <2>3. at[p] = "wait" /\ at' = [at EXCEPT ![p] = "exited"]
    BY DEF End, Goto
  <2>4. (Gone(q) => Gone(q)') /\ Gone(p)' /\ (at'[c] = "killed" => at[c] = "killed")
    BY <2>3 DEF Gone, TreeTypeOK
  <2>5. at'[c] # "absent" <=> at[c] # "absent"
    BY <2>3 DEF TreeTypeOK
  <2>6. Gone(c) => Gone(c)'
    BY <2>3 DEF Gone, TreeTypeOK
  <2>7. c \in hangup' => c \in hangup \/ q = p
    BY <2>2 DEF End, Armed
  <2>8. UNCHANGED <<forked, waited, failed, reaped>>
    BY DEF End
  <2>9. QED
    BY <1>1, <2>1, <2>4, <2>5, <2>6, <2>7, <2>8 DEF KidOK
<1>6. LoopInv'
  BY <1>1 DEF End, Goto, Armed, Alive, Kids, LoopInv, TreeTypeOK
<1>7. QED
  BY <1>1, <1>2, <1>3, <1>4, <1>5, <1>6 DEF NoErrors

\* A process is killed: P1 by the tester, others after their parent.
LEMMA DieKeepsInv ==
  ASSUME TreeInv, NEW p \in Procs, Die(p), Alive(p), p = Root \/ p \in hangup
  PROVE  TreeInv'
<1> USE KeysApart DEF TreeInv
<1>1. /\ LogTypeOK' /\ WellNumbered' /\ errors' = errors
      /\ infos' = infos /\ timeEnd' = timeEnd
  BY Untouched DEF Die, TreeTypeOK, logVars
<1>0. jammed' \in BOOLEAN
  BY DEF Die, MayHold, TreeTypeOK
<1>2. TreeTypeOK'
  BY <1>0, <1>1, OneParent DEF Die, Goto, Armed, Alive, Kids, TreeTypeOK, Places
<1>3. MainInv'
  BY <1>1 DEF Die, Goto, Armed, Alive, Kids, MainInv, TreeTypeOK
<1>4. ThreadInv'
  <2> SUFFICES ASSUME NEW u \in Threads, NEW r \in Procs, r = u[1]
               PROVE  ThreadOK(u, r)'
    BY DEF ThreadInv
  <2>1. ThreadOK(u, r)
    BY DEF ThreadInv
  <2>2. QED
    BY <1>1, <2>1 DEF Die, Goto, Armed, Alive, Kids, ThreadOK, MainInv, TreeTypeOK
<1>5. KidInv'
  <2> SUFFICES ASSUME NEW q \in Procs, NEW j \in DOMAIN children[q],
                      NEW c \in Procs, c = children[q][j]
               PROVE  KidOK(c, q, j)'
    BY OneParent DEF KidInv
  <2>1. KidOK(c, q, j)
    BY DEF KidInv
  <2>2. c \in Kids(p) => q = p
    BY OneParent DEF Kids
  <2>3. at' = [at EXCEPT ![p] = "killed"] /\ at[p] # "absent"
    BY DEF Die, Goto, Alive
  <2>4. (Gone(q) => Gone(q)') /\ Gone(p)' /\ (Gone(c) => Gone(c)')
    BY <2>3 DEF Gone, TreeTypeOK
  <2>5. at'[c] # "absent" <=> at[c] # "absent"
    BY <2>3 DEF TreeTypeOK
  <2>6. at'[c] = "killed" => at[c] = "killed" \/ c \in hangup
    BY <2>3, OneParent DEF TreeTypeOK
  <2>7. c \in hangup' => c \in hangup \/ q = p
    BY <2>2 DEF Die, Armed
  <2>8. UNCHANGED <<forked, waited, failed, reaped>>
    BY DEF Die
  <2>9. QED
    BY <1>1, <2>1, <2>4, <2>5, <2>6, <2>7, <2>8 DEF KidOK
<1>6. LoopInv'
  BY <1>1 DEF Die, Goto, Armed, Alive, Kids, LoopInv, TreeTypeOK
<1>7. QED
  BY <1>1, <1>2, <1>3, <1>4, <1>5, <1>6 DEF NoErrors

\* Nothing moves.
LEMMA StutterKeepsInv ==
  ASSUME TreeInv, UNCHANGED vars
  PROVE  TreeInv'
BY DEF TreeInv, vars, logVars, treeVars, TreeTypeOK, LogTypeOK, WellNumbered, NoErrors,
       MainInv, ThreadInv, ThreadOK, KidInv, KidOK, LoopInv, Gone
-----------------------------------------------------------------------------
\* The invariant of the tree of processes, and with it that nobody is refused.
THEOREM TreeInvariance == Spec => []TreeInv
<1>1. Init => TreeInv
  <2> SUFFICES ASSUME Init PROVE TreeInv
    OBVIOUS
  <2> USE KeysApart, OneParent DEF Init, EmptyLog
  <2>0. jammed \in BOOLEAN
    OBVIOUS
  <2>1. TreeTypeOK /\ WellNumbered /\ NoErrors
    BY <2>0, TreeAssumption, MessageLogAssumption
       DEF TreeTypeOK, LogTypeOK, WellNumbered, NoErrors, Places
  <2>2. MainInv /\ LoopInv
    BY DEF MainInv, LoopInv
  <2>3. ThreadInv
    BY DEF ThreadInv, ThreadOK
  <2>4. KidInv
    <3> SUFFICES ASSUME NEW q \in Procs, NEW j \in DOMAIN children[q],
                        NEW c \in Procs \ {Root}, c = children[q][j]
                 PROVE  KidOK(c, q, j)
      BY DEF KidInv
    <3>1. at[c] = "absent" /\ j \in Nat /\ ~ (j <= 0)
      OBVIOUS
    <3>2. QED
      BY <3>1 DEF KidOK, Gone
  <2>5. QED
    BY <2>1, <2>2, <2>3, <2>4 DEF TreeInv
<1>2. TreeInv /\ [Next]_vars => TreeInv'
  <2> SUFFICES ASSUME TreeInv, [Next]_vars PROVE TreeInv'
    OBVIOUS
  <2>1. ASSUME NEW p \in Procs, MainStep(p) PROVE TreeInv'
    BY <2>1, BeginKeepsInv, ForkKeepsInv, ArmKeepsInv, CreateThreadsKeepsInv,
       JoinThreadsKeepsInv, WaitKeepsInv, EndKeepsInv, DieKeepsInv
       DEF MainStep, Hangup
  <2>2. ASSUME NEW k \in Threads, ThreadStep(k) PROVE TreeInv'
    BY <2>2, ThreadBeginKeepsInv, ThreadEndKeepsInv DEF ThreadStep
  <2>3. CASE Kill
    BY <2>3, TreeAssumption, DieKeepsInv DEF Kill
  <2>4. CASE UNCHANGED vars
    BY <2>4, StutterKeepsInv
  <2>5. QED
    BY <2>1, <2>2, <2>3, <2>4 DEF Next, Ended
<1>3. QED
  BY <1>1, <1>2, PTL DEF Spec

\* No message is refused.
THEOREM NoErrorsHolds == Spec => []NoErrors
BY TreeInvariance, PTL DEF TreeInv
-----------------------------------------------------------------------------
\* An accepted message, and the times.
LEMMA BeginTimes ==
  ASSUME LogTypeOK, NEW k \in Keys, k \notin infos, AddBegin(k)
  PROVE  /\ infos' = infos \cup {k}
         /\ timeStart' = [timeStart EXCEPT ![k] = time + 1]
         /\ timeEnd' = [timeEnd EXCEPT ![k] = 0]
BY DEF AddBegin, AcceptsBegin, RecordBegin, NextTime

LEMMA EndTimes ==
  ASSUME LogTypeOK, NEW k \in Keys, k \in infos, timeEnd[k] = 0, AddEnd(k)
  PROVE  /\ infos' = infos /\ timeStart' = timeStart
         /\ timeEnd' = [timeEnd EXCEPT ![k] = time + 1]
BY DEF AddEnd, AcceptsEnd, RecordEnd, NextTime

\* A process and one of its children, or a process and one of its threads.
Enclosed(outer, inner) ==
  /\ inner \in infos => outer \in infos /\ timeStart[outer] < timeStart[inner]
  /\ inner \in infos /\ outer \in infos /\ timeEnd[outer] # 0
       => timeEnd[inner] # 0 /\ timeEnd[inner] < timeEnd[outer]

\* A BEGIN keeps the messages of outer around those of inner, if that of inner
\* comes after the BEGIN and before the END of outer.
LEMMA BeginEnclosed ==
  ASSUME LogTypeOK, WellNumbered, NEW outer \in Keys, NEW inner \in Keys,
         outer # inner, Enclosed(outer, inner),
         NEW k \in Keys, k \notin infos, AddBegin(k),
         k = inner => outer \in infos /\ timeEnd[outer] = 0
  PROVE  Enclosed(outer, inner)'
<1>1. /\ infos' = infos \cup {k}
      /\ timeStart' = [timeStart EXCEPT ![k] = time + 1]
      /\ timeEnd' = [timeEnd EXCEPT ![k] = 0]
  BY BeginTimes
<1>2. CASE k = inner
  <2>1. timeStart[outer] \in 1..time /\ time \in Nat
    BY <1>2 DEF WellNumbered, LogTypeOK
  <2>2. QED
    BY <1>1, <1>2, <2>1 DEF Enclosed, LogTypeOK
<1>3. CASE k # inner
  BY <1>1, <1>3 DEF Enclosed, LogTypeOK
<1>4. QED
  BY <1>2, <1>3

\* So does an END, if that of outer comes after that of inner.
LEMMA EndEnclosed ==
  ASSUME LogTypeOK, WellNumbered, NEW outer \in Keys, NEW inner \in Keys,
         outer # inner, Enclosed(outer, inner),
         NEW k \in Keys, k \in infos, timeEnd[k] = 0, AddEnd(k),
         k = outer /\ inner \in infos => timeEnd[inner] # 0
  PROVE  Enclosed(outer, inner)'
<1>1. /\ infos' = infos /\ timeStart' = timeStart
      /\ timeEnd' = [timeEnd EXCEPT ![k] = time + 1]
  BY EndTimes
<1>2. CASE k = outer
  <2>1. inner \in infos => timeEnd[inner] \in Nat /\ timeEnd[inner] <= time /\ time \in Nat
    BY <1>2 DEF WellNumbered, LogTypeOK
  <2>2. QED
    BY <1>1, <1>2, <2>1 DEF Enclosed, LogTypeOK
<1>3. CASE k # outer
  BY <1>1, <1>3 DEF Enclosed, LogTypeOK
<1>4. QED
  BY <1>2, <1>3

\* The messages of a parent stay around those of its child: the child begins
\* while its parent has still to wait for it.
LEMMA KidStaysEnclosed ==
  ASSUME TreeInv, [Next]_vars, NEW p \in Procs, NEW i \in DOMAIN children[p],
         NEW c \in Procs, c = children[p][i], Enclosed(Main(p), Main(c))
  PROVE  Enclosed(Main(p), Main(c))'
<1> USE KeysApart DEF TreeInv
<1>1. /\ KidOK(c, p, i) /\ i \in 1..Len(children[p]) /\ Main(p) # Main(c)
      /\ Main(p) \in Keys /\ Main(c) \in Keys
  <2>1. c # p
    BY TreeAssumption DEF Kids
  <2>2. QED
    BY <2>1, OneParent DEF KidInv
<1>2. LogTypeOK /\ WellNumbered
  BY DEF TreeTypeOK
<1>3. ASSUME NEW q \in Procs, Begin(q) PROVE Enclosed(Main(p), Main(c))'
  <2>1. Main(q) \notin infos /\ AddBegin(Main(q)) /\ at[q] = "begin"
    BY <1>3 DEF Begin, MainInv
  <2>2. ASSUME q = c PROVE Main(p) \in infos /\ timeEnd[Main(p)] = 0
    <3>1. Main(p) \in infos /\ c \notin failed /\ i <= forked[p] /\ ~ Gone(c)
      BY <1>1, <2>1, <2>2 DEF KidOK, Gone
    <3>2. at[p] # "exited"
      BY <1>1, <3>1 DEF KidOK, LoopInv
    <3>3. QED
      BY <3>1, <3>2 DEF MainInv
  <2>3. QED
    BY <1>1, <1>2, <2>1, <2>2, BeginEnclosed
<1>4. ASSUME NEW k \in Threads, ThreadBegin(k) PROVE Enclosed(Main(p), Main(c))'
  <2>1. k \notin infos /\ AddBegin(k) /\ k # Main(c) /\ k \in Keys
    BY <1>4 DEF ThreadBegin, ThreadInv, ThreadOK
  <2>2. QED
    BY <1>1, <1>2, <2>1, BeginEnclosed
<1>5. ASSUME NEW k \in Threads, ThreadEnd(k) PROVE Enclosed(Main(p), Main(c))'
  <2>1. k \in infos /\ timeEnd[k] = 0 /\ AddEnd(k) /\ k # Main(p) /\ k \in Keys
    BY <1>5 DEF ThreadEnd, ThreadInv, ThreadOK
  <2>2. QED
    BY <1>1, <1>2, <2>1, EndEnclosed
<1>6. ASSUME NEW q \in Procs, End(q) PROVE Enclosed(Main(p), Main(c))'
  <2>1. Main(q) \in infos /\ timeEnd[Main(q)] = 0 /\ AddEnd(Main(q)) /\ at[q] = "wait"
    BY <1>6 DEF End, MainInv
  <2>2. ASSUME q = p, Main(c) \in infos PROVE timeEnd[Main(c)] # 0
    <3>1. c \in failed \/ Gone(c)
      BY <1>1, <1>6, <2>2 DEF End, KidOK
    <3>2. at[c] # "absent" /\ at[c] # "killed"
      BY <1>1, <2>1, <2>2 DEF KidOK, MainInv, Gone
    <3>3. QED
      BY <1>1, <3>1, <3>2 DEF KidOK, Gone, MainInv
  <2>3. QED
    BY <1>1, <1>2, <2>1, <2>2, EndEnclosed
<1>7. ASSUME UNCHANGED logVars PROVE Enclosed(Main(p), Main(c))'
  BY <1>7 DEF logVars, Enclosed
<1>8. QED
  BY <1>3, <1>4, <1>5, <1>6, <1>7
     DEF Next, MainStep, ThreadStep, Fork, Arm, CreateThreads, JoinThreads, Wait,
         Hangup, Kill, Die, Ended, vars

\* The messages of a process stay around those of its threads.
LEMMA ThreadStaysEnclosed ==
  ASSUME TreeInv, [Next]_vars, NEW k \in Threads, NEW p \in Procs, p = k[1],
         Enclosed(Main(p), k)
  PROVE  Enclosed(Main(p), k)'
<1> USE KeysApart DEF TreeInv
<1>1. ThreadOK(k, p) /\ Main(p) # k /\ Main(p) \in Keys /\ k \in Keys
  BY DEF ThreadInv
<1>2. LogTypeOK /\ WellNumbered
  BY DEF TreeTypeOK
<1>3. ASSUME NEW q \in Procs, Begin(q) PROVE Enclosed(Main(p), k)'
  <2>1. Main(q) \notin infos /\ AddBegin(Main(q)) /\ Main(q) # k
    BY <1>3 DEF Begin, MainInv
  <2>2. QED
    BY <1>1, <1>2, <2>1, BeginEnclosed
<1>4. ASSUME NEW t \in Threads, ThreadBegin(t) PROVE Enclosed(Main(p), k)'
  <2>1. t \notin infos /\ AddBegin(t) /\ t \in Keys /\ thread[t] = "begin"
    BY <1>4 DEF ThreadBegin, ThreadInv, ThreadOK
  <2>2. t = k => Main(p) \in infos /\ timeEnd[Main(p)] = 0
    BY <1>1, <2>1 DEF ThreadOK, MainInv
  <2>3. QED
    BY <1>1, <1>2, <2>1, <2>2, BeginEnclosed
<1>5. ASSUME NEW t \in Threads, ThreadEnd(t) PROVE Enclosed(Main(p), k)'
  <2>1. t \in infos /\ timeEnd[t] = 0 /\ AddEnd(t) /\ t # Main(p) /\ t \in Keys
    BY <1>5 DEF ThreadEnd, ThreadInv, ThreadOK
  <2>2. QED
    BY <1>1, <1>2, <2>1, EndEnclosed
<1>6. ASSUME NEW q \in Procs, End(q) PROVE Enclosed(Main(p), k)'
  <2>1. Main(q) \in infos /\ timeEnd[Main(q)] = 0 /\ AddEnd(Main(q)) /\ at[q] = "wait"
    BY <1>6 DEF End, MainInv
  <2>2. q = p => timeEnd[k] # 0
    BY <1>1, <2>1 DEF ThreadOK
  <2>3. QED
    BY <1>1, <1>2, <2>1, <2>2, EndEnclosed
<1>7. ASSUME UNCHANGED logVars PROVE Enclosed(Main(p), k)'
  BY <1>7 DEF logVars, Enclosed
<1>8. QED
  BY <1>3, <1>4, <1>5, <1>6, <1>7
     DEF Next, MainStep, ThreadStep, Fork, Arm, CreateThreads, JoinThreads, Wait,
         Hangup, Kill, Die, Ended, vars

\* At every moment, whatever fails and whoever is killed, the messages of a process
\* lie within those of its parent: what checkProcessHierarchy() asks for.
THEOREM ParentsEncloseHolds == Spec => []ParentsEnclose
<1> DEFINE Kept == \A p \in Procs : \A i \in DOMAIN children[p] :
                     Enclosed(Main(p), Main(children[p][i]))
<1>1. Init => Kept
  BY KeysApart, OneParent DEF Init, EmptyLog, Enclosed
<1>2. TreeInv /\ Kept /\ [Next]_vars => Kept'
  <2> SUFFICES ASSUME TreeInv, Kept, [Next]_vars, NEW p \in Procs,
                      NEW i \in DOMAIN children[p], NEW c \in Procs, c = children[p][i]
               PROVE  Enclosed(Main(p), Main(c))'
    BY OneParent
  <2>1. QED
    BY KidStaysEnclosed
<1>3. Kept => ParentsEnclose
  BY DEF ParentsEnclose, Enclosed, Kids
<1>4. QED
  BY <1>1, <1>2, <1>3, TreeInvariance, PTL DEF Spec

\* The messages of a thread lie within those of its process.
THEOREM ProcessesEncloseHolds == Spec => []ProcessesEnclose
<1> DEFINE Kept == \A k \in Threads : Enclosed(Main(k[1]), k)
<1>1. Init => Kept
  BY KeysApart DEF Init, EmptyLog, Enclosed
<1>2. TreeInv /\ Kept /\ [Next]_vars => Kept'
  <2> SUFFICES ASSUME TreeInv, Kept, [Next]_vars, NEW k \in Threads,
                      NEW p \in Procs, p = k[1]
               PROVE  Enclosed(Main(p), k)'
    BY KeysApart
  <2>1. QED
    BY ThreadStaysEnclosed
<1>3. Kept => ProcessesEnclose
  BY DEF ProcessesEnclose, Enclosed
<1>4. QED
  BY <1>1, <1>2, <1>3, TreeInvariance, PTL DEF Spec
-----------------------------------------------------------------------------
\* The parent a process names at its BEGIN is the one that forked it, unless the
\* latter was killed before.
PpidInv ==
  \A p \in Procs \ {Root} :
    Main(p) \in infos => ppid[p] = Parent(p) \/ at[Parent(p)] = "killed"

\* The parent of a process, and its place in the loop of fork().
LEMMA ParentOf ==
  ASSUME NEW c \in Procs \ {Root}
  PROVE  /\ Parent(c) \in Procs /\ c \in Kids(Parent(c))
         /\ \E i \in DOMAIN children[Parent(c)] : c = children[Parent(c)][i]
         /\ \A q \in Procs : c \in Kids(q) => q = Parent(c)
<1>1. Parent(c) \in Procs /\ c \in Kids(Parent(c))
  BY TreeAssumption DEF Parent
<1> QED
  BY <1>1, OneParent DEF Kids

\* A process that is not dead of a signal ends after its children.
LEMMA KidsFirst ==
  ASSUME TreeInv, NEW c \in Procs \ {Root}, at[Parent(c)] = "exited"
  PROVE  c \in failed \/ Gone(c)
<1>1. PICK i \in DOMAIN children[Parent(c)] : c = children[Parent(c)][i]
  BY ParentOf
<1>2. Parent(c) \in Procs /\ i \in 1..Len(children[Parent(c)])
  BY <1>1, ParentOf, OneParent
<1>3. KidOK(c, Parent(c), i)
  BY <1>1, <1>2 DEF TreeInv, KidInv
<1>4. waited[Parent(c)] = Len(children[Parent(c)])
  BY <1>2 DEF TreeInv, LoopInv
<1> QED
  BY <1>2, <1>3, <1>4 DEF KidOK

LEMMA PpidKept ==
  ASSUME TreeInv, PpidInv, [Next]_vars
  PROVE  PpidInv'
<1> SUFFICES ASSUME NEW c \in Procs \ {Root}, Main(c) \in infos'
             PROVE  ppid'[c] = Parent(c) \/ at'[Parent(c)] = "killed"
  BY DEF PpidInv
<1> USE KeysApart DEF TreeInv
<1>0. Parent(c) \in Procs /\ LogTypeOK /\ WellNumbered
  BY ParentOf DEF TreeTypeOK
<1>1. ASSUME NEW q \in Procs, Begin(q)
      PROVE  ppid'[c] = Parent(c) \/ at'[Parent(c)] = "killed"
  <2>1. /\ infos' = infos \cup {Main(q)}
        /\ at' = [at EXCEPT ![q] = "fork"] /\ at[q] = "begin"
        /\ ppid' = [ppid EXCEPT
             ![q] = IF q # Root /\ ~ Gone(Parent(q)) THEN Parent(q) ELSE Orphaned]
    <3>1. Main(q) \in Keys /\ Main(q) \notin infos /\ AddBegin(Main(q))
      BY <1>1 DEF Begin, MainInv
    <3> QED
      BY <1>0, <1>1, <3>1, BeginRecorded DEF Begin, Goto
  <2>2. CASE q = c
    <3>1. ppid'[c] = IF ~ Gone(Parent(c)) THEN Parent(c) ELSE Orphaned
      BY <2>1, <2>2 DEF TreeTypeOK
    <3>2. CASE Gone(Parent(c))
      <4>1. c \in failed \/ Gone(c) => FALSE
        <5>1. PICK i \in DOMAIN children[Parent(c)] : c = children[Parent(c)][i]
          BY ParentOf
        <5>2. KidOK(c, Parent(c), i)
          BY <5>1, <1>0 DEF KidInv
        <5> QED
          BY <5>2, <2>1, <2>2 DEF KidOK, Gone
      <4>2. at[Parent(c)] = "killed"
        BY <3>2, <4>1, KidsFirst DEF Gone
      <4> QED
        BY <1>0, <2>1, <4>2 DEF TreeTypeOK
    <3> QED
      BY <3>1, <3>2
  <2>3. CASE q # c
    <3>1. Main(c) \in infos /\ ppid'[c] = ppid[c]
      BY <2>1, <2>3 DEF TreeTypeOK
    <3>2. at[Parent(c)] = "killed" => at'[Parent(c)] = "killed"
      BY <1>0, <2>1 DEF TreeTypeOK
    <3> QED
      BY <3>1, <3>2 DEF PpidInv
  <2> QED
    BY <2>2, <2>3
<1>2. ASSUME Main(c) \in infos, ppid' = ppid,
             at[Parent(c)] = "killed" => at'[Parent(c)] = "killed"
      PROVE  ppid'[c] = Parent(c) \/ at'[Parent(c)] = "killed"
  BY <1>2 DEF PpidInv
<1>3. ASSUME NEW k \in Threads, ThreadStep(k)
      PROVE  /\ Main(c) \in infos /\ ppid' = ppid
             /\ at[Parent(c)] = "killed" => at'[Parent(c)] = "killed"
  <2>1. CASE ThreadBegin(k)
    <3>1. k \in Keys /\ k \notin infos /\ AddBegin(k) /\ k # Main(c)
      BY <2>1 DEF ThreadBegin, ThreadInv, ThreadOK
    <3>2. infos' = infos \cup {k}
      BY <1>0, <3>1, BeginRecorded
    <3> QED
      BY <2>1, <3>1, <3>2 DEF ThreadBegin
  <2>2. CASE ThreadEnd(k)
    <3>1. k \in Keys /\ k \in infos /\ timeEnd[k] = 0 /\ AddEnd(k)
      BY <2>2 DEF ThreadEnd, ThreadInv, ThreadOK
    <3>2. infos' = infos
      BY <1>0, <3>1, EndRecorded
    <3> QED
      BY <2>2, <3>2 DEF ThreadEnd
  <2> QED
    BY <1>3, <2>1, <2>2 DEF ThreadStep
<1>4. ASSUME NEW q \in Procs, MainStep(q), ~ Begin(q)
      PROVE  /\ Main(c) \in infos /\ ppid' = ppid
             /\ at[Parent(c)] = "killed" => at'[Parent(c)] = "killed"
  <2>1. CASE End(q)
    <3>1. Main(q) \in Keys /\ Main(q) \in infos /\ timeEnd[Main(q)] = 0 /\ AddEnd(Main(q))
      BY <2>1 DEF End, MainInv
    <3>2. infos' = infos
      BY <1>0, <3>1, EndRecorded
    <3> QED
      BY <1>0, <2>1, <3>2 DEF End, Goto, TreeTypeOK
  <2>2. CASE Fork(q)
    <3>1. infos' = infos /\ ppid' = ppid
      BY <2>2 DEF Fork, logVars
    <3> DEFINE k == children[q][forked[q] + 1]
    <3>2. k \in Procs /\ at[k] = "absent"
      <4>1. forked[q] + 1 \in DOMAIN children[q] /\ ~ (forked[q] + 1 <= forked[q])
        BY <2>2, OneParent DEF Fork, TreeTypeOK
      <4>2. KidOK(k, q, forked[q] + 1)
        BY <4>1 DEF KidInv
      <4> QED
        BY <4>1, <4>2, OneParent DEF KidOK
    <3>3. at' = at \/ at' = [at EXCEPT ![k] = "handler"]
      BY <2>2 DEF Fork, Goto
    <3> HIDE DEF k
    <3> QED
      BY <1>0, <3>1, <3>2, <3>3 DEF TreeTypeOK
  <2>3. CASE Hangup(q)
    BY <1>0, <2>3 DEF Hangup, Die, Goto, logVars, TreeTypeOK
  <2>4. CASE Arm(q) \/ CreateThreads(q) \/ JoinThreads(q)
    BY <1>0, <2>4 DEF Arm, CreateThreads, JoinThreads, Goto, logVars, TreeTypeOK
  <2>5. CASE Wait(q)
    BY <1>0, <2>5 DEF Wait, logVars
  <2> QED
    BY <1>4, <2>1, <2>2, <2>3, <2>4, <2>5 DEF MainStep
<1>5. CASE Kill \/ UNCHANGED vars
  <2>1. /\ Main(c) \in infos /\ ppid' = ppid
        /\ at[Parent(c)] = "killed" => at'[Parent(c)] = "killed"
    BY <1>0, <1>5, TreeAssumption
       DEF Kill, Die, Goto, vars, logVars, treeVars, TreeTypeOK
  <2> QED
    BY <1>2, <2>1
<1> QED
  BY <1>1, <1>2, <1>3, <1>4, <1>5 DEF Next, Ended

\* If nothing has failed and nobody was killed, everybody has ended with P1: else
\* there would be one left whose parent has ended.
LEMMA AllEnded ==
  ASSUME TreeInv, Gone(Root), failed = {}, \A p \in Procs : at[p] # "killed"
  PROVE  \A p \in Procs : at[p] = "exited"
<1> DEFINE S == {p \in Procs : at[p] # "exited"}
<1>1. Root \notin S
  BY DEF Gone
<1>2. S = {}
  <2> SUFFICES ASSUME S # {} PROVE FALSE
    OBVIOUS
  <2>1. S \in SUBSET (Procs \ {Root})
    BY <1>1
  <2> HIDE DEF S
  <2>2. PICK p \in S : \A q \in S : p \notin Kids(q)
    BY <2>1, RootedAssumption
  <2> USE DEF S
  <2>3. p \in Procs \ {Root} /\ at[p] # "exited"
    BY <1>1, <2>2
  <2>4. Parent(p) \in Procs /\ p \in Kids(Parent(p))
    BY <2>3, ParentOf
  <2>5. at[Parent(p)] = "exited"
    BY <2>2, <2>4
  <2>6. Gone(p)
    BY <2>3, <2>5, KidsFirst
  <2> QED
    BY <2>3, <2>6 DEF Gone
<1> QED
  BY <1>2

\* Undisturbed, the program has all the points for its hierarchy, for every tree
\* and whatever the order its processes run in.
THEOREM FullHierarchyScoreHolds == Spec => []FullHierarchyScore
<1>1. Init => PpidInv
  BY DEF Init, EmptyLog, PpidInv
<1>2. ASSUME TreeInv, PpidInv, ParentsEnclose, Gone(Root), failed = {},
             \A p \in Procs : at[p] # "killed"
      PROVE  HierarchyScore(Infos) = Full
  <2>1. \A p \in Procs : at[p] = "exited"
    BY <1>2, AllEnded
  <2>2. \A p \in Procs : Main(p) \in infos /\ timeEnd[Main(p)] # 0
    BY <1>2, <2>1 DEF TreeInv, MainInv
  <2>3. /\ DOMAIN Infos = infos
        /\ \A k \in infos : /\ Infos[k].pid = k[1] /\ Infos[k].ppid = ppid[k[1]]
                            /\ Infos[k].timeStart = timeStart[k]
                            /\ Infos[k].timeEnd = timeEnd[k]
    BY DEF Infos
  <2>4. AllMainsEnded(Infos)
    <3> DEFINE mains == {k \in DOMAIN Infos : k[2] = 0}
    <3>1. \A k \in mains : k \in infos /\ \E p \in Procs : k = Main(p)
      BY <1>2, <2>3, TreeAssumption DEF TreeInv, TreeTypeOK, LogTypeOK
    <3>2. \A p \in Procs : Main(p) \in mains /\ Main(p)[1] = p
      BY <2>2, <2>3 DEF Main
    <3>3. \A k \in mains : Infos[k].timeEnd # 0
      BY <2>2, <2>3, <3>1
    <3>4. {k[1] : k \in mains} = Procs
      <4>1. \A k \in mains : k[1] \in Procs
        BY <3>1, <3>2
      <4>2. \A p \in Procs : \E k \in mains : p = k[1]
        BY <3>2
      <4> HIDE DEF mains
      <4> QED
        BY <4>1, <4>2
    <3> QED
      BY <3>3, <3>4, RequiredAssumption DEF AllMainsEnded
  <2>5. ASSUME NEW p \in 2..data.nrProcs
        PROVE  LET parent == Infos[<<data.procs[p], 0>>]
               IN  /\ Infos[<<p, 0>>].ppid = parent.pid
                   /\ Encloses(parent, Infos[<<p, 0>>])
    <3> DEFINE q == data.procs[p]
    <3>1. p \in Procs \ {Root} /\ q \in Procs /\ p \in Kids(q)
      BY <2>5, RequiredAssumption
    <3>2. q = Parent(p)
      BY <3>1, ParentOf
    <3> HIDE DEF q
    <3>3. ppid[p] = q
      BY <1>2, <2>2, <3>1, <3>2 DEF PpidInv
    <3>4. /\ Main(p) \in infos /\ Main(q) \in infos
          /\ timeEnd[Main(p)] # 0 /\ timeEnd[Main(q)] # 0
      BY <2>2, <3>1
    <3>5. /\ Infos[Main(p)].ppid = Infos[Main(q)].pid
      BY <2>3, <3>3, <3>4 DEF Main
    <3>6. /\ timeStart[Main(q)] < timeStart[Main(p)]
          /\ timeEnd[Main(p)] < timeEnd[Main(q)]
      BY <1>2, <3>1, <3>4 DEF ParentsEnclose
    <3>7. /\ timeStart[Main(q)] \in Nat /\ timeStart[Main(p)] \in Nat
          /\ timeEnd[Main(q)] \in Nat /\ timeEnd[Main(p)] \in Nat
      BY <1>2, <3>4 DEF TreeInv, TreeTypeOK, LogTypeOK
    <3>8. Encloses(Infos[Main(q)], Infos[Main(p)])
      BY <2>3, <3>4, <3>6, <3>7 DEF Encloses
    <3> QED
      BY <3>5, <3>8 DEF Main, q
  <2> QED
    BY <2>4, <2>5 DEF HierarchyScore
<1>3. TreeInv /\ PpidInv /\ ParentsEnclose => FullHierarchyScore
  BY <1>2 DEF FullHierarchyScore
<1> QED
  BY <1>1, <1>3, PpidKept, TreeInvariance, ParentsEncloseHolds, PTL DEF Spec
=============================================================================
