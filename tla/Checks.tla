-------------------------------- MODULE Checks --------------------------------
(***************************************************************************)
(* The four checks of the A2 tester: checkProcessHierarchy() and           *)
(* checkThreads1/2/3() of tester.py, as functions from the recorded        *)
(* messages to points.  infos maps a pair <<process, thread>> to what the  *)
(* server keeps about it, a record with the fields pid, ppid, tid,         *)
(* timeStart, timeEnd (0: no END yet).  The texts of the complaints are    *)
(* left out, and with them the order in which complaints are found.        *)
(***************************************************************************)
EXTENDS Integers, FiniteSets

CONSTANT
  data    \* a2_data.json, numbers instead of their digits

Full == 5      \* Tester.CHECK_MAX_SCORE
Point(b) == IF b THEN 1 ELSE 0

\* procInfos: the main threads; all of them ended, none unrequired or missing.
AllMainsEnded(infos) ==
  LET mains == {k \in DOMAIN infos : k[2] = 0}
  IN  /\ {k[1] : k \in mains} = 1..data.nrProcs
      /\ \A k \in mains : infos[k].timeEnd # 0

\* A slip: only the beginnings are compared.
EnclosesStart(outer, inner) == inner.timeStart >= outer.timeStart

\* The times say that parent encloses child.
Encloses(outer, inner) ==
  inner.timeStart >= outer.timeStart /\ inner.timeEnd <= outer.timeEnd

HierarchyScore(infos) ==
  IF ~ AllMainsEnded(infos) THEN 0
  ELSE IF \A p \in 2..data.nrProcs :
            LET parent == infos[<<data.procs[p], 0>>]
            IN  /\ infos[<<p, 0>>].ppid = parent.pid
                /\ Encloses(parent, infos[<<p, 0>>])
       THEN Full ELSE 2

\* thInfos: the keys of the threads of a process, without its main thread.
ThreadsOf(infos, proc) == {k \in DOMAIN infos : k[1] = proc /\ k[2] # 0}

\* The part checkThreads1/2/3 have in common: the main thread is there, and what
\* other threads there are are required, have ended, and are not the main one.
ThreadsSound(infos, proc, count) ==
  /\ <<proc, 0>> \in DOMAIN infos
  /\ \A k \in ThreadsOf(infos, proc) :
       /\ k[2] \in 1..count
       /\ infos[k].timeEnd # 0
       /\ infos[k].tid # infos[<<proc, 0>>].tid

ThreadsMissing(infos, proc, count) ==
  Cardinality(ThreadsOf(infos, proc)) < count

\* A slip: the outer thread may end first.
NestingBegun(outer, inner) == 2 * Point(outer.timeStart < inner.timeStart)

\* A point for each end of the inner thread inside the outer one.
Nesting(outer, inner) ==
  Point(outer.timeStart < inner.timeStart) + Point(outer.timeEnd > inner.timeEnd)

Threads1Score(infos) ==
  LET proc  == data.threads1_proc
      count == data.threads1_count
      outer == infos[<<proc, data.threads1_outer>>]
      inner == infos[<<proc, data.threads1_inner>>]
  IN  IF ~ ThreadsSound(infos, proc, count) THEN 0
      ELSE IF ThreadsMissing(infos, proc, count)
           THEN Point(ThreadsOf(infos, proc) # {})
      ELSE LET score == 2 + Nesting(outer, inner)
           IN  IF score = 4 THEN Full ELSE score

\* A slip: the interval without its end.
RunningBefore(infos, proc, t) ==
  {k \in ThreadsOf(infos, proc) : t \in infos[k].timeStart..infos[k].timeEnd-1}

\* times[t]: the threads whose interval, both ends included, contains t.
RunningAt(infos, proc, t) ==
  {k \in ThreadsOf(infos, proc) : t \in infos[k].timeStart..infos[k].timeEnd}

Threads2Score(infos) ==
  LET proc   == data.threads2_proc
      count  == data.threads2_count
      Crowd(t) == Cardinality(RunningAt(infos, proc, t))
      ticks  == UNION {infos[k].timeStart..infos[k].timeEnd :
                         k \in ThreadsOf(infos, proc)}
      waiter == infos[<<proc, data.threads2_waiter>>]
  IN  IF \/ ~ ThreadsSound(infos, proc, count)
         \/ ThreadsMissing(infos, proc, count) THEN 0
      ELSE LET score == 1 + Point(\A t \in ticks : Crowd(t) <= data.threads2_max)
                          + Point(Crowd(waiter.timeEnd) = data.threads2_max)
           IN  IF score = 3 THEN Full ELSE score

\* A slip: beginnings are compared.
BegunInTurn(before, middle, after) ==
  Point(middle.timeStart > before.timeStart) + Point(middle.timeEnd < after.timeStart)

\* A point for each neighbour the middle thread keeps clear of.
InTurn(before, middle, after) ==
  Point(middle.timeStart > before.timeEnd) + Point(middle.timeEnd < after.timeStart)

Threads3Score(infos) ==
  LET proc   == data.threads3_proc
      count  == data.threads3_count
      middle == <<data.threads1_proc, data.threads1_3>>
      before == infos[<<proc, data.threads3_before>>]
      after  == infos[<<proc, data.threads3_after>>]
  IN  IF \/ ~ ThreadsSound(infos, proc, count)
         \/ ThreadsMissing(infos, proc, count) THEN 0
      ELSE IF middle \notin DOMAIN infos THEN 1
      ELSE LET score == 1 + InTurn(before, infos[middle], after)
           IN  IF score = 3 THEN Full ELSE score

\* Tester.perform(): without errors, the sum of the four.
TestScore(infos, errors) ==
  IF errors # 0 THEN 0
  ELSE HierarchyScore(infos) + Threads1Score(infos)
         + Threads2Score(infos) + Threads3Score(infos)
=============================================================================
