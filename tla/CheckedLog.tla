------------------------------ MODULE CheckedLog ------------------------------
(***************************************************************************)
(* The checks of the A2 tester against what they are to find out.  Clients *)
(* send any messages in any order; MessageLog numbers them, Checks awards  *)
(* points from the numbers, and here stands what the points should mean,   *)
(* said about the sequence of the messages itself.                         *)
(***************************************************************************)
EXTENDS MessageLog, Sequences

CONSTANT
  Requirements   \* what a2_data.json may ask for, and who then sends messages

VARIABLES
  requirement,   \* one of them
  log,           \* the messages accepted, in the order of their arrival
  identities     \* what clients put into pid, ppid and tid

\* Processes are numbered from 1, their threads too, and 0 is the main thread; P1 is
\* the tester's child, every other process that of a process that is not itself.
ASSUME CheckedLogAssumption ==
  /\ Keys \subseteq (Nat \ {0}) \X Nat
  /\ \A r \in Requirements :
       /\ r.clients \subseteq Keys
       /\ r.odd \subseteq Keys \ {<<1, 0>>}
       /\ r.data.nrProcs \in Nat
       /\ \A p \in 2..r.data.nrProcs :
            r.data.procs[p] \in (1..r.data.nrProcs) \ {p}
       /\ r.data.threads1_count \in Nat
       /\ {r.data.threads1_outer, r.data.threads1_inner} \subseteq 1..r.data.threads1_count
       /\ r.data.threads2_count \in Nat /\ r.data.threads2_max \in Nat
       /\ r.data.threads2_waiter \in 1..r.data.threads2_count
       /\ r.data.threads3_count \in Nat
       /\ {r.data.threads3_before, r.data.threads3_after} \subseteq 1..r.data.threads3_count

checkedVars == <<logVars, requirement, log, identities>>

data == requirement.data
INSTANCE Checks

\* Process p has pid p and its parent's pid, unless it is an orphan; thread k has
\* a tid of its own, unless it is its process' main thread in disguise.
Identities(odd) ==
  [orphans : SUBSET {k \in odd : k[2] = 0},
   disguised : SUBSET {k \in odd : k[2] # 0}]

Orphan == 0
Info(k) ==
  [pid |-> k[1],
   ppid |-> IF k \in identities.orphans THEN Orphan ELSE data.procs[k[1]],
   tid |-> IF k \in identities.disguised THEN <<k[1], 0>> ELSE k,
   timeStart |-> timeStart[k],
   timeEnd |-> timeEnd[k]]

Infos == [k \in infos |-> Info(k)]

CheckedInit ==
  /\ EmptyLog
  /\ log = <<>>
  /\ requirement \in Requirements
  /\ identities \in Identities(requirement.odd)

CheckedNext ==
  /\ UNCHANGED <<requirement, identities>>
  /\ \E k \in requirement.clients :
       \/ RecordBegin(k) /\ log' = Append(log, <<"BEGIN", k>>)
       \/ RecordEnd(k) /\ log' = Append(log, <<"END", k>>)

CheckedSpec == CheckedInit /\ [][CheckedNext]_checkedVars
-----------------------------------------------------------------------------
Said(action, k) == \E i \in DOMAIN log : log[i] = <<action, k>>

\* Message m arrived, and message n did so later or not at all.
Precedes(m, n) ==
  \E i \in DOMAIN log : log[i] = m /\ \A j \in 1..i : log[j] # n

\* Process proc has exactly its threads 1..count, all have ended, and none is
\* the main thread under another number.
Complete(proc, count) ==
  /\ Said("BEGIN", <<proc, 0>>)
  /\ \A t \in 1..count : Said("END", <<proc, t>>)
  /\ \A k \in Keys :
       k[1] = proc /\ k[2] > count => ~ Said("BEGIN", k)
  /\ \A k \in identities.disguised :
       k[1] = proc => ~ Said("BEGIN", k)

\* The threads of proc between their messages, after the first i messages.
InsideAfter(proc, i) ==
  {k \in Keys : /\ k[1] = proc /\ k[2] # 0
                /\ \E j \in 1..i : log[j] = <<"BEGIN", k>>
                /\ \A j \in 1..i : log[j] # <<"END", k>>}

\* The full five points for the hierarchy are given exactly if every process
\* ended, is the child of its parent, and lived within its parent's messages.
HierarchyFaithful ==
  HierarchyScore(Infos) = Full <=>
    /\ \A p \in 1..data.nrProcs : Said("END", <<p, 0>>)
    /\ \A k \in Keys : k[2] = 0 /\ k[1] > data.nrProcs => ~ Said("BEGIN", k)
    /\ identities.orphans \cap infos = {}
    /\ \A p \in 2..data.nrProcs :
         LET parent == data.procs[p]
         IN  /\ Precedes(<<"BEGIN", <<parent, 0>>>>, <<"BEGIN", <<p, 0>>>>)
             /\ Precedes(<<"END", <<p, 0>>>>, <<"END", <<parent, 0>>>>)

\* checkThreads1: full points exactly if the inner thread's messages are
\* nested in those of the outer one.
Threads1Faithful ==
  LET T(t) == <<data.threads1_proc, t>>
  IN  Threads1Score(Infos) = Full <=>
        /\ Complete(data.threads1_proc, data.threads1_count)
        /\ Precedes(<<"BEGIN", T(data.threads1_outer)>>,
                    <<"BEGIN", T(data.threads1_inner)>>)
        /\ Precedes(<<"END", T(data.threads1_inner)>>,
                    <<"END", T(data.threads1_outer)>>)

\* checkThreads2: full points exactly if replaying the messages never shows more
\* than threads2_max threads inside, and as many when the waiter's END arrives,
\* although the check works on intervals between numbers which all processes share.
Threads2Faithful ==
  LET proc == data.threads2_proc
      waiter == <<proc, data.threads2_waiter>>
      Inside(i) == Cardinality(InsideAfter(proc, i))
  IN  Threads2Score(Infos) = Full <=>
        /\ Complete(proc, data.threads2_count)
        /\ \A i \in DOMAIN log : Inside(i) <= data.threads2_max
        /\ \E i \in DOMAIN log : /\ log[i] = <<"END", waiter>>
                                 /\ Inside(i - 1) = data.threads2_max

\* checkThreads3: full points exactly if the END of one thread, BEGIN and END of
\* the thread of the other process, and the BEGIN of a third arrive in this order.
\* This holds when everybody has ended.  Otherwise it may not: timeEnd of a thread
\* that never says END is 0, less than anything, and tester.py:331 does not ask.
Threads3Faithful ==
  LET middle == <<data.threads1_proc, data.threads1_3>>
      T(t) == <<data.threads3_proc, t>>
  IN  (\A k \in infos : timeEnd[k] # 0) =>
        (Threads3Score(Infos) = Full <=>
           /\ Complete(data.threads3_proc, data.threads3_count)
           /\ Precedes(<<"END", T(data.threads3_before)>>, <<"BEGIN", middle>>)
           /\ Precedes(<<"END", middle>>, <<"BEGIN", T(data.threads3_after)>>))
=============================================================================
