------------------------------ MODULE ProcessTree ------------------------------
(***************************************************************************)
(* The processes P1 to P8 of a2.c: who forks whom and waits for whom, and  *)
(* the messages of their main threads and of their other threads.  All     *)
(* process_N() have one shape: BEGIN, fork the children, create the        *)
(* threads, join them, wait for the children, END.                         *)
(*                                                                         *)
(* The server records a message in one step, between sem_wait() and        *)
(* sem_post() of info(); what else happens there is the subject of         *)
(* InfoServer.  How the threads of P4, P6 and P7 wait for each other is    *)
(* that of Process4, Process6Process7 and Process7: here they come in any  *)
(* order.                                                                  *)
(*                                                                         *)
(* Faults: fork() fails and nothing looks at its result; the tester kills  *)
(* P1, and who is armed with PR_SET_PDEATHSIG follows its parent.  Who is  *)
(* killed between sem_wait() and sem_post() takes the semaphore along, and *)
(* nobody gets through info() or fork() any more.                          *)
(***************************************************************************)
EXTENDS MessageLog, Checks, Sequences

CONSTANTS
  Procs,         \* the processes
  Root,          \* P1, which the tester starts
  children,      \* whom a process forks, in this order
  Threads,       \* the pairs (process, thread) but for the main threads
  MaxFailures,   \* how many forks may fail
  MayBeKilled    \* whether the tester may kill P1

Main(p) == <<p, 0>>
Kids(p) == {children[p][i] : i \in DOMAIN children[p]}

ASSUME TreeAssumption ==
  /\ Root \in Procs
  /\ children \in [Procs -> Seq(Procs)]
  /\ \A p \in Procs : p = Root <=> \A q \in Procs : p \notin Kids(q)
  /\ \A p \in Procs : p \notin Kids(p)
  /\ \A p, q \in Procs : \A i \in DOMAIN children[p], j \in DOMAIN children[q] :
       children[p][i] = children[q][j] => p = q /\ i = j
  /\ \A k \in Threads : k = <<k[1], k[2]>> /\ k[1] \in Procs /\ k[2] # 0
  /\ Keys = {Main(p) : p \in Procs} \cup Threads
  /\ MaxFailures \in Nat
  /\ MayBeKilled \in BOOLEAN

\* Nobody is its own ancestor: among any processes but P1 there is one whose parent
\* is not one of them.
ASSUME RootedAssumption ==
  \A S \in SUBSET (Procs \ {Root}) :
    S # {} => \E p \in S : \A q \in S : p \notin Kids(q)

\* The program is the one required: P1 to P8 and their parents are those of data.
ASSUME RequiredAssumption ==
  /\ data.nrProcs \in Nat
  /\ Procs = 1..data.nrProcs /\ Root = 1
  /\ \A p \in 2..data.nrProcs : data.procs[p] \in Procs /\ p \in Kids(data.procs[p])

VARIABLES
  at,       \* where the main thread of a process is
  forked,   \* how many of its forks it has done
  waited,   \* how many of its waitpid() calls have returned
  failed,   \* processes that could not be forked
  reaped,   \* processes somebody has waited for
  hangup,   \* processes with a SIGHUP on its way
  ppid,     \* what getppid() said at BEGIN
  thread,   \* where the other threads are
  jammed    \* the semaphore is lost

treeVars == <<at, forked, waited, failed, reaped, hangup, ppid, thread, jammed>>
vars == <<logVars, treeVars>>

Orphaned == 0       \* getppid() of a process whose parent is dead
Places == {"absent", "handler", "begin", "fork", "join", "wait", "exited", "killed"}

Gone(p) == at[p] \in {"exited", "killed"}
Alive(p) == at[p] \notin {"absent", "exited", "killed"}
Parent(p) == CHOOSE q \in Procs : p \in Kids(q)

Init ==
  /\ EmptyLog
  /\ at = [p \in Procs |-> IF p = Root THEN "begin" ELSE "absent"]
  /\ forked = [p \in Procs |-> 0]
  /\ waited = [p \in Procs |-> 0]
  /\ failed = {}
  /\ reaped = {}
  /\ hangup = {}
  /\ ppid = [p \in Procs |-> Orphaned]
  /\ thread = [k \in Threads |-> "absent"]
  /\ jammed = FALSE

Goto(p, place) == at' = [at EXCEPT ![p] = place]

\* info(BEGIN, p, 0)
Begin(p) ==
  /\ at[p] = "begin" /\ ~ jammed
  /\ AddBegin(Main(p))
  /\ ppid' = [ppid EXCEPT
       ![p] = IF p # Root /\ ~ Gone(Parent(p)) THEN Parent(p) ELSE Orphaned]
  /\ Goto(p, "fork")
  /\ UNCHANGED <<forked, waited, failed, reaped, hangup, thread, jammed>>

\* fork(), after the sem_wait() of atfork_prepare(): the child finds itself in
\* atfork_child(), or there is no child.
Fork(p) ==
  /\ at[p] = "fork" /\ ~ jammed
  /\ forked[p] < Len(children[p])
  /\ forked' = [forked EXCEPT ![p] = @ + 1]
  /\ LET c == children[p][forked[p] + 1]
     IN  \/ Goto(c, "handler") /\ UNCHANGED failed
         \/ /\ Cardinality(failed) < MaxFailures
            /\ failed' = failed \cup {c}
            /\ UNCHANGED at
  /\ UNCHANGED <<logVars, waited, reaped, hangup, ppid, thread, jammed>>

\* atfork_child(): prctl() arms the death signal; from here on the death of the
\* parent is noticed.
Arm(p) ==
  /\ at[p] = "handler"
  /\ Goto(p, "begin")
  /\ UNCHANGED <<logVars, forked, waited, failed, reaped, hangup, ppid, thread, jammed>>

\* The loop of pthread_create().
CreateThreads(p) ==
  /\ at[p] = "fork"
  /\ forked[p] = Len(children[p])
  /\ Goto(p, "join")
  /\ thread' = [k \in Threads |-> IF k[1] = p THEN "begin" ELSE thread[k]]
  /\ UNCHANGED <<logVars, forked, waited, failed, reaped, hangup, ppid, jammed>>

\* A slip: a thread number is used twice.
ThreadBeginAgain(k) ==
  /\ thread[k] \in {"begin", "end"} /\ ~ jammed
  /\ AddBegin(k)
  /\ thread' = [thread EXCEPT ![k] = "end"]
  /\ UNCHANGED <<at, forked, waited, failed, reaped, hangup, ppid, jammed>>

\* A thread: info(BEGIN), then info(END).
ThreadBegin(k) ==
  /\ thread[k] = "begin" /\ ~ jammed
  /\ AddBegin(k)
  /\ thread' = [thread EXCEPT ![k] = "end"]
  /\ UNCHANGED <<at, forked, waited, failed, reaped, hangup, ppid, jammed>>

ThreadEnd(k) ==
  /\ thread[k] = "end" /\ ~ jammed
  /\ AddEnd(k)
  /\ thread' = [thread EXCEPT ![k] = "done"]
  /\ UNCHANGED <<at, forked, waited, failed, reaped, hangup, ppid, jammed>>

\* A slip: the threads are not joined.
JoinNobody(p) ==
  /\ at[p] = "join"
  /\ Goto(p, "wait")
  /\ UNCHANGED <<logVars, forked, waited, failed, reaped, hangup, ppid, thread, jammed>>

\* The loop of pthread_join().
JoinThreads(p) ==
  /\ at[p] = "join"
  /\ \A k \in Threads : k[1] = p => thread[k] = "done"
  /\ Goto(p, "wait")
  /\ UNCHANGED <<logVars, forked, waited, failed, reaped, hangup, ppid, thread, jammed>>

\* Children waitpid() can still return.
Awaitable(p) == {c \in Kids(p) : at[c] # "absent" /\ c \notin reaped}

\* A slip: waiting for a child that is no more.
WaitForThis(p, c) == c \in Awaitable(p) /\ Gone(c) /\ reaped' = reaped \cup {c}

\* waitpid() with the pid of one child: the child has ended, or there is no
\* such child any more (ECHILD).
WaitFor(p, c) ==
  \/ c \in Awaitable(p) /\ Gone(c) /\ reaped' = reaped \cup {c}
  \/ c \notin Awaitable(p) /\ UNCHANGED reaped

\* waitpid(-1), after a fork that failed: any child, or ECHILD if there is none.
WaitForAny(p) ==
  \/ \E c \in Awaitable(p) : Gone(c) /\ reaped' = reaped \cup {c}
  \/ Awaitable(p) = {} /\ UNCHANGED reaped

\* A slip: only the first child is waited for.
WaitForFirst(p) ==
  /\ at[p] = "wait"
  /\ waited[p] < Len(children[p])
  /\ waited' = [waited EXCEPT ![p] = Len(children[p])]
  /\ WaitFor(p, children[p][1])
  /\ UNCHANGED <<logVars, at, forked, failed, hangup, ppid, thread, jammed>>

Wait(p) ==
  /\ at[p] = "wait"
  /\ waited[p] < Len(children[p])
  /\ waited' = [waited EXCEPT ![p] = @ + 1]
  /\ LET c == children[p][waited[p] + 1]
     IN  IF c \in failed THEN WaitForAny(p) ELSE WaitFor(p, c)
  /\ UNCHANGED <<logVars, at, forked, failed, hangup, ppid, thread, jammed>>

\* Children that have armed their death signal get it when p is no more.
Armed(p) == {c \in Kids(p) : Alive(c) /\ at[c] # "handler"}

\* info(END, p, 0), return from main(), exit; or killed before the sem_post().
End(p) ==
  /\ at[p] = "wait" /\ ~ jammed
  /\ waited[p] = Len(children[p])
  /\ AddEnd(Main(p))
  /\ Goto(p, "exited")
  /\ hangup' = hangup \cup Armed(p)
  /\ jammed' \in BOOLEAN
  /\ jammed' => p \in hangup \/ (p = Root /\ MayBeKilled)
  /\ UNCHANGED <<forked, waited, failed, reaped, ppid, thread>>

\* A thread of p may be between sem_wait() and sem_post(): not if p waits for a
\* child, as its threads have ended.
MayHold(p) == at[p] = "wait" => waited[p] = Len(children[p])

\* Process p dies of a signal, with all its threads.
Die(p) ==
  /\ Goto(p, "killed")
  /\ thread' = [k \in Threads |-> IF k[1] = p THEN "done" ELSE thread[k]]
  /\ hangup' = hangup \cup Armed(p)
  /\ jammed' \in {jammed, jammed \/ MayHold(p)}
  /\ UNCHANGED <<logVars, forked, waited, failed, reaped, ppid>>

\* Tester.perform(): self.p.kill().
Kill == MayBeKilled /\ Alive(Root) /\ Die(Root)

\* SIGHUP arrives.
Hangup(p) == p \in hangup /\ Alive(p) /\ Die(p)

\* Not a step of the code: nobody is left, or nobody gets the semaphore any more.
Ended == ((\A p \in Procs : ~ Alive(p)) \/ jammed) /\ UNCHANGED vars

MainStep(p) ==
  \/ Begin(p) \/ Fork(p) \/ Arm(p) \/ CreateThreads(p) \/ JoinThreads(p)
  \/ Wait(p) \/ End(p) \/ Hangup(p)

ThreadStep(k) == ThreadBegin(k) \/ ThreadEnd(k)

Next ==
  \/ \E p \in Procs : MainStep(p)
  \/ \E k \in Threads : ThreadStep(k)
  \/ Kill
  \/ Ended

Spec == Init /\ [][Next]_vars

\* The scheduler runs every thread; signals arrive.
FairSpec ==
  /\ Spec
  /\ \A p \in Procs : WF_vars(MainStep(p)) /\ WF_vars(Hangup(p))
  /\ \A k \in Threads : WF_vars(ThreadStep(k))
-----------------------------------------------------------------------------
TreeTypeOK ==
  /\ LogTypeOK
  /\ at \in [Procs -> Places]
  /\ forked \in [Procs -> Nat] /\ waited \in [Procs -> Nat]
  /\ \A p \in Procs : /\ forked[p] <= Len(children[p])
                      /\ waited[p] <= Len(children[p])
  /\ failed \subseteq Procs /\ reaped \subseteq Procs /\ hangup \subseteq Procs
  /\ ppid \in [Procs -> Procs \cup {Orphaned}]
  /\ thread \in [Threads -> {"absent", "begin", "end", "done"}]
  /\ jammed \in BOOLEAN

\* What checkProcessHierarchy() asks for, at every moment and under every fault:
\* a process is heard of only after its parent, and a parent announces its end
\* only after its children have announced theirs, even if forks have failed and
\* waitpid() was called with -1, and however the tester kills P1.
ParentsEnclose ==
  \A p \in Procs : \A c \in Kids(p) :
    /\ Main(c) \in infos => /\ Main(p) \in infos
                            /\ timeStart[Main(p)] < timeStart[Main(c)]
    /\ Main(c) \in infos /\ Main(p) \in infos /\ timeEnd[Main(p)] # 0
         => timeEnd[Main(c)] # 0 /\ timeEnd[Main(c)] < timeEnd[Main(p)]

\* The messages of a thread are between those of its process.
ProcessesEnclose ==
  \A k \in Threads :
    /\ k \in infos => /\ Main(k[1]) \in infos
                      /\ timeStart[Main(k[1])] < timeStart[k]
    /\ k \in infos /\ Main(k[1]) \in infos /\ timeEnd[Main(k[1])] # 0
         => timeEnd[k] # 0 /\ timeEnd[k] < timeEnd[Main(k[1])]

\* info() refuses nothing and neither does the server: no process or thread
\* speaks twice, or says END first.
NoErrors == errors = 0

\* What the server knows at the end.
Infos ==
  [k \in infos |-> [pid |-> k[1], ppid |-> ppid[k[1]], tid |-> k,
                    timeStart |-> timeStart[k], timeEnd |-> timeEnd[k]]]

\* Undisturbed, the program gets the full points for its hierarchy, whatever the
\* order its processes run in.
FullHierarchyScore ==
  /\ Gone(Root) /\ failed = {}
  /\ \A p \in Procs : at[p] # "killed"
  => HierarchyScore(Infos) = Full

\* Nobody stays behind: all processes end, also those whose sibling could not be
\* forked, those whose parent was killed before they could arm their death signal,
\* and those with threads; but for the one way the code has to leave somebody in
\* info() for ever: the semaphore went with a process that was killed, and the one
\* left behind has lost its parent before it was armed.
LeftBehind(p) == p # Root /\ Alive(p) /\ Gone(Parent(p)) /\ p \notin hangup
EverybodyGoes ==
  \/ <>(\A p \in Procs : ~ Alive(p))
  \/ <>[](jammed /\ \E p \in Procs : LeftBehind(p))
=============================================================================
