------------------------------ MODULE InfoServer ------------------------------
(***************************************************************************)
(* info() of a2_helper.c, the server of the A2 tester and its test runs:   *)
(* what the other modules take as one step, a message that is recorded     *)
(* when info() returns, is here the named semaphore, the connection, the   *)
(* server's thread, and the fork handlers that use the same semaphore.     *)
(* The tester's main thread starts test after test, each in a thread that  *)
(* resets the server while the server may still be talking to a process    *)
(* of an earlier test, and kills P1 at the time limit.                     *)
(*                                                                         *)
(* A process is <<test, p>>.  Process p says BEGIN, forks its children,    *)
(* waits for them and says END; threads and delays are left out.           *)
(***************************************************************************)
EXTENDS MessageLog, Sequences

CONSTANTS
  Tests,       \* how many tests main() runs
  Setups       \* for a2_data.json, with a bound: tests not done at the limit

\* Every process is forked by one of the others, but for P1, and nobody is its own
\* ancestor; the log has a place for each main thread.
ASSUME InfoServerAssumption ==
  /\ Tests \in Nat
  /\ Keys \subseteq (Nat \ {0}) \X Nat /\ \A k \in Keys : <<k[1], 0>> \in Keys
  /\ \A s \in Setups :
       LET n == s.data.nrProcs
           parent == s.data.procs
       IN  /\ n \in Nat \ {0}
           /\ \A p \in 1..n : <<p, 0>> \in Keys
           /\ parent[1] = 0
           /\ \A p \in 2..n : parent[p] \in 1..n
           /\ \A S \in SUBSET (2..n) : S # {} => \E p \in S : parent[p] \notin S

VARIABLE
  setup        \* one of them

data == setup.data
INSTANCE Checks

Procs == 1..data.nrProcs
Clients == (1..Tests) \X {k[1] : k \in Keys}

VARIABLES
  test, tester,    \* main(): the number of the test, where main is in it
  runner,          \* where the thread of the test is
  timedOut,        \* timeout in perform()
  expired,         \* how many tests were not done at their limit
  limited,         \* FALSE: a limit passed before there was a process to kill
  quiet,           \* nothing of earlier tests was going on when this one began
  verdict,         \* the points of the last test judged
  delays,          \* the keys of Server.delays
  who,             \* pid and ppid in Server.infos; ender is not in the code: the
                   \* process whose END was recorded
  server,          \* where the server is, with which client, and what it found
  backlog,         \* connections not accepted yet
  sent, answered,  \* clients whose message, whose answer is in their socket
  shouldStop,
  name, value,     \* what SEM_NAME stands for (0: nothing); the semaphores
  at, said, sem,   \* where a process is, its helper_key_state, its semaphore
  orphans,         \* those whose message has another getppid()
  armed, doomed    \* PR_SET_PDEATHSIG is set; a deadly signal is pending

mainVars == <<setup, test, tester, timedOut, expired, limited, quiet, verdict>>
serverVars == <<logVars, delays, who, server, shouldStop>>
socketVars == <<backlog, sent, answered>>
procVars == <<at, said, sem, orphans, armed, doomed>>
vars == <<mainVars, runner, serverVars, socketVars, name, value, procVars>>

Key(i) == <<i[2], 0>>
Kids(i) ==
  {k \in Clients : k[1] = i[1] /\ k[2] \in Procs /\ data.procs[k[2]] = i[2]}
Unborn(i) == {k \in Kids(i) : at[k] = "unborn"}
Gone(i) == at[i] = "gone"
Alive(i) == at[i] \notin {"unborn", "gone"}
Goto(i, there) == at' = [at EXCEPT ![i] = there]
-----------------------------------------------------------------------------
(* The semaphore's name *)

\* sem_open(SEM_NAME, O_CREAT, 0644, 1), and what is done to the semaphore at once.
Opened == IF name # 0 THEN name ELSE Len(value) + 1
OpenedValue(change) ==
  IF name # 0 THEN [value EXCEPT ![name] = @ + change] ELSE Append(value, 1 + change)

Unlink(i) ==
  /\ at[i] = "unlink"
  /\ name' = 0
  /\ Goto(i, "create")
  /\ UNCHANGED <<socketVars, value, said, sem, orphans, armed, doomed>>

Create(i) ==
  /\ at[i] = "create"
  /\ name' = Opened
  /\ value' = OpenedValue(0)
  /\ Goto(i, "begin")
  /\ UNCHANGED <<socketVars, said, sem, orphans, armed, doomed>>

SemUnchanged == UNCHANGED <<name, value, sem>>
-----------------------------------------------------------------------------
(* info() *)

Following(i) == IF said[i] = 1 THEN "fork" ELSE "exit"   \* what follows info()

\* The state of the calling thread decides whether the call is in order.
Call(i) ==
  /\ at[i] \in {"begin", "end"}
  /\ IF said[i] = IF at[i] = "begin" THEN 0 ELSE 1
     THEN said' = [said EXCEPT ![i] = @ + 1] /\ Goto(i, "open")
     ELSE Goto(i, IF at[i] = "begin" THEN "fork" ELSE "exit") /\ UNCHANGED said
  /\ UNCHANGED <<socketVars, orphans, armed, doomed>> /\ SemUnchanged

\* sem_open without O_CREAT, and the message.
Open(i) ==
  /\ at[i] = "open"
  /\ IF name = 0 THEN Goto(i, Following(i)) /\ UNCHANGED <<sem, orphans>>
     ELSE /\ sem' = [sem EXCEPT ![i] = name]
          /\ orphans' = IF i[2] # 1 /\ Gone(<<i[1], data.procs[i[2]]>>)
                        THEN orphans \cup {i} ELSE orphans
          /\ Goto(i, "wait")
  /\ UNCHANGED <<socketVars, name, value, said, armed, doomed>>

SemWait(i, here, there) ==
  /\ at[i] = here
  /\ value[sem[i]] > 0
  /\ value' = [value EXCEPT ![sem[i]] = @ - 1]
  /\ Goto(i, there)
  /\ UNCHANGED <<socketVars, name, said, sem, orphans, armed, doomed>>

Connect(i) ==
  /\ at[i] = "connect"
  /\ IF server.at = "closed" THEN Goto(i, "post") /\ UNCHANGED backlog
     ELSE Goto(i, "write") /\ backlog' = Append(backlog, i)
  /\ UNCHANGED <<sent, answered, said, orphans, armed, doomed>>
  /\ SemUnchanged

Write(i) ==
  /\ at[i] = "write"
  /\ sent' = sent \cup {i}
  /\ Goto(i, "read")
  /\ UNCHANGED <<backlog, answered, said, orphans, armed, doomed>>
  /\ SemUnchanged

\* A slip: nobody waits for the answer.
HasAnswerOrNot(i) == i \in Clients

\* The answer, or the end of the connection.
HasAnswer(i) == i \in answered \/ server.at = "closed"

Read(i) ==
  /\ at[i] = "read"
  /\ HasAnswer(i)
  /\ answered' = answered \ {i}
  /\ Goto(i, "post")
  /\ UNCHANGED <<backlog, sent, said, orphans, armed, doomed>>
  /\ SemUnchanged

Post(i) ==
  /\ at[i] = "post"
  /\ value' = [value EXCEPT ![sem[i]] = @ + 1]
  /\ Goto(i, Following(i))
  /\ UNCHANGED <<socketVars, name, said, sem, orphans, armed, doomed>>
-----------------------------------------------------------------------------
(* fork() with its handlers, and the end of a process *)

\* A slip: the semaphore is opened but not taken.
PrepareOnly(i) == "forking"
Prepare(i) == "hold"

AtforkPrepare(i) ==
  /\ at[i] = "fork" /\ Unborn(i) # {}
  /\ name' = Opened
  /\ value' = OpenedValue(0)
  /\ sem' = [sem EXCEPT ![i] = Opened]
  /\ Goto(i, Prepare(i))
  /\ UNCHANGED <<socketVars, said, orphans, armed, doomed>>

\* The child has what its parent had, the keys' values included.
Fork(i) ==
  /\ at[i] = "forking"
  /\ \E k \in Unborn(i) :
       /\ \A j \in Unborn(i) : k[2] <= j[2]
       /\ at' = [at EXCEPT ![i] = "release", ![k] = "young"]
       /\ said' = [said EXCEPT ![k] = said[i]]
  /\ UNCHANGED <<socketVars, orphans, armed, doomed>> /\ SemUnchanged

\* A slip: the semaphore is not given back.
KeptByParent == 0
GivenByParent == 1

\* atfork_parent opens the name again: it may stand for another semaphore.
AtforkParent(i) ==
  /\ at[i] = "release"
  /\ name' = Opened
  /\ value' = OpenedValue(GivenByParent)
  /\ Goto(i, "fork")
  /\ UNCHANGED <<socketVars, said, sem, orphans, armed, doomed>>

\* A slip: the child goes on with its parent's keys.
ParentsKeys(i) == said[i]
FreshKeys(i) == 0

AtforkChild(i) ==
  /\ at[i] = "young"
  /\ armed' = armed \cup {i}
  /\ said' = [said EXCEPT ![i] = FreshKeys(i)]
  /\ Goto(i, "begin")
  /\ UNCHANGED <<socketVars, orphans, doomed>>
  /\ SemUnchanged

WaitForKids(i) ==
  /\ at[i] = "fork" /\ \A k \in Kids(i) : Gone(k)
  /\ Goto(i, "end")
  /\ UNCHANGED <<socketVars, said, orphans, armed, doomed>>
  /\ SemUnchanged

\* exit(), or the delivery of a deadly signal; a child is signalled if it has
\* asked for that before.
Leave(i) ==
  /\ at[i] = "exit" \/ (i \in doomed /\ Alive(i))
  /\ Goto(i, "gone")
  /\ doomed' = (doomed \ {i}) \cup {k \in Kids(i) \cap armed : Alive(k)}
  /\ UNCHANGED <<socketVars, said, orphans, armed>>
  /\ SemUnchanged

Process(i) ==
  /\ UNCHANGED <<mainVars, runner, serverVars>>
  /\ \/ Unlink(i) \/ Create(i)
     \/ Call(i) \/ Open(i) \/ SemWait(i, "wait", "connect") \/ Connect(i)
     \/ Write(i) \/ Read(i) \/ Post(i)
     \/ AtforkPrepare(i) \/ SemWait(i, "hold", "forking") \/ Fork(i)
     \/ AtforkParent(i) \/ AtforkChild(i) \/ WaitForKids(i) \/ Leave(i)
-----------------------------------------------------------------------------
(* The thread of the server: run() and addInfo() *)

Serve(here, there) ==
  /\ server.at = here
  /\ server' = [server EXCEPT !.at = there]

Accept ==
  /\ backlog # <<>>
  /\ backlog' = Tail(backlog)
  /\ server.at = "accept"
  /\ server' = IF shouldStop THEN [server EXCEPT !.at = "closed"]
               ELSE [server EXCEPT !.at = "receive", !.client = Head(backlog)]
  /\ UNCHANGED <<logVars, delays, who, shouldStop, sent, answered>>

\* A whole message, or the end of the connection of a process that has died.
Receive ==
  LET i == server.client
  IN  /\ Serve("receive", IF i \in sent THEN "look" ELSE "answer")
      /\ i \in sent \/ Gone(i)
      /\ sent' = sent \ {i}
      /\ UNCHANGED <<logVars, delays, who, shouldStop, backlog, answered>>

\* `key in self.infos` and timeEnd, before anything is changed.
Look ==
  LET k == Key(server.client)
      found == IF said[server.client] = 1
               THEN IF AcceptsBegin(k) THEN "begin" ELSE "error"
               ELSE IF AcceptsEnd(k) THEN "end" ELSE "error"
  IN  /\ server.at = "look"
      /\ server' = [server EXCEPT !.at = "record", !.found = found]
      /\ UNCHANGED <<logVars, delays, who, shouldStop, socketVars>>

\* A KeyError ends the thread, and with it the connection.
Perish ==
  /\ server' = [server EXCEPT !.at = "dead"]
  /\ answered' = answered \cup {server.client}

\* self.infos and self.errors are those of now, which may be new since Look.
Record ==
  LET i == server.client
      k == Key(i)
      pid(p) == IF p = 0 THEN <<0, 0>> ELSE <<i[1], p>>
  IN  /\ server.at = "record"
      /\ CASE server.found = "begin" ->
                /\ RecordBegin(k)
                /\ who' = [who EXCEPT ![k] =
                     [pid |-> i, ender |-> <<0, 0>>,
                      ppid |-> IF i \in orphans THEN <<0, 0>>
                               ELSE pid(data.procs[i[2]])]]
                /\ Serve("record", "delay")
                /\ UNCHANGED answered
           [] server.found = "end" ->
                IF k \in infos
                THEN /\ RecordEnd(k)
                     /\ who' = [who EXCEPT ![k].ender = i]
                     /\ Serve("record", "answer")
                     /\ UNCHANGED answered
                ELSE Perish /\ UNCHANGED <<logVars, who>>
           [] OTHER -> Refuse /\ Serve("record", "answer") /\ UNCHANGED <<who, answered>>
      /\ UNCHANGED <<delays, shouldStop, backlog, sent>>

\* `key in self.delays`, and then self.delays[key].
Delay ==
  /\ Serve("delay", IF Key(server.client) \in delays THEN "fetch" ELSE "answer")
  /\ UNCHANGED <<logVars, delays, who, shouldStop, socketVars>>

Fetch ==
  /\ server.at = "fetch"
  /\ IF Key(server.client) \in delays THEN Serve("fetch", "answer") /\ UNCHANGED answered
     ELSE Perish
  /\ UNCHANGED <<logVars, delays, who, shouldStop, backlog, sent>>

Answer ==
  /\ Serve("answer", "accept")
  /\ answered' = IF Gone(server.client) THEN answered
                 ELSE answered \cup {server.client}
  /\ UNCHANGED <<logVars, delays, who, shouldStop, backlog, sent>>

Server ==
  /\ Accept \/ Receive \/ Look \/ Record \/ Delay \/ Fetch \/ Answer
  /\ UNCHANGED <<mainVars, runner, name, value, procVars>>
-----------------------------------------------------------------------------
(* The thread of a test: run() *)

\* Tester.__init__(): whose BEGIN is answered late in test nr.
Delayed(nr) ==
  LET leaves == {<<p, 0>> : p \in Procs \ {data.procs[q] : q \in Procs}}
      generic == {<<data.threads2_proc, t>> : t \in 1..data.threads2_count}
      waiter == <<data.threads2_proc, data.threads2_waiter>>
  IN  (IF nr \in {2, 3, 4} THEN leaves ELSE {})
        \cup (IF nr \in {2, 4}
              THEN {<<data.threads1_proc, data.threads1_inner>>} ELSE {})
        \cup (IF nr \in {3, 4}
              THEN {<<data.threads3_proc, data.threads3_before>>,
                    <<data.threads1_proc, data.threads1_3>>} ELSE {})
        \cup (IF nr = 2 THEN {waiter}
              ELSE IF nr = 3 THEN generic \ {waiter}
              ELSE IF nr = 5 THEN generic ELSE {})

RunnerGoes(here, there) ==
  /\ runner = here
  /\ runner' = there
  /\ UNCHANGED <<mainVars, server, who, shouldStop, socketVars, name, value>>

\* Server.reset(), one assignment at a time: the server does not stand still.
ResetTime ==
  /\ RunnerGoes("time", "infos")
  /\ time' = 0
  /\ UNCHANGED <<infos, timeStart, timeEnd, errors, delays, procVars>>

ResetInfos ==
  /\ RunnerGoes("infos", "errors")
  /\ infos' = {}
  /\ timeStart' = [k \in Keys |-> 0]
  /\ timeEnd' = [k \in Keys |-> 0]
  /\ UNCHANGED <<time, errors, delays, procVars>>

ResetErrors ==
  /\ RunnerGoes("errors", "delays")
  /\ errors' = 0
  /\ UNCHANGED <<time, infos, timeStart, timeEnd, delays, procVars>>

ResetDelays ==
  /\ RunnerGoes("delays", "set")
  /\ delays' = {}
  /\ UNCHANGED <<logVars, procVars>>

SetDelays ==
  /\ RunnerGoes("set", "start")
  /\ delays' = Delayed(test) \cap Keys
  /\ UNCHANGED <<logVars, procVars>>

Popen ==
  /\ RunnerGoes("start", "wait")
  /\ Goto(<<test, 1>>, "unlink")
  /\ UNCHANGED <<logVars, delays, said, sem, orphans, armed, doomed>>

\* self.p.wait(): for P1 only.
WaitForP1 ==
  /\ RunnerGoes("wait", "done")
  /\ Gone(<<test, 1>>)
  /\ UNCHANGED <<logVars, delays, procVars>>

Runner ==
  \/ ResetTime \/ ResetInfos \/ ResetErrors \/ ResetDelays \/ SetDelays
  \/ Popen \/ WaitForP1
-----------------------------------------------------------------------------
(* main() and perform() *)

Reset == {"time", "infos", "errors", "delays", "set", "start"}

Perform(here, there) ==
  /\ tester = here
  /\ tester' = there
  /\ UNCHANGED <<serverVars, sent, answered>>

\* Nothing of an earlier test is alive or on its way to the server.
AllQuiet ==
  /\ \A i \in Clients : ~ Alive(i)
  /\ server.at = "accept" /\ backlog = <<>>

Start ==
  /\ tester \in {"main", "judged"} /\ test < Tests
  /\ Perform(tester, "join")
  /\ test' = test + 1
  /\ runner' = "time"
  /\ timedOut' = FALSE
  /\ quiet' = AllQuiet
  /\ verdict' = 0
  /\ UNCHANGED <<setup, expired, limited, backlog, doomed>>

\* self.join(self.timeLimit) returns with the end of the thread ...
Join ==
  /\ runner = "done"
  /\ Perform("join", "judge")
  /\ UNCHANGED <<setup, test, runner, timedOut, expired, limited, quiet, verdict, backlog, doomed>>

\* ... or when the time is over.
Expire ==
  /\ runner # "done"
  /\ expired < setup.expired
  /\ Perform("join", "late")
  /\ expired' = expired + 1
  /\ UNCHANGED <<setup, test, runner, timedOut, limited, quiet, verdict, backlog, doomed>>

\* is_alive(), p is not None, and kill().
Kill ==
  /\ Perform("late", "rejoin")
  /\ CASE runner = "done" -> UNCHANGED <<timedOut, limited, doomed>>
       [] runner \in Reset -> limited' = FALSE /\ UNCHANGED <<timedOut, doomed>>
       [] OTHER ->
            /\ timedOut' = TRUE
            /\ doomed' = doomed \cup {i \in {<<test, 1>>} : Alive(i)}
            /\ UNCHANGED limited
  /\ UNCHANGED <<setup, test, runner, expired, quiet, verdict, backlog>>

Rejoin ==
  /\ runner = "done"
  /\ Perform("rejoin", "judge")
  /\ UNCHANGED <<setup, test, runner, timedOut, expired, limited, quiet, verdict, backlog, doomed>>

\* A slip: the points do not ask for the errors.
AnyErrors == errors \in 0..MaxErrors
NoErrors == errors = 0

Infos == [k \in infos |->
  [pid |-> who[k].pid, ppid |-> who[k].ppid,
   timeStart |-> timeStart[k], timeEnd |-> timeEnd[k]]]

Judge ==
  /\ Perform("judge", "judged")
  /\ verdict' = IF timedOut \/ ~ NoErrors THEN 0 ELSE HierarchyScore(Infos)
  /\ UNCHANGED <<setup, test, runner, timedOut, expired, limited, quiet, backlog, doomed>>

\* serv.stop(): the flag, and a connection so that the server looks at it.
Stop ==
  /\ test = Tests
  /\ tester = "judged" /\ tester' = "stop"
  /\ shouldStop' = TRUE
  /\ UNCHANGED <<setup, test, runner, timedOut, expired, limited, quiet, verdict, logVars, delays,
                 who, server, socketVars, doomed>>

StopConnect ==
  /\ Perform("stop", "exited")
  /\ backlog' = IF server.at = "closed" THEN backlog
                ELSE Append(backlog, <<0, 0>>)
  /\ UNCHANGED <<setup, test, runner, timedOut, expired, limited, quiet, verdict, doomed>>

Main ==
  /\ UNCHANGED <<name, value, at, said, sem, orphans, armed>>
  /\ \/ Start \/ Join \/ Expire \/ Kill \/ Rejoin \/ Judge
     \/ Stop \/ StopConnect
-----------------------------------------------------------------------------
Init ==
  /\ EmptyLog
  /\ setup \in Setups
  /\ test = 0 /\ tester = "main" /\ runner = "done"
  /\ timedOut = FALSE /\ expired = 0 /\ limited = TRUE /\ quiet = TRUE /\ verdict = 0
  /\ delays = {} /\ shouldStop = FALSE
  /\ who = [k \in Keys |-> [pid |-> <<0, 0>>, ppid |-> <<0, 0>>, ender |-> <<0, 0>>]]
  /\ server = [at |-> "accept", client |-> <<0, 0>>, found |-> "error"]
  /\ backlog = <<>> /\ sent = {} /\ answered = {}
  /\ name = 0
  /\ value = <<>>
  /\ at = [i \in Clients |-> "unborn"]
  /\ said = [i \in Clients |-> 0]
  /\ sem = [i \in Clients |-> 0]
  /\ orphans = {} /\ armed = {} /\ doomed = {}

\* What happens after the tester's exit is left out.
Next ==
  /\ tester # "exited"
  /\ Main \/ Runner \/ Server \/ \E i \in Clients : Process(i)

Spec == Init /\ [][Next]_vars

\* Threads and processes that can go on do so; the time limit need not strike.
FairSpec ==
  /\ Spec
  /\ WF_vars(Main /\ tester' # "late")
  /\ WF_vars(Runner) /\ WF_vars(Server)
  /\ \A i \in Clients : WF_vars(Process(i))
-----------------------------------------------------------------------------
\* The type invariant.
TypeOK ==
  /\ LogTypeOK
  /\ test \in 0..Tests
  /\ value \in Seq(Nat) /\ name \in 0..Len(value)
  /\ at \in [Clients -> {"unborn", "unlink", "create", "begin", "open", "wait",
       "connect", "write", "read", "post", "fork", "hold", "forking", "release",
       "young", "end", "exit", "gone"}]
  /\ said \in [Clients -> 0..2] /\ sem \in [Clients -> 0..Len(value)]
  /\ sent \cup answered \cup orphans \cup armed \cup doomed \subseteq Clients
  /\ verdict \in 0..Full

\* What the semaphore is for.  In a test that begins quietly, also after one that
\* was killed while it held the semaphore, one process at a time talks to the
\* server, forks counted as conversations.
Conversation == {"connect", "write", "read", "post", "forking", "release"}
OneConversation ==
  quiet => \A i, j \in Clients :
             at[i] \in Conversation /\ at[j] \in Conversation => i = j

\* What every other module takes info() for.  In a test that begins quietly, a
\* process that is past a call of info() has its message in the server's log, and
\* nothing else is in it: the message was recorded before info() returned.
RecordedOnReturn ==
  quiet /\ runner = "wait" => \A i \in Clients :
    /\ i[1] = test /\ at[i] \in {"fork", "hold", "forking", "release", "end"}
         => Key(i) \in infos /\ timeEnd[Key(i)] = 0
    /\ i[1] = test /\ at[i] = "exit" => Key(i) \in infos /\ timeEnd[Key(i)] # 0
    /\ Key(i) \in infos => who[Key(i)].pid[1] = test

\* A test that begins quietly and is not cut off gets all its points, whatever
\* was killed before it, and whenever its processes fork and speak.
QuietVerdict ==
  tester = "judged" /\ quiet /\ ~ timedOut => verdict = Full

\* All points are only given for messages of this test, although processes that
\* survived an earlier one may still be talking, and the server may have been
\* in the middle of one of their messages when it was reset.
NoFalsePraise ==
  tester = "judged" /\ verdict = Full =>
    \A p \in Procs :
      who[<<p, 0>>].pid = <<test, p>> /\ who[<<p, 0>>].ender = <<test, p>>

\* If every test begins quietly the tester comes to its end without any help of
\* the time limit: no call of info(), no fork and no wait for a child is for ever.
\* If the limit has struck and P1 is killed, the wait for it, which has no limit,
\* is not for ever either, whatever holds the semaphore and whether or not the
\* server is still there.
SessionEnds ==
  /\ []quiet => <>(tester = "exited")
  /\ tester = "rejoin" /\ timedOut ~> tester = "judged"
=============================================================================
