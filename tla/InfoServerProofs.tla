--------------------------- MODULE InfoServerProofs ---------------------------
(***************************************************************************)
(* Proofs about info(), its semaphore and its server: for any number of    *)
(* tests and processes, any tree, and a P1 killed at any moment.           *)
(*                                                                         *)
(* The semaphore a test uses is the one its P1 makes after it has removed  *)
(* the name.  In a test that begins quietly nobody else is there to make   *)
(* another one in between or to open the name for good; all that live      *)
(* later use that semaphore, which is down while one of them holds it, or  *)
(* for ever if the holder was killed.                                      *)
(*                                                                         *)
(* The log is followed through what has been heard of each process that    *)
(* was not killed: the messages it has sent, but for one still on its way. *)
(* In any test what has been heard of it is in the log under its own name, *)
(* or there is an error; in one that begins quietly nothing else is.       *)
(***************************************************************************)
EXTENDS InfoServer, SequenceTheorems, TLAPS

Places ==
  {"unborn", "unlink", "create", "begin", "open", "wait", "connect", "write", "read",
   "post", "fork", "hold", "forking", "release", "young", "end", "exit", "gone"}
Naming == {"unlink", "create"}           \* P1, before it has its semaphore
Using == Conversation \cup {"wait", "hold"}

SemTypeOK ==
  /\ test \in Nat /\ quiet \in BOOLEAN
  /\ value \in Seq(Int) /\ name \in 0..Len(value)
  /\ at \in [Clients -> Places] /\ sem \in [Clients -> Nat]

\* Processes are those of the tests so far, and of the current one only after Popen.
BornInTime ==
  /\ \A i \in Clients : i[1] > test => at[i] = "unborn"
  /\ runner \in Reset => \A i \in Clients : i[1] = test => at[i] = "unborn"

\* While P1 makes the semaphore it is alone.
AloneAtFirst ==
  /\ \A i \in Clients : Alive(i) => i[1] = test
  /\ \A i \in Clients : at[i] \in Naming => \A j \in Clients : Alive(j) => j = i
  /\ \A i \in Clients : at[i] = "create" => name = 0

\* Later there is one semaphore, down during a conversation.
OneSemaphore ==
  /\ \A i \in Clients : Alive(i) /\ at[i] \notin Naming => name # 0 /\ value[name] \in {0, 1}
  /\ \A i \in Clients : at[i] \in Using => sem[i] = name
  /\ \A i \in Clients : at[i] \in Conversation =>
       value[name] = 0 /\ \A j \in Clients : at[j] \in Conversation => j = i

SemInv == SemTypeOK /\ BornInTime /\ (quiet => AloneAtFirst /\ OneSemaphore)

USE DEF Places, Naming, Using, Conversation, Alive, Gone
-----------------------------------------------------------------------------
LEMMA ClientsAreNumbered == \A i \in Clients : i[1] \in Int
BY DEF Clients

LEMMA ChangedValue ==
  ASSUME NEW v \in Seq(Int), NEW g \in Nat, NEW d \in Int
  PROVE  LET w == [v EXCEPT ![g] = @ + d] IN w \in Seq(Int) /\ Len(w) = Len(v)
<1>1. CASE g \in 1..Len(v)
  BY <1>1
<1>2. CASE g \notin 1..Len(v)
  <2>1. DOMAIN v = 1..Len(v)
    OBVIOUS
  <2>2. [v EXCEPT ![g] = @ + d] = [j \in DOMAIN v |-> v[j]]
    BY <1>2, <2>1
  <2>3. [j \in DOMAIN v |-> v[j]] = v
    OBVIOUS
  <2> QED
    BY <2>2, <2>3
<1> QED
  BY <1>1, <1>2

LEMMA LoweredValue ==
  ASSUME NEW v \in Seq(Int), NEW g \in Nat
  PROVE  LET w == [v EXCEPT ![g] = @ - 1] IN w \in Seq(Int) /\ Len(w) = Len(v)
<1>1. CASE g \in 1..Len(v)
  BY <1>1
<1>2. CASE g \notin 1..Len(v)
  <2>1. DOMAIN v = 1..Len(v)
    OBVIOUS
  <2>2. [v EXCEPT ![g] = @ - 1] = [j \in DOMAIN v |-> v[j]]
    BY <1>2, <2>1
  <2>3. [j \in DOMAIN v |-> v[j]] = v
    OBVIOUS
  <2> QED
    BY <2>2, <2>3
<1> QED
  BY <1>1, <1>2

LEMMA SemInit == Init => SemInv
<1> SUFFICES ASSUME Init PROVE SemInv
  OBVIOUS
<1>1. SemTypeOK
  BY DEF Init, SemTypeOK
<1>2. BornInTime
  BY DEF Init, BornInTime, Reset
<1>3. AloneAtFirst /\ OneSemaphore
  BY DEF Init, AloneAtFirst, OneSemaphore
<1> QED
  BY <1>1, <1>2, <1>3 DEF SemInv

\* A process that goes on without the semaphore, and does not come to use it.
LEMMA Moves ==
  ASSUME SemInv, NEW i \in Clients, NEW there \in Places \ (Naming \cup {"unborn"}),
         Goto(i, there), Alive(i), at[i] \notin Naming,
         there \in Conversation => at[i] \in Conversation,
         there \in Using => at[i] \in Using,
         UNCHANGED <<test, quiet, runner, name, value, sem>>
  PROVE  SemInv'
<1>1. /\ at' \in [Clients -> Places] /\ at'[i] = there
      /\ \A j \in Clients \ {i} : at'[j] = at[j]
  BY DEF Goto, SemInv, SemTypeOK
<1>2. SemTypeOK'
  BY <1>1 DEF SemInv, SemTypeOK
<1>3. BornInTime'
  BY <1>1 DEF SemInv, BornInTime
<1>4. ASSUME quiet PROVE AloneAtFirst'
  BY <1>1, <1>4 DEF SemInv, AloneAtFirst
<1>5. ASSUME quiet PROVE OneSemaphore'
  BY <1>1, <1>5 DEF SemInv, OneSemaphore
<1> QED
  BY <1>2, <1>3, <1>4, <1>5 DEF SemInv
-----------------------------------------------------------------------------
(* What a process does *)

LEMMA UnlinkKeeps ==
  ASSUME SemInv, NEW i \in Clients, Unlink(i), UNCHANGED <<test, quiet, runner>>
  PROVE  SemInv'
<1>1. /\ at[i] = "unlink" /\ name' = 0 /\ value' = value /\ sem' = sem
      /\ at' \in [Clients -> Places] /\ at'[i] = "create"
      /\ \A j \in Clients \ {i} : at'[j] = at[j]
  BY DEF Unlink, Goto, SemInv, SemTypeOK
<1>2. SemTypeOK'
  BY <1>1 DEF SemInv, SemTypeOK
<1>3. BornInTime'
  BY <1>1 DEF SemInv, BornInTime
<1>4. ASSUME quiet PROVE AloneAtFirst' /\ OneSemaphore'
  BY <1>1, <1>4 DEF SemInv, AloneAtFirst, OneSemaphore
<1> QED
  BY <1>2, <1>3, <1>4 DEF SemInv

LEMMA CreateKeeps ==
  ASSUME SemInv, NEW i \in Clients, Create(i), UNCHANGED <<test, quiet, runner>>
  PROVE  SemInv'
<1>1. /\ at[i] = "create" /\ sem' = sem
      /\ at' \in [Clients -> Places] /\ at'[i] = "begin"
      /\ \A j \in Clients \ {i} : at'[j] = at[j]
  BY DEF Create, Goto, SemInv, SemTypeOK
<1>2. value' \in Seq(Int) /\ name' \in 1..Len(value')
  BY DEF Create, Opened, OpenedValue, SemInv, SemTypeOK
<1>3. name = 0 => value'[name'] = 1
  BY DEF Create, Opened, OpenedValue, SemInv, SemTypeOK
<1>4. SemTypeOK'
  BY <1>1, <1>2 DEF SemInv, SemTypeOK
<1>5. BornInTime'
  BY <1>1 DEF SemInv, BornInTime
<1>6. ASSUME quiet PROVE AloneAtFirst' /\ OneSemaphore'
  <2>1. name = 0 /\ \A j \in Clients : Alive(j) => j = i
    BY <1>1, <1>6 DEF SemInv, AloneAtFirst
  <2>2. \A j \in Clients : (Alive(j))' => j = i
    BY <1>1, <2>1
  <2> QED
    BY <1>1, <1>2, <1>3, <1>6, <2>1, <2>2 DEF SemInv, AloneAtFirst, OneSemaphore
<1> QED
  BY <1>4, <1>5, <1>6 DEF SemInv

LEMMA OpenKeeps ==
  ASSUME SemInv, NEW i \in Clients, Open(i), UNCHANGED <<test, quiet, runner>>
  PROVE  SemInv'
<1>1. CASE name = 0
  <2>1. Goto(i, Following(i)) /\ Following(i) \in {"fork", "exit"}
    BY <1>1 DEF Open, Following
  <2> QED
    BY <1>1, <2>1, Moves DEF Open
<1>2. CASE name # 0
  <2>1. /\ at[i] = "open" /\ name' = name /\ value' = value
        /\ at' \in [Clients -> Places] /\ at'[i] = "wait"
        /\ \A j \in Clients \ {i} : at'[j] = at[j]
        /\ sem' = [sem EXCEPT ![i] = name]
    BY <1>2 DEF Open, Goto, SemInv, SemTypeOK
  <2>2. /\ sem' \in [Clients -> Nat] /\ sem'[i] = name
        /\ \A j \in Clients \ {i} : sem'[j] = sem[j]
    BY <2>1 DEF SemInv, SemTypeOK
  <2>3. SemTypeOK'
    BY <2>1, <2>2 DEF SemInv, SemTypeOK
  <2>4. BornInTime'
    BY <2>1 DEF SemInv, BornInTime
  <2>5. ASSUME quiet PROVE AloneAtFirst' /\ OneSemaphore'
    BY <2>1, <2>2, <2>5 DEF SemInv, AloneAtFirst, OneSemaphore
  <2> QED
    BY <2>3, <2>4, <2>5 DEF SemInv
<1> QED
  BY <1>1, <1>2

LEMMA SemWaitKeeps ==
  ASSUME SemInv, NEW i \in Clients,
         SemWait(i, "wait", "connect") \/ SemWait(i, "hold", "forking"),
         UNCHANGED <<test, quiet, runner>>
  PROVE  SemInv'
<1>1. /\ at[i] \in {"wait", "hold"} /\ value[sem[i]] > 0
      /\ value' = [value EXCEPT ![sem[i]] = @ - 1]
      /\ name' = name /\ sem' = sem
      /\ at' \in [Clients -> Places] /\ at'[i] \in {"connect", "forking"}
      /\ \A j \in Clients \ {i} : at'[j] = at[j]
  BY DEF SemWait, Goto, SemInv, SemTypeOK
<1>2. value' \in Seq(Int) /\ Len(value') = Len(value)
  <2>1. value \in Seq(Int) /\ sem[i] \in Nat
    BY DEF SemInv, SemTypeOK
  <2> QED
    BY <1>1, <2>1, LoweredValue
<1>3. SemTypeOK'
  BY <1>1, <1>2 DEF SemInv, SemTypeOK
<1>4. BornInTime'
  BY <1>1 DEF SemInv, BornInTime
<1>5. ASSUME quiet PROVE AloneAtFirst' /\ OneSemaphore'
  <2>1. sem[i] = name /\ name \in 1..Len(value) /\ value[name] = 1
    <3>1. sem[i] = name /\ name # 0 /\ value[name] \in {0, 1}
      BY <1>1, <1>5 DEF SemInv, OneSemaphore
    <3> QED
      BY <1>1, <3>1 DEF SemInv, SemTypeOK
  <2>2. value'[name] = 0
    BY <1>1, <2>1 DEF SemInv, SemTypeOK
  <2>3. \A j \in Clients : at[j] \notin Conversation
    BY <1>5, <2>1 DEF SemInv, OneSemaphore
  <2>4. AloneAtFirst'
    BY <1>1, <1>5 DEF SemInv, AloneAtFirst
  <2> QED
    BY <1>1, <1>5, <2>1, <2>2, <2>3, <2>4 DEF SemInv, OneSemaphore
<1> QED
  BY <1>3, <1>4, <1>5 DEF SemInv

LEMMA PostKeeps ==
  ASSUME SemInv, NEW i \in Clients, Post(i), UNCHANGED <<test, quiet, runner>>
  PROVE  SemInv'
<1>1. /\ at[i] = "post" /\ value' = [value EXCEPT ![sem[i]] = @ + 1]
      /\ name' = name /\ sem' = sem
      /\ at' \in [Clients -> Places] /\ at'[i] \in {"fork", "exit"}
      /\ \A j \in Clients \ {i} : at'[j] = at[j]
  BY DEF Post, Goto, Following, SemInv, SemTypeOK
<1>2. value' \in Seq(Int) /\ Len(value') = Len(value)
  <2>1. value \in Seq(Int) /\ sem[i] \in Nat
    BY DEF SemInv, SemTypeOK
  <2>2. value' = [value EXCEPT ![sem[i]] = @ + 1]
    BY <1>1, <2>1
  <2> QED
    BY <2>1, <2>2, ChangedValue
<1>3. SemTypeOK'
  BY <1>1, <1>2 DEF SemInv, SemTypeOK
<1>4. BornInTime'
  BY <1>1 DEF SemInv, BornInTime
<1>5. ASSUME quiet PROVE AloneAtFirst' /\ OneSemaphore'
  <2>1. sem[i] = name /\ name \in 1..Len(value) /\ value[name] = 0
    BY <1>1, <1>5 DEF SemInv, SemTypeOK, OneSemaphore
  <2>2. value'[name] = 1
    BY <1>1, <2>1 DEF SemInv, SemTypeOK
  <2>3. \A j \in Clients : at'[j] \notin Conversation
    BY <1>1, <1>5 DEF SemInv, OneSemaphore
  <2>4. AloneAtFirst'
    BY <1>1, <1>5 DEF SemInv, AloneAtFirst
  <2> QED
    BY <1>1, <1>5, <2>1, <2>2, <2>3, <2>4 DEF SemInv, OneSemaphore
<1> QED
  BY <1>3, <1>4, <1>5 DEF SemInv

LEMMA PrepareKeeps ==
  ASSUME SemInv, NEW i \in Clients, AtforkPrepare(i), UNCHANGED <<test, quiet, runner>>
  PROVE  SemInv'
<1>1. /\ at[i] = "fork"
      /\ name' = Opened /\ value' = OpenedValue(0)
      /\ sem' = [sem EXCEPT ![i] = Opened]
      /\ at' \in [Clients -> Places] /\ at'[i] = "hold"
      /\ \A j \in Clients \ {i} : at'[j] = at[j]
  BY DEF AtforkPrepare, Prepare, Goto, SemInv, SemTypeOK
<1>2. Opened \in Nat /\ value' \in Seq(Int) /\ name' \in 0..Len(value')
  BY <1>1 DEF Opened, OpenedValue, SemInv, SemTypeOK
<1>3. /\ sem' \in [Clients -> Nat] /\ sem'[i] = Opened
      /\ \A j \in Clients \ {i} : sem'[j] = sem[j]
  BY <1>1, <1>2 DEF SemInv, SemTypeOK
<1>4. SemTypeOK'
  BY <1>1, <1>2, <1>3 DEF SemInv, SemTypeOK
<1>5. BornInTime'
  BY <1>1 DEF SemInv, BornInTime
<1>6. ASSUME quiet PROVE AloneAtFirst' /\ OneSemaphore'
  <2>1. name # 0 /\ value[name] \in {0, 1}
    BY <1>1, <1>6 DEF SemInv, OneSemaphore
  <2>2. name' = name /\ sem'[i] = name /\ value'[name] = value[name]
    BY <1>1, <1>3, <2>1 DEF Opened, OpenedValue, SemInv, SemTypeOK
  <2>3. AloneAtFirst'
    BY <1>1, <1>6 DEF SemInv, AloneAtFirst
  <2> QED
    BY <1>1, <1>3, <1>6, <2>1, <2>2, <2>3 DEF SemInv, OneSemaphore
<1> QED
  BY <1>4, <1>5, <1>6 DEF SemInv

LEMMA ForkKeeps ==
  ASSUME SemInv, NEW i \in Clients, Fork(i), UNCHANGED <<test, quiet, runner>>
  PROVE  SemInv'
<1>1. PICK k \in Unborn(i) : at' = [at EXCEPT ![i] = "release", ![k] = "young"]
  BY DEF Fork
<1>2. k \in Clients /\ k[1] = i[1] /\ at[k] = "unborn" /\ at[i] = "forking"
  BY DEF Fork, Unborn, Kids
<1>3. /\ at' \in [Clients -> Places] /\ at'[i] = "release" /\ at'[k] = "young"
      /\ \A j \in Clients \ {i, k} : at'[j] = at[j]
  BY <1>1, <1>2 DEF SemInv, SemTypeOK
<1>4. name' = name /\ value' = value /\ sem' = sem
  BY DEF Fork, SemUnchanged
<1>5. SemTypeOK'
  BY <1>3, <1>4 DEF SemInv, SemTypeOK
<1>6. BornInTime'
  BY <1>2, <1>3 DEF SemInv, BornInTime
<1>7. ASSUME quiet PROVE AloneAtFirst' /\ OneSemaphore'
  <2>1. AloneAtFirst'
    BY <1>2, <1>3, <1>4, <1>7 DEF SemInv, AloneAtFirst
  <2>2. OneSemaphore'
    BY <1>2, <1>3, <1>4, <1>7 DEF SemInv, OneSemaphore
  <2> QED
    BY <2>1, <2>2
<1> QED
  BY <1>5, <1>6, <1>7 DEF SemInv

LEMMA ParentKeeps ==
  ASSUME SemInv, NEW i \in Clients, AtforkParent(i), UNCHANGED <<test, quiet, runner>>
  PROVE  SemInv'
<1>1. /\ at[i] = "release" /\ sem' = sem
      /\ name' = Opened /\ value' = OpenedValue(1)
      /\ at' \in [Clients -> Places] /\ at'[i] = "fork"
      /\ \A j \in Clients \ {i} : at'[j] = at[j]
  BY DEF AtforkParent, GivenByParent, Goto, SemInv, SemTypeOK
<1>2. value' \in Seq(Int) /\ name' \in 0..Len(value')
  BY <1>1 DEF Opened, OpenedValue, SemInv, SemTypeOK
<1>3. SemTypeOK'
  BY <1>1, <1>2 DEF SemInv, SemTypeOK
<1>4. BornInTime'
  BY <1>1 DEF SemInv, BornInTime
<1>5. ASSUME quiet PROVE AloneAtFirst' /\ OneSemaphore'
  <2>1. name # 0 /\ value[name] = 0
    BY <1>1, <1>5 DEF SemInv, OneSemaphore
  <2>2. name' = name /\ value'[name] = 1
    BY <1>1, <2>1 DEF Opened, OpenedValue, SemInv, SemTypeOK
  <2>3. \A j \in Clients : at'[j] \notin Conversation
    BY <1>1, <1>5 DEF SemInv, OneSemaphore
  <2>4. AloneAtFirst'
    BY <1>1, <1>5 DEF SemInv, AloneAtFirst
  <2> QED
    BY <1>1, <1>5, <2>1, <2>2, <2>3, <2>4 DEF SemInv, OneSemaphore
<1> QED
  BY <1>3, <1>4, <1>5 DEF SemInv

LEMMA TalkKeeps ==
  ASSUME SemInv, NEW i \in Clients, UNCHANGED <<test, quiet, runner>>,
         Call(i) \/ Connect(i) \/ Write(i) \/ Read(i)
  PROVE  SemInv'
<1>1. CASE Call(i)
  BY <1>1, Moves DEF Call, SemUnchanged, Goto
<1>2. CASE Connect(i)
  BY <1>2, Moves DEF Connect, SemUnchanged
<1>3. CASE Write(i)
  BY <1>3, Moves DEF Write, SemUnchanged
<1>4. CASE Read(i)
  BY <1>4, Moves DEF Read, SemUnchanged
<1> QED
  BY <1>1, <1>2, <1>3, <1>4

LEMMA LifeKeeps ==
  ASSUME SemInv, NEW i \in Clients, UNCHANGED <<test, quiet, runner>>,
         AtforkChild(i) \/ WaitForKids(i)
  PROVE  SemInv'
<1>1. CASE AtforkChild(i)
  BY <1>1, Moves DEF AtforkChild, SemUnchanged
<1>2. CASE WaitForKids(i)
  BY <1>2, Moves DEF WaitForKids, SemUnchanged
<1> QED
  BY <1>1, <1>2

LEMMA LeaveKeeps ==
  ASSUME SemInv, NEW i \in Clients, Leave(i), UNCHANGED <<test, quiet, runner>>
  PROVE  SemInv'
<1>1. /\ name' = name /\ value' = value /\ sem' = sem /\ Alive(i)
      /\ at' \in [Clients -> Places] /\ at'[i] = "gone"
      /\ \A j \in Clients \ {i} : at'[j] = at[j]
  BY DEF Leave, Goto, SemUnchanged, SemInv, SemTypeOK
<1>2. SemTypeOK'
  BY <1>1 DEF SemInv, SemTypeOK
<1>3. BornInTime'
  BY <1>1 DEF SemInv, BornInTime
<1>4. ASSUME quiet PROVE AloneAtFirst' /\ OneSemaphore'
  BY <1>1, <1>4 DEF SemInv, AloneAtFirst, OneSemaphore
<1> QED
  BY <1>2, <1>3, <1>4 DEF SemInv

LEMMA ProcessKeeps ==
  ASSUME SemInv, NEW i \in Clients, Process(i)
  PROVE  SemInv'
<1>1. UNCHANGED <<test, quiet, runner>>
  BY DEF Process, mainVars
<1>2. CASE Unlink(i) \/ Create(i) \/ Open(i) \/ Post(i)
  BY <1>1, <1>2, UnlinkKeeps, CreateKeeps, OpenKeeps, PostKeeps
<1>3. CASE SemWait(i, "wait", "connect") \/ SemWait(i, "hold", "forking")
  BY <1>1, <1>3, SemWaitKeeps
<1>4. CASE AtforkPrepare(i) \/ Fork(i) \/ AtforkParent(i)
  BY <1>1, <1>4, PrepareKeeps, ForkKeeps, ParentKeeps
<1>5. CASE Call(i) \/ Connect(i) \/ Write(i) \/ Read(i)
  BY <1>1, <1>5, TalkKeeps
<1>6. CASE AtforkChild(i) \/ WaitForKids(i) \/ Leave(i)
  BY <1>1, <1>6, LifeKeeps, LeaveKeeps
<1> QED
  BY <1>2, <1>3, <1>4, <1>5, <1>6 DEF Process
-----------------------------------------------------------------------------
(* What the tester and its server do *)

LEMMA RunnerKeeps ==
  ASSUME SemInv, Runner
  PROVE  SemInv'
<1>1. UNCHANGED <<test, quiet, name, value, sem>>
  BY DEF Runner, ResetTime, ResetInfos, ResetErrors, ResetDelays, SetDelays, Popen,
         WaitForP1, RunnerGoes, mainVars, procVars
<1>2. CASE Popen
  <2>1. runner = "start" /\ runner' = "wait" /\ Goto(<<test, 1>>, "unlink")
    BY <1>2 DEF Popen, RunnerGoes
  <2>2. /\ at' \in [Clients -> Places]
        /\ \A j \in Clients : at'[j] = IF j = <<test, 1>> THEN "unlink" ELSE at[j]
    BY <2>1 DEF Goto, SemInv, SemTypeOK
  <2>3. \A j \in Clients : j[1] = test => at[j] = "unborn"
    BY <2>1 DEF SemInv, BornInTime, Reset
  <2>4. SemTypeOK'
    BY <1>1, <2>2 DEF SemInv, SemTypeOK
  <2>5. BornInTime'
    BY <1>1, <2>1, <2>2 DEF SemInv, SemTypeOK, BornInTime, Reset
  <2>6. ASSUME quiet PROVE AloneAtFirst' /\ OneSemaphore'
    <3>1. \A j \in Clients : ~ Alive(j)
      BY <2>3, <2>6 DEF SemInv, AloneAtFirst
    <3> QED
      BY <1>1, <2>2, <3>1 DEF AloneAtFirst, OneSemaphore
  <2> QED
    BY <1>1, <2>4, <2>5, <2>6 DEF SemInv
<1>3. CASE ~ Popen
  <2>1. at' = at /\ (runner' \in Reset => runner \in Reset)
    BY <1>3 DEF Runner, ResetTime, ResetInfos, ResetErrors, ResetDelays, SetDelays,
                WaitForP1, RunnerGoes, procVars, Reset
  <2> QED
    BY <1>1, <2>1 DEF SemInv, SemTypeOK, BornInTime, AloneAtFirst, OneSemaphore
<1> QED
  BY <1>2, <1>3

LEMMA MainKeeps ==
  ASSUME SemInv, Main
  PROVE  SemInv'
<1>1. UNCHANGED <<name, value, at, sem>>
  BY DEF Main
<1>2. CASE Start
  <2>1. test' = test + 1 /\ runner' = "time" /\ quiet' = AllQuiet
    BY <1>2 DEF Start
  <2>2. SemTypeOK'
    BY <1>1, <2>1 DEF SemInv, SemTypeOK, AllQuiet
  <2>3. BornInTime'
    BY <1>1, <2>1, ClientsAreNumbered DEF SemInv, SemTypeOK, BornInTime
  <2>4. ASSUME quiet' PROVE AloneAtFirst' /\ OneSemaphore'
    BY <1>1, <2>1, <2>4 DEF AllQuiet, AloneAtFirst, OneSemaphore
  <2> QED
    BY <2>2, <2>3, <2>4 DEF SemInv
<1>3. CASE ~ Start
  <2>1. UNCHANGED <<test, quiet, runner>>
    BY <1>3 DEF Main, Join, Expire, Kill, Rejoin, Judge, Stop, StopConnect
  <2> QED
    BY <1>1, <2>1 DEF SemInv, SemTypeOK, BornInTime, AloneAtFirst, OneSemaphore
<1> QED
  BY <1>2, <1>3

LEMMA SemStep == SemInv /\ [Next]_vars => SemInv'
<1> SUFFICES ASSUME SemInv, [Next]_vars PROVE SemInv'
  OBVIOUS
<1>1. CASE Main \/ Runner
  BY <1>1, MainKeeps, RunnerKeeps
<1>2. CASE \E i \in Clients : Process(i)
  BY <1>2, ProcessKeeps
<1>3. CASE Server \/ UNCHANGED vars
  <2>1. UNCHANGED <<test, quiet, runner, name, value, at, sem>>
    BY <1>3 DEF Server, vars, mainVars, procVars
  <2> QED
    BY <2>1 DEF SemInv, SemTypeOK, BornInTime, AloneAtFirst, OneSemaphore
<1> QED
  BY <1>1, <1>2, <1>3 DEF Next

\* The strengthening: what is known of the one semaphore of a test that begins quietly.
THEOREM SemInvariance == Spec => []SemInv
  BY SemInit, SemStep, PTL DEF Spec

\* For any number of tests and processes, any tree, any moment of a fork and any
\* moment of a kill: of the processes of a test that begins quietly one at a time
\* is between sem_wait and sem_post of info() or of the fork handlers.
THEOREM OneConversationHolds == Spec => []OneConversation
<1>1. SemInv => OneConversation
  BY DEF SemInv, OneSemaphore, OneConversation
<1> QED
  BY <1>1, SemInvariance, PTL
-----------------------------------------------------------------------------
(* What the server has heard *)

Pairs == Nat \X Nat
Over == tester \in {"stop", "exited"}

Busy == {"receive", "look", "record", "delay", "fetch", "answer"}
Settled == {"delay", "fetch", "answer"}       \* the message is in the log

\* Connections: with the server, and before it.
Served(i) == server.client = i /\ server.at \in Busy
Queued(i) == \E n \in DOMAIN backlog : backlog[n] = i

\* A call of info() whose message is not in the log, and how many messages are.
Pending(i) ==
  \/ at[i] \in {"open", "wait", "connect", "write"}
  \/ at[i] = "read" /\ i \notin answered /\ ~ (Served(i) /\ server.at \in Settled)
Heard(i) ==
  IF at[i] \in {"unborn", "young"} THEN 0 ELSE IF Pending(i) THEN said[i] - 1 ELSE said[i]

\* A process of this test, or of a later one, that has not been killed.
Whole(i) == i[1] >= test /\ (Gone(i) => ~ timedOut)

CoreType ==
  /\ setup \in Setups
  /\ test \in 0..Tests
  /\ tester \in {"main", "join", "late", "rejoin", "judge", "judged"}
  /\ runner \in Reset \cup {"wait", "done"}
  /\ timedOut \in BOOLEAN
  /\ LogTypeOK
  /\ server \in [at : Busy \cup {"accept", "dead"}, client : Clients \cup {<<0, 0>>},
                 found : {"begin", "end", "error"}]
  /\ who \in [Keys -> [pid : Pairs, ppid : Pairs, ender : Pairs]]
  /\ backlog \in Seq(Clients)
  /\ said \in [Clients -> 0..2]
  /\ sent \subseteq Clients /\ answered \subseteq Clients
  /\ orphans \subseteq Clients /\ doomed \subseteq Clients

\* The tester: it judges when P1 has gone, and stops its server after that.
MainOK ==
  /\ shouldStop = FALSE
  /\ tester \in {"main", "judge", "judged"} => runner = "done"
  /\ tester = "main" <=> test = 0
  /\ runner = "done" /\ test > 0 => Gone(<<test, 1>>)
  /\ runner \in Reset => ~ timedOut
  /\ server.at \in Busy => server.client \in Clients /\ at[server.client] # "unborn"
  /\ \A n \in DOMAIN backlog : at[backlog[n]] # "unborn"

Early == {"unborn", "young", "unlink", "create", "begin"}
Talking == {"open", "wait", "connect", "write", "read", "post"}
Resting == {"fork", "hold", "forking", "release", "end"}

\* Where a process is: it forks between its messages, and only P1 makes a semaphore.
PlaceOK(i) ==
  /\ at[i] # "unborn" => i[2] \in Procs
  /\ i[1] < test /\ i[2] = 1 => Gone(i)
  /\ at[i] \in Naming =>
       i = <<test, 1>> /\ \A k \in Clients : k[1] = test /\ k # i => at[k] = "unborn"
  /\ at[i] = "unborn" => i \notin doomed \cup orphans
  /\ at[i] \in {"unborn", "unlink", "create", "begin"} => said[i] = 0
  /\ at[i] \in Talking => said[i] \in {1, 2}
  /\ at[i] \in Resting \cup {"young"} => said[i] = 1
  /\ at[i] = "exit" => said[i] = 2
  /\ Gone(i) /\ Whole(i) => said[i] = 2
  /\ said[i] = 2 \/ at[i] = "end" => \A k \in Kids(i) : Gone(k)
  /\ at[i] \in Early \/ (at[i] \in Talking /\ said[i] = 1) =>
       \A k \in Kids(i) : at[k] = "unborn"
  /\ i \in doomed \cup orphans /\ i[1] >= test => timedOut
  /\ i[1] = test /\ at[i] \notin {"unborn", "unlink", "create", "gone"} => name # 0

PlaceInv == \A i \in Clients : PlaceOK(i)

\* A conversation with the server: one connection, one message, one answer.
SocketOK(i) ==
  /\ Queued(i) => at[i] \in {"write", "read"} /\ ~ Served(i) /\ i \notin answered
  /\ \A m, n \in DOMAIN backlog : backlog[m] = i /\ backlog[n] = i => m = n
  /\ Served(i) => /\ at[i] \in {"write", "read"} /\ i \notin answered
                  /\ server.at # "receive" => at[i] = "read" /\ i \notin sent
  /\ i \in sent => at[i] = "read" /\ i \notin answered
  /\ i \in answered => at[i] = "read"

SocketInv == \A i \in Clients : Whole(i) => SocketOK(i)

Base == CoreType /\ MainOK /\ PlaceInv /\ SocketInv
-----------------------------------------------------------------------------

LEMMA ClientsAre ==
  /\ \A i \in Clients :
       /\ i = <<i[1], i[2]>> /\ i[1] \in 1..Tests /\ i[2] \in Nat \ {0}
       /\ Key(i) = <<i[2], 0>> /\ Key(i) \in Keys /\ i \in Pairs
  /\ \A i, j \in Clients : i[1] = j[1] /\ (i[2] = j[2] \/ Key(i) = Key(j)) => i = j
  /\ <<0, 0>> \notin Clients /\ <<0, 0>> \in Pairs
  /\ Tests \in Nat
<1>1. \A i \in Clients : /\ i = <<i[1], i[2]>> /\ i[1] \in 1..Tests
                         /\ \E k \in Keys : k[1] = i[2]
  BY DEF Clients
<1>2. \A i \in Clients : i[2] \in Nat \ {0} /\ <<i[2], 0>> \in Keys
  BY <1>1, InfoServerAssumption
<1> QED
  BY <1>1, <1>2, InfoServerAssumption DEF Key, Pairs, Clients

LEMMA ProcsAre ==
  ASSUME setup \in Setups
  PROVE  /\ 1 \in Procs /\ Procs = 1..data.nrProcs /\ data.nrProcs \in Nat
         /\ \A t \in 1..Tests, p \in Procs : <<t, p>> \in Clients
         /\ data.procs[1] = 0
         /\ \A p \in Procs \ {1} : data.procs[p] \in Procs
         /\ \A S \in SUBSET (Procs \ {1}) : S # {} => \E p \in S : data.procs[p] \notin S
<1>1. /\ data.nrProcs \in Nat \ {0}
      /\ \A p \in 1..data.nrProcs : <<p, 0>> \in Keys
      /\ data.procs[1] = 0
      /\ \A p \in 2..data.nrProcs : data.procs[p] \in 1..data.nrProcs
      /\ \A S \in SUBSET (2..data.nrProcs) :
           S # {} => \E p \in S : data.procs[p] \notin S
  BY InfoServerAssumption DEF data
<1>2. Procs \ {1} = 2..data.nrProcs
  BY <1>1 DEF Procs
<1>3. \A t \in 1..Tests, p \in Procs : <<t, p>> \in Clients
  <2> TAKE t \in 1..Tests, p \in Procs
  <2>1. <<p, 0>> \in Keys /\ <<p, 0>>[1] = p
    BY <1>1 DEF Procs
  <2> QED
    BY <2>1 DEF Clients
<1> QED
  BY <1>1, <1>2, <1>3 DEF Procs

LEMMA KidsAre ==
  ASSUME setup \in Setups, NEW i \in Clients, NEW k \in Kids(i)
  PROVE  /\ k \in Clients /\ k[1] = i[1] /\ k[2] \in Procs \ {1} /\ k # i
         /\ i = <<k[1], data.procs[k[2]]>>
<1>1. k \in Clients /\ k[1] = i[1] /\ k[2] \in Procs /\ data.procs[k[2]] = i[2]
  BY DEF Kids
<1>2. k[2] # 1
  BY <1>1, ProcsAre, ClientsAre
<1>3. data.procs[k[2]] # k[2]
  <2>1. {k[2]} \in SUBSET (Procs \ {1})
    BY <1>1, <1>2
  <2> QED
    BY <2>1, ProcsAre
<1> QED
  BY <1>1, <1>2, <1>3, ClientsAre

LEMMA KidsStay ==
  ASSUME setup' = setup
  PROVE  /\ Procs' = Procs /\ data' = data
         /\ \A i \in Clients : Kids(i)' = Kids(i)
BY DEF Kids, Procs, data
-----------------------------------------------------------------------------
(* The steps of the processes, and where they are *)

\* Whatever a process does: it goes on itself, and a child may be born.
LEMMA ProcessSteps ==
  ASSUME Base, SemInv, NEW i \in Clients, Process(i)
  PROVE  /\ UNCHANGED <<mainVars, runner, serverVars>>
         /\ at[i] \notin {"unborn", "gone"} /\ at'[i] # "unborn"
         /\ at' \in [Clients -> Places]
         /\ \A j \in Clients : at'[j] # at[j] /\ j # i =>
              at[i] = "forking" /\ j \in Kids(i) /\ at[j] = "unborn" /\ at'[j] = "young"
<1>1. UNCHANGED <<mainVars, runner, serverVars>> /\ at \in [Clients -> Places]
  BY DEF Process, SemInv, SemTypeOK
<1>2. CASE Unlink(i) \/ Create(i) \/ Call(i) \/ Open(i)
  BY <1>1, <1>2 DEF Unlink, Create, Call, Open, Goto, Following
<1>3. CASE SemWait(i, "wait", "connect") \/ Connect(i) \/ Write(i) \/ Read(i) \/ Post(i)
  BY <1>1, <1>3 DEF SemWait, Connect, Write, Read, Post, Goto, Following
<1>4. CASE AtforkPrepare(i) \/ SemWait(i, "hold", "forking") \/ AtforkParent(i)
             \/ AtforkChild(i) \/ WaitForKids(i)
  BY <1>1, <1>4 DEF AtforkPrepare, SemWait, AtforkParent, AtforkChild, WaitForKids, Goto,
                    Prepare
<1>5. CASE Fork(i)
  <2>1. PICK k \in Unborn(i) : at' = [at EXCEPT ![i] = "release", ![k] = "young"]
    BY <1>5 DEF Fork
  <2>2. k \in Kids(i) /\ k \in Clients /\ at[k] = "unborn" /\ at[i] = "forking"
    BY <1>5 DEF Fork, Unborn, Kids
  <2> QED
    BY <1>1, <2>1, <2>2
<1>6. CASE Leave(i)
  BY <1>1, <1>6 DEF Leave, Goto
<1> QED
  BY <1>2, <1>3, <1>4, <1>5, <1>6 DEF Process

LEMMA ProcessKeepsType ==
  ASSUME Base, SemInv, NEW i \in Clients, Process(i)
  PROVE  CoreType' /\ MainOK'
<1> USE DEF Base, CoreType, MainOK
<1>1. UNCHANGED <<mainVars, runner, serverVars>>
  BY ProcessSteps
<1>2. \A j \in Clients : /\ at[j] # "unborn" => at'[j] # "unborn"
                         /\ Gone(j) => (Gone(j))'
  BY ProcessSteps
<1>3. said' \in [Clients -> 0..2]
  <2>1. CASE Call(i)
    BY <2>1 DEF Call
  <2>2. CASE Fork(i)
    BY <2>2 DEF Fork, Unborn, Kids
  <2>3. CASE AtforkChild(i)
    BY <2>3 DEF AtforkChild, FreshKeys
  <2>4. CASE ~ (Call(i) \/ Fork(i) \/ AtforkChild(i))
    BY <2>4 DEF Process, Unlink, Create, Open, SemWait, Connect, Write, Read, Post,
                AtforkPrepare, AtforkParent, WaitForKids, Leave
  <2> QED
    BY <2>1, <2>2, <2>3, <2>4
<1>4. orphans' \subseteq Clients /\ doomed' \subseteq Clients
  <2>1. CASE Open(i)
    BY <2>1 DEF Open
  <2>2. CASE Leave(i)
    BY <2>2 DEF Leave, Kids
  <2>3. CASE ~ (Open(i) \/ Leave(i))
    BY <2>3 DEF Process, Unlink, Create, Call, SemWait, Connect, Write, Read, Post,
                AtforkPrepare, Fork, AtforkParent, AtforkChild, WaitForKids
  <2> QED
    BY <2>1, <2>2, <2>3
<1>5. /\ backlog' \in Seq(Clients) /\ sent' \subseteq Clients /\ answered' \subseteq Clients
      /\ \A n \in DOMAIN backlog' : at'[backlog'[n]] # "unborn"
  <2>1. CASE Connect(i)
    <3>1. backlog' = Append(backlog, i) /\ sent' = sent /\ answered' = answered
      BY <2>1 DEF Connect, Busy
    <3>0. backlog \in Seq(Clients)
      OBVIOUS
    <3>2. at'[i] # "unborn"
      BY ProcessSteps
    <3>3. /\ backlog' \in Seq(Clients) /\ DOMAIN backlog' = 1..Len(backlog) + 1
          /\ Len(backlog) \in Nat /\ DOMAIN backlog = 1..Len(backlog)
          /\ backlog'[Len(backlog) + 1] = i
          /\ \A n \in 1..Len(backlog) : backlog'[n] = backlog[n] /\ backlog[n] \in Clients
      BY <3>0, <3>1, AppendProperties, LenProperties, ElementOfSeq
    <3>4. \A n \in 1..Len(backlog) : at[backlog[n]] # "unborn"
      BY <3>3
    <3>5. \A n \in 1..Len(backlog) : at'[backlog[n]] # "unborn"
      BY <1>2, <3>3, <3>4
    <3>6. \A n \in 1..Len(backlog) + 1 : n \in 1..Len(backlog) \/ n = Len(backlog) + 1
      BY <3>3
    <3>7. \A n \in DOMAIN backlog' : at'[backlog'[n]] # "unborn"
      BY <3>2, <3>3, <3>5, <3>6
    <3> QED
      BY <3>1, <3>3, <3>7
  <2>2. CASE Write(i) \/ Read(i)
    BY <1>2, <2>2 DEF Write, Read
  <2>3. CASE ~ (Connect(i) \/ Write(i) \/ Read(i))
    BY <1>2, <2>3 DEF Process, Unlink, Create, Call, Open, SemWait, Post,
                AtforkPrepare, Fork, AtforkParent, AtforkChild, WaitForKids, Leave, socketVars
  <2> QED
    BY <2>1, <2>2, <2>3
<1>7. runner' = "done" /\ test' > 0 => (Gone(<<test, 1>>))'
  <2>1. test > 0 => <<test, 1>> \in Clients
    <3>1. test > 0 => test \in 1..Tests
      BY ClientsAre
    <3> QED
      BY <3>1, ProcsAre
  <2> QED
    BY <1>1, <1>2, <2>1 DEF mainVars
<1>8. CoreType'
  BY <1>1, <1>3, <1>4, <1>5 DEF mainVars, serverVars, logVars, LogTypeOK
<1>9. MainOK'
  BY <1>1, <1>2, <1>5, <1>7 DEF mainVars, serverVars
<1> QED
  BY <1>8, <1>9

LEMMA ProcessKeepsPlaces ==
  ASSUME Base, SemInv, NEW i \in Clients, Process(i)
  PROVE  PlaceInv'
<1> SUFFICES ASSUME NEW j \in Clients PROVE PlaceOK(j)'
  BY DEF PlaceInv
<1> USE DEF Early, Talking, Resting
<1>1. /\ setup' = setup /\ test' = test /\ timedOut' = timedOut
      /\ at \in [Clients -> Places] /\ said \in [Clients -> 0..2] /\ server.at # "closed"
      /\ doomed \subseteq Clients /\ orphans \subseteq Clients
  BY ProcessSteps DEF mainVars, Base, CoreType, SemInv, SemTypeOK, Busy
<1>2. PlaceOK(j) /\ PlaceOK(i)
  BY DEF Base, PlaceInv
<1>3. /\ Procs' = Procs /\ Kids(j)' = Kids(j)
      /\ \A k \in Kids(i) : k \in Clients /\ k[1] = i[1] /\ k # i /\ k[2] \in Procs /\ k[2] # 1
      /\ \A k \in Kids(j) : k \in Clients /\ k[1] = j[1] /\ k # j
      /\ \A k \in Kids(j) \cap Kids(i) : i = j
      /\ Whole(j)' => Whole(j) \/ j = i
  BY <1>1, KidsStay, KidsAre, ProcessSteps DEF Base, CoreType, Whole
<1>4. CASE Unlink(i) \/ Create(i)
  BY <1>1, <1>2, <1>3, <1>4 DEF Unlink, Create, Goto, PlaceOK, Whole, Opened
<1>5. CASE Call(i)
  BY <1>1, <1>2, <1>3, <1>5 DEF Call, Goto, PlaceOK, SemUnchanged, Whole
<1>6. CASE SemWait(i, "wait", "connect") \/ SemWait(i, "hold", "forking") \/ Connect(i)
  BY <1>1, <1>2, <1>3, <1>6 DEF SemWait, Connect, Goto, PlaceOK, SemUnchanged, Whole
<1>7. CASE Write(i) \/ Read(i) \/ Post(i)
  BY <1>1, <1>2, <1>3, <1>7 DEF Write, Read, Post, Following, Goto, PlaceOK, SemUnchanged, Whole
<1>8. CASE AtforkPrepare(i) \/ AtforkParent(i) \/ AtforkChild(i)
  BY <1>1, <1>2, <1>3, <1>8
     DEF AtforkPrepare, AtforkParent, AtforkChild, Prepare, FreshKeys, Goto, PlaceOK,
         SemUnchanged, Opened, Whole
<1>9. CASE WaitForKids(i)
  BY <1>1, <1>2, <1>3, <1>9 DEF WaitForKids, Goto, PlaceOK, SemUnchanged, Whole
<1>10. CASE Open(i)
  <2>1. /\ at[i] = "open" /\ name' = name
        /\ said' = said /\ doomed' = doomed
        /\ at' = [at EXCEPT ![i] = IF name = 0 THEN Following(i) ELSE "wait"]
        /\ orphans' \subseteq orphans \cup {i}
    BY <1>10 DEF Open, Goto
  <2>2. ASSUME i \in orphans' \ orphans, i[1] >= test PROVE timedOut
    <3>1. /\ i[2] # 1 /\ Gone(<<i[1], data.procs[i[2]]>>)
      BY <1>10, <2>2 DEF Open
    <3> DEFINE q == <<i[1], data.procs[i[2]]>>
    <3>2. i[2] \in Procs \ {1} /\ setup \in Setups /\ i[1] \in 1..Tests
      BY <1>2, <2>1, <3>1, ClientsAre DEF PlaceOK, Base, CoreType
    <3>3. q \in Clients /\ i \in Kids(q)
      BY <3>2, ProcsAre DEF Kids
    <3>4. PlaceOK(q) /\ Gone(q) /\ q[1] = i[1]
      BY <3>1, <3>3 DEF Base, PlaceInv
    <3> HIDE DEF q
    <3>5. CASE ~ timedOut
      <4>1. Whole(q) /\ said[q] = 2
        BY <2>2, <3>4, <3>5 DEF PlaceOK, Whole
      <4>2. Gone(i)
        BY <3>3, <3>4, <4>1 DEF PlaceOK
      <4> QED
        BY <2>1, <4>2
    <3>6. timedOut \in BOOLEAN
      BY DEF Base, CoreType
    <3> QED
      BY <3>5, <3>6
  <2>3. Following(i) \in {"fork", "exit"} /\ (said[i] = 1 <=> Following(i) = "fork")
    BY DEF Following
  <2>4. CASE j = i
    BY <1>1, <1>2, <1>3, <2>1, <2>2, <2>3, <2>4 DEF PlaceOK, Whole
  <2>5. CASE j # i
    BY <1>1, <1>2, <1>3, <2>1, <2>3, <2>5 DEF PlaceOK, Whole
  <2> QED
    BY <2>4, <2>5
<1>11. CASE Fork(i)
  <2>1. PICK k \in Unborn(i) : /\ at' = [at EXCEPT ![i] = "release", ![k] = "young"]
                               /\ said' = [said EXCEPT ![k] = said[i]]
    BY <1>11 DEF Fork
  <2>2. k \in Kids(i) /\ at[k] = "unborn" /\ at[i] = "forking" /\ said[i] = 1
    BY <1>2, <1>11 DEF Fork, Unborn, PlaceOK
  <2>3. k \in Clients /\ k # i /\ k[1] = i[1] /\ k[2] # 1 /\ k[2] \in Procs
    BY <1>3, <2>2
  <2>4. /\ at'[i] = "release" /\ at'[k] = "young" /\ said'[k] = 1 /\ said'[i] = 1
        /\ \A l \in Clients \ {i, k} : at'[l] = at[l] /\ said'[l] = said[l]
        /\ name' = name /\ doomed' = doomed /\ orphans' = orphans
    BY <1>1, <1>11, <2>1, <2>2, <2>3 DEF Fork, SemUnchanged
  <2>5. PlaceOK(k) /\ (i[1] = test => name # 0) /\ at[k] # "gone"
    BY <1>2, <2>2, <2>3 DEF Base, PlaceInv, PlaceOK
  <2>6. CASE j = i
    BY <1>1, <1>2, <1>3, <2>2, <2>3, <2>4, <2>6 DEF PlaceOK, Whole
  <2>7. CASE j = k
    <3>1. \A l \in Kids(j) : at[l] = "unborn" /\ l # i /\ l # k
      BY <1>1, <1>3, <2>2, <2>5, <2>7 DEF PlaceOK
    <3> QED
      BY <1>1, <1>2, <1>3, <2>2, <2>3, <2>4, <2>5, <2>7, <3>1 DEF PlaceOK, Whole
  <2>8. CASE j # i /\ j # k
    <3>1. k \notin Kids(j)
      BY <1>3, <2>2, <2>8
    <3>2. at[j] \in Naming => k[1] # test
      BY <1>2, <2>2, <2>3, <2>8 DEF PlaceOK
    <3>3. \A l \in Kids(j) : (Gone(l) => (Gone(l))') /\ (at[l] = "unborn" => at'[l] = "unborn")
      BY <1>3, <2>2, <2>4, <3>1
    <3>4. at[j] \in Naming =>
            \A m \in Clients : m[1] = test /\ m # j => at'[m] = "unborn"
      BY <1>2, <2>2, <2>3, <2>4, <2>8, <3>2 DEF PlaceOK
    <3>5. at'[j] = at[j] /\ said'[j] = said[j]
      BY <2>4, <2>8
    <3> QED
      BY <1>1, <1>2, <1>3, <2>4, <3>3, <3>4, <3>5 DEF PlaceOK, Whole
  <2> QED
    BY <2>6, <2>7, <2>8
<1>12. CASE Leave(i)
  BY <1>1, <1>2, <1>3, <1>12 DEF Leave, Goto, PlaceOK, SemUnchanged, Whole
<1> QED
  BY <1>4, <1>5, <1>6, <1>7, <1>8, <1>9, <1>10, <1>11, <1>12 DEF Process

\* A process that is not killed keeps to the order of a conversation, and what the
\* server has heard of it does not change.
LEMMA ProcessKeepsSockets ==
  ASSUME Base, SemInv, NEW i \in Clients, Process(i), NEW j \in Clients, Whole(j)'
  PROVE  Whole(j) /\ SocketOK(j)' /\ Heard(j)' = Heard(j)
<1> USE DEF Talking, Resting, Early, Busy, Settled
<1>1. /\ test' = test /\ timedOut' = timedOut /\ server' = server
      /\ at \in [Clients -> Places] /\ said \in [Clients -> 0..2]
      /\ server.at # "closed" /\ backlog \in Seq(Clients)
      /\ sent \subseteq Clients /\ answered \subseteq Clients
      /\ (Served(j) <=> Served(j)')
  BY ProcessSteps DEF mainVars, serverVars, Base, CoreType, SemInv, SemTypeOK, Served
<1>2. Whole(j)
  BY <1>1, ProcessSteps DEF Whole
<1>3. SocketOK(j) /\ PlaceOK(j) /\ PlaceOK(i)
  BY <1>2 DEF Base, SocketInv, PlaceInv
<1>4. CASE j # i
  <2>1. \/ at'[j] = at[j] /\ said'[j] = said[j]
        \/ at[j] = "unborn" /\ at'[j] = "young"
    <3>1. at'[j] = at[j] \/ (at[j] = "unborn" /\ at'[j] = "young" /\ at[i] = "forking")
      <4>1. at'[j] # at[j] /\ j # i =>
              at[i] = "forking" /\ at[j] = "unborn" /\ at'[j] = "young"
        BY ProcessSteps
      <4> QED
        BY <1>4, <4>1
    <3>2. CASE Fork(i)
      BY <1>1, <1>4, <3>1, <3>2 DEF Fork, Unborn, Kids
    <3>3. CASE ~ Fork(i)
      <4>1. said'[j] = said[j]
        BY <1>1, <1>4, <3>3
           DEF Process, Unlink, Create, Call, Open, SemWait, Connect, Write, Read, Post,
               AtforkPrepare, AtforkParent, AtforkChild, WaitForKids, Leave
      <4> QED
        BY <3>1, <4>1
    <3> QED
      BY <3>2, <3>3
  <2>2. /\ (j \in sent <=> j \in sent') /\ (j \in answered <=> j \in answered')
        /\ (Queued(j)' <=> Queued(j))
        /\ (\A m, n \in DOMAIN backlog' : backlog'[m] = j /\ backlog'[n] = j => m = n)
    <3>1. CASE Connect(i)
      <4>1. backlog' = Append(backlog, i) /\ sent' = sent /\ answered' = answered
        BY <1>1, <3>1 DEF Connect
      <4>2. /\ DOMAIN backlog' = 1..Len(backlog) + 1 /\ Len(backlog) \in Nat
            /\ DOMAIN backlog = 1..Len(backlog)
            /\ backlog'[Len(backlog) + 1] = i
            /\ \A n \in 1..Len(backlog) : backlog'[n] = backlog[n]
        BY <1>1, <4>1, AppendProperties, LenProperties
      <4> QED
        BY <1>3, <1>4, <4>1, <4>2 DEF Queued, SocketOK
    <3>2. CASE Write(i) \/ Read(i)
      BY <1>3, <1>4, <3>2 DEF Write, Read, Queued, SocketOK
    <3>3. CASE ~ (Connect(i) \/ Write(i) \/ Read(i))
      BY <1>3, <3>3
         DEF Process, Unlink, Create, Call, Open, SemWait, Post, AtforkPrepare, Fork,
             AtforkParent, AtforkChild, WaitForKids, Leave, socketVars, Queued, SocketOK
    <3> QED
      BY <3>1, <3>2, <3>3
  <2>3. SocketOK(j)'
    BY <1>1, <1>3, <2>1, <2>2 DEF SocketOK
  <2>4. Heard(j)' = Heard(j)
    BY <1>1, <2>1, <2>2 DEF Heard, Pending
  <2> QED
    BY <1>2, <2>3, <2>4
<1>5. CASE j = i
  <2>1. CASE Connect(i)
    <3>1. /\ at[i] = "connect" /\ at' = [at EXCEPT ![i] = "write"] /\ said' = said
          /\ backlog' = Append(backlog, i) /\ sent' = sent /\ answered' = answered
      BY <1>1, <2>1 DEF Connect, Goto
    <3>2. /\ DOMAIN backlog' = 1..Len(backlog) + 1 /\ Len(backlog) \in Nat
          /\ DOMAIN backlog = 1..Len(backlog)
          /\ backlog'[Len(backlog) + 1] = i
          /\ \A n \in 1..Len(backlog) : backlog'[n] = backlog[n]
      BY <1>1, <3>1, AppendProperties, LenProperties
    <3>3. ~ Queued(i) /\ ~ Served(i) /\ i \notin sent /\ i \notin answered
      BY <1>3, <1>5, <3>1 DEF SocketOK
    <3>4. \A n \in 1..Len(backlog) : backlog[n] # i
      BY <3>2, <3>3 DEF Queued
    <3>5. /\ Queued(i)' => at'[i] \in {"write", "read"} /\ ~ Served(i)' /\ i \notin answered'
          /\ \A m, n \in DOMAIN backlog' : backlog'[m] = i /\ backlog'[n] = i => m = n
      <4>1. at'[i] = "write" /\ ~ Served(i)' /\ i \notin answered'
        BY <1>1, <1>5, <3>1, <3>3
      <4>2. \A m \in DOMAIN backlog' : backlog'[m] = i => m = Len(backlog) + 1
        BY <3>2, <3>4
      <4> QED
        BY <4>1, <4>2
    <3>6. SocketOK(i)'
      BY <1>1, <1>5, <3>1, <3>3, <3>5 DEF SocketOK
    <3>7. Heard(i)' = Heard(i)
      BY <1>1, <3>1 DEF Heard, Pending
    <3> QED
      BY <1>2, <1>5, <3>6, <3>7
  <2>2. CASE Write(i)
    BY <1>1, <1>2, <1>3, <1>5, <2>2 DEF Write, Goto, Queued, SocketOK, Heard, Pending, Served
  <2>3. CASE Read(i)
    BY <1>1, <1>2, <1>3, <1>5, <2>3
       DEF Read, HasAnswer, Goto, Queued, SocketOK, Heard, Pending, Served
  <2>4. ASSUME ~ (Connect(i) \/ Write(i) \/ Read(i))
        PROVE  /\ socketVars' = socketVars
               /\ at[i] \notin {"write", "read"} /\ at'[i] \notin {"write", "read"}
    <3>1. CASE Unlink(i) \/ Create(i) \/ Call(i) \/ Open(i) \/ Post(i)
      BY <1>1, <3>1 DEF Unlink, Create, Call, Open, Post, Goto, Following, socketVars
    <3>2. CASE SemWait(i, "wait", "connect") \/ SemWait(i, "hold", "forking")
      BY <1>1, <3>2 DEF SemWait, Goto, socketVars
    <3>3. CASE AtforkPrepare(i) \/ AtforkParent(i) \/ AtforkChild(i) \/ WaitForKids(i)
      BY <1>1, <3>3 DEF AtforkPrepare, Prepare, AtforkParent, AtforkChild, WaitForKids, Goto,
                        socketVars
    <3>4. CASE Fork(i)
      <4>1. \A k \in Unborn(i) : k \in Clients /\ at[k] = "unborn"
        BY DEF Unborn, Kids
      <4> QED
        BY <1>1, <3>4, <4>1 DEF Fork, socketVars
    <3>5. CASE Leave(i)
      <4>1. at[i] = "exit" \/ i \in doomed
        BY <3>5 DEF Leave
      <4>2. at' = [at EXCEPT ![i] = "gone"] /\ socketVars' = socketVars
        BY <3>5 DEF Leave, Goto, socketVars
      <4>3. at[i] = "exit"
        BY <1>1, <1>2, <1>3, <1>5, <4>1, <4>2 DEF PlaceOK, Whole
      <4> QED
        BY <1>1, <4>2, <4>3
    <3> QED
      BY <2>4, <3>1, <3>2, <3>3, <3>4, <3>5 DEF Process
  <2>5. CASE ~ (Connect(i) \/ Write(i) \/ Read(i))
    <3>1. SocketOK(i)'
      BY <1>1, <1>3, <1>5, <2>4, <2>5 DEF SocketOK, Queued, socketVars
    <3>2. Heard(i)' = Heard(i)
      <4>1. ~ Leave(i) => Heard(i)' = Heard(i)
        <5>1. CASE Unlink(i) \/ Create(i)
          BY <1>1, <5>1 DEF Unlink, Create, Goto, Heard, Pending
        <5>2. CASE Call(i)
          BY <1>1, <1>3, <5>2 DEF Call, Goto, Heard, Pending, PlaceOK
        <5>3. CASE Open(i)
          <6>1. i[1] \in Int /\ test \in Int /\ i[1] >= test
            BY <1>2, <1>5, ClientsAreNumbered DEF Whole, SemInv, SemTypeOK
          <6>2. i[1] = test
            BY <5>3, <6>1 DEF Open, SemInv, BornInTime
          <6>3. name # 0 /\ at[i] = "open"
            BY <1>3, <5>3, <6>2 DEF Open, PlaceOK
          <6>4. at' = [at EXCEPT ![i] = "wait"] /\ said' = said
            BY <5>3, <6>3 DEF Open, Goto
          <6> QED
            BY <1>1, <6>3, <6>4 DEF Heard, Pending
        <5>4. CASE SemWait(i, "wait", "connect") \/ SemWait(i, "hold", "forking") \/ Post(i)
          BY <1>1, <5>4 DEF SemWait, Post, Following, Goto, Heard, Pending
        <5>5. CASE AtforkPrepare(i) \/ AtforkParent(i) \/ AtforkChild(i) \/ WaitForKids(i)
          BY <1>1, <1>3, <5>5 DEF AtforkPrepare, Prepare, AtforkParent, AtforkChild, FreshKeys,
                            WaitForKids, Goto, Heard, Pending, PlaceOK
        <5>6. CASE Fork(i)
          <6>1. \A k \in Unborn(i) : k \in Clients /\ at[k] = "unborn"
            BY DEF Unborn, Kids
          <6> QED
            BY <1>1, <5>6, <6>1 DEF Fork, Heard, Pending
        <5> QED
          BY <2>5, <5>1, <5>2, <5>3, <5>4, <5>5, <5>6 DEF Process
      <4>2. Leave(i) => Heard(i)' = Heard(i)
        <5> SUFFICES ASSUME Leave(i) PROVE Heard(i)' = Heard(i)
          OBVIOUS
        <5>1. at[i] = "exit" \/ i \in doomed
          BY DEF Leave
        <5>2. at' = [at EXCEPT ![i] = "gone"] /\ said' = said
          BY DEF Leave, Goto
        <5>3. at[i] = "exit"
          BY <1>1, <1>2, <1>3, <1>5, <5>1, <5>2 DEF PlaceOK, Whole
        <5> QED
          BY <1>1, <5>2, <5>3 DEF Heard, Pending
      <4> QED
        BY <4>1, <4>2
    <3> QED
      BY <1>2, <1>5, <3>1, <3>2
  <2> QED
    BY <2>1, <2>2, <2>3, <2>5
<1> QED
  BY <1>4, <1>5
-----------------------------------------------------------------------------
(* The steps of the server *)

LEMMA FirstOfBacklog ==
  ASSUME backlog \in Seq(Clients), backlog # <<>>
  PROVE  /\ Len(backlog) \in Nat /\ DOMAIN backlog = 1..Len(backlog) /\ 1 \in DOMAIN backlog
         /\ Head(backlog) = backlog[1] /\ Head(backlog) \in Clients
         /\ Tail(backlog) \in Seq(Clients)
         /\ DOMAIN Tail(backlog) = 1..(Len(backlog) - 1)
         /\ \A n \in DOMAIN Tail(backlog) :
              n + 1 \in DOMAIN backlog /\ Tail(backlog)[n] = backlog[n + 1]
<1>1. /\ Len(backlog) \in Nat /\ DOMAIN backlog = 1..Len(backlog)
      /\ \A n \in 1..Len(backlog) : backlog[n] \in Clients
  BY LenProperties, ElementOfSeq
<1>2. 1 \in 1..Len(backlog)
  BY <1>1, EmptySeq
<1>3. /\ Head(backlog) \in Clients /\ Tail(backlog) \in Seq(Clients)
      /\ Len(Tail(backlog)) = Len(backlog) - 1
      /\ \A n \in 1..Len(Tail(backlog)) : Tail(backlog)[n] = backlog[n + 1]
  BY HeadTailProperties
<1>4. Head(backlog) = backlog[1]
  BY DEF Head
<1>5. DOMAIN Tail(backlog) = 1..Len(Tail(backlog))
  BY <1>3, LenProperties
<1> QED
  BY <1>1, <1>2, <1>3, <1>4, <1>5

LEMMA ServerKeepsType ==
  ASSUME Base, Server
  PROVE  CoreType' /\ MainOK'
<1> USE DEF Base, CoreType, MainOK, Busy
<1>1. UNCHANGED <<mainVars, runner, name, value, procVars>>
  BY DEF Server
<1>2. CASE Accept
  <2>1. /\ backlog # <<>> /\ backlog \in Seq(Clients) /\ backlog' = Tail(backlog)
        /\ server' = [server EXCEPT !.at = "receive", !.client = Head(backlog)]
        /\ UNCHANGED <<logVars, delays, who, shouldStop, sent, answered>>
    BY <1>2 DEF Accept
  <2>2. /\ backlog' \in Seq(Clients) /\ Head(backlog) \in Clients
        /\ at[Head(backlog)] # "unborn"
        /\ \A n \in DOMAIN backlog' : at[backlog'[n]] # "unborn"
    BY <2>1, FirstOfBacklog
  <2> HIDE DEF Busy
  <2>3. server'.client = Head(backlog) /\ server'.at = "receive"
    BY <2>1
  <2>4. server' \in [at : Busy \cup {"accept", "dead"}, client : Clients \cup {<<0, 0>>},
                     found : {"begin", "end", "error"}]
    BY <2>1, <2>2 DEF Busy
  <2>5. CoreType'
    BY <1>1, <2>1, <2>2, <2>4 DEF mainVars, logVars, LogTypeOK, procVars
  <2>6. MainOK'
    BY <1>1, <2>1, <2>2, <2>3 DEF mainVars, procVars
  <2> QED
    BY <2>5, <2>6
<1>3. CASE Receive \/ Look \/ Delay \/ Fetch \/ Answer
  <2>1. /\ server.at \in Busy
        /\ server'.client = server.client
        /\ server' \in [at : Busy \cup {"accept", "dead"}, client : Clients \cup {<<0, 0>>},
                        found : {"begin", "end", "error"}]
        /\ UNCHANGED <<logVars, who, shouldStop, backlog>>
        /\ sent' \subseteq Clients /\ answered' \subseteq Clients
    BY <1>3 DEF Receive, Look, Delay, Fetch, Answer, Perish, Serve, socketVars
  <2>2. CoreType'
    BY <1>1, <2>1 DEF mainVars, logVars, LogTypeOK, procVars
  <2> QED
    BY <1>1, <2>1, <2>2 DEF mainVars, procVars
<1>4. CASE Record
  <2> DEFINE i == server.client
             k == Key(i)
             pid(p) == IF p = 0 THEN <<0, 0>> ELSE <<i[1], p>>
  <2>1. /\ server.at = "record" /\ i \in Clients /\ at[i] # "unborn"
        /\ k \in Keys /\ i \in Pairs /\ <<0, 0>> \in Pairs /\ i[1] \in Nat /\ i[2] \in Procs
    <3>1. server.at = "record" /\ i \in Clients /\ at[i] # "unborn"
      BY <1>4 DEF Record
    <3>2. i[2] \in Procs
      BY <3>1 DEF PlaceInv, PlaceOK
    <3> QED
      BY <3>1, <3>2, ClientsAre
  <2>2. pid(data.procs[i[2]]) \in Pairs
    <3>0. setup \in Setups
      OBVIOUS
    <3>1. data.procs[i[2]] \in Nat
      <4> HIDE DEF Base, CoreType, MainOK, Busy, i, k, pid
      <4>1. /\ data.procs[1] = 0 /\ \A p \in Procs \ {1} : data.procs[p] \in Procs
            /\ Procs \subseteq Nat
        BY <3>0, ProcsAre
      <4>2. i[2] \in Procs
        BY <2>1
      <4>3. CASE i[2] = 1
        BY <4>1, <4>3
      <4>4. CASE i[2] # 1
        BY <4>1, <4>2, <4>4
      <4> QED
        BY <4>3, <4>4
    <3> QED
      BY <2>1, <3>1 DEF Pairs
  <2>3. /\ UNCHANGED <<delays, shouldStop, backlog, sent>>
        /\ server'.client = i
        /\ server' \in [at : Busy \cup {"accept", "dead"}, client : Clients \cup {<<0, 0>>},
                        found : {"begin", "end", "error"}]
        /\ answered' \subseteq Clients
    BY <1>4, <2>1 DEF Record, Serve, Perish
  <2>4. LogTypeOK' /\ who' \in [Keys -> [pid : Pairs, ppid : Pairs, ender : Pairs]]
    <3>1. CASE server.found = "begin"
      <4>1. RecordBegin(k) /\ who' = [who EXCEPT ![k] =
                     [pid |-> i, ender |-> <<0, 0>>,
                      ppid |-> IF i \in orphans THEN <<0, 0>> ELSE pid(data.procs[i[2]])]]
        BY <1>4, <3>1 DEF Record
      <4> HIDE DEF i, k, pid
      <4> QED
        BY <2>1, <2>2, <4>1 DEF RecordBegin, NextTime, LogTypeOK
    <3>2. CASE server.found = "end" /\ k \in infos
      <4>1. RecordEnd(k) /\ who' = [who EXCEPT ![k].ender = i]
        BY <1>4, <3>2 DEF Record
      <4> HIDE DEF i, k, pid
      <4> QED
        <5>1. LogTypeOK'
          BY <2>1, <4>1 DEF RecordEnd, NextTime, LogTypeOK
        <5>2. who' \in [Keys -> [pid : Pairs, ppid : Pairs, ender : Pairs]]
          BY <2>1, <4>1
        <5> QED
          BY <5>1, <5>2
    <3>3. CASE server.found = "error" \/ (server.found = "end" /\ k \notin infos)
      BY <1>4, <3>3, MessageLogAssumption DEF Record, Refuse, logVars, LogTypeOK
    <3>4. server.found \in {"begin", "end", "error"}
      OBVIOUS
    <3> QED
      BY <3>1, <3>2, <3>3, <3>4
  <2> HIDE DEF i, k, pid
  <2>5. CoreType'
    BY <1>1, <2>3, <2>4 DEF mainVars, procVars
  <2>6. MainOK'
    BY <1>1, <2>1, <2>3 DEF mainVars, procVars
  <2> QED
    BY <2>5, <2>6
<1> QED
  BY <1>2, <1>3, <1>4 DEF Server

LEMMA ServerKeepsPlaces ==
  ASSUME Base, Server
  PROVE  PlaceInv'
<1>1. UNCHANGED <<mainVars, runner, name, value, procVars>>
  BY DEF Server
<1>2. /\ setup' = setup /\ test' = test /\ timedOut' = timedOut /\ at' = at /\ said' = said
      /\ orphans' = orphans /\ doomed' = doomed /\ name' = name
  BY <1>1 DEF mainVars, procVars
<1> QED
  BY <1>2, KidsStay DEF Base, PlaceInv, PlaceOK, Whole

\* Record() is where a message comes to be heard.
Recording(j) == Record /\ server.client = j

LEMMA ServerKeepsSockets ==
  ASSUME Base, Server, NEW j \in Clients, Whole(j)
  PROVE  /\ Whole(j)' /\ SocketOK(j)'
         /\ Recording(j) => Heard(j) = said[j] - 1 /\ Heard(j)' = said[j]
         /\ ~ Recording(j) => Heard(j)' = Heard(j)
<1> USE DEF Busy, Settled
<1>1. /\ test' = test /\ timedOut' = timedOut /\ at' = at /\ said' = said
      /\ backlog \in Seq(Clients) /\ shouldStop = FALSE /\ sent \subseteq Clients
      /\ answered \subseteq Clients /\ server.at \in Busy \cup {"accept", "dead"}
      /\ server \in [at : Busy \cup {"accept", "dead"}, client : Clients \cup {<<0, 0>>},
                     found : {"begin", "end", "error"}]
  BY DEF Server, mainVars, procVars, Base, CoreType, MainOK
<1>2. SocketOK(j) /\ Whole(j)'
  BY <1>1 DEF Base, SocketInv, Whole
<1>3. CASE Accept
  <2>1. /\ backlog # <<>> /\ server.at = "accept" /\ backlog' = Tail(backlog)
        /\ server'.at = "receive" /\ server'.client = Head(backlog)
        /\ sent' = sent /\ answered' = answered
    BY <1>1, <1>3 DEF Accept
  <2>2. /\ Len(backlog) \in Nat /\ DOMAIN backlog = 1..Len(backlog) /\ 1 \in DOMAIN backlog
        /\ Head(backlog) = backlog[1]
        /\ DOMAIN backlog' = 1..(Len(backlog) - 1)
        /\ \A n \in DOMAIN backlog' :
             n + 1 \in DOMAIN backlog /\ backlog'[n] = backlog[n + 1]
    BY <1>1, <2>1, FirstOfBacklog
  <2>3. /\ Queued(j)' => Queued(j)
        /\ \A m, n \in DOMAIN backlog' : backlog'[m] = j /\ backlog'[n] = j => m = n
    <3>1. Queued(j)' => Queued(j)
      BY <2>2 DEF Queued
    <3>2. \A m, n \in DOMAIN backlog : backlog[m] = j /\ backlog[n] = j => m = n
      BY <1>2 DEF SocketOK
    <3>3. ASSUME NEW m \in DOMAIN backlog', NEW n \in DOMAIN backlog',
                 backlog'[m] = j, backlog'[n] = j
          PROVE  m = n
      <4>1. m + 1 = n + 1
        BY <2>2, <3>2, <3>3
      <4> QED
        BY <2>2, <4>1
    <3> QED
      BY <3>1, <3>3
  <2>4. Head(backlog) = j => Queued(j) /\ ~ Queued(j)'
    <3>1. ASSUME Head(backlog) = j PROVE Queued(j)
      BY <2>2, <3>1 DEF Queued
    <3>2. ASSUME Head(backlog) = j, NEW n \in DOMAIN backlog', backlog'[n] = j PROVE FALSE
      <4>1. n + 1 = 1
        BY <1>2, <2>2, <3>2 DEF SocketOK
      <4> QED
        BY <2>2, <4>1
    <3> QED
      BY <3>1, <3>2 DEF Queued
  <2>5. Served(j)' <=> Head(backlog) = j
    BY <2>1 DEF Served
  <2>6. SocketOK(j)'
    BY <1>1, <1>2, <2>1, <2>3, <2>4, <2>5 DEF SocketOK
  <2>7. Heard(j)' = Heard(j) /\ ~ Recording(j)
    BY <1>1, <2>1 DEF Heard, Pending, Served, Recording, Record
  <2> QED
    BY <1>2, <2>6, <2>7
<1>4. CASE ~ Accept
  <2> USE DEF Receive, Look, Record, Delay, Fetch, Answer, Perish, Serve
  <2>1. /\ server.at \in Busy /\ server'.client = server.client /\ backlog' = backlog
        /\ sent' \subseteq sent /\ (server.at # "receive" => sent' = sent)
        /\ server'.at # "receive"
    BY <1>1, <1>4 DEF Server, socketVars
  <2>2. server.client # j =>
          /\ ~ Served(j) /\ ~ Served(j)'
          /\ (j \in sent' <=> j \in sent) /\ (j \in answered' <=> j \in answered)
    BY <1>1, <1>4, <2>1 DEF Server, socketVars, Served
  <2>3. CASE server.client # j
    BY <1>1, <1>2, <2>1, <2>2, <2>3 DEF SocketOK, Queued, Heard, Pending, Recording
  <2>4. CASE server.client = j
    <3>1. /\ Served(j) /\ ~ Queued(j) /\ j \notin answered /\ at[j] \in {"write", "read"}
          /\ server.at # "receive" => at[j] = "read" /\ j \notin sent
          /\ ~ Queued(j)'
      BY <1>2, <2>1, <2>4 DEF SocketOK, Served, Queued
    <3>2. CASE Receive
      BY <1>1, <1>2, <2>1, <2>4, <3>1, <3>2 DEF SocketOK, Served, Heard, Pending, Recording
    <3>3. CASE Look
      BY <1>1, <1>2, <2>1, <2>4, <3>1, <3>3
         DEF SocketOK, Served, Heard, Pending, Recording, socketVars
    <3>4. CASE Delay
      BY <1>1, <1>2, <2>1, <2>4, <3>1, <3>4
         DEF SocketOK, Served, Heard, Pending, Recording, socketVars
    <3>5. CASE Fetch
      BY <1>1, <1>2, <2>1, <2>4, <3>1, <3>5
         DEF SocketOK, Served, Heard, Pending, Recording, socketVars
    <3>6. CASE Answer
      BY <1>1, <1>2, <2>1, <2>4, <3>1, <3>6
         DEF SocketOK, Served, Heard, Pending, Recording, socketVars
    <3>7. CASE Record
      <4>1. /\ server.at = "record" /\ sent' = sent
            /\ \/ server'.at \in {"delay", "answer"} /\ answered' = answered
               \/ server'.at = "dead" /\ answered' = answered \cup {j}
        BY <1>1, <2>1, <2>4, <3>7
      <4> QED
        BY <1>1, <1>2, <2>1, <2>4, <3>1, <3>7, <4>1
           DEF SocketOK, Served, Heard, Pending, Recording
    <3> QED
      BY <1>4, <3>2, <3>3, <3>4, <3>5, <3>6, <3>7 DEF Server
  <2> QED
    BY <2>3, <2>4
<1> QED
  BY <1>3, <1>4
-----------------------------------------------------------------------------
(* The steps of the tester *)

\* A test has a number, and nobody of it or of a later one is born before Popen().
LEMMA NotYetBorn ==
  ASSUME Base, SemInv
  PROVE  /\ test \in Nat /\ (tester # "main" => test \in 1..Tests /\ <<test, 1>> \in Clients)
         /\ \A i \in Clients : i[1] > test => at[i] = "unborn"
         /\ runner \in Reset => \A i \in Clients : i[1] >= test => at[i] = "unborn"
<1>1. test \in 0..Tests /\ Tests \in Nat /\ (tester # "main" => test # 0)
  BY ClientsAre DEF Base, CoreType, MainOK
<1>2. tester # "main" => test \in 1..Tests
  BY <1>1
<1>3. tester # "main" => <<test, 1>> \in Clients
  BY <1>2, ProcsAre DEF Base, CoreType
<1>4. \A i \in Clients : i[1] > test => at[i] = "unborn"
  BY DEF SemInv, BornInTime
<1>5. runner \in Reset => \A i \in Clients : i[1] = test => at[i] = "unborn"
  BY DEF SemInv, BornInTime
<1>6. \A i \in Clients : i[1] >= test => i[1] > test \/ i[1] = test
  BY <1>1, ClientsAreNumbered
<1> QED
  BY <1>1, <1>2, <1>3, <1>4, <1>5, <1>6

LEMMA RunnerKeepsBase ==
  ASSUME Base, SemInv, Runner
  PROVE  /\ Base'
         /\ \A j \in Clients : (Whole(j)' <=> Whole(j)) /\ Heard(j)' = Heard(j)
         /\ tester # "main" /\ runner # "done"
<1>1. /\ UNCHANGED <<mainVars, server, who, shouldStop, socketVars, name, value>>
      /\ runner \in Reset \cup {"wait"} /\ runner' \in Reset \cup {"wait", "done"}
      /\ runner # "done" /\ (runner' \in Reset => runner \in Reset)
      /\ UNCHANGED <<said, sem, orphans, armed, doomed>>
      /\ runner' = "done" => Gone(<<test, 1>>) /\ at' = at
  BY DEF Runner, ResetTime, ResetInfos, ResetErrors, ResetDelays, SetDelays, Popen,
         WaitForP1, RunnerGoes, procVars, Reset
<1>2. /\ setup' = setup /\ test' = test /\ tester' = tester /\ timedOut' = timedOut
      /\ setup \in Setups /\ at \in [Clients -> Places]
  BY <1>1 DEF mainVars, Base, CoreType, SemInv, SemTypeOK
<1>3. LogTypeOK'
  BY MessageLogAssumption DEF Runner, ResetTime, ResetInfos, ResetErrors, ResetDelays, SetDelays, Popen,
         WaitForP1, LogTypeOK, logVars, Base, CoreType
<1>4. CoreType'
  BY <1>1, <1>2, <1>3 DEF Base, CoreType, mainVars, socketVars
<1>5. tester \notin {"main", "judge", "judged"}
  BY <1>1 DEF Base, MainOK
<1>6. CASE ~ Popen
  <2>1. at' = at
    BY <1>6 DEF Runner, ResetTime, ResetInfos, ResetErrors, ResetDelays, SetDelays,
         WaitForP1, procVars
  <2>2. MainOK'
    BY <1>1, <1>2, <1>5, <2>1 DEF Base, MainOK, socketVars
  <2>3. PlaceInv'
    BY <1>1, <1>2, <2>1, KidsStay DEF Base, PlaceInv, PlaceOK, Whole
  <2>4. SocketInv'
    BY <1>1, <1>2, <2>1 DEF Base, SocketInv, SocketOK, Whole, Served, Queued, socketVars
  <2>5. \A j \in Clients : (Whole(j)' <=> Whole(j)) /\ Heard(j)' = Heard(j)
    BY <1>1, <1>2, <2>1 DEF Whole, Heard, Pending, Served, socketVars
  <2> QED
    BY <1>1, <1>4, <1>5, <2>2, <2>3, <2>4, <2>5 DEF Base
<1>7. CASE Popen
  <2> DEFINE p == <<test, 1>>
  <2>1. runner = "start" /\ runner' = "wait" /\ at' = [at EXCEPT ![p] = "unlink"]
    BY <1>7 DEF Popen, RunnerGoes, Goto
  <2>2. p \in Clients /\ (\A j \in Clients : j[1] = test => at[j] = "unborn") /\ test \in Nat
    BY <1>5, <2>1, NotYetBorn DEF Reset
  <2>3. p[1] = test /\ p[2] = 1 /\ 1 \in Procs
    BY <1>2, ProcsAre
  <2> HIDE DEF p
  <2>4. /\ at'[p] = "unlink" /\ at[p] = "unborn"
        /\ \A j \in Clients \ {p} : at'[j] = at[j]
    BY <1>2, <2>1, <2>2, <2>3
  <2>5. MainOK'
    <3>1. \A j \in Clients : at[j] # "unborn" => at'[j] # "unborn"
      BY <2>4
    <3>2. \A n \in DOMAIN backlog : backlog[n] \in Clients
      BY ElementOfSeq, LenProperties DEF Base, CoreType
    <3> QED
      BY <1>1, <1>2, <1>5, <2>1, <3>1, <3>2 DEF Base, MainOK, socketVars, Reset
  <2>6. ASSUME NEW j \in Clients PROVE PlaceOK(j)'
    <3>1. PlaceOK(j) /\ Kids(j)' = Kids(j) /\ Procs' = Procs
      BY <1>2, KidsStay DEF Base, PlaceInv
    <3>2. \A k \in Kids(j) : k \in Clients /\ k # p /\ at'[k] = at[k] /\ k[1] = j[1]
      BY <1>2, <2>3, <2>4, KidsAre
    <3>3. CASE j = p
      <4>1. \A k \in Clients : k[1] = test /\ k # p => at'[k] = "unborn"
        BY <2>2, <2>4
      <4>2. said[p] = 0 /\ p \notin doomed \cup orphans
        BY <2>4, <3>1, <3>3 DEF PlaceOK
      <4>3. \A k \in Kids(p) : at'[k] = "unborn"
        BY <2>2, <2>3, <3>2, <3>3
      <4>4. /\ at'[p] = "unlink" /\ said'[p] = 0 /\ test' = test /\ timedOut' = timedOut
            /\ p = <<test, 1>> /\ ~ (test < test)
            /\ p \notin doomed' \cup orphans' /\ name' = name
        BY <1>1, <1>2, <2>2, <2>4, <4>2 DEF p
      <4> QED
        BY <2>3, <3>1, <3>3, <4>1, <4>3, <4>4 DEF PlaceOK, Whole, Early, Talking, Resting
    <3>4. CASE j # p
      <4>1. at'[j] = at[j]
        BY <2>4, <3>4
      <4>2. at[j] \notin Naming
        BY <2>2, <2>3, <2>4, <3>1, <3>4 DEF PlaceOK
      <4> QED
        BY <1>1, <1>2, <3>1, <3>2, <4>1, <4>2 DEF PlaceOK, Whole
    <3> QED
      BY <3>3, <3>4
  <2>7. PlaceInv'
    BY <2>6 DEF PlaceInv
  <2>8. \A j \in Clients : (Whole(j)' <=> Whole(j)) /\ Heard(j)' = Heard(j)
    <3> TAKE j \in Clients
    <3>1. at'[j] = at[j] \/ (at'[j] = "unlink" /\ at[j] = "unborn")
      BY <2>4
    <3>2. at[j] = "unborn" => said[j] = 0
      BY DEF Base, PlaceInv, PlaceOK
    <3> QED
      BY <1>1, <1>2, <3>1, <3>2 DEF Whole, Heard, Pending, Served, socketVars
  <2>9. SocketInv'
    <3> SUFFICES ASSUME NEW j \in Clients, Whole(j)' PROVE SocketOK(j)'
      BY DEF SocketInv
    <3>1. SocketOK(j)
      BY <2>8 DEF Base, SocketInv
    <3>2. at'[j] = at[j] \/ (at'[j] = "unlink" /\ at[j] = "unborn")
      BY <2>4
    <3> QED
      BY <1>1, <3>1, <3>2 DEF SocketOK, Served, Queued, socketVars
  <2> QED
    BY <1>1, <1>4, <1>5, <2>5, <2>7, <2>8, <2>9 DEF Base
<1> QED
  BY <1>6, <1>7

LEMMA MainKeepsBase ==
  ASSUME Base, SemInv, Main, ~ Stop
  PROVE  /\ Base'
         /\ \A j \in Clients : (Whole(j)' => Whole(j)) /\ Heard(j)' = Heard(j)
<1> USE DEF Base, CoreType, MainOK
<1>1. /\ UNCHANGED <<name, value, at, said, sem, orphans, armed, serverVars, sent, answered>>
      /\ backlog' = backlog /\ setup' = setup
  BY DEF Main, Start, Join, Expire, Kill, Rejoin, Judge, StopConnect, Perform
<1>2. \A j \in Clients : Heard(j)' = Heard(j)
  BY <1>1 DEF Heard, Pending, Served, serverVars
<1>3. CASE Start
  <2>1. /\ test' = test + 1 /\ runner' = "time" /\ timedOut' = FALSE /\ tester' = "join"
        /\ test < Tests /\ tester \in {"main", "judged"} /\ doomed' = doomed
    BY <1>3 DEF Start, Perform
  <2>2. /\ test \in Nat /\ Tests \in Nat /\ runner = "done"
        /\ \A j \in Clients : j[1] > test => at[j] = "unborn"
        /\ \A j \in Clients : j[1] \in 1..Tests /\ j = <<j[1], j[2]>>
        /\ test > 0 => Gone(<<test, 1>>)
    BY <2>1, NotYetBorn, ClientsAre
  <2>3. CoreType'
    <3>1. test' \in 0..Tests /\ LogTypeOK'
      BY <1>1, <2>1, <2>2 DEF serverVars, logVars, LogTypeOK
    <3> QED
      BY <1>1, <2>1, <3>1 DEF serverVars, Reset
  <2>4. MainOK'
    BY <1>1, <2>1, <2>2 DEF serverVars
  <2>5. \A j \in Clients : Whole(j)' => Whole(j) /\ at[j] = "unborn"
    BY <1>1, <2>1, <2>2 DEF Whole
  <2>6. ASSUME NEW j \in Clients PROVE PlaceOK(j)'
    <3>1. PlaceOK(j) /\ Kids(j)' = Kids(j) /\ Procs' = Procs
      BY <1>1, KidsStay DEF PlaceInv
    <3>2. j[1] < test' /\ j[2] = 1 => Gone(j)
      <4> SUFFICES ASSUME j[1] < test', j[2] = 1 PROVE Gone(j)
        OBVIOUS
      <4>1. j[1] < test \/ j[1] = test
        BY <2>1, <2>2
      <4>2. CASE j[1] = test
        <5>1. j = <<test, 1>> /\ test > 0
          BY <2>2, <4>2
        <5> QED
          BY <2>2, <5>1
      <4> QED
        BY <3>1, <4>1, <4>2 DEF PlaceOK
    <3>3. at[j] \notin Naming
      <4>1. at[j] \in Naming => j = <<test, 1>> /\ j[1] = test /\ j[1] > 0
        BY <2>2, <3>1 DEF PlaceOK
      <4> QED
        BY <2>2, <4>1
    <3>4. j[1] >= test' => at[j] = "unborn"
      BY <2>1, <2>2
    <3>5. at[j] = "unborn" => j \notin doomed \cup orphans
      BY <3>1 DEF PlaceOK
    <3>6. j[1] = test' => j[1] >= test'
      BY <2>1, <2>2
    <3> QED
      BY <1>1, <2>1, <2>5, <3>1, <3>2, <3>3, <3>4, <3>5, <3>6 DEF PlaceOK
  <2>7. SocketInv'
    BY <1>1, <2>5 DEF SocketInv, SocketOK, Served, Queued, serverVars
  <2> QED
    BY <1>2, <2>3, <2>4, <2>5, <2>6, <2>7 DEF PlaceInv
<1>4. CASE Kill
  <2>1. /\ test' = test /\ runner' = runner /\ tester' = "rejoin" /\ tester = "late"
        /\ \/ timedOut' = timedOut /\ doomed' = doomed
           \/ /\ timedOut' = TRUE /\ runner = "wait"
              /\ doomed' = doomed \cup {i \in {<<test, 1>>} : Alive(i)}
    BY <1>4 DEF Kill, Perform
  <2>2. doomed' \subseteq Clients /\ \A j \in doomed' \ doomed : Alive(j)
    BY <2>1, NotYetBorn
  <2>3. CoreType' /\ MainOK'
    <3>1. LogTypeOK'
      BY <1>1 DEF serverVars, logVars, LogTypeOK
    <3>2. CoreType'
      BY <1>1, <2>1, <2>2, <3>1 DEF serverVars
    <3>3. MainOK'
      BY <1>1, <2>1 DEF serverVars, Reset
    <3> QED
      BY <3>2, <3>3
  <2>4. \A j \in Clients : Whole(j)' => Whole(j)
    BY <1>1, <2>1 DEF Whole
  <2>5. ASSUME NEW j \in Clients PROVE PlaceOK(j)'
    <3>1. PlaceOK(j) /\ Kids(j)' = Kids(j) /\ Procs' = Procs
      BY <1>1, KidsStay DEF PlaceInv
    <3> QED
      BY <1>1, <2>1, <2>2, <2>4, <3>1 DEF PlaceOK
  <2>6. SocketInv'
    BY <1>1, <2>4 DEF SocketInv, SocketOK, Served, Queued, serverVars
  <2> QED
    BY <1>2, <2>3, <2>4, <2>5, <2>6 DEF PlaceInv
<1>5. CASE Join \/ Expire \/ Rejoin \/ Judge
  <2>1. /\ UNCHANGED <<test, runner, timedOut, doomed>>
        /\ \/ tester \in {"join", "rejoin"} /\ tester' = "judge" /\ runner = "done"
           \/ tester = "join" /\ tester' = "late"
           \/ tester = "judge" /\ tester' = "judged"
    BY <1>5 DEF Join, Expire, Rejoin, Judge, Perform
  <2>2. CoreType' /\ MainOK'
    BY <1>1, <2>1 DEF serverVars, logVars, LogTypeOK
  <2>3. PlaceInv'
    BY <1>1, <2>1, KidsStay DEF PlaceInv, PlaceOK, Whole
  <2>4. SocketInv' /\ \A j \in Clients : Whole(j)' => Whole(j)
    BY <1>1, <2>1 DEF SocketInv, SocketOK, Whole, Served, Queued, serverVars
  <2> QED
    BY <1>2, <2>2, <2>3, <2>4
<1>6. ~ StopConnect
  BY DEF StopConnect, Perform
<1> QED
  BY <1>3, <1>4, <1>5, <1>6 DEF Main
-----------------------------------------------------------------------------
(* The log: what has been heard of a process is its own, or there is an error *)

FoundInv ==
  \A i \in Clients : Whole(i) /\ Served(i) /\ server.at = "record" =>
    /\ said[i] = 1 => server.found \in {"begin", "error"}
    /\ said[i] = 2 => server.found \in {"end", "error"}
    /\ server.found = "end" => Key(i) \in infos

LogInv ==
  \A i \in Clients : Whole(i) =>
    /\ Heard(i) >= 1 => errors # 0 \/ (Key(i) \in infos /\ who[Key(i)].pid = i)
    /\ Heard(i) = 2 => errors # 0 \/ (timeEnd[Key(i)] # 0 /\ who[Key(i)].ender = i)

PraiseInv ==
  tester = "judged" /\ verdict = Full =>
    \A p \in Procs :
      /\ <<p, 0>> \in infos /\ timeEnd[<<p, 0>>] # 0
      /\ who[<<p, 0>>].pid = <<test, p>> /\ who[<<p, 0>>].ender = <<test, p>>

Credit == FoundInv /\ LogInv /\ PraiseInv

\* The server talks to processes of this test only when its log has been reset.
LEMMA ServedAre ==
  ASSUME Base, SemInv, NEW i \in Clients, Whole(i), Served(i)
  PROVE  /\ i[1] = test /\ runner \notin Reset /\ said[i] \in {1, 2}
         /\ at[i] \in {"write", "read"}
         /\ server.at # "receive" => at[i] = "read" /\ i \notin answered
         /\ server.at \in {"look", "record"} => Pending(i) /\ Heard(i) = said[i] - 1
<1>1. SocketOK(i) /\ PlaceOK(i)
  BY DEF Base, SocketInv, PlaceInv
<1>2. /\ at[i] \in {"write", "read"} /\ said[i] \in {1, 2}
      /\ server.at # "receive" => at[i] = "read" /\ i \notin answered
  BY <1>1 DEF SocketOK, PlaceOK, Talking
<1>3. i[1] >= test /\ i[1] \in Int /\ test \in Nat /\ ~ (i[1] > test) /\ runner \notin Reset
  BY <1>2, NotYetBorn, ClientsAreNumbered DEF Whole
<1>4. server.at \in {"look", "record"} => Pending(i)
  BY <1>2 DEF Pending, Settled
<1> QED
  BY <1>2, <1>3, <1>4 DEF Heard

LEMMA ProcessKeepsCredit ==
  ASSUME Base, Base', SemInv, SemInv', Credit, NEW i \in Clients, Process(i)
  PROVE  Credit'
<1>1. UNCHANGED <<mainVars, runner, serverVars>>
  BY ProcessSteps
<1>2. /\ setup' = setup /\ test' = test /\ timedOut' = timedOut /\ server' = server /\ who' = who
      /\ infos' = infos /\ timeEnd' = timeEnd /\ errors' = errors /\ tester' = tester
      /\ verdict' = verdict /\ Procs' = Procs
  BY <1>1, KidsStay DEF mainVars, serverVars, logVars
<1>3. ASSUME NEW j \in Clients, Whole(j)' PROVE Whole(j) /\ Heard(j)' = Heard(j)
  BY <1>3, ProcessKeepsSockets
<1>4. FoundInv'
  <2> SUFFICES ASSUME NEW j \in Clients, Whole(j)', Served(j)', server'.at = "record"
               PROVE  /\ said'[j] = 1 => server'.found \in {"begin", "error"}
                      /\ said'[j] = 2 => server'.found \in {"end", "error"}
                      /\ server'.found = "end" => Key(j) \in infos'
    BY DEF FoundInv, Key
  <2>1. Whole(j) /\ Served(j) /\ server.at = "record" /\ Heard(j)' = Heard(j)
    BY <1>2, <1>3 DEF Served
  <2>2. Heard(j) = said[j] - 1 /\ said[j] \in {1, 2}
    BY <2>1, ServedAre
  <2>3. Heard(j)' = said'[j] - 1 /\ said'[j] \in {1, 2}
    <3>1. SocketOK(j)' /\ PlaceOK(j)' /\ Served(j)'
      BY DEF Base, SocketInv, PlaceInv
    <3>2. at'[j] = "read" /\ j \notin answered'
      BY <3>1 DEF SocketOK
    <3>3. said'[j] \in {1, 2}
      BY <3>1, <3>2 DEF PlaceOK, Talking
    <3> QED
      BY <3>2, <3>3 DEF Heard, Pending, Settled
  <2>4. said'[j] = said[j]
    BY <2>1, <2>2, <2>3
  <2> QED
    BY <1>2, <2>1, <2>4 DEF Credit, FoundInv
<1>5. LogInv'
  BY <1>2, <1>3 DEF Credit, LogInv, Key
<1>6. PraiseInv'
  BY <1>2 DEF Credit, PraiseInv
<1> QED
  BY <1>4, <1>5, <1>6 DEF Credit

LEMMA ServerKeepsCredit ==
  ASSUME Base, SemInv, Credit, Server
  PROVE  Credit'
<1>1. /\ setup' = setup /\ test' = test /\ timedOut' = timedOut /\ tester' = tester
      /\ verdict' = verdict /\ Procs' = Procs /\ at' = at /\ said' = said /\ LogTypeOK
      /\ who \in [Keys -> [pid : Pairs, ppid : Pairs, ender : Pairs]]
      /\ server \in [at : Busy \cup {"accept", "dead"}, client : Clients \cup {<<0, 0>>},
                     found : {"begin", "end", "error"}]
  BY KidsStay DEF Server, mainVars, procVars, Base, CoreType
<1>2. \A j \in Clients : /\ Whole(j)' <=> Whole(j)
                         /\ j \in Clients /\ Key(j) \in Keys
                         /\ Whole(j) /\ Recording(j) => Heard(j) = said[j] - 1 /\ Heard(j)' = said[j]
                         /\ Whole(j) /\ ~ Recording(j) => Heard(j)' = Heard(j)
  BY <1>1, ServerKeepsSockets, ClientsAre DEF Whole
<1>3. CASE ~ Record
  <2>1. UNCHANGED <<logVars, who>>
    BY <1>3 DEF Server, Accept, Receive, Look, Delay, Fetch, Answer
  <2>2. LogInv' /\ PraiseInv'
    BY <1>1, <1>2, <1>3, <2>1 DEF Credit, LogInv, PraiseInv, Recording, logVars, Key
  <2>3. FoundInv'
    <3> SUFFICES ASSUME NEW j \in Clients, Whole(j), Served(j)', server'.at = "record"
                 PROVE  /\ said[j] = 1 => server'.found \in {"begin", "error"}
                        /\ said[j] = 2 => server'.found \in {"end", "error"}
                        /\ server'.found = "end" => Key(j) \in infos
      BY <1>1, <1>2, <2>1 DEF FoundInv, logVars, Key
    <3>1. Look
      BY <1>1, <1>3 DEF Server, Accept, Receive, Delay, Fetch, Answer, Serve, Perish, Busy
    <3>2. server.client = j /\ server.at = "look" /\ Served(j)
      BY <1>1, <3>1 DEF Look, Served, Busy
    <3>3. said[j] \in {1, 2}
      BY <3>2, ServedAre
    <3>4. server'.found = IF said[j] = 1
               THEN IF AcceptsBegin(Key(j)) THEN "begin" ELSE "error"
               ELSE IF AcceptsEnd(Key(j)) THEN "end" ELSE "error"
      BY <1>1, <3>1, <3>2 DEF Look
    <3> QED
      BY <3>3, <3>4 DEF AcceptsEnd
  <2> QED
    BY <2>2, <2>3 DEF Credit
<1>4. CASE Record
  <2>0. PICK i \in Clients : i = server.client
    BY <1>4 DEF Record, Base, MainOK, Busy
  <2> DEFINE k == Key(i)
  <2>1. server.at = "record" /\ i \in Clients /\ k \in Keys /\ server'.at # "record"
    BY <1>1, <1>2, <1>4, <2>0 DEF Record, Serve, Perish
  <2>2. FoundInv'
    BY <2>1 DEF FoundInv
  <2>3. Served(i) /\ Recording(i)
    BY <1>4, <2>0, <2>1 DEF Served, Busy, Recording
  <2>4. CASE server.found = "begin"
    <3>1. /\ k \notin infos /\ infos' = infos \cup {k} /\ errors' = errors
          /\ timeEnd' = [timeEnd EXCEPT ![k] = 0]
      BY <1>4, <2>0, <2>4 DEF Record, RecordBegin, AcceptsBegin
    <3>2. who'[k].pid = i /\ \A l \in Keys \ {k} : who'[l] = who[l]
      BY <1>1, <1>4, <2>0, <2>1, <2>4 DEF Record
    <3>3. \A l \in Keys \ {k} : timeEnd'[l] = timeEnd[l]
      BY <1>1, <2>1, <3>1 DEF LogTypeOK
    <3> HIDE DEF k
    <3>4. ASSUME NEW j \in Clients, Whole(j), j # i PROVE Heard(j)' = Heard(j)
      BY <1>2, <2>0, <3>4 DEF Recording
    <3>5. Whole(i) => Heard(i)' = 1
      <4> SUFFICES ASSUME Whole(i) PROVE Heard(i)' = 1
        OBVIOUS
      <4>1. said[i] \in {1, 2}
        BY <2>1, <2>3, ServedAre
      <4>2. said[i] # 2
        BY <2>1, <2>3, <2>4 DEF Credit, FoundInv
      <4> QED
        BY <1>2, <2>1, <2>3, <4>1, <4>2
    <3>6. LogInv'
      <4> SUFFICES ASSUME NEW j \in Clients, Whole(j)
                   PROVE  /\ Heard(j)' >= 1 =>
                               errors' # 0 \/ (Key(j) \in infos' /\ who'[Key(j)].pid = j)
                          /\ Heard(j)' = 2 =>
                               errors' # 0 \/ (timeEnd'[Key(j)] # 0 /\ who'[Key(j)].ender = j)
        BY <1>2 DEF LogInv, Key
      <4>1. CASE j = i
        <5>1. Heard(j)' = 1 /\ Key(j) = k
          BY <3>5, <4>1 DEF k
        <5> QED
          BY <3>1, <3>2, <4>1, <5>1
      <4>2. CASE j # i
        <5>1. Heard(j)' = Heard(j) /\ Key(j) \in Keys
          BY <1>2, <3>4, <4>2
        <5>2. /\ Heard(j) >= 1 => errors # 0 \/ (Key(j) \in infos /\ who[Key(j)].pid = j)
              /\ Heard(j) = 2 => errors # 0 \/ (timeEnd[Key(j)] # 0 /\ who[Key(j)].ender = j)
          BY DEF Credit, LogInv
        <5>3. Heard(j) = 2 => Heard(j) >= 1
          OBVIOUS
        <5>4. Key(j) \in infos => Key(j) # k
          BY <3>1
        <5> QED
          BY <3>1, <3>2, <3>3, <5>1, <5>2, <5>3, <5>4
      <4> QED
        BY <4>1, <4>2
    <3>7. PraiseInv'
      <4> SUFFICES ASSUME tester = "judged", verdict = Full, NEW p \in Procs
                   PROVE  /\ <<p, 0>> \in infos' /\ timeEnd'[<<p, 0>>] # 0
                          /\ who'[<<p, 0>>].pid = <<test, p>> /\ who'[<<p, 0>>].ender = <<test, p>>
        BY <1>1 DEF PraiseInv
      <4>1. /\ <<p, 0>> \in infos /\ timeEnd[<<p, 0>>] # 0
            /\ who[<<p, 0>>].pid = <<test, p>> /\ who[<<p, 0>>].ender = <<test, p>>
        BY DEF Credit, PraiseInv
      <4>2. <<p, 0>> # k /\ <<p, 0>> \in Keys
        BY <1>1, <3>1, <4>1 DEF LogTypeOK
      <4> QED
        BY <3>1, <3>2, <3>3, <4>1, <4>2
    <3> QED
      BY <2>2, <3>6, <3>7 DEF Credit
  <2>5. CASE server.found = "end" /\ k \in infos
    <3>1. /\ timeEnd[k] = 0 /\ infos' = infos /\ errors' = errors
          /\ timeEnd' = [timeEnd EXCEPT ![k] = time + 1] /\ who' = [who EXCEPT ![k].ender = i]
      BY <1>4, <2>0, <2>5 DEF Record, RecordEnd, AcceptsEnd, NextTime
    <3>2. /\ who'[k].pid = who[k].pid /\ who'[k].ender = i /\ timeEnd'[k] # 0
          /\ \A l \in Keys \ {k} : who'[l] = who[l] /\ timeEnd'[l] = timeEnd[l]
      BY <1>1, <2>1, <3>1 DEF LogTypeOK
    <3> HIDE DEF k
    <3>3. ASSUME NEW j \in Clients, Whole(j), j # i PROVE Heard(j)' = Heard(j)
      BY <1>2, <2>0, <3>3 DEF Recording
    <3>4. Whole(i) => Heard(i) = 1 /\ Heard(i)' = 2
      <4> SUFFICES ASSUME Whole(i) PROVE Heard(i) = 1 /\ Heard(i)' = 2
        OBVIOUS
      <4>1. said[i] \in {1, 2}
        BY <2>1, <2>3, ServedAre
      <4>2. said[i] # 1
        BY <2>1, <2>3, <2>5 DEF Credit, FoundInv
      <4> QED
        BY <1>2, <2>1, <2>3, <4>1, <4>2
    <3>5. LogInv'
      <4> SUFFICES ASSUME NEW j \in Clients, Whole(j)
                   PROVE  /\ Heard(j)' >= 1 =>
                               errors' # 0 \/ (Key(j) \in infos' /\ who'[Key(j)].pid = j)
                          /\ Heard(j)' = 2 =>
                               errors' # 0 \/ (timeEnd'[Key(j)] # 0 /\ who'[Key(j)].ender = j)
        BY <1>2 DEF LogInv, Key
      <4>2. /\ Heard(j) >= 1 => errors # 0 \/ (Key(j) \in infos /\ who[Key(j)].pid = j)
            /\ Heard(j) = 2 => errors # 0 \/ (timeEnd[Key(j)] # 0 /\ who[Key(j)].ender = j)
            /\ Key(j) \in Keys
        BY <1>2 DEF Credit, LogInv
      <4>3. CASE j = i
        <5>1. Heard(j) = 1 /\ Heard(j)' = 2 /\ Key(j) = k
          BY <3>4, <4>3 DEF k
        <5> QED
          BY <3>1, <3>2, <4>2, <4>3, <5>1
      <4>4. CASE j # i
        <5>1. Heard(j)' = Heard(j)
          BY <3>3, <4>4
        <5>2. who'[Key(j)].pid = who[Key(j)].pid
          BY <3>2, <4>2
        <5> QED
          BY <3>1, <3>2, <4>2, <5>1, <5>2
      <4> QED
        BY <4>3, <4>4
    <3>6. PraiseInv'
      <4> SUFFICES ASSUME tester = "judged", verdict = Full, NEW p \in Procs
                   PROVE  /\ <<p, 0>> \in infos' /\ timeEnd'[<<p, 0>>] # 0
                          /\ who'[<<p, 0>>].pid = <<test, p>> /\ who'[<<p, 0>>].ender = <<test, p>>
        BY <1>1 DEF PraiseInv
      <4>1. /\ <<p, 0>> \in infos /\ timeEnd[<<p, 0>>] # 0
            /\ who[<<p, 0>>].pid = <<test, p>> /\ who[<<p, 0>>].ender = <<test, p>>
        BY DEF Credit, PraiseInv
      <4>2. <<p, 0>> # k /\ <<p, 0>> \in Keys
        BY <1>1, <3>1, <4>1 DEF LogTypeOK
      <4> QED
        BY <3>1, <3>2, <4>1, <4>2
    <3> QED
      BY <2>2, <3>5, <3>6 DEF Credit
  <2>6. CASE server.found = "error"
    <3>1. errors' # 0 /\ infos' = infos /\ timeEnd' = timeEnd /\ who' = who
      BY <1>1, <1>4, <2>0, <2>6 DEF Record, Refuse, LogTypeOK
    <3> QED
      BY <1>1, <2>2, <3>1 DEF Credit, LogInv, PraiseInv
  <2>7. CASE server.found = "end" /\ k \notin infos
    <3>1. errors' = errors /\ infos' = infos /\ timeEnd' = timeEnd /\ who' = who
      BY <1>4, <2>0, <2>7 DEF Record, logVars
    <3>2. ~ Whole(i)
      BY <2>1, <2>3, <2>7 DEF Credit, FoundInv
    <3>3. \A j \in Clients : Whole(j) => Heard(j)' = Heard(j)
      BY <1>2, <2>0, <3>2 DEF Recording
    <3> QED
      BY <1>1, <1>2, <2>2, <3>1, <3>3 DEF Credit, LogInv, PraiseInv, Key
  <2>8. server.found \in {"begin", "end", "error"}
    BY <1>1
  <2> QED
    BY <2>4, <2>5, <2>6, <2>7, <2>8
<1> QED
  BY <1>3, <1>4

LEMMA RunnerKeepsCredit ==
  ASSUME Base, SemInv, Credit, Runner
  PROVE  Credit'
<1>1. /\ UNCHANGED <<mainVars, server, who>> /\ said' = said
      /\ \A j \in Clients : (Whole(j)' <=> Whole(j)) /\ Heard(j)' = Heard(j)
      /\ tester # "judged" /\ tester' = tester
      /\ runner \notin Reset => UNCHANGED logVars
  <2>1. tester # "judged"
    BY RunnerKeepsBase DEF Base, MainOK
  <2>2. /\ UNCHANGED <<mainVars, server, who>> /\ said' = said
        /\ runner \notin Reset => UNCHANGED logVars
    BY DEF Runner, ResetTime, ResetInfos, ResetErrors, ResetDelays, SetDelays, Popen,
           WaitForP1, RunnerGoes, procVars, Reset
  <2> QED
    BY <2>1, <2>2, RunnerKeepsBase DEF mainVars
<1>2. CASE runner \in Reset
  <2>1. \A j \in Clients : Whole(j) => ~ Served(j) /\ Heard(j) = 0
    <3> SUFFICES ASSUME NEW j \in Clients, Whole(j) PROVE ~ Served(j) /\ Heard(j) = 0
      OBVIOUS
    <3>1. ~ Served(j)
      BY <1>2, ServedAre
    <3>2. at[j] = "unborn"
      BY <1>2, NotYetBorn DEF Whole
    <3> QED
      BY <3>1, <3>2 DEF Heard
  <2> QED
    BY <1>1, <2>1 DEF Credit, FoundInv, LogInv, PraiseInv, Served
<1>3. CASE runner \notin Reset
  BY <1>1, <1>3 DEF Credit, FoundInv, LogInv, PraiseInv, Served, Key, logVars
<1> QED
  BY <1>2, <1>3

\* When P1 has gone and nobody has been killed, all of them have gone.
LEMMA AllHaveGone ==
  ASSUME Base, SemInv, tester # "main", Gone(<<test, 1>>), ~ timedOut
  PROVE  \A p \in Procs : Gone(<<test, p>>) /\ said[<<test, p>>] = 2
<1>1. /\ setup \in Setups /\ test \in 1..Tests /\ test \in Nat
      /\ \A p \in Procs : <<test, p>> \in Clients
  BY NotYetBorn, ProcsAre DEF Base, CoreType
<1>2. ASSUME NEW p \in Procs, Gone(<<test, p>>)
      PROVE  said[<<test, p>>] = 2 /\ \A k \in Kids(<<test, p>>) : Gone(k)
  <2>1. Whole(<<test, p>>) /\ PlaceOK(<<test, p>>)
    BY <1>1 DEF Base, PlaceInv, Whole
  <2> QED
    BY <1>2, <2>1 DEF PlaceOK
<1> DEFINE S == {p \in Procs \ {1} : ~ Gone(<<test, p>>)}
<1>3. S = {}
  <2> SUFFICES ASSUME S # {} PROVE FALSE
    OBVIOUS
  <2>1. PICK p \in S : data.procs[p] \notin S
    BY <1>1, ProcsAre
  <2>2. data.procs[p] \in Procs /\ p \in Procs
    BY <1>1, ProcsAre
  <2>3. Gone(<<test, data.procs[p]>>)
    BY <2>1, <2>2
  <2>4. <<test, p>> \in Kids(<<test, data.procs[p]>>)
    BY <1>1, <2>2 DEF Kids
  <2>5. Gone(<<test, p>>)
    BY <1>2, <2>2, <2>3, <2>4
  <2> QED
    BY <2>1, <2>5
<1>4. \A p \in Procs : Gone(<<test, p>>)
  BY <1>3
<1> QED
  BY <1>2, <1>4

LEMMA MainKeepsCredit ==
  ASSUME Base, SemInv, Credit, Main, ~ Stop
  PROVE  Credit'
<1>1. /\ UNCHANGED <<said, serverVars>> /\ Procs' = Procs
      /\ server' = server /\ who' = who /\ UNCHANGED logVars
      /\ \A j \in Clients : (Whole(j)' => Whole(j)) /\ Heard(j)' = Heard(j)
  <2>1. UNCHANGED <<said, serverVars>> /\ setup' = setup
    BY DEF Main, Start, Join, Expire, Kill, Rejoin, Judge, StopConnect, Perform
  <2> QED
    BY <2>1, KidsStay, MainKeepsBase DEF serverVars
<1>2. FoundInv' /\ LogInv'
  BY <1>1 DEF Credit, FoundInv, LogInv, Served, Key, logVars
<1>3. PraiseInv'
  <2>1. CASE Judge
    <3> SUFFICES ASSUME verdict' = Full, NEW p \in Procs
                 PROVE  /\ <<p, 0>> \in infos /\ timeEnd[<<p, 0>>] # 0
                        /\ who[<<p, 0>>].pid = <<test, p>> /\ who[<<p, 0>>].ender = <<test, p>>
      BY <1>1, <2>1 DEF Judge, PraiseInv, logVars
    <3>1. /\ ~ timedOut /\ errors = 0 /\ tester = "judge"
      BY <2>1 DEF Judge, Perform, NoErrors, Full
    <3>2. runner = "done" /\ tester # "main" /\ test # 0 /\ setup \in Setups
      BY <3>1 DEF Base, CoreType, MainOK
    <3>3. test \in Nat /\ test \in 1..Tests
      BY <3>2, NotYetBorn
    <3>4. Gone(<<test, 1>>)
      BY <3>2, <3>3 DEF Base, MainOK
    <3> DEFINE i == <<test, p>>
    <3>5. Gone(i) /\ said[i] = 2
      BY <3>1, <3>2, <3>4, AllHaveGone
    <3>6. i \in Clients /\ Key(i) = <<p, 0>> /\ i[1] = test
      BY <3>2, <3>3, ProcsAre DEF Key
    <3> HIDE DEF i
    <3>7. Whole(i) /\ Heard(i) = 2
      BY <3>1, <3>3, <3>5, <3>6 DEF Whole, Heard, Pending
    <3>8. /\ Key(i) \in infos /\ who[Key(i)].pid = i
          /\ timeEnd[Key(i)] # 0 /\ who[Key(i)].ender = i
      BY <3>1, <3>6, <3>7 DEF Credit, LogInv
    <3> QED
      BY <3>6, <3>8 DEF i
  <2>2. CASE ~ Judge
    BY <2>2 DEF Main, Start, Join, Expire, Kill, Rejoin, StopConnect, Perform, PraiseInv
  <2> QED
    BY <2>1, <2>2
<1> QED
  BY <1>2, <1>3 DEF Credit
-----------------------------------------------------------------------------
(* A test that begins quietly: the log is what its processes have said *)

Ppid(i) == IF data.procs[i[2]] = 0 THEN <<0, 0>> ELSE <<i[1], data.procs[i[2]]>>

\* Nobody else talks to the server, and nobody at all while it is reset.
CalmInv ==
  /\ runner \in Reset => server.at = "accept" /\ backlog = <<>>
  /\ server.at \in Busy => server.client[1] = test
  /\ \A n \in DOMAIN backlog : backlog[n][1] = test

ResetInv ==
  /\ runner \in {"errors", "delays", "set", "start"} =>
       infos = {} /\ \A k \in Keys : timeStart[k] = 0 /\ timeEnd[k] = 0
  /\ runner \in {"delays", "set", "start"} => errors = 0

Fresh == runner \in {"wait", "done"} /\ tester # "main"

HeardOK(i) ==
  /\ Key(i) \in infos <=> Heard(i) >= 1
  /\ timeEnd[Key(i)] # 0 <=> Heard(i) = 2
  /\ Heard(i) >= 1 /\ ~ timedOut => who[Key(i)].ppid = Ppid(i)
  /\ Served(i) /\ server.at = "record" => server.found # "error"

HeardInv ==
  /\ ~ timedOut => errors = 0
  /\ \A k \in infos :
       \E i \in Clients : i[1] = test /\ i[2] \in Procs /\ k = Key(i) /\ who[k].pid = i
  /\ \A k \in Keys : timeStart[k] <= time /\ timeEnd[k] <= time
  /\ \A i \in Clients : i[1] = test /\ Whole(i) => HeardOK(i)

\* The messages of a child are between those of its parent.
NestedInv ==
  \A i \in Clients : i[1] = test => \A k \in Kids(i) :
    /\ Heard(k) >= 1 => timeStart[Key(i)] <= timeStart[Key(k)]
    /\ Heard(i) = 2 => timeEnd[Key(k)] <= timeEnd[Key(i)]

VerdictInv == tester = "judged" /\ ~ timedOut => verdict = Full

Clean ==
  /\ CalmInv /\ ResetInv /\ VerdictInv
  /\ Fresh => HeardInv /\ (~ timedOut => NestedInv)

\* A process has been heard of when its first child is born, and says END when the
\* last one has gone.
LEMMA HeardBetween ==
  ASSUME Base, SemInv, NEW i \in Clients, Whole(i)
  PROVE  /\ Heard(i) \in 0..2
         /\ \A k \in Kids(i) : at[k] # "unborn" => Heard(i) >= 1
         /\ Heard(i) = 2 => said[i] = 2
         /\ said[i] = 2 => \A k \in Kids(i) : Gone(k)
<1>1. PlaceOK(i) /\ said[i] \in 0..2 /\ at[i] \in Places
  BY DEF Base, PlaceInv, CoreType, SemInv, SemTypeOK
<1>2. Heard(i) \in {said[i] - 1, said[i]} \/ Heard(i) = 0
  BY DEF Heard
<1>3. Heard(i) = said[i] - 1 => Pending(i) \/ Heard(i) = 0
  BY <1>1 DEF Heard
<1>4. Pending(i) => said[i] \in {1, 2}
  BY <1>1 DEF Pending, PlaceOK, Talking
<1>5. Heard(i) \in 0..2 /\ (Heard(i) = 2 => said[i] = 2)
  BY <1>1, <1>2, <1>4 DEF Heard
<1>6. said[i] = 2 => \A k \in Kids(i) : Gone(k)
  BY <1>1 DEF PlaceOK
<1>7. ASSUME NEW k \in Kids(i), at[k] # "unborn" PROVE Heard(i) >= 1
  <2>1. at[i] \notin Early /\ ~ (at[i] \in Talking /\ said[i] = 1)
    BY <1>1, <1>7 DEF PlaceOK
  <2>2. CASE at[i] \in Talking
    BY <1>1, <2>1, <2>2 DEF PlaceOK, Heard, Early, Talking
  <2>3. CASE at[i] \notin Talking
    <3>1. ~ Pending(i)
      BY <2>3 DEF Pending, Talking
    <3>2. said[i] # 0
      BY <1>1, <1>7, <2>1, <2>3 DEF PlaceOK, Early, Talking, Resting
    <3> QED
      BY <1>1, <2>1, <3>1, <3>2 DEF Heard, Early
  <2> QED
    BY <2>2, <2>3
<1> QED
  BY <1>5, <1>6, <1>7

LEMMA ProcessKeepsClean ==
  ASSUME Base, SemInv, Clean, quiet, NEW i \in Clients, Process(i)
  PROVE  Clean'
<1>1. UNCHANGED <<mainVars, runner, serverVars>> /\ Alive(i)
  BY ProcessSteps
<1>2. /\ setup' = setup /\ test' = test /\ timedOut' = timedOut /\ server' = server /\ who' = who
      /\ logVars' = logVars /\ tester' = tester /\ runner' = runner /\ verdict' = verdict
      /\ Procs' = Procs /\ data' = data /\ \A j \in Clients : Kids(j)' = Kids(j)
  BY <1>1, KidsStay DEF mainVars, serverVars
<1>3. i[1] = test
  BY <1>1 DEF SemInv, AloneAtFirst
<1>4. runner \notin Reset
  <2>1. test \in Nat
    BY NotYetBorn
  <2> QED
    BY <1>1, <1>3, <2>1, NotYetBorn
<1>5. ASSUME NEW j \in Clients, Whole(j)' PROVE Whole(j) /\ Heard(j)' = Heard(j)
  BY <1>5, ProcessKeepsSockets
<1>6. CalmInv'
  <2>1. \A n \in DOMAIN backlog' : backlog'[n][1] = test
    <3>1. CASE Connect(i)
      <4>1. backlog' = Append(backlog, i) \/ backlog' = backlog
        BY <3>1 DEF Connect
      <4>2. CASE backlog' = Append(backlog, i)
        <5>1. /\ DOMAIN backlog' = 1..Len(backlog) + 1 /\ Len(backlog) \in Nat
              /\ DOMAIN backlog = 1..Len(backlog)
              /\ backlog'[Len(backlog) + 1] = i
              /\ \A n \in 1..Len(backlog) : backlog'[n] = backlog[n]
          BY <4>2, AppendProperties, LenProperties DEF Base, CoreType
        <5>2. \A n \in 1..Len(backlog) : backlog'[n][1] = test
          BY <5>1 DEF Clean, CalmInv
        <5>3. \A n \in 1..Len(backlog) + 1 : n \in 1..Len(backlog) \/ n = Len(backlog) + 1
          BY <5>1
        <5> QED
          BY <1>3, <5>1, <5>2, <5>3
      <4> QED
        BY <4>1, <4>2 DEF Clean, CalmInv
    <3>2. CASE ~ Connect(i)
      <4>1. backlog' = backlog
        BY <3>2 DEF Process, Unlink, Create, Call, Open, SemWait, Write, Read, Post,
                AtforkPrepare, Fork, AtforkParent, AtforkChild, WaitForKids, Leave, socketVars
      <4> QED
        BY <4>1 DEF Clean, CalmInv
    <3> QED
      BY <3>1, <3>2
  <2> QED
    BY <1>2, <1>4, <2>1 DEF Clean, CalmInv
<1>7. ResetInv' /\ VerdictInv'
  BY <1>2 DEF Clean, ResetInv, VerdictInv, logVars
<1>8. ASSUME Fresh' PROVE HeardInv'
  <2>1. Fresh /\ HeardInv
    BY <1>2, <1>8 DEF Fresh, Clean
  <2>2. ASSUME NEW j \in Clients, j[1] = test, Whole(j)' PROVE HeardOK(j)'
    <3>1. HeardOK(j) /\ Heard(j)' = Heard(j) /\ Ppid(j)' = Ppid(j)
      BY <1>2, <1>5, <2>1, <2>2 DEF HeardInv, Ppid
    <3> QED
      BY <1>2, <3>1 DEF HeardOK, logVars, Key, Served
  <2> QED
    BY <1>2, <2>1, <2>2 DEF HeardInv, logVars, Key
<1>9. ASSUME Fresh', ~ timedOut' PROVE NestedInv'
  <2>1. NestedInv
    BY <1>2, <1>9 DEF Fresh, Clean
  <2>2. \A j \in Clients : j[1] = test => Heard(j)' = Heard(j)
    <3>1. test \in Nat
      BY NotYetBorn
    <3>2. \A j \in Clients : j[1] = test => Whole(j)'
      BY <1>2, <1>9, <3>1 DEF Whole
    <3> QED
      BY <1>5, <3>2
  <2>3. \A j \in Clients : \A k \in Kids(j) : k \in Clients /\ k[1] = j[1]
    BY DEF Kids
  <2> QED
    BY <1>2, <2>1, <2>2, <2>3 DEF NestedInv, logVars, Key
<1> QED
  BY <1>6, <1>7, <1>8, <1>9 DEF Clean

LEMMA RunnerKeepsClean ==
  ASSUME Base, SemInv, Clean, quiet, Runner
  PROVE  Clean'
<1>1. /\ Base' /\ tester # "main" /\ runner # "done"
      /\ \A j \in Clients : (Whole(j)' <=> Whole(j)) /\ Heard(j)' = Heard(j)
  BY RunnerKeepsBase
<1>2. /\ server' = server /\ who' = who /\ backlog' = backlog /\ tester' = tester
      /\ test' = test /\ timedOut' = timedOut /\ setup' = setup /\ verdict' = verdict
      /\ runner \in Reset \cup {"wait"} /\ (runner' \in Reset => runner \in Reset)
      /\ Procs' = Procs /\ data' = data /\ \A j \in Clients : Kids(j)' = Kids(j)
  <2>1. /\ UNCHANGED <<mainVars, server, who, socketVars>>
        /\ runner \in Reset \cup {"wait"} /\ (runner' \in Reset => runner \in Reset)
    BY DEF Runner, ResetTime, ResetInfos, ResetErrors, ResetDelays, SetDelays, Popen,
           WaitForP1, RunnerGoes, Reset
  <2> QED
    BY <2>1, KidsStay DEF mainVars, socketVars
<1>3. tester # "judged"
  BY <1>1 DEF Base, MainOK
<1>4. CalmInv' /\ VerdictInv'
  BY <1>2, <1>3 DEF Clean, CalmInv, VerdictInv
<1>5. CASE ResetTime \/ ResetInfos \/ ResetErrors \/ ResetDelays \/ SetDelays
  <2>1. ~ Fresh'
    BY <1>5 DEF ResetTime, ResetInfos, ResetErrors, ResetDelays, SetDelays, RunnerGoes, Fresh
  <2>2. ResetInv'
    BY <1>5 DEF ResetTime, ResetInfos, ResetErrors, ResetDelays, SetDelays, RunnerGoes, Clean,
                ResetInv, logVars
  <2> QED
    BY <1>4, <2>1, <2>2 DEF Clean
<1>6. CASE Popen
  <2>1. /\ runner = "start" /\ runner' = "wait" /\ UNCHANGED logVars
        /\ infos = {} /\ errors = 0 /\ (\A k \in Keys : timeStart[k] = 0 /\ timeEnd[k] = 0)
        /\ server.at = "accept"
    BY <1>6 DEF Popen, RunnerGoes, Clean, ResetInv, CalmInv, Reset
  <2>2. /\ infos' = {} /\ errors' = 0 /\ (\A k \in Keys : timeStart'[k] = 0 /\ timeEnd'[k] = 0)
        /\ time' \in Nat
    BY <2>1 DEF logVars, Base, CoreType, LogTypeOK
  <2>3. \A j \in Clients : j[1] = test => Heard(j)' = 0
    <3>1. \A j \in Clients : j[1] = test => at[j] = "unborn"
      BY <2>1 DEF SemInv, BornInTime, Reset
    <3> QED
      BY <1>1, <3>1 DEF Heard
  <2>4. ASSUME NEW j \in Clients, j[1] = test PROVE HeardOK(j)'
    <3>1. Heard(j)' = 0 /\ Key(j) \in Keys
      BY <2>3, <2>4, ClientsAre
    <3> QED
      BY <1>2, <2>1, <2>2, <3>1 DEF HeardOK, Key
  <2>5. HeardInv'
    BY <1>2, <2>2, <2>4 DEF HeardInv
  <2>6. NestedInv'
    <3> SUFFICES ASSUME NEW j \in Clients, j[1] = test, NEW k \in Kids(j)
                 PROVE  /\ Heard(k)' >= 1 => timeStart'[Key(j)] <= timeStart'[Key(k)]
                        /\ Heard(j)' = 2 => timeEnd'[Key(k)] <= timeEnd'[Key(j)]
      BY <1>2 DEF NestedInv, Key
    <3>1. k \in Clients /\ k[1] = test
      BY DEF Kids
    <3> QED
      BY <2>3, <3>1
  <2>7. ResetInv'
    BY <2>1 DEF ResetInv
  <2> QED
    BY <1>4, <2>5, <2>6, <2>7 DEF Clean
<1>7. CASE WaitForP1
  <2>1. runner = "wait" /\ runner' = "done" /\ UNCHANGED <<logVars, procVars>>
    BY <1>7 DEF WaitForP1, RunnerGoes
  <2>2. Fresh /\ HeardInv /\ (~ timedOut => NestedInv)
    BY <1>1, <2>1 DEF Fresh, Clean
  <2>3. HeardInv'
    <3>1. ASSUME NEW j \in Clients, j[1] = test, Whole(j) PROVE HeardOK(j)'
      <4>1. HeardOK(j) /\ Heard(j)' = Heard(j) /\ Ppid(j)' = Ppid(j)
        BY <1>1, <1>2, <2>2, <3>1 DEF HeardInv, Ppid
      <4> QED
        BY <1>2, <2>1, <4>1 DEF HeardOK, logVars, Key, Served
    <3> QED
      BY <1>1, <1>2, <2>1, <2>2, <3>1 DEF HeardInv, logVars, Key
  <2>4. ~ timedOut' => NestedInv'
    <3>1. \A j \in Clients : \A k \in Kids(j) : k \in Clients
      BY DEF Kids
    <3> QED
      BY <1>1, <1>2, <2>1, <2>2, <3>1 DEF NestedInv, logVars, Key
  <2>5. ResetInv'
    BY <2>1 DEF ResetInv
  <2> QED
    BY <1>4, <2>3, <2>4, <2>5 DEF Clean
<1> QED
  BY <1>5, <1>6, <1>7 DEF Runner

\* What the server records for a process of this test is the next thing it said.
LEMMA ServerKeepsClean ==
  ASSUME Base, SemInv, FoundInv, Clean, Server
  PROVE  Clean'
<1>1. /\ setup' = setup /\ test' = test /\ timedOut' = timedOut /\ tester' = tester
      /\ runner' = runner /\ verdict' = verdict /\ at' = at /\ said' = said
      /\ Procs' = Procs /\ data' = data /\ (\A j \in Clients : Kids(j)' = Kids(j))
      /\ LogTypeOK /\ setup \in Setups /\ timedOut \in BOOLEAN
      /\ who \in [Keys -> [pid : Pairs, ppid : Pairs, ender : Pairs]]
      /\ server \in [at : Busy \cup {"accept", "dead"}, client : Clients \cup {<<0, 0>>},
                     found : {"begin", "end", "error"}]
      /\ runner \in Reset \cup {"wait", "done"} /\ backlog \in Seq(Clients)
  BY KidsStay DEF Server, mainVars, procVars, Base, CoreType
<1>2. \A j \in Clients : /\ Whole(j)' <=> Whole(j)
                         /\ j \in Clients /\ Key(j) \in Keys
                         /\ Whole(j) /\ Recording(j) => Heard(j) = said[j] - 1 /\ Heard(j)' = said[j]
                         /\ Whole(j) /\ ~ Recording(j) => Heard(j)' = Heard(j)
  BY <1>1, ServerKeepsSockets, ClientsAre DEF Whole
<1>3. /\ test \in Nat /\ (tester = "main" => test = 0)
      /\ \A j \in Clients : j[1] \in Nat \ {0}
  <2>1. \A j \in Clients : j[1] \in 1..Tests
    BY ClientsAre
  <2>2. Tests \in Nat
    BY ClientsAre
  <2>3. test \in Nat
    BY NotYetBorn
  <2>4. tester = "main" => test = 0
    BY DEF Base, MainOK
  <2> QED
    BY <2>1, <2>2, <2>3, <2>4
<1>4. Fresh /\ Fresh'
  <2>1. ASSUME Accept PROVE backlog # <<>> /\ backlog[1] \in Clients /\ backlog[1][1] = test
    BY <1>1, <2>1, FirstOfBacklog DEF Accept, Clean, CalmInv
  <2>2. ASSUME ~ Accept PROVE server.at \in Busy
    BY <2>2 DEF Server, Receive, Look, Record, Delay, Fetch, Answer, Serve, Busy
  <2>3. server.at \in Busy => server.client \in Clients /\ server.client[1] = test
    BY DEF Clean, CalmInv, Base, MainOK
  <2>4. test # 0
    BY <1>3, <2>1, <2>2, <2>3
  <2>5. runner \notin Reset
    <3>1. "accept" \notin Busy
      BY DEF Busy
    <3> QED
      BY <2>1, <2>2, <3>1 DEF Clean, CalmInv
  <2> QED
    BY <1>1, <1>3, <2>4, <2>5 DEF Fresh
<1>5. HeardInv /\ (~ timedOut => NestedInv)
  BY <1>4 DEF Clean
<1>6. CalmInv'
  <2>1. CASE Accept
    <3>1. /\ backlog # <<>> /\ backlog' = Tail(backlog)
          /\ server' = [server EXCEPT !.at = "receive", !.client = Head(backlog)]
      BY <2>1 DEF Accept, Base, MainOK
    <3>2. Head(backlog)[1] = test /\ \A n \in DOMAIN backlog' : backlog'[n][1] = test
      BY <1>1, <3>1, FirstOfBacklog DEF Clean, CalmInv
    <3>3. server'.client = Head(backlog)
      BY <1>1, <3>1
    <3> QED
      BY <1>1, <1>4, <3>2, <3>3 DEF CalmInv, Fresh, Reset
  <2>2. CASE ~ Accept
    <3>1. server.at \in Busy /\ server'.client = server.client /\ backlog' = backlog
      BY <1>1, <2>2
         DEF Server, Receive, Look, Record, Delay, Fetch, Answer, Perish, Serve, Busy, socketVars
    <3> QED
      BY <1>1, <1>4, <3>1 DEF Clean, CalmInv, Fresh, Reset
  <2> QED
    BY <2>1, <2>2
<1>7. ResetInv' /\ VerdictInv'
  BY <1>1, <1>4 DEF Clean, ResetInv, VerdictInv, Fresh
<1>8. \A j \in Clients : \A l \in Kids(j) : l \in Clients /\ l[1] = j[1] /\ l # j
  BY <1>1, KidsAre
<1>9. CASE ~ Record
  <2>1. UNCHANGED <<logVars, who>> /\ \A j \in Clients : Whole(j) => Heard(j)' = Heard(j)
    BY <1>2, <1>9 DEF Server, Accept, Receive, Look, Delay, Fetch, Answer, Recording
  <2>2. ASSUME NEW j \in Clients, j[1] = test, Whole(j) PROVE HeardOK(j)'
    <3>1. HeardOK(j) /\ Heard(j)' = Heard(j) /\ Ppid(j)' = Ppid(j)
      BY <1>1, <1>5, <2>1, <2>2 DEF HeardInv, Ppid
    <3>2. ASSUME Served(j)', server'.at = "record" PROVE server'.found # "error"
      <4>1. Look
        BY <1>1, <1>9, <3>2 DEF Server, Accept, Receive, Delay, Fetch, Answer, Serve, Perish, Busy
      <4>2. server.client = j /\ server.at = "look" /\ Served(j)
        BY <1>1, <3>2, <4>1 DEF Look, Served, Busy
      <4>3. said[j] \in {1, 2} /\ Heard(j) = said[j] - 1
        BY <2>2, <4>2, ServedAre
      <4>4. server'.found = IF said[j] = 1
                 THEN IF AcceptsBegin(Key(j)) THEN "begin" ELSE "error"
                 ELSE IF AcceptsEnd(Key(j)) THEN "end" ELSE "error"
        BY <1>1, <4>1, <4>2 DEF Look
      <4>5. said[j] = 1 => AcceptsBegin(Key(j))
        BY <3>1, <4>3 DEF HeardOK, AcceptsBegin
      <4>6. said[j] = 2 => AcceptsEnd(Key(j))
        BY <3>1, <4>3 DEF HeardOK, AcceptsEnd
      <4> QED
        BY <4>3, <4>4, <4>5, <4>6
    <3> QED
      BY <1>1, <2>1, <3>1, <3>2 DEF HeardOK, logVars, Key
  <2>3. HeardInv'
    BY <1>1, <1>2, <1>5, <2>1, <2>2 DEF HeardInv, logVars, Key
  <2>4. ASSUME ~ timedOut PROVE NestedInv'
    <3>1. \A j \in Clients : j[1] = test => Heard(j)' = Heard(j)
      BY <1>3, <2>1, <2>4 DEF Whole
    <3>2. UNCHANGED <<timeStart, timeEnd>> /\ NestedInv
      BY <1>5, <2>1, <2>4 DEF logVars
    <3> SUFFICES ASSUME NEW j \in Clients, j[1] = test, NEW l \in Kids(j)
                 PROVE  /\ Heard(l)' >= 1 => timeStart'[Key(j)] <= timeStart'[Key(l)]
                        /\ Heard(j)' = 2 => timeEnd'[Key(l)] <= timeEnd'[Key(j)]
      BY <1>1 DEF NestedInv, Key
    <3>3. Heard(j)' = Heard(j) /\ Heard(l)' = Heard(l)
      BY <1>8, <3>1
    <3>4. /\ Heard(l) >= 1 => timeStart[Key(j)] <= timeStart[Key(l)]
          /\ Heard(j) = 2 => timeEnd[Key(l)] <= timeEnd[Key(j)]
      BY <3>2 DEF NestedInv
    <3> QED
      BY <3>2, <3>3, <3>4
  <2> QED
    BY <1>1, <1>6, <1>7, <2>3, <2>4 DEF Clean
<1>10. CASE Record
  <2>0. PICK i \in Clients : i = server.client
    BY <1>10 DEF Record, Base, MainOK, Busy
  <2> DEFINE k == Key(i)
  <2>1. /\ server.at = "record" /\ k \in Keys /\ server'.at # "record" /\ i[1] = test
        /\ i[2] \in Procs /\ Served(i) /\ Recording(i)
    <3>1. server.at = "record" /\ k \in Keys /\ server'.at # "record"
      BY <1>1, <1>2, <1>10, <2>0 DEF Record, Serve, Perish
    <3>2. i[1] = test /\ at[i] # "unborn"
      BY <2>0, <3>1 DEF Clean, CalmInv, Base, MainOK, Busy
    <3>3. i[2] \in Procs
      BY <3>2 DEF Base, PlaceInv, PlaceOK
    <3> QED
      BY <1>10, <2>0, <3>1, <3>2, <3>3 DEF Served, Recording, Busy
  <2>2. \A j \in Clients : j[1] = test /\ j # i => Key(j) # k /\ Key(j) \in Keys
    BY <1>2, <2>1, ClientsAre
  <2>3. \A j \in Clients : Whole(j) /\ j # i => Heard(j)' = Heard(j)
    BY <1>2, <2>0 DEF Recording
  <2>4. \A j \in Clients : Ppid(j)' = Ppid(j)
    BY <1>1 DEF Ppid
  <2>5. ~ timedOut => Whole(i) /\ \A j \in Clients : j[1] = test => Whole(j)
    BY <1>3, <2>1 DEF Whole
  <2>6. Whole(i) => said[i] \in {1, 2} /\ at[i] = "read" /\ HeardOK(i) /\ server.found # "error"
    BY <1>5, <2>1, ServedAre DEF HeardInv, HeardOK
  <2> HIDE DEF k
  <2>7. CASE server.found = "begin"
    <3>1. /\ k \notin infos /\ infos' = infos \cup {k} /\ errors' = errors /\ time' = time + 1
          /\ timeStart' = [timeStart EXCEPT ![k] = time + 1]
          /\ timeEnd' = [timeEnd EXCEPT ![k] = 0]
          /\ who' = [who EXCEPT ![k] =
               [pid |-> i, ender |-> <<0, 0>>,
                ppid |-> IF i \in orphans THEN <<0, 0>> ELSE Ppid(i)]]
      BY <1>10, <2>0, <2>7 DEF Record, RecordBegin, AcceptsBegin, NextTime, Ppid, k
    <3>2. /\ timeStart'[k] = time + 1 /\ timeEnd'[k] = 0
          /\ who'[k].pid = i /\ (i \notin orphans => who'[k].ppid = Ppid(i))
          /\ \A l \in Keys \ {k} : timeStart'[l] = timeStart[l] /\ timeEnd'[l] = timeEnd[l]
                                   /\ who'[l] = who[l]
      BY <1>1, <2>1, <3>1 DEF LogTypeOK
    <3>3. Whole(i) => Heard(i) = 0 /\ Heard(i)' = 1
      <4> SUFFICES ASSUME Whole(i) PROVE Heard(i) = 0 /\ Heard(i)' = 1
        OBVIOUS
      <4>1. said[i] # 2
        BY <2>1, <2>7 DEF FoundInv
      <4> QED
        BY <1>2, <2>1, <2>6, <4>1
    <3>4. ~ timedOut => i \notin orphans
      BY <1>3, <2>1 DEF Base, PlaceInv, PlaceOK
    <3>5. ASSUME NEW j \in Clients, j[1] = test, Whole(j) PROVE HeardOK(j)'
      <4>1. CASE j = i
        <5>1. Heard(j)' = 1 /\ Key(j) = k /\ Ppid(j)' = Ppid(j) /\ j = i
          BY <2>4, <3>3, <3>5, <4>1 DEF k
        <5>2. /\ Key(j) \in infos' /\ timeEnd'[Key(j)] = 0
              /\ ~ timedOut => who'[Key(j)].ppid = Ppid(j)
          BY <3>1, <3>2, <3>4, <5>1
        <5> QED
          BY <1>1, <2>1, <5>1, <5>2 DEF HeardOK, Key
      <4>2. CASE j # i
        <5>1. /\ HeardOK(j) /\ Heard(j)' = Heard(j) /\ Ppid(j)' = Ppid(j)
              /\ Key(j) # k /\ Key(j) \in Keys
          BY <1>5, <2>2, <2>3, <2>4, <3>5, <4>2 DEF HeardInv
        <5>2. /\ (Key(j) \in infos' <=> Key(j) \in infos)
              /\ timeEnd'[Key(j)] = timeEnd[Key(j)] /\ who'[Key(j)] = who[Key(j)]
          BY <3>1, <3>2, <5>1
        <5> QED
          BY <1>1, <2>1, <5>1, <5>2 DEF HeardOK, Key
      <4> QED
        BY <4>1, <4>2
    <3>6. HeardInv'
      <4>1. ~ timedOut => errors' = 0
        BY <1>5, <3>1 DEF HeardInv
      <4>2. ASSUME NEW l \in infos'
            PROVE  \E j \in Clients : j[1] = test /\ j[2] \in Procs /\ l = Key(j) /\ who'[l].pid = j
        <5>1. CASE l = k
          BY <2>1, <3>2, <5>1 DEF k
        <5>2. CASE l # k
          <6>1. l \in infos /\ l \in Keys
            BY <1>1, <3>1, <5>2 DEF LogTypeOK
          <6>2. PICK j \in Clients : j[1] = test /\ j[2] \in Procs /\ l = Key(j) /\ who[l].pid = j
            BY <1>5, <6>1 DEF HeardInv
          <6> QED
            BY <3>2, <5>2, <6>1, <6>2
        <5> QED
          BY <5>1, <5>2
      <4>3. ASSUME NEW l \in Keys PROVE timeStart'[l] <= time' /\ timeEnd'[l] <= time'
        <5>1. timeStart[l] <= time /\ timeEnd[l] <= time /\ time \in Nat
              /\ timeStart[l] \in Nat /\ timeEnd[l] \in Nat
          BY <1>1, <1>5 DEF HeardInv, LogTypeOK
        <5> QED
          BY <3>1, <3>2, <5>1
      <4> QED
        BY <1>1, <1>2, <3>5, <4>1, <4>2, <4>3 DEF HeardInv, Key
    <3>7. ASSUME ~ timedOut PROVE NestedInv'
      <4> SUFFICES ASSUME NEW j \in Clients, j[1] = test, NEW l \in Kids(j)
                   PROVE  /\ Heard(l)' >= 1 => timeStart'[Key(j)] <= timeStart'[Key(l)]
                          /\ Heard(j)' = 2 => timeEnd'[Key(l)] <= timeEnd'[Key(j)]
        BY <1>1 DEF NestedInv, Key
      <4>1. /\ l \in Clients /\ l[1] = test /\ l # j /\ Whole(j) /\ Whole(l) /\ Whole(i)
            /\ Key(j) \in Keys /\ Key(l) \in Keys
        BY <1>2, <1>8, <2>5, <3>7
      <4>2. /\ Heard(l) >= 1 => timeStart[Key(j)] <= timeStart[Key(l)]
            /\ Heard(j) = 2 => timeEnd[Key(l)] <= timeEnd[Key(j)]
        BY <1>5, <3>7 DEF NestedInv
      <4>3. CASE j = i
        <5>1. Heard(i) = 0 /\ Heard(i)' = 1 /\ at[l] = "unborn"
          BY <3>3, <4>1, <4>3, HeardBetween
        <5>2. Heard(l)' = Heard(l) /\ Heard(l) = 0
          BY <2>3, <4>1, <4>3, <5>1 DEF Heard
        <5> QED
          BY <4>3, <5>1, <5>2
      <4>4. CASE l = i
        <5>1. Key(l) = k /\ Key(j) # k
          BY <2>2, <4>1, <4>4 DEF k
        <5>2. /\ timeStart'[Key(j)] = timeStart[Key(j)] /\ timeStart[Key(j)] <= time
              /\ timeStart[Key(j)] \in Nat /\ time \in Nat
              /\ timeEnd'[Key(j)] = timeEnd[Key(j)] /\ timeEnd[Key(j)] \in Nat
          BY <1>1, <1>5, <3>2, <4>1, <5>1 DEF HeardInv, LogTypeOK
        <5> QED
          BY <3>2, <5>1, <5>2
      <4>5. CASE j # i /\ l # i
        <5>1. Heard(j)' = Heard(j) /\ Heard(l)' = Heard(l) /\ Key(j) # k /\ Key(l) # k
          BY <2>2, <2>3, <4>1, <4>5
        <5> QED
          BY <3>2, <4>1, <4>2, <5>1
      <4> QED
        BY <4>3, <4>4, <4>5
    <3> QED
      BY <1>1, <1>6, <1>7, <3>6, <3>7 DEF Clean
  <2>8. CASE server.found = "end" /\ k \in infos
    <3>1. /\ infos' = infos /\ errors' = errors /\ time' = time + 1 /\ timeStart' = timeStart
          /\ timeEnd' = [timeEnd EXCEPT ![k] = time + 1]
          /\ who' = [who EXCEPT ![k].ender = i]
      BY <1>10, <2>0, <2>8 DEF Record, RecordEnd, AcceptsEnd, NextTime, k
    <3>2. /\ timeEnd'[k] = time + 1 /\ time \in Nat
          /\ who'[k].pid = who[k].pid /\ who'[k].ppid = who[k].ppid
          /\ \A l \in Keys \ {k} : timeEnd'[l] = timeEnd[l] /\ who'[l] = who[l]
      BY <1>1, <2>1, <3>1 DEF LogTypeOK
    <3>3. Whole(i) => Heard(i) = 1 /\ Heard(i)' = 2
      <4> SUFFICES ASSUME Whole(i) PROVE Heard(i) = 1 /\ Heard(i)' = 2
        OBVIOUS
      <4>1. said[i] # 1
        BY <2>1, <2>8 DEF FoundInv
      <4> QED
        BY <1>2, <2>1, <2>6, <4>1
    <3>4. ASSUME NEW j \in Clients, j[1] = test, Whole(j) PROVE HeardOK(j)'
      <4>1. CASE j = i
        <5>1. /\ Heard(j) = 1 /\ Heard(j)' = 2 /\ Key(j) = k /\ Ppid(j)' = Ppid(j)
              /\ HeardOK(j)
          BY <2>4, <2>6, <3>3, <3>4, <4>1 DEF k
        <5>2. Key(j) \in infos' /\ timeEnd'[Key(j)] # 0 /\ who'[Key(j)].ppid = who[Key(j)].ppid
          BY <2>8, <3>1, <3>2, <5>1
        <5> QED
          BY <1>1, <2>1, <5>1, <5>2 DEF HeardOK, Key
      <4>2. CASE j # i
        <5>1. /\ HeardOK(j) /\ Heard(j)' = Heard(j) /\ Ppid(j)' = Ppid(j)
              /\ Key(j) # k /\ Key(j) \in Keys
          BY <1>5, <2>2, <2>3, <2>4, <3>4, <4>2 DEF HeardInv
        <5>2. timeEnd'[Key(j)] = timeEnd[Key(j)] /\ who'[Key(j)] = who[Key(j)]
          BY <3>2, <5>1
        <5> QED
          BY <1>1, <2>1, <3>1, <5>1, <5>2 DEF HeardOK, Key
      <4> QED
        BY <4>1, <4>2
    <3>5. HeardInv'
      <4>1. ~ timedOut => errors' = 0
        BY <1>5, <3>1 DEF HeardInv
      <4>2. ASSUME NEW l \in infos'
            PROVE  \E j \in Clients : j[1] = test /\ j[2] \in Procs /\ l = Key(j) /\ who'[l].pid = j
        <5>1. l \in infos /\ l \in Keys
          BY <1>1, <3>1 DEF LogTypeOK
        <5>2. PICK j \in Clients : j[1] = test /\ j[2] \in Procs /\ l = Key(j) /\ who[l].pid = j
          BY <1>5, <5>1 DEF HeardInv
        <5>3. who'[l].pid = who[l].pid
          BY <3>2, <5>1
        <5> QED
          BY <5>2, <5>3
      <4>3. ASSUME NEW l \in Keys PROVE timeStart'[l] <= time' /\ timeEnd'[l] <= time'
        <5>1. timeStart[l] <= time /\ timeEnd[l] <= time /\ time \in Nat
              /\ timeStart[l] \in Nat /\ timeEnd[l] \in Nat
          BY <1>1, <1>5 DEF HeardInv, LogTypeOK
        <5> QED
          BY <3>1, <3>2, <5>1
      <4> QED
        BY <1>1, <1>2, <3>4, <4>1, <4>2, <4>3 DEF HeardInv, Key
    <3>6. ASSUME ~ timedOut PROVE NestedInv'
      <4> SUFFICES ASSUME NEW j \in Clients, j[1] = test, NEW l \in Kids(j)
                   PROVE  /\ Heard(l)' >= 1 => timeStart[Key(j)] <= timeStart[Key(l)]
                          /\ Heard(j)' = 2 => timeEnd'[Key(l)] <= timeEnd'[Key(j)]
        BY <1>1, <3>1 DEF NestedInv, Key
      <4>1. /\ l \in Clients /\ l[1] = test /\ l # j /\ Whole(j) /\ Whole(l) /\ Whole(i)
            /\ Key(j) \in Keys /\ Key(l) \in Keys
        BY <1>2, <1>8, <2>5, <3>6
      <4>2. /\ Heard(l) >= 1 => timeStart[Key(j)] <= timeStart[Key(l)]
            /\ Heard(j) = 2 => timeEnd[Key(l)] <= timeEnd[Key(j)]
        BY <1>5, <3>6 DEF NestedInv
      <4>3. Heard(l)' >= 1 => Heard(l) >= 1
        BY <2>3, <3>3, <4>1
      <4>4. CASE j = i
        <5>1. Key(j) = k /\ Key(l) # k
          BY <2>2, <4>1, <4>4 DEF k
        <5>2. timeEnd'[Key(l)] = timeEnd[Key(l)] /\ timeEnd[Key(l)] <= time
              /\ timeEnd[Key(l)] \in Nat
          BY <1>1, <1>5, <3>2, <4>1, <5>1 DEF HeardInv, LogTypeOK
        <5> QED
          BY <3>2, <4>2, <4>3, <5>1, <5>2
      <4>5. CASE j # i
        <5>1. Heard(j)' = Heard(j) /\ Key(j) # k
          BY <2>2, <2>3, <4>1, <4>5
        <5>2. Heard(j) = 2 => l # i
          <6> SUFFICES ASSUME Heard(j) = 2, l = i PROVE FALSE
            OBVIOUS
          <6>1. Gone(i)
            BY <4>1, HeardBetween
          <6> QED
            BY <2>6, <4>1, <6>1
        <5>3. Heard(j) = 2 => Key(l) # k
          BY <2>2, <4>1, <5>2
        <5> QED
          BY <3>2, <4>1, <4>2, <4>3, <5>1, <5>3
      <4> QED
        BY <4>4, <4>5
    <3> QED
      BY <1>1, <1>6, <1>7, <3>5, <3>6 DEF Clean
  <2>9. CASE server.found = "error" \/ (server.found = "end" /\ k \notin infos)
    <3>1. UNCHANGED <<time, infos, timeStart, timeEnd, who>>
      BY <1>10, <2>0, <2>9 DEF Record, Refuse, logVars, k
    <3>2. ~ Whole(i)
      BY <2>1, <2>6, <2>9 DEF FoundInv, k
    <3>3. timedOut
      BY <1>1, <2>5, <3>2
    <3>4. \A j \in Clients : Whole(j) => Heard(j)' = Heard(j)
      BY <2>3, <3>2
    <3>5. ASSUME NEW j \in Clients, j[1] = test, Whole(j) PROVE HeardOK(j)'
      <4>1. HeardOK(j) /\ Heard(j)' = Heard(j) /\ Ppid(j)' = Ppid(j)
        BY <1>5, <2>4, <3>4, <3>5 DEF HeardInv
      <4> QED
        BY <1>1, <2>1, <3>1, <4>1 DEF HeardOK, Key
    <3>6. HeardInv'
      BY <1>1, <1>2, <1>5, <3>1, <3>3, <3>5 DEF HeardInv, Key
    <3> QED
      BY <1>1, <1>6, <1>7, <3>3, <3>6 DEF Clean
  <2> QED
    BY <1>1, <2>7, <2>8, <2>9
<1> QED
  BY <1>9, <1>10

LEMMA QuietStart ==
  ASSUME Base, SemInv, Start, AllQuiet
  PROVE  Clean'
<1>1. /\ runner' = "time" /\ tester' = "join" /\ server' = server /\ backlog' = backlog
      /\ server.at = "accept" /\ backlog = <<>>
  BY DEF Start, Perform, AllQuiet, serverVars
<1>2. CalmInv' /\ ResetInv' /\ VerdictInv' /\ ~ Fresh'
  BY <1>1 DEF CalmInv, ResetInv, VerdictInv, Fresh, Busy
<1> QED
  BY <1>2 DEF Clean

\* All messages are there, and in order: all points.
LEMMA FullPraise ==
  ASSUME Base, SemInv, Clean, tester = "judge", ~ timedOut
  PROVE  errors = 0 /\ HierarchyScore(Infos) = Full
<1>1. runner = "done" /\ tester # "main" /\ test # 0 /\ setup \in Setups /\ test \in Nat
  BY NotYetBorn DEF Base, CoreType, MainOK
<1>2. Gone(<<test, 1>>)
  BY <1>1 DEF Base, MainOK
<1>3. HeardInv /\ NestedInv
  BY <1>1 DEF Clean, Fresh
<1>4. /\ \A p \in Procs : <<test, p>> \in Clients /\ Key(<<test, p>>) = <<p, 0>>
      /\ data.procs[1] = 0 /\ Procs = 1..data.nrProcs /\ data.nrProcs \in Nat
      /\ \A p \in Procs \ {1} : data.procs[p] \in Procs
  BY <1>1, ProcsAre, NotYetBorn DEF Key
<1>5. ASSUME NEW p \in Procs
      PROVE  /\ <<p, 0>> \in infos /\ timeEnd[<<p, 0>>] # 0
             /\ who[<<p, 0>>].ppid = Ppid(<<test, p>>) /\ who[<<p, 0>>].pid = <<test, p>>
             /\ Heard(<<test, p>>) = 2
  <2> DEFINE i == <<test, p>>
  <2>1. Gone(i) /\ said[i] = 2
    BY <1>1, <1>2, AllHaveGone
  <2>2. i \in Clients /\ i[1] = test /\ Key(i) = <<p, 0>>
    BY <1>4
  <2> HIDE DEF i
  <2>3. Whole(i) /\ Heard(i) = 2
    BY <1>1, <2>1, <2>2 DEF Whole, Heard, Pending
  <2>4. HeardOK(i)
    BY <1>3, <2>2, <2>3 DEF HeardInv
  <2>5. /\ Key(i) \in infos /\ timeEnd[Key(i)] # 0 /\ who[Key(i)].ppid = Ppid(i)
    BY <2>3, <2>4 DEF HeardOK
  <2>6. who[Key(i)].pid = i
    <3>1. PICK j \in Clients : j[1] = test /\ Key(i) = Key(j) /\ who[Key(i)].pid = j
      BY <1>3, <2>5 DEF HeardInv
    <3>2. j = i
      BY <2>2, <3>1, ClientsAre
    <3> QED
      BY <3>1, <3>2
  <2> QED
    BY <2>2, <2>3, <2>5, <2>6 DEF i
<1>6. \A k \in infos : k \in Keys /\ k[2] = 0 /\ k[1] \in Procs
  <2> SUFFICES ASSUME NEW k \in infos PROVE k \in Keys /\ k[2] = 0 /\ k[1] \in Procs
    OBVIOUS
  <2>1. PICK j \in Clients : j[2] \in Procs /\ k = Key(j)
    BY <1>3 DEF HeardInv
  <2> QED
    BY <2>1, ClientsAre DEF Key
<1>7. /\ DOMAIN Infos = infos
      /\ \A k \in infos : /\ Infos[k].timeEnd = timeEnd[k] /\ Infos[k].timeStart = timeStart[k]
                          /\ Infos[k].pid = who[k].pid /\ Infos[k].ppid = who[k].ppid
  BY DEF Infos
<1>8. AllMainsEnded(Infos)
  <2> DEFINE mains == {k \in DOMAIN Infos : k[2] = 0}
  <2>1. mains = infos
    BY <1>6, <1>7
  <2>2. {k[1] : k \in infos} = Procs
    <3>1. \A k \in infos : k[1] \in Procs
      BY <1>6
    <3>2. \A p \in Procs : <<p, 0>> \in infos /\ <<p, 0>>[1] = p
      BY <1>5
    <3> QED
      BY <3>1, <3>2
  <2>3. ASSUME NEW k \in infos PROVE Infos[k].timeEnd # 0
    <3>1. PICK j \in Clients : j[2] \in Procs /\ k = Key(j)
      BY <1>3 DEF HeardInv
    <3>2. k = <<j[2], 0>>
      BY <3>1 DEF Key
    <3>3. k \in infos /\ timeEnd[k] # 0
      BY <1>5, <3>1, <3>2
    <3> QED
      BY <1>7, <3>3
  <2> QED
    BY <1>4, <2>1, <2>2, <2>3 DEF AllMainsEnded
<1>9. ASSUME NEW p \in 2..data.nrProcs
      PROVE  LET parent == Infos[<<data.procs[p], 0>>]
             IN  Infos[<<p, 0>>].ppid = parent.pid /\ Encloses(parent, Infos[<<p, 0>>])
  <2>1. p \in Procs /\ p # 1 /\ p \in Procs \ {1}
    BY <1>4
  <2>2. data.procs[p] \in Procs
    BY <1>4, <2>1
  <2> DEFINE q == data.procs[p]
  <2>3. Infos[<<p, 0>>].ppid = Ppid(<<test, p>>) /\ Infos[<<q, 0>>].pid = <<test, q>>
    BY <1>5, <1>7, <2>1, <2>2
  <2>4. Ppid(<<test, p>>) = <<test, q>>
    <3>1. q # 0
      BY <1>4, <2>2
    <3> QED
      BY <3>1 DEF Ppid
  <2>5. <<test, p>> \in Kids(<<test, q>>)
    BY <1>4, <2>1, <2>2 DEF Kids
  <2>6. /\ timeStart[<<q, 0>>] <= timeStart[<<p, 0>>]
        /\ timeEnd[<<p, 0>>] <= timeEnd[<<q, 0>>]
    <3> DEFINE i == <<test, q>>
               l == <<test, p>>
    <3>1. /\ i \in Clients /\ i[1] = test /\ l \in Kids(i) /\ Key(i) = <<q, 0>>
          /\ Key(l) = <<p, 0>> /\ Heard(i) = 2 /\ Heard(l) = 2
      BY <1>4, <1>5, <2>1, <2>2, <2>5
    <3> HIDE DEF i, l, q
    <3> QED
      BY <1>3, <3>1 DEF NestedInv
  <2>7. /\ Infos[<<q, 0>>].timeStart = timeStart[<<q, 0>>]
        /\ Infos[<<p, 0>>].timeStart = timeStart[<<p, 0>>]
        /\ Infos[<<q, 0>>].timeEnd = timeEnd[<<q, 0>>]
        /\ Infos[<<p, 0>>].timeEnd = timeEnd[<<p, 0>>]
    BY <1>5, <1>7, <2>1, <2>2
  <2>8. /\ timeStart[<<q, 0>>] \in Nat /\ timeStart[<<p, 0>>] \in Nat
        /\ timeEnd[<<q, 0>>] \in Nat /\ timeEnd[<<p, 0>>] \in Nat
    BY <1>5, <1>6, <2>1, <2>2 DEF Base, CoreType, LogTypeOK
  <2>9. Encloses(Infos[<<q, 0>>], Infos[<<p, 0>>])
    BY <2>6, <2>7, <2>8 DEF Encloses
  <2> QED
    BY <2>3, <2>4, <2>9
<1>10. HierarchyScore(Infos) = Full
  BY <1>8, <1>9 DEF HierarchyScore
<1> QED
  BY <1>3, <1>10 DEF HeardInv

LEMMA MainKeepsClean ==
  ASSUME Base, SemInv, Clean, quiet, Main, ~ Stop, ~ Start
  PROVE  Clean'
<1>1. /\ UNCHANGED <<said, serverVars, test, runner>> /\ Procs' = Procs /\ data' = data
      /\ server' = server /\ who' = who /\ UNCHANGED logVars /\ backlog' = backlog
      /\ (\A j \in Clients : Kids(j)' = Kids(j))
      /\ (timedOut' = timedOut \/ timedOut') /\ (tester' = "judged" => Judge)
      /\ tester # "main"
  <2>1. /\ UNCHANGED <<said, serverVars, test, runner, setup, backlog>>
        /\ (timedOut' = timedOut \/ timedOut') /\ (tester' = "judged" => Judge)
        /\ tester # "main"
    BY DEF Main, Join, Expire, Kill, Rejoin, Judge, StopConnect, Perform, Base, CoreType
  <2> QED
    BY <2>1, KidsStay DEF serverVars
<1>2. \A j \in Clients : (Whole(j)' => Whole(j)) /\ Heard(j)' = Heard(j)
  BY MainKeepsBase
<1>3. CalmInv' /\ ResetInv'
  BY <1>1 DEF Clean, CalmInv, ResetInv, logVars
<1>4. VerdictInv'
  <2> SUFFICES ASSUME tester' = "judged", ~ timedOut' PROVE verdict' = Full
    BY DEF VerdictInv
  <2>1. Judge /\ tester = "judge" /\ ~ timedOut
    BY <1>1 DEF Judge, Perform
  <2> QED
    BY <2>1, FullPraise DEF Judge, NoErrors
<1>5. ASSUME Fresh' PROVE HeardInv' /\ (~ timedOut' => NestedInv')
  <2>1. Fresh /\ HeardInv /\ (~ timedOut => NestedInv)
    BY <1>1, <1>5 DEF Fresh, Clean
  <2>2. ASSUME NEW j \in Clients, j[1] = test, Whole(j)' PROVE HeardOK(j)'
    <3>1. HeardOK(j) /\ Heard(j)' = Heard(j) /\ Ppid(j)' = Ppid(j)
      BY <1>1, <1>2, <2>1, <2>2 DEF HeardInv, Ppid
    <3> QED
      BY <1>1, <3>1 DEF HeardOK, logVars, Key, Served
  <2>3. HeardInv'
    BY <1>1, <2>1, <2>2 DEF HeardInv, logVars, Key
  <2>4. ~ timedOut' => NestedInv'
    <3>1. \A j \in Clients : \A k \in Kids(j) : k \in Clients
      BY DEF Kids
    <3> QED
      BY <1>1, <1>2, <2>1, <3>1 DEF NestedInv, logVars, Key
  <2> QED
    BY <2>3, <2>4
<1> QED
  BY <1>3, <1>4, <1>5 DEF Clean
-----------------------------------------------------------------------------

\* Until the tester stops its server.
InfoInv ==
  /\ SemInv
  /\ \/ Over /\ runner = "done"
     \/ ~ Over /\ Base /\ Credit /\ (quiet => Clean)

LEMMA InfoInit == Init => InfoInv
<1> SUFFICES ASSUME Init PROVE InfoInv
  OBVIOUS
<1>1. /\ EmptyLog /\ setup \in Setups /\ test = 0 /\ tester = "main" /\ runner = "done"
      /\ timedOut = FALSE /\ shouldStop = FALSE
      /\ who = [k \in Keys |-> [pid |-> <<0, 0>>, ppid |-> <<0, 0>>, ender |-> <<0, 0>>]]
      /\ server = [at |-> "accept", client |-> <<0, 0>>, found |-> "error"]
      /\ backlog = <<>> /\ sent = {} /\ answered = {}
      /\ at = [i \in Clients |-> "unborn"] /\ said = [i \in Clients |-> 0]
      /\ orphans = {} /\ doomed = {}
  BY DEF Init
<1>2. \A i \in Clients : i[1] \in Nat /\ i[1] > 0
  <2>1. \A i \in Clients : i[1] \in 1..Tests
    BY ClientsAre
  <2> QED
    BY <2>1, ClientsAre
<1>3. CoreType
  <2>1. <<0, 0>> \in Pairs /\ Tests \in Nat
    BY ClientsAre
  <2>2. LogTypeOK
    BY <1>1, MessageLogAssumption DEF EmptyLog, LogTypeOK
  <2>3. backlog \in Seq(Clients)
    BY <1>1
  <2>4. said \in [Clients -> 0..2]
    BY <1>1
  <2>5. who \in [Keys -> [pid : Pairs, ppid : Pairs, ender : Pairs]]
    BY <1>1, <2>1
  <2>6. server \in [at : Busy \cup {"accept", "dead"}, client : Clients \cup {<<0, 0>>},
                    found : {"begin", "end", "error"}]
    BY <1>1
  <2>7. test \in 0..Tests
    <3>1. Tests >= 0 /\ test = 0
      BY <1>1, <2>1
    <3> QED
      BY <2>1, <3>1
  <2>8. timedOut \in BOOLEAN
    BY <1>1
  <2> QED
    BY <1>1, <2>2, <2>3, <2>4, <2>5, <2>6, <2>7, <2>8 DEF CoreType
<1>4. MainOK
  BY <1>1 DEF MainOK, Reset, Busy
<1>5. PlaceInv
  <2>1. \A i \in Clients : \A k \in Kids(i) : at[k] = "unborn"
    BY <1>1 DEF Kids
  <2> QED
    BY <1>1, <1>2, <2>1 DEF PlaceInv, PlaceOK, Early, Talking, Resting
<1>6. SocketInv
  BY <1>1 DEF SocketInv, SocketOK, Queued, Served, Busy
<1>7. Credit
  <2>1. \A i \in Clients : Heard(i) = 0
    BY <1>1 DEF Heard
  <2> QED
    BY <1>1, <2>1 DEF Credit, FoundInv, LogInv, PraiseInv
<1>8. Clean
  BY <1>1 DEF Clean, CalmInv, ResetInv, VerdictInv, Fresh, Busy, Reset
<1> QED
  BY <1>1, <1>3, <1>4, <1>5, <1>6, <1>7, <1>8, SemInit DEF InfoInv, Base, Over

LEMMA ProcessKeepsInfo ==
  ASSUME InfoInv, ~ Over, NEW i \in Clients, Process(i), SemInv'
  PROVE  InfoInv'
<1>1. UNCHANGED mainVars
  BY DEF Process
<1>2. CoreType' /\ MainOK' /\ PlaceInv' /\ SocketInv'
  BY ProcessKeepsType, ProcessKeepsPlaces, ProcessKeepsSockets DEF InfoInv, SocketInv
<1>3. Base'
  BY <1>2 DEF Base
<1>4. Credit'
  BY <1>3, ProcessKeepsCredit DEF InfoInv
<1>5. quiet' => Clean'
  BY <1>1, ProcessKeepsClean DEF InfoInv, mainVars
<1> QED
  BY <1>1, <1>3, <1>4, <1>5 DEF InfoInv, Over, mainVars

LEMMA ServerKeepsInfo ==
  ASSUME InfoInv, ~ Over, Server, SemInv'
  PROVE  InfoInv'
<1>1. UNCHANGED mainVars /\ test' = test /\ timedOut' = timedOut /\ at' = at
  BY DEF Server, mainVars, procVars
<1>2. \A j \in Clients : Whole(j)' => Whole(j)
  BY <1>1 DEF Whole
<1>3. CoreType' /\ MainOK' /\ PlaceInv' /\ SocketInv'
  BY <1>2, ServerKeepsType, ServerKeepsPlaces, ServerKeepsSockets DEF InfoInv, SocketInv
<1>4. Credit'
  BY ServerKeepsCredit DEF InfoInv
<1>5. quiet' => Clean'
  BY <1>1, ServerKeepsClean DEF InfoInv, Credit, mainVars
<1> QED
  BY <1>1, <1>3, <1>4, <1>5 DEF InfoInv, Base, Over, mainVars

LEMMA RunnerKeepsInfo ==
  ASSUME InfoInv, ~ Over, Runner, SemInv'
  PROVE  InfoInv'
<1>1. UNCHANGED mainVars
  BY DEF Runner, ResetTime, ResetInfos, ResetErrors, ResetDelays, SetDelays, Popen,
         WaitForP1, RunnerGoes
<1>2. Base' /\ Credit'
  BY RunnerKeepsBase, RunnerKeepsCredit DEF InfoInv
<1>3. quiet' => Clean'
  BY <1>1, RunnerKeepsClean DEF InfoInv, mainVars
<1> QED
  BY <1>1, <1>2, <1>3 DEF InfoInv, Over, mainVars

LEMMA MainKeepsInfo ==
  ASSUME InfoInv, ~ Over, Main, SemInv'
  PROVE  InfoInv'
<1>1. CASE Stop
  <2>1. tester' = "stop" /\ tester = "judged" /\ runner' = runner
    BY <1>1 DEF Stop
  <2>2. runner = "done"
    BY <2>1 DEF InfoInv, Base, MainOK
  <2> QED
    BY <2>1, <2>2 DEF InfoInv, Over
<1>2. CASE ~ Stop
  <2>1. Base' /\ Credit'
    BY <1>2, MainKeepsBase, MainKeepsCredit DEF InfoInv
  <2>2. quiet' => Clean'
    <3>1. CASE Start
      BY <3>1, QuietStart DEF Start, InfoInv
    <3>2. CASE ~ Start
      <4>1. quiet' = quiet
        BY <1>2, <3>2 DEF Main, Join, Expire, Kill, Rejoin, Judge, StopConnect
      <4> QED
        BY <1>2, <3>2, <4>1, MainKeepsClean DEF InfoInv
    <3> QED
      BY <3>1, <3>2
  <2>3. ~ Over'
    BY <2>1 DEF Base, CoreType, Over
  <2> QED
    BY <2>1, <2>2, <2>3 DEF InfoInv
<1> QED
  BY <1>1, <1>2

LEMMA InfoStep == InfoInv /\ [Next]_vars => InfoInv'
<1> SUFFICES ASSUME InfoInv, [Next]_vars PROVE InfoInv'
  OBVIOUS
<1>1. SemInv'
  BY SemStep DEF InfoInv
<1>2. CASE Over
  <2>1. tester \in {"stop", "exited"} /\ runner = "done"
    BY <1>2 DEF InfoInv, Over
  <2>2. tester' \in {"stop", "exited"} /\ runner' = "done"
    <3>1. CASE Main
      BY <2>1, <3>1 DEF Main, Start, Join, Expire, Kill, Rejoin, Judge, Stop, StopConnect, Perform
    <3>2. CASE Runner
      BY <2>1, <3>2 DEF Runner, ResetTime, ResetInfos, ResetErrors, ResetDelays, SetDelays,
                        Popen, WaitForP1, RunnerGoes
    <3>3. CASE Server \/ (\E i \in Clients : Process(i)) \/ UNCHANGED vars
      BY <2>1, <3>3 DEF Server, Process, vars, mainVars
    <3> QED
      BY <3>1, <3>2, <3>3 DEF Next
  <2> QED
    BY <1>1, <2>2 DEF InfoInv, Over
<1>3. CASE ~ Over /\ Next
  BY <1>1, <1>3, MainKeepsInfo, RunnerKeepsInfo, ServerKeepsInfo, ProcessKeepsInfo DEF Next
<1>4. CASE ~ Over /\ UNCHANGED vars
  <2>1. /\ UNCHANGED <<setup, test, tester, timedOut, quiet, verdict, runner, logVars, who,
                       server, shouldStop, backlog, sent, answered, name, at, said, orphans,
                       doomed>>
    BY <1>4 DEF vars, mainVars, serverVars, socketVars, procVars
  <2>2. /\ Procs' = Procs /\ data' = data /\ \A i \in Clients : Kids(i)' = Kids(i)
        /\ \A i \in Clients : Heard(i)' = Heard(i) /\ Ppid(i)' = Ppid(i)
        /\ \A i \in Clients : Whole(i)' <=> Whole(i)
    BY <2>1, KidsStay DEF Heard, Pending, Served, Whole, Ppid
  <2>3. CoreType' /\ MainOK'
    BY <1>4, <2>1 DEF InfoInv, Base, CoreType, MainOK, LogTypeOK, logVars
  <2>4. PlaceInv' /\ SocketInv'
    BY <1>4, <2>1, <2>2
       DEF InfoInv, Base, PlaceInv, PlaceOK, SocketInv, SocketOK, Whole, Queued, Served
  <2>5. Credit'
    BY <1>4, <2>1, <2>2
       DEF InfoInv, Credit, FoundInv, LogInv, PraiseInv, Key, Served, logVars
  <2>6. quiet => CalmInv' /\ ResetInv' /\ VerdictInv'
    BY <1>4, <2>1 DEF InfoInv, Clean, CalmInv, ResetInv, VerdictInv, logVars
  <2>7. quiet /\ Fresh => HeardInv'
    BY <1>4, <2>1, <2>2 DEF InfoInv, Clean, HeardInv, HeardOK, Key, Served, logVars
  <2>8. quiet /\ Fresh /\ ~ timedOut => NestedInv'
    <3>1. \A j \in Clients : \A k \in Kids(j) : k \in Clients
      BY DEF Kids
    <3> QED
      BY <1>4, <2>1, <2>2, <3>1 DEF InfoInv, Clean, NestedInv, Key, logVars
  <2>9. Over' = Over /\ Fresh' = Fresh
    BY <2>1 DEF Over, Fresh
  <2> QED
    BY <1>1, <1>4, <2>1, <2>3, <2>4, <2>5, <2>6, <2>7, <2>8, <2>9 DEF InfoInv, Base, Clean
<1> QED
  BY <1>2, <1>3, <1>4

\* The strengthening: what the server has heard of each process that was not killed,
\* and what of that is in its log.
THEOREM InfoInvariance == Spec => []InfoInv
  BY InfoInit, InfoStep, PTL DEF Spec

\* For any number of tests and processes and any tree: in a test that begins quietly
\* the message of a process that is past a call of info() is in the log, and nothing
\* that was not said in this test, also while some of its processes are being killed.
THEOREM RecordedOnReturnHolds == Spec => []RecordedOnReturn
<1>1. InfoInv => RecordedOnReturn
  <2> SUFFICES ASSUME InfoInv, quiet, runner = "wait", NEW i \in Clients
               PROVE  /\ i[1] = test /\ at[i] \in {"fork", "hold", "forking", "release", "end"}
                           => Key(i) \in infos /\ timeEnd[Key(i)] = 0
                      /\ i[1] = test /\ at[i] = "exit" => Key(i) \in infos /\ timeEnd[Key(i)] # 0
                      /\ Key(i) \in infos => who[Key(i)].pid[1] = test
    BY DEF RecordedOnReturn
  <2>1. Base /\ SemInv /\ Clean
    BY DEF InfoInv
  <2>2. Fresh /\ test \in Nat
    BY <2>1, NotYetBorn DEF Base, MainOK, Fresh
  <2>3. HeardInv /\ PlaceOK(i)
    BY <2>1, <2>2 DEF Clean, Base, PlaceInv
  <2>4. ASSUME i[1] = test, at[i] \in Resting \cup {"exit"}
        PROVE  HeardOK(i) /\ Heard(i) = IF at[i] = "exit" THEN 2 ELSE 1
    <3>1. Whole(i)
      BY <2>2, <2>4 DEF Whole, Resting
    <3>2. said[i] = IF at[i] = "exit" THEN 2 ELSE 1
      BY <2>3, <2>4 DEF PlaceOK, Resting
    <3>3. ~ Pending(i) /\ at[i] \notin {"unborn", "young"}
      BY <2>4 DEF Pending, Resting
    <3> QED
      BY <2>3, <2>4, <3>1, <3>2, <3>3 DEF HeardInv, Heard
  <2>5. Key(i) \in infos => who[Key(i)].pid[1] = test
    BY <2>3 DEF HeardInv
  <2> QED
    BY <2>4, <2>5 DEF HeardOK, Resting
<1> QED
  BY <1>1, InfoInvariance, PTL

\* For any number of tests and processes and any tree: a test that begins quietly and
\* is not cut off gets all points for its tree, whenever its processes fork and speak.
THEOREM QuietVerdictHolds == Spec => []QuietVerdict
<1>1. InfoInv => QuietVerdict
  BY DEF InfoInv, Over, Clean, VerdictInv, QuietVerdict
<1> QED
  BY <1>1, InfoInvariance, PTL

\* For any number of tests and processes and any tree, whatever processes of earlier
\* tests still say: all points are given for messages of this test alone.
THEOREM NoFalsePraiseHolds == Spec => []NoFalsePraise
<1>1. InfoInv => NoFalsePraise
  BY DEF InfoInv, Over, Credit, PraiseInv, NoFalsePraise
<1> QED
  BY <1>1, InfoInvariance, PTL
=============================================================================
