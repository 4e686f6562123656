----------------------------- MODULE CommandServer -----------------------------
(***************************************************************************)
(* a3.c and the A3 tester: for each test the tester makes a pipe, starts   *)
(* a3, opens the pipe a3 makes for the answers, goes through the requests  *)
(* of the test, compares answers and shared memory with what it expects,   *)
(* and says EXIT.  Both sides block in open() and in read().               *)
(*                                                                         *)
(* A test whose time is over is left to itself: its thread and its a3 go   *)
(* on.  A test that begins while something of an earlier one still runs    *)
(* shares the names of the pipes and of the memory with it; the model      *)
(* follows neither of them then, and leaves open how that test ends.       *)
(*                                                                         *)
(* A pipe is a sequence of strings <<"s", string>> and numbers             *)
(* <<"n", number>>; a string is written and read with its '$', and what a3 *)
(* writes for one answer is appended at once.  Of the shared memory and    *)
(* the file the model keeps which part of which was written last.          *)
(***************************************************************************)
EXTENDS Naturals, Sequences, FiniteSets

CONSTANTS
  Session,       \* the tests, in the order of loadTests()
  ShmSize, WriteOffset, WriteValue,   \* of a3_data.json
  Word,          \* how many numbers an unsigned int has, 2^32
  FileSize,      \* of the files under test_root
  Sections,      \* their sections: a sequence of records offset, size
  Writable,      \* the tests whose file a3 may open for writing
  Cuts           \* bound: how often the time limit strikes a test that goes on

Tests == {"ping", "shm1", "shm_write", "map_inexistent", "map1", "read_offset",
          "read_section", "read_logical"}

\* genSectionFile() makes files of at least four sections of 1000 to 9000 bytes; half
\* of one is the most that is asked for.  The memory of a3_data.json is larger.  Their
\* modes are random: the owner may write to about half of them, root to all.
ASSUME CommandServerAssumption ==
  /\ {ShmSize, WriteOffset, WriteValue, Word, FileSize} \subseteq Nat
  /\ ShmSize < Word /\ FileSize + 51 < Word /\ WriteOffset + 4 <= ShmSize
  /\ ShmSize >= 50 /\ FileSize >= 100
  /\ Session \in Seq(Tests) /\ Writable \subseteq DOMAIN Session /\ Cuts \in Nat
  /\ Sections \in Seq([offset : Nat, size : Nat]) /\ Len(Sections) >= 3
  /\ \A i \in DOMAIN Sections :
       /\ Sections[i].size >= 10 /\ Sections[i].size \div 2 <= ShmSize
       /\ Sections[i].offset + Sections[i].size <= FileSize

VARIABLES
  test, perform,         \* main() and perform(): the test, and where it is
  scores, ended,         \* the points of the tests so far, and how each ended
  strays,                \* something of earlier tests runs beside the test
  thread, points, score, \* run() of a test: where it is, `score` and self.score
  killed,                \* strace is
  script,                \* the steps of the test still to do
  picked, seen,          \* the sections read so far; the memory it has mapped
  cmdName, resName,      \* whether the names of the pipes exist
  cmdEnds, resEnds,      \* the processes that have a pipe open, or are in open()
  requests, answers,     \* what is in the pipes
  shmName,               \* what the name of the shared memory stands for
  memory, memorySize,    \* its content and size, by the test that made it
  server,                \* where a3 is
  command, numbers,      \* what it has read
  region, size, mapped,  \* shared_memory_region, _size, memory_mapped_file.at
  reply,                 \* SUCCESS or ERROR
  unread                 \* a number was used that was not read

mainVars == <<test, perform, scores, ended, strays>>
threadVars == <<thread, points, score, killed, script, picked, seen>>
pipeVars == <<cmdName, resName, cmdEnds, resEnds, requests, answers>>
memoryVars == <<shmName, memory, memorySize>>
serverVars == <<server, command, numbers, region, size, mapped, reply, unread>>
vars == <<mainVars, threadVars, pipeVars, memoryVars, serverVars>>

Str(s) == <<"s", s>>
Num(n) == <<"n", n>>
Nums(ns) == [i \in DOMAIN ns |-> Num(ns[i])]
Zero == [from |-> "zero"]
Left == 0                  \* an object or a pipe of an earlier session
None == Len(Session) + 1
-----------------------------------------------------------------------------
(* The tests, test_ping() to test_read_logical() *)

\* What the thread does at a step: write a request and read answers, remove the
\* name of the shared memory, look for it, compare its content, take points.
Ask(words, expected) ==
  <<[do |-> "ask", words |-> words]>>
    \o [i \in DOMAIN expected |-> [do |-> "read", token |-> expected[i]]]
Request(name, ns, result) == Ask(<<Str(name)>> \o Nums(ns), <<Str(name), Str(result)>>)
Remove == <<[do |-> "remove"]>>
Find == <<[do |-> "find"]>>
Points(n) == <<[do |-> "points", n |-> n]>>
Compare(content, n) == <<[do |-> "compare", content |-> content, n |-> n]>>

Written(offset, value) == [from |-> "request", offset |-> offset, value |-> value]
Copied(offset, n) == [from |-> "file", offset |-> offset, n |-> n]

CreateShm == Remove \o Request("CREATE_SHM", <<ShmSize>>, "SUCCESS") \o Find
MapFile(name, result) ==
  Ask(<<Str("MAP_FILE"), Str(name)>>, <<Str("MAP_FILE"), Str(result)>>)

TestPing ==
  Ask(<<Str("VARIANT")>>, <<Str("VARIANT"), Num(10), Str("VALUE")>>) \o Points(10)

TestShm1 == CreateShm \o Points(10)

TestShmWrite ==
  CreateShm \o Points(3)
    \o Request("WRITE_TO_SHM", <<WriteOffset, WriteValue>>, "SUCCESS")
    \o Compare(Written(WriteOffset, WriteValue), 5)
    \o Request("WRITE_TO_SHM", <<ShmSize - 2, 7>>, "ERROR") \o Points(2)

TestMapInexistent == MapFile("inexistent", "ERROR") \o Points(5)
TestMap1 == MapFile("file", "SUCCESS") \o Points(5)

TestReadOffset ==
  CreateShm \o Points(2) \o MapFile("file", "SUCCESS") \o Points(1)
    \o Request("READ_FROM_FILE_OFFSET", <<FileSize + 1, 50>>, "ERROR") \o Points(2)
    \o Request("READ_FROM_FILE_OFFSET", <<FileSize \div 2, 50>>, "SUCCESS")
    \o Points(1) \o Compare(Copied(FileSize \div 2, 50), 4)

\* Three different sections; offset and length are random.
TestReadSection ==
  CreateShm \o Points(1) \o MapFile("file", "SUCCESS") \o Points(1)
    \o Request("READ_FROM_FILE_SECTION", <<Len(Sections) + 2, 0, 100>>, "ERROR")
    \o Points(2)
    \o <<[do |-> "section"], [do |-> "section"], [do |-> "section"]>>

\* The parts of four sections, at addresses in which every section begins at a
\* multiple of `align`: one is enough here.
TestReadLogical ==
  CreateShm \o Points(1) \o MapFile("file", "SUCCESS") \o Points(1)
    \o Request("READ_FROM_LOGICAL_SPACE_OFFSET", <<Sections[1].size \div 2, 5>>,
               "SUCCESS")
    \o Compare(Copied(Sections[1].offset + (Sections[1].size \div 2), 5), 8)

Script(name) ==
  CASE name = "ping" -> TestPing
    [] name = "shm1" -> TestShm1
    [] name = "shm_write" -> TestShmWrite
    [] name = "map_inexistent" -> TestMapInexistent
    [] name = "map1" -> TestMap1
    [] name = "read_offset" -> TestReadOffset
    [] name = "read_section" -> TestReadSection
    [] name = "read_logical" -> TestReadLogical

MaxScore(name) == IF name \in {"map_inexistent", "map1"} THEN 5 ELSE 10

\* What a random request for a part of a section may be, its extremes.
Parts ==
  UNION {{[section |-> i, offset |-> o, n |-> n] :
            o \in {0, Sections[i].size \div 2}, n \in {5, Sections[i].size \div 2}} :
         i \in DOMAIN Sections}
PartScript(p) ==
  Request("READ_FROM_FILE_SECTION", <<p.section, p.offset, p.n>>, "SUCCESS")
    \o Compare(Copied(Sections[p.section].offset + p.offset, p.n), 2)
-----------------------------------------------------------------------------
(* a3.c *)

Serve(here, there) == server = here /\ server' = there

\* A slip: a read that returns nothing is tried again.
TryAgain == FALSE
\* There is no more to come: a read() returns 0.
EndOfFile == "tester" \notin cmdEnds

\* The end of a3 by exit() or SIGPIPE: its ends of the pipes are closed.
Perish ==
  /\ server' = "gone"
  /\ cmdEnds' = cmdEnds \ {"a3"} /\ resEnds' = resEnds \ {"a3"}
  /\ UNCHANGED <<cmdName, resName, requests, answers>>

\* write(): without a reader the process gets SIGPIPE.
Say(tokens, there) ==
  IF "tester" \in resEnds
  THEN /\ answers' = answers \o tokens /\ server' = there
       /\ UNCHANGED <<cmdName, resName, cmdEnds, resEnds, requests>>
  ELSE Perish

\* mkfifo() fails if a pipe of that name is left over.
SetupPipe ==
  /\ server = "mkfifo"
  /\ IF resName THEN Perish
     ELSE /\ Serve("mkfifo", "openCmd") /\ resName' = TRUE /\ answers' = <<>>
          /\ UNCHANGED <<cmdName, cmdEnds, resEnds, requests>>
  /\ UNCHANGED <<command, numbers, region, size, mapped, reply, unread, memoryVars>>

\* A slip: the other pipe is opened first.
ResponseFirst == <<"openRes", "openCmd">>
RequestFirst == <<"openCmd", "openRes">>

After(here) == IF here = RequestFirst[1] THEN RequestFirst[2] ELSE "connect"

\* open() goes on when the other side has come to its open().
OpenPipe ==
  /\ \/ /\ server = "openCmd" /\ cmdName
        /\ cmdEnds' = cmdEnds \cup {"a3"} /\ server' = "cmdOpening"
        /\ UNCHANGED resEnds
     \/ /\ server = "openRes" /\ resName
        /\ resEnds' = resEnds \cup {"a3"} /\ server' = "resOpening"
        /\ UNCHANGED cmdEnds
     \/ /\ server = "cmdOpening" /\ "tester" \in cmdEnds
        /\ server' = After("openCmd") /\ UNCHANGED <<cmdEnds, resEnds>>
     \/ /\ server = "resOpening" /\ "tester" \in resEnds
        /\ server' = After("openRes") /\ UNCHANGED <<cmdEnds, resEnds>>
  /\ UNCHANGED <<cmdName, resName, requests, answers, command, numbers, region,
                 size, mapped, reply, unread, memoryVars>>

Connect ==
  /\ server = "connect"
  /\ Say(<<Str("CONNECT")>>, "command")
  /\ UNCHANGED <<command, numbers, region, size, mapped, reply, unread, memoryVars>>

\* How many numbers are read after the echo; a name after MAP_FILE.
Arguments ==
  [c \in {"CREATE_SHM", "WRITE_TO_SHM", "MAP_FILE", "READ_FROM_FILE_OFFSET",
          "READ_FROM_FILE_SECTION"} |->
     CASE c \in {"CREATE_SHM", "MAP_FILE"} -> 1
       [] c = "READ_FROM_FILE_SECTION" -> 3
       [] OTHER -> 2]

\* read_string_from_pipe() up to the i-th token, a string, or a number of which
\* one byte is '$'; more than a string is no command.
ReadCommand ==
  /\ server = "command"
  /\ \E i \in DOMAIN requests :
       /\ \A j \in 1..i-1 : requests[j][1] # "s"
       /\ requests[i][1] # "rest"
       /\ command' = IF i = 1 /\ requests[1][1] = "s" THEN requests[1][2] ELSE "garbage"
       /\ \E rest \in {<<>>} \cup IF requests[i][1] = "n" THEN {<< <<"rest", 0>> >>} ELSE {} :
            requests' = rest \o SubSeq(requests, i + 1, Len(requests))
  /\ server' = IF command' = "EXIT" THEN "exit" ELSE "echo"
  /\ UNCHANGED <<cmdName, resName, cmdEnds, resEnds, answers, numbers, region,
                 size, mapped, reply, unread, memoryVars>>

\* At the end of file the string is not terminated: what was in `command` stays,
\* but for the characters read, be it the numbers of a request or a string whose
\* '$' was not written any more.
ReadNothing ==
  /\ server = "command" /\ EndOfFile
  /\ \A i \in DOMAIN requests : requests[i][1] # "s"
  /\ command' \in {"garbage"} \cup IF requests = <<>> THEN {command} ELSE {}
  /\ requests' = <<>>
  /\ server' = IF command' = "EXIT" THEN "exit" ELSE "echo"
  /\ UNCHANGED <<cmdName, resName, cmdEnds, resEnds, answers, numbers, region,
                 size, mapped, reply, unread, memoryVars>>

Echo ==
  /\ server = "echo"
  /\ Say(<<Str(command)>> \o
           (IF command = "VARIANT" THEN <<Num(10), Str("VALUE")>> ELSE <<>>),
         IF command \in DOMAIN Arguments THEN "arguments" ELSE "command")
  /\ UNCHANGED <<command, numbers, region, size, mapped, reply, unread, memoryVars>>

\* At the end of file a number is what the stack holds, a name what the buffer does:
\* a small number, the largest one, either name.  A small one is not 0 here.
Unread(n) ==
  [1..n -> IF command = "MAP_FILE" THEN {"file", "inexistent"} ELSE {1, Word - 1}]

ReadArguments ==
  LET n == Arguments[command]
  IN  /\ Serve("arguments", "act")
      /\ \/ /\ Len(requests) >= n
            /\ numbers' = [i \in 1..n |-> requests[i][2]]
            /\ UNCHANGED unread
         \/ /\ Len(requests) < n /\ EndOfFile
            /\ \E u \in Unread(n) :
                 numbers' = [i \in 1..n |-> IF i <= Len(requests) THEN requests[i][2]
                                            ELSE u[i]]
            /\ unread' = TRUE
      /\ requests' = SubSeq(requests, n + 1, Len(requests))
      /\ UNCHANGED <<cmdName, resName, cmdEnds, resEnds, answers, command, region,
                     size, mapped, reply, memoryVars>>

Sum(a, b) == (a + b) % Word   \* of unsigned ints

\* A slip: an offset inside the memory is enough.
WriteBegins(offset) == offset <= size
\* The only sum in 64 bits: sizeof is a size_t.
WriteFits(offset) == offset + 4 <= size

OffsetFits(offset, n) ==
  region # None /\ mapped /\ Sum(offset, n) <= FileSize /\ n <= size

SectionFits(i, offset, n) ==
  /\ region # None /\ mapped
  /\ i <= Len(Sections)
  /\ Sum(offset, n) <= Sections[i].size
  /\ Sum(Sections[i].offset, Sections[i].size) <= FileSize

\* A slip: the offset is taken for one in the file.
OffsetAlone(i, offset) == offset
PartBegin(i, offset) == Sum(Sections[i].offset, offset)

\* What WRITE_TO_SHM and the two requests to read do if they are in bounds.
Accepted ==
  CASE command = "WRITE_TO_SHM" -> WriteFits(numbers[1])
    [] command = "READ_FROM_FILE_OFFSET" -> OffsetFits(numbers[1], numbers[2])
    [] OTHER -> SectionFits(numbers[1], numbers[2], numbers[3])
Content ==
  CASE command = "WRITE_TO_SHM" -> Written(numbers[1], numbers[2])
    [] command = "READ_FROM_FILE_OFFSET" -> Copied(numbers[1], numbers[2])
    [] OTHER -> Copied(PartBegin(numbers[1], numbers[2]), numbers[3])

Result(ok) == reply' = (IF ok THEN "SUCCESS" ELSE "ERROR") /\ Serve("act", "reply")

Act ==
  /\ server = "act"
  /\ CASE command = "CREATE_SHM" ->
            LET object == IF shmName = None THEN test ELSE shmName
            IN  /\ shmName' = object
                /\ memorySize' = [memorySize EXCEPT ![object] = numbers[1]]
                /\ UNCHANGED <<memory, mapped>>
                /\ region' = IF numbers[1] = 0 THEN None ELSE object
                /\ size' = numbers[1]
                /\ Result(numbers[1] # 0)
       [] command = "MAP_FILE" ->
            /\ mapped' = (numbers[1] = "file" /\ test \in Writable)
            /\ Result(mapped')
            /\ UNCHANGED <<region, size, memoryVars>>
       [] OTHER ->
            /\ memory' = IF Accepted THEN [memory EXCEPT ![region] = Content]
                         ELSE memory
            /\ Result(Accepted)
            /\ UNCHANGED <<region, size, mapped, shmName, memorySize>>
  /\ UNCHANGED <<pipeVars, command, numbers, unread>>

Reply ==
  /\ server = "reply"
  /\ Say(<<Str(reply)>>, "command")
  /\ UNCHANGED <<command, numbers, region, size, mapped, reply, unread, memoryVars>>

\* A slip: the name stays.
KeepsName == shmName
NameAfterExit == IF size > 0 THEN None ELSE shmName

Exit ==
  /\ Serve("exit", "gone")
  /\ shmName' = NameAfterExit
  /\ region' = None /\ mapped' = FALSE
  /\ resName' = FALSE
  /\ cmdEnds' = cmdEnds \ {"a3"} /\ resEnds' = resEnds \ {"a3"}
  /\ UNCHANGED <<cmdName, requests, answers, memory, memorySize, command, numbers,
                 size, reply, unread>>

Server ==
  /\ SetupPipe \/ OpenPipe \/ Connect \/ ReadCommand \/ ReadNothing \/ Echo
     \/ ReadArguments \/ Act \/ Reply \/ Exit
  /\ UNCHANGED <<mainVars, threadVars>>
-----------------------------------------------------------------------------
(* The thread of a test: run() *)

Go(here, there) == thread = here /\ thread' = there
Quiet == UNCHANGED <<points, score, script, picked, seen>>
PipesKept == UNCHANGED <<requests, answers>>

\* What an earlier session left behind is removed, and the first pipe is made.
MakePipe ==
  /\ Go("start", "popen") /\ Quiet
  /\ cmdName' = TRUE /\ resName' = FALSE /\ requests' = <<>>
  /\ UNCHANGED <<killed, cmdEnds, resEnds, answers, serverVars, memoryVars>>

Popen ==
  /\ Go("popen", "openCmd") /\ Quiet /\ killed' = FALSE
  /\ server' = "mkfifo" /\ command' = "garbage" /\ numbers' = <<>>
  /\ region' = None /\ size' = 0 /\ mapped' = FALSE
  /\ UNCHANGED <<pipeVars, reply, unread, memoryVars>>

OpenCmd ==
  /\ \/ Go("openCmd", "cmdOpening") /\ cmdEnds' = cmdEnds \cup {"tester"}
     \/ Go("cmdOpening", "openRes") /\ "a3" \in cmdEnds /\ UNCHANGED cmdEnds
  /\ Quiet /\ PipesKept
  /\ UNCHANGED <<killed, cmdName, resName, resEnds, serverVars, memoryVars>>

\* A missing pipe is an exception, that is caught.
OpenRes ==
  /\ \/ /\ thread = "openRes"
        /\ thread' = IF resName THEN "resOpening" ELSE "connect"
        /\ resEnds' = IF resName THEN resEnds \cup {"tester"} ELSE resEnds
     \/ Go("resOpening", "connect") /\ "a3" \in resEnds /\ UNCHANGED resEnds
  /\ Quiet /\ PipesKept
  /\ UNCHANGED <<killed, cmdName, resName, cmdEnds, serverVars, memoryVars>>

\* readString() and readNumber(): the next token, or nothing at the end of file and
\* without a pipe.
Read(token) ==
  IF "tester" \in resEnds /\ answers # <<>>
  THEN token = Head(answers) /\ answers' = Tail(answers)
  ELSE {"a3", "tester"} \ resEnds # {} /\ token = Str("") /\ UNCHANGED answers

\* After another greeting than expected strace is killed; a3 goes on.
ReadConnect ==
  /\ thread = "connect"
  /\ \E token \in {Str("")} \cup {answers[i] : i \in DOMAIN answers} :
       /\ Read(token)
       /\ IF token = Str("CONNECT")
          THEN /\ thread' = "test" /\ script' = Script(Session[test])
               /\ score' = score + 1 /\ UNCHANGED killed
          ELSE thread' = "close" /\ killed' = TRUE /\ UNCHANGED <<script, score>>
  /\ UNCHANGED <<points, picked, seen, cmdName, resName, cmdEnds, resEnds, requests,
                 serverVars, memoryVars>>

\* One step of the script; an unexpected answer ends the test.
Doing(what) == thread = "test" /\ script # <<>> /\ Head(script).do = what
Proceed == script' = Tail(script) /\ UNCHANGED thread
ProceedIf(ok) == IF ok THEN Proceed ELSE thread' = "exit" /\ UNCHANGED script

\* The words of a request are written one by one.
AskStep ==
  /\ Doing("ask")
  /\ LET words == Head(script).words
     IN  /\ requests' = Append(requests, Head(words))
         /\ script' = (IF Len(words) = 1 THEN <<>>
                       ELSE <<[do |-> "ask", words |-> Tail(words)]>>) \o Tail(script)
  /\ UNCHANGED <<thread, points, score, killed, picked, seen, cmdName, resName, cmdEnds,
                 resEnds, answers, serverVars, memoryVars>>

ReadStep ==
  /\ Doing("read")
  /\ \E token \in {Str("")} \cup {answers[i] : i \in DOMAIN answers} :
       Read(token) /\ ProceedIf(token = Head(script).token)
  /\ UNCHANGED <<points, score, killed, picked, seen, cmdName, resName, cmdEnds, resEnds,
                 requests, serverVars, memoryVars>>

RemoveStep ==
  /\ Doing("remove") /\ Proceed
  /\ shmName' = None
  /\ UNCHANGED <<points, score, killed, picked, seen, pipeVars, serverVars, memory,
                 memorySize>>

FindStep ==
  /\ Doing("find") /\ ProceedIf(shmName # None)
  /\ seen' = shmName
  /\ UNCHANGED <<points, score, killed, picked, pipeVars, serverVars, memoryVars>>

PointsStep ==
  /\ \/ Doing("points") /\ points' = points + Head(script).n
     \/ /\ Doing("compare")
        /\ points' = points + IF memory[seen] = Head(script).content
                              THEN Head(script).n ELSE 0
  /\ Proceed
  /\ UNCHANGED <<score, killed, picked, seen, pipeVars, serverVars, memoryVars>>

SectionStep ==
  /\ Doing("section")
  /\ \E p \in Parts :
       /\ p.section \notin picked
       /\ picked' = picked \cup {p.section}
       /\ script' = PartScript(p) \o Tail(script)
  /\ UNCHANGED <<thread, points, score, killed, seen, pipeVars, serverVars, memoryVars>>

\* self.score is 1 since CONNECT, or the points of the test if they are more.
SayExit ==
  /\ thread = "exit" \/ (thread = "test" /\ script = <<>>)
  /\ thread' = "wait"
  /\ score' = (IF points > score THEN points ELSE score)
  /\ requests' = Append(requests, Str("EXIT"))
  /\ UNCHANGED <<points, killed, script, picked, seen, cmdName, resName, cmdEnds, resEnds,
                 answers, serverVars, memoryVars>>

\* self.p.wait(); self.p is strace, which ends with a3 or is killed.
WaitForA3 ==
  /\ server = "gone" \/ killed
  /\ Go("wait", "close") /\ Quiet
  /\ UNCHANGED <<killed, pipeVars, serverVars, memoryVars>>

Close ==
  /\ Go("close", "done") /\ Quiet
  /\ cmdEnds' = cmdEnds \ {"tester"} /\ resEnds' = resEnds \ {"tester"}
  /\ cmdName' = FALSE /\ resName' = FALSE
  /\ UNCHANGED <<killed, requests, answers, serverVars, memoryVars>>

Thread ==
  /\ perform # "exited"
  /\ MakePipe \/ Popen \/ OpenCmd \/ OpenRes \/ ReadConnect \/ AskStep \/ ReadStep
     \/ RemoveStep \/ FindStep \/ PointsStep \/ SectionStep \/ SayExit
     \/ WaitForA3 \/ Close
  /\ UNCHANGED mainVars
-----------------------------------------------------------------------------
(* main() and perform() *)

Alone == thread = "done" /\ server = "gone" /\ ~ strays

Start ==
  /\ perform = "main" /\ test < Len(Session) /\ Alone
  /\ perform' = "join"
  /\ test' = test + 1
  /\ thread' = "start" /\ points' = 0 /\ score' = 0
  /\ script' = <<>> /\ picked' = {} /\ seen' = None
  /\ UNCHANGED <<scores, ended, strays, killed, pipeVars, serverVars, memoryVars>>

Join ==
  /\ perform = "join" /\ thread = "done"
  /\ perform' = "main"
  /\ scores' = Append(scores, score) /\ ended' = Append(ended, "whole")
  /\ UNCHANGED <<test, strays, threadVars, pipeVars, serverVars, memoryVars>>

\* In open(), at an empty pipe or in wait(), without the other side.
TesterWaits ==
  \/ thread = "cmdOpening" /\ "a3" \notin cmdEnds
  \/ thread = "resOpening" /\ "a3" \notin resEnds
  \/ /\ thread = "connect" \/ Doing("read")
     /\ answers = <<>> /\ {"a3", "tester"} \subseteq resEnds
  \/ thread = "wait" /\ server # "gone" /\ ~ killed
A3Waits ==
  \/ server = "gone"
  \/ server = "openCmd" /\ ~ cmdName
  \/ server = "openRes" /\ ~ resName
  \/ server = "cmdOpening" /\ "tester" \notin cmdEnds
  \/ server = "resOpening" /\ "tester" \notin resEnds
  \/ /\ server = "command" /\ ~ EndOfFile
     /\ \A i \in DOMAIN requests : requests[i][1] = "rest"
  \/ /\ server = "arguments" /\ ~ EndOfFile /\ Len(requests) < Arguments[command]

Stuck == TesterWaits /\ A3Waits

\* The time limit strikes: strace is killed, if it was started.  Nobody waits for
\* the thread, and it goes on, as a3 does.
Expire ==
  /\ perform = "join" /\ thread # "done"
  /\ Stuck \/ Cardinality({i \in DOMAIN ended : ended[i] = "cut"}) < Cuts
  /\ perform' = "main"
  /\ scores' = Append(scores, 0)
  /\ ended' = Append(ended, IF Stuck THEN "stuck" ELSE "cut")
  /\ killed' = (killed \/ thread \notin {"start", "popen"})
  /\ UNCHANGED <<test, strays, thread, points, score, script, picked, seen, pipeVars,
                 serverVars, memoryVars>>

\* The next test begins while the thread of an earlier one, or its a3, still runs:
\* they may remove each other's pipes, or use them.
StartBeside ==
  /\ perform = "main" /\ test < Len(Session) /\ ~ Alone
  /\ perform' = "beside" /\ strays' = TRUE
  /\ test' = test + 1
  /\ thread' = "done" /\ script' = <<>> /\ server' = "gone"
  /\ cmdEnds' = {} /\ resEnds' = {} /\ requests' = <<>> /\ answers' = <<>>
  /\ region' = None /\ size' = 0 /\ numbers' = <<>> /\ picked' = {} /\ seen' = None
  /\ UNCHANGED <<scores, ended, points, score, killed, cmdName, resName, command,
                 mapped, reply, unread, memoryVars>>

\* Such a test may end with any score, left out here, and the tester with it: self.p
\* is None after a wrong greeting, and may become so between two looks at it.
EndBeside ==
  /\ perform = "beside"
  /\ perform' \in {"main", "exited"}
  /\ scores' = Append(scores, 0) /\ ended' = Append(ended, "beside")
  /\ UNCHANGED <<test, strays, threadVars, pipeVars, serverVars, memoryVars>>

\* All of them have come to their end, and left behind what they may.
StraysGone ==
  /\ perform = "main" /\ strays
  /\ strays' = FALSE
  /\ cmdName' \in BOOLEAN /\ resName' \in BOOLEAN /\ shmName' \in {None, Left}
  /\ UNCHANGED <<test, perform, scores, ended, threadVars, cmdEnds, resEnds, requests,
                 answers, serverVars, memory, memorySize>>

\* The tester ends, with its thread and what the thread has open.
Leave ==
  /\ perform = "main" /\ test = Len(Session)
  /\ perform' = "exited"
  /\ cmdEnds' = cmdEnds \ {"tester"} /\ resEnds' = resEnds \ {"tester"}
  /\ UNCHANGED <<test, scores, ended, strays, threadVars, cmdName, resName, requests,
                 answers, serverVars, memoryVars>>

Main == Start \/ Join \/ Expire \/ StartBeside \/ EndBeside \/ StraysGone \/ Leave

\* An earlier session may have left its pipes and its shared memory behind.
Init ==
  /\ test = 0 /\ perform = "main" /\ scores = <<>> /\ ended = <<>> /\ strays = FALSE
  /\ thread = "done" /\ points = 0 /\ score = 0 /\ killed = FALSE
  /\ script = <<>> /\ picked = {} /\ seen = None
  /\ cmdName \in BOOLEAN /\ resName \in BOOLEAN
  /\ cmdEnds = {} /\ resEnds = {} /\ requests = <<>> /\ answers = <<>>
  /\ server = "gone" /\ command = "garbage" /\ numbers = <<>> /\ unread = FALSE
  /\ region = None /\ size = 0 /\ mapped = FALSE /\ reply = "ERROR"
  /\ shmName \in {None, Left}
  /\ memory = [o \in 0..Len(Session) |-> Zero]
  /\ memorySize = [o \in 0..Len(Session) |-> IF o = Left THEN 4 ELSE 0]

Next == Main \/ Thread \/ Server

Spec == Init /\ [][Next]_vars

\* Both programs go on when they can, and main() notices that the thread has ended.
\* The time limit need not strike.
FairSpec == Spec /\ WF_vars(Join) /\ WF_vars(Thread) /\ WF_vars(Server)
-----------------------------------------------------------------------------
\* What a3 can answer: it has no handler for read_logical, and opens a file for
\* writing although it only reads it.
Answerable(t) ==
  /\ Session[t] # "read_logical"
  /\ Session[t] \in {"map1", "read_offset", "read_section"} => t \in Writable

\* Every test that a3 can answer, that begins alone and is not cut off, gets all its
\* points: what one side writes is what the other one reads, in step, through two
\* pipes that both have to open, whatever earlier tests and sessions left behind, the
\* memory the tester looks at has been filled by the time it reads the answer, and
\* the two never wait for each other until the time limit.
FullScores ==
  \A i \in DOMAIN scores :
    ended[i] \in {"whole", "stuck"} /\ Answerable(i) => scores[i] = MaxScore(Session[i])

\* No request of the tester makes a3 touch what is outside the shared memory or
\* the file, although its sums are those of 32-bit numbers and READ_FROM_FILE_SECTION
\* does not look at the size of the memory; but for a request that the end of the
\* tester cut short, with numbers that were never read.
MemorySafe ==
  unread \/
  \A o \in DOMAIN memory :
    /\ memory[o].from = "request" => memory[o].offset + 4 <= memorySize[o]
    /\ memory[o].from = "file" => /\ memory[o].n <= memorySize[o]
                                  /\ memory[o].offset + memory[o].n <= FileSize

\* After a test that began alone and came to its end, once connected, nothing of it
\* is left: no pipe, no process, no memory, so that the next one begins alone too.
NothingLeft ==
  perform = "main" /\ (\E i \in DOMAIN scores : /\ i = test /\ scores[i] > 0
                                               /\ ended[i] = "whole") =>
    /\ thread = "done" /\ server = "gone" /\ ~ cmdName /\ ~ resName
    /\ shmName # test

\* A test that a3 can answer and that begins alone comes to its end without the help
\* of the time limit.
TestsEnd == (perform = "join" /\ Answerable(test)) ~> perform # "join"

\* Once connected, a3 comes to its end after the tester has closed the pipes or has
\* died, wherever in a request that happens: at the end of file it takes what it
\* finds for a command or a number, and its next answer kills it.
A3Connected ==
  server \in {"connect", "command", "echo", "arguments", "act", "reply", "exit"}
A3Ends == (A3Connected /\ "tester" \notin cmdEnds) ~> server = "gone"

\* "so that my claim of receiving 100/100 points on all submissions can actually
\* be verified" (README.md of the repository): a session in which the time limit
\* strikes nobody who can go on ends with all points.
FullGrade ==
  perform = "exited" /\ (\A i \in DOMAIN ended : ended[i] \in {"whole", "stuck"}) =>
    \A i \in DOMAIN scores : scores[i] = MaxScore(Session[i])
=============================================================================
