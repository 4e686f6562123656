-------------------------- MODULE CommandServerProofs --------------------------
(***************************************************************************)
(* Proofs about CommandServer: for any session, memory and file, and       *)
(* however often the time limit strikes, a3 stays within the memory and    *)
(* the file, and a test that begins alone and is not cut off leaves        *)
(* nothing behind and gets all its points.                                 *)
(*                                                                         *)
(* Inv is the inductive invariant of the first two.  For the points,       *)
(* InStep follows requests and answers through the scripts: first come     *)
(* lemmas about the scripts, which are constant (Plans), then those about  *)
(* the steps of a3 and of the tester's thread.                             *)
(***************************************************************************)
EXTENDS CommandServer, SequenceTheorems, TLAPS

(* Requests are sent whole *)

Words == {"CREATE_SHM", "WRITE_TO_SHM", "MAP_FILE", "READ_FROM_FILE_OFFSET",
          "READ_FROM_FILE_SECTION", "READ_FROM_LOGICAL_SPACE_OFFSET", "VARIANT", "VALUE",
          "EXIT", "SUCCESS", "ERROR", "file", "inexistent"}

Tokens == ({"s"} \X Words) \cup ({"n"} \X Nat) \cup {<<"rest", 0>>}

\* What the tester sends with a command, and a3 relies on.
GoodArgs(c, a) ==
  CASE c = "CREATE_SHM" -> a[1] = ShmSize
    [] c = "WRITE_TO_SHM" -> a[1] \in Nat /\ a[2] \in Nat
    [] c = "READ_FROM_FILE_OFFSET" -> a[1] \in Nat /\ a[2] \in Nat /\ a[1] + a[2] < Word
    [] c = "READ_FROM_FILE_SECTION" ->
         /\ a[1] \in Nat \ {0} /\ a[2] \in Nat /\ a[3] \in Nat
         /\ a[1] <= Len(Sections) => a[2] + a[3] < Word /\ a[3] <= ShmSize
    [] OTHER -> TRUE

\* The arguments of c follow the first i tokens of w.
ArgsAfter(c, w, i) ==
  /\ i + Arguments[c] <= Len(w)
  /\ GoodArgs(c, [j \in 1..Arguments[c] |-> w[i + j][2]])

\* Every command in w has its arguments.
Whole(w) ==
  \A i \in 1..Len(w) :
    w[i][1] = "s" /\ w[i][2] \in DOMAIN Arguments => ArgsAfter(w[i][2], w, i)

WholeRequests == {w \in Seq(Tokens) : Whole(w)}

Contents ==
  {Zero} \cup [from : {"request"}, offset : Nat, value : Nat]
         \cup [from : {"file"}, offset : Nat, n : Nat]

Steps ==
  [do : {"ask"}, words : WholeRequests \ {<< >>}] \cup [do : {"read"}, token : Tokens]
    \cup [do : {"remove", "find", "section"}] \cup [do : {"points"}, n : Nat]
    \cup [do : {"compare"}, content : Contents, n : Nat]
-----------------------------------------------------------------------------
(* The inductive invariant *)

Making == {"start", "popen", "openCmd"}
Opening == Making \cup {"cmdOpening", "openRes"}
Greeting == Opening \cup {"resOpening", "connect"}
Testing == {"test", "exit", "wait"}
ThreadPlaces == Greeting \cup Testing \cup {"close", "done"}

Busy == {"echo", "arguments", "act", "reply", "exit"}
Connected == {"connect", "command"} \cup Busy
ServerPlaces == {"gone", "mkfifo", "openCmd", "cmdOpening", "openRes", "resOpening"}
                  \cup Connected

\* main() waits for the test, or the test came to its end.
Own ==
  perform = "join" \/ (perform = "main" /\ test > 0 /\ ended[test] = "whole")

TypeOK ==
  /\ test \in 0..Len(Session) /\ perform \in {"main", "join", "beside", "exited"}
  /\ scores \in Seq(Nat) /\ ended \in Seq({"whole", "stuck", "cut", "beside"})
  /\ Len(scores) = IF perform \in {"join", "beside"} THEN test - 1 ELSE test
  /\ Len(ended) = Len(scores)
  /\ strays \in BOOLEAN /\ killed \in BOOLEAN /\ unread \in BOOLEAN
  /\ thread \in ThreadPlaces /\ points \in Nat /\ score \in Nat /\ script \in Seq(Steps)
  /\ cmdName \in BOOLEAN /\ resName \in BOOLEAN
  /\ cmdEnds \subseteq {"a3", "tester"} /\ resEnds \subseteq {"a3", "tester"}
  /\ requests \in Seq(Tokens)
  /\ shmName \in 0..test \cup {None}
  /\ server \in ServerPlaces /\ region \in 0..None
  /\ ~ unread => /\ size \in Nat
                 /\ memory \in [0..Len(Session) -> Contents]
                 /\ memorySize \in [0..Len(Session) -> Nat]

\* Where the thread of the tester is, by where main() is; a3 is not left alone but after
\* a wrong greeting.
MainOK ==
  /\ perform \in {"join", "beside"} => test >= 1
  /\ thread # "done" => test >= 1
  /\ thread \in Greeting => score = 0
  /\ perform = "join" /\ thread \in (Greeting \ {"start", "popen"}) \cup Testing => ~ killed
  /\ perform = "main" /\ Own => thread = "done" /\ scores[test] = score
  /\ strays => ~ Own /\ thread = "done" /\ server = "gone"
  /\ Own /\ thread \in {"close", "done"} => IF killed THEN score = 0 ELSE server = "gone"
  /\ unread => perform = "exited"

\* The two programs open the pipes together.
PipesOK ==
  /\ thread \in {"start", "popen"} => server = "gone"
  /\ server \in Connected \cup {"openRes", "resOpening"} => thread \notin Making
  /\ server \in Connected => thread \notin Opening
  /\ "a3" \in cmdEnds => server \notin {"gone", "mkfifo"}
  /\ "tester" \in cmdEnds => thread \notin Making \cup {"done"}
  /\ "tester" \in resEnds => thread \notin Opening \cup {"done"}
  /\ "tester" \in resEnds => "tester" \in cmdEnds
  /\ perform # "exited" =>
       /\ thread \in {"cmdOpening", "openRes", "resOpening", "connect", "close"} \cup Testing
            => "tester" \in cmdEnds
       /\ thread \in {"resOpening", "connect", "close"} \cup Testing => "tester" \in resEnds
       /\ thread \in {"openCmd", "cmdOpening"} /\ server \notin {"gone", "mkfifo"} => resName
       /\ thread = "openRes" => resName
       /\ thread \in Greeting \ {"start"} => requests = <<>>
       /\ thread \in Greeting => server \notin Busy

\* What the thread has still to write of a request, and with it what a3 will read.
Unwritten == IF Doing("ask") THEN Head(script).words ELSE << >>
Coming == requests \o Unwritten

\* What a3 reads as the arguments of a command was sent as such, or will be: at the end of
\* file, where it takes the last command for a new one, the tester does not read any more.
RequestsOK ==
  /\ Whole(Coming)
  /\ server = "echo" /\ "tester" \in resEnds /\ command \in DOMAIN Arguments
       => ArgsAfter(command, Coming, 0)
  /\ server = "arguments" => command \in DOMAIN Arguments /\ ArgsAfter(command, Coming, 0)
  /\ server = "act" => command \in DOMAIN Arguments
  /\ server = "act" /\ ~ unread => GoodArgs(command, numbers)

\* a3 knows the size of the memory it has.
MemoryOK ==
  ~ unread =>
    /\ region # None => size = ShmSize /\ memorySize[region] = ShmSize
    /\ \A o \in 0..Len(Session) : memory[o] # Zero => memorySize[o] = ShmSize
    /\ MemorySafe

\* The memory of a test is there while a3 serves it, no longer.
LeftOK ==
  Own /\ ~ (thread \in {"close", "done"} /\ killed) =>
    /\ shmName = test =>
         server \in {"command"} \cup Busy /\ size > 0 /\ thread \in Testing
    /\ thread = "done" => ~ cmdName /\ ~ resName

Inv == TypeOK /\ MainOK /\ PipesOK /\ RequestsOK /\ MemoryOK /\ LeftOK
LEMMA ConstantsAre ==
  /\ ShmSize \in Nat \ {0} /\ WriteOffset \in Nat /\ WriteValue \in Nat
  /\ FileSize \in Nat /\ Word \in Nat \ {0}
  /\ ShmSize < Word /\ FileSize + 51 < Word /\ WriteOffset + 4 <= ShmSize
  /\ Len(Session) \in Nat /\ \A t \in 1..Len(Session) : Session[t] \in Tests
  /\ Len(Sections) \in Nat /\ Len(Sections) >= 3 /\ DOMAIN Sections = 1..Len(Sections)
  /\ \A i \in 1..Len(Sections) :
       /\ Sections[i].size \in Nat /\ Sections[i].offset \in Nat
       /\ Sections[i].size >= 10 /\ Sections[i].size \div 2 <= ShmSize
       /\ Sections[i].offset + Sections[i].size <= FileSize
<1>1. /\ ShmSize \in Nat /\ WriteOffset \in Nat /\ WriteValue \in Nat
      /\ FileSize \in Nat /\ Word \in Nat
  BY CommandServerAssumption
<1>2. ShmSize < Word /\ FileSize + 51 < Word /\ WriteOffset + 4 <= ShmSize
  BY CommandServerAssumption
<1>3. Len(Session) \in Nat /\ \A t \in 1..Len(Session) : Session[t] \in Tests
  <2>1. Session \in Seq(Tests)
    BY CommandServerAssumption
  <2> QED
    BY ONLY <2>1, LenProperties, ElementOfSeq
<1>4. /\ Sections \in Seq([offset : Nat, size : Nat])
      /\ Len(Sections) >= 3
      /\ \A i \in DOMAIN Sections :
           /\ Sections[i].size >= 10 /\ Sections[i].size \div 2 <= ShmSize
           /\ Sections[i].offset + Sections[i].size <= FileSize
  BY CommandServerAssumption
<1>5. Len(Sections) \in Nat /\ DOMAIN Sections = 1..Len(Sections)
  BY <1>4, LenProperties
<1>6. \A i \in 1..Len(Sections) : Sections[i] \in [offset : Nat, size : Nat]
  BY <1>4, ElementOfSeq
<1>7. \A i \in 1..Len(Sections) : Sections[i].size \in Nat /\ Sections[i].offset \in Nat
  BY <1>6
<1>8. \A i \in 1..Len(Sections) :
        /\ Sections[i].size \in Nat /\ Sections[i].offset \in Nat
        /\ Sections[i].size >= 10 /\ Sections[i].size \div 2 <= ShmSize
        /\ Sections[i].offset + Sections[i].size <= FileSize
  BY <1>4, <1>5, <1>7
<1>9. ShmSize \in Nat \ {0} /\ Word \in Nat \ {0}
  BY <1>1, <1>2
<1> QED
  BY <1>1, <1>2, <1>3, <1>4, <1>5, <1>8, <1>9
-----------------------------------------------------------------------------
(* The opening of the pipes *)

USE DEF Making, Opening, Greeting, Testing, Busy, Connected

LEMMA ServerKeepsPipes ==
  ASSUME Inv, Server PROVE MainOK' /\ PipesOK'
<1> USE DEF Inv, TypeOK, MainOK, PipesOK
<1>1. UNCHANGED <<test, perform, scores, strays, thread, killed, score>> /\ (Own' <=> Own)
  BY DEF Server, mainVars, threadVars, Own
<1>2. CASE SetupPipe
  BY <1>1, <1>2 DEF SetupPipe, Perish, Serve
<1>3. CASE OpenPipe
  BY <1>1, <1>3 DEF OpenPipe, After, RequestFirst
<1>4. CASE Connect
  BY <1>1, <1>4 DEF Connect, Say, Perish
<1>5. CASE ReadCommand
  BY <1>1, <1>5, SMTT(30) DEF ReadCommand
<1>6. CASE ReadNothing
  <2>1. /\ server = "command" /\ server' \in {"exit", "echo"} /\ requests' = <<>>
        /\ "tester" \notin cmdEnds
        /\ UNCHANGED <<cmdName, resName, cmdEnds, resEnds, unread>>
    BY <1>6 DEF ReadNothing, EndOfFile
  <2>2. thread \notin Greeting \/ perform = "exited"
    BY <2>1
  <2> QED
    BY <1>1, <2>1, <2>2
<1>7. CASE Echo
  BY <1>1, <1>7 DEF Echo, Say, Perish
<1>8. CASE ReadArguments
  <2>1. /\ server = "arguments" /\ server' = "act"
        /\ requests' = SubSeq(requests, Arguments[command] + 1, Len(requests))
        /\ UNCHANGED <<cmdName, resName, cmdEnds, resEnds>>
        /\ unread' = unread \/ (Len(requests) < Arguments[command] /\ EndOfFile)
    BY <1>8 DEF ReadArguments, Serve
  <2>2. thread \notin Greeting \/ perform = "exited"
    BY <2>1
  <2>3. Len(requests) < Arguments[command] /\ EndOfFile => perform = "exited"
    <3>1. ASSUME Len(requests) < Arguments[command] PROVE thread = "test"
      <4>1. Arguments[command] <= Len(Coming)
        <5>1. command \in DOMAIN Arguments /\ ArgsAfter(command, Coming, 0)
          BY <2>1 DEF RequestsOK
        <5>2. Arguments[command] \in 1..3
          BY <5>1 DEF Arguments
        <5>3. 0 + Arguments[command] <= Len(Coming)
          BY <5>1 DEF ArgsAfter
        <5> QED
          BY <5>2, <5>3
      <4>2. ASSUME ~ Doing("ask") PROVE Len(Coming) = Len(requests)
        BY <4>2 DEF Coming, Unwritten
      <4>3. Arguments[command] \in Nat /\ Len(requests) \in Nat
        BY <2>1, LenProperties DEF RequestsOK, Arguments
      <4> QED
        BY <3>1, <4>1, <4>2, <4>3 DEF Doing
    <3> QED
      BY <3>1 DEF EndOfFile
  <2> QED
    BY <1>1, <2>1, <2>2, <2>3
<1>9. CASE Act
  BY <1>1, <1>9 DEF Act, Result, Serve, pipeVars
<1>10. CASE Reply
  BY <1>1, <1>10 DEF Reply, Say, Perish
<1>11. CASE Exit
  BY <1>1, <1>11 DEF Exit, Serve
<1> QED
  BY <1>2, <1>3, <1>4, <1>5, <1>6, <1>7, <1>8, <1>9, <1>10, <1>11 DEF Server

LEMMA ThreadKeepsPipes ==
  ASSUME Inv, Thread PROVE MainOK' /\ PipesOK'
<1> USE DEF Inv, TypeOK, MainOK, PipesOK, Go, Quiet, PipesKept
<1>1. UNCHANGED <<test, perform, scores, strays>> /\ (Own' <=> Own) /\ perform # "exited"
  BY DEF Thread, mainVars, Own
<1>2. CASE MakePipe
  BY <1>1, <1>2 DEF MakePipe, serverVars
<1>3. CASE Popen
  BY <1>1, <1>3 DEF Popen, pipeVars
<1>4. CASE OpenCmd
  BY <1>1, <1>4 DEF OpenCmd, serverVars
<1>5. CASE OpenRes
  BY <1>1, <1>5 DEF OpenRes, serverVars
<1>6. CASE ReadConnect
  <2>1. /\ thread = "connect" /\ perform # "exited"
        /\ \/ thread' = "test" /\ score' = score + 1 /\ UNCHANGED killed
           \/ thread' = "close" /\ killed' = TRUE /\ UNCHANGED score
        /\ UNCHANGED <<server, cmdName, resName, cmdEnds, resEnds, requests, unread>>
    BY <1>1, <1>6 DEF ReadConnect, serverVars
  <2>2. strays = FALSE
    BY <2>1
  <2> QED
    BY <1>1, <2>1, <2>2 DEF Own
<1>7. CASE AskStep
  BY <1>1, <1>7 DEF AskStep, Doing, Proceed, serverVars
<1>8. CASE ReadStep
  BY <1>1, <1>8 DEF ReadStep, Doing, Proceed, ProceedIf, serverVars
<1>9. CASE RemoveStep
  BY <1>1, <1>9 DEF RemoveStep, Doing, Proceed, serverVars, pipeVars
<1>10. CASE FindStep
  BY <1>1, <1>10 DEF FindStep, Doing, Proceed, ProceedIf, serverVars, pipeVars
<1>11. CASE PointsStep
  BY <1>1, <1>11 DEF PointsStep, Doing, Proceed, serverVars, pipeVars
<1>12. CASE SectionStep
  BY <1>1, <1>12 DEF SectionStep, Doing, serverVars, pipeVars
<1>13. CASE SayExit
  BY <1>1, <1>13 DEF SayExit, serverVars
<1>14. CASE WaitForA3
  <2>1. /\ thread = "wait" /\ thread' = "close" /\ (server = "gone" \/ killed)
        /\ UNCHANGED <<score, killed, server, cmdName, resName, cmdEnds, resEnds, requests,
                       unread>>
    BY <1>14 DEF WaitForA3, serverVars, pipeVars
  <2>2. ~ strays /\ (Own => ~ killed)
    BY <1>1, <2>1 DEF Own
  <2> QED
    BY <1>1, <2>1, <2>2
<1>15. CASE Close
  BY <1>1, <1>15 DEF Close, serverVars
<1> QED
  BY <1>2, <1>3, <1>4, <1>5, <1>6, <1>7, <1>8, <1>9, <1>10, <1>11, <1>12, <1>13,
     <1>14, <1>15 DEF Thread

\* A test ends with its points at the end of the list.
LEMMA ScoreAdded ==
  ASSUME Inv, perform \in {"join", "beside"}, NEW n, NEW e,
         scores' = Append(scores, n), ended' = Append(ended, e)
  PROVE  /\ test \in 1..Len(Session) /\ test = Len(scores) + 1
         /\ Len(scores') = test /\ Len(ended') = test
         /\ scores'[test] = n /\ ended'[test] = e
         /\ \A i \in 1..test-1 : scores'[i] = scores[i] /\ ended'[i] = ended[i]
<1>1. /\ test \in 1..Len(Session) /\ Len(scores) = test - 1 /\ Len(ended) = test - 1
      /\ scores \in Seq(Nat) /\ ended \in Seq({"whole", "stuck", "cut", "beside"})
  BY ConstantsAre DEF Inv, TypeOK, MainOK
<1>2. test \in Nat /\ test >= 1
  BY <1>1
<1> QED
  BY <1>1, <1>2

LEMMA MainKeepsPipes ==
  ASSUME Inv, Main PROVE MainOK' /\ PipesOK'
<1> USE DEF Inv, TypeOK, MainOK, PipesOK
<1>1. CASE Start
  BY <1>1 DEF Start, Alone, Own, pipeVars, serverVars
<1>2. CASE Join
  <2>1. /\ perform = "join" /\ perform' = "main" /\ thread = "done"
        /\ UNCHANGED <<test, strays, threadVars, pipeVars, serverVars>>
        /\ scores'[test] = score /\ ended'[test] = "whole"
    BY <1>2, ScoreAdded DEF Join
  <2> QED
    BY <2>1 DEF Own, threadVars, pipeVars, serverVars
<1>3. CASE Expire
  <2>1. /\ perform = "join" /\ perform' = "main" /\ ended'[test] # "whole"
        /\ UNCHANGED <<test, strays, thread, score, pipeVars, serverVars>>
    BY <1>3, ScoreAdded DEF Expire
  <2>2. ~ Own'
    BY <2>1 DEF Own
  <2> QED
    BY <2>1, <2>2 DEF pipeVars, serverVars
<1>4. CASE StartBeside
  BY <1>4 DEF StartBeside, Own
<1>5. CASE EndBeside
  <2>1. /\ perform = "beside" /\ perform' \in {"main", "exited"} /\ ended'[test] = "beside"
        /\ UNCHANGED <<test, strays, threadVars, pipeVars, serverVars>>
    BY <1>5, ScoreAdded DEF EndBeside
  <2>2. ~ Own'
    BY <2>1 DEF Own
  <2> QED
    BY <2>1, <2>2 DEF threadVars, pipeVars, serverVars
<1>6. CASE StraysGone
  BY <1>6 DEF StraysGone, Own, threadVars, serverVars
<1>7. CASE Leave
  BY <1>7 DEF Leave, Own, threadVars, serverVars
<1> QED
  BY <1>1, <1>2, <1>3, <1>4, <1>5, <1>6, <1>7 DEF Main
-----------------------------------------------------------------------------
(* What is left of a test *)

LEMMA ServerLeavesNothing ==
  ASSUME Inv, Server PROVE LeftOK'
<1> USE DEF Inv, TypeOK, MainOK, PipesOK, LeftOK
<1>1. UNCHANGED <<test, perform, scores, strays, thread, killed, score>> /\ (Own' <=> Own)
  BY DEF Server, mainVars, threadVars, Own
<1>2. CASE SetupPipe
  BY <1>1, <1>2 DEF SetupPipe, Perish, Serve, memoryVars
<1>3. CASE OpenPipe
  BY <1>1, <1>3 DEF OpenPipe, After, RequestFirst, memoryVars
<1>4. CASE Connect
  BY <1>1, <1>4 DEF Connect, Say, Perish, memoryVars
<1>5. CASE ReadCommand
  BY <1>1, <1>5 DEF ReadCommand, memoryVars
<1>6. CASE ReadNothing
  BY <1>1, <1>6 DEF ReadNothing, memoryVars
<1>7. CASE Echo
  <2>1. LeftOK' \/ "tester" \in resEnds
    BY <1>1, <1>7 DEF Echo, Say, Perish, memoryVars, Own
  <2>2. "tester" \in resEnds =>
          /\ server' \in {"arguments", "command"} /\ server = "echo"
          /\ UNCHANGED <<cmdName, resName, shmName, size>>
    BY <1>7 DEF Echo, Say, memoryVars
  <2> QED
    BY <1>1, <2>1, <2>2
<1>8. CASE ReadArguments
  BY <1>1, <1>8 DEF ReadArguments, Serve, memoryVars
<1>9. CASE Act
  <2> SUFFICES ASSUME Own, ~ (thread \in {"close", "done"} /\ killed) PROVE LeftOK'
    BY <1>1
  <2>1. /\ server = "act" /\ server' = "reply" /\ UNCHANGED <<cmdName, resName>>
        /\ perform # "exited" /\ ~ unread
    BY <1>9 DEF Act, Result, Serve, pipeVars, Own
  <2>2. CASE command = "CREATE_SHM"
    <3>1. numbers[1] = ShmSize
      BY <2>1, <2>2 DEF RequestsOK, GoodArgs
    <3>2. size' = ShmSize
      BY <1>9, <2>2, <3>1 DEF Act
    <3>3. size' > 0
      BY <3>2, ConstantsAre
    <3>4. thread \in Testing
      BY <2>1 DEF ThreadPlaces
    <3> QED
      BY <1>1, <2>1, <3>3, <3>4
  <2>3. CASE command # "CREATE_SHM"
    <3>1. UNCHANGED <<shmName, size>>
      BY <1>9, <2>3 DEF Act, memoryVars
    <3> QED
      BY <1>1, <2>1, <3>1
  <2> QED
    BY <2>2, <2>3
<1>10. CASE Reply
  <2>1. LeftOK' \/ "tester" \in resEnds
    BY <1>1, <1>10 DEF Reply, Say, Perish, memoryVars, Own
  <2>2. "tester" \in resEnds =>
          /\ server' = "command" /\ server = "reply"
          /\ UNCHANGED <<cmdName, resName, shmName, size>>
    BY <1>10 DEF Reply, Say, memoryVars
  <2> QED
    BY <1>1, <2>1, <2>2
<1>11. CASE Exit
  BY <1>1, <1>11 DEF Exit, Serve, NameAfterExit, None
<1> QED
  BY <1>2, <1>3, <1>4, <1>5, <1>6, <1>7, <1>8, <1>9, <1>10, <1>11 DEF Server

LEMMA ThreadLeavesNothing ==
  ASSUME Inv, Thread PROVE LeftOK'
<1> USE DEF Inv, TypeOK, MainOK, PipesOK, LeftOK, Go, Quiet, PipesKept
<1>1. UNCHANGED <<test, perform, scores, strays>> /\ (Own' <=> Own) /\ perform # "exited"
  BY DEF Thread, mainVars, Own
<1>2. CASE MakePipe
  BY <1>1, <1>2 DEF MakePipe, serverVars, memoryVars
<1>3. CASE Popen
  BY <1>1, <1>3 DEF Popen, pipeVars, memoryVars
<1>4. CASE OpenCmd
  BY <1>1, <1>4 DEF OpenCmd, serverVars, memoryVars
<1>5. CASE OpenRes
  BY <1>1, <1>5 DEF OpenRes, serverVars, memoryVars
<1>6. CASE ReadConnect
  BY <1>1, <1>6 DEF ReadConnect, memoryVars
<1>7. CASE AskStep
  BY <1>1, <1>7 DEF AskStep, Doing, Proceed, serverVars, memoryVars
<1>8. CASE ReadStep
  BY <1>1, <1>8 DEF ReadStep, Doing, Proceed, ProceedIf, serverVars, memoryVars
<1>9. CASE RemoveStep
  BY <1>1, <1>9 DEF RemoveStep, Doing, Proceed, serverVars, pipeVars, None
<1>10. CASE FindStep
  BY <1>1, <1>10 DEF FindStep, Doing, Proceed, ProceedIf, serverVars, pipeVars, memoryVars
<1>11. CASE PointsStep
  BY <1>1, <1>11 DEF PointsStep, Doing, Proceed, serverVars, pipeVars, memoryVars
<1>12. CASE SectionStep
  BY <1>1, <1>12 DEF SectionStep, Doing, serverVars, pipeVars, memoryVars
<1>13. CASE SayExit
  BY <1>1, <1>13 DEF SayExit, serverVars, memoryVars
<1>14. CASE WaitForA3
  BY <1>1, <1>14 DEF WaitForA3, serverVars, pipeVars, memoryVars
<1>15. CASE Close
  BY <1>1, <1>15 DEF Close, serverVars, memoryVars
<1> QED
  BY <1>2, <1>3, <1>4, <1>5, <1>6, <1>7, <1>8, <1>9, <1>10, <1>11, <1>12, <1>13,
     <1>14, <1>15 DEF Thread

LEMMA MainLeavesNothing ==
  ASSUME Inv, Main PROVE LeftOK'
<1> USE DEF Inv, TypeOK, MainOK, PipesOK, LeftOK
<1>1. CASE Start
  BY <1>1, ConstantsAre DEF Start, Alone, Own, None, pipeVars, serverVars, memoryVars
<1>2. CASE Join
  BY <1>2 DEF Join, Own, threadVars, pipeVars, serverVars, memoryVars
<1>3. CASE Expire \/ StartBeside \/ EndBeside
  <2>1. ~ Own'
    BY <1>3, ScoreAdded DEF Expire, StartBeside, EndBeside, Own
  <2> QED
    BY <2>1
<1>4. CASE StraysGone \/ Leave
  BY <1>4, ConstantsAre DEF StraysGone, Leave, Own, Left, None, threadVars, serverVars, memoryVars
<1> QED
  BY <1>1, <1>2, <1>3, <1>4 DEF Main
-----------------------------------------------------------------------------
(* The accesses of a3 *)

\* Sums of numbers that are small are not cut.
LEMMA SmallRemainder ==
  ASSUME NEW n \in Nat, NEW w \in Nat \ {0}, n < w
  PROVE  n % w = n
OBVIOUS

LEMMA SumIsExact ==
  ASSUME NEW a \in Nat, NEW b \in Nat, a + b < Word
  PROVE  Sum(a, b) = a + b
<1>1. Word \in Nat \ {0} /\ a + b \in Nat
  BY ConstantsAre
<1>2. (a + b) % Word = a + b
  BY <1>1, SmallRemainder
<1> QED
  BY <1>2 DEF Sum

\* What is taken for in bounds is.
LEMMA AcceptedFits ==
  ASSUME Inv, server = "act", ~ unread, command \notin {"CREATE_SHM", "MAP_FILE"},
         Accepted, region # None
  PROVE  /\ Content \in Contents /\ Content # Zero
         /\ Content.from = "request" => Content.offset + 4 <= ShmSize
         /\ Content.from = "file" => /\ Content.n <= ShmSize
                                     /\ Content.offset + Content.n <= FileSize
<1>1. /\ command \in {"WRITE_TO_SHM", "READ_FROM_FILE_OFFSET", "READ_FROM_FILE_SECTION"}
      /\ GoodArgs(command, numbers)
      /\ size = ShmSize
  BY DEF Inv, RequestsOK, MemoryOK, Arguments
<1>2. CASE command = "WRITE_TO_SHM"
  <2>1. Content = [from |-> "request", offset |-> numbers[1], value |-> numbers[2]]
    BY <1>2 DEF Content, Written
  <2>2. numbers[1] \in Nat /\ numbers[2] \in Nat /\ numbers[1] + 4 <= ShmSize
    BY <1>1, <1>2 DEF GoodArgs, Accepted, WriteFits
  <2> QED
    BY <2>1, <2>2 DEF Contents, Zero
<1>3. CASE command = "READ_FROM_FILE_OFFSET"
  <2>1. Content = [from |-> "file", offset |-> numbers[1], n |-> numbers[2]]
    BY <1>3 DEF Content, Copied
  <2>2. /\ numbers[1] \in Nat /\ numbers[2] \in Nat /\ numbers[2] <= ShmSize
        /\ numbers[1] + numbers[2] <= FileSize
    BY <1>1, <1>3, SumIsExact DEF GoodArgs, Accepted, OffsetFits
  <2> QED
    BY <2>1, <2>2 DEF Contents, Zero
<1>4. CASE command = "READ_FROM_FILE_SECTION"
  <2> DEFINE i == numbers[1]
             o == numbers[2]
             n == numbers[3]
  <2>1. Content = [from |-> "file", offset |-> PartBegin(i, o), n |-> n]
    BY <1>4 DEF Content, Copied
  <2>2. /\ i \in Nat \ {0} /\ o \in Nat /\ n \in Nat /\ i <= Len(Sections)
        /\ o + n < Word /\ n <= ShmSize /\ Sum(o, n) <= Sections[i].size
    BY <1>1, <1>4 DEF GoodArgs, Accepted, SectionFits
  <2>3. /\ Sections[i].offset \in Nat /\ Sections[i].size \in Nat
        /\ Sections[i].offset + Sections[i].size <= FileSize
    <3>1. i \in 1..Len(Sections)
      BY <2>2, ConstantsAre
    <3> QED
      BY <3>1, ConstantsAre
  <2>4. o + n <= Sections[i].size
    BY <2>2, SumIsExact
  <2>5. PartBegin(i, o) = Sections[i].offset + o
    <3>1. FileSize \in Nat /\ Word \in Nat /\ FileSize + 51 < Word
      BY ConstantsAre
    <3> DEFINE b == Sections[i].offset
               m == Sections[i].size
    <3>2. b \in Nat /\ m \in Nat /\ o \in Nat /\ n \in Nat /\ b + m <= FileSize /\ o + n <= m
      BY <2>2, <2>3, <2>4
    <3> HIDE DEF b, m, i, o, n
    <3>3. b + o < Word
      BY ONLY <3>1, <3>2
    <3> USE DEF b
    <3> QED
      BY <3>3, <2>2, <2>3, SumIsExact DEF PartBegin
  <2>6. FileSize \in Nat
    BY ConstantsAre
  <2> HIDE DEF i, o, n
  <2>7. PartBegin(i, o) \in Nat /\ PartBegin(i, o) + n <= FileSize
    BY <2>2, <2>3, <2>4, <2>5, <2>6
  <2> QED
    BY <2>1, <2>2, <2>7 DEF Contents, Zero
<1> QED
  BY <1>1, <1>2, <1>3, <1>4

\* A request to a3, carried out: the memory that is written is the one it made, with
\* the size it gave it.
LEMMA ActKeepsMemory ==
  ASSUME Inv, Act, ~ unread
  PROVE  /\ MemoryOK'
         /\ size' \in Nat
         /\ memory' \in [0..Len(Session) -> Contents]
         /\ memorySize' \in [0..Len(Session) -> Nat]
<1> USE DEF Inv, TypeOK
<1>1. /\ server = "act" /\ ~ unread /\ ~ unread'
      /\ memory \in [0..Len(Session) -> Contents]
      /\ memorySize \in [0..Len(Session) -> Nat]
      /\ size \in Nat /\ shmName \in 0..None /\ test \in 0..Len(Session)
      /\ None = Len(Session) + 1 /\ Len(Session) \in Nat /\ ShmSize \in Nat
  <2>1. server = "act" /\ ~ unread' /\ None = Len(Session) + 1
    BY DEF Act, None
  <2>2. Len(Session) \in Nat /\ ShmSize \in Nat
    BY ConstantsAre
  <2>3. shmName \in 0..None
    BY <2>1, <2>2
  <2> QED
    BY <2>1, <2>2, <2>3
<1>2. CASE command = "CREATE_SHM"
  <2> DEFINE object == IF shmName = None THEN test ELSE shmName
  <2>1. numbers[1] = ShmSize
    BY <1>1, <1>2 DEF RequestsOK, GoodArgs
  <2>2. /\ shmName' = object /\ memory' = memory
        /\ memorySize' = [memorySize EXCEPT ![object] = ShmSize]
        /\ region' = IF ShmSize = 0 THEN None ELSE object
        /\ size' = ShmSize
    BY <1>2, <2>1 DEF Act
  <2>3. object \in 0..Len(Session)
    BY <1>1
  <2> HIDE DEF object
  <2>4. MemoryOK'
    <3>1. region' # None => size' = ShmSize /\ memorySize'[region'] = ShmSize
      BY <1>1, <2>2, <2>3
    <3>2. \A o \in 0..Len(Session) : memory'[o] # Zero => memorySize'[o] = ShmSize
      BY <1>1, <2>2, <2>3 DEF MemoryOK
    <3>3. MemorySafe'
      <4> SUFFICES ASSUME NEW o \in 0..Len(Session)
                   PROVE  /\ memory[o].from = "request"
                               => memory[o].offset + 4 <= memorySize'[o]
                          /\ memory[o].from = "file"
                               => /\ memory[o].n <= memorySize'[o]
                                  /\ memory[o].offset + memory[o].n <= FileSize
        BY <1>1, <2>2 DEF MemorySafe
      <4>1. memory[o] # Zero => memorySize'[o] = memorySize[o]
        BY <1>1, <2>2, <2>3 DEF MemoryOK
      <4>2. /\ memory[o].from = "request" => memory[o].offset + 4 <= memorySize[o]
            /\ memory[o].from = "file"
                 => /\ memory[o].n <= memorySize[o]
                    /\ memory[o].offset + memory[o].n <= FileSize
        BY <1>1 DEF MemoryOK, MemorySafe
      <4>3. memory[o] = Zero => memory[o].from = "zero"
        BY DEF Zero
      <4> QED
        BY <4>1, <4>2, <4>3
    <3> QED
      BY <3>1, <3>2, <3>3 DEF MemoryOK
  <2> QED
    BY <1>1, <2>2, <2>3, <2>4
<1>3. CASE command = "MAP_FILE"
  <2>1. UNCHANGED <<region, size, shmName, memory, memorySize>>
    BY <1>3 DEF Act, memoryVars
  <2> QED
    BY <2>1, <1>1 DEF MemoryOK, MemorySafe
<1>4. CASE command \notin {"CREATE_SHM", "MAP_FILE"}
  <2>1. /\ memory' = IF Accepted THEN [memory EXCEPT ![region] = Content] ELSE memory
        /\ UNCHANGED <<region, size, shmName, memorySize>>
    BY <1>4 DEF Act
  <2>2. CASE ~ Accepted \/ region = None
    <3>1. memory' = memory
      BY <1>1, <2>1, <2>2
    <3> QED
      BY <2>1, <3>1, <1>1 DEF MemoryOK, MemorySafe
  <2>3. CASE Accepted /\ region # None
    <3>1. /\ Content \in Contents /\ Content # Zero
          /\ Content.from = "request" => Content.offset + 4 <= ShmSize
          /\ Content.from = "file" => /\ Content.n <= ShmSize
                                      /\ Content.offset + Content.n <= FileSize
      BY <1>1, <1>4, <2>3, AcceptedFits
    <3>2. region \in 0..Len(Session) /\ memorySize[region] = ShmSize
      BY <1>1, <2>3 DEF MemoryOK
    <3>3. \A o \in 0..Len(Session) :
            memory'[o] = IF o = region THEN Content ELSE memory[o]
      BY <1>1, <2>1, <2>3, <3>2
    <3>4. memory' \in [0..Len(Session) -> Contents]
      BY <1>1, <2>1, <2>3, <3>1, <3>2
    <3>5. \A o \in 0..Len(Session) : memory'[o] # Zero => memorySize'[o] = ShmSize
      BY <1>1, <2>1, <3>2, <3>3 DEF MemoryOK
    <3>6. MemorySafe'
      <4> SUFFICES ASSUME NEW o \in 0..Len(Session)
                   PROVE  /\ memory'[o].from = "request"
                               => memory'[o].offset + 4 <= memorySize[o]
                          /\ memory'[o].from = "file"
                               => /\ memory'[o].n <= memorySize[o]
                                  /\ memory'[o].offset + memory'[o].n <= FileSize
        BY <2>1, <3>4 DEF MemorySafe
      <4>1. CASE o = region
        BY <4>1, <3>1, <3>2, <3>3
      <4>2. CASE o # region
        BY <4>2, <3>3, <1>1 DEF MemoryOK, MemorySafe
      <4> QED
        BY <4>1, <4>2
    <3>7. region' # None => size' = ShmSize /\ memorySize'[region'] = ShmSize
      BY <1>1, <2>1 DEF MemoryOK
    <3> QED
      BY <1>1, <2>1, <3>4, <3>5, <3>6, <3>7 DEF MemoryOK
  <2> QED
    BY <2>2, <2>3
<1> QED
  BY <1>2, <1>3, <1>4
-----------------------------------------------------------------------------
(* Requests stay whole *)

LEMMA ArgumentsAre ==
  ASSUME NEW c \in DOMAIN Arguments
  PROVE  Arguments[c] \in 1..3
BY DEF Arguments

\* What follows is what counts.
LEMMA SameArguments ==
  ASSUME NEW v, NEW w, NEW i \in Nat, NEW k \in Nat, NEW c \in DOMAIN Arguments,
         ArgsAfter(c, v, i), k + Arguments[c] <= Len(w),
         \A j \in 1..Arguments[c] : w[k + j] = v[i + j]
  PROVE  ArgsAfter(c, w, k)
<1>1. [j \in 1..Arguments[c] |-> w[k + j][2]] = [j \in 1..Arguments[c] |-> v[i + j][2]]
  OBVIOUS
<1> QED
  BY <1>1 DEF ArgsAfter

\* More requests may be sent.
LEMMA SentWhole ==
  ASSUME NEW v \in WholeRequests, NEW w \in WholeRequests
  PROVE  /\ v \o w \in WholeRequests
         /\ \A c \in DOMAIN Arguments :
              ArgsAfter(c, v, 0) => ArgsAfter(c, v \o w, 0)
<1>1. v \in Seq(Tokens) /\ w \in Seq(Tokens)
  BY DEF WholeRequests
<1>2. /\ v \o w \in Seq(Tokens)
      /\ Len(v \o w) = Len(v) + Len(w) /\ Len(v) \in Nat /\ Len(w) \in Nat
      /\ \A j \in 1..Len(v) + Len(w) :
           (v \o w)[j] = IF j <= Len(v) THEN v[j] ELSE w[j - Len(v)]
  BY <1>1, ConcatProperties, LenProperties
<1> DEFINE u == v \o w
<1> HIDE DEF u
<1>3. /\ Len(u) = Len(v) + Len(w)
      /\ \A j \in 1..Len(v) + Len(w) : u[j] = IF j <= Len(v) THEN v[j] ELSE w[j - Len(v)]
  BY <1>2 DEF u
<1>4. ASSUME NEW c \in DOMAIN Arguments, NEW i \in 0..Len(v), ArgsAfter(c, v, i)
      PROVE  ArgsAfter(c, u, i)
  <2>1. Arguments[c] \in Nat /\ i + Arguments[c] <= Len(v)
    BY <1>4, ArgumentsAre DEF ArgsAfter
  <2>2. \A j \in 1..Arguments[c] : u[i + j] = v[i + j]
    BY <2>1, <1>2, <1>3
  <2>3. i + Arguments[c] <= Len(u)
    BY <2>1, <1>2, <1>3
  <2> QED
    BY <2>1, <2>2, <2>3, <1>2, <1>4, SameArguments
<1>5. ASSUME NEW i \in 1..Len(u), u[i][1] = "s", u[i][2] \in DOMAIN Arguments
      PROVE  ArgsAfter(u[i][2], u, i)
  <2>1. CASE i <= Len(v)
    <3>1. i \in 1..Len(v) /\ u[i] = v[i]
      BY <2>1, <1>2, <1>3
    <3>2. ArgsAfter(u[i][2], v, i)
      BY <3>1, <1>5 DEF WholeRequests, Whole
    <3> QED
      BY <3>1, <3>2, <1>2, <1>4, <1>5
  <2>2. CASE i > Len(v)
    <3> DEFINE k == i - Len(v)
               c == u[i][2]
    <3>1. k \in 1..Len(w) /\ k \in Nat /\ u[i] = w[k] /\ i \in Nat
      BY <2>2, <1>2, <1>3
    <3>2. ArgsAfter(c, w, k) /\ c \in DOMAIN Arguments
      BY <3>1, <1>5 DEF WholeRequests, Whole
    <3>3. Arguments[c] \in Nat /\ k + Arguments[c] <= Len(w)
      BY <3>2, ArgumentsAre DEF ArgsAfter
    <3>4. \A j \in 1..Arguments[c] : u[i + j] = w[k + j]
      <4> SUFFICES ASSUME NEW j \in 1..Arguments[c] PROVE u[i + j] = w[k + j]
        OBVIOUS
      <4>1. /\ i + j \in 1..Len(v) + Len(w) /\ ~ i + j <= Len(v)
            /\ (i + j) - Len(v) = k + j
        <5>1. j \in 1..Arguments[c] /\ Len(v) \in Nat /\ Len(w) \in Nat
          BY <1>2
        <5> HIDE DEF c
        <5> QED
          BY ONLY <5>1, <3>1, <3>3, <2>2
      <4> QED
        BY <4>1, <1>3
    <3>5. i + Arguments[c] <= Len(u)
      BY <3>1, <3>3, <1>2, <1>3
    <3> HIDE DEF c
    <3>6. ArgsAfter(c, u, i)
      BY <3>1, <3>2, <3>4, <3>5, SameArguments
    <3> QED
      BY <3>6 DEF c
  <2> QED
    BY <2>1, <2>2, <1>2, <1>3
<1>6. u \in WholeRequests
  BY <1>2, <1>5 DEF WholeRequests, Whole, u
<1> QED
  BY <1>4, <1>6, <1>2 DEF u

\* And what is before may be read.
LEMMA ReadWhole ==
  ASSUME NEW w \in WholeRequests, NEW i \in 0..Len(w)
  PROVE  LET rest == SubSeq(w, i + 1, Len(w))
         IN  /\ rest \in WholeRequests
             /\ \A c \in DOMAIN Arguments : ArgsAfter(c, w, i) => ArgsAfter(c, rest, 0)
<1> DEFINE rest == SubSeq(w, i + 1, Len(w))
<1>1. w \in Seq(Tokens) /\ Len(w) \in Nat /\ i \in Nat
  BY LenProperties DEF WholeRequests
<1>2. /\ rest \in Seq(Tokens)
      /\ Len(rest) = Len(w) - i
      /\ \A j \in 1..Len(w) - i : rest[j] = w[i + j]
  <2>1. \A j \in i+1..Len(w) : w[j] \in Tokens
    BY <1>1, ElementOfSeq
  <2>2. /\ rest \in Seq(Tokens)
        /\ Len(rest) = IF i + 1 <= Len(w) THEN Len(w) - (i + 1) + 1 ELSE 0
        /\ \A j \in 1..Len(w)-(i+1)+1 : rest[j] = w[(i + 1) + j - 1]
    BY <1>1, <2>1, SubSeqProperties
  <2>3. \A j \in 1..Len(w) - i : rest[j] = w[i + j]
    <3> SUFFICES ASSUME NEW j \in 1..Len(w) - i PROVE rest[j] = w[i + j]
      OBVIOUS
    <3>1. j \in 1..Len(w)-(i+1)+1 /\ (i + 1) + j - 1 = i + j
      BY <1>1
    <3> QED
      BY <2>2, <3>1
  <2> QED
    BY <1>1, <2>2, <2>3
<1> HIDE DEF rest
<1>3. ASSUME NEW c \in DOMAIN Arguments, NEW k \in 0..Len(rest), ArgsAfter(c, w, i + k)
      PROVE  ArgsAfter(c, rest, k)
  <2>1. Arguments[c] \in Nat /\ (i + k) + Arguments[c] <= Len(w)
    BY <1>3, ArgumentsAre DEF ArgsAfter
  <2>2. \A j \in 1..Arguments[c] : rest[k + j] = w[(i + k) + j]
    <3> SUFFICES ASSUME NEW j \in 1..Arguments[c] PROVE rest[k + j] = w[(i + k) + j]
      OBVIOUS
    <3>1. k + j \in 1..Len(w) - i /\ i + (k + j) = (i + k) + j
      BY <1>1, <1>2, <2>1
    <3> QED
      BY <1>2, <3>1
  <2>3. k + Arguments[c] <= Len(rest)
    BY <2>1, <1>1, <1>2
  <2>4. k \in Nat /\ i + k \in Nat
    BY <1>1, <1>2
  <2> QED
    BY <2>2, <2>3, <2>4, <1>3, SameArguments
<1>4. ASSUME NEW k \in 1..Len(rest), rest[k][1] = "s", rest[k][2] \in DOMAIN Arguments
      PROVE  ArgsAfter(rest[k][2], rest, k)
  <2>1. i + k \in 1..Len(w) /\ rest[k] = w[i + k] /\ k \in 0..Len(rest)
    BY <1>1, <1>2
  <2>2. ArgsAfter(rest[k][2], w, i + k)
    BY <2>1, <1>4 DEF WholeRequests, Whole
  <2> QED
    BY <2>1, <2>2, <1>3, <1>4
<1>5. rest \in WholeRequests
  BY <1>2, <1>4 DEF WholeRequests, Whole
<1>6. \A c \in DOMAIN Arguments : ArgsAfter(c, w, i) => ArgsAfter(c, rest, 0)
  <2>1. 0 \in 0..Len(rest) /\ i + 0 = i
    BY <1>1, <1>2
  <2> QED
    BY <2>1, <1>3
<1> QED
  BY <1>5, <1>6 DEF rest

\* A token that is no string is read as a part of nothing.
LEMMA OneTokenWhole ==
  /\ << >> \in WholeRequests
  /\ << <<"rest", 0>> >> \in WholeRequests
  /\ << Str("EXIT") >> \in WholeRequests
<1>1. <<"rest", 0>> \in Tokens /\ Str("EXIT") \in Tokens
  BY DEF Tokens, Words, Str
<1>2. << <<"rest", 0>> >> \in Seq(Tokens) /\ << Str("EXIT") >> \in Seq(Tokens)
  BY <1>1
<1>3. Whole(<< <<"rest", 0>> >>)
  BY DEF Whole
<1>4. Whole(<< Str("EXIT") >>)
  BY DEF Whole, Str, Arguments
<1>5. << >> \in Seq(Tokens) /\ Whole(<< >>)
  BY DEF Whole
<1> QED
  BY <1>2, <1>3, <1>4, <1>5 DEF WholeRequests

\* What is cut off a request at the front is what is cut off what has been written of it.
LEMMA SuffixJoined ==
  ASSUME NEW T, NEW v \in Seq(T), NEW u \in Seq(T), NEW i \in 0..Len(v)
  PROVE  /\ SubSeq(v \o u, i + 1, Len(v \o u)) = SubSeq(v, i + 1, Len(v)) \o u
         /\ SubSeq(v, i + 1, Len(v)) \in Seq(T) /\ i \in 0..Len(v \o u)
<1> DEFINE c == v \o u
           a == SubSeq(c, i + 1, Len(c))
           t == SubSeq(v, i + 1, Len(v))
           b == t \o u
<1>1. Len(v) \in Nat /\ Len(u) \in Nat /\ i \in Nat /\ i <= Len(v)
  BY LenProperties
<1>2. /\ c \in Seq(T) /\ Len(c) = Len(v) + Len(u)
      /\ \A j \in 1..Len(v) + Len(u) : c[j] = IF j <= Len(v) THEN v[j] ELSE u[j - Len(v)]
  BY ConcatProperties
<1> HIDE DEF c
<1>3. /\ a \in Seq(T) /\ Len(a) = Len(v) + Len(u) - i
      /\ \A j \in 1..Len(v)+Len(u)-i : a[j] = c[i + j]
  <2>1. \A j \in i+1..Len(c) : c[j] \in T
    BY <1>1, <1>2, ElementOfSeq
  <2>2. /\ a \in Seq(T)
        /\ Len(a) = IF i + 1 <= Len(c) THEN Len(c) - (i + 1) + 1 ELSE 0
        /\ \A j \in 1..Len(c)-(i+1)+1 : a[j] = c[(i + 1) + j - 1]
    BY <1>1, <1>2, <2>1, SubSeqProperties
  <2> HIDE DEF a
  <2>3. ASSUME NEW j \in 1..Len(v)+Len(u)-i PROVE a[j] = c[i + j]
    <3>1. j \in 1..Len(c)-(i+1)+1 /\ (i + 1) + j - 1 = i + j
      BY <1>1, <1>2
    <3> QED
      BY <2>2, <3>1
  <2> QED
    BY <1>1, <1>2, <2>2, <2>3
<1>4. /\ t \in Seq(T) /\ Len(t) = Len(v) - i
      /\ \A j \in 1..Len(v)-i : t[j] = v[i + j]
  <2>1. \A j \in i+1..Len(v) : v[j] \in T
    BY <1>1, ElementOfSeq
  <2>2. /\ t \in Seq(T)
        /\ Len(t) = IF i + 1 <= Len(v) THEN Len(v) - (i + 1) + 1 ELSE 0
        /\ \A j \in 1..Len(v)-(i+1)+1 : t[j] = v[(i + 1) + j - 1]
    BY <1>1, <2>1, SubSeqProperties
  <2> HIDE DEF t
  <2>3. ASSUME NEW j \in 1..Len(v)-i PROVE t[j] = v[i + j]
    <3>1. j \in 1..Len(v)-(i+1)+1 /\ (i + 1) + j - 1 = i + j
      BY <1>1
    <3> QED
      BY <2>2, <3>1
  <2> QED
    BY <1>1, <2>2, <2>3
<1> HIDE DEF a, t
<1>5. /\ b \in Seq(T) /\ Len(b) = Len(t) + Len(u)
      /\ \A j \in 1..Len(t) + Len(u) : b[j] = IF j <= Len(t) THEN t[j] ELSE u[j - Len(t)]
  BY <1>4, ConcatProperties
<1> HIDE DEF b
<1>6. Len(a) = Len(b)
  BY <1>1, <1>3, <1>4, <1>5
<1>7. ASSUME NEW j \in 1..Len(a) PROVE a[j] = b[j]
  <2>1. CASE j <= Len(t)
    <3>1. i + j \in 1..Len(v) + Len(u) /\ i + j <= Len(v)
      BY <1>1, <1>3, <1>4, <2>1
    <3> QED
      BY <3>1, <2>1, <1>1, <1>2, <1>3, <1>4, <1>5
  <2>2. CASE ~ (j <= Len(t))
    <3>1. /\ i + j \in 1..Len(v) + Len(u) /\ ~ (i + j <= Len(v))
            /\ (i + j) - Len(v) = j - Len(t) /\ j \in 1..Len(t) + Len(u)
      BY <1>1, <1>3, <1>4, <2>2
    <3>2. a[j] = c[i + j] /\ c[i + j] = u[(i + j) - Len(v)]
      BY <3>1, <1>2, <1>3
    <3>3. b[j] = u[j - Len(t)]
      BY <3>1, <2>2, <1>5
    <3> QED
      BY <3>1, <3>2, <3>3
  <2> QED
    BY <2>1, <2>2
<1>8. a = b
  BY <1>3, <1>5, <1>6, <1>7, SeqEqual
<1>9. i \in 0..Len(c)
  BY <1>1, <1>2
<1> QED
  BY ONLY <1>4, <1>8, <1>9 DEF a, b, c, t

\* Both of them for tokens.
LEMMA TokensJoined ==
  /\ \A v, u \in Seq(Tokens) : \A i \in 0..Len(v) :
       /\ SubSeq(v \o u, i + 1, Len(v \o u)) = SubSeq(v, i + 1, Len(v)) \o u
       /\ SubSeq(v, i + 1, Len(v)) \in Seq(Tokens) /\ i \in 0..Len(v \o u)
  /\ \A r, s, t \in Seq(Tokens) : (r \o s) \o t = r \o (s \o t)
<1>1. ASSUME NEW v \in Seq(Tokens), NEW u \in Seq(Tokens), NEW i \in 0..Len(v)
      PROVE  /\ SubSeq(v \o u, i + 1, Len(v \o u)) = SubSeq(v, i + 1, Len(v)) \o u
             /\ SubSeq(v, i + 1, Len(v)) \in Seq(Tokens) /\ i \in 0..Len(v \o u)
  BY ONLY SuffixJoined, Zenon
<1>2. ASSUME NEW r \in Seq(Tokens), NEW s \in Seq(Tokens), NEW t \in Seq(Tokens)
      PROVE  (r \o s) \o t = r \o (s \o t)
  BY ConcatAssociative
<1> QED
  BY <1>1, <1>2

LEMMA ComingIs ==
  ASSUME Inv
  PROVE  /\ requests \in Seq(Tokens) /\ Unwritten \in WholeRequests
         /\ Unwritten \in Seq(Tokens) /\ Coming \in WholeRequests
         /\ Len(requests) \in Nat /\ Len(Coming) = Len(requests) + Len(Unwritten)
         /\ \A j \in 1..Len(requests) : j \in 1..Len(Coming) /\ Coming[j] = requests[j]
<1>1. requests \in Seq(Tokens) /\ Whole(Coming)
  BY DEF Inv, TypeOK, RequestsOK
<1>2. Unwritten \in WholeRequests
  <2>1. CASE Doing("ask")
    <3>1. script # <<>> /\ script \in Seq(Steps) /\ Head(script).do = "ask"
      BY <2>1 DEF Doing, Inv, TypeOK
    <3>2. Head(script) \in Steps
      BY <3>1, HeadTailProperties
    <3>3. Head(script).words \in WholeRequests
      BY <3>1, <3>2 DEF Steps
    <3> QED
      BY <2>1, <3>3 DEF Unwritten
  <2>2. CASE ~ Doing("ask")
    BY <2>2, OneTokenWhole DEF Unwritten
  <2> QED
    BY <2>1, <2>2
<1>3. Unwritten \in Seq(Tokens)
  BY <1>2 DEF WholeRequests
<1>4. /\ Coming \in Seq(Tokens)
      /\ Len(Coming) = Len(requests) + Len(Unwritten)
      /\ \A j \in 1..Len(requests) + Len(Unwritten) :
           Coming[j] = IF j <= Len(requests) THEN requests[j] ELSE Unwritten[j - Len(requests)]
  BY <1>1, <1>3, ConcatProperties DEF Coming
<1>5. Len(requests) \in Nat /\ Len(Unwritten) \in Nat
  BY <1>1, <1>3, LenProperties
<1> QED
  BY <1>1, <1>2, <1>3, <1>4, <1>5 DEF WholeRequests

LEMMA ServerReadsWhole ==
  ASSUME Inv, Server PROVE RequestsOK' /\ requests' \in Seq(Tokens)
<1> USE DEF Inv, TypeOK, PipesOK, RequestsOK
<1>1. /\ Coming \in WholeRequests /\ requests \in Seq(Tokens)
      /\ Unwritten \in WholeRequests /\ Unwritten \in Seq(Tokens)
  BY ComingIs
<1>2. Unwritten' = Unwritten /\ Coming' = requests' \o Unwritten
  BY DEF Server, threadVars, Unwritten, Coming, Doing
<1>3. UNCHANGED requests => Coming' = Coming
  BY <1>2 DEF Coming
<1>4. CASE SetupPipe
  BY <1>3, <1>4 DEF SetupPipe, Perish, Serve
<1>5. CASE OpenPipe
  BY <1>3, <1>5 DEF OpenPipe, After, RequestFirst
<1>6. CASE Connect
  BY <1>3, <1>6 DEF Connect, Say, Perish
<1>7. CASE ReadCommand
  <2>1. PICK i \in DOMAIN requests :
          /\ command' = IF i = 1 /\ requests[1][1] = "s" THEN requests[1][2] ELSE "garbage"
          /\ \E rest \in {<<>>} \cup IF requests[i][1] = "n" THEN {<< <<"rest", 0>> >>} ELSE {} :
               requests' = rest \o SubSeq(requests, i + 1, Len(requests))
          /\ requests[i][1] = "n" \/ requests' = <<>> \o SubSeq(requests, i + 1, Len(requests))
    BY <1>7 DEF ReadCommand
  <2>2. PICK rest \in {<<>>, << <<"rest", 0>> >>} :
          /\ requests' = rest \o SubSeq(requests, i + 1, Len(requests))
          /\ requests[i][1] # "n" => rest = <<>>
    BY <2>1
  <2> DEFINE cut == SubSeq(requests, i + 1, Len(requests))
             tail == SubSeq(Coming, i + 1, Len(Coming))
  <2>3. i \in 1..Len(requests) /\ i \in 0..Len(requests) /\ Len(requests) \in Nat
    BY LenProperties
  <2>4. tail = cut \o Unwritten /\ cut \in Seq(Tokens) /\ i \in 0..Len(Coming)
    BY ONLY <1>1, <2>3, TokensJoined, Zenon DEF Coming, cut, tail
  <2>5. /\ tail \in WholeRequests
        /\ \A c \in DOMAIN Arguments :
             ArgsAfter(c, Coming, i) => ArgsAfter(c, tail, 0)
    BY <1>1, <2>4, ReadWhole
  <2> HIDE DEF tail, cut
  <2>6. rest \in WholeRequests /\ rest \in Seq(Tokens)
    BY OneTokenWhole DEF WholeRequests
  <2>7. Coming' = rest \o tail /\ requests' \in Seq(Tokens)
    <3>1. requests' = rest \o cut
      BY <2>2 DEF cut
    <3>2. (rest \o cut) \o Unwritten = rest \o (cut \o Unwritten)
      BY ONLY <1>1, <2>4, <2>6, TokensJoined
    <3> QED
      BY <1>2, <2>4, <2>6, <3>1, <3>2, ConcatProperties
  <2>8. Coming' \in WholeRequests
    BY <2>5, <2>6, <2>7, SentWhole
  <2>9. command' \in DOMAIN Arguments => ArgsAfter(command', Coming', 0)
    <3> SUFFICES ASSUME command' \in DOMAIN Arguments
                 PROVE  ArgsAfter(command', Coming', 0)
      OBVIOUS
    <3>1. i = 1 /\ requests[1][1] = "s" /\ command' = requests[1][2]
      BY <2>1 DEF Arguments
    <3>2. 1 \in 1..Len(Coming) /\ Coming[1] = requests[1]
      BY <2>3, <3>1, ComingIs
    <3>3. ArgsAfter(command', Coming, i)
      BY <3>1, <3>2 DEF Whole
    <3>4. rest = <<>>
      BY <2>2, <3>1
    <3>5. Coming' = tail
      BY <2>5, <2>7, <3>4, ConcatEmptySeq DEF WholeRequests
    <3> QED
      BY <2>5, <3>3, <3>5
  <2>10. server' \in {"exit", "echo"}
    BY <1>7 DEF ReadCommand
  <2> QED
    BY <2>8, <2>9, <2>10, <2>7 DEF WholeRequests
<1>8. CASE ReadNothing
  <2>1. /\ requests' = <<>> /\ "tester" \notin resEnds' /\ server' \in {"exit", "echo"}
    BY <1>8 DEF ReadNothing, EndOfFile
  <2>2. Coming' = Unwritten
    BY <1>2, <1>1, <2>1, ConcatEmptySeq
  <2> QED
    BY <1>1, <2>1, <2>2, OneTokenWhole DEF WholeRequests
<1>9. CASE Echo
  BY <1>3, <1>9 DEF Echo, Say, Perish
<1>10. CASE ReadArguments
  <2> DEFINE n == Arguments[command]
             cut == SubSeq(requests, n + 1, Len(requests))
             tail == SubSeq(Coming, n + 1, Len(Coming))
  <2>1. /\ command \in DOMAIN Arguments /\ ArgsAfter(command, Coming, 0)
        /\ command' = command /\ server' = "act"
        /\ requests' = cut
        /\ \/ Len(requests) >= n /\ numbers' = [i \in 1..n |-> requests[i][2]]
           \/ Len(requests) < n /\ unread' = TRUE
    BY <1>10 DEF ReadArguments, Serve
  <2>2. n \in Nat /\ n \in 1..3
    <3>1. Arguments[command] \in 1..3
      BY ONLY <2>1, ArgumentsAre
    <3> QED
      BY <3>1
  <2> HIDE DEF n
  <2>3. CASE Len(requests) >= n
    <3>1. n \in 0..Len(requests) /\ Len(requests) \in Nat
      BY <2>2, <2>3, LenProperties
    <3>2. tail = cut \o Unwritten /\ cut \in Seq(Tokens) /\ n \in 0..Len(Coming)
      BY ONLY <1>1, <3>1, SuffixJoined, Zenon DEF Coming, cut, tail
    <3>3. tail \in WholeRequests
      BY <1>1, <3>2, ReadWhole
    <3>4. numbers' = [j \in 1..n |-> Coming[0 + j][2]]
      <4>1. \A j \in 1..n : Coming[0 + j] = requests[j]
        BY <2>2, <3>1, ComingIs
      <4>2. numbers' = [i \in 1..n |-> requests[i][2]]
        BY <2>1, <2>2, <2>3, <3>1
      <4> QED
        BY <4>1, <4>2
    <3>5. GoodArgs(command, numbers')
      BY <2>1, <3>4 DEF ArgsAfter, n
    <3>6. Coming' = tail
      BY <1>2, <2>1, <3>2
    <3> HIDE DEF tail, cut
    <3> QED
      BY <2>1, <3>2, <3>3, <3>5, <3>6 DEF WholeRequests
  <2>4. CASE ~ (Len(requests) >= n)
    <3>1. cut = <<>>
      <4> DEFINE m == Len(requests)
      <4>1. m \in Int /\ n + 1 \in Int /\ m < n + 1
        BY <2>2, <2>4, LenProperties
      <4> QED
        BY ONLY <4>1, SubSeqEmpty, Zenon DEF cut, m
    <3>2. unread' /\ requests' = <<>>
      BY <2>1, <2>2, <2>4, <3>1, LenProperties
    <3>3. Coming' = Unwritten
      BY <1>2, <1>1, <3>2, ConcatEmptySeq
    <3> HIDE DEF tail, cut
    <3> QED
      BY <1>1, <2>1, <3>2, <3>3, OneTokenWhole DEF WholeRequests
  <2> QED
    BY <2>3, <2>4
<1>11. CASE Act
  BY <1>3, <1>11 DEF Act, Result, Serve, pipeVars
<1>12. CASE Reply
  BY <1>3, <1>12 DEF Reply, Say, Perish
<1>13. CASE Exit
  BY <1>3, <1>13 DEF Exit, Serve
<1> QED
  BY <1>4, <1>5, <1>6, <1>7, <1>8, <1>9, <1>10, <1>11, <1>12, <1>13 DEF Server
-----------------------------------------------------------------------------
(* The scripts of the tests *)

\* A command with numbers.
LEMMA RequestWords ==
  ASSUME NEW c \in Words, NEW ns \in Seq(Nat),
         c \in DOMAIN Arguments => Len(ns) = Arguments[c] /\ GoodArgs(c, ns)
  PROVE  <<Str(c)>> \o Nums(ns) \in WholeRequests \ {<< >>}
<1> DEFINE tail == Nums(ns)
           w == <<Str(c)>> \o tail
<1>1. Len(ns) \in Nat /\ DOMAIN ns = 1..Len(ns) /\ ns \in [1..Len(ns) -> Nat]
  BY LenProperties
<1>2. <<Str(c)>> \in Seq(Tokens) /\ Len(<<Str(c)>>) = 1 /\ <<Str(c)>>[1] = Str(c)
  BY DEF Tokens, Str
<1>3. /\ tail \in Seq(Tokens) /\ Len(tail) = Len(ns)
      /\ \A i \in 1..Len(ns) : tail[i] = Num(ns[i])
  <2>1. tail = [i \in 1..Len(ns) |-> Num(ns[i])]
    BY <1>1 DEF Nums
  <2>2. \A i \in 1..Len(ns) : Num(ns[i]) \in Tokens
    BY <1>1 DEF Num, Tokens
  <2> HIDE DEF tail
  <2>3. tail \in [1..Len(ns) -> Tokens]
    BY <2>1, <2>2
  <2> QED
    BY <2>1, <2>3, <1>1
<1> HIDE DEF tail
<1>4. /\ w \in Seq(Tokens) /\ Len(w) = 1 + Len(ns)
      /\ \A i \in 1..1+Len(ns) : w[i] = IF i <= 1 THEN Str(c) ELSE tail[i - 1]
  <2>1. /\ w \in Seq(Tokens)
        /\ Len(w) = Len(<<Str(c)>>) + Len(tail)
        /\ \A i \in 1..Len(<<Str(c)>>) + Len(tail) :
             w[i] = IF i <= Len(<<Str(c)>>) THEN <<Str(c)>>[i] ELSE tail[i - Len(<<Str(c)>>)]
    BY <1>2, <1>3, ConcatProperties
  <2> HIDE DEF w
  <2>2. ASSUME NEW i \in 1..1+Len(ns)
        PROVE  w[i] = IF i <= 1 THEN Str(c) ELSE tail[i - 1]
    <3>1. CASE i = 1
      BY <3>1, <2>1, <1>1, <1>2, <1>3
    <3>2. CASE i # 1
      BY <3>2, <2>1, <1>1, <1>2, <1>3
    <3> QED
      BY <3>1, <3>2
  <2> QED
    BY <2>1, <2>2, <1>2, <1>3
<1> HIDE DEF w
<1>5. w[1] = Str(c) /\ \A j \in 1..Len(ns) : w[1 + j] = Num(ns[j])
  <2>1. w[1] = Str(c)
    BY <1>1, <1>4
  <2>2. ASSUME NEW j \in 1..Len(ns) PROVE w[1 + j] = Num(ns[j])
    <3>1. 1 + j \in 1..1+Len(ns) /\ ~ 1 + j <= 1 /\ (1 + j) - 1 = j
      BY <1>1
    <3> QED
      BY <3>1, <1>3, <1>4
  <2> QED
    BY <2>1, <2>2
<1>6. ASSUME NEW i \in 1..Len(w), w[i][1] = "s" PROVE i = 1
  <2>1. CASE i # 1
    <3>1. i - 1 \in 1..Len(ns) /\ 1 + (i - 1) = i
      BY <2>1, <1>1, <1>4
    <3>2. w[i] = Num(ns[i - 1])
      BY <3>1, <1>5
    <3> QED
      BY <3>2, <1>6 DEF Num
  <2> QED
    BY <2>1
<1>7. c \in DOMAIN Arguments => ArgsAfter(c, w, 1)
  <2> SUFFICES ASSUME c \in DOMAIN Arguments PROVE ArgsAfter(c, w, 1)
    OBVIOUS
  <2>1. [j \in 1..Arguments[c] |-> w[1 + j][2]] = ns
    BY <1>1, <1>5 DEF Num
  <2>2. GoodArgs(c, [j \in 1..Arguments[c] |-> w[1 + j][2]])
    BY <2>1
  <2>3. 1 + Arguments[c] <= Len(w)
    BY <1>1, <1>4
  <2> QED
    BY <2>2, <2>3 DEF ArgsAfter
<1>8. Whole(w)
  BY <1>5, <1>6, <1>7 DEF Whole, Str
<1>9. w # << >>
  BY <1>1, <1>4
<1> QED
  BY <1>4, <1>8, <1>9 DEF WholeRequests, w, tail

\* MAP_FILE with a name that is no command.
LEMMA MapFileWords ==
  ASSUME NEW name \in {"file", "inexistent"}
  PROVE  << Str("MAP_FILE"), Str(name) >> \in WholeRequests \ {<< >>}
<1> DEFINE w == << Str("MAP_FILE"), Str(name) >>
<1>1. w \in Seq(Tokens) /\ Len(w) = 2
  BY DEF Tokens, Words, Str
<1>2. w[1][2] = "MAP_FILE" /\ w[2][2] \notin DOMAIN Arguments
  BY DEF Str, Arguments
<1>3. Arguments["MAP_FILE"] = 1
  BY DEF Arguments
<1> HIDE DEF w
<1>4. ArgsAfter("MAP_FILE", w, 1)
  BY <1>1, <1>3 DEF ArgsAfter, GoodArgs
<1>5. Whole(w)
  BY <1>1, <1>2, <1>4 DEF Whole
<1> QED
  BY <1>1, <1>5 DEF WholeRequests, w

\* Asking, and reading what is expected.
LEMMA AskSteps ==
  ASSUME NEW w \in WholeRequests \ {<< >>}, NEW expected \in Seq(Tokens)
  PROVE  Ask(w, expected) \in Seq(Steps)
<1> DEFINE first == [do |-> "ask", words |-> w]
           reads == [i \in DOMAIN expected |-> [do |-> "read", token |-> expected[i]]]
<1>1. first \in Steps
  BY DEF Steps
<1>2. <<first>> \in Seq(Steps)
  BY <1>1
<1>3. reads \in Seq(Steps)
  <2>1. /\ Len(expected) \in Nat /\ DOMAIN expected = 1..Len(expected)
        /\ \A i \in 1..Len(expected) : expected[i] \in Tokens
    BY LenProperties, ElementOfSeq
  <2>2. \A i \in 1..Len(expected) : [do |-> "read", token |-> expected[i]] \in Steps
    BY <2>1 DEF Steps
  <2>3. reads \in [1..Len(expected) -> Steps]
    BY <2>1, <2>2
  <2> HIDE DEF reads
  <2> QED
    BY <2>1, <2>3
<1> HIDE DEF first, reads
<1>4. <<first>> \o reads \in Seq(Steps)
  BY <1>2, <1>3, ConcatProperties
<1> QED
  BY <1>4 DEF Ask, first, reads

LEMMA RequestSteps ==
  ASSUME NEW c \in Words, NEW ns \in Seq(Nat), NEW result \in {"SUCCESS", "ERROR"},
         c \in DOMAIN Arguments => Len(ns) = Arguments[c] /\ GoodArgs(c, ns)
  PROVE  Request(c, ns, result) \in Seq(Steps)
<1>1. <<Str(c)>> \o Nums(ns) \in WholeRequests \ {<< >>}
  BY RequestWords
<1>2. <<Str(c), Str(result)>> \in Seq(Tokens)
  BY DEF Tokens, Words, Str
<1> QED
  BY <1>1, <1>2, AskSteps DEF Request

LEMMA StepsJoined ==
  \A s, t \in Seq(Steps) : s \o t \in Seq(Steps)
BY ConcatProperties

\* Half of a section.
LEMMA HalfOf ==
  ASSUME NEW n \in Nat, n >= 10
  PROVE  n \div 2 \in Nat /\ n \div 2 >= 5 /\ (n \div 2) + (n \div 2) <= n
OBVIOUS

LEMMA SmallSteps ==
  /\ Remove \in Seq(Steps) /\ Find \in Seq(Steps)
  /\ \A n \in Nat : Points(n) \in Seq(Steps)
  /\ \A n \in Nat, c \in Contents : Compare(c, n) \in Seq(Steps)
<1>1. [do |-> "remove"] \in Steps /\ [do |-> "find"] \in Steps
  BY DEF Steps
<1>2. ASSUME NEW n \in Nat PROVE Points(n) \in Seq(Steps)
  <2>1. [do |-> "points", n |-> n] \in Steps
    BY DEF Steps
  <2> QED
    BY <2>1 DEF Points
<1>3. ASSUME NEW n \in Nat, NEW c \in Contents PROVE Compare(c, n) \in Seq(Steps)
  <2>1. [do |-> "compare", content |-> c, n |-> n] \in Steps
    BY DEF Steps
  <2> QED
    BY <2>1 DEF Compare
<1> QED
  BY <1>1, <1>2, <1>3 DEF Remove, Find

LEMMA ContentsAre ==
  ASSUME NEW a \in Nat, NEW b \in Nat
  PROVE  Written(a, b) \in Contents /\ Copied(a, b) \in Contents
BY DEF Written, Copied, Contents

LEMMA CreateShmSteps == CreateShm \in Seq(Steps)
<1>1. Request("CREATE_SHM", <<ShmSize>>, "SUCCESS") \in Seq(Steps)
  <2>1. <<ShmSize>> \in Seq(Nat)
    BY ConstantsAre
  <2>2. Arguments["CREATE_SHM"] = 1 /\ Len(<<ShmSize>>) = 1
    BY DEF Arguments
  <2>3. GoodArgs("CREATE_SHM", <<ShmSize>>)
    BY DEF GoodArgs
  <2> QED
    BY <2>1, <2>2, <2>3, RequestSteps DEF Words
<1> QED
  BY <1>1, SmallSteps, StepsJoined DEF CreateShm

LEMMA MapFileSteps ==
  ASSUME NEW name \in {"file", "inexistent"}, NEW result \in {"SUCCESS", "ERROR"}
  PROVE  MapFile(name, result) \in Seq(Steps)
<1>1. << Str("MAP_FILE"), Str(result) >> \in Seq(Tokens)
  BY DEF Tokens, Words, Str
<1> QED
  BY <1>1, MapFileWords, AskSteps DEF MapFile

\* Requests with two numbers, and with three.
LEMMA TwoNumbers ==
  ASSUME NEW c \in {"WRITE_TO_SHM", "READ_FROM_FILE_OFFSET", "READ_FROM_LOGICAL_SPACE_OFFSET"},
         NEW a \in Nat, NEW b \in Nat, c = "READ_FROM_FILE_OFFSET" => a + b < Word,
         NEW result \in {"SUCCESS", "ERROR"}
  PROVE  Request(c, <<a, b>>, result) \in Seq(Steps)
<1>1. <<a, b>> \in Seq(Nat) /\ Len(<<a, b>>) = 2 /\ <<a, b>>[1] = a /\ <<a, b>>[2] = b
  OBVIOUS
<1>2. c \in DOMAIN Arguments => Arguments[c] = 2
  BY DEF Arguments
<1>3. GoodArgs(c, <<a, b>>)
  BY DEF GoodArgs
<1>4. c \in Words
  BY DEF Words
<1> QED
  BY <1>1, <1>2, <1>3, <1>4, RequestSteps

LEMMA ThreeNumbers ==
  ASSUME NEW i \in Nat \ {0}, NEW o \in Nat, NEW n \in Nat,
         i <= Len(Sections) => o + n < Word /\ n <= ShmSize,
         NEW result \in {"SUCCESS", "ERROR"}
  PROVE  Request("READ_FROM_FILE_SECTION", <<i, o, n>>, result) \in Seq(Steps)
<1>1. /\ <<i, o, n>> \in Seq(Nat) /\ Len(<<i, o, n>>) = 3
      /\ <<i, o, n>>[1] = i /\ <<i, o, n>>[2] = o /\ <<i, o, n>>[3] = n
  OBVIOUS
<1>2. Arguments["READ_FROM_FILE_SECTION"] = 3
  BY DEF Arguments
<1>3. GoodArgs("READ_FROM_FILE_SECTION", <<i, o, n>>)
  BY DEF GoodArgs
<1> QED
  BY <1>1, <1>2, <1>3, RequestSteps DEF Words

LEMMA ShmScripts == TestShm1 \in Seq(Steps) /\ TestShmWrite \in Seq(Steps)
<1>1. TestShm1 \in Seq(Steps)
  BY CreateShmSteps, SmallSteps, StepsJoined DEF TestShm1
<1>2. Request("WRITE_TO_SHM", <<WriteOffset, WriteValue>>, "SUCCESS") \in Seq(Steps)
  BY ConstantsAre, TwoNumbers
<1>3. Request("WRITE_TO_SHM", <<ShmSize - 2, 7>>, "ERROR") \in Seq(Steps)
  <2>1. ShmSize - 2 \in Nat
    BY ConstantsAre
  <2> QED
    BY <2>1, TwoNumbers
<1>4. Compare(Written(WriteOffset, WriteValue), 5) \in Seq(Steps)
  BY ConstantsAre, ContentsAre, SmallSteps
<1>5. Points(3) \in Seq(Steps) /\ Points(2) \in Seq(Steps)
  BY SmallSteps
<1> QED
  BY <1>1, <1>2, <1>3, <1>4, <1>5, CreateShmSteps, StepsJoined DEF TestShmWrite

LEMMA PingScript == TestPing \in Seq(Steps)
<1>1. <<Str("VARIANT")>> \in WholeRequests \ {<< >>}
  BY DEF WholeRequests, Whole, Tokens, Words, Str, Arguments
<1>2. <<Str("VARIANT"), Num(10), Str("VALUE")>> \in Seq(Tokens)
  BY DEF Tokens, Words, Str, Num
<1>3. Points(10) \in Seq(Steps)
  BY SmallSteps
<1> QED
  BY <1>1, <1>2, <1>3, AskSteps, StepsJoined DEF TestPing

LEMMA MapScripts == TestMapInexistent \in Seq(Steps) /\ TestMap1 \in Seq(Steps)
<1>1. Points(5) \in Seq(Steps)
  BY SmallSteps
<1> QED
  BY <1>1, MapFileSteps, StepsJoined DEF TestMapInexistent, TestMap1

LEMMA ReadScripts ==
  TestReadOffset \in Seq(Steps) /\ TestReadSection \in Seq(Steps)
    /\ TestReadLogical \in Seq(Steps)
<1>1. /\ Points(1) \in Seq(Steps) /\ Points(2) \in Seq(Steps)
      /\ MapFile("file", "SUCCESS") \in Seq(Steps)
  BY SmallSteps, MapFileSteps
<1> DEFINE mid == FileSize \div 2
<1>2. mid \in Nat /\ mid <= FileSize /\ FileSize \in Nat /\ FileSize + 51 < Word
      /\ Word \in Nat
  BY ConstantsAre
<1> HIDE DEF mid
<1>3. Request("READ_FROM_FILE_OFFSET", <<FileSize + 1, 50>>, "ERROR") \in Seq(Steps)
  BY <1>2, TwoNumbers
<1>4. Request("READ_FROM_FILE_OFFSET", <<mid, 50>>, "SUCCESS") \in Seq(Steps)
  BY <1>2, TwoNumbers
<1>5. Compare(Copied(mid, 50), 4) \in Seq(Steps)
  BY <1>2, ContentsAre, SmallSteps
<1>6. TestReadOffset \in Seq(Steps)
  BY <1>1, <1>3, <1>4, <1>5, CreateShmSteps, StepsJoined DEF TestReadOffset, mid
<1>7. Request("READ_FROM_FILE_SECTION", <<Len(Sections) + 2, 0, 100>>, "ERROR") \in Seq(Steps)
  BY ConstantsAre, ThreeNumbers
<1>8. <<[do |-> "section"], [do |-> "section"], [do |-> "section"]>> \in Seq(Steps)
  <2>1. [do |-> "section"] \in Steps
    BY DEF Steps
  <2> QED
    BY <2>1
<1>9. TestReadSection \in Seq(Steps)
  BY <1>1, <1>7, <1>8, CreateShmSteps, StepsJoined DEF TestReadSection
<1> DEFINE half == Sections[1].size \div 2
<1>10. half \in Nat /\ Sections[1].offset \in Nat /\ Sections[1].offset + half \in Nat
  <2>1. 1 \in 1..Len(Sections)
    BY ConstantsAre
  <2>2. Sections[1].offset \in Nat /\ Sections[1].size \in Nat /\ Sections[1].size >= 10
    BY <2>1, ConstantsAre
  <2>3. half \in Nat
    BY <2>2, HalfOf
  <2> HIDE DEF half
  <2> QED
    BY <2>2, <2>3
<1> HIDE DEF half
<1>11. Request("READ_FROM_LOGICAL_SPACE_OFFSET", <<half, 5>>, "SUCCESS") \in Seq(Steps)
  BY <1>10, TwoNumbers
<1>12. Compare(Copied(Sections[1].offset + half, 5), 8) \in Seq(Steps)
  BY <1>10, ContentsAre, SmallSteps
<1>13. TestReadLogical \in Seq(Steps)
  BY <1>1, <1>11, <1>12, CreateShmSteps, StepsJoined DEF TestReadLogical, half
<1> QED
  BY <1>6, <1>9, <1>13

\* What any test asks for is whole.
LEMMA Scripts ==
  ASSUME NEW name \in Tests
  PROVE  Script(name) \in Seq(Steps)
BY PingScript, ShmScripts, MapScripts, ReadScripts DEF Script, Tests

LEMMA PartScripts ==
  ASSUME NEW p \in Parts
  PROVE  PartScript(p) \in Seq(Steps)
<1>1. PICK i \in DOMAIN Sections :
        /\ p.section = i
        /\ p.offset \in {0, Sections[i].size \div 2}
        /\ p.n \in {5, Sections[i].size \div 2}
  BY DEF Parts
<1> DEFINE half == Sections[i].size \div 2
           o == p.offset
           n == p.n
<1>2. /\ i \in Nat \ {0} /\ half \in Nat /\ half >= 5 /\ half + half <= Sections[i].size
      /\ half <= ShmSize /\ Sections[i].offset \in Nat /\ ShmSize \in Nat /\ Word \in Nat
      /\ Sections[i].offset + Sections[i].size <= FileSize /\ FileSize + 51 < Word
      /\ FileSize \in Nat /\ Sections[i].size \in Nat
  <2>1. i \in 1..Len(Sections) /\ Len(Sections) \in Nat
    BY ConstantsAre
  <2>2. /\ Sections[i].size \in Nat /\ Sections[i].offset \in Nat
        /\ Sections[i].size >= 10 /\ half <= ShmSize
        /\ Sections[i].offset + Sections[i].size <= FileSize
    BY <2>1, ConstantsAre
  <2>3. half \in Nat /\ half >= 5 /\ half + half <= Sections[i].size
    BY <2>2, HalfOf
  <2>4. ShmSize \in Nat /\ Word \in Nat /\ FileSize \in Nat /\ FileSize + 51 < Word
    BY ConstantsAre
  <2> HIDE DEF half
  <2> QED
    BY <2>1, <2>2, <2>3, <2>4
<1>3. o \in {0, half} /\ n \in {5, half}
  BY <1>1
<1> HIDE DEF half, o, n
<1>4. o \in Nat /\ n \in Nat /\ n <= ShmSize /\ o + n < Word /\ Sections[i].offset + o \in Nat
  BY <1>2, <1>3
<1>5. Request("READ_FROM_FILE_SECTION", <<i, o, n>>, "SUCCESS") \in Seq(Steps)
  BY <1>2, <1>4, ThreeNumbers
<1>6. Compare(Copied(Sections[i].offset + o, n), 2) \in Seq(Steps)
  BY <1>4, ContentsAre, SmallSteps
<1> QED
  BY <1>1, <1>5, <1>6, StepsJoined DEF PartScript, o, n
-----------------------------------------------------------------------------
(* The rest of a step *)

\* Of a request that is whole what is left to write is whole, and with what is written
\* it is the same as before.
LEMMA MoreWritten ==
  ASSUME NEW r \in Seq(Tokens), NEW w \in WholeRequests, w # << >>
  PROVE  /\ Tail(w) \in WholeRequests /\ Head(w) \in Tokens
         /\ Append(r, Head(w)) \in Seq(Tokens)
         /\ Append(r, Head(w)) \o Tail(w) = r \o w
<1>1. w \in Seq(Tokens) /\ Len(w) \in Nat \ {0} /\ 1 \in 0..Len(w) /\ 1 \in 1..Len(w)
  <2>1. w \in Seq(Tokens)
    BY DEF WholeRequests
  <2> QED
    BY <2>1, EmptySeq
<1>2. /\ Head(w) \in Tokens /\ Tail(w) \in Seq(Tokens)
      /\ Tail(w) = SubSeq(w, 2, Len(w))
  BY ONLY <1>1, w # << >>, HeadTailProperties, TailIsSubSeq
<1>3. Tail(w) \in WholeRequests
  <2>1. SubSeq(w, 1 + 1, Len(w)) \in WholeRequests
    BY <1>1, ReadWhole
  <2>2. 1 + 1 = 2
    OBVIOUS
  <2> QED
    BY ONLY <2>1, <2>2, <1>2, Zenon
<1>4. w = << Head(w) >> \o Tail(w)
  <2>1. SubSeq(w, 1, Len(w)) = << w[1] >> \o SubSeq(w, 1 + 1, Len(w))
    <3>1. Len(w) \in 1..Len(w)
      BY <1>1
    <3> QED
      BY ONLY <1>1, <3>1, SubSeqRecursiveFirst
  <2>2. SubSeq(w, 1, Len(w)) = w
    BY <1>1, SubSeqFull
  <2>3. w[1] = Head(w)
    BY <1>1
  <2> QED
    BY <2>1, <2>2, <2>3, <1>2
<1>5. Append(r, Head(w)) = r \o << Head(w) >> /\ Append(r, Head(w)) \in Seq(Tokens)
  BY <1>2, AppendIsConcat, AppendProperties
<1>6. << Head(w) >> \in Seq(Tokens)
  BY <1>2
<1>7. (r \o << Head(w) >>) \o Tail(w) = r \o (<< Head(w) >> \o Tail(w))
  BY ONLY r \in Seq(Tokens), <1>2, <1>6, TokensJoined
<1> QED
  BY <1>2, <1>3, <1>4, <1>5, <1>7

\* What a thread at `place` with the script s has still to write.
LEMMA AskWhole ==
  ASSUME NEW s \in Seq(Steps), s # << >>, Head(s).do = "ask"
  PROVE  Head(s).words \in WholeRequests /\ Head(s).words # << >>
<1>1. Head(s) \in Steps
  BY HeadTailProperties
<1> QED
  BY <1>1 DEF Steps

LEMMA UnwrittenWhole ==
  ASSUME script' \in Seq(Steps)
  PROVE  Unwritten' \in WholeRequests /\ Unwritten' \in Seq(Tokens)
<1>1. CASE Doing("ask")'
  BY <1>1, AskWhole DEF Unwritten, Doing, WholeRequests
<1>2. CASE ~ Doing("ask")'
  <2>1. Unwritten' = << >>
    BY <1>2 DEF Unwritten
  <2> QED
    BY <2>1, OneTokenWhole DEF WholeRequests
<1> QED
  BY <1>1, <1>2

\* One word: more of them to come, or the next step of the script.
LEMMA AskMoves ==
  ASSUME Inv, AskStep
  PROVE  /\ requests' \in Seq(Tokens) /\ script' \in Seq(Steps)
         /\ \/ /\ Coming' = Coming /\ Unwritten' = Tail(Unwritten) /\ Doing("ask")'
               /\ Tail(script') = Tail(script)
            \/ /\ script' = Tail(script)
               /\ requests' = Coming /\ Coming' = Coming \o Unwritten'
<1> DEFINE w == Head(script).words
<1>1. /\ script # << >> /\ Head(script).do = "ask" /\ Unwritten = w /\ thread = "test"
      /\ requests' = Append(requests, Head(w)) /\ thread' = thread
      /\ script' = (IF Len(w) = 1 THEN << >> ELSE << [do |-> "ask", words |-> Tail(w)] >>)
                      \o Tail(script)
  BY DEF AskStep, Doing, Unwritten
<1>2. script \in Seq(Steps) /\ requests \in Seq(Tokens)
  BY DEF Inv, TypeOK
<1>3. w \in WholeRequests /\ w # << >>
  BY <1>1, <1>2, AskWhole
<1>4. Tail(script) \in Seq(Steps)
  BY <1>1, <1>2, HeadTailProperties
<1> HIDE DEF w
<1>5. /\ Tail(w) \in WholeRequests /\ requests' \in Seq(Tokens)
      /\ requests' \o Tail(w) = requests \o w
  BY <1>1, <1>2, <1>3, MoreWritten
<1>6. w \in Seq(Tokens) /\ Len(w) \in Nat \ {0} /\ Tail(w) \in Seq(Tokens)
      /\ Len(Tail(w)) = Len(w) - 1
  <2>1. w \in Seq(Tokens)
    BY <1>3 DEF WholeRequests
  <2> QED
    BY ONLY <2>1, <1>3, EmptySeq, HeadTailProperties
<1>7. CASE Len(w) = 1
  <2>1. script' = Tail(script)
    <3>1. script' = << >> \o Tail(script)
      BY <1>1, <1>7
    <3> QED
      BY ONLY <3>1, <1>4, ConcatEmptySeq
  <2>2. Tail(w) = << >>
    <3> DEFINE v == Tail(w)
    <3>1. v \in Seq(Tokens) /\ Len(v) = 0
      BY <1>6, <1>7
    <3> HIDE DEF v
    <3>2. v = << >>
      BY ONLY <3>1, EmptySeq
    <3> QED
      BY <3>2 DEF v
  <2>3. requests' = Coming
    BY <1>1, <1>5, <2>2, ConcatEmptySeq DEF Coming
  <2> QED
    BY <1>4, <1>5, <2>1, <2>3 DEF Coming
<1>8. CASE Len(w) # 1
  <2> DEFINE ask == [do |-> "ask", words |-> Tail(w)]
  <2>1. Tail(w) # << >>
    <3>1. Len(Tail(w)) # 0
      BY ONLY <1>6, <1>8
    <3> QED
      BY ONLY <3>1, EmptySeq
  <2>2. ask \in Steps
    BY <1>5, <2>1 DEF Steps
  <2>3. script' = << ask >> \o Tail(script)
    BY <1>1, <1>8
  <2> HIDE DEF ask
  <2>4. script' \in Seq(Steps) /\ script' # << >> /\ Head(script') = ask
        /\ Tail(script') = Tail(script)
    <3>1. << ask >> \in Seq(Steps)
      BY <2>2
    <3>2. script' \in Seq(Steps) /\ script' # << >>
      BY <2>3, <3>1, <1>4, ConcatProperties, ConcatEqualIffEmpty
    <3>3. Head(script') = ask /\ Tail(script') = Tail(script)
      BY <2>2, <2>3, <1>4
    <3> QED
      BY <3>2, <3>3
  <2>5. Doing("ask")' /\ Unwritten' = Tail(w)
    BY <1>1, <2>4 DEF Doing, Unwritten, ask
  <2> QED
    BY <1>1, <1>5, <2>4, <2>5 DEF Coming
<1> QED
  BY <1>7, <1>8

LEMMA ThreadSendsWhole ==
  ASSUME Inv, Thread
  PROVE  RequestsOK' /\ requests' \in Seq(Tokens) /\ script' \in Seq(Steps)
<1> USE DEF Inv, TypeOK, PipesOK, RequestsOK, Go, Quiet, PipesKept
<1>1. /\ Coming \in WholeRequests /\ requests \in Seq(Tokens) /\ perform # "exited"
      /\ ~ unread
  BY ComingIs DEF WholeRequests, Thread, MainOK
<1>2. ASSUME NEW w \in WholeRequests, Coming' = Coming \o w, requests' \in Seq(Tokens),
             UNCHANGED <<server, command, numbers, unread, resEnds>>
      PROVE  RequestsOK' /\ requests' \in Seq(Tokens)
  <2>1. /\ Coming' \in WholeRequests
        /\ \A c \in DOMAIN Arguments :
             ArgsAfter(c, Coming, 0) => ArgsAfter(c, Coming', 0)
    BY <1>1, <1>2, SentWhole
  <2> QED
    BY <1>2, <2>1 DEF WholeRequests
<1>3. ASSUME ~ Doing("ask"), script' \in Seq(Steps),
             UNCHANGED <<requests, server, command, numbers, unread, resEnds>>
      PROVE  RequestsOK' /\ requests' \in Seq(Tokens)
  <2>1. Coming = requests
    BY <1>1, <1>3, ConcatEmptySeq DEF Coming, Unwritten
  <2>2. Coming' = Coming \o Unwritten' /\ Unwritten' \in WholeRequests
    BY <1>3, <2>1, UnwrittenWhole DEF Coming
  <2> QED
    BY <1>1, <1>2, <1>3, <2>2
<1>4. ASSUME script # <<>>
      PROVE  Head(script) \in Steps /\ Tail(script) \in Seq(Steps)
  BY <1>4, HeadTailProperties
<1>5. ASSUME thread # "test", thread' # "test", script' = script, UNCHANGED requests
      PROVE  /\ Coming = requests /\ Coming' = Coming /\ requests' \in Seq(Tokens)
             /\ script' \in Seq(Steps)
  BY <1>1, <1>5, ConcatEmptySeq DEF Coming, Unwritten, Doing
<1>6. CASE MakePipe
  <2>1. requests' = <<>> /\ server' = "gone" /\ script' = script /\ thread' = "popen"
    BY <1>6 DEF MakePipe, serverVars
  <2>2. Coming' = <<>>
    BY <2>1, ConcatEmptySeq, OneTokenWhole DEF Coming, Unwritten, Doing, WholeRequests
  <2> QED
    BY <2>1, <2>2, OneTokenWhole DEF WholeRequests
<1>7. CASE Popen
  <2>1. /\ Coming' = Coming /\ requests' \in Seq(Tokens) /\ script' \in Seq(Steps)
        /\ server' = "mkfifo"
    BY <1>7, <1>5 DEF Popen, pipeVars
  <2> QED
    BY <2>1
<1>8. CASE OpenCmd
  <2>1. /\ Coming' = Coming /\ requests' \in Seq(Tokens) /\ script' \in Seq(Steps)
    BY <1>8, <1>5 DEF OpenCmd
  <2> QED
    BY <1>8, <2>1 DEF OpenCmd, serverVars
<1>9. CASE OpenRes
  <2>1. /\ Coming' = Coming /\ requests' \in Seq(Tokens) /\ script' \in Seq(Steps)
    BY <1>9, <1>5 DEF OpenRes
  <2>2. server # "echo"
    BY <1>1, <1>9 DEF OpenRes, Greeting, Opening, Busy
  <2> QED
    BY <1>9, <2>1, <2>2 DEF OpenRes, serverVars
<1>10. CASE ReadConnect
  <2>1. script' = script \/ script' = Script(Session[test])
    BY <1>10 DEF ReadConnect
  <2>2. test \in 1..Len(Session)
    <3>1. thread # "done" /\ test \in 0..Len(Session) /\ Len(Session) \in Nat
      BY <1>10, ConstantsAre DEF ReadConnect
    <3>2. test >= 1
      BY <3>1 DEF MainOK
    <3> QED
      BY <3>1, <3>2
  <2>3. script' \in Seq(Steps)
    BY <2>1, <2>2, ConstantsAre, Scripts
  <2>4. ~ Doing("ask") /\ UNCHANGED <<requests, server, command, numbers, unread, resEnds>>
    BY <1>10 DEF ReadConnect, Doing, serverVars
  <2> QED
    BY <1>3, <2>3, <2>4
<1>11. CASE AskStep
  <2>1. UNCHANGED <<server, command, numbers, unread, resEnds>>
    BY <1>11 DEF AskStep, serverVars
  <2>2. requests' \in Seq(Tokens) /\ script' \in Seq(Steps)
    BY <1>11, AskMoves
  <2>3. Unwritten' \in WholeRequests
    BY <2>2, UnwrittenWhole
  <2>4. Coming' = Coming \/ Coming' = Coming \o Unwritten'
    BY <1>11, AskMoves
  <2>5. CASE Coming' = Coming
    BY <2>1, <2>2, <2>5
  <2>6. CASE Coming' = Coming \o Unwritten'
    BY <1>2, <2>1, <2>2, <2>3, <2>6
  <2> QED
    BY <2>2, <2>4, <2>5, <2>6
<1>12. CASE ReadStep
  <2>1. /\ ~ Doing("ask") /\ script # <<>> /\ script' \in {script, Tail(script)}
        /\ UNCHANGED <<requests, server, command, numbers, unread, resEnds>>
    BY <1>12 DEF ReadStep, Doing, Proceed, ProceedIf, serverVars
  <2> QED
    BY <1>3, <1>4, <2>1
<1>13. CASE RemoveStep
  <2>1. /\ ~ Doing("ask") /\ script # <<>> /\ script' \in {script, Tail(script)}
        /\ UNCHANGED <<requests, server, command, numbers, unread, resEnds>>
    BY <1>13 DEF RemoveStep, Doing, Proceed, pipeVars, serverVars
  <2> QED
    BY <1>3, <1>4, <2>1
<1>14. CASE FindStep
  <2>1. /\ ~ Doing("ask") /\ script # <<>> /\ script' \in {script, Tail(script)}
        /\ UNCHANGED <<requests, server, command, numbers, unread, resEnds>>
    BY <1>14 DEF FindStep, Doing, Proceed, ProceedIf, pipeVars, serverVars
  <2> QED
    BY <1>3, <1>4, <2>1
<1>15. CASE PointsStep
  <2>1. /\ ~ Doing("ask") /\ script # <<>> /\ script' \in {script, Tail(script)}
        /\ UNCHANGED <<requests, server, command, numbers, unread, resEnds>>
    BY <1>15 DEF PointsStep, Doing, Proceed, pipeVars, serverVars
  <2> QED
    BY <1>3, <1>4, <2>1
<1>16. CASE SectionStep
  <2>1. PICK p \in Parts : script' = PartScript(p) \o Tail(script)
    BY <1>16 DEF SectionStep
  <2>2. /\ ~ Doing("ask") /\ script # <<>>
        /\ UNCHANGED <<requests, server, command, numbers, unread, resEnds>>
    BY <1>16 DEF SectionStep, Doing, serverVars, pipeVars
  <2>3. script' \in Seq(Steps)
    BY <1>4, <2>1, <2>2, PartScripts, StepsJoined
  <2> QED
    BY <1>3, <2>2, <2>3
<1>17. CASE SayExit
  <2>1. /\ requests' = Append(requests, Str("EXIT")) /\ ~ Doing("ask") /\ thread' # "test"
        /\ UNCHANGED <<script, server, command, numbers, unread, resEnds>>
    BY <1>17 DEF SayExit, serverVars, Doing
  <2>2. Append(requests, Str("EXIT")) = requests \o <<Str("EXIT")>>
        /\ requests \o <<Str("EXIT")>> \in Seq(Tokens)
    BY <1>1, OneTokenWhole, ConcatProperties DEF WholeRequests
  <2>3. Coming = requests /\ Coming' = requests'
    BY <1>1, <2>1, <2>2, ConcatEmptySeq DEF Coming, Unwritten, Doing
  <2> QED
    BY <1>2, <2>1, <2>2, <2>3, OneTokenWhole
<1>18. CASE WaitForA3
  <2>1. /\ Coming' = Coming /\ requests' \in Seq(Tokens) /\ script' \in Seq(Steps)
    BY <1>18, <1>5 DEF WaitForA3, pipeVars
  <2> QED
    BY <1>18, <2>1 DEF WaitForA3, serverVars, pipeVars
<1>19. CASE Close
  <2>1. /\ Coming' = Coming /\ requests' \in Seq(Tokens) /\ script' \in Seq(Steps)
    BY <1>19, <1>5 DEF Close
  <2> QED
    BY <1>19, <2>1 DEF Close, serverVars
<1> QED
  BY <1>6, <1>7, <1>8, <1>9, <1>10, <1>11, <1>12, <1>13, <1>14, <1>15, <1>16, <1>17,
     <1>18, <1>19 DEF Thread

\* The memory changes when a3 acts on a request, and at no other step; what the names
\* and the pointer of a3 stand for may.
LEMMA OthersKeepMemory ==
  ASSUME Inv, UNCHANGED <<memory, memorySize>>, unread => unread',
         region' = None \/ UNCHANGED <<region, size>>
  PROVE  MemoryOK'
BY DEF Inv, TypeOK, MemoryOK, MemorySafe
-----------------------------------------------------------------------------
(* The rest of the types, and the theorems *)

LEMMA ServerKeepsTypes ==
  ASSUME Inv, Server PROVE TypeOK' /\ MemoryOK'
<1> USE DEF Inv, TypeOK
<1>1. /\ UNCHANGED <<test, perform, scores, ended, strays>>
      /\ UNCHANGED <<thread, points, score, killed, script>>
  BY DEF Server, mainVars, threadVars
<1>2. requests' \in Seq(Tokens)
  BY ServerReadsWhole
<1>3. test \in Nat /\ Len(Session) \in Nat /\ test <= Len(Session) /\ None = Len(Session) + 1
  BY ConstantsAre DEF None
<1>4. CASE SetupPipe
  BY <1>1, <1>2, <1>4, OthersKeepMemory
     DEF SetupPipe, Perish, Serve, memoryVars, ServerPlaces, Connected, Busy
<1>5. CASE OpenPipe
  <2>1. UNCHANGED <<memoryVars, cmdName, resName, region, size, unread>>
    BY <1>5 DEF OpenPipe
  <2>2. MemoryOK'
    BY <2>1, OthersKeepMemory DEF memoryVars
  <2>3. /\ server' \in ServerPlaces
        /\ cmdEnds' \subseteq {"a3", "tester"} /\ resEnds' \subseteq {"a3", "tester"}
    BY <1>5 DEF OpenPipe, After, RequestFirst, ServerPlaces, Connected
  <2> QED
    BY <1>1, <1>2, <2>1, <2>2, <2>3 DEF memoryVars
<1>6. CASE Connect
  BY <1>1, <1>2, <1>6, OthersKeepMemory
     DEF Connect, Say, Perish, memoryVars, ServerPlaces, Connected, Busy
<1>7. CASE ReadCommand
  BY <1>1, <1>2, <1>7, OthersKeepMemory
     DEF ReadCommand, memoryVars, ServerPlaces, Connected, Busy
<1>8. CASE ReadNothing
  BY <1>1, <1>2, <1>8, OthersKeepMemory
     DEF ReadNothing, memoryVars, ServerPlaces, Connected, Busy
<1>9. CASE Echo
  BY <1>1, <1>2, <1>9, OthersKeepMemory
     DEF Echo, Say, Perish, memoryVars, ServerPlaces, Connected, Busy
<1>10. CASE ReadArguments
  BY <1>1, <1>2, <1>10, OthersKeepMemory
     DEF ReadArguments, Serve, memoryVars, ServerPlaces, Connected, Busy
<1>11. CASE Act
  <2>1. server' = "reply" /\ UNCHANGED <<pipeVars, unread>>
    BY <1>11 DEF Act, Result, Serve
  <2>2. /\ ~ unread => /\ MemoryOK' /\ size' \in Nat
                       /\ memory' \in [0..Len(Session) -> Contents]
                       /\ memorySize' \in [0..Len(Session) -> Nat]
        /\ unread => MemoryOK'
    BY <1>11, <2>1, ActKeepsMemory DEF MemoryOK
  <2>3. shmName' \in 0..test \cup {None} /\ region' \in 0..None
    <3>1. CASE command = "CREATE_SHM"
      <4> DEFINE object == IF shmName = None THEN test ELSE shmName
      <4>1. object \in 0..test
        BY <1>3
      <4>2. shmName' = object /\ region' \in {None, object}
        BY <1>11, <3>1 DEF Act
      <4> HIDE DEF object
      <4> QED
        BY <4>1, <4>2, <1>3
    <3>2. CASE command # "CREATE_SHM"
      <4>1. shmName' = shmName /\ region' = region
        BY <1>11, <3>2 DEF Act, memoryVars
      <4> QED
        BY <4>1
    <3> QED
      BY <3>1, <3>2
  <2>4. server' \in ServerPlaces
    BY <2>1 DEF ServerPlaces, Connected, Busy
  <2> QED
    BY <1>1, <1>2, <2>1, <2>2, <2>3, <2>4 DEF pipeVars
<1>12. CASE Reply
  BY <1>1, <1>2, <1>12, OthersKeepMemory
     DEF Reply, Say, Perish, memoryVars, ServerPlaces, Connected, Busy
<1>13. CASE Exit
  <2>1. region' = None /\ UNCHANGED <<memory, memorySize, unread>>
    BY <1>13 DEF Exit
  <2>2. MemoryOK'
    BY <2>1, OthersKeepMemory
  <2>3. None \in 0..None
    BY <1>3
  <2>4. shmName' \in 0..test \cup {None}
    BY <1>13 DEF Exit, NameAfterExit
  <2>5. /\ server' \in ServerPlaces /\ resName' \in BOOLEAN
        /\ cmdEnds' \subseteq {"a3", "tester"} /\ resEnds' \subseteq {"a3", "tester"}
        /\ UNCHANGED <<cmdName, size>>
    BY <1>13 DEF Exit, Serve, ServerPlaces
  <2> QED
    BY <1>1, <1>2, <2>1, <2>2, <2>3, <2>4, <2>5
<1> QED
  BY <1>4, <1>5, <1>6, <1>7, <1>8, <1>9, <1>10, <1>11, <1>12, <1>13 DEF Server

LEMMA ThreadKeepsTypes ==
  ASSUME Inv, Thread PROVE TypeOK' /\ MemoryOK'
<1> USE DEF Inv, TypeOK, Go, Quiet, PipesKept
<1>1. /\ UNCHANGED <<test, perform, scores, ended, strays>>
      /\ requests' \in Seq(Tokens) /\ script' \in Seq(Steps)
  BY ThreadSendsWhole DEF Thread, mainVars
<1>2. test \in Nat /\ Len(Session) \in Nat /\ test <= Len(Session) /\ None = Len(Session) + 1
  BY ConstantsAre DEF None
<1>3. ASSUME UNCHANGED <<cmdName, resName, cmdEnds, resEnds>>, UNCHANGED <<serverVars, memoryVars>>,
             thread' \in ThreadPlaces, points' \in Nat, score' \in Nat, killed' \in BOOLEAN
      PROVE  TypeOK' /\ MemoryOK'
  BY <1>1, <1>3, OthersKeepMemory DEF serverVars, memoryVars
<1>4. ASSUME UNCHANGED <<points, score, killed>>, UNCHANGED <<serverVars, memoryVars>>,
             thread' \in ThreadPlaces, cmdName' \in BOOLEAN, resName' \in BOOLEAN,
             cmdEnds' \subseteq {"a3", "tester"}, resEnds' \subseteq {"a3", "tester"}
      PROVE  TypeOK' /\ MemoryOK'
  BY <1>1, <1>4, OthersKeepMemory DEF serverVars, memoryVars
<1> USE DEF ThreadPlaces, Greeting, Opening, Making, Testing
<1>5. CASE MakePipe
  BY <1>4, <1>5 DEF MakePipe
<1>6. CASE Popen
  <2>1. /\ region' = None /\ size' = 0 /\ UNCHANGED <<unread, memoryVars, pipeVars>>
        /\ UNCHANGED <<points, score>> /\ killed' = FALSE
        /\ thread' \in ThreadPlaces /\ server' \in ServerPlaces
    BY <1>6 DEF Popen, ServerPlaces
  <2>2. MemoryOK'
    BY <2>1, OthersKeepMemory DEF memoryVars
  <2>3. region' \in 0..None /\ size' \in Nat /\ killed' \in BOOLEAN
    <3>1. None \in 0..None
      BY ONLY <1>2
    <3>2. region' = None /\ size' = 0 /\ killed' = FALSE
      BY <2>1
    <3> QED
      BY ONLY <3>1, <3>2
  <2>4. UNCHANGED <<cmdName, resName, cmdEnds, resEnds, shmName, memory, memorySize, unread,
                    points, score>>
    BY <2>1 DEF memoryVars, pipeVars
  <2> QED
    BY <1>1, <2>1, <2>2, <2>3, <2>4
<1>7. CASE OpenCmd
  BY <1>4, <1>7 DEF OpenCmd
<1>8. CASE OpenRes
  BY <1>4, <1>8 DEF OpenRes
<1>9. CASE ReadConnect
  <2>1. /\ UNCHANGED <<cmdName, resName, cmdEnds, resEnds, points>>
        /\ UNCHANGED <<serverVars, memoryVars>>
        /\ thread' \in ThreadPlaces /\ score' \in {score, score + 1} /\ killed' \in {killed, TRUE}
    BY <1>9 DEF ReadConnect
  <2>2. score' \in Nat /\ points' \in Nat
    BY <2>1
  <2>3. killed' \in BOOLEAN
    BY <2>1
  <2> QED
    BY <1>3, <2>1, <2>2, <2>3
<1>10. CASE AskStep
  BY <1>3, <1>10 DEF AskStep
<1>11. CASE ReadStep
  BY <1>3, <1>11 DEF ReadStep, Proceed, ProceedIf
<1>12. CASE RemoveStep
  <2>1. /\ UNCHANGED <<points, score, killed, thread>>
        /\ UNCHANGED <<pipeVars, serverVars, memory, memorySize>> /\ shmName' = None
    BY <1>12 DEF RemoveStep, Proceed
  <2>2. MemoryOK'
    BY <2>1, OthersKeepMemory DEF serverVars
  <2> QED
    BY <1>1, <2>1, <2>2 DEF serverVars, pipeVars
<1>13. CASE FindStep
  BY <1>3, <1>13 DEF FindStep, Proceed, ProceedIf, pipeVars
<1>14. CASE PointsStep
  <2>1. script # <<>> /\ Head(script) \in Steps /\ Head(script).do \in {"points", "compare"}
    BY <1>14, HeadTailProperties DEF PointsStep, Doing
  <2>2. Head(script).n \in Nat
    BY <2>1 DEF Steps
  <2>3. points \in Nat
    OBVIOUS
  <2>4. points' \in Nat
    BY ONLY <1>14, <2>2, <2>3 DEF PointsStep
  <2>5. UNCHANGED <<score, killed, thread, pipeVars, serverVars, memoryVars>>
    BY <1>14 DEF PointsStep, Proceed
  <2> QED
    BY <1>3, <2>4, <2>5 DEF pipeVars
<1>15. CASE SectionStep
  BY <1>3, <1>15 DEF SectionStep, pipeVars
<1>16. CASE SayExit
  BY <1>3, <1>16 DEF SayExit
<1>17. CASE WaitForA3
  BY <1>3, <1>17 DEF WaitForA3, pipeVars
<1>18. CASE Close
  BY <1>4, <1>18 DEF Close
<1> QED
  BY <1>5, <1>6, <1>7, <1>8, <1>9, <1>10, <1>11, <1>12, <1>13, <1>14, <1>15, <1>16,
     <1>17, <1>18 DEF Thread

LEMMA MainKeepsTypes ==
  ASSUME Inv, Main PROVE TypeOK' /\ RequestsOK' /\ MemoryOK'
<1> USE DEF Inv, TypeOK
<1>1. << >> \in Seq(Steps) /\ test \in Nat /\ Len(Session) \in Nat /\ test <= Len(Session)
      /\ None = Len(Session) + 1
  BY ConstantsAre DEF None
<1>2. /\ UNCHANGED <<memory, memorySize, unread>>
      /\ region' = None \/ UNCHANGED <<region, size>>
  BY DEF Main, Start, Join, Expire, StartBeside, EndBeside, StraysGone, Leave, threadVars,
     pipeVars, serverVars, memoryVars
<1>3. MemoryOK'
  BY <1>2, OthersKeepMemory
<1>4. ASSUME NEW n \in Nat, NEW how \in {"whole", "stuck", "cut", "beside"},
             scores' = Append(scores, n), ended' = Append(ended, how)
      PROVE  /\ scores' \in Seq(Nat) /\ Len(scores') = Len(scores) + 1
             /\ ended' \in Seq({"whole", "stuck", "cut", "beside"})
             /\ Len(ended') = Len(ended) + 1
  BY <1>4, AppendProperties
<1>5. Len(scores) \in Nat /\ Len(ended) \in Nat
  BY LenProperties
\* Nothing of a request changes, where the thread stays, or is at no step of a script.
<1>6. ASSUME UNCHANGED <<thread, script, serverVars, requests>>, resEnds' \subseteq resEnds
      PROVE  RequestsOK'
  <2>1. Coming' = Coming
    BY <1>6 DEF Coming, Unwritten, Doing
  <2> QED
    BY <1>6, <2>1 DEF RequestsOK, serverVars
<1>7. CASE Start
  <2>1. /\ test < Len(Session) /\ test' = test + 1 /\ perform = "main" /\ perform' = "join"
        /\ thread = "done" /\ thread' = "start" /\ script' = << >> /\ points' = 0 /\ score' = 0
        /\ UNCHANGED <<scores, ended, strays, killed, pipeVars, serverVars, memoryVars>>
    BY <1>7 DEF Start, Alone
  <2>2. Coming' = Coming
    BY <2>1 DEF Coming, Unwritten, Doing, pipeVars
  <2>3. RequestsOK'
    BY <2>1, <2>2 DEF RequestsOK, pipeVars, serverVars
  <2>4. shmName' \in 0..test' \cup {None}
    BY <1>1, <2>1 DEF memoryVars
  <2> QED
    BY <1>1, <1>3, <1>5, <2>1, <2>3, <2>4
       DEF pipeVars, serverVars, memoryVars, ThreadPlaces, Greeting, Opening, Making
<1>8. CASE Join
  <2>1. /\ perform = "join" /\ perform' = "main"
        /\ scores' = Append(scores, score) /\ ended' = Append(ended, "whole")
        /\ UNCHANGED <<test, strays, threadVars, pipeVars, serverVars, memoryVars>>
    BY <1>8 DEF Join
  <2>2. RequestsOK'
    BY <1>6, <2>1 DEF threadVars, pipeVars
  <2> QED
    BY <1>1, <1>3, <1>4, <1>5, <2>1, <2>2 DEF threadVars, pipeVars, serverVars, memoryVars
<1>9. CASE Expire
  <2>1. /\ perform = "join" /\ perform' = "main" /\ killed' \in BOOLEAN
        /\ scores' = Append(scores, 0)
        /\ \/ ended' = Append(ended, "stuck") \/ ended' = Append(ended, "cut")
        /\ UNCHANGED <<test, strays, thread, points, score, script, pipeVars, serverVars,
                       memoryVars>>
    BY <1>9 DEF Expire
  <2>2. RequestsOK'
    BY <1>6, <2>1 DEF pipeVars
  <2>3. /\ scores' \in Seq(Nat) /\ Len(scores') = Len(scores) + 1
        /\ ended' \in Seq({"whole", "stuck", "cut", "beside"})
        /\ Len(ended') = Len(ended) + 1
    BY <1>4, <2>1
  <2> QED
    BY <1>1, <1>3, <1>5, <2>1, <2>2, <2>3 DEF pipeVars, serverVars, memoryVars
<1>10. CASE StartBeside
  <2>1. /\ test < Len(Session) /\ test' = test + 1 /\ perform = "main" /\ perform' = "beside"
        /\ strays' = TRUE /\ thread' = "done" /\ script' = << >> /\ server' = "gone"
        /\ cmdEnds' = {} /\ resEnds' = {} /\ requests' = << >> /\ region' = None /\ size' = 0
        /\ UNCHANGED <<scores, ended, points, score, killed, cmdName, resName, unread,
                       memoryVars>>
    BY <1>10 DEF StartBeside
  <2>2. Coming' = << >>
    BY <2>1, OneTokenWhole, ConcatEmptySeq DEF Coming, Unwritten, Doing, WholeRequests
  <2>3. RequestsOK'
    BY <2>1, <2>2, OneTokenWhole DEF RequestsOK, WholeRequests
  <2>4. shmName' \in 0..test' \cup {None} /\ region' \in 0..None
    BY <1>1, <2>1 DEF memoryVars
  <2> QED
    BY <1>1, <1>3, <1>5, <2>1, <2>3, <2>4 DEF memoryVars, ThreadPlaces, ServerPlaces
<1>11. CASE EndBeside
  <2>1. /\ perform = "beside" /\ perform' \in {"main", "exited"}
        /\ scores' = Append(scores, 0) /\ ended' = Append(ended, "beside")
        /\ UNCHANGED <<test, strays, threadVars, pipeVars, serverVars, memoryVars>>
    BY <1>11 DEF EndBeside
  <2>2. RequestsOK'
    BY <1>6, <2>1 DEF threadVars, pipeVars
  <2> QED
    BY <1>1, <1>3, <1>4, <1>5, <2>1, <2>2 DEF threadVars, pipeVars, serverVars, memoryVars
<1>12. CASE StraysGone
  <2>1. /\ perform' = perform /\ strays' = FALSE
        /\ cmdName' \in BOOLEAN /\ resName' \in BOOLEAN /\ shmName' \in {None, Left}
        /\ UNCHANGED <<test, scores, ended, threadVars, cmdEnds, resEnds, requests, serverVars,
                       memory, memorySize>>
    BY <1>12 DEF StraysGone
  <2>2. RequestsOK'
    BY <1>6, <2>1 DEF threadVars
  <2>3. shmName' \in 0..test' \cup {None}
    BY <1>1, <2>1 DEF Left
  <2> QED
    BY <1>3, <2>1, <2>2, <2>3 DEF threadVars, serverVars
<1>13. CASE Leave
  <2>1. /\ perform = "main" /\ perform' = "exited"
        /\ cmdEnds' \subseteq cmdEnds /\ resEnds' \subseteq resEnds
        /\ UNCHANGED <<test, scores, ended, strays, threadVars, cmdName, resName, requests,
                       serverVars, memoryVars>>
    BY <1>13 DEF Leave
  <2>2. RequestsOK'
    BY <1>6, <2>1 DEF threadVars
  <2> QED
    BY <1>3, <2>1, <2>2 DEF threadVars, serverVars, memoryVars
<1> QED
  BY <1>7, <1>8, <1>9, <1>10, <1>11, <1>12, <1>13 DEF Main

\* The inductive invariant.
THEOREM ServerInvariance == Spec => []Inv
<1>1. Init => Inv
  <2> SUFFICES ASSUME Init PROVE Inv
    OBVIOUS
  <2> USE ConstantsAre DEF Init
  <2>1. TypeOK
    <3>1. /\ test \in 0..Len(Session) /\ None = Len(Session) + 1 /\ Len(Session) \in Nat
          /\ shmName \in 0..test \cup {None} /\ region \in 0..None
      BY DEF None, Left
    <3>2. /\ thread \in ThreadPlaces /\ server \in ServerPlaces
          /\ scores \in Seq(Nat) /\ ended \in Seq({"whole", "stuck", "cut", "beside"})
          /\ Len(scores) = test /\ Len(ended) = test
          /\ script \in Seq(Steps) /\ requests \in Seq(Tokens)
      BY DEF ThreadPlaces, ServerPlaces
    <3>3. /\ memory \in [0..Len(Session) -> Contents]
          /\ memorySize \in [0..Len(Session) -> Nat]
      BY DEF Contents, Zero
    <3> QED
      BY <3>1, <3>2, <3>3 DEF TypeOK
  <2>2. MainOK /\ PipesOK /\ LeftOK
    BY DEF MainOK, PipesOK, LeftOK, Own, None, Left, Greeting, Opening, Making, Testing,
       Connected, Busy
  <2>3. RequestsOK
    <3>1. Coming = << >>
      BY OneTokenWhole, ConcatEmptySeq DEF Coming, Unwritten, Doing, WholeRequests
    <3> QED
      BY <3>1, OneTokenWhole DEF RequestsOK, WholeRequests
  <2>4. MemoryOK
    BY DEF MemoryOK, MemorySafe, Zero
  <2> QED
    BY <2>1, <2>2, <2>3, <2>4 DEF Inv
<1>2. Inv /\ [Next]_vars => Inv'
  <2> SUFFICES ASSUME Inv, [Next]_vars PROVE Inv'
    OBVIOUS
  <2>1. CASE Main
    BY <2>1, MainKeepsTypes, MainKeepsPipes, MainLeavesNothing DEF Inv
  <2>2. CASE Thread
    BY <2>2, ThreadKeepsTypes, ThreadSendsWhole, ThreadKeepsPipes, ThreadLeavesNothing DEF Inv
  <2>3. CASE Server
    BY <2>3, ServerKeepsTypes, ServerReadsWhole, ServerKeepsPipes, ServerLeavesNothing DEF Inv
  <2>4. CASE UNCHANGED vars
    BY <2>4 DEF vars, mainVars, threadVars, pipeVars, memoryVars, serverVars, Inv, TypeOK,
       MainOK, PipesOK, RequestsOK, Coming, Unwritten, Doing, MemoryOK, MemorySafe, LeftOK,
       Own
  <2> QED
    BY <2>1, <2>2, <2>3, <2>4 DEF Next
<1> QED
  BY <1>1, <1>2, PTL DEF Spec

\* a3 writes and copies within the shared memory and the file, for whatever sizes of
\* memory, file and sections, for any tests in any order, and wherever the time limit
\* strikes, but for the numbers that the end of the tester left unwritten.
THEOREM MemorySafeHolds == Spec => []MemorySafe
<1>1. Inv => MemorySafe
  BY DEF Inv, MemoryOK, MemorySafe
<1> QED
  BY <1>1, ServerInvariance, PTL

\* A test that began alone and came to its end leaves no pipe, no process and no memory
\* behind, whatever became of the tests before it.
THEOREM NothingLeftHolds == Spec => []NothingLeft
<1>1. Inv => NothingLeft
  <2> SUFFICES ASSUME Inv, perform = "main", NEW i \in DOMAIN scores, i = test, scores[i] > 0,
                      ended[i] = "whole"
               PROVE  /\ thread = "done" /\ server = "gone" /\ ~ cmdName /\ ~ resName
                      /\ shmName # test
    BY DEF NothingLeft
  <2>1. test > 0
    <3>1. DOMAIN scores = 1..Len(scores)
      BY DEF Inv, TypeOK
    <3> QED
      BY <3>1
  <2>2. Own
    BY <2>1 DEF Own
  <2>3. thread = "done" /\ score > 0
    BY <2>2 DEF Inv, MainOK
  <2>4. ~ killed /\ server = "gone"
    BY <2>2, <2>3 DEF Inv, MainOK
  <2>5. ~ cmdName /\ ~ resName /\ shmName # test
    BY <2>2, <2>3, <2>4 DEF Inv, LeftOK, Busy
  <2> QED
    BY <2>3, <2>4, <2>5
<1> QED
  BY <1>1, ServerInvariance, PTL
-----------------------------------------------------------------------------
(* Requests and answers in step *)

\* A point of a script, between two requests: the rest of the script, the points so
\* far, how much a3 has done by now, and what the memory holds, if that matters.
Point(rest, earned, level, content) ==
  [rest |-> rest, points |-> earned, level |-> level, content |-> content]

\* Nothing, the name is gone, the memory made, found by the tester, the file mapped
\* too; the file mapped without a memory.
Levels == 0..5

Holds(c) ==
  /\ points = c.points
  /\ c.level = 1 => shmName = None
  /\ c.level \in 2..4 => shmName = test /\ region = test
  /\ c.level \in 3..4 => seen = test
  /\ c.level = 4 => mapped
  /\ c.content # Zero => memory[test] = c.content

Reads(tokens) == [i \in DOMAIN tokens |-> [do |-> "read", token |-> tokens[i]]]
Verdict(ok) == IF ok THEN "SUCCESS" ELSE "ERROR"

\* What the request `name` with numbers ns does at point c, and is answered.
Effect(c, d, name, ns, result) ==
  CASE name = "CREATE_SHM" ->
         /\ c.level = 1 /\ ns[1] = ShmSize /\ result = "SUCCESS"
         /\ d.level = 2 /\ d.content = Zero
    [] name = "MAP_FILE" ->
         /\ c.level \in {0, 3}
         /\ d.level = (IF ns[1] # "file" THEN c.level ELSE IF c.level = 0 THEN 5 ELSE 4)
         /\ result = Verdict(ns[1] = "file") /\ d.content = Zero
    [] name = "WRITE_TO_SHM" ->
         /\ c.level \in 3..4 /\ d.level = c.level
         /\ result = Verdict(ns[1] + 4 <= ShmSize)
         /\ d.content = IF result = "SUCCESS" THEN Written(ns[1], ns[2]) ELSE Zero
    [] name = "READ_FROM_FILE_OFFSET" ->
         /\ c.level = 4 /\ d.level = 4
         /\ result = Verdict(Sum(ns[1], ns[2]) <= FileSize /\ ns[2] <= ShmSize)
         /\ d.content = IF result = "SUCCESS" THEN Copied(ns[1], ns[2]) ELSE Zero
    [] name = "READ_FROM_FILE_SECTION" ->
         /\ c.level = 4 /\ d.level = 4
         /\ result = Verdict(/\ ns[1] <= Len(Sections)
                             /\ Sum(ns[2], ns[3]) <= Sections[ns[1]].size
                             /\ Sum(Sections[ns[1]].offset, Sections[ns[1]].size) <= FileSize)
         /\ d.content = IF result = "SUCCESS" THEN Copied(PartBegin(ns[1], ns[2]), ns[3])
                        ELSE Zero
    [] OTHER -> FALSE

\* The request that leads from c to d.
Asks(c, d, name, args, result) ==
  /\ d.points = c.points
  /\ \/ name = "VARIANT" /\ args = <<>> /\ d.level = c.level /\ d.content = Zero
     \/ /\ name \in DOMAIN Arguments /\ Len(args) = Arguments[name]
        /\ Effect(c, d, name, [i \in 1..Arguments[name] |-> args[i][2]], result)

Expected(name, result) ==
  IF name = "VARIANT" THEN <<Str("VARIANT"), Num(10), Str("VALUE")>>
  ELSE <<Str(name), Str(result)>>

\* What is in the script after the request that is being written.
AfterAsk == IF Doing("ask") THEN Tail(script) ELSE script

\* a3 still has to act; some of the request may not be written yet.
Asked(c, d) ==
  /\ Holds(c)
  /\ \E result \in {"SUCCESS", "ERROR"} :
       \/ /\ server = "command" /\ answers = <<>> /\ Coming # <<>>
          /\ \E name \in DOMAIN Arguments \cup {"VARIANT"} :
               /\ Head(Coming) = Str(name)
               /\ Asks(c, d, name, Tail(Coming), result)
               /\ AfterAsk = Reads(Expected(name, result)) \o d.rest
       \/ /\ server = "echo" /\ answers = <<>>
          /\ Asks(c, d, command, Coming, result)
          /\ AfterAsk = Reads(Expected(command, result)) \o d.rest
       \/ /\ server = "arguments" /\ command # "VARIANT"
          /\ Asks(c, d, command, Coming, result)
          /\ AfterAsk = Reads(Append(answers, Str(result))) \o d.rest
       \/ /\ server = "act" /\ Coming = <<>> /\ d.points = c.points
          /\ Effect(c, d, command, numbers, result)
          /\ AfterAsk = Reads(Append(answers, Str(result))) \o d.rest

\* It has acted; the answer is not read yet, or is.
Answered(d) ==
  /\ Holds(d) /\ requests = <<>>
  /\ \/ server = "reply" /\ script = Reads(Append(answers, Str(reply))) \o d.rest
     \/ server = "command" /\ script = Reads(answers) \o d.rest

\* The points of the tests, from the last one back.
Create == Request("CREATE_SHM", <<ShmSize>>, "SUCCESS")
Creating(s) ==
  {Point(Remove \o (Create \o (Find \o s)), 0, 0, Zero), Point(Create \o (Find \o s), 0, 1, Zero),
   Point(Find \o s, 0, 2, Zero)}

Ping1 == Points(10) \o <<>>
Ping0 == Ask(<<Str("VARIANT")>>, <<Str("VARIANT"), Num(10), Str("VALUE")>>) \o Ping1

Map1(name, result) == Points(5) \o <<>>
Map0(name, result) == MapFile(name, result) \o Map1(name, result)

Shm1 == Points(10) \o <<>>

Right == Written(WriteOffset, WriteValue)
Write5 == Points(2) \o <<>>
Write4 == Request("WRITE_TO_SHM", <<ShmSize - 2, 7>>, "ERROR") \o Write5
Write3 == Compare(Right, 5) \o Write4
Write2 == Request("WRITE_TO_SHM", <<WriteOffset, WriteValue>>, "SUCCESS") \o Write3
Write1 == Points(3) \o Write2

Middle == Copied(FileSize \div 2, 50)
Offset8 == Compare(Middle, 4) \o <<>>
Offset7 == Points(1) \o Offset8
Offset6 == Request("READ_FROM_FILE_OFFSET", <<FileSize \div 2, 50>>, "SUCCESS") \o Offset7
Offset5 == Points(2) \o Offset6
Offset4 == Request("READ_FROM_FILE_OFFSET", <<FileSize + 1, 50>>, "ERROR") \o Offset5
Offset3 == Points(1) \o Offset4
Offset2 == MapFile("file", "SUCCESS") \o Offset3
Offset1 == Points(2) \o Offset2

SectionsLeft(k) == [i \in 1..k |-> [do |-> "section"]]
Copy(p) == Copied(Sections[p.section].offset + p.offset, p.n)
Part(p, k) == Compare(Copy(p), 2) \o SectionsLeft(k)
PartRequest(p) == Request("READ_FROM_FILE_SECTION", <<p.section, p.offset, p.n>>, "SUCCESS")
Section5 == Points(2) \o SectionsLeft(3)
Section4 ==
  Request("READ_FROM_FILE_SECTION", <<Len(Sections) + 2, 0, 100>>, "ERROR") \o Section5
Section3 == Points(1) \o Section4
Section2 == MapFile("file", "SUCCESS") \o Section3
Section1 == Points(1) \o Section2

Plan(name) ==
  CASE name = "ping" ->
         {Point(Ping0, 0, 0, Zero), Point(Ping1, 0, 0, Zero), Point(<<>>, 10, 0, Zero)}
    [] name = "shm1" ->
         Creating(Shm1) \cup {Point(Shm1, 0, 3, Zero), Point(<<>>, 10, 3, Zero)}
    [] name = "shm_write" ->
         Creating(Write1)
           \cup {Point(Write1, 0, 3, Zero), Point(Write2, 3, 3, Zero), Point(Write3, 3, 3, Right),
                 Point(Write4, 8, 3, Zero), Point(Write5, 8, 3, Zero), Point(<<>>, 10, 3, Zero)}
    [] name = "map_inexistent" ->
         {Point(Map0("inexistent", "ERROR"), 0, 0, Zero),
          Point(Map1("inexistent", "ERROR"), 0, 0, Zero), Point(<<>>, 5, 0, Zero)}
    [] name = "map1" ->
         {Point(Map0("file", "SUCCESS"), 0, 0, Zero),
          Point(Map1("file", "SUCCESS"), 0, 5, Zero), Point(<<>>, 5, 5, Zero)}
    [] name = "read_offset" ->
         Creating(Offset1)
           \cup {Point(Offset1, 0, 3, Zero), Point(Offset2, 2, 3, Zero), Point(Offset3, 2, 4, Zero),
                 Point(Offset4, 3, 4, Zero), Point(Offset5, 3, 4, Zero), Point(Offset6, 5, 4, Zero),
                 Point(Offset7, 5, 4, Middle), Point(Offset8, 6, 4, Middle),
                 Point(<<>>, 10, 4, Zero)}
    [] name = "read_section" ->
         Creating(Section1)
           \cup {Point(Section1, 0, 3, Zero), Point(Section2, 1, 3, Zero),
                 Point(Section3, 1, 4, Zero), Point(Section4, 2, 4, Zero),
                 Point(Section5, 2, 4, Zero)}
           \cup {Point(SectionsLeft(k), 10 - 2 * k, 4, Zero) : k \in 0..3}
           \cup {Point(PartRequest(p) \o Part(p, k), 8 - 2 * k, 4, Zero) : p \in Parts, k \in 0..2}
           \cup {Point(Part(p, k), 8 - 2 * k, 4, Copy(p)) : p \in Parts, k \in 0..2}

\* a3 comes to every open(), with its ends of the pipes open as far as it has come.
Met ==
  thread \in Greeting \ {"start"} =>
    /\ cmdName
    /\ thread = "popen" \/ server = "mkfifo" => ~ resName
    /\ thread \notin {"start", "popen"} =>
         /\ server # "gone"
         /\ "a3" \in cmdEnds <=> server \notin {"mkfifo", "openCmd"}
         /\ "a3" \in resEnds <=> server \notin {"mkfifo", "openCmd", "cmdOpening", "openRes"}
         /\ server # "mkfifo" =>
              resName /\ answers = IF server = "command" THEN <<Str("CONNECT")>> ELSE <<>>
         /\ thread \in {"openRes", "resOpening", "connect"} => "a3" \in cmdEnds
         /\ thread = "connect" => "a3" \in resEnds

\* The two sides of a test that a3 can serve are in step.
Served ==
  /\ thread # "exit"
  /\ thread \in Greeting => points = 0
  /\ thread = "test" =>
       /\ score = 1
       /\ "a3" \in resEnds /\ answers \in Seq(Tokens)
       /\ \E d \in Plan(Session[test]) :
            Answered(d) \/ \E c \in Plan(Session[test]) : Asked(c, d)
  /\ thread = "wait" =>
       server \in {"gone", "exit"} \/ (server = "command" /\ requests = <<Str("EXIT")>>)
  /\ thread \in {"wait", "close", "done"} => score = MaxScore(Session[test])

InStep ==
  /\ reply \in {"SUCCESS", "ERROR"}
  /\ "a3" \in resEnds => server \notin {"gone", "mkfifo", "openCmd", "cmdOpening", "openRes"}
  /\ perform = "join" => Met /\ (Answerable(test) => Served)

-----------------------------------------------------------------------------
(* Scripts, step by step *)

\* One step before others.
LEMMA FirstStep ==
  ASSUME NEW S, NEW x \in S, NEW s \in Seq(S)
  PROVE  /\ <<x>> \o s \in Seq(S) /\ <<x>> \o s # <<>>
         /\ Head(<<x>> \o s) = x /\ Tail(<<x>> \o s) = s
<1> DEFINE u == <<x>> \o s
<1>1. <<x>> \in Seq(S) /\ Len(<<x>>) = 1 /\ <<x>>[1] = x /\ Len(s) \in Nat
  BY LenProperties
<1>2. /\ u \in Seq(S) /\ Len(u) = 1 + Len(s)
      /\ \A i \in 1..1 + Len(s) : u[i] = IF i <= 1 THEN <<x>>[i] ELSE s[i - 1]
  BY <1>1, ConcatProperties
<1> HIDE DEF u
<1>3. u # <<>> /\ Head(u) = x
  BY <1>1, <1>2
<1>4. /\ Tail(u) \in Seq(S) /\ Len(Tail(u)) = Len(s)
      /\ \A i \in 1..Len(Tail(u)) : Tail(u)[i] = u[i + 1]
  BY <1>1, <1>2, <1>3, HeadTailProperties
<1>5. \A i \in 1..Len(Tail(u)) : Tail(u)[i] = s[i]
  <2> SUFFICES ASSUME NEW i \in 1..Len(Tail(u)) PROVE Tail(u)[i] = s[i]
    OBVIOUS
  <2>1. i + 1 \in 1..1 + Len(s) /\ ~ i + 1 <= 1 /\ (i + 1) - 1 = i
    BY <1>1, <1>4
  <2> QED
    BY <2>1, <1>2, <1>4
<1>6. Tail(u) = s
  BY <1>4, <1>5, SeqEqual
<1> QED
  BY <1>2, <1>3, <1>6 DEF u

\* The steps that read tokens.
LEMMA ReadsAre ==
  ASSUME NEW a \in Seq(Tokens)
  PROVE  /\ Reads(a) \in Seq(Steps) /\ Len(Reads(a)) = Len(a)
         /\ \A i \in 1..Len(a) : Reads(a)[i] = [do |-> "read", token |-> a[i]]
         /\ (Reads(a) = <<>>) <=> (a = <<>>)
<1>1. /\ Len(a) \in Nat /\ DOMAIN a = 1..Len(a)
      /\ \A i \in 1..Len(a) : a[i] \in Tokens
  BY LenProperties, ElementOfSeq
<1>2. \A i \in 1..Len(a) : [do |-> "read", token |-> a[i]] \in Steps
  BY <1>1 DEF Steps
<1>3. Reads(a) = [i \in 1..Len(a) |-> [do |-> "read", token |-> a[i]]]
  BY <1>1 DEF Reads
<1>4. Reads(a) \in [1..Len(a) -> Steps]
  BY <1>2, <1>3
<1>5. Reads(a) \in Seq(Steps) /\ Len(Reads(a)) = Len(a)
  <2> DEFINE r == Reads(a)
  <2>1. r \in [1..Len(a) -> Steps] /\ Len(a) \in Nat
    BY <1>1, <1>4
  <2> HIDE DEF r
  <2>2. r \in Seq(Steps) /\ Len(r) = Len(a)
    BY <2>1
  <2> QED
    BY <2>2 DEF r
<1>6. (Reads(a) = <<>>) <=> (a = <<>>)
  BY <1>1, <1>5, EmptySeq
<1> QED
  BY <1>3, <1>5, <1>6

\* Where something is to be read, the next step reads the first of it.
LEMMA NextRead ==
  ASSUME NEW a \in Seq(Tokens), a # <<>>, NEW s \in Seq(Steps), NEW t,
         t = Reads(a) \o s
  PROVE  /\ t # <<>> /\ Head(t).do = "read" /\ Head(t).token = Head(a)
         /\ Tail(t) = Reads(Tail(a)) \o s
         /\ Tail(a) \in Seq(Tokens) /\ Head(a) \in Tokens
<1>1. /\ Len(a) \in Nat \ {0} /\ Head(a) \in Tokens /\ Head(a) = a[1]
      /\ Tail(a) \in Seq(Tokens)
      /\ Len(Tail(a)) = Len(a) - 1
      /\ \A i \in 1..Len(Tail(a)) : Tail(a)[i] = a[i + 1]
  BY HeadTailProperties, EmptySeq
<1> DEFINE x == [do |-> "read", token |-> Head(a)]
           r == Reads(Tail(a))
<1>2. x \in Steps
  BY <1>1 DEF Steps
<1>3. /\ r \in Seq(Steps) /\ Len(r) = Len(a) - 1
      /\ \A i \in 1..Len(a) - 1 : r[i] = [do |-> "read", token |-> a[i + 1]]
  <2> DEFINE b == Tail(a)
  <2>1. /\ b \in Seq(Tokens) /\ Len(b) = Len(a) - 1
        /\ \A i \in 1..Len(a) - 1 : b[i] = a[i + 1]
    BY <1>1
  <2> HIDE DEF b
  <2>2. /\ Reads(b) \in Seq(Steps) /\ Len(Reads(b)) = Len(a) - 1
        /\ \A i \in 1..Len(a) - 1 : Reads(b)[i] = [do |-> "read", token |-> b[i]]
    BY <2>1, ReadsAre
  <2> QED
    BY <2>1, <2>2 DEF b
<1>4. /\ Reads(a) \in Seq(Steps) /\ Len(Reads(a)) = Len(a)
      /\ \A i \in 1..Len(a) : Reads(a)[i] = [do |-> "read", token |-> a[i]]
  BY ReadsAre
<1>5. /\ <<x>> \in Seq(Steps) /\ <<x>> \o r \in Seq(Steps)
      /\ Len(<<x>> \o r) = Len(a)
      /\ \A i \in 1..Len(a) : (<<x>> \o r)[i] = IF i <= 1 THEN x ELSE r[i - 1]
  <2>1. <<x>> \in Seq(Steps) /\ Len(<<x>>) = 1 /\ <<x>>[1] = x
    BY <1>2
  <2> HIDE DEF x, r
  <2>2. /\ <<x>> \o r \in Seq(Steps) /\ Len(<<x>> \o r) = 1 + Len(r)
        /\ \A i \in 1..1 + Len(r) : (<<x>> \o r)[i] = IF i <= 1 THEN <<x>>[i] ELSE r[i - 1]
    BY <2>1, <1>3, ConcatProperties
  <2>3. \A i \in 1..Len(a) : (<<x>> \o r)[i] = IF i <= 1 THEN x ELSE r[i - 1]
    BY <2>1, <2>2, <1>1, <1>3
  <2> QED
    BY <2>1, <2>2, <2>3, <1>1, <1>3
<1>6. Reads(a) = <<x>> \o r
  <2> DEFINE u == <<x>> \o r
  <2> HIDE DEF u, r
  <2>1. ASSUME NEW i \in 1..Len(a) PROVE Reads(a)[i] = u[i]
    <3>1. CASE i = 1
      BY <3>1, <1>1, <1>4, <1>5 DEF u
    <3>2. CASE i # 1
      <4>1. i - 1 \in 1..Len(a) - 1 /\ (i - 1) + 1 = i /\ ~ i <= 1
        BY <3>2, <1>1
      <4> QED
        BY <4>1, <1>3, <1>4, <1>5 DEF u
    <3> QED
      BY <3>1, <3>2
  <2>2. u \in Seq(Steps) /\ Len(u) = Len(a)
    BY <1>5 DEF u
  <2> QED
    BY <2>1, <2>2, <1>4, SeqEqual DEF u
<1> HIDE DEF x, r
<1>7. t = <<x>> \o (r \o s) /\ r \o s \in Seq(Steps)
  BY <1>3, <1>5, <1>6, ConcatAssociative, ConcatProperties
<1>8. t # <<>> /\ Head(t) = x /\ Tail(t) = r \o s
  BY <1>2, <1>7, FirstStep
<1> QED
  BY <1>1, <1>8 DEF x, r

\* Where nothing is, the rest begins.
LEMMA NoRead ==
  ASSUME NEW s \in Seq(Steps)
  PROVE  Reads(<<>>) \o s = s
<1>1. Reads(<<>>) = <<>>
  BY EmptySeq, ReadsAre
<1> QED
  BY <1>1, ConcatEmptySeq
-----------------------------------------------------------------------------
(* The points of every test lead to the end *)

\* One step of the thread leads from c to d.
Moves(c, d) ==
  \/ /\ c.rest = Remove \o d.rest
     /\ d.points = c.points /\ d.level = 1 /\ d.content = Zero
  \/ /\ c.rest = Find \o d.rest /\ c.level = 2
     /\ d.points = c.points /\ d.level = 3 /\ d.content = Zero
  \/ \E n \in Nat :
       /\ c.rest = Points(n) \o d.rest
       /\ d.points = c.points + n /\ d.level = c.level /\ d.content \in {Zero, c.content}
  \/ \E n \in Nat :
       /\ c.rest = Compare(c.content, n) \o d.rest /\ c.content # Zero /\ c.level \in 3..4
       /\ d.points = c.points + n /\ d.level = c.level /\ d.content = Zero

\* A request does.
Leads(c, d) ==
  \E name \in DOMAIN Arguments \cup {"VARIANT"}, args \in Seq(Tokens),
     result \in {"SUCCESS", "ERROR"} :
    /\ c.rest = Ask(<<Str(name)>> \o args, Expected(name, result)) \o d.rest
    /\ Asks(c, d, name, args, result)

\* The choice of a section does, whichever it is.
Branches(c, P) ==
  \E s \in Seq(Steps) :
    /\ c.rest = <<[do |-> "section"]>> \o s
    /\ \A p \in Parts : \E d \in P :
         /\ d.rest = PartScript(p) \o s
         /\ d.points = c.points /\ d.level = c.level /\ d.content = Zero

Linked(c, P, max) ==
  /\ c.rest \in Seq(Steps) /\ c.points \in Nat /\ c.level \in Levels
  /\ \/ c.rest = <<>> /\ c.points = max
     \/ \E d \in P : Moves(c, d) \/ Leads(c, d)
     \/ Branches(c, P)

GoodPlan(name) ==
  /\ \A c \in Plan(name) : Linked(c, Plan(name), MaxScore(name))
  /\ \E c \in Plan(name) :
       c.rest = Script(name) /\ c.points = 0 /\ c.level = 0 /\ c.content = Zero

\* Parts of a script can be taken together in any way.
LEMMA Regroup ==
  \A s, t, u \in Seq(Steps) : (s \o t) \o u = s \o (t \o u)
BY ConcatAssociative

LEMMA Ended ==
  /\ <<>> \in Seq(Steps)
  /\ \A s \in Seq(Steps) : s \o <<>> = s
BY EmptySeq, ConcatEmptySeq

\* The kinds of steps.
LEMMA RequestLeads ==
  ASSUME NEW c, NEW d, NEW name \in DOMAIN Arguments, NEW ns \in Seq(Nat),
         Len(ns) = Arguments[name], NEW result \in {"SUCCESS", "ERROR"},
         c.rest = Request(name, ns, result) \o d.rest,
         d.points = c.points, Effect(c, d, name, ns, result)
  PROVE  Leads(c, d)
<1> DEFINE args == Nums(ns)
<1>1. Len(ns) \in Nat /\ DOMAIN ns = 1..Len(ns) /\ \A i \in 1..Len(ns) : ns[i] \in Nat
  BY LenProperties, ElementOfSeq
<1>2. args = [i \in 1..Len(ns) |-> Num(ns[i])]
  BY <1>1 DEF Nums
<1>3. \A i \in 1..Len(ns) : Num(ns[i]) \in Tokens
  BY <1>1 DEF Num, Tokens
<1>4. /\ args \in Seq(Tokens) /\ Len(args) = Len(ns)
      /\ \A i \in 1..Len(ns) : args[i] = Num(ns[i])
  <2>1. args \in [1..Len(ns) -> Tokens] /\ \A i \in 1..Len(ns) : args[i] = Num(ns[i])
    BY <1>2, <1>3
  <2> HIDE DEF args
  <2>2. args \in Seq(Tokens)
    <3> DEFINE n == Len(ns)
    <3>1. n \in Nat /\ args \in [1..n -> Tokens]
      BY <1>1, <2>1
    <3> HIDE DEF n
    <3> QED
      BY ONLY <3>1
  <2>3. Len(args) = Len(ns)
    BY ONLY <1>1, <2>1
  <2> QED
    BY <2>1, <2>2, <2>3
<1> HIDE DEF args
<1>5. [i \in 1..Arguments[name] |-> args[i][2]] = ns
  <2>1. \A i \in 1..Len(ns) : args[i][2] = ns[i]
    BY <1>4 DEF Num
  <2>2. ns = [i \in 1..Len(ns) |-> ns[i]]
    BY LenProperties
  <2> QED
    BY <2>1, <2>2
<1>6. name # "VARIANT"
  BY DEF Arguments
<1>7. Asks(c, d, name, args, result)
  BY <1>4, <1>5 DEF Asks
<1>8. c.rest = Ask(<<Str(name)>> \o args, Expected(name, result)) \o d.rest
  BY <1>6 DEF Request, Expected, args
<1> QED
  BY <1>4, <1>7, <1>8 DEF Leads

\* Each kind of request leads to the next point.
LEMMA MapLeads ==
  ASSUME NEW c, NEW d, NEW name \in {"file", "inexistent"},
         NEW result \in {"SUCCESS", "ERROR"}, result = Verdict(name = "file"),
         c.rest = MapFile(name, result) \o d.rest,
         d.points = c.points, d.content = Zero, c.level \in {0, 3},
         d.level = (IF name # "file" THEN c.level ELSE IF c.level = 0 THEN 5 ELSE 4)
  PROVE  Leads(c, d)
<1> DEFINE args == <<Str(name)>>
<1>1. args \in Seq(Tokens) /\ Len(args) = 1 /\ args[1] = Str(name)
  BY DEF Tokens, Words, Str
<1>2. <<Str("MAP_FILE"), Str(name)>> = <<Str("MAP_FILE")>> \o args
  OBVIOUS
<1>3. "MAP_FILE" \in DOMAIN Arguments /\ Arguments["MAP_FILE"] = 1
  BY DEF Arguments
<1> HIDE DEF args
<1> DEFINE ns == [i \in 1..1 |-> args[i][2]]
<1>4. ns[1] = name
  BY <1>1 DEF Str
<1> HIDE DEF ns
<1>5. Effect(c, d, "MAP_FILE", ns, result)
  BY <1>4 DEF Effect
<1>6. Asks(c, d, "MAP_FILE", args, result)
  BY <1>1, <1>3, <1>5 DEF Asks, ns
<1>7. c.rest = Ask(<<Str("MAP_FILE")>> \o args, Expected("MAP_FILE", result)) \o d.rest
  BY <1>2 DEF MapFile, Expected
<1> QED
  BY <1>1, <1>3, <1>6, <1>7 DEF Leads

LEMMA PingLeads ==
  ASSUME NEW c, NEW d,
         c.rest = Ask(<<Str("VARIANT")>>, <<Str("VARIANT"), Num(10), Str("VALUE")>>) \o d.rest,
         d.points = c.points, d.level = c.level, d.content = Zero
  PROVE  Leads(c, d)
<1>1. <<>> \in Seq(Tokens)
  OBVIOUS
<1>2. <<Str("VARIANT")>> \o <<>> = <<Str("VARIANT")>>
  OBVIOUS
<1>3. Asks(c, d, "VARIANT", <<>>, "SUCCESS")
  BY DEF Asks
<1>4. c.rest = Ask(<<Str("VARIANT")>> \o <<>>, Expected("VARIANT", "SUCCESS")) \o d.rest
  BY <1>2 DEF Expected
<1> QED
  BY <1>1, <1>3, <1>4 DEF Leads

\* Requests with the numbers the tests give.
LEMMA CreateLeads ==
  ASSUME NEW c, NEW d, c.rest = Create \o d.rest, d.points = c.points,
         c.level = 1, d.level = 2, d.content = Zero
  PROVE  Leads(c, d)
<1>1. "CREATE_SHM" \in DOMAIN Arguments /\ Arguments["CREATE_SHM"] = 1
  BY DEF Arguments
<1>2. <<ShmSize>> \in Seq(Nat) /\ Len(<<ShmSize>>) = 1
  BY ConstantsAre
<1>3. Effect(c, d, "CREATE_SHM", <<ShmSize>>, "SUCCESS")
  BY DEF Effect
<1> QED
  BY <1>1, <1>2, <1>3, RequestLeads DEF Create

LEMMA WriteLeads ==
  ASSUME NEW c, NEW d, NEW o \in Nat, NEW v \in Nat, NEW result \in {"SUCCESS", "ERROR"},
         c.rest = Request("WRITE_TO_SHM", <<o, v>>, result) \o d.rest,
         d.points = c.points, c.level = 3, d.level = 3,
         result = Verdict(o + 4 <= ShmSize),
         d.content = (IF result = "SUCCESS" THEN Written(o, v) ELSE Zero)
  PROVE  Leads(c, d)
<1>1. "WRITE_TO_SHM" \in DOMAIN Arguments /\ Arguments["WRITE_TO_SHM"] = 2
  BY DEF Arguments
<1>2. <<o, v>> \in Seq(Nat) /\ Len(<<o, v>>) = 2
  OBVIOUS
<1>3. Effect(c, d, "WRITE_TO_SHM", <<o, v>>, result)
  BY DEF Effect
<1> QED
  BY <1>1, <1>2, <1>3, RequestLeads

LEMMA OffsetLeads ==
  ASSUME NEW c, NEW d, NEW o \in Nat, NEW n \in Nat, o + n < Word,
         NEW result \in {"SUCCESS", "ERROR"},
         c.rest = Request("READ_FROM_FILE_OFFSET", <<o, n>>, result) \o d.rest,
         d.points = c.points, c.level = 4, d.level = 4,
         result = Verdict(o + n <= FileSize /\ n <= ShmSize),
         d.content = (IF result = "SUCCESS" THEN Copied(o, n) ELSE Zero)
  PROVE  Leads(c, d)
<1>1. "READ_FROM_FILE_OFFSET" \in DOMAIN Arguments /\ Arguments["READ_FROM_FILE_OFFSET"] = 2
  BY DEF Arguments
<1>2. <<o, n>> \in Seq(Nat) /\ Len(<<o, n>>) = 2
  OBVIOUS
<1>3. Sum(o, n) = o + n
  BY SumIsExact
<1>4. Effect(c, d, "READ_FROM_FILE_OFFSET", <<o, n>>, result)
  BY <1>3 DEF Effect
<1> QED
  BY <1>1, <1>2, <1>4, RequestLeads

LEMMA SectionLeads ==
  ASSUME NEW c, NEW d, NEW i \in Nat, NEW o \in Nat, NEW n \in Nat,
         NEW result \in {"SUCCESS", "ERROR"},
         c.rest = Request("READ_FROM_FILE_SECTION", <<i, o, n>>, result) \o d.rest,
         d.points = c.points, c.level = 4, d.level = 4,
         \/ i > Len(Sections) /\ result = "ERROR" /\ d.content = Zero
         \/ /\ i \in 1..Len(Sections) /\ o + n <= Sections[i].size /\ result = "SUCCESS"
            /\ d.content = Copied(Sections[i].offset + o, n)
  PROVE  Leads(c, d)
<1>1. "READ_FROM_FILE_SECTION" \in DOMAIN Arguments /\ Arguments["READ_FROM_FILE_SECTION"] = 3
  BY DEF Arguments
<1>2. <<i, o, n>> \in Seq(Nat) /\ Len(<<i, o, n>>) = 3
  OBVIOUS
<1>3. Effect(c, d, "READ_FROM_FILE_SECTION", <<i, o, n>>, result)
  <2>1. CASE i > Len(Sections) /\ result = "ERROR" /\ d.content = Zero
    <3>1. ~ i <= Len(Sections)
      BY <2>1, ConstantsAre
    <3> QED
      BY <2>1, <3>1 DEF Effect, Verdict
  <2>2. CASE /\ i \in 1..Len(Sections) /\ o + n <= Sections[i].size /\ result = "SUCCESS"
             /\ d.content = Copied(Sections[i].offset + o, n)
    <3> DEFINE b == Sections[i].offset
               m == Sections[i].size
    <3>1. /\ b \in Nat /\ m \in Nat /\ b + m <= FileSize
          /\ FileSize \in Nat /\ Word \in Nat /\ FileSize + 51 < Word /\ Len(Sections) \in Nat
      BY <2>2, ConstantsAre
    <3>2. o + n <= m
      BY <2>2
    <3> HIDE DEF b, m
    <3>3. Sum(o, n) = o + n /\ Sum(b, m) = b + m /\ Sum(b, o) = b + o
      <4>1. o + n < Word /\ b + m < Word /\ b + o < Word
        BY ONLY <3>1, <3>2, o \in Nat, n \in Nat
      <4> QED
        BY <4>1, <3>1, SumIsExact
    <3>4. i <= Len(Sections) /\ Sum(o, n) <= Sections[i].size
          /\ Sum(Sections[i].offset, Sections[i].size) <= FileSize
      BY <2>2, <3>1, <3>2, <3>3 DEF b, m
    <3>5. PartBegin(i, o) = Sections[i].offset + o
      BY <3>3 DEF PartBegin, b
    <3> QED
      BY <2>2, <3>4, <3>5 DEF Effect, Verdict
  <2> QED
    BY <2>1, <2>2
<1> QED
  BY <1>1, <1>2, <1>3, RequestLeads
\* What links one point to the next.
LEMMA PointsLead ==
  ASSUME NEW s \in Seq(Steps), NEW k \in Nat, NEW n \in Nat, NEW m, m = k + n,
         NEW level \in Levels, NEW content, NEW content2 \in {Zero, content},
         NEW P, NEW max, Point(s, m, level, content2) \in P
  PROVE  Linked(Point(Points(n) \o s, k, level, content), P, max)
<1> DEFINE c == Point(Points(n) \o s, k, level, content)
           d == Point(s, m, level, content2)
<1>1. /\ c.rest = Points(n) \o s /\ c.points = k /\ c.level = level /\ c.content = content
      /\ d.rest = s /\ d.points = m /\ d.level = level /\ d.content = content2
      /\ d \in P
  BY DEF Point
<1>2. Points(n) \o s \in Seq(Steps)
  BY SmallSteps, StepsJoined
<1> HIDE DEF c, d
<1>3. Moves(c, d)
  BY <1>1 DEF Moves
<1>4. Linked(c, P, max)
  BY <1>1, <1>2, <1>3 DEF Linked
<1> QED
  BY <1>4 DEF c

\* So does a look at the memory.
LEMMA CompareLeads ==
  ASSUME NEW s \in Seq(Steps), NEW k \in Nat, NEW n \in Nat, NEW m, m = k + n,
         NEW level \in {3, 4}, NEW content \in Contents, content # Zero,
         NEW P, NEW max, Point(s, m, level, Zero) \in P
  PROVE  Linked(Point(Compare(content, n) \o s, k, level, content), P, max)
<1> DEFINE c == Point(Compare(content, n) \o s, k, level, content)
           d == Point(s, m, level, Zero)
<1>1. /\ c.rest = Compare(content, n) \o s /\ c.points = k /\ c.level = level
      /\ c.content = content
      /\ d.rest = s /\ d.points = m /\ d.level = level /\ d.content = Zero
      /\ d \in P
  BY DEF Point
<1>2. Compare(content, n) \o s \in Seq(Steps)
  <2>1. Compare(content, n) \in Seq(Steps)
    BY SmallSteps
  <2> QED
    BY <2>1, StepsJoined
<1>3. level \in Levels /\ level \in 3..4
  BY DEF Levels
<1> HIDE DEF c, d
<1>4. Moves(c, d)
  BY <1>1, <1>3 DEF Moves
<1>5. Linked(c, P, max)
  BY <1>1, <1>2, <1>4, <1>3 DEF Linked
<1> QED
  BY <1>5 DEF c

LEMMA LastPoints ==
  ASSUME NEW k \in Nat, NEW n \in Nat, NEW m, m = k + n, NEW level \in Levels,
         NEW P, NEW max, Point(<<>>, m, level, Zero) \in P
  PROVE  Linked(Point(Points(n) \o <<>>, k, level, Zero), P, max)
<1>1. <<>> \in Seq(Steps) /\ Zero \in {Zero, Zero}
  OBVIOUS
<1> QED
  BY <1>1, PointsLead

\* The same, stated for points whose rest is known.
LEMMA AskLinked ==
  ASSUME NEW s \in Seq(Steps), NEW r \in Seq(Steps), NEW k \in Nat,
         NEW level \in Levels, NEW content, NEW d, NEW P, NEW max, d \in P,
         Leads(Point(r \o s, k, level, content), d)
  PROVE  Linked(Point(r \o s, k, level, content), P, max)
<1>1. r \o s \in Seq(Steps)
  BY StepsJoined
<1> DEFINE c == Point(r \o s, k, level, content)
<1>2. c.rest = r \o s /\ c.points = k /\ c.level = level
  BY DEF Point
<1> HIDE DEF c
<1>3. Linked(c, P, max)
  BY <1>1, <1>2 DEF Linked, c
<1> QED
  BY <1>3 DEF c

LEMMA CreatePoint ==
  ASSUME NEW s \in Seq(Steps), NEW k \in Nat, NEW content, NEW P, NEW max,
         Point(s, k, 2, Zero) \in P
  PROVE  Linked(Point(Create \o s, k, 1, content), P, max)
<1> DEFINE c == Point(Create \o s, k, 1, content)
           d == Point(s, k, 2, Zero)
<1>1. /\ c.rest = Create \o s /\ c.points = k /\ c.level = 1
      /\ d.rest = s /\ d.points = k /\ d.level = 2 /\ d.content = Zero /\ d \in P
  BY DEF Point
<1>2. Create \in Seq(Steps)
  <2>1. <<ShmSize>> \in Seq(Nat)
    BY ConstantsAre
  <2>2. Arguments["CREATE_SHM"] = 1 /\ Len(<<ShmSize>>) = 1
    BY DEF Arguments
  <2>3. GoodArgs("CREATE_SHM", <<ShmSize>>)
    BY DEF GoodArgs
  <2> QED
    BY <2>1, <2>2, <2>3, RequestSteps DEF Words, Create
<1> HIDE DEF c, d
<1>3. 1 \in Levels
  BY DEF Levels
<1>4. Leads(c, d)
  BY <1>1, CreateLeads
<1> QED
  BY <1>1, <1>2, <1>4, <1>3, AskLinked DEF c

LEMMA MapPoint ==
  ASSUME NEW s \in Seq(Steps), NEW k \in Nat, NEW name \in {"file", "inexistent"},
         NEW result \in {"SUCCESS", "ERROR"}, result = Verdict(name = "file"),
         NEW level \in {0, 3}, NEW content,
         NEW level2, level2 = (IF name # "file" THEN level ELSE IF level = 0 THEN 5 ELSE 4),
         NEW P, NEW max, Point(s, k, level2, Zero) \in P
  PROVE  Linked(Point(MapFile(name, result) \o s, k, level, content), P, max)
<1> DEFINE c == Point(MapFile(name, result) \o s, k, level, content)
           d == Point(s, k, level2, Zero)
<1>1. /\ c.rest = MapFile(name, result) \o s /\ c.points = k /\ c.level = level
      /\ d.rest = s /\ d.points = k /\ d.level = level2 /\ d.content = Zero /\ d \in P
  BY DEF Point
<1>2. MapFile(name, result) \in Seq(Steps) /\ level \in Levels
  BY MapFileSteps DEF Levels
<1> HIDE DEF c, d
<1>3. Leads(c, d)
  BY <1>1, MapLeads
<1> QED
  BY <1>1, <1>2, <1>3, AskLinked DEF c

LEMMA WritePoint ==
  ASSUME NEW s \in Seq(Steps), NEW k \in Nat, NEW o \in Nat, NEW v \in Nat,
         NEW result \in {"SUCCESS", "ERROR"}, result = Verdict(o + 4 <= ShmSize),
         NEW content, NEW content2,
         content2 = (IF result = "SUCCESS" THEN Written(o, v) ELSE Zero),
         NEW P, NEW max, Point(s, k, 3, content2) \in P
  PROVE  Linked(Point(Request("WRITE_TO_SHM", <<o, v>>, result) \o s, k, 3, content), P, max)
<1> DEFINE r == Request("WRITE_TO_SHM", <<o, v>>, result)
           c == Point(r \o s, k, 3, content)
           d == Point(s, k, 3, content2)
<1>1. /\ c.rest = r \o s /\ c.points = k /\ c.level = 3
      /\ d.rest = s /\ d.points = k /\ d.level = 3 /\ d.content = content2 /\ d \in P
  BY DEF Point
<1>2. r \in Seq(Steps) /\ 3 \in Levels
  BY TwoNumbers DEF Levels
<1> HIDE DEF c, d
<1>3. Leads(c, d)
  BY <1>1, WriteLeads
<1> HIDE DEF r
<1> QED
  BY <1>1, <1>2, <1>3, AskLinked DEF c, r

LEMMA OffsetPoint ==
  ASSUME NEW s \in Seq(Steps), NEW k \in Nat, NEW o \in Nat, NEW n \in Nat, o + n < Word,
         NEW result \in {"SUCCESS", "ERROR"},
         result = Verdict(o + n <= FileSize /\ n <= ShmSize),
         NEW content, NEW content2,
         content2 = (IF result = "SUCCESS" THEN Copied(o, n) ELSE Zero),
         NEW P, NEW max, Point(s, k, 4, content2) \in P
  PROVE  Linked(Point(Request("READ_FROM_FILE_OFFSET", <<o, n>>, result) \o s, k, 4, content),
                P, max)
<1> DEFINE r == Request("READ_FROM_FILE_OFFSET", <<o, n>>, result)
           c == Point(r \o s, k, 4, content)
           d == Point(s, k, 4, content2)
<1>1. /\ c.rest = r \o s /\ c.points = k /\ c.level = 4
      /\ d.rest = s /\ d.points = k /\ d.level = 4 /\ d.content = content2 /\ d \in P
  BY DEF Point
<1>2. r \in Seq(Steps) /\ 4 \in Levels
  BY TwoNumbers DEF Levels
<1> HIDE DEF c, d
<1>3. Leads(c, d)
  BY <1>1, OffsetLeads
<1> HIDE DEF r
<1> QED
  BY <1>1, <1>2, <1>3, AskLinked DEF c, r

LEMMA SectionPoint ==
  ASSUME NEW s \in Seq(Steps), NEW k \in Nat, NEW i \in Nat \ {0}, NEW o \in Nat, NEW n \in Nat,
         i <= Len(Sections) => o + n < Word /\ n <= ShmSize,
         NEW result \in {"SUCCESS", "ERROR"}, NEW content, NEW content2,
         \/ i > Len(Sections) /\ result = "ERROR" /\ content2 = Zero
         \/ /\ i \in 1..Len(Sections) /\ o + n <= Sections[i].size /\ result = "SUCCESS"
            /\ content2 = Copied(Sections[i].offset + o, n),
         NEW P, NEW max, Point(s, k, 4, content2) \in P
  PROVE  Linked(Point(Request("READ_FROM_FILE_SECTION", <<i, o, n>>, result) \o s, k, 4, content),
                P, max)
<1> DEFINE r == Request("READ_FROM_FILE_SECTION", <<i, o, n>>, result)
           c == Point(r \o s, k, 4, content)
           d == Point(s, k, 4, content2)
<1>1. /\ c.rest = r \o s /\ c.points = k /\ c.level = 4
      /\ d.rest = s /\ d.points = k /\ d.level = 4 /\ d.content = content2 /\ d \in P
  BY DEF Point
<1>2. r \in Seq(Steps) /\ 4 \in Levels
  BY ThreeNumbers DEF Levels
<1> HIDE DEF c, d
<1>3. Leads(c, d)
  BY <1>1, SectionLeads
<1> HIDE DEF r
<1> QED
  BY <1>1, <1>2, <1>3, AskLinked DEF c, r

LEMMA LastLinked ==
  ASSUME NEW P, NEW n \in Nat, NEW level \in Levels, NEW content
  PROVE  Linked(Point(<<>>, n, level, content), P, n)
BY Ended DEF Linked, Point

\* The beginning of the tests with a memory.
LEMMA CreatingLeads ==
  ASSUME NEW P, NEW s \in Seq(Steps), NEW max,
         Creating(s) \subseteq P, Point(s, 0, 3, Zero) \in P
  PROVE  /\ \A c \in Creating(s) : Linked(c, P, max)
         /\ Point(CreateShm \o s, 0, 0, Zero) \in P
<1> DEFINE s2 == Find \o s
           s1 == Create \o s2
           s0 == Remove \o s1
           c0 == Point(s0, 0, 0, Zero)
           c1 == Point(s1, 0, 1, Zero)
           c2 == Point(s2, 0, 2, Zero)
           c3 == Point(s, 0, 3, Zero)
<1>1. Creating(s) = {c0, c1, c2}
  BY DEF Creating
<1>2. Remove \in Seq(Steps) /\ Find \in Seq(Steps) /\ Create \in Seq(Steps)
  <2>1. Create \in Seq(Steps)
    <3>1. <<ShmSize>> \in Seq(Nat)
      BY ConstantsAre
    <3>2. Arguments["CREATE_SHM"] = 1 /\ Len(<<ShmSize>>) = 1
      BY DEF Arguments
    <3>3. GoodArgs("CREATE_SHM", <<ShmSize>>)
      BY DEF GoodArgs
    <3> QED
      BY <3>1, <3>2, <3>3, RequestSteps DEF Words, Create
  <2> QED
    BY <2>1, SmallSteps
<1>3. s2 \in Seq(Steps)
  BY <1>2, StepsJoined
<1> HIDE DEF s2
<1>4. s1 \in Seq(Steps)
  BY <1>2, <1>3, StepsJoined
<1> HIDE DEF s1
<1>5. s0 \in Seq(Steps)
  BY <1>2, <1>4, StepsJoined
<1> HIDE DEF s0
<1>6. c0 \in P /\ c1 \in P /\ c2 \in P /\ c3 \in P
  BY <1>1
<1>7. Linked(c0, P, max)
  <2>1. Moves(c0, c1)
    BY DEF Moves, Point, s0
  <2> QED
    BY <2>1, <1>5, <1>6 DEF Linked, Point, Levels
<1>8. Linked(c1, P, max)
  BY <1>3, <1>6, CreatePoint DEF s1
<1>9. Linked(c2, P, max)
  <2>1. Moves(c2, c3)
    BY DEF Moves, Point, s2
  <2> QED
    BY <2>1, <1>3, <1>6 DEF Linked, Point, Levels
<1>10. CreateShm \o s = s0
  <2>1. CreateShm = (Remove \o Create) \o Find
    BY DEF CreateShm, Create
  <2>2. CreateShm \o s = (Remove \o Create) \o (Find \o s)
    <3>1. Remove \o Create \in Seq(Steps)
      BY <1>2, StepsJoined
    <3> QED
      BY <2>1, <3>1, <1>2, Regroup
  <2>3. (Remove \o Create) \o s2 = Remove \o (Create \o s2)
    BY <1>2, <1>3, Regroup, SMTT(30)
  <2> QED
    BY <2>2, <2>3 DEF s0, s1, s2
<1> QED
  BY <1>1, <1>6, <1>7, <1>8, <1>9, <1>10

\* The tests.
LEMMA PingPlan == GoodPlan("ping")
<1> DEFINE P == Plan("ping")
           c0 == Point(Ping0, 0, 0, Zero)
           c1 == Point(Ping1, 0, 0, Zero)
           c2 == Point(<<>>, 10, 0, Zero)
           ask == Ask(<<Str("VARIANT")>>, <<Str("VARIANT"), Num(10), Str("VALUE")>>)
<1>1. P = {c0, c1, c2} /\ MaxScore("ping") = 10 /\ Script("ping") = TestPing
  BY DEF Plan, MaxScore, Script
<1> HIDE DEF P
<1>2. Points(10) \in Seq(Steps) /\ ask \in Seq(Steps)
  <2>1. <<Str("VARIANT")>> \in WholeRequests
    BY DEF WholeRequests, Whole, Tokens, Words, Str, Arguments
  <2>2. <<Str("VARIANT"), Num(10), Str("VALUE")>> \in Seq(Tokens)
    BY DEF Tokens, Words, Str, Num
  <2> QED
    BY <2>1, <2>2, AskSteps, SmallSteps
<1>3. Ping1 = Points(10) /\ Ping1 \in Seq(Steps)
  BY <1>2, Ended DEF Ping1
<1>4. Linked(c1, P, 10)
  <2>1. 0 \in Levels /\ 0 \in Nat /\ 10 \in Nat /\ 10 = 0 + 10
    BY DEF Levels
  <2> QED
    BY <1>1, <2>1, LastPoints DEF Ping1
<1>5. Leads(c0, c1)
  <2>1. /\ c0.rest = ask \o Ping1 /\ c1.rest = Ping1 /\ c0.points = 0 /\ c1.points = 0
        /\ c0.level = 0 /\ c1.level = 0 /\ c1.content = Zero
    BY DEF Point, Ping0
  <2> HIDE DEF c0, c1
  <2> QED
    BY <2>1, PingLeads
<1>6. Linked(c0, P, 10)
  <2>1. 0 \in Levels /\ 0 \in Nat /\ c1 \in P
    BY <1>1 DEF Levels
  <2> HIDE DEF c1, ask
  <2>2. Leads(Point(ask \o Ping1, 0, 0, Zero), c1)
    BY <1>5 DEF Ping0, ask
  <2>3. Linked(Point(ask \o Ping1, 0, 0, Zero), P, 10)
    BY <1>2, <1>3, <2>1, <2>2, AskLinked
  <2> QED
    BY <2>3 DEF Ping0, ask
<1>7. Linked(c2, P, 10)
  BY LastLinked DEF Levels
<1>8. Script("ping") = Ping0
  BY <1>1, <1>3 DEF TestPing, Ping0
<1>9. c0 \in P /\ c0.rest = Script("ping") /\ c0.points = 0 /\ c0.level = 0 /\ c0.content = Zero
  BY <1>1, <1>8 DEF Point
<1> QED
  BY <1>1, <1>4, <1>6, <1>7, <1>9 DEF GoodPlan, P

\* The plans of the other tests.
LEMMA Shm1Plan == GoodPlan("shm1")
<1> DEFINE P == Plan("shm1")
           c3 == Point(Shm1, 0, 3, Zero)
           c4 == Point(<<>>, 10, 3, Zero)
           c0 == Point(CreateShm \o Shm1, 0, 0, Zero)
<1>1. P = Creating(Shm1) \cup {c3, c4} /\ MaxScore("shm1") = 10 /\ Script("shm1") = TestShm1
  BY DEF Plan, MaxScore, Script
<1> HIDE DEF P
<1>2. Shm1 = Points(10) /\ Shm1 \in Seq(Steps)
  BY SmallSteps, Ended DEF Shm1
<1>3. (\A c \in Creating(Shm1) : Linked(c, P, 10)) /\ c0 \in P
  BY <1>1, <1>2, CreatingLeads
<1>4. Linked(c3, P, 10)
  <2>1. 3 \in Levels /\ 0 \in Nat /\ 10 \in Nat /\ 10 = 0 + 10
    BY DEF Levels
  <2> QED
    BY <1>1, <2>1, LastPoints DEF Shm1
<1>5. Linked(c4, P, 10)
  BY LastLinked DEF Levels
<1>6. c0.rest = Script("shm1") /\ c0.points = 0 /\ c0.level = 0 /\ c0.content = Zero
  BY <1>1, <1>2 DEF Point, TestShm1
<1> QED
  BY <1>1, <1>3, <1>4, <1>5, <1>6 DEF GoodPlan, P

LEMMA MapPlans == GoodPlan("map1") /\ GoodPlan("map_inexistent")
<1>1. ASSUME NEW test_ \in {"map1", "map_inexistent"}, NEW name \in {"file", "inexistent"},
             NEW result \in {"SUCCESS", "ERROR"}, result = Verdict(name = "file"),
             NEW level \in {0, 5}, level = (IF name # "file" THEN 0 ELSE 5),
             Plan(test_) = {Point(Map0(name, result), 0, 0, Zero),
                            Point(Map1(name, result), 0, level, Zero),
                            Point(<<>>, 5, level, Zero)},
             Script(test_) = MapFile(name, result) \o Points(5)
      PROVE  GoodPlan(test_)
  <2> DEFINE P == Plan(test_)
             c0 == Point(Map0(name, result), 0, 0, Zero)
             c1 == Point(Map1(name, result), 0, level, Zero)
             c2 == Point(<<>>, 5, level, Zero)
  <2>1. P = {c0, c1, c2} /\ MaxScore(test_) = 5
    BY <1>1 DEF MaxScore
  <2> HIDE DEF P
  <2>2. MapFile(name, result) \in Seq(Steps)
    BY MapFileSteps
  <2>3. Map1(name, result) = Points(5) /\ Map1(name, result) \in Seq(Steps)
    BY SmallSteps, Ended DEF Map1
  <2>4. Linked(c1, P, 5)
    <3>1. level \in Levels /\ 0 \in Nat /\ 5 \in Nat /\ 5 = 0 + 5
      BY DEF Levels
    <3> QED
      BY <2>1, <3>1, LastPoints DEF Map1
  <2>5. Linked(c0, P, 5)
    <3>1. 0 \in {0, 3} /\ 0 \in Nat
          /\ level = (IF name # "file" THEN 0 ELSE IF 0 = 0 THEN 5 ELSE 4)
      BY <1>1
    <3> QED
      BY <1>1, <2>1, <2>3, <3>1, MapPoint DEF Map0
  <2>6. Linked(c2, P, 5)
    BY LastLinked DEF Levels
  <2>7. c0 \in P /\ c0.rest = Script(test_) /\ c0.points = 0 /\ c0.level = 0 /\ c0.content = Zero
    BY <1>1, <2>1, <2>3 DEF Point, Map0
  <2> QED
    BY <2>1, <2>4, <2>5, <2>6, <2>7 DEF GoodPlan, P
<1>2. GoodPlan("map1")
  <2>1. Script("map1") = MapFile("file", "SUCCESS") \o Points(5)
    BY DEF Script, TestMap1
  <2>2. Plan("map1") = {Point(Map0("file", "SUCCESS"), 0, 0, Zero),
                        Point(Map1("file", "SUCCESS"), 0, 5, Zero), Point(<<>>, 5, 5, Zero)}
    BY DEF Plan
  <2> QED
    BY <1>1, <2>1, <2>2 DEF Verdict
<1>3. GoodPlan("map_inexistent")
  <2>1. Script("map_inexistent") = MapFile("inexistent", "ERROR") \o Points(5)
    BY DEF Script, TestMapInexistent
  <2>2. Plan("map_inexistent") =
          {Point(Map0("inexistent", "ERROR"), 0, 0, Zero),
           Point(Map1("inexistent", "ERROR"), 0, 0, Zero), Point(<<>>, 5, 0, Zero)}
    BY DEF Plan
  <2> QED
    BY <1>1, <2>1, <2>2 DEF Verdict
<1> QED
  BY <1>2, <1>3
\* Points in the middle of a test.
LEMMA MorePoints ==
  ASSUME NEW s \in Seq(Steps), NEW k \in Nat, NEW n \in Nat, NEW m, m = k + n,
         NEW level \in {3, 4}, NEW content, NEW P, NEW max, Point(s, m, level, content) \in P
  PROVE  Linked(Point(Points(n) \o s, k, level, content), P, max)
<1>1. level \in Levels /\ content \in {Zero, content}
  BY DEF Levels
<1> QED
  BY <1>1, PointsLead

LEMMA Shift ==
  ASSUME NEW x \in Seq(Steps), NEW p \in Seq(Steps), NEW s \in Seq(Steps),
         NEW y, y = x \o p, NEW t, t = p \o s
  PROVE  y \o s = x \o t
BY Regroup

LEMMA WritePlan == GoodPlan("shm_write")
<1> DEFINE P == Plan("shm_write")
           r1 == Request("WRITE_TO_SHM", <<WriteOffset, WriteValue>>, "SUCCESS")
           r2 == Request("WRITE_TO_SHM", <<ShmSize - 2, 7>>, "ERROR")
           cmp == Compare(Right, 5)
           c1 == Point(Write1, 0, 3, Zero)
           c2 == Point(Write2, 3, 3, Zero)
           c3 == Point(Write3, 3, 3, Right)
           c4 == Point(Write4, 8, 3, Zero)
           c5 == Point(Write5, 8, 3, Zero)
           c6 == Point(<<>>, 10, 3, Zero)
           c0 == Point(CreateShm \o Write1, 0, 0, Zero)
<1>1. /\ P = Creating(Write1) \cup {c1, c2, c3, c4, c5, c6}
      /\ MaxScore("shm_write") = 10 /\ Script("shm_write") = TestShmWrite
  BY DEF Plan, MaxScore, Script
<1> HIDE DEF P
<1>2. Right \in Contents /\ Right # Zero
  <2>1. WriteOffset \in Nat /\ WriteValue \in Nat
    BY ConstantsAre
  <2> QED
    BY <2>1 DEF Right, Written, Contents, Zero
<1>3. /\ WriteOffset \in Nat /\ WriteValue \in Nat /\ WriteOffset + 4 <= ShmSize
      /\ ShmSize - 2 \in Nat /\ ~ ((ShmSize - 2) + 4 <= ShmSize)
  BY ConstantsAre
<1>4. r1 \in Seq(Steps) /\ r2 \in Seq(Steps) /\ cmp \in Seq(Steps)
  BY <1>2, <1>3, TwoNumbers, SmallSteps
<1>5. /\ CreateShm \in Seq(Steps) /\ Points(3) \in Seq(Steps) /\ Points(2) \in Seq(Steps)
  BY CreateShmSteps, SmallSteps
<1>6. /\ Write5 = Points(2) \o <<>> /\ Write4 = r2 \o Write5 /\ Write3 = cmp \o Write4
      /\ Write2 = r1 \o Write3 /\ Write1 = Points(3) \o Write2
  BY DEF Write1, Write2, Write3, Write4, Write5
<1>7. Write5 \in Seq(Steps) /\ Write5 = Points(2)
  BY <1>5, <1>6, Ended
<1>8. Write4 \in Seq(Steps)
  BY <1>4, <1>6, <1>7, StepsJoined
<1>9. Write3 \in Seq(Steps)
  BY <1>4, <1>6, <1>8, StepsJoined
<1>10. Write2 \in Seq(Steps)
  BY <1>4, <1>6, <1>9, StepsJoined
<1>11. Write1 \in Seq(Steps)
  BY <1>5, <1>6, <1>10, StepsJoined
<1>12. (\A c \in Creating(Write1) : Linked(c, P, 10)) /\ c0 \in P
  BY <1>1, <1>11, CreatingLeads
<1>13. Linked(c1, P, 10)
  <2>1. /\ 0 \in Nat /\ 3 \in Nat /\ 3 = 0 + 3 /\ 3 \in {3, 4}
        /\ Write2 \in Seq(Steps) /\ Point(Write2, 3, 3, Zero) \in P
    BY <1>1, <1>10
  <2>2. Linked(Point(Points(3) \o Write2, 0, 3, Zero), P, 10)
    BY <2>1, MorePoints
  <2> QED
    BY <2>2 DEF Write1
<1>14. Linked(c2, P, 10)
  <2>1. "SUCCESS" = Verdict(WriteOffset + 4 <= ShmSize)
    BY <1>3 DEF Verdict
  <2> QED
    BY <1>1, <1>3, <1>9, <2>1, WritePoint DEF Right, Write2
<1>15. Linked(c3, P, 10)
  <2>1. 3 \in Nat /\ 5 \in Nat /\ 8 = 3 + 5 /\ 3 \in {3, 4}
    OBVIOUS
  <2> QED
    BY <1>1, <1>2, <1>6, <1>8, <2>1, CompareLeads, ZenonT(30)
<1>16. Linked(c4, P, 10)
  <2>1. "ERROR" = Verdict((ShmSize - 2) + 4 <= ShmSize)
    BY <1>3 DEF Verdict
  <2> QED
    BY <1>1, <1>3, <1>7, <2>1, WritePoint DEF Write4
<1>17. Linked(c5, P, 10)
  <2>1. 3 \in Levels /\ 8 \in Nat /\ 2 \in Nat /\ 10 = 8 + 2
    BY DEF Levels
  <2> QED
    BY <1>1, <1>6, <2>1, LastPoints
<1>18. Linked(c6, P, 10)
  BY LastLinked DEF Levels
<1>19. TestShmWrite = CreateShm \o Write1
  <2> DEFINE x1 == CreateShm \o Points(3)
             x2 == x1 \o r1
             x3 == x2 \o cmp
             x4 == x3 \o r2
  <2>1. TestShmWrite = x4 \o Points(2)
    BY DEF TestShmWrite, Right
  <2> HIDE DEF r1, r2, cmp, P
  <2>2. x1 = CreateShm \o Points(3) /\ x2 = x1 \o r1 /\ x3 = x2 \o cmp /\ x4 = x3 \o r2
    OBVIOUS
  <2> HIDE DEF r1, r2, cmp, x1, x2, x3, x4
  <2>3. x1 \in Seq(Steps) /\ x2 \in Seq(Steps) /\ x3 \in Seq(Steps) /\ x4 \in Seq(Steps)
    <3>1. x1 \in Seq(Steps)
      BY <1>4, <1>5, <2>2, StepsJoined
    <3>2. x2 \in Seq(Steps)
      BY <1>4, <1>5, <2>2, <3>1, StepsJoined
    <3>3. x3 \in Seq(Steps)
      BY <1>4, <1>5, <2>2, <3>2, StepsJoined
    <3>4. x4 \in Seq(Steps)
      BY <1>4, <1>5, <2>2, <3>3, StepsJoined
    <3> QED
      BY <3>1, <3>2, <3>3, <3>4
  <2>4. x1 \o Write2 = CreateShm \o Write1
    <3>1. x1 = CreateShm \o Points(3) /\ Write1 = Points(3) \o Write2
      BY <1>6, <2>2
    <3>2. CreateShm \in Seq(Steps) /\ Points(3) \in Seq(Steps) /\ Write2 \in Seq(Steps)
      BY <1>5, <1>10, <2>3
    <3> QED
      BY <3>1, <3>2, Shift
  <2>5. x2 \o Write3 = x1 \o Write2
    <3>1. x2 = x1 \o r1 /\ Write2 = r1 \o Write3
      BY <1>6, <2>2
    <3>2. x1 \in Seq(Steps) /\ r1 \in Seq(Steps) /\ Write3 \in Seq(Steps)
      BY <1>4, <1>9, <2>3
    <3> QED
      BY <3>1, <3>2, Shift
  <2>6. x3 \o Write4 = x2 \o Write3
    <3>1. x3 = x2 \o cmp /\ Write3 = cmp \o Write4
      BY <1>6, <2>2
    <3>2. x2 \in Seq(Steps) /\ cmp \in Seq(Steps) /\ Write4 \in Seq(Steps)
      BY <1>4, <1>8, <2>3
    <3> QED
      BY <3>1, <3>2, Shift
  <2>7. x4 \o Write5 = x3 \o Write4
    <3>1. x4 = x3 \o r2 /\ Write4 = r2 \o Write5
      BY <1>6, <2>2
    <3>2. x3 \in Seq(Steps) /\ r2 \in Seq(Steps) /\ Write5 \in Seq(Steps)
      BY <1>4, <1>7, <2>3
    <3> QED
      BY <3>1, <3>2, Shift
  <2> QED
    BY <1>7, <2>1, <2>4, <2>5, <2>6, <2>7
<1>20. c0.rest = Script("shm_write") /\ c0.points = 0 /\ c0.level = 0 /\ c0.content = Zero
  BY <1>1, <1>19 DEF Point
<1>21. \A c \in P : Linked(c, P, 10)
  BY <1>1, <1>12, <1>13, <1>14, <1>15, <1>16, <1>17, <1>18
<1> QED
  BY <1>1, <1>12, <1>20, <1>21 DEF GoodPlan, P

LEMMA OffsetPlan == GoodPlan("read_offset")
<1> DEFINE P == Plan("read_offset")
           map == MapFile("file", "SUCCESS")
           r1 == Request("READ_FROM_FILE_OFFSET", <<FileSize + 1, 50>>, "ERROR")
           r2 == Request("READ_FROM_FILE_OFFSET", <<FileSize \div 2, 50>>, "SUCCESS")
           cmp == Compare(Middle, 4)
           c1 == Point(Offset1, 0, 3, Zero)
           c2 == Point(Offset2, 2, 3, Zero)
           c3 == Point(Offset3, 2, 4, Zero)
           c4 == Point(Offset4, 3, 4, Zero)
           c5 == Point(Offset5, 3, 4, Zero)
           c6 == Point(Offset6, 5, 4, Zero)
           c7 == Point(Offset7, 5, 4, Middle)
           c8 == Point(Offset8, 6, 4, Middle)
           c9 == Point(<<>>, 10, 4, Zero)
           c0 == Point(CreateShm \o Offset1, 0, 0, Zero)
<1>1. /\ P = Creating(Offset1) \cup {c1, c2, c3, c4, c5, c6, c7, c8, c9}
      /\ MaxScore("read_offset") = 10 /\ Script("read_offset") = TestReadOffset
  BY DEF Plan, MaxScore, Script
<1> HIDE DEF P
<1>2. /\ FileSize + 1 \in Nat /\ FileSize \div 2 \in Nat /\ 50 \in Nat
      /\ (FileSize + 1) + 50 < Word /\ (FileSize \div 2) + 50 < Word
      /\ ~ ((FileSize + 1) + 50 <= FileSize)
      /\ (FileSize \div 2) + 50 <= FileSize /\ 50 <= ShmSize
  <2>1. /\ FileSize \in Nat /\ Word \in Nat /\ FileSize + 51 < Word
        /\ FileSize >= 100 /\ ShmSize >= 50 /\ ShmSize \in Nat
    BY ConstantsAre, CommandServerAssumption
  <2> QED
    BY ONLY <2>1
<1>3. Middle \in Contents /\ Middle # Zero
  BY <1>2 DEF Middle, Copied, Contents, Zero
<1>4. r1 \in Seq(Steps) /\ r2 \in Seq(Steps) /\ cmp \in Seq(Steps) /\ map \in Seq(Steps)
  BY <1>2, <1>3, TwoNumbers, SmallSteps, MapFileSteps
<1>5. CreateShm \in Seq(Steps) /\ Points(1) \in Seq(Steps) /\ Points(2) \in Seq(Steps)
  BY CreateShmSteps, SmallSteps
<1>6. /\ Offset8 = cmp \o <<>> /\ Offset7 = Points(1) \o Offset8 /\ Offset6 = r2 \o Offset7
      /\ Offset5 = Points(2) \o Offset6 /\ Offset4 = r1 \o Offset5
      /\ Offset3 = Points(1) \o Offset4 /\ Offset2 = map \o Offset3
      /\ Offset1 = Points(2) \o Offset2
  BY DEF Offset1, Offset2, Offset3, Offset4, Offset5, Offset6, Offset7, Offset8
<1>7. Offset8 \in Seq(Steps) /\ Offset8 = cmp
  BY <1>4, <1>6, Ended
<1>8. Offset7 \in Seq(Steps)
  BY <1>5, <1>6, <1>7, StepsJoined
<1>9. Offset6 \in Seq(Steps)
  BY <1>4, <1>6, <1>8, StepsJoined
<1>10. Offset5 \in Seq(Steps)
  BY <1>5, <1>6, <1>9, StepsJoined
<1>11. Offset4 \in Seq(Steps)
  BY <1>4, <1>6, <1>10, StepsJoined
<1>12. Offset3 \in Seq(Steps)
  BY <1>5, <1>6, <1>11, StepsJoined
<1>13. Offset2 \in Seq(Steps)
  BY <1>4, <1>6, <1>12, StepsJoined
<1>14. Offset1 \in Seq(Steps)
  BY <1>5, <1>6, <1>13, StepsJoined, ZenonT(30)
<1>15. (\A c \in Creating(Offset1) : Linked(c, P, 10)) /\ c0 \in P
  BY <1>1, <1>14, CreatingLeads
<1>16. Linked(c1, P, 10) /\ Linked(c3, P, 10) /\ Linked(c5, P, 10) /\ Linked(c7, P, 10)
  <2>1. Linked(c1, P, 10)
    <3>1. /\ 0 \in Nat /\ 2 \in Nat /\ 2 = 0 + 2 /\ 3 \in {3, 4}
          /\ Offset2 \in Seq(Steps) /\ Point(Offset2, 2, 3, Zero) \in P
      BY <1>1, <1>13
    <3>2. Linked(Point(Points(2) \o Offset2, 0, 3, Zero), P, 10)
      BY <3>1, MorePoints
    <3> QED
      BY <3>2 DEF Offset1
  <2>2. Linked(c3, P, 10)
    <3>1. /\ 2 \in Nat /\ 1 \in Nat /\ 3 = 2 + 1 /\ 4 \in {3, 4}
          /\ Offset4 \in Seq(Steps) /\ Point(Offset4, 3, 4, Zero) \in P
      BY <1>1, <1>11
    <3>2. Linked(Point(Points(1) \o Offset4, 2, 4, Zero), P, 10)
      BY <3>1, MorePoints
    <3> QED
      BY <3>2 DEF Offset3
  <2>3. Linked(c5, P, 10)
    <3>1. /\ 3 \in Nat /\ 2 \in Nat /\ 5 = 3 + 2 /\ 4 \in {3, 4}
          /\ Offset6 \in Seq(Steps) /\ Point(Offset6, 5, 4, Zero) \in P
      BY <1>1, <1>9
    <3>2. Linked(Point(Points(2) \o Offset6, 3, 4, Zero), P, 10)
      BY <3>1, MorePoints
    <3> QED
      BY <3>2 DEF Offset5
  <2>4. Linked(c7, P, 10)
    <3>1. /\ 5 \in Nat /\ 1 \in Nat /\ 6 = 5 + 1 /\ 4 \in {3, 4}
          /\ Offset8 \in Seq(Steps) /\ Point(Offset8, 6, 4, Middle) \in P
      BY <1>1, <1>7
    <3>2. Linked(Point(Points(1) \o Offset8, 5, 4, Middle), P, 10)
      BY <3>1, MorePoints
    <3> QED
      BY <3>2 DEF Offset7
  <2> QED
    BY <2>1, <2>2, <2>3, <2>4
<1>17. Linked(c2, P, 10)
  <2>1. /\ "SUCCESS" = Verdict("file" = "file")
        /\ 4 = (IF "file" # "file" THEN 3 ELSE IF 3 = 0 THEN 5 ELSE 4)
        /\ 3 \in {0, 3} /\ 2 \in Nat
        /\ "file" \in {"file", "inexistent"} /\ "SUCCESS" \in {"SUCCESS", "ERROR"}
    BY DEF Verdict
  <2>2. Offset3 \in Seq(Steps) /\ Point(Offset3, 2, 4, Zero) \in P
    BY <1>1, <1>12
  <2>3. Linked(Point(MapFile("file", "SUCCESS") \o Offset3, 2, 3, Zero), P, 10)
    BY <2>1, <2>2, MapPoint
  <2> QED
    BY <2>3 DEF Offset2
<1>18. Linked(c4, P, 10)
  <2>1. "ERROR" = Verdict((FileSize + 1) + 50 <= FileSize /\ 50 <= ShmSize)
    BY <1>2 DEF Verdict
  <2> QED
    BY <1>1, <1>2, <1>10, <2>1, OffsetPoint, SMTT(30) DEF Offset4
<1>19. Linked(c6, P, 10)
  <2>1. "SUCCESS" = Verdict((FileSize \div 2) + 50 <= FileSize /\ 50 <= ShmSize)
    BY <1>2 DEF Verdict
  <2> QED
    BY <1>1, <1>2, <1>8, <2>1, OffsetPoint DEF Offset6, Middle
<1>20. Linked(c8, P, 10)
  <2>1. <<>> \in Seq(Steps) /\ 6 \in Nat /\ 4 \in Nat /\ 10 = 6 + 4 /\ 4 \in {3, 4}
    OBVIOUS
  <2>2. Point(<<>>, 10, 4, Zero) \in P
    BY <1>1
  <2>3. Linked(Point(Compare(Middle, 4) \o <<>>, 6, 4, Middle), P, 10)
    BY <1>3, <2>1, <2>2, CompareLeads
  <2> QED
    BY <2>3 DEF Offset8
<1>21. Linked(c9, P, 10)
  BY LastLinked DEF Levels
<1>22. TestReadOffset = CreateShm \o Offset1
  <2> DEFINE x1 == CreateShm \o Points(2)
             x2 == x1 \o map
             x3 == x2 \o Points(1)
             x4 == x3 \o r1
             x5 == x4 \o Points(2)
             x6 == x5 \o r2
             x7 == x6 \o Points(1)
  <2>1. TestReadOffset = x7 \o cmp
    BY DEF TestReadOffset, Middle
  <2> HIDE DEF r1, r2, cmp, map, P
  <2>2. /\ x1 = CreateShm \o Points(2) /\ x2 = x1 \o map /\ x3 = x2 \o Points(1)
        /\ x4 = x3 \o r1 /\ x5 = x4 \o Points(2) /\ x6 = x5 \o r2 /\ x7 = x6 \o Points(1)
    OBVIOUS
  <2> HIDE DEF r1, r2, cmp, x1, x2, x3, x4, x5, x6, x7
  <2>3. x1 \in Seq(Steps) /\ x2 \in Seq(Steps) /\ x3 \in Seq(Steps)
        /\ x4 \in Seq(Steps) /\ x5 \in Seq(Steps) /\ x6 \in Seq(Steps) /\ x7 \in Seq(Steps)
    <3>1. x1 \in Seq(Steps)
      BY <1>4, <1>5, <2>2, StepsJoined
    <3>2. x2 \in Seq(Steps)
      BY <1>4, <1>5, <2>2, <3>1, StepsJoined
    <3>3. x3 \in Seq(Steps)
      BY <1>4, <1>5, <2>2, <3>2, StepsJoined
    <3>4. x4 \in Seq(Steps)
      BY <1>4, <1>5, <2>2, <3>3, StepsJoined
    <3>5. x5 \in Seq(Steps)
      BY <1>4, <1>5, <2>2, <3>4, StepsJoined
    <3>6. x6 \in Seq(Steps)
      BY <1>4, <1>5, <2>2, <3>5, StepsJoined
    <3>7. x7 \in Seq(Steps)
      BY <1>4, <1>5, <2>2, <3>6, StepsJoined
    <3> QED
      BY <3>1, <3>2, <3>3, <3>4, <3>5, <3>6, <3>7
  <2>4. x1 \o Offset2 = CreateShm \o Offset1
    <3>1. x1 = CreateShm \o Points(2) /\ Offset1 = Points(2) \o Offset2
      BY <1>6, <2>2
    <3>2. CreateShm \in Seq(Steps) /\ Points(2) \in Seq(Steps) /\ Offset2 \in Seq(Steps)
      BY <1>5, <1>13, <2>3
    <3> QED
      BY <3>1, <3>2, Shift
  <2>5. x2 \o Offset3 = x1 \o Offset2
    <3>1. x2 = x1 \o map /\ Offset2 = map \o Offset3
      BY <1>6, <2>2
    <3>2. x1 \in Seq(Steps) /\ map \in Seq(Steps) /\ Offset3 \in Seq(Steps)
      BY <1>4, <1>12, <2>3
    <3> QED
      BY <3>1, <3>2, Shift
  <2>6. x3 \o Offset4 = x2 \o Offset3
    <3>1. x3 = x2 \o Points(1) /\ Offset3 = Points(1) \o Offset4
      BY <1>6, <2>2
    <3>2. x2 \in Seq(Steps) /\ Points(1) \in Seq(Steps) /\ Offset4 \in Seq(Steps)
      BY <1>5, <1>11, <2>3
    <3> QED
      BY <3>1, <3>2, Shift
  <2>7. x4 \o Offset5 = x3 \o Offset4
    <3>1. x4 = x3 \o r1 /\ Offset4 = r1 \o Offset5
      BY <1>6, <2>2
    <3>2. x3 \in Seq(Steps) /\ r1 \in Seq(Steps) /\ Offset5 \in Seq(Steps)
      BY <1>4, <1>10, <2>3
    <3> QED
      BY <3>1, <3>2, Shift
  <2>8. x5 \o Offset6 = x4 \o Offset5
    <3>1. x5 = x4 \o Points(2) /\ Offset5 = Points(2) \o Offset6
      BY <1>6, <2>2
    <3>2. x4 \in Seq(Steps) /\ Points(2) \in Seq(Steps) /\ Offset6 \in Seq(Steps)
      BY <1>5, <1>9, <2>3
    <3> QED
      BY <3>1, <3>2, Shift
  <2>9. x6 \o Offset7 = x5 \o Offset6
    <3>1. x6 = x5 \o r2 /\ Offset6 = r2 \o Offset7
      BY <1>6, <2>2
    <3>2. x5 \in Seq(Steps) /\ r2 \in Seq(Steps) /\ Offset7 \in Seq(Steps)
      BY <1>4, <1>8, <2>3
    <3> QED
      BY <3>1, <3>2, Shift
  <2>10. x7 \o Offset8 = x6 \o Offset7
    <3>1. x7 = x6 \o Points(1) /\ Offset7 = Points(1) \o Offset8
      BY <1>6, <2>2
    <3>2. x6 \in Seq(Steps) /\ Points(1) \in Seq(Steps) /\ Offset8 \in Seq(Steps)
      BY <1>5, <1>7, <2>3
    <3> QED
      BY <3>1, <3>2, Shift
  <2> QED
    BY <1>7, <2>1, <2>4, <2>5, <2>6, <2>7, <2>8, <2>9, <2>10
<1>23. c0.rest = Script("read_offset") /\ c0.points = 0 /\ c0.level = 0 /\ c0.content = Zero
  BY <1>1, <1>22 DEF Point
<1>24. \A c \in P : Linked(c, P, 10)
  BY <1>1, <1>15, <1>16, <1>17, <1>18, <1>19, <1>20, <1>21
<1> QED
  BY <1>1, <1>15, <1>23, <1>24 DEF GoodPlan, P
-----------------------------------------------------------------------------
\* The sections still to be read.
LEMMA SectionsAre ==
  /\ SectionsLeft(0) = <<>>
  /\ SectionsLeft(3) = <<[do |-> "section"], [do |-> "section"], [do |-> "section"]>>
  /\ \A k \in 0..3 : SectionsLeft(k) \in Seq(Steps)
  /\ \A k \in 0..2 : SectionsLeft(k + 1) = <<[do |-> "section"]>> \o SectionsLeft(k)
<1> DEFINE x == [do |-> "section"]
<1>1. x \in Steps
  BY DEF Steps
<1>2. \A k \in 0..3 : SectionsLeft(k) = [i \in 1..k |-> x]
  BY DEF SectionsLeft
<1> HIDE DEF x
<1>3. ASSUME NEW k \in 0..3
      PROVE  /\ SectionsLeft(k) \in Seq(Steps) /\ Len(SectionsLeft(k)) = k
             /\ \A i \in 1..k : SectionsLeft(k)[i] = x
  <2> DEFINE s == SectionsLeft(k)
  <2>1. s \in [1..k -> Steps] /\ \A i \in 1..k : s[i] = x
    BY <1>1, <1>2
  <2> HIDE DEF s
  <2>2. s \in Seq(Steps) /\ Len(s) = k
    BY <2>1
  <2> QED
    BY <2>1, <2>2 DEF s
<1>4. SectionsLeft(0) = <<>>
  BY <1>3, EmptySeq
<1>5. ASSUME NEW k \in 0..2
      PROVE  SectionsLeft(k + 1) = <<x>> \o SectionsLeft(k)
  <2> DEFINE s == SectionsLeft(k)
             t == SectionsLeft(k + 1)
             u == <<x>> \o s
  <2>1. /\ s \in Seq(Steps) /\ Len(s) = k /\ \A i \in 1..k : s[i] = x
        /\ t \in Seq(Steps) /\ Len(t) = k + 1 /\ \A i \in 1..k + 1 : t[i] = x
    <3>1. k \in 0..3 /\ k + 1 \in 0..3
      OBVIOUS
    <3> QED
      BY <1>3, <3>1
  <2> HIDE DEF s, t
  <2>2. <<x>> \in Seq(Steps) /\ Len(<<x>>) = 1 /\ <<x>>[1] = x
    BY <1>1
  <2>3. /\ u \in Seq(Steps) /\ Len(u) = 1 + k
        /\ \A i \in 1..1 + k : u[i] = IF i <= 1 THEN <<x>>[i] ELSE s[i - 1]
    BY <2>1, <2>2, ConcatProperties
  <2> HIDE DEF u
  <2>4. \A i \in 1..k + 1 : u[i] = x
    <3> SUFFICES ASSUME NEW i \in 1..k + 1 PROVE u[i] = x
      OBVIOUS
    <3>1. CASE i = 1
      BY <3>1, <2>2, <2>3
    <3>2. CASE i # 1
      <4>1. i - 1 \in 1..k /\ ~ i <= 1 /\ i \in 1..1 + k
        BY <3>2
      <4> QED
        BY <4>1, <2>1, <2>3
    <3> QED
      BY <3>1, <3>2
  <2>5. t = u
    BY <2>1, <2>3, <2>4, SeqEqual
  <2> QED
    BY <2>5 DEF s, t, u
<1>6. SectionsLeft(3) = <<x, x, x>>
  <2> DEFINE s == SectionsLeft(3)
  <2>1. s \in Seq(Steps) /\ Len(s) = 3 /\ \A i \in 1..3 : s[i] = x
    BY <1>3
  <2> HIDE DEF s
  <2>2. <<x, x, x>> \in Seq(Steps) /\ Len(<<x, x, x>>) = 3
    BY <1>1
  <2>3. \A i \in 1..3 : <<x, x, x>>[i] = x
    OBVIOUS
  <2>4. s = <<x, x, x>>
    BY <2>1, <2>2, <2>3, SeqEqual
  <2> QED
    BY <2>4 DEF s
<1> QED
  BY <1>3, <1>4, <1>5, <1>6 DEF x

\* A part of a section that a test asks for.
LEMMA PartsAre ==
  ASSUME NEW p \in Parts
  PROVE  /\ p.section \in 1..Len(Sections) /\ p.section \in Nat \ {0}
         /\ p.offset \in Nat /\ p.n \in Nat
         /\ p.offset + p.n <= Sections[p.section].size
         /\ p.offset + p.n < Word /\ p.n <= ShmSize
         /\ Copy(p) \in Contents /\ Copy(p) # Zero
         /\ PartRequest(p) \in Seq(Steps) /\ Compare(Copy(p), 2) \in Seq(Steps)
         /\ PartScript(p) = PartRequest(p) \o Compare(Copy(p), 2)
<1>1. PICK i \in DOMAIN Sections :
        /\ p.section = i
        /\ p.offset \in {0, Sections[i].size \div 2}
        /\ p.n \in {5, Sections[i].size \div 2}
  BY DEF Parts
<1> DEFINE half == Sections[i].size \div 2
           o == p.offset
           n == p.n
<1>2. /\ i \in 1..Len(Sections) /\ i \in Nat \ {0}
      /\ half \in Nat /\ half >= 5 /\ half + half <= Sections[i].size
      /\ half <= ShmSize /\ Sections[i].offset \in Nat /\ ShmSize \in Nat /\ Word \in Nat
      /\ Sections[i].offset + Sections[i].size <= FileSize /\ FileSize + 51 < Word
      /\ FileSize \in Nat /\ Sections[i].size \in Nat
  <2>1. i \in 1..Len(Sections) /\ Len(Sections) \in Nat
    BY ConstantsAre
  <2>2. /\ Sections[i].size \in Nat /\ Sections[i].offset \in Nat
        /\ Sections[i].size >= 10 /\ half <= ShmSize
        /\ Sections[i].offset + Sections[i].size <= FileSize
    BY <2>1, ConstantsAre
  <2>3. half \in Nat /\ half >= 5 /\ half + half <= Sections[i].size
    BY <2>2, HalfOf
  <2>4. ShmSize \in Nat /\ Word \in Nat /\ FileSize \in Nat /\ FileSize + 51 < Word
    BY ConstantsAre
  <2> HIDE DEF half
  <2> QED
    BY <2>1, <2>2, <2>3, <2>4
<1>3. o \in {0, half} /\ n \in {5, half}
  BY <1>1
<1> HIDE DEF half, o, n
<1>4. /\ o \in Nat /\ n \in Nat /\ o + n <= Sections[i].size /\ n <= ShmSize
      /\ o + n < Word
  <2>1. /\ half \in Nat /\ half >= 5 /\ half + half <= Sections[i].size /\ half <= ShmSize
        /\ ShmSize \in Nat /\ Sections[i].size \in Nat
    BY <1>2
  <2>2. o \in Nat /\ n \in Nat /\ o + n <= half + half /\ n <= half
    BY ONLY <1>3, <2>1
  <2>3. Sections[i].size < Word
    BY ONLY <1>2
  <2> QED
    BY ONLY <2>1, <2>2, <2>3, <1>2
<1>5. p.section = i /\ p.offset = o /\ p.n = n
  BY <1>1 DEF o, n
<1>6. Copy(p) \in Contents /\ Copy(p) # Zero
  BY <1>2, <1>4, <1>5 DEF Copy, Copied, Contents, Zero
<1>7. PartRequest(p) \in Seq(Steps)
  BY <1>2, <1>4, <1>5, ThreeNumbers DEF PartRequest
<1>8. Compare(Copy(p), 2) \in Seq(Steps)
  BY <1>6, SmallSteps
<1>9. PartScript(p) = PartRequest(p) \o Compare(Copy(p), 2)
  BY DEF PartScript, PartRequest, Copy
<1> QED
  BY <1>2, <1>4, <1>5, <1>6, <1>7, <1>8, <1>9

LEMMA SectionPlan == GoodPlan("read_section")
<1> DEFINE P == Plan("read_section")
           map == MapFile("file", "SUCCESS")
           r == Request("READ_FROM_FILE_SECTION", <<Len(Sections) + 2, 0, 100>>, "ERROR")
           c1 == Point(Section1, 0, 3, Zero)
           c2 == Point(Section2, 1, 3, Zero)
           c3 == Point(Section3, 1, 4, Zero)
           c4 == Point(Section4, 2, 4, Zero)
           c5 == Point(Section5, 2, 4, Zero)
           L == {Point(SectionsLeft(k), 10 - 2 * k, 4, Zero) : k \in 0..3}
           Q == {Point(PartRequest(p) \o Part(p, k), 8 - 2 * k, 4, Zero) : p \in Parts, k \in 0..2}
           R == {Point(Part(p, k), 8 - 2 * k, 4, Copy(p)) : p \in Parts, k \in 0..2}
           c0 == Point(CreateShm \o Section1, 0, 0, Zero)
<1>1. /\ P = Creating(Section1) \cup {c1, c2, c3, c4, c5} \cup L \cup Q \cup R
      /\ MaxScore("read_section") = 10 /\ Script("read_section") = TestReadSection
  BY DEF Plan, MaxScore, Script
<1> HIDE DEF P
<1>2. /\ \A k \in 0..3 : Point(SectionsLeft(k), 10 - 2 * k, 4, Zero) \in P
      /\ \A p \in Parts, k \in 0..2 :
           /\ Point(PartRequest(p) \o Part(p, k), 8 - 2 * k, 4, Zero) \in P
           /\ Point(Part(p, k), 8 - 2 * k, 4, Copy(p)) \in P
  BY <1>1
<1>3. c1 \in P /\ c2 \in P /\ c3 \in P /\ c4 \in P /\ c5 \in P
  BY <1>1
<1>4. r \in Seq(Steps) /\ map \in Seq(Steps)
  <2>1. Len(Sections) + 2 \in Nat \ {0} /\ ~ (Len(Sections) + 2 <= Len(Sections))
    BY ConstantsAre
  <2> QED
    BY <2>1, ThreeNumbers, MapFileSteps
<1>5. CreateShm \in Seq(Steps) /\ Points(1) \in Seq(Steps) /\ Points(2) \in Seq(Steps)
  BY CreateShmSteps, SmallSteps
<1>6. \A k \in 0..3 : SectionsLeft(k) \in Seq(Steps)
  BY SectionsAre
<1>7. /\ Section5 = Points(2) \o SectionsLeft(3) /\ Section4 = r \o Section5
      /\ Section3 = Points(1) \o Section4 /\ Section2 = map \o Section3
      /\ Section1 = Points(1) \o Section2
  BY DEF Section1, Section2, Section3, Section4, Section5
<1>8. Section5 \in Seq(Steps)
  BY <1>5, <1>6, <1>7, StepsJoined
<1>9. Section4 \in Seq(Steps)
  BY <1>4, <1>7, <1>8, StepsJoined
<1>10. Section3 \in Seq(Steps)
  BY <1>5, <1>7, <1>9, StepsJoined
<1>11. Section2 \in Seq(Steps)
  BY <1>4, <1>7, <1>10, StepsJoined
<1>12. Section1 \in Seq(Steps)
  BY <1>5, <1>7, <1>11, StepsJoined
<1>13. (\A c \in Creating(Section1) : Linked(c, P, 10)) /\ c0 \in P
  <2>1. Creating(Section1) \subseteq P
    BY <1>1
  <2> HIDE DEF L, Q, R
  <2> QED
    BY <1>3, <1>12, <2>1, CreatingLeads
<1> HIDE DEF L, Q, R
<1>14. Linked(c1, P, 10)
  <2>1. /\ 0 \in Nat /\ 1 \in Nat /\ 1 = 0 + 1 /\ 3 \in {3, 4}
        /\ Section2 \in Seq(Steps) /\ Point(Section2, 1, 3, Zero) \in P
    BY <1>3, <1>11
  <2>2. Linked(Point(Points(1) \o Section2, 0, 3, Zero), P, 10)
    BY <2>1, MorePoints
  <2> QED
    BY <2>2 DEF Section1
<1>15. Linked(c2, P, 10)
  <2>1. /\ "SUCCESS" = Verdict("file" = "file")
        /\ 4 = (IF "file" # "file" THEN 3 ELSE IF 3 = 0 THEN 5 ELSE 4)
        /\ 3 \in {0, 3} /\ 1 \in Nat
        /\ "file" \in {"file", "inexistent"} /\ "SUCCESS" \in {"SUCCESS", "ERROR"}
    BY DEF Verdict
  <2>2. Section3 \in Seq(Steps) /\ Point(Section3, 1, 4, Zero) \in P
    BY <1>3, <1>10
  <2>3. Linked(Point(MapFile("file", "SUCCESS") \o Section3, 1, 3, Zero), P, 10)
    BY <2>1, <2>2, MapPoint
  <2> QED
    BY <2>3 DEF Section2
<1>16. Linked(c3, P, 10)
  <2>1. /\ 1 \in Nat /\ 2 = 1 + 1 /\ 4 \in {3, 4}
        /\ Section4 \in Seq(Steps) /\ Point(Section4, 2, 4, Zero) \in P
    BY <1>3, <1>9
  <2>2. Linked(Point(Points(1) \o Section4, 1, 4, Zero), P, 10)
    BY <2>1, MorePoints
  <2> QED
    BY <2>2 DEF Section3
<1>17. Linked(c4, P, 10)
  <2>1. /\ Len(Sections) + 2 \in Nat \ {0} /\ ~ (Len(Sections) + 2 <= Len(Sections))
        /\ Len(Sections) + 2 > Len(Sections)
        /\ 0 \in Nat /\ 100 \in Nat /\ 2 \in Nat /\ "ERROR" \in {"SUCCESS", "ERROR"}
    BY ConstantsAre
  <2>2. Section5 \in Seq(Steps) /\ Point(Section5, 2, 4, Zero) \in P
    BY <1>3, <1>8
  <2>3. Linked(Point(Request("READ_FROM_FILE_SECTION", <<Len(Sections) + 2, 0, 100>>, "ERROR")
                       \o Section5, 2, 4, Zero), P, 10)
    <3> DEFINE i == Len(Sections) + 2
    <3> HIDE DEF i
    <3>1. /\ i \in Nat \ {0} /\ ~ (i <= Len(Sections)) /\ i > Len(Sections)
          /\ 0 \in Nat /\ 100 \in Nat /\ 2 \in Nat /\ "ERROR" \in {"SUCCESS", "ERROR"}
      BY <2>1 DEF i
    <3>2. Linked(Point(Request("READ_FROM_FILE_SECTION", <<i, 0, 100>>, "ERROR") \o Section5,
                       2, 4, Zero), P, 10)
      BY <3>1, <2>2, SectionPoint, SMTT(30)
    <3> QED
      BY <3>2 DEF i
  <2> QED
    BY <2>3 DEF Section4
<1>18. Linked(c5, P, 10)
  <2>1. 10 - 2 * 3 = 4 /\ 3 \in 0..3
    OBVIOUS
  <2>2. /\ 2 \in Nat /\ 4 = 2 + 2 /\ 4 \in {3, 4}
        /\ SectionsLeft(3) \in Seq(Steps) /\ Point(SectionsLeft(3), 4, 4, Zero) \in P
    BY <1>2, <1>6, <2>1
  <2>3. Linked(Point(Points(2) \o SectionsLeft(3), 2, 4, Zero), P, 10)
    BY <2>2, MorePoints
  <2> QED
    BY <2>3 DEF Section5
<1>19. ASSUME NEW p \in Parts, NEW k \in 0..2
       PROVE  /\ Linked(Point(Part(p, k), 8 - 2 * k, 4, Copy(p)), P, 10)
              /\ Linked(Point(PartRequest(p) \o Part(p, k), 8 - 2 * k, 4, Zero), P, 10)
              /\ PartScript(p) \o SectionsLeft(k) = PartRequest(p) \o Part(p, k)
  <2> DEFINE m == 8 - 2 * k
  <2>1. /\ m \in Nat /\ 10 - 2 * k = m + 2 /\ k \in 0..3 /\ 2 \in Nat /\ 4 \in {3, 4}
    OBVIOUS
  <2>2. Point(SectionsLeft(k), m + 2, 4, Zero) \in P /\ SectionsLeft(k) \in Seq(Steps)
    BY <1>2, <1>6, <2>1
  <2>3. Point(Part(p, k), m, 4, Copy(p)) \in P
    BY <1>2
  <2> HIDE DEF m
  <2>4. Linked(Point(Part(p, k), m, 4, Copy(p)), P, 10)
    <3>1. Copy(p) \in Contents /\ Copy(p) # Zero
      BY PartsAre
    <3>2. Linked(Point(Compare(Copy(p), 2) \o SectionsLeft(k), m, 4, Copy(p)), P, 10)
      BY <2>1, <2>2, <3>1, CompareLeads
    <3> QED
      BY <3>2 DEF Part
  <2>5. Part(p, k) \in Seq(Steps)
    BY <2>2, PartsAre, StepsJoined DEF Part
  <2>6. Linked(Point(PartRequest(p) \o Part(p, k), m, 4, Zero), P, 10)
    <3> DEFINE s == Part(p, k)
               content2 == Copy(p)
    <3>1. /\ p.section \in Nat \ {0} /\ p.offset \in Nat /\ p.n \in Nat
          /\ p.section \in 1..Len(Sections)
          /\ p.offset + p.n <= Sections[p.section].size
          /\ p.offset + p.n < Word /\ p.n <= ShmSize
          /\ "SUCCESS" \in {"SUCCESS", "ERROR"}
      BY PartsAre
    <3>2. content2 = Copied(Sections[p.section].offset + p.offset, p.n)
      BY DEF Copy
    <3>3. s \in Seq(Steps) /\ Point(s, m, 4, content2) \in P
      BY <2>3, <2>5
    <3> HIDE DEF s, content2
    <3>4. Linked(Point(Request("READ_FROM_FILE_SECTION", <<p.section, p.offset, p.n>>, "SUCCESS")
                         \o s, m, 4, Zero), P, 10)
      BY <2>1, <3>1, <3>2, <3>3, SectionPoint
    <3> QED
      BY <3>4 DEF s, PartRequest
  <2>7. PartScript(p) \o SectionsLeft(k) = PartRequest(p) \o Part(p, k)
    <3>1. /\ PartRequest(p) \in Seq(Steps) /\ Compare(Copy(p), 2) \in Seq(Steps)
          /\ PartScript(p) = PartRequest(p) \o Compare(Copy(p), 2)
      BY PartsAre
    <3>2. Part(p, k) = Compare(Copy(p), 2) \o SectionsLeft(k)
      BY DEF Part
    <3> QED
      BY <2>2, <3>1, <3>2, Shift, SMTT(30)
  <2> QED
    BY <2>4, <2>6, <2>7 DEF m
<1>20. ASSUME NEW k \in 0..2
       PROVE  Linked(Point(SectionsLeft(k + 1), 8 - 2 * k, 4, Zero), P, 10)
  <2> DEFINE m == 8 - 2 * k
             s == SectionsLeft(k)
             c == Point(SectionsLeft(k + 1), m, 4, Zero)
  <2>1. /\ c.rest = SectionsLeft(k + 1) /\ c.points = m /\ c.level = 4
    BY DEF Point
  <2>2. SectionsLeft(k + 1) \in Seq(Steps) /\ s \in Seq(Steps) /\ k \in 0..3 /\ m \in Nat
    BY <1>6
  <2>3. SectionsLeft(k + 1) = <<[do |-> "section"]>> \o s
    BY SectionsAre
  <2>4. ASSUME NEW p \in Parts
        PROVE  \E d \in P : /\ d.rest = PartScript(p) \o s
                            /\ d.points = m /\ d.level = 4 /\ d.content = Zero
    <3> DEFINE d == Point(PartRequest(p) \o Part(p, k), m, 4, Zero)
    <3>1. d \in P /\ d.rest = PartScript(p) \o s
      BY <1>2, <1>19 DEF Point
    <3>2. d.points = m /\ d.level = 4 /\ d.content = Zero
      BY DEF Point
    <3> HIDE DEF d
    <3> QED
      BY <3>1, <3>2
  <2> HIDE DEF m, s, c
  <2>5. Branches(c, P)
    BY <2>1, <2>2, <2>3, <2>4 DEF Branches
  <2>6. Linked(c, P, 10)
    BY <2>1, <2>2, <2>5 DEF Linked, Levels
  <2> QED
    BY <2>6 DEF c, m
<1>21. \A k \in 0..3 : Linked(Point(SectionsLeft(k), 10 - 2 * k, 4, Zero), P, 10)
  <2> SUFFICES ASSUME NEW k \in 0..3
               PROVE  Linked(Point(SectionsLeft(k), 10 - 2 * k, 4, Zero), P, 10)
    OBVIOUS
  <2>1. CASE k = 0
    <3>1. SectionsLeft(k) = <<>> /\ 10 - 2 * k = 10 /\ 10 \in Nat /\ 4 \in Levels
      BY <2>1, SectionsAre DEF Levels
    <3> QED
      BY <3>1, LastLinked
  <2>2. CASE k # 0
    <3>1. PICK j \in 0..2 : k = j + 1
      <4>1. k - 1 \in 0..2 /\ k = (k - 1) + 1
        BY <2>2
      <4> QED
        BY <4>1
    <3>2. 10 - 2 * k = 8 - 2 * j
      BY <3>1
    <3> QED
      BY <3>1, <3>2, <1>20
  <2> QED
    BY <2>1, <2>2
<1>22. TestReadSection = CreateShm \o Section1
  <2> DEFINE x1 == CreateShm \o Points(1)
             x2 == x1 \o map
             x3 == x2 \o Points(1)
             x4 == x3 \o r
             x5 == x4 \o Points(2)
             s == SectionsLeft(3)
  <2>1. TestReadSection = x5 \o s
    BY SectionsAre DEF TestReadSection
  <2>2. /\ x1 = CreateShm \o Points(1) /\ x2 = x1 \o map /\ x3 = x2 \o Points(1)
        /\ x4 = x3 \o r /\ x5 = x4 \o Points(2) /\ Section5 = Points(2) \o s /\ s \in Seq(Steps)
    BY <1>6, <1>7
  <2> HIDE DEF r, map, x1, x2, x3, x4, x5, s
  <2>3. x1 \in Seq(Steps)
    BY <1>5, <2>2, StepsJoined
  <2>4. x2 \in Seq(Steps)
    BY <1>4, <2>2, <2>3, StepsJoined
  <2>5. x3 \in Seq(Steps)
    BY <1>5, <2>2, <2>4, StepsJoined
  <2>6. x4 \in Seq(Steps)
    BY <1>4, <2>2, <2>5, StepsJoined
  <2>7. x1 \o Section2 = CreateShm \o Section1
    <3>1. x1 = CreateShm \o Points(1) /\ Section1 = Points(1) \o Section2
      BY <1>7, <2>2
    <3>2. CreateShm \in Seq(Steps) /\ Points(1) \in Seq(Steps) /\ Section2 \in Seq(Steps)
      BY <1>5, <1>11
    <3> QED
      BY <3>1, <3>2, Shift
  <2>8. x2 \o Section3 = x1 \o Section2
    <3>1. x2 = x1 \o map /\ Section2 = map \o Section3
      BY <1>7, <2>2
    <3>2. x1 \in Seq(Steps) /\ map \in Seq(Steps) /\ Section3 \in Seq(Steps)
      BY <1>4, <1>10, <2>3
    <3> QED
      BY <3>1, <3>2, Shift
  <2>9. x3 \o Section4 = x2 \o Section3
    <3>1. x3 = x2 \o Points(1) /\ Section3 = Points(1) \o Section4
      BY <1>7, <2>2
    <3>2. x2 \in Seq(Steps) /\ Points(1) \in Seq(Steps) /\ Section4 \in Seq(Steps)
      BY <1>5, <1>9, <2>4
    <3> QED
      BY <3>1, <3>2, Shift
  <2>10. x4 \o Section5 = x3 \o Section4
    <3>1. x4 = x3 \o r /\ Section4 = r \o Section5
      BY <1>7, <2>2
    <3>2. x3 \in Seq(Steps) /\ r \in Seq(Steps) /\ Section5 \in Seq(Steps)
      BY <1>4, <1>8, <2>5
    <3> QED
      BY <3>1, <3>2, Shift
  <2>11. x5 \o s = x4 \o Section5
    <3>1. x5 = x4 \o Points(2) /\ Section5 = Points(2) \o s
      BY <2>2
    <3>2. x4 \in Seq(Steps) /\ Points(2) \in Seq(Steps) /\ s \in Seq(Steps)
      BY <1>5, <2>2, <2>6
    <3> QED
      BY <3>1, <3>2, Shift
  <2> QED
    BY <2>1, <2>7, <2>8, <2>9, <2>10, <2>11
<1>23. c0.rest = Script("read_section") /\ c0.points = 0 /\ c0.level = 0 /\ c0.content = Zero
  BY <1>1, <1>22 DEF Point
<1>24. \A c \in P : Linked(c, P, 10)
  <2>1. \A c \in L : Linked(c, P, 10)
    BY <1>21 DEF L
  <2>2. \A c \in Q : Linked(c, P, 10)
    BY <1>19 DEF Q
  <2>3. \A c \in R : Linked(c, P, 10)
    BY <1>19 DEF R
  <2> QED
    BY <1>1, <1>13, <1>14, <1>15, <1>16, <1>17, <1>18, <2>1, <2>2, <2>3
<1> QED
  BY <1>1, <1>13, <1>23, <1>24 DEF GoodPlan, P

\* Every test but the last one has a plan.
LEMMA Plans ==
  ASSUME NEW name \in Tests \ {"read_logical"}
  PROVE  GoodPlan(name)
BY PingPlan, Shm1Plan, MapPlans, WritePlan, OffsetPlan, SectionPlan DEF Tests
-----------------------------------------------------------------------------
(* What the thread finds in its script *)

\* A sequence of some things is one of more things.
LEMMA SeqGrows ==
  ASSUME NEW S, NEW T, S \subseteq T, NEW s \in Seq(S)
  PROVE  s \in Seq(T)
<1>1. Len(s) \in Nat /\ s \in [1..Len(s) -> S]
  BY LenProperties
<1>2. s \in [1..Len(s) -> T]
  BY <1>1
<1> DEFINE n == Len(s)
<1>3. n \in Nat /\ s \in [1..n -> T]
  BY <1>1, <1>2
<1> HIDE DEF n
<1> QED
  BY ONLY <1>3

LEMMA ExpectedAre ==
  ASSUME NEW name \in DOMAIN Arguments \cup {"VARIANT"}, NEW result \in {"SUCCESS", "ERROR"}
  PROVE  /\ Expected(name, result) \in Seq(Tokens) /\ Expected(name, result) # <<>>
         /\ name \in Words /\ name # "EXIT"
<1>1. name \in Words /\ name # "EXIT"
  BY DEF Arguments, Words
<1>2. Str(name) \in Tokens /\ Str(result) \in Tokens
  BY <1>1 DEF Tokens, Words, Str
<1>3. Str("VARIANT") \in Tokens /\ Num(10) \in Tokens /\ Str("VALUE") \in Tokens
  BY DEF Tokens, Words, Str, Num
<1> QED
  BY <1>1, <1>2, <1>3 DEF Expected

\* A request is one step that writes, and steps that read.
Begins(t, words, u) ==
  t # <<>> /\ Head(t).do = "ask" /\ Head(t).words = words /\ Tail(t) = u

LEMMA AskFirst ==
  ASSUME NEW words, NEW expected \in Seq(Tokens), NEW s \in Seq(Steps)
  PROVE  Begins(Ask(words, expected) \o s, words, Reads(expected) \o s)
<1> DEFINE t == Ask(words, expected) \o s
           x == [do |-> "ask", words |-> words]
           S == Steps \cup {x}
           r == Reads(expected)
<1>1. x \in S /\ Steps \subseteq S
  OBVIOUS
<1>2. Ask(words, expected) = <<x>> \o r
  BY DEF Ask, Reads
<1>3. x.do = "ask" /\ x.words = words
  OBVIOUS
<1>4. r \in Seq(Steps) /\ r \o s \in Seq(Steps)
  BY ReadsAre, StepsJoined
<1> HIDE DEF x, S, r, t
<1>5. r \in Seq(S) /\ s \in Seq(S) /\ r \o s \in Seq(S) /\ <<x>> \in Seq(S)
  <2>1. r \in Seq(S) /\ s \in Seq(S) /\ r \o s \in Seq(S)
    BY <1>1, <1>4, SeqGrows
  <2> QED
    BY <1>1, <2>1
<1>6. t = <<x>> \o (r \o s)
  BY <1>2, <1>5, ConcatAssociative DEF t
<1>7. t # <<>> /\ Head(t) = x /\ Tail(t) = r \o s
  BY <1>1, <1>5, <1>6, FirstStep
<1> QED
  BY <1>3, <1>7 DEF r, t, Begins

\* One step before the rest.
LEMMA OtherFirst ==
  ASSUME NEW s \in Seq(Steps), NEW t
  PROVE  /\ t = Remove \o s => t # <<>> /\ Head(t).do = "remove" /\ Tail(t) = s
         /\ t = Find \o s => t # <<>> /\ Head(t).do = "find" /\ Tail(t) = s
         /\ t = <<[do |-> "section"]>> \o s
              => t # <<>> /\ Head(t).do = "section" /\ Tail(t) = s
         /\ \A n \in Nat : t = Points(n) \o s =>
              t # <<>> /\ Head(t).do = "points" /\ Head(t).n = n /\ Tail(t) = s
<1>1. /\ [do |-> "remove"] \in Steps /\ [do |-> "find"] \in Steps /\ [do |-> "section"] \in Steps
      /\ \A n \in Nat : [do |-> "points", n |-> n] \in Steps
  BY DEF Steps
<1>2. ASSUME t = Remove \o s PROVE t # <<>> /\ Head(t).do = "remove" /\ Tail(t) = s
  <2>1. t # <<>> /\ Head(t) = [do |-> "remove"] /\ Tail(t) = s
    BY <1>1, <1>2, FirstStep DEF Remove
  <2> QED
    BY <2>1
<1>3. ASSUME t = Find \o s PROVE t # <<>> /\ Head(t).do = "find" /\ Tail(t) = s
  <2>1. t # <<>> /\ Head(t) = [do |-> "find"] /\ Tail(t) = s
    BY <1>1, <1>3, FirstStep DEF Find
  <2> QED
    BY <2>1
<1>4. ASSUME t = <<[do |-> "section"]>> \o s
      PROVE  t # <<>> /\ Head(t).do = "section" /\ Tail(t) = s
  <2>1. t # <<>> /\ Head(t) = [do |-> "section"] /\ Tail(t) = s
    BY <1>1, <1>4, FirstStep
  <2> QED
    BY <2>1
<1>5. ASSUME NEW n \in Nat, t = Points(n) \o s
      PROVE  t # <<>> /\ Head(t).do = "points" /\ Head(t).n = n /\ Tail(t) = s
  <2> DEFINE x == [do |-> "points", n |-> n]
  <2>1. x \in Steps /\ t = <<x>> \o s /\ x.do = "points" /\ x.n = n
    BY <1>1, <1>5 DEF Points
  <2> HIDE DEF x
  <2>2. t # <<>> /\ Head(t) = x /\ Tail(t) = s
    BY <2>1, FirstStep
  <2> QED
    BY <2>1, <2>2
<1> QED
  BY <1>2, <1>3, <1>4, <1>5

LEMMA CompareFirst ==
  ASSUME NEW s \in Seq(Steps), NEW content, NEW n, NEW t, t = Compare(content, n) \o s
  PROVE  /\ t # <<>> /\ Head(t).do = "compare" /\ Tail(t) = s
         /\ Head(t).content = content /\ Head(t).n = n
<1> DEFINE x == [do |-> "compare", content |-> content, n |-> n]
           S == Steps \cup {x}
<1>1. x \in S /\ Steps \subseteq S /\ t = <<x>> \o s
  BY DEF Compare
<1>2. x.do = "compare" /\ x.content = content /\ x.n = n
  OBVIOUS
<1> HIDE DEF x, S
<1>3. s \in Seq(S)
  BY <1>1, SeqGrows
<1>4. t # <<>> /\ Head(t) = x /\ Tail(t) = s
  BY <1>1, <1>3, FirstStep
<1> QED
  BY <1>2, <1>4

\* What the next step of a script does, from the point c it is at.
Onward(c, P) ==
  \/ \E d \in P :
       /\ d.rest = Tail(c.rest)
       /\ \/ /\ Head(c.rest).do = "remove"
             /\ d.points = c.points /\ d.level = 1 /\ d.content = Zero
          \/ /\ Head(c.rest).do = "find" /\ c.level = 2
             /\ d.points = c.points /\ d.level = 3 /\ d.content = Zero
          \/ /\ Head(c.rest).do = "points" /\ d.points = c.points + Head(c.rest).n
             /\ d.level = c.level /\ d.content \in {Zero, c.content}
          \/ /\ Head(c.rest).do = "compare" /\ d.points = c.points + Head(c.rest).n
             /\ Head(c.rest).content = c.content /\ c.content # Zero
             /\ c.level \in 3..4 /\ d.level = c.level /\ d.content = Zero
  \/ /\ Head(c.rest).do = "ask"
     /\ \E d \in P, name \in DOMAIN Arguments \cup {"VARIANT"}, args \in Seq(Tokens),
           result \in {"SUCCESS", "ERROR"} :
          /\ Head(c.rest).words = <<Str(name)>> \o args
          /\ Tail(c.rest) = Reads(Expected(name, result)) \o d.rest
          /\ Asks(c, d, name, args, result)
  \/ /\ Head(c.rest).do = "section"
     /\ \A p \in Parts : \E d \in P :
          /\ d.rest = PartScript(p) \o Tail(c.rest)
          /\ d.points = c.points /\ d.level = c.level /\ d.content = Zero

\* At every point the script is at its end, or its first step is one that leads on.
LEMMA LinkedOnward ==
  ASSUME NEW c, NEW P, NEW max, Linked(c, P, max), \A d \in P : d.rest \in Seq(Steps)
  PROVE  \/ c.rest = <<>> /\ c.points = max
         \/ c.rest # <<>> /\ Onward(c, P)
<1>1. CASE c.rest = <<>> /\ c.points = max
  BY <1>1
<1>2. ASSUME NEW d \in P, Moves(c, d) PROVE c.rest # <<>> /\ Onward(c, P)
  <2> DEFINE t == c.rest
             s == d.rest
  <2>1. s \in Seq(Steps)
    OBVIOUS
  <2>2. CASE t = Remove \o s /\ d.points = c.points /\ d.level = 1 /\ d.content = Zero
    <3>1. t # <<>> /\ Head(t).do = "remove" /\ Tail(t) = s
      BY <2>1, <2>2, OtherFirst
    <3> QED
      BY <2>2, <3>1 DEF Onward
  <2>3. CASE /\ t = Find \o s /\ c.level = 2
             /\ d.points = c.points /\ d.level = 3 /\ d.content = Zero
    <3>1. t # <<>> /\ Head(t).do = "find" /\ Tail(t) = s
      BY <2>1, <2>3, OtherFirst
    <3> QED
      BY <2>3, <3>1 DEF Onward
  <2>4. ASSUME NEW n \in Nat, t = Points(n) \o s,
               d.points = c.points + n, d.level = c.level, d.content \in {Zero, c.content}
        PROVE  t # <<>> /\ Onward(c, P)
    <3>1. t # <<>> /\ Head(t).do = "points" /\ Head(t).n = n /\ Tail(t) = s
      BY <2>1, <2>4, OtherFirst
    <3> QED
      BY <2>4, <3>1 DEF Onward
  <2>5. ASSUME NEW n \in Nat, t = Compare(c.content, n) \o s, c.content # Zero, c.level \in 3..4,
               d.points = c.points + n, d.level = c.level, d.content = Zero
        PROVE  t # <<>> /\ Onward(c, P)
    <3> DEFINE k == c.content
    <3>1. t = Compare(k, n) \o s
      BY <2>5
    <3> HIDE DEF k, t, s
    <3>2. /\ t # <<>> /\ Head(t).do = "compare" /\ Tail(t) = s
          /\ Head(t).content = k /\ Head(t).n = n
      BY ONLY <2>1, <3>1, CompareFirst, SMTT(30)
    <3> QED
      BY <2>5, <3>2 DEF Onward, k, t, s
  <2> QED
    BY <1>2, <2>2, <2>3, <2>4, <2>5 DEF Moves
<1>3. ASSUME NEW d \in P, Leads(c, d) PROVE c.rest # <<>> /\ Onward(c, P)
  <2>1. PICK name \in DOMAIN Arguments \cup {"VARIANT"}, args \in Seq(Tokens),
             result \in {"SUCCESS", "ERROR"} :
          /\ c.rest = Ask(<<Str(name)>> \o args, Expected(name, result)) \o d.rest
          /\ Asks(c, d, name, args, result)
    BY <1>3 DEF Leads
  <2> DEFINE w == <<Str(name)>> \o args
             e == Expected(name, result)
             t == c.rest
             s == d.rest
             u == Reads(e) \o s
  <2>2. e \in Seq(Tokens) /\ s \in Seq(Steps)
    BY ExpectedAre
  <2>3. t = Ask(w, e) \o s /\ u = Reads(e) \o s
    BY <2>1
  <2> HIDE DEF w, e, t, s, u
  <2>4. Begins(Ask(w, e) \o s, w, u)
    BY <2>2, AskFirst DEF u
  <2>5. t # <<>> /\ Head(t).do = "ask" /\ Head(t).words = w /\ Tail(t) = u
    BY ONLY <2>3, <2>4 DEF Begins
  <2> QED
    BY <2>1, <2>5 DEF Onward, w, e, t, s, u
<1>4. ASSUME Branches(c, P) PROVE c.rest # <<>> /\ Onward(c, P)
  <2>1. PICK s \in Seq(Steps) :
          /\ c.rest = <<[do |-> "section"]>> \o s
          /\ \A p \in Parts : \E d \in P :
               /\ d.rest = PartScript(p) \o s
               /\ d.points = c.points /\ d.level = c.level /\ d.content = Zero
    BY <1>4 DEF Branches
  <2> DEFINE t == c.rest
  <2>2. t # <<>> /\ Head(t).do = "section" /\ Tail(t) = s
    BY <2>1, OtherFirst
  <2> QED
    BY <2>1, <2>2 DEF Onward
<1> QED
  BY <1>1, <1>2, <1>3, <1>4 DEF Linked

\* The points of a test that a3 can serve.
LEMMA PlanPoints ==
  ASSUME Inv, perform = "join", Answerable(test),
         NEW d \in Plan(Session[test])
  PROVE  /\ d.rest \in Seq(Steps) /\ d.points \in Nat /\ d.level \in Levels
         /\ \/ d.rest = <<>> /\ d.points = MaxScore(Session[test])
            \/ d.rest # <<>> /\ Onward(d, Plan(Session[test]))
<1>1. test \in 1..Len(Session) /\ Session[test] \in Tests \ {"read_logical"}
  BY ConstantsAre DEF Inv, TypeOK, MainOK, Answerable
<1>2. GoodPlan(Session[test])
  BY <1>1, Plans
<1>3. \A c \in Plan(Session[test]) : Linked(c, Plan(Session[test]), MaxScore(Session[test]))
  BY <1>2 DEF GoodPlan
<1>4. \A c \in Plan(Session[test]) : c.rest \in Seq(Steps) /\ c.points \in Nat /\ c.level \in Levels
  BY <1>3 DEF Linked
<1> QED
  BY <1>3, <1>4, LinkedOnward

\* The tests that map the file are those that need to write to it.
LEMMA PlanFiles ==
  ASSUME Inv, perform = "join", Answerable(test),
         NEW d \in Plan(Session[test]), d.level \in {4, 5}
  PROVE  test \in Writable
<1>1. Session[test] \in Tests \ {"read_logical"}
  BY ConstantsAre DEF Inv, TypeOK, MainOK, Answerable
<1>2. ASSUME Session[test] = "ping" \/ Session[test] = "map_inexistent"
      PROVE  d.level = 0
  BY <1>2 DEF Plan, Point
<1>3. ASSUME Session[test] = "shm1" \/ Session[test] = "shm_write"
      PROVE  d.level \in {0, 1, 2, 3}
  BY <1>3 DEF Plan, Point, Creating
<1> QED
  BY <1>1, <1>2, <1>3 DEF Answerable, Tests

-----------------------------------------------------------------------------
(* The two programs meet *)

\* a3 opens its ends, and says CONNECT.
LEMMA ServerMeets ==
  ASSUME Inv, InStep, perform = "join", Server PROVE Met'
<1> USE DEF Inv, TypeOK, PipesOK, Met
<1>1. UNCHANGED <<test, perform, thread>>
  BY DEF Server, mainVars, threadVars
<1>2. Met
  BY DEF InStep
<1>3. SUFFICES ASSUME thread \in Greeting \ {"start"} PROVE Met'
  BY <1>1
<1>4. server \notin Busy /\ requests = <<>>
  BY <1>3
<1>5. CASE SetupPipe
  BY <1>1, <1>2, <1>3, <1>5 DEF SetupPipe, Perish, Serve
<1>6. CASE OpenPipe
  BY <1>1, <1>2, <1>3, <1>6 DEF OpenPipe, After, RequestFirst
<1>7. CASE Connect
  <2>1. server = "connect" /\ answers = <<>> /\ "tester" \in resEnds
    BY <1>2, <1>3, <1>7 DEF Connect
  <2>2. <<>> \o <<Str("CONNECT")>> = <<Str("CONNECT")>>
    OBVIOUS
  <2> QED
    BY <1>1, <1>2, <1>3, <1>7, <2>1, <2>2 DEF Connect, Say
<1>8. CASE ReadCommand
  BY <1>4, <1>8 DEF ReadCommand
<1>9. CASE ReadNothing
  BY <1>3, <1>9 DEF ReadNothing, EndOfFile
<1> QED
  BY <1>4, <1>5, <1>6, <1>7, <1>8, <1>9
     DEF Server, Echo, ReadArguments, Act, Reply, Exit, Serve

\* The tester opens its ends.
LEMMA ThreadMeets ==
  ASSUME Inv, InStep, perform = "join", Thread PROVE Met'
<1> USE DEF Inv, TypeOK, PipesOK, Met, Go
<1>1. UNCHANGED <<test, perform>>
  BY DEF Thread, mainVars
<1>2. Met
  BY DEF InStep
<1>3. CASE MakePipe
  BY <1>1, <1>2, <1>3 DEF MakePipe, serverVars
<1>4. CASE Popen
  BY <1>1, <1>2, <1>4 DEF Popen, pipeVars, InStep
<1>5. CASE OpenCmd
  BY <1>1, <1>2, <1>5 DEF OpenCmd, serverVars, PipesKept
<1>6. CASE OpenRes
  BY <1>1, <1>2, <1>6 DEF OpenRes, serverVars, PipesKept
<1>7. CASE ReadConnect
  BY <1>7 DEF ReadConnect
<1>8. CASE ~ (MakePipe \/ Popen \/ OpenCmd \/ OpenRes \/ ReadConnect)
  <2>1. thread \notin Greeting /\ thread' \notin Greeting
    BY <1>8 DEF Thread, AskStep, ReadStep, RemoveStep, FindStep, PointsStep, SectionStep,
       SayExit, WaitForA3, Close, Doing, Proceed, ProceedIf
  <2> QED
    BY <2>1
<1> QED
  BY <1>3, <1>4, <1>5, <1>6, <1>7, <1>8

\* a3 has its end of the answers open for as long as it runs, once it opened it.
LEMMA AnswersOpen ==
  ASSUME Inv, InStep, Next
  PROVE  "a3" \in resEnds' => server' \notin {"gone", "mkfifo", "openCmd", "cmdOpening", "openRes"}
<1> USE DEF Inv, TypeOK, InStep
<1>1. CASE Main
  BY <1>1 DEF Main, Start, Join, Expire, StartBeside, EndBeside, StraysGone, Leave,
     pipeVars, serverVars, threadVars
<1>2. CASE Thread
  <2>1. CASE Popen
    BY <2>1 DEF Popen, Go, PipesOK, pipeVars
  <2>2. CASE ReadConnect
    BY <2>2 DEF ReadConnect, serverVars
  <2>3. CASE MakePipe \/ OpenCmd \/ OpenRes
    BY <2>3 DEF MakePipe, OpenCmd, OpenRes, Go, serverVars
  <2>4. CASE AskStep \/ ReadStep \/ RemoveStep \/ FindStep
    BY <2>4 DEF AskStep, ReadStep, RemoveStep, FindStep, serverVars, pipeVars
  <2>5. CASE PointsStep \/ SectionStep \/ SayExit \/ WaitForA3 \/ Close
    BY <2>5 DEF PointsStep, SectionStep, SayExit, WaitForA3, Close, serverVars, pipeVars
  <2> QED
    BY <1>2, <2>1, <2>2, <2>3, <2>4, <2>5 DEF Thread
<1>3. CASE Server
  <2>1. CASE SetupPipe \/ OpenPipe
    BY <2>1 DEF SetupPipe, OpenPipe, Perish, Serve, After, RequestFirst
  <2>2. CASE Connect \/ Echo \/ Reply
    BY <2>2 DEF Connect, Echo, Reply, Say, Perish
  <2>3. CASE ReadCommand \/ ReadNothing \/ ReadArguments
    BY <2>3 DEF ReadCommand, ReadNothing, ReadArguments, Serve
  <2>4. CASE Act \/ Exit
    BY <2>4 DEF Act, Exit, Result, Serve, pipeVars
  <2> QED
    BY <1>3, <2>1, <2>2, <2>3, <2>4 DEF Server
<1> QED
  BY <1>1, <1>2, <1>3 DEF Next

\* The reply is one of two words.
LEMMA ReplyKept ==
  ASSUME InStep, Next PROVE reply' \in {"SUCCESS", "ERROR"}
<1> USE DEF InStep
<1>1. CASE Main
  BY <1>1 DEF Main, Start, Join, Expire, StartBeside, EndBeside, StraysGone, Leave, serverVars
<1>2. CASE Thread
  BY <1>2 DEF Thread, MakePipe, Popen, OpenCmd, OpenRes, ReadConnect, AskStep, ReadStep,
     RemoveStep, FindStep, PointsStep, SectionStep, SayExit, WaitForA3, Close, serverVars
<1>3. CASE Server
  <2>1. CASE Act
    BY <2>1 DEF Act, Result
  <2>2. CASE ~ Act
    BY <1>3, <2>2 DEF Server, SetupPipe, OpenPipe, Connect, ReadCommand, ReadNothing, Echo,
       ReadArguments, Reply, Exit
  <2> QED
    BY <2>1, <2>2
<1> QED
  BY <1>1, <1>2, <1>3 DEF Next
-----------------------------------------------------------------------------
(* a3 does what it is asked *)

\* The effect of a request is that which the plan has.
LEMMA ActHasEffect ==
  ASSUME Inv, perform = "join", NEW c, NEW d, c.level \in Levels, d.level \in Levels,
         d.level \in {4, 5} => test \in Writable,
         Holds(c), d.points = c.points, NEW result,
         Effect(c, d, command, numbers, result), Act, UNCHANGED <<mainVars, threadVars>>
  PROVE  reply' = result /\ Holds(d)'
<1>1. ~ unread
  BY DEF Inv, MainOK
<1>2. UNCHANGED <<test, points, seen>>
  BY DEF mainVars, threadVars
<1>3. /\ test \in 1..Len(Session) /\ test # None /\ test \in Nat
      /\ memory \in [0..Len(Session) -> Contents] /\ test \in 0..Len(Session)
  <2>1. /\ test \in 0..Len(Session) /\ test >= 1
        /\ memory \in [0..Len(Session) -> Contents]
    BY <1>1 DEF Inv, TypeOK, MainOK
  <2>2. Len(Session) \in Nat /\ None = Len(Session) + 1
    BY ConstantsAre DEF None
  <2> QED
    BY <2>1, <2>2
<1>4. c.level \in 2..4 => region = test /\ shmName = test /\ size = ShmSize
  BY <1>1, <1>3 DEF Holds, Inv, MemoryOK
<1>5. ASSUME command \in {"WRITE_TO_SHM", "READ_FROM_FILE_OFFSET", "READ_FROM_FILE_SECTION"}
      PROVE  /\ memory' = IF Accepted THEN [memory EXCEPT ![region] = Content] ELSE memory
             /\ reply' = Verdict(Accepted)
             /\ UNCHANGED <<region, size, mapped, shmName, memorySize>>
  BY <1>5 DEF Act, Result, Verdict
<1>6. ASSUME region = test PROVE [memory EXCEPT ![region] = Content][test] = Content
  BY <1>3, <1>6
<1>7. CASE command = "CREATE_SHM"
  <2>1. c.level = 1 /\ numbers[1] = ShmSize /\ result = "SUCCESS" /\ d.level = 2 /\ d.content = Zero
    BY <1>7 DEF Effect
  <2>2. shmName = None /\ ShmSize # 0
    BY <2>1, ConstantsAre DEF Holds
  <2>3. shmName' = test /\ region' = test /\ reply' = "SUCCESS"
    BY <1>7, <2>1, <2>2 DEF Act, Result
  <2> QED
    BY <1>2, <2>1, <2>3 DEF Holds
<1>8. CASE command = "MAP_FILE"
  <2>1. /\ c.level \in {0, 3} /\ result = Verdict(numbers[1] = "file") /\ d.content = Zero
        /\ d.level = (IF numbers[1] # "file" THEN c.level ELSE IF c.level = 0 THEN 5 ELSE 4)
    BY <1>8 DEF Effect
  <2>2. /\ mapped' = (numbers[1] = "file" /\ test \in Writable)
        /\ reply' = (IF mapped' THEN "SUCCESS" ELSE "ERROR")
        /\ UNCHANGED <<region, shmName, memory>>
    BY <1>8 DEF Act, Result, memoryVars
  <2>3. mapped' = (numbers[1] = "file") /\ reply' = result
    BY <2>1, <2>2 DEF Verdict
  <2>4. CASE c.level = 0
    BY <1>2, <2>1, <2>2, <2>3, <2>4 DEF Holds
  <2>5. CASE c.level = 3
    <3>1. d.level = (IF numbers[1] # "file" THEN 3 ELSE 4)
      BY <2>1, <2>5
    <3>2. points' = d.points /\ shmName' = test' /\ region' = test' /\ seen' = test'
      BY <1>2, <2>2, <2>5 DEF Holds
    <3>3. d.level \in {3, 4} /\ d.content = Zero
      BY <2>1, <3>1
    <3>4. ASSUME d.level = 4 PROVE mapped'
      <4>1. numbers[1] = "file"
        BY <3>1, <3>4
      <4> QED
        BY <2>3, <4>1
    <3> QED
      BY <2>3, <3>2, <3>3, <3>4 DEF Holds
  <2> QED
    BY <2>1, <2>4, <2>5
<1>9. CASE command = "WRITE_TO_SHM"
  <2>1. /\ c.level \in 3..4 /\ d.level = c.level
        /\ result = Verdict(numbers[1] + 4 <= ShmSize)
        /\ d.content = IF result = "SUCCESS" THEN Written(numbers[1], numbers[2]) ELSE Zero
    BY <1>9 DEF Effect
  <2>2. /\ region = test /\ (Accepted <=> numbers[1] + 4 <= ShmSize)
        /\ Content = Written(numbers[1], numbers[2])
    BY <1>4, <1>9, <2>1 DEF Accepted, WriteFits, Content, Levels
  <2>3. reply' = result /\ (d.content # Zero => memory'[test] = d.content)
    BY <1>5, <1>6, <1>9, <2>1, <2>2 DEF Verdict
  <2> QED
    BY <1>2, <1>5, <1>9, <2>1, <2>3 DEF Holds
<1>10. CASE command = "READ_FROM_FILE_OFFSET"
  <2>1. /\ c.level = 4 /\ d.level = 4
        /\ result = Verdict(Sum(numbers[1], numbers[2]) <= FileSize /\ numbers[2] <= ShmSize)
        /\ d.content = IF result = "SUCCESS" THEN Copied(numbers[1], numbers[2]) ELSE Zero
    BY <1>10 DEF Effect
  <2>2. region = test /\ region # None /\ mapped /\ size = ShmSize
    BY <1>3, <1>4, <2>1 DEF Holds
  <2>3. /\ Accepted <=> Sum(numbers[1], numbers[2]) <= FileSize /\ numbers[2] <= ShmSize
        /\ Content = Copied(numbers[1], numbers[2])
    BY <1>10, <2>2 DEF Accepted, OffsetFits, Content
  <2>4. reply' = result /\ (d.content # Zero => memory'[test] = d.content)
    BY <1>5, <1>6, <1>10, <2>1, <2>2, <2>3 DEF Verdict
  <2> QED
    BY <1>2, <1>5, <1>10, <2>1, <2>4 DEF Holds
<1>11. CASE command = "READ_FROM_FILE_SECTION"
  <2> DEFINE fits == /\ numbers[1] <= Len(Sections)
                     /\ Sum(numbers[2], numbers[3]) <= Sections[numbers[1]].size
                     /\ Sum(Sections[numbers[1]].offset, Sections[numbers[1]].size) <= FileSize
             copy == Copied(PartBegin(numbers[1], numbers[2]), numbers[3])
  <2>1. /\ c.level = 4 /\ d.level = 4 /\ result = Verdict(fits)
        /\ d.content = IF result = "SUCCESS" THEN copy ELSE Zero
    BY <1>11 DEF Effect
  <2>2. region = test /\ region # None /\ mapped
    BY <1>3, <1>4, <2>1 DEF Holds
  <2>3. (Accepted <=> fits) /\ Content = copy
    BY <1>11, <2>2 DEF Accepted, SectionFits, Content
  <2> HIDE DEF fits, copy
  <2>4. reply' = result /\ (d.content # Zero => memory'[test] = d.content)
    BY <1>5, <1>6, <1>11, <2>1, <2>2, <2>3 DEF Verdict
  <2> QED
    BY <1>2, <1>5, <1>11, <2>1, <2>4 DEF Holds
<1> QED
  BY <1>7, <1>8, <1>9, <1>10, <1>11 DEF Effect

\* Short sequences.
LEMMA OneAppended ==
  ASSUME NEW x \in Tokens, NEW y \in Tokens, NEW z \in Tokens
  PROVE  /\ <<>> \o (<<x>> \o <<y, z>>) = <<x, y, z>>
         /\ <<>> \o (<<x>> \o <<>>) = <<x>>
         /\ Append(<<x>>, y) = <<x, y>>
<1>1. /\ <<x>> \in Seq(Tokens) /\ Len(<<x>>) = 1 /\ <<x>>[1] = x
      /\ <<y, z>> \in Seq(Tokens) /\ Len(<<y, z>>) = 2 /\ <<y, z>>[1] = y /\ <<y, z>>[2] = z
      /\ <<x, y, z>> \in Seq(Tokens) /\ Len(<<x, y, z>>) = 3
      /\ <<x, y, z>>[1] = x /\ <<x, y, z>>[2] = y /\ <<x, y, z>>[3] = z
  OBVIOUS
<1>2. <<x>> \o <<y, z>> = <<x, y, z>>
  <2> DEFINE u == <<x>>
             v == <<y, z>>
             w == <<x, y, z>>
  <2>1. /\ u \o v \in Seq(Tokens) /\ Len(u \o v) = Len(u) + Len(v)
        /\ \A i \in 1..Len(u) + Len(v) : (u \o v)[i] = IF i <= Len(u) THEN u[i] ELSE v[i - Len(u)]
    BY <1>1, ConcatProperties
  <2> HIDE DEF u, v, w
  <2>2. Len(u) = 1 /\ u[1] = x /\ Len(v) = 2 /\ v[1] = y /\ v[2] = z
    BY <1>1 DEF u, v
  <2>3. Len(w) = 3 /\ w[1] = x /\ w[2] = y /\ w[3] = z /\ w \in Seq(Tokens)
    BY <1>1 DEF w
  <2>4. Len(u \o v) = 3 /\ (u \o v)[1] = x /\ (u \o v)[2] = y /\ (u \o v)[3] = z
    BY <2>1, <2>2
  <2>5. \A i \in 1..Len(w) : (u \o v)[i] = w[i]
    BY <2>3, <2>4
  <2>6. u \o v = w
    BY <2>1, <2>3, <2>4, <2>5, SeqEqual
  <2> QED
    BY <2>6 DEF u, v, w
<1>3. <<x>> \o <<>> = <<x>> /\ <<>> \o <<x>> = <<x>> /\ <<>> \o <<x, y, z>> = <<x, y, z>>
  BY <1>1, ConcatEmptySeq
<1>4. Append(<<x>>, y) = <<x, y>>
  <2> DEFINE u == <<x>>
             a == Append(u, y)
             w == <<x, y>>
  <2>1. w \in Seq(Tokens) /\ Len(w) = 2 /\ w[1] = x /\ w[2] = y
    OBVIOUS
  <2>2. u \in Seq(Tokens) /\ Len(u) = 1 /\ u[1] = x
    BY <1>1
  <2> HIDE DEF u, w
  <2>3. /\ a \in Seq(Tokens) /\ Len(a) = Len(u) + 1
        /\ \A i \in 1..Len(u) : a[i] = u[i]
        /\ a[Len(u) + 1] = y
    BY <2>2, AppendProperties, SMTT(30)
  <2> HIDE DEF a
  <2>4. Len(a) = 2 /\ a[1] = x /\ a[2] = y
    BY <2>2, <2>3
  <2>5. \A i \in 1..Len(a) : a[i] = w[i]
    BY <2>1, <2>4
  <2>6. a = w
    BY <2>1, <2>3, <2>4, <2>5, SeqEqual
  <2> QED
    BY <2>6 DEF a, u, w
<1> QED
  BY <1>2, <1>3, <1>4

\* One request in the pipe is all there is for a3 to read.
LEMMA FirstToken ==
  ASSUME NEW w \in Seq(Tokens), w # <<>>
  PROVE  /\ 1 \in DOMAIN w /\ w[1] = Head(w)
         /\ <<>> \o SubSeq(w, 1 + 1, Len(w)) = Tail(w)
<1>1. Len(w) \in Nat \ {0} /\ DOMAIN w = 1..Len(w) /\ Head(w) = w[1]
  BY LenProperties, EmptySeq, HeadTailProperties
<1>2. Tail(w) = SubSeq(w, 1 + 1, Len(w)) /\ Tail(w) \in Seq(Tokens)
  BY <1>1, HeadTailProperties
<1> QED
  BY <1>1, <1>2, ConcatEmptySeq
-----------------------------------------------------------------------------
(* a3 answers a request, step by step *)

\* What holds at a point goes on to hold.
LEMMA HoldsKept ==
  ASSUME NEW c, Holds(c), UNCHANGED <<points, shmName, test, region, seen, mapped, memory>>
  PROVE  Holds(c)'
BY DEF Holds

\* Where a3 is, it takes the step that belongs there; the tester listens.
LEMMA ServerStep ==
  ASSUME Inv, perform = "join", thread = "test", Server
  PROVE  /\ UNCHANGED <<test, perform, thread, script, points, seen, Unwritten, AfterAsk>>
         /\ "tester" \in cmdEnds /\ "tester" \in resEnds
         /\ requests \in Seq(Tokens)
         /\ server = "command" => ReadCommand
         /\ server = "echo" => Echo
         /\ server = "arguments" => ReadArguments
         /\ server = "act" => Act
         /\ server = "reply" => Reply
<1>1. UNCHANGED <<test, perform, thread, script, points, seen, Unwritten, AfterAsk>>
  BY DEF Server, mainVars, threadVars, Unwritten, AfterAsk, Doing
<1>2. "tester" \in cmdEnds /\ "tester" \in resEnds
  BY DEF Inv, PipesOK
<1>3. requests \in Seq(Tokens)
  BY DEF Inv, TypeOK
<1>4. ~ ReadNothing
  BY <1>2 DEF ReadNothing, EndOfFile
<1>5. /\ SetupPipe => server = "mkfifo"
      /\ OpenPipe => server \in {"openCmd", "cmdOpening", "openRes", "resOpening"}
      /\ Connect => server = "connect"
      /\ ReadCommand => server = "command"
      /\ Echo => server = "echo"
      /\ ReadArguments => server = "arguments"
      /\ Act => server = "act"
      /\ Reply => server = "reply"
      /\ Exit => server = "exit"
  BY DEF SetupPipe, OpenPipe, Connect, ReadCommand, Echo, ReadArguments, Act, Reply, Exit, Serve
<1>6. \/ SetupPipe \/ OpenPipe \/ Connect \/ ReadCommand \/ Echo
      \/ ReadArguments \/ Act \/ Reply \/ Exit
  BY <1>4 DEF Server
<1> QED
  BY <1>1, <1>2, <1>3, <1>5, <1>6

\* Its end of the answers stays open.
LEMMA ServerStays ==
  ASSUME "tester" \in resEnds, ReadCommand \/ Echo \/ ReadArguments \/ Act \/ Reply
  PROVE  UNCHANGED resEnds
BY DEF ReadCommand, Echo, ReadArguments, Act, Reply, Say, pipeVars

\* What a3 has read is no longer to come.
LEMMA ComingRead ==
  ASSUME Inv, UNCHANGED Unwritten, NEW i \in 0..Len(requests),
         requests' = SubSeq(requests, i + 1, Len(requests))
  PROVE  Coming' = SubSeq(Coming, i + 1, Len(Coming)) /\ requests' \in Seq(Tokens)
BY ComingIs, TokensJoined DEF Coming

\* Nothing to come: nothing is in the pipe, and nothing being written.
LEMMA NothingComing ==
  ASSUME Inv, Coming = <<>>
  PROVE  requests = <<>> /\ Unwritten = <<>> /\ ~ Doing("ask") /\ AfterAsk = script
<1>1. /\ requests \in Seq(Tokens) /\ Unwritten \in Seq(Tokens)
      /\ Len(requests) \in Nat /\ Len(Coming) = Len(requests) + Len(Unwritten)
  BY ComingIs
<1>2. Len(Unwritten) \in Nat /\ Len(Coming) = 0
  BY <1>1, LenProperties
<1>3. Len(requests) = 0 /\ Len(Unwritten) = 0
  BY <1>1, <1>2
<1>4. requests = <<>> /\ Unwritten = <<>>
  BY <1>1, <1>3, EmptySeq
<1>5. ~ Doing("ask")
  <2> SUFFICES ASSUME Doing("ask") PROVE FALSE
    OBVIOUS
  <2>1. script \in Seq(Steps) /\ script # <<>> /\ Head(script).do = "ask"
    BY DEF Doing, Inv, TypeOK
  <2>2. Head(script).words # <<>>
    BY <2>1, AskWhole
  <2> QED
    BY <1>4, <2>2 DEF Unwritten
<1> QED
  BY <1>4, <1>5 DEF AfterAsk

\* a3 reads the name of a request,
LEMMA CommandRead ==
  ASSUME Inv, perform = "join", thread = "test", Server, NEW c, NEW d,
         Holds(c), server = "command", answers = <<>>, Coming # <<>>,
         NEW result \in {"SUCCESS", "ERROR"}, NEW name \in DOMAIN Arguments \cup {"VARIANT"},
         Head(Coming) = Str(name), Asks(c, d, name, Tail(Coming), result),
         AfterAsk = Reads(Expected(name, result)) \o d.rest
  PROVE  Asked(c, d)'
<1>1. /\ UNCHANGED <<test, perform, thread, script, points, seen, Unwritten, AfterAsk>>
      /\ requests \in Seq(Tokens) /\ ReadCommand
  BY ServerStep
<1>2. /\ DOMAIN requests = 1..Len(requests) /\ Len(requests) \in Nat /\ requests # <<>>
      /\ Len(requests) >= 1
  <2>1. PICK i \in DOMAIN requests : TRUE
    BY <1>1 DEF ReadCommand
  <2>2. DOMAIN requests = 1..Len(requests) /\ Len(requests) \in Nat
    BY <1>1, LenProperties
  <2> QED
    BY <1>1, <2>1, <2>2, EmptySeq
<1>3. /\ 1 \in DOMAIN requests /\ requests[1] = Str(name)
      /\ SubSeq(Coming, 1 + 1, Len(Coming)) = Tail(Coming)
  <2>1. Coming \in Seq(Tokens) /\ Coming[1] = requests[1]
    BY <1>2, ComingIs DEF WholeRequests
  <2>2. Coming[1] = Head(Coming) /\ Tail(Coming) = SubSeq(Coming, 1 + 1, Len(Coming))
    BY <2>1, HeadTailProperties
  <2> QED
    BY <1>2, <2>1, <2>2
<1>4. requests[1][1] = "s" /\ requests[1][2] = name /\ name # "EXIT"
  BY <1>3, ExpectedAre DEF Str
<1>5. PICK i \in DOMAIN requests :
        /\ \A j \in 1..i-1 : requests[j][1] # "s"
        /\ command' = IF i = 1 /\ requests[1][1] = "s" THEN requests[1][2] ELSE "garbage"
        /\ \E rest \in {<<>>} \cup IF requests[i][1] = "n" THEN {<< <<"rest", 0>> >>} ELSE {} :
             requests' = rest \o SubSeq(requests, i + 1, Len(requests))
  BY <1>1 DEF ReadCommand
<1>6. i = 1
  <2>1. i \in Nat /\ i >= 1
    BY <1>3, <1>2
  <2>2. 1 \notin 1..i-1
    BY <1>4, <1>5
  <2> QED
    BY <2>1, <2>2
<1>7. command' = name /\ Coming' = Tail(Coming)
  <2>1. command' = name /\ requests' = <<>> \o SubSeq(requests, 1 + 1, Len(requests))
    BY <1>3, <1>4, <1>5, <1>6
  <2>2. 1 \in 0..Len(requests) /\ SubSeq(requests, 1 + 1, Len(requests)) \in Seq(Tokens)
    BY <1>1, <1>2, TokensJoined, OneTokenWhole
  <2>3. requests' = SubSeq(requests, 1 + 1, Len(requests))
    BY <2>1, <2>2, ConcatEmptySeq
  <2> QED
    BY <1>1, <1>3, <2>1, <2>2, <2>3, ComingRead
<1>8. server' = "echo" /\ UNCHANGED <<answers, region, mapped, memory, shmName>>
  BY <1>1, <1>4, <1>7 DEF ReadCommand, memoryVars
<1>9. Holds(c)'
  BY <1>1, <1>8, HoldsKept
<1> QED
  BY <1>1, <1>7, <1>8, <1>9 DEF Asked

\* says it,
LEMMA CommandEchoed ==
  ASSUME Inv, perform = "join", thread = "test", Server, NEW c, NEW d,
         Holds(c), server = "echo", answers = <<>>, NEW result \in {"SUCCESS", "ERROR"},
         Asks(c, d, command, Coming, result),
         AfterAsk = Reads(Expected(command, result)) \o d.rest
  PROVE  Asked(c, d)' \/ Answered(d)'
<1>1. /\ UNCHANGED <<test, perform, thread, script, points, seen, Unwritten, AfterAsk>>
      /\ requests \in Seq(Tokens) /\ Echo /\ "tester" \in resEnds
  BY ServerStep
<1>2. UNCHANGED <<requests, command, region, mapped, memory, shmName>>
  BY <1>1 DEF Echo, Say, memoryVars
<1>3. UNCHANGED Coming
  BY <1>1, <1>2 DEF Coming
<1>4. Holds(c)'
  BY <1>1, <1>2, HoldsKept
<1>5. CASE command = "VARIANT"
  <2>1. /\ Coming = <<>> /\ d.points = c.points /\ d.level = c.level /\ d.content = Zero
    BY <1>5 DEF Asks, Arguments
  <2>2. requests = <<>> /\ AfterAsk = script
    BY <2>1, NothingComing
  <2>3. answers' = <<>> \o (<<Str(command)>> \o <<Num(10), Str("VALUE")>>) /\ server' = "command"
    BY <1>1, <1>5 DEF Echo, Say, Arguments
  <2>4. Str(command) \in Tokens /\ Num(10) \in Tokens /\ Str("VALUE") \in Tokens
    BY <1>5 DEF Tokens, Words, Str, Num
  <2>5. answers' = Expected(command, result)
    BY <1>5, <2>3, <2>4, OneAppended DEF Expected
  <2>6. Holds(d)'
    BY <1>4, <2>1 DEF Holds
  <2> QED
    BY <1>1, <1>2, <2>2, <2>3, <2>5, <2>6 DEF Answered
<1>6. CASE command # "VARIANT"
  <2>1. command \in DOMAIN Arguments
    BY <1>6 DEF Asks
  <2>2. answers' = <<>> \o (<<Str(command)>> \o <<>>) /\ server' = "arguments"
    BY <1>1, <1>6, <2>1 DEF Echo, Say
  <2>3. Str(command) \in Tokens /\ Str(result) \in Tokens
    BY <2>1 DEF Tokens, Words, Str, Arguments
  <2>4. answers' = <<Str(command)>>
    BY <2>2, <2>3, OneAppended
  <2>5. Append(answers', Str(result)) = Expected(command, result)
    BY <1>6, <2>3, <2>4, OneAppended DEF Expected
  <2> QED
    BY <1>1, <1>2, <1>4, <1>6, <1>3, <2>2, <2>5 DEF Asked
<1> QED
  BY <1>5, <1>6

\* reads the arguments,
LEMMA ArgumentsRead ==
  ASSUME Inv, perform = "join", thread = "test", Server, NEW c, NEW d,
         Holds(c), server = "arguments", command # "VARIANT",
         NEW result \in {"SUCCESS", "ERROR"}, Asks(c, d, command, Coming, result),
         AfterAsk = Reads(Append(answers, Str(result))) \o d.rest
  PROVE  Asked(c, d)'
<1>1. /\ UNCHANGED <<test, perform, thread, script, points, seen, Unwritten, AfterAsk>>
      /\ requests \in Seq(Tokens) /\ ReadArguments /\ "tester" \in cmdEnds
  BY ServerStep
<1> DEFINE n == Arguments[command]
           ns == [i \in 1..n |-> Coming[i][2]]
<1>2. /\ d.points = c.points /\ command \in DOMAIN Arguments /\ Len(Coming) = n
      /\ Effect(c, d, command, ns, result)
  BY DEF Asks
<1>3. n \in Nat
  BY <1>2, ArgumentsAre
<1>4. /\ Len(requests) >= n /\ numbers' = [i \in 1..n |-> requests[i][2]]
      /\ requests' = SubSeq(requests, n + 1, Len(requests))
      /\ server' = "act" /\ UNCHANGED <<answers, command, region, mapped, memory, shmName>>
  BY <1>1 DEF ReadArguments, Serve, memoryVars, EndOfFile
<1>5. /\ Len(requests) = n /\ Coming = requests
      /\ Coming \in Seq(Tokens)
  <2>1. /\ Len(requests) \in Nat /\ Len(Coming) = Len(requests) + Len(Unwritten)
        /\ Unwritten \in Seq(Tokens)
    BY ComingIs
  <2>2. Len(requests) = n /\ Len(Unwritten) = 0
    <3>1. Len(Unwritten) \in Nat
      BY <2>1, LenProperties
    <3> HIDE DEF n
    <3> QED
      BY <3>1, <1>2, <1>3, <1>4, <2>1
  <2>3. Unwritten = <<>>
    BY <2>1, <2>2, EmptySeq
  <2>4. Coming = requests
    BY <1>1, <2>3, ConcatEmptySeq DEF Coming
  <2> QED
    BY <1>1, <2>2, <2>4
<1>6. numbers' = ns
  BY <1>4, <1>5
<1>7. Coming' = <<>>
  <2> HIDE DEF n
  <2>1. Coming' = SubSeq(Coming, n + 1, Len(Coming))
    BY <1>1, <1>3, <1>4, <1>5, ComingRead
  <2> QED
    BY <1>3, <1>5, <2>1, SubSeqEmpty
<1> HIDE DEF n, ns
<1>8. Holds(c)'
  BY <1>1, <1>4, HoldsKept
<1> QED
  BY <1>1, <1>2, <1>4, <1>7, <1>8, <1>6 DEF Asked

\* acts,
LEMMA RequestActed ==
  ASSUME Inv, perform = "join", thread = "test", Server, NEW c, NEW d,
         c.level \in Levels, d.level \in Levels, d.level \in {4, 5} => test \in Writable,
         Holds(c), server = "act", Coming = <<>>, d.points = c.points,
         NEW result \in {"SUCCESS", "ERROR"}, Effect(c, d, command, numbers, result),
         AfterAsk = Reads(Append(answers, Str(result))) \o d.rest
  PROVE  Answered(d)'
<1>1. UNCHANGED <<test, perform, thread, script, points, seen, Unwritten, AfterAsk>> /\ Act
  BY ServerStep
<1>2. reply' = result /\ Holds(d)'
  BY <1>1, ActHasEffect DEF Server
<1>3. server' = "reply" /\ UNCHANGED <<requests, answers>>
  BY <1>1 DEF Act, Result, Serve, pipeVars
<1>4. requests = <<>> /\ AfterAsk = script
  BY NothingComing
<1> QED
  BY <1>1, <1>2, <1>3, <1>4 DEF Answered

\* and answers.
LEMMA AnswerGiven ==
  ASSUME Inv, perform = "join", thread = "test", Server, NEW d, Answered(d),
         answers \in Seq(Tokens)
  PROVE  Answered(d)'
<1>1. /\ UNCHANGED <<test, perform, thread, script, points, seen, Unwritten, AfterAsk>>
      /\ "tester" \in resEnds
      /\ server = "command" => ReadCommand
      /\ server = "reply" => Reply
  BY ServerStep
<1>2. server # "command"
  BY <1>1 DEF Answered, ReadCommand
<1>3. server = "reply" /\ Reply /\ requests = <<>> /\ Holds(d)
      /\ script = Reads(Append(answers, Str(reply))) \o d.rest
  BY <1>1, <1>2 DEF Answered
<1>4. /\ answers' = answers \o <<Str(reply)>> /\ server' = "command"
      /\ UNCHANGED <<requests, region, mapped, memory, shmName>>
  BY <1>1, <1>3 DEF Reply, Say, memoryVars
<1>5. answers' = Append(answers, Str(reply))
  BY <1>4
<1>6. Holds(d)'
  BY <1>1, <1>3, <1>4, HoldsKept
<1> QED
  BY <1>1, <1>3, <1>4, <1>5, <1>6 DEF Answered

\* What it says are words and numbers.
LEMMA AnswersAre ==
  ASSUME Inv, InStep, perform = "join", thread = "test", Server, answers \in Seq(Tokens),
         server \in {"command", "echo", "arguments", "act", "reply"},
         server = "echo" => command \in DOMAIN Arguments \cup {"VARIANT"}
  PROVE  answers' \in Seq(Tokens) /\ UNCHANGED resEnds
<1>1. /\ "tester" \in resEnds
      /\ server = "command" => ReadCommand
      /\ server = "echo" => Echo
      /\ server = "arguments" => ReadArguments
      /\ server = "act" => Act
      /\ server = "reply" => Reply
  BY ServerStep
<1>2. UNCHANGED resEnds
  BY <1>1, ServerStays
<1>3. CASE server \in {"command", "arguments", "act"}
  BY <1>1, <1>3 DEF ReadCommand, ReadArguments, Act, pipeVars
<1>4. CASE server = "echo"
  <2>1. Str(command) \in Tokens /\ Num(10) \in Tokens /\ Str("VALUE") \in Tokens
    BY <1>4 DEF Tokens, Words, Str, Num, Arguments
  <2> DEFINE more == IF command = "VARIANT" THEN <<Num(10), Str("VALUE")>> ELSE <<>>
  <2>2. <<Str(command)>> \in Seq(Tokens) /\ more \in Seq(Tokens)
    BY <2>1
  <2>3. answers' = answers \o (<<Str(command)>> \o more)
    BY <1>1, <1>4 DEF Echo, Say
  <2> HIDE DEF more
  <2>4. <<Str(command)>> \o more \in Seq(Tokens)
    BY <2>2, ConcatProperties
  <2> QED
    BY <1>2, <2>3, <2>4, ConcatProperties
<1>5. CASE server = "reply"
  <2>1. Str(reply) \in Tokens
    BY DEF InStep, Tokens, Words, Str
  <2>2. <<Str(reply)>> \in Seq(Tokens) /\ answers' = answers \o <<Str(reply)>>
    BY <1>1, <1>5, <2>1 DEF Reply, Say
  <2> QED
    BY <1>2, <2>2, ConcatProperties
<1> QED
  BY <1>3, <1>4, <1>5, <1>2

\* A step of a3 keeps the two in step.
LEMMA ServerServes ==
  ASSUME Inv, InStep, perform = "join", Answerable(test), Server
  PROVE  Served'
<1>1. UNCHANGED <<test, perform, thread, script, score, points>>
  BY DEF Server, mainVars, threadVars
<1>2. Served
  BY DEF InStep
<1>3. CASE thread \notin {"test", "wait"}
  BY <1>1, <1>2, <1>3 DEF Served
<1>4. CASE thread = "wait"
  <2>1. "tester" \in cmdEnds
    BY <1>4 DEF Inv, PipesOK
  <2>2. server' \in {"gone", "exit"}
    <3>1. CASE server \in {"gone", "exit"}
      BY <3>1 DEF Server, SetupPipe, OpenPipe, Connect, ReadCommand, ReadNothing, Echo,
         ReadArguments, Act, Reply, Exit, Serve
    <3>2. CASE server = "command" /\ requests = <<Str("EXIT")>>
      <4>1. ReadCommand
        BY <2>1, <3>2 DEF Server, SetupPipe, OpenPipe, Connect, ReadNothing, EndOfFile, Echo,
           ReadArguments, Act, Reply, Exit, Serve
      <4>2. DOMAIN requests = 1..1 /\ requests[1] = Str("EXIT") /\ requests[1][1] = "s"
            /\ requests[1][2] = "EXIT"
        BY <3>2 DEF Str
      <4>3. PICK i \in DOMAIN requests :
              command' = IF i = 1 /\ requests[1][1] = "s" THEN requests[1][2] ELSE "garbage"
        BY <4>1 DEF ReadCommand
      <4>4. command' = "EXIT"
        BY <4>2, <4>3
      <4> QED
        BY <4>1, <4>4 DEF ReadCommand
    <3> QED
      BY <1>2, <1>4, <3>1, <3>2 DEF Served
  <2> QED
    BY <1>1, <1>2, <1>4, <2>2 DEF Served
<1>5. CASE thread = "test"
  <2> DEFINE P == Plan(Session[test])
  <2>1. PICK d \in P : Answered(d) \/ \E c \in P : Asked(c, d)
    BY <1>2, <1>5 DEF Served
  <2>2. "a3" \in resEnds /\ answers \in Seq(Tokens)
    BY <1>2, <1>5 DEF Served
  <2>3. \A c \in P : c.level \in Levels /\ (c.level \in {4, 5} => test \in Writable)
    BY PlanPoints, PlanFiles
  <2>4. UNCHANGED P
    BY <1>1
  <2>5. /\ Answered(d)' \/ \E c \in P : Asked(c, d)'
        /\ server \in {"command", "echo", "arguments", "act", "reply"}
        /\ server = "echo" => command \in DOMAIN Arguments \cup {"VARIANT"}
    <3> HIDE DEF P
    <3>1. CASE Answered(d)
      <4>1. Answered(d)'
        BY <1>5, <2>2, <3>1, AnswerGiven
      <4> QED
        BY <3>1, <4>1 DEF Answered
    <3>2. ASSUME NEW c \in P, Asked(c, d)
          PROVE  /\ Answered(d)' \/ Asked(c, d)'
                 /\ server \in {"command", "echo", "arguments", "act"}
                 /\ server = "echo" => command \in DOMAIN Arguments \cup {"VARIANT"}
      <4>1. /\ c.level \in Levels /\ d.level \in Levels /\ Holds(c)
            /\ d.level \in {4, 5} => test \in Writable
        BY <2>3, <3>2 DEF Asked
      <4>2. PICK result \in {"SUCCESS", "ERROR"} :
       \/ /\ server = "command" /\ answers = <<>> /\ Coming # <<>>
          /\ \E name \in DOMAIN Arguments \cup {"VARIANT"} :
               /\ Head(Coming) = Str(name)
               /\ Asks(c, d, name, Tail(Coming), result)
               /\ AfterAsk = Reads(Expected(name, result)) \o d.rest
       \/ /\ server = "echo" /\ answers = <<>>
          /\ Asks(c, d, command, Coming, result)
          /\ AfterAsk = Reads(Expected(command, result)) \o d.rest
       \/ /\ server = "arguments" /\ command # "VARIANT"
          /\ Asks(c, d, command, Coming, result)
          /\ AfterAsk = Reads(Append(answers, Str(result))) \o d.rest
       \/ /\ server = "act" /\ Coming = <<>> /\ d.points = c.points
          /\ Effect(c, d, command, numbers, result)
          /\ AfterAsk = Reads(Append(answers, Str(result))) \o d.rest
        BY <3>2 DEF Asked
      <4>3. CASE server = "command"
        BY <1>5, <4>1, <4>2, <4>3, CommandRead
      <4>4. CASE server = "echo"
        <5>1. command \in DOMAIN Arguments \cup {"VARIANT"}
          BY <4>2, <4>4 DEF Asks
        <5> QED
          BY <1>5, <4>1, <4>2, <4>4, <5>1, CommandEchoed
      <4>5. CASE server = "arguments"
        BY <1>5, <4>1, <4>2, <4>5, ArgumentsRead
      <4>6. CASE server = "act"
        BY <1>5, <4>1, <4>2, <4>6, RequestActed
      <4> QED
        BY <4>2, <4>3, <4>4, <4>5, <4>6
    <3> QED
      BY <2>1, <3>1, <3>2
  <2>6. answers' \in Seq(Tokens) /\ "a3" \in resEnds'
    BY <1>5, <2>2, <2>5, AnswersAre
  <2> QED
    BY <1>1, <1>2, <1>5, <2>4, <2>5, <2>6 DEF Served
<1> QED
  BY <1>3, <1>4, <1>5
-----------------------------------------------------------------------------
(* The thread takes what is next in its script *)

\* While an answer is to be read, the thread reads, and waits while there is none.
LEMMA OnlyReads ==
  ASSUME thread = "test", Thread, NEW a \in Seq(Tokens), a # <<>>, NEW s \in Seq(Steps),
         script = Reads(a) \o s, {"a3", "tester"} \subseteq resEnds,
         answers # <<>> => Head(a) = Head(answers)
  PROVE  /\ answers # <<>> /\ answers' = Tail(answers)
         /\ script' = Reads(Tail(a)) \o s
         /\ UNCHANGED <<test, perform, thread, points, score, seen, requests, resEnds,
                        server, command, numbers, region, mapped, reply, shmName, memory>>
<1>1. /\ script # <<>> /\ Head(script).do = "read" /\ Head(script).token = Head(a)
      /\ Tail(script) = Reads(Tail(a)) \o s
  <2> DEFINE t == script
  <2>1. t = Reads(a) \o s
    OBVIOUS
  <2> HIDE DEF t
  <2>2. t # <<>> /\ Head(t).do = "read" /\ Head(t).token = Head(a) /\ Tail(t) = Reads(Tail(a)) \o s
    BY ONLY <2>1, a \in Seq(Tokens), a # <<>>, s \in Seq(Steps), NextRead, ZenonT(30)
  <2> QED
    BY <2>2 DEF t
<1>2. ReadStep
  BY <1>1 DEF Thread, MakePipe, Popen, OpenCmd, OpenRes, ReadConnect, AskStep, RemoveStep,
     FindStep, PointsStep, SectionStep, SayExit, WaitForA3, Close, Go, Doing
<1>3. answers # <<>> /\ answers' = Tail(answers)
      /\ ProceedIf(Head(answers) = Head(script).token)
  BY <1>2 DEF ReadStep, Read
<1>4. Proceed
  BY <1>1, <1>3 DEF ProceedIf
<1> QED
  BY <1>1, <1>2, <1>3, <1>4 DEF ReadStep, Proceed, Thread, mainVars, serverVars, memoryVars

\* What is appended is not read first.
LEMMA AppendedLast ==
  ASSUME NEW a \in Seq(Tokens), NEW x \in Tokens
  PROVE  /\ Append(a, x) \in Seq(Tokens) /\ Append(a, x) # <<>>
         /\ a # <<>> => /\ Head(Append(a, x)) = Head(a) /\ Tail(a) \in Seq(Tokens)
                        /\ Tail(Append(a, x)) = Append(Tail(a), x)
<1>1. /\ Append(a, x) \in Seq(Tokens) /\ Append(a, x) # <<>>
      /\ Len(Append(a, x)) = Len(a) + 1 /\ Len(a) \in Nat
      /\ \A i \in 1..Len(a) : Append(a, x)[i] = a[i]
      /\ Append(a, x)[Len(a) + 1] = x
  BY AppendProperties, LenProperties
<1>2. ASSUME a # <<>>
      PROVE  /\ Head(Append(a, x)) = Head(a) /\ Tail(a) \in Seq(Tokens)
             /\ Tail(Append(a, x)) = Append(Tail(a), x)
  <2> DEFINE b == Append(a, x)
             u == Tail(b)
             v == Tail(a)
             w == Append(v, x)
  <2>1. /\ v \in Seq(Tokens) /\ Len(v) = Len(a) - 1 /\ Len(a) >= 1
        /\ \A i \in 1..Len(v) : v[i] = a[i + 1]
    BY <1>1, <1>2, HeadTailProperties, EmptySeq
  <2>2. /\ u \in Seq(Tokens) /\ Len(u) = Len(b) - 1
        /\ \A i \in 1..Len(u) : u[i] = b[i + 1]
    BY <1>1, HeadTailProperties
  <2> HIDE DEF v
  <2>3. /\ w \in Seq(Tokens) /\ Len(w) = Len(v) + 1
        /\ \A i \in 1..Len(v) : w[i] = v[i]
        /\ w[Len(v) + 1] = x
    BY <2>1, AppendProperties
  <2>4. Head(b) = b[1] /\ Head(a) = a[1] /\ b[1] = a[1]
    BY <1>1, <2>1
  <2>5. /\ Len(b) = Len(a) + 1 /\ b[Len(a) + 1] = x
        /\ \A i \in 1..Len(a) : b[i] = a[i]
    BY <1>1
  <2> HIDE DEF b, u, w
  <2>6. ASSUME NEW i \in 1..Len(u) PROVE u[i] = w[i]
    <3>1. i \in Nat /\ i >= 1 /\ i <= Len(a) /\ Len(a) \in Nat
      BY <1>1, <2>2, <2>5
    <3>2. CASE i = Len(a)
      BY <3>1, <3>2, <2>1, <2>2, <2>3, <2>5
    <3>3. CASE i # Len(a)
      <4>1. i \in 1..Len(v) /\ i + 1 \in 1..Len(a)
        BY <3>1, <3>3, <2>1
      <4> QED
        BY <4>1, <2>1, <2>2, <2>3, <2>5
    <3> QED
      BY <3>2, <3>3
  <2>7. Len(u) = Len(w)
    BY <1>1, <2>1, <2>2, <2>3, <2>5
  <2>8. u = w
    BY <2>2, <2>3, <2>6, <2>7, SeqEqual
  <2> QED
    BY <2>1, <2>4, <2>8 DEF b, u, v, w
<1> QED
  BY <1>1, <1>2

\* While it writes the words of a request, what a3 will read and what the thread
\* will do then stay as they are.
LEMMA AskKeeps ==
  ASSUME Inv, AskStep, NEW a \in Seq(Tokens), a # <<>>, NEW s \in Seq(Steps),
         AfterAsk = Reads(a) \o s
  PROVE  UNCHANGED <<Coming, AfterAsk>>
<1>1. AfterAsk = Tail(script) /\ thread' = thread /\ Coming \in Seq(Tokens)
  BY ComingIs DEF AskStep, AfterAsk, WholeRequests
<1>2. CASE /\ Coming' = Coming /\ Unwritten' = Tail(Unwritten) /\ Doing("ask")'
           /\ Tail(script') = Tail(script)
  BY <1>1, <1>2 DEF AfterAsk
<1>3. CASE /\ script' = Tail(script)
           /\ requests' = Coming /\ Coming' = Coming \o Unwritten'
  <2> DEFINE t == script'
  <2>1. t = Reads(a) \o s
    BY <1>1, <1>3
  <2> HIDE DEF t
  <2>2. Head(t).do = "read"
    BY ONLY <2>1, a \in Seq(Tokens), a # <<>>, s \in Seq(Steps), NextRead, ZenonT(30)
  <2>3. ~ Doing("ask")'
    BY <2>2 DEF Doing, t
  <2>4. Unwritten' = <<>> /\ AfterAsk' = script'
    BY <2>3 DEF Unwritten, AfterAsk
  <2>5. Coming' = Coming
    BY <1>1, <1>3, <2>4, ConcatEmptySeq
  <2> QED
    BY <1>1, <1>3, <2>4, <2>5
<1> QED
  BY <1>2, <1>3, AskMoves

\* The thread may read the first part of an answer while a3 still acts.
LEMMA ReadsWhileAsked ==
  ASSUME Inv, perform = "join", thread = "test", Thread, NEW c, NEW d, d.rest \in Seq(Steps),
         Asked(c, d), "a3" \in resEnds, answers \in Seq(Tokens)
  PROVE  /\ Asked(c, d)' /\ UNCHANGED <<test, perform, thread, score, resEnds>>
         /\ answers' \in Seq(Tokens)
<1> DEFINE s == d.rest
<1>1. PICK result \in {"SUCCESS", "ERROR"} :
       \/ /\ server = "command" /\ answers = <<>> /\ Coming # <<>>
          /\ \E name \in DOMAIN Arguments \cup {"VARIANT"} :
               /\ Head(Coming) = Str(name)
               /\ Asks(c, d, name, Tail(Coming), result)
               /\ AfterAsk = Reads(Expected(name, result)) \o s
       \/ /\ server = "echo" /\ answers = <<>>
          /\ Asks(c, d, command, Coming, result)
          /\ AfterAsk = Reads(Expected(command, result)) \o s
       \/ /\ server = "arguments" /\ command # "VARIANT"
          /\ Asks(c, d, command, Coming, result)
          /\ AfterAsk = Reads(Append(answers, Str(result))) \o s
       \/ /\ server = "act" /\ Coming = <<>> /\ d.points = c.points
          /\ Effect(c, d, command, numbers, result)
          /\ AfterAsk = Reads(Append(answers, Str(result))) \o s
  BY DEF Asked
<1>2. Holds(c) /\ s \in Seq(Steps) /\ {"a3", "tester"} \subseteq resEnds
  BY DEF Asked, Inv, PipesOK
<1>3. UNCHANGED <<test, perform>>
  BY DEF Thread, mainVars
<1>4. PICK e \in Seq(Tokens) :
        /\ e # <<>> /\ AfterAsk = Reads(e) \o s
        /\ server \in {"command", "echo"} => answers = <<>>
  <2>1. CASE server \in {"command", "echo"}
    <3>1. PICK name \in DOMAIN Arguments \cup {"VARIANT"} :
            AfterAsk = Reads(Expected(name, result)) \o s
      BY <1>1, <2>1 DEF Asks
    <3>2. Expected(name, result) \in Seq(Tokens) /\ Expected(name, result) # <<>>
      BY ExpectedAre
    <3> QED
      BY <1>1, <2>1, <3>1, <3>2
  <2>2. CASE server \notin {"command", "echo"}
    <3>1. AfterAsk = Reads(Append(answers, Str(result))) \o s
      BY <1>1, <2>2
    <3>2. Str(result) \in Tokens
      BY DEF Tokens, Words, Str
    <3>3. Append(answers, Str(result)) \in Seq(Tokens) /\ Append(answers, Str(result)) # <<>>
      BY <3>2, AppendedLast
    <3> QED
      BY <2>2, <3>1, <3>3
  <2> QED
    BY <2>1, <2>2
<1>5. CASE Doing("ask")
  <2>1. AskStep
    BY <1>5 DEF Thread, MakePipe, Popen, OpenCmd, OpenRes, ReadConnect, ReadStep, RemoveStep,
       FindStep, PointsStep, SectionStep, SayExit, WaitForA3, Close, Go, Doing
  <2>2. UNCHANGED <<Coming, AfterAsk>>
    BY <1>2, <1>4, <2>1, AskKeeps
  <2>3. UNCHANGED <<thread, points, score, seen, resEnds, answers, server, command, numbers,
                    region, mapped, shmName, memory>>
    BY <2>1 DEF AskStep, serverVars, memoryVars
  <2>4. Holds(c)'
    BY <1>2, <1>3, <2>3, HoldsKept
  <2>5. ASSUME server = "command" PROVE Asked(c, d)'
    BY <1>1, <2>2, <2>3, <2>4, <2>5 DEF Asked
  <2>6. ASSUME server = "echo" PROVE Asked(c, d)'
    BY <1>1, <2>2, <2>3, <2>4, <2>6 DEF Asked
  <2>7. ASSUME server = "arguments" PROVE Asked(c, d)'
    BY <1>1, <2>2, <2>3, <2>4, <2>7 DEF Asked
  <2>8. server # "act"
    BY <1>1, <1>5, NothingComing
  <2> QED
    BY <1>1, <1>3, <2>3, <2>5, <2>6, <2>7, <2>8
<1> SUFFICES ASSUME ~ Doing("ask")
             PROVE  /\ Asked(c, d)' /\ UNCHANGED <<test, perform, thread, score, resEnds>>
                    /\ answers' \in Seq(Tokens)
  BY <1>5
<1>6. AfterAsk = script /\ Unwritten = <<>>
  BY DEF AfterAsk, Unwritten
<1>7. server \notin {"command", "echo"}
  <2> SUFFICES ASSUME server \in {"command", "echo"} PROVE FALSE
    OBVIOUS
  <2>1. answers = <<>> /\ script = Reads(e) \o s
    BY <1>4, <1>6
  <2> HIDE DEF s
  <2> QED
    BY <1>2, <1>4, <2>1, OnlyReads
<1>8. /\ server \in {"arguments", "act"}
      /\ script = Reads(Append(answers, Str(result))) \o s
  BY <1>1, <1>7, <1>6
<1>9. Str(result) \in Tokens
  BY DEF Tokens, Words, Str
<1> DEFINE x == Str(result)
           a == Append(answers, x)
<1>10. /\ a \in Seq(Tokens) /\ a # <<>>
       /\ answers # <<>> => Head(a) = Head(answers) /\ Tail(a) = Append(Tail(answers), x)
                            /\ Tail(answers) \in Seq(Tokens)
  BY <1>9, AppendedLast
<1>11. script = Reads(a) \o s
  BY <1>8
<1> HIDE DEF a, s
<1>12. /\ answers # <<>> /\ answers' = Tail(answers)
       /\ script' = Reads(Tail(a)) \o s
       /\ UNCHANGED <<test, perform, thread, points, score, seen, requests, resEnds,
                      server, command, numbers, region, mapped, reply, shmName, memory>>
  BY <1>2, <1>10, <1>11, OnlyReads
<1>13. script' = Reads(Append(answers', Str(result))) \o s
  BY <1>10, <1>12
<1>14. AfterAsk' = script' /\ Coming' = Coming
  <2> DEFINE t == script'
             b == Append(answers', Str(result))
  <2>1. b \in Seq(Tokens) /\ b # <<>> /\ t = Reads(b) \o s
    BY <1>9, <1>10, <1>12, <1>13, AppendedLast
  <2> HIDE DEF t, b
  <2>2. Head(t).do = "read"
    BY ONLY <1>2, <2>1, NextRead, ZenonT(30)
  <2>3. ~ Doing("ask")'
    BY <2>2 DEF Doing, t
  <2> QED
    BY <1>12, <1>6, <2>3 DEF AfterAsk, Coming, Unwritten
<1>15. Holds(c)'
  BY <1>2, <1>12, HoldsKept
<1>16. Asked(c, d)'
  BY <1>1, <1>8, <1>12, <1>13, <1>15, <1>14 DEF Asked, s
<1> QED
  BY <1>10, <1>12, <1>16

\* It reads the rest.
LEMMA ReadsAnswer ==
  ASSUME Inv, InStep, perform = "join", thread = "test", Thread, NEW d, d.rest \in Seq(Steps),
         Answered(d), "a3" \in resEnds, answers \in Seq(Tokens),
         server = "reply" \/ answers # <<>>
  PROVE  /\ Answered(d)' /\ UNCHANGED <<test, perform, thread, score, resEnds>>
         /\ answers' \in Seq(Tokens)
<1> DEFINE s == d.rest
           x == Str(reply)
           a == IF server = "reply" THEN Append(answers, x) ELSE answers
<1>1. x \in Tokens /\ s \in Seq(Steps)
  BY DEF InStep, Tokens, Words, Str
<1>2. /\ a \in Seq(Tokens) /\ a # <<>>
      /\ answers # <<>> =>
           /\ Head(a) = Head(answers) /\ Tail(answers) \in Seq(Tokens)
           /\ Tail(a) = IF server = "reply" THEN Append(Tail(answers), x) ELSE Tail(answers)
  <2>1. CASE server = "reply"
    BY <1>1, <2>1, AppendedLast
  <2>2. CASE server # "reply"
    BY <2>2, HeadTailProperties
  <2> QED
    BY <2>1, <2>2
<1>3. /\ script = Reads(a) \o s /\ requests = <<>> /\ Holds(d) /\ server \in {"reply", "command"}
      /\ {"a3", "tester"} \subseteq resEnds
  BY DEF Answered, Inv, PipesOK
<1> HIDE DEF a, s, x
<1>4. /\ answers # <<>> /\ answers' = Tail(answers)
      /\ script' = Reads(Tail(a)) \o s
      /\ UNCHANGED <<test, perform, thread, points, score, seen, requests, resEnds,
                     server, command, numbers, region, mapped, reply, shmName, memory>>
  BY <1>1, <1>2, <1>3, OnlyReads
<1>5. script' = IF server' = "reply" THEN Reads(Append(answers', x)) \o s ELSE Reads(answers') \o s
  BY <1>2, <1>4
<1>6. x = Str(reply')
  BY <1>4 DEF x
<1>7. Holds(d)'
  BY <1>3, <1>4, HoldsKept
<1>8. Answered(d)'
  BY <1>3, <1>4, <1>5, <1>6, <1>7 DEF Answered, s
<1> QED
  BY <1>2, <1>4, <1>8

\* Nothing is asked and nothing to be read: the thread goes on to the next point.
LEMMA GoesOn ==
  ASSUME Inv, perform = "join", Answerable(test), thread = "test", Thread,
         NEW d \in Plan(Session[test]), Answered(d), "a3" \in resEnds, answers = <<>>,
         server = "command", d.rest # <<>>, Onward(d, Plan(Session[test]))
  PROVE  /\ UNCHANGED <<test, perform, thread, score, resEnds>> /\ answers' \in Seq(Tokens)
         /\ \E e \in Plan(Session[test]) : Answered(e)' \/ Asked(d, e)'
<1> DEFINE P == Plan(Session[test])
           t == d.rest
<1>1. \A e \in P : e.rest \in Seq(Steps) /\ e.level \in Levels /\ e.points \in Nat
  BY PlanPoints
<1>2. script = t /\ Holds(d) /\ requests = <<>>
  <2>1. Reads(<<>>) \o t = t
    BY <1>1, NoRead
  <2> QED
    BY <2>1 DEF Answered
<1>3. UNCHANGED <<test, perform>>
  BY DEF Thread, mainVars
<1>4. ASSUME NEW e \in P, script' = e.rest, Holds(e)', UNCHANGED <<server, requests, answers>>
      PROVE  Answered(e)'
  <2>1. Reads(<<>>) \o e.rest = e.rest
    BY <1>1, NoRead
  <2> QED
    BY <1>2, <1>4, <2>1 DEF Answered
<1>5. Thread => \/ AskStep \/ ReadStep \/ RemoveStep \/ FindStep \/ PointsStep \/ SectionStep
  BY <1>2 DEF Thread, MakePipe, Popen, OpenCmd, OpenRes, ReadConnect, SayExit, WaitForA3, Close, Go
<1> USE DEF Doing
<1>6. ASSUME Head(t).do = "remove", NEW e \in P, e.rest = Tail(t),
             e.points = d.points, e.level = 1, e.content = Zero
      PROVE  /\ UNCHANGED <<thread, score, resEnds, answers>> /\ Answered(e)'
  <2>1. RemoveStep
    BY <1>2, <1>5, <1>6 DEF AskStep, ReadStep, FindStep, PointsStep, SectionStep
  <2>2. /\ UNCHANGED <<thread, resEnds, answers, server, requests, score, points>>
        /\ shmName' = None /\ script' = e.rest
    BY <1>2, <1>6, <2>1 DEF RemoveStep, Proceed, pipeVars, serverVars
  <2>3. Holds(e)'
    BY <1>2, <1>6, <2>2 DEF Holds
  <2> QED
    BY <1>4, <2>2, <2>3
<1>7. ASSUME Head(t).do = "find", d.level = 2, NEW e \in P, e.rest = Tail(t),
             e.points = d.points, e.level = 3, e.content = Zero
      PROVE  /\ UNCHANGED <<thread, score, resEnds, answers>> /\ Answered(e)'
  <2>1. FindStep
    BY <1>2, <1>5, <1>7 DEF AskStep, ReadStep, RemoveStep, PointsStep, SectionStep
  <2>2. shmName = test /\ region = test /\ test # None /\ points = d.points
    BY <1>2, <1>7, ConstantsAre DEF Holds, None, Inv, TypeOK
  <2>3. /\ UNCHANGED <<thread, resEnds, answers, server, requests, score, points, shmName, region>>
        /\ seen' = shmName /\ script' = e.rest
    BY <1>2, <1>7, <2>1, <2>2 DEF FindStep, Proceed, ProceedIf, pipeVars, serverVars, memoryVars
  <2>4. Holds(e)'
    BY <1>3, <1>7, <2>2, <2>3 DEF Holds
  <2> QED
    BY <1>4, <2>3, <2>4
<1>8. ASSUME Head(t).do = "points" \/ Head(t).do = "compare", NEW e \in P, e.rest = Tail(t),
             e.points = d.points + Head(t).n, e.level = d.level, e.content \in {Zero, d.content},
             Head(t).do = "compare" =>
               Head(t).content = d.content /\ d.content # Zero /\ d.level \in 3..4
      PROVE  /\ UNCHANGED <<thread, score, resEnds, answers>> /\ Answered(e)'
  <2>1. PointsStep
    BY <1>2, <1>5, <1>8 DEF AskStep, ReadStep, RemoveStep, FindStep, SectionStep
  <2>2. Head(t).do = "compare" => memory[seen] = Head(t).content
    BY <1>2, <1>8 DEF Holds
  <2>3. /\ UNCHANGED <<thread, score, resEnds, answers, server, requests, seen, shmName, region,
                       mapped, memory>>
        /\ points' = points + Head(t).n /\ script' = e.rest
    BY <1>2, <1>8, <2>1, <2>2 DEF PointsStep, Proceed, pipeVars, serverVars, memoryVars
  <2>4. Holds(e)'
    BY <1>2, <1>3, <1>8, <2>3 DEF Holds
  <2> QED
    BY <1>4, <2>3, <2>4
<1>9. ASSUME Head(t).do = "ask", NEW e \in P, NEW name \in DOMAIN Arguments \cup {"VARIANT"},
             NEW args \in Seq(Tokens), NEW result \in {"SUCCESS", "ERROR"},
             Head(t).words = <<Str(name)>> \o args,
             Tail(t) = Reads(Expected(name, result)) \o e.rest,
             Asks(d, e, name, args, result)
      PROVE  /\ UNCHANGED <<thread, score, resEnds>> /\ answers' \in Seq(Tokens)
             /\ Asked(d, e)'
  <2> DEFINE w == <<Str(name)>> \o args
  <2>1. Str(name) \in Tokens
    BY ExpectedAre DEF Tokens, Str
  <2>2. w \in Seq(Tokens) /\ w # <<>> /\ Head(w) = Str(name) /\ Tail(w) = args
    BY <2>1, FirstStep
  <2>3. Doing("ask") /\ Unwritten = w /\ AfterAsk = Tail(t)
    BY <1>2, <1>9 DEF Unwritten, AfterAsk
  <2> HIDE DEF w
  <2>4. Coming = w
    BY <1>2, <2>2, <2>3, ConcatEmptySeq DEF Coming
  <2>5. Asked(d, e)
    BY <1>2, <1>9, <2>2, <2>3, <2>4 DEF Asked
  <2>6. e.rest \in Seq(Steps) /\ answers \in Seq(Tokens)
    BY <1>1
  <2> QED
    BY <2>5, <2>6, ReadsWhileAsked
<1>10. ASSUME Head(t).do = "section",
              \A p \in Parts : \E e \in P :
                /\ e.rest = PartScript(p) \o Tail(t)
                /\ e.points = d.points /\ e.level = d.level /\ e.content = Zero
       PROVE  /\ UNCHANGED <<thread, score, resEnds, answers>> /\ \E e \in P : Answered(e)'
  <2>1. SectionStep
    BY <1>2, <1>5, <1>10 DEF AskStep, ReadStep, RemoveStep, FindStep, PointsStep
  <2>2. PICK p \in Parts : script' = PartScript(p) \o Tail(t)
    BY <1>2, <2>1 DEF SectionStep
  <2>3. PICK e \in P : /\ e.rest = PartScript(p) \o Tail(t)
                       /\ e.points = d.points /\ e.level = d.level /\ e.content = Zero
    BY <1>10
  <2>4. UNCHANGED <<thread, resEnds, answers, server, requests, score, points, seen, shmName,
                    region, mapped, memory>>
    BY <2>1 DEF SectionStep, pipeVars, serverVars, memoryVars
  <2>5. Holds(e)'
    BY <1>2, <1>3, <2>3, <2>4 DEF Holds
  <2> QED
    BY <1>4, <2>2, <2>3, <2>4, <2>5
<1> HIDE DEF P, t
<1>11. \E e \in P : Answered(e)' \/ Asked(d, e)'
  <2> QED
    BY <1>6, <1>7, <1>8, <1>9, <1>10 DEF Onward, P, t
<1>12. UNCHANGED <<thread, score, resEnds>> /\ answers' \in Seq(Tokens)
  <2>1. answers \in Seq(Tokens)
    OBVIOUS
  <2> QED
    BY <1>6, <1>7, <1>8, <1>9, <1>10, <2>1 DEF Onward, P, t
<1> QED
  BY <1>3, <1>11, <1>12 DEF P

\* After CONNECT the script is at its first point.
LEMMA ConnectServed ==
  ASSUME Inv, InStep, perform = "join", Answerable(test), Served,
         Thread, ReadConnect
  PROVE  Served'
<1> USE DEF Inv, TypeOK, PipesOK
<1>1. thread = "connect" /\ UNCHANGED <<test, perform, points, requests>> /\ points = 0
                        /\ score = 0
  BY DEF Thread, mainVars, ReadConnect, Served, MainOK
<1>2. /\ "a3" \in resEnds /\ requests = <<>> /\ server # "mkfifo"
      /\ answers = IF server = "command" THEN <<Str("CONNECT")>> ELSE <<>>
  BY <1>1 DEF InStep, Met
<1>3. PICK token :
        /\ Read(token)
        /\ IF token = Str("CONNECT")
           THEN /\ thread' = "test" /\ script' = Script(Session[test])
                /\ score' = score + 1
           ELSE thread' = "close"
  BY DEF ReadConnect
<1>4. server = "command" /\ answers = <<Str("CONNECT")>> /\ token = Head(answers)
      /\ answers' = Tail(answers)
  <2>1. "tester" \in resEnds
    BY <1>1
  <2> HIDE DEF Inv, TypeOK, PipesOK
  <2>2. answers # <<>> /\ token = Head(answers) /\ answers' = Tail(answers)
    BY <1>2, <1>3, <2>1 DEF Read
  <2> QED
    BY <1>2, <2>2
<1>5. token = Str("CONNECT") /\ answers' = <<>>
  BY <1>4
<1>6. /\ thread' = "test" /\ script' = Script(Session[test]) /\ server' = "command"
      /\ "a3" \in resEnds' /\ score' = 1
  <2>1. server' = server /\ resEnds' = resEnds
    BY DEF ReadConnect, serverVars
  <2> QED
    BY <1>1, <1>2, <1>3, <1>4, <1>5, <2>1
<1> DEFINE P == Plan(Session[test])
<1>7. \E d \in P : d.rest = Script(Session[test]) /\ d.points = 0 /\ d.level = 0 /\ d.content = Zero
  <2>1. test \in 1..Len(Session) /\ Session[test] \in Tests \ {"read_logical"}
    BY ConstantsAre, SMTT(30) DEF MainOK, Answerable
  <2> QED
    BY <2>1, Plans DEF GoodPlan
<1>8. PICK d \in P : d.rest = Script(Session[test]) /\ d.points = 0 /\ d.level = 0 /\ d.content = Zero
  BY <1>7
<1>9. d.rest \in Seq(Steps)
  BY PlanPoints
<1>10. Reads(<<>>) \o d.rest = d.rest
  BY <1>9, NoRead
<1>11. Holds(d)'
  BY <1>1, <1>8 DEF Holds
<1>12. Answered(d)'
  BY <1>1, <1>2, <1>5, <1>6, <1>8, <1>10, <1>11 DEF Answered
<1>13. <<>> \in Seq(Tokens)
  OBVIOUS
<1> QED
  BY <1>1, <1>5, <1>6, <1>12, <1>13 DEF Served

\* A step of the thread keeps the two in step.
LEMMA ThreadServes ==
  ASSUME Inv, InStep, perform = "join", Answerable(test), Thread
  PROVE  Served'
<1>1. UNCHANGED <<test, perform>>
  BY DEF Thread, mainVars
<1>2. Served
  BY DEF InStep
<1>3. CASE MakePipe \/ Popen \/ OpenCmd \/ OpenRes
  <2>1. thread \in Greeting /\ thread' \in Greeting /\ points' = points
    BY <1>3 DEF MakePipe, Popen, OpenCmd, OpenRes, Go, Quiet
  <2> QED
    BY <1>1, <1>2, <2>1 DEF Served
<1>4. CASE ReadConnect
  BY <1>2, <1>4, ConnectServed
<1>5. CASE WaitForA3 \/ Close
  <2>1. thread \in {"wait", "close"} /\ thread' \in {"close", "done"} /\ score' = score
    BY <1>5 DEF WaitForA3, Close, Go, Quiet
  <2> QED
    BY <1>1, <1>2, <2>1 DEF Served
<1>6. CASE thread = "test"
  <2> DEFINE P == Plan(Session[test])
  <2>1. PICK d \in P : Answered(d) \/ \E c \in P : Asked(c, d)
    BY <1>2, <1>6 DEF Served
  <2>2. "a3" \in resEnds /\ answers \in Seq(Tokens)
    BY <1>2, <1>6 DEF Served
  <2>3. /\ d.rest \in Seq(Steps)
        /\ \/ d.rest = <<>> /\ d.points = MaxScore(Session[test])
           \/ d.rest # <<>> /\ Onward(d, P)
    BY PlanPoints
  <2> HIDE DEF P
  <2>4. CASE \E c \in P : Asked(c, d)
    <3>1. PICK c \in P : Asked(c, d)
      BY <2>4
    <3>2. /\ Asked(c, d)' /\ UNCHANGED <<test, perform, thread, score, resEnds>>
          /\ answers' \in Seq(Tokens)
      BY <1>6, <2>2, <2>3, <3>1, ReadsWhileAsked
    <3>3. thread' = "test" /\ score' = 1 /\ "a3" \in resEnds' /\ \E e \in P : Asked(c, e)'
      BY <1>2, <1>6, <2>2, <3>2 DEF Served
    <3> QED
      BY <1>1, <3>2, <3>3 DEF Served, P
  <2>5. CASE Answered(d) /\ (server = "reply" \/ answers # <<>>)
    <3>1. /\ Answered(d)' /\ UNCHANGED <<test, perform, thread, score, resEnds>>
          /\ answers' \in Seq(Tokens)
      BY <1>6, <2>2, <2>3, <2>5, ReadsAnswer
    <3> QED
      BY <1>1, <1>2, <1>6, <2>2, <3>1 DEF Served, P
  <2>6. CASE Answered(d) /\ server = "command" /\ answers = <<>> /\ d.rest # <<>>
    <3>1. /\ UNCHANGED <<test, perform, thread, score, resEnds>> /\ answers' \in Seq(Tokens)
          /\ \E e \in P : Answered(e)' \/ Asked(d, e)'
      BY <1>6, <2>2, <2>3, <2>6, GoesOn DEF P
    <3> QED
      BY <1>1, <1>2, <1>6, <2>2, <3>1 DEF Served, P
  <2>7. CASE Answered(d) /\ server = "command" /\ answers = <<>> /\ d.rest = <<>>
    <3>1. Reads(<<>>) \o d.rest = d.rest
      BY <2>3, NoRead
    <3>2. /\ script = <<>> /\ requests = <<>> /\ points = MaxScore(Session[test]) /\ score = 1
      BY <1>2, <1>6, <2>3, <2>7, <3>1 DEF Answered, Holds, Served
    <3>3. SayExit
      BY <1>6, <3>2 DEF Thread, MakePipe, Popen, OpenCmd, OpenRes, ReadConnect, AskStep, ReadStep,
         RemoveStep, FindStep, PointsStep, SectionStep, WaitForA3, Close, Go, Doing
    <3>4. Append(<<>>, Str("EXIT")) = <<Str("EXIT")>>
      OBVIOUS
    <3>5. /\ thread' = "wait" /\ requests' = <<Str("EXIT")>> /\ server' = "command"
          /\ score' = MaxScore(Session[test])
      BY <2>7, <3>2, <3>3, <3>4 DEF SayExit, serverVars, MaxScore
    <3> QED
      BY <1>1, <3>2, <3>5 DEF Served
  <2> QED
    BY <2>1, <2>4, <2>5, <2>6, <2>7 DEF Answered
<1> QED
  <2>1. thread # "exit"
    BY <1>2 DEF Served
  <2> QED
    BY <1>3, <1>4, <1>5, <1>6, <2>1 DEF Thread, AskStep, ReadStep, RemoveStep, FindStep,
       PointsStep, SectionStep, SayExit, Doing
-----------------------------------------------------------------------------
(* All points *)

\* A new test begins.
LEMMA MainInStep ==
  ASSUME Inv, InStep, Main, perform' = "join"
  PROVE  Met' /\ (Answerable(test)' => Served')
<1>1. Start
  BY DEF Main, Join, Expire, StartBeside, EndBeside, StraysGone, Leave
<1>2. thread' = "start" /\ points' = 0
  BY <1>1 DEF Start
<1> QED
  BY <1>2 DEF Met, Served

\* InStep is inductive, with Inv.
LEMMA InStepHolds ==
  ASSUME Inv, InStep, [Next]_vars PROVE InStep'
<1>1. CASE UNCHANGED vars
  <2> USE <1>1 DEF vars, mainVars, threadVars, pipeVars, memoryVars, serverVars
  <2>1. \A d : Holds(d) => Holds(d)'
    BY DEF Holds
  <2>2. \A d : Answered(d) => Answered(d)'
    BY <2>1 DEF Answered
  <2>3. ASSUME NEW c, NEW d, Asked(c, d) PROVE Asked(c, d)'
    <3>1. Holds(c)'
      BY <2>1, <2>3 DEF Asked
    <3>2. Coming' = Coming /\ AfterAsk' = AfterAsk
      BY DEF Coming, Unwritten, AfterAsk, Doing
    <3>3. CASE server = "command"
      BY <2>3, <3>1, <3>2, <3>3 DEF Asked
    <3>4. CASE server # "command"
      BY <2>3, <3>1, <3>2, <3>4 DEF Asked
    <3> QED
      BY <3>3, <3>4
  <2>4. Served => Served'
    BY <2>2, <2>3 DEF Served
  <2>5. Answerable(test)' => Answerable(test)
    BY DEF Answerable
  <2> QED
    BY <2>4, <2>5 DEF InStep, Met
<1>2. CASE Next
  <2>1. reply' \in {"SUCCESS", "ERROR"}
    BY <1>2, ReplyKept
  <2>2. "a3" \in resEnds'
          => server' \notin {"gone", "mkfifo", "openCmd", "cmdOpening", "openRes"}
    BY <1>2, AnswersOpen
  <2>3. ASSUME perform' = "join"
        PROVE  Met' /\ (Answerable(test)' => Served')
    <3>1. CASE Main
      BY <2>3, <3>1, MainInStep
    <3>2. CASE Server
      <4>1. perform = "join" /\ test' = test
        BY <2>3, <3>2 DEF Server, mainVars
      <4>2. Answerable(test)' => Answerable(test)
        BY <4>1 DEF Answerable
      <4> QED
        BY <3>2, <4>1, <4>2, ServerMeets, ServerServes
    <3>3. CASE Thread
      <4>1. perform = "join" /\ test' = test
        BY <2>3, <3>3 DEF Thread, mainVars
      <4>2. Answerable(test)' => Answerable(test)
        BY <4>1 DEF Answerable
      <4> QED
        BY <3>3, <4>1, <4>2, ThreadMeets, ThreadServes
    <3> QED
      BY <1>2, <3>1, <3>2, <3>3 DEF Next
  <2> QED
    BY <2>1, <2>2, <2>3 DEF InStep
<1> QED
  BY <1>1, <1>2

\* In a test that a3 can answer, the two programs never wait for each other.
LEMMA SomebodyGoesOn ==
  ASSUME Inv, InStep, perform = "join", Answerable(test), TesterWaits
  PROVE  ~ A3Waits
<1> USE DEF Inv, TypeOK, PipesOK
<1>1. Met /\ Served
  BY DEF InStep
<1> USE DEF EndOfFile
<1>2. CASE thread \in {"cmdOpening", "resOpening"}
  BY <1>1, <1>2 DEF TesterWaits, A3Waits, Met, Doing
<1>3. CASE thread = "connect"
  BY <1>1, <1>3 DEF TesterWaits, A3Waits, Met, Doing
<1>4. CASE thread = "wait"
  <2>1. server = "exit" \/ (server = "command" /\ requests = <<Str("EXIT")>>)
    BY <1>1, <1>4 DEF TesterWaits, Served, Doing
  <2>2. requests = <<Str("EXIT")>> => 1 \in DOMAIN requests /\ requests[1][1] = "s"
    BY DEF Str
  <2> QED
    BY <2>1, <2>2 DEF A3Waits
<1>5. CASE thread = "test"
  <2> DEFINE P == Plan(Session[test])
  <2>1. Doing("read") /\ answers = <<>>
    BY <1>5 DEF TesterWaits
  <2>2. requests \o <<>> = requests
    BY ConcatEmptySeq
  <2>3. Coming = requests
    BY <2>1, <2>2 DEF Coming, Unwritten, Doing
  <2>4. PICK d \in P : Answered(d) \/ \E c \in P : Asked(c, d)
    BY <1>1, <1>5 DEF Served
  <2>5. /\ d.rest \in Seq(Steps)
        /\ d.rest = <<>> \/ Onward(d, P)
    BY PlanPoints
  <2> HIDE DEF P
  <2>6. CASE Answered(d) /\ server = "command"
    <3>1. Reads(<<>>) \o d.rest = d.rest
      BY <2>5, NoRead
    <3>2. script = d.rest
      BY <2>1, <2>6, <3>1 DEF Answered
    <3> QED
      BY <2>1, <2>5, <3>2 DEF Onward, Doing
  <2>7. CASE Answered(d) /\ server = "reply"
    BY <2>7 DEF A3Waits
  <2>8. ASSUME NEW c \in P, Asked(c, d) PROVE ~ A3Waits
    <3>1. CASE server = "command"
      <4>1. requests # <<>> /\ \E name \in DOMAIN Arguments \cup {"VARIANT"} : Head(requests) = Str(name)
        BY <2>8, <2>3, <3>1 DEF Asked
      <4>2. 1 \in DOMAIN requests /\ requests[1] = Head(requests)
        BY <4>1, FirstToken
      <4>3. requests[1][1] = "s"
        BY <4>1, <4>2 DEF Str
      <4> QED
        BY <3>1, <4>2, <4>3 DEF A3Waits
    <3>2. CASE server = "arguments"
      <4>1. Len(requests) = Arguments[command] /\ command \in DOMAIN Arguments
        BY <2>8, <2>3, <3>2 DEF Asked, Asks
      <4>2. Arguments[command] \in Nat
        BY <4>1, ArgumentsAre
      <4> QED
        BY <3>2, <4>1, <4>2 DEF A3Waits
    <3>3. CASE server \in {"echo", "act"}
      BY <3>3 DEF A3Waits
    <3> QED
      BY <2>8, <3>1, <3>2, <3>3 DEF Asked
  <2> QED
    BY <2>4, <2>6, <2>7, <2>8 DEF Answered
<1> QED
  BY <1>2, <1>3, <1>4, <1>5 DEF TesterWaits, Doing

\* Scores are added at the end of a test or at its time limit.
LEMMA ScoresStay ==
  ASSUME Inv, InStep, FullScores, [Next]_vars PROVE FullScores'
<1> USE DEF Inv, TypeOK
<1>1. CASE UNCHANGED <<scores, ended>>
  BY <1>1 DEF FullScores
<1>2. ASSUME perform \in {"join", "beside"}, NEW n \in Nat,
             NEW e \in {"whole", "stuck", "cut", "beside"},
             scores' = Append(scores, n), ended' = Append(ended, e),
             e \in {"whole", "stuck"} /\ Answerable(test) => n = MaxScore(Session[test])
      PROVE  FullScores'
  <2>1. /\ Len(scores) = test - 1 /\ Len(ended) = test - 1 /\ test \in 1..Len(Session)
        /\ scores \in Seq(Nat) /\ ended \in Seq({"whole", "stuck", "cut", "beside"})
    BY <1>2, ConstantsAre DEF MainOK
  <2>2. /\ DOMAIN scores = 1..test - 1 /\ DOMAIN scores' = 1..test
        /\ scores'[test] = n /\ \A i \in 1..test - 1 : scores'[i] = scores[i]
    BY <1>2, <2>1, AppendProperties
  <2>3. ended'[test] = e /\ \A i \in 1..test - 1 : ended'[i] = ended[i]
    BY <1>2, <2>1, AppendProperties
  <2>4. ASSUME NEW i \in 1..test - 1, ended'[i] \in {"whole", "stuck"}, Answerable(i)
        PROVE  scores'[i] = MaxScore(Session[i])
    BY <2>2, <2>3, <2>4 DEF FullScores
  <2>5. \A i \in 1..test : i = test \/ i \in 1..test - 1
    BY <2>1
  <2> QED
    BY <1>2, <2>2, <2>3, <2>4, <2>5 DEF FullScores
<1>3. CASE Join
  <2>1. perform = "join" /\ thread = "done"
    BY <1>3 DEF Join
  <2>2. Answerable(test) => score = MaxScore(Session[test])
    BY <2>1 DEF InStep, Served
  <2>3. scores' = Append(scores, score) /\ ended' = Append(ended, "whole")
    BY <1>3 DEF Join
  <2> QED
    BY <1>2, <2>1, <2>2, <2>3
<1>4. CASE Expire
  <2>1. /\ perform = "join" /\ scores' = Append(scores, 0)
        /\ ended' = Append(ended, IF Stuck THEN "stuck" ELSE "cut")
    BY <1>4 DEF Expire
  <2>2. Answerable(test) => ~ Stuck
    BY <2>1, SomebodyGoesOn DEF Stuck
  <2> QED
    BY <1>2, <2>1, <2>2
<1>5. CASE EndBeside
  BY <1>2, <1>5 DEF EndBeside
<1>6. CASE ~ (Join \/ Expire \/ EndBeside)
  BY <1>1, <1>6 DEF Next, Main, Start, StartBeside, StraysGone, Leave, Thread, Server, mainVars,
     vars
<1> QED
  BY <1>3, <1>4, <1>5, <1>6

\* Every test that a3 can answer, that begins alone and is not cut off by the time limit,
\* gets all its points: what one side writes is what the other one reads, and the two
\* programs never wait for each other.
THEOREM FullScoresHolds == Spec => []FullScores
<1>1. Init => InStep /\ FullScores
  BY DEF Init, InStep, FullScores
<1>2. Inv /\ InStep /\ FullScores /\ [Next]_vars => InStep' /\ FullScores'
  BY InStepHolds, ScoresStay
<1> QED
  BY <1>1, <1>2, ServerInvariance, PTL DEF Spec
==============================================================================
