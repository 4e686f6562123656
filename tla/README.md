# A TLA+ development for the three OS assignments

The repository holds three C programs, each with the Python script that tests it:

| | program | what it does |
|---|---|---|
| A1 | `Assignment 1 - Files and Directories/a1.c` | lists directories, parses and searches files of the format "SF" |
| A2 | `Assignment 2 - Threads and Processes/a2.c`, `a2_helper.c` | a tree of eight processes with threads that must begin and end in prescribed orders |
| A3 | `Assignment 3 - Pipes and Shared Memory/a3.c` | a server that obeys commands read from a FIFO, with a shared memory region and a mapped file |

This directory holds models of the programs and of their testers, the configurations TLC checks them with, and proofs
for TLAPS. All paths below are relative to the assignment's directory. `PROJECT.json` has the lines every definition
stands for, the hazards of the code with the properties about them, and for every property a plausible slip in the
code that breaks it.

## 1. Inventory

### A2: processes and threads

`main()` calls `init()` and `process_1()`. P1 forks P2 and P5, P2 forks P3, P3 forks P4 and P6, P4 forks P7, P6 forks P8.
Each process and thread sends a BEGIN and an END message through `info()` to a server inside `tester.py`, which numbers the
messages in the order of their arrival. After the program has ended, the tester reads off these numbers whether
the orders were respected.

| component | state | operations | must hold |
|---|---|---|---|
| P4 thread barrier (a2.c 303-448) | two mutexes, three condition variables, counters of threads past the entrance / past `info(BEGIN)`, permits to terminate; all on the stack of `process_4()` | enter, count, leave (34 generic threads and T4.11), create, join | never more than 6 threads between BEGIN and END; T4.11 ends while exactly 6 are; all 35 end |
| P6/P7 shared memory (32-130, 180-295) | a named shared memory object: mutex, two condition variables, two flags; it outlives the processes | open or create, size, initialise, wait for a flag, set a flag, unlink | T6.5 ends before T7.1 begins, which ends before T6.3 begins; both processes end; nothing is left behind |
| P7 local synchronisation (91-105, 132-178) | mutex, two condition variables, two flags on the stack of `process_7()` | start, wait for start, end, wait for end | T7.2 begins and ends between BEGIN and END of T7.5 |
| process tree (450-513) | the processes, who waits for whom | fork, waitpid, BEGIN, END | a parent begins before and ends after its children |
| `info()` helper (a2_helper.c) | per process: the connection, keys of the last message; a named semaphore; fork handlers | init, info, fork | one message at a time; `info()` returns when the message is recorded; the semaphore comes back |
| tester (tester.py) | messages with their numbers, errors, delays; a child process and a time limit | accept and record, check, reset, kill | what it reports is what happened |

The components interact by `info()`, by fork and waitpid, and, P6 with P7, by shared memory. The hard behaviours
are: the observer sees messages and not counters, so that counters and messages drift apart while threads run; condition
variables with several kinds of sleepers, signals that wake one of them, spurious wake-ups; initialisation by whoever comes
first; objects and processes that survive a run the tester has killed; one server that is reset while it may be
talking to a process of an earlier run.

### A3: pipes and shared memory

| component | state | operations | must hold |
|---|---|---|---|
| pipe connection (a3.c 157-186) | two FIFOs in the file system, two descriptors | mkfifo, open both, "CONNECT", unlink | tester and server meet; nothing is left behind |
| command server (270-379) | the command buffer, the position in the request pipe | one iteration per command | one answer per command; requests and answers stay in step; EXIT ends it |
| shared memory and mapped file (188-268, inside the loop) | region, its size, the mapped file, its size | create, write, map, read from offset, read from section, clean-up | no access outside region or file; everything is released at EXIT |
| tester | the pipes, the memory it maps itself, time limit, score | eight scripts of requests and expected answers | a right program gets its points |

Hard: both sides block in `open()` and `read()`; an end of file or a command the server does not handle in the
middle of a sequence of numbers; sums modulo 2^32; what a session that was cut off has left.

### A1: files and directories

| component | state | operations | must hold |
|---|---|---|---|
| arguments and dispatch (a1.c 92-102, 505-632) | none | the five options | the right error for a wrong call |
| listing (167-182, 464-503) | the directories still open | list, recursively, filtered | every matching entry, and no other |
| SF header (197-282) | the header | read, validate | only files of the format are accepted |
| line extraction (294-364) | position in the section, which is scanned backwards in chunks; a buffer that grows | extract | the right line, inside the section and the buffer |
| search (375-435) | line counts, chunk by chunk | findall | files with enough sections of exactly that many lines |
| tester | `test_root`, `tests.json`, a child process and a time limit | build files, make tests, save, load, run, judge | a right program gets its points, also after an interruption |

Hard: the borders of the chunks, the growth of the buffer, narrow integers, a session that ends between two steps.

## 2. Modules

| module | what it is |
|---|---|
| `ThreadBarrier` | abstract specification: what P4 promises to the observer of its messages |
| `Process4` | P4 in detail, and the refinement mapping to `ThreadBarrier` |
| `Process6Process7` | P6, P7, their shared object, killed runs and restarts |
| `MessageLog` | the abstract server: `addInfo()` numbers messages or refuses them |
| `Checks` | the four checks of the tester, functions of what the server has recorded |
| `CheckedLog` | clients that send messages in any order to `MessageLog`; what the points of `Checks` mean |
| `ProcessTree` | fork, waitpid, death of the processes; speaks to `MessageLog`, judged by `Checks` |
| `Process7` | the threads of P7; speaks to `MessageLog`, judged by `Checks` |
| `InfoServer` | `info()`, the semaphore, the fork handlers, the server's thread and the tester's test runs: what the other modules take for one step of `MessageLog` |
| `CommandServer` | a3 and the A3 tester, with the two pipes and the memory between them |
| `SectionFile` | SF files: how the A1 tester makes and reads them, how a1 validates them |
| `FileTester` | a1 and the A1 tester, with interruptions |
| `Process4Proofs`, `Process6Process7Proofs`, `CheckedLogProofs` (and `MessageLog`), `ProcessTreeProofs`, `Process7Proofs`, `InfoServerProofs`, `CommandServerProofs`, `FileTesterProofs` | theorems (section 6) |
| `MC...` | the above for TLC; the values of the constants are in the `.cfg` files |

### Process4 and the code

A thread's program counter stands for the lines it is about to execute; the shared variables have the names of the fields of
`struct process_4_synchronization`. One action is one of: taking a mutex; the rest of the critical section; a call of `info()`.
A critical section is one step because no other thread can look at what its mutex protects, and no section touches what the
other mutex protects. T4.11's last section is the exception, it calls `info()` with the mutex held, and is three steps
(`QuorumCheck`, `QuorumInfoEnd`, `QuorumRelease`).

| action | lines of a2.c |
|---|---|
| `CreateThread`, `JoinThread`, `MainEnd` | 427-447 |
| `EnterLock`, `EnterCheck` | 337-342, and 379-384 for T4.11 |
| `InfoBegin`, `CountLock`, `Count` | 344-350, 388-392 |
| `ExitLock`, `ExitCheck`, `InfoEnd` | 357-365 |
| `QuorumLock`, `QuorumCheck`, `QuorumInfoEnd`, `QuorumRelease` | 397-405 |
| `LeaveLock`, `Leave` | 367-370, 407-410 |
| `SpuriousWake` | 339, 359, 381, 399 |

A condition variable is the set of the threads that wait on it. `pthread_cond_signal` wakes any one of them, or none
if there is none; that it may wake more than one is covered by `SpuriousWake`. A woken thread has to get the mutex again and
re-evaluates its condition. The numbers 35, 11, 6 are the constants `N`, `Waiter`, `MAX_THREAD_COUNT`; the code writes
`MAX_THREAD_COUNT - 1` as 5, `MAX_THREAD_COUNT` in line 398 as 6 and `N - MAX_THREAD_COUNT` as `35 - 6`. P7, which P4 also
forks and waits for, is part of `ProcessTree`; it does not touch P4's state.

In `ThreadBarrier` a thread is "idle", "running" (between BEGIN and END) or "ended". `Begin` and `EndWaiter` are the two things
`checkThreads2` of tester.py looks for. `End` says in addition when another thread may end: when the waiter has, or when
enough others are left to fill the house for it. That is what makes the promise keepable (`HouseCanFill`).

### Process6Process7 and the code

The object is identified by a number, `name` is the number the well-known name stands for. `sized`, `guard` and `exited` are the
contents of the objects: whether `ftruncate` was called, who has the mutex, which flags are set.

| action | lines of a2.c |
|---|---|
| `Open` | 57-62 |
| `Size` (creator), `Reopen` (the other) | 63-77 |
| `InitialiseGuard`, `ResetFlags` | 40-53, 79-81 |
| `CreateThreads` | 192-210, 271-285 |
| `Lock`, `Check` | 112-116, 226-230 |
| `InfoBegin`, `InfoEnd` | 118, 123, 232, 236, 244, 249 |
| `Lock`, `Notify` | 124-127, 250-253 |
| `Cleanup` | 86-89, and the END message of the main thread |
| `NextTest` | tester.py 399-417: the program is started again after it has ended or was killed |
| `Crash` | an access to the object through a failed mapping, or before the object has its size |

Simplifications: the mapping is made in the step that opens (`Size`, `Reopen`); the loop of `pthread_create` is one step, as the
started threads may take theirs later anyway; the two condition variables are the two kinds of sleepers in `pc`. Initialising
a mutex that somebody holds, or a condition variable on which somebody sleeps, is undefined in POSIX: the model frees the mutex,
and leaves the sleeper out of the reach of later signals, as glibc does. A kill takes both processes at once, and they
are dead before the next run begins; the mutex of a dead owner stays locked (it is not a robust mutex).

### The server, the checks, the tree and P7

`MessageLog` is `addInfo()` without connections (tester.py 72-100): `AddBegin` and `AddEnd` accept a message, give it the next
number, or refuse it and count an error. `Checks` has one operator per check and returns its points; `TestScore` is
`perform()`. `CheckedLog` lets every client send its messages at any time, and keeps the order in which they arrived in a history
variable of its own. Its properties compare the points, computed from numbers as in the code, with that order.

In `ProcessTree` a process is at the place of `process_N()` it is about to execute: `Begin` (486), `Fork` (489-500, one child at a
time; the fork may fail, and then nothing looks at it), `Arm` (the child, before it is what P1 forked: a2_helper.c 143-148),
`CreateThreads`, `ThreadBegin`, `ThreadEnd`, `JoinThreads`, `WaitFor` or `WaitForAny` where the pid is that of a failed fork
(501-503), `End`. `Kill` is the tester's at the time limit, `Die` and `Hangup` what the kernel does to those who are
armed with PR_SET_PDEATHSIG.

`info()` is one step there, but for the one thing about its semaphore that the other processes notice for ever: a process that is killed between
`sem_wait` and `sem_post`, in `info()` or in a fork (a2_helper.c 101-122, 130-139), takes the semaphore along (`jammed`, `MayHold`). From then on
nobody sends a message or forks. Most processes are armed and die one after the other; a child that has not come to
`prctl()` (line 145) when its parent dies stays in `sem_wait` for ever (`LeftBehind`). `EverybodyGoes` says that these are the only ones that stay.

`Process7` has the lines of `process_7()` (180-222) and of its threads (132-178): `MainBegin`, `CreateThread`, `JoinThread`, `MainEnd`;
`Lock`, `Test`, `Wait`, `SpuriousWake`, `Unlock`, `InfoBegin`, `InfoEnd`, `Notify`. The look at a flag and the sleep are two steps,
so that a signal between them would be seen to be lost. T7.1's wait for T6.5 is in `Process6Process7`; here it only speaks.

### InfoServer and the code

| actions | code |
|---|---|
| `Unlink`, `Create` | a2_helper.c 158-163: P1 removes the semaphore of an earlier run and makes its own |
| `Call`, `Open`, `SemWait`, `Connect`, `Write`, `Read`, `Post` | `info()`, 74-123: every system call that may block or that others can notice is a step |
| `AtforkPrepare`, `Fork`, `AtforkParent`, `AtforkChild` | 125-148, around a2.c 489-500 |
| `WaitForKids`, `Leave` | a2.c 501-513 |
| `Accept`, `Receive`, `Look`, `Record`, `Delay`, `Fetch`, `Answer`, `Stop`, `StopConnect` | tester.py 72-131, the server's thread |
| `ResetTime`, `ResetInfos`, `ResetErrors`, `ResetDelays`, `SetDelays`, `Popen`, `WaitForP1` | tester.py 66-70, 399-406: `run()`, in a thread of its own; the four assignments of `reset()` are four steps, since the server's thread is not stopped |
| `Start`, `Join`, `Expire`, `Kill`, `Rejoin`, `Judge` | `perform()` and `main()`, 408-441, 543-562 |

A process that is killed dies wherever it is, with the semaphore as it is; the server's thread can die of a KeyError (`Perish`). Named semaphores are a sequence of
values: a process keeps the one it has opened, while the name may already stand for another one. A test begins *quietly* if no
process of an earlier one is alive and the server is at `accept()`. The properties about verdicts distinguish tests
that do (all points are given) from others (no points are given for somebody else's messages).

### CommandServer and the code

| actions | code |
|---|---|
| `SetupPipe`, `OpenPipe`, `Connect` | a3.c 157-186 |
| `ReadCommand`, `ReadNothing` (end of file: the buffer stays as it is), `Echo`, `ReadArguments` (at the end of file: what was on the stack, `Unread`), `Act`, `Reply`, `Exit` | the loop, 270-380 |
| `MakePipe`, `Popen`, `OpenCmd`, `OpenRes`, `ReadConnect`, `SayExit`, `WaitForA3`, `Close` | `run()` of tester.py, 492-530 |
| `AskStep`, `ReadStep`, `RemoveStep`, `FindStep`, `PointsStep`, `SectionStep` | the statements the eight tests consist of |
| `Start`, `Join`, `Expire`, `StartBeside`, `EndBeside`, `StraysGone`, `Leave` | `perform()` and `main()`, 532-548, 796-812 |
| `TesterWaits`, `A3Waits` | the calls of `open()`, `read()` and `wait()` that block: tester.py 504-521, a3.c 163-172 and 24-44 |

A test is a script: a sequence of such statements (`TestPing` to `TestReadLogical`, tester.py 190-490) with the request and the
answer the tester expects. A pipe is a sequence of strings and numbers; a string and its `$` are one item. A request is written item by item, so
that it may be cut short anywhere between two of them when the tester ends. `open()` blocks until the other end is open or being
opened; a write to a pipe without reader is SIGPIPE. Of contents the model keeps which part of which was written last, which
is what the tester compares. `Word` stands for 2^32 in the sums of the code, `Writable` for the tests whose file has a mode that lets a3 open it
for writing (tester.py:621, a3.c:232): with any other one MAP_FILE answers ERROR.

The time limit may strike any test (`Expire`). Then strace is killed and the test counts 0, but nobody waits for its thread (line 541 is commented out),
and a3, the child of strace, goes on as well. If both have come to their end before the next test begins, it begins *alone* (`Start`). If not,
it shares the names of pipes and memory with something that may remove or use them at any time (`StartBeside`): the model does not follow
these conversations, it lets such a test end in any way, and the tester with it (`EndBeside`), until all strays have gone and have left behind
what they may (`StraysGone`). What is said about scores and left-overs is said of the tests that begin alone.

### SectionFile, FileTester and the code

A file is a header, kept as its fields, and a sequence of characters. `GenSectionFile` is what the tester makes, with one of the four
errors or none, `ParseFile`, `ParseLine`, `ParseFound` what it expects of it, `ValidateSfFile` what a1 says. In `FileTester`,
`BuildTestFs`, `MakeTests`, `SaveTests`, `LoadTests`, `Generate` are the tester's session up to the tests (two steps write
`tests.json`, which can be cut off), `Popen`, `Communicate`, `Perform`, `TimeLimit`, `Verdict`, `Grade` a test and the end. a1 is
`StartVariant`, `StartListing`, `StartParse`, `StartExtract` for its options, then `ListEntry` per directory entry, `SearchChunk`
and `SearchSection`, or `ScanChunk`, `ScanByte`, `ScanEnd`, which are the loops of `extract_line_from_sf_file()` byte by
byte. `Crash` ends tester, thread and a1 anywhere, `Restart` calls the tester again with the same exercise, and so the same
random numbers (tester.py 514-516).

## 3. Runs

| run | instance, distinct states | what it shows |
|---|---|---|
| `p4` | 5 threads, gate of 3, waiter T5; 81 929 | all properties of P4, the inductive invariant, the refinement, termination |
| `p67_fresh` | 1 run, set-up races; 343 | order, one object, nothing left behind |
| `p67_restart` | 2 runs, no race in the set-up; 1 028 | mutual exclusion after a kill at any moment; both processes end |
| `late_setup` | 1 run, set-up races; fair | violated: T7.1 may wait for ever |
| `stale_object` | 2 runs | violated: flags of a killed run let T7.1 begin at once |
| `checked_log` | two requirements, every order of messages; 666 752 | numbers tell the order; each check gives full points exactly for the order it asks for |
| `process_tree` | 4 processes, one thread, a failing fork, a kill that may take the semaphore along; 64 525 | parents enclose children and threads, full points if undisturbed, everybody goes but an unarmed child in front of a lost semaphore |
| `process7` | 4 threads; 15 116 | nesting, no lost signal, full points, return |
| `info_server` | 2 tests of 2 or 3 processes, the first perhaps cut off; 66 720 | one conversation at a time, recorded on return, verdicts before and after a killed run, the session ends |
| `command_server` | the eight tests, `map1` twice, the second with a file a3 may not write to; the time limit strikes one of them; 276 451 | points, accesses in bounds, nothing left, tests end without the time limit, a3 does not outlive the tester |
| `full_grade` | the same, all files may be written to | violated: the last test cannot get its points |
| `file_tester` | 12 file systems, all commands, an interruption; 49 962 | points, buffers and sections respected, the session gives a grade |

**Bounds.** What matters in P4 is that there are threads to let go before the waiter (`N - MAX_THREAD_COUNT > 0`), threads to keep
back for it (`MAX_THREAD_COUNT - 1 > 0`, two so that they can be told apart from one), and more threads than
places. Five threads and a gate of three have all of them; the waiter is created last, the worst case for the permits. The
safety results do not depend on the bounds, they are proved.
For P6 and P7 there is nothing to bound but the number of runs: two are needed for a run that finds what another has left. More
runs find what two runs find: an object with any flags, and a mutex free or with a dead owner.
`checked_log`: with three threads in one process every order of any two of them, and one too many, is seen; the second requirement has the two
processes of checkThreads3. Errors are left to `ProcessTree` and `InfoServer` (`MaxErrors = 0`).
`process_tree`: a process with two children, a grandchild, a thread beside children; deeper trees are covered by the proofs.
`info_server`: two tests are enough for a killed one and its successor; the shapes of tree are a chain and two siblings, one of which
speaks while the other is forked. TLC does not see a killed run with survivors of three processes, the proof of `OneConversation` does.
`command_server`: the memory is larger than the file, and the file large enough for the requests of the tests. The time limit strikes one
test that could go on (`Cuts = 1`), any of them and at any moment; what it does to later ones goes through `strays` and the names that are left,
and a second strike finds the same. Where nobody can go on it strikes as often as needed. A number that was not read is a small or the largest
one; 0, which would let CREATE_SHM fail and a later EXIT keep the name, is left out, and no test follows such an end of the tester. The tester's mode for a file lets
a3 open it or not; only `map1` is checked with both.
`file_tester`: a chunk has 8 bytes instead of 65 536, a line buffer 2 instead of 100; ordinary sections have two to four lines and fit into a chunk,
lines of huge sections are longer than a chunk, so that lines begin, end and cross at borders. A session performs one test
(`Tests = 1`), any of them: a1 keeps nothing from one call to the next, and what an interruption leaves of `test_root` and `tests.json` does not
depend on which test it is at.
Deadlock is checked except where the system may stop: a thread whose flag was reset or whose partner has crashed, clients that have
said everything, a tester that has ended.

**Fairness.** Steps that never block: weak fairness of each thread and process, that is, the scheduler runs everybody. Taking
a mutex (`Process4`, `Process6Process7`, `Process7`): strong fairness. A thread that asks for a mutex while others take and release it finds
it free again and again; the kernel's futex queue makes no formal promise, but neither does it let a waiter starve for ever. It is
needed only against endless spurious wake-ups, whose sleepers can take the mutex over and over; no fairness is assumed of
`SpuriousWake`, so the results hold if they never happen and if they happen all the time. A semaphore, a connection and the server
need only weak fairness: who waits is let in when the others have said their finitely many messages. Time limits need not strike, so
that termination is not their doing: `TestsEnd` of `CommandServer` is about tests that end by themselves, and no fairness is assumed of `Expire`. Forks
that fail, kills and interruptions have no fairness. In `FileTester` one program runs at a time, and it is together, not
one by one, that tester, thread and a1 are fair. The liveness properties are about runs nobody kills (`Termination`, `BothEnd`), or say what
becomes of the rest (`EverybodyGoes`, `SessionEnds`, `A3Ends`).

**Mutants.** Beside a definition stands the slip it invites (a signal that is not given, an off-by-one, the counter of the other
mutex, a handler that keeps the semaphore, a buffer that grows too late). With the slip in its place each property fails in its
run. The pairs are in `PROJECT.json`.

## 4. What was found

1. **The shared object is initialised too late** (`late_setup`, a2.c:52). Nothing makes the second process wait until the first has initialised
   the object. P7 creates it; P6 maps it and runs T6.5 to its end, which sets its flag; P7 then resets the flags in
   lines 52-53; T7.1 waits for ever. A second process can also come before `ftruncate` and die of SIGBUS. The order of the threads
   survives all this (`InOrder`, proved), the termination does not.
2. **A killed run poisons the next** (`stale_object`, a2.c:66). `tester.py` kills P1 at its time limit; the object stays, with its flags and
   perhaps with its mutex locked. In the next run no O_EXCL open succeeds and nobody initialises it.
3. **READ_FROM_LOGICAL_SPACE_OFFSET is not handled** (`full_grade`, a3.c:291). a3 echoes the command and reads its numbers as the next
   commands; the last test gets 2 of its 10 points or waits until the time limit and gets none, against the 100/100 that the repository's README.md claims.

Without a run of its own, but visible in a property's precondition: `checkThreads3` (tester.py:331) does not ask whether the
middle thread has ended. The number of a message that never came is 0, less than any other, and full points are possible
(`Threads3Faithful` holds once everybody has ended). In the whole tester a thread that has not ended also costs points elsewhere.

## 5. What properties are about

The hazards are listed in `PROJECT.json`. Most properties take several actors to violate: `WaiterEndsInFullHouse` relates messages to counters
under two different mutexes; `MutualExclusion` and `OneObject` relate two processes by an object that a third,
dead one made; `Threads2Faithful` says that a replay of intervals is a replay of messages; `RecordedOnReturn` and `QuietVerdict` say that what
every other module assumes of `info()` is true, fork handlers and killed predecessors included; `NoFalsePraise` is about a server
reset in the middle of a message; `A3Ends` is about a3 in the middle of a request when the tester dies; `FullScores` of `CommandServer` and `FullScore` of `FileTester` hold two independently written
programs against each other; `NothingLeft` and `SessionEnds` relate a session to what the one before has left.

## 6. Proofs

All theorems are for every value of the constants that the named assumptions allow.

**P4** (any number of threads, any gate from one to that number). The safety properties speak of messages, the code of counters.
Neither is inductive alone: `AtMostMaxRunning` holds because a counter is below `MAX_THREAD_COUNT` when a thread passes,
and because that counter counts every thread that has passed. `Process4Inv` is the conjunction of

- `MutexInv`: a mutex is held by exactly the thread that is in its critical section;
- `CountInv`: each counter is the number of threads between two lines of the code;
- `PermitInv`: permits left plus generic threads let go is `N - MAX_THREAD_COUNT`, and `MAX_THREAD_COUNT - 1` more once T4.11 has
  released its mutex;
- `QuorumInv`: while T4.11 holds the mutex after its loop, the counter stays at `MAX_THREAD_COUNT`;
- `SleepInv`: nobody sleeps whose condition has become true without a wake-up on its way;
- `MainInv`: threads exist and are joined in order.

`Process4Invariance` proves it action by action, from lemmas on how the cardinality of the threads at some lines changes when one
thread moves or sleepers wake. Then:

- `AtMostMaxRunningHolds`: the running threads are among the entered ones, which are counted.
- `FullHouseHolds`: at T4.11's END the counted threads are `MAX_THREAD_COUNT`; they are running, since T4.11's mutex keeps them from
  counting themselves out, and by the previous property there are no others.
- `NoLostWakeupHolds`, `StackOutlivesThreadsHolds`, `TypeCorrect`: parts of the invariant, or near.
- `NeverAllAsleepHolds`: if all unfinished threads slept, then either all sleep at the entrance with nobody inside, which
  `NoLostWakeup` forbids, or some sleep at the exit, and the permits are used up: then exactly `MAX_THREAD_COUNT` threads are left
  (T4.11 among them) and each of them has a place at the entrance, so that T4.11 is inside, its house full, and not asleep.
- `Refinement`: `Spec => ImplementsBarrier`. Most steps leave the status of all threads as it is; `InfoBegin`,
  `InfoEnd`, `QuorumInfoEnd` are `Begin`, `End`, `EndWaiter`. That `End` is allowed is a count of permits.
- `HouseCanFillHolds`: until T4.11 has ended only `N - MAX_THREAD_COUNT` others have been let go, so `MAX_THREAD_COUNT - 1` are left.

**P6 and P7.**

- `TypeCorrect`, any number of runs: in addition to types, END comes after BEGIN and the objects suffice. It needs that there are
  no threads before the object is mapped.
- `OrderHolds`, for one run (`MaxRuns = 1`), with races in the set-up: a flag is set only after the END of its thread, and a thread is past its
  loop only after the END of its predecessor. The reset of the flags can only take away.
- `OneObjectHolds`, `NothingLeftBehindHolds`, for one run: a process that unlinks the name has joined its threads, and these have waited for those
  of the other (by the order invariant), so both have opened before the name disappears; `MeetInv` says so.
- `MutualExclusionHolds`, any number of runs, without races in the set-up: who is in a critical section holds the mutex of its object, and a
  creator is alone with the object it initialises.

**Server.** `WellNumberedHolds`: numbers are distinct, at most `time`, and END's is higher than BEGIN's. `NumbersStayHolds`: a number is never
changed. Both for any clients, and stated in `CheckedLogProofs`. `ProcessTreeProofs` and `Process7Proofs` begin with what they need of it: what an accepted `AddBegin` or `AddEnd` does to the log.

**What the checks mean** (any clients, any requirement of the shape tester.py uses, messages in any order). `CheckedInv` says that the numbers are the places of the
messages in the log, a history variable of the model (`Places`). From it `HierarchyFaithfulHolds` and `Threads1FaithfulHolds` to `Threads3FaithfulHolds`:
full points if and only if the messages came in the order the requirement asks for (for `checkThreads3`, once everybody has ended). A score has
several terms, the tester adds them up, and full points mean that none is missing. For `checkThreads2` the proof compares the sets of threads that run
at the numbers the tester looks at with the sets after each message (`RunningByNumbers`); a busiest moment is at some BEGIN.

**Process tree** (any tree and threads, any failing forks, a kill at any moment). `TreeInv` says what has been said and forked by where a process
is, and that a child dies before its time only after its parent. From it `NoErrorsHolds`, `ParentsEncloseHolds`, `ProcessesEncloseHolds`, and
`FullHierarchyScoreHolds`: a run that nothing disturbed gets the full points of `checkHierarchy`. The last one needs that the tree hangs together
(`RootedAssumption`) and that the tester asks for this tree (`RequiredAssumption`); data.py and a2.c agree on both.

**P7** (any number of threads, the two anywhere among them). `P7Inv` relates the places of the threads to the flags and to the messages:
`NestedHolds`, `NoLostWakeupHolds`, `StackOutlivesThreadsHolds`, and, with the requirement of data.py for these threads (`Process7Assumption`),
`FullThreads1ScoreHolds`.

**info() and its server** (any tests, processes and rooted trees).

- `SemInvariance`: while P1 makes the semaphore nobody else is alive (`AloneAtFirst`); afterwards all use one semaphore, which is down exactly
  for the one process that is in a conversation or has come through the fork handler (`OneSemaphore`), as long as the test began quietly.
  `OneConversationHolds` follows. If a test does not begin quietly there may be two semaphores, and the property does not hold.
- `InfoInvariance`: `InfoInv` adds where a process is in `info()` and where the server is with its message (`PlaceInv`, `SocketInv`). By `Credit`
  each message the server has heard of a process that was not cut off is in the log under this process's name, or an error was counted; by `Clean` the log
  of a quiet test has nothing else, without error, and children lie within their parents.
- `RecordedOnReturnHolds`: who has come back from `info()` in a quiet test finds its message in the log. Every other module takes `info()` for one step
  of `MessageLog` on account of this.
- `QuietVerdictHolds`, `NoFalsePraiseHolds`: a quiet test that ran to its end is judged to have done all; a test in which a message of an earlier
  run was accepted is not given all the points. The latter is why `Credit` has to follow processes of killed runs into later tests.

**a3 and its tester** (any session, memory and file). `Inv` of `CommandServerProofs` says which ends of the pipes are open where each side is
(`MainOK`, `PipesOK`), that a command in the request pipe is followed by arguments of the size the tester sends, read, still in the pipe or still
to be written (`Coming` is the pipe with the `Unwritten` rest of a request; `RequestsOK`), that a3 knows the size of the memory it has (`MemoryOK`), and which
names exist (`LeftOK`). `MemorySafeHolds`: accesses are inside region and file, although the code adds modulo 2^32; a number that was never read, which is
possible only once the tester has ended (`MainOK`), is the one exception. `NothingLeftHolds`: a test that begins alone, is connected and comes
to its end leaves no pipe, process or memory. Both hold whichever tests the time limit strikes. `CommandServerAssumption` has what the tester's constants are
like: sizes far below 2^32, a region in which the offset to write and the 50 bytes of a read lie, at least three sections that lie in the file.

`FullScoresHolds` needs the two sides in step. Between two requests a script is at a *point* (`Point`): what is left of it, the points so far, how much
of memory, name and mapping exists (`Levels`), and what the memory holds. `Plan` lists the points of each test, and `Plans` shows that each leads
to another one, by a step of the thread or by a request whose answer is the one a3 gives (`Effect`), until all points are taken: that is a
fact about the constants alone. `InStep` is the invariant: until CONNECT each side finds the other's pipe (`Met`); afterwards the script is
the answers still to be read followed by the rest of a point, and either a3 has acted (`Answered`) or the request that leads there is on its way,
in parts read by a3, in the pipe and unwritten (`Asked`, `AfterAsk`); after the last point it has been told EXIT (`Served`). So a read never finds another token than the expected one,
and `SomebodyGoesOn`: the two never wait for each other, hence the time limit strikes only somebody who could go on.
All this is for tests a3 can answer (`Answerable`) that begin alone. READ_FROM_LOGICAL_SPACE_OFFSET, which a3 does not handle, and files it cannot open are
outside of it; what becomes of the former is for `full_grade`.

**a1 and its tester** (any names, directories, files, numbers drawn, sizes of chunks and lines, tests and interruptions). `FullScoreHolds`: whatever
command the tester chooses in whatever file system it has built, a test that meets no time limit gets its point. `NothingOutsideHolds`: a1 reads
inside its section and inside names, and what it writes fits into its buffer. The two sides compute the same thing in opposite ways, so most of the proof is
about the data:

- *The bytes.* `JoinedLines`: a body has the lines it was joined from. `SectionFound`: behind the header each section lies at the offset the header
  gives, though the tester adds the offsets up and a1 takes them as they are. `MadeOK`, `SectionNode`: so every file of the tester can be read.
- *The verdicts.* `SameVerdict`: `validate_sf_file()` and `parseFile()` find the same thing wrong. `SamePermissions`: the tester takes the octal digits of
  the mode apart and reverses them, a1 tests nine masks; both write the same.
- *A line.* The tester splits at separators and takes the line that was asked for from the end; a1 scans backwards, chunk by chunk, counts separators, and reverses
  what it has kept. `Scanned` describes the scan by positions (*cuts*): the line it is in is the number of cuts above, and what is kept lies
  between the position and the next cut. `ScanSeparator`, `ScanOther` keep it, `ScanFinds` ends it.
- *A count.* `Searched`: the counter has the lines up to the chunk that is read next, or one more than are asked for. `SearchDecides`, for a section of any length
  with any lines: the loop may be left before the end of the section (a1.c:405), and the comparison that follows is wrong in exactly one case, if the counter is
  at the number asked for and there is a separator in the chunks that were not read. In the files of the tester this does not occur (`SectionOK`): a
  section that does not fit into a chunk has fewer lines than are asked for.
- *A listing.* `Listing`: what has been found, and what will be found below the entries still to take, is what is wanted and not more.
- *The commands.* `CommandsOK`: each names something that exists; an ending is no longer than a name; the section and line are there.

`IInv` is then the inductive invariant of the session: `SessionOK` (the tests belong to the `test_root` on disk, also when a session was
interrupted while it built it; nothing but whole `tests.json` is used), `RunOK` (where thread and a1 are, by where the tester is), `A1OK` (where
a1 is, what it has printed and what the three invariants above say) and `FullScore` itself, since `results` remembers. None of them is inductive
alone: what a1 finds is right only in the file system the tests were made for, and a verdict is right only if a1 was. `Invariance` goes through the
actions; a crash may come at any of them.

`SectionFileAssumption` and `FileTesterAssumption` have what the code draws: names of at least four characters (tester.py 70-76), of files with a `.` and of
directories without; `_corrupted` and `_huge`; modes of nine bits; ordinary sections of at most 20 lines of 100 characters, which fit into a chunk of 65536, and huge ones of at most 10 lines,
fewer than the 13 that `findall` asks for (90-101, and `a1_data.json`); as many numbers drawn as are used.

*Recursive definitions.* `FlattenSeq`, `RandomDirs` and `Halved` are recursive functions. The induction theorems of the library take an operator, which the provers
cannot instantiate. `Induction` is the same fact for a *set* of numbers, and follows from the well-foundedness of the finite subsets of a set.
With it, `TableExists`, `DirsExist`, `HalvedExists` show that the recursive equations have a solution, and `TableUnique` that they have one only.

**Proved and not checked by a run:** `StackOutlivesThreads` (of `Process4` and `Process7`) and `NumbersStay`.

**Only model-checked:**

- Liveness, which depends on fairness: `Termination`, `BothEnd`, `EverybodyGoes`, `SessionEnds`, `TestsEnd`, `A3Ends`.

All invariants that the runs check are also proved.

## 7. Not modelled

- Docker, compilation, valgrind and leak checks, the reading of the strace log (`checkStrace`), colours and texts: tools and wording around
  the programs.
- The search of `argv` in a1 (options are a record) and its answer to an unknown option, which no test asks for.
- SF files that end inside their header: a1 then reads fields it never wrote, and the outcome depends on the stack. No test makes one.
- Section number 0, which passes a3's check in line 357 and indexes `sections[-1]`; the tester counts from 1. Listed as a hazard.
- A second CREATE_SHM or MAP_FILE in one session, failing `shm_open()` and `mmap()` of a3: no test does it. Listed as hazards where something is lost.
- The conversations of A3 tests that begin while an earlier one still runs, and their scores; the tester's exception when `self.p` becomes None
  under its eyes (tester.py 538-539) is part of `EndBeside`.
- How the A3 tester makes its files: it is the function of A1's tester again.
- Joining a `pthread_t` that `pthread_create` has not written, sockets that fail, short reads and writes of a message of 24 bytes on a local
  connection, a client stopped by a debugger.
- Memory contents beyond what the tester compares, time other than as the moment a limit strikes.

## 8. What could be added

A refinement of `MessageLog` by `InfoServer` in tests that begin quietly; sections of `FileTester` that are longer than a chunk and have more lines than asked for, where the early exit of line 405 may give a
wrong count (`SearchDecides` says when); the conversations of overlapping tests of A3; a proof that a session comes to its grade, once the provers know fairness.
