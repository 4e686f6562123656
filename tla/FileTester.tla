------------------------------- MODULE FileTester -------------------------------
(***************************************************************************)
(* a1.c and the A1 tester: the tester builds a file system, makes tests of *)
(* it with the answers it expects and saves them in tests.json, or loads   *)
(* the tests of an earlier session; then it runs a1 for one test after the *)
(* other, each in a thread and under a time limit.  The tester may be      *)
(* interrupted and started again at any point.                             *)
(*                                                                         *)
(* A path is a sequence of names, a name a sequence of characters.  An     *)
(* answer has lines, and the names of a listing, whose order does not      *)
(* count (Tester.unordered).                                               *)
(***************************************************************************)
EXTENDS SectionFile

CONSTANTS
  Variant,               \* the number of the exercise
  Draws,                 \* what the random generator may give, for the files,
  DirNames, FileNames,   \* and for names: sequences
  CHUNK_SIZE,            \* of a1.c, 65536
  LineSize,              \* result_line_size at first, 100
  Tests,                 \* bound: the tests of a session
  MaxCrashes             \* bound: how often the tester is interrupted

VARIABLES
  seed,                  \* what the random numbers are, in every session
  main, step,            \* the tester: where it is, and in generateTests()
  test_root,             \* what is at which path
  tests, saved,          \* the tests; how far they are in tests.json
  crashes,
  test, results,         \* the test it is at; the verdicts of the session
  thread, timeout,       \* run() of the test; the time limit struck
  a1, todo, output,      \* where a1 is; entries still to list; what it prints
  entry, section, matching, lines,              \* test_sections_with_lines()
  at, left, unread, current, reached, line, capacity  \* extract_line...()

diskVars == <<seed, test_root, tests, saved>>
sessionVars == <<main, step, crashes, test, results>>
searchVars == <<entry, section, matching, lines>>
scanVars == <<at, unread, current, reached, line, capacity>>
a1Vars == <<a1, todo, output, left, searchVars, scanVars>>
vars == <<diskVars, sessionVars, thread, timeout, a1Vars>>
-----------------------------------------------------------------------------
(* The file system of the tests: buildTestFs() *)

Root == <<>>
Wrongs == {"magic", "version", "sect_nr", "sect_types"}
\* _corrupted and _huge, which are longer than any ending that is asked for.
Corrupted == <<"_", "c", "o", "r">>
Huge == <<"_", "h", "u", "g">>

\* genRandomName() gives four characters or more, none of them a "_" or a "."; the
\* name of a file has a "." in it.  A section fits into a chunk unless it is a huge
\* one, and those have fewer lines than findall asks for.
ASSUME FileTesterAssumption ==
  /\ CHUNK_SIZE \in Nat \ {0} /\ LineSize \in Nat \ {0} /\ FindLines > 1
  /\ DirNames \in Seq(Seq(STRING)) /\ FileNames \in Seq(Seq(STRING)) /\ FileNames # <<>>
  /\ \A name \in ToSet(DirNames) \cup ToSet(FileNames) : Len(name) >= 4
  /\ ToSet(DirNames) \cap ToSet(FileNames) = {}
  /\ {Corrupted, Huge} \cap (ToSet(DirNames) \cup ToSet(FileNames)) = {}
  /\ \A draw \in ToSet(Draws) :
       /\ draw.version \in VersionMin..VersionMax /\ draw.sectNr \in SectMin..SectMax
       /\ \A i \in DOMAIN FileNames : draw.perms[i] \in 0..511
       /\ \A body \in {draw.first, draw.rest, draw.huge} :
            /\ body \in Seq(Seq(STRING \ {NL}))
            /\ Len(Joined(body)) <= CHUNK_SIZE \/ Len(body) < FindLines

\* makeRandomDirs(): every directory inside one of the earlier ones.
RandomDirs[k \in 0..Len(DirNames)] ==
  IF k = 0 THEN {{Root}}
  ELSE UNION {{dirs \cup {Append(d, DirNames[k])} : d \in dirs} : dirs \in RandomDirs[k-1]}

\* The directories, the directory of every file of makeRandomFiles(), and the
\* numbers for the files themselves.
Seeds ==
  UNION {[dirs : {dirs}, places : [DOMAIN FileNames -> dirs], draw : DOMAIN Draws] :
           dirs \in RandomDirs[Len(DirNames)]}

\* What is made in directories `dirs`; rwxr-xr-x is 493.
Dir == [perm |-> 493, dir |-> TRUE]
File(f) == [perm |-> f.perm, dir |-> FALSE, file |-> f]

Bodies(s) ==
  [i \in 1..2 * SectMax |-> IF i = 1 THEN Draws[s.draw].first ELSE Draws[s.draw].rest]
HugeBodies(s) == [i \in 1..SectMax |-> Draws[s.draw].huge]

Section(s, wrong, bodies, i) ==
  LET draw == Draws[s.draw]
  IN  File(GenSectionFile(wrong, draw.version, draw.sectNr, bodies, draw.perms[i]))

RandomFiles(s) ==
  LET path(i) == Append(s.places[i], FileNames[i])
  IN  [p \in {path(i) : i \in DOMAIN FileNames} |->
         Section(s, "nothing", Bodies(s), CHOOSE i \in DOMAIN FileNames : path(i) = p)]

\* Bound: one file of each kind, three in the code.
CorruptedFiles(s) ==
  [w \in {<<Corrupted, Append(FileNames[1], w)>> : w \in Wrongs} |->
     Section(s, Last(w[2]), Bodies(s), 1)]

\* Bound: one huge file of two.
HugeFiles(s) == [p \in {<<Huge, FileNames[1]>>} |-> Section(s, "nothing", HugeBodies(s), 1)]

\* A directory of the root and its files.
Inside(name, files) ==
  [p \in {<<name>>} \cup DOMAIN files |-> IF p = <<name>> THEN Dir ELSE files[p]]

\* The four parts of buildTestFs().
Part(s, k) ==
  CASE k = 1 -> [p \in s.dirs |-> Dir]
    [] k = 2 -> RandomFiles(s)
    [] k = 3 -> Inside(Corrupted, CorruptedFiles(s))
    [] k = 4 -> Inside(Huge, HugeFiles(s))

\* A part is made beside what there is.
Made(fs, part) ==
  [p \in DOMAIN fs \cup DOMAIN part |-> IF p \in DOMAIN fs THEN fs[p] ELSE part[p]]

Children(fs, path) == {p \in DOMAIN fs : p # Root /\ Front(p) = path}
-----------------------------------------------------------------------------
(* Commands and the answers the tester expects: perform_a1() *)

Command(op, path) ==
  [op |-> op, path |-> path, recursive |-> op = "findall", name_ends_with |-> <<>>,
   permissions |-> <<>>, section |-> 0, line |-> 0]

Answer(theLines) == [lines |-> theLines, names |-> {}]
Found(names) == [lines |-> <<"SUCCESS">>, names |-> names]

PerformA1(fs, cmd) ==
  LET below  == {p \in DOMAIN fs : IsStrictPrefix(cmd.path, p)}
      walked == IF cmd.recursive THEN below ELSE Children(fs, cmd.path)
  IN  CASE cmd.op = "variant" -> Answer(<<Variant>>)
        [] cmd.op = "list" ->
             Found({p \in walked :
               /\ IsSuffix(cmd.name_ends_with, Last(p))
               /\ cmd.permissions \in {<<>>, GetPerm(fs[p].perm)}})
        [] cmd.op = "parse" -> Answer(ParseFile(fs[cmd.path].file))
        [] cmd.op = "extract" ->
             Answer(ParseLine(fs[cmd.path].file, cmd.section, cmd.line))
        [] cmd.op = "findall" ->
             Found({p \in walked : ~ fs[p].dir /\ ParseFound(fs[p].file)})

\* A listing of the entries that end as one of them does, or that have its
\* permissions; the extraction of a line.
Ended(d, p, k) ==
  [Command("list", d) EXCEPT !.name_ends_with =
     SubSeq(Last(p), Len(Last(p)) + 1 - k, Len(Last(p)))]
Allowed(fs, d, p) == [Command("list", d) EXCEPT !.permissions = GetPerm(fs[p].perm)]
Extracted(p, x) == [Command("extract", p) EXCEPT !.section = x[1], !.line = x[2]]

\* The commands generateTests() may choose.  Listings with a filter that find
\* nothing are not taken; as countSize stays 0, none of them is recursive.
Each(op, paths) == {Command(op, p) : p \in paths}
Recursive(dirs) == {[Command("list", d) EXCEPT !.recursive = TRUE] : d \in dirs}

WithEnding(fs, dirs) ==
  UNION {{Ended(d, p, k) : p \in Children(fs, d), k \in 2..4} :
         d \in {e \in dirs : Cardinality(Children(fs, e)) >= 3}}
WithPermissions(fs, dirs) ==
  UNION {{Allowed(fs, d, p) : p \in Children(fs, d)} :
         d \in {e \in dirs : Cardinality(Children(fs, e)) >= 2}}
Finding(fs, cmds) == {cmd \in cmds : PerformA1(fs, cmd).names # {}}

Extractions(fs, files) ==
  UNION {{Extracted(p, x) : x \in RandomLines(fs[p].file)} : p \in files}

Commands(fs, s) ==
  LET corrupted == DOMAIN CorruptedFiles(s)
      huge == DOMAIN HugeFiles(s)
      files == DOMAIN RandomFiles(s)
  IN  {Command("variant", Root)}
      \cup Each("list", s.dirs) \cup Recursive(s.dirs)
      \cup Finding(fs, WithEnding(fs, s.dirs) \cup WithPermissions(fs, s.dirs))
      \cup Each("parse", files \cup corrupted)
      \cup Extractions(fs, files \cup huge)
      \cup Each("findall", s.dirs)

NoTest == [cmd |-> Command("none", Root), expected |-> Answer(<<>>)]

GenerateTests(fs, s) ==
  {[cmd |-> cmd, expected |-> PerformA1(fs, cmd)] : cmd \in Commands(fs, s)}
-----------------------------------------------------------------------------
(* a1.c *)

Cmd == test.cmd
Node(p) == test_root[p]
At(here) == a1 = here

\* Nothing is read yet, or any more.
Fresh ==
  /\ todo' = {}
  /\ entry' = Root /\ section' = 0 /\ matching' = 0 /\ lines' = 0
  /\ at' = 0 /\ left' = 0 /\ unread' = 0
  /\ current' = 0 /\ reached' = FALSE /\ line' = <<>> /\ capacity' = LineSize

Ends(answer) ==
  /\ a1' = "ended" /\ output' = answer
  /\ UNCHANGED <<todo, left, searchVars, scanVars>>

Error(why) == Ends(Answer(<<"ERROR", why>>))

\* opendir() and readdir()
Entries(path) == Children(test_root, path)

StartVariant == At("main") /\ Cmd.op = "variant" /\ Ends(Answer(<<Variant>>))

StartListing ==
  /\ At("main") /\ Cmd.op \in {"list", "findall"}
  /\ IF Cmd.path \in DOMAIN test_root /\ Node(Cmd.path).dir
     THEN /\ a1' = "list" /\ output' = Found({})
          /\ todo' = Entries(Cmd.path)
          /\ UNCHANGED <<left, searchVars, scanVars>>
     ELSE Error("invalid directory path")

StartParse ==
  /\ At("main") /\ Cmd.op = "parse"
  /\ IF Cmd.path \notin DOMAIN test_root THEN Error("invalid file path")
     ELSE LET file == Node(Cmd.path).file
              validity == ValidateSfFile(file)
          IN  IF validity = "valid" THEN Ends(Answer(Described(file)))
              ELSE Error(validity)

\* The number of a section is a uint8_t.
SectionNumber(n) == n % 256

StartExtract ==
  /\ At("main") /\ Cmd.op = "extract"
  /\ IF Cmd.path \notin DOMAIN test_root \/ ValidateSfFile(Node(Cmd.path).file) # "valid"
     THEN Error("invalid file")
     ELSE LET file == Node(Cmd.path).file
              n == SectionNumber(Cmd.section)
          IN  IF n > Len(file.sections) THEN Error("invalid section")
              ELSE /\ a1' = "scan"
                   /\ section' = n
                   /\ at' = file.sections[n].offset + file.sections[n].size
                   /\ left' = file.sections[n].size
                   /\ current' = 1 /\ reached' = (Cmd.line = 1)
                   /\ UNCHANGED <<todo, output, entry, matching, lines, unread, line,
                                  capacity>>

\* string_ends_with(): what is before a name that is shorter is anything.
EndsWith(name) ==
  IF Len(name) >= Len(Cmd.name_ends_with) THEN {IsSuffix(Cmd.name_ends_with, name)}
  ELSE BOOLEAN

\* The next entry of print_directory_contents(), in one order, as the order of the
\* names does not count; a regular file is searched if that is asked for and it is
\* worth it.
ListEntry ==
  /\ At("list") /\ todo # {}
  /\ LET p == CHOOSE q \in todo : TRUE
         searched == Cmd.op = "findall" /\ ~ Node(p).dir
           /\ Len(Node(p).file.sections) >= FindSections
           /\ ValidateSfFile(Node(p).file) = "valid"
     IN  /\ todo' = (todo \ {p})
                      \cup (IF Cmd.recursive /\ Node(p).dir THEN Entries(p) ELSE {})
         /\ \E nameMatches \in EndsWith(Last(p)) :
              output' =
                IF /\ Cmd.op = "list" /\ nameMatches
                   /\ Cmd.permissions \in {<<>>, Permissions(Node(p).perm)}
                THEN [output EXCEPT !.names = @ \cup {p}] ELSE output
         /\ IF searched
            THEN /\ a1' = "search" /\ entry' = p /\ matching' = 0
                 /\ section' = 1 /\ lines' = 1
                 /\ left' = Node(p).file.sections[1].size
            ELSE UNCHANGED <<a1, left, searchVars>>
  /\ UNCHANGED scanVars

EndListing == At("list") /\ todo = {} /\ Ends(output)

\* A slip: a section of more lines than asked for looks like one of as many.
CountedTo(n) == Min({n, FindLines})
Separators(chunk) == Cardinality({j \in DOMAIN chunk : chunk[j] = NL})
\* The separators of a chunk are counted up to one too many.
Counted(n) == Min({n, FindLines + 1})

Searching == At("search") /\ left > 0 /\ lines < FindLines

SearchChunk ==
  /\ Searching
  /\ LET s == Node(entry).file.sections[section]
         n == Min({left, CHUNK_SIZE})
         chunk == Bytes(Node(entry).file, s.offset + s.size - left, n)
     IN  /\ lines' = Counted(lines + Separators(chunk))
         /\ left' = left - n
  /\ UNCHANGED <<a1, todo, output, entry, section, matching, scanVars>>

SearchSection ==
  /\ At("search") /\ ~ Searching
  /\ matching' = matching + IF lines = FindLines THEN 1 ELSE 0
  /\ IF matching' >= FindSections \/ section = Len(Node(entry).file.sections)
     THEN /\ a1' = "list"
          /\ output' = IF matching' >= FindSections
                       THEN [output EXCEPT !.names = @ \cup {entry}] ELSE output
          /\ UNCHANGED <<section, lines, left>>
     ELSE /\ section' = section + 1 /\ lines' = 1
          /\ left' = Node(entry).file.sections[section + 1].size
          /\ UNCHANGED <<a1, output>>
  /\ UNCHANGED <<todo, entry, scanVars>>

\* A chunk is read from its beginning, and scanned from its end.
ScanChunk ==
  /\ At("scan") /\ unread = 0 /\ left > 0 /\ current <= Cmd.line
  /\ LET n == Min({left, CHUNK_SIZE})
     IN  at' = at - n /\ left' = left - n /\ unread' = n
  /\ UNCHANGED <<a1, todo, output, searchVars, current, reached, line, capacity>>

\* A slip: the line grows when it is too long already.
GrownLate(n) == IF n > capacity THEN 2 * capacity ELSE capacity
\* realloc(), if the next character would not fit after n others.
Grown(n) == IF n >= capacity THEN 2 * capacity ELSE capacity

ScanByte ==
  /\ At("scan") /\ unread > 0
  /\ LET c == Node(Cmd.path).file.content[at + unread]
     IN  IF c = NL
         THEN /\ current' = current + 1
              /\ reached' = (reached \/ current' = Cmd.line)
              /\ unread' = IF current' > Cmd.line THEN 0 ELSE unread - 1
              /\ UNCHANGED <<line, capacity>>
         ELSE /\ IF current = Cmd.line
                 THEN capacity' = Grown(Len(line)) /\ line' = Append(line, c)
                 ELSE UNCHANGED <<line, capacity>>
              /\ unread' = unread - 1
              /\ UNCHANGED <<current, reached>>
  /\ UNCHANGED <<a1, todo, output, left, searchVars, at>>

\* Room is made for the terminator.
ScanEnd ==
  /\ At("scan") /\ unread = 0 /\ ~(left > 0 /\ current <= Cmd.line)
  /\ a1' = "ended"
  /\ output' = Answer(IF reached THEN <<"SUCCESS", line>> ELSE <<"ERROR", "invalid line">>)
  /\ capacity' = IF Len(line) = capacity THEN capacity + 1 ELSE capacity
  /\ UNCHANGED <<todo, left, searchVars, at, unread, current, reached, line>>

A1 ==
  /\ StartVariant \/ StartListing \/ StartParse \/ StartExtract \/ ListEntry
     \/ EndListing \/ SearchChunk \/ SearchSection \/ ScanChunk \/ ScanByte \/ ScanEnd
  /\ UNCHANGED <<diskVars, sessionVars, thread, timeout>>
-----------------------------------------------------------------------------
(* The thread of a test: Tester.run() *)

Popen ==
  /\ thread = "start"
  /\ thread' = "communicate"
  /\ a1' = "main" /\ output' = Answer(<<>>) /\ Fresh

Communicate ==
  /\ thread = "communicate" /\ a1 \in {"ended", "killed"}
  /\ thread' = "done"
  /\ UNCHANGED a1Vars

Thread == (Popen \/ Communicate) /\ UNCHANGED <<diskVars, sessionVars, timeout>>
-----------------------------------------------------------------------------
(* main() *)

Goes(there) == main' = there
TesterOnly == UNCHANGED <<thread, timeout, a1Vars>>

\* No test: the Tester object, its thread and its process are gone.
Idle ==
  /\ thread' = "done" /\ timeout' = FALSE
  /\ a1' = "none" /\ output' = Answer(<<>>) /\ Fresh

\* loadTests(): a file that was cut off is no JSON, which is an exception.
LoadTests ==
  /\ main = "load"
  /\ Goes(CASE saved = "whole" -> "grade" [] saved = "part" -> "failed"
            [] OTHER -> "generate")
  /\ step' = 0
  /\ UNCHANGED <<diskVars, crashes, test, results>> /\ TesterOnly

\* A slip: what there is of test_root is left.
RootKept == test_root
\* rmtree()
RootGone == <<>>

\* generateTests() first removes test_root and makes it part by part, of which the
\* first begins with os.mkdir(), an exception if it exists.
BuildTestFs ==
  /\ step \in 0..4
  /\ IF step = 1 /\ Root \in DOMAIN test_root
     THEN Goes("failed") /\ UNCHANGED test_root
     ELSE test_root' = (IF step = 0 THEN RootGone ELSE Made(test_root, Part(seed, step)))
          /\ UNCHANGED main
  /\ UNCHANGED <<tests, saved>>

\* The tests are made, and written to a file that is empty at first.
MakeTests ==
  /\ step = 5
  /\ tests' = GenerateTests(test_root, seed) /\ saved' = "part"
  /\ UNCHANGED <<main, test_root>>

SaveTests ==
  /\ step = 6
  /\ saved' = "whole" /\ Goes("grade")
  /\ UNCHANGED <<test_root, tests>>

Generate ==
  /\ main = "generate"
  /\ BuildTestFs \/ MakeTests \/ SaveTests
  /\ step' = step + 1
  /\ UNCHANGED <<seed, crashes, test, results>> /\ TesterOnly

\* main() takes a test and perform() starts its thread.  Bound: any test, and only
\* Tests of them.
Perform ==
  /\ main = "grade" /\ Len(results) < Tests
  /\ Goes("join")
  /\ test' \in tests
  /\ thread' = "start"
  /\ UNCHANGED <<diskVars, step, crashes, results, timeout, a1Vars>>

\* A killed process leaves in the pipe what it had flushed.  Bound: all it had
\* printed, or nothing.
Flushed == {output, Answer(<<>>)}

\* The first join() is over before the thread.  Before Popen() there is nothing to
\* kill, and the second join() has no limit.
TimeLimit ==
  /\ main = "join" /\ thread # "done"
  /\ Goes("joinAgain")
  /\ IF thread = "start" THEN UNCHANGED <<timeout, a1Vars>>
     ELSE /\ timeout' = TRUE
          /\ IF a1 = "ended" THEN UNCHANGED a1Vars
             ELSE a1' = "killed" /\ output' \in Flushed /\ Fresh
  /\ UNCHANGED <<diskVars, step, crashes, test, results, thread>>

Verdict ==
  /\ main \in {"join", "joinAgain"} /\ thread = "done"
  /\ Goes("grade")
  /\ results' = Append(results, [timeout |-> timeout,
                                 point |-> IF output = test.expected THEN 1 ELSE 0])
  /\ test' = NoTest /\ Idle
  /\ UNCHANGED <<diskVars, step, crashes>>

Grade ==
  /\ main = "grade" /\ Len(results) = Tests
  /\ Goes("graded")
  /\ UNCHANGED <<diskVars, step, crashes, test, results>> /\ TesterOnly

\* The tester is interrupted: its thread is gone, and what a1 still does changes
\* nothing.
Crash ==
  /\ main \notin {"graded", "failed", "down"} /\ crashes < MaxCrashes
  /\ crashes' = crashes + 1
  /\ Goes("down") /\ step' = 0 /\ test' = NoTest /\ results' = <<>>
  /\ Idle
  /\ tests' = IF saved = "whole" THEN tests ELSE {}
  /\ UNCHANGED <<seed, test_root, saved>>

Restart ==
  /\ main = "down"
  /\ Goes("load")
  /\ UNCHANGED <<diskVars, step, crashes, test, results>> /\ TesterOnly

Main == LoadTests \/ Generate \/ Perform \/ Verdict \/ Grade

Init ==
  /\ seed \in Seeds
  /\ main = "load" /\ step = 0 /\ test_root = <<>> /\ tests = {} /\ saved = "none" /\ crashes = 0
  /\ test = NoTest
  /\ results = <<>>
  /\ thread = "done" /\ timeout = FALSE
  /\ a1 = "none" /\ todo = {} /\ output = Answer(<<>>)
  /\ entry = Root /\ section = 0 /\ matching = 0 /\ lines = 0
  /\ at = 0 /\ left = 0 /\ unread = 0
  /\ current = 0 /\ reached = FALSE /\ line = <<>> /\ capacity = LineSize

Next == Main \/ TimeLimit \/ Crash \/ Restart \/ Thread \/ A1

Spec == Init /\ [][Next]_vars

\* Some program goes on if one can, and somebody starts the tester again; the time
\* limit need not strike.
FairSpec == Spec /\ WF_vars(Main \/ Restart \/ Thread \/ A1)
-----------------------------------------------------------------------------
\* Every test that meets no time limit gets its point: in every file system the
\* tester may build, for every command it may choose, and after every interruption
\* of an earlier session, a1 answers what parseFile() and perform_a1() found.  They
\* split what a1 scans backwards, in chunks, or counts, in chunks, up to a limit.
FullScore == \A i \in DOMAIN results : results[i].timeout \/ results[i].point = 1

\* a1 stays inside what it owns: the line it copies and its terminator fit into what
\* was allocated, the chunks into the section, and no name of an entry is shorter
\* than the ending it is compared with (which string_ends_with() does not check).
NothingOutside ==
  /\ Len(line) <= capacity
  /\ At("ended") /\ line # <<>> => Len(line) < capacity
  /\ At("scan") =>
       LET s == Node(Cmd.path).file.sections[section]
       IN  at - left = s.offset /\ at + unread <= s.offset + s.size
  /\ At("list") =>
       \A p \in todo : Len(Last(p)) >= Len(Cmd.name_ends_with)

\* A session that is not interrupted gives a grade, whatever was left of test_root;
\* only a tests.json that was cut off stops it, and any later one.
SessionEnds ==
  main = "load" /\ saved # "part" ~> main \in {"graded", "down"}
=============================================================================
