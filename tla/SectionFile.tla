------------------------------ MODULE SectionFile ------------------------------
(***************************************************************************)
(* The SF files of assignment 1: how its tester makes them, how the tester *)
(* reads them to find out what it should expect, and how a1.c decides      *)
(* whether it takes them.  What a1.c does byte by byte is in FileTester.   *)
(*                                                                         *)
(* A character is a model value, NL the line separator.  The header is     *)
(* kept as its fields, of which the name of a section is left out; the     *)
(* bytes it takes up are there, so that offsets mean something.            *)
(***************************************************************************)
EXTENDS Integers, SequencesExt

CONSTANTS
  VersionMin, VersionMax,  \* of a1_data.json
  SectMin, SectMax,        \* numbers of sections the tester makes
  SectionTypes,            \* the types of sections, as a sequence
  FixedSize, SectionSize,  \* bytes of a header: 11, and 24 for every section
  FindSections, FindLines, \* "s_sect_l_lines": so many sections of so many lines
  Zeros                    \* how many zeros are before a section

ASSUME SectionFileAssumption ==
  /\ {VersionMin, VersionMax, SectMin, SectMax} \subseteq Nat
  /\ 0 < VersionMin /\ VersionMin <= VersionMax /\ VersionMax < 256
  /\ 2 < SectMin /\ SectMin <= SectMax /\ 2 * SectMax < 256
  /\ SectionTypes \in Seq(Nat) /\ SectionTypes # <<>>
  /\ {FixedSize, SectionSize, FindSections, FindLines, Zeros} \subseteq Nat

NL == "nl"
-----------------------------------------------------------------------------
(* The tester makes a file: genSectionFile() *)

\* sep.join(body): `lines` one after the other, separated.
Joined(lines) ==
  FlattenSeq([i \in DOMAIN lines |-> IF i = 1 THEN lines[i] ELSE <<NL>> \o lines[i]])

HdrSize(n) == FixedSize + n * SectionSize

\* A version out of the range that one byte could hold as well, if it can be had.
Halved[v \in 0..2*VersionMax] == IF v < VersionMin THEN v ELSE Halved[v \div 2]
WrongVersion(v) ==
  LET w == v + VersionMax IN IF w > 255 THEN Halved[w] ELSE w

\* `wrong` says what is wrong with the file, if anything: "magic", "version",
\* "sect_nr", "sect_types".  The i-th body is that of the i-th section.  Bound: the types of
\* good sections, random ones, come in turn.
GenSectionFile(wrong, version, sectNr, body, perm) ==
  LET n == sectNr + IF wrong = "sect_nr" THEN SectMax ELSE 0
      type(i) == IF wrong = "sect_types" /\ i = (n \div 3) + 1
                 THEN Max(ToSet(SectionTypes)) + 2
                 ELSE SectionTypes[1 + (i % Len(SectionTypes))]
      part(i) == [j \in 1..Zeros |-> "zero"] \o Joined(body[i])
      before(i) == [j \in 1..HdrSize(n) |-> "header"]
                     \o FlattenSeq([j \in 1..i-1 |-> part(j)])
  IN  [magic    |-> wrong # "magic",
       version  |-> IF wrong = "version" THEN WrongVersion(version) ELSE version,
       sections |-> [i \in 1..n |-> [type   |-> type(i),
                                     offset |-> Len(before(i)) + Zeros,
                                     size   |-> Len(Joined(body[i]))]],
       content  |-> before(n + 1),
       perm     |-> perm]
-----------------------------------------------------------------------------
(* The tester reads a file: parseFile() *)

Bytes(file, offset, size) == SubSeq(file.content, offset + 1, offset + size)

\* split(): the pieces between separators.
Lines(bytes) ==
  LET cuts   == {0, Len(bytes) + 1} \cup {i \in DOMAIN bytes : bytes[i] = NL}
      cut(k) == CHOOSE c \in cuts : Cardinality({d \in cuts : d < c}) = k
  IN  [k \in 1..Cardinality(cuts)-1 |-> SubSeq(bytes, cut(k-1) + 1, cut(k) - 1)]

SectionLines(file, i) == Lines(Bytes(file, file.sections[i].offset, file.sections[i].size))

\* What parseFile() finds wrong with a file, in the order it looks.
Complaint(file) ==
  IF ~ file.magic THEN "wrong magic"
  ELSE IF file.version \notin VersionMin..VersionMax THEN "wrong version"
  ELSE IF Len(file.sections) \notin SectMin..SectMax THEN "wrong sect_nr"
  ELSE IF \E i \in DOMAIN file.sections :
            file.sections[i].type \notin ToSet(SectionTypes) THEN "wrong sect_types"
  ELSE "none"

Described(file) ==
  <<"SUCCESS", file.version, Len(file.sections)>>
    \o [i \in DOMAIN file.sections |-> <<file.sections[i].type, file.sections[i].size>>]

ParseFile(file) ==
  IF Complaint(file) = "none" THEN Described(file) ELSE <<"ERROR", Complaint(file)>>

\* Lines are counted from the end of a section and read backwards.
ParseLine(file, section, line) ==
  LET lines == SectionLines(file, section)
  IN  IF Complaint(file) # "none" THEN <<"ERROR", Complaint(file)>>
      ELSE IF section \notin DOMAIN file.sections THEN <<"ERROR", "inexistent file">>
      ELSE IF line \notin DOMAIN lines THEN <<"ERROR", "inexistent line">>
      ELSE <<"SUCCESS", Reverse(lines[Len(lines) + 1 - line])>>

ParseFound(file) ==
  /\ Complaint(file) = "none"
  /\ Cardinality({i \in DOMAIN file.sections :
                    Len(SectionLines(file, i)) = FindLines}) >= FindSections

\* What randomLine may choose in a file.
RandomLines(file) ==
  UNION {{i} \X DOMAIN SectionLines(file, i) : i \in DOMAIN file.sections}

\* The bits of a digit in the order of get_perm(), from the last digit to the first.
GetPerm(perm) ==
  LET flag(p, bit, c) == IF (p \div bit) % 2 # 0 THEN c ELSE "-"
      flags(p) == <<flag(p, 1, "x"), flag(p, 2, "w"), flag(p, 4, "r")>>
  IN  Reverse(flags(perm % 8) \o flags((perm \div 8) % 8) \o flags((perm \div 64) % 8))
-----------------------------------------------------------------------------
(* a1.c takes a file, or does not: validate_sf_file() *)

ValidateSfFile(file) ==
  LET n == Len(file.sections)
  IN  IF ~ file.magic THEN "wrong magic"
      ELSE IF file.version < VersionMin \/ file.version > VersionMax THEN "wrong version"
      ELSE IF n # 2 /\ (n < SectMin \/ n > SectMax) THEN "wrong sect_nr"
      ELSE IF \E i \in 1..n : file.sections[i].type \notin ToSet(SectionTypes)
           THEN "wrong sect_types"
      ELSE "valid"

\* test_permissions_match(): nine bits, S_IRUSR to S_IXOTH.
Masks == <<256, 128, 64, 32, 16, 8, 4, 2, 1>>
Permissions(mode) ==
  [k \in 1..9 |-> IF (mode \div Masks[k]) % 2 # 0 THEN <<"r", "w", "x">>[1 + ((k-1) % 3)]
                  ELSE "-"]
=============================================================================
