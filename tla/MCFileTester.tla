----------------------------- MODULE MCFileTester -----------------------------
(* Small files: ordinary sections have two to four lines of one or two        *)
(* characters (ten to twenty lines of twenty to a hundred) and fit into a     *)
(* chunk; huge ones have fewer lines than findall asks for, three (thirteen), *)
(* that are each longer than a chunk.  An ordinary line may fill result_line. *)
EXTENDS FileTester

Two == << <<"a", "b">>, <<"c">> >>
Three == << <<"c">>, <<"a", "b">>, <<"d">> >>
Four == << <<"a">>, <<"b">>, <<"d">>, <<"b", "a">> >>
LongLine(c) == [i \in 1..9 |-> IF i = 4 THEN "a" ELSE c]
OneHuge == << LongLine("b") >>
TwoHuge == << LongLine("b"), LongLine("c") >>

Draw(version, sectNr, first, rest, huge, perms) ==
  [version |-> version, sectNr |-> sectNr, first |-> first, rest |-> rest,
   huge |-> huge, perms |-> perms]

\* None, one, or all but one of the sections have three lines; both ends of the
\* versions; different and equal permissions, those of a directory among them.
MCDraws ==
  <<Draw(107, 3, Three, Two, OneHuge, <<256, 474>>),
    Draw(144, 4, Four, Three, TwoHuge, <<493, 421>>),
    Draw(120, 3, Two, Four, OneHuge, <<420, 420>>)>>

MCDirNames == << <<"d", "a", "b", "c">> >>
MCFileNames == << <<"x", "a", "b", "c">>, <<"y", "y", "b", "c">> >>
MCSectionTypes == <<33, 28, 38, 54>>
=============================================================================
