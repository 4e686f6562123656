--------------------------- MODULE FileTesterProofs ---------------------------
(***************************************************************************)
(* FullScore and NothingOutside, for every file system the tester builds   *)
(* and for every size of chunks, lines, headers and sections.              *)
(*                                                                         *)
(* The proof goes from the data to the programs: what a sequence of bytes  *)
(* contains; what genSectionFile() puts into a file and parseFile() takes  *)
(* out of it; what a1.c takes out of it, backwards and in chunks; the file *)
(* system of the tests and the commands chosen for it; and then the        *)
(* invariant of a1 and of the tester.                                      *)
(***************************************************************************)
EXTENDS FileTester, FiniteSetTheorems, SequenceTheorems, TLAPS

-----------------------------------------------------------------------------
(* Induction, and recursive functions *)

\* Induction over the natural numbers for a set instead of a predicate: it follows from
\* the fact that the finite subsets of a set, ordered by inclusion, are well-founded.
LEMMA LeastElement ==
  ASSUME NEW S \in SUBSET Nat, S # {}
  PROVE  \E n \in S : \A m \in S : n <= m
<1> DEFINE R == StrictSubsetOrdering(Nat)
           F == FiniteSubsetsOf(Nat)
           T == {1..n : n \in S}
<1>1. IsWellFoundedOn(R, F)
  BY FS_StrictSubsetOrderingWellFounded
<1>2. T \subseteq F
  BY FS_Interval, SMT DEF FiniteSubsetsOf
<1>3. T # {}
  OBVIOUS
<1> HIDE DEF R, F
<1>4. PICK I \in T : \A J \in T : ~ (<<J, I>> \in R)
  BY <1>1, <1>2, <1>3, WFMin
<1>5. PICK n \in S : I = 1..n
  BY <1>4
<1>6. ASSUME NEW m \in S, m < n PROVE FALSE
  <2>1. 1..m \in T
    OBVIOUS
  <2>2. <<1..m, 1..n>> \in R
    <3>1. 1..m \in SUBSET Nat /\ 1..n \in SUBSET Nat
      OBVIOUS
    <3>2. 1..m \subseteq 1..n /\ n \in 1..n /\ n \notin 1..m
      BY <1>5, <1>6
    <3> QED
      BY <3>1, <3>2, Zenon DEF R, StrictSubsetOrdering
  <2> QED
    BY <2>1, <2>2, <1>4, <1>5
<1> QED
  BY <1>5, <1>6

\* A set of numbers with 0 in it, and with every number the next one, has them all.
LEMMA Induction ==
  ASSUME NEW S \in SUBSET Nat, 0 \in S, \A n \in S : n + 1 \in S
  PROVE  S = Nat
<1> SUFFICES ASSUME Nat \ S # {} PROVE FALSE
  OBVIOUS
<1>1. PICK n \in Nat \ S : \A m \in Nat \ S : n <= m
  BY LeastElement
<1>2. n - 1 \in S
  BY <1>1
<1> QED
  BY <1>2, <1>1
-----------------------------------------------------------------------------
(* Sequences put together: FlattenSeq() *)

\* f[i] is the first i of the sequences s, one after the other, for i up to m.
Table(s, m, f) == f = [i \in 1..m |-> IF i = 1 THEN s[i] ELSE f[i-1] \o s[i]]

\* A table is continued by one entry.
LEMMA TableExtended ==
  ASSUME NEW s, NEW m \in Nat, NEW f, Table(s, m, f)
  PROVE  \E g : Table(s, m + 1, g)
<1> DEFINE g == [i \in 1..m+1 |-> IF i = 1 THEN s[i] ELSE f[i-1] \o s[i]]
<1>1. \A i \in 1..m : f[i] = IF i = 1 THEN s[i] ELSE f[i-1] \o s[i]
  BY DEF Table
<1>2. \A i \in 1..m : g[i] = f[i]
  BY <1>1
<1>3. ASSUME NEW i \in 1..m+1, i # 1 PROVE g[i-1] = f[i-1]
  <2>1. i - 1 \in 1..m
    BY <1>3
  <2> QED
    BY <2>1, <1>2
<1>4. Table(s, m + 1, g)
  BY <1>3 DEF Table
<1> QED
  BY <1>4

\* There is a table of any length.
LEMMA TableExists ==
  ASSUME NEW s, NEW n \in Nat
  PROVE  \E f : Table(s, n, f)
<1> DEFINE S == {m \in Nat : \E f : Table(s, m, f)}
<1>1. 0 \in S
  <2>1. Table(s, 0, <<>>)
    BY DEF Table
  <2> QED
    BY <2>1
<1>2. ASSUME NEW m \in S PROVE m + 1 \in S
  BY TableExtended
<1>3. S \in SUBSET Nat
  OBVIOUS
<1> HIDE DEF S
<1>4. S = Nat
  BY <1>1, <1>2, <1>3, Induction
<1> QED
  BY <1>4 DEF S

Alike(s, t, n) == \A i \in 1..n : s[i] = t[i]

\* Tables of sequences that begin alike agree.
LEMMA TableUnique ==
  ASSUME NEW s, NEW t, NEW m \in Nat, NEW n \in Nat, NEW f, NEW g,
         Table(s, m, f), Table(t, n, g), m <= n, Alike(s, t, m)
  PROVE  Alike(f, g, m)
<1> DEFINE S == {i \in Nat : i \in 1..m => f[i] = g[i]}
<1>1. \A i \in 1..m : /\ f[i] = IF i = 1 THEN s[i] ELSE f[i-1] \o s[i]
                      /\ g[i] = IF i = 1 THEN t[i] ELSE g[i-1] \o t[i]
  <2>1. \A i \in 1..m : f[i] = IF i = 1 THEN s[i] ELSE f[i-1] \o s[i]
    BY DEF Table
  <2>2. \A i \in 1..n : g[i] = IF i = 1 THEN t[i] ELSE g[i-1] \o t[i]
    BY DEF Table
  <2>3. \A i \in 1..m : i \in 1..n
    OBVIOUS
  <2> QED
    BY <2>1, <2>2, <2>3
<1>2. 0 \in S
  OBVIOUS
<1>3. ASSUME NEW i \in S PROVE i + 1 \in S
  <2> SUFFICES ASSUME i + 1 \in 1..m PROVE f[i+1] = g[i+1]
    OBVIOUS
  <2>1. CASE i = 0
    <3>1. s[1] = t[1] /\ 1 \in 1..m
      BY <2>1 DEF Alike
    <3> QED
      BY <1>1, <2>1, <3>1
  <2>2. CASE i # 0
    <3>1. f[i] = g[i] /\ i + 1 # 1 /\ (i + 1) - 1 = i
      BY <2>2
    <3>2. s[i+1] = t[i+1]
      BY DEF Alike
    <3> QED
      BY <1>1, <3>1, <3>2
  <2> QED
    BY <2>1, <2>2
<1>4. S \in SUBSET Nat
  OBVIOUS
<1> HIDE DEF S
<1>5. S = Nat
  BY <1>2, <1>3, <1>4, Induction
<1> QED
  BY <1>5 DEF S, Alike

\* FlattenSeq() is the last entry of any table.
LEMMA FlattenIs ==
  ASSUME NEW s, Len(s) \in Nat \ {0}, NEW f, Table(s, Len(s), f)
  PROVE  FlattenSeq(s) = f[Len(s)]
<1> DEFINE h == CHOOSE g : Table(s, Len(s), g)
<1>1. FlattenSeq(s) = h[Len(s)]
  BY Zenon DEF FlattenSeq, Table
<1>2. Table(s, Len(s), h)
  BY Zenon
<1> HIDE DEF h
<1> DEFINE n == Len(s)
<1>3. n \in Nat \ {0} /\ n \in 1..n /\ n <= n /\ Alike(s, s, n)
  BY DEF Alike
<1>4. Table(s, n, h) /\ Table(s, n, f)
  BY <1>2
<1> HIDE DEF n
<1>5. Alike(h, f, n)
  BY <1>3, <1>4, TableUnique
<1> QED
  BY <1>1, <1>3, <1>5 DEF Alike, n

\* A sequence and its last element.
LEMMA FrontAndLast ==
  ASSUME NEW T, NEW n \in Nat, NEW s \in Seq(T), Len(s) = n + 1
  PROVE  /\ SubSeq(s, 1, n) \in Seq(T) /\ Len(SubSeq(s, 1, n)) = n
         /\ s[n+1] \in T
         /\ \A i \in 1..n : SubSeq(s, 1, n)[i] = s[i]
         /\ s = Append(SubSeq(s, 1, n), s[n+1])
<1> DEFINE u == SubSeq(s, 1, n)
<1>1. u \in Seq(T) /\ Len(u) = n /\ s[n+1] \in T /\ \A i \in 1..n : u[i] = s[i]
  OBVIOUS
<1> HIDE DEF u
<1>2. Append(u, s[n+1]) \in Seq(T) /\ Len(Append(u, s[n+1])) = n + 1
  BY <1>1
<1>3. \A i \in 1..n+1 : Append(u, s[n+1])[i] = s[i]
  BY <1>1
<1>4. s = Append(u, s[n+1])
  BY <1>2, <1>3
<1> QED
  BY <1>1, <1>4 DEF u

\* FlattenSeq() of a sequence that goes on with one more.
LEMMA FlattenLonger ==
  ASSUME NEW n \in Nat, NEW s, NEW u, Len(s) = n, Len(u) = n + 1,
         \A i \in 1..n : s[i] = u[i]
  PROVE  FlattenSeq(u) = IF n = 0 THEN u[n+1] ELSE FlattenSeq(s) \o u[n+1]
<1>1. n + 1 \in Nat \ {0} /\ n + 1 \in 1..n+1 /\ (n + 1) - 1 = n
  OBVIOUS
<1>2. PICK f : Table(u, n + 1, f)
  BY <1>1, TableExists
<1>3. FlattenSeq(u) = f[n+1]
  BY <1>1, <1>2, FlattenIs
<1>4. f[n+1] = IF n = 0 THEN u[n+1] ELSE f[n] \o u[n+1]
  <2>1. f[n+1] = IF n + 1 = 1 THEN u[n+1] ELSE f[(n+1)-1] \o u[n+1]
    BY <1>1, <1>2 DEF Table
  <2>2. n + 1 = 1 <=> n = 0
    OBVIOUS
  <2> QED
    BY <1>1, <2>1, <2>2
<1>5. ASSUME n # 0 PROVE FlattenSeq(s) = f[n]
  <2>1. PICK g : Table(s, n, g)
    BY TableExists
  <2>2. FlattenSeq(s) = g[n]
    BY <1>5, <2>1, FlattenIs
  <2> DEFINE m == n + 1
  <2>3. n <= m /\ m \in Nat /\ n \in 1..n /\ Table(u, m, f)
    BY <1>2, <1>5
  <2> HIDE DEF m
  <2>4. Alike(s, u, n)
    BY Zenon DEF Alike
  <2>5. Alike(g, f, n)
    BY <2>1, <2>3, <2>4, TableUnique
  <2> QED
    BY <2>2, <2>3, <2>5 DEF Alike
<1> QED
  BY <1>3, <1>4, <1>5

\* FlattenSeq() of a sequence with one more at its end.
LEMMA FlattenAppend ==
  ASSUME NEW T, NEW s \in Seq(Seq(T)), NEW x \in Seq(T)
  PROVE  FlattenSeq(Append(s, x)) = IF s = <<>> THEN x ELSE FlattenSeq(s) \o x
<1> DEFINE n == Len(s)
           u == Append(s, x)
<1>1. /\ n \in Nat /\ n = Len(s) /\ Len(u) = n + 1 /\ u[n+1] = x
      /\ \A i \in 1..n : s[i] = u[i]
  OBVIOUS
<1>2. s = <<>> <=> n = 0
  OBVIOUS
<1> HIDE DEF u, n
<1>3. FlattenSeq(u) = IF n = 0 THEN u[n+1] ELSE FlattenSeq(s) \o u[n+1]
  BY <1>1, FlattenLonger, Zenon
<1> QED
  BY <1>1, <1>2, <1>3 DEF u

\* FlattenSeq() of nothing.
LEMMA FlattenEmpty == FlattenSeq(<<>>) = <<>>
BY DEF FlattenSeq

\* FlattenSeq() of sequences of T is one.
LEMMA FlattenType ==
  ASSUME NEW T, NEW s \in Seq(Seq(T))
  PROVE  FlattenSeq(s) \in Seq(T)
<1> DEFINE Typed(u) == FlattenSeq(u) \in Seq(T)
           S == {n \in Nat : \A u \in Seq(Seq(T)) : Len(u) = n => Typed(u)}
<1>1. 0 \in S
  <2> SUFFICES ASSUME NEW u \in Seq(Seq(T)), Len(u) = 0 PROVE Typed(u)
    OBVIOUS
  <2>1. u = <<>> /\ <<>> \in Seq(T)
    OBVIOUS
  <2> QED
    BY <2>1, FlattenEmpty, Zenon
<1>2. ASSUME NEW n \in S PROVE n + 1 \in S
  <2> SUFFICES ASSUME NEW u \in Seq(Seq(T)), Len(u) = n + 1 PROVE Typed(u)
    OBVIOUS
  <2> DEFINE v == SubSeq(u, 1, n)
  <2>1. v \in Seq(Seq(T)) /\ Len(v) = n /\ u[n+1] \in Seq(T) /\ u = Append(v, u[n+1])
    BY FrontAndLast, Zenon
  <2>2. FlattenSeq(v) \in Seq(T)
    BY <2>1
  <2> HIDE DEF v
  <2>3. FlattenSeq(u) = IF v = <<>> THEN u[n+1] ELSE FlattenSeq(v) \o u[n+1]
    BY <2>1, FlattenAppend, Zenon
  <2>4. FlattenSeq(v) \o u[n+1] \in Seq(T)
    BY <2>1, <2>2
  <2> QED
    BY <2>1, <2>3, <2>4, Zenon
<1>3. S \in SUBSET Nat
  OBVIOUS
<1> HIDE DEF S
<1>4. S = Nat
  BY <1>1, <1>2, <1>3, Induction
<1>5. Len(s) \in Nat
  OBVIOUS
<1> QED
  BY <1>4, <1>5 DEF S

\* The piece of a concatenation.
LEMMA ConcatPart ==
  ASSUME NEW T, NEW u \in Seq(T), NEW x \in Seq(T)
  PROVE  /\ SubSeq(u \o x, Len(u) + 1, Len(u) + Len(x)) = x
         /\ \A a \in 1..Len(u)+1, b \in 0..Len(u) : SubSeq(u \o x, a, b) = SubSeq(u, a, b)
<1> DEFINE w == u \o x
<1>1. /\ w \in Seq(T) /\ Len(w) = Len(u) + Len(x)
      /\ \A i \in 1..Len(u) : w[i] = u[i]
      /\ \A i \in 1..Len(x) : w[Len(u) + i] = x[i]
  OBVIOUS
<1> HIDE DEF w
<1>2. SubSeq(w, Len(u) + 1, Len(u) + Len(x)) = x
  <2> DEFINE v == SubSeq(w, Len(u) + 1, Len(u) + Len(x))
  <2>1. v \in Seq(T) /\ Len(v) = Len(x) /\ \A i \in 1..Len(x) : v[i] = w[Len(u) + i]
    BY <1>1
  <2> HIDE DEF v
  <2>2. v = x
    BY <1>1, <2>1
  <2> QED
    BY <2>2 DEF v
<1>3. ASSUME NEW a \in 1..Len(u)+1, NEW b \in 0..Len(u)
      PROVE  SubSeq(w, a, b) = SubSeq(u, a, b)
  <2>1. CASE a > b
    BY <1>1, <2>1
  <2>2. CASE a <= b
    <3> DEFINE v == SubSeq(w, a, b)
               y == SubSeq(u, a, b)
    <3>1. v \in Seq(T) /\ Len(v) = b - a + 1 /\ \A i \in 1..b-a+1 : v[i] = w[a + i - 1]
      BY <1>1, <2>2
    <3>2. y \in Seq(T) /\ Len(y) = b - a + 1 /\ \A i \in 1..b-a+1 : y[i] = u[a + i - 1]
      BY <1>1, <2>2
    <3>3. \A i \in 1..b-a+1 : a + i - 1 \in 1..Len(u)
      BY <1>1, <2>2
    <3> HIDE DEF v, y
    <3>4. \A i \in 1..b-a+1 : v[i] = y[i]
      BY <1>1, <3>1, <3>2, <3>3
    <3>5. Len(v) = Len(y) /\ \A i \in 1..Len(v) : v[i] = y[i]
      BY <3>1, <3>2, <3>4
    <3>6. v = y
      BY <3>1, <3>2, <3>5, SeqEqual, Zenon
    <3> QED
      BY <3>6 DEF v, y
  <2> QED
    BY <1>1, <2>1, <2>2
<1> QED
  BY <1>2, <1>3 DEF w

\* Every one of the sequences is found again, behind those before it.
FoundAgain(s, i) ==
  LET before == Len(FlattenSeq(SubSeq(s, 1, i - 1)))
  IN  SubSeq(FlattenSeq(s), before + 1, before + Len(s[i])) = s[i]
        /\ before + Len(s[i]) <= Len(FlattenSeq(s))

\* Every one of the sequences is found in the concatenation, behind those before it.
LEMMA FlattenPart ==
  ASSUME NEW T, NEW s \in Seq(Seq(T)), NEW k \in 1..Len(s)
  PROVE  FoundAgain(s, k)
<1> DEFINE S == {n \in Nat : \A u \in Seq(Seq(T)) :
                               Len(u) = n => \A i \in 1..n : FoundAgain(u, i)}
<1>1. 0 \in S
  OBVIOUS
<1>2. ASSUME NEW n \in S PROVE n + 1 \in S
  <2> SUFFICES ASSUME NEW u \in Seq(Seq(T)), Len(u) = n + 1, NEW i \in 1..n+1
               PROVE  FoundAgain(u, i)
    OBVIOUS
  <2> DEFINE v == SubSeq(u, 1, n)
             x == u[n+1]
             V == FlattenSeq(v)
             U == FlattenSeq(u)
  <2>1. /\ v \in Seq(Seq(T)) /\ Len(v) = n /\ x \in Seq(T) /\ u = Append(v, x)
        /\ \A j \in 1..n : v[j] = u[j]
    <3>1. v \in Seq(Seq(T)) /\ Len(v) = n /\ x \in Seq(T) /\ u = Append(v, x)
      BY FrontAndLast, Zenon
    <3>2. \A j \in 1..n : v[j] = u[j]
      BY FrontAndLast
    <3> QED
      BY <3>1, <3>2
  <2>2. V \in Seq(T) /\ U \in Seq(T)
    BY <2>1, FlattenType
  <2>3. U = V \o x
    <3> HIDE DEF v, x
    <3>1. U = IF v = <<>> THEN x ELSE V \o x
      BY <2>1, FlattenAppend, Zenon
    <3>2. v = <<>> => V = <<>>
      BY FlattenEmpty
    <3> HIDE DEF U, V
    <3>3. <<>> \o x = x
      BY <2>1
    <3> QED
      BY <3>1, <3>2, <3>3
  <2>4. CASE i = n + 1
    <3>1. SubSeq(u, 1, i - 1) = v
      BY <2>4
    <3> HIDE DEF v, x, U, V
    <3>2. SubSeq(U, Len(V) + 1, Len(V) + Len(x)) = x /\ Len(U) = Len(V) + Len(x)
      BY <2>1, <2>2, <2>3, ConcatPart
    <3>3. Len(V) \in Nat /\ Len(x) \in Nat
      BY <2>1, <2>2
    <3>4. Len(FlattenSeq(SubSeq(u, 1, i - 1))) = Len(V) /\ u[i] = x
      BY <2>4, <3>1 DEF x, V
    <3>5. Len(V) + Len(x) <= Len(U)
      BY <3>2, <3>3
    <3> QED
      BY <3>2, <3>4, <3>5, Zenon DEF FoundAgain, U
  <2>5. CASE i # n + 1
    <3>1. i \in 1..n
      BY <2>5
    <3>2. SubSeq(u, 1, i - 1) = SubSeq(v, 1, i - 1)
      BY <2>1, <3>1
    <3>3. v[i] = u[i]
      BY <2>1, <3>1
    <3>4. FoundAgain(v, i)
      BY <2>1, <3>1
    <3> DEFINE b == Len(FlattenSeq(SubSeq(v, 1, i - 1)))
    <3>5. b \in Nat
      <4>1. SubSeq(v, 1, i - 1) \in Seq(Seq(T))
        BY <2>1, <3>1
      <4>2. FlattenSeq(SubSeq(v, 1, i - 1)) \in Seq(T)
        BY <4>1, FlattenType
      <4> QED
        BY <4>2
    <3>6. u[i] \in Seq(T)
      BY <3>1
    <3>7. SubSeq(V, b + 1, b + Len(u[i])) = u[i] /\ b + Len(u[i]) <= Len(V)
      BY <3>3, <3>4 DEF FoundAgain
    <3> HIDE DEF v, x, U, V, b
    <3>8. Len(u[i]) \in Nat /\ Len(V) \in Nat /\ Len(U) = Len(V) + Len(x) /\ Len(x) \in Nat
      BY <2>1, <2>2, <2>3, <3>6
    <3>9. SubSeq(U, b + 1, b + Len(u[i])) = SubSeq(V, b + 1, b + Len(u[i]))
      <4>1. b + 1 \in 1..Len(V)+1 /\ b + Len(u[i]) \in 0..Len(V)
        BY <3>5, <3>7, <3>8
      <4>2. \A c \in 1..Len(V)+1, d \in 0..Len(V) : SubSeq(V \o x, c, d) = SubSeq(V, c, d)
        BY <2>1, <2>2, ConcatPart
      <4> QED
        BY <2>3, <4>1, <4>2, Zenon
    <3>10. b + Len(u[i]) <= Len(U)
      BY <3>5, <3>7, <3>8
    <3> QED
      BY <3>2, <3>7, <3>9, <3>10 DEF FoundAgain, U, b
  <2> QED
    BY <2>4, <2>5
<1>3. S \in SUBSET Nat
  OBVIOUS
<1> HIDE DEF S
<1>4. S = Nat
  BY <1>1, <1>2, <1>3, Induction
<1>5. Len(s) \in Nat
  OBVIOUS
<1> QED
  BY <1>4, <1>5 DEF S

-----------------------------------------------------------------------------
(* Separators counted in pieces *)

\* How many of the n characters behind the first o are separators.
Among(s, o, n) == {j \in 1..n : s[o + j] = NL}
Count(s, o, n) == Cardinality(Among(s, o, n))

\* Separators can be counted.
LEMMA AmongFinite ==
  ASSUME NEW s, NEW o \in Nat, NEW n \in Nat
  PROVE  IsFiniteSet(Among(s, o, n)) /\ Count(s, o, n) \in Nat
<1>1. IsFiniteSet(1..n) /\ Among(s, o, n) \in SUBSET (1..n)
  BY FS_Interval DEF Among
<1>2. IsFiniteSet(Among(s, o, n))
  BY <1>1, FS_Subset, Zenon
<1> QED
  BY <1>2, FS_CardinalityType, Zenon DEF Count

CountAdds(s, o, n, m) == Count(s, o, n + m) = Count(s, o, n) + Count(s, o + n, m)

\* The separators in a piece are those in its two parts.
LEMMA CountSum ==
  ASSUME NEW s, NEW o \in Nat, NEW n \in Nat, NEW m \in Nat
  PROVE  CountAdds(s, o, n, m)
<1> DEFINE A == Among(s, o, n)
           B == Among(s, o + n, m)
           C == {n + j : j \in B}
           f == [j \in B |-> n + j]
<1>1. IsFiniteSet(A) /\ IsFiniteSet(B) /\ Cardinality(A) \in Nat /\ Cardinality(B) \in Nat
  BY AmongFinite DEF Count
<1>2. B \subseteq Nat
  BY DEF Among
<1>3. f \in Bijection(B, C)
  <2>1. f \in Injection(B, C)
    BY <1>2 DEF Injection, IsInjective
  <2>2. f \in Surjection(B, C)
    BY DEF Surjection
  <2> QED
    BY <2>1, <2>2 DEF Bijection
<1>4. IsFiniteSet(C) /\ Cardinality(C) = Cardinality(B)
  <2> HIDE DEF B, C, f
  <2>1. ExistsBijection(B, C)
    BY <1>3, Zenon DEF ExistsBijection
  <2> QED
    BY <1>1, <2>1, FS_Bijection
<1>5. A \cap C = {}
  BY DEF Among
<1>6. Among(s, o, n + m) = A \cup C
  <2>1. ASSUME NEW j \in Among(s, o, n + m) PROVE j \in A \cup C
    <3>1. j \in 1..n+m /\ s[o + j] = NL
      BY <2>1 DEF Among
    <3>2. CASE j <= n
      BY <3>1, <3>2 DEF Among
    <3>3. CASE j > n
      <4>1. j - n \in 1..m /\ (o + n) + (j - n) = o + j /\ n + (j - n) = j
        BY <3>1, <3>3
      <4>2. j - n \in B
        BY <3>1, <4>1 DEF Among
      <4> QED
        BY <4>1, <4>2
    <3>4. j <= n \/ j > n
      BY <3>1
    <3> QED
      BY <3>2, <3>3, <3>4, Zenon
  <2>2. ASSUME NEW j \in A PROVE j \in Among(s, o, n + m)
    BY DEF Among
  <2>3. ASSUME NEW j \in B PROVE n + j \in Among(s, o, n + m)
    <3>1. j \in 1..m /\ s[(o + n) + j] = NL
      BY DEF Among
    <3>2. n + j \in 1..n+m /\ (o + n) + j = o + (n + j)
      BY <3>1
    <3> QED
      BY <3>1, <3>2 DEF Among
  <2> QED
    BY <2>1, <2>2, <2>3
<1>7. Cardinality(A \cup C) = Cardinality(A) + Cardinality(C) - Cardinality(A \cap C)
  BY <1>1, <1>4, FS_Union, Zenon
<1>8. Cardinality(A \cap C) = 0
  BY <1>5, FS_EmptySet
<1>9. /\ Count(s, o, n + m) = Cardinality(A \cup C)
      /\ Count(s, o, n) = Cardinality(A) /\ Count(s, o + n, m) = Cardinality(B)
  BY <1>6 DEF Count
<1> HIDE DEF A, B, C
<1> QED
  BY <1>1, <1>4, <1>7, <1>8, <1>9 DEF CountAdds

\* The same for a piece at the beginning.
LEMMA CountStart ==
  ASSUME NEW s, NEW n \in Nat, NEW m \in Nat
  PROVE  Count(s, 0, n + m) = Count(s, 0, n) + Count(s, n, m)
<1>1. Count(s, 0, n + m) = Count(s, 0, n) + Count(s, 0 + n, m)
  BY CountSum DEF CountAdds
<1>2. 0 + n = n
  OBVIOUS
<1> QED
  BY <1>1, <1>2

\* Of one sequence after another, of a piece of the bytes of a file.
LEMMA SeparatorsAre ==
  ASSUME NEW T, NEW s \in Seq(T)
  PROVE  Separators(s) = Count(s, 0, Len(s)) /\ Separators(s) \in Nat
<1>1. Len(s) \in Nat /\ DOMAIN s = 1..Len(s)
  OBVIOUS
<1>2. {j \in DOMAIN s : s[j] = NL} = Among(s, 0, Len(s))
  BY <1>1 DEF Among
<1> QED
  BY <1>1, <1>2, AmongFinite DEF Separators, Count

\* The separators in two sequences, one after the other.
LEMMA SeparatorsConcat ==
  ASSUME NEW T, NEW u \in Seq(T), NEW x \in Seq(T)
  PROVE  Separators(u \o x) = Separators(u) + Separators(x)
<1> DEFINE w == u \o x
           n == Len(u)
           m == Len(x)
<1>1. /\ w \in Seq(T) /\ Len(w) = n + m /\ n \in Nat /\ m \in Nat
      /\ \A i \in 1..n : w[i] = u[i]
      /\ \A i \in 1..m : w[n + i] = x[i]
  OBVIOUS
<1>2. /\ Separators(w) = Count(w, 0, n + m) /\ Separators(u) = Count(u, 0, n)
      /\ Separators(x) = Count(x, 0, m)
  <2>1. /\ Separators(w) = Count(w, 0, Len(w)) /\ Separators(u) = Count(u, 0, n)
        /\ Separators(x) = Count(x, 0, m)
    BY <1>1, SeparatorsAre, Zenon
  <2> QED
    BY <1>1, <2>1
<1> HIDE DEF w, n, m
<1>3. Count(w, 0, n + m) = Count(w, 0, n) + Count(w, n, m)
  BY <1>1, CountStart, Zenon
<1>4. Among(w, 0, n) = Among(u, 0, n)
  BY <1>1 DEF Among
<1>5. Among(w, n, m) = Among(x, 0, m)
  BY <1>1 DEF Among
<1> QED
  BY <1>2, <1>3, <1>4, <1>5 DEF Count, w
-----------------------------------------------------------------------------
(* A section that genSectionBody() makes: Joined() *)

\* The provers do not know that a literal is in STRING.
Char == STRING \cup {NL, "zero", "header"}
Body == Seq(Seq(STRING \ {NL}))
Pieces(body) == [i \in DOMAIN body |-> IF i = 1 THEN body[i] ELSE <<NL>> \o body[i]]

\* The lines with their separators are sequences of characters.
LEMMA PiecesType ==
  ASSUME NEW body \in Body
  PROVE  Pieces(body) \in Seq(Seq(Char)) /\ Len(Pieces(body)) = Len(body)
<1>1. Len(body) \in Nat /\ DOMAIN body = 1..Len(body)
  BY DEF Body
<1>2. ASSUME NEW i \in 1..Len(body)
      PROVE  /\ body[i] \in Seq(Char)
             /\ <<NL>> \o body[i] \in Seq(Char)
  <2>1. body[i] \in Seq(STRING \ {NL})
    BY DEF Body
  <2>2. body[i] \in Seq(Char)
    <3>1. STRING \ {NL} \subseteq Char
      BY DEF Char
    <3> HIDE DEF Char
    <3> QED
      BY <2>1, <3>1, SeqMonotonic, Zenon
  <2>3. <<NL>> \in Seq(Char)
    BY DEF Char
  <2> QED
    BY <2>2, <2>3
<1>3. \A i \in 1..Len(body) : Pieces(body)[i] \in Seq(Char)
  BY <1>1, <1>2 DEF Pieces
<1>4. Pieces(body) = [i \in 1..Len(body) |-> Pieces(body)[i]]
  BY <1>1 DEF Pieces
<1> QED
  BY <1>1, <1>3, <1>4

\* The body of a section is a sequence of characters.
LEMMA JoinedType ==
  ASSUME NEW body \in Body
  PROVE  Joined(body) \in Seq(Char) /\ Joined(body) = FlattenSeq(Pieces(body))
<1>1. Joined(body) = FlattenSeq(Pieces(body))
  BY DEF Joined, Pieces
<1> QED
  BY <1>1, PiecesType, FlattenType

\* Lines without a separator in them are as many as there are separators, and one more.
LEMMA JoinedLines ==
  ASSUME NEW b \in Body, b # <<>>
  PROVE  Separators(Joined(b)) = Len(b) - 1
<1> DEFINE Counts(n, u) == Separators(Joined(u)) = n
           S == {n \in Nat : \A u \in Body : Len(u) = n + 1 => Counts(n, u)}
<1>1. ASSUME NEW n \in Nat, NEW u \in Body, Len(u) = n + 1,
             NEW v \in Body, v = SubSeq(u, 1, n), Len(v) = n
      PROVE  Separators(Joined(u)) = IF n = 0 THEN 0 ELSE Separators(Joined(v)) + 1
  <2> DEFINE x == u[n+1]
             P == Pieces(u)
             y == P[n+1]
  <2>1. x \in Seq(STRING \ {NL}) /\ x \in Seq(Char) /\ \A i \in 1..n : v[i] = u[i]
    <3>1. STRING \ {NL} \subseteq Char
      BY DEF Char
    <3>2. x \in Seq(STRING \ {NL}) /\ \A i \in 1..n : v[i] = u[i]
      BY <1>1 DEF Body
    <3> QED
      BY <3>1, <3>2, SeqMonotonic, Zenon
  <2>2. Separators(x) = 0
    <3>1. {j \in DOMAIN x : x[j] = NL} = {}
      BY <2>1
    <3> QED
      BY <3>1, FS_EmptySet DEF Separators
  <2>3. y = IF n = 0 THEN x ELSE <<NL>> \o x
    <3>1. n + 1 \in DOMAIN u /\ (n + 1 = 1 <=> n = 0)
      BY <1>1 DEF Body
    <3> QED
      BY <3>1 DEF Pieces
  <2>4. <<NL>> \in Seq(Char) /\ Separators(<<NL>>) = 1
    <3>1. <<NL>> \in Seq(Char)
      BY DEF Char
    <3>2. {j \in DOMAIN <<NL>> : <<NL>>[j] = NL} = {1}
      OBVIOUS
    <3> QED
      BY <3>1, <3>2, FS_Singleton DEF Separators
  <2>5. n # 0 => y \in Seq(Char) /\ Separators(y) = 1
    <3>1. <<NL>> \o x \in Seq(Char)
      BY <2>1, <2>4
    <3>2. Separators(<<NL>> \o x) = Separators(<<NL>>) + Separators(x)
      BY <2>1, <2>4, SeparatorsConcat, Zenon
    <3> HIDE DEF x, y
    <3> QED
      BY <2>2, <2>3, <2>4, <3>1, <3>2
  <2>6. P \in Seq(Seq(Char)) /\ Len(P) = n + 1 /\ Pieces(v) \in Seq(Seq(Char)) /\ Len(Pieces(v)) = n
    BY <1>1, PiecesType
  <2>7. \A i \in 1..n : Pieces(v)[i] = P[i]
    <3>1. \A i \in 1..n : i \in DOMAIN u /\ i \in DOMAIN v
      BY <1>1 DEF Body
    <3> QED
      BY <2>1, <3>1 DEF Pieces
  <2>8. Joined(u) = IF n = 0 THEN y ELSE Joined(v) \o y
    <3>1. FlattenSeq(P) = IF n = 0 THEN P[n+1] ELSE FlattenSeq(Pieces(v)) \o P[n+1]
      BY <2>6, <2>7, FlattenLonger, Zenon
    <3> QED
      BY <1>1, <3>1, JoinedType, Zenon
  <2>9. Joined(v) \in Seq(Char)
    BY <1>1, JoinedType
  <2> HIDE DEF x, y, P
  <2>10. n # 0 => Separators(Joined(v) \o y) = Separators(Joined(v)) + 1
    BY <2>5, <2>9, SeparatorsConcat
  <2> QED
    BY <2>2, <2>3, <2>8, <2>10
<1>2. 0 \in S
  <2> SUFFICES ASSUME NEW u \in Body, Len(u) = 1 PROVE Separators(Joined(u)) = 0
    OBVIOUS
  <2> DEFINE v == SubSeq(u, 1, 0)
  <2>1. v \in Body /\ Len(v) = 0 /\ 0 \in Nat /\ Len(u) = 0 + 1
    BY DEF Body
  <2> QED
    BY <1>1, <2>1, Zenon
<1>3. ASSUME NEW n \in S PROVE n + 1 \in S
  <2> SUFFICES ASSUME NEW u \in Body, Len(u) = n + 2 PROVE Separators(Joined(u)) = n + 1
    OBVIOUS
  <2> DEFINE v == SubSeq(u, 1, n + 1)
  <2>1. v \in Body /\ Len(v) = n + 1
    BY DEF Body
  <2>2. Separators(Joined(v)) = n
    BY <2>1
  <2>3. n + 1 \in Nat /\ Len(u) = (n + 1) + 1 /\ n + 1 # 0
    OBVIOUS
  <2>4. Separators(Joined(u)) = Separators(Joined(v)) + 1
    BY <1>1, <2>1, <2>3, Zenon
  <2> QED
    BY <2>2, <2>4
<1>4. S \in SUBSET Nat
  OBVIOUS
<1> HIDE DEF S
<1>5. S = Nat
  BY <1>2, <1>3, <1>4, Induction
<1>6. Len(b) - 1 \in Nat /\ Len(b) = (Len(b) - 1) + 1
  BY DEF Body
<1> QED
  BY <1>5, <1>6 DEF S

-----------------------------------------------------------------------------
(* A file that the tester makes: genSectionFile() *)

Piece(b) == [j \in 1..Zeros |-> "zero"] \o Joined(b)
PiecesTo(body, k) == [j \in 1..k |-> Piece(body[j])]
Header(n) == [j \in 1..HdrSize(n) |-> "header"]
Before(n, body, i) == Header(n) \o FlattenSeq(PiecesTo(body, i - 1))

\* The sections of a file hold the bodies they are made of.
Holds(f, n, body) ==
  /\ Len(f.sections) = n /\ DOMAIN f.sections = 1..n
  /\ f.content \in Seq(Char)
  /\ \A i \in 1..n :
       /\ f.sections[i].offset \in Nat
       /\ f.sections[i].offset + f.sections[i].size <= Len(f.content)
       /\ f.sections[i].size = Len(Joined(body[i]))
       /\ Bytes(f, f.sections[i].offset, f.sections[i].size) = Joined(body[i])

\* A section with its zeros is a sequence of characters.
LEMMA PieceType ==
  ASSUME NEW b \in Body
  PROVE  /\ Piece(b) \in Seq(Char) /\ Len(Piece(b)) = Zeros + Len(Joined(b))
         /\ Len(Joined(b)) \in Nat /\ Zeros \in Nat
         /\ \A x \in 1..Len(Joined(b)) : Piece(b)[Zeros + x] = Joined(b)[x]
<1> DEFINE z == [j \in 1..Zeros |-> "zero"]
           J == Joined(b)
<1>1. J \in Seq(Char)
  BY JoinedType
<1>2. Zeros \in Nat
  BY SectionFileAssumption
<1>3. z \in Seq(Char) /\ Len(z) = Zeros
  <2>1. "zero" \in Char
    BY DEF Char
  <2> QED
    BY <1>2, <2>1
<1> HIDE DEF z, J
<1>4. /\ z \o J \in Seq(Char) /\ Len(z \o J) = Zeros + Len(J) /\ Len(J) \in Nat
      /\ \A x \in 1..Len(J) : (z \o J)[Zeros + x] = J[x]
  BY <1>1, <1>2, <1>3
<1> QED
  BY <1>2, <1>4 DEF Piece, z, J

\* What is before a section is a sequence of characters, as long as genSectionFile() has counted.
LEMMA BeforeType ==
  ASSUME NEW n \in Nat, NEW body, \A i \in 1..n : body[i] \in Body, NEW k \in 0..n
  PROVE  /\ PiecesTo(body, k) \in Seq(Seq(Char)) /\ Len(PiecesTo(body, k)) = k
         /\ FlattenSeq(PiecesTo(body, k)) \in Seq(Char)
         /\ Header(n) \in Seq(Char) /\ Len(Header(n)) \in Nat
<1>1. \A j \in 1..k : Piece(body[j]) \in Seq(Char)
  BY PieceType
<1>2. PiecesTo(body, k) \in Seq(Seq(Char)) /\ Len(PiecesTo(body, k)) = k
  BY <1>1 DEF PiecesTo
<1>3. HdrSize(n) \in Nat
  <2>1. FixedSize \in Nat /\ SectionSize \in Nat
    BY SectionFileAssumption
  <2>2. n * SectionSize \in Nat
    BY <2>1
  <2> QED
    BY <2>1, <2>2 DEF HdrSize
<1>4. "header" \in Char
  BY DEF Char
<1>5. Header(n) \in Seq(Char)
  BY <1>3, <1>4 DEF Header
<1>6. Len(Header(n)) \in Nat
  BY <1>5
<1> QED
  BY <1>2, <1>5, <1>6, FlattenType

\* The i-th section is where its header says.
LEMMA SectionFound ==
  ASSUME NEW n \in Nat, NEW body, \A i \in 1..n : body[i] \in Body, NEW i \in 1..n,
         NEW f, f.content = Before(n, body, n + 1)
  PROVE  LET offset == Len(Before(n, body, i)) + Zeros
             J == Joined(body[i])
         IN  /\ offset \in Nat /\ offset + Len(J) <= Len(f.content)
             /\ Bytes(f, offset, Len(J)) = J
             /\ f.content \in Seq(Char)
<1> DEFINE H == Header(n)
           s == PiecesTo(body, n)
           W == FlattenSeq(s)
           P == FlattenSeq(PiecesTo(body, i - 1))
           h == Len(H)
           p == Len(P)
           J == Joined(body[i])
           x == Piece(body[i])
           c == f.content
           offset == Len(Before(n, body, i)) + Zeros
<1>1. /\ H \in Seq(Char) /\ h \in Nat /\ s \in Seq(Seq(Char)) /\ Len(s) = n
      /\ W \in Seq(Char) /\ P \in Seq(Char)
  <2>1. n \in 0..n /\ i - 1 \in 0..n
    OBVIOUS
  <2>2. H \in Seq(Char) /\ h \in Nat /\ s \in Seq(Seq(Char)) /\ Len(s) = n /\ W \in Seq(Char)
    BY <2>1, BeforeType, Zenon
  <2>3. P \in Seq(Char)
    BY <2>1, BeforeType, Zenon
  <2> QED
    BY <2>2, <2>3
<1>2. s[i] = x /\ SubSeq(s, 1, i - 1) = PiecesTo(body, i - 1)
  <2>1. s[i] = x
    BY DEF PiecesTo
  <2>2. PiecesTo(body, i - 1) = [j \in 1..i-1 |-> s[j]]
    BY DEF PiecesTo
  <2>3. SubSeq(s, 1, i - 1) = [j \in 1..i-1 |-> s[j]]
    <3> HIDE DEF s
    <3> QED
      BY <1>1
  <2> QED
    BY <2>1, <2>2, <2>3, Zenon
<1>3. /\ x \in Seq(Char) /\ Len(x) = Zeros + Len(J) /\ Len(J) \in Nat /\ Zeros \in Nat
      /\ \A y \in 1..Len(J) : x[Zeros + y] = J[y]
  BY PieceType
<1>4. J \in Seq(Char)
  BY JoinedType
<1>5. SubSeq(W, p + 1, p + Len(x)) = x /\ p + Len(x) <= Len(W)
  <2>1. FoundAgain(s, i)
    BY <1>1, FlattenPart
  <2> QED
    BY <1>2, <2>1, Zenon DEF FoundAgain
<1>6. c = H \o W
  <2>1. (n + 1) - 1 = n
    OBVIOUS
  <2> QED
    BY <2>1 DEF Before
<1>7. offset = Len(H \o P) + Zeros
  BY DEF Before
<1> HIDE DEF H, s, W, P, J, x, c, offset
<1>8. p \in Nat /\ offset = h + p + Zeros /\ offset \in Nat
  BY <1>1, <1>3, <1>7
<1> HIDE DEF h, p
<1>9. \A y \in 1..Len(x) : W[p + y] = x[y]
  <2> DEFINE V == SubSeq(W, p + 1, p + Len(x))
  <2>1. \A y \in 1..Len(x) : V[y] = W[p + y]
    BY <1>1, <1>3, <1>8
  <2>2. V = x
    BY <1>5
  <2> QED
    BY <2>1, <2>2
<1>10. /\ c \in Seq(Char) /\ Len(c) = h + Len(W)
       /\ \A y \in 1..Len(W) : c[h + y] = W[y]
  BY <1>1, <1>6 DEF h
<1>11. \A y \in 1..Len(J) : c[offset + y] = J[y]
  <2> TAKE y \in 1..Len(J)
  <2>1. /\ Zeros + y \in 1..Len(x) /\ p + (Zeros + y) \in 1..Len(W)
        /\ offset + y = h + (p + (Zeros + y))
    BY <1>1, <1>3, <1>5, <1>8
  <2> QED
    BY <1>3, <1>9, <1>10, <2>1
<1>12. offset + Len(J) <= Len(c)
  <2>1. Len(W) \in Nat /\ Len(c) = h + Len(W)
    BY <1>1, <1>10
  <2>2. offset + Len(J) = h + (p + Len(x)) /\ p + Len(x) \in Nat /\ h \in Nat
    BY <1>1, <1>3, <1>8
  <2> DEFINE a == Len(W)
             b == p + Len(x)
  <2>3. a \in Nat /\ b \in Nat /\ b <= a /\ h \in Nat
    BY <1>5, <2>1, <2>2
  <2> HIDE DEF a, b
  <2>4. h + b <= h + a
    BY <2>3
  <2> QED
    BY <2>1, <2>2, <2>4 DEF a, b
<1>13. SubSeq(c, offset + 1, offset + Len(J)) = J
  <2> DEFINE V == SubSeq(c, offset + 1, offset + Len(J))
  <2>1. V \in Seq(Char) /\ Len(V) = Len(J) /\ \A y \in 1..Len(J) : V[y] = c[offset + y]
    <3> DEFINE m == Len(J)
               lo == offset + 1
               hi == offset + m
    <3>0. m \in Nat /\ offset \in Nat
      BY <1>3, <1>8
    <3> HIDE DEF m
    <3>1. lo \in Int /\ hi \in Int /\ hi - lo + 1 = m /\ (lo <= hi <=> m # 0)
      BY <3>0
    <3>2. \A y \in lo..hi : y \in 1..Len(c)
      <4>1. offset + m <= Len(c)
        BY <1>12 DEF m
      <4>2. Len(c) \in Nat
        BY <1>10
      <4> QED
        BY <3>0, <4>1, <4>2
    <3>3. \A y \in lo..hi : c[y] \in Char
      BY <1>10, <3>2, ElementOfSeq
    <3> HIDE DEF lo, hi
    <3>4. /\ SubSeq(c, lo, hi) \in Seq(Char)
          /\ Len(SubSeq(c, lo, hi)) = IF lo <= hi THEN hi - lo + 1 ELSE 0
          /\ \A y \in 1..hi-lo+1 : SubSeq(c, lo, hi)[y] = c[lo + y - 1]
      BY <3>1, <3>3, SubSeqProperties
    <3>5. \A y \in 1..m : lo + y - 1 = offset + y
      BY <3>0 DEF lo
    <3>6. Len(SubSeq(c, lo, hi)) = m
      BY <3>0, <3>1, <3>4
    <3>7. V = SubSeq(c, lo, hi)
      BY DEF lo, hi, m
    <3>8. \A y \in 1..m : V[y] = c[offset + y]
      BY <3>1, <3>4, <3>5, <3>7
    <3> QED
      BY <3>4, <3>6, <3>7, <3>8 DEF m
  <2> HIDE DEF V
  <2>2. V = J
    BY <1>4, <1>11, <2>1, SeqEqual
  <2> QED
    BY <2>2 DEF V
<1> QED
  BY <1>8, <1>10, <1>12, <1>13 DEF Bytes, J, c, offset

\* All sections of a file of genSectionFile() are where its header says.
LEMMA FileHolds ==
  ASSUME NEW wrong, NEW version, NEW sectNr \in Nat, NEW perm, NEW n \in Nat,
         n = sectNr + IF wrong = "sect_nr" THEN SectMax ELSE 0,
         NEW body, \A i \in 1..n : body[i] \in Body
  PROVE  Holds(GenSectionFile(wrong, version, sectNr, body, perm), n, body)
<1> DEFINE f == GenSectionFile(wrong, version, sectNr, body, perm)
<1>1. /\ DOMAIN f.sections = 1..n
      /\ \A i \in 1..n :
           /\ f.sections[i].offset = Len(Before(n, body, i)) + Zeros
           /\ f.sections[i].size = Len(Joined(body[i]))
      /\ f.content = Before(n, body, n + 1)
  BY DEF GenSectionFile, Before, PiecesTo, Piece, Header
<1>2. Len(f.sections) = n
  <2>1. f.sections = [i \in 1..n |-> f.sections[i]]
    BY DEF GenSectionFile
  <2> HIDE DEF f
  <2> QED
    BY <2>1
<1> HIDE DEF f
<1>3. ASSUME NEW i \in 1..n
      PROVE  /\ f.sections[i].offset \in Nat
             /\ f.sections[i].offset + f.sections[i].size <= Len(f.content)
             /\ Bytes(f, f.sections[i].offset, f.sections[i].size) = Joined(body[i])
  <2> DEFINE offset == Len(Before(n, body, i)) + Zeros
             J == Joined(body[i])
  <2>1. offset \in Nat /\ offset + Len(J) <= Len(f.content) /\ Bytes(f, offset, Len(J)) = J
    BY <1>1, SectionFound, Zenon
  <2> HIDE DEF J
  <2> QED
    BY <1>1, <2>1 DEF J
<1>4. f.content \in Seq(Char)
  <2>1. n + 1 \in 1..n+1 /\ n \in 0..n /\ (n + 1) - 1 = n
    OBVIOUS
  <2>2. FlattenSeq(PiecesTo(body, n)) \in Seq(Char) /\ Header(n) \in Seq(Char)
    BY <2>1, BeforeType, Zenon
  <2>3. Header(n) \o FlattenSeq(PiecesTo(body, n)) \in Seq(Char)
    BY <2>2
  <2> QED
    BY <1>1, <2>1, <2>3 DEF Before
<1> QED
  BY <1>1, <1>2, <1>3, <1>4 DEF Holds, f

-----------------------------------------------------------------------------
(* What is read of a file: parseFile(), and what a1.c takes *)

\* The characters of a piece of a file.
LEMMA BytesAre ==
  ASSUME NEW T, NEW f, f.content \in Seq(T), NEW a \in Nat, NEW n \in Nat,
         a + n <= Len(f.content)
  PROVE  /\ Bytes(f, a, n) \in Seq(T) /\ Len(Bytes(f, a, n)) = n
         /\ \A y \in 1..n : Bytes(f, a, n)[y] = f.content[a + y]
<1> DEFINE c == f.content
           lo == a + 1
           hi == a + n
<1>1. /\ lo \in Int /\ hi \in Int /\ hi - lo + 1 = n /\ (lo <= hi <=> n # 0)
      /\ \A y \in lo..hi : y \in 1..Len(c)
  <2>1. Len(c) \in Nat
    OBVIOUS
  <2> QED
    BY <2>1
<1>2. \A y \in lo..hi : c[y] \in T
  BY <1>1, ElementOfSeq
<1>3. \A y \in 1..n : lo + y - 1 = a + y
  OBVIOUS
<1>4. Bytes(f, a, n) = SubSeq(c, lo, hi)
  BY DEF Bytes
<1> HIDE DEF lo, hi, c
<1>5. /\ SubSeq(c, lo, hi) \in Seq(T)
      /\ Len(SubSeq(c, lo, hi)) = IF lo <= hi THEN hi - lo + 1 ELSE 0
      /\ \A y \in 1..hi-lo+1 : SubSeq(c, lo, hi)[y] = c[lo + y - 1]
  BY <1>1, <1>2, SubSeqProperties
<1>6. Len(SubSeq(c, lo, hi)) = n
  BY <1>1, <1>5
<1>7. \A y \in 1..n : SubSeq(c, lo, hi)[y] = c[a + y]
  BY <1>1, <1>3, <1>5
<1> QED
  BY <1>4, <1>5, <1>6, <1>7 DEF c

\* The separators in a piece of a file, counted in the file.
LEMMA BytesCount ==
  ASSUME NEW T, NEW f, f.content \in Seq(T), NEW a \in Nat, NEW n \in Nat,
         a + n <= Len(f.content)
  PROVE  Separators(Bytes(f, a, n)) = Count(f.content, a, n)
<1> DEFINE B == Bytes(f, a, n)
<1>1. B \in Seq(T) /\ Len(B) = n /\ \A y \in 1..n : B[y] = f.content[a + y]
  BY BytesAre
<1> HIDE DEF B
<1>2. Separators(B) = Count(B, 0, n)
  BY <1>1, SeparatorsAre
<1>3. Among(B, 0, n) = Among(f.content, a, n)
  BY <1>1 DEF Among
<1> QED
  BY <1>2, <1>3 DEF Count, B

\* Where split() cuts.
Cuts(B) == {0, Len(B) + 1} \cup {i \in DOMAIN B : B[i] = NL}
CutsBelow(B, k) == {d \in Cuts(B) : d < k}
CutsAbove(B, k) == {d \in Cuts(B) : d > k}

\* A sequence has two cuts more than separators.
LEMMA CutsAre ==
  ASSUME NEW T, NEW B \in Seq(T)
  PROVE  /\ Cuts(B) \in SUBSET (0..Len(B)+1) /\ IsFiniteSet(Cuts(B))
         /\ Cardinality(Cuts(B)) = Separators(B) + 2
<1> DEFINE n == Len(B)
           X == {i \in DOMAIN B : B[i] = NL}
<1>1. n \in Nat /\ DOMAIN B = 1..n
  OBVIOUS
<1>2. X \subseteq 1..n /\ Cuts(B) = (X \cup {0}) \cup {n + 1} /\ Separators(B) = Cardinality(X)
  BY <1>1 DEF Cuts, Separators
<1> HIDE DEF X, n
<1>3. IsFiniteSet(1..n)
  BY <1>1, FS_Interval
<1>4. IsFiniteSet(X) /\ Cardinality(X) \in Nat
  BY <1>2, <1>3, FS_Subset, FS_CardinalityType
<1>5. 0 \notin X /\ n + 1 \notin X \cup {0}
  BY <1>1, <1>2
<1>6. IsFiniteSet(X \cup {0}) /\ Cardinality(X \cup {0}) = Cardinality(X) + 1
  BY <1>4, <1>5, FS_AddElement
<1>7. /\ IsFiniteSet((X \cup {0}) \cup {n + 1})
      /\ Cardinality((X \cup {0}) \cup {n + 1}) = Cardinality(X \cup {0}) + 1
  BY <1>5, <1>6, FS_AddElement
<1>8. Cuts(B) \in SUBSET (0..n+1)
  BY <1>1, <1>2
<1> QED
  BY <1>2, <1>4, <1>6, <1>7, <1>8 DEF n

\* All cuts but one are below it or above it.
LEMMA CutsCounted ==
  ASSUME NEW T, NEW B \in Seq(T), NEW k \in Nat
  PROVE  /\ IsFiniteSet(CutsBelow(B, k)) /\ Cardinality(CutsBelow(B, k)) \in Nat
         /\ IsFiniteSet(CutsAbove(B, k)) /\ Cardinality(CutsAbove(B, k)) \in Nat
         /\ k \in Cuts(B) => Cardinality(CutsBelow(B, k)) + 1 + Cardinality(CutsAbove(B, k))
                               = Separators(B) + 2
<1> DEFINE C == Cuts(B)
           L == CutsBelow(B, k)
           H == CutsAbove(B, k)
<1>1. C \in SUBSET (0..Len(B)+1) /\ IsFiniteSet(C) /\ Cardinality(C) = Separators(B) + 2
  BY CutsAre
<1>2. L \subseteq C /\ H \subseteq C
  BY DEF CutsBelow, CutsAbove
<1>3. IsFiniteSet(L) /\ Cardinality(L) \in Nat /\ IsFiniteSet(H) /\ Cardinality(H) \in Nat
  BY <1>1, <1>2, FS_Subset, FS_CardinalityType
<1>4. ASSUME k \in C
      PROVE  Cardinality(L) + 1 + Cardinality(H) = Separators(B) + 2
  <2>1. k \notin L /\ (L \cup {k}) \cap H = {} /\ C = (L \cup {k}) \cup H
    <3>1. \A d \in C : d \in Int
      BY <1>1
    <3>2. /\ \A d \in C : d < k \/ d = k \/ d > k
          /\ \A d \in C : ~ (d < k /\ d > k)
          /\ ~ (k < k) /\ ~ (k > k)
      BY <3>1
    <3> HIDE DEF C
    <3>3. L = {d \in C : d < k} /\ H = {d \in C : d > k}
      BY Zenon DEF CutsBelow, CutsAbove, C
    <3>4. k \notin L /\ \A d \in H : d \notin L /\ d # k
      BY <3>2, <3>3
    <3>5. (L \cup {k}) \cap H = {}
      BY <3>4
    <3>6. C = (L \cup {k}) \cup H
      BY <1>4, <3>2, <3>3
    <3> QED
      BY <3>4, <3>5, <3>6
  <2> HIDE DEF C, L, H
  <2>2. IsFiniteSet(L \cup {k}) /\ Cardinality(L \cup {k}) = Cardinality(L) + 1
    BY <1>3, <2>1, FS_AddElement
  <2>3. Cardinality((L \cup {k}) \cup H)
          = Cardinality(L \cup {k}) + Cardinality(H) - Cardinality((L \cup {k}) \cap H)
    BY <1>3, <2>2, FS_Union
  <2>4. Cardinality((L \cup {k}) \cap H) = 0
    BY <2>1, FS_EmptySet
  <2> QED
    BY <1>1, <1>3, <2>1, <2>2, <2>3, <2>4
<1> QED
  BY <1>3, <1>4

\* The cut with so many below it is the only one.
LEMMA CutUnique ==
  ASSUME NEW T, NEW B \in Seq(T), NEW d \in Cuts(B), NEW e \in Cuts(B),
         Cardinality(CutsBelow(B, d)) = Cardinality(CutsBelow(B, e))
  PROVE  d = e
<1>1. d \in Nat /\ e \in Nat
  BY CutsAre
<1>2. ASSUME NEW x \in Cuts(B), NEW y \in Cuts(B), x < y
      PROVE  Cardinality(CutsBelow(B, x)) < Cardinality(CutsBelow(B, y))
  <2>1. x \in Nat /\ y \in Nat /\ \A z \in Cuts(B) : z \in Int
    BY CutsAre
  <2>2. /\ x \in CutsBelow(B, y) /\ x \notin CutsBelow(B, x)
        /\ CutsBelow(B, x) \cup {x} \subseteq CutsBelow(B, y)
    <3>1. ~ (x < x) /\ \A z \in Cuts(B) : z < x => z < y
      BY <1>2, <2>1
    <3> QED
      BY <1>2, <3>1, Zenon DEF CutsBelow
  <2>3. /\ IsFiniteSet(CutsBelow(B, x)) /\ Cardinality(CutsBelow(B, x)) \in Nat
        /\ IsFiniteSet(CutsBelow(B, y)) /\ Cardinality(CutsBelow(B, y)) \in Nat
    BY <2>1, CutsCounted
  <2>4. Cardinality(CutsBelow(B, x) \cup {x}) = Cardinality(CutsBelow(B, x)) + 1
    BY <2>2, <2>3, FS_AddElement
  <2>5. Cardinality(CutsBelow(B, x) \cup {x}) <= Cardinality(CutsBelow(B, y))
    BY <2>2, <2>3, FS_Subset
  <2> QED
    BY <2>3, <2>4, <2>5
<1>3. Cardinality(CutsBelow(B, d)) \in Nat
  BY <1>1, CutsCounted
<1> QED
  BY <1>1, <1>2, <1>3

\* There is one line more than separators.
LEMMA LinesLength ==
  ASSUME NEW T, NEW B \in Seq(T)
  PROVE  /\ Len(Lines(B)) = Separators(B) + 1
         /\ DOMAIN Lines(B) = 1..Separators(B)+1
         /\ Separators(B) \in Nat
<1>1. Cardinality(Cuts(B)) = Separators(B) + 2
  BY CutsAre
<1>2. Separators(B) \in Nat
  BY SeparatorsAre
<1> DEFINE n == Separators(B) + 1
           cut(k) == CHOOSE c \in Cuts(B) : Cardinality({d \in Cuts(B) : d < c}) = k
           theLine(k) == SubSeq(B, cut(k-1) + 1, cut(k) - 1)
<1>3. n \in Nat /\ Cardinality(Cuts(B)) - 1 = n
  BY <1>1, <1>2
<1>4. Lines(B) = [k \in 1..Cardinality(Cuts(B))-1 |-> theLine(k)]
  BY Zenon DEF Lines, Cuts
<1> HIDE DEF n, theLine
<1>5. Lines(B) = [k \in 1..n |-> theLine(k)]
  BY <1>3, <1>4, Zenon
<1>6. Len(Lines(B)) = n /\ DOMAIN Lines(B) = 1..n
  BY <1>3, <1>5
<1> QED
  BY <1>2, <1>6 DEF n

\* A line is what is between two cuts that follow each other.
LEMMA LineIs ==
  ASSUME NEW T, NEW B \in Seq(T), NEW b \in Cuts(B), NEW e \in Cuts(B), NEW k \in Int,
         Cardinality(CutsBelow(B, b)) = k - 1, Cardinality(CutsBelow(B, e)) = k,
         k \in DOMAIN Lines(B)
  PROVE  Lines(B)[k] = SubSeq(B, b + 1, e - 1)
<1> DEFINE cut(j) == CHOOSE c \in Cuts(B) : Cardinality({d \in Cuts(B) : d < c}) = j
<1>1. ASSUME NEW j, NEW x \in Cuts(B), Cardinality(CutsBelow(B, x)) = j
      PROVE  cut(j) = x
  <2>1. cut(j) \in Cuts(B) /\ Cardinality(CutsBelow(B, cut(j))) = j
    <3>1. \E c \in Cuts(B) : Cardinality({d \in Cuts(B) : d < c}) = j
      BY <1>1 DEF CutsBelow
    <3> QED
      BY <3>1 DEF CutsBelow
  <2> HIDE DEF cut
  <2> QED
    BY <1>1, <2>1, CutUnique
<1>2. Lines(B) = [j \in 1..Cardinality(Cuts(B))-1 |-> SubSeq(B, cut(j-1) + 1, cut(j) - 1)]
  BY Zenon DEF Lines, Cuts
<1> HIDE DEF cut
<1>3. Lines(B)[k] = SubSeq(B, cut(k-1) + 1, cut(k) - 1)
  BY <1>2
<1>4. cut(k-1) = b /\ cut(k) = e
  BY <1>1
<1> QED
  BY <1>3, <1>4

-----------------------------------------------------------------------------
(* A section that is scanned from its end: extract_line_from_section() *)

\* What is between two positions, backwards.
Between(B, b, e) == [j \in 1..e-1-b |-> B[e-j]]
NextCut(B, pos, e) == e \in CutsAbove(B, pos) /\ \A d \in CutsAbove(B, pos) : d >= e

\* Of the bytes B, those behind pos are scanned, and line l is looked for.
Scanned(B, pos, l, now, found) ==
  /\ pos \in 0..Len(B)
  /\ now = Cardinality(CutsAbove(B, pos)) /\ now \in 1..l
  /\ found \in Seq(Char)
  /\ now < l => found = <<>>
  /\ now = l => \E e \in Cuts(B) : NextCut(B, pos, e) /\ found = Between(B, pos, e)

\* Cuts are positions of the sequence, or next to it.
LEMMA CutsInt ==
  ASSUME NEW B \in Seq(Char)
  PROVE  /\ \A d \in Cuts(B) : d \in Nat /\ d <= Len(B) + 1
         /\ Len(B) \in Nat /\ 0 \in Cuts(B) /\ Len(B) + 1 \in Cuts(B)
         /\ \A d \in 1..Len(B) : d \in Cuts(B) <=> B[d] = NL
<1>1. Len(B) \in Nat /\ DOMAIN B = 1..Len(B)
  OBVIOUS
<1> DEFINE n == Len(B)
<1>2. Cuts(B) = {0, n + 1} \cup {i \in 1..n : B[i] = NL}
  BY <1>1 DEF Cuts
<1>3. n \in Nat
  BY <1>1
<1> HIDE DEF n
<1>4. /\ \A d \in Cuts(B) : d \in Nat /\ d <= n + 1
      /\ 0 \in Cuts(B) /\ n + 1 \in Cuts(B)
      /\ \A d \in 1..n : d \in Cuts(B) <=> B[d] = NL
  BY <1>2, <1>3
<1> QED
  BY <1>3, <1>4 DEF n

\* Before the scan, at the end of the section, no line is passed.
LEMMA ScanStarts ==
  ASSUME NEW B \in Seq(Char), NEW l \in Nat \ {0}
  PROVE  Scanned(B, Len(B), l, 1, <<>>)
<1> DEFINE n == Len(B)
<1>1. /\ n \in Nat /\ n + 1 \in Cuts(B)
      /\ \A d \in Cuts(B) : d \in Nat /\ d <= n + 1
  BY CutsInt
<1> HIDE DEF n
<1>2. CutsAbove(B, n) = {n + 1}
  <2>1. \A d \in Cuts(B) : d > n <=> d = n + 1
    BY <1>1
  <2> QED
    BY <1>1, <2>1 DEF CutsAbove
<1>3. Cardinality(CutsAbove(B, n)) = 1
  BY <1>2, FS_Singleton
<1>4. NextCut(B, n, n + 1)
  BY <1>1, <1>2 DEF NextCut
<1>5. Between(B, n, n + 1) = <<>>
  <2>1. 1..(n+1)-1-n = {}
    BY <1>1
  <2> QED
    BY <2>1 DEF Between
<1>6. n \in 0..n /\ 1 \in 1..l /\ <<>> \in Seq(Char)
  BY <1>1
<1> QED
  BY <1>1, <1>3, <1>4, <1>5, <1>6 DEF Scanned, n

\* At a cut there is one more above the position before it.
LEMMA CutsAboveNext ==
  ASSUME NEW B \in Seq(Char), NEW pos \in 1..Len(B)
  PROVE  /\ pos - 1 \in 0..Len(B)
         /\ CutsAbove(B, pos - 1) =
              IF B[pos] = NL THEN CutsAbove(B, pos) \cup {pos} ELSE CutsAbove(B, pos)
         /\ pos \notin CutsAbove(B, pos)
         /\ B[pos] = NL <=> pos \in Cuts(B)
<1> DEFINE n == Len(B)
<1>1. /\ n \in Nat
      /\ \A d \in Cuts(B) : d \in Nat /\ d <= n + 1
      /\ \A d \in 1..n : d \in Cuts(B) <=> B[d] = NL
  BY CutsInt
<1>2. pos \in Nat /\ pos \in 1..n
  BY <1>1
<1> HIDE DEF n
<1>3. \A d \in Cuts(B) : d > pos - 1 <=> d > pos \/ d = pos
  BY <1>1, <1>2
<1>4. ~ (pos > pos) /\ pos - 1 \in 0..n
  BY <1>1, <1>2
<1>5. \A d : d \in CutsAbove(B, pos - 1) <=> d \in CutsAbove(B, pos) \/ (d = pos /\ pos \in Cuts(B))
  BY <1>3, <1>4, Zenon DEF CutsAbove
<1>6. pos \in Cuts(B) <=> B[pos] = NL
  BY <1>1, <1>2
<1> QED
  BY <1>4, <1>5, <1>6 DEF CutsAbove, n

\* What is between two positions, read backwards, is a sequence of characters.
LEMMA BetweenType ==
  ASSUME NEW B \in Seq(Char), NEW b \in Nat, NEW e \in Nat, b < e, e <= Len(B) + 1
  PROVE  /\ Between(B, b, e) \in Seq(Char) /\ Len(Between(B, b, e)) = e - 1 - b
         /\ \A j \in 1..e-1-b : Between(B, b, e)[j] = B[e-j]
<1> DEFINE n == Len(B)
<1>1. n \in Nat
  OBVIOUS
<1>2. e - 1 - b \in Nat /\ \A j \in 1..e-1-b : e - j \in 1..n
  BY <1>1
<1> HIDE DEF n
<1>3. \A j \in 1..e-1-b : B[e-j] \in Char
  BY <1>2, ElementOfSeq DEF n
<1> DEFINE m == e - 1 - b
           r(j) == B[e-j]
<1>4. m \in Nat /\ \A j \in 1..m : r(j) \in Char
  BY <1>2, <1>3
<1>5. Between(B, b, e) = [j \in 1..m |-> r(j)]
  BY DEF Between
<1> HIDE DEF m, r
<1>6. /\ Between(B, b, e) \in Seq(Char) /\ Len(Between(B, b, e)) = m
      /\ \A j \in 1..m : Between(B, b, e)[j] = r(j)
  BY <1>4, <1>5
<1> QED
  BY <1>6 DEF m, r

\* The scan goes over a separator: the next line from the end begins.
LEMMA ScanSeparator ==
  ASSUME NEW B \in Seq(Char), NEW pos \in 1..Len(B), NEW l \in Nat \ {0}, NEW now \in Nat,
         NEW found, Scanned(B, pos, l, now, found), B[pos] = NL, now # l
  PROVE  Scanned(B, pos - 1, l, now + 1, found)
<1>1. /\ now = Cardinality(CutsAbove(B, pos)) /\ now \in 1..l
      /\ found = <<>>
  BY DEF Scanned
<1>2. /\ pos - 1 \in 0..Len(B) /\ CutsAbove(B, pos - 1) = CutsAbove(B, pos) \cup {pos}
      /\ pos \notin CutsAbove(B, pos) /\ pos \in Cuts(B)
  BY CutsAboveNext
<1>3. pos \in Nat
  OBVIOUS
<1>4. IsFiniteSet(CutsAbove(B, pos))
  BY <1>3, CutsCounted
<1>5. Cardinality(CutsAbove(B, pos - 1)) = now + 1
  BY <1>1, <1>2, <1>4, FS_AddElement
<1>6. now + 1 \in 1..l
  BY <1>1
<1>7. NextCut(B, pos - 1, pos)
  <2>1. \A d \in CutsAbove(B, pos) : d >= pos
    <3>1. \A d \in Cuts(B) : d \in Nat
      BY CutsInt
    <3> QED
      BY <1>3, <3>1 DEF CutsAbove
  <2>2. pos >= pos
    BY <1>3
  <2> QED
    BY <1>2, <2>1, <2>2 DEF NextCut
<1>8. Between(B, pos - 1, pos) = <<>>
  <2>1. 1..pos-1-(pos-1) = {}
    BY <1>3
  <2> QED
    BY <2>1 DEF Between
<1>9. <<>> \in Seq(Char)
  OBVIOUS
<1> QED
  BY <1>1, <1>2, <1>5, <1>6, <1>7, <1>8, <1>9 DEF Scanned

\* The scan goes over another character, which belongs to the line if it is the wanted one.
LEMMA ScanOther ==
  ASSUME NEW B \in Seq(Char), NEW pos \in 1..Len(B), NEW l \in Nat \ {0}, NEW now \in Nat,
         NEW found, Scanned(B, pos, l, now, found), B[pos] # NL
  PROVE  Scanned(B, pos - 1, l, now, IF now = l THEN Append(found, B[pos]) ELSE found)
<1>1. /\ now = Cardinality(CutsAbove(B, pos)) /\ now \in 1..l
      /\ found \in Seq(Char) /\ now < l => found = <<>>
      /\ now = l => \E e \in Cuts(B) : NextCut(B, pos, e) /\ found = Between(B, pos, e)
  BY DEF Scanned
<1>2. /\ pos - 1 \in 0..Len(B) /\ CutsAbove(B, pos - 1) = CutsAbove(B, pos)
  BY CutsAboveNext
<1>3. pos \in Nat /\ pos \in 1..Len(B) /\ pos - 1 \in Nat
  OBVIOUS
<1>4. CASE now # l
  BY <1>1, <1>2, <1>4 DEF Scanned
<1>5. CASE now = l
  <2>1. PICK e \in Cuts(B) : NextCut(B, pos, e) /\ found = Between(B, pos, e)
    BY <1>1, <1>5
  <2>2. e \in Nat /\ e > pos /\ e <= Len(B) + 1
    <3>1. \A d \in Cuts(B) : d \in Nat /\ d <= Len(B) + 1
      BY CutsInt
    <3> QED
      BY <2>1, <3>1 DEF NextCut, CutsAbove
  <2> DEFINE g == Append(found, B[pos])
             h == Between(B, pos - 1, e)
             m == e - 1 - pos
  <2>3. /\ found \in Seq(Char) /\ Len(found) = m
        /\ \A j \in 1..m : found[j] = B[e-j]
    <3>1. pos < e
      BY <2>2
    <3>2. /\ Between(B, pos, e) \in Seq(Char) /\ Len(Between(B, pos, e)) = e - 1 - pos
          /\ \A j \in 1..e-1-pos : Between(B, pos, e)[j] = B[e-j]
      BY <1>3, <2>2, <3>1, BetweenType
    <3> QED
      BY <2>1, <3>2
  <2>4. h \in Seq(Char) /\ Len(h) = e - 1 - (pos - 1) /\ \A j \in 1..e-1-(pos-1) : h[j] = B[e-j]
    <3>1. pos - 1 < e
      BY <1>3, <2>2
    <3> QED
      BY <1>3, <2>2, <3>1, BetweenType
  <2>5. m \in Nat /\ e - 1 - (pos - 1) = m + 1 /\ e - (m + 1) = pos
    BY <1>3, <2>2
  <2>6. B[pos] \in Char
    BY ElementOfSeq
  <2> HIDE DEF m, h
  <2>7. /\ g \in Seq(Char) /\ Len(g) = m + 1 /\ g[m+1] = B[pos]
        /\ \A j \in 1..m : g[j] = found[j]
    BY <2>3, <2>5, <2>6
  <2> HIDE DEF g
  <2>8. \A j \in 1..m+1 : g[j] = h[j]
    <3> TAKE j \in 1..m+1
    <3>1. j \in 1..m \/ j = m + 1
      BY <2>5
    <3>2. h[j] = B[e-j]
      BY <2>4, <2>5
    <3> QED
      BY <2>3, <2>5, <2>7, <3>1, <3>2
  <2>9. g = h
    <3> DEFINE k == m + 1
    <3>1. /\ g \in Seq(Char) /\ h \in Seq(Char) /\ Len(g) = k /\ Len(h) = k
          /\ \A j \in 1..k : g[j] = h[j]
      BY <2>4, <2>5, <2>7, <2>8
    <3> HIDE DEF k
    <3>2. Len(g) = Len(h) /\ \A j \in 1..Len(g) : g[j] = h[j]
      BY <3>1
    <3> QED
      BY <3>1, <3>2, SeqEqual
  <2>10. NextCut(B, pos - 1, e)
    BY <1>2, <2>1 DEF NextCut
  <2> QED
    <3>1. \E d \in Cuts(B) : NextCut(B, pos - 1, d) /\ g = Between(B, pos - 1, d)
      BY <2>1, <2>9, <2>10 DEF h
    <3>2. ~ (l < l)
      OBVIOUS
    <3>3. Scanned(B, pos - 1, l, l, g)
      BY <1>1, <1>2, <1>5, <2>7, <3>1, <3>2 DEF Scanned
    <3> QED
      BY <1>5, <3>3 DEF g
<1> QED
  BY <1>4, <1>5

\* The beginning is a cut: all lines are counted there.
LEMMA ScanAll ==
  ASSUME NEW B \in Seq(Char), NEW l, NEW now, NEW found, Scanned(B, 0, l, now, found)
  PROVE  now = Separators(B) + 1
<1>1. /\ 0 \in Cuts(B) /\ Cardinality(CutsBelow(B, 0)) + 1 + Cardinality(CutsAbove(B, 0)) = Separators(B) + 2
      /\ Cardinality(CutsAbove(B, 0)) \in Nat
  BY CutsInt, CutsCounted
<1>2. CutsBelow(B, 0) = {}
  BY CutsInt DEF CutsBelow
<1>3. Cardinality(CutsBelow(B, 0)) = 0
  BY <1>2, FS_EmptySet
<1>4. Separators(B) \in Nat
  BY SeparatorsAre
<1> QED
  BY <1>1, <1>3, <1>4 DEF Scanned

\* At a cut the line is the one that parseFile() takes.
LEMMA ScanFinds ==
  ASSUME NEW B \in Seq(Char), NEW pos \in Cuts(B), NEW l \in 1..Separators(B)+1, NEW found,
         Scanned(B, pos, l, l, found)
  PROVE  found = Reverse(Lines(B)[Len(Lines(B)) + 1 - l])
<1> DEFINE N == Separators(B)
           k == Len(Lines(B)) + 1 - l
<1>1. N \in Nat /\ Len(Lines(B)) = N + 1 /\ DOMAIN Lines(B) = 1..N+1
  BY LinesLength
<1> HIDE DEF N
<1>2. k \in 1..N+1 /\ l \in Nat /\ k = N + 2 - l /\ l \in 1..N+1
  BY <1>1 DEF N
<1>3. \A d \in Cuts(B) : d \in Nat /\ d <= Len(B) + 1
  BY CutsInt
<1>4. PICK e \in Cuts(B) : NextCut(B, pos, e) /\ found = Between(B, pos, e)
  BY <1>2 DEF Scanned
<1>5. pos \in Nat /\ e \in Nat /\ e > pos /\ e <= Len(B) + 1
  BY <1>3, <1>4 DEF NextCut, CutsAbove
<1>6. /\ Cardinality(CutsBelow(B, pos)) + 1 + Cardinality(CutsAbove(B, pos)) = N + 2
      /\ Cardinality(CutsBelow(B, e)) + 1 + Cardinality(CutsAbove(B, e)) = N + 2
      /\ IsFiniteSet(CutsAbove(B, e))
      /\ Cardinality(CutsAbove(B, e)) \in Nat /\ Cardinality(CutsBelow(B, e)) \in Nat
      /\ Cardinality(CutsBelow(B, pos)) \in Nat
  BY <1>5, CutsCounted DEF N
<1>7. Cardinality(CutsAbove(B, pos)) = l
  BY DEF Scanned
<1>8. CutsAbove(B, pos) = CutsAbove(B, e) \cup {e} /\ e \notin CutsAbove(B, e)
  <2>1. \A d \in Cuts(B) : d > pos /\ d >= e <=> d > e \/ d = e
    BY <1>3, <1>5
  <2>2. ~ (e > e)
    BY <1>5
  <2>3. \A d : d \in CutsAbove(B, pos) <=> d \in CutsAbove(B, e) \cup {e}
    BY <1>4, <2>1, Zenon DEF CutsAbove, NextCut
  <2>4. CutsAbove(B, pos) = CutsAbove(B, e) \cup {e}
    BY <2>3
  <2> QED
    BY <2>2, <2>4 DEF CutsAbove
<1>9. Cardinality(CutsAbove(B, e)) + 1 = l
  <2> DEFINE E == CutsAbove(B, e)
  <2> HIDE DEF E
  <2>1. IsFiniteSet(E) /\ e \notin E
    BY <1>6, <1>8 DEF E
  <2>2. Cardinality(E \cup {e}) = Cardinality(E) + 1
    BY <2>1, FS_AddElement
  <2>3. Cardinality(E \cup {e}) = l
    BY <1>7, <1>8 DEF E
  <2> QED
    BY <2>2, <2>3 DEF E
<1>10. Cardinality(CutsBelow(B, pos)) = k - 1 /\ Cardinality(CutsBelow(B, e)) = k
  <2> DEFINE p1 == Cardinality(CutsBelow(B, pos))
             p2 == Cardinality(CutsAbove(B, pos))
             e1 == Cardinality(CutsBelow(B, e))
             e2 == Cardinality(CutsAbove(B, e))
  <2>1. /\ p1 \in Nat /\ e1 \in Nat /\ e2 \in Nat /\ p2 = l /\ e2 + 1 = l
        /\ p1 + 1 + p2 = N + 2 /\ e1 + 1 + e2 = N + 2
    BY <1>6, <1>7, <1>9
  <2>2. N \in Nat /\ l \in Nat /\ k = N + 2 - l
    BY <1>1, <1>2
  <2> HIDE DEF p1, p2, e1, e2, k
  <2>3. p1 = k - 1 /\ e1 = k
    BY <2>1, <2>2
  <2> QED
    BY <2>3 DEF p1, e1
<1> DEFINE L == Lines(B)[k]
           m == e - 1 - pos
<1>11. L = SubSeq(B, pos + 1, e - 1)
  <2>1. k \in Int /\ k \in DOMAIN Lines(B)
    BY <1>1, <1>2
  <2> HIDE DEF k
  <2> QED
    BY <1>10, <2>1, LineIs
<1> HIDE DEF L, k
<1>12. m \in Nat /\ \A j \in pos+1..e-1 : j \in 1..Len(B)
  <2>1. Len(B) \in Nat
    OBVIOUS
  <2> QED
    BY <1>5, <2>1
<1>13. L \in Seq(Char) /\ Len(L) = m /\ \A j \in 1..m : L[j] = B[pos + j]
  <2> DEFINE lo == pos + 1
             hi == e - 1
  <2>1. \A j \in lo..hi : B[j] \in Char
    BY <1>12, ElementOfSeq
  <2>2. lo \in Int /\ hi \in Int /\ hi - lo + 1 = m /\ (lo <= hi <=> m # 0)
    BY <1>5
  <2>3. \A j \in 1..m : lo + j - 1 = pos + j
    BY <1>5
  <2>4. L = SubSeq(B, lo, hi)
    BY <1>11
  <2> HIDE DEF lo, hi, m
  <2>5. /\ SubSeq(B, lo, hi) \in Seq(Char)
        /\ Len(SubSeq(B, lo, hi)) = IF lo <= hi THEN hi - lo + 1 ELSE 0
        /\ \A y \in 1..hi-lo+1 : SubSeq(B, lo, hi)[y] = B[lo + y - 1]
    BY <2>1, <2>2, SubSeqProperties
  <2>6. Len(L) = m
    BY <1>12, <2>2, <2>4, <2>5
  <2> QED
    BY <2>2, <2>3, <2>4, <2>5, <2>6
<1>14. Reverse(L) = [j \in 1..m |-> L[(m - j) + 1]]
  BY <1>13 DEF Reverse
<1>15. \A j \in 1..m : L[(m - j) + 1] = B[e - j]
  <2>1. \A j \in 1..m : (m - j) + 1 \in 1..m /\ pos + ((m - j) + 1) = e - j
    BY <1>5
  <2> HIDE DEF m
  <2> QED
    BY <1>13, <2>1
<1>16. Between(B, pos, e) = [j \in 1..m |-> B[e-j]]
  BY DEF Between
<1>17. Reverse(L) = Between(B, pos, e)
  <2> HIDE DEF m
  <2> QED
    BY <1>14, <1>15, <1>16, Zenon
<1> QED
  BY <1>4, <1>17 DEF L, k

-----------------------------------------------------------------------------
(* A section that is searched from its beginning: test_sections_with_lines() *)

\* Min() of two numbers.
LEMMA MinOfTwo ==
  ASSUME NEW a \in Int, NEW b \in Int
  PROVE  Min({a, b}) = IF a <= b THEN a ELSE b
<1> DEFINE m == IF a <= b THEN a ELSE b
           S == {a, b}
<1>1. m \in S /\ \A y \in S : m <= y
  OBVIOUS
<1>2. ASSUME NEW x \in S, \A y \in S : x <= y
      PROVE  x = m
  BY <1>1, <1>2
<1> HIDE DEF m, S
<1>3. Min(S) = m
  BY <1>1, <1>2 DEF Min
<1> QED
  BY <1>3 DEF m, S

\* Lines are counted up to one more than are asked for.
LEMMA CountedIs ==
  ASSUME NEW n \in Nat
  PROVE  /\ Counted(n) = IF n <= FindLines + 1 THEN n ELSE FindLines + 1
         /\ FindLines \in Nat /\ FindLines > 1
<1>1. FindLines \in Nat /\ FindLines > 1
  BY SectionFileAssumption, FileTesterAssumption
<1>2. n \in Int /\ FindLines + 1 \in Int
  BY <1>1
<1>3. Min({n, FindLines + 1}) = IF n <= FindLines + 1 THEN n ELSE FindLines + 1
  BY <1>2, MinOfTwo
<1> QED
  BY <1>1, <1>3 DEF Counted

\* It makes no difference whether the counter stops within a chunk or after it.
LEMMA CountedMore ==
  ASSUME NEW n \in Nat, NEW m \in Nat
  PROVE  Counted(Counted(n) + m) = Counted(n + m)
<1> DEFINE c == Counted(n)
           l == FindLines + 1
<1>1. c = IF n <= l THEN n ELSE l
  BY CountedIs
<1>2. l \in Nat
  BY CountedIs
<1> HIDE DEF c, l
<1>3. c + m \in Nat /\ n + m \in Nat
  BY <1>1, <1>2
<1>4. /\ Counted(c + m) = IF c + m <= l THEN c + m ELSE l
      /\ Counted(n + m) = IF n + m <= l THEN n + m ELSE l
  BY <1>3, CountedIs DEF l
<1>5. Counted(c + m) = Counted(n + m)
  BY <1>1, <1>2, <1>4
<1> QED
  BY <1>5 DEF c

\* A piece is the part that was searched and the rest.
LEMMA CountSplit ==
  ASSUME NEW c, NEW o \in Nat, NEW s \in Nat, NEW r \in 0..s
  PROVE  Count(c, o, s) = Count(c, o, s - r) + Count(c, o + (s - r), r)
<1> DEFINE d == s - r
<1>1. d \in Nat /\ r \in Nat
  OBVIOUS
<1>2. d + r = s
  OBVIOUS
<1> HIDE DEF d
<1>3. Count(c, o, d + r) = Count(c, o, d) + Count(c, o + d, r)
  BY <1>1, CountSum DEF CountAdds
<1> QED
  BY <1>2, <1>3 DEF d

\* A section that is in its file, and fits into a chunk or has few lines.
SectionOK(f, i) ==
  LET s == f.sections[i]
  IN  /\ s.offset \in Nat /\ s.size \in Nat /\ s.offset + s.size <= Len(f.content)
      /\ s.size <= CHUNK_SIZE \/ Count(f.content, s.offset, s.size) + 1 < FindLines

\* A section has one line more than separators in its bytes of the file.
LEMMA SectionLinesAre ==
  ASSUME NEW f, f.content \in Seq(Char), NEW i, SectionOK(f, i)
  PROVE  /\ Len(SectionLines(f, i)) = Count(f.content, f.sections[i].offset, f.sections[i].size) + 1
         /\ DOMAIN SectionLines(f, i)
              = 1..Count(f.content, f.sections[i].offset, f.sections[i].size) + 1
<1> DEFINE o == f.sections[i].offset
           s == f.sections[i].size
           B == Bytes(f, o, s)
<1>1. o \in Nat /\ s \in Nat /\ o + s <= Len(f.content)
  BY DEF SectionOK
<1> HIDE DEF o, s
<1>2. B \in Seq(Char) /\ Separators(B) = Count(f.content, o, s)
  BY <1>1, BytesAre, BytesCount
<1>3. SectionLines(f, i) = Lines(B)
  BY DEF SectionLines, o, s
<1> HIDE DEF B
<1>4. Len(Lines(B)) = Separators(B) + 1 /\ DOMAIN Lines(B) = 1..Separators(B)+1
  BY <1>2, LinesLength
<1> QED
  BY <1>2, <1>3, <1>4 DEF o, s

\* All but `rest` of section i is searched, and so many lines are counted.
Searched(f, i, rest, counted) ==
  LET s == f.sections[i]
  IN  /\ rest \in 0..s.size
      /\ counted = Counted(1 + Count(f.content, s.offset, s.size - rest))
      /\ s.size <= CHUNK_SIZE => rest \in {0, s.size}

\* The search of a section begins with one line.
LEMMA SearchStarts ==
  ASSUME NEW f, NEW i, SectionOK(f, i)
  PROVE  Searched(f, i, f.sections[i].size, 1)
<1> DEFINE o == f.sections[i].offset
           s == f.sections[i].size
<1>1. o \in Nat /\ s \in Nat
  BY DEF SectionOK
<1> HIDE DEF o, s
<1>2. s \in 0..s /\ s - s = 0
  BY <1>1
<1>3. Count(f.content, o, 0) = 0
  <2>1. Among(f.content, o, 0) = {}
    BY DEF Among
  <2> QED
    BY <2>1, FS_EmptySet DEF Count
<1>4. Counted(1 + 0) = 1
  BY CountedIs
<1> QED
  BY <1>2, <1>3, <1>4 DEF Searched, o, s

\* One more chunk is counted.
LEMMA SearchGoesOn ==
  ASSUME NEW f, f.content \in Seq(Char), NEW i, SectionOK(f, i), NEW rest, NEW counted,
         Searched(f, i, rest, counted), rest > 0, NEW n, n = Min({rest, CHUNK_SIZE}),
         NEW a, a = f.sections[i].offset + f.sections[i].size - rest
  PROVE  Searched(f, i, rest - n, Counted(counted + Separators(Bytes(f, a, n))))
<1> DEFINE o == f.sections[i].offset
           s == f.sections[i].size
           c == f.content
<1>1. /\ o \in Nat /\ s \in Nat /\ o + s <= Len(c) /\ rest \in 0..s
      /\ counted = Counted(1 + Count(c, o, s - rest))
      /\ s <= CHUNK_SIZE => rest \in {0, s}
      /\ a = o + s - rest
  BY DEF SectionOK, Searched
<1> HIDE DEF o, s
<1>2. CHUNK_SIZE \in Nat \ {0} /\ rest \in Nat
  BY <1>1, FileTesterAssumption
<1>3. n = IF rest <= CHUNK_SIZE THEN rest ELSE CHUNK_SIZE
  BY <1>2, MinOfTwo
<1>4. n \in Nat /\ n <= rest /\ rest - n \in 0..s /\ s - (rest - n) = (s - rest) + n
  <2>1. n \in Nat /\ n <= rest
    BY <1>2, <1>3
  <2>2. rest \in 0..s /\ s \in Nat
    BY <1>1
  <2> QED
    BY <2>1, <2>2
<1>5. s <= CHUNK_SIZE => rest - n \in {0, s}
  BY <1>1, <1>2, <1>3
<1>6. Len(c) \in Nat
  OBVIOUS
<1> HIDE DEF c
<1>7. a \in Nat /\ a + n <= Len(c) /\ a = o + (s - rest) /\ s - rest \in Nat
  <2> DEFINE m == Len(c)
  <2>1. m \in Nat /\ o + s <= m
    BY <1>1, <1>6
  <2> HIDE DEF m
  <2>2. a = o + s - rest /\ rest <= s /\ o \in Nat /\ s \in Nat /\ rest \in Nat
    BY <1>1
  <2>3. a \in Nat /\ a = o + (s - rest) /\ s - rest \in Nat
    BY <2>2
  <2>4. n \in Nat /\ n <= rest
    BY <1>4
  <2>5. a + n <= m
    BY <2>1, <2>2, <2>4
  <2> QED
    BY <2>3, <2>5 DEF m
<1>8. Separators(Bytes(f, a, n)) = Count(c, a, n)
  BY <1>4, <1>7, BytesCount DEF c
<1>9. Count(c, o, (s - rest) + n) = Count(c, o, s - rest) + Count(c, o + (s - rest), n)
  <2> DEFINE d == s - rest
  <2>1. o \in Nat /\ d \in Nat /\ n \in Nat
    BY <1>1, <1>4, <1>7
  <2> HIDE DEF d
  <2>2. Count(c, o, d + n) = Count(c, o, d) + Count(c, o + d, n)
    <3>1. CountAdds(c, o, d, n)
      BY <2>1, CountSum
    <3> QED
      BY <3>1, Zenon DEF CountAdds
  <2> QED
    BY <2>2 DEF d
<1> DEFINE x == Count(c, o, s - rest)
           y == Count(c, a, n)
<1>10. x \in Nat /\ y \in Nat
  BY <1>1, <1>4, <1>7, AmongFinite
<1>11. Count(c, o, s - (rest - n)) = x + y
  BY <1>4, <1>7, <1>9
<1>12. counted = Counted(1 + x)
  BY <1>1
<1> HIDE DEF x, y
<1>13. 1 + x \in Nat /\ (1 + x) + y = 1 + (x + y)
  BY <1>10
<1>14. Counted(counted + y) = Counted(1 + (x + y))
  BY <1>10, <1>12, <1>13, CountedMore
<1> QED
  BY <1>4, <1>5, <1>8, <1>11, <1>14 DEF Searched, o, s, c, y

\* When the loop of test_sections_with_lines() is left, for any section in its file, however
\* long and with however many lines: the comparison of the counter with the number asked for
\* is right, but in one case. The counter is at this number already, the chunks not read yet
\* have a separator, and the section is taken for one that has so many lines.
LEMMA SearchDecides ==
  ASSUME NEW f, f.content \in Seq(Char), NEW i, NEW o, o = f.sections[i].offset,
         NEW s, s = f.sections[i].size, o \in Nat, s \in Nat, o + s <= Len(f.content),
         NEW rest \in 0..s, NEW counted,
         counted = Counted(1 + Count(f.content, o, s - rest)),
         ~ (rest > 0 /\ counted < FindLines)
  PROVE  (counted = FindLines <=> Len(SectionLines(f, i)) = FindLines)
           <=> ~ (counted = FindLines /\ Count(f.content, o + (s - rest), rest) > 0)
<1> DEFINE c == f.content
           x == Count(c, o, s - rest)
           y == Count(c, o, s)
           z == Count(c, o + (s - rest), rest)
           l == FindLines
<1>1. Len(SectionLines(f, i)) = y + 1
  <2> DEFINE B == Bytes(f, o, s)
  <2>1. B \in Seq(Char) /\ Separators(B) = y
    BY BytesAre, BytesCount
  <2>2. SectionLines(f, i) = Lines(B)
    BY DEF SectionLines
  <2> HIDE DEF B, y
  <2> QED
    BY <2>1, <2>2, LinesLength
<1> HIDE DEF c
<1>0. o \in Nat /\ s \in Nat /\ rest \in 0..s
  OBVIOUS
<1>2. s - rest \in Nat /\ rest \in Nat /\ o + (s - rest) \in Nat
  BY ONLY <1>0
<1>3. x \in Nat /\ y \in Nat /\ z \in Nat
  BY <1>0, <1>2, AmongFinite
<1>4. y = x + z
  BY ONLY <1>0, CountSplit, Zenon
<1>5. rest = 0 => z = 0
  <2>1. rest = 0 => Among(c, o + (s - rest), rest) = {}
    BY DEF Among
  <2> QED
    BY <2>1, FS_EmptySet DEF Count
<1>6. counted = Counted(1 + x)
  BY DEF c
<1> HIDE DEF x, y, z
<1>7. counted = (IF 1 + x <= l + 1 THEN 1 + x ELSE l + 1) /\ l \in Nat /\ l > 1
  BY <1>3, <1>6, CountedIs
<1> HIDE DEF l
<1>8. ~ (rest > 0 /\ counted < l)
  BY DEF l
<1>9. (counted = l <=> y + 1 = l) <=> ~ (counted = l /\ z > 0)
  <2>1. CASE counted < l
    BY <1>2, <1>3, <1>4, <1>5, <1>7, <1>8, <2>1
  <2>2. CASE counted = l
    <3>1. 1 + x = l
      BY <1>3, <1>7, <2>2
    <3>2. y + 1 = l <=> ~ (z > 0)
      BY <1>3, <1>4, <1>7, <3>1
    <3> QED
      BY <2>2, <3>2
  <2>3. CASE counted > l
    <3>1. 1 + x > l
      BY <1>3, <1>7, <2>3
    <3>2. counted # l /\ y + 1 # l
      BY <1>3, <1>4, <1>7, <2>3, <3>1
    <3> QED
      BY <3>2
  <2> QED
    BY <1>3, <1>7, <2>1, <2>2, <2>3
<1> QED
  BY <1>1, <1>9 DEF l, z, c

\* The sections of the tester are not that case: one that does not fit into a chunk has fewer
\* lines than are asked for, and the loop reads the others at once.
LEMMA SearchFinds ==
  ASSUME NEW f, f.content \in Seq(Char), NEW i, SectionOK(f, i), NEW rest, NEW counted,
         Searched(f, i, rest, counted), ~ (rest > 0 /\ counted < FindLines)
  PROVE  counted = FindLines <=> Len(SectionLines(f, i)) = FindLines
<1> DEFINE c == f.content
           o == f.sections[i].offset
           s == f.sections[i].size
           l == FindLines
<1>1. /\ o \in Nat /\ s \in Nat /\ o + s <= Len(c) /\ rest \in 0..s
      /\ counted = Counted(1 + Count(c, o, s - rest))
      /\ s <= CHUNK_SIZE => rest \in {0, s}
      /\ s <= CHUNK_SIZE \/ Count(c, o, s) + 1 < l
  BY DEF SectionOK, Searched
<1>2. (counted = l <=> Len(SectionLines(f, i)) = l)
        <=> ~ (counted = l /\ Count(c, o + (s - rest), rest) > 0)
  BY <1>1, SearchDecides
<1> DEFINE x == Count(c, o, s - rest)
           y == Count(c, o, s)
           z == Count(c, o + (s - rest), rest)
<1> HIDE DEF o, s, c
<1>3. s - rest \in Nat /\ rest \in Nat /\ o + (s - rest) \in Nat
  BY <1>1
<1>4. x \in Nat /\ y \in Nat /\ z \in Nat
  BY <1>1, <1>3, AmongFinite
<1>5. y = x + z
  BY <1>1, CountSplit, Zenon
<1>6. rest = 0 => z = 0
  <2>1. rest = 0 => Among(c, o + (s - rest), rest) = {}
    BY DEF Among
  <2> QED
    BY <2>1, FS_EmptySet DEF Count
<1>7. rest = s => x = 0
  <2>1. rest = s => s - rest = 0
    BY <1>1
  <2>2. Among(c, o, 0) = {}
    BY DEF Among
  <2>3. Count(c, o, 0) = 0
    BY <2>2, FS_EmptySet DEF Count
  <2> QED
    BY <2>1, <2>3
<1>8. counted = (IF 1 + x <= l + 1 THEN 1 + x ELSE l + 1) /\ l \in Nat /\ l > 1
  <2>1. counted = Counted(1 + x)
    BY <1>1
  <2> HIDE DEF x
  <2> QED
    BY <1>4, <2>1, CountedIs
<1>9. ~ (counted = l /\ z > 0)
  <2> HIDE DEF x, y, z, l
  <2>1. s <= CHUNK_SIZE \/ y + 1 < l
    BY <1>1 DEF y
  <2>2. CASE rest = 0
    BY <1>4, <1>6, <2>2
  <2>3. CASE rest = s
    BY <1>4, <1>7, <1>8, <2>3
  <2>4. CASE y + 1 < l
    BY <1>4, <1>5, <1>8, <2>4
  <2> QED
    BY <1>1, <2>1, <2>2, <2>3, <2>4
<1> QED
  BY <1>2, <1>9 DEF z, l

-----------------------------------------------------------------------------
(* Whether a file is taken: validate_sf_file() and parseFile() *)

HalvedTable(n, g) == g = [v \in 0..n |-> IF v < VersionMin THEN v ELSE g[v \div 2]]

\* There is a table of halved versions.
LEMMA HalvedExists ==
  ASSUME NEW n \in Nat
  PROVE  \E g : HalvedTable(n, g)
<1> DEFINE S == {m \in Nat : \E g : HalvedTable(m, g)}
<1>1. VersionMin \in Nat /\ 0 < VersionMin
  BY SectionFileAssumption
<1>2. 0 \in S
  <2> DEFINE g == [v \in 0..0 |-> 0]
  <2>1. g = [v \in 0..0 |-> IF v < VersionMin THEN v ELSE g[v \div 2]]
    <3>1. \A v \in 0..0 : v = 0 /\ v < VersionMin
      BY <1>1
    <3> QED
      BY <3>1
  <2> HIDE DEF g
  <2> QED
    BY <2>1 DEF HalvedTable
<1>3. ASSUME NEW m \in S
      PROVE  m + 1 \in S
  <2>1. PICK g : HalvedTable(m, g)
    BY <1>3
  <2>2. m \in Nat
    BY <1>3
  <2> DEFINE h == [v \in 0..m+1 |-> IF v < VersionMin THEN v ELSE g[v \div 2]]
  <2>3. \A v \in 0..m : g[v] = IF v < VersionMin THEN v ELSE g[v \div 2]
    BY <2>1 DEF HalvedTable
  <2>4. \A v \in 0..m : v \in 0..m+1
    BY <2>2
  <2>5. \A v \in 0..m : h[v] = g[v]
    BY <2>3, <2>4
  <2>6. \A v \in 0..m+1 : ~ (v < VersionMin) => v \div 2 \in 0..m
    BY <1>1, <2>2
  <2>7. h = [v \in 0..m+1 |-> IF v < VersionMin THEN v ELSE g[v \div 2]]
    OBVIOUS
  <2> HIDE DEF h
  <2>8. h = [v \in 0..m+1 |-> IF v < VersionMin THEN v ELSE h[v \div 2]]
    BY <2>5, <2>6, <2>7
  <2>9. HalvedTable(m + 1, h) /\ m + 1 \in Nat
    BY <2>2, <2>8 DEF HalvedTable
  <2> QED
    BY <2>9
<1> HIDE DEF S
<1>4. S \in SUBSET Nat
  BY DEF S
<1>5. S = Nat
  BY <1>2, <1>3, <1>4, Induction
<1> QED
  BY <1>5 DEF S

\* A version that is halved until it is too low is a number.
LEMMA HalvedType == \A v \in 0..2*VersionMax : Halved[v] \in Nat
<1> DEFINE top == 2 * VersionMax
           S == {n \in Nat : \A v \in 0..n : v <= top => Halved[v] \in Nat}
<1>1. VersionMin \in Nat /\ 0 < VersionMin /\ top \in Nat
  BY SectionFileAssumption
<1>2. \E g : HalvedTable(top, g)
  BY <1>1, HalvedExists
<1>3. HalvedTable(top, Halved)
  BY <1>2, Zenon DEF HalvedTable, Halved
<1> HIDE DEF top
<1>4. \A v \in 0..top : Halved[v] = IF v < VersionMin THEN v ELSE Halved[v \div 2]
  BY <1>3 DEF HalvedTable
<1>5. 0 \in S
  BY <1>1, <1>4
<1>6. ASSUME NEW n \in S
      PROVE  n + 1 \in S
  <2>1. n \in Nat /\ \A v \in 0..n : v <= top => Halved[v] \in Nat
    BY <1>6
  <2>2. ASSUME NEW v \in 0..n+1, v <= top
        PROVE  Halved[v] \in Nat
    <3>1. v \in 0..top /\ v \in Nat
      BY <1>1, <2>1, <2>2
    <3>2. ~ (v < VersionMin) => v \div 2 \in 0..n /\ v \div 2 <= top
      BY <1>1, <2>1, <2>2
    <3> QED
      BY <1>4, <2>1, <3>1, <3>2
  <2> QED
    BY <2>1, <2>2
<1> HIDE DEF S
<1>7. S \in SUBSET Nat
  BY DEF S
<1>8. S = Nat
  BY <1>5, <1>6, <1>7, Induction
<1>9. ASSUME NEW v \in 0..top
      PROVE  Halved[v] \in Nat
  <2>1. v \in S /\ v \in 0..v /\ v <= top
    BY <1>1, <1>8
  <2> QED
    BY <2>1 DEF S
<1> QED
  BY <1>9 DEF top

\* What is true of every file that the tester makes.
FileOK(f) ==
  /\ f.content \in Seq(Char)
  /\ f.version \in Int
  /\ Len(f.sections) \in 3..255 /\ DOMAIN f.sections = 1..Len(f.sections)
  /\ \A i \in 1..Len(f.sections) : SectionOK(f, i)

\* a1.c and the tester agree about every one of them, and so about what is wrong.
LEMMA SameVerdict ==
  ASSUME NEW f, FileOK(f)
  PROVE  /\ ValidateSfFile(f) = IF Complaint(f) = "none" THEN "valid" ELSE Complaint(f)
         /\ Complaint(f) # "valid"
<1> DEFINE n == Len(f.sections)
           bad == \E i \in 1..n : f.sections[i].type \notin ToSet(SectionTypes)
           range == f.version \in VersionMin..VersionMax
           number == n \in SectMin..SectMax
<1>1. /\ VersionMin \in Nat /\ VersionMax \in Nat /\ SectMin \in Nat /\ SectMax \in Nat
  BY SectionFileAssumption
<1>2. n \in Nat /\ n # 2 /\ f.version \in Int /\ DOMAIN f.sections = 1..n
  <2>1. n \in 3..255 /\ f.version \in Int /\ DOMAIN f.sections = 1..n
    BY DEF FileOK
  <2> HIDE DEF n
  <2>2. n \in Nat /\ n # 2
    BY <2>1
  <2> QED
    BY <2>1, <2>2
<1>3. f.version < VersionMin \/ f.version > VersionMax <=> ~ range
  BY <1>1, <1>2
<1>4. n < SectMin \/ n > SectMax <=> ~ number
  BY <1>1, <1>2
<1>5. Complaint(f) = IF ~ f.magic THEN "wrong magic" ELSE IF ~ range THEN "wrong version"
                     ELSE IF ~ number THEN "wrong sect_nr"
                     ELSE IF bad THEN "wrong sect_types" ELSE "none"
  BY <1>2 DEF Complaint
<1>6. ValidateSfFile(f) =
        IF ~ f.magic THEN "wrong magic"
        ELSE IF f.version < VersionMin \/ f.version > VersionMax THEN "wrong version"
        ELSE IF n # 2 /\ (n < SectMin \/ n > SectMax) THEN "wrong sect_nr"
        ELSE IF bad THEN "wrong sect_types" ELSE "valid"
  BY DEF ValidateSfFile
<1>7. ValidateSfFile(f) = IF ~ f.magic THEN "wrong magic" ELSE IF ~ range THEN "wrong version"
                          ELSE IF ~ number THEN "wrong sect_nr"
                          ELSE IF bad THEN "wrong sect_types" ELSE "valid"
  <2> HIDE DEF n, bad, range, number
  <2> QED
    BY <1>2, <1>3, <1>4, <1>6
<1> HIDE DEF n, bad, range, number
<1> QED
  <2>1. CASE ~ f.magic
    BY <1>5, <1>7, <2>1
  <2>2. CASE f.magic /\ ~ range
    BY <1>5, <1>7, <2>2
  <2>3. CASE f.magic /\ range /\ ~ number
    BY <1>5, <1>7, <2>3
  <2>4. CASE f.magic /\ range /\ number /\ bad
    BY <1>5, <1>7, <2>4
  <2>5. CASE f.magic /\ range /\ number /\ ~ bad
    BY <1>5, <1>7, <2>5
  <2> QED
    BY <2>1, <2>2, <2>3, <2>4, <2>5

BodyOK(b) == b \in Body /\ (Len(Joined(b)) <= CHUNK_SIZE \/ Len(b) < FindLines)

\* The body of a section fits into a chunk, or has fewer lines than are asked for.
LEMMA BodySeparators ==
  ASSUME NEW b, BodyOK(b)
  PROVE  /\ Len(Joined(b)) \in Nat
         /\ Len(Joined(b)) <= CHUNK_SIZE \/ Separators(Joined(b)) + 1 < FindLines
<1>1. Joined(b) \in Seq(Char) /\ Joined(b) = FlattenSeq(Pieces(b))
  BY JoinedType DEF BodyOK
<1>2. Len(Joined(b)) \in Nat
  BY <1>1
<1>3. CASE b = <<>>
  <2>1. Len(Pieces(b)) = Len(b) /\ Pieces(b) \in Seq(Seq(Char))
    BY PiecesType DEF BodyOK
  <2>2. Pieces(b) = <<>>
    BY <1>3, <2>1
  <2>3. Joined(b) = <<>>
    BY <1>1, <2>2, FlattenEmpty
  <2>4. Len(Joined(b)) = 0
    BY <2>3
  <2>5. 0 <= CHUNK_SIZE
    BY FileTesterAssumption
  <2> QED
    BY <1>2, <2>4, <2>5
<1>4. CASE b # <<>>
  <2>1. Separators(Joined(b)) = Len(b) - 1
    BY <1>4, JoinedLines DEF BodyOK
  <2>2. Len(b) \in Nat
    BY DEF BodyOK, Body
  <2> QED
    BY <1>2, <2>1, <2>2 DEF BodyOK
<1> QED
  BY <1>3, <1>4

\* A file of genSectionFile() is one that can be read.
LEMMA MadeOK ==
  ASSUME NEW wrong, NEW version \in VersionMin..VersionMax, NEW sectNr \in SectMin..SectMax,
         NEW perm, NEW body,
         \A i \in 1..2*SectMax : wrong = "sect_nr" \/ i <= SectMax => BodyOK(body[i])
  PROVE  FileOK(GenSectionFile(wrong, version, sectNr, body, perm))
<1> DEFINE f == GenSectionFile(wrong, version, sectNr, body, perm)
           n == sectNr + IF wrong = "sect_nr" THEN SectMax ELSE 0
<1>1. /\ SectMin \in Nat /\ SectMax \in Nat /\ 2 < SectMin /\ 2 * SectMax < 256
      /\ VersionMin \in Nat /\ VersionMax \in Nat
  BY SectionFileAssumption
<1>2. sectNr \in Nat /\ n \in 3..255 /\ n \in Nat
  BY <1>1
<1>3. \A i \in 1..n : BodyOK(body[i])
  <2>1. \A i \in 1..n : i \in 1..2*SectMax /\ (wrong = "sect_nr" \/ i <= SectMax)
    BY <1>1
  <2> QED
    BY <2>1
<1>4. Holds(f, n, body)
  <2>1. \A i \in 1..n : body[i] \in Body
    BY <1>3 DEF BodyOK
  <2>2. n = sectNr + IF wrong = "sect_nr" THEN SectMax ELSE 0
    OBVIOUS
  <2> HIDE DEF n
  <2> QED
    BY <1>2, <2>1, <2>2, FileHolds, Zenon
<1>5. f.version \in Int
  <2>1. f.version = IF wrong = "version" THEN WrongVersion(version) ELSE version
    BY DEF GenSectionFile
  <2>2. version \in Int /\ version + VersionMax \in 0..2*VersionMax
    BY <1>1
  <2>3. WrongVersion(version) \in Int
    BY <2>2, HalvedType DEF WrongVersion
  <2> QED
    BY <2>1, <2>2, <2>3
<1> HIDE DEF f, n
<1>6. ASSUME NEW i \in 1..n
      PROVE  SectionOK(f, i)
  <2> DEFINE J == Joined(body[i])
             o == f.sections[i].offset
             s == f.sections[i].size
  <2>1. /\ f.content \in Seq(Char) /\ o \in Nat /\ o + s <= Len(f.content)
        /\ s = Len(J) /\ Bytes(f, o, s) = J
    BY <1>4 DEF Holds
  <2>2. Len(J) \in Nat /\ (Len(J) <= CHUNK_SIZE \/ Separators(J) + 1 < FindLines)
    BY <1>3, BodySeparators
  <2> HIDE DEF J, o, s
  <2>3. s \in Nat
    BY <2>1, <2>2
  <2>4. Separators(J) = Count(f.content, o, s)
    BY <2>1, <2>3, BytesCount
  <2> QED
    BY <2>1, <2>2, <2>3, <2>4 DEF SectionOK, o, s
<1> QED
  BY <1>2, <1>4, <1>5, <1>6 DEF FileOK, Holds, f

\* A good file is valid.
LEMMA GoodFile ==
  ASSUME NEW version \in VersionMin..VersionMax, NEW sectNr \in SectMin..SectMax,
         NEW perm, NEW body
  PROVE  Complaint(GenSectionFile("nothing", version, sectNr, body, perm)) = "none"
<1> DEFINE f == GenSectionFile("nothing", version, sectNr, body, perm)
           t(i) == SectionTypes[1 + (i % Len(SectionTypes))]
<1>1. SectMin \in Nat /\ SectMax \in Nat /\ SectionTypes \in Seq(Nat) /\ SectionTypes # <<>>
  BY SectionFileAssumption
<1>2. sectNr \in Nat /\ sectNr + 0 = sectNr
  BY <1>1
<1>3. /\ f.magic = TRUE /\ f.version = version
      /\ DOMAIN f.sections = 1..sectNr
      /\ \A i \in 1..sectNr : f.sections[i].type = t(i)
  <2>1. "nothing" # "sect_nr" /\ "nothing" # "magic" /\ "nothing" # "version" /\ "nothing" # "sect_types"
    OBVIOUS
  <2> QED
    BY <1>2, <2>1 DEF GenSectionFile
<1>4. Len(f.sections) = sectNr
  <2>1. f.sections = [i \in 1..sectNr |-> f.sections[i]]
    BY <1>2 DEF GenSectionFile
  <2> HIDE DEF f
  <2> QED
    BY <1>2, <2>1
<1>5. \A i \in 1..sectNr : t(i) \in ToSet(SectionTypes)
  <2> DEFINE m == Len(SectionTypes)
  <2>1. m \in Nat \ {0} /\ DOMAIN SectionTypes = 1..m
    BY <1>1
  <2> HIDE DEF m
  <2>2. \A i \in 1..sectNr : 1 + (i % m) \in 1..m
    BY <1>2, <2>1
  <2> QED
    BY <2>1, <2>2 DEF ToSet, m
<1> HIDE DEF f, t
<1> QED
  BY <1>3, <1>4, <1>5 DEF Complaint, f
-----------------------------------------------------------------------------
(* The permissions: get_perm() and test_permissions_match() *)

ThreeMore(u, v, n) ==
  /\ Len(u \o v) = n + 3
  /\ \A i \in 1..n : (u \o v)[i] = u[i]
  /\ \A i \in 1..3 : (u \o v)[n+i] = v[i]

Concatenated(T, u, v) ==
  /\ u \o v \in Seq(T) /\ Len(u \o v) = Len(u) + Len(v)
  /\ \A i \in 1..Len(u) : (u \o v)[i] = u[i]
  /\ \A i \in 1..Len(v) : (u \o v)[Len(u)+i] = v[i]

\* Two sequences, one after the other.
LEMMA ConcatAt ==
  ASSUME NEW T, NEW u \in Seq(T), NEW v \in Seq(T)
  PROVE  Concatenated(T, u, v)
BY DEF Concatenated

\* Three more characters.
LEMMA Concat3 ==
  ASSUME NEW T, NEW u \in Seq(T), NEW v \in Seq(T), Len(v) = 3
  PROVE  u \o v \in Seq(T) /\ ThreeMore(u, v, Len(u))
<1> DEFINE w == u \o v
           m == Len(v)
           n == Len(u)
<1>1. /\ w \in Seq(T) /\ Len(w) = n + m
      /\ \A i \in 1..n : w[i] = u[i]
      /\ \A i \in 1..m : w[n+i] = v[i]
  <2>1. Concatenated(T, u, v)
    BY ConcatAt
  <2> QED
    BY <2>1, Zenon DEF Concatenated
<1>2. m = 3
  OBVIOUS
<1> HIDE DEF w, m, n
<1>3. /\ Len(w) = n + 3
      /\ \A i \in 1..3 : w[n+i] = v[i]
  BY <1>1, <1>2, Zenon
<1> QED
  BY <1>1, <1>3 DEF ThreeMore, w, n

\* The three bits of an octal digit.
LEMMA DigitBits ==
  ASSUME NEW q \in Nat
  PROVE  /\ ((q % 8) \div 4) % 2 = (q \div 4) % 2
         /\ ((q % 8) \div 2) % 2 = (q \div 2) % 2
         /\ ((q % 8) \div 1) % 2 = q % 2
<1>1. ((q % 8) \div 4) % 2 = (q \div 4) % 2
  OBVIOUS
<1>2. ((q % 8) \div 2) % 2 = (q \div 2) % 2
  OBVIOUS
<1>3. ((q % 8) \div 1) % 2 = q % 2
  OBVIOUS
<1> QED
  BY <1>1, <1>2, <1>3

\* The bits of the second and the third digit.
LEMMA DigitOf ==
  ASSUME NEW p \in Nat
  PROVE  /\ p \div 8 \in Nat /\ p \div 64 \in Nat
         /\ (p \div 64) \div 4 = p \div 256 /\ (p \div 64) \div 2 = p \div 128
         /\ (p \div 8) \div 4 = p \div 32 /\ (p \div 8) \div 2 = p \div 16
         /\ p \div 1 = p
<1>1. p \div 8 \in Nat /\ p \div 64 \in Nat /\ p \div 1 = p
  OBVIOUS
<1>2. (p \div 64) \div 4 = p \div 256
  OBVIOUS
<1>3. (p \div 64) \div 2 = p \div 128
  OBVIOUS
<1>4. (p \div 8) \div 4 = p \div 32
  OBVIOUS
<1>5. (p \div 8) \div 2 = p \div 16
  OBVIOUS
<1> QED
  BY <1>1, <1>2, <1>3, <1>4, <1>5

\* The tester takes the digits apart, a1.c the bits.
LEMMA SamePermissions ==
  ASSUME NEW p \in Nat
  PROVE  GetPerm(p) = Permissions(p)
<1> DEFINE flag(q, bit, c) == IF (q \div bit) % 2 # 0 THEN c ELSE "-"
           a == p \div 64
           b == p \div 8
           x == <<flag(p % 8, 1, "x"), flag(p % 8, 2, "w"), flag(p % 8, 4, "r")>>
           y == <<flag(b % 8, 1, "x"), flag(b % 8, 2, "w"), flag(b % 8, 4, "r")>>
           z == <<flag(a % 8, 1, "x"), flag(a % 8, 2, "w"), flag(a % 8, 4, "r")>>
           on(m, c) == IF (p \div m) % 2 # 0 THEN c ELSE "-"
<1>1. GetPerm(p) = Reverse(x \o y \o z)
  BY DEF GetPerm
<1>2. /\ flag(p % 8, 1, "x") = on(1, "x") /\ flag(p % 8, 2, "w") = on(2, "w")
      /\ flag(p % 8, 4, "r") = on(4, "r")
  <2>1. /\ ((p % 8) \div 1) % 2 = (p \div 1) % 2
        /\ ((p % 8) \div 2) % 2 = (p \div 2) % 2 /\ ((p % 8) \div 4) % 2 = (p \div 4) % 2
    BY DigitBits, DigitOf
  <2> QED
    BY <2>1, Zenon
<1>3. /\ flag(b % 8, 1, "x") = on(8, "x") /\ flag(b % 8, 2, "w") = on(16, "w")
      /\ flag(b % 8, 4, "r") = on(32, "r")
  <2>1. /\ ((b % 8) \div 1) % 2 = (p \div 8) % 2
        /\ ((b % 8) \div 2) % 2 = (p \div 16) % 2 /\ ((b % 8) \div 4) % 2 = (p \div 32) % 2
    BY DigitBits, DigitOf
  <2> QED
    BY <2>1, Zenon
<1>4. /\ flag(a % 8, 1, "x") = on(64, "x") /\ flag(a % 8, 2, "w") = on(128, "w")
      /\ flag(a % 8, 4, "r") = on(256, "r")
  <2>1. /\ ((a % 8) \div 1) % 2 = (p \div 64) % 2
        /\ ((a % 8) \div 2) % 2 = (p \div 128) % 2 /\ ((a % 8) \div 4) % 2 = (p \div 256) % 2
    BY DigitBits, DigitOf
  <2> QED
    BY <2>1, Zenon
<1> HIDE DEF flag, a, b, on
<1>5. /\ x = <<on(1, "x"), on(2, "w"), on(4, "r")>>
      /\ y = <<on(8, "x"), on(16, "w"), on(32, "r")>>
      /\ z = <<on(64, "x"), on(128, "w"), on(256, "r")>>
  BY <1>2, <1>3, <1>4
<1>6. Permissions(p) = [k \in 1..9 |-> on(Masks[k], <<"r", "w", "x">>[1 + ((k-1) % 3)])]
  BY DEF Permissions, on
<1> HIDE DEF x, y, z, on
<1>7. Len(x) = 3 /\ Len(y) = 3 /\ Len(z) = 3
  BY <1>5
<1> DEFINE T == {"x", "w", "r", "-"}
           w == x \o y
           s == w \o z
<1>8. x \in Seq(T) /\ y \in Seq(T) /\ z \in Seq(T)
  <2>1. \A m : on(m, "x") \in T /\ on(m, "w") \in T /\ on(m, "r") \in T
    BY DEF on
  <2> HIDE DEF T
  <2> QED
    BY <1>5, <2>1
<1> HIDE DEF T
<1>9. /\ w \in Seq(T) /\ Len(w) = 6
      /\ w[1] = x[1] /\ w[2] = x[2] /\ w[3] = x[3] /\ w[4] = y[1] /\ w[5] = y[2] /\ w[6] = y[3]
  <2>1. w \in Seq(T) /\ ThreeMore(x, y, 3)
    BY <1>7, <1>8, Concat3
  <2>2. Len(w) = 3 + 3 /\ (\A i \in 1..3 : w[i] = x[i]) /\ \A i \in 1..3 : w[3+i] = y[i]
    BY <2>1, Zenon DEF ThreeMore
  <2> HIDE DEF w, x, y
  <2>3. /\ Len(w) = 6
        /\ w[1] = x[1] /\ w[2] = x[2] /\ w[3] = x[3]
        /\ w[3+1] = y[1] /\ w[3+2] = y[2] /\ w[3+3] = y[3]
    BY <2>2
  <2> QED
    BY <2>1, <2>2, <2>3
<1> HIDE DEF w
<1>10. /\ Len(s) = 9
       /\ s[1] = on(1, "x") /\ s[2] = on(2, "w") /\ s[3] = on(4, "r")
       /\ s[4] = on(8, "x") /\ s[5] = on(16, "w") /\ s[6] = on(32, "r")
       /\ s[7] = on(64, "x") /\ s[8] = on(128, "w") /\ s[9] = on(256, "r")
  <2>1. /\ Len(s) = 9
        /\ s[1] = w[1] /\ s[2] = w[2] /\ s[3] = w[3] /\ s[4] = w[4] /\ s[5] = w[5] /\ s[6] = w[6]
        /\ s[7] = z[1] /\ s[8] = z[2] /\ s[9] = z[3]
    <3>1. ThreeMore(w, z, 6)
      BY <1>7, <1>8, <1>9, Concat3
    <3>2. Len(s) = 6 + 3 /\ (\A i \in 1..6 : s[i] = w[i]) /\ \A i \in 1..3 : s[6+i] = z[i]
      BY <3>1, Zenon DEF ThreeMore
    <3> HIDE DEF s
    <3>3. /\ Len(s) = 9
          /\ s[1] = w[1] /\ s[2] = w[2] /\ s[3] = w[3] /\ s[4] = w[4] /\ s[5] = w[5] /\ s[6] = w[6]
          /\ s[6+1] = z[1] /\ s[6+2] = z[2] /\ s[6+3] = z[3]
      BY <3>2
    <3> QED
      BY <3>2, <3>3
  <2> HIDE DEF s
  <2>2. /\ x[1] = on(1, "x") /\ x[2] = on(2, "w") /\ x[3] = on(4, "r")
        /\ y[1] = on(8, "x") /\ y[2] = on(16, "w") /\ y[3] = on(32, "r")
        /\ z[1] = on(64, "x") /\ z[2] = on(128, "w") /\ z[3] = on(256, "r")
    <3>1. /\ x[1] = on(1, "x") /\ x[2] = on(2, "w") /\ x[3] = on(4, "r")
      BY <1>5
    <3>2. /\ y[1] = on(8, "x") /\ y[2] = on(16, "w") /\ y[3] = on(32, "r")
      BY <1>5
    <3>3. /\ z[1] = on(64, "x") /\ z[2] = on(128, "w") /\ z[3] = on(256, "r")
      BY <1>5
    <3> QED
      BY <3>1, <3>2, <3>3, Zenon
  <2> QED
    <3>1. s[1] = on(1, "x") /\ s[2] = on(2, "w") /\ s[3] = on(4, "r")
      BY <1>9, <2>1, <2>2, Zenon
    <3>2. s[4] = on(8, "x") /\ s[5] = on(16, "w") /\ s[6] = on(32, "r")
      BY <1>9, <2>1, <2>2, Zenon
    <3>3. s[7] = on(64, "x") /\ s[8] = on(128, "w") /\ s[9] = on(256, "r")
      BY <2>1, <2>2, Zenon
    <3> QED
      BY <2>1, <3>1, <3>2, <3>3
<1> HIDE DEF s
<1>11. Reverse(s) = [k \in 1..9 |-> s[(9 - k) + 1]]
  BY <1>10, Zenon DEF Reverse
<1>12. ASSUME NEW k \in 1..9
       PROVE  s[(9 - k) + 1] = on(Masks[k], <<"r", "w", "x">>[1 + ((k-1) % 3)])
  <2>1. k = 1 \/ k = 2 \/ k = 3 \/ k = 4 \/ k = 5 \/ k = 6 \/ k = 7 \/ k = 8 \/ k = 9
    OBVIOUS
  <2>2. /\ k \in {1, 4, 7} => <<"r", "w", "x">>[1 + ((k-1) % 3)] = "r"
        /\ k \in {2, 5, 8} => <<"r", "w", "x">>[1 + ((k-1) % 3)] = "w"
        /\ k \in {3, 6, 9} => <<"r", "w", "x">>[1 + ((k-1) % 3)] = "x"
    OBVIOUS
  <2> DEFINE c == <<"r", "w", "x">>[1 + ((k-1) % 3)]
  <2> HIDE DEF c
  <2>3. CASE k = 1
    BY <1>10, <2>2, <2>3 DEF Masks, c
  <2>4. CASE k = 2
    BY <1>10, <2>2, <2>4 DEF Masks, c
  <2>5. CASE k = 3
    BY <1>10, <2>2, <2>5 DEF Masks, c
  <2>6. CASE k = 4
    BY <1>10, <2>2, <2>6 DEF Masks, c
  <2>7. CASE k = 5
    BY <1>10, <2>2, <2>7 DEF Masks, c
  <2>8. CASE k = 6
    BY <1>10, <2>2, <2>8 DEF Masks, c
  <2>9. CASE k = 7
    BY <1>10, <2>2, <2>9 DEF Masks, c
  <2>10. CASE k = 8
    BY <1>10, <2>2, <2>10 DEF Masks, c
  <2>11. CASE k = 9
    BY <1>10, <2>2, <2>11 DEF Masks, c
  <2> QED
    BY <2>1, <2>3, <2>4, <2>5, <2>6, <2>7, <2>8, <2>9, <2>10, <2>11, Zenon
<1>13. Reverse(s) = Permissions(p)
  BY <1>6, <1>11, <1>12, Zenon
<1> QED
  BY <1>1, <1>13 DEF s, w

-----------------------------------------------------------------------------
(* The file system of the tests: buildTestFs() *)

Letter == STRING \cup Wrongs \cup {"_", "c", "o", "r", "h", "u", "g"}
Names == ToSet(DirNames) \cup ToSet(FileNames) \cup {Corrupted, Huge}
           \cup {Append(FileNames[1], w) : w \in Wrongs}
Path == Seq(Names)

\* There is a file.
LEMMA FirstFile ==
  /\ 1 \in DOMAIN FileNames /\ FileNames[1] \in ToSet(FileNames)
  /\ FileNames[1] \in Seq(STRING)
<1>1. FileNames \in Seq(Seq(STRING)) /\ FileNames # <<>>
  BY FileTesterAssumption
<1>2. 1 \in DOMAIN FileNames
  BY <1>1
<1>3. FileNames[1] \in Seq(STRING)
  BY <1>1, <1>2
<1> QED
  BY <1>2, <1>3 DEF ToSet

\* Four characters are a name.
LEMMA FourLetters ==
  ASSUME NEW T, NEW a \in T, NEW b \in T, NEW c \in T, NEW d \in T
  PROVE  <<a, b, c, d>> \in Seq(T)
OBVIOUS

\* Two elements of a set are a sequence.
LEMMA TwoInSeq ==
  ASSUME NEW T, NEW a \in T, NEW b \in T
  PROVE  Append(<<a>>, b) = <<a, b>>
<1> DEFINE s == Append(<<a>>, b)
           t == <<a, b>>
<1>1. <<a>> \in Seq(T)
  OBVIOUS
<1>2. t \in Seq(T) /\ Len(t) = 2 /\ t[1] = a /\ t[2] = b
  OBVIOUS
<1>3. s \in Seq(T) /\ Len(s) = 2 /\ s[1] = a /\ s[2] = b
  BY <1>1
<1> HIDE DEF s, t
<1>4. \A i \in 1..2 : s[i] = t[i]
  <2>1. \A i \in 1..2 : i = 1 \/ i = 2
    OBVIOUS
  <2> QED
    BY <1>2, <1>3, <2>1
<1>5. s = t
  BY <1>2, <1>3, <1>4, SeqEqual
<1> QED
  BY <1>5 DEF s, t

\* Every name is a sequence of at least four characters.
LEMMA NamesAre ==
  ASSUME NEW name \in Names
  PROVE  name \in Seq(Letter) /\ Len(name) \in Nat /\ Len(name) >= 4
<1>1. ASSUME NEW S, NEW T, S \subseteq T, NEW x \in Seq(S)
      PROVE  x \in Seq(T)
  BY <1>1
<1>2. STRING \subseteq Letter
  BY DEF Letter
<1>3. CASE name \in ToSet(DirNames) \cup ToSet(FileNames)
  <2>1. /\ DirNames \in Seq(Seq(STRING)) /\ FileNames \in Seq(Seq(STRING))
        /\ Len(name) >= 4
    BY <1>3, FileTesterAssumption
  <2>2. name \in Seq(STRING)
    BY <1>3, <2>1 DEF ToSet
  <2>3. name \in Seq(Letter)
    BY <1>1, <1>2, <2>2
  <2> QED
    BY <2>1, <2>3
<1>4. CASE name = Corrupted
  <2>1. "_" \in Letter /\ "c" \in Letter /\ "o" \in Letter /\ "r" \in Letter
    BY DEF Letter
  <2>2. Corrupted \in Seq(Letter)
    BY <2>1, FourLetters, Zenon DEF Corrupted
  <2>3. Len(Corrupted) = 4
    BY DEF Corrupted
  <2> QED
    BY <1>4, <2>2, <2>3
<1>5. CASE name = Huge
  <2>1. "_" \in Letter /\ "h" \in Letter /\ "u" \in Letter /\ "g" \in Letter
    BY DEF Letter
  <2>2. Huge \in Seq(Letter)
    BY <2>1, FourLetters, Zenon DEF Huge
  <2>3. Len(Huge) = 4
    BY DEF Huge
  <2> QED
    BY <1>5, <2>2, <2>3
<1>6. ASSUME NEW w \in Wrongs, name = Append(FileNames[1], w)
      PROVE  name \in Seq(Letter) /\ Len(name) \in Nat /\ Len(name) >= 4
  <2>1. FileNames[1] \in Seq(Letter) /\ Len(FileNames[1]) >= 4
    BY <1>1, <1>2, FirstFile, FileTesterAssumption
  <2>2. w \in Letter
    BY DEF Letter
  <2> DEFINE f == FileNames[1]
  <2> HIDE DEF f
  <2>3. f \in Seq(Letter) /\ Len(f) >= 4 /\ name = Append(f, w)
    BY <1>6, <2>1 DEF f
  <2>4. name \in Seq(Letter) /\ Len(name) = Len(f) + 1 /\ Len(f) \in Nat
    BY <2>2, <2>3
  <2> QED
    BY <2>3, <2>4
<1> QED
  BY <1>3, <1>4, <1>5, <1>6 DEF Names

\* The parts of a path.
LEMMA FrontLast ==
  ASSUME NEW d \in Path, NEW name \in Names
  PROVE  /\ Append(d, name) \in Path /\ Append(d, name) # Root
         /\ Front(Append(d, name)) = d /\ Last(Append(d, name)) = name
<1> DEFINE p == Append(d, name)
           n == Len(d)
<1>1. /\ p \in Seq(Names) /\ Len(p) = n + 1 /\ p[n+1] = name /\ p # <<>> /\ n \in Nat
      /\ \A i \in 1..n : p[i] = d[i]
  BY DEF Path
<1> HIDE DEF p
<1>2. /\ SubSeq(p, 1, n) \in Seq(Names) /\ Len(SubSeq(p, 1, n)) = n
      /\ \A i \in 1..n : SubSeq(p, 1, n)[i] = p[i]
  <2> HIDE DEF n
  <2> QED
    BY <1>1, FrontAndLast
<1>3. SubSeq(p, 1, n) = d
  BY <1>1, <1>2, SeqEqual DEF Path
<1>4. Len(p) - 1 = n
  BY <1>1
<1>5. Front(p) = d
  BY <1>3, <1>4, Zenon DEF Front
<1>6. Last(p) = name
  BY <1>1 DEF Last
<1> QED
  BY <1>1, <1>5, <1>6 DEF p, Path, Root

\* A path but the root is a directory and a name.
LEMMA PathParts ==
  ASSUME NEW p \in Path, p # Root
  PROVE  /\ Front(p) \in Path /\ Last(p) \in Names /\ p = Append(Front(p), Last(p))
         /\ Len(p) \in Nat \ {0} /\ Len(Front(p)) = Len(p) - 1
<1> DEFINE n == Len(p) - 1
<1>1. p \in Seq(Names) /\ Len(p) \in Nat \ {0}
  BY DEF Path, Root
<1>2. n \in Nat /\ Len(p) = n + 1
  BY <1>1
<1> HIDE DEF n
<1>3. /\ SubSeq(p, 1, n) \in Seq(Names) /\ Len(SubSeq(p, 1, n)) = n /\ p[n+1] \in Names
      /\ p = Append(SubSeq(p, 1, n), p[n+1])
  BY <1>1, <1>2, FrontAndLast
<1>4. Front(p) = SubSeq(p, 1, n)
  BY Zenon DEF Front, n
<1>5. Last(p) = p[n+1]
  BY <1>2, Zenon DEF Last
<1> QED
  BY <1>1, <1>3, <1>4, <1>5 DEF Path, n

\* The root is a path.
LEMMA RootPath ==
  ASSUME NEW name \in Names
  PROVE  /\ <<name>> \in Path /\ <<name>> # Root /\ Front(<<name>>) = Root /\ Last(<<name>>) = name
         /\ Root \in Path
<1>1. Root \in Path /\ Append(Root, name) = <<name>>
  BY DEF Root, Path
<1> QED
  BY <1>1, FrontLast

\* A name in a directory of the root.
LEMMA TwoNames ==
  ASSUME NEW a \in Names, NEW b \in Names
  PROVE  /\ <<a, b>> \in Path /\ <<a, b>> # Root /\ Front(<<a, b>>) = <<a>> /\ Last(<<a, b>>) = b
<1>1. <<a>> \in Path
  BY DEF Path
<1>2. Append(<<a>>, b) = <<a, b>>
  BY TwoInSeq
<1> QED
  BY <1>1, <1>2, FrontLast
-----------------------------------------------------------------------------
(* The directories: makeRandomDirs() *)

DirsTable(n, g) ==
  g = [k \in 0..n |->
         IF k = 0 THEN {{Root}}
         ELSE UNION {{dirs \cup {Append(d, DirNames[k])} : d \in dirs} : dirs \in g[k-1]}]

\* The directories are made one after the other.
LEMMA DirsExist ==
  ASSUME NEW n \in Nat
  PROVE  \E g : DirsTable(n, g)
<1> DEFINE S == {m \in Nat : \E g : DirsTable(m, g)}
           next(k, gs) == UNION {{dirs \cup {Append(d, DirNames[k])} : d \in dirs} : dirs \in gs}
<1>0. \A m, g : DirsTable(m, g) <=> g = [k \in 0..m |-> IF k = 0 THEN {{Root}} ELSE next(k, g[k-1])]
  BY DEF DirsTable
<1> HIDE DEF next
<1>1. 0 \in S
  <2> DEFINE g == [k \in 0..0 |-> {{Root}}]
  <2>1. g = [k \in 0..0 |-> IF k = 0 THEN {{Root}} ELSE next(k, g[k-1])]
    <3>1. \A k \in 0..0 : k = 0
      OBVIOUS
    <3> QED
      BY <3>1
  <2> HIDE DEF g
  <2> QED
    BY <1>0, <2>1
<1>2. ASSUME NEW m \in S
      PROVE  m + 1 \in S
  <2>1. PICK g : DirsTable(m, g)
    BY <1>2
  <2>2. m \in Nat
    BY <1>2
  <2> DEFINE h == [k \in 0..m+1 |-> IF k = 0 THEN {{Root}} ELSE next(k, g[k-1])]
  <2>3. \A k \in 0..m : g[k] = IF k = 0 THEN {{Root}} ELSE next(k, g[k-1])
    BY <1>0, <2>1
  <2>4. \A k \in 0..m : k \in 0..m+1
    BY <2>2
  <2>5. \A k \in 0..m : h[k] = g[k]
    BY <2>3, <2>4
  <2>6. \A k \in 0..m+1 : k # 0 => k - 1 \in 0..m
    BY <2>2
  <2>7. h = [k \in 0..m+1 |-> IF k = 0 THEN {{Root}} ELSE next(k, g[k-1])]
    OBVIOUS
  <2> HIDE DEF h
  <2>8. h = [k \in 0..m+1 |-> IF k = 0 THEN {{Root}} ELSE next(k, h[k-1])]
    BY <2>5, <2>6, <2>7
  <2>9. DirsTable(m + 1, h) /\ m + 1 \in Nat
    <3>1. DirsTable(m + 1, h)
      BY <1>0, <2>8, Zenon
    <3> QED
      BY <2>2, <3>1
  <2> QED
    BY <2>9
<1> HIDE DEF S
<1>3. S \in SUBSET Nat
  BY DEF S
<1>4. S = Nat
  BY <1>1, <1>2, <1>3, Induction
<1> QED
  BY <1>4 DEF S

\* With a directory there is the one it is in.
TreeOK(dirs) ==
  /\ Root \in dirs /\ dirs \subseteq Path
  /\ \A p \in dirs : p # Root => Front(p) \in dirs /\ Last(p) \in ToSet(DirNames)

\* One more directory in one of the others.
LEMMA TreeGrows ==
  ASSUME NEW dirs, TreeOK(dirs), NEW d \in dirs, NEW name \in ToSet(DirNames)
  PROVE  TreeOK(dirs \cup {Append(d, name)})
<1>1. name \in Names /\ d \in Path
  BY DEF Names, TreeOK
<1>2. /\ Append(d, name) \in Path
      /\ Front(Append(d, name)) = d /\ Last(Append(d, name)) = name
  BY <1>1, FrontLast
<1> QED
  BY <1>2 DEF TreeOK

\* The parent of every random directory is one of them.
LEMMA TreesOK == \A dirs \in RandomDirs[Len(DirNames)] : TreeOK(dirs)
<1> DEFINE n == Len(DirNames)
           S == {k \in Nat : k <= n => \A dirs \in RandomDirs[k] : TreeOK(dirs)}
<1>1. n \in Nat /\ DOMAIN DirNames = 1..n
  BY FileTesterAssumption
<1>2. \E g : DirsTable(n, g)
  BY <1>1, DirsExist
<1>3. DirsTable(n, RandomDirs)
  BY <1>2, Zenon DEF DirsTable, RandomDirs
<1> HIDE DEF n
<1>4. \A k \in 0..n : RandomDirs[k] =
         IF k = 0 THEN {{Root}}
         ELSE UNION {{dirs \cup {Append(d, DirNames[k])} : d \in dirs} : dirs \in RandomDirs[k-1]}
  BY <1>3 DEF DirsTable
<1>5. 0 \in S
  <2>1. RandomDirs[0] = {{Root}}
    <3>1. 0 \in 0..n
      BY <1>1
    <3> QED
      BY <1>4, <3>1
  <2>2. Root \in Path
    BY DEF Root, Path
  <2> QED
    BY <2>1, <2>2 DEF TreeOK
<1>6. ASSUME NEW k \in S
      PROVE  k + 1 \in S
  <2>1. k \in Nat
    BY <1>6
  <2>2. ASSUME k + 1 <= n, NEW u \in RandomDirs[k+1]
        PROVE  TreeOK(u)
    <3>1. k + 1 \in 0..n /\ k + 1 # 0 /\ (k + 1) - 1 = k /\ k <= n /\ k + 1 \in DOMAIN DirNames
      BY <1>1, <2>1, <2>2
    <3>2. u \in UNION {{dirs \cup {Append(d, DirNames[k+1])} : d \in dirs} : dirs \in RandomDirs[k]}
      BY <1>4, <2>2, <3>1
    <3>3. PICK dirs \in RandomDirs[k] : \E d \in dirs : u = dirs \cup {Append(d, DirNames[k+1])}
      BY <3>2
    <3>4. PICK d \in dirs : u = dirs \cup {Append(d, DirNames[k+1])}
      BY <3>3
    <3>5. TreeOK(dirs)
      BY <1>6, <3>1
    <3>6. DirNames[k+1] \in ToSet(DirNames)
      BY <3>1 DEF ToSet
    <3> QED
      BY <3>4, <3>5, <3>6, TreeGrows
  <2> QED
    BY <2>1, <2>2
<1> HIDE DEF S
<1>7. S \in SUBSET Nat
  BY DEF S
<1>8. S = Nat
  BY <1>5, <1>6, <1>7, Induction
<1>9. n \in S /\ n <= n
  BY <1>1, <1>8
<1> QED
  BY <1>9 DEF S, n

SeedOK(s) ==
  /\ TreeOK(s.dirs) /\ s.places \in [DOMAIN FileNames -> s.dirs]
  /\ s.draw \in DOMAIN Draws

\* Every seed places every file in one of its directories.
LEMMA SeedsOK ==
  ASSUME NEW s \in Seeds
  PROVE  SeedOK(s)
<1>1. PICK dirs \in RandomDirs[Len(DirNames)] :
        s \in [dirs : {dirs}, places : [DOMAIN FileNames -> dirs], draw : DOMAIN Draws]
  BY DEF Seeds
<1> QED
  BY <1>1, TreesOK DEF SeedOK

-----------------------------------------------------------------------------
(* What is at a path *)

NodeOK(node) ==
  /\ node.dir \in BOOLEAN /\ node.perm \in Nat
  /\ ~ node.dir => FileOK(node.file)

\* The numbers that are drawn for the files.
LEMMA DrawsOK ==
  ASSUME NEW s, SeedOK(s)
  PROVE  LET draw == Draws[s.draw]
         IN  /\ draw.version \in VersionMin..VersionMax /\ draw.sectNr \in SectMin..SectMax
             /\ \A i \in DOMAIN FileNames : draw.perms[i] \in Nat
             /\ BodyOK(draw.first) /\ BodyOK(draw.rest) /\ BodyOK(draw.huge)
<1> DEFINE draw == Draws[s.draw]
<1>1. draw \in ToSet(Draws)
  BY DEF SeedOK, ToSet
<1> HIDE DEF draw
<1>2. /\ draw.version \in VersionMin..VersionMax /\ draw.sectNr \in SectMin..SectMax
      /\ \A i \in DOMAIN FileNames : draw.perms[i] \in 0..511
      /\ \A body \in {draw.first, draw.rest, draw.huge} :
           /\ body \in Seq(Seq(STRING \ {NL}))
           /\ Len(Joined(body)) <= CHUNK_SIZE \/ Len(body) < FindLines
  BY <1>1, FileTesterAssumption
<1>3. \A body \in {draw.first, draw.rest, draw.huge} : BodyOK(body)
  BY <1>2 DEF BodyOK, Body
<1>4. \A i \in DOMAIN FileNames : draw.perms[i] \in Nat
  <2>1. \A x \in 0..511 : x \in Nat
    OBVIOUS
  <2>2. \A i \in DOMAIN FileNames : draw.perms[i] \in 0..511
    BY <1>2
  <2> QED
    BY <2>1, <2>2, Zenon
<1> QED
  BY <1>2, <1>3, <1>4 DEF draw

\* The node of a file, which is valid if nothing is wrong with it.
FileNode(node) == NodeOK(node) /\ node.dir = FALSE
GoodNode(node) == FileNode(node) /\ Complaint(node.file) = "none"

\* What a node of a file is.
LEMMA FileNodeIs ==
  ASSUME NEW f, NEW p \in Nat, FileOK(f), f.perm = p
  PROVE  FileNode(File(f)) /\ File(f).file = f
<1>1. /\ File(f).dir = FALSE /\ File(f).perm = p /\ File(f).file = f
  BY DEF File
<1> QED
  BY <1>1 DEF FileNode, NodeOK

\* Every file the tester makes can be read, and is valid if nothing was made wrong.
LEMMA SectionNode ==
  ASSUME NEW s, SeedOK(s), NEW wrong, NEW i \in DOMAIN FileNames, NEW bodies,
         bodies = Bodies(s) \/ (wrong = "nothing" /\ bodies = HugeBodies(s))
  PROVE  /\ FileNode(Section(s, wrong, bodies, i))
         /\ wrong = "nothing" => GoodNode(Section(s, wrong, bodies, i))
<1> DEFINE draw == Draws[s.draw]
           f == GenSectionFile(wrong, draw.version, draw.sectNr, bodies, draw.perms[i])
<1>1. /\ draw.version \in VersionMin..VersionMax /\ draw.sectNr \in SectMin..SectMax
      /\ draw.perms[i] \in Nat
      /\ BodyOK(draw.first) /\ BodyOK(draw.rest) /\ BodyOK(draw.huge)
  BY DrawsOK
<1>2. \A j \in 1..2*SectMax : wrong = "sect_nr" \/ j <= SectMax => BodyOK(bodies[j])
  <2>1. CASE bodies = Bodies(s)
    <3>1. \A j \in 1..2*SectMax : bodies[j] = IF j = 1 THEN draw.first ELSE draw.rest
      BY <2>1 DEF Bodies
    <3> QED
      BY <1>1, <3>1
  <2>2. CASE wrong = "nothing" /\ bodies = HugeBodies(s)
    <3>1. \A j \in 1..2*SectMax : j <= SectMax => j \in 1..SectMax
      BY SectionFileAssumption
    <3>2. \A j \in 1..SectMax : bodies[j] = draw.huge
      BY <2>2 DEF HugeBodies
    <3>3. wrong # "sect_nr"
      BY <2>2
    <3> QED
      BY <1>1, <3>1, <3>2, <3>3
  <2> QED
    BY <2>1, <2>2
<1>3. Section(s, wrong, bodies, i) = File(f)
  BY DEF Section
<1>4. f.perm = draw.perms[i]
  BY DEF GenSectionFile
<1> HIDE DEF draw
<1>5. FileOK(f)
  BY <1>1, <1>2, MadeOK
<1>6. wrong = "nothing" => Complaint(f) = "none"
  BY <1>1, GoodFile
<1> HIDE DEF f
<1>7. FileNode(File(f)) /\ File(f).file = f
  BY <1>1, <1>4, <1>5, FileNodeIs
<1> QED
  BY <1>3, <1>6, <1>7 DEF GoodNode

\* A directory is no file.
LEMMA DirNode == NodeOK(Dir) /\ Dir.dir = TRUE
BY DEF NodeOK, Dir
-----------------------------------------------------------------------------
(* The parts of the file system, one after the other *)

IsMade(h, f, g) == h = Made(f, g)
IsInside(h, name, files) == h = Inside(name, files)

Built(s, k) ==
  LET one == Made(<<>>, Part(s, 1))
      two == Made(one, Part(s, 2))
      three == Made(two, Part(s, 3))
  IN  CASE k = 1 -> <<>> [] k = 2 -> one [] k = 3 -> two [] k = 4 -> three
        [] k = 5 -> Made(three, Part(s, 4))

TestFs(s) == Built(s, 5)

\* buildTestFs() does one step more.
LEMMA BuiltStep ==
  ASSUME NEW s, NEW k \in 1..4
  PROVE  Built(s, k + 1) = Made(Built(s, k), Part(s, k))
<1>1. k \in {1, 2, 3, 4} /\ 1 + 1 = 2 /\ 2 + 1 = 3 /\ 3 + 1 = 4 /\ 4 + 1 = 5
  OBVIOUS
<1>2. CASE k = 1
  BY <1>1, <1>2 DEF Built
<1>3. CASE k = 2
  BY <1>1, <1>3 DEF Built
<1>4. CASE k = 3
  BY <1>1, <1>4 DEF Built
<1>5. CASE k = 4
  BY <1>1, <1>5 DEF Built
<1> QED
  BY <1>1, <1>2, <1>3, <1>4, <1>5

\* The paths of each part.
FilePaths(s) == DOMAIN RandomFiles(s)
BadPaths(s) == DOMAIN CorruptedFiles(s)
HugePaths(s) == DOMAIN HugeFiles(s)

\* The paths of the random files.
LEMMA FilePathsAre ==
  ASSUME NEW s, SeedOK(s), NEW p \in FilePaths(s)
  PROVE  /\ p \in Path /\ p # Root /\ Front(p) \in s.dirs /\ Last(p) \in ToSet(FileNames)
         /\ GoodNode(RandomFiles(s)[p])
<1> DEFINE path(i) == Append(s.places[i], FileNames[i])
           P == {path(i) : i \in DOMAIN FileNames}
           j == CHOOSE i \in DOMAIN FileNames : path(i) = p
<1>1. RandomFiles(s) = [q \in P |-> Section(s, "nothing", Bodies(s),
                                            CHOOSE i \in DOMAIN FileNames : path(i) = q)]
  BY DEF RandomFiles
<1>2. p \in P
  BY <1>1 DEF FilePaths
<1>3. RandomFiles(s)[p] = Section(s, "nothing", Bodies(s), j)
  BY <1>1, <1>2
<1>4. j \in DOMAIN FileNames /\ path(j) = p
  <2>1. \E i \in DOMAIN FileNames : path(i) = p
    BY <1>2
  <2> HIDE DEF path
  <2> QED
    BY <2>1
<1> HIDE DEF j
<1>5. GoodNode(RandomFiles(s)[p])
  BY <1>3, <1>4, SectionNode
<1>6. s.places[j] \in s.dirs /\ s.places[j] \in Path
  BY <1>4 DEF SeedOK, TreeOK
<1>7. FileNames[j] \in ToSet(FileNames) /\ FileNames[j] \in Names
  BY <1>4 DEF ToSet, Names
<1>8. p = Append(s.places[j], FileNames[j])
  BY <1>4
<1> QED
  BY <1>5, <1>6, <1>7, <1>8, FrontLast

\* The paths of the corrupted files.
LEMMA BadPathsAre ==
  ASSUME NEW s, SeedOK(s), NEW p \in BadPaths(s)
  PROVE  /\ p \in Path /\ p # Root /\ Front(p) = <<Corrupted>> /\ Len(Last(p)) >= 4
         /\ FileNode(CorruptedFiles(s)[p])
<1>1. CorruptedFiles(s) = [w \in {<<Corrupted, Append(FileNames[1], v)>> : v \in Wrongs} |->
                             Section(s, Last(w[2]), Bodies(s), 1)]
  BY DEF CorruptedFiles
<1>2. PICK w \in Wrongs : p = <<Corrupted, Append(FileNames[1], w)>>
  BY <1>1 DEF BadPaths
<1>3. CorruptedFiles(s)[p] = Section(s, Last(p[2]), Bodies(s), 1)
  BY <1>1 DEF BadPaths
<1>4. FileNode(CorruptedFiles(s)[p])
  BY <1>3, FirstFile, SectionNode
<1>5. Corrupted \in Names /\ Append(FileNames[1], w) \in Names
  BY DEF Names
<1> QED
  BY <1>2, <1>4, <1>5, TwoNames, NamesAre

\* The paths of the huge files.
LEMMA HugePathsAre ==
  ASSUME NEW s, SeedOK(s), NEW p \in HugePaths(s)
  PROVE  /\ p \in Path /\ p # Root /\ Front(p) = <<Huge>> /\ Last(p) \in ToSet(FileNames)
         /\ GoodNode(HugeFiles(s)[p])
<1>2. /\ HugePaths(s) = {<<Huge, FileNames[1]>>}
      /\ HugeFiles(s)[<<Huge, FileNames[1]>>] = Section(s, "nothing", HugeBodies(s), 1)
  BY DEF HugePaths, HugeFiles
<1>3. GoodNode(HugeFiles(s)[p])
  BY <1>2, FirstFile, SectionNode
<1>4. Huge \in Names /\ FileNames[1] \in Names
  BY FirstFile DEF Names
<1> QED
  BY <1>2, <1>3, <1>4, TwoNames, FirstFile

-----------------------------------------------------------------------------
(* The whole file system *)

\* The parts do not meet.
LEMMA PartsApart ==
  ASSUME NEW s, SeedOK(s)
  PROVE  /\ \A p \in FilePaths(s) : p \notin s.dirs
         /\ <<Corrupted>> \notin s.dirs \cup FilePaths(s)
         /\ <<Huge>> \notin s.dirs \cup FilePaths(s) \cup {<<Corrupted>>} \cup BadPaths(s)
         /\ \A p \in BadPaths(s) : p \notin s.dirs \cup FilePaths(s) \cup {<<Corrupted>>}
         /\ \A p \in HugePaths(s) :
              p \notin s.dirs \cup FilePaths(s) \cup {<<Corrupted>>} \cup BadPaths(s) \cup {<<Huge>>}
<1> DEFINE c == <<Corrupted>>
           h == <<Huge>>
<1>1. Corrupted \in Names /\ Huge \in Names
  BY DEF Names
<1>2. /\ c # Root /\ Front(c) = Root /\ Last(c) = Corrupted
      /\ h # Root /\ Front(h) = Root /\ Last(h) = Huge
  BY <1>1, RootPath
<1>3. Corrupted # Huge
  <2>1. Corrupted[2] = "c" /\ Huge[2] = "h"
    BY DEF Corrupted, Huge
  <2> QED
    BY <2>1
<1>4. /\ \A name \in ToSet(DirNames) : name \notin ToSet(FileNames)
      /\ Corrupted \notin ToSet(DirNames) /\ Corrupted \notin ToSet(FileNames)
      /\ Huge \notin ToSet(DirNames) /\ Huge \notin ToSet(FileNames)
  BY FileTesterAssumption
<1>5. c # h
  BY <1>2, <1>3
<1> HIDE DEF c, h
<1>6. \A p \in s.dirs : p # Root => Front(p) \in s.dirs /\ Last(p) \in ToSet(DirNames)
  BY DEF SeedOK, TreeOK
<1>7. \A p \in FilePaths(s) : p # Root /\ Front(p) \in s.dirs /\ Last(p) \in ToSet(FileNames)
  BY FilePathsAre
<1>8. \A p \in BadPaths(s) : p # Root /\ Front(p) = c
  BY BadPathsAre DEF c
<1>9. \A p \in HugePaths(s) : p # Root /\ Front(p) = h /\ Last(p) \in ToSet(FileNames)
  BY HugePathsAre DEF h
<1>10. c \notin s.dirs /\ h \notin s.dirs
  BY <1>2, <1>4, <1>6
<1>11. c \notin FilePaths(s) /\ h \notin FilePaths(s)
  BY <1>2, <1>4, <1>7
<1>12. h \notin BadPaths(s)
  BY <1>2, <1>8
<1>13. \A p \in FilePaths(s) : p \notin s.dirs
  BY <1>4, <1>6, <1>7
<1>14. \A p \in BadPaths(s) : p \notin s.dirs /\ p \notin FilePaths(s) /\ p # c
  BY <1>2, <1>6, <1>7, <1>8, <1>10
<1>15. \A p \in HugePaths(s) :
         p \notin s.dirs /\ p \notin FilePaths(s) /\ p # c /\ p \notin BadPaths(s) /\ p # h
  BY <1>2, <1>5, <1>6, <1>7, <1>8, <1>9, <1>10
<1> QED
  BY <1>5, <1>10, <1>11, <1>12, <1>13, <1>14, <1>15 DEF c, h

Whole(s, fs) ==
  /\ DOMAIN fs = s.dirs \cup FilePaths(s) \cup ({<<Corrupted>>} \cup BadPaths(s))
                   \cup ({<<Huge>>} \cup HugePaths(s))
  /\ \A p \in s.dirs : fs[p] = Dir
  /\ \A p \in FilePaths(s) : GoodNode(fs[p])
  /\ fs[<<Corrupted>>] = Dir /\ fs[<<Huge>>] = Dir
  /\ \A p \in BadPaths(s) : FileNode(fs[p])
  /\ \A p \in HugePaths(s) : GoodNode(fs[p])

\* When buildTestFs() is done, everything it makes is there and is what it was made as.
LEMMA TestFsWhole ==
  ASSUME NEW s, SeedOK(s)
  PROVE  Whole(s, TestFs(s))
<1> DEFINE c == <<Corrupted>>
           h == <<Huge>>
           A == Built(s, 2)
           B == Built(s, 3)
           C == Built(s, 4)
           D == Built(s, 5)
           D1 == s.dirs
           D2 == FilePaths(s)
           D3 == BadPaths(s)
           D4 == HugePaths(s)
<1>1. /\ \A p \in D2 : p \notin D1
      /\ c \notin D1 \cup D2
      /\ h \notin D1 \cup D2 \cup {c} \cup D3
      /\ \A p \in D3 : p \notin D1 \cup D2 \cup {c}
      /\ \A p \in D4 : p \notin D1 \cup D2 \cup {c} \cup D3 \cup {h}
  BY PartsApart
<1>2. /\ \A p \in D2 : GoodNode(RandomFiles(s)[p])
      /\ \A p \in D3 : FileNode(CorruptedFiles(s)[p])
      /\ \A p \in D4 : GoodNode(HugeFiles(s)[p])
  BY FilePathsAre, BadPathsAre, HugePathsAre
<1>3. /\ IsMade(A, Built(s, 1), Part(s, 1)) /\ IsMade(B, A, Part(s, 2))
      /\ IsMade(C, B, Part(s, 3)) /\ IsMade(D, C, Part(s, 4))
  <2>1. 1 + 1 = 2 /\ 2 + 1 = 3 /\ 3 + 1 = 4 /\ 4 + 1 = 5
    OBVIOUS
  <2>2. /\ Built(s, 1 + 1) = Made(Built(s, 1), Part(s, 1))
        /\ Built(s, 2 + 1) = Made(Built(s, 2), Part(s, 2))
        /\ Built(s, 3 + 1) = Made(Built(s, 3), Part(s, 3))
        /\ Built(s, 4 + 1) = Made(Built(s, 4), Part(s, 4))
    BY BuiltStep
  <2> QED
    BY <2>1, <2>2 DEF IsMade
<1>4. /\ DOMAIN Built(s, 1) = {}
      /\ Part(s, 1) = [p \in s.dirs |-> Dir] /\ Part(s, 2) = RandomFiles(s)
      /\ IsInside(Part(s, 3), Corrupted, CorruptedFiles(s))
      /\ IsInside(Part(s, 4), Huge, HugeFiles(s))
  BY DEF Built, Part, IsInside
<1> HIDE DEF A, B, C, D
<1>5. /\ DOMAIN A = D1 /\ \A p \in D1 : A[p] = Dir
  <2>1. /\ DOMAIN A = DOMAIN Built(s, 1) \cup DOMAIN Part(s, 1)
        /\ \A p \in DOMAIN Part(s, 1) : p \notin DOMAIN Built(s, 1) => A[p] = Part(s, 1)[p]
    BY <1>3 DEF IsMade, Made
  <2> QED
    BY <1>4, <2>1
<1>6. /\ DOMAIN B = D1 \cup D2 /\ (\A p \in D1 : B[p] = Dir)
      /\ \A p \in D2 : GoodNode(B[p])
  <2>1. DOMAIN RandomFiles(s) = D2
    BY DEF FilePaths
  <2> QED
    <3>1. /\ DOMAIN B = DOMAIN A \cup DOMAIN Part(s, 2)
          /\ \A p \in DOMAIN A : B[p] = A[p]
          /\ \A p \in DOMAIN Part(s, 2) : p \notin DOMAIN A => B[p] = Part(s, 2)[p]
      BY <1>3 DEF IsMade, Made
    <3> QED
      BY <1>1, <1>2, <1>4, <1>5, <2>1, <3>1
<1>7. /\ DOMAIN Part(s, 3) = {c} \cup D3 /\ Part(s, 3)[c] = Dir
      /\ \A p \in D3 : FileNode(Part(s, 3)[p])
  <2>1. DOMAIN CorruptedFiles(s) = D3
    BY DEF BadPaths
  <2> QED
    <3>1. /\ DOMAIN Part(s, 3) = {c} \cup DOMAIN CorruptedFiles(s) /\ Part(s, 3)[c] = Dir
          /\ \A p \in DOMAIN CorruptedFiles(s) : p # c => Part(s, 3)[p] = CorruptedFiles(s)[p]
      BY <1>4 DEF IsInside, Inside, c, h
    <3> QED
      BY <1>1, <1>2, <2>1, <3>1
<1>8. /\ DOMAIN Part(s, 4) = {h} \cup D4 /\ Part(s, 4)[h] = Dir
      /\ \A p \in D4 : GoodNode(Part(s, 4)[p])
  <2>1. DOMAIN HugeFiles(s) = D4
    BY DEF HugePaths
  <2> QED
    <3>1. /\ DOMAIN Part(s, 4) = {h} \cup DOMAIN HugeFiles(s) /\ Part(s, 4)[h] = Dir
          /\ \A p \in DOMAIN HugeFiles(s) : p # h => Part(s, 4)[p] = HugeFiles(s)[p]
      BY <1>4 DEF IsInside, Inside, c, h
    <3> QED
      BY <1>1, <1>2, <2>1, <3>1
<1> HIDE DEF c, h, D1, D2, D3, D4
<1>9. /\ DOMAIN C = D1 \cup D2 \cup ({c} \cup D3)
      /\ \A p \in D1 : C[p] = Dir
      /\ \A p \in D2 : GoodNode(C[p])
      /\ C[c] = Dir /\ \A p \in D3 : FileNode(C[p])
  <2>1. /\ DOMAIN C = DOMAIN B \cup DOMAIN Part(s, 3)
        /\ \A p \in DOMAIN B : C[p] = B[p]
        /\ \A p \in DOMAIN Part(s, 3) : p \notin DOMAIN B => C[p] = Part(s, 3)[p]
    BY <1>3 DEF IsMade, Made
  <2> QED
    BY <1>1, <1>6, <1>7, <2>1
<1>10. /\ DOMAIN D = D1 \cup D2 \cup ({c} \cup D3) \cup ({h} \cup D4)
       /\ \A p \in D1 : D[p] = Dir
       /\ \A p \in D2 : GoodNode(D[p])
       /\ D[c] = Dir /\ D[h] = Dir
       /\ \A p \in D3 : FileNode(D[p])
       /\ \A p \in D4 : GoodNode(D[p])
  <2>1. /\ DOMAIN D = DOMAIN C \cup DOMAIN Part(s, 4)
        /\ \A p \in DOMAIN C : D[p] = C[p]
        /\ \A p \in DOMAIN Part(s, 4) : p \notin DOMAIN C => D[p] = Part(s, 4)[p]
    BY <1>3 DEF IsMade, Made
  <2> QED
    BY <1>1, <1>8, <1>9, <2>1
<1> QED
  BY <1>10 DEF Whole, TestFs, D, D1, D2, D3, D4, c, h

\* Every entry is in a directory, its name has four characters or more, and a file is
\* one the tester makes.
FsOK(fs) ==
  \A p \in DOMAIN fs :
    /\ p \in Path /\ NodeOK(fs[p])
    /\ p # Root => Front(p) \in DOMAIN fs /\ fs[Front(p)].dir

\* Everything is in a directory that exists.
LEMMA TestFsOK ==
  ASSUME NEW s, SeedOK(s)
  PROVE  FsOK(TestFs(s))
<1> DEFINE fs == TestFs(s)
           c == <<Corrupted>>
           h == <<Huge>>
<1>1. Whole(s, fs)
  BY TestFsWhole
<1> HIDE DEF fs
<1>2. s.dirs \subseteq Path /\ Root \in s.dirs
      /\ \A p \in s.dirs : p # Root => Front(p) \in s.dirs
  BY DEF SeedOK, TreeOK
<1>3. c \in Path /\ Front(c) = Root /\ h \in Path /\ Front(h) = Root
  BY RootPath DEF Names
<1>4. \A p \in s.dirs : p \in DOMAIN fs /\ fs[p].dir /\ NodeOK(fs[p])
  BY <1>1, DirNode DEF Whole
<1>5. c \in DOMAIN fs /\ fs[c].dir /\ NodeOK(fs[c]) /\ h \in DOMAIN fs /\ fs[h].dir /\ NodeOK(fs[h])
  BY <1>1, DirNode DEF Whole
<1>6. \A p \in FilePaths(s) : p \in Path /\ Front(p) \in s.dirs /\ NodeOK(fs[p])
  BY <1>1, FilePathsAre DEF Whole, GoodNode, FileNode
<1>7. \A p \in BadPaths(s) : p \in Path /\ Front(p) = c /\ NodeOK(fs[p])
  BY <1>1, BadPathsAre DEF Whole, FileNode
<1>8. \A p \in HugePaths(s) : p \in Path /\ Front(p) = h /\ NodeOK(fs[p])
  BY <1>1, HugePathsAre DEF Whole, GoodNode, FileNode
<1>9. ASSUME NEW p \in DOMAIN fs
      PROVE  /\ p \in Path /\ NodeOK(fs[p])
             /\ p # Root => Front(p) \in DOMAIN fs /\ fs[Front(p)].dir
  <2>1. p \in s.dirs \/ p \in FilePaths(s) \/ p = c \/ p \in BadPaths(s) \/ p = h \/ p \in HugePaths(s)
    BY <1>1 DEF Whole
  <2>2. CASE p \in s.dirs
    BY <1>2, <1>4, <2>2
  <2>3. CASE p \in FilePaths(s)
    BY <1>4, <1>6, <2>3
  <2>4. CASE p = c \/ p = h
    BY <1>2, <1>3, <1>4, <1>5, <2>4
  <2>5. CASE p \in BadPaths(s)
    BY <1>5, <1>7, <2>5
  <2>6. CASE p \in HugePaths(s)
    BY <1>5, <1>8, <2>6
  <2> QED
    BY <2>1, <2>2, <2>3, <2>4, <2>5, <2>6
<1> QED
  BY <1>9 DEF FsOK, fs

\* The name of an entry is no shorter than four characters.
LEMMA EntryName ==
  ASSUME NEW fs, FsOK(fs), NEW p \in DOMAIN fs, p # Root
  PROVE  Last(p) \in Seq(Letter) /\ Len(Last(p)) \in Nat /\ Len(Last(p)) >= 4
<1>1. Last(p) \in Names
  BY PathParts DEF FsOK
<1> QED
  BY <1>1, NamesAre

\* What is below a directory is below one of its entries, or is one.
LEMMA Descend ==
  ASSUME NEW fs, FsOK(fs), NEW d \in Path, NEW p \in DOMAIN fs, IsStrictPrefix(d, p)
  PROVE  d \in DOMAIN fs /\ fs[d].dir /\ \E r \in Children(fs, d) : IsPrefix(r, p)
<1> DEFINE Goal(q) == d \in DOMAIN fs /\ fs[d].dir /\ \E r \in Children(fs, d) : IsPrefix(r, q)
           S == {n \in Nat : \A q \in DOMAIN fs :
                               Len(q) = Len(d) + n + 1 /\ IsPrefix(d, q) => Goal(q)}
<1>1. d \in Seq(Names) /\ Len(d) \in Nat
  BY DEF Path
<1>2. \A q \in DOMAIN fs : q \in Seq(Names) /\ Len(q) \in Nat
  BY DEF FsOK, Path
<1>3. ASSUME NEW q \in DOMAIN fs, NEW n \in Nat, Len(q) = Len(d) + n + 1, IsPrefix(d, q)
      PROVE  /\ q # Root /\ Front(q) \in DOMAIN fs /\ fs[Front(q)].dir
             /\ Len(Front(q)) = Len(d) + n /\ IsPrefix(d, Front(q))
             /\ \A r \in Path : IsPrefix(r, Front(q)) => IsPrefix(r, q)
  <2>1. q # Root
    <3>1. Len(q) # 0
      BY <1>1, <1>3
    <3> QED
      BY <3>1 DEF Root
  <2>2. q \in Path
    BY DEF FsOK
  <2>3. /\ Front(q) \in DOMAIN fs /\ fs[Front(q)].dir
    BY <2>1 DEF FsOK
  <2>4. /\ Front(q) \in Path /\ Last(q) \in Names /\ q = Append(Front(q), Last(q))
        /\ Len(Front(q)) = Len(q) - 1
    BY <2>1, <2>2, PathParts
  <2> DEFINE f == Front(q)
  <2> HIDE DEF f
  <2>5. f \in Seq(Names) /\ q = Append(f, Last(q)) /\ Len(f) = Len(q) - 1 /\ Len(f) = Len(d) + n
    <3> DEFINE a == Len(f)
               b == Len(q)
               c == Len(d)
    <3>1. a = b - 1 /\ b = c + n + 1 /\ c \in Nat
      BY <1>1, <1>3, <2>4 DEF f
    <3> HIDE DEF a, b, c
    <3>2. a = b - 1 /\ a = c + n
      BY <3>1
    <3>3. f \in Seq(Names) /\ q = Append(f, Last(q))
      BY <2>4 DEF f, Path
    <3> QED
      BY <3>2, <3>3 DEF a, b, c
  <2>6. ASSUME NEW k \in Nat, k <= Len(f)
        PROVE  SubSeq(q, 1, k) = SubSeq(f, 1, k)
    <3>1. \A i \in 1..k : q[i] = f[i]
      BY <2>5, <2>6
    <3> DEFINE t == SubSeq(q, 1, k)
               u == SubSeq(f, 1, k)
    <3>2. t = [i \in 1..k |-> q[i]] /\ u = [i \in 1..k |-> f[i]]
      OBVIOUS
    <3> HIDE DEF t, u
    <3>3. t = u
      BY <3>1, <3>2
    <3> QED
      BY <3>3 DEF t, u
  <2>7. IsPrefix(d, f)
    <3>1. Len(d) <= Len(f)
      BY <1>1, <2>5
    <3> QED
      BY <1>1, <1>3, <2>6, <3>1 DEF IsPrefix
  <2>8. ASSUME NEW r \in Path, IsPrefix(r, f)
        PROVE  IsPrefix(r, q)
    <3>1. Len(r) \in Nat /\ Len(r) <= Len(f) /\ SubSeq(r, 1, Len(r)) = SubSeq(f, 1, Len(r))
      BY <2>8 DEF IsPrefix, Path
    <3>2. Len(r) <= Len(q)
      BY <1>1, <1>3, <2>5, <3>1
    <3> QED
      BY <2>6, <3>1, <3>2 DEF IsPrefix
  <2> QED
    BY <2>1, <2>3, <2>5, <2>7, <2>8 DEF f
<1> HIDE DEF Goal
<1>4. 0 \in S
  <2>1. ASSUME NEW q \in DOMAIN fs, Len(q) = Len(d) + 0 + 1, IsPrefix(d, q)
        PROVE  Goal(q)
    <3>1. /\ q # Root /\ Front(q) \in DOMAIN fs /\ fs[Front(q)].dir
          /\ Len(Front(q)) = Len(d) + 0 /\ IsPrefix(d, Front(q))
      BY <1>3, <2>1
    <3> DEFINE f == Front(q)
    <3>2. f \in Seq(Names) /\ Len(f) = Len(d)
      BY <1>1, <1>2, <3>1
    <3> HIDE DEF f
    <3>3. SubSeq(d, 1, Len(d)) = SubSeq(f, 1, Len(f))
      BY <3>1, <3>2 DEF IsPrefix, f
    <3>4. SubSeq(d, 1, Len(d)) = d /\ SubSeq(f, 1, Len(f)) = f
      BY <1>1, <3>2
    <3>5. f = d
      BY <3>3, <3>4
    <3>6. IsPrefix(q, q)
      BY <1>2 DEF IsPrefix
    <3>7. q \in Children(fs, d)
      BY <3>1, <3>5 DEF Children, f
    <3> QED
      BY <3>1, <3>5, <3>6, <3>7 DEF Goal, f
  <2> QED
    BY <2>1
<1>5. ASSUME NEW n \in S
      PROVE  n + 1 \in S
  <2>1. n \in Nat /\ \A q \in DOMAIN fs : Len(q) = Len(d) + n + 1 /\ IsPrefix(d, q) => Goal(q)
    BY <1>5
  <2>2. ASSUME NEW q \in DOMAIN fs, Len(q) = Len(d) + (n + 1) + 1, IsPrefix(d, q)
        PROVE  Goal(q)
    <3>0. n + 1 \in Nat
      BY <2>1
    <3>1. /\ Front(q) \in DOMAIN fs /\ Len(Front(q)) = Len(d) + (n + 1) /\ IsPrefix(d, Front(q))
          /\ \A r \in Path : IsPrefix(r, Front(q)) => IsPrefix(r, q)
      BY <1>3, <2>2, <3>0
    <3>2. Len(Front(q)) = Len(d) + n + 1
      BY <1>1, <2>1, <3>1
    <3>3. Goal(Front(q))
      BY <2>1, <3>1, <3>2
    <3>4. \A r \in Children(fs, d) : r \in Path
      BY DEF Children, FsOK
    <3> QED
      BY <3>1, <3>3, <3>4 DEF Goal
  <2> QED
    BY <2>1, <2>2
<1> HIDE DEF S
<1>6. S \in SUBSET Nat
  BY DEF S
<1>7. S = Nat
  BY <1>4, <1>5, <1>6, Induction
<1> DEFINE m == Len(p) - Len(d) - 1
<1>8. m \in Nat /\ Len(p) = Len(d) + m + 1
  <2>1. IsPrefix(d, p) /\ d # p
    BY DEF IsStrictPrefix
  <2>2. Len(d) <= Len(p) /\ SubSeq(d, 1, Len(d)) = SubSeq(p, 1, Len(d))
    BY <2>1 DEF IsPrefix
  <2>3. Len(d) # Len(p)
    <3>1. SubSeq(d, 1, Len(d)) = d /\ SubSeq(p, 1, Len(p)) = p
      BY <1>1, <1>2
    <3> QED
      BY <2>1, <2>2, <3>1
  <2>4. Len(p) \in Nat
    BY <1>2
  <2> QED
    BY <1>1, <2>2, <2>3, <2>4
<1>9. Goal(p)
  BY <1>7, <1>8 DEF S, IsStrictPrefix
<1> QED
  BY <1>9 DEF Goal

-----------------------------------------------------------------------------
(* The commands of the tests: generateTests() *)

CommandOK(fs, cmd) ==
  /\ cmd.op \in {"variant", "list", "parse", "extract", "findall"}
  /\ cmd.recursive \in BOOLEAN /\ (cmd.op = "findall" => cmd.recursive)
  /\ cmd.op \in {"list", "findall"} =>
       cmd.path \in DOMAIN fs /\ fs[cmd.path].dir /\ Len(cmd.name_ends_with) \in 0..4
  /\ cmd.op \in {"parse", "extract"} => cmd.path \in DOMAIN fs /\ fs[cmd.path].dir = FALSE
  /\ cmd.op = "extract" =>
       LET file == fs[cmd.path].file
       IN  /\ Complaint(file) = "none" /\ cmd.section \in DOMAIN file.sections
           /\ cmd.line \in DOMAIN SectionLines(file, cmd.section)

\* A command without options.
LEMMA PlainCommand ==
  ASSUME NEW op, NEW path
  PROVE  LET cmd == Command(op, path)
         IN  /\ cmd.op = op /\ cmd.path = path /\ cmd.recursive \in BOOLEAN
             /\ cmd.recursive <=> op = "findall"
             /\ cmd.name_ends_with = <<>> /\ Len(cmd.name_ends_with) \in 0..4
<1>1. Len(<<>>) = 0 /\ 0 \in 0..4
  OBVIOUS
<1> QED
  BY <1>1 DEF Command

\* A listing of a directory is a command for a1.
LEMMA ListOK ==
  ASSUME NEW fs, NEW d \in DOMAIN fs, fs[d].dir, NEW cmd, cmd.op = "list", cmd.path = d,
         cmd.recursive \in BOOLEAN, Len(cmd.name_ends_with) \in 0..4
  PROVE  CommandOK(fs, cmd)
BY DEF CommandOK

\* An ending of two to four characters is no longer than a name.
LEMMA EndingLength ==
  ASSUME NEW name \in Seq(Letter), Len(name) >= 4, NEW k \in 2..4
  PROVE  Len(SubSeq(name, Len(name) + 1 - k, Len(name))) \in 0..4
<1> DEFINE n == Len(name)
           lo == n + 1 - k
<1>1. n \in Nat /\ n >= 4
  OBVIOUS
<1>2. lo \in Int /\ lo <= n /\ n - lo + 1 = k /\ \A y \in lo..n : y \in 1..n
  BY <1>1
<1>3. \A y \in lo..n : name[y] \in Letter
  BY <1>2, ElementOfSeq
<1> HIDE DEF n, lo
<1>4. Len(SubSeq(name, lo, n)) = IF lo <= n THEN n - lo + 1 ELSE 0
  BY <1>1, <1>2, <1>3, SubSeqProperties
<1>5. Len(SubSeq(name, lo, n)) = k
  BY <1>2, <1>4
<1>6. k \in 0..4
  OBVIOUS
<1> QED
  BY <1>5, <1>6 DEF lo, n

\* A listing with a filter is a command for a1.
LEMMA FilteredOK ==
  ASSUME NEW fs, FsOK(fs), NEW d \in DOMAIN fs, fs[d].dir,
         NEW p \in Children(fs, d), NEW k \in 2..4
  PROVE  CommandOK(fs, Ended(d, p, k)) /\ CommandOK(fs, Allowed(fs, d, p))
<1> DEFINE ending == SubSeq(Last(p), Len(Last(p)) + 1 - k, Len(Last(p)))
           cmd == [Command("list", d) EXCEPT !.name_ends_with = ending]
           other == [Command("list", d) EXCEPT !.permissions = GetPerm(fs[p].perm)]
<1>1. p \in DOMAIN fs /\ p # Root
  BY DEF Children
<1>2. Len(ending) \in 0..4
  BY <1>1, EntryName, EndingLength
<1>3. cmd.op = "list" /\ cmd.path = d /\ cmd.recursive \in BOOLEAN /\ cmd.name_ends_with = ending
  BY DEF Command
<1>4. /\ other.op = "list" /\ other.path = d /\ other.recursive \in BOOLEAN
      /\ other.name_ends_with = <<>>
  BY DEF Command
<1>5. Len(<<>>) \in 0..4
  <2>1. Len(<<>>) = 0
    OBVIOUS
  <2> QED
    BY <2>1
<1> HIDE DEF ending, cmd, other
<1>6. CommandOK(fs, cmd)
  BY <1>2, <1>3, ListOK
<1>7. CommandOK(fs, other)
  BY <1>4, <1>5, ListOK
<1> QED
  BY <1>6, <1>7 DEF cmd, other, ending, Ended, Allowed

\* The extraction of a line that is there is a command for a1.
LEMMA ExtractOK ==
  ASSUME NEW fs, NEW p \in DOMAIN fs, GoodNode(fs[p]), NEW x \in RandomLines(fs[p].file)
  PROVE  CommandOK(fs, Extracted(p, x))
<1> DEFINE cmd == [Command("extract", p) EXCEPT !.section = x[1], !.line = x[2]]
           f == fs[p].file
<1>1. cmd.op = "extract" /\ cmd.path = p /\ cmd.recursive = FALSE /\ cmd.section = x[1] /\ cmd.line = x[2]
  BY DEF Command
<1>2. x[1] \in DOMAIN f.sections /\ x[2] \in DOMAIN SectionLines(f, x[1])
  <2>1. PICK i \in DOMAIN f.sections : x \in {i} \X DOMAIN SectionLines(f, i)
    BY DEF RandomLines
  <2>2. x[1] = i /\ x[2] \in DOMAIN SectionLines(f, i)
    BY <2>1
  <2> QED
    BY <2>1, <2>2
<1> HIDE DEF cmd
<1>3. fs[p].dir = FALSE /\ Complaint(f) = "none"
  BY DEF GoodNode, FileNode
<1>4. CommandOK(fs, cmd)
  BY <1>1, <1>2, <1>3 DEF CommandOK
<1> QED
  BY <1>4 DEF cmd, Extracted

\* What Each() has.
LEMMA EachIs ==
  ASSUME NEW op, NEW paths, NEW cmd \in Each(op, paths)
  PROVE  \E p \in paths : cmd = Command(op, p)
BY DEF Each

\* What Recursive() has.
LEMMA RecursiveIs ==
  ASSUME NEW dirs, NEW cmd \in Recursive(dirs)
  PROVE  \E d \in dirs : cmd = [Command("list", d) EXCEPT !.recursive = TRUE]
BY DEF Recursive

\* What WithEnding() has.
LEMMA WithEndingIs ==
  ASSUME NEW fs, NEW dirs, NEW cmd \in WithEnding(fs, dirs)
  PROVE  \E d \in dirs : \E p \in Children(fs, d), k \in 2..4 : cmd = Ended(d, p, k)
<1>1. PICK d \in dirs : cmd \in {Ended(d, p, k) : p \in Children(fs, d), k \in 2..4}
  BY DEF WithEnding
<1>2. PICK p \in Children(fs, d), k \in 2..4 : cmd = Ended(d, p, k)
  BY <1>1
<1> QED
  BY <1>2

\* What WithPermissions() has.
LEMMA WithPermissionsIs ==
  ASSUME NEW fs, NEW dirs, NEW cmd \in WithPermissions(fs, dirs)
  PROVE  \E d \in dirs : \E p \in Children(fs, d) : cmd = Allowed(fs, d, p)
<1>1. PICK d \in dirs : cmd \in {Allowed(fs, d, p) : p \in Children(fs, d)}
  BY DEF WithPermissions
<1>2. PICK p \in Children(fs, d) : cmd = Allowed(fs, d, p)
  BY <1>1
<1> QED
  BY <1>2

\* What Extractions() has.
LEMMA ExtractionsIs ==
  ASSUME NEW fs, NEW files, NEW cmd \in Extractions(fs, files)
  PROVE  \E p \in files : \E x \in RandomLines(fs[p].file) : cmd = Extracted(p, x)
<1>1. PICK p \in files : cmd \in {Extracted(p, x) : x \in RandomLines(fs[p].file)}
  BY DEF Extractions
<1>2. PICK x \in RandomLines(fs[p].file) : cmd = Extracted(p, x)
  BY <1>1
<1> QED
  BY <1>2

\* Where the commands of generateTests() come from.
LEMMA CommandsAre ==
  ASSUME NEW fs, NEW s, NEW cmd \in Commands(fs, s)
  PROVE  \/ cmd = Command("variant", Root)
         \/ cmd \in Each("list", s.dirs) \/ cmd \in Recursive(s.dirs)
         \/ cmd \in WithEnding(fs, s.dirs) \/ cmd \in WithPermissions(fs, s.dirs)
         \/ cmd \in Each("parse", FilePaths(s) \cup BadPaths(s))
         \/ cmd \in Extractions(fs, FilePaths(s) \cup HugePaths(s))
         \/ cmd \in Each("findall", s.dirs)
<1>1. ASSUME NEW cmds, NEW c \in Finding(fs, cmds)
      PROVE  c \in cmds
  BY <1>1 DEF Finding
<1> QED
  BY <1>1 DEF Commands, FilePaths, BadPaths, HugePaths

\* Every command of generateTests() is about a path that exists, and asks for what is there.
LEMMA CommandsOK ==
  ASSUME NEW s, SeedOK(s), NEW cmd \in Commands(TestFs(s), s)
  PROVE  CommandOK(TestFs(s), cmd)
<1> DEFINE fs == TestFs(s)
<1>2. Whole(s, fs) /\ FsOK(fs)
  BY TestFsWhole, TestFsOK
<1> HIDE DEF fs
<1>3. \A d \in s.dirs : d \in DOMAIN fs /\ fs[d].dir
  BY <1>2, DirNode DEF Whole
<1>4. \A p \in FilePaths(s) \cup HugePaths(s) : p \in DOMAIN fs /\ GoodNode(fs[p])
  BY <1>2 DEF Whole
<1>5. \A p \in FilePaths(s) \cup BadPaths(s) : p \in DOMAIN fs /\ fs[p].dir = FALSE
  BY <1>2 DEF Whole, GoodNode, FileNode
<1>6. CASE cmd = Command("variant", Root)
  <2>1. cmd.op = "variant" /\ cmd.recursive = FALSE
    BY <1>6 DEF Command
  <2> QED
    BY <2>1 DEF CommandOK
<1>7. ASSUME NEW d \in s.dirs, cmd = Command("list", d)
      PROVE  CommandOK(fs, cmd)
  <2>1. /\ cmd.op = "list" /\ cmd.path = d /\ cmd.recursive \in BOOLEAN
        /\ Len(cmd.name_ends_with) \in 0..4
    BY <1>7, PlainCommand
  <2> QED
    BY <1>3, <2>1, ListOK
<1>8. ASSUME NEW d \in s.dirs, cmd = [Command("list", d) EXCEPT !.recursive = TRUE]
      PROVE  CommandOK(fs, cmd)
  <2>1. /\ cmd.op = "list" /\ cmd.path = d /\ cmd.recursive \in BOOLEAN
        /\ cmd.name_ends_with = <<>>
    BY <1>8 DEF Command
  <2>2. Len(<<>>) \in 0..4
    BY PlainCommand
  <2> QED
    BY <1>3, <2>1, <2>2, ListOK
<1>9. ASSUME cmd \in WithEnding(fs, s.dirs)
      PROVE  CommandOK(fs, cmd)
  <2>1. PICK d \in s.dirs : \E p \in Children(fs, d), k \in 2..4 : cmd = Ended(d, p, k)
    BY <1>9, WithEndingIs
  <2>2. PICK p \in Children(fs, d), k \in 2..4 : cmd = Ended(d, p, k)
    BY <2>1
  <2>3. d \in DOMAIN fs /\ fs[d].dir /\ FsOK(fs)
    BY <1>2, <1>3
  <2>4. CommandOK(fs, Ended(d, p, k))
    BY <2>2, <2>3, FilteredOK
  <2> QED
    BY <2>2, <2>4
<1>10. ASSUME cmd \in WithPermissions(fs, s.dirs)
       PROVE  CommandOK(fs, cmd)
  <2>1. PICK d \in s.dirs : \E p \in Children(fs, d) : cmd = Allowed(fs, d, p)
    BY <1>10, WithPermissionsIs
  <2>2. PICK p \in Children(fs, d) : cmd = Allowed(fs, d, p)
    BY <2>1
  <2>3. d \in DOMAIN fs /\ fs[d].dir /\ FsOK(fs) /\ 2 \in 2..4
    BY <1>2, <1>3
  <2>4. CommandOK(fs, Allowed(fs, d, p))
    BY <2>2, <2>3, FilteredOK
  <2> QED
    BY <2>2, <2>4
<1>11. ASSUME NEW p \in FilePaths(s) \cup BadPaths(s), cmd = Command("parse", p)
       PROVE  CommandOK(fs, cmd)
  <2>1. cmd.op = "parse" /\ cmd.path = p /\ cmd.recursive \in BOOLEAN
    BY <1>11, PlainCommand
  <2> QED
    BY <1>5, <2>1 DEF CommandOK
<1>12. ASSUME cmd \in Extractions(fs, FilePaths(s) \cup HugePaths(s))
       PROVE  CommandOK(fs, cmd)
  <2>1. PICK p \in FilePaths(s) \cup HugePaths(s) :
          \E x \in RandomLines(fs[p].file) : cmd = Extracted(p, x)
    BY <1>12, ExtractionsIs
  <2>2. PICK x \in RandomLines(fs[p].file) : cmd = Extracted(p, x)
    BY <2>1
  <2>3. p \in DOMAIN fs /\ GoodNode(fs[p])
    BY <1>4
  <2>4. CommandOK(fs, Extracted(p, x))
    BY <2>2, <2>3, ExtractOK
  <2> QED
    BY <2>2, <2>4
<1>13. ASSUME NEW d \in s.dirs, cmd = Command("findall", d)
       PROVE  CommandOK(fs, cmd)
  <2>1. /\ cmd.op = "findall" /\ cmd.path = d /\ cmd.recursive \in BOOLEAN /\ cmd.recursive
        /\ Len(cmd.name_ends_with) \in 0..4
    BY <1>13, PlainCommand
  <2> QED
    BY <1>3, <2>1 DEF CommandOK
<1>14. cmd \in Commands(fs, s)
  BY DEF fs
<1>15. ASSUME cmd \in Each("list", s.dirs)
       PROVE  CommandOK(fs, cmd)
  BY <1>7, <1>15, EachIs
<1>16. ASSUME cmd \in Each("findall", s.dirs)
       PROVE  CommandOK(fs, cmd)
  BY <1>13, <1>16, EachIs
<1>17. ASSUME cmd \in Each("parse", FilePaths(s) \cup BadPaths(s))
       PROVE  CommandOK(fs, cmd)
  BY <1>11, <1>17, EachIs
<1>18. ASSUME cmd \in Recursive(s.dirs)
       PROVE  CommandOK(fs, cmd)
  BY <1>8, <1>18, RecursiveIs
<1>19. cmd = Command("variant", Root) => CommandOK(fs, cmd)
  BY <1>6 DEF fs
<1>20. CommandOK(fs, cmd)
  BY <1>9, <1>10, <1>12, <1>14, <1>15, <1>16, <1>17, <1>18, <1>19, CommandsAre
<1> QED
  BY <1>20 DEF fs

-----------------------------------------------------------------------------
(* What a1 has done, and what is still to do: the parts of the invariant *)

\* What a listing walks through, and what it should find.
Walked(fs, cmd) ==
  IF cmd.recursive THEN {p \in DOMAIN fs : IsStrictPrefix(cmd.path, p)}
  ELSE Children(fs, cmd.path)

Wanted(fs, cmd) ==
  {p \in Walked(fs, cmd) :
     IF cmd.op = "list"
     THEN /\ IsSuffix(cmd.name_ends_with, Last(p))
          /\ cmd.permissions \in {<<>>, GetPerm(fs[p].perm)}
     ELSE ~ fs[p].dir /\ ParseFound(fs[p].file)}

\* p is met when what is still to do is done.
Pending(cmd, rest, p) ==
  IF cmd.recursive THEN \E q \in rest : IsPrefix(q, p) ELSE p \in rest

\* The names found so far, of which those of `others` may be missing.
Listing(fs, cmd, rest, names, others) ==
  /\ rest \subseteq Walked(fs, cmd)
  /\ names \subseteq Wanted(fs, cmd)
  /\ \A p \in Wanted(fs, cmd) : p \in names \/ p \in others \/ Pending(cmd, rest, p)

\* The sections up to k that have as many lines as asked for.
Matches(f, k) == {i \in 1..k : Len(SectionLines(f, i)) = FindLines}

SearchOK(f, i, rest, counted, matches) ==
  /\ i \in 1..Len(f.sections)
  /\ Searched(f, i, rest, counted)
  /\ matches = Cardinality(Matches(f, i - 1))

\* Line l of section i is looked for: b bytes are before the chunk, `rest` of them in
\* the section, and r of the chunk are not scanned.
ScanOK(f, i, l, b, rest, r, now, hit, found, room) ==
  LET s == f.sections[i]
      B == Bytes(f, s.offset, s.size)
  IN  /\ {b, rest, r} \subseteq Nat /\ now \in Nat \ {0} /\ room \in Nat \ {0}
      /\ b - rest = s.offset /\ b + r <= s.offset + s.size
      /\ (hit <=> now >= l)
      /\ found \in Seq(Char) /\ Len(found) <= room
      /\ IF now <= l THEN Scanned(B, b + r - s.offset, l, now, found)
         ELSE r = 0 /\ found = Reverse(Lines(B)[Len(Lines(B)) + 1 - l])

-----------------------------------------------------------------------------
(* Listings *)

\* The answer the tester expects of a listing is what it wants.
LEMMA ExpectedFound ==
  ASSUME NEW fs, NEW cmd, cmd.op \in {"list", "findall"}
  PROVE  PerformA1(fs, cmd) = Found(Wanted(fs, cmd))
<1> DEFINE below == {p \in DOMAIN fs : IsStrictPrefix(cmd.path, p)}
           walked == IF cmd.recursive THEN below ELSE Children(fs, cmd.path)
<1>1. walked = Walked(fs, cmd)
  BY DEF Walked
<1>2. CASE cmd.op = "list"
  <2> DEFINE names == {p \in walked : /\ IsSuffix(cmd.name_ends_with, Last(p))
                                      /\ cmd.permissions \in {<<>>, GetPerm(fs[p].perm)}}
  <2>1. PerformA1(fs, cmd) = Found(names)
    BY <1>2 DEF PerformA1
  <2> HIDE DEF walked
  <2>2. names = Wanted(fs, cmd)
    BY <1>1, <1>2 DEF Wanted
  <2> QED
    BY <2>1, <2>2
<1>3. CASE cmd.op = "findall"
  <2> DEFINE names == {p \in walked : ~ fs[p].dir /\ ParseFound(fs[p].file)}
  <2>1. PerformA1(fs, cmd) = Found(names)
    BY <1>3 DEF PerformA1
  <2> HIDE DEF walked
  <2>2. names = Wanted(fs, cmd)
    BY <1>1, <1>3 DEF Wanted
  <2> QED
    BY <2>1, <2>2
<1> QED
  BY <1>2, <1>3

\* A prefix of the directory of an entry is one of the entry, and not all of it.
LEMMA PrefixOfEntry ==
  ASSUME NEW fs, FsOK(fs), NEW p \in DOMAIN fs, p # Root, NEW d \in Path, IsPrefix(d, Front(p))
  PROVE  IsStrictPrefix(d, p)
<1> DEFINE f == Front(p)
<1>1. /\ f \in Path /\ Last(p) \in Names /\ p = Append(f, Last(p))
      /\ Len(p) \in Nat \ {0} /\ Len(f) = Len(p) - 1
  BY PathParts DEF FsOK
<1> HIDE DEF f
<1>2. f \in Seq(Names) /\ d \in Seq(Names) /\ Len(d) \in Nat
  BY <1>1 DEF Path
<1>3. Len(d) <= Len(f) /\ SubSeq(d, 1, Len(d)) = SubSeq(f, 1, Len(d))
  BY DEF IsPrefix, f
<1>4. \A i \in 1..Len(d) : p[i] = f[i]
  <2> DEFINE x == Last(p)
  <2>1. x \in Names /\ p = Append(f, x) /\ Len(d) \in Nat /\ Len(d) <= Len(f)
    BY <1>1, <1>2, <1>3
  <2> HIDE DEF x
  <2>2. \A i \in 1..Len(f) : Append(f, x)[i] = f[i]
    BY <1>2, <2>1
  <2> QED
    BY <1>2, <2>1, <2>2
<1> DEFINE t == SubSeq(p, 1, Len(d))
           u == SubSeq(f, 1, Len(d))
<1>5. t = [i \in 1..Len(d) |-> p[i]] /\ u = [i \in 1..Len(d) |-> f[i]]
  OBVIOUS
<1>6. u = SubSeq(d, 1, Len(d))
  BY <1>3
<1> HIDE DEF t, u
<1>7. t = u
  BY <1>4, <1>5
<1>8. Len(d) <= Len(p) /\ Len(d) # Len(p)
  BY <1>1, <1>2, <1>3
<1> QED
  BY <1>6, <1>7, <1>8 DEF t, IsStrictPrefix, IsPrefix

\* An entry that is walked exists, and is not the root.
LEMMA WalkedEntry ==
  ASSUME NEW fs, FsOK(fs), NEW cmd, NEW p \in Walked(fs, cmd), cmd.path \in Path
  PROVE  p \in DOMAIN fs /\ p \in Path /\ p # Root
<1>1. p \in DOMAIN fs /\ p # Root
  <2>1. CASE cmd.recursive
    <3>1. p \in DOMAIN fs /\ IsStrictPrefix(cmd.path, p)
      BY <2>1 DEF Walked
    <3>2. ASSUME p = Root
          PROVE  FALSE
      <4>1. IsPrefix(cmd.path, Root) /\ cmd.path # Root
        BY <3>1, <3>2 DEF IsStrictPrefix
      <4>2. Len(cmd.path) <= Len(Root) /\ Len(Root) = 0
        BY <4>1 DEF IsPrefix, Root
      <4>3. Len(cmd.path) = 0
        BY <4>2 DEF Path
      <4> QED
        BY <4>1, <4>3 DEF Path, Root
    <3> QED
      BY <3>1, <3>2
  <2>2. CASE ~ cmd.recursive
    BY <2>2 DEF Walked, Children
  <2> QED
    BY <2>1, <2>2
<1> QED
  BY <1>1 DEF FsOK

\* A path is a prefix of itself.
LEMMA SelfPrefix ==
  ASSUME NEW p \in Path
  PROVE  IsPrefix(p, p)
<1>1. Len(p) \in Nat
  BY DEF Path
<1> QED
  BY <1>1 DEF IsPrefix

\* It starts with the entries of the directory.
LEMMA ListingStarts ==
  ASSUME NEW fs, FsOK(fs), NEW cmd, cmd.path \in DOMAIN fs
  PROVE  Listing(fs, cmd, Children(fs, cmd.path), {}, {})
<1> DEFINE d == cmd.path
<1>1. d \in Path
  BY DEF FsOK
<1>2. ASSUME NEW p \in Children(fs, d)
      PROVE  p \in Walked(fs, cmd)
  <2>1. p \in DOMAIN fs /\ p # Root /\ Front(p) = d
    BY DEF Children
  <2>2. IsStrictPrefix(d, p)
    BY <1>1, <2>1, SelfPrefix, PrefixOfEntry
  <2> QED
    BY <2>1, <2>2 DEF Walked
<1>3. ASSUME NEW p \in Wanted(fs, cmd)
      PROVE  Pending(cmd, Children(fs, d), p)
  <2>1. p \in Walked(fs, cmd)
    BY DEF Wanted
  <2>2. CASE cmd.recursive
    <3>1. p \in DOMAIN fs /\ IsStrictPrefix(d, p)
      BY <2>1, <2>2 DEF Walked
    <3>2. \E r \in Children(fs, d) : IsPrefix(r, p)
      BY <1>1, <3>1, Descend
    <3> QED
      BY <2>2, <3>2 DEF Pending
  <2>3. CASE ~ cmd.recursive
    BY <2>1, <2>3 DEF Walked, Pending
  <2> QED
    BY <2>2, <2>3
<1> QED
  BY <1>2, <1>3 DEF Listing

\* An entry is taken, and its own entries are put in its place.
LEMMA ListingGoesOn ==
  ASSUME NEW fs, FsOK(fs), NEW cmd, cmd.path \in Path, NEW rest, NEW names,
         Listing(fs, cmd, rest, names, {}), NEW p \in rest, NEW more,
         more = IF cmd.recursive /\ fs[p].dir THEN Children(fs, p) ELSE {}
  PROVE  Listing(fs, cmd, (rest \ {p}) \cup more, names, {p})
<1>1. /\ rest \subseteq Walked(fs, cmd) /\ names \subseteq Wanted(fs, cmd)
      /\ \A w \in Wanted(fs, cmd) : w \in names \/ Pending(cmd, rest, w)
  BY DEF Listing
<1>2. p \in Walked(fs, cmd) /\ p \in DOMAIN fs /\ p \in Path /\ p # Root
  BY <1>1, WalkedEntry
<1>3. ASSUME NEW r \in more
      PROVE  r \in Walked(fs, cmd)
  <2>1. cmd.recursive /\ r \in Children(fs, p)
    OBVIOUS
  <2>2. r \in DOMAIN fs /\ r # Root /\ Front(r) = p
    BY <2>1 DEF Children
  <2>3. IsPrefix(cmd.path, p)
    BY <1>2, <2>1 DEF Walked, IsStrictPrefix
  <2>4. IsStrictPrefix(cmd.path, r)
    BY <2>2, <2>3, PrefixOfEntry
  <2> QED
    BY <2>1, <2>2, <2>4 DEF Walked
<1>4. ASSUME NEW w \in Wanted(fs, cmd), w \notin names, w # p
      PROVE  Pending(cmd, (rest \ {p}) \cup more, w)
  <2>1. Pending(cmd, rest, w)
    BY <1>1, <1>4
  <2>2. CASE ~ cmd.recursive
    BY <1>4, <2>1, <2>2 DEF Pending
  <2>3. CASE cmd.recursive
    <3>1. PICK q \in rest : IsPrefix(q, w)
      BY <2>1, <2>3 DEF Pending
    <3>2. CASE q # p
      BY <2>3, <3>1, <3>2 DEF Pending
    <3>3. CASE q = p
      <4>1. w \in DOMAIN fs /\ IsStrictPrefix(p, w)
        BY <1>4, <2>3, <3>1, <3>3 DEF Wanted, Walked, IsStrictPrefix
      <4>2. fs[p].dir /\ \E r \in Children(fs, p) : IsPrefix(r, w)
        BY <1>2, <4>1, Descend
      <4>3. \E r \in more : IsPrefix(r, w)
        BY <2>3, <4>2
      <4> QED
        BY <2>3, <4>3 DEF Pending
    <3> QED
      BY <3>2, <3>3
  <2> QED
    BY <2>2, <2>3
<1> QED
  BY <1>1, <1>3, <1>4 DEF Listing

\* The entry itself is settled: it is among the names, or it is not wanted.
LEMMA ListingSettled ==
  ASSUME NEW fs, NEW cmd, NEW rest, NEW names, NEW p, Listing(fs, cmd, rest, names, {p}),
         NEW more, more = IF p \in Wanted(fs, cmd) THEN names \cup {p} ELSE names
  PROVE  Listing(fs, cmd, rest, more, {})
BY DEF Listing

\* When nothing is left to do, all that is wanted is found.
LEMMA ListingEnds ==
  ASSUME NEW fs, NEW cmd, NEW names, Listing(fs, cmd, {}, names, {})
  PROVE  names = Wanted(fs, cmd)
<1>1. \A p \in Wanted(fs, cmd) : ~ Pending(cmd, {}, p)
  BY DEF Pending
<1> QED
  BY <1>1 DEF Listing

-----------------------------------------------------------------------------
(* The search for sections *)

\* Matching sections can be counted.
LEMMA MatchesType ==
  ASSUME NEW f, NEW k \in Nat
  PROVE  IsFiniteSet(Matches(f, k)) /\ Cardinality(Matches(f, k)) \in Nat
<1>1. IsFiniteSet(1..k) /\ Matches(f, k) \in SUBSET (1..k)
  BY FS_Interval DEF Matches
<1>2. IsFiniteSet(Matches(f, k))
  BY <1>1, FS_Subset, Zenon
<1> QED
  BY <1>2, FS_CardinalityType

\* No section is searched at first.
LEMMA SectionsStart ==
  ASSUME NEW f, FileOK(f)
  PROVE  SearchOK(f, 1, f.sections[1].size, 1, 0)
<1>1. 1 \in 1..Len(f.sections)
  <2>1. Len(f.sections) \in 3..255
    BY DEF FileOK
  <2>2. \A n \in 3..255 : 1 \in 1..n
    OBVIOUS
  <2> QED
    BY <2>1, <2>2
<1>4. SectionOK(f, 1)
  BY <1>1 DEF FileOK
<1>2. Matches(f, 1 - 1) = {}
  BY DEF Matches
<1>3. Cardinality(Matches(f, 1 - 1)) = 0
  BY <1>2, FS_EmptySet
<1> QED
  BY <1>1, <1>3, <1>4, SearchStarts DEF SearchOK

\* A chunk is searched.
LEMMA ChunkSearched ==
  ASSUME NEW f, FileOK(f), NEW i, NEW rest, NEW counted, NEW matches,
         SearchOK(f, i, rest, counted, matches), rest > 0,
         NEW n, n = Min({rest, CHUNK_SIZE}),
         NEW a, a = f.sections[i].offset + f.sections[i].size - rest
  PROVE  SearchOK(f, i, rest - n, Counted(counted + Separators(Bytes(f, a, n))), matches)
<1>1. /\ i \in 1..Len(f.sections) /\ Searched(f, i, rest, counted)
      /\ matches = Cardinality(Matches(f, i - 1))
  BY DEF SearchOK
<1>2. f.content \in Seq(Char) /\ SectionOK(f, i)
  BY <1>1 DEF FileOK
<1>3. Searched(f, i, rest - n, Counted(counted + Separators(Bytes(f, a, n))))
  BY <1>1, <1>2, SearchGoesOn
<1> QED
  BY <1>1, <1>3 DEF SearchOK

\* A section is searched, and counts if it has as many lines as asked for.
LEMMA SectionSearched ==
  ASSUME NEW f, FileOK(f), NEW i, NEW rest, NEW counted, NEW matches,
         SearchOK(f, i, rest, counted, matches), ~ (rest > 0 /\ counted < FindLines),
         NEW more, more = matches + IF counted = FindLines THEN 1 ELSE 0
  PROVE  more = Cardinality(Matches(f, i)) /\ i \in 1..Len(f.sections)
<1>1. /\ i \in 1..Len(f.sections) /\ Searched(f, i, rest, counted)
      /\ matches = Cardinality(Matches(f, i - 1))
  BY DEF SearchOK
<1>2. f.content \in Seq(Char) /\ SectionOK(f, i) /\ i \in Nat \ {0}
  <2>1. f.content \in Seq(Char) /\ SectionOK(f, i)
    BY <1>1, Zenon DEF FileOK
  <2> DEFINE n == Len(f.sections)
  <2>2. n \in 3..255 /\ i \in 1..n
    BY <1>1 DEF FileOK
  <2> HIDE DEF n
  <2>3. i \in Nat \ {0}
    BY <2>2
  <2> QED
    BY <2>1, <2>3
<1>3. counted = FindLines <=> Len(SectionLines(f, i)) = FindLines
  BY <1>1, <1>2, SearchFinds
<1> DEFINE M == Matches(f, i - 1)
           N == Matches(f, i)
<1>4. IsFiniteSet(M) /\ Cardinality(M) \in Nat /\ i \notin M
  <2>1. i - 1 \in Nat
    BY <1>2
  <2>2. i \notin M
    BY <1>2 DEF Matches
  <2> QED
    BY <2>1, <2>2, MatchesType
<1>5. N = IF Len(SectionLines(f, i)) = FindLines THEN M \cup {i} ELSE M
  <2>1. 1..i = (1..i-1) \cup {i}
    BY <1>2
  <2> QED
    BY <2>1 DEF Matches
<1> HIDE DEF M, N
<1>6. Cardinality(M \cup {i}) = Cardinality(M) + 1
  BY <1>4, FS_AddElement
<1>7. more = Cardinality(N)
  <2>1. matches = Cardinality(M)
    BY <1>1 DEF M
  <2> DEFINE c == Cardinality(M)
             d == Cardinality(M \cup {i})
  <2>2. c \in Nat /\ d = c + 1 /\ more = c + IF counted = FindLines THEN 1 ELSE 0
    BY <1>4, <1>6, <2>1
  <2> HIDE DEF c, d
  <2>3. CASE counted = FindLines
    <3>1. Cardinality(N) = d
      BY <1>3, <1>5, <2>3, Zenon DEF d
    <3> QED
      BY <2>2, <2>3, <3>1
  <2>4. CASE counted # FindLines
    <3>1. Cardinality(N) = c
      BY <1>3, <1>5, <2>4, Zenon DEF c
    <3> QED
      BY <2>2, <2>4, <3>1
  <2> QED
    BY <2>3, <2>4
<1> QED
  BY <1>1, <1>7 DEF N

\* The next section is begun.
LEMMA NextSection ==
  ASSUME NEW f, FileOK(f), NEW i \in 1..Len(f.sections), i # Len(f.sections),
         NEW matches, matches = Cardinality(Matches(f, i))
  PROVE  SearchOK(f, i + 1, f.sections[i + 1].size, 1, matches)
<1>1. i + 1 \in 1..Len(f.sections) /\ (i + 1) - 1 = i
  <2> DEFINE n == Len(f.sections)
  <2>1. n \in 3..255 /\ i \in 1..n /\ i # n
    BY DEF FileOK
  <2> HIDE DEF n
  <2>2. i + 1 \in 1..n /\ (i + 1) - 1 = i
    BY <2>1
  <2> QED
    BY <2>2 DEF n
<1>2. SectionOK(f, i + 1)
  BY <1>1 DEF FileOK
<1> QED
  BY <1>1, <1>2, SearchStarts DEF SearchOK

\* Enough sections are enough for the tester, and when all are searched they are all
\* the tester has counted.
LEMMA MatchesFound ==
  ASSUME NEW f, FileOK(f), Complaint(f) = "none", NEW i \in 1..Len(f.sections),
         NEW matches, matches = Cardinality(Matches(f, i))
  PROVE  /\ matches >= FindSections => ParseFound(f)
         /\ i = Len(f.sections) => (ParseFound(f) <=> matches >= FindSections)
<1> DEFINE n == Len(f.sections)
           M == Matches(f, i)
           N == Matches(f, n)
           c == Cardinality(M)
           d == Cardinality(N)
<1>1. n \in Nat /\ i \in Nat /\ DOMAIN f.sections = 1..n /\ 1..i \subseteq 1..n /\ FindSections \in Nat
  <2>1. Len(f.sections) \in 3..255 /\ DOMAIN f.sections = 1..n /\ FindSections \in Nat
    BY SectionFileAssumption DEF FileOK
  <2>2. n \in 3..255 /\ i \in 1..n
    BY <2>1
  <2> HIDE DEF n
  <2>3. n \in Nat /\ i \in Nat /\ 1..i \subseteq 1..n
    BY <2>2
  <2> QED
    BY <2>1, <2>3
<1>2. ParseFound(f) <=> d >= FindSections
  BY <1>1 DEF ParseFound, Matches
<1>3. M \subseteq N
  BY <1>1 DEF Matches
<1>4. IsFiniteSet(N) /\ d \in Nat /\ c \in Nat
  BY <1>1, MatchesType
<1>5. c <= d
  <2> HIDE DEF M, N
  <2> QED
    BY <1>3, <1>4, FS_Subset
<1>6. i = n => c = d
  OBVIOUS
<1>7. matches = c
  OBVIOUS
<1> HIDE DEF c, d, n
<1>8. FindSections \in Nat /\ c \in Nat /\ d \in Nat /\ c <= d
  BY <1>1, <1>4, <1>5
<1>9. c >= FindSections => d >= FindSections
  BY <1>8
<1> QED
  BY <1>2, <1>6, <1>7, <1>9 DEF n

\* A file with fewer sections has no use.
LEMMA EnoughSections ==
  ASSUME NEW f, FileOK(f), ParseFound(f)
  PROVE  Complaint(f) = "none" /\ Len(f.sections) >= FindSections
<1> DEFINE n == Len(f.sections)
           N == Matches(f, n)
           d == Cardinality(N)
<1>1. n \in Nat /\ DOMAIN f.sections = 1..n /\ FindSections \in Nat
  <2>1. n \in 3..255 /\ DOMAIN f.sections = 1..n /\ FindSections \in Nat
    BY SectionFileAssumption DEF FileOK
  <2> HIDE DEF n
  <2>2. n \in Nat
    BY <2>1
  <2> QED
    BY <2>1, <2>2
<1>2. d >= FindSections /\ Complaint(f) = "none"
  BY <1>1 DEF ParseFound, Matches
<1>3. IsFiniteSet(1..n) /\ Cardinality(1..n) = n /\ N \in SUBSET (1..n)
  <2>1. Cardinality(1..n) = n
    BY <1>1, FS_Interval
  <2> QED
    BY <1>1, <2>1, FS_Interval DEF Matches
<1>4. d <= n /\ d \in Nat
  <2> HIDE DEF N
  <2>1. IsFiniteSet(N) /\ Cardinality(N) <= Cardinality(1..n)
    BY <1>3, FS_Subset
  <2>2. Cardinality(N) \in Nat
    BY <2>1, FS_CardinalityType
  <2> QED
    BY <1>3, <2>1, <2>2
<1> HIDE DEF d
<1> QED
  BY <1>1, <1>2, <1>4

-----------------------------------------------------------------------------
(* The entries a1 takes *)

\* No name is shorter than the ending it is compared with.
LEMMA EndingFits ==
  ASSUME NEW fs, FsOK(fs), NEW cmd, CommandOK(fs, cmd), cmd.op \in {"list", "findall"},
         NEW p \in Walked(fs, cmd)
  PROVE  Len(Last(p)) >= Len(cmd.name_ends_with)
<1>1. cmd.path \in Path /\ Len(cmd.name_ends_with) \in 0..4
  BY DEF CommandOK, FsOK
<1>2. p \in DOMAIN fs /\ p # Root
  BY <1>1, WalkedEntry
<1> DEFINE m == Len(Last(p))
           n == Len(cmd.name_ends_with)
<1>3. m \in Nat /\ m >= 4 /\ n \in 0..4
  BY <1>1, <1>2, EntryName
<1> HIDE DEF m, n
<1>4. m >= n
  BY <1>3
<1> QED
  BY <1>4 DEF m, n

\* What string_ends_with() and test_permissions_match() take is what is wanted.
LEMMA EntryWanted ==
  ASSUME NEW fs, FsOK(fs), NEW cmd, cmd.op = "list", cmd.path \in Path, NEW p \in Walked(fs, cmd)
  PROVE  p \in Wanted(fs, cmd) <=>
           /\ IsSuffix(cmd.name_ends_with, Last(p))
           /\ cmd.permissions \in {<<>>, Permissions(fs[p].perm)}
<1>1. p \in DOMAIN fs
  BY WalkedEntry
<1>2. fs[p].perm \in Nat
  BY <1>1 DEF FsOK, NodeOK
<1>3. GetPerm(fs[p].perm) = Permissions(fs[p].perm)
  BY <1>2, SamePermissions
<1> QED
  BY <1>3 DEF Wanted

\* A file that is not searched is not wanted.
LEMMA FileUnwanted ==
  ASSUME NEW fs, FsOK(fs), NEW cmd, cmd.op = "findall", cmd.path \in Path,
         NEW p \in Walked(fs, cmd),
         ~ (/\ ~ fs[p].dir /\ Len(fs[p].file.sections) >= FindSections
            /\ ValidateSfFile(fs[p].file) = "valid")
  PROVE  p \notin Wanted(fs, cmd)
<1>1. p \in DOMAIN fs
  BY WalkedEntry
<1>2. ASSUME ~ fs[p].dir, ParseFound(fs[p].file)
      PROVE  FALSE
  <2>1. FileOK(fs[p].file)
    BY <1>1, <1>2 DEF FsOK, NodeOK
  <2>2. Complaint(fs[p].file) = "none" /\ Len(fs[p].file.sections) >= FindSections
    BY <1>2, <2>1, EnoughSections
  <2>3. ValidateSfFile(fs[p].file) = "valid"
    BY <2>1, <2>2, SameVerdict
  <2> QED
    BY <1>2, <2>2, <2>3
<1> QED
  BY <1>2 DEF Wanted
-----------------------------------------------------------------------------
(* The scan for a line *)

\* It starts at the end of the section.
LEMMA LineStarts ==
  ASSUME NEW f, f.content \in Seq(Char), NEW i, SectionOK(f, i), NEW l \in Nat \ {0},
         NEW b, b = f.sections[i].offset + f.sections[i].size,
         NEW rest, rest = f.sections[i].size
  PROVE  ScanOK(f, i, l, b, rest, 0, 1, l = 1, <<>>, LineSize)
<1> DEFINE o == f.sections[i].offset
           s == f.sections[i].size
           B == Bytes(f, o, s)
<1>1. o \in Nat /\ s \in Nat /\ o + s <= Len(f.content)
  BY DEF SectionOK
<1> HIDE DEF o, s
<1>2. B \in Seq(Char) /\ Len(B) = s
  BY <1>1, BytesAre
<1> HIDE DEF B
<1>3. Scanned(B, Len(B), l, 1, <<>>)
  BY <1>2, ScanStarts
<1>4. /\ b + 0 - o = s /\ b - rest = o /\ b + 0 <= o + s /\ {b, rest, 0} \subseteq Nat
  <2>1. b = o + s /\ rest = s
    BY DEF o, s
  <2>2. b \in Nat /\ rest \in Nat /\ 0 \in Nat
    BY <1>1, <2>1
  <2>3. b + 0 - o = s /\ b - rest = o /\ b + 0 <= o + s
    BY <1>1, <2>1
  <2> QED
    BY <2>2, <2>3
<1>5. /\ 1 \in Nat \ {0} /\ LineSize \in Nat \ {0} /\ 1 <= l /\ (l = 1 <=> 1 >= l)
  BY FileTesterAssumption
<1>6. <<>> \in Seq(Char) /\ Len(<<>>) = 0 /\ 0 <= LineSize
  BY <1>5
<1>7. Scanned(B, b + 0 - o, l, 1, <<>>)
  BY <1>2, <1>3, <1>4
<1> QED
  BY <1>4, <1>5, <1>6, <1>7 DEF ScanOK, B, o, s

\* The next chunk is read.
LEMMA LineChunk ==
  ASSUME NEW f, NEW i, SectionOK(f, i), NEW l, NEW b, NEW rest, NEW now, NEW hit, NEW found, NEW room,
         ScanOK(f, i, l, b, rest, 0, now, hit, found, room), rest > 0, now <= l,
         NEW n, n = Min({rest, CHUNK_SIZE})
  PROVE  ScanOK(f, i, l, b - n, rest - n, n, now, hit, found, room)
<1> DEFINE o == f.sections[i].offset
           s == f.sections[i].size
           B == Bytes(f, o, s)
<1>1. o \in Nat /\ s \in Nat
  BY DEF SectionOK
<1>2. /\ b \in Nat /\ rest \in Nat /\ b - rest = o /\ b + 0 <= o + s
      /\ now \in Nat \ {0} /\ room \in Nat \ {0} /\ (hit <=> now >= l)
      /\ found \in Seq(Char) /\ Len(found) <= room
      /\ Scanned(B, b + 0 - o, l, now, found)
  BY DEF ScanOK
<1> HIDE DEF o, s, B
<1>3. n \in Nat /\ n <= rest
  <2>1. CHUNK_SIZE \in Nat \ {0}
    BY FileTesterAssumption
  <2>2. n = IF rest <= CHUNK_SIZE THEN rest ELSE CHUNK_SIZE
    BY <1>2, <2>1, MinOfTwo
  <2> QED
    BY <1>2, <2>1, <2>2
<1>4. /\ (b - n) + n - o = b + 0 - o /\ (b - n) - (rest - n) = o /\ (b - n) + n <= o + s
      /\ b - n \in Nat /\ rest - n \in Nat
  <2>1. b \in Nat /\ rest \in Nat /\ b - rest = o /\ b + 0 <= o + s
    BY <1>2
  <2> QED
    BY <1>1, <1>3, <2>1
<1>5. Scanned(B, (b - n) + n - o, l, now, found)
  BY <1>2, <1>4
<1>6. {b - n, rest - n, n} \subseteq Nat
  BY <1>3, <1>4
<1> QED
  BY <1>2, <1>4, <1>5, <1>6 DEF ScanOK, o, s, B

\* The byte that is scanned next.
LEMMA NextByte ==
  ASSUME NEW f, f.content \in Seq(Char), NEW i, SectionOK(f, i), NEW l \in Nat \ {0},
         NEW b, NEW rest, NEW r, NEW now, NEW hit, NEW found, NEW room,
         ScanOK(f, i, l, b, rest, r, now, hit, found, room), r > 0
  PROVE  LET o == f.sections[i].offset
             B == Bytes(f, o, f.sections[i].size)
             pos == b + r - o
         IN  /\ B \in Seq(Char) /\ pos \in 1..Len(B) /\ B[pos] = f.content[b + r]
             /\ now <= l /\ Scanned(B, pos, l, now, found)
             /\ b + (r - 1) - o = pos - 1 /\ f.content[b + r] \in Char
<1> DEFINE o == f.sections[i].offset
           s == f.sections[i].size
           B == Bytes(f, o, s)
           pos == b + r - o
<1>1. o \in Nat /\ s \in Nat /\ o + s <= Len(f.content) /\ Len(f.content) \in Nat
  BY DEF SectionOK
<1>2. /\ b \in Nat /\ rest \in Nat /\ r \in Nat /\ b - rest = o /\ b + r <= o + s
      /\ now \in Nat \ {0}
      /\ IF now <= l THEN Scanned(B, pos, l, now, found) ELSE r = 0
  BY DEF ScanOK
<1> HIDE DEF o, s
<1>3. /\ B \in Seq(Char) /\ Len(B) = s
      /\ \A y \in 1..s : B[y] = f.content[o + y]
  BY <1>1, BytesAre
<1> HIDE DEF B
<1>4. pos \in 1..s /\ o + pos = b + r /\ b + (r - 1) - o = pos - 1
  BY <1>1, <1>2
<1>5. now <= l /\ Scanned(B, pos, l, now, found)
  BY <1>2
<1> HIDE DEF pos
<1>6. B[pos] = f.content[b + r] /\ B[pos] \in Char
  BY <1>3, <1>4
<1> QED
  BY <1>3, <1>4, <1>5, <1>6 DEF B, o, s, pos

\* It is a separator.
LEMMA LineSeparator ==
  ASSUME NEW f, f.content \in Seq(Char), NEW i, SectionOK(f, i), NEW l,
         l \in DOMAIN SectionLines(f, i),
         NEW b, NEW rest, NEW r, NEW now, NEW hit, NEW found, NEW room,
         ScanOK(f, i, l, b, rest, r, now, hit, found, room), r > 0, f.content[b + r] = NL,
         NEW next, next = now + 1, NEW k, k = IF next > l THEN 0 ELSE r - 1
  PROVE  ScanOK(f, i, l, b, rest, k, next, hit \/ next = l, found, room)
<1> DEFINE o == f.sections[i].offset
           s == f.sections[i].size
           B == Bytes(f, o, s)
           pos == b + r - o
<1>1. /\ {b, rest, r} \subseteq Nat /\ now \in Nat \ {0} /\ room \in Nat \ {0}
      /\ b - rest = o /\ b + r <= o + s /\ (hit <=> now >= l)
      /\ found \in Seq(Char) /\ Len(found) <= room
  BY DEF ScanOK
<1>2. l \in 1..Separators(B)+1 /\ Separators(B) \in Nat
  <2>1. SectionLines(f, i) = Lines(B)
    BY DEF SectionLines
  <2>2. B \in Seq(Char)
    BY BytesAre DEF SectionOK
  <2> HIDE DEF B
  <2> QED
    BY <2>1, <2>2, LinesLength
<1>3. l \in Nat \ {0}
  BY <1>2
<1>4. /\ B \in Seq(Char) /\ pos \in 1..Len(B) /\ B[pos] = NL
      /\ now <= l /\ Scanned(B, pos, l, now, found) /\ b + (r - 1) - o = pos - 1
  BY <1>3, NextByte
<1>5. o \in Nat /\ s \in Nat
  BY DEF SectionOK
<1> HIDE DEF o, s, B
<1>6. next \in Nat \ {0} /\ (hit \/ next = l <=> next >= l)
  <2>1. now \in Nat \ {0} /\ now <= l /\ (hit <=> now >= l)
    BY <1>1, <1>4
  <2> QED
    BY <1>3, <2>1
<1>7. CASE now # l
  <2>1. next <= l /\ k = r - 1 /\ k \in Nat /\ b + k <= o + s
    <3>1. now \in Nat \ {0} /\ now <= l /\ b \in Nat /\ r \in Nat /\ b + r <= o + s
      BY <1>1, <1>4
    <3> QED
      BY <1>3, <1>5, <1>7, <3>1
  <2>2. Scanned(B, pos - 1, l, now + 1, found)
    <3> HIDE DEF pos
    <3> QED
      BY <1>1, <1>3, <1>4, <1>7, ScanSeparator
  <2>3. Scanned(B, b + k - o, l, next, found)
    BY <1>4, <2>1, <2>2
  <2> QED
    BY <1>1, <1>6, <2>1, <2>3 DEF ScanOK, B, o, s
<1>8. CASE now = l
  <2>1. ~(next <= l) /\ k = 0 /\ k \in Nat /\ b + k <= o + s
    BY <1>1, <1>3, <1>5, <1>8
  <2>2. found = Reverse(Lines(B)[Len(Lines(B)) + 1 - l])
    <3> HIDE DEF pos
    <3>1. pos \in Cuts(B)
      BY <1>4 DEF Cuts
    <3>2. Scanned(B, pos, l, l, found)
      BY <1>4, <1>8
    <3> QED
      BY <1>2, <1>4, <3>1, <3>2, ScanFinds
  <2> QED
    BY <1>1, <1>6, <2>1, <2>2 DEF ScanOK, B, o, s
<1> QED
  BY <1>7, <1>8

\* It is any other character, and fits into the line.
LEMMA LineCharacter ==
  ASSUME NEW f, f.content \in Seq(Char), NEW i, SectionOK(f, i), NEW l \in Nat \ {0},
         NEW b, NEW rest, NEW r, NEW now, NEW hit, NEW found, NEW room,
         ScanOK(f, i, l, b, rest, r, now, hit, found, room), r > 0,
         NEW c, c = f.content[b + r], c # NL,
         NEW more, more = IF now = l THEN Append(found, c) ELSE found,
         NEW grown, grown = IF now = l /\ Len(found) >= room THEN 2 * room ELSE room
  PROVE  ScanOK(f, i, l, b, rest, r - 1, now, hit, more, grown)
<1> DEFINE o == f.sections[i].offset
           s == f.sections[i].size
           B == Bytes(f, o, s)
           pos == b + r - o
<1>1. /\ {b, rest, r} \subseteq Nat /\ now \in Nat \ {0} /\ room \in Nat \ {0}
      /\ b - rest = o /\ b + r <= o + s /\ (hit <=> now >= l)
      /\ found \in Seq(Char) /\ Len(found) <= room
  BY DEF ScanOK
<1>2. /\ B \in Seq(Char) /\ pos \in 1..Len(B) /\ B[pos] = c /\ c \in Char
      /\ now <= l /\ Scanned(B, pos, l, now, found) /\ b + (r - 1) - o = pos - 1
  BY NextByte
<1>3. o \in Nat /\ s \in Nat
  BY DEF SectionOK
<1> HIDE DEF o, s, B
<1>4. Scanned(B, pos - 1, l, now, more)
  <2> HIDE DEF pos
  <2>1. now \in Nat /\ B[pos] # NL
    BY <1>1, <1>2
  <2>2. Scanned(B, pos - 1, l, now, IF now = l THEN Append(found, B[pos]) ELSE found)
    BY <1>2, <2>1, ScanOther
  <2> QED
    BY <1>2, <2>2
<1>5. Scanned(B, b + (r - 1) - o, l, now, more)
  BY <1>2, <1>4
<1>6. r - 1 \in Nat /\ b + (r - 1) <= o + s /\ {b, rest, r - 1} \subseteq Nat
  <2>1. b \in Nat /\ r \in Nat /\ rest \in Nat /\ b + r <= o + s
    BY <1>1
  <2> QED
    BY <1>3, <2>1
<1>7. more \in Seq(Char) /\ Len(more) <= grown /\ grown \in Nat \ {0}
  <2> DEFINE n == Len(found)
  <2>1. n \in Nat /\ n <= room /\ room \in Nat \ {0}
    BY <1>1
  <2>2. Append(found, c) \in Seq(Char) /\ Len(Append(found, c)) = n + 1
    BY <1>1, <1>2
  <2>3. now = l => grown = IF n >= room THEN 2 * room ELSE room
    OBVIOUS
  <2>4. now # l => grown = room
    OBVIOUS
  <2> HIDE DEF n
  <2>5. CASE now = l
    <3>1. grown \in Nat \ {0} /\ n + 1 <= grown
      BY <2>1, <2>3, <2>5
    <3> QED
      BY <2>2, <2>5, <3>1
  <2>6. CASE now # l
    BY <1>1, <2>4, <2>6
  <2> QED
    BY <2>5, <2>6
<1> QED
  BY <1>1, <1>2, <1>5, <1>6, <1>7 DEF ScanOK, B, o, s

\* When the loop is left the line is there, and it is the one that parseFile() takes.
LEMMA LineEnds ==
  ASSUME NEW f, f.content \in Seq(Char), NEW i, SectionOK(f, i), NEW l,
         l \in DOMAIN SectionLines(f, i),
         NEW b, NEW rest, NEW now, NEW hit, NEW found, NEW room,
         ScanOK(f, i, l, b, rest, 0, now, hit, found, room), ~ (rest > 0 /\ now <= l)
  PROVE  hit /\ found = Reverse(SectionLines(f, i)[Len(SectionLines(f, i)) + 1 - l])
<1> DEFINE o == f.sections[i].offset
           s == f.sections[i].size
           B == Bytes(f, o, s)
<1>1. SectionLines(f, i) = Lines(B)
  BY DEF SectionLines
<1>2. o \in Nat /\ B \in Seq(Char)
  BY BytesAre DEF SectionOK
<1>3. /\ b \in Nat /\ rest \in Nat /\ now \in Nat /\ b - rest = o /\ (hit <=> now >= l)
      /\ IF now <= l THEN Scanned(B, b + 0 - o, l, now, found)
         ELSE found = Reverse(Lines(B)[Len(Lines(B)) + 1 - l])
  BY DEF ScanOK
<1> HIDE DEF o, B
<1>4. l \in 1..Separators(B)+1 /\ Separators(B) \in Nat
  BY <1>1, <1>2, LinesLength
<1>5. CASE now <= l
  <2>1. b + 0 - o = 0
    BY <1>2, <1>3, <1>5
  <2>2. Scanned(B, 0, l, now, found)
    BY <1>3, <1>5, <2>1
  <2>3. now = Separators(B) + 1
    BY <1>2, <2>2, ScanAll
  <2>4. now = l
    BY <1>3, <1>4, <1>5, <2>3
  <2>5. 0 \in Cuts(B)
    BY DEF Cuts
  <2>6. Scanned(B, 0, l, l, found)
    BY <2>2, <2>4
  <2>7. found = Reverse(Lines(B)[Len(Lines(B)) + 1 - l])
    BY <1>2, <1>4, <2>5, <2>6, ScanFinds
  <2>8. hit
    BY <1>3, <1>4, <2>4
  <2> QED
    BY <1>1, <2>7, <2>8
<1>6. CASE ~(now <= l)
  <2>1. hit
    BY <1>3, <1>4, <1>6
  <2> QED
    BY <1>1, <1>3, <1>6, <2>1
<1> QED
  BY <1>5, <1>6

-----------------------------------------------------------------------------
(* a1 runs a test *)

\* The test is one of the tests of the file system.
Context ==
  /\ FsOK(test_root) /\ CommandOK(test_root, Cmd)
  /\ test.expected = PerformA1(test_root, Cmd)

\* a1, when it runs a test.
A1OK ==
  /\ a1 \in {"none", "killed", "main", "list", "search"} =>
       line = <<>> /\ capacity = LineSize /\ unread = 0
  /\ a1 \in {"list", "search"} =>
       /\ Cmd.op \in {"list", "findall"} /\ output = Found(output.names)
       /\ Listing(test_root, Cmd, todo, output.names, IF a1 = "list" THEN {} ELSE {entry})
  /\ a1 = "search" =>
       /\ entry \in Walked(test_root, Cmd) /\ Cmd.op = "findall"
       /\ ~ test_root[entry].dir /\ Complaint(test_root[entry].file) = "none"
       /\ Len(test_root[entry].file.sections) >= FindSections
       /\ SearchOK(test_root[entry].file, section, left, lines, matching)
  /\ a1 = "scan" =>
       /\ Cmd.op = "extract" /\ section = Cmd.section
       /\ ScanOK(test_root[Cmd.path].file, section, Cmd.line,
                 at, left, unread, current, reached, line, capacity)
  /\ a1 = "ended" =>
       /\ output = test.expected
       /\ Len(line) <= capacity /\ (line # <<>> => Len(line) < capacity)

\* The answer that is expected ends it.
LEMMA AnswerGiven ==
  ASSUME line = <<>>, capacity = LineSize, Ends(test.expected), UNCHANGED test
  PROVE  A1OK'
<1>1. /\ a1' = "ended" /\ output' = test'.expected /\ line' = <<>> /\ capacity' = LineSize
  BY DEF Ends, scanVars
<1>2. Len(<<>>) <= LineSize
  BY FileTesterAssumption
<1> QED
  BY <1>1, <1>2 DEF A1OK

\* a1 prints its variant.
LEMMA VariantStep ==
  ASSUME Context, A1OK, StartVariant, UNCHANGED test
  PROVE  A1OK'
<1>1. line = <<>> /\ capacity = LineSize /\ Cmd.op = "variant" /\ Ends(Answer(<<Variant>>))
  BY DEF A1OK, StartVariant, At
<1>2. test.expected = Answer(<<Variant>>)
  BY <1>1 DEF Context, PerformA1
<1> QED
  BY <1>1, <1>2, AnswerGiven

\* a1 validates a file and prints its header.
LEMMA ParseStep ==
  ASSUME Context, A1OK, StartParse, UNCHANGED test
  PROVE  A1OK'
<1> DEFINE f == test_root[Cmd.path].file
<1>1. line = <<>> /\ capacity = LineSize /\ Cmd.op = "parse"
  BY DEF A1OK, StartParse, At
<1>2. Cmd.path \in DOMAIN test_root /\ test_root[Cmd.path].dir = FALSE
  BY <1>1 DEF Context, CommandOK
<1>3. FileOK(f)
  BY <1>2 DEF Context, FsOK, NodeOK
<1>4. test.expected = Answer(ParseFile(f))
  BY <1>1 DEF Context, PerformA1
<1>5. IF ValidateSfFile(f) = "valid" THEN Ends(Answer(Described(f))) ELSE Error(ValidateSfFile(f))
  BY <1>2 DEF StartParse, Node
<1> HIDE DEF f
<1>6. ValidateSfFile(f) = (IF Complaint(f) = "none" THEN "valid" ELSE Complaint(f)) /\ Complaint(f) # "valid"
  BY <1>3, SameVerdict
<1>7. CASE Complaint(f) = "none"
  <2>1. test.expected = Answer(Described(f)) /\ Ends(Answer(Described(f)))
    BY <1>4, <1>5, <1>6, <1>7 DEF ParseFile
  <2> QED
    BY <1>1, <2>1, AnswerGiven
<1>8. CASE Complaint(f) # "none"
  <2>1. test.expected = Answer(<<"ERROR", Complaint(f)>>) /\ Ends(Answer(<<"ERROR", Complaint(f)>>))
    BY <1>4, <1>5, <1>6, <1>8 DEF ParseFile, Error
  <2> QED
    BY <1>1, <2>1, AnswerGiven
<1> QED
  BY <1>7, <1>8

\* a1 starts a listing or a search.
LEMMA ListingStep ==
  ASSUME Context, A1OK, StartListing, UNCHANGED <<test, test_root>>
  PROVE  A1OK'
<1>1. line = <<>> /\ capacity = LineSize /\ unread = 0 /\ Cmd.op \in {"list", "findall"}
  BY DEF A1OK, StartListing, At
<1>2. FsOK(test_root) /\ Cmd.path \in DOMAIN test_root /\ test_root[Cmd.path].dir
  BY <1>1 DEF Context, CommandOK
<1>3. /\ a1' = "list" /\ output' = Found({}) /\ todo' = Children(test_root, Cmd.path)
      /\ line' = <<>> /\ capacity' = LineSize /\ unread' = 0
  BY <1>1, <1>2 DEF StartListing, Node, Entries, scanVars
<1>4. output'.names = {}
  BY <1>3 DEF Found
<1>5. Listing(test_root, Cmd, todo', output'.names, {})
  BY <1>2, <1>3, <1>4, ListingStarts
<1>6. Cmd' = Cmd /\ test_root' = test_root
  BY DEF Cmd
<1> HIDE DEF Cmd
<1> QED
  BY <1>1, <1>3, <1>4, <1>5, <1>6 DEF A1OK

\* a1 starts to look for a line.
LEMMA ExtractStep ==
  ASSUME Context, A1OK, StartExtract, UNCHANGED <<test, test_root>>
  PROVE  A1OK'
<1> DEFINE f == test_root[Cmd.path].file
           i == Cmd.section
           l == Cmd.line
<1>1. line = <<>> /\ capacity = LineSize /\ unread = 0 /\ Cmd.op = "extract"
  BY DEF A1OK, StartExtract, At
<1>2. /\ Cmd.path \in DOMAIN test_root /\ test_root[Cmd.path].dir = FALSE /\ Complaint(f) = "none"
      /\ i \in DOMAIN f.sections /\ l \in DOMAIN SectionLines(f, i)
  BY <1>1 DEF Context, CommandOK
<1>3. FileOK(f)
  BY <1>2 DEF Context, FsOK, NodeOK
<1>4. ValidateSfFile(f) = "valid"
  BY <1>2, <1>3, SameVerdict
<1>5. Len(f.sections) \in 3..255 /\ i \in 1..Len(f.sections) /\ SectionOK(f, i) /\ f.content \in Seq(Char)
  BY <1>2, <1>3 DEF FileOK
<1>6. SectionNumber(i) = i /\ ~(i > Len(f.sections))
  <2> DEFINE n == Len(f.sections)
  <2>1. n \in 3..255 /\ i \in 1..n
    BY <1>5
  <2> HIDE DEF i, n
  <2>2. i \in 1..255 /\ ~(i > n)
    BY <2>1
  <2>3. i % 256 = i
    BY <2>2
  <2> QED
    BY <2>2, <2>3 DEF SectionNumber, n
<1>7. /\ a1' = "scan" /\ section' = i
      /\ at' = f.sections[i].offset + f.sections[i].size /\ left' = f.sections[i].size
      /\ current' = 1 /\ reached' = (l = 1)
      /\ unread' = 0 /\ line' = <<>> /\ capacity' = LineSize
  BY <1>1, <1>2, <1>4, <1>6 DEF StartExtract, Node
<1>8. l \in Nat \ {0}
  <2>1. DOMAIN SectionLines(f, i) = 1..Count(f.content, f.sections[i].offset, f.sections[i].size) + 1
    BY <1>5, SectionLinesAre
  <2> QED
    BY <1>2, <2>1
<1>9. Cmd' = Cmd /\ test_root' = test_root
  BY DEF Cmd
<1> HIDE DEF f, i, l, Cmd
<1>10. ScanOK(f, i, l, at', left', 0, 1, l = 1, <<>>, LineSize)
  BY <1>5, <1>7, <1>8, LineStarts
<1>11. ScanOK(f, i, l, at', left', unread', current', reached', line', capacity')
  BY <1>7, <1>10
<1> QED
  BY <1>1, <1>7, <1>9, <1>11 DEF A1OK, f, i, l

\* What is found in a directory, before p is looked at.
LEMMA NextEntry ==
  ASSUME Context, A1OK, ListEntry, NEW p, p = (CHOOSE q \in todo : TRUE)
  PROVE  /\ p \in todo /\ p \in Walked(test_root, Cmd)
         /\ Listing(test_root, Cmd, todo', output.names, {p})
<1> DEFINE more == IF Cmd.recursive /\ test_root[p].dir THEN Children(test_root, p) ELSE {}
<1>1. todo # {} /\ a1 = "list"
  BY DEF ListEntry, At
<1>2. p \in todo
  BY <1>1
<1>3. /\ Cmd.op \in {"list", "findall"}
      /\ Listing(test_root, Cmd, todo, output.names, {})
  BY <1>1 DEF A1OK
<1>4. FsOK(test_root) /\ Cmd.path \in Path
  BY <1>3 DEF Context, CommandOK, FsOK
<1>5. todo' = (todo \ {p}) \cup more
  BY DEF ListEntry, Node, Entries
<1> HIDE DEF more
<1>6. Listing(test_root, Cmd, (todo \ {p}) \cup more, output.names, {p})
  BY <1>2, <1>3, <1>4, ListingGoesOn DEF more
<1> QED
  BY <1>2, <1>3, <1>5, <1>6 DEF Listing

\* One more name is found.
LEMMA FoundMore ==
  ASSUME NEW out, NEW names, out = Found(names), NEW p
  PROVE  [out EXCEPT !.names = @ \cup {p}] = Found(names \cup {p})
<1>1. out = [lines |-> <<"SUCCESS">>, names |-> names]
  BY DEF Found
<1>2. [[lines |-> <<"SUCCESS">>, names |-> names] EXCEPT !.names = @ \cup {p}]
        = [lines |-> <<"SUCCESS">>, names |-> names \cup {p}]
  OBVIOUS
<1> QED
  BY <1>1, <1>2 DEF Found

\* a1 takes the next entry of a listing or of a search.
LEMMA EntryStep ==
  ASSUME Context, A1OK, ListEntry, UNCHANGED <<test, test_root>>
  PROVE  A1OK'
<1> DEFINE p == CHOOSE q \in todo : TRUE
           f == test_root[p].file
           searched == /\ Cmd.op = "findall" /\ ~ test_root[p].dir
                       /\ Len(f.sections) >= FindSections /\ ValidateSfFile(f) = "valid"
           fits(nameMatches) ==
             /\ Cmd.op = "list" /\ nameMatches
             /\ Cmd.permissions \in {<<>>, Permissions(test_root[p].perm)}
<1>1. p \in todo /\ p \in Walked(test_root, Cmd) /\ Listing(test_root, Cmd, todo', output.names, {p})
  BY NextEntry
<1>2. /\ a1 = "list" /\ line = <<>> /\ capacity = LineSize /\ unread = 0
      /\ Cmd.op \in {"list", "findall"} /\ output = Found(output.names)
  BY DEF A1OK, ListEntry, At
<1>3. /\ FsOK(test_root) /\ CommandOK(test_root, Cmd) /\ Cmd.path \in Path
  BY <1>2 DEF Context, CommandOK, FsOK
<1>4. line' = <<>> /\ capacity' = LineSize /\ unread' = 0
  BY <1>2 DEF ListEntry, scanVars
<1>5. PICK nameMatches \in EndsWith(Last(p)) :
        output' = IF fits(nameMatches) THEN [output EXCEPT !.names = @ \cup {p}] ELSE output
  BY DEF ListEntry, Node
<1>6. IF searched
      THEN /\ a1' = "search" /\ entry' = p /\ matching' = 0
           /\ section' = 1 /\ lines' = 1 /\ left' = f.sections[1].size
      ELSE UNCHANGED <<a1, left, searchVars>>
  BY DEF ListEntry, Node
<1>7. nameMatches = IsSuffix(Cmd.name_ends_with, Last(p))
  <2>1. Len(Last(p)) >= Len(Cmd.name_ends_with)
    BY <1>1, <1>2, <1>3, EndingFits
  <2> QED
    BY <1>5, <2>1 DEF EndsWith
<1>8. Cmd' = Cmd /\ test_root' = test_root
  BY DEF Cmd
<1>9. p \in DOMAIN test_root
  BY <1>1, <1>3, WalkedEntry
<1> HIDE DEF p, f, searched, Cmd
<1>10. fits(nameMatches) => p \in Wanted(test_root, Cmd)
  BY <1>1, <1>3, <1>7, EntryWanted
<1>11. Cmd.op = "list" => (fits(nameMatches) <=> p \in Wanted(test_root, Cmd))
  BY <1>1, <1>3, <1>7, EntryWanted
<1> DEFINE names == IF fits(nameMatches) THEN output.names \cup {p} ELSE output.names
<1>12. output' = Found(names) /\ output'.names = names
  <2> HIDE DEF fits
  <2> DEFINE old == output.names
  <2>1. output = Found(old)
    BY <1>2
  <2> HIDE DEF old
  <2>2. [output EXCEPT !.names = @ \cup {p}] = Found(old \cup {p})
    BY <2>1, FoundMore
  <2>3. output' = Found(names)
    BY <1>5, <2>1, <2>2 DEF old
  <2>4. \A x : Found(x).names = x
    BY DEF Found
  <2> QED
    BY <2>3, <2>4
<1> HIDE DEF fits
<1>13. CASE searched
  <2>1. /\ a1' = "search" /\ entry' = p /\ matching' = 0
        /\ section' = 1 /\ lines' = 1 /\ left' = f.sections[1].size
    BY <1>6, <1>13
  <2>2. /\ Cmd.op = "findall" /\ ~ test_root[p].dir
        /\ Len(f.sections) >= FindSections /\ ValidateSfFile(f) = "valid"
    BY <1>13 DEF searched
  <2>3. FileOK(f)
    BY <1>3, <1>9, <2>2 DEF FsOK, NodeOK, f
  <2>4. Complaint(f) = "none" /\ SearchOK(f, 1, f.sections[1].size, 1, 0)
    BY <2>2, <2>3, SameVerdict, SectionsStart
  <2>5. names = output.names
    BY <2>2 DEF fits
  <2>6. Listing(test_root, Cmd, todo', output'.names, {p})
    BY <1>1, <1>12, <2>5
  <2>7. SearchOK(test_root[p].file, section', left', lines', matching')
    BY <2>1, <2>4 DEF f
  <2> HIDE DEF names
  <2>8. Len(test_root[p].file.sections) >= FindSections /\ Complaint(test_root[p].file) = "none"
    BY <2>2, <2>4 DEF f
  <2> QED
    BY <1>1, <1>2, <1>4, <1>8, <1>12, <2>1, <2>2, <2>6, <2>7, <2>8 DEF A1OK
<1>14. CASE ~ searched
  <2>1. a1' = "list"
    BY <1>2, <1>6, <1>14
  <2>2. names = IF p \in Wanted(test_root, Cmd) THEN output.names \cup {p} ELSE output.names
    <3>1. CASE Cmd.op = "list"
      BY <1>11, <3>1
    <3>2. CASE Cmd.op = "findall"
      <4>1. p \notin Wanted(test_root, Cmd)
        BY <1>1, <1>3, <1>14, <3>2, FileUnwanted DEF searched, f
      <4> QED
        BY <1>10, <4>1
    <3> QED
      BY <1>2, <3>1, <3>2
  <2>3. Listing(test_root, Cmd, todo', names, {})
    BY <1>1, <2>2, ListingSettled
  <2> HIDE DEF names
  <2> QED
    BY <1>2, <1>4, <1>8, <1>12, <2>1, <2>3 DEF A1OK
<1> QED
  BY <1>13, <1>14

\* a1 has no entries left.
LEMMA EndListingStep ==
  ASSUME Context, A1OK, EndListing, UNCHANGED <<test, test_root>>
  PROVE  A1OK'
<1>1. /\ line = <<>> /\ capacity = LineSize /\ todo = {} /\ Ends(output)
      /\ Cmd.op \in {"list", "findall"} /\ output = Found(output.names)
      /\ Listing(test_root, Cmd, todo, output.names, {})
  BY DEF A1OK, EndListing, At
<1>2. output.names = Wanted(test_root, Cmd)
  BY <1>1, ListingEnds
<1>3. PerformA1(test_root, Cmd) = Found(Wanted(test_root, Cmd))
  BY <1>1, ExpectedFound
<1>4. output = test.expected
  BY <1>1, <1>2, <1>3 DEF Context
<1> QED
  BY <1>1, <1>4, AnswerGiven

\* a1 counts the lines of a chunk.
LEMMA ChunkStep ==
  ASSUME Context, A1OK, SearchChunk, UNCHANGED <<test, test_root>>
  PROVE  A1OK'
<1> DEFINE f == test_root[entry].file
           s == f.sections[section]
           n == Min({left, CHUNK_SIZE})
           a == s.offset + s.size - left
<1>1. /\ a1 = "search" /\ left > 0
      /\ lines' = Counted(lines + Separators(Bytes(f, a, n))) /\ left' = left - n
      /\ UNCHANGED <<a1, todo, output, entry, section, matching, scanVars>>
  BY DEF SearchChunk, Searching, At, Node
<1>2. /\ line = <<>> /\ capacity = LineSize /\ unread = 0
      /\ Cmd.op = "findall" /\ output = Found(output.names)
      /\ Listing(test_root, Cmd, todo, output.names, {entry})
      /\ entry \in Walked(test_root, Cmd) /\ ~ test_root[entry].dir
      /\ Complaint(f) = "none" /\ Len(f.sections) >= FindSections
      /\ SearchOK(f, section, left, lines, matching)
  BY <1>1 DEF A1OK
<1>3. FsOK(test_root) /\ Cmd.path \in Path
  BY <1>2 DEF Context, CommandOK, FsOK
<1>4. FileOK(f)
  BY <1>2, <1>3, WalkedEntry DEF FsOK, NodeOK
<1>5. Cmd' = Cmd /\ test_root' = test_root
  BY DEF Cmd
<1> HIDE DEF f, n, a, Cmd
<1>6. SearchOK(f, section, left - n, Counted(lines + Separators(Bytes(f, a, n))), matching)
  BY <1>1, <1>2, <1>4, ChunkSearched DEF n, a
<1>7. SearchOK(test_root[entry'].file, section', left', lines', matching')
  BY <1>1, <1>6 DEF f
<1>8. /\ a1' = "search" /\ line' = <<>> /\ capacity' = LineSize /\ unread' = 0
      /\ todo' = todo /\ output' = output /\ entry' = entry
  BY <1>1, <1>2 DEF scanVars
<1> QED
  BY <1>2, <1>5, <1>7, <1>8 DEF A1OK, f

\* a1 has counted the lines of a section.
LEMMA SectionStep ==
  ASSUME Context, A1OK, SearchSection, UNCHANGED <<test, test_root>>
  PROVE  A1OK'
<1> DEFINE f == test_root[entry].file
           more == matching + IF lines = FindLines THEN 1 ELSE 0
           found == more >= FindSections
<1>1. /\ a1 = "search" /\ ~ (left > 0 /\ lines < FindLines) /\ matching' = more
      /\ UNCHANGED <<todo, entry, scanVars>>
  BY DEF SearchSection, Searching, At
<1>2. /\ line = <<>> /\ capacity = LineSize /\ unread = 0
      /\ Cmd.op = "findall" /\ output = Found(output.names)
      /\ Listing(test_root, Cmd, todo, output.names, {entry})
      /\ entry \in Walked(test_root, Cmd) /\ ~ test_root[entry].dir
      /\ Complaint(f) = "none" /\ Len(f.sections) >= FindSections
      /\ SearchOK(f, section, left, lines, matching)
  BY <1>1 DEF A1OK
<1>3. FsOK(test_root) /\ Cmd.path \in Path
  BY <1>2 DEF Context, CommandOK, FsOK
<1>4. FileOK(f)
  BY <1>2, <1>3, WalkedEntry DEF FsOK, NodeOK
<1>5. Cmd' = Cmd /\ test_root' = test_root
  BY DEF Cmd
<1>6. /\ line' = <<>> /\ capacity' = LineSize /\ unread' = 0
      /\ todo' = todo /\ entry' = entry
  BY <1>1, <1>2 DEF scanVars
<1>7. IF found \/ section = Len(f.sections)
      THEN /\ a1' = "list"
           /\ output' = IF found THEN [output EXCEPT !.names = @ \cup {entry}] ELSE output
      ELSE /\ section' = section + 1 /\ lines' = 1 /\ left' = f.sections[section + 1].size
           /\ UNCHANGED <<a1, output>>
  BY <1>1 DEF SearchSection, Node
<1> HIDE DEF f, more, Cmd
<1>8. more = Cardinality(Matches(f, section)) /\ section \in 1..Len(f.sections)
  BY <1>1, <1>2, <1>4, SectionSearched DEF more
<1>9. /\ found => ParseFound(f)
      /\ section = Len(f.sections) => (ParseFound(f) <=> found)
  BY <1>2, <1>4, <1>8, MatchesFound
<1>10. entry \in Wanted(test_root, Cmd) <=> ParseFound(f)
  BY <1>2 DEF Wanted, f
<1> HIDE DEF found
<1>11. CASE found \/ section = Len(f.sections)
  <2> DEFINE old == output.names
             names == IF found THEN old \cup {entry} ELSE old
  <2>1. names = IF entry \in Wanted(test_root, Cmd) THEN old \cup {entry} ELSE old
    BY <1>9, <1>10, <1>11
  <2>2. Listing(test_root, Cmd, todo, names, {})
    BY <1>2, <2>1, ListingSettled
  <2>3. output = Found(old) /\ Found(names).names = names
    BY <1>2 DEF Found
  <2> HIDE DEF old
  <2>4. [output EXCEPT !.names = @ \cup {entry}] = Found(old \cup {entry})
    BY <2>3, FoundMore
  <2>5. output' = Found(names)
    BY <1>7, <1>11, <2>3, <2>4
  <2> HIDE DEF names
  <2>6. output' = Found(output'.names) /\ Listing(test_root, Cmd, todo', output'.names, {})
    BY <1>6, <2>2, <2>3, <2>5
  <2>7. a1' = "list"
    BY <1>7, <1>11
  <2> QED
    BY <1>2, <1>5, <1>6, <2>6, <2>7 DEF A1OK
<1>12. CASE ~ (found \/ section = Len(f.sections))
  <2>1. /\ section' = section + 1 /\ lines' = 1 /\ left' = f.sections[section + 1].size
        /\ a1' = "search" /\ output' = output
    BY <1>1, <1>7, <1>12
  <2>2. SearchOK(f, section + 1, f.sections[section + 1].size, 1, more)
    BY <1>4, <1>8, <1>12, NextSection
  <2>3. SearchOK(test_root[entry'].file, section', left', lines', matching')
    BY <1>1, <1>6, <2>1, <2>2 DEF f
  <2> QED
    BY <1>2, <1>5, <1>6, <2>1, <2>3 DEF A1OK, f
<1> QED
  BY <1>11, <1>12

-----------------------------------------------------------------------------
(* a1 looks for a line *)

\* What is known of the test in a scan.
LEMMA ScanContext ==
  ASSUME Context, A1OK, At("scan")
  PROVE  LET f == test_root[Cmd.path].file
         IN  /\ Cmd.op = "extract" /\ section = Cmd.section /\ Complaint(f) = "none"
             /\ SectionOK(f, section) /\ f.content \in Seq(Char)
             /\ section \in DOMAIN f.sections
             /\ Cmd.line \in DOMAIN SectionLines(f, section) /\ Cmd.line \in Nat \ {0}
             /\ ScanOK(f, section, Cmd.line, at, left, unread, current, reached, line, capacity)
             /\ test.expected = Answer(ParseLine(f, section, Cmd.line))
<1> DEFINE f == test_root[Cmd.path].file
           l == Cmd.line
<1>1. /\ Cmd.op = "extract" /\ section = Cmd.section
      /\ ScanOK(f, section, l, at, left, unread, current, reached, line, capacity)
  BY DEF A1OK, At
<1>2. /\ Cmd.path \in DOMAIN test_root /\ test_root[Cmd.path].dir = FALSE /\ Complaint(f) = "none"
      /\ section \in DOMAIN f.sections /\ l \in DOMAIN SectionLines(f, section)
  BY <1>1 DEF Context, CommandOK
<1>3. FileOK(f)
  BY <1>2 DEF Context, FsOK, NodeOK
<1>4. SectionOK(f, section) /\ f.content \in Seq(Char)
  BY <1>2, <1>3 DEF FileOK
<1>5. test.expected = Answer(ParseLine(f, section, l))
  BY <1>1 DEF Context, PerformA1
<1>6. l \in Nat \ {0}
  <2>1. DOMAIN SectionLines(f, section)
          = 1..Count(f.content, f.sections[section].offset, f.sections[section].size) + 1
    BY <1>4, SectionLinesAre
  <2> QED
    BY <1>2, <2>1
<1> QED
  BY <1>1, <1>2, <1>4, <1>5, <1>6

\* a1 reads a chunk to scan.
LEMMA ScanChunkStep ==
  ASSUME Context, A1OK, ScanChunk, UNCHANGED <<test, test_root>>
  PROVE  A1OK'
<1> DEFINE f == test_root[Cmd.path].file
           l == Cmd.line
           n == Min({left, CHUNK_SIZE})
<1>1. /\ a1 = "scan" /\ unread = 0 /\ left > 0 /\ current <= l
      /\ at' = at - n /\ left' = left - n /\ unread' = n
      /\ a1' = "scan" /\ section' = section
      /\ UNCHANGED <<current, reached, line, capacity>>
  BY DEF ScanChunk, At, searchVars
<1>2. /\ Cmd.op = "extract" /\ section = Cmd.section /\ SectionOK(f, section)
      /\ ScanOK(f, section, l, at, left, 0, current, reached, line, capacity)
  BY <1>1, ScanContext DEF At
<1>3. Cmd' = Cmd /\ test_root' = test_root
  BY DEF Cmd
<1> HIDE DEF f, l, n, Cmd
<1>4. ScanOK(f, section, l, at - n, left - n, n, current, reached, line, capacity)
  BY <1>1, <1>2, LineChunk DEF n
<1>5. ScanOK(f, section, l, at', left', unread', current', reached', line', capacity')
  BY <1>1, <1>4
<1> QED
  BY <1>1, <1>2, <1>3, <1>5 DEF A1OK, f, l

\* a1 scans a byte.
LEMMA ScanByteStep ==
  ASSUME Context, A1OK, ScanByte, UNCHANGED <<test, test_root>>
  PROVE  A1OK'
<1> DEFINE f == test_root[Cmd.path].file
           l == Cmd.line
           c == f.content[at + unread]
<1>1. /\ a1 = "scan" /\ unread > 0
      /\ a1' = "scan" /\ section' = section /\ at' = at /\ left' = left
  BY DEF ScanByte, At, searchVars
<1>2. IF c = NL
      THEN /\ current' = current + 1
           /\ reached' = (reached \/ current' = l)
           /\ unread' = IF current' > l THEN 0 ELSE unread - 1
           /\ UNCHANGED <<line, capacity>>
      ELSE /\ IF current = l
              THEN capacity' = Grown(Len(line)) /\ line' = Append(line, c)
              ELSE UNCHANGED <<line, capacity>>
           /\ unread' = unread - 1
           /\ UNCHANGED <<current, reached>>
  BY DEF ScanByte, Node
<1>3. /\ Cmd.op = "extract" /\ section = Cmd.section /\ SectionOK(f, section)
      /\ f.content \in Seq(Char) /\ l \in DOMAIN SectionLines(f, section) /\ l \in Nat \ {0}
      /\ ScanOK(f, section, l, at, left, unread, current, reached, line, capacity)
  BY <1>1, ScanContext DEF At
<1>4. Cmd' = Cmd /\ test_root' = test_root
  BY DEF Cmd
<1> HIDE DEF f, l, Cmd
<1>5. CASE c = NL
  <2>1. /\ current' = current + 1 /\ unread' = IF current' > l THEN 0 ELSE unread - 1
        /\ reached' = (reached \/ current' = l) /\ line' = line /\ capacity' = capacity
    BY <1>2, <1>5
  <2>2. ScanOK(f, section, l, at, left, unread', current', reached \/ current' = l, line, capacity)
    BY <1>1, <1>3, <1>5, <2>1, LineSeparator
  <2>3. ScanOK(f, section, l, at', left', unread', current', reached', line', capacity')
    BY <1>1, <2>1, <2>2
  <2> QED
    BY <1>1, <1>3, <1>4, <2>3 DEF A1OK, f, l
<1>6. CASE c # NL
  <2> DEFINE more == IF current = l THEN Append(line, c) ELSE line
             grown == IF current = l /\ Len(line) >= capacity THEN 2 * capacity ELSE capacity
  <2>1. /\ line' = more /\ capacity' = grown /\ unread' = unread - 1
        /\ current' = current /\ reached' = reached
    BY <1>2, <1>6 DEF Grown
  <2>2. ScanOK(f, section, l, at, left, unread - 1, current, reached, more, grown)
    <3> HIDE DEF c
    <3>1. \A x : x = f.content[at + unread] /\ x = c => x # NL
      BY <1>6
    <3>2. c = f.content[at + unread]
      BY DEF c
    <3> QED
      BY <1>1, <1>3, <1>6, <3>2, LineCharacter
  <2> HIDE DEF more, grown
  <2>3. ScanOK(f, section, l, at', left', unread', current', reached', line', capacity')
    BY <1>1, <2>1, <2>2
  <2> QED
    BY <1>1, <1>3, <1>4, <2>3 DEF A1OK, f, l
<1> QED
  BY <1>5, <1>6

\* a1 has left the loop over the chunks.
LEMMA ScanEndStep ==
  ASSUME Context, A1OK, ScanEnd, UNCHANGED <<test, test_root>>
  PROVE  A1OK'
<1> DEFINE f == test_root[Cmd.path].file
           l == Cmd.line
           found == SectionLines(f, section)
<1>1. /\ a1 = "scan" /\ unread = 0 /\ ~(left > 0 /\ current <= l)
      /\ a1' = "ended" /\ line' = line
      /\ output' = Answer(IF reached THEN <<"SUCCESS", line>> ELSE <<"ERROR", "invalid line">>)
      /\ capacity' = IF Len(line) = capacity THEN capacity + 1 ELSE capacity
  BY DEF ScanEnd, At
<1>2. /\ SectionOK(f, section) /\ f.content \in Seq(Char) /\ l \in DOMAIN found
      /\ section \in DOMAIN f.sections /\ Complaint(f) = "none"
      /\ ScanOK(f, section, l, at, left, 0, current, reached, line, capacity)
      /\ test.expected = Answer(ParseLine(f, section, l))
  BY <1>1, ScanContext DEF At
<1> HIDE DEF f, l
<1>3. reached /\ line = Reverse(found[Len(found) + 1 - l])
  BY <1>1, <1>2, LineEnds
<1>4. ParseLine(f, section, l) = <<"SUCCESS", line>>
  BY <1>2, <1>3 DEF ParseLine
<1>5. output' = test'.expected
  BY <1>1, <1>2, <1>3, <1>4
<1>6. Len(line) \in Nat /\ Len(line) <= capacity /\ capacity \in Nat
  BY <1>2 DEF ScanOK
<1>7. Len(line') <= capacity' /\ Len(line') < capacity'
  <2> DEFINE m == Len(line)
  <2>1. m \in Nat /\ capacity \in Nat /\ m <= capacity
    BY <1>6
  <2>2. Len(line') = m /\ capacity' = IF m = capacity THEN capacity + 1 ELSE capacity
    BY <1>1
  <2> HIDE DEF m
  <2>3. m <= capacity' /\ m < capacity'
    BY <2>1, <2>2
  <2> QED
    BY <2>2, <2>3
<1> QED
  BY <1>1, <1>5, <1>7 DEF A1OK

\* Whatever a1 does.
LEMMA A1Step ==
  ASSUME Context, A1OK, A1
  PROVE  A1OK'
<1>1. UNCHANGED <<test, test_root>>
  BY DEF A1, diskVars, sessionVars
<1>2. \/ StartVariant \/ StartListing \/ StartParse \/ StartExtract \/ ListEntry
      \/ EndListing \/ SearchChunk \/ SearchSection \/ ScanChunk \/ ScanByte \/ ScanEnd
  BY DEF A1
<1> QED
  BY <1>1, <1>2, VariantStep, ListingStep, ParseStep, ExtractStep, EntryStep, EndListingStep,
     ChunkStep, SectionStep, ScanChunkStep, ScanByteStep, ScanEndStep

-----------------------------------------------------------------------------
(* The tester and its test *)

\* The tester.
SessionOK ==
  /\ SeedOK(seed)
  /\ main \in {"load", "generate", "grade", "join", "joinAgain", "graded", "failed", "down"}
  /\ main = "generate" =>
       /\ step \in 0..6 /\ saved # "whole"
       /\ step \in 1..5 => test_root = Built(seed, step)
       /\ step = 6 => test_root = TestFs(seed) /\ tests = GenerateTests(TestFs(seed), seed)
  /\ main \in {"grade", "join", "joinAgain", "graded"} => saved = "whole"
  /\ saved = "whole" =>
       test_root = TestFs(seed) /\ tests = GenerateTests(TestFs(seed), seed)
  /\ results \in Seq([timeout : BOOLEAN, point : {0, 1}])

RunOK ==
  /\ timeout \in BOOLEAN
  /\ a1 \in {"none", "main", "list", "search", "scan", "ended", "killed"}
  /\ main \in {"join", "joinAgain"} => test \in tests
  /\ main \notin {"join", "joinAgain"} => thread = "done" /\ a1 = "none"
  /\ thread \in {"start", "communicate", "done"}
  /\ a1 = "none" <=> thread = "start" \/ main \notin {"join", "joinAgain"}
  /\ main \in {"join", "joinAgain"} /\ thread = "done" => a1 \in {"ended", "killed"}
  /\ a1 = "killed" => timeout

IInv ==
  SessionOK /\ RunOK /\ A1OK /\ FullScore

\* While a1 runs a test, the test is one of the file system it runs in.
LEMMA RunContext ==
  ASSUME SessionOK, RunOK, main \in {"join", "joinAgain"}
  PROVE  Context
<1>1. /\ SeedOK(seed) /\ saved = "whole" /\ test_root = TestFs(seed)
      /\ tests = GenerateTests(TestFs(seed), seed) /\ test \in tests
  BY DEF SessionOK, RunOK
<1>2. PICK cmd \in Commands(test_root, seed) :
        test = [cmd |-> cmd, expected |-> PerformA1(test_root, cmd)]
  BY <1>1 DEF GenerateTests
<1>3. test.cmd = cmd /\ test.expected = PerformA1(test_root, cmd)
  BY <1>2
<1>4. CommandOK(test_root, cmd)
  BY <1>1, CommandsOK
<1>5. FsOK(test_root)
  BY <1>1, TestFsOK
<1> QED
  BY <1>3, <1>4, <1>5 DEF Context, Cmd

\* The first state of a session.
LEMMA InitOK ==
  ASSUME Init
  PROVE  IInv
<1>1. SeedOK(seed)
  BY SeedsOK DEF Init
<1>2. SessionOK
  BY <1>1 DEF Init, SessionOK
<1>3. RunOK
  BY DEF Init, RunOK
<1>4. A1OK
  BY DEF Init, A1OK
<1>5. FullScore
  BY DEF Init, FullScore
<1> QED
  BY <1>2, <1>3, <1>4, <1>5 DEF IInv

\* What a1 does, it does while its thread waits for it.
LEMMA A1Goes ==
  ASSUME A1
  PROVE  a1 \in {"main", "list", "search", "scan"} /\ a1' \in {"list", "search", "scan", "ended"}
<1>1. \/ StartVariant \/ StartListing \/ StartParse \/ StartExtract \/ ListEntry
      \/ EndListing \/ SearchChunk \/ SearchSection \/ ScanChunk \/ ScanByte \/ ScanEnd
  BY DEF A1
<1>2. ASSUME StartVariant \/ StartListing \/ StartParse \/ StartExtract
      PROVE  a1 = "main" /\ a1' \in {"list", "scan", "ended"}
  BY <1>2 DEF StartVariant, StartListing, StartParse, StartExtract, Ends, Error, At
<1>3. ASSUME ListEntry \/ EndListing
      PROVE  a1 = "list" /\ a1' \in {"list", "search", "ended"}
  BY <1>3 DEF ListEntry, EndListing, Ends, At
<1>4. ASSUME SearchChunk \/ SearchSection
      PROVE  a1 = "search" /\ a1' \in {"list", "search"}
  BY <1>4 DEF SearchChunk, SearchSection, Searching, At
<1>5. ASSUME ScanChunk \/ ScanByte \/ ScanEnd
      PROVE  a1 = "scan" /\ a1' \in {"scan", "ended"}
  BY <1>5 DEF ScanChunk, ScanByte, ScanEnd, At
<1> QED
  BY <1>1, <1>2, <1>3, <1>4, <1>5

\* Steps of a1 keep the invariant.
LEMMA A1Keeps ==
  ASSUME IInv, A1
  PROVE  IInv'
<1>1. a1 \in {"main", "list", "search", "scan"} /\ a1' \in {"list", "search", "scan", "ended"}
  BY A1Goes
<1>2. UNCHANGED <<seed, test_root, tests, saved, main, step, crashes, test, results, thread, timeout>>
  BY DEF A1, diskVars, sessionVars
<1>3. SessionOK /\ RunOK /\ A1OK /\ FullScore
  BY DEF IInv
<1>4. main \in {"join", "joinAgain"}
  BY <1>1, <1>3 DEF RunOK
<1>5. A1OK'
  BY <1>3, <1>4, RunContext, A1Step
<1>6. RunOK'
  BY <1>1, <1>2, <1>3, <1>4 DEF RunOK
<1>7. SessionOK'
  BY <1>2, <1>3 DEF SessionOK
<1>8. FullScore'
  BY <1>2, <1>3 DEF FullScore
<1> QED
  BY <1>5, <1>6, <1>7, <1>8 DEF IInv

\* So do those of the thread that starts it and waits for it,
LEMMA ThreadKeeps ==
  ASSUME IInv, Thread
  PROVE  IInv'
<1>1. UNCHANGED <<seed, test_root, tests, saved, main, step, crashes, test, results, timeout>>
  BY DEF Thread, diskVars, sessionVars
<1>2. SessionOK /\ RunOK /\ A1OK /\ FullScore
  BY DEF IInv
<1>3. SessionOK' /\ FullScore'
  BY <1>1, <1>2 DEF SessionOK, FullScore
<1>4. CASE Popen
  <2>1. /\ thread = "start" /\ thread' = "communicate" /\ a1' = "main"
        /\ line' = <<>> /\ capacity' = LineSize /\ unread' = 0
    BY <1>4 DEF Popen, Fresh
  <2>2. A1OK'
    BY <2>1 DEF A1OK
  <2>3. RunOK'
    BY <1>1, <1>2, <2>1 DEF RunOK
  <2> QED
    BY <1>3, <2>2, <2>3 DEF IInv
<1>5. CASE Communicate
  <2>1. thread = "communicate" /\ a1 \in {"ended", "killed"} /\ thread' = "done" /\ UNCHANGED a1Vars
    BY <1>5 DEF Communicate
  <2>2. A1OK'
    BY <1>1, <1>2, <2>1 DEF A1OK, Cmd, a1Vars, searchVars, scanVars
  <2>3. RunOK'
    BY <1>1, <1>2, <2>1 DEF RunOK, a1Vars
  <2> QED
    BY <1>3, <2>2, <2>3 DEF IInv
<1> QED
  BY <1>4, <1>5 DEF Thread

\* While there is no test, nothing of a1 changes.
LEMMA NoTestOK ==
  ASSUME IInv, TesterOnly, main \notin {"join", "joinAgain"}, main' \notin {"join", "joinAgain"}
  PROVE  A1OK' /\ RunOK'
<1>1. RunOK /\ A1OK
  BY DEF IInv
<1>2. a1 = "none" /\ thread = "done"
  BY <1>1 DEF RunOK
<1>3. /\ thread' = "done" /\ timeout' = timeout /\ a1' = "none"
      /\ line' = line /\ capacity' = capacity /\ unread' = unread
  BY <1>2 DEF TesterOnly, a1Vars, scanVars
<1>4. A1OK'
  BY <1>1, <1>2, <1>3 DEF A1OK
<1>5. RunOK'
  BY <1>1, <1>2, <1>3 DEF RunOK
<1> QED
  BY <1>4, <1>5

\* No test is run, whatever a1 did last.
LEMMA IdleOK ==
  ASSUME IInv, Idle, main' \notin {"join", "joinAgain"}
  PROVE  A1OK' /\ RunOK'
<1>1. /\ thread' = "done" /\ timeout' = FALSE /\ a1' = "none"
      /\ line' = <<>> /\ capacity' = LineSize /\ unread' = 0
  BY DEF Idle, Fresh
<1>2. A1OK'
  BY <1>1 DEF A1OK
<1>3. RunOK'
  BY <1>1 DEF RunOK
<1> QED
  BY <1>2, <1>3

\* So do reading tests.json,
LEMMA LoadKeeps ==
  ASSUME IInv, LoadTests
  PROVE  IInv'
<1>1. SessionOK /\ FullScore
  BY DEF IInv
<1>2. /\ main = "load" /\ UNCHANGED <<seed, test_root, tests, saved, results>> /\ step' = 0
      /\ TesterOnly
      /\ main' = CASE saved = "whole" -> "grade" [] saved = "part" -> "failed"
                   [] OTHER -> "generate"
  BY DEF LoadTests, Goes, diskVars
<1>3. /\ main' \in {"grade", "failed", "generate"}
      /\ main' = "grade" => saved = "whole"
      /\ main' = "generate" => saved # "whole"
  BY <1>2
<1>4. A1OK' /\ RunOK'
  BY <1>2, <1>3, NoTestOK
<1>5. SessionOK'
  BY <1>1, <1>2, <1>3 DEF SessionOK
<1>6. FullScore'
  BY <1>1, <1>2 DEF FullScore
<1> QED
  BY <1>4, <1>5, <1>6 DEF IInv

\* generating the tests anew,
LEMMA GenerateKeeps ==
  ASSUME IInv, Generate
  PROVE  IInv'
<1>1. SessionOK /\ FullScore
  BY DEF IInv
<1>2. /\ main = "generate" /\ step' = step + 1 /\ UNCHANGED <<seed, results>> /\ TesterOnly
      /\ BuildTestFs \/ MakeTests \/ SaveTests
  BY DEF Generate
<1>3. /\ SeedOK(seed) /\ step \in 0..6 /\ saved # "whole"
      /\ step \in 1..5 => test_root = Built(seed, step)
      /\ step = 6 => test_root = TestFs(seed) /\ tests = GenerateTests(TestFs(seed), seed)
      /\ results \in Seq([timeout : BOOLEAN, point : {0, 1}])
  BY <1>1, <1>2 DEF SessionOK
<1>4. CASE BuildTestFs
  <2>1. /\ step \in 0..4 /\ tests' = tests /\ saved' = saved
        /\ \/ main' = "failed"
           \/ /\ main' = "generate"
              /\ test_root' = IF step = 0 THEN RootGone ELSE Made(test_root, Part(seed, step))
    BY <1>2, <1>4 DEF BuildTestFs, Goes
  <2>2. CASE main' = "failed"
    <3>1. SessionOK'
      BY <1>2, <1>3, <2>1, <2>2 DEF SessionOK
    <3> QED
      BY <1>1, <1>2, <2>2, <3>1, NoTestOK DEF IInv, FullScore
  <2>3. CASE main' = "generate" /\ test_root' = IF step = 0 THEN RootGone ELSE Made(test_root, Part(seed, step))
    <3>1. step' \in 1..5 /\ step' \in 0..6 /\ step' # 6
      BY <1>2, <2>1
    <3>2. test_root' = Built(seed, step')
      <4>1. CASE step = 0
        BY <1>2, <2>3, <4>1 DEF RootGone, Built
      <4>2. CASE step \in 1..4
        <5>1. step \in 1..5 /\ step # 0
          BY <4>2
        <5>2. test_root = Built(seed, step)
          BY <1>3, <5>1
        <5>3. Built(seed, step + 1) = Made(Built(seed, step), Part(seed, step))
          BY <4>2, BuiltStep
        <5> QED
          BY <1>2, <2>3, <5>1, <5>2, <5>3
      <4> QED
        BY <2>1, <4>1, <4>2
    <3>3. SessionOK'
      BY <1>2, <1>3, <2>1, <2>3, <3>1, <3>2 DEF SessionOK
    <3> QED
      BY <1>1, <1>2, <2>3, <3>3, NoTestOK DEF IInv, FullScore
  <2> QED
    BY <2>1, <2>2, <2>3
<1>5. CASE MakeTests
  <2>1. /\ step = 5 /\ tests' = GenerateTests(test_root, seed) /\ saved' = "part"
        /\ main' = main /\ test_root' = test_root
    BY <1>5 DEF MakeTests
  <2>2. test_root = TestFs(seed) /\ step' = 6
    BY <1>2, <1>3, <2>1 DEF TestFs
  <2>3. SessionOK'
    BY <1>2, <1>3, <2>1, <2>2 DEF SessionOK
  <2> QED
    BY <1>1, <1>2, <2>1, <2>3, NoTestOK DEF IInv, FullScore
<1>6. CASE SaveTests
  <2>1. /\ step = 6 /\ saved' = "whole" /\ main' = "grade"
        /\ test_root' = test_root /\ tests' = tests
    BY <1>6 DEF SaveTests, Goes
  <2>2. SessionOK'
    BY <1>2, <1>3, <2>1 DEF SessionOK
  <2> QED
    BY <1>1, <1>2, <2>1, <2>2, NoTestOK DEF IInv, FullScore
<1> QED
  BY <1>2, <1>4, <1>5, <1>6

\* beginning a test,
LEMMA PerformKeeps ==
  ASSUME IInv, Perform
  PROVE  IInv'
<1>1. SessionOK /\ RunOK /\ A1OK /\ FullScore
  BY DEF IInv
<1>2. /\ main = "grade" /\ main' = "join" /\ test' \in tests /\ thread' = "start"
      /\ UNCHANGED <<seed, test_root, tests, saved, step, results, timeout, a1Vars>>
  BY DEF Perform, Goes, diskVars
<1>3. /\ a1 = "none" /\ a1' = "none"
      /\ line' = line /\ capacity' = capacity /\ unread' = unread
  BY <1>1, <1>2 DEF RunOK, a1Vars, scanVars
<1>4. A1OK'
  BY <1>1, <1>3 DEF A1OK
<1>5. RunOK'
  BY <1>1, <1>2, <1>3 DEF RunOK
<1>6. SessionOK'
  BY <1>1, <1>2 DEF SessionOK
<1>7. FullScore'
  BY <1>1, <1>2 DEF FullScore
<1> QED
  BY <1>4, <1>5, <1>6, <1>7 DEF IInv

\* A test that meets no time limit has ended as it should.
LEMMA VerdictKeeps ==
  ASSUME IInv, Verdict
  PROVE  IInv'
<1> DEFINE verdict == [timeout |-> timeout, point |-> IF output = test.expected THEN 1 ELSE 0]
<1>1. SessionOK /\ RunOK /\ A1OK /\ FullScore
  BY DEF IInv
<1>2. /\ main \in {"join", "joinAgain"} /\ thread = "done" /\ main' = "grade"
      /\ results' = Append(results, verdict) /\ Idle
      /\ UNCHANGED <<seed, test_root, tests, saved>>
  BY DEF Verdict, Goes, diskVars
<1>3. a1 \in {"ended", "killed"} /\ (a1 = "killed" => timeout) /\ timeout \in BOOLEAN
  BY <1>1, <1>2 DEF RunOK
<1>4. a1 = "ended" => output = test.expected
  BY <1>1 DEF A1OK
<1>5. /\ verdict \in [timeout : BOOLEAN, point : {0, 1}]
      /\ verdict.timeout \/ verdict.point = 1
  BY <1>3, <1>4
<1>6. saved = "whole" /\ results \in Seq([timeout : BOOLEAN, point : {0, 1}])
  BY <1>1, <1>2 DEF SessionOK
<1> HIDE DEF verdict
<1>7. /\ results' \in Seq([timeout : BOOLEAN, point : {0, 1}])
      /\ DOMAIN results' = 1..Len(results)+1
      /\ \A i \in 1..Len(results) : results'[i] = results[i]
      /\ results'[Len(results) + 1] = verdict
  BY <1>2, <1>5, <1>6
<1>8. FullScore'
  <2> DEFINE n == Len(results)
  <2>1. n \in Nat /\ DOMAIN results = 1..n
    BY <1>6
  <2>2. DOMAIN results' = 1..n+1 /\ results'[n+1] = verdict /\ \A i \in 1..n : results'[i] = results[i]
    BY <1>7
  <2> HIDE DEF n
  <2>3. ASSUME NEW i \in 1..n+1
        PROVE  results'[i].timeout \/ results'[i].point = 1
    <3>1. CASE i = n + 1
      BY <1>5, <2>2, <3>1
    <3>2. CASE i \in 1..n
      BY <1>1, <2>1, <2>2, <3>2 DEF FullScore
    <3> QED
      BY <2>1, <3>1, <3>2
  <2> QED
    BY <2>2, <2>3 DEF FullScore
<1>9. A1OK' /\ RunOK'
  BY <1>2, IdleOK
<1>10. SessionOK'
  BY <1>1, <1>2, <1>6, <1>7 DEF SessionOK
<1> QED
  BY <1>8, <1>9, <1>10 DEF IInv

\* ending the session,
LEMMA GradeKeeps ==
  ASSUME IInv, Grade
  PROVE  IInv'
<1>1. SessionOK /\ FullScore
  BY DEF IInv
<1>2. /\ main = "grade" /\ main' = "graded" /\ UNCHANGED <<seed, test_root, tests, saved, results>>
      /\ TesterOnly
  BY DEF Grade, Goes, diskVars
<1>3. SessionOK'
  BY <1>1, <1>2 DEF SessionOK
<1> QED
  BY <1>1, <1>2, <1>3, NoTestOK DEF IInv, FullScore

\* a time limit, which kills a1 anywhere,
LEMMA TimeLimitKeeps ==
  ASSUME IInv, TimeLimit
  PROVE  IInv'
<1>1. SessionOK /\ RunOK /\ A1OK /\ FullScore
  BY DEF IInv
<1>2. /\ main = "join" /\ main' = "joinAgain" /\ thread # "done"
      /\ UNCHANGED <<seed, test_root, tests, saved, test, results, thread>>
      /\ IF thread = "start" THEN UNCHANGED <<timeout, a1Vars>>
         ELSE /\ timeout' = TRUE
              /\ IF a1 = "ended" THEN UNCHANGED a1Vars ELSE a1' = "killed" /\ Fresh
  BY DEF TimeLimit, Goes, diskVars
<1>3. SessionOK'
  BY <1>1, <1>2 DEF SessionOK
<1>4. FullScore'
  BY <1>1, <1>2 DEF FullScore
<1>5. ASSUME UNCHANGED a1Vars
      PROVE  A1OK'
  BY <1>1, <1>2, <1>5 DEF A1OK, Cmd, a1Vars, searchVars, scanVars
<1>6. ASSUME a1' = "killed", Fresh
      PROVE  A1OK'
  BY <1>6 DEF A1OK, Fresh
<1>7. A1OK'
  BY <1>2, <1>5, <1>6
<1>8. RunOK'
  BY <1>1, <1>2 DEF RunOK, a1Vars
<1> QED
  BY <1>3, <1>4, <1>7, <1>8 DEF IInv

\* What is in tests.json outlives the tester, and so does test_root.
LEMMA CrashKeeps ==
  ASSUME IInv, Crash
  PROVE  IInv'
<1>1. SessionOK
  BY DEF IInv
<1>2. /\ main' = "down" /\ results' = <<>> /\ Idle /\ UNCHANGED <<seed, test_root, saved>>
      /\ tests' = IF saved = "whole" THEN tests ELSE {}
  BY DEF Crash, Goes
<1>3. SessionOK'
  BY <1>1, <1>2 DEF SessionOK
<1>4. FullScore'
  BY <1>2 DEF FullScore
<1> QED
  BY <1>2, <1>3, <1>4, IdleOK DEF IInv

\* a new session,
LEMMA RestartKeeps ==
  ASSUME IInv, Restart
  PROVE  IInv'
<1>1. SessionOK /\ FullScore
  BY DEF IInv
<1>2. /\ main = "down" /\ main' = "load" /\ UNCHANGED <<seed, test_root, tests, saved, results>>
      /\ TesterOnly
  BY DEF Restart, Goes, diskVars
<1>3. SessionOK'
  BY <1>1, <1>2 DEF SessionOK
<1> QED
  BY <1>1, <1>2, <1>3, NoTestOK DEF IInv, FullScore

\* and nothing at all.
LEMMA StutterKeeps ==
  ASSUME IInv, UNCHANGED vars
  PROVE  IInv'
<1>1. /\ SessionOK /\ RunOK /\ A1OK /\ FullScore
      /\ UNCHANGED <<diskVars, sessionVars, thread, timeout, a1Vars>>
  BY DEF IInv, vars
<1>2. SessionOK'
  BY <1>1 DEF SessionOK, diskVars, sessionVars
<1>3. RunOK'
  BY <1>1 DEF RunOK, diskVars, sessionVars, a1Vars
<1>4. A1OK'
  BY <1>1 DEF A1OK, Cmd, diskVars, sessionVars, a1Vars, searchVars, scanVars
<1>5. FullScore'
  BY <1>1 DEF FullScore, sessionVars
<1> QED
  BY <1>2, <1>3, <1>4, <1>5 DEF IInv

\* The invariant holds in every state: the tester and its tests agree with test_root
\* across interruptions, and what a1 has read, counted and found so far is what
\* perform_a1() takes of the same bytes.
THEOREM Invariance == Spec => []IInv
<1>1. ASSUME IInv, [Next]_vars
      PROVE  IInv'
  <2>1. CASE Next
    BY <1>1, <2>1, LoadKeeps, GenerateKeeps, PerformKeeps, VerdictKeeps, GradeKeeps, TimeLimitKeeps,
       CrashKeeps, RestartKeeps, ThreadKeeps, A1Keeps DEF Next, Main
  <2>2. CASE UNCHANGED vars
    BY <1>1, <2>2, StutterKeeps
  <2> QED
    BY <1>1, <2>1, <2>2
<1> QED
  BY <1>1, InitOK, PTL DEF Spec

\* FullScore: a test that meets no time limit gets its point, in every file system that
\* generateTests() may build and for every command it may choose, whatever the sizes of
\* chunks, lines and sections are.
THEOREM FullScoreHolds == Spec => []FullScore
<1>1. IInv => FullScore
  BY DEF IInv
<1> QED
  BY <1>1, Invariance, PTL

\* What a1 touches while the invariant holds.
LEMMA InsideOK ==
  ASSUME IInv
  PROVE  NothingOutside
<1>1. SessionOK /\ RunOK /\ A1OK
  BY DEF IInv
<1>2. a1 \notin {"none"} => Context
  BY <1>1, RunContext DEF RunOK
<1>3. Len(<<>>) <= LineSize
  BY FileTesterAssumption
<1>4. a1 \in {"none", "main", "list", "search", "scan", "ended", "killed"}
  BY <1>1 DEF RunOK
<1>5. Len(line) <= capacity
  <2>1. CASE a1 \in {"none", "main", "list", "search", "killed"}
    BY <1>1, <1>3, <2>1 DEF A1OK
  <2>2. CASE a1 = "scan"
    BY <1>1, <2>2 DEF A1OK, ScanOK
  <2>3. CASE a1 = "ended"
    BY <1>1, <2>3 DEF A1OK
  <2> QED
    BY <1>4, <2>1, <2>2, <2>3
<1>6. At("ended") /\ line # <<>> => Len(line) < capacity
  BY <1>1 DEF A1OK, At
<1>7. ASSUME At("scan")
      PROVE  LET s == Node(Cmd.path).file.sections[section]
             IN  at - left = s.offset /\ at + unread <= s.offset + s.size
  BY <1>1, <1>7 DEF A1OK, ScanOK, At, Node
<1>8. ASSUME At("list"), NEW p \in todo
      PROVE  Len(Last(p)) >= Len(Cmd.name_ends_with)
  <2>1. /\ Context /\ Cmd.op \in {"list", "findall"} /\ p \in Walked(test_root, Cmd)
    BY <1>1, <1>2, <1>8 DEF A1OK, At, Listing
  <2> QED
    BY <2>1, EndingFits DEF Context
<1> QED
  BY <1>5, <1>6, <1>7, <1>8 DEF NothingOutside

\* NothingOutside: a1.c reads inside the section and inside names, and writes the line
\* inside result_line.
THEOREM NothingOutsideHolds == Spec => []NothingOutside
BY Invariance, InsideOK, PTL
===============================================================================
