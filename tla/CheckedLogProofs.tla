--------------------------- MODULE CheckedLogProofs ---------------------------
(***************************************************************************)
(* Proofs about CheckedLog: whatever the clients send, and whatever        *)
(* a2_data.json requires, each check of the tester awards its full points  *)
(* exactly if the messages arrived in the order it asks for; and about the *)
(* MessageLog below it, whose numbers tell the order of arrival.           *)
(***************************************************************************)
EXTENDS CheckedLog, FiniteSetTheorems, TLAPS

-----------------------------------------------------------------------------
(* The server: MessageLog, whoever sends *)

\* The log is well typed, whatever is sent.
THEOREM LogTypeCorrect == LogSpec => []LogTypeOK
<1>1. LogInit => LogTypeOK
  BY MessageLogAssumption DEF LogInit, EmptyLog, LogTypeOK
<1>2. LogTypeOK /\ [LogNext]_logVars => LogTypeOK'
  <2> SUFFICES ASSUME LogTypeOK, [LogNext]_logVars PROVE LogTypeOK'
    OBVIOUS
  <2> USE MessageLogAssumption DEF LogTypeOK
  <2>1. ASSUME NEW k \in Keys, RecordBegin(k) PROVE LogTypeOK'
    BY <2>1 DEF RecordBegin, NextTime
  <2>2. ASSUME NEW k \in Keys, RecordEnd(k) PROVE LogTypeOK'
    BY <2>2 DEF RecordEnd, NextTime
  <2>3. CASE Refuse
    BY <2>3 DEF Refuse
  <2>4. CASE UNCHANGED logVars
    BY <2>4 DEF logVars
  <2>5. QED
    BY <2>1, <2>2, <2>3, <2>4 DEF LogNext, AddBegin, AddEnd
<1>3. QED
  BY <1>1, <1>2, PTL DEF LogSpec

\* The numbers of the messages are distinct, between 1 and `time`, and that of an
\* END is higher than that of its BEGIN.
THEOREM WellNumberedHolds == LogSpec => []WellNumbered
<1>1. LogInit => WellNumbered
  BY DEF LogInit, EmptyLog, WellNumbered
<1>2. LogTypeOK /\ WellNumbered /\ [LogNext]_logVars => WellNumbered'
  <2> SUFFICES ASSUME LogTypeOK, WellNumbered, [LogNext]_logVars PROVE WellNumbered'
    OBVIOUS
  <2>1. ASSUME NEW k \in Keys, RecordBegin(k) PROVE WellNumbered'
    BY <2>1 DEF RecordBegin, NextTime, AcceptsBegin, LogTypeOK, WellNumbered
  <2>2. ASSUME NEW k \in Keys, RecordEnd(k) PROVE WellNumbered'
    BY <2>2 DEF RecordEnd, NextTime, AcceptsEnd, LogTypeOK, WellNumbered
  <2>3. CASE Refuse
    BY <2>3 DEF Refuse, WellNumbered
  <2>4. CASE UNCHANGED logVars
    BY <2>4 DEF logVars, WellNumbered
  <2>5. QED
    BY <2>1, <2>2, <2>3, <2>4 DEF LogNext, AddBegin, AddEnd
<1>3. QED
  BY <1>1, <1>2, LogTypeCorrect, PTL DEF LogSpec

\* A number is never changed once it is given.
THEOREM NumbersStayHolds == LogSpec => NumbersStay
<1>1. LogTypeOK /\ WellNumbered /\ [LogNext]_logVars
        => [\A k \in Keys : /\ timeStart[k] # 0 => timeStart'[k] = timeStart[k]
                            /\ timeEnd[k] # 0 => timeEnd'[k] = timeEnd[k]]_logVars
  <2> SUFFICES ASSUME LogTypeOK, WellNumbered, LogNext, NEW j \in Keys
               PROVE  /\ timeStart[j] # 0 => timeStart'[j] = timeStart[j]
                      /\ timeEnd[j] # 0 => timeEnd'[j] = timeEnd[j]
    OBVIOUS
  <2>1. ASSUME NEW k \in Keys, RecordBegin(k)
        PROVE  /\ timeStart[j] # 0 => timeStart'[j] = timeStart[j]
               /\ timeEnd[j] # 0 => timeEnd'[j] = timeEnd[j]
    BY <2>1 DEF RecordBegin, NextTime, AcceptsBegin, LogTypeOK, WellNumbered
  <2>2. ASSUME NEW k \in Keys, RecordEnd(k)
        PROVE  /\ timeStart[j] # 0 => timeStart'[j] = timeStart[j]
               /\ timeEnd[j] # 0 => timeEnd'[j] = timeEnd[j]
    BY <2>2 DEF RecordEnd, NextTime, AcceptsEnd, LogTypeOK
  <2>3. CASE Refuse
    BY <2>3 DEF Refuse
  <2>4. QED
    BY <2>1, <2>2, <2>3 DEF LogNext, AddBegin, AddEnd
<1>2. QED
  BY <1>1, LogTypeCorrect, WellNumberedHolds, PTL DEF LogSpec, NumbersStay
\* What a message that is not refused does to the log, and what any other step leaves as it is.
LEMMA Recorded ==
  ASSUME LogTypeOK, WellNumbered, NEW k \in Keys,
         \/ AddBegin(k) /\ k \notin infos
         \/ AddEnd(k) /\ k \in infos /\ timeEnd[k] = 0
  PROVE  LogTypeOK' /\ WellNumbered' /\ errors' = errors
<1>1. CASE RecordBegin(k)
  <2>1. LogTypeOK' /\ errors' = errors
    BY <1>1 DEF RecordBegin, NextTime, LogTypeOK
  <2>2. WellNumbered'
    BY <1>1 DEF RecordBegin, NextTime, AcceptsBegin, LogTypeOK, WellNumbered
  <2>3. QED
    BY <2>1, <2>2
<1>2. CASE RecordEnd(k)
  <2>1. LogTypeOK' /\ errors' = errors
    BY <1>2 DEF RecordEnd, NextTime, LogTypeOK
  <2>2. WellNumbered'
    BY <1>2 DEF RecordEnd, NextTime, AcceptsEnd, LogTypeOK, WellNumbered
  <2>3. QED
    BY <2>1, <2>2
<1>3. QED
  BY <1>1, <1>2 DEF AddBegin, AddEnd, AcceptsBegin, AcceptsEnd

\* A step that sends nothing.
LEMMA Untouched ==
  ASSUME LogTypeOK, WellNumbered, UNCHANGED logVars
  PROVE  LogTypeOK' /\ WellNumbered' /\ errors' = errors
BY DEF logVars, LogTypeOK, WellNumbered

\* The threads 1..n of a process are n keys.
LEMMA ThreadsCounted ==
  ASSUME NEW n \in Nat, NEW proc
  PROVE  /\ IsFiniteSet({<<proc, t>> : t \in 1..n})
         /\ Cardinality({<<proc, t>> : t \in 1..n}) = n
<1> DEFINE T == {<<proc, t>> : t \in 1..n}
           f == [t \in 1..n |-> <<proc, t>>]
<1>1. f \in Bijection(1..n, T)
  <2>1. f \in Injection(1..n, T)
    BY DEF Injection, IsInjective
  <2>2. f \in Surjection(1..n, T)
    BY DEF Surjection
  <2> QED
    BY <2>1, <2>2 DEF Bijection
<1>2. ExistsBijection(1..n, T)
  BY <1>1 DEF ExistsBijection
<1>3. IsFiniteSet(1..n) /\ Cardinality(1..n) = n
  BY FS_Interval
<1> QED
  BY <1>2, <1>3, FS_Bijection

-----------------------------------------------------------------------------
(* The server and its clients: CheckedLog *)

\* The numbers are the places of the messages in the log.
Places ==
  \A i \in 1..Len(log), k \in Keys :
    /\ log[i] = <<"BEGIN", k>> <=> timeStart[k] = i
    /\ log[i] = <<"END", k>> <=> timeEnd[k] = i

LogInv ==
  /\ log \in Seq({"BEGIN", "END"} \X Keys)
  /\ time = Len(log)
  /\ Places

\* Who sends the messages, and what is required of them, is chosen once.
Chosen ==
  /\ requirement \in Requirements
  /\ identities \in Identities(requirement.odd)

CheckedInv == LogTypeOK /\ WellNumbered /\ LogInv /\ Chosen
-----------------------------------------------------------------------------
\* Appending keeps what is there.
LEMMA AppendedEntry ==
  ASSUME NEW S, NEW s \in Seq(S), NEW e \in S
  PROVE  /\ Append(s, e) \in Seq(S)
         /\ Len(Append(s, e)) = Len(s) + 1
         /\ \A i \in 1..Len(s) : Append(s, e)[i] = s[i]
         /\ Append(s, e)[Len(s) + 1] = e
OBVIOUS

LEMMA BeginKeepsPlaces ==
  ASSUME CheckedInv, NEW k \in Keys, RecordBegin(k),
         log' = Append(log, <<"BEGIN", k>>)
  PROVE  LogInv'
<1> DEFINE e == <<"BEGIN", k>>
<1>1. /\ log' \in Seq({"BEGIN", "END"} \X Keys)
      /\ Len(log') = Len(log) + 1
      /\ \A i \in 1..Len(log) : log'[i] = log[i]
      /\ log'[Len(log) + 1] = e
  <2>1. e \in {"BEGIN", "END"} \X Keys
    OBVIOUS
  <2> QED
    BY <2>1, AppendedEntry DEF CheckedInv, LogInv
<1>2. /\ time \in Nat /\ time = Len(log) /\ time' = Len(log')
      /\ k \notin infos
      /\ timeStart' = [timeStart EXCEPT ![k] = time + 1]
      /\ timeEnd' = [timeEnd EXCEPT ![k] = 0]
  BY <1>1 DEF RecordBegin, AcceptsBegin, NextTime, CheckedInv, LogInv, LogTypeOK
<1>3. \A j \in Keys : /\ timeStart[j] \in 0..time /\ timeEnd[j] \in 0..time
                      /\ j = k => timeStart[j] = 0 /\ timeEnd[j] = 0
  BY <1>2 DEF CheckedInv, LogTypeOK, WellNumbered
<1>4. ASSUME NEW i \in 1..Len(log'), NEW j \in Keys
      PROVE  /\ log'[i] = <<"BEGIN", j>> <=> timeStart'[j] = i
             /\ log'[i] = <<"END", j>> <=> timeEnd'[j] = i
  <2>1. CASE i = Len(log) + 1
    <3>1. timeStart'[j] = i <=> j = k
      BY <2>1, <1>2, <1>3 DEF CheckedInv, LogTypeOK
    <3>2. timeEnd'[j] # i
      BY <2>1, <1>2, <1>3 DEF CheckedInv, LogTypeOK
    <3> QED
      BY <2>1, <1>1, <3>1, <3>2
  <2>2. CASE i \in 1..Len(log)
    <3>1. /\ log[i] = <<"BEGIN", j>> <=> timeStart[j] = i
          /\ log[i] = <<"END", j>> <=> timeEnd[j] = i
      BY <2>2 DEF CheckedInv, LogInv, Places
    <3>2. timeStart'[j] = i <=> timeStart[j] = i
      BY <2>2, <1>2, <1>3 DEF CheckedInv, LogTypeOK
    <3>3. timeEnd'[j] = i <=> timeEnd[j] = i
      BY <2>2, <1>2, <1>3 DEF CheckedInv, LogTypeOK
    <3> QED
      BY <2>2, <1>1, <3>1, <3>2, <3>3
  <2> QED
    BY <2>1, <2>2, <1>1, <1>2
<1> QED
  BY <1>1, <1>2, <1>4 DEF LogInv, Places

LEMMA EndKeepsPlaces ==
  ASSUME CheckedInv, NEW k \in Keys, RecordEnd(k),
         log' = Append(log, <<"END", k>>)
  PROVE  LogInv'
<1> DEFINE e == <<"END", k>>
<1>1. /\ log' \in Seq({"BEGIN", "END"} \X Keys)
      /\ Len(log') = Len(log) + 1
      /\ \A i \in 1..Len(log) : log'[i] = log[i]
      /\ log'[Len(log) + 1] = e
  <2>1. e \in {"BEGIN", "END"} \X Keys
    OBVIOUS
  <2> QED
    BY <2>1, AppendedEntry DEF CheckedInv, LogInv
<1>2. /\ time \in Nat /\ time = Len(log) /\ time' = Len(log')
      /\ timeEnd[k] = 0
      /\ timeStart' = timeStart
      /\ timeEnd' = [timeEnd EXCEPT ![k] = time + 1]
  BY <1>1 DEF RecordEnd, AcceptsEnd, NextTime, CheckedInv, LogInv, LogTypeOK
<1>3. \A j \in Keys : timeStart[j] \in 0..time /\ timeEnd[j] \in 0..time
  BY <1>2 DEF CheckedInv, LogTypeOK, WellNumbered
<1>4. ASSUME NEW i \in 1..Len(log'), NEW j \in Keys
      PROVE  /\ log'[i] = <<"BEGIN", j>> <=> timeStart'[j] = i
             /\ log'[i] = <<"END", j>> <=> timeEnd'[j] = i
  <2>1. CASE i = Len(log) + 1
    <3>1. timeEnd'[j] = i <=> j = k
      BY <2>1, <1>2, <1>3 DEF CheckedInv, LogTypeOK
    <3>2. timeStart'[j] # i
      BY <2>1, <1>2, <1>3 DEF CheckedInv, LogTypeOK
    <3> QED
      BY <2>1, <1>1, <3>1, <3>2
  <2>2. CASE i \in 1..Len(log)
    <3>1. /\ log[i] = <<"BEGIN", j>> <=> timeStart[j] = i
          /\ log[i] = <<"END", j>> <=> timeEnd[j] = i
      BY <2>2 DEF CheckedInv, LogInv, Places
    <3>2. timeEnd'[j] = i <=> timeEnd[j] = i
      BY <2>2, <1>2, <1>3 DEF CheckedInv, LogTypeOK
    <3> QED
      BY <2>2, <1>1, <1>2, <3>1, <3>2
  <2> QED
    BY <2>1, <2>2, <1>1, <1>2
<1> QED
  BY <1>1, <1>2, <1>4 DEF LogInv, Places

\* The inductive invariant: the log of the history variable and the numbers of the
\* server say the same.
THEOREM CheckedInvariance == CheckedSpec => []CheckedInv
<1>1. CheckedInit => CheckedInv
  <2> SUFFICES ASSUME CheckedInit PROVE CheckedInv
    OBVIOUS
  <2>1. LogTypeOK /\ WellNumbered
    BY MessageLogAssumption DEF CheckedInit, EmptyLog, LogTypeOK, WellNumbered
  <2>2. LogInv
    BY DEF CheckedInit, EmptyLog, LogInv, Places
  <2> QED
    BY <2>1, <2>2 DEF CheckedInit, CheckedInv, Chosen
<1>2. CheckedInv /\ [CheckedNext]_checkedVars => CheckedInv'
  <2> SUFFICES ASSUME CheckedInv, [CheckedNext]_checkedVars PROVE CheckedInv'
    OBVIOUS
  <2>1. CASE CheckedNext
    <3>1. Chosen'
      BY <2>1 DEF CheckedNext, CheckedInv, Chosen, Identities
    <3>2. requirement.clients \subseteq Keys
      BY CheckedLogAssumption DEF CheckedInv, Chosen
    <3>3. PICK k \in Keys :
            \/ RecordBegin(k) /\ log' = Append(log, <<"BEGIN", k>>)
            \/ RecordEnd(k) /\ log' = Append(log, <<"END", k>>)
      BY <2>1, <3>2 DEF CheckedNext
    <3>4. LogInv'
      BY <3>3, BeginKeepsPlaces, EndKeepsPlaces
    <3>5. \/ AddBegin(k) /\ k \notin infos
          \/ AddEnd(k) /\ k \in infos /\ timeEnd[k] = 0
      BY <3>3 DEF AddBegin, AddEnd, RecordBegin, RecordEnd, AcceptsBegin, AcceptsEnd
    <3>6. LogTypeOK' /\ WellNumbered'
      BY <3>5, Recorded DEF CheckedInv
    <3> QED
      BY <3>1, <3>4, <3>6 DEF CheckedInv
  <2>2. CASE UNCHANGED checkedVars
    <3>1. UNCHANGED <<logVars, requirement, log, identities>>
      BY <2>2 DEF checkedVars
    <3>2. LogTypeOK' /\ WellNumbered'
      BY <3>1, Untouched DEF CheckedInv
    <3>3. LogInv' /\ Chosen'
      BY <3>1 DEF CheckedInv, LogInv, Places, Chosen, Identities, logVars
    <3> QED
      BY <3>2, <3>3 DEF CheckedInv
  <2> QED
    BY <2>1, <2>2
<1> QED
  BY <1>1, <1>2, PTL DEF CheckedSpec
-----------------------------------------------------------------------------
\* The number the server gave to message m, 0 if it did not arrive.
Number(m) == IF m[1] = "BEGIN" THEN timeStart[m[2]] ELSE timeEnd[m[2]]

Messages == {"BEGIN", "END"} \X Keys

LEMMA NumberIsPlace ==
  ASSUME CheckedInv, NEW m \in Messages
  PROVE  /\ Number(m) \in 0..Len(log)
         /\ \A i \in DOMAIN log : log[i] = m <=> Number(m) = i
<1>1. PICK a \in {"BEGIN", "END"}, k \in Keys : m = <<a, k>>
  BY DEF Messages
<1>2. Number(m) = IF a = "BEGIN" THEN timeStart[k] ELSE timeEnd[k]
  BY <1>1 DEF Number
<1>3. /\ DOMAIN log = 1..Len(log) /\ time = Len(log)
      /\ timeStart[k] \in 0..time /\ timeEnd[k] \in 0..time
  BY DEF CheckedInv, LogInv, LogTypeOK, WellNumbered
<1>4. \A i \in 1..Len(log) : /\ log[i] = <<"BEGIN", k>> <=> timeStart[k] = i
                             /\ log[i] = <<"END", k>> <=> timeEnd[k] = i
  BY DEF CheckedInv, LogInv, Places
<1>5. CASE a = "BEGIN"
  <2>1. m = <<"BEGIN", k>> /\ Number(m) = timeStart[k]
    BY <1>1, <1>2, <1>5
  <2>2. \A i \in 1..Len(log) : log[i] = <<"BEGIN", k>> <=> timeStart[k] = i
    BY <1>4
  <2>3. \A i \in 1..Len(log) : log[i] = m <=> Number(m) = i
    BY ONLY <2>1, <2>2
  <2> QED
    BY <1>3, <2>1, <2>3
<1>6. CASE a = "END"
  <2>1. m = <<"END", k>> /\ Number(m) = timeEnd[k]
    BY <1>1, <1>2, <1>6
  <2>2. \A i \in 1..Len(log) : log[i] = <<"END", k>> <=> timeEnd[k] = i
    BY <1>4
  <2>3. \A i \in 1..Len(log) : log[i] = m <=> Number(m) = i
    BY ONLY <2>1, <2>2
  <2> QED
    BY <1>3, <2>1, <2>3
<1> QED
  BY <1>5, <1>6

\* Everything in the log was said by somebody of Keys, and was recorded.
LEMMA SaidIsRecorded ==
  ASSUME CheckedInv, NEW k
  PROVE  /\ Said("BEGIN", k) <=> k \in infos
         /\ Said("END", k) <=> k \in infos /\ timeEnd[k] # 0
         /\ k \in infos => k \in Keys
<1>1. /\ DOMAIN log = 1..Len(log)
      /\ \A i \in DOMAIN log : log[i] \in {"BEGIN", "END"} \X Keys
  BY DEF CheckedInv, LogInv
<1>2. \A i \in DOMAIN log :
        log[i] = <<"BEGIN", k>> \/ log[i] = <<"END", k>> => k \in Keys
  BY <1>1
<1>3. CASE k \notin Keys
  BY <1>2, <1>3 DEF Said, CheckedInv, LogTypeOK
<1>4. CASE k \in Keys
  <2>1. /\ timeStart[k] \in 0..Len(log) /\ timeEnd[k] \in 0..Len(log)
        /\ timeStart[k] # 0 <=> k \in infos
        /\ k \notin infos => timeEnd[k] = 0
    BY <1>4 DEF CheckedInv, LogInv, LogTypeOK, WellNumbered
  <2>2. \A i \in DOMAIN log : /\ log[i] = <<"BEGIN", k>> <=> timeStart[k] = i
                              /\ log[i] = <<"END", k>> <=> timeEnd[k] = i
    BY <1>1, <1>4 DEF CheckedInv, LogInv, Places
  <2>3. Said("BEGIN", k) <=> timeStart[k] \in 1..Len(log)
    BY <1>1, <2>2 DEF Said
  <2>4. Said("END", k) <=> timeEnd[k] \in 1..Len(log)
    BY <1>1, <2>2 DEF Said
  <2> QED
    BY <1>4, <2>1, <2>3, <2>4
<1> QED
  BY <1>3, <1>4

\* The order of arrival is that of the numbers.
LEMMA PrecedesIsLess ==
  ASSUME CheckedInv, NEW m \in Messages, NEW n \in Messages
  PROVE  Precedes(m, n) <=> /\ Number(m) # 0
                            /\ Number(n) = 0 \/ Number(m) < Number(n)
<1>1. /\ Number(m) \in 0..Len(log)
      /\ \A i \in DOMAIN log : log[i] = m <=> Number(m) = i
      /\ Number(n) \in 0..Len(log)
      /\ \A i \in DOMAIN log : log[i] = n <=> Number(n) = i
  BY NumberIsPlace
<1>2. DOMAIN log = 1..Len(log) /\ Len(log) \in Nat
  BY DEF CheckedInv, LogInv
<1>3. ASSUME Precedes(m, n)
      PROVE  Number(m) # 0 /\ (Number(n) = 0 \/ Number(m) < Number(n))
  <2>1. PICK i \in DOMAIN log : log[i] = m /\ \A j \in 1..i : log[j] # n
    BY <1>3 DEF Precedes
  <2>2. Number(m) = i /\ i \in 1..Len(log)
    BY <1>1, <1>2, <2>1
  <2>3. Number(n) \notin 1..i
    BY <1>1, <1>2, <2>1, <2>2
  <2> QED
    BY <1>1, <1>2, <2>2, <2>3
<1>4. ASSUME Number(m) # 0, Number(n) = 0 \/ Number(m) < Number(n)
      PROVE  Precedes(m, n)
  <2>1. Number(m) \in DOMAIN log /\ log[Number(m)] = m
    BY <1>1, <1>2, <1>4
  <2>2. \A j \in 1..Number(m) : j \in DOMAIN log /\ Number(n) # j
    BY <1>1, <1>2, <1>4
  <2>3. \A j \in 1..Number(m) : log[j] # n
    BY <1>1, <2>2
  <2> QED
    BY <2>1, <2>3 DEF Precedes
<1> QED
  BY <1>3, <1>4

\* What never arrived precedes nothing.
LEMMA PrecedesIsSaid ==
  ASSUME CheckedInv, NEW a, NEW k, NEW n, Precedes(<<a, k>>, n)
  PROVE  Said(a, k)
BY DEF Precedes, Said

LEMMA MainOf ==
  ASSUME CheckedInv, NEW k \in Keys
  PROVE  k = <<k[1], k[2]>> /\ k[1] \in Nat \ {0} /\ k[2] \in Nat
BY CheckedLogAssumption

LEMMA RequirementOK ==
  ASSUME CheckedInv
  PROVE  /\ data.nrProcs \in Nat
         /\ \A p \in 2..data.nrProcs : data.procs[p] \in (1..data.nrProcs) \ {p}
         /\ data.threads1_count \in Nat
         /\ {data.threads1_outer, data.threads1_inner} \subseteq 1..data.threads1_count
         /\ data.threads2_count \in Nat /\ data.threads2_max \in Nat
         /\ data.threads2_waiter \in 1..data.threads2_count
         /\ data.threads3_count \in Nat
         /\ {data.threads3_before, data.threads3_after} \subseteq 1..data.threads3_count
         /\ \A k \in identities.orphans : k \in Keys /\ k[2] = 0 /\ k # <<1, 0>>
         /\ \A k \in identities.disguised : k \in Keys /\ k[2] # 0
<1>1. requirement \in Requirements
  BY DEF CheckedInv, Chosen
<1>2. /\ requirement.odd \subseteq Keys \ {<<1, 0>>}
      /\ identities.orphans \subseteq {k \in requirement.odd : k[2] = 0}
      /\ identities.disguised \subseteq {k \in requirement.odd : k[2] # 0}
  BY <1>1, CheckedLogAssumption DEF CheckedInv, Chosen, Identities
<1> QED
  BY <1>1, <1>2, CheckedLogAssumption DEF data
-----------------------------------------------------------------------------
\* What the hierarchy check compares, in terms of the messages.
LEMMA InfosAre ==
  ASSUME CheckedInv
  PROVE  /\ DOMAIN Infos = infos
         /\ \A k \in infos : /\ Infos[k].pid = k[1]
                             /\ Infos[k].timeStart = timeStart[k]
                             /\ Infos[k].timeEnd = timeEnd[k]
                             /\ Infos[k].ppid = IF k \in identities.orphans
                                               THEN 0 ELSE data.procs[k[1]]
                             /\ Infos[k].tid = IF k \in identities.disguised
                                              THEN <<k[1], 0>> ELSE k
BY DEF Infos, Info, Orphan

LEMMA MainsEnded ==
  ASSUME CheckedInv
  PROVE  AllMainsEnded(Infos) <=>
           /\ \A p \in 1..data.nrProcs : Said("END", <<p, 0>>)
           /\ \A k \in Keys : k[2] = 0 /\ k[1] > data.nrProcs => ~ Said("BEGIN", k)
<1> DEFINE mains == {k \in infos : k[2] = 0}
<1>1. AllMainsEnded(Infos) <=> /\ {k[1] : k \in mains} = 1..data.nrProcs
                               /\ \A k \in mains : timeEnd[k] # 0
  <2>1. AllMainsEnded(Infos) <=>
          /\ {k[1] : k \in {j \in DOMAIN Infos : j[2] = 0}} = 1..data.nrProcs
          /\ \A k \in {j \in DOMAIN Infos : j[2] = 0} : Infos[k].timeEnd # 0
    BY DEF AllMainsEnded
  <2>2. DOMAIN Infos = infos /\ \A k \in mains : Infos[k].timeEnd = timeEnd[k]
    BY InfosAre
  <2> QED
    BY <2>1, <2>2
<1>2. data.nrProcs \in Nat /\ infos \subseteq Keys
  BY RequirementOK DEF CheckedInv, LogTypeOK
<1>3. \A k \in mains : k = <<k[1], 0>> /\ k[1] \in Nat \ {0}
  BY <1>2, MainOf
<1>4. \A p : <<p, 0>> \in infos => <<p, 0>> \in mains /\ <<p, 0>>[1] = p
  OBVIOUS
<1>5. ASSUME {k[1] : k \in mains} = 1..data.nrProcs, \A k \in mains : timeEnd[k] # 0
      PROVE  /\ \A p \in 1..data.nrProcs : Said("END", <<p, 0>>)
             /\ \A k \in Keys : k[2] = 0 /\ k[1] > data.nrProcs => ~ Said("BEGIN", k)
  <2>1. ASSUME NEW p \in 1..data.nrProcs PROVE Said("END", <<p, 0>>)
    <3>1. PICK k \in mains : k[1] = p
      BY <1>5
    <3>2. k = <<p, 0>> /\ k \in infos /\ timeEnd[k] # 0
      BY <3>1, <1>3, <1>5
    <3> QED
      BY <3>2, SaidIsRecorded
  <2>2. ASSUME NEW k \in Keys, k[2] = 0, k[1] > data.nrProcs, Said("BEGIN", k)
        PROVE  FALSE
    <3>1. k \in mains
      BY <2>2, SaidIsRecorded
    <3>2. k[1] \in 1..data.nrProcs
      BY <3>1, <1>5
    <3> QED
      BY <3>2, <2>2, <1>2
  <2> QED
    BY <2>1, <2>2
<1>6. ASSUME \A p \in 1..data.nrProcs : Said("END", <<p, 0>>),
             \A k \in Keys : k[2] = 0 /\ k[1] > data.nrProcs => ~ Said("BEGIN", k)
      PROVE  {k[1] : k \in mains} = 1..data.nrProcs /\ \A k \in mains : timeEnd[k] # 0
  <2>1. \A p \in 1..data.nrProcs : <<p, 0>> \in mains /\ timeEnd[<<p, 0>>] # 0
    BY <1>4, <1>6, SaidIsRecorded
  <2>2. ASSUME NEW k \in mains PROVE k[1] \in 1..data.nrProcs /\ timeEnd[k] # 0
    <3>1. ~ k[1] > data.nrProcs
      BY <1>2, <1>6, SaidIsRecorded
    <3>2. k[1] \in 1..data.nrProcs
      BY <3>1, <1>2, <1>3
    <3> QED
      BY <3>2, <1>3, <2>1
  <2>3. 1..data.nrProcs \subseteq {k[1] : k \in mains}
    <3> SUFFICES ASSUME NEW p \in 1..data.nrProcs PROVE \E k \in mains : k[1] = p
      OBVIOUS
    <3> QED
      BY <2>1, <1>4
  <2> QED
    BY <2>2, <2>3
<1> QED
  BY <1>1, <1>5, <1>6

\* checkProcessHierarchy() gives full points exactly if every process ended, is the
\* child of its parent, and lived within its parent's messages.
THEOREM HierarchyFaithfulHolds == CheckedSpec => []HierarchyFaithful
<1>1. CheckedInv => HierarchyFaithful
  <2> SUFFICES ASSUME CheckedInv PROVE HierarchyFaithful
    OBVIOUS
  <2> DEFINE Ended == \A p \in 1..data.nrProcs : Said("END", <<p, 0>>)
             NoMore == \A k \in Keys : k[2] = 0 /\ k[1] > data.nrProcs => ~ Said("BEGIN", k)
             NoOrphan == identities.orphans \cap infos = {}
             Lives(p) == LET parent == data.procs[p]
                         IN  /\ Precedes(<<"BEGIN", <<parent, 0>>>>, <<"BEGIN", <<p, 0>>>>)
                             /\ Precedes(<<"END", <<p, 0>>>>, <<"END", <<parent, 0>>>>)
             Fits(p) == LET parent == Infos[<<data.procs[p], 0>>]
                        IN  /\ Infos[<<p, 0>>].ppid = parent.pid
                            /\ Encloses(parent, Infos[<<p, 0>>])
  <2>1. HierarchyScore(Infos) = Full
          <=> AllMainsEnded(Infos) /\ \A p \in 2..data.nrProcs : Fits(p)
    BY DEF HierarchyScore, Full
  <2>2. AllMainsEnded(Infos) <=> Ended /\ NoMore
    BY MainsEnded
  <2>3. /\ data.nrProcs \in Nat
        /\ \A p \in 2..data.nrProcs : data.procs[p] \in (1..data.nrProcs) \ {p}
        /\ \A k \in identities.orphans : k \in Keys /\ k[2] = 0 /\ k # <<1, 0>>
    BY RequirementOK
  <2>4. ASSUME Ended, NoMore
        PROVE  \A p \in 2..data.nrProcs :
                 Fits(p) <=> <<p, 0>> \notin identities.orphans /\ Lives(p)
    <3> SUFFICES ASSUME NEW p \in 2..data.nrProcs
                 PROVE  Fits(p) <=> <<p, 0>> \notin identities.orphans /\ Lives(p)
      OBVIOUS
    <3> DEFINE q == data.procs[p]
               me == <<p, 0>>
               up == <<q, 0>>
    <3> HIDE DEF Ended, NoMore
    <3>1. q \in 1..data.nrProcs /\ q # p /\ p \in 1..data.nrProcs
      BY <2>3
    <3>2. /\ me \in infos /\ me \in Keys /\ timeEnd[me] # 0
          /\ up \in infos /\ up \in Keys /\ timeEnd[up] # 0
          /\ me # up
      BY <2>4, <3>1, SaidIsRecorded DEF Ended
    <3>3. up \notin identities.orphans => Infos[up].pid = q
      BY <3>2, InfosAre
    <3>4. Infos[me].ppid = Infos[up].pid <=> me \notin identities.orphans
      <4>1. Infos[me].ppid = IF me \in identities.orphans THEN 0 ELSE q
        BY <3>2, InfosAre
      <4>2. Infos[up].pid = q
        BY <3>2, InfosAre
      <4> QED
        BY <4>1, <4>2, <3>1, <2>3
    <3>5. Encloses(Infos[up], Infos[me])
            <=> timeStart[me] >= timeStart[up] /\ timeEnd[me] <= timeEnd[up]
      BY <3>2, InfosAre DEF Encloses
    <3>6. /\ timeStart[me] \in Nat /\ timeStart[up] \in Nat
          /\ timeEnd[me] \in Nat /\ timeEnd[up] \in Nat
          /\ timeStart[me] # timeStart[up] /\ timeEnd[me] # timeEnd[up]
          /\ timeStart[me] # 0 /\ timeStart[up] # 0
      BY <3>2 DEF CheckedInv, LogTypeOK, WellNumbered
    <3>7. Precedes(<<"BEGIN", up>>, <<"BEGIN", me>>) <=> timeStart[up] < timeStart[me]
      <4>1. /\ <<"BEGIN", up>> \in Messages /\ <<"BEGIN", me>> \in Messages
            /\ Number(<<"BEGIN", up>>) = timeStart[up]
            /\ Number(<<"BEGIN", me>>) = timeStart[me]
        BY <3>2 DEF Messages, Number
      <4> QED
        BY <4>1, <3>6, PrecedesIsLess
    <3>8. Precedes(<<"END", me>>, <<"END", up>>) <=> timeEnd[me] < timeEnd[up]
      <4>1. /\ <<"END", up>> \in Messages /\ <<"END", me>> \in Messages
            /\ Number(<<"END", up>>) = timeEnd[up]
            /\ Number(<<"END", me>>) = timeEnd[me]
        BY <3>2 DEF Messages, Number
      <4> QED
        BY <4>1, <3>2, <3>6, PrecedesIsLess
    <3> QED
      BY <3>4, <3>5, <3>6, <3>7, <3>8
  <2>5. ASSUME Ended, NoMore
        PROVE  NoOrphan <=> \A p \in 2..data.nrProcs : <<p, 0>> \notin identities.orphans
    <3>1. ASSUME NEW k \in identities.orphans, k \in infos
          PROVE  k[1] \in 2..data.nrProcs /\ k = <<k[1], 0>>
      <4>1. k \in Keys /\ k[2] = 0 /\ k # <<1, 0>>
        BY <2>3
      <4>2. k = <<k[1], 0>> /\ k[1] \in Nat \ {0}
        BY <4>1, MainOf
      <4>3. ~ k[1] > data.nrProcs
        BY <2>5, <3>1, <4>1, SaidIsRecorded
      <4> QED
        BY <4>1, <4>2, <4>3, <2>3
    <3>2. \A p \in 2..data.nrProcs : p \in 1..data.nrProcs
      BY <2>3
    <3>3. \A p \in 2..data.nrProcs : <<p, 0>> \in infos
      BY <2>5, <3>2, SaidIsRecorded
    <3> QED
      BY <3>1, <3>3
  <2> HIDE DEF Ended, NoMore, NoOrphan, Lives, Fits
  <2>6. HierarchyScore(Infos) = Full
          <=> Ended /\ NoMore /\ NoOrphan /\ \A p \in 2..data.nrProcs : Lives(p)
    BY <2>1, <2>2, <2>4, <2>5
  <2> QED
    BY <2>6 DEF HierarchyFaithful, Ended, NoMore, NoOrphan, Lives
<1> QED
  BY <1>1, CheckedInvariance, PTL
-----------------------------------------------------------------------------
LEMMA ThreadsAre ==
  ASSUME CheckedInv, NEW proc
  PROVE  \A k : k \in ThreadsOf(Infos, proc)
           <=> k \in infos /\ k \in Keys /\ k[1] = proc /\ k[2] # 0
BY InfosAre DEF ThreadsOf, CheckedInv, LogTypeOK

\* The part the three thread checks have in common asks for just that: the process
\* has its threads, all have ended, and none is the main thread.
LEMMA SoundIsComplete ==
  ASSUME CheckedInv, NEW proc, NEW count \in Nat
  PROVE  /\ ThreadsSound(Infos, proc, count) /\ ~ ThreadsMissing(Infos, proc, count)
           <=> Complete(proc, count)
         /\ Complete(proc, count) =>
              /\ IsFiniteSet(ThreadsOf(Infos, proc))
              /\ \A t \in 1..count : <<proc, t>> \in infos /\ timeEnd[<<proc, t>>] # 0
              /\ \A k \in ThreadsOf(Infos, proc) :
                   k \in infos /\ k \in Keys /\ k[2] # 0 /\ timeEnd[k] # 0
<1> DEFINE S == ThreadsOf(Infos, proc)
           T == {<<proc, t>> : t \in 1..count}
           main == <<proc, 0>>
<1>1. \A k : k \in S <=> k \in infos /\ k \in Keys /\ k[1] = proc /\ k[2] # 0
  BY ThreadsAre
<1>2. \A k \in S : k = <<proc, k[2]>> /\ k[2] \in Nat \ {0}
  BY <1>1, MainOf
<1>3. IsFiniteSet(T) /\ Cardinality(T) = count
  BY ThreadsCounted
<1>4. main \in infos => Infos[main].tid = main
  BY InfosAre, RequirementOK
<1>5. \A k \in S : main \in infos =>
        (Infos[k].tid # Infos[main].tid <=> k \notin identities.disguised)
  <2> SUFFICES ASSUME NEW k \in S, main \in infos
               PROVE  Infos[k].tid # main <=> k \notin identities.disguised
    BY <1>4
  <2>1. Infos[k].tid = IF k \in identities.disguised THEN <<k[1], 0>> ELSE k
    BY <1>1, InfosAre
  <2>2. k[1] = proc /\ k # main
    BY <1>1
  <2> QED
    BY <2>1, <2>2
<1>6. ThreadsSound(Infos, proc, count)
        <=> /\ main \in infos
            /\ \A k \in S : /\ k[2] \in 1..count
                            /\ timeEnd[k] # 0
                            /\ k \notin identities.disguised
  <2>1. /\ DOMAIN Infos = infos
        /\ \A k \in S : Infos[k].timeEnd = timeEnd[k]
    BY <1>1, InfosAre
  <2>2. ThreadsSound(Infos, proc, count)
          <=> /\ main \in DOMAIN Infos
              /\ \A k \in S : /\ k[2] \in 1..count
                              /\ Infos[k].timeEnd # 0
                              /\ Infos[k].tid # Infos[main].tid
    BY DEF ThreadsSound
  <2> HIDE DEF S
  <2> QED
    BY <1>5, <2>1, <2>2
<1>7. ThreadsMissing(Infos, proc, count) <=> Cardinality(S) < count
  BY DEF ThreadsMissing
<1> HIDE DEF S
<1>8. ASSUME main \in infos,
             \A k \in S : /\ k[2] \in 1..count
                          /\ timeEnd[k] # 0
                          /\ k \notin identities.disguised,
             ~ Cardinality(S) < count
      PROVE  Complete(proc, count)
  <2>1. S \subseteq T
    BY <1>2, <1>8
  <2>2. S = T
    <3>1. IsFiniteSet(S) /\ Cardinality(S) <= count
      BY <2>1, <1>3, FS_Subset
    <3>2. Cardinality(S) \in Nat
      BY <3>1, FS_CardinalityType
    <3>3. Cardinality(S) = count
      BY <3>1, <3>2, <1>8
    <3> QED
      BY <2>1, <1>3, <3>3, FS_Subset
  <2>3. \A t \in 1..count : Said("END", <<proc, t>>)
    <3>1. \A t \in 1..count : <<proc, t>> \in S
      BY <2>2
    <3> QED
      BY <3>1, <1>1, <1>8, SaidIsRecorded
  <2>4. Said("BEGIN", main)
    BY <1>8, SaidIsRecorded
  <2>5. ASSUME NEW k \in Keys, k[1] = proc, k[2] > count, Said("BEGIN", k)
        PROVE  FALSE
    <3>1. k \in infos /\ k[2] \in Nat
      BY <2>5, SaidIsRecorded, MainOf
    <3>2. k \in S
      BY <2>5, <3>1, <1>1
    <3> QED
      BY <3>1, <3>2, <2>5, <1>8
  <2>6. ASSUME NEW k \in identities.disguised, k[1] = proc, Said("BEGIN", k)
        PROVE  FALSE
    <3>1. k \in Keys /\ k[2] # 0
      BY RequirementOK
    <3>2. k \in S
      BY <2>6, <3>1, <1>1, SaidIsRecorded
    <3> QED
      BY <3>2, <2>6, <1>8
  <2> QED
    BY <2>3, <2>4, <2>5, <2>6 DEF Complete
<1>9. ASSUME Complete(proc, count)
      PROVE  /\ main \in infos
             /\ S = T
             /\ \A k \in S : /\ k[2] \in 1..count
                             /\ timeEnd[k] # 0
                             /\ k \notin identities.disguised
             /\ \A t \in 1..count : <<proc, t>> \in infos /\ timeEnd[<<proc, t>>] # 0
  <2>1. main \in infos
    BY <1>9, SaidIsRecorded DEF Complete
  <2>2. \A t \in 1..count : /\ <<proc, t>> \in infos /\ timeEnd[<<proc, t>>] # 0
                            /\ <<proc, t>> \in Keys
    BY <1>9, SaidIsRecorded DEF Complete
  <2>3. ASSUME NEW k \in S
        PROVE  k[2] \in 1..count /\ k \notin identities.disguised
    <3>1. k \in infos /\ k \in Keys /\ k[1] = proc /\ Said("BEGIN", k)
      BY <1>1, SaidIsRecorded
    <3>2. ~ k[2] > count /\ k \notin identities.disguised
      BY <3>1, <1>9 DEF Complete
    <3> QED
      BY <3>2, <1>2
  <2>4. S \subseteq T
    BY <2>3, <1>2
  <2>5. T \subseteq S
    BY <2>2, <1>1
  <2>6. \A k \in S : timeEnd[k] # 0
    BY <2>4, <2>2
  <2> QED
    BY <2>1, <2>2, <2>3, <2>4, <2>5, <2>6
<1>10. Complete(proc, count) => ~ Cardinality(S) < count
  BY <1>3, <1>9
<1>11. Complete(proc, count) => IsFiniteSet(S)
  BY <1>3, <1>9
<1>12. ThreadsSound(Infos, proc, count) /\ ~ ThreadsMissing(Infos, proc, count)
         <=> Complete(proc, count)
  BY <1>6, <1>7, <1>8, <1>9, <1>10
<1> QED
  BY <1>1, <1>9, <1>11, <1>12 DEF S

\* Messages of threads that have begun, or ended.
LEMMA OrderOfNumbers ==
  ASSUME CheckedInv, NEW j \in infos, NEW k \in infos
  PROVE  /\ timeStart[j] \in Nat /\ timeStart[k] \in Nat
         /\ timeEnd[j] \in Nat /\ timeEnd[k] \in Nat
         /\ Precedes(<<"BEGIN", j>>, <<"BEGIN", k>>) <=> timeStart[j] < timeStart[k]
         /\ Precedes(<<"END", j>>, <<"BEGIN", k>>)
              <=> timeEnd[j] # 0 /\ timeEnd[j] < timeStart[k]
         /\ timeEnd[j] # 0 /\ timeEnd[k] # 0 =>
              (Precedes(<<"END", j>>, <<"END", k>>) <=> timeEnd[j] < timeEnd[k])
<1>1. /\ timeStart[j] \in 1..Len(log) /\ timeStart[k] \in 1..Len(log)
      /\ timeEnd[j] \in 0..Len(log) /\ timeEnd[k] \in 0..Len(log)
      /\ Len(log) \in Nat /\ j \in Keys /\ k \in Keys
  BY DEF CheckedInv, LogInv, LogTypeOK, WellNumbered
<1>2. /\ <<"BEGIN", j>> \in Messages /\ Number(<<"BEGIN", j>>) = timeStart[j]
      /\ <<"BEGIN", k>> \in Messages /\ Number(<<"BEGIN", k>>) = timeStart[k]
      /\ <<"END", j>> \in Messages /\ Number(<<"END", j>>) = timeEnd[j]
      /\ <<"END", k>> \in Messages /\ Number(<<"END", k>>) = timeEnd[k]
  BY <1>1 DEF Messages, Number
<1>3. Precedes(<<"BEGIN", j>>, <<"BEGIN", k>>) <=> timeStart[j] < timeStart[k]
  BY <1>1, <1>2, PrecedesIsLess
<1>4. Precedes(<<"END", j>>, <<"BEGIN", k>>)
        <=> timeEnd[j] # 0 /\ timeEnd[j] < timeStart[k]
  BY <1>1, <1>2, PrecedesIsLess
<1>5. timeEnd[j] # 0 /\ timeEnd[k] # 0 =>
        (Precedes(<<"END", j>>, <<"END", k>>) <=> timeEnd[j] < timeEnd[k])
  BY <1>1, <1>2, PrecedesIsLess
<1> QED
  BY <1>1, <1>3, <1>4, <1>5

\* checkThreads1() gives full points exactly if the process is complete and the
\* messages of the inner thread are nested in those of the outer one.
THEOREM Threads1FaithfulHolds == CheckedSpec => []Threads1Faithful
<1>1. CheckedInv => Threads1Faithful
  <2> SUFFICES ASSUME CheckedInv PROVE Threads1Faithful
    OBVIOUS
  <2> DEFINE proc == data.threads1_proc
             count == data.threads1_count
             outer == <<proc, data.threads1_outer>>
             inner == <<proc, data.threads1_inner>>
             Nested == /\ Precedes(<<"BEGIN", outer>>, <<"BEGIN", inner>>)
                       /\ Precedes(<<"END", inner>>, <<"END", outer>>)
  <2>1. /\ count \in Nat
        /\ data.threads1_outer \in 1..count /\ data.threads1_inner \in 1..count
    BY RequirementOK
  <2>2. ThreadsSound(Infos, proc, count) /\ ~ ThreadsMissing(Infos, proc, count)
          <=> Complete(proc, count)
    BY <2>1, SoundIsComplete
  <2>3. ASSUME ~ Complete(proc, count) PROVE Threads1Score(Infos) # Full
    <3>1. ~ ThreadsSound(Infos, proc, count) \/ ThreadsMissing(Infos, proc, count)
      BY <2>2, <2>3
    <3> QED
      BY <3>1 DEF Threads1Score, Point, Full
  <2>4. ASSUME Complete(proc, count) PROVE Threads1Score(Infos) = Full <=> Nested
    <3>1. /\ outer \in infos /\ timeEnd[outer] # 0
          /\ inner \in infos /\ timeEnd[inner] # 0
      BY <2>1, <2>4, SoundIsComplete
    <3>2. /\ timeStart[outer] \in Nat /\ timeStart[inner] \in Nat
          /\ timeEnd[outer] \in Nat /\ timeEnd[inner] \in Nat
      BY <3>1, OrderOfNumbers
    <3>3. Nested <=> timeStart[outer] < timeStart[inner] /\ timeEnd[inner] < timeEnd[outer]
      BY <3>1, OrderOfNumbers
    <3>4. Nesting(Infos[outer], Infos[inner])
            = Point(timeStart[outer] < timeStart[inner]) + Point(timeEnd[outer] > timeEnd[inner])
      BY <3>1, InfosAre DEF Nesting
    <3>5. Threads1Score(Infos) = LET score == 2 + Nesting(Infos[outer], Infos[inner])
                                 IN  IF score = 4 THEN 5 ELSE score
      BY <2>2, <2>4 DEF Threads1Score, Full
    <3> HIDE DEF Nested, outer, inner
    <3> QED
      BY <3>2, <3>3, <3>4, <3>5 DEF Point, Full
  <2> QED
    BY <2>3, <2>4 DEF Threads1Faithful
<1> QED
  BY <1>1, CheckedInvariance, PTL

\* checkThreads3() gives full points, once everybody has ended, exactly if the process
\* is complete and the thread of the other process kept between its two neighbours.
THEOREM Threads3FaithfulHolds == CheckedSpec => []Threads3Faithful
<1>1. CheckedInv => Threads3Faithful
  <2> SUFFICES ASSUME CheckedInv, \A k \in infos : timeEnd[k] # 0
               PROVE  LET middle == <<data.threads1_proc, data.threads1_3>>
                          T(t) == <<data.threads3_proc, t>>
                      IN  Threads3Score(Infos) = Full <=>
                            /\ Complete(data.threads3_proc, data.threads3_count)
                            /\ Precedes(<<"END", T(data.threads3_before)>>, <<"BEGIN", middle>>)
                            /\ Precedes(<<"END", middle>>, <<"BEGIN", T(data.threads3_after)>>)
    BY DEF Threads3Faithful
  <2> DEFINE proc == data.threads3_proc
             count == data.threads3_count
             middle == <<data.threads1_proc, data.threads1_3>>
             before == <<proc, data.threads3_before>>
             after == <<proc, data.threads3_after>>
             Between == /\ Precedes(<<"END", before>>, <<"BEGIN", middle>>)
                        /\ Precedes(<<"END", middle>>, <<"BEGIN", after>>)
  <2>1. /\ count \in Nat
        /\ data.threads3_before \in 1..count /\ data.threads3_after \in 1..count
    BY RequirementOK
  <2>2. ThreadsSound(Infos, proc, count) /\ ~ ThreadsMissing(Infos, proc, count)
          <=> Complete(proc, count)
    BY <2>1, SoundIsComplete
  <2>3. ASSUME ~ Complete(proc, count) PROVE Threads3Score(Infos) # Full
    <3>1. ~ ThreadsSound(Infos, proc, count) \/ ThreadsMissing(Infos, proc, count)
      BY <2>2, <2>3
    <3> QED
      BY <3>1 DEF Threads3Score, Full
  <2>4. ASSUME Complete(proc, count), middle \notin infos
        PROVE  Threads3Score(Infos) # Full /\ ~ Between
    <3>1. middle \notin DOMAIN Infos
      BY <2>4, InfosAre
    <3>2. Threads3Score(Infos) = 1
      BY <3>1, <2>2, <2>4 DEF Threads3Score
    <3>3. ~ Said("END", middle)
      BY <2>4, SaidIsRecorded
    <3>4. ~ Precedes(<<"END", middle>>, <<"BEGIN", after>>)
      BY <3>3, PrecedesIsSaid
    <3> QED
      BY <3>2, <3>4 DEF Full
  <2>5. ASSUME Complete(proc, count), middle \in infos
        PROVE  Threads3Score(Infos) = Full <=> Between
    <3>1. /\ before \in infos /\ timeEnd[before] # 0
          /\ after \in infos /\ timeEnd[middle] # 0
      BY <2>1, <2>5, SoundIsComplete
    <3>2. /\ timeStart[middle] \in Nat /\ timeStart[after] \in Nat
          /\ timeEnd[middle] \in Nat /\ timeEnd[before] \in Nat
      BY <3>1, <2>5, OrderOfNumbers
    <3>3. Between <=> timeEnd[before] < timeStart[middle] /\ timeEnd[middle] < timeStart[after]
      BY <3>1, <2>5, OrderOfNumbers
    <3>4. InTurn(Infos[before], Infos[middle], Infos[after])
            = Point(timeStart[middle] > timeEnd[before]) + Point(timeEnd[middle] < timeStart[after])
      BY <3>1, <2>5, InfosAre DEF InTurn
    <3>5. middle \in DOMAIN Infos
      BY <2>5, InfosAre
    <3>6. Threads3Score(Infos)
            = LET score == 1 + InTurn(Infos[before], Infos[middle], Infos[after])
              IN  IF score = 3 THEN 5 ELSE score
      BY <2>2, <2>5, <3>5 DEF Threads3Score, Full
    <3> HIDE DEF Between, before, middle, after
    <3> QED
      BY <3>2, <3>3, <3>4, <3>6 DEF Point, Full
  <2> QED
    BY <2>3, <2>4, <2>5
<1> QED
  BY <1>1, CheckedInvariance, PTL
-----------------------------------------------------------------------------
\* Who is inside after i messages, in terms of the numbers.
LEMMA InsideByNumbers ==
  ASSUME CheckedInv, NEW proc, NEW i \in 0..Len(log)
  PROVE  \A k : k \in InsideAfter(proc, i)
           <=> /\ k \in ThreadsOf(Infos, proc)
               /\ timeStart[k] <= i
               /\ timeEnd[k] = 0 \/ timeEnd[k] > i
<1>1. DOMAIN log = 1..Len(log) /\ Len(log) \in Nat
  BY DEF CheckedInv, LogInv
<1>2. ASSUME NEW k \in Keys
      PROVE  /\ (\E j \in 1..i : log[j] = <<"BEGIN", k>>) <=> timeStart[k] \in 1..i
             /\ (\A j \in 1..i : log[j] # <<"END", k>>) <=> timeEnd[k] \notin 1..i
  <2>1. \A j \in 1..Len(log) : /\ log[j] = <<"BEGIN", k>> <=> timeStart[k] = j
                               /\ log[j] = <<"END", k>> <=> timeEnd[k] = j
    BY DEF CheckedInv, LogInv, Places
  <2> QED
    BY <2>1, <1>1
<1>3. \A k \in Keys : /\ timeStart[k] \in Nat /\ timeEnd[k] \in Nat
                      /\ k \in infos <=> timeStart[k] # 0
  BY DEF CheckedInv, LogTypeOK, WellNumbered
<1>4. ASSUME NEW k
      PROVE  k \in InsideAfter(proc, i)
               <=> /\ k \in ThreadsOf(Infos, proc)
                   /\ timeStart[k] <= i
                   /\ timeEnd[k] = 0 \/ timeEnd[k] > i
  <2>1. k \in InsideAfter(proc, i)
          <=> /\ k \in Keys /\ k[1] = proc /\ k[2] # 0
              /\ timeStart[k] \in 1..i /\ timeEnd[k] \notin 1..i
    BY <1>2 DEF InsideAfter
  <2>2. k \in ThreadsOf(Infos, proc)
          <=> k \in infos /\ k \in Keys /\ k[1] = proc /\ k[2] # 0
    BY ThreadsAre
  <2> QED
    BY <2>1, <2>2, <1>1, <1>3
<1> QED
  BY <1>4

LEMMA RunningByNumbers ==
  ASSUME CheckedInv, NEW proc, NEW i \in 0..Len(log)
  PROVE  \A k : k \in RunningAt(Infos, proc, i)
           <=> /\ k \in ThreadsOf(Infos, proc)
               /\ timeStart[k] <= i /\ i <= timeEnd[k]
<1>1. \A k \in ThreadsOf(Infos, proc) :
        /\ Infos[k].timeStart = timeStart[k] /\ Infos[k].timeEnd = timeEnd[k]
        /\ timeStart[k] \in Nat /\ timeEnd[k] \in Nat
  BY ThreadsAre, InfosAre DEF CheckedInv, LogTypeOK
<1>2. i \in Nat
  BY DEF CheckedInv, LogInv
<1> QED
  BY <1>1, <1>2 DEF RunningAt

\* checkThreads2() gives full points exactly if the process is complete, never more
\* than threads2_max of its threads are inside at a time, and as many when the END of
\* the waiter arrives.
THEOREM Threads2FaithfulHolds == CheckedSpec => []Threads2Faithful
<1>1. CheckedInv => Threads2Faithful
  <2> SUFFICES ASSUME CheckedInv PROVE Threads2Faithful
    OBVIOUS
  <2> DEFINE proc == data.threads2_proc
             count == data.threads2_count
             max == data.threads2_max
             waiter == <<proc, data.threads2_waiter>>
             Threads == ThreadsOf(Infos, proc)
             Inside(i) == Cardinality(InsideAfter(proc, i))
             Crowd(t) == Cardinality(RunningAt(Infos, proc, t))
             ticks == UNION {Infos[k].timeStart..Infos[k].timeEnd : k \in Threads}
             NeverMore == \A i \in DOMAIN log : Inside(i) <= max
             FullOnce == \E i \in DOMAIN log : /\ log[i] = <<"END", waiter>>
                                               /\ Inside(i - 1) = max
  <2>1. count \in Nat /\ max \in Nat /\ data.threads2_waiter \in 1..count
    BY RequirementOK
  <2>2. ThreadsSound(Infos, proc, count) /\ ~ ThreadsMissing(Infos, proc, count)
          <=> Complete(proc, count)
    BY <2>1, SoundIsComplete
  <2>3. ASSUME ~ Complete(proc, count) PROVE Threads2Score(Infos) # Full
    <3>1. ~ ThreadsSound(Infos, proc, count) \/ ThreadsMissing(Infos, proc, count)
      BY <2>2, <2>3
    <3> QED
      BY <3>1 DEF Threads2Score, Point, Full
  <2>4. ASSUME Complete(proc, count)
        PROVE  Threads2Score(Infos) = Full <=> NeverMore /\ FullOnce
    <3>1. /\ waiter \in infos /\ waiter \in Threads /\ timeEnd[waiter] # 0
          /\ IsFiniteSet(Threads)
          /\ \A k \in Threads : k \in infos /\ k \in Keys /\ timeEnd[k] # 0
      <4>1. /\ waiter \in infos /\ timeEnd[waiter] # 0
            /\ IsFiniteSet(Threads)
            /\ \A k \in Threads : k \in infos /\ k \in Keys /\ timeEnd[k] # 0
        BY <2>1, <2>4, SoundIsComplete
      <4>2. waiter \in Threads
        BY <4>1, <2>1, SaidIsRecorded, ThreadsAre
      <4> QED
        BY <4>1, <4>2
    <3>2. /\ DOMAIN log = 1..Len(log) /\ Len(log) \in Nat
          /\ \A k \in Threads : /\ timeStart[k] \in 1..Len(log)
                                /\ timeEnd[k] \in 1..Len(log)
                                /\ timeStart[k] < timeEnd[k]
      <4>1. /\ DOMAIN log = 1..Len(log) /\ Len(log) \in Nat /\ time = Len(log)
            /\ timeEnd \in [Keys -> Nat]
        BY DEF CheckedInv, LogInv, LogTypeOK
      <4>2. \A k \in infos : /\ timeStart[k] \in 1..time
                             /\ timeEnd[k] # 0 => timeEnd[k] \in timeStart[k]+1..time
        BY DEF CheckedInv, WellNumbered
      <4> HIDE DEF Threads
      <4> QED
        BY <3>1, <4>1, <4>2
    <3>3. \A j, k \in Threads : timeStart[j] # timeEnd[k]
      BY <3>1 DEF CheckedInv, WellNumbered
    <3> HIDE DEF Threads
    <3>4. ASSUME NEW i \in 0..Len(log)
          PROVE  \A k : k \in InsideAfter(proc, i)
                   <=> k \in Threads /\ timeStart[k] <= i /\ i < timeEnd[k]
      <4>1. \A k : k \in InsideAfter(proc, i)
              <=> /\ k \in Threads
                  /\ timeStart[k] <= i
                  /\ timeEnd[k] = 0 \/ timeEnd[k] > i
        BY InsideByNumbers DEF Threads
      <4> QED
        BY <4>1, <3>1, <3>2
    <3>5. ASSUME NEW i \in 0..Len(log)
          PROVE  \A k : k \in RunningAt(Infos, proc, i)
                   <=> k \in Threads /\ timeStart[k] <= i /\ i <= timeEnd[k]
      BY RunningByNumbers DEF Threads
    <3>6. ASSUME NEW i \in 0..Len(log)
          PROVE  /\ IsFiniteSet(InsideAfter(proc, i)) /\ Inside(i) \in Nat
                 /\ IsFiniteSet(RunningAt(Infos, proc, i)) /\ Crowd(i) \in Nat
                 /\ Inside(i) <= Crowd(i)
      <4>1. /\ RunningAt(Infos, proc, i) \subseteq Threads
            /\ InsideAfter(proc, i) \subseteq RunningAt(Infos, proc, i)
        BY <3>2, <3>4, <3>5
      <4>2. IsFiniteSet(RunningAt(Infos, proc, i))
        BY <4>1, <3>1, FS_Subset
      <4>3. IsFiniteSet(InsideAfter(proc, i)) /\ Inside(i) <= Crowd(i)
        BY <4>1, <4>2, FS_Subset
      <4> QED
        BY <4>2, <4>3, FS_CardinalityType
    \* When a thread ends, those running are those inside before its END.
    <3>7. ASSUME NEW k \in Threads
          PROVE  RunningAt(Infos, proc, timeEnd[k]) = InsideAfter(proc, timeEnd[k] - 1)
      <4>1. timeEnd[k] \in 0..Len(log) /\ timeEnd[k] - 1 \in 0..Len(log)
        BY <3>2
      <4>2. \A j \in Threads :
              timeStart[j] <= timeEnd[k] /\ timeEnd[k] <= timeEnd[j]
                <=> timeStart[j] <= timeEnd[k] - 1 /\ timeEnd[k] - 1 < timeEnd[j]
        BY <3>2, <3>3
      <4>3. \A j : j \in RunningAt(Infos, proc, timeEnd[k])
                     <=> j \in InsideAfter(proc, timeEnd[k] - 1)
        BY <4>1, <4>2, <3>4, <3>5
      <4> QED
        BY <4>3
    \* At any other time they are those inside.
    <3>8. ASSUME NEW i \in 0..Len(log), \A k \in Threads : timeEnd[k] # i
          PROVE  RunningAt(Infos, proc, i) = InsideAfter(proc, i)
      <4>1. \A j : j \in RunningAt(Infos, proc, i) <=> j \in InsideAfter(proc, i)
        BY <3>2, <3>4, <3>5, <3>8
      <4> QED
        BY <4>1
    <3>9. \A t : t \in ticks <=>
            \E k \in Threads : t \in timeStart[k]..timeEnd[k]
      <4>1. \A k \in Threads : /\ Infos[k].timeStart = timeStart[k]
                               /\ Infos[k].timeEnd = timeEnd[k]
        BY <3>1, InfosAre
      <4> QED
        BY <4>1
    <3>10. (\A t \in ticks : Crowd(t) <= max) <=> NeverMore
      <4>1. ASSUME \A t \in ticks : Crowd(t) <= max, NEW i \in DOMAIN log
            PROVE  Inside(i) <= max
        <5>1. CASE InsideAfter(proc, i) = {}
          BY <5>1, <2>1, FS_EmptySet
        <5>2. CASE InsideAfter(proc, i) # {}
          <6>1. i \in 0..Len(log) /\ i \in Int
            BY <3>2
          <6>2. PICK k \in Threads : timeStart[k] <= i /\ i < timeEnd[k]
            BY <5>2, <6>1, <3>4
          <6>3. i \in timeStart[k]..timeEnd[k]
            BY <6>1, <6>2, <3>2
          <6>4. Crowd(i) <= max
            BY <6>3, <3>9, <4>1
          <6> QED
            BY <6>1, <6>4, <3>6, <2>1
        <5> QED
          BY <5>1, <5>2
      <4>2. ASSUME NeverMore, NEW t \in ticks PROVE Crowd(t) <= max
        <5>1. PICK k \in Threads : t \in timeStart[k]..timeEnd[k]
          BY <3>9
        <5>2. t \in 1..Len(log)
          BY <5>1, <3>2
        <5>3. CASE \E j \in Threads : timeEnd[j] = t
          <6>1. PICK j \in Threads : timeEnd[j] = t
            BY <5>3
          <6>2. t - 1 \in DOMAIN log
            BY <6>1, <3>2
          <6>3. Inside(t - 1) <= max
            BY <6>2, <4>2
          <6> QED
            BY <6>1, <6>3, <3>7
        <5>4. CASE \A j \in Threads : timeEnd[j] # t
          <6>1. t \in DOMAIN log /\ t \in 0..Len(log)
            BY <5>2, <3>2
          <6>2. Inside(t) <= max
            BY <6>1, <4>2
          <6> QED
            BY <6>1, <6>2, <5>4, <3>8
        <5> QED
          BY <5>3, <5>4
      <4> QED
        BY <4>1, <4>2
    <3>11. Crowd(timeEnd[waiter]) = max <=> FullOnce
      <4>1. /\ <<"END", waiter>> \in Messages
            /\ Number(<<"END", waiter>>) = timeEnd[waiter]
        BY <3>1 DEF Messages, Number
      <4>2. \A i \in DOMAIN log : log[i] = <<"END", waiter>> <=> timeEnd[waiter] = i
        BY <4>1, NumberIsPlace
      <4>3. timeEnd[waiter] \in DOMAIN log
        BY <3>1, <3>2
      <4>4. FullOnce <=> Inside(timeEnd[waiter] - 1) = max
        BY <4>2, <4>3
      <4> QED
        BY <4>4, <3>1, <3>7
    <3>12. Infos[waiter].timeEnd = timeEnd[waiter]
      BY <3>1, InfosAre
    <3>13. Threads2Score(Infos)
             = LET score == 1 + Point(\A t \in ticks : Crowd(t) <= max)
                              + Point(Crowd(timeEnd[waiter]) = max)
               IN  IF score = 3 THEN 5 ELSE score
      BY <2>2, <2>4, <3>12 DEF Threads2Score, Full, Threads
    <3> HIDE DEF NeverMore, FullOnce, ticks, Crowd
    <3> QED
      BY <3>10, <3>11, <3>13 DEF Point, Full
  <2> QED
    BY <2>3, <2>4 DEF Threads2Faithful
<1> QED
  BY <1>1, CheckedInvariance, PTL
=============================================================================
