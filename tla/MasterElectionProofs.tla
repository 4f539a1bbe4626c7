------------------------- MODULE MasterElectionProofs -------------------------
(***************************************************************************)
(* Theorems about MasterElection, for any number of masters, crashes,      *)
(* stops and late heartbeats.                                              *)
(***************************************************************************)
EXTENDS MasterElection, SequenceTheorems, TLAPS

\* The invariant holds when no master has been started.
LEMMA InitInv == Init => IInv
BY DEF Init, IInv, TypeOK, OneRowEach, SomeoneStays, PCs, Row

\* The rows and the first of them.
LEMMA RowFacts ==
  ASSUME NEW S \in Seq(Row)
  PROVE  /\ Len(S) \in Nat /\ DOMAIN S = 1 .. Len(S)
         /\ \A i \in DOMAIN S : S[i] \in Row /\ S[i].master \in Masters
         /\ S # <<>> => 1 \in DOMAIN S /\ Head(S) = S[1]
<1>1. Len(S) \in Nat /\ DOMAIN S = 1 .. Len(S)
  OBVIOUS
<1>2. \A i \in DOMAIN S : S[i] \in Row
  BY <1>1, ElementOfSeq
<1>3. S # <<>> => 1 \in DOMAIN S /\ Head(S) = S[1]
  BY <1>1
<1> QED
  BY <1>1, <1>2, <1>3 DEF Row

\* An UPDATE keeps the rows, whose they are and their order.
LEMMA Updated ==
  ASSUME rows \in Seq(Row), NEW m \in Masters, NEW old \in BOOLEAN,
         rows' = WithAge(m, old)
  PROVE  /\ rows' \in Seq(Row)
         /\ Len(rows') = Len(rows) /\ DOMAIN rows' = DOMAIN rows
         /\ \A i \in DOMAIN rows : rows'[i].master = rows[i].master
         /\ rows = <<>> <=> rows' = <<>>
         /\ rows # <<>> => Head(rows').master = Head(rows).master
<1>1. /\ Len(rows) \in Nat /\ DOMAIN rows = 1 .. Len(rows)
      /\ \A i \in DOMAIN rows : rows[i] \in Row
  BY ElementOfSeq
<1>2. \A i \in DOMAIN rows : WithAge(m, old)[i] \in Row
                             /\ WithAge(m, old)[i].master = rows[i].master
  BY <1>1 DEF WithAge, Row
<1>3. rows' = [i \in 1 .. Len(rows) |-> rows'[i]]
  BY <1>1 DEF WithAge
<1>4. rows' \in Seq(Row) /\ Len(rows') = Len(rows) /\ DOMAIN rows' = DOMAIN rows
  BY <1>1, <1>2, <1>3
<1> QED
  BY <1>1, <1>2, <1>4

\* A DELETE leaves rows of the table, each in one place.
LEMMA Deleted ==
  ASSUME rows \in Seq(Row), NEW k \in DOMAIN rows, rows' = Without(k), OneRowEach
  PROVE  /\ rows' \in Seq(Row)
         /\ \A i \in DOMAIN rows' : \E j \in DOMAIN rows : rows'[i] = rows[j]
         /\ OneRowEach'
<1> DEFINE At(i) == IF i < k THEN i ELSE i + 1
           n == Len(rows) - 1
<1>1. /\ Len(rows) \in Nat /\ DOMAIN rows = 1 .. Len(rows)
      /\ \A i \in DOMAIN rows : rows[i] \in Row
  BY ElementOfSeq
<1>2. n \in Nat /\ \A i \in 1 .. n : At(i) \in DOMAIN rows
  BY <1>1
<1>3. \A i, j \in 1 .. n : At(i) = At(j) => i = j
  BY <1>1
<1>4. PICK N \in Nat : N = n
  BY <1>2
<1>5. \A i \in 1 .. N : rows[At(i)] \in Row
  BY <1>1, <1>2, <1>4
<1>6. rows' = [i \in 1 .. N |-> rows[At(i)]]
  BY <1>4 DEF Without
<1>7. rows' \in Seq(Row)
  BY <1>5, <1>6
<1>8. DOMAIN rows' = 1 .. N /\ \A i \in 1 .. N : rows'[i] = rows[At(i)]
  BY <1>6
<1>9. \A i, j \in 1 .. N : rows'[i].master = rows'[j].master => i = j
  BY <1>2, <1>3, <1>4, <1>8 DEF OneRowEach
<1> QED
  BY <1>2, <1>4, <1>7, <1>8, <1>9 DEF OneRowEach

\* Rows that stay the same ones, with masters that go on, keep the invariant.
LEMMA SameRows ==
  ASSUME IInv, rows' \in Seq(Row), DOMAIN rows' = DOMAIN rows,
         \A i \in DOMAIN rows : rows'[i].master = rows[i].master,
         rows' # <<>> => rows # <<>> /\ Head(rows').master = Head(rows).master,
         NEW m \in Masters, NEW l \in PCs \ {"off", "refused"},
         GoTo(m, l), pc[m] \notin {"off", "refused", "gone"},
         l = "insert" => rows = <<>>
  PROVE  IInv'
<1>1. TypeOK'
  BY DEF IInv, TypeOK, GoTo
<1>2. OneRowEach'
  BY DEF IInv, OneRowEach
<1>3. pc' = [pc EXCEPT ![m] = l] /\ pc \in [Masters -> PCs]
  BY DEF GoTo, IInv, TypeOK
<1>4. SomeoneStays'
  BY <1>3 DEF IInv, SomeoneStays
<1>5. \A i \in DOMAIN rows' : pc'[rows'[i].master] \notin {"off", "insert"}
  <2>1. \A i \in DOMAIN rows : rows # <<>>
    OBVIOUS
  <2>2. \A i \in DOMAIN rows : rows[i].master \in Masters
    BY RowFacts DEF IInv, TypeOK
  <2> QED
    BY <1>3, <2>1, <2>2 DEF IInv
<1>6. rows' # <<>> => Running(Head(rows).master)' \/ SomeoneGone'
  <2>1. rows # <<>> => Head(rows).master \in Masters
    BY RowFacts DEF IInv, TypeOK
  <2> QED
    BY <1>3, <2>1 DEF IInv, Running, SomeoneGone
<1> QED
  BY <1>1, <1>2, <1>4, <1>5, <1>6 DEF IInv

\* Each action keeps the invariant.
LEMMA StepInv == IInv /\ [Next]_vars => IInv'
<1> SUFFICES ASSUME IInv, [Next]_vars PROVE IInv'
  OBVIOUS
<1>0. rows \in Seq(Row) /\ pc \in [Masters -> PCs]
  BY DEF IInv, TypeOK
<1>1. CASE UNCHANGED vars
  BY <1>1 DEF vars, IInv, TypeOK, OneRowEach, SomeoneStays, Running, SomeoneGone
<1>2. CASE \E m \in Masters : Start(m) \/ Step(m) \/ Exit(m) \/ Crash(m) \/ Silence(m)
  <2>0. PICK m \in Masters : Start(m) \/ Step(m) \/ Exit(m) \/ Crash(m) \/ Silence(m)
    BY <1>2
  <2>a. /\ Len(rows) \in Nat /\ DOMAIN rows = 1 .. Len(rows)
        /\ \A i \in DOMAIN rows : rows[i] \in Row /\ rows[i].master \in Masters
        /\ rows # <<>> => 1 \in DOMAIN rows /\ Head(rows) = rows[1]
    BY <1>0, RowFacts
  <2>1. CASE Start(m)
    <3>1. pc' = [pc EXCEPT ![m] = "select"] /\ rows' = rows /\ pc[m] = "off"
      BY <2>1 DEF Start, GoTo
    <3>2. TypeOK' /\ OneRowEach'
      BY <1>0, <3>1 DEF IInv, TypeOK, OneRowEach, PCs
    <3>3. SomeoneStays'
      BY <1>0, <3>1 DEF IInv, SomeoneStays
    <3>4. \A i \in DOMAIN rows' : pc'[rows'[i].master] \notin {"off", "insert"}
      BY <1>0, <2>a, <3>1 DEF IInv
    <3>5. rows' # <<>> => Running(Head(rows).master)' \/ SomeoneGone'
      <4>1. rows # <<>> => Head(rows).master \in Masters
        BY <2>a
      <4> QED
        BY <1>0, <4>1, <3>1 DEF IInv, Running, SomeoneGone
    <3> QED
      BY <3>2, <3>3, <3>4, <3>5 DEF IInv
  <2>2. CASE Select(m)
    <3>1. pc' = [pc EXCEPT ![m] = Verdict(m)] /\ rows' = rows /\ pc[m] = "select"
      BY <2>2 DEF Select, GoTo
    <3>2. CASE Verdict(m) # "refused"
      <4>1. Verdict(m) \in {"insert", "beat", "clear"}
        BY <3>2 DEF Verdict
      <4>2. Verdict(m) = "insert" => rows = <<>>
        BY DEF Verdict
      <4> QED
        BY <1>0, <3>1, <4>1, <4>2, SameRows DEF GoTo, PCs
    <3>3. CASE Verdict(m) = "refused"
      <4>1. rows # <<>> /\ Head(rows).master # m
        BY <3>3 DEF Verdict
      <4>2. Head(rows).master \in Masters
        BY <2>a, <4>1
      <4>3. TypeOK' /\ OneRowEach'
        BY <1>0, <3>1, <3>3 DEF IInv, TypeOK, OneRowEach, PCs
      <4>4. Running(Head(rows).master)' \/ SomeoneGone'
        BY <1>0, <3>1, <3>3, <4>1, <4>2 DEF IInv, Running, SomeoneGone
      <4>5. SomeoneStays'
        BY <1>0, <3>1, <4>2, <4>4 DEF SomeoneStays, Running, SomeoneGone
      <4>6. \A i \in DOMAIN rows' : pc'[rows'[i].master] \notin {"off", "insert"}
        BY <1>0, <2>a, <3>1, <3>3 DEF IInv
      <4> QED
        BY <4>3, <4>4, <4>5, <4>6 DEF IInv
    <3> QED
      BY <3>2, <3>3
  <2>3. CASE Insert(m)
    <3> DEFINE new == [master |-> m, old |-> FALSE]
    <3>1. pc' = [pc EXCEPT ![m] = "work"] /\ rows' = Append(rows, new) /\ pc[m] = "insert"
      BY <2>3 DEF Insert, GoTo
    <3>2. new \in Row
      BY DEF Row
    <3>3. /\ rows' \in Seq(Row) /\ Len(rows') = Len(rows) + 1
          /\ rows'[Len(rows) + 1] = new
          /\ \A i \in DOMAIN rows : rows'[i] = rows[i]
          /\ DOMAIN rows' = 1 .. Len(rows) + 1
          /\ \A i \in DOMAIN rows' : i \in DOMAIN rows \/ i = Len(rows) + 1
      BY <1>0, <2>a, <3>1, <3>2
    <3>4. TypeOK'
      BY <1>0, <3>1, <3>3 DEF TypeOK, PCs
    <3>5. \A i \in DOMAIN rows : rows[i].master # m
      BY <3>1 DEF IInv
    <3>6. OneRowEach'
      BY <3>3, <3>5 DEF IInv, OneRowEach
    <3>7. SomeoneStays'
      BY <1>0, <3>1 DEF SomeoneStays
    <3>8. \A i \in DOMAIN rows' : pc'[rows'[i].master] \notin {"off", "insert"}
      BY <1>0, <2>a, <3>1, <3>3, <3>5 DEF IInv
    <3>9. Running(Head(rows).master)' \/ SomeoneGone'
      <4>1. CASE rows = <<>>
        <5>1. Head(rows') = new
          BY <3>1, <4>1
        <5> QED
          BY <1>0, <3>1, <5>1 DEF Running
      <4>2. CASE rows # <<>>
        <5>1. Head(rows') = Head(rows)
          BY <1>0, <3>1, <4>2, <2>a, <3>3
        <5>2. Head(rows).master \in Masters
          BY <2>a, <4>2
        <5> QED
          BY <1>0, <3>1, <4>2, <5>1, <5>2 DEF IInv, Running, SomeoneGone
      <4> QED
        BY <4>1, <4>2
    <3> QED
      BY <3>4, <3>6, <3>7, <3>8, <3>9 DEF IInv
  <2>4. CASE Beat(m)
    <3>1. rows' = WithAge(m, FALSE) /\ GoTo(m, "work") /\ pc[m] = "beat"
      BY <2>4 DEF Beat
    <3> QED
      BY <1>0, <3>1, Updated, SameRows DEF PCs
  <2>5. CASE Clear(m)
    <3>1. pc' = [pc EXCEPT ![m] = "select"] /\ rows' = <<>> /\ pc[m] = "clear"
      BY <2>5 DEF Clear, GoTo
    <3>2. rows' \in Seq(Row)
      BY <3>1
    <3> QED
      BY <1>0, <3>1, <3>2 DEF IInv, TypeOK, OneRowEach, SomeoneStays, PCs
  <2>6. CASE Work(m)
    <3>1. rows' = rows /\ GoTo(m, "select") /\ pc[m] = "work"
      BY <2>6 DEF Work
    <3> QED
      BY <1>0, <3>1, SameRows DEF PCs
  <2>7. CASE Exit(m)
    <3>1. pc' = [pc EXCEPT ![m] = "gone"] /\ Running(m)
      BY <2>7 DEF Exit, GoTo
    <3>2. CASE rows' = rows
      BY <1>0, <3>1, <3>2, SameRows DEF PCs, Running, GoTo
    <3>3. CASE \E k \in RowsOf(m) : rows' = Without(k)
      <4>1. PICK k \in DOMAIN rows : rows' = Without(k)
        BY <3>3 DEF RowsOf
      <4>2. /\ rows' \in Seq(Row) /\ OneRowEach'
            /\ \A i \in DOMAIN rows' : \E j \in DOMAIN rows : rows'[i] = rows[j]
        BY <1>0, <4>1, Deleted DEF IInv
      <4>3. TypeOK'
        BY <1>0, <3>1, <4>2 DEF TypeOK, PCs
      <4>4. \A i \in DOMAIN rows' : pc'[rows'[i].master] \notin {"off", "insert"}
        BY <1>0, <2>a, <3>1, <4>2 DEF IInv
      <4>5. SomeoneStays' /\ SomeoneGone'
        BY <1>0, <3>1 DEF SomeoneStays, SomeoneGone
      <4> QED
        BY <4>2, <4>3, <4>4, <4>5 DEF IInv
    <3> QED
      BY <2>7, <3>2, <3>3 DEF Exit
  <2>8. CASE Crash(m)
    <3>1. rows' = rows /\ GoTo(m, "gone") /\ Running(m)
      BY <2>8 DEF Crash
    <3> QED
      BY <1>0, <3>1, SameRows DEF PCs, Running
  <2>9. CASE Silence(m)
    <3>1. rows' = WithAge(m, TRUE) /\ pc' = pc
      BY <2>9 DEF Silence
    <3>2. /\ rows' \in Seq(Row) /\ DOMAIN rows' = DOMAIN rows
          /\ \A i \in DOMAIN rows : rows'[i].master = rows[i].master
          /\ rows = <<>> <=> rows' = <<>>
          /\ rows # <<>> => Head(rows').master = Head(rows).master
      BY <1>0, <3>1, Updated
    <3> QED
      BY <3>1, <3>2 DEF IInv, TypeOK, OneRowEach, SomeoneStays, Running, SomeoneGone
  <2> QED
    BY <2>0, <2>1, <2>2, <2>3, <2>4, <2>5, <2>6, <2>7, <2>8, <2>9 DEF Step
<1> QED
  BY <1>1, <1>2 DEF Next

\* The invariant holds whatever the masters and the clock do.
THEOREM ElectionInvariant == Spec => []IInv
BY InitInv, StepInv, PTL DEF Spec

\* The table holds whole rows and each master is at one of its statements.
THEOREM ElectionTypeCorrect == Spec => []TypeOK
<1>1. IInv => TypeOK
  BY DEF IInv
<1> QED
  BY <1>1, ElectionInvariant, PTL

\* However the masters' SELECT, INSERT, UPDATE and DELETE interleave, none has
\* two rows: register_master_server inserts only when the table was empty, and
\* who is about to insert has no row.
THEOREM OneRegistration == Spec => []OneRowEach
<1>1. IInv => OneRowEach
  BY DEF IInv
<1> QED
  BY <1>1, ElectionInvariant, PTL

\* Masters never all exit because of each other: when one has called
\* sys.exit(1) another runs, or was stopped or crashed.
THEOREM SomeoneStaysAlive == Spec => []SomeoneStays
<1>1. IInv => SomeoneStays
  BY DEF IInv
<1> QED
  BY <1>1, ElectionInvariant, PTL
=============================================================================
