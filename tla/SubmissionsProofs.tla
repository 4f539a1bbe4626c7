--------------------------- MODULE SubmissionsProofs ---------------------------
(***************************************************************************)
(* Theorems about Submissions, for any files, jobs, ends and restarts.     *)
(***************************************************************************)
EXTENDS Submissions, SequenceTheorems, FiniteSetTheorems, TLAPS

\* The invariant holds when no file has been written.
LEMMA InitInv == Init => IInv
<1> SUFFICES ASSUME Init PROVE IInv
  OBVIOUS
<1>1. ASSUME NEW f \in Files
      PROVE  times[f] \in Seq(Nat) /\ DOMAIN times[f] = DOMAIN Jobs[f]
  <2>1. Jobs[f] \in Seq({"transcode", "other"})
    BY SubmissionsAssumption
  <2>2. Len(Jobs[f]) \in Nat /\ DOMAIN Jobs[f] = 1 .. Len(Jobs[f])
    BY <2>1
  <2>3. times[f] = [j \in 1 .. Len(Jobs[f]) |-> 0]
    BY <2>2 DEF Init
  <2> QED
    BY <2>2, <2>3
<1>2. times \in [Files -> Seq(Nat)]
  <2>1. DOMAIN times = Files /\ times = [f \in Files |-> times[f]]
    BY DEF Init
  <2> QED
    BY <1>1, <2>1
<1>3. TypeOK
  <2>1. stops \in 0 .. MaxStops /\ evictions \in 0 .. MaxEvictions
    BY SubmissionsAssumption DEF Init
  <2>2. file \in [Files -> {"absent", "partial", "whole", "removed"}]
    BY DEF Init
  <2>3. at = "loop" /\ found = {} /\ current = Nowhere /\ volume = FALSE
    BY DEF Init
  <2> QED
    BY <1>1, <1>2, <2>1, <2>2, <2>3 DEF TypeOK, Nowhere
<1> QED
  BY <1>3 DEF Init, IInv, SubmittedBefore, RemovedMeansSubmitted

\* One more submission of a job.
LEMMA Counted ==
  ASSUME TypeOK, NEW f \in Files, NEW j \in DOMAIN Jobs[f],
         times' = [times EXCEPT ![f][j] = @ + 1]
  PROVE  /\ times' \in [Files -> Seq(Nat)]
         /\ \A g \in Files : DOMAIN times'[g] = DOMAIN Jobs[g]
         /\ times'[f][j] > 0
         /\ \A g \in Files : \A k \in DOMAIN Jobs[g] :
              times[g][k] > 0 => times'[g][k] > 0
<1> DEFINE T == [times[f] EXCEPT ![j] = @ + 1]
<1>1. times[f] \in Seq(Nat) /\ j \in DOMAIN times[f]
  BY DEF TypeOK
<1>2. times[f][j] \in Nat
  BY <1>1, ElementOfSeq
<1>3. T \in Seq(Nat) /\ DOMAIN T = DOMAIN times[f] /\ T[j] = times[f][j] + 1
  BY <1>1, <1>2, ExceptSeq
<1>4. times'[f] = T /\ \A g \in Files \ {f} : times'[g] = times[g]
  BY DEF TypeOK
<1>5. times' \in [Files -> Seq(Nat)]
  BY <1>3 DEF TypeOK
<1>6. \A k \in DOMAIN Jobs[f] : times[f][k] > 0 => times'[f][k] > 0
  BY <1>1, <1>2, <1>3, <1>4 DEF TypeOK
<1> QED
  BY <1>2, <1>3, <1>4, <1>5, <1>6 DEF TypeOK

\* Each action keeps the invariant.
LEMMA StepInv == IInv /\ [Next]_vars => IInv'
<1> SUFFICES ASSUME IInv, [Next]_vars PROVE IInv'
  OBVIOUS
<1>0. TypeOK /\ SubmittedBefore /\ RemovedMeansSubmitted
  BY DEF IInv
<1> USE DEF localVars, NextFile, ServerEnds, Nowhere
<1>1. CASE UNCHANGED vars
  BY <1>0, <1>1 DEF vars, IInv, TypeOK, SubmittedBefore, RemovedMeansSubmitted, Transcodes
<1>2. ASSUME NEW f \in Files, WriteFile(f) PROVE IInv'
  <2>1. TypeOK'
    BY <1>0, <1>2 DEF WriteFile, TypeOK
  <2>2. \A g \in Files : file'[g] = "removed" => file[g] = "removed"
    BY <1>0, <1>2 DEF WriteFile, TypeOK
  <2> QED
    BY <1>0, <1>2, <2>1, <2>2
       DEF WriteFile, IInv, SubmittedBefore, RemovedMeansSubmitted, Transcodes
<1>3. CASE Register
  <2>1. TypeOK'
    BY <1>0, <1>3 DEF Register, TypeOK
  <2> QED
    BY <1>0, <1>3, <2>1
       DEF Register, IInv, SubmittedBefore, RemovedMeansSubmitted, Transcodes
<1>4. ASSUME NEW f \in Files, Parse(f) PROVE IInv'
  <2>1. TypeOK'
    <3>1. /\ found' \subseteq Files
          /\ at' \in {"loop", "files", "submit", "ended"}
      BY <1>0, <1>4 DEF Parse, TypeOK
    <3>2. /\ current' = Nowhere \/ current' \in Files \X Nat
          /\ (at' = "submit") <=> current' # Nowhere
      <4>1. CASE at' = "submit"
        <5>1. current' = <<f, 1>>
          BY <1>4, <4>1 DEF Parse
        <5>2. <<f, 1>> \in Files \X Nat /\ <<f, 1>> # <<>>
          OBVIOUS
        <5> QED
          BY <4>1, <5>1, <5>2
      <4>2. CASE at' # "submit"
        BY <1>4, <4>2 DEF Parse
      <4> QED
        BY <4>1, <4>2
    <3>3. UNCHANGED <<file, times, volume, stops, evictions>>
      BY <1>4 DEF Parse
    <3> QED
      BY <1>0, <3>1, <3>2, <3>3 DEF TypeOK
  <2>2. SubmittedBefore'
    <3>1. CASE at' = "submit"
      <4>1. current' = <<f, 1>>
        BY <1>4, <3>1 DEF Parse
      <4>2. \A j \in Transcodes(f) : ~(j < 1)
        <5>1. Jobs[f] \in Seq({"transcode", "other"})
          BY SubmissionsAssumption
        <5> QED
          BY <5>1 DEF Transcodes
      <4> QED
        BY <4>1, <4>2 DEF SubmittedBefore, Transcodes
    <3> QED
      BY <3>1 DEF SubmittedBefore
  <2> QED
    BY <1>0, <1>4, <2>1, <2>2 DEF Parse, IInv, RemovedMeansSubmitted, Transcodes
<1>5. CASE SubmitJob
  <2>1. PICK f \in Files, j \in Nat : current = <<f, j>>
    BY <1>0, <1>5 DEF SubmitJob, TypeOK
  <2>2. Jobs[f] \in Seq({"transcode", "other"})
    BY SubmissionsAssumption
  <2>3. j > 0 /\ j <= Len(Jobs[f]) /\ j \in DOMAIN Jobs[f]
    BY <1>0, <1>5, <2>1, <2>2 DEF SubmitJob, SubmittedBefore
  <2>4. CASE Jobs[f][j] = "transcode" /\ ~volume
    <3>1. at' = "ended" /\ found' = {} /\ current' = <<>>
          /\ UNCHANGED <<file, times, volume, stops, evictions>>
      BY <1>5, <2>1, <2>4 DEF SubmitJob
    <3> QED
      BY <1>0, <3>1 DEF IInv, TypeOK, SubmittedBefore, RemovedMeansSubmitted, Transcodes
  <2>5. CASE ~(Jobs[f][j] = "transcode" /\ ~volume)
    <3>1. /\ current' = <<f, j + 1>> /\ at' = "submit" /\ at = "submit"
          /\ UNCHANGED <<file, found, volume, stops, evictions>>
          /\ times' = IF Jobs[f][j] = "transcode"
                        THEN [times EXCEPT ![f][j] = @ + 1] ELSE times
      BY <1>5, <2>1, <2>5 DEF SubmitJob
    <3>2. /\ times' \in [Files -> Seq(Nat)]
          /\ \A g \in Files : DOMAIN times'[g] = DOMAIN Jobs[g]
          /\ Jobs[f][j] = "transcode" => times'[f][j] > 0
          /\ \A g \in Files : \A k \in DOMAIN Jobs[g] :
               times[g][k] > 0 => times'[g][k] > 0
      <4>1. CASE Jobs[f][j] = "transcode"
        BY <1>0, <2>3, <3>1, <4>1, Counted
      <4>2. CASE Jobs[f][j] # "transcode"
        BY <1>0, <3>1, <4>2 DEF TypeOK
      <4> QED
        BY <4>1, <4>2
    <3>3. TypeOK'
      BY <1>0, <3>1, <3>2 DEF TypeOK
    <3>4. \A k \in Transcodes(f) : k < j + 1 => times'[f][k] > 0
      <4>1. ASSUME NEW k \in Transcodes(f), k < j + 1 PROVE times'[f][k] > 0
        <5>1. k \in DOMAIN Jobs[f] /\ k \in Nat /\ Jobs[f][k] = "transcode"
          BY <2>2 DEF Transcodes
        <5>2. CASE k = j
          BY <3>2, <5>1, <5>2
        <5>3. CASE k < j
          BY <1>0, <2>1, <3>1, <3>2, <5>1, <5>3 DEF SubmittedBefore
        <5> QED
          BY <4>1, <5>1, <5>2, <5>3
      <4> QED
        BY <4>1
    <3>5. SubmittedBefore'
      BY <3>1, <3>4 DEF SubmittedBefore, Transcodes
    <3>6. RemovedMeansSubmitted'
      BY <1>0, <3>1, <3>2 DEF RemovedMeansSubmitted, Transcodes
    <3> QED
      BY <3>3, <3>5, <3>6 DEF IInv
  <2> QED
    BY <2>4, <2>5
<1>6. CASE RemoveXml
  <2>1. PICK f \in Files, j \in Nat : current = <<f, j>>
    BY <1>0, <1>6 DEF RemoveXml, TypeOK
  <2>2. Jobs[f] \in Seq({"transcode", "other"})
    BY SubmissionsAssumption
  <2>3. j > Len(Jobs[f]) /\ file' = [file EXCEPT ![f] = "removed"] /\ UNCHANGED times
        /\ at = "submit" /\ at' # "submit"
    BY <1>6, <2>1 DEF RemoveXml
  <2>4. \A k \in Transcodes(f) : times[f][k] > 0
    BY <1>0, <2>1, <2>2, <2>3 DEF SubmittedBefore, Transcodes
  <2>5. TypeOK'
    BY <1>0, <1>6, <2>3 DEF RemoveXml, TypeOK
  <2>6. RemovedMeansSubmitted'
    BY <1>0, <2>3, <2>4 DEF RemovedMeansSubmitted, Transcodes, TypeOK
  <2> QED
    BY <2>3, <2>5, <2>6 DEF IInv, SubmittedBefore
<1>7. CASE Stop \/ Start \/ RemoveStaleVolume
  <2>1. UNCHANGED <<file, times>> /\ at \in {"loop", "files", "submit", "ended"}
    BY <1>0, <1>7 DEF Stop, Start, RemoveStaleVolume, TypeOK
  <2>2. /\ stops' \in 0 .. MaxStops /\ evictions' \in 0 .. MaxEvictions
        /\ volume' \in BOOLEAN
    <3>1. /\ stops \in 0 .. MaxStops /\ evictions \in 0 .. MaxEvictions
          /\ volume \in BOOLEAN
      BY <1>0 DEF TypeOK
    <3>2. stops' = stops \/ (stops < MaxStops /\ stops' = stops + 1)
      BY <1>7 DEF Stop, Start, RemoveStaleVolume
    <3>3. evictions' = evictions \/ (evictions < MaxEvictions /\ evictions' = evictions + 1)
      BY <1>7 DEF Stop, Start, RemoveStaleVolume
    <3>4. volume' = volume \/ volume' = FALSE
      BY <1>7 DEF Stop, Start, RemoveStaleVolume
    <3>5. stops' \in 0 .. MaxStops
      BY <3>1, <3>2, SubmissionsAssumption
    <3>6. evictions' \in 0 .. MaxEvictions
      BY <3>1, <3>3, SubmissionsAssumption
    <3>7. volume' \in BOOLEAN
      BY <3>1, <3>4, Zenon
    <3> QED
      BY <3>5, <3>6, <3>7
  <2>3. \/ at' = "ended" /\ found' = {} /\ current' = Nowhere
        \/ at = "ended" /\ at' = "loop" /\ UNCHANGED <<found, current>>
        \/ UNCHANGED <<at, found, current>>
    BY <1>7 DEF Stop, Start, RemoveStaleVolume
  <2>4. TypeOK'
    BY <1>0, <2>1, <2>2, <2>3 DEF TypeOK
  <2> QED
    BY <1>0, <2>1, <2>3, <2>4 DEF IInv, SubmittedBefore, RemovedMeansSubmitted, Transcodes
<1> QED
  BY <1>1, <1>2, <1>3, <1>4, <1>5, <1>6, <1>7 DEF Next, Server

\* The invariant holds whatever ends the storage server, and however often.
THEOREM SubmissionsInvariant == Spec => []IInv
BY InitInv, StepInv, PTL DEF Spec

\* The counts fit the files, and the server is at a job only while it submits.
THEOREM SubmissionsTypeCorrect == Spec => []TypeOK
<1>1. IInv => TypeOK
  BY DEF IInv
<1> QED
  BY <1>1, SubmissionsInvariant, PTL

\* os.remove comes after the last job of the file: a file never takes a transcode
\* that was not submitted with it.
THEOREM RemovedWereSubmitted == Spec => []RemovedMeansSubmitted
<1>1. IInv => RemovedMeansSubmitted
  BY DEF IInv
<1> QED
  BY <1>1, SubmissionsInvariant, PTL

----------------------------------------------------------------------------
(* The number of repeats. *)

\* The last round of a file has not ended with the server.
Over(f) == file[f] = "removed" \/ InHand(f)

\* Places and counts are numbers.
LEMMA Counts ==
  ASSUME TypeOK, NEW f \in Files, NEW j \in Transcodes(f)
  PROVE  j \in Nat /\ j >= 1 /\ j <= Len(Jobs[f]) /\ times[f][j] \in Nat
<1>1. Jobs[f] \in Seq({"transcode", "other"}) /\ j \in DOMAIN Jobs[f]
  BY SubmissionsAssumption DEF Transcodes
<1>2. times[f] \in Seq(Nat) /\ j \in DOMAIN times[f]
  BY <1>1 DEF TypeOK
<1>3. times[f][j] \in Nat
  BY <1>2, ElementOfSeq
<1> QED
  BY <1>1, <1>3

\* Without a new round that ends there are no more of them,
LEMMA EndedSame ==
  ASSUME IsFiniteSet(Ended), \A f \in Files : EndedRounds(f)' \subseteq EndedRounds(f)
  PROVE  IsFiniteSet(Ended') /\ Cardinality(Ended') <= Cardinality(Ended)
<1>1. Ended' \in SUBSET Ended
  BY DEF Ended
<1> QED
  BY <1>1, FS_Subset

\* and with one there is one more at most.
LEMMA EndedGrows ==
  ASSUME IsFiniteSet(Ended), NEW e,
         \A f \in Files : \A n \in EndedRounds(f)' : n \in EndedRounds(f) \/ <<f, n>> = e
  PROVE  IsFiniteSet(Ended') /\ Cardinality(Ended') <= Cardinality(Ended) + 1
<1>1. Ended' \in SUBSET (Ended \cup {e})
  BY DEF Ended
<1>2. IsFiniteSet(Ended \cup {e})
  BY FS_AddElement
<1>3. /\ Cardinality(Ended) \in Nat /\ Cardinality(Ended \cup {e}) \in Nat
      /\ Cardinality(Ended \cup {e}) <= Cardinality(Ended) + 1
  <2>1. Cardinality(Ended) \in Nat
    BY FS_CardinalityType
  <2>2. Cardinality(Ended \cup {e}) =
          IF e \in Ended THEN Cardinality(Ended) ELSE Cardinality(Ended) + 1
    BY FS_AddElement
  <2> QED
    BY <2>1, <2>2
<1>4. /\ IsFiniteSet(Ended') /\ Cardinality(Ended') <= Cardinality(Ended \cup {e})
  BY <1>1, <1>2, FS_Subset
<1>5. Cardinality(Ended') \in Nat
  BY <1>4, FS_CardinalityType
<1> QED
  BY <1>3, <1>4, <1>5

\* No round ends while nothing is submitted and the server stays at its file.
LEMMA RoundsGoOn ==
  ASSUME TypeOK, IsFiniteSet(Ended), times' = times, \A f \in Files : Over(f) => Over(f)'
  PROVE  IsFiniteSet(Ended') /\ Cardinality(Ended') <= Cardinality(Ended)
<1>1. ASSUME NEW f \in Files PROVE EndedRounds(f)' \subseteq EndedRounds(f)
  <2>1. RepeatsOf(f)' = RepeatsOf(f)
    BY DEF RepeatsOf, Transcodes
  <2>2. RepeatsOf(f) \subseteq UNION {1 .. times[f][j] : j \in Transcodes(f)}
    BY Counts DEF RepeatsOf
  <2>3. Transcodes(f)' = Transcodes(f)
    BY DEF Transcodes
  <2> QED
    BY <2>1, <2>2, <2>3 DEF EndedRounds, Over
<1> QED
  BY <1>1, EndedSame

\* The end of the server ends one round at most, the one it is at.
LEMMA RoundEnds ==
  ASSUME TypeOK, IsFiniteSet(Ended), times' = times, NEW g,
         \A f \in Files \ {g} : Over(f) => Over(f)'
  PROVE  IsFiniteSet(Ended') /\ Cardinality(Ended') <= Cardinality(Ended) + 1
<1> DEFINE Last(n) == n \in EndedRounds(g)' /\ n \notin EndedRounds(g)
<1>1. \A f \in Files : Transcodes(f)' = Transcodes(f) /\ RepeatsOf(f)' = RepeatsOf(f)
  BY DEF RepeatsOf, Transcodes
<1>2. \A f \in Files : RepeatsOf(f) \subseteq UNION {1 .. times[f][j] : j \in Transcodes(f)}
  BY Counts DEF RepeatsOf
<1>3. ASSUME NEW f \in Files, f # g PROVE EndedRounds(f)' \subseteq EndedRounds(f)
  BY <1>1, <1>2, <1>3 DEF EndedRounds, Over
<1>4. ASSUME NEW n, NEW m, g \in Files, Last(n), Last(m) PROVE n = m
  <2>1. ASSUME NEW x, Last(x)
        PROVE  /\ x \in Nat /\ \E j \in Transcodes(g) : x <= times[g][j]
               /\ \A j \in Transcodes(g) : x >= times[g][j]
    <3>1. x \in UNION {1 .. times[g][j] : j \in Transcodes(g)} /\ x \notin RepeatsOf(g)
      <4>1. Transcodes(g)' = Transcodes(g) /\ RepeatsOf(g)' = RepeatsOf(g)
        BY <1>1, <1>4
      <4>2. RepeatsOf(g) \subseteq UNION {1 .. times[g][j] : j \in Transcodes(g)}
        BY <1>2, <1>4
      <4> QED
        BY <2>1, <4>1, <4>2 DEF EndedRounds
    <3>2. \A j \in Transcodes(g) : times[g][j] \in Nat
      BY <1>4, Counts
    <3> QED
      BY <3>1, <3>2 DEF RepeatsOf
  <2>2. \A j \in Transcodes(g) : times[g][j] \in Nat
    BY <1>4, Counts
  <2>3. n \in Nat /\ m \in Nat /\ n >= m /\ m >= n
    BY <1>4, <2>1, <2>2
  <2> QED
    BY <2>3
<1>5. CASE \E n : g \in Files /\ Last(n)
  <2>1. PICK n : g \in Files /\ Last(n)
    BY <1>5
  <2>2. \A f \in Files : \A m \in EndedRounds(f)' : m \in EndedRounds(f) \/ <<f, m>> = <<g, n>>
    BY <1>3, <1>4, <2>1
  <2> QED
    BY <2>2, EndedGrows
<1>6. CASE ~\E n : g \in Files /\ Last(n)
  <2>1. \A f \in Files : EndedRounds(f)' \subseteq EndedRounds(f)
    BY <1>3, <1>6
  <2>2. IsFiniteSet(Ended') /\ Cardinality(Ended') <= Cardinality(Ended)
    BY <2>1, EndedSame
  <2>3. Cardinality(Ended') \in Nat /\ Cardinality(Ended) \in Nat
    BY <2>2, FS_CardinalityType
  <2> QED
    BY <2>2, <2>3
<1> QED
  BY <1>5, <1>6

\* One more submission keeps the order, and is one of the round that goes on.
LEMMA JobSubmitted ==
  ASSUME TypeOK, RepeatsInv, at = "submit", at' = "submit", file' = file,
         NEW f \in Files, NEW j \in Transcodes(f),
         current = <<f, j>>, current' = <<f, j + 1>>,
         times' = [times EXCEPT ![f][j] = @ + 1]
  PROVE  InOrder' /\ \A g \in Files : EndedRounds(g)' \subseteq EndedRounds(g)
<1>1. /\ times'[f][j] = times[f][j] + 1
      /\ \A k \in Transcodes(f) \ {j} : times'[f][k] = times[f][k]
      /\ \A g \in Files \ {f} : times'[g] = times[g]
  <2>1. times[f] \in Seq(Nat) /\ DOMAIN times[f] = DOMAIN Jobs[f]
    BY DEF TypeOK
  <2>2. times' = [times EXCEPT ![f] = [times[f] EXCEPT ![j] = times[f][j] + 1]]
    OBVIOUS
  <2>3. times'[f] = [times[f] EXCEPT ![j] = times[f][j] + 1]
        /\ \A g \in Files \ {f} : times'[g] = times[g]
    BY <2>2 DEF TypeOK
  <2> QED
    BY <2>1, <2>3 DEF Transcodes
<1>2. \A g \in Files : \A k \in Transcodes(g) : k \in Nat /\ times[g][k] \in Nat
  BY Counts
<1>3. /\ \A g \in Files : \A k, l \in Transcodes(g) : k < l => times[g][k] >= times[g][l]
      /\ \A k, l \in Transcodes(f) : k < j /\ j <= l => times[f][k] > times[f][l]
  BY DEF RepeatsInv, InOrder
<1>4. /\ \A g \in Files : \A k, l \in Transcodes(g) : k < l => times'[g][k] >= times'[g][l]
      /\ \A k, l \in Transcodes(f) : k < j + 1 /\ j + 1 <= l => times'[f][k] > times'[f][l]
  <2>1. ASSUME NEW k \in Transcodes(f), NEW l \in Transcodes(f), k < l
        PROVE  /\ times'[f][k] >= times'[f][l]
               /\ k < j + 1 /\ j + 1 <= l => times'[f][k] > times'[f][l]
    <3>1. times[f][k] >= times[f][l] /\ (k < j /\ j <= l => times[f][k] > times[f][l])
      BY <1>3, <2>1
    <3>2. k \in Nat /\ l \in Nat /\ j \in Nat /\ times[f][k] \in Nat /\ times[f][l] \in Nat
      BY <1>2
    <3>3. CASE k = j
      <4>1. times'[f][k] = times[f][k] + 1 /\ times'[f][l] = times[f][l]
        BY <1>1, <2>1, <3>2, <3>3
      <4> QED
        BY <3>1, <3>2, <4>1
    <3>4. CASE l = j
      <4>1. times'[f][k] = times[f][k] /\ times'[f][l] = times[f][l] + 1
        BY <1>1, <2>1, <3>2, <3>4
      <4> QED
        BY <2>1, <3>1, <3>2, <3>4, <4>1
    <3>5. CASE k # j /\ l # j
      <4>1. times'[f][k] = times[f][k] /\ times'[f][l] = times[f][l]
        BY <1>1, <3>5
      <4> QED
        BY <3>1, <3>2, <3>5, <4>1
    <3> QED
      BY <3>3, <3>4, <3>5
  <2>2. \A k, l \in Transcodes(f) : k < j + 1 /\ j + 1 <= l => k < l
    BY <1>2
  <2>3. \A g \in Files \ {f} : \A k, l \in Transcodes(g) : k < l => times'[g][k] >= times'[g][l]
    BY <1>1, <1>3
  <2> QED
    BY <2>1, <2>2, <2>3
<1>5. InOrder'
  BY <1>4 DEF InOrder, Transcodes
<1>6. ASSUME NEW g \in Files \ {f} PROVE EndedRounds(g)' = EndedRounds(g)
  <2>1. times'[g] = times[g] /\ ~InHand(g) /\ ~InHand(g)'
    BY <1>1, <1>6 DEF InHand
  <2> QED
    BY <2>1 DEF EndedRounds, RepeatsOf, Transcodes
<1>7. EndedRounds(f)' \subseteq EndedRounds(f)
  <2>1. j < j + 1
    BY <1>2
  <2>2. InHand(f)'
    BY <2>1 DEF InHand, Transcodes
  <2>3. EndedRounds(f)' = UNION {1 .. (times'[f][k] - 1) : k \in Transcodes(f)}
    BY <2>2 DEF EndedRounds, RepeatsOf, Transcodes
  <2> SUFFICES ASSUME NEW k \in Transcodes(f), NEW n \in 1 .. (times'[f][k] - 1)
               PROVE  n \in EndedRounds(f)
    BY <2>3
  <2>4. file[f] = "whole"
    BY DEF RepeatsInv
  <2>5. times[f][k] \in Nat /\ times'[f][k] \in {times[f][k], times[f][k] + 1}
    BY <1>1, <1>2
  <2>6. CASE InHand(f)
    <3>1. PICK l \in Transcodes(f) : l < j
      BY <2>6 DEF InHand
    <3>2. EndedRounds(f) = UNION {1 .. (times[f][x] - 1) : x \in Transcodes(f)}
      BY <2>6 DEF EndedRounds, RepeatsOf
    <3>3. n \in 1 .. (times[f][k] - 1) \/ n \in 1 .. (times[f][l] - 1)
      <4>1. CASE k = j
        <5>1. times[f][l] > times[f][j] /\ times[f][l] \in Nat /\ j \in Nat
          BY <1>2, <1>3, <3>1
        <5> QED
          BY <2>5, <4>1, <5>1
      <4>2. CASE k # j
        BY <1>1, <4>2
      <4> QED
        BY <4>1, <4>2
    <3> QED
      BY <3>2, <3>3
  <2>7. CASE ~InHand(f)
    <3>1. EndedRounds(f) = UNION {1 .. times[f][x] : x \in Transcodes(f)}
      BY <2>4, <2>7 DEF EndedRounds
    <3>2. n \in 1 .. times[f][k]
      BY <2>5
    <3> QED
      BY <3>1, <3>2
  <2> QED
    BY <2>6, <2>7
<1> QED
  BY <1>5, <1>6, <1>7

\* What a step may take from the account, it has put there.
LEMMA Balanced ==
  ASSUME TypeOK, TypeOK', RepeatsInv, NEW a \in Nat,
         IsFiniteSet(Ended'), Cardinality(Ended') <= Cardinality(Ended) + a,
         a + Doomed' + (stops + evictions) <= Doomed + (stops' + evictions')
  PROVE  IsFiniteSet(Ended') /\ Cardinality(Ended') + Doomed' <= stops' + evictions'
<1> DEFINE p == stops + evictions
           c == Cardinality(Ended)
           c1 == Cardinality(Ended')
           d == Doomed
           d1 == Doomed'
<1>1. p \in Nat
  BY SubmissionsAssumption DEF TypeOK
<1>2. d \in Nat /\ d1 \in Nat
  BY DEF Doomed
<1>3. c \in Nat /\ c + d <= p
  BY FS_CardinalityType DEF RepeatsInv
<1>4. c1 \in Nat /\ c1 <= c + a
  BY FS_CardinalityType
<1>5. ASSUME NEW s1 \in Nat, NEW e1 \in Nat, a + d1 + p <= d + (s1 + e1)
      PROVE  c1 + d1 <= s1 + e1
  <2> DEFINE p1 == s1 + e1
  <2>1. p1 \in Nat
    OBVIOUS
  <2>2. a + d1 + p <= d + p1
    BY <1>5
  <2> HIDE DEF p, p1, c, c1, d, d1
  <2>3. c1 + d1 <= p1
    BY <1>1, <1>2, <1>3, <1>4, <2>1, <2>2
  <2> QED
    BY <2>3 DEF p1
<1>6. stops' \in Nat /\ evictions' \in Nat
  BY SubmissionsAssumption DEF TypeOK
<1> QED
  BY <1>5, <1>6, Zenon

\* A step that submits nothing, and leaves the file the server is at or enters
\* another one, keeps the order.
LEMMA OrderKept ==
  ASSUME TypeOK, InOrder, times' = times,
         at' = "submit" =>
           \/ at = "submit" /\ current' = current
           \/ \E f \in Files : current' = <<f, 1>>
  PROVE  InOrder'
<1>1. \A f \in Files : \A j \in Transcodes(f) : ~(j < 1)
  BY Counts
<1> QED
  BY <1>1 DEF InOrder, Transcodes

\* Every step keeps the account of the ends.
LEMMA StepRepeats == IInv /\ RepeatsInv /\ [Next]_vars => RepeatsInv'
<1> SUFFICES ASSUME IInv, RepeatsInv, [Next]_vars PROVE RepeatsInv'
  OBVIOUS
<1>0. /\ TypeOK /\ TypeOK' /\ InOrder /\ IsFiniteSet(Ended)
      /\ at = "submit" => file[current[1]] = "whole"
      /\ stops \in Nat /\ evictions \in Nat /\ volume \in BOOLEAN
      /\ Cardinality(Ended) \in Nat
  BY StepInv, SubmissionsAssumption, FS_CardinalityType DEF IInv, RepeatsInv, TypeOK
<1> USE DEF localVars, NextFile, ServerEnds, Nowhere
<1>1. CASE UNCHANGED vars
  BY <1>1 DEF vars, RepeatsInv, InOrder, Ended, EndedRounds, InHand, RepeatsOf, Doomed, Transcodes
<1>2. ASSUME NEW f \in Files, WriteFile(f) PROVE RepeatsInv'
  <2>1. /\ UNCHANGED <<times, at, found, current, volume, stops, evictions>>
        /\ file[f] \in {"absent", "partial"} /\ \A g \in Files \ {f} : file'[g] = file[g]
        /\ file'[f] # "removed"
    BY <1>0, <1>2 DEF WriteFile, TypeOK
  <2>2. at = "submit" => current[1] \in Files
    BY <1>0 DEF TypeOK
  <2>3. at' = "submit" => file'[current'[1]] = "whole"
    BY <1>0, <2>1, <2>2
  <2>4. \A g \in Files : Over(g) => Over(g)'
    BY <2>1 DEF Over, InHand, Transcodes
  <2>5. IsFiniteSet(Ended') /\ Cardinality(Ended') <= Cardinality(Ended) + 0
    BY <1>0, <2>1, <2>4, RoundsGoOn
  <2>6. 0 + Doomed' + (stops + evictions) <= Doomed + (stops' + evictions')
    BY <1>0, <2>1 DEF Doomed
  <2> QED
    BY <1>0, <2>1, <2>3, <2>5, <2>6, Balanced, OrderKept DEF RepeatsInv
<1>3. CASE Register
  <2>1. /\ UNCHANGED <<file, times, stops, evictions>> /\ at = "loop"
        /\ at' \in {"loop", "files"} /\ volume' = TRUE
    BY <1>3 DEF Register
  <2>2. \A g \in Files : Over(g) => Over(g)'
    BY <2>1 DEF Over, InHand
  <2>3. IsFiniteSet(Ended') /\ Cardinality(Ended') <= Cardinality(Ended) + 0
    BY <1>0, <2>1, <2>2, RoundsGoOn
  <2>4. 0 + Doomed' + (stops + evictions) <= Doomed + (stops' + evictions')
    BY <1>0, <2>1 DEF Doomed
  <2> QED
    BY <1>0, <2>1, <2>3, <2>4, Balanced, OrderKept DEF RepeatsInv
<1>4. ASSUME NEW f \in Files, Parse(f) PROVE RepeatsInv'
  <2>1. UNCHANGED <<file, times, volume, stops, evictions>> /\ at = "files"
    BY <1>4 DEF Parse
  <2>2. at' = "submit" => current' = <<f, 1>> /\ file[f] = "whole"
    BY <1>4 DEF Parse
  <2>3. \A g \in Files : Over(g) => Over(g)'
    BY <2>1 DEF Over, InHand
  <2>4. IsFiniteSet(Ended') /\ Cardinality(Ended') <= Cardinality(Ended) + 0
    BY <1>0, <2>1, <2>3, RoundsGoOn
  <2>5. 0 + Doomed' + (stops + evictions) <= Doomed + (stops' + evictions')
    BY <1>0, <2>1 DEF Doomed
  <2>6. InOrder'
    BY <1>0, <2>1, <2>2, OrderKept
  <2>7. at' = "submit" => file'[current'[1]] = "whole"
    BY <2>1, <2>2
  <2> QED
    BY <1>0, <2>4, <2>5, <2>6, <2>7, Balanced DEF RepeatsInv
<1>5. CASE SubmitJob
  <2>1. PICK f \in Files, j \in Nat : current = <<f, j>>
    BY <1>0, <1>5 DEF SubmitJob, TypeOK
  <2>2. /\ UNCHANGED <<file, volume, stops, evictions>> /\ at = "submit"
        /\ j <= Len(Jobs[f]) /\ file[f] = "whole"
    BY <1>0, <1>5, <2>1 DEF SubmitJob
  <2>3. j \in DOMAIN Jobs[f]
    <3>1. Jobs[f] \in Seq({"transcode", "other"}) /\ j > 0
      BY <1>5, <2>1, <2>2, SubmissionsAssumption DEF IInv, SubmittedBefore
    <3> QED
      BY <2>2, <3>1
  <2>4. CASE Jobs[f][j] = "transcode" /\ ~volume
    <3>1. at' = "ended" /\ times' = times
      BY <1>5, <2>1, <2>4 DEF SubmitJob
    <3>2. \A g \in Files \ {f} : Over(g) => Over(g)'
      BY <2>1, <2>2 DEF Over, InHand
    <3>3. IsFiniteSet(Ended') /\ Cardinality(Ended') <= Cardinality(Ended) + 1
      BY <1>0, <3>1, <3>2, RoundEnds
    <3>4. 1 + Doomed' + (stops + evictions) <= Doomed + (stops' + evictions')
      BY <1>0, <2>2, <2>4, <3>1 DEF Doomed
    <3> QED
      BY <1>0, <3>1, <3>3, <3>4, Balanced, OrderKept DEF RepeatsInv
  <2>5. CASE ~(Jobs[f][j] = "transcode" /\ ~volume)
    <3>1. /\ at' = "submit" /\ current' = <<f, j + 1>>
          /\ times' = IF Jobs[f][j] = "transcode"
                        THEN [times EXCEPT ![f][j] = @ + 1] ELSE times
      BY <1>5, <2>1, <2>2, <2>5 DEF SubmitJob
    <3>2. 0 + Doomed' + (stops + evictions) <= Doomed + (stops' + evictions')
      BY <1>0, <2>2, <3>1 DEF Doomed
    <3>3. InOrder' /\ IsFiniteSet(Ended') /\ Cardinality(Ended') <= Cardinality(Ended) + 0
      <4>1. CASE Jobs[f][j] = "transcode"
        <5>1. j \in Transcodes(f)
          BY <2>3, <4>1 DEF Transcodes
        <5>2. InOrder' /\ \A g \in Files : EndedRounds(g)' \subseteq EndedRounds(g)
          BY <1>0, <2>1, <2>2, <3>1, <4>1, <5>1, JobSubmitted
        <5> QED
          BY <1>0, <5>2, EndedSame
      <4>2. CASE Jobs[f][j] # "transcode"
        <5>1. times' = times /\ j \notin Transcodes(f)
          BY <3>1, <4>2 DEF Transcodes
        <5>2. \A k \in Transcodes(f) : k \in Nat /\ (k < j + 1 => k < j) /\ (j + 1 <= k => j <= k)
          BY <1>0, <5>1, Counts
        <5>3. \A g \in Files : Over(g) => Over(g)'
          <6>1. \A k \in Transcodes(f) : k < j => k < j + 1
            BY <5>2
          <6> QED
            BY <2>1, <2>2, <3>1, <6>1 DEF Over, InHand, Transcodes
        <5>4. InOrder'
          BY <1>0, <2>1, <2>2, <3>1, <5>1, <5>2 DEF InOrder, Transcodes
        <5> QED
          BY <1>0, <5>1, <5>3, <5>4, RoundsGoOn
      <4> QED
        BY <4>1, <4>2
    <3>4. file'[current'[1]] = "whole"
      BY <2>2, <3>1
    <3> QED
      BY <1>0, <3>2, <3>3, <3>4, Balanced DEF RepeatsInv
  <2> QED
    BY <2>4, <2>5
<1>6. CASE RemoveXml
  <2>1. PICK f \in Files, j \in Nat : current = <<f, j>>
    BY <1>0, <1>6 DEF RemoveXml, TypeOK
  <2>2. /\ UNCHANGED <<times, volume, stops, evictions>> /\ at = "submit"
        /\ at' \in {"loop", "files"} /\ file' = [file EXCEPT ![f] = "removed"]
    BY <1>6, <2>1 DEF RemoveXml
  <2>3. \A g \in Files : Over(g) => Over(g)'
    BY <1>0, <2>1, <2>2 DEF Over, InHand, TypeOK
  <2>4. IsFiniteSet(Ended') /\ Cardinality(Ended') <= Cardinality(Ended) + 0
    BY <1>0, <2>2, <2>3, RoundsGoOn
  <2>5. 0 + Doomed' + (stops + evictions) <= Doomed + (stops' + evictions')
    BY <1>0, <2>2 DEF Doomed
  <2> QED
    BY <1>0, <2>2, <2>4, <2>5, Balanced, OrderKept DEF RepeatsInv
<1>7. CASE Stop
  <2>1. /\ UNCHANGED <<file, times, volume, evictions>> /\ at' = "ended"
        /\ stops' = stops + 1
    BY <1>7 DEF Stop
  <2>2. \A g \in Files \ {current[1]} : Over(g) => Over(g)'
    BY <2>1 DEF Over, InHand
  <2>3. IsFiniteSet(Ended') /\ Cardinality(Ended') <= Cardinality(Ended) + 1
    BY <1>0, <2>1, <2>2, RoundEnds
  <2>4. 1 + Doomed' + (stops + evictions) <= Doomed + (stops' + evictions')
    BY <1>0, <2>1 DEF Doomed
  <2> QED
    BY <1>0, <2>1, <2>3, <2>4, Balanced, OrderKept DEF RepeatsInv
<1>8. CASE Start \/ RemoveStaleVolume
  <2>1. /\ UNCHANGED <<file, times, current, stops>>
        /\ \/ at = "ended" /\ at' = "loop" /\ evictions' = evictions
           \/ at' = at /\ volume /\ evictions' = evictions + 1
    BY <1>8 DEF Start, RemoveStaleVolume
  <2>2. \A g \in Files : Over(g) => Over(g)'
    BY <2>1 DEF Over, InHand, Transcodes
  <2>3. IsFiniteSet(Ended') /\ Cardinality(Ended') <= Cardinality(Ended) + 0
    BY <1>0, <2>1, <2>2, RoundsGoOn
  <2>4. 0 + Doomed' + (stops + evictions) <= Doomed + (stops' + evictions')
    BY <1>0, <2>1 DEF Doomed
  <2> QED
    BY <1>0, <2>1, <2>3, <2>4, Balanced, OrderKept DEF RepeatsInv
<1> QED
  BY <1>1, <1>2, <1>3, <1>4, <1>5, <1>6, <1>7, <1>8 DEF Next, Server

\* An end of the storage server repeats the jobs of one file at most, and there
\* is no other reason for a repeat: the rounds of all files that are followed by
\* another are no more than the ends and the removals of the volume.
THEOREM RepeatsHaveEnds == Spec => []RepeatsForEnds
<1>1. ASSUME IInv, RepeatsInv PROVE RepeatsForEnds
  <2>1. /\ TypeOK /\ IsFiniteSet(Ended)
        /\ Cardinality(Ended) + Doomed <= stops + evictions
        /\ stops \in Nat /\ evictions \in Nat
    BY <1>1, SubmissionsAssumption DEF IInv, RepeatsInv, TypeOK
  <2>2. \A f \in Files : RepeatsOf(f) \subseteq EndedRounds(f)
    BY <2>1, Counts DEF EndedRounds, RepeatsOf
  <2>3. Repeated \in SUBSET Ended
    BY <2>2 DEF Repeated, Ended
  <2>4. IsFiniteSet(Repeated) /\ Cardinality(Repeated) <= Cardinality(Ended)
    BY <2>1, <2>3, FS_Subset
  <2>5. Cardinality(Repeated) \in Nat /\ Cardinality(Ended) \in Nat /\ Doomed \in Nat
    BY <2>1, <2>4, FS_CardinalityType DEF Doomed
  <2> QED
    BY <2>1, <2>4, <2>5 DEF RepeatsForEnds
<1>2. Init => RepeatsInv
  <2> SUFFICES ASSUME Init PROVE RepeatsInv
    OBVIOUS
  <2>1. TypeOK /\ at = "loop" /\ stops = 0 /\ evictions = 0
    BY InitInv DEF IInv, Init
  <2>2. \A f \in Files : \A j \in Transcodes(f) : times[f][j] = 0
    BY DEF Init, Transcodes
  <2>3. Ended = {}
    BY <2>1, <2>2 DEF Ended, EndedRounds, RepeatsOf
  <2>4. IsFiniteSet(Ended) /\ Cardinality(Ended) = 0 /\ Doomed = 0
    BY <2>1, <2>3, FS_EmptySet DEF Doomed
  <2>5. InOrder
    BY <2>1, <2>2 DEF InOrder
  <2> QED
    BY <2>1, <2>4, <2>5 DEF RepeatsInv
<1>3. IInv /\ RepeatsInv /\ [Next]_vars => RepeatsInv'
  BY StepRepeats
<1> QED
  BY <1>1, <1>2, <1>3, SubmissionsInvariant, PTL DEF Spec
=============================================================================
