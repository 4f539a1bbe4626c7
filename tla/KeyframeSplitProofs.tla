-------------------------- MODULE KeyframeSplitProofs --------------------------
(***************************************************************************)
(* Theorems about KeyframeSplit: for every video and any numbers of slaves *)
(* the parts neither overlap nor leave a gap.                              *)
(***************************************************************************)
EXTENDS KeyframeSplit, SequenceTheorems, TLAPS

\* Cancelling a common factor: k shares of a duration reach less far than n.
LEMMA Cancel ==
  ASSUME NEW k \in Int, NEW n \in Int, NEW d \in Nat, k * d < n * d
  PROVE  k < n
<1>1. SUFFICES ASSUME n <= k PROVE FALSE
  OBVIOUS
<1>2. PICK e \in Nat : k = n + e
  BY <1>1
<1>3. k * d = n * d + e * d
  BY <1>2
<1>4. e * d >= 0
  BY <1>2
<1> QED
  BY <1>3, <1>4

\* A positive product with a natural factor has a positive other factor.
LEMMA Positive ==
  ASSUME NEW x \in Int, NEW n \in Nat, x * n > 0
  PROVE  x > 0
<1>1. SUFFICES ASSUME x <= 0 PROVE FALSE
  OBVIOUS
<1>2. PICK y \in Nat : x = -y
  BY <1>1
<1>3. x * n = -(y * n) /\ y * n >= 0
  BY <1>2
<1> QED
  BY <1>3

\* What a frame and its time are.
LEMMA FrameTimes ==
  ASSUME IsVideo(video)
  PROVE  /\ video.duration \in Nat
         /\ Len(Frames) \in Nat
         /\ DOMAIN Frames = 1 .. Len(Frames)
         /\ \A i \in DOMAIN Frames :
              Time(i) \in Nat /\ Time(i) < video.duration /\ Frames[i].key \in BOOLEAN
         /\ \A i, j \in DOMAIN Frames : i < j => Time(i) < Time(j)
<1>1. Frames \in Seq([time : Nat, key : BOOLEAN])
  BY DEF IsVideo, Frames
<1>2. Len(Frames) \in Nat /\ DOMAIN Frames = 1 .. Len(Frames)
  BY <1>1
<1>3. \A i \in DOMAIN Frames : Frames[i] \in [time : Nat, key : BOOLEAN]
  BY <1>1, <1>2, ElementOfSeq
<1>4. \A i \in DOMAIN Frames : Time(i) \in Nat /\ Frames[i].key \in BOOLEAN
  BY <1>3 DEF Time
<1> QED
  BY <1>2, <1>4 DEF IsVideo, Frames, Time

\* The loops start with the one key frame at 0.
LEMMA InitInv == Init => IInv
<1> SUFFICES ASSUME Init PROVE IInv
  OBVIOUS
<1>1. TypeOK
  BY VideosAssumption, MaxSlavesAssumption DEF Init, TypeOK, PCs, IsVideo, Frames
<1>2. KeyframesInv
  BY DEF Init, KeyframesInv
<1>3. SharesInv
  <2>1. DOMAIN keyframes = {1} /\ keyframes[1] = 0 /\ Len(keyframes) = 1
    BY DEF Init
  <2>2. \A i \in DOMAIN Frames : Time(i) \in Nat
    BY <1>1, FrameTimes DEF TypeOK
  <2>3. diff[Len(diff)] = 0 /\ Len(diff) = 1
    BY DEF Init
  <2> QED
    BY <2>1, <2>2, <2>3 DEF SharesInv, InShare
<1>4. PartsInv /\ SplitsAsFarm
  BY DEF Init, PartsInv, SplitsAsFarm
<1> QED
  BY <1>1, <1>2, <1>3, <1>4 DEF IInv

\* A row that starts no part changes nothing but the row.
LEMMA SkipRow ==
  ASSUME IInv, ScanRow, UNCHANGED <<keyframes, diff>>
  PROVE  IInv'
<1> USE DEF IInv
<1>1. TypeOK'
  BY DEF TypeOK, ScanRow, Frames, IsVideo
<1>2. KeyframesInv'
  <2>1. 1 .. row \subseteq 1 .. row'
    BY DEF ScanRow, TypeOK
  <2> QED
    BY <2>1 DEF KeyframesInv, ScanRow, Time, Frames, LastKeyframe
<1>3. SharesInv'
  BY DEF SharesInv, ScanRow, InPart, InShare, Part, Time, Frames
<1>4. PartsInv' /\ SplitsAsFarm'
  BY DEF PartsInv, SplitsAsFarm, ScanRow, Part
<1> QED
  BY <1>1, <1>2, <1>3, <1>4

\* A row that starts a part: the key frames stay in order and a share apart.
LEMMA TakeRow ==
  ASSUME IInv, ScanRow, StartsPart(row')
  PROVE  IInv'
<1> PICK K : K = Len(keyframes)
  OBVIOUS
<1> PICK r : r = row + 1
  OBVIOUS
<1> PICK T : T = Time(r)
  OBVIOUS
<1> USE DEF IInv
<1>0. IsVideo(video)
  BY DEF TypeOK
<1>1. /\ row' = r /\ r \in DOMAIN Frames /\ pc = "scan" /\ pc' = "scan"
      /\ video' = video /\ space' = space /\ slaves' = slaves /\ parts' = parts
      /\ parts = <<>>
      /\ slaves \in Nat
  BY <1>0, FrameTimes DEF ScanRow, TypeOK, KeyframesInv
<1>2. /\ K \in Nat \ {0} /\ Len(diff) = K /\ keyframes \in Seq(Nat)
      /\ diff \in Seq(Nat \cup {Open})
      /\ DOMAIN keyframes = 1 .. K /\ DOMAIN diff = 1 .. K
  BY DEF TypeOK, KeyframesInv
<1>3. LastKeyframe \in Nat /\ T \in Nat /\ T < video.duration /\ video.duration \in Nat
  BY <1>1, <1>2, <1>0, FrameTimes DEF LastKeyframe
<1>4. (T - LastKeyframe) * slaves >= video.duration
  BY <1>1 DEF StartsPart
<1>5. LastKeyframe < T
  <2>1. (T - LastKeyframe) * slaves > 0
    BY <1>1, <1>3, <1>4
  <2>2. T - LastKeyframe > 0
    BY <1>1, <1>3, <2>1, Positive
  <2> QED
    BY <1>3, <2>2
<1>6. /\ keyframes' = Append(keyframes, T)
      /\ diff' = Append([diff EXCEPT ![Len(diff)] = PartLength(r)], Open)
  BY <1>1 DEF ScanRow
<1>7. PartLength(r) \in Nat
  <2>1. CASE space = 0
    BY <2>1, <1>3, <1>5 DEF PartLength
  <2>2. CASE space = 1 /\ r = 1
    <3>1. LastKeyframe = 0
      BY <2>2, <1>2, <1>1 DEF KeyframesInv, LastKeyframe, TypeOK
    <3> QED
      BY <2>2, <3>1 DEF PartLength, PreviousTime
  <2>3. CASE space = 1 /\ r # 1
    <3>1. row \in DOMAIN Frames /\ r - 1 = row /\ Time(row) \in Nat
      BY <2>3, <1>1, <1>0, FrameTimes DEF TypeOK
    <3>2. LastKeyframe <= Time(row)
      <4>1. LastKeyframe = 0 \/ \E i \in 1 .. row : LastKeyframe = Time(i)
        BY <1>2 DEF KeyframesInv, LastKeyframe
      <4>2. \A i \in 1 .. row : i \in DOMAIN Frames /\ Time(i) <= Time(row)
        BY <3>1, <1>0, FrameTimes
      <4> QED
        BY <3>1, <4>1, <4>2
    <3> QED
      BY <2>3, <3>1, <3>2, <1>3 DEF PartLength, PreviousTime
  <2> QED
    BY <2>1, <2>2, <2>3 DEF TypeOK
<1>8. /\ Len(keyframes') = K + 1 /\ DOMAIN keyframes' = 1 .. K + 1
      /\ keyframes' \in Seq(Nat)
      /\ keyframes'[K + 1] = T
      /\ \A k \in 1 .. K : keyframes'[k] = keyframes[k]
  BY <1>2, <1>3, <1>6
<1>9. /\ Len(diff') = K + 1 /\ diff' \in Seq(Nat \cup {Open})
      /\ diff'[K + 1] = Open
      /\ diff'[K] = PartLength(r)
      /\ \A k \in 1 .. K - 1 : diff'[k] = diff[k]
  <2> DEFINE d == [diff EXCEPT ![K] = PartLength(r)]
  <2>1. /\ d \in Seq(Nat \cup {Open}) /\ Len(d) = K /\ d[K] = PartLength(r)
        /\ \A k \in 1 .. K - 1 : d[k] = diff[k]
    BY <1>2, <1>7, ExceptSeq
  <2>2. diff' = Append(d, Open)
    BY <1>2, <1>6
  <2> HIDE DEF d
  <2> QED
    BY <1>2, <2>1, <2>2
<1>10. TypeOK'
  BY <1>1, <1>8, <1>9 DEF TypeOK, Frames, IsVideo
<1>12. KeyframesInv'
  <2>1. keyframes'[1] = 0
    BY <1>2, <1>8 DEF KeyframesInv
  <2>2. \A j, k \in DOMAIN keyframes' : j < k => keyframes'[j] < keyframes'[k]
    <3>1. \A j \in 1 .. K : keyframes[j] \in Nat
      BY <1>2
    <3>2. \A j \in 1 .. K : keyframes[j] <= LastKeyframe
      <4> SUFFICES ASSUME NEW j \in 1 .. K PROVE keyframes[j] <= keyframes[K]
        BY DEF LastKeyframe
      <4>1. CASE j = K
        BY <4>1, <3>1
      <4>2. CASE j < K
        <5>1. keyframes[j] < keyframes[K]
          BY <4>2, <1>2 DEF KeyframesInv
        <5>2. keyframes[K] \in Nat
          BY <1>2
        <5> QED
          BY <5>1, <5>2, <3>1
      <4> QED
        BY <4>1, <4>2, <1>2
    <3>3. \A j \in 1 .. K : keyframes'[j] < keyframes'[K + 1]
      BY <1>3, <1>5, <1>8, <3>1, <3>2
    <3>4. \A j, k \in 1 .. K : j < k => keyframes'[j] < keyframes'[k]
      BY <1>2, <1>8 DEF KeyframesInv
    <3>5. \A k \in 1 .. K + 1 : k \in 1 .. K \/ k = K + 1
      BY <1>2
    <3>6. \A j, k \in 1 .. K + 1 : j < k => j \in 1 .. K
      BY <1>2
    <3> QED
      BY <1>8, <3>3, <3>4, <3>5, <3>6
  <2>3. \A k \in DOMAIN keyframes' :
          keyframes'[k] = 0 \/ \E i \in 1 .. row' : keyframes'[k] = Time(i)
    <3>1. row \in Nat
      BY <1>0, FrameTimes DEF TypeOK
    <3>2. r \in 1 .. row' /\ 1 .. row \subseteq 1 .. row'
      BY <1>1, <3>1
    <3>3. \A k \in 1 .. K : keyframes[k] = 0 \/ \E i \in 1 .. row : keyframes[k] = Time(i)
      BY <1>2 DEF KeyframesInv
    <3>4. \A k \in 1 .. K + 1 : k \in 1 .. K \/ k = K + 1
      BY <1>2
    <3> QED
      BY <1>8, <3>2, <3>3, <3>4
  <2>4. (Len(keyframes') - 1) * video.duration <= LastKeyframe' * slaves
    <3>1. (K - 1) * video.duration <= LastKeyframe * slaves
      BY <1>1 DEF KeyframesInv
    <3>2. T * slaves = (T - LastKeyframe) * slaves + LastKeyframe * slaves
      BY <1>1, <1>3
    <3>3. K * video.duration = (K - 1) * video.duration + video.duration
      <4> DEFINE D == video.duration
      <4>1. D \in Nat /\ K \in Nat
        BY <1>2, <1>3
      <4> HIDE DEF D
      <4>2. K * D = (K - 1) * D + D
        BY <4>1
      <4> QED
        BY <4>2 DEF D
    <3>4. K * video.duration <= T * slaves
      <4>1. /\ (K - 1) * video.duration \in Int
            /\ LastKeyframe * slaves \in Int
            /\ (T - LastKeyframe) * slaves \in Int
        BY <1>1, <1>2, <1>3
      <4> QED
        BY <3>1, <3>2, <3>3, <1>4, <1>3, <4>1
    <3>5. LastKeyframe' = T
      BY <1>8 DEF LastKeyframe
    <3> QED
      BY <3>4, <3>5, <1>8, <1>2
  <2>5. slaves > 0
    BY <1>1 DEF KeyframesInv
  <2> QED
    BY <1>1, <1>2, <1>8, <2>1, <2>2, <2>3, <2>4, <2>5 DEF KeyframesInv, Time, Frames
<1>13. \A i \in DOMAIN Frames : InPart(Part(K), Time(i))' <=> InShare(K, Time(i))'
  <2> SUFFICES ASSUME NEW i \in DOMAIN Frames
               PROVE  InPart(Part(K), Time(i))' <=> InShare(K, Time(i))'
    OBVIOUS
  <2>1. Part(K)' = [ss |-> LastKeyframe, t |-> PartLength(r)]
    <3>1. keyframes'[K] = LastKeyframe /\ diff'[K] = PartLength(r)
      BY <1>2, <1>8, <1>9 DEF LastKeyframe
    <3> QED
      BY <3>1 DEF Part
  <2>2. InShare(K, Time(i))' <=> LastKeyframe <= Time(i) /\ Time(i) < T
    <3>1. keyframes'[K] = LastKeyframe /\ keyframes'[K + 1] = T /\ K < Len(keyframes')
      BY <1>2, <1>8 DEF LastKeyframe
    <3> QED
      BY <3>1, <1>1 DEF InShare, Time, Frames
  <2>3. Time(i) \in Nat
    BY <1>0, FrameTimes
  <2>4. InPart(Part(K), Time(i))' <=>
          /\ LastKeyframe <= Time(i)
          /\ \/ Time(i) - LastKeyframe < PartLength(r)
             \/ space = 1 /\ Time(i) - LastKeyframe = PartLength(r)
    BY <2>1, <1>1, <1>7 DEF InPart, Open, Time, Frames
  <2>5. CASE space = 0
    BY <2>5, <2>2, <2>3, <2>4, <1>3 DEF PartLength
  <2>6. CASE space = 1 /\ r = 1
    <3>1. LastKeyframe = 0 /\ PartLength(r) = 0
      BY <2>6, <1>1, <1>2 DEF KeyframesInv, LastKeyframe, PartLength, PreviousTime, TypeOK
    <3>2. T <= Time(i)
      BY <2>6, <1>1, <1>3, <1>0, FrameTimes
    <3> QED
      BY <3>1, <3>2, <2>2, <2>3, <2>4, <1>3, <1>5
  <2>7. CASE space = 1 /\ r # 1
    <3>1. row \in DOMAIN Frames /\ r - 1 = row /\ Time(row) \in Nat
      BY <2>7, <1>1, <1>0, FrameTimes DEF TypeOK
    <3>2. Time(i) <= Time(row) <=> Time(i) < T
      <4>1. i <= row => Time(i) <= Time(row) /\ Time(i) < T
        BY <3>1, <1>1, <1>3, <2>3, <1>0, FrameTimes
      <4>2. i > row => Time(i) > Time(row) /\ Time(i) >= T
        BY <3>1, <1>1, <1>3, <2>3, <1>0, FrameTimes
      <4> QED
        BY <4>1, <4>2, <3>1, <2>3, <1>3, <1>0, FrameTimes
    <3>3. PartLength(r) = Time(row) - LastKeyframe
      BY <2>7, <3>1 DEF PartLength, PreviousTime
    <3> QED
      BY <2>7, <3>1, <3>2, <3>3, <2>2, <2>3, <2>4, <1>3
  <2> QED
    BY <2>5, <2>6, <2>7 DEF TypeOK
<1>14. SharesInv'
  <2>1. \A i \in DOMAIN Frames : \E k \in DOMAIN keyframes' : InShare(k, Time(i))'
    <3> SUFFICES ASSUME NEW i \in DOMAIN Frames
                 PROVE  \E k \in DOMAIN keyframes' : InShare(k, Time(i))'
      OBVIOUS
    <3>1. PICK k \in 1 .. K : InShare(k, Time(i))
      BY <1>2 DEF SharesInv
    <3>2. Time(i) \in Nat
      BY <1>0, FrameTimes
    <3>3. /\ keyframes[k] <= Time(i)
          /\ k < K => Time(i) < keyframes[k + 1]
      BY <3>1 DEF InShare
    <3>4. \A l \in 1 .. K + 1 :
            InShare(l, Time(i))' <=>
              /\ keyframes'[l] <= Time(i)
              /\ l < K + 1 => Time(i) < keyframes'[l + 1]
      BY <1>1, <1>8 DEF InShare, Time, Frames
    <3>5. CASE k < K
      <4>1. k + 1 \in 1 .. K /\ k \in 1 .. K + 1
        BY <3>5, <1>2
      <4>2. keyframes'[k] <= Time(i) /\ Time(i) < keyframes'[k + 1]
        BY <3>3, <3>5, <4>1, <1>8
      <4> QED
        BY <3>4, <4>1, <4>2, <1>8
    <3>6. CASE k = K /\ Time(i) < T
      <4>1. keyframes'[K] <= Time(i) /\ Time(i) < keyframes'[K + 1] /\ K \in 1 .. K + 1
        BY <3>3, <3>6, <1>2, <1>8
      <4> QED
        BY <3>4, <4>1, <1>8
    <3>7. CASE k = K /\ T <= Time(i)
      <4>1. keyframes'[K + 1] <= Time(i) /\ K + 1 \in 1 .. K + 1 /\ ~(K + 1 < K + 1)
        BY <3>7, <1>2, <1>8
      <4> QED
        BY <3>4, <4>1, <1>8
    <3> QED
      BY <3>2, <3>5, <3>6, <3>7, <1>2, <1>3
  <2>2. \A k \in 1 .. K - 1 :
          /\ diff'[k] \in Nat
          /\ \A i \in DOMAIN Frames :
               InPart(Part(k), Time(i))' <=> InShare(k, Time(i))'
    <3> SUFFICES ASSUME NEW k \in 1 .. K - 1
                 PROVE  /\ diff'[k] \in Nat
                        /\ \A i \in DOMAIN Frames :
                             InPart(Part(k), Time(i))' <=> InShare(k, Time(i))'
      OBVIOUS
    <3>1. Part(k)' = Part(k) /\ diff'[k] = diff[k]
      BY <1>2, <1>8, <1>9 DEF Part
    <3>2. \A i \in DOMAIN Frames : InPart(Part(k), Time(i))' <=> InPart(Part(k), Time(i))
      BY <3>1, <1>1, <1>1 DEF InPart, Time, Frames
    <3>3. \A i \in DOMAIN Frames : InShare(k, Time(i))' <=> InShare(k, Time(i))
      BY <1>2, <1>8, <1>1 DEF InShare, Time, Frames
    <3>4. k \in DOMAIN keyframes /\ k < K
      BY <1>2
    <3> QED
      BY <3>1, <3>2, <3>3, <3>4, <1>2 DEF SharesInv
  <2>3. \A k \in DOMAIN keyframes' : k < Len(keyframes') => k = K \/ k \in 1 .. K - 1
    BY <1>2, <1>8
  <2>4. diff'[Len(diff')] = (IF Len(diff') = 1 THEN 0 ELSE Open)
    BY <1>2, <1>9
  <2> QED
    BY <2>1, <2>2, <2>3, <2>4, <1>1, <1>7, <1>9, <1>13 DEF SharesInv, Time, Frames
<1>15. PartsInv' /\ SplitsAsFarm'
  BY <1>1, <1>2, <1>8 DEF PartsInv, SplitsAsFarm
<1> QED
  BY <1>10, <1>12, <1>14, <1>15

\* The other steps leave the lists of find_keyframes alone.
LEMMA ListsKept ==
  ASSUME IInv, UNCHANGED <<video, space, row, keyframes, diff>>
  PROVE  /\ SharesInv'
         /\ Len(keyframes') > 0 /\ keyframes'[1] = 0
         /\ \A j, k \in DOMAIN keyframes' : j < k => keyframes'[j] < keyframes'[k]
         /\ \A k \in DOMAIN keyframes' :
              keyframes'[k] = 0 \/ \E i \in 1 .. row' : keyframes'[k] = Time(i)'
<1>1. SharesInv'
  BY DEF IInv, SharesInv, InPart, InShare, Part, Frames, Time
<1> QED
  BY <1>1 DEF IInv, KeyframesInv, Frames, Time

\* The key frame marked "-1" is the last of several, so the split ends there.
LEMMA OpenIsLast ==
  ASSUME IInv, parts # <<>>
  PROVE  AtEnd <=> Len(parts) = Len(keyframes) /\ Len(keyframes) > 1
<1> DEFINE p == Len(parts)
<1>1. /\ p \in 1 .. Len(keyframes) /\ p \in DOMAIN parts
      /\ Len(keyframes) \in Nat /\ Len(diff) = Len(keyframes)
      /\ DOMAIN keyframes = 1 .. Len(keyframes)
  BY DEF IInv, TypeOK, PartsInv
<1>2. parts[p].t = diff[p]
  BY <1>1 DEF IInv, PartsInv, Part
<1>3. p < Len(keyframes) => diff[p] \in Nat
  BY <1>1 DEF IInv, SharesInv
<1>4. p = Len(keyframes) => diff[p] = (IF p = 1 THEN 0 ELSE Open)
  BY <1>1 DEF IInv, SharesInv
<1>5. AtEnd <=> diff[p] = Open
  BY <1>2 DEF AtEnd
<1>6. p < Len(keyframes) \/ p = Len(keyframes)
  BY <1>1
<1>7. CASE p < Len(keyframes)
  BY <1>1, <1>3, <1>5, <1>7 DEF Open
<1>8. CASE p = Len(keyframes)
  BY <1>1, <1>4, <1>5, <1>8 DEF Open
<1> QED
  BY <1>6, <1>7, <1>8

\* The inductive step, action by action.
LEMMA StepInv == IInv /\ [Next]_vars => IInv'
<1> SUFFICES ASSUME IInv, [Next]_vars PROVE IInv'
  OBVIOUS
<1>0. /\ IsVideo(video) /\ Len(keyframes) \in Nat \ {0} /\ Len(parts) \in Nat
      /\ slaves \in Nat
      /\ DOMAIN parts = 1 .. Len(parts) /\ DOMAIN keyframes = 1 .. Len(keyframes)
  BY MaxSlavesAssumption DEF IInv, TypeOK, KeyframesInv
<1>n. /\ Len(keyframes) \in Nat /\ Len(keyframes) > 0 /\ Len(parts) \in Nat
      /\ slaves \in Nat
  BY <1>0
<1>1. CASE Probe
  <2>1. TypeOK' /\ PartsInv' /\ SplitsAsFarm'
    BY <1>0, <1>1, MaxSlavesAssumption
    DEF Probe, IInv, TypeOK, PartsInv, KeyframesInv, SplitsAsFarm, PCs, Frames, IsVideo, Part
  <2>2. /\ keyframes' = keyframes /\ Len(keyframes) = 1 /\ LastKeyframe' = 0
        /\ parts' = <<>> /\ row' = row
    BY <1>1 DEF Probe, IInv, KeyframesInv, LastKeyframe
  <2>3. slaves' \in Nat /\ video.duration \in Nat
    BY <1>0, <1>1, MaxSlavesAssumption DEF Probe, IsVideo
  <2>4. (Len(keyframes') - 1) * video'.duration <= LastKeyframe' * slaves'
    BY <1>1, <2>2, <2>3 DEF Probe
  <2> QED
    BY <1>1, <2>1, <2>2, <2>3, <2>4, ListsKept DEF Probe, IInv, KeyframesInv
<1>2. CASE ScanRow
  BY <1>2, SkipRow, TakeRow DEF ScanRow
<1>3. CASE EndScan
  <2>1. TypeOK' /\ PartsInv' /\ SplitsAsFarm'
    BY <1>3 DEF EndScan, IInv, TypeOK, PartsInv, SplitsAsFarm, PCs, Frames, IsVideo, Part
  <2> QED
    BY <1>3, <2>1, ListsKept DEF EndScan, IInv, KeyframesInv, LastKeyframe
<1>4. CASE CountSlaves
  <2>1. TypeOK' /\ PartsInv' /\ SplitsAsFarm'
    BY <1>0, <1>4, MaxSlavesAssumption
    DEF CountSlaves, IInv, TypeOK, PartsInv, KeyframesInv, SplitsAsFarm, PCs, Frames, IsVideo, Part
  <2> QED
    BY <1>4, <2>1, ListsKept DEF CountSlaves, IInv, KeyframesInv
<1>5. CASE SubmitPart
  <2>1. /\ Len(parts') = Len(parts) + 1
        /\ DOMAIN parts' = 1 .. Len(parts) + 1
        /\ parts'[Len(parts) + 1] = Part(Len(parts) + 1)
        /\ \A j \in 1 .. Len(parts) : parts'[j] = parts[j]
    BY <1>0, <1>5 DEF SubmitPart, IInv, TypeOK
  <2>2. Part(Len(parts) + 1) \in [ss : Nat, t : Nat \cup {Open}]
    <3>1. Len(parts) + 1 \in 1 .. Len(keyframes)
      BY <1>0, <1>5 DEF SubmitPart
    <3>2. /\ keyframes[Len(parts) + 1] \in Nat
          /\ diff[Len(parts) + 1] \in Nat \cup {Open}
      BY <3>1, ElementOfSeq DEF IInv, TypeOK
    <3> QED
      BY <3>2 DEF Part
  <2>3. TypeOK'
    BY <1>5, <2>2 DEF SubmitPart, IInv, TypeOK, Frames, IsVideo
  <2>4. \A j \in DOMAIN parts' : parts'[j] = Part(j)'
    <3>1. \A j \in 1 .. Len(parts) + 1 : j \in 1 .. Len(parts) \/ j = Len(parts) + 1
      BY <1>0
    <3> QED
      BY <1>0, <1>5, <2>1, <3>1 DEF SubmitPart, IInv, PartsInv, Part
  <2>5. PartsInv' /\ SplitsAsFarm'
    BY <1>0, <1>5, <2>1, <2>4 DEF SubmitPart, MorePartsWanted, PartsInv, SplitsAsFarm
  <2> QED
    BY <1>5, <2>3, <2>5, ListsKept DEF SubmitPart, IInv, KeyframesInv
<1>6. CASE PastLastKeyframe
  <2>1. TypeOK' /\ PartsInv'
    BY <1>6 DEF PastLastKeyframe, IInv, TypeOK, PartsInv, PCs, Frames, IsVideo, Part
  <2>2. Len(keyframes) = 1 /\ slaves > 1
    <3>1. Len(parts) = Len(keyframes) /\ Len(parts) < slaves /\ ~AtEnd
      <4>1. Len(parts) >= Len(keyframes) /\ Len(parts) < slaves /\ ~AtEnd
        BY <1>6 DEF PastLastKeyframe, MorePartsWanted
      <4>2. Len(parts) <= Len(keyframes)
        BY DEF IInv, PartsInv
      <4> QED
        BY <1>n, <4>1, <4>2
    <3>2. parts # <<>>
      BY <1>0, <3>1
    <3> QED
      BY <1>0, <3>1, <3>2, OpenIsLast
  <2>3. SplitsAsFarm'
    BY <1>6, <2>2 DEF PastLastKeyframe, SplitsAsFarm
  <2> QED
    BY <1>6, <2>1, <2>3, ListsKept DEF PastLastKeyframe, IInv, KeyframesInv
<1>7. CASE EndSplit
  <2>1. TypeOK' /\ PartsInv'
    BY <1>7 DEF EndSplit, IInv, TypeOK, PartsInv, PCs, Frames, IsVideo, Part
  <2>2. Len(parts) <= Len(keyframes) /\ Len(parts) <= slaves
    BY DEF IInv, PartsInv
  <2>3. \/ Len(parts) = slaves
        \/ Len(parts) = Len(keyframes) /\ Len(keyframes) > 1
    <3>1. ~(Len(parts) < slaves) \/ AtEnd
      BY <1>7 DEF EndSplit, MorePartsWanted
    <3>2. AtEnd => Len(parts) = Len(keyframes) /\ Len(keyframes) > 1
      BY OpenIsLast DEF AtEnd
    <3> QED
      BY <1>n, <2>2, <3>1, <3>2
  <2>4. SplitsAsFarm'
    <3>1. ~(Len(keyframes) = 1 /\ slaves > 1)
      BY <1>n, <2>2, <2>3
    <3>2. Len(parts) = (IF slaves <= Len(keyframes) THEN slaves ELSE Len(keyframes))
      BY <1>n, <2>2, <2>3
    <3> QED
      BY <1>7, <3>1, <3>2 DEF EndSplit, SplitsAsFarm
  <2> QED
    BY <1>7, <2>1, <2>4, ListsKept DEF EndSplit, IInv, KeyframesInv
<1>8. CASE UNCHANGED vars
  <2>1. TypeOK' /\ PartsInv' /\ SplitsAsFarm'
    BY <1>8 DEF vars, IInv, TypeOK, PartsInv, SplitsAsFarm, Frames, IsVideo, Part
  <2> QED
    BY <1>8, <2>1, ListsKept DEF vars, IInv, KeyframesInv, LastKeyframe
<1> QED
  BY <1>1, <1>2, <1>3, <1>4, <1>5, <1>6, <1>7, <1>8 DEF Next

\* The inductive invariant holds in every reachable state: what find_keyframes
\* has chosen and what split_transcode_job has submitted fit together.
THEOREM SplitInvariant == Spec => []IInv
BY InitInv, StepInv, PTL DEF Spec

\* The lists of both loops have their types, one length for each key frame.
THEOREM SplitTypeCorrect == Spec => []TypeOK
<1>1. IInv => TypeOK
  BY DEF IInv
<1> QED
  BY <1>1, SplitInvariant, PTL

\* find_keyframes chooses at most as many key frames as it counted slaves, for
\* key frames that are a share apart fit into the duration no more often.
THEOREM KeyframesPerSlave == Spec => []AtMostOnePerSlave
<1>1. IInv => AtMostOnePerSlave
  <2> SUFFICES ASSUME IInv, pc \in {"scan", "count"}
               PROVE  Len(keyframes) <= slaves
    BY DEF AtMostOnePerSlave
  <2> DEFINE D == video.duration
  <2>1. /\ Len(keyframes) \in Nat \ {0} /\ slaves \in Nat \ {0} /\ D \in Nat
        /\ LastKeyframe \in Nat
        /\ (Len(keyframes) - 1) * D <= LastKeyframe * slaves
        /\ Len(keyframes) \in DOMAIN keyframes /\ 1 \in DOMAIN keyframes
    BY MaxSlavesAssumption DEF IInv, TypeOK, KeyframesInv, LastKeyframe, IsVideo
  <2>2. CASE Len(keyframes) = 1
    BY <2>1, <2>2
  <2>3. CASE Len(keyframes) # 1
    <3>1. LastKeyframe > 0
      <4>1. keyframes[1] = 0 /\ 1 < Len(keyframes)
        <5>1. Len(keyframes) \in Nat /\ Len(keyframes) # 0 /\ Len(keyframes) # 1
          BY <2>1, <2>3
        <5>2. 1 < Len(keyframes)
          <6>1. \A k \in Nat : k # 0 /\ k # 1 => 1 < k
            OBVIOUS
          <6> QED
            BY <5>1, <6>1
        <5>3. keyframes[1] = 0
          BY DEF IInv, KeyframesInv
        <5> QED
          BY <5>2, <5>3
      <4>2. keyframes[1] < keyframes[Len(keyframes)]
        BY <2>1, <4>1 DEF IInv, KeyframesInv
      <4> QED
        BY <2>1, <4>1, <4>2 DEF LastKeyframe
    <3>2. LastKeyframe < D
      <4>1. PICK i \in 1 .. row : LastKeyframe = Time(i)
        BY <2>1, <3>1 DEF IInv, KeyframesInv, LastKeyframe
      <4>2. i \in DOMAIN Frames
        BY <4>1 DEF IInv, TypeOK, IsVideo, Frames
      <4> QED
        BY <4>1, <4>2, FrameTimes DEF IInv, TypeOK
    <3>3. PICK e \in Nat : D = LastKeyframe + 1 + e
      <4>1. D - LastKeyframe - 1 \in Nat
        BY <2>1, <3>2
      <4>2. D = LastKeyframe + 1 + (D - LastKeyframe - 1)
        BY <2>1
      <4> QED
        BY <4>1, <4>2
    <3>4. slaves * D = LastKeyframe * slaves + slaves + e * slaves
      BY <2>1, <3>3
    <3>5. e * slaves >= 0 /\ LastKeyframe * slaves \in Int /\ e * slaves \in Int
      BY <2>1, <3>3
    <3>6. (Len(keyframes) - 1) * D < slaves * D
      <4>1. (Len(keyframes) - 1) * D \in Int
        BY <2>1
      <4> QED
        BY <2>1, <3>4, <3>5, <4>1
    <3>7. Len(keyframes) - 1 < slaves
      BY <2>1, <3>6, Cancel
    <3> QED
      BY <2>1, <3>7
  <2> QED
    BY <2>2, <2>3
<1> QED
  BY <1>1, SplitInvariant, PTL

\* The numbers of key frames and of parts are those the farm model assumes, and
\* the split fails only where the farm model says so.
THEOREM SplitAgreesWithFarm == Spec => []AgreesWithFarm
<1>1. IInv => SplitsAsFarm
  BY DEF IInv
<1>2. AtMostOnePerSlave /\ SplitsAsFarm => AgreesWithFarm
  BY DEF AgreesWithFarm
<1> QED
  BY <1>1, <1>2, SplitInvariant, KeyframesPerSlave, PTL

\* A part with a successor holds the frames of its share, no others, and the
\* open one those from its key frame on.
LEMMA PartHoldsShare ==
  ASSUME IInv, Len(keyframes) > 1,
         NEW j \in DOMAIN parts, NEW i \in DOMAIN Frames
  PROVE  InPart(parts[j], Time(i)) <=> InShare(j, Time(i))
<1>1. /\ parts[j] = Part(j) /\ j \in DOMAIN keyframes /\ j <= Len(keyframes)
      /\ Len(diff) = Len(keyframes)
  BY DEF IInv, TypeOK, PartsInv
<1>2. CASE j < Len(keyframes)
  BY <1>1, <1>2 DEF IInv, SharesInv
<1>3. CASE j = Len(keyframes)
  <2>1. diff[j] = Open
    BY <1>1, <1>3 DEF IInv, SharesInv
  <2> QED
    BY <1>1, <1>3, <2>1 DEF InPart, InShare, Part
<1> QED
  BY <1>1, <1>2, <1>3 DEF IInv, TypeOK

\* A frame is in one share.
LEMMA OneShare ==
  ASSUME IInv, NEW i \in DOMAIN Frames,
         NEW j \in DOMAIN keyframes, NEW k \in DOMAIN keyframes,
         InShare(j, Time(i)), InShare(k, Time(i))
  PROVE  j = k
<1>0. /\ Time(i) \in Nat /\ keyframes \in Seq(Nat)
      /\ DOMAIN keyframes = 1 .. Len(keyframes) /\ Len(keyframes) \in Nat
  BY FrameTimes DEF IInv, TypeOK
<1>1. \A l, m \in DOMAIN keyframes :
        l < m /\ InShare(l, Time(i)) /\ InShare(m, Time(i)) => FALSE
  <2> SUFFICES ASSUME NEW l \in DOMAIN keyframes, NEW m \in DOMAIN keyframes,
                      l < m, InShare(l, Time(i)), InShare(m, Time(i))
               PROVE  FALSE
    OBVIOUS
  <2>1. l + 1 \in DOMAIN keyframes /\ l < Len(keyframes)
    BY <1>0
  <2>2. Time(i) < keyframes[l + 1] /\ keyframes[m] <= Time(i)
    BY <2>1 DEF InShare
  <2>3. /\ keyframes[l + 1] \in Nat /\ keyframes[m] \in Nat
        /\ l + 1 = m \/ l + 1 < m
    BY <1>0, <2>1
  <2>4. keyframes[l + 1] <= keyframes[m]
    BY <2>1, <2>3 DEF IInv, KeyframesInv
  <2> QED
    BY <1>0, <2>2, <2>3, <2>4
<1> QED
  BY <1>0, <1>1

\* The merge repeats no frame: the parts of a split never overlap.
THEOREM PartsDisjoint == Spec => []NoFrameTwice
<1>1. IInv => NoFrameTwice
  <2> SUFFICES ASSUME IInv, NEW i \in DOMAIN Frames,
                      NEW j \in DOMAIN parts, NEW k \in DOMAIN parts,
                      InPart(parts[j], Time(i)), InPart(parts[k], Time(i))
               PROVE  j = k
    BY DEF NoFrameTwice
  <2>1. /\ Len(keyframes) \in Nat \ {0} /\ Len(parts) <= Len(keyframes)
        /\ DOMAIN parts = 1 .. Len(parts) /\ Len(parts) \in Nat
        /\ DOMAIN keyframes = 1 .. Len(keyframes)
    BY DEF IInv, TypeOK, KeyframesInv, PartsInv
  <2>2. CASE Len(keyframes) = 1
    BY <2>1, <2>2
  <2>3. CASE Len(keyframes) > 1
    <3>1. InShare(j, Time(i)) /\ InShare(k, Time(i))
      BY <2>3, PartHoldsShare
    <3> QED
      BY <2>1, <3>1, OneShare
  <2> QED
    BY <2>1, <2>2, <2>3
<1> QED
  BY <1>1, SplitInvariant, PTL

\* The merge misses no frame, when there is a second key frame and no slave
\* has gone since the key frames were counted.
THEOREM PartsCover == Spec => []EveryFrameKept
<1>1. IInv => EveryFrameKept
  <2> SUFFICES ASSUME IInv, pc = "done", Len(keyframes) > 1,
                      slaves >= Len(keyframes), NEW i \in DOMAIN Frames
               PROVE  \E j \in DOMAIN parts : InPart(parts[j], Time(i))
    BY DEF EveryFrameKept
  <2>1. DOMAIN parts = DOMAIN keyframes
    BY MaxSlavesAssumption DEF IInv, TypeOK, SplitsAsFarm
  <2>2. PICK k \in DOMAIN keyframes : InShare(k, Time(i))
    BY DEF IInv, SharesInv
  <2> QED
    BY <2>1, <2>2, PartHoldsShare
<1> QED
  BY <1>1, SplitInvariant, PTL

\* Fewer slaves than key frames at the split cost the end of the video, from a
\* key frame on, and nothing else.
THEOREM EndsAtKeyframe == Spec => []LostFromTheEndOnly
<1>1. IInv => LostFromTheEndOnly
  <2> SUFFICES ASSUME IInv, pc = "done", Len(keyframes) > 1, parts # <<>>, ~AtEnd,
                      NEW i \in DOMAIN Frames
               PROVE  (\E j \in DOMAIN parts : InPart(parts[j], Time(i)))
                        <=> Time(i) < keyframes[Len(parts) + 1]
    BY DEF LostFromTheEndOnly
  <2>1. /\ Len(keyframes) \in Nat /\ Len(parts) \in Nat /\ Len(parts) <= Len(keyframes)
        /\ DOMAIN parts = 1 .. Len(parts) /\ DOMAIN keyframes = 1 .. Len(keyframes)
        /\ Len(diff) = Len(keyframes)
        /\ keyframes \in Seq(Nat) /\ Time(i) \in Nat
    BY FrameTimes DEF IInv, TypeOK, PartsInv
  <2>0. Len(keyframes) \in Nat /\ Len(parts) \in Nat /\ Len(parts) <= Len(keyframes)
    BY <2>1
  <2>2. Len(parts) > 0
    <3>1. parts \in Seq([ss : Nat, t : Nat \cup {Open}])
      BY DEF IInv, TypeOK
    <3> QED
      BY <2>1, <3>1
  <2>3. Len(parts) < Len(keyframes)
    <3> SUFFICES ASSUME ~(Len(parts) < Len(keyframes)) PROVE FALSE
      OBVIOUS
    <3>0. Len(parts) = Len(keyframes)
      BY <2>0
    <3>1. Len(parts) \in DOMAIN parts
      BY <2>1, <2>2
    <3>2. parts[Len(parts)] = Part(Len(parts))
      BY <3>1 DEF IInv, PartsInv
    <3>3. diff[Len(diff)] = Open
      BY <2>1 DEF IInv, SharesInv
    <3>4. parts[Len(parts)].t = diff[Len(parts)]
      BY <3>2 DEF Part
    <3>5. parts[Len(parts)].t = Open
      BY <2>1, <3>0, <3>3, <3>4
    <3> QED
      BY <3>5 DEF AtEnd
  <2> DEFINE End == Len(parts) + 1
  <2>4. End \in DOMAIN keyframes /\ keyframes[End] \in Nat
    BY <2>1, <2>3
  <2>5. ASSUME NEW k \in DOMAIN keyframes
        PROVE  /\ keyframes[k] \in Nat
               /\ k <= End => keyframes[k] <= keyframes[End]
               /\ k > Len(parts) => keyframes[End] <= keyframes[k]
    <3>1. keyframes[k] \in Nat /\ k \in Nat /\ End \in Nat
      BY <2>1
    <3>2. /\ k < End => keyframes[k] < keyframes[End]
          /\ End < k => keyframes[End] < keyframes[k]
      BY <2>4 DEF IInv, KeyframesInv
    <3>3. k <= End => k < End \/ k = End
      BY <3>1
    <3>4. k > Len(parts) => End < k \/ k = End
      BY <2>0, <3>1
    <3>5. k <= End => keyframes[k] <= keyframes[End]
      BY <2>4, <3>1, <3>2, <3>3
    <3>6. k > Len(parts) => keyframes[End] <= keyframes[k]
      BY <2>4, <3>1, <3>2, <3>4
    <3> QED
      BY <3>1, <3>5, <3>6
  <2>6. ASSUME NEW j \in DOMAIN parts, InPart(parts[j], Time(i))
        PROVE  Time(i) < keyframes[End]
    <3>1. InShare(j, Time(i))
      BY <2>6, PartHoldsShare
    <3>2. /\ j \in DOMAIN keyframes /\ j < Len(keyframes)
          /\ j + 1 \in DOMAIN keyframes /\ j + 1 <= End
      BY <2>1, <2>3
    <3>3. Time(i) < keyframes[j + 1]
      BY <3>1, <3>2 DEF InShare
    <3>4. keyframes[j + 1] \in Nat /\ keyframes[j + 1] <= keyframes[End]
      BY <2>5, <3>2
    <3> QED
      BY <2>1, <2>4, <3>3, <3>4
  <2>7. ASSUME Time(i) < keyframes[End]
        PROVE  \E j \in DOMAIN parts : InPart(parts[j], Time(i))
    <3>1. PICK k \in DOMAIN keyframes : InShare(k, Time(i))
      BY DEF IInv, SharesInv
    <3>2. keyframes[k] <= Time(i)
      BY <3>1 DEF InShare
    <3>3. ~(k > Len(parts))
      <4>1. keyframes[k] \in Nat /\ (k > Len(parts) => keyframes[End] <= keyframes[k])
        BY <2>5
      <4> QED
        BY <2>1, <2>4, <2>7, <3>2, <4>1
    <3>4. k \in DOMAIN parts
      BY <2>1, <3>3
    <3> QED
      BY <3>1, <3>4, PartHoldsShare
  <2> QED
    BY <2>6, <2>7
<1> QED
  BY <1>1, SplitInvariant, PTL
=============================================================================
