---------------------------- MODULE KeyframeSplit ----------------------------
(***************************************************************************)
(* How a video is cut into parts: find_keyframes of fflock-slave.py picks  *)
(* the key frames at which parts may start, and later, with the number of  *)
(* slaves registered then, split_transcode_job of fflock-master.py submits *)
(* a transcode job for each part.                                          *)
(*                                                                         *)
(* Times are multiples of the microsecond ffprobe and "%f" print.          *)
(***************************************************************************)
EXTENDS Integers, Sequences, FiniteSets

CONSTANTS
  Videos,   \* [frames : Seq([time, key]), duration] records
  MaxSlaves \* bound: slaves registered at a time

ASSUME MaxSlavesAssumption == MaxSlaves \in Nat

\* What ffprobe and ffmpeg -i report of a video: frames in the order of their
\* times, which all lie within the duration.
IsVideo(v) ==
  /\ v.duration \in Nat
  /\ v.frames \in Seq([time : Nat, key : BOOLEAN])
  /\ \A i \in DOMAIN v.frames : v.frames[i].time < v.duration
  /\ \A i, j \in DOMAIN v.frames : i < j => v.frames[i].time < v.frames[j].time

ASSUME VideosAssumption == \A v \in Videos : IsVideo(v)

VARIABLES
  video,      \* the input of the transcode
  space,      \* frame_space: 1 for the encoder ffmbc, otherwise 0
  slaves,     \* number_of_registered_slaves when it was last called
  pc,         \* which loop is running: the one over rows, the one over parts
  row,        \* the rows of the ffprobe output that were read
  keyframes,  \* the times of the chosen key frames
  diff,       \* keyframe_diff: what to encode from each of them, Open for "-1"
  parts       \* the -ss and -t of the transcode jobs submitted

vars == <<video, space, slaves, pc, row, keyframes, diff, parts>>

Open == -1
PCs == {"probe", "scan", "count", "split", "done", "raised"}
Frames == video.frames

TypeOK ==
  /\ IsVideo(video)
  /\ space \in {0, 1}
  /\ slaves \in 0 .. MaxSlaves
  /\ pc \in PCs
  /\ row \in 0 .. Len(Frames)
  /\ keyframes \in Seq(Nat)
  /\ diff \in Seq(Nat \cup {Open})
  /\ Len(diff) = Len(keyframes)
  /\ parts \in Seq([ss : Nat, t : Nat \cup {Open}])

Init ==
  /\ video \in Videos
  /\ space \in {0, 1}
  /\ slaves = 0
  /\ pc = "probe"
  /\ row = 0
  /\ keyframes = <<0>>
  /\ diff = <<0>>
  /\ parts = <<>>

\* find_keyframes up to its loop: the duration is divided by the number of
\* registered slaves, which may be none any more
Probe ==
  /\ pc = "probe"
  /\ slaves' \in 0 .. MaxSlaves
  /\ pc' = IF slaves' = 0 THEN "raised" ELSE "scan"
  /\ UNCHANGED <<video, space, row, keyframes, diff, parts>>

LastKeyframe == keyframes[Len(keyframes)]
Time(r) == Frames[r].time

\* previousrow_time, which starts at 0
PreviousTime(r) == IF r = 1 THEN 0 ELSE Time(r - 1)

\* Mutant of StartsPart: key frames are measured from the start of the video.
StartsPartFromZero(r) ==
  Frames[r].key /\ Time(r) * slaves >= video.duration

\* a key frame at least duration_per_job after the one chosen before
StartsPart(r) ==
  /\ Frames[r].key
  /\ (Time(r) - LastKeyframe) * slaves >= video.duration

\* Mutant of PartLength: ffmbc and the others exchanged.
PartLengthSwapped(r) ==
  (IF space = 0 THEN PreviousTime(r) ELSE Time(r)) - LastKeyframe

\* Mutant of PartLength: the operands of the subtraction exchanged.
PartLengthReversed(r) ==
  LastKeyframe - (IF space = 1 THEN PreviousTime(r) ELSE Time(r))

\* keyframe_diff of the key frame before: up to this row, or for ffmbc up to
\* the row before it
PartLength(r) ==
  (IF space = 1 THEN PreviousTime(r) ELSE Time(r)) - LastKeyframe

ScanRow ==
  /\ pc = "scan"
  /\ row < Len(Frames)
  /\ row' = row + 1
  /\ IF StartsPart(row')
       THEN /\ keyframes' = Append(keyframes, Time(row'))
            /\ diff' = Append([diff EXCEPT ![Len(diff)] = PartLength(row')], Open)
       ELSE UNCHANGED <<keyframes, diff>>
  /\ UNCHANGED <<video, space, slaves, pc, parts>>

EndScan ==
  /\ pc = "scan"
  /\ row = Len(Frames)
  /\ pc' = "count"
  /\ UNCHANGED <<video, space, slaves, row, keyframes, diff, parts>>

\* split_transcode_job up to its loop, on the master, when the job with the
\* key frames is found finished: slaves have come and gone meanwhile
CountSlaves ==
  /\ pc = "count"
  /\ slaves' \in 0 .. MaxSlaves
  /\ pc' = "split"
  /\ UNCHANGED <<video, space, row, keyframes, diff, parts>>

\* end_of_keyframes == 1: the part just submitted was the open one
AtEnd == parts # <<>> /\ parts[Len(parts)].t = Open

MorePartsWanted == Len(parts) < slaves /\ ~AtEnd

\* Mutant of Part: the end of a part is passed for its length.
PartByEnd(k) ==
  [ss |-> keyframes[k],
   t |-> IF diff[k] = Open THEN Open ELSE keyframes[k] + diff[k]]

\* "-ss %f -y" for the key frame marked "-1", otherwise "-ss %f -t %f"
Part(k) == [ss |-> keyframes[k], t |-> diff[k]]

SubmitPart ==
  /\ pc = "split"
  /\ MorePartsWanted
  /\ Len(parts) < Len(keyframes)
  /\ parts' = Append(parts, Part(Len(parts) + 1))
  /\ UNCHANGED <<video, space, slaves, pc, row, keyframes, diff>>

\* keyframes_diff[keyframe_index] past the end of the list is an IndexError,
\* which ends the master
PastLastKeyframe ==
  /\ pc = "split"
  /\ MorePartsWanted
  /\ Len(parts) >= Len(keyframes)
  /\ pc' = "raised"
  /\ UNCHANGED <<video, space, slaves, row, keyframes, diff, parts>>

EndSplit ==
  /\ pc = "split"
  /\ ~MorePartsWanted
  /\ pc' = "done"
  /\ UNCHANGED <<video, space, slaves, row, keyframes, diff, parts>>

Next ==
  \/ Probe \/ ScanRow \/ EndScan
  \/ CountSlaves \/ SubmitPart \/ PastLastKeyframe \/ EndSplit

Spec == Init /\ [][Next]_vars

----------------------------------------------------------------------------
(* Properties. *)

\* The frames the encoder writes for a part: -t ends before that time, or, for
\* ffmbc, whose parts are measured to the last frame they have, with it.
InPart(p, time) ==
  /\ p.ss <= time
  /\ \/ p.t = Open
     \/ time - p.ss < p.t
     \/ space = 1 /\ time - p.ss = p.t

\* No frame is in two parts, at any moment of the split and whatever became of
\* the slaves: the merge concatenates the parts and would repeat it.
NoFrameTwice ==
  \A i \in DOMAIN Frames : \A j, k \in DOMAIN parts :
    InPart(parts[j], Time(i)) /\ InPart(parts[k], Time(i)) => j = k

\* Every frame is in a part when the split is through, provided the video has
\* a second key frame to start at and there are still as many slaves as key
\* frames were chosen.
EveryFrameKept ==
  pc = "done" /\ Len(keyframes) > 1 /\ slaves >= Len(keyframes) =>
    \A i \in DOMAIN Frames : \E j \in DOMAIN parts : InPart(parts[j], Time(i))

\* What fewer slaves cost: with no open part the video ends where the last part
\* does, and nothing before that is lost.
LostFromTheEndOnly ==
  pc = "done" /\ Len(keyframes) > 1 /\ parts # <<>> /\ ~AtEnd =>
    \A i \in DOMAIN Frames :
      (\E j \in DOMAIN parts : InPart(parts[j], Time(i)))
        <=> Time(i) < keyframes[Len(parts) + 1]

\* find_keyframes chooses at most a key frame for each slave it counted: the
\* chosen ones are a share of the duration apart.
AtMostOnePerSlave ==
  pc \in {"scan", "count"} => Len(keyframes) <= slaves

\* One part for each slave as long as there are key frames, and the list is
\* overrun only when there is no second key frame.
SplitsAsFarm ==
  LET n == slaves
      k == Len(keyframes)
  IN /\ pc = "done" => ~(k = 1 /\ n > 1) /\ Len(parts) = (IF n <= k THEN n ELSE k)
     /\ pc = "raised" => n = 0 \/ (k = 1 /\ n > 1)

\* What the farm model takes from here: FinishDetectFrames of module Slave lets
\* a detection find 1 to n key frames, Parts and PartsPlan of module Master say
\* how many parts are made of them, and when the master raises.
AgreesWithFarm == AtMostOnePerSlave /\ SplitsAsFarm

----------------------------------------------------------------------------
(* The inductive invariant behind the theorems of KeyframeSplitProofs. *)

\* The frames from key frame k up to the next one.
InShare(k, time) ==
  /\ keyframes[k] <= time
  /\ k < Len(keyframes) => time < keyframes[k + 1]

KeyframesInv ==
  /\ Len(keyframes) > 0
  /\ keyframes[1] = 0
  /\ \A j, k \in DOMAIN keyframes : j < k => keyframes[j] < keyframes[k]
  /\ \A k \in DOMAIN keyframes :
       keyframes[k] = 0 \/ \E i \in 1 .. row : keyframes[k] = Time(i)
  /\ pc = "probe" => row = 0 /\ Len(keyframes) = 1 /\ parts = <<>>
  /\ pc \in {"scan", "count"} =>
       /\ slaves > 0
       /\ parts = <<>>
       /\ (Len(keyframes) - 1) * video.duration <= LastKeyframe * slaves

\* Each frame has its share, and the length of a part is that of its share.
SharesInv ==
  /\ \A i \in DOMAIN Frames : \E k \in DOMAIN keyframes : InShare(k, Time(i))
  /\ diff[Len(diff)] = (IF Len(diff) = 1 THEN 0 ELSE Open)
  /\ \A k \in DOMAIN keyframes : k < Len(keyframes) =>
       /\ diff[k] \in Nat
       /\ \A i \in DOMAIN Frames : InPart(Part(k), Time(i)) <=> InShare(k, Time(i))

PartsInv ==
  /\ Len(parts) <= Len(keyframes)
  /\ Len(parts) <= slaves
  /\ \A j \in DOMAIN parts : parts[j] = Part(j)

IInv == TypeOK /\ KeyframesInv /\ SharesInv /\ PartsInv /\ SplitsAsFarm
=============================================================================
