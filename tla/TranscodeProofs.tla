--------------------------- MODULE TranscodeProofs ---------------------------
(***************************************************************************)
(* How the master works through a transcode, for every number of slaves,   *)
(* threads and requests: that a transcode is complete when it is finished, *)
(* that its files are removed last, and that the jobs which remove them    *)
(* are removed themselves.                                                 *)
(***************************************************************************)
EXTENDS HolderProofs

----------------------------------------------------------------------------
(* What the slaves and the storage server do to a transcode. *)

\* The history of runs grows with every step.
LEMMA NextGrows ==
  ASSUME IInv, [Next]_vars PROVE Done \subseteq Done'
BY NextIInv, DoneGrows

\* They run jobs and delete finished ones, but no detection; the State of a
\* transcode is the master's, its row goes when it is finished.
Passive ==
  /\ info' = info /\ Done \subseteq Done' /\ Present' \subseteq Present
  /\ \A m \in Masters \cap Present' : jobs'[m].state = jobs[m].state
  /\ \A i \in Present \ Present' :
       info[i].sub # "detect_frames" /\ (info[i].sub = "master" => Finished(i))

\* An UPDATE of one row that is no transcode is passive,
LEMMA PassiveUpdate ==
  ASSUME TableTypeOK, info' = info, Done \subseteq Done', NEW i,
         i \in Present => info[i].sub # "master",
         Present' = Present, \A j \in Present \ {i} : jobs'[j] = jobs[j]
  PROVE  Passive
BY DEF Passive, Masters

\* so is a DELETE of rows that are neither detections nor unfinished transcodes,
LEMMA PassiveDelete ==
  ASSUME TableTypeOK, info' = info, Done \subseteq Done', NEW D, jobs' = Without(D),
         \A i \in D \cap Present :
           info[i].sub # "detect_frames" /\ (info[i].sub = "master" => Finished(i))
  PROVE  Passive
<1>1. Present' = Present \ D /\ \A i \in Present' : jobs'[i] = jobs[i]
  BY DEF Without, Present
<1> QED
  BY <1>1 DEF Passive, Masters

\* and so is a step that leaves the table alone.
LEMMA PassiveSame ==
  ASSUME info' = info, jobs' = jobs, Done \subseteq Done' PROVE Passive
BY DEF Passive, Present

\* What the dependencies of a job taken on are.
LEMMA NeedsKinds ==
  ASSUME IInv, NEW i \in Admitted
  PROVE  /\ i \in Born /\ info[i].deps \subseteq Born
         /\ \A d \in info[i].deps : info[d].sub # "master"
<1>1. i \in Born
  BY DEF Admitted, IInv, SlaveInv, StorageInv, StorageTypeOK
<1>2. info[i].deps \subseteq 1 .. (i - 1) /\ Born = 1 .. Len(info) /\ Len(info) \in Nat
  BY <1>1 DEF IInv, TableInv, KindsOK, TableTypeOK, Born
<1> QED
  BY <1>1, <1>2 DEF IInv, TableInv, KindsOK

\* What a job taken on depends on is neither a transcode nor a detection.
LEMMA DependenciesKinds ==
  ASSUME IInv, CloseInv, NEW i \in Admitted
  PROVE  \A d \in info[i].deps : info[d].sub \notin {"master", "detect_frames"}
BY NeedsKinds DEF CloseInv

\* A slave.
LEMMA SlavePassive ==
  ASSUME IInv, AssignInv, CloseInv, Done \subseteq Done', NEW s \in Slaves,
         SlaveStep(s) \/ Heartbeat(s) \/ SlaveFault(s) \/ Silence(s)
  PROVE  Passive
<1>1. TableTypeOK
  BY DEF IInv, TableInv
<1>2. CASE RemoveDependencies(s) /\ jobs' # jobs
  <2>1. /\ spc[s] = "remove" /\ jobs' = Without(info[cur[s]].deps) /\ info' = info
    BY <1>2 DEF RemoveDependencies, RemoveDependencyJobs
  <2>2. cur[s] \in Admitted
    BY <2>1 DEF Admitted
  <2> QED
    BY <1>1, <2>1, <2>2, DependenciesKinds, PassiveDelete
<1>3. ASSUME spc[s] \in {"claim", "run"} PROVE info[cur[s]].sub # "master"
  <2>1. cur[s] \in Held(s)
    BY <1>3, HoldingsBorn DEF IInv, SlaveInv, Held
  <2> QED
    BY <2>1 DEF AssignInv, HeldFit, SlaveSubTypes
<1>4. CASE ClaimJob(s)
  <2>1. /\ spc[s] = "claim" /\ jobs' = WithStateOf(cur[s], s, 1) /\ info' = info
    BY <1>4 DEF ClaimJob
  <2>2. Present' = Present /\ \A j \in Present \ {cur[s]} : jobs'[j] = jobs[j]
    BY <2>1 DEF WithStateOf, Present
  <2> QED
    BY <1>1, <1>3, <2>1, <2>2, PassiveUpdate
<1>5. ASSUME NEW k, JobEnds(s, k), spc[s] = "run" PROVE Passive
  <2>1. /\ Present' = Present /\ \A j \in Present \ {cur[s]} : jobs'[j] = jobs[j]
        /\ info' = info
    BY <1>5 DEF JobEnds, Present
  <2> QED
    BY <1>1, <1>3, <1>5, <2>1, PassiveUpdate
<1>6. CASE \/ RegisterSlave(s) \/ MountStorage(s) \/ FetchDbJobs(s)
           \/ CheckDependencies(s) \/ SkipJob(s) \/ RunRaises(s)
           \/ Heartbeat(s) \/ SlaveFault(s) \/ Silence(s)
           \/ (RemoveDependencies(s) /\ jobs' = jobs)
  <2>1. info' = info /\ jobs' = jobs
    BY <1>6 DEF RegisterSlave, MountStorage, FetchDbJobs, CheckDependencies,
                SkipJob, RunRaises, Heartbeat, SlaveFault, ExitSlave,
                CrashSlave, Silence, RemoveDependencies, tableVars
  <2> QED
    BY <2>1, PassiveSame
<1> QED
  BY <1>2, <1>4, <1>5, <1>6 DEF SlaveStep, FinishJob, FinishDetectFrames

\* The storage server, but for check_xml_submits.
LEMMA StoragePassive ==
  ASSUME IInv, AssignInv, CloseInv, Done \subseteq Done', StorageNext,
         ~\E r \in Requests : SubmitXml(r)
  PROVE  Passive
<1>1. TableTypeOK
  BY DEF IInv, TableInv
<1>2. info' = info
  BY <1>1, StorageRows DEF StorageNext
<1>3. CASE RemoveStorageDependencies /\ jobs' # jobs
  <2>1. tpc = "remove" /\ jobs' = Without(info[tcur].deps)
    BY <1>3 DEF RemoveStorageDependencies, RemoveDependencyJobs
  <2>2. tcur \in Admitted
    BY <2>1 DEF Admitted
  <2> QED
    BY <1>1, <1>2, <2>1, <2>2, DependenciesKinds, PassiveDelete
<1>4. ASSUME NEW t \in Threads, DeleteMasterJob(t) PROVE Passive
  <2>1. jobs' = Without({MasterOf(t)}) /\ task[t].pc = "master"
    BY <1>4 DEF DeleteMasterJob
  <2>2. task[t].job \in Born /\ info[task[t].job].sub = "cleanup"
    BY <2>1 DEF IInv, StorageInv
  <2>3. info[MasterOf(t)].sub = "master"
    BY <2>2 DEF IInv, TableInv, KindsOK, MasterOf
  <2>4. Finished(MasterOf(t))
    BY <2>2 DEF CloseInv, Cleanups, MasterOf
  <2> QED
    BY <1>1, <1>2, <2>1, <2>3, <2>4, PassiveDelete
<1>5. ASSUME NEW t \in Threads, DeleteCleanupJob(t) PROVE Passive
  <2>1. jobs' = Without({task[t].job}) /\ task[t].pc = "row"
    BY <1>5 DEF DeleteCleanupJob
  <2>2. info[task[t].job].sub = "cleanup"
    BY <2>1 DEF IInv, StorageInv
  <2> QED
    BY <1>1, <1>2, <2>1, <2>2, PassiveDelete
<1>6. ASSUME NEW i \in InHand, NEW st, jobs' = WithStateOf(i, StorageServer, st)
      PROVE  Passive
  <2>1. Present' = Present /\ \A j \in Present \ {i} : jobs'[j] = jobs[j]
    BY <1>6 DEF WithStateOf, Present
  <2>2. info[i].sub # "master"
    BY DEF AssignInv, PoolFit, StorageSubTypes
  <2> QED
    BY <1>1, <1>2, <2>1, <2>2, PassiveUpdate
<1>7. ASSUME NEW t \in Threads, TakeTask(t) PROVE Passive
  <2>1. queue # <<>> /\ jobs' = WithStateOf(Head(queue), StorageServer, 1)
        /\ queue \in Seq(Born)
    BY <1>7 DEF TakeTask, IInv, StorageInv, StorageTypeOK
  <2>2. Head(queue) \in Queued
    BY <2>1 DEF Queued
  <2> QED
    BY <1>6, <2>1, <2>2 DEF InHand
<1>8. ASSUME NEW t \in Threads, FinishTask(t) PROVE Passive
  <2>1. jobs' = WithStateOf(task[t].job, StorageServer, 2) /\ task[t].pc # "idle"
    BY <1>8 DEF FinishTask
  <2> QED
    BY <1>6, <2>1 DEF InHand, Tasks
<1>9. ASSUME NEW t \in Threads, TaskRaises(t) \/ RemoveSource(t) \/ RemoveIntermediates(t)
      PROVE  Passive
  BY <1>2, <1>9, PassiveSame DEF TaskRaises, RemoveSource, RemoveIntermediates, tableVars
<1>10. CASE \/ RegisterStorage \/ FetchStorageJobs \/ CheckStorageDependencies
            \/ AddTask \/ CrashStorage \/ SilenceStorage
            \/ (RemoveStorageDependencies /\ jobs' = jobs)
  <2>1. jobs' = jobs
    BY <1>10 DEF RegisterStorage, FetchStorageJobs, CheckStorageDependencies, AddTask,
                 CrashStorage, SilenceStorage, tableVars
  <2> QED
    BY <1>2, <2>1, PassiveSame
<1> QED
  BY <1>3, <1>4, <1>5, <1>7, <1>8, <1>9, <1>10 DEF StorageNext, StorageLoop, ThreadStep
----------------------------------------------------------------------------
(* The plan of the master. *)

TranscodePlans == StartPlans \cup {MarkedPlan, CleanupPlan} \cup ClosePlans
DetectionPlans == {DeletePlan} \cup DeletedPlans \cup PartPlans

\* The first instruction tells where in the plan for a transcode the master is,
LEMMA TranscodePlanAt ==
  ASSUME NEW p \in TranscodePlans
  PROVE  /\ p # <<>>
         /\ \/ /\ Head(p) = "download" /\ p = <<"download", "mark", "detect_frames">>
               /\ Tail(p) = <<"mark", "detect_frames">>
            \/ /\ Head(p) = "mark" /\ p = <<"mark", "detect_frames">>
               /\ Tail(p) = MarkedPlan
            \/ /\ Head(p) = "detect_frames" /\ p = MarkedPlan /\ Tail(p) = <<>>
            \/ /\ Head(p) = "purge" /\ p = <<"purge", "finish">> /\ Tail(p) = <<"finish">>
            \/ /\ Head(p) = "finish" /\ p = <<"finish">> /\ Tail(p) = <<>>
            \/ /\ Head(p) = "cleanup" /\ p = CleanupPlan /\ Tail(p) = <<>>
<1> USE DEF MarkedPlan, CleanupPlan
<1>1. CASE p = <<"download", "mark", "detect_frames">>
  BY <1>1
<1>2. CASE p = <<"mark", "detect_frames">>
  BY <1>2
<1>3. CASE p = <<"detect_frames">>
  BY <1>3
<1>4. CASE p = <<"purge", "finish">>
  BY <1>4
<1>5. CASE p = <<"finish">>
  BY <1>5
<1>6. CASE p = <<"cleanup">>
  BY <1>6
<1> QED
  BY <1>1, <1>2, <1>3, <1>4, <1>5, <1>6 DEF TranscodePlans, StartPlans, ClosePlans

\* and in the plan for a detection.
LEMMA DetectionPlanAt ==
  ASSUME NEW p \in DetectionPlans
  PROVE  /\ p # <<>>
         /\ \/ /\ Head(p) = "delete" /\ p = DeletePlan
               /\ Tail(p) = <<"audio_demux", "split">>
            \/ /\ Head(p) = "audio_demux" /\ p = <<"audio_demux", "split">>
               /\ Tail(p) = <<"split">>
            \/ /\ Head(p) = "split" /\ p = <<"split">> /\ Tail(p) = <<>>
            \/ /\ Head(p) \in PartTypes \cup {"raise"} /\ p \in PartPlans
               /\ Tail(p) \in PartPlans \cup {<<>>}
<1> USE DEF DeletePlan
<1>1. CASE p = <<"delete", "audio_demux", "split">>
  BY <1>1
<1>2. CASE p = <<"audio_demux", "split">>
  BY <1>2
<1>3. CASE p = <<"split">>
  BY <1>3
<1>4. CASE p \in PartPlans
  BY <1>4 DEF PartPlans
<1> QED
  BY <1>1, <1>2, <1>3, <1>4 DEF DetectionPlans, DeletedPlans

\* The plans for a transcode differ from each other and from those for a detection.
LEMMA PlansDiffer ==
  /\ StartPlans \cap ({MarkedPlan, CleanupPlan} \cup ClosePlans \cup DetectionPlans) = {}
  /\ MarkedPlan # CleanupPlan /\ MarkedPlan \notin ClosePlans \cup DetectionPlans
  /\ CleanupPlan \notin ClosePlans \cup DetectionPlans
  /\ ClosePlans \cap DetectionPlans = {}
  /\ DeletePlan \notin DeletedPlans \cup PartPlans /\ DeletedPlans \cap PartPlans = {}
  /\ <<>> \notin TranscodePlans \cup DetectionPlans
  /\ StartPlans = {<<"download", "mark", "detect_frames">>, <<"mark", "detect_frames">>}
  /\ <<"download", "mark", "detect_frames">> # <<"mark", "detect_frames">>
  /\ ClosePlans = {<<"purge", "finish">>, <<"finish">>}
  /\ DeletedPlans = {<<"audio_demux", "split">>, <<"split">>}
<1>1. \A p \in TranscodePlans :
        p # <<>> /\ Head(p) \in {"download", "mark", "detect_frames", "purge", "finish", "cleanup"}
  BY TranscodePlanAt
<1>2. \A p \in DetectionPlans :
        p # <<>> /\ Head(p) \in {"delete", "audio_demux", "split", "raise"} \cup PartTypes
  BY DetectionPlanAt
<1>3. \A p \in PartPlans : Head(p) \in PartTypes \cup {"raise"}
  BY DEF PartPlans
<1>4. /\ StartPlans \subseteq TranscodePlans /\ ClosePlans \subseteq TranscodePlans
      /\ {MarkedPlan, CleanupPlan} \subseteq TranscodePlans
  BY DEF TranscodePlans
<1>5. TranscodePlans \cap DetectionPlans = {}
  BY <1>1, <1>2 DEF PartTypes
<1>6. /\ \A p \in StartPlans : Head(p) \in {"download", "mark"}
      /\ Head(MarkedPlan) = "detect_frames" /\ Head(CleanupPlan) = "cleanup"
      /\ \A p \in ClosePlans : Head(p) \in {"purge", "finish"}
      /\ Head(DeletePlan) = "delete"
      /\ \A p \in DeletedPlans : Head(p) \in {"audio_demux", "split"}
  BY DEF StartPlans, MarkedPlan, CleanupPlan, ClosePlans, DeletePlan, DeletedPlans
<1>7. <<"download", "mark", "detect_frames">> # <<"mark", "detect_frames">>
  OBVIOUS
<1>8. /\ StartPlans \cap ({MarkedPlan, CleanupPlan} \cup ClosePlans) = {}
      /\ MarkedPlan # CleanupPlan /\ MarkedPlan \notin ClosePlans
      /\ CleanupPlan \notin ClosePlans
  BY <1>6
<1>9. DeletePlan \notin DeletedPlans \cup PartPlans /\ DeletedPlans \cap PartPlans = {}
  BY <1>3, <1>6 DEF PartTypes
<1> QED
  BY <1>1, <1>2, <1>4, <1>5, <1>7, <1>8, <1>9 DEF StartPlans, ClosePlans, DeletedPlans

\* PlanInv in terms of the two kinds of plans.
LEMMA PlanOfRow ==
  ASSUME PlanInv, plan # <<>>
  PROVE  /\ mpc = "rows" /\ mcur.job \in Born
         /\ \A row \in mrows : row.job # mcur.job
         /\ \/ info[mcur.job].sub = "master" /\ plan \in TranscodePlans
            \/ info[mcur.job].sub = "detect_frames" /\ plan \in DetectionPlans
BY DEF PlanInv, TranscodePlans, DetectionPlans

\* The plan is kept by a step that is not the master's.
LEMMA PlanKept ==
  ASSUME IInv, PlanInv, UNCHANGED masterVars,
         Born \subseteq Born', \A i \in Born : info'[i] = info[i]
  PROVE  PlanInv'
<1>1. /\ mpc' = mpc /\ plan' = plan /\ mrows' = mrows /\ mcur' = mcur
  BY DEF masterVars
<1>2. CASE plan = <<>>
  BY <1>1, <1>2 DEF PlanInv
<1>3. CASE plan # <<>>
  <2>1. mcur.job \in Born /\ info'[mcur.job] = info[mcur.job]
    BY <1>3 DEF PlanInv
  <2> QED
    BY <1>1, <1>3, <2>1 DEF PlanInv
<1> QED
  BY <1>2, <1>3

\* And by one that goes on with it.
LEMMA PlanGoesOn ==
  ASSUME IInv, PlanInv, plan # <<>>, plan' = Tail(plan), mcur' = mcur, mrows' = mrows,
         mpc' = mpc, Born \subseteq Born', \A i \in Born : info'[i] = info[i]
  PROVE  PlanInv'
<1>1. /\ mpc = "rows" /\ mcur.job \in Born
      /\ \A row \in mrows : row.job # mcur.job
      /\ \/ info[mcur.job].sub = "master" /\ plan \in TranscodePlans
         \/ info[mcur.job].sub = "detect_frames" /\ plan \in DetectionPlans
  BY PlanOfRow
<1>2. \/ Tail(plan) = <<>>
      \/ info[mcur.job].sub = "master" /\ Tail(plan) \in TranscodePlans
      \/ info[mcur.job].sub = "detect_frames" /\ Tail(plan) \in DetectionPlans
  <2>1. CASE plan \in TranscodePlans /\ info[mcur.job].sub = "master"
    BY <2>1, TranscodePlanAt DEF TranscodePlans, StartPlans, ClosePlans
  <2>2. CASE plan \in DetectionPlans /\ info[mcur.job].sub = "detect_frames"
    BY <2>2, DetectionPlanAt DEF DetectionPlans, DeletedPlans
  <2> QED
    BY <1>1, <2>1, <2>2
<1>3. info'[mcur.job] = info[mcur.job] /\ mcur.job \in Born'
  BY <1>1
<1> QED
  BY <1>1, <1>2, <1>3 DEF PlanInv, TranscodePlans, DetectionPlans

\* The elements of a concatenation.
LEMMA Concatenation ==
  ASSUME NEW S, NEW p \in Seq(S), NEW q \in Seq(S), NEW c, c = p \o q
  PROVE  /\ c \in Seq(S) /\ Len(c) = Len(p) + Len(q)
         /\ \A j \in 1 .. Len(p) : c[j] = p[j]
         /\ \A j \in 1 .. Len(q) : c[Len(p) + j] = q[j]
         /\ \A j \in 1 .. Len(c) : j > Len(p) =>
              j - Len(p) \in 1 .. Len(q) /\ c[j] = q[j - Len(p)]
<1>1. Len(p) \in Nat /\ Len(q) \in Nat
  OBVIOUS
<1>2. c \in Seq(S) /\ Len(c) = Len(p) + Len(q)
  OBVIOUS
<1>3. \A j \in 1 .. Len(p) : c[j] = p[j]
  OBVIOUS
<1>4. ASSUME NEW j \in 1 .. Len(c), j > Len(p)
      PROVE  j - Len(p) \in 1 .. Len(q) /\ c[j] = q[j - Len(p)]
  BY <1>1, <1>2, <1>4
<1>5. ASSUME NEW j \in 1 .. Len(q) PROVE c[Len(p) + j] = q[j]
  <2>1. Len(p) + j \in 1 .. Len(c) /\ Len(p) + j > Len(p) /\ (Len(p) + j) - Len(p) = j
    BY <1>1, <1>2
  <2> QED
    BY <1>4, <2>1
<1> QED
  BY <1>2, <1>3, <1>4, <1>5

\* What the rest of a plan holds of one instruction.
LeftIn(p, sub) == {j \in DOMAIN p : p[j] = sub}

\* The whole set of parts a plan for the request r has to promise.
Complete(p, r) ==
  /\ LeftIn(p, "av_mux") # {}
  /\ r \in Confirm => Cardinality(LeftIn(p, "count_frames")) = 2
  /\ r \in Upload => LeftIn(p, "upload") # {}

\* The loop over the parts is followed by the merge, the mux, two frame counts
\* and the upload as asked for, or by an exception.
LEMMA PartsPlanPromises ==
  ASSUME NEW n \in Nat, NEW k \in Nat, NEW r
  PROVE  /\ PartsPlan(n, k, r) \in PartPlans
         /\ \/ LeftIn(PartsPlan(n, k, r), "raise") # {}
            \/ Complete(PartsPlan(n, k, r), r)
<1> DEFINE L == Parts(n, k)
           parts == [j \in 1 .. L |-> "transcode"]
           S == PartTypes \cup {"raise"}
<1>1. L \in Nat
  BY DEF Parts
<1> HIDE DEF L
<1>2. parts \in Seq(S) /\ Len(parts) = L /\ \A j \in 1 .. L : parts[j] = "transcode"
  BY <1>1 DEF PartTypes
<1>3. ASSUME NEW rest \in Seq(S), rest # <<>>
      PROVE  /\ parts \o rest \in PartPlans
             /\ DOMAIN (parts \o rest) = 1 .. (L + Len(rest))
             /\ \A j \in 1 .. (L + Len(rest)) :
                  (parts \o rest)[j] = IF j <= L THEN "transcode" ELSE rest[j - L]
  <2> HIDE DEF S, parts
  <2>1. parts \o rest \in Seq(S)
    BY <1>2, <1>3
  <2>2. Len(parts \o rest) = L + Len(rest) /\ Len(rest) \in Nat /\ Len(rest) # 0
    BY <1>2, <1>3
  <2>3. parts \o rest # <<>>
    BY <1>1, <2>1, <2>2
  <2>4. \A j \in 1 .. (L + Len(rest)) :
                  (parts \o rest)[j] = IF j <= L THEN "transcode" ELSE rest[j - L]
    BY <1>1, <1>2, <1>3, <2>2
  <2>5. DOMAIN (parts \o rest) = 1 .. (L + Len(rest))
    BY <2>1, <2>2
  <2> QED
    BY <2>1, <2>3, <2>4, <2>5 DEF PartPlans, S
<1>4. ASSUME NEW rest \in Seq(S), NEW j \in 1 .. Len(rest)
      PROVE  j + L \in LeftIn(parts \o rest, rest[j])
  <2>1. rest # <<>> /\ Len(rest) \in Nat /\ j \in Nat /\ j >= 1 /\ j <= Len(rest)
    BY <1>4
  <2>2. j + L \in 1 .. (L + Len(rest)) /\ ~(j + L <= L) /\ (j + L) - L = j
    BY <1>1, <2>1
  <2> HIDE DEF parts, S
  <2> QED
    BY <1>3, <1>4, <2>1, <2>2 DEF LeftIn
<1>5. ASSUME NEW rest \in Seq(S), Len(rest) \in Nat, NEW i \in LeftIn(parts \o rest, "count_frames"),
             rest # <<>>
      PROVE  i - L \in 1 .. Len(rest) /\ rest[i - L] = "count_frames" /\ i \in Nat
  <2>1. i \in 1 .. (L + Len(rest)) /\ (parts \o rest)[i] = "count_frames"
    BY <1>3, <1>5 DEF LeftIn
  <2>2. ~(i <= L) /\ rest[i - L] = "count_frames"
    BY <1>3, <1>5, <2>1
  <2> QED
    BY <1>1, <1>5, <2>1, <2>2
<1>6. CASE k = 1 /\ n > 1
  <2> DEFINE rest == <<"raise">>
  <2>1. PartsPlan(n, k, r) = parts \o rest
    BY <1>6 DEF PartsPlan, L
  <2>2. rest \in Seq(S) /\ rest # <<>> /\ Len(rest) = 1 /\ rest[1] = "raise"
    OBVIOUS
  <2> HIDE DEF rest, parts, S
  <2>3. parts \o rest \in PartPlans
    BY <1>3, <2>2
  <2>4. 1 + L \in LeftIn(parts \o rest, rest[1])
    BY <1>4, <2>2
  <2> QED
    BY <2>1, <2>2, <2>3, <2>4
<1>7. CASE ~(k = 1 /\ n > 1)
  <2> DEFINE counts == IF r \in Confirm THEN <<"count_frames", "count_frames">> ELSE <<>>
             uploads == IF r \in Upload THEN <<"upload">> ELSE <<>>
             rest == <<"write_mergefile", "video_merge", "av_mux">> \o counts \o uploads
  <2>1. PartsPlan(n, k, r) = parts \o rest
    BY <1>7 DEF PartsPlan, L
  <2>2. /\ rest \in Seq(S) /\ Len(rest) \in Nat /\ Len(rest) >= 3 /\ rest[3] = "av_mux"
        /\ r \in Confirm =>
             /\ Len(rest) >= 5 /\ rest[4] = "count_frames" /\ rest[5] = "count_frames"
             /\ \A j \in 1 .. Len(rest) : rest[j] = "count_frames" => j \in {4, 5}
        /\ r \in Upload => \E j \in 1 .. Len(rest) : rest[j] = "upload"
    <3> DEFINE merges == <<"write_mergefile", "video_merge", "av_mux">>
               muxed == merges \o counts
    <3>1. /\ merges \in Seq(S) /\ Len(merges) = 3 /\ merges[3] = "av_mux"
          /\ \A j \in 1 .. 3 : merges[j] # "count_frames"
      BY DEF PartTypes
    <3>2. /\ counts \in Seq(S) /\ Len(counts) = IF r \in Confirm THEN 2 ELSE 0
          /\ r \in Confirm => counts[1] = "count_frames" /\ counts[2] = "count_frames"
      <4>1. CASE r \in Confirm
        <5>1. counts = <<"count_frames", "count_frames">>
          BY <4>1
        <5> QED
          BY <4>1, <5>1 DEF PartTypes
      <4>2. CASE r \notin Confirm
        <5>1. counts = <<>>
          BY <4>2
        <5> QED
          BY <4>2, <5>1 DEF PartTypes
      <4> QED
        BY <4>1, <4>2
    <3>3. /\ uploads \in Seq(S) /\ Len(uploads) = IF r \in Upload THEN 1 ELSE 0
          /\ \A j \in 1 .. Len(uploads) : uploads[j] = "upload"
      <4>1. CASE r \in Upload
        <5>1. uploads = <<"upload">>
          BY <4>1
        <5> QED
          BY <4>1, <5>1 DEF PartTypes
      <4>2. CASE r \notin Upload
        <5>1. uploads = <<>>
          BY <4>2
        <5> QED
          BY <4>2, <5>1 DEF PartTypes
      <4> QED
        BY <4>1, <4>2
    <3>4. rest = muxed \o uploads /\ muxed = merges \o counts
      OBVIOUS
    <3> HIDE DEF merges, counts, uploads, rest, S, parts, muxed
    <3>5. /\ muxed \in Seq(S) /\ Len(muxed) = 3 + Len(counts)
          /\ \A j \in 1 .. 3 : muxed[j] = merges[j]
          /\ \A j \in 1 .. Len(counts) : muxed[3 + j] = counts[j]
      <4>1. merges \in Seq(S) /\ counts \in Seq(S) /\ muxed = merges \o counts
        BY <3>1, <3>2, <3>4
      <4>2. muxed \in Seq(S) /\ Len(muxed) = Len(merges) + Len(counts)
        BY <4>1, Concatenation
      <4>3. \A j \in 1 .. Len(merges) : muxed[j] = merges[j]
        BY <4>1, Concatenation
      <4>4. \A j \in 1 .. Len(counts) : muxed[Len(merges) + j] = counts[j]
        BY <4>1, Concatenation
      <4> QED
        BY <3>1, <4>2, <4>3, <4>4
    <3>6. /\ rest \in Seq(S) /\ Len(rest) = Len(muxed) + Len(uploads)
          /\ \A j \in 1 .. Len(muxed) : rest[j] = muxed[j]
          /\ \A j \in 1 .. Len(uploads) : rest[Len(muxed) + j] = uploads[j]
          /\ \A j \in 1 .. Len(rest) : j > Len(muxed) =>
               j - Len(muxed) \in 1 .. Len(uploads)
               /\ rest[j] = uploads[j - Len(muxed)]
      <4>1. muxed \in Seq(S) /\ uploads \in Seq(S) /\ rest = muxed \o uploads
        BY <3>3, <3>4, <3>5
      <4>2. rest \in Seq(S) /\ Len(rest) = Len(muxed) + Len(uploads)
        BY <4>1, Concatenation
      <4>3. \A j \in 1 .. Len(muxed) : rest[j] = muxed[j]
        BY <4>1, Concatenation
      <4>4. \A j \in 1 .. Len(uploads) : rest[Len(muxed) + j] = uploads[j]
        BY <4>1, Concatenation
      <4>5. \A j \in 1 .. Len(rest) : j > Len(muxed) =>
               j - Len(muxed) \in 1 .. Len(uploads)
               /\ rest[j] = uploads[j - Len(muxed)]
        BY <4>1, Concatenation
      <4> QED
        BY <4>2, <4>3, <4>4, <4>5
    <3>7. Len(counts) \in Nat /\ Len(uploads) \in Nat
      BY <3>2, <3>3
    <3>8. rest[3] = "av_mux" /\ Len(rest) \in Nat /\ Len(rest) >= 3
      <4>1. 3 \in 1 .. Len(muxed) /\ 3 \in 1 .. 3
        BY <3>5, <3>7
      <4> QED
        BY <3>1, <3>5, <3>6, <3>7, <4>1
    <3>9. ASSUME r \in Confirm
          PROVE  /\ Len(rest) >= 5 /\ rest[4] = "count_frames" /\ rest[5] = "count_frames"
                 /\ \A j \in 1 .. Len(rest) : rest[j] = "count_frames" => j \in {4, 5}
      <4>1. Len(counts) = 2 /\ Len(muxed) = 5
        BY <3>2, <3>5, <3>9
      <4>2. muxed[4] = counts[1] /\ muxed[5] = counts[2]
        <5>1. 1 \in 1 .. Len(counts) /\ 2 \in 1 .. Len(counts) /\ 3 + 1 = 4 /\ 3 + 2 = 5
          BY <4>1
        <5> QED
          BY <3>5, <5>1
      <4>3. 4 \in 1 .. Len(muxed) /\ 5 \in 1 .. Len(muxed) /\ Len(rest) >= 5
        BY <3>6, <3>7, <4>1
      <4>4. rest[4] = "count_frames" /\ rest[5] = "count_frames"
        BY <3>2, <3>6, <3>9, <4>2, <4>3
      <4>5. ASSUME NEW j \in 1 .. Len(rest), rest[j] = "count_frames" PROVE j \in {4, 5}
        <5>1. CASE j \in 1 .. 3
          <6>1. j \in 1 .. Len(muxed)
            BY <4>1, <5>1
          <6> QED
            BY <3>1, <3>5, <3>6, <4>5, <5>1, <6>1
        <5>2. CASE j > Len(muxed)
          BY <3>3, <3>6, <4>5, <5>2
        <5> QED
          BY <3>8, <4>1, <5>1, <5>2
      <4> QED
        BY <4>3, <4>4, <4>5
    <3>10. ASSUME r \in Upload PROVE \E j \in 1 .. Len(rest) : rest[j] = "upload"
      <4>1. Len(uploads) = 1 /\ 1 \in 1 .. Len(uploads) /\ Len(muxed) + 1 \in 1 .. Len(rest)
        BY <3>3, <3>5, <3>6, <3>7, <3>10
      <4>2. rest[Len(muxed) + 1] = "upload"
        BY <3>3, <3>6, <4>1
      <4> QED
        BY <4>1, <4>2
    <3> QED
      BY <3>6, <3>8, <3>9, <3>10
  <2> HIDE DEF rest, counts, uploads, parts, S
  <2>3. rest # <<>>
    BY <2>2
  <2>4. parts \o rest \in PartPlans
    BY <1>3, <2>2, <2>3
  <2>5. LeftIn(parts \o rest, "av_mux") # {}
    <3>1. 3 \in 1 .. Len(rest)
      BY <2>2
    <3> QED
      BY <1>4, <2>2, <3>1
  <2>6. r \in Upload => LeftIn(parts \o rest, "upload") # {}
    BY <1>4, <2>2
  <2>7. ASSUME r \in Confirm
        PROVE  Cardinality(LeftIn(parts \o rest, "count_frames")) = 2
    <3>1. 4 \in 1 .. Len(rest) /\ 5 \in 1 .. Len(rest)
      BY <2>2, <2>7
    <3>2. {4 + L, 5 + L} \subseteq LeftIn(parts \o rest, "count_frames")
      BY <1>4, <2>2, <2>7, <3>1
    <3>3. ASSUME NEW i \in LeftIn(parts \o rest, "count_frames")
          PROVE  i \in {4 + L, 5 + L}
      <4>1. i - L \in 1 .. Len(rest) /\ rest[i - L] = "count_frames" /\ i \in Nat
        BY <1>5, <2>2, <2>3, <3>3
      <4>2. i - L \in {4, 5}
        BY <2>2, <2>7, <4>1
      <4> QED
        BY <1>1, <4>1, <4>2
    <3>4. LeftIn(parts \o rest, "count_frames") = {4 + L, 5 + L}
      BY <3>2, <3>3
    <3>5. 4 + L # 5 + L
      BY <1>1
    <3>6. Cardinality({4 + L}) = 1 /\ IsFiniteSet({4 + L})
      BY FS_Singleton
    <3>7. Cardinality({4 + L} \cup {5 + L}) = 2
      <4>1. 5 + L \notin {4 + L}
        BY <3>5
      <4>2. Cardinality({4 + L} \cup {5 + L}) = Cardinality({4 + L}) + 1
        BY <3>6, <4>1, FS_AddElement
      <4> QED
        BY <3>6, <4>2
    <3>8. {4 + L} \cup {5 + L} = {4 + L, 5 + L}
      OBVIOUS
    <3> QED
      BY <3>4, <3>7, <3>8
  <2> QED
    BY <2>1, <2>4, <2>5, <2>6, <2>7 DEF Complete
<1> QED
  BY <1>6, <1>7

\* What TakeRow sets out to do is one of the plans.
LEMMA PlanForKinds ==
  ASSUME IInv, NEW row \in mrows
  PROVE  /\ row.job \in Born
         /\ \/ PlanFor(row) = <<>>
            \/ info[row.job].sub = "master" /\ PlanFor(row) \in TranscodePlans \ {MarkedPlan}
            \/ info[row.job].sub = "detect_frames" /\ PlanFor(row) = DeletePlan
<1>1. row.job \in Born /\ info[row.job].sub \in {"master", "detect_frames"}
  BY DEF IInv, MasterInv, MasterTypeOK
<1>2. CASE info[row.job].sub = "detect_frames"
  BY <1>1, <1>2 DEF PlanFor, DeletePlan
<1>3. CASE info[row.job].sub # "detect_frames"
  <2>1. PlanFor(row) \in StartPlans \cup ClosePlans \cup {CleanupPlan, <<>>}
    BY <1>3 DEF PlanFor, StartPlans, ClosePlans, CleanupPlan
  <2> QED
    BY <1>1, <1>3, <2>1, PlansDiffer DEF TranscodePlans
<1> QED
  BY <1>2, <1>3

\* The instruction the master is at tells what it is in the middle of.
LEMMA AtPlan ==
  ASSUME PlanInv, NEW x, At(x)
  PROVE  /\ mpc = "rows" /\ plan # <<>> /\ mcur.job \in Born
         /\ \/ /\ info[mcur.job].sub = "master"
               /\ \/ /\ x = "download" /\ plan = <<"download", "mark", "detect_frames">>
                     /\ Tail(plan) = <<"mark", "detect_frames">>
                  \/ /\ x = "mark" /\ plan = <<"mark", "detect_frames">>
                     /\ Tail(plan) = MarkedPlan
                  \/ /\ x = "detect_frames" /\ plan = MarkedPlan /\ Tail(plan) = <<>>
                  \/ /\ x = "purge" /\ plan = <<"purge", "finish">>
                     /\ Tail(plan) = <<"finish">>
                  \/ /\ x = "finish" /\ plan = <<"finish">> /\ Tail(plan) = <<>>
                  \/ /\ x = "cleanup" /\ plan = CleanupPlan /\ Tail(plan) = <<>>
            \/ /\ info[mcur.job].sub = "detect_frames"
               /\ \/ /\ x = "delete" /\ plan = DeletePlan
                     /\ Tail(plan) = <<"audio_demux", "split">>
                  \/ /\ x = "audio_demux" /\ plan = <<"audio_demux", "split">>
                     /\ Tail(plan) = <<"split">>
                  \/ /\ x = "split" /\ plan = <<"split">> /\ Tail(plan) = <<>>
                  \/ /\ x \in PartTypes \cup {"raise"} /\ plan \in PartPlans
                     /\ Tail(plan) \in PartPlans \cup {<<>>}
<1>1. mpc = "rows" /\ plan # <<>> /\ Head(plan) = x
  BY DEF At
<1>2. /\ mcur.job \in Born
      /\ \/ info[mcur.job].sub = "master" /\ plan \in TranscodePlans
         \/ info[mcur.job].sub = "detect_frames" /\ plan \in DetectionPlans
  BY <1>1, PlanOfRow
<1>3. CASE info[mcur.job].sub = "master" /\ plan \in TranscodePlans
  BY <1>1, <1>2, <1>3, TranscodePlanAt, Zenon
<1>4. CASE info[mcur.job].sub = "detect_frames" /\ plan \in DetectionPlans
  BY <1>1, <1>2, <1>4, DetectionPlanAt, Zenon
<1> QED
  BY <1>2, <1>3, <1>4

\* The plan of split_transcode_job is one for the parts.
LEMMA SplitPlans ==
  ASSUME IInv, PlanInv, Split
  PROVE  /\ At("split") /\ mpc = "rows" /\ plan = <<"split">> /\ plan' \in PartPlans
         /\ mcur' = mcur /\ mcur.job \in Born /\ info[mcur.job].sub = "detect_frames"
<1>1. At("split") /\ mcur' = mcur
  BY DEF Split
<1>2. /\ mpc = "rows" /\ mcur.job \in Born
      /\ info[mcur.job].sub = "detect_frames" /\ plan = <<"split">>
  BY <1>1, AtPlan DEF PartTypes
<1>3. plan' \in PartPlans
  <2>1. CASE plan' = <<"raise">>
    BY <2>1 DEF PartPlans
  <2>2. CASE plan' # <<"raise">>
    <3>1. plan' = PartsPlan(NumberOfRegisteredSlaves, mcur.cuts, info[mcur.job].req)
      BY <2>2 DEF Split
    <3>2. mcur.cuts \in Nat /\ NumberOfRegisteredSlaves \in Nat
      BY RegisteredSlavesNumber DEF IInv, MasterInv, MasterTypeOK
    <3> QED
      BY <3>1, <3>2, PartsPlanPromises
  <2> QED
    BY <2>1, <2>2
<1> QED
  BY <1>1, <1>2, <1>3

\* The steps of the master that carry out an instruction.
Advances ==
  \/ \E sub \in ChildSubTypes : Submit(sub)
  \/ CleanupBound \/ MarkStarted \/ PurgeChildren \/ MarkFinished \/ DeleteDetectJob

\* The master stays within the plans of fetch_jobs.
LEMMA MasterPlans ==
  ASSUME IInv, PlanInv, MasterNext, Born \subseteq Born', \A i \in Born : info'[i] = info[i]
  PROVE  PlanInv'
<1>1. CASE Advances
  BY <1>1, PlanGoesOn
     DEF Advances, At, Submit, CleanupBound, MarkStarted, PurgeChildren, MarkFinished,
         DeleteDetectJob
<1>2. CASE FetchJobs
  <2>1. plan' = <<>> /\ mpc' = "rows"
    BY <1>2 DEF FetchJobs, PlanInv
  <2>2. \A x, y \in mrows' : x.job = y.job => x = y
    BY <1>2 DEF FetchJobs
  <2> QED
    BY <2>1, <2>2 DEF PlanInv
<1>3. CASE TakeRow
  <2>1. PICK row \in mrows : mrows' = mrows \ {row} /\ mcur' = row /\ plan' = PlanFor(row)
    BY <1>3 DEF TakeRow
  <2>2. mpc = "rows" /\ mpc' = mpc
    BY <1>3 DEF TakeRow
  <2>3. \A x, y \in mrows : x.job = y.job => x = y
    BY DEF PlanInv
  <2>4. /\ row.job \in Born' /\ info'[row.job] = info[row.job]
        /\ \/ plan' = <<>>
           \/ info[row.job].sub = "master" /\ plan' \in TranscodePlans
           \/ info[row.job].sub = "detect_frames" /\ plan' \in DetectionPlans
    BY <2>1, PlanForKinds DEF DetectionPlans
  <2>5. \A x \in mrows' : x.job # mcur'.job
    BY <2>1, <2>3
  <2> QED
    BY <2>1, <2>2, <2>3, <2>4, <2>5 DEF PlanInv, TranscodePlans, DetectionPlans
<1>4. CASE Split
  <2>1. /\ mrows' = mrows /\ mcur' = mcur /\ mpc' = mpc
        /\ mpc = "rows" /\ plan # <<>> /\ mcur.job \in Born
        /\ info[mcur.job].sub = "detect_frames" /\ plan' \in PartPlans
    BY <1>4, SplitPlans DEF Split
  <2>2. \A row \in mrows : row.job # mcur.job
    BY <2>1 DEF PlanInv
  <2> QED
    BY <2>1, <2>2 DEF PlanInv
<1>5. CASE Raise \/ CrashMaster
  <2>1. plan' = <<>> /\ mrows' = {}
    BY <1>5 DEF Raise, CrashMaster, Die
  <2> QED
    BY <2>1 DEF PlanInv
<1>6. CASE CleanupTasks \/ ReassignOrphan \/ RestartMaster
  <2>1. plan = <<>> /\ mrows = {} /\ plan' = plan /\ mrows' = mrows
    BY <1>6 DEF CleanupTasks, ReassignOrphan, RestartMaster, PlanInv
  <2> QED
    BY <2>1 DEF PlanInv
<1> QED
  BY <1>1, <1>2, <1>3, <1>4, <1>5, <1>6 DEF MasterNext, MasterStep, Advances

\* And nobody else touches its plan.
LEMMA NextPlans ==
  ASSUME IInv, PlanInv, [Next]_vars PROVE PlanInv'
<1>1. Born \subseteq Born' /\ \A i \in Born : info'[i] = info[i]
  BY NextIInv DEF Grows
<1>2. CASE UNCHANGED masterVars
  BY <1>1, <1>2, PlanKept
<1>3. CASE MasterNext
  BY <1>1, <1>3, MasterPlans
<1> QED
  BY <1>2, <1>3 DEF Next, SlaveNext, StorageNext, vars
----------------------------------------------------------------------------
(* A transcode is finished when all its children were run. *)

\* CloseInv in three parts: what the table says,
ClosedTable ==
  /\ \A m \in Masters : info[m].master = 0 /\ (Finished(m) => Closed(m))
  /\ \A k \in Cleanups : Finished(info[k].master)
  /\ \A i \in Born : \A d \in info[i].deps : info[d].sub # "detect_frames"

\* what the rows the master has selected say,
ClosedRows ==
  \A row \in mrows :
    /\ info[row.job].sub = "detect_frames" => row.job \in Present
    /\ info[row.job].sub = "master" =>
         IF row.job \in Present THEN row.state = jobs[row.job].state
         ELSE row.state = 2

\* and what its plan says.
ClosedPlan ==
  /\ plan \in StartPlans => mcur.job \in Present /\ jobs[mcur.job].state = 0
  /\ plan = MarkedPlan => mcur.job \in Present /\ jobs[mcur.job].state = 1
  /\ plan \in ClosePlans =>
       mcur.job \in Present /\ jobs[mcur.job].state = 1 /\ Closed(mcur.job)
  /\ plan = CleanupPlan => Finished(mcur.job)
  /\ plan \in DetectionPlans => ~Finished(Subject)

\* These three parts are all of CloseInv.
LEMMA CloseParts == CloseInv <=> ClosedTable /\ ClosedRows /\ ClosedPlan
BY DEF CloseInv, ClosedTable, ClosedRows, ClosedPlan, DetectionPlans

\* The owner of a job is a transcode; transcodes have no owner but themselves.
LEMMA Owners ==
  ASSUME IInv, ClosedTable
  PROVE  /\ \A i \in Born : Owner(i) \in Masters
         /\ \A m \in Masters : m \in Born /\ info[m].sub = "master" /\ Owner(m) = m
         /\ \A i \in Born : info[i].sub # "master" =>
              Owner(i) = info[i].master /\ i \in ChildrenEver(Owner(i))
         /\ \A m \in Masters : \A i \in ChildrenEver(m) : i \in Born /\ info[i].sub # "master"
         /\ Masters \subseteq Born /\ 0 \notin Born
BY HoldingsBorn DEF IInv, TableInv, KindsOK, Owner, Masters, ChildrenEver, ClosedTable

\* The transcodes that are finished, after a step.
FinishedNext(m) == m \notin Present' \/ jobs'[m].state = 2

\* Transcodes stay as they are, or are closed and become finished.
LEMMA ClosedTableKept ==
  ASSUME IInv, ClosedTable, info' = info, Done \subseteq Done', Present' \subseteq Present,
         \A m \in Masters : FinishedNext(m) => Finished(m) \/ Closed(m),
         \A m \in Masters : Finished(m) => FinishedNext(m)
  PROVE  /\ ClosedTable' /\ \A m \in Masters : Closed(m) => Closed(m)'
<1>1. /\ Born' = Born /\ Masters' = Masters /\ Cleanups' = Cleanups
      /\ \A m : ChildrenEver(m)' = ChildrenEver(m)
  BY DEF Born, Masters, Cleanups, ChildrenEver
<1>2. ASSUME NEW m \in Masters, Closed(m) PROVE Closed(m)'
  BY <1>1, <1>2 DEF Closed
<1>3. ASSUME NEW m \in Masters, Finished(m)' PROVE Closed(m)'
  BY <1>2, <1>3 DEF FinishedNext, Finished, ClosedTable
<1>4. ASSUME NEW k \in Cleanups PROVE Finished(info[k].master)'
  <2>1. k \in Born /\ info[k].master \in Masters
    BY <1>4 DEF Cleanups, IInv, TableInv, KindsOK, Masters
  <2> QED
    BY <1>4, <2>1 DEF ClosedTable, FinishedNext, Finished
<1> QED
  BY <1>1, <1>2, <1>3, <1>4 DEF ClosedTable

\* The rows the master keeps are right as long as its detections are listed and
\* the transcodes unchanged, or their rows gone when finished.
LEMMA ClosedRowsKept ==
  ASSUME IInv, ClosedRows, mrows' \subseteq mrows, \A i \in Born : info'[i] = info[i],
         \A row \in mrows' : info[row.job].sub = "detect_frames" /\
           row.job \in Present => row.job \in Present',
         \A row \in mrows' : info[row.job].sub = "master" =>
           /\ row.job \in Present' =>
                row.job \in Present /\ jobs'[row.job].state = jobs[row.job].state
           /\ row.job \in Present \ Present' => Finished(row.job)
  PROVE  ClosedRows'
<1> SUFFICES ASSUME NEW row \in mrows'
             PROVE  /\ info'[row.job].sub = "detect_frames" => row.job \in Present'
                    /\ info'[row.job].sub = "master" =>
                         IF row.job \in Present' THEN row.state = jobs'[row.job].state
                         ELSE row.state = 2
  BY DEF ClosedRows
<1>1. row \in mrows /\ row.job \in Born /\ info'[row.job] = info[row.job]
  BY DEF IInv, MasterInv, MasterTypeOK
<1>2. /\ info[row.job].sub = "detect_frames" => row.job \in Present
      /\ info[row.job].sub = "master" =>
           IF row.job \in Present THEN row.state = jobs[row.job].state ELSE row.state = 2
  BY <1>1 DEF ClosedRows
<1>3. info[row.job].sub = "master" /\ row.job \in Present \ Present' => row.state = 2
  BY <1>2 DEF Finished
<1> QED
  BY <1>1, <1>2, <1>3

\* A passive step is neither the finish of a transcode nor its removal before.
LEMMA PassiveFinishes ==
  ASSUME IInv, Passive
  PROVE  \A m \in Masters : FinishedNext(m) <=> Finished(m)
BY DEF Passive, Finished, FinishedNext, Masters

\* A passive step beside the master leaves CloseInv as it was.
LEMMA PassiveCloses ==
  ASSUME IInv, PlanInv, CloseInv, Passive, UNCHANGED <<mrows, mcur, plan>>
  PROVE  CloseInv'
<1>1. ClosedTable /\ ClosedRows /\ ClosedPlan
  BY CloseParts
<1>2. \A m \in Masters : FinishedNext(m) <=> Finished(m)
  BY PassiveFinishes
<1>3. ClosedTable' /\ \A m \in Masters : Closed(m) => Closed(m)'
  BY <1>1, <1>2, ClosedTableKept DEF Passive
<1>4. ClosedRows'
  <2>1. \A row \in mrows : row.job \in Born
    BY DEF IInv, MasterInv, MasterTypeOK
  <2> QED
    BY <1>1, <2>1, ClosedRowsKept DEF Passive, Masters
<1>5. ClosedPlan'
  <2>1. CASE plan = <<>>
    BY <2>1, PlansDiffer DEF ClosedPlan, TranscodePlans
  <2>2. CASE plan # <<>>
    <3>1. mcur.job \in Born /\ Subject \in Masters /\ Subject' = Subject
      BY <1>1, <2>2, PlanOfRow, Owners DEF Subject, Owner, Passive
    <3>2. plan \in TranscodePlans => mcur.job \in Masters
      BY <2>2, <3>1, PlanOfRow, PlansDiffer DEF Masters, TranscodePlans
    <3>3. ASSUME NEW st \in {0, 1}, mcur.job \in Masters, mcur.job \in Present,
                 jobs[mcur.job].state = st
          PROVE  mcur.job \in Present' /\ jobs'[mcur.job].state = st
      BY <3>3 DEF Passive, Finished, Masters
    <3>4. /\ mcur.job \in Masters => (FinishedNext(mcur.job) <=> Finished(mcur.job))
          /\ FinishedNext(Subject) <=> Finished(Subject)
      BY <1>2, <3>1 DEF FinishedNext, Finished
    <3>5. ASSUME mcur.job \in Masters
          PROVE  /\ plan \in StartPlans => mcur.job \in Present' /\ jobs'[mcur.job].state = 0
                 /\ plan = MarkedPlan => mcur.job \in Present' /\ jobs'[mcur.job].state = 1
                 /\ plan \in ClosePlans =>
                      /\ mcur.job \in Present' /\ jobs'[mcur.job].state = 1
                      /\ Closed(mcur.job)
                 /\ plan = CleanupPlan => FinishedNext(mcur.job)
      BY <1>1, <3>3, <3>4, <3>5 DEF ClosedPlan
    <3>6. plan \in DetectionPlans => ~FinishedNext(Subject)
      BY <1>1, <3>4 DEF ClosedPlan
    <3>7. ASSUME mcur.job \in Masters PROVE Closed(mcur.job) => Closed(mcur.job)'
      BY <1>3, <3>7
    <3>8. ASSUME mcur.job \in Masters PROVE ClosedPlan'
      BY <3>1, <3>5, <3>6, <3>7, <3>8 DEF ClosedPlan, FinishedNext, Finished
    <3>9. ASSUME plan \notin TranscodePlans PROVE ClosedPlan'
      BY <3>1, <3>6, <3>9 DEF ClosedPlan, FinishedNext, Finished, TranscodePlans
    <3> QED
      BY <3>2, <3>8, <3>9
  <2> QED
    BY <2>1, <2>2
<1> QED
  BY <1>3, <1>4, <1>5 DEF CloseInv, ClosedTable, ClosedRows, ClosedPlan, DetectionPlans

\* An INSERT finishes no transcode and closes none.
LEMMA AddedFinishes ==
  ASSUME IInv, NEW sub, NEW r, NEW o, NEW D, Added(sub, r, o, D)
  PROVE  /\ \A m \in Born : FinishedNext(m) <=> Finished(m)
         /\ \A i \in Born : i \in Present' <=> i \in Present
         /\ ~FinishedNext(Len(info) + 1)
BY DEF Added, FinishedNext, Finished, IInv, TableInv, TableTypeOK

\* An INSERT closes no other transcode, and reopens none: only a transcode that
\* is not finished gets a child that is not a cleanup.
LEMMA AddedCloses ==
  ASSUME IInv, ClosedTable, Done \subseteq Done',
         NEW sub, NEW r, NEW o, NEW D, Added(sub, r, o, D),
         \/ sub = "master" /\ o = 0
         \/ sub # "master" /\ o \in Masters /\ (Finished(o) <=> sub = "cleanup"),
         \A d \in D : d \in Born /\ info[d].sub # "detect_frames"
  PROVE  /\ ClosedTable'
         /\ \A m \in Masters : Closed(m) /\ ~(o = m /\ sub # "cleanup") => Closed(m)'
<1> DEFINE new == Len(info) + 1
<1>1. /\ new \notin Born /\ new \notin Present
      /\ Born' = Born \cup {new} /\ Present' = Present \cup {new}
      /\ \A i \in Born : info'[i] = info[i]
      /\ info'[new].sub = sub /\ info'[new].master = o /\ info'[new].deps = D
  BY DEF Added
<1>2. /\ \A m \in Born : FinishedNext(m) <=> Finished(m)
      /\ ~FinishedNext(new)
  BY AddedFinishes
<1> HIDE DEF new
<1>3. /\ Masters \subseteq Born /\ 0 \notin Born /\ \A i \in Born : info[i].deps \subseteq Born
  <2>1. Masters \subseteq Born /\ 0 \notin Born
    BY Owners
  <2>2. info \in Seq(JobInfo) /\ \A i \in Born : info[i].deps \subseteq 1 .. (i - 1)
    BY DEF IInv, TableInv, KindsOK, TableTypeOK
  <2>3. \A i \in Born : info[i].deps \subseteq Born
    BY <2>2 DEF Born
  <2> QED
    BY <2>1, <2>3
<1>4. ASSUME NEW m \in Masters, Closed(m), ~(o = m /\ sub # "cleanup") PROVE Closed(m)'
  <2> SUFFICES ASSUME NEW i \in Born', info'[i].master = m, info'[i].sub # "cleanup"
               PROVE  i \in Done' /\ (info'[i].sub = "detect_frames" => i \notin Present')
    BY DEF Closed, ChildrenEver
  <2>1. i # new
    BY <1>1, <1>4
  <2> QED
    BY <1>1, <1>4, <2>1 DEF Closed, ChildrenEver
<1>5. ASSUME NEW m \in Masters'
      PROVE  info'[m].master = 0 /\ (FinishedNext(m) => Closed(m)')
  <2>1. CASE m = new
    BY <1>1, <1>2, <1>3, <1>5, <2>1 DEF Masters
  <2>2. CASE m # new
    <3>1. m \in Masters /\ m \in Born /\ info'[m] = info[m]
      BY <1>1, <1>5, <2>2 DEF Masters
    <3>2. info[m].master = 0 /\ (Finished(m) => Closed(m))
      BY <3>1 DEF ClosedTable
    <3>3. Finished(m) => ~(o = m /\ sub # "cleanup")
      BY <1>3, <3>1
    <3> QED
      BY <1>2, <1>4, <3>1, <3>2, <3>3
  <2> QED
    BY <2>1, <2>2
<1>6. ASSUME NEW k \in Cleanups' PROVE FinishedNext(info'[k].master)
  <2>1. CASE k = new
    BY <1>1, <1>2, <1>3, <1>6, <2>1 DEF Cleanups
  <2>2. CASE k # new
    <3>1. k \in Cleanups /\ info'[k] = info[k] /\ info[k].master \in Born
      BY <1>1, <1>6, <2>2 DEF Cleanups, IInv, TableInv, KindsOK
    <3> QED
      BY <1>2, <3>1 DEF ClosedTable
  <2> QED
    BY <2>1, <2>2
<1>7. ASSUME NEW i \in Born', NEW d \in info'[i].deps PROVE info'[d].sub # "detect_frames"
  <2>1. CASE i = new
    BY <1>1, <1>7, <2>1
  <2>2. CASE i # new
    BY <1>1, <1>3, <1>7, <2>2 DEF ClosedTable
  <2> QED
    BY <2>1, <2>2
<1>8. \A m \in Masters' : info'[m].master = 0 /\ (FinishedNext(m) => Closed(m)')
  BY <1>5
<1>9. /\ \A m \in Masters' : info'[m].master = 0 /\ (Finished(m)' => Closed(m)')
      /\ \A k \in Cleanups' : Finished(info[k].master)'
  BY <1>6, <1>8 DEF FinishedNext, Finished
<1> QED
  BY <1>4, <1>7, <1>9 DEF ClosedTable

\* check_xml_submits adds a transcode of no children.
LEMMA XmlCloses ==
  ASSUME IInv, PlanInv, CloseInv, Done \subseteq Done', NEW r \in Requests, SubmitXml(r),
         UNCHANGED masterVars
  PROVE  CloseInv'
<1>1. ClosedTable /\ ClosedRows /\ ClosedPlan
  BY CloseParts
<1>2. Added("master", r, 0, {})
  BY SubmitXmlAdds DEF IInv, TableInv
<1>3. ClosedTable' /\ \A m \in Masters : Closed(m) => Closed(m)'
  <2>1. 0 \notin Masters
    BY <1>1, Owners
  <2> QED
    BY <1>1, <1>2, <2>1, AddedCloses
<1>4. /\ \A i \in Born : info'[i] = info[i]
      /\ \A i \in Present : jobs'[i] = jobs[i]
      /\ \A m \in Born : FinishedNext(m) <=> Finished(m)
      /\ \A i \in Born : i \in Present' <=> i \in Present
  BY <1>2, AddedFinishes DEF Added
<1>5. mrows' = mrows /\ mcur' = mcur /\ plan' = plan
  BY DEF masterVars
<1>6. ClosedRows'
  <2>1. \A row \in mrows : row.job \in Born
    BY DEF IInv, MasterInv, MasterTypeOK
  <2> QED
    BY <1>1, <1>4, <1>5, <2>1, ClosedRowsKept
<1>7. ClosedPlan'
  <2>1. CASE plan = <<>>
    BY <1>5, <2>1, PlansDiffer DEF ClosedPlan, TranscodePlans
  <2>2. CASE plan # <<>>
    <3>1. mcur.job \in Born /\ Subject \in Masters /\ Subject \in Born
      BY <1>1, <2>2, PlanOfRow, Owners DEF Subject
    <3>2. Subject' = Subject
      BY <1>4, <1>5, <3>1 DEF Subject, Owner
    <3>3. mcur.job \in Present <=> mcur.job \in Present'
      BY <1>4, <3>1
    <3>4. mcur.job \in Present => jobs'[mcur.job] = jobs[mcur.job]
      BY <1>4
    <3>5. Closed(mcur.job) /\ plan \in ClosePlans => Closed(mcur.job)'
      <4>1. plan \in ClosePlans => mcur.job \in Masters
        BY <2>2, <3>1, PlanOfRow, PlansDiffer DEF Masters, TranscodePlans
      <4>2. ASSUME mcur.job \in Masters, Closed(mcur.job) PROVE Closed(mcur.job)'
        <5>1. PICK m \in Masters : m = mcur.job
          BY <4>2
        <5> QED
          BY <1>3, <1>5, <4>2, <5>1 DEF Closed
      <4> QED
        BY <4>1, <4>2
    <3>6. ~Finished(Subject) => ~FinishedNext(Subject)
      BY <1>4, <3>1
    <3>7. Finished(mcur.job) => FinishedNext(mcur.job)
      BY <1>4, <3>1
    <3> QED
      BY <1>1, <1>5, <3>2, <3>3, <3>4, <3>5, <3>6, <3>7 DEF ClosedPlan, FinishedNext, Finished
  <2> QED
    BY <2>1, <2>2
<1> QED
  BY <1>3, <1>6, <1>7 DEF CloseInv, ClosedTable, ClosedRows, ClosedPlan, DetectionPlans

\* Between two rows the plan says nothing,
LEMMA NoPlanCloses ==
  ASSUME plan' = <<>> PROVE ClosedPlan'
BY PlansDiffer DEF ClosedPlan, TranscodePlans

\* and for a detection that its transcode is not finished.
LEMMA DetectionPlanCloses ==
  ASSUME plan' \in DetectionPlans, NEW m, Subject' = m, ~FinishedNext(m)
  PROVE  ClosedPlan'
<1>1. ~Finished(Subject)'
  BY DEF Finished, FinishedNext
<1> QED
  BY <1>1, PlansDiffer DEF ClosedPlan

\* The master submits children of a transcode that is not finished, and
\* cleanups of one that is.
LEMMA SubmitStage ==
  ASSUME IInv, PlanInv, CloseInv, NEW sub \in ChildSubTypes, Submit(sub)
  PROVE  /\ mcur.job \in Born /\ Subject \in Masters
         /\ Finished(Subject) <=> sub = "cleanup"
         /\ \/ /\ sub = "download" /\ plan = <<"download", "mark", "detect_frames">>
               /\ plan' = <<"mark", "detect_frames">> /\ Subject = mcur.job
               /\ mcur.job \in Present /\ jobs[mcur.job].state = 0
            \/ /\ sub = "detect_frames" /\ plan = MarkedPlan /\ plan' = <<>>
               /\ Subject = mcur.job
            \/ sub = "cleanup" /\ plan = CleanupPlan /\ plan' = <<>>
            \/ /\ sub = "audio_demux" /\ plan = <<"audio_demux", "split">>
               /\ plan' = <<"split">>
            \/ sub \in PartTypes /\ plan \in PartPlans /\ plan' \in PartPlans \cup {<<>>}
         /\ plan' = Tail(plan)
<1>1. ClosedPlan /\ ClosedTable
  BY CloseParts
<1>2. At(sub) /\ plan' = Tail(plan)
  BY DEF Submit
<1>3. /\ mcur.job \in Born
      /\ \/ /\ info[mcur.job].sub = "master"
            /\ \/ /\ sub = "download" /\ plan = <<"download", "mark", "detect_frames">>
                  /\ Tail(plan) = <<"mark", "detect_frames">>
               \/ /\ sub = "detect_frames" /\ plan = MarkedPlan /\ Tail(plan) = <<>>
               \/ /\ sub = "cleanup" /\ plan = CleanupPlan /\ Tail(plan) = <<>>
         \/ /\ info[mcur.job].sub = "detect_frames"
            /\ \/ /\ sub = "audio_demux" /\ plan = <<"audio_demux", "split">>
                  /\ Tail(plan) = <<"split">>
               \/ /\ sub \in PartTypes /\ plan \in PartPlans
                  /\ Tail(plan) \in PartPlans \cup {<<>>}
  <2>1. sub \notin {"mark", "purge", "finish", "delete", "split", "raise"}
    BY DEF ChildSubTypes, SlaveSubTypes, StorageSubTypes
  <2> QED
    BY <1>2, <2>1, AtPlan
<1>4. Subject \in Masters /\ (info[mcur.job].sub = "master" => Subject = mcur.job)
  BY <1>1, <1>3, Owners DEF Subject, Owner
<1>5. CASE /\ info[mcur.job].sub = "master" /\ sub = "download"
           /\ plan = <<"download", "mark", "detect_frames">>
           /\ Tail(plan) = <<"mark", "detect_frames">>
  <2>1. plan \in StartPlans
    BY <1>5 DEF StartPlans
  <2> QED
    BY <1>1, <1>2, <1>3, <1>4, <1>5, <2>1 DEF ClosedPlan, Finished
<1>6. CASE /\ info[mcur.job].sub = "master"
           /\ sub = "detect_frames" /\ plan = MarkedPlan /\ Tail(plan) = <<>>
  BY <1>1, <1>2, <1>3, <1>4, <1>6 DEF ClosedPlan, Finished
<1>7. CASE /\ info[mcur.job].sub = "master"
           /\ sub = "cleanup" /\ plan = CleanupPlan /\ Tail(plan) = <<>>
  BY <1>1, <1>2, <1>3, <1>4, <1>7 DEF ClosedPlan
<1>8. CASE /\ sub = "audio_demux" /\ plan = <<"audio_demux", "split">>
           /\ Tail(plan) = <<"split">>
  <2>1. plan \in DetectionPlans
    BY <1>8 DEF DetectionPlans, DeletedPlans
  <2> QED
    BY <1>1, <1>2, <1>3, <1>4, <1>8, <2>1 DEF ClosedPlan
<1>9. CASE sub \in PartTypes /\ plan \in PartPlans /\ Tail(plan) \in PartPlans \cup {<<>>}
  <2>1. plan \in DetectionPlans /\ sub # "cleanup"
    BY <1>9 DEF DetectionPlans, PartTypes
  <2> QED
    BY <1>1, <1>2, <1>3, <1>4, <1>9, <2>1 DEF ClosedPlan
<1> QED
  BY <1>3, <1>5, <1>6, <1>7, <1>8, <1>9

\* What the master lets a new job wait for is no detection.
LEMMA SubmitNeeds ==
  ASSUME IInv, NEW sub \in ChildSubTypes, Submit(sub)
  PROVE  \A d \in DependenciesOf(sub) : d \in Born /\ info[d].sub # "detect_frames"
<1>1. DependenciesOf(sub) \in SUBSET Born
  BY SubmitArguments
<1>2. "detect_frames" \notin Needs[sub] /\ Needs[sub] \subseteq ChildSubTypes
  BY DEF Needs, ChildSubTypes, SlaveSubTypes, StorageSubTypes
<1>3. \A x \in ChildSubTypes : \A d \in made[x] : info[d].sub = x
  BY DEF IInv, MasterInv
<1> QED
  BY <1>1, <1>2, <1>3 DEF DependenciesOf

\* What the master submits from its plan reopens no finished transcode.
LEMMA SubmitCloses ==
  ASSUME IInv, PlanInv, CloseInv, Done \subseteq Done', NEW sub \in ChildSubTypes, Submit(sub)
  PROVE  CloseInv'
<1>1. ClosedTable /\ ClosedRows /\ ClosedPlan
  BY CloseParts
<1>2. /\ SubmitJob(sub, info[mcur.job].req, Owner(mcur.job), DependenciesOf(sub))
      /\ mrows' = mrows /\ mcur' = mcur
  BY DEF Submit
<1>3. Added(sub, info[mcur.job].req, Subject, DependenciesOf(sub))
  BY <1>2, SubmitAdds DEF IInv, TableInv, Subject
<1>4. mcur.job \in Born /\ Subject \in Masters /\ (Finished(Subject) <=> sub = "cleanup")
  BY SubmitStage
<1>5. sub # "master"
  BY DEF ChildSubTypes, SlaveSubTypes, StorageSubTypes
<1>6. ClosedTable'
  BY <1>1, <1>3, <1>4, <1>5, SubmitNeeds, AddedCloses
<1>7. /\ \A i \in Born : info'[i] = info[i]
      /\ \A i \in Present : jobs'[i] = jobs[i]
      /\ \A m \in Born : FinishedNext(m) <=> Finished(m)
      /\ \A i \in Born : i \in Present' <=> i \in Present
  BY <1>3, AddedFinishes DEF Added
<1>8. ClosedRows'
  <2>1. \A row \in mrows : row.job \in Born
    BY DEF IInv, MasterInv, MasterTypeOK
  <2> QED
    BY <1>1, <1>2, <1>7, <2>1, ClosedRowsKept
<1>9. ClosedPlan'
  <2>1. CASE plan' = <<>>
    BY <2>1, NoPlanCloses
  <2>2. CASE /\ sub = "download" /\ plan' = <<"mark", "detect_frames">>
             /\ mcur.job \in Present /\ jobs[mcur.job].state = 0
    <3>1. plan' \in StartPlans /\ mcur.job \in Present' /\ jobs'[mcur.job].state = 0
      BY <1>4, <1>7, <2>2 DEF StartPlans
    <3> QED
      BY <1>2, <3>1, PlansDiffer DEF ClosedPlan
  <2>3. CASE sub # "cleanup" /\ (plan' = <<"split">> \/ plan' \in PartPlans)
    <3>1. plan' \in DetectionPlans
      BY <2>3 DEF DetectionPlans, DeletedPlans
    <3>2. Subject' = Subject /\ ~FinishedNext(Subject)
      BY <1>2, <1>4, <1>7, <2>3 DEF Subject, Owner, Masters
    <3> QED
      BY <3>1, <3>2, DetectionPlanCloses
  <2> QED
    BY <2>1, <2>2, <2>3, SubmitStage DEF PartTypes
<1> QED
  BY <1>6, <1>8, <1>9 DEF CloseInv, ClosedTable, ClosedRows, ClosedPlan, DetectionPlans

\* UPDATE Jobs SET State = st for the transcode the master is at.
LEMMA MarkRows ==
  ASSUME IInv, NEW m \in Masters, NEW st \in 0 .. 2, jobs' = WithState(m, st)
  PROVE  /\ Present' = Present /\ \A i \in Present \ {m} : jobs'[i] = jobs[i]
         /\ m \in Present => jobs'[m].state = st
<1>1. Present' = Present /\ \A i \in Present \ {m} : jobs'[i] = jobs[i]
  BY DEF WithState, Present
<1>2. ASSUME m \in Present PROVE jobs'[m].state = st
  <2> DEFINE r == [jobs[m] EXCEPT !.state = st]
  <2>1. jobs[m] \in JobRow
    BY <1>2 DEF IInv, TableInv, TableTypeOK
  <2>2. r.state = st
    BY <2>1, RowUpdate
  <2>3. jobs'[m] = r
    BY <1>2 DEF WithState
  <2> HIDE DEF r
  <2> QED
    BY <2>2, <2>3
<1> QED
  BY <1>1, <1>2

\* A transcode without unfinished children is closed.
LEMMA NoUnfinishedCloses ==
  ASSUME IInv, ClosedTable, NEW m \in Masters, Unfinished(m) = {}
  PROVE  Closed(m)
<1> SUFFICES ASSUME NEW i \in ChildrenEver(m), info[i].sub # "cleanup"
             PROVE  i \in Done /\ (info[i].sub = "detect_frames" => i \notin Present)
  BY DEF Closed
<1>1. i \in Born /\ info[i].sub # "master"
  BY Owners
<1>2. CASE i \in Present
  <2>1. i \in Children(m)
    BY <1>2 DEF Children, ChildrenEver
  <2>2. info[i].sub # "detect_frames" /\ ~(jobs[i].state < 2)
    BY <2>1 DEF Unfinished
  <2>3. jobs[i].state \in 0 .. 2
    BY <1>2 DEF IInv, TableInv, TableTypeOK, JobRow
  <2>4. jobs[i].state = 2
    BY <2>2, <2>3
  <2>5. <<i, jobs[i].server>> \in ran /\ ran \subseteq Born \X Servers
    BY <1>1, <1>2, <2>4 DEF IInv, TableInv, TableTypeOK, FinishedByAssignee
  <2>6. i \in Done
    BY <1>1, <2>5 DEF Done
  <2> QED
    BY <2>2, <2>6
<1>3. CASE i \notin Present
  BY <1>1, <1>3 DEF IInv, TableInv, NothingLost
<1> QED
  BY <1>2, <1>3

\* Rows that are selected or taken: the tables stay.
LEMMA SelectCloses ==
  ASSUME IInv, PlanInv, CloseInv, Done \subseteq Done', FetchJobs \/ TakeRow
  PROVE  CloseInv'
<1>1. ClosedTable /\ ClosedRows /\ ClosedPlan
  BY CloseParts
<1>2. jobs' = jobs /\ info' = info /\ Present' = Present
  BY DEF FetchJobs, TakeRow, tableVars, Present
<1>3. ClosedTable' /\ \A m \in Masters : Closed(m) => Closed(m)'
  BY <1>1, <1>2, ClosedTableKept DEF FinishedNext, Finished
<1>4. CASE FetchJobs
  <2>1. plan' = <<>>
    BY <1>4 DEF FetchJobs, PlanInv
  <2>2. ClosedRows'
    BY <1>2, <1>4 DEF FetchJobs, Relevant, ClosedRows
  <2> QED
    BY <1>3, <2>1, <2>2, NoPlanCloses
       DEF CloseInv, ClosedTable, ClosedRows, ClosedPlan, DetectionPlans
<1>5. CASE TakeRow
  <2>1. PICK row \in mrows : mrows' = mrows \ {row} /\ mcur' = row /\ plan' = PlanFor(row)
    BY <1>5 DEF TakeRow
  <2>2. ClosedRows'
    <3>1. \A x \in mrows' : x \in mrows /\ x.job \in Born
      BY <2>1 DEF IInv, MasterInv, MasterTypeOK
    <3> QED
      BY <1>1, <1>2, <3>1, ClosedRowsKept
  <2>3. /\ row.job \in Born
        /\ info[row.job].sub \in {"master", "detect_frames"}
        /\ info[row.job].sub = "detect_frames" => row.job \in Present
        /\ info[row.job].sub = "master" =>
             IF row.job \in Present THEN row.state = jobs[row.job].state
             ELSE row.state = 2
    BY <1>1, <2>1 DEF ClosedRows, IInv, MasterInv, MasterTypeOK
  <2>4. ASSUME info[row.job].sub = "detect_frames" PROVE ClosedPlan'
    <3>1. plan' \in DetectionPlans
      BY <2>1, <2>4 DEF PlanFor, DetectionPlans, DeletePlan
    <3>2. Subject' = Owner(row.job)
      BY <1>2, <2>1 DEF Subject, Owner
    <3>3. Owner(row.job) \in Masters /\ row.job \in ChildrenEver(Owner(row.job))
      BY <1>1, <2>3, <2>4, Owners
    <3>4. ~Closed(Owner(row.job))
      BY <2>3, <2>4, <3>3 DEF Closed
    <3>5. ~FinishedNext(Owner(row.job))
      BY <1>1, <1>2, <3>3, <3>4 DEF ClosedTable, FinishedNext, Finished
    <3> QED
      BY <3>1, <3>2, <3>5, DetectionPlanCloses
  <2>5. ASSUME info[row.job].sub = "master" PROVE ClosedPlan'
    <3>1. row.job \in Masters /\ info[row.job].sub # "detect_frames"
      BY <2>3, <2>5 DEF Masters
    <3>2. CASE row.state = 0
      <4>1. plan' \in StartPlans /\ row.job \in Present /\ jobs[row.job].state = 0
        BY <2>1, <2>3, <3>1, <3>2 DEF PlanFor, StartPlans, Masters
      <4> QED
        BY <1>2, <2>1, <4>1, PlansDiffer DEF ClosedPlan
    <3>3. CASE row.state = 1 /\ Unfinished(row.job) = {}
      <4>1. plan' \in ClosePlans /\ row.job \in Present /\ jobs[row.job].state = 1
        BY <2>1, <2>3, <3>1, <3>3 DEF PlanFor, ClosePlans, Masters
      <4>2. Closed(row.job)
        BY <1>1, <3>1, <3>3, NoUnfinishedCloses
      <4>3. PICK m \in Masters : m = row.job
        BY <3>1
      <4>4. Closed(m)'
        BY <1>3, <4>2, <4>3
      <4>5. Closed(mcur.job)'
        BY <2>1, <4>3, <4>4
      <4> QED
        BY <1>2, <2>1, <4>1, <4>5, PlansDiffer DEF ClosedPlan
    <3>4. CASE row.state = 1 /\ Unfinished(row.job) # {}
      <4>1. plan' = <<>>
        BY <2>1, <3>1, <3>4 DEF PlanFor
      <4> QED
        BY <4>1, NoPlanCloses
    <3>5. CASE row.state \notin {0, 1}
      <4>1. plan' = CleanupPlan /\ Finished(row.job)
        <5>1. row.state \in 0 .. 2
          BY <2>1 DEF IInv, MasterInv, MasterTypeOK
        <5> QED
          BY <2>1, <2>3, <3>1, <3>5, <5>1 DEF PlanFor, CleanupPlan, Finished, Masters
      <4> QED
        BY <1>2, <2>1, <4>1, PlansDiffer DEF ClosedPlan, Finished
    <3> QED
      BY <3>2, <3>3, <3>4, <3>5
  <2> QED
    BY <1>3, <2>2, <2>3, <2>4, <2>5
       DEF CloseInv, ClosedTable, ClosedRows, ClosedPlan, DetectionPlans
<1> QED
  BY <1>4, <1>5

\* Nothing but the position of the master changes.
LEMMA IdleCloses ==
  ASSUME IInv, CloseInv, Done \subseteq Done', UNCHANGED tableVars,
         mrows' \subseteq mrows, ClosedPlan'
  PROVE  CloseInv'
<1>1. ClosedTable /\ ClosedRows
  BY CloseParts
<1>2. jobs' = jobs /\ info' = info /\ Present' = Present
  BY DEF tableVars, Present
<1>3. ClosedTable'
  BY <1>1, <1>2, ClosedTableKept DEF FinishedNext, Finished
<1>4. ClosedRows'
  BY <1>1, <1>2 DEF ClosedRows
<1> QED
  BY <1>3, <1>4 DEF CloseInv, ClosedTable, ClosedRows, ClosedPlan, DetectionPlans

\* A transcode in progress is marked.
LEMMA MarkCloses ==
  ASSUME IInv, PlanInv, CloseInv, Done \subseteq Done', MarkStarted \/ MarkFinished
  PROVE  CloseInv'
<1> DEFINE m == mcur.job
<1>1. ClosedTable /\ ClosedRows /\ ClosedPlan
  BY CloseParts
<1>2. /\ info' = info /\ mrows' = mrows /\ mcur' = mcur /\ plan' = Tail(plan)
      /\ \A row \in mrows : row.job # m
  BY PlanOfRow DEF MarkStarted, MarkFinished, At
<1>3. PICK st \in {1, 2} :
        /\ jobs' = WithState(m, st)
        /\ \/ /\ st = 1 /\ At("mark")
           \/ /\ st = 2 /\ At("finish")
  BY DEF MarkStarted, MarkFinished
<1>4. /\ m \in Masters
      /\ \/ st = 1 /\ plan \in StartPlans /\ plan' = MarkedPlan
         \/ st = 2 /\ plan \in ClosePlans /\ plan' = <<>>
  BY <1>2, <1>3, AtPlan DEF StartPlans, ClosePlans, PartTypes, Masters
<1>5. /\ m \in Present /\ jobs[m].state \in {0, 1}
      /\ st = 2 => Closed(m)
  BY <1>1, <1>4, PlansDiffer DEF ClosedPlan
<1>6. /\ Present' = Present /\ \A i \in Present \ {m} : jobs'[i] = jobs[i]
      /\ jobs'[m].state = st
  BY <1>3, <1>4, <1>5, MarkRows
<1>7. ClosedTable'
  <2>1. \A x \in Masters : FinishedNext(x) => Finished(x) \/ Closed(x)
    BY <1>5, <1>6 DEF FinishedNext, Finished
  <2>2. \A x \in Masters : Finished(x) => FinishedNext(x)
    BY <1>5, <1>6 DEF FinishedNext, Finished
  <2> QED
    BY <1>1, <1>2, <1>6, <2>1, <2>2, ClosedTableKept
<1>8. ClosedRows'
  BY <1>1, <1>2, <1>6, ClosedRowsKept
<1>9. ClosedPlan'
  <2>1. CASE st = 1
    <3>1. plan' = MarkedPlan /\ mcur' = mcur /\ m \in Present' /\ jobs'[m].state = 1
      BY <1>2, <1>4, <1>5, <1>6, <2>1
    <3> QED
      BY <3>1, PlansDiffer DEF ClosedPlan
  <2>2. CASE st = 2
    BY <1>4, <2>2, NoPlanCloses
  <2> QED
    BY <1>3, <2>1, <2>2
<1> QED
  BY <1>7, <1>8, <1>9 DEF CloseInv, ClosedTable, ClosedRows, ClosedPlan, DetectionPlans

\* The finished children of a closed transcode are deleted: none is a detection.
LEMMA PurgeCloses ==
  ASSUME IInv, PlanInv, CloseInv, Done \subseteq Done', PurgeChildren
  PROVE  CloseInv'
<1> DEFINE m == mcur.job
<1>1. ClosedTable /\ ClosedRows /\ ClosedPlan
  BY CloseParts
<1>2. /\ jobs' = Without({i \in Children(m) : jobs[i].state = 2})
      /\ info' = info /\ mrows' = mrows /\ mcur' = mcur /\ plan' = Tail(plan)
  BY DEF PurgeChildren
<1>3. m \in Masters /\ plan \in ClosePlans /\ plan' = <<"finish">>
  BY AtPlan DEF PurgeChildren, ClosePlans, PartTypes, Masters
<1>4. m \in Present /\ jobs[m].state = 1 /\ Closed(m)
  BY <1>1, <1>3 DEF ClosedPlan
<1>5. \A i \in Children(m) : info[i].sub \notin {"master", "detect_frames"}
  <2>1. \A i \in Children(m) : i \in ChildrenEver(m) /\ i \in Present
    BY DEF Children, ChildrenEver, IInv, TableInv, TableTypeOK
  <2> QED
    BY <1>1, <1>3, <1>4, <2>1, Owners DEF Closed
<1>6. Passive
  BY <1>2, <1>5, PassiveDelete DEF IInv, TableInv
<1>7. m \in Present' /\ jobs'[m].state = 1
  BY <1>3, <1>4, <1>6 DEF Passive, Finished, Masters
<1>8. ClosedTable' /\ \A x \in Masters : Closed(x) => Closed(x)'
  <2>1. \A x \in Masters : FinishedNext(x) <=> Finished(x)
    BY <1>6, PassiveFinishes
  <2> QED
    BY <1>1, <1>6, <2>1, ClosedTableKept DEF Passive
<1>9. ClosedRows'
  <2>1. \A row \in mrows : row.job \in Born
    BY DEF IInv, MasterInv, MasterTypeOK
  <2> QED
    BY <1>1, <1>2, <1>6, <2>1, ClosedRowsKept DEF Passive, Masters
<1>10. ClosedPlan'
  <2>1. plan' \in ClosePlans
    BY <1>3 DEF ClosePlans
  <2>2. PICK x \in Masters : x = m
    BY <1>3
  <2>3. Closed(x)'
    BY <1>4, <1>8, <2>2
  <2>4. Closed(mcur.job)'
    BY <1>2, <2>2, <2>3
  <2> QED
    BY <1>2, <1>7, <2>1, <2>4, PlansDiffer DEF ClosedPlan
<1> QED
  BY <1>8, <1>9, <1>10 DEF CloseInv, ClosedTable, ClosedRows, ClosedPlan, DetectionPlans

\* The row of a detection is deleted before its parts are submitted: its
\* transcode is not finished, and the master is at it.
LEMMA DetectionCloses ==
  ASSUME IInv, PlanInv, CloseInv, Done \subseteq Done', DeleteDetectJob \/ Split
  PROVE  CloseInv'
<1>1. ClosedTable /\ ClosedRows /\ ClosedPlan
  BY CloseParts
<1>2. /\ info' = info /\ mrows' = mrows /\ mcur' = mcur
      /\ \A row \in mrows : row.job # mcur.job
  BY PlanOfRow DEF DeleteDetectJob, Split, At, tableVars
<1>3. /\ mcur.job \in Born /\ info[mcur.job].sub = "detect_frames"
      /\ plan \in DetectionPlans /\ plan' \in DetectionPlans
  <2>1. CASE DeleteDetectJob
    <3>1. /\ mcur.job \in Born /\ info[mcur.job].sub = "detect_frames"
          /\ plan = DeletePlan /\ plan' = <<"audio_demux", "split">>
      BY <2>1, AtPlan DEF DeleteDetectJob, PartTypes
    <3> QED
      BY <3>1 DEF DetectionPlans, DeletedPlans
  <2>2. CASE Split
    BY <2>2, SplitPlans DEF DetectionPlans, DeletedPlans
  <2> QED
    BY <2>1, <2>2
<1>4. /\ Present' \subseteq Present /\ Present \ Present' \subseteq {mcur.job}
      /\ \A i \in Present' : jobs'[i] = jobs[i]
  BY DEF DeleteDetectJob, Split, tableVars, Without, Present
<1>5. \A m \in Masters : FinishedNext(m) <=> Finished(m)
  BY <1>3, <1>4 DEF FinishedNext, Finished, Masters
<1>6. ClosedTable'
  BY <1>1, <1>2, <1>4, <1>5, ClosedTableKept
<1>7. ClosedRows'
  BY <1>1, <1>2, <1>4, ClosedRowsKept
<1>8. ClosedPlan'
  <2>1. ~Finished(Subject) /\ Subject \in Masters
    BY <1>1, <1>3, Owners DEF ClosedPlan, Subject
  <2>2. Subject' = Subject
    BY <1>2 DEF Subject, Owner
  <2>3. ~FinishedNext(Subject)
    BY <1>5, <2>1
  <2> QED
    BY <1>3, <2>2, <2>3, DetectionPlanCloses
<1> QED
  BY <1>6, <1>7, <1>8 DEF CloseInv, ClosedTable, ClosedRows, ClosedPlan, DetectionPlans

\* Every step of the master.
LEMMA MasterCloses ==
  ASSUME IInv, AssignInv, PlanInv, CloseInv, Done \subseteq Done', MasterNext
  PROVE  CloseInv'
<1>1. CASE CleanupBound
  <2>1. plan' = <<>>
    BY <1>1, AtPlan DEF CleanupBound, PartTypes
  <2> QED
    BY <1>1, <2>1, NoPlanCloses, IdleCloses DEF CleanupBound, tableVars
<1>2. CASE Raise \/ CrashMaster
  <2>1. plan' = <<>> /\ mrows' = {} /\ UNCHANGED tableVars
    BY <1>2 DEF Raise, CrashMaster, Die, tableVars
  <2> QED
    BY <2>1, NoPlanCloses, IdleCloses
<1>3. CASE CleanupTasks \/ RestartMaster
  <2>1. plan' = <<>> /\ mrows' = mrows /\ UNCHANGED tableVars
    BY <1>3 DEF CleanupTasks, RestartMaster, tableVars, PlanInv
  <2> QED
    BY <2>1, NoPlanCloses, IdleCloses
<1>4. CASE ReassignOrphan
  <2>1. TableTypeOK /\ UNCHANGED <<mrows, mcur, plan>>
    BY <1>4 DEF IInv, TableInv, ReassignOrphan
  <2>2. PICK i \in orphans : \A j \in Present \ {i} : jobs'[j] = jobs[j]
    BY <1>4, <2>1, ReassignRows
  <2>3. info' = info /\ Present' = Present
    BY <1>4, <2>1, ReassignRows
  <2>4. info[i].sub # "master"
    BY DEF AssignInv, OrphansFit, SlaveSubTypes
  <2>5. Passive
    BY <2>1, <2>2, <2>3, <2>4, PassiveUpdate
  <2> QED
    BY <2>1, <2>5, PassiveCloses
<1> QED
  BY <1>1, <1>2, <1>3, <1>4, SubmitCloses, SelectCloses, MarkCloses, PurgeCloses,
     DetectionCloses DEF MasterNext, MasterStep

\* Every step of the farm.
LEMMA NextCloses ==
  ASSUME IInv, AssignInv, PlanInv, CloseInv, [Next]_vars PROVE CloseInv'
<1>1. Done \subseteq Done'
  BY NextGrows
<1>2. ASSUME NEW s \in Slaves, SlaveNext(s) PROVE CloseInv'
  <2>1. Passive
    BY <1>1, <1>2, SlavePassive DEF SlaveNext
  <2> QED
    BY <1>2, <2>1, PassiveCloses DEF SlaveNext, masterVars
<1>3. CASE StorageNext
  <2>1. UNCHANGED masterVars
    BY <1>3 DEF StorageNext
  <2>2. ASSUME NEW r \in Requests, SubmitXml(r) PROVE CloseInv'
    BY <1>1, <2>1, <2>2, XmlCloses
  <2>3. CASE ~\E r \in Requests : SubmitXml(r)
    <3>1. Passive
      BY <1>1, <1>3, <2>3, StoragePassive
    <3> QED
      BY <2>1, <3>1, PassiveCloses DEF masterVars
  <2> QED
    BY <2>2, <2>3
<1>4. CASE UNCHANGED vars
  <2>1. Passive
    BY <1>1, <1>4, PassiveSame DEF vars, tableVars
  <2> QED
    BY <1>4, <2>1, PassiveCloses DEF vars, masterVars
<1> QED
  BY <1>1, <1>2, <1>3, <1>4, MasterCloses DEF Next

\* When the files of a transcode are removed, or its row is gone, every child it
\* ever had but its cleanups was run: whatever crashes and restarts, the master
\* finishes no transcode that could still bring forth jobs.
THEOREM CleanupIsLast == Spec => []CleanupComesLast
<1>1. ASSUME IInv, CloseInv PROVE CleanupComesLast
  <2> SUFFICES ASSUME NEW m \in Born, info[m].sub = "master",
                      \/ m \notin Present
                      \/ \E t \in Threads :
                           task[t].pc \in {"unlink", "master", "row"} /\ MasterOf(t) = m
               PROVE  Closed(m)
    BY DEF CleanupComesLast, Closed
  <2>1. ASSUME NEW t \in Threads, task[t].pc \in {"unlink", "master", "row"}, MasterOf(t) = m
        PROVE  Finished(m)
    <3>1. task[t].job \in Cleanups
      BY <1>1, <2>1 DEF IInv, StorageInv, Cleanups
    <3> QED
      BY <1>1, <2>1, <3>1 DEF CloseInv, MasterOf
  <2> QED
    BY <1>1, <2>1 DEF CloseInv, Masters, Finished
<1>2. Init => PlanInv /\ CloseInv
  <2> SUFFICES ASSUME Init PROVE PlanInv /\ CloseInv
    OBVIOUS
  <2>1. Born = {} /\ mrows = {} /\ plan = <<>>
    BY EmptyStart
  <2>2. ClosedPlan
    BY <2>1, PlansDiffer DEF ClosedPlan, TranscodePlans
  <2> QED
    BY <2>1, <2>2, CloseParts DEF PlanInv, ClosedTable, ClosedRows, Masters, Cleanups
<1>3. IInv /\ PlanInv /\ [Next]_vars => PlanInv'
  BY NextPlans
<1>4. IInv /\ AssignInv /\ PlanInv /\ CloseInv /\ [Next]_vars => CloseInv'
  BY NextCloses
<1> QED
  BY <1>1, <1>2, <1>3, <1>4, Invariant, JobsFitServers, PTL DEF Spec
----------------------------------------------------------------------------
(* A finished transcode is complete. *)

\* The steps that insert rows into Jobs.
Inserting ==
  (\E r \in Requests : SubmitXml(r)) \/ (\E sub \in ChildSubTypes : Submit(sub))

\* check_xml_submits does not move the master.
LEMMA InsertingSteps ==
  ASSUME [Next]_vars, Inserting
  PROVE  \/ \E r \in Requests : SubmitXml(r) /\ UNCHANGED masterVars
         \/ \E sub \in ChildSubTypes : Submit(sub)
<1>1. ASSUME NEW r \in Requests, SubmitXml(r) PROVE UNCHANGED masterVars
  <2>1. inbox' # inbox
    BY <1>1 DEF SubmitXml
  <2> QED
    BY <2>1 DEF Next, SlaveNext, StorageNext, MasterNext, storageVars, vars
<1> QED
  BY <1>1 DEF Inserting

\* What an INSERT fixes is not changed by any other step.
LEMMA InfoKept ==
  ASSUME IInv, [Next]_vars, ~Inserting PROVE info' = info
<1>1. TableTypeOK
  BY DEF IInv, TableInv
<1>2. ASSUME NEW s \in Slaves, SlaveNext(s) PROVE info' = info
  BY <1>1, <1>2, SlaveRows DEF SlaveNext
<1>3. CASE StorageNext
  BY <1>1, <1>3, StorageRows DEF StorageNext, Inserting
<1>4. CASE MasterNext
  <2>1. CASE MasterMovesOn
    BY <1>1, <2>1, MasterRows
  <2>2. CASE CleanupTasks \/ ReassignOrphan
    BY <2>2 DEF CleanupTasks, ReassignOrphan, tableVars
  <2> QED
    BY <1>4, <2>1, <2>2 DEF MasterNext, MasterStep, MasterMovesOn, Inserting
<1>5. CASE UNCHANGED vars
  BY <1>5 DEF vars, tableVars
<1> QED
  BY <1>2, <1>3, <1>4, <1>5 DEF Next

\* A child is submitted for the request of its transcode.
LEMMA NextRequestInv ==
  ASSUME IInv, RequestInv, [Next]_vars PROVE RequestInv'
<1>1. CASE ~Inserting
  BY <1>1, InfoKept DEF RequestInv, Born
<1>2. ASSUME NEW r, NEW sub, NEW o, NEW D, Added(sub, r, o, D),
             sub # "master" => o \in Born /\ r = info[o].req
      PROVE  RequestInv'
  <2> DEFINE new == Len(info) + 1
  <2>1. /\ Born' = Born \cup {new} /\ \A i \in Born : info'[i] = info[i]
        /\ info'[new].sub = sub /\ info'[new].req = r /\ info'[new].master = o
    BY <1>2 DEF Added
  <2>2. \A i \in Born : info[i].sub # "master" => info[i].master \in Born
    BY DEF IInv, TableInv, KindsOK
  <2> QED
    BY <1>2, <2>1, <2>2 DEF RequestInv
<1>3. ASSUME NEW r \in Requests, SubmitXml(r) PROVE RequestInv'
  BY <1>2, <1>3, SubmitXmlAdds DEF IInv, TableInv
<1>4. ASSUME NEW sub \in ChildSubTypes, Submit(sub) PROVE RequestInv'
  <2>1. Added(sub, info[mcur.job].req, Owner(mcur.job), DependenciesOf(sub))
    BY <1>4, SubmitAdds DEF IInv, TableInv, Submit
  <2>2. mcur.job \in Born
    <3>1. 1 \in DOMAIN plan
      BY <1>4 DEF Submit, At, IInv, MasterInv, MasterTypeOK
    <3> QED
      BY <3>1 DEF IInv, MasterInv
  <2>3. info[mcur.job].req = info[Owner(mcur.job)].req /\ Owner(mcur.job) \in Born
    BY <2>2 DEF RequestInv, Owner, IInv, TableInv, KindsOK
  <2> QED
    BY <1>2, <2>1, <2>3
<1> QED
  BY <1>1, <1>3, <1>4 DEF Inserting

\* The jobs asked for stay the same,
LEMMA AskedSame ==
  ASSUME info' = info
  PROVE  /\ Born' = Born /\ Masters' = Masters
         /\ \A m, x : Asked(m, x)' = Asked(m, x)
BY DEF Born, Masters, Asked, ChildrenEver

\* or are one more.
LEMMA AskedAdded ==
  ASSUME IInv, ClosedTable, NEW sub, NEW r, NEW o, NEW D, Added(sub, r, o, D),
         sub = "master" => o = 0
  PROVE  /\ \A m \in Born : \A x :
              Asked(m, x)' = IF m = o /\ x = sub THEN Asked(m, x) \cup {Len(info) + 1}
                             ELSE Asked(m, x)
         /\ \A m, x : Len(info) + 1 \notin Asked(m, x)
         /\ sub = "master" => \A m, x : m = Len(info) + 1 => Asked(m, x)' = {}
         /\ Masters' = IF sub = "master" THEN Masters \cup {Len(info) + 1} ELSE Masters
<1> DEFINE new == Len(info) + 1
<1>1. /\ new \notin Born /\ new \in Nat /\ Born' = Born \cup {new}
      /\ \A i \in Born : info'[i] = info[i]
      /\ info'[new].sub = sub /\ info'[new].master = o
  BY DEF Added
<1> HIDE DEF new
<1>2. 0 \notin Born
  BY HoldingsBorn
<1>3. \A i \in Born : info[i].master # new
  <2>1. new # 0
    BY <1>1, HoldingsBorn DEF new, IInv, TableInv, TableTypeOK
  <2> QED
    BY <1>1, <2>1 DEF IInv, TableInv, KindsOK, ClosedTable, Masters
<1>4. ASSUME NEW m \in Born, NEW x
      PROVE  Asked(m, x)' = IF m = o /\ x = sub THEN Asked(m, x) \cup {new} ELSE Asked(m, x)
  BY <1>1 DEF Asked, ChildrenEver
<1>5. ASSUME sub = "master", NEW m, NEW x, m = new PROVE Asked(m, x)' = {}
  <2>1. new # 0
    BY DEF new, IInv, TableInv, TableTypeOK
  <2>2. \A i \in Born' : info'[i].master # new
    BY <1>1, <1>3, <1>5, <2>1
  <2> QED
    BY <1>5, <2>2 DEF Asked, ChildrenEver
<1>6. \A m, x : new \notin Asked(m, x)
  BY <1>1 DEF Asked, ChildrenEver
<1>7. Masters' = IF sub = "master" THEN Masters \cup {new} ELSE Masters
  BY <1>1 DEF Masters
<1> QED
  BY <1>4, <1>5, <1>6, <1>7 DEF new

\* Without its first instruction a plan has one of that kind less, and as many of
\* every other.
LEMMA TailLeft ==
  ASSUME NEW S, NEW p \in Seq(S), p # <<>>, NEW x
  PROVE  /\ IsFiniteSet(LeftIn(p, x)) /\ IsFiniteSet(LeftIn(Tail(p), x))
         /\ Head(p) # x =>
              /\ Cardinality(LeftIn(Tail(p), x)) = Cardinality(LeftIn(p, x))
              /\ LeftIn(p, x) # {} => LeftIn(Tail(p), x) # {}
         /\ Head(p) = x =>
              Cardinality(LeftIn(p, x)) = Cardinality(LeftIn(Tail(p), x)) + 1
<1> DEFINE L == Len(p)
           T == LeftIn(Tail(p), x)
           W == {j \in LeftIn(p, x) : j # 1}
           f == [j \in T |-> j + 1]
<1>1. L \in Nat /\ L >= 1 /\ DOMAIN p = 1 .. L
  OBVIOUS
<1>2. /\ Tail(p) \in Seq(S) /\ DOMAIN Tail(p) = 1 .. (L - 1)
      /\ \A j \in 1 .. (L - 1) : Tail(p)[j] = p[j + 1]
  BY <1>1
<1>3. Head(p) = p[1] /\ 1 \in 1 .. L
  BY <1>1
<1> HIDE DEF L
<1>4. IsFiniteSet(LeftIn(p, x)) /\ IsFiniteSet(T)
  <2>1. IsFiniteSet(1 .. L) /\ IsFiniteSet(1 .. (L - 1))
    BY <1>1, FS_Interval
  <2>2. LeftIn(p, x) \subseteq 1 .. L /\ T \subseteq 1 .. (L - 1)
    BY <1>1, <1>2 DEF LeftIn
  <2> QED
    BY <2>1, <2>2, FS_Subset
<1>5. \A j : j \in T <=> j \in 1 .. (L - 1) /\ p[j + 1] = x
  BY <1>2 DEF LeftIn
<1>6. \A j : j \in W <=> j \in 1 .. L /\ j # 1 /\ p[j] = x
  BY <1>1 DEF LeftIn
<1> HIDE DEF T, W
<1>7. f \in [T -> W] /\ \A a, b \in T : f[a] = f[b] => a = b
  <2>1. \A j \in T : j \in Nat /\ j + 1 \in W
    BY <1>1, <1>5, <1>6
  <2> QED
    BY <2>1
<1>8. ASSUME NEW w \in W PROVE \E j \in T : f[j] = w
  <2>1. w \in 1 .. L /\ w # 1 /\ p[w] = x
    BY <1>6, <1>8
  <2>2. (w - 1) + 1 = w /\ w - 1 \in 1 .. (L - 1)
    BY <1>1, <2>1
  <2>3. w - 1 \in T
    BY <1>5, <2>1, <2>2
  <2> QED
    BY <2>2, <2>3
<1>9. Cardinality(W) = Cardinality(T) /\ (W # {} => T # {})
  <2>1. f \in Bijection(T, W)
    <3>1. f \in Injection(T, W)
      BY <1>7 DEF Injection, IsInjective
    <3>2. f \in Surjection(T, W)
      BY <1>7, <1>8 DEF Surjection
    <3> QED
      BY <3>1, <3>2 DEF Bijection
  <2>2. ExistsBijection(T, W)
    BY <2>1 DEF ExistsBijection
  <2>3. Cardinality(W) = Cardinality(T)
    BY <1>4, <2>2, FS_Bijection
  <2> QED
    BY <1>8, <2>3
<1>10. CASE Head(p) # x
  <2>1. W = LeftIn(p, x)
    BY <1>3, <1>10 DEF W, LeftIn
  <2> QED
    BY <1>4, <1>9, <1>10, <2>1 DEF T
<1>11. CASE Head(p) = x
  <2>1. LeftIn(p, x) = W \cup {1} /\ 1 \notin W
    BY <1>1, <1>3, <1>11 DEF W, LeftIn
  <2>2. IsFiniteSet(W)
    BY <1>4, <2>1, FS_Subset
  <2>3. Cardinality(W \cup {1}) = Cardinality(W) + 1
    BY <2>1, <2>2, FS_AddElement
  <2> QED
    BY <1>4, <1>9, <1>11, <2>1, <2>3 DEF T
<1> QED
  BY <1>10, <1>11

\* Where a step that inserts nothing leaves the plan,
LEMMA PlanMoves ==
  ASSUME IInv, PlanInv, [Next]_vars, ~Inserting
  PROVE  \/ plan' = plan /\ mcur' = mcur
         \/ plan' = <<>> /\ (mpc' = "dead" \/ plan = <<"finish">> \/ plan = CleanupPlan)
         \/ \E row \in mrows :
              TakeRow /\ mpc = "rows" /\ plan = <<>> /\ mcur' = row /\ plan' = PlanFor(row)
         \/ /\ MarkStarted /\ info[mcur.job].sub = "master" /\ mcur' = mcur
            /\ plan = <<"mark", "detect_frames">> /\ plan' = MarkedPlan
         \/ /\ PurgeChildren /\ info[mcur.job].sub = "master" /\ mcur' = mcur
            /\ plan = <<"purge", "finish">> /\ plan' = <<"finish">>
         \/ /\ DeleteDetectJob /\ info[mcur.job].sub = "detect_frames" /\ mcur' = mcur
            /\ plan = DeletePlan /\ plan' = <<"audio_demux", "split">>
         \/ /\ Split /\ info[mcur.job].sub = "detect_frames" /\ mcur' = mcur
            /\ plan = <<"split">> /\ plan' \in PartPlans
<1>1. CASE UNCHANGED masterVars
  BY <1>1 DEF masterVars
<1>2. CASE MasterNext
  <2>1. CASE FetchJobs \/ CleanupTasks \/ ReassignOrphan \/ RestartMaster
    BY <2>1 DEF FetchJobs, CleanupTasks, ReassignOrphan, RestartMaster
  <2>2. CASE TakeRow
    BY <2>2 DEF TakeRow
  <2>3. CASE Raise \/ CrashMaster
    BY <2>3 DEF Raise, CrashMaster, Die
  <2>4. CASE CleanupBound
    BY <2>4, AtPlan DEF CleanupBound, PartTypes
  <2>5. CASE MarkStarted
    BY <2>5, AtPlan DEF MarkStarted, PartTypes
  <2>6. CASE MarkFinished
    BY <2>6, AtPlan DEF MarkFinished, PartTypes
  <2>7. CASE PurgeChildren
    BY <2>7, AtPlan DEF PurgeChildren, PartTypes
  <2>8. CASE DeleteDetectJob
    BY <2>8, AtPlan DEF DeleteDetectJob, PartTypes
  <2>9. CASE Split
    BY <2>9, SplitPlans
  <2> QED
    BY <1>2, <2>1, <2>2, <2>3, <2>4, <2>5, <2>6, <2>7, <2>8, <2>9
       DEF MasterNext, MasterStep, Inserting
<1> QED
  BY <1>1, <1>2 DEF Next, SlaveNext, StorageNext, vars

\* and the rows of transcodes and detections.
LEMMA RowsMove ==
  ASSUME IInv, AssignInv, PlanInv, CloseInv, [Next]_vars, ~Inserting
  PROVE  /\ info' = info /\ Present' \subseteq Present
         /\ \A m \in Masters :
              \/ m \notin Present'
                   /\ (m \notin Present \/ Finished(m))
              \/ m \in Present' /\ m \in Present /\ jobs'[m].state = jobs[m].state
              \/ /\ m \in Present' /\ m \in Present /\ m = mcur.job
                 /\ \/ MarkStarted /\ jobs'[m].state = 1
                    \/ MarkFinished /\ jobs'[m].state = 2
         /\ \A i \in Present \ Present' : info[i].sub = "detect_frames" =>
              DeleteDetectJob /\ i = mcur.job
<1>1. info' = info /\ Done \subseteq Done' /\ TableTypeOK
  BY InfoKept, NextGrows DEF IInv, TableInv
<1>2. ASSUME Passive
      PROVE  /\ Present' \subseteq Present
             /\ \A m \in Masters :
                  \/ m \notin Present'
                       /\ (m \notin Present \/ Finished(m))
                  \/ m \in Present' /\ m \in Present /\ jobs'[m].state = jobs[m].state
             /\ \A i \in Present \ Present' : info[i].sub # "detect_frames"
  BY <1>2 DEF Passive, Masters
<1>3. ASSUME NEW s \in Slaves, SlaveNext(s) PROVE Passive
  BY <1>1, <1>3, SlavePassive DEF SlaveNext
<1>4. CASE StorageNext
  <2>1. Passive
    BY <1>1, <1>4, StoragePassive DEF Inserting
  <2> QED
    BY <1>1, <1>2, <2>1
<1>5. CASE UNCHANGED vars
  <2>1. Passive
    BY <1>1, <1>5, PassiveSame DEF vars, tableVars
  <2> QED
    BY <1>1, <1>2, <2>1
<1>6. CASE MasterNext
  <2>1. CASE MarkStarted \/ MarkFinished
    <3>1. PICK st \in {1, 2} :
            /\ jobs' = WithState(mcur.job, st)
            /\ \/ st = 1 /\ MarkStarted
               \/ st = 2 /\ MarkFinished
      BY <2>1 DEF MarkStarted, MarkFinished
    <3>2. At("mark") \/ At("finish")
      BY <2>1 DEF MarkStarted, MarkFinished
    <3>3. mcur.job \in Masters
      BY <3>2, AtPlan DEF PartTypes, Masters
    <3>4. /\ Present' = Present /\ \A i \in Present \ {mcur.job} : jobs'[i] = jobs[i]
          /\ mcur.job \in Present => jobs'[mcur.job].state = st
      BY <3>1, <3>3, MarkRows
    <3> QED
      BY <1>1, <3>1, <3>4
  <2>2. CASE DeleteDetectJob
    <3>1. jobs' = Without({mcur.job}) /\ info[mcur.job].sub = "detect_frames"
      BY <2>2, AtPlan DEF DeleteDetectJob, PartTypes
    <3>2. Present' = Present \ {mcur.job} /\ \A i \in Present' : jobs'[i] = jobs[i]
      BY <3>1 DEF Without, Present
    <3>3. mcur.job \notin Masters
      BY <3>1 DEF Masters
    <3> QED
      BY <1>1, <2>2, <3>2, <3>3
  <2>3. CASE PurgeChildren
    <3>1. jobs' = Without({i \in Children(mcur.job) : jobs[i].state = 2})
      BY <2>3 DEF PurgeChildren
    <3>2. mcur.job \in Masters /\ plan \in ClosePlans
      BY <2>3, AtPlan DEF PurgeChildren, ClosePlans, PartTypes, Masters
    <3>3. ClosedTable /\ Closed(mcur.job)
      BY <3>2, CloseParts DEF ClosedPlan
    <3>4. \A i \in Children(mcur.job) : i \in ChildrenEver(mcur.job) /\ i \in Present
      BY DEF Children, ChildrenEver, IInv, TableInv, TableTypeOK
    <3>5. \A i \in Children(mcur.job) : info[i].sub \notin {"master", "detect_frames"}
      BY <3>2, <3>3, <3>4, Owners DEF Closed
    <3>6. Passive
      BY <1>1, <3>1, <3>5, PassiveDelete
    <3> QED
      BY <1>1, <1>2, <3>6
  <2>4. CASE ReassignOrphan
    <3>1. PICK i \in orphans : \A j \in Present \ {i} : jobs'[j] = jobs[j]
      BY <1>1, <2>4, ReassignRows
    <3>2. Present' = Present
      BY <1>1, <2>4, ReassignRows
    <3>3. info[i].sub # "master"
      BY DEF AssignInv, OrphansFit, SlaveSubTypes
    <3>4. Passive
      BY <1>1, <3>1, <3>2, <3>3, PassiveUpdate
    <3> QED
      BY <1>1, <1>2, <3>4
  <2>5. CASE \/ FetchJobs \/ TakeRow \/ CleanupBound \/ Split \/ Raise \/ CleanupTasks
             \/ CrashMaster \/ RestartMaster
    <3>1. jobs' = jobs
      BY <2>5 DEF FetchJobs, TakeRow, CleanupBound, Split, Raise, CleanupTasks, CrashMaster,
                  RestartMaster, tableVars
    <3>2. Passive
      BY <1>1, <3>1, PassiveSame
    <3> QED
      BY <1>1, <1>2, <3>2
  <2> QED
    BY <1>6, <2>1, <2>2, <2>3, <2>4, <2>5 DEF MasterNext, MasterStep, Inserting
<1> QED
  BY <1>1, <1>2, <1>3, <1>4, <1>5, <1>6 DEF Next

\* A download is submitted before the transcode is marked as started.
LEMMA NextDownloadInv ==
  ASSUME IInv, AssignInv, PlanInv, CloseInv, DownloadInv, [Next]_vars
  PROVE  DownloadInv'
<1>1. CASE ~Inserting
  <2>1. /\ info' = info
        /\ Born' = Born /\ Masters' = Masters /\ \A m, x : Asked(m, x)' = Asked(m, x)
    BY <1>1, RowsMove, AskedSame
  <2>2. ClosedPlan
    BY CloseParts
  <2>3. ASSUME NEW m \in Masters, info[m].req \in Download,
               ~(m \in Present' /\ jobs'[m].state = 0)
        PROVE  Asked(m, "download") # {}
    <3>1. CASE ~(m \in Present /\ jobs[m].state = 0)
      BY <2>3, <3>1 DEF DownloadInv
    <3>2. CASE m \in Present /\ jobs[m].state = 0
      <4>1. m = mcur.job /\ (MarkStarted \/ MarkFinished)
        BY <1>1, <2>3, <3>2, RowsMove DEF Finished
      <4>2. CASE MarkStarted
        <5>1. plan = <<"mark", "detect_frames">>
          BY <4>2, AtPlan DEF MarkStarted, PartTypes
        <5> QED
          BY <2>3, <4>1, <5>1 DEF DownloadInv
      <4>3. CASE MarkFinished
        <5>1. plan \in ClosePlans
          BY <4>3, AtPlan DEF MarkFinished, PartTypes, ClosePlans
        <5> QED
          BY <2>2, <3>2, <4>1, <5>1 DEF ClosedPlan
      <4> QED
        BY <4>1, <4>2, <4>3
    <3> QED
      BY <3>1, <3>2
  <2>4. ASSUME plan' = <<"mark", "detect_frames">>, info[mcur'.job].req \in Download
        PROVE  \E m : mcur'.job = m /\ Asked(m, "download") # {}
    <3>1. CASE plan' = plan /\ mcur' = mcur
      BY <2>4, <3>1 DEF DownloadInv
    <3>2. plan' # <<>> /\ plan' # MarkedPlan /\ plan' \notin ClosePlans \cup DetectionPlans
      <4>1. plan' \in StartPlans
        BY <2>4 DEF StartPlans
      <4> QED
        BY <4>1, PlansDiffer DEF TranscodePlans
    <3>3. CASE \E row \in mrows : mcur' = row /\ plan' = PlanFor(row)
      <4>1. PICK row \in mrows : mcur' = row /\ plan' = PlanFor(row)
        BY <3>3
      <4>2. row.state \in 0 .. 2 /\ CleanupPlan # plan'
        <5>1. plan' \in StartPlans
          BY <2>4 DEF StartPlans
        <5> QED
          BY <4>1, <5>1, PlansDiffer DEF IInv, MasterInv, MasterTypeOK
      <4>3. PlanFor(row) = <<"download", "mark", "detect_frames">>
        <5>1. info[row.job].sub # "detect_frames"
          BY <3>2, <4>1 DEF PlanFor, DetectionPlans, DeletePlan
        <5>2. row.state = 0
          BY <3>2, <4>1, <4>2, <5>1 DEF PlanFor, ClosePlans, CleanupPlan
        <5> QED
          BY <2>4, <4>1, <5>1, <5>2 DEF PlanFor
      <4> QED
        BY <2>4, <4>1, <4>3, PlansDiffer
    <3> QED
      BY <1>1, <3>1, <3>2, <3>3, PlanMoves DEF ClosePlans, DetectionPlans, DeletedPlans
  <2>5. plan' = <<"mark", "detect_frames">> /\ info[mcur'.job].req \in Download
          => Asked(mcur.job, "download")' # {}
    BY <2>1, <2>4
  <2> QED
    BY <2>1, <2>3, <2>5 DEF DownloadInv
<1>2. ClosedTable
  BY CloseParts
<1>3. ASSUME NEW r \in Requests, SubmitXml(r), UNCHANGED masterVars PROVE DownloadInv'
  <2> DEFINE new == Len(info) + 1
  <2>1. Added("master", r, 0, {}) /\ plan' = plan /\ mcur' = mcur
    BY <1>3, SubmitXmlAdds DEF IInv, TableInv, masterVars
  <2>2. /\ Masters' = Masters \cup {new}
        /\ \A m \in Born : \A x : Asked(m, x)' = Asked(m, x)
    BY <1>2, <2>1, HoldingsBorn, AskedAdded
  <2>3. /\ \A i \in Born : info'[i] = info[i]
        /\ \A i \in Present : jobs'[i] = jobs[i]
        /\ \A i \in Born : i \in Present' <=> i \in Present
        /\ new \in Present' /\ jobs'[new].state = 0
    BY <2>1, AddedFinishes DEF Added
  <2>4. Masters \subseteq Born
    BY DEF Masters
  <2>5. \A m \in Masters' :
          info'[m].req \in Download /\ ~(m \in Present' /\ jobs'[m].state = 0) =>
            Asked(m, "download")' # {}
    BY <2>2, <2>3, <2>4 DEF DownloadInv
  <2>6. ASSUME plan' = <<"mark", "detect_frames">>, info'[mcur'.job].req \in Download
        PROVE  Asked(mcur.job, "download")' # {}
    <3>1. mcur.job \in Born
      BY <2>1, <2>6 DEF PlanInv
    <3>2. PICK m \in Born : m = mcur.job
      BY <3>1
    <3>3. Asked(m, "download")' # {}
      BY <2>1, <2>2, <2>3, <2>6, <3>2 DEF DownloadInv
    <3> QED
      BY <2>1, <3>2, <3>3
  <2> QED
    BY <2>5, <2>6 DEF DownloadInv
<1>4. ASSUME NEW sub \in ChildSubTypes, Submit(sub) PROVE DownloadInv'
  <2> DEFINE new == Len(info) + 1
  <2>1. Added(sub, info[mcur.job].req, Subject, DependenciesOf(sub)) /\ mcur' = mcur
    BY <1>4, SubmitAdds DEF IInv, TableInv, Subject, Submit
  <2>2. sub # "master" /\ Subject \in Masters /\ Masters \subseteq Born /\ mcur.job \in Born
    BY <1>4, SubmitStage DEF ChildSubTypes, SlaveSubTypes, StorageSubTypes, Masters
  <2>3. /\ Masters' = Masters
        /\ \A m \in Born : \A x :
             Asked(m, x)' = IF m = Subject /\ x = sub THEN Asked(m, x) \cup {new}
                            ELSE Asked(m, x)
    BY <1>2, <2>1, <2>2, AskedAdded
  <2>4. /\ \A i \in Born : info'[i] = info[i]
        /\ \A i \in Present : jobs'[i] = jobs[i]
        /\ \A i \in Born : i \in Present' <=> i \in Present
    BY <2>1, AddedFinishes DEF Added
  <2>5. \A m \in Masters' :
          info'[m].req \in Download /\ ~(m \in Present' /\ jobs'[m].state = 0) =>
            Asked(m, "download")' # {}
    BY <2>2, <2>3, <2>4 DEF DownloadInv
  <2>6. ASSUME plan' = <<"mark", "detect_frames">> PROVE Asked(mcur.job, "download")' # {}
    <3>1. plan' \in StartPlans
      BY <2>6 DEF StartPlans
    <3>2. sub = "download" /\ Subject = mcur.job
      BY <1>4, <2>6, <3>1, SubmitStage, PlansDiffer DEF TranscodePlans, DetectionPlans, DeletedPlans
    <3>3. PICK m \in Born : m = mcur.job
      BY <2>2
    <3>4. Asked(m, "download")' # {}
      BY <2>3, <3>2, <3>3
    <3> QED
      BY <2>1, <3>3, <3>4
  <2> QED
    BY <2>5, <2>6 DEF DownloadInv
<1> QED
  BY <1>1, <1>3, <1>4, InsertingSteps

\* StageInv in two parts: what it says of the table, and of the plan.
StageTable ==
  /\ \A m \in Masters :
       /\ Finished(m) => Full(m)
       /\ m \in Present /\ jobs[m].state = 0 => OnlyDetection(m, {})
       /\ mpc # "dead" /\ m \in Present /\ jobs[m].state = 1 =>
            \/ Full(m)
            \/ \E d \in Asked(m, "detect_frames") : d \in Present
            \/ plan # <<>> /\ Subject = m
  /\ \A d \in Present : info[d].sub = "detect_frames" =>
       OnlyDetection(info[d].master, {d})
StagePlan ==
  /\ plan = MarkedPlan => OnlyDetection(mcur.job, {})
  /\ plan \in ClosePlans => Full(mcur.job)
  /\ plan \in {DeletePlan} \cup DeletedPlans => OnlyDetection(Subject, {mcur.job})
  /\ plan \in DeletedPlans \cup PartPlans => mcur.job \notin Present
  /\ plan \in PartPlans =>
       /\ Asked(Subject, "detect_frames") = {mcur.job}
       /\ Left("raise") # {} \/ Promised(Subject)

\* These two parts are all of StageInv.
LEMMA StageParts == StageInv <=> StageTable /\ StagePlan
BY DEF StageInv, StageTable, StagePlan

\* As long as no master was started again, one that has ended stays so.
LEMMA MasterStaysDead ==
  ASSUME IInv, restarts' = 0, [Next]_vars PROVE restarts = 0 /\ (mpc' # "dead" => mpc # "dead")
<1>1. restarts \in Nat
  BY DEF IInv, MasterInv, MasterTypeOK
<1>2. ~RestartMaster
  BY <1>1 DEF RestartMaster
<1>3. CASE UNCHANGED masterVars
  BY <1>3 DEF masterVars
<1>4. CASE MasterNext
  BY <1>2, <1>4
     DEF MasterNext, MasterStep, FetchJobs, TakeRow, Submit, CleanupBound, MarkStarted,
         PurgeChildren, MarkFinished, DeleteDetectJob, Split, Raise, At, CleanupTasks,
         ReassignOrphan, CrashMaster
<1> QED
  BY <1>3, <1>4 DEF Next, SlaveNext, StorageNext, vars

\* While nothing is inserted, what was asked for and the stages it makes stay.
LEMMA StagesSame ==
  ASSUME info' = info
  PROVE  /\ \A m, x : Asked(m, x)' = Asked(m, x)
         /\ \A m, D : OnlyDetection(m, D) => OnlyDetection(m, D)'
         /\ \A m : Full(m) => Full(m)'
         /\ Masters' = Masters
<1>1. Masters' = Masters /\ \A m, x : Asked(m, x)' = Asked(m, x)
  BY AskedSame
<1>2. \A m, D : OnlyDetection(m, D) => OnlyDetection(m, D)'
  BY <1>1 DEF OnlyDetection
<1>3. \A m : Full(m) => Full(m)'
  BY <1>1 DEF Full
<1> QED
  BY <1>1, <1>2, <1>3

\* A transcode that is finished, marked or purged without an INSERT.
LEMMA StageTableKept ==
  ASSUME IInv, AssignInv, PlanInv, CloseInv, StageInv, restarts' = 0,
         [Next]_vars, ~Inserting
  PROVE  StageTable'
<1>1. StageTable /\ StagePlan /\ ClosedTable /\ ClosedPlan
  BY StageParts, CloseParts
<1>2. /\ info' = info /\ Masters' = Masters
      /\ \A m, x : Asked(m, x)' = Asked(m, x)
      /\ \A m, D : OnlyDetection(m, D) => OnlyDetection(m, D)'
      /\ \A m : Full(m) => Full(m)'
  BY RowsMove, StagesSame
<1>3. ASSUME NEW m \in Masters, FinishedNext(m) PROVE Full(m)
  <2>1. CASE Finished(m)
    BY <1>1, <2>1 DEF StageTable
  <2>2. CASE ~Finished(m)
    <3>1. MarkFinished /\ m = mcur.job
      BY <1>3, <2>2, RowsMove DEF FinishedNext, Finished
    <3>2. plan \in ClosePlans
      BY <3>1, AtPlan DEF MarkFinished, ClosePlans, PartTypes
    <3> QED
      BY <1>1, <3>1, <3>2 DEF StagePlan
  <2> QED
    BY <2>1, <2>2
<1>4. ASSUME NEW m \in Masters, m \in Present', jobs'[m].state = 0
      PROVE  OnlyDetection(m, {})
  BY <1>1, <1>4, RowsMove DEF StageTable
<1>5. ASSUME NEW m \in Masters, mpc' # "dead", m \in Present', jobs'[m].state = 1
      PROVE  \/ Full(m)
             \/ \E d \in Asked(m, "detect_frames") : d \in Present'
             \/ plan' # <<>> /\ Owner(mcur.job) = m /\ mcur' = mcur
  <2>1. CASE MarkStarted /\ m = mcur.job
    <3>1. plan' = MarkedPlan /\ mcur' = mcur
      BY <2>1, AtPlan DEF MarkStarted, PartTypes
    <3>2. plan' # <<>> /\ Owner(m) = m
      BY <1>1, <3>1, Owners, PlansDiffer DEF TranscodePlans
    <3> QED
      BY <2>1, <3>1, <3>2
  <2>2. CASE ~(MarkStarted /\ m = mcur.job)
    <3>1. m \in Present /\ jobs[m].state = 1 /\ mpc # "dead"
      BY <1>5, <2>2, RowsMove, MasterStaysDead
    <3>2. \/ Full(m)
          \/ \E d \in Asked(m, "detect_frames") : d \in Present
          \/ plan # <<>> /\ Subject = m
      BY <1>1, <3>1 DEF StageTable
    <3>3. ASSUME NEW d \in Asked(m, "detect_frames"), d \in Present, d \notin Present'
          PROVE  plan' # <<>> /\ Owner(mcur.job) = m /\ mcur' = mcur
      <4>1. DeleteDetectJob /\ d = mcur.job
        BY <3>3, RowsMove DEF Asked
      <4>2. plan' = <<"audio_demux", "split">> /\ mcur' = mcur
        BY <4>1, AtPlan DEF DeleteDetectJob, PartTypes
      <4>3. Owner(d) = m
        BY <3>3 DEF Asked, ChildrenEver, Owner
      <4> QED
        BY <4>1, <4>2, <4>3
    <3>4. ASSUME plan # <<>>, Subject = m
          PROVE  Full(m) \/ (plan' # <<>> /\ Owner(mcur.job) = m /\ mcur' = mcur)
      <4>1. CASE plan' = <<>>
        <5>1. CASE plan = <<"finish">>
          <6>1. plan \in ClosePlans
            BY <5>1 DEF ClosePlans
          <6>2. Full(mcur.job) /\ mcur.job \in Masters
            BY <1>1, <3>4, <6>1, PlanOfRow, PlansDiffer DEF StagePlan, Masters
          <6>3. Subject = mcur.job
            BY <1>1, <6>2, Owners DEF Subject
          <6> QED
            BY <3>4, <6>2, <6>3
        <5>2. CASE plan = CleanupPlan
          <6>1. Finished(mcur.job) /\ mcur.job \in Masters
            BY <1>1, <3>4, <5>2, PlanOfRow, PlansDiffer DEF ClosedPlan, Masters
          <6>2. Subject = mcur.job
            BY <1>1, <6>1, Owners DEF Subject
          <6> QED
            BY <3>1, <3>4, <6>1, <6>2 DEF Finished
        <5> QED
          BY <1>5, <3>4, <4>1, <5>1, <5>2, PlanMoves, PlansDiffer
             DEF TranscodePlans, DetectionPlans
      <4>2. CASE plan' # <<>>
        <5>1. mcur' = mcur
          BY <3>4, <4>2, PlanMoves
        <5> QED
          BY <3>4, <4>2, <5>1 DEF Subject
      <4> QED
        BY <4>1, <4>2
    <3> QED
      BY <3>2, <3>3, <3>4
  <2> QED
    BY <2>1, <2>2
<1>6. ASSUME NEW d \in Present', info[d].sub = "detect_frames"
      PROVE  OnlyDetection(info[d].master, {d})
  BY <1>1, <1>6, RowsMove DEF StageTable
<1>7. \A m \in Masters' :
        /\ FinishedNext(m) => Full(m)'
        /\ m \in Present' /\ jobs'[m].state = 0 => OnlyDetection(m, {})'
  BY <1>2, <1>3, <1>4
<1>8. \A m \in Masters' :
        mpc' # "dead" /\ m \in Present' /\ jobs'[m].state = 1 =>
            \/ Full(m)'
            \/ \E d \in Asked(m, "detect_frames")' : d \in Present'
            \/ plan' # <<>> /\ Subject' = m
  <2>1. mcur' = mcur => Subject' = Owner(mcur.job)
    BY <1>2 DEF Subject, Owner
  <2> QED
    BY <1>2, <1>5, <2>1
<1>9. ASSUME NEW d \in Present', info'[d].sub = "detect_frames"
      PROVE  OnlyDetection(info[d].master, {d})'
  <2>1. PICK m : m = info[d].master
    OBVIOUS
  <2>2. OnlyDetection(m, {d})'
    BY <1>2, <1>6, <1>9, <2>1
  <2> QED
    BY <1>2, <2>1, <2>2
<1> QED
  BY <1>7, <1>8, <1>9 DEF StageTable, FinishedNext, Finished

\* A transcode that is being closed, or has its parts planned, without an INSERT.
LEMMA StagePlanKept ==
  ASSUME IInv, AssignInv, PlanInv, CloseInv, RequestInv, StageInv, restarts' = 0,
         [Next]_vars, ~Inserting
  PROVE  StagePlan'
<1>1. StageTable /\ StagePlan /\ ClosedTable /\ ClosedPlan /\ ClosedRows
  BY StageParts, CloseParts
<1>2. /\ info' = info /\ Masters' = Masters /\ Present' \subseteq Present
      /\ \A m, x : Asked(m, x)' = Asked(m, x)
      /\ \A m, D : OnlyDetection(m, D) => OnlyDetection(m, D)'
      /\ \A m : Full(m) => Full(m)'
  BY RowsMove, StagesSame
<1>3. \A r : mcur' = r => Subject' = Owner(r.job)
  BY <1>2 DEF Subject, Owner
<1>4. CASE plan' = <<>>
  BY <1>4, PlansDiffer DEF StagePlan, TranscodePlans, DetectionPlans
<1>5. CASE plan' = plan /\ mcur' = mcur
  <2>1. /\ \A x : Left(x)' = Left(x)
        /\ Subject' = Subject
    BY <1>2, <1>5 DEF Left, Subject, Owner
  <2>2. \A m : Promised(m) => Promised(m)'
    BY <1>2, <2>1 DEF Promised
  <2>3. PICK m, j : m = Subject /\ j = mcur.job
    OBVIOUS
  <2>4. /\ plan = MarkedPlan => OnlyDetection(j, {})'
        /\ plan \in ClosePlans => Full(j)'
        /\ plan \in {DeletePlan} \cup DeletedPlans => OnlyDetection(m, {j})'
        /\ plan \in PartPlans =>
             /\ Asked(m, "detect_frames")' = {j}
             /\ Left("raise")' # {} \/ Promised(m)'
    BY <1>1, <1>2, <2>1, <2>2, <2>3 DEF StagePlan
  <2>5. plan \in DeletedPlans \cup PartPlans => j \notin Present'
    BY <1>1, <1>2, <2>3 DEF StagePlan
  <2> QED
    BY <1>5, <2>1, <2>3, <2>4, <2>5 DEF StagePlan
<1>6. ASSUME NEW row \in mrows, mpc = "rows", plan = <<>>, mcur' = row,
             plan' = PlanFor(row), plan' # <<>>
      PROVE  StagePlan'
  <2>1. row.job \in Born
    BY PlanForKinds
  <2>2. PICK j : j = row.job
    OBVIOUS
  <2>3. CASE info[j].sub = "master" /\ PlanFor(row) \in TranscodePlans \ {MarkedPlan}
    <3>1. ASSUME plan' \in ClosePlans PROVE Full(j)'
      <4>1. j \in Masters /\ j \in Present /\ jobs[j].state = 1
        <5>1. row.state = 1
          <6>1. plan' # CleanupPlan /\ plan' \notin StartPlans
            BY <3>1, PlansDiffer
          <6>2. row.state \in 0 .. 2
            BY DEF IInv, MasterInv, MasterTypeOK
          <6> QED
            BY <1>6, <2>2, <2>3, <6>1, <6>2 DEF PlanFor, StartPlans, CleanupPlan
        <5> QED
          BY <1>1, <2>1, <2>2, <2>3, <5>1 DEF ClosedRows, Masters
      <4>2. Unfinished(j) = {}
        <5>1. row.state = 1
          BY <1>1, <2>2, <2>3, <4>1 DEF ClosedRows
        <5> QED
          BY <1>6, <2>2, <2>3, <5>1 DEF PlanFor
      <4>3. \A d \in Asked(j, "detect_frames") : d \notin Present
        BY <4>2 DEF Unfinished, Children, Asked, ChildrenEver
      <4>4. Full(j)
        BY <1>1, <1>6, <4>1, <4>3 DEF StageTable
      <4> QED
        BY <1>2, <4>4
    <3>2. plan' \in ClosePlans => Full(mcur.job)'
      BY <1>6, <2>2, <3>1
    <3> QED
      BY <1>6, <2>3, <3>2, PlansDiffer DEF StagePlan, TranscodePlans, DetectionPlans
  <2>4. CASE info[j].sub = "detect_frames" /\ PlanFor(row) = DeletePlan
    <3>1. j \in Present
      BY <1>1, <2>2, <2>4 DEF ClosedRows
    <3>2. PICK m : m = info[j].master
      OBVIOUS
    <3>3. OnlyDetection(m, {j})'
      BY <1>1, <1>2, <2>4, <3>1, <3>2 DEF StageTable
    <3>4. Owner(row.job) = m
      BY <2>2, <2>4, <3>2 DEF Owner
    <3>5. OnlyDetection(Subject, {mcur.job})'
      BY <1>3, <1>6, <2>2, <3>3, <3>4
    <3> QED
      BY <1>6, <2>4, <3>5, PlansDiffer DEF StagePlan, DetectionPlans
  <2> QED
    BY <1>6, <2>2, <2>3, <2>4, PlanForKinds
<1>7. CASE /\ MarkStarted /\ info[mcur.job].sub = "master" /\ mcur' = mcur
           /\ plan = <<"mark", "detect_frames">> /\ plan' = MarkedPlan
  <2>1. plan \in StartPlans
    BY <1>7 DEF StartPlans
  <2>2. PICK j : j = mcur.job
    OBVIOUS
  <2>3. j \in Masters /\ j \in Present /\ jobs[j].state = 0
    BY <1>1, <1>7, <2>1, <2>2, PlanOfRow, PlansDiffer DEF ClosedPlan, Masters, TranscodePlans
  <2>4. OnlyDetection(j, {})'
    BY <1>1, <1>2, <2>3 DEF StageTable
  <2>5. OnlyDetection(mcur.job, {})'
    BY <1>7, <2>2, <2>4
  <2> QED
    BY <1>7, <2>5, PlansDiffer DEF StagePlan, DetectionPlans
<1>8. CASE /\ PurgeChildren /\ info[mcur.job].sub = "master" /\ mcur' = mcur
           /\ plan = <<"purge", "finish">> /\ plan' = <<"finish">>
  <2>1. plan \in ClosePlans /\ plan' \in ClosePlans
    BY <1>8 DEF ClosePlans
  <2>2. PICK j : j = mcur.job
    OBVIOUS
  <2>3. Full(j)'
    BY <1>1, <1>2, <2>1, <2>2 DEF StagePlan
  <2>4. Full(mcur.job)'
    BY <1>8, <2>2, <2>3
  <2> QED
    BY <1>8, <2>1, <2>4, PlansDiffer DEF StagePlan, DetectionPlans
<1>9. CASE /\ DeleteDetectJob /\ info[mcur.job].sub = "detect_frames" /\ mcur' = mcur
           /\ plan = DeletePlan /\ plan' = <<"audio_demux", "split">>
  <2>1. plan' \in DeletedPlans
    BY <1>9 DEF DeletedPlans
  <2>2. PICK j, m : j = mcur.job /\ m = Subject
    OBVIOUS
  <2>3. OnlyDetection(m, {j})'
    BY <1>1, <1>2, <1>9, <2>2 DEF StagePlan
  <2>4. OnlyDetection(Subject, {mcur.job})'
    BY <1>3, <1>9, <2>2, <2>3 DEF Subject
  <2>5. mcur'.job \notin Present'
    BY <1>9 DEF DeleteDetectJob, Without, Present
  <2> QED
    BY <2>1, <2>4, <2>5, PlansDiffer DEF StagePlan, DetectionPlans
<1>10. CASE /\ Split /\ info[mcur.job].sub = "detect_frames" /\ mcur' = mcur
            /\ plan = <<"split">> /\ plan' \in PartPlans
  <2>1. plan \in DeletedPlans /\ plan' # <<>>
    BY <1>10 DEF DeletedPlans, PartPlans
  <2>2. PICK j, m : j = mcur.job /\ m = Subject
    OBVIOUS
  <2>3. /\ Asked(m, "detect_frames") = {j} /\ Asked(m, "count_frames") = {}
        /\ j \notin Present /\ m = info[j].master /\ j \in Born
    BY <1>1, <1>10, <2>1, <2>2, PlanOfRow DEF StagePlan, OnlyDetection, Subject, Owner
  <2>4. Left("raise")' # {} \/ Promised(m)'
    <3>1. CASE plan' = <<"raise">>
      <4>1. 1 \in DOMAIN plan' /\ plan'[1] = "raise"
        BY <3>1
      <4> QED
        BY <4>1 DEF Left
    <3>2. CASE plan' # <<"raise">>
      <4>1. PICK n, k : /\ n \in Nat /\ k \in Nat
                        /\ plan' = PartsPlan(n, k, info[j].req)
        <5>1. plan' = PartsPlan(NumberOfRegisteredSlaves, mcur.cuts, info[mcur.job].req)
          BY <1>10, <3>2 DEF Split
        <5>2. mcur.cuts \in Nat /\ NumberOfRegisteredSlaves \in Nat
          BY RegisteredSlavesNumber DEF IInv, MasterInv, MasterTypeOK
        <5> QED
          BY <2>2, <5>1, <5>2
      <4>2. info[j].req = info[m].req
        BY <1>10, <2>2, <2>3 DEF RequestInv
      <4>3. \A x : LeftIn(plan', x) = Left(x)'
        BY DEF LeftIn, Left
      <4>4. LeftIn(plan', "raise") # {} \/ Complete(plan', info[m].req)
        BY <4>1, <4>2, PartsPlanPromises
      <4>5. Cardinality({}) = 0
        BY FS_EmptySet
      <4>6. ASSUME Complete(plan', info[m].req) PROVE Promised(m)'
        <5>1. /\ Left("av_mux")' # {}
              /\ info[m].req \in Confirm => Cardinality(Left("count_frames")') = 2
              /\ info[m].req \in Upload => Left("upload")' # {}
          BY <4>3, <4>6 DEF Complete
        <5>2. info[m].req \in Confirm =>
                Cardinality(Asked(m, "count_frames")) + Cardinality(Left("count_frames")') = 2
          BY <2>3, <4>5, <5>1
        <5>3. Asked(m, "count_frames")' = Asked(m, "count_frames")
          BY <1>2
        <5> QED
          BY <1>2, <5>1, <5>2, <5>3 DEF Promised
      <4> QED
        BY <4>3, <4>4, <4>6
    <3> QED
      BY <3>1, <3>2
  <2>5. Asked(m, "detect_frames")' = {j}
    BY <1>2, <2>3
  <2>6. Subject' = m /\ mcur'.job = j
    BY <1>3, <1>10, <2>2 DEF Subject
  <2>7. j \notin Present'
    BY <1>2, <2>3
  <2>8. /\ Asked(Subject, "detect_frames")' = {mcur'.job}
        /\ Left("raise")' # {} \/ Promised(Subject)'
    BY <2>4, <2>5, <2>6
  <2> QED
    BY <1>10, <2>6, <2>7, <2>8, PlansDiffer DEF StagePlan, DetectionPlans
<1> QED
  BY <1>4, <1>5, <1>6, <1>7, <1>8, <1>9, <1>10, PlanMoves

\* A job that is inserted for a transcode moves no other transcode to another
\* stage, and its own one only if it is a detection or a frame count.
LEMMA StagesBeside ==
  ASSUME IInv, ClosedTable, NEW sub, NEW r, NEW o, NEW D, Added(sub, r, o, D),
         sub = "master" => o = 0
  PROVE  \A m \in Born : ~(m = o /\ sub \in {"detect_frames", "count_frames"}) =>
           /\ \A E : OnlyDetection(m, E) => OnlyDetection(m, E)'
           /\ Full(m) => Full(m)'
<1> SUFFICES ASSUME NEW m \in Born, ~(m = o /\ sub \in {"detect_frames", "count_frames"})
             PROVE  /\ \A E : OnlyDetection(m, E) => OnlyDetection(m, E)'
                    /\ Full(m) => Full(m)'
  OBVIOUS
<1>1. /\ \A x : Asked(m, x) \subseteq Asked(m, x)'
      /\ Asked(m, "detect_frames")' = Asked(m, "detect_frames")
      /\ Asked(m, "count_frames")' = Asked(m, "count_frames")
  BY AskedAdded
<1>2. info'[m] = info[m]
  BY DEF Added
<1>3. \A E : OnlyDetection(m, E) => OnlyDetection(m, E)'
  BY <1>1 DEF OnlyDetection
<1>4. Full(m) => Full(m)'
  BY <1>1, <1>2 DEF Full
<1> QED
  BY <1>3, <1>4

\* What was asked for is a finite set.
LEMMA AskedFinite ==
  ASSUME IInv
  PROVE  \A m, x : IsFiniteSet(Asked(m, x)) /\ Cardinality(Asked(m, x)) \in Nat
<1>1. Born = 1 .. Len(info) /\ Len(info) \in Nat
  BY DEF IInv, TableInv, TableTypeOK, Born
<1>2. IsFiniteSet(Born)
  BY <1>1, FS_Interval
<1>3. \A m, x : Asked(m, x) \in SUBSET Born
  BY DEF Asked, ChildrenEver
<1> QED
  BY <1>2, <1>3, FS_Subset, FS_CardinalityType

\* A part that is submitted goes over from what is left to what was asked for.
LEMMA PartSubmitted ==
  ASSUME IInv, PlanInv, CloseInv, NEW sub \in PartTypes, Submit(sub), NEW m \in Born, m = Subject,
         Promised(m)
  PROVE  /\ Asked(m, "av_mux")' # {} \/ LeftIn(Tail(plan), "av_mux") # {}
         /\ info[m].req \in Confirm =>
              Cardinality(Asked(m, "count_frames")') +
              Cardinality(LeftIn(Tail(plan), "count_frames")) = 2
         /\ info[m].req \in Upload =>
              Asked(m, "upload")' # {} \/ LeftIn(Tail(plan), "upload") # {}
<1> DEFINE new == Len(info) + 1
<1>1. sub \in ChildSubTypes /\ sub # "master"
  BY DEF PartTypes, ChildSubTypes, SlaveSubTypes, StorageSubTypes
<1>2. Added(sub, info[mcur.job].req, Subject, DependenciesOf(sub))
  BY SubmitAdds DEF IInv, TableInv, Subject, Submit
<1>3. /\ \A x : Asked(m, x)' = IF x = sub THEN Asked(m, x) \cup {new} ELSE Asked(m, x)
      /\ \A x : new \notin Asked(m, x)
  <2>1. ClosedTable
    BY CloseParts
  <2> QED
    BY <1>1, <1>2, <2>1, AskedAdded
<1>4. plan \in Seq(Instructions) /\ plan # <<>> /\ Head(plan) = sub
  BY DEF IInv, MasterInv, MasterTypeOK, Submit, At
<1>5. \A x : /\ Left(x) = LeftIn(plan, x)
             /\ IsFiniteSet(LeftIn(Tail(plan), x))
             /\ sub # x =>
                  /\ Cardinality(LeftIn(Tail(plan), x)) = Cardinality(LeftIn(plan, x))
                  /\ LeftIn(plan, x) # {} => LeftIn(Tail(plan), x) # {}
             /\ sub = x =>
                  Cardinality(LeftIn(plan, x)) = Cardinality(LeftIn(Tail(plan), x)) + 1
  <2>1. \A x : Left(x) = LeftIn(plan, x)
    BY DEF Left, LeftIn
  <2>2. \A x : /\ IsFiniteSet(LeftIn(Tail(plan), x))
               /\ Head(plan) # x =>
                    /\ Cardinality(LeftIn(Tail(plan), x)) = Cardinality(LeftIn(plan, x))
                    /\ LeftIn(plan, x) # {} => LeftIn(Tail(plan), x) # {}
               /\ Head(plan) = x =>
                    Cardinality(LeftIn(plan, x)) = Cardinality(LeftIn(Tail(plan), x)) + 1
    BY <1>4, TailLeft
  <2> QED
    BY <1>4, <2>1, <2>2
<1>6. ASSUME NEW x, Asked(m, x) # {} \/ Left(x) # {}
      PROVE  Asked(m, x)' # {} \/ LeftIn(Tail(plan), x) # {}
  BY <1>3, <1>5, <1>6
<1>7. ASSUME Cardinality(Asked(m, "count_frames")) + Cardinality(Left("count_frames")) = 2
      PROVE  Cardinality(Asked(m, "count_frames")') +
             Cardinality(LeftIn(Tail(plan), "count_frames")) = 2
  <2>1. CASE sub # "count_frames"
    BY <1>3, <1>5, <1>7, <2>1
  <2>2. CASE sub = "count_frames"
    <3> DEFINE A == Asked(m, "count_frames")
               T == LeftIn(Tail(plan), "count_frames")
    <3>1. IsFiniteSet(A) /\ Cardinality(A) \in Nat
      BY AskedFinite
    <3>2. Cardinality(T) \in Nat
      BY <1>5, FS_CardinalityType
    <3>3. Cardinality(A \cup {new}) = Cardinality(A) + 1
      BY <1>3, <3>1, FS_AddElement
    <3>4. Cardinality(Left("count_frames")) = Cardinality(T) + 1
      BY <1>5, <2>2
    <3>5. Asked(m, "count_frames")' = A \cup {new}
      BY <1>3, <2>2
    <3>6. Cardinality(A) + (Cardinality(T) + 1) = 2
      BY <1>7, <3>4
    <3>7. (Cardinality(A) + 1) + Cardinality(T) = 2
      BY <3>1, <3>2, <3>6
    <3> QED
      BY <3>3, <3>5, <3>7
  <2> QED
    BY <2>1, <2>2
<1>8. /\ Asked(m, "av_mux") # {} \/ Left("av_mux") # {}
      /\ info[m].req \in Confirm =>
           Cardinality(Asked(m, "count_frames")) + Cardinality(Left("count_frames")) = 2
      /\ info[m].req \in Upload => Asked(m, "upload") # {} \/ Left("upload") # {}
  BY DEF Promised
<1>9. info[m].req \in Confirm =>
        Cardinality(Asked(m, "count_frames")') +
        Cardinality(LeftIn(Tail(plan), "count_frames")) = 2
  BY <1>7, <1>8
<1> QED
  BY <1>6, <1>8, <1>9

\* A part that is submitted leaves the transcode promised, or complete.
LEMMA PartStages ==
  ASSUME IInv, PlanInv, CloseInv, StageInv, NEW sub \in PartTypes, Submit(sub),
         NEW m \in Born, m = Subject, NEW j, j = mcur.job
  PROVE  /\ plan \in PartPlans /\ Asked(m, "detect_frames") = {j} /\ j \notin Present
         /\ plan' \in PartPlans =>
              /\ Asked(m, "detect_frames")' = {j}
              /\ Left("raise")' # {} \/ Promised(m)'
         /\ plan' = <<>> => Full(m)'
<1>1. sub \in ChildSubTypes /\ sub \notin {"master", "detect_frames", "download", "cleanup",
                                           "audio_demux", "raise"}
  BY DEF PartTypes, ChildSubTypes, SlaveSubTypes, StorageSubTypes
<1>2. plan \in PartPlans /\ plan' = Tail(plan) /\ plan \in Seq(Instructions) /\ plan # <<>>
      /\ Head(plan) = sub
  BY <1>1, SubmitStage DEF Submit, At, IInv, MasterInv, MasterTypeOK
<1>3. /\ Asked(m, "detect_frames") = {j} /\ j \notin Present
      /\ Left("raise") # {} \/ Promised(m)
  BY <1>2, StageParts DEF StagePlan
<1>4. Added(sub, info[mcur.job].req, Subject, DependenciesOf(sub)) /\ ClosedTable
  BY <1>1, SubmitAdds, CloseParts DEF IInv, TableInv, Subject, Submit
<1>5. Asked(m, "detect_frames")' = {j} /\ info'[m] = info[m]
  BY <1>1, <1>3, <1>4, AskedAdded DEF Added
<1>6. \A x : Left(x)' = LeftIn(plan', x)
  BY DEF Left, LeftIn
<1>7. ASSUME Left("raise") # {} PROVE Left("raise")' # {}
  <2>1. LeftIn(plan, "raise") # {}
    BY <1>7 DEF Left, LeftIn
  <2> QED
    BY <1>1, <1>2, <1>6, <2>1, TailLeft
<1>8. ASSUME Promised(m)
      PROVE  /\ Asked(m, "av_mux")' # {} \/ Left("av_mux")' # {}
             /\ info'[m].req \in Confirm =>
                  Cardinality(Asked(m, "count_frames")') +
                  Cardinality(Left("count_frames")') = 2
             /\ info'[m].req \in Upload => Asked(m, "upload")' # {} \/ Left("upload")' # {}
  BY <1>2, <1>5, <1>6, <1>8, PartSubmitted
<1>9. ASSUME plan' = <<>> PROVE Full(m)'
  <2>1. \A x : Left(x)' = {}
    BY <1>9 DEF Left
  <2>2. Cardinality({}) = 0
    BY FS_EmptySet
  <2>3. Promised(m)
    BY <1>3, <1>7, <2>1
  <2>4. Asked(m, "av_mux")' # {} /\ (info'[m].req \in Upload => Asked(m, "upload")' # {})
    BY <1>8, <2>1, <2>3
  <2>5. ASSUME info'[m].req \in Confirm PROVE Cardinality(Asked(m, "count_frames")') = 2
    <3>1. Cardinality(Asked(m, "count_frames")') + 0 = 2
      BY <1>8, <2>1, <2>2, <2>3, <2>5
    <3>2. Cardinality(Asked(m, "count_frames")') \in Nat
      <4> DEFINE A == Asked(m, "count_frames")
                 new == Len(info) + 1
      <4>1. Asked(m, "count_frames")' = A \/ Asked(m, "count_frames")' = A \cup {new}
        BY <1>1, <1>4, AskedAdded
      <4>2. IsFiniteSet(A) /\ IsFiniteSet(A \cup {new})
        BY AskedFinite, FS_AddElement
      <4> QED
        BY <4>1, <4>2, FS_CardinalityType
    <3> QED
      BY <3>1, <3>2
  <2> QED
    BY <2>4, <2>5 DEF Full
<1>10. (Left("raise") # {} \/ Promised(m)) => Left("raise")' # {} \/ Promised(m)'
  BY <1>7, <1>8 DEF Promised
<1> QED
  BY <1>2, <1>3, <1>5, <1>9, <1>10

\* check_xml_submits inserts a transcode at its start.
LEMMA XmlStages ==
  ASSUME IInv, PlanInv, CloseInv, StageInv, NEW r \in Requests, SubmitXml(r),
         UNCHANGED masterVars
  PROVE  StageInv'
<1> DEFINE new == Len(info) + 1
<1>1. StageTable /\ StagePlan /\ ClosedTable
  BY StageParts, CloseParts
<1>2. Added("master", r, 0, {}) /\ plan' = plan /\ mcur' = mcur /\ mpc' = mpc
  BY SubmitXmlAdds DEF IInv, TableInv, masterVars
<1>3. /\ Masters' = Masters \cup {new} /\ Masters \subseteq Born
      /\ \A m \in Born : \A x : Asked(m, x)' = Asked(m, x)
      /\ \A m, x : m = new => Asked(m, x)' = {}
  BY <1>1, <1>2, HoldingsBorn, AskedAdded DEF Masters
<1>4. \A m \in Born : /\ \A E : OnlyDetection(m, E) => OnlyDetection(m, E)'
                      /\ Full(m) => Full(m)'
  BY <1>1, <1>2, HoldingsBorn, StagesBeside
<1>5. /\ \A i \in Born : info'[i] = info[i]
      /\ \A i \in Present : jobs'[i] = jobs[i]
      /\ \A i \in Born : FinishedNext(i) <=> Finished(i)
      /\ \A i \in Born : i \in Present' <=> i \in Present
      /\ ~FinishedNext(new) /\ new \in Present' /\ jobs'[new].state = 0
      /\ info'[new].sub = "master" /\ Present' = Present \cup {new}
      /\ Present \subseteq Born /\ new \notin Born
  BY <1>2, AddedFinishes DEF Added, IInv, TableInv, TableTypeOK
<1>6. plan # <<>> => Subject' = Subject /\ mcur.job \in Born /\ Subject \in Born
  <2>1. \A i \in Born : Owner(i) \in Born /\ Owner(i) = IF info'[i].sub = "master" THEN i ELSE info'[i].master
    BY <1>1, <1>5, Owners DEF Owner
  <2> QED
    BY <1>2, <2>1 DEF PlanInv, Subject, Owner
<1>7. \A m \in Masters' :
        /\ FinishedNext(m) => Full(m)'
        /\ m \in Present' /\ jobs'[m].state = 0 => OnlyDetection(m, {})'
  <2>1. \A m : m = new => OnlyDetection(m, {})'
    BY <1>3 DEF OnlyDetection
  <2> QED
    BY <1>1, <1>3, <1>4, <1>5, <2>1 DEF StageTable
<1>8. \A m \in Masters' :
        mpc' # "dead" /\ m \in Present' /\ jobs'[m].state = 1 =>
            \/ Full(m)'
            \/ \E d \in Asked(m, "detect_frames")' : d \in Present'
            \/ plan' # <<>> /\ Subject' = m
  BY <1>1, <1>2, <1>3, <1>4, <1>5, <1>6 DEF StageTable
<1>9. ASSUME NEW d \in Present', info'[d].sub = "detect_frames"
      PROVE  OnlyDetection(info[d].master, {d})'
  <2>1. d \in Present /\ d \in Born /\ info'[d] = info[d]
    BY <1>5, <1>9
  <2>2. PICK m : m = info[d].master
    OBVIOUS
  <2>3. m \in Born
    BY <1>5, <1>9, <2>1, <2>2 DEF IInv, TableInv, KindsOK
  <2>4. OnlyDetection(m, {d})'
    BY <1>1, <1>4, <1>9, <2>1, <2>2, <2>3 DEF StageTable
  <2> QED
    BY <2>1, <2>2, <2>4
<1>10. StageTable'
  BY <1>7, <1>8, <1>9 DEF StageTable, FinishedNext, Finished
<1>11. StagePlan'
  <2>1. CASE plan = <<>>
    BY <1>2, <2>1, PlansDiffer DEF StagePlan, TranscodePlans, DetectionPlans
  <2>2. CASE plan # <<>>
    <3>1. PICK m, j : m = Subject /\ j = mcur.job
      OBVIOUS
    <3>2. m \in Born /\ j \in Born
      BY <1>6, <2>2, <3>1
    <3>3. \A x : Left(x)' = Left(x)
      BY <1>2 DEF Left
    <3>4. Promised(m) => Promised(m)'
      BY <1>3, <1>5, <3>2, <3>3 DEF Promised
    <3>5. /\ plan = MarkedPlan => OnlyDetection(j, {})'
          /\ plan \in ClosePlans => Full(j)'
          /\ plan \in {DeletePlan} \cup DeletedPlans => OnlyDetection(m, {j})'
          /\ plan \in PartPlans =>
               /\ Asked(m, "detect_frames")' = {j}
               /\ Left("raise")' # {} \/ Promised(m)'
      BY <1>1, <1>3, <1>4, <3>1, <3>2, <3>3, <3>4 DEF StagePlan
    <3>6. plan \in DeletedPlans \cup PartPlans => j \notin Present'
      BY <1>1, <1>5, <3>1, <3>2 DEF StagePlan
    <3>7. mcur'.job = j /\ Subject' = m
      BY <1>2, <1>6, <2>2, <3>1
    <3> QED
      BY <1>2, <3>5, <3>6, <3>7 DEF StagePlan
  <2> QED
    BY <2>1, <2>2
<1> QED
  BY <1>10, <1>11 DEF StageInv, StageTable, StagePlan

\* A job of a transcode moves it on when it is the detection or the last part.
LEMMA SubmitStageTable ==
  ASSUME IInv, PlanInv, CloseInv, StageInv, NEW sub \in ChildSubTypes, Submit(sub)
  PROVE  StageTable'
<1> DEFINE new == Len(info) + 1
<1>1. StageTable /\ StagePlan /\ ClosedTable /\ ClosedPlan
  BY StageParts, CloseParts
<1>2. /\ Added(sub, info[mcur.job].req, Subject, DependenciesOf(sub)) /\ sub # "master"
      /\ mcur' = mcur /\ mpc' = mpc
  BY SubmitAdds DEF IInv, TableInv, Subject, Submit, ChildSubTypes, SlaveSubTypes, StorageSubTypes
<1>3. PICK o, j : o = Subject /\ j = mcur.job
  OBVIOUS
<1>4. o \in Masters /\ o \in Born /\ j \in Born /\ (Finished(o) <=> sub = "cleanup")
  BY <1>3, SubmitStage DEF Masters
<1>5. /\ Masters' = Masters /\ Masters \subseteq Born
      /\ \A m \in Born : \A x :
           Asked(m, x)' = IF m = o /\ x = sub THEN Asked(m, x) \cup {new} ELSE Asked(m, x)
  BY <1>1, <1>2, <1>3, AskedAdded DEF Masters
<1>6. \A m \in Born : ~(m = o /\ sub \in {"detect_frames", "count_frames"}) =>
        /\ \A E : OnlyDetection(m, E) => OnlyDetection(m, E)'
        /\ Full(m) => Full(m)'
  BY <1>1, <1>2, <1>3, StagesBeside
<1>7. /\ \A i \in Born : info'[i] = info[i]
      /\ \A i \in Present : jobs'[i] = jobs[i]
      /\ \A i \in Born : FinishedNext(i) <=> Finished(i)
      /\ \A i \in Born : i \in Present' <=> i \in Present
      /\ new \in Present' /\ Present' = Present \cup {new} /\ info'[new].sub = sub
      /\ info'[new].master = o /\ Present \subseteq Born /\ new \notin Born
  BY <1>2, <1>3, AddedFinishes DEF Added, IInv, TableInv, TableTypeOK
<1>8. Subject' = o
  BY <1>2, <1>3, <1>4, <1>7 DEF Subject, Owner
<1>9. sub = "detect_frames" =>
        /\ plan = MarkedPlan /\ o = j /\ OnlyDetection(o, {}) /\ o \in Present
        /\ jobs[o].state = 1
  BY <1>1, <1>3, SubmitStage DEF StagePlan, ClosedPlan, PartTypes
<1>10. sub \in PartTypes =>
         /\ Asked(o, "detect_frames") = {j} /\ j \notin Present
         /\ plan' = <<>> => Full(o)'
  BY <1>3, <1>4, PartStages
<1>11. "count_frames" \in PartTypes
  BY DEF PartTypes
<1>12. ASSUME NEW m \in Masters, FinishedNext(m) PROVE Full(m)'
  <2>1. Finished(m) /\ Full(m) /\ m \in Born
    BY <1>1, <1>5, <1>7, <1>12 DEF StageTable
  <2> QED
    BY <1>4, <1>6, <2>1
<1>13. ASSUME NEW m \in Masters, m \in Present', jobs'[m].state = 0
       PROVE  OnlyDetection(m, {})'
  <2>1. m \in Born /\ m \in Present /\ jobs[m].state = 0 /\ OnlyDetection(m, {})
    BY <1>1, <1>5, <1>7, <1>13 DEF StageTable
  <2>2. ~(m = o /\ sub \in {"detect_frames", "count_frames"})
    BY <1>9, <1>10, <1>11, <2>1 DEF OnlyDetection
  <2> QED
    BY <1>6, <2>1, <2>2
<1>14. ASSUME NEW m \in Masters, mpc' # "dead", m \in Present', jobs'[m].state = 1
       PROVE  \/ Full(m)'
              \/ \E d \in Asked(m, "detect_frames")' : d \in Present'
              \/ plan' # <<>> /\ m = o
  <2>1. m \in Born /\ m \in Present /\ jobs[m].state = 1 /\ mpc # "dead"
    BY <1>2, <1>5, <1>7, <1>14
  <2>2. CASE m # o
    <3>1. Full(m) \/ \E d \in Asked(m, "detect_frames") : d \in Present
      BY <1>1, <1>3, <2>1, <2>2 DEF StageTable
    <3> QED
      BY <1>5, <1>6, <1>7, <2>1, <2>2, <3>1
  <2>3. CASE m = o
    <3>1. sub # "cleanup"
      BY <1>4, <2>1, <2>3 DEF Finished
    <3>2. CASE sub = "detect_frames"
      <4>1. new \in Asked(m, "detect_frames")'
        BY <1>5, <2>1, <2>3, <3>2
      <4> QED
        BY <1>7, <4>1
    <3>3. CASE sub \in PartTypes /\ plan' = <<>>
      BY <1>10, <2>3, <3>3
    <3>4. CASE plan' # <<>>
      BY <2>3, <3>4
    <3> QED
      BY <3>1, <3>2, <3>3, <3>4, SubmitStage
  <2> QED
    BY <2>2, <2>3
<1>15. ASSUME NEW d \in Present', info'[d].sub = "detect_frames"
       PROVE  OnlyDetection(info[d].master, {d})'
  <2>1. CASE d = new
    <3>1. sub = "detect_frames" /\ OnlyDetection(o, {})
      BY <1>7, <1>9, <1>15, <2>1
    <3>2. /\ Asked(o, "detect_frames")' = {} \cup {new}
          /\ Asked(o, "count_frames")' = {}
      BY <1>4, <1>5, <3>1 DEF OnlyDetection
    <3>3. OnlyDetection(o, {d})'
      BY <2>1, <3>2 DEF OnlyDetection
    <3> QED
      BY <1>7, <2>1, <3>3
  <2>2. CASE d # new
    <3>1. d \in Present /\ d \in Born /\ info'[d] = info[d]
      BY <1>7, <1>15, <2>2
    <3>2. PICK m : m = info[d].master
      OBVIOUS
    <3>3. m \in Born /\ OnlyDetection(m, {d})
      BY <1>1, <1>15, <3>1, <3>2 DEF StageTable, IInv, TableInv, KindsOK
    <3>4. ~(m = o /\ sub \in {"detect_frames", "count_frames"})
      BY <1>9, <1>10, <1>11, <3>1, <3>3 DEF OnlyDetection
    <3>5. OnlyDetection(m, {d})'
      BY <1>6, <3>3, <3>4
    <3> QED
      BY <3>1, <3>2, <3>5
  <2> QED
    BY <2>1, <2>2
<1>16. \A m \in Masters' :
         /\ FinishedNext(m) => Full(m)'
         /\ m \in Present' /\ jobs'[m].state = 0 => OnlyDetection(m, {})'
  BY <1>5, <1>12, <1>13
<1>17. \A m \in Masters' :
         mpc' # "dead" /\ m \in Present' /\ jobs'[m].state = 1 =>
           \/ Full(m)'
           \/ \E d \in Asked(m, "detect_frames")' : d \in Present'
           \/ plan' # <<>> /\ Subject' = m
  BY <1>5, <1>8, <1>14
<1> QED
  BY <1>15, <1>16, <1>17 DEF StageTable, FinishedNext, Finished

\* What is left of the plan when a job was submitted.
LEMMA SubmitStagePlan ==
  ASSUME IInv, PlanInv, CloseInv, StageInv, NEW sub \in ChildSubTypes, Submit(sub)
  PROVE  StagePlan'
<1>1. StageTable /\ StagePlan /\ ClosedTable
  BY StageParts, CloseParts
<1>2. /\ Added(sub, info[mcur.job].req, Subject, DependenciesOf(sub)) /\ sub # "master"
      /\ mcur' = mcur
  BY SubmitAdds DEF IInv, TableInv, Subject, Submit, ChildSubTypes, SlaveSubTypes, StorageSubTypes
<1>3. PICK o, j : o = Subject /\ j = mcur.job
  OBVIOUS
<1>4. o \in Born /\ j \in Born
  BY <1>3, SubmitStage DEF Masters
<1>5. /\ \A i \in Born : info'[i] = info[i]
      /\ \A i \in Born : i \in Present' <=> i \in Present
  BY <1>2, AddedFinishes DEF Added
<1>6. Subject' = o /\ mcur'.job = j
  BY <1>2, <1>3, <1>4, <1>5 DEF Subject, Owner
<1>7. CASE plan' = <<>>
  BY <1>7, PlansDiffer DEF StagePlan, TranscodePlans, DetectionPlans
<1>8. CASE plan' \in StartPlans
  BY <1>8, PlansDiffer DEF StagePlan, TranscodePlans, DetectionPlans
<1>9. CASE sub = "audio_demux" /\ plan = <<"audio_demux", "split">> /\ plan' = <<"split">>
  <2>1. plan \in DeletedPlans /\ plan' \in DeletedPlans
    BY <1>9 DEF DeletedPlans
  <2>2. OnlyDetection(o, {j}) /\ j \notin Present
    BY <1>1, <1>3, <2>1 DEF StagePlan
  <2>3. OnlyDetection(o, {j})' /\ j \notin Present'
    BY <1>1, <1>2, <1>3, <1>4, <1>5, <1>9, <2>2, StagesBeside
  <2>4. OnlyDetection(Subject, {mcur.job})' /\ mcur'.job \notin Present'
    BY <1>6, <2>3
  <2> QED
    BY <2>1, <2>4, PlansDiffer DEF StagePlan, DetectionPlans
<1>10. CASE sub \in PartTypes /\ plan' \in PartPlans
  <2>1. /\ Asked(o, "detect_frames")' = {j} /\ j \notin Present
        /\ Left("raise")' # {} \/ Promised(o)'
    BY <1>3, <1>4, <1>10, PartStages
  <2>2. /\ Asked(Subject, "detect_frames")' = {mcur'.job} /\ mcur'.job \notin Present'
        /\ Left("raise")' # {} \/ Promised(Subject)'
    BY <1>4, <1>5, <1>6, <2>1
  <2> QED
    BY <1>10, <2>2, PlansDiffer DEF StagePlan, DetectionPlans
<1> QED
  BY <1>7, <1>8, <1>9, <1>10, SubmitStage DEF StartPlans

\* StageInv is inductive for a master that is not started again.
LEMMA NextStages ==
  ASSUME IInv, AssignInv, PlanInv, CloseInv, RequestInv, StageInv, restarts' = 0,
         [Next]_vars
  PROVE  StageInv'
<1>1. CASE ~Inserting
  BY <1>1, StageTableKept, StagePlanKept DEF StageInv, StageTable, StagePlan
<1>2. ASSUME NEW r \in Requests, SubmitXml(r), UNCHANGED masterVars PROVE StageInv'
  BY <1>2, XmlStages
<1>3. ASSUME NEW sub \in ChildSubTypes, Submit(sub) PROVE StageInv'
  BY <1>3, SubmitStageTable, SubmitStagePlan DEF StageInv, StageTable, StagePlan
<1> QED
  BY <1>1, <1>2, <1>3, InsertingSteps

\* Nothing is planned and nothing submitted at the start.
LEMMA InitStages ==
  ASSUME Init
  PROVE  PlanInv /\ CloseInv /\ RequestInv /\ DownloadInv /\ StageInv
<1>1. Born = {} /\ Present = {} /\ mrows = {} /\ plan = <<>>
  BY EmptyStart
<1>2. plan \notin TranscodePlans \cup DetectionPlans
  BY <1>1, PlansDiffer
<1>3. PlanInv /\ RequestInv
  BY <1>1 DEF PlanInv, RequestInv
<1>4. CloseInv
  <2>1. ClosedPlan
    BY <1>2, PlansDiffer DEF ClosedPlan, TranscodePlans
  <2> QED
    BY <1>1, <2>1, CloseParts DEF ClosedTable, ClosedRows, Masters, Cleanups
<1>5. DownloadInv
  BY <1>1, <1>2 DEF DownloadInv, Masters, TranscodePlans, StartPlans
<1>6. StageInv
  <2>1. StagePlan
    BY <1>2 DEF StagePlan, TranscodePlans, DetectionPlans
  <2>2. StageTable
    BY <1>1 DEF StageTable, Masters
  <2> QED
    BY <2>1, <2>2, StageParts
<1> QED
  BY <1>3, <1>4, <1>5, <1>6

----------------------------------------------------------------------------
(* The removal of the files. *)

\* No INSERT brings back a row, and none changes the columns it has fixed.
LEMMA RowsGoOn ==
  ASSUME IInv, AssignInv, PlanInv, CloseInv, [Next]_vars
  PROVE  /\ Born \subseteq Born'
         /\ \A i \in Born : info'[i] = info[i] /\ (i \in Present' => i \in Present)
<1>1. CASE ~Inserting
  <2>1. info' = info /\ Present' \subseteq Present
    BY <1>1, RowsMove
  <2> QED
    BY <2>1, AskedSame
<1>2. ASSUME NEW sub, NEW r, NEW o, NEW D, Added(sub, r, o, D)
      PROVE  /\ Born \subseteq Born'
             /\ \A i \in Born : info'[i] = info[i] /\ (i \in Present' => i \in Present)
  BY <1>2, AddedFinishes DEF Added
<1>3. CASE Inserting
  <2>1. TableTypeOK
    BY DEF IInv, TableInv
  <2>2. ASSUME NEW r \in Requests, SubmitXml(r) PROVE Added("master", r, 0, {})
    BY <2>1, <2>2, SubmitXmlAdds
  <2>3. ASSUME NEW sub \in ChildSubTypes, Submit(sub)
        PROVE  Added(sub, info[mcur.job].req, Owner(mcur.job), DependenciesOf(sub))
    BY <2>1, <2>3, SubmitAdds DEF Submit
  <2> QED
    BY <1>2, <1>3, <2>2, <2>3 DEF Inserting
<1> QED
  BY <1>1, <1>3

\* What a step that is not one of a thread leaves alone: the threads, the source
\* of a transcode, and the rows of cleanups, which it does not start.
CleanupsAside ==
  \A i \in Cleanups \cap Present \cap Present' :
    jobs'[i].state = 1 => jobs[i].state = 1
Aside ==
  /\ task' = task /\ downloaded' = downloaded /\ intermediates \subseteq intermediates'
  /\ CleanupsAside

\* An UPDATE of another row or a DELETE starts no cleanup.
LEMMA OtherRowsAside ==
  ASSUME TableTypeOK,
         \/ jobs' = jobs
         \/ \E D : jobs' = Without(D)
         \/ \E i : /\ i \notin Cleanups
                   /\ \A j \in Present \cap Present' : j # i => jobs'[j] = jobs[j]
  PROVE  CleanupsAside
<1>1. CASE jobs' = jobs
  BY <1>1 DEF CleanupsAside
<1>2. CASE \E D : jobs' = Without(D)
  BY <1>2 DEF CleanupsAside, Without, Present
<1>3. CASE \E i : /\ i \notin Cleanups
                  /\ \A j \in Present \cap Present' : j # i => jobs'[j] = jobs[j]
  BY <1>3 DEF CleanupsAside
<1> QED
  BY <1>1, <1>2, <1>3

\* No statement of a slave touches a transcode or a cleanup.
LEMMA SlaveAside ==
  ASSUME IInv, AssignInv, NEW s \in Slaves, SlaveNext(s)
  PROVE  Aside /\ storeSeen' = storeSeen /\ volume' = volume /\ tpc' = tpc
<1>1. TableTypeOK /\ task' = task /\ tpc' = tpc
  BY DEF IInv, TableInv, SlaveNext, storageVars
<1>2. spc[s] \in {"claim", "run"} => cur[s] \notin Cleanups
  <2>1. spc[s] \in {"claim", "run"} => cur[s] \in Held(s)
    BY HoldingsBorn DEF IInv, SlaveInv, Held
  <2> QED
    BY <2>1 DEF AssignInv, HeldFit, SlaveSubTypes, Cleanups
<1>3. CASE ClaimJob(s)
  <2>1. \A j \in Present : j # cur[s] => jobs'[j] = jobs[j]
    BY <1>3 DEF ClaimJob, WithStateOf
  <2>2. CleanupsAside
    BY <1>1, <1>2, <1>3, <2>1, OtherRowsAside DEF ClaimJob
  <2> QED
    BY <1>1, <1>3, <2>2 DEF ClaimJob, Aside, fileVars
<1>4. ASSUME NEW k, JobEnds(s, k), spc[s] = "run"
      PROVE  Aside /\ storeSeen' = storeSeen /\ volume' = volume /\ tpc' = tpc
  <2>1. \A j \in Present : j # cur[s] => jobs'[j] = jobs[j]
    BY <1>4 DEF JobEnds
  <2>2. CleanupsAside
    BY <1>1, <1>2, <1>4, <2>1, OtherRowsAside
  <2>3. /\ downloaded' = downloaded /\ intermediates \subseteq intermediates'
        /\ storeSeen' = storeSeen /\ volume' = volume
    BY <1>4 DEF JobEnds
  <2> QED
    BY <1>1, <2>2, <2>3 DEF Aside
<1>5. CASE RemoveDependencies(s)
  <2>1. CleanupsAside
    BY <1>1, <1>5, OtherRowsAside DEF RemoveDependencies, RemoveDependencyJobs
  <2> QED
    BY <1>1, <1>5, <2>1 DEF RemoveDependencies, Aside, fileVars, serverVars
<1>6. CASE \/ RegisterSlave(s) \/ MountStorage(s) \/ FetchDbJobs(s)
           \/ CheckDependencies(s) \/ SkipJob(s) \/ RunRaises(s)
           \/ Heartbeat(s) \/ SlaveFault(s) \/ Silence(s)
  <2>1. jobs' = jobs /\ downloaded' = downloaded /\ intermediates' = intermediates
        /\ storeSeen' = storeSeen /\ volume' = volume
    BY <1>6 DEF RegisterSlave, MountStorage, FetchDbJobs, CheckDependencies,
                SkipJob, RunRaises, Heartbeat, SlaveFault, ExitSlave,
                CrashSlave, Silence, tableVars, fileVars, serverVars
  <2> QED
    BY <1>1, <2>1, OtherRowsAside DEF Aside
<1> QED
  BY <1>3, <1>4, <1>5, <1>6 DEF SlaveNext, SlaveStep, FinishJob, FinishDetectFrames

\* The storage server as long as it runs, but for its threads.
LEMMA StorageAside ==
  ASSUME IInv, StorageNext, ~\E t \in Threads : ThreadStep(t), tpc' # "dead"
  PROVE  Aside /\ tpc # "dead"
<1>1. TableTypeOK
  BY DEF IInv, TableInv
<1>2. CASE \E r \in Requests : SubmitXml(r)
  <2>1. PICK r \in Requests : SubmitXml(r)
    BY <1>2
  <2>2. \A i \in Present : jobs'[i] = jobs[i]
    BY <1>1, <2>1, SubmitXmlAdds DEF Added
  <2>3. CleanupsAside
    BY <2>2 DEF CleanupsAside
  <2> QED
    BY <2>1, <2>3 DEF SubmitXml, Aside, fileVars
<1>3. CASE RemoveStorageDependencies
  <2>1. CleanupsAside
    BY <1>1, <1>3, OtherRowsAside DEF RemoveStorageDependencies, RemoveDependencyJobs
  <2>2. task' = task
    BY <1>3 DEF RemoveStorageDependencies, StorageDies
  <2> QED
    BY <1>3, <2>1, <2>2 DEF RemoveStorageDependencies, Aside, fileVars
<1>4. CASE RegisterStorage \/ FetchStorageJobs \/ CheckStorageDependencies \/ AddTask
           \/ SilenceStorage
  <2>1. jobs' = jobs /\ downloaded' = downloaded /\ intermediates' = intermediates
        /\ task' = task /\ tpc # "dead"
    BY <1>4 DEF RegisterStorage, FetchStorageJobs, CheckStorageDependencies, AddTask,
                SilenceStorage, tableVars, fileVars, storageVars
  <2> QED
    BY <1>1, <2>1, OtherRowsAside DEF Aside
<1>5. ~CrashStorage
  BY DEF CrashStorage, StorageDies
<1> QED
  BY <1>2, <1>3, <1>4, <1>5 DEF StorageNext, StorageLoop

\* The master starts no job.
LEMMA MasterAside ==
  ASSUME IInv, PlanInv, MasterNext
  PROVE  /\ Aside /\ volume' = volume /\ tpc' = tpc
         /\ StorageRegistered' => StorageRegistered
<1>1. TableTypeOK /\ task' = task /\ tpc' = tpc
  BY DEF IInv, TableInv, MasterNext, storageVars
<1>2. /\ downloaded' = downloaded /\ intermediates' = intermediates /\ volume' = volume
      /\ StorageRegistered' => StorageRegistered
  BY DEF MasterNext, MasterStep, FetchJobs, TakeRow, Submit, CleanupBound, MarkStarted,
         PurgeChildren, MarkFinished, DeleteDetectJob, Split, Raise, CleanupTasks,
         ReassignOrphan, CrashMaster, RestartMaster, serverVars, fileVars,
         StorageRegistered
<1>3. CASE MarkStarted \/ MarkFinished
  <2>1. info[mcur.job].sub = "master" /\ mcur.job \in Born
    BY <1>3, AtPlan DEF MarkStarted, MarkFinished, PartTypes
  <2>2. \A j \in Present : j # mcur.job => jobs'[j] = jobs[j]
    BY <1>3 DEF MarkStarted, MarkFinished, WithState
  <2> QED
    BY <1>1, <1>2, <2>1, <2>2, OtherRowsAside DEF Aside, Cleanups
<1>4. CASE PurgeChildren \/ DeleteDetectJob
  BY <1>1, <1>2, <1>4, OtherRowsAside DEF Aside, PurgeChildren, DeleteDetectJob
<1>5. CASE ReassignOrphan
  <2>1. PICK i \in orphans : /\ \A j \in Present \ {i} : jobs'[j] = jobs[j]
                             /\ i \in Present => jobs'[i].state = 0
    BY <1>1, <1>5, ReassignRows
  <2>2. CleanupsAside
    BY <2>1 DEF CleanupsAside
  <2> QED
    BY <1>1, <1>2, <2>2 DEF Aside
<1>6. CASE \E sub \in ChildSubTypes : Submit(sub)
  <2>1. \A i \in Present : jobs'[i] = jobs[i]
    BY <1>1, <1>6, SubmitAdds DEF Submit, Added
  <2> QED
    BY <1>1, <1>2, <2>1 DEF Aside, CleanupsAside
<1>7. CASE \/ FetchJobs \/ TakeRow \/ CleanupBound \/ Split \/ Raise \/ CleanupTasks
           \/ CrashMaster \/ RestartMaster
  <2>1. jobs' = jobs
    BY <1>7 DEF FetchJobs, TakeRow, CleanupBound, Split, Raise, CleanupTasks,
                CrashMaster, RestartMaster, tableVars
  <2> QED
    BY <1>1, <1>2, <2>1, OtherRowsAside DEF Aside
<1> QED
  BY <1>3, <1>4, <1>5, <1>6, <1>7 DEF MasterNext, MasterStep

\* A thread that leaves is idle, one that goes on stays at its job, and the
\* others do neither.
LEMMA ThreadTurns ==
  ASSUME IInv, NEW t \in Threads
  PROVE  /\ Leave(t) => /\ task'[t].pc = "idle"
                        /\ \A u \in Threads \ {t} : task'[u] = task[u]
         /\ \A pc : GoTo(t, pc) =>
              /\ task'[t].pc = pc /\ task'[t].job = task[t].job
              /\ \A u \in Threads \ {t} : task'[u] = task[u]
         /\ TakeTask(t) => /\ task'[t].pc = "run" /\ task'[t].job = Head(queue)
                           /\ \A u \in Threads \ {t} : task'[u] = task[u]
<1>1. task \in [Threads -> [pc : TaskPCs, job : Born \cup {0}]]
  BY DEF IInv, StorageInv, StorageTypeOK
<1>2. Leave(t) => /\ task'[t].pc = "idle"
                  /\ \A u \in Threads \ {t} : task'[u] = task[u]
  BY <1>1 DEF Leave, Idle
<1>3. ASSUME NEW pc, GoTo(t, pc)
      PROVE  /\ task'[t].pc = pc /\ task'[t].job = task[t].job
             /\ \A u \in Threads \ {t} : task'[u] = task[u]
  BY <1>1, <1>3 DEF GoTo
<1>4. TakeTask(t) => /\ task'[t].pc = "run" /\ task'[t].job = Head(queue)
                     /\ \A u \in Threads \ {t} : task'[u] = task[u]
  BY <1>1 DEF TakeTask
<1> QED
  BY <1>2, <1>3, <1>4

\* A thread that is at files a sole cleanup removes is at that cleanup.
LEMMA SoleThread ==
  ASSUME IInv, NEW i \in Cleanups, Sole(i), NEW t \in Threads, task[t].pc # "idle",
         SubOf(t) = "cleanup", ShareFiles(RequestOf(t), info[i].req)
  PROVE  task[t].job = i
<1>1. task[t].job \in Cleanups
  BY DEF IInv, StorageInv, SubOf, Cleanups
<1> QED
  BY <1>1 DEF Sole, RequestOf

\* What a thread has removed stays removed.
LEMMA PastKept ==
  ASSUME IInv, NEW i \in Cleanups, Tidy(i), NEW t \in Threads, ThreadStep(t), i \in Present' => i \in Present
  PROVE  /\ PastFiles(i) => PastFiles(i)'
         /\ PastSource(i) => PastSource(i)'
<1>1. CASE i \notin Present
  BY <1>1 DEF PastFiles, PastSource
<1>2. ASSUME NEW u \in Threads, task[u].job = i, task[u].pc \in {"master", "row"}
      PROVE  PastFiles(i)'
  <2>1. CASE u # t
    <3>1. task'[u] = task[u]
      BY <2>1, ThreadTurns DEF ThreadStep, FinishTask, TaskRaises, RemoveSource,
         RemoveIntermediates, DeleteMasterJob, DeleteCleanupJob
    <3> QED
      BY <1>2, <3>1 DEF PastFiles
  <2>2. CASE u = t /\ task[u].pc = "master"
    <3>1. DeleteMasterJob(t)
      BY <2>2 DEF ThreadStep, TakeTask, FinishTask, TaskRaises, RemoveSource,
         RemoveIntermediates, DeleteCleanupJob
    <3>2. task'[t].pc = "row" /\ task'[t].job = i
      BY <1>2, <2>2, <3>1, ThreadTurns DEF DeleteMasterJob
    <3> QED
      BY <3>2 DEF PastFiles
  <2>3. CASE u = t /\ task[u].pc = "row"
    <3>1. DeleteCleanupJob(t)
      BY <2>3 DEF ThreadStep, TakeTask, FinishTask, TaskRaises, RemoveSource,
         RemoveIntermediates, DeleteMasterJob
    <3>2. i \notin Present'
      BY <1>2, <2>3, <3>1 DEF DeleteCleanupJob, Without, Present
    <3> QED
      BY <3>2 DEF PastFiles
  <2> QED
    BY <1>2, <2>1, <2>2, <2>3
<1>3. PastFiles(i) => PastFiles(i)'
  BY <1>1, <1>2 DEF PastFiles
<1>4. PastFiles(i)' => PastSource(i)'
  BY DEF PastFiles, PastSource
<1>5. ASSUME NEW u \in Threads, task[u].job = i, task[u].pc = "unlink"
      PROVE  PastSource(i)'
  <2>1. CASE u # t
    <3>1. task'[u] = task[u]
      BY <2>1, ThreadTurns DEF ThreadStep, FinishTask, TaskRaises, RemoveSource,
         RemoveIntermediates, DeleteMasterJob, DeleteCleanupJob
    <3> QED
      BY <1>5, <3>1 DEF PastSource
  <2>2. CASE u = t
    <3>1. RemoveIntermediates(t)
      BY <1>5, <2>2 DEF ThreadStep, TakeTask, FinishTask, TaskRaises, RemoveSource,
         DeleteMasterJob, DeleteCleanupJob
    <3>2. CASE GoTo(t, "master")
      <4>1. task'[t].pc = "master" /\ task'[t].job = i
        BY <1>5, <2>2, <3>2, ThreadTurns
      <4> QED
        BY <4>1 DEF PastSource
    <3>3. CASE OutputOf(t) \notin intermediates
      <4>1. PastFiles(i)
        BY <1>5, <2>2, <3>3 DEF Tidy, OutputOf, RequestOf
      <4> QED
        BY <1>3, <1>4, <4>1
    <3> QED
      BY <3>1, <3>2, <3>3 DEF RemoveIntermediates
  <2> QED
    BY <2>1, <2>2
<1>6. PastSource(i) => PastSource(i)'
  BY <1>1, <1>2, <1>4, <1>5 DEF PastSource
<1> QED
  BY <1>3, <1>6

\* A cleanup that was started stays in a thread until its row is deleted: the
\* other threads have none of its files to remove before it.
LEMMA ThreadKeepsCleanup ==
  ASSUME IInv, NEW i \in Cleanups, Sole(i), Tidy(i), NEW t \in Threads, ThreadStep(t),
         i \in Present, i \in Present', jobs'[i].state = 1
  PROVE  i \in Tasks'
<1>1. ASSUME NEW u \in Threads, task'[u].pc # "idle", task'[u].job = i PROVE i \in Tasks'
  BY <1>1 DEF Tasks
<1>2. info[i].sub = "cleanup" /\ i \in Born
  BY DEF Cleanups
<1>3. CASE TakeTask(t)
  <2>1. CASE Head(queue) = i
    <3>1. task'[t].pc = "run" /\ task'[t].job = i
      BY <1>3, <2>1, ThreadTurns
    <3> QED
      BY <1>1, <3>1
  <2>2. CASE Head(queue) # i
    <3>1. jobs'[i] = jobs[i] /\ task[t].pc = "idle"
      BY <1>3, <2>2 DEF TakeTask, WithStateOf
    <3>2. i \in Tasks
      BY <3>1 DEF Tidy
    <3>3. PICK u \in Threads : task[u].pc # "idle" /\ task[u].job = i
      BY <3>2 DEF Tasks
    <3>4. task'[u] = task[u]
      BY <1>3, <3>1, <3>3, ThreadTurns
    <3> QED
      BY <1>1, <3>3, <3>4
  <2> QED
    BY <2>1, <2>2
<1>4. CASE ~TakeTask(t)
  <2>1. jobs'[i] = jobs[i]
    <3>1. CASE FinishTask(t)
      <4>1. task[t].job # i
        BY <1>2, <3>1 DEF FinishTask, SubOf
      <4> QED
        BY <3>1, <4>1 DEF FinishTask, WithStateOf
    <3>2. CASE DeleteMasterJob(t) \/ DeleteCleanupJob(t)
      BY <3>2 DEF DeleteMasterJob, DeleteCleanupJob, Without, Present
    <3>3. CASE TaskRaises(t) \/ RemoveSource(t) \/ RemoveIntermediates(t)
      BY <3>3 DEF TaskRaises, RemoveSource, RemoveIntermediates, tableVars
    <3> QED
      BY <1>4, <3>1, <3>2, <3>3 DEF ThreadStep
  <2>2. i \in Tasks
    BY <2>1 DEF Tidy
  <2>3. PICK u \in Threads : task[u].pc # "idle" /\ task[u].job = i
    BY <2>2 DEF Tasks
  <2>4. Leave(t) \/ \E pc \in {"unlink", "master", "row"} : GoTo(t, pc)
    BY <1>4 DEF ThreadStep, FinishTask, TaskRaises, RemoveSource, RemoveIntermediates,
                DeleteMasterJob, DeleteCleanupJob
  <2>5. ASSUME NEW v \in Threads \ {t}, task[v].pc # "idle", task[v].job = i
        PROVE  i \in Tasks'
    <3>1. task'[v] = task[v]
      BY <2>4, ThreadTurns
    <3> QED
      BY <1>1, <2>5, <3>1
  <2>6. CASE u # t
    BY <2>3, <2>5, <2>6
  <2>7. CASE u = t /\ \E pc \in {"unlink", "master", "row"} : GoTo(t, pc)
    BY <1>1, <2>3, <2>7, ThreadTurns
  <2>8. CASE u = t /\ RemoveSource(t) /\ Leave(t)
    <3>1. task[t].pc = "run"
      BY <2>8 DEF RemoveSource
    <3>2. VolumeKnown(MasterOf(t))
      BY <2>3, <2>8 DEF Sole, MasterOf
    <3>3. ~GoTo(t, "unlink") /\ ~GoTo(t, "master")
      <4>1. task'[t].pc = "idle"
        BY <2>8, ThreadTurns
      <4> QED
        BY <4>1, ThreadTurns
    <3>4. RequestOf(t) \in Download /\ SourceOf(t) \notin downloaded
      BY <2>8, <3>2, <3>3 DEF RemoveSource
    <3>5. PastSource(i)
      BY <2>3, <2>8, <3>4 DEF Tidy, RequestOf, SourceOf
    <3> QED
      BY <2>5, <3>1, <3>5 DEF PastSource
  <2>9. CASE u = t /\ RemoveIntermediates(t) /\ Leave(t)
    <3>1. task[t].pc = "unlink"
      BY <2>9 DEF RemoveIntermediates
    <3>2. ~GoTo(t, "master")
      <4>1. task'[t].pc = "idle"
        BY <2>9, ThreadTurns
      <4> QED
        BY <4>1, ThreadTurns
    <3>3. PastFiles(i)
      BY <2>3, <2>9, <3>1, <3>2 DEF RemoveIntermediates, Tidy, OutputOf, RequestOf
    <3> QED
      BY <2>5, <3>1, <3>3 DEF PastFiles
  <2>10. CASE u = t /\ DeleteCleanupJob(t)
    BY <2>3, <2>10 DEF DeleteCleanupJob, Without, Present
  <2>11. u = t => ~FinishTask(t) /\ ~TaskRaises(t)
    BY <1>2, <2>3 DEF FinishTask, TaskRaises, SubOf
  <2> QED
    BY <1>4, <2>4, <2>6, <2>7, <2>8, <2>9, <2>10, <2>11 DEF ThreadStep, DeleteMasterJob
<1> QED
  BY <1>3, <1>4

\* A sole cleanup finds gone only what it has removed itself.
LEMMA ThreadTidies ==
  ASSUME IInv, NEW i \in Cleanups, Sole(i), Tidy(i), NEW t \in Threads, ThreadStep(t),
         i \in Present' => i \in Present, info'[i] = info[i]
  PROVE  Tidy(i)'
<1>1. i \in Present' /\ jobs'[i].state = 1 => i \in Tasks'
  BY ThreadKeepsCleanup
<1>2. PICK r : r = info[i].req
  OBVIOUS
<1>3. /\ PastFiles(i) => PastFiles(i)'
      /\ PastSource(i) => PastSource(i)'
  BY PastKept
<1>4. ASSUME NEW u \in Threads, task[u].pc # "idle", SubOf(u) = "cleanup",
             ShareFiles(RequestOf(u), r)
      PROVE  task[u].job = i
  BY <1>2, <1>4, SoleThread
<1>5. ASSUME r \in Download, Source[r] \notin downloaded' PROVE PastSource(i)'
  <2>1. CASE Source[r] \notin downloaded
    BY <1>2, <1>3, <1>5, <2>1 DEF Tidy
  <2>2. CASE Source[r] \in downloaded
    <3>1. RemoveSource(t) /\ RequestOf(t) \in Download /\ SourceOf(t) = Source[r]
      BY <1>5, <2>2 DEF ThreadStep, TakeTask, FinishTask, TaskRaises, RemoveSource,
         RemoveIntermediates, DeleteMasterJob, DeleteCleanupJob, fileVars
    <3>2. task[t].job = i
      BY <1>4, <1>5, <3>1 DEF RemoveSource, ShareFiles, SourceOf
    <3>3. GoTo(t, "unlink") \/ GoTo(t, "master")
      BY <1>5, <2>2, <3>1 DEF RemoveSource
    <3>4. task'[t].job = i /\ task'[t].pc \in {"unlink", "master"}
      BY <3>2, <3>3, ThreadTurns
    <3> QED
      BY <3>4 DEF PastSource
  <2> QED
    BY <2>1, <2>2
<1>6. ASSUME NEW u \in Threads, task'[u].job = i, task'[u].pc = "unlink"
      PROVE  Output[r] \in intermediates' \/ PastFiles(i)'
  <2>1. CASE u # t
    <3>1. task'[u] = task[u]
      BY <2>1, ThreadTurns DEF ThreadStep, FinishTask, TaskRaises, RemoveSource,
         RemoveIntermediates, DeleteMasterJob, DeleteCleanupJob
    <3>2. Output[r] \in intermediates \/ PastFiles(i)
      BY <1>2, <1>6, <3>1 DEF Tidy
    <3>3. ASSUME Output[r] \in intermediates, Output[r] \notin intermediates'
          PROVE  PastFiles(i)'
      <4>1. RemoveIntermediates(t) /\ OutputOf(t) = Output[r]
        BY <3>3 DEF ThreadStep, TakeTask, FinishTask, TaskRaises, RemoveSource,
           RemoveIntermediates, DeleteMasterJob, DeleteCleanupJob, fileVars
      <4>2. task[t].pc = "unlink" /\ GoTo(t, "master") /\ SubOf(t) = "cleanup"
        BY <3>3, <4>1 DEF RemoveIntermediates, IInv, StorageInv, SubOf
      <4>3. ShareFiles(RequestOf(t), r)
        BY <4>1 DEF ShareFiles, OutputOf
      <4>4. task'[t].job = i /\ task'[t].pc = "master"
        BY <1>4, <4>2, <4>3, ThreadTurns
      <4> QED
        BY <4>4 DEF PastFiles
    <3> QED
      BY <1>3, <3>2, <3>3
  <2>2. CASE u = t
    <3>1. ~Leave(t) /\ ~GoTo(t, "master") /\ ~GoTo(t, "row") /\ ~TakeTask(t)
      BY <1>6, <2>2, ThreadTurns
    <3>2. RemoveSource(t) /\ GoTo(t, "unlink")
      <4>1. RemoveSource(t)
        BY <3>1 DEF ThreadStep, FinishTask, TaskRaises, RemoveIntermediates,
           DeleteMasterJob, DeleteCleanupJob
      <4> QED
        BY <3>1, <4>1 DEF RemoveSource
    <3>3. task[t].job = i
      BY <1>6, <2>2, <3>2, ThreadTurns
    <3>4. Output[r] \in intermediates /\ intermediates' = intermediates
      BY <1>2, <3>1, <3>2, <3>3 DEF RemoveSource, OutputOf, RequestOf
    <3> QED
      BY <3>4
  <2> QED
    BY <2>1, <2>2
<1>7. info'[i].req = r
  BY <1>2
<1> QED
  BY <1>1, <1>5, <1>6, <1>7 DEF Tidy

\* A step beside the threads leaves a cleanup in order.
LEMMA AsideTidies ==
  ASSUME NEW i \in Cleanups, Tidy(i), Aside, i \in Present' => i \in Present, info'[i] = info[i]
  PROVE  Tidy(i)'
<1>1. Tasks' = Tasks
  BY DEF Aside, Tasks
<1>2. /\ PastFiles(i) => PastFiles(i)'
      /\ PastSource(i) => PastSource(i)'
  BY DEF Aside, PastFiles, PastSource
<1>3. i \in Present' /\ jobs'[i].state = 1 => i \in Tasks'
  BY <1>1 DEF Tidy, Aside, CleanupsAside
<1>4. PICK r : r = info[i].req
  OBVIOUS
<1>5. r \in Download /\ Source[r] \notin downloaded' => PastSource(i)'
  BY <1>2, <1>4 DEF Tidy, Aside
<1>6. \A t \in Threads : task'[t].job = i /\ task'[t].pc = "unlink" =>
        Output[r] \in intermediates' \/ PastFiles(i)'
  BY <1>2, <1>4 DEF Tidy, Aside
<1> QED
  BY <1>3, <1>4, <1>5, <1>6 DEF Tidy

\* A source that goes is removed by a cleanup of a request with that source.
LEMMA SourceRemoved ==
  ASSUME IInv, AssignInv, PlanInv, [Next]_vars, NEW f \in downloaded,
         f \notin downloaded'
  PROVE  \E k \in Cleanups : info[k].req \in Download /\ Source[info[k].req] = f
<1>1. ~\E s \in Slaves : SlaveNext(s)
  BY SlaveAside DEF Aside
<1>2. ~MasterNext /\ downloaded' # downloaded
  BY MasterAside DEF Aside
<1>3. StorageNext
  BY <1>1, <1>2 DEF Next, vars, fileVars
<1>4. PICK t \in Threads :
        RemoveSource(t) /\ RequestOf(t) \in Download /\ SourceOf(t) = f
  BY <1>3
     DEF StorageNext, SubmitXml, StorageLoop, RegisterStorage, FetchStorageJobs,
         CheckStorageDependencies, RemoveStorageDependencies, AddTask, CrashStorage,
         SilenceStorage, ThreadStep, TakeTask, FinishTask, TaskRaises, RemoveSource,
         RemoveIntermediates, DeleteMasterJob, DeleteCleanupJob, fileVars
<1>5. task[t].job \in Cleanups
  BY <1>4 DEF RemoveSource, SubOf, IInv, StorageInv, Cleanups
<1> QED
  BY <1>4, <1>5 DEF RequestOf, SourceOf

\* Only the storage server ends a download.
LEMMA DownloadEnds ==
  ASSUME IInv, AssignInv, [Next]_vars, NEW i, i \in Done', i \notin Done,
         info[i].sub = "download"
  PROVE  \E t \in Threads : FinishTask(t) /\ task[t].job = i
<1>1. ran \subseteq Born \X Servers
  BY DEF IInv, TableInv, TableTypeOK
<1>2. PICK s \in Servers : <<i, s>> \in ran' /\ <<i, s>> \notin ran
  <2>1. PICK s \in Servers : <<i, s>> \in ran'
    BY DEF Done, Servers
  <2>2. <<i, s>> \notin ran
    BY <1>1 DEF Done
  <2> QED
    BY <2>1, <2>2
<1>3. ASSUME NEW x \in Slaves, SlaveNext(x) PROVE FALSE
  <2>1. spc[x] = "run" /\ <<i, s>> = <<cur[x], x>>
    BY <1>2, <1>3
       DEF SlaveNext, SlaveStep, SlaveFault, RegisterSlave, MountStorage, FetchDbJobs,
           CheckDependencies, RemoveDependencies, ClaimJob, SkipJob, RunRaises, Heartbeat,
           ExitSlave, CrashSlave, Silence, FinishJob, FinishDetectFrames, JobEnds
  <2>2. i \in Held(x)
    BY <2>1, HoldingsBorn DEF IInv, SlaveInv, Held
  <2> QED
    BY <2>2 DEF AssignInv, HeldFit, SlaveSubTypes
<1>4. ASSUME NEW t \in Threads, ThreadStep(t) PROVE FinishTask(t) /\ task[t].job = i
  <2>1. FinishTask(t) \/ DeleteCleanupJob(t)
    BY <1>2, <1>4 DEF ThreadStep, TakeTask, TaskRaises, RemoveSource, RemoveIntermediates,
                      DeleteMasterJob
  <2>2. task[t].job = i
    BY <1>2, <2>1 DEF FinishTask, DeleteCleanupJob
  <2>3. ~DeleteCleanupJob(t)
    BY <2>2 DEF DeleteCleanupJob, IInv, StorageInv
  <2> QED
    BY <2>1, <2>2, <2>3
<1>5. StorageNext => \E t \in Threads : ThreadStep(t)
  BY <1>2 DEF StorageNext, SubmitXml, StorageLoop, RegisterStorage, FetchStorageJobs,
              CheckStorageDependencies, RemoveStorageDependencies, AddTask, CrashStorage,
              SilenceStorage
<1>6. ~MasterNext /\ ran' # ran
  BY <1>2 DEF MasterNext, MasterStep, FetchJobs, TakeRow, Submit, CleanupBound, MarkStarted,
              PurgeChildren, MarkFinished, DeleteDetectJob, Split, Raise, CleanupTasks,
              ReassignOrphan, CrashMaster, RestartMaster
<1> QED
  BY <1>3, <1>4, <1>5, <1>6 DEF Next, vars

\* A storage server that is registered again has a volume of a new number.
LEMMA VolumeGoesOn ==
  ASSUME IInv, AssignInv, PlanInv, [Next]_vars
  PROVE  \/ volume' = volume /\ (StorageRegistered' => StorageRegistered)
         \/ volume' = volume + 1 /\ ~StorageRegistered
<1>1. CASE \E s \in Slaves : SlaveNext(s)
  BY <1>1, SlaveAside DEF StorageRegistered
<1>2. CASE MasterNext
  BY <1>2, MasterAside
<1>3. CASE RegisterStorage
  BY <1>3 DEF RegisterStorage
<1>4. CASE SilenceStorage
  BY <1>4 DEF SilenceStorage, StorageRegistered
<1>5. CASE StorageNext /\ ~RegisterStorage /\ ~SilenceStorage
  <2>1. storeSeen' = storeSeen /\ volume' = volume
    BY <1>5
       DEF StorageNext, SubmitXml, StorageLoop, FetchStorageJobs,
           CheckStorageDependencies, RemoveStorageDependencies, AddTask, CrashStorage,
           ThreadStep, TakeTask, FinishTask, TaskRaises, RemoveSource,
           RemoveIntermediates, DeleteMasterJob, DeleteCleanupJob, serverVars
  <2> QED
    BY <2>1 DEF StorageRegistered
<1>6. CASE UNCHANGED vars
  BY <1>6 DEF vars, serverVars, StorageRegistered
<1> QED
  BY <1>1, <1>2, <1>3, <1>4, <1>5, <1>6 DEF Next

\* A volume that is known now was known before: an old one does not come back.
LEMMA VolumeWasKnown ==
  ASSUME IInv, AssignInv, PlanInv, [Next]_vars, NEW m \in Born, info'[m] = info[m],
         info[m].vol <= volume, VolumeKnown(m)'
  PROVE  VolumeKnown(m)
<1>1. info[m] \in JobInfo /\ volume \in Nat
  BY DEF IInv, TableInv, TableTypeOK, ServersTypeOK, Born
<1>2. info[m].vol \in Nat
  BY <1>1 DEF JobInfo
<1>3. StorageRegistered' /\ info[m].vol = volume'
  BY DEF VolumeKnown
<1>4. volume' # volume + 1
  BY <1>1, <1>2, <1>3
<1> QED
  BY <1>3, <1>4, VolumeGoesOn DEF VolumeKnown

\* A thread does not end the main loop, nor bring it back.
LEMMA ThreadsBeside ==
  ASSUME NEW t \in Threads, ThreadStep(t) PROVE tpc' = tpc
BY DEF ThreadStep, TakeTask, FinishTask, TaskRaises, RemoveSource,
       RemoveIntermediates, DeleteMasterJob, DeleteCleanupJob

\* A cleanup that is submitted first finds the source: the transcode was started
\* after its download was submitted, and is finished, so the download has ended.
LEMMA NewCleanupTidies ==
  ASSUME IInv, PlanInv, CloseInv, RequestInv, DownloadInv, CleanupInv,
         Submit("cleanup"), Aside,
         NEW i, i = Len(info) + 1, Sole(i)'
  PROVE  Tidy(i)'
<1>1. "cleanup" \in ChildSubTypes /\ "cleanup" # "master" /\ "cleanup" \notin PartTypes
  BY DEF ChildSubTypes, StorageSubTypes, PartTypes
<1>2. Added("cleanup", info[mcur.job].req, Subject, DependenciesOf("cleanup"))
  BY SubmitAdds DEF IInv, TableInv, Subject, Submit
<1>3. plan = CleanupPlan /\ mcur.job \in Born
  BY <1>1, SubmitStage
<1>4. info[mcur.job].sub = "master"
  BY <1>3, PlanOfRow, PlansDiffer DEF TranscodePlans
<1>5. PICK m : m = mcur.job
  OBVIOUS
<1>6. m \in Masters /\ Subject = m /\ Finished(m) /\ Closed(m)
  <2>1. Subject = m
    BY <1>4, <1>5 DEF Subject, Owner
  <2>2. m \in Masters /\ Finished(m)
    BY <1>3, <1>4, <1>5 DEF Masters, CloseInv
  <2> QED
    BY <2>1, <2>2 DEF CloseInv
<1>7. /\ info'[i].req = info[m].req /\ info'[i].master = m
      /\ jobs'[i].state = 0
  BY <1>2, <1>5, <1>6 DEF Added
<1>8. PICK r : r = info[m].req
  OBVIOUS
<1>9. ASSUME r \in Download PROVE Source[r] \in downloaded
  <2>1. PICK d \in Asked(m, "download") : TRUE
    BY <1>6, <1>8, <1>9 DEF DownloadInv, Finished
  <2>2. d \in Done /\ info[d].sub = "download"
    BY <1>6, <2>1 DEF Closed, Asked
  <2>3. info[d].req = r
    BY <1>8, <2>1 DEF RequestInv, Asked, ChildrenEver
  <2>4. ASSUME NEW k \in Cleanups, info[k].req \in Download, Source[info[k].req] = Source[r]
        PROVE  FALSE
    <3>1. k \in Cleanups' \ {i} /\ info'[k] = info[k]
      BY <1>2, <2>4 DEF Added, Cleanups
    <3>2. info'[i].req = r
      BY <1>7, <1>8
    <3>3. ShareFiles(info'[k].req, info'[i].req)
      BY <1>9, <2>4, <3>1, <3>2 DEF ShareFiles
    <3> QED
      BY <3>1, <3>3 DEF Sole, ShareFiles
  <2> QED
    BY <2>2, <2>3, <2>4 DEF CleanupInv
<1>10. task' = task /\ downloaded' = downloaded
  BY DEF Aside
<1>11. \A t \in Threads : task'[t].job # i
  <2>1. \A t \in Threads : task[t].job \in Born \cup {0}
    BY DEF IInv, StorageInv, StorageTypeOK
  <2>2. i \notin Born /\ i # 0
    BY <1>2 DEF Added, IInv, TableInv, TableTypeOK
  <2> QED
    BY <1>10, <2>1, <2>2
<1> QED
  BY <1>7, <1>8, <1>9, <1>10, <1>11 DEF Tidy

\* A source stays until a cleanup removes it.
LEMMA SourcesKept ==
  ASSUME IInv, AssignInv, PlanInv, CloseInv, CleanupInv, DownloadsSucceed, [Next]_vars,
         NEW i \in Done', info'[i].sub = "download"
  PROVE  \/ Source[info'[i].req] \in downloaded'
         \/ \E k \in Cleanups' : /\ info'[k].req \in Download
                                 /\ Source[info'[k].req] = Source[info'[i].req]
<1>1. Born \subseteq Born' /\ \A k \in Born : info'[k] = info[k]
  BY RowsGoOn
<1>2. i \in Born /\ info'[i] = info[i]
  <2>1. CASE i \in Done
    BY <1>1, <2>1 DEF Done
  <2>2. CASE i \notin Done
    <3>1. Quiet \/ RunEnds \/ Inserts
      BY StepKinds
    <3>2. ran \subseteq Born \X Servers
      BY DEF IInv, TableInv, TableTypeOK
    <3>3. PICK s \in Servers : <<i, s>> \in ran'
      BY DEF Done, Servers
    <3>4. <<i, s>> \in ran \/ i \in Born
      BY <3>1, <3>3 DEF Quiet, RunEnds, Inserts
    <3> QED
      BY <1>1, <3>2, <3>4
  <2> QED
    BY <2>1, <2>2
<1>3. PICK f : f = Source[info[i].req]
  OBVIOUS
<1>4. ASSUME NEW k \in Cleanups
      PROVE  k \in Cleanups' /\ info'[k] = info[k]
  BY <1>1, <1>4 DEF Cleanups
<1>5. CASE i \notin Done
  <2>1. PICK t \in Threads : FinishTask(t) /\ task[t].job = i
    BY <1>2, <1>5, DownloadEnds
  <2>2. f \in downloaded'
    BY <1>2, <1>3, <2>1 DEF FinishTask, SubOf, SourceOf, RequestOf, DownloadsSucceed
  <2> QED
    BY <1>2, <1>3, <2>2
<1>6. CASE i \in Done
  <2>1. \/ f \in downloaded
        \/ \E k \in Cleanups : info[k].req \in Download /\ Source[info[k].req] = f
    BY <1>2, <1>3, <1>6 DEF CleanupInv
  <2>2. \/ f \in downloaded'
        \/ \E k \in Cleanups : info[k].req \in Download /\ Source[info[k].req] = f
    BY <2>1, SourceRemoved
  <2> QED
    BY <1>2, <1>3, <1>4, <2>2
<1> QED
  BY <1>5, <1>6

\* A row is inserted with the present volume, or with none, and a cleanup by the
\* master.
LEMMA NewRows ==
  ASSUME IInv, NEW i \in Born', i \notin Born, [Next]_vars
  PROVE  /\ i = Len(info) + 1 /\ info'[i].vol \in {0, volume} /\ volume' = volume
         /\ info'[i].sub = "cleanup" => Submit("cleanup")
<1>1. TableTypeOK
  BY DEF IInv, TableInv
<1>2. Inserting
  BY InfoKept, AskedSame
<1>3. ASSUME NEW sub, NEW r, NEW m, NEW D, Added(sub, r, m, D)
      PROVE  i = Len(info) + 1 /\ info'[i].vol \in {0, volume} /\ info'[i].sub = sub
  BY <1>3 DEF Added, FindStorageForJob
<1>4. CASE \E r \in Requests : SubmitXml(r)
  <2>1. PICK r \in Requests : SubmitXml(r)
    BY <1>4
  <2>2. Added("master", r, 0, {}) /\ volume' = volume
    BY <1>1, <2>1, SubmitXmlAdds DEF SubmitXml, serverVars
  <2> QED
    BY <1>3, <2>2
<1>5. ASSUME NEW sub \in ChildSubTypes, Submit(sub)
      PROVE  /\ i = Len(info) + 1 /\ info'[i].vol \in {0, volume} /\ volume' = volume
             /\ info'[i].sub = "cleanup" => Submit("cleanup")
  <2>1. Added(sub, info[mcur.job].req, Owner(mcur.job), DependenciesOf(sub))
        /\ volume' = volume
    BY <1>1, <1>5, SubmitAdds DEF Submit, serverVars
  <2> QED
    BY <1>3, <1>5, <2>1
<1> QED
  BY <1>2, <1>4, <1>5 DEF Inserting

\* Volumes are numbered upwards.
LEMMA VolumesBefore ==
  ASSUME IInv, AssignInv, PlanInv, CloseInv, CleanupInv, [Next]_vars, NEW i \in Born'
  PROVE  info'[i].vol <= volume'
<1>1. volume \in Nat
  BY DEF IInv, ServersTypeOK
<1>2. CASE i \in Born
  <2>1. info'[i] = info[i] /\ info[i].vol <= volume /\ info[i] \in JobInfo
    BY <1>2, RowsGoOn DEF CleanupInv, IInv, TableInv, TableTypeOK, Born
  <2>2. info[i].vol \in Nat
    BY <2>1 DEF JobInfo
  <2>3. volume' = volume \/ volume' = volume + 1
    BY VolumeGoesOn
  <2> QED
    BY <1>1, <2>1, <2>2, <2>3
<1>3. CASE i \notin Born
  BY <1>1, <1>3, NewRows
<1> QED
  BY <1>2, <1>3

\* CleanupInv is inductive when downloads succeed.
LEMMA NextCleanups ==
  ASSUME IInv, AssignInv, PlanInv, CloseInv, RequestInv, DownloadInv, CleanupInv,
         DownloadsSucceed, [Next]_vars
  PROVE  CleanupInv'
<1>1. /\ Born \subseteq Born'
      /\ \A i \in Born : info'[i] = info[i] /\ (i \in Present' => i \in Present)
  BY RowsGoOn
<1>2. ASSUME tpc' # "dead", ~\E t \in Threads : ThreadStep(t)
      PROVE  Aside /\ tpc # "dead"
  <2>1. CASE UNCHANGED vars
    <3>1. TableTypeOK /\ jobs' = jobs
      BY <2>1 DEF IInv, TableInv, vars, tableVars
    <3> QED
      BY <1>2, <2>1, <3>1, OtherRowsAside DEF Aside, vars, fileVars, storageVars
  <2> QED
    BY <1>2, <2>1, SlaveAside, StorageAside, MasterAside DEF Next
<1>3. tpc' # "dead" => tpc # "dead"
  BY <1>2, ThreadsBeside
<1>4. ASSUME tpc' # "dead", NEW i \in Cleanups', Sole(i)' PROVE Tidy(i)'
  <2>1. CASE i \notin Born
    <3>1. i = Len(info) + 1 /\ Submit("cleanup")
      BY <1>4, <2>1, NewRows DEF Cleanups
    <3>2. Aside
      <4>1. info' # info
        BY <1>4, <2>1, AskedSame DEF Cleanups
      <4>2. ~\E t \in Threads : ThreadStep(t)
        BY <4>1, StorageRows DEF IInv, TableInv
      <4> QED
        BY <1>2, <1>4, <4>2
    <3> QED
      BY <1>4, <3>1, <3>2, NewCleanupTidies
  <2>2. CASE i \in Born
    <3>1. i \in Cleanups /\ info'[i] = info[i] /\ (i \in Present' => i \in Present)
      BY <1>1, <1>4, <2>2 DEF Cleanups
    <3>2. info[i].master \in Born
      BY <3>1 DEF Cleanups, IInv, TableInv, KindsOK
    <3>3. VolumeKnown(info[i].master)
      <4>1. PICK m \in Born : m = info[i].master
        BY <3>2
      <4>2. VolumeKnown(m)'
        BY <1>4, <3>1, <4>1 DEF Sole
      <4>3. info'[m] = info[m] /\ info[m].vol <= volume
        BY <1>1 DEF CleanupInv
      <4> QED
        BY <4>1, <4>2, <4>3, VolumeWasKnown
    <3>4. ASSUME NEW k \in Cleanups \ {i} PROVE ~ShareFiles(info[k].req, info[i].req)
      <4>1. k \in Cleanups' /\ info'[k] = info[k]
        BY <1>1, <3>4 DEF Cleanups
      <4> QED
        BY <1>4, <3>1, <3>4, <4>1 DEF Sole, ShareFiles
    <3>5. Sole(i)
      BY <3>3, <3>4 DEF Sole
    <3>6. Tidy(i)
      BY <1>3, <1>4, <3>1, <3>5 DEF CleanupInv
    <3>7. CASE \E t \in Threads : ThreadStep(t)
      BY <3>1, <3>5, <3>6, <3>7, ThreadTidies
    <3>8. CASE ~\E t \in Threads : ThreadStep(t)
      BY <1>2, <1>4, <3>1, <3>6, <3>8, AsideTidies
    <3> QED
      BY <3>7, <3>8
  <2> QED
    BY <2>1, <2>2
<1> QED
  BY <1>4, SourcesKept, VolumesBefore DEF CleanupInv

----------------------------------------------------------------------------
(* The invariant of the farm. *)

\* There is nothing to remove at the start.
LEMMA InitCleanups ==
  ASSUME Init PROVE CleanupInv
<1>1. Born = {} /\ ran = {}
  BY EmptyStart DEF Init, TableInit
<1>2. Done = {} /\ Cleanups = {}
  BY <1>1 DEF Done, Cleanups
<1> QED
  BY <1>1, <1>2 DEF CleanupInv

\* Every step preserves all parts of FarmInv together, each under its
\* condition: the statements of this module and of HolderProofs rest on nothing
\* but the conjuncts of FarmInv.
THEOREM FarmInvariant == Spec => []FarmInv
<1>1. Init => FarmInv
  <2> SUFFICES ASSUME Init PROVE FarmInv
    OBVIOUS
  <2>1. IInv /\ AssignInv
    BY InitIInv, EmptyStart DEF AssignInv, RowsFit, HeldFit, PoolFit, OrphansFit, InHand
  <2> QED
    BY <2>1, InitStages, InitHolds, InitCleanups DEF FarmInv
<1>2. FarmInv /\ [Next]_vars => FarmInv'
  <2> SUFFICES ASSUME FarmInv, [Next]_vars PROVE FarmInv'
    OBVIOUS
  <2>1. IInv /\ AssignInv /\ PlanInv /\ CloseInv /\ RequestInv /\ DownloadInv
    BY DEF FarmInv
  <2>2. IInv' /\ AssignInv' /\ PlanInv' /\ CloseInv' /\ RequestInv' /\ DownloadInv'
    BY <2>1, NextIInv, NextAssigns, NextPlans, NextCloses, NextRequestInv, NextDownloadInv
  <2>3. restarts' = 0 => StageInv'
    BY <2>1, NextStages, MasterStaysDead DEF FarmInv
  <2>4. DownloadsSucceed => CleanupInv'
    BY <2>1, NextCleanups DEF FarmInv
  <2>5. SlowWorkBeats => HeldInv'
    BY <2>1, NextHolds DEF FarmInv
  <2> QED
    BY <2>2, <2>3, <2>4, <2>5 DEF FarmInv, SlowWorkBeats, DownloadsSucceed
<1> QED
  BY <1>1, <1>2, PTL DEF Spec

\* Until a master that has ended is started again, a transcode is finished only
\* when its output was muxed, its frames were counted twice if asked, and it was
\* uploaded if it has to be: fetch_jobs concludes that from rows it does not
\* find, and split_transcode_job submits the parts one by one.
THEOREM FinishedIsComplete == Spec => [](restarts = 0 => FinishedMeansComplete)
<1>1. ASSUME IInv, CloseInv, StageInv PROVE FinishedMeansComplete
  <2> SUFFICES ASSUME NEW m \in Present, info[m].sub = "master", jobs[m].state = 2
               PROVE  /\ DoneFor(m, "av_mux") # {}
                      /\ info[m].req \in Confirm =>
                           Cardinality(DoneFor(m, "count_frames")) = 2
                      /\ info[m].req \in Upload => DoneFor(m, "upload") # {}
    BY DEF FinishedMeansComplete
  <2>1. m \in Masters /\ Finished(m)
    BY <1>1 DEF Masters, Finished, IInv, TableInv, TableTypeOK
  <2>2. Closed(m) /\ Full(m)
    BY <1>1, <2>1 DEF CloseInv, StageInv
  <2>3. \A x : x # "cleanup" => DoneFor(m, x) = Asked(m, x)
    BY <2>2 DEF DoneFor, Asked, Closed
  <2> QED
    BY <2>2, <2>3 DEF Full
<1>2. FarmInv => (restarts = 0 => FinishedMeansComplete)
  BY <1>1 DEF FarmInv
<1> QED
  BY <1>2, FarmInvariant, PTL

\* The DELETE of a cleanup job comes when downloads succeed, as long as the
\* storage server runs, unless another cleanup, of whichever transcode, has files
\* in common with it, or the volume was registered anew since the transcode was
\* submitted: these are all the cases in which job_cleanup raises.
THEOREM CleanupsAreDeleted == Spec /\ DownloadsSucceed => []CleanupJobDeleted
<1>1. ASSUME IInv, CleanupInv PROVE CleanupJobDeleted
  <2> SUFFICES ASSUME NEW i \in Present, info[i].sub = "cleanup", jobs[i].state = 1,
                      tpc # "dead", Sole(i)
               PROVE  \E t \in Threads : RunsIn(t, i)
    BY DEF CleanupJobDeleted, Sole
  <2>1. i \in Cleanups
    BY <1>1 DEF Cleanups, IInv, TableInv, TableTypeOK
  <2>2. i \in Tasks
    BY <1>1, <2>1 DEF CleanupInv, Tidy
  <2> QED
    BY <2>2 DEF Tasks, RunsIn
<1>2. ASSUME DownloadsSucceed PROVE Spec => []CleanupJobDeleted
  <2>1. FarmInv => CleanupJobDeleted
    BY <1>1, <1>2 DEF FarmInv
  <2> QED
    BY <2>1, FarmInvariant, PTL
<1> QED
  BY <1>2
=============================================================================
