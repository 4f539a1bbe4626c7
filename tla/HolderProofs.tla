---------------------------- MODULE HolderProofs ----------------------------
(***************************************************************************)
(* Who holds a job, for every number of slaves and threads: that a job is  *)
(* assigned to a server of its kind, that one slave at a time runs it, and *)
(* that it is taken only from a slave that has ended.                      *)
(***************************************************************************)
EXTENDS ClusterInvariants, ClusterProofs

----------------------------------------------------------------------------
(* What a step does to the rows that stay. *)

\* No row changes its server, no row is added.
SameServers ==
  Present' \subseteq Present /\ \A j \in Present' : jobs'[j].server = jobs[j].server

\* The statements the processes execute on Jobs, but for INSERT and the UPDATE
\* of reassign_orphaned_jobs, are of this kind.
LEMMA RowsKept ==
  ASSUME TableTypeOK,
         \/ UNCHANGED jobs
         \/ \E D : jobs' = Without(D)
         \/ \E i : \E st \in {1, 2} : jobs' = WithState(i, st)
         \/ \E i, s : \E st \in {1, 2} : jobs' = WithStateOf(i, s, st)
  PROVE  SameServers
<1> USE DEF TableTypeOK, Present, SameServers
<1>1. CASE UNCHANGED jobs
  BY <1>1
<1>2. CASE \E D : jobs' = Without(D)
  BY <1>2 DEF Without
<1>3. CASE \E i : \E st \in {1, 2} : jobs' = WithState(i, st)
  <2>1. PICK i : \E st \in {1, 2} : jobs' = WithState(i, st)
    BY <1>3
  <2> PICK st \in {1, 2} : jobs' = WithState(i, st)
    BY <2>1
  <2>2. Present' = Present
    BY DEF WithState
  <2>3. ASSUME NEW j \in Present
        PROVE  jobs'[j].server = jobs[j].server
    <3> DEFINE r == [jobs[j] EXCEPT !.state = st]
    <3>1. jobs[j] \in JobRow /\ st \in 0 .. 2
      OBVIOUS
    <3>2. jobs'[j] = jobs[j] \/ jobs'[j] = r
      BY DEF WithState
    <3>3. r.server = jobs[j].server
      BY <3>1, RowUpdate
    <3> HIDE DEF r, TableTypeOK, Present
    <3> QED
      BY <3>2, <3>3
  <2> QED
    BY <2>2, <2>3
<1>4. CASE \E i, s : \E st \in {1, 2} : jobs' = WithStateOf(i, s, st)
  <2>1. PICK i, s : \E st \in {1, 2} : jobs' = WithStateOf(i, s, st)
    BY <1>4
  <2> PICK st \in {1, 2} : jobs' = WithStateOf(i, s, st)
    BY <2>1
  <2>2. Present' = Present
    BY DEF WithStateOf
  <2>3. ASSUME NEW j \in Present
        PROVE  jobs'[j].server = jobs[j].server
    <3> DEFINE r == [jobs[j] EXCEPT !.state = st]
    <3>1. jobs[j] \in JobRow /\ st \in 0 .. 2
      OBVIOUS
    <3>2. jobs'[j] = jobs[j] \/ jobs'[j] = r
      BY DEF WithStateOf
    <3>3. r.server = jobs[j].server
      BY <3>1, RowUpdate
    <3> HIDE DEF r, TableTypeOK, Present
    <3> QED
      BY <3>2, <3>3
  <2> QED
    BY <2>2, <2>3
<1> QED
  BY <1>1, <1>2, <1>3, <1>4

\* submit_job adds one row, in State 0, for a server of its kind, under a uuid
\* nobody knows yet.
Added(sub, r, m, D) ==
  LET new == Len(info) + 1 IN
  /\ new \notin Born /\ new \notin Present /\ new \in Nat
  /\ Born' = Born \cup {new} /\ Present' = Present \cup {new}
  /\ \A i \in Born : info'[i] = info[i]
  /\ \A i \in Present : jobs'[i] = jobs[i]
  /\ info'[new].sub = sub /\ info'[new].req = r /\ info'[new].master = m
  /\ info'[new].deps = D /\ info'[new].vol = FindStorageForJob
  /\ jobs'[new].state = 0 /\ jobs'[new].server \in ServersFor(sub)
  /\ jobs'[new].cuts = 0

\* SubmitJob is such an INSERT.
LEMMA SubmitAdds ==
  ASSUME TableTypeOK, NEW sub, NEW r, NEW m, NEW D, SubmitJob(sub, r, m, D)
  PROVE  Added(sub, r, m, D)
<1> DEFINE new == Len(info) + 1
           rec == [sub |-> sub, req |-> r, master |-> m, deps |-> D,
                   vol |-> FindStorageForJob]
<1>1. PICK s \in ServersFor(sub) :
        /\ info' = Append(info, rec)
        /\ jobs' = [i \in Present \cup {new} |->
                      IF i \in Present THEN jobs[i]
                      ELSE [state |-> 0, server |-> s, cuts |-> 0]]
  BY DEF SubmitJob
<1>2. info \in Seq(JobInfo) /\ Len(info) \in Nat /\ Born = 1 .. Len(info)
      /\ Present \subseteq Born
  BY DEF TableTypeOK, Born
<1>3. /\ rec.sub = sub /\ rec.req = r /\ rec.master = m /\ rec.deps = D
      /\ rec.vol = FindStorageForJob
  OBVIOUS
<1> HIDE DEF rec
<1>4. /\ Born' = Born \cup {new} /\ new \notin Born /\ new \in Nat
      /\ \A i \in Born : info'[i] = info[i]
      /\ info'[new] = rec
  BY <1>1, <1>2 DEF Born
<1>5. new \notin Present
  BY <1>2, <1>4
<1>6. /\ Present' = Present \cup {new}
      /\ \A i \in Present : jobs'[i] = jobs[i]
      /\ jobs'[new] = [state |-> 0, server |-> s, cuts |-> 0]
  BY <1>1, <1>5 DEF Present
<1> QED
  BY <1>1, <1>3, <1>4, <1>5, <1>6 DEF Added

\* The server an INSERT names is of the kind of the job, and registered.
LEMMA ServersForFit ==
  ASSUME NEW sub, NEW s \in ServersFor(sub)
  PROVE  \/ s = Nobody
         \/ s \in Slaves /\ sub \in SlaveSubTypes /\ seen[s] # "none"
         \/ s = StorageServer /\ sub \in StorageSubTypes
BY DEF ServersFor, FindServerForSlaveJob, FindServerForStorageJob, RegisteredSlaves

\* A slave's statements on Jobs leave the servers of all rows alone.
LEMMA SlaveRows ==
  ASSUME TableTypeOK, NEW s \in Slaves,
         SlaveStep(s) \/ Heartbeat(s) \/ SlaveFault(s) \/ Silence(s)
  PROVE  info' = info /\ SameServers
<1>1. CASE RemoveDependencies(s)
  <2>1. UNCHANGED jobs \/ \E D : jobs' = Without(D)
    BY <1>1 DEF RemoveDependencies, RemoveDependencyJobs
  <2> QED
    BY <1>1, <2>1, RowsKept DEF RemoveDependencies
<1>2. CASE ClaimJob(s)
  <2>1. \E i, x : \E st \in {1, 2} : jobs' = WithStateOf(i, x, st)
    BY <1>2 DEF ClaimJob
  <2> QED
    BY <1>2, <2>1, RowsKept DEF ClaimJob
<1>3. ASSUME NEW k, JobEnds(s, k)
      PROVE  info' = info /\ SameServers
  <2>1. Present' = Present /\ info' = info
    BY <1>3 DEF JobEnds, Present
  <2>2. ASSUME NEW j \in Present
        PROVE  jobs'[j].server = jobs[j].server
    <3>1. CASE j = cur[s] /\ jobs[j].server = s
      <4>1. jobs'[j] = [state |-> 2, server |-> s, cuts |-> k]
        BY <1>3, <3>1 DEF JobEnds
      <4> QED
        BY <3>1, <4>1
    <3>2. CASE ~(j = cur[s] /\ jobs[j].server = s)
      BY <1>3, <3>2 DEF JobEnds
    <3> QED
      BY <3>1, <3>2
  <2> QED
    BY <2>1, <2>2 DEF SameServers
<1>4. CASE FinishJob(s) \/ FinishDetectFrames(s)
  BY <1>3, <1>4 DEF FinishJob, FinishDetectFrames
<1>5. CASE \/ RegisterSlave(s) \/ MountStorage(s) \/ FetchDbJobs(s)
           \/ CheckDependencies(s) \/ SkipJob(s) \/ RunRaises(s)
           \/ Heartbeat(s) \/ SlaveFault(s) \/ Silence(s)
  <2>1. UNCHANGED tableVars
    BY <1>5 DEF RegisterSlave, MountStorage, FetchDbJobs, CheckDependencies,
                SkipJob, RunRaises, Heartbeat, SlaveFault, ExitSlave,
                CrashSlave, Silence
  <2> QED
    BY <2>1, RowsKept DEF tableVars
<1> QED
  BY <1>1, <1>2, <1>4, <1>5 DEF SlaveStep

\* What a slave holds after a step it held before, or has just selected.
LEMMA SlaveHolding ==
  ASSUME TableTypeOK, SlaveTypeOK, NEW s \in Slaves,
         SlaveStep(s) \/ Heartbeat(s) \/ SlaveFault(s) \/ Silence(s)
  PROVE  /\ \A x \in Slaves \ {s} :
              /\ spc'[x] = spc[x] /\ batch'[x] = batch[x] /\ cur'[x] = cur[x]
              /\ seen'[x] = seen[x]
         /\ \/ Held(s)' \subseteq Held(s) /\ (cur[s] \notin batch[s] => cur'[s] \notin batch'[s])
            \/ /\ jobs' = jobs /\ Held(s)' = WaitingFor(s)
               /\ cur'[s] \notin batch'[s] /\ spc'[s] # "dead" /\ spc[s] = "fetch"
         /\ spc[s] = "dead" => spc'[s] = "dead"
         /\ spc'[s] = "dead" => Held(s)' = {} \/ (spc[s] = "dead" /\ Held(s)' = Held(s))
<1> USE DEF SlaveTypeOK
<1>0. 0 \notin Born
  BY DEF TableTypeOK, Born
<1>1. CASE RegisterSlave(s)
  BY <1>1 DEF RegisterSlave, Held
<1>2. CASE MountStorage(s)
  BY <1>2 DEF MountStorage, Held, serverVars
<1>3. CASE FetchDbJobs(s)
  <2>1. /\ spc[s] = "fetch" /\ UNCHANGED <<tableVars, serverVars>>
        /\ batch' = [batch EXCEPT ![s] = WaitingFor(s)]
        /\ cur' = [cur EXCEPT ![s] = 0]
        /\ \/ spc' = [spc EXCEPT ![s] = "loop"]
           \/ spc' = [spc EXCEPT ![s] = "rows"]
    BY <1>3 DEF FetchDbJobs, NextRow
  <2>2. 0 \notin WaitingFor(s)
    BY <1>0 DEF WaitingFor, TableTypeOK
  <2>3. batch'[s] = WaitingFor(s) /\ cur'[s] = 0
    BY <2>1
  <2>4. Held(s)' = WaitingFor(s)
    BY <2>2, <2>3 DEF Held
  <2> QED
    BY <2>1, <2>2, <2>3, <2>4 DEF serverVars, tableVars
<1>4. CASE CheckDependencies(s)
  <2>1. PICK i \in batch[s] :
          /\ batch' = [batch EXCEPT ![s] = batch[s] \ {i}]
          /\ \/ /\ cur' = [cur EXCEPT ![s] = i]
                /\ spc' = [spc EXCEPT ![s] = "remove"]
             \/ NextRow(s, batch[s] \ {i})
    BY <1>4 DEF CheckDependencies
  <2>2. /\ spc[s] = "rows" /\ UNCHANGED serverVars
        /\ batch'[s] = batch[s] \ {i}
        /\ cur'[s] = i \/ cur'[s] = 0
        /\ spc'[s] # "dead"
        /\ \A x \in Slaves \ {s} :
              spc'[x] = spc[x] /\ batch'[x] = batch[x] /\ cur'[x] = cur[x]
    BY <1>4, <2>1 DEF CheckDependencies, NextRow
  <2>3. 0 \notin batch[s]
    BY <1>0
  <2> QED
    BY <2>1, <2>2, <2>3 DEF Held, serverVars
<1>5. ASSUME SlaveDies(s), spc[s] # "dead",
             \A x \in Slaves \ {s} : seen'[x] = seen[x]
      PROVE  /\ \A x \in Slaves \ {s} :
                  /\ spc'[x] = spc[x] /\ batch'[x] = batch[x] /\ cur'[x] = cur[x]
                  /\ seen'[x] = seen[x]
             /\ Held(s)' = {} /\ cur'[s] \notin batch'[s] /\ spc'[s] = "dead"
  BY <1>5 DEF SlaveDies, Held
<1>6. ASSUME NextRow(s, batch[s]), batch' = batch, UNCHANGED seen
      PROVE  /\ \A x \in Slaves \ {s} :
                  /\ spc'[x] = spc[x] /\ batch'[x] = batch[x] /\ cur'[x] = cur[x]
                  /\ seen'[x] = seen[x]
             /\ Held(s)' \subseteq Held(s) /\ cur'[s] \notin batch'[s]
             /\ spc'[s] # "dead"
  BY <1>0, <1>6 DEF NextRow, Held
<1>7. CASE RemoveDependencies(s)
  <2>1. CASE SlaveDies(s)
    BY <1>5, <1>7, <2>1 DEF RemoveDependencies, serverVars
  <2>2. CASE spc' = [spc EXCEPT ![s] = "claim"] /\ UNCHANGED <<batch, cur>>
    BY <1>7, <2>2 DEF RemoveDependencies, serverVars, Held
  <2> QED
    BY <1>7, <2>1, <2>2 DEF RemoveDependencies
<1>8. CASE ClaimJob(s)
  BY <1>8 DEF ClaimJob, Held
<1>9. CASE SkipJob(s)
  BY <1>6, <1>9 DEF SkipJob, serverVars
<1>10. CASE FinishJob(s) \/ FinishDetectFrames(s)
  BY <1>6, <1>10 DEF FinishJob, FinishDetectFrames, JobEnds
<1>11. CASE RunRaises(s)
  BY <1>5, <1>11 DEF RunRaises, serverVars
<1>12. CASE ExitSlave(s)
  <2>1. \A x \in Slaves \ {s} : seen'[x] = seen[x]
    BY <1>12 DEF ExitSlave
  <2> QED
    BY <1>5, <1>12, <2>1 DEF ExitSlave
<1>13. CASE CrashSlave(s)
  BY <1>5, <1>13 DEF CrashSlave, serverVars
<1>14. CASE Heartbeat(s)
  BY <1>14 DEF Heartbeat, slaveVars, Held
<1>15. CASE Silence(s)
  BY <1>15 DEF Silence, slaveVars, Held
<1> QED
  BY <1>1, <1>2, <1>3, <1>4, <1>7, <1>8, <1>9, <1>10, <1>11, <1>12, <1>13, <1>14,
     <1>15 DEF SlaveStep, SlaveFault
----------------------------------------------------------------------------
(* Jobs go to servers of their kind. *)

\* Rows that keep their servers keep fitting them.
LEMMA RowsFitKept ==
  ASSUME RowsFit, TableTypeOK, info' = info, SameServers PROVE RowsFit'
BY DEF RowsFit, SameServers

\* So do those an INSERT adds.
LEMMA RowsFitAdded ==
  ASSUME RowsFit, TableTypeOK, NEW sub, NEW r, NEW m, NEW D, Added(sub, r, m, D)
  PROVE  RowsFit'
<1> DEFINE new == Len(info) + 1
<1>1. \/ jobs'[new].server = Nobody
      \/ jobs'[new].server \in Slaves /\ sub \in SlaveSubTypes
      \/ jobs'[new].server = StorageServer /\ sub \in StorageSubTypes
  BY ServersForFit DEF Added
<1>2. ASSUME NEW i \in Present
      PROVE  jobs'[i] = jobs[i] /\ info'[i] = info[i]
  BY DEF Added, TableTypeOK
<1> QED
  BY <1>1, <1>2 DEF RowsFit, Added

\* What the servers hold are jobs.
LEMMA HoldingsBorn ==
  ASSUME IInv
  PROVE  /\ \A s \in Slaves : Held(s) \subseteq Born
         /\ Selected \cup Queued \cup Tasks \subseteq Born
         /\ 0 \notin Born
<1>1. \A s \in Slaves : batch[s] \subseteq Born /\ cur[s] \in Born \cup {0}
  BY DEF IInv, SlaveInv, SlaveTypeOK
<1>2. /\ tbatch \subseteq Born /\ (tpc \in {"remove", "put"} => tcur \in Born)
      /\ \A j \in DOMAIN queue : queue[j] \in Born
      /\ \A t \in Threads : task[t].pc # "idle" => task[t].job \in Born
  BY DEF IInv, StorageInv, StorageTypeOK
<1> QED
  BY <1>1, <1>2 DEF Held, Selected, Queued, Tasks, IInv, TableInv, TableTypeOK, Born

\* A slave selects jobs assigned to it, and only those.
LEMMA SlaveAssigns ==
  ASSUME IInv, AssignInv, NEW s \in Slaves,
         SlaveStep(s) \/ Heartbeat(s) \/ SlaveFault(s) \/ Silence(s),
         UNCHANGED <<storageVars, masterVars>>
  PROVE  AssignInv'
<1>1. TableTypeOK /\ SlaveTypeOK
  BY DEF IInv, TableInv, SlaveInv
<1>2. info' = info /\ SameServers
  BY <1>1, SlaveRows
<1>3. RowsFit'
  BY <1>1, <1>2, RowsFitKept DEF AssignInv
<1>4. \A i \in WaitingFor(s) : info[i].sub \in SlaveSubTypes
  BY SlavesAssumption DEF AssignInv, RowsFit, WaitingFor, Servers
<1>5. ASSUME NEW x \in Slaves, NEW i \in Held(x)'
      PROVE  info'[i].sub \in SlaveSubTypes
  <2>1. CASE x # s
    BY <1>1, <1>2, <1>5, <2>1, SlaveHolding DEF AssignInv, HeldFit, Held
  <2>2. CASE x = s
    <3>1. Held(s)' \subseteq Held(s) \/ Held(s)' = WaitingFor(s)
      BY <1>1, SlaveHolding
    <3> QED
      BY <1>2, <1>4, <1>5, <2>2, <3>1 DEF AssignInv, HeldFit
  <2> QED
    BY <2>1, <2>2
<1>6. PoolFit' /\ OrphansFit'
  BY <1>2 DEF AssignInv, PoolFit, OrphansFit, Selected, Queued, Tasks,
              storageVars, masterVars, InHand
<1> QED
  BY <1>3, <1>5, <1>6 DEF AssignInv, HeldFit

----------------------------------------------------------------------------
(* One slave holds a job. *)

\* A slave that has not ended is heard of, when slow work beats.
LEMMA SlaveBeats ==
  ASSUME IInv, SlowWorkBeats, HeldInv, NEW s \in Slaves,
         SlaveStep(s) \/ Heartbeat(s) \/ SlaveFault(s) \/ Silence(s)
  PROVE  /\ spc'[s] # "dead" => seen'[s] # "old"
         /\ spc'[s] \notin {"dead", "loop"} => seen'[s] # "none"
         /\ seen'[s] = "none" => seen[s] = "none" \/ spc'[s] = "dead"
<1>1. spc \in [Slaves -> SlavePCs] /\ seen \in [Slaves -> Seen]
  BY DEF IInv, SlaveInv, SlaveTypeOK, ServersTypeOK
<1>2. /\ spc[s] # "dead" => seen[s] # "old"
      /\ spc[s] \notin {"dead", "loop"} => seen[s] # "none"
  BY DEF HeldInv
<1>3. CASE RegisterSlave(s) \/ Heartbeat(s)
  BY <1>1, <1>3 DEF RegisterSlave, Heartbeat, slaveVars
<1>4. CASE MountStorage(s) \/ FetchDbJobs(s) \/ CheckDependencies(s)
           \/ ClaimJob(s) \/ SkipJob(s)
  <2>1. seen' = seen /\ spc[s] \notin {"dead", "loop"}
    BY <1>4 DEF MountStorage, FetchDbJobs, CheckDependencies, ClaimJob, SkipJob,
                serverVars
  <2> QED
    BY <1>2, <2>1
<1>5. CASE RemoveDependencies(s) \/ FinishJob(s) \/ FinishDetectFrames(s)
           \/ RunRaises(s)
  <2>1. seen' = seen /\ spc[s] \notin {"dead", "loop"}
    BY <1>5 DEF RemoveDependencies, FinishJob, FinishDetectFrames, JobEnds,
                RunRaises, serverVars
  <2> QED
    BY <1>2, <2>1
<1>6. CASE SlaveFault(s)
  BY <1>1, <1>6 DEF SlaveFault, ExitSlave, CrashSlave, SlaveDies
<1>7. CASE Silence(s)
  <2>1. spc[s] = "dead"
    <3>1. info[cur[s]].sub \in Slow => Heartbeats(info[cur[s]].sub)
      BY DEF SlowWorkBeats
    <3> QED
      BY <1>7, <3>1 DEF Silence
  <2> QED
    BY <1>1, <1>7, <2>1 DEF Silence, slaveVars
<1> QED
  BY <1>3, <1>4, <1>5, <1>6, <1>7 DEF SlaveStep

\* What a slave does to the rows: one it holds goes on, and none is finished that
\* is still held.
LEMMA SlaveAdvances ==
  ASSUME IInv, HeldInv, NEW s \in Slaves,
         SlaveStep(s) \/ Heartbeat(s) \/ SlaveFault(s) \/ Silence(s)
  PROVE  /\ \A j \in Present' : jobs[j].state <= jobs'[j].state
         /\ \A x \in Slaves : \A j \in Held(x)' \cap Present' : jobs'[j].state # 2
<1>1. TableTypeOK /\ SlaveTypeOK
  BY DEF IInv, TableInv, SlaveInv
<1>2. \A x \in Slaves : \/ Held(x)' \subseteq Held(x)
                        \/ jobs' = jobs /\ Held(x)' = WaitingFor(x)
  BY <1>1, SlaveHolding DEF Held
<1>3. \A j \in Present : jobs[j].state \in 0 .. 2
  BY <1>1 DEF TableTypeOK, JobRow
<1>4. ASSUME Present' \subseteq Present,
             \A j \in Present' : \/ jobs'[j].state = jobs[j].state
                                \/ (jobs'[j].state = 1 /\ jobs[j].state # 2)
      PROVE  /\ \A j \in Present' : jobs[j].state <= jobs'[j].state
             /\ \A x \in Slaves : \A j \in Held(x)' \cap Present' : jobs'[j].state # 2
  <2>1. ASSUME NEW j \in Present' PROVE jobs[j].state <= jobs'[j].state
    BY <1>3, <1>4, <2>1
  <2>2. ASSUME NEW x \in Slaves, NEW j \in Held(x)', j \in Present'
        PROVE  jobs'[j].state # 2
    <3>1. CASE Held(x)' \subseteq Held(x)
      BY <1>4, <2>2, <3>1 DEF HeldInv
    <3>2. CASE jobs' = jobs /\ Held(x)' = WaitingFor(x)
      BY <2>2, <3>2 DEF WaitingFor
    <3> QED
      BY <1>2, <3>1, <3>2
  <2> QED
    BY <2>1, <2>2
<1>5. CASE RemoveDependencies(s)
  <2>1. UNCHANGED jobs \/ \E D : jobs' = Without(D)
    BY <1>5 DEF RemoveDependencies, RemoveDependencyJobs
  <2>2. Present' \subseteq Present /\ \A j \in Present' : jobs'[j] = jobs[j]
    BY <2>1 DEF Without, Present
  <2> QED
    BY <1>4, <2>2
<1>6. CASE ClaimJob(s)
  <2>1. /\ jobs' = WithStateOf(cur[s], s, 1) /\ cur[s] \in Born
        /\ 1 \in 0 .. 2
    BY <1>6 DEF ClaimJob, IInv, SlaveInv
  <2>2. cur[s] \in Held(s)
    BY <2>1, HoldingsBorn DEF Held
  <2>3. Present' = Present
    BY <2>1 DEF WithStateOf, Present
  <2>4. ASSUME NEW j \in Present
        PROVE  \/ jobs'[j].state = jobs[j].state
               \/ jobs'[j].state = 1 /\ jobs[j].state # 2
    <3>1. CASE j = cur[s] /\ jobs[j].server = s
      <4> DEFINE r == [jobs[j] EXCEPT !.state = 1]
      <4>1. jobs[j] \in JobRow
        BY <1>1 DEF TableTypeOK
      <4>2. jobs'[j] = r
        BY <2>1, <3>1 DEF WithStateOf
      <4>3. r.state = 1
        BY <2>1, <4>1, RowUpdate
      <4> HIDE DEF r
      <4> QED
        BY <2>2, <3>1, <4>2, <4>3 DEF HeldInv
    <3>2. CASE ~(j = cur[s] /\ jobs[j].server = s)
      BY <2>1, <3>2 DEF WithStateOf
    <3> QED
      BY <3>1, <3>2
  <2> QED
    BY <1>4, <2>3, <2>4
<1>7. CASE FinishJob(s) \/ FinishDetectFrames(s)
  <2>1. PICK k : JobEnds(s, k)
    BY <1>7 DEF FinishJob, FinishDetectFrames
  <2>2. Present' = Present
    BY <2>1 DEF JobEnds, Present
  <2>3. \A j \in Present : jobs'[j].state = 2 \/ jobs'[j] = jobs[j]
    BY <2>1 DEF JobEnds
  <2>4. ASSUME NEW j \in Present' PROVE jobs[j].state <= jobs'[j].state
    BY <1>3, <2>2, <2>3
  <2>5. cur[s] \in Born /\ cur[s] # 0
    BY <1>7, HoldingsBorn DEF FinishJob, FinishDetectFrames, IInv, SlaveInv
  <2>6. \A x \in Slaves : cur[s] \notin Held(x)'
    <3>1. cur[s] \notin Held(s)'
      BY <1>1, <2>1, <2>5 DEF JobEnds, NextRow, Held, HeldInv, SlaveTypeOK
    <3>2. \A x \in Slaves \ {s} : cur[s] \notin Held(x)'
      BY <1>1, <2>5, SlaveHolding DEF Held, HeldInv
    <3> QED
      BY <3>1, <3>2
  <2>7. ASSUME NEW x \in Slaves, NEW j \in Held(x)', j \in Present'
        PROVE  jobs'[j].state # 2
    <3>1. j # cur[s]
      BY <2>6, <2>7
    <3>2. jobs'[j] = jobs[j]
      BY <2>1, <2>2, <2>7, <3>1 DEF JobEnds
    <3>3. CASE Held(x)' \subseteq Held(x)
      BY <2>2, <2>7, <3>2, <3>3 DEF HeldInv
    <3>4. CASE jobs' = jobs /\ Held(x)' = WaitingFor(x)
      BY <2>7, <3>4 DEF WaitingFor
    <3> QED
      BY <1>2, <3>3, <3>4
  <2> QED
    BY <2>4, <2>7
<1>8. CASE \/ RegisterSlave(s) \/ MountStorage(s) \/ FetchDbJobs(s)
           \/ CheckDependencies(s) \/ SkipJob(s) \/ RunRaises(s)
           \/ Heartbeat(s) \/ SlaveFault(s) \/ Silence(s)
  <2>1. UNCHANGED jobs
    BY <1>8 DEF RegisterSlave, MountStorage, FetchDbJobs, CheckDependencies,
                SkipJob, RunRaises, Heartbeat, SlaveFault, ExitSlave,
                CrashSlave, Silence, tableVars
  <2> QED
    BY <1>4, <2>1 DEF Present
<1> QED
  BY <1>5, <1>6, <1>7, <1>8 DEF SlaveStep

\* A slave takes only rows that name it, and a row that names it is held by no
\* other slave.
LEMMA SlaveHolds ==
  ASSUME IInv, SlowWorkBeats, HeldInv, NEW s \in Slaves,
         SlaveStep(s) \/ Heartbeat(s) \/ SlaveFault(s) \/ Silence(s),
         UNCHANGED <<storageVars, masterVars>>
  PROVE  HeldInv'
<1>1. TableTypeOK /\ SlaveTypeOK
  BY DEF IInv, TableInv, SlaveInv
<1>2. info' = info /\ SameServers
  BY <1>1, SlaveRows
<1>3. ASSUME NEW x \in Slaves
      PROVE  /\ spc[x] = "dead" => spc'[x] = "dead"
             /\ spc'[x] = "dead" => Held(x)' = {}
             /\ spc'[x] # "dead" => seen'[x] # "old"
             /\ spc'[x] \notin {"dead", "loop"} => seen'[x] # "none"
             /\ cur'[x] \notin batch'[x]
             /\ seen'[x] = "none" => seen[x] = "none" \/ spc'[x] = "dead"
             /\ \/ Held(x)' \subseteq Held(x)
                \/ x = s /\ jobs' = jobs /\ Held(x)' = WaitingFor(x)
  <2>1. CASE x = s
    BY <1>1, <2>1, SlaveHolding, SlaveBeats DEF HeldInv
  <2>2. CASE x # s
    BY <1>1, <2>2, SlaveHolding DEF HeldInv, Held
  <2> QED
    BY <2>1, <2>2
<1>4. ASSUME NEW x \in Slaves, NEW i \in Held(x)', i \in Present'
      PROVE  jobs'[i].server = x
  <2>1. CASE Held(x)' \subseteq Held(x)
    BY <1>2, <1>4, <2>1 DEF HeldInv, SameServers
  <2>2. CASE jobs' = jobs /\ Held(x)' = WaitingFor(x)
    BY <1>4, <2>2 DEF WaitingFor
  <2> QED
    BY <1>3, <2>1, <2>2
<1>5. ASSUME NEW x \in Slaves, NEW y \in Slaves \ {x} PROVE Held(x)' \cap Held(y)' = {}
  <2>1. CASE Held(x)' \subseteq Held(x) /\ Held(y)' \subseteq Held(y)
    BY <2>1 DEF HeldInv
  <2>2. ASSUME NEW u \in Slaves, NEW v \in Slaves \ {u},
               jobs' = jobs, Held(u)' = WaitingFor(u), Held(v)' \subseteq Held(v)
        PROVE  Held(u)' \cap Held(v)' = {}
    BY <2>2 DEF HeldInv, WaitingFor
  <2> QED
    BY <1>3, <2>1, <2>2
<1>6. \A i \in Present' : jobs'[i].server \in Slaves =>
        spc'[jobs'[i].server] = "dead" \/ seen'[jobs'[i].server] # "none"
  BY <1>2, <1>3 DEF HeldInv, SameServers
<1>7. \A i \in orphans' \cap Present' : jobs'[i].server \in Slaves =>
        spc'[jobs'[i].server] = "dead"
  BY <1>2, <1>3 DEF HeldInv, SameServers, masterVars
<1>8. \A x \in Slaves : \A i \in Held(x)' \cap Present' : jobs'[i].state # 2
  BY SlaveAdvances
<1> QED
  BY <1>3, <1>4, <1>5, <1>6, <1>7, <1>8 DEF HeldInv
----------------------------------------------------------------------------
(* The storage server and the master leave the holdings of the slaves alone. *)

\* So do the statements of the storage server.
LEMMA StorageRows ==
  ASSUME TableTypeOK,
         \/ StorageLoop \/ (\E t \in Threads : ThreadStep(t))
         \/ CrashStorage \/ SilenceStorage
  PROVE  info' = info /\ seen' = seen /\ SameServers
<1>1. CASE RemoveStorageDependencies
  <2>1. UNCHANGED jobs \/ \E D : jobs' = Without(D)
    BY <1>1 DEF RemoveStorageDependencies, RemoveDependencyJobs
  <2> QED
    BY <1>1, <2>1, RowsKept DEF RemoveStorageDependencies, serverVars
<1>2. CASE \/ RegisterStorage \/ FetchStorageJobs \/ CheckStorageDependencies
           \/ AddTask \/ CrashStorage \/ SilenceStorage
  <2>1. UNCHANGED tableVars /\ seen' = seen
    BY <1>2 DEF RegisterStorage, FetchStorageJobs, CheckStorageDependencies,
                AddTask, CrashStorage, SilenceStorage, serverVars
  <2> QED
    BY <2>1, RowsKept DEF tableVars
<1>3. ASSUME NEW t \in Threads, ThreadStep(t)
      PROVE  info' = info /\ seen' = seen /\ SameServers
  <2>1. info' = info /\ seen' = seen
    BY <1>3 DEF ThreadStep, TakeTask, FinishTask, TaskRaises, RemoveSource,
                RemoveIntermediates, DeleteMasterJob, DeleteCleanupJob,
                tableVars, serverVars
  <2>2. CASE TakeTask(t) \/ FinishTask(t)
    <3>1. \E i, x : \E st \in {1, 2} : jobs' = WithStateOf(i, x, st)
      BY <2>2 DEF TakeTask, FinishTask
    <3> QED
      BY <2>1, <3>1, RowsKept
  <2>3. CASE DeleteMasterJob(t) \/ DeleteCleanupJob(t)
    <3>1. \E D : jobs' = Without(D)
      BY <2>3 DEF DeleteMasterJob, DeleteCleanupJob
    <3> QED
      BY <2>1, <3>1, RowsKept
  <2>4. CASE TaskRaises(t) \/ RemoveSource(t) \/ RemoveIntermediates(t)
    <3>1. UNCHANGED jobs
      BY <2>4 DEF TaskRaises, RemoveSource, RemoveIntermediates, tableVars
    <3> QED
      BY <2>1, <3>1, RowsKept
  <2> QED
    BY <1>3, <2>2, <2>3, <2>4 DEF ThreadStep
<1> QED
  BY <1>1, <1>2, <1>3 DEF StorageLoop

\* The rows of jobs that were given to slaves stay as they are.
SlaveRowsSame ==
  \A j \in Present \cap Present' : jobs[j].server \in Slaves => jobs'[j] = jobs[j]

\* It is so in every step of the storage server: its UPDATEs name it.
LEMMA StorageLeavesSlaveRows ==
  ASSUME TableTypeOK,
         \/ StorageLoop \/ (\E t \in Threads : ThreadStep(t))
         \/ CrashStorage \/ SilenceStorage \/ (\E r \in Requests : SubmitXml(r))
  PROVE  SlaveRowsSame
<1> USE DEF SlaveRowsSame, Present
<1>1. CASE UNCHANGED jobs
  BY <1>1
<1>2. CASE \E D : jobs' = Without(D)
  BY <1>2 DEF Without
<1>3. CASE \E i, st : jobs' = WithStateOf(i, StorageServer, st)
  <2>1. StorageServer \notin Slaves
    BY SlavesAssumption
  <2> QED
    BY <1>3, <2>1 DEF WithStateOf
<1>4. CASE \E r \in Requests : SubmitXml(r)
  BY <1>4, SubmitAdds DEF SubmitXml, Added
<1>5. CASE StorageLoop
  <2>1. UNCHANGED jobs \/ \E D : jobs' = Without(D)
    BY <1>5 DEF StorageLoop, RegisterStorage, FetchStorageJobs, tableVars,
                CheckStorageDependencies, RemoveStorageDependencies, AddTask,
                RemoveDependencyJobs
  <2> QED
    BY <1>1, <1>2, <2>1
<1>6. ASSUME NEW t \in Threads, ThreadStep(t) PROVE SlaveRowsSame
  <2>1. \/ UNCHANGED jobs \/ (\E D : jobs' = Without(D))
        \/ \E i, st : jobs' = WithStateOf(i, StorageServer, st)
    BY <1>6 DEF ThreadStep, TakeTask, FinishTask, TaskRaises, RemoveSource,
                RemoveIntermediates, DeleteMasterJob, DeleteCleanupJob, tableVars
  <2> QED
    BY <1>1, <1>2, <1>3, <2>1
<1>7. CASE CrashStorage \/ SilenceStorage
  BY <1>1, <1>7 DEF CrashStorage, SilenceStorage, tableVars
<1> QED
  BY <1>4, <1>5, <1>6, <1>7

\* check_xml_submits adds the row of a transcode, which names no server.
LEMMA SubmitXmlAdds ==
  ASSUME TableTypeOK, NEW r \in Requests, SubmitXml(r)
  PROVE  /\ Added("master", r, 0, {}) /\ seen' = seen
         /\ jobs'[Len(info) + 1].server = Nobody
<1>1. Added("master", r, 0, {}) /\ seen' = seen
  BY SubmitAdds DEF SubmitXml, serverVars
<1>2. ServersFor("master") = {Nobody}
  BY DEF ServersFor, SlaveSubTypes, StorageSubTypes
<1> QED
  BY <1>1, <1>2 DEF Added

\* The INSERT or UPDATE of reassign_orphaned_jobs.
LEMMA ReassignRows ==
  ASSUME TableTypeOK, ReassignOrphan
  PROVE  /\ info' = info /\ seen' = seen /\ Present' = Present
         /\ \E i \in orphans :
              /\ orphans' = orphans \ {i}
              /\ \A j \in Present \ {i} : jobs'[j] = jobs[j]
              /\ i \in Present =>
                   /\ jobs'[i].state = 0 /\ jobs'[i].cuts = jobs[i].cuts
                   /\ \/ jobs'[i].server = Nobody
                      \/ jobs'[i].server \in Slaves /\ seen[jobs'[i].server] # "none"
<1>1. PICK i \in orphans, s \in FindServerForSlaveJob :
        /\ orphans' = orphans \ {i}
        /\ jobs' = [j \in Present |->
                      IF j = i
                        THEN [state |-> 0, server |-> s, cuts |-> jobs[j].cuts]
                        ELSE jobs[j]]
  BY DEF ReassignOrphan
<1>2. s = Nobody \/ (s \in Slaves /\ seen[s] # "none")
  BY DEF FindServerForSlaveJob, RegisteredSlaves
<1>3. Present' = Present /\ info' = info /\ seen' = seen
  BY <1>1 DEF ReassignOrphan, Present, serverVars
<1>4. \A j \in Present \ {i} : jobs'[j] = jobs[j]
  BY <1>1
<1>5. i \in Present =>
        jobs'[i] = [state |-> 0, server |-> s, cuts |-> jobs[i].cuts]
  BY <1>1
<1>6. i \in Present =>
        jobs'[i].state = 0 /\ jobs'[i].server = s /\ jobs'[i].cuts = jobs[i].cuts
  BY <1>5
<1> QED
  BY <1>1, <1>2, <1>3, <1>4, <1>6

\* The steps of the master that neither insert, nor reassign, nor clean up.
MasterMovesOn ==
  \/ FetchJobs \/ TakeRow \/ CleanupBound \/ MarkStarted \/ PurgeChildren
  \/ MarkFinished \/ DeleteDetectJob \/ Split \/ Raise \/ CrashMaster
  \/ RestartMaster

\* The master's own statements insert no row, and move no job to another server.
LEMMA MasterRows ==
  ASSUME TableTypeOK, MasterMovesOn
  PROVE  /\ info' = info /\ seen' = seen /\ SameServers
         /\ orphans' \subseteq orphans
<1>1. info' = info /\ seen' = seen /\ orphans' \subseteq orphans
  BY DEF MasterMovesOn, FetchJobs, TakeRow, CleanupBound, MarkStarted, PurgeChildren,
         MarkFinished, DeleteDetectJob, Split, Raise, CrashMaster, RestartMaster,
         Die, tableVars, serverVars
<1>2. CASE MarkStarted \/ MarkFinished
  <2>1. \E i : \E st \in {1, 2} : jobs' = WithState(i, st)
    BY <1>2 DEF MarkStarted, MarkFinished
  <2> QED
    BY <1>1, <2>1, RowsKept
<1>3. CASE PurgeChildren \/ DeleteDetectJob
  <2>1. \E D : jobs' = Without(D)
    BY <1>3 DEF PurgeChildren, DeleteDetectJob
  <2> QED
    BY <1>1, <2>1, RowsKept
<1>4. CASE \/ FetchJobs \/ TakeRow \/ CleanupBound \/ Split \/ Raise
           \/ CrashMaster \/ RestartMaster
  <2>1. UNCHANGED jobs
    BY <1>4 DEF FetchJobs, TakeRow, CleanupBound, Split, Raise, CrashMaster,
                RestartMaster, tableVars
  <2> QED
    BY <1>1, <2>1, RowsKept
<1> QED
  BY <1>2, <1>3, <1>4 DEF MasterMovesOn

\* Nor do they change a row that was given to a slave: the transcodes they mark
\* are given to nobody.
LEMMA MasterLeavesSlaveRows ==
  ASSUME IInv, RowsFit,
         MasterMovesOn \/ CleanupTasks \/ (\E sub \in ChildSubTypes : Submit(sub))
  PROVE  SlaveRowsSame
<1> USE DEF SlaveRowsSame, Present
<1>1. TableTypeOK
  BY DEF IInv, TableInv
<1>2. CASE \E sub \in ChildSubTypes : Submit(sub)
  BY <1>1, <1>2, SubmitAdds DEF Submit, Added
<1>3. CASE MarkStarted \/ MarkFinished
  <2>1. /\ \E st : jobs' = WithState(mcur.job, st)
        /\ \E j \in DOMAIN plan : plan[j] \in {"mark", "finish"}
    BY <1>3 DEF MarkStarted, MarkFinished, At, IInv, MasterInv, MasterTypeOK
  <2>2. info[mcur.job].sub = "master"
    BY <2>1 DEF IInv, MasterInv
  <2>3. mcur.job \in Present => jobs[mcur.job].server \notin Slaves
    BY <2>2, SlavesAssumption DEF RowsFit, SlaveSubTypes, Servers
  <2> QED
    BY <2>1, <2>3 DEF WithState
<1>4. CASE PurgeChildren \/ DeleteDetectJob
  <2>1. \E D : jobs' = Without(D)
    BY <1>4 DEF PurgeChildren, DeleteDetectJob
  <2> QED
    BY <2>1 DEF Without
<1>5. CASE \/ FetchJobs \/ TakeRow \/ CleanupBound \/ Split \/ Raise
           \/ CrashMaster \/ RestartMaster \/ CleanupTasks
  BY <1>5 DEF FetchJobs, TakeRow, CleanupBound, Split, Raise, CrashMaster,
              RestartMaster, CleanupTasks, tableVars
<1> QED
  BY <1>2, <1>3, <1>4, <1>5 DEF MasterMovesOn

\* The holdings of slaves when rows keep their servers.
LEMMA HeldKept ==
  ASSUME HeldInv, UNCHANGED slaveVars, seen' = seen, SameServers, SlaveRowsSame,
         orphans' \subseteq orphans
  PROVE  HeldInv'
<1>1. \A s \in Slaves : Held(s)' = Held(s)
  BY DEF Held, slaveVars
<1>2. ASSUME NEW s \in Slaves, NEW i \in Held(s), i \in Present'
      PROVE  jobs'[i].server = s /\ jobs'[i].state # 2
  BY <1>2 DEF HeldInv, SameServers, SlaveRowsSame
<1> QED
  BY <1>1, <1>2 DEF HeldInv, SameServers, slaveVars

\* The same when a row is added: nobody holds it yet.
LEMMA HeldAdded ==
  ASSUME IInv, HeldInv, UNCHANGED slaveVars, seen' = seen, orphans' = orphans,
         NEW sub, NEW r, NEW m, NEW D, Added(sub, r, m, D)
  PROVE  HeldInv'
<1> DEFINE new == Len(info) + 1
<1>1. /\ new \notin orphans /\ \A s \in Slaves : new \notin Held(s)
  BY HoldingsBorn DEF Added, IInv, MasterInv, MasterTypeOK
<1>2. \/ jobs'[new].server \notin Slaves
      \/ seen[jobs'[new].server] # "none"
  <2>1. StorageServer \notin Slaves /\ Nobody \notin Slaves
    BY SlavesAssumption DEF Servers
  <2> QED
    BY <2>1, ServersForFit DEF Added
<1>3. Present' = Present \cup {new} /\ \A i \in Present : jobs'[i] = jobs[i]
  BY DEF Added
<1> HIDE DEF new
<1> QED
  BY <1>1, <1>2, <1>3 DEF HeldInv, Held, slaveVars

\* A step of the storage server does not disturb the slaves.
LEMMA StorageHeld ==
  ASSUME IInv, HeldInv, StorageNext PROVE HeldInv'
<1>1. TableTypeOK
  BY DEF IInv, TableInv
<1>2. ASSUME NEW r \in Requests, SubmitXml(r) PROVE HeldInv'
  BY <1>1, <1>2, SubmitXmlAdds, HeldAdded DEF StorageNext, masterVars
<1>3. CASE ~\E r \in Requests : SubmitXml(r)
  BY <1>1, <1>3, StorageRows, StorageLeavesSlaveRows, HeldKept
     DEF StorageNext, masterVars
<1> QED
  BY <1>2, <1>3

\* The master takes for gone only slaves that have ended, and gives their jobs,
\* and those of nobody, to registered ones.
LEMMA MasterHeld ==
  ASSUME IInv, AssignInv, HeldInv, MasterNext PROVE HeldInv'
<1>1. TableTypeOK /\ UNCHANGED slaveVars
  BY DEF IInv, TableInv, MasterNext
<1>2. ASSUME NEW sub \in ChildSubTypes, Submit(sub) PROVE HeldInv'
  <2>1. Added(sub, info[mcur.job].req, Owner(mcur.job), DependenciesOf(sub))
    BY <1>1, <1>2, SubmitAdds DEF Submit
  <2> QED
    BY <1>1, <1>2, <2>1, HeldAdded DEF Submit, serverVars
<1>3. CASE MasterMovesOn
  BY <1>1, <1>3, MasterRows, MasterLeavesSlaveRows, HeldKept DEF AssignInv
<1>4. CASE CleanupTasks
  <2>1. /\ jobs' = jobs
        /\ seen' = [s \in Slaves |-> IF s \in StaleSlaves THEN "none" ELSE seen[s]]
        /\ orphans' = {i \in Present :
                         /\ info[i].sub \in SlaveSubTypes
                         /\ jobs[i].server \notin RegisteredSlaves \ StaleSlaves}
    BY <1>4 DEF CleanupTasks, tableVars
  <2>2. \A s \in Slaves : spc[s] # "dead" => seen'[s] = seen[s] /\ s \notin StaleSlaves
    BY <2>1 DEF HeldInv, StaleSlaves
  <2>3. \A i \in orphans' : jobs[i].server \in Slaves => spc[jobs[i].server] = "dead"
    BY <2>1, <2>2 DEF HeldInv, RegisteredSlaves
  <2> QED
    BY <1>1, <2>1, <2>2, <2>3 DEF HeldInv, Held, slaveVars, Present
<1>5. CASE ReassignOrphan
  <2>1. PICK i \in orphans :
          /\ orphans' = orphans \ {i}
          /\ \A j \in Present \ {i} : jobs'[j] = jobs[j]
          /\ i \in Present =>
               \/ jobs'[i].server = Nobody
               \/ jobs'[i].server \in Slaves /\ seen[jobs'[i].server] # "none"
    BY <1>1, <1>5, ReassignRows
  <2>2. Present' = Present /\ seen' = seen
    BY <1>1, <1>5, ReassignRows
  <2>3. i \in Present => \A s \in Slaves : i \notin Held(s)
    BY DEF HeldInv
  <2>4. Nobody \notin Slaves
    BY SlavesAssumption DEF Servers
  <2> QED
    BY <1>1, <2>1, <2>2, <2>3, <2>4 DEF HeldInv, Held, slaveVars
<1> QED
  BY <1>2, <1>3, <1>4, <1>5 DEF MasterNext, MasterStep, MasterMovesOn
----------------------------------------------------------------------------
(* The storage server selects storage jobs. *)

\* A thread has only jobs in hand that it had before, or that come from the queue.
LEMMA ThreadKeeps ==
  ASSUME IInv, NEW t \in Threads, ThreadStep(t)
  PROVE  Queued' \cup Tasks' \subseteq Queued \cup Tasks
<1> USE DEF Queued, Tasks
<1>1. /\ task \in [Threads -> [pc : TaskPCs, job : Born \cup {0}]]
      /\ queue \in Seq(Born)
  BY DEF IInv, StorageInv, StorageTypeOK
<1>2. ASSUME NEW w, task' = [task EXCEPT ![t] = w],
             w.pc # "idle" => w.job \in Queued \cup Tasks
      PROVE  Tasks' \subseteq Queued \cup Tasks
  <2>1. ASSUME NEW u \in Threads, task'[u].pc # "idle"
        PROVE  task'[u].job \in Queued \cup Tasks
    <3>1. CASE u = t
      BY <1>1, <1>2, <2>1, <3>1
    <3>2. CASE u # t
      BY <1>1, <1>2, <2>1, <3>2
    <3> QED
      BY <3>1, <3>2
  <2> QED
    BY <2>1
<1>3. CASE TakeTask(t)
  <2> DEFINE w == [pc |-> "run", job |-> Head(queue)]
  <2>1. /\ queue # <<>> /\ queue' = Tail(queue)
        /\ task' = [task EXCEPT ![t] = w]
    BY <1>3 DEF TakeTask
  <2>2. Head(queue) \in Queued /\ Queued' \subseteq Queued
    BY <1>1, <2>1
  <2>3. w.job = Head(queue)
    OBVIOUS
  <2> HIDE DEF w, Queued, Tasks
  <2> QED
    BY <1>2, <2>1, <2>2, <2>3
<1>4. CASE Leave(t) /\ queue' = queue
  <2>1. Idle.pc = "idle"
    BY DEF Idle
  <2>2. Tasks' \subseteq Queued \cup Tasks
    <3> HIDE DEF Queued, Tasks
    <3> QED
      BY <1>2, <1>4, <2>1 DEF Leave
  <2> QED
    BY <1>4, <2>2
<1>5. ASSUME NEW pc, GoTo(t, pc), queue' = queue, task[t].pc # "idle"
      PROVE  Tasks' \subseteq Queued \cup Tasks /\ Queued' \subseteq Queued
  <2> DEFINE w == [task[t] EXCEPT !.pc = pc]
  <2>1. task' = [task EXCEPT ![t] = w] /\ w.job = task[t].job
    BY <1>1, <1>5 DEF GoTo
  <2>2. w.job \in Queued \cup Tasks
    BY <1>5, <2>1
  <2>3. Tasks' \subseteq Queued \cup Tasks
    <3> HIDE DEF w, Queued, Tasks
    <3> QED
      BY <1>2, <2>1, <2>2
  <2> QED
    BY <1>5, <2>3
<1>6. CASE RemoveSource(t) \/ RemoveIntermediates(t) \/ DeleteMasterJob(t)
  <2>1. task[t].pc # "idle" /\ queue' = queue
    BY <1>6 DEF RemoveSource, RemoveIntermediates, DeleteMasterJob
  <2>2. Leave(t) \/ \E pc : GoTo(t, pc)
    BY <1>6 DEF RemoveSource, RemoveIntermediates, DeleteMasterJob
  <2> QED
    BY <1>4, <1>5, <2>1, <2>2
<1>7. CASE FinishTask(t) \/ TaskRaises(t) \/ DeleteCleanupJob(t)
  BY <1>4, <1>7 DEF FinishTask, TaskRaises, DeleteCleanupJob
<1> QED
  BY <1>3, <1>6, <1>7 DEF ThreadStep

\* What the storage server has in hand after a step it had before, or has just
\* selected; the queue and the threads get what the main loop had.
LEMMA PoolHolding ==
  ASSUME IInv, StorageNext
  PROVE  Selected' \cup Queued' \cup Tasks'
           \subseteq Selected \cup Queued \cup Tasks \cup WaitingFor(StorageServer)
<1> USE DEF Selected, Queued, Tasks
<1>1. /\ task \in [Threads -> [pc : TaskPCs, job : Born \cup {0}]]
      /\ queue \in Seq(Born)
  BY DEF IInv, StorageInv, StorageTypeOK
<1>2. CASE (\E r \in Requests : SubmitXml(r)) \/ SilenceStorage
  BY <1>2 DEF SubmitXml, SilenceStorage, storageVars
<1>3. CASE RegisterStorage
  BY <1>3 DEF RegisterStorage
<1>4. CASE FetchStorageJobs
  BY <1>4 DEF FetchStorageJobs, NextStorageRow
<1>5. CASE CheckStorageDependencies
  BY <1>5 DEF CheckStorageDependencies, NextStorageRow
<1>6. CASE StorageDies
  BY <1>6 DEF StorageDies, Idle
<1>7. CASE RemoveStorageDependencies
  BY <1>6, <1>7 DEF RemoveStorageDependencies
<1>8. CASE AddTask
  <2>1. /\ queue' = Append(queue, tcur) /\ tbatch' = tbatch /\ task' = task
        /\ tpc = "put" /\ tpc' \notin {"remove", "put"}
    BY <1>8 DEF AddTask, NextStorageRow
  <2>2. tcur \in Born
    BY <2>1 DEF IInv, StorageInv
  <2>3. Queued' \subseteq Queued \cup {tcur}
    BY <1>1, <2>1, <2>2
  <2> QED
    BY <2>1, <2>3
<1>9. ASSUME NEW t \in Threads, ThreadStep(t)
       PROVE  Selected' = Selected
  BY <1>9 DEF ThreadStep, TakeTask, FinishTask, TaskRaises, RemoveSource,
               RemoveIntermediates, DeleteMasterJob, DeleteCleanupJob
<1>10. CASE \E t \in Threads : ThreadStep(t)
  <2> HIDE DEF Selected, Queued, Tasks
  <2> QED
    BY ThreadKeeps, <1>9, <1>10
<1>11. CASE CrashStorage
  BY <1>6, <1>11 DEF CrashStorage
<1> QED
  BY <1>2, <1>3, <1>4, <1>5, <1>7, <1>8, <1>10, <1>11 DEF StorageNext, StorageLoop

\* No slave job among them.
LEMMA StorageAssigns ==
  ASSUME IInv, AssignInv, StorageNext PROVE AssignInv'
<1>1. TableTypeOK
  BY DEF IInv, TableInv
<1>2. /\ RowsFit'
      /\ \A i \in Born : info'[i] = info[i]
  <2>1. ASSUME NEW r \in Requests, SubmitXml(r)
        PROVE  RowsFit' /\ \A i \in Born : info'[i] = info[i]
    <3>1. Added("master", r, 0, {})
      BY <1>1, <2>1, SubmitXmlAdds
    <3> QED
      BY <1>1, <3>1, RowsFitAdded DEF AssignInv, Added
  <2>2. CASE ~\E r \in Requests : SubmitXml(r)
    BY <1>1, <2>2, StorageRows, RowsFitKept DEF StorageNext, AssignInv
  <2> QED
    BY <2>1, <2>2
<1>3. HeldFit' /\ OrphansFit'
  <2>1. /\ \A s \in Slaves : Held(s)' = Held(s)
        /\ orphans' = orphans /\ orphans \subseteq Born
    BY DEF StorageNext, slaveVars, masterVars, Held, IInv, MasterInv, MasterTypeOK
  <2> QED
    BY <1>2, <2>1, HoldingsBorn DEF AssignInv, HeldFit, OrphansFit
<1>4. \A i \in WaitingFor(StorageServer) : i \in Born /\ info[i].sub \in StorageSubTypes
  BY <1>1, SlavesAssumption DEF AssignInv, RowsFit, WaitingFor, Servers, TableTypeOK
<1>5. PoolFit'
  BY <1>2, <1>4, PoolHolding, HoldingsBorn DEF AssignInv, PoolFit, InHand
<1> QED
  BY <1>2, <1>3, <1>5 DEF AssignInv

\* The master names servers of the kind of the job.
LEMMA MasterAssigns ==
  ASSUME IInv, AssignInv, MasterNext PROVE AssignInv'
<1>1. /\ TableTypeOK /\ orphans \subseteq Born
      /\ UNCHANGED slaveVars /\ UNCHANGED storageVars
  BY DEF IInv, TableInv, MasterNext, MasterInv, MasterTypeOK
<1>2. ASSUME RowsFit', \A i \in Born : info'[i] = info[i], OrphansFit'
      PROVE  AssignInv'
  <2>1. HeldFit' /\ PoolFit'
    BY <1>1, <1>2, HoldingsBorn DEF AssignInv, HeldFit, PoolFit, Held, Selected,
       Queued, Tasks, slaveVars, storageVars, InHand
  <2> QED
    BY <1>2, <2>1 DEF AssignInv
<1>3. ASSUME NEW sub \in ChildSubTypes, Submit(sub) PROVE AssignInv'
  <2>1. Added(sub, info[mcur.job].req, Owner(mcur.job), DependenciesOf(sub))
    BY <1>1, <1>3, SubmitAdds DEF Submit
  <2>2. RowsFit' /\ \A i \in Born : info'[i] = info[i]
    BY <1>1, <2>1, RowsFitAdded DEF AssignInv, Added
  <2>3. OrphansFit'
    BY <1>1, <1>3, <2>2 DEF Submit, AssignInv, OrphansFit
  <2> QED
    BY <1>2, <2>2, <2>3
<1>4. CASE MasterMovesOn
  <2>1. RowsFit'
    BY <1>1, <1>4, MasterRows, RowsFitKept DEF AssignInv
  <2>2. OrphansFit'
    BY <1>1, <1>4, MasterRows DEF AssignInv, OrphansFit
  <2> QED
    BY <1>1, <1>2, <1>4, <2>1, <2>2, MasterRows
<1>5. CASE CleanupTasks
  <2>1. /\ info' = info /\ jobs' = jobs
        /\ \A i \in orphans' : info[i].sub \in SlaveSubTypes
    BY <1>5 DEF CleanupTasks, tableVars
  <2>2. RowsFit'
    BY <1>1, <2>1, RowsFitKept, RowsKept DEF AssignInv
  <2> QED
    BY <1>2, <2>1, <2>2 DEF OrphansFit
<1>6. CASE ReassignOrphan
  <2>1. PICK i \in orphans :
          /\ orphans' = orphans \ {i}
          /\ \A j \in Present \ {i} : jobs'[j] = jobs[j]
          /\ i \in Present =>
               \/ jobs'[i].server = Nobody
               \/ jobs'[i].server \in Slaves
    BY <1>1, <1>6, ReassignRows
  <2>2. Present' = Present /\ info' = info
    BY <1>1, <1>6, ReassignRows
  <2>3. RowsFit'
    BY <2>1, <2>2 DEF AssignInv, RowsFit, OrphansFit
  <2>4. OrphansFit'
    BY <2>1, <2>2 DEF AssignInv, OrphansFit
  <2> QED
    BY <1>2, <2>2, <2>3, <2>4
<1> QED
  BY <1>3, <1>4, <1>5, <1>6 DEF MasterNext, MasterStep, MasterMovesOn

\* At the start there is no job.
LEMMA EmptyStart ==
  ASSUME Init
  PROVE  /\ Born = {} /\ Present = {} /\ orphans = {} /\ mrows = {} /\ plan = <<>>
         /\ \A s \in Slaves : Held(s) = {} /\ spc[s] = "loop" /\ cur[s] = 0
         /\ Selected = {} /\ queue = <<>> /\ tpc = "loop"
         /\ \A t \in Threads : task[t].pc = "idle"
         /\ Queued = {} /\ Tasks = {}
<1>1. Born = {} /\ Present = {} /\ orphans = {} /\ mrows = {} /\ plan = <<>>
  BY DEF Init, TableInit, MasterInit, Born, Present
<1>2. \A s \in Slaves : Held(s) = {} /\ spc[s] = "loop" /\ cur[s] = 0
  BY DEF Init, SlaveInit, Held
<1>3. /\ Selected = {} /\ queue = <<>> /\ tpc = "loop"
      /\ \A t \in Threads : task[t].pc = "idle"
  BY DEF Init, StorageInit, Selected, Idle
<1>4. Queued = {} /\ Tasks = {}
  BY <1>3 DEF Queued, Tasks
<1> QED
  BY <1>1, <1>2, <1>3, <1>4

\* Every step keeps jobs with servers of their kind.
LEMMA NextAssigns ==
  ASSUME IInv, AssignInv, [Next]_vars PROVE AssignInv'
<1>1. ASSUME NEW s \in Slaves, SlaveNext(s) PROVE AssignInv'
  BY <1>1, SlaveAssigns DEF SlaveNext
<1>2. CASE UNCHANGED vars
  BY <1>2 DEF vars, tableVars, slaveVars, storageVars, masterVars, AssignInv, RowsFit,
     HeldFit, PoolFit, OrphansFit, Held, Selected, Queued, Tasks, Present, InHand
<1> QED
  BY <1>1, <1>2, StorageAssigns, MasterAssigns DEF Next

\* A row names a server of the kind its job asks for, or nobody; a server holds
\* jobs of its kind only, and only slave jobs are reassigned: no reassignment
\* and no failure makes a slave run a storage job, or the other way round.
THEOREM JobsFitServers == Spec => []AssignInv
<1>1. Init => AssignInv
  <2> SUFFICES ASSUME Init PROVE AssignInv
    OBVIOUS
  <2> QED
    BY EmptyStart DEF AssignInv, RowsFit, HeldFit, PoolFit, OrphansFit, InHand
<1>2. IInv /\ AssignInv /\ [Next]_vars => AssignInv'
  BY NextAssigns
<1> QED
  BY <1>1, <1>2, Invariant, PTL DEF Spec

\* Every step keeps the holdings apart.
LEMMA NextHolds ==
  ASSUME IInv, AssignInv, SlowWorkBeats, HeldInv, [Next]_vars PROVE HeldInv'
<1>1. ASSUME NEW s \in Slaves, SlaveNext(s) PROVE HeldInv'
  BY <1>1, SlaveHolds DEF SlaveNext
<1>2. CASE UNCHANGED vars
  BY <1>2 DEF vars, tableVars, serverVars, slaveVars, masterVars, HeldInv, Held, Present
<1> QED
  BY <1>1, <1>2, StorageHeld, MasterHeld DEF Next

\* Nobody is dead and nothing held at the start.
LEMMA InitHolds ==
  ASSUME Init PROVE HeldInv
<1>1. \A s \in Slaves : seen[s] # "old"
  BY DEF Init
<1> QED
  BY <1>1, EmptyStart DEF HeldInv, Init, SlaveInit

\* When slow work keeps the heartbeat going, a slave job runs on one slave at a
\* time, the one its row names, whatever slaves crash, stop or come late: the
\* master never takes a job from a slave that still has it.
THEOREM OneSlaveRuns == Spec /\ SlowWorkBeats => []OneRunner
<1>1. ASSUME IInv, HeldInv PROVE OneRunner
  <2>1. ASSUME NEW s \in Slaves, spc[s] = "run" PROVE cur[s] \in Held(s)
    <3>1. cur[s] \in Born
      BY <1>1, <2>1 DEF IInv, SlaveInv
    <3> QED
      BY <1>1, <3>1, HoldingsBorn DEF Held
  <2> QED
    BY <1>1, <2>1 DEF HeldInv, OneRunner
<1>2. Init => HeldInv
  BY InitHolds
<1>3. ASSUME SlowWorkBeats PROVE Spec => []OneRunner
  <2>1. IInv /\ AssignInv /\ HeldInv /\ [Next]_vars => HeldInv'
    BY <1>3, NextHolds
  <2> QED
    BY <1>1, <1>2, <2>1, Invariant, JobsFitServers, PTL DEF Spec
<1> QED
  BY <1>3

\* When slow work keeps the heartbeat going, a job is taken from a slave only when
\* that slave has ended, and no UPDATE of another slave or of the master sets the
\* State of its row back: what was selected before a slave was evicted, or
\* registered, does no harm later.
THEOREM JobsStayWithSlaves == Spec /\ SlowWorkBeats => TakenFromEnded
<1>1. ASSUME IInv, AssignInv, HeldInv, [Next]_vars,
             NEW s \in Slaves, NEW i \in Present \cap Present', jobs[i].server = s,
             spc[s] # "dead"
      PROVE  jobs'[i].server = s /\ jobs[i].state <= jobs'[i].state
  <2>1. TableTypeOK /\ jobs[i].state \in 0 .. 2
    BY <1>1 DEF IInv, TableInv, TableTypeOK, JobRow
  <2>2. CASE SlaveRowsSame \/ UNCHANGED jobs
    BY <1>1, <2>1, <2>2 DEF SlaveRowsSame
  <2>3. CASE \E x \in Slaves : SlaveNext(x)
    BY <1>1, <2>1, <2>3, SlaveRows, SlaveAdvances DEF SlaveNext, SameServers
  <2>4. CASE ReassignOrphan
    <3>1. i \notin orphans
      BY <1>1 DEF HeldInv
    <3> QED
      BY <1>1, <2>1, <2>4, <3>1, ReassignRows
  <2> QED
    BY <1>1, <2>1, <2>2, <2>3, <2>4, StorageLeavesSlaveRows, MasterLeavesSlaveRows
       DEF Next, StorageNext, MasterNext, MasterStep, MasterMovesOn, AssignInv, vars,
           tableVars
<1>2. ASSUME IInv, AssignInv, HeldInv, [Next]_vars
      PROVE  [\A s \in Slaves : \A i \in Present \cap Present' :
                /\ jobs[i].server = s
                /\ jobs'[i].server # s \/ jobs'[i].state < jobs[i].state
                => spc[s] = "dead"]_vars
  <2> SUFFICES ASSUME NEW s \in Slaves, NEW i \in Present \cap Present',
                      jobs[i].server = s, spc[s] # "dead",
                      jobs'[i].server # s \/ jobs'[i].state < jobs[i].state
               PROVE  FALSE
    OBVIOUS
  <2>1. jobs[i] \in JobRow
    BY <1>2 DEF IInv, TableInv, TableTypeOK
  <2>2. jobs'[i].server = s /\ jobs[i].state <= jobs'[i].state
    BY <1>1, <1>2
  <2>3. jobs'[i] \in JobRow
    BY <1>2, NextIInv DEF IInv, TableInv, TableTypeOK
  <2>4. jobs[i].state \in Nat /\ jobs'[i].state \in Nat
    BY <2>1, <2>3 DEF JobRow
  <2> QED
    BY <2>2, <2>4
<1>3. Init => HeldInv
  BY InitHolds
<1>4. ASSUME SlowWorkBeats PROVE Spec => TakenFromEnded
  <2>1. IInv /\ AssignInv /\ HeldInv /\ [Next]_vars => HeldInv'
    BY <1>4, NextHolds
  <2> QED
    BY <1>2, <1>3, <2>1, Invariant, JobsFitServers, PTL DEF Spec, TakenFromEnded
<1> QED
  BY <1>4
=============================================================================
