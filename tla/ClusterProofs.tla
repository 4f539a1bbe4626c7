---------------------------- MODULE ClusterProofs ----------------------------
(***************************************************************************)
(* Theorems about Cluster for every number of slaves, requests, threads    *)
(* and restarts: its type invariant, that dependencies are done, that no   *)
(* work is lost, and that it implements Workflow.                          *)
(***************************************************************************)
EXTENDS Cluster, TLAPS, FiniteSetTheorems

\* The table of inserted jobs and the history of runs only grow.
Grows ==
  /\ Born \subseteq Born'
  /\ \A i \in Born : info'[i] = info[i]
  /\ ran \subseteq ran'

\* What was done stays done.
LEMMA DoneGrows ==
  ASSUME Grows PROVE Done \subseteq Done'
BY DEF Grows, Done, Born, Servers

\* A step that inserts and runs nothing is no growth to speak of.
LEMMA SameGrows ==
  ASSUME info' = info, ran' = ran PROVE Grows /\ Done' = Done
BY DEF Grows, Done, Born, Servers

----------------------------------------------------------------------------
(* The table under the statements the processes execute. *)

\* An update or a delete keeps the invariant of the table when it drops only
\* transcodes and finished jobs, and calls finished only what its server ran.
LEMMA TableUpdated ==
  ASSUME TableInv, info' = info, ran' = ran,
         jobs' \in [Present' -> JobRow], Present' \subseteq Present,
         \A i \in Present \ Present' : info[i].sub # "master" => i \in Done,
         \A i \in Present' : info[i].sub # "master" /\ jobs'[i].state = 2
                               => <<i, jobs'[i].server>> \in ran
  PROVE  TableInv' /\ Grows
<1>1. Grows /\ Done' = Done
  BY SameGrows
<1>2. TableTypeOK'
  BY DEF TableInv, TableTypeOK, Born, Present
<1>3. KindsOK' /\ DoneClosed'
  BY <1>1 DEF TableInv, KindsOK, DoneClosed, Born
<1>4. NothingLost'
  BY <1>1 DEF TableInv, NothingLost, Born
<1>5. FinishedByAssignee'
  BY DEF FinishedByAssignee
<1> QED
  BY <1>1, <1>2, <1>3, <1>4, <1>5 DEF TableInv

\* The same when a run of job i on server s ends with the step.
LEMMA TableRunEnds ==
  ASSUME TableInv, info' = info, NEW i \in Born, NEW s \in Servers,
         ran' = ran \cup {<<i, s>>}, info[i].deps \subseteq Done,
         jobs' \in [Present' -> JobRow], Present' \subseteq Present,
         \A j \in Present \ Present' : info[j].sub # "master" => j \in Done',
         \A j \in Present' : info[j].sub # "master" /\ jobs'[j].state = 2
                               => <<j, jobs'[j].server>> \in ran'
  PROVE  TableInv' /\ Grows
<1>1. Grows
  BY DEF Grows, Born
<1>2. Done \subseteq Done' /\ Done' \subseteq Done \cup {i}
  BY DEF Done, Born
<1>3. TableTypeOK'
  BY DEF TableInv, TableTypeOK, Born, Present
<1>4. KindsOK'
  BY DEF TableInv, KindsOK, Born
<1>5. DoneClosed'
  BY <1>2 DEF TableInv, DoneClosed
<1>6. NothingLost'
  BY <1>2 DEF TableInv, NothingLost, Born
<1>7. FinishedByAssignee'
  BY DEF FinishedByAssignee
<1> QED
  BY <1>1, <1>3, <1>4, <1>5, <1>6, <1>7 DEF TableInv

\* Some server is there to be named by every INSERT.
LEMMA ServersForTyped ==
  ASSUME NEW sub \in SubTypes
  PROVE  ServersFor(sub) \subseteq Servers \cup {Nobody}
BY DEF ServersFor, FindServerForSlaveJob, FindServerForStorageJob,
       RegisteredSlaves, Servers

\* submit_job keeps the invariant of the table when the dependencies are jobs
\* inserted before, and adds one unfinished job.
LEMMA TableSubmit ==
  ASSUME TableInv, ServersTypeOK,
         NEW sub \in SubTypes, NEW r \in Requests, NEW m \in Nat,
         NEW D \in SUBSET Born,
         sub \in {"master", "cleanup"} => D = {},
         \A d \in D : info[d].sub # "master",
         sub # "master" => m \in Born /\ info[m].sub = "master",
         SubmitJob(sub, r, m, D), ran' = ran
  PROVE  /\ TableInv' /\ Grows
         /\ Born' = Born \cup {Len(info) + 1}
         /\ info'[Len(info) + 1].sub = sub
         /\ info'[Len(info) + 1].deps = D
<1> DEFINE new == Len(info) + 1
           rec(s) == [sub |-> sub, req |-> r, master |-> m, deps |-> D,
                      vol |-> FindStorageForJob]
<1>1. PICK s \in ServersFor(sub) :
        /\ info' = Append(info, rec(s))
        /\ jobs' = [i \in Present \cup {new} |->
                      IF i \in Present THEN jobs[i]
                      ELSE [state |-> 0, server |-> s, cuts |-> 0]]
  BY DEF SubmitJob
<1>2. info \in Seq(JobInfo) /\ Len(info) \in Nat /\ Born = 1 .. Len(info)
  BY DEF TableInv, TableTypeOK, Born
<1>3. D \in SUBSET Nat
  BY <1>2
<1>4. FindStorageForJob \in Nat
  BY DEF FindStorageForJob, ServersTypeOK
<1>5. rec(s) \in JobInfo
  BY <1>3, <1>4 DEF JobInfo
<1>6. /\ info' \in Seq(JobInfo)
      /\ Born' = Born \cup {new} /\ new \notin Born
      /\ \A i \in Born : info'[i] = info[i]
      /\ info'[new] = rec(s)
  BY <1>1, <1>2, <1>5 DEF Born
<1> HIDE DEF rec
<1>7. info'[new].sub = sub /\ info'[new].deps = D /\ info'[new].master = m
  BY <1>6 DEF rec
<1>8. Grows
  BY <1>6 DEF Grows
<1>9. Done' = Done
  <2>1. Done \subseteq Done'
    BY <1>8, DoneGrows
  <2>2. \A i \in Born', x \in Servers : <<i, x>> \in ran' => i \in Born
    BY DEF TableInv, TableTypeOK
  <2> QED
    BY <2>1, <2>2 DEF Done
<1>10. Present' = Present \cup {new} /\ new \notin Present
  BY <1>1, <1>6 DEF Present, TableInv, TableTypeOK
<1>11. TableTypeOK'
  <2>1. s \in Servers \cup {Nobody}
    BY <1>1, ServersForTyped
  <2>2. jobs' \in [Present' -> JobRow]
    BY <1>1, <1>10, <2>1 DEF TableInv, TableTypeOK, JobRow
  <2>3. ran' \subseteq Born' \X Servers
    BY <1>6 DEF TableInv, TableTypeOK
  <2> QED
    BY <1>6, <1>10, <2>2, <2>3 DEF TableInv, TableTypeOK
<1>12. KindsOK'
  <2>1. ASSUME NEW i \in Born PROVE
          /\ info'[i].deps \subseteq 1 .. (i - 1)
          /\ info'[i].sub \in {"master", "cleanup"} => info'[i].deps = {}
          /\ \A d \in info'[i].deps : info'[d].sub # "master"
          /\ info'[i].sub # "master" =>
               info'[i].master \in Born' /\ info'[info'[i].master].sub = "master"
    <3>1. info[i].deps \subseteq Born
      BY <1>2 DEF TableInv, KindsOK
    <3> QED
      BY <3>1, <1>6 DEF TableInv, KindsOK
  <2>2. /\ D \subseteq 1 .. (new - 1)
        /\ \A d \in D : info'[d].sub # "master"
        /\ sub # "master" => m \in Born' /\ info'[m].sub = "master"
    BY <1>2, <1>6
  <2> QED
    BY <2>1, <2>2, <1>6, <1>7 DEF KindsOK
<1>13. DoneClosed'
  BY <1>9, <1>6 DEF TableInv, DoneClosed, Done
<1>14. NothingLost'
  BY <1>9, <1>6, <1>10 DEF TableInv, NothingLost
<1>15. FinishedByAssignee'
  <2>1. ASSUME NEW i \in Present, info'[i].sub # "master", jobs'[i].state = 2
        PROVE  <<i, jobs'[i].server>> \in ran'
    <3>1. info'[i] = info[i] /\ jobs'[i] = jobs[i]
      BY <1>1, <1>6 DEF TableInv, TableTypeOK
    <3> QED
      BY <2>1, <3>1 DEF TableInv, FinishedByAssignee
  <2>2. jobs'[new].state = 0
    BY <1>1, <1>10
  <2> QED
    BY <2>1, <2>2, <1>10 DEF FinishedByAssignee
<1> QED
  BY <1>6, <1>7, <1>8, <1>11, <1>12, <1>13, <1>14, <1>15 DEF TableInv

\* A step that leaves the table and the history alone.
LEMMA TableSame ==
  ASSUME TableInv, UNCHANGED tableVars, UNCHANGED ran
  PROVE  TableInv' /\ Grows
<1>1. Grows /\ Done' = Done
  BY SameGrows DEF tableVars
<1> QED
  BY <1>1 DEF tableVars, TableInv, TableTypeOK, KindsOK, DoneClosed, NothingLost,
              FinishedByAssignee, Born, Present

\* check_dependencies lets a job through only when its dependencies are done: a
\* row that is there says so, and one that is not is of a job that is done.
LEMMA ClearedMeansDone ==
  ASSUME TableInv, NEW i \in Born, DependenciesCleared(i)
  PROVE  info[i].deps \subseteq Done
<1>1. CASE i \notin Present
  BY <1>1 DEF TableInv, NothingLost, DoneClosed, KindsOK
<1>2. CASE i \in Present
  <2> SUFFICES ASSUME NEW d \in info[i].deps PROVE d \in Done
    OBVIOUS
  <2>1. d \in Born /\ info[d].sub # "master"
    BY DEF TableInv, TableTypeOK, KindsOK, Born
  <2>2. CASE d \notin Present
    BY <2>1, <2>2 DEF TableInv, NothingLost
  <2>3. CASE d \in Present
    <3>1. jobs[d].state = 2
      BY <1>2, <2>3 DEF DependenciesCleared
    <3>2. <<d, jobs[d].server>> \in ran
      BY <2>1, <2>3, <3>1 DEF TableInv, FinishedByAssignee
    <3> QED
      BY <2>1, <3>2 DEF TableInv, TableTypeOK, Done
  <2> QED
    BY <2>2, <2>3
<1> QED
  BY <1>1, <1>2

\* A DELETE of transcodes and finished jobs.
LEMMA TableDelete ==
  ASSUME TableInv, info' = info, ran' = ran, NEW D, jobs' = Without(D),
         \A d \in D \cap Present : info[d].sub # "master" => d \in Done
  PROVE  TableInv' /\ Grows
<1>1. Present' = Present \ D /\ \A i \in Present' : jobs'[i] = jobs[i]
  BY DEF Without, Present
<1>2. jobs' \in [Present' -> JobRow]
  BY <1>1 DEF Without, TableInv, TableTypeOK
<1>3. \A i \in Present' : info[i].sub # "master" /\ jobs'[i].state = 2
                            => <<i, jobs'[i].server>> \in ran
  BY <1>1 DEF TableInv, FinishedByAssignee
<1> QED
  BY <1>1, <1>2, <1>3, TableUpdated

\* remove_dependency_jobs of a job that was taken on.
LEMMA TableRemoveDependencies ==
  ASSUME TableInv, info' = info, ran' = ran, NEW i \in Born,
         info[i].deps \subseteq Done, RemoveDependencyJobs(i)
  PROVE  TableInv' /\ Grows
BY TableDelete DEF RemoveDependencyJobs

\* An UPDATE of the State column of one row.
LEMMA RowUpdate ==
  ASSUME NEW r \in JobRow, NEW st \in 0 .. 2
  PROVE  /\ [r EXCEPT !.state = st] \in JobRow
         /\ [r EXCEPT !.state = st].state = st
         /\ [r EXCEPT !.state = st].server = r.server
BY DEF JobRow

\* An UPDATE that marks a job waiting or started, not finished.
LEMMA TableMark ==
  ASSUME TableInv, info' = info, ran' = ran, NEW i, NEW st \in {0, 1},
         NEW s,
         jobs' = WithStateOf(i, s, st)
  PROVE  TableInv' /\ Grows
<1>1. Present' = Present
  BY DEF WithStateOf, Present
<1>2. ASSUME NEW j \in Present
      PROVE  /\ jobs'[j] \in JobRow
             /\ jobs'[j] = jobs[j] \/ jobs'[j].state = st
  <2>1. jobs[j] \in JobRow /\ st \in 0 .. 2
    BY DEF TableInv, TableTypeOK
  <2>2. \/ jobs'[j] = jobs[j]
        \/ jobs'[j] = [jobs[j] EXCEPT !.state = st]
    BY DEF WithStateOf
  <2> QED
    BY <2>1, <2>2, RowUpdate
<1>3. jobs' \in [Present' -> JobRow]
  BY <1>1, <1>2 DEF WithStateOf
<1>4. \A j \in Present' : info[j].sub # "master" /\ jobs'[j].state = 2
                            => <<j, jobs'[j].server>> \in ran
  BY <1>1, <1>2 DEF TableInv, FinishedByAssignee
<1> QED
  BY <1>1, <1>3, <1>4, TableUpdated

----------------------------------------------------------------------------
(* Each process keeps its invariant while the others step. *)

\* The files stay files of jobs.
LEMMA FilesStable ==
  ASSUME FilesTypeOK, Grows, UNCHANGED fileVars PROVE FilesTypeOK'
BY DEF FilesTypeOK, Grows, fileVars

\* A job is for one of the requests.
LEMMA RequestBorn ==
  ASSUME TableTypeOK, NEW i \in Born PROVE info[i].req \in Requests
<1>1. info[i] \in JobInfo
  BY DEF TableTypeOK, Born
<1> QED
  BY <1>1 DEF JobInfo

\* A slave that took on a job is right to whatever others insert and run.
LEMMA SlaveStable ==
  ASSUME SlaveInv, Grows, UNCHANGED slaveVars PROVE SlaveInv'
<1>1. Done \subseteq Done'
  BY DoneGrows
<1>2. SlaveTypeOK'
  BY DEF SlaveInv, SlaveTypeOK, slaveVars, Grows
<1>3. ASSUME NEW s \in Slaves, spc[s] \in {"remove", "claim", "run"}
      PROVE  cur[s] \in Born' /\ info'[cur[s]].deps \subseteq Done'
  BY <1>1, <1>3 DEF SlaveInv, Grows
<1> QED
  BY <1>2, <1>3 DEF SlaveInv, slaveVars

\* So is the storage server.
LEMMA StorageStable ==
  ASSUME StorageInv, Grows, UNCHANGED storageVars PROVE StorageInv'
<1>1. Done \subseteq Done'
  BY DoneGrows
<1>2. StorageTypeOK'
  BY DEF StorageInv, StorageTypeOK, storageVars, Grows
<1>3. tpc' \in {"remove", "put"} => tcur' \in Born' /\ info'[tcur'].deps \subseteq Done'
  BY <1>1 DEF StorageInv, Grows, storageVars
<1>4. \A j \in DOMAIN queue : queue[j] \in Born
  BY DEF StorageInv, StorageTypeOK
<1>5. \A j \in DOMAIN queue' : info'[queue'[j]].deps \subseteq Done'
  BY <1>1, <1>4 DEF StorageInv, Grows, storageVars
<1>6. ASSUME NEW t \in Threads, task'[t].pc # "idle"
      PROVE  /\ task'[t].job \in Born'
             /\ info'[task'[t].job].deps \subseteq Done'
             /\ task'[t].pc # "run" => info'[task'[t].job].sub = "cleanup"
  BY <1>1, <1>6 DEF StorageInv, Grows, storageVars
<1> QED
  BY <1>2, <1>3, <1>5, <1>6 DEF StorageInv

\* And the master, in the middle of a plan.
LEMMA MasterStable ==
  ASSUME MasterInv, Grows, UNCHANGED masterVars PROVE MasterInv'
<1>1. Done \subseteq Done'
  BY DoneGrows
<1>2. MasterTypeOK'
  BY DEF MasterInv, MasterTypeOK, masterVars, Grows
<1>3. \A row \in mrows : row.job \in Born
  BY DEF MasterInv, MasterTypeOK
<1>4. \A x \in ChildSubTypes : \A d \in made[x] : d \in Born
  BY DEF MasterInv, MasterTypeOK
<1> QED
  BY <1>1, <1>2, <1>3, <1>4 DEF MasterInv, Grows, masterVars

----------------------------------------------------------------------------
(* The slaves. *)

\* A slave moves to another statement, row and batch.
LEMMA SlaveMoves ==
  ASSUME SlaveInv, Grows, NEW s \in Slaves, NEW pc \in SlavePCs,
         NEW i \in Born \cup {0}, NEW b \in SUBSET Born,
         spc' = [spc EXCEPT ![s] = pc], cur' = [cur EXCEPT ![s] = i],
         batch' = [batch EXCEPT ![s] = b],
         pc \in {"remove", "claim", "run"} =>
           i \in Born /\ info[i].deps \subseteq Done
  PROVE  SlaveInv'
<1>1. Done \subseteq Done'
  BY DoneGrows
<1>2. SlaveTypeOK'
  BY DEF SlaveInv, SlaveTypeOK, Grows
<1>3. ASSUME NEW x \in Slaves, spc'[x] \in {"remove", "claim", "run"}
      PROVE  cur'[x] \in Born' /\ info'[cur'[x]].deps \subseteq Done'
  <2>1. CASE x = s
    <3>1. spc'[x] = pc /\ cur'[x] = i
      BY <2>1 DEF SlaveInv, SlaveTypeOK
    <3> QED
      BY <1>1, <1>3, <3>1 DEF Grows
  <2>2. CASE x # s
    <3>1. spc'[x] = spc[x] /\ cur'[x] = cur[x]
      BY <2>2 DEF SlaveInv, SlaveTypeOK
    <3> QED
      BY <1>1, <1>3, <3>1 DEF SlaveInv, Grows
  <2> QED
    BY <2>1, <2>2
<1> QED
  BY <1>2, <1>3 DEF SlaveInv

\* A slave that goes on to its next row, or dies, is at no job.
LEMMA SlaveNextRow ==
  ASSUME SlaveInv, Grows, NEW s \in Slaves, NEW b \in SUBSET Born,
         batch' = [batch EXCEPT ![s] = b], NextRow(s, b)
  PROVE  SlaveInv'
<1> DEFINE pc == IF b = {} THEN "loop" ELSE "rows"
<1>1. pc \in SlavePCs /\ pc \notin {"remove", "claim", "run"}
  BY DEF SlavePCs
<1>2. spc' = [spc EXCEPT ![s] = pc] /\ cur' = [cur EXCEPT ![s] = 0]
  BY DEF NextRow
<1> HIDE DEF pc
<1> QED
  BY <1>1, <1>2, SlaveMoves

\* A slave that dies is at no job.
LEMMA SlaveGone ==
  ASSUME SlaveInv, Grows, NEW s \in Slaves, SlaveDies(s)
  PROVE  SlaveInv'
BY SlaveMoves DEF SlaveDies, SlavePCs

\* The number of registered slaves is one.
LEMMA RegisteredSlavesNumber == NumberOfRegisteredSlaves \in Nat
BY SlavesAssumption, FS_Subset, FS_CardinalityType
   DEF NumberOfRegisteredSlaves, RegisteredSlaves

\* The end of a run keeps the table: it marks the job finished only where the
\* row still names this slave.
LEMMA TableJobEnds ==
  ASSUME IInv, NEW s \in Slaves, spc[s] = "run", NEW k \in Nat, JobEnds(s, k)
  PROVE  TableInv' /\ Grows
<1> DEFINE i == cur[s]
<1>1. i \in Born /\ info[i].deps \subseteq Done /\ s \in Servers
  BY DEF IInv, SlaveInv, Servers
<1>2. /\ info' = info
      /\ ran' = ran \cup {<<i, s>>}
      /\ jobs' = [j \in Present |->
                    IF j = i /\ jobs[j].server = s
                      THEN [state |-> 2, server |-> s, cuts |-> k] ELSE jobs[j]]
  BY DEF JobEnds
<1>3. Present' = Present
  BY <1>2 DEF Present
<1>4. jobs \in [Present -> JobRow]
  BY DEF IInv, TableInv, TableTypeOK
<1>5. jobs' \in [Present' -> JobRow]
  <2>1. ASSUME NEW j \in Present PROVE jobs'[j] \in JobRow
    <3>1. jobs[j] \in JobRow
      BY <1>4
    <3>2. [state |-> 2, server |-> s, cuts |-> k] \in JobRow
      BY <1>1 DEF JobRow
    <3> QED
      BY <1>2, <3>1, <3>2
  <2> QED
    BY <1>2, <1>3, <2>1
<1>6. ASSUME NEW j \in Present', info[j].sub # "master", jobs'[j].state = 2
      PROVE  <<j, jobs'[j].server>> \in ran'
  <2>1. CASE j = i /\ jobs[j].server = s
    BY <1>2, <1>3, <1>4, <2>1 DEF JobRow
  <2>2. CASE ~(j = i /\ jobs[j].server = s)
    BY <1>2, <1>3, <1>6, <2>2 DEF IInv, TableInv, FinishedByAssignee
  <2> QED
    BY <2>1, <2>2
<1> HIDE DEF i
<1> QED
  BY <1>1, <1>2, <1>3, <1>5, <1>6, TableRunEnds DEF IInv

\* Every step of a slave keeps the table, the files, the servers and what the
\* slave has taken on.
LEMMA SlavePreserves ==
  ASSUME IInv, NEW s \in Slaves,
         SlaveStep(s) \/ Heartbeat(s) \/ SlaveFault(s) \/ Silence(s)
  PROVE  TableInv' /\ Grows /\ SlaveInv' /\ ServersTypeOK' /\ FilesTypeOK'
<1> USE DEF IInv
<1>1. s \in Servers /\ batch[s] \subseteq Born /\ cur[s] \in Born \cup {0}
  BY DEF Servers, SlaveInv, SlaveTypeOK
<1>2. CASE RegisterSlave(s)
  <2> DEFINE pc == IF s \in connected THEN "fetch" ELSE "mount"
  <2>1. TableInv' /\ Grows
    BY <1>2, TableSame DEF RegisterSlave
  <2>2. SlaveInv'
    <3>1. pc \in SlavePCs /\ pc \notin {"remove", "claim", "run"}
      BY DEF SlavePCs
    <3>2. /\ spc' = [spc EXCEPT ![s] = pc]
          /\ cur' = [cur EXCEPT ![s] = cur[s]]
          /\ batch' = [batch EXCEPT ![s] = batch[s]]
      BY <1>2 DEF RegisterSlave, SlaveInv, SlaveTypeOK
    <3> HIDE DEF pc
    <3> QED
      BY <1>1, <2>1, <3>1, <3>2, SlaveMoves
  <2>3. ServersTypeOK' /\ FilesTypeOK'
    BY <1>2, <2>1, FilesStable DEF RegisterSlave, ServersTypeOK, Seen
  <2> QED
    BY <2>1, <2>2, <2>3
<1>3. CASE MountStorage(s)
  <2>1. TableInv' /\ Grows
    BY <1>3, TableSame DEF MountStorage
  <2>2. SlaveInv'
    <3>1. /\ spc' = [spc EXCEPT ![s] = "fetch"]
          /\ cur' = [cur EXCEPT ![s] = cur[s]]
          /\ batch' = [batch EXCEPT ![s] = batch[s]]
      BY <1>3 DEF MountStorage, SlaveInv, SlaveTypeOK
    <3> QED
      BY <1>1, <2>1, <3>1, SlaveMoves DEF SlavePCs
  <2>3. ServersTypeOK' /\ FilesTypeOK'
    BY <1>3, <2>1, FilesStable DEF MountStorage, ServersTypeOK
  <2> QED
    BY <2>1, <2>2, <2>3
<1>4. CASE FetchDbJobs(s)
  <2>1. TableInv' /\ Grows
    BY <1>4, TableSame DEF FetchDbJobs
  <2>2. WaitingFor(s) \in SUBSET Born
    BY DEF WaitingFor, TableInv, TableTypeOK
  <2>3. SlaveInv'
    BY <1>4, <2>1, <2>2, SlaveNextRow DEF FetchDbJobs
  <2>4. ServersTypeOK' /\ FilesTypeOK'
    BY <1>4, <2>1, FilesStable DEF FetchDbJobs, ServersTypeOK, serverVars
  <2> QED
    BY <2>1, <2>3, <2>4
<1>5. CASE CheckDependencies(s)
  <2>1. TableInv' /\ Grows
    BY <1>5, TableSame DEF CheckDependencies
  <2>2. PICK i \in batch[s] :
          /\ batch' = [batch EXCEPT ![s] = batch[s] \ {i}]
          /\ \/ /\ DependenciesCleared(i)
                /\ cur' = [cur EXCEPT ![s] = i]
                /\ spc' = [spc EXCEPT ![s] = "remove"]
             \/ NextRow(s, batch[s] \ {i})
    BY <1>5 DEF CheckDependencies, SlaveInv, SlaveTypeOK
  <2>3. SlaveInv'
    <3>1. i \in Born /\ batch[s] \ {i} \in SUBSET Born
      BY <1>1
    <3>2. CASE NextRow(s, batch[s] \ {i})
      BY <2>1, <2>2, <3>1, <3>2, SlaveNextRow
    <3>3. CASE /\ DependenciesCleared(i)
               /\ cur' = [cur EXCEPT ![s] = i]
               /\ spc' = [spc EXCEPT ![s] = "remove"]
      <4>1. info[i].deps \subseteq Done
        BY <3>1, <3>3, ClearedMeansDone
      <4> QED
        BY <2>1, <2>2, <3>1, <3>3, <4>1, SlaveMoves DEF SlavePCs
    <3> QED
      BY <2>2, <3>2, <3>3
  <2>4. ServersTypeOK' /\ FilesTypeOK'
    BY <1>5, <2>1, FilesStable DEF CheckDependencies, ServersTypeOK, serverVars
  <2> QED
    BY <2>1, <2>3, <2>4
<1>6. CASE RemoveDependencies(s)
  <2>1. spc[s] = "remove" /\ info' = info /\ ran' = ran
    BY <1>6 DEF RemoveDependencies
  <2>2. cur[s] \in Born /\ info[cur[s]].deps \subseteq Done
    BY <2>1 DEF SlaveInv
  <2>3. TableInv' /\ Grows
    <3>1. CASE RemoveDependencyJobs(cur[s])
      BY <2>1, <2>2, <3>1, TableRemoveDependencies
    <3>2. CASE UNCHANGED jobs
      BY <2>1, <3>2, TableSame DEF tableVars
    <3> QED
      BY <1>6, <3>1, <3>2 DEF RemoveDependencies
  <2>4. SlaveInv'
    <3>1. CASE SlaveDies(s)
      BY <2>3, <3>1, SlaveGone
    <3>2. CASE spc' = [spc EXCEPT ![s] = "claim"] /\ UNCHANGED <<batch, cur>>
      <4>1. /\ cur' = [cur EXCEPT ![s] = cur[s]]
            /\ batch' = [batch EXCEPT ![s] = batch[s]]
        BY <3>2 DEF SlaveInv, SlaveTypeOK
      <4> QED
        BY <1>1, <2>2, <2>3, <3>2, <4>1, SlaveMoves DEF SlavePCs
    <3> QED
      BY <1>6, <3>1, <3>2 DEF RemoveDependencies
  <2>5. ServersTypeOK' /\ FilesTypeOK'
    BY <1>6, <2>3, FilesStable DEF RemoveDependencies, ServersTypeOK, serverVars
  <2> QED
    BY <2>3, <2>4, <2>5
<1>7. CASE ClaimJob(s)
  <2>1. TableInv' /\ Grows
    BY <1>7, TableMark DEF ClaimJob
  <2>2. SlaveInv'
    <3>1. /\ spc' = [spc EXCEPT ![s] = "run"]
          /\ cur' = [cur EXCEPT ![s] = cur[s]]
          /\ batch' = [batch EXCEPT ![s] = batch[s]]
      BY <1>7 DEF ClaimJob, SlaveInv, SlaveTypeOK
    <3>2. cur[s] \in Born /\ info[cur[s]].deps \subseteq Done
      BY <1>7 DEF ClaimJob, SlaveInv
    <3> QED
      BY <1>1, <2>1, <3>1, <3>2, SlaveMoves DEF SlavePCs
  <2>3. ServersTypeOK' /\ FilesTypeOK'
    BY <1>7, <2>1, FilesStable DEF ClaimJob, ServersTypeOK
  <2> QED
    BY <2>1, <2>2, <2>3
<1>8. CASE SkipJob(s)
  <2>1. TableInv' /\ Grows
    BY <1>8, TableSame DEF SkipJob
  <2>2. batch' = [batch EXCEPT ![s] = batch[s]]
    BY <1>8 DEF SkipJob, SlaveInv, SlaveTypeOK
  <2>3. SlaveInv'
    BY <1>1, <1>8, <2>1, <2>2, SlaveNextRow DEF SkipJob
  <2>4. ServersTypeOK' /\ FilesTypeOK'
    BY <1>8, <2>1, FilesStable DEF SkipJob, ServersTypeOK, serverVars
  <2> QED
    BY <2>1, <2>3, <2>4
<1>9. ASSUME NEW k \in Nat, spc[s] = "run", JobEnds(s, k)
      PROVE  TableInv' /\ Grows /\ SlaveInv' /\ ServersTypeOK' /\ FilesTypeOK'
  <2>1. TableInv' /\ Grows
    BY <1>9, TableJobEnds
  <2>2. batch' = [batch EXCEPT ![s] = batch[s]]
    BY <1>9 DEF JobEnds, SlaveInv, SlaveTypeOK
  <2>3. SlaveInv'
    BY <1>1, <1>9, <2>1, <2>2, SlaveNextRow DEF JobEnds
  <2>4. ServersTypeOK'
    BY <1>9 DEF JobEnds, ServersTypeOK
  <2>5. FilesTypeOK'
    <3>1. info[cur[s]].req \in Requests
      BY <1>9, RequestBorn DEF SlaveInv, TableInv
    <3>2. /\ downloaded' = downloaded
          /\ \/ intermediates' = intermediates
             \/ intermediates' = intermediates \cup {Output[info[cur[s]].req]}
      BY <1>9 DEF JobEnds
    <3> QED
      BY <3>1, <3>2 DEF FilesTypeOK
  <2> QED
    BY <2>1, <2>3, <2>4, <2>5
<1>10. CASE FinishJob(s)
  BY <1>9, <1>10 DEF FinishJob
<1>11. CASE FinishDetectFrames(s)
  <2>1. PICK k \in Keyframes(NumberOfRegisteredSlaves) : JobEnds(s, k)
    BY <1>11 DEF FinishDetectFrames
  <2>2. k \in Nat
    BY <2>1, RegisteredSlavesNumber DEF Keyframes
  <2> QED
    BY <1>9, <1>11, <2>1, <2>2 DEF FinishDetectFrames
<1>12. CASE RunRaises(s) \/ CrashSlave(s)
  <2>1. TableInv' /\ Grows
    BY <1>12, TableSame DEF RunRaises, CrashSlave
  <2>2. SlaveInv'
    BY <1>12, <2>1, SlaveGone DEF RunRaises, CrashSlave
  <2>3. ServersTypeOK' /\ FilesTypeOK'
    BY <1>12, <2>1, FilesStable DEF RunRaises, CrashSlave, ServersTypeOK, serverVars
  <2> QED
    BY <2>1, <2>2, <2>3
<1>13. CASE ExitSlave(s)
  <2>1. TableInv' /\ Grows
    BY <1>13, TableSame DEF ExitSlave
  <2>2. SlaveInv'
    BY <1>13, <2>1, SlaveGone DEF ExitSlave
  <2>3. ServersTypeOK' /\ FilesTypeOK'
    BY <1>13, <2>1, FilesStable DEF ExitSlave, ServersTypeOK, Seen
  <2> QED
    BY <2>1, <2>2, <2>3
<1>14. CASE Heartbeat(s) \/ Silence(s)
  <2>1. TableInv' /\ Grows
    BY <1>14, TableSame DEF Heartbeat, Silence
  <2>2. SlaveInv'
    BY <1>14, <2>1, SlaveStable DEF Heartbeat, Silence
  <2>3. ServersTypeOK' /\ FilesTypeOK'
    BY <1>14, <2>1, FilesStable DEF Heartbeat, Silence, ServersTypeOK, Seen
  <2> QED
    BY <2>1, <2>2, <2>3
<1> QED
  BY <1>2, <1>3, <1>4, <1>5, <1>6, <1>7, <1>8, <1>10, <1>11, <1>12, <1>13, <1>14
     DEF SlaveStep, SlaveFault

----------------------------------------------------------------------------
(* The storage server. *)

\* The storage server, with its queue and its threads, moves on.
LEMMA StorageMoves ==
  ASSUME StorageInv, Grows,
         tpc' \in StoragePCs, tbatch' \subseteq Born, tcur' \in Born \cup {0},
         inbox' \subseteq Requests,
         tpc' \in {"remove", "put"} =>
           tcur' \in Born /\ info[tcur'].deps \subseteq Done,
         queue' \in Seq(Born),
         \A j \in DOMAIN queue' : info[queue'[j]].deps \subseteq Done,
         task' \in [Threads -> [pc : TaskPCs, job : Born \cup {0}]],
         \A t \in Threads : task'[t].pc # "idle" =>
           /\ task'[t].job \in Born
           /\ info[task'[t].job].deps \subseteq Done
           /\ task'[t].pc # "run" => info[task'[t].job].sub = "cleanup"
  PROVE  StorageInv'
<1>1. Done \subseteq Done'
  BY DoneGrows
<1>2. StorageTypeOK'
  BY DEF StorageTypeOK, Grows
<1>3. tpc' \in {"remove", "put"} => tcur' \in Born' /\ info'[tcur'].deps \subseteq Done'
  BY <1>1 DEF Grows
<1>4. \A j \in DOMAIN queue' : info'[queue'[j]].deps \subseteq Done'
  <2>1. \A j \in DOMAIN queue' : queue'[j] \in Born
    OBVIOUS
  <2> QED
    BY <1>1, <2>1 DEF Grows
<1>5. ASSUME NEW t \in Threads, task'[t].pc # "idle"
      PROVE  /\ task'[t].job \in Born'
             /\ info'[task'[t].job].deps \subseteq Done'
             /\ task'[t].pc # "run" => info'[task'[t].job].sub = "cleanup"
  BY <1>1, <1>5 DEF Grows
<1> QED
  BY <1>2, <1>3, <1>4, <1>5 DEF StorageInv

\* The main loop moves on and leaves the pool alone.
LEMMA StorageLoopMoves ==
  ASSUME StorageInv, Grows, UNCHANGED <<queue, task>>,
         tpc' \in StoragePCs, tbatch' \subseteq Born, tcur' \in Born \cup {0},
         inbox' \subseteq Requests,
         tpc' \in {"remove", "put"} =>
           tcur' \in Born /\ info[tcur'].deps \subseteq Done
  PROVE  StorageInv'
<1>1. /\ queue' \in Seq(Born)
      /\ \A j \in DOMAIN queue' : info[queue'[j]].deps \subseteq Done
  BY DEF StorageInv, StorageTypeOK
<1>2. /\ task' \in [Threads -> [pc : TaskPCs, job : Born \cup {0}]]
      /\ \A t \in Threads : task'[t].pc # "idle" =>
           /\ task'[t].job \in Born
           /\ info[task'[t].job].deps \subseteq Done
           /\ task'[t].pc # "run" => info[task'[t].job].sub = "cleanup"
  BY DEF StorageInv, StorageTypeOK
<1> QED
  BY <1>1, <1>2, StorageMoves

\* The main loop moves on to a statement at which it is at no job.
LEMMA StorageNextRow ==
  ASSUME StorageInv, Grows, UNCHANGED <<queue, task, inbox>>,
         tbatch' \subseteq Born, NextStorageRow(tbatch')
  PROVE  StorageInv'
<1>1. /\ tpc' \in StoragePCs /\ tpc' \notin {"remove", "put"}
      /\ tcur' \in Born \cup {0} /\ inbox' \subseteq Requests
  BY DEF NextStorageRow, StoragePCs, StorageInv, StorageTypeOK
<1> QED
  BY <1>1, StorageLoopMoves

\* The process ends.
LEMMA StorageGone ==
  ASSUME StorageInv, Grows, StorageDies, UNCHANGED inbox PROVE StorageInv'
<1>1. /\ tpc' \in StoragePCs /\ tpc' \notin {"remove", "put"}
      /\ tbatch' \subseteq Born /\ tcur' \in Born \cup {0}
      /\ inbox' \subseteq Requests
  BY DEF StorageDies, StoragePCs, StorageInv, StorageTypeOK
<1>2. queue' \in Seq(Born) /\ DOMAIN queue' = {}
  BY DEF StorageDies
<1>3. /\ task' \in [Threads -> [pc : TaskPCs, job : Born \cup {0}]]
      /\ \A t \in Threads : task'[t].pc = "idle"
  BY DEF StorageDies, Idle, TaskPCs
<1> QED
  BY <1>1, <1>2, <1>3, StorageMoves

\* A thread moves on; the main loop stays where it is.
LEMMA ThreadMoves ==
  ASSUME StorageInv, Grows, NEW t \in Threads, UNCHANGED <<tpc, tbatch, tcur, inbox>>,
         queue' \in Seq(Born),
         \A j \in DOMAIN queue' : info[queue'[j]].deps \subseteq Done,
         NEW w \in [pc : TaskPCs, job : Born \cup {0}],
         task' = [task EXCEPT ![t] = w],
         w.pc # "idle" =>
           /\ w.job \in Born
           /\ info[w.job].deps \subseteq Done
           /\ w.pc # "run" => info[w.job].sub = "cleanup"
  PROVE  StorageInv'
<1>1. /\ tpc' \in StoragePCs /\ tbatch' \subseteq Born /\ tcur' \in Born \cup {0}
      /\ inbox' \subseteq Requests
      /\ tpc' \in {"remove", "put"} =>
           tcur' \in Born /\ info[tcur'].deps \subseteq Done
  BY DEF StorageInv, StorageTypeOK
<1>2. task' \in [Threads -> [pc : TaskPCs, job : Born \cup {0}]]
  BY DEF StorageInv, StorageTypeOK
<1>3. ASSUME NEW u \in Threads, task'[u].pc # "idle"
      PROVE  /\ task'[u].job \in Born
             /\ info[task'[u].job].deps \subseteq Done
             /\ task'[u].pc # "run" => info[task'[u].job].sub = "cleanup"
  <2>1. CASE u = t
    <3>1. task'[u] = w
      BY <2>1 DEF StorageInv, StorageTypeOK
    <3> QED
      BY <1>3, <3>1
  <2>2. CASE u # t
    <3>1. task'[u] = task[u]
      BY <2>2 DEF StorageInv, StorageTypeOK
    <3> QED
      BY <1>3, <3>1 DEF StorageInv
  <2> QED
    BY <2>1, <2>2
<1> QED
  BY <1>1, <1>2, <1>3, StorageMoves

\* A thread goes back to the queue.
LEMMA ThreadLeaves ==
  ASSUME StorageInv, Grows, NEW t \in Threads, Leave(t),
         UNCHANGED <<tpc, tbatch, tcur, inbox, queue>>
  PROVE  StorageInv'
<1>1. Idle \in [pc : TaskPCs, job : Born \cup {0}] /\ Idle.pc = "idle"
  BY DEF Idle, TaskPCs
<1>2. /\ queue' \in Seq(Born)
      /\ \A j \in DOMAIN queue' : info[queue'[j]].deps \subseteq Done
  BY DEF StorageInv, StorageTypeOK
<1>3. task' = [task EXCEPT ![t] = Idle]
  BY DEF Leave
<1> QED
  BY <1>1, <1>2, <1>3, ThreadMoves

\* A thread goes on with a cleanup.
LEMMA ThreadGoesTo ==
  ASSUME StorageInv, Grows, NEW t \in Threads, NEW pc \in TaskPCs, GoTo(t, pc),
         task[t].pc # "idle", SubOf(t) = "cleanup",
         UNCHANGED <<tpc, tbatch, tcur, inbox, queue>>
  PROVE  StorageInv'
<1> DEFINE w == [task[t] EXCEPT !.pc = pc]
<1>1. task[t] \in [pc : TaskPCs, job : Born \cup {0}]
  BY DEF StorageInv, StorageTypeOK
<1>2. /\ w \in [pc : TaskPCs, job : Born \cup {0}]
      /\ w.job = task[t].job
      /\ task' = [task EXCEPT ![t] = w]
  BY <1>1 DEF GoTo
<1>3. /\ w.job \in Born
      /\ info[w.job].deps \subseteq Done
      /\ info[w.job].sub = "cleanup"
  BY <1>2 DEF StorageInv, SubOf
<1>4. /\ queue' \in Seq(Born)
      /\ \A j \in DOMAIN queue' : info[queue'[j]].deps \subseteq Done
  BY DEF StorageInv, StorageTypeOK
<1> HIDE DEF w
<1> QED
  BY <1>2, <1>3, <1>4, ThreadMoves

\* The row a thread is at may be marked finished by it: the run ends here.
LEMMA TableTaskEnds ==
  ASSUME IInv, NEW t \in Threads, task[t].pc # "idle", info' = info,
         ran' = ran \cup {<<task[t].job, StorageServer>>},
         \/ jobs' = WithStateOf(task[t].job, StorageServer, 2)
         \/ jobs' = Without({task[t].job})
  PROVE  TableInv' /\ Grows
<1> DEFINE i == task[t].job
<1>1. i \in Born /\ info[i].deps \subseteq Done /\ StorageServer \in Servers
  BY DEF IInv, StorageInv, Servers
<1>2. jobs \in [Present -> JobRow]
  BY DEF IInv, TableInv, TableTypeOK
<1>3. CASE jobs' = WithStateOf(i, StorageServer, 2)
  <2>1. Present' = Present
    BY <1>3 DEF Present, WithStateOf
  <2>2. ASSUME NEW j \in Present
        PROVE  /\ jobs'[j] \in JobRow
               /\ \/ jobs'[j] = jobs[j]
                  \/ j = i /\ jobs'[j].server = StorageServer
    <3>1. jobs[j] \in JobRow /\ 2 \in 0 .. 2
      BY <1>2
    <3>2. CASE j = i /\ jobs[j].server = StorageServer
      <4> DEFINE r == [jobs[j] EXCEPT !.state = 2]
      <4>1. r \in JobRow /\ r.server = jobs[j].server
        BY <3>1, RowUpdate
      <4>2. jobs'[j] = r
        BY <1>3, <3>2 DEF WithStateOf
      <4> HIDE DEF r
      <4> QED
        BY <3>2, <4>1, <4>2
    <3>3. CASE ~(j = i /\ jobs[j].server = StorageServer)
      BY <1>3, <3>1, <3>3 DEF WithStateOf
    <3> QED
      BY <3>2, <3>3
  <2>3. jobs' \in [Present' -> JobRow]
    BY <1>3, <2>1, <2>2 DEF WithStateOf
  <2>4. \A j \in Present' : info[j].sub # "master" /\ jobs'[j].state = 2
                              => <<j, jobs'[j].server>> \in ran'
    BY <2>1, <2>2 DEF IInv, TableInv, FinishedByAssignee
  <2> HIDE DEF i
  <2> QED
    BY <1>1, <2>1, <2>3, <2>4, TableRunEnds DEF IInv, i
<1>4. CASE jobs' = Without({i})
  <2>1. Present' = Present \ {i} /\ \A j \in Present' : jobs'[j] = jobs[j]
    BY <1>4 DEF Present, Without
  <2>2. jobs' \in [Present' -> JobRow]
    BY <1>2, <1>4, <2>1 DEF Without
  <2>3. \A j \in Present' : info[j].sub # "master" /\ jobs'[j].state = 2
                              => <<j, jobs'[j].server>> \in ran'
    BY <2>1 DEF IInv, TableInv, FinishedByAssignee
  <2>4. i \in Done'
    BY <1>1 DEF Done, Born, Servers
  <2> HIDE DEF i
  <2> QED
    BY <1>1, <2>1, <2>2, <2>3, <2>4, TableRunEnds DEF IInv, i
<1> QED
  BY <1>3, <1>4

\* Every step of the main loop keeps the invariants.
LEMMA StorageLoopPreserves ==
  ASSUME IInv,
         \/ StorageLoop \/ (\E r \in Requests : SubmitXml(r))
         \/ CrashStorage \/ SilenceStorage
  PROVE  TableInv' /\ Grows /\ StorageInv' /\ ServersTypeOK' /\ FilesTypeOK'
<1> USE DEF IInv
<1>1. /\ tbatch \subseteq Born /\ tcur \in Born \cup {0} /\ inbox \subseteq Requests
      /\ queue \in Seq(Born)
      /\ \A j \in DOMAIN queue : info[queue[j]].deps \subseteq Done
  BY DEF StorageInv, StorageTypeOK
<1>2. CASE RegisterStorage
  <2>1. TableInv' /\ Grows
    BY <1>2, TableSame DEF RegisterStorage
  <2>2. StorageInv'
    BY <1>1, <1>2, <2>1, StorageLoopMoves DEF RegisterStorage, StoragePCs
  <2>3. ServersTypeOK' /\ FilesTypeOK'
    BY <1>2, <2>1, FilesStable DEF RegisterStorage, ServersTypeOK, Seen
  <2> QED
    BY <2>1, <2>2, <2>3
<1>3. ASSUME NEW r \in Requests, SubmitXml(r)
      PROVE  TableInv' /\ Grows /\ StorageInv' /\ ServersTypeOK' /\ FilesTypeOK'
  <2>1. TableInv' /\ Grows
    <3>1. SubmitJob("master", r, 0, {}) /\ ran' = ran
      BY <1>3 DEF SubmitXml
    <3>2. "master" \in SubTypes /\ 0 \in Nat /\ {} \in SUBSET Born
      BY DEF SubTypes
    <3> QED
      BY <3>1, <3>2, TableSubmit
  <2>2. StorageInv'
    BY <1>1, <1>3, <2>1, StorageLoopMoves DEF SubmitXml, StoragePCs
  <2>3. ServersTypeOK' /\ FilesTypeOK'
    BY <1>3, <2>1, FilesStable DEF SubmitXml, ServersTypeOK, serverVars
  <2> QED
    BY <2>1, <2>2, <2>3
<1>4. CASE FetchStorageJobs
  <2>1. TableInv' /\ Grows
    BY <1>4, TableSame DEF FetchStorageJobs
  <2>2. tbatch' \subseteq Born
    BY <1>4 DEF FetchStorageJobs, WaitingFor, TableInv, TableTypeOK
  <2>3. StorageInv'
    BY <1>4, <2>1, <2>2, StorageNextRow DEF FetchStorageJobs
  <2>4. ServersTypeOK' /\ FilesTypeOK'
    BY <1>4, <2>1, FilesStable DEF FetchStorageJobs, ServersTypeOK, serverVars
  <2> QED
    BY <2>1, <2>3, <2>4
<1>5. CASE CheckStorageDependencies
  <2>1. TableInv' /\ Grows
    BY <1>5, TableSame DEF CheckStorageDependencies
  <2>2. PICK i \in tbatch :
          /\ tbatch' = tbatch \ {i}
          /\ \/ DependenciesCleared(i) /\ tcur' = i /\ tpc' = "remove"
             \/ NextStorageRow(tbatch')
    BY <1>5 DEF CheckStorageDependencies
  <2>3. UNCHANGED <<queue, task, inbox>> /\ tbatch' \subseteq Born /\ i \in Born
    BY <1>1, <1>5, <2>2 DEF CheckStorageDependencies
  <2>4. StorageInv'
    <3>1. CASE NextStorageRow(tbatch')
      BY <2>1, <2>3, <3>1, StorageNextRow
    <3>2. CASE DependenciesCleared(i) /\ tcur' = i /\ tpc' = "remove"
      <4>1. info[i].deps \subseteq Done
        BY <2>3, <3>2, ClearedMeansDone
      <4> QED
        BY <1>1, <2>1, <2>3, <3>2, <4>1, StorageLoopMoves DEF StoragePCs
    <3> QED
      BY <2>2, <3>1, <3>2
  <2>5. ServersTypeOK' /\ FilesTypeOK'
    BY <1>5, <2>1, FilesStable
       DEF CheckStorageDependencies, ServersTypeOK, serverVars
  <2> QED
    BY <2>1, <2>4, <2>5
<1>6. CASE RemoveStorageDependencies
  <2>1. tpc = "remove" /\ info' = info /\ ran' = ran /\ inbox' = inbox
    BY <1>6 DEF RemoveStorageDependencies
  <2>2. tcur \in Born /\ info[tcur].deps \subseteq Done
    BY <2>1 DEF StorageInv
  <2>3. TableInv' /\ Grows
    <3>1. CASE tcur \in Present
      BY <1>6, <2>1, <2>2, <3>1, TableRemoveDependencies
         DEF RemoveStorageDependencies
    <3>2. CASE tcur \notin Present
      BY <1>6, <2>1, <3>2, TableSame DEF RemoveStorageDependencies, tableVars
    <3> QED
      BY <3>1, <3>2
  <2>4. StorageInv'
    <3>1. CASE StorageDies
      BY <2>1, <2>3, <3>1, StorageGone
    <3>2. CASE tpc' = "put" /\ UNCHANGED <<tbatch, tcur, queue, task>>
      BY <1>1, <2>1, <2>2, <2>3, <3>2, StorageLoopMoves DEF StoragePCs
    <3> QED
      BY <1>6, <3>1, <3>2 DEF RemoveStorageDependencies
  <2>5. ServersTypeOK' /\ FilesTypeOK'
    BY <1>6, <2>3, FilesStable
       DEF RemoveStorageDependencies, ServersTypeOK, serverVars
  <2> QED
    BY <2>3, <2>4, <2>5
<1>7. CASE AddTask
  <2>1. TableInv' /\ Grows
    BY <1>7, TableSame DEF AddTask
  <2>2. tcur \in Born /\ info[tcur].deps \subseteq Done
    BY <1>7 DEF AddTask, StorageInv
  <2>3. /\ queue' \in Seq(Born)
        /\ \A j \in DOMAIN queue' : info[queue'[j]].deps \subseteq Done
    BY <1>1, <1>7, <2>2 DEF AddTask
  <2>4. /\ tpc' \in StoragePCs /\ tpc' \notin {"remove", "put"}
        /\ tbatch' \subseteq Born /\ tcur' \in Born \cup {0}
        /\ inbox' \subseteq Requests
    BY <1>1, <1>7 DEF AddTask, NextStorageRow, StoragePCs
  <2>5. /\ task' \in [Threads -> [pc : TaskPCs, job : Born \cup {0}]]
        /\ \A t \in Threads : task'[t].pc # "idle" =>
             /\ task'[t].job \in Born
             /\ info[task'[t].job].deps \subseteq Done
             /\ task'[t].pc # "run" => info[task'[t].job].sub = "cleanup"
    BY <1>7 DEF AddTask, StorageInv, StorageTypeOK
  <2>6. StorageInv'
    BY <2>1, <2>3, <2>4, <2>5, StorageMoves
  <2>7. ServersTypeOK' /\ FilesTypeOK'
    BY <1>7, <2>1, FilesStable DEF AddTask, ServersTypeOK, serverVars
  <2> QED
    BY <2>1, <2>6, <2>7
<1>8. CASE CrashStorage
  <2>1. TableInv' /\ Grows
    BY <1>8, TableSame DEF CrashStorage
  <2>2. StorageInv'
    BY <1>8, <2>1, StorageGone DEF CrashStorage
  <2>3. ServersTypeOK' /\ FilesTypeOK'
    BY <1>8, <2>1, FilesStable DEF CrashStorage, ServersTypeOK, serverVars
  <2> QED
    BY <2>1, <2>2, <2>3
<1>9. CASE SilenceStorage
  <2>1. TableInv' /\ Grows
    BY <1>9, TableSame DEF SilenceStorage
  <2>2. StorageInv'
    BY <1>9, <2>1, StorageStable DEF SilenceStorage
  <2>3. ServersTypeOK' /\ FilesTypeOK'
    BY <1>9, <2>1, FilesStable DEF SilenceStorage, ServersTypeOK, Seen
  <2> QED
    BY <2>1, <2>2, <2>3
<1> QED
  BY <1>2, <1>3, <1>4, <1>5, <1>6, <1>7, <1>8, <1>9 DEF StorageLoop

\* So does every step of a thread.
LEMMA ThreadPreserves ==
  ASSUME IInv, NEW t \in Threads, ThreadStep(t)
  PROVE  TableInv' /\ Grows /\ StorageInv' /\ ServersTypeOK' /\ FilesTypeOK'
<1> USE DEF IInv
<1>1. /\ queue \in Seq(Born)
      /\ \A j \in DOMAIN queue : info[queue[j]].deps \subseteq Done
      /\ task[t] \in [pc : TaskPCs, job : Born \cup {0}]
  BY DEF StorageInv, StorageTypeOK
<1>2. /\ UNCHANGED <<tpc, tbatch, tcur, inbox>> /\ UNCHANGED serverVars
      /\ info' = info
  BY DEF ThreadStep, TakeTask, FinishTask, TaskRaises, RemoveSource,
         RemoveIntermediates, DeleteMasterJob, DeleteCleanupJob, tableVars
<1>3. ServersTypeOK'
  BY <1>2 DEF ServersTypeOK, serverVars
<1>4. CASE TakeTask(t)
  <2> DEFINE w == [pc |-> "run", job |-> Head(queue)]
  <2>1. TableInv' /\ Grows
    BY <1>2, <1>4, TableMark DEF TakeTask
  <2>2. Head(queue) \in Born /\ info[Head(queue)].deps \subseteq Done
    BY <1>1, <1>4 DEF TakeTask
  <2>3. /\ queue' \in Seq(Born)
        /\ \A j \in DOMAIN queue' : info[queue'[j]].deps \subseteq Done
    BY <1>1, <1>4 DEF TakeTask
  <2>4. /\ w \in [pc : TaskPCs, job : Born \cup {0}]
        /\ w.pc = "run" /\ w.job = Head(queue)
        /\ task' = [task EXCEPT ![t] = w]
    BY <1>4, <2>2 DEF TakeTask, TaskPCs
  <2>5. StorageInv'
    <3> HIDE DEF w
    <3> QED
      BY <1>2, <2>1, <2>2, <2>3, <2>4, ThreadMoves
  <2>6. FilesTypeOK'
    BY <1>4, <2>1, FilesStable DEF TakeTask
  <2> QED
    BY <1>3, <2>1, <2>5, <2>6
<1>5. CASE FinishTask(t)
  <2>1. TableInv' /\ Grows
    BY <1>5, TableTaskEnds DEF FinishTask
  <2>2. StorageInv'
    BY <1>5, <2>1, ThreadLeaves DEF FinishTask
  <2>3. FilesTypeOK'
    <3>1. RequestOf(t) \in Requests
      BY <1>5, RequestBorn DEF FinishTask, StorageInv, RequestOf, TableInv
    <3>2. /\ downloaded' \in {downloaded, downloaded \cup {SourceOf(t)}}
          /\ intermediates' \in {intermediates, intermediates \cup {OutputOf(t)}}
      BY <1>5 DEF FinishTask
    <3> QED
      BY <3>1, <3>2 DEF FilesTypeOK, SourceOf, OutputOf
  <2> QED
    BY <1>3, <2>1, <2>2, <2>3
<1>6. CASE TaskRaises(t)
  <2>1. TableInv' /\ Grows
    BY <1>6, TableSame DEF TaskRaises
  <2>2. StorageInv'
    BY <1>6, <2>1, ThreadLeaves DEF TaskRaises
  <2>3. FilesTypeOK'
    BY <1>6, <2>1, FilesStable DEF TaskRaises
  <2> QED
    BY <1>3, <2>1, <2>2, <2>3
<1>7. CASE RemoveSource(t)
  <2>1. TableInv' /\ Grows
    BY <1>7, TableSame DEF RemoveSource
  <2>2. /\ task[t].pc # "idle" /\ SubOf(t) = "cleanup"
        /\ UNCHANGED <<tpc, tbatch, tcur, inbox, queue>>
        /\ Leave(t) \/ GoTo(t, "unlink") \/ GoTo(t, "master")
        /\ downloaded' \subseteq downloaded /\ intermediates' = intermediates
    BY <1>7 DEF RemoveSource
  <2>3. StorageInv'
    BY <2>1, <2>2, ThreadLeaves, ThreadGoesTo DEF TaskPCs
  <2>4. FilesTypeOK'
    BY <2>1, <2>2 DEF FilesTypeOK, Grows
  <2> QED
    BY <1>3, <2>1, <2>3, <2>4
<1>8. CASE RemoveIntermediates(t)
  <2>1. TableInv' /\ Grows
    BY <1>8, TableSame DEF RemoveIntermediates
  <2>2. /\ task[t].pc = "unlink"
        /\ UNCHANGED <<tpc, tbatch, tcur, inbox, queue>>
        /\ Leave(t) \/ GoTo(t, "master")
        /\ intermediates' \subseteq intermediates /\ downloaded' = downloaded
    BY <1>8 DEF RemoveIntermediates
  <2>3. task[t].pc # "idle" /\ SubOf(t) = "cleanup"
    BY <2>2 DEF StorageInv, SubOf
  <2>4. StorageInv'
    BY <2>1, <2>2, <2>3, ThreadLeaves, ThreadGoesTo DEF TaskPCs
  <2>5. FilesTypeOK'
    BY <2>1, <2>2 DEF FilesTypeOK, Grows
  <2> QED
    BY <1>3, <2>1, <2>4, <2>5
<1>9. CASE DeleteMasterJob(t)
  <2>1. /\ task[t].pc # "idle" /\ SubOf(t) = "cleanup" /\ task[t].job \in Born
    BY <1>9 DEF DeleteMasterJob, StorageInv, SubOf
  <2>2. info[MasterOf(t)].sub = "master"
    BY <2>1 DEF SubOf, MasterOf, TableInv, KindsOK
  <2>3. TableInv' /\ Grows
    BY <1>2, <1>9, <2>2, TableDelete DEF DeleteMasterJob
  <2>4. StorageInv'
    BY <1>9, <2>1, <2>3, ThreadGoesTo DEF DeleteMasterJob, TaskPCs
  <2>5. FilesTypeOK'
    BY <1>9, <2>3, FilesStable DEF DeleteMasterJob
  <2> QED
    BY <1>3, <2>3, <2>4, <2>5
<1>10. CASE DeleteCleanupJob(t)
  <2>1. TableInv' /\ Grows
    BY <1>10, TableTaskEnds DEF DeleteCleanupJob
  <2>2. StorageInv'
    BY <1>10, <2>1, ThreadLeaves DEF DeleteCleanupJob
  <2>3. FilesTypeOK'
    BY <1>10, <2>1, FilesStable DEF DeleteCleanupJob
  <2> QED
    BY <1>3, <2>1, <2>2, <2>3
<1> QED
  BY <1>4, <1>5, <1>6, <1>7, <1>8, <1>9, <1>10 DEF ThreadStep

----------------------------------------------------------------------------
(* The master. *)

\* The plan for a row fits its subtype.
LEMMA PlanForFits ==
  ASSUME NEW row
  PROVE  /\ PlanFor(row) \in Seq(Instructions)
         /\ \A j \in DOMAIN PlanFor(row) :
              /\ PlanFor(row)[j] \in {"mark", "purge", "finish"} =>
                   info[row.job].sub # "detect_frames"
              /\ PlanFor(row)[j] = "delete" =>
                   info[row.job].sub = "detect_frames"
<1> DEFINE detect == info[row.job].sub = "detect_frames"
           Fits(P) == /\ P \in Seq(Instructions)
                      /\ \A j \in DOMAIN P :
                           /\ P[j] \in {"mark", "purge", "finish"} => ~detect
                           /\ P[j] = "delete" => detect
<1> HIDE DEF detect
<1>1. {"mark", "purge", "finish", "delete", "split", "download", "detect_frames",
       "audio_demux", "cleanup"} \subseteq Instructions
  BY DEF Instructions, ChildSubTypes, SlaveSubTypes, StorageSubTypes
<1>2. detect => Fits(<<"delete", "audio_demux", "split">>)
  BY <1>1
<1>3. ~detect => Fits(<<"download", "mark", "detect_frames">>)
  BY <1>1
<1>4. ~detect => Fits(<<"mark", "detect_frames">>)
  BY <1>1
<1>5. ~detect => Fits(<<"purge", "finish">>)
  BY <1>1
<1>6. Fits(<<>>)
  OBVIOUS
<1>7. Fits(<<"cleanup">>)
  BY <1>1
<1> HIDE DEF Fits
<1>8. Fits(PlanFor(row))
  BY <1>2, <1>3, <1>4, <1>5, <1>6, <1>7 DEF PlanFor, detect
<1> QED
  BY <1>8 DEF Fits, detect

\* split_transcode_job submits jobs and may raise; it deletes nothing.
LEMMA PartsPlanFits ==
  ASSUME NEW n \in Nat, NEW k \in Nat, NEW r
  PROVE  PartsPlan(n, k, r) \in Seq(ChildSubTypes \cup {"raise"})
<1> DEFINE S == ChildSubTypes \cup {"raise"}
           parts == [j \in 1 .. Parts(n, k) |-> "transcode"]
           merges == <<"write_mergefile", "video_merge", "av_mux">>
           counts == IF r \in Confirm THEN <<"count_frames", "count_frames">>
                     ELSE <<>>
           uploads == IF r \in Upload THEN <<"upload">> ELSE <<>>
           rest == IF k = 1 /\ n > 1 THEN <<"raise">>
                   ELSE merges \o counts \o uploads
<1>1. Parts(n, k) \in Nat
  BY DEF Parts
<1>2. {"transcode", "write_mergefile", "video_merge", "av_mux", "count_frames",
       "upload", "raise"} \subseteq S
  BY DEF ChildSubTypes, SlaveSubTypes, StorageSubTypes
<1> HIDE DEF S
<1>3. parts \in Seq(S)
  BY <1>1, <1>2
<1>4. /\ merges \in Seq(S) /\ counts \in Seq(S) /\ uploads \in Seq(S)
      /\ <<"raise">> \in Seq(S)
  BY <1>2
<1>5. PartsPlan(n, k, r) = parts \o rest
  BY DEF PartsPlan
<1> HIDE DEF parts, merges, counts, uploads
<1>6. rest \in Seq(S)
  BY <1>4
<1> HIDE DEF rest
<1>7. PartsPlan(n, k, r) \in Seq(S)
  BY <1>3, <1>5, <1>6
<1> QED
  BY <1>7 DEF S

\* What a job to submit depends on was submitted for the same row.
LEMMA NeedsFits ==
  /\ \A x \in ChildSubTypes : Needs[x] \subseteq ChildSubTypes
  /\ Needs["cleanup"] = {}
BY DEF Needs, ChildSubTypes, SlaveSubTypes, StorageSubTypes

\* The master carries on with its plan.
LEMMA MasterAdvances ==
  ASSUME MasterInv, Grows, plan # <<>>, plan' = Tail(plan),
         UNCHANGED <<mpc, mrows, mcur, orphans, restarts>>,
         made' \in [ChildSubTypes -> SUBSET Born'],
         \A x \in ChildSubTypes : \A d \in made'[x] : info'[d].sub = x
  PROVE  MasterInv'
<1>1. Done \subseteq Done'
  BY DoneGrows
<1>2. plan \in Seq(Instructions)
  BY DEF MasterInv, MasterTypeOK
<1>3. /\ plan' \in Seq(Instructions)
      /\ \A j \in DOMAIN plan' : j + 1 \in DOMAIN plan /\ plan'[j] = plan[j + 1]
  BY <1>2
<1>4. MasterTypeOK'
  BY <1>3 DEF MasterInv, MasterTypeOK, Grows
<1>5. \A row \in mrows :
        /\ row.job \in Born
        /\ info[row.job].sub \in {"master", "detect_frames"}
        /\ info[row.job].sub = "detect_frames" => row.job \in Done
  BY DEF MasterInv, MasterTypeOK
<1>6. \A row \in mrows' :
        /\ info'[row.job].sub \in {"master", "detect_frames"}
        /\ info'[row.job].sub = "detect_frames" => row.job \in Done'
  BY <1>1, <1>5 DEF Grows
<1>7. ASSUME NEW j \in DOMAIN plan'
      PROVE  /\ mcur'.job \in Born'
             /\ plan'[j] \in {"mark", "purge", "finish"} =>
                  info'[mcur'.job].sub = "master"
             /\ plan'[j] = "delete" => mcur'.job \in Done'
  BY <1>1, <1>3 DEF MasterInv, Grows
<1> QED
  BY <1>4, <1>6, <1>7 DEF MasterInv

\* The same when the step submits nothing.
LEMMA MasterAdvancesOnly ==
  ASSUME MasterInv, Grows, plan # <<>>, plan' = Tail(plan),
         UNCHANGED <<mpc, mrows, mcur, made, orphans, restarts>>
  PROVE  MasterInv'
<1>1. /\ made \in [ChildSubTypes -> SUBSET Born]
      /\ \A x \in ChildSubTypes : \A d \in made[x] : info[d].sub = x
  BY DEF MasterInv, MasterTypeOK
<1>2. /\ made' \in [ChildSubTypes -> SUBSET Born']
      /\ \A x \in ChildSubTypes : \A d \in made'[x] : info'[d].sub = x
  BY <1>1 DEF Grows
<1> QED
  BY <1>2, MasterAdvances

\* A master that ended has nothing left to do.
LEMMA MasterGone ==
  ASSUME MasterInv, Grows, Die, UNCHANGED restarts PROVE MasterInv'
<1>1. mpc' \in MasterPCs /\ mrows' = {} /\ orphans' = {}
  BY DEF Die, MasterPCs
<1>2. mcur' \in [job : Born' \cup {0}, state : 0 .. 2, cuts : Nat]
  BY DEF Die, NoRow
<1>3. plan' \in Seq(Instructions) /\ DOMAIN plan' = {}
  BY DEF Die
<1>4. /\ made' \in [ChildSubTypes -> SUBSET Born']
      /\ \A x \in ChildSubTypes : made'[x] = {}
  BY DEF Die, NothingMade
<1>5. restarts' \in 0 .. MasterRestarts
  BY DEF MasterInv, MasterTypeOK
<1> QED
  BY <1>1, <1>2, <1>3, <1>4, <1>5 DEF MasterInv, MasterTypeOK

\* UPDATE of a transcode: its State says nothing of a run.
LEMMA TableMarkMaster ==
  ASSUME TableInv, info' = info, ran' = ran, NEW i, info[i].sub = "master",
         NEW st \in 0 .. 2, jobs' = WithState(i, st)
  PROVE  TableInv' /\ Grows
<1>1. Present' = Present
  BY DEF WithState, Present
<1>2. ASSUME NEW j \in Present
      PROVE  jobs'[j] \in JobRow /\ (j # i => jobs'[j] = jobs[j])
  <2>1. jobs[j] \in JobRow
    BY DEF TableInv, TableTypeOK
  <2>2. CASE j = i
    <3> DEFINE r == [jobs[j] EXCEPT !.state = st]
    <3>1. r \in JobRow
      BY <2>1, RowUpdate
    <3>2. jobs'[j] = r
      BY <2>2 DEF WithState
    <3> HIDE DEF r
    <3> QED
      BY <2>2, <3>1, <3>2
  <2>3. CASE j # i
    BY <2>1, <2>3 DEF WithState
  <2> QED
    BY <2>2, <2>3
<1>3. jobs' \in [Present' -> JobRow]
  BY <1>1, <1>2 DEF WithState
<1>4. \A j \in Present' : info[j].sub # "master" /\ jobs'[j].state = 2
                            => <<j, jobs'[j].server>> \in ran
  BY <1>1, <1>2 DEF TableInv, FinishedByAssignee
<1> QED
  BY <1>1, <1>3, <1>4, TableUpdated

\* What the master passes to submit_job: a subtype, the request and the transcode
\* of the row it is at, and jobs it submitted before for the same row.
LEMMA SubmitArguments ==
  ASSUME IInv, NEW sub \in ChildSubTypes, Submit(sub)
  PROVE  /\ sub \in SubTypes /\ sub # "master"
         /\ info[mcur.job].req \in Requests
         /\ Owner(mcur.job) \in Born /\ Owner(mcur.job) \in Nat
         /\ info[Owner(mcur.job)].sub = "master"
         /\ DependenciesOf(sub) \in SUBSET Born
         /\ \A d \in DependenciesOf(sub) : info[d].sub # "master"
         /\ sub = "cleanup" => DependenciesOf(sub) = {}
<1> USE DEF IInv
<1>1. mcur.job \in Born
  <2>1. plan # <<>> /\ plan \in Seq(Instructions)
    BY DEF Submit, At, MasterInv, MasterTypeOK
  <2>2. 1 \in DOMAIN plan
    BY <2>1
  <2> QED
    BY <2>2 DEF MasterInv
<1>2. sub \in SubTypes /\ sub # "master"
  BY DEF SubTypes, ChildSubTypes, SlaveSubTypes, StorageSubTypes
<1>3. Owner(mcur.job) \in Born /\ info[Owner(mcur.job)].sub = "master"
  BY <1>1 DEF Owner, TableInv, KindsOK
<1>4. info[mcur.job].req \in Requests /\ Owner(mcur.job) \in Nat
  <2>1. info[mcur.job] \in JobInfo /\ Born \subseteq Nat
    BY <1>1 DEF TableInv, TableTypeOK, Born
  <2> QED
    BY <1>3, <2>1 DEF JobInfo
<1>5. /\ made \in [ChildSubTypes -> SUBSET Born]
      /\ \A x \in ChildSubTypes : \A d \in made[x] : info[d].sub = x
  BY DEF MasterInv, MasterTypeOK
<1>6. /\ DependenciesOf(sub) \in SUBSET Born
      /\ \A d \in DependenciesOf(sub) : info[d].sub # "master"
      /\ sub = "cleanup" => DependenciesOf(sub) = {}
  <2>1. Needs[sub] \subseteq ChildSubTypes /\ "master" \notin ChildSubTypes
    BY NeedsFits DEF ChildSubTypes, SlaveSubTypes, StorageSubTypes
  <2> QED
    BY <1>5, <2>1, NeedsFits DEF DependenciesOf
<1> QED
  BY <1>2, <1>3, <1>4, <1>6

\* So the table stays right, and the master goes on.
LEMMA MasterSubmits ==
  ASSUME IInv, NEW sub \in ChildSubTypes, Submit(sub)
  PROVE  TableInv' /\ Grows /\ MasterInv'
<1>1. /\ SubmitJob(sub, info[mcur.job].req, Owner(mcur.job), DependenciesOf(sub))
      /\ made' = [made EXCEPT ![sub] = made[sub] \cup {Len(info) + 1}]
      /\ plan # <<>> /\ plan' = Tail(plan)
      /\ UNCHANGED <<mpc, mrows, mcur, orphans, restarts>> /\ ran' = ran
  BY DEF Submit, At, IInv, MasterInv, MasterTypeOK
<1>2. /\ TableInv' /\ Grows
      /\ Born' = Born \cup {Len(info) + 1}
      /\ info'[Len(info) + 1].sub = sub
  BY <1>1, SubmitArguments, TableSubmit DEF IInv
<1>3. /\ made \in [ChildSubTypes -> SUBSET Born]
      /\ \A x \in ChildSubTypes : \A d \in made[x] : info[d].sub = x
  BY DEF IInv, MasterInv, MasterTypeOK
<1>4. made' \in [ChildSubTypes -> SUBSET Born']
  BY <1>1, <1>2, <1>3
<1>5. ASSUME NEW x \in ChildSubTypes, NEW d \in made'[x] PROVE info'[d].sub = x
  <2>1. CASE d \in made[x]
    BY <1>2, <1>3, <2>1 DEF Grows
  <2>2. CASE d \notin made[x]
    BY <1>1, <1>2, <1>3, <1>5, <2>2
  <2> QED
    BY <2>1, <2>2
<1>6. MasterInv'
  BY <1>1, <1>2, <1>4, <1>5, MasterAdvances DEF IInv
<1> QED
  BY <1>2, <1>6

\* Every step of the master keeps the invariants.
LEMMA MasterPreserves ==
  ASSUME IInv, MasterStep \/ CrashMaster \/ RestartMaster
  PROVE  TableInv' /\ Grows /\ MasterInv' /\ ServersTypeOK' /\ FilesTypeOK'
<1> USE DEF IInv
<1>1. /\ plan \in Seq(Instructions)
      /\ plan # <<>> => 1 \in DOMAIN plan /\ Head(plan) = plan[1]
      /\ Present \subseteq Born
  BY DEF MasterInv, MasterTypeOK, TableInv, TableTypeOK
<1>2. CASE FetchJobs
  <2>1. TableInv' /\ Grows /\ Done' = Done
    BY <1>2, TableSame, SameGrows DEF FetchJobs, tableVars
  <2>2. /\ mrows' = {[job |-> i, state |-> jobs[i].state, cuts |-> jobs[i].cuts] :
                       i \in Relevant}
        /\ mpc' = "rows"
        /\ info' = info /\ UNCHANGED <<mcur, plan, made, orphans, restarts>>
    BY <1>2 DEF FetchJobs, tableVars
  <2>3. ASSUME NEW i \in Relevant
        PROVE  /\ i \in Born
               /\ jobs[i].state \in 0 .. 2 /\ jobs[i].cuts \in Nat
               /\ info[i].sub \in {"master", "detect_frames"}
               /\ info[i].sub = "detect_frames" => i \in Done
    <3>1. i \in Present /\ i \in Born /\ jobs[i] \in JobRow
      BY DEF Relevant, TableInv, TableTypeOK
    <3>2. info[i].sub = "detect_frames" => <<i, jobs[i].server>> \in ran
      BY <3>1 DEF Relevant, TableInv, FinishedByAssignee
    <3> QED
      BY <3>1, <3>2 DEF Relevant, JobRow, TableInv, TableTypeOK, Done
  <2>4. mrows' \subseteq [job : Born, state : 0 .. 2, cuts : Nat]
    BY <2>2, <2>3
  <2>5. \A row \in mrows' :
          /\ info[row.job].sub \in {"master", "detect_frames"}
          /\ info[row.job].sub = "detect_frames" => row.job \in Done
    BY <2>2, <2>3
  <2>6. MasterTypeOK'
    BY <2>2, <2>4 DEF MasterInv, MasterTypeOK, MasterPCs, Born
  <2>7. MasterInv'
    BY <2>1, <2>2, <2>5, <2>6 DEF MasterInv, Born
  <2>8. ServersTypeOK' /\ FilesTypeOK'
    BY <1>2, <2>1, FilesStable DEF FetchJobs, ServersTypeOK, serverVars
  <2> QED
    BY <2>1, <2>7, <2>8
<1>3. CASE TakeRow
  <2>1. TableInv' /\ Grows /\ Done' = Done
    BY <1>3, TableSame, SameGrows DEF TakeRow, tableVars
  <2>2. PICK row \in mrows :
          mrows' = mrows \ {row} /\ mcur' = row /\ plan' = PlanFor(row)
    BY <1>3 DEF TakeRow
  <2>3. /\ row \in [job : Born, state : 0 .. 2, cuts : Nat]
        /\ row.job \in Born
        /\ info[row.job].sub \in {"master", "detect_frames"}
        /\ info[row.job].sub = "detect_frames" => row.job \in Done
    BY DEF MasterInv, MasterTypeOK
  <2>4. /\ made' = NothingMade /\ info' = info
        /\ UNCHANGED <<mpc, orphans, restarts>>
    BY <1>3 DEF TakeRow, tableVars
  <2>5. mcur' \in [job : Born' \cup {0}, state : 0 .. 2, cuts : Nat]
    BY <2>2, <2>3, <2>4 DEF Born
  <2>6. MasterTypeOK'
    BY <2>2, <2>4, <2>5, PlanForFits
       DEF MasterInv, MasterTypeOK, NothingMade, Born
  <2>7. ASSUME NEW j \in DOMAIN plan'
        PROVE  /\ mcur'.job \in Born'
               /\ plan'[j] \in {"mark", "purge", "finish"} =>
                    info'[mcur'.job].sub = "master"
               /\ plan'[j] = "delete" => mcur'.job \in Done'
    BY <2>1, <2>2, <2>3, <2>4, PlanForFits DEF Born
  <2>8. MasterInv'
    BY <2>1, <2>2, <2>4, <2>6, <2>7 DEF MasterInv, NothingMade, Born
  <2>9. ServersTypeOK' /\ FilesTypeOK'
    BY <1>3, <2>1, FilesStable DEF TakeRow, ServersTypeOK, serverVars
  <2> QED
    BY <2>1, <2>8, <2>9
<1>4. ASSUME NEW sub \in ChildSubTypes, Submit(sub)
      PROVE  TableInv' /\ Grows /\ MasterInv' /\ ServersTypeOK' /\ FilesTypeOK'
  <2>1. TableInv' /\ Grows /\ MasterInv'
    BY <1>4, MasterSubmits
  <2>2. ServersTypeOK' /\ FilesTypeOK'
    BY <1>4, <2>1, FilesStable DEF Submit, ServersTypeOK, serverVars
  <2> QED
    BY <2>1, <2>2
<1>5. CASE CleanupBound
  <2>1. TableInv' /\ Grows
    BY <1>5, TableSame DEF CleanupBound
  <2>2. MasterInv'
    BY <1>5, <2>1, MasterAdvancesOnly DEF CleanupBound, At
  <2>3. ServersTypeOK' /\ FilesTypeOK'
    BY <1>5, <2>1, FilesStable DEF CleanupBound, ServersTypeOK, serverVars
  <2> QED
    BY <2>1, <2>2, <2>3
<1>6. CASE MarkStarted
  <2>1. info[mcur.job].sub = "master" /\ plan # <<>>
    BY <1>1, <1>6 DEF MarkStarted, At, MasterInv
  <2>2. TableInv' /\ Grows
    BY <1>6, <2>1, TableMarkMaster DEF MarkStarted
  <2>3. MasterInv'
    BY <1>6, <2>1, <2>2, MasterAdvancesOnly DEF MarkStarted
  <2>4. ServersTypeOK' /\ FilesTypeOK'
    BY <1>6, <2>2, FilesStable DEF MarkStarted, ServersTypeOK, serverVars
  <2> QED
    BY <2>2, <2>3, <2>4
<1>7. CASE PurgeChildren
  <2> DEFINE D == {i \in Children(mcur.job) : jobs[i].state = 2}
  <2>1. jobs' = Without(D) /\ info' = info /\ ran' = ran /\ plan # <<>>
    BY <1>7 DEF PurgeChildren, At
  <2>2. ASSUME NEW d \in D, info[d].sub # "master" PROVE d \in Done
    <3>1. d \in Present /\ d \in Born /\ jobs[d].state = 2
      BY <1>1 DEF Children
    <3>2. <<d, jobs[d].server>> \in ran
      BY <2>2, <3>1 DEF TableInv, FinishedByAssignee
    <3> QED
      BY <3>1, <3>2 DEF TableInv, TableTypeOK, Done
  <2>3. TableInv' /\ Grows
    <3> HIDE DEF D
    <3> QED
      BY <2>1, <2>2, TableDelete
  <2>4. MasterInv'
    BY <1>7, <2>1, <2>3, MasterAdvancesOnly DEF PurgeChildren
  <2>5. ServersTypeOK' /\ FilesTypeOK'
    BY <1>7, <2>3, FilesStable DEF PurgeChildren, ServersTypeOK, serverVars
  <2> QED
    BY <2>3, <2>4, <2>5
<1>8. CASE MarkFinished
  <2>1. info[mcur.job].sub = "master" /\ plan # <<>>
    BY <1>1, <1>8 DEF MarkFinished, At, MasterInv
  <2>2. TableInv' /\ Grows
    BY <1>8, <2>1, TableMarkMaster DEF MarkFinished
  <2>3. MasterInv'
    BY <1>8, <2>1, <2>2, MasterAdvancesOnly DEF MarkFinished
  <2>4. ServersTypeOK' /\ FilesTypeOK'
    BY <1>8, <2>2, FilesStable DEF MarkFinished, ServersTypeOK, serverVars
  <2> QED
    BY <2>2, <2>3, <2>4
<1>9. CASE DeleteDetectJob
  <2>1. mcur.job \in Done /\ plan # <<>>
    BY <1>1, <1>9 DEF DeleteDetectJob, At, MasterInv
  <2>2. TableInv' /\ Grows
    BY <1>9, <2>1, TableDelete DEF DeleteDetectJob
  <2>3. MasterInv'
    BY <1>9, <2>1, <2>2, MasterAdvancesOnly DEF DeleteDetectJob
  <2>4. ServersTypeOK' /\ FilesTypeOK'
    BY <1>9, <2>2, FilesStable DEF DeleteDetectJob, ServersTypeOK, serverVars
  <2> QED
    BY <2>2, <2>3, <2>4
<1>10. CASE Split
  <2>1. TableInv' /\ Grows /\ Done' = Done
    BY <1>10, TableSame, SameGrows DEF Split, tableVars
  <2>2. mcur.job \in Born /\ mcur.cuts \in Nat
    BY <1>1, <1>10 DEF Split, At, MasterInv, MasterTypeOK
  <2>3. plan' \in Seq(ChildSubTypes \cup {"raise"})
    <3>1. CASE plan' = <<"raise">>
      BY <3>1
    <3>2. CASE plan' = PartsPlan(NumberOfRegisteredSlaves, mcur.cuts,
                                 info[mcur.job].req)
      BY <2>2, <3>2, PartsPlanFits, RegisteredSlavesNumber
    <3> QED
      BY <1>10, <3>1, <3>2 DEF Split
  <2>4. /\ plan' \in Seq(Instructions)
        /\ \A j \in DOMAIN plan' :
             plan'[j] \notin {"mark", "purge", "finish", "delete"}
    <3>1. /\ ChildSubTypes \cup {"raise"} \subseteq Instructions
          /\ \A x \in ChildSubTypes \cup {"raise"} :
               x \notin {"mark", "purge", "finish", "delete"}
      BY DEF Instructions, ChildSubTypes, SlaveSubTypes, StorageSubTypes
    <3> QED
      BY <2>3, <3>1
  <2>5. info' = info /\ UNCHANGED <<mpc, mrows, mcur, made, orphans, restarts>>
    BY <1>10 DEF Split, tableVars
  <2>6. MasterTypeOK'
    BY <2>4, <2>5 DEF MasterInv, MasterTypeOK, Born
  <2>7. MasterInv'
    BY <2>1, <2>2, <2>4, <2>5, <2>6 DEF MasterInv, Born
  <2>8. ServersTypeOK' /\ FilesTypeOK'
    BY <1>10, <2>1, FilesStable DEF Split, ServersTypeOK, serverVars
  <2> QED
    BY <2>1, <2>7, <2>8
<1>11. CASE Raise \/ CrashMaster
  <2>1. TableInv' /\ Grows
    BY <1>11, TableSame DEF Raise, CrashMaster
  <2>2. MasterInv'
    BY <1>11, <2>1, MasterGone DEF Raise, CrashMaster
  <2>3. ServersTypeOK' /\ FilesTypeOK'
    BY <1>11, <2>1, FilesStable DEF Raise, CrashMaster, ServersTypeOK, serverVars
  <2> QED
    BY <2>1, <2>2, <2>3
<1>12. CASE CleanupTasks
  <2>1. TableInv' /\ Grows /\ Done' = Done
    BY <1>12, TableSame, SameGrows DEF CleanupTasks, tableVars
  <2>2. /\ info' = info /\ UNCHANGED <<mrows, mcur, plan, made, restarts>>
        /\ orphans' \subseteq Born /\ mpc' \in MasterPCs
    BY <1>1, <1>12 DEF CleanupTasks, tableVars, MasterPCs
  <2>3. MasterTypeOK'
    BY <2>2 DEF MasterInv, MasterTypeOK, Born
  <2>4. MasterInv'
    BY <2>1, <2>2, <2>3 DEF MasterInv, Born
  <2>5. ServersTypeOK' /\ FilesTypeOK'
    BY <1>12, <2>1, FilesStable DEF CleanupTasks, ServersTypeOK, Seen
  <2> QED
    BY <2>1, <2>4, <2>5
<1>13. CASE ReassignOrphan
  <2>1. PICK i \in orphans, s \in FindServerForSlaveJob :
          /\ orphans' = orphans \ {i}
          /\ jobs' = [j \in Present |->
                        IF j = i
                          THEN [state |-> 0, server |-> s, cuts |-> jobs[j].cuts]
                          ELSE jobs[j]]
    BY <1>13 DEF ReassignOrphan
  <2>2. /\ info' = info /\ ran' = ran /\ mpc' \in MasterPCs
        /\ UNCHANGED <<mrows, mcur, plan, made, restarts>>
    BY <1>13 DEF ReassignOrphan, MasterPCs
  <2>3. s \in Servers \cup {Nobody}
    BY DEF FindServerForSlaveJob, RegisteredSlaves, Servers
  <2>4. Present' = Present /\ jobs \in [Present -> JobRow]
    BY <2>1 DEF Present, TableInv, TableTypeOK
  <2>5. ASSUME NEW j \in Present
        PROVE  /\ jobs'[j] \in JobRow
               /\ jobs'[j] = jobs[j] \/ jobs'[j].state = 0
    <3>1. jobs[j] \in JobRow
      BY <2>4
    <3>2. [state |-> 0, server |-> s, cuts |-> jobs[j].cuts] \in JobRow
      BY <2>3, <3>1 DEF JobRow
    <3> QED
      BY <2>1, <3>1, <3>2
  <2>6. jobs' \in [Present' -> JobRow]
    BY <2>1, <2>4, <2>5
  <2>7. \A j \in Present' : info[j].sub # "master" /\ jobs'[j].state = 2
                              => <<j, jobs'[j].server>> \in ran
    BY <2>4, <2>5 DEF TableInv, FinishedByAssignee
  <2>8. TableInv' /\ Grows
    BY <2>2, <2>4, <2>6, <2>7, TableUpdated
  <2>9. Done' = Done
    BY <2>2, SameGrows
  <2>10. MasterTypeOK'
    BY <2>1, <2>2 DEF MasterInv, MasterTypeOK, Born
  <2>11. MasterInv'
    BY <2>2, <2>9, <2>10 DEF MasterInv, Born
  <2>12. ServersTypeOK' /\ FilesTypeOK'
    BY <1>13, <2>8, FilesStable DEF ReassignOrphan, ServersTypeOK, serverVars
  <2> QED
    BY <2>8, <2>11, <2>12
<1>14. CASE RestartMaster
  <2>1. TableInv' /\ Grows /\ Done' = Done
    BY <1>14, TableSame, SameGrows DEF RestartMaster, tableVars
  <2>2. /\ info' = info /\ UNCHANGED <<mrows, mcur, plan, made, orphans>>
        /\ mpc' \in MasterPCs
    BY <1>14 DEF RestartMaster, tableVars, MasterPCs
  <2>3. restarts' \in 0 .. MasterRestarts
    BY <1>14, MasterAssumption DEF RestartMaster, MasterInv, MasterTypeOK
  <2>4. MasterTypeOK'
    BY <2>2, <2>3 DEF MasterInv, MasterTypeOK, Born
  <2>5. MasterInv'
    BY <2>1, <2>2, <2>4 DEF MasterInv, Born
  <2>6. ServersTypeOK' /\ FilesTypeOK'
    BY <1>14, <2>1, FilesStable DEF RestartMaster, ServersTypeOK, serverVars
  <2> QED
    BY <2>1, <2>5, <2>6
<1> QED
  BY <1>2, <1>3, <1>4, <1>5, <1>6, <1>7, <1>8, <1>9, <1>10, <1>11, <1>12, <1>13,
     <1>14 DEF MasterStep

----------------------------------------------------------------------------
(* The inductive invariant. *)

\* It holds when the farm starts.
LEMMA InitIInv ==
  ASSUME Init PROVE IInv
<1> USE DEF Init, TableInit
<1>1. Born = {} /\ Present = {} /\ Done = {}
  BY DEF Born, Present, Done
<1>2. TableInv
  <2>1. info \in Seq(JobInfo) /\ jobs \in [Present -> JobRow]
    BY <1>1
  <2> QED
    BY <1>1, <2>1 DEF TableInv, TableTypeOK, KindsOK, DoneClosed, NothingLost,
                      FinishedByAssignee
<1>3. ServersTypeOK
  BY StandingAssumption DEF ServersTypeOK, Seen
<1>4. FilesTypeOK
  BY DEF FilesTypeOK
<1>5. SlaveInv
  BY DEF SlaveInit, SlaveInv, SlaveTypeOK, SlavePCs
<1>6. StorageInv
  BY DEF StorageInit, StorageInv, StorageTypeOK, StoragePCs, TaskPCs, Idle
<1>7. MasterInv
  <2>1. MasterTypeOK
    BY MasterAssumption
       DEF MasterInit, MasterTypeOK, MasterPCs, NoRow, NothingMade
  <2> QED
    BY <2>1 DEF MasterInit, MasterInv, NothingMade
<1> QED
  BY <1>2, <1>3, <1>4, <1>5, <1>6, <1>7 DEF IInv

\* And every step keeps it: the process that moves keeps its own part, the
\* others are indifferent to a table that only grows.
LEMMA NextIInv ==
  ASSUME IInv, [Next]_vars PROVE IInv' /\ Grows
<1>1. CASE \E s \in Slaves : SlaveNext(s)
  <2>1. PICK s \in Slaves : SlaveNext(s)
    BY <1>1
  <2>2. TableInv' /\ Grows /\ SlaveInv' /\ ServersTypeOK' /\ FilesTypeOK'
    BY <2>1, SlavePreserves DEF SlaveNext
  <2>3. StorageInv' /\ MasterInv'
    BY <2>1, <2>2, StorageStable, MasterStable DEF SlaveNext, IInv
  <2> QED
    BY <2>2, <2>3 DEF IInv
<1>2. CASE StorageNext
  <2>1. TableInv' /\ Grows /\ StorageInv' /\ ServersTypeOK' /\ FilesTypeOK'
    BY <1>2, StorageLoopPreserves, ThreadPreserves DEF StorageNext
  <2>2. SlaveInv' /\ MasterInv'
    BY <1>2, <2>1, SlaveStable, MasterStable DEF StorageNext, IInv
  <2> QED
    BY <2>1, <2>2 DEF IInv
<1>3. CASE MasterNext
  <2>1. TableInv' /\ Grows /\ MasterInv' /\ ServersTypeOK' /\ FilesTypeOK'
    BY <1>3, MasterPreserves DEF MasterNext
  <2>2. SlaveInv' /\ StorageInv'
    BY <1>3, <2>1, SlaveStable, StorageStable DEF MasterNext, IInv
  <2> QED
    BY <2>1, <2>2 DEF IInv
<1>4. CASE UNCHANGED vars
  <2>1. TableInv' /\ Grows
    BY <1>4, TableSame DEF vars, IInv
  <2>2. SlaveInv' /\ StorageInv' /\ MasterInv' /\ FilesTypeOK'
    BY <1>4, <2>1, SlaveStable, StorageStable, MasterStable, FilesStable
       DEF vars, IInv
  <2>3. ServersTypeOK'
    BY <1>4 DEF vars, serverVars, IInv, ServersTypeOK
  <2> QED
    BY <2>1, <2>2, <2>3 DEF IInv
<1> QED
  BY <1>1, <1>2, <1>3, <1>4 DEF Next

\* The invariant of the farm.
THEOREM Invariant == Spec => []IInv
BY InitIInv, NextIInv, PTL DEF Spec

\* Every variable has its type, and a job depends on earlier jobs only.
THEOREM TypeCorrect == Spec => []TypeOK
<1>1. IInv => TypeOK
  BY DEF IInv, TypeOK, TableInv, KindsOK, SlaveInv, StorageInv, MasterInv
<1> QED
  BY <1>1, Invariant, PTL

\* No job is taken on before all it depends on has been run: with any number of
\* slaves, threads, crashes and restarts, a row that is missing is a job done.
THEOREM DependenciesAreDone == Spec => []DependenciesDone
<1>1. ASSUME IInv PROVE DependenciesDone
  <2>1. ASSUME NEW i \in Admitted PROVE info[i].deps \subseteq Done
    <3>1. CASE i \in {cur[s] : s \in {x \in Slaves : spc[x] \in {"remove", "claim", "run"}}}
      BY <1>1, <3>1 DEF IInv, SlaveInv
    <3>2. CASE i \in IF tpc \in {"remove", "put"} THEN {tcur} ELSE {}
      BY <1>1, <3>2 DEF IInv, StorageInv
    <3>3. CASE i \in {queue[j] : j \in DOMAIN queue}
      BY <1>1, <3>3 DEF IInv, StorageInv
    <3>4. CASE i \in {task[t].job : t \in {x \in Threads : task[x].pc # "idle"}}
      BY <1>1, <3>4 DEF IInv, StorageInv
    <3> QED
      BY <2>1, <3>1, <3>2, <3>3, <3>4 DEF Admitted
  <2> QED
    BY <2>1 DEF DependenciesDone
<1> QED
  BY <1>1, Invariant, PTL

\* No delete loses work: a row that is gone is of a transcode or of a job that
\* was run.
THEOREM NoWorkLost == Spec => []NothingLost
<1>1. IInv => NothingLost
  BY DEF IInv, TableInv
<1> QED
  BY <1>1, Invariant, PTL

\* A job the table calls finished was run by the server the table names.
THEOREM FinishedWasRun == Spec => []FinishedByAssignee
<1>1. IInv => FinishedByAssignee
  BY DEF IInv, TableInv
<1> QED
  BY <1>1, Invariant, PTL

----------------------------------------------------------------------------
(* The farm implements Workflow. *)

\* The three ways a step can touch the history of jobs: not at all, by the end
\* of a run, or by one submit_job.
Quiet == info' = info /\ ran' = ran
RunEnds ==
  \E i \in Born, s \in Servers :
    info' = info /\ ran' = ran \cup {<<i, s>>} /\ info[i].deps \subseteq Done
Inserts ==
  \E sub \in SubTypes, r \in Requests, m \in Nat, D \in SUBSET Born :
    SubmitJob(sub, r, m, D) /\ ran' = ran

\* Every step is one of the three.
LEMMA StepKinds ==
  ASSUME IInv, [Next]_vars PROVE Quiet \/ RunEnds \/ Inserts
<1> USE DEF IInv
<1>1. ASSUME NEW s \in Slaves, SlaveNext(s) PROVE Quiet \/ RunEnds
  <2>1. CASE FinishJob(s) \/ FinishDetectFrames(s)
    <3>1. /\ spc[s] = "run" /\ info' = info
          /\ ran' = ran \cup {<<cur[s], s>>}
      BY <2>1 DEF FinishJob, FinishDetectFrames, JobEnds
    <3>2. cur[s] \in Born /\ info[cur[s]].deps \subseteq Done /\ s \in Servers
      BY <3>1 DEF SlaveInv, Servers
    <3> QED
      BY <3>1, <3>2 DEF RunEnds
  <2>2. CASE ~(FinishJob(s) \/ FinishDetectFrames(s))
    BY <1>1, <2>2
       DEF Quiet, tableVars, SlaveNext, SlaveStep, SlaveFault, RegisterSlave,
           MountStorage, FetchDbJobs, CheckDependencies, RemoveDependencies,
           ClaimJob, SkipJob, RunRaises, Heartbeat, ExitSlave, CrashSlave, Silence
  <2> QED
    BY <2>1, <2>2
<1>2. ASSUME NEW t \in Threads, ThreadStep(t) PROVE Quiet \/ RunEnds
  <2>1. CASE FinishTask(t) \/ DeleteCleanupJob(t)
    <3>1. /\ task[t].pc # "idle" /\ info' = info
          /\ ran' = ran \cup {<<task[t].job, StorageServer>>}
      BY <2>1 DEF FinishTask, DeleteCleanupJob
    <3>2. /\ task[t].job \in Born /\ info[task[t].job].deps \subseteq Done
          /\ StorageServer \in Servers
      BY <3>1 DEF StorageInv, Servers
    <3> QED
      BY <3>1, <3>2 DEF RunEnds
  <2>2. CASE ~(FinishTask(t) \/ DeleteCleanupJob(t))
    BY <1>2, <2>2
       DEF Quiet, tableVars, ThreadStep, TakeTask, TaskRaises, RemoveSource,
           RemoveIntermediates, DeleteMasterJob
  <2> QED
    BY <2>1, <2>2
<1>3. ASSUME NEW r \in Requests, SubmitXml(r) PROVE Inserts
  <2>1. "master" \in SubTypes /\ 0 \in Nat /\ {} \in SUBSET Born
    BY DEF SubTypes
  <2>2. SubmitJob("master", r, 0, {}) /\ ran' = ran
    BY <1>3 DEF SubmitXml
  <2> QED
    BY <2>1, <2>2 DEF Inserts
<1>4. CASE StorageLoop \/ CrashStorage \/ SilenceStorage
  BY <1>4
     DEF Quiet, tableVars, StorageLoop, RegisterStorage, FetchStorageJobs,
         CheckStorageDependencies, RemoveStorageDependencies, AddTask,
         CrashStorage, SilenceStorage
<1>5. ASSUME NEW sub \in ChildSubTypes, Submit(sub) PROVE Inserts
  BY <1>5, SubmitArguments DEF Submit, Inserts
<1>6. CASE \/ FetchJobs \/ TakeRow \/ CleanupBound \/ MarkStarted
           \/ PurgeChildren \/ MarkFinished \/ DeleteDetectJob \/ Split \/ Raise
           \/ CleanupTasks \/ ReassignOrphan \/ CrashMaster \/ RestartMaster
  BY <1>6
     DEF Quiet, tableVars, FetchJobs, TakeRow, CleanupBound, MarkStarted,
         PurgeChildren, MarkFinished, DeleteDetectJob, Split, Raise,
         CleanupTasks, ReassignOrphan, CrashMaster, RestartMaster
<1>7. CASE UNCHANGED vars
  BY <1>7 DEF vars, tableVars, Quiet
<1> QED
  BY <1>1, <1>2, <1>3, <1>4, <1>5, <1>6, <1>7
     DEF Next, StorageNext, MasterNext, MasterStep

\* The history of jobs is a sequence of sets of earlier jobs.
Needed == [i \in Born |-> info[i].deps]

\* Its length is the number of jobs.
LEMMA NeededIsASeq ==
  ASSUME TableTypeOK
  PROVE  /\ Needed \in Seq(SUBSET Nat) /\ Len(Needed) = Len(info)
         /\ Born = 1 .. Len(info) /\ Len(info) \in Nat
<1>1. Born = 1 .. Len(info) /\ Len(info) \in Nat
  BY DEF TableTypeOK, Born
<1>2. ASSUME NEW i \in Born PROVE info[i].deps \in SUBSET Nat
  <2>1. info[i] \in JobInfo
    BY DEF TableTypeOK, Born
  <2> QED
    BY <2>1 DEF JobInfo
<1>3. Needed \in Seq(SUBSET Nat)
  BY <1>1, <1>2 DEF Needed
<1>4. DOMAIN Needed = 1 .. Len(info)
  BY <1>1 DEF Needed
<1>5. Len(Needed) = Len(info)
  BY <1>1, <1>3, <1>4
<1> QED
  BY <1>1, <1>3, <1>5

\* Each step creates one job, completes one, or does nothing.
LEMMA StepImplementsWorkflow ==
  ASSUME IInv, IInv', [Next]_vars
  PROVE  WF!WNext \/ UNCHANGED <<Needed, Done>>
<1>1. CASE Quiet
  BY <1>1 DEF Quiet, Needed, Done, Born, Servers
<1>2. CASE RunEnds
  <2>1. PICK i \in Born, s \in Servers :
          info' = info /\ ran' = ran \cup {<<i, s>>} /\ info[i].deps \subseteq Done
    BY <1>2 DEF RunEnds
  <2>2. Born' = Born /\ Needed' = Needed
    BY <2>1 DEF Born, Needed
  <2>3. Done' = Done \cup {i}
    BY <2>1, <2>2 DEF Done, Servers
  <2>4. i \in DOMAIN Needed /\ Needed[i] \subseteq Done
    BY <2>1 DEF Needed
  <2>5. WF!Complete
    BY <2>2, <2>3, <2>4 DEF WF!Complete, Needed
  <2> QED
    BY <2>5 DEF WF!WNext
<1>3. CASE Inserts
  <2>1. PICK sub \in SubTypes, r \in Requests, m \in Nat, D \in SUBSET Born :
          SubmitJob(sub, r, m, D) /\ ran' = ran
    BY <1>3 DEF Inserts
  <2> DEFINE new == Len(info) + 1
             rec == [sub |-> sub, req |-> r, master |-> m, deps |-> D,
                     vol |-> FindStorageForJob]
  <2>2. info' = Append(info, rec)
    BY <2>1 DEF SubmitJob
  <2>3. TableTypeOK /\ TableTypeOK' /\ KindsOK'
    BY DEF IInv, TableInv
  <2>4. Len(Needed) = Len(info) /\ Born = 1 .. Len(info) /\ Len(info) \in Nat
    BY <2>3, NeededIsASeq
  <2>5. rec.deps = D
    OBVIOUS
  <2> HIDE DEF rec
  <2>6. /\ Born' = Born \cup {new} /\ Born' = 1 .. new
        /\ \A i \in Born : info'[i] = info[i]
        /\ info'[new] = rec
    BY <2>2, <2>3, <2>4 DEF Born, TableTypeOK
  <2>7. /\ DOMAIN Needed' = 1 .. new
        /\ DOMAIN Needed = Born
        /\ \A i \in DOMAIN Needed : Needed'[i] = Needed[i]
        /\ Needed'[new] \subseteq DOMAIN Needed
    BY <2>4, <2>5, <2>6 DEF Needed
  <2>8. Done' = Done
    <3>1. \A i \in Born', x \in Servers : <<i, x>> \in ran => i \in Born
      BY <2>3 DEF TableTypeOK
    <3> QED
      BY <2>1, <2>6, <3>1 DEF Done, Servers
  <2>9. WF!Create
    BY <2>4, <2>7, <2>8 DEF WF!Create, Needed
  <2> QED
    BY <2>9 DEF WF!WNext
<1> QED
  BY <1>1, <1>2, <1>3, StepKinds

\* The farm never completes a job before what it needs, and never forgets one:
\* with every interleaving, deletion, reassignment, crash and restart it is an
\* implementation of Workflow.
THEOREM Implementation == Spec => ImplementsWorkflow
<1>1. Init => WF!WInit
  BY DEF Init, TableInit, WF!WInit, Born, Done
<1>2. IInv /\ IInv' /\ [Next]_vars => [WF!WNext]_<<Needed, Done>>
  BY StepImplementsWorkflow
<1>3. IInv /\ IInv' /\ [Next]_vars
        => [WF!WNext]_<<[i \in Born |-> info[i].deps], Done>>
  BY <1>2 DEF Needed
<1> QED
  BY <1>1, <1>3, Invariant, PTL DEF Spec, ImplementsWorkflow, WF!WSpec
=============================================================================
