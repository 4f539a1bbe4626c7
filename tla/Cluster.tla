------------------------------- MODULE Cluster -------------------------------
(***************************************************************************)
(* The farm: one master, one storage server and the slave servers, which   *)
(* share nothing but the tables and the files of the volume.               *)
(***************************************************************************)
EXTENDS Slave, Storage, Master

vars == <<tableVars, serverVars, fileVars, ran, slaveVars, storageVars,
          masterVars>>

CONSTANT Standing  \* the slaves registered and connected at the start

ASSUME StandingAssumption == Standing \subseteq Slaves

\* The storage server has registered its volume and no job was submitted yet.
Init ==
  /\ TableInit
  /\ seen = [s \in Slaves |-> IF s \in Standing THEN "fresh" ELSE "none"]
  /\ busy = {}
  /\ connected = Standing
  /\ storeSeen = "fresh"
  /\ volume = 1
  /\ SlaveInit
  /\ StorageInit
  /\ MasterInit

SlaveNext(s) ==
  (SlaveStep(s) \/ Heartbeat(s) \/ SlaveFault(s) \/ Silence(s))
    /\ UNCHANGED <<storageVars, masterVars>>
StorageNext ==
  (StorageLoop \/ (\E r \in Requests : SubmitXml(r))
     \/ (\E t \in Threads : ThreadStep(t)) \/ CrashStorage \/ SilenceStorage)
    /\ UNCHANGED <<slaveVars, masterVars>>
MasterNext ==
  (MasterStep \/ CrashMaster \/ RestartMaster)
    /\ UNCHANGED <<slaveVars, storageVars>>

Next == (\E s \in Slaves : SlaveNext(s)) \/ StorageNext \/ MasterNext

Spec == Init /\ [][Next]_vars

\* The master keeps going, it is started again as long as the bound allows, and
\* time passes for a slave that is not heard of any more.
MasterFairness ==
  /\ \A s \in Slaves :
       WF_vars(spc[s] = "dead" /\ UNCHANGED <<storageVars, masterVars>> /\ Silence(s))
  /\ WF_vars(UNCHANGED <<slaveVars, storageVars>> /\ (MasterStep \/ RestartMaster))

\* So does each other process and each thread, and time passes for a storage
\* server that is not heard of any more.
Fairness ==
  /\ MasterFairness
  /\ \A s \in Slaves : WF_vars(UNCHANGED <<storageVars, masterVars>> /\ SlaveStep(s))
  /\ WF_vars(UNCHANGED <<slaveVars, masterVars>> /\ StorageLoop)
  /\ \A t \in Threads :
       WF_vars(UNCHANGED <<slaveVars, masterVars>> /\ ThreadStep(t))
  /\ WF_vars(tpc = "dead" /\ UNCHANGED <<slaveVars, masterVars>> /\ SilenceStorage)

MasterFairSpec == Spec /\ MasterFairness
FairSpec == Spec /\ Fairness

----------------------------------------------------------------------------
(* The type invariant. *)

\* Every table, file and process variable has its type, and a job depends on
\* earlier jobs only: the submission order of the master.
TypeOK ==
  /\ TableTypeOK /\ ServersTypeOK /\ FilesTypeOK
  /\ SlaveTypeOK /\ StorageTypeOK /\ MasterTypeOK
  /\ \A i \in Born : info[i].deps \subseteq 1 .. (i - 1)

----------------------------------------------------------------------------
(* Safety. *)

RunsIn(t, i) == task[t].pc # "idle" /\ task[t].job = i

\* The jobs some process has taken on: past check_dependencies, in the queue of
\* the pool or in a thread.
Admitted ==
  {cur[s] : s \in {x \in Slaves : spc[x] \in {"remove", "claim", "run"}}}
  \cup (IF tpc \in {"remove", "put"} THEN {tcur} ELSE {})
  \cup {queue[j] : j \in DOMAIN queue}
  \cup {task[t].job : t \in {x \in Threads : task[x].pc # "idle"}}

\* No job is taken on before every job it depends on has been run to its end at
\* least once.  check_dependencies concludes that from rows that are finished
\* or not there at all, in a table four kinds of process delete from.
DependenciesDone == \A i \in Admitted : info[i].deps \subseteq Done

\* A job the table calls finished has been run to its end by the very server
\* it is assigned to, even when a slave that was declared gone comes back from
\* the same job.
FinishedByAssignee ==
  \A i \in Present :
    info[i].sub # "master" /\ jobs[i].state = 2 => <<i, jobs[i].server>> \in ran

\* A job the table has lost, other than a transcode, was run first: no delete
\* of the master, of a slave or of the storage server loses work.
NothingLost ==
  \A i \in Born \ Present : info[i].sub # "master" => i \in Done

\* A slave job runs on one slave at a time, and on the one it is assigned to:
\* the heartbeats of a long run keep the master from giving it to another.  True
\* as long as work that outlasts the limit sends them, false of a frame detection.
OneRunner ==
  \A s \in Slaves : spc[s] = "run" =>
    /\ \A x \in Slaves \ {s} : ~(spc[x] = "run" /\ cur[x] = cur[s])
    /\ cur[s] \in Present => jobs[cur[s]].server = s

\* A job is taken from a slave, and the State of its row set back, only when that
\* slave has ended: by no selection of servers or of orphans that has become old,
\* and by no UPDATE of another slave.
TakenFromEnded ==
  [][\A s \in Slaves : \A i \in Present \cap Present' :
       /\ jobs[i].server = s
       /\ jobs'[i].server # s \/ jobs'[i].state < jobs[i].state
       => spc[s] = "dead"]_vars

ChildrenEver(m) == {i \in Born : info[i].master = m}
DoneFor(m, sub) == {i \in ChildrenEver(m) : info[i].sub = sub /\ i \in Done}

\* A transcode in State 2 is complete: the output was muxed, its frames were
\* counted twice if asked, it was uploaded if it has to be.  "master job's
\* children are all finished" is concluded from rows being absent.
FinishedMeansComplete ==
  \A m \in Present : info[m].sub = "master" /\ jobs[m].state = 2 =>
    /\ DoneFor(m, "av_mux") # {}
    /\ info[m].req \in Confirm => Cardinality(DoneFor(m, "count_frames")) = 2
    /\ info[m].req \in Upload => DoneFor(m, "upload") # {}

\* Cleanup comes last: once the row of a transcode is gone, or its files are
\* being removed, no child of it that was ever submitted has still to run
\* (other cleanup jobs may).
CleanupComesLast ==
  \A m \in Born :
    /\ info[m].sub = "master"
    /\ m \notin Present \/ \E t \in Threads :
         task[t].pc \in {"unlink", "master", "row"} /\ MasterOf(t) = m
    => \A i \in ChildrenEver(m) : info[i].sub # "cleanup" => i \in Done

\* Two requests have a file in common: a download by its name, or whatever the
\* pattern <output>_* finds.
ShareFiles(r, q) ==
  Output[r] = Output[q] \/ ({r, q} \subseteq Download /\ Source[r] = Source[q])

\* "delete the cleanup job": a cleanup job that was started is in a thread that
\* will delete it, unless job_cleanup has raised, and that is only when another
\* cleanup, of this transcode or of one with the same files, came before it, or
\* when the volume has been registered anew since the transcode was submitted.
CleanupJobDeleted ==
  \A i \in Present :
    info[i].sub = "cleanup" /\ jobs[i].state = 1 /\ tpc # "dead" =>
      \/ \E t \in Threads : RunsIn(t, i)
      \/ \E k \in Cleanups \ {i} : ShareFiles(info[k].req, info[i].req)
      \/ ~VolumeKnown(info[i].master)

----------------------------------------------------------------------------
(* The inductive invariant behind the theorems of ClusterProofs. *)

\* What the columns an INSERT fixes say of the kinds of jobs.
KindsOK ==
  \A i \in Born :
    /\ info[i].deps \subseteq 1 .. (i - 1)
    /\ info[i].sub \in {"master", "cleanup"} => info[i].deps = {}
    /\ \A d \in info[i].deps : info[d].sub # "master"
    /\ info[i].sub # "master" =>
         info[i].master \in Born /\ info[info[i].master].sub = "master"

\* A job that was run had its dependencies run before.
DoneClosed == \A i \in Done : info[i].deps \subseteq Done

TableInv ==
  /\ TableTypeOK /\ KindsOK /\ DoneClosed /\ NothingLost /\ FinishedByAssignee

SlaveInv ==
  /\ SlaveTypeOK
  /\ \A s \in Slaves : spc[s] \in {"remove", "claim", "run"} =>
       cur[s] \in Born /\ info[cur[s]].deps \subseteq Done

StorageInv ==
  /\ StorageTypeOK
  /\ tpc \in {"remove", "put"} => tcur \in Born /\ info[tcur].deps \subseteq Done
  /\ \A j \in DOMAIN queue : info[queue[j]].deps \subseteq Done
  /\ \A t \in Threads : task[t].pc # "idle" =>
       /\ task[t].job \in Born
       /\ info[task[t].job].deps \subseteq Done
       /\ task[t].pc # "run" => info[task[t].job].sub = "cleanup"

\* What the master still means to do fits the row it is at: it marks and purges
\* for transcodes, and deletes a detection that is done.
MasterInv ==
  /\ MasterTypeOK
  /\ \A row \in mrows :
       /\ info[row.job].sub \in {"master", "detect_frames"}
       /\ info[row.job].sub = "detect_frames" => row.job \in Done
  /\ \A j \in DOMAIN plan :
       /\ mcur.job \in Born
       /\ plan[j] \in {"mark", "purge", "finish"} => info[mcur.job].sub = "master"
       /\ plan[j] = "delete" => mcur.job \in Done
  /\ \A x \in ChildSubTypes : \A d \in made[x] : info[d].sub = x

\* The invariant each step preserves.
IInv ==
  /\ TableInv /\ ServersTypeOK /\ FilesTypeOK
  /\ SlaveInv /\ StorageInv /\ MasterInv

----------------------------------------------------------------------------
(* Refinement: the farm implements Workflow. *)

WF == INSTANCE Workflow WITH
        needs <- [i \in Born |-> info[i].deps], done <- Done

\* Every step creates a job after the ones it needs, completes one whose needs
\* are complete, or does neither; no deletion, reassignment or crash undoes it.
ImplementsWorkflow == WF!WSpec

----------------------------------------------------------------------------
(* Liveness. *)

\* A transcode that was submitted is finished and its row removed, unless a
\* slave ends on the way.
RequestServed ==
  \A i \in 1 .. Cardinality(Requests) :
    (i \in Present /\ info[i].sub = "master")
      ~> ((i \in Born /\ i \notin Present) \/ \E s \in Slaves : spc[s] = "dead")

\* In the end every slave job is with a slave that has not ended, the new ones
\* too: none stays with one that is gone, and none with nobody as long as there is
\* a slave, and a master to see to it.
OrphansReassigned ==
  <>[](\A i \in Present : mpc # "dead" /\ info[i].sub \in SlaveSubTypes =>
         IF jobs[i].server = Nobody THEN \A s \in Slaves : spc[s] = "dead"
         ELSE spc[jobs[i].server] # "dead")
=============================================================================
