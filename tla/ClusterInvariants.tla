-------------------------- MODULE ClusterInvariants --------------------------
(***************************************************************************)
(* The inductive invariants of the farm beyond Cluster!IInv: where jobs    *)
(* are assigned, how the master works through a transcode, and who holds   *)
(* a job.  Each part lists what its safety property rests on; those that   *)
(* hold only under a condition are guarded by it.                          *)
(***************************************************************************)
EXTENDS Cluster

Masters == {i \in Born : info[i].sub = "master"}
Asked(m, sub) == {i \in ChildrenEver(m) : info[i].sub = sub}

\* The UPDATE to State 2 or the DELETE of a transcode is behind it.
Finished(m) == m \notin Present \/ jobs[m].state = 2

----------------------------------------------------------------------------
(* Assignment. *)

\* the rows a slave has selected and not done with
Held(s) == batch[s] \cup ({cur[s]} \ {0})

\* the rows the main loop of the storage server has still to pass on, and those
\* in the pool
Selected == tbatch \cup (IF tpc \in {"remove", "put"} THEN {tcur} ELSE {})
Queued == {queue[j] : j \in DOMAIN queue}
Tasks == {task[t].job : t \in {x \in Threads : task[x].pc # "idle"}}
InHand == Selected \cup Queued \cup Tasks

\* A row names a server of the kind its subtype asks for, a server selects rows
\* of its kind, and only slave jobs are reassigned.
RowsFit ==
  \A i \in Present :
    \/ jobs[i].server = Nobody
    \/ jobs[i].server \in Slaves /\ info[i].sub \in SlaveSubTypes
    \/ jobs[i].server = StorageServer /\ info[i].sub \in StorageSubTypes
HeldFit == \A s \in Slaves : \A i \in Held(s) : info[i].sub \in SlaveSubTypes
PoolFit ==
  \A i \in InHand : info[i].sub \in StorageSubTypes
OrphansFit == \A i \in orphans : info[i].sub \in SlaveSubTypes
AssignInv == RowsFit /\ HeldFit /\ PoolFit /\ OrphansFit

----------------------------------------------------------------------------
(* How the master works through a transcode. *)

PartTypes == {"transcode", "write_mergefile", "video_merge", "av_mux",
              "count_frames", "upload"}
StartPlans == {<<"download", "mark", "detect_frames">>, <<"mark", "detect_frames">>}
MarkedPlan == <<"detect_frames">>
ClosePlans == {<<"purge", "finish">>, <<"finish">>}
CleanupPlan == <<"cleanup">>
DeletePlan == <<"delete", "audio_demux", "split">>
DeletedPlans == {<<"audio_demux", "split">>, <<"split">>}
PartPlans == Seq(PartTypes \cup {"raise"}) \ {<<>>}

\* The transcode the plan of the master is about
Subject == Owner(mcur.job)

\* What is left of a plan is the rest of one of the sequences fetch_jobs goes
\* through, for a row of the right kind; between two rounds there is none.
PlanInv ==
  /\ mpc # "rows" => plan = <<>> /\ mrows = {}
  /\ plan # <<>> =>
       /\ mcur.job \in Born
       /\ \/ /\ info[mcur.job].sub = "master"
             /\ plan \in StartPlans \cup {MarkedPlan, CleanupPlan} \cup ClosePlans
          \/ /\ info[mcur.job].sub = "detect_frames"
             /\ plan \in {DeletePlan} \cup DeletedPlans \cup PartPlans
       /\ \A row \in mrows : row.job # mcur.job
  /\ \A x, y \in mrows : x.job = y.job => x = y

\* All children of a transcode but its cleanups were run, and no detection is
\* listed that could still bring forth others.
Closed(m) ==
  \A i \in ChildrenEver(m) : info[i].sub # "cleanup" =>
    i \in Done /\ (info[i].sub = "detect_frames" => i \notin Present)

\* A transcode is finished, and cleanups are submitted, when it is closed; a
\* detection keeps its row until the master has come to it, and the master
\* knows the State of each transcode it has selected, so that no row it is at
\* can reopen a transcode that is finished.
CloseInv ==
  /\ \A m \in Masters : info[m].master = 0 /\ (Finished(m) => Closed(m))
  /\ \A k \in Cleanups : Finished(info[k].master)
  /\ \A i \in Born : \A d \in info[i].deps : info[d].sub # "detect_frames"
  /\ \A row \in mrows :
       /\ info[row.job].sub = "detect_frames" => row.job \in Present
       /\ info[row.job].sub = "master" =>
            IF row.job \in Present THEN row.state = jobs[row.job].state
            ELSE row.state = 2
  /\ plan \in StartPlans => mcur.job \in Present /\ jobs[mcur.job].state = 0
  /\ plan = MarkedPlan => mcur.job \in Present /\ jobs[mcur.job].state = 1
  /\ plan \in ClosePlans =>
       mcur.job \in Present /\ jobs[mcur.job].state = 1 /\ Closed(mcur.job)
  /\ plan = CleanupPlan => Finished(mcur.job)
  /\ plan \in {DeletePlan} \cup DeletedPlans \cup PartPlans => ~Finished(Subject)

\* A job is for the request of its transcode.
RequestInv ==
  \A i \in Born : info[i].sub # "master" => info[i].req = info[info[i].master].req

\* Everything FinishedMeansComplete asks for was submitted,
Full(m) ==
  /\ Asked(m, "av_mux") # {}
  /\ info[m].req \in Confirm => Cardinality(Asked(m, "count_frames")) = 2
  /\ info[m].req \in Upload => Asked(m, "upload") # {}

\* or is about to be by the rest of the plan.
Left(sub) == {j \in DOMAIN plan : plan[j] = sub}
Promised(m) ==
  /\ Asked(m, "av_mux") # {} \/ Left("av_mux") # {}
  /\ info[m].req \in Confirm =>
       Cardinality(Asked(m, "count_frames")) + Cardinality(Left("count_frames")) = 2
  /\ info[m].req \in Upload => Asked(m, "upload") # {} \/ Left("upload") # {}

\* The one detection of a transcode, and no frame count yet
OnlyDetection(m, D) == Asked(m, "detect_frames") = D /\ Asked(m, "count_frames") = {}

\* A master that is the first one brings every transcode from its one
\* detection to the whole set of its parts, each once, before it finishes it.
StageInv ==
  /\ \A m \in Masters :
       /\ Finished(m) => Full(m)
       /\ m \in Present /\ jobs[m].state = 0 => OnlyDetection(m, {})
       /\ mpc # "dead" /\ m \in Present /\ jobs[m].state = 1 =>
            \/ Full(m)
            \/ \E d \in Asked(m, "detect_frames") : d \in Present
            \/ plan # <<>> /\ Subject = m
  /\ \A d \in Present : info[d].sub = "detect_frames" =>
       OnlyDetection(info[d].master, {d})
  /\ plan = MarkedPlan => OnlyDetection(mcur.job, {})
  /\ plan \in ClosePlans => Full(mcur.job)
  /\ plan \in {DeletePlan} \cup DeletedPlans => OnlyDetection(Subject, {mcur.job})
  /\ plan \in DeletedPlans \cup PartPlans => mcur.job \notin Present
  /\ plan \in PartPlans =>
       /\ Asked(Subject, "detect_frames") = {mcur.job}
       /\ Left("raise") # {} \/ Promised(Subject)

\* A transcode of an external source was not started before its download was
\* submitted.
DownloadInv ==
  /\ \A m \in Masters :
       info[m].req \in Download /\ ~(m \in Present /\ jobs[m].state = 0) =>
         Asked(m, "download") # {}
  /\ plan = <<"mark", "detect_frames">> /\ info[mcur.job].req \in Download =>
       Asked(mcur.job, "download") # {}

----------------------------------------------------------------------------
(* The removal of the files. *)

\* Downloads succeed.
DownloadsSucceed == "download" \notin Faulty

\* The threads at a cleanup job past the removal of the source, and past that of
\* the intermediate files.
PastSource(i) ==
  i \notin Present \/ \E t \in Threads :
                        task[t].job = i /\ task[t].pc \in {"unlink", "master", "row"}
PastFiles(i) ==
  i \notin Present \/ \E t \in Threads :
                        task[t].job = i /\ task[t].pc \in {"master", "row"}

\* A cleanup that no other one shares a file with, of a volume that is still the
\* one of the farm
Sole(i) ==
  /\ \A k \in Cleanups \ {i} : ~ShareFiles(info[k].req, info[i].req)
  /\ VolumeKnown(info[i].master)

\* It stays in its thread, and what it finds gone it has removed itself.
Tidy(i) ==
  /\ i \in Present /\ jobs[i].state = 1 => i \in Tasks
  /\ info[i].req \in Download /\ Source[info[i].req] \notin downloaded => PastSource(i)
  /\ \A t \in Threads : task[t].job = i /\ task[t].pc = "unlink" =>
       Output[info[i].req] \in intermediates \/ PastFiles(i)

\* A source is there until a cleanup of a request with that source removes it.
CleanupInv ==
  /\ \A i \in Done : info[i].sub = "download" =>
       \/ Source[info[i].req] \in downloaded
       \/ \E k \in Cleanups :
            info[k].req \in Download /\ Source[info[k].req] = Source[info[i].req]
  /\ \A i \in Born : info[i].vol <= volume
  /\ tpc # "dead" => \A i \in Cleanups : Sole(i) => Tidy(i)

----------------------------------------------------------------------------
(* Who holds a job. *)

\* Work that may take longer than the stale limits keeps the heartbeat going.
SlowWorkBeats == \A x \in Slow : Heartbeats(x)

\* A slave that has not ended is not taken for gone, the jobs it holds name it
\* and are not finished, and the jobs to be reassigned are of slaves that have
\* ended, or of nobody.
HeldInv ==
  /\ \A s \in Slaves :
       /\ spc[s] = "dead" => Held(s) = {}
       /\ spc[s] # "dead" => seen[s] # "old"
       /\ spc[s] \notin {"dead", "loop"} => seen[s] # "none"
       /\ cur[s] \notin batch[s]
       /\ \A i \in Held(s) \cap Present : jobs[i].server = s /\ jobs[i].state # 2
       /\ \A x \in Slaves \ {s} : Held(s) \cap Held(x) = {}
  /\ \A i \in Present : jobs[i].server \in Slaves =>
       spc[jobs[i].server] = "dead" \/ seen[jobs[i].server] # "none"
  /\ \A i \in orphans \cap Present : jobs[i].server \in Slaves =>
       spc[jobs[i].server] = "dead"

----------------------------------------------------------------------------
\* The invariant of the farm.
FarmInv ==
  /\ IInv /\ AssignInv /\ PlanInv /\ CloseInv /\ RequestInv /\ DownloadInv
  /\ restarts = 0 => StageInv
  /\ DownloadsSucceed => CleanupInv
  /\ SlowWorkBeats => HeldInv
=============================================================================
