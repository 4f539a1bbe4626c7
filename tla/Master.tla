------------------------------- MODULE Master -------------------------------
(***************************************************************************)
(* fflock-master.py: the master selects all jobs, advances each transcode  *)
(* and each finished frame detection by one pass, and then removes stale   *)
(* servers and reassigns the jobs of slaves that are gone, for ever.       *)
(*                                                                         *)
(* What fetch_jobs does for one row is a short program, plan, one SQL      *)
(* statement (or one submit_job) a step.                                   *)
(***************************************************************************)
EXTENDS JobTable

CONSTANTS
  MaxCleanups,    \* bound: cleanup jobs submitted
  MasterRestarts  \* how often the master may be started again

ASSUME MasterAssumption == MaxCleanups \in Nat /\ MasterRestarts \in Nat

VARIABLES
  mpc,       \* the part of the main loop the master is in
  mrows,     \* the selected rows fetch_jobs has still to visit
  mcur,      \* the row it is at
  plan,      \* what it has still to do for that row
  made,      \* the jobs it has submitted for that row, by subtype
  orphans,   \* the jobs reassign_orphaned_jobs has still to update
  restarts   \* how often the master was started again

masterVars == <<mpc, mrows, mcur, plan, made, orphans, restarts>>

MasterPCs == {"fetch", "rows", "reassign", "dead"}
Instructions ==
  ChildSubTypes \cup
  {"mark", "purge", "finish", "delete", "split", "raise"}
NoRow == [job |-> 0, state |-> 0, cuts |-> 0]
NothingMade == [x \in ChildSubTypes |-> {}]

MasterTypeOK ==
  /\ mpc \in MasterPCs
  /\ mrows \subseteq [job : Born, state : 0 .. 2, cuts : Nat]
  /\ mcur \in [job : Born \cup {0}, state : 0 .. 2, cuts : Nat]
  /\ plan \in Seq(Instructions)
  /\ made \in [ChildSubTypes -> SUBSET Born]
  /\ orphans \subseteq Born
  /\ restarts \in 0 .. MasterRestarts

MasterInit ==
  /\ mpc = "fetch"
  /\ mrows = {}
  /\ mcur = NoRow
  /\ plan = <<>>
  /\ made = NothingMade
  /\ orphans = {}
  /\ restarts = 0

\* Mutant of Relevant: a detection is acted on before it has finished.
RelevantAnyState == {i \in Present : info[i].sub \in {"master", "detect_frames"}}

\* the rows fetch_jobs acts on: every transcode, every finished detection
Relevant ==
  {i \in Present : \/ info[i].sub = "master"
                   \/ info[i].sub = "detect_frames" /\ jobs[i].state = 2}

FetchJobs ==
  /\ mpc = "fetch"
  /\ mrows' = {[job |-> i, state |-> jobs[i].state, cuts |-> jobs[i].cuts] :
                 i \in Relevant}
  /\ mpc' = "rows"
  /\ UNCHANGED <<tableVars, serverVars, fileVars, ran, mcur, plan, made, orphans,
                 restarts>>

\* Mutants of Unfinished: without the clause on frame detections, and with a
\* started job taken for a finished one.
UnfinishedByState(m) == {i \in Children(m) : jobs[i].state < 2}
Unstarted(m) ==
  {i \in Children(m) : info[i].sub = "detect_frames" \/ jobs[i].state < 1}

\* the children that keep a transcode in progress
Unfinished(m) ==
  {i \in Children(m) : info[i].sub = "detect_frames" \/ jobs[i].state < 2}

\* Mutant of PlanFor: a transcode whose children are gone stays in State 1.
PlanNeverFinishes(row) ==
  IF info[row.job].sub = "detect_frames"
    THEN <<"delete", "audio_demux", "split">>
  ELSE IF row.state = 0
    THEN IF info[row.job].req \in Download
           THEN <<"download", "mark", "detect_frames">>
           ELSE <<"mark", "detect_frames">>
  ELSE IF row.state = 1
    THEN IF Unfinished(row.job) = {} THEN <<"purge">> ELSE <<>>
  ELSE <<"cleanup">>

\* What fetch_jobs does for a row.  For a transcode in progress the SELECT of
\* its children is the first statement and decides.  download_external_source
\* submits nothing for a file on the volume.
PlanFor(row) ==
  IF info[row.job].sub = "detect_frames"
    THEN <<"delete", "audio_demux", "split">>
  ELSE IF row.state = 0
    THEN IF info[row.job].req \in Download
           THEN <<"download", "mark", "detect_frames">>
           ELSE <<"mark", "detect_frames">>
  ELSE IF row.state = 1
    THEN IF Unfinished(row.job) = {} THEN <<"purge", "finish">> ELSE <<>>
  ELSE <<"cleanup">>

TakeRow ==
  /\ mpc = "rows"
  /\ plan = <<>>
  /\ \E row \in mrows :
       /\ mrows' = mrows \ {row}
       /\ mcur' = row
       /\ plan' = PlanFor(row)
  /\ made' = NothingMade
  /\ UNCHANGED <<tableVars, serverVars, fileVars, ran, mpc, orphans, restarts>>

At(instruction) == mpc = "rows" /\ plan # <<>> /\ Head(plan) = instruction

\* source_dependencies, merge_dependencies, mux_dependencies, the dependencies
\* of count frames and upload_dependencies
Needs ==
  [x \in ChildSubTypes |->
     CASE x = "detect_frames" -> {"download"}
       [] x = "video_merge"   -> {"transcode", "write_mergefile"}
       [] x = "av_mux"       -> {"audio_demux", "video_merge"}
       [] x = "count_frames"  -> {"av_mux"}
       [] x = "upload"        -> {"av_mux", "count_frames"}
       [] OTHER               -> {}]

\* Mutant of DependenciesOf: a job waits for itself, by an off-by-one in uuids.
DependenciesOnSelf(sub) == UNION {made[x] : x \in Needs[sub]} \cup {Len(info) + 1}

DependenciesOf(sub) == UNION {made[x] : x \in Needs[sub]}

Cleanups == {i \in Born : info[i].sub = "cleanup"}

Submit(sub) ==
  /\ At(sub)
  /\ sub = "cleanup" => Cardinality(Cleanups) < MaxCleanups
  /\ SubmitJob(sub, info[mcur.job].req, Owner(mcur.job), DependenciesOf(sub))
  /\ made' = [made EXCEPT ![sub] = @ \cup {Len(info) + 1}]
  /\ plan' = Tail(plan)
  /\ UNCHANGED <<serverVars, fileVars, ran, mpc, mrows, mcur, orphans, restarts>>

\* the bound on cleanup jobs; fetch_jobs has none
CleanupBound ==
  /\ At("cleanup")
  /\ Cardinality(Cleanups) >= MaxCleanups
  /\ plan' = Tail(plan)
  /\ UNCHANGED <<tableVars, serverVars, fileVars, ran, mpc, mrows, mcur, made,
                 orphans, restarts>>

MarkStarted ==
  /\ At("mark")
  /\ jobs' = WithState(mcur.job, 1)
  /\ plan' = Tail(plan)
  /\ UNCHANGED <<info, serverVars, fileVars, ran, mpc, mrows, mcur, made,
                 orphans, restarts>>

PurgeChildren ==
  /\ At("purge")
  /\ jobs' = Without({i \in Children(mcur.job) : jobs[i].state = 2})
  /\ plan' = Tail(plan)
  /\ UNCHANGED <<info, serverVars, fileVars, ran, mpc, mrows, mcur, made,
                 orphans, restarts>>

MarkFinished ==
  /\ At("finish")
  /\ jobs' = WithState(mcur.job, 2)
  /\ plan' = Tail(plan)
  /\ UNCHANGED <<info, serverVars, fileVars, ran, mpc, mrows, mcur, made,
                 orphans, restarts>>

DeleteDetectJob ==
  /\ At("delete")
  /\ jobs' = Without({mcur.job})
  /\ plan' = Tail(plan)
  /\ UNCHANGED <<info, serverVars, fileVars, ran, mpc, mrows, mcur, made,
                 orphans, restarts>>

\* The loop of split_transcode_job submits a part for each registered slave and
\* stops early at the key frame marked -1, the last one, provided there is
\* more than one: the list of a single key frame has no mark, and the second
\* round runs past its end.
Parts(n, k) == IF k = 1 /\ n > 1 THEN 1 ELSE IF n <= k THEN n ELSE k
PartsPlan(n, k, r) ==
  [j \in 1 .. Parts(n, k) |-> "transcode"] \o
  (IF k = 1 /\ n > 1 THEN <<"raise">>
   ELSE <<"write_mergefile", "video_merge", "av_mux">>
          \o (IF r \in Confirm THEN <<"count_frames", "count_frames">> ELSE <<>>)
          \o (IF r \in Upload THEN <<"upload">> ELSE <<>>))

Split ==
  /\ At("split")
  /\ plan' = IF VolumeKnown(mcur.job)
               THEN PartsPlan(NumberOfRegisteredSlaves, mcur.cuts,
                              info[mcur.job].req)
               ELSE <<"raise">>
  /\ UNCHANGED <<tableVars, serverVars, fileVars, ran, mpc, mrows, mcur, made,
                 orphans, restarts>>

Die ==
  /\ mpc' = "dead"
  /\ mrows' = {}
  /\ mcur' = NoRow
  /\ plan' = <<>>
  /\ made' = NothingMade
  /\ orphans' = {}

\* an uncaught exception ends the process
Raise ==
  /\ At("raise")
  /\ Die
  /\ UNCHANGED <<tableVars, serverVars, fileVars, ran, restarts>>

----------------------------------------------------------------------------
(* cleanup_tasks *)

\* remove_stale_slave_servers, remove_stale_storage_servers (which takes the
\* connectivity entries along), and the two SELECTs of reassign_orphaned_jobs,
\* which do not ask for the State of a job
StaleSlaves == {s \in Slaves : seen[s] = "old"}

\* Mutant of CleanupTasks: only jobs that have not started are taken over.
CleanupTasksForWaiting ==
  /\ mpc = "rows" /\ plan = <<>> /\ mrows = {}
  /\ seen' = [s \in Slaves |-> IF s \in StaleSlaves THEN "none" ELSE seen[s]]
  /\ busy' = busy \ StaleSlaves
  /\ connected' = IF storeSeen = "old" THEN {} ELSE connected \ StaleSlaves
  /\ storeSeen' = IF storeSeen = "old" THEN "none" ELSE storeSeen
  /\ orphans' = {i \in Present :
                   /\ info[i].sub \in SlaveSubTypes /\ jobs[i].state = 0
                   /\ jobs[i].server \notin RegisteredSlaves \ StaleSlaves}
  /\ mpc' = IF orphans' = {} THEN "fetch" ELSE "reassign"
  /\ UNCHANGED <<tableVars, volume, fileVars, ran, mrows, mcur, plan, made,
                 restarts>>

CleanupTasks ==
  /\ mpc = "rows" /\ plan = <<>> /\ mrows = {}
  /\ seen' = [s \in Slaves |-> IF s \in StaleSlaves THEN "none" ELSE seen[s]]
  /\ busy' = busy \ StaleSlaves
  /\ connected' = IF storeSeen = "old" THEN {} ELSE connected \ StaleSlaves
  /\ storeSeen' = IF storeSeen = "old" THEN "none" ELSE storeSeen
  /\ orphans' = {i \in Present :
                   /\ info[i].sub \in SlaveSubTypes
                   /\ jobs[i].server \notin RegisteredSlaves \ StaleSlaves}
  /\ mpc' = IF orphans' = {} THEN "fetch" ELSE "reassign"
  /\ UNCHANGED <<tableVars, volume, fileVars, ran, mrows, mcur, plan, made,
                 restarts>>

ReassignOrphan ==
  /\ mpc = "reassign"
  /\ \E i \in orphans :
       /\ orphans' = orphans \ {i}
       /\ \E s \in FindServerForSlaveJob :
            jobs' = [j \in Present |->
                       IF j = i
                         THEN [state |-> 0, server |-> s, cuts |-> jobs[j].cuts]
                         ELSE jobs[j]]
  /\ mpc' = IF orphans' = {} THEN "fetch" ELSE "reassign"
  /\ UNCHANGED <<info, serverVars, fileVars, ran, mrows, mcur, plan, made,
                 restarts>>

----------------------------------------------------------------------------
CrashMaster ==
  /\ restarts < MasterRestarts
  /\ mpc # "dead"
  /\ Die
  /\ UNCHANGED <<tableVars, serverVars, fileVars, ran, restarts>>

\* a master is started again, and has become the registered one
RestartMaster ==
  /\ mpc = "dead"
  /\ restarts < MasterRestarts
  /\ restarts' = restarts + 1
  /\ mpc' = "fetch"
  /\ UNCHANGED <<tableVars, serverVars, fileVars, ran, mrows, mcur, plan, made,
                 orphans>>

MasterStep ==
  \/ FetchJobs \/ TakeRow
  \/ \E sub \in ChildSubTypes : Submit(sub)
  \/ CleanupBound \/ MarkStarted \/ PurgeChildren
  \/ MarkFinished \/ DeleteDetectJob \/ Split \/ Raise
  \/ CleanupTasks \/ ReassignOrphan
=============================================================================
