# fflock in TLA+

fflock transcodes videos on a farm of machines: a master splits a transcode into
jobs, slave servers run the encoder on their parts, a storage server merges and
muxes them on the NFS volume that all share. The processes never talk to each
other. They read and write four MySQL tables and files on the volume, and every
guarantee about order, ownership and completion comes from what those reads and
writes conclude. That is what this project models, checks and proves.

## The system

| part | code | state it keeps | operations |
|---|---|---|---|
| tables | `docs/installation/db_schema`, `modules/fflock_utility.py` | Jobs, Servers, Storage, Connectivity | `submit_job`, `check_dependencies`, `remove_dependency_jobs`, `find_server_for_slave_job`, `find_server_for_storage_job`, `job_cleanup` |
| master | `fflock-master.py` | the rows of one SELECT, what is left to do for a row | `register_master_server`, `fetch_jobs`, `split_transcode_job`, `cleanup_tasks` with `reassign_orphaned_jobs` |
| slave server | `fflock-slave.py` | the rows of one SELECT, the job it runs | `register_slave_server`, `calculate_connectivity`, `mount_storage`, `fetch_db_jobs`, `run_job`, `find_keyframes`, `unload` |
| storage server | `fflock-storage.py` | the rows of one SELECT | `register_storage_server`, `check_slave_connectivity`, `check_xml_submits`, `fetch_db_jobs`, `run_job`, `unload` |
| thread pool | `modules/fflock_threadpool.py` | a bounded queue, 20 daemon threads | `add_task`, `Worker.run` |
| encoder | `modules/fflock_encoder.py` | progress, return code, times, shared with `run_job` | `run`, getters |
| volume | the NFS directory | input, output and part files, XML files, test and confirmation files | written and removed by all of them |
| web administration | `fflock-admin.py`, `web2py/` | a table of uploaded files | status pages; `my_upload` puts a file, which may be a job XML, on the volume |

Life of a transcode. An XML file on the volume becomes a Jobs row of type Master
(State 0). The master submits a download if the input is a URL, sets State 1 and
submits *detect frames*. When that is in State 2 the master deletes it and
submits *audio demux*, a *transcode* for each registered slave, *write
mergefile*, *video merge*, *a/v mux*, two *count frames* (option
`confirm_framecount`) and an upload, each with the uuids it depends on. A server
runs a job whose dependencies are all in State 2 **or have no row**, and deletes
their rows. When no child of a transcode is unfinished the master purges them
and sets State 2; in State 2 it submits a *cleanup*, which removes the files and
the row.

Failure handling is one mechanism: a heartbeat column. A slave not heard of for
60 seconds (a storage server: 30) loses its Servers row, and slave jobs whose
server has no row are set to State 0 and given to another slave.

### What is hard here

`hazards` in `PROJECT.json` lists these at their lines.

- *Absence means success.* A missing dependency row is a finished dependency,
  and no unfinished child means a finished transcode. Four kinds of process
  delete rows: a delete too early, or an insert too late, starts work early or
  ends a transcode half done.
- *Check, then act.* Every process works through rows it selected earlier, and
  each statement reads the tables again: dependencies, own state, connection.
- *Late answers.* Not every kind of job sends heartbeats; a server declared gone
  may come back from its job, and jobs of State 2 are reassigned too.
- *Unfinished business.* A master that ends between two statements leaves a
  transcode somewhere in the middle, and the next one goes by State alone.
- *Repeats.* The master submits a cleanup per pass, and the storage server
  selects queued jobs again.
- *Shared files.* A download is named by the end of its URL and intermediate
  files by the output name: two transcodes of one URL or output share them, and
  each one's cleanup removes them.
- *Limits.* The queue of the pool blocks the main loop that sends the heartbeat;
  the split indexes a list of key frames by a number of slaves read later.
- *Files as messages.* Slaves, storage server and master write, read and remove
  files of one directory without a lock, and a file that is gone ends whoever
  wanted it. An XML file is removed some statements after its jobs were
  submitted.
- *Shared fields.* The encoder thread and `run_job` share fields without a lock,
  and the encoder is a process that outlives its slave.
- *More than one master.* Nothing but a row and its age keeps two apart.

## Modules

| module | models | lines of state |
|---|---|---|
| `JobTable` | the tables and `fflock_utility.py` | `info`, `jobs`: what an INSERT fixes and what UPDATEs change of a Jobs row; `seen`, `busy`, `connected`, `storeSeen`, `volume`; files `downloaded`, `intermediates`; the history `ran` |
| `Slave` | `fflock-slave.py` | `spc`, `batch`, `cur` by slave |
| `Storage` | `fflock-storage.py` and the pool | `tpc`, `tbatch`, `tcur`, `queue`, `task`, `inbox` |
| `Master` | `fflock-master.py` | `mpc`, `mrows`, `mcur`, `plan`, `made`, `orphans`, `restarts` |
| `Cluster` | the farm: the three composed over the tables, properties, inductive invariant, fairness, refinement | |
| `Workflow` | what the farm promises, as an abstract specification | `needs`, `done` |
| `KeyframeSplit` | `find_keyframes` and `split_transcode_job` over the times of one video | `video`, `space`, `slaves`, `pc`, `row`, `keyframes`, `diff`, `parts` |
| `Encoder` | `fflock_encoder.run` and the loop of `run_job` that waits for it, for one transcode job | `job`, `main`, `again`, `thread`, `progress`, `duration`, `process`; the Servers rows `seen` and the orphan the master has found, `orphaned`; the history `late` |
| `MasterElection` | `register_master_server` of several masters | `rows`, `pc` |
| `Handshake` | `calculate_connectivity`, `mount_storage`, `check_nfs_connectivity`, `check_slave_connectivity`, the three removals of `cleanup_tasks` and the orphaned files | `servers`, `storage`, `conn`, `file`, `mounted`, `slave`, `store`, `master`; auxiliary `used`, `read`, `evicted` |
| `Submissions` | `check_xml_submits`, ends and restarts of the storage server | `file`, `times`, `at`, `found`, `current`, `volume`, `stops`, `evictions` |
| `ClusterInvariants` | the inductive invariant of the farm beyond `IInv`, by part, and the conditions of its parts | |
| `ClusterProofs`, `HolderProofs`, `TranscodeProofs` | the theorems about the farm: the workflow; who holds a job; the course of a transcode | |
| `KeyframeSplitProofs`, `EncoderProofs`, `MasterElectionProofs`, `HandshakeProofs`, `SubmissionsProofs` | the theorems about each | |
| `MCCluster`, `MCKeyframeSplit`, `MCHandshake`, `MCSubmissions` | symmetry sets, bounds and small inputs for TLC | |

### How the modules fit together

`JobTable`, `Slave`, `Storage` and `Master` are parts of one specification,
`Cluster`. The other five each open a step that the farm takes as one, or a part
that the farm assumes, and model it by statement:

- `KeyframeSplit` opens `FinishDetectFrames` (a detection finds 1 to n key
  frames) and `Parts`, `PartsPlan` (what the master makes of k of them for n
  slaves). `AgreesWithFarm` states, and is proved to say, that the farm's numbers
  and its exception are those of the two loops.
- `Encoder` opens the run of a transcode job: that its end is either `JobEnds`
  after the encoder ended, an exception, or a wait for ever (a failed thread),
  which the farm shows as a slave that does not step. Around the run it has what
  may take the job away: the batch the job is selected in, in which another job
  may be silent, the removal of the slave, and the selection and the UPDATE of
  the master as two steps.
- `Handshake` opens `MountStorage`, which connects a slave, leaves it
  unconnected, or ends it; and `CleanupTasks`, whose removal of files can end the
  master, as `CrashMaster` does in the farm.
- `Submissions` opens `SubmitXml`, and starts the storage server again.
- `MasterElection` is about the assumption of the farm that one master runs.
  `OneRemains` says when it holds: some time after heartbeats are in time.
  While two masters overlap the farm's properties are not claimed.

How state corresponds to code. A job's uuid is its position in `info`, which
only grows; `DOMAIN jobs` are the rows present. `seen[s]` is the Servers row of
a slave: `none`, or `LastSeen` within the limit (`fresh`) or past it (`old`);
time is the action `Silence`, possible only where the code sends no heartbeat.
`Source[r]` and `Output[r]` are the file names of a request, which others may
have too; `downloaded` and `intermediates` are sets of them.
`busy` is Servers.State, `connected` Connectivity.Connected. `cuts` is the
number of key frames in ResultValue1. `spc`, `tpc`, `mpc` and `task[t].pc` are
the next statement of a process. `plan` is the rest of what `fetch_jobs` has to
do for a row, one SQL statement or `submit_job` an element: a crash can fall
between any two. `ran` is a history variable: the pairs <job, server> of runs
that came to their end. No action reads it.

Actions and code: `RegisterSlave`, `MountStorage`, `FetchDbJobs`,
`CheckDependencies`, `RemoveDependencies`, `ClaimJob` or `SkipJob`, `FinishJob`
or `FinishDetectFrames` are the slave's loop in its order; `RunRaises`,
`ExitSlave` (SIGINT and `unload`) and `CrashSlave` end it. `RegisterStorage`,
`SubmitXml`, `FetchStorageJobs`, `CheckStorageDependencies`,
`RemoveStorageDependencies`, `AddTask` are the storage server's main loop;
`TakeTask`, `FinishTask`, `TaskRaises`, `RemoveSource`, `RemoveIntermediates`,
`DeleteMasterJob`, `DeleteCleanupJob` its threads. `FetchJobs`, `TakeRow`, then
an action per element of `plan`, then `CleanupTasks` and a `ReassignOrphan` for
each orphan are the master's loop. `map` in `PROJECT.json` gives the lines of
each.

### Grain

Each SQL statement is one step, visible to all at once, as on a table without
transactions: the schema names no engine, and most statements are never followed
by a commit. These sequences of statements are one step, because what lies
between them is read-only or touches rows nobody else writes in that state:

- the SELECTs of `check_dependencies`; the DELETEs of `remove_dependency_jobs`;
- the choice of a server and the INSERT in `submit_job`;
- the SELECTs before a claim and its two UPDATEs (`ClaimJob`);
- the last statement of `run_job` and the two UPDATEs after it (`JobEnds`);
- `register_storage_server` and `register_storage_volume`;
  `calculate_connectivity` and `mount_storage`, whose handshake may fail;
- the three removals of `cleanup_tasks` and the two SELECTs of
  `reassign_orphaned_jobs`; for a transcode in State 1, the SELECT of its
  children with the choice of the row.

Row order is not fixed: the loops take their selected rows in any order, which
covers every order MySQL may return.

### Assumptions about the environment

In the farm:

- One storage server with one volume, one master at a time. The master may be
  started again (`MasterRestarts`), a slave or storage server that ended is a
  new uuid and so a new member of `Slaves`, or is not started again.
- `Prompt`: a thread takes a queued task before the main loop selects jobs
  again. The code does nothing to ensure it, and without it a job is queued
  twice (a finding). It is a bound on some runs, to keep them small, and no
  theorem assumes it; `full_transcode` and `late_slave` check safety without it.
- An output name followed by `_` is not the beginning of another one, so that
  the pattern `<output>_*` finds the files of that output only; requests with
  equal names share them. What the encoder makes of an input that another
  transcode's cleanup has removed is a fault of its job or none (`Faulty`).
- `Slow`: the kinds of job that may outlast the limit of the heartbeat.
  `Faulty`: the kinds whose external command or transfer may raise.
  `EvenKeyframes`: there is a key frame in each share of the video. A
  theorem that needs a condition on one of them has it as a hypothesis.

In the other modules:

- `KeyframeSplit`: frames come in the order of their times, all before the
  duration; times are multiples of a microsecond, so that the rounding of the
  code is exact.
- `Encoder`: the output of a process ends when the process does. Lines of output
  are durations and positions. A slave of `Laggards` misses heartbeats once,
  between the selection of the job and its start, when it runs other jobs of the
  batch; busy and connected, which turn the job away in the farm, are not asked.
- `Handshake`: one directory; pings answer; a mount may fail; writing the few
  bytes of a file is one step. A loop over selected rows or listed files is taken
  row by row, each from a fresh selection: later rows of the same list are rows
  of a later pass. What the code does with a row that was selected and is gone is
  in the model for the one row a process is at.
- `MasterElection`: one clock; rows are returned in the order of their primary
  key. `Silence` of a running master is possible only in `Slow` and only outside
  `register_master_server`.
- `Submissions`: outputs are paths on the volume, so that `ensure_dir` asks for
  it. The order of `glob` is any.

## Properties and what checks them

Safety, in `Cluster`:

- `DependenciesDone`: no process takes a job on before all its dependencies have
  been run once.
- `NothingLost`: a vanished row, other than a transcode's, was run.
- `FinishedByAssignee`: a row in State 2 was run by the server it is assigned
  to.
- `FinishedMeansComplete`: a transcode in State 2 was muxed, counted twice,
  uploaded, as asked.
- `CleanupComesLast`: files and row of a transcode go only after all its
  children were run.
- `OneRunner`: a job runs on one slave, the assigned one.
- `TakenFromEnded`, an action property: a job is taken from a slave, and its State
  set back, only when the slave has ended.
- `CleanupJobDeleted`: a cleanup job that was started is in its thread or gone from
  the table, unless another cleanup with the same source or output came, or the
  volume was registered anew.
- The code does not keep a storage job from being queued twice, nor a job from
  running again while a dependent runs, nor `OneRunner` when a detection outlasts
  the limit: these are findings, and no property promises them.

Refinement: `ImplementsWorkflow`. With `needs` the dependencies in `info` and
`done` the jobs in `ran`, each step of the farm creates a job after those it
needs, completes one whose needs are complete, or changes neither.

Liveness, under `FairSpec`: `RequestServed`, `OrphansReassigned`.

In the other modules:

- `NoFrameTwice`, `EveryFrameKept`, `LostFromTheEndOnly`: which frames the parts
  hold. None is repeated; none is lost if there is a second key frame and no
  fewer slaves than key frames at the split; with fewer, the video ends at a key
  frame. `AgreesWithFarm` as above.
- `FinishedMeansEnded`: State 2 is not set before the encoder ended, although the
  progress it goes by may be 100 earlier. `OnlyStrayWriters`: a process that
  writes a part for a slave that does not have the job, or after the job is
  finished, belongs to a slave that has ended or had missed heartbeats in another
  job. `WaitEnds`, `FinishedOrStuck`: a wait or a job hangs only on a failed
  encoder thread, or on the end of every slave.
- `OneRowEach`, `SomeoneStays`, `OneRemains`, `SurvivorRegistered`: one
  registration for each master, not all refuse, and in the end one master, the
  one at the head of the table.
- `ConnectedMeansRead`: Connected = 1 only after the storage server of this
  volume read the file of this slave. `SlaveRaises`, `MasterRaises`: what must
  have happened before a missing file ends a slave or the master.
- `RemovedMeansSubmitted`, `RepeatsForEnds`: no job goes with its file, and an
  end of the server repeats the jobs of one file at most. `FilesTakenIn`: each
  file with a job is taken in.

Passing runs. The first five are one transcode each (`Requests = {r1}`).

| run | instance | properties | states |
|---|---|---|---|
| `full_transcode` | download, counts, upload; 2 threads, 2 cleanups; not `Prompt` | `TypeOK`, `FinishedMeansComplete`, `CleanupComesLast`, `CleanupJobDeleted` | 493,000 |
| `slave_crash` | 2 slaves, one mortal; slow transcodes, 1 or 2 key frames; fairness of the master and of time | `DependenciesDone`, `NothingLost`, `FinishedMeansComplete`, `OneRunner`, `TakenFromEnded`, `OrphansReassigned` | 701,000 |
| `master_restart` | the master crashes anywhere once; ffprobe, encoder and transfers may fail | `CleanupComesLast`, `ImplementsWorkflow` | 124,000 |
| `late_slave` | no slave at first; SIGINT; silent in *detect frames* and *write mergefile*; the storage server is blocked behind *video merge*, silent, removed and back with a new volume; not `Prompt` | `FinishedByAssignee`, `IInv` | 550,000 |
| `served` | fairness, counts and upload; the slave may crash | `RequestServed` | 45,000 |
| `shared_source` | two transcodes of one URL, the second submitted when the first is finished, one cleanup each | `FarmInv`, `CleanupJobDeleted` | 165,000 |
| `keyframes` | every video of up to 7 frames within 7 units of time, any of them key frames; 0 to 4 slaves at each count; both kinds of encoder | `TypeOK`, `NoFrameTwice`, `EveryFrameKept`, `LostFromTheEndOnly`, `AgreesWithFarm` | 302,000 |
| `election` | 4 masters, 2 may crash, 2 be stopped, 2 miss heartbeats; fairness | `TypeOK`, `OneRowEach`, `SomeoneStays`, `OneRemains`, `SurvivorRegistered` | 128,000 |
| `encoding` | 2 slaves, one mortal, one that misses heartbeats in another job; durations 0 and 2.50 s, positions below, at (1.60 s counts as 7), beyond; fairness | `TypeOK`, `FinishedMeansEnded`, `OnlyStrayWriters`, `WaitEnds`, `FinishedOrStuck` | 157,000 |
| `connecting` | 2 slaves, 2 volumes; slaves crash, come back, the storage server is restarted or loses its volume while it runs | `TypeOK`, `ConnectedMeansRead`, `SlaveRaises`, `MasterRaises` | 744,000 |
| `submitting` | files with two transcodes, one beside another job, none; 2 ends, 1 removal of the volume; fairness | `TypeOK`, `RemovedMeansSubmitted`, `RepeatsForEnds`, `FilesTakenIn` | 13,000 |

`FarmInv` (see "What is proved") is checked by `shared_source`, where two transcodes
share a file and the conditions of all its parts hold; its part about slaves that
compete, `HeldInv`, is what `OneRunner` and `TakenFromEnded` of `slave_crash` follow
from. Before it was proved it was checked on the other instances of the farm too. It
costs more than the rest of a run and is left out of the large ones.

Each property of each run has a mutant of the code it would catch; the mutants
stand before the definitions they change.

One run finds a violation of what the code says of itself: `restart_loses_work`. The
master ends after setting State 1 (or after deleting the detection); the next one
sees no unfinished child and calls the transcode finished.

`findings` lists it with the others, which were met while modelling and which the
models avoid by a bound, a condition or an assumption named here:

- a detection of over 60 seconds sends no heartbeat, and two slaves run the job
  (`Slow` of `slave_crash` leaves it out);
- a finished job of a slave that has ended is set to State 0, and runs again while a
  job that waited for it runs (no property excludes it);
- a storage job that waits in the queue is selected and queued again, against "if
  this server is not busy" (`Prompt`, where a run assumes it);
- the second cleanup of a download, be it of the same transcode or of another one
  of the same URL, raises and keeps State 1 (`CleanupJobDeleted` names it);
- two slaves and one key frame: IndexError in the master (`AgreesWithFarm` and
  `Raise` name it);
- fewer slaves at the split than at the detection: the end of the video is never
  transcoded and the transcode is reported finished (`LostFromTheEndOnly` says which
  part is lost, `EveryFrameKept` has a condition);
- one slave: the only part is encoded with `-t 0` (`EveryFrameKept` asks for a
  second key frame);
- SIGINT of the storage server fails at a malformed DELETE and leaves its rows;
- a merge file that is written again is appended to;
- the text of a merge file and lists of key frames do not fit their columns.

### Bounds

One transcode per run is enough for most of the properties above, which relate a
job to its own dependencies, children and owner. Requests meet in the load of a
server and in the queue, which two jobs of one transcode already share, and in
the files: transcodes of one URL share the download, those of one output name the
intermediate files. `shared_source` is about the former; two of one output meet in
`RemoveIntermediates` as two cleanups of one transcode do in `full_transcode`, and
the theorem about `CleanupJobDeleted` is about any sharing. `OneAfterAnother` submits
the second transcode when the first is finished, so that its cleanup, which may
still be to come, meets every state of the second one.

Two slaves are enough for a reassignment and for a split into more than one part.
One thread with a queue of one is full when a task waits, which with the two
merge and mux jobs of a transcode happens; two threads are needed to run two
cleanups at once. `MaxCleanups` stops the model where the master would go on
submitting; two of them race, and a third meets what the second met. One restart
of the master follows a crash at each statement, and a crash later than that is
a crash of the same program from a state it could have reached. No run of the
farm, nor `encoding` or `submitting`, deadlocks: one main loop always goes on. The
other runs say `CHECK_DEADLOCK FALSE`, because their system may really stop: a video
is split once, all masters may have ended, and in `connecting` every program may
have ended and no volume be left to start another with.

`Videos` of `keyframes` has every pattern of key frames that 4 slaves can tell
apart, with 0 to 3 more, and gaps between frames. Four masters are two that
overlap, one that takes over, and one that starts later. Two slaves at one job
let it be reassigned once; a second time meets a third slave as the second met
the first. A laggard misses its heartbeats once, which is enough to lose the job and
come to it all the same. `MaxUuids` bounds volumes and slaves that have registered
to three together: two slaves with one volume, or one slave with two; the theorems
have no such bound. `MaxStops` and `MaxEvictions` end a storage server three times
among three files, more often than a file has jobs.

What the bounds leave out is the reason for the theorems, which hold for any
number of all of these.

### Fairness

Weak fairness on each slave's loop, on the storage server's loop, on each
thread, on the master with its restarts, and on the clock for a process that has
ended. Each is a thread or process of its own that blocks only on what the model
shows (a full queue, an idle pool), so a step that stays possible is taken.
`slave_crash` assumes only `MasterFairness`, the master and the clock for an ended slave:
nobody else has to step for the jobs to be given away. Nothing is assumed of
crashes, signals or of the clock for a process that still runs. `SubmitXml` is not
fair: nobody has to ask for a transcode.

`MasterElection`: weak fairness on each master's loop and on the clock for one
that has ended; `OneRemains` and `SurvivorRegistered` have a condition, that
heartbeats are in time from some moment on, because two masters that both miss
them take over from each other for ever. `Encoder`: weak fairness on slaves,
threads, the end of the encoder process (an encoder that never ends is no fault
of this code), the clock for an ended slave, and the master's removals, selections
and UPDATEs; a thread need not read a line before it drains the rest. `Submissions`: the main loop goes on, and
somebody starts the storage server again; `FilesTakenIn` has a condition, that no
file stays half written.

`RequestServed` is checked with `Prompt` and promises nothing once a slave has
ended, because otherwise it is not true of the code: a row queued twice, or a
finished job of a dead slave that is reset between check and delete, may be
purged under a process that then subscripts `None` in `remove_dependency_jobs`
and ends.

## What is proved

### The farm

`ClusterProofs` proves, for all constants that satisfy the named assumptions
(`Slaves` finite, `StorageServer` and `Nobody` no slaves, the subset and type
conditions):

| theorem | states |
|---|---|
| `Invariant` | `Spec => []IInv` |
| `TypeCorrect` | `Spec => []TypeOK` |
| `DependenciesAreDone` | `Spec => []DependenciesDone` |
| `NoWorkLost` | `Spec => []NothingLost` |
| `FinishedWasRun` | `Spec => []FinishedByAssignee` |
| `Implementation` | `Spec => ImplementsWorkflow` |

They hold with any number of slaves, requests, threads and restarts, any crash,
silence or failure, and without `Prompt`.

The argument. `DependenciesDone` alone is not inductive: a check passes when a
row is missing, so a missing row has to mean a run (`NothingLost`); rows go
because they are in State 2, so State 2 has to mean a run
(`FinishedByAssignee`), even after a reassignment, which resets the state
together with the server; rows also go because a dependent was admitted, so what
is admitted stays admitted with its dependencies done while it moves from the
batch to the queue to a thread (`SlaveInv`, `StorageInv`); and because the
master acts on a detection it saw finished, so what it still means to do must
fit the row (`MasterInv`). `DoneClosed` says runs are closed under dependencies,
`KindsOK` that dependencies are earlier jobs and never transcodes, so that
deleting a transcode's row hurts nobody. `IInv` is their conjunction, checked by
`late_slave` before it was proved.

The proof is laid out along the program. Lemmas about the table (`TableUpdated`,
`TableRunEnds`, `TableSubmit`, `TableDelete`, ...) say which statements keep
`TableInv` and that what was done stays done (`Grows`); `SlaveStable`,
`StorageStable`, `MasterStable` say that each process keeps its part while
others step and runs only grow; `SlavePreserves`, `StorageLoopPreserves`,
`ThreadPreserves`, `MasterPreserves` have one step for each action. `StepKinds`
classifies the steps for the refinement.

### Who holds a job, and the course of a transcode

`HolderProofs` and `TranscodeProofs` prove what the farm promises beyond the order
of the workflow. `FarmInvariant` is the one induction behind them, over `FarmInv`
of `ClusterInvariants`: every part holds in all reachable states, those with a
condition where it holds.

| theorem | states | under |
|---|---|---|
| `HolderProofs!JobsFitServers` | `Spec => []AssignInv` | |
| `HolderProofs!OneSlaveRuns` | `[]OneRunner` | `SlowWorkBeats` |
| `HolderProofs!JobsStayWithSlaves` | `TakenFromEnded` | `SlowWorkBeats` |
| `TranscodeProofs!CleanupIsLast` | `Spec => []CleanupComesLast` | |
| `TranscodeProofs!FinishedIsComplete` | `Spec => [](restarts = 0 => FinishedMeansComplete)` | |
| `TranscodeProofs!CleanupsAreDeleted` | `[]CleanupJobDeleted` | `DownloadsSucceed` |
| `TranscodeProofs!FarmInvariant` | `Spec => []FarmInv` | |

The conditions are where the code has no guard, and each has its finding or its
run:

- `SlowWorkBeats`: a job that may outlast the 60 seconds is of a kind that sends
  heartbeats while it runs, all but *detect frames* and *write mergefile*.
  Without it two slaves run a detection (finding at `fflock-slave.py:268`).
  Crashes and stops of slaves are not excluded.
- `restarts = 0`: no master that ended was started again so far. After a restart
  `restart_loses_work` finds the violation. The master may end anywhere before,
  and the theorem speaks about every behaviour up to the first restart.
- `DownloadsSucceed`: a failed download leaves no source, and the cleanup that
  wants to remove it raises. The other two ways to raise, a cleanup that shares a
  file and a volume registered anew, are excuses in `CleanupJobDeleted` itself,
  because they depend on the state; the storage server may crash or be silent.

The argument, part by part:

- *Assignment.* `AssignInv`: rows name servers of the kind their subtype asks
  for, servers select rows of their kind, and only slave jobs are orphans.
  Everything below uses it: it keeps slaves, threads and master out of each
  other's rows.
- *The end of a transcode.* `CleanupComesLast` is not inductive: whether
  an UPDATE to State 2 closes the transcode for good depends on what the master
  has still to submit. `PlanInv` lists the rests of plans there can be, for rows
  of which kind, and that no row of a selection occurs twice. `CloseInv` says that
  a finished transcode is `Closed` (each child was run, no detection is listed),
  that cleanups exist for finished ones only, and that nothing the master holds
  can reopen one: the States it selected are still true, and a detection it is at
  belongs to an unfinished transcode. A restart forgets a plan and selects afresh,
  which is why the theorem needs no condition.
- *All parts.* That a closed transcode is also complete takes a count. `StageInv`
  follows each transcode from State 0 (no children), over its one detection, to
  the plan of its parts: what it asks for and what the plan has left add up
  (`Promised`) until nothing is left (`Full`), and an unfinished transcode is full,
  has its detection, or is the one in the plan. This last disjunct is what a
  master that ends breaks and the next one does not mend. `RequestInv` makes children ask for what
  their transcode asks for.
- *Removal of files.* `CleanupInv` says of a cleanup that shares its files with no
  other (`Sole`) that the files it comes to are there until it has removed them
  itself, and that once in State 1 it stays in its thread until its row is gone: so
  `job_cleanup` never raises. The source is there because the download was run: it
  was submitted before State 1 (`DownloadInv`), the transcode is closed (`CloseInv`),
  and what was downloaded stays until a cleanup with that source comes, whichever
  request it is of.
- *Holders.* `HeldInv`: a slave that runs is never taken for gone, so every row
  it has selected, is at, or runs names it and is not finished, and no orphan names
  a slave that has not ended; two slaves therefore hold different jobs, and neither
  a `ReassignOrphan` nor an UPDATE of another slave changes one (`TakenFromEnded`).

The proofs go by lemmas about statements (`Added` for an INSERT, `Passive` for a
step that touches neither transcodes nor detections, `TailLeft` for the counting of a plan)
and by process, as those of `ClusterProofs`.

### The parts

| theorem | states |
|---|---|
| `KeyframeSplitProofs!SplitTypeCorrect` | `Spec => []TypeOK` |
| `KeyframeSplitProofs!SplitAgreesWithFarm` | `Spec => []AgreesWithFarm` |
| `KeyframeSplitProofs!PartsDisjoint` | `Spec => []NoFrameTwice` |
| `KeyframeSplitProofs!PartsCover` | `Spec => []EveryFrameKept` |
| `KeyframeSplitProofs!EndsAtKeyframe` | `Spec => []LostFromTheEndOnly` |
| `EncoderProofs!EncoderTypeCorrect` | `Spec => []TypeOK` |
| `EncoderProofs!FinishedAfterEncoder` | `Spec => []FinishedMeansEnded` |
| `EncoderProofs!StrayWriters` | `Spec => []OnlyStrayWriters` |
| `MasterElectionProofs!ElectionTypeCorrect` | `Spec => []TypeOK` |
| `MasterElectionProofs!OneRegistration` | `Spec => []OneRowEach` |
| `MasterElectionProofs!SomeoneStaysAlive` | `Spec => []SomeoneStays` |
| `HandshakeProofs!HandshakeTypeCorrect` | `Spec => []TypeOK` |
| `HandshakeProofs!ConnectedWasRead` | `Spec => []ConnectedMeansRead` |
| `HandshakeProofs!SlaveRaisesOnlyIfDisturbed` | `Spec => []SlaveRaises` |
| `HandshakeProofs!MasterRaisesOnlyIf` | `Spec => []MasterRaises` |
| `SubmissionsProofs!SubmissionsTypeCorrect` | `Spec => []TypeOK` |
| `SubmissionsProofs!RemovedWereSubmitted` | `Spec => []RemovedMeansSubmitted` |
| `SubmissionsProofs!RepeatsHaveEnds` | `Spec => []RepeatsForEnds` |

For any videos, slaves, masters, volumes, files, jobs, restarts and faults that
satisfy the assumption named in each module.

- *Key frames.* `KeyframesInv` says that the chosen times ascend and that k of
  them have spanned k - 1 shares of the duration: with more key frames than
  slaves the last one would lie past the end (`KeyframesPerSlave`). `SharesInv`
  says that every frame lies between one key frame and the next, and that the
  length of a part, for either kind of encoder, ends it with exactly its share;
  as shares are disjoint and cover the frames, so are and do the parts.
- *Encoder.* The invariant says what each statement of `run_job` knows of the
  thread: past `getReturnCode`, which raises before the thread is done, the
  process has ended (`ThreadInv`); that a finished job was finished by the slave it
  is assigned to (`FinishInv`); and that a slave which has neither ended nor missed
  heartbeats is registered, is not the one a pending reassignment is about, and has
  the job from its selection to its end (`HolderInv`), however the SELECTs and the
  UPDATE of the master fall between its statements.
- *Masters.* Who has not registered has no row, and whoever is at the head of
  the table runs, unless one crashed or was stopped: this is what a master that
  refuses has seen.
- *Handshake.* `Confirmed` carries what the storage server has read from its read
  through the confirmation file to the slave's UPDATE. `RaisesInv` says that the
  master is at a file to remove only for a slave it has removed or beside a
  second volume, and that each file a slave is about to open or remove is there,
  or something named in `Disturbed` has happened, which stays so.
- *Submissions.* `SubmittedBefore`: the jobs before the place in the file are
  submitted, and stay so. `RepeatsInv` keeps an account: a round of submissions
  of a file that came to an end with the server (`Ended`) has a stop or a removal
  of the volume of its own, and a server without its volume has one more to its
  credit (`Doomed`). A first job of a file starts a new round, a later one belongs
  to it because the jobs passed are one round ahead (`InOrder`).

### Only model-checked

Liveness: `RequestServed`, `OrphansReassigned`, `OneRemains`, `SurvivorRegistered`,
`WaitEnds`, `FinishedOrStuck` and `FilesTakenIn` rest on fairness and ENABLED, which
the prover does not handle. Every invariant and action property
of a passing run, and the refinement, is a theorem.

## Not modelled

- Where the farm takes a step that another module opens, the two are linked by
  the properties named above and by reading, not by a refinement: `Encoder` and
  `Handshake` keep time and rows in other ways than `Cluster` does.
- Several rows of one selection in `Handshake` (see the assumptions), and the
  latency and address of a volume that cannot be pinged, which
  `calculate_connectivity` takes over from the row before (an exception in the
  first row, as `iptype` is then unset).
- The frame counts on the transcode's row, which the master only prints;
  Progress and the time columns; widths of columns.
- The split of the encoder's output into lines.
- Transfers, command lines, configuration, latency: I/O whose outcome is a
  choice.
- `web2py/` and `fflock-admin.py`: a vendored framework, status pages that read
  the tables, and `my_upload` (`controllers/default.py:171`), which stores a file on
  the volume and inserts a row of a table of its own. A job XML that arrives this way
  is `SubmitXml` in the farm and `WriteFile` in `Submissions`. They are some 110,000 lines; the programs modelled here
  are 2,300.

## Plan

1. Done: the tables, slave, storage server, master, the farm, the workflow, the
   inductive invariant and its theorems.
2. Done: key frames and parts, the encoder, masters, the handshake, submissions,
   with their invariants and theorems.
3. Done: the invariant of the farm, and with it `CleanupComesLast`,
   `FinishedMeansComplete`, `CleanupJobDeleted` with shared files, `OneRunner` and
   `TakenFromEnded`; the account of repeated submissions.
4. Proofs: who may hold a job without `SlowWorkBeats`; that a detection which two
   slaves run is still split once.
5. Refinement of the farm's `MountStorage` by `Handshake` for one slave and one
   volume, and of the run of a transcode by `Encoder`.
