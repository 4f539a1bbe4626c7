------------------------------ MODULE JobTable ------------------------------
(***************************************************************************)
(* The shared state of an fflock farm: the MySQL tables Jobs, Servers,     *)
(* Storage and Connectivity and the files of the NFS volume, with the      *)
(* operations of modules/fflock_utility.py that every process uses.        *)
(*                                                                         *)
(* Each SQL statement is one atomic step, seen by everyone at once.  Job   *)
(* uuids are the positions of the sequence info.                           *)
(***************************************************************************)
EXTENDS Naturals, FiniteSets, Sequences

CONSTANTS
  Slaves,         \* slave servers (one uuid per process start)
  StorageServer,  \* the uuid of the storage server
  Nobody,         \* the empty AssignedServerUUID
  Requests,       \* transcodes a user may ask for
  Download,       \* the requests whose input is an external URL
  Upload,         \* the requests whose output is an external URL
  Source,         \* by request: the file name at the end of the input's URL
  Output,         \* by request: the file name of the output
  Confirm,        \* the requests with the option confirm_framecount
  Slow,           \* subtypes that may run longer than the stale limits
  Faulty,         \* subtypes whose external work may fail
  EvenKeyframes   \* every share of a video has a key frame to start at

\* Subtypes are named as in the source, with _ for a space; "av_mux" is its
\* "a/v mux", and "download" and "upload" stand for the http, ftp and s3 ones.
SlaveSubTypes ==
  {"detect_frames", "audio_demux", "transcode", "write_mergefile",
   "count_frames"}
StorageSubTypes == {"download", "video_merge", "av_mux", "upload", "cleanup"}
ChildSubTypes == SlaveSubTypes \cup StorageSubTypes
SubTypes == ChildSubTypes \cup {"master"}

Servers == Slaves \cup {StorageServer}

ASSUME SlavesAssumption ==
  /\ IsFiniteSet(Slaves)
  /\ StorageServer \notin Slaves
  /\ Nobody \notin Servers
ASSUME RequestsAssumption ==
  /\ Download \subseteq Requests /\ Upload \subseteq Requests
  /\ Confirm \subseteq Requests
  /\ DOMAIN Source = Requests /\ DOMAIN Output = Requests
ASSUME SubTypesAssumption ==
  Slow \subseteq ChildSubTypes /\ Faulty \subseteq ChildSubTypes
ASSUME KeyframesAssumption == EvenKeyframes \in BOOLEAN

VARIABLES
  info,          \* the columns of Jobs an INSERT fixes, kept after a DELETE
  jobs,          \* the rows of Jobs now present: the columns that change
  seen,          \* the Servers row of each slave: none, or how old LastSeen is
  busy,          \* the slaves whose Servers row has State = 1
  connected,     \* the slaves with Connected = 1 for the current volume
  storeSeen,     \* the Servers row of the storage server, as seen
  volume,        \* the number of the latest volume in Storage
  downloaded,    \* the downloaded source files that exist
  intermediates, \* the outputs with intermediate files on the volume
  ran            \* history: <<job, server>> pairs, the runs that ended

tableVars == <<info, jobs>>
serverVars == <<seen, busy, connected, storeSeen, volume>>
fileVars == <<downloaded, intermediates>>

Born == DOMAIN info
Present == DOMAIN jobs
Done == {i \in Born : \E s \in Servers : <<i, s>> \in ran}

JobInfo == [sub : SubTypes, req : Requests, master : Nat, deps : SUBSET Nat,
            vol : Nat]
JobRow == [state : 0 .. 2, server : Servers \cup {Nobody}, cuts : Nat]
Seen == {"none", "fresh", "old"}

TableTypeOK ==
  /\ info \in Seq(JobInfo)
  /\ Present \subseteq Born
  /\ jobs \in [Present -> JobRow]
  /\ ran \subseteq Born \X Servers
ServersTypeOK ==
  /\ seen \in [Slaves -> Seen]
  /\ busy \subseteq Slaves
  /\ connected \subseteq Slaves
  /\ storeSeen \in Seen
  /\ volume \in Nat
FilesTypeOK ==
  /\ downloaded \subseteq {Source[r] : r \in Requests}
  /\ intermediates \subseteq {Output[r] : r \in Requests}

TableInit ==
  /\ info = <<>>
  /\ jobs = [i \in {} |-> {}]
  /\ downloaded = {}
  /\ intermediates = {}
  /\ ran = {}

----------------------------------------------------------------------------
(* SQL on the Jobs table. *)

\* DELETE FROM Jobs WHERE UUID IN D
Without(D) == [i \in Present \ D |-> jobs[i]]

\* UPDATE Jobs SET State = st WHERE UUID = i
WithState(i, st) ==
  [j \in Present |-> IF j = i THEN [jobs[j] EXCEPT !.state = st] ELSE jobs[j]]

\* the same with AND AssignedServerUUID = s
WithStateOf(i, s, st) ==
  [j \in Present |-> IF j = i /\ jobs[j].server = s
                       THEN [jobs[j] EXCEPT !.state = st] ELSE jobs[j]]

\* SELECT ... WHERE AssignedServerUUID = s AND Assigned = 1 AND State = 0
WaitingFor(s) == {i \in Present : jobs[i].server = s /\ jobs[i].state = 0}

Children(m) == {i \in Present : info[i].master = m}
Owner(i) == IF info[i].sub = "master" THEN i ELSE info[i].master

----------------------------------------------------------------------------
(* modules/fflock_utility.py *)

RegisteredSlaves == {s \in Slaves : seen[s] # "none"}
StorageRegistered == storeSeen # "none"

\* number_of_registered_slaves
NumberOfRegisteredSlaves == Cardinality(RegisteredSlaves)

\* find_storage_UUID_for_job: 0 is the empty uuid
FindStorageForJob == IF StorageRegistered THEN volume ELSE 0

\* get_storage_nfs_folder_path raises a TypeError for an unknown volume
VolumeKnown(i) == StorageRegistered /\ info[i].vol = volume

\* find_server_for_slave_job: a registered slave with the fewest job rows,
\* whatever their State; which one of several depends on the row order
Load(s) == Cardinality({i \in Present : jobs[i].server = s})
FindServerForSlaveJob ==
  IF RegisteredSlaves = {} THEN {Nobody}
  ELSE {s \in RegisteredSlaves : \A x \in RegisteredSlaves : Load(s) <= Load(x)}

\* find_server_for_storage_job, with the one storage server of the farm
FindServerForStorageJob ==
  IF StorageRegistered THEN {StorageServer} ELSE {Nobody}

ServersFor(sub) ==
  IF sub \in SlaveSubTypes THEN FindServerForSlaveJob
  ELSE IF sub \in StorageSubTypes THEN FindServerForStorageJob
  ELSE {Nobody}

\* submit_job
SubmitJob(sub, r, m, deps) ==
  \E s \in ServersFor(sub) :
    /\ info' = Append(info, [sub |-> sub, req |-> r, master |-> m,
                             deps |-> deps, vol |-> FindStorageForJob])
    /\ jobs' = [i \in Present \cup {Len(info) + 1} |->
                  IF i \in Present THEN jobs[i]
                  ELSE [state |-> 0, server |-> s, cuts |-> 0]]

\* Mutant of DependenciesCleared: a dependency that has started will do.
DependenciesStarted(i) ==
  i \in Present =>
    \A d \in info[i].deps \cap Present : jobs[d].state # 0

\* check_dependencies: a dependency without a row counts as finished, and so
\* does everything when the job itself has no row any more
DependenciesCleared(i) ==
  i \in Present =>
    \A d \in info[i].deps \cap Present : jobs[d].state = 2

\* remove_dependency_jobs, for a job whose own row is present
RemoveDependencyJobs(i) == jobs' = Without(info[i].deps)
=============================================================================
