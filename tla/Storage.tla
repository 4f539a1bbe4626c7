------------------------------- MODULE Storage -------------------------------
(***************************************************************************)
(* fflock-storage.py: the main loop of the storage server submits the XML  *)
(* files users drop on the volume, selects its jobs and hands them to a    *)
(* pool of threads (modules/fflock_threadpool.py), which run them.         *)
(***************************************************************************)
EXTENDS JobTable

CONSTANTS
  Threads,        \* the threads of the pool; its queue holds as many tasks
  StorageMortal,  \* the storage server may crash
  Prompt          \* the pool takes its tasks before the next SELECT for jobs

ASSUME StorageAssumption == StorageMortal \in BOOLEAN /\ Prompt \in BOOLEAN

VARIABLES
  tpc,     \* the statement the main loop is at
  tbatch,  \* the selected rows its loop has still to visit
  tcur,    \* the job it is at (0 when it is at none)
  queue,   \* the tasks waiting in the pool
  task,    \* what each thread is doing: the statement and the job
  inbox    \* the requests whose XML file has not been submitted

storageVars == <<tpc, tbatch, tcur, queue, task, inbox>>

StoragePCs == {"loop", "xml", "rows", "remove", "put", "dead"}
TaskPCs == {"idle", "run", "unlink", "master", "row"}
Idle == [pc |-> "idle", job |-> 0]

StorageTypeOK ==
  /\ tpc \in StoragePCs
  /\ tbatch \subseteq Born
  /\ tcur \in Born \cup {0}
  /\ queue \in Seq(Born)
  /\ task \in [Threads -> [pc : TaskPCs, job : Born \cup {0}]]
  /\ inbox \subseteq Requests

StorageInit ==
  /\ tpc = "loop"
  /\ tbatch = {}
  /\ tcur = 0
  /\ queue = <<>>
  /\ task = [t \in Threads |-> Idle]
  /\ inbox = Requests

\* register_storage_server, register_storage_volume: a server that is not in
\* the tables any more registers its volume under a new uuid
RegisterStorage ==
  /\ tpc = "loop"
  /\ storeSeen' = "fresh"
  /\ volume' = IF StorageRegistered THEN volume ELSE volume + 1
  /\ tpc' = "xml"
  /\ UNCHANGED <<tableVars, seen, busy, connected, fileVars, ran,
                 tbatch, tcur, queue, task, inbox>>

\* check_xml_submits, for one file with one job; the file is then removed
SubmitXml(r) ==
  /\ tpc = "xml"
  /\ r \in inbox
  /\ SubmitJob("master", r, 0, {})
  /\ inbox' = inbox \ {r}
  /\ UNCHANGED <<serverVars, fileVars, ran, tpc, tbatch, tcur, queue, task>>

NextStorageRow(rest) ==
  /\ tpc' = IF rest = {} THEN "loop" ELSE "rows"
  /\ tcur' = 0

\* the process ends, with its threads, which are daemons
StorageDies ==
  /\ tpc' = "dead"
  /\ tbatch' = {}
  /\ tcur' = 0
  /\ queue' = <<>>
  /\ task' = [t \in Threads |-> Idle]

\* check_xml_submits has returned: the files not submitted had not arrived yet.
\* With Prompt the main loop is slower than the pool; the code does not see to
\* that, it only holds while a thread is idle and quick.
FetchStorageJobs ==
  /\ tpc = "xml"
  /\ Prompt => queue = <<>>
  /\ tbatch' = WaitingFor(StorageServer)
  /\ NextStorageRow(tbatch')
  /\ UNCHANGED <<tableVars, serverVars, fileVars, ran, queue, task, inbox>>

CheckStorageDependencies ==
  /\ tpc = "rows"
  /\ \E i \in tbatch :
       /\ tbatch' = tbatch \ {i}
       /\ \/ /\ DependenciesCleared(i)
             /\ tcur' = i
             /\ tpc' = "remove"
          \/ /\ ~DependenciesCleared(i)
             /\ NextStorageRow(tbatch')
  /\ UNCHANGED <<tableVars, serverVars, fileVars, ran, queue, task, inbox>>

\* A missing row, a missing Servers row and a missing volume are subscripts of
\* None, which end the process.  (Servers.State is only ever 0 or 1, so the
\* test State < 10 that follows never turns a job away.)
RemoveStorageDependencies ==
  /\ tpc = "remove"
  /\ IF tcur \in Present THEN RemoveDependencyJobs(tcur) ELSE UNCHANGED jobs
  /\ \/ /\ tcur \in Present /\ VolumeKnown(tcur)
        /\ tpc' = "put"
        /\ UNCHANGED <<tbatch, tcur, queue, task>>
     \/ /\ ~(tcur \in Present /\ VolumeKnown(tcur))
        /\ StorageDies
  /\ UNCHANGED <<info, serverVars, fileVars, ran, inbox>>

QueueFull == Len(queue) >= Cardinality(Threads)

\* ThreadPool.add_task blocks while the queue is full.  The row keeps State 0.
AddTask ==
  /\ tpc = "put"
  /\ ~QueueFull
  /\ queue' = Append(queue, tcur)
  /\ NextStorageRow(tbatch)
  /\ UNCHANGED <<tableVars, serverVars, fileVars, ran, tbatch, task, inbox>>

----------------------------------------------------------------------------
(* The threads: Worker.run and run_job. *)

SubOf(t) == info[task[t].job].sub
MasterOf(t) == info[task[t].job].master
RequestOf(t) == info[task[t].job].req
SourceOf(t) == Source[RequestOf(t)]
OutputOf(t) == Output[RequestOf(t)]
GoTo(t, pc) == task' = [task EXCEPT ![t].pc = pc]
Leave(t) == task' = [task EXCEPT ![t] = Idle]

TakeTask(t) ==
  /\ task[t].pc = "idle"
  /\ queue # <<>>
  /\ queue' = Tail(queue)
  /\ task' = [task EXCEPT ![t] = [pc |-> "run", job |-> Head(queue)]]
  /\ jobs' = WithStateOf(Head(queue), StorageServer, 1)
  /\ UNCHANGED <<info, serverVars, fileVars, ran, tpc, tbatch, tcur, inbox>>

\* download_file_http gives up after its retries and says so in a result that
\* run_job ignores; the other return codes are ignored too
FinishTask(t) ==
  /\ task[t].pc = "run"
  /\ SubOf(t) # "cleanup"
  /\ jobs' = WithStateOf(task[t].job, StorageServer, 2)
  /\ ran' = ran \cup {<<task[t].job, StorageServer>>}
  /\ \/ downloaded' = IF SubOf(t) = "download"
                        THEN downloaded \cup {SourceOf(t)} ELSE downloaded
     \/ SubOf(t) = "download" /\ SubOf(t) \in Faulty /\ UNCHANGED downloaded
  /\ intermediates' = IF SubOf(t) = "video_merge"
                        THEN intermediates \cup {OutputOf(t)} ELSE intermediates
  /\ Leave(t)
  /\ UNCHANGED <<info, serverVars, tpc, tbatch, tcur, queue, inbox>>

\* an FTP or S3 error: Worker.run swallows the exception, State stays 1
TaskRaises(t) ==
  /\ task[t].pc = "run"
  /\ SubOf(t) \in Faulty \cap {"download", "upload"}
  /\ Leave(t)
  /\ UNCHANGED <<tableVars, serverVars, fileVars, ran, tpc, tbatch, tcur, queue,
                 inbox>>

\* job_cleanup up to glob.glob: os.remove of the downloaded source raises when
\* the file is not there.  Files are named by the end of the URL and by the
\* output, not by the transcode.
RemoveSource(t) ==
  /\ task[t].pc = "run"
  /\ SubOf(t) = "cleanup"
  /\ LET raises == \/ ~VolumeKnown(MasterOf(t))
                   \/ RequestOf(t) \in Download /\ SourceOf(t) \notin downloaded
     IN \/ raises /\ Leave(t) /\ UNCHANGED downloaded
        \/ /\ ~raises
           /\ downloaded' = IF RequestOf(t) \in Download
                              THEN downloaded \ {SourceOf(t)} ELSE downloaded
           /\ GoTo(t, IF OutputOf(t) \in intermediates THEN "unlink" ELSE "master")
  /\ UNCHANGED <<tableVars, serverVars, intermediates, ran, tpc, tbatch, tcur,
                 queue, inbox>>

\* os.remove of the files glob.glob found raises when another thread was faster
RemoveIntermediates(t) ==
  /\ task[t].pc = "unlink"
  /\ \/ /\ OutputOf(t) \in intermediates
        /\ intermediates' = intermediates \ {OutputOf(t)}
        /\ GoTo(t, "master")
     \/ /\ OutputOf(t) \notin intermediates
        /\ Leave(t)
        /\ UNCHANGED intermediates
  /\ UNCHANGED <<tableVars, serverVars, downloaded, ran, tpc, tbatch, tcur,
                 queue, inbox>>

DeleteMasterJob(t) ==
  /\ task[t].pc = "master"
  /\ jobs' = Without({MasterOf(t)})
  /\ GoTo(t, "row")
  /\ UNCHANGED <<info, serverVars, fileVars, ran, tpc, tbatch, tcur, queue,
                 inbox>>

\* Mutant of DeleteCleanupJob: the DELETE is left out.
DeleteCleanupJobKeeps(t) ==
  /\ task[t].pc = "row"
  /\ UNCHANGED jobs
  /\ ran' = ran \cup {<<task[t].job, StorageServer>>}
  /\ Leave(t)
  /\ UNCHANGED <<info, serverVars, fileVars, tpc, tbatch, tcur, queue, inbox>>

DeleteCleanupJob(t) ==
  /\ task[t].pc = "row"
  /\ jobs' = Without({task[t].job})
  /\ ran' = ran \cup {<<task[t].job, StorageServer>>}
  /\ Leave(t)
  /\ UNCHANGED <<info, serverVars, fileVars, tpc, tbatch, tcur, queue, inbox>>

----------------------------------------------------------------------------
CrashStorage ==
  /\ StorageMortal
  /\ tpc # "dead"
  /\ StorageDies
  /\ UNCHANGED <<tableVars, serverVars, fileVars, ran, inbox>>

\* more than 30 seconds pass since the last heartbeat: the main loop has ended,
\* or is blocked on a full queue behind tasks that take that long
SilenceStorage ==
  /\ storeSeen = "fresh"
  /\ \/ tpc = "dead"
     \/ /\ tpc = "put"
        /\ QueueFull
        /\ \A t \in Threads : task[t].pc = "run" /\ SubOf(t) \in Slow
  /\ storeSeen' = "old"
  /\ UNCHANGED <<tableVars, seen, busy, connected, volume, fileVars, ran,
                 storageVars>>

ThreadStep(t) ==
  \/ TakeTask(t) \/ FinishTask(t) \/ TaskRaises(t)
  \/ RemoveSource(t) \/ RemoveIntermediates(t)
  \/ DeleteMasterJob(t) \/ DeleteCleanupJob(t)
StorageLoop ==
  \/ RegisterStorage \/ FetchStorageJobs
  \/ CheckStorageDependencies \/ RemoveStorageDependencies \/ AddTask
=============================================================================
