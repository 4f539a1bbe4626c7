-------------------------------- MODULE Slave --------------------------------
(***************************************************************************)
(* fflock-slave.py: each slave server is one sequential process that       *)
(* heartbeats, mounts the volume, selects the jobs assigned to it and runs *)
(* them one by one.                                                        *)
(***************************************************************************)
EXTENDS JobTable

CONSTANTS
  Mortal,    \* the slaves that may crash
  Stoppable  \* the slaves that may be stopped with SIGINT

ASSUME MortalAssumption == Mortal \cup Stoppable \subseteq Slaves

VARIABLES
  spc,    \* the statement each slave is at
  batch,  \* the selected rows its loop has still to visit
  cur     \* the job it is at (0 when it is at none)

slaveVars == <<spc, batch, cur>>

SlavePCs == {"loop", "mount", "fetch", "rows", "remove", "claim", "run", "dead"}

SlaveTypeOK ==
  /\ spc \in [Slaves -> SlavePCs]
  /\ batch \in [Slaves -> SUBSET Born]
  /\ cur \in [Slaves -> Born \cup {0}]

SlaveInit ==
  /\ spc = [s \in Slaves |-> "loop"]
  /\ batch = [s \in Slaves |-> {}]
  /\ cur = [s \in Slaves |-> 0]

\* Mutant of Heartbeats: the wait for the encoder does not call it either.
HeartbeatsSeldom(sub) ==
  sub \notin {"detect_frames", "write_mergefile", "transcode"}

\* The branches of run_job that call register_slave_server while they wait.
\* detect frames and write mergefile do not.
Heartbeats(sub) == sub \notin {"detect_frames", "write_mergefile"}

\* Subtypes whose output file is removed by cleanup: <output>_*
IntermediateSubTypes ==
  {"audio_demux", "transcode", "write_mergefile", "video_merge"}

\* find_keyframes looks for a key frame after each n-th of the duration: it
\* keeps at least the one at 0 and at most n of them.
Keyframes(n) == IF EvenKeyframes THEN {n} ELSE 1 .. n

\* on to the next row of the batch, or to sleep and loop
NextRow(s, rest) ==
  /\ spc' = [spc EXCEPT ![s] = IF rest = {} THEN "loop" ELSE "rows"]
  /\ cur' = [cur EXCEPT ![s] = 0]

\* the process ends and its local variables with it
SlaveDies(s) ==
  /\ spc' = [spc EXCEPT ![s] = "dead"]
  /\ batch' = [batch EXCEPT ![s] = {}]
  /\ cur' = [cur EXCEPT ![s] = 0]

\* mount_storage asks for no confirmation of a volume that is connected
RegisterSlave(s) ==
  /\ spc[s] = "loop"
  /\ seen' = [seen EXCEPT ![s] = "fresh"]
  /\ spc' = [spc EXCEPT ![s] = IF s \in connected THEN "fetch" ELSE "mount"]
  /\ UNCHANGED <<tableVars, busy, connected, storeSeen, volume, fileVars, ran,
                 batch, cur>>

\* calculate_connectivity and mount_storage: the confirmation file of the
\* handshake may not come in time
MountStorage(s) ==
  /\ spc[s] = "mount"
  /\ \/ StorageRegistered /\ connected' = connected \cup {s}
     \/ UNCHANGED connected
  /\ spc' = [spc EXCEPT ![s] = "fetch"]
  /\ UNCHANGED <<tableVars, seen, busy, storeSeen, volume, fileVars, ran,
                 batch, cur>>

FetchDbJobs(s) ==
  /\ spc[s] = "fetch"
  /\ batch' = [batch EXCEPT ![s] = WaitingFor(s)]
  /\ NextRow(s, WaitingFor(s))
  /\ UNCHANGED <<tableVars, serverVars, fileVars, ran>>

CheckDependencies(s) ==
  /\ spc[s] = "rows"
  /\ \E i \in batch[s] :
       /\ batch' = [batch EXCEPT ![s] = @ \ {i}]
       /\ \/ /\ DependenciesCleared(i)
             /\ cur' = [cur EXCEPT ![s] = i]
             /\ spc' = [spc EXCEPT ![s] = "remove"]
          \/ /\ ~DependenciesCleared(i)
             /\ NextRow(s, batch[s] \ {i})
  /\ UNCHANGED <<tableVars, serverVars, fileVars, ran>>

\* remove_dependency_jobs subscripts None when the row is gone: the TypeError
\* ends the process
RemoveDependencies(s) ==
  /\ spc[s] = "remove"
  /\ \/ /\ cur[s] \in Present
        /\ RemoveDependencyJobs(cur[s])
        /\ spc' = [spc EXCEPT ![s] = "claim"]
        /\ UNCHANGED <<batch, cur>>
     \/ /\ cur[s] \notin Present
        /\ SlaveDies(s)
        /\ UNCHANGED jobs
  /\ UNCHANGED <<info, serverVars, fileVars, ran>>

\* what fetch_db_jobs asks before it runs a job: a Servers row, State 0, and a
\* connection to the volume of the job
MayRun(s) ==
  /\ seen[s] # "none"
  /\ s \notin busy
  /\ s \in connected
  /\ VolumeKnown(cur[s])

ClaimJob(s) ==
  /\ spc[s] = "claim"
  /\ MayRun(s)
  /\ jobs' = WithStateOf(cur[s], s, 1)
  /\ busy' = busy \cup {s}
  /\ spc' = [spc EXCEPT ![s] = "run"]
  /\ UNCHANGED <<info, seen, connected, storeSeen, volume, fileVars, ran, batch,
                 cur>>

SkipJob(s) ==
  /\ spc[s] = "claim"
  /\ ~MayRun(s)
  /\ NextRow(s, batch[s])
  /\ UNCHANGED <<tableVars, serverVars, fileVars, ran, batch>>

Heartbeat(s) ==
  /\ spc[s] = "run"
  /\ Heartbeats(info[cur[s]].sub)
  /\ seen' = [seen EXCEPT ![s] = "fresh"]
  /\ UNCHANGED <<tableVars, busy, connected, storeSeen, volume, fileVars, ran,
                 slaveVars>>

\* Mutant of JobEnds: the UPDATE does not ask for the assigned server.
JobEndsForAnyone(s, k) ==
  LET i == cur[s] IN
  /\ jobs' = [j \in Present |->
                IF j = i THEN [jobs[j] EXCEPT !.state = 2, !.cuts = k]
                ELSE jobs[j]]
  /\ busy' = busy \ {s}
  /\ ran' = ran \cup {<<i, s>>}
  /\ intermediates' = IF info[i].sub \in IntermediateSubTypes
                        THEN intermediates \cup {Output[info[i].req]}
                        ELSE intermediates
  /\ NextRow(s, batch[s])
  /\ UNCHANGED <<info, seen, connected, storeSeen, volume, downloaded, batch>>

\* run_job returns and the job is marked finished
JobEnds(s, k) ==
  LET i == cur[s] IN
  /\ jobs' = [j \in Present |->
                IF j = i /\ jobs[j].server = s
                  THEN [state |-> 2, server |-> s, cuts |-> k] ELSE jobs[j]]
  /\ busy' = busy \ {s}
  /\ ran' = ran \cup {<<i, s>>}
  /\ intermediates' = IF info[i].sub \in IntermediateSubTypes
                        THEN intermediates \cup {Output[info[i].req]}
                        ELSE intermediates
  /\ NextRow(s, batch[s])
  /\ UNCHANGED <<info, seen, connected, storeSeen, volume, downloaded, batch>>

FinishJob(s) ==
  /\ spc[s] = "run"
  /\ info[cur[s]].sub # "detect_frames"
  /\ JobEnds(s, 0)

FinishDetectFrames(s) ==
  /\ spc[s] = "run"
  /\ info[cur[s]].sub = "detect_frames"
  /\ \E k \in Keyframes(NumberOfRegisteredSlaves) :
       /\ k > 0
       /\ JobEnds(s, k)

\* an exception ends the process: a file without the expected ffprobe output,
\* no registered slave to divide the duration by, or a return code read before
\* the encoder has ended
RunRaises(s) ==
  /\ spc[s] = "run"
  /\ \/ info[cur[s]].sub \in Faulty \cap {"detect_frames", "transcode"}
     \/ info[cur[s]].sub = "detect_frames" /\ NumberOfRegisteredSlaves = 0
  /\ SlaveDies(s)
  /\ UNCHANGED <<tableVars, serverVars, fileVars, ran>>

\* SIGINT: unload removes the rows of the slave
ExitSlave(s) ==
  /\ s \in Stoppable
  /\ spc[s] # "dead"
  /\ SlaveDies(s)
  /\ seen' = [seen EXCEPT ![s] = "none"]
  /\ busy' = busy \ {s}
  /\ connected' = connected \ {s}
  /\ UNCHANGED <<tableVars, storeSeen, volume, fileVars, ran>>

CrashSlave(s) ==
  /\ s \in Mortal
  /\ spc[s] # "dead"
  /\ SlaveDies(s)
  /\ UNCHANGED <<tableVars, serverVars, fileVars, ran>>

\* more than 60 seconds pass since the last heartbeat
Silence(s) ==
  /\ seen[s] = "fresh"
  /\ \/ spc[s] = "dead"
     \/ /\ spc[s] = "run"
        /\ info[cur[s]].sub \in Slow
        /\ ~Heartbeats(info[cur[s]].sub)
  /\ seen' = [seen EXCEPT ![s] = "old"]
  /\ UNCHANGED <<tableVars, busy, connected, storeSeen, volume, fileVars, ran,
                 slaveVars>>

SlaveStep(s) ==
  \/ RegisterSlave(s) \/ MountStorage(s) \/ FetchDbJobs(s)
  \/ CheckDependencies(s) \/ RemoveDependencies(s)
  \/ ClaimJob(s) \/ SkipJob(s)
  \/ FinishJob(s) \/ FinishDetectFrames(s) \/ RunRaises(s)
SlaveFault(s) == ExitSlave(s) \/ CrashSlave(s)
=============================================================================
