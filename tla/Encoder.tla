-------------------------------- MODULE Encoder --------------------------------
(***************************************************************************)
(* One transcode job while it runs: run_job of fflock-slave.py starts an   *)
(* fflock_encoder thread, which reads the output of an encoder process,    *)
(* and polls the thread's fields without a lock until the progress is 100. *)
(* Around it goes what may take the job from the slave: the loop that      *)
(* selects it, the heartbeats, and the master that gives it to another.    *)
(***************************************************************************)
EXTENDS Integers

CONSTANTS
  Slaves,     \* slave servers, each with a uuid of its own
  Nobody,     \* the empty AssignedServerUUID
  Mortal,     \* those that may crash
  Laggards,   \* those that may miss heartbeats while they run another job
  Durations,  \* the durations an encoder may print, in 1/100 s
  Positions   \* the positions it may print while it encodes, in 1/100 s

ASSUME EncoderAssumption ==
  /\ Mortal \cup Laggards \subseteq Slaves /\ Nobody \notin Slaves
  /\ Durations \cup Positions \subseteq Nat

Unknown == -1  \* no duration yet

VARIABLES
  job,      \* the Jobs row: its State and AssignedServerUUID
  seen,     \* the Servers row of each slave: none, or how old LastSeen is
  orphaned, \* the master has found that nobody registered has the job
  main,     \* the statement of the main loop or of run_job each slave is at
  again,    \* its local shouldupdate
  thread,   \* how far the run method of its encoder thread is
  progress, \* the thread's progress, compared with 100
  duration, \* the thread's durationFlt, in 1/10 s
  process,  \* the encoder process: a process started writes the part
  late      \* history: the slaves that have missed heartbeats in another job

tableVars == <<job, seen, orphaned>>
threadVars == <<thread, progress, duration, process>>
vars == <<tableVars, main, again, threadVars, late>>

Looping == {"idle", "fetch"}
Running == {"while", "print", "sleep", "code", "finish"}

TypeOK ==
  /\ job \in [state : {0, 1, 2}, assigned : Slaves \cup {Nobody}]
  /\ seen \in [Slaves -> {"none", "fresh", "old"}]
  /\ orphaned \in BOOLEAN
  /\ main \in [Slaves -> Looping \cup {"selected"} \cup Running \cup {"dead"}]
  /\ again \in [Slaves -> BOOLEAN]
  /\ thread \in [Slaves -> {"none", "new", "reading", "drained", "done",
                            "failed", "killed"}]
  /\ progress \in [Slaves -> {"below", "hundred", "above"}]
  /\ duration \in [Slaves -> Nat \cup {Unknown}]
  /\ process \in [Slaves -> {"none", "encoding", "exited"}]
  /\ late \subseteq Slaves

\* The slaves are registered and the master has submitted the job.
Init ==
  /\ job \in [state : {0}, assigned : Slaves]
  /\ seen = [s \in Slaves |-> "fresh"]
  /\ orphaned = FALSE
  /\ main = [s \in Slaves |-> "idle"]
  /\ again = [s \in Slaves |-> FALSE]
  /\ thread = [s \in Slaves |-> "none"]
  /\ progress = [s \in Slaves |-> "below"]
  /\ duration = [s \in Slaves |-> Unknown]
  /\ process = [s \in Slaves |-> "none"]
  /\ late = {}

GoTo(s, label) == main' = [main EXCEPT ![s] = label]

----------------------------------------------------------------------------
(* The encoder thread. *)

\* strToSecs, in 1/10 s: the two digits after the point count as tenths
StrToSecs(t) == 10 * (t \div 100) + (t % 100)

\* startTime is set before the process is started
Run(s) ==
  /\ thread[s] = "new"
  /\ thread' = [thread EXCEPT ![s] = "reading"]
  /\ process' = [process EXCEPT ![s] = "encoding"]
  /\ UNCHANGED <<tableVars, main, again, late, progress, duration>>

ReadDuration(s) ==
  /\ thread[s] = "reading"
  /\ duration[s] = Unknown
  /\ \E d \in Durations : duration' = [duration EXCEPT ![s] = StrToSecs(d)]
  /\ UNCHANGED <<tableVars, main, again, late, thread, progress, process>>

Percentage(t, d) ==
  IF t = d THEN "hundred" ELSE IF t < d THEN "below" ELSE "above"

\* A duration of zero raises ZeroDivisionError, which ends the thread.
ReadTime(s) ==
  /\ thread[s] = "reading"
  /\ duration[s] # Unknown
  /\ IF duration[s] = 0
       THEN thread' = [thread EXCEPT ![s] = "failed"] /\ UNCHANGED progress
       ELSE /\ \E t \in Positions :
                 progress' = [progress EXCEPT ![s] =
                                Percentage(StrToSecs(t), duration[s])]
            /\ UNCHANGED thread
  /\ UNCHANGED <<tableVars, main, again, late, duration, process>>

\* The process ends, with a return code that decides nothing but a message.
ProcessExits(s) ==
  /\ process[s] = "encoding"
  /\ process' = [process EXCEPT ![s] = "exited"]
  /\ UNCHANGED <<tableVars, main, again, late, thread, progress, duration>>

\* Mutant of Drained: the progress stays what was last read.
DrainedBelow(s) ==
  /\ thread[s] = "reading"
  /\ process[s] = "exited"
  /\ thread' = [thread EXCEPT ![s] = "drained"]
  /\ UNCHANGED <<tableVars, main, again, late, progress, duration, process>>

\* no more data
Drained(s) ==
  /\ thread[s] = "reading"
  /\ process[s] = "exited"
  /\ thread' = [thread EXCEPT ![s] = "drained"]
  /\ progress' = [progress EXCEPT ![s] = "hundred"]
  /\ UNCHANGED <<tableVars, main, again, late, duration, process>>

\* returnCode is set after progress
ReturnCode(s) ==
  /\ thread[s] = "drained"
  /\ thread' = [thread EXCEPT ![s] = "done"]
  /\ UNCHANGED <<tableVars, main, again, late, progress, duration, process>>

Thread(s) ==
  Run(s) \/ ReadDuration(s) \/ ReadTime(s) \/ Drained(s) \/ ReturnCode(s)

----------------------------------------------------------------------------
(* The main loop of a slave, and run_job for a job of subtype transcode. *)

\* register_slave_server: an UPDATE of the row, or an INSERT when it is gone
Registered(s) == seen' = [seen EXCEPT ![s] = "fresh"]

RegisterSlave(s) ==
  /\ main[s] = "idle"
  /\ Registered(s)
  /\ GoTo(s, "fetch")
  /\ UNCHANGED <<job, orphaned, again, threadVars, late>>

\* SELECT ... WHERE AssignedServerUUID = s AND State = 0: the job is then one of
\* a batch, whose other jobs may be run before it.
FetchDbJobs(s) ==
  /\ main[s] = "fetch"
  /\ GoTo(s, IF job = [state |-> 0, assigned |-> s] THEN "selected" ELSE "idle")
  /\ UNCHANGED <<tableVars, again, threadVars, late>>

\* a slave without a Servers row goes on to the next job
SkipJob(s) ==
  /\ main[s] = "selected"
  /\ seen[s] = "none"
  /\ GoTo(s, "idle")
  /\ UNCHANGED <<tableVars, again, threadVars, late>>

\* Mutant of StartEncoder: a State that the other programs do not know.
StartEncoderState3(s) ==
  /\ main[s] = "selected"
  /\ seen[s] # "none"
  /\ job' = IF job.assigned = s THEN [job EXCEPT !.state = 3] ELSE job
  /\ thread' = [thread EXCEPT ![s] = "new"]
  /\ process' = [process EXCEPT ![s] = "none"]
  /\ GoTo(s, "while")
  /\ UNCHANGED <<seen, orphaned, again, progress, duration, late>>

\* UPDATE Jobs ... WHERE AssignedServerUUID = s, and a new thread in any case:
\* nobody looks whether the job is still this slave's.
StartEncoder(s) ==
  /\ main[s] = "selected"
  /\ seen[s] # "none"
  /\ job' = IF job.assigned = s THEN [job EXCEPT !.state = 1] ELSE job
  /\ thread' = [thread EXCEPT ![s] = "new"]
  /\ process' = [process EXCEPT ![s] = "none"]
  /\ GoTo(s, "while")
  /\ UNCHANGED <<seen, orphaned, again, progress, duration, late>>

WhileNotDone(s) ==
  /\ main[s] = "while"
  /\ GoTo(s, IF progress[s] # "hundred" \/ again[s] THEN "print" ELSE "code")
  /\ UNCHANGED <<tableVars, again, threadVars, late>>

\* A heartbeat; then getElapsedTime raises when the thread has not set startTime
\* yet: the exception ends the main loop, and the thread goes on.
PrintProgress(s) ==
  /\ main[s] = "print"
  /\ Registered(s)
  /\ GoTo(s, IF thread[s] = "new" THEN "dead" ELSE "sleep")
  /\ UNCHANGED <<job, orphaned, again, threadVars, late>>

AfterSleep(s) ==
  /\ main[s] = "sleep"
  /\ IF again[s]
       THEN GoTo(s, "code") /\ UNCHANGED again
       ELSE /\ again' = [again EXCEPT ![s] = progress[s] = "hundred"]
            /\ GoTo(s, "while")
  /\ UNCHANGED <<tableVars, threadVars, late>>

\* Mutant of GetReturnCode: it returns None when the process has not ended.
GetReturnCodeNone(s) ==
  /\ main[s] = "code"
  /\ GoTo(s, "finish")
  /\ UNCHANGED <<tableVars, again, threadVars, late>>

\* getReturnCode raises when the thread has not set returnCode yet.
GetReturnCode(s) ==
  /\ main[s] = "code"
  /\ GoTo(s, IF thread[s] = "done" THEN "finish" ELSE "dead")
  /\ UNCHANGED <<tableVars, again, threadVars, late>>

\* the fields of an encoder that nobody polls any more
Forget(s) ==
  /\ again' = [again EXCEPT ![s] = FALSE]
  /\ progress' = [progress EXCEPT ![s] = "below"]
  /\ duration' = [duration EXCEPT ![s] = Unknown]

\* UPDATE Jobs ... WHERE AssignedServerUUID = s
Finish(s) ==
  /\ main[s] = "finish"
  /\ job' = IF job.assigned = s THEN [job EXCEPT !.state = 2] ELSE job
  /\ Forget(s)
  /\ GoTo(s, "idle")
  /\ UNCHANGED <<seen, orphaned, thread, process, late>>

Main(s) ==
  \/ RegisterSlave(s) \/ FetchDbJobs(s) \/ SkipJob(s) \/ StartEncoder(s)
  \/ WhileNotDone(s) \/ PrintProgress(s) \/ AfterSleep(s)
  \/ GetReturnCode(s) \/ Finish(s)

----------------------------------------------------------------------------
(* What happens to a slave and to the job. *)

\* The slave is killed with its threads; the encoder process is not.
Crash(s) ==
  /\ s \in Mortal
  /\ main[s] # "dead"
  /\ GoTo(s, "dead")
  /\ thread' = [thread EXCEPT ![s] =
                  IF @ \in {"new", "reading", "drained"} THEN "killed" ELSE @]
  /\ Forget(s)
  /\ UNCHANGED <<tableVars, process, late>>

\* Mutant of Quiet: the loop of run_job does not call register_slave_server.
QuietWhileEncoding(s) == main[s] \in {"selected", "sleep"}

\* Between the selection of the job and its start a slave runs the other jobs of
\* the batch, and a frame detection sends no heartbeat; the loop of a transcode
\* sends one every 3 seconds.
Quiet(s) == main[s] = "selected"

\* No heartbeat for 60 seconds.  Bound: one of the laggards misses them once.
MissHeartbeats(s) ==
  /\ seen[s] = "fresh"
  /\ \/ main[s] = "dead" /\ UNCHANGED late
     \/ /\ s \in Laggards \ late
        /\ Quiet(s)
        /\ late' = IF main[s] = "selected" THEN late \cup {s} ELSE late
  /\ seen' = [seen EXCEPT ![s] = "old"]
  /\ UNCHANGED <<job, orphaned, main, again, threadVars>>

\* remove_stale_slave_servers
RemoveStaleSlave(s) ==
  /\ seen[s] = "old"
  /\ seen' = [seen EXCEPT ![s] = "none"]
  /\ UNCHANGED <<job, orphaned, main, again, threadVars, late>>

\* reassign_orphaned_jobs: the SELECTs of the servers and of the jobs
FindOrphan ==
  /\ ~orphaned
  /\ \A s \in Slaves : seen[s] # "none" => job.assigned # s
  /\ orphaned' = TRUE
  /\ UNCHANGED <<job, seen, main, again, threadVars, late>>

\* and the UPDATE, whatever has happened to the job and its slave meanwhile
Reassign ==
  /\ orphaned
  /\ orphaned' = FALSE
  /\ \E s \in Slaves \cup {Nobody} :
       /\ IF s = Nobody THEN \A x \in Slaves : seen[x] = "none" ELSE seen[s] # "none"
       /\ job' = [state |-> 0, assigned |-> s]
  /\ UNCHANGED <<seen, main, again, threadVars, late>>

Next ==
  \/ \E s \in Slaves :
       \/ Thread(s) \/ ProcessExits(s) \/ Main(s)
       \/ Crash(s) \/ MissHeartbeats(s) \/ RemoveStaleSlave(s)
  \/ FindOrphan \/ Reassign

Spec == Init /\ [][Next]_vars

\* Slaves and their threads run on, the encoder ends some time, a slave that has
\* ended is not heard of, and the master goes on looking for stale slaves and
\* orphans.  A thread may read more output or reach its end.
Fairness ==
  /\ \A s \in Slaves :
       /\ WF_vars(Main(s)) /\ WF_vars(Run(s) \/ Drained(s) \/ ReturnCode(s))
       /\ WF_vars(ProcessExits(s))
       /\ WF_vars(main[s] = "dead" /\ MissHeartbeats(s))
       /\ WF_vars(RemoveStaleSlave(s))
  /\ WF_vars(FindOrphan) /\ WF_vars(Reassign)
FairSpec == Spec /\ Fairness

----------------------------------------------------------------------------
(* Properties. *)

\* However the polls and the thread interleave, and although the progress may be
\* 100 while the encoder still writes, a job is not set to finished before the
\* encoder that the slave started for it has ended.
FinishedMeansEnded ==
  job.state = 2 => /\ job.assigned \in Slaves
                   /\ process[job.assigned] = "exited"
                   /\ thread[job.assigned] = "done"

\* An encoder that writes the part for a slave which no longer has the job, or
\* after it is finished, was left behind by a slave that ended, or was started by
\* one that had missed its heartbeats in another job: the heartbeats of the wait,
\* and the selections of the master that may be old, never cost any other slave
\* its job.
OnlyStrayWriters ==
  \A s \in Slaves :
    process[s] = "encoding" /\ (job.assigned # s \/ job.state = 2)
      => main[s] = "dead" \/ s \in late

\* The wait for an encoder ends, unless its thread ended with an error: then the
\* slave polls and heartbeats for ever and nobody else gets the job.
WaitEnds ==
  \A s \in Slaves :
    main[s] = "while" ~> main[s] \in {"idle", "dead"} \/ thread[s] = "failed"

\* A job is lost to a failed thread or to the end of every slave, else it
\* finishes, on whichever slave it comes to.
FinishedOrStuck ==
  <>(\/ job.state = 2
     \/ \E s \in Slaves : job.assigned = s /\ thread[s] = "failed"
     \/ \A s \in Slaves : main[s] = "dead")

----------------------------------------------------------------------------
(* The inductive invariant behind the theorems of EncoderProofs. *)

\* What the statements of run_job say of the thread and of its process.
ThreadInv ==
  \A s \in Slaves :
    /\ main[s] \in Looping \cup {"selected"} => thread[s] \in {"none", "done"}
    /\ thread[s] = "none" => process[s] = "none"
    /\ thread[s] = "new" => process[s] = "none"
    /\ thread[s] \in {"drained", "done"} => process[s] = "exited"
    /\ main[s] = "finish" => thread[s] = "done"

\* A slave that has neither ended nor missed heartbeats is registered, is not the
\* one whose job was found to be orphaned, and has the job it means to run.
Reliable(s) == main[s] # "dead" /\ s \notin late
HolderInv ==
  \A s \in Slaves : Reliable(s) =>
    /\ seen[s] = "fresh"
    /\ orphaned => job.assigned # s
    /\ main[s] \in Running \cup {"selected"} => job.assigned = s /\ job.state # 2

\* A job that is finished was finished by the slave it is assigned to.
FinishInv ==
  job.state = 2 => /\ job.assigned \in Slaves
                   /\ thread[job.assigned] = "done"
                   /\ main[job.assigned] \in Looping \cup {"dead"}

IInv == TypeOK /\ ThreadInv /\ HolderInv /\ FinishInv
=============================================================================
