----------------------------- MODULE EncoderProofs -----------------------------
(***************************************************************************)
(* Theorems about Encoder: for any number of slaves, crashes and           *)
(* reassignments, and whatever the encoder prints.                         *)
(***************************************************************************)
EXTENDS Encoder, TLAPS

\* A time is a number of tenths.
LEMMA StrToSecsNat ==
  ASSUME NEW t \in Nat PROVE StrToSecs(t) \in Nat
<1>1. t \div 100 \in Nat /\ t % 100 \in Nat
  OBVIOUS
<1> QED
  BY <1>1 DEF StrToSecs

\* A percentage is below 100, 100, or above.
LEMMA PercentageType ==
  ASSUME NEW t, NEW d PROVE Percentage(t, d) \in {"below", "hundred", "above"}
BY DEF Percentage

\* The invariant holds when nothing has been started.
LEMMA InitInv == Init => IInv
<1> SUFFICES ASSUME Init PROVE IInv
  OBVIOUS
<1>1. TypeOK
  BY DEF Init, TypeOK, Unknown, Looping, Running
<1>2. ThreadInv /\ HolderInv
  BY DEF Init, ThreadInv, HolderInv, Running
<1>3. FinishInv
  BY DEF Init, FinishInv
<1> QED
  BY <1>1, <1>2, <1>3 DEF IInv

\* Each action keeps the invariant.
LEMMA StepInv == IInv /\ [Next]_vars => IInv'
<1> SUFFICES ASSUME IInv, [Next]_vars PROVE IInv'
  OBVIOUS
<1>0. TypeOK /\ ThreadInv /\ HolderInv /\ FinishInv
  BY DEF IInv
<1> USE DEF GoTo, tableVars, threadVars, Looping, Running
<1>1. CASE UNCHANGED vars
  BY <1>0, <1>1 DEF vars, IInv, TypeOK, ThreadInv, HolderInv, Reliable, FinishInv
<1>2. ASSUME NEW s \in Slaves,
             \/ Thread(s) \/ ProcessExits(s) \/ Main(s)
             \/ Crash(s) \/ MissHeartbeats(s) \/ RemoveStaleSlave(s)
      PROVE  IInv'
  <2>1. CASE Run(s)
    <3>1. TypeOK'
      BY <1>0, <2>1 DEF Run, TypeOK
    <3>2. ThreadInv'
      BY <1>0, <2>1 DEF Run, TypeOK, ThreadInv
    <3>3. HolderInv'
      BY <1>0, <2>1 DEF Run, TypeOK, HolderInv, Reliable
    <3>4. FinishInv'
      BY <1>0, <2>1 DEF Run, TypeOK, ThreadInv, FinishInv
    <3> QED
      BY <3>1, <3>2, <3>3, <3>4 DEF IInv
  <2>2. CASE ReadDuration(s)
    <3>1. TypeOK'
      BY <1>0, <2>2, StrToSecsNat, EncoderAssumption DEF ReadDuration, TypeOK
    <3>2. ThreadInv'
      BY <1>0, <2>2 DEF ReadDuration, TypeOK, ThreadInv
    <3>3. HolderInv'
      BY <1>0, <2>2 DEF ReadDuration, TypeOK, HolderInv, Reliable
    <3>4. FinishInv'
      BY <1>0, <2>2 DEF ReadDuration, TypeOK, ThreadInv, FinishInv
    <3> QED
      BY <3>1, <3>2, <3>3, <3>4 DEF IInv
  <2>3. CASE ReadTime(s)
    <3>1. TypeOK'
      BY <1>0, <2>3, PercentageType DEF ReadTime, TypeOK
    <3>2. ThreadInv'
      BY <1>0, <2>3 DEF ReadTime, TypeOK, ThreadInv
    <3>3. HolderInv'
      BY <1>0, <2>3 DEF ReadTime, TypeOK, HolderInv, Reliable
    <3>4. FinishInv'
      BY <1>0, <2>3 DEF ReadTime, TypeOK, ThreadInv, FinishInv
    <3> QED
      BY <3>1, <3>2, <3>3, <3>4 DEF IInv
  <2>4. CASE Drained(s)
    <3>1. TypeOK'
      BY <1>0, <2>4 DEF Drained, TypeOK
    <3>2. ThreadInv'
      BY <1>0, <2>4 DEF Drained, TypeOK, ThreadInv
    <3>3. HolderInv'
      BY <1>0, <2>4 DEF Drained, TypeOK, HolderInv, Reliable
    <3>4. FinishInv'
      BY <1>0, <2>4 DEF Drained, TypeOK, ThreadInv, FinishInv
    <3> QED
      BY <3>1, <3>2, <3>3, <3>4 DEF IInv
  <2>5. CASE ReturnCode(s)
    <3>1. TypeOK'
      BY <1>0, <2>5 DEF ReturnCode, TypeOK
    <3>2. ThreadInv'
      BY <1>0, <2>5 DEF ReturnCode, TypeOK, ThreadInv
    <3>3. HolderInv'
      BY <1>0, <2>5 DEF ReturnCode, TypeOK, HolderInv, Reliable
    <3>4. FinishInv'
      BY <1>0, <2>5 DEF ReturnCode, TypeOK, ThreadInv, FinishInv
    <3> QED
      BY <3>1, <3>2, <3>3, <3>4 DEF IInv
  <2>6. CASE ProcessExits(s)
    <3>1. TypeOK'
      BY <1>0, <2>6 DEF ProcessExits, TypeOK
    <3>2. ThreadInv'
      BY <1>0, <2>6 DEF ProcessExits, TypeOK, ThreadInv
    <3>3. HolderInv'
      BY <1>0, <2>6 DEF ProcessExits, TypeOK, HolderInv, Reliable
    <3>4. FinishInv'
      BY <1>0, <2>6 DEF ProcessExits, TypeOK, ThreadInv, FinishInv
    <3> QED
      BY <3>1, <3>2, <3>3, <3>4 DEF IInv
  <2>7. CASE RegisterSlave(s)
    <3>1. TypeOK'
      BY <1>0, <2>7 DEF RegisterSlave, Registered, TypeOK
    <3>2. ThreadInv'
      BY <1>0, <2>7 DEF RegisterSlave, Registered, TypeOK, ThreadInv
    <3>3. HolderInv'
      BY <1>0, <2>7 DEF RegisterSlave, Registered, TypeOK, HolderInv, Reliable
    <3>4. FinishInv'
      BY <1>0, <2>7 DEF RegisterSlave, Registered, TypeOK, ThreadInv, FinishInv
    <3> QED
      BY <3>1, <3>2, <3>3, <3>4 DEF IInv
  <2>8. CASE FetchDbJobs(s)
    <3>1. TypeOK'
      BY <1>0, <2>8 DEF FetchDbJobs, TypeOK
    <3>2. ThreadInv'
      BY <1>0, <2>8 DEF FetchDbJobs, TypeOK, ThreadInv
    <3>3. HolderInv'
      BY <1>0, <2>8 DEF FetchDbJobs, TypeOK, HolderInv, Reliable
    <3>4. FinishInv'
      BY <1>0, <2>8 DEF FetchDbJobs, TypeOK, ThreadInv, FinishInv
    <3> QED
      BY <3>1, <3>2, <3>3, <3>4 DEF IInv
  <2>9. CASE SkipJob(s)
    <3>1. TypeOK'
      BY <1>0, <2>9 DEF SkipJob, TypeOK
    <3>2. ThreadInv'
      BY <1>0, <2>9 DEF SkipJob, TypeOK, ThreadInv
    <3>3. HolderInv'
      BY <1>0, <2>9 DEF SkipJob, TypeOK, HolderInv, Reliable
    <3>4. FinishInv'
      BY <1>0, <2>9 DEF SkipJob, TypeOK, ThreadInv, FinishInv
    <3> QED
      BY <3>1, <3>2, <3>3, <3>4 DEF IInv
  <2>10. CASE StartEncoder(s)
    <3>1. TypeOK'
      BY <1>0, <2>10 DEF StartEncoder, TypeOK
    <3>2. ThreadInv'
      BY <1>0, <2>10 DEF StartEncoder, TypeOK, ThreadInv
    <3>3. HolderInv'
      BY <1>0, <2>10 DEF StartEncoder, TypeOK, HolderInv, Reliable
    <3>4. FinishInv'
      BY <1>0, <2>10 DEF StartEncoder, TypeOK, ThreadInv, FinishInv
    <3> QED
      BY <3>1, <3>2, <3>3, <3>4 DEF IInv
  <2>11. CASE WhileNotDone(s)
    <3>1. TypeOK'
      BY <1>0, <2>11 DEF WhileNotDone, TypeOK
    <3>2. ThreadInv'
      BY <1>0, <2>11 DEF WhileNotDone, TypeOK, ThreadInv
    <3>3. HolderInv'
      BY <1>0, <2>11 DEF WhileNotDone, TypeOK, HolderInv, Reliable
    <3>4. FinishInv'
      BY <1>0, <2>11 DEF WhileNotDone, TypeOK, ThreadInv, FinishInv
    <3> QED
      BY <3>1, <3>2, <3>3, <3>4 DEF IInv
  <2>12. CASE PrintProgress(s)
    <3>1. TypeOK'
      BY <1>0, <2>12 DEF PrintProgress, Registered, TypeOK
    <3>2. ThreadInv'
      BY <1>0, <2>12 DEF PrintProgress, Registered, TypeOK, ThreadInv
    <3>3. HolderInv'
      BY <1>0, <2>12 DEF PrintProgress, Registered, TypeOK, HolderInv, Reliable
    <3>4. FinishInv'
      BY <1>0, <2>12 DEF PrintProgress, Registered, TypeOK, ThreadInv, FinishInv
    <3> QED
      BY <3>1, <3>2, <3>3, <3>4 DEF IInv
  <2>13. CASE AfterSleep(s)
    <3>a. again' \in [Slaves -> BOOLEAN]
      BY <1>0, <2>13 DEF AfterSleep, TypeOK
    <3>b. main' \in [Slaves -> Looping \cup {"selected"} \cup Running \cup {"dead"}]
      BY <1>0, <2>13 DEF AfterSleep, TypeOK
    <3>1. TypeOK'
      BY <1>0, <2>13, <3>a, <3>b DEF AfterSleep, TypeOK
    <3>2. ThreadInv'
      BY <1>0, <2>13 DEF AfterSleep, TypeOK, ThreadInv
    <3>3. HolderInv'
      BY <1>0, <2>13 DEF AfterSleep, TypeOK, HolderInv, Reliable
    <3>4. FinishInv'
      BY <1>0, <2>13 DEF AfterSleep, TypeOK, ThreadInv, FinishInv
    <3> QED
      BY <3>1, <3>2, <3>3, <3>4 DEF IInv
  <2>14. CASE GetReturnCode(s)
    <3>1. TypeOK'
      BY <1>0, <2>14 DEF GetReturnCode, TypeOK
    <3>2. ThreadInv'
      BY <1>0, <2>14 DEF GetReturnCode, TypeOK, ThreadInv
    <3>3. HolderInv'
      BY <1>0, <2>14 DEF GetReturnCode, TypeOK, HolderInv, Reliable
    <3>4. FinishInv'
      BY <1>0, <2>14 DEF GetReturnCode, TypeOK, ThreadInv, FinishInv
    <3> QED
      BY <3>1, <3>2, <3>3, <3>4 DEF IInv
  <2>15. CASE Finish(s)
    <3>1. TypeOK'
      BY <1>0, <2>15 DEF Finish, Forget, Unknown, TypeOK
    <3>2. ThreadInv'
      BY <1>0, <2>15 DEF Finish, Forget, TypeOK, ThreadInv
    <3>3. HolderInv'
      BY <1>0, <2>15 DEF Finish, Forget, TypeOK, HolderInv, Reliable
    <3>4. FinishInv'
      BY <1>0, <2>15 DEF Finish, Forget, TypeOK, ThreadInv, FinishInv
    <3> QED
      BY <3>1, <3>2, <3>3, <3>4 DEF IInv
  <2>16. CASE Crash(s)
    <3>1. TypeOK'
      BY <1>0, <2>16 DEF Crash, Forget, Unknown, TypeOK
    <3>2. ThreadInv'
      BY <1>0, <2>16 DEF Crash, Forget, TypeOK, ThreadInv
    <3>3. HolderInv'
      BY <1>0, <2>16 DEF Crash, Forget, TypeOK, HolderInv, Reliable
    <3>4. FinishInv'
      BY <1>0, <2>16 DEF Crash, Forget, TypeOK, ThreadInv, FinishInv
    <3> QED
      BY <3>1, <3>2, <3>3, <3>4 DEF IInv
  <2>17. CASE MissHeartbeats(s)
    <3>1. TypeOK'
      BY <1>0, <2>17 DEF MissHeartbeats, Quiet, TypeOK
    <3>2. ThreadInv'
      BY <1>0, <2>17 DEF MissHeartbeats, Quiet, TypeOK, ThreadInv
    <3>3. HolderInv'
      BY <1>0, <2>17 DEF MissHeartbeats, Quiet, TypeOK, HolderInv, Reliable
    <3>4. FinishInv'
      BY <1>0, <2>17 DEF MissHeartbeats, Quiet, TypeOK, ThreadInv, FinishInv
    <3> QED
      BY <3>1, <3>2, <3>3, <3>4 DEF IInv
  <2>18. CASE RemoveStaleSlave(s)
    <3>1. TypeOK'
      BY <1>0, <2>18 DEF RemoveStaleSlave, TypeOK
    <3>2. ThreadInv'
      BY <1>0, <2>18 DEF RemoveStaleSlave, TypeOK, ThreadInv
    <3>3. HolderInv'
      BY <1>0, <2>18 DEF RemoveStaleSlave, TypeOK, HolderInv, Reliable
    <3>4. FinishInv'
      BY <1>0, <2>18 DEF RemoveStaleSlave, TypeOK, ThreadInv, FinishInv
    <3> QED
      BY <3>1, <3>2, <3>3, <3>4 DEF IInv
  <2> QED
    BY <1>2, <2>1, <2>2, <2>3, <2>4, <2>5, <2>6, <2>7, <2>8, <2>9, <2>10, <2>11, <2>12, <2>13, <2>14, <2>15, <2>16, <2>17, <2>18 DEF Thread, Main
<1>3. CASE FindOrphan
  <2>1. TypeOK'
    BY <1>0, <1>3 DEF FindOrphan, TypeOK
  <2>2. ThreadInv'
    BY <1>0, <1>3 DEF FindOrphan, TypeOK, ThreadInv
  <2>3. HolderInv'
    BY <1>0, <1>3 DEF FindOrphan, TypeOK, HolderInv, Reliable
  <2>4. FinishInv'
    BY <1>0, <1>3 DEF FindOrphan, TypeOK, ThreadInv, FinishInv
  <2> QED
    BY <2>1, <2>2, <2>3, <2>4 DEF IInv
<1>4. CASE Reassign
  <2>0. job' \in [state : {0, 1, 2}, assigned : Slaves \cup {Nobody}]
    BY <1>4 DEF Reassign
  <2>1. TypeOK'
    BY <1>0, <1>4, <2>0 DEF Reassign, TypeOK
  <2>2. ThreadInv'
    BY <1>0, <1>4 DEF Reassign, TypeOK, ThreadInv
  <2>3. HolderInv'
    BY <1>0, <1>4 DEF Reassign, TypeOK, HolderInv, Reliable
  <2>4. FinishInv'
    BY <1>0, <1>4 DEF Reassign, TypeOK, ThreadInv, FinishInv
  <2> QED
    BY <2>1, <2>2, <2>3, <2>4 DEF IInv
<1> QED
  BY <1>1, <1>2, <1>3, <1>4 DEF Next

\* The invariant holds for all interleavings of run_job, its threads and the
\* master.
THEOREM EncoderInvariant == Spec => []IInv
BY InitInv, StepInv, PTL DEF Spec

\* Each field keeps its type.
THEOREM EncoderTypeCorrect == Spec => []TypeOK
<1>1. IInv => TypeOK
  BY DEF IInv
<1> QED
  BY <1>1, EncoderInvariant, PTL

\* A job is finished only after the return code of the encoder that its slave
\* started: getReturnCode raises before, and the exception ends the slave.
THEOREM FinishedAfterEncoder == Spec => []FinishedMeansEnded
<1>1. IInv => FinishedMeansEnded
  BY DEF IInv, ThreadInv, FinishInv, FinishedMeansEnded
<1> QED
  BY <1>1, EncoderInvariant, PTL

\* Whatever the master has selected and however late its UPDATEs come, a slave that
\* has neither ended nor missed the heartbeats of another job keeps the job it
\* encodes until it has finished it.
THEOREM StrayWriters == Spec => []OnlyStrayWriters
<1>1. IInv => OnlyStrayWriters
  <2> SUFFICES ASSUME IInv, NEW s \in Slaves, Reliable(s), process[s] = "encoding"
               PROVE  job.assigned = s /\ job.state # 2
    BY DEF OnlyStrayWriters, Reliable
  <2>1. main[s] \in Running
    BY DEF IInv, TypeOK, ThreadInv, Reliable
  <2> QED
    BY <2>1 DEF IInv, HolderInv
<1> QED
  BY <1>1, EncoderInvariant, PTL
=============================================================================
