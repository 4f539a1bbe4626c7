------------------------------ MODULE Workflow ------------------------------
(***************************************************************************)
(* What the farm promises about jobs, whatever the tables look like: jobs  *)
(* are created with the earlier jobs they need, and a job is completed     *)
(* only when all it needs is complete.  Nothing is forgotten.              *)
(***************************************************************************)
EXTENDS Naturals, Sequences

VARIABLES
  needs,  \* the sequence of jobs: what each one needs
  done    \* the jobs completed at least once

WInit == needs = <<>> /\ done = {}

Create ==
  LET new == Len(needs) + 1 IN
  /\ DOMAIN needs' = 1 .. new
  /\ \A i \in DOMAIN needs : needs'[i] = needs[i]
  /\ needs'[new] \subseteq DOMAIN needs
  /\ UNCHANGED done

Complete == \E i \in DOMAIN needs :
  /\ needs[i] \subseteq done
  /\ done' = done \cup {i}
  /\ UNCHANGED needs

WNext == Create \/ Complete
WSpec == WInit /\ [][WNext]_<<needs, done>>
=============================================================================
