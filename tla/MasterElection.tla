---------------------------- MODULE MasterElection ----------------------------
(***************************************************************************)
(* register_master_server of fflock-master.py: several masters may be      *)
(* started; each looks at the first row of type Master in Servers and then *)
(* registers, heartbeats, takes over or exits.                             *)
(*                                                                         *)
(* Each SQL statement is one step.  Rows come in the order of their        *)
(* AUTO_INCREMENT primary key, that of their insertion.                    *)
(***************************************************************************)
EXTENDS Naturals, Sequences

CONSTANTS
  Masters,  \* master processes, each with a uuid of its own
  Mortal,   \* those that may crash
  Stopped,  \* those that may be stopped with SIGINT
  Slow      \* those whose pass over the jobs may last more than 30 seconds

ASSUME ElectionAssumption == Mortal \cup Stopped \cup Slow \subseteq Masters

VARIABLES
  rows,  \* the Servers rows of type Master: whose, and whether LastSeen is old
  pc     \* the statement each master is at

vars == <<rows, pc>>

\* "refused" is sys.exit(1) for another master, "gone" a crash or SIGINT
PCs == {"off", "select", "insert", "beat", "clear", "work", "refused", "gone"}
Row == [master : Masters, old : BOOLEAN]

TypeOK ==
  /\ rows \in Seq(Row)
  /\ pc \in [Masters -> PCs]

Running(m) == pc[m] \notin {"off", "refused", "gone"}
RowsOf(m) == {i \in DOMAIN rows : rows[i].master = m}
GoTo(m, label) == pc' = [pc EXCEPT ![m] = label]

\* UPDATE ... SET LastSeen WHERE UUID = m; in the model also the passing of time
WithAge(m, old) ==
  [i \in DOMAIN rows |-> IF rows[i].master = m THEN [rows[i] EXCEPT !.old = old]
                         ELSE rows[i]]

Init ==
  /\ rows = <<>>
  /\ pc = [m \in Masters |-> "off"]

Start(m) ==
  /\ pc[m] = "off"
  /\ GoTo(m, "select")
  /\ UNCHANGED rows

\* Mutants of Verdict: the own row is not looked for; it is looked for among all
\* rows; a master takes over without asking for LastSeen.
VerdictForgetsOwn(m) ==
  IF rows = <<>> THEN "insert"
  ELSE IF Head(rows).old THEN "clear" ELSE "refused"
VerdictOwnAnywhere(m) ==
  IF rows = <<>> THEN "insert"
  ELSE IF RowsOf(m) # {} THEN "beat"
  ELSE IF Head(rows).old THEN "clear" ELSE "refused"
VerdictTakesOver(m) ==
  IF rows = <<>> THEN "insert"
  ELSE IF Head(rows).master = m THEN "beat" ELSE "clear"

\* what fetchone() of the SELECT decides
Verdict(m) ==
  IF rows = <<>> THEN "insert"
  ELSE IF Head(rows).master = m THEN "beat"
  ELSE IF Head(rows).old THEN "clear"
  ELSE "refused"

Select(m) ==
  /\ pc[m] = "select"
  /\ GoTo(m, Verdict(m))
  /\ UNCHANGED rows

\* Mutant of Insert: the INSERT leaves LastSeen out.
InsertUntimed(m) ==
  /\ pc[m] = "insert"
  /\ rows' = Append(rows, [master |-> m])
  /\ GoTo(m, "work")

Insert(m) ==
  /\ pc[m] = "insert"
  /\ rows' = Append(rows, [master |-> m, old |-> FALSE])
  /\ GoTo(m, "work")

\* Mutant of Beat: an INSERT in place of the UPDATE.
BeatInserts(m) ==
  /\ pc[m] = "beat"
  /\ rows' = Append(rows, [master |-> m, old |-> FALSE])
  /\ GoTo(m, "work")

\* the row may have been deleted since it was selected
Beat(m) ==
  /\ pc[m] = "beat"
  /\ rows' = WithAge(m, FALSE)
  /\ GoTo(m, "work")

\* DELETE of all masters, whoever they are by now, and the recursive call
Clear(m) ==
  /\ pc[m] = "clear"
  /\ rows' = <<>>
  /\ GoTo(m, "select")

\* the rest of the main loop: fetch_jobs, cleanup_tasks, sleep
Work(m) ==
  /\ pc[m] = "work"
  /\ GoTo(m, "select")
  /\ UNCHANGED rows

\* DELETE ... WHERE UUID = m, who has one row at most (OneRowEach)
Without(k) == [i \in 1 .. Len(rows) - 1 |-> rows[IF i < k THEN i ELSE i + 1]]

\* SIGINT: unload
Exit(m) ==
  /\ m \in Stopped
  /\ Running(m)
  /\ \/ RowsOf(m) = {} /\ UNCHANGED rows
     \/ \E k \in RowsOf(m) : rows' = Without(k)
  /\ GoTo(m, "gone")

Crash(m) ==
  /\ m \in Mortal
  /\ Running(m)
  /\ GoTo(m, "gone")
  /\ UNCHANGED rows

\* more than 30 seconds pass since the last heartbeat of m
Silence(m) ==
  /\ \E i \in RowsOf(m) : ~rows[i].old
  /\ ~Running(m) \/ (m \in Slow /\ pc[m] = "work")
  /\ rows' = WithAge(m, TRUE)
  /\ UNCHANGED pc

Step(m) == Select(m) \/ Insert(m) \/ Beat(m) \/ Clear(m) \/ Work(m)
Next ==
  \E m \in Masters : Start(m) \/ Step(m) \/ Exit(m) \/ Crash(m) \/ Silence(m)

Spec == Init /\ [][Next]_vars

\* Each running master goes on with its loop, and time passes for the row of
\* one that has ended.
Fairness ==
  \A m \in Masters : WF_vars(Step(m)) /\ WF_vars(~Running(m) /\ Silence(m))
FairSpec == Spec /\ Fairness

----------------------------------------------------------------------------
(* Properties. *)

\* A master never has two rows, so that one UPDATE or DELETE by uuid is about
\* one registration.
OneRowEach ==
  \A i, j \in DOMAIN rows : rows[i].master = rows[j].master => i = j

\* Masters that refuse to run beside another do not talk each other out of it:
\* some master that did not refuse is running, unless it crashed or was stopped.
SomeoneStays ==
  (\E m \in Masters : pc[m] = "refused") =>
    \E m \in Masters : pc[m] \notin {"off", "refused"}

\* The heartbeats of running masters are no older than 30 seconds, from some
\* time on.  Without this two masters may take over from each other for ever.
HeartbeatsInTime ==
  <>[](\A m \in Masters : Running(m) => \A i \in RowsOf(m) : ~rows[i].old)

\* Two masters that both registered do not stay: in the end one runs at most.
OneRemains ==
  HeartbeatsInTime =>
    <>[](\A m, n \in Masters : Running(m) /\ Running(n) => m = n)

\* The master that stays is the one the table names, also after another took
\* its row away by mistake: the next master to start will see it.
SurvivorRegistered ==
  HeartbeatsInTime =>
    \A m \in Masters :
      <>[]Running(m) => <>[](rows # <<>> /\ Head(rows).master = m)

----------------------------------------------------------------------------
(* The inductive invariant behind the theorems of MasterElectionProofs. *)

SomeoneGone == \E m \in Masters : pc[m] = "gone"

\* Who has not registered has no row, and the master at the head of the table
\* is running, unless one crashed or was stopped.
IInv ==
  /\ TypeOK /\ OneRowEach /\ SomeoneStays
  /\ \A i \in DOMAIN rows : pc[rows[i].master] \notin {"off", "insert"}
  /\ rows # <<>> => Running(Head(rows).master) \/ SomeoneGone
=============================================================================
