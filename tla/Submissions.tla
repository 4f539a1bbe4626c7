------------------------------ MODULE Submissions ------------------------------
(***************************************************************************)
(* check_xml_submits of fflock-storage.py: users write XML files to the    *)
(* volume, the main loop of the storage server submits their jobs and then *)
(* removes the file.  The storage server may end at any statement and is   *)
(* started again; a file it finds half written ends it; so does a job when *)
(* the master has removed the row of the volume.                           *)
(***************************************************************************)
EXTENDS Integers, Sequences, FiniteSets

CONSTANTS
  Files,        \* the XML files that users write
  Jobs,         \* the types of the jobs in each file, in order; the output of a
                \* transcode is a path on the volume
  MaxStops,     \* bound: the ends of the storage server by a signal or a crash
  MaxEvictions  \* bound: the removals of the row of a volume in use

ASSUME SubmissionsAssumption ==
  /\ Jobs \in [Files -> Seq({"transcode", "other"})]
  /\ MaxStops \in Nat /\ MaxEvictions \in Nat

VARIABLES
  file,       \* "absent", "partial" while it is written, "whole", "removed"
  times,      \* how often each job of each file was submitted
  at,         \* the statement of check_xml_submits
  found,      \* the files that glob returned and that are still to visit
  current,    \* the job it is at: its file and its place in the file
  volume,     \* whether the server has a row in Storage
  stops,      \* how often the server ended by a signal or a crash,
  evictions   \* and how often the master removed its row while it ran

localVars == <<found, current>>
vars == <<file, times, at, localVars, volume, stops, evictions>>

Nowhere == <<>>

TypeOK ==
  /\ file \in [Files -> {"absent", "partial", "whole", "removed"}]
  /\ times \in [Files -> Seq(Nat)]
  /\ \A f \in Files : DOMAIN times[f] = DOMAIN Jobs[f]
  /\ at \in {"loop", "files", "submit", "ended"}
  /\ found \subseteq Files
  /\ current = Nowhere \/ current \in Files \X Nat
  /\ (at = "submit") <=> current # Nowhere
  /\ volume \in BOOLEAN
  /\ stops \in 0 .. MaxStops /\ evictions \in 0 .. MaxEvictions

Init ==
  /\ file = [f \in Files |-> "absent"]
  /\ times = [f \in Files |-> [j \in DOMAIN Jobs[f] |-> 0]]
  /\ at = "loop" /\ found = {} /\ current = Nowhere
  /\ volume = FALSE
  /\ stops = 0 /\ evictions = 0

----------------------------------------------------------------------------
(* The users. *)

WriteFile(f) ==
  /\ \/ file[f] = "absent" /\ file' = [file EXCEPT ![f] = "partial"]
     \/ file[f] = "partial" /\ file' = [file EXCEPT ![f] = "whole"]
  /\ UNCHANGED <<times, at, localVars, volume, stops, evictions>>

----------------------------------------------------------------------------
(* The main loop. *)

\* Mutant of NextFile: the place in the file is kept.
NextFileAtPlace(rest) ==
  /\ at' = IF rest = {} THEN "loop" ELSE "files"
  /\ found' = rest
  /\ UNCHANGED current

NextFile(rest) ==
  /\ at' = IF rest = {} THEN "loop" ELSE "files"
  /\ found' = rest
  /\ current' = Nowhere

ServerEnds ==
  /\ at' = "ended"
  /\ found' = {}
  /\ current' = Nowhere

\* register_storage_volume, and the glob of check_xml_submits
Register ==
  /\ at = "loop"
  /\ volume' = TRUE
  /\ NextFile({f \in Files : file[f] \in {"partial", "whole"}})
  /\ UNCHANGED <<file, times, stops, evictions>>

\* Mutant of Parse: a whole file is taken for one without jobs.
ParseNoJobs(f) ==
  /\ at = "files"
  /\ f \in found
  /\ \/ file[f] = "partial" /\ ServerEnds
     \/ file[f] = "whole" /\ NextFile(found \ {f})
  /\ UNCHANGED <<file, times, volume, stops, evictions>>

\* minidom.parse raises at the end of a partial file.  A file without jobs stays.
Parse(f) ==
  /\ at = "files"
  /\ f \in found
  /\ \/ file[f] = "partial" /\ ServerEnds
     \/ file[f] = "whole" /\ Jobs[f] = <<>> /\ NextFile(found \ {f})
     \/ /\ file[f] = "whole" /\ Jobs[f] # <<>>
        /\ at' = "submit" /\ found' = found \ {f} /\ current' = <<f, 1>>
  /\ UNCHANGED <<file, times, volume, stops, evictions>>

\* Mutant of SubmitJob: the loop ends after the first job.
SubmitFirstJob ==
  /\ at = "submit"
  /\ LET f == current[1]
     IN  /\ current[2] = 1
         /\ times' = [times EXCEPT ![f][1] = @ + 1]
         /\ current' = <<f, Len(Jobs[f]) + 1>>
         /\ UNCHANGED <<at, found>>
  /\ UNCHANGED <<file, volume, stops, evictions>>

\* Jobs of another type are passed over.  Without a row in Storage ensure_dir
\* raises: it subscripts an empty list.
SubmitJob ==
  /\ at = "submit"
  /\ LET f == current[1]
         j == current[2]
     IN  /\ j <= Len(Jobs[f])
         /\ IF Jobs[f][j] = "transcode" /\ ~volume
              THEN ServerEnds /\ UNCHANGED times
              ELSE /\ times' = IF Jobs[f][j] = "transcode"
                                 THEN [times EXCEPT ![f][j] = @ + 1] ELSE times
                   /\ current' = <<f, j + 1>>
                   /\ UNCHANGED <<at, found>>
  /\ UNCHANGED <<file, volume, stops, evictions>>

\* Mutant of RemoveXml: a file is removed only when it was the last one found.
RemoveXmlAtEnd ==
  /\ at = "submit"
  /\ current[2] > Len(Jobs[current[1]])
  /\ file' = IF found = {} THEN [file EXCEPT ![current[1]] = "removed"] ELSE file
  /\ NextFile(found)
  /\ UNCHANGED <<times, volume, stops, evictions>>

RemoveXml ==
  /\ at = "submit"
  /\ current[2] > Len(Jobs[current[1]])
  /\ file' = [file EXCEPT ![current[1]] = "removed"]
  /\ NextFile(found)
  /\ UNCHANGED <<times, volume, stops, evictions>>

Server ==
  Register \/ (\E f \in Files : Parse(f)) \/ SubmitJob \/ RemoveXml

----------------------------------------------------------------------------
(* Ends, restarts and the master. *)

Stop ==
  /\ at # "ended"
  /\ stops < MaxStops
  /\ stops' = stops + 1
  /\ ServerEnds
  /\ UNCHANGED <<file, times, volume, evictions>>

\* a new process has a new uuid and no volume
Start ==
  /\ at = "ended"
  /\ at' = "loop"
  /\ volume' = FALSE
  /\ UNCHANGED <<file, times, localVars, stops, evictions>>

\* remove_stale_storage_servers, which has seen an old heartbeat
RemoveStaleVolume ==
  /\ at # "ended"
  /\ volume
  /\ evictions < MaxEvictions
  /\ volume' = FALSE
  /\ evictions' = evictions + 1
  /\ UNCHANGED <<file, times, at, localVars, stops>>

Next ==
  \/ \E f \in Files : WriteFile(f)
  \/ Server \/ Stop \/ Start \/ RemoveStaleVolume

Spec == Init /\ [][Next]_vars

\* The loop goes on, and somebody starts the storage server again.
FairSpec == Spec /\ WF_vars(Server) /\ WF_vars(Start)

----------------------------------------------------------------------------
(* Properties. *)

Transcodes(f) == {j \in DOMAIN Jobs[f] : Jobs[f][j] = "transcode"}

\* No job goes with its file: when a file is removed, each transcode it asks for
\* has been submitted, however often the server was started and whatever ended
\* it.
RemovedMeansSubmitted ==
  \A f \in Files : file[f] = "removed" => \A j \in Transcodes(f) : times[f][j] > 0

\* The rounds of submissions of a file that were followed by another one
RepeatsOf(f) == UNION {1 .. (times[f][j] - 1) : j \in Transcodes(f)}
Repeated == UNION {{f} \X RepeatsOf(f) : f \in Files}

\* Jobs are submitted again only for an end of the server between two of them,
\* or between the last and os.remove, and each such end repeats one file at most.
RepeatsForEnds ==
  Cardinality(Repeated) <= stops + evictions

\* When no file stays half written, each file with a job is taken in: restarts
\* and repeats come to an end.
FilesTakenIn ==
  (<>[](\A f \in Files : file[f] # "partial")) =>
    \A f \in Files :
      file[f] = "whole" /\ Jobs[f] # <<>> ~> file[f] = "removed"

----------------------------------------------------------------------------
(* The inductive invariant behind the theorems of SubmissionsProofs. *)

\* The transcodes before the job that the server is at have been submitted.
SubmittedBefore ==
  at = "submit" =>
    /\ current[2] > 0
    /\ \A j \in Transcodes(current[1]) : j < current[2] => times[current[1]][j] > 0

IInv == TypeOK /\ SubmittedBefore /\ RemovedMeansSubmitted

\* The server has submitted jobs of this file, and is still at it.
InHand(f) ==
  at = "submit" /\ current[1] = f /\ \E j \in Transcodes(f) : j < current[2]

\* The rounds that came to an end with the server: all but the last one, if
\* that one goes on or has removed the file.
EndedRounds(f) ==
  IF file[f] = "removed" \/ InHand(f) THEN RepeatsOf(f)
  ELSE UNION {1 .. times[f][j] : j \in Transcodes(f)}
Ended == UNION {{f} \X EndedRounds(f) : f \in Files}

\* Without its volume the server ends at the next transcode.
Doomed == IF at \in {"files", "submit"} /\ ~volume THEN 1 ELSE 0

\* A round submits jobs in their order: those the server has passed are one
\* round ahead.
InOrder ==
  /\ \A f \in Files : \A j, k \in Transcodes(f) : j < k => times[f][j] >= times[f][k]
  /\ at = "submit" =>
       \A j, k \in Transcodes(current[1]) :
         j < current[2] /\ current[2] <= k => times[current[1]][j] > times[current[1]][k]

\* Each end of a round has an end of the server or a removal of its own.
RepeatsInv ==
  /\ at = "submit" => file[current[1]] = "whole"
  /\ InOrder
  /\ IsFiniteSet(Ended) /\ Cardinality(Ended) + Doomed <= stops + evictions
=============================================================================
