---------------------------- MODULE MCSubmissions ----------------------------
(* Small XML files for TLC. *)
EXTENDS Submissions

CONSTANTS f1, f2, f3

\* two transcodes, a transcode after a job of another type, and no job
MCJobs ==
  [f \in {f1, f2, f3} |->
     CASE f = f1 -> <<"transcode", "transcode">>
       [] f = f2 -> <<"other", "transcode">>
       [] f = f3 -> <<>>]
=============================================================================
