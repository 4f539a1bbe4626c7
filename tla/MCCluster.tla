------------------------------ MODULE MCCluster ------------------------------
(* Cluster as TLC checks it: the slaves, and the threads, are symmetric. *)
EXTENDS ClusterInvariants, TLC

FarmSymmetry == Permutations(Slaves) \cup Permutations(Threads)

\* each request has files of its own, or all have the same source
OwnFiles == [r \in Requests |-> r]
OneSource == [r \in Requests |-> "source"]

\* Bound: a transcode is submitted when those before it are finished, and each
\* has one cleanup job, which may still be to come.
OneAfterAnother ==
  /\ \A m, n \in Masters : m < n => Finished(m)
  /\ \A i, k \in Cleanups : info[i].master = info[k].master => i = k
=============================================================================
