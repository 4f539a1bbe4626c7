------------------------------ MODULE MCHandshake ------------------------------
(* Handshake for TLC. *)
EXTENDS Handshake, Naturals, FiniteSets, TLC

CONSTANT MaxUuids

\* Bound: the volumes and the slaves that have registered so far.  With 3 these
\* are two slaves at one volume, and one slave that meets two volumes.
Bounded == Cardinality(used) + Cardinality(servers \cup evicted) <= MaxUuids

\* The uuids are interchangeable.
Symmetry == Permutations(Slaves) \cup Permutations(Volumes)
=============================================================================
