--------------------------- MODULE MCKeyframeSplit ---------------------------
(* Small videos for TLC. *)
EXTENDS KeyframeSplit

CONSTANTS
  Length,    \* the duration of the videos
  MaxFrames  \* bound: their frames

Nth(T, i) == CHOOSE t \in T : Cardinality({x \in T : x < t}) = i - 1

VideoOf(T, K) ==
  [frames |-> [i \in 1 .. Cardinality(T) |->
                 [time |-> Nth(T, i), key |-> Nth(T, i) \in K]],
   duration |-> Length]

\* Every video with frames at some of the times before Length, any of them key
\* frames.
MCVideos ==
  UNION {{VideoOf(T, K) : K \in SUBSET T} :
           T \in {S \in SUBSET (0 .. Length - 1) : Cardinality(S) <= MaxFrames}}
=============================================================================
