---------------------------- MODULE MCScheduler ----------------------------
(* Instances of StreamScheduler for TLC: how many operations each stream has. *)
EXTENDS SchedulerProps, TLC

CONSTANTS s1, s2, s3

OneEach == [s \in Streams |-> 1]
TwoEach == [s \in Streams |-> 2]

Symmetry == Permutations(Streams)
=============================================================================
