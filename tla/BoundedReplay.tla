---------------------------- MODULE BoundedReplay ----------------------------
(***************************************************************************)
(* What runStreams (pkg/replay/scheduler.go) promises, without its          *)
(* goroutines: the operations of each stream are issued one at a time and   *)
(* in order, at most MaxInflight of them at once over all streams, and the  *)
(* run returns when every stream is finished or, cut short, when the last   *)
(* operation still in flight has come back.                                 *)
(***************************************************************************)
EXTENDS Naturals, FiniteSets

CONSTANTS Streams, NumOps, MaxInflight

VARIABLES
  done,      (* done[s]: operations of stream s completed *)
  running,   (* streams with an operation in flight *)
  cut,       (* the caller cancelled the run *)
  returned

vars == <<done, running, cut, returned>>

Init ==
  /\ done = [s \in Streams |-> 0]
  /\ running = {}
  /\ cut = FALSE
  /\ returned = FALSE

Issue(s) ==
  /\ ~returned
  /\ s \notin running
  /\ done[s] < NumOps[s]
  /\ Cardinality(running) < MaxInflight
  /\ running' = running \cup {s}
  /\ UNCHANGED <<done, cut, returned>>

Complete(s) ==
  /\ s \in running
  /\ running' = running \ {s}
  /\ done' = [done EXCEPT ![s] = @ + 1]
  /\ UNCHANGED <<cut, returned>>

Cut ==
  /\ cut' = TRUE
  /\ UNCHANGED <<done, running, returned>>

Return ==
  /\ running = {}
  /\ cut \/ done = NumOps
  /\ returned' = TRUE
  /\ UNCHANGED <<done, running, cut>>

Next == Cut \/ Return \/ \E s \in Streams : Issue(s) \/ Complete(s)

Spec == Init /\ [][Next]_vars
=============================================================================
