--------------------------- MODULE ExclusiveWorker ---------------------------
(***************************************************************************)
(* What a worker promises its coordinators: it serves one run at a time,   *)
(* from Prepare until Collect, and the result it hands out is that run's   *)
(* own.  This is the contract in the comment on type Server                *)
(* (pkg/cluster/server.go); WorkerServer implements it with a lease.       *)
(***************************************************************************)

CONSTANTS Runs, None

VARIABLES
  owner,    (* the run being served, or None *)
  result    (* result[c]: whose result run c was given, None before *)

vars == <<owner, result>>

Init ==
  /\ owner = None
  /\ result = [c \in Runs |-> None]

(* A free worker takes a run. *)
Take(c) ==
  /\ owner = None
  /\ owner' = c
  /\ UNCHANGED result

(* The run being served gets its own result, once. *)
Deliver(c) ==
  /\ owner = c
  /\ result[c] = None
  /\ result' = [result EXCEPT ![c] = c]
  /\ UNCHANGED owner

(* The run ends, successfully or not. *)
Leave(c) ==
  /\ owner = c
  /\ owner' = None
  /\ UNCHANGED result

Next == \E c \in Runs : Take(c) \/ Deliver(c) \/ Leave(c)

Spec == Init /\ [][Next]_vars
=============================================================================
