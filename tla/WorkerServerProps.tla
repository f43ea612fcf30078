-------------------------- MODULE WorkerServerProps --------------------------
(***************************************************************************)
(* What WorkerServer guarantees.  The properties of the first group hold   *)
(* for every Gap; those of the second need Gap < Lease, which no timeout   *)
(* in the code enforces.                                                   *)
(***************************************************************************)
EXTENDS WorkerServer

(* Whatever other handlers do, a run that is replaying never sees its       *)
(* worker's lease run out: its progress tick arrives first (server.go:188). *)
LiveRunKeepsLease ==
  \A c \in Runs : pc[c] \in RunPhases /\ inUse => lease > 0

(* A worker that coordinators abandoned at any point accepts a new run      *)
(* again after a while (server.go:31).                                      *)
NeverWedged == []<>~Busy

-----------------------------------------------------------------------------
(* The worker serves one run at a time, from acquire to release             *)
(* (server.go:29).                                                          *)
OneRunAtATime ==
  \A c, d \in Runs : pc[c] \in Active /\ pc[d] \in Active => c = d

(* Until a run collects, Session.out stays what its Run stored: the whole   *)
(* output of its own executor.  An overlapping run cannot clobber it        *)
(* (server.go:30).                                                          *)
PendingResultIntact ==
  \A c \in Runs : pc[c] = "ran" => out = [of |-> c, whole |-> TRUE]

(* What Collect returns is never another run's output, nor a cancelled one. *)
OwnResult ==
  \A c \in Runs : got[c] # NoOutput => got[c] = [of |-> c, whole |-> TRUE]

(* The engine a run issues its operations to has not been shut down by a    *)
(* later Prepare (worker.go:148).                                           *)
NoRunOnClosedEngine ==
  \A c \in Runs : pc[c] = "running" => using[c] \notin closed

(* From Run to Collect and after it, no other run comes between a run and   *)
(* its result, nor between its replay and its engine.                       *)
ResultSafe == PendingResultIntact /\ OwnResult /\ NoRunOnClosedEngine

(* The worker implements its contract, ownership being held by the run      *)
(* between acquire and release.                                             *)
Owner == IF \E c \in Runs : pc[c] \in Active
         THEN CHOOSE c \in Runs : pc[c] \in Active
         ELSE None

Contract == INSTANCE ExclusiveWorker
              WITH owner <- Owner, result <- [c \in Runs |-> got[c].of]

ImplementsContract == Contract!Spec
=============================================================================
