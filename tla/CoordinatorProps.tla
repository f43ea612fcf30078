--------------------------- MODULE CoordinatorProps ---------------------------
(* What Coordinator guarantees its caller, whatever the workers do.          *)
EXTENDS Coordinator

WorkerStates == {"idle", "preparing", "prepared", "unprepared", "starting",
                 "running", "finished", "errored", "collected"}

TypeOK ==
  /\ phase \in {"register", "prepare", "run", "collect", "returned"}
  /\ next \in Workers
  /\ at \in [Workers -> WorkerStates]
  /\ dataset \subseteq Workers
  /\ cancelled \in BOOLEAN
  /\ runErr \in [Workers -> {"none", "own", "canceled"}]
  /\ collected \in [Workers -> SUBSET Streams]
  /\ outcome \in {"none", "results", "error"}
  /\ blamed \in 0..N

(* The PREPARE barrier: nothing is replayed anywhere while some worker has   *)
(* not acknowledged or its dataset is not in place (coordinator.go:113,      *)
(* worker.go:66).                                                            *)
Replaying == {w \in Workers : at[w] \in {"running", "finished", "errored", "collected"}}

PrepareBarrier ==
  Replaying # {} =>
    \A w \in Workers : /\ at[w] \notin {"idle", "preparing", "prepared", "unprepared"}
                       /\ DatasetReady(w)

(* A worker told to assume an existing dataset looks for it only after the   *)
(* materializing worker has finished writing it.                             *)
VerifyAfterMaterialize ==
  \A w \in Workers : at[w] = "preparing" => Materializes(w) \/ DatasetReady(w)

(* The phases keep their order on every worker: write the dataset, look for  *)
(* it, replay.                                                               *)
PhaseOrder == PrepareBarrier /\ VerifyAfterMaterialize

(* Results are all or nothing: they are returned only when every worker ran  *)
(* and was collected without an error, and then hold every stream of the     *)
(* trace exactly once (coordinator.go:78).                                   *)
AllOrNothing ==
  outcome = "results" =>
    /\ \A w \in Workers : at[w] = "collected" /\ runErr[w] = "none"
    /\ \A s \in Streams : \E w \in Workers : s \in collected[w]
    /\ \A v, w \in Workers : v # w => collected[v] \cap collected[w] = {}

(* Run returns only after all its goroutines ended: no call to a worker is   *)
(* still in flight when the caller closes the connections.                   *)
NoCallInFlight ==
  phase = "returned" =>
    \A w \in Workers : at[w] \notin {"preparing", "starting", "running"}

(* Run returns whole results or none, and leaves no call behind.             *)
WholeReturn == AllOrNothing /\ NoCallInFlight

(* The error of an aborted run names a worker that failed on its own         *)
(* account, not one that was cancelled because of it (coordinator.go:173).   *)
RootCause ==
  phase = "returned" /\ (\E w \in Workers : runErr[w] = "own")
    => blamed # 0 /\ runErr[blamed] = "own"

(* Any error during RUN ends the whole run, although the other workers would *)
(* otherwise replay for as long as their trace takes (coordinator.go:146).   *)
ErrorAborts ==
  (\E w \in Workers : at[w] = "errored") ~> (outcome = "error")
=============================================================================
