----------------------------- MODULE Coordinator -----------------------------
(***************************************************************************)
(* Coordinator.Run (pkg/cluster/coordinator.go): one run driven over the   *)
(* workers 1..N through REGISTER, PREPARE, RUN and COLLECT.  A worker is   *)
(* seen through the Worker interface: each call succeeds, fails on its own *)
(* account, or, for Run, returns because its context was cancelled.  The   *)
(* goroutines of PREPARE and RUN are the per-worker actions; wg.Wait is    *)
(* the guard of the action that follows them.  The caller's own context is *)
(* never cancelled: every command passes context.Background() (run.go:237, *)
(* experiment.go:125, calibrate.go:175).                                   *)
(***************************************************************************)
EXTENDS Naturals, FiniteSets

CONSTANTS N,           (* number of workers *)
          NumStreams,  (* distinct stream ids in the trace, in sorted order *)
          Scope,       (* resolved PrepareScope *)
          Remote       (* workers are reached over gRPC, not in-process *)

ASSUME WorkersAssumption == N \in Nat \ {0} /\ NumStreams \in Nat
ASSUME ScopeAssumption == Scope \in {"shared", "per-worker"}
ASSUME RemoteAssumption == Remote \in BOOLEAN

Workers == 1..N
Streams == 1..NumStreams

VARIABLES
  phase,      (* where Run is *)
  next,       (* the loop index of REGISTER and COLLECT *)
  at,         (* at[w]: what the calls to worker w have come to *)
  dataset,    (* the workers whose Prepare has put the dataset in place *)
  cancelled,  (* runCtx is cancelled *)
  runErr,     (* runErrs *)
  collected,  (* the streams in each collected WorkerOutput *)
  outcome,    (* what Run returned *)
  blamed      (* the worker the returned error names, 0 for none *)

vars == <<phase, next, at, dataset, cancelled, runErr, collected, outcome, blamed>>

-----------------------------------------------------------------------------
(* partitionStreams: round-robin over the sorted ids. *)
Assigned(w) == {s \in Streams : (s - 1) % N = w - 1}

(* prepareWorkers: under the shared scope worker 1 alone materializes and    *)
(* the others check what it wrote ("assume-existing").                       *)
Materializes(w) == Scope = "per-worker" \/ w = 1

(* Where worker w finds its dataset: one store, or one per node. *)
DatasetReady(w) == IF Scope = "shared" THEN 1 \in dataset ELSE w \in dataset

Lowest(S) == CHOOSE w \in S : \A v \in S : w <= v

(* errors.Is(err, context.Canceled).  A worker in this process returns       *)
(* ctx.Err() itself.  A remote call returns a gRPC status error, which wraps *)
(* no context error.                                                         *)
IsCanceled(err) == err = "canceled" /\ ~Remote

(* Mutant: the first error of any kind. *)
MutantFirstError(errs) == Lowest({w \in Workers : errs[w] # "none"})

(* firstRunError: the lowest worker whose error is not a cancellation, and   *)
(* the lowest with any error otherwise.                                      *)
FirstRunError(errs) ==
  LET failed == {w \in Workers : errs[w] # "none"}
      own    == {w \in failed : ~IsCanceled(errs[w])}
  IN  IF own # {} THEN Lowest(own) ELSE Lowest(failed)

Init ==
  /\ phase = "register"
  /\ next = 1
  /\ at = [w \in Workers |-> "idle"]
  /\ dataset = {}
  /\ cancelled = FALSE
  /\ runErr = [w \in Workers |-> "none"]
  /\ collected = [w \in Workers |-> {}]
  /\ outcome = "none"
  /\ blamed = 0

Return(result, w) ==
  /\ phase' = "returned"
  /\ outcome' = result
  /\ blamed' = w

At(w, from, to) ==
  /\ at[w] = from
  /\ at' = [at EXCEPT ![w] = to]

-----------------------------------------------------------------------------
(* REGISTER, one worker after the other; the last one starts PREPARE.        *)
Register ==
  /\ phase = "register"
  /\ IF next < N
     THEN next' = next + 1 /\ UNCHANGED <<phase, at>>
     ELSE /\ phase' = "prepare"
          /\ at' = [w \in Workers |-> IF Materializes(w) THEN "preparing" ELSE "idle"]
          /\ UNCHANGED next
  /\ UNCHANGED <<dataset, cancelled, runErr, collected, outcome, blamed>>

(* Unreachable worker or version mismatch. *)
RegisterError ==
  /\ phase = "register"
  /\ Return("error", next)
  /\ UNCHANGED <<next, at, dataset, cancelled, runErr, collected>>

(* PREPARE.  A worker that only verifies fails if the dataset is missing.    *)
PrepareAck(w) ==
  /\ phase = "prepare"
  /\ Materializes(w) \/ DatasetReady(w)
  /\ At(w, "preparing", "prepared")
  /\ dataset' = IF Materializes(w) THEN dataset \cup {w} ELSE dataset
  /\ UNCHANGED <<phase, next, cancelled, runErr, collected, outcome, blamed>>

PrepareError(w) ==
  /\ phase = "prepare"
  /\ At(w, "preparing", "unprepared")
  /\ UNCHANGED <<phase, next, dataset, cancelled, runErr, collected, outcome, blamed>>

(* Shared scope: once worker 1 is done the others verify, concurrently.      *)
StartVerify ==
  /\ phase = "prepare"
  /\ at[1] = "prepared"
  /\ \A w \in Workers : ~Materializes(w) => at[w] = "idle"
  /\ \E w \in Workers : ~Materializes(w)
  /\ at' = [w \in Workers |-> IF Materializes(w) THEN at[w] ELSE "preparing"]
  /\ UNCHANGED <<phase, next, dataset, cancelled, runErr, collected, outcome, blamed>>

(* After wg.Wait of the PREPARE barrier: the first error by index aborts.    *)
PrepareAbort ==
  /\ phase = "prepare"
  /\ \A w \in Workers : at[w] # "preparing"
  /\ \E w \in Workers : at[w] = "unprepared"
  /\ Return("error", Lowest({w \in Workers : at[w] = "unprepared"}))
  /\ UNCHANGED <<next, at, dataset, cancelled, runErr, collected>>

(* Mutant: RUN starts as soon as no worker has failed to prepare. *)
MutantStartRunEarly ==
  /\ phase = "prepare"
  /\ \A w \in Workers : at[w] # "unprepared"
  /\ phase' = "run"
  /\ at' = [w \in Workers |-> "starting"]
  /\ UNCHANGED <<next, dataset, cancelled, runErr, collected, outcome, blamed>>

StartRun ==
  /\ phase = "prepare"
  /\ \A w \in Workers : at[w] = "prepared"
  /\ phase' = "run"
  /\ at' = [w \in Workers |-> "starting"]
  /\ UNCHANGED <<next, dataset, cancelled, runErr, collected, outcome, blamed>>

-----------------------------------------------------------------------------
(* RUN: one goroutine per worker. *)
RunBegin(w) ==
  /\ At(w, "starting", "running")
  /\ UNCHANGED <<phase, next, dataset, cancelled, runErr, collected, outcome, blamed>>

RunOK(w) ==
  /\ At(w, "running", "finished")
  /\ UNCHANGED <<phase, next, dataset, cancelled, runErr, collected, outcome, blamed>>

(* Mutant: the error is recorded but nobody is cancelled. *)
MutantErrorNoCancel(w, err) ==
  /\ err = "canceled" => cancelled
  /\ At(w, "running", "errored")
  /\ runErr' = [runErr EXCEPT ![w] = err]
  /\ UNCHANGED <<phase, next, dataset, cancelled, collected, outcome, blamed>>

(* Run fails: the error is recorded and every other worker is cancelled.     *)
RunError(w, err) ==
  /\ err = "canceled" => cancelled
  /\ At(w, "running", "errored")
  /\ runErr' = [runErr EXCEPT ![w] = err]
  /\ cancelled' = TRUE
  /\ UNCHANGED <<phase, next, dataset, collected, outcome, blamed>>

(* Mutant: the first error ends the wait. *)
MutantRunsOverAtError ==
  /\ phase = "run"
  /\ \/ \A w \in Workers : at[w] \in {"finished", "errored"}
     \/ \E w \in Workers : at[w] = "errored"

(* After wg.Wait, the DONE barrier. *)
RunsOver == phase = "run" /\ \A w \in Workers : at[w] \in {"finished", "errored"}

RunAbort ==
  /\ RunsOver
  /\ \E w \in Workers : runErr[w] # "none"
  /\ Return("error", FirstRunError(runErr))
  /\ UNCHANGED <<next, at, dataset, cancelled, runErr, collected>>

StartCollect ==
  /\ RunsOver
  /\ \A w \in Workers : runErr[w] = "none"
  /\ phase' = "collect"
  /\ next' = 1
  /\ UNCHANGED <<at, dataset, cancelled, runErr, collected, outcome, blamed>>

-----------------------------------------------------------------------------
(* Mutant: the loop runs one index too far. *)
MutantCollectOverrun ==
  /\ phase = "collect"
  /\ At(next, "finished", "collected")
  /\ collected' = [collected EXCEPT ![next] = Assigned(next)]
  /\ next' = next + 1
  /\ UNCHANGED <<phase, outcome, blamed, dataset, cancelled, runErr>>

(* COLLECT, one worker after the other; the last output completes the run.   *)
Collect ==
  /\ phase = "collect"
  /\ At(next, "finished", "collected")
  /\ collected' = [collected EXCEPT ![next] = Assigned(next)]
  /\ IF next < N
     THEN next' = next + 1 /\ UNCHANGED <<phase, outcome, blamed>>
     ELSE Return("results", 0) /\ UNCHANGED next
  /\ UNCHANGED <<dataset, cancelled, runErr>>

CollectError ==
  /\ phase = "collect"
  /\ Return("error", next)
  /\ UNCHANGED <<next, at, dataset, cancelled, runErr, collected>>

-----------------------------------------------------------------------------
Terminated == phase = "returned" /\ UNCHANGED vars

Next ==
  \/ Register \/ RegisterError
  \/ StartVerify \/ PrepareAbort \/ StartRun
  \/ RunAbort \/ StartCollect
  \/ Collect \/ CollectError
  \/ \E w \in Workers :
       \/ PrepareAck(w) \/ PrepareError(w)
       \/ RunBegin(w) \/ RunOK(w)
       \/ \E err \in {"own", "canceled"} : RunError(w, err)
  \/ Terminated

Spec == Init /\ [][Next]_vars

(* The coordinator's own steps are taken, every RPC outside RUN returns, and *)
(* a Run call returns once its context is cancelled.  Nothing bounds a       *)
(* replay that is not cancelled.                                             *)
Fairness ==
  /\ WF_vars(Register \/ StartVerify \/ PrepareAbort \/ StartRun
             \/ RunAbort \/ StartCollect \/ Collect)
  /\ \A w \in Workers : /\ WF_vars(PrepareAck(w) \/ PrepareError(w))
                        /\ WF_vars(RunBegin(w))
                        /\ WF_vars(RunError(w, "canceled"))

FairSpec == Spec /\ Fairness
=============================================================================
