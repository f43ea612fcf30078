---------------------------- MODULE WorkerServer ----------------------------
(***************************************************************************)
(* One replay worker: the gRPC Server (pkg/cluster/server.go) over its     *)
(* Session (pkg/cluster/worker.go), called by several coordinator runs.    *)
(* A run prepares, runs and collects through three RPCs.  Nothing in the   *)
(* RPCs identifies the run: the server only knows `inUse' and a lease      *)
(* deadline, the session only its current executor and output.  Each RPC   *)
(* handler takes the two mutexes several times, so it is several actions.  *)
(*                                                                         *)
(* Time is discrete.  `lease' is the time left until leaseDeadline, and    *)
(* `idle[c]' the time since run c last refreshed it.                       *)
(***************************************************************************)
EXTENDS Naturals

CONSTANTS Runs,     (* coordinator runs that use this worker, one attempt each *)
          None,     (* no run *)
          Lease,    (* Server.runLease *)
          Cadence,  (* the longest time between two progress ticks of a run,
                       or spent in a handler's straight-line code *)
          Gap       (* the longest time without a refresh while a trace is
                       received or materialized, or a coordinator waits
                       between two RPCs for its other workers *)

ASSUME RunsAssumption == None \notin Runs
ASSUME TimeAssumption == /\ Lease \in Nat \ {0}
                         /\ Cadence \in Nat
                         /\ Gap \in Nat
                         /\ Cadence < Lease

VARIABLES
  inUse,   (* Server.inUse *)
  lease,   (* time until Server.leaseDeadline, 0 once it has passed *)
  exec,    (* the run whose plan built Session.exec and Session.eng *)
  out,     (* Session.out *)
  closed,  (* runs whose engine shutdownEngine has released *)
  pc,      (* where run c is: between RPCs, or inside a handler *)
  alive,   (* FALSE once run c's coordinator died or cancelled its contexts *)
  idle,    (* time since run c last refreshed the lease *)
  prev,    (* PrepareReader's local `prev': the engine it replaced *)
  using,   (* Run's local `exec' *)
  got      (* what Collect returned to run c *)

serverVars  == <<inUse, lease>>
sessionVars == <<exec, out, closed>>
runVars     == <<pc, alive, idle, prev, using, got>>
vars        == <<inUse, lease, exec, out, closed, pc, alive, idle, prev, using, got>>

-----------------------------------------------------------------------------
NoOutput == [of |-> None, whole |-> FALSE]

(* A WorkerOutput: the run whose executor produced it, and whether that     *)
(* executor finished or was cancelled half-way.                             *)
Output == [of : Runs \cup {None}, whole : BOOLEAN]

PreparePhases == {"receiving", "materializing", "unprepared", "installed", "acking"}
RunPhases     == {"starting", "running", "stored", "aborted"}
Active        == PreparePhases \cup RunPhases \cup
                 {"prepared", "held", "ran", "collected", "uncollected"}
Phases        == Active \cup {"new", "failed", "done", "gone"}

(* What takes long and has no heartbeat of its own.  RunWorker has one.      *)
Waiting  == {"receiving", "materializing", "prepared", "ran"}
Bound(p) == IF p \in Waiting THEN Gap ELSE Cadence

Init ==
  /\ inUse = FALSE
  /\ lease = 0
  /\ exec = None
  /\ out = NoOutput
  /\ closed = {}
  /\ pc = [c \in Runs |-> "new"]
  /\ alive = [c \in Runs |-> TRUE]
  /\ idle = [c \in Runs |-> 0]
  /\ prev = [c \in Runs |-> None]
  /\ using = [c \in Runs |-> None]
  /\ got = [c \in Runs |-> NoOutput]

Goto(c, from, to) ==
  /\ pc[c] = from
  /\ pc' = [pc EXCEPT ![c] = to]

(* Mutant: a refresh adds a lease to what is left of it. *)
MutantRefreshAccumulates(c) ==
  /\ lease' = IF inUse THEN lease + Lease ELSE lease
  /\ idle' = [idle EXCEPT ![c] = 0]
  /\ UNCHANGED inUse

(* Server.refreshLease: extends the deadline of whichever run holds the     *)
(* worker; the caller is not identified.                                    *)
RefreshLease(c) ==
  /\ lease' = IF inUse THEN Lease ELSE lease
  /\ idle' = [idle EXCEPT ![c] = 0]
  /\ UNCHANGED inUse

(* Server.release: no owner check either. *)
Release ==
  /\ inUse' = FALSE
  /\ UNCHANGED <<lease, idle>>

(* Mutants: the deadline compared with one unit of slack; the deadline not   *)
(* looked at.                                                                *)
MutantBusySlack    == inUse /\ lease > 1
MutantBusyForever  == inUse

(* Server.acquire refuses exactly when a lease is running. *)
Busy == inUse /\ lease > 0

-----------------------------------------------------------------------------
(* PREPARE *)

(* Mutant: the error path of a refused Prepare releases the worker. *)
MutantPrepareBusyReleases(c) ==
  /\ Busy
  /\ Goto(c, "new", "failed")
  /\ Release
  /\ UNCHANGED <<sessionVars, alive, prev, using, got>>

(* Prepare or PrepareStream on a busy worker. *)
PrepareBusy(c) ==
  /\ Busy
  /\ Goto(c, "new", "failed")
  /\ UNCHANGED <<serverVars, sessionVars, alive, idle, prev, using, got>>

(* acquire succeeds; the streaming RPC receives chunks first, the unary one  *)
(* has the whole trace already.                                              *)
PrepareBegin(c) ==
  /\ ~Busy
  /\ \E first \in {"receiving", "materializing"} : Goto(c, "new", first)
  /\ inUse' = TRUE
  /\ lease' = Lease
  /\ idle' = [idle EXCEPT ![c] = 0]
  /\ UNCHANGED <<sessionVars, alive, prev, using, got>>

(* One trace chunk of the stream arrives. *)
PrepareChunk(c) ==
  /\ alive[c]
  /\ Goto(c, "receiving", "receiving")
  /\ RefreshLease(c)
  /\ UNCHANGED <<sessionVars, alive, prev, using, got>>

(* The client closes the stream: PrepareReader parses and materializes. *)
PrepareReceived(c) ==
  /\ alive[c]
  /\ Goto(c, "receiving", "materializing")
  /\ UNCHANGED <<serverVars, sessionVars, alive, idle, prev, using, got>>

(* A receive, parse, engine, validation or materialization error. *)
PrepareError(c) ==
  /\ \E from \in {"receiving", "materializing"} : Goto(c, from, "unprepared")
  /\ UNCHANGED <<serverVars, sessionVars, alive, idle, prev, using, got>>

(* The error path releases the worker and the coordinator aborts its run. *)
PrepareFail(c) ==
  /\ Goto(c, "unprepared", "failed")
  /\ Release
  /\ UNCHANGED <<sessionVars, alive, prev, using, got>>

(* PrepareReader swaps in the new executor and engine and drops the output. *)
PrepareInstall(c) ==
  /\ Goto(c, "materializing", "installed")
  /\ prev' = [prev EXCEPT ![c] = exec]
  /\ exec' = c
  /\ out' = NoOutput
  /\ UNCHANGED <<serverVars, closed, alive, idle, using, got>>

(* After unlocking, the replaced engine is shut down. *)
PrepareShutdown(c) ==
  /\ Goto(c, "installed", "acking")
  /\ closed' = closed \cup ({prev[c]} \ {None})
  /\ UNCHANGED <<serverVars, exec, out, alive, idle, prev, using, got>>

(* The ack reaches the coordinator, unless that one is gone. *)
PrepareAck(c) ==
  /\ Goto(c, "acking", IF alive[c] THEN "prepared" ELSE "gone")
  /\ RefreshLease(c)
  /\ UNCHANGED <<sessionVars, alive, prev, using, got>>

-----------------------------------------------------------------------------
(* RUN *)

(* held() finds the worker released: "run before prepare". *)
RunRefused(c) ==
  /\ ~inUse
  /\ Goto(c, "prepared", "failed")
  /\ UNCHANGED <<serverVars, sessionVars, alive, idle, prev, using, got>>

RunHeld(c) ==
  /\ inUse
  /\ Goto(c, "prepared", "held")
  /\ UNCHANGED <<serverVars, sessionVars, alive, idle, prev, using, got>>

RunRefresh(c) ==
  /\ Goto(c, "held", "starting")
  /\ RefreshLease(c)
  /\ UNCHANGED <<sessionVars, alive, prev, using, got>>

(* Session.Run reads the executor under the lock and replays unlocked.      *)
(* (A coordinator calls Run only after its ack, so the session has one.)    *)
RunSnapshot(c) ==
  /\ Goto(c, "starting", "running")
  /\ exec # None
  /\ using' = [using EXCEPT ![c] = exec]
  /\ UNCHANGED <<serverVars, sessionVars, alive, idle, prev, got>>

(* Mutant: the progress callback only sends, without refreshing. *)
MutantProgressSendsOnly(c) ==
  /\ Goto(c, "running", "running")
  /\ idle' = [idle EXCEPT ![c] = 0]
  /\ UNCHANGED <<serverVars, sessionVars, alive, prev, using, got>>

(* One tick of the scheduler's progress callback. *)
RunProgress(c) ==
  /\ Goto(c, "running", "running")
  /\ RefreshLease(c)
  /\ UNCHANGED <<sessionVars, alive, prev, using, got>>

(* RunWorker returns and Session.Run stores the output: the whole of it, or *)
(* the part done when the stream context was cancelled.                     *)
RunStore(c, whole) ==
  /\ whole \/ ~alive[c]
  /\ Goto(c, "running", IF whole THEN "stored" ELSE "aborted")
  /\ out' = [of |-> using[c], whole |-> whole]
  /\ UNCHANGED <<serverVars, exec, closed, alive, idle, prev, using, got>>

(* Mutant: Run returns without the refresh for the gap before Collect. *)
MutantReturnNoRefresh(c) ==
  /\ Goto(c, "stored", IF alive[c] THEN "ran" ELSE "gone")
  /\ idle' = [idle EXCEPT ![c] = 0]
  /\ UNCHANGED <<serverVars, sessionVars, alive, prev, using, got>>

RunReturn(c) ==
  /\ Goto(c, "stored", IF alive[c] THEN "ran" ELSE "gone")
  /\ RefreshLease(c)
  /\ UNCHANGED <<sessionVars, alive, prev, using, got>>

RunAbort(c) ==
  /\ Goto(c, "aborted", "failed")
  /\ Release
  /\ UNCHANGED <<sessionVars, alive, prev, using, got>>

-----------------------------------------------------------------------------
(* COLLECT *)

(* Session.Collect fails without an output, and otherwise returns it while  *)
(* keeping it.  The server releases the worker in both cases.               *)
CollectRead(c) ==
  /\ Goto(c, "ran", IF out = NoOutput THEN "uncollected" ELSE "collected")
  /\ got' = [got EXCEPT ![c] = out]
  /\ UNCHANGED <<serverVars, sessionVars, alive, idle, prev, using>>

CollectReturn(c) ==
  /\ \/ Goto(c, "collected", "done")
     \/ Goto(c, "uncollected", "failed")
  /\ Release
  /\ UNCHANGED <<sessionVars, alive, prev, using, got>>

-----------------------------------------------------------------------------
(* The coordinator of run c crashes, is interrupted, or aborts because of   *)
(* another worker.  Handlers in flight go on; nobody calls the next RPC.    *)
Abandon(c) ==
  /\ alive[c]
  /\ pc[c] \in Active
  /\ alive' = [alive EXCEPT ![c] = FALSE]
  /\ pc' = [pc EXCEPT ![c] = IF @ \in {"prepared", "ran"} THEN "gone" ELSE @]
  /\ UNCHANGED <<serverVars, sessionVars, idle, prev, using, got>>

(* One unit of time passes, unless a step is overdue. *)
Tick ==
  /\ \A c \in Runs : pc[c] \in Active => idle[c] < Bound(pc[c])
  /\ lease' = IF lease > 0 THEN lease - 1 ELSE 0
  /\ idle' = [c \in Runs |-> IF pc[c] \in Active THEN idle[c] + 1 ELSE 0]
  /\ UNCHANGED <<inUse, sessionVars, pc, alive, prev, using, got>>

-----------------------------------------------------------------------------
(* The steps of c's handlers inside the worker process. *)
Handler(c) ==
  \/ PrepareError(c) \/ PrepareReceived(c) \/ PrepareFail(c)
  \/ PrepareInstall(c) \/ PrepareShutdown(c) \/ PrepareAck(c)
  \/ RunRefresh(c) \/ RunSnapshot(c)
  \/ (\E whole \in BOOLEAN : RunStore(c, whole))
  \/ RunReturn(c) \/ RunAbort(c) \/ CollectReturn(c)

(* The steps of c's coordinator. *)
Coordinator(c) ==
  \/ PrepareBusy(c) \/ PrepareBegin(c)
  \/ RunRefused(c) \/ RunHeld(c) \/ CollectRead(c)
  \/ Abandon(c)

Next ==
  \/ \E c \in Runs : \/ Handler(c)
                     \/ Coordinator(c)
                     \/ PrepareChunk(c)
                     \/ RunProgress(c)
  \/ Tick

Spec == Init /\ [][Next]_vars

(* Handlers end (the trace is finite and the engine's calls return), the    *)
(* clock runs, and a run whose Prepare began calls its next RPC or dies.    *)
(* Nothing obliges a new run to begin.                                      *)
Fairness ==
  /\ \A c \in Runs : WF_vars(Handler(c))
  /\ \A c \in Runs : WF_vars(RunProgress(c))
  /\ \A c \in Runs : WF_vars(RunRefused(c) \/ RunHeld(c) \/ CollectRead(c) \/ Abandon(c))
  /\ WF_vars(Tick)

FairSpec == Spec /\ Fairness

-----------------------------------------------------------------------------
TypeOK ==
  /\ inUse \in BOOLEAN
  /\ lease \in 0..Lease
  /\ exec \in Runs \cup {None}
  /\ out \in Output
  /\ closed \subseteq Runs
  /\ pc \in [Runs -> Phases]
  /\ alive \in [Runs -> BOOLEAN]
  /\ idle \in [Runs -> Nat]
  /\ prev \in [Runs -> Runs \cup {None}]
  /\ using \in [Runs -> Runs \cup {None}]
  /\ got \in [Runs -> Output]
=============================================================================
