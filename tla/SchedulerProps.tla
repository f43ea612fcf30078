---------------------------- MODULE SchedulerProps ----------------------------
(* What runStreams guarantees, over every interleaving of its goroutines.    *)
EXTENDS StreamScheduler

Places == {"head", "pacing", "acquiring", "blocked", "counting", "loading",
           "swapping", "issuing", "busy", "addingOps", "addingBytes", "leaving",
           "releasing", "exited"}

Points == [ops : Nat, bytes : Nat]

TypeOK ==
  /\ pc \in [Streams -> Places]
  /\ idx \in [Streams -> Nat]
  /\ sem \in Nat /\ inflight \in Nat /\ depth \in Int /\ peak \in Int
  /\ cur \in [Streams -> Int] /\ old \in [Streams -> Int]
  /\ opsDone \in Nat /\ bytesDone \in Nat
  /\ moved \in [Streams -> {0, 1}]
  /\ rec \in [Streams -> Points]
  /\ cancelled \in BOOLEAN
  /\ ticker \in {"idle", "loaded", "stopped"}
  /\ tickOps \in Nat
  /\ series \in Seq(Points)
  /\ main \in {"waiting", "stopping", "returned"}
  /\ out.depth \in Int /\ out.series \in Seq(Points)
  /\ mark \in [Streams -> Nat]

(* The streams that hold a semaphore token, and those that are counted.      *)
Holding == {s \in Streams :
              pc[s] \notin {"head", "pacing", "acquiring", "blocked", "exited"}}
Counted == {s \in Holding : pc[s] \notin {"counting", "releasing"}}

(* The worker-level cap: no more operations are in the engine, and no more   *)
(* are reported as depth, than MaxInflight (scheduler.go:26, backlog_test.go *)
(* TestBacklog_TotalInflightCapped).                                         *)
CapRespected ==
  /\ Cardinality({s \in Streams : pc[s] = "busy"}) <= MaxInflight
  /\ depth <= MaxInflight

(* The depth reported with the results is the highest value the in-flight    *)
(* counter had: no update is lost to a concurrent one (scheduler.go:222).    *)
DepthIsPeak == main = "returned" => out.depth = peak

(* What is reported as depth is the true peak, and within the cap.           *)
DepthWithinCap == CapRespected /\ DepthIsPeak

(* The progress series never goes down and ends exactly in the totals of the *)
(* merged recorders, though it is sampled from other counters that the       *)
(* streams bump in two steps (scheduler.go:332).                             *)
SeriesEndsInTotals ==
  main = "returned" =>
    /\ out.series # <<>>
    /\ out.series[Len(out.series)] = out.total
    /\ \A i \in 1..(Len(out.series) - 1) :
         /\ out.series[i].ops <= out.series[i + 1].ops
         /\ out.series[i].bytes <= out.series[i + 1].bytes

(* After a cancellation no stream completes more than the one operation it   *)
(* was at, so an aborted run drains (scheduler.go:178).                      *)
CancelStopsStreams ==
  cancelled => \A s \in Streams : idx[s] <= mark[s] + 1

(* Nothing is left behind: when runStreams returns its goroutines have       *)
(* ended, so no progress callback follows and no token or count is missing   *)
(* (progress_internal_test.go:17).                                           *)
CleanTeardown ==
  main = "returned" =>
    /\ \A s \in Streams : pc[s] = "exited"
    /\ ticker = "stopped"
    /\ sem = 0 /\ inflight = 0

(* A cancelled run drains within one operation a stream, and however a run    *)
(* ends it leaves nothing running and nothing held.                           *)
CleanEnd == CancelStopsStreams /\ CleanTeardown

(* The run ends: semaphore, compare-and-swap loop and ticker never hold it   *)
(* up for good.                                                              *)
Returns == <>(main = "returned")

(* The goroutines implement the replay the caller asked for.                 *)
Replay == INSTANCE BoundedReplay WITH
  done     <- [s \in Streams |-> rec[s].ops],
  running  <- {s \in Streams : pc[s] = "busy"},
  cut      <- cancelled,
  returned <- main = "returned"

ImplementsReplay == Replay!Spec
=============================================================================
