------------------------------ MODULE HostSeries ------------------------------
(* The progress series of a distributed run: each worker samples its own       *)
(* total on a ticker and at its end (replay/scheduler.go, runStreams), and     *)
(* BuildResults makes one series of them all (mergeTimeSeries).  Operations    *)
(* stand for bytes too, which are treated alike.                               *)
EXTENDS Integers, Sequences, SequencesExt

CONSTANTS
  Second,              (* time.Second *)
  MaxElapsed, MaxOps, MaxTicks   (* bounds on each worker *)

ASSUME SecondAssumption == Second \in Nat \ {0}

VARIABLES
  hosts,      (* the workers of this run *)
  elapsed,    (* each one's time since its start *)
  done,       (* its running total *)
  series,     (* its progress points *)
  ended,      (* those which have returned their output *)
  doneAt      (* history: its total at each moment *)

hostVars == <<hosts, elapsed, done, series, ended, doneAt>>

HostsInit ==
  /\ hosts = {} /\ ended = {}
  /\ elapsed = <<>> /\ done = <<>> /\ series = <<>> /\ doneAt = <<>>

(* Fresh workers for a run; none between two runs. *)
Workers(hs) ==
  /\ hosts' = hs
  /\ elapsed' = [h \in hs |-> 0]
  /\ done' = [h \in hs |-> 0]
  /\ series' = [h \in hs |-> <<>>]
  /\ ended' = {}
  /\ doneAt' = [h \in hs |-> <<0>>]

Running(h) == h \in hosts \ ended

Pass(h) ==
  /\ Running(h) /\ elapsed[h] < MaxElapsed
  /\ elapsed' = [elapsed EXCEPT ![h] = @ + 1]
  /\ doneAt' = [doneAt EXCEPT ![h] = Append(@, done[h])]
  /\ UNCHANGED <<hosts, done, series, ended>>

Complete(h) ==
  /\ Running(h) /\ done[h] < MaxOps
  /\ done' = [done EXCEPT ![h] = @ + 1]
  /\ doneAt' = [doneAt EXCEPT ![h][elapsed[h] + 1] = done[h] + 1]
  /\ UNCHANGED <<hosts, elapsed, series, ended>>

Point(h) == [at |-> elapsed[h], ops |-> done[h]]

(* The ticker fires late or not at all; more often than once a second when the *)
(* worker is told so (ProgressInterval).                                       *)
Tick(h) ==
  /\ Running(h) /\ Len(series[h]) < MaxTicks
  /\ series' = [series EXCEPT ![h] = Append(@, Point(h))]
  /\ UNCHANGED <<hosts, elapsed, done, ended, doneAt>>

(* The totals make a last point, unless the series ends in them. *)
End(h) ==
  /\ Running(h)
  /\ series' = [series EXCEPT ![h] =
                  IF @ = <<>> \/ Last(@).ops # done[h] THEN Append(@, Point(h)) ELSE @]
  /\ ended' = ended \cup {h}
  /\ UNCHANGED <<hosts, elapsed, done, doneAt>>

-----------------------------------------------------------------------------
Bucket(point) == point.at \div Second
Buckets == UNION {{Bucket(series[h][i]) : i \in DOMAIN series[h]} : h \in hosts}

(* A worker's last point in these buckets; nothing before its first. *)
LastIn(h, buckets) ==
  LET points == {i \in DOMAIN series[h] : Bucket(series[h][i]) \in buckets}
  IN  IF points = {} THEN 0 ELSE series[h][Max(points)].ops

(* Mutant: a worker without a sample in the bucket counts for nothing. *)
MutantTotalAt(b) == SumFunction([h \in hosts |-> LastIn(h, {b})])

(* lastByHost: a worker's last point is carried on. *)
TotalAt(b) == SumFunction([h \in hosts |-> LastIn(h, 0..b)])

SortedBuckets ==
  CHOOSE bs \in [1..Cardinality(Buckets) -> Buckets] : \A i, j \in DOMAIN bs : i < j => bs[i] < bs[j]

(* mergeTimeSeries: one point for every bucket anyone sampled in; one worker's *)
(* series is taken as it is.                                                   *)
Merged ==
  IF Cardinality(hosts) = 1
  THEN LET s == series[CHOOSE h \in hosts : TRUE]
       IN  [i \in DOMAIN s |-> [at |-> s[i].at, ops |-> s[i].ops,
                                delta |-> s[i].ops - (IF i = 1 THEN 0 ELSE s[i - 1].ops)]]
  ELSE LET bs == SortedBuckets
       IN  [i \in DOMAIN bs |-> [at |-> bs[i] * Second, ops |-> TotalAt(bs[i]),
                                 delta |-> TotalAt(bs[i]) - (IF i = 1 THEN 0 ELSE TotalAt(bs[i - 1]))]]

(* Build: the counters of the merged recorders. *)
OpsCompleted == SumFunction(done)
=============================================================================
