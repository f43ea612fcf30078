--------------------------- MODULE ExperimentProps ---------------------------
(* What a reader of results files and exit statuses relies on.                 *)
EXTENDS Experiment

(* However the workers' samples fall into seconds, the one series made of     *)
(* them goes forward in time, never loses operations from one point to the     *)
(* next, claims none that were not done by the end of its second, misses none  *)
(* of a worker that had ended, and its differences add up to the totals that   *)
(* the same results report (scheduler.go:455).                                 *)
SecondOver(h, b) ==   (* the worker's total when second b of its run is over *)
  LET moment == Min({(b + 1) * Second, Len(doneAt[h])}) IN doneAt[h][moment]

SeriesWhole ==
  phase = "replaying" /\ ended = hosts =>
    /\ \A i, j \in DOMAIN Merged : i < j => Merged[i].at <= Merged[j].at /\ Merged[i].ops <= Merged[j].ops
    /\ Cardinality(hosts) > 1 => \A i, j \in DOMAIN Merged : i < j => Merged[i].at < Merged[j].at
    /\ SumFunction([i \in DOMAIN Merged |-> Merged[i].delta]) = OpsCompleted
    /\ Last(Merged).ops = OpsCompleted
    /\ \A i \in DOMAIN Merged :
         LET b == Bucket(Merged[i])
         IN  /\ Merged[i].ops <= SumFunction([h \in hosts |-> SecondOver(h, b)])
             /\ Cardinality(hosts) > 1 =>
                  Merged[i].ops >= SumFunction([h \in hosts |-> IF elapsed[h] \div Second < b THEN done[h] ELSE 0])

(* Statuses 0, 3 and 4 are given only if every trial was valid and there were  *)
(* as many as the policy asks for. If the declared budget can be put to the    *)
(* test, they are the sign test's answer to whether the treatment keeps it, at *)
(* 2.5% on either side, over the rounds as they were run, whichever arm came   *)
(* first: 3 if too many are beyond it, 0 if too few, else 4.  If it cannot,    *)
(* the status is 0 as well, and for nothing else: no budget, arms configured   *)
(* alike, fewer pairs than have an interval, a baseline without a duration     *)
(* (regression.go:66, experiment.go:203; that 0 means passed or not declared,  *)
(* as experiment.go:64 and README.md:370 have it, is not true of the last      *)
(* three).                                                                     *)
Delta(i) == measured[i]["treatment"].time - measured[i]["baseline"].time

Base == MedianTwice([i \in DOMAIN measured |-> measured[i]["baseline"].time])

Testable == study.threshold > 0 /\ study.treatment /\ Base # 0 /\ Unlikely(Len(measured), 0)

SignTest(percent) ==
  LET n    == Len(measured)
      over == Cardinality({i \in 1..n : Beyond(Delta(i), percent, Base)})
  IN  IF Unlikely(n, n - over) THEN 3
      ELSE IF Unlikely(n, over) THEN 0 ELSE 4

GateHonest ==
  phase = "over" /\ Paired /\ exit \in {0, 3, 4} =>
    /\ Len(measured) = study.trials /\ study.trials >= study.minTrials
    /\ \A i \in DOMAIN measured, a \in Arms : measured[i][a].valid
    /\ exit = IF Testable THEN SignTest(study.threshold) ELSE 0

(* At path are the results of before or these, whole, also after a crash in    *)
(* the middle; who is told that they were written, by a status other than an   *)
(* I/O failure, finds them there, and no temporary file besides, and for every *)
(* trial its row (results.go:319, run.go).                                     *)
FileWhole ==
  /\ NeverTorn
  /\ phase = "over" /\ exit \notin {1, 2} => file = "new"
  /\ phase = "over" /\ writing = "done" => file = "new" /\ temp = None
  /\ rows > 0 => writing \in {"done", "crashed"}
  /\ phase = "over" /\ study.csv /\ exit # 2 /\ writing = "done" => rows = Len(measured)
=============================================================================
