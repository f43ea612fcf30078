----------------------------- MODULE MCExperiment -----------------------------
(* Studies for TLC. *)
EXTENDS ExperimentProps, TLC

CONSTANTS h1, h2

Symmetry == Permutations({h1, h2})

Study(command, n) ==
  [command |-> command, trials |-> n, warmup |-> 0, csv |-> FALSE, faults |-> FALSE,
   hosts |-> [baseline |-> {}, treatment |-> {}], minTrials |-> 6, maxCV |-> 5, threshold |-> 7, treatment |-> TRUE,
   times |-> [baseline |-> {100}, treatment |-> {104, 109}]]

(* Pairs around the threshold: an interval over all six, and of nine pairs     *)
(* from the second to the eighth.                                              *)
Thresholds == {Study("experiment", 6), [Study("experiment", 9) EXCEPT !.minTrials = 9]}

(* Exactly at the threshold, both arms varying. *)
AtThreshold ==
  {[Study("experiment", 6) EXCEPT !.times = [baseline |-> {96, 104}, treatment |-> {103, 112}]]}

(* Refused or not decided: failures, too many failed, noise, no treatment, no  *)
(* threshold, too few for an interval.                                         *)
Refused ==
  {[Study("experiment", 3) EXCEPT !.faults = TRUE, !.warmup = 1, !.minTrials = 2],
   [Study("experiment", 3) EXCEPT !.minTrials = 4],
   [Study("experiment", 6) EXCEPT !.maxCV = 2],
   [Study("experiment", 6) EXCEPT !.treatment = FALSE],
   [Study("experiment", 6) EXCEPT !.threshold = 0],
   [Study("experiment", 5) EXCEPT !.minTrials = 5]}

RunStudies == {[Study("run", 2) EXCEPT !.warmup = 1, !.csv = TRUE, !.faults = TRUE]}

(* Runs of one worker and of two; experiments whose arms run on workers of    *)
(* their own, or one of them in this process.                                  *)
Distributed ==
  {[Study("run", 1) EXCEPT !.hosts.baseline = hs, !.faults = TRUE] : hs \in {{h1}, {h1, h2}}}
    \cup {[Study("experiment", 1) EXCEPT !.hosts = [baseline |-> {h1}, treatment |-> hs],
             !.faults = TRUE, !.minTrials = 1] : hs \in {{}, {h2}}}

AllStudies == Thresholds \cup AtThreshold \cup Refused \cup RunStudies \cup Distributed
=============================================================================
