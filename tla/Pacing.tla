-------------------------------- MODULE Pacing --------------------------------
(* When the operations of one stream are issued (replay/scheduler.go): as fast *)
(* as they go, at their recorded times, sped up or not, or after the pauses    *)
(* that the program made between them.  Times count from the start of the run. *)
EXTENDS TraceFormat

(* Mutant: the pause is taken for the time between two arrivals. *)
MutantThinkGap(prev, cur) ==
  IF prev.dur = None \/ cur.t < prev.t THEN 0 ELSE cur.t - prev.t

(* thinkGapNS *)
ThinkGap(prev, cur) ==
  IF prev.dur = None \/ cur.t < prev.t + prev.dur THEN 0 ELSE cur.t - (prev.t + prev.dur)

(* intendedArrival of the i-th operation, the one before it being done. *)
Due(ops, mode, i, done) ==
  CASE mode.name = "timeline"        -> ops[i].t \div mode.speedup
    [] mode.name = "think" /\ i = 1  -> ops[i].t
    [] mode.name = "think"           -> done + ThinkGap(ops[i - 1], ops[i])
    [] OTHER                         -> 0

(* The stream's loop, for operations that take the engine so long and wait so  *)
(* long for the semaphore.                                                     *)
Played(ops, mode, service, held) ==
  LET step[i \in DOMAIN ops] ==
        LET done  == IF i = 1 THEN 0 ELSE step[i - 1].done
            due   == Due(ops, mode, i, done)
            start == (IF done < due THEN due ELSE done) + held[i]
        IN  [due |-> due, start |-> start, done |-> start + service[i]]
  IN  step

(* What the recorder is told. *)
Drift(step)   == step.start - step.due
Latency(mode, step) == step.done - (IF mode.name = "asap" THEN step.start ELSE step.due)

(* prepareInternal: there is no think time without durations. *)
Playable(ops, mode) == mode.name = "think" => \E i \in DOMAIN ops : ops[i].dur # None
=============================================================================
