------------------------------ MODULE Experiment ------------------------------
(***************************************************************************)
(* The commands that measure (cmd/ioflux/run.go, experiment.go): warmup and *)
(* measured rounds of one configuration or of two in a drawn order, the     *)
(* statistics, the results file, the CSV rows and the exit status.  A       *)
(* study is what is given on the command line and in the config.            *)
(***************************************************************************)
EXTENDS TrialStats, HostSeries, ResultFile

CONSTANTS Studies

(* Only `run' has a flag for a CSV file. *)
ASSUME StudiesAssumption ==
  \A st \in Studies :
    /\ st.trials \in Nat /\ st.warmup \in Nat
    /\ st.csv => st.command = "run"
    /\ st.threshold \in Int /\ st.minTrials \in Int
    /\ \A a \in {"baseline", "treatment"} : st.times[a] \subseteq Nat /\ IsFiniteSet(st.hosts[a])

VARIABLES
  study, phase,
  round,     (* warmup rounds included *)
  order,     (* arms of this round still to run *)
  trials,    (* the measured results of each arm, in the order they came *)
  measured,  (* history: what each arm measured in each measured round; None before *)
  rows,      (* of the CSV file *)
  exit       (* the exit status; None while the command runs *)

studyVars == <<study, phase, round, order, trials, measured, rows, exit>>
vars == <<hostVars, fileVars, studyVars>>

Arms == {"baseline", "treatment"}
Paired == study.command = "experiment"

Init ==
  /\ study \in Studies
  /\ phase = "between"
  /\ round = 0
  /\ order = <<>>
  /\ trials = [a \in Arms |-> <<>>]
  /\ measured = <<>>
  /\ rows = 0
  /\ exit = None
  /\ HostsInit
  /\ FileInit

Exits(status) == phase' = "over" /\ exit' = status

-----------------------------------------------------------------------------
(* Rounds. *)
Warming == round <= study.warmup
Rounds == study.warmup + study.trials

(* An arm's trial: in this process, or on the hosts of its configuration,      *)
(* with workers of its own.                                                    *)
Executing(arm) == IF study.hosts[arm] = {} THEN "measuring" ELSE "replaying"

(* orderedArms; of a run there is one arm. *)
NextRound(first) ==
  /\ phase = "between" /\ round < Rounds
  /\ round' = round + 1
  /\ order' = IF Paired THEN <<first>> \o SetToSeq(Arms \ {first}) ELSE <<"baseline">>
  /\ first # "baseline" => Paired
  /\ phase' = Executing(first)
  /\ measured' = IF round < study.warmup THEN measured ELSE Append(measured, [a \in Arms |-> None])
  /\ Workers(study.hosts[first])
  /\ UNCHANGED <<fileVars, study, trials, rows, exit>>

Filed(arm, result) == [trials EXCEPT ![arm] = Append(@, result)]

(* A trial's result, valid or not: operations failed, samples overflowed.      *)
Measured(result) ==
  LET arm  == Head(order)
      rest == Tail(order)
  IN  /\ ~result.valid => study.faults
      /\ trials' = IF Warming THEN trials ELSE Filed(arm, result)
      /\ measured' = IF Warming THEN measured
                     ELSE [measured EXCEPT ![Len(measured)][arm] = result]
      /\ order' = rest
      /\ phase' = IF rest = <<>> THEN "between" ELSE Executing(Head(rest))
      /\ Workers(IF rest = <<>> THEN {} ELSE study.hosts[Head(rest)])
      /\ UNCHANGED <<fileVars, study, round, rows, exit>>

(* runArm: it gives a duration, or fails (the coordinator's error).            *)
RunArm(time, valid) ==
  /\ phase = "measuring"
  /\ time \in study.times[Head(order)]
  /\ Measured([time |-> time, valid |-> valid])

RunFails ==
  /\ phase \in {"measuring", "replaying"} /\ study.faults
  /\ Exits(1)
  /\ Workers({})
  /\ UNCHANGED <<fileVars, study, round, order, trials, measured, rows>>

(* A distributed run, in its workers' steps, until all have returned; then     *)
(* runOnce closes them.                                                        *)
Replay ==
  /\ phase = "replaying"
  /\ \E h \in hosts : Pass(h) \/ Complete(h) \/ Tick(h) \/ End(h)
  /\ UNCHANGED <<fileVars, studyVars>>

Collected(valid) ==
  /\ phase = "replaying" /\ ended = hosts
  /\ Measured([time |-> Max({elapsed[h] : h \in hosts}), valid |-> valid])

-----------------------------------------------------------------------------
(* Statistics: BuildTrialSet, CompareTrialSets, BuildPaired.                   *)
Valid(arm) == {i \in DOMAIN trials[arm] : trials[arm][i].valid}
Times(arm) == [i \in Valid(arm) |-> trials[arm][i].time]
Failed(arm) == Len(trials[arm]) - Count(Times(arm))

(* trialSetBlockers *)
Blocked(arm) ==
  LET n == Count(Times(arm))
  IN  \/ Failed(arm) > 0
      \/ n < study.minTrials
      \/ n >= study.minTrials /\ study.maxCV > 0 /\ Unstable(Times(arm), study.maxCV)

(* What is only a caveat changes no status. *)
Comparable == \A a \in Arms : trials[a] # <<>> /\ ~Blocked(a)

(* pairedSummary: the i-th trials are the halves of pair i.                    *)
Deltas ==
  [i \in Valid("baseline") \cap Valid("treatment") |->
     trials["treatment"][i].time - trials["baseline"][i].time]

Verdict ==
  IF ~Comparable \/ ~study.treatment THEN "not_assessed"
  ELSE RegressionVerdict(Deltas, study.threshold, MedianTwice(Times("baseline")))

(* printPairedReport and regressionExitCode. *)
PairedStatus ==
  IF ~Comparable THEN 1
  ELSE CASE Verdict = "regression"   -> 3
         [] Verdict = "inconclusive" -> 4
         [] OTHER                    -> 0

(* Of a run: did every measured trial execute validly? *)
RunStatus == IF Failed("baseline") > 0 THEN 1 ELSE 0

-----------------------------------------------------------------------------
(* Output. *)
Finish ==
  /\ phase = "between" /\ round = Rounds
  /\ phase' = "writing"
  /\ UNCHANGED <<hostVars, fileVars, study, round, order, trials, measured, rows, exit>>

Write ==
  /\ phase = "writing"
  /\ WriteStep
  /\ UNCHANGED <<hostVars, studyVars>>

WriteFailed ==
  /\ phase = "writing" /\ writing = "failed"
  /\ Exits(2)
  /\ UNCHANGED <<hostVars, fileVars, study, round, order, trials, measured, rows>>

Written ==
  /\ phase = "writing" /\ writing = "done"
  /\ IF Paired THEN Exits(PairedStatus)
     ELSE IF study.csv THEN phase' = "csv" /\ UNCHANGED exit
     ELSE Exits(RunStatus)
  /\ UNCHANGED <<hostVars, fileVars, study, round, order, trials, measured, rows>>

(* AppendCSV, one row a trial; what it appended before a failure stays.        *)
AppendRow ==
  /\ phase = "csv" /\ rows < Len(trials["baseline"])
  /\ rows' = rows + 1
  /\ UNCHANGED <<hostVars, fileVars, study, phase, round, order, trials, measured, exit>>

AppendFails ==
  /\ phase = "csv" /\ rows < Len(trials["baseline"])
  /\ Exits(2)
  /\ UNCHANGED <<hostVars, fileVars, study, round, order, trials, measured, rows>>

Appended ==
  /\ phase = "csv" /\ rows = Len(trials["baseline"])
  /\ Exits(RunStatus)
  /\ UNCHANGED <<hostVars, fileVars, study, round, order, trials, measured, rows>>

Crash ==
  /\ \E found \in {"old", "new", "torn"} : CrashLeaves(found)
  /\ phase' = "crashed"
  /\ Workers({})
  /\ UNCHANGED <<study, round, order, trials, measured, rows, exit>>

Done == phase \in {"over", "crashed"} /\ UNCHANGED vars

Next ==
  \/ \E first \in Arms : NextRound(first)
  \/ \E time \in UNION {study.times[a] : a \in Arms}, valid \in BOOLEAN : RunArm(time, valid)
  \/ \E valid \in BOOLEAN : Collected(valid)
  \/ RunFails \/ Replay
  \/ Finish \/ Write \/ WriteFailed \/ Written
  \/ AppendRow \/ AppendFails \/ Appended
  \/ Crash \/ Done

Spec == Init /\ [][Next]_vars
=============================================================================
