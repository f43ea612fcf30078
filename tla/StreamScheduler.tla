--------------------------- MODULE StreamScheduler ---------------------------
(***************************************************************************)
(* runStreams (pkg/replay/scheduler.go): one goroutine per stream replays   *)
(* its operations in order under a semaphore shared by all streams, a       *)
(* ticker goroutine samples the running totals, and the caller waits for    *)
(* both before it assembles the WorkerOutput.  Every access to a shared     *)
(* atomic, channel or context is a step of its own.  Elapsed time is not    *)
(* represented: a paced operation may arrive at any moment.                 *)
(***************************************************************************)
EXTENDS Integers, FiniteSets, Functions, Sequences

CONSTANTS Streams,      (* keys of byStream *)
          NumOps,       (* len(byStream[s]) *)
          MaxInflight,  (* capacity of sem *)
          Paced,        (* timeline, scaled or think mode; asap otherwise *)
          MaxTicks      (* bound: ticks of the progress ticker in a run *)

ASSUME StreamsAssumption == IsFiniteSet(Streams)
ASSUME NumOpsAssumption == NumOps \in [Streams -> Nat \ {0}]
ASSUME InflightAssumption == MaxInflight \in Nat \ {0}
ASSUME PacedAssumption == Paced \in BOOLEAN
ASSUME TicksAssumption == MaxTicks \in Nat

VARIABLES
  pc,        (* where each stream's goroutine is *)
  idx,       (* idx[s]: operations of s already replayed *)
  sem,       (* tokens in the semaphore channel *)
  inflight,  (* currentInflight *)
  cur,       (* cur[s]: the goroutine's own copy of currentInflight *)
  old,       (* old[s]: the depth it compares against *)
  depth,     (* maxInflightDepth *)
  opsDone, bytesDone,
  moved,     (* moved[s]: bytesN of the operation being recorded *)
  rec,       (* rec[s]: operations and bytes in the stream's Recorder *)
  cancelled, (* ctx is done *)
  ticker,    (* where the progress goroutine is *)
  tickOps,   (* the operations it has loaded *)
  series,    (* the progress points so far, as totals *)
  main,      (* where the caller is *)
  out,       (* the WorkerOutput *)
  peak,      (* history: the highest value inflight has had *)
  mark       (* history: idx when ctx was cancelled *)

stream   == <<pc, idx, cur, old, moved, rec>>
counters == <<sem, inflight, depth, opsDone, bytesDone>>
progress == <<ticker, tickOps, series>>
history  == <<peak, mark>>
vars == <<stream, counters, cancelled, progress, main, out, history>>

Point(ops, bytes) == [ops |-> ops, bytes |-> bytes]

NoOutput == [total |-> Point(0, 0), depth |-> 0, series |-> <<>>]

(* The streams' Recorders, merged once all of them have been handed in.      *)
Merged == Point(SumFunction([s \in Streams |-> rec[s].ops]),
                SumFunction([s \in Streams |-> rec[s].bytes]))

Goto(s, from, to) == pc[s] = from /\ pc' = [pc EXCEPT ![s] = to]

Init ==
  /\ pc = [s \in Streams |-> "head"]
  /\ idx = [s \in Streams |-> 0]
  /\ sem = 0
  /\ inflight = 0
  /\ cur = [s \in Streams |-> 0]
  /\ old = [s \in Streams |-> 0]
  /\ depth = 0
  /\ opsDone = 0
  /\ bytesDone = 0
  /\ moved = [s \in Streams |-> 0]
  /\ rec = [s \in Streams |-> Point(0, 0)]
  /\ cancelled = FALSE
  /\ ticker = "idle"
  /\ tickOps = 0
  /\ series = <<>>
  /\ main = "waiting"
  /\ out = NoOutput
  /\ peak = 0
  /\ mark = [s \in Streams |-> 0]

-----------------------------------------------------------------------------
(* The goroutine of stream s.                                                *)

(* Mutant: the context is not looked at between operations. *)
MutantLoopIgnoresCancel(s) ==
  /\ Goto(s, "head", IF idx[s] = NumOps[s] THEN "exited"
                     ELSE IF Paced THEN "pacing" ELSE "acquiring")
  /\ UNCHANGED <<idx, cur, old, moved, rec, counters, cancelled, progress, main, out, history>>

(* The loop head: out of operations, or cancelled, the goroutine leaves.     *)
LoopHead(s) ==
  /\ Goto(s, "head", IF idx[s] = NumOps[s] \/ cancelled THEN "exited"
                     ELSE IF Paced THEN "pacing" ELSE "acquiring")
  /\ UNCHANGED <<idx, cur, old, moved, rec, counters, cancelled, progress, main, out, history>>

(* The intended arrival has come, perhaps long ago. *)
Arrive(s) ==
  /\ Goto(s, "pacing", "acquiring")
  /\ UNCHANGED <<idx, cur, old, moved, rec, counters, cancelled, progress, main, out, history>>

(* Mutant: leaving gives back a token that was never taken. *)
MutantQuitReleases(s) ==
  /\ cancelled
  /\ Goto(s, "pacing", "exited") \/ Goto(s, "blocked", "exited")
  /\ sem' = sem - 1
  /\ UNCHANGED <<idx, cur, old, moved, rec, inflight, depth, opsDone, bytesDone,
                 cancelled, progress, main, out, history>>

(* ctx.Done while waiting for the arrival or for the semaphore. *)
Quit(s) ==
  /\ cancelled
  /\ Goto(s, "pacing", "exited") \/ Goto(s, "blocked", "exited")
  /\ UNCHANGED <<idx, cur, old, moved, rec, counters, cancelled, progress, main, out, history>>

(* The non-blocking send failed: this operation is backlog. *)
Block(s) ==
  /\ sem >= MaxInflight
  /\ Goto(s, "acquiring", "blocked")
  /\ UNCHANGED <<idx, cur, old, moved, rec, counters, cancelled, progress, main, out, history>>

(* A token is free: at once, or after waiting as backlog. *)
Acquire(s) ==
  /\ sem < MaxInflight
  /\ Goto(s, "acquiring", "counting") \/ Goto(s, "blocked", "counting")
  /\ sem' = sem + 1
  /\ UNCHANGED <<idx, cur, old, moved, rec, inflight, depth, opsDone, bytesDone,
                 cancelled, progress, main, out, history>>

(* currentInflight.Add(1) *)
Count(s) ==
  /\ Goto(s, "counting", "loading")
  /\ inflight' = inflight + 1
  /\ cur' = [cur EXCEPT ![s] = inflight + 1]
  /\ peak' = IF inflight + 1 > peak THEN inflight + 1 ELSE peak
  /\ UNCHANGED <<idx, old, moved, rec, sem, depth, opsDone, bytesDone,
                 cancelled, progress, main, out, mark>>

(* maxInflightDepth.Load, then the comparison. *)
LoadDepth(s) ==
  /\ Goto(s, "loading", IF cur[s] <= depth THEN "issuing" ELSE "swapping")
  /\ old' = [old EXCEPT ![s] = depth]
  /\ UNCHANGED <<idx, cur, moved, rec, counters, cancelled, progress, main, out, history>>

(* Mutant: the depth is stored, whatever another stream has stored since. *)
MutantStoreDepth(s) ==
  /\ Goto(s, "swapping", "issuing")
  /\ depth' = cur[s]
  /\ UNCHANGED <<idx, cur, old, moved, rec, sem, inflight, opsDone, bytesDone,
                 cancelled, progress, main, out, history>>

(* Mutant: a failed swap retries against the depth it already has. *)
MutantSwapNoReload(s) ==
  /\ Goto(s, "swapping", IF depth = old[s] THEN "issuing" ELSE "swapping")
  /\ depth' = IF depth = old[s] THEN cur[s] ELSE depth
  /\ UNCHANGED <<idx, cur, old, moved, rec, sem, inflight, opsDone, bytesDone,
                 cancelled, progress, main, out, history>>

(* CompareAndSwap(old, cur); a failure reads the depth again. *)
SwapDepth(s) ==
  /\ Goto(s, "swapping", IF depth = old[s] THEN "issuing" ELSE "loading")
  /\ depth' = IF depth = old[s] THEN cur[s] ELSE depth
  /\ UNCHANGED <<idx, cur, old, moved, rec, sem, inflight, opsDone, bytesDone,
                 cancelled, progress, main, out, history>>

(* dispatchOp is called ... *)
Issue(s) ==
  /\ Goto(s, "issuing", "busy")
  /\ UNCHANGED <<idx, cur, old, moved, rec, counters, cancelled, progress, main, out, history>>

(* ... and returns, having moved its bytes or not: the operation goes into   *)
(* the stream's own Recorder either way.                                     *)
Complete(s, n) ==
  /\ Goto(s, "busy", "addingOps")
  /\ moved' = [moved EXCEPT ![s] = n]
  /\ rec' = [rec EXCEPT ![s] = Point(@.ops + 1, @.bytes + n)]
  /\ UNCHANGED <<idx, cur, old, counters, cancelled, progress, main, out, history>>

AddOps(s) ==
  /\ Goto(s, "addingOps", "addingBytes")
  /\ opsDone' = opsDone + 1
  /\ UNCHANGED <<idx, cur, old, moved, rec, sem, inflight, depth, bytesDone,
                 cancelled, progress, main, out, history>>

AddBytes(s) ==
  /\ Goto(s, "addingBytes", "leaving")
  /\ bytesDone' = bytesDone + moved[s]
  /\ UNCHANGED <<idx, cur, old, moved, rec, sem, inflight, depth, opsDone,
                 cancelled, progress, main, out, history>>

(* currentInflight.Add(-1) *)
Leave(s) ==
  /\ Goto(s, "leaving", "releasing")
  /\ inflight' = inflight - 1
  /\ UNCHANGED <<idx, cur, old, moved, rec, sem, depth, opsDone, bytesDone,
                 cancelled, progress, main, out, history>>

(* <-sem, and on to the next operation. *)
Release(s) ==
  /\ Goto(s, "releasing", "head")
  /\ sem' = sem - 1
  /\ idx' = [idx EXCEPT ![s] = @ + 1]
  /\ UNCHANGED <<cur, old, moved, rec, inflight, depth, opsDone, bytesDone,
                 cancelled, progress, main, out, history>>

-----------------------------------------------------------------------------
(* The progress goroutine: the two totals are loaded one after the other and *)
(* recorded as one point.                                                    *)
Tick ==
  /\ ticker = "idle"
  /\ Len(series) < MaxTicks
  /\ ticker' = "loaded"
  /\ tickOps' = opsDone
  /\ UNCHANGED <<stream, counters, cancelled, series, main, out, history>>

Sample ==
  /\ ticker = "loaded"
  /\ ticker' = "idle"
  /\ series' = Append(series, Point(tickOps, bytesDone))
  /\ UNCHANGED <<stream, counters, cancelled, tickOps, main, out, history>>

StopTicker ==
  /\ ticker = "idle"
  /\ main = "stopping"
  /\ ticker' = "stopped"
  /\ UNCHANGED <<stream, counters, cancelled, tickOps, series, main, out, history>>

-----------------------------------------------------------------------------
(* The caller.                                                               *)

(* Mutant: the caller does not wait for a cancelled run to drain. *)
MutantWaitAbandons ==
  /\ main = "waiting"
  /\ cancelled \/ \A s \in Streams : pc[s] = "exited"
  /\ main' = "stopping"
  /\ UNCHANGED <<stream, counters, cancelled, progress, out, history>>

(* wg.Wait, close(stopProgress) *)
Wait ==
  /\ main = "waiting"
  /\ \A s \in Streams : pc[s] = "exited"
  /\ main' = "stopping"
  /\ UNCHANGED <<stream, counters, cancelled, progress, out, history>>

(* Mutant: the last point is compared by its operations alone. *)
MutantFinalSeries ==
  IF series = <<>> \/ series[Len(series)].ops # opsDone
  THEN Append(series, Point(opsDone, bytesDone))
  ELSE series

(* The series ends in the totals of the run.                                 *)
FinalSeries ==
  IF series = <<>> \/ series[Len(series)] # Point(opsDone, bytesDone)
  THEN Append(series, Point(opsDone, bytesDone))
  ELSE series

(* Mutant: the caller does not wait for the ticker. *)
MutantReturnWithTicker ==
  /\ main = "stopping"
  /\ main' = "returned"
  /\ out' = [total |-> Merged, depth |-> depth, series |-> FinalSeries]
  /\ UNCHANGED <<stream, counters, cancelled, progress, history>>

(* progressWG.Wait, the final point, and the output.                         *)
Return ==
  /\ main = "stopping"
  /\ ticker = "stopped"
  /\ main' = "returned"
  /\ out' = [total |-> Merged, depth |-> depth, series |-> FinalSeries]
  /\ UNCHANGED <<stream, counters, cancelled, progress, history>>

(* The context is cancelled: the call was aborted or its connection dropped. *)
Cancel ==
  /\ ~cancelled /\ main # "returned"
  /\ cancelled' = TRUE
  /\ mark' = idx
  /\ UNCHANGED <<stream, counters, progress, main, out, peak>>

Terminated == main = "returned" /\ UNCHANGED vars

-----------------------------------------------------------------------------
Step(s) ==
  \/ LoopHead(s) \/ Arrive(s) \/ Quit(s) \/ Block(s) \/ Acquire(s)
  \/ Count(s) \/ LoadDepth(s) \/ SwapDepth(s)
  \/ Issue(s) \/ \E n \in {0, 1} : Complete(s, n)
  \/ AddOps(s) \/ AddBytes(s) \/ Leave(s) \/ Release(s)

Next ==
  \/ \E s \in Streams : Step(s)
  \/ Tick \/ Sample \/ StopTicker
  \/ Wait \/ Return
  \/ Cancel
  \/ Terminated

Spec == Init /\ [][Next]_vars

(* Every goroutine runs, an arrival comes and an engine call returns.        *)
FairSpec ==
  /\ Spec
  /\ \A s \in Streams : WF_vars(Step(s))
  /\ WF_vars(Sample \/ StopTicker)
  /\ WF_vars(Wait \/ Return)
=============================================================================
