# IOFlux: specifications, model checking and proofs

IOFlux (`github.com/chanu1406/ioflux`) turns recorded or generated I/O traces
into repeatable storage workloads: it validates a trace, puts a dataset in
place, replays the trace's streams on one or more workers against an engine
(memory, local files, S3), and merges, reports and compares the results. This
directory holds TLA+ modules for the parts of the program in which order,
concurrency or failure decide correctness, the TLC configurations that check
them on small instances, and theorems about them that TLAPS checks.

    tlc -workers 2 -config WorkerServer_prompt.cfg WorkerServerProps.tla
    tlapm WorkerServerProofs.tla

## 1. Inventory

| Component | State it keeps | Operations | Status |
| --- | --- | --- | --- |
| Replay worker (`cluster/server.go`, `worker.go`) | `inUse` and a lease deadline behind one mutex; executor, engine and last output behind another | Prepare and PrepareStream, Run with a progress callback, Collect, Register | modelled |
| Coordinator (`cluster/coordinator.go`, `plan.go`, `remote.go`) | phase of `Run`, a goroutine per worker, the run context, errors and outputs by worker | REGISTER, PREPARE (shared or per-worker scope), RUN, COLLECT, stream partition, choice of the error | modelled |
| Stream scheduler (`replay/scheduler.go`) | semaphore channel, in-flight and total counters, maximum depth, a recorder and a handle table per stream, ticker, result channel | `runStreams`, `dispatchOp`, transfer checks, pacing, latency accounting, merged series | partly |
| Object-level writes (`replay/objectwrite.go`, `engine/s3/multipart.go`, `s3.go` Put) | eligibility state per handle, object sizes per target, a pipe and a Put goroutine per open write handle, multipart uploads | observe, OPEN/WRITE/FSYNC/CLOSE on write handles, single and multipart Put | modelled |
| Executor (`replay/executor.go`) | plan of streams, resolved targets, required sizes | PREPARE: rewriting, containment, capabilities, sizes, dataset, eligibility, cache control | partly |
| Dataset preparation (`prepare/prepare.go`) | target being written, bytes so far, engine handle | synthetic, source and existing modes | modelled |
| Cache control (`cache/`) | kernel page cache | drop, prime | partly |
| Engines (`engine/mem`, `engine/localfile`, reads of `engine/s3`) | handle tables | open, read, write, close, aligned direct writes | partly |
| Trace format and validator (`trace/`) | live handles across streams, summary | validate, digest, JSONL | partly |
| Importers (`importer/`, `strace/`, `dftracer/`) | descriptor table with cursors, unfinished calls by process, builder | open/dup/close/seek, resume, clamp, merge | modelled |
| Transform (`transform/splitreads.go`) | none | split reads into blocks | modelled |
| Generators (`gen/`) | clock and next handle per worker | checkpoint and training-read traces | modelled |
| Metrics (`metrics/`) | histograms, counters | record, merge, snapshot | partly: counters |
| Results, comparison, regression gate (`results/`) | result files | atomic write, trial sets, pairs, verdicts | partly |
| Fidelity (`fidelity/`) | none | verdict of the report | left out |
| Target mapping (`targetmap/`) | rules | longest prefix rewriting | modelled |
| Payload, calibration, CPU statistics, build information | none over time | bytes, benchmarks, system reads | left out |
| Wire conversion, protobuf code (`cluster/convert.go`, `proto/`) | none | field-by-field conversion | left out |
| Command line (`cmd/ioflux`) | rounds, order of arms, exit status | run, experiment; import, gen, transform, report | partly |

How they interact: the command line builds a plan and calls `Coordinator.Run`.
The coordinator reaches each worker through the `Worker` interface, by function
calls in one process or by gRPC. A worker's PREPARE runs the executor's
preparation (target mapping, dataset, eligibility, priming); its RUN
calls `runStreams`, which starts one goroutine per stream and issues operations
to an engine; progress comes back through a callback that is also the heartbeat
of the worker's lease. COLLECT returns recorders, which the coordinator merges.
`experiment` repeats this in rounds, judges the pairs and writes a file.
Traces come from an importer's Builder, a generator, or any other program that
writes the format, and every reader validates what it reads.

What is hard about it:

* several coordinators and one worker: a lease without a caller identity, two
  mutexes taken and released several times within a handler;
* N workers and one coordinator: barriers, early failure, cancellation that
  reaches workers in any phase, errors that arrive in any order;
* goroutines inside a run: a semaphore, a lock-free maximum, two counters
  updated one after the other and sampled by a ticker, teardown;
* streaming writes through a pipe into a Put whose store calls fail, or take
  effect although they report failure, while the run may be cut off anywhere;
* descriptor reuse, interleaved half-calls and backward clocks in captures;
* a dataset whose sizes are inferred from what a program managed to read, put
  in place by calls that fail between two chunks, and replayed by streams that
  share files;
* statistics over trials in a drawn order, of which some fail;
* files that must be replaced atomically.

What makes each part correct: the worker serves one run at a time and hands
out that run's own, whole result; nothing replays before every worker is
prepared, and results are complete or absent; a run respects its in-flight cap,
ends, and leaves nothing behind; an object is replaced whole or not at all and
CLOSE says which; an import keeps every transferred byte on the right handle in
stream order, or says what it left out; a trace reads the same bytes however
it is divided; a replay meets the files the program met; a verdict is that of
the rounds as they were run; a result file is never torn. `PROJECT.json` lists
the hazards by line, with the properties that cover them, and a note for
the one still open.

## 2. Modules

Each component has a specification, a `...Props` module with its properties, an
`MC...` module with the definitions TLC's instances need, and, where theorems
are proved, a `...Proofs` module. Definitions whose name begins with `Mutant`
are mutated forms of the definition that follows them; no specification uses
them. They record, for every property, a plausible bug that breaks it.

    ExclusiveWorker <-- WorkerServer    <- WorkerServerProps <- WorkerServerProofs
                        Coordinator     <- CoordinatorProps  <- CoordinatorProofs
    BoundedReplay   <-- StreamScheduler <- SchedulerProps    <- MCScheduler, SchedulerProofs
    AtomicObjects   <-- ObjectWrite     <- ObjectWriteProps  <- MCObjectWrite, ObjectWriteProofs

    TraceFormat <- TraceBuild <- FDTable <- StraceImport  \
                                Descriptors (the kernel)   > Importers <- ImportersProps <- MCImporters
                                FDTable <- DFTracerImport /
    TraceBuild  <- Generators \
    TraceFormat <- SplitReads  > TraceTools <- TraceToolsProps <- MCTraceTools, TraceToolsProofs
    TraceFormat <- Pacing     /
    Engines <- Dataset <- DatasetProps <- MCDataset, DatasetProofs
    TrialStats, HostSeries, ResultFile <- Experiment <- ExperimentProps <- MCExperiment, ExperimentProofs
    DataInduction <- SchedulerProofs, ObjectWriteProofs, DatasetProofs, TraceToolsProofs, ExperimentProofs

(`<--`: implements, under a refinement mapping; `<-`: extended by.)

### WorkerServer: one worker, several runs

`Runs` are coordinator runs that compete for the worker. `pc[c]` says where run
c's current RPC handler is; each handler is cut at the points where it takes or
releases a mutex or replies, so handlers of different runs interleave as the
two mutexes allow.

| Action | Code |
| --- | --- |
| `PrepareBusy`, `PrepareBegin` | `acquire` |
| `PrepareChunk`, `PrepareReceived`, `PrepareError` | receiving and parsing the trace, materializing |
| `PrepareInstall`, `PrepareShutdown` | swap of executor and engine in `PrepareReader`, shutdown of the old engine after unlocking |
| `PrepareAck`, `PrepareFail` | lease refresh and reply, release on error |
| `RunHeld`, `RunRefused`, `RunRefresh`, `RunSnapshot`, `RunProgress`, `RunStore`, `RunReturn`, `RunAbort` | `Server.Run` over `Session.Run`: held, refresh, read of the executor, progress callback, store of the output, reply |
| `CollectRead`, `CollectReturn` | `Session.Collect`, release |
| `Abandon` | the coordinator dies or cancels; its handlers go on |
| `Tick` | one unit of time, unless a bounded step is overdue |

Time is discrete: `lease` counts down to the deadline; `idle[c]` counts up from
c's last refresh. Two constants bound it. `Cadence` bounds what has a heartbeat
or is straight-line code (progress every second, against a lease of two
minutes). `Gap` bounds what has none: receiving, materializing, and waiting at a
barrier for other workers. The code sets no bound on it, so `Gap < Lease` is an
assumption, and the runs show what holds with and without it.

`ExclusiveWorker` is the contract: take a free worker, deliver a run its own
result once, leave. The mapping sets `owner` to the run that is active.

### Coordinator: one run, N workers

`phase` is the position of `Run`; `at[w]` what the calls to worker w have come
to. The goroutines of PREPARE and RUN are actions per worker; `wg.Wait` is the
guard of the step after them. Under the shared scope worker 1 materializes
first and the rest verify (`StartVerify`). `RunError(w, err)` records an own
error or a cancellation and cancels the others. `IsCanceled` is
`errors.Is(err, context.Canceled)`, false of the gRPC status errors a remote
worker returns. `Assigned` is `partitionStreams`. The wait for a common start
time and the clock skew of the two deliveries are left out.

### StreamScheduler: the goroutines of one run

One process per stream, the ticker, and the caller. Every access to a shared
atomic, channel or context is a step: loop head, pacing, fast and blocking
semaphore acquisition, increment of `currentInflight`, load and
compare-and-swap of `maxInflightDepth`, engine call, recorder, the two total
counters one after the other, decrement, release. The ticker loads operations,
then bytes, then appends a point. The caller waits for the streams, merges,
stops the ticker and appends the final totals. Pacing delays are a choice of
when `Arrive` happens; the arithmetic of them is in `Pacing`. `peak` and `mark` are
history variables.

`BoundedReplay` is the contract: operations of a stream one at a time and in
order, at most `MaxInflight` at once, return when all are done or, after a cut,
when none is in flight.

### ObjectWrite: writes against an object store

`Prepare` is the eligibility pass: `Eligibility` is `Observe` applied to one
operation after the other, a recursive function of the position in the trace.
It refuses the run or fills `sizes`. `Traces` may be any set of sequences of
operations that the validator lets through (`TracesAssumption`). Then every stream
dispatches its operations of the trace;
OPEN of an admitted handle starts a Put, WRITE offers bytes to the unbuffered
pipe and blocks, CLOSE closes the write end and waits. The Put is its own
process: it reads, sends parts, completes or aborts; every store call may fail,
with or without having taken effect. That goes for the calls that create and abort
an upload as well (`BeginFails`, `Abort`): what the store then keeps is "orphaned",
for the code has no id of it or ignores the error. `Cancel` may happen at any step; the
streams then leave at the next operation and their pipes stay as they are. Bytes are
counted, not represented. Handles opened for reading are left out: they share
no state with the modelled ones except the stream's order.

`AtomicObjects` is the contract: writing through a handle replaces one object at
most once, while the handle is open, and a successful CLOSE reports that it did.

### Importers: what a program did, and what the trace says of it

`Descriptors` is the other side of a capture, the kernel: descriptor tables
(one per process, or shared by threads), open file descriptions with their
positions, sizes. `Happens(p, e)` says which completed system calls are
possible and what they do. The importers see the events only:

| Definition | Code |
| --- | --- |
| `FdtOpen`, `FdtOpenDir`, `FdtClose`, `Advance`, `SetCursor` (FDTable) | `importer.FDTable` |
| `Add`, `AddTargetOp`, `Skip`, `Note` (FDTable); `Clamped`, `InOrder`, `TraceFile` (TraceBuild) | `importer.Builder`, up to the self-validation of `WriteTo` |
| `WholeLine`, `UnfinishedLine`, `ResumedLine`, `DropUnfinished` | `parser.line`, `finish` of the strace importer |
| `DoOpen`, `DoRW`, `DoClose`, `DoFsync`, `DoLseek`, `DoStatPath`, `DoFstat`, `ResolveAt` | its handlers |
| `Event`, `Key`, `DFOpen`, `DFReadWrite`, `DFClose`, `DFLseek`, `DFFsync` | the DFTracer importer, literal and hashed (2.x) form |
| `Errors`, `Summary` (TraceFormat) | `trace.Validate` |

`opened`, `twice`, `begun` and `last` are history variables with which the
properties compare the two sides.

### TraceTools: where traces come from and what is made of them

Five origins in one specification, so that the validator and the transformation
meet all of them: two imports whose calls have a time and a duration (`Line`:
strace with the time of day and `applyRollover`, with or without durations, and
DFTracer, whose events record a duration unless it is zero; then the
Builder), the checkpoint generator (`Checkpoint`, a function of its parameters),
the training-read generator (`Shards` per turn of its loop, random draws as
choices) and operations by hand (`Type`, `Check`). `Transform` is
`runSplitReads`: split, renumber, new header, validate again. `NumPieces`,
`PieceStart` and `PieceSize` of `TraceFormat` are the one loop, of splitter and
generator alike, that divides bytes into blocks.

`Pace` replays an import in real time, one stream after the arithmetic of
`Pacing`: `ThinkGap` is `thinkGapNS`, `Due` the intended arrival in each mode,
`Played` the stream's loop with a service time and a wait for the semaphore per
operation, `Drift` and `Latency` what its recorder is told, `Playable` the refusal of
think mode without durations. `wall` is the history the replay is compared with.

### Dataset: from the recorded program to its replay

`Capturing` is a program on its own files. `Load` to `Primed` is
`prepareInternal`; `Replaying` is `dispatchOp` for the streams; `Again` is a next
executor with an engine of its own on the same backend.

| Action | Code |
| --- | --- |
| `Load` | `Map.Rewrite`, `checkTargetContainment`, `checkOpCaps`; refusals of `BuildEngine` |
| `Verify` | `assumeExisting` |
| `PutTarget`; `OpenTarget`, `WriteChunk`, `StopWriting`, `FinishTarget` | materialization of an object; of a file, chunk by chunk |
| `PrepareCancelled`, `SizeUnknown` | its early returns |
| `PrimeOpen`, `PrimeRead`, `PrimeObject` | `primeFile`, `primeObject` |
| `Open`, `Read`, `Write`, `Fsync`, `Close` | `dispatchOp`, with `checkedReadTransfer` and the stream's handle table |
| `DirectStat`, `DirectWrite`, `DirectCut`, `DirectFails` | `alignedWriteAt`, a step per system call |
| `Cancel`, `Over`, `Again` | the run's context, its end, the next PREPARE |

`Engines` has what the engines' calls do to the backend and the handle table.
Files are sizes. Any call may fail where `plan.faults` says so, at most one in
an attempt. A plan fixes what is recorded and how it is replayed; of the calls
in it `PlansAssumption` asks only for offsets and lengths that are numbers. `Idle` is
the state of a stream that is in no direct write.

### Experiment: rounds, verdict, file, exit status

`NextRound` draws the order of the arms, each of which has its own hosts or runs
in the process; `RunArm` or, on hosts, step by step over the workers, `Replay` and
`Collected` are one trial, valid or not, and `RunFails` its error. `TrialStats` has
the statistics, exact over rationals where the code uses floating point. Its
operators take the trials as a function and speak of the k-th smallest value and
of subsets of trials, where the code sorts and adds up binomial terms; so they
can be reasoned about.
`Blocked`, `Deltas`, `Verdict` and the two status operators are the code
between them and the exit status. `HostSeries` is the ticker of each worker and
`mergeTimeSeries`: the buckets of seconds in order, and in each the sum of what
each worker had last reported. `ResultFile` is `WriteJSONFile` on a file system that may
fail any call, may report a failed write only at the sync, and loses at a crash
what was not synced. `AppendRow` is the CSV file of `run`.

## 3. What the runs check

| Run | Instance | Shows |
| --- | --- | --- |
| `WorkerServer_prompt` | 3 runs, Lease 3, Cadence 1, Gap 2 | `OneRunAtATime`; `ResultSafe`: stored results survive until collected, what is collected is the run's own, no run on a shut-down engine; `ImplementsContract`: refinement of `ExclusiveWorker` |
| `WorkerServer_slow` | 2 runs, Lease 3, Cadence 2, Gap 4, fair | even when gaps exceed the lease a replaying run's lease does not lapse, and a worker abandoned anywhere becomes free again and again |
| `WorkerServer_clobbered` | 2 runs, Gap = Lease = 3 | violation, finding 1 |
| `Coordinator_shared` | 4 in-process workers, 6 streams, shared scope, fair | `PhaseOrder`: barriers, verification after materialization; `WholeReturn`: complete disjoint results or none, no call in flight at return; `RootCause`: the error names a culprit; `ErrorAborts`: an error ends the run |
| `Coordinator_rootcause` | 2 remote workers | violation, finding 2 |
| `Scheduler_cancel` | 2 streams of 2 operations, 1 token, paced, 2 ticks | the series ends in the totals and never falls; `CleanEnd`: cancellation stops streams within one operation, and nothing is left running or held |
| `Scheduler_contended` | 3 streams of 1 operation, 2 tokens, fair | the cap, the exact peak out of the compare-and-swap race, refinement of `BoundedReplay`, `runStreams` returns |
| `ObjectWrite_any` | 11 traces over 2 streams, handles, targets; fair | streams never hang in a pipe; `Settled`: a Put that is over leaves no upload open but one the store orphaned, and only a cancellation leaves Puts of closed handles behind; refinement of `AtomicObjects`; objects are whole and admitted runs fail only with the store, outside the irregular traces of section 4 |
| `Importers` | 7 themes of events, 2 threads, 2 descriptors, 1 file of 2 bytes and names relative to it, 5 lines, both importers | `TransferExact`: every transfer on the right handle at the right offset; `NamesExact`; `Accounted`: what is left out is counted; `WellMade`: the trace validates, is complete and in the order of entry |
| `TraceTools` | imports of 5 lines over midnights, or of 3 with durations and their replay in 4 modes by a faster, equal or slower engine; checkpoints of 4 to 7 bytes on 1 to 3 ranks; training epochs of 1 to 3 shards; 16 operations by hand, 4 at a time; blocks 1 to 3 | `TimesFaithful`, `ProductsValid`, `ValidatorExact` against a definition of legal traces, `SplitFaithful` byte by byte, in requests of at most a block but for short reads taken over, `GeneratedWhole`, `PacedFaithful`: think time reproduces the program's pauses and nothing else, the timeline its schedule |
| `Dataset` | plans of up to 5 operations, 2 streams, 2 targets, chunk 2, block 4, every engine and mode, one fault and a cancellation an attempt, 2 attempts | `ReadsReproduced`: the replay reads what the program read; `DatasetWhole`: no replay starts on a target of another length than the trace says; `HandlesKept`; `PrimedHonest`; `WritesKept` under concurrent direct writes |
| `Experiment` | 3 to 9 pairs around, at and beyond a threshold, with noise and failures; a run with warmup and CSV; distributed runs of 1 and 2 workers and experiments with an arm or both on a worker of its own; any of the trials invalid, failures and a crash in the file | `SeriesWhole`; `GateHonest`: exit status 0, 3 or 4 is the sign test's answer over the rounds as run, or 0 because there is nothing to test; `FileWhole` |

Why the bounds are enough to be interesting.

* WorkerServer: three runs are what a takeover needs in which the victim's late
  failure frees the worker under its successor; a lease of 3 with gaps of 2 has
  a lapse exactly one unit away.
* Coordinator: six streams on four workers leave a remainder and uneven shares.
* StreamScheduler: two streams on one token block; three on two tokens block
  while two race on the maximum. The series needs two ticks to catch a sample
  between the two counters followed by another.
* ObjectWrite: sizes up to 3 with parts of 2 bytes give single Puts, exactly
  full parts, and a short last part; two handles on one target give overwriting.
* Importers: five lines are an open, a reuse of its descriptor by another
  thread's or the same thread's second open, and a transfer after it; or two
  split calls in either nesting. Each theme is a set of events, so that the
  five lines can all be about it. Two bytes are a whole and a short transfer.
* TraceTools: a day of 10 units and lines up to 3 apart cross midnight, and
  twice; the parameter sets hold every combination of remainders over ranks and
  over blocks; hand-written traces of 4 out of 14 operations hold a use after
  CLOSE, on the wrong stream, twice, out of order and of the wrong shape. Three
  timed calls have two pauses, of which a clock that steps back makes one
  negative; calls of length 0 are what DFTracer records no duration of.
* Dataset: chunks of 2 and files of 1 and 3 bytes give a full and a short chunk
  and a failure between; blocks of 4 give writes that straddle two; two
  attempts are a failed and a second one. Plans of up to 5 operations over two
  streams and two targets. In some plans (`Shortened`) the file found or copied is
  shorter than the trace reaches, so that writes extend it.
* Experiment: 6 pairs are the fewest with a confidence interval, of 9 its rank
  is 2; times lie on both sides of the threshold and exactly on it. Two workers
  over two seconds, with two ticks each, skip seconds and differ in length.

`MaxTicks`, `MaxLines`, `MaxTimed`, `MaxEvents`, `MaxHand`, `MaxRuns`, `MaxElapsed`, `MaxOps`
and a plan's `most` are the bounds that are not parameters of the code.

Deadlock is checked in every run: a specification stutters explicitly only where
the code has ended (`Terminated`, `Over`, `Done`); in WorkerServer time goes on.

### Fairness

* WorkerServer: a handler that can go on does (mutexes are held briefly, a
  trace is finite, engine calls return), the clock runs, and a run that was
  acked calls its next RPC or dies. No run is obliged to begin.
* Coordinator: its own steps, every RPC outside RUN, and the return of a `Run`
  whose context is cancelled. A replay that is not cancelled may last for ever,
  which is what makes `ErrorAborts` say something.
* StreamScheduler: goroutines are scheduled, engine calls return, and the
  ticker is weakly fair. A blocked sender on the semaphore is
  released by whichever stream leaves; Go's channel queues are not assumed.
* ObjectWrite: streams and Put goroutines run, and store calls return. Nothing
  is assumed of a pipe whose other end is gone.
* The other specifications are sequential programs over finite inputs; what
  is asked of them is safety.

## 4. Findings and observations

Two disagreements of the code with its own comments have a run of their own:

1. `WorkerServer_clobbered`: only RPC activity refreshes the lease, and a live
   coordinator that waits at a barrier for another worker has none. After two
   minutes a second run gets the worker, and its Prepare drops the stored
   result. server.go:29 says an overlapping run cannot clobber the result.
2. `Coordinator_rootcause`: with remote workers `firstRunError` does not
   recognise cancellations, and may name a bystander of lower index.

What else came up while modelling is in the models as it is in the code, and
where a property would be false of it, the property says so in a condition.

* Worker. `release` has no owner check (server.go:86), so the late failure of a
  run that lost the worker frees it under its successor; `LiveRunKeepsLease` is
  about the lease alone.
* Object writes. Sizes are noted per target: of two lifecycles that write an
  object of undeclared size differently, one Put stores a truncated object. An
  empty WRITE after the last byte is admitted and fails at every replay; so does
  a handle opened for writing that is never closed, or "rw" without a WRITE. A
  cancelled stream drops its open pipes (scheduler.go:181): the Put waits for
  ever, its multipart upload neither completed nor aborted.
  `WholeObjects` and `RegularReplays` exclude these; `Settled` allows what a
  cancellation leaves, and nothing else. An upload also stays open when the call
  that aborts it fails, for its error is discarded (multipart.go:30), or when the one
  that created it took effect without giving an id (multipart.go:18).
* Importers. A write in append mode is skipped and leaves the cursor behind,
  so later reads of that descriptor get other offsets; dup2 is not followed;
  the hashed DFTracer form cannot tell two descriptors of one file apart, and
  its pread moves the cursor; descriptors shared by threads are tracked per
  thread, so what another thread closed or reopened is not noticed.
  `TransferExact` excludes appending, hashed aliases and shared descriptions.
* Splitting. splitreads.go:16 says that no operation of the output requests more
  than the block, and README.md:396 that every read larger than the block is divided
  into requests of at most that size. A short read whose request exceeds the block
  while its transfer does not passes unchanged (splitreads.go:66) and goes on
  requesting more: the run has one that requests 3 bytes, moved 1 and is split at 2.
  `SplitFaithful` states the bound with this one exception. Pieces have no durations (splitreads.go:87), so under think time the pause
  after a divided read is gone.
* Exit status. experiment.go:64 and README.md:370 have 0 for a gate that passed or
  that was not declared. Of a declared one it is also the status when there are
  fewer pairs than an interval needs, when the arms are configured alike or when the
  baseline took no time: the gate is `not_assessed`, and regressionExitCode
  (experiment.go:191) knows it as "no decision was asked for". `GateHonest` has these
  as the cases that are not `Testable`.
* Coordinator. `Run` takes a context, and cancelling it would stop the workers too
  (coordinator.go:122); no command ever cancels the one it passes (run.go:237,
  experiment.go:125, calibrate.go:175), so the model has the cancellation by a
  failing worker only.
* Times. A clock that steps back across midnight adds a day for good.
  A DFTracer event of duration zero is recorded as one without a duration
  (dftracer/parse.go:241), so think mode drops the pause after it; `PacedFaithful`
  asks for the program's pauses only where a duration is recorded.
* Dataset. Two targets mapped to one name take the size of the last; a file
  that grew after a short read makes that read's replay fail; handles of a
  cancelled run stay open; the in-memory engine ignores truncation and gives
  objects of unknown size 64 MiB, so short reads are not reproduced on it, and
  it looks sizes up by names from before the rewriting; readers see the padding
  of a direct write in progress. Two streams whose direct writes extend one
  file (it was prepared shorter than the trace reaches) lose the bytes of one
  of them: each cuts the file to the size it found or wrote itself
  (direct_linux.go:143). Of an object that a trace also writes, reads are not
  what they were: it is replaced at CLOSE only. `Reproducible`, `Distinct`, `Ample`,
  `Private` and `~Truncated` are these conditions; the proofs of section 5 found
  the last two cases, which the instances checked until then did not contain.
* Priming. `primeFile` breaks off when a read returns nothing before it looks
  at the error (cache.go:125), so a target whose read failed counts as primed,
  although the comment at cache.go:27 says that `Primed` counts targets read end to
  end. `PrimedReadWhole` says that; `PrimedHonest`, which is checked,
  leaves failed file reads out.
* Results. "wrote" is reported although syncing the directory may have failed;
  a declared threshold with too few pairs, or without a treatment, is not
  assessed and exits 0; a CSV append that fails exits 2 though the results
  were written, and its earlier rows stay.

## 5. What is proved

For every value of the constants, with TLAPS (42 theorems):

* `WorkerServerProofs`. `TypeCorrect`. `LiveLease`: a replaying run's lease does
  not lapse, for any Gap, from `Cadence < Lease`; the inductive part is that the
  remaining lease is at least Lease minus the run's idle time. With `Gap < Lease`:
  `OneRun`, `ResultSafety` (the stored result, the collected result and the engine)
  and `WorkerImplementsContract`. `OneRunAtATime` is not inductive by itself: a
  free worker must mean that no run is active, which holds only as long as every
  active run's idle time still fits in the lease. That is `OwnerInv`; `SessionInv`
  adds which run the executor, output and engine belong to in each phase.
* `CoordinatorProofs`, for any N and number of streams, both scopes:
  `TypeCorrect`, `Barrier`, `VerifyOrder`, `Phases`, `CompleteResults`, `Quiescent`,
  `ReturnsWhole`, and, for in-process workers, `BlamesRootCause` (finding 2 is why
  the assumption `~Remote` is needed). `IInv` ties each phase to the worker states
  possible in it, each worker state to the dataset, the recorded errors to the states,
  and the collected sets to the partition. Lemma `Partition` says that the residues
  modulo N place every stream on exactly one worker.
* `SchedulerProofs`, for any finite set of streams, any `NumOps` and any
  `MaxInflight`: `TypeCorrect`, `Cap`, `DepthExact`, `Depth`, `CancelBound`, `Teardown`, `CleanEnds`,
  `SeriesIsExact` and `SchedulerImplementsReplay`. The invariants: `TokenInv` (the semaphore holds
  as many tokens as there are streams between acquisition and release,
  `currentInflight` as many as are counted), `PlaceInv` (positions, recorders and
  the caller's phase agree), `PeakInv` (the maximum is at the peak, or some stream
  in the compare-and-swap loop still carries the peak; a stream that
  leaves the loop leaves the maximum at least as high as its own value),
  `TotalsInv` (each total is the sum of the recorders less what a stream is still
  to add to it) and `SeriesInv` (the last point, and the number the ticker has in
  hand, are behind the totals).
* `ObjectWriteProofs`, for any traces the validator lets through, any sizes, part
  size, threshold and failures, cancelled or not: `RunsSettle`, `ObjectsAreWhole`, `RegularTracesReplay`
  and `ObjectWritesAreAtomic`. `PassKnows` is what the eligibility pass has
  established after n operations (every WRITE admitted begins where its handle's
  last one ended; a size noted is the furthest byte of a closed handle), and goes
  through the pass by induction. `Inv` ties streams, Puts and uploads to the
  positions in the trace (whose Put has begun, how much of the object each stage
  has sent). `FlowInv` says that what a Put has read and what is on offer are the
  WRITEs its stream has come to, `AnswerInv` that a Put that ends without a
  failure has seen them all; from both, of regular traces, `ReplayInv`: no
  operation fails unless a store call did.
* `TraceToolsProofs`: `PiecesTile`, the pieces of a divided read or write are
  not empty, at most a block long, begin where the one before ended and
  end with the last byte, for every length and block size. `ValidatorIsExact`: the
  validator's one pass has no errors exactly for the legal traces, of any length. The
  pass is a fold, which exists and is unique by `FoldExists`; the induction is over
  the prefix read, and says what the validator remembers of a prefix without
  errors: the last op_id, the ids used, the last time of each stream and the handles
  open after it (`Latest` and the lemmas on it). It assumes `HandAssumption`, what
  the operations typed by hand are made of. `TimesAreFaithful`, in
  two halves. Times of day are put back on one continuous clock for any length of the
  day and any pauses under half a day (`RolloverIsFaithful`); in `ClockInv` the parser's memory
  is the last line's, and that line was stamped less than one step back of the clock ago.
  And the builder keeps the times it is given: in `ImportInv` each stream holds one
  operation for each of its lines, as the parser makes it (`CallMade`), and what is
  handed over is the builder's file of these streams. Rebasing puts each stream in order
  (`ClampedInOrder`); the places sorted are a strict total order, so the merge is a
  permutation that visits every place once (`MergesInOrder`, on `DataInduction`'s `PlacesInOrder`), in order of
  time and with every stream in its own order (`MergeInterleaves`); read back stream by stream it is
  the log again (`ImportedStream`). `ImportsAreAccepted`: such a trace is legal,
  because a merge keeps handles between their OPEN and their CLOSE (`MergeIsLegal`), and what
  is legal the validator accepts.
  `SplitIsFaithful`, the bytes, the total and the bound on requests with its exception:
  the streams of a split trace are `FlattenSeq` of the operations'
  pieces, which grows by a part at a time (`FlattenGrows`), so the pieces of every operation
  lie one after another where the lengths before them add up to (`FlattenIsLaid`); bytes
  and totals then add up part by part (`SplitKeepsBytes`), and as a piece stays on its
  operation's handle and target what was accepted stays so (`SplitIsAccepted`).
  `ProductsAreValid`: a generated stream is a series of files, each from its OPEN to its
  CLOSE on a handle of its own (`Files`), and streams of such series with no handle in
  common are accepted (`GeneratedAccepted`). A checkpoint's rank is one by `RankIsFiles`;
  a training run, made a sample at a time, by the inductive `TrainInv`. In `FilesInv` whatever
  has been made is accepted, and so was what is being split. The one assumption is
  `ToolsAssumption`: the generators' parameters are integers and booleans, as their Go
  fields are (which are refused is the generators' own validation, modelled).
* `ExperimentProofs`: `ResultsNeverTorn`, over any sequence of calls, failures and
  crashes. `NeverTorn` is not inductive; `FileInv` adds that from the sync on the
  temporary file is whole and on the disk, and that a new file at the path
  implies the same, because only the rename touches the path. Above it,
  `StatusTellsTheTruth`, for any studies of numbers of rounds in which only `run`
  writes CSV (`StudiesAssumption`). `FileWhole` speaks of the end only; `StudyInv`
  adds what the write has come to in each phase (`Places`, `Installed`), that there
  is a trial for each measured round of a `run` but the one being measured
  (`Counts`), and which exit statuses and rows go with that (`Told`).
  `SeriesIsWhole`, for any number of workers, any ticks and any length of a second:
  `HostInv` says that a worker's total never falls, that its points lie on it or
  below it in their order, and that the last point of an ended worker is its
  total; `SeriesInv` adds that whoever replays has workers, and which arms are still to run. With these the merged
  series is monotone because each worker's last point up to a later bucket is no
  earlier (`SumMonotone`), and its differences are a telescoping sum.
  `GateIsHonest`, for any studies, times, number of invalid trials, hosts of either arm
  and orders of the arms, and any status of 0, 3 or 4: `Halves`
  says that the i-th trial of an arm is what that arm measured in the i-th measured
  round, one trial short only while the arm is still to run in the last; so the
  pairs are the rounds' (`PairInv`), whichever arm came first. `VerdictIs` is the
  statistics: the low end of the interval is beyond the threshold just if all but
  fewer than `Rank` of the differences are, the high end just if at least `Rank`
  are, and `Rank` is the greatest count for which a fair coin falls so seldom on one
  side (`WaysAre`, `FewAreLikely` and `RankIs`, from sets of trials alone).
  `StudiesAssumption` gives what this needs of the command line: finitely many
  hosts, whole thresholds and minimum trials, and times that are numbers.
* `DatasetProofs`, for any streams, targets, names, plans, chunk and block:
  `HandlesNeverLost`, `PrimedCountHonest`, `DatasetsAreWhole`, `EveryReadReproduced` and
  `FinishedWritesStay`. `HandlesKept` is not inductive.
  `HandleInv` adds that the trace numbers its OPENs apart (`OpensUnique`), that an
  entry of a stream's table stands for an OPEN of that stream already issued, on
  that OPEN's file (`Tables`), when a preparation or priming holds a handle and
  that no other handle is live then (`Jobs`, `Places`), and that a direct write in
  progress is on its operation's file (`Direct`). The other three theorems need
  `DataInv`, which holds the program, the preparation and the replay together:
  `Recording`: no operation of the trace reaches beyond the file the program left,
  unless it truncated one, and handles are used between OPEN and CLOSE.
  `Sizing`: of the targets before the current one each is in place at its size, and
  the current file is as long as what was written to it.
  `Stock`: from then on a file is long enough for every operation on it and, while
  nothing fails, no longer than the trace needs, but for the padding of a
  direct write between its write and its cut. `DirectInv`: such a write found the
  file long enough for whatever any stream has finished, so its cut takes
  nothing from another's. `Lasting`: what a finished WRITE wrote is there.
  `InOrder`, `Handed`: streams issue in order, and no two entries of the tables share a
  handle. `Faithful`: without faults every handle the program had is there, and
  every READ has moved what the program's READ moved. The assumptions on
  the constants used are that targets are numbered from 0, that chunk, block
  and the default size are positive, `PlansAssumption`, and that `None` is no number
  and not the name of the call that fails.
* `DataInduction` has what these proofs know of data: induction over the numbers
  and over the subsets of a finite set, stated for a set instead of a predicate
  (the provers cannot instantiate a theorem with an operator), a greatest element,
  that a fold over a finite set exists (`FoldExists`), that a finite set of
  integers has a least and a greatest element and can be put in order
  (`CanBeSorted`), and the sums of `SumFunction`: of zeros and ones, of a function
  changed in one place, of two functions one of which is nowhere less
  (`SumMonotone`), and of the differences of a sequence (`Telescope`).

Only model-checked: `NeverWedged`, `ErrorAborts`, `Returns`, `Drains` (liveness
under fairness is out of the prover's reach, as is ENABLED); `GeneratedWhole` and
`PacedFaithful` of `TraceTools`, and the importers' properties, which are about
traces flattened and filtered (`FlattenSeq`, `SelectSeq`).

## 6. Not modelled

* Several workers under several coordinators at once. `WorkerServer` has the runs,
  `Coordinator` the workers; that after a partly failed PREPARE the other
  workers are held until their leases lapse needs both.
* Latency histograms. `Pacing` has the values they are told, for one stream at a
  time: how long the semaphore holds an operation is a choice there, while who
  waits for whom is `StreamScheduler`, which has no clock.
* Contents of files, payload generation and digests: bytes are counted.
* Text: scanning strace lines and DFTracer JSON, JSONL, YAML, flags, report
  layout. The models begin with what the scanners return.
* O_DIRECT refused by a file system, injected engine delays, symbolic links that
  leave a containment root, fadvise, HTTP retries of the S3 SDK.
* STAT, GET, PUT, HEAD and DELETE as replayed operations: they touch no handle
  and, but for the last two writers, no state; no importer or generator makes PUT or DELETE.
* The fidelity verdict, caveats, rates and percentiles: they are shown and
  decide nothing. Floating-point rounding: `TrialStats` is exact.
* Protobuf conversion and generated code; calibration, CPU statistics.

## 7. Plan

1. Cluster: coordinators times workers, from the contract `ExclusiveWorker` and
   the coordinator's phases; liveness of a retry after a partly failed PREPARE.
2. Proofs: the other two properties of `TraceTools` and those of the importers, with the
   induction of `DataInduction` once their folds are recursive functions of a position, as
   `Eligibility` is.
