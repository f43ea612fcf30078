------------------------------- MODULE Dataset -------------------------------
(***************************************************************************)
(* From a recorded program to its replay: what the program did to its       *)
(* files, the trace of it, and the executor that puts a dataset in place    *)
(* on an engine (replay/executor.go, prepare), primes caches and replays    *)
(* the streams (scheduler.go, dispatchOp).  Any engine call may fail, and   *)
(* the run may be cancelled at any time.  When it is over another executor, *)
(* on a new engine, may try again on the same backend.                      *)
(***************************************************************************)
EXTENDS Engines

CONSTANTS
  Streams, Targets,   (* Targets == 0..n: what the program may open *)
  NameOf,             (* their names, as sequences of path components *)
  Chunk,              (* prepareChunkSize and the priming buffer *)
  Plans,              (* what is recorded and how it is replayed *)
  MaxRuns             (* bound on the attempts *)

ASSUME DatasetAssumption ==
  /\ IsFiniteSet(Targets) /\ Targets = 0..(Cardinality(Targets) - 1)
  /\ None \notin Nat /\ None # "read"
  /\ Chunk \in Nat \ {0} /\ Align \in Nat \ {0} /\ Default \in Nat \ {0}

ASSUME PlansAssumption ==
  \A p \in Plans :
    /\ p.sizes \subseteq Nat /\ p.modes \subseteq {"synthetic", "source", "existing"}
    /\ \A c \in p.calls : c.op \in {"READ", "WRITE"} => c.off \in Nat /\ c.len \in Nat

VARIABLES
  plan,        (* the one of this behaviour; most bounds its operations *)
  phase,
  source,      (* sizes of the program's files *)
  ops,         (* the trace *)
  mode,        (* the prepare mode of this executor *)
  job,         (* preparing or priming: target, engine handle, bytes so far *)
  primed,      (* targets counted as primed *)
  warmed,      (* history: those of which every byte was read *)
  cancelled, faulted,
  hmap,        (* each stream's handles *)
  dio,         (* a direct write in progress: its step, the size it found *)
  got,         (* what each operation issued so far moved, and from which file *)
  runs, leaked

dataVars == <<plan, phase, source, ops, mode, job, primed, warmed, cancelled, faulted, hmap, dio,
              got, runs, leaked, store, handles>>

ReplayVars == <<hmap, dio, got>>
TraceVars  == <<plan, source, ops>>

NoJob == [tgt |-> 0, h |-> None, off |-> 0]
Idle  == [step |-> "idle", orig |-> 0, name |-> <<>>]

Init ==
  /\ plan \in Plans
  /\ phase = "capture"
  /\ source \in [Targets -> plan.sizes]
  /\ ops = <<>>
  /\ mode \in plan.modes
  /\ job = NoJob
  /\ primed = {}
  /\ warmed = {}
  /\ cancelled = FALSE
  /\ faulted = FALSE
  /\ hmap = [s \in Streams |-> <<>>]
  /\ dio = [s \in Streams |-> Idle]
  /\ got = <<>>
  /\ runs = 1
  /\ leaked = 0
  /\ store = <<>>
  /\ handles = <<>>

-----------------------------------------------------------------------------
(* The recorded program.  A read that returns nothing leaves no operation.    *)
Indices(kind) == {i \in DOMAIN ops : ops[i].op = kind}
HandlesOf(kind, s) == {ops[i].h : i \in {i \in Indices(kind) : ops[i].s = s}}
Held(s) == HandlesOf("OPEN", s) \ HandlesOf("CLOSE", s)
OpenOf(h) == ops[CHOOSE i \in Indices("OPEN") : ops[i].h = h]
TargetOf(h) == OpenOf(h).tgt

(* The trace's target table: what was opened, in the order it first was.      *)
Table == {ops[i].tgt : i \in Indices("OPEN")}

Recorded(op) ==
  /\ phase = "capture" /\ Len(ops) < plan.most
  /\ ops' = Append(ops, op)
  /\ UNCHANGED <<plan, phase, mode, job, primed, warmed, cancelled, faulted, ReplayVars, runs, leaked,
                 store, handles>>

SourceOpen(s, t, c) ==
  /\ c \in plan.calls /\ c.op = "OPEN" /\ t <= Cardinality(Table)
  /\ source' = IF c.trunc THEN [source EXCEPT ![t] = 0] ELSE source
  /\ Recorded([op |-> "OPEN", s |-> s, h |-> Cardinality(Indices("OPEN")) + 1, tgt |-> t,
               mode |-> c.mode, trunc |-> c.trunc])

SourceRead(s, h, c) ==
  LET left  == source[TargetOf(h)] - c.off
      moved == IF left < c.len THEN left ELSE c.len
  IN  /\ c \in plan.calls /\ c.op = "READ"
      /\ moved > 0
      /\ UNCHANGED source
      /\ Recorded([op |-> "READ", s |-> s, h |-> h, off |-> c.off, len |-> c.len,
                   ret |-> IF moved < c.len THEN moved ELSE None])

SourceWrite(s, h, c) ==
  /\ c \in plan.calls /\ c.op = "WRITE"
  /\ OpenOf(h).mode # "r"
  /\ source' = [source EXCEPT ![TargetOf(h)] = Longer(@, c.off + c.len)]
  /\ Recorded([op |-> "WRITE", s |-> s, h |-> h, off |-> c.off, len |-> c.len, ret |-> None])

SourceUse(s, h, c) ==
  /\ c \in plan.calls /\ c.op \in {"FSYNC", "CLOSE"}
  /\ UNCHANGED source
  /\ Recorded([op |-> c.op, s |-> s, h |-> h])

CaptureEnds ==
  /\ phase = "capture" /\ ops # <<>>
  /\ phase' = "loading"
  /\ UNCHANGED <<TraceVars, mode, job, primed, warmed, cancelled, faulted, ReplayVars, runs, leaked,
                 store, handles>>

Transferred(op) == IF op.ret # None THEN op.ret ELSE op.len

-----------------------------------------------------------------------------
(* Loading the trace: prepareInternal.                                        *)

(* Map.Rewrite: the longest matching prefix, the first of several.  None for  *)
(* a target without a rule, unless they pass through, or of another bucket.   *)
Matching(t) == {i \in DOMAIN plan.rules : IsPrefix(plan.rules[i].from, NameOf[t])}
Best(t) == CHOOSE i \in Matching(t) : \A j \in Matching(t) :
             LET a == Len(plan.rules[i].from)  b == Len(plan.rules[j].from)
             IN  a > b \/ (a = b /\ i <= j)
Name(t) ==
  IF Matching(t) = {} THEN (IF plan.passthrough THEN NameOf[t] ELSE None)
  ELSE LET rule == plan.rules[Best(t)]
       IN  IF None \notin {rule.bucket, plan.bucket} /\ rule.bucket # plan.bucket THEN None
           ELSE rule.to \o SubSeq(NameOf[t], Len(rule.from) + 1, Len(NameOf[t]))

(* BuildEngine, rewriting, checkTargetContainment and checkOpCaps. *)
Refused ==
  \/ plan.root # <<>> /\ ~Confines(plan.engine)
  \/ \E t \in Table : Name(t) = None \/ ~IsPrefix(plan.root, Name(t))
  \/ Indices("FSYNC") # {} /\ ~Durable(plan.engine) /\ ~ObjectAPI(plan.engine)

Load ==
  /\ phase = "loading"
  /\ phase' = IF Refused THEN "refused" ELSE "preparing"
  /\ UNCHANGED <<TraceVars, mode, job, primed, warmed, cancelled, faulted, ReplayVars, runs, leaked,
                 store, handles>>

(* Mutant: a target is sized by what was asked for. *)
MutantExtent(t) ==
  LET ends == {ops[i].off + ops[i].len : i \in {i \in Indices("READ") \cup Indices("WRITE") : TargetOf(ops[i].h) = t}}
  IN  IF ends = {} THEN 0 ELSE CHOOSE e \in ends : \A f \in ends : f <= e

(* updatePrepMetadata: the furthest byte an operation really reached. *)
Extent(t) ==
  LET ends == {ops[i].off + Transferred(ops[i]) :
                 i \in {i \in Indices("READ") \cup Indices("WRITE") : TargetOf(ops[i].h) = t}}
  IN  IF ends = {} THEN 0 ELSE CHOOSE e \in ends : \A f \in ends : f <= e

(* The target table's size, 0 if the trace does not have it. *)
Declared(t) == IF plan.known THEN source[t] ELSE 0

(* computeRequiredSizes: by name, the last target of a name deciding; None if *)
(* nothing is known.                                                          *)
Needed(t) == IF Declared(t) > 0 THEN Declared(t) ELSE Extent(t)
Required(name) ==
  LET ts == {t \in Table : Name(t) = name /\ Needed(t) > 0}
  IN  IF ts = {} THEN None ELSE Needed(CHOOSE t \in ts : \A u \in ts : u <= t)

(* TargetSizes has the names before rewriting. *)
MemSize(name) ==
  IF \E t \in Table : NameOf[t] = name /\ Declared(t) > 0
    THEN Declared(CHOOSE t \in Table : NameOf[t] = name) ELSE Default

-----------------------------------------------------------------------------
(* Preparing: prepare.go.  One target after the other, in chunks.             *)
Fault == plan.faults /\ ~faulted
Preparing == phase = "preparing" /\ job.tgt \in Table
JobUnchanged == UNCHANGED <<TraceVars, mode, ReplayVars, runs, leaked>>

PrepareOver(failed) ==
  /\ phase' = IF failed THEN "failed" ELSE "preparing"
  /\ JobUnchanged /\ UNCHANGED <<primed, warmed, cancelled>>

(* The context is looked at before every target. *)
PrepareCancelled ==
  /\ Preparing /\ job.h = None /\ cancelled
  /\ PrepareOver(TRUE)
  /\ UNCHANGED <<job, faulted, store, handles>>

(* Mutant: a target that is there will do. *)
MutantVerify(name, declared) ==
  /\ Preparing /\ mode = "existing" /\ ~cancelled
  /\ store' = IF plan.engine = "mem" /\ ~Exists(name) THEN Sized(name, MemSize(name)) ELSE store
  /\ PrepareOver(name \notin DOMAIN store')
  /\ job' = [job EXCEPT !.tgt = @ + 1]
  /\ UNCHANGED <<faulted, handles>>

(* assumeExisting.  Stat makes up what the in-memory engine does not have. *)
Verify(name, declared) ==
  /\ Preparing /\ mode = "existing" /\ ~cancelled
  /\ store' = IF plan.engine = "mem" /\ ~Exists(name) THEN Sized(name, MemSize(name)) ELSE store
  /\ PrepareOver(name \notin DOMAIN store' \/ (declared # 0 /\ store'[name] # declared))
  /\ job' = [job EXCEPT !.tgt = @ + 1]
  /\ UNCHANGED <<faulted, handles>>

(* How long the target is to be: as required, or as the source root has it. *)
Goal(t) == IF mode = "source" THEN source[t] ELSE Required(Name(t))

SizeUnknown ==
  /\ Preparing /\ mode = "synthetic" /\ job.h = None /\ ~cancelled
  /\ Goal(job.tgt) = None
  /\ PrepareOver(TRUE)
  /\ UNCHANGED <<job, faulted, store, handles>>

Materializing == Preparing /\ mode \in {"synthetic", "source"} /\ Goal(job.tgt) # None

(* An object: one Put, which lands or fails. *)
PutTarget(name, fails) ==
  /\ Materializing /\ ObjectAPI(plan.engine) /\ ~cancelled
  /\ fails => Fault
  /\ faulted' = (faulted \/ fails)
  /\ store' = IF fails THEN store ELSE Sized(name, Goal(job.tgt))
  /\ PrepareOver(fails)
  /\ job' = [job EXCEPT !.tgt = @ + 1]
  /\ UNCHANGED handles

(* A file is created or truncated. *)
OpenTarget(name, fails) ==
  /\ Materializing /\ ~ObjectAPI(plan.engine) /\ job.h = None /\ ~cancelled
  /\ fails => Fault
  /\ faulted' = (faulted \/ fails)
  /\ store' = IF fails THEN store ELSE OpenedStore(plan.engine, name, TRUE, MemSize(name))
  /\ handles' = IF fails THEN handles ELSE WithHandle(name)
  /\ job' = IF fails THEN job ELSE [job EXCEPT !.h = NextHandle]
  /\ PrepareOver(fails)

(* Mutant: the file is left open. *)
MutantStopWriting ==
  /\ Materializing /\ job.h # None /\ cancelled
  /\ job.off < Goal(job.tgt) \/ mode = "source"
  /\ PrepareOver(TRUE)
  /\ UNCHANGED <<job, faulted, store, handles>>

(* The context is looked at before every chunk; a copy also looks before the  *)
(* read that finds the end.                                                   *)
StopWriting ==
  /\ Materializing /\ job.h # None /\ cancelled
  /\ job.off < Goal(job.tgt) \/ mode = "source"
  /\ handles' = WithoutHandle(job.h)
  /\ PrepareOver(TRUE)
  /\ UNCHANGED <<job, faulted, store>>

(* A chunk, of which a failing write may have written a part. *)
WriteChunk(name, written) ==
  LET left == Goal(job.tgt) - job.off
      n    == IF left < Chunk THEN left ELSE Chunk
      ok   == written = n
  IN  /\ Materializing /\ job.h # None /\ ~cancelled /\ n > 0
      /\ written \in 0..n
      /\ ok \/ Fault
      /\ faulted' = (faulted \/ ~ok)
      /\ store' = IF written = 0 THEN store ELSE Grown(name, job.off + written)
      /\ handles' = IF ok THEN handles ELSE WithoutHandle(job.h)
      /\ job' = [job EXCEPT !.off = @ + written]
      /\ PrepareOver(~ok)

(* Fsync, where it is supported, and Close; both give the handle back. *)
FinishTarget(fails) ==
  /\ Materializing /\ job.h # None /\ job.off >= Goal(job.tgt)
  /\ ~(cancelled /\ mode = "source")
  /\ fails => Fault
  /\ faulted' = (faulted \/ fails)
  /\ handles' = WithoutHandle(job.h)
  /\ job' = [tgt |-> job.tgt + 1, h |-> None, off |-> 0]
  /\ PrepareOver(fails)
  /\ UNCHANGED store

Prepared ==
  /\ phase = "preparing" /\ job.tgt \notin Table
  /\ phase' = IF plan.cache = "warm" THEN "priming" ELSE "replaying"
  /\ job' = NoJob
  /\ JobUnchanged /\ UNCHANGED <<primed, warmed, cancelled, faulted, store, handles>>

-----------------------------------------------------------------------------
(* Priming: cache.go.  It never fails the run.                                *)
Priming == phase = "priming" /\ job.tgt \in Table
PrimeUnchanged == JobUnchanged /\ UNCHANGED <<phase, cancelled>>

NextTarget(counted, whole) ==
  /\ primed' = IF counted THEN primed \cup {job.tgt} ELSE primed
  /\ warmed' = IF whole THEN warmed \cup {job.tgt} ELSE warmed
  /\ job' = [tgt |-> job.tgt + 1, h |-> None, off |-> 0]

PrimeOpen(name, fails) ==
  LET refused == OpenRefused(plan.engine, name, "r", FALSE)
  IN  /\ Priming /\ ~ObjectAPI(plan.engine) /\ job.h = None
      /\ fails => Fault
      /\ faulted' = (faulted \/ fails)
      /\ IF refused \/ fails
           THEN NextTarget(FALSE, FALSE) /\ UNCHANGED <<store, handles>>
           ELSE /\ store' = OpenedStore(plan.engine, name, FALSE, MemSize(name))
                /\ handles' = WithHandle(name)
                /\ job' = [job EXCEPT !.h = NextHandle]
                /\ UNCHANGED <<primed, warmed>>
      /\ PrimeUnchanged

(* A read that returns nothing ends the loop whatever its error; an error     *)
(* with bytes does not come from these engines.  What fails is a call's name. *)
PrimeRead(fails) ==
  LET n == IF fails = "read" THEN 0 ELSE Available(handles[job.h], job.off, Chunk)
  IN  /\ Priming /\ job.h # None
      /\ fails # None => Fault
      /\ faulted' = (faulted \/ fails # None)
      /\ IF n = Chunk
           THEN job' = [job EXCEPT !.off = @ + n] /\ fails = None /\ UNCHANGED <<primed, warmed, handles>>
           ELSE NextTarget(fails # "close", fails # "read") /\ handles' = WithoutHandle(job.h)
      /\ PrimeUnchanged /\ UNCHANGED store

(* Mutant: a short prime counts. *)
MutantPrimeObject(name, read) ==
  /\ Priming /\ ObjectAPI(plan.engine)
  /\ read \in 0..(IF Exists(name) THEN store[name] ELSE 0)
  /\ (~Exists(name) \/ read < store[name]) => (~Exists(name) \/ Fault)
  /\ faulted' = (faulted \/ (Exists(name) /\ read < store[name]))
  /\ NextTarget(Exists(name), Exists(name) /\ read = store[name])
  /\ PrimeUnchanged /\ UNCHANGED <<store, handles>>

(* Head, then Gets up to its size, of which one may end early. *)
PrimeObject(name, read) ==
  /\ Priming /\ ObjectAPI(plan.engine)
  /\ read \in 0..(IF Exists(name) THEN store[name] ELSE 0)
  /\ (~Exists(name) \/ read < store[name]) => (~Exists(name) \/ Fault)
  /\ faulted' = (faulted \/ (Exists(name) /\ read < store[name]))
  /\ LET whole == Exists(name) /\ read = store[name] IN NextTarget(whole, whole)
  /\ PrimeUnchanged /\ UNCHANGED <<store, handles>>

Primed ==
  /\ phase = "priming" /\ job.tgt \notin Table
  /\ phase' = "replaying"
  /\ JobUnchanged /\ UNCHANGED <<job, primed, warmed, cancelled, faulted, store, handles>>

-----------------------------------------------------------------------------
(* Replaying: dispatchOp.  Each stream issues its operations in turn and goes *)
(* on after a failed one: its next is the first of them not issued yet.       *)
Pending(s) == {i \in DOMAIN ops : ops[i].s = s /\ i \notin DOMAIN got}
More(s) == \E i \in Pending(s) : \A j \in Pending(s) : i <= j
At(s)   == Min(Pending(s))
Cur(s)  == ops[At(s)]

(* Handle 0 is what a Go map returns for a trace handle it does not have. *)
EngineHandle(s) == IF Cur(s).h \in DOMAIN hmap[s] THEN hmap[s][Cur(s).h] ELSE 0

Dispatching(s, kind) ==
  /\ phase = "replaying" /\ More(s) /\ dio[s] = Idle /\ ~cancelled
  /\ Cur(s).op = kind
ReplayUnchanged == UNCHANGED <<TraceVars, phase, mode, job, primed, warmed, cancelled, runs, leaked>>

Moved(s, n, ok, name) ==
  got' = [i \in DOMAIN got \cup {At(s)} |->
            IF i = At(s) THEN [n |-> n, ok |-> ok, name |-> name] ELSE got[i]]

Creates(op) == op.trunc
Noted(table, h, new) == [g \in DOMAIN table \cup {h} |-> IF g = h THEN new ELSE table[g]]

Open(s, fails) ==
  LET op      == Cur(s)
      name    == Name(op.tgt)
      refused == OpenRefused(plan.engine, name, op.mode, Creates(op))
  IN  /\ Dispatching(s, "OPEN")
      /\ fails => Fault
      /\ faulted' = (faulted \/ fails)
      /\ Moved(s, 0, ~refused /\ ~fails, name)
      /\ IF refused \/ fails THEN UNCHANGED <<hmap, store, handles>>
         ELSE /\ hmap' = [hmap EXCEPT ![s] = Noted(@, op.h, NextHandle)]
              /\ store' = OpenedStore(plan.engine, name, op.trunc, MemSize(name))
              /\ handles' = WithHandle(name)
      /\ ReplayUnchanged /\ UNCHANGED dio

(* checkedReadTransfer: right if it moved what the source's read moved. *)
Reproduced(op, n, err) == ~err /\ n = Transferred(op)

Read(s, fails) ==
  LET op   == Cur(s)
      h    == EngineHandle(s)
      err  == fails \/ ReadFails(plan.engine, h, op.off)
      n    == IF err THEN 0 ELSE Available(handles[h], op.off, op.len)
  IN  /\ Dispatching(s, "READ")
      /\ fails => Fault
      /\ faulted' = (faulted \/ fails)
      /\ Moved(s, n, Reproduced(op, n, err), IF Live(h) THEN handles[h] ELSE None)
      /\ ReplayUnchanged /\ UNCHANGED <<hmap, dio, store, handles>>

Write(s, fails) ==
  LET op  == Cur(s)
      h   == EngineHandle(s)
      err == fails \/ ~Live(h)
  IN  /\ Dispatching(s, "WRITE")
      /\ plan.engine = "direct" => err
      /\ fails => Fault
      /\ faulted' = (faulted \/ fails)
      /\ store' = IF err THEN store ELSE Grown(handles[h], op.off + op.len)
      /\ Moved(s, IF err THEN 0 ELSE op.len, ~err, IF Live(h) THEN handles[h] ELSE None)
      /\ ReplayUnchanged /\ UNCHANGED <<hmap, dio, handles>>

(* alignedWriteAt, a step for each system call that others can see or move. *)
DirectStat(s) ==
  LET h == EngineHandle(s)
  IN  /\ Dispatching(s, "WRITE") /\ plan.engine = "direct" /\ Live(h)
      /\ dio' = [dio EXCEPT ![s] = [step |-> "read", orig |-> store[handles[h]], name |-> handles[h]]]
      /\ ReplayUnchanged /\ UNCHANGED <<hmap, got, faulted, store, handles>>

DirectWrite(s) ==
  /\ phase = "replaying" /\ dio[s] # Idle /\ dio[s].step = "read"
  /\ store' = BlocksWritten(dio[s].name, Cur(s).off + Cur(s).len)
  /\ dio' = [dio EXCEPT ![s].step = "written"]
  /\ ReplayUnchanged /\ UNCHANGED <<hmap, got, faulted, handles>>

DirectCut(s) ==
  /\ phase = "replaying" /\ dio[s] # Idle /\ dio[s].step = "written"
  /\ store' = Cut(dio[s].name, dio[s].orig, Cur(s).off + Cur(s).len)
  /\ dio' = [dio EXCEPT ![s] = Idle]
  /\ Moved(s, Cur(s).len, TRUE, dio[s].name)
  /\ ReplayUnchanged /\ UNCHANGED <<hmap, faulted, handles>>

(* One of them fails: what was written so far stays, padding included. *)
DirectFails(s) ==
  /\ phase = "replaying" /\ dio[s] # Idle /\ Fault
  /\ faulted' = TRUE
  /\ dio' = [dio EXCEPT ![s] = Idle]
  /\ Moved(s, 0, FALSE, dio[s].name)
  /\ ReplayUnchanged /\ UNCHANGED <<hmap, store, handles>>

(* An object's FSYNC is for write handles, which are none of this module's.   *)
Fsync(s, fails) ==
  /\ Dispatching(s, "FSYNC")
  /\ fails => Fault
  /\ faulted' = (faulted \/ fails)
  /\ Moved(s, 0, ~fails /\ Live(EngineHandle(s)), None)
  /\ ReplayUnchanged /\ UNCHANGED <<hmap, dio, store, handles>>

(* Close gives the engine's handle back even when it reports an error. *)
Close(s, fails) ==
  LET h  == EngineHandle(s)
      ok == Live(h) /\ ~fails
  IN  /\ Dispatching(s, "CLOSE")
      /\ fails => Fault
      /\ faulted' = (faulted \/ fails)
      /\ handles' = WithoutHandle(h)
      /\ hmap' = [hmap EXCEPT ![s] = IF ok THEN [g \in DOMAIN @ \ {Cur(s).h} |-> @[g]] ELSE @]
      /\ Moved(s, 0, ok, None)
      /\ ReplayUnchanged /\ UNCHANGED <<dio, store>>

Over ==
  /\ phase = "replaying"
  /\ \A s \in Streams : dio[s] = Idle /\ (More(s) => cancelled)
  /\ phase' = "over"
  /\ JobUnchanged /\ UNCHANGED <<job, primed, warmed, cancelled, faulted, store, handles>>

-----------------------------------------------------------------------------
Cancel ==
  /\ plan.faults /\ ~cancelled
  /\ phase \in {"preparing", "priming", "replaying"}
  /\ cancelled' = TRUE
  /\ JobUnchanged /\ UNCHANGED <<phase, job, primed, warmed, faulted, store, handles>>

Ended == phase \in {"refused", "failed", "over"}

(* The next Prepare builds an engine of its own; the handles of the one       *)
(* before are not closed with it (shutdownEngine).                            *)
Again(m) ==
  /\ Ended /\ phase # "refused" /\ runs < MaxRuns
  /\ m \in plan.modes
  /\ phase' = "preparing"
  /\ mode' = m
  /\ job' = NoJob /\ primed' = {} /\ warmed' = {}
  /\ cancelled' = FALSE /\ faulted' = FALSE
  /\ hmap' = [s \in Streams |-> <<>>]
  /\ got' = <<>>
  /\ runs' = runs + 1
  /\ leaked' = leaked + Cardinality(LiveHandles)
  /\ handles' = <<>>
  /\ store' = IF plan.engine = "mem" THEN <<>> ELSE store
  /\ UNCHANGED <<TraceVars, dio>>

Done == Ended /\ (phase = "refused" \/ runs = MaxRuns) /\ UNCHANGED dataVars

Capturing ==
  \E s \in Streams, c \in plan.calls :
    \/ \E t \in Targets : SourceOpen(s, t, c)
    \/ \E h \in Held(s) : SourceRead(s, h, c) \/ SourceWrite(s, h, c) \/ SourceUse(s, h, c)

PreparingStep ==
  LET name == Name(job.tgt)
  IN  \/ PrepareCancelled \/ SizeUnknown \/ StopWriting \/ Prepared
      \/ /\ Preparing
         /\ \/ Verify(name, Declared(job.tgt))
            \/ \E fails \in BOOLEAN : PutTarget(name, fails) \/ OpenTarget(name, fails) \/ FinishTarget(fails)
            \/ \E n \in 0..Chunk : WriteChunk(name, n)

PrimingStep ==
  \/ Primed
  \/ /\ Priming
     /\ \/ \E fails \in BOOLEAN : PrimeOpen(Name(job.tgt), fails)
        \/ \E fails \in {None, "read", "close"} : PrimeRead(fails)
        \/ \E n \in 0..(IF Exists(Name(job.tgt)) THEN store[Name(job.tgt)] ELSE 0) : PrimeObject(Name(job.tgt), n)

Replaying ==
  \E s \in Streams :
    \/ DirectStat(s) \/ DirectWrite(s) \/ DirectCut(s) \/ DirectFails(s)
    \/ \E fails \in BOOLEAN : Open(s, fails) \/ Read(s, fails) \/ Write(s, fails)
                                \/ Fsync(s, fails) \/ Close(s, fails)

Next ==
  \/ Capturing \/ CaptureEnds \/ Load
  \/ PreparingStep \/ PrimingStep
  \/ Replaying \/ Over
  \/ Cancel \/ Done
  \/ \E m \in plan.modes : Again(m)

Spec == Init /\ [][Next]_dataVars
=============================================================================
