---------------------------- MODULE TraceToolsProps ----------------------------
(* What traces have to be when they are made and when they are transformed. *)
EXTENDS TraceTools

(* The source clock steps back over midnight. *)
Stamps == [i \in DOMAIN wall |-> wall[i].t]
Crossed ==
  \E i \in 1..(Len(wall) - 1) :
    wall[i + 1].t < wall[i].t /\ wall[i + 1].t \div Day < wall[i].t \div Day

(* Times of day are put back on one continuous clock: whatever the pauses and *)
(* however many midnights, all lines are off by the same number of days. Only *)
(* a clock that steps back over midnight defeats it (strace/parse.go:674).    *)
RolloverFaithful ==
  ~Crossed => \A i, j \in DOMAIN wall : wall[i].abs - wall[i].t = wall[j].abs - wall[j].t

(* Rebasing, clamping and merging then keep every stream's operations in the order *)
(* of its lines, and put none further from the source clock than that clock   *)
(* once stepped back (build.go:170).                                          *)
TimesKept ==
  tool \in Imports /\ phase \notin {"making"} /\ ~Crossed =>
    LET first == CHOOSE t \in ToSet(Stamps) : \A u \in ToSet(Stamps) : t <= u
    IN  \A s \in Ranks :
          LET ops   == OfStream(file.ops, s)
              lines == OfStream(wall, s)
          IN  /\ Len(ops) = Len(lines)
              /\ \A i \in DOMAIN ops :
                   /\ ops[i].t - (lines[i].t - first) \in 0..Back
                   /\ ops[i].op = "READ" => ops[i].off = i - 1

(* From times of day to the times of the trace.                               *)
TimesFaithful == RolloverFaithful /\ TimesKept

(* Imports and generators never make a trace the validator refuses, and no    *)
(* accepted trace is transformed into one it refuses (transform.go:124).      *)
ProductsValid ==
  /\ phase = "refused" => tool = "hand"
  /\ phase # "broken"

-----------------------------------------------------------------------------
(* What a legal trace is, said without reading it in order.                   *)
Uses == {"READ", "WRITE", "FSYNC", "CLOSE"}

Orderly(ops) ==
  /\ \A i, j \in DOMAIN ops : i < j =>
       /\ ops[i].t <= ops[j].t
       /\ ops[i].op_id # ops[j].op_id
       /\ ops[i].s = ops[j].s => ops[i].op_id < ops[j].op_id

Lifecycles(ops) ==
  /\ \A i, j \in DOMAIN ops : ops[i].op = "OPEN" /\ ops[j].op = "OPEN" /\ ops[i].h = ops[j].h => i = j
  /\ \A j \in DOMAIN ops : ops[j].op \in Uses =>
       \E i \in 1..(j - 1) :
         /\ ops[i].op = "OPEN" /\ ops[i].h = ops[j].h /\ ops[i].s = ops[j].s
         /\ \A k \in (i + 1)..(j - 1) : ~(ops[k].op = "CLOSE" /\ ops[k].h = ops[j].h)

Kinds == Uses \cup {"OPEN", "STAT", "HEAD", "GET", "PUT", "DELETE"}

Shaped(tr, op) ==
  /\ op.op \in Kinds
  /\ op.op_id # None /\ op.op_id >= 0
  /\ (op.tgt = None) = (op.op \in Uses)
  /\ op.tgt # None => op.tgt \in 0..(tr.targets - 1)
  /\ (op.h = None) = (op.op \notin Uses \cup {"OPEN"})
  /\ IF op.op = "OPEN" THEN op.mode \in {"r", "w", "rw"} ELSE op.mode = None
  /\ (op.off = None) = (op.op \notin {"READ", "WRITE", "GET"})
  /\ (op.len = None) = (op.op \notin {"READ", "WRITE", "GET", "PUT"})
  /\ \A f \in {"off", "len", "dur"} : op[f] # None => op[f] >= 0
  /\ op.ret # None => op.op \in {"READ", "GET"} /\ op.ret \in 0..op.len /\ tr.version >= 2

(* The validator's one pass accepts exactly the traces whose handles live on  *)
(* one stream from one OPEN to at most one CLOSE, that are in order, and      *)
(* whose header tells what they hold (validate.go:65).                        *)
ValidatorExact ==
  tool = "hand" /\ phase # "making" =>
    (phase # "refused") = (/\ \A i \in DOMAIN file.ops : Shaped(file, file.ops[i])
                           /\ Orderly(file.ops)
                           /\ Lifecycles(file.ops)
                           /\ ~params.truncated)

-----------------------------------------------------------------------------
IsRead(op) == op.op \in {"READ", "GET"} /\ Transferred(op) # None

(* The bytes an operation reads, one by one; any other operation as it is. *)
Touched(op) ==
  IF IsRead(op) /\ Transferred(op) > 0
    THEN [k \in 1..Transferred(op) |-> <<op.s, op.t, op.h, op.tgt, op.off + k - 1>>]
    ELSE <<[op EXCEPT !.op_id = 0]>>
AllTouched(ops) == FlattenSeq([i \in DOMAIN ops |-> Touched(ops[i])])

(* A full read of at most a block; a read of the source, as it was, that fell *)
(* short and moved at most a block.                                           *)
Full(op, b) == op.ret = None /\ op.len <= b
FellShort(op, b, source) ==
  /\ op.ret # None /\ op.ret <= b
  /\ \E i \in DOMAIN source : op = [source[i] EXCEPT !.op_id = op.op_id]

(* A transformed trace reads the same bytes in the same order, agrees on the  *)
(* total and leaves everything else alone; it requests at most a block at a   *)
(* time, but for what is taken over from the source because it moved no more  *)
(* (splitreads.go:66).  For that one exception the bound that splitreads.go:16 *)
(* and README.md:396 promise of every read does not hold: such a read goes on *)
(* requesting all it did.                                                     *)
SplitFaithful ==
  phase \in {"split", "broken"} =>
    /\ AllTouched(out.ops) = AllTouched(file.ops)
    /\ \A i \in DOMAIN out.ops :
         IsRead(out.ops[i]) => Full(out.ops[i], block) \/ FellShort(out.ops[i], block, file.ops)
    /\ out.summary.total_bytes = file.summary.total_bytes

-----------------------------------------------------------------------------
BytesOf(ops, kind, handles) ==
  FlattenSeq([i \in DOMAIN ops |->
    IF ops[i].op = kind /\ ops[i].h \in handles
      THEN [k \in 1..ops[i].len |-> <<ops[i].h, ops[i].off + k - 1>>] ELSE <<>>])

HandlesOn(tgt) == {file.ops[i].h : i \in {i \in DOMAIN file.ops : file.ops[i].tgt = tgt}}

(* Every checkpoint writes the model once: each shard from its first byte to  *)
(* its last, and the shards add up to the model, whatever remainders the      *)
(* ranks and the blocks leave (checkpoint/generate.go:196).                   *)
CheckpointWhole ==
  tool = "checkpoint" /\ phase # "making" =>
    \A c \in 0..(params.count - 1) :
      LET Written(r) == BytesOf(file.ops, "WRITE", HandlesOn(Shard(params, c, r)))
          ranks == 0..(params.ranks - 1)
      IN  /\ \A r \in ranks :
               /\ Cardinality(HandlesOn(Shard(params, c, r))) = 1
               /\ Written(r) # <<>>
               /\ \A i \in DOMAIN Written(r) : Written(r)[i][2] = i - 1
          /\ FoldFunction(+, 0, [r \in ranks |-> Len(Written(r))]) = params.model

(* Every epoch reads every shard once and every byte of it once, in any       *)
(* order, and no worker gets two shards more than another                     *)
(* (trainingread/generate.go:92).                                             *)
TrainingWhole ==
  tool = "training" /\ phase # "making" =>
    /\ \A tgt \in 0..(params.shards - 1) :
         /\ Cardinality(HandlesOn(tgt)) = params.epochs
         /\ \A h \in HandlesOn(tgt) :
              LET bytes == BytesOf(file.ops, "READ", {h})
              IN  Len(bytes) = params.size /\ ToSet(bytes) = {<<h, b>> : b \in 0..(params.size - 1)}
    /\ \A s, r \in DOMAIN streams :
         LET Opened(w) == Cardinality({i \in DOMAIN streams[w] : streams[w][i].op = "OPEN"})
         IN  Opened(s) <= Opened(r) + params.epochs

(* Generated workloads divide their data without gap or overlap.              *)
GeneratedWhole == CheckpointWhole /\ TrainingWhole

-----------------------------------------------------------------------------
Total(seq) == FoldLeft(+, 0, seq)
Near(a, b, d) == a - b \in (-d)..d

(* Under think time, the pause before a call on the replay is the program's    *)
(* own, to the step of its clock, wherever the call before it has a duration;  *)
(* and the run lasts longer than the program's by what the engine took longer. *)
ThinksLikeProgram(calls, ops, steps, extra, first) ==
  LET n == Len(calls)
  IN  /\ \A i \in 1..(n - 1) :
           LET pause == steps[i + 1].due - steps[i].done
               idle  == calls[i + 1].at - (calls[i].at + calls[i].dur)
           IN  IF ops[i].dur = None THEN pause = 0 ELSE pause >= 0 /\ Near(pause, idle, Back)
      /\ n > 0 /\ (\A i \in 1..(n - 1) : ops[i].dur # None) =>
           Near(steps[n].done - Total(extra), calls[n].at + calls[n].dur - first, Back)

(* On the timeline, a call is due when the program made it, at the speed asked *)
(* for; it is issued alone on its stream and never early; and at the original  *)
(* speed it is late by no more than what the calls before it and the semaphore *)
(* took longer, so an engine that is fast enough follows the program.          *)
KeepsTheTimeline(mode, calls, steps, extra, first) ==
  \A i \in DOMAIN calls :
    /\ Near(mode.speedup * steps[i].due, calls[i].at - first, Back + mode.speedup - 1)
    /\ Drift(steps[i]) >= 0
    /\ i > 1 => steps[i].start >= steps[i - 1].done
    /\ mode.speedup = 1 => Latency(mode, steps[i]) - calls[i].dur <=
                            Back + Total([j \in 1..i |-> IF extra[j] > 0 THEN extra[j] ELSE 0])

(* At full speed, a stream lasts as long as its calls and their waits.        *)
NeverPauses(calls, steps, extra) ==
  calls # <<>> => Last(steps).done = Total(extra) + Total([i \in DOMAIN calls |-> calls[i].dur])

(* An imported program is replayed at its own pace (scheduler.go:104, :174).  *)
PacedFaithful ==
  phase = "replayed" /\ ~Crossed =>
    LET first == CHOOSE t \in ToSet(Stamps) : \A u \in ToSet(Stamps) : t <= u
    IN  \A s \in Ranks :
          LET calls == OfStream(wall, s)
              steps == replay.runs[s]
              extra == replay.extra[s]
          IN  CASE replay.mode.name = "think" ->
                     ThinksLikeProgram(calls, OfStream(file.ops, s), steps, extra, first)
                [] replay.mode.name = "timeline" ->
                     KeepsTheTimeline(replay.mode, calls, steps, extra, first)
                [] replay.mode.name = "asap" -> NeverPauses(calls, steps, extra)
=============================================================================
