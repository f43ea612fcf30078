------------------------------ MODULE TraceTools ------------------------------
(* Where a trace comes from, and what `ioflux transform' makes of it: an      *)
(* import whose lines carry the time of day, one of the generators, or a      *)
(* trace written by hand, which the validator accepts or refuses; and at what *)
(* times an imported one is replayed.                                         *)
EXTENDS Generators, SplitReads, Pacing

CONSTANTS
  Tools,      (* the sources explored *)
  Ranks,      (* stream ids of an import *)
  Day,        (* units of time in a day *)
  Start,      (* time of day of the first line, at the earliest *)
  Steps,      (* by how much the clock goes on between two lines *)
  Back,       (* by how much the clock may once step back *)
  Durs,       (* how long a call may take *)
  MaxLines,   (* bound on the lines of an imported trace *)
  MaxTimed,   (* and when they tell how long the calls took *)
  Modes,      (* modes of replay *)
  Speeds,     (* the engine of the replay: "same", "slow" or "fast" *)
  Wait,       (* for how long the semaphore may hold an operation *)
  CkptParams, TrainParams,   (* parameters tried *)
  HandOps,    (* operations a trace written by hand is made of *)
  MaxHand,    (* bound on its length *)
  Blocks      (* block sizes of the transformation *)

ASSUME ToolsAssumption ==
  /\ Tools \subseteq {"strace", "dftracer", "checkpoint", "training", "hand"}
  /\ Ranks \subseteq Int /\ IsFiniteSet(Ranks)
  /\ Day \in Nat \ {0} /\ Start \in Nat /\ Steps \subseteq Nat /\ Back \in Nat
  /\ \A d \in Steps : 2 * (d + Back) < Day     (* no pause of half a day *)
  /\ CkptParams \subseteq [model : Int, ranks : Int, block : Int, count : Int, interval : Int,
                          fsync : {"per-file", "final", "none"}]
  /\ TrainParams \subseteq [shards : Int, size : Int, epochs : Int, workers : Int,
                           shuffle : BOOLEAN, random : BOOLEAN]
  /\ \A p \in CkptParams : CheckpointValid(p)
  /\ \A p \in TrainParams : TrainingValid(p)
  /\ Blocks \subseteq Nat \ {0}
  /\ Durs \subseteq Nat /\ 0 \in Durs /\ Wait \in Nat
  /\ \A m \in Modes : m.name \in {"asap", "timeline", "think"} /\ m.speedup \in Nat \ {0}

(* A field that is there holds a number where the format has numbers. *)
ASSUME HandAssumption ==
  /\ None \notin Int
  /\ \A o \in HandOps : /\ DOMAIN o = DOMAIN BlankOp /\ o.t \in Int
                         /\ \A f \in {"op_id", "off", "len", "ret", "dur"} : o[f] \in Int \cup {None}

VARIABLES
  tool,
  phase,     (* "making", then "made" or "refused", then "split" or "replayed" *)
  params,    (* of the generator, or whether strace tells durations *)
  streams,   (* the operations of each stream so far *)
  clock,     (* parser: dayOffset, prevAbs; the real time, each stream's last call *)
  wall,      (* history: when each call was made and when its line was stamped, *)
             (* on a clock without days, and how long it took                 *)
  gen,       (* training generator: epoch, shards left, position, next handle *)
  file,      (* the trace made *)
  block, out,   (* the transformation's block size and its result *)
  replay        (* mode, service and waiting times, and steps of each stream *)

vars == <<tool, phase, params, streams, clock, wall, gen, file, block, out, replay>>

Making(t) == phase = "making" /\ tool = t
Unmade == UNCHANGED <<tool, params, block, out, replay>>
Imports == {"strace", "dftracer"}

Init ==
  /\ tool \in Tools
  /\ phase = "making"
  /\ params \in CASE tool = "checkpoint" -> CkptParams
                  [] tool = "training"   -> TrainParams
                  [] tool = "hand"       -> [version : 1..2, truncated : BOOLEAN]
                  [] OTHER               -> [timed : IF tool = "strace" THEN BOOLEAN ELSE {TRUE}]
  /\ streams = CASE tool \in Imports  -> [s \in Ranks |-> <<>>]
                 [] tool = "training" -> [s \in 0..(params.workers - 1) |-> <<>>]
                 [] OTHER             -> <<>>
  /\ clock = [now |-> Start, offset |-> 0, prev |-> None, jumped |-> FALSE,
              busy |-> [s \in Ranks |-> Start]]
  /\ wall = <<>>
  /\ gen = IF tool = "training"
             THEN [epoch |-> 0, left |-> 0..(params.shards - 1), pos |-> 0, h |-> 1,
                   t |-> [s \in 0..(params.workers - 1) |-> 0]]
             ELSE None
  /\ file = None
  /\ block = None
  /\ out = None
  /\ replay = None

-----------------------------------------------------------------------------
(* An import.  Times of day come back to 0; applyRollover counts the days.    *)

(* Mutant: any step back is taken for midnight. *)
MutantRolledOver(tod) ==
  LET abs == tod + clock.offset
  IN  IF clock.prev # None /\ abs < clock.prev THEN abs + Day ELSE abs

RolledOver(tod) ==
  LET abs == tod + clock.offset
  IN  IF clock.prev # None /\ abs < clock.prev - Day \div 2 THEN abs + Day ELSE abs

(* The call's duration as it is recorded: a line of strace -T has one, and an *)
(* event of DFTracer has one unless it is zero.                               *)
RecordedDur(dur) == IF (tool = "strace" /\ params.timed) \/ dur > 0 THEN dur ELSE None

(* The next call of stream s; handles are by stream. *)
CallOf(s, t, dur) ==
  LET call == IF streams[s] = <<>> THEN Opens(s, t, s, 0, "rw")
              ELSE Moves("READ", s, t, s, Len(streams[s]), 1)
  IN  [call EXCEPT !.dur = RecordedDur(dur)]

(* The line, or the event, of a call that stream s makes once its last one is *)
(* over.  DFTracer's times need no days.                                      *)
Line(s, step, back, dur) ==
  LET at   == clock.now + step
      seen == at - back
      abs  == IF tool = "strace" THEN RolledOver(seen % Day) ELSE seen
  IN  /\ phase = "making" /\ tool \in Imports
      /\ Len(wall) < (IF params.timed THEN MaxTimed ELSE MaxLines)
      /\ dur > 0 => params.timed
      /\ back > 0 => ~clock.jumped /\ tool = "strace"
      /\ at >= clock.busy[s]
      /\ streams' = [streams EXCEPT ![s] = Append(@, CallOf(s, abs, dur))]
      /\ clock' = [now |-> at, offset |-> IF tool = "strace" THEN abs - (seen % Day) ELSE 0, prev |-> abs,
                   jumped |-> clock.jumped \/ back > 0, busy |-> [clock.busy EXCEPT ![s] = at + dur]]
      /\ wall' = Append(wall, [s |-> s, at |-> at, t |-> seen, abs |-> abs, dur |-> dur])
      /\ Unmade /\ UNCHANGED <<phase, gen, file>>

ImportEnds ==
  /\ phase = "making" /\ tool \in Imports /\ wall # <<>>
  /\ file' = TraceFile([s \in {s \in Ranks : streams[s] # <<>>} |-> streams[s]], 1)
  /\ phase' = IF Errors(file') = {} THEN "made" ELSE "refused"
  /\ Unmade /\ UNCHANGED <<streams, clock, wall, gen>>

-----------------------------------------------------------------------------
(* The generators validate nothing; whoever reads the trace does. *)
Checkpoint ==
  /\ Making("checkpoint")
  /\ file' = Checkpoints(params)
  /\ phase' = IF Errors(file') = {} THEN "made" ELSE "refused"
  /\ Unmade /\ UNCHANGED <<streams, clock, wall, gen>>

Orders(draw) == IF params.random THEN Bijection(DOMAIN draw, DOMAIN draw) ELSE {[i \in DOMAIN draw |-> i]}

NextShards == IF params.shuffle THEN gen.left ELSE {i \in gen.left : \A j \in gen.left : i <= j}

(* One turn of Generate's loop over the shards of an epoch. *)
Shards(shard, draw, order) ==
  LET wi   == gen.pos % params.workers
      ops  == ShardOps(wi, gen.t[wi], gen.h, shard, draw, order)
      left == gen.left \ {shard}
      last == gen.pos + 1 = params.shards
  IN  /\ Making("training")
      /\ gen.epoch < params.epochs
      /\ streams' = [streams EXCEPT ![wi] = @ \o ops]
      /\ gen' = [epoch |-> IF last THEN gen.epoch + 1 ELSE gen.epoch,
                 left  |-> IF last THEN 0..(params.shards - 1) ELSE left,
                 pos   |-> IF last THEN 0 ELSE gen.pos + 1,
                 h     |-> gen.h + 1,
                 t     |-> [gen.t EXCEPT ![wi] = @ + Len(ops)]]
      /\ Unmade /\ UNCHANGED <<phase, clock, wall, file>>

Training ==
  /\ Making("training") /\ gen.epoch = params.epochs
  /\ file' = GeneratedFile(streams, params.shards)
  /\ phase' = IF Errors(file') = {} THEN "made" ELSE "refused"
  /\ Unmade /\ UNCHANGED <<streams, clock, wall, gen>>

-----------------------------------------------------------------------------
(* By hand: any operations, with a header that may be of a longer trace. *)
Type(op) ==
  /\ Making("hand") /\ Len(streams) < MaxHand
  /\ streams' = Append(streams, op)
  /\ Unmade /\ UNCHANGED <<phase, clock, wall, gen, file>>

Check ==
  /\ Making("hand") /\ streams # <<>>
  /\ file' = [version |-> params.version, targets |-> 1,
              summary |-> Summary(IF params.truncated THEN Append(streams, Last(streams)) ELSE streams, 0),
              ops     |-> streams]
  /\ phase' = IF Errors(file') = {} THEN "made" ELSE "refused"
  /\ Unmade /\ UNCHANGED <<streams, clock, wall, gen>>

-----------------------------------------------------------------------------
(* runSplitReads: its input is valid, its output is validated again. *)
Transform(b) ==
  /\ phase = "made"
  /\ block' = b
  /\ out' = SplitFile(file, b)
  /\ phase' = IF Errors(out') = {} THEN "split" ELSE "broken"
  /\ UNCHANGED <<tool, params, streams, clock, wall, gen, file, replay>>

(* A replay of an import, by an engine as fast as the program's, slower or     *)
(* faster; the semaphore may hold the n-th operation of every stream.         *)
ServiceOf(call, speed) ==
  CASE speed = "same" -> call.dur
    [] speed = "slow" -> call.dur + 1
    [] speed = "fast" -> 0

Pace(mode, speed, n) ==
  LET calls(s)   == OfStream(wall, s)
      service(s) == [i \in DOMAIN calls(s) |-> ServiceOf(calls(s)[i], speed)]
      held(s)    == [i \in DOMAIN calls(s) |-> IF i = n THEN Wait ELSE 0]
  IN  /\ phase = "made" /\ tool \in Imports /\ Len(wall) <= MaxTimed
      /\ Playable(file.ops, mode)
      /\ phase' = "replayed"
      /\ replay' = [mode  |-> mode,
                    runs  |-> [s \in Ranks |-> Played(OfStream(file.ops, s), mode, service(s), held(s))],
                    extra |-> [s \in Ranks |-> [i \in DOMAIN calls(s) |->
                                                  held(s)[i] + service(s)[i] - calls(s)[i].dur]]]
      /\ UNCHANGED <<tool, params, streams, clock, wall, gen, file, block, out>>

Done == phase \in {"refused", "split", "broken", "replayed"} /\ UNCHANGED vars

Next ==
  \/ \E s \in Ranks, step \in Steps, back \in {0, Back}, dur \in Durs : Line(s, step, back, dur)
  \/ ImportEnds
  \/ Checkpoint
  \/ /\ Making("training")
     /\ \E shard \in NextShards, draw \in Draws(params.size) :
          \E order \in Orders(draw) : Shards(shard, draw, order)
  \/ Training
  \/ \E op \in HandOps : Type(op)
  \/ Check
  \/ \E b \in Blocks : Transform(b)
  \/ \E mode \in Modes, speed \in Speeds, n \in 0..MaxTimed : Pace(mode, speed, n)
  \/ Done

Spec == Init /\ [][Next]_vars
=============================================================================
