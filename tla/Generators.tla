------------------------------ MODULE Generators ------------------------------
(* The trace generators (pkg/gen).  A checkpoint is a function of its         *)
(* parameters; a training run draws shard orders and record sizes.            *)
EXTENDS TraceBuild

OpOn(kind, s, t, h) == [BlankOp EXCEPT !.op = kind, !.s = s, !.t = t, !.h = h]
Opens(s, t, h, tgt, mode) == [OpOn("OPEN", s, t, h) EXCEPT !.tgt = tgt, !.mode = mode]
Moves(kind, s, t, h, off, len) == [OpOn(kind, s, t, h) EXCEPT !.off = off, !.len = len]

GeneratedFile(streams, numTargets) ==
  LET ops == InOrder(streams)
  IN  [version |-> 1,
       targets |-> numTargets,
       summary |-> Summary(ops, Last(ops).t),
       ops     |-> ops]

-----------------------------------------------------------------------------
(* gen/checkpoint.  p: model, ranks, block, count, interval, fsync.           *)
CheckpointValid(p) ==
  /\ p.model > 0 /\ p.ranks > 0 /\ p.ranks <= p.model
  /\ p.block > 0 /\ p.count > 0 /\ p.interval >= 0
  /\ p.fsync \in {"per-file", "final", "none"}

Shard(p, c, r) == c * p.ranks + r

(* The last rank takes the remainder. *)
ShardSize(p, r) ==
  (p.model \div p.ranks) + (IF r = p.ranks - 1 THEN p.model % p.ranks ELSE 0)

SyncsAt(p, c) == p.fsync = "per-file" \/ (p.fsync = "final" /\ c = p.count - 1)

(* One rank's part of checkpoint c: all of it is due when the burst starts,   *)
(* which is never earlier than the burst before.                              *)
Burst(p, c, r) ==
  LET t == c * p.interval
      h == Shard(p, c, r) + 1
  IN  <<Opens(r, t, h, Shard(p, c, r), "w")>>
      \o [k \in 1..NumPieces(ShardSize(p, r), p.block) |->
            Moves("WRITE", r, t, h, PieceStart(p.block, k - 1), PieceSize(ShardSize(p, r), p.block, k - 1))]
      \o (IF SyncsAt(p, c) THEN <<OpOn("FSYNC", r, t, h)>> ELSE <<>>)
      \o <<OpOn("CLOSE", r, t, h)>>

Checkpoints(p) ==
  GeneratedFile([r \in 0..(p.ranks - 1) |-> FlattenSeq([c \in 1..p.count |-> Burst(p, c - 1, r)])],
                p.count * p.ranks)

-----------------------------------------------------------------------------
(* gen/trainingread.  p: shards, size, epochs, workers, shuffle, random.      *)
TrainingValid(p) == p.shards > 0 /\ p.size > 0 /\ p.epochs > 0 /\ p.workers > 0

(* The record sizes that can be drawn for a shard: each is at least 1, and    *)
(* the last is cut to what remains.                                           *)
Draws(size) == UNION {{d \in [1..n -> 1..size] : FoldFunction(+, 0, d) = size} : n \in 1..size}

StartsOf(draw) == [i \in DOMAIN draw |-> FoldLeft(+, 0, SubSeq(draw, 1, i - 1))]

(* Mutant: the reads of a shard start where the previous one ended. *)
MutantReads(s, t, h, draw, order) ==
  [i \in DOMAIN draw |->
     Moves("READ", s, t + i, h, StartsOf(draw)[i], draw[order[i]])]

(* buildReads: the specs in sequence, or shuffled as wholes. *)
Reads(s, t, h, draw, order) ==
  [i \in DOMAIN draw |->
     Moves("READ", s, t + i, h, StartsOf(draw)[order[i]], draw[order[i]])]

(* One shard's lifecycle; the worker's clock advances by one per operation.   *)
ShardOps(s, t, h, shard, draw, order) ==
  <<Opens(s, t, h, shard, "r")>> \o Reads(s, t, h, draw, order)
  \o <<OpOn("CLOSE", s, t + Len(draw) + 1, h)>>
=============================================================================
