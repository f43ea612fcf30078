----------------------------- MODULE MCTraceTools -----------------------------
EXTENDS TraceToolsProps

(* Models that leave remainders over ranks and over blocks, or none. *)
MCCkpt == {p \in [model : {4, 5, 7}, ranks : {1, 2, 3}, block : {1, 2, 4}, count : {1, 2},
                  interval : {0, 3}, fsync : {"per-file", "final", "none"}] : CheckpointValid(p)}

MCTrain ==
  {[shards |-> 3, size |-> 2, epochs |-> 1, workers |-> 2, shuffle |-> TRUE,  random |-> TRUE],
   [shards |-> 2, size |-> 3, epochs |-> 2, workers |-> 3, shuffle |-> TRUE,  random |-> FALSE],
   [shards |-> 1, size |-> 4, epochs |-> 1, workers |-> 1, shuffle |-> FALSE, random |-> TRUE]}

Id(op, n) == [op EXCEPT !.op_id = n]
ReadOf(s, t, h, off, len, ret) == [Moves("READ", s, t, h, off, len) EXCEPT !.ret = ret]
Get(len, ret) == [BlankOp EXCEPT !.op = "GET", !.t = 1, !.tgt = 0, !.off = 1, !.len = len, !.ret = ret]

(* Two handles on two streams, uses on either, ids and times in and out of    *)
(* order or missing, short transfers, and an operation of the wrong shape.    *)
MCHand ==
  {Id(Opens(0, 0, 1, 0, "rw"), 0), Id(Opens(1, 0, 1, 0, "rw"), 1), Id(Opens(0, 1, 2, 0, "r"), 2),
   Id(ReadOf(0, 1, 1, 0, 3, 1), 3), Id(ReadOf(0, 1, 1, 1, 3, None), 4), Id(ReadOf(1, 1, 1, 0, 3, 2), 4),
   Id(ReadOf(0, 1, 2, 0, 3, 4), 5), Id(OpOn("CLOSE", 0, 1, 1), 5), Id(OpOn("CLOSE", 0, 1, 2), 6),
   Id(OpOn("CLOSE", 1, 1, 1), 7), Id(Get(4, 3), 6), Id(Get(4, None), 7),
   Id([OpOn("STAT", 0, 0, None) EXCEPT !.tgt = 1], 8), Id([Get(4, None) EXCEPT !.dur = -1], 8),
   Get(4, None), Id(Get(4, None), -1)}

MCModes == {[name |-> "asap", speedup |-> 1], [name |-> "think", speedup |-> 1],
            [name |-> "timeline", speedup |-> 1], [name |-> "timeline", speedup |-> 2]}
=============================================================================
