------------------------------ MODULE SplitReads ------------------------------
(* `ioflux transform split-reads' (pkg/transform/splitreads.go): every READ   *)
(* and GET is divided into requests of at most `block' bytes over the extent  *)
(* it really transferred.                                                     *)
EXTENDS TraceFormat

Divided(op, block) ==
  /\ op.op \in {"READ", "GET"}
  /\ Transferred(op) # None
  /\ Transferred(op) > block

(* Mutant: the pieces cover what was asked for, not what arrived. *)
MutantByRequest(op, block) ==
  IF ~Divided(op, block) THEN <<op>>
  ELSE [k \in 1..NumPieces(op.len, block) |->
          [op EXCEPT !.off = @ + PieceStart(block, k - 1), !.len = PieceSize(op.len, block, k - 1),
                     !.ret = None, !.dur = None]]

(* splitOne *)
Pieces(op, block) ==
  IF ~Divided(op, block) THEN <<op>>
  ELSE [k \in 1..NumPieces(Transferred(op), block) |->
          [op EXCEPT !.off = @ + PieceStart(block, k - 1),
                     !.len = PieceSize(Transferred(op), block, k - 1),
                     !.ret = None, !.dur = None]]

(* SplitReads: operation ids are given anew. *)
SplitOps(ops, block) ==
  LET all == FlattenSeq([i \in DOMAIN ops |-> Pieces(ops[i], block)])
  IN  [i \in DOMAIN all |-> [all[i] EXCEPT !.op_id = i - 1]]

(* SplitReadsHeader: a ledger entry needs version 3. *)
SplitFile(file, block) ==
  LET ops == SplitOps(file.ops, block)
  IN  [version |-> 3,
       targets |-> file.targets,
       summary |-> Summary(ops, file.summary.duration),
       ops     |-> ops]
=============================================================================
