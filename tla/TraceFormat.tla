----------------------------- MODULE TraceFormat -----------------------------
(* Operations of a trace and the rules `ioflux validate' holds a trace to     *)
(* (pkg/trace).  A trace file is a record with a header (version, number of   *)
(* targets, summary) and its operations in file order.  An optional field of  *)
(* an operation that is absent holds None.                                    *)
EXTENDS Integers, Sequences, SequencesExt, FiniteSets

CONSTANT None   (* an absent field *)

BlankOp == [t |-> 0, op_id |-> None, s |-> 0, op |-> None, tgt |-> None, h |-> None,
            mode |-> None, off |-> None, len |-> None, ret |-> None, dur |-> None]

(* Op.TransferredBytes and Op.MinVersion: ret when the transfer was partial. *)
Transferred(op) == IF op.ret # None THEN op.ret ELSE op.len
IsPartial(op)   == op.ret # None
MinVersion(op)  == IF IsPartial(op) THEN 2 ELSE 1

CountsBytes(op) == op.op \in {"READ", "WRITE", "GET", "PUT"}

TransferTotal(ops) ==
  FoldLeft(LAMBDA n, o : IF CountsBytes(o) /\ Transferred(o) # None THEN n + Transferred(o) ELSE n,
           0, ops)

(* A transfer in blocks: the loop `for covered := 0; covered < moved;         *)
(* covered += block' of splitOne and of the checkpoint generator; from 0.     *)
NumPieces(moved, block)    == (moved + block - 1) \div block
PieceStart(block, k)       == k * block
PieceSize(moved, block, k) ==
  IF moved - PieceStart(block, k) < block THEN moved - PieceStart(block, k) ELSE block

VersionFor(ops) == IF \E i \in DOMAIN ops : IsPartial(ops[i]) THEN 2 ELSE 1

Summary(ops, duration) ==
  [num_ops     |-> Len(ops),
   num_streams |-> Cardinality({o.s : o \in ToSet(ops)}),
   total_bytes |-> TransferTotal(ops),
   duration    |-> duration,
   num_partial |-> Cardinality({i \in DOMAIN ops : IsPartial(ops[i])})]

(* What a sequence has at some of its positions, in its order. *)
NthIn(positions, k) == CHOOSE i \in positions : Cardinality({j \in positions : j <= i}) = k
At(seq, positions) == [k \in 1..Cardinality(positions) |-> seq[NthIn(positions, k)]]
OfStream(seq, s)   == At(seq, {i \in DOMAIN seq : seq[i].s = s})

-----------------------------------------------------------------------------
(* The validator reads the operations once, in file order.                   *)
FreshRun == [lastT |-> None, opened |-> {}, closed |-> {}, ids |-> {}, lastId |-> <<>>, errs |-> {}]

OpIdErrors(v, op) ==
  IF op.op_id = None THEN {"op_id missing"}
  ELSE (IF op.op_id < 0 THEN {"op_id negative"} ELSE {}) \cup
       (IF op.op_id \in v.ids THEN {"op_id duplicate"} ELSE {}) \cup
       (IF op.s \in DOMAIN v.lastId /\ op.op_id <= v.lastId[op.s] THEN {"op_id order"} ELSE {})

TargetErrors(file, op) ==
  IF op.tgt = None \/ op.tgt \notin 0..(file.targets - 1) THEN {"tgt"} ELSE {}

(* Mutant: any stream may use the handle. *)
MutantHandleErrors(v, op) ==
  IF \E o \in v.opened : o.h = op.h /\ op.h \notin v.closed THEN {} ELSE {"h"}

(* requireOpenHandle: known, not closed, and opened on this stream. *)
HandleErrors(v, op) ==
  IF \E o \in v.opened : o.h = op.h /\ o.s = op.s /\ op.h \notin v.closed THEN {} ELSE {"h"}

LenErrors(op)    == IF op.len = None \/ op.len < 0 THEN {"len"} ELSE {}
OffLenErrors(op) == (IF op.off = None \/ op.off < 0 THEN {"off"} ELSE {}) \cup LenErrors(op)

Forbid(op, fields) == {f \in fields : op[f] # None}

OpenErrors(v, file, op) ==
  TargetErrors(file, op) \cup Forbid(op, {"off", "len"})
  \cup (IF op.h = None \/ \E o \in v.opened : o.h = op.h THEN {"h"} ELSE {})
  \cup (IF op.mode \in {"r", "w", "rw"} THEN {} ELSE {"mode"})

RetErrors(file, op) ==
  IF op.ret = None THEN {}
  ELSE IF op.op \notin {"READ", "GET"} THEN {"ret"}
  ELSE IF op.ret < 0 \/ (op.len # None /\ op.ret > op.len) \/ file.version < 2 THEN {"ret"} ELSE {}

DurErrors(op) == IF op.dur # None /\ op.dur < 0 THEN {"dur"} ELSE {}

KindErrors(v, file, op) ==
  CASE op.op = "OPEN"                -> OpenErrors(v, file, op)
    [] op.op \in {"READ", "WRITE"}   -> HandleErrors(v, op) \cup Forbid(op, {"tgt", "mode"}) \cup OffLenErrors(op)
    [] op.op \in {"FSYNC", "CLOSE"}  -> HandleErrors(v, op) \cup Forbid(op, {"tgt", "mode", "off", "len"})
    [] op.op \in {"STAT", "HEAD", "DELETE"}
                                     -> TargetErrors(file, op) \cup Forbid(op, {"h", "mode", "off", "len"})
    [] op.op = "GET"                 -> TargetErrors(file, op) \cup Forbid(op, {"h", "mode"}) \cup OffLenErrors(op)
    [] op.op = "PUT"                 -> TargetErrors(file, op) \cup Forbid(op, {"h", "mode", "off"}) \cup LenErrors(op)
    [] OTHER                         -> {"op"}

(* An OPEN that is in error introduces no handle, a CLOSE that is in error    *)
(* closes none; an operation without an op_id leaves those seen alone.        *)
CheckOp(v, file, op) ==
  LET kind == KindErrors(v, file, op)
      late == IF v.lastT # None /\ op.t < v.lastT THEN {"t"} ELSE {}
  IN  [lastT  |-> IF v.lastT = None \/ op.t > v.lastT THEN op.t ELSE v.lastT,
       opened |-> IF op.op = "OPEN" /\ kind \cap {"tgt", "h"} = {}
                    THEN v.opened \cup {[h |-> op.h, s |-> op.s]} ELSE v.opened,
       closed |-> IF op.op = "CLOSE" /\ HandleErrors(v, op) = {} THEN v.closed \cup {op.h} ELSE v.closed,
       ids    |-> v.ids \cup ({op.op_id} \ {None}),
       lastId |-> IF op.op_id = None THEN v.lastId
                  ELSE [s \in DOMAIN v.lastId \cup {op.s} |-> IF s = op.s THEN op.op_id ELSE v.lastId[s]],
       errs   |-> v.errs \cup late \cup OpIdErrors(v, op) \cup kind \cup RetErrors(file, op) \cup DurErrors(op)]

(* validateSummaryAgreement: what a truncated or edited trace disagrees with. *)
SummaryErrors(file) ==
  LET actual == Summary(file.ops, 0)
  IN  {f \in {"num_ops", "num_streams", "num_partial"} : file.summary[f] # actual[f]}

HeaderErrors(file) ==
  (IF file.version \in 1..3 THEN {} ELSE {"version"})
  \cup {f \in {"num_ops", "num_streams", "total_bytes", "duration"} : file.summary[f] < 0}

(* Report.Errors of Validate; a handle that is never closed is a warning. *)
Errors(file) ==
  FoldLeft(LAMBDA v, op : CheckOp(v, file, op), FreshRun, file.ops).errs
  \cup SummaryErrors(file) \cup HeaderErrors(file)
=============================================================================
