---------------------------- MODULE ImportersProps ----------------------------
(* What an import keeps of the source trace. *)
EXTENDS Importers

Moved(e) == IsTransfer(e) /\ e.ret > 0

(* The hashed form cannot tell two descriptors of one file apart, does not    *)
(* give offsets, and is of no use for a file whose hash is not defined.       *)
Hashed     == importer = "dftracer" /\ form = "hashed"
Blurred    == Hashed /\ (last.path \in twice \/ last.path \notin hashes)
Offsetless == Hashed /\ \E e \in theme.events : Positional(e)
Appending  == last.d # 0 /\ files[last.d].append

(* A transfer through a descriptor that one thread alone ever used is in the  *)
(* trace, on the handle of the file description it went through, at the       *)
(* offset the kernel moved bytes at and with the bytes that moved, whatever   *)
(* was split over two lines, reopened without a close seen, moved by an lseek *)
(* or failed in between (strace/parse.go:136, fdtable.go:39).                 *)
TransferExact ==
  Moved(last.e) /\ last.alone /\ ~Appending /\ ~Blurred =>
    /\ last.op # NoOp
    /\ opened[last.op.h + 1] = last.d
    /\ Transferred(last.op) = last.e.ret
    /\ ~Offsetless => last.op.off = last.at

(* An operation that names a file names the one the kernel opened or looked   *)
(* at, also relative to a directory descriptor whose number was used before   *)
(* (strace/parse.go:550).                                                     *)
NamesExact ==
  last.op # NoOp /\ last.op.tgt # None /\ last.alone => targets[last.op.tgt + 1] = last.path

(* No transfer is lost in silence: it is in the trace, or counted as skipped; *)
(* and a read that is kept with another length than was requested is counted  *)
(* as lossy (build.go:36, "must not be merged").                              *)
Accounted ==
  IsTransfer(last.e) =>
    /\ (last.op = NoOp) = (last.reasons \ {"requested_len_unobservable"} # {})
    /\ last.op # NoOp /\ last.op.op = "READ" /\ last.op.len # last.e.want =>
         "requested_len_unobservable" \in last.reasons

(* Whatever the source trace, what the Builder assembles passes its own       *)
(* validation: a parser never makes it refuse the whole import (build.go:6).  *)
SelfValidates == phase # "refused"

(* The trace lists the calls in the order they were entered, over all         *)
(* threads, though their lines are in the order they returned, and it keeps   *)
(* every one (build.go:163).                                                  *)
Nth(i) == Cardinality({j \in 1..i : file.ops[j].s = file.ops[i].s})
Entry(i) == begun[file.ops[i].s][Nth(i)]

EntryOrder ==
  phase = "written" =>
    /\ \A i, j \in DOMAIN file.ops : i < j => Entry(i) < Entry(j)
    /\ \A s \in Streams : Cardinality({i \in DOMAIN file.ops : file.ops[i].s = s}) = Len(begun[s])

(* The trace as a whole: it is accepted, and complete and in order.           *)
WellMade == SelfValidates /\ EntryOrder
=============================================================================
