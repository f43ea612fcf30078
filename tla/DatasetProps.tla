----------------------------- MODULE DatasetProps -----------------------------
(* What the dataset is for: that the replay meets what the program met.       *)
EXTENDS Dataset

Faultless == ~faulted /\ ~cancelled
Distinct  == \A t, u \in Table : Name(t) = Name(u) => t = u
End(i)    == ops[i].off + Transferred(ops[i])
OpsOn(t)  == {i \in Indices("READ") \cup Indices("WRITE") : TargetOf(ops[i].h) = t}
Truncated == \E i \in Indices("OPEN") : ops[i].trunc

(* One stream has the file to itself. *)
Private(name) ==
  \A i, j \in Indices("OPEN") :
    Name(ops[i].tgt) = name /\ Name(ops[j].tgt) = name => ops[i].s = ops[j].s

(* Every read of the replay moves the bytes the program's read moved, short   *)
(* reads included, on a dataset made up from the trace alone or copied, when  *)
(* the program's short reads were at the end the file has at last             *)
(* (prepare.go:54, scheduler.go:695).                                         *)
Reproducible ==
  /\ plan.engine # "mem" /\ Distinct /\ ~Truncated
  /\ mode = "existing" => plan.known
  /\ \A i \in Indices("READ") : ops[i].ret # None => End(i) = source[TargetOf(ops[i].h)]
  /\ plan.engine = "direct" => \A t \in Table : Private(Name(t))
  /\ ObjectAPI(plan.engine) => \A i \in Indices("OPEN") : ops[i].mode = "r"

ReadsReproduced ==
  Faultless /\ Reproducible =>
    \A i \in DOMAIN got : ops[i].op = "READ" => got[i].ok /\ got[i].n = Transferred(ops[i])

(* No replay starts on a target that is missing, or longer or shorter than    *)
(* what the trace says of it: whatever an earlier attempt, cut off or failed  *)
(* between two chunks, has left there (prepare.go:125, 213).                  *)
Expected(t, size) ==
  /\ mode = "source"  => size = source[t]
  /\ Declared(t) > 0  => size = Declared(t)
  /\ mode = "synthetic" /\ Declared(t) = 0 =>
       (\A i \in OpsOn(t) : End(i) <= size) /\ (\E i \in OpsOn(t) : End(i) = size)

DatasetWhole ==
  phase = "preparing" /\ job.tgt \notin Table /\ Distinct /\ plan.engine # "mem" =>
    \A t \in Table : Exists(Name(t)) /\ Expected(t, store[Name(t)])

(* Every open handle of the engine is known to the one who has to close it,   *)
(* also after a failure or a cancellation between two chunks, and what a      *)
(* stream moves after an OPEN failed is not moved on another file             *)
(* (prepare.go:213, scheduler.go:606).                                        *)
HandlesKept ==
  /\ phase \in {"refused", "failed"} => LiveHandles = {}
  /\ \A h \in LiveHandles :
       h = job.h \/ \E s \in Streams : \E g \in DOMAIN hmap[s] : hmap[s][g] = h
  /\ \A i \in DOMAIN got :
       ops[i].op \in {"READ", "WRITE"} => got[i].name \in {None, Name(TargetOf(ops[i].h))}

(* A target counts as primed only if the warm path read it to its end: the    *)
(* count is what lets a report claim a warm start (cache.go:27).              *)
PrimedReadWhole == primed \subseteq warmed

(* ... which is so for objects, and for files as long as no read fails.       *)
PrimedHonest == ObjectAPI(plan.engine) \/ ~faulted => PrimedReadWhole

(* What a finished WRITE wrote is in the file and stays there, in every       *)
(* interleaving of two streams' direct writes to it: rounding them to whole   *)
(* blocks cuts off nothing, as long as the file is not extended behind the    *)
(* back of a write, and, with one writing stream and no failed call, leaves   *)
(* no padding (direct_linux.go:100).                                          *)
Ample == Distinct /\ (mode = "existing" => plan.known)

SizeKept(name) ==
  LET ends == {End(i) : i \in {i \in DOMAIN got : ops[i].op = "WRITE" /\ got[i].ok /\ got[i].name = name}}
  IN  \A e \in ends : e <= store[name]

NoPadding(name) ==
  mode = "synthetic" /\ Distinct /\ plan.engine # "mem" /\ (\A s \in Streams : dio[s] = Idle) =>
    store[name] <= Required(name)

WritesKept ==
  phase \in {"replaying", "over"} /\ ~Truncated =>
    \A name \in DOMAIN store :
      /\ plan.engine # "direct" \/ Private(name) \/ Ample => SizeKept(name)
      /\ Private(name) /\ ~faulted => NoPadding(name)
=============================================================================
