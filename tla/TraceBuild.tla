------------------------------ MODULE TraceBuild ------------------------------
(* The importers' Builder (pkg/importer/build.go): operations are gathered    *)
(* per stream in arrival order, then rebased, clamped, merged and numbered.   *)
EXTENDS TraceFormat, FiniteSetsExt, TLC

MinTimestamp(perStream) ==
  LET ts == {o.t : o \in UNION {ToSet(perStream[s]) : s \in DOMAIN perStream}}
  IN  IF ts = {} THEN 0 ELSE Min(ts)

(* Mutant: the clamp is forgotten. *)
MutantUnclamped(ops, minT) == [i \in DOMAIN ops |-> [ops[i] EXCEPT !.t = @ - minT]]

(* Rebase to the global minimum; an operation is no earlier than any before it *)
(* in its stream.                                                             *)
Clamped(ops, minT) ==
  [i \in DOMAIN ops |-> [ops[i] EXCEPT !.t = Max({ops[j].t : j \in 1..i}) - minT]]

NumClamped(ops, minT) ==
  Cardinality({i \in DOMAIN ops : Clamped(ops, minT)[i].t # ops[i].t - minT})

(* The merge order: time, then stream, then the position in the stream.       *)
Before(a, b) ==
  \/ a.t < b.t
  \/ a.t = b.t /\ a.s < b.s
  \/ a.t = b.t /\ a.s = b.s /\ a.idx < b.idx

Places(perStream) ==
  UNION {{[t |-> perStream[s][i].t, s |-> s, idx |-> i] : i \in DOMAIN perStream[s]} : s \in DOMAIN perStream}

(* The one with n before it. *)
Ranked(places, n) == CHOOSE a \in places : Cardinality({b \in places : Before(b, a)}) = n

(* All streams in one order, numbered in it. *)
InOrder(perStream) ==
  LET places == Places(perStream)
      order  == [n \in 1..Cardinality(places) |-> Ranked(places, n - 1)]
  IN  [n \in DOMAIN order |-> [perStream[order[n].s][order[n].idx] EXCEPT !.op_id = n - 1]]

Merged(perStream) ==
  InOrder([s \in DOMAIN perStream |-> Clamped(perStream[s], MinTimestamp(perStream))])

(* Builder.WriteTo, up to its self-validation. *)
TraceFile(perStream, numTargets) ==
  LET ops == Merged(perStream)
  IN  [version |-> VersionFor(ops),
       targets |-> numTargets,
       summary |-> Summary(ops, IF ops = <<>> THEN 0 ELSE Last(ops).t),
       ops     |-> ops]
=============================================================================
