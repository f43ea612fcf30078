---------------------------- MODULE DatasetProofs ----------------------------
(* Proofs of DatasetProps, for every plan, trace, engine and fault: that no   *)
(* engine handle is lost and none is taken for another; what is in place when *)
(* preparation is done; and what the replay then does to the files and reads. *)
EXTENDS DatasetProps, DataInduction, FiniteSetTheorems, SequenceTheorems

IsSeq(s) == \E S : s \in Seq(S)

(* The trace opens every handle once: their numbers are counted up.           *)
Opens == Indices("OPEN")
OpensUnique ==
  /\ IsSeq(ops)
  /\ \A i \in Opens : ops[i].h \in 1..Cardinality(Opens)
  /\ \A i, j \in Opens : ops[i].h = ops[j].h => i = j

(* What a stream's table holds: handles of the engine, each for an OPEN that  *)
(* was issued, and on that OPEN's file unless it is closed.                   *)
TableOf(s) ==
  \A g \in DOMAIN hmap[s] :
    /\ hmap[s][g] \in DOMAIN handles
    /\ handles[hmap[s][g]] \in {None, Name(TargetOf(g))}
    /\ \E i \in Opens : i \in DOMAIN got /\ ops[i].h = g

Tables ==
  /\ IsSeq(handles)
  /\ DOMAIN hmap = Streams /\ DOMAIN dio = Streams
  /\ \A s \in Streams : TableOf(s)

(* The handle of preparation or priming.                                      *)
Jobs ==
  /\ DOMAIN job = {"tgt", "h", "off"}
  /\ job.h # None =>
       /\ phase \in {"preparing", "priming", "failed"}
       /\ phase # "failed" => job.tgt \in Table
       /\ ~ObjectAPI(plan.engine)
       /\ phase = "preparing" => mode \in {"synthetic", "source"}
  /\ job.h \in DOMAIN handles \cup {None}

(* Where handles can be in each phase.                                        *)
Places ==
  /\ phase \in {"capture", "loading", "refused", "preparing", "failed", "priming", "replaying", "over"}
  /\ phase \in {"capture", "loading", "refused"} => handles = <<>> /\ job.h = None
  /\ phase \in {"preparing", "priming"} => LiveHandles \subseteq {job.h}
  /\ phase = "failed" => LiveHandles = {}
  /\ phase \notin {"replaying", "over"} =>
       /\ DOMAIN got = {}
       /\ \A s \in Streams : DOMAIN hmap[s] = {}

(* Every open handle can be given back, and a direct write in progress is on  *)
(* the file of the operation it is for.                                       *)
Kept ==
  \A h \in LiveHandles : h = job.h \/ \E s \in Streams : \E g \in DOMAIN hmap[s] : hmap[s][g] = h

RightFile ==
  \A i \in DOMAIN got :
    ops[i].op \in {"READ", "WRITE"} => got[i].name \in {None, Name(TargetOf(ops[i].h))}

Direct(s) ==
  dio[s] # Idle =>
    /\ phase = "replaying"
    /\ More(s) /\ Cur(s).op = "WRITE"
    /\ "name" \in DOMAIN dio[s]
    /\ dio[s].name \in {None, Name(TargetOf(Cur(s).h))}

HandleInv ==
  /\ OpensUnique /\ Tables /\ Jobs /\ Places /\ Kept /\ RightFile
  /\ \A s \in Streams : Direct(s)

-----------------------------------------------------------------------------
(* Names and targets are those of the plan and the trace.                     *)
LEMMA NamesFixed ==
  ASSUME ops' = ops, plan' = plan
  PROVE  /\ Opens' = Opens /\ Table' = Table
         /\ \A t : Name(t)' = Name(t)
         /\ \A g : TargetOf(g)' = TargetOf(g)
<1>1. Opens' = Opens /\ Table' = Table
  BY DEF Opens, Table, Indices
<1>2. \A t : Name(t)' = Name(t)
  <2>1. \A t : Matching(t)' = Matching(t)
    BY DEF Matching
  <2>2. \A t : Best(t)' = Best(t)
    BY <2>1 DEF Best
  <2> QED BY <2>1, <2>2 DEF Name
<1>3. \A g : TargetOf(g)' = TargetOf(g)
  BY DEF TargetOf, OpenOf, Indices
<1> QED BY <1>1, <1>2, <1>3

(* A handle given out is a new one; the others are as before.                 *)
LEMMA Given ==
  ASSUME IsSeq(handles), NEW name, handles' = WithHandle(name)
  PROVE  /\ IsSeq(handles')
         /\ DOMAIN handles' = DOMAIN handles \cup {NextHandle}
         /\ NextHandle \notin DOMAIN handles /\ NextHandle # None
         /\ handles'[NextHandle] = name
         /\ \A k \in DOMAIN handles : handles'[k] = handles[k]
         /\ LiveHandles' \subseteq LiveHandles \cup {NextHandle}
<1>1. PICK S : handles \in Seq(S)
  BY DEF IsSeq
<1>2. handles \in Seq(S \cup {name}) /\ Len(handles) \in Nat
  BY <1>1
<1>3. /\ handles' \in Seq(S \cup {name})
      /\ Len(handles') = Len(handles) + 1
      /\ DOMAIN handles' = 1..(Len(handles) + 1) /\ DOMAIN handles = 1..Len(handles)
      /\ handles'[Len(handles) + 1] = name
      /\ \A k \in DOMAIN handles : handles'[k] = handles[k]
  BY <1>2 DEF WithHandle
<1>4. NextHandle = Len(handles) + 1 /\ NextHandle \notin DOMAIN handles /\ NextHandle # None
  BY <1>2, <1>3, DatasetAssumption DEF NextHandle
<1>5. DOMAIN handles' = DOMAIN handles \cup {NextHandle}
  BY <1>2, <1>3, <1>4
<1>6. LiveHandles' \subseteq LiveHandles \cup {NextHandle}
  BY <1>3, <1>5 DEF LiveHandles, Live
<1> QED BY <1>3, <1>4, <1>5, <1>6 DEF IsSeq

(* Giving a handle back takes it, and no other, out of the live ones.         *)
LEMMA GivenBack ==
  ASSUME IsSeq(handles), NEW h, handles' = WithoutHandle(h)
  PROVE  /\ IsSeq(handles')
         /\ DOMAIN handles' = DOMAIN handles
         /\ \A k \in DOMAIN handles : handles'[k] \in {None, handles[k]}
         /\ LiveHandles' = LiveHandles \ {h}
<1>1. PICK S : handles \in Seq(S)
  BY DEF IsSeq
<1>2. handles \in Seq(S \cup {None})
  BY <1>1
<1>3. CASE Live(h)
  <2>1. handles' = [handles EXCEPT ![h] = None] /\ h \in 1..Len(handles)
    BY <1>2, <1>3 DEF WithoutHandle, Live
  <2>2. handles' \in Seq(S \cup {None})
    BY <1>2, <2>1, ExceptSeq
  <2>3. DOMAIN handles' = DOMAIN handles
          /\ \A k \in DOMAIN handles : handles'[k] = IF k = h THEN None ELSE handles[k]
    BY <2>1
  <2> QED BY <2>2, <2>3 DEF IsSeq, LiveHandles, Live
<1>4. CASE ~Live(h)
  BY <1>4 DEF WithoutHandle, LiveHandles, Live
<1> QED BY <1>3, <1>4

(* Every OPEN is found by its handle.                                         *)
LEMMA OpenFound ==
  ASSUME OpensUnique, NEW i \in Opens
  PROVE  TargetOf(ops[i].h) = ops[i].tgt
  BY DEF OpensUnique, Opens, TargetOf, OpenOf

(* A table is good for as long as its handles are not given out again.        *)
LEMMA TableKept ==
  ASSUME NEW s, TableOf(s), hmap'[s] = hmap[s], ops' = ops, plan' = plan,
         DOMAIN got \subseteq DOMAIN got', DOMAIN handles \subseteq DOMAIN handles',
         \A k \in DOMAIN handles : handles'[k] \in {None, handles[k]}
  PROVE  TableOf(s)'
<1>1. /\ Opens' = Opens
      /\ \A t : Name(t)' = Name(t)
      /\ \A g : TargetOf(g)' = TargetOf(g)
  BY NamesFixed
<1>2. \A g : Name(TargetOf(g))' = Name(TargetOf(g))
  BY <1>1
<1> QED BY <1>1, <1>2 DEF TableOf

(* The next operation of a stream is one of its own that was not issued.      *)
LEMMA NextOp ==
  ASSUME NEW s, More(s)
  PROVE  At(s) \in DOMAIN ops /\ ops[At(s)].s = s /\ At(s) \notin DOMAIN got
<1>1. At(s) \in Pending(s)
  BY DEF More, At, Min
<1> QED BY <1>1 DEF Pending

(* Steps outside the streams keep what is known of them.                      *)
LEMMA Calm ==
  ASSUME HandleInv, UNCHANGED <<plan, ops, hmap, dio, got>>,
         IsSeq(handles'), DOMAIN handles \subseteq DOMAIN handles',
         \A k \in DOMAIN handles : handles'[k] \in {None, handles[k]},
         phase' = phase \/ phase # "replaying" \/ \A s \in Streams : dio[s] = Idle
  PROVE  OpensUnique' /\ Tables' /\ RightFile' /\ \A s \in Streams : Direct(s)'
<1>1. /\ Opens' = Opens
      /\ \A t : Name(t)' = Name(t)
      /\ \A g : TargetOf(g)' = TargetOf(g)
  BY NamesFixed
<1>2. \A g : Name(TargetOf(g))' = Name(TargetOf(g))
  BY <1>1
<1>3. OpensUnique'
  BY <1>1 DEF HandleInv, OpensUnique
<1>4. Tables'
  BY TableKept DEF HandleInv, Tables
<1>5. RightFile'
  BY <1>2 DEF HandleInv, RightFile
<1>6. ASSUME NEW s \in Streams PROVE Direct(s)'
  <2>1. Pending(s)' = Pending(s)
    BY DEF Pending
  <2>2. At(s)' = At(s) /\ More(s)' = More(s)
    BY <2>1 DEF At, More
  <2>3. Cur(s)' = Cur(s)
    BY <2>2 DEF Cur
  <2>4. Name(TargetOf(Cur(s).h))' = Name(TargetOf(Cur(s).h))
    BY <1>2, <2>3
  <2> QED BY <2>2, <2>3, <2>4 DEF HandleInv, Direct
<1> QED BY <1>3, <1>4, <1>5, <1>6

(* An operation that was issued leaves the other streams as they were.        *)
LEMMA Issued ==
  ASSUME HandleInv, NEW s \in Streams, More(s), ops' = ops, plan' = plan, phase' = phase,
         NEW n, NEW ok, NEW name, Moved(s, n, ok, name),
         Cur(s).op \in {"READ", "WRITE"} => name \in {None, Name(TargetOf(Cur(s).h))}
  PROVE  /\ DOMAIN got' = DOMAIN got \cup {At(s)}
         /\ RightFile' /\ OpensUnique'
         /\ \A t \in Streams \ {s} : dio'[t] = dio[t] => Direct(t)'
<1>1. At(s) \in DOMAIN ops /\ ops[At(s)].s = s /\ At(s) \notin DOMAIN got
  BY NextOp
<1>2. DOMAIN got' = DOMAIN got \cup {At(s)} /\ got'[At(s)].name = name
      /\ \A i \in DOMAIN got : got'[i] = got[i]
  BY <1>1 DEF Moved
<1>3. /\ Opens' = Opens
      /\ \A t : Name(t)' = Name(t)
      /\ \A g : TargetOf(g)' = TargetOf(g)
  BY NamesFixed
<1>4. \A g : Name(TargetOf(g))' = Name(TargetOf(g))
  BY <1>3
<1>5. OpensUnique'
  BY <1>3 DEF HandleInv, OpensUnique
<1>6. RightFile'
  BY <1>2, <1>4 DEF HandleInv, RightFile, Cur
<1>7. ASSUME NEW t \in Streams \ {s}, dio'[t] = dio[t] PROVE Direct(t)'
  <2>1. Pending(t)' = Pending(t)
    BY <1>1, <1>2 DEF Pending
  <2>2. At(t)' = At(t) /\ More(t)' = More(t)
    BY <2>1 DEF At, More
  <2>3. Cur(t)' = Cur(t)
    BY <2>2 DEF Cur
  <2>4. Name(TargetOf(Cur(t).h))' = Name(TargetOf(Cur(t).h))
    BY <1>4, <2>3
  <2> QED BY <1>7, <2>2, <2>3, <2>4 DEF HandleInv, Direct
<1> QED BY <1>2, <1>5, <1>6, <1>7

-----------------------------------------------------------------------------
LEMMA HandleInvInit == Init => HandleInv
<1> SUFFICES ASSUME Init PROVE HandleInv
  OBVIOUS
<1>1. ops = <<>> /\ got = <<>> /\ handles = <<>> /\ <<>> \in Seq({}) /\ DOMAIN <<>> = {}
  BY DEF Init
<1>2. Opens = {} /\ LiveHandles = {}
  BY <1>1 DEF Opens, Indices, LiveHandles
<1>3. OpensUnique
  BY <1>1, <1>2 DEF OpensUnique, IsSeq
<1>4. Tables
  BY <1>1 DEF Init, Tables, TableOf, IsSeq
<1>5. Jobs /\ Places
  BY <1>1 DEF Init, Jobs, Places, NoJob
<1>6. Kept /\ RightFile
  BY <1>1, <1>2 DEF Kept, RightFile
<1>7. \A s \in Streams : Direct(s)
  BY DEF Init, Direct
<1> QED BY <1>3, <1>4, <1>5, <1>6, <1>7 DEF HandleInv

(* The program's calls: the next OPEN has the next number.                    *)
LEMMA RecordedStep ==
  ASSUME HandleInv, NEW op, Recorded(op),
         op.op = "OPEN" => op.h = Cardinality(Indices("OPEN")) + 1
  PROVE  HandleInv'
<1>1. PICK S : ops \in Seq(S)
  BY DEF HandleInv, OpensUnique, IsSeq
<1>2. /\ ops' \in Seq(S \cup {op}) /\ Len(ops) \in Nat
      /\ DOMAIN ops = 1..Len(ops) /\ DOMAIN ops' = 1..(Len(ops) + 1)
      /\ ops'[Len(ops) + 1] = op
      /\ \A i \in DOMAIN ops : ops'[i] = ops[i]
  <2>1. ops \in Seq(S \cup {op}) /\ op \in S \cup {op} /\ ops' = Append(ops, op)
    BY <1>1 DEF Recorded
  <2> QED BY <2>1
<1>3. IsFiniteSet(Opens) /\ Cardinality(Opens) \in Nat
  <2>1. IsFiniteSet(1..Len(ops))
    BY <1>2, FS_Interval
  <2>2. Opens \in SUBSET (1..Len(ops))
    BY <1>2 DEF Opens, Indices
  <2> QED BY <2>1, <2>2, FS_Subset, FS_CardinalityType
<1>4. OpensUnique'
  <2>1. CASE op.op = "OPEN"
    <3>1. Opens' = Opens \cup {Len(ops) + 1} /\ Len(ops) + 1 \notin Opens
      BY <1>2, <2>1 DEF Opens, Indices
    <3>2. Cardinality(Opens)' = Cardinality(Opens) + 1
      BY <1>3, <3>1, FS_AddElement
    <3>3. op.h = Cardinality(Opens) + 1
      BY <2>1 DEF Opens
    <3>4. \A i \in Opens : ops'[i].h = ops[i].h /\ ops[i].h \in 1..Cardinality(Opens)
      BY <1>2 DEF Opens, Indices, HandleInv, OpensUnique
    <3>5. \A i \in Opens' : ops'[i].h \in 1..Cardinality(Opens)'
      BY <1>2, <1>3, <3>1, <3>2, <3>3, <3>4
    <3>6. \A i, j \in Opens' : ops'[i].h = ops'[j].h => i = j
      BY <1>2, <1>3, <3>1, <3>3, <3>4 DEF HandleInv, OpensUnique
    <3> QED BY <1>2, <3>5, <3>6 DEF OpensUnique, IsSeq
  <2>2. CASE op.op # "OPEN"
    <3>1. Opens' = Opens
      BY <1>2, <2>2 DEF Opens, Indices
    <3>2. \A i \in Opens : ops'[i].h = ops[i].h
      BY <1>2 DEF Opens, Indices
    <3> QED BY <1>2, <3>1, <3>2 DEF OpensUnique, IsSeq, HandleInv
  <2> QED BY <2>1, <2>2
<1>5. /\ UNCHANGED <<plan, phase, mode, job, hmap, dio, got, handles>>
      /\ phase = "capture"
  BY DEF Recorded, ReplayVars
<1>6. handles = <<>> /\ job.h = None /\ DOMAIN got = {} /\ \A s \in Streams : DOMAIN hmap[s] = {}
  BY <1>5 DEF HandleInv, Places
<1>7. LiveHandles' = {}
  BY <1>5, <1>6 DEF LiveHandles
<1>8. Tables'
  BY <1>5, <1>6 DEF HandleInv, Tables, TableOf
<1>9. Jobs' /\ Places'
  BY <1>5, <1>6, <1>7 DEF HandleInv, Jobs, Places
<1>10. Kept' /\ RightFile'
  BY <1>5, <1>6, <1>7 DEF Kept, RightFile
<1>11. \A s \in Streams : Direct(s)'
  BY <1>5 DEF HandleInv, Direct
<1> QED BY <1>4, <1>8, <1>9, <1>10, <1>11 DEF HandleInv

(* Preparation and priming, one handle at a time.                             *)
LEMMA JobStep ==
  ASSUME HandleInv, phase \in {"preparing", "priming"}, UNCHANGED <<plan, ops, hmap, dio, got>>,
         IsSeq(handles'), DOMAIN handles \subseteq DOMAIN handles',
         \A k \in DOMAIN handles : handles'[k] \in {None, handles[k]},
         Jobs', phase' \in {"preparing", "priming", "failed", "replaying"},
         LiveHandles' \subseteq {job'.h}, phase' = "failed" => LiveHandles' = {}
  PROVE  HandleInv'
<1>1. OpensUnique' /\ Tables' /\ RightFile' /\ \A s \in Streams : Direct(s)'
  BY Calm
<1>2. Places'
  BY DEF HandleInv, Places
<1>3. Kept'
  BY DEF Kept
<1> QED BY <1>1, <1>2, <1>3 DEF HandleInv

(* ... which is not touched,                                                  *)
LEMMA JobSame ==
  ASSUME HandleInv, phase \in {"preparing", "priming"}, UNCHANGED <<plan, ops, hmap, dio, got, handles>>,
         Jobs', phase' \in {"preparing", "priming", "failed", "replaying"},
         job'.h = job.h, phase' = "failed" => job.h = None
  PROVE  HandleInv'
<1>1. LiveHandles' = LiveHandles /\ LiveHandles \subseteq {job.h} /\ IsSeq(handles)
  BY DEF LiveHandles, Live, HandleInv, Places, Tables
<1>2. None \notin LiveHandles
  <2>1. PICK S : handles \in Seq(S)
    BY <1>1 DEF IsSeq
  <2>2. DOMAIN handles \subseteq Nat
    BY <2>1
  <2> QED BY <2>2, DatasetAssumption DEF LiveHandles
<1> QED BY <1>1, <1>2, JobStep

(* given out,                                                                 *)
LEMMA JobOpens ==
  ASSUME HandleInv, phase \in {"preparing", "priming"}, UNCHANGED <<plan, ops, mode, hmap, dio, got>>,
         phase' = phase, job.h = None, NEW name, handles' = WithHandle(name),
         job' = [job EXCEPT !.h = NextHandle], job.tgt \in Table, ~ObjectAPI(plan.engine),
         phase = "preparing" => mode \in {"synthetic", "source"}
  PROVE  HandleInv'
<1>1. IsSeq(handles)
  BY DEF HandleInv, Tables
<1>2. /\ IsSeq(handles')
      /\ DOMAIN handles' = DOMAIN handles \cup {NextHandle}
      /\ NextHandle # None
      /\ \A k \in DOMAIN handles : handles'[k] = handles[k]
      /\ LiveHandles' \subseteq LiveHandles \cup {NextHandle}
  BY <1>1, Given
<1>3. job'.h = NextHandle /\ job'.tgt = job.tgt /\ DOMAIN job' = {"tgt", "h", "off"}
  BY DEF HandleInv, Jobs
<1>4. LiveHandles = {}
  <2>1. LiveHandles \subseteq {None} /\ LiveHandles \subseteq DOMAIN handles
    BY DEF HandleInv, Places, LiveHandles
  <2>2. None \notin DOMAIN handles
    <3>1. PICK S : handles \in Seq(S)
      BY <1>1 DEF IsSeq
    <3> QED BY <3>1, DatasetAssumption
  <2> QED BY <2>1, <2>2
<1>5. Table' = Table
  BY DEF Table, Indices
<1>6. Jobs'
  BY <1>2, <1>3, <1>5 DEF Jobs, ObjectAPI
<1> QED BY <1>2, <1>3, <1>4, <1>6, JobStep

(* or given back.                                                             *)
LEMMA JobCloses ==
  ASSUME HandleInv, phase \in {"preparing", "priming"}, UNCHANGED <<plan, ops, mode, hmap, dio, got>>,
         phase' \in {phase, "failed"}, job.h # None, handles' = WithoutHandle(job.h),
         DOMAIN job' = {"tgt", "h", "off"}, job'.h \in {None, job.h}, phase' # "failed" => job'.h = None
  PROVE  HandleInv'
<1>1. IsSeq(handles)
  BY DEF HandleInv, Tables
<1>2. /\ IsSeq(handles')
      /\ DOMAIN handles' = DOMAIN handles
      /\ \A k \in DOMAIN handles : handles'[k] \in {None, handles[k]}
      /\ LiveHandles' = LiveHandles \ {job.h}
  BY <1>1, GivenBack
<1>3. LiveHandles' = {}
  BY <1>2 DEF HandleInv, Places
<1>4. Jobs'
  BY <1>2 DEF HandleInv, Jobs, ObjectAPI
<1> QED BY <1>2, <1>3, <1>4, JobStep

LEMMA PreparingKeeps == HandleInv /\ PreparingStep => HandleInv'
<1> SUFFICES ASSUME HandleInv, PreparingStep PROVE HandleInv'
  OBVIOUS
<1> USE DEF JobUnchanged, ReplayVars, TraceVars, PrepareOver
<1>1. phase = "preparing" /\ UNCHANGED <<plan, ops, mode, hmap, dio, got>>
  BY DEF PreparingStep, Preparing, PrepareCancelled, SizeUnknown, StopWriting, Prepared, Verify, PutTarget,
         OpenTarget, FinishTarget, WriteChunk, Materializing
<1>2. /\ DOMAIN job = {"tgt", "h", "off"}
      /\ job.h # None => /\ job.tgt \in Table /\ ~ObjectAPI(plan.engine)
                         /\ mode \in {"synthetic", "source"}
  BY <1>1 DEF HandleInv, Jobs
<1>3. Table' = Table
  BY <1>1 DEF Table, Indices
<1>4. CASE PrepareCancelled \/ SizeUnknown
  <2>1. job' = job /\ job.h = None /\ phase' = "failed" /\ handles' = handles
    BY <1>4 DEF PrepareCancelled, SizeUnknown
  <2>2. Jobs'
    BY <1>1, <1>2, <2>1 DEF Jobs
  <2> QED BY <1>1, <2>1, <2>2, JobSame
<1>5. CASE StopWriting
  <2>1. job' = job /\ job.h # None /\ phase' = "failed" /\ handles' = WithoutHandle(job.h)
    BY <1>5 DEF StopWriting
  <2> QED BY <1>1, <1>2, <2>1, JobCloses
<1>6. CASE Prepared
  <2>1. job' = NoJob /\ phase' \in {"priming", "replaying"} /\ handles' = handles /\ job.tgt \notin Table
    BY <1>6 DEF Prepared
  <2>2. job.h = None /\ job'.h = None /\ DOMAIN job' = {"tgt", "h", "off"}
    BY <1>2, <2>1 DEF NoJob
  <2>3. Jobs'
    BY <2>2 DEF Jobs
  <2> QED BY <1>1, <2>1, <2>2, <2>3, JobSame
<1>7. ASSUME Verify(Name(job.tgt), Declared(job.tgt)) PROVE HandleInv'
  <2>1. job.h = None /\ job' = [job EXCEPT !.tgt = job.tgt + 1] /\ handles' = handles
        /\ phase' \in {"failed", "preparing"}
    BY <1>2, <1>7 DEF Verify
  <2>2. job'.h = None /\ DOMAIN job' = {"tgt", "h", "off"}
    BY <1>2, <2>1
  <2>3. Jobs'
    BY <2>2 DEF Jobs
  <2> QED BY <1>1, <2>1, <2>2, <2>3, JobSame
<1>8. ASSUME NEW fails \in BOOLEAN, PutTarget(Name(job.tgt), fails) PROVE HandleInv'
  <2>1. job.h = None /\ job' = [job EXCEPT !.tgt = job.tgt + 1] /\ handles' = handles
        /\ phase' \in {"failed", "preparing"}
    BY <1>2, <1>8 DEF PutTarget
  <2>2. job'.h = None /\ DOMAIN job' = {"tgt", "h", "off"}
    BY <1>2, <2>1
  <2>3. Jobs'
    BY <2>2 DEF Jobs
  <2> QED BY <1>1, <2>1, <2>2, <2>3, JobSame
<1>9. ASSUME NEW fails \in BOOLEAN, OpenTarget(Name(job.tgt), fails) PROVE HandleInv'
  <2>1. CASE fails
    <3>1. job.h = None /\ job' = job /\ handles' = handles /\ phase' = "failed"
      BY <1>9, <2>1 DEF OpenTarget
    <3>2. Jobs'
      BY <1>2, <3>1 DEF Jobs
    <3> QED BY <1>1, <3>1, <3>2, JobSame
  <2>2. CASE ~fails
    <3>1. /\ job.h = None /\ job' = [job EXCEPT !.h = NextHandle] /\ phase' = "preparing"
          /\ handles' = WithHandle(Name(job.tgt)) /\ job.tgt \in Table
          /\ ~ObjectAPI(plan.engine) /\ mode \in {"synthetic", "source"}
      BY <1>9, <2>2 DEF OpenTarget, Materializing, Preparing
    <3> QED BY <1>1, <3>1, JobOpens
  <2> QED BY <2>1, <2>2
<1>10. ASSUME NEW fails \in BOOLEAN, FinishTarget(fails) PROVE HandleInv'
  <2>1. job.h # None /\ job'.h = None /\ DOMAIN job' = {"tgt", "h", "off"}
        /\ handles' = WithoutHandle(job.h) /\ phase' \in {"failed", "preparing"}
    BY <1>10 DEF FinishTarget
  <2> QED BY <1>1, <2>1, JobCloses
<1>11. ASSUME NEW n \in 0..Chunk, WriteChunk(Name(job.tgt), n) PROVE HandleInv'
  <2>1. /\ job.h # None /\ job' = [job EXCEPT !.off = job.off + n] /\ job.tgt \in Table
        /\ \/ handles' = handles /\ phase' = "preparing"
           \/ handles' = WithoutHandle(job.h) /\ phase' = "failed"
    BY <1>11 DEF WriteChunk, Materializing, Preparing
  <2>2. job'.h = job.h /\ job'.tgt = job.tgt /\ DOMAIN job' = {"tgt", "h", "off"}
    BY <1>2, <2>1
  <2>3. CASE handles' = handles /\ phase' = "preparing"
    <3>1. Jobs'
      BY <1>1, <1>2, <1>3, <2>2, <2>3 DEF HandleInv, Jobs
    <3> QED BY <1>1, <2>2, <2>3, <3>1, JobSame
  <2>4. CASE handles' = WithoutHandle(job.h) /\ phase' = "failed"
    BY <1>1, <2>1, <2>2, <2>4, JobCloses
  <2> QED BY <2>1, <2>3, <2>4
<1> QED BY <1>4, <1>5, <1>6, <1>7, <1>8, <1>9, <1>10, <1>11 DEF PreparingStep

LEMMA PrimingKeeps == HandleInv /\ PrimingStep => HandleInv'
<1> SUFFICES ASSUME HandleInv, PrimingStep PROVE HandleInv'
  OBVIOUS
<1> USE DEF JobUnchanged, ReplayVars, TraceVars, PrimeUnchanged
<1>1. phase = "priming" /\ UNCHANGED <<plan, ops, mode, hmap, dio, got>>
  BY DEF PrimingStep, Priming, Primed, PrimeOpen, PrimeRead, PrimeObject
<1>2. /\ DOMAIN job = {"tgt", "h", "off"}
      /\ job.h # None => job.tgt \in Table /\ ~ObjectAPI(plan.engine)
  BY <1>1 DEF HandleInv, Jobs
<1>3. Table' = Table
  BY <1>1 DEF Table, Indices
<1>4. CASE Primed
  <2>1. job' = job /\ handles' = handles /\ phase' = "replaying" /\ job.h = None
    BY <1>2, <1>4 DEF Primed
  <2>2. Jobs'
    BY <1>2, <2>1 DEF Jobs
  <2> QED BY <1>1, <2>1, <2>2, JobSame
<1>5. ASSUME NEW fails \in BOOLEAN, PrimeOpen(Name(job.tgt), fails) PROVE HandleInv'
  <2>1. job.h = None /\ phase' = "priming" /\ job.tgt \in Table /\ ~ObjectAPI(plan.engine)
    BY <1>1, <1>5 DEF PrimeOpen, Priming
  <2>2. CASE NextTarget(FALSE, FALSE) /\ handles' = handles
    <3>1. job'.h = None /\ DOMAIN job' = {"tgt", "h", "off"}
      BY <2>2 DEF NextTarget
    <3>2. Jobs'
      BY <3>1 DEF Jobs
    <3> QED BY <1>1, <2>1, <2>2, <3>1, <3>2, JobSame
  <2>3. CASE handles' = WithHandle(Name(job.tgt)) /\ job' = [job EXCEPT !.h = NextHandle]
    BY <1>1, <2>1, <2>3, JobOpens
  <2> QED BY <1>5, <2>2, <2>3, Zenon DEF PrimeOpen
<1>6. ASSUME NEW fails, PrimeRead(fails) PROVE HandleInv'
  <2>1. /\ job.h # None /\ phase' = "priming"
        /\ \/ handles' = handles /\ \E n : job' = [job EXCEPT !.off = job.off + n]
           \/ handles' = WithoutHandle(job.h) /\ job'.h = None /\ DOMAIN job' = {"tgt", "h", "off"}
    BY <1>1, <1>6 DEF PrimeRead, NextTarget
  <2>2. CASE handles' = handles /\ \E n : job' = [job EXCEPT !.off = job.off + n]
    <3>1. job'.h = job.h /\ job'.tgt = job.tgt /\ DOMAIN job' = {"tgt", "h", "off"}
      BY <1>2, <2>2
    <3>2. Jobs'
      BY <1>1, <1>2, <1>3, <2>1, <2>2, <3>1 DEF HandleInv, Jobs
    <3> QED BY <1>1, <2>1, <2>2, <3>1, <3>2, JobSame
  <2>3. CASE handles' = WithoutHandle(job.h) /\ job'.h = None /\ DOMAIN job' = {"tgt", "h", "off"}
    BY <1>1, <2>1, <2>3, JobCloses
  <2> QED BY <2>1, <2>2, <2>3
<1>7. ASSUME NEW n, PrimeObject(Name(job.tgt), n) PROVE HandleInv'
  <2>1. ObjectAPI(plan.engine) /\ phase' = "priming" /\ handles' = handles /\ job'.h = None
        /\ DOMAIN job' = {"tgt", "h", "off"}
    BY <1>1, <1>7 DEF PrimeObject, NextTarget
  <2>2. Jobs' /\ job.h = None
    BY <1>2, <2>1 DEF Jobs
  <2> QED BY <1>1, <2>1, <2>2, JobSame
<1> QED BY <1>4, <1>5, <1>6, <1>7 DEF PrimingStep

-----------------------------------------------------------------------------
(* What a stream's handle refers to is closed, or the file of its OPEN.       *)
LEMMA EngineFile ==
  ASSUME HandleInv, NEW s \in Streams
  PROVE  LET h == EngineHandle(s)
         IN  Live(h) => /\ Cur(s).h \in DOMAIN hmap[s] /\ h = hmap[s][Cur(s).h]
                        /\ handles[h] = Name(TargetOf(Cur(s).h))
<1>1. CASE Cur(s).h \in DOMAIN hmap[s]
  BY <1>1 DEF HandleInv, Tables, TableOf, EngineHandle, Live
<1>2. CASE Cur(s).h \notin DOMAIN hmap[s]
  <2>1. PICK S : handles \in Seq(S)
    BY DEF HandleInv, Tables, IsSeq
  <2> QED BY <1>2, <2>1 DEF EngineHandle, Live
<1> QED BY <1>1, <1>2

(* An operation that leaves both tables alone.                                *)
LEMMA IssuedSame ==
  ASSUME HandleInv, NEW s \in Streams, More(s), phase = "replaying",
         UNCHANGED <<plan, ops, phase, mode, job, hmap, handles>>,
         NEW n, NEW ok, NEW name, Moved(s, n, ok, name),
         Cur(s).op \in {"READ", "WRITE"} => name \in {None, Name(TargetOf(Cur(s).h))},
         DOMAIN dio' = Streams, dio'[s] = Idle, \A t \in Streams \ {s} : dio'[t] = dio[t]
  PROVE  HandleInv'
<1>1. /\ DOMAIN got' = DOMAIN got \cup {At(s)}
      /\ RightFile' /\ OpensUnique'
      /\ \A t \in Streams \ {s} : dio'[t] = dio[t] => Direct(t)'
  BY Issued
<1>2. \A t \in Streams : Direct(t)'
  BY <1>1 DEF Direct
<1>3. Tables'
  BY <1>1, TableKept DEF HandleInv, Tables
<1>4. Jobs' /\ Places'
  BY DEF HandleInv, Jobs, Places, ObjectAPI
<1>5. Kept'
  BY DEF HandleInv, Kept, LiveHandles, Live
<1> QED BY <1>1, <1>2, <1>3, <1>4, <1>5 DEF HandleInv

LEMMA OpenKeeps ==
  ASSUME HandleInv, NEW s \in Streams, NEW fails \in BOOLEAN, Open(s, fails)
  PROVE  HandleInv'
<1> DEFINE op == Cur(s)
<1> USE DEF ReplayUnchanged, TraceVars
<1>1. /\ phase = "replaying" /\ More(s) /\ dio[s] = Idle /\ op.op = "OPEN"
      /\ UNCHANGED <<plan, ops, phase, mode, job, dio>>
  BY DEF Open, Dispatching
<1>2. PICK ok : Moved(s, 0, ok, Name(op.tgt))
  BY DEF Open
<1>3. \/ UNCHANGED <<hmap, handles>>
      \/ /\ hmap' = [hmap EXCEPT ![s] = Noted(hmap[s], op.h, NextHandle)]
         /\ handles' = WithHandle(Name(op.tgt))
  BY Zenon DEF Open
<1>4. CASE UNCHANGED <<hmap, handles>>
  <2>1. DOMAIN dio' = Streams /\ dio'[s] = Idle /\ \A t \in Streams \ {s} : dio'[t] = dio[t]
    BY <1>1 DEF HandleInv, Tables
  <2>2. op.op \notin {"READ", "WRITE"}
    BY <1>1
  <2> QED BY <1>1, <1>2, <1>4, <2>1, <2>2, IssuedSame
<1>5. CASE /\ hmap' = [hmap EXCEPT ![s] = Noted(hmap[s], op.h, NextHandle)]
           /\ handles' = WithHandle(Name(op.tgt))
  <2>1. /\ DOMAIN got' = DOMAIN got \cup {At(s)}
        /\ RightFile' /\ OpensUnique'
        /\ \A t \in Streams \ {s} : dio'[t] = dio[t] => Direct(t)'
    BY <1>1, <1>2, Issued
  <2>2. /\ IsSeq(handles) /\ IsSeq(handles')
        /\ DOMAIN handles' = DOMAIN handles \cup {NextHandle}
        /\ handles'[NextHandle] = Name(op.tgt)
        /\ \A k \in DOMAIN handles : handles'[k] = handles[k]
        /\ LiveHandles' \subseteq LiveHandles \cup {NextHandle}
    BY <1>5, Given DEF HandleInv, Tables
  <2>3. At(s) \in Opens /\ At(s) \notin DOMAIN got /\ op = ops[At(s)]
    BY <1>1, NextOp DEF Opens, Indices, Cur
  <2>4. op.h \notin DOMAIN hmap[s]   \* no OPEN that was issued has this handle
    BY <2>3 DEF HandleInv, Tables, TableOf, OpensUnique
  <2>5. /\ DOMAIN hmap' = Streams
        /\ \A t \in Streams \ {s} : hmap'[t] = hmap[t]
        /\ DOMAIN hmap'[s] = DOMAIN hmap[s] \cup {op.h}
        /\ hmap'[s][op.h] = NextHandle
        /\ \A g \in DOMAIN hmap[s] : hmap'[s][g] = hmap[s][g]
    <3>1. DOMAIN hmap' = Streams /\ hmap'[s] = Noted(hmap[s], op.h, NextHandle)
          /\ \A t \in Streams \ {s} : hmap'[t] = hmap[t]
      BY <1>5 DEF HandleInv, Tables
    <3> QED BY <2>4, <3>1 DEF Noted
  <2>6. /\ Opens' = Opens
        /\ \A g : Name(TargetOf(g))' = Name(TargetOf(g))
    <3>1. /\ Opens' = Opens
          /\ \A t : Name(t)' = Name(t)
          /\ \A g : TargetOf(g)' = TargetOf(g)
      BY <1>1, NamesFixed
    <3> QED BY <3>1
  <2>7. TargetOf(op.h) = op.tgt
    BY <2>3, OpenFound DEF HandleInv
  <2>8. \A t \in Streams \ {s} : TableOf(t)'
    BY <1>1, <2>1, <2>2, <2>5, TableKept DEF HandleInv, Tables
  <2>9. TableOf(s)'
    <3>1. ASSUME NEW g \in DOMAIN hmap'[s]
          PROVE  /\ hmap'[s][g] \in DOMAIN handles'
                 /\ handles'[hmap'[s][g]] \in {None, Name(TargetOf(g))}
                 /\ \E i \in Opens : i \in DOMAIN got' /\ ops[i].h = g
      <4>1. CASE g = op.h
        BY <2>1, <2>2, <2>3, <2>5, <2>7, <4>1
      <4>2. CASE g \in DOMAIN hmap[s]
        BY <2>1, <2>2, <2>5, <4>2 DEF HandleInv, Tables, TableOf
      <4> QED BY <2>5, <3>1, <4>1, <4>2
    <3> QED BY <1>1, <2>6, <3>1 DEF TableOf
  <2>10. Tables'
    BY <1>1, <2>2, <2>5, <2>8, <2>9 DEF HandleInv, Tables
  <2>11. job.h = None /\ None \notin LiveHandles
    <3>1. PICK S : handles \in Seq(S)
      BY <2>2 DEF IsSeq
    <3> QED BY <1>1, <3>1, DatasetAssumption DEF HandleInv, Jobs, LiveHandles
  <2>12. Jobs' /\ Places'
    BY <1>1, <2>11 DEF HandleInv, Jobs, Places, ObjectAPI
  <2>13. Kept'
    <3>1. ASSUME NEW h \in LiveHandles' PROVE \E t \in Streams : \E g \in DOMAIN hmap'[t] : hmap'[t][g] = h
      <4>1. CASE h = NextHandle
        BY <2>5, <4>1
      <4>2. CASE h \in LiveHandles
        <5>1. PICK t \in Streams : \E g \in DOMAIN hmap[t] : hmap[t][g] = h
          BY <2>11, <4>2 DEF HandleInv, Kept
        <5>2. PICK g \in DOMAIN hmap[t] : hmap[t][g] = h
          BY <5>1
        <5> QED BY <2>5, <5>2
      <4> QED BY <2>2, <3>1, <4>1, <4>2
    <3> QED BY <3>1 DEF Kept
  <2>14. \A t \in Streams : Direct(t)'
    BY <1>1, <2>1 DEF Direct
  <2> QED BY <2>1, <2>10, <2>12, <2>13, <2>14 DEF HandleInv
<1> QED BY <1>3, <1>4, <1>5

LEMMA CloseKeeps ==
  ASSUME HandleInv, NEW s \in Streams, NEW fails \in BOOLEAN, Close(s, fails)
  PROVE  HandleInv'
<1> DEFINE h == EngineHandle(s)
           g0 == Cur(s).h
<1> USE DEF ReplayUnchanged, TraceVars
<1>1. /\ phase = "replaying" /\ More(s) /\ dio[s] = Idle /\ Cur(s).op = "CLOSE"
      /\ UNCHANGED <<plan, ops, phase, mode, job, dio>>
      /\ handles' = WithoutHandle(h)
  BY DEF Close, Dispatching
<1>2. PICK ok : Moved(s, 0, ok, None)
  BY DEF Close
<1>3. /\ DOMAIN hmap' = Streams
      /\ \A t \in Streams \ {s} : hmap'[t] = hmap[t]
      /\ DOMAIN hmap'[s] \subseteq DOMAIN hmap[s]
      /\ \A g \in DOMAIN hmap'[s] : hmap'[s][g] = hmap[s][g]
      /\ \A g \in DOMAIN hmap[s] : g \in DOMAIN hmap'[s] \/ (g = g0 /\ Live(h))
  <2>1. \/ hmap' = [hmap EXCEPT ![s] = [g \in DOMAIN hmap[s] \ {g0} |-> hmap[s][g]]] /\ Live(h)
        \/ hmap' = [hmap EXCEPT ![s] = hmap[s]]
    BY Zenon DEF Close
  <2> QED BY <2>1 DEF HandleInv, Tables
<1>4. /\ DOMAIN got' = DOMAIN got \cup {At(s)}
      /\ RightFile' /\ OpensUnique'
      /\ \A t \in Streams \ {s} : dio'[t] = dio[t] => Direct(t)'
  BY <1>1, <1>2, Issued
<1>5. /\ IsSeq(handles) /\ IsSeq(handles')
      /\ DOMAIN handles' = DOMAIN handles
      /\ \A k \in DOMAIN handles : handles'[k] \in {None, handles[k]}
      /\ LiveHandles' = LiveHandles \ {h}
  BY <1>1, GivenBack DEF HandleInv, Tables
<1>6. /\ Opens' = Opens
      /\ \A g : Name(TargetOf(g))' = Name(TargetOf(g))
  <2>1. /\ Opens' = Opens
        /\ \A t : Name(t)' = Name(t)
        /\ \A g : TargetOf(g)' = TargetOf(g)
    BY <1>1, NamesFixed
  <2> QED BY <2>1
<1>7. \A t \in Streams \ {s} : TableOf(t)'
  BY <1>1, <1>3, <1>4, <1>5, TableKept DEF HandleInv, Tables
<1>8. TableOf(s)'
  <2>1. ASSUME NEW g \in DOMAIN hmap'[s]
        PROVE  /\ hmap'[s][g] \in DOMAIN handles'
               /\ handles'[hmap'[s][g]] \in {None, Name(TargetOf(g))}
               /\ \E i \in Opens : i \in DOMAIN got' /\ ops[i].h = g
    BY <1>3, <1>4, <1>5, <2>1 DEF HandleInv, Tables, TableOf
  <2> QED BY <1>1, <1>6, <2>1 DEF TableOf
<1>9. Tables'
  BY <1>1, <1>3, <1>5, <1>7, <1>8 DEF HandleInv, Tables
<1>10. job.h = None /\ None \notin LiveHandles
  <2>1. PICK S : handles \in Seq(S)
    BY <1>5 DEF IsSeq
  <2> QED BY <1>1, <2>1, DatasetAssumption DEF HandleInv, Jobs, LiveHandles
<1>11. Jobs' /\ Places'
  BY <1>1, <1>10 DEF HandleInv, Jobs, Places, ObjectAPI
<1>12. Kept'
  <2>1. ASSUME NEW k \in LiveHandles' PROVE \E t \in Streams : \E g \in DOMAIN hmap'[t] : hmap'[t][g] = k
    <3>1. k # h /\ k \in LiveHandles
      BY <1>5, <2>1
    <3>2. PICK t \in Streams : \E g \in DOMAIN hmap[t] : hmap[t][g] = k
      BY <1>10, <3>1 DEF HandleInv, Kept
    <3>3. PICK g \in DOMAIN hmap[t] : hmap[t][g] = k
      BY <3>2
    <3>4. t = s /\ g = g0 => h = k
      BY <3>3 DEF EngineHandle
    <3> QED BY <1>3, <3>1, <3>3, <3>4
  <2> QED BY <2>1 DEF Kept
<1>13. \A t \in Streams : Direct(t)'
  BY <1>1, <1>4 DEF Direct
<1> QED BY <1>4, <1>9, <1>11, <1>12, <1>13 DEF HandleInv

(* Transfers and FSYNC: what they move is on the file of their handle.        *)
LEMMA TransferKeeps ==
  ASSUME HandleInv, NEW s \in Streams, NEW fails \in BOOLEAN,
         Read(s, fails) \/ Write(s, fails) \/ Fsync(s, fails)
  PROVE  HandleInv'
<1> DEFINE h == EngineHandle(s)
           name == IF Live(h) THEN handles[h] ELSE None
<1> USE DEF ReplayUnchanged, TraceVars
<1>1. /\ phase = "replaying" /\ More(s) /\ dio[s] = Idle
      /\ UNCHANGED <<plan, ops, phase, mode, job, hmap, dio, handles>>
  BY DEF Read, Write, Fsync, Dispatching
<1>2. DOMAIN dio' = Streams /\ dio'[s] = Idle /\ \A t \in Streams \ {s} : dio'[t] = dio[t]
  BY <1>1 DEF HandleInv, Tables
<1>3. name \in {None, Name(TargetOf(Cur(s).h))}
  BY EngineFile
<1>4. CASE Read(s, fails) \/ Write(s, fails)
  <2>1. PICK n, ok : Moved(s, n, ok, name)
    BY <1>4 DEF Read, Write
  <2> HIDE DEF name
  <2> QED BY <1>1, <1>2, <1>3, <2>1, IssuedSame
<1>5. CASE Fsync(s, fails)
  <2>1. PICK ok : Moved(s, 0, ok, None)
    BY <1>5 DEF Fsync
  <2> QED BY <1>1, <1>2, <2>1, IssuedSame
<1> QED BY <1>4, <1>5, Zenon

(* Between its system calls a direct write keeps its file.                    *)
LEMMA DirectKeeps ==
  ASSUME HandleInv, NEW s \in Streams, DirectStat(s) \/ DirectWrite(s)
  PROVE  HandleInv'
<1> USE DEF ReplayUnchanged, TraceVars
<1>1. /\ phase = "replaying" /\ UNCHANGED <<plan, ops, phase, mode, job, hmap, got, handles>>
  BY DEF DirectStat, DirectWrite, Dispatching
<1>2. /\ Opens' = Opens
      /\ \A t : Name(t)' = Name(t)
      /\ \A g : TargetOf(g)' = TargetOf(g)
  BY <1>1, NamesFixed
<1>3. \A g : Name(TargetOf(g))' = Name(TargetOf(g))
  BY <1>2
<1>4. /\ DOMAIN dio' = Streams /\ \A t \in Streams \ {s} : dio'[t] = dio[t]
      /\ More(s) /\ Cur(s).op = "WRITE"
      /\ "name" \in DOMAIN dio'[s] /\ dio'[s].name \in {None, Name(TargetOf(Cur(s).h))}
  <2>1. CASE DirectStat(s)
    <3>1. /\ More(s) /\ Cur(s).op = "WRITE" /\ Live(EngineHandle(s))
          /\ dio' = [dio EXCEPT ![s] = [step |-> "read", orig |-> store[handles[EngineHandle(s)]],
                                        name |-> handles[EngineHandle(s)]]]
      BY <2>1 DEF DirectStat, Dispatching
    <3>2. handles[EngineHandle(s)] = Name(TargetOf(Cur(s).h))
      BY <3>1, EngineFile
    <3> QED BY <3>1, <3>2 DEF HandleInv, Tables
  <2>2. CASE DirectWrite(s)
    <3>1. dio[s] # Idle /\ dio' = [dio EXCEPT ![s].step = "written"]
      BY <2>2 DEF DirectWrite
    <3>2. /\ More(s) /\ Cur(s).op = "WRITE"
          /\ "name" \in DOMAIN dio[s] /\ dio[s].name \in {None, Name(TargetOf(Cur(s).h))}
      BY <3>1 DEF HandleInv, Direct
    <3> QED BY <3>1, <3>2 DEF HandleInv, Tables
  <2> QED BY <2>1, <2>2
<1>5. ASSUME NEW t \in Streams PROVE Direct(t)'
  <2>1. Pending(t)' = Pending(t)
    BY <1>1 DEF Pending
  <2>2. At(t)' = At(t) /\ More(t)' = More(t)
    BY <2>1 DEF At, More
  <2>3. Cur(t)' = Cur(t)
    BY <1>1, <2>2 DEF Cur
  <2>4. Name(TargetOf(Cur(t).h))' = Name(TargetOf(Cur(t).h))
    BY <1>3, <2>3
  <2> QED BY <1>1, <1>4, <2>2, <2>3, <2>4 DEF HandleInv, Direct
<1>6. OpensUnique' /\ RightFile'
  BY <1>1, <1>2, <1>3 DEF HandleInv, OpensUnique, RightFile
<1>7. Tables'
  BY <1>1, <1>4, TableKept DEF HandleInv, Tables
<1>8. Jobs' /\ Places' /\ Kept'
  BY <1>1 DEF HandleInv, Jobs, Places, Kept, ObjectAPI, LiveHandles, Live
<1> QED BY <1>5, <1>6, <1>7, <1>8 DEF HandleInv

(* Its end is the operation's.                                                *)
LEMMA DirectEnds ==
  ASSUME HandleInv, NEW s \in Streams, DirectCut(s) \/ DirectFails(s)
  PROVE  HandleInv'
<1> USE DEF ReplayUnchanged, TraceVars
<1>1. /\ phase = "replaying" /\ dio[s] # Idle /\ dio' = [dio EXCEPT ![s] = Idle]
      /\ UNCHANGED <<plan, ops, phase, mode, job, hmap, handles>>
  BY DEF DirectCut, DirectFails
<1>2. More(s) /\ dio[s].name \in {None, Name(TargetOf(Cur(s).h))}
  BY <1>1 DEF HandleInv, Direct
<1>3. DOMAIN dio' = Streams /\ dio'[s] = Idle /\ \A t \in Streams \ {s} : dio'[t] = dio[t]
  BY <1>1 DEF HandleInv, Tables
<1>4. PICK n, ok : Moved(s, n, ok, dio[s].name)
  BY DEF DirectCut, DirectFails
<1> QED BY <1>1, <1>2, <1>3, <1>4, IssuedSame

LEMMA CapturingKeeps == HandleInv /\ Capturing => HandleInv'
<1> SUFFICES ASSUME HandleInv, Capturing PROVE HandleInv'
  OBVIOUS
<1>1. PICK s \in Streams, c \in plan.calls :
        \/ \E t \in Targets : SourceOpen(s, t, c)
        \/ \E h \in Held(s) : SourceRead(s, h, c) \/ SourceWrite(s, h, c) \/ SourceUse(s, h, c)
  BY DEF Capturing
<1>2. \E op : Recorded(op) /\ (op.op = "OPEN" => op.h = Cardinality(Indices("OPEN")) + 1)
  <2>1. ASSUME NEW t \in Targets, SourceOpen(s, t, c)
        PROVE  \E op : Recorded(op) /\ op.h = Cardinality(Indices("OPEN")) + 1
    BY <2>1 DEF SourceOpen
  <2>2. ASSUME NEW h \in Held(s), SourceRead(s, h, c) \/ SourceWrite(s, h, c) \/ SourceUse(s, h, c)
        PROVE  \E op : Recorded(op) /\ op.op # "OPEN"
    BY <2>2 DEF SourceRead, SourceWrite, SourceUse
  <2> QED BY <1>1, <2>1, <2>2
<1> QED BY <1>2, RecordedStep

(* The rest: phases that change no handle, and the next attempt, which begins *)
(* with an engine of its own.                                                 *)
LEMMA ControlKeeps ==
  ASSUME HandleInv,
         CaptureEnds \/ Load \/ Over \/ Cancel \/ Done \/ UNCHANGED dataVars
  PROVE  HandleInv'
<1> USE DEF JobUnchanged, ReplayVars, TraceVars
<1>1. UNCHANGED <<plan, ops, mode, job, hmap, dio, got, handles>>
  BY DEF CaptureEnds, Load, Over, Cancel, Done, dataVars
<1>2. \/ phase = "capture" /\ phase' = "loading"
      \/ phase = "loading" /\ phase' \in {"refused", "preparing"}
      \/ phase = "replaying" /\ phase' = "over" /\ \A s \in Streams : dio[s] = Idle
      \/ phase' = phase
  BY DEF CaptureEnds, Load, Over, Cancel, Done, dataVars
<1>3. OpensUnique' /\ Tables' /\ RightFile' /\ \A s \in Streams : Direct(s)'
  <2>1. IsSeq(handles')
    BY <1>1 DEF HandleInv, Tables
  <2> QED BY <1>1, <1>2, <2>1, Calm
<1>4. LiveHandles' = LiveHandles /\ (handles = <<>> => LiveHandles = {})
  BY <1>1 DEF LiveHandles, Live
<1>5. Table' = Table
  BY <1>1 DEF Table, Indices
<1>6. Jobs'
  BY <1>1, <1>2, <1>5 DEF HandleInv, Jobs, ObjectAPI
<1>7. Places'
  BY <1>1, <1>2, <1>4 DEF HandleInv, Places
<1>8. Kept'
  BY <1>1, <1>4 DEF HandleInv, Kept
<1> QED BY <1>3, <1>6, <1>7, <1>8 DEF HandleInv

LEMMA AgainKeeps ==
  ASSUME HandleInv, NEW m, Again(m)
  PROVE  HandleInv'
<1> USE DEF TraceVars
<1>1. /\ phase \in {"failed", "over"} /\ phase' = "preparing" /\ UNCHANGED <<plan, ops, dio>>
      /\ job' = NoJob /\ handles' = <<>> /\ got' = <<>>
      /\ hmap' = [s \in Streams |-> <<>>]
  BY DEF Again, Ended
<1>2. <<>> \in Seq({}) /\ DOMAIN <<>> = {}
  OBVIOUS
<1>3. Opens' = Opens /\ LiveHandles' = {}
  BY <1>1, <1>2 DEF Opens, Indices, LiveHandles
<1>4. OpensUnique' /\ RightFile' /\ Kept'
  BY <1>1, <1>2, <1>3 DEF HandleInv, OpensUnique, RightFile, Kept
<1>5. Tables'
  BY <1>1, <1>2 DEF HandleInv, Tables, TableOf, IsSeq
<1>6. Jobs' /\ Places'
  BY <1>1, <1>2, <1>3 DEF Jobs, Places, NoJob
<1>7. \A s \in Streams : Direct(s)'
  BY <1>1 DEF HandleInv, Direct
<1> QED BY <1>4, <1>5, <1>6, <1>7 DEF HandleInv

LEMMA HandleInvStep == HandleInv /\ [Next]_dataVars => HandleInv'
<1> SUFFICES ASSUME HandleInv, [Next]_dataVars PROVE HandleInv'
  OBVIOUS
<1>1. CASE Capturing
  BY <1>1, CapturingKeeps
<1>2. CASE PreparingStep \/ PrimingStep
  BY <1>2, PreparingKeeps, PrimingKeeps
<1>3. CASE Replaying
  <2>1. PICK s \in Streams :
          \/ DirectStat(s) \/ DirectWrite(s) \/ DirectCut(s) \/ DirectFails(s)
          \/ \E fails \in BOOLEAN : Open(s, fails) \/ Read(s, fails) \/ Write(s, fails)
                                      \/ Fsync(s, fails) \/ Close(s, fails)
    BY <1>3 DEF Replaying
  <2> QED BY <2>1, DirectKeeps, DirectEnds, OpenKeeps, TransferKeeps, CloseKeeps
<1>4. CASE CaptureEnds \/ Load \/ Over \/ Cancel \/ Done \/ UNCHANGED dataVars
  BY <1>4, ControlKeeps
<1>5. ASSUME NEW m \in plan.modes, Again(m) PROVE HandleInv'
  BY <1>5, AgainKeeps
<1> QED BY <1>1, <1>2, <1>3, <1>4, <1>5 DEF Next

(* No handle of the engine is lost and none is mistaken for another: whatever *)
(* fails and wherever a run is cut off, every open handle is the preparation's *)
(* or in a stream's table, none is left by a failed PREPARE, and what is moved *)
(* is moved on the file of the handle's OPEN (prepare.go:213, scheduler.go:606). *)
THEOREM HandlesNeverLost == Spec => []HandlesKept
<1>1. HandleInv => HandlesKept
  <2> SUFFICES ASSUME HandleInv PROVE HandlesKept
    OBVIOUS
  <2>1. phase \in {"refused", "failed"} => LiveHandles = {}
    BY DEF HandleInv, Places, LiveHandles
  <2> QED BY <2>1 DEF HandleInv, Kept, RightFile, HandlesKept
<1> QED BY HandleInvInit, HandleInvStep, <1>1, PTL DEF Spec

-----------------------------------------------------------------------------
(* A fault is remembered until the next attempt, which has primed nothing.    *)
LEMMA PrimedStep == HandleInv /\ PrimedHonest /\ [Next]_dataVars => PrimedHonest'
<1> SUFFICES ASSUME HandleInv, PrimedHonest, [Next]_dataVars PROVE PrimedHonest'
  OBVIOUS
<1> USE DEF PrimedHonest, PrimedReadWhole, ObjectAPI
<1>1. CASE UNCHANGED <<plan, primed, warmed>> /\ (faulted => faulted')
  BY <1>1
<1>2. ASSUME NEW fails \in BOOLEAN, PrimeOpen(Name(job.tgt), fails) PROVE PrimedHonest'
  <2>1. plan' = plan /\ (faulted => faulted') /\ primed' = primed /\ warmed' = warmed
    BY <1>2, Zenon DEF PrimeOpen, NextTarget, PrimeUnchanged, JobUnchanged, TraceVars
  <2> QED BY <2>1
<1>3. ASSUME NEW fails \in {None, "read", "close"}, PrimeRead(fails) PROVE PrimedHonest'
  <2>1. /\ plan' = plan /\ faulted' = (faulted \/ fails # None) /\ plan.engine # "object"
        /\ \/ primed' = primed /\ warmed' = warmed
           \/ NextTarget(fails # "close", fails # "read")
    BY <1>3 DEF PrimeRead, PrimeUnchanged, JobUnchanged, TraceVars, HandleInv, Jobs
  <2>2. CASE fails = None
    <3>1. \/ primed' = primed /\ warmed' = warmed
          \/ primed' \subseteq primed \cup {job.tgt} /\ warmed' = warmed \cup {job.tgt}
      BY <2>1, <2>2, DatasetAssumption DEF NextTarget
    <3> QED BY <2>1, <3>1
  <2>3. CASE fails # None
    BY <2>1, <2>3
  <2> QED BY <2>2, <2>3
<1>4. ASSUME NEW n, PrimeObject(Name(job.tgt), n) PROVE PrimedHonest'
  <2>1. /\ plan' = plan /\ (faulted => faulted')
        /\ \/ primed' = primed \cup {job.tgt} /\ warmed' = warmed \cup {job.tgt}
           \/ primed' = primed /\ warmed' = warmed
    BY <1>4, Zenon DEF PrimeObject, NextTarget, PrimeUnchanged, JobUnchanged, TraceVars
  <2> QED BY <2>1
<1>5. ASSUME NEW m, Again(m) PROVE PrimedHonest'
  BY <1>5 DEF Again
<1>6. CASE Capturing
  <2>1. PICK op : Recorded(op)
    <3>1. PICK s \in Streams, c \in plan.calls :
            \/ \E t \in Targets : SourceOpen(s, t, c)
            \/ \E h \in Held(s) : SourceRead(s, h, c) \/ SourceWrite(s, h, c) \/ SourceUse(s, h, c)
      BY <1>6, Zenon DEF Capturing
    <3>2. ASSUME NEW t \in Targets, SourceOpen(s, t, c) PROVE \E op : Recorded(op)
      BY <3>2, Zenon DEF SourceOpen
    <3>3. ASSUME NEW h, SourceRead(s, h, c) PROVE \E op : Recorded(op)
      BY <3>3, Zenon DEF SourceRead
    <3>4. ASSUME NEW h, SourceWrite(s, h, c) PROVE \E op : Recorded(op)
      BY <3>4, Zenon DEF SourceWrite
    <3>5. ASSUME NEW h, SourceUse(s, h, c) PROVE \E op : Recorded(op)
      BY <3>5, Zenon DEF SourceUse
    <3> QED BY <3>1, <3>2, <3>3, <3>4, <3>5, Zenon
  <2>2. UNCHANGED <<plan, primed, warmed, faulted>>
    BY <2>1, Zenon DEF Recorded
  <2> QED BY <2>2, <1>1, Zenon
<1>7. CASE PreparingStep
  BY <1>7, <1>1 DEF PreparingStep, PrepareCancelled, SizeUnknown, StopWriting, Prepared, Verify, PutTarget,
     OpenTarget, FinishTarget, WriteChunk, PrepareOver, JobUnchanged, TraceVars
<1>8. CASE Replaying
  <2>1. PICK s \in Streams :
          \/ DirectStat(s) \/ DirectWrite(s) \/ DirectCut(s) \/ DirectFails(s)
          \/ \E fails \in BOOLEAN : Open(s, fails) \/ Read(s, fails) \/ Write(s, fails)
                                      \/ Fsync(s, fails) \/ Close(s, fails)
    BY <1>8 DEF Replaying
  <2>2. CASE DirectStat(s) \/ DirectWrite(s) \/ DirectCut(s) \/ DirectFails(s)
    <3>1. ReplayUnchanged
      BY <2>2, Zenon DEF DirectStat, DirectWrite, DirectCut, DirectFails
    <3>2. UNCHANGED faulted \/ faulted'
      BY <2>2, Zenon DEF DirectStat, DirectWrite, DirectCut, DirectFails
    <3>3. UNCHANGED <<plan, primed, warmed>>
      BY <3>1, Zenon DEF ReplayUnchanged, TraceVars
    <3> QED BY <3>2, <3>3, <1>1, Zenon
  <2>3. ASSUME NEW fails \in BOOLEAN,
               Open(s, fails) \/ Read(s, fails) \/ Write(s, fails) \/ Fsync(s, fails) \/ Close(s, fails)
        PROVE  PrimedHonest'
    <3>1. ReplayUnchanged
      BY <2>3, Zenon DEF Open, Read, Write, Fsync, Close
    <3>2. faulted' = (faulted \/ fails)
      BY <2>3, Zenon DEF Open, Read, Write, Fsync, Close
    <3>3. UNCHANGED <<plan, primed, warmed>>
      BY <3>1, Zenon DEF ReplayUnchanged, TraceVars
    <3>4. faulted => faulted'
      BY <3>2, Zenon
    <3> QED BY <3>3, <3>4, <1>1, Zenon
  <2> QED BY <2>1, <2>2, <2>3
<1>9. CASE CaptureEnds \/ Load \/ Over \/ Cancel \/ Done \/ Primed \/ UNCHANGED dataVars
  BY <1>9, <1>1 DEF CaptureEnds, Load, Over, Cancel, Done, Primed, dataVars, JobUnchanged, TraceVars
<1> QED BY <1>2, <1>3, <1>4, <1>5, <1>6, <1>7, <1>8, <1>9 DEF Next, PrimingStep

(* What a report may call a warm start is one: a target counts as primed only *)
(* if it was read to its end, unless a call failed on a file (cache.go:125).  *)
THEOREM PrimedCountHonest == Spec => []PrimedHonest
<1>1. Init => PrimedHonest
  BY DEF Init, PrimedHonest, PrimedReadWhole
<1> QED BY <1>1, HandleInvInit, HandleInvStep, PrimedStep, PTL DEF Spec

-----------------------------------------------------------------------------
(* What a trace of the program's calls is like: every handle is opened first, *)
(* by the stream that uses it, and not used after its CLOSE; a file that is   *)
(* never cut is in the end as long as any operation reached.                  *)
Transfers == Indices("READ") \cup Indices("WRITE")

Lifecycles ==
  /\ \A i \in DOMAIN ops : ops[i].op # "OPEN" =>
       \E j \in Opens : j < i /\ ops[j].h = ops[i].h /\ ops[j].s = ops[i].s
                        /\ (ops[i].op = "WRITE" => ops[j].mode # "r")
  /\ \A i \in Indices("CLOSE"), j \in Transfers : ops[i].h = ops[j].h => j < i

Reach(i) ==
  /\ ops[i].off \in Nat /\ ops[i].len \in Nat
  /\ ops[i].ret = None \/ (ops[i].op = "READ" /\ ops[i].ret \in 1..(ops[i].len - 1))
  /\ ops[i].op = "READ" => ops[i].len > 0
  /\ ~Truncated => End(i) <= source[TargetOf(ops[i].h)]

Recording ==
  /\ plan \in Plans /\ source \in [Targets -> Nat]
  /\ \E k \in 0..Len(ops) : Table = 0..(k - 1)
  /\ \A i \in Opens : ops[i].tgt \in Targets /\ ops[i].s \in Streams
  /\ Lifecycles
  /\ \A i \in Transfers : Reach(i)

(* What is in place of a target that preparation is done with.                *)
Fits(t, size) ==
  /\ mode = "synthetic" => Needed(t) > 0 /\ size = Needed(t)
  /\ mode = "source"    => size = source[t]
  /\ Declared(t) > 0    => size = Declared(t)

Ready(t) == Exists(Name(t)) /\ Fits(t, store[Name(t)])

Sizing ==
  /\ phase \in {"capture", "loading"} => job = NoJob
  /\ phase = "preparing" =>
       /\ job.tgt \in Nat /\ job.off \in Nat
       /\ job.h = None => job.off = 0
       /\ Distinct /\ plan.engine # "mem" =>
            /\ \A t \in Table : t < job.tgt => Ready(t)
            /\ job.h # None => /\ Exists(Name(job.tgt)) /\ store[Name(job.tgt)] = job.off
                               /\ Goal(job.tgt) # None /\ job.off <= Goal(job.tgt)

Modes == mode \in {"synthetic", "source", "existing"}
Named == phase \notin {"capture", "loading", "refused"} => \A t \in Table : Name(t) # None

(* The backend has the files of the table only, and sizes of them.            *)
Stored ==
  /\ \A n \in DOMAIN store : store[n] \in Nat /\ \E t \in Table : Name(t) = n
  /\ phase = "preparing" /\ job.h # None => Exists(Name(job.tgt))

(* Streams issue their operations in order; what they hold is there.          *)
InOrder ==
  /\ DOMAIN got \subseteq DOMAIN ops
  /\ \A i \in DOMAIN got, j \in DOMAIN ops : ops[j].s = ops[i].s /\ j < i => j \in DOMAIN got

Handed ==
  /\ \A s, r \in Streams : \A g \in DOMAIN hmap[s], k \in DOMAIN hmap[r] :
       hmap[s][g] = hmap[r][k] => s = r /\ g = k
  /\ \A s \in Streams : \A g \in DOMAIN hmap[s] :
       handles[hmap[s][g]] # None =>
         IF ObjectAPI(plan.engine) THEN OpenOf(g).mode = "r" ELSE Exists(handles[hmap[s][g]])

(* How long the files are in a replay.  Bound: what a target may have at most *)
(* between writes, if nothing fails and one stream has it to itself.          *)
Bound(t) == IF mode = "synthetic" THEN Needed(t) ELSE source[t]
Tight(t) ==
  /\ Ample /\ ~Truncated /\ plan.engine # "mem" /\ ~faulted
  /\ plan.engine = "direct" => Private(Name(t))
  /\ Bound(t) > 0

Ends(s) == Cur(s).off + Cur(s).len
Cutting(s, n) == dio[s] # Idle /\ dio[s].name = n /\ dio[s].step = "written"

AtMost(t, size) ==
  \/ size <= Bound(t)
  \/ \E s \in Streams : Cutting(s, Name(t)) /\ size <= Longer(Bound(t), AlignUp(Ends(s)))

Stocked(t) ==
  /\ Exists(Name(t))
  /\ mode = "synthetic" => Needed(t) > 0
  /\ Ample /\ ~Truncated => \A i \in OpsOn(t) : End(i) <= store[Name(t)]
  /\ Tight(t) => AtMost(t, store[Name(t)])

Stock ==
  phase \in {"priming", "replaying", "over"} /\ plan.engine # "mem" /\ Distinct =>
    \A t \in Table : Stocked(t)

Finished(i, n) == i \in DOMAIN got /\ ops[i].op = "WRITE" /\ got[i].ok /\ got[i].name = n

DirectInv(s) ==
  dio[s] # Idle =>
    /\ plan.engine = "direct" /\ phase = "replaying"
    /\ dio[s].step \in {"read", "written"} /\ dio[s].orig \in Nat
    /\ DOMAIN dio[s] = {"step", "orig", "name"}
    /\ dio[s].name = Name(TargetOf(Cur(s).h)) /\ Exists(dio[s].name)
    /\ Private(dio[s].name) /\ ~Truncated =>
         /\ \A i \in DOMAIN got : Finished(i, dio[s].name) => End(i) <= dio[s].orig
         /\ dio[s].step = "written" => Ends(s) <= store[dio[s].name]
    /\ \A t \in Table : Name(t) = dio[s].name =>
         /\ Ample /\ ~Truncated => \A i \in OpsOn(t) : End(i) <= dio[s].orig
         /\ Tight(t) => dio[s].orig <= Bound(t)

Lasting ==
  ~Truncated => \A i \in DOMAIN got : ops[i].op = "WRITE" /\ got[i].ok =>
    /\ got[i].name = Name(TargetOf(ops[i].h)) /\ Exists(got[i].name)
    /\ plan.engine # "direct" \/ Private(got[i].name) => End(i) <= store[got[i].name]

(* A replay without failures has the handles the program had, and reads what  *)
(* it read.                                                                   *)
Usable(i) ==
  /\ ops[i].h \in DOMAIN hmap[ops[i].s]
  /\ Live(hmap[ops[i].s][ops[i].h])

Faithful ==
  Faultless /\ Reproducible =>
    /\ \A i \in Opens : i \in DOMAIN got /\ (\A j \in DOMAIN got : ops[j].op = "CLOSE" => ops[j].h # ops[i].h)
                        => Usable(i)
    /\ \A i \in DOMAIN got : ops[i].op = "READ" => got[i].ok /\ got[i].n = Transferred(ops[i])

DataInv ==
  /\ HandleInv /\ Recording /\ Sizing /\ Modes /\ Named /\ Stored
  /\ InOrder /\ Handed /\ Stock /\ Lasting /\ Faithful
  /\ \A s \in Streams : DirectInv(s)

-----------------------------------------------------------------------------
(* All of this is of the plan and the trace, which do not change after the    *)
(* capture.                                                                   *)
Past == <<plan, source, ops>>

LEMMA PastFixed ==
  ASSUME UNCHANGED Past
  PROVE  /\ Opens' = Opens /\ Transfers' = Transfers /\ Table' = Table /\ Truncated' = Truncated
         /\ Distinct' = Distinct /\ \A n : Private(n)' = Private(n)
         /\ \A t : /\ Name(t)' = Name(t) /\ OpsOn(t)' = OpsOn(t)
                   /\ Declared(t)' = Declared(t) /\ Needed(t)' = Needed(t)
         /\ \A g : TargetOf(g)' = TargetOf(g) /\ OpenOf(g)' = OpenOf(g)
         /\ \A i : End(i)' = End(i)
         /\ Recording' = Recording
<1>1. /\ Opens' = Opens /\ Transfers' = Transfers /\ Table' = Table /\ Truncated' = Truncated
      /\ Indices("READ")' = Indices("READ") /\ Indices("WRITE")' = Indices("WRITE")
      /\ Indices("OPEN")' = Indices("OPEN") /\ Indices("CLOSE")' = Indices("CLOSE")
  BY DEF Past, Opens, Transfers, Table, Truncated, Indices
<1>2. \A t : Name(t)' = Name(t)
  BY NamesFixed DEF Past
<1>3. \A g : TargetOf(g)' = TargetOf(g) /\ OpenOf(g)' = OpenOf(g)
  BY <1>1 DEF Past, TargetOf, OpenOf
<1>4. Distinct' = Distinct
  BY <1>1, <1>2 DEF Distinct
<1>5. \A n : Private(n)' = Private(n)
  BY <1>1, <1>2 DEF Past, Private
<1>6. \A i : End(i)' = End(i)
  BY DEF Past, End, Transferred
<1>7. \A t : OpsOn(t)' = OpsOn(t)
  BY <1>1, <1>3 DEF Past, OpsOn
<1>8. \A t : Declared(t)' = Declared(t)
  BY DEF Past, Declared
<1>9. ASSUME NEW t PROVE Extent(t)' = Extent(t)
  <2> DEFINE E == {ops[i].off + Transferred(ops[i]) :
                     i \in {i \in Indices("READ") \cup Indices("WRITE") : TargetOf(ops[i].h) = t}}
  <2>1. E' = E
    BY <1>1, <1>3 DEF Past, Transferred
  <2> DEFINE Furthest(S) == IF S = {} THEN 0 ELSE CHOOSE e \in S : \A f \in S : f <= e
  <2>2. Extent(t) = Furthest(E) /\ Extent(t)' = Furthest(E')
    BY Zenon DEF Extent
  <2> HIDE DEF E, Furthest
  <2> QED BY <2>1, <2>2
<1>10. \A t : Needed(t)' = Needed(t)
  BY <1>8, <1>9 DEF Needed
<1>11. \A i : Reach(i)' = Reach(i)
  BY <1>1, <1>3, <1>6 DEF Past, Reach
<1>12. Lifecycles' = Lifecycles
  BY <1>1 DEF Past, Lifecycles
<1>13. Recording' = Recording
  BY <1>1, <1>11, <1>12 DEF Past, Recording
<1> QED BY <1>1, <1>2, <1>3, <1>4, <1>5, <1>6, <1>7, <1>8, <1>10, <1>13

LEMMA PastKept ==
  ASSUME [Next]_dataVars
  PROVE  UNCHANGED Past \/ Capturing
<1> USE DEF Past, TraceVars, JobUnchanged, PrimeUnchanged, ReplayUnchanged
<1>1. CASE CaptureEnds \/ Load \/ Over \/ Cancel \/ Done \/ UNCHANGED dataVars
  BY <1>1 DEF CaptureEnds, Load, Over, Cancel, Done, dataVars
<1>2. CASE PreparingStep
  BY <1>2 DEF PreparingStep, PrepareCancelled, SizeUnknown, StopWriting, Prepared, Verify, PutTarget,
     OpenTarget, FinishTarget, WriteChunk, PrepareOver
<1>3. CASE PrimingStep
  BY <1>3 DEF PrimingStep, Primed, PrimeOpen, PrimeRead, PrimeObject
<1>4. CASE Replaying
  <2>1. ReplayUnchanged
    <3>1. PICK s \in Streams :
            \/ DirectStat(s) \/ DirectWrite(s) \/ DirectCut(s) \/ DirectFails(s)
            \/ \E fails \in BOOLEAN : Open(s, fails) \/ Read(s, fails) \/ Write(s, fails)
                                        \/ Fsync(s, fails) \/ Close(s, fails)
      BY <1>4, Zenon DEF Replaying
    <3>2. CASE DirectStat(s) \/ DirectWrite(s) \/ DirectCut(s) \/ DirectFails(s)
      BY <3>2, Zenon DEF DirectStat, DirectWrite, DirectCut, DirectFails
    <3>3. ASSUME NEW fails \in BOOLEAN,
                 Open(s, fails) \/ Read(s, fails) \/ Write(s, fails) \/ Fsync(s, fails) \/ Close(s, fails)
          PROVE  ReplayUnchanged
      BY <3>3, Zenon DEF Open, Read, Write, Fsync, Close
    <3> QED BY <3>1, <3>2, <3>3, Zenon
  <2> QED BY <2>1
<1>5. ASSUME NEW m, Again(m) PROVE UNCHANGED Past
  BY <1>5 DEF Again
<1> QED BY <1>1, <1>2, <1>3, <1>4, <1>5 DEF Next

(* A use of a handle finds the OPEN it is of.                                 *)
LEMMA UseFound ==
  ASSUME OpensUnique, Lifecycles, NEW i \in DOMAIN ops, ops[i].op # "OPEN"
  PROVE  \E j \in Opens : /\ j < i /\ ops[j].h = ops[i].h /\ ops[j].s = ops[i].s
                          /\ ops[i].op = "WRITE" => ops[j].mode # "r"
                          /\ TargetOf(ops[i].h) = ops[j].tgt /\ OpenOf(ops[i].h) = ops[j]
<1>1. PICK j \in Opens : /\ j < i /\ ops[j].h = ops[i].h /\ ops[j].s = ops[i].s
                         /\ ops[i].op = "WRITE" => ops[j].mode # "r"
  BY DEF Lifecycles
<1>2. OpenOf(ops[i].h) = ops[j]
  BY <1>1 DEF OpensUnique, Opens, OpenOf
<1> QED BY <1>1, <1>2 DEF TargetOf

LEMMA RecordingInit == Init => Recording
<1> SUFFICES ASSUME Init PROVE Recording
  OBVIOUS
<1>1. ops = <<>> /\ DOMAIN ops = {} /\ Len(ops) = 0
  BY DEF Init
<1>2. Opens = {} /\ Transfers = {} /\ Table = {} /\ Indices("CLOSE") = {}
  BY <1>1 DEF Opens, Transfers, Table, Indices
<1>3. Table = 0..(0 - 1)
  BY <1>2
<1>4. plan \in Plans /\ source \in [Targets -> Nat]
  BY PlansAssumption DEF Init
<1> QED BY <1>1, <1>2, <1>3, <1>4 DEF Recording, Lifecycles

(* The trace grows by one operation.                                          *)
LEMMA Appended ==
  ASSUME IsSeq(ops), NEW op, Recorded(op)
  PROVE  /\ Len(ops) \in Nat /\ Len(ops') = Len(ops) + 1
         /\ DOMAIN ops = 1..Len(ops) /\ DOMAIN ops' = DOMAIN ops \cup {Len(ops) + 1}
         /\ ops'[Len(ops) + 1] = op
         /\ \A i \in DOMAIN ops : ops'[i] = ops[i]
         /\ plan' = plan
         /\ \A kind : Indices(kind)' = Indices(kind) \cup (IF op.op = kind THEN {Len(ops) + 1} ELSE {})
<1>1. PICK S : ops \in Seq(S)
  BY DEF IsSeq
<1>2. ops \in Seq(S \cup {op}) /\ op \in S \cup {op} /\ ops' = Append(ops, op) /\ plan' = plan
  BY <1>1 DEF Recorded
<1>3. /\ Len(ops) \in Nat /\ Len(ops') = Len(ops) + 1
      /\ DOMAIN ops = 1..Len(ops) /\ DOMAIN ops' = 1..(Len(ops) + 1)
      /\ ops'[Len(ops) + 1] = op
      /\ \A i \in DOMAIN ops : ops'[i] = ops[i]
  BY <1>2
<1>4. DOMAIN ops' = DOMAIN ops \cup {Len(ops) + 1}
  BY <1>3
<1>5. \A kind : Indices(kind)' = Indices(kind) \cup (IF op.op = kind THEN {Len(ops) + 1} ELSE {})
  BY <1>3, <1>4 DEF Indices
<1> QED BY <1>2, <1>3, <1>4, <1>5

(* What a stream holds is what it opened and did not close.                   *)
LEMMA HeldOpen ==
  ASSUME OpensUnique, Lifecycles, NEW s, NEW h \in Held(s)
  PROVE  \E j \in Opens : /\ ops[j].h = h /\ ops[j].s = s /\ OpenOf(h) = ops[j] /\ TargetOf(h) = ops[j].tgt
                          /\ \A i \in Indices("CLOSE") : ops[i].h # h
<1>1. PICK j \in Opens : ops[j].h = h /\ ops[j].s = s
  BY DEF Held, HandlesOf, Opens
<1>2. OpenOf(h) = ops[j]
  BY <1>1 DEF OpensUnique, Opens, OpenOf
<1>3. ASSUME NEW i \in Indices("CLOSE"), ops[i].h = h PROVE FALSE
  <2>1. ops[i].s # s
    BY <1>3 DEF Held, HandlesOf
  <2>2. i \in DOMAIN ops /\ ops[i].op # "OPEN"
    BY DEF Indices
  <2>3. PICK k \in Opens : ops[k].h = ops[i].h /\ ops[k].s = ops[i].s
    BY <2>2 DEF Lifecycles
  <2> QED BY <1>1, <1>3, <2>1, <2>3 DEF OpensUnique
<1> QED BY <1>1, <1>2, <1>3 DEF TargetOf

(* A use of a handle that is held, of a file that is not cut.                 *)
LEMMA UseRecorded ==
  ASSUME HandleInv, HandleInv', Recording, NEW op, Recorded(op),
         op.op \in {"READ", "WRITE", "FSYNC", "CLOSE"},
         NEW j \in Opens, op.h = ops[j].h, op.s = ops[j].s, op.op = "WRITE" => ops[j].mode # "r",
         \A i \in Indices("CLOSE") : ops[i].h # op.h,
         source' \in [Targets -> Nat], \A t \in Targets : source[t] <= source'[t],
         op.op \in {"READ", "WRITE"} =>
           /\ op.off \in Nat /\ op.len \in Nat
           /\ op.ret = None \/ (op.op = "READ" /\ op.ret \in 1..(op.len - 1))
           /\ op.op = "READ" => op.len > 0
           /\ op.off + Transferred(op) <= source'[ops[j].tgt]
  PROVE  Recording'
<1> DEFINE n == Len(ops) + 1
<1>1. /\ Len(ops) \in Nat /\ Len(ops') = n
      /\ DOMAIN ops = 1..Len(ops) /\ DOMAIN ops' = DOMAIN ops \cup {n}
      /\ ops'[n] = op /\ \A i \in DOMAIN ops : ops'[i] = ops[i]
      /\ plan' = plan
      /\ \A kind : Indices(kind)' = Indices(kind) \cup (IF op.op = kind THEN {n} ELSE {})
  BY Appended DEF HandleInv, OpensUnique
<1>2. Opens' = Opens /\ Opens \subseteq DOMAIN ops
  BY <1>1 DEF Opens, Indices
<1>3. Table' = Table
  BY <1>1, <1>2 DEF Table, Opens
<1>4. Truncated' = Truncated
  BY <1>1, <1>2 DEF Truncated, Opens
<1>5. \A i \in Opens : TargetOf(ops[i].h) = ops[i].tgt /\ \A g : g = ops[i].h => TargetOf(g)' = ops[i].tgt
  BY <1>1, <1>2 DEF HandleInv, OpensUnique, Opens, TargetOf, OpenOf
<1>6. Lifecycles'
  <2>1. ASSUME NEW i \in DOMAIN ops', ops'[i].op # "OPEN"
        PROVE  \E k \in Opens' : k < i /\ ops'[k].h = ops'[i].h /\ ops'[k].s = ops'[i].s
                                 /\ (ops'[i].op = "WRITE" => ops'[k].mode # "r")
    <3>1. CASE i \in DOMAIN ops
      <4>1. ops'[i] = ops[i] /\ ops[i].op # "OPEN"
        BY <2>1, <3>1, <1>1
      <4>2. PICK k \in Opens : /\ k < i /\ ops[k].h = ops[i].h /\ ops[k].s = ops[i].s
                               /\ ops[i].op = "WRITE" => ops[k].mode # "r"
        BY <3>1, <4>1 DEF Recording, Lifecycles
      <4>3. k \in Opens' /\ ops'[k] = ops[k]
        BY <1>1, <1>2
      <4> QED BY <4>1, <4>2, <4>3
    <3>2. CASE i = n
      BY <3>2, <1>1, <1>2
    <3> QED BY <3>1, <3>2, <1>1
  <2>2. ASSUME NEW i \in Indices("CLOSE")', NEW k \in Transfers', ops'[i].h = ops'[k].h
        PROVE  k < i
    <3>1. CASE i = n
      <4>1. k \in DOMAIN ops /\ n > Len(ops)
        BY <3>1, <1>1 DEF Transfers, Indices
      <4> QED BY <3>1, <4>1, <1>1
    <3>2. CASE i # n
      <4>1. i \in Indices("CLOSE") /\ i \in DOMAIN ops
        BY <3>2, <1>1 DEF Indices
      <4>2. CASE k = n
        BY <4>1, <4>2, <2>2, <1>1
      <4>3. CASE k # n
        <5>1. k \in Transfers /\ k \in DOMAIN ops
          BY <4>3, <1>1 DEF Transfers, Indices
        <5> QED BY <4>1, <5>1, <2>2, <1>1 DEF Recording, Lifecycles
      <4> QED BY <4>2, <4>3
    <3> QED BY <3>1, <3>2
  <2> QED BY <2>1, <2>2 DEF Lifecycles
<1>7. ASSUME NEW i \in Transfers' PROVE Reach(i)'
  <2>1. CASE i = n
    <3>1. op.op \in {"READ", "WRITE"}
      BY <2>1, <1>1 DEF Transfers, Indices
    <3>2. End(i)' = op.off + Transferred(op)
      BY <2>1, <1>1 DEF End, Transferred
    <3>3. TargetOf(ops[i].h)' = ops[j].tgt
      BY <2>1, <1>1, <1>5
    <3> QED BY <2>1, <3>1, <3>2, <3>3, <1>1 DEF Reach
  <2>2. CASE i # n
    <3>1. i \in Transfers /\ i \in DOMAIN ops /\ ops'[i] = ops[i] /\ ops[i].op # "OPEN"
      BY <2>2, <1>1 DEF Transfers, Indices
    <3>2. PICK k \in Opens : ops[k].h = ops[i].h
      BY <3>1 DEF Recording, Lifecycles
    <3>3. TargetOf(ops[i].h)' = ops[k].tgt /\ TargetOf(ops[i].h) = ops[k].tgt /\ ops[k].tgt \in Targets
      BY <3>1, <3>2, <1>5 DEF Recording
    <3>4. End(i)' = End(i) /\ (~Truncated => End(i) \in Int)
      BY <3>1, DatasetAssumption DEF End, Transferred, Recording, Reach
    <3>5. Reach(i)
      BY <3>1 DEF Recording
    <3>6. source[ops[k].tgt] <= source'[ops[k].tgt] /\ source[ops[k].tgt] \in Nat /\ source'[ops[k].tgt] \in Nat
      BY <3>3 DEF Recording
    <3> QED BY <3>1, <3>3, <3>4, <3>5, <3>6, <1>4 DEF Reach
  <2> QED BY <2>1, <2>2
<1>8. plan' \in Plans /\ \E k \in 0..Len(ops') : Table' = 0..(k - 1)
  BY <1>1, <1>3 DEF Recording
<1>9. \A i \in Opens' : ops'[i].tgt \in Targets /\ ops'[i].s \in Streams
  BY <1>1, <1>2 DEF Recording
<1> QED BY <1>6, <1>7, <1>8, <1>9 DEF Recording

LEMMA OpenRecorded ==
  ASSUME HandleInv, HandleInv', Recording, NEW s \in Streams, NEW t \in Targets, NEW c, SourceOpen(s, t, c)
  PROVE  Recording'
<1> DEFINE n == Len(ops) + 1
           op == [op |-> "OPEN", s |-> s, h |-> Cardinality(Indices("OPEN")) + 1, tgt |-> t,
                  mode |-> c.mode, trunc |-> c.trunc]
<1>1. Recorded(op) /\ t <= Cardinality(Table)
      /\ source' = IF c.trunc THEN [source EXCEPT ![t] = 0] ELSE source
  BY Zenon DEF SourceOpen
<1>2. op.op = "OPEN" /\ op.s = s /\ op.tgt = t /\ op.trunc = c.trunc
  OBVIOUS
<1> HIDE DEF op
<1>3. /\ Len(ops) \in Nat /\ Len(ops') = n
      /\ DOMAIN ops = 1..Len(ops) /\ DOMAIN ops' = DOMAIN ops \cup {n}
      /\ ops'[n] = op /\ \A i \in DOMAIN ops : ops'[i] = ops[i]
      /\ plan' = plan
      /\ \A kind : Indices(kind)' = Indices(kind) \cup (IF op.op = kind THEN {n} ELSE {})
  BY <1>1, Appended DEF HandleInv, OpensUnique
<1>4. /\ Opens' = Opens \cup {n} /\ Opens \subseteq DOMAIN ops /\ n \notin DOMAIN ops
      /\ Transfers' = Transfers /\ Indices("CLOSE")' = Indices("CLOSE")
      /\ Transfers \subseteq DOMAIN ops /\ Indices("CLOSE") \subseteq DOMAIN ops
  BY <1>2, <1>3 DEF Opens, Transfers, Indices
<1>5. Table' = Table \cup {t}
  BY <1>2, <1>3, <1>4 DEF Table, Opens
<1>6. \E k \in 0..Len(ops') : Table' = 0..(k - 1)
  <2>1. PICK k \in 0..Len(ops) : Table = 0..(k - 1)
    BY DEF Recording
  <2>2. Cardinality(Table) = k
    BY <2>1, <1>3, FS_Interval
  <2>3. t \in Nat /\ t <= k /\ k \in Nat
    <3>1. Cardinality(Targets) \in Nat
      BY DatasetAssumption, FS_CardinalityType
    <3>2. t \in Nat
      BY <3>1, DatasetAssumption
    <3> QED BY <1>1, <1>3, <2>2, <3>2
  <2>4. CASE t < k
    <3>1. Table' = 0..(k - 1)
      BY <1>5, <2>1, <2>3, <2>4
    <3> QED BY <3>1, <1>3
  <2>5. CASE t = k
    <3>1. Table' = 0..((k + 1) - 1)
      BY <1>5, <2>1, <2>3, <2>5
    <3> QED BY <3>1, <1>3, <2>3
  <2> QED BY <2>3, <2>4, <2>5
<1>7. \A i \in Opens : \A g : g = ops[i].h => TargetOf(g) = ops[i].tgt /\ TargetOf(g)' = ops[i].tgt
  BY <1>3, <1>4 DEF HandleInv, OpensUnique, Opens, TargetOf, OpenOf
<1>8. Lifecycles'
  <2>1. ASSUME NEW i \in DOMAIN ops', ops'[i].op # "OPEN"
        PROVE  \E k \in Opens' : k < i /\ ops'[k].h = ops'[i].h /\ ops'[k].s = ops'[i].s
                                 /\ (ops'[i].op = "WRITE" => ops'[k].mode # "r")
    <3>1. i \in DOMAIN ops /\ ops'[i] = ops[i] /\ ops[i].op # "OPEN"
      BY <2>1, <1>2, <1>3
    <3>2. PICK k \in Opens : /\ k < i /\ ops[k].h = ops[i].h /\ ops[k].s = ops[i].s
                             /\ ops[i].op = "WRITE" => ops[k].mode # "r"
      BY <3>1 DEF Recording, Lifecycles
    <3>3. k \in Opens' /\ ops'[k] = ops[k]
      BY <1>3, <1>4
    <3> QED BY <3>1, <3>2, <3>3
  <2>2. ASSUME NEW i \in Indices("CLOSE")', NEW k \in Transfers', ops'[i].h = ops'[k].h
        PROVE  k < i
    <3>1. i \in Indices("CLOSE") /\ k \in Transfers /\ ops'[i] = ops[i] /\ ops'[k] = ops[k]
      BY <1>3, <1>4
    <3> QED BY <2>2, <3>1 DEF Recording, Lifecycles
  <2> QED BY <2>1, <2>2 DEF Lifecycles
<1>9. source' \in [Targets -> Nat]
  BY <1>1 DEF Recording
<1>10. ~Truncated' => ~Truncated /\ source' = source
  <2>1. ~Truncated' => ~op.trunc
    BY <1>3, <1>4 DEF Truncated, Opens
  <2>2. ~Truncated' => ~Truncated
    BY <1>3, <1>4 DEF Truncated, Opens
  <2> QED BY <1>1, <1>2, <2>1, <2>2
<1>11. ASSUME NEW i \in Transfers' PROVE Reach(i)'
  <2>1. i \in Transfers /\ i \in DOMAIN ops /\ ops'[i] = ops[i] /\ ops[i].op # "OPEN"
    BY <1>3, <1>4 DEF Transfers, Indices
  <2>2. PICK k \in Opens : ops[k].h = ops[i].h
    BY <2>1 DEF Recording, Lifecycles
  <2>3. TargetOf(ops[i].h)' = ops[k].tgt /\ TargetOf(ops[i].h) = ops[k].tgt
    BY <2>1, <2>2, <1>7
  <2>4. End(i)' = End(i)
    BY <2>1 DEF End, Transferred
  <2>5. Reach(i)
    BY <2>1 DEF Recording
  <2> QED BY <2>1, <2>3, <2>4, <2>5, <1>10 DEF Reach
<1>12. \A i \in Opens' : ops'[i].tgt \in Targets /\ ops'[i].s \in Streams
  BY <1>2, <1>3, <1>4 DEF Recording
<1> QED BY <1>3, <1>6, <1>8, <1>9, <1>11, <1>12 DEF Recording

LEMMA RecordingStep ==
  ASSUME HandleInv, HandleInv', Recording, [Next]_dataVars
  PROVE  Recording'
<1>1. CASE UNCHANGED Past
  BY <1>1, PastFixed
<1>2. CASE Capturing
  <2>1. PICK s \in Streams, c \in plan.calls :
          \/ \E t \in Targets : SourceOpen(s, t, c)
          \/ \E h \in Held(s) : SourceRead(s, h, c) \/ SourceWrite(s, h, c) \/ SourceUse(s, h, c)
    BY <1>2, Zenon DEF Capturing
  <2>2. CASE \E t \in Targets : SourceOpen(s, t, c)
    BY <2>2, OpenRecorded
  <2>3. ASSUME NEW h \in Held(s), SourceRead(s, h, c) \/ SourceWrite(s, h, c) \/ SourceUse(s, h, c)
        PROVE  Recording'
    <3>1. PICK j \in Opens : /\ ops[j].h = h /\ ops[j].s = s /\ OpenOf(h) = ops[j] /\ TargetOf(h) = ops[j].tgt
                             /\ \A i \in Indices("CLOSE") : ops[i].h # h
      BY HeldOpen DEF HandleInv, Recording
    <3>2. ops[j].tgt \in Targets /\ source[ops[j].tgt] \in Nat
      BY DEF Recording
    <3>3. c.op \in {"READ", "WRITE"} => c.off \in Nat /\ c.len \in Nat
      BY PlansAssumption DEF Recording
    <3>4. CASE SourceRead(s, h, c)
      <4> DEFINE left  == source[TargetOf(h)] - c.off
                 moved == IF left < c.len THEN left ELSE c.len
                 op == [op |-> "READ", s |-> s, h |-> h, off |-> c.off, len |-> c.len,
                        ret |-> IF moved < c.len THEN moved ELSE None]
      <4>1. c.op = "READ" /\ moved > 0 /\ source' = source /\ Recorded(op)
        BY <3>4, Zenon DEF SourceRead
      <4>2. op.op = "READ" /\ op.s = s /\ op.h = h /\ op.off = c.off /\ op.len = c.len
            /\ op.ret = IF moved < c.len THEN moved ELSE None
        OBVIOUS
      <4>3. left = source[ops[j].tgt] - c.off
        BY <3>1
      <4>4. moved \in 1..c.len /\ c.off + moved <= source[ops[j].tgt]
        BY <4>1, <4>3, <3>2, <3>3
      <4> HIDE DEF op, left, moved
      <4>5. op.ret = None \/ op.ret \in 1..(op.len - 1)
        BY <4>2, <4>4, <4>1, <3>3
      <4>6. op.len > 0 /\ op.off + Transferred(op) <= source[ops[j].tgt]
        BY <4>1, <4>2, <4>4, <3>2, <3>3, DatasetAssumption DEF Transferred
      <4>7. /\ source' \in [Targets -> Nat] /\ \A t \in Targets : source[t] <= source'[t]
            /\ source'[ops[j].tgt] = source[ops[j].tgt]
        BY <4>1 DEF Recording
      <4> QED BY <4>1, <4>2, <4>5, <4>6, <4>7, <3>1, <3>3, UseRecorded
    <3>5. CASE SourceWrite(s, h, c)
      <4> DEFINE op == [op |-> "WRITE", s |-> s, h |-> h, off |-> c.off, len |-> c.len, ret |-> None]
      <4>1. c.op = "WRITE" /\ OpenOf(h).mode # "r" /\ Recorded(op)
            /\ source' = [source EXCEPT ![TargetOf(h)] = Longer(@, c.off + c.len)]
        BY <3>5, Zenon DEF SourceWrite
      <4>2. op.op = "WRITE" /\ op.s = s /\ op.h = h /\ op.off = c.off /\ op.len = c.len /\ op.ret = None
        OBVIOUS
      <4> HIDE DEF op
      <4>3. source' = [source EXCEPT ![ops[j].tgt] = Longer(source[ops[j].tgt], c.off + c.len)]
        BY <4>1, <3>1
      <4>4. /\ source' \in [Targets -> Nat] /\ \A t \in Targets : source[t] <= source'[t]
            /\ c.off + c.len <= source'[ops[j].tgt]
        <5>1. /\ c.off + c.len \in Nat /\ Longer(source[ops[j].tgt], c.off + c.len) \in Nat
              /\ source[ops[j].tgt] <= Longer(source[ops[j].tgt], c.off + c.len)
              /\ c.off + c.len <= Longer(source[ops[j].tgt], c.off + c.len)
          BY <4>1, <3>2, <3>3 DEF Longer
        <5>2. source \in [Targets -> Nat]
          BY DEF Recording
        <5> HIDE DEF Longer
        <5> QED BY <5>1, <5>2, <4>3, <3>2
      <4>5. Transferred(op) = c.len
        BY <4>2 DEF Transferred
      <4> QED BY <4>1, <4>2, <4>4, <4>5, <3>1, <3>3, UseRecorded
    <3>6. CASE SourceUse(s, h, c)
      <4> DEFINE op == [op |-> c.op, s |-> s, h |-> h]
      <4>1. c.op \in {"FSYNC", "CLOSE"} /\ source' = source /\ Recorded(op)
        BY <3>6, Zenon DEF SourceUse
      <4>2. op.op = c.op /\ op.s = s /\ op.h = h
        OBVIOUS
      <4> HIDE DEF op
      <4>3. source' \in [Targets -> Nat] /\ \A t \in Targets : source[t] <= source'[t]
        BY <4>1 DEF Recording
      <4> QED BY <4>1, <4>2, <4>3, <3>1, UseRecorded
    <3> QED BY <2>3, <3>4, <3>5, <3>6
  <2> QED BY <2>1, <2>2, <2>3
<1> QED BY <1>1, <1>2, PastKept

(* updatePrepMetadata finds how far the operations on a target reached,       *)
LEMMA ExtentReached ==
  ASSUME HandleInv, Recording, NEW t
  PROVE  /\ Extent(t) \in Nat
         /\ \A i \in OpsOn(t) : End(i) \in Nat /\ End(i) <= Extent(t)
         /\ Extent(t) > 0 => \E i \in OpsOn(t) : End(i) = Extent(t)
<1> DEFINE E == {ops[i].off + Transferred(ops[i]) :
                   i \in {i \in Indices("READ") \cup Indices("WRITE") : TargetOf(ops[i].h) = t}}
           F == [i \in OpsOn(t) |-> End(i)]
<1>1. Extent(t) = IF E = {} THEN 0 ELSE CHOOSE e \in E : \A f \in E : f <= e
  BY Zenon DEF Extent
<1>2. E = {End(i) : i \in OpsOn(t)}
  BY DEF End, OpsOn
<1>3. \A i \in OpsOn(t) : End(i) \in Nat
  <2> SUFFICES ASSUME NEW i \in OpsOn(t) PROVE End(i) \in Nat
    OBVIOUS
  <2>1. Reach(i)
    BY DEF Recording, OpsOn, Transfers
  <2> QED BY <2>1, DatasetAssumption DEF Reach, End, Transferred
<1>4. PICK S : ops \in Seq(S)
  BY DEF HandleInv, OpensUnique, IsSeq
<1>5. Len(ops) \in Nat /\ OpsOn(t) \in SUBSET (1..Len(ops))
  BY <1>4 DEF OpsOn, Indices
<1>6. CASE OpsOn(t) = {}
  <2>1. E = {}
    BY <1>2, <1>6
  <2> HIDE DEF E
  <2> QED BY <1>1, <1>6, <2>1
<1>7. CASE OpsOn(t) # {}
  <2>1. PICK i \in OpsOn(t) : \A j \in OpsOn(t) : F[j] <= F[i]
    <3>1. F \in [OpsOn(t) -> Nat]
      BY <1>3
    <3> HIDE DEF F
    <3> QED BY <3>1, <1>5, <1>7, GreatestValue
  <2>2. \A j \in OpsOn(t) : End(j) <= End(i)
    BY <2>1
  <2>3. End(i) \in E /\ \A f \in E : f <= End(i)
    BY <1>2, <2>2
  <2> HIDE DEF E
  <2>4. Extent(t) = CHOOSE e \in E : \A f \in E : f <= e
    BY <1>1, <2>3
  <2>5. Extent(t) \in E /\ \A f \in E : f <= Extent(t)
    BY <2>3, <2>4
  <2> QED BY <1>2, <1>3, <2>5
<1> QED BY <1>6, <1>7

(* ... and a target's goal, when two targets do not share a name, is what its *)
(* own operations or its recorded size call for.                              *)
LEMMA GoalFits ==
  ASSUME HandleInv, Recording, Distinct, NEW t \in Table, Goal(t) # None, mode \in {"synthetic", "source"}
  PROVE  Goal(t) \in Nat /\ Fits(t, Goal(t))
<1>1. t \in Targets /\ source[t] \in Nat
  BY DEF Table, Opens, Recording
<1>2. Extent(t) \in Nat
  BY ExtentReached
<1>3. Declared(t) \in Nat /\ Needed(t) \in Nat
      /\ (Declared(t) > 0 => Needed(t) = Declared(t)
        /\ Declared(t) = source[t])
  BY <1>1, <1>2 DEF Declared, Needed
<1>4. CASE mode = "source"
  BY <1>1, <1>3, <1>4 DEF Goal, Fits
<1>5. CASE mode = "synthetic"
  <2> DEFINE T == {u \in Table : Name(u) = Name(t) /\ Needed(u) > 0}
  <2>1. Goal(t) = IF T = {} THEN None ELSE Needed(CHOOSE u \in T : \A v \in T : v <= u)
    BY <1>5, Zenon DEF Goal, Required
  <2>2. T \subseteq {t} /\ (t \in T => Needed(t) > 0)
    BY DEF Distinct
  <2> HIDE DEF T
  <2>3. T = {t}
    BY <2>1, <2>2
  <2>4. t \in Nat
    BY <1>1, DatasetAssumption, FS_CardinalityType
  <2>5. (CHOOSE u \in T : \A v \in T : v <= u) = t
    BY <2>3, <2>4
  <2>6. Goal(t) = Needed(t)
    BY <2>1, <2>3, <2>5
  <2> QED BY <1>3, <1>5, <2>2, <2>3, <2>6 DEF Fits
<1> QED BY <1>4, <1>5

-----------------------------------------------------------------------------
(* A file that is given a size is there; the others are as they were.         *)
LEMMA SizedFile ==
  ASSUME NEW n, NEW size
  PROVE  /\ DOMAIN Sized(n, size) = DOMAIN store \cup {n}
         /\ Sized(n, size)[n] = size
         /\ \A m \in DOMAIN store : m # n => Sized(n, size)[m] = store[m]
BY DEF Sized

LEMMA RequiredFixed ==
  ASSUME UNCHANGED Past, NEW n
  PROVE  Required(n)' = Required(n)
<1> DEFINE T == {t \in Table : Name(t) = n /\ Needed(t) > 0}
           OfLast(U) == IF U = {} THEN None ELSE Needed(CHOOSE t \in U : \A u \in U : u <= t)
<1>1. Table' = Table /\ \A t : Name(t)' = Name(t) /\ Needed(t)' = Needed(t)
  BY PastFixed
<1>2. T' = T
  BY <1>1
<1>3. Required(n) = OfLast(T) /\ Required(n)' = OfLast(T)'
  BY Zenon DEF Required
<1>4. \A U : OfLast(U)' = OfLast(U)
  BY <1>1
<1> HIDE DEF T, OfLast
<1> QED BY <1>2, <1>3, <1>4

(* What is in place of a target stays so while the file does not change.      *)
LEMMA ReadyKept ==
  ASSUME UNCHANGED Past, mode' = mode, NEW t, Ready(t),
         Name(t) \in DOMAIN store', store'[Name(t)] = store[Name(t)]
  PROVE  Ready(t)'
<1>1. Name(t)' = Name(t) /\ Needed(t)' = Needed(t) /\ Declared(t)' = Declared(t) /\ source' = source
  BY PastFixed DEF Past
<1> QED BY <1>1 DEF Ready, Fits, Exists

(* One step of the preparation of a target: the target's file is set, and all *)
(* others are left alone.                                                     *)
LEMMA TargetStep ==
  ASSUME HandleInv, Recording, Sizing, Preparing, UNCHANGED Past, mode' = mode, phase' = "preparing",
         NEW size, store' = store \/ store' = Sized(Name(job.tgt), size),
         job'.off \in Nat, job'.h = None => job'.off = 0,
         \/ /\ job'.tgt = job.tgt
            /\ job'.h # None /\ Distinct /\ plan.engine # "mem" =>
                 /\ Exists(Name(job.tgt))' /\ store'[Name(job.tgt)] = job'.off
                 /\ Goal(job.tgt) # None /\ job'.off <= Goal(job.tgt)
         \/ /\ job'.tgt = job.tgt + 1 /\ job'.h = None
            /\ Distinct /\ plan.engine # "mem" =>
                 Name(job.tgt) \in DOMAIN store' /\ Fits(job.tgt, store'[Name(job.tgt)])
  PROVE  Sizing'
<1>1. job.tgt \in Nat /\ job'.tgt \in Nat /\ job.tgt \in Table
  BY DEF Preparing, Sizing
<1>2. /\ Table' = Table /\ Distinct' = Distinct /\ plan' = plan
      /\ \A t : Name(t)' = Name(t) /\ Needed(t)' = Needed(t) /\ Declared(t)' = Declared(t)
      /\ source' = source
  BY PastFixed DEF Past
<1>3. ASSUME Distinct, plan.engine # "mem", NEW t \in Table, t < job.tgt PROVE Ready(t)'
  <2>1. Ready(t)
    BY <1>3 DEF Sizing, Preparing
  <2>2. Name(t) # Name(job.tgt)
    BY <1>1, <1>3 DEF Distinct
  <2>3. Name(t) \in DOMAIN store' /\ store'[Name(t)] = store[Name(t)]
    <3>1. Name(t) \in DOMAIN store
      BY <2>1 DEF Ready, Exists
    <3>2. CASE store' = Sized(Name(job.tgt), size)
      <4> DEFINE n == Name(job.tgt)
                 m == Name(t)
      <4>1. m \in DOMAIN store /\ m # n /\ store' = Sized(n, size)
        BY <2>2, <3>1, <3>2
      <4> HIDE DEF n, m
      <4>2. m \in DOMAIN store' /\ store'[m] = store[m]
        BY <4>1 DEF Sized
      <4> QED BY <4>2 DEF m
    <3> QED BY <3>1, <3>2
  <2> QED BY <2>1, <2>3, ReadyKept
<1>4. \A t \in Table : t \in Nat
  BY DatasetAssumption, FS_CardinalityType DEF Recording
<1>5. CASE job'.tgt = job.tgt
  <2>1. \A t : Goal(t)' = Goal(t)
    <3>1. \A n : Required(n)' = Required(n)
      BY RequiredFixed
    <3> QED BY <1>2, <3>1 DEF Goal
  <2>2. \A t : (t = job.tgt) => Goal(t)' = Goal(job.tgt) /\ Name(t)' = Name(job.tgt)
    BY <1>2, <2>1
  <2>3. Goal(job.tgt)' = Goal(job.tgt) /\ Name(job.tgt)' = Name(job.tgt)
    BY <1>5, <2>2
  <2> QED BY <1>1, <1>2, <1>3, <1>5, <2>3 DEF Sizing
<1>6. CASE job'.tgt = job.tgt + 1
  <2>1. job'.tgt = job.tgt + 1 /\ job'.h = None
    BY <1>1, <1>6
  <2>2. ASSUME Distinct, plan.engine # "mem", NEW t \in Table, t = job.tgt PROVE Ready(t)'
    <3>1. Name(t) \in DOMAIN store' /\ Fits(t, store'[Name(t)])
      BY <1>1, <2>1, <2>2
    <3> QED BY <3>1, <1>2 DEF Ready, Fits, Exists
  <2>3. \A t \in Table : t < job'.tgt => t < job.tgt \/ t = job.tgt
    BY <1>1, <1>4, <2>1
  <2> QED BY <1>1, <1>2, <1>3, <2>1, <2>2, <2>3 DEF Sizing
<1> QED BY <1>5, <1>6

LEMMA PreparingSizes ==
  ASSUME HandleInv, Recording, Sizing, PreparingStep
  PROVE  Sizing'
<1> DEFINE name == Name(job.tgt)
<1> USE DEF JobUnchanged, TraceVars, Past
<1>1. CASE phase' \notin {"capture", "loading", "preparing"}
  BY <1>1 DEF Sizing
<1>2. CASE PrepareCancelled \/ SizeUnknown \/ StopWriting \/ Prepared
  <2>1. phase' \in {"failed", "priming", "replaying"}
    BY <1>2 DEF PrepareCancelled, SizeUnknown, StopWriting, Prepared, PrepareOver
  <2> QED BY <1>1, <2>1
<1>3. ASSUME Preparing, phase' = "preparing", Verify(name, Declared(job.tgt)) PROVE Sizing'
  <2>1. /\ mode = "existing" /\ mode' = mode /\ UNCHANGED Past
        /\ store' = store \/ (plan.engine = "mem" /\ store' = Sized(name, MemSize(name)))
        /\ name \in DOMAIN store' /\ (Declared(job.tgt) # 0 => store'[name] = Declared(job.tgt))
        /\ job' = [job EXCEPT !.tgt = @ + 1]
    BY <1>3 DEF Verify, PrepareOver
  <2>2. job.h = None /\ job.off = 0 /\ job'.tgt = job.tgt + 1 /\ job'.h = None /\ job'.off = 0
    BY <2>1, <1>3 DEF HandleInv, Jobs, Sizing, Preparing
  <2>3. Fits(job.tgt, store'[name])
    BY <2>1 DEF Fits
  <2> HIDE DEF name
  <2>4. name = Name(job.tgt)
    BY DEF name
  <2> QED BY <1>3, <2>1, <2>2, <2>3, <2>4, TargetStep
<1>4. ASSUME Preparing, phase' = "preparing", NEW fails \in BOOLEAN, PutTarget(name, fails) PROVE Sizing'
  <2>1. /\ ~fails /\ mode' = mode /\ UNCHANGED Past /\ Materializing /\ ObjectAPI(plan.engine)
        /\ store' = Sized(name, Goal(job.tgt))
        /\ job' = [job EXCEPT !.tgt = @ + 1]
    BY <1>4 DEF PutTarget, PrepareOver
  <2>2. job.h = None /\ job.off = 0 /\ job'.tgt = job.tgt + 1 /\ job'.h = None /\ job'.off = 0
    BY <2>1, <1>4 DEF HandleInv, Jobs, Sizing, Preparing
  <2>3. Distinct => Fits(job.tgt, Goal(job.tgt))
    BY <2>1, GoalFits DEF Materializing, Preparing
  <2>4. name \in DOMAIN store' /\ store'[name] = Goal(job.tgt)
    BY <2>1 DEF Sized
  <2> HIDE DEF name
  <2>5. name = Name(job.tgt)
    BY DEF name
  <2> QED BY <1>4, <2>1, <2>2, <2>3, <2>4, <2>5, TargetStep
<1>5. ASSUME Preparing, phase' = "preparing", NEW fails \in BOOLEAN, OpenTarget(name, fails) PROVE Sizing'
  <2>1. /\ ~fails /\ mode' = mode /\ UNCHANGED Past /\ Materializing /\ ~ObjectAPI(plan.engine) /\ job.h = None
        /\ store' = OpenedStore(plan.engine, name, TRUE, MemSize(name))
        /\ job' = [job EXCEPT !.h = NextHandle]
    BY <1>5 DEF OpenTarget, PrepareOver
  <2>2. job.off = 0 /\ job'.tgt = job.tgt /\ job'.h = NextHandle /\ job'.off = 0
    BY <2>1, <1>5 DEF HandleInv, Jobs, Sizing, Preparing
  <2>3. NextHandle # None
    <3>1. Len(handles) \in Nat
      BY DEF HandleInv, Tables, IsSeq
    <3> QED BY <3>1, DatasetAssumption DEF NextHandle
  <2>4. /\ plan.engine # "mem" => store' = Sized(name, 0)
        /\ store' = store \/ store' = Sized(name, 0) \/ store' = Sized(name, MemSize(name))
    BY <2>1 DEF OpenedStore, ObjectAPI
  <2>5. plan.engine # "mem" => name \in DOMAIN store' /\ store'[name] = 0
    BY <2>4 DEF Sized
  <2>6. Distinct => Goal(job.tgt) \in Nat
    BY <2>1, GoalFits DEF Materializing, Preparing
  <2> HIDE DEF name
  <2>7. name = Name(job.tgt)
    BY DEF name
  <2>8. Distinct /\ plan.engine # "mem" =>
          Exists(Name(job.tgt))' /\ store'[Name(job.tgt)] = job'.off
          /\ Goal(job.tgt) # None /\ job'.off <= Goal(job.tgt)
    <3>1. ASSUME plan.engine # "mem" PROVE Exists(Name(job.tgt))'
      <4>1. Name(job.tgt)' = Name(job.tgt)
        BY <2>1, <2>2, PastFixed
      <4> QED BY <4>1, <2>5, <2>7, <3>1 DEF Exists
    <3>2. plan.engine # "mem" => store'[Name(job.tgt)] = job'.off
      BY <2>2, <2>5, <2>7
    <3>3. Goal(job.tgt) # None
      BY <2>1 DEF Materializing
    <3>4. Distinct => job'.off <= Goal(job.tgt)
      BY <2>2, <2>6
    <3> QED BY <3>1, <3>2, <3>3, <3>4
  <2>9. PICK size : store' = store \/ store' = Sized(name, size)
    BY <2>4
  <2>10. job'.tgt = job.tgt /\ job'.off \in Nat /\ (job'.h = None => job'.off = 0)
    BY <2>2
  <2>11. mode' = mode /\ UNCHANGED Past
    BY <2>1
  <2> QED BY <1>5, <2>7, <2>8, <2>9, <2>10, <2>11, TargetStep
<1>6. ASSUME Preparing, phase' = "preparing", NEW fails \in BOOLEAN, FinishTarget(fails) PROVE Sizing'
  <2>1. /\ mode' = mode /\ UNCHANGED Past /\ Materializing /\ job.h # None /\ job.off >= Goal(job.tgt)
        /\ store' = store /\ job' = [tgt |-> job.tgt + 1, h |-> None, off |-> 0]
    BY <1>6 DEF FinishTarget, PrepareOver
  <2>2. job'.tgt = job.tgt + 1 /\ job'.h = None /\ job'.off = 0
    BY <2>1
  <2>3. Distinct /\ plan.engine # "mem" => name \in DOMAIN store' /\ Fits(job.tgt, store'[name])
    <3>1. Distinct => Goal(job.tgt) \in Nat /\ Fits(job.tgt, Goal(job.tgt))
      BY <2>1, GoalFits DEF Materializing, Preparing
    <3>2. Distinct /\ plan.engine # "mem" =>
            Exists(name) /\ store[name] = job.off /\ job.off <= Goal(job.tgt) /\ job.off \in Nat
      BY <2>1, <1>6 DEF Sizing, Preparing
    <3>3. Distinct /\ plan.engine # "mem" => store[name] = Goal(job.tgt)
      BY <2>1, <3>1, <3>2
    <3> QED BY <2>1, <3>1, <3>2, <3>3 DEF Exists
  <2> HIDE DEF name
  <2>4. name = Name(job.tgt)
    BY DEF name
  <2> QED BY <1>6, <2>1, <2>2, <2>3, <2>4, TargetStep
<1>7. ASSUME Preparing, phase' = "preparing", NEW n \in 0..Chunk, WriteChunk(name, n) PROVE Sizing'
  <2> DEFINE left == Goal(job.tgt) - job.off
             full == IF left < Chunk THEN left ELSE Chunk
  <2>1. /\ mode' = mode /\ UNCHANGED Past /\ Materializing /\ job.h # None
        /\ full > 0 /\ n \in 0..full
        /\ store' = IF n = 0 THEN store ELSE Grown(name, job.off + n)
        /\ job' = [job EXCEPT !.off = @ + n]
    BY <1>7 DEF WriteChunk, PrepareOver
  <2>2. n \in Nat /\ job.off \in Nat /\ job'.tgt = job.tgt /\ job'.h = job.h /\ job'.off = job.off + n
    BY <2>1, <1>7, DatasetAssumption DEF HandleInv, Jobs, Sizing, Preparing
  <2>3. store' = store \/ store' = Sized(name, Longer(store[name], job.off + n))
    BY <2>1 DEF Grown
  <2>4. ASSUME Distinct, plan.engine # "mem"
        PROVE  /\ Exists(Name(job.tgt))' /\ store'[name] = job'.off
               /\ Goal(job.tgt) # None /\ job'.off <= Goal(job.tgt)
    <3>1. Goal(job.tgt) \in Nat /\ Goal(job.tgt) # None
      BY <2>1, <2>4, GoalFits DEF Materializing, Preparing
    <3>2. Exists(name) /\ store[name] = job.off
      BY <2>1, <2>4, <1>7 DEF Sizing, Preparing
    <3>3. name \in DOMAIN store' /\ store'[name] = job.off + n
      <4>1. CASE n = 0
        BY <4>1, <2>1, <2>2, <3>2 DEF Exists
      <4>2. CASE n # 0
        <5>1. Longer(store[name], job.off + n) = job.off + n
          BY <4>2, <2>2, <3>2 DEF Longer
        <5>2. store' = Sized(name, job.off + n)
          BY <4>2, <2>1, <5>1 DEF Grown
        <5> QED BY <5>2 DEF Sized
      <4> QED BY <4>1, <4>2
    <3>4. job.off + n <= Goal(job.tgt)
      BY <2>1, <2>2, <3>1, DatasetAssumption
    <3>5. Name(job.tgt)' = Name(job.tgt)
      BY <2>1, <2>2, PastFixed
    <3> QED BY <3>1, <3>3, <3>4, <3>5, <2>2 DEF Exists
  <2> HIDE DEF name, left, full
  <2>5. name = Name(job.tgt)
    BY DEF name
  <2> QED BY <1>7, <2>1, <2>2, <2>3, <2>4, <2>5, TargetStep
<1>8. ASSUME Preparing,
             \/ Verify(name, Declared(job.tgt))
             \/ \E fails \in BOOLEAN : PutTarget(name, fails) \/ OpenTarget(name, fails) \/ FinishTarget(fails)
             \/ \E n \in 0..Chunk : WriteChunk(name, n)
      PROVE  phase' \in {"preparing", "failed"}
  BY <1>8 DEF Verify, PutTarget, OpenTarget, FinishTarget, WriteChunk, PrepareOver
<1> QED
  BY <1>1, <1>2, <1>3, <1>4, <1>5, <1>6, <1>7, <1>8 DEF PreparingStep

LEMMA SizingStep ==
  ASSUME HandleInv, Recording, Sizing, [Next]_dataVars
  PROVE  Sizing'
<1>1. CASE phase' \notin {"capture", "loading", "preparing"}
  BY <1>1 DEF Sizing
<1>2. CASE Capturing
  <2>1. phase = "capture" /\ phase' = phase /\ job' = job
    <3>1. PICK s \in Streams, c \in plan.calls :
            \/ \E t \in Targets : SourceOpen(s, t, c)
            \/ \E h \in Held(s) : SourceRead(s, h, c) \/ SourceWrite(s, h, c) \/ SourceUse(s, h, c)
      BY <1>2, Zenon DEF Capturing
    <3>2. ASSUME NEW op, Recorded(op) PROVE phase = "capture" /\ phase' = phase /\ job' = job
      BY <3>2, Zenon DEF Recorded
    <3> QED BY <3>1, <3>2, Zenon DEF SourceOpen, SourceRead, SourceWrite, SourceUse
  <2> QED BY <2>1 DEF Sizing, NoJob
<1>3. CASE CaptureEnds
  BY <1>3 DEF CaptureEnds, Sizing
<1>4. ASSUME job' = NoJob, phase' = "preparing", UNCHANGED Past PROVE Sizing'
  <2>1. \A t \in Table' : t \in Nat
    <3>1. Table' = Table
      BY <1>4, PastFixed
    <3> QED BY <3>1, DatasetAssumption, FS_CardinalityType DEF Recording
  <2> QED BY <1>4, <2>1 DEF Sizing, NoJob
<1>5. CASE Load
  <2>1. job' = NoJob /\ phase' \in {"refused", "preparing"} /\ UNCHANGED Past
    BY <1>5 DEF Load, Sizing, TraceVars, Past
  <2> QED BY <1>1, <1>4, <2>1
<1>6. ASSUME NEW m, Again(m) PROVE Sizing'
  BY <1>4, <1>6 DEF Again, TraceVars, Past
<1>7. CASE PrimingStep \/ Over
  <2>1. phase' \in {"priming", "replaying", "over"}
    BY <1>7 DEF PrimingStep, Primed, PrimeOpen, PrimeRead, PrimeObject, PrimeUnchanged, Priming, Over
  <2> QED BY <1>1, <2>1
<1>8. CASE Replaying
  <2>1. phase' = "replaying"
    <3>1. PICK s \in Streams :
            \/ DirectStat(s) \/ DirectWrite(s) \/ DirectCut(s) \/ DirectFails(s)
            \/ \E fails \in BOOLEAN : Open(s, fails) \/ Read(s, fails) \/ Write(s, fails)
                                        \/ Fsync(s, fails) \/ Close(s, fails)
      BY <1>8, Zenon DEF Replaying
    <3>2. phase = "replaying" /\ ReplayUnchanged
      BY <3>1, Zenon DEF DirectStat, DirectWrite, DirectCut, DirectFails, Open, Read, Write, Fsync, Close,
           Dispatching
    <3> QED BY <3>2 DEF ReplayUnchanged
  <2> QED BY <1>1, <2>1
<1>9. CASE PreparingStep
  BY <1>9, PreparingSizes
<1>10. ASSUME UNCHANGED <<phase, mode, job, store>>, UNCHANGED Past PROVE Sizing'
  <2>1. /\ Table' = Table /\ Distinct' = Distinct /\ plan' = plan
        /\ \A t : Name(t)' = Name(t)
    BY <1>10, PastFixed DEF Past
  <2>2. \A t : Ready(t) => Ready(t)'
    <3>1. \A t : /\ Name(t)' = Name(t) /\ Needed(t)' = Needed(t) /\ Declared(t)' = Declared(t)
      BY <1>10, PastFixed
    <3> QED BY <1>10, <3>1 DEF Ready, Fits, Exists, Past
  <2>3. Goal(job.tgt)' = Goal(job.tgt)
    <3>1. \A n : Required(n)' = Required(n)
      BY <1>10, RequiredFixed
    <3>2. Name(job.tgt)' = Name(job.tgt)
      BY <2>1, <1>10
    <3> QED BY <3>1, <3>2, <1>10 DEF Goal, Past
  <2>4. Exists(Name(job.tgt)) => Exists(Name(job.tgt))'
    BY <2>1, <1>10 DEF Exists
  <2>5. Name(job.tgt)' = Name(job.tgt)
    BY <2>1, <1>10
  <2> QED BY <1>10, <2>1, <2>2, <2>3, <2>4, <2>5 DEF Sizing
<1>11. CASE Cancel \/ Done \/ UNCHANGED dataVars
  BY <1>10, <1>11 DEF Cancel, Done, dataVars, JobUnchanged, TraceVars, Past
<1> QED BY <1>2, <1>3, <1>5, <1>6, <1>7, <1>8, <1>9, <1>11 DEF Next

(* No replay, and no priming, starts on a target that is missing, or longer   *)
(* or shorter than the trace says: whatever an attempt before, cut off or     *)
(* failed between two chunks, has left in its place (prepare.go:125, 213).    *)
THEOREM DatasetsAreWhole == Spec => []DatasetWhole
<1>1. HandleInv /\ Recording /\ Sizing => DatasetWhole
  <2> SUFFICES ASSUME HandleInv, Recording, Sizing, phase = "preparing", job.tgt \notin Table, Distinct,
                      plan.engine # "mem", NEW t \in Table
               PROVE  Exists(Name(t)) /\ Expected(t, store[Name(t)])
    BY DEF DatasetWhole
  <2>1. t < job.tgt
    <3>1. PICK k \in 0..Len(ops) : Table = 0..(k - 1)
      BY DEF Recording
    <3>2. Len(ops) \in Nat /\ job.tgt \in Nat
      BY DEF HandleInv, OpensUnique, IsSeq, Sizing
    <3> QED BY <3>1, <3>2
  <2>2. Exists(Name(t)) /\ Fits(t, store[Name(t)])
    BY <2>1 DEF Sizing, Ready
  <2>3. t \in Targets /\ source[t] \in Nat
    BY DEF Table, Opens, Recording
  <2>4. Extent(t) > 0 => \E i \in OpsOn(t) : End(i) = Extent(t)
    BY ExtentReached
  <2>5. \A i \in OpsOn(t) : End(i) <= Extent(t)
    BY ExtentReached
  <2> QED BY <2>2, <2>3, <2>4, <2>5 DEF Fits, Expected, Needed, Declared
<1>2. Init => Sizing
  BY DEF Init, Sizing
<1> QED BY HandleInvInit, HandleInvStep, RecordingInit, RecordingStep, SizingStep, <1>1, <1>2, PTL DEF Spec

-----------------------------------------------------------------------------
(* Rounding up to whole blocks.                                               *)
LEMMA AlignUpRaises ==
  ASSUME NEW x \in Nat
  PROVE  AlignUp(x) \in Nat /\ x <= AlignUp(x)
<1> DEFINE q == (x + Align - 1) \div Align
<1>1. Align \in Nat \ {0} /\ x + Align - 1 \in Nat
  BY DatasetAssumption
<1>2. q \in Nat /\ x + Align - 1 < q * Align + Align
  BY <1>1
<1>3. q * Align \in Nat
  <2> HIDE DEF q
  <2> QED BY <1>1, <1>2
<1>4. AlignUp(x) = q * Align
  BY DEF AlignUp
<1> HIDE DEF q
<1> QED BY <1>1, <1>2, <1>3, <1>4

LEMMA LongerOf ==
  ASSUME NEW a \in Nat, NEW b \in Nat
  PROVE  /\ Longer(a, b) \in Nat /\ a <= Longer(a, b) /\ b <= Longer(a, b)
         /\ \A c \in Nat : a <= c /\ b <= c => Longer(a, b) <= c
BY DEF Longer

(* The targets are numbers, and the sizes looked up for them too.             *)
LEMMA TargetNumbers ==
  ASSUME HandleInv, Recording
  PROVE  /\ \E k \in Nat : Table = 0..(k - 1)
         /\ \A t \in Table : t \in Nat /\ t \in Targets /\ source[t] \in Nat
         /\ \A t \in Table : Declared(t) \in Nat /\ Needed(t) \in Nat
<1>1. Len(ops) \in Nat
  BY DEF HandleInv, OpensUnique, IsSeq
<1>2. \E k \in Nat : Table = 0..(k - 1)
  BY <1>1 DEF Recording
<1>3. \A t \in Table : t \in Nat /\ t \in Targets /\ source[t] \in Nat
  BY <1>2 DEF Table, Opens, Recording
<1>4. \A t \in Table : Declared(t) \in Nat /\ Needed(t) \in Nat
  BY <1>3, ExtentReached DEF Declared, Needed
<1> QED BY <1>2, <1>3, <1>4

LEMMA GoalNumber ==
  ASSUME HandleInv, Recording, NEW t \in Table, Goal(t) # None
  PROVE  Goal(t) \in Nat
<1>1. CASE mode = "source"
  BY <1>1, TargetNumbers DEF Goal
<1>2. CASE mode # "source"
  <2> DEFINE T == {u \in Table : Name(u) = Name(t) /\ Needed(u) > 0}
  <2>1. Goal(t) = IF T = {} THEN None ELSE Needed(CHOOSE u \in T : \A v \in T : v <= u)
    BY <1>2, Zenon DEF Goal, Required
  <2>2. PICK k \in Nat : Table = 0..(k - 1)
    BY TargetNumbers
  <2>3. T # {} /\ T \in SUBSET (0..k)
    BY <2>1, <2>2
  <2>4. T \subseteq Table
    OBVIOUS
  <2> HIDE DEF T
  <2>5. \E u \in T : \A v \in T : v <= u
    BY <2>2, <2>3, GreatestNumber
  <2>6. (CHOOSE u \in T : \A v \in T : v <= u) \in T
    BY <2>5
  <2>7. \A u \in T : Needed(u) \in Nat
    BY <2>4, TargetNumbers
  <2> QED BY <2>1, <2>3, <2>6, <2>7
<1> QED BY <1>1, <1>2

LEMMA MemSizeNumber ==
  ASSUME HandleInv, Recording, NEW n
  PROVE  MemSize(n) \in Nat
<1>1. CASE \E t \in Table : NameOf[t] = n /\ Declared(t) > 0
  <2>1. MemSize(n) = Declared(CHOOSE t \in Table : NameOf[t] = n)
    BY <1>1, Zenon DEF MemSize
  <2>2. (CHOOSE t \in Table : NameOf[t] = n) \in Table
    BY <1>1
  <2> QED BY <2>1, <2>2, TargetNumbers
<1>2. CASE ~\E t \in Table : NameOf[t] = n /\ Declared(t) > 0
  BY <1>2, DatasetAssumption DEF MemSize
<1> QED BY <1>1, <1>2

(* What any operation reached is within a target's bound, and that is at most *)
(* what the program's file has in the end.                                    *)
LEMMA Bounded ==
  ASSUME HandleInv, Recording, NEW t \in Table
  PROVE  /\ Bound(t) \in Nat
         /\ ~Truncated => /\ \A i \in OpsOn(t) : End(i) \in Nat /\ End(i) <= Bound(t) /\ End(i) <= source[t]
                          /\ Bound(t) <= source[t]
<1>1. source[t] \in Nat /\ Declared(t) \in Nat /\ Needed(t) \in Nat
  BY TargetNumbers
<1>2. /\ Extent(t) \in Nat
      /\ \A i \in OpsOn(t) : End(i) \in Nat /\ End(i) <= Extent(t)
      /\ Extent(t) > 0 => \E i \in OpsOn(t) : End(i) = Extent(t)
  BY ExtentReached
<1>3. ~Truncated => \A i \in OpsOn(t) : End(i) <= source[t]
  <2> SUFFICES ASSUME ~Truncated, NEW i \in OpsOn(t) PROVE End(i) <= source[t]
    OBVIOUS
  <2>1. Reach(i) /\ TargetOf(ops[i].h) = t
    BY DEF OpsOn, Transfers, Recording
  <2> QED BY <2>1 DEF Reach
<1>4. ~Truncated => Extent(t) <= source[t]
  BY <1>1, <1>2, <1>3
<1>5. Declared(t) > 0 => Declared(t) = source[t]
  BY DEF Declared
<1> QED BY <1>1, <1>2, <1>3, <1>4, <1>5 DEF Bound, Needed

-----------------------------------------------------------------------------
(* What a step replays is one stream's; the others are where they were.       *)
LEMMA ReplayedBy ==
  ASSUME Replaying
  PROVE  \E s \in Streams :
           \/ DirectStat(s) \/ DirectWrite(s) \/ DirectCut(s) \/ DirectFails(s)
           \/ \E fails \in BOOLEAN : Open(s, fails) \/ Read(s, fails) \/ Write(s, fails)
                                       \/ Fsync(s, fails) \/ Close(s, fails)
BY Zenon DEF Replaying

LEMMA ReplayedFixed ==
  ASSUME Replaying
  PROVE  UNCHANGED Past /\ UNCHANGED <<mode, job, primed, cancelled, runs>> /\ phase = "replaying"
           /\ phase' = "replaying"
<1>1. PICK s \in Streams :
        \/ DirectStat(s) \/ DirectWrite(s) \/ DirectCut(s) \/ DirectFails(s)
        \/ \E fails \in BOOLEAN : Open(s, fails) \/ Read(s, fails) \/ Write(s, fails)
                                    \/ Fsync(s, fails) \/ Close(s, fails)
  BY ReplayedBy
<1>2. phase = "replaying" /\ ReplayUnchanged
  BY <1>1, Zenon DEF DirectStat, DirectWrite, DirectCut, DirectFails, Open, Read, Write, Fsync, Close,
       Dispatching
<1> QED BY <1>2 DEF ReplayUnchanged, TraceVars, Past

LEMMA ModesStep ==
  ASSUME Recording, Modes, [Next]_dataVars
  PROVE  Modes'
<1>1. CASE mode' = mode
  BY <1>1 DEF Modes
<1>2. ASSUME NEW m \in plan.modes, Again(m) PROVE Modes'
  BY <1>2, PlansAssumption DEF Again, Modes, Recording
<1>3. CASE Capturing
  <2>1. PICK s \in Streams, c \in plan.calls :
          \/ \E t \in Targets : SourceOpen(s, t, c)
          \/ \E h \in Held(s) : SourceRead(s, h, c) \/ SourceWrite(s, h, c) \/ SourceUse(s, h, c)
    BY <1>3, Zenon DEF Capturing
  <2>2. ASSUME NEW op, Recorded(op) PROVE mode' = mode
    BY <2>2, Zenon DEF Recorded
  <2>3. mode' = mode
    BY <2>1, <2>2, Zenon DEF SourceOpen, SourceRead, SourceWrite, SourceUse
  <2> QED BY <1>1, <2>3
<1>4. CASE PreparingStep
  <2>1. mode' = mode
    BY <1>4 DEF PreparingStep, PrepareCancelled, SizeUnknown, StopWriting, Prepared, Verify, PutTarget,
       OpenTarget, FinishTarget, WriteChunk, PrepareOver, JobUnchanged
  <2> QED BY <1>1, <2>1
<1>5. CASE PrimingStep
  BY <1>1, <1>5 DEF PrimingStep, Primed, PrimeOpen, PrimeRead, PrimeObject, PrimeUnchanged, JobUnchanged
<1>6. CASE Replaying
  BY <1>1, <1>6, ReplayedFixed
<1>7. CASE CaptureEnds \/ Load \/ Over \/ Cancel \/ Done \/ UNCHANGED dataVars
  BY <1>1, <1>7 DEF CaptureEnds, Load, Over, Cancel, Done, dataVars, JobUnchanged
<1> QED BY <1>2, <1>3, <1>4, <1>5, <1>6, <1>7 DEF Next

(* A use of a live handle is on the file of the OPEN the handle is of.        *)
LEMMA LiveUse ==
  ASSUME HandleInv, Recording, Handed, NEW s \in Streams, More(s), Cur(s).op # "OPEN", Live(EngineHandle(s))
  PROVE  \E j \in Opens :
           /\ j < At(s) /\ ops[j].h = Cur(s).h /\ ops[j].s = s
           /\ TargetOf(Cur(s).h) = ops[j].tgt /\ ops[j].tgt \in Table
           /\ handles[EngineHandle(s)] = Name(ops[j].tgt)
           /\ Cur(s).h \in DOMAIN hmap[s] /\ EngineHandle(s) = hmap[s][Cur(s).h]
           /\ IF ObjectAPI(plan.engine) THEN ops[j].mode = "r" ELSE Exists(Name(ops[j].tgt))
           /\ Cur(s).op = "WRITE" => ops[j].mode # "r"
<1> DEFINE i == At(s)
           g == Cur(s).h
<1>1. i \in DOMAIN ops /\ ops[i].s = s /\ Cur(s) = ops[i]
  BY NextOp DEF Cur
<1>2. PICK j \in Opens : /\ j < i /\ ops[j].h = g /\ ops[j].s = s
                         /\ ops[i].op = "WRITE" => ops[j].mode # "r"
                         /\ TargetOf(g) = ops[j].tgt /\ OpenOf(g) = ops[j]
  BY <1>1, UseFound DEF HandleInv, Recording
<1>3. ops[j].tgt \in Table
  BY DEF Table, Opens
<1>4. g \in DOMAIN hmap[s] /\ EngineHandle(s) = hmap[s][g]
  <2>1. 0 \notin DOMAIN handles
    BY DEF HandleInv, Tables, IsSeq
  <2> QED BY <2>1 DEF EngineHandle, Live
<1>5. handles[hmap[s][g]] # None
  BY <1>4 DEF Live
<1>6. handles[hmap[s][g]] = Name(ops[j].tgt)
  BY <1>2, <1>4, <1>5 DEF HandleInv, Tables, TableOf
<1>7. IF ObjectAPI(plan.engine) THEN OpenOf(g).mode = "r" ELSE Exists(handles[hmap[s][g]])
  BY <1>4, <1>5 DEF Handed
<1>8. IF ObjectAPI(plan.engine) THEN ops[j].mode = "r" ELSE Exists(Name(ops[j].tgt))
  BY <1>2, <1>6, <1>7
<1> QED BY <1>1, <1>2, <1>3, <1>4, <1>6, <1>8

-----------------------------------------------------------------------------
LEMMA StoredSized ==
  ASSUME Stored, UNCHANGED Past, NEW t \in Table, NEW size \in Nat,
         store' = store \/ store' = Sized(Name(t), size),
         (phase' = "preparing" /\ job'.h # None) => Exists(Name(job.tgt))'
  PROVE  Stored'
<1>1. Table' = Table /\ \A u : Name(u)' = Name(u)
  BY PastFixed
<1>2. ASSUME NEW n \in DOMAIN store' PROVE store'[n] \in Nat /\ \E u \in Table : Name(u) = n
  <2>1. CASE store' = store
    BY <1>2, <2>1 DEF Stored
  <2>2. CASE store' = Sized(Name(t), size)
    <3>1. n \in DOMAIN store \/ n = Name(t)
      BY <1>2, <2>2 DEF Sized
    <3>2. store'[n] = IF n = Name(t) THEN size ELSE store[n]
      BY <1>2, <2>2 DEF Sized
    <3> QED BY <3>1, <3>2 DEF Stored
  <2> QED BY <2>1, <2>2
<1> QED BY <1>1, <1>2 DEF Stored

LEMMA StoredSame ==
  ASSUME Stored, UNCHANGED Past, store' = store,
         (phase' = "preparing" /\ job'.h # None) => phase = "preparing" /\ job.h # None /\ job'.tgt = job.tgt
  PROVE  Stored'
<1>1. Table' = Table /\ \A u : Name(u)' = Name(u)
  BY PastFixed
<1>2. (phase' = "preparing" /\ job'.h # None) => Exists(Name(job.tgt))'
  <2> SUFFICES ASSUME phase' = "preparing" /\ job'.h # None PROVE Exists(Name(job.tgt))'
    OBVIOUS
  <2>1. Name(job.tgt)' = Name(job.tgt)
    BY <1>1
  <2> QED BY <2>1 DEF Stored, Exists
<1> QED BY <1>1, <1>2 DEF Stored

LEMMA PreparingStores ==
  ASSUME HandleInv, Recording, Sizing, Stored, PreparingStep
  PROVE  Stored'
<1> DEFINE name == Name(job.tgt)
<1> USE DEF JobUnchanged, TraceVars, Past
<1>1. CASE PrepareCancelled \/ SizeUnknown \/ StopWriting \/ Prepared
  <2>1. UNCHANGED Past /\ store' = store /\ phase' \in {"failed", "priming", "replaying"}
    BY <1>1 DEF PrepareCancelled, SizeUnknown, StopWriting, Prepared, PrepareOver
  <2> QED BY <2>1, StoredSame
<1>2. ASSUME Preparing, Verify(name, Declared(job.tgt)) PROVE Stored'
  <2>1. /\ UNCHANGED Past /\ mode = "existing" /\ phase = "preparing" /\ job.tgt \in Table
        /\ store' = store \/ store' = Sized(Name(job.tgt), MemSize(Name(job.tgt)))
        /\ job' = [job EXCEPT !.tgt = @ + 1]
    BY <1>2 DEF Verify, PrepareOver, Preparing
  <2>2. job'.h = None
    BY <2>1 DEF HandleInv, Jobs
  <2>3. MemSize(Name(job.tgt)) \in Nat
    BY MemSizeNumber
  <2> QED BY <2>1, <2>2, <2>3, StoredSized
<1>3. ASSUME Preparing, NEW fails \in BOOLEAN, PutTarget(name, fails) PROVE Stored'
  <2>1. /\ UNCHANGED Past /\ phase = "preparing" /\ job.tgt \in Table
        /\ Goal(job.tgt) # None /\ ObjectAPI(plan.engine)
        /\ store' = store \/ store' = Sized(Name(job.tgt), Goal(job.tgt))
        /\ job' = [job EXCEPT !.tgt = @ + 1]
    BY <1>3 DEF PutTarget, PrepareOver, Preparing, Materializing
  <2>2. job'.h = None
    BY <2>1 DEF HandleInv, Jobs
  <2>3. Goal(job.tgt) \in Nat
    BY <2>1, GoalNumber
  <2> QED BY <2>1, <2>2, <2>3, StoredSized
<1>4. ASSUME Preparing, NEW fails \in BOOLEAN, OpenTarget(name, fails) PROVE Stored'
  <2>1. /\ UNCHANGED Past /\ phase = "preparing" /\ job.tgt \in Table /\ job.h = None
        /\ phase' = (IF fails THEN "failed" ELSE "preparing") /\ ~ObjectAPI(plan.engine)
        /\ store' = IF fails THEN store ELSE OpenedStore(plan.engine, Name(job.tgt), TRUE,
             MemSize(Name(job.tgt)))
        /\ job' = IF fails THEN job ELSE [job EXCEPT !.h = NextHandle]
    BY <1>4 DEF OpenTarget, PrepareOver, Preparing
  <2>2. store' = store \/ store' = Sized(Name(job.tgt), 0) \/ store' = Sized(Name(job.tgt),
          MemSize(Name(job.tgt)))
    BY <2>1 DEF OpenedStore
  <2>3. ~fails => Name(job.tgt) \in DOMAIN store'
    BY <2>1 DEF OpenedStore, ObjectAPI, Sized, Exists
  <2>4. ~fails => Exists(Name(job.tgt))'
    <3>1. ~fails => job'.tgt = job.tgt
      BY <2>1 DEF HandleInv, Jobs
    <3>2. ~fails => Name(job.tgt)' = Name(job.tgt)
      BY <2>1, <3>1, PastFixed
    <3> QED BY <2>3, <3>2 DEF Exists
  <2>5. PICK size \in Nat : store' = store \/ store' = Sized(Name(job.tgt), size)
    BY <2>2, MemSizeNumber
  <2>6. job.tgt \in Table /\ UNCHANGED Past /\ (phase' = "preparing" /\ job'.h # None => Exists(Name(job.tgt))')
    BY <2>1, <2>4
  <2> QED BY <2>5, <2>6, StoredSized
<1>5. ASSUME Preparing, NEW fails \in BOOLEAN, FinishTarget(fails) PROVE Stored'
  <2>1. UNCHANGED Past /\ store' = store /\ job'.h = None
    BY <1>5 DEF FinishTarget, PrepareOver
  <2> QED BY <2>1, StoredSame
<1>6. ASSUME Preparing, NEW n \in 0..Chunk, WriteChunk(name, n) PROVE Stored'
  <2>1. /\ UNCHANGED Past /\ phase = "preparing" /\ job.tgt \in Table /\ job.h # None
        /\ n \in Nat
        /\ store' = IF n = 0 THEN store ELSE Sized(Name(job.tgt), Longer(store[Name(job.tgt)], job.off + n))
        /\ job' = [job EXCEPT !.off = @ + n]
    BY <1>6, DatasetAssumption DEF WriteChunk, PrepareOver, Preparing, Grown
  <2>2. job'.tgt = job.tgt /\ job'.h = job.h
    BY <2>1 DEF HandleInv, Jobs
  <2>3. Exists(Name(job.tgt)) /\ store[Name(job.tgt)] \in Nat
    BY <2>1 DEF Stored, Exists
  <2>4. Exists(Name(job.tgt))'
    <3>1. Name(job.tgt)' = Name(job.tgt)
      BY <2>1, <2>2, PastFixed
    <3>2. Name(job.tgt) \in DOMAIN store'
      BY <2>1, <2>3 DEF Sized, Exists
    <3> QED BY <3>1, <3>2 DEF Exists
  <2>5. Longer(store[Name(job.tgt)], job.off + n) \in Nat
    <3>1. job.off + n \in Nat
      BY <2>1 DEF Sizing
    <3> QED BY <2>3, <3>1, LongerOf
  <2> QED BY <2>1, <2>4, <2>5, StoredSized
<1> QED BY <1>1, <1>2, <1>3, <1>4, <1>5, <1>6 DEF PreparingStep

LEMMA PrimingStores ==
  ASSUME HandleInv, Recording, Stored, PrimingStep
  PROVE  Stored'
<1> USE DEF JobUnchanged, PrimeUnchanged, TraceVars, Past
<1>1. CASE Primed
  BY <1>1, StoredSame DEF Primed
<1>2. ASSUME Priming, NEW fails \in BOOLEAN, PrimeOpen(Name(job.tgt), fails) PROVE Stored'
  <2>1. /\ UNCHANGED Past /\ phase' = "priming" /\ job.tgt \in Table
        /\ store' = store \/ store' = OpenedStore(plan.engine, Name(job.tgt), FALSE, MemSize(Name(job.tgt)))
    BY <1>2 DEF PrimeOpen, Priming
  <2>2. store' = store \/ store' = Sized(Name(job.tgt), 0) \/ store' = Sized(Name(job.tgt),
          MemSize(Name(job.tgt)))
    BY <2>1 DEF OpenedStore
  <2>3. PICK size \in Nat : store' = store \/ store' = Sized(Name(job.tgt), size)
    BY <2>2, MemSizeNumber
  <2> QED BY <2>1, <2>3, StoredSized
<1>3. ASSUME Priming, NEW fails, PrimeRead(fails) PROVE Stored'
  BY <1>3, StoredSame DEF PrimeRead, Priming
<1>4. ASSUME Priming, NEW n, PrimeObject(Name(job.tgt), n) PROVE Stored'
  BY <1>4, StoredSame DEF PrimeObject, Priming
<1> QED BY <1>1, <1>2, <1>3, <1>4 DEF PrimingStep

(* A stream's step sets the size of at most one file, of a target.            *)
LEMMA OpenStores ==
  ASSUME HandleInv, Recording, NEW s \in Streams, NEW fails, Open(s, fails)
  PROVE  /\ Cur(s).tgt \in Table /\ At(s) \in Opens /\ Cur(s) = ops[At(s)] /\ ops[At(s)].s = s
         /\ \E size \in Nat : store' = store \/ store' = Sized(Name(Cur(s).tgt), size)
<1>1. More(s) /\ Cur(s).op = "OPEN" /\ (store' = store \/ store' = OpenedStore(plan.engine,
        Name(Cur(s).tgt), Cur(s).trunc, MemSize(Name(Cur(s).tgt))))
  BY DEF Open, Dispatching
<1>2. At(s) \in DOMAIN ops /\ Cur(s) = ops[At(s)] /\ ops[At(s)].s = s
  BY <1>1, NextOp DEF Cur
<1>3. At(s) \in Opens /\ Cur(s).tgt \in Table
  BY <1>1, <1>2 DEF Opens, Indices, Table
<1>4. store' = store \/ store' = Sized(Name(Cur(s).tgt), 0) \/ store' = Sized(Name(Cur(s).tgt),
        MemSize(Name(Cur(s).tgt)))
  BY <1>1 DEF OpenedStore
<1> QED BY <1>2, <1>3, <1>4, MemSizeNumber

LEMMA WriteStores ==
  ASSUME HandleInv, Recording, Stored, Handed, NEW s \in Streams, NEW fails, Write(s, fails)
  PROVE  /\ At(s) \in Indices("WRITE") /\ Cur(s) = ops[At(s)] /\ ops[At(s)].s = s
         /\ Ends(s) \in Nat /\ Ends(s) = End(At(s))
         /\ LET err == fails \/ ~Live(EngineHandle(s))
            IN  /\ plan.engine = "direct" => err
                /\ Moved(s, IF err THEN 0 ELSE Cur(s).len, ~err,
                     IF Live(EngineHandle(s)) THEN handles[EngineHandle(s)] ELSE None)
                /\ err => store' = store
                /\ ~err => \E j \in Opens :
                     /\ ops[j].h = Cur(s).h /\ ops[j].s = s /\ TargetOf(Cur(s).h) = ops[j].tgt
                          /\ ops[j].tgt \in Table
                     /\ handles[EngineHandle(s)] = Name(ops[j].tgt) /\ Exists(Name(ops[j].tgt))
                     /\ store' = Sized(Name(ops[j].tgt), Longer(store[Name(ops[j].tgt)], Ends(s)))
<1> DEFINE err == fails \/ ~Live(EngineHandle(s))
<1>1. /\ More(s) /\ Cur(s).op = "WRITE" /\ (plan.engine = "direct" => err)
      /\ store' = IF err THEN store ELSE Grown(handles[EngineHandle(s)], Cur(s).off + Cur(s).len)
      /\ Moved(s, IF err THEN 0 ELSE Cur(s).len, ~err,
           IF Live(EngineHandle(s)) THEN handles[EngineHandle(s)] ELSE None)
  BY DEF Write, Dispatching
<1>2. At(s) \in Indices("WRITE") /\ Cur(s) = ops[At(s)] /\ ops[At(s)].s = s
  BY <1>1, NextOp DEF Cur, Indices
<1>3. Reach(At(s)) /\ ops[At(s)].op = "WRITE"
  BY <1>2 DEF Recording, Transfers, Indices
<1>4. Ends(s) \in Nat /\ Ends(s) = End(At(s))
  BY <1>2, <1>3 DEF Reach, Ends, End, Transferred
<1>5. ASSUME ~err
      PROVE  \E j \in Opens :
               /\ ops[j].h = Cur(s).h /\ ops[j].s = s /\ TargetOf(Cur(s).h) = ops[j].tgt /\ ops[j].tgt \in Table
               /\ handles[EngineHandle(s)] = Name(ops[j].tgt) /\ Exists(Name(ops[j].tgt))
               /\ store' = Sized(Name(ops[j].tgt), Longer(store[Name(ops[j].tgt)], Ends(s)))
  <2>1. PICK j \in Opens :
           /\ ops[j].h = Cur(s).h /\ ops[j].s = s
           /\ TargetOf(Cur(s).h) = ops[j].tgt /\ ops[j].tgt \in Table
           /\ handles[EngineHandle(s)] = Name(ops[j].tgt)
           /\ IF ObjectAPI(plan.engine) THEN ops[j].mode = "r" ELSE Exists(Name(ops[j].tgt))
           /\ Cur(s).op = "WRITE" => ops[j].mode # "r"
    <3>1. Cur(s).op # "OPEN" /\ Live(EngineHandle(s))
      BY <1>1, <1>5
    <3> QED BY <1>1, <3>1, LiveUse
  <2>2. Exists(Name(ops[j].tgt))
    BY <1>1, <2>1
  <2>3. store' = Sized(Name(ops[j].tgt), Longer(store[Name(ops[j].tgt)], Ends(s)))
    BY <1>1, <1>5, <2>1 DEF Grown, Ends
  <2> QED BY <2>1, <2>2, <2>3
<1> QED BY <1>1, <1>2, <1>4, <1>5

(* A direct write in progress is on the file of its OPEN.                     *)
LEMMA DirectUse ==
  ASSUME HandleInv, Recording, NEW s \in Streams, DirectInv(s), dio[s] # Idle
  PROVE  /\ At(s) \in Indices("WRITE") /\ Cur(s) = ops[At(s)] /\ ops[At(s)].s = s
         /\ Ends(s) \in Nat /\ Ends(s) = End(At(s)) /\ At(s) \notin DOMAIN got
         /\ \E j \in Opens :
              /\ ops[j].h = Cur(s).h /\ ops[j].s = s /\ TargetOf(Cur(s).h) = ops[j].tgt /\ ops[j].tgt \in Table
              /\ dio[s].name = Name(ops[j].tgt)
<1>1. More(s) /\ Cur(s).op = "WRITE" /\ dio[s].name = Name(TargetOf(Cur(s).h))
  BY DEF HandleInv, Direct, DirectInv
<1>2. At(s) \in Indices("WRITE") /\ At(s) \in DOMAIN ops /\ Cur(s) = ops[At(s)] /\ ops[At(s)].s = s
        /\ At(s) \notin DOMAIN got
  BY <1>1, NextOp DEF Cur, Indices
<1>3. Reach(At(s)) /\ ops[At(s)].op = "WRITE"
  BY <1>2 DEF Recording, Transfers, Indices
<1>4. Ends(s) \in Nat /\ Ends(s) = End(At(s))
  BY <1>2, <1>3 DEF Reach, Ends, End, Transferred
<1>5. PICK j \in Opens : ops[j].h = Cur(s).h /\ ops[j].s = s /\ TargetOf(Cur(s).h) = ops[j].tgt
  BY <1>2, <1>3, UseFound DEF HandleInv, Recording
<1>6. ops[j].tgt \in Table
  BY DEF Table, Opens
<1> QED BY <1>1, <1>2, <1>4, <1>5, <1>6

LEMMA DirectStores ==
  ASSUME HandleInv, Recording, Stored, NEW s \in Streams, DirectInv(s), DirectWrite(s) \/ DirectCut(s)
  PROVE  /\ dio[s] # Idle /\ Exists(dio[s].name) /\ store[dio[s].name] \in Nat /\ dio[s].orig \in Nat
         /\ \E size \in Nat : store' = store \/ store' = Sized(dio[s].name, size)
<1>1. dio[s] # Idle
  BY DEF DirectWrite, DirectCut
<1>2. Exists(dio[s].name) /\ store[dio[s].name] \in Nat /\ dio[s].orig \in Nat
  BY <1>1 DEF DirectInv, Stored, Exists
<1>3. Ends(s) \in Nat
  BY <1>1, DirectUse
<1>4. CASE DirectWrite(s)
  <2>1. store' = Sized(dio[s].name, Longer(store[dio[s].name], AlignUp(Ends(s))))
    BY <1>4 DEF DirectWrite, BlocksWritten, Grown, Ends
  <2> QED BY <1>1, <1>2, <1>3, <2>1, AlignUpRaises, LongerOf
<1>5. CASE DirectCut(s)
  <2>1. store' = store \/ store' = Sized(dio[s].name, Longer(dio[s].orig, Ends(s)))
    BY <1>5 DEF DirectCut, Cut, Ends
  <2> QED BY <1>1, <1>2, <1>3, <2>1, LongerOf
<1> QED BY <1>4, <1>5

LEMMA ReplayingStores ==
  ASSUME HandleInv, Recording, Stored, Handed, \A s \in Streams : DirectInv(s), Replaying
  PROVE  Stored'
<1>1. PICK s \in Streams :
        \/ DirectStat(s) \/ DirectWrite(s) \/ DirectCut(s) \/ DirectFails(s)
        \/ \E fails \in BOOLEAN : Open(s, fails) \/ Read(s, fails) \/ Write(s, fails)
                                    \/ Fsync(s, fails) \/ Close(s, fails)
  BY ReplayedBy
<1>2. UNCHANGED Past /\ phase' = "replaying"
  BY ReplayedFixed
<1>3. CASE store' = store
  BY <1>2, <1>3, StoredSame
<1>4. ASSUME NEW fails \in BOOLEAN, Open(s, fails) PROVE Stored'
  <2>1. PICK size \in Nat : store' = store \/ store' = Sized(Name(Cur(s).tgt), size)
    BY <1>4, OpenStores
  <2>2. Cur(s).tgt \in Table
    BY <1>4, OpenStores
  <2> QED BY <1>2, <2>1, <2>2, StoredSized
<1>5. ASSUME NEW fails \in BOOLEAN, Write(s, fails) PROVE Stored'
  <2>1. CASE store' # store
    <3>1. PICK j \in Opens : /\ ops[j].tgt \in Table /\ Exists(Name(ops[j].tgt))
                             /\ store' = Sized(Name(ops[j].tgt), Longer(store[Name(ops[j].tgt)], Ends(s)))
      BY <1>5, <2>1, WriteStores
    <3>2. store[Name(ops[j].tgt)] \in Nat /\ Ends(s) \in Nat
      BY <1>5, <3>1, WriteStores DEF Stored, Exists
    <3>3. Longer(store[Name(ops[j].tgt)], Ends(s)) \in Nat
      BY <3>2, LongerOf
    <3> QED BY <1>2, <3>1, <3>3, StoredSized
  <2> QED BY <1>3, <2>1
<1>6. CASE DirectWrite(s) \/ DirectCut(s)
  <2>1. PICK size \in Nat : store' = store \/ store' = Sized(dio[s].name, size)
    BY <1>6, DirectStores
  <2>2. dio[s] # Idle
    BY <1>6, DirectStores
  <2>3. PICK j \in Opens : ops[j].tgt \in Table /\ dio[s].name = Name(ops[j].tgt)
    BY <2>2, DirectUse
  <2>4. store' = store \/ store' = Sized(Name(ops[j].tgt), size)
    BY <2>1, <2>3
  <2> QED BY <1>2, <2>3, <2>4, StoredSized
<1>7. ASSUME NEW fails \in BOOLEAN, Read(s, fails) \/ Fsync(s, fails) \/ Close(s, fails) PROVE store' = store
  BY <1>7 DEF Read, Fsync, Close
<1>8. CASE DirectStat(s) \/ DirectFails(s)
  BY <1>3, <1>8 DEF DirectStat, DirectFails
<1> QED BY <1>1, <1>3, <1>4, <1>5, <1>6, <1>7, <1>8

LEMMA StoredStep ==
  ASSUME HandleInv, Recording, Sizing, Stored, Handed, \A s \in Streams : DirectInv(s), [Next]_dataVars
  PROVE  Stored'
<1>1. CASE Capturing
  <2>1. PICK op : Recorded(op)
    <3>1. PICK s \in Streams, c \in plan.calls :
            \/ \E t \in Targets : SourceOpen(s, t, c)
            \/ \E h \in Held(s) : SourceRead(s, h, c) \/ SourceWrite(s, h, c) \/ SourceUse(s, h, c)
      BY <1>1, Zenon DEF Capturing
    <3> QED BY <3>1, Zenon DEF SourceOpen, SourceRead, SourceWrite, SourceUse
  <2>2. store' = store /\ phase' = "capture" /\ plan' = plan
    BY <2>1 DEF Recorded
  <2>3. Table \subseteq Table'
    <3>1. /\ \A i \in DOMAIN ops : ops'[i] = ops[i]
          /\ \A kind : Indices(kind) \subseteq Indices(kind)'
      BY <2>1, Appended DEF HandleInv, OpensUnique
    <3> QED BY <3>1 DEF Table, Indices
  <2>4. \A t : Name(t)' = Name(t)
    <3>1. \A t : Matching(t)' = Matching(t)
      BY <2>2 DEF Matching
    <3>2. \A t : Best(t)' = Best(t)
      BY <2>2, <3>1 DEF Best
    <3> QED BY <2>2, <3>1, <3>2 DEF Name
  <2> QED BY <2>2, <2>3, <2>4 DEF Stored
<1>2. CASE PreparingStep
  BY <1>2, PreparingStores
<1>3. CASE PrimingStep
  BY <1>3, PrimingStores
<1>4. CASE Replaying
  BY <1>4, ReplayingStores
<1>5. CASE CaptureEnds \/ Over
  BY <1>5, StoredSame DEF CaptureEnds, Over, JobUnchanged, TraceVars, Past
<1>6. CASE Load
  BY <1>6, StoredSame DEF Load, TraceVars, Past, Sizing, NoJob
<1>7. CASE Cancel \/ Done \/ UNCHANGED dataVars
  BY <1>7, StoredSame DEF Cancel, Done, dataVars, JobUnchanged, TraceVars, Past
<1>8. ASSUME NEW m, Again(m) PROVE Stored'
  <2>1. Table' = Table /\ \A t : Name(t)' = Name(t)
    BY <1>8, PastFixed DEF Again, TraceVars, Past
  <2>2. store' = store \/ store' = <<>>
    BY <1>8 DEF Again
  <2>3. job'.h = None
    BY <1>8 DEF Again, NoJob
  <2> QED BY <2>1, <2>2, <2>3 DEF Stored
<1> QED BY <1>1, <1>2, <1>3, <1>4, <1>5, <1>6, <1>7, <1>8 DEF Next

-----------------------------------------------------------------------------
(* What is said of a replay's plan does not change in it either.              *)
LEMMA RunFixed ==
  ASSUME UNCHANGED Past, mode' = mode
  PROVE  /\ Ample' = Ample /\ Reproducible' = Reproducible /\ \A t : Bound(t)' = Bound(t)
         /\ (faulted => faulted') => \A t : Tight(t)' => Tight(t)
<1>1. /\ Opens' = Opens /\ Table' = Table /\ Truncated' = Truncated /\ Distinct' = Distinct
      /\ \A n : Private(n)' = Private(n)
      /\ \A t : Name(t)' = Name(t) /\ Needed(t)' = Needed(t)
      /\ \A g : TargetOf(g)' = TargetOf(g)
      /\ \A i : End(i)' = End(i)
  BY PastFixed
<1>2. Ample' = Ample
  BY <1>1 DEF Ample, Past
<1>3. \A t : Bound(t)' = Bound(t)
  BY <1>1 DEF Bound, Past
<1>4. Reproducible' = Reproducible
  <2>1. \A i \in Indices("READ") : (End(i) = source[TargetOf(ops[i].h)])' = (End(i) = source[TargetOf(ops[i].h)])
    BY <1>1 DEF Past
  <2>2. Indices("READ")' = Indices("READ") /\ Indices("OPEN")' = Indices("OPEN")
    BY DEF Past, Indices
  <2>3. \A t \in Table : Private(Name(t))' = Private(Name(t))
    BY <1>1
  <2> QED BY <1>1, <2>1, <2>2, <2>3 DEF Past, Reproducible
<1>5. ASSUME faulted => faulted', NEW t, Tight(t)' PROVE Tight(t)
  <2>1. Private(Name(t))' = Private(Name(t))
    BY <1>1
  <2> QED BY <1>1, <1>2, <1>3, <1>5, <2>1 DEF Tight, Past
<1> QED BY <1>2, <1>3, <1>4, <1>5

Streamed == InOrder /\ Handed /\ Lasting /\ Faithful /\ \A s \in Streams : DirectInv(s)

(* Before the replay there is nothing to say of the streams.                  *)
LEMMA Quiet ==
  ASSUME DOMAIN got' = {}, \A s \in Streams : DOMAIN hmap'[s] = {} /\ dio'[s] = Idle
  PROVE  Streamed'
<1>1. InOrder' /\ Lasting' /\ Faithful'
  BY DEF InOrder, Lasting, Faithful
<1>2. Handed'
  BY DEF Handed
<1>3. \A s \in Streams : DirectInv(s)'
  BY DEF DirectInv
<1> QED BY <1>1, <1>2, <1>3 DEF Streamed

LEMMA Unstarted ==
  ASSUME HandleInv', phase' \notin {"priming", "replaying", "over"}
  PROVE  Streamed' /\ Stock'
<1>1. DOMAIN got' = {} /\ \A s \in Streams : DOMAIN hmap'[s] = {} /\ dio'[s] = Idle
  BY DEF HandleInv, Places, Direct
<1> QED BY <1>1, Quiet DEF Stock

(* An operation is the one a stream is at until it is issued.                 *)
LEMMA Staying ==
  ASSUME ops' = ops, NEW s, \A i : ops[i].s = s => (i \in DOMAIN got' <=> i \in DOMAIN got)
  PROVE  At(s)' = At(s) /\ More(s)' = More(s) /\ Cur(s)' = Cur(s) /\ Ends(s)' = Ends(s)
<1>1. Pending(s)' = Pending(s)
  BY DEF Pending
<1>2. At(s)' = At(s) /\ More(s)' = More(s)
  BY <1>1 DEF At, More
<1>3. Cur(s)' = Cur(s)
  BY <1>2 DEF Cur
<1> QED BY <1>2, <1>3 DEF Ends

(* The files stay as they are while no stream moves.                          *)
LEMMA StockSame ==
  ASSUME Stock, UNCHANGED Past, UNCHANGED <<mode, dio, got>>, faulted => faulted',
         plan.engine # "mem" /\ Distinct => store' = store,
         phase' \in {"priming", "replaying", "over"} => phase \in {"priming", "replaying", "over"}
  PROVE  Stock'
<1>1. /\ Table' = Table /\ Truncated' = Truncated /\ Distinct' = Distinct
      /\ \A t : Name(t)' = Name(t) /\ Needed(t)' = Needed(t) /\ OpsOn(t)' = OpsOn(t)
      /\ \A i : End(i)' = End(i)
      /\ ops' = ops /\ plan' = plan
  BY PastFixed DEF Past
<1>2. /\ Ample' = Ample /\ \A t : Bound(t)' = Bound(t)
      /\ \A t : Tight(t)' => Tight(t)
  BY RunFixed
<1>3. \A s : Ends(s)' = Ends(s)
  BY Staying, <1>1
<1> SUFFICES ASSUME phase' \in {"priming", "replaying", "over"}, plan.engine # "mem", Distinct, NEW t \in Table
             PROVE  Stocked(t)'
  BY <1>1 DEF Stock
<1>4. Stocked(t) /\ store' = store
  BY DEF Stock
<1>5. AtMost(t, store[Name(t)])' = AtMost(t, store[Name(t)])
  BY <1>1, <1>2, <1>3, <1>4 DEF AtMost, Cutting
<1>6. Exists(Name(t))' = Exists(Name(t)) /\ store[Name(t)]' = store[Name(t)]
  BY <1>1, <1>4 DEF Exists
<1> QED BY <1>1, <1>2, <1>4, <1>5, <1>6 DEF Stocked

(* Nothing happens to the streams.                                            *)
LEMMA Still ==
  ASSUME Streamed, Stock, HandleInv', UNCHANGED Past,
         UNCHANGED <<mode, store, handles, hmap, dio, got, faulted>>, cancelled => cancelled',
         phase' \in {"priming", "replaying", "over"} => phase \in {"priming", "replaying", "over"}
  PROVE  Streamed' /\ Stock'
<1>1. /\ Opens' = Opens /\ Table' = Table /\ Truncated' = Truncated /\ Distinct' = Distinct
      /\ \A n : Private(n)' = Private(n)
      /\ \A t : Name(t)' = Name(t) /\ Needed(t)' = Needed(t) /\ OpsOn(t)' = OpsOn(t)
      /\ \A g : TargetOf(g)' = TargetOf(g) /\ OpenOf(g)' = OpenOf(g)
      /\ \A i : End(i)' = End(i)
      /\ ops' = ops /\ plan' = plan
  BY PastFixed DEF Past
<1>2. /\ Ample' = Ample /\ Reproducible' = Reproducible /\ \A t : Bound(t)' = Bound(t)
      /\ \A t : Tight(t)' => Tight(t)
  BY RunFixed
<1>3. \A s : Cur(s)' = Cur(s) /\ Ends(s)' = Ends(s)
  BY Staying, <1>1
<1>4. InOrder'
  BY <1>1 DEF Streamed, InOrder
<1>5. Handed'
  BY <1>1 DEF Streamed, Handed, Exists
<1>6. Lasting'
  <2>1. \A i : Name(TargetOf(ops[i].h))' = Name(TargetOf(ops[i].h))
          /\ Private(got[i].name)' = Private(got[i].name)
    BY <1>1
  <2> QED BY <1>1, <2>1 DEF Streamed, Lasting, Exists
<1>7. Faithful'
  BY <1>1, <1>2 DEF Streamed, Faithful, Faultless, Usable, Live, Transferred
<1>8. ASSUME NEW s \in Streams PROVE DirectInv(s)'
  <2>1. dio'[s] # Idle => phase' = "replaying"
    BY DEF HandleInv, Direct
  <2>2. Name(TargetOf(Cur(s).h))' = Name(TargetOf(Cur(s).h))
    BY <1>1, <1>3
  <2>3. \A i : Finished(i, dio[s].name)' = Finished(i, dio[s].name)
    BY <1>1 DEF Finished
  <2>4. Private(dio[s].name)' = Private(dio[s].name) /\ Exists(dio[s].name)' = Exists(dio[s].name)
    BY <1>1 DEF Exists
  <2> QED BY <1>1, <1>2, <1>3, <2>1, <2>2, <2>3, <2>4 DEF Streamed, DirectInv
<1>9. Stock'
  BY StockSame
<1> QED BY <1>4, <1>5, <1>6, <1>7, <1>8, <1>9 DEF Streamed

-----------------------------------------------------------------------------
(* What a replay or its priming starts with.                                  *)
LEMMA AllReady ==
  ASSUME HandleInv, Recording, Sizing, phase = "preparing", job.tgt \notin Table, Distinct,
         plan.engine # "mem", NEW t \in Table
  PROVE  Ready(t)
<1>1. t < job.tgt
  <2>1. PICK k \in Nat : Table = 0..(k - 1)
    BY TargetNumbers
  <2>2. job.tgt \in Nat
    BY DEF Sizing
  <2> QED BY <2>1, <2>2
<1> QED BY <1>1 DEF Sizing

LEMMA ReadyStocked ==
  ASSUME HandleInv, Recording, Modes, Stored, NEW t \in Table, Ready(t)
  PROVE  Stocked(t)
<1>1. Exists(Name(t)) /\ Fits(t, store[Name(t)]) /\ store[Name(t)] \in Nat
  BY DEF Ready, Stored, Exists
<1>2. source[t] \in Nat /\ Declared(t) \in Nat
  BY TargetNumbers
<1>3. /\ Bound(t) \in Nat
      /\ ~Truncated => \A i \in OpsOn(t) : End(i) \in Nat /\ End(i) <= Bound(t) /\ End(i) <= source[t]
  BY Bounded
<1>4. Ample => store[Name(t)] = Bound(t) \/ (source[t] = 0 /\ mode = "existing")
  <2>1. CASE mode = "synthetic"
    BY <1>1, <2>1 DEF Fits, Bound
  <2>2. CASE mode = "source"
    BY <1>1, <2>2 DEF Fits, Bound
  <2>3. CASE mode = "existing"
    BY <1>1, <1>2, <2>3 DEF Fits, Bound, Ample, Declared
  <2> QED BY <2>1, <2>2, <2>3 DEF Modes
<1>5. Ample /\ ~Truncated => \A i \in OpsOn(t) : End(i) <= store[Name(t)]
  BY <1>1, <1>3, <1>4
<1>6. Tight(t) => store[Name(t)] <= Bound(t)
  BY <1>1, <1>3, <1>4 DEF Tight, Bound
<1>7. mode = "synthetic" => Needed(t) > 0
  BY <1>1 DEF Fits
<1> QED BY <1>1, <1>5, <1>6, <1>7 DEF Stocked, AtMost

LEMMA PreparedPasses ==
  ASSUME HandleInv, HandleInv', Recording, Sizing, Modes, Stored, Prepared
  PROVE  Streamed' /\ Stock'
<1>1. /\ UNCHANGED Past /\ UNCHANGED <<mode, hmap, dio, got, store, faulted>>
      /\ phase = "preparing" /\ job.tgt \notin Table
  BY DEF Prepared, JobUnchanged, TraceVars, ReplayVars, Past
<1>2. DOMAIN got' = {} /\ \A s \in Streams : DOMAIN hmap'[s] = {} /\ dio'[s] = Idle
  BY <1>1 DEF HandleInv, Places, Direct
<1>3. Streamed'
  BY <1>2, Quiet
<1>4. /\ Table' = Table /\ Truncated' = Truncated /\ Distinct' = Distinct
      /\ \A t : Name(t)' = Name(t) /\ Needed(t)' = Needed(t) /\ OpsOn(t)' = OpsOn(t)
      /\ \A i : End(i)' = End(i)
      /\ plan' = plan
  BY <1>1, PastFixed DEF Past
<1>5. /\ Ample' = Ample /\ \A t : Bound(t)' = Bound(t)
      /\ \A t : Tight(t)' => Tight(t)
  BY <1>1, RunFixed
<1>6. ASSUME plan.engine # "mem", Distinct, NEW t \in Table PROVE Stocked(t)'
  <2>1. Stocked(t) /\ (Tight(t) => store[Name(t)] <= Bound(t))
    <3>1. Stocked(t)
      BY <1>1, <1>6, AllReady, ReadyStocked
    <3>2. \A s \in Streams : dio[s] = Idle
      BY <1>1 DEF HandleInv, Direct
    <3> QED BY <3>1, <3>2 DEF Stocked, AtMost, Cutting
  <2>2. Exists(Name(t))' = Exists(Name(t)) /\ store[Name(t)]' = store[Name(t)]
    BY <1>1, <1>4 DEF Exists
  <2>3. store[Name(t)] <= Bound(t) => AtMost(t, store[Name(t)])'
    BY <1>1, <1>4, <1>5 DEF AtMost
  <2> QED BY <1>1, <1>4, <1>5, <2>1, <2>2, <2>3 DEF Stocked
<1>7. Stock'
  BY <1>4, <1>6 DEF Stock
<1> QED BY <1>3, <1>7

LEMMA PrimingPasses ==
  ASSUME HandleInv, HandleInv', Stock, PrimingStep
  PROVE  Streamed' /\ Stock'
<1>1. /\ UNCHANGED Past /\ UNCHANGED <<mode, hmap, dio, got>> /\ (faulted => faulted')
      /\ phase = "priming" /\ phase' \in {"priming", "replaying"}
  <2>1. CASE Primed
    BY <2>1 DEF Primed, JobUnchanged, TraceVars, ReplayVars, Past
  <2>2. ASSUME NEW fails, Priming, PrimeOpen(Name(job.tgt), fails)
        PROVE  PrimeUnchanged /\ (faulted => faulted')
    BY <2>2, Zenon DEF PrimeOpen
  <2>3. ASSUME NEW fails, Priming, PrimeRead(fails)
        PROVE  PrimeUnchanged /\ (faulted => faulted')
    BY <2>3, Zenon DEF PrimeRead
  <2>4. ASSUME NEW n, Priming, PrimeObject(Name(job.tgt), n)
        PROVE  PrimeUnchanged /\ (faulted => faulted')
    BY <2>4, Zenon DEF PrimeObject
  <2>5. ASSUME PrimeUnchanged, Priming
        PROVE  /\ UNCHANGED Past /\ UNCHANGED <<mode, hmap, dio, got>>
               /\ phase = "priming" /\ phase' = "priming"
    BY <2>5 DEF Priming, PrimeUnchanged, JobUnchanged, TraceVars, ReplayVars, Past
  <2> QED BY <2>1, <2>2, <2>3, <2>4, <2>5 DEF PrimingStep
<1>2. DOMAIN got' = {} /\ \A s \in Streams : DOMAIN hmap'[s] = {} /\ dio'[s] = Idle
  BY <1>1 DEF HandleInv, Places, Direct
<1>3. Streamed'
  BY <1>2, Quiet
<1>4. ASSUME plan.engine # "mem", Distinct PROVE store' = store
  <2>1. ASSUME Priming, NEW fails \in BOOLEAN, PrimeOpen(Name(job.tgt), fails) PROVE store' = store
    <3>1. Exists(Name(job.tgt))
      BY <1>1, <1>4, <2>1 DEF Stock, Stocked, Priming
    <3>2. store' = store \/ store' = OpenedStore(plan.engine, Name(job.tgt), FALSE, MemSize(Name(job.tgt)))
      BY <2>1 DEF PrimeOpen
    <3> QED BY <3>1, <3>2 DEF OpenedStore
  <2> QED BY <2>1 DEF PrimingStep, Primed, PrimeRead, PrimeObject
<1> QED BY <1>1, <1>3, <1>4, StockSame

(* Steps outside the replay.                                                  *)
LEMMA ControlPasses ==
  ASSUME HandleInv, HandleInv', Recording, Sizing, Modes, Stored, Streamed, Stock,
         Capturing \/ CaptureEnds \/ Load \/ PreparingStep \/ PrimingStep \/ Over \/ Cancel \/ Done
         \/ (\E m \in plan.modes : Again(m)) \/ UNCHANGED dataVars
  PROVE  Streamed' /\ Stock'
<1>1. CASE Capturing
  <2>1. PICK op : Recorded(op)
    <3>1. PICK s \in Streams, c \in plan.calls :
            \/ \E t \in Targets : SourceOpen(s, t, c)
            \/ \E h \in Held(s) : SourceRead(s, h, c) \/ SourceWrite(s, h, c) \/ SourceUse(s, h, c)
      BY <1>1, Zenon DEF Capturing
    <3> QED BY <3>1, Zenon DEF SourceOpen, SourceRead, SourceWrite, SourceUse
  <2>2. phase' = "capture"
    BY <2>1 DEF Recorded
  <2> QED BY <2>2, Unstarted
<1>2. CASE CaptureEnds \/ Load \/ \E m \in plan.modes : Again(m)
  <2>1. phase' \in {"loading", "refused", "preparing"}
    BY <1>2 DEF CaptureEnds, Load, Again
  <2> QED BY <2>1, Unstarted
<1>3. CASE PreparingStep
  <2>1. CASE Prepared
    BY <2>1, PreparedPasses
  <2>2. CASE ~Prepared
    <3>1. phase' \in {"preparing", "failed"}
      BY <1>3, <2>2 DEF PreparingStep, PrepareCancelled, SizeUnknown, StopWriting, Verify, PutTarget,
         OpenTarget, FinishTarget, WriteChunk, PrepareOver
    <3> QED BY <3>1, Unstarted
  <2> QED BY <2>1, <2>2
<1>4. CASE PrimingStep
  BY <1>4, PrimingPasses
<1>5. CASE Over \/ Cancel \/ Done \/ UNCHANGED dataVars
  BY <1>5, Still DEF Over, Cancel, Done, dataVars, JobUnchanged, TraceVars, ReplayVars, Past
<1> QED BY <1>1, <1>2, <1>3, <1>4, <1>5

-----------------------------------------------------------------------------
(* Issuing an operation.                                                      *)
LEMMA MovedOn ==
  ASSUME HandleInv, InOrder, NEW s \in Streams, More(s), ops' = ops, NEW n, NEW ok, NEW name, Moved(s, n,
           ok, name)
  PROVE  /\ At(s) \in DOMAIN ops /\ ops[At(s)].s = s /\ At(s) \notin DOMAIN got /\ Cur(s) = ops[At(s)]
         /\ DOMAIN got' = DOMAIN got \cup {At(s)}
         /\ got'[At(s)].n = n /\ got'[At(s)].ok = ok /\ got'[At(s)].name = name
         /\ \A i \in DOMAIN got : got'[i] = got[i]
         /\ \A j \in DOMAIN ops : ops[j].s = s /\ j < At(s) => j \in DOMAIN got
         /\ InOrder'
         /\ \A t : t # s => At(t)' = At(t) /\ More(t)' = More(t) /\ Cur(t)' = Cur(t) /\ Ends(t)' = Ends(t)
<1>1. At(s) \in DOMAIN ops /\ ops[At(s)].s = s /\ At(s) \notin DOMAIN got /\ Cur(s) = ops[At(s)]
  BY NextOp DEF Cur
<1>2. /\ DOMAIN got' = DOMAIN got \cup {At(s)}
      /\ got'[At(s)].n = n /\ got'[At(s)].ok = ok /\ got'[At(s)].name = name
      /\ \A i \in DOMAIN got : got'[i] = got[i]
  BY <1>1 DEF Moved
<1>3. \A j \in Pending(s) : At(s) <= j
  BY DEF More, At, Min
<1>4. PICK S : ops \in Seq(S)
  BY DEF HandleInv, OpensUnique, IsSeq
<1>5. \A i \in DOMAIN ops : i \in Nat
  BY <1>4
<1>6. \A j \in DOMAIN ops : ops[j].s = s /\ j < At(s) => j \in DOMAIN got
  BY <1>1, <1>3, <1>5 DEF Pending
<1>7. InOrder'
  BY <1>1, <1>2, <1>6 DEF InOrder
<1>8. ASSUME NEW t, t # s
      PROVE  At(t)' = At(t) /\ More(t)' = More(t) /\ Cur(t)' = Cur(t) /\ Ends(t)' = Ends(t)
  <2>1. \A i : ops[i].s = t => (i \in DOMAIN got' <=> i \in DOMAIN got)
    BY <1>1, <1>2, <1>8
  <2> QED BY <2>1, Staying
<1> QED BY <1>1, <1>2, <1>6, <1>7, <1>8

(* No file gets shorter.                                                      *)
Raised == \A n \in DOMAIN store : n \in DOMAIN store' /\ (~Truncated => store[n] <= store'[n])

(* What is known of a direct write in progress stays known.                   *)
LEMMA DirectKept ==
  ASSUME UNCHANGED Past, mode' = mode, phase' = "replaying", faulted => faulted',
         NEW t, DirectInv(t), dio[t] # Idle, dio'[t] = dio[t], Cur(t)' = Cur(t), Exists(dio[t].name)',
         Private(dio[t].name) /\ ~Truncated =>
           /\ \A i : Finished(i, dio[t].name)' => Finished(i, dio[t].name)
           /\ dio[t].step = "written" => Ends(t) <= store'[dio[t].name]
  PROVE  DirectInv(t)'
<1> DEFINE d == dio[t]
<1>1. /\ Table' = Table /\ Truncated' = Truncated
      /\ \A m : Private(m)' = Private(m)
      /\ \A u : Name(u)' = Name(u) /\ OpsOn(u)' = OpsOn(u)
      /\ \A g : TargetOf(g)' = TargetOf(g)
      /\ \A i : End(i)' = End(i)
      /\ plan' = plan
  BY PastFixed DEF Past
<1>2. /\ Ample' = Ample /\ \A u : Bound(u)' = Bound(u)
      /\ \A u : Tight(u)' => Tight(u)
  BY RunFixed
<1>3. /\ plan.engine = "direct" /\ d.step \in {"read", "written"} /\ d.orig \in Nat
      /\ DOMAIN d = {"step", "orig", "name"} /\ d.name = Name(TargetOf(Cur(t).h))
  BY DEF DirectInv
<1>4. dio'[t] = d /\ d' = d
  OBVIOUS
<1>5. (d.name = Name(TargetOf(Cur(t).h)))'
  <2>1. Name(TargetOf(Cur(t).h))' = Name(TargetOf(Cur(t).h))
    BY <1>1
  <2> QED BY <1>3, <1>4, <2>1
<1>6. Ends(t)' = Ends(t) /\ Private(d.name)' = Private(d.name)
  BY <1>1 DEF Ends
<1>7. (Private(d.name) /\ ~Truncated =>
         /\ \A i \in DOMAIN got : Finished(i, d.name) => End(i) <= d.orig
         /\ d.step = "written" => Ends(t) <= store[d.name])'
  <2> SUFFICES ASSUME Private(d.name), ~Truncated
               PROVE  /\ \A i \in DOMAIN got' : Finished(i, d.name)' => End(i) <= d.orig
                      /\ d.step = "written" => Ends(t) <= store'[d.name]
    BY <1>1, <1>4, <1>6
  <2>1. \A i \in DOMAIN got : Finished(i, d.name) => End(i) <= d.orig
    BY DEF DirectInv
  <2>2. \A i : Finished(i, d.name)' => Finished(i, d.name)
    OBVIOUS
  <2> QED BY <2>1, <2>2 DEF Finished
<1>8. (\A u \in Table : Name(u) = d.name =>
         /\ Ample /\ ~Truncated => \A i \in OpsOn(u) : End(i) <= d.orig
         /\ Tight(u) => d.orig <= Bound(u))'
  <2>1. \A u \in Table : Name(u) = d.name =>
          /\ Ample /\ ~Truncated => \A i \in OpsOn(u) : End(i) <= d.orig
          /\ Tight(u) => d.orig <= Bound(u)
    BY DEF DirectInv
  <2> QED BY <1>1, <1>2, <1>4, <2>1
<1> HIDE DEF d
<1>9. dio[t] = d /\ dio'[t] = d'
  BY DEF d
<1> QED BY <1>1, <1>3, <1>4, <1>5, <1>7, <1>8, <1>9 DEF DirectInv, d

(* An operation that is issued and answered in one step.                      *)
LEMMA Dispatched ==
  ASSUME HandleInv, Recording, Stored, Stored', InOrder, Lasting, Stock, \A t \in Streams : DirectInv(t),
         UNCHANGED Past, mode' = mode, phase = "replaying", phase' = "replaying", faulted => faulted',
         NEW s \in Streams, dio' = dio, dio[s] = Idle, More(s),
         NEW n, NEW ok, NEW name, Moved(s, n, ok, name), Raised,
         Cur(s).op = "WRITE" /\ ok =>
           /\ plan.engine # "direct" /\ name = Name(TargetOf(Cur(s).h)) /\ name \in DOMAIN store'
           /\ ~Truncated => End(At(s)) <= store'[name],
         Distinct /\ plan.engine # "mem" /\ ~Truncated =>
           \A t \in Table : store'[Name(t)] <= Longer(store[Name(t)], Bound(t))
  PROVE  InOrder' /\ Stock' /\ Lasting' /\ \A t \in Streams : DirectInv(t)'
<1>1. /\ Opens' = Opens /\ Table' = Table /\ Truncated' = Truncated /\ Distinct' = Distinct
      /\ \A m : Private(m)' = Private(m)
      /\ \A t : Name(t)' = Name(t) /\ Needed(t)' = Needed(t) /\ OpsOn(t)' = OpsOn(t)
      /\ \A g : TargetOf(g)' = TargetOf(g)
      /\ \A i : End(i)' = End(i)
      /\ ops' = ops /\ plan' = plan
  BY PastFixed DEF Past
<1>2. /\ Ample' = Ample /\ \A t : Bound(t)' = Bound(t)
      /\ \A t : Tight(t)' => Tight(t)
  BY RunFixed
<1>3. /\ At(s) \in DOMAIN ops /\ ops[At(s)].s = s /\ At(s) \notin DOMAIN got /\ Cur(s) = ops[At(s)]
      /\ DOMAIN got' = DOMAIN got \cup {At(s)}
      /\ got'[At(s)].ok = ok /\ got'[At(s)].name = name
      /\ \A i \in DOMAIN got : got'[i] = got[i]
      /\ InOrder'
      /\ \A t : t # s => Cur(t)' = Cur(t) /\ Ends(t)' = Ends(t)
  BY <1>1, MovedOn
<1>4. Lasting'
  <2> SUFFICES ASSUME ~Truncated, NEW i \in DOMAIN got', ops[i].op = "WRITE", got'[i].ok
               PROVE  /\ got'[i].name = Name(TargetOf(ops[i].h)) /\ got'[i].name \in DOMAIN store'
                      /\ plan.engine # "direct" \/ Private(got'[i].name) => End(i) <= store'[got'[i].name]
    <3>1. \A i : Name(TargetOf(ops[i].h))' = Name(TargetOf(ops[i].h))
            /\ Private(got[i].name)' = Private(got'[i].name)
      BY <1>1
    <3> QED BY <1>1, <3>1 DEF Lasting, Exists
  <2>1. CASE i \in DOMAIN got
    <3>1. /\ got[i].name = Name(TargetOf(ops[i].h)) /\ got[i].name \in DOMAIN store
          /\ plan.engine # "direct" \/ Private(got[i].name) => End(i) <= store[got[i].name]
      BY <1>3, <2>1 DEF Lasting, Exists
    <3>2. got[i].name \in DOMAIN store' /\ store[got[i].name] <= store'[got[i].name]
      BY <3>1 DEF Raised
    <3>3. store[got[i].name] \in Nat /\ store'[got[i].name] \in Nat /\ End(i) \in Nat
      <4>1. store[got[i].name] \in Nat /\ store'[got[i].name] \in Nat
        BY <3>1, <3>2 DEF Stored
      <4>2. i \in DOMAIN ops
        BY <2>1 DEF InOrder
      <4>3. Reach(i)
        BY <4>2 DEF Recording, Transfers, Indices
      <4> QED BY <4>1, <4>3, DatasetAssumption DEF Reach, End, Transferred
    <3> QED BY <1>3, <2>1, <3>1, <3>2, <3>3
  <2>2. CASE i = At(s)
    BY <1>3, <2>2
  <2> QED BY <1>3, <2>1, <2>2
<1>5. ASSUME NEW t \in Streams PROVE DirectInv(t)'
  <2>1. CASE dio[t] = Idle
    BY <2>1 DEF DirectInv
  <2>2. CASE dio[t] # Idle
    <3>1. DirectInv(t) /\ plan.engine = "direct" /\ t # s
      BY <2>2 DEF DirectInv
    <3>2. Ends(t)' = Ends(t) /\ Name(TargetOf(Cur(t).h))' = Name(TargetOf(Cur(t).h)) /\ Cur(t)' = Cur(t)
      BY <1>1, <1>3, <3>1
    <3>3. Ends(t) \in Nat
      BY <2>2, DirectUse
    <3>4. \A i : Finished(i, dio[t].name)' => Finished(i, dio[t].name)
      BY <1>1, <1>3, <3>1 DEF Finished
    <3>5. Exists(dio[t].name)' /\ (~Truncated => store[dio[t].name] <= store'[dio[t].name])
          /\ store[dio[t].name] \in Nat /\ store'[dio[t].name] \in Nat
      <4>1. dio[t].name \in DOMAIN store
        BY <2>2, <3>1 DEF DirectInv, Exists
      <4> QED BY <4>1 DEF Raised, Exists, Stored
    <3>6. dio[t].step = "written" /\ Private(dio[t].name) /\ ~Truncated => Ends(t) <= store'[dio[t].name]
      BY <2>2, <3>1, <3>3, <3>5 DEF DirectInv
    <3> QED BY <2>2, <3>1, <3>2, <3>4, <3>5, <3>6, DirectKept
  <2> QED BY <2>1, <2>2
<1>6. Stock'
  <2> SUFFICES ASSUME plan.engine # "mem", Distinct, NEW t \in Table
               PROVE  Stocked(t)'
    BY <1>1 DEF Stock
  <2>1. Stocked(t)
    BY DEF Stock
  <2> DEFINE m == Name(t)
  <2>2. m \in DOMAIN store /\ m \in DOMAIN store' /\ (~Truncated => store[m] <= store'[m])
        /\ store[m] \in Nat /\ store'[m] \in Nat
    <3>1. m \in DOMAIN store
      BY <2>1 DEF Stocked, Exists
    <3> QED BY <3>1 DEF Raised, Stored
  <2>3. Exists(Name(t))' /\ store[Name(t)]' = store'[m]
    BY <1>1, <2>2 DEF Exists
  <2>4. ~Truncated => \A i \in OpsOn(t) : End(i) \in Nat
    BY Bounded
  <2>5. Ample /\ ~Truncated => \A i \in OpsOn(t) : End(i) <= store'[m]
    BY <2>1, <2>2, <2>4 DEF Stocked
  <2>6. ASSUME Tight(t)' PROVE AtMost(t, store[Name(t)])'
    <3>1. Tight(t) /\ ~Truncated /\ AtMost(t, store[m])
      BY <1>2, <2>1, <2>6 DEF Stocked, Tight
    <3>2. store'[m] <= Longer(store[m], Bound(t)) /\ Bound(t) \in Nat
      BY <3>1, Bounded
    <3>3. CASE store[m] <= Bound(t)
      <4>1. store'[m] <= Bound(t)
        BY <2>2, <3>2, <3>3 DEF Longer
      <4> QED BY <1>2, <2>3, <4>1 DEF AtMost
    <3>4. ASSUME NEW r \in Streams, Cutting(r, m), store[m] <= Longer(Bound(t), AlignUp(Ends(r)))
          PROVE  AtMost(t, store[Name(t)])'
      <4>1. dio[r] # Idle /\ r # s /\ Ends(r)' = Ends(r) /\ Ends(r) \in Nat
        BY <1>3, <3>4, DirectUse DEF Cutting
      <4>2. AlignUp(Ends(r)) \in Nat
        BY <4>1, AlignUpRaises
      <4>3. store'[m] <= Longer(Bound(t), AlignUp(Ends(r)))
        BY <2>2, <3>2, <3>4, <4>2 DEF Longer
      <4>4. Cutting(r, Name(t))'
        BY <1>1, <3>4 DEF Cutting
      <4>5. AlignUp(Ends(r))' = AlignUp(Ends(r))
        BY <4>1 DEF AlignUp
      <4>6. (Longer(Bound(t), AlignUp(Ends(r))))' = Longer(Bound(t), AlignUp(Ends(r)))
        BY <1>2, <4>5 DEF Longer
      <4> QED BY <2>3, <4>3, <4>4, <4>6 DEF AtMost
    <3> QED BY <3>1, <3>3, <3>4 DEF AtMost
  <2> QED BY <1>1, <1>2, <2>1, <2>3, <2>5, <2>6 DEF Stocked
<1> QED BY <1>3, <1>4, <1>5, <1>6

-----------------------------------------------------------------------------
(* A replay is of a trace all of whose targets have names.                    *)
LEMMA NamedStep ==
  ASSUME Named, [Next]_dataVars
  PROVE  Named'
<1>1. ASSUME UNCHANGED Past, phase' \notin {"capture", "loading", "refused"} => phase \notin {"capture",
               "loading", "refused"}
      PROVE  Named'
  <2>1. Table' = Table /\ \A t : Name(t)' = Name(t)
    BY <1>1, PastFixed
  <2> QED BY <1>1, <2>1 DEF Named
<1>2. CASE Capturing
  <2>1. PICK op : Recorded(op)
    <3>1. PICK s \in Streams, c \in plan.calls :
            \/ \E t \in Targets : SourceOpen(s, t, c)
            \/ \E h \in Held(s) : SourceRead(s, h, c) \/ SourceWrite(s, h, c) \/ SourceUse(s, h, c)
      BY <1>2, Zenon DEF Capturing
    <3> QED BY <3>1, Zenon DEF SourceOpen, SourceRead, SourceWrite, SourceUse
  <2> QED BY <2>1 DEF Recorded, Named
<1>3. CASE Load
  <2>1. Table' = Table /\ \A t : Name(t)' = Name(t)
    BY <1>3, PastFixed DEF Load, TraceVars, Past
  <2>2. phase' # "refused" => ~Refused
    BY <1>3 DEF Load
  <2> QED BY <2>1, <2>2 DEF Refused, Named
<1>4. CASE PreparingStep
  <2>1. phase = "preparing"
    BY <1>4 DEF PreparingStep, PrepareCancelled, SizeUnknown, StopWriting, Materializing, Preparing, Prepared
  <2>2. UNCHANGED Past
    BY <1>4 DEF PreparingStep, PrepareCancelled, SizeUnknown, StopWriting, Prepared, Verify, PutTarget,
       OpenTarget, FinishTarget, WriteChunk, PrepareOver, JobUnchanged, TraceVars, Past
  <2> QED BY <1>1, <2>1, <2>2
<1>5. CASE PrimingStep
  BY <1>1, <1>5 DEF PrimingStep, Primed, PrimeOpen, PrimeRead, PrimeObject, PrimeUnchanged, JobUnchanged,
       TraceVars, Past
<1>6. CASE Replaying
  BY <1>1, <1>6, ReplayedFixed
<1>7. CASE CaptureEnds \/ Over \/ Cancel \/ Done \/ UNCHANGED dataVars
  BY <1>1, <1>7 DEF CaptureEnds, Over, Cancel, Done, dataVars, JobUnchanged, TraceVars, Past
<1>8. ASSUME NEW m, Again(m) PROVE Named'
  BY <1>1, <1>8 DEF Again, Ended, TraceVars, Past
<1> QED BY <1>2, <1>3, <1>4, <1>5, <1>6, <1>7, <1>8 DEF Next

(* Steps that give out and take back no handle.                               *)
LEMMA HandedSame ==
  ASSUME Handed, UNCHANGED Past, hmap' = hmap, handles' = handles, DOMAIN store \subseteq DOMAIN store'
  PROVE  Handed'
<1>1. plan' = plan /\ \A g : OpenOf(g)' = OpenOf(g)
  BY PastFixed DEF Past
<1> QED BY <1>1 DEF Handed, Exists

LEMMA FaithfulSame ==
  ASSUME HandleInv, InOrder, Faithful, UNCHANGED Past, mode' = mode, hmap' = hmap, handles' = handles,
         faulted => faulted', cancelled' = cancelled, NEW s \in Streams,
         \/ got' = got
         \/ /\ More(s) /\ Cur(s).op \in {"WRITE", "FSYNC"}
            /\ \E n, ok, name : Moved(s, n, ok, name)
  PROVE  Faithful'
<1>1. Opens' = Opens /\ ops' = ops
  BY PastFixed DEF Past
<1>2. Reproducible' = Reproducible
  BY RunFixed
<1>3. /\ \A i \in DOMAIN got : i \in DOMAIN got' /\ got'[i] = got[i]
      /\ \A i \in DOMAIN got' : i \in DOMAIN got \/ ops[i].op \in {"WRITE", "FSYNC"}
  <2>1. CASE got' # got
    <3>1. PICK n, ok, name : Moved(s, n, ok, name)
      BY <2>1
    <3>2. More(s) /\ Cur(s).op \in {"WRITE", "FSYNC"}
      BY <2>1
    <3>3. /\ Cur(s) = ops[At(s)] /\ DOMAIN got' = DOMAIN got \cup {At(s)}
          /\ \A i \in DOMAIN got : got'[i] = got[i]
      BY <1>1, <3>1, <3>2, MovedOn
    <3> QED BY <3>2, <3>3
  <2> QED BY <2>1
<1>4. \A i \in Opens : ops[i].op = "OPEN"
  BY DEF Opens, Indices
<1>5. SUFFICES ASSUME Faultless', Reproducible
               PROVE  /\ \A i \in Opens : i \in DOMAIN got' /\ (\A j \in DOMAIN got' : ops[j].op = "CLOSE"
                           => ops[j].h # ops[i].h)
                                            => Usable(i)'
                      /\ \A i \in DOMAIN got' : ops[i].op = "READ" => got'[i].ok
                           /\ got'[i].n = Transferred(ops[i])
  <2>1. \A i : Transferred(ops[i])' = Transferred(ops[i])
    BY <1>1 DEF Transferred
  <2> QED BY <1>1, <1>2, <2>1 DEF Faithful
<1>6. Faultless
  BY <1>5 DEF Faultless
<1>7. \A i : Usable(i) => Usable(i)'
  BY <1>1 DEF Usable, Live
<1> QED BY <1>3, <1>4, <1>5, <1>6, <1>7 DEF Faithful

-----------------------------------------------------------------------------
(* A step that leaves the files alone.                                        *)
LEMMA Level ==
  ASSUME DataInv, phase = "replaying", store' = store
  PROVE  /\ Raised
         /\ Distinct /\ plan.engine # "mem" /\ ~Truncated =>
              \A t \in Table : store'[Name(t)] <= Longer(store[Name(t)], Bound(t))
<1>1. Raised
  BY DEF DataInv, Stored, Raised
<1>2. ASSUME Distinct, plan.engine # "mem", NEW t \in Table
      PROVE  store[Name(t)] <= Longer(store[Name(t)], Bound(t))
  <2>1. store[Name(t)] \in Nat
    BY <1>2 DEF DataInv, Stock, Stocked, Exists, Stored
  <2> QED BY <2>1, Bounded, LongerOf DEF DataInv
<1> QED BY <1>1, <1>2

LEMMA FsyncServes ==
  ASSUME DataInv, Stored', NEW s \in Streams, NEW fails \in BOOLEAN, Fsync(s, fails)
  PROVE  Streamed' /\ Stock'
<1>1. /\ UNCHANGED Past /\ mode' = mode /\ phase = "replaying" /\ phase' = "replaying" /\ cancelled' = cancelled
      /\ UNCHANGED <<hmap, dio, store, handles>> /\ (faulted => faulted')
      /\ dio[s] = Idle /\ More(s) /\ Cur(s).op = "FSYNC"
      /\ Moved(s, 0, ~fails /\ Live(EngineHandle(s)), None)
  BY DEF Fsync, Dispatching, ReplayUnchanged, TraceVars, Past
<1>2. Handed' /\ Faithful'
  BY <1>1, HandedSame, FaithfulSame DEF DataInv
<1>3. InOrder' /\ Stock' /\ Lasting' /\ \A t \in Streams : DirectInv(t)'
  BY <1>1, Level, Dispatched DEF DataInv
<1> QED BY <1>2, <1>3 DEF Streamed

LEMMA WriteServes ==
  ASSUME DataInv, Stored', NEW s \in Streams, NEW fails \in BOOLEAN, Write(s, fails)
  PROVE  Streamed' /\ Stock'
<1> DEFINE h    == EngineHandle(s)
           err  == fails \/ ~Live(h)
           name == IF Live(h) THEN handles[h] ELSE None
           n    == IF err THEN 0 ELSE Cur(s).len
<1>1. /\ UNCHANGED Past /\ mode' = mode /\ phase = "replaying" /\ phase' = "replaying" /\ cancelled' = cancelled
      /\ UNCHANGED <<hmap, dio, handles>> /\ (faulted => faulted')
      /\ dio[s] = Idle /\ More(s) /\ Cur(s).op = "WRITE"
  BY DEF Write, Dispatching, ReplayUnchanged, TraceVars, Past
<1>2. /\ At(s) \in Indices("WRITE") /\ Cur(s) = ops[At(s)] /\ ops[At(s)].s = s
      /\ Ends(s) \in Nat /\ Ends(s) = End(At(s))
      /\ plan.engine = "direct" => err
      /\ Moved(s, n, ~err, name)
      /\ err => store' = store
  BY WriteStores DEF DataInv
<1>3. ~err => \E j \in Opens :
        /\ ops[j].h = Cur(s).h /\ ops[j].s = s /\ TargetOf(Cur(s).h) = ops[j].tgt /\ ops[j].tgt \in Table
        /\ name = Name(ops[j].tgt) /\ Exists(Name(ops[j].tgt))
        /\ store' = Sized(Name(ops[j].tgt), Longer(store[Name(ops[j].tgt)], Ends(s)))
  <2>1. ~err => name = handles[h]
    OBVIOUS
  <2> HIDE DEF name
  <2> QED BY <2>1, WriteStores DEF DataInv
<1> HIDE DEF n, err, name
<1>4. ASSUME ~err
      PROVE  /\ Exists(name) /\ name \in DOMAIN store' /\ store[name] \in Nat
             /\ store' = Sized(name, Longer(store[name], Ends(s)))
             /\ name = Name(TargetOf(Cur(s).h)) /\ TargetOf(Cur(s).h) \in Table
  <2>1. PICK j \in Opens :
          /\ ops[j].h = Cur(s).h /\ ops[j].s = s /\ TargetOf(Cur(s).h) = ops[j].tgt /\ ops[j].tgt \in Table
          /\ name = Name(ops[j].tgt) /\ Exists(Name(ops[j].tgt))
          /\ store' = Sized(Name(ops[j].tgt), Longer(store[Name(ops[j].tgt)], Ends(s)))
    BY <1>3, <1>4
  <2>2. Exists(name) /\ store' = Sized(name, Longer(store[name], Ends(s)))
    BY <2>1
  <2>3. name \in DOMAIN store' /\ store[name] \in Nat
    BY <2>2 DEF Exists, Sized, DataInv, Stored
  <2> QED BY <2>1, <2>2, <2>3
<1>5. Raised /\ DOMAIN store \subseteq DOMAIN store'
  <2>1. CASE err
    BY <1>2, <2>1 DEF DataInv, Stored, Raised
  <2>2. CASE ~err
    <3>1. store[name] <= Longer(store[name], Ends(s))
      BY <1>2, <1>4, <2>2, LongerOf
    <3>2. \A m \in DOMAIN store : m \in DOMAIN store' /\ store'[m] = IF m = name THEN Longer(store[name],
            Ends(s)) ELSE store[m]
      BY <1>4, <2>2 DEF Sized
    <3>3. \A m \in DOMAIN store : store[m] \in Nat
      BY DEF DataInv, Stored
    <3> QED BY <3>1, <3>2, <3>3 DEF Raised
  <2> QED BY <2>1, <2>2
<1>6. Handed' /\ Faithful'
  BY <1>1, <1>2, <1>5, HandedSame, FaithfulSame DEF DataInv
<1>7. Cur(s).op = "WRITE" /\ ~err =>
           /\ plan.engine # "direct" /\ name = Name(TargetOf(Cur(s).h)) /\ name \in DOMAIN store'
           /\ ~Truncated => End(At(s)) <= store'[name]
  <2> SUFFICES ASSUME ~err PROVE End(At(s)) <= store'[name]
    BY <1>2, <1>4
  <2>1. store'[name] = Longer(store[name], Ends(s))
    BY <1>4 DEF Sized
  <2> QED BY <1>2, <1>4, <2>1, LongerOf
<1>8. Distinct /\ plan.engine # "mem" /\ ~Truncated =>
        \A t \in Table : store'[Name(t)] <= Longer(store[Name(t)], Bound(t))
  <2> SUFFICES ASSUME Distinct, plan.engine # "mem", ~Truncated, NEW t \in Table
               PROVE  store'[Name(t)] <= Longer(store[Name(t)], Bound(t))
    OBVIOUS
  <2>1. Name(t) \in DOMAIN store /\ store[Name(t)] \in Nat /\ Bound(t) \in Nat
    BY <1>1, Bounded DEF DataInv, Stock, Stocked, Exists, Stored
  <2>2. store[Name(t)] <= Longer(store[Name(t)], Bound(t))
    BY <2>1, LongerOf
  <2>3. CASE err
    BY <1>2, <2>2, <2>3
  <2>4. CASE ~err /\ name = Name(t)
    <3>1. TargetOf(Cur(s).h) = t
      BY <1>4, <2>4 DEF Distinct
    <3>2. At(s) \in OpsOn(t)
      BY <1>2, <3>1 DEF OpsOn
    <3>3. Ends(s) <= Bound(t)
      BY <1>2, <3>2, Bounded DEF DataInv
    <3>4. store'[Name(t)] = Longer(store[Name(t)], Ends(s))
      BY <1>4, <2>4 DEF Sized
    <3> QED BY <1>2, <2>1, <3>3, <3>4 DEF Longer
  <2>5. CASE ~err /\ name # Name(t)
    <3>1. store'[Name(t)] = store[Name(t)]
      BY <1>4, <2>1, <2>5 DEF Sized
    <3> QED BY <2>2, <3>1
  <2> QED BY <2>3, <2>4, <2>5
<1>9. InOrder' /\ Stock' /\ Lasting' /\ \A t \in Streams : DirectInv(t)'
  BY <1>1, <1>2, <1>5, <1>7, <1>8, Dispatched DEF DataInv
<1> QED BY <1>6, <1>9 DEF Streamed

(* In a replay without failures a READ finds the handle the program had, and  *)
(* as many bytes as the program did.                                          *)
LEMMA ReadExact ==
  ASSUME DataInv, NEW s \in Streams, phase = "replaying", More(s), dio[s] = Idle, Cur(s).op = "READ",
         Faultless, Reproducible
  PROVE  /\ ~ReadFails(plan.engine, EngineHandle(s), Cur(s).off)
         /\ Available(handles[EngineHandle(s)], Cur(s).off, Cur(s).len) = Transferred(Cur(s))
<1> DEFINE i == At(s)
           h == EngineHandle(s)
<1>1. i \in DOMAIN ops /\ ops[i].s = s /\ i \notin DOMAIN got /\ Cur(s) = ops[i] /\ i \in Transfers
        /\ i \in Indices("READ")
  BY NextOp DEF Cur, Transfers, Indices
<1>2. HandleInv /\ Recording /\ Handed /\ OpensUnique /\ Lifecycles /\ InOrder
  BY DEF DataInv, HandleInv, Recording
<1>3. PICK j \in Opens : j < i /\ ops[j].h = ops[i].h /\ ops[j].s = s /\ TargetOf(ops[i].h) = ops[j].tgt
  BY <1>1, <1>2, UseFound
<1>4. j \in DOMAIN ops /\ j \in Nat /\ i \in Nat /\ ops[j].op = "OPEN"
  BY <1>1, <1>2 DEF Opens, Indices, OpensUnique, IsSeq
<1>5. j \in DOMAIN got
  <2>1. \A k \in Pending(s) : i <= k
    BY DEF More, At, Min
  <2> QED BY <1>3, <1>4, <2>1 DEF Pending
<1>6. ASSUME NEW k \in DOMAIN got, ops[k].op = "CLOSE", ops[k].h = ops[j].h PROVE FALSE
  <2>1. k \in DOMAIN ops /\ k \in Indices("CLOSE")
    BY <1>2, <1>6 DEF InOrder, Indices
  <2>2. i < k
    BY <1>1, <1>2, <1>3, <1>6, <2>1 DEF Lifecycles
  <2>3. PICK m \in Opens : ops[m].h = ops[k].h /\ ops[m].s = ops[k].s
    BY <1>2, <1>6, <2>1, UseFound
  <2>4. ops[k].s = s
    BY <1>2, <1>3, <1>6, <2>3 DEF OpensUnique
  <2> QED BY <1>1, <1>2, <2>2, <2>4 DEF InOrder
<1>7. Usable(j)
  BY <1>4, <1>5, <1>6 DEF DataInv, Faithful
<1>8. Live(h)
  BY <1>1, <1>3, <1>7 DEF Usable, EngineHandle
<1>9. PICK t \in Table : TargetOf(ops[i].h) = t /\ handles[h] = Name(t) /\ t = ops[j].tgt
  <2>1. \E k \in Opens : TargetOf(ops[i].h) = ops[k].tgt /\ ops[k].tgt \in Table
          /\ handles[h] = Name(ops[k].tgt)
    BY <1>1, <1>2, <1>8, LiveUse
  <2> QED BY <1>3, <2>1
<1> DEFINE size == store[Name(t)]
<1>10. plan.engine # "mem" /\ Distinct /\ Ample /\ ~Truncated
  BY DEF Reproducible, Ample
<1>11. Stocked(t) /\ i \in OpsOn(t)
  BY <1>1, <1>9, <1>10 DEF DataInv, Stock, OpsOn
<1>12. Exists(Name(t)) /\ size \in Nat /\ End(i) <= size
  BY <1>10, <1>11 DEF Stocked, DataInv, Stored, Exists
<1>13. /\ Bound(t) \in Nat /\ Bound(t) <= source[t] /\ source[t] \in Nat
       /\ End(i) \in Nat
  BY <1>2, <1>10, <1>11, Bounded, TargetNumbers
<1>14. Reach(i) /\ ops[i].op = "READ"
  BY <1>1, <1>2 DEF Recording, Indices
<1> DEFINE tr  == Transferred(ops[i])
           off == ops[i].off
           len == ops[i].len
           end == End(i)
<1>15. /\ tr \in Nat /\ tr > 0 /\ off \in Nat /\ len \in Nat /\ end = off + tr /\ tr <= len
       /\ ops[i].ret = None => tr = len
  BY <1>14, DatasetAssumption DEF Reach, Transferred, End
<1>16. ops[i].ret # None => size = End(i)
  <2> SUFFICES ASSUME ops[i].ret # None PROVE size = End(i)
    OBVIOUS
  <2>1. End(i) = source[t]
    BY <1>1, <1>9 DEF Reproducible
  <2>2. Bound(t) > 0
    <3>1. CASE mode = "synthetic"
      BY <1>11, <3>1 DEF Stocked, Bound
    <3>2. CASE mode # "synthetic"
      <4>1. source[t] = end
        BY <2>1
      <4> HIDE DEF end, off, tr, len
      <4>2. source[t] > 0
        BY <1>15, <4>1
      <4> QED BY <3>2, <4>2 DEF Bound
    <3> QED BY <3>1, <3>2
  <2>3. plan.engine = "direct" => Private(Name(t))
    BY DEF Reproducible
  <2>4. Tight(t)
    BY <1>10, <2>2, <2>3 DEF Tight, Faultless
  <2>5. ASSUME NEW r \in Streams, Cutting(r, Name(t)) PROVE FALSE
    <3>1. dio[r] # Idle /\ dio[r].name = Name(t) /\ DirectInv(r)
      BY <2>5 DEF Cutting, DataInv
    <3>2. PICK k \in Opens : ops[k].s = r /\ dio[r].name = Name(ops[k].tgt)
      BY <1>2, <3>1, DirectUse
    <3>3. Private(Name(t))
      BY <2>3, <3>1 DEF DirectInv
    <3>4. r = s
      BY <1>3, <1>9, <3>1, <3>2, <3>3 DEF Private, Opens
    <3> QED BY <3>1, <3>4
  <2>6. size <= Bound(t)
    BY <1>11, <2>4, <2>5 DEF Stocked, AtMost
  <2> QED BY <1>12, <1>13, <2>1, <2>6
<1>17. Available(Name(t), off, len) = tr
  <2>1. Available(Name(t), off, len) =
          IF size <= off THEN 0 ELSE IF size < off + len THEN size - off ELSE len
    BY DEF Available
  <2>2. size \in Nat /\ end <= size /\ (ops[i].ret # None => size = end)
    BY <1>12, <1>16
  <2> HIDE DEF size, tr, off, len, end
  <2>3. CASE ops[i].ret # None
    BY <1>15, <2>1, <2>2, <2>3
  <2>4. CASE ops[i].ret = None
    BY <1>15, <2>1, <2>2, <2>4
  <2> QED BY <2>3, <2>4
<1>18. ~ReadFails(plan.engine, h, off)
  <2>1. off < size
    <3>1. size \in Nat /\ end <= size
      BY <1>12
    <3> HIDE DEF size, tr, off, len, end
    <3> QED BY <1>15, <3>1
  <2>2. ~(off >= size)
    <3>1. size \in Nat /\ off \in Nat
      BY <1>12, <1>15
    <3> HIDE DEF size, off
    <3> QED BY <2>1, <3>1
  <2> HIDE DEF h, off
  <2> QED BY <1>8, <1>9, <1>12, <2>2 DEF ReadFails
<1> QED BY <1>1, <1>9, <1>17, <1>18

LEMMA ReadServes ==
  ASSUME DataInv, Stored', NEW s \in Streams, NEW fails \in BOOLEAN, Read(s, fails)
  PROVE  Streamed' /\ Stock'
<1> DEFINE h    == EngineHandle(s)
           err  == fails \/ ReadFails(plan.engine, h, Cur(s).off)
           n    == IF err THEN 0 ELSE Available(handles[h], Cur(s).off, Cur(s).len)
           ok   == Reproduced(Cur(s), n, err)
           name == IF Live(h) THEN handles[h] ELSE None
<1>1. /\ UNCHANGED Past /\ mode' = mode /\ phase = "replaying" /\ phase' = "replaying" /\ cancelled' = cancelled
      /\ UNCHANGED <<hmap, dio, store, handles>> /\ (faulted => faulted') /\ (fails => faulted')
      /\ dio[s] = Idle /\ More(s) /\ Cur(s).op = "READ"
  BY DEF Read, Dispatching, ReplayUnchanged, TraceVars, Past
<1>2. Moved(s, n, ok, name)
  BY Zenon DEF Read
<1>3. Faultless' /\ Reproducible => ok /\ n = Transferred(Cur(s))
  <2> SUFFICES ASSUME Faultless', Reproducible PROVE ok /\ n = Transferred(Cur(s))
    OBVIOUS
  <2>1. Faultless /\ ~fails
    BY <1>1 DEF Faultless
  <2>2. ~ReadFails(plan.engine, h, Cur(s).off) /\ Available(handles[h], Cur(s).off,
          Cur(s).len) = Transferred(Cur(s))
    BY <1>1, <2>1, ReadExact
  <2> QED BY <2>1, <2>2 DEF Reproduced
<1> HIDE DEF h, err, n, ok, name
<1>4. /\ Cur(s) = ops[At(s)] /\ DOMAIN got' = DOMAIN got \cup {At(s)} /\ At(s) \notin DOMAIN got
      /\ got'[At(s)].n = n /\ got'[At(s)].ok = ok
      /\ \A i \in DOMAIN got : got'[i] = got[i]
  BY <1>1, <1>2, MovedOn DEF DataInv, Past
<1>5. Faithful'
  <2>1. Opens' = Opens /\ ops' = ops /\ Reproducible' = Reproducible
    BY <1>1, PastFixed, RunFixed DEF Past
  <2>2. SUFFICES ASSUME Faultless', Reproducible
                 PROVE  /\ \A i \in Opens : i \in DOMAIN got'
                             /\ (\A j \in DOMAIN got' : ops[j].op = "CLOSE" => ops[j].h # ops[i].h)
                                              => Usable(i)'
                        /\ \A i \in DOMAIN got' : ops[i].op = "READ" => got'[i].ok
                             /\ got'[i].n = Transferred(ops[i])
    <3>1. \A i : Transferred(ops[i])' = Transferred(ops[i])
      BY <2>1 DEF Transferred
    <3> QED BY <2>1, <3>1 DEF Faithful
  <2>3. Faultless
    BY <1>1, <2>2 DEF Faultless
  <2>4. \A i : Usable(i) => Usable(i)'
    BY <1>1, <2>1 DEF Usable, Live
  <2>5. \A i \in Opens : ops[i].op = "OPEN"
    BY DEF Opens, Indices
  <2>6. /\ \A i \in Opens : i \in DOMAIN got /\ (\A j \in DOMAIN got : ops[j].op = "CLOSE"
             => ops[j].h # ops[i].h)
                        => Usable(i)
        /\ \A i \in DOMAIN got : ops[i].op = "READ" => got[i].ok /\ got[i].n = Transferred(ops[i])
    BY <2>2, <2>3 DEF DataInv, Faithful
  <2> QED BY <1>1, <1>3, <1>4, <2>2, <2>4, <2>5, <2>6
<1>6. Handed'
  BY <1>1, HandedSame DEF DataInv
<1>7. InOrder' /\ Stock' /\ Lasting' /\ \A t \in Streams : DirectInv(t)'
  BY <1>1, <1>2, Level, Dispatched DEF DataInv
<1> QED BY <1>5, <1>6, <1>7 DEF Streamed

LEMMA CloseServes ==
  ASSUME DataInv, Stored', NEW s \in Streams, NEW fails \in BOOLEAN, Close(s, fails)
  PROVE  Streamed' /\ Stock'
<1> DEFINE h  == EngineHandle(s)
           g  == Cur(s).h
           ok == Live(h) /\ ~fails
<1>1. /\ UNCHANGED Past /\ mode' = mode /\ phase = "replaying" /\ phase' = "replaying" /\ cancelled' = cancelled
      /\ UNCHANGED <<dio, store>> /\ (faulted => faulted') /\ (fails => faulted')
      /\ dio[s] = Idle /\ More(s) /\ Cur(s).op = "CLOSE"
      /\ handles' = WithoutHandle(h)
      /\ hmap' = [hmap EXCEPT ![s] = IF ok THEN [k \in DOMAIN @ \ {g} |-> @[k]] ELSE @]
      /\ Moved(s, 0, ok, None)
  BY DEF Close, Dispatching, ReplayUnchanged, TraceVars, Past
<1>2. IsSeq(handles) /\ DOMAIN hmap = Streams
  BY DEF DataInv, HandleInv, Tables
<1>3. /\ DOMAIN handles' = DOMAIN handles
      /\ \A k \in DOMAIN handles : handles'[k] \in {None, handles[k]}
      /\ LiveHandles' = LiveHandles \ {h}
  BY <1>1, <1>2, GivenBack
<1>4. \A r \in Streams :
        /\ DOMAIN hmap'[r] \subseteq DOMAIN hmap[r]
        /\ \A k \in DOMAIN hmap'[r] : hmap'[r][k] = hmap[r][k]
        /\ \A k \in DOMAIN hmap[r] : k \in DOMAIN hmap'[r] \/ (r = s /\ k = g)
  <2> HIDE DEF h, g, ok
  <2>1. hmap'[s] = IF ok THEN [k \in DOMAIN hmap[s] \ {g} |-> hmap[s][k]] ELSE hmap[s]
    BY <1>1, <1>2
  <2>2. \A r \in Streams \ {s} : hmap'[r] = hmap[r]
    BY <1>1, <1>2
  <2> QED BY <2>1, <2>2
<1>5. /\ Opens' = Opens /\ ops' = ops /\ plan' = plan /\ Reproducible' = Reproducible
      /\ \A k : OpenOf(k)' = OpenOf(k)
  BY <1>1, PastFixed, RunFixed DEF Past
<1>6. /\ Cur(s) = ops[At(s)] /\ At(s) \notin DOMAIN got
      /\ DOMAIN got' = DOMAIN got \cup {At(s)}
      /\ \A i \in DOMAIN got : got'[i] = got[i]
  BY <1>1, MovedOn DEF DataInv, Past
<1> HIDE DEF h, g, ok
<1>7. Handed'
  <2>1. ASSUME NEW q \in Streams, NEW r \in Streams, NEW a \in DOMAIN hmap'[q], NEW b \in DOMAIN hmap'[r],
               hmap'[q][a] = hmap'[r][b]
        PROVE  q = r /\ a = b
    BY <1>4, <2>1 DEF DataInv, Handed
  <2>2. ASSUME NEW r \in Streams, NEW k \in DOMAIN hmap'[r], handles'[hmap'[r][k]] # None
        PROVE  IF ObjectAPI(plan.engine) THEN OpenOf(k).mode = "r" ELSE Exists(handles'[hmap'[r][k]])
    <3>1. k \in DOMAIN hmap[r] /\ hmap'[r][k] = hmap[r][k]
      BY <1>4
    <3>2. hmap[r][k] \in DOMAIN handles
      BY <3>1 DEF DataInv, HandleInv, Tables, TableOf
    <3>3. handles'[hmap[r][k]] = handles[hmap[r][k]] /\ handles[hmap[r][k]] # None
      BY <1>3, <2>2, <3>1, <3>2
    <3> QED BY <3>1, <3>3 DEF DataInv, Handed
  <2>3. \A n : Exists(n)' = Exists(n)
    BY <1>1 DEF Exists
  <2> QED BY <1>5, <2>1, <2>2, <2>3 DEF Handed
<1>8. Faithful'
  <2>1. SUFFICES ASSUME Faultless', Reproducible
                 PROVE  /\ \A i \in Opens : i \in DOMAIN got'
                             /\ (\A j \in DOMAIN got' : ops[j].op = "CLOSE" => ops[j].h # ops[i].h)
                                              => Usable(i)'
                        /\ \A i \in DOMAIN got' : ops[i].op = "READ" => got'[i].ok
                             /\ got'[i].n = Transferred(ops[i])
    <3>1. \A i : Transferred(ops[i])' = Transferred(ops[i])
      BY <1>5 DEF Transferred
    <3> QED BY <1>5, <3>1 DEF Faithful
  <2>2. Faultless
    BY <1>1, <2>1 DEF Faultless
  <2>3. /\ \A i \in Opens : i \in DOMAIN got /\ (\A j \in DOMAIN got : ops[j].op = "CLOSE"
             => ops[j].h # ops[i].h)
                        => Usable(i)
        /\ \A i \in DOMAIN got : ops[i].op = "READ" => got[i].ok /\ got[i].n = Transferred(ops[i])
    BY <2>1, <2>2 DEF DataInv, Faithful
  <2>4. ASSUME NEW i \in Opens, i \in DOMAIN got', \A j \in DOMAIN got' : ops[j].op = "CLOSE"
                 => ops[j].h # ops[i].h
        PROVE  Usable(i)'
    <3> DEFINE r == ops[i].s
               k == ops[i].h
               x == hmap[r][k]
    <3>1. ops[i].op = "OPEN" /\ r \in Streams
      BY DEF Opens, Indices, DataInv, Recording
    <3>2. i \in DOMAIN got /\ k # g
      BY <1>1, <1>6, <2>4, <3>1 DEF g
    <3>3. k \in DOMAIN hmap[r] /\ Live(x)
      BY <1>6, <2>3, <2>4, <3>2 DEF Usable
    <3>4. x # h
      <4>1. CASE g \in DOMAIN hmap[s]
        <5>1. h = hmap[s][g]
          BY <4>1 DEF EngineHandle, h, g
        <5> QED BY <3>1, <3>2, <3>3, <4>1, <5>1 DEF DataInv, Handed
      <4>2. CASE g \notin DOMAIN hmap[s]
        <5>1. h = 0
          BY <4>2 DEF EngineHandle, h, g
        <5>2. 0 \notin DOMAIN handles
          BY <1>2 DEF IsSeq
        <5> QED BY <3>3, <5>1, <5>2 DEF Live
      <4> QED BY <4>1, <4>2
    <3>5. Live(x)'
      <4>1. x \in LiveHandles'
        BY <1>3, <3>3, <3>4 DEF LiveHandles, Live
      <4>2. hmap'[r][k] = hmap[r][k] /\ k \in DOMAIN hmap'[r]
        BY <1>4, <3>1, <3>2, <3>3
      <4>3. x' = x
        BY <1>5, <4>2
      <4> HIDE DEF x
      <4> QED BY <4>1, <4>3 DEF LiveHandles
    <3>6. k \in DOMAIN hmap'[r] /\ hmap'[r][k] = x
      BY <1>4, <3>1, <3>2, <3>3
    <3> QED BY <1>5, <3>5, <3>6 DEF Usable
  <2>5. \A i \in DOMAIN got' : ops[i].op = "READ" => got'[i].ok /\ got'[i].n = Transferred(ops[i])
    BY <1>1, <1>6, <2>3
  <2> QED BY <2>4, <2>5
<1>9. InOrder' /\ Stock' /\ Lasting' /\ \A t \in Streams : DirectInv(t)'
  BY <1>1, Level, Dispatched DEF DataInv
<1> QED BY <1>7, <1>8, <1>9 DEF Streamed

LEMMA OpenServes ==
  ASSUME DataInv, Stored', NEW s \in Streams, NEW fails \in BOOLEAN, Open(s, fails)
  PROVE  Streamed' /\ Stock'
<1> DEFINE op      == Cur(s)
           name    == Name(op.tgt)
           refused == OpenRefused(plan.engine, name, op.mode, Creates(op))
           ok      == ~refused /\ ~fails
<1>1. /\ UNCHANGED Past /\ mode' = mode /\ phase = "replaying" /\ phase' = "replaying" /\ cancelled' = cancelled
      /\ dio' = dio /\ (faulted => faulted') /\ (fails => faulted')
      /\ dio[s] = Idle /\ More(s) /\ op.op = "OPEN"
      /\ Moved(s, 0, ok, name)
  BY DEF Open, Dispatching, ReplayUnchanged, TraceVars, Past
<1>2. IF ok THEN /\ hmap' = [hmap EXCEPT ![s] = Noted(@, op.h, NextHandle)]
                 /\ store' = OpenedStore(plan.engine, name, op.trunc, MemSize(name))
                 /\ handles' = WithHandle(name)
            ELSE UNCHANGED <<hmap, store, handles>>
  BY DEF Open
<1>3. op.tgt \in Table /\ At(s) \in Opens /\ op = ops[At(s)] /\ ops[At(s)].s = s
  BY OpenStores DEF DataInv
<1>4. op.trunc => Truncated
  BY <1>3 DEF Truncated, Opens
<1>5. /\ Opens' = Opens /\ ops' = ops /\ plan' = plan /\ Reproducible' = Reproducible
      /\ \A k : OpenOf(k)' = OpenOf(k)
  BY <1>1, PastFixed, RunFixed DEF Past
<1>6. /\ At(s) \notin DOMAIN got
      /\ DOMAIN got' = DOMAIN got \cup {At(s)}
      /\ \A i \in DOMAIN got : got'[i] = got[i]
  BY <1>1, MovedOn DEF DataInv, Past
<1>7. /\ store' = store \/ (\E size : store' = Sized(name, size) /\ (name \notin DOMAIN store \/ op.trunc))
      /\ ok /\ ~ObjectAPI(plan.engine) => name \in DOMAIN store'
      /\ ok /\ ObjectAPI(plan.engine) => op.mode = "r"
  <2>1. CASE ok
    <3>1. store' = OpenedStore(plan.engine, name, op.trunc, MemSize(name)) /\ ~refused
      BY <1>2, <2>1
    <3> HIDE DEF name, op
    <3> QED BY <3>1 DEF OpenedStore, OpenRefused, Exists, ObjectAPI, Sized, refused
  <2>2. CASE ~ok
    BY <1>2, <2>2
  <2> QED BY <2>1, <2>2
<1>8. name # None
  BY <1>1, <1>3 DEF DataInv, Named
<1> HIDE DEF refused, ok, name
<1>9. Raised /\ DOMAIN store \subseteq DOMAIN store' /\ (~Truncated
        => \A m \in DOMAIN store : store'[m] = store[m])
  <2>1. \A m \in DOMAIN store : store[m] \in Nat
    BY DEF DataInv, Stored
  <2>2. \A m \in DOMAIN store : m \in DOMAIN store' /\ (~Truncated => store'[m] = store[m])
    BY <1>4, <1>7 DEF Sized
  <2> QED BY <2>1, <2>2 DEF Raised
<1>10. Distinct /\ plan.engine # "mem" /\ ~Truncated =>
         \A t \in Table : store'[Name(t)] <= Longer(store[Name(t)], Bound(t))
  <2> SUFFICES ASSUME Distinct, plan.engine # "mem", ~Truncated, NEW t \in Table
               PROVE  store'[Name(t)] <= Longer(store[Name(t)], Bound(t))
    OBVIOUS
  <2>1. Name(t) \in DOMAIN store /\ store[Name(t)] \in Nat /\ Bound(t) \in Nat
    BY <1>1, Bounded DEF DataInv, Stock, Stocked, Exists, Stored
  <2> QED BY <1>9, <2>1, LongerOf
<1>11. InOrder' /\ Stock' /\ Lasting' /\ \A t \in Streams : DirectInv(t)'
  BY <1>1, <1>9, <1>10, Dispatched DEF DataInv
<1>12. IsSeq(handles) /\ DOMAIN hmap = Streams /\ OpensUnique
       /\ \A r \in Streams : \A k \in DOMAIN hmap[r] : hmap[r][k] \in DOMAIN handles
  BY DEF DataInv, HandleInv, Tables, TableOf
<1>13. ok => /\ DOMAIN handles' = DOMAIN handles \cup {NextHandle}
             /\ NextHandle \notin DOMAIN handles
             /\ handles'[NextHandle] = name
             /\ \A k \in DOMAIN handles : handles'[k] = handles[k]
  BY <1>2, <1>12, Given
<1>14. ok => /\ \A r \in Streams \ {s} : hmap'[r] = hmap[r]
             /\ DOMAIN hmap'[s] = DOMAIN hmap[s] \cup {op.h} /\ hmap'[s][op.h] = NextHandle
             /\ \A k \in DOMAIN hmap[s] : k # op.h => hmap'[s][k] = hmap[s][k]
  <2> HIDE DEF op
  <2> QED BY <1>2, <1>12 DEF Noted
<1>15. OpenOf(op.h) = op
  BY <1>3, <1>12 DEF OpensUnique, Opens, OpenOf
<1>16. Handed'
  <2>1. CASE ~ok
    BY <1>1, <1>2, <1>9, <2>1, HandedSame DEF DataInv
  <2>2. CASE ok
    <3> DEFINE new(r, k) == r = s /\ k = op.h
    <3>1. \A r \in Streams : \A k \in DOMAIN hmap'[r] :
            /\ new(r, k) => hmap'[r][k] = NextHandle
            /\ ~new(r, k) => k \in DOMAIN hmap[r] /\ hmap'[r][k] = hmap[r][k] /\ hmap[r][k] \in DOMAIN handles
      BY <1>12, <1>14, <2>2
    <3>2. ASSUME NEW q \in Streams, NEW r \in Streams, NEW a \in DOMAIN hmap'[q], NEW b \in DOMAIN hmap'[r],
                 hmap'[q][a] = hmap'[r][b]
          PROVE  q = r /\ a = b
      <4>1. CASE new(q, a) /\ new(r, b)
        BY <4>1
      <4>2. CASE ~new(q, a) /\ ~new(r, b)
        <5> HIDE DEF new
        <5> QED BY <3>1, <3>2, <4>2 DEF DataInv, Handed
      <4>3. CASE new(q, a) /\ ~new(r, b)
        <5> HIDE DEF new
        <5> QED BY <1>13, <2>2, <3>1, <3>2, <4>3
      <4>4. CASE ~new(q, a) /\ new(r, b)
        <5> HIDE DEF new
        <5> QED BY <1>13, <2>2, <3>1, <3>2, <4>4
      <4> QED BY <4>1, <4>2, <4>3, <4>4
    <3>3. ASSUME NEW r \in Streams, NEW k \in DOMAIN hmap'[r], handles'[hmap'[r][k]] # None
          PROVE  IF ObjectAPI(plan.engine) THEN OpenOf(k).mode = "r" ELSE handles'[hmap'[r][k]] \in DOMAIN store'
      <4>1. CASE new(r, k)
        <5>1. handles'[hmap'[r][k]] = name /\ k = op.h
          BY <1>13, <2>2, <3>1, <4>1
        <5> QED BY <1>7, <1>15, <2>2, <5>1
      <4>2. CASE ~new(r, k)
        <5>1. k \in DOMAIN hmap[r] /\ handles'[hmap'[r][k]] = handles[hmap[r][k]]
          BY <1>13, <2>2, <3>1, <4>2
        <5>2. IF ObjectAPI(plan.engine) THEN OpenOf(k).mode = "r" ELSE Exists(handles[hmap[r][k]])
          BY <3>3, <5>1 DEF DataInv, Handed
        <5> QED BY <1>9, <5>1, <5>2 DEF Exists
      <4> QED BY <4>1, <4>2
    <3> QED BY <1>5, <3>2, <3>3 DEF Handed, Exists
  <2> QED BY <2>1, <2>2
<1>17. Faithful'
  <2>1. SUFFICES ASSUME Faultless', Reproducible
                 PROVE  /\ \A i \in Opens : i \in DOMAIN got'
                             /\ (\A j \in DOMAIN got' : ops[j].op = "CLOSE" => ops[j].h # ops[i].h)
                                              => Usable(i)'
                        /\ \A i \in DOMAIN got' : ops[i].op = "READ" => got'[i].ok
                             /\ got'[i].n = Transferred(ops[i])
    <3>1. \A i : Transferred(ops[i])' = Transferred(ops[i])
      BY <1>5 DEF Transferred
    <3> QED BY <1>5, <3>1 DEF Faithful
  <2>2. Faultless /\ ~fails
    BY <1>1, <2>1 DEF Faultless
  <2>3. /\ \A i \in Opens : i \in DOMAIN got /\ (\A j \in DOMAIN got : ops[j].op = "CLOSE"
             => ops[j].h # ops[i].h)
                        => Usable(i)
        /\ \A i \in DOMAIN got : ops[i].op = "READ" => got[i].ok /\ got[i].n = Transferred(ops[i])
    BY <2>1, <2>2 DEF DataInv, Faithful
  <2>4. ok
    <3>1. plan.engine # "mem" /\ Distinct /\ (ObjectAPI(plan.engine) => op.mode = "r")
      <4> HIDE DEF op
      <4> QED BY <1>3, <2>1 DEF Reproducible, Opens
    <3>2. Exists(name)
      BY <1>1, <1>3, <3>1 DEF DataInv, Stock, Stocked, name
    <3> QED BY <2>2, <3>1, <3>2 DEF ok, refused, OpenRefused, ObjectAPI
  <2>5. ASSUME NEW i \in Opens, i \in DOMAIN got', \A j \in DOMAIN got' : ops[j].op = "CLOSE"
                 => ops[j].h # ops[i].h
        PROVE  Usable(i)'
    <3>1. CASE i = At(s)
      <4>1. ops[i].h \in DOMAIN hmap'[ops[i].s] /\ hmap'[ops[i].s][ops[i].h] = NextHandle
        BY <1>3, <1>14, <2>4, <3>1
      <4>2. NextHandle \in DOMAIN handles' /\ handles'[NextHandle] # None
        BY <1>8, <1>13, <2>4
      <4> QED BY <1>5, <4>1, <4>2 DEF Usable, Live
    <3>2. CASE i # At(s)
      <4>1. Usable(i) /\ ops[i].s \in Streams
        BY <1>6, <2>3, <2>5, <3>2 DEF DataInv, Recording
      <4>2. ops[i].h # op.h
        BY <1>3, <1>12, <3>2 DEF OpensUnique
      <4>3. ops[i].h \in DOMAIN hmap'[ops[i].s] /\ hmap'[ops[i].s][ops[i].h] = hmap[ops[i].s][ops[i].h]
        BY <1>14, <2>4, <4>1, <4>2 DEF Usable
      <4> QED BY <1>5, <1>13, <2>4, <4>1, <4>3 DEF Usable, Live
    <3> QED BY <3>1, <3>2
  <2>6. \A i \in DOMAIN got' : ops[i].op = "READ" => got'[i].ok /\ got'[i].n = Transferred(ops[i])
    BY <1>1, <1>3, <1>6, <2>3
  <2> QED BY <2>5, <2>6
<1> QED BY <1>11, <1>16, <1>17 DEF Streamed

-----------------------------------------------------------------------------
(* The steps of a direct write.  Two streams in one on the same file at the   *)
(* same time do not have it to themselves.                                    *)
LEMMA Alone ==
  ASSUME HandleInv, Recording, NEW s \in Streams, NEW t \in Streams, DirectInv(s), DirectInv(t),
         dio[s] # Idle, dio[t] # Idle, dio[s].name = dio[t].name, Private(dio[s].name)
  PROVE  s = t
<1>1. PICK i \in Opens : ops[i].s = s /\ dio[s].name = Name(ops[i].tgt)
  BY DirectUse
<1>2. PICK j \in Opens : ops[j].s = t /\ dio[t].name = Name(ops[j].tgt)
  BY DirectUse
<1> QED BY <1>1, <1>2 DEF Private, Opens

LEMMA EndNumber ==
  ASSUME Recording, InOrder, NEW i \in DOMAIN got, ops[i].op = "WRITE"
  PROVE  End(i) \in Nat
<1>1. i \in DOMAIN ops
  BY DEF InOrder
<1>2. Reach(i)
  BY <1>1 DEF Recording, Transfers, Indices
<1> QED BY <1>2, DatasetAssumption DEF Reach, End, Transferred

LEMMA DirectStatServes ==
  ASSUME DataInv, Stored', NEW s \in Streams, DirectStat(s)
  PROVE  Streamed' /\ Stock'
<1> DEFINE h == EngineHandle(s)
           m == handles[h]
<1>1. /\ UNCHANGED Past /\ mode' = mode /\ phase = "replaying" /\ phase' = "replaying" /\ cancelled' = cancelled
      /\ UNCHANGED <<hmap, handles, store, got, faulted>>
      /\ dio[s] = Idle /\ More(s) /\ Cur(s).op = "WRITE" /\ plan.engine = "direct" /\ Live(h)
      /\ dio' = [dio EXCEPT ![s] = [step |-> "read", orig |-> store[m], name |-> m]]
  BY DEF DirectStat, Dispatching, ReplayUnchanged, TraceVars, Past
<1>2. DOMAIN dio = Streams
  BY DEF DataInv, HandleInv, Tables
<1>3. /\ Opens' = Opens /\ Table' = Table /\ Truncated' = Truncated /\ Distinct' = Distinct
      /\ \A n : Private(n)' = Private(n)
      /\ \A t : Name(t)' = Name(t) /\ Needed(t)' = Needed(t) /\ OpsOn(t)' = OpsOn(t)
      /\ \A g : TargetOf(g)' = TargetOf(g)
      /\ \A i : End(i)' = End(i)
      /\ ops' = ops /\ plan' = plan
  BY <1>1, PastFixed DEF Past
<1>4. Ample' = Ample /\ \A t : Bound(t)' = Bound(t) /\ (Tight(t)' => Tight(t))
  BY <1>1, RunFixed
<1>5. PICK j \in Opens :
        /\ ops[j].s = s /\ TargetOf(Cur(s).h) = ops[j].tgt /\ ops[j].tgt \in Table
        /\ m = Name(ops[j].tgt) /\ Exists(Name(ops[j].tgt))
  <2>1. Cur(s).op # "OPEN" /\ ~ObjectAPI(plan.engine)
    BY <1>1 DEF ObjectAPI
  <2> HIDE DEF m
  <2>2. m = handles[EngineHandle(s)]
    BY DEF m
  <2> QED BY <1>1, <2>1, <2>2, LiveUse DEF DataInv
<1> HIDE DEF h, m
<1>6. Handed' /\ Faithful'
  BY <1>1, HandedSame, FaithfulSame DEF DataInv
<1>7. InOrder'
  BY <1>1, <1>3 DEF DataInv, InOrder
<1>8. Lasting'
  <2>1. \A i : Name(TargetOf(ops[i].h))' = Name(TargetOf(ops[i].h))
          /\ Private(got[i].name)' = Private(got[i].name)
    BY <1>1, <1>3
  <2> QED BY <1>1, <1>3, <2>1 DEF DataInv, Lasting, Exists
<1>9. \A t : Cur(t)' = Cur(t) /\ Ends(t)' = Ends(t)
  BY <1>1, <1>3, Staying
<1>10. \A i, n : Finished(i, n)' = Finished(i, n)
  BY <1>1, <1>3 DEF Finished
<1>11. ASSUME NEW t \in Streams, t # s PROVE DirectInv(t)'
  <2>1. dio'[t] = dio[t] /\ DirectInv(t)
    BY <1>1, <1>2, <1>11 DEF DataInv
  <2>2. CASE dio[t] = Idle
    BY <2>1, <2>2 DEF DirectInv
  <2>3. CASE dio[t] # Idle
    <3>1. Exists(dio[t].name)' /\ (dio[t].step = "written" /\ Private(dio[t].name) /\ ~Truncated
            => Ends(t) <= store'[dio[t].name])
      BY <1>1, <2>1, <2>3 DEF DirectInv, Exists
    <3> QED BY <1>1, <1>9, <1>10, <2>1, <2>3, <3>1, DirectKept
  <2> QED BY <2>2, <2>3
<1>12. /\ dio'[s] = [step |-> "read", orig |-> store[m], name |-> m]
       /\ m \in DOMAIN store /\ store[m] \in Nat /\ m = Name(TargetOf(Cur(s).h))
  BY <1>1, <1>2, <1>5 DEF Exists, DataInv, Stored
<1>13. ~Truncated /\ Private(m) => \A i \in DOMAIN got : Finished(i, m) => End(i) <= store[m]
  BY DEF DataInv, Lasting, Finished
<1>14. ASSUME NEW t \in Table, Name(t) = m
       PROVE  /\ Ample /\ ~Truncated => \A i \in OpsOn(t) : End(i) <= store[m]
              /\ Tight(t) => store[m] <= Bound(t)
  <2>1. Distinct => Stocked(t)
    BY <1>1 DEF DataInv, Stock
  <2>2. Ample /\ ~Truncated => \A i \in OpsOn(t) : End(i) <= store[m]
    BY <1>14, <2>1 DEF Ample, Stocked
  <2>3. ASSUME Tight(t) PROVE store[m] <= Bound(t)
    <3>1. AtMost(t, store[m]) /\ Private(m)
      BY <1>1, <1>14, <2>1, <2>3 DEF Tight, Ample, Stocked
    <3>2. ASSUME NEW r \in Streams, Cutting(r, m) PROVE FALSE
      <4>1. dio[r] # Idle /\ DirectInv(r) /\ dio[r].name = m
        BY <3>2 DEF Cutting, DataInv
      <4>2. PICK k \in Opens : ops[k].s = r /\ dio[r].name = Name(ops[k].tgt)
        BY <4>1, DirectUse DEF DataInv
      <4>3. r = s
        BY <1>5, <3>1, <4>1, <4>2 DEF Private, Opens
      <4> QED BY <1>1, <4>1, <4>3
    <3> QED BY <1>14, <3>1, <3>2 DEF AtMost
  <2> QED BY <2>2, <2>3
<1>15. DirectInv(s)'
  <2>1. (plan.engine = "direct" /\ phase = "replaying")'
        /\ dio'[s].step = "read" /\ dio'[s].orig = store[m] /\ dio'[s].name = m
        /\ DOMAIN dio'[s] = {"step", "orig", "name"}
    BY <1>1, <1>3, <1>12
  <2>2. m = Name(TargetOf(Cur(s).h))' /\ m \in DOMAIN store'
    BY <1>1, <1>3, <1>9, <1>12
  <2>3. (Private(dio[s].name) /\ ~Truncated)' =>
           /\ \A i \in DOMAIN got' : Finished(i, dio[s].name)' => End(i)' <= dio'[s].orig
           /\ dio'[s].step = "written" => Ends(s)' <= store'[dio'[s].name]
    BY <1>1, <1>3, <1>10, <1>13, <2>1
  <2>4. \A t \in Table' : Name(t)' = dio'[s].name =>
           /\ (Ample /\ ~Truncated)' => \A i \in OpsOn(t)' : End(i)' <= dio'[s].orig
           /\ Tight(t)' => dio'[s].orig <= Bound(t)'
    BY <1>3, <1>4, <1>14, <2>1
  <2> QED BY <1>12, <2>1, <2>2, <2>3, <2>4 DEF DirectInv, Exists
<1>16. Stock'
  <2> SUFFICES ASSUME plan.engine # "mem", Distinct, NEW t \in Table
               PROVE  Stocked(t)'
    BY <1>3 DEF Stock
  <2>1. Stocked(t)
    BY <1>1 DEF DataInv, Stock
  <2>2. Exists(Name(t))' /\ store[Name(t)]' = store[Name(t)]
    BY <1>1, <1>3, <2>1 DEF Stocked, Exists
  <2>3. ASSUME Tight(t)' PROVE AtMost(t, store[Name(t)])'
    <3>1. AtMost(t, store[Name(t)])
      BY <1>4, <2>1, <2>3 DEF Stocked
    <3>2. ASSUME NEW r \in Streams, Cutting(r, Name(t)), store[Name(t)] <= Longer(Bound(t), AlignUp(Ends(r)))
          PROVE  AtMost(t, store[Name(t)])'
      <4>1. r # s
        BY <1>1, <3>2 DEF Cutting
      <4>2. dio'[r] = dio[r]
        BY <1>1, <1>2, <4>1
      <4>3. Cutting(r, Name(t))'
        BY <1>3, <3>2, <4>2 DEF Cutting
      <4>4. (Longer(Bound(t), AlignUp(Ends(r))))' = Longer(Bound(t), AlignUp(Ends(r)))
        BY <1>4, <1>9 DEF Longer, AlignUp
      <4> QED BY <2>2, <3>2, <4>3, <4>4 DEF AtMost
    <3>3. CASE store[Name(t)] <= Bound(t)
      BY <1>4, <2>2, <3>3 DEF AtMost
    <3> QED BY <3>1, <3>2, <3>3 DEF AtMost
  <2> QED BY <1>1, <1>3, <1>4, <2>1, <2>2, <2>3 DEF Stocked
<1> QED BY <1>6, <1>7, <1>8, <1>11, <1>15, <1>16 DEF Streamed

LEMMA DirectWriteServes ==
  ASSUME DataInv, Stored', NEW s \in Streams, DirectWrite(s)
  PROVE  Streamed' /\ Stock'
<1> DEFINE m == dio[s].name
           e == Ends(s)
<1>1. /\ UNCHANGED Past /\ mode' = mode /\ phase = "replaying" /\ phase' = "replaying" /\ cancelled' = cancelled
      /\ UNCHANGED <<hmap, handles, got, faulted>>
      /\ dio[s] # Idle /\ dio[s].step = "read"
      /\ dio' = [dio EXCEPT ![s].step = "written"]
      /\ store' = Sized(m, Longer(store[m], AlignUp(e)))
  BY DEF DirectWrite, ReplayUnchanged, TraceVars, Past, BlocksWritten, Grown, Ends
<1>2. DOMAIN dio = Streams /\ DirectInv(s)
  BY DEF DataInv, HandleInv, Tables
<1>3. /\ Opens' = Opens /\ Table' = Table /\ Truncated' = Truncated /\ Distinct' = Distinct
      /\ \A n : Private(n)' = Private(n)
      /\ \A t : Name(t)' = Name(t) /\ Needed(t)' = Needed(t) /\ OpsOn(t)' = OpsOn(t)
      /\ \A g : TargetOf(g)' = TargetOf(g)
      /\ \A i : End(i)' = End(i)
      /\ ops' = ops /\ plan' = plan
  BY <1>1, PastFixed DEF Past
<1>4. Ample' = Ample /\ \A t : Bound(t)' = Bound(t) /\ (Tight(t)' => Tight(t))
  BY <1>1, RunFixed
<1>5. /\ \A t : Cur(t)' = Cur(t) /\ Ends(t)' = Ends(t)
      /\ \A i, n : Finished(i, n)' = Finished(i, n)
  BY <1>1, <1>3, Staying DEF Finished
<1>6. /\ m \in DOMAIN store /\ store[m] \in Nat /\ e \in Nat
      /\ plan.engine = "direct" /\ dio[s].orig \in Nat /\ m = Name(TargetOf(Cur(s).h))
      /\ DOMAIN dio[s] = {"step", "orig", "name"}
  BY <1>1, <1>2, DirectUse DEF DataInv, Stored, Exists, DirectInv
<1> HIDE DEF m, e
<1>7. AlignUp(e) \in Nat /\ e <= AlignUp(e)
  BY <1>6, AlignUpRaises
<1>8. /\ DOMAIN store' = DOMAIN store
      /\ store'[m] = Longer(store[m], AlignUp(e))
      /\ \A n \in DOMAIN store : n # m => store'[n] = store[n]
  BY <1>1, <1>6 DEF Sized
<1>9. store'[m] \in Nat /\ store[m] <= store'[m] /\ e <= store'[m]
  BY <1>6, <1>7, <1>8, LongerOf
<1>10. \A n \in DOMAIN store : store[n] \in Nat /\ store'[n] \in Nat /\ store[n] <= store'[n]
  <2>1. \A n \in DOMAIN store : store[n] \in Nat
    BY DEF DataInv, Stored
  <2> QED BY <1>8, <1>9, <2>1
<1>11. Handed' /\ Faithful'
  BY <1>1, <1>8, HandedSame, FaithfulSame DEF DataInv
<1>12. InOrder'
  BY <1>1, <1>3 DEF DataInv, InOrder
<1>13. Lasting'
  <2> SUFFICES ASSUME ~Truncated, NEW i \in DOMAIN got, ops[i].op = "WRITE", got[i].ok
               PROVE  /\ got[i].name = Name(TargetOf(ops[i].h)) /\ got[i].name \in DOMAIN store'
                      /\ plan.engine # "direct" \/ Private(got[i].name) => End(i) <= store'[got[i].name]
    <3>1. \A i : Name(TargetOf(ops[i].h))' = Name(TargetOf(ops[i].h))
            /\ Private(got[i].name)' = Private(got[i].name)
      BY <1>1, <1>3
    <3> QED BY <1>1, <1>3, <3>1 DEF Lasting, Exists
  <2>1. /\ got[i].name = Name(TargetOf(ops[i].h)) /\ got[i].name \in DOMAIN store
        /\ plan.engine # "direct" \/ Private(got[i].name) => End(i) <= store[got[i].name]
    BY DEF DataInv, Lasting, Exists
  <2>2. End(i) \in Nat
    BY EndNumber DEF DataInv
  <2> QED BY <1>8, <1>10, <2>1, <2>2
<1>14. ASSUME NEW t \in Streams, t # s PROVE DirectInv(t)'
  <2>1. dio'[t] = dio[t] /\ DirectInv(t)
    BY <1>1, <1>2, <1>14 DEF DataInv
  <2>2. CASE dio[t] = Idle
    BY <2>1, <2>2 DEF DirectInv
  <2>3. CASE dio[t] # Idle
    <3>1. dio[t].name \in DOMAIN store /\ (dio[t].step = "written" /\ Private(dio[t].name) /\ ~Truncated
            => Ends(t) <= store[dio[t].name])
      BY <2>1, <2>3 DEF DirectInv, Exists
    <3>2. Ends(t) \in Nat
      BY <2>1, <2>3, DirectUse DEF DataInv
    <3>3. Exists(dio[t].name)' /\ (dio[t].step = "written" /\ Private(dio[t].name) /\ ~Truncated
            => Ends(t) <= store'[dio[t].name])
      BY <1>8, <1>10, <2>1, <3>1, <3>2 DEF Exists
    <3> QED BY <1>1, <1>5, <2>1, <2>3, <3>3, DirectKept
  <2> QED BY <2>2, <2>3
<1>15. /\ dio'[s].step = "written" /\ dio'[s].orig = dio[s].orig /\ dio'[s].name = m
       /\ DOMAIN dio'[s] = {"step", "orig", "name"}
  <2>1. dio'[s] = [dio[s] EXCEPT !.step = "written"]
    BY <1>1, <1>2
  <2> QED BY <1>6, <2>1 DEF m
<1>16. DirectInv(s)'
  <2>1. (plan.engine = "direct" /\ phase = "replaying")'
    BY <1>1, <1>3, <1>6
  <2>2. m = Name(TargetOf(Cur(s).h))' /\ m \in DOMAIN store'
    BY <1>1, <1>3, <1>5, <1>6, <1>8
  <2>3. (Private(dio[s].name) /\ ~Truncated)' =>
           /\ \A i \in DOMAIN got' : Finished(i, dio[s].name)' => End(i)' <= dio'[s].orig
           /\ dio'[s].step = "written" => Ends(s)' <= store'[dio'[s].name]
    <3>1. Private(m) /\ ~Truncated => \A i \in DOMAIN got : Finished(i, m) => End(i) <= dio[s].orig
      BY <1>1, <1>2 DEF DirectInv, m
    <3>2. Ends(s)' <= store'[m]
      BY <1>5, <1>9 DEF e
    <3> QED BY <1>1, <1>3, <1>5, <1>15, <3>1, <3>2
  <2>4. \A t \in Table' : Name(t)' = dio'[s].name =>
           /\ (Ample /\ ~Truncated)' => \A i \in OpsOn(t)' : End(i)' <= dio'[s].orig
           /\ Tight(t)' => dio'[s].orig <= Bound(t)'
    <3>1. \A t \in Table : Name(t) = m =>
           /\ Ample /\ ~Truncated => \A i \in OpsOn(t) : End(i) <= dio[s].orig
           /\ Tight(t) => dio[s].orig <= Bound(t)
      BY <1>1, <1>2 DEF DirectInv, m
    <3> QED BY <1>3, <1>4, <1>15, <3>1
  <2> QED BY <1>6, <1>15, <2>1, <2>2, <2>3, <2>4 DEF DirectInv, Exists
<1>17. Stock'
  <2> SUFFICES ASSUME plan.engine # "mem", Distinct, NEW t \in Table
               PROVE  Stocked(t)'
    BY <1>3 DEF Stock
  <2>1. Stocked(t)
    BY <1>1 DEF DataInv, Stock
  <2>2. Exists(Name(t))' /\ store[Name(t)]' = store'[Name(t)] /\ Name(t) \in DOMAIN store
    BY <1>3, <1>8, <2>1 DEF Stocked, Exists
  <2>3. Ample /\ ~Truncated => \A i \in OpsOn(t) : End(i) <= store'[Name(t)]
    <3>1. ~Truncated => \A i \in OpsOn(t) : End(i) \in Nat
      BY Bounded DEF DataInv
    <3> QED BY <1>10, <2>1, <2>2, <3>1 DEF Stocked
  <2>4. ASSUME Tight(t)' PROVE AtMost(t, store[Name(t)])'
    <3>1. AtMost(t, store[Name(t)]) /\ Tight(t)
      BY <1>4, <2>1, <2>4 DEF Stocked
    <3>2. \A r \in Streams : (Longer(Bound(t), AlignUp(Ends(r))))' = Longer(Bound(t), AlignUp(Ends(r)))
      BY <1>4, <1>5 DEF Longer, AlignUp
    <3>3. CASE Name(t) = m
      <4>1. Private(m)
        BY <1>6, <3>1, <3>3 DEF Tight
      <4>2. ASSUME NEW r \in Streams, Cutting(r, m) PROVE FALSE
        <5>1. dio[r] # Idle /\ DirectInv(r) /\ dio[r].name = m
          BY <4>2 DEF Cutting, DataInv
        <5>2. r = s
          BY <1>1, <1>2, <4>1, <5>1, Alone DEF m, DataInv
        <5> QED BY <1>1, <4>2, <5>2 DEF Cutting
      <4>3. store[m] <= Bound(t) /\ Bound(t) \in Nat
        BY <3>1, <3>3, <4>2, Bounded DEF AtMost, DataInv
      <4>4. store'[m] <= Longer(Bound(t), AlignUp(e))
        BY <1>6, <1>7, <1>8, <4>3 DEF Longer
      <4>5. Cutting(s, Name(t))'
        BY <1>3, <1>15, <3>3 DEF Cutting, Idle
      <4> QED BY <2>2, <3>2, <3>3, <4>4, <4>5 DEF AtMost, e
    <3>4. CASE Name(t) # m
      <4>1. store'[Name(t)] = store[Name(t)]
        BY <1>8, <2>2, <3>4
      <4>2. ASSUME NEW r \in Streams, Cutting(r, Name(t)) PROVE Cutting(r, Name(t))'
        <5>1. r # s
          BY <3>4, <4>2 DEF Cutting, m
        <5>2. dio'[r] = dio[r]
          BY <1>1, <1>2, <5>1
        <5> QED BY <1>3, <4>2, <5>2 DEF Cutting
      <4> QED BY <1>4, <2>2, <3>1, <3>2, <4>1, <4>2 DEF AtMost
    <3> QED BY <3>3, <3>4
  <2> QED BY <1>1, <1>3, <1>4, <2>1, <2>2, <2>3, <2>4 DEF Stocked
<1> QED BY <1>11, <1>12, <1>13, <1>14, <1>16, <1>17 DEF Streamed

LEMMA DirectCutServes ==
  ASSUME DataInv, Stored', NEW s \in Streams, DirectCut(s)
  PROVE  Streamed' /\ Stock'
<1> DEFINE m    == dio[s].name
           e    == Ends(s)
           orig == dio[s].orig
           len  == Cur(s).len
<1>1. /\ UNCHANGED Past /\ mode' = mode /\ phase = "replaying" /\ phase' = "replaying" /\ cancelled' = cancelled
      /\ UNCHANGED <<hmap, handles, faulted>>
      /\ dio[s] # Idle /\ dio[s].step = "written"
      /\ dio' = [dio EXCEPT ![s] = Idle]
      /\ Moved(s, len, TRUE, m)
      /\ store' = IF AlignUp(e) > Longer(orig, e) THEN Sized(m, Longer(orig, e)) ELSE store
  BY DEF DirectCut, ReplayUnchanged, TraceVars, Past, Cut, Ends
<1>2. DOMAIN dio = Streams /\ DirectInv(s)
  BY DEF DataInv, HandleInv, Tables
<1>3. /\ Opens' = Opens /\ Table' = Table /\ Truncated' = Truncated /\ Distinct' = Distinct
      /\ \A n : Private(n)' = Private(n)
      /\ \A t : Name(t)' = Name(t) /\ Needed(t)' = Needed(t) /\ OpsOn(t)' = OpsOn(t)
      /\ \A g : TargetOf(g)' = TargetOf(g)
      /\ \A i : End(i)' = End(i)
      /\ ops' = ops /\ plan' = plan
  BY <1>1, PastFixed DEF Past
<1>4. Ample' = Ample /\ \A t : Bound(t)' = Bound(t) /\ (Tight(t)' => Tight(t))
  BY <1>1, RunFixed
<1>5. /\ m \in DOMAIN store /\ store[m] \in Nat /\ e \in Nat
      /\ plan.engine = "direct" /\ orig \in Nat /\ m = Name(TargetOf(Cur(s).h))
  BY <1>1, <1>2, DirectUse DEF DataInv, Stored, Exists, DirectInv
<1>6. /\ More(s) /\ Cur(s).op = "WRITE" /\ At(s) \in Indices("WRITE") /\ Cur(s) = ops[At(s)] /\ e = End(At(s))
      /\ TargetOf(Cur(s).h) \in Table
  BY <1>1, <1>2, DirectUse DEF DataInv, HandleInv, Direct
<1> HIDE DEF m, e, orig, len
<1>7. /\ DOMAIN got' = DOMAIN got \cup {At(s)} /\ At(s) \notin DOMAIN got
      /\ got'[At(s)].name = m
      /\ \A i \in DOMAIN got : got'[i] = got[i]
      /\ InOrder'
      /\ \A t : t # s => Cur(t)' = Cur(t) /\ Ends(t)' = Ends(t)
  <2>1. HandleInv /\ InOrder /\ ops' = ops
    BY <1>3 DEF DataInv
  <2>2. PICK ok : Moved(s, len, ok, m)
    BY <1>1
  <2> QED BY <1>6, <2>1, <2>2, MovedOn
<1>8. AlignUp(e) \in Nat /\ e <= AlignUp(e)
  BY <1>5, AlignUpRaises
<1>9. /\ DOMAIN store' = DOMAIN store
      /\ \A n \in DOMAIN store : n # m => store'[n] = store[n]
      /\ store'[m] = IF AlignUp(e) > Longer(orig, e) THEN Longer(orig, e) ELSE store[m]
  BY <1>1, <1>5 DEF Sized
<1>10. /\ Longer(orig, e) \in Nat /\ orig <= Longer(orig, e) /\ e <= Longer(orig, e)
  BY <1>5, LongerOf
<1>11. Handed' /\ Faithful'
  <2>1. \E n, ok, name : Moved(s, n, ok, name)
    BY <1>1
  <2> QED BY <1>1, <1>6, <1>9, <2>1, HandedSame, FaithfulSame DEF DataInv
<1>12. Lasting'
  <2> SUFFICES ASSUME ~Truncated, NEW i \in DOMAIN got', ops[i].op = "WRITE", got'[i].ok
               PROVE  /\ got'[i].name = Name(TargetOf(ops[i].h)) /\ got'[i].name \in DOMAIN store'
                      /\ Private(got'[i].name) => End(i) <= store'[got'[i].name]
    <3>1. \A i : Name(TargetOf(ops[i].h))' = Name(TargetOf(ops[i].h))
            /\ Private(got[i].name)' = Private(got'[i].name)
      BY <1>3
    <3> QED BY <1>3, <1>5, <3>1 DEF Lasting, Exists
  <2>1. CASE i = At(s)
    <3>1. Private(m) => e <= store[m]
      BY <1>1, <1>2 DEF DirectInv, m, e
    <3>2. Private(m) => e <= store'[m]
      BY <1>9, <1>10, <3>1
    <3> QED BY <1>5, <1>6, <1>7, <1>9, <2>1, <3>2
  <2>2. CASE i \in DOMAIN got
    <3>1. got'[i] = got[i]
      BY <1>7, <2>2
    <3>2. /\ got[i].name = Name(TargetOf(ops[i].h)) /\ got[i].name \in DOMAIN store
          /\ Private(got[i].name) => End(i) <= store[got[i].name]
      BY <2>2, <3>1 DEF DataInv, Lasting, Exists
    <3>3. got[i].name = m /\ Private(m) => End(i) <= orig
      BY <1>1, <1>2, <2>2, <3>1 DEF DirectInv, Finished, m, orig
    <3>4. End(i) \in Nat
      BY <2>2, EndNumber DEF DataInv
    <3>5. got[i].name = m /\ Private(m) => End(i) <= store'[m]
      BY <1>5, <1>9, <1>10, <3>2, <3>3, <3>4
    <3> QED BY <1>9, <3>1, <3>2, <3>5
  <2> QED BY <1>7, <2>1, <2>2
<1>13. ASSUME NEW t \in Streams PROVE DirectInv(t)'
  <2>1. CASE t = s
    BY <1>1, <1>2, <2>1 DEF DirectInv
  <2>2. CASE t # s /\ dio[t] = Idle
    BY <1>1, <1>2, <2>2 DEF DirectInv
  <2>3. CASE t # s /\ dio[t] # Idle
    <3>1. dio'[t] = dio[t] /\ DirectInv(t) /\ Cur(t)' = Cur(t)
      BY <1>1, <1>2, <1>7, <2>3 DEF DataInv
    <3>2. dio[t].name \in DOMAIN store /\ (dio[t].step = "written" /\ Private(dio[t].name) /\ ~Truncated
            => Ends(t) <= store[dio[t].name])
      BY <2>3, <3>1 DEF DirectInv, Exists
    <3>3. Private(dio[t].name) => dio[t].name # m
      BY <1>1, <1>2, <2>3, <3>1, Alone DEF m, DataInv
    <3>4. Private(dio[t].name) => \A i : Finished(i, dio[t].name)' => Finished(i, dio[t].name)
      BY <1>3, <1>7, <3>1, <3>3 DEF Finished
    <3>5. Exists(dio[t].name)' /\ (dio[t].step = "written" /\ Private(dio[t].name) /\ ~Truncated
            => Ends(t) <= store'[dio[t].name])
      BY <1>9, <3>1, <3>2, <3>3 DEF Exists
    <3> QED BY <1>1, <2>3, <3>1, <3>4, <3>5, DirectKept
  <2> QED BY <2>1, <2>2, <2>3
<1>14. Stock'
  <2> SUFFICES ASSUME plan.engine # "mem", Distinct, NEW t \in Table
               PROVE  Stocked(t)'
    BY <1>3 DEF Stock
  <2>1. Stocked(t)
    BY <1>1 DEF DataInv, Stock
  <2>2. Exists(Name(t))' /\ store[Name(t)]' = store'[Name(t)] /\ Name(t) \in DOMAIN store
          /\ store[Name(t)] \in Nat
    BY <1>3, <1>9, <2>1 DEF Stocked, Exists, DataInv, Stored
  <2>3. Ample /\ ~Truncated => \A i \in OpsOn(t) : End(i) <= store'[Name(t)]
    <3> SUFFICES ASSUME Ample, ~Truncated, NEW i \in OpsOn(t) PROVE End(i) <= store'[Name(t)]
      OBVIOUS
    <3>1. End(i) \in Nat /\ End(i) <= store[Name(t)]
      BY <2>1, Bounded DEF DataInv, Stocked
    <3>2. Name(t) = m => End(i) <= orig
      BY <1>1, <1>2 DEF DirectInv, m, orig
    <3> QED BY <1>5, <1>9, <1>10, <2>2, <3>1, <3>2
  <2>4. ASSUME Tight(t)' PROVE AtMost(t, store[Name(t)])'
    <3>1. AtMost(t, store[Name(t)]) /\ Tight(t)
      BY <1>4, <2>1, <2>4 DEF Stocked
    <3>2. CASE Name(t) = m
      <4>1. Private(m) /\ Ample /\ ~Truncated
        BY <1>5, <3>1, <3>2 DEF Tight
      <4>2. orig <= Bound(t) /\ Bound(t) \in Nat
        BY <1>1, <1>2, <3>1, <3>2, Bounded DEF DirectInv, m, orig, DataInv
      <4>3. e <= Bound(t)
        <5>1. TargetOf(Cur(s).h) = t
          BY <1>5, <1>6, <3>2, <4>1 DEF Distinct
        <5>2. At(s) \in OpsOn(t)
          BY <1>6, <5>1 DEF OpsOn
        <5> QED BY <1>6, <4>1, <5>2, Bounded DEF DataInv
      <4>4. Longer(orig, e) <= Bound(t)
        BY <1>5, <4>2, <4>3, LongerOf
      <4>5. CASE AlignUp(e) > Longer(orig, e)
        BY <1>4, <1>9, <2>2, <3>2, <4>4, <4>5 DEF AtMost
      <4>6. CASE ~(AlignUp(e) > Longer(orig, e))
        <5>1. \A r \in Streams : Cutting(r, m) => r = s
          BY <1>1, <1>2, <4>1, Alone DEF Cutting, m, DataInv
        <5>2. store[m] <= Bound(t) \/ store[m] <= Longer(Bound(t), AlignUp(e))
          BY <3>1, <3>2, <5>1 DEF AtMost, e
        <5>3. Longer(Bound(t), AlignUp(e)) = Bound(t)
          BY <1>8, <1>10, <4>2, <4>4, <4>6 DEF Longer
        <5>4. store'[m] <= Bound(t)
          BY <1>9, <4>6, <5>2, <5>3
        <5> QED BY <1>4, <2>2, <3>2, <5>4 DEF AtMost
      <4> QED BY <4>5, <4>6
    <3>3. CASE Name(t) # m
      <4>1. store'[Name(t)] = store[Name(t)]
        BY <1>9, <2>2, <3>3
      <4>2. ASSUME NEW r \in Streams, Cutting(r, Name(t)), store[Name(t)] <= Longer(Bound(t), AlignUp(Ends(r)))
            PROVE  AtMost(t, store[Name(t)])'
        <5>1. r # s
          BY <3>3, <4>2 DEF Cutting, m
        <5>2. dio'[r] = dio[r] /\ Ends(r)' = Ends(r)
          BY <1>1, <1>2, <1>7, <5>1
        <5>3. Cutting(r, Name(t))'
          BY <1>3, <4>2, <5>2 DEF Cutting
        <5>4. (Longer(Bound(t), AlignUp(Ends(r))))' = Longer(Bound(t), AlignUp(Ends(r)))
          BY <1>4, <5>2 DEF Longer, AlignUp
        <5> QED BY <2>2, <4>1, <4>2, <5>3, <5>4 DEF AtMost
      <4>3. CASE store[Name(t)] <= Bound(t)
        BY <1>4, <2>2, <4>1, <4>3 DEF AtMost
      <4> QED BY <3>1, <4>2, <4>3 DEF AtMost
    <3> QED BY <3>2, <3>3
  <2> QED BY <1>1, <1>3, <1>4, <2>1, <2>2, <2>3, <2>4 DEF Stocked
<1> QED BY <1>7, <1>11, <1>12, <1>13, <1>14 DEF Streamed

LEMMA DirectFailsServes ==
  ASSUME DataInv, Stored', NEW s \in Streams, DirectFails(s)
  PROVE  Streamed' /\ Stock'
<1> DEFINE m == dio[s].name
<1>1. /\ UNCHANGED Past /\ mode' = mode /\ phase = "replaying" /\ phase' = "replaying" /\ cancelled' = cancelled
      /\ UNCHANGED <<hmap, handles, store>> /\ faulted' = TRUE
      /\ dio[s] # Idle /\ dio' = [dio EXCEPT ![s] = Idle]
      /\ Moved(s, 0, FALSE, m)
  BY DEF DirectFails, ReplayUnchanged, TraceVars, Past
<1>2. DOMAIN dio = Streams /\ More(s) /\ Cur(s).op = "WRITE"
  BY <1>1 DEF DataInv, HandleInv, Tables, Direct
<1> HIDE DEF m
<1>3. /\ Opens' = Opens /\ Table' = Table /\ Truncated' = Truncated /\ Distinct' = Distinct
      /\ \A n : Private(n)' = Private(n)
      /\ \A t : Name(t)' = Name(t) /\ Needed(t)' = Needed(t) /\ OpsOn(t)' = OpsOn(t)
      /\ \A g : TargetOf(g)' = TargetOf(g)
      /\ \A i : End(i)' = End(i)
      /\ ops' = ops /\ plan' = plan
  BY <1>1, PastFixed DEF Past
<1>4. /\ DOMAIN got' = DOMAIN got \cup {At(s)} /\ At(s) \notin DOMAIN got
      /\ got'[At(s)].ok = FALSE
      /\ \A i \in DOMAIN got : got'[i] = got[i]
      /\ InOrder'
      /\ \A t : t # s => Cur(t)' = Cur(t) /\ Ends(t)' = Ends(t)
  <2>1. HandleInv /\ InOrder /\ ops' = ops
    BY <1>3 DEF DataInv
  <2> QED BY <1>1, <1>2, <2>1, MovedOn
<1>5. Ample' = Ample /\ \A t : Bound(t)' = Bound(t)
  BY <1>1, RunFixed
<1>6. Handed' /\ Faithful'
  <2>1. \E n, ok, name : Moved(s, n, ok, name)
    BY <1>1
  <2> QED BY <1>1, <1>2, <2>1, HandedSame, FaithfulSame DEF DataInv
<1>7. Lasting'
  <2>1. \A i : Name(TargetOf(ops[i].h))' = Name(TargetOf(ops[i].h))
          /\ Private(got[i].name)' = Private(got'[i].name)
    BY <1>3
  <2> QED BY <1>1, <1>3, <1>4, <2>1 DEF DataInv, Lasting, Exists
<1>8. ASSUME NEW t \in Streams PROVE DirectInv(t)'
  <2>1. CASE t = s
    BY <1>1, <1>2, <2>1 DEF DirectInv
  <2>2. CASE t # s /\ dio[t] = Idle
    BY <1>1, <1>2, <2>2 DEF DirectInv
  <2>3. CASE t # s /\ dio[t] # Idle
    <3>1. dio'[t] = dio[t] /\ DirectInv(t) /\ Cur(t)' = Cur(t)
      BY <1>1, <1>2, <1>4, <2>3 DEF DataInv
    <3>2. \A i : Finished(i, dio[t].name)' => Finished(i, dio[t].name)
      BY <1>3, <1>4, <3>1 DEF Finished
    <3>3. Exists(dio[t].name)' /\ (dio[t].step = "written" /\ Private(dio[t].name) /\ ~Truncated
            => Ends(t) <= store'[dio[t].name])
      BY <1>1, <2>3, <3>1 DEF DirectInv, Exists
    <3> QED BY <1>1, <2>3, <3>1, <3>2, <3>3, DirectKept
  <2> QED BY <2>1, <2>2, <2>3
<1>9. Stock'
  <2> SUFFICES ASSUME plan.engine # "mem", Distinct, NEW t \in Table
               PROVE  Stocked(t)'
    BY <1>3 DEF Stock
  <2>1. Stocked(t)
    BY <1>1 DEF DataInv, Stock
  <2>2. Exists(Name(t))' /\ store[Name(t)]' = store[Name(t)] /\ ~Tight(t)'
    BY <1>1, <1>3, <2>1 DEF Stocked, Exists, Tight
  <2> QED BY <1>1, <1>3, <1>5, <2>1, <2>2 DEF Stocked
<1> QED BY <1>4, <1>6, <1>7, <1>8, <1>9 DEF Streamed

-----------------------------------------------------------------------------
LEMMA ReplayingServes ==
  ASSUME DataInv, Stored', Replaying
  PROVE  Streamed' /\ Stock'
<1>1. PICK s \in Streams :
        \/ DirectStat(s) \/ DirectWrite(s) \/ DirectCut(s) \/ DirectFails(s)
        \/ \E fails \in BOOLEAN : Open(s, fails) \/ Read(s, fails) \/ Write(s, fails)
                                    \/ Fsync(s, fails) \/ Close(s, fails)
  BY ReplayedBy
<1>2. CASE DirectStat(s) \/ DirectWrite(s) \/ DirectCut(s) \/ DirectFails(s)
  BY <1>2, DirectStatServes, DirectWriteServes, DirectCutServes, DirectFailsServes
<1>3. ASSUME NEW fails \in BOOLEAN, Open(s, fails) \/ Close(s, fails)
      PROVE  Streamed' /\ Stock'
  BY <1>3, OpenServes, CloseServes
<1>4. ASSUME NEW fails \in BOOLEAN, Read(s, fails) \/ Write(s, fails) \/ Fsync(s, fails)
      PROVE  Streamed' /\ Stock'
  BY <1>4, ReadServes, WriteServes, FsyncServes
<1> QED BY <1>1, <1>2, <1>3, <1>4

LEMMA DataInvInit == Init => DataInv
<1> SUFFICES ASSUME Init PROVE DataInv
  OBVIOUS
<1>1. HandleInv /\ Recording
  BY HandleInvInit, RecordingInit
<1>2. /\ phase = "capture" /\ job = NoJob /\ store = <<>> /\ got = <<>>
      /\ plan \in Plans /\ mode \in plan.modes
      /\ \A s \in Streams : hmap[s] = <<>> /\ dio[s] = Idle
  BY DEF Init
<1>3. Sizing /\ Named /\ Stock
  BY <1>2 DEF Sizing, Named, Stock
<1>4. Modes
  BY <1>2, PlansAssumption DEF Modes
<1>5. DOMAIN store = {} /\ DOMAIN got = {} /\ \A s \in Streams : DOMAIN hmap[s] = {}
  BY <1>2
<1>6. Stored /\ InOrder /\ Handed /\ Lasting
  BY <1>2, <1>5 DEF Stored, InOrder, Handed, Lasting
<1>7. Faithful /\ \A s \in Streams : DirectInv(s)
  BY <1>2, <1>5 DEF Faithful, DirectInv
<1> QED BY <1>1, <1>3, <1>4, <1>6, <1>7 DEF DataInv

LEMMA DataInvStep == DataInv /\ [Next]_dataVars => DataInv'
<1> SUFFICES ASSUME DataInv, [Next]_dataVars PROVE DataInv'
  OBVIOUS
<1>1. HandleInv' /\ Recording'
  BY HandleInvStep, RecordingStep DEF DataInv
<1>2. Sizing' /\ Modes' /\ Named'
  BY SizingStep, ModesStep, NamedStep DEF DataInv
<1>3. Stored'
  BY StoredStep DEF DataInv
<1>4. Streamed' /\ Stock'
  <2>1. CASE Replaying
    BY <1>3, <2>1, ReplayingServes
  <2>2. CASE Capturing \/ CaptureEnds \/ Load \/ PreparingStep \/ PrimingStep \/ Over \/ Cancel \/ Done
             \/ (\E m \in plan.modes : Again(m)) \/ UNCHANGED dataVars
    BY <1>1, <2>2, ControlPasses DEF DataInv, Streamed
  <2> QED BY <2>1, <2>2 DEF Next
<1> QED BY <1>1, <1>2, <1>3, <1>4 DEF DataInv, Streamed

(* Every read of a replay without failures moves the bytes the program's read *)
(* moved, short reads included, from a dataset made up from the trace alone,  *)
(* copied or found to be there (prepare.go:54, scheduler.go:695).             *)
THEOREM EveryReadReproduced == Spec => []ReadsReproduced
<1>1. DataInv => ReadsReproduced
  BY DEF DataInv, Faithful, ReadsReproduced
<1> QED BY DataInvInit, DataInvStep, <1>1, PTL DEF Spec

LEMMA RequiredNeeded ==
  ASSUME HandleInv, Recording, Distinct, NEW t \in Table, Needed(t) > 0
  PROVE  Required(Name(t)) = Needed(t)
<1> DEFINE T == {u \in Table : Name(u) = Name(t) /\ Needed(u) > 0}
<1>1. Required(Name(t)) = IF T = {} THEN None ELSE Needed(CHOOSE u \in T : \A v \in T : v <= u)
  BY Zenon DEF Required
<1>2. T = {t}
  BY DEF Distinct
<1> HIDE DEF T
<1>3. t \in Nat
  BY TargetNumbers
<1>4. (CHOOSE u \in T : \A v \in T : v <= u) = t
  BY <1>2, <1>3
<1> QED BY <1>1, <1>2, <1>4

(* What a finished WRITE wrote stays in the file, whatever two streams' direct *)
(* writes to it do to each other's blocks, and no padding is left behind by a *)
(* stream that has the file to itself (direct_linux.go:100).                  *)
THEOREM FinishedWritesStay == Spec => []WritesKept
<1>1. DataInv => WritesKept
  <2> SUFFICES ASSUME DataInv, phase \in {"replaying", "over"}, ~Truncated, NEW name \in DOMAIN store
               PROVE  /\ plan.engine # "direct" \/ Private(name) \/ Ample => SizeKept(name)
                      /\ Private(name) /\ ~faulted => NoPadding(name)
    BY DEF WritesKept
  <2>1. ASSUME plan.engine # "direct" \/ Private(name) \/ Ample,
               NEW i \in DOMAIN got, ops[i].op = "WRITE", got[i].ok, got[i].name = name
        PROVE  End(i) <= store[name]
    <3>1. /\ name = Name(TargetOf(ops[i].h))
          /\ plan.engine # "direct" \/ Private(name) => End(i) <= store[name]
      BY <2>1 DEF DataInv, Lasting
    <3>2. CASE Ample /\ plan.engine = "direct"
      <4>1. i \in Indices("WRITE") /\ Reach(i)
        BY <2>1 DEF DataInv, InOrder, Recording, Transfers, Indices
      <4>2. PICK j \in Opens : TargetOf(ops[i].h) = ops[j].tgt
        BY <4>1, UseFound DEF DataInv, HandleInv, Recording, Indices
      <4>3. TargetOf(ops[i].h) \in Table /\ i \in OpsOn(TargetOf(ops[i].h))
        BY <4>1, <4>2 DEF Table, Opens, OpsOn
      <4>4. Stocked(TargetOf(ops[i].h))
        BY <3>2, <4>3 DEF DataInv, Stock, Ample
      <4> QED BY <3>1, <3>2, <4>3, <4>4 DEF Stocked
    <3> QED BY <2>1, <3>1, <3>2
  <2>2. ASSUME Private(name), ~faulted, mode = "synthetic", Distinct, plan.engine # "mem",
               \A s \in Streams : dio[s] = Idle
        PROVE  store[name] <= Required(name)
    <3>1. PICK t \in Table : Name(t) = name
      BY DEF DataInv, Stored
    <3>2. Stocked(t)
      BY <2>2 DEF DataInv, Stock
    <3>3. Needed(t) > 0 /\ Bound(t) = Needed(t)
      BY <2>2, <3>2 DEF Stocked, Bound
    <3>4. Tight(t)
      BY <2>2, <3>1, <3>3 DEF Tight, Ample
    <3>5. store[name] <= Bound(t)
      BY <2>2, <3>1, <3>2, <3>4 DEF Stocked, AtMost, Cutting
    <3>6. Required(name) = Needed(t)
      BY <2>2, <3>1, <3>3, RequiredNeeded DEF DataInv
    <3> QED BY <3>3, <3>5, <3>6
  <2>3. plan.engine # "direct" \/ Private(name) \/ Ample => SizeKept(name)
    BY <2>1 DEF SizeKept
  <2>4. Private(name) /\ ~faulted => NoPadding(name)
    BY <2>2 DEF NoPadding
  <2> QED BY <2>3, <2>4
<1> QED BY DataInvInit, DataInvStep, <1>1, PTL DEF Spec
=============================================================================
