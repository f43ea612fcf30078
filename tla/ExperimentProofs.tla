--------------------------- MODULE ExperimentProofs ---------------------------
(* That the results file is never torn, whatever call of its write fails and   *)
(* wherever power is lost; that the exit status of `run' and `experiment'      *)
(* tells the truth about the files they leave; that the merged series of a     *)
(* distributed run is whole; and that the statuses of an experiment are what   *)
(* the sign test says of its rounds: for every study.                          *)
EXTENDS ExperimentProps, DataInduction, SequenceTheorems, TLAPS

(* What makes it so: beyond Sync the temporary file is whole and on the disk,  *)
(* and nothing but a rename touches path.                                      *)
Flushed == {"synced", "permitted", "closed"}
Replaced == {"renamed", "done"}
Steps == {"idle", "created", "written", "failed", "crashed"} \cup Flushed \cup Replaced

FileInv ==
  /\ NeverTorn
  /\ writing \in Steps
  /\ writing \in Flushed => temp = "new" /\ synced
  /\ writing \in Replaced => synced
  /\ file = "new" /\ writing # "crashed" => synced

(* The invariant holds before the write, and every call keeps it. *)
LEMMA FileInvInit == FileInit => FileInv
  BY DEF FileInit, FileInv, NeverTorn, Steps, Flushed, Replaced

LEMMA FileInvStep == FileInv /\ [FileNext]_fileVars => FileInv'
<1> SUFFICES ASSUME FileInv, [FileNext]_fileVars PROVE FileInv'
  OBVIOUS
<1> USE DEF FileInv, NeverTorn, Steps, Flushed, Replaced
<1>1. CASE CreateTemp \/ CreateFails
  BY <1>1 DEF CreateTemp, CreateFails, Step
<1>2. ASSUME NEW contents \in {"new", "torn"}, WriteContents(contents) PROVE FileInv'
  BY <1>2 DEF WriteContents, Step
<1>3. CASE Sync
  BY <1>3 DEF Sync, Step
<1>4. CASE Chmod \/ CloseTemp
  BY <1>4 DEF Chmod, CloseTemp, Step
<1>5. CASE Rename
  <2>1. writing = "closed" /\ writing' = "renamed" /\ file' = temp /\ synced' = synced
    BY <1>5 DEF Rename, Step
  <2>2. temp = "new" /\ synced   \* what reaches path has been flushed
    BY <2>1
  <2> QED BY <2>1, <2>2
<1>6. ASSUME NEW works \in BOOLEAN, SyncDir(works) PROVE FileInv'
  BY <1>6 DEF SyncDir, Step
<1>7. ASSUME NEW step \in {"created", "written", "synced", "permitted", "closed"},
             NEW removed \in BOOLEAN, Fails(step, removed)
      PROVE  FileInv'
  BY <1>7 DEF Fails, Abandon
<1>8. ASSUME NEW found \in {"old", "new", "torn"}, CrashLeaves(found) PROVE FileInv'
  <2>1. found \in {"old", "new"}
    <3>1. Survives(file) = {file}   \* path holds nothing that is not on the disk
      <4>1. CASE writing = "crashed"
        BY <4>1, <1>8 DEF CrashLeaves
      <4>2. CASE writing # "crashed"
        BY <4>2 DEF Survives
      <4> QED BY <4>1, <4>2
    <3> QED BY <3>1, <1>8 DEF CrashLeaves
  <2> QED BY <2>1, <1>8 DEF CrashLeaves
<1>9. CASE UNCHANGED fileVars
  BY <1>9 DEF fileVars
<1> QED BY <1>1, <1>2, <1>3, <1>4, <1>5, <1>6, <1>7, <1>8, <1>9 DEF FileNext, WriteStep

(* A reader of the results file finds the old contents or the new, whole, also *)
(* after a crash between any two calls of WriteJSONFile (results.go:319).      *)
THEOREM ResultsNeverTorn == FileSpec => []NeverTorn
<1>1. FileInv => NeverTorn
  BY DEF FileInv
<1> QED BY FileInvInit, FileInvStep, <1>1, PTL DEF FileSpec

-----------------------------------------------------------------------------

Phases == {"between", "measuring", "replaying", "writing", "csv", "over", "crashed"}
Rounding == {"between", "measuring", "replaying"}

(* What the write has come to in each phase.                                   *)
Places ==
  /\ phase \in Phases
  /\ phase \in Rounding => writing = "idle"
  /\ phase = "csv" => writing = "done"
  /\ phase = "crashed" => writing = "crashed"
  /\ phase # "crashed" => writing # "crashed"

Installed == writing \in Replaced => file = "new" /\ temp = None

(* Of a `run' there is a trial for each measured round, but for the one that   *)
(* is being measured.                                                          *)
IsSeq(s) == \E S : s \in Seq(S)

Pending == IF phase \in {"measuring", "replaying"} /\ ~Warming THEN 1 ELSE 0

Counts ==
  /\ DOMAIN trials = Arms
  /\ IsSeq(trials["baseline"])
  /\ IsSeq(measured)
  /\ phase \in {"measuring", "replaying"} => order = <<"baseline">>
  /\ phase \notin {"over", "crashed"} => Len(measured) = Len(trials["baseline"]) + Pending

(* What was said when the command ended, and the rows behind it.               *)
Told ==
  /\ phase = "over" /\ exit \notin {1, 2} => writing = "done"
  /\ rows > 0 => writing \in {"done", "crashed"}
  /\ phase = "over" /\ study.csv /\ exit # 2 /\ writing = "done" => rows = Len(measured)

StudyInv ==
  /\ study \in Studies /\ round \in Nat /\ rows \in Nat
  /\ FileInv
  /\ Places
  /\ Installed
  /\ ~Paired => Counts
  /\ Told

-----------------------------------------------------------------------------
LEMMA Appended1 ==
  ASSUME NEW s, IsSeq(s), NEW e
  PROVE  IsSeq(Append(s, e)) /\ Len(Append(s, e)) = Len(s) + 1 /\ Len(s) \in Nat
<1>1. PICK S : s \in Seq(S)
  BY DEF IsSeq
<1>2. s \in Seq(S \cup {e})
  BY <1>1
<1>3. Append(s, e) \in Seq(S \cup {e}) /\ Len(Append(s, e)) = Len(s) + 1 /\ Len(s) \in Nat
  BY <1>2
<1> QED BY <1>3 DEF IsSeq

(* Replacing the last element keeps the length. *)
LEMMA Replaced1 ==
  ASSUME NEW s, IsSeq(s), Len(s) # 0, NEW e
  PROVE  LET r == [s EXCEPT ![Len(s)] = e] IN IsSeq(r) /\ Len(r) = Len(s)
<1>1. PICK S : s \in Seq(S)
  BY DEF IsSeq
<1>2. s \in Seq(S \cup {e}) /\ Len(s) \in 1..Len(s)
  BY <1>1
<1>3. LET r == [s EXCEPT ![Len(s)] = e] IN r \in Seq(S \cup {e}) /\ Len(r) = Len(s)
  BY <1>2, ExceptSeq
<1> QED BY <1>3 DEF IsSeq

(* The file's part of the invariant needs the file's variables only. *)
LEMMA FileKept ==
  ASSUME StudyInv, UNCHANGED fileVars
  PROVE  FileInv' /\ Installed'
  BY DEF StudyInv, FileInv, NeverTorn, Installed, fileVars

LEMMA StudyInvInit == Init => StudyInv
<1> SUFFICES ASSUME Init PROVE StudyInv
  OBVIOUS
<1>1. FileInv
  BY FileInvInit DEF Init
<1>2. Installed /\ Places
  BY DEF Init, FileInit, Installed, Replaced, Places, Phases, Rounding
<1>3. Counts
  <2>1. IsSeq(<<>>) /\ Len(<<>>) = 0
    <3>1. <<>> \in Seq({}) /\ Len(<<>>) = 0
      OBVIOUS
    <3> QED BY <3>1 DEF IsSeq
  <2> QED BY <2>1 DEF Init, Counts, Arms, Pending
<1> QED BY <1>1, <1>2, <1>3 DEF Init, StudyInv, Told

-----------------------------------------------------------------------------
(* The rounds: what is counted when one begins and when its result comes.      *)
LEMMA RoundStep ==
  ASSUME StudyInv, NEW first \in Arms, NextRound(first)
  PROVE  StudyInv'
<1> USE DEF StudyInv
<1>1. FileInv' /\ Installed'
  BY FileKept DEF NextRound
<1>2. Places' /\ Told'
  BY DEF NextRound, Executing, Places, Phases, Rounding, Told, fileVars
<1>3. ASSUME ~Paired PROVE Counts'
  <2>1. Counts /\ order' = <<"baseline">> /\ trials' = trials /\ study' = study
    BY <1>3 DEF NextRound, Paired
  <2>2. study.warmup \in Nat
    BY StudiesAssumption
  <2>3. Len(measured) = Len(trials["baseline"])
    BY <2>1 DEF NextRound, Counts, Pending
  <2>4. round' = round + 1 /\ phase' \in {"measuring", "replaying"}
    BY DEF NextRound, Executing
  <2>5. CASE round < study.warmup
    <3>1. measured' = measured
      BY <2>5 DEF NextRound
    <3>2. Pending' = 0
      BY <2>1, <2>2, <2>4, <2>5 DEF Pending, Warming
    <3> QED BY <2>1, <2>3, <3>1, <3>2, Appended1 DEF Counts
  <2>6. CASE ~(round < study.warmup)
    <3>1. measured' = Append(measured, [a \in Arms |-> None])
      BY <2>6 DEF NextRound
    <3>2. IsSeq(measured') /\ Len(measured') = Len(measured) + 1
      BY <2>1, <3>1, Appended1 DEF Counts
    <3>3. Pending' = 1
      BY <2>1, <2>2, <2>4, <2>6 DEF Pending, Warming
    <3> QED BY <2>1, <2>3, <3>2, <3>3 DEF Counts
  <2> QED BY <2>5, <2>6
<1>4. study' = study /\ round' \in Nat /\ rows' = rows
  BY DEF NextRound
<1> QED BY <1>1, <1>2, <1>3, <1>4 DEF Paired

LEMMA MeasuredStep ==
  ASSUME StudyInv, phase \in {"measuring", "replaying"}, NEW result, Measured(result)
  PROVE  StudyInv'
<1> USE DEF StudyInv
<1>1. FileInv' /\ Installed'
  BY FileKept DEF Measured
<1>2. Places' /\ Told'
  BY DEF Measured, Executing, Places, Phases, Rounding, Told, fileVars
<1>3. ASSUME ~Paired PROVE Counts'
  <2>1. Counts /\ order = <<"baseline">>
    BY <1>3 DEF Counts
  <2>2. Head(order) = "baseline" /\ Tail(order) = <<>>
    BY <2>1
  <2>3. phase' = "between" /\ Pending' = 0 /\ study' = study /\ round' = round
    BY <2>2 DEF Measured, Pending
  <2>4. CASE Warming
    BY <2>1, <2>3, <2>4 DEF Measured, Counts, Pending
  <2>5. CASE ~Warming
    <3>1. Len(measured) = Len(trials["baseline"]) + 1
      BY <2>1, <2>5 DEF Counts, Pending
    <3>2. trials' = [trials EXCEPT !["baseline"] = Append(@, result)]
      BY <2>2, <2>5 DEF Measured, Filed
    <3>3. /\ DOMAIN trials' = Arms
          /\ IsSeq(trials'["baseline"])
          /\ Len(trials'["baseline"]) = Len(trials["baseline"]) + 1
      BY <2>1, <3>2, Appended1 DEF Counts, Arms
    <3>4. Len(measured) # 0
      BY <2>1, <3>1, Appended1 DEF Counts
    <3>5. IsSeq(measured') /\ Len(measured') = Len(measured)
      <4> DEFINE e == [measured[Len(measured)] EXCEPT !["baseline"] = result]
      <4>1. measured' = [measured EXCEPT ![Len(measured)] = e]
        BY <2>2, <2>5 DEF Measured
      <4> QED BY <4>1, <3>4, <2>1, Replaced1 DEF Counts
    <3>6. phase' = "between" /\ Pending' = 0
      BY <2>3
    <3> QED BY <3>1, <3>3, <3>5, <3>6, Appended1, <2>1 DEF Counts
  <2> QED BY <2>4, <2>5
<1>4. study' = study /\ round' = round /\ rows' = rows
  BY DEF Measured
<1> QED BY <1>1, <1>2, <1>3, <1>4 DEF Paired

-----------------------------------------------------------------------------
(* Counts looks at the phase only to see whether a trial is being measured.    *)
LEMMA CountsKept ==
  ASSUME Counts, Places,
         phase \notin {"measuring", "replaying"}, phase' \notin {"measuring", "replaying"},
         phase \in {"over", "crashed"} => phase' \in {"over", "crashed"},
         UNCHANGED <<trials, measured>>
  PROVE  Counts'
  BY DEF Counts, Pending

(* The output: what has been written when the command says that it ended.      *)
LEMMA WriteStepInv ==
  ASSUME StudyInv, Write
  PROVE  StudyInv'
<1> USE DEF StudyInv
<1>1. FileInv'
  BY FileInvStep DEF Write, FileNext
<1>2. WriteStep /\ phase = "writing" /\ writing # "crashed" /\ UNCHANGED studyVars
  BY DEF Write, Places
<1>3. Installed' /\ writing' # "crashed"
  <2> USE DEF Installed, Replaced, Step
  <2>1. CASE CreateTemp \/ CreateFails \/ Sync \/ Chmod \/ CloseTemp
    BY <1>2, <2>1 DEF CreateTemp, CreateFails, Sync, Chmod, CloseTemp
  <2>2. CASE \E contents \in {"new", "torn"} : WriteContents(contents)
    BY <1>2, <2>2 DEF WriteContents
  <2>3. CASE Rename
    BY <1>2, <2>3 DEF Rename, FileInv, Flushed
  <2>4. CASE \E works \in BOOLEAN : SyncDir(works)
    BY <1>2, <2>4 DEF SyncDir
  <2>5. CASE \E step \in {"created", "written", "synced", "permitted", "closed"},
                removed \in BOOLEAN : Fails(step, removed)
    BY <1>2, <2>5 DEF Fails, Abandon
  <2> QED BY <1>2, <2>1, <2>2, <2>3, <2>4, <2>5 DEF WriteStep
<1>4. rows = 0   \* no row before the results are done
  <2>1. writing # "done"
    BY <1>2 DEF WriteStep, CreateTemp, CreateFails, WriteContents, Sync, Chmod, CloseTemp, Rename, SyncDir,
                Fails, Step
  <2> QED BY <2>1, <1>2 DEF Told
<1>5. Places' /\ Told'
  BY <1>2, <1>3, <1>4 DEF Places, Rounding, Phases, Told, studyVars
<1>6. ~Paired => Counts'
  BY <1>2, CountsKept DEF studyVars
<1> QED BY <1>1, <1>2, <1>3, <1>5, <1>6 DEF studyVars, Paired

LEMMA CrashStep ==
  ASSUME StudyInv, Crash
  PROVE  StudyInv'
<1> USE DEF StudyInv
<1>1. PICK found \in {"old", "new", "torn"} : CrashLeaves(found)
  BY DEF Crash
<1>2. FileInv'
  BY <1>1, FileInvStep DEF FileNext
<1>3. /\ phase \notin Rounding /\ phase' = "crashed" /\ writing' = "crashed"
      /\ UNCHANGED <<study, round, order, trials, measured, rows, exit>>
  BY <1>1 DEF Crash, CrashLeaves, Places
<1>4. Installed' /\ Places' /\ Told'
  BY <1>3 DEF Installed, Replaced, Places, Phases, Rounding, Told
<1>5. ~Paired => Counts'
  BY <1>3, CountsKept DEF Rounding
<1> QED BY <1>2, <1>3, <1>4, <1>5 DEF Paired

(* The steps that only move on to what comes next, or end the command.         *)
LEMMA ControlStep ==
  ASSUME StudyInv,
         RunFails \/ Finish \/ WriteFailed \/ Written \/ AppendRow \/ AppendFails \/ Appended
  PROVE  StudyInv'
<1> USE DEF StudyInv, Exits
<1>1. UNCHANGED <<fileVars, study, round, order, trials, measured>>
  BY DEF RunFails, Finish, WriteFailed, Written, AppendRow, AppendFails, Appended
<1>2. FileInv' /\ Installed'
  BY <1>1, FileKept
<1>3. ~Paired => Counts'
  <2>1. CASE RunFails
    BY <2>1, <1>1 DEF RunFails, Counts
  <2>2. CASE ~RunFails
    <3>1. phase \in {"between", "writing", "csv"} /\ phase' \in {"writing", "csv", "over"}
      BY <2>2 DEF Finish, WriteFailed, Written, AppendRow, AppendFails, Appended
    <3> QED BY <3>1, <1>1, CountsKept
  <2> QED BY <2>1, <2>2
<1>4. Places' /\ Told' /\ rows' \in Nat
  <2> USE DEF Places, Phases, Rounding, Told, fileVars
  <2>1. CASE RunFails
    BY <2>1 DEF RunFails
  <2>2. CASE Finish
    BY <2>2 DEF Finish
  <2>3. CASE WriteFailed
    BY <2>3 DEF WriteFailed
  <2>4. CASE Written
    BY <2>4, StudiesAssumption DEF Written, Paired
  <2>5. CASE AppendRow
    BY <2>5 DEF AppendRow
  <2>6. CASE AppendFails
    BY <2>6 DEF AppendFails
  <2>7. CASE Appended
    <3>1. study.csv => rows = Len(measured)   \* a row for each trial
      BY <2>7, StudiesAssumption, Appended1 DEF Appended, Counts, Pending, Paired
    <3> QED BY <2>7, <3>1 DEF Appended
  <2> QED BY <2>1, <2>2, <2>3, <2>4, <2>5, <2>6, <2>7
<1> QED BY <1>1, <1>2, <1>3, <1>4 DEF Paired

LEMMA StutterStep ==
  ASSUME StudyInv, UNCHANGED <<fileVars, studyVars>>
  PROVE  StudyInv'
<1>1. FileInv' /\ Installed'
  BY FileKept
<1>2. Places' /\ Told' /\ (~Paired => Counts')
  BY DEF StudyInv, Places, Told, Counts, Pending, Warming, Paired, fileVars, studyVars
<1> QED BY <1>1, <1>2 DEF StudyInv, Paired, studyVars

LEMMA StudyInvStep == StudyInv /\ [Next]_vars => StudyInv'
<1> SUFFICES ASSUME StudyInv, [Next]_vars PROVE StudyInv'
  OBVIOUS
<1>1. ASSUME NEW first \in Arms, NextRound(first) PROVE StudyInv'
  BY <1>1, RoundStep
<1>2. ASSUME NEW time, NEW valid, RunArm(time, valid) PROVE StudyInv'
  BY <1>2, MeasuredStep DEF RunArm
<1>3. ASSUME NEW valid, Collected(valid) PROVE StudyInv'
  BY <1>3, MeasuredStep DEF Collected
<1>4. CASE RunFails \/ Finish \/ WriteFailed \/ Written \/ AppendRow \/ AppendFails \/ Appended
  BY <1>4, ControlStep
<1>5. CASE Write
  BY <1>5, WriteStepInv
<1>6. CASE Crash
  BY <1>6, CrashStep
<1>7. CASE Replay \/ Done \/ UNCHANGED vars
  BY <1>7, StutterStep DEF Replay, Done, vars
<1> QED BY <1>1, <1>2, <1>3, <1>4, <1>5, <1>6, <1>7 DEF Next

(* Whatever fails and wherever power is lost, at path are the old results or   *)
(* the new ones, whole; a status other than an I/O failure or a failed trial   *)
(* means that they are there, without a temporary file besides; and of a `run' *)
(* that wrote them each measured trial has its row (results.go:319, run.go).   *)
THEOREM StatusTellsTheTruth == Spec => []FileWhole
<1>1. StudyInv => FileWhole
  BY DEF StudyInv, FileInv, Told, Installed, Replaced, FileWhole
<1> QED BY StudyInvInit, StudyInvStep, <1>1, PTL DEF Spec

-----------------------------------------------------------------------------
(* The workers of a run.  A worker's total never falls, its points lie on or   *)
(* below it, in order, and once it has ended its last point is its total.      *)
Points == [at : Nat, ops : Nat]

HostInv ==
  /\ IsFiniteSet(hosts) /\ ended \subseteq hosts
  /\ elapsed \in [hosts -> Nat] /\ done \in [hosts -> Nat]
  /\ doneAt \in [hosts -> Seq(Nat)]
  /\ series \in [hosts -> Seq(Points)]
  /\ \A h \in hosts : Len(doneAt[h]) = elapsed[h] + 1 /\ doneAt[h][elapsed[h] + 1] = done[h]
  /\ \A h \in hosts : \A i, j \in DOMAIN doneAt[h] : i <= j => doneAt[h][i] <= doneAt[h][j]
  /\ \A h \in hosts : \A i \in DOMAIN series[h] :
       series[h][i].at <= elapsed[h] /\ series[h][i].ops <= doneAt[h][series[h][i].at + 1]
  /\ \A h \in hosts : \A i, j \in DOMAIN series[h] :
       i <= j => series[h][i].at <= series[h][j].at /\ series[h][i].ops <= series[h][j].ops
  /\ \A h \in ended : series[h] # <<>> /\ Last(series[h]).ops = done[h]

LEMMA WorkerIs ==
  ASSUME HostInv, NEW h \in hosts
  PROVE  /\ elapsed[h] \in Nat /\ done[h] \in Nat
         /\ doneAt[h] \in Seq(Nat) /\ DOMAIN doneAt[h] = 1..(elapsed[h] + 1) /\ Len(doneAt[h]) = elapsed[h] + 1
         /\ series[h] \in Seq(Points) /\ DOMAIN series[h] = 1..Len(series[h]) /\ Len(series[h]) \in Nat
         /\ doneAt[h][elapsed[h] + 1] = done[h]
         /\ \A i, j \in 1..(elapsed[h] + 1) : i <= j => doneAt[h][i] <= doneAt[h][j]
<1>1. elapsed[h] \in Nat /\ done[h] \in Nat /\ doneAt[h] \in Seq(Nat) /\ series[h] \in Seq(Points)
  BY DEF HostInv
<1>2. Len(doneAt[h]) = elapsed[h] + 1 /\ doneAt[h][elapsed[h] + 1] = done[h]
  BY DEF HostInv
<1>3. DOMAIN doneAt[h] = 1..(elapsed[h] + 1) /\ DOMAIN series[h] = 1..Len(series[h]) /\ Len(series[h]) \in Nat
  BY <1>1, <1>2
<1>4. \A i, j \in DOMAIN doneAt[h] : i <= j => doneAt[h][i] <= doneAt[h][j]
  BY DEF HostInv
<1> QED BY <1>1, <1>2, <1>3, <1>4

LEMMA PointIs ==
  ASSUME HostInv, NEW h \in hosts, NEW i \in DOMAIN series[h]
  PROVE  /\ series[h][i] \in Points /\ series[h][i].at \in Nat /\ series[h][i].ops \in Nat
         /\ series[h][i].at <= elapsed[h] /\ series[h][i].at + 1 \in 1..(elapsed[h] + 1)
         /\ series[h][i].ops <= doneAt[h][series[h][i].at + 1]
         /\ doneAt[h][series[h][i].at + 1] \in Nat /\ series[h][i].ops <= done[h]
<1>1. series[h][i] \in Points
  BY WorkerIs
<1>2. series[h][i].at \in Nat /\ series[h][i].ops \in Nat
  BY <1>1 DEF Points
<1>3. series[h][i].at <= elapsed[h] /\ series[h][i].ops <= doneAt[h][series[h][i].at + 1]
  BY DEF HostInv
<1>4. elapsed[h] \in Nat /\ done[h] \in Nat /\ doneAt[h] \in Seq(Nat) /\ DOMAIN doneAt[h] = 1..(elapsed[h] + 1)
  BY WorkerIs
<1>5. series[h][i].at + 1 \in 1..(elapsed[h] + 1) /\ elapsed[h] + 1 \in 1..(elapsed[h] + 1)
      /\ series[h][i].at + 1 <= elapsed[h] + 1
  BY <1>2, <1>3, <1>4
<1>6. doneAt[h][series[h][i].at + 1] <= doneAt[h][elapsed[h] + 1] /\ doneAt[h][elapsed[h] + 1] = done[h]
  BY <1>5, WorkerIs
<1>7. doneAt[h][series[h][i].at + 1] \in Nat
  BY <1>4, <1>5
<1>8. series[h][i].ops <= done[h]
  <2> DEFINE o == series[h][i].ops
             m == doneAt[h][series[h][i].at + 1]
             n == done[h]
  <2>1. o \in Nat /\ m \in Nat /\ n \in Nat /\ o <= m /\ m <= n
    BY <1>2, <1>3, <1>4, <1>6, <1>7
  <2> HIDE DEF o, m, n
  <2>2. o <= n
    BY <2>1
  <2> QED BY <2>2 DEF o, n
<1> QED BY <1>1, <1>2, <1>3, <1>5, <1>7, <1>8

LEMMA FreshWorkers ==
  ASSUME NEW hs, IsFiniteSet(hs), Workers(hs)
  PROVE  HostInv'
<1>1. <<0>> \in Seq(Nat) /\ Len(<<0>>) = 1 /\ <<0>>[1] = 0 /\ DOMAIN <<0>> = {1}
  OBVIOUS
<1>2. <<>> \in Seq(Points) /\ DOMAIN <<>> = {}
  OBVIOUS
<1> QED BY <1>1, <1>2 DEF Workers, HostInv

LEMMA NoWorkers == HostsInit => HostInv
<1> SUFFICES ASSUME HostsInit PROVE HostInv
  OBVIOUS
<1>1. <<>> \in [{} -> Nat] /\ <<>> \in [{} -> Seq(Nat)] /\ <<>> \in [{} -> Seq(Points)]
  OBVIOUS
<1> QED BY <1>1, FS_EmptySet DEF HostsInit, HostInv

LEMMA PassStep ==
  ASSUME HostInv, NEW h \in hosts, Pass(h)
  PROVE  HostInv'
<1> DEFINE e == elapsed[h]
           d == doneAt[h]
           d1 == Append(d, done[h])
<1>1. /\ e \in Nat /\ d \in Seq(Nat) /\ done[h] \in Nat /\ h \notin ended
      /\ Len(d) = e + 1 /\ d[e + 1] = done[h] /\ \A i, j \in 1..(e + 1) : i <= j => d[i] <= d[j]
  BY WorkerIs DEF Pass, Running
<1>2. /\ d1 \in Seq(Nat) /\ Len(d1) = e + 2 /\ d1[e + 2] = done[h]
      /\ \A i \in 1..(e + 1) : d1[i] = d[i]
  BY <1>1
<1>3. ASSUME NEW i \in 1..(e + 2), NEW j \in 1..(e + 2), i <= j PROVE d1[i] <= d1[j]
  <2> HIDE DEF e, d, d1
  <2>1. CASE j \in 1..(e + 1)
    BY <1>1, <1>2, <1>3, <2>1
  <2>2. CASE i \in 1..(e + 1) /\ j = e + 2
    <3>1. d[i] <= d[e + 1] /\ d1[i] = d[i]
      BY <1>1, <1>2, <2>2
    <3> QED BY <3>1, <1>1, <1>2, <2>2
  <2>3. CASE i = e + 2 /\ j = e + 2
    BY <1>1, <1>2, <2>3
  <2> QED BY <1>1, <1>3, <2>1, <2>2, <2>3
<1>4. /\ elapsed' = [elapsed EXCEPT ![h] = e + 1] /\ doneAt' = [doneAt EXCEPT ![h] = d1]
      /\ UNCHANGED <<hosts, done, series, ended>>
  BY DEF Pass
<1> HIDE DEF e, d, d1
<1>5. elapsed' \in [hosts -> Nat] /\ doneAt' \in [hosts -> Seq(Nat)]
  BY <1>1, <1>2, <1>4 DEF HostInv
<1>6. /\ elapsed'[h] = e + 1 /\ doneAt'[h] = d1
      /\ \A g \in hosts : g # h => elapsed'[g] = elapsed[g] /\ doneAt'[g] = doneAt[g]
  BY <1>4 DEF HostInv
<1>7. ASSUME NEW g \in hosts
      PROVE  Len(doneAt'[g]) = elapsed'[g] + 1 /\ doneAt'[g][elapsed'[g] + 1] = done'[g]
  <2>1. CASE g # h
    <3>1. Len(doneAt[g]) = elapsed[g] + 1 /\ doneAt[g][elapsed[g] + 1] = done[g]
      BY DEF HostInv
    <3> QED BY <2>1, <3>1, <1>4, <1>6
  <2>2. CASE g = h
    <3>1. (e + 1) + 1 = e + 2
      BY <1>1
    <3> QED BY <2>2, <3>1, <1>2, <1>4, <1>6
  <2> QED BY <2>1, <2>2
<1>8. ASSUME NEW g \in hosts
      PROVE  \A i, j \in DOMAIN doneAt'[g] : i <= j => doneAt'[g][i] <= doneAt'[g][j]
  <2>1. CASE g # h
    BY <2>1, <1>6 DEF HostInv
  <2>2. CASE g = h
    <3>1. DOMAIN d1 = 1..(e + 2)
      BY <1>1, <1>2
    <3> QED BY <2>2, <3>1, <1>3, <1>6
  <2> QED BY <2>1, <2>2
<1>9. ASSUME NEW g \in hosts, NEW i \in DOMAIN series[g]
      PROVE  series[g][i].at <= elapsed'[g] /\ series[g][i].ops <= doneAt'[g][series[g][i].at + 1]
  <2>1. /\ series[g][i].at + 1 \in 1..(elapsed[g] + 1) /\ series[g][i].at <= elapsed[g] /\ elapsed[g] \in Nat
        /\ series[g][i].ops <= doneAt[g][series[g][i].at + 1]
        /\ series[g][i].at \in Nat
    BY PointIs, WorkerIs
  <2>2. CASE g # h
    BY <2>1, <2>2, <1>6
  <2>3. CASE g = h
    <3>1. \A k \in 1..(e + 1) : d1[k] = d[k]
      BY <1>2
    <3>2. elapsed[g] = e /\ doneAt[g] = d /\ elapsed'[g] = e + 1 /\ doneAt'[g] = d1
      BY <2>3, <1>6 DEF e, d
    <3> QED BY <2>1, <3>1, <3>2
  <2> QED BY <2>2, <2>3
<1> QED BY <1>4, <1>5, <1>7, <1>8, <1>9 DEF HostInv

LEMMA CompleteStep ==
  ASSUME HostInv, NEW h \in hosts, Complete(h)
  PROVE  HostInv'
<1> DEFINE e == elapsed[h]
           d == doneAt[h]
           d1 == [d EXCEPT ![e + 1] = done[h] + 1]
<1>1. /\ e \in Nat /\ d \in Seq(Nat) /\ done[h] \in Nat /\ h \notin ended
      /\ Len(d) = e + 1 /\ d[e + 1] = done[h] /\ \A i, j \in 1..(e + 1) : i <= j => d[i] <= d[j]
  BY WorkerIs DEF Complete, Running
<1>2. /\ d1 \in Seq(Nat) /\ Len(d1) = e + 1 /\ d1[e + 1] = done[h] + 1
      /\ \A i \in 1..(e + 1) : d[i] <= d1[i] /\ (i # e + 1 => d1[i] = d[i])
  <2>1. d1 \in Seq(Nat) /\ Len(d1) = e + 1 /\ d1[e + 1] = done[h] + 1
    BY <1>1
  <2>2. \A i \in 1..(e + 1) : d[i] \in Nat /\ (i # e + 1 => d1[i] = d[i])
    BY <1>1
  <2> HIDE DEF d1
  <2>3. ASSUME NEW i \in 1..(e + 1) PROVE d[i] <= d1[i]
    <3>1. CASE i = e + 1
      <4>1. d[i] = done[h] /\ d1[i] = done[h] + 1 /\ done[h] \in Nat
        BY <1>1, <2>1, <3>1
      <4> QED BY <4>1
    <3>2. CASE i # e + 1
      <4>1. d1[i] = d[i] /\ d[i] \in Nat
        BY <2>2, <3>2
      <4> QED BY <4>1
    <3> QED BY <3>1, <3>2
  <2> QED BY <2>1, <2>2, <2>3
<1>3. \A i, j \in 1..(e + 1) : i <= j => d1[i] <= d1[j]
  BY <1>1, <1>2
<1>4. /\ done' = [done EXCEPT ![h] = done[h] + 1] /\ doneAt' = [doneAt EXCEPT ![h] = d1]
      /\ UNCHANGED <<hosts, elapsed, series, ended>>
  BY DEF Complete, HostInv
<1> HIDE DEF e, d, d1
<1>5. done' \in [hosts -> Nat] /\ doneAt' \in [hosts -> Seq(Nat)]
  BY <1>1, <1>2, <1>4 DEF HostInv
<1>6. /\ done'[h] = done[h] + 1 /\ doneAt'[h] = d1
      /\ \A g \in hosts : g # h => done'[g] = done[g] /\ doneAt'[g] = doneAt[g]
  BY <1>4 DEF HostInv
<1>7. \A g \in hosts : Len(doneAt'[g]) = elapsed[g] + 1 /\ doneAt'[g][elapsed[g] + 1] = done'[g]
  BY <1>1, <1>2, <1>4, <1>6 DEF HostInv, e
<1>8. ASSUME NEW g \in hosts
      PROVE  \A i, j \in DOMAIN doneAt'[g] : i <= j => doneAt'[g][i] <= doneAt'[g][j]
  <2>1. CASE g # h
    BY <2>1, <1>6 DEF HostInv
  <2>2. CASE g = h
    <3>1. DOMAIN d1 = 1..(e + 1)
      BY <1>1, <1>2
    <3> QED BY <2>2, <3>1, <1>3, <1>6
  <2> QED BY <2>1, <2>2
<1>9. ASSUME NEW g \in hosts, NEW i \in DOMAIN series[g]
      PROVE  series[g][i].ops <= doneAt'[g][series[g][i].at + 1]
  <2>1. /\ series[g][i].at \in Nat /\ series[g][i].ops \in Nat
        /\ series[g][i].at <= elapsed[g] /\ series[g][i].ops <= doneAt[g][series[g][i].at + 1]
    BY PointIs
  <2>2. CASE g # h
    BY <2>1, <2>2, <1>6
  <2>3. CASE g = h
    <3>1. series[g][i].at + 1 \in 1..(e + 1)
      BY <2>1, <2>3, <1>1 DEF e
    <3>2. d[series[g][i].at + 1] \in Nat /\ d1[series[g][i].at + 1] \in Nat
      BY <1>1, <1>2, <3>1
    <3> QED BY <2>1, <2>3, <1>2, <1>6, <3>1, <3>2 DEF d
  <2> QED BY <2>2, <2>3
<1>10. \A g \in ended : series[g] # <<>> /\ Last(series[g]).ops = done'[g]
  BY <1>1, <1>6 DEF HostInv
<1> QED BY <1>4, <1>5, <1>7, <1>8, <1>9, <1>10 DEF HostInv

(* A point more: of the tick, or of the end. *)
LEMMA PointStep ==
  ASSUME HostInv, NEW h \in hosts, h \notin ended, series' = [series EXCEPT ![h] = Append(@, Point(h))],
         UNCHANGED <<hosts, elapsed, done, doneAt>>, ended' \in {ended, ended \cup {h}}
  PROVE  HostInv'
<1> DEFINE s  == series[h]
           p  == [at |-> elapsed[h], ops |-> done[h]]
           s1 == Append(s, p)
           n  == Len(s)
<1>1. s \in Seq(Points) /\ p \in Points /\ n \in Nat
  BY DEF HostInv, Points
<1>2. /\ s1 \in Seq(Points) /\ DOMAIN s1 = 1..(n + 1) /\ s1[n + 1] = p /\ s1 # <<>> /\ Last(s1) = p
      /\ \A i \in 1..n : s1[i] = s[i]
  BY <1>1 DEF Last
<1>3. series' = [series EXCEPT ![h] = s1]
  BY DEF Point
<1>4. p.at = elapsed[h] /\ p.ops = done[h]
  OBVIOUS
<1>5. DOMAIN s = 1..n
  BY <1>1
<1> HIDE DEF s, s1, p, n
<1>6. /\ series' \in [hosts -> Seq(Points)] /\ series'[h] = s1
      /\ \A g \in hosts : g # h => series'[g] = series[g]
  BY <1>2, <1>3 DEF HostInv
<1>7. /\ p.at \in Nat /\ p.ops \in Nat
      /\ p.at <= elapsed[h] /\ p.ops <= doneAt[h][p.at + 1]
  BY <1>1, <1>4 DEF HostInv, Points
<1>8. \A i \in 1..n : s[i].at \in Nat /\ s[i].ops \in Nat /\ s[i].at <= p.at /\ s[i].ops <= p.ops
  <2> SUFFICES ASSUME NEW i \in 1..n
               PROVE  s[i].at \in Nat /\ s[i].ops \in Nat /\ s[i].at <= p.at /\ s[i].ops <= p.ops
    OBVIOUS
  <2>1. i \in DOMAIN series[h] /\ series[h][i] = s[i]
    BY <1>5 DEF s
  <2> QED BY <2>1, PointIs, <1>4
<1>9. ASSUME NEW g \in hosts, NEW i \in DOMAIN series'[g]
      PROVE  /\ series'[g][i].at <= elapsed[g] /\ series'[g][i].ops <= doneAt[g][series'[g][i].at + 1]
             /\ \A j \in DOMAIN series'[g] :
                  i <= j => series'[g][i].at <= series'[g][j].at /\ series'[g][i].ops <= series'[g][j].ops
  <2>1. CASE g # h
    BY <1>6, <2>1 DEF HostInv
  <2>2. CASE g = h
    <3>1. /\ i \in 1..(n + 1) /\ series'[g] = s1
          /\ \A k \in 1..n : s[k].at <= elapsed[h] /\ s[k].ops <= doneAt[h][s[k].at + 1]
          /\ \A k, j \in 1..n : k <= j => s[k].at <= s[j].at /\ s[k].ops <= s[j].ops
      <4>1. /\ \A k \in 1..n : s[k].at <= elapsed[h] /\ s[k].ops <= doneAt[h][s[k].at + 1]
            /\ \A k, j \in 1..n : k <= j => s[k].at <= s[j].at /\ s[k].ops <= s[j].ops
        BY <1>5 DEF HostInv, s
      <4> QED BY <1>2, <1>6, <2>2, <4>1
    <3>2. CASE i = n + 1
      BY <1>1, <1>2, <1>7, <2>2, <3>1, <3>2
    <3>3. CASE i \in 1..n
      <4>1. \A j \in 1..(n + 1) : j \in 1..n \/ j = n + 1
        BY <1>1
      <4> QED BY <1>1, <1>2, <1>8, <2>2, <3>1, <3>3, <4>1
    <3> QED BY <1>1, <3>1, <3>2, <3>3
  <2> QED BY <2>1, <2>2
<1>10. ASSUME NEW g \in ended' PROVE series'[g] # <<>> /\ Last(series'[g]).ops = done[g]
  <2>1. CASE g = h
    BY <1>2, <1>4, <1>6, <2>1
  <2>2. CASE g # h
    <3>1. g \in ended /\ g \in hosts
      BY <2>2 DEF HostInv
    <3> QED BY <1>6, <2>2, <3>1 DEF HostInv
  <2> QED BY <2>1, <2>2
<1>11. IsFiniteSet(hosts) /\ ended' \subseteq hosts /\ UNCHANGED <<hosts, elapsed, done, doneAt>>
  BY DEF HostInv
<1>12. /\ \A g \in hosts : Len(doneAt[g]) = elapsed[g] + 1 /\ doneAt[g][elapsed[g] + 1] = done[g]
       /\ \A g \in hosts : \A i, j \in DOMAIN doneAt[g] : i <= j => doneAt[g][i] <= doneAt[g][j]
       /\ elapsed \in [hosts -> Nat] /\ done \in [hosts -> Nat] /\ doneAt \in [hosts -> Seq(Nat)]
  BY DEF HostInv
<1> QED BY <1>6, <1>9, <1>10, <1>11, <1>12 DEF HostInv

LEMMA HostStep ==
  ASSUME HostInv, NEW h \in hosts, Pass(h) \/ Complete(h) \/ Tick(h) \/ End(h)
  PROVE  HostInv'
<1>1. CASE Pass(h)
  BY <1>1, PassStep
<1>2. CASE Complete(h)
  BY <1>2, CompleteStep
<1>3. CASE Tick(h)
  BY <1>3, PointStep DEF Tick, Running
<1>4. CASE End(h)
  <2>1. h \notin ended /\ ended' = ended \cup {h} /\ UNCHANGED <<hosts, elapsed, done, doneAt>>
    BY <1>4 DEF End, Running
  <2>2. CASE series[h] = <<>> \/ Last(series[h]).ops # done[h]
    <3>1. series' = [series EXCEPT ![h] = Append(@, Point(h))]
      BY <1>4, <2>2 DEF End
    <3> QED BY <2>1, <3>1, PointStep
  <2>3. CASE ~(series[h] = <<>> \/ Last(series[h]).ops # done[h])
    <3>1. series' = series
      BY <1>4, <2>3 DEF End, HostInv
    <3> QED BY <2>1, <2>3, <3>1 DEF HostInv
  <2> QED BY <2>2, <2>3
<1> QED BY <1>1, <1>2, <1>3, <1>4

-----------------------------------------------------------------------------
(* Seconds and what falls into them. *)
LEMMA Seconds ==
  ASSUME NEW at \in Nat
  PROVE  /\ at \div Second \in Nat /\ at \div Second <= at
         /\ \A q \in Nat : at \div Second <= q => at + 1 <= (q + 1) * Second
<1>1. Second \in Nat /\ Second > 0
  BY SecondAssumption
<1> DEFINE d == at \div Second
           r == at % Second
<1>2. d \in Int /\ r \in 0..(Second - 1) /\ at = d * Second + r
  BY <1>1
<1> HIDE DEF d, r
<1>3. d \in Nat
  <2> SUFFICES ASSUME d <= 0 - 1 PROVE FALSE
    BY <1>2
  <2>1. (0 - 1 - d) * Second >= 0
    BY <1>1, <1>2
  <2> QED BY <1>1, <1>2, <2>1
<1>4. d <= at
  <2>1. d * (Second - 1) >= 0
    BY <1>1, <1>3
  <2> QED BY <1>1, <1>2, <1>3, <2>1
<1>5. ASSUME NEW q \in Nat, d <= q PROVE at + 1 <= (q + 1) * Second
  <2>1. (q - d) * Second >= 0
    BY <1>1, <1>3, <1>5
  <2> QED BY <1>1, <1>2, <1>3, <2>1
<1> QED BY <1>3, <1>4, <1>5 DEF d

LEMMA SecondsGrow ==
  ASSUME NEW a \in Nat, NEW b \in Nat, a <= b
  PROVE  a \div Second <= b \div Second
<1>1. Second \in Nat /\ Second > 0
  BY SecondAssumption
<1> DEFINE d == a \div Second
           q == b \div Second
           r == a % Second
<1>2. d \in Int /\ r \in 0..(Second - 1) /\ a = d * Second + r
  BY <1>1
<1>3. d \in Nat /\ q \in Nat /\ b + 1 <= (q + 1) * Second
  BY Seconds
<1> HIDE DEF d, q, r
<1> SUFFICES ASSUME q + 1 <= d PROVE FALSE
  BY <1>3 DEF d, q
<1>4. (d - (q + 1)) * Second >= 0
  BY <1>1, <1>3
<1> QED BY <1>1, <1>2, <1>3, <1>4

LEMMA WholeSeconds ==
  ASSUME NEW q \in Nat
  PROVE  q * Second \in Nat /\ (q * Second) \div Second = q
<1>1. Second \in Nat /\ Second > 0
  BY SecondAssumption
<1> DEFINE at == q * Second
           d  == at \div Second
           r  == at % Second
<1>2. at \in Nat
  BY <1>1
<1>3. d \in Int /\ r \in 0..(Second - 1) /\ at = d * Second + r
  BY <1>1, <1>2
<1>4. at = q * Second
  OBVIOUS
<1> HIDE DEF at, d, r
<1>5. d = q
  <2>1. ASSUME d <= q - 1 PROVE FALSE
    <3>1. (q - 1 - d) * Second >= 0
      BY <1>1, <1>3, <2>1
    <3> QED BY <1>1, <1>3, <1>4, <3>1
  <2>2. ASSUME q + 1 <= d PROVE FALSE
    <3>1. (d - q - 1) * Second >= 0
      BY <1>1, <1>3, <2>2
    <3> QED BY <1>1, <1>3, <1>4, <3>1
  <2> QED BY <1>3, <2>1, <2>2
<1> QED BY <1>2, <1>5 DEF at, d

(* A worker's last point by the end of a second. *)
LEMMA LastInIs ==
  ASSUME HostInv, NEW h \in hosts, NEW b \in Nat
  PROVE  \/ /\ \A i \in DOMAIN series[h] : ~(Bucket(series[h][i]) <= b)
            /\ LastIn(h, 0..b) = 0
         \/ \E m \in DOMAIN series[h] :
              /\ Bucket(series[h][m]) <= b /\ LastIn(h, 0..b) = series[h][m].ops
              /\ \A i \in DOMAIN series[h] : Bucket(series[h][i]) <= b => i <= m
<1> DEFINE points == {i \in DOMAIN series[h] : Bucket(series[h][i]) \in 0..b}
           m      == Max(points)
<1>1. \A i \in DOMAIN series[h] : Bucket(series[h][i]) \in 0..b <=> Bucket(series[h][i]) <= b
  <2> SUFFICES ASSUME NEW i \in DOMAIN series[h]
               PROVE  Bucket(series[h][i]) \in 0..b <=> Bucket(series[h][i]) <= b
    OBVIOUS
  <2>1. series[h][i].at \div Second \in Nat
    BY PointIs, Seconds
  <2> QED BY <2>1 DEF Bucket
<1>2. CASE points = {}
  BY <1>1, <1>2 DEF LastIn
<1>3. CASE points # {}
  <2>1. \E k \in points : \A i \in points : k >= i
    <3>1. points \in SUBSET (0..Len(series[h])) /\ Len(series[h]) \in Nat
      BY WorkerIs
    <3>2. \E k \in points : \A i \in points : i <= k
      <4> HIDE DEF points
      <4> QED BY <1>3, <3>1, GreatestNumber
    <3> QED BY <3>1, <3>2
  <2>2. m \in points /\ \A i \in points : m >= i
    <3> HIDE DEF points
    <3> QED BY <2>1 DEF Max
  <2>3. LastIn(h, 0..b) = series[h][m].ops
    BY <1>3 DEF LastIn
  <2>4. m \in DOMAIN series[h] /\ Bucket(series[h][m]) <= b
    BY <1>1, <2>2
  <2>5. \A i \in DOMAIN series[h] : Bucket(series[h][i]) <= b => i <= m
    <3>1. \A i \in DOMAIN series[h] : Bucket(series[h][i]) <= b => m >= i
      BY <1>1, <2>2
    <3>2. m \in Nat /\ \A i \in DOMAIN series[h] : i \in Nat
      BY <2>4, WorkerIs
    <3> HIDE DEF m
    <3> QED BY <3>1, <3>2
  <2> HIDE DEF m
  <2> QED BY <2>3, <2>4, <2>5
<1> QED BY <1>2, <1>3

(* It grows with the seconds, is no more than was done by then, and is the     *)
(* total when the worker has no later point.                                   *)
LEMMA LastInGrows ==
  ASSUME HostInv, NEW h \in hosts, NEW b \in Nat, NEW c \in Nat, b <= c
  PROVE  LastIn(h, 0..b) \in Nat /\ LastIn(h, 0..b) <= LastIn(h, 0..c)
<1> DEFINE s == series[h]
           Within(i, x) == Bucket(s[i]) <= x
<1>1. \A i \in DOMAIN s : Bucket(s[i]) \in Nat /\ s[i].ops \in Nat
  <2> SUFFICES ASSUME NEW i \in DOMAIN series[h]
               PROVE  Bucket(series[h][i]) \in Nat /\ series[h][i].ops \in Nat
    OBVIOUS
  <2> QED BY PointIs, Seconds DEF Bucket
<1>2. \A i \in DOMAIN s : Bucket(s[i]) <= b => Bucket(s[i]) <= c
  BY <1>1
<1>3. \A i, j \in DOMAIN s : i <= j => s[i].ops <= s[j].ops
  BY DEF HostInv
<1>4. \/ (\A i \in DOMAIN s : ~(Bucket(s[i]) <= b)) /\ LastIn(h, 0..b) = 0
      \/ \E m \in DOMAIN s : Bucket(s[m]) <= b /\ LastIn(h, 0..b) = s[m].ops
  BY LastInIs
<1>5. \/ (\A i \in DOMAIN s : ~(Bucket(s[i]) <= c)) /\ LastIn(h, 0..c) = 0
      \/ \E m \in DOMAIN s : /\ LastIn(h, 0..c) = s[m].ops
                             /\ \A i \in DOMAIN s : Bucket(s[i]) <= c => i <= m
  BY LastInIs
<1> HIDE DEF s
<1> QED BY <1>1, <1>2, <1>3, <1>4, <1>5

LEMMA LastInBounded ==
  ASSUME HostInv, NEW h \in hosts, NEW b \in Nat
  PROVE  SecondOver(h, b) \in Nat /\ LastIn(h, 0..b) <= SecondOver(h, b)
<1> DEFINE e      == elapsed[h]
           d      == doneAt[h]
           top    == (b + 1) * Second
           moment == Min({top, Len(d)})
<1>1. /\ e \in Nat /\ Len(d) = e + 1 /\ d \in Seq(Nat) /\ DOMAIN d = 1..(e + 1)
      /\ \A i, j \in 1..(e + 1) : i <= j => d[i] <= d[j]
  BY WorkerIs
<1>2. top \in Nat /\ top > 0
  <2>1. 0 \div Second <= b
    BY Seconds, 0 \in Nat, SecondAssumption
  <2>2. top \in Nat
    BY SecondAssumption
  <2>3. 0 + 1 <= (b + 1) * Second
    BY <2>1, Seconds, 0 \in Nat
  <2> QED BY <2>2, <2>3
<1> HIDE DEF e, d, top
<1>3. moment \in {top, e + 1} /\ moment <= top /\ moment <= e + 1
  <2>1. \E x \in {top, Len(d)} : \A y \in {top, Len(d)} : x =< y
    BY <1>1, <1>2
  <2>2. moment \in {top, Len(d)} /\ \A y \in {top, Len(d)} : moment =< y
    BY <2>1 DEF Min
  <2> HIDE DEF moment
  <2> QED BY <1>1, <2>2
<1>4. moment \in 1..(e + 1) /\ SecondOver(h, b) = d[moment]
  <2>1. SecondOver(h, b) = d[moment]
    BY DEF SecondOver, d, top
  <2> HIDE DEF moment
  <2> QED BY <1>1, <1>2, <1>3, <2>1
<1> HIDE DEF moment
<1>5. d[moment] \in Nat
  BY <1>1, <1>4
<1>6. ASSUME NEW m \in DOMAIN series[h], Bucket(series[h][m]) <= b
      PROVE  series[h][m].ops <= d[moment]
  <2> DEFINE at == series[h][m].at
             o  == series[h][m].ops
  <2>1. at \in Nat /\ o \in Nat /\ at + 1 \in 1..(e + 1) /\ o <= d[at + 1] /\ d[at + 1] \in Nat
    BY PointIs DEF e, d
  <2>2. at + 1 <= top
    <3>1. at \div Second <= b
      BY <1>6 DEF Bucket
    <3> HIDE DEF at
    <3> QED BY <2>1, <3>1, Seconds DEF top
  <2> HIDE DEF at, o
  <2>3. at + 1 <= moment
    BY <1>1, <1>3, <2>1, <2>2
  <2>4. d[at + 1] <= d[moment]
    BY <1>1, <1>4, <2>1, <2>3
  <2>5. o <= d[moment]
    BY <1>5, <2>1, <2>4
  <2> QED BY <2>5 DEF o
<1>7. \/ LastIn(h, 0..b) = 0
      \/ \E m \in DOMAIN series[h] : Bucket(series[h][m]) <= b /\ LastIn(h, 0..b) = series[h][m].ops
  BY LastInIs
<1> QED BY <1>4, <1>5, <1>6, <1>7

LEMMA LastInIsTotal ==
  ASSUME HostInv, NEW h \in ended, NEW b \in Nat, \A i \in DOMAIN series[h] : Bucket(series[h][i]) <= b
  PROVE  LastIn(h, 0..b) = done[h]
<1> DEFINE n == Len(series[h])
<1>1. h \in hosts /\ series[h] # <<>> /\ series[h][n].ops = done[h]
  BY DEF HostInv, Last
<1>2. DOMAIN series[h] = 1..n /\ n \in Nat /\ series[h] \in Seq(Points)
  BY <1>1, WorkerIs
<1>3. n \in DOMAIN series[h]
  BY <1>1, <1>2
<1>4. PICK m \in DOMAIN series[h] : /\ LastIn(h, 0..b) = series[h][m].ops
                                    /\ \A i \in DOMAIN series[h] : Bucket(series[h][i]) <= b => i <= m
  BY <1>1, <1>3, LastInIs
<1>5. m = n
  BY <1>2, <1>3, <1>4
<1> QED BY <1>1, <1>4, <1>5

(* Their sum. *)
LEMMA TotalAtGrows ==
  ASSUME HostInv, NEW b \in Nat, NEW c \in Nat, b <= c
  PROVE  TotalAt(b) \in Int /\ TotalAt(c) \in Int /\ TotalAt(b) <= TotalAt(c)
<1> DEFINE f == [h \in hosts |-> LastIn(h, 0..b)]
           g == [h \in hosts |-> LastIn(h, 0..c)]
<1>1. IsFiniteSet(hosts)
  BY DEF HostInv
<1>2. \A h \in hosts : LastIn(h, 0..b) \in Nat /\ LastIn(h, 0..c) \in Nat /\ LastIn(h, 0..b) <= LastIn(h, 0..c)
  BY LastInGrows, c <= c
<1>3. f \in [hosts -> Int] /\ g \in [hosts -> Int] /\ \A h \in hosts : f[h] <= g[h]
  BY <1>2
<1>4. TotalAt(b) = SumFunctionOnSet(f, hosts) /\ TotalAt(c) = SumFunctionOnSet(g, hosts)
  BY DEF TotalAt, SumFunction
<1> HIDE DEF f, g
<1> QED BY <1>1, <1>3, <1>4, SumMonotone, SumIsInt

LEMMA TotalAtBounds ==
  ASSUME HostInv, ended = hosts, NEW b \in Nat
  PROVE  /\ TotalAt(b) <= SumFunction([h \in hosts |-> SecondOver(h, b)])
         /\ TotalAt(b) >= SumFunction([h \in hosts |-> IF elapsed[h] \div Second < b THEN done[h] ELSE 0])
<1> DEFINE f    == [h \in hosts |-> LastIn(h, 0..b)]
           over == [h \in hosts |-> SecondOver(h, b)]
           came == [h \in hosts |-> IF elapsed[h] \div Second < b THEN done[h] ELSE 0]
<1>1. IsFiniteSet(hosts)
  BY DEF HostInv
<1>2. ASSUME NEW h \in hosts
      PROVE  /\ LastIn(h, 0..b) \in Nat /\ SecondOver(h, b) \in Nat /\ LastIn(h, 0..b) <= SecondOver(h, b)
             /\ done[h] \in Nat
             /\ (IF elapsed[h] \div Second < b THEN done[h] ELSE 0) <= LastIn(h, 0..b)
  <2>1. LastIn(h, 0..b) \in Nat /\ SecondOver(h, b) \in Nat /\ LastIn(h, 0..b) <= SecondOver(h, b)
    BY LastInGrows, LastInBounded, b <= b
  <2>2. done[h] \in Nat /\ elapsed[h] \in Nat
    BY WorkerIs
  <2>3. ASSUME elapsed[h] \div Second < b PROVE LastIn(h, 0..b) = done[h]
    <3>1. ASSUME NEW i \in DOMAIN series[h] PROVE Bucket(series[h][i]) <= b
      <4>1. series[h][i].at \in Nat /\ series[h][i].at <= elapsed[h]
        BY PointIs
      <4>2. series[h][i].at \div Second <= elapsed[h] \div Second
        BY <2>2, <4>1, SecondsGrow
      <4> QED BY <2>2, <2>3, <4>1, <4>2, Seconds DEF Bucket
    <3>2. h \in ended
      OBVIOUS
    <3> QED BY <3>1, <3>2, LastInIsTotal
  <2> QED BY <2>1, <2>2, <2>3
<1>3. /\ f \in [hosts -> Int] /\ over \in [hosts -> Int] /\ came \in [hosts -> Int]
      /\ \A h \in hosts : f[h] <= over[h] /\ came[h] <= f[h]
  BY <1>2
<1>4. /\ TotalAt(b) = SumFunctionOnSet(f, hosts)
      /\ SumFunction(over) = SumFunctionOnSet(over, hosts)
      /\ SumFunction(came) = SumFunctionOnSet(came, hosts)
  BY DEF TotalAt, SumFunction
<1> HIDE DEF f, over, came
<1>5. /\ SumFunctionOnSet(f, hosts) <= SumFunctionOnSet(over, hosts)
      /\ SumFunctionOnSet(came, hosts) <= SumFunctionOnSet(f, hosts)
      /\ SumFunctionOnSet(f, hosts) \in Int /\ SumFunctionOnSet(came, hosts) \in Int
  BY <1>1, <1>3, SumMonotone, SumIsInt
<1>6. TotalAt(b) <= SumFunction(over) /\ TotalAt(b) >= SumFunction(came)
  BY <1>4, <1>5
<1> QED BY <1>6 DEF over, came

(* The seconds in which anyone sampled, in their order. *)
LEMMA BucketsAre ==
  ASSUME HostInv, hosts # {}, ended = hosts
  PROVE  /\ Buckets \subseteq Nat /\ IsFiniteSet(Buckets) /\ Buckets # {}
         /\ \A h \in hosts : \A i \in DOMAIN series[h] : Bucket(series[h][i]) \in Buckets
         /\ Increasing(SortedBuckets, Buckets)
         /\ \A b \in Buckets : \E k \in 1..Cardinality(Buckets) : SortedBuckets[k] = b
<1>1. ASSUME NEW h \in hosts, NEW i \in DOMAIN series[h]
      PROVE  /\ Bucket(series[h][i]) \in Buckets /\ Bucket(series[h][i]) \in Nat
             /\ Bucket(series[h][i]) <= elapsed[h] /\ elapsed[h] \in Nat
  <2>1. Bucket(series[h][i]) \in Buckets
    BY DEF Buckets
  <2> DEFINE at == series[h][i].at
  <2>2. at \in Nat /\ at <= elapsed[h] /\ elapsed[h] \in Nat
    BY PointIs, WorkerIs
  <2> HIDE DEF at
  <2>3. at \div Second \in Nat /\ at \div Second <= at
    BY <2>2, Seconds
  <2> QED BY <2>1, <2>2, <2>3 DEF Bucket, at
<1>2. PICK last \in Nat : \A h \in hosts : elapsed[h] <= last
  <2> DEFINE R == Range(elapsed)
  <2>1. elapsed \in Surjection(hosts, R) /\ R \subseteq Nat /\ R # {} /\ \A h \in hosts : elapsed[h] \in R
    <3>1. elapsed \in [hosts -> Nat]
      BY DEF HostInv
    <3> QED BY <3>1 DEF Surjection, Range
  <2>2. IsFiniteSet(R)
    <3> HIDE DEF R
    <3> QED BY <2>1, FS_Surjection DEF HostInv
  <2>3. PICK x \in R : \A y \in R : y <= x
    <3> HIDE DEF R
    <3>1. R \subseteq Int
      BY <2>1
    <3> QED BY <2>1, <2>2, <3>1, GreatestInt
  <2> QED BY <2>1, <2>3
<1>3. \A b \in Buckets : b \in Nat /\ b <= last
  <2> SUFFICES ASSUME NEW h \in hosts, NEW i \in DOMAIN series[h]
               PROVE  Bucket(series[h][i]) \in Nat /\ Bucket(series[h][i]) <= last
    BY DEF Buckets
  <2> QED BY <1>1, <1>2
<1>4. Buckets \subseteq Nat /\ IsFiniteSet(Buckets)
  BY <1>3, FS_BoundedSetOfNaturals
<1>5. Buckets # {}
  <2>1. PICK h \in hosts : TRUE
    OBVIOUS
  <2>2. Len(series[h]) \in DOMAIN series[h]
    <3>1. series[h] # <<>> /\ series[h] \in Seq(Points)
      BY WorkerIs DEF HostInv
    <3> QED BY <3>1
  <2> QED BY <1>1, <2>2
<1>6. Increasing(SortedBuckets, Buckets)
  <2>1. \E bs : Increasing(bs, Buckets)
    <3>1. Buckets \subseteq Int
      BY <1>4
    <3> QED BY <1>4, <3>1, CanBeSorted
  <2>2. \E bs \in [1..Cardinality(Buckets) -> Buckets] : \A i, j \in DOMAIN bs : i < j => bs[i] < bs[j]
    BY <2>1 DEF Increasing
  <2>3. /\ SortedBuckets \in [1..Cardinality(Buckets) -> Buckets]
        /\ \A i, j \in DOMAIN SortedBuckets : i < j => SortedBuckets[i] < SortedBuckets[j]
    BY <2>2 DEF SortedBuckets
  <2> QED BY <1>4, <2>3 DEF Increasing
<1>7. \A b \in Buckets : \E k \in 1..Cardinality(Buckets) : SortedBuckets[k] = b
  <2> DEFINE B  == Buckets
             bs == SortedBuckets
  <2>1. IsFiniteSet(B) /\ Increasing(bs, B)
    BY <1>4, <1>6
  <2> HIDE DEF B, bs
  <2>2. ASSUME NEW x \in B PROVE \E k \in 1..Cardinality(B) : bs[k] = x
    BY <2>1, <2>2, SortedIsAll
  <2> QED BY <2>2 DEF B, bs
<1> QED BY <1>1, <1>4, <1>5, <1>6, <1>7

(* The series of one worker. *)
LEMMA OneSeries ==
  ASSUME HostInv, hosts # {}, ended = hosts, Cardinality(hosts) = 1, phase = "replaying"
  PROVE  SeriesWhole
<1>1. PICK h : hosts = {h}
  BY FS_Singleton DEF HostInv
<1> DEFINE s == series[h]
           n == Len(s)
           t == [m \in 0..n |-> IF m = 0 THEN 0 ELSE s[m].ops]
           d == [i \in 1..n |-> s[i].ops - (IF i = 1 THEN 0 ELSE s[i - 1].ops)]
<1>2. n \in Nat /\ DOMAIN s = 1..n /\ s # <<>> /\ s \in Seq(Points) /\ s[n].ops = done[h] /\ n >= 1
  <2>1. n \in Nat /\ DOMAIN s = 1..n /\ s \in Seq(Points)
    BY <1>1, WorkerIs
  <2>2. s # <<>> /\ s[n].ops = done[h]
    BY <1>1 DEF HostInv, Last
  <2> QED BY <2>1, <2>2
<1>3. Merged = [i \in 1..n |-> [at |-> s[i].at, ops |-> s[i].ops,
                                delta |-> s[i].ops - (IF i = 1 THEN 0 ELSE s[i - 1].ops)]]
  <2>1. (CHOOSE g \in hosts : TRUE) = h
    BY <1>1
  <2> QED BY <2>1, <1>2 DEF Merged
<1>4. DOMAIN Merged = 1..n /\ Len(Merged) = n
      /\ \A i \in 1..n : Merged[i].at = s[i].at /\ Merged[i].ops = s[i].ops /\ Merged[i].delta = d[i]
  BY <1>2, <1>3
<1>5. \A i \in 1..n : s[i].at \in Nat /\ s[i].ops \in Nat
  BY <1>1, <1>2, PointIs
<1>6. \A i, j \in 1..n : i <= j => s[i].at <= s[j].at /\ s[i].ops <= s[j].ops
  BY <1>1, <1>2 DEF HostInv
<1>7. OpsCompleted = done[h]
  <2>1. done \in [{h} -> Int]
    BY <1>1 DEF HostInv
  <2> QED BY <2>1, SumOfOne DEF OpsCompleted, SumFunction
<1>8. SumFunction([i \in DOMAIN Merged |-> Merged[i].delta]) = OpsCompleted
  <2>1. [i \in DOMAIN Merged |-> Merged[i].delta] = d
    BY <1>4
  <2>2. t \in [0..n -> Int] /\ d \in [1..n -> Int] /\ t[0] = 0 /\ t[n] = done[h]
    BY <1>2, <1>5
  <2>3. \A i \in 1..n : d[i] = t[i] - t[i - 1]
    BY <1>2
  <2>4. DOMAIN d = 1..n
    OBVIOUS
  <2> HIDE DEF t, d
  <2>5. SumFunctionOnSet(d, 1..n) = t[n] - t[0]
    BY <1>2, <2>2, <2>3, Telescope
  <2>6. done[h] \in Nat
    BY <1>1, WorkerIs
  <2> QED BY <1>7, <2>1, <2>2, <2>4, <2>5, <2>6 DEF SumFunction
<1> HIDE DEF s, n, t, d
<1>9. ASSUME NEW i \in 1..n
      PROVE  LET b == Bucket(Merged[i])
             IN  /\ Merged[i].ops <= SumFunction([g \in hosts |-> SecondOver(g, b)])
                 /\ Cardinality(hosts) > 1 =>
                      Merged[i].ops >= SumFunction([g \in hosts |-> IF elapsed[g] \div Second < b THEN done[g] ELSE 0])
  <2> DEFINE b == Bucket(s[i])
             over == [g \in hosts |-> SecondOver(g, b)]
  <2>1. Bucket(Merged[i]) = b
    BY <1>4 DEF Bucket
  <2>2. b \in Nat
    <3>1. s[i].at \in Nat
      BY <1>5
    <3> QED BY <3>1, Seconds DEF Bucket
  <2>3. SecondOver(h, b) \in Nat /\ LastIn(h, 0..b) <= SecondOver(h, b) /\ LastIn(h, 0..b) \in Nat
    <3> HIDE DEF b
    <3> QED BY <1>1, <2>2, LastInBounded, LastInGrows, b <= b
  <2>4. s[i].ops <= LastIn(h, 0..b)
    <3>1. i \in DOMAIN series[h] /\ Bucket(series[h][i]) <= b
      BY <1>2, <2>2 DEF s
    <3>2. PICK m \in DOMAIN series[h] :
              /\ LastIn(h, 0..b) = series[h][m].ops
              /\ \A k \in DOMAIN series[h] : Bucket(series[h][k]) <= b => k <= m
      <4> HIDE DEF b
      <4> QED BY <1>1, <2>2, <3>1, LastInIs
    <3> QED BY <1>2, <1>6, <3>1, <3>2 DEF s
  <2>5. SumFunction(over) = SecondOver(h, b)
    <3> HIDE DEF b
    <3>1. over \in [{h} -> Int] /\ over[h] = SecondOver(h, b) /\ DOMAIN over = {h}
      BY <1>1, <2>3
    <3> QED BY <3>1, SumOfOne DEF SumFunction
  <2>6. Merged[i].ops = s[i].ops /\ s[i].ops \in Nat
    BY <1>4, <1>5
  <2> HIDE DEF b
  <2>7. Merged[i].ops <= SumFunction(over)
    BY <2>3, <2>4, <2>5, <2>6
  <2> QED BY <2>1, <2>7
<1>10. \A i, j \in DOMAIN Merged : i < j => Merged[i].at <= Merged[j].at /\ Merged[i].ops <= Merged[j].ops
  BY <1>2, <1>4, <1>6
<1>11. Last(Merged).ops = OpsCompleted
  BY <1>2, <1>4, <1>7 DEF Last
<1> QED BY <1>4, <1>8, <1>9, <1>10, <1>11 DEF SeriesWhole

(* The series of several. *)
LEMMA ManySeries ==
  ASSUME HostInv, hosts # {}, ended = hosts, Cardinality(hosts) # 1, phase = "replaying"
  PROVE  SeriesWhole
<1> DEFINE bs == SortedBuckets
           n  == Cardinality(Buckets)
           t  == [m \in 0..n |-> IF m = 0 THEN 0 ELSE TotalAt(bs[m])]
           d  == [i \in 1..n |-> TotalAt(bs[i]) - (IF i = 1 THEN 0 ELSE TotalAt(bs[i - 1]))]
<1>1. /\ Buckets \subseteq Nat /\ IsFiniteSet(Buckets) /\ Buckets # {}
      /\ Increasing(bs, Buckets)
  BY BucketsAre
<1>2. n \in Nat /\ n >= 1 /\ bs \in [1..n -> Buckets] /\ \A i, j \in 1..n : i < j => bs[i] < bs[j]
  BY <1>1, FS_CardinalityType, FS_EmptySet DEF Increasing
<1>3. \A i \in 1..n : bs[i] \in Nat
  BY <1>1, <1>2
<1>4. Merged = [i \in 1..n |-> [at |-> bs[i] * Second, ops |-> TotalAt(bs[i]),
                                delta |-> TotalAt(bs[i]) - (IF i = 1 THEN 0 ELSE TotalAt(bs[i - 1]))]]
  BY <1>2 DEF Merged
<1>5. /\ DOMAIN Merged = 1..n /\ Len(Merged) = n
      /\ \A i \in 1..n : /\ Merged[i].at = bs[i] * Second /\ Merged[i].ops = TotalAt(bs[i])
                         /\ Merged[i].delta = d[i]
  BY <1>2, <1>4
<1> HIDE DEF bs, n
<1>6. \A i, j \in 1..n : i <= j => /\ TotalAt(bs[i]) \in Int /\ TotalAt(bs[j]) \in Int
                                   /\ TotalAt(bs[i]) <= TotalAt(bs[j])
  <2> SUFFICES ASSUME NEW i \in 1..n, NEW j \in 1..n, i <= j
               PROVE  TotalAt(bs[i]) \in Int /\ TotalAt(bs[j]) \in Int /\ TotalAt(bs[i]) <= TotalAt(bs[j])
    OBVIOUS
  <2>1. bs[i] \in Nat /\ bs[j] \in Nat /\ bs[i] <= bs[j]
    <3>1. i = j \/ i < j
      BY <1>2
    <3> QED BY <1>2, <1>3, <3>1
  <2> QED BY <2>1, TotalAtGrows
<1>7. TotalAt(bs[n]) = OpsCompleted
  <2> DEFINE b == bs[n]
  <2>1. b \in Nat
    BY <1>2, <1>3
  <2>2. ASSUME NEW h \in hosts, NEW i \in DOMAIN series[h] PROVE Bucket(series[h][i]) <= b
    <3>1. Bucket(series[h][i]) \in Buckets
      BY BucketsAre
    <3>2. PICK k \in 1..n : bs[k] = Bucket(series[h][i])
      BY <3>1, BucketsAre DEF bs, n
    <3>3. n \in 1..n /\ (k = n \/ k < n)
      BY <1>2
    <3>4. bs[k] \in Nat /\ b \in Nat /\ (k < n => bs[k] < b)
      BY <1>2, <1>3, <3>3
    <3>5. bs[k] <= b
      BY <3>3, <3>4
    <3> QED BY <3>2, <3>5
  <2> HIDE DEF b
  <2>3. \A h \in hosts : LastIn(h, 0..b) = done[h]
    BY <2>1, <2>2, LastInIsTotal
  <2>4. [h \in hosts |-> LastIn(h, 0..b)] = done
    BY <2>3 DEF HostInv
  <2> QED BY <2>4 DEF TotalAt, OpsCompleted, b
<1>8. SumFunction([i \in DOMAIN Merged |-> Merged[i].delta]) = OpsCompleted
  <2>1. [i \in DOMAIN Merged |-> Merged[i].delta] = d
    BY <1>5
  <2>2. t \in [0..n -> Int] /\ d \in [1..n -> Int] /\ t[0] = 0 /\ t[n] = TotalAt(bs[n]) /\ TotalAt(bs[n]) \in Int
    BY <1>2, <1>6
  <2>3. \A i \in 1..n : d[i] = t[i] - t[i - 1]
    BY <1>2
  <2>4. DOMAIN d = 1..n
    OBVIOUS
  <2> HIDE DEF t, d
  <2>5. SumFunctionOnSet(d, 1..n) = t[n] - t[0]
    BY <1>2, <2>2, <2>3, Telescope
  <2>6. SumFunctionOnSet(d, 1..n) = TotalAt(bs[n])
    BY <2>2, <2>5
  <2> QED BY <1>7, <2>1, <2>4, <2>6 DEF SumFunction
<1> HIDE DEF t, d
<1>9. ASSUME NEW i \in 1..n
      PROVE  LET b == Bucket(Merged[i])
             IN  /\ Merged[i].ops <= SumFunction([h \in hosts |-> SecondOver(h, b)])
                 /\ Merged[i].ops >= SumFunction([h \in hosts |-> IF elapsed[h] \div Second < b THEN done[h] ELSE 0])
  <2>1. bs[i] \in Nat
    BY <1>3
  <2>2. Bucket(Merged[i]) = bs[i]
    <3>1. Merged[i].at = bs[i] * Second
      BY <1>5
    <3> QED BY <2>1, <3>1, WholeSeconds DEF Bucket
  <2>3. Merged[i].ops = TotalAt(bs[i])
    BY <1>5
  <2>4. /\ TotalAt(bs[i]) <= SumFunction([h \in hosts |-> SecondOver(h, bs[i])])
        /\ TotalAt(bs[i]) >= SumFunction([h \in hosts |-> IF elapsed[h] \div Second < bs[i] THEN done[h] ELSE 0])
    BY <2>1, TotalAtBounds
  <2> QED BY <2>2, <2>3, <2>4, Zenon
<1>10. ASSUME NEW i \in 1..n, NEW j \in 1..n, i < j
       PROVE  Merged[i].at < Merged[j].at /\ Merged[i].at <= Merged[j].at /\ Merged[i].ops <= Merged[j].ops
  <2>1. bs[i] \in Nat /\ bs[j] \in Nat /\ bs[i] < bs[j] /\ Second \in Nat /\ Second > 0
    BY <1>2, <1>3, <1>10, SecondAssumption
  <2>2. bs[i] * Second < bs[j] * Second
    <3> DEFINE x == bs[i]
               y == bs[j]
    <3>1. x \in Nat /\ y \in Nat /\ x < y
      BY <2>1
    <3> HIDE DEF x, y
    <3>2. (y - x) * Second > 0
      BY <2>1, <3>1
    <3>3. x * Second < y * Second
      BY <2>1, <3>1, <3>2
    <3> QED BY <3>3 DEF x, y
  <2>3. bs[i] * Second \in Nat /\ bs[j] * Second \in Nat
    BY <2>1
  <2>4. TotalAt(bs[i]) <= TotalAt(bs[j])
    BY <1>2, <1>6, <1>10
  <2> QED BY <1>5, <2>2, <2>3, <2>4
<1>11. Last(Merged).ops = OpsCompleted
  BY <1>2, <1>5, <1>7 DEF Last
<1> QED BY <1>5, <1>8, <1>9, <1>10, <1>11 DEF SeriesWhole

-----------------------------------------------------------------------------
(* The arms of a round that are still to run, in their order.                  *)
Orders == {<<"baseline">>, <<"treatment">>, <<"baseline", "treatment">>, <<"treatment", "baseline">>}
Trying == {"measuring", "replaying"}

(* The one arm that is left. *)
LEMMA OneLeft ==
  ASSUME NEW x
  PROVE  SetToSeq({x}) = <<x>>
<1>1. Cardinality({x}) = 1
  BY FS_Singleton
<1>2. <<x>> \in [1..1 -> {x}] /\ IsInjective(<<x>>)
  BY DEF IsInjective
<1>3. SetToSeq({x}) \in [1..1 -> {x}]
  BY <1>1, <1>2, Zenon DEF SetToSeq
<1>4. ASSUME NEW f \in [1..1 -> {x}] PROVE f = <<x>>
  OBVIOUS
<1> QED BY <1>3, <1>4

LEMMA TwoArms ==
  ASSUME NEW a, NEW b
  PROVE  <<a>> \o <<b>> = <<a, b>>
<1>1. /\ <<a>> \o <<b>> \in Seq({a, b}) /\ <<a, b>> \in Seq({a, b})
      /\ Len(<<a>> \o <<b>>) = 2 /\ Len(<<a, b>>) = 2
      /\ (<<a>> \o <<b>>)[1] = a /\ (<<a>> \o <<b>>)[2] = b
  <2>1. <<a>> \in Seq({a, b}) /\ <<b>> \in Seq({a, b}) /\ Len(<<a>>) = 1 /\ Len(<<b>>) = 1
    OBVIOUS
  <2> QED BY <2>1, ConcatProperties
<1>2. \A i \in 1..2 : (<<a>> \o <<b>>)[i] = <<a, b>>[i]
  BY <1>1
<1> QED BY <1>1, <1>2, SeqEqual

LEMMA RoundOrder ==
  ASSUME NEW first \in Arms, NextRound(first)
  PROVE  /\ order' \in Orders
         /\ Paired => \A a \in Arms : \E i \in DOMAIN order' : order'[i] = a
<1>1. order' = IF Paired THEN <<first>> \o SetToSeq(Arms \ {first}) ELSE <<"baseline">>
  BY DEF NextRound
<1>2. CASE ~Paired
  BY <1>1, <1>2 DEF Orders
<1>3. CASE Paired /\ first = "baseline"
  <2>1. Arms \ {first} = {"treatment"}
    BY <1>3 DEF Arms
  <2>2. order' = <<"baseline">> \o <<"treatment">>
    BY <1>1, <1>3, <2>1, OneLeft
  <2>3. order' = <<"baseline", "treatment">>
    BY <2>2, TwoArms
  <2>4. DOMAIN order' = {1, 2} /\ order'[1] = "baseline" /\ order'[2] = "treatment"
    BY <2>3
  <2> QED BY <2>3, <2>4 DEF Orders, Arms
<1>4. CASE Paired /\ first = "treatment"
  <2>1. Arms \ {first} = {"baseline"}
    BY <1>4 DEF Arms
  <2>2. order' = <<"treatment">> \o <<"baseline">>
    BY <1>1, <1>4, <2>1, OneLeft
  <2>3. order' = <<"treatment", "baseline">>
    BY <2>2, TwoArms
  <2>4. DOMAIN order' = {1, 2} /\ order'[1] = "treatment" /\ order'[2] = "baseline"
    BY <2>3
  <2> QED BY <2>3, <2>4 DEF Orders, Arms
<1> QED BY <1>2, <1>3, <1>4 DEF Arms

(* The first of them runs; another may be left.                                *)
LEMMA FirstOf ==
  ASSUME order \in Orders
  PROVE  /\ Head(order) \in Arms /\ Head(order) = order[1] /\ 1 \in DOMAIN order
         /\ \/ Tail(order) = <<>> /\ DOMAIN order = {1}
            \/ \E b \in Arms : /\ b # Head(order) /\ Tail(order) = <<b>> /\ Head(Tail(order)) = b
                               /\ order[2] = b /\ DOMAIN order = {1, 2}
<1>1. CASE order = <<"baseline">>
  BY <1>1 DEF Arms
<1>2. CASE order = <<"treatment">>
  BY <1>2 DEF Arms
<1>3. CASE order = <<"baseline", "treatment">>
  <2>1. Head(order) = "baseline" /\ Tail(order) = <<"treatment">> /\ DOMAIN order = {1, 2}
    BY <1>3
  <2> QED BY <1>3, <2>1 DEF Arms
<1>4. CASE order = <<"treatment", "baseline">>
  <2>1. Head(order) = "treatment" /\ Tail(order) = <<"baseline">> /\ DOMAIN order = {1, 2}
    BY <1>4
  <2> QED BY <1>4, <2>1 DEF Arms
<1> QED BY <1>1, <1>2, <1>3, <1>4 DEF Orders

(* Who replays has workers to do it. *)
SeriesInv ==
  /\ study \in Studies
  /\ HostInv
  /\ phase = "replaying" => hosts # {}
  /\ phase \in Trying => order \in Orders

LEMMA SeriesMeasured ==
  ASSUME SeriesInv, phase \in Trying, NEW result, Measured(result)
  PROVE  SeriesInv'
<1> DEFINE rest == Tail(order)
           hs   == IF rest = <<>> THEN {} ELSE study.hosts[Head(rest)]
<1>1. /\ study' = study /\ order' = rest /\ Workers(hs)
      /\ phase' = IF rest = <<>> THEN "between" ELSE Executing(Head(rest))
  BY DEF Measured
<1>2. rest = <<>> \/ \E b \in Arms : rest = <<b>> /\ Head(rest) = b
  BY FirstOf DEF SeriesInv
<1>3. rest # <<>> => rest \in Orders /\ Head(rest) \in Arms
  BY <1>2 DEF Orders, Arms
<1>4. IsFiniteSet(hs)
  BY <1>3, StudiesAssumption, FS_EmptySet DEF SeriesInv, Arms
<1> HIDE DEF rest
<1>5. HostInv' /\ hosts' = hs
  BY <1>1, <1>4, FreshWorkers DEF Workers
<1>6. phase' \in Trying => rest # <<>>
  BY <1>1 DEF Trying
<1>7. phase' = "replaying" => hs # {}
  BY <1>1 DEF Executing
<1> QED BY <1>1, <1>3, <1>5, <1>6, <1>7 DEF SeriesInv

LEMMA SeriesInvInit == Init => SeriesInv
  BY NoWorkers DEF Init, SeriesInv, Trying

LEMMA SeriesInvStep == SeriesInv /\ [Next]_vars => SeriesInv'
<1> SUFFICES ASSUME SeriesInv, [Next]_vars PROVE SeriesInv'
  OBVIOUS
<1> USE DEF SeriesInv
<1>1. IsFiniteSet({}) /\ \A a \in Arms : IsFiniteSet(study.hosts[a])
  BY StudiesAssumption, FS_EmptySet DEF Arms
<1>2. ASSUME NEW first \in Arms, NextRound(first) PROVE SeriesInv'
  <2>1. HostInv' /\ hosts' = study.hosts[first]
    BY <1>1, <1>2, FreshWorkers DEF NextRound, Workers
  <2>2. order' \in Orders
    BY <1>2, RoundOrder
  <2> QED BY <1>2, <2>1, <2>2 DEF NextRound, Executing
<1>3. ASSUME NEW time, NEW valid, RunArm(time, valid) PROVE SeriesInv'
  BY <1>3, SeriesMeasured DEF RunArm, Trying
<1>4. CASE RunFails
  <2>1. HostInv'
    BY <1>1, <1>4, FreshWorkers DEF RunFails
  <2> QED BY <1>4, <2>1 DEF RunFails, Exits, Trying
<1>5. CASE Replay
  <2>1. HostInv'
    BY <1>5, HostStep DEF Replay
  <2>2. hosts' = hosts
    BY <1>5 DEF Replay, Pass, Complete, Tick, End
  <2> QED BY <1>5, <2>1, <2>2 DEF Replay, studyVars
<1>6. ASSUME NEW valid, Collected(valid) PROVE SeriesInv'
  BY <1>6, SeriesMeasured DEF Collected, Trying
<1>7. CASE Finish \/ WriteFailed \/ Written \/ AppendRow \/ AppendFails \/ Appended
  <2>1. UNCHANGED hostVars /\ study' = study /\ phase' \notin Trying
    BY <1>7 DEF Finish, WriteFailed, Written, AppendRow, AppendFails, Appended, Exits, Trying
  <2> QED BY <2>1 DEF hostVars, HostInv, Trying
<1>8. CASE Crash
  <2>1. HostInv'
    BY <1>1, <1>8, FreshWorkers DEF Crash
  <2> QED BY <1>8, <2>1 DEF Crash, Trying
<1>9. CASE Write \/ Done \/ UNCHANGED vars
  BY <1>9 DEF Write, Done, vars, hostVars, studyVars, HostInv
<1> QED BY <1>2, <1>3, <1>4, <1>5, <1>6, <1>7, <1>8, <1>9 DEF Next

(* However the workers of a run tick, and however their clocks fall into       *)
(* seconds, the merged series never goes back, claims no operation too early,  *)
(* misses none of a worker that ended, and adds up to the totals of the        *)
(* results (scheduler.go:455).                                                 *)
THEOREM SeriesIsWhole == Spec => []SeriesWhole
<1>1. SeriesInv => SeriesWhole
  <2>1. (phase = "replaying" /\ ended = hosts) \/ SeriesWhole
    BY DEF SeriesWhole
  <2> QED BY <2>1, OneSeries, ManySeries DEF SeriesInv
<1> QED BY SeriesInvInit, SeriesInvStep, <1>1, PTL DEF Spec

-----------------------------------------------------------------------------
(* The statistics. *)

Below(xs, x)  == {i \in DOMAIN xs : xs[i] < x}
Upto(xs, x) == {i \in DOMAIN xs : xs[i] <= x}

(* There is a k-th smallest. *)
LEMMA SmallestIs ==
  ASSUME NEW D, IsFiniteSet(D), NEW xs \in [D -> Int], NEW k \in 1..Cardinality(D)
  PROVE  /\ Smallest(xs, k) \in Int
         /\ Cardinality(Below(xs, Smallest(xs, k))) < k
         /\ k <= Cardinality(Upto(xs, Smallest(xs, k)))
<1> DEFINE R == Range(xs)
           T == {x \in R : k <= Cardinality(Upto(xs, x))}
<1>1. DOMAIN xs = D /\ R \subseteq Int /\ \A i \in D : xs[i] \in R
  BY DEF Range
<1>2. IsFiniteSet(R)
  <2>1. xs \in Surjection(D, R)
    BY <1>1 DEF Surjection, Range
  <2> QED BY <2>1, FS_Surjection
<1>3. \A x : /\ IsFiniteSet(Below(xs, x)) /\ IsFiniteSet(Upto(xs, x))
             /\ Cardinality(Below(xs, x)) \in Nat /\ Cardinality(Upto(xs, x)) \in Nat
  BY <1>1, FS_Subset, FS_CardinalityType DEF Below, Upto
<1>4. D # {} /\ Cardinality(D) \in Nat
  BY FS_EmptySet, FS_CardinalityType
<1>5. PICK top \in R : \A y \in R : y <= top
  BY <1>1, <1>2, <1>4, GreatestInt
<1>6. Upto(xs, top) = D
  BY <1>1, <1>5 DEF Upto
<1>7. T # {} /\ T \subseteq Int /\ IsFiniteSet(T)
  BY <1>1, <1>2, <1>4, <1>5, <1>6, FS_Subset
<1>8. PICK x \in T : \A y \in T : x <= y
  <2> HIDE DEF T
  <2> QED BY <1>7, LeastInt
<1>9. Cardinality(Below(xs, x)) < k
  <2> DEFINE Lower == {y \in R : y < x}
  <2>1. CASE Lower = {}
    <3>1. Below(xs, x) = {}
      BY <1>1, <2>1 DEF Below
    <3> QED BY <3>1, FS_EmptySet
  <2>2. CASE Lower # {}
    <3>1. Lower \subseteq Int /\ IsFiniteSet(Lower)
      BY <1>1, <1>2, FS_Subset
    <3>2. PICK y \in Lower : \A z \in Lower : z <= y
      <4> HIDE DEF Lower
      <4> QED BY <2>2, <3>1, GreatestInt
    <3>3. Below(xs, x) = Upto(xs, y)
      BY <1>1, <3>2 DEF Below, Upto
    <3>4. y \notin T
      BY <1>1, <1>8, <3>2
    <3> QED BY <1>3, <3>2, <3>3, <3>4
  <2> QED BY <2>1, <2>2
<1>10. \E y \in R : /\ Cardinality({i \in DOMAIN xs : xs[i] < y}) < k
                    /\ k <= Cardinality({i \in DOMAIN xs : xs[i] <= y})
  BY <1>8, <1>9 DEF Below, Upto
<1>11. /\ Smallest(xs, k) \in R
       /\ Cardinality({i \in DOMAIN xs : xs[i] < Smallest(xs, k)}) < k
       /\ k <= Cardinality({i \in DOMAIN xs : xs[i] <= Smallest(xs, k)})
  BY <1>10, Zenon DEF Smallest
<1> QED BY <1>1, <1>11 DEF Below, Upto

(* The k-th smallest is beyond a limit just if fewer than k are within it. *)
LEMMA BeyondSmallest ==
  ASSUME NEW D, IsFiniteSet(D), NEW xs \in [D -> Int], NEW k \in 1..Cardinality(D),
         NEW percent \in Int, NEW median \in Int
  PROVE  LET over == Cardinality({i \in D : Beyond(xs[i], percent, median)})
         IN  /\ over \in 0..Cardinality(D)
             /\ Beyond(Smallest(xs, k), percent, median) <=> Cardinality(D) - over < k
<1> DEFINE Over   == {i \in D : Beyond(xs[i], percent, median)}
           Within == {i \in D : ~Beyond(xs[i], percent, median)}
           x      == Smallest(xs, k)
<1>1. x \in Int /\ Cardinality(Below(xs, x)) < k /\ k <= Cardinality(Upto(xs, x))
  BY SmallestIs
<1>2. /\ IsFiniteSet(Over) /\ IsFiniteSet(Within) /\ IsFiniteSet(Below(xs, x)) /\ IsFiniteSet(Upto(xs, x))
      /\ Cardinality(D) \in Nat /\ Cardinality(Over) \in Nat /\ Cardinality(Within) \in Nat
      /\ Cardinality(Below(xs, x)) \in Nat /\ Cardinality(Upto(xs, x)) \in Nat
  BY FS_Subset, FS_CardinalityType DEF Below, Upto
<1> HIDE DEF x
<1>3. Cardinality(Within) = Cardinality(D) - Cardinality(Over)
  <2>1. Within = D \ Over /\ D \cap Over = Over
    OBVIOUS
  <2> HIDE DEF Within, Over
  <2> QED BY <2>1, FS_Difference
<1>4. ASSUME Beyond(x, percent, median) PROVE Cardinality(Within) < k
  <2>1. Within \subseteq Below(xs, x)
    BY <1>1, <1>4 DEF Beyond, Below
  <2> QED BY <1>1, <1>2, <2>1, FS_Subset
<1>5. ASSUME ~Beyond(x, percent, median) PROVE k <= Cardinality(Within)
  <2>1. Upto(xs, x) \subseteq Within
    BY <1>1, <1>5 DEF Beyond, Upto
  <2> QED BY <1>1, <1>2, <2>1, FS_Subset
<1>6. Cardinality(Over) <= Cardinality(D)
  BY FS_Subset
<1> QED BY <1>2, <1>3, <1>4, <1>5, <1>6 DEF x

(* How unlikely it is that at most i of n fall on one side. *)
LEMMA WaysAre ==
  ASSUME NEW n \in Nat
  PROVE  /\ 2 ^ n \in Nat /\ 2 ^ n > 0
         /\ \A i \in Nat : Ways(n, i) \in Nat
         /\ \A i, j \in Nat : j <= i => Ways(n, j) <= Ways(n, i)
         /\ Ways(n, n) = 2 ^ n /\ Ways(n, 0) = 1
<1> DEFINE All == SUBSET (1..n)
           Some(i) == {below \in All : Cardinality(below) <= i}
<1>1. IsFiniteSet(1..n) /\ Cardinality(1..n) = n
  BY FS_Interval
<1>2. IsFiniteSet(All) /\ Cardinality(All) = 2 ^ n
  BY <1>1, FS_SUBSET
<1>3. \A T \in All : IsFiniteSet(T) /\ Cardinality(T) \in Nat /\ Cardinality(T) <= n
  BY <1>1, FS_Subset, FS_CardinalityType
<1>4. \A i : IsFiniteSet(Some(i)) /\ Cardinality(Some(i)) \in Nat
  BY <1>2, FS_Subset, FS_CardinalityType
<1>5. ASSUME NEW i \in Nat, NEW j \in Nat, j <= i PROVE Cardinality(Some(j)) <= Cardinality(Some(i))
  <2>1. Some(j) \subseteq Some(i)
    BY <1>3, <1>5
  <2> HIDE DEF Some
  <2> QED BY <1>4, <2>1, FS_Subset
<1>6. Some(n) = All
  BY <1>3
<1>7. Some(0) = {{}}
  BY <1>3, FS_EmptySet
<1>8. 2 ^ n \in Nat /\ 2 ^ n > 0
  BY <1>2, FS_CardinalityType, FS_EmptySet
<1>9. Cardinality({{}}) = 1
  BY FS_Singleton
<1>10. \A i : Ways(n, i) = Cardinality(Some(i))
  BY DEF Ways
<1> HIDE DEF Some
<1> QED BY <1>2, <1>4, <1>5, <1>6, <1>7, <1>8, <1>9, <1>10

LEMMA FewAreLikely ==
  ASSUME NEW n \in 0..5
  PROVE  ~Unlikely(n, 0)
<1>1. 2 ^ n <= 32
  <2>1. 2 ^ 0 <= 32 /\ 2 ^ 1 <= 32 /\ 2 ^ 2 <= 32 /\ 2 ^ 3 <= 32 /\ 2 ^ 4 <= 32 /\ 2 ^ 5 <= 32
    OBVIOUS
  <2>2. n = 0 \/ n = 1 \/ n = 2 \/ n = 3 \/ n = 4 \/ n = 5
    OBVIOUS
  <2> QED BY <2>1, <2>2
<1>2. Ways(n, 0) = 1 /\ 2 ^ n \in Nat
  <2>1. n \in Nat
    OBVIOUS
  <2> QED BY <2>1, WaysAre
<1> QED BY <1>1, <1>2 DEF Unlikely

(* The rank is where the unlikely ends. *)
LEMMA RankIs ==
  ASSUME NEW n \in Nat
  PROVE  /\ Rank(n) \in 0..n
         /\ \A i \in 0..n : Unlikely(n, i) <=> i < Rank(n)
<1> DEFINE ranks == {k \in 1..n : \A j \in 1..k : Unlikely(n, j - 1)}
<1>1. \A i, j \in Nat : j <= i /\ Unlikely(n, i) => Unlikely(n, j)
  <2>1. \A i, j \in Nat : j <= i => Ways(n, j) <= Ways(n, i)
    BY WaysAre
  <2>2. 2 ^ n \in Nat /\ \A i \in Nat : Ways(n, i) \in Nat
    BY WaysAre
  <2> QED BY <2>1, <2>2 DEF Unlikely
<1>2. ~Unlikely(n, n)
  BY WaysAre DEF Unlikely
<1>3. ASSUME n < 6 \/ ranks = {}
      PROVE  Rank(n) = 0 /\ ~Unlikely(n, 0)
  <2>1. Rank(n) = 0
    BY <1>3 DEF Rank
  <2>2. ASSUME n >= 6, Unlikely(n, 0) PROVE 1 \in ranks
    BY <2>2
  <2> QED BY <1>3, <2>1, <2>2, FewAreLikely
<1>4. ASSUME ~(n < 6 \/ ranks = {})
      PROVE  Rank(n) \in ranks /\ \A j \in ranks : j <= Rank(n)
  <2>1. \E k \in ranks : \A j \in ranks : j <= k
    <3>1. ranks \in SUBSET (0..n)
      OBVIOUS
    <3> HIDE DEF ranks
    <3> QED BY <1>4, <3>1, GreatestNumber
  <2>2. Rank(n) = CHOOSE k \in ranks : \A j \in ranks : j <= k
    BY <1>4 DEF Rank
  <2> HIDE DEF ranks
  <2> QED BY <2>1, <2>2
<1>5. CASE n < 6 \/ ranks = {}
  BY <1>1, <1>3, <1>5
<1>6. CASE ~(n < 6 \/ ranks = {})
  <2> DEFINE r == Rank(n)
  <2>1. r \in 1..n /\ (\A j \in 1..r : Unlikely(n, j - 1)) /\ \A j \in ranks : j <= r
    BY <1>4, <1>6
  <2> HIDE DEF r
  <2>2. ASSUME NEW i \in 0..n, i < r PROVE Unlikely(n, i)
    <3>1. i + 1 \in 1..r /\ (i + 1) - 1 = i
      BY <2>1, <2>2
    <3> QED BY <2>1, <3>1
  <2>3. ASSUME NEW i \in 0..n, ~(i < r) PROVE ~Unlikely(n, i)
    <3> SUFFICES ASSUME Unlikely(n, i) PROVE FALSE
      OBVIOUS
    <3>1. Unlikely(n, r)
      BY <1>1, <2>1, <2>3
    <3>2. r # n /\ r + 1 \in 1..n
      BY <1>2, <2>1, <3>1
    <3>3. \A j \in 1..(r + 1) : Unlikely(n, j - 1)
      BY <2>1, <3>1
    <3>4. r + 1 \in ranks
      BY <3>2, <3>3
    <3> QED BY <2>1, <3>4
  <2> QED BY <2>1, <2>2, <2>3 DEF r
<1> QED BY <1>5, <1>6

(* The verdict, by counting the differences beyond the threshold. *)
LEMMA VerdictIs ==
  ASSUME NEW D, IsFiniteSet(D), NEW deltas \in [D -> Int],
         NEW percent \in Int, percent > 0, NEW median \in Int
  PROVE  LET n       == Cardinality(D)
             over    == Cardinality({i \in D : Beyond(deltas[i], percent, median)})
             verdict == RegressionVerdict(deltas, percent, median)
         IN  verdict = IF median = 0 \/ ~Unlikely(n, 0) THEN "not_assessed"
                       ELSE IF Unlikely(n, n - over) THEN "regression"
                       ELSE IF Unlikely(n, over) THEN "pass" ELSE "inconclusive"
<1> DEFINE n    == Cardinality(D)
           over == Cardinality({i \in D : Beyond(deltas[i], percent, median)})
           r    == Rank(n)
           v    == RegressionVerdict(deltas, percent, median)
<1> SUFFICES v = IF median = 0 \/ ~Unlikely(n, 0) THEN "not_assessed"
                 ELSE IF Unlikely(n, n - over) THEN "regression"
                 ELSE IF Unlikely(n, over) THEN "pass" ELSE "inconclusive"
  OBVIOUS
<1>1. DOMAIN deltas = D /\ n \in Nat /\ Count(deltas) = n
  BY FS_CardinalityType DEF Count
<1>2. r \in 0..n /\ \A i \in 0..n : Unlikely(n, i) <=> i < r
  BY <1>1, RankIs
<1>3. ~(percent <= 0)
  OBVIOUS
<1>4. CASE median = 0 \/ r = 0
  <2>1. v = "not_assessed"
    <3>1. percent <= 0 \/ median = 0 \/ Rank(Count(deltas)) = 0
      BY <1>1, <1>4
    <3> QED BY <3>1 DEF RegressionVerdict
  <2>2. median = 0 \/ ~Unlikely(n, 0)
    <3>1. 0 \in 0..n
      BY <1>1
    <3> QED BY <1>2, <1>4, <3>1
  <2> QED BY <2>1, <2>2
<1>5. CASE ~(median = 0 \/ r = 0)
  <2>1. r \in 1..n /\ n + 1 - r \in 1..n
    BY <1>1, <1>2, <1>5
  <2>2. over \in 0..n /\ n - over \in 0..n
    <3> DEFINE Over == {i \in D : Beyond(deltas[i], percent, median)}
    <3>1. Cardinality(Over) \in Nat /\ Cardinality(Over) <= n
      <4>1. Over \in SUBSET D
        OBVIOUS
      <4> HIDE DEF Over
      <4> QED BY <1>1, <4>1, FS_Subset, FS_CardinalityType
    <3> QED BY <1>1, <3>1
  <2>3. Beyond(IntervalLow(deltas), percent, median) <=> n - over < r
    BY <1>1, <2>1, BeyondSmallest DEF IntervalLow
  <2>4. Beyond(IntervalHigh(deltas), percent, median) <=> n - over < n + 1 - r
    BY <1>1, <2>1, BeyondSmallest DEF IntervalHigh
  <2>5. v =
          IF n - over < r THEN "regression" ELSE IF over < r THEN "pass" ELSE "inconclusive"
    <3>1. ~(percent <= 0 \/ median = 0 \/ Rank(Count(deltas)) = 0)
      BY <1>1, <1>3, <1>5
    <3>2. (n - over < n + 1 - r) <=> ~(over < r)
      BY <1>1, <2>1, <2>2
    <3> HIDE DEF n, over, r
    <3>3. CASE Beyond(IntervalLow(deltas), percent, median)
      BY <2>3, <3>1, <3>3 DEF v, RegressionVerdict
    <3>4. CASE ~Beyond(IntervalLow(deltas), percent, median) /\ ~Beyond(IntervalHigh(deltas), percent, median)
      BY <2>3, <2>4, <3>1, <3>2, <3>4 DEF v, RegressionVerdict
    <3>5. CASE ~Beyond(IntervalLow(deltas), percent, median) /\ Beyond(IntervalHigh(deltas), percent, median)
      BY <2>3, <2>4, <3>1, <3>2, <3>5 DEF v, RegressionVerdict
    <3> QED BY <3>3, <3>4, <3>5
  <2>6. Unlikely(n, 0) /\ (Unlikely(n, n - over) <=> n - over < r) /\ (Unlikely(n, over) <=> over < r)
    <3>1. 0 \in 0..n /\ 0 < r
      BY <1>1, <2>1
    <3> HIDE DEF n, over, r
    <3> QED BY <1>2, <2>2, <3>1
  <2> HIDE DEF n, over, r
  <2> QED BY <1>5, <2>5, <2>6 DEF n, over
<1> QED BY <1>4, <1>5

-----------------------------------------------------------------------------
(* The rounds of an experiment: the i-th trial of an arm is what it measured   *)
(* in the i-th measured round, and an arm has a trial fewer than there were    *)
(* rounds only while it is still to run in this one.                           *)
Results == [time : Nat, valid : BOOLEAN]

StillToRun(a) == phase \in Trying /\ ~Warming /\ \E i \in DOMAIN order : order[i] = a
Owed(a) == IF StillToRun(a) THEN 1 ELSE 0

Halves ==
  /\ Len(measured) = IF Warming THEN 0 ELSE round - study.warmup
  /\ \A a \in Arms : Len(measured) = Len(trials[a]) + Owed(a)
  /\ \A a \in Arms : \A i \in DOMAIN trials[a] : trials[a][i] = measured[i][a]

PairInv ==
  /\ round \in Nat
  /\ trials \in [Arms -> Seq(Results)]
  /\ measured \in Seq([Arms -> Results \cup {None}])
  /\ phase \in Trying => order \in Orders
  /\ phase \notin {"over", "crashed"} => Halves
  /\ phase = "writing" => round = Rounds
  /\ phase # "csv"
  /\ GateHonest

LEMMA PairInvInit == Init => PairInv
<1> SUFFICES ASSUME Init PROVE PairInv
  OBVIOUS
<1>1. /\ round = 0 /\ phase = "between" /\ measured = <<>> /\ trials = [a \in Arms |-> <<>>]
      /\ study \in Studies
  BY DEF Init
<1>2. study.warmup \in Nat
  BY <1>1, StudiesAssumption
<1>3. /\ <<>> \in Seq(Results) /\ <<>> \in Seq([Arms -> Results \cup {None}]) /\ Len(<<>>) = 0
      /\ DOMAIN <<>> = {}
  OBVIOUS
<1>4. Warming
  BY <1>1, <1>2 DEF Warming
<1>5. \A a \in Arms : Owed(a) = 0
  BY <1>1 DEF Owed, StillToRun, Trying
<1>6. Halves
  BY <1>1, <1>3, <1>4, <1>5 DEF Halves
<1> QED BY <1>1, <1>3, <1>6 DEF PairInv, GateHonest, Trying

LEMMA PairRound ==
  ASSUME study \in Studies, Paired, PairInv, NEW first \in Arms, NextRound(first)
  PROVE  PairInv'
<1>1. /\ phase = "between" /\ round < Rounds /\ round' = round + 1 /\ phase' = Executing(first)
      /\ measured' = IF round < study.warmup THEN measured ELSE Append(measured, [a \in Arms |-> None])
      /\ UNCHANGED <<study, trials, exit>>
  BY DEF NextRound
<1>2. study.warmup \in Nat /\ study.trials \in Nat /\ round \in Nat /\ phase' \in Trying
  BY <1>1, StudiesAssumption DEF PairInv, Executing, Trying
<1>3. order' \in Orders /\ \A a \in Arms : \E i \in DOMAIN order' : order'[i] = a
  BY RoundOrder
<1>4. Halves /\ trials \in [Arms -> Seq(Results)] /\ measured \in Seq([Arms -> Results \cup {None}])
  BY <1>1 DEF PairInv
<1>5. \A a \in Arms : Owed(a) = 0 /\ Len(measured) = Len(trials[a])
  <2>1. \A a \in Arms : Owed(a) = 0 /\ Len(trials[a]) \in Nat
    BY <1>1, <1>4 DEF Owed, StillToRun, Trying
  <2> QED BY <1>4, <2>1 DEF Halves
<1>6. Halves' /\ measured' \in Seq([Arms -> Results \cup {None}])
  <2>1. CASE round < study.warmup
    <3>1. Warming /\ Warming' /\ measured' = measured
      BY <1>1, <1>2, <2>1 DEF Warming
    <3>2. \A a \in Arms : Owed(a)' = 0
      BY <3>1 DEF Owed, StillToRun
    <3> QED BY <1>1, <1>4, <1>5, <3>1, <3>2 DEF Halves
  <2>2. CASE ~(round < study.warmup)
    <3>1. ~Warming' /\ measured' = Append(measured, [a \in Arms |-> None])
      BY <1>1, <1>2, <2>2 DEF Warming
    <3>2. \A a \in Arms : Owed(a)' = 1
      BY <1>2, <1>3, <3>1 DEF Owed, StillToRun
    <3>3. Len(measured) = round - study.warmup
      <4>1. CASE Warming
        BY <1>2, <1>4, <2>2, <4>1 DEF Halves, Warming
      <4>2. CASE ~Warming
        BY <1>4, <4>2 DEF Halves
      <4> QED BY <4>1, <4>2
    <3>4. /\ measured' \in Seq([Arms -> Results \cup {None}]) /\ Len(measured') = Len(measured) + 1
          /\ \A i \in 1..Len(measured) : measured'[i] = measured[i]
      <4>1. [a \in Arms |-> None] \in [Arms -> Results \cup {None}]
        OBVIOUS
      <4> QED BY <1>4, <3>1, <4>1
    <3>5. Len(measured') = round' - study'.warmup
      BY <1>1, <1>2, <3>3, <3>4
    <3>6. \A a \in Arms : Len(measured') = Len(trials'[a]) + Owed(a)'
      BY <1>1, <1>5, <3>2, <3>4
    <3>7. \A a \in Arms : \A i \in DOMAIN trials'[a] : trials'[a][i] = measured'[i][a]
      <4> SUFFICES ASSUME NEW a \in Arms, NEW i \in DOMAIN trials[a]
                   PROVE  trials[a][i] = measured'[i][a]
        BY <1>1
      <4>1. trials[a][i] = measured[i][a]
        BY <1>4 DEF Halves
      <4>2. i \in 1..Len(measured)
        BY <1>4, <1>5
      <4> QED BY <3>4, <4>1, <4>2
    <3> QED BY <3>1, <3>4, <3>5, <3>6, <3>7 DEF Halves
  <2> QED BY <2>1, <2>2
<1>7. GateHonest' /\ phase' \notin {"over", "crashed", "writing", "csv"}
  BY <1>2 DEF GateHonest, Trying
<1> QED BY <1>1, <1>2, <1>3, <1>4, <1>6, <1>7 DEF PairInv

LEMMA PairMeasured ==
  ASSUME study \in Studies, Paired, PairInv, phase \in Trying, NEW result \in Results, Measured(result)
  PROVE  PairInv'
<1> DEFINE m == Len(measured)
<1>0. PICK arm : arm = Head(order)
  OBVIOUS
<1>1. /\ trials' = IF Warming THEN trials ELSE Filed(arm, result)
      /\ measured' = IF Warming THEN measured ELSE [measured EXCEPT ![m][arm] = result]
      /\ order' = Tail(order)
      /\ phase' = IF Tail(order) = <<>> THEN "between" ELSE Executing(Head(Tail(order)))
      /\ UNCHANGED <<study, round, exit>>
  BY <1>0 DEF Measured
<1>2. /\ order \in Orders /\ Halves /\ trials \in [Arms -> Seq(Results)]
      /\ measured \in Seq([Arms -> Results \cup {None}]) /\ round \in Nat
  BY DEF PairInv, Trying
<1>3. /\ arm \in Arms /\ arm = order[1] /\ 1 \in DOMAIN order
      /\ order' = <<>> \/ \E b \in Arms : b # arm /\ order' = <<b>> /\ order[2] = b /\ DOMAIN order = {1, 2}
      /\ order' = <<>> => DOMAIN order = {1}
  <2>1. order \in Orders
    BY <1>2
  <2>2. /\ arm \in Arms /\ arm = order[1] /\ 1 \in DOMAIN order
        /\ \/ order' = <<>> /\ DOMAIN order = {1}
           \/ \E b \in Arms : b # arm /\ order' = <<b>> /\ order[2] = b /\ DOMAIN order = {1, 2}
    BY <1>0, <1>1, <2>1, FirstOf
  <2>3. \A b : <<b>> # <<>>
    OBVIOUS
  <2> QED BY <2>2, <2>3
<1> HIDE DEF m
<1>4. phase' \in Trying => order' \in Orders
  BY <1>1, <1>3 DEF Orders, Arms, Trying
<1>5. phase' \in {"between", "measuring", "replaying"} /\ (phase' \in Trying <=> order' # <<>>)
  BY <1>1 DEF Executing, Trying
<1>6. GateHonest' /\ phase' \notin {"over", "crashed", "writing", "csv"}
  BY <1>5 DEF GateHonest
<1>7. CASE Warming
  <2>1. Warming' /\ trials' = trials /\ measured' = measured
    BY <1>1, <1>7 DEF Warming
  <2>2. \A a \in Arms : Owed(a) = 0 /\ Owed(a)' = 0
    BY <1>7, <2>1 DEF Owed, StillToRun
  <2>3. Halves'
    BY <1>1, <1>2, <1>7, <2>1, <2>2 DEF Halves
  <2> QED BY <1>1, <1>2, <1>4, <1>6, <2>1, <2>3 DEF PairInv
<1>8. CASE ~Warming
  <2> DEFINE old == measured[m]
             new == [old EXCEPT ![arm] = result]
  <2>1. /\ ~Warming' /\ trials' = [trials EXCEPT ![arm] = Append(trials[arm], result)]
        /\ measured' = [measured EXCEPT ![m] = new]
    BY <1>1, <1>8 DEF Warming, Filed
  <2>2. Owed(arm) = 1 /\ Owed(arm)' = 0
    <3>1. Owed(arm) = 1
      BY <1>3, <1>8 DEF Owed, StillToRun
    <3>2. ~(phase' \in Trying /\ \E i \in DOMAIN order' : order'[i] = arm)
      <4>1. CASE order' = <<>>
        BY <1>5, <4>1
      <4>2. CASE order' # <<>>
        <5>1. PICK b \in Arms : b # arm /\ order' = <<b>>
          BY <1>3, <4>2
        <5> QED BY <5>1
      <4> QED BY <4>1, <4>2
    <3>3. ~StillToRun(arm)'
      BY <3>2 DEF StillToRun
    <3> QED BY <3>1, <3>3 DEF Owed
  <2>3. ASSUME NEW a \in Arms, a # arm PROVE Owed(a)' = Owed(a)
    <3>1. CASE order' = <<>>
      <4>1. ~StillToRun(a)
        BY <1>3, <2>3, <3>1 DEF StillToRun
      <4>2. ~StillToRun(a)'
        BY <1>5, <3>1 DEF StillToRun
      <4> QED BY <4>1, <4>2 DEF Owed
    <3>2. CASE order' # <<>>
      <4>1. PICK b \in Arms : b # arm /\ order' = <<b>> /\ order[2] = b /\ DOMAIN order = {1, 2}
        BY <1>3, <3>2
      <4>2. a = b
        BY <2>3, <1>3, <4>1 DEF Arms
      <4>3. StillToRun(a)
        BY <1>8, <4>1, <4>2 DEF StillToRun
      <4>4. DOMAIN order' = {1} /\ order'[1] = a
        BY <4>1, <4>2
      <4>5. StillToRun(a)'
        BY <1>5, <2>1, <3>2, <4>4 DEF StillToRun
      <4> QED BY <4>3, <4>5 DEF Owed
    <3> QED BY <3>1, <3>2
  <2>4. /\ m \in Nat /\ m >= 1 /\ \A a \in Arms : trials[a] \in Seq(Results) /\ Len(trials[a]) \in Nat
        /\ Len(trials[arm]) = m - 1
    <3>1. m \in Nat /\ \A a \in Arms : trials[a] \in Seq(Results) /\ Len(trials[a]) \in Nat
      BY <1>2 DEF m
    <3>2. m = Len(trials[arm]) + Owed(arm)
      BY <1>2, <1>3 DEF Halves, m
    <3> QED BY <1>3, <2>2, <3>1, <3>2
  <2>5. old \in [Arms -> Results \cup {None}] /\ new \in [Arms -> Results \cup {None}]
        /\ new[arm] = result /\ \A a \in Arms : a # arm => new[a] = old[a]
    <3>1. old \in [Arms -> Results \cup {None}]
      BY <1>2, <2>4 DEF m
    <3> HIDE DEF old
    <3> QED BY <1>3, <3>1
  <2> HIDE DEF new
  <2>6. /\ measured' \in Seq([Arms -> Results \cup {None}]) /\ Len(measured') = m
        /\ measured'[m] = new /\ \A i \in 1..m : i # m => measured'[i] = measured[i]
    <3>1. m \in 1..Len(measured) /\ Len(measured) = m
      BY <2>4 DEF m
    <3> DEFINE S == [Arms -> Results \cup {None}]
    <3>2. measured \in Seq(S) /\ new \in S
      BY <1>2, <2>5
    <3> HIDE DEF S
    <3>3. LET q == [measured EXCEPT ![m] = new]
          IN  /\ q \in Seq(S) /\ Len(q) = Len(measured)
              /\ \A j \in 1..Len(measured) : q[j] = IF j = m THEN new ELSE measured[j]
      BY <3>1, <3>2, ExceptSeq
    <3> QED BY <2>1, <3>1, <3>3 DEF S
  <2>7. /\ trials' \in [Arms -> Seq(Results)]
        /\ trials'[arm] = Append(trials[arm], result) /\ \A a \in Arms : a # arm => trials'[a] = trials[a]
    BY <1>2, <1>3, <2>1, <2>4
  <2>8. Len(trials'[arm]) = m /\ \A i \in 1..(m - 1) : trials'[arm][i] = trials[arm][i]
    BY <1>3, <2>4, <2>7
  <2>9. trials'[arm][m] = result /\ DOMAIN trials'[arm] = 1..m
    BY <1>3, <2>4, <2>7
  <2>10. \A a \in Arms : Len(measured') = Len(trials'[a]) + Owed(a)'
    <3> SUFFICES ASSUME NEW a \in Arms PROVE Len(measured') = Len(trials'[a]) + Owed(a)'
      OBVIOUS
    <3>1. CASE a = arm
      BY <2>2, <2>4, <2>6, <2>8, <3>1
    <3>2. CASE a # arm
      <4>1. m = Len(trials[a]) + Owed(a)
        BY <1>2 DEF Halves, m
      <4> QED BY <2>3, <2>6, <2>7, <3>2, <4>1
    <3> QED BY <3>1, <3>2
  <2>11. ASSUME NEW a \in Arms, NEW i \in DOMAIN trials'[a] PROVE trials'[a][i] = measured'[i][a]
    <3>1. CASE a = arm
      <4>1. i \in 1..m
        BY <2>9, <2>11, <3>1
      <4>2. CASE i = m
        BY <2>5, <2>6, <2>9, <3>1, <4>2
      <4>3. CASE i # m
        <5>1. i \in 1..(m - 1) /\ i \in DOMAIN trials[arm]
          BY <1>3, <2>4, <4>1, <4>3
        <5>2. trials[arm][i] = measured[i][arm]
          BY <1>2, <1>3, <5>1 DEF Halves
        <5> QED BY <2>6, <2>8, <3>1, <4>1, <4>3, <5>1, <5>2
      <4> QED BY <4>2, <4>3
    <3>2. CASE a # arm
      <4>1. trials'[a] = trials[a] /\ i \in DOMAIN trials[a]
        BY <2>7, <2>11, <3>2
      <4>2. trials[a][i] = measured[i][a]
        BY <1>2, <4>1 DEF Halves
      <4>3. i \in 1..m
        <5>1. m = Len(trials[a]) + Owed(a) /\ Owed(a) \in {0, 1}
          BY <1>2 DEF Halves, m, Owed
        <5>2. i \in 1..Len(trials[a])
          BY <2>4, <4>1
        <5> QED BY <2>4, <5>1, <5>2
      <4>4. measured'[i][a] = measured[i][a]
        <5>1. CASE i = m
          BY <2>5, <2>6, <3>2, <5>1
        <5>2. CASE i # m
          BY <2>6, <4>3, <5>2
        <5> QED BY <5>1, <5>2
      <4> QED BY <4>1, <4>2, <4>4
    <3> QED BY <3>1, <3>2
  <2>12. Len(measured') = IF Warming' THEN 0 ELSE round' - study'.warmup
    BY <1>1, <1>2, <1>8, <2>1, <2>6 DEF Halves, m
  <2>13. Halves'
    BY <2>10, <2>11, <2>12 DEF Halves
  <2> QED BY <1>1, <1>2, <1>4, <1>6, <2>6, <2>7, <2>13 DEF PairInv
<1> QED BY <1>7, <1>8

(* The statistics of an arm all of whose trials were valid. *)
LEMMA NothingMissing ==
  ASSUME trials \in [Arms -> Seq(Results)], NEW a \in Arms, trials[a] # <<>>, ~Blocked(a), study \in Studies
  PROVE  LET n == Len(trials[a])
         IN  /\ n \in Nat /\ n >= 1 /\ n >= study.minTrials /\ DOMAIN trials[a] = 1..n
             /\ Valid(a) = 1..n /\ Times(a) = [i \in 1..n |-> trials[a][i].time]
             /\ \A i \in 1..n : trials[a][i].time \in Nat /\ trials[a][i].valid
<1> DEFINE n == Len(trials[a])
<1>1. n \in Nat /\ n >= 1 /\ DOMAIN trials[a] = 1..n /\ trials[a] \in Seq(Results)
  OBVIOUS
<1>2. Count(Times(a)) = Cardinality(Valid(a))
  BY DEF Count, Times
<1>3. Valid(a) \in SUBSET (1..n)
  BY <1>1 DEF Valid
<1>4. IsFiniteSet(1..n) /\ Cardinality(1..n) = n
  BY <1>1, FS_Interval
<1>5. Cardinality(Valid(a)) \in Nat /\ Cardinality(Valid(a)) <= n
  BY <1>3, <1>4, FS_Subset, FS_CardinalityType
<1>6. Cardinality(Valid(a)) = n /\ n >= study.minTrials
  <2>1. ~(n - Cardinality(Valid(a)) > 0) /\ ~(Cardinality(Valid(a)) < study.minTrials)
    BY <1>2 DEF Blocked, Failed
  <2>2. study.minTrials \in Int
    BY StudiesAssumption
  <2> HIDE DEF n
  <2> QED BY <1>1, <1>5, <2>1, <2>2
<1>7. Valid(a) = 1..n
  BY <1>3, <1>4, <1>6, FS_Subset
<1>8. \A i \in 1..n : trials[a][i].time \in Nat /\ trials[a][i].valid
  <2> SUFFICES ASSUME NEW i \in 1..n PROVE trials[a][i].time \in Nat /\ trials[a][i].valid
    OBVIOUS
  <2>1. trials[a][i] \in Results
    BY <1>1
  <2>2. trials[a][i].valid
    BY <1>7 DEF Valid
  <2> QED BY <2>1, <2>2 DEF Results
<1> QED BY <1>1, <1>6, <1>7, <1>8 DEF Times

(* A median is a number. *)
LEMMA MedianIs ==
  ASSUME NEW n \in Nat, n >= 1, NEW xs \in [1..n -> Int]
  PROVE  MedianTwice(xs) \in Int
<1>1. IsFiniteSet(1..n) /\ Cardinality(1..n) = n /\ Count(xs) = n
  BY FS_Interval DEF Count
<1>2. (n + 1) \div 2 \in 1..n /\ n \div 2 + 1 \in 1..n
  OBVIOUS
<1>3. Smallest(xs, (n + 1) \div 2) \in Int /\ Smallest(xs, n \div 2 + 1) \in Int
  BY <1>1, <1>2, SmallestIs
<1> QED BY <1>1, <1>3 DEF MedianTwice

(* The status of an experiment whose trials can be compared. *)
LEMMA StatusIs ==
  ASSUME study \in Studies, Paired, PairInv, phase = "writing", Comparable
  PROVE  /\ Len(measured) = study.trials /\ study.trials >= study.minTrials
         /\ \A i \in DOMAIN measured, a \in Arms : measured[i][a].valid
         /\ PairedStatus = IF Testable THEN SignTest(study.threshold) ELSE 0
<1> DEFINE n == Len(measured)
           percent == study.threshold
<1>1. /\ study.trials \in Nat /\ study.warmup \in Nat /\ study.minTrials \in Int /\ percent \in Int
  BY StudiesAssumption
<1>2. Halves /\ round = study.warmup + study.trials /\ trials \in [Arms -> Seq(Results)]
      /\ measured \in Seq([Arms -> Results \cup {None}])
  BY DEF PairInv, Rounds
<1>3. n = study.trials
  BY <1>1, <1>2 DEF Halves, Warming
<1>4. ASSUME NEW a \in Arms
      PROVE  /\ Len(trials[a]) = n /\ n >= 1 /\ n >= study.minTrials
             /\ DOMAIN trials[a] = 1..n
             /\ Valid(a) = 1..n /\ Times(a) = [i \in 1..n |-> trials[a][i].time]
             /\ \A i \in 1..n : /\ trials[a][i].time \in Nat /\ trials[a][i].valid
                                /\ trials[a][i] = measured[i][a]
  <2>1. trials[a] # <<>> /\ ~Blocked(a)
    BY DEF Comparable
  <2>2. Owed(a) = 0
    BY DEF Owed, StillToRun, Trying
  <2>3. n = Len(trials[a]) + Owed(a) /\ \A i \in DOMAIN trials[a] : trials[a][i] = measured[i][a]
    BY <1>2 DEF Halves
  <2>4. LET k == Len(trials[a])
        IN  /\ k \in Nat /\ k >= 1 /\ k >= study.minTrials /\ DOMAIN trials[a] = 1..k
            /\ Valid(a) = 1..k /\ Times(a) = [i \in 1..k |-> trials[a][i].time]
            /\ \A i \in 1..k : trials[a][i].time \in Nat /\ trials[a][i].valid
    BY <1>2, <2>1, NothingMissing
  <2>5. Len(trials[a]) = n
    BY <2>2, <2>3, <2>4
  <2> HIDE DEF n
  <2> QED BY <2>3, <2>4, <2>5
<1>5. n \in Nat /\ n >= 1 /\ n >= study.minTrials /\ DOMAIN measured = 1..n
  BY <1>2, <1>4 DEF Arms
<1> HIDE DEF n
<1>6. \A i \in DOMAIN measured, a \in Arms : measured[i][a].valid
  BY <1>4, <1>5
<1> DEFINE base   == [i \in 1..n |-> measured[i]["baseline"].time]
           median == MedianTwice(base)
           deltas == [i \in 1..n |-> Delta(i)]
           over   == Cardinality({i \in 1..n : Beyond(Delta(i), percent, median)})
<1>7. Times("baseline") = base /\ base \in [1..n -> Int]
  BY <1>4 DEF Arms
<1>8. Deltas = deltas /\ deltas \in [1..n -> Int]
  <2>1. Valid("baseline") \cap Valid("treatment") = 1..n
    BY <1>4 DEF Arms
  <2>2. \A i \in 1..n : /\ trials["treatment"][i].time - trials["baseline"][i].time = Delta(i)
                         /\ Delta(i) \in Int
    <3> SUFFICES ASSUME NEW i \in 1..n
                 PROVE  /\ trials["treatment"][i].time - trials["baseline"][i].time = Delta(i)
                        /\ Delta(i) \in Int
      OBVIOUS
    <3>1. /\ trials["baseline"][i].time \in Nat /\ trials["baseline"][i] = measured[i]["baseline"]
          /\ trials["treatment"][i].time \in Nat /\ trials["treatment"][i] = measured[i]["treatment"]
      BY <1>4 DEF Arms
    <3> QED BY <3>1 DEF Delta
  <2> QED BY <2>1, <2>2 DEF Deltas
<1>9. median \in Int
  <2> HIDE DEF base
  <2> QED BY <1>5, <1>7, MedianIs
<1>13. Base = median
  BY <1>5 DEF Base
<1>14. Testable <=> percent > 0 /\ study.treatment /\ median # 0 /\ Unlikely(n, 0)
  <2> HIDE DEF median
  <2> QED BY <1>13 DEF Testable, n
<1>10. Verdict = IF ~study.treatment THEN "not_assessed" ELSE RegressionVerdict(deltas, percent, median)
  <2> HIDE DEF deltas, base
  <2> QED BY <1>7, <1>8 DEF Verdict
<1>11. CASE ~(percent > 0 /\ study.treatment)
  <2>1. Verdict = "not_assessed"
    <3>1. percent > 0 \/ percent <= 0
      BY <1>1
    <3> HIDE DEF deltas, median, percent
    <3> QED BY <1>10, <1>11, <3>1 DEF RegressionVerdict
  <2>2. PairedStatus = 0
    BY <2>1 DEF PairedStatus
  <2>3. ~Testable
    BY <1>11, <1>14
  <2> QED BY <1>3, <1>5, <1>6, <2>2, <2>3
<1>12. CASE percent > 0 /\ study.treatment
  <2>1. RegressionVerdict(deltas, percent, median) =
          IF median = 0 \/ ~Unlikely(n, 0) THEN "not_assessed"
          ELSE IF Unlikely(n, n - over) THEN "regression"
          ELSE IF Unlikely(n, over) THEN "pass" ELSE "inconclusive"
    <3> DEFINE D == 1..n
               v == RegressionVerdict(deltas, percent, median)
    <3>1. IsFiniteSet(D) /\ Cardinality(D) = n /\ deltas \in [D -> Int]
      BY <1>5, <1>8, FS_Interval
    <3>2. {i \in D : Beyond(deltas[i], percent, median)} = {i \in 1..n : Beyond(Delta(i), percent, median)}
      OBVIOUS
    <3> HIDE DEF D, deltas, median, percent
    <3>3. LET k == Cardinality(D)
              o == Cardinality({i \in D : Beyond(deltas[i], percent, median)})
          IN  v = IF median = 0 \/ ~Unlikely(k, 0) THEN "not_assessed"
                  ELSE IF Unlikely(k, k - o) THEN "regression"
                  ELSE IF Unlikely(k, o) THEN "pass" ELSE "inconclusive"
      BY <1>1, <1>9, <1>12, <3>1, VerdictIs DEF percent
    <3> QED BY <3>1, <3>2, <3>3
  <2>2. SignTest(percent) = IF Unlikely(n, n - over) THEN 3
                            ELSE IF Unlikely(n, over) THEN 0 ELSE 4
    BY <1>13 DEF SignTest, n
  <2> DEFINE v == Verdict
  <2>3. v = IF median = 0 \/ ~Unlikely(n, 0) THEN "not_assessed"
            ELSE IF Unlikely(n, n - over) THEN "regression"
            ELSE IF Unlikely(n, over) THEN "pass" ELSE "inconclusive"
    BY <1>10, <1>12, <2>1
  <2>4. PairedStatus = IF v = "regression" THEN 3 ELSE IF v = "inconclusive" THEN 4 ELSE 0
    BY DEF PairedStatus
  <2> HIDE DEF v, over, median, percent
  <2>5. PairedStatus = IF Testable THEN SignTest(percent) ELSE 0
    BY <1>12, <1>14, <2>2, <2>3, <2>4
  <2> QED BY <1>3, <1>5, <1>6, <1>12, <2>5 DEF percent
<1> QED BY <1>11, <1>12

LEMMA GreatestElapsed ==
  ASSUME HostInv, hosts # {}
  PROVE  Max({elapsed[h] : h \in hosts}) \in Nat
<1> DEFINE R == {elapsed[h] : h \in hosts}
<1>1. elapsed \in Surjection(hosts, R) /\ R \subseteq Nat /\ R \subseteq Int /\ R # {}
  <2>1. elapsed \in [hosts -> Nat]
    BY DEF HostInv
  <2> QED BY <2>1 DEF Surjection
<1>2. \E x \in R : \A y \in R : y <= x
  <2>1. IsFiniteSet(R)
    <3> HIDE DEF R
    <3> QED BY <1>1, FS_Surjection DEF HostInv
  <2> HIDE DEF R
  <2> QED BY <1>1, <2>1, GreatestInt
<1>3. \E x \in R : \A y \in R : x >= y
  <2> HIDE DEF R
  <2> QED BY <1>1, <1>2
<1>4. Max(R) \in R
  <2> HIDE DEF R
  <2> QED BY <1>3 DEF Max
<1> QED BY <1>1, <1>4

GateInv == SeriesInv /\ (Paired => PairInv)

LEMMA GateInvInit == Init => GateInv
  BY SeriesInvInit, PairInvInit DEF GateInv

LEMMA GateInvStep == GateInv /\ [Next]_vars => GateInv'
<1> SUFFICES ASSUME GateInv, Paired, [Next]_vars PROVE PairInv'
  <2>1. SeriesInv /\ [Next]_vars => SeriesInv'
    BY SeriesInvStep
  <2>2. [Next]_vars => study' = study
    BY DEF Next, vars, studyVars, NextRound, RunArm, Measured, RunFails, Replay, Collected, Finish, Write,
           WriteFailed, Written, AppendRow, AppendFails, Appended, Crash, Done
  <2> QED BY <2>1, <2>2 DEF GateInv, Paired
<1>1. study \in Studies /\ PairInv /\ SeriesInv
  BY DEF GateInv, SeriesInv
<1>2. ASSUME NEW first \in Arms, NextRound(first) PROVE PairInv'
  BY <1>1, <1>2, PairRound
<1>3. ASSUME NEW time, NEW valid \in BOOLEAN, RunArm(time, valid) PROVE PairInv'
  <2> DEFINE result == [time |-> time, valid |-> valid]
  <2>1. phase = "measuring" /\ time \in study.times[Head(order)] /\ Measured(result)
    BY <1>3 DEF RunArm
  <2>2. Head(order) \in {"baseline", "treatment"}
    <3>1. order \in Orders
      BY <1>1, <2>1 DEF PairInv, Trying
    <3> QED BY <3>1 DEF Orders
  <2>3. result \in Results
    <3>1. time \in Nat
      BY <1>1, <2>1, <2>2, StudiesAssumption
    <3> QED BY <3>1 DEF Results
  <2> HIDE DEF result
  <2> QED BY <1>1, <2>1, <2>3, PairMeasured DEF Trying
<1>4. ASSUME NEW valid \in BOOLEAN, Collected(valid) PROVE PairInv'
  <2> DEFINE result == [time |-> Max({elapsed[h] : h \in hosts}), valid |-> valid]
  <2>1. phase = "replaying" /\ Measured(result)
    BY <1>4 DEF Collected
  <2>2. result \in Results
    <3>1. Max({elapsed[h] : h \in hosts}) \in Nat
      BY <1>1, <2>1, GreatestElapsed DEF SeriesInv
    <3> QED BY <1>4, <3>1 DEF Results
  <2> HIDE DEF result
  <2> QED BY <1>1, <2>1, <2>2, PairMeasured DEF Trying
<1>5. CASE RunFails \/ WriteFailed \/ Crash
  <2>1. /\ phase' \in {"over", "crashed"} /\ UNCHANGED <<study, round, trials, measured>>
        /\ phase' = "over" => exit' \in {1, 2}
    BY <1>5 DEF RunFails, WriteFailed, Crash, Exits
  <2> QED BY <1>1, <2>1 DEF PairInv, GateHonest, Trying
<1>6. CASE Finish
  <2>1. phase = "between" /\ round = Rounds /\ phase' = "writing"
        /\ UNCHANGED <<study, round, order, trials, measured, exit>>
    BY <1>6 DEF Finish
  <2>2. Halves'
    <3>1. Halves /\ \A a \in Arms : Owed(a) = 0 /\ Owed(a)' = 0
      BY <1>1, <2>1 DEF PairInv, Owed, StillToRun, Trying
    <3> QED BY <2>1, <3>1 DEF Halves, Warming
  <2> QED BY <1>1, <2>1, <2>2 DEF PairInv, GateHonest, Trying, Rounds
<1>7. CASE Written
  <2>1. phase = "writing" /\ phase' = "over" /\ exit' = PairedStatus
        /\ UNCHANGED <<study, round, order, trials, measured>>
    BY <1>7 DEF Written, Exits
  <2>2. CASE Comparable
    <3>1. SignTest(study.threshold)' = SignTest(study.threshold) /\ Testable' = Testable
      BY <2>1 DEF SignTest, Testable, Delta, Base
    <3>2. GateHonest'
      BY <1>1, <2>1, <2>2, <3>1, StatusIs DEF GateHonest
    <3> QED BY <1>1, <2>1, <3>2 DEF PairInv, Trying
  <2>3. CASE ~Comparable
    <3>1. exit' = 1
      BY <2>1, <2>3 DEF PairedStatus
    <3> QED BY <1>1, <2>1, <3>1 DEF PairInv, GateHonest, Trying
  <2> QED BY <2>2, <2>3
<1>8. CASE AppendRow \/ AppendFails \/ Appended
  BY <1>1, <1>8 DEF AppendRow, AppendFails, Appended, PairInv
<1>9. CASE Replay \/ Write \/ Done \/ UNCHANGED vars
  <2>1. UNCHANGED studyVars
    BY <1>9 DEF Replay, Write, Done, vars
  <2>2. SignTest(study.threshold)' = SignTest(study.threshold) /\ Testable' = Testable
    BY <2>1 DEF SignTest, Testable, Delta, Base, studyVars
  <2>3. Halves => Halves'
    BY <2>1 DEF Halves, Warming, Owed, StillToRun, studyVars
  <2> QED BY <1>1, <2>1, <2>2, <2>3 DEF PairInv, GateHonest, Paired, Rounds, studyVars
<1> QED BY <1>2, <1>3, <1>4, <1>5, <1>6, <1>7, <1>8, <1>9 DEF Next

(* Whatever the trials took, in this process or on the workers of each arm,    *)
(* however many of them failed and in whatever order the arms ran: a status    *)
(* of 0, 3 or 4 is given only for rounds that were all measured validly and    *)
(* as many as the policy asks for; it is what the sign test says of them where *)
(* the declared budget can be tested, and 0 where it cannot (regression.go:66, *)
(* experiment.go:203).                                                         *)
THEOREM GateIsHonest == Spec => []GateHonest
<1>1. GateInv => GateHonest
  BY DEF GateInv, PairInv, GateHonest
<1> QED BY GateInvInit, GateInvStep, <1>1, PTL DEF Spec
=============================================================================
