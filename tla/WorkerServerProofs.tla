------------------------- MODULE WorkerServerProofs -------------------------
(***************************************************************************)
(* Proofs of WorkerServerProps, for every set of runs and every timing.    *)
(***************************************************************************)
EXTENDS WorkerServerProps, TLAPS

USE DEF Goto

(* Type correctness of the worker's state. *)
THEOREM TypeCorrect == Spec => []TypeOK
<1>1. Init => TypeOK
  <2>1. "new" \in Phases /\ NoOutput \in Output
    BY DEF Phases, Output, NoOutput
  <2>2. 0 \in 0..Lease
    BY TimeAssumption
  <2>3. Init => alive \in [Runs -> BOOLEAN] /\ inUse \in BOOLEAN
    BY Zenon DEF Init
  <2> QED
    BY <2>1, <2>2, <2>3 DEF Init, TypeOK
<1> USE TimeAssumption DEF Phases, Active, PreparePhases, RunPhases, Output, NoOutput
<1>2. TypeOK /\ [Next]_vars => TypeOK'
  <2> SUFFICES ASSUME TypeOK, [Next]_vars
               PROVE  TypeOK'
    OBVIOUS
  <2> USE DEF TypeOK
  <2>1. ASSUME NEW c \in Runs, PrepareBusy(c) \/ RunRefused(c) \/ RunHeld(c)
        PROVE  TypeOK'
    BY <2>1 DEF PrepareBusy, RunRefused, RunHeld, serverVars, sessionVars
  <2>2. ASSUME NEW c \in Runs, PrepareBegin(c)
        PROVE  TypeOK'
    BY <2>2 DEF PrepareBegin, sessionVars
  <2>3. ASSUME NEW c \in Runs, PrepareChunk(c)
        PROVE  TypeOK'
    BY <2>3 DEF PrepareChunk, RefreshLease, sessionVars
  <2>4. ASSUME NEW c \in Runs, PrepareReceived(c) \/ PrepareError(c)
        PROVE  TypeOK'
    BY <2>4 DEF PrepareReceived, PrepareError, serverVars, sessionVars
  <2>5. ASSUME NEW c \in Runs, PrepareFail(c) \/ RunAbort(c) \/ CollectReturn(c)
        PROVE  TypeOK'
    BY <2>5 DEF PrepareFail, RunAbort, CollectReturn, Release, sessionVars
  <2>6. ASSUME NEW c \in Runs, PrepareInstall(c)
        PROVE  TypeOK'
    BY <2>6 DEF PrepareInstall, serverVars
  <2>7. ASSUME NEW c \in Runs, PrepareShutdown(c)
        PROVE  TypeOK'
    BY <2>7 DEF PrepareShutdown, serverVars
  <2>8. ASSUME NEW c \in Runs, PrepareAck(c) \/ RunReturn(c)
        PROVE  TypeOK'
    BY <2>8 DEF PrepareAck, RunReturn, RefreshLease, sessionVars
  <2>9. ASSUME NEW c \in Runs, RunRefresh(c) \/ RunProgress(c)
        PROVE  TypeOK'
    BY <2>9 DEF RunRefresh, RunProgress, RefreshLease, sessionVars
  <2>10. ASSUME NEW c \in Runs, RunSnapshot(c)
         PROVE  TypeOK'
    BY <2>10 DEF RunSnapshot, serverVars, sessionVars
  <2>11. ASSUME NEW c \in Runs, NEW whole \in BOOLEAN, RunStore(c, whole)
         PROVE  TypeOK'
    BY <2>11 DEF RunStore, serverVars
  <2>12. ASSUME NEW c \in Runs, CollectRead(c)
         PROVE  TypeOK'
    BY <2>12 DEF CollectRead, serverVars, sessionVars
  <2>13. ASSUME NEW c \in Runs, Abandon(c)
         PROVE  TypeOK'
    BY <2>13 DEF Abandon, serverVars, sessionVars
  <2>14. CASE Tick
    BY <2>14 DEF Tick, sessionVars
  <2>15. CASE UNCHANGED vars
    BY <2>15 DEF vars
  <2> QED
    BY <2>1, <2>2, <2>3, <2>4, <2>5, <2>6, <2>7, <2>8, <2>9, <2>10, <2>11,
       <2>12, <2>13, <2>14, <2>15 DEF Next, Handler, Coordinator
<1> QED
  BY <1>1, <1>2, PTL DEF Spec

-----------------------------------------------------------------------------
(* A replaying run refreshed the lease at most Cadence ago, so at least      *)
(* Lease - idle[c] of it is left whenever the worker is held: whoever else   *)
(* acquires or refreshes only extends it.                                    *)
LeaseInv ==
  \A c \in Runs : pc[c] \in RunPhases =>
    /\ idle[c] <= Cadence
    /\ inUse => lease + idle[c] >= Lease

(* The lease of a replaying run never runs out, for every Gap.               *)
THEOREM LiveLease == Spec => []LiveRunKeepsLease
<1>1. Init => LeaseInv
  BY DEF Init, LeaseInv, RunPhases
<1>2. TypeOK /\ LeaseInv /\ [Next]_vars => LeaseInv'
  <2> SUFFICES ASSUME TypeOK, LeaseInv, [Next]_vars
               PROVE  LeaseInv'
    OBVIOUS
  <2> USE TimeAssumption DEF TypeOK, LeaseInv, RunPhases
  <2>1. ASSUME NEW c \in Runs,
               \/ PrepareBusy(c) \/ PrepareReceived(c) \/ PrepareError(c)
               \/ PrepareInstall(c) \/ PrepareShutdown(c)
               \/ RunRefused(c) \/ RunHeld(c) \/ RunSnapshot(c)
               \/ (\E whole \in BOOLEAN : RunStore(c, whole))
               \/ CollectRead(c)
        PROVE  LeaseInv'
    BY <2>1 DEF PrepareBusy, PrepareReceived, PrepareError, PrepareInstall,
                PrepareShutdown, RunRefused, RunHeld, RunSnapshot, RunStore,
                CollectRead, serverVars
  <2>2. ASSUME NEW c \in Runs, PrepareBegin(c)
        PROVE  LeaseInv'
    BY <2>2 DEF PrepareBegin
  <2>3. ASSUME NEW c \in Runs,
               \/ PrepareChunk(c) \/ PrepareAck(c)
               \/ RunRefresh(c) \/ RunProgress(c) \/ RunReturn(c)
        PROVE  LeaseInv'
    BY <2>3 DEF PrepareChunk, PrepareAck, RunRefresh, RunProgress, RunReturn,
                RefreshLease
  <2>4. ASSUME NEW c \in Runs,
               PrepareFail(c) \/ RunAbort(c) \/ CollectReturn(c)
        PROVE  LeaseInv'
    BY <2>4 DEF PrepareFail, RunAbort, CollectReturn, Release
  <2>5. ASSUME NEW c \in Runs, Abandon(c)
        PROVE  LeaseInv'
    BY <2>5 DEF Abandon, serverVars
  <2>6. CASE Tick
    BY <2>6 DEF Tick, Bound, Waiting, Active
  <2>7. CASE UNCHANGED vars
    BY <2>7 DEF vars
  <2> QED
    BY <2>1, <2>2, <2>3, <2>4, <2>5, <2>6, <2>7 DEF Next, Handler, Coordinator
<1>3. TypeOK /\ LeaseInv => LiveRunKeepsLease
  BY TimeAssumption DEF TypeOK, LeaseInv, LiveRunKeepsLease, RunPhases
<1> QED
  BY <1>1, <1>2, <1>3, TypeCorrect, PTL DEF Spec

-----------------------------------------------------------------------------
(* With Gap < Lease no run between acquire and release lets its lease run    *)
(* out, so acquire refuses every other run.                                  *)
OwnerInv ==
  /\ \A c \in Runs : pc[c] \in Active =>
       /\ inUse
       /\ idle[c] < Lease
       /\ lease + idle[c] >= Lease
  /\ OneRunAtATime

LEMMA OwnerInvariant == Gap < Lease => (Spec => []OwnerInv)
<1> SUFFICES ASSUME Gap < Lease
             PROVE  Spec => []OwnerInv
  OBVIOUS
<1>1. Init => OwnerInv
  BY DEF Init, OwnerInv, OneRunAtATime, Active, PreparePhases, RunPhases
<1>2. TypeOK /\ OwnerInv /\ [Next]_vars => OwnerInv'
  <2> SUFFICES ASSUME TypeOK, OwnerInv, [Next]_vars
               PROVE  OwnerInv'
    OBVIOUS
  <2> USE TimeAssumption DEF TypeOK, OwnerInv, OneRunAtATime, Active,
                             PreparePhases, RunPhases
  <2>1. ASSUME NEW c \in Runs,
               \/ PrepareBusy(c) \/ PrepareReceived(c) \/ PrepareError(c)
               \/ PrepareInstall(c) \/ PrepareShutdown(c)
               \/ RunRefused(c) \/ RunHeld(c) \/ RunSnapshot(c)
               \/ (\E whole \in BOOLEAN : RunStore(c, whole))
               \/ CollectRead(c)
        PROVE  OwnerInv'
    BY <2>1 DEF PrepareBusy, PrepareReceived, PrepareError, PrepareInstall,
                PrepareShutdown, RunRefused, RunHeld, RunSnapshot, RunStore,
                CollectRead, serverVars
  <2>2. ASSUME NEW c \in Runs, PrepareBegin(c)
        PROVE  OwnerInv'
    <3>1. \A d \in Runs : pc[d] \notin Active
      \* a run that is active still has lease left, so the worker is Busy
      BY <2>2 DEF PrepareBegin, Busy
    <3> QED
      BY <2>2, <3>1 DEF PrepareBegin
  <2>3. ASSUME NEW c \in Runs,
               \/ PrepareChunk(c) \/ PrepareAck(c)
               \/ RunRefresh(c) \/ RunProgress(c) \/ RunReturn(c)
        PROVE  OwnerInv'
    BY <2>3 DEF PrepareChunk, PrepareAck, RunRefresh, RunProgress, RunReturn,
                RefreshLease
  <2>4. ASSUME NEW c \in Runs,
               PrepareFail(c) \/ RunAbort(c) \/ CollectReturn(c)
        PROVE  OwnerInv'
    BY <2>4 DEF PrepareFail, RunAbort, CollectReturn, Release
  <2>5. ASSUME NEW c \in Runs, Abandon(c)
        PROVE  OwnerInv'
    BY <2>5 DEF Abandon, serverVars
  <2>6. CASE Tick
    BY <2>6 DEF Tick, Bound, Waiting
  <2>7. CASE UNCHANGED vars
    BY <2>7 DEF vars
  <2> QED
    BY <2>1, <2>2, <2>3, <2>4, <2>5, <2>6, <2>7 DEF Next, Handler, Coordinator
<1> QED
  BY <1>1, <1>2, TypeCorrect, PTL DEF Spec

(* One run at a time, for every set of runs and all timings in which no     *)
(* waiting run exceeds its lease.                                           *)
THEOREM OneRun == Gap < Lease => (Spec => []OneRunAtATime)
<1>1. OwnerInv => OneRunAtATime
  BY DEF OwnerInv
<1> QED
  BY <1>1, OwnerInvariant, PTL

-----------------------------------------------------------------------------
(* What the session holds while a run owns the worker: from install on the   *)
(* executor is that run's, its engine is open, and what Run stored is its    *)
(* own whole output until Collect has read it.                               *)
Early     == {"new", "receiving", "materializing", "unprepared"}
Installed == RunPhases \cup {"installed", "acking", "prepared", "held", "ran"}

EngineInv ==
  /\ \A d \in closed : pc[d] \notin Early /\ d # exec
  /\ exec # None => pc[exec] \notin Early
  /\ \A c \in Runs : pc[c] = "installed" =>
       prev[c] # c /\ (prev[c] # None => pc[prev[c]] \notin Early)

SessionInv ==
  /\ EngineInv
  /\ \A c \in Runs : pc[c] \in Installed => exec = c
  /\ \A c \in Runs : pc[c] = "running" => using[c] = c
  /\ \A c \in Runs : pc[c] \in {"stored", "ran"} => out = [of |-> c, whole |-> TRUE]
  /\ \A c \in Runs : got[c] # NoOutput =>
       pc[c] \in {"collected", "done"} /\ got[c] = [of |-> c, whole |-> TRUE]

LEMMA SessionInvariant == Gap < Lease => (Spec => []SessionInv)
<1> SUFFICES ASSUME Gap < Lease
             PROVE  Spec => []SessionInv
  OBVIOUS
<1> USE DEF SessionInv, EngineInv, Early, Installed, RunPhases
<1>1. Init => SessionInv
  BY DEF Init
<1>2. TypeOK /\ OwnerInv /\ SessionInv /\ [Next]_vars => SessionInv'
  <2> SUFFICES ASSUME TypeOK, OwnerInv, SessionInv, [Next]_vars
               PROVE  SessionInv'
    OBVIOUS
  <2> USE RunsAssumption DEF TypeOK
  <2> \A c, d \in Runs : pc[c] \in Active /\ pc[d] \in Active => c = d
    BY DEF OwnerInv, OneRunAtATime
  <2> USE DEF Active, PreparePhases
  <2>1. ASSUME NEW c \in Runs,
               pc[c] \in {"new", "receiving", "materializing", "unprepared"},
               \E p \in Early \cup {"failed"} : pc' = [pc EXCEPT ![c] = p],
               UNCHANGED <<exec, out, closed, prev, using, got>>
        PROVE  SessionInv'
    BY <2>1
  <2>12. ASSUME NEW c \in Runs,
                PrepareBusy(c) \/ PrepareBegin(c) \/ PrepareReceived(c)
         PROVE  SessionInv'
    BY <2>1, <2>12 DEF PrepareBusy, PrepareBegin, PrepareReceived, sessionVars
  <2>13. ASSUME NEW c \in Runs,
                PrepareError(c) \/ PrepareFail(c) \/ PrepareChunk(c)
         PROVE  SessionInv'
    BY <2>1, <2>13 DEF PrepareError, PrepareFail, PrepareChunk, sessionVars
  <2>2. ASSUME NEW c \in Runs, PrepareInstall(c)
        PROVE  SessionInv'
    BY <2>2 DEF PrepareInstall
  <2>3. ASSUME NEW c \in Runs, PrepareShutdown(c)
        PROVE  SessionInv'
    BY <2>3 DEF PrepareShutdown
  <2>14. ASSUME NEW c \in Runs, NEW p \in Phases \ Early,
                pc[c] \notin Early \cup {"done"},
                pc' = [pc EXCEPT ![c] = p],
                UNCHANGED <<exec, out, closed, prev, using, got>>,
                p # "installed",
                p = "running" => pc[c] = "running",
                p \in Installed => pc[c] \in Installed,
                p \in {"stored", "ran"} => pc[c] \in {"stored", "ran"},
                pc[c] = "collected" => p = "done"
         PROVE  SessionInv'
    BY <2>14
  <2>4. ASSUME NEW c \in Runs,
               \/ PrepareAck(c) \/ RunRefused(c) \/ RunHeld(c) \/ RunRefresh(c)
               \/ RunProgress(c) \/ RunReturn(c) \/ RunAbort(c)
               \/ CollectReturn(c)
        PROVE  SessionInv'
    <3> USE DEF sessionVars, Phases
    <3>1. CASE PrepareAck(c)
      BY <3>1, <2>14 DEF PrepareAck
    <3>2. CASE RunRefused(c) \/ RunHeld(c)
      BY <3>2, <2>14 DEF RunRefused, RunHeld
    <3>3. CASE RunRefresh(c) \/ RunProgress(c)
      BY <3>3, <2>14 DEF RunRefresh, RunProgress
    <3>4. CASE RunReturn(c)
      BY <3>4, <2>14 DEF RunReturn
    <3>5. CASE RunAbort(c)
      BY <3>5, <2>14 DEF RunAbort
    <3>6. CASE CollectReturn(c)
      BY <3>6, <2>14 DEF CollectReturn
    <3> QED
      BY <2>4, <3>1, <3>2, <3>3, <3>4, <3>5, <3>6
  <2>5. ASSUME NEW c \in Runs, RunSnapshot(c)
        PROVE  SessionInv'
    BY <2>5 DEF RunSnapshot, sessionVars
  <2>6. ASSUME NEW c \in Runs, NEW whole \in BOOLEAN, RunStore(c, whole)
        PROVE  SessionInv'
    BY <2>6 DEF RunStore
  <2>7. ASSUME NEW c \in Runs, CollectRead(c)
        PROVE  SessionInv'
    BY <2>7 DEF CollectRead, sessionVars, NoOutput
  <2>8. ASSUME NEW c \in Runs, Abandon(c)
        PROVE  SessionInv'
    BY <2>8 DEF Abandon, sessionVars
  <2>9. CASE Tick
    BY <2>9 DEF Tick, sessionVars
  <2>10. CASE UNCHANGED vars
    BY <2>10 DEF vars
  <2> QED
    BY <2>2, <2>3, <2>4, <2>5, <2>6, <2>7, <2>8, <2>9, <2>10, <2>12, <2>13
       DEF Next, Handler, Coordinator
<1> QED
  BY <1>1, <1>2, TypeCorrect, OwnerInvariant, PTL DEF Spec

(* The stored result stays intact until it is collected, Collect returns     *)
(* the run's own whole output, and no run replays on an engine that has been *)
(* shut down.                                                                *)
THEOREM ResultSafety ==
  Gap < Lease =>
    (Spec => []ResultSafe)
<1>1. TypeOK /\ SessionInv => ResultSafe
  BY DEF TypeOK, SessionInv, EngineInv, Installed, RunPhases,
         ResultSafe, PendingResultIntact, OwnResult, NoRunOnClosedEngine
<1> QED
  BY <1>1, TypeCorrect, SessionInvariant, PTL

-----------------------------------------------------------------------------
(* Under the same timing the worker implements its contract: acquire is      *)
(* Take, reading the output in Collect is Deliver, the end of an active run  *)
(* is Leave, and every other step leaves owner and results alone.            *)
THEOREM WorkerImplementsContract == Gap < Lease => (Spec => ImplementsContract)
<1> SUFFICES ASSUME Gap < Lease
             PROVE  Spec => ImplementsContract
  OBVIOUS
<1> DEFINE Result == [c \in Runs |-> got[c].of]
<1>1. Init => Contract!Init
  BY DEF Init, Contract!Init, Owner, NoOutput, Active, PreparePhases, RunPhases
<1>2. /\ TypeOK /\ OwnerInv /\ SessionInv
      /\ TypeOK' /\ OwnerInv' /\ SessionInv'
      /\ [Next]_vars
      => [Contract!Next]_Contract!vars
  <2> SUFFICES ASSUME TypeOK, OwnerInv, SessionInv, TypeOK', OwnerInv', SessionInv',
                      [Next]_vars
               PROVE  [Contract!Next]_Contract!vars
    OBVIOUS
  <2>1. \A c \in Runs : pc[c] \in Active => Owner = c
    BY DEF OwnerInv, OneRunAtATime, Owner
  <2>2. (\A c \in Runs : pc[c] \notin Active) => Owner = None
    BY DEF Owner
  <2>3. \A c \in Runs : pc'[c] \in Active => Owner' = c
    BY DEF OwnerInv, OneRunAtATime, Owner
  <2>4. (\A c \in Runs : pc'[c] \notin Active) => Owner' = None
    BY DEF Owner
  <2>5. ASSUME \A c \in Runs : pc[c] \in Active <=> pc'[c] \in Active,
               UNCHANGED got
        PROVE  UNCHANGED Contract!vars
    BY <2>1, <2>2, <2>3, <2>4, <2>5 DEF Contract!vars
  \* an active run changes phase: it keeps owning the worker or leaves it
  <2>6. ASSUME NEW c \in Runs, NEW p \in Phases,
               pc[c] \in Active,
               pc' = [pc EXCEPT ![c] = p],
               UNCHANGED got
        PROVE  Contract!Leave(c) \/ UNCHANGED Contract!vars
    <3>1. CASE p \in Active
      BY <3>1, <2>5, <2>6 DEF TypeOK
    <3>2. CASE p \notin Active
      <4>1. \A d \in Runs : pc'[d] \notin Active
        BY <3>2, <2>6 DEF TypeOK, OwnerInv, OneRunAtATime
      <4> QED
        BY <4>1, <2>1, <2>4, <2>6 DEF Contract!Leave
    <3> QED
      BY <3>1, <3>2
  <2>7. ASSUME NEW c \in Runs, PrepareBegin(c)
        PROVE  Contract!Take(c)
    <3>1. \A d \in Runs : pc[d] \notin Active
      BY <2>7, TimeAssumption DEF PrepareBegin, Busy, OwnerInv, TypeOK
    <3>2. pc'[c] \in Active /\ UNCHANGED got
      BY <2>7 DEF PrepareBegin, TypeOK, Active, PreparePhases
    <3> QED
      BY <3>1, <3>2, <2>2, <2>3 DEF Contract!Take
  <2>8. ASSUME NEW c \in Runs, CollectRead(c)
        PROVE  Contract!Deliver(c)
    <3>1. pc[c] = "ran" /\ out = [of |-> c, whole |-> TRUE] /\ got[c] = NoOutput
      BY <2>8 DEF CollectRead, SessionInv
    <3>2. got' = [got EXCEPT ![c] = out] /\ pc'[c] \in Active
      BY <2>8, <3>1 DEF CollectRead, TypeOK, Active
    <3>3. Owner = c /\ Owner' = c
      BY <3>1, <3>2, <2>1, <2>3 DEF Active
    <3>4. Result[c] = None /\ Result' = [Result EXCEPT ![c] = c]
      <4>1. got' = [got EXCEPT ![c] = [of |-> c, whole |-> TRUE]]
        BY <3>1, <3>2
      <4>2. \A d \in Runs : got'[d].of = IF d = c THEN c ELSE got[d].of
        BY <4>1 DEF TypeOK
      <4>3. got[c].of = None
        BY <3>1 DEF NoOutput
      <4> QED
        BY <4>2, <4>3
    <3> QED
      BY <3>3, <3>4 DEF Contract!Deliver
  <2>9. ASSUME NEW c \in Runs, PrepareBusy(c) \/ Abandon(c)
        PROVE  Contract!Leave(c) \/ UNCHANGED Contract!vars
    <3>1. CASE PrepareBusy(c)
      <4>1. \A d \in Runs : pc[d] \in Active <=> pc'[d] \in Active
        BY <3>1 DEF PrepareBusy, TypeOK, Active, PreparePhases, RunPhases
      <4> QED
        BY <4>1, <3>1, <2>5 DEF PrepareBusy
    <3>2. CASE Abandon(c)
      <4> DEFINE p == IF pc[c] \in {"prepared", "ran"} THEN "gone" ELSE pc[c]
      <4>1. pc' = [pc EXCEPT ![c] = p] /\ p \in Phases /\ UNCHANGED got
        BY <3>2 DEF Abandon, TypeOK, Phases
      <4>2. pc[c] \in Active
        BY <3>2 DEF Abandon
      <4> HIDE DEF p
      <4> QED
        BY <4>1, <4>2, <2>6
    <3> QED
      BY <2>9, <3>1, <3>2
  <2>10. ASSUME NEW c \in Runs,
                \/ PrepareReceived(c) \/ PrepareError(c) \/ PrepareChunk(c)
                \/ PrepareFail(c) \/ PrepareInstall(c) \/ PrepareShutdown(c)
         PROVE  Contract!Leave(c) \/ UNCHANGED Contract!vars
    <3> USE DEF Phases, Active, PreparePhases
    <3>1. CASE PrepareReceived(c) \/ PrepareError(c) \/ PrepareChunk(c)
      BY <3>1, <2>6 DEF PrepareReceived, PrepareError, PrepareChunk
    <3>2. CASE PrepareFail(c) \/ PrepareInstall(c) \/ PrepareShutdown(c)
      BY <3>2, <2>6 DEF PrepareFail, PrepareInstall, PrepareShutdown
    <3> QED
      BY <2>10, <3>1, <3>2
  <2>11. ASSUME NEW c \in Runs, PrepareAck(c) \/ RunReturn(c)
         PROVE  Contract!Leave(c) \/ UNCHANGED Contract!vars
    <3> USE DEF Phases, Active, PreparePhases, RunPhases
    <3>1. CASE PrepareAck(c)
      BY <3>1, <2>6 DEF PrepareAck
    <3>2. CASE RunReturn(c)
      BY <3>2, <2>6 DEF RunReturn
    <3> QED
      BY <2>11, <3>1, <3>2
  <2>12. ASSUME NEW c \in Runs,
                \/ RunRefused(c) \/ RunHeld(c) \/ RunRefresh(c)
                \/ RunSnapshot(c) \/ RunProgress(c)
         PROVE  Contract!Leave(c) \/ UNCHANGED Contract!vars
    <3> USE DEF Phases, Active, RunPhases
    <3>1. CASE RunRefused(c) \/ RunHeld(c)
      BY <3>1, <2>6 DEF RunRefused, RunHeld
    <3>2. CASE RunRefresh(c) \/ RunSnapshot(c) \/ RunProgress(c)
      BY <3>2, <2>6 DEF RunRefresh, RunSnapshot, RunProgress
    <3> QED
      BY <2>12, <3>1, <3>2
  <2>13. ASSUME NEW c \in Runs, NEW whole \in BOOLEAN, RunStore(c, whole)
         PROVE  Contract!Leave(c) \/ UNCHANGED Contract!vars
    BY <2>13, <2>6 DEF RunStore, Phases, Active, RunPhases
  <2>14. ASSUME NEW c \in Runs, RunAbort(c) \/ CollectReturn(c)
         PROVE  Contract!Leave(c) \/ UNCHANGED Contract!vars
    BY <2>14, <2>6 DEF RunAbort, CollectReturn, Phases, Active, RunPhases
  <2>15. CASE Tick \/ UNCHANGED vars
    BY <2>15, <2>5 DEF Tick, vars
  <2> QED
    BY <2>7, <2>8, <2>9, <2>10, <2>11, <2>12, <2>13, <2>14, <2>15
       DEF Next, Handler, Coordinator, Contract!Next
<1> QED
  BY <1>1, <1>2, TypeCorrect, OwnerInvariant, SessionInvariant, PTL
     DEF Spec, ImplementsContract, Contract!Spec
=============================================================================
