-------------------------- MODULE CoordinatorProofs --------------------------
(***************************************************************************)
(* Proofs of CoordinatorProps, for any number of workers and streams.      *)
(***************************************************************************)
EXTENDS CoordinatorProps, WellFoundedInduction, TLAPS

USE WorkersAssumption, ScopeAssumption, RemoteAssumption DEF Workers, Streams

(* Round-robin is a partition: each stream has exactly one worker.           *)
LEMMA Partition ==
  /\ \A s \in Streams : \E w \in Workers : s \in Assigned(w)
  /\ \A v, w \in Workers : v # w => Assigned(v) \cap Assigned(w) = {}
<1>1. ASSUME NEW s \in Streams
      PROVE  \E w \in Workers : s \in Assigned(w)
  <2>1. (s - 1) % N \in 0..(N - 1)
    OBVIOUS
  <2>2. ((s - 1) % N) + 1 \in Workers /\ s \in Assigned(((s - 1) % N) + 1)
    BY <2>1 DEF Assigned
  <2> QED
    BY <2>2
<1>2. ASSUME NEW v \in Workers, NEW w \in Workers, v # w
      PROVE  Assigned(v) \cap Assigned(w) = {}
  BY <1>2 DEF Assigned
<1> QED
  BY <1>1, <1>2

(* A non-empty set of workers has a lowest member, which Lowest picks.       *)
LEMMA LowestOf ==
  ASSUME NEW S \in SUBSET Workers, S # {}
  PROVE  Lowest(S) \in S
<1>1. S \in SUBSET Nat
  OBVIOUS
<1>2. PICK w \in S : \A v \in S : <<v, w>> \notin OpToRel(<, Nat)
  BY <1>1, WFMin, NatLessThanWellFounded, Zenon
<1>3. \A v \in S : ~(v < w)
  BY <1>1, <1>2, Zenon DEF OpToRel
<1>4. \A v \in S : w <= v
  BY <1>1, <1>3
<1> QED
  BY <1>4 DEF Lowest

LEMMA FirstRunErrorOf ==
  ASSUME TypeOK, \E w \in Workers : runErr[w] # "none"
  PROVE  /\ FirstRunError(runErr) \in Workers
         /\ ~Remote /\ (\E w \in Workers : runErr[w] = "own")
              => runErr[FirstRunError(runErr)] = "own"
<1> DEFINE failed == {w \in Workers : runErr[w] # "none"}
           own    == {w \in failed : ~IsCanceled(runErr[w])}
<1>1. failed # {} /\ failed \in SUBSET Workers /\ own \in SUBSET Workers
  OBVIOUS
<1>2. FirstRunError(runErr) = IF own # {} THEN Lowest(own) ELSE Lowest(failed)
  BY DEF FirstRunError
<1>3. ~Remote => \A w \in own : runErr[w] = "own"
  BY DEF IsCanceled, TypeOK
<1>4. \A w \in Workers : runErr[w] = "own" => w \in own
  BY DEF IsCanceled
<1>5. own # {} => Lowest(own) \in own
  BY <1>1, LowestOf
<1>6. Lowest(failed) \in failed
  BY <1>1, LowestOf
<1> HIDE DEF own
<1> QED
  BY <1>1, <1>2, <1>3, <1>4, <1>5, <1>6

-----------------------------------------------------------------------------
(* Where each worker stands in each phase, what that says of its dataset,    *)
(* error and output, and what was known when the run returned.               *)
PhaseInv ==
  /\ phase = "register" => \A w \in Workers : at[w] = "idle"
  /\ phase = "prepare" =>
       \A w \in Workers : at[w] \in {"idle", "preparing", "prepared", "unprepared"}
  /\ phase = "run" =>
       \A w \in Workers : at[w] \in {"starting", "running", "finished", "errored"}
  /\ phase = "collect" =>
       \A w \in Workers : at[w] = IF w < next THEN "collected" ELSE "finished"
  /\ phase = "returned" =>
       \A w \in Workers : at[w] \notin {"preparing", "starting", "running"}
  /\ phase = "returned" /\ (\E w \in Workers : at[w] = "errored") =>
       \A w \in Workers : at[w] \in {"finished", "errored"}

DataInv ==
  /\ \A w \in Workers :
       Materializes(w) /\ at[w] \notin {"idle", "preparing", "unprepared"}
         => w \in dataset
  /\ \A w \in Workers : at[w] = "preparing" => Materializes(w) \/ at[1] = "prepared"
  /\ (\E w \in Workers : at[w] \in {"starting", "running", "finished", "errored", "collected"})
       => \A w \in Workers : at[w] \notin {"idle", "preparing", "prepared", "unprepared"}

ResultInv ==
  /\ \A w \in Workers : at[w] = "errored" <=> runErr[w] # "none"
  /\ \A w \in Workers : collected[w] = IF at[w] = "collected" THEN Assigned(w) ELSE {}
  /\ outcome # "none" <=> phase = "returned"
  /\ outcome = "results" => \A w \in Workers : at[w] = "collected"
  /\ phase = "returned" /\ (\E w \in Workers : runErr[w] # "none")
       => blamed = FirstRunError(runErr)

IInv == TypeOK /\ PhaseInv /\ DataInv /\ ResultInv

LEMMA Inductive == Spec => []IInv
<1>1. Init => IInv
  <2> SUFFICES ASSUME Init PROVE IInv
    OBVIOUS
  <2>1. TypeOK
    <3>1. /\ at \in [Workers -> WorkerStates]
          /\ collected \in [Workers -> SUBSET Streams]
          /\ runErr \in [Workers -> {"none", "own", "canceled"}]
      BY DEF Init, WorkerStates
    <3>2. next \in Workers /\ blamed \in 0..N
      BY DEF Init
    <3> QED
      BY <3>1, <3>2 DEF Init, TypeOK
  <2>2. PhaseInv /\ DataInv
    BY DEF Init, PhaseInv, DataInv
  <2>3. ResultInv
    BY DEF Init, ResultInv
  <2> QED
    BY <2>1, <2>2, <2>3 DEF IInv
<1>2. IInv /\ [Next]_vars => IInv'
  <2> SUFFICES ASSUME IInv, [Next]_vars
               PROVE  IInv'
    OBVIOUS
  <2> USE DEF IInv, TypeOK, PhaseInv, DataInv, ResultInv, WorkerStates
  <2>1. CASE Register
    BY <2>1 DEF Register, Materializes
  <2>2. CASE RegisterError
    BY <2>2 DEF RegisterError, Return
  <2>3. ASSUME NEW w \in Workers, PrepareAck(w)
        PROVE  IInv'
    BY <2>3 DEF PrepareAck, At, Materializes
  <2>4. ASSUME NEW w \in Workers, PrepareError(w)
        PROVE  IInv'
    BY <2>4 DEF PrepareError, At, Materializes
  <2>5. CASE StartVerify
    BY <2>5 DEF StartVerify, Materializes
  <2>6. CASE PrepareAbort
    <3> DEFINE bad == {w \in Workers : at[w] = "unprepared"}
    <3>1. Lowest(bad) \in Workers
      <4>1. bad # {} /\ bad \in SUBSET Workers
        BY <2>6 DEF PrepareAbort
      <4> QED
        BY <4>1, LowestOf
    <3>2. /\ phase' = "returned" /\ outcome' = "error" /\ blamed' = Lowest(bad)
          /\ phase = "prepare"
          /\ \A w \in Workers : at[w] # "preparing"
          /\ UNCHANGED <<next, at, dataset, cancelled, runErr, collected>>
      BY <2>6 DEF PrepareAbort, Return
    <3> HIDE DEF bad
    <3> QED
      BY <3>1, <3>2 DEF Materializes
  <2>7. CASE StartRun
    BY <2>7 DEF StartRun
  <2>8. ASSUME NEW w \in Workers, RunBegin(w)
        PROVE  IInv'
    BY <2>8 DEF RunBegin, At
  <2>9. ASSUME NEW w \in Workers, RunOK(w)
        PROVE  IInv'
    BY <2>9 DEF RunOK, At
  <2>10. ASSUME NEW w \in Workers, NEW err \in {"own", "canceled"}, RunError(w, err)
         PROVE  IInv'
    BY <2>10 DEF RunError, At
  <2>11. CASE RunAbort
    <3>1. FirstRunError(runErr) \in Workers
      BY <2>11, FirstRunErrorOf DEF RunAbort
    <3> QED
      BY <2>11, <3>1 DEF RunAbort, RunsOver, Return
  <2>12. CASE StartCollect
    BY <2>12 DEF StartCollect, RunsOver
  <2>13. CASE Collect
    <3>1. /\ phase = "collect" /\ at[next] = "finished"
          /\ at' = [at EXCEPT ![next] = "collected"]
          /\ collected' = [collected EXCEPT ![next] = Assigned(next)]
          /\ UNCHANGED <<dataset, cancelled, runErr>>
      BY <2>13 DEF Collect, At
    <3>2. Assigned(next) \in SUBSET Streams
      BY DEF Assigned
    <3>3. at' \in [Workers -> WorkerStates] /\ collected' \in [Workers -> SUBSET Streams]
      BY <3>1, <3>2
    <3>4. \A w \in Workers : at'[w] = IF w <= next THEN "collected" ELSE "finished"
      BY <3>1
    <3>5. \A w \in Workers : collected'[w] = IF at'[w] = "collected" THEN Assigned(w) ELSE {}
      BY <3>1
    <3>6. DataInv'
      BY <3>1, <3>4
    <3>7. CASE next < N
      <4>1. next' = next + 1 /\ UNCHANGED <<phase, outcome, blamed>>
        BY <2>13, <3>7 DEF Collect
      <4>2. TypeOK'
        BY <3>1, <3>3, <3>7, <4>1
      <4>3. PhaseInv'
        BY <3>1, <3>4, <4>1
      <4>4. ResultInv'
        BY <3>1, <3>4, <3>5, <4>1
      <4> QED
        BY <3>6, <4>2, <4>3, <4>4
    <3>8. CASE next = N
      <4>1. next' = next /\ phase' = "returned" /\ outcome' = "results" /\ blamed' = 0
        BY <2>13, <3>8 DEF Collect, Return
      <4>2. \A w \in Workers : at'[w] = "collected"
        BY <3>4, <3>8
      <4> QED
        BY <3>1, <3>3, <3>5, <3>6, <4>1, <4>2
    <3> QED
      BY <3>7, <3>8
  <2>14. CASE CollectError
    BY <2>14 DEF CollectError, Return
  <2>15. CASE UNCHANGED vars
    BY <2>15 DEF vars
  <2> QED
    BY <2>1, <2>2, <2>3, <2>4, <2>5, <2>6, <2>7, <2>8, <2>9, <2>10, <2>11,
       <2>12, <2>13, <2>14, <2>15, SMTT(30) DEF Next, Terminated
<1> QED
  BY <1>1, <1>2, PTL DEF Spec

-----------------------------------------------------------------------------
(* Every variable of a run keeps its type (coordinator.go:80).               *)
THEOREM TypeCorrect == Spec => []TypeOK
<1>1. IInv => TypeOK
  BY DEF IInv
<1> QED
  BY <1>1, Inductive, PTL

(* No replay starts anywhere before every worker is prepared and its dataset *)
(* is in place (coordinator.go:113).                                         *)
THEOREM Barrier == Spec => []PrepareBarrier
<1>1. IInv => PrepareBarrier
  <2> SUFFICES ASSUME IInv, Replaying # {}, NEW w \in Workers
               PROVE  /\ at[w] \notin {"idle", "preparing", "prepared", "unprepared"}
                      /\ DatasetReady(w)
    BY DEF PrepareBarrier
  <2>1. \A v \in Workers : at[v] \notin {"idle", "preparing", "prepared", "unprepared"}
    BY DEF IInv, DataInv, Replaying
  <2>2. Materializes(w) => w \in dataset
    BY <2>1 DEF IInv, DataInv
  <2>3. Scope = "shared" => 1 \in dataset
    BY <2>1 DEF IInv, DataInv, Materializes
  <2> QED
    BY <2>1, <2>2, <2>3 DEF Materializes, DatasetReady
<1> QED
  BY <1>1, Inductive, PTL

(* A verifying worker never looks for a dataset that is still being written  *)
(* (coordinator.go:208).                                                     *)
THEOREM VerifyOrder == Spec => []VerifyAfterMaterialize
<1>1. IInv => VerifyAfterMaterialize
  <2> SUFFICES ASSUME IInv, NEW w \in Workers, at[w] = "preparing", ~Materializes(w)
               PROVE  DatasetReady(w)
    BY DEF VerifyAfterMaterialize
  <2>1. at[1] = "prepared" /\ Materializes(1)
    BY DEF IInv, DataInv, Materializes
  <2>2. 1 \in dataset
    BY <2>1 DEF IInv, DataInv
  <2> QED
    BY <2>2 DEF Materializes, DatasetReady
<1> QED
  BY <1>1, Inductive, PTL

(* Returned results are complete: every stream once, and no worker failed    *)
(* (coordinator.go:157, 328).                                                *)
THEOREM CompleteResults == Spec => []AllOrNothing
<1>1. IInv => AllOrNothing
  <2> SUFFICES ASSUME IInv, outcome = "results"
               PROVE  AllOrNothing
    BY DEF AllOrNothing
  <2>1. \A w \in Workers : at[w] = "collected" /\ runErr[w] = "none"
    BY DEF IInv, ResultInv
  <2>2. \A w \in Workers : collected[w] = Assigned(w)
    BY <2>1 DEF IInv, ResultInv
  <2> QED
    BY <2>1, <2>2, Partition DEF AllOrNothing
<1> QED
  BY <1>1, Inductive, PTL

(* When Run returns no call to a worker is outstanding (coordinator.go:146). *)
THEOREM Quiescent == Spec => []NoCallInFlight
<1>1. IInv => NoCallInFlight
  BY DEF IInv, PhaseInv, NoCallInFlight
<1> QED
  BY <1>1, Inductive, PTL

(* With workers in this process, where a cancelled Run returns the context's *)
(* own error, the error returned is a root cause (coordinator.go:173).       *)
THEOREM BlamesRootCause == ASSUME ~Remote PROVE Spec => []RootCause
<1>1. IInv => RootCause
  <2> SUFFICES ASSUME IInv, phase = "returned",
                      NEW w \in Workers, runErr[w] = "own"
               PROVE  blamed # 0 /\ runErr[blamed] = "own"
    BY DEF RootCause
  <2>1. blamed = FirstRunError(runErr)
    BY DEF IInv, ResultInv
  <2>2. FirstRunError(runErr) \in Workers /\ runErr[FirstRunError(runErr)] = "own"
    BY FirstRunErrorOf DEF IInv
  <2> QED
    BY <2>1, <2>2
<1> QED
  BY <1>1, Inductive, PTL

-----------------------------------------------------------------------------
(* Datasets are written, then looked for, then replayed on (worker.go:66).   *)
THEOREM Phases == Spec => []PhaseOrder
<1>1. PrepareBarrier /\ VerifyAfterMaterialize => PhaseOrder
  BY DEF PhaseOrder
<1> QED
  BY <1>1, Barrier, VerifyOrder, PTL

(* Run returns the whole results or none, with no call in flight             *)
(* (coordinator.go:78).                                                      *)
THEOREM ReturnsWhole == Spec => []WholeReturn
<1>1. AllOrNothing /\ NoCallInFlight => WholeReturn
  BY DEF WholeReturn
<1> QED
  BY <1>1, CompleteResults, Quiescent, PTL
=============================================================================
