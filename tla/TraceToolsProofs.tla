--------------------------- MODULE TraceToolsProofs ---------------------------
(* What the trace tools do to any trace.                                      *)
EXTENDS TraceToolsProps, DataInduction, TLAPS

-----------------------------------------------------------------------------
(* Dividing a transfer into blocks loses and repeats no byte, for any sizes.  *)

(* Division brackets its dividend. *)
LEMMA Quotient ==
  ASSUME NEW n \in Nat, NEW b \in Nat \ {0}
  PROVE  /\ n \div b \in Nat
         /\ (n \div b) * b <= n
         /\ n < (n \div b) * b + b
  OBVIOUS

(* The last piece is the first that reaches the end. *)
LEMMA Count ==
  ASSUME NEW moved \in Nat \ {0}, NEW size \in Nat \ {0}
  PROVE  /\ NumPieces(moved, size) \in Nat
         /\ moved <= NumPieces(moved, size) * size
         /\ NumPieces(moved, size) * size - size < moved
  <1>1. moved + size - 1 \in Nat
    OBVIOUS
  <1> QED BY <1>1, Quotient DEF NumPieces

(* Piece k starts before the end exactly if it is one of the pieces. *)
LEMMA Within ==
  ASSUME NEW moved \in Nat \ {0}, NEW size \in Nat \ {0}, NEW k \in Nat
  PROVE  k < NumPieces(moved, size) <=> PieceStart(size, k) < moved
  <1> DEFINE n == NumPieces(moved, size)
  <1>1. n \in Nat /\ moved <= n * size /\ n * size - size < moved
    BY Count
  <1>2. ASSUME k < n PROVE k * size < moved
    <2>1. (n - 1 - k) * size \in Nat
      BY <1>1, <1>2
    <2>2. (n - 1 - k) * size = n * size - size - k * size
      BY <1>1
    <2>3. k * size \in Nat /\ n * size \in Nat
      BY <1>1
    <2> QED BY <1>1, <2>1, <2>2, <2>3
  <1>3. ASSUME ~(k < n) PROVE ~(k * size < moved)
    <2>1. (k - n) * size \in Nat
      BY <1>1, <1>3
    <2>2. (k - n) * size = k * size - n * size
      BY <1>1
    <2>3. k * size \in Nat /\ n * size \in Nat
      BY <1>1
    <2> QED BY <1>1, <2>1, <2>2, <2>3
  <1> QED BY <1>2, <1>3 DEF PieceStart

(* A divided transfer (splitreads.go:74, checkpoint/generate.go:119): there   *)
(* is a piece, every piece has at least one byte and at most a block, the     *)
(* first starts at 0, each of the others where the one before it ends, and    *)
(* the last one ends where the transfer does.                                 *)
THEOREM PiecesTile ==
  ASSUME NEW moved \in Nat \ {0}, NEW size \in Nat \ {0}
  PROVE  LET n == NumPieces(moved, size)
             End(k) == PieceStart(size, k) + PieceSize(moved, size, k)
         IN  /\ n \in Nat \ {0}
             /\ PieceStart(size, 0) = 0
             /\ \A k \in 0..(n - 1) : PieceSize(moved, size, k) \in 1..size
             /\ \A k \in 0..(n - 2) : End(k) = PieceStart(size, k + 1)
             /\ End(n - 1) = moved
  <1> DEFINE n == NumPieces(moved, size)
             End(k) == PieceStart(size, k) + PieceSize(moved, size, k)
  <1>1. n \in Nat
    BY Count
  <1>2. n # 0
    <2>1. PieceStart(size, 0) = 0 /\ 0 \in Nat
      BY DEF PieceStart
    <2>2. 0 < n <=> PieceStart(size, 0) < moved
      BY <2>1, Within, Zenon
    <2> QED BY <1>1, <2>1, <2>2
  <1>3. ASSUME NEW k \in Nat PROVE k * size \in Nat /\ (k + 1) * size = k * size + size
    BY <1>3
  <1>4. PieceStart(size, 0) = 0
    BY DEF PieceStart
  <1>5. ASSUME NEW k \in 0..(n - 1) PROVE PieceSize(moved, size, k) \in 1..size
    <2>1. k \in Nat /\ k < n
      BY <1>1, <1>5
    <2>2. PieceStart(size, k) < moved
      BY <2>1, Within, Zenon
    <2>3. PieceStart(size, k) \in Nat
      BY <1>3, <2>1, Zenon DEF PieceStart
    <2> QED BY <2>2, <2>3 DEF PieceSize
  <1>6. ASSUME NEW k \in 0..(n - 2) PROVE End(k) = PieceStart(size, k + 1)
    <2>1. k \in Nat /\ k + 1 \in Nat /\ k + 1 < n
      BY <1>1, <1>6
    <2>2. PieceStart(size, k + 1) < moved
      BY <2>1, Within, Zenon
    <2>3. k * size \in Nat /\ (k + 1) * size = k * size + size
      BY <1>3, <2>1, Zenon
    <2>4. k * size + size < moved
      BY <2>2, <2>3, Zenon DEF PieceStart
    <2>5. PieceStart(size, k) = k * size /\ PieceStart(size, k + 1) = k * size + size
      BY <2>3, Zenon DEF PieceStart
    <2>6. PieceSize(moved, size, k) = size
      BY <2>3, <2>4, <2>5 DEF PieceSize
    <2> QED BY <2>5, <2>6, Zenon
  <1>7. End(n - 1) = moved
    <2>1. n - 1 \in Nat /\ ~(n < n) /\ n - 1 < n
      BY <1>1, <1>2
    <2>2. ~(PieceStart(size, n) < moved) /\ PieceStart(size, n - 1) < moved
      BY <2>1, <1>1, Within, Zenon
    <2>3. (n - 1) * size \in Nat /\ (n - 1 + 1) * size = (n - 1) * size + size
      BY <2>1, <1>3, Zenon
    <2>4. n - 1 + 1 = n
      BY <1>1
    <2>5. PieceStart(size, n - 1) \in Nat /\ PieceStart(size, n) = PieceStart(size, n - 1) + size
      BY <2>3, <2>4, Zenon DEF PieceStart
    <2>6. PieceSize(moved, size, n - 1) = moved - PieceStart(size, n - 1)
      BY <2>2, <2>5 DEF PieceSize
    <2> QED BY <2>5, <2>6
  <1> QED BY <1>1, <1>2, <1>4, <1>5, <1>6, <1>7

-----------------------------------------------------------------------------
(* The validator.  What it does is a fold over the operations; what it has to *)
(* say of each is told from a prefix without errors by what is known of the   *)
(* operations before it, and nothing is said that is not an error.            *)

(* Prefixes of a sequence are what a fold over it goes through.               *)
Latest(N) == [T \in SUBSET (1..N) |-> IF T = {} THEN 1..N ELSE Max(T)]

(* FoldLeft takes the last element first: of the prefix 1..n, that is n.      *)
LEMMA LatestIsLast ==
  ASSUME NEW N \in Nat
  PROVE  /\ Chooses(Latest(N), 1..N)
         /\ \A T \in SUBSET (1..N) : T # {} => Latest(N)[T] = Max(T)
         /\ \A n \in 1..N : Max(1..n) = n /\ (1..n) \ {n} = 1..(n - 1)
  <1>1. ASSUME NEW T \in SUBSET (1..N), T # {} PROVE Max(T) \in T
    <2>1. T \in SUBSET (0..N)
      OBVIOUS
    <2>2. \E n \in T : \A m \in T : m <= n
      BY <1>1, <2>1, GreatestNumber
    <2>3. \E n \in T : \A m \in T : n >= m
      BY <2>1, <2>2
    <2> QED BY <2>3, Zenon DEF Max
  <1>2. ASSUME NEW n \in 1..N PROVE Max(1..n) = n /\ (1..n) \ {n} = 1..(n - 1)
    <2>1. Max(1..n) \in 1..n /\ \A m \in 1..n : Max(1..n) >= m
      <3>1. n \in 1..n /\ \A m \in 1..n : n >= m
        OBVIOUS
      <3> QED BY <3>1, Zenon DEF Max
    <2> QED BY <2>1
  <1>3. Latest(N) \in [SUBSET (1..N) -> (1..N) \cup {1..N}]
    BY <1>1 DEF Latest
  <1> QED BY <1>1, <1>2, <1>3 DEF Latest, Chooses

FoldsPrefixes(base, next, S, fold) ==
  \A T \in SUBSET S :
    fold[T] = IF T = {} THEN base ELSE next[Max(T)][fold[T \ {Max(T)}]]

(* The function FoldLeft defines by recursion exists, for any step.           *)
LEMMA PrefixFoldExists ==
  ASSUME NEW N \in Nat, NEW S, S = 1..N, NEW X, NEW base \in X, NEW next \in [S -> [X -> X]]
  PROVE  \E fold \in [SUBSET S -> X] : FoldsPrefixes(base, next, S, fold)
  <1>1. Chooses(Latest(N), S) /\ \A T \in SUBSET S : T # {} => Latest(N)[T] = Max(T)
    <2>1. Chooses(Latest(N), 1..N) /\ \A T \in SUBSET (1..N) : T # {} => Latest(N)[T] = Max(T)
      BY LatestIsLast, Zenon
    <2> QED BY <2>1, Zenon
  <1>2. IsFiniteSet(S)
    BY FS_Interval
  <1>3. PICK fold \in [SUBSET S -> X] : Folding(base, next, Latest(N), S, fold)
    BY <1>1, <1>2, FoldExists, Zenon
  <1>4. ASSUME NEW T \in SUBSET S
        PROVE  fold[T] = IF T = {} THEN base ELSE next[Max(T)][fold[T \ {Max(T)}]]
    <2>1. fold[T] = IF T = {} THEN base ELSE next[Latest(N)[T]][fold[T \ {Latest(N)[T]}]]
      BY <1>3, Zenon DEF Folding
    <2> QED BY <1>1, <2>1, Zenon
  <1> QED BY <1>4, Zenon DEF FoldsPrefixes

(* Taking the last element of a prefix leaves the prefix before it.           *)
LEMMA LastOfPrefix ==
  ASSUME NEW N \in Nat
  PROVE  /\ \A T \in SUBSET (1..N) : T # {} => Max(T) \in 1..N
         /\ \A n \in 1..N : /\ 1..n \in SUBSET (1..N) /\ 1..n # {} /\ n \in 0..N /\ n - 1 \in 0..N
                            /\ Max(1..n) = n /\ (1..n) \ {n} = 1..(n - 1)
  <1>1. \A T \in SUBSET (1..N) : T # {} => Latest(N)[T] \in T /\ Latest(N)[T] = Max(T)
    BY LatestIsLast, Zenon DEF Chooses
  <1>2. \A T \in SUBSET (1..N) : T # {} => Max(T) \in 1..N
    BY <1>1, Zenon
  <1>3. \A n \in 1..N : 1..n \in SUBSET (1..N) /\ n \in 1..n /\ n \in 0..N /\ n - 1 \in 0..N
    OBVIOUS
  <1>4. \A n \in 1..N : 1..n # {}
    BY <1>3, Zenon
  <1> QED BY <1>2, <1>3, <1>4, LatestIsLast, Zenon

(* The fields in which operations have numbers, if anything. *)
Typed(H) ==
  /\ None \notin Int
  /\ \A o \in H : /\ DOMAIN o = DOMAIN BlankOp /\ o.t \in Int
                  /\ \A f \in {"op_id", "off", "len", "ret", "dur"} : o[f] \in Int \cup {None}

(* What the validator knows between two operations. *)
Ids(H)     == {o.s : o \in H}
Handles(H) == {o.h : o \in H}
Complaints ==
  {"t", "op", "op_id missing", "op_id negative", "op_id duplicate", "op_id order",
   "tgt", "h", "mode", "off", "len", "ret", "dur"}
RunStates(H) ==
  [lastT : Int \cup {None}, opened : SUBSET [h : Handles(H), s : Ids(H)], closed : SUBSET Handles(H),
   ids : SUBSET Int, lastId : UNION {[D -> Int] : D \in SUBSET Ids(H)}, errs : SUBSET Complaints]

(* ... whatever the operation, and whatever it was told before.               *)
LEMMA ChecksKeepType ==
  ASSUME NEW H, Typed(H), NEW v \in RunStates(H), NEW op \in H, NEW tr
  PROVE  CheckOp(v, tr, op) \in RunStates(H)
  <1> DEFINE w == CheckOp(v, tr, op)
             kind == KindErrors(v, tr, op)
             late == IF v.lastT # None /\ op.t < v.lastT THEN {"t"} ELSE {}
  <1>1. op.t \in Int /\ op.op_id \in Int \cup {None} /\ op.h \in Handles(H) /\ op.s \in Ids(H)
    BY DEF Typed, Handles, Ids
  <1>2. kind \in SUBSET Complaints
    <2>1. HandleErrors(v, op) \in SUBSET Complaints
      BY DEF HandleErrors, Complaints
    <2>2. TargetErrors(tr, op) \in SUBSET Complaints
      BY DEF TargetErrors, Complaints
    <2>3. LenErrors(op) \in SUBSET Complaints /\ OffLenErrors(op) \in SUBSET Complaints
      BY DEF LenErrors, OffLenErrors, Complaints
    <2>4. \A fields \in SUBSET Complaints : Forbid(op, fields) \in SUBSET Complaints
      BY DEF Forbid
    <2>5. OpenErrors(v, tr, op) \in SUBSET Complaints
      BY <2>2, <2>4 DEF OpenErrors, Complaints
    <2> QED BY <2>1, <2>2, <2>3, <2>4, <2>5 DEF KindErrors, Complaints
  <1>3. OpIdErrors(v, op) \in SUBSET Complaints /\ RetErrors(tr, op) \in SUBSET Complaints
        /\ DurErrors(op) \in SUBSET Complaints
    <2>1. OpIdErrors(v, op) \in SUBSET Complaints
      BY DEF OpIdErrors, Complaints
    <2>2. RetErrors(tr, op) \in SUBSET Complaints
      BY DEF RetErrors, Complaints
    <2>3. DurErrors(op) \in SUBSET Complaints
      BY DEF DurErrors, Complaints
    <2> QED BY <2>1, <2>2, <2>3
  <1>4. w.lastId \in UNION {[D -> Int] : D \in SUBSET Ids(H)}
    <2>1. PICK D \in SUBSET Ids(H) : v.lastId \in [D -> Int]
      BY DEF RunStates
    <2>2. CASE op.op_id = None
      BY <2>1, <2>2 DEF CheckOp
    <2>3. CASE op.op_id # None
      <3>1. w.lastId = [s \in D \cup {op.s} |-> IF s = op.s THEN op.op_id ELSE v.lastId[s]]
        BY <2>1, <2>3 DEF CheckOp
      <3>2. w.lastId \in [D \cup {op.s} -> Int]
        BY <1>1, <2>1, <2>3, <3>1
      <3>3. D \cup {op.s} \in SUBSET Ids(H)
        BY <1>1
      <3> HIDE DEF w
      <3> QED BY <3>2, <3>3
    <2> QED BY <2>2, <2>3
  <1> HIDE DEF kind
  <1>5. w.lastT \in Int \cup {None} /\ w.ids \in SUBSET Int
    BY <1>1 DEF CheckOp, RunStates
  <1>6. w.opened \in SUBSET [h : Handles(H), s : Ids(H)] /\ w.closed \in SUBSET Handles(H)
    BY <1>1 DEF CheckOp, RunStates
  <1>7. w.errs \in SUBSET Complaints
    <2>1. w.errs = v.errs \cup late
                   \cup OpIdErrors(v, op) \cup kind \cup RetErrors(tr, op) \cup DurErrors(op)
      BY DEF CheckOp, kind
    <2>2. v.errs \in SUBSET Complaints
      BY DEF RunStates
    <2>3. late \in SUBSET Complaints
      BY DEF Complaints
    <2> HIDE DEF w, late
    <2> QED BY <1>2, <1>3, <2>1, <2>2, <2>3
  <1>8. w = [lastT |-> w.lastT, opened |-> w.opened, closed |-> w.closed, ids |-> w.ids,
             lastId |-> w.lastId, errs |-> w.errs]
    BY DEF CheckOp
  <1> HIDE DEF w
  <1>9. w \in RunStates(H)
    BY <1>4, <1>5, <1>6, <1>7, <1>8 DEF RunStates
  <1> QED BY <1>9 DEF w

(* The fold of Errors, expanded to the function it chooses.                   *)
LEMMA RunExpands ==
  ASSUME NEW ops, NEW tr
  PROVE  FoldLeft(LAMBDA v, op : CheckOp(v, tr, op), FreshRun, ops) =
           (CHOOSE fold : fold = [T \in SUBSET DOMAIN ops |-> IF T = {} THEN FreshRun
                                    ELSE CheckOp(fold[T \ {Max(T)}], tr, ops[Max(T)])])[DOMAIN ops]
  BY Zenon DEF FoldLeft, MapThenFoldSet

(* The validator's pass over a trace, operation by operation.                 *)
Passes(run, ops, tr) ==
  /\ run[0] = FreshRun
  /\ \A n \in 1..Len(ops) : run[n] = CheckOp(run[n - 1], tr, ops[n])
  /\ FoldLeft(LAMBDA v, op : CheckOp(v, tr, op), FreshRun, ops) = run[Len(ops)]

(* Errors does look at the operations one after the other, from the first.    *)
LEMMA RunIsAPass ==
  ASSUME NEW H, Typed(H), NEW ops \in Seq(H), NEW tr
  PROVE  \E run : Passes(run, ops, tr)
  <1> DEFINE N == Len(ops)
             S == DOMAIN ops
             Step(fold, T) == IF T = {} THEN FreshRun
                              ELSE CheckOp(fold[T \ {Max(T)}], tr, ops[Max(T)])
             next == [n \in S |-> [v \in RunStates(H) |-> CheckOp(v, tr, ops[n])]]
  <1>1. N \in Nat /\ S = 1..N /\ IsFiniteSet(S) /\ \A n \in S : ops[n] \in H
    BY FS_Interval
  <1>2. next \in [S -> [RunStates(H) -> RunStates(H)]]
    BY <1>1, ChecksKeepType
  <1>3. FreshRun \in RunStates(H)
    <2>1. <<>> \in [{} -> Int] /\ {} \in SUBSET Ids(H)
      OBVIOUS
    <2> QED BY <2>1 DEF FreshRun, RunStates
  <1> HIDE DEF N, S
  <1>4. \E fold : fold = [T \in SUBSET S |-> Step(fold, T)]
    <2>1. PICK fold \in [SUBSET S -> RunStates(H)] : FoldsPrefixes(FreshRun, next, S, fold)
      <3> HIDE DEF next
      <3> QED BY <1>1, <1>2, <1>3, PrefixFoldExists, Zenon
    <2>2. ASSUME NEW T \in SUBSET S PROVE fold[T] = Step(fold, T)
      <3> DEFINE m == Max(T)
      <3>1. T # {} => m \in S
        BY <1>1, LastOfPrefix, Zenon
      <3>2. fold[T \ {m}] \in RunStates(H)
        OBVIOUS
      <3> HIDE DEF m
      <3>3. T # {} => next[m][fold[T \ {m}]] = CheckOp(fold[T \ {m}], tr, ops[m])
        BY <3>1, <3>2
      <3> HIDE DEF next
      <3> QED BY <2>1, <3>3, Zenon DEF m, FoldsPrefixes
    <2>3. fold = [T \in SUBSET S |-> fold[T]]
      OBVIOUS
    <2> HIDE DEF Step
    <2>4. fold = [T \in SUBSET S |-> Step(fold, T)]
      BY <2>2, <2>3
    <2> QED BY <2>4
  <1> DEFINE fold == CHOOSE fold : fold = [T \in SUBSET S |-> Step(fold, T)]
  <1>5. fold = [T \in SUBSET S |-> Step(fold, T)]
    <2> HIDE DEF Step
    <2> QED BY <1>4, Zenon
  <1>6. FoldLeft(LAMBDA v, op : CheckOp(v, tr, op), FreshRun, ops) = fold[S]
    BY RunExpands, Zenon DEF S
  <1> HIDE DEF fold
  <1>7. \A T \in SUBSET S : fold[T] = Step(fold, T)
    BY <1>5, Zenon
  <1> DEFINE run == [n \in 0..N |-> fold[1..n]]
  <1>8. run[0] = FreshRun
    <2>1. 1..0 = {} /\ {} \in SUBSET S /\ 0 \in 0..N
      BY <1>1
    <2> QED BY <1>7, <2>1
  <1>9. ASSUME NEW n \in 1..N PROVE run[n] = CheckOp(run[n - 1], tr, ops[n])
    <2>1. 1..n \in SUBSET S /\ 1..n # {} /\ n \in 0..N /\ n - 1 \in 0..N
      BY <1>1, LastOfPrefix, Zenon
    <2>2. Max(1..n) = n /\ (1..n) \ {n} = 1..(n - 1)
      BY <1>1, LastOfPrefix, Zenon
    <2>3. fold[1..n] = CheckOp(fold[1..(n - 1)], tr, ops[n])
      BY <1>7, <2>1, <2>2, Zenon
    <2> QED BY <2>1, <2>3
  <1>10. run[N] = fold[S] /\ N = Len(ops)
    BY <1>1 DEF N
  <1> HIDE DEF run, fold
  <1> QED BY <1>6, <1>8, <1>9, <1>10, Zenon DEF Passes

(* The bytes of a trace, when no operation has a negative number of them.     *)
CountedBytes(op) == CountsBytes(op) /\ Transferred(op) # None

(* The fold of TransferTotal, expanded likewise.                              *)
LEMMA TotalExpands ==
  ASSUME NEW ops
  PROVE  TransferTotal(ops) =
           (CHOOSE fold : fold = [T \in SUBSET DOMAIN ops |-> IF T = {} THEN 0
              ELSE IF CountedBytes(ops[Max(T)]) THEN fold[T \ {Max(T)}] + Transferred(ops[Max(T)])
                   ELSE fold[T \ {Max(T)}]])[DOMAIN ops]
  BY Zenon DEF TransferTotal, FoldLeft, MapThenFoldSet, CountedBytes

(* So the total is no negative number either, and the header is sound.        *)
LEMMA TotalIsNatural ==
  ASSUME NEW H, Typed(H), NEW ops \in Seq(H),
         \A i \in DOMAIN ops : CountedBytes(ops[i]) => Transferred(ops[i]) \in Nat
  PROVE  TransferTotal(ops) \in Nat
  <1> DEFINE N == Len(ops)
             S == DOMAIN ops
             Plus(x, n) == IF CountedBytes(ops[n]) THEN x + Transferred(ops[n]) ELSE x
             Step(fold, T) == IF T = {} THEN 0 ELSE Plus(fold[T \ {Max(T)}], Max(T))
             next == [n \in S |-> [x \in Nat |-> Plus(x, n)]]
  <1>1. N \in Nat /\ S = 1..N
    OBVIOUS
  <1>2. next \in [S -> [Nat -> Nat]] /\ \A n \in S, x \in Nat : next[n][x] = Plus(x, n) /\ Plus(x, n) \in Nat
    OBVIOUS
  <1>3. \E fold : fold = [T \in SUBSET S |-> Step(fold, T)]
    <2> HIDE DEF N, S, next
    <2>1. PICK fold \in [SUBSET S -> Nat] : FoldsPrefixes(0, next, S, fold)
      <3> QED BY <1>1, <1>2, 0 \in Nat, PrefixFoldExists, Zenon
    <2> HIDE DEF Plus
    <2>2. ASSUME NEW T \in SUBSET S PROVE fold[T] = Step(fold, T)
      <3> DEFINE m == Max(T)
      <3>1. T # {} => m \in S
        BY <1>1, LastOfPrefix, Zenon
      <3>2. fold[T \ {m}] \in Nat
        OBVIOUS
      <3> HIDE DEF m
      <3>3. T # {} => next[m][fold[T \ {m}]] = Plus(fold[T \ {m}], m)
        BY <1>2, <3>1, <3>2
      <3> QED BY <2>1, <3>3, Zenon DEF m, FoldsPrefixes
    <2>3. fold = [T \in SUBSET S |-> fold[T]]
      OBVIOUS
    <2> HIDE DEF Step
    <2>4. fold = [T \in SUBSET S |-> Step(fold, T)]
      BY <2>2, <2>3
    <2> QED BY <2>4
  <1> DEFINE fold == CHOOSE fold : fold = [T \in SUBSET S |-> Step(fold, T)]
  <1>4. fold = [T \in SUBSET S |-> Step(fold, T)]
    <2> HIDE DEF Step
    <2> QED BY <1>3, Zenon
  <1>5. TransferTotal(ops) = fold[S]
    BY TotalExpands, Zenon
  <1> HIDE DEF fold, N, S
  <1>6. \A T \in SUBSET S : fold[T] = Step(fold, T)
    BY <1>4, Zenon
  <1> HIDE DEF Plus
  <1> DEFINE P == {n \in Nat : fold[1..n] \in Nat}
  <1>7. 0 \in P
    <2>1. 1..0 = {} /\ {} \in SUBSET S /\ 0 \in Nat
      OBVIOUS
    <2> QED BY <1>6, <2>1
  <1>8. ASSUME NEW n \in 0..(N - 1), n \in P PROVE n + 1 \in P
    <2> DEFINE m == n + 1
    <2>1. m \in 1..N /\ m \in S /\ m - 1 = n /\ m \in Nat
      BY <1>1
    <2> HIDE DEF m
    <2>2. 1..m \in SUBSET S /\ 1..m # {} /\ Max(1..m) = m /\ (1..m) \ {m} = 1..(m - 1)
      BY <1>1, <2>1, LastOfPrefix, Zenon
    <2>3. fold[1..m] = Plus(fold[1..n], m)
      BY <1>6, <2>1, <2>2, Zenon
    <2>4. Plus(fold[1..n], m) \in Nat
      BY <1>2, <1>8, <2>1
    <2>5. m \in P
      BY <2>1, <2>3, <2>4
    <2> QED BY <2>5 DEF m
  <1>9. N \in P
    <2> HIDE DEF P
    <2>1. 0..N \subseteq P
      BY <1>1, <1>7, <1>8, PrefixInduction
    <2> QED BY <1>1, <2>1
  <1> QED BY <1>1, <1>5, <1>9

(* What is asked of an operation, given those before it.                      *)
InOrderAt(ops, j) ==
  \A i \in 1..(j - 1) : /\ ops[i].t <= ops[j].t
                        /\ ops[i].op_id # ops[j].op_id
                        /\ ops[i].s = ops[j].s => ops[i].op_id < ops[j].op_id

OpenedBefore(ops, j) ==
  \E i \in 1..(j - 1) :
    /\ ops[i].op = "OPEN" /\ ops[i].h = ops[j].h /\ ops[i].s = ops[j].s
    /\ \A k \in (i + 1)..(j - 1) : ~(ops[k].op = "CLOSE" /\ ops[k].h = ops[j].h)

HandledAt(ops, j) ==
  /\ ops[j].op = "OPEN" => \A i \in 1..(j - 1) : ~(ops[i].op = "OPEN" /\ ops[i].h = ops[j].h)
  /\ ops[j].op \in Uses => OpenedBefore(ops, j)

LegalAt(tr, ops, j) == Shaped(tr, ops[j]) /\ InOrderAt(ops, j) /\ HandledAt(ops, j)

(* Asked of all operations, that is what ValidatorExact calls legal.          *)
LEMMA LegalThroughout ==
  ASSUME NEW H, Typed(H), NEW ops \in Seq(H), NEW tr
  PROVE  (\A j \in 1..Len(ops) : LegalAt(tr, ops, j)) <=>
           /\ \A i \in DOMAIN ops : Shaped(tr, ops[i])
           /\ Orderly(ops)
           /\ Lifecycles(ops)
  <1>1. DOMAIN ops = 1..Len(ops) /\ Len(ops) \in Nat
    OBVIOUS
  <1>2. Orderly(ops) <=> \A j \in 1..Len(ops) : InOrderAt(ops, j)
    BY <1>1 DEF Orderly, InOrderAt
  <1>3. Lifecycles(ops) <=> \A j \in 1..Len(ops) : HandledAt(ops, j)
    BY <1>1 DEF Lifecycles, HandledAt, OpenedBefore
  <1> QED BY <1>1, <1>2, <1>3, Zenon DEF LegalAt

(* What the validator complains of in one operation is its shape, or that of  *)
(* its handle.                                                                *)
OwnErrors(v, tr, op) == KindErrors(v, tr, op) \cup RetErrors(tr, op) \cup DurErrors(op)

(* Kind by kind, the errors of an operation on its own are those of its shape, *)
(* a handle opened twice, or one that is not open on the stream.              *)
LEMMA ComplaintsAreOfShape ==
  ASSUME NEW H, Typed(H), NEW op \in H, NEW v, \A o \in v.opened : o.h # None,
         NEW tr, tr.version \in Int
  PROVE  (OwnErrors(v, tr, op) = {} /\ op.op_id # None /\ op.op_id >= 0) <=>
           /\ Shaped(tr, op)
           /\ op.op = "OPEN" => ~\E o \in v.opened : o.h = op.h
           /\ op.op \in Uses => HandleErrors(v, op) = {}
  <1>1. /\ op.op_id \in Int \cup {None} /\ op.off \in Int \cup {None} /\ op.len \in Int \cup {None}
        /\ op.ret \in Int \cup {None} /\ op.dur \in Int \cup {None} /\ None \notin Int
    BY DEF Typed
  <1>2. DurErrors(op) = {} <=> (op.dur # None => op.dur >= 0)
    BY <1>1 DEF DurErrors
  <1>3. RetErrors(tr, op) = {} <=>
          (op.ret # None => /\ op.op \in {"READ", "GET"} /\ op.ret >= 0 /\ tr.version >= 2
                            /\ op.len # None => op.ret <= op.len)
    BY <1>1 DEF RetErrors
  <1>4. TargetErrors(tr, op) = {} <=> op.tgt # None /\ op.tgt \in 0..(tr.targets - 1)
    BY DEF TargetErrors
  <1>5. /\ LenErrors(op) = {} <=> op.len # None /\ op.len >= 0
        /\ OffLenErrors(op) = {} <=> op.off # None /\ op.off >= 0 /\ op.len # None /\ op.len >= 0
    BY <1>1 DEF LenErrors, OffLenErrors
  <1>6. /\ Forbid(op, {"off", "len"}) = {} <=> op.off = None /\ op.len = None
        /\ Forbid(op, {"tgt", "mode"}) = {} <=> op.tgt = None /\ op.mode = None
        /\ Forbid(op, {"tgt", "mode", "off", "len"}) = {} <=>
             op.tgt = None /\ op.mode = None /\ op.off = None /\ op.len = None
        /\ Forbid(op, {"h", "mode", "off", "len"}) = {} <=>
             op.h = None /\ op.mode = None /\ op.off = None /\ op.len = None
        /\ Forbid(op, {"h", "mode"}) = {} <=> op.h = None /\ op.mode = None
        /\ Forbid(op, {"h", "mode", "off"}) = {} <=> op.h = None /\ op.mode = None /\ op.off = None
    BY DEF Forbid
  <1>7. HandleErrors(v, op) = {} => op.h # None
    BY DEF HandleErrors
  <1>8. CASE op.op = "OPEN"
    <2>1. KindErrors(v, tr, op) = OpenErrors(v, tr, op)
      BY <1>8 DEF KindErrors
    <2>2. OpenErrors(v, tr, op) = {} <=>
            /\ TargetErrors(tr, op) = {} /\ Forbid(op, {"off", "len"}) = {}
            /\ op.h # None /\ ~\E o \in v.opened : o.h = op.h
            /\ op.mode \in {"r", "w", "rw"}
      BY DEF OpenErrors
    <2> QED BY <1>1, <1>2, <1>3, <1>4, <1>6, <1>8, <2>1, <2>2 DEF OwnErrors, Shaped, Uses, Kinds
  <1>9. CASE op.op \in {"READ", "WRITE"}
    <2>1. KindErrors(v, tr, op) = HandleErrors(v, op) \cup Forbid(op, {"tgt", "mode"}) \cup OffLenErrors(op)
      BY <1>9 DEF KindErrors
    <2> QED BY <1>1, <1>2, <1>3, <1>5, <1>6, <1>7, <1>9, <2>1 DEF OwnErrors, Shaped, Uses, Kinds
  <1>10. CASE op.op \in {"FSYNC", "CLOSE"}
    <2>1. KindErrors(v, tr, op) = HandleErrors(v, op) \cup Forbid(op, {"tgt", "mode", "off", "len"})
      BY <1>10 DEF KindErrors
    <2> QED BY <1>1, <1>2, <1>3, <1>5, <1>6, <1>7, <1>10, <2>1 DEF OwnErrors, Shaped, Uses, Kinds
  <1>11. CASE op.op \in {"STAT", "HEAD", "DELETE"}
    <2>1. KindErrors(v, tr, op) = TargetErrors(tr, op) \cup Forbid(op, {"h", "mode", "off", "len"})
      BY <1>11 DEF KindErrors
    <2> QED BY <1>1, <1>2, <1>3, <1>4, <1>6, <1>11, <2>1 DEF OwnErrors, Shaped, Uses, Kinds
  <1>12. CASE op.op = "GET"
    <2>1. KindErrors(v, tr, op) = TargetErrors(tr, op) \cup Forbid(op, {"h", "mode"}) \cup OffLenErrors(op)
      BY <1>12 DEF KindErrors
    <2> QED BY <1>1, <1>2, <1>3, <1>4, <1>5, <1>6, <1>12, <2>1 DEF OwnErrors, Shaped, Uses, Kinds
  <1>13. CASE op.op = "PUT"
    <2>1. KindErrors(v, tr, op) = TargetErrors(tr, op) \cup Forbid(op, {"h", "mode", "off"}) \cup LenErrors(op)
      BY <1>13 DEF KindErrors
    <2> QED BY <1>1, <1>2, <1>3, <1>4, <1>5, <1>6, <1>13, <2>1 DEF OwnErrors, Shaped, Uses, Kinds
  <1>14. CASE op.op \notin Kinds
    <2>1. KindErrors(v, tr, op) = {"op"}
      BY <1>14 DEF KindErrors, Kinds, Uses
    <2> QED BY <1>14, <2>1 DEF OwnErrors, Shaped
  <1> QED BY <1>8, <1>9, <1>10, <1>11, <1>12, <1>13, <1>14 DEF Kinds, Uses

(* What the validator remembers of a prefix it found nothing wrong with.      *)
RemembersOrder(v, ops, n) ==
  /\ v.lastT = IF n = 0 THEN None ELSE ops[n].t
  /\ v.ids = {ops[i].op_id : i \in 1..n}
  /\ DOMAIN v.lastId = {ops[i].s : i \in 1..n}
  /\ \A i \in 1..n : ops[i].op_id <= v.lastId[ops[i].s]
  /\ \A s \in DOMAIN v.lastId : \E i \in 1..n : ops[i].s = s /\ v.lastId[s] = ops[i].op_id

RemembersHandles(v, ops, n) ==
  /\ \A o \in v.opened : \E i \in 1..n : ops[i].op = "OPEN" /\ o = [h |-> ops[i].h, s |-> ops[i].s]
  /\ \A i \in 1..n : ops[i].op = "OPEN" => [h |-> ops[i].h, s |-> ops[i].s] \in v.opened
  /\ \A h \in v.closed : \E i \in 1..n : ops[i].op = "CLOSE" /\ ops[i].h = h
  /\ \A i \in 1..n : ops[i].op = "CLOSE" => ops[i].h \in v.closed

LateErrors(v, op) == IF v.lastT # None /\ op.t < v.lastT THEN {"t"} ELSE {}

(* The times and ids remembered suffice to tell whether the next operation is *)
(* in order, and those of the next operation are remembered.                  *)
LEMMA OrderChecked ==
  ASSUME NEW H, Typed(H), NEW ops \in Seq(H), NEW tr, NEW n \in 0..(Len(ops) - 1), NEW v,
         \A j \in 1..n : LegalAt(tr, ops, j), RemembersOrder(v, ops, n),
         ops[n + 1].op_id # None, ops[n + 1].op_id >= 0
  PROVE  /\ (LateErrors(v, ops[n + 1]) = {} /\ OpIdErrors(v, ops[n + 1]) = {}) <=> InOrderAt(ops, n + 1)
         /\ InOrderAt(ops, n + 1) => RemembersOrder(CheckOp(v, tr, ops[n + 1]), ops, n + 1)
  <1> DEFINE op == ops[n + 1]
             w  == CheckOp(v, tr, op)
  <1>1. /\ n \in Nat /\ Len(ops) \in Nat /\ op \in H /\ None \notin Int
        /\ \A i \in 1..n : ops[i] \in H
    BY DEF Typed
  <1>2. \A i \in 1..n : ops[i].t \in Int /\ ops[i].op_id \in Int
    <2>1. \A i \in 1..n : ops[i].op_id \in Int \cup {None} /\ ops[i].op_id # None
      BY <1>1 DEF Typed, LegalAt, Shaped
    <2> QED BY <1>1, <2>1 DEF Typed
  <1>3. op.t \in Int /\ op.op_id \in Int
    BY <1>1 DEF Typed
  <1>4. \A i \in 1..n : n >= 1 /\ ops[i].t <= ops[n].t
    <2> TAKE i \in 1..n
    <2>1. CASE i = n
      BY <1>2, <2>1
    <2>2. CASE i # n
      <3>1. i \in 1..(n - 1) /\ n \in 1..n /\ InOrderAt(ops, n)
        BY <1>1, <2>2 DEF LegalAt
      <3> QED BY <3>1 DEF InOrderAt
    <2> QED BY <2>1, <2>2
  <1>5. LateErrors(v, op) = {} <=> \A i \in 1..n : ops[i].t <= op.t
    <2>1. CASE n = 0
      BY <2>1 DEF LateErrors, RemembersOrder
    <2>2. CASE n # 0
      <3>1. n \in 1..n /\ v.lastT = ops[n].t /\ ops[n].t \in Int
        BY <1>1, <1>2, <2>2 DEF RemembersOrder
      <3> HIDE DEF op
      <3> QED BY <1>1, <1>2, <1>3, <1>4, <3>1 DEF LateErrors
    <2> QED BY <2>1, <2>2
  <1>6. op.op_id \notin v.ids <=> \A i \in 1..n : ops[i].op_id # op.op_id
    BY DEF RemembersOrder
  <1>7. ~(op.s \in DOMAIN v.lastId /\ op.op_id <= v.lastId[op.s]) <=>
          \A i \in 1..n : ops[i].s = op.s => ops[i].op_id < op.op_id
    <2>1. \A s \in DOMAIN v.lastId : v.lastId[s] \in Int
      BY <1>2 DEF RemembersOrder
    <2>2. \A i \in 1..n : ops[i].s \in DOMAIN v.lastId /\ ops[i].op_id <= v.lastId[ops[i].s]
      BY DEF RemembersOrder
    <2>3. \A s \in DOMAIN v.lastId : \E i \in 1..n : ops[i].s = s /\ v.lastId[s] = ops[i].op_id
      BY DEF RemembersOrder
    <2> HIDE DEF op
    <2>4. ASSUME op.s \in DOMAIN v.lastId, op.op_id <= v.lastId[op.s]
          PROVE  \E i \in 1..n : ops[i].s = op.s /\ ~(ops[i].op_id < op.op_id)
      BY <1>2, <1>3, <2>1, <2>3, <2>4
    <2>5. ASSUME NEW i \in 1..n, ops[i].s = op.s, ~(ops[i].op_id < op.op_id)
          PROVE  op.s \in DOMAIN v.lastId /\ op.op_id <= v.lastId[op.s]
      BY <1>2, <1>3, <2>1, <2>2, <2>5
    <2> QED BY <2>4, <2>5
  <1>8. OpIdErrors(v, op) = {} <=>
          op.op_id \notin v.ids /\ ~(op.s \in DOMAIN v.lastId /\ op.op_id <= v.lastId[op.s])
    <2>1. op.op_id # None /\ op.op_id >= 0
      OBVIOUS
    <2> DEFINE seen   == op.op_id \in v.ids
               behind == op.s \in DOMAIN v.lastId /\ op.op_id <= v.lastId[op.s]
    <2>2. OpIdErrors(v, op) = {} \cup (IF seen THEN {"op_id duplicate"} ELSE {})
                                 \cup (IF behind THEN {"op_id order"} ELSE {})
      <3>1. ~(op.op_id < 0)
        BY <1>3, <2>1
      <3> HIDE DEF op
      <3> QED BY <2>1, <3>1, Zenon DEF OpIdErrors
    <2> HIDE DEF seen, behind
    <2>3. OpIdErrors(v, op) = {} <=> ~seen /\ ~behind
      BY <2>2
    <2> QED BY <2>3, Zenon DEF seen, behind
  <1>9. InOrderAt(ops, n + 1) <=>
          \A i \in 1..n : /\ ops[i].t <= op.t /\ ops[i].op_id # op.op_id
                          /\ ops[i].s = op.s => ops[i].op_id < op.op_id
    BY <1>1 DEF InOrderAt
  <1>10. (LateErrors(v, op) = {} /\ OpIdErrors(v, op) = {}) <=> InOrderAt(ops, n + 1)
    <2> HIDE DEF op
    <2> QED BY <1>5, <1>6, <1>7, <1>8, <1>9
  <1>11. ASSUME InOrderAt(ops, n + 1) PROVE RemembersOrder(w, ops, n + 1)
    <2>1. w.lastT = ops[n + 1].t /\ n + 1 # 0
      <3>1. v.lastT = None \/ op.t >= v.lastT
        BY <1>1, <1>2, <1>3, <1>9, <1>11 DEF RemembersOrder
      <3>2. v.lastT \in Int \cup {None}
        BY <1>1, <1>2 DEF RemembersOrder
      <3>3. w.lastT = IF v.lastT = None \/ op.t > v.lastT THEN op.t ELSE v.lastT
        BY DEF CheckOp
      <3> HIDE DEF w
      <3> QED BY <1>1, <1>3, <3>1, <3>2, <3>3
    <2>2. 1..(n + 1) = (1..n) \cup {n + 1}
      BY <1>1
    <2>3. w.ids = v.ids \cup {op.op_id}
      BY <1>1, <1>3 DEF CheckOp
    <2>4. w.ids = {ops[i].op_id : i \in 1..(n + 1)}
      BY <2>2, <2>3 DEF RemembersOrder
    <2>5. w.lastId = [s \in DOMAIN v.lastId \cup {op.s} |-> IF s = op.s THEN op.op_id ELSE v.lastId[s]]
      BY <1>1, <1>3 DEF CheckOp
    <2>6. DOMAIN w.lastId = {ops[i].s : i \in 1..(n + 1)}
      <3>1. DOMAIN w.lastId = DOMAIN v.lastId \cup {op.s}
        BY <2>5, Zenon
      <3>2. DOMAIN v.lastId = {ops[i].s : i \in 1..n}
        BY DEF RemembersOrder
      <3> HIDE DEF w
      <3> QED BY <2>2, <3>1, <3>2
    <2>7. ASSUME NEW i \in 1..(n + 1) PROVE ops[i].op_id <= w.lastId[ops[i].s]
      <3>1. CASE i = n + 1
        BY <1>3, <2>5, <3>1
      <3>2. CASE i \in 1..n /\ ops[i].s = op.s
        <4>1. ops[i].op_id < op.op_id /\ w.lastId[ops[i].s] = op.op_id
          BY <1>9, <1>11, <2>5, <3>2
        <4> QED BY <1>2, <1>3, <3>2, <4>1
      <3>3. CASE i \in 1..n /\ ops[i].s # op.s
        <4>1. ops[i].s \in DOMAIN v.lastId /\ ops[i].op_id <= v.lastId[ops[i].s]
          BY <3>3 DEF RemembersOrder
        <4>2. w.lastId[ops[i].s] = v.lastId[ops[i].s]
          BY <2>5, <3>3, <4>1
        <4> QED BY <4>1, <4>2
      <3> QED BY <2>2, <3>1, <3>2, <3>3
    <2>8. ASSUME NEW s \in DOMAIN w.lastId
          PROVE  \E i \in 1..(n + 1) : ops[i].s = s /\ w.lastId[s] = ops[i].op_id
      <3>1. CASE s = op.s
        BY <2>2, <2>5, <3>1
      <3>2. CASE s # op.s
        <4>1. s \in DOMAIN v.lastId /\ w.lastId[s] = v.lastId[s]
          BY <2>5, <3>2
        <4>2. PICK i \in 1..n : ops[i].s = s /\ v.lastId[s] = ops[i].op_id
          BY <4>1 DEF RemembersOrder
        <4> QED BY <2>2, <4>1, <4>2
      <3> QED BY <3>1, <3>2
    <2> HIDE DEF w
    <2> QED BY <2>1, <2>4, <2>6, <2>7, <2>8 DEF RemembersOrder
  <1> QED BY <1>10, <1>11

(* So do the handles: since a legal prefix opens each once, one that is opened *)
(* and not closed is one that was not closed since it was opened.             *)
LEMMA HandlesChecked ==
  ASSUME NEW H, Typed(H), NEW ops \in Seq(H), NEW tr, tr.version \in Int, NEW n \in 0..(Len(ops) - 1), NEW v,
         \A j \in 1..n : LegalAt(tr, ops, j), RemembersHandles(v, ops, n)
  PROVE  LET op == ops[n + 1]
         IN  /\ (OwnErrors(v, tr, op) = {} /\ op.op_id # None /\ op.op_id >= 0) <=>
                  Shaped(tr, op) /\ HandledAt(ops, n + 1)
             /\ OwnErrors(v, tr, op) = {} /\ Shaped(tr, op) =>
                  RemembersHandles(CheckOp(v, tr, op), ops, n + 1)
  <1> DEFINE op == ops[n + 1]
             w  == CheckOp(v, tr, op)
  <1>1. /\ n \in Nat /\ op \in H /\ n + 1 - 1 = n
        /\ 1..(n + 1) = (1..n) \cup {n + 1}
    OBVIOUS
  <1>2. \A i \in 1..n : ops[i].op = "OPEN" => ops[i].h # None
    BY DEF LegalAt, Shaped, Uses
  <1>3. \A o \in v.opened : o.h # None
    BY <1>2 DEF RemembersHandles
  <1> DEFINE Entry(i) == [h |-> ops[i].h, s |-> ops[i].s]
  <1>3a. \A i \in 1..n : Entry(i).h = ops[i].h /\ Entry(i).s = ops[i].s
    OBVIOUS
  <1>3b. /\ \A o \in v.opened : \E i \in 1..n : ops[i].op = "OPEN" /\ o = Entry(i)
        /\ \A i \in 1..n : ops[i].op = "OPEN" => Entry(i) \in v.opened
    BY DEF RemembersHandles
  <1> HIDE DEF Entry, op
  <1>4. (\E o \in v.opened : o.h = op.h) <=> \E i \in 1..n : ops[i].op = "OPEN" /\ ops[i].h = op.h
    BY <1>3a, <1>3b
  <1>5. HandleErrors(v, op) = {} <=>
          /\ \E i \in 1..n : ops[i].op = "OPEN" /\ ops[i].h = op.h /\ ops[i].s = op.s
          /\ \A k \in 1..n : ~(ops[k].op = "CLOSE" /\ ops[k].h = op.h)
    <2>1. HandleErrors(v, op) = {} <=> (\E o \in v.opened : o.h = op.h /\ o.s = op.s) /\ op.h \notin v.closed
      BY DEF HandleErrors
    <2>2. (\E o \in v.opened : o.h = op.h /\ o.s = op.s) <=>
            \E i \in 1..n : ops[i].op = "OPEN" /\ ops[i].h = op.h /\ ops[i].s = op.s
      BY <1>3a, <1>3b
    <2>3. op.h \in v.closed <=> \E k \in 1..n : ops[k].op = "CLOSE" /\ ops[k].h = op.h
      BY DEF RemembersHandles
    <2> QED BY <2>1, <2>2, <2>3
  <1>6. ASSUME NEW i \in 1..n, ops[i].op = "OPEN", ops[i].h = op.h,
               NEW k \in 1..n, ops[k].op = "CLOSE", ops[k].h = op.h
        PROVE  k \in (i + 1)..n
    <2>1. PICK j \in 1..(k - 1) : ops[j].op = "OPEN" /\ ops[j].h = ops[k].h
      BY <1>6 DEF LegalAt, HandledAt, OpenedBefore, Uses
    <2>2. j \in 1..n
      BY <1>1, <2>1
    <2>3. j = i
      <3>1. CASE j < i
        <4>1. j \in 1..(i - 1)
          BY <1>1, <2>1, <3>1
        <4> QED BY <1>6, <2>1, <4>1 DEF LegalAt, HandledAt
      <3>2. CASE i < j
        <4>1. i \in 1..(j - 1)
          BY <1>1, <2>1, <3>2
        <4> QED BY <1>6, <2>1, <2>2, <4>1 DEF LegalAt, HandledAt
      <3> QED BY <1>1, <2>2, <3>1, <3>2
    <2> QED BY <1>1, <2>1, <2>3
  <1>7. HandleErrors(v, op) = {} <=> OpenedBefore(ops, n + 1)
    <2>1. OpenedBefore(ops, n + 1) <=>
            \E i \in 1..n : /\ ops[i].op = "OPEN" /\ ops[i].h = op.h /\ ops[i].s = op.s
                            /\ \A k \in (i + 1)..n : ~(ops[k].op = "CLOSE" /\ ops[k].h = op.h)
      BY <1>1 DEF OpenedBefore, op
    <2>2. \A i \in 1..n : \A k \in (i + 1)..n : k \in 1..n
      BY <1>1
    <2> QED BY <1>5, <1>6, <2>1, <2>2
  <1>8. HandledAt(ops, n + 1) <=>
          /\ op.op = "OPEN" => ~\E o \in v.opened : o.h = op.h
          /\ op.op \in Uses => HandleErrors(v, op) = {}
    BY <1>1, <1>4, <1>7 DEF HandledAt, op
  <1>9. (OwnErrors(v, tr, op) = {} /\ op.op_id # None /\ op.op_id >= 0) <=>
           Shaped(tr, op) /\ HandledAt(ops, n + 1)
    <2>1. (OwnErrors(v, tr, op) = {} /\ op.op_id # None /\ op.op_id >= 0) <=>
             /\ Shaped(tr, op)
             /\ op.op = "OPEN" => ~\E o \in v.opened : o.h = op.h
             /\ op.op \in Uses => HandleErrors(v, op) = {}
      BY <1>1, <1>3, ComplaintsAreOfShape
    <2> QED BY <1>8, <2>1
  <1>10. ASSUME OwnErrors(v, tr, op) = {}, Shaped(tr, op)
         PROVE  RemembersHandles(w, ops, n + 1)
    <2> USE DEF op
    <2>1. HandledAt(ops, n + 1)
      BY <1>9, <1>10 DEF Shaped
    <2>2. KindErrors(v, tr, op) = {}
      BY <1>10 DEF OwnErrors
    <2>3. w.opened = IF op.op = "OPEN" THEN v.opened \cup {[h |-> op.h, s |-> op.s]} ELSE v.opened
      BY <2>2 DEF CheckOp
    <2>4. op.op = "CLOSE" => HandleErrors(v, op) = {}
      BY <1>8, <2>1 DEF Uses
    <2>5. w.closed = IF op.op = "CLOSE" THEN v.closed \cup {op.h} ELSE v.closed
      BY <2>4 DEF CheckOp
    <2> HIDE DEF w
    <2>6. \A o \in w.opened : \E i \in 1..(n + 1) : ops[i].op = "OPEN" /\ o = [h |-> ops[i].h, s |-> ops[i].s]
      BY <1>1, <2>3 DEF RemembersHandles
    <2>7. \A i \in 1..(n + 1) : ops[i].op = "OPEN" => [h |-> ops[i].h, s |-> ops[i].s] \in w.opened
      BY <1>1, <2>3 DEF RemembersHandles
    <2>8. \A h \in w.closed : \E i \in 1..(n + 1) : ops[i].op = "CLOSE" /\ ops[i].h = h
      BY <1>1, <2>5 DEF RemembersHandles
    <2>9. \A i \in 1..(n + 1) : ops[i].op = "CLOSE" => ops[i].h \in w.closed
      BY <1>1, <2>5 DEF RemembersHandles
    <2> QED BY <2>6, <2>7, <2>8, <2>9 DEF RemembersHandles
  <1> QED BY <1>9, <1>10 DEF op

(* One more operation. *)
Knows(v, tr, ops, n) ==
  /\ v.errs = {} <=> \A j \in 1..n : LegalAt(tr, ops, j)
  /\ v.errs = {} => RemembersOrder(v, ops, n) /\ RemembersHandles(v, ops, n)

(* No error so far means a legal prefix, remembered; one operation keeps that. *)
LEMMA CheckKnowsMore ==
  ASSUME NEW H, Typed(H), NEW ops \in Seq(H), NEW tr, tr.version \in Int, NEW n \in 0..(Len(ops) - 1), NEW v,
         Knows(v, tr, ops, n)
  PROVE  Knows(CheckOp(v, tr, ops[n + 1]), tr, ops, n + 1)
  <1> DEFINE op == ops[n + 1]
             w  == CheckOp(v, tr, op)
             legal == \A j \in 1..n : LegalAt(tr, ops, j)
  <1>1. 1..(n + 1) = (1..n) \cup {n + 1}
    OBVIOUS
  <1>2. (\A j \in 1..(n + 1) : LegalAt(tr, ops, j)) <=> legal /\ LegalAt(tr, ops, n + 1)
    BY <1>1
  <1>3. w.errs = {} <=> /\ v.errs = {} /\ LateErrors(v, op) = {} /\ OpIdErrors(v, op) = {}
                        /\ OwnErrors(v, tr, op) = {}
    BY DEF CheckOp, LateErrors, OwnErrors
  <1>4. CASE v.errs # {}
    BY <1>2, <1>3, <1>4 DEF Knows
  <1>5. CASE v.errs = {}
    <2>1. legal /\ RemembersOrder(v, ops, n) /\ RemembersHandles(v, ops, n)
      BY <1>5 DEF Knows
    <2>2. /\ (OwnErrors(v, tr, op) = {} /\ op.op_id # None /\ op.op_id >= 0) <=>
                Shaped(tr, op) /\ HandledAt(ops, n + 1)
          /\ OwnErrors(v, tr, op) = {} /\ Shaped(tr, op) => RemembersHandles(w, ops, n + 1)
      BY <2>1, HandlesChecked
    <2>3. ASSUME op.op_id # None, op.op_id >= 0
          PROVE  /\ (LateErrors(v, op) = {} /\ OpIdErrors(v, op) = {}) <=> InOrderAt(ops, n + 1)
                 /\ InOrderAt(ops, n + 1) => RemembersOrder(w, ops, n + 1)
      BY <2>1, <2>3, OrderChecked
    <2>4. OpIdErrors(v, op) = {} => op.op_id # None /\ op.op_id >= 0
      <3>1. op.op_id \in Int \cup {None}
        BY DEF Typed
      <3> HIDE DEF op
      <3>2. CASE op.op_id = None
        BY <3>2 DEF OpIdErrors
      <3>3. CASE op.op_id # None /\ op.op_id < 0
        <4>1. "op_id negative" \in OpIdErrors(v, op)
          BY <3>3, Zenon DEF OpIdErrors
        <4> QED BY <4>1
      <3> QED BY <3>1, <3>2, <3>3
    <2>5. Shaped(tr, op) => op.op_id # None /\ op.op_id >= 0
      BY DEF Shaped
    <2> HIDE DEF op, w, legal
    <2>6. w.errs = {} <=> LegalAt(tr, ops, n + 1)
      BY <1>3, <1>5, <2>2, <2>3, <2>4, <2>5, Zenon DEF LegalAt, op
    <2>7. w.errs = {} => RemembersOrder(w, ops, n + 1) /\ RemembersHandles(w, ops, n + 1)
      BY <1>3, <2>2, <2>3, <2>4, <2>5, <2>6, Zenon DEF LegalAt, op
    <2> QED BY <1>2, <2>1, <2>6, <2>7, Zenon DEF Knows, w, op
  <1> QED BY <1>4, <1>5

Verdict(tr) == FoldLeft(LAMBDA v, op : CheckOp(v, tr, op), FreshRun, tr.ops)

(* The pass over the operations ends without an error for legal ones only.    *)
LEMMA PassesExactly ==
  ASSUME NEW H, Typed(H), NEW tr, tr.ops \in Seq(H), tr.version \in Int
  PROVE  Verdict(tr).errs = {} <=>
           \A j \in 1..Len(tr.ops) : LegalAt(tr, tr.ops, j)
  <1> DEFINE ops == tr.ops
             N   == Len(ops)
  <1>1. PICK run : Passes(run, ops, tr)
    BY RunIsAPass
  <1>1a. /\ run[0] = FreshRun
        /\ \A n \in 1..N : run[n] = CheckOp(run[n - 1], tr, ops[n])
    BY <1>1, Zenon DEF Passes
  <1> DEFINE P == {n \in Nat : Knows(run[n], tr, ops, n)}
  <1>2. N \in Nat
    OBVIOUS
  <1>3. 0 \in P
    <2>1. run[0] = FreshRun /\ 1..0 = {}
      BY <1>1a
    <2>2. FreshRun.errs = {} /\ RemembersOrder(FreshRun, ops, 0) /\ RemembersHandles(FreshRun, ops, 0)
      BY <2>1 DEF FreshRun, RemembersOrder, RemembersHandles
    <2> QED BY <2>1, <2>2 DEF Knows
  <1>4. ASSUME NEW n \in 0..(N - 1), n \in P PROVE n + 1 \in P
    <2>1. n + 1 \in 1..N /\ n + 1 - 1 = n /\ n + 1 \in Nat
      BY <1>2
    <2>2. run[n + 1] = CheckOp(run[n + 1 - 1], tr, ops[n + 1])
      BY <1>1a, <2>1
    <2>3. run[n + 1] = CheckOp(run[n], tr, ops[n + 1])
      BY <2>1, <2>2
    <2>4. Knows(run[n], tr, ops, n)
      BY <1>4
    <2>5. Knows(CheckOp(run[n], tr, ops[n + 1]), tr, ops, n + 1)
      BY <2>4, CheckKnowsMore
    <2>6. Knows(run[n + 1], tr, ops, n + 1)
      BY <2>3, <2>5, Zenon
    <2> QED BY <2>1, <2>6
  <1>5. Knows(run[N], tr, ops, N)
    <2> HIDE DEF P, N
    <2>1. 0..N \subseteq P
      BY <1>2, <1>3, <1>4, PrefixInduction
    <2>2. N \in P
      BY <1>2, <2>1
    <2> QED BY <2>2 DEF P
  <1>6. Verdict(tr) = run[N]
    BY <1>1, Zenon DEF Passes, Verdict
  <1> QED BY <1>5, <1>6, Zenon DEF Knows

(* A legal trace moves no negative number of bytes.                           *)
LEMMA MovesNaturals ==
  ASSUME NEW H, Typed(H), NEW op \in H, NEW tr, Shaped(tr, op)
  PROVE  /\ op.off # None => op.off \in Nat
         /\ op.len # None => op.len \in Nat
         /\ op.ret # None => op.ret \in Nat /\ op.len \in Nat /\ op.ret <= op.len
         /\ Transferred(op) # None => Transferred(op) \in Nat
  <1>1. /\ op.off \in Int \cup {None} /\ op.len \in Int \cup {None}
        /\ op.ret \in Int \cup {None} /\ None \notin Int
    BY DEF Typed
  <1>2. /\ op.off # None => op.off \in Nat
        /\ op.len # None => op.len \in Nat
        /\ op.ret # None => op.ret \in 0..op.len /\ op.op \in {"READ", "GET"}
    BY <1>1 DEF Shaped
  <1>3. op.ret # None => op.len # None
    BY <1>1, <1>2 DEF Shaped
  <1> QED BY <1>1, <1>2, <1>3 DEF Transferred

(* A header that says what its legal operations are is in order.              *)
LEMMA HonestHeader ==
  ASSUME NEW H, Typed(H), NEW ops \in Seq(H), NEW tr, tr.ops = ops, tr.version \in 1..3,
         NEW duration \in Nat, tr.summary = Summary(ops, duration),
         \A i \in DOMAIN ops : Shaped(tr, ops[i])
  PROVE  SummaryErrors(tr) \cup HeaderErrors(tr) = {}
  <1>1. SummaryErrors(tr) = {}
    BY DEF SummaryErrors, Summary
  <1>2. Cardinality({o.s : o \in ToSet(ops)}) \in Nat
    <2>1. IsFiniteSet(DOMAIN ops)
      <3>1. DOMAIN ops = 1..Len(ops) /\ Len(ops) \in Nat
        OBVIOUS
      <3> QED BY <3>1, FS_Interval
    <2>2. {o.s : o \in ToSet(ops)} = {ops[i].s : i \in DOMAIN ops}
      BY DEF ToSet
    <2> DEFINE ids == {ops[i].s : i \in DOMAIN ops}
               id  == [i \in DOMAIN ops |-> ops[i].s]
    <2>3. id \in Surjection(DOMAIN ops, ids)
      <3>1. id \in [DOMAIN ops -> ids]
        OBVIOUS
      <3>2. \A x \in ids : \E i \in DOMAIN ops : id[i] = x
        OBVIOUS
      <3> HIDE DEF ids, id
      <3> QED BY <3>1, <3>2, Zenon DEF Surjection
    <2>4. IsFiniteSet(ids)
      <3> HIDE DEF ids, id
      <3> QED BY <2>1, <2>3, FS_Surjection
    <2> QED BY <2>2, <2>4, FS_CardinalityType
  <1>3. TransferTotal(ops) \in Nat
    <2>1. ASSUME NEW i \in DOMAIN ops, CountedBytes(ops[i])
          PROVE  Transferred(ops[i]) \in Nat
      <3>1. ops[i] \in H /\ Shaped(tr, ops[i]) /\ Transferred(ops[i]) # None
        BY <2>1 DEF CountedBytes
      <3> QED BY <3>1, MovesNaturals
    <2> QED BY <2>1, TotalIsNatural
  <1>4. Len(ops) \in Nat
    OBVIOUS
  <1>5. \A f \in {"num_ops", "num_streams", "total_bytes", "duration"} : ~(tr.summary[f] < 0)
    BY <1>2, <1>3, <1>4 DEF Summary
  <1> QED BY <1>1, <1>5 DEF HeaderErrors

(* Errors is empty exactly for legal operations under a header in order.      *)
LEMMA AcceptsExactly ==
  ASSUME NEW H, Typed(H), NEW ops \in Seq(H), NEW tr, tr.ops = ops, tr.version \in Int
  PROVE  Errors(tr) = {} <=> /\ \A i \in DOMAIN ops : Shaped(tr, ops[i])
                             /\ Orderly(ops)
                             /\ Lifecycles(ops)
                             /\ SummaryErrors(tr) \cup HeaderErrors(tr) = {}
  <1> DEFINE run == Verdict(tr)
  <1>1. run.errs = {} <=> \A j \in 1..Len(ops) : LegalAt(tr, ops, j)
    <2>1. tr.ops \in Seq(H)
      OBVIOUS
    <2>2. run.errs = {} <=> \A j \in 1..Len(tr.ops) : LegalAt(tr, tr.ops, j)
      BY <2>1, PassesExactly
    <2> HIDE DEF run
    <2> QED BY <2>2
  <1>2. Errors(tr) = run.errs \cup SummaryErrors(tr) \cup HeaderErrors(tr)
    BY Zenon DEF Errors, Verdict
  <1> HIDE DEF run
  <1>3. Errors(tr) = {} <=> run.errs = {} /\ SummaryErrors(tr) \cup HeaderErrors(tr) = {}
    BY <1>2
  <1> QED BY <1>1, <1>3, LegalThroughout

(* The header of a trace written by hand. *)
HandFile(ops) ==
  [version |-> params.version, targets |-> 1,
   summary |-> Summary(IF params.truncated THEN Append(ops, Last(ops)) ELSE ops, 0),
   ops     |-> ops]

(* When the operations are well-formed, the header is in error exactly if it is *)
(* that of a longer trace.                                                    *)
LEMMA HeaderTells ==
  ASSUME NEW ops \in Seq(HandOps), ops # <<>>,
         params \in [version : 1..2, truncated : BOOLEAN],
         NEW tr, tr = HandFile(ops), \A i \in DOMAIN ops : Shaped(tr, ops[i])
  PROVE  (SummaryErrors(tr) \cup HeaderErrors(tr) = {}) <=> ~params.truncated
  <1>1. /\ Len(ops) \in Nat /\ tr.ops = ops /\ tr.version \in 1..2
        /\ tr.summary = Summary(IF params.truncated THEN Append(ops, Last(ops)) ELSE ops, 0)
    BY DEF HandFile
  <1>2. CASE params.truncated
    <2>1. tr.summary.num_ops = Len(Append(ops, Last(ops)))
      BY <1>1, <1>2 DEF Summary
    <2>2. Last(ops) \in HandOps
      BY <1>1 DEF Last
    <2>3. Summary(ops, 0).num_ops = Len(ops)
      BY DEF Summary
    <2>4. tr.summary.num_ops # Summary(ops, 0).num_ops
      <3>1. Len(Append(ops, Last(ops))) = Len(ops) + 1
        BY <2>2
      <3> QED BY <1>1, <2>1, <2>3, <3>1
    <2>5. "num_ops" \in SummaryErrors(tr)
      BY <1>1, <2>4 DEF SummaryErrors
    <2> QED BY <1>2, <2>5
  <1>3. CASE ~params.truncated
    <2>1. tr.summary = Summary(ops, 0) /\ tr.version \in 1..3 /\ 0 \in Nat
      BY <1>1, <1>3
    <2>2. Typed(HandOps)
      BY HandAssumption DEF Typed
    <2>3. SummaryErrors(tr) \cup HeaderErrors(tr) = {}
      BY <1>1, <2>1, <2>2, HonestHeader
    <2> QED BY <1>3, <2>3
  <1> QED BY <1>2, <1>3

(* So what is typed is accepted exactly if it is legal and its header honest. *)
LEMMA HandAccepted ==
  ASSUME NEW ops \in Seq(HandOps), ops # <<>>,
         params \in [version : 1..2, truncated : BOOLEAN],
         NEW tr, tr = HandFile(ops)
  PROVE  Errors(tr) = {} <=> /\ \A i \in DOMAIN ops : Shaped(tr, ops[i])
                             /\ Orderly(ops)
                             /\ Lifecycles(ops)
                             /\ ~params.truncated
  <1>1. tr.ops = ops /\ tr.version \in Int /\ Typed(HandOps)
    BY HandAssumption DEF HandFile, Typed
  <1> QED BY <1>1, AcceptsExactly, HeaderTells

-----------------------------------------------------------------------------
(* A trace written by hand is as it was typed, and refused for its errors.    *)
HandWhole ==
  tool = "hand" =>
    /\ params \in [version : 1..2, truncated : BOOLEAN]
    /\ streams \in Seq(HandOps)
    /\ phase # "making" => /\ streams # <<>> /\ file = HandFile(streams)
                           /\ phase = "refused" <=> Errors(file) # {}

(* Only Check makes the file, and what is done with it later changes neither. *)
LEMMA HandInvariant == Spec => []HandWhole
  <1>1. Init => HandWhole
    BY DEF Init, HandWhole, Imports
  <1>2. HandWhole /\ [Next]_vars => HandWhole'
    <2> SUFFICES ASSUME HandWhole, [Next]_vars, tool' = "hand" PROVE HandWhole'
      BY DEF HandWhole
    <2>1. ASSUME UNCHANGED <<tool, params, streams, file>>, phase' = phase PROVE HandWhole'
      BY <2>1 DEF HandWhole, HandFile
    <2>2. CASE UNCHANGED vars
      BY <2>1, <2>2 DEF vars
    <2>3. ASSUME NEW s \in Ranks, NEW step \in Steps, NEW back \in {0, Back}, NEW dur \in Durs,
                 Line(s, step, back, dur)
          PROVE  HandWhole'
      BY <2>3 DEF Line, Unmade, Imports
    <2>4. ASSUME ImportEnds PROVE HandWhole'
      BY <2>4 DEF ImportEnds, Unmade, Imports
    <2>5. ASSUME Checkpoint \/ Training PROVE HandWhole'
      BY <2>5 DEF Checkpoint, Training, Making, Unmade
    <2>6. ASSUME NEW shard, NEW draw, NEW order, Shards(shard, draw, order) PROVE HandWhole'
      BY <2>6 DEF Shards, Making, Unmade
    <2>7. ASSUME NEW op \in HandOps, Type(op) PROVE HandWhole'
      BY <2>7 DEF Type, Making, Unmade, HandWhole
    <2>8. ASSUME Check PROVE HandWhole'
      <3>1. file' = HandFile(streams)' /\ streams' = streams /\ streams # <<>>
        BY <2>8 DEF Check, HandFile, Unmade
      <3>2. phase' = IF Errors(file') = {} THEN "made" ELSE "refused"
        BY <2>8 DEF Check
      <3>3. /\ params' = params /\ tool' = tool
        BY <2>8 DEF Check, Unmade
      <3> QED BY <3>1, <3>2, <3>3 DEF HandWhole
    <2>9. ASSUME NEW b \in Blocks, Transform(b) PROVE HandWhole'
      <3>1. phase = "made" /\ phase' \in {"split", "broken"} /\ UNCHANGED <<tool, params, streams, file>>
        BY <2>9 DEF Transform
      <3> QED BY <3>1 DEF HandWhole, HandFile
    <2>10. ASSUME NEW mode, NEW speed, NEW n, Pace(mode, speed, n) PROVE HandWhole'
      BY <2>10 DEF Pace, Imports
    <2>11. ASSUME Done PROVE HandWhole'
      BY <2>2, <2>11 DEF Done
    <2> QED BY <2>2, <2>3, <2>4, <2>5, <2>6, <2>7, <2>8, <2>9, <2>10, <2>11 DEF Next
  <1> QED BY <1>1, <1>2, PTL DEF Spec

(* The validator accepts exactly the legal traces, of any length and of any   *)
(* operations (validate.go:65).                                               *)
THEOREM ValidatorIsExact == Spec => []ValidatorExact
  <1>1. HandWhole => ValidatorExact
    <2> SUFFICES ASSUME HandWhole, tool = "hand", phase # "making"
                 PROVE  (phase # "refused") = (/\ \A i \in DOMAIN file.ops : Shaped(file, file.ops[i])
                                               /\ Orderly(file.ops)
                                               /\ Lifecycles(file.ops)
                                               /\ ~params.truncated)
      BY DEF ValidatorExact
    <2>1. /\ streams \in Seq(HandOps) /\ streams # <<>> /\ file = HandFile(streams)
          /\ params \in [version : 1..2, truncated : BOOLEAN]
          /\ phase = "refused" <=> Errors(file) # {}
      BY DEF HandWhole
    <2>2. file.ops = streams
      BY <2>1 DEF HandFile
    <2>3. Errors(file) = {} <=> /\ \A i \in DOMAIN streams : Shaped(file, streams[i])
                                /\ Orderly(streams)
                                /\ Lifecycles(streams)
                                /\ ~params.truncated
      BY <2>1, HandAccepted
    <2> QED BY <2>1, <2>2, <2>3
  <1> QED BY <1>1, HandInvariant, PTL

-----------------------------------------------------------------------------
(* Times of day.  A number of days and a time of day make a time.             *)
LEMMA DaysAndTime ==
  ASSUME NEW day \in Nat \ {0}, NEW t \in Int
  PROVE  /\ t \div day \in Int /\ (t % day) \in 0..(day - 1)
         /\ t = (t \div day) * day + (t % day)
  OBVIOUS

(* RolledOver on two numbers. *)
PutBack(abs, prev, day) == IF abs < prev - day \div 2 THEN abs + day ELSE abs

(* Between two lines less than half a day apart there is one midnight, or     *)
(* none; the one that is there makes the time of day fall by more than half a *)
(* day, and nothing else does, unless the clock steps back over it.           *)
LEMMA OneMidnight ==
  ASSUME NEW day \in Nat \ {0}, NEW a \in Int, NEW b \in Int, NEW k \in Int,
         2 * (b - a) < day, 2 * (a - b) < day, ~(b \div day < a \div day)
  PROVE  PutBack((b % day) + (k + a - (a % day)), k + a, day) = k + b
  <1> DEFINE qa == a \div day
             qb == b \div day
             ra == (a % day)
             rb == (b % day)
             half == day \div 2
             abs == rb + (k + a - ra)
  <1>1. qa \in Int /\ ra \in 0..(day - 1) /\ a = qa * day + ra
    BY DaysAndTime
  <1>2. qb \in Int /\ rb \in 0..(day - 1) /\ b = qb * day + rb
    BY DaysAndTime
  <1>3. half \in Int /\ 2 * half <= day /\ day <= 2 * half + 1
    OBVIOUS
  <1>4. ~(qb < qa)
    OBVIOUS
  <1> HIDE DEF qa, qb, ra, rb, half
  <1>5. CASE qb = qa
    <2>1. b - a = rb - ra
      BY <1>1, <1>2, <1>5
    <2>2. abs = k + b /\ ~(abs < (k + a) - half)
      BY <1>1, <1>2, <1>3, <2>1
    <2> QED BY <2>2 DEF half, ra, rb, PutBack
  <1>6. CASE qb = qa + 1
    <2>1. qb * day = qa * day + day
      BY <1>1, <1>6
    <2>2. qa * day \in Int
      BY <1>1
    <2>3. b - a = rb - ra + day
      BY <1>1, <1>2, <2>1, <2>2
    <2>4. abs + day = k + b /\ abs < (k + a) - half
      BY <1>1, <1>2, <1>3, <2>3
    <2> QED BY <2>4 DEF half, ra, rb, PutBack
  <1>7. CASE qb >= qa + 2
    <2>1. (qb - qa - 2) * day \in Nat
      BY <1>1, <1>2, <1>7
    <2>2. (qb - qa - 2) * day = qb * day - qa * day - 2 * day
      BY <1>1, <1>2
    <2>3. qa * day \in Int /\ qb * day \in Int
      BY <1>1, <1>2
    <2> QED BY <1>1, <1>2, <2>1, <2>2, <2>3
  <1> QED BY <1>1, <1>2, <1>4, <1>5, <1>6, <1>7

(* A line of an import, as wall remembers it.                                *)
Stamped == [s : Ranks, at : Int, t : Int, abs : Int, dur : Nat]

(* The parser's memory is the last line's: the time it was put at, and what    *)
(* was added to its time of day; and the line was stamped less than a step     *)
(* back of the clock ago.                                                     *)
ClockInv ==
  /\ wall \in Seq(Stamped) /\ clock.now \in Int
  /\ wall = <<>> => clock.prev = None /\ clock.offset = 0
  /\ wall # <<>> =>
       LET last == wall[Len(wall)]
       IN  /\ clock.prev = last.abs
           /\ last.t \in (clock.now - Back)..clock.now
           /\ tool = "strace" => clock.offset = last.abs - (last.t % Day)
           /\ tool = "dftracer" => last.abs = last.t

(* A line keeps the clock's memory, and is put back like those before it. *)
LEMMA LineKeepsClock ==
  ASSUME ClockInv, RolloverFaithful,
         NEW s \in Ranks, NEW step \in Steps, NEW back \in {0, Back}, NEW dur \in Durs,
         Line(s, step, back, dur)
  PROVE  ClockInv' /\ RolloverFaithful'
  <1> DEFINE n    == Len(wall)
             at   == clock.now + step
             seen == at - back
             abs  == IF tool = "strace" THEN RolledOver(seen % Day) ELSE seen
             new  == [s |-> s, at |-> at, t |-> seen, abs |-> abs, dur |-> dur]
             last == wall[n]
  <1>1. /\ Day \in Nat \ {0} /\ Back \in Nat /\ step \in Nat /\ back \in 0..Back /\ dur \in Nat
        /\ 2 * (step + Back) < Day
    BY ToolsAssumption
  <1>2. /\ wall \in Seq(Stamped) /\ clock.now \in Int /\ n \in Nat
        /\ None \notin Int
    BY HandAssumption DEF ClockInv
  <1>3. /\ wall' = Append(wall, new) /\ clock'.now = at /\ clock'.prev = abs
        /\ clock'.offset = (IF tool = "strace" THEN abs - (seen % Day) ELSE 0)
        /\ tool' = tool /\ tool \in {"strace", "dftracer"}
    BY DEF Line, Unmade, Imports
  <1>4. at \in Int /\ seen \in Int /\ seen \in (at - Back)..at
    BY <1>1, <1>2
  <1>5. n = 0 => abs \in Int
    <2>1. n = 0 => clock.prev = None /\ clock.offset = 0
      BY <1>2 DEF ClockInv
    <2>2. (seen % Day) \in Int
      BY <1>1, <1>4, DaysAndTime
    <2> HIDE DEF seen
    <2> QED BY <1>4, <2>1, <2>2 DEF RolledOver
  <1>6. ASSUME n # 0
        PROVE  /\ last \in Stamped /\ last.t \in Int /\ last.abs \in Int
               /\ clock.prev = last.abs /\ last.t \in (clock.now - Back)..clock.now
               /\ tool = "strace" => clock.offset = last.abs - (last.t % Day)
               /\ tool = "dftracer" => last.abs = last.t
    <2>1. n \in 1..n /\ wall # <<>>
      BY <1>2, <1>6
    <2>2. last \in Stamped
      BY <1>2, <2>1
    <2>3. last.t \in Int /\ last.abs \in Int
      BY <2>2 DEF Stamped
    <2> QED BY <2>1, <2>2, <2>3 DEF ClockInv
  <1> HIDE DEF last
  <1>7. ASSUME n # 0 PROVE 2 * (seen - last.t) < Day /\ 2 * (last.t - seen) < Day
    <2> DEFINE prev == last.t
               now  == clock.now
    <2>1. prev \in Int /\ now \in Int /\ prev >= now - Back /\ prev <= now
      BY <1>1, <1>2, <1>6, <1>7
    <2>2. seen >= now - Back /\ seen <= now + step
      BY <1>1, <1>2
    <2> HIDE DEF seen, prev, now
    <2>3. 2 * (seen - prev) < Day /\ 2 * (prev - seen) < Day
      BY <1>1, <1>4, <2>1, <2>2
    <2> QED BY <2>3 DEF prev
  <1>7a. (seen % Day) \in Int /\ (n # 0 => (last.t % Day) \in Int)
    <2>1. \A x \in Int : (x % Day) \in Int
      BY <1>1, DaysAndTime
    <2> HIDE DEF seen
    <2> QED BY <1>4, <1>6, <2>1
  <1>8. n # 0 => abs \in Int
    <2>1. ASSUME n # 0, tool = "strace" PROVE abs \in Int
      <3> HIDE DEF seen
      <3> QED BY <1>1, <1>6, <1>7a, <2>1 DEF RolledOver
    <2> QED BY <1>4, <2>1
  <1>9. n # 0 /\ ~(seen \div Day < last.t \div Day) => abs - seen = last.abs - last.t
    <2>1. ASSUME n # 0, tool = "strace", ~(seen \div Day < last.t \div Day)
          PROVE  abs - seen = last.abs - last.t
      <3> DEFINE k == last.abs - last.t
                 sum == (seen % Day) + (k + last.t - (last.t % Day))
      <3>1. PutBack(sum, k + last.t, Day) = k + seen
        <4> DEFINE prev == last.t
        <4>1. prev \in Int /\ k \in Int /\ seen \in Int
          BY <1>4, <1>6, <2>1
        <4>2. 2 * (seen - prev) < Day /\ 2 * (prev - seen) < Day /\ ~(seen \div Day < prev \div Day)
          BY <1>7, <2>1
        <4> HIDE DEF k, seen, prev
        <4>3. PutBack((seen % Day) + (k + prev - (prev % Day)), k + prev, Day) = k + seen
          BY <1>1, <4>1, <4>2, OneMidnight, Zenon
        <4> QED BY <4>3, Zenon DEF prev
      <3>2. (last.t % Day) \in Int /\ (seen % Day) \in Int
        BY <1>7a, <2>1
      <3>3. k + last.t = last.abs
        BY <1>6, <2>1
      <3>4. clock.prev = k + last.t /\ clock.prev # None /\ sum = (seen % Day) + clock.offset
        BY <1>2, <1>6, <2>1, <3>2, <3>3
      <3>5. abs = k + seen
        <4> HIDE DEF k, seen, sum
        <4> QED BY <2>1, <3>1, <3>4 DEF RolledOver, PutBack
      <3> HIDE DEF seen, abs
      <3> QED BY <1>4, <1>6, <2>1, <3>5
    <2>2. ASSUME n # 0, tool = "dftracer" PROVE abs - seen = last.abs - last.t
      BY <1>3, <1>4, <1>6, <2>2
    <2> QED BY <1>3, <2>1, <2>2
  <1> HIDE DEF at, seen, abs
  <1>10. new \in Stamped
    BY <1>1, <1>4, <1>5, <1>8 DEF Stamped
  <1>11. /\ wall' \in Seq(Stamped) /\ Len(wall') = n + 1 /\ wall'[n + 1] = new
         /\ \A i \in 1..n : wall'[i] = wall[i]
    <2> HIDE DEF new
    <2> QED BY <1>2, <1>3, <1>10
  <1>12. ClockInv'
    <2>1. tool = "dftracer" => abs = seen
      BY DEF abs
    <2> QED BY <1>2, <1>3, <1>4, <1>11, <2>1 DEF ClockInv
  <1>13. ASSUME ~Crossed'
         PROVE  \A i, j \in 1..(n + 1) : wall'[i].abs - wall'[i].t = wall'[j].abs - wall'[j].t
    <2>1. \A i \in 1..n : ~(wall'[i + 1].t < wall'[i].t /\ wall'[i + 1].t \div Day < wall'[i].t \div Day)
      BY <1>2, <1>11, <1>13 DEF Crossed
    <2>2. ~Crossed
      <3>1. \A i \in 1..(n - 1) : i \in 1..n /\ i + 1 \in 1..n
        BY <1>2
      <3> QED BY <1>11, <2>1, <3>1 DEF Crossed
    <2>3. \A i, j \in 1..n : wall[i].abs - wall[i].t = wall[j].abs - wall[j].t
      BY <1>2, <2>2 DEF RolloverFaithful
    <2>4. n # 0 => n \in 1..n /\ last = wall[n]
      BY <1>2 DEF last
    <2>5. n # 0 => abs - seen = last.abs - last.t
      <3>1. ASSUME n # 0, seen \div Day < last.t \div Day PROVE FALSE
        <4>1. ~(seen < last.t)
          BY <1>11, <2>1, <2>4, <3>1
        <4> DEFINE p == seen \div Day
                   q == last.t \div Day
                   x == seen % Day
                   y == last.t % Day
        <4>2. /\ seen = p * Day + x /\ p \in Int /\ x \in 0..(Day - 1)
              /\ last.t = q * Day + y /\ q \in Int /\ y \in 0..(Day - 1)
          BY <1>1, <1>4, <1>6, <3>1, DaysAndTime
        <4>3. p < q
          BY <3>1
        <4> HIDE DEF p, q, x, y
        <4>4. (q - p - 1) * Day \in Nat /\ (q - p - 1) * Day = q * Day - p * Day - Day
          BY <1>1, <4>2, <4>3
        <4>5. p * Day \in Int /\ q * Day \in Int
          BY <1>1, <4>2
        <4> QED BY <1>1, <4>1, <4>2, <4>4, <4>5
      <3> QED BY <1>9, <3>1
    <2>6. 1..(n + 1) = (1..n) \cup {n + 1}
      BY <1>2
    <2> QED BY <1>11, <2>3, <2>4, <2>5, <2>6
  <1> QED BY <1>2, <1>11, <1>12, <1>13 DEF RolloverFaithful

(* ... as are all of them.                                                    *)
LEMMA ClockInvariant == Spec => [](ClockInv /\ RolloverFaithful)
  <1>1. Init => ClockInv /\ RolloverFaithful
    BY ToolsAssumption DEF Init, ClockInv, RolloverFaithful
  <1>2. ClockInv /\ RolloverFaithful /\ [Next]_vars => ClockInv' /\ RolloverFaithful'
    <2> SUFFICES ASSUME ClockInv, RolloverFaithful, [Next]_vars PROVE ClockInv' /\ RolloverFaithful'
      OBVIOUS
    <2>1. ASSUME UNCHANGED <<tool, clock, wall>> PROVE ClockInv' /\ RolloverFaithful'
      BY <2>1 DEF ClockInv, RolloverFaithful, Crossed
    <2>2. ASSUME NEW s \in Ranks, NEW step \in Steps, NEW back \in {0, Back}, NEW dur \in Durs,
                 Line(s, step, back, dur)
          PROVE  ClockInv' /\ RolloverFaithful'
      BY <2>2, LineKeepsClock
    <2>3. ASSUME ImportEnds \/ Checkpoint \/ Training \/ Check PROVE UNCHANGED <<tool, clock, wall>>
      BY <2>3 DEF ImportEnds, Checkpoint, Training, Check, Unmade
    <2>4. ASSUME NEW shard, NEW draw, NEW order, Shards(shard, draw, order)
          PROVE  UNCHANGED <<tool, clock, wall>>
      BY <2>4 DEF Shards, Unmade
    <2>5. ASSUME NEW op, Type(op) PROVE UNCHANGED <<tool, clock, wall>>
      BY <2>5 DEF Type, Unmade
    <2>6. ASSUME NEW b, Transform(b) PROVE UNCHANGED <<tool, clock, wall>>
      BY <2>6 DEF Transform
    <2>7. ASSUME NEW mode, NEW speed, NEW n, Pace(mode, speed, n) PROVE UNCHANGED <<tool, clock, wall>>
      BY <2>7 DEF Pace
    <2>8. ASSUME Done \/ UNCHANGED vars PROVE UNCHANGED <<tool, clock, wall>>
      BY <2>8 DEF Done, vars
    <2> QED BY <2>1, <2>2, <2>3, <2>4, <2>5, <2>6, <2>7, <2>8 DEF Next
  <1> QED BY <1>1, <1>2, PTL DEF Spec

(* Times of day are put back on one continuous clock, for any length of the    *)
(* day, any trace and any pauses of less than half a day: all lines are off by *)
(* the same, however many midnights there were (strace/parse.go:674).          *)
THEOREM RolloverIsFaithful == Spec => []RolloverFaithful
  BY ClockInvariant, PTL

-----------------------------------------------------------------------------
(* What is selected from a sequence, and what is merged from several.         *)

(* The k-th position selected is the k-th in order.                           *)
LEMMA SelectedInOrder ==
  ASSUME NEW P, IsFiniteSet(P), NEW bs, Increasing(bs, P), NEW seq
  PROVE  At(seq, P) = [k \in 1..Cardinality(P) |-> seq[bs[k]]]
  <1>1. ASSUME NEW k \in 1..Cardinality(P) PROVE NthIn(P, k) = bs[k]
    <2>1. bs[k] \in P /\ Cardinality({j \in P : j <= bs[k]}) = k
      BY UptoPlace DEF Increasing
    <2>2. ASSUME NEW i \in P, Cardinality({j \in P : j <= i}) = k PROVE i = bs[k]
      <3>1. PICK m \in 1..Cardinality(P) : bs[m] = i
        BY SortedIsAll
      <3>2. Cardinality({j \in P : j <= bs[m]}) = m
        BY UptoPlace
      <3> QED BY <2>2, <3>1, <3>2
    <2> QED BY <2>1, <2>2, Zenon DEF NthIn
  <1> QED BY <1>1, Zenon DEF At

(* Where the records of stream s are in a sequence. *)
Positions(seq, s) == {i \in DOMAIN seq : seq[i].s = s}

(* Those positions can be numbered in ascending order. *)
LEMMA PositionsSorted ==
  ASSUME NEW X, NEW seq \in Seq(X), NEW s
  PROVE  /\ IsFiniteSet(Positions(seq, s)) /\ Positions(seq, s) \in SUBSET (1..Len(seq))
         /\ Cardinality(Positions(seq, s)) \in Nat
         /\ \E bs : Increasing(bs, Positions(seq, s))
  <1>1. DOMAIN seq = 1..Len(seq) /\ Len(seq) \in Nat /\ Positions(seq, s) \in SUBSET (1..Len(seq))
    BY DEF Positions
  <1>2. IsFiniteSet(1..Len(seq))
    BY <1>1, FS_Interval
  <1>3. IsFiniteSet(Positions(seq, s)) /\ Cardinality(Positions(seq, s)) \in Nat
    BY <1>1, <1>2, FS_Subset, FS_CardinalityType
  <1>4. Positions(seq, s) \subseteq Int
    BY <1>1
  <1>5. \E bs : Increasing(bs, Positions(seq, s))
    BY <1>3, <1>4, CanBeSorted
  <1> QED BY <1>1, <1>3, <1>5

(* One more element is one more of its stream, and none of another.           *)
LEMMA StreamGrows ==
  ASSUME NEW X, NEW seq \in Seq(X), NEW s
  PROVE  /\ OfStream(seq, s) \in Seq(X)
         /\ \A x \in X : OfStream(Append(seq, x), s) =
                           IF x.s = s THEN Append(OfStream(seq, s), x) ELSE OfStream(seq, s)
  <1> DEFINE N == Len(seq)
             P == Positions(seq, s)
             n == Cardinality(P)
  <1>1. /\ N \in Nat /\ DOMAIN seq = 1..N /\ IsFiniteSet(P) /\ P \in SUBSET (1..N) /\ n \in Nat
    BY PositionsSorted
  <1>2. PICK bs : Increasing(bs, P)
    BY PositionsSorted
  <1>3. bs \in [1..n -> P] /\ \A i, j \in 1..n : i < j => bs[i] < bs[j]
    BY <1>2 DEF Increasing
  <1>3a. \A x \in P : \E i \in 1..n : bs[i] = x
    BY <1>1, <1>2, SortedIsAll
  <1>4. OfStream(seq, s) = [k \in 1..n |-> seq[bs[k]]]
    <2>1. OfStream(seq, s) = At(seq, P)
      BY DEF OfStream, Positions
    <2>2. At(seq, P) = [k \in 1..n |-> seq[bs[k]]]
      BY <1>1, <1>2, SelectedInOrder
    <2> QED BY <2>1, <2>2
  <1>5. P = {i \in 1..N : seq[i].s = s} /\ \A i \in 1..N : seq[i] \in X
    BY <1>1 DEF Positions
  <1> HIDE DEF P, n, N
  <1>6. \A k \in 1..n : bs[k] \in 1..N /\ seq[bs[k]] \in X
    <2>1. \A k \in 1..n : bs[k] \in P
      BY <1>3
    <2>2. \A i \in P : i \in 1..N
      BY <1>1
    <2> QED BY <1>5, <2>1, <2>2
  <1>7. OfStream(seq, s) \in Seq(X) /\ Len(OfStream(seq, s)) = n
    BY <1>1, <1>4, <1>6
  <1>8. ASSUME NEW x \in X PROVE OfStream(Append(seq, x), s) = IF x.s = s THEN Append(OfStream(seq, s), x) ELSE OfStream(seq, s)
    <2> DEFINE more == Append(seq, x)
               Q    == Positions(more, s)
    <2>1. more \in Seq(X) /\ DOMAIN more = 1..(N + 1) /\ more[N + 1] = x /\ \A i \in 1..N : more[i] = seq[i]
      BY <1>1 DEF N
    <2>2. Q = {i \in 1..(N + 1) : more[i].s = s}
      BY <2>1 DEF Positions
    <2>3. 1..(N + 1) = (1..N) \cup {N + 1} /\ N + 1 \notin 1..N
      BY <1>1
    <2> HIDE DEF more, Q
    <2>4. Q = P \cup (IF x.s = s THEN {N + 1} ELSE {})
      BY <1>5, <2>1, <2>2, <2>3
    <2>5. CASE x.s # s
      <3>1. Q = P
        BY <2>4, <2>5
      <3>2. OfStream(more, s) = [k \in 1..n |-> more[bs[k]]]
        <4>1. OfStream(more, s) = At(more, P)
          BY <3>1 DEF OfStream, Positions, Q
        <4>2. At(more, P) = [k \in 1..n |-> more[bs[k]]]
          BY <1>1, <1>2, SelectedInOrder DEF n
        <4> QED BY <4>1, <4>2
      <3>3. \A k \in 1..n : more[bs[k]] = seq[bs[k]]
        BY <1>6, <2>1
      <3> QED BY <1>4, <2>5, <3>2, <3>3 DEF more
    <2>6. CASE x.s = s
      <3> DEFINE cs == [k \in 1..(n + 1) |-> IF k = n + 1 THEN N + 1 ELSE bs[k]]
      <3>1. Q = P \cup {N + 1}
        BY <2>4, <2>6
      <3>2. \A k \in 1..(n + 1) : \/ k = n + 1 /\ cs[k] = N + 1
                                  \/ k \in 1..n /\ cs[k] = bs[k] /\ bs[k] \in P /\ bs[k] \in 1..N
        <4> SUFFICES ASSUME NEW k \in 1..(n + 1)
                     PROVE  \/ k = n + 1 /\ cs[k] = N + 1
                            \/ k \in 1..n /\ cs[k] = bs[k] /\ bs[k] \in P /\ bs[k] \in 1..N
          OBVIOUS
        <4>1. CASE k = n + 1
          BY <4>1
        <4>2. CASE k # n + 1
          <5>1. k \in 1..n
            BY <1>1, <4>2
          <5>2. bs[k] \in P
            BY <1>3, <5>1
          <5> QED BY <1>6, <4>2, <5>1, <5>2
        <4> QED BY <4>1, <4>2
      <3>3. cs \in [1..(n + 1) -> Q]
        <4>1. \A k \in 1..(n + 1) : cs[k] \in Q
          BY <3>1, <3>2
        <4> QED BY <4>1
      <3>4. n + 1 \in 1..(n + 1) /\ \A k \in 1..n : k \in 1..(n + 1) /\ k # n + 1
        BY <1>1
      <3>5. cs[n + 1] = N + 1 /\ \A k \in 1..n : cs[k] = bs[k]
        BY <3>4
      <3> HIDE DEF cs
      <3>6. ASSUME NEW i \in 1..(n + 1), NEW j \in 1..(n + 1), i < j PROVE cs[i] < cs[j]
        <4>1. i \in 1..n
          BY <1>1, <3>6
        <4>2. CASE j = n + 1
          BY <1>1, <3>2, <3>5, <4>1, <4>2
        <4>3. CASE j # n + 1
          <5>1. j \in 1..n
            BY <1>1, <4>3
          <5> QED BY <1>3, <3>5, <3>6, <4>1, <5>1
        <4> QED BY <4>2, <4>3
      <3>7. \A y \in Q : \E k \in 1..(n + 1) : cs[k] = y
        <4> SUFFICES ASSUME NEW y \in Q PROVE \E k \in 1..(n + 1) : cs[k] = y
          OBVIOUS
        <4>1. CASE y = N + 1
          BY <3>4, <3>5, <4>1
        <4>2. CASE y \in P
          <5>1. PICK k \in 1..n : bs[k] = y
            BY <1>3a, <4>2
          <5> QED BY <3>4, <3>5, <5>1
        <4> QED BY <3>1, <4>1, <4>2
      <3>8. Q \subseteq Int /\ n + 1 \in Nat
        BY <1>1, <3>1
      <3>9. IsFiniteSet(Q) /\ Cardinality(Q) = n + 1 /\ Increasing(cs, Q)
        BY <3>3, <3>6, <3>7, <3>8, Enumerated
      <3>10. OfStream(more, s) = [k \in 1..(n + 1) |-> more[cs[k]]]
        <4>1. OfStream(more, s) = [k \in 1..Cardinality(Q) |-> more[cs[k]]]
          <5>1. OfStream(more, s) = At(more, Q)
            BY DEF OfStream, Positions, Q
          <5>2. At(more, Q) = [k \in 1..Cardinality(Q) |-> more[cs[k]]]
            BY <3>9, SelectedInOrder
          <5> QED BY <5>1, <5>2
        <4> QED BY <3>9, <4>1
      <3>11. Append(OfStream(seq, s), x) = [k \in 1..(n + 1) |-> IF k = n + 1 THEN x ELSE seq[bs[k]]]
        <4>1. Append(OfStream(seq, s), x) = [k \in 1..(n + 1) |-> IF k = n + 1 THEN x ELSE OfStream(seq, s)[k]]
          <5> DEFINE o == OfStream(seq, s)
          <5>1. o \in Seq(X) /\ Len(o) = n
            BY <1>7
          <5> HIDE DEF o
          <5>2. /\ Append(o, x) \in Seq(X) /\ Len(Append(o, x)) = n + 1
                /\ Append(o, x)[n + 1] = x
                /\ \A k \in 1..n : Append(o, x)[k] = o[k]
            BY <1>1, <5>1
          <5>3. \A k \in 1..(n + 1) : Append(o, x)[k] = IF k = n + 1 THEN x ELSE o[k]
            BY <1>1, <5>2
          <5> DEFINE more1 == Append(o, x)
          <5> HIDE DEF more1
          <5>4. more1 \in Seq(X) /\ Len(more1) = n + 1
            BY <5>2 DEF more1
          <5>5. more1 = [k \in 1..(n + 1) |-> more1[k]]
            BY <5>4
          <5>6. Append(o, x) = [k \in 1..(n + 1) |-> IF k = n + 1 THEN x ELSE o[k]]
            BY <5>3, <5>5 DEF more1
          <5> QED BY <5>6 DEF o
        <4>2. \A k \in 1..(n + 1) : k # n + 1 => k \in 1..n
          BY <1>1
        <4> QED BY <1>4, <4>1, <4>2
      <3>12. \A k \in 1..(n + 1) : more[cs[k]] = IF k = n + 1 THEN x ELSE seq[bs[k]]
        <4> SUFFICES ASSUME NEW k \in 1..(n + 1)
                     PROVE  more[cs[k]] = IF k = n + 1 THEN x ELSE seq[bs[k]]
          OBVIOUS
        <4>1. CASE k = n + 1
          BY <2>1, <3>5, <4>1
        <4>2. CASE k # n + 1
          <5>1. k \in 1..n
            BY <1>1, <4>2
          <5>2. cs[k] = bs[k] /\ bs[k] \in 1..N
            BY <1>6, <3>5, <5>1
          <5> QED BY <2>1, <4>2, <5>2
        <4> QED BY <4>1, <4>2
      <3> QED BY <2>6, <3>10, <3>11, <3>12 DEF more
    <2> QED BY <2>5, <2>6
  <1> QED BY <1>7, <1>8

-----------------------------------------------------------------------------
(* The streams of an import: operations of X, each in the stream it belongs   *)
(* to, their times never decreasing.                                          *)
Streams(perStream, X) ==
  /\ IsFiniteSet(DOMAIN perStream) /\ DOMAIN perStream \subseteq Int
  /\ \A o \in X : DOMAIN o = DOMAIN BlankOp /\ o.t \in Int
  /\ \A s \in DOMAIN perStream :
       /\ perStream[s] \in Seq(X)
       /\ \A i \in 1..Len(perStream[s]) : perStream[s][i].s = s
       /\ \A i, j \in 1..Len(perStream[s]) : i <= j => perStream[s][i].t <= perStream[s][j].t

(* Where the i-th operation of stream s is. *)
Place(perStream, s, i) == [t |-> perStream[s][i].t, s |-> s, idx |-> i]

(* Every place the merge sorts is that of one operation of one stream. *)
LEMMA PlacesOfStreams ==
  ASSUME NEW X, NEW perStream, Streams(perStream, X)
  PROVE  /\ \A a \in Places(perStream) : /\ a.s \in DOMAIN perStream /\ a.idx \in 1..Len(perStream[a.s])
                                         /\ a = Place(perStream, a.s, a.idx)
                                         /\ a.t \in Int /\ a.s \in Int /\ a.idx \in Int
         /\ \A s \in DOMAIN perStream : \A i \in 1..Len(perStream[s]) :
              Place(perStream, s, i) \in Places(perStream)
         /\ IsFiniteSet(Places(perStream))
  <1> DEFINE D    == DOMAIN perStream
             R(s) == {Place(perStream, s, i) : i \in 1..Len(perStream[s])}
             all  == {R(s) : s \in D}
  <1>1. \A s \in D : /\ DOMAIN perStream[s] = 1..Len(perStream[s]) /\ Len(perStream[s]) \in Nat /\ s \in Int
                     /\ \A i \in 1..Len(perStream[s]) : perStream[s][i].t \in Int
    <2> SUFFICES ASSUME NEW s \in D
                 PROVE  /\ DOMAIN perStream[s] = 1..Len(perStream[s]) /\ Len(perStream[s]) \in Nat /\ s \in Int
                        /\ \A i \in 1..Len(perStream[s]) : perStream[s][i].t \in Int
      OBVIOUS
    <2>1. perStream[s] \in Seq(X) /\ s \in Int
      BY DEF Streams
    <2>2. \A i \in 1..Len(perStream[s]) : perStream[s][i] \in X
      BY <2>1
    <2> QED BY <2>1, <2>2 DEF Streams
  <1>2. Places(perStream) = UNION all
    BY <1>1 DEF Places, Place
  <1>3. ASSUME NEW a \in Places(perStream)
        PROVE  /\ a.s \in D /\ a.idx \in 1..Len(perStream[a.s]) /\ a = Place(perStream, a.s, a.idx)
               /\ a.t \in Int /\ a.s \in Int /\ a.idx \in Int
    <2>1. PICK s \in D : a \in R(s)
      BY <1>2
    <2>2. PICK i \in 1..Len(perStream[s]) : a = Place(perStream, s, i)
      BY <2>1
    <2>3. a.s = s /\ a.idx = i /\ a.t = perStream[s][i].t
      BY <2>2 DEF Place
    <2> QED BY <1>1, <2>2, <2>3
  <1>4. ASSUME NEW s \in D, NEW i \in 1..Len(perStream[s]) PROVE Place(perStream, s, i) \in Places(perStream)
    <2>1. Place(perStream, s, i) \in R(s) /\ R(s) \in all
      OBVIOUS
    <2> QED BY <1>2, <2>1
  <1>5. \A s \in D : IsFiniteSet(R(s))
    <2> SUFFICES ASSUME NEW s \in D PROVE IsFiniteSet(R(s))
      OBVIOUS
    <2> DEFINE r   == R(s)
               n   == Len(perStream[s])
               at  == [i \in 1..n |-> Place(perStream, s, i)]
    <2>1. IsFiniteSet(1..n)
      BY <1>1, FS_Interval
    <2>2. at \in Surjection(1..n, r)
      BY DEF Surjection
    <2> HIDE DEF r, n, at
    <2>3. IsFiniteSet(r)
      BY <2>1, <2>2, FS_Surjection
    <2> QED BY <2>3 DEF r
  <1>6. IsFiniteSet(all)
    <2> DEFINE of == [s \in D |-> R(s)]
    <2>1. IsFiniteSet(D)
      BY DEF Streams
    <2>2. of \in Surjection(D, all)
      BY DEF Surjection
    <2> HIDE DEF of, D, all
    <2> QED BY <2>1, <2>2, FS_Surjection
  <1>7. IsFiniteSet(UNION all)
    <2>1. \A T \in all : IsFiniteSet(T)
      BY <1>5
    <2> HIDE DEF all
    <2> QED BY <1>6, <2>1, FS_UNION
  <1> QED BY <1>2, <1>3, <1>4, <1>7

(* The order of a merge: every place once, each before those after it.        *)
Merging(order, places) ==
  /\ order \in [1..Cardinality(places) -> places]
  /\ \A n, m \in 1..Cardinality(places) : n < m => Before(order[n], order[m])
  /\ \A a \in places : \E n \in 1..Cardinality(places) : order[n] = a

(* The merge visits every place once, in the order of the sort, and numbers *)
(* the operations as it writes them (TraceBuild's InOrder).                 *)
LEMMA MergesInOrder ==
  ASSUME NEW X, NEW perStream, Streams(perStream, X)
  PROVE  \E order :
           /\ Merging(order, Places(perStream))
           /\ InOrder(perStream) = [n \in 1..Cardinality(Places(perStream)) |->
                                      [perStream[order[n].s][order[n].idx] EXCEPT !.op_id = n - 1]]
  <1> DEFINE S     == Places(perStream)
             N     == Cardinality(S)
             order == [n \in 1..N |-> Ranked(S, n - 1)]
             lt    == {p \in S \X S : Before(p[1], p[2])}
             nth(a) == Cardinality(Earlier(lt, S, a))
  <1>1. /\ IsFiniteSet(S) /\ N \in Nat
        /\ \A a \in S : a = Place(perStream, a.s, a.idx) /\ a.t \in Int /\ a.s \in Int /\ a.idx \in Int
    BY PlacesOfStreams, FS_CardinalityType
  <1>2. \A a, b \in S : <<a, b>> \in lt <=> Before(a, b)
    OBVIOUS
  <1>3. \A a, b \in S : a # b => a.t # b.t \/ a.s # b.s \/ a.idx # b.idx
    BY <1>1
  <1> HIDE DEF S, N, lt
  <1>4. StrictOrder(lt, S)
    <2>1. \A a \in S : ~Before(a, a)
      BY <1>1 DEF Before
    <2>2. \A a, b \in S : a # b => Before(a, b) \/ Before(b, a)
      BY <1>1, <1>3 DEF Before
    <2>3. \A a, b, c \in S : Before(a, b) /\ Before(b, c) => Before(a, c)
      BY <1>1 DEF Before
    <2> QED BY <1>2, <2>1, <2>2, <2>3 DEF StrictOrder
  <1>5. /\ \A a \in S : nth(a) \in 0..(N - 1)
        /\ \A a, b \in S : <<a, b>> \in lt => nth(a) < nth(b)
        /\ \A n \in 0..(N - 1) : \E a \in S : nth(a) = n
    BY <1>1, <1>4, PlacesInOrder DEF N
  <1>6. \A a \in S : Earlier(lt, S, a) = {b \in S : Before(b, a)}
    BY <1>2 DEF Earlier
  <1>7. \A n : Ranked(S, n) = CHOOSE a \in S : nth(a) = n
    BY <1>6 DEF Ranked
  <1> DEFINE place(a) == nth(a)
  <1> HIDE DEF nth
  <1>8. \A a, b \in S : nth(a) = nth(b) => a = b
    <2> SUFFICES ASSUME NEW a \in S, NEW b \in S, nth(a) = nth(b), a # b PROVE FALSE
      OBVIOUS
    <2>1. nth(a) < nth(b) \/ nth(b) < nth(a)
      BY <1>4, <1>5 DEF StrictOrder
    <2>2. nth(a) \in Int /\ nth(b) \in Int
      BY <1>1, <1>5
    <2> QED BY <2>1, <2>2
  <1>9. \A n \in 0..(N - 1) : Ranked(S, n) \in S /\ nth(Ranked(S, n)) = n
    <2> SUFFICES ASSUME NEW n \in 0..(N - 1) PROVE Ranked(S, n) \in S /\ nth(Ranked(S, n)) = n
      OBVIOUS
    <2>1. \E a \in S : nth(a) = n
      BY <1>5
    <2> QED BY <1>7, <2>1, Zenon
  <1>10. \A n \in 1..N : order[n] \in S /\ nth(order[n]) = n - 1
    <2>1. \A n \in 1..N : n - 1 \in 0..(N - 1)
      BY <1>1
    <2> QED BY <1>9, <2>1
  <1>11. order \in [1..N -> S]
    BY <1>10
  <1> HIDE DEF order
  <1>12. ASSUME NEW n \in 1..N, NEW m \in 1..N, n < m PROVE Before(order[n], order[m])
    <2>1. nth(order[n]) = n - 1 /\ nth(order[m]) = m - 1 /\ order[n] \in S /\ order[m] \in S
      BY <1>10
    <2>2. nth(order[n]) < nth(order[m])
      BY <1>12, <2>1
    <2>3. order[n] # order[m]
      BY <1>12, <2>1
    <2>4. ~(<<order[m], order[n]>> \in lt)
      <3>1. <<order[m], order[n]>> \in lt => nth(order[m]) < nth(order[n])
        BY <1>5, <2>1
      <3> QED BY <1>12, <2>1, <3>1
    <2> QED BY <1>2, <1>4, <2>1, <2>3, <2>4 DEF StrictOrder
  <1>13. ASSUME NEW a \in S PROVE \E n \in 1..N : order[n] = a
    <2>1. nth(a) \in 0..(N - 1)
      BY <1>5
    <2>2. nth(a) + 1 \in 1..N /\ (nth(a) + 1) - 1 = nth(a)
      BY <1>1, <2>1
    <2>3. nth(order[nth(a) + 1]) = nth(a) /\ order[nth(a) + 1] \in S
      BY <1>10, <2>2
    <2>4. order[nth(a) + 1] = a
      BY <1>8, <2>3
    <2> QED BY <2>2, <2>4
  <1>14. Merging(order, S)
    BY <1>11, <1>12, <1>13 DEF Merging, N
  <1>15. InOrder(perStream) = [n \in 1..N |-> [perStream[order[n].s][order[n].idx] EXCEPT !.op_id = n - 1]]
    <2>1. DOMAIN order = 1..N
      BY <1>11
    <2>2. InOrder(perStream) = [n \in DOMAIN order |-> [perStream[order[n].s][order[n].idx] EXCEPT !.op_id = n - 1]]
      BY Zenon DEF InOrder, order, S, N
    <2> QED BY <2>1, <2>2
  <1> QED BY <1>14, <1>15 DEF S, N

(* An operation of a merge is that of its place, numbered.                    *)
Numbers(op, perStream, X, a, n) ==
  /\ a.t \in Int /\ a.s \in DOMAIN perStream
  /\ a.idx \in 1..Len(perStream[a.s])
  /\ perStream[a.s][a.idx] \in X
  /\ op = [perStream[a.s][a.idx] EXCEPT !.op_id = n - 1]
  /\ op.t = a.t /\ op.s = a.s /\ op.op_id = n - 1
  /\ \A f \in DOMAIN BlankOp \ {"op_id"} : op[f] = perStream[a.s][a.idx][f]

(* Operation n of a merge is the operation at the n-th place, numbered n - 1. *)
LEMMA MergedAt ==
  ASSUME NEW X, NEW perStream, Streams(perStream, X),
         NEW order, Merging(order, Places(perStream)),
         InOrder(perStream) = [n \in 1..Cardinality(Places(perStream)) |->
                                 [perStream[order[n].s][order[n].idx] EXCEPT !.op_id = n - 1]]
  PROVE  /\ Len(InOrder(perStream)) = Cardinality(Places(perStream))
         /\ \A n \in 1..Cardinality(Places(perStream)) :
              /\ order[n] \in Places(perStream)
              /\ Numbers(InOrder(perStream)[n], perStream, X, order[n], n)
  <1> DEFINE S   == Places(perStream)
             N   == Cardinality(S)
             ops == InOrder(perStream)
  <1>1. N \in Nat /\ \A a \in S : /\ a.s \in DOMAIN perStream /\ a.idx \in 1..Len(perStream[a.s])
                                  /\ a = Place(perStream, a.s, a.idx) /\ a.t \in Int
    BY PlacesOfStreams, FS_CardinalityType
  <1>2. order \in [1..N -> S]
    BY DEF Merging
  <1>3. ops = [n \in 1..N |-> [perStream[order[n].s][order[n].idx] EXCEPT !.op_id = n - 1]]
    OBVIOUS
  <1> HIDE DEF S, N, ops
  <1>4. Len(ops) = N
    BY <1>1, <1>3
  <1>5. ASSUME NEW n \in 1..N
        PROVE  order[n] \in S /\ Numbers(ops[n], perStream, X, order[n], n)
    <2> DEFINE a == order[n]
               o == perStream[a.s][a.idx]
    <2>1. /\ a \in S /\ a.t \in Int /\ a.s \in DOMAIN perStream /\ a.idx \in 1..Len(perStream[a.s])
          /\ a = Place(perStream, a.s, a.idx)
      BY <1>1, <1>2
    <2>2. a.t = o.t
      BY <2>1 DEF Place
    <2>3. perStream[a.s] \in Seq(X) /\ o.s = a.s
      BY <2>1 DEF Streams
    <2>4. o \in X
      BY <2>1, <2>3
    <2>5. DOMAIN o = DOMAIN BlankOp
      BY <2>4 DEF Streams
    <2>6. {"t", "s", "op_id"} \subseteq DOMAIN BlankOp
      BY DEF BlankOp
    <2>7. ops[n] = [o EXCEPT !.op_id = n - 1]
      BY <1>3
    <2> HIDE DEF o, a
    <2>8. ops[n].t = a.t /\ ops[n].s = a.s /\ ops[n].op_id = n - 1
      BY <2>2, <2>3, <2>5, <2>6, <2>7
    <2>9. \A f \in DOMAIN BlankOp \ {"op_id"} : ops[n][f] = o[f]
      BY <2>5, <2>7
    <2> QED BY <2>1, <2>4, <2>7, <2>8, <2>9 DEF o, a, Numbers
  <1> QED BY <1>4, <1>5 DEF S, N, ops

(* What is kept of a stream, and of all of them, when they are merged.        *)
Keeps(at, ops, perStream, s) ==
  /\ at \in [1..Len(perStream[s]) -> 1..Len(ops)]
  /\ \A i, j \in 1..Len(perStream[s]) : i < j => at[i] < at[j]
  /\ \A i \in 1..Len(perStream[s]) : ops[at[i]] = [perStream[s][i] EXCEPT !.op_id = at[i] - 1]
  /\ OfStream(ops, s) = [i \in 1..Len(perStream[s]) |-> ops[at[i]]]
  /\ \A n \in 1..Len(ops) : ops[n].s = s => \E i \in 1..Len(perStream[s]) : at[i] = n

(* A merge of streams: what they hold and nothing else, in order of time,   *)
(* with every stream in its own order.                                      *)
Interleaves(ops, perStream) ==
  /\ \A n \in 1..Len(ops) : \E s \in DOMAIN perStream : \E i \in 1..Len(perStream[s]) :
       ops[n] = [perStream[s][i] EXCEPT !.op_id = n - 1]
  /\ \A n, m \in 1..Len(ops) : n <= m => ops[n].t <= ops[m].t
  /\ \A s \in DOMAIN perStream : \E at : Keeps(at, ops, perStream, s)

(* What the builder writes is a merge of its streams. *)
LEMMA MergeInterleaves ==
  ASSUME NEW X, NEW perStream, Streams(perStream, X)
  PROVE  Interleaves(InOrder(perStream), perStream) /\ Len(InOrder(perStream)) \in Nat
         /\ DOMAIN InOrder(perStream) = 1..Len(InOrder(perStream))
  <1> DEFINE S   == Places(perStream)
             N   == Cardinality(S)
             ops == InOrder(perStream)
  <1>1. PICK order : /\ Merging(order, S)
                     /\ ops = [n \in 1..N |-> [perStream[order[n].s][order[n].idx] EXCEPT !.op_id = n - 1]]
    BY MergesInOrder
  <1>2. N \in Nat
    BY PlacesOfStreams, FS_CardinalityType
  <1>3a. Len(ops) = N /\ \A n \in 1..N : order[n] \in S /\ Numbers(ops[n], perStream, X, order[n], n)
    BY <1>1, MergedAt
  <1>3. /\ Len(ops) = N
        /\ \A n \in 1..N :
              /\ order[n] \in S /\ order[n].t \in Int /\ order[n].s \in DOMAIN perStream
              /\ order[n].idx \in 1..Len(perStream[order[n].s])
              /\ ops[n] = [perStream[order[n].s][order[n].idx] EXCEPT !.op_id = n - 1]
              /\ ops[n].t = order[n].t /\ ops[n].s = order[n].s
    BY <1>3a DEF Numbers
  <1>4. \A s \in DOMAIN perStream : \A i \in 1..Len(perStream[s]) : Place(perStream, s, i) \in S
    BY PlacesOfStreams
  <1>5. /\ \A n, m \in 1..N : n < m => Before(order[n], order[m])
        /\ \A a \in S : \E n \in 1..N : order[n] = a
    BY <1>1 DEF Merging
  <1> HIDE DEF S, N, ops
  <1>6. \A n, m \in 1..N : n <= m => ops[n].t <= ops[m].t
    <2> SUFFICES ASSUME NEW n \in 1..N, NEW m \in 1..N, n <= m PROVE order[n].t <= order[m].t
      BY <1>3
    <2>1. order[n].t \in Int /\ order[m].t \in Int
      BY <1>3
    <2>2. n < m => Before(order[n], order[m])
      BY <1>5
    <2>3. n = m \/ n < m
      BY <1>2
    <2> QED BY <2>1, <2>2, <2>3 DEF Before
  <1>7. ASSUME NEW s \in DOMAIN perStream
        PROVE  \E at : Keeps(at, ops, perStream, s)
    <2> DEFINE L     == Len(perStream[s])
               pl(i) == Place(perStream, s, i)
               at    == [i \in 1..L |-> CHOOSE n \in 1..N : order[n] = pl(i)]
               P     == Positions(ops, s)
    <2>1. L \in Nat /\ \A i, j \in 1..L : i <= j => perStream[s][i].t <= perStream[s][j].t
      BY DEF Streams
    <2>1a. \A i \in 1..L : perStream[s][i].t \in Int
      <3>1. perStream[s] \in Seq(X)
        BY DEF Streams
      <3>2. \A i \in 1..L : perStream[s][i] \in X
        BY <3>1
      <3> QED BY <3>2 DEF Streams
    <2>2. \A i \in 1..L : /\ pl(i) \in S /\ pl(i).s = s /\ pl(i).idx = i /\ pl(i).t = perStream[s][i].t
      BY <1>4 DEF Place
    <2>3. \A i \in 1..L : at[i] \in 1..N /\ order[at[i]] = pl(i)
      <3> SUFFICES ASSUME NEW i \in 1..L PROVE at[i] \in 1..N /\ order[at[i]] = pl(i)
        OBVIOUS
      <3>1. \E n \in 1..N : order[n] = pl(i)
        BY <1>5, <2>2
      <3>2. at[i] = CHOOSE n \in 1..N : order[n] = pl(i)
        OBVIOUS
      <3> HIDE DEF at, pl
      <3> QED BY <3>1, <3>2, Zenon
    <2>4. at \in [1..L -> 1..N]
      BY <2>3
    <2> HIDE DEF at, L, pl
    <2>5. ASSUME NEW i \in 1..L, NEW j \in 1..L, i < j PROVE at[i] < at[j]
      <3>1. at[i] \in 1..N /\ at[j] \in 1..N /\ order[at[i]] = pl(i) /\ order[at[j]] = pl(j)
        BY <2>3
      <3>2. ~Before(pl(j), pl(i)) /\ pl(i).idx # pl(j).idx
        <4>1. perStream[s][i].t <= perStream[s][j].t /\ i \in Int /\ j \in Int
              /\ perStream[s][i].t \in Int /\ perStream[s][j].t \in Int /\ s \in Int
          BY <2>1, <2>1a, <2>5 DEF Streams
        <4> QED BY <2>2, <2>5, <4>1 DEF Before
      <3>3. at[i] # at[j]
        BY <3>1, <3>2
      <3>4. ~(at[j] < at[i])
        BY <1>5, <3>1, <3>2
      <3> QED BY <1>2, <3>1, <3>3, <3>4
    <2>6. \A i \in 1..L : ops[at[i]] = [perStream[s][i] EXCEPT !.op_id = at[i] - 1]
      BY <1>3, <2>2, <2>3
    <2>7. P = {n \in 1..N : order[n].s = s}
      <3>1. DOMAIN ops = 1..N
        BY <1>1 DEF ops, N, S
      <3> QED BY <1>3, <3>1 DEF Positions
    <2> HIDE DEF P
    <2>8. at \in [1..L -> P]
      BY <2>2, <2>3, <2>4, <2>7
    <2>9. \A n \in P : \E i \in 1..L : at[i] = n
      <3> SUFFICES ASSUME NEW n \in 1..N, order[n].s = s PROVE \E i \in 1..L : at[i] = n
        BY <2>7
      <3>1. order[n] = Place(perStream, order[n].s, order[n].idx) /\ order[n].idx \in 1..L
        BY <1>3, PlacesOfStreams DEF S, L
      <3>2. order[at[order[n].idx]] = order[n] /\ at[order[n].idx] \in 1..N
        BY <2>3, <3>1 DEF pl
      <3>3. ~Before(order[n], order[n])
        BY <1>3, <3>1, PlacesOfStreams DEF Before, S
      <3>4. ~(at[order[n].idx] < n) /\ ~(n < at[order[n].idx])
        BY <1>5, <3>2, <3>3
      <3>5. at[order[n].idx] = n
        BY <1>2, <3>2, <3>4
      <3> QED BY <3>1, <3>5
    <2>10. P \subseteq Int
      BY <1>2, <2>7
    <2>11. IsFiniteSet(P) /\ Cardinality(P) = L /\ Increasing(at, P)
      BY <2>1, <2>5, <2>8, <2>9, <2>10, Enumerated DEF L
    <2>12. OfStream(ops, s) = [i \in 1..L |-> ops[at[i]]]
      <3>1. OfStream(ops, s) = At(ops, P)
        BY DEF OfStream, P, Positions
      <3>2. At(ops, P) = [i \in 1..L |-> ops[at[i]]]
        BY <2>11, SelectedInOrder
      <3> QED BY <3>1, <3>2
    <2>13. Keeps(at, ops, perStream, s)
      <3>1. \A n \in 1..N : ops[n].s = s => \E i \in 1..L : at[i] = n
        BY <1>3, <2>7, <2>9
      <3> QED BY <1>3, <2>4, <2>5, <2>6, <2>12, <3>1 DEF L, Keeps
    <2> QED BY <2>13
  <1>8. \A n \in 1..N : \E s \in DOMAIN perStream : \E i \in 1..Len(perStream[s]) :
          ops[n] = [perStream[s][i] EXCEPT !.op_id = n - 1]
    BY <1>3
  <1>9. DOMAIN ops = 1..N
    BY <1>1 DEF ops, N, S
  <1> QED BY <1>2, <1>3, <1>6, <1>7, <1>8, <1>9 DEF Interleaves, ops

-----------------------------------------------------------------------------
(* What importers and generators make operations of.                          *)
MadeOps ==
  [t : Int, op_id : Int \cup {None}, s : Int, op : Kinds, tgt : Int \cup {None}, h : Int \cup {None},
   mode : {None, "r", "w", "rw"}, off : Int \cup {None}, len : Int \cup {None}, ret : {None},
   dur : Int \cup {None}]

(* What the tools make has the shape the validator reads. *)
LEMMA MadeOpsTyped == Typed(MadeOps)
  <1>1. \A o \in MadeOps : /\ o.t \in Int /\ o.op_id \in Int \cup {None} /\ o.off \in Int \cup {None}
                           /\ o.len \in Int \cup {None} /\ o.ret \in {None} /\ o.dur \in Int \cup {None}
    BY DEF MadeOps
  <1>2. \A o \in MadeOps : DOMAIN o = DOMAIN BlankOp
    BY DEF MadeOps, BlankOp
  <1> QED BY <1>1, <1>2, HandAssumption DEF Typed

(* An operation with a field changed is one still. *)
LEMMA MadeOpChanged ==
  ASSUME NEW o \in MadeOps
  PROVE  /\ \A t \in Int : /\ [o EXCEPT !.t = t] \in MadeOps /\ [o EXCEPT !.t = t].t = t
                           /\ \A f \in DOMAIN BlankOp \ {"t"} : [o EXCEPT !.t = t][f] = o[f]
         /\ \A n \in Int : /\ [o EXCEPT !.op_id = n] \in MadeOps /\ [o EXCEPT !.op_id = n].op_id = n
                           /\ \A f \in DOMAIN BlankOp \ {"op_id"} : [o EXCEPT !.op_id = n][f] = o[f]
  <1>1. DOMAIN o = DOMAIN BlankOp /\ "t" \in DOMAIN o /\ "op_id" \in DOMAIN o
    BY DEF MadeOps, BlankOp
  <1>2. ASSUME NEW t \in Int PROVE [o EXCEPT !.t = t] \in MadeOps
    BY DEF MadeOps
  <1>3. ASSUME NEW n \in Int PROVE [o EXCEPT !.op_id = n] \in MadeOps
    BY DEF MadeOps
  <1> QED BY <1>1, <1>2, <1>3

(* The first of a set of numbers, and the last. *)
LEMMA MinIsLeast ==
  ASSUME NEW S, IsFiniteSet(S), S \subseteq Int, S # {}
  PROVE  /\ Min(S) \in S /\ \A x \in S : Min(S) <= x
         /\ Max(S) \in S /\ \A x \in S : x <= Max(S)
  <1>1. \E x \in S : \A y \in S : x <= y
    BY LeastInt
  <1>2. \E x \in S : \A y \in S : x >= y
    <2>1. PICK x \in S : \A y \in S : y <= x
      BY GreatestInt
    <2>2. \A y \in S : y \in Int
      OBVIOUS
    <2> QED BY <2>1, <2>2
  <1>3. Min(S) \in S /\ \A x \in S : Min(S) <= x
    BY <1>1, Zenon DEF Min
  <1>4. Max(S) \in S /\ \A x \in S : Max(S) >= x
    BY <1>2, Zenon DEF Max
  <1>5. \A y \in S : y \in Int
    OBVIOUS
  <1> QED BY <1>3, <1>4, <1>5

(* Rebasing puts a stream in order of time: an operation is stamped with    *)
(* the latest time seen so far in its stream, counted from the origin.      *)
LEMMA ClampedInOrder ==
  ASSUME NEW ops \in Seq(MadeOps), NEW m \in Int
  PROVE  /\ Clamped(ops, m) \in Seq(MadeOps) /\ Len(Clamped(ops, m)) = Len(ops)
         /\ \A i \in 1..Len(ops) :
              /\ \A f \in DOMAIN BlankOp \ {"t"} : Clamped(ops, m)[i][f] = ops[i][f]
              /\ \A j \in 1..i : ops[j].t - m <= Clamped(ops, m)[i].t
              /\ \E j \in 1..i : Clamped(ops, m)[i].t = ops[j].t - m
         /\ \A i, j \in 1..Len(ops) : i <= j => Clamped(ops, m)[i].t <= Clamped(ops, m)[j].t
  <1> DEFINE N  == Len(ops)
             ts(i) == {ops[j].t : j \in 1..i}
             cl == Clamped(ops, m)
  <1>1. N \in Nat /\ DOMAIN ops = 1..N /\ \A i \in 1..N : ops[i] \in MadeOps /\ ops[i].t \in Int
    <2>1. \A o \in MadeOps : o.t \in Int
      BY DEF MadeOps
    <2> QED BY <2>1
  <1>2. cl = [i \in 1..N |-> [ops[i] EXCEPT !.t = Max(ts(i)) - m]]
    BY <1>1 DEF Clamped
  <1> HIDE DEF N, cl
  <1>3. ASSUME NEW i \in 1..N
        PROVE  Max(ts(i)) \in Int /\ Max(ts(i)) \in ts(i) /\ \A j \in 1..i : ops[j].t <= Max(ts(i))
    <2>0. \A j \in 1..i : j \in 1..N
      BY <1>1
    <2>1. ts(i) \subseteq Int /\ i \in 1..i
      BY <1>1, <2>0
    <2> DEFINE T == ts(i)
               tm == [j \in 1..i |-> ops[j].t]
    <2>2. tm \in Surjection(1..i, T)
      BY DEF Surjection
    <2>3. IsFiniteSet(1..i) /\ T # {}
      BY <1>1, <2>1, FS_Interval
    <2>3a. \A j \in 1..i : ops[j].t \in T
      OBVIOUS
    <2> HIDE DEF T, tm
    <2>4. IsFiniteSet(T)
      BY <2>2, <2>3, FS_Surjection
    <2>5. T \subseteq Int
      BY <2>1 DEF T
    <2>6. Max(T) \in T /\ \A x \in T : x <= Max(T)
      BY <2>3, <2>4, <2>5, MinIsLeast
    <2> QED BY <2>3a, <2>5, <2>6 DEF T
  <1>4. ASSUME NEW i \in 1..N
        PROVE  /\ cl[i] \in MadeOps /\ cl[i].t = Max(ts(i)) - m
               /\ \A f \in DOMAIN BlankOp \ {"t"} : cl[i][f] = ops[i][f]
    <2>1. Max(ts(i)) - m \in Int
      BY <1>3
    <2>2. cl[i] = [ops[i] EXCEPT !.t = Max(ts(i)) - m]
      BY <1>2
    <2> DEFINE mt == Max(ts(i)) - m
               o  == ops[i]
    <2>3. o \in MadeOps /\ mt \in Int /\ cl[i] = [o EXCEPT !.t = mt]
      BY <1>1, <2>1, <2>2
    <2> HIDE DEF mt, o
    <2>4. cl[i] \in MadeOps /\ cl[i].t = mt /\ \A f \in DOMAIN BlankOp \ {"t"} : cl[i][f] = o[f]
      BY <2>3, MadeOpChanged
    <2> QED BY <2>4 DEF mt, o
  <1>5. cl \in Seq(MadeOps) /\ Len(cl) = N
    <2>1. cl = [i \in 1..N |-> cl[i]]
      BY <1>2
    <2>2. \A i \in 1..N : cl[i] \in MadeOps
      BY <1>4
    <2> HIDE DEF ts
    <2> QED BY <1>1, <2>1, <2>2
  <1>6. ASSUME NEW i \in 1..N
        PROVE  /\ \A j \in 1..i : ops[j].t - m <= cl[i].t
               /\ \E j \in 1..i : cl[i].t = ops[j].t - m
    <2>1. \A j \in 1..i : j \in 1..N
      BY <1>1
    <2>2. PICK j \in 1..i : Max(ts(i)) = ops[j].t
      BY <1>3
    <2>3. \A k \in 1..i : ops[k].t \in Int /\ ops[k].t <= Max(ts(i))
      BY <1>1, <1>3, <2>1
    <2> HIDE DEF ts
    <2> QED BY <1>3, <1>4, <2>2, <2>3
  <1>7. ASSUME NEW i \in 1..N, NEW j \in 1..N, i <= j PROVE cl[i].t <= cl[j].t
    <2>1. PICK k \in 1..i : cl[i].t = ops[k].t - m
      BY <1>6
    <2>2. k \in 1..j
      BY <1>1, <1>7
    <2> QED BY <1>6, <2>1, <2>2
  <1> QED BY <1>4, <1>5, <1>6, <1>7 DEF N, cl

-----------------------------------------------------------------------------
(* The operation that the i-th line of a stream becomes.                      *)
CallMade(s, line, i) ==
  [(IF i = 1 THEN Opens(s, line.abs, s, 0, "rw") ELSE Moves("READ", s, line.abs, s, i - 1, 1))
     EXCEPT !.dur = RecordedDur(line.dur)]

(* The constructors' operations, field by field. *)
LEMMA OperationsMade ==
  ASSUME NEW s, NEW t, NEW h, NEW x, NEW y, NEW kind
  PROVE  /\ OpOn(kind, s, t, h) =
              [t |-> t, op_id |-> None, s |-> s, op |-> kind, tgt |-> None, h |-> h, mode |-> None,
               off |-> None, len |-> None, ret |-> None, dur |-> None]
         /\ Opens(s, t, h, x, y) =
              [t |-> t, op_id |-> None, s |-> s, op |-> "OPEN", tgt |-> x, h |-> h, mode |-> y,
               off |-> None, len |-> None, ret |-> None, dur |-> None]
         /\ Moves(kind, s, t, h, x, y) =
              [t |-> t, op_id |-> None, s |-> s, op |-> kind, tgt |-> None, h |-> h, mode |-> None,
               off |-> x, len |-> y, ret |-> None, dur |-> None]
  <1> DEFINE On(k) ==
         [t |-> t, op_id |-> None, s |-> s, op |-> k, tgt |-> None, h |-> h, mode |-> None,
          off |-> None, len |-> None, ret |-> None, dur |-> None]
  <1>1. ASSUME NEW k PROVE OpOn(k, s, t, h) = On(k)
    <2> DEFINE o == OpOn(k, s, t, h)
    <2>1. DOMAIN o = {"t", "op_id", "s", "op", "tgt", "h", "mode", "off", "len", "ret", "dur"}
          /\ o = [f \in DOMAIN o |-> o[f]]
      BY DEF OpOn, BlankOp
    <2>2. o.t = t /\ o.s = s /\ o.op = k /\ o.h = h
      BY DEF OpOn, BlankOp
    <2>3. /\ o.op_id = None /\ o.tgt = None /\ o.mode = None /\ o.off = None /\ o.len = None
          /\ o.ret = None /\ o.dur = None
      BY DEF OpOn, BlankOp
    <2> HIDE DEF o
    <2>4. o = On(k)
      BY <2>1, <2>2, <2>3
    <2> QED BY <2>4 DEF o
  <1>2. Opens(s, t, h, x, y) = [On("OPEN") EXCEPT !.tgt = x, !.mode = y]
    BY <1>1 DEF Opens
  <1>3. Moves(kind, s, t, h, x, y) = [On(kind) EXCEPT !.off = x, !.len = y]
    BY <1>1 DEF Moves
  <1> QED BY <1>1, <1>2, <1>3

(* The operation an importer makes of one line of a log. *)
LEMMA CallIsMade ==
  ASSUME NEW s \in Ranks, NEW line \in Stamped, NEW i \in Nat
  PROVE  /\ CallMade(s, line, i) \in MadeOps
         /\ CallMade(s, line, i).t = line.abs /\ CallMade(s, line, i).s = s /\ CallMade(s, line, i).h = s
         /\ CallMade(s, line, i).dur = RecordedDur(line.dur)
         /\ CallMade(s, line, i).ret = None /\ RecordedDur(line.dur) \in Nat \cup {None}
         /\ i = 1 => /\ CallMade(s, line, i).op = "OPEN" /\ CallMade(s, line, i).off = None
                     /\ CallMade(s, line, i).tgt = 0 /\ CallMade(s, line, i).mode = "rw"
                     /\ CallMade(s, line, i).len = None
         /\ i # 1 => /\ CallMade(s, line, i).op = "READ" /\ CallMade(s, line, i).off = i - 1
                     /\ CallMade(s, line, i).tgt = None /\ CallMade(s, line, i).mode = None
                     /\ CallMade(s, line, i).len = 1
  <1> DEFINE d == RecordedDur(line.dur)
  <1>1. line.abs \in Int /\ line.dur \in Nat /\ s \in Int /\ i - 1 \in Int
    BY ToolsAssumption DEF Stamped
  <1>2. d \in Nat \cup {None}
    BY <1>1 DEF RecordedDur
  <1> HIDE DEF d
  <1>3. CASE i = 1
    <2>1. CallMade(s, line, i) =
            [t |-> line.abs, op_id |-> None, s |-> s, op |-> "OPEN", tgt |-> 0, h |-> s, mode |-> "rw",
             off |-> None, len |-> None, ret |-> None, dur |-> d]
      BY <1>3, OperationsMade DEF CallMade, d
    <2> QED BY <1>1, <1>2, <1>3, <2>1 DEF MadeOps, Kinds, d
  <1>4. CASE i # 1
    <2>1. CallMade(s, line, i) =
            [t |-> line.abs, op_id |-> None, s |-> s, op |-> "READ", tgt |-> None, h |-> s, mode |-> None,
             off |-> i - 1, len |-> 1, ret |-> None, dur |-> d]
      BY <1>4, OperationsMade DEF CallMade, d
    <2> QED BY <1>1, <1>2, <1>4, <2>1 DEF MadeOps, Kinds, Uses, d
  <1> QED BY <1>3, <1>4

(* Each stream is made of its lines, which were stamped as they came.         *)
MadeOfLines ==
  /\ streams \in [Ranks -> Seq(MadeOps)]
  /\ \A s \in Ranks :
       /\ Len(streams[s]) = Len(OfStream(wall, s))
       /\ \A i \in 1..Len(streams[s]) : streams[s][i] = CallMade(s, OfStream(wall, s)[i], i)

(* Lines are logged as the clock moves, or one step back of it. *)
InTime ==
  /\ \A i \in 1..Len(wall) : wall[i].at <= clock.now /\ wall[i].t \in {wall[i].at, wall[i].at - Back}
  /\ \A i, j \in 1..Len(wall) : i <= j => wall[i].at <= wall[j].at

(* The streams that hold something. *)
Used == {s \in Ranks : streams[s] # <<>>}

(* What an import has made of the lines read so far, and its trace at the   *)
(* end.                                                                     *)
ImportInv ==
  tool \in Imports => /\ MadeOfLines /\ InTime
                      /\ phase # "making" => /\ wall # <<>> /\ file = TraceFile([s \in Used |-> streams[s]], 1)
                                             /\ phase = "refused" <=> Errors(file) # {}

(* Reading a line keeps the importer's invariant. *)
LEMMA LineIsMade ==
  ASSUME ClockInv, ClockInv', ImportInv,
         NEW s \in Ranks, NEW step \in Steps, NEW back \in {0, Back}, NEW dur \in Durs,
         Line(s, step, back, dur)
  PROVE  ImportInv'
  <1> DEFINE at   == clock.now + step
             seen == at - back
             abs  == IF tool = "strace" THEN RolledOver(seen % Day) ELSE seen
             new  == [s |-> s, at |-> at, t |-> seen, abs |-> abs, dur |-> dur]
             n    == Len(wall)
             call == CallOf(s, abs, dur)
  <1>1. /\ tool \in Imports /\ tool' = tool /\ phase' = phase /\ phase = "making" /\ params' = params
        /\ streams' = [streams EXCEPT ![s] = Append(@, call)]
        /\ clock'.now = at /\ wall' = Append(wall, new)
    BY DEF Line, Unmade
  <1>2. wall \in Seq(Stamped) /\ wall' \in Seq(Stamped) /\ clock.now \in Int /\ step \in Nat
        /\ n \in Nat /\ MadeOfLines /\ InTime /\ Back \in Nat
    BY <1>1, ToolsAssumption DEF ClockInv, ImportInv
  <1>3. new \in Stamped
    <2>1. wall'[n + 1] = new /\ n + 1 \in 1..Len(wall')
      <3> HIDE DEF new
      <3> QED BY <1>1, <1>2
    <2> HIDE DEF new
    <2> QED BY <1>2, <2>1
  <1>4. \A r \in Ranks : OfStream(wall', r) = IF r = s THEN Append(OfStream(wall, r), new) ELSE OfStream(wall, r)
    <2>1. new.s = s
      OBVIOUS
    <2> HIDE DEF new
    <2> QED BY <1>1, <1>2, <1>3, <2>1, StreamGrows
  <1>5. \A r \in Ranks : /\ OfStream(wall, r) \in Seq(Stamped) /\ streams[r] \in Seq(MadeOps)
                         /\ Len(streams[r]) = Len(OfStream(wall, r)) /\ Len(streams[r]) \in Nat
    BY <1>2, StreamGrows DEF MadeOfLines
  <1>6. call = CallMade(s, new, Len(streams[s]) + 1)
    <2>1. streams[s] = <<>> <=> Len(streams[s]) + 1 = 1
      BY <1>5
    <2>2. Len(streams[s]) + 1 - 1 = Len(streams[s])
      BY <1>5
    <2>3. new.abs = abs /\ new.dur = dur
      OBVIOUS
    <2> HIDE DEF new, abs
    <2> QED BY <2>1, <2>2, <2>3 DEF CallOf, CallMade
  <1> HIDE DEF call, new
  <1>7. call \in MadeOps
    <2>1. Len(streams[s]) + 1 \in Nat
      BY <1>5
    <2> QED BY <1>3, <1>6, <2>1, CallIsMade
  <1>8. DOMAIN streams = Ranks
    BY <1>2 DEF MadeOfLines
  <1>9. streams' \in [Ranks -> Seq(MadeOps)]
    BY <1>1, <1>2, <1>7 DEF MadeOfLines
  <1>10. \A r \in Ranks : \A line, i : CallMade(r, line, i)' = CallMade(r, line, i)
    BY <1>1 DEF CallMade, RecordedDur
  <1>11. ASSUME NEW r \in Ranks
         PROVE  /\ Len(streams'[r]) = Len(OfStream(wall', r))
                /\ \A i \in 1..Len(streams'[r]) : streams'[r][i] = CallMade(r, OfStream(wall', r)[i], i)
    <2> DEFINE lines == OfStream(wall, r)
               calls == streams[r]
    <2>1. lines \in Seq(Stamped) /\ calls \in Seq(MadeOps) /\ Len(calls) = Len(lines) /\ Len(lines) \in Nat
          /\ \A i \in 1..Len(calls) : calls[i] = CallMade(r, lines[i], i)
      BY <1>2, <1>5 DEF MadeOfLines
    <2>2. CASE r # s
      <3>1. streams'[r] = calls /\ OfStream(wall', r) = lines
        BY <1>1, <1>4, <1>8, <2>2
      <3> QED BY <2>1, <3>1
    <2>3. CASE r = s
      <3>1. streams'[r] = Append(calls, call) /\ OfStream(wall', r) = Append(lines, new)
            /\ call = CallMade(r, new, Len(calls) + 1)
        BY <1>1, <1>4, <1>6, <1>8, <2>3
      <3> HIDE DEF lines, calls
      <3>2. /\ Len(streams'[r]) = Len(lines) + 1 /\ Len(OfStream(wall', r)) = Len(lines) + 1
            /\ streams'[r][Len(lines) + 1] = call /\ OfStream(wall', r)[Len(lines) + 1] = new
            /\ \A i \in 1..Len(lines) : streams'[r][i] = calls[i] /\ OfStream(wall', r)[i] = lines[i]
        BY <1>3, <1>7, <2>1, <3>1
      <3>3. \A i \in 1..(Len(lines) + 1) : i \in 1..Len(lines) \/ i = Len(lines) + 1
        BY <2>1
      <3> QED BY <2>1, <3>1, <3>2, <3>3
    <2> QED BY <2>2, <2>3
  <1>12. MadeOfLines'
    <2>1. \A r \in Ranks : OfStream(wall, r)' = OfStream(wall', r)
      OBVIOUS
    <2> QED BY <1>9, <1>10, <1>11 DEF MadeOfLines
  <1>13. InTime'
    <2>1. new.at = at /\ new.t = seen /\ at \in Int /\ at >= clock.now /\ seen \in {at, at - Back}
      BY <1>2 DEF new
    <2> HIDE DEF at, seen
    <2>2. /\ Len(wall') = n + 1 /\ wall'[n + 1] = new
          /\ \A i \in 1..n : wall'[i] = wall[i] /\ wall[i] \in Stamped
      BY <1>1, <1>2, <1>3
    <2>2a. \A i \in 1..n : wall[i].at \in Int
      BY <2>2 DEF Stamped
    <2>2b. \A i \in 1..n : wall[i].at <= clock.now
      BY <1>2 DEF InTime
    <2>3. \A i \in 1..n : wall[i].at \in Int /\ wall[i].at <= at /\ wall[i].at <= clock.now
      BY <1>2, <2>1, <2>2a, <2>2b
    <2>4. \A i \in 1..(n + 1) : i \in 1..n \/ i = n + 1
      BY <1>2
    <2>5. \A i \in 1..(n + 1) : wall'[i].at <= at /\ wall'[i].t \in {wall'[i].at, wall'[i].at - Back}
      BY <1>2, <2>1, <2>2, <2>3, <2>4 DEF InTime
    <2>6. \A i, j \in 1..(n + 1) : i <= j => wall'[i].at <= wall'[j].at
      <3> SUFFICES ASSUME NEW i \in 1..(n + 1), NEW j \in 1..(n + 1), i <= j PROVE wall'[i].at <= wall'[j].at
        OBVIOUS
      <3>1. CASE j = n + 1
        BY <2>1, <2>2, <2>5, <3>1
      <3>2. CASE j # n + 1
        <4>1. i \in 1..n /\ j \in 1..n
          BY <1>2, <3>2
        <4> QED BY <1>2, <2>2, <4>1 DEF InTime
      <3> QED BY <3>1, <3>2
    <2> QED BY <1>1, <2>2, <2>5, <2>6 DEF InTime
  <1> QED BY <1>1, <1>12, <1>13 DEF ImportInv

(* A stream is in the order of what it is taken from, and all of its elements *)
(* that belong to it.                                                         *)
Selects(at, seq, s) ==
  LET L == Len(OfStream(seq, s))
  IN  /\ at \in [1..L -> 1..Len(seq)]
      /\ \A i, j \in 1..L : i < j => at[i] < at[j]
      /\ \A i \in 1..L : OfStream(seq, s)[i] = seq[at[i]] /\ seq[at[i]].s = s
      /\ \A n \in 1..Len(seq) : seq[n].s = s => \E i \in 1..L : at[i] = n

(* The operations of one stream are the sequence's, in its order. *)
LEMMA StreamIsSelected ==
  ASSUME NEW X, NEW seq \in Seq(X), NEW s
  PROVE  /\ \E at : Selects(at, seq, s)
         /\ OfStream(seq, s) \in Seq(X) /\ Len(OfStream(seq, s)) \in Nat
         /\ DOMAIN OfStream(seq, s) = 1..Len(OfStream(seq, s))
  <1> DEFINE P == Positions(seq, s)
             n == Cardinality(P)
  <1>1. /\ IsFiniteSet(P) /\ P \in SUBSET (1..Len(seq)) /\ n \in Nat
    BY PositionsSorted
  <1>2. PICK bs : Increasing(bs, P)
    BY PositionsSorted
  <1>3. bs \in [1..n -> P] /\ \A i, j \in 1..n : i < j => bs[i] < bs[j]
    BY <1>2 DEF Increasing
  <1>4. \A x \in P : \E i \in 1..n : bs[i] = x
    BY <1>1, <1>2, SortedIsAll
  <1>5. OfStream(seq, s) = [k \in 1..n |-> seq[bs[k]]]
    <2>1. OfStream(seq, s) = At(seq, P)
      BY DEF OfStream, Positions
    <2>2. At(seq, P) = [k \in 1..n |-> seq[bs[k]]]
      BY <1>1, <1>2, SelectedInOrder
    <2> QED BY <2>1, <2>2
  <1>6. P = {i \in 1..Len(seq) : seq[i].s = s}
    BY DEF Positions
  <1> HIDE DEF n, P
  <1>7. Len(OfStream(seq, s)) = n
    BY <1>1, <1>5
  <1>8. \A i \in 1..n : bs[i] \in 1..Len(seq) /\ seq[bs[i]].s = s
    BY <1>3, <1>6
  <1>9. Selects(bs, seq, s)
    <2>1. bs \in [1..n -> 1..Len(seq)]
      BY <1>3, <1>8
    <2>2. \A i \in 1..n : OfStream(seq, s)[i] = seq[bs[i]]
      BY <1>5
    <2>3. \A i \in 1..Len(seq) : seq[i].s = s => \E k \in 1..n : bs[k] = i
      BY <1>4, <1>6
    <2> QED BY <1>3, <1>7, <1>8, <2>1, <2>2, <2>3 DEF Selects
  <1>10. OfStream(seq, s) \in Seq(X)
    BY StreamGrows
  <1>11. DOMAIN OfStream(seq, s) = 1..Len(OfStream(seq, s))
    BY <1>5, <1>7
  <1>12. \E at : Selects(at, seq, s)
    BY <1>9
  <1> QED BY <1>1, <1>7, <1>10, <1>11, <1>12, Zenon

-----------------------------------------------------------------------------
(* The streams an import hands to its builder. *)
Lines == [s \in Used |-> streams[s]]

(* The first line is at the importer's origin of time. *)
LEMMA FirstLine ==
  ASSUME tool \in Imports, ClockInv, ImportInv, wall # <<>>
  PROVE  /\ MinTimestamp(Lines) \in Int
         /\ \E n \in 1..Len(wall) : MinTimestamp(Lines) = wall[n].abs
         /\ \A n \in 1..Len(wall) : MinTimestamp(Lines) <= wall[n].abs
  <1> DEFINE ts == {o.t : o \in UNION {ToSet(Lines[s]) : s \in DOMAIN Lines}}
             as == {wall[n].abs : n \in 1..Len(wall)}
  <1>1. /\ wall \in Seq(Stamped) /\ Len(wall) \in Nat /\ 1 \in 1..Len(wall)
        /\ \A n \in 1..Len(wall) : wall[n] \in Stamped /\ wall[n].abs \in Int /\ wall[n].s \in Ranks
    <2>1. wall \in Seq(Stamped)
      BY DEF ClockInv
    <2>2. \A n \in 1..Len(wall) : wall[n] \in Stamped
      BY <2>1
    <2>3. \A w \in Stamped : w.abs \in Int /\ w.s \in Ranks
      BY DEF Stamped
    <2>4. Len(wall) \in Nat /\ Len(wall) # 0
      BY <2>1
    <2> QED BY <2>1, <2>2, <2>3, <2>4
  <1>2. /\ DOMAIN Lines = Used /\ Used \subseteq Ranks
        /\ \A s \in Used : Lines[s] = streams[s]
    BY DEF Lines, Used
  <1>3. \A s \in Ranks : /\ streams[s] \in Seq(MadeOps) /\ Len(streams[s]) = Len(OfStream(wall, s))
                         /\ DOMAIN streams[s] = 1..Len(streams[s]) /\ Len(streams[s]) \in Nat
                         /\ \A i \in 1..Len(streams[s]) : streams[s][i].t = OfStream(wall, s)[i].abs
    <2> SUFFICES ASSUME NEW s \in Ranks
                 PROVE  /\ streams[s] \in Seq(MadeOps) /\ Len(streams[s]) = Len(OfStream(wall, s))
                        /\ DOMAIN streams[s] = 1..Len(streams[s]) /\ Len(streams[s]) \in Nat
                        /\ \A i \in 1..Len(streams[s]) : streams[s][i].t = OfStream(wall, s)[i].abs
      OBVIOUS
    <2>1. /\ streams[s] \in Seq(MadeOps) /\ Len(streams[s]) = Len(OfStream(wall, s))
          /\ \A i \in 1..Len(streams[s]) : streams[s][i] = CallMade(s, OfStream(wall, s)[i], i)
      BY DEF ImportInv, MadeOfLines
    <2>2. OfStream(wall, s) \in Seq(Stamped)
      BY <1>1, StreamIsSelected
    <2>3. \A i \in 1..Len(streams[s]) : OfStream(wall, s)[i] \in Stamped /\ i \in Nat
      BY <2>1, <2>2
    <2>4. \A i \in 1..Len(streams[s]) : streams[s][i].t = OfStream(wall, s)[i].abs
      BY <2>1, <2>3, CallIsMade
    <2> QED BY <2>1, <2>4
  <1>4. ts = as
    <2>1. ASSUME NEW s \in Used, NEW i \in 1..Len(streams[s]) PROVE streams[s][i].t \in as
      <3>1. PICK at : Selects(at, wall, s)
        BY <1>1, StreamIsSelected
      <3>2. OfStream(wall, s)[i] = wall[at[i]] /\ at[i] \in 1..Len(wall)
        BY <1>2, <1>3, <3>1 DEF Selects
      <3> QED BY <1>2, <1>3, <3>2
    <2>2. ASSUME NEW n \in 1..Len(wall)
          PROVE  \E s \in Used : \E i \in 1..Len(streams[s]) : streams[s][i].t = wall[n].abs
      <3> DEFINE s == wall[n].s
      <3>1. s \in Ranks
        BY <1>1
      <3>2. PICK at : Selects(at, wall, s)
        BY <1>1, StreamIsSelected
      <3>3. PICK i \in 1..Len(OfStream(wall, s)) : at[i] = n
        BY <3>2 DEF Selects
      <3>4. i \in 1..Len(streams[s]) /\ streams[s][i].t = wall[n].abs
        BY <1>3, <3>1, <3>2, <3>3 DEF Selects
      <3>5. streams[s] # <<>>
        BY <1>3, <3>1, <3>4
      <3> QED BY <3>1, <3>4, <3>5 DEF Used
    <2>3. ts \subseteq as
      <3> SUFFICES ASSUME NEW s \in Used, NEW o \in ToSet(streams[s]) PROVE o.t \in as
        BY <1>2
      <3>1. PICK i \in DOMAIN streams[s] : o = streams[s][i]
        BY DEF ToSet
      <3> QED BY <1>2, <1>3, <2>1, <3>1
    <2>4. as \subseteq ts
      <3> SUFFICES ASSUME NEW n \in 1..Len(wall) PROVE wall[n].abs \in ts
        OBVIOUS
      <3>1. PICK s \in Used : \E i \in 1..Len(streams[s]) : streams[s][i].t = wall[n].abs
        BY <2>2
      <3>2. PICK i \in 1..Len(streams[s]) : streams[s][i].t = wall[n].abs
        BY <3>1
      <3>3. streams[s][i] \in ToSet(Lines[s])
        BY <1>2, <1>3 DEF ToSet
      <3>4. streams[s][i] \in UNION {ToSet(Lines[r]) : r \in DOMAIN Lines}
        BY <1>2, <3>3
      <3> QED BY <3>2, <3>4
    <2> QED BY <2>3, <2>4
  <1>5. IsFiniteSet(as) /\ as # {} /\ as \subseteq Int
    <2> DEFINE abs == [n \in 1..Len(wall) |-> wall[n].abs]
    <2>1. abs \in Surjection(1..Len(wall), as)
      BY DEF Surjection
    <2>2. IsFiniteSet(1..Len(wall))
      BY <1>1, FS_Interval
    <2>3. wall[1].abs \in as
      BY <1>1
    <2>4. \A x \in as : x \in Int
      BY <1>1
    <2> HIDE DEF abs, as
    <2> QED BY <2>1, <2>2, <2>3, <2>4, FS_Surjection
  <1> HIDE DEF ts, as
  <1>6. MinTimestamp(Lines) = Min(as)
    <2>1. MinTimestamp(Lines) = IF ts = {} THEN 0 ELSE Min(ts)
      BY Zenon DEF MinTimestamp, ts
    <2> QED BY <1>4, <1>5, <2>1
  <1>7. Min(as) \in as /\ \A x \in as : Min(as) <= x
    BY <1>5, MinIsLeast
  <1> QED BY <1>5, <1>6, <1>7 DEF as

(* The streams that an import's builder merges. *)
Rebased == [s \in Used |-> Clamped(streams[s], MinTimestamp(Lines))]

(* The builder merges streams, each of them rebased. *)
LEMMA RebasedStreams ==
  ASSUME tool \in Imports, ClockInv, ImportInv, wall # <<>>
  PROVE  /\ Streams(Rebased, MadeOps) /\ DOMAIN Rebased = Used
         /\ \A s \in Used : Rebased[s] = Clamped(streams[s], MinTimestamp(Lines))
         /\ TraceFile(Lines, 1).ops = InOrder(Rebased)
  <1> DEFINE m == MinTimestamp(Lines)
  <1>1. m \in Int
    BY FirstLine
  <1>2. /\ DOMAIN Lines = Used /\ Used \subseteq Ranks
        /\ \A s \in Used : Lines[s] = streams[s]
    BY DEF Lines, Used
  <1> HIDE DEF m
  <1>3. DOMAIN Rebased = Used /\ \A s \in Used : Rebased[s] = Clamped(streams[s], m)
    BY DEF Rebased, m
  <1>4. IsFiniteSet(Used) /\ Used \subseteq Int
    <2>1. Used \in SUBSET Ranks /\ IsFiniteSet(Ranks) /\ Ranks \subseteq Int
      BY <1>2, ToolsAssumption
    <2> QED BY <2>1, FS_Subset
  <1>5. \A o \in MadeOps : DOMAIN o = DOMAIN BlankOp /\ o.t \in Int
    BY MadeOpsTyped DEF Typed
  <1>6. ASSUME NEW s \in Used
        PROVE  /\ Rebased[s] \in Seq(MadeOps)
               /\ \A i \in 1..Len(Rebased[s]) : Rebased[s][i].s = s
               /\ \A i, j \in 1..Len(Rebased[s]) : i <= j => Rebased[s][i].t <= Rebased[s][j].t
    <2> DEFINE cl == Clamped(streams[s], m)
    <2>1. /\ streams[s] \in Seq(MadeOps)
          /\ \A i \in 1..Len(streams[s]) : streams[s][i] = CallMade(s, OfStream(wall, s)[i], i)
          /\ Len(streams[s]) = Len(OfStream(wall, s))
      BY <1>2 DEF ImportInv, MadeOfLines
    <2>2. /\ cl \in Seq(MadeOps) /\ Len(cl) = Len(streams[s])
          /\ \A i, j \in 1..Len(streams[s]) : i <= j => cl[i].t <= cl[j].t
      BY <1>1, <2>1, ClampedInOrder
    <2>2a. \A i \in 1..Len(streams[s]) : \A f \in DOMAIN BlankOp \ {"t"} : cl[i][f] = streams[s][i][f]
      BY <1>1, <2>1, ClampedInOrder
    <2>3. "s" \in DOMAIN BlankOp \ {"t"}
      BY DEF BlankOp
    <2>4. OfStream(wall, s) \in Seq(Stamped)
      BY StreamIsSelected DEF ClockInv
    <2>5. \A i \in 1..Len(streams[s]) : OfStream(wall, s)[i] \in Stamped /\ i \in Nat
      BY <2>1, <2>4
    <2>6. \A i \in 1..Len(streams[s]) : streams[s][i].s = s
      BY <1>2, <2>1, <2>5, CallIsMade
    <2> HIDE DEF cl
    <2> QED BY <1>3, <2>2, <2>2a, <2>3, <2>6 DEF cl
  <1>7. Streams(Rebased, MadeOps)
    BY <1>3, <1>4, <1>5, <1>6 DEF Streams
  <1>8. TraceFile(Lines, 1).ops = InOrder(Rebased)
    <2>1. TraceFile(Lines, 1).ops = Merged(Lines)
      BY DEF TraceFile
    <2>2. Rebased = [s \in DOMAIN Lines |-> Clamped(Lines[s], MinTimestamp(Lines))]
      BY <1>2 DEF Rebased
    <2> QED BY <2>1, <2>2, Zenon DEF Merged
  <1> QED BY <1>3, <1>7, <1>8 DEF m

(* What comes to be of a stream's lines. *)
FromLines(ops, lines, s) ==
  /\ Len(ops) = Len(lines) /\ Len(ops) \in Nat /\ DOMAIN ops = 1..Len(ops)
  /\ \A i \in 1..Len(ops) :
       /\ ops[i].s = s /\ ops[i].dur = RecordedDur(lines[i].dur)
       /\ i = 1 => ops[i].op = "OPEN"
       /\ i # 1 => ops[i].op = "READ" /\ ops[i].off = i - 1
       /\ ops[i].t \in Int
       /\ \A j \in 1..i : lines[j].abs - MinTimestamp(Lines) <= ops[i].t
       /\ \E j \in 1..i : ops[i].t = lines[j].abs - MinTimestamp(Lines)
  /\ \A i, j \in 1..Len(ops) : i <= j => ops[i].t <= ops[j].t

(* Read back stream by stream, an imported trace is the log's lines, one    *)
(* operation for one line, at the line's time.                              *)
LEMMA ImportedStream ==
  ASSUME tool \in Imports, ClockInv, ImportInv, wall # <<>>, NEW s \in Ranks,
         NEW ops, ops = OfStream(TraceFile(Lines, 1).ops, s),
         NEW lines, lines = OfStream(wall, s)
  PROVE  FromLines(ops, lines, s)
  <1> DEFINE all == InOrder(Rebased)
             m   == MinTimestamp(Lines)
             L   == Len(streams[s])
  <1>1. /\ Streams(Rebased, MadeOps) /\ DOMAIN Rebased = Used
        /\ \A r \in Used : Rebased[r] = Clamped(streams[r], m)
        /\ ops = OfStream(all, s)
    BY RebasedStreams
  <1>2. /\ streams[s] \in Seq(MadeOps) /\ L = Len(lines) /\ L \in Nat
        /\ \A i \in 1..L : streams[s][i] = CallMade(s, lines[i], i)
    BY DEF ImportInv, MadeOfLines
  <1>3. lines \in Seq(Stamped) /\ \A i \in 1..L : lines[i] \in Stamped /\ i \in Nat
    <2>1. lines \in Seq(Stamped)
      BY StreamIsSelected DEF ClockInv
    <2> QED BY <1>2, <2>1
  <1>4. Interleaves(all, Rebased) /\ Len(all) \in Nat /\ DOMAIN all = 1..Len(all)
    BY <1>1, MergeInterleaves
  <1>5. m \in Int
    BY FirstLine
  <1> HIDE DEF all, m
  <1>6. CASE s \in Used
    <2> DEFINE cl == Clamped(streams[s], m)
    <2>1. /\ cl \in Seq(MadeOps) /\ Len(cl) = L
          /\ \A i \in 1..L :
              /\ \A f \in DOMAIN BlankOp \ {"t"} : cl[i][f] = streams[s][i][f]
              /\ \A j \in 1..i : streams[s][j].t - m <= cl[i].t
              /\ \E j \in 1..i : cl[i].t = streams[s][j].t - m
          /\ \A i, j \in 1..L : i <= j => cl[i].t <= cl[j].t
      BY <1>2, <1>5, ClampedInOrder
    <2>2. Rebased[s] = cl
      BY <1>1, <1>6
    <2> HIDE DEF cl
    <2>3a. PICK at : Keeps(at, all, Rebased, s)
      BY <1>1, <1>4, <1>6 DEF Interleaves
    <2>3. /\ at \in [1..L -> 1..Len(all)]
          /\ \A i \in 1..L : all[at[i]] = [cl[i] EXCEPT !.op_id = at[i] - 1]
          /\ ops = [i \in 1..L |-> all[at[i]]]
      BY <1>1, <2>1, <2>2, <2>3a DEF Keeps
    <2>4. ASSUME NEW i \in 1..L
          PROVE  ops[i].t \in Int /\ \A f \in DOMAIN BlankOp \ {"op_id"} : ops[i][f] = cl[i][f]
      <3>1. at[i] - 1 \in Int /\ cl[i] \in MadeOps
        BY <1>4, <2>1, <2>3
      <3>2. ops[i] = [cl[i] EXCEPT !.op_id = at[i] - 1]
        BY <2>3
      <3>3. \A f \in DOMAIN BlankOp \ {"op_id"} : ops[i][f] = cl[i][f]
        BY <3>1, <3>2, MadeOpChanged
      <3>4. cl[i].t \in Int /\ "t" \in DOMAIN BlankOp \ {"op_id"}
        BY <3>1 DEF MadeOps, BlankOp
      <3> QED BY <3>3, <3>4
    <2>5. {"s", "dur", "op", "off"} \subseteq DOMAIN BlankOp \ {"t", "op_id"} /\ "t" \in DOMAIN BlankOp \ {"op_id"}
      BY DEF BlankOp
    <2>6. Len(ops) = L /\ DOMAIN ops = 1..L
      BY <1>2, <2>3
    <2>7. \A i \in 1..L : /\ streams[s][i].t = lines[i].abs /\ streams[s][i].s = s
                          /\ streams[s][i].dur = RecordedDur(lines[i].dur)
                          /\ i = 1 => streams[s][i].op = "OPEN"
                          /\ i # 1 => streams[s][i].op = "READ" /\ streams[s][i].off = i - 1
      BY <1>2, <1>3, CallIsMade
    <2>8. ASSUME NEW i \in 1..L
          PROVE  /\ ops[i].s = s /\ ops[i].dur = RecordedDur(lines[i].dur)
                 /\ i = 1 => ops[i].op = "OPEN"
                 /\ i # 1 => ops[i].op = "READ" /\ ops[i].off = i - 1
                 /\ ops[i].t = cl[i].t
      <3>1. \A f \in {"s", "dur", "op", "off"} : ops[i][f] = streams[s][i][f]
        BY <2>1, <2>4, <2>5
      <3> QED BY <2>4, <2>5, <2>7, <3>1
    <2>9. ASSUME NEW i \in 1..L
          PROVE  /\ \A j \in 1..i : lines[j].abs - m <= ops[i].t
                 /\ \E j \in 1..i : ops[i].t = lines[j].abs - m
      <3>1. \A j \in 1..i : j \in 1..L
        BY <1>2
      <3> QED BY <2>1, <2>7, <2>8, <3>1
    <2>10. \A i, j \in 1..L : i <= j => ops[i].t <= ops[j].t
      BY <2>1, <2>8
    <2> QED BY <1>2, <2>4, <2>6, <2>8, <2>9, <2>10 DEF m, FromLines
  <1>7. CASE s \notin Used
    <2>1. L = 0
      BY <1>2, <1>7 DEF Used
    <2>2. Positions(all, s) = {}
      <3>1. ASSUME NEW n \in 1..Len(all) PROVE all[n].s # s
        <4>1. PICK r \in Used : \E i \in 1..Len(Rebased[r]) : all[n] = [Rebased[r][i] EXCEPT !.op_id = n - 1]
          BY <1>1, <1>4 DEF Interleaves
        <4>2. PICK i \in 1..Len(Rebased[r]) : all[n] = [Rebased[r][i] EXCEPT !.op_id = n - 1]
          BY <4>1
        <4>3. Rebased[r] \in Seq(MadeOps) /\ Rebased[r][i].s = r
          BY <1>1 DEF Streams
        <4>4. Rebased[r][i] \in MadeOps /\ n - 1 \in Int /\ "s" \in DOMAIN BlankOp \ {"op_id"}
          BY <1>4, <4>3 DEF BlankOp
        <4>5. all[n].s = r
          BY <4>2, <4>3, <4>4, MadeOpChanged
        <4> QED BY <1>7, <4>5
      <3> QED BY <1>4, <3>1 DEF Positions
    <2>3. ops = At(all, {})
      BY <1>1, <2>2, Zenon DEF OfStream, Positions
    <2>4. DOMAIN ops = 1..0
      BY <2>3, FS_EmptySet DEF At
    <2>5. Len(ops) = 0
      <3>1. ops = [i \in 1..0 |-> ops[i]]
        BY <2>3, <2>4 DEF At
      <3> QED BY <3>1
    <2>6. 1..Len(ops) = {}
      BY <2>5
    <2> QED BY <1>2, <2>1, <2>4, <2>5, <2>6 DEF FromLines
  <1> QED BY <1>6, <1>7

(* So a trace whose log crossed no midnight unseen keeps the log's times. *)
LEMMA ImportKeepsTimes ==
  ASSUME ClockInv, ImportInv, RolloverFaithful
  PROVE  TimesKept
  <1> SUFFICES ASSUME tool \in Imports, phase # "making", ~Crossed
               PROVE  LET first == CHOOSE t \in ToSet(Stamps) : \A u \in ToSet(Stamps) : t <= u
                      IN  \A s \in Ranks :
                            LET ops   == OfStream(file.ops, s)
                                lines == OfStream(wall, s)
                            IN  /\ Len(ops) = Len(lines)
                                /\ \A i \in DOMAIN ops :
                                     /\ ops[i].t - (lines[i].t - first) \in 0..Back
                                     /\ ops[i].op = "READ" => ops[i].off = i - 1
    BY DEF TimesKept
  <1> DEFINE first == CHOOSE t \in ToSet(Stamps) : \A u \in ToSet(Stamps) : t <= u
             m == MinTimestamp(Lines)
             N == Len(wall)
  <1>1. wall \in Seq(Stamped) /\ N \in Nat /\ DOMAIN wall = 1..N /\ wall # <<>> /\ 1 \in 1..N
        /\ file = TraceFile(Lines, 1) /\ InTime /\ Back \in Nat
    <2>1. wall \in Seq(Stamped) /\ wall # <<>> /\ file = TraceFile(Lines, 1) /\ InTime
      <3>1. wall \in Seq(Stamped)
        BY DEF ClockInv
      <3>2. wall # <<>> /\ file = TraceFile(Lines, 1) /\ InTime
        BY DEF ImportInv, Lines
      <3> QED BY <3>1, <3>2
    <2>2. N \in Nat /\ N # 0 /\ DOMAIN wall = 1..N
      BY <2>1
    <2> QED BY <2>1, <2>2, ToolsAssumption
  <1>2. \A n \in 1..N : /\ wall[n].t \in Int /\ wall[n].abs \in Int /\ wall[n].at \in Int
                        /\ wall[n].t \in {wall[n].at, wall[n].at - Back}
    <2>1. \A n \in 1..N : wall[n] \in Stamped
      BY <1>1
    <2>2. \A w \in Stamped : w.t \in Int /\ w.abs \in Int /\ w.at \in Int
      BY DEF Stamped
    <2> QED BY <1>1, <2>1, <2>2 DEF InTime
  <1>3. \A n, k \in 1..N : n <= k => wall[n].at <= wall[k].at
    BY <1>1 DEF InTime
  <1> DEFINE d == wall[1].abs - wall[1].t
  <1>4. d \in Int /\ \A n \in 1..N : wall[n].abs = wall[n].t + d
    <2>1. \A n \in 1..N : wall[n].abs - wall[n].t = d
      BY <1>1 DEF RolloverFaithful
    <2>2. d \in Int
      BY <1>1, <1>2
    <2> HIDE DEF d
    <2> QED BY <1>2, <2>1, <2>2
  <1> HIDE DEF d
  <1>5. m \in Int /\ (\E n \in 1..N : m = wall[n].abs) /\ \A n \in 1..N : m <= wall[n].abs
    BY <1>1, FirstLine
  <1> HIDE DEF m, N
  <1>6. first = m - d
    <2> DEFINE S == ToSet(Stamps)
    <2>1. S = {wall[n].t : n \in 1..N}
      BY <1>1 DEF ToSet, Stamps
    <2>2. m - d \in S
      <3>1. PICK n \in 1..N : m = wall[n].abs
        BY <1>5
      <3>2. m - d = wall[n].t
        BY <1>2, <1>4, <3>1
      <3> QED BY <2>1, <3>2
    <2>3. \A u \in S : u \in Int /\ m - d <= u
      <3> SUFFICES ASSUME NEW n \in 1..N PROVE wall[n].t \in Int /\ m - d <= wall[n].t
        BY <2>1
      <3> QED BY <1>2, <1>4, <1>5
    <2> HIDE DEF S
    <2>4. \A t \in S : (\A u \in S : t <= u) => t = m - d
      BY <1>4, <1>5, <2>2, <2>3
    <2>5. first = CHOOSE t \in S : \A u \in S : t <= u
      BY DEF S
    <2> HIDE DEF first
    <2> QED BY <2>2, <2>3, <2>4, <2>5
  <1> HIDE DEF first
  <1>7. ASSUME NEW s \in Ranks,
               NEW ops, ops = OfStream(file.ops, s), NEW lines, lines = OfStream(wall, s)
        PROVE  /\ Len(ops) = Len(lines)
               /\ \A i \in DOMAIN ops :
                    /\ ops[i].t - (lines[i].t - first) \in 0..Back
                    /\ ops[i].op = "READ" => ops[i].off = i - 1
    <2>0. FromLines(ops, lines, s)
      BY <1>1, <1>7, ImportedStream
    <2>1. /\ Len(ops) = Len(lines) /\ Len(ops) \in Nat /\ DOMAIN ops = 1..Len(ops)
          /\ \A i \in 1..Len(ops) :
              /\ ops[i].t \in Int
              /\ \A j \in 1..i : lines[j].abs - m <= ops[i].t
              /\ \E j \in 1..i : ops[i].t = lines[j].abs - m
      BY <2>0 DEF m, FromLines
    <2>1a. \A i \in 1..Len(ops) : ops[i].op = "READ" => ops[i].off = i - 1
      BY <2>0 DEF FromLines
    <2>2. PICK at : Selects(at, wall, s)
      BY <1>1, StreamIsSelected
    <2>3. /\ at \in [1..Len(ops) -> 1..N] /\ \A i, j \in 1..Len(ops) : i < j => at[i] < at[j]
          /\ \A i \in 1..Len(ops) : lines[i] = wall[at[i]]
      BY <1>7, <2>1, <2>2 DEF Selects, N
    <2>4. ASSUME NEW i \in 1..Len(ops) PROVE ops[i].t - (lines[i].t - first) \in 0..Back
      <3>1. i \in 1..i /\ \A j \in 1..i : j \in 1..Len(ops)
        BY <2>1
      <3>2. \A j \in 1..i : /\ at[j] \in 1..N /\ at[i] \in 1..N /\ lines[j] = wall[at[j]] /\ at[j] <= at[i]
        <4> SUFFICES ASSUME NEW j \in 1..i
                     PROVE  at[j] \in 1..N /\ at[i] \in 1..N /\ lines[j] = wall[at[j]] /\ at[j] <= at[i]
          OBVIOUS
        <4>1. at[j] \in 1..N /\ at[i] \in 1..N /\ lines[j] = wall[at[j]]
          BY <2>3, <3>1
        <4>2. j < i => at[j] < at[i]
          BY <2>3, <3>1
        <4>3. j = i \/ j < i
          BY <3>1
        <4> QED BY <1>1, <4>1, <4>2, <4>3 DEF N
      <3>3. PICK j \in 1..i : ops[i].t = lines[j].abs - m
        BY <2>1
      <3>4. lines[i].abs - m <= ops[i].t
        BY <2>1, <3>1
      <3> DEFINE ti == lines[i].t
                 tj == lines[j].t
                 ai == wall[at[i]].at
                 aj == wall[at[j]].at
      <3>5. ti \in Int /\ tj \in Int /\ ti \in {ai, ai - Back} /\ tj \in {aj, aj - Back} /\ aj <= ai
            /\ ai \in Int /\ aj \in Int
        BY <1>2, <1>3, <3>1, <3>2
      <3> DEFINE x  == ops[i].t
      <3>6a. lines[i].abs = ti + d /\ lines[j].abs = tj + d
        <4>1. at[i] \in 1..N /\ at[j] \in 1..N /\ lines[i] = wall[at[i]] /\ lines[j] = wall[at[j]]
          BY <3>1, <3>2
        <4> QED BY <1>4, <4>1
      <3>6. x = tj + d - m /\ ti + d - m <= x
        <4> DEFINE li == lines[i].abs
                   lj == lines[j].abs
        <4>1. x = lj - m /\ li - m <= x /\ li = ti + d /\ lj = tj + d
          BY <3>3, <3>4, <3>6a
        <4>2. ti \in Int /\ tj \in Int
          BY <3>5
        <4>3. d \in Int /\ m \in Int
          BY <1>4, <1>5
        <4> HIDE DEF ti, tj, li, lj, x
        <4> QED BY <4>1, <4>2, <4>3
      <3> HIDE DEF ti, tj, ai, aj, x
      <3>7. x - (ti - first) \in 0..Back
        <4>1. ti <= tj /\ tj <= ti + Back
          BY <1>1, <1>4, <1>5, <3>5, <3>6
        <4>2. x - (ti - first) = tj - ti
          BY <1>4, <1>5, <1>6, <3>5, <3>6
        <4> QED BY <1>1, <3>5, <4>1, <4>2
      <3> QED BY <3>7 DEF ti, x
    <2> QED BY <2>1, <2>1a, <2>4
  <1> QED BY <1>7 DEF first

-----------------------------------------------------------------------------
(* Only lines make an import, and its end its file. *)
LEMMA ImportInvariant == Spec => []ImportInv
  <1>1. Init => ImportInv
    <2> SUFFICES ASSUME Init, tool \in Imports PROVE MadeOfLines /\ InTime /\ phase = "making"
      BY DEF ImportInv
    <2>1. streams = [s \in Ranks |-> <<>>] /\ wall = <<>> /\ phase = "making"
      BY DEF Init, Imports
    <2>2. \A s \in Ranks : Len(OfStream(wall, s)) = 0
      <3> SUFFICES ASSUME NEW s \in Ranks PROVE Len(OfStream(wall, s)) = 0
        OBVIOUS
      <3>1. wall \in Seq(Stamped) /\ Len(wall) = 0
        BY <2>1
      <3>2. PICK at : Selects(at, wall, s)
        BY <3>1, StreamIsSelected
      <3>3. Len(OfStream(wall, s)) \in Nat
        BY <3>1, StreamIsSelected
      <3>4. \A i \in 1..Len(OfStream(wall, s)) : at[i] \in 1..0
        BY <3>1, <3>2 DEF Selects
      <3>5. 1..0 = {}
        OBVIOUS
      <3> QED BY <3>3, <3>4, <3>5
    <2>3. MadeOfLines
      BY <2>1, <2>2 DEF MadeOfLines
    <2> QED BY <2>1, <2>3 DEF InTime
  <1>2. ClockInv /\ RolloverFaithful /\ ImportInv /\ [Next]_vars => ImportInv'
    <2> SUFFICES ASSUME ClockInv, RolloverFaithful, ImportInv, [Next]_vars PROVE ImportInv'
      OBVIOUS
    <2>1. ASSUME UNCHANGED <<tool, params, streams, clock, wall, file>>, phase' = phase PROVE ImportInv'
      BY <2>1 DEF ImportInv, MadeOfLines, InTime, CallMade, RecordedDur, Used
    <2>2. CASE UNCHANGED vars
      BY <2>1, <2>2 DEF vars
    <2>3. ASSUME NEW s \in Ranks, NEW step \in Steps, NEW back \in {0, Back}, NEW dur \in Durs,
                 Line(s, step, back, dur)
          PROVE  ImportInv'
      BY <2>3, LineKeepsClock, LineIsMade
    <2>4. ASSUME ImportEnds PROVE ImportInv'
      <3>1. /\ wall # <<>> /\ UNCHANGED <<tool, params, streams, clock, wall>>
            /\ file' = TraceFile([s \in Used |-> streams[s]], 1)
            /\ phase' = IF Errors(file') = {} THEN "made" ELSE "refused"
        BY <2>4 DEF ImportEnds, Unmade, Used
      <3>2. tool \in Imports => MadeOfLines' /\ InTime'
        BY <3>1 DEF ImportInv, MadeOfLines, InTime, CallMade, RecordedDur
      <3>3. Used' = Used
        BY <3>1 DEF Used
      <3> QED BY <3>1, <3>2, <3>3 DEF ImportInv
    <2>5. ASSUME Checkpoint \/ Training \/ Check PROVE ImportInv'
      BY <2>5 DEF Checkpoint, Training, Check, Making, Unmade, ImportInv, Imports
    <2>6. ASSUME NEW shard, NEW draw, NEW order, Shards(shard, draw, order) PROVE ImportInv'
      BY <2>6 DEF Shards, Making, Unmade, ImportInv, Imports
    <2>7. ASSUME NEW op \in HandOps, Type(op) PROVE ImportInv'
      BY <2>7 DEF Type, Making, Unmade, ImportInv, Imports
    <2>8. ASSUME UNCHANGED <<tool, params, streams, clock, wall, file>>,
                 phase = "made", phase' \notin {"making", "refused"}
          PROVE  ImportInv'
      BY <2>8 DEF ImportInv, MadeOfLines, InTime, CallMade, RecordedDur, Used
    <2>9. ASSUME NEW b \in Blocks, Transform(b) PROVE ImportInv'
      <3>1. phase = "made" /\ phase' \in {"split", "broken"}
            /\ UNCHANGED <<tool, params, streams, clock, wall, file>>
        BY <2>9 DEF Transform
      <3> QED BY <2>8, <3>1
    <2>10. ASSUME NEW mode, NEW speed, NEW n, Pace(mode, speed, n) PROVE ImportInv'
      <3>1. phase = "made" /\ phase' = "replayed"
            /\ UNCHANGED <<tool, params, streams, clock, wall, file>>
        BY <2>10 DEF Pace
      <3> QED BY <2>8, <3>1
    <2>11. ASSUME Done PROVE ImportInv'
      BY <2>2, <2>11 DEF Done
    <2> QED BY <2>2, <2>3, <2>4, <2>5, <2>6, <2>7, <2>9, <2>10, <2>11 DEF Next
  <1> QED BY <1>1, <1>2, ClockInvariant, PTL DEF Spec

(* Every stream of an import has the calls of its program in their order, each *)
(* at its time to within a step of the clock back, for any length of the day, *)
(* any trace and any pauses of less than half a day (build.go:170).           *)
THEOREM TimesAreFaithful == Spec => []TimesFaithful
  <1>1. ClockInv /\ ImportInv /\ RolloverFaithful => TimesFaithful
    BY ImportKeepsTimes DEF TimesFaithful
  <1> QED BY <1>1, ClockInvariant, ImportInvariant, PTL

-----------------------------------------------------------------------------
(* Streams whose handles are opened once, and used on their stream between     *)
(* their OPEN and their CLOSE.                                                *)
KeepHandles(perStream) ==
  /\ \A s, r \in DOMAIN perStream : \A i \in 1..Len(perStream[s]), j \in 1..Len(perStream[r]) :
       perStream[s][i].op = "OPEN" /\ perStream[r][j].op = "OPEN" /\ perStream[s][i].h = perStream[r][j].h
         => s = r /\ i = j
  /\ \A s \in DOMAIN perStream : \A j \in 1..Len(perStream[s]) : perStream[s][j].op \in Uses =>
       \E i \in 1..(j - 1) :
         /\ perStream[s][i].op = "OPEN" /\ perStream[s][i].h = perStream[s][j].h
         /\ \A k \in (i + 1)..(j - 1) :
              ~(perStream[s][k].op = "CLOSE" /\ perStream[s][k].h = perStream[s][j].h)

(* Where the operations of each stream went. *)
Kept(at, ops, perStream) ==
  /\ \A n \in 1..Len(ops) :
       /\ ops[n].op_id = n - 1
       /\ \E s \in DOMAIN perStream : \E i \in 1..Len(perStream[s]) :
            /\ ops[n].s = s /\ at[s][i] = n
            /\ \A f \in DOMAIN BlankOp \ {"op_id"} : ops[n][f] = perStream[s][i][f]
  /\ \A s \in DOMAIN perStream :
       /\ \A i \in 1..Len(perStream[s]) :
            /\ at[s][i] \in 1..Len(ops) /\ ops[at[s][i]].s = s
            /\ \A f \in DOMAIN BlankOp \ {"op_id"} : ops[at[s][i]][f] = perStream[s][i][f]
       /\ \A i, j \in 1..Len(perStream[s]) : i < j <=> at[s][i] < at[s][j]

(* A merge holds every operation of its streams but for its number. *)
LEMMA MergeKeepsAll ==
  ASSUME NEW perStream, Streams(perStream, MadeOps)
  PROVE  /\ \E at : Kept(at, InOrder(perStream), perStream)
         /\ InOrder(perStream) \in Seq(MadeOps)
  <1> DEFINE ops == InOrder(perStream)
             D   == DOMAIN perStream
             at  == [s \in D |-> CHOOSE a : Keeps(a, ops, perStream, s)]
  <1>1. Interleaves(ops, perStream) /\ Len(ops) \in Nat /\ DOMAIN ops = 1..Len(ops)
    BY MergeInterleaves
  <1>2. \A s \in D : /\ perStream[s] \in Seq(MadeOps) /\ Len(perStream[s]) \in Nat
                     /\ \A i \in 1..Len(perStream[s]) : perStream[s][i] \in MadeOps /\ perStream[s][i].s = s
    <2> SUFFICES ASSUME NEW s \in D
                 PROVE  /\ perStream[s] \in Seq(MadeOps) /\ Len(perStream[s]) \in Nat
                        /\ \A i \in 1..Len(perStream[s]) : perStream[s][i] \in MadeOps /\ perStream[s][i].s = s
      OBVIOUS
    <2>1. perStream[s] \in Seq(MadeOps) /\ \A i \in 1..Len(perStream[s]) : perStream[s][i].s = s
      BY DEF Streams
    <2> QED BY <2>1
  <1> HIDE DEF ops
  <1>3. \A s \in D : Keeps(at[s], ops, perStream, s)
    <2> SUFFICES ASSUME NEW s \in D PROVE Keeps(at[s], ops, perStream, s)
      OBVIOUS
    <2>1. \E a : Keeps(a, ops, perStream, s)
      BY <1>1 DEF Interleaves
    <2>2. at[s] = CHOOSE a : Keeps(a, ops, perStream, s)
      OBVIOUS
    <2> HIDE DEF at
    <2> QED BY <2>1, <2>2, Zenon
  <1> HIDE DEF at
  <1>4. ASSUME NEW s \in D, NEW i \in 1..Len(perStream[s])
        PROVE  /\ at[s][i] \in 1..Len(ops) /\ ops[at[s][i]].s = s /\ ops[at[s][i]] \in MadeOps
               /\ ops[at[s][i]].op_id = at[s][i] - 1
               /\ \A f \in DOMAIN BlankOp \ {"op_id"} : ops[at[s][i]][f] = perStream[s][i][f]
    <2> DEFINE o == perStream[s][i]
               n == at[s][i]
    <2>1. n \in 1..Len(ops) /\ ops[n] = [o EXCEPT !.op_id = n - 1]
      BY <1>3 DEF Keeps
    <2>2. o \in MadeOps /\ o.s = s /\ n - 1 \in Int /\ "s" \in DOMAIN BlankOp \ {"op_id"}
      BY <1>1, <1>2, <2>1 DEF BlankOp
    <2> HIDE DEF o, n
    <2>3. /\ ops[n] \in MadeOps /\ ops[n].op_id = n - 1
          /\ \A f \in DOMAIN BlankOp \ {"op_id"} : ops[n][f] = o[f]
      BY <2>1, <2>2, MadeOpChanged
    <2>4. ops[n].s = s
      BY <2>2, <2>3
    <2> QED BY <2>1, <2>3, <2>4 DEF o, n
  <1>5. ASSUME NEW n \in 1..Len(ops)
        PROVE  \E s \in D : \E i \in 1..Len(perStream[s]) : ops[n].s = s /\ at[s][i] = n
    <2>1. PICK s \in D : \E i \in 1..Len(perStream[s]) : ops[n] = [perStream[s][i] EXCEPT !.op_id = n - 1]
      BY <1>1 DEF Interleaves
    <2>2. PICK i \in 1..Len(perStream[s]) : ops[n] = [perStream[s][i] EXCEPT !.op_id = n - 1]
      BY <2>1
    <2> DEFINE o == perStream[s][i]
    <2>3. o \in MadeOps /\ o.s = s /\ n - 1 \in Int /\ "s" \in DOMAIN BlankOp \ {"op_id"}
      BY <1>1, <1>2 DEF BlankOp
    <2> HIDE DEF o
    <2>4. ops[n] = [o EXCEPT !.op_id = n - 1]
      BY <2>2 DEF o
    <2>5. ops[n].s = s
      BY <2>3, <2>4, MadeOpChanged
    <2>6. PICK k \in 1..Len(perStream[s]) : at[s][k] = n
      BY <1>3, <2>5 DEF Keeps
    <2> QED BY <2>5, <2>6
  <1>6. ASSUME NEW s \in D, NEW i \in 1..Len(perStream[s]), NEW j \in 1..Len(perStream[s])
        PROVE  i < j <=> at[s][i] < at[s][j]
    <2>1. (i < j => at[s][i] < at[s][j]) /\ (j < i => at[s][j] < at[s][i])
      BY <1>3 DEF Keeps
    <2>2. at[s][i] \in 1..Len(ops) /\ at[s][j] \in 1..Len(ops)
      BY <1>4
    <2>3. at[s][i] \in Int /\ at[s][j] \in Int /\ i \in Int /\ j \in Int
      BY <1>1, <1>2, <2>2
    <2>4. i = j => at[s][i] = at[s][j]
      OBVIOUS
    <2> DEFINE x == at[s][i]
               y == at[s][j]
    <2> HIDE DEF x, y
    <2>5. (i < j => x < y) /\ (j < i => y < x) /\ x \in Int /\ y \in Int /\ (i = j => x = y)
      BY <2>1, <2>3, <2>4 DEF x, y
    <2>6. i < j <=> x < y
      BY <2>3, <2>5
    <2> QED BY <2>6 DEF x, y
  <1>7. Kept(at, ops, perStream)
    <2>1. \A n \in 1..Len(ops) :
            /\ ops[n].op_id = n - 1
            /\ \E s \in DOMAIN perStream : \E i \in 1..Len(perStream[s]) :
                 /\ ops[n].s = s /\ at[s][i] = n
                 /\ \A f \in DOMAIN BlankOp \ {"op_id"} : ops[n][f] = perStream[s][i][f]
      <3> SUFFICES ASSUME NEW n \in 1..Len(ops)
                   PROVE  /\ ops[n].op_id = n - 1
                          /\ \E s \in DOMAIN perStream : \E i \in 1..Len(perStream[s]) :
                               /\ ops[n].s = s /\ at[s][i] = n
                               /\ \A f \in DOMAIN BlankOp \ {"op_id"} : ops[n][f] = perStream[s][i][f]
        OBVIOUS
      <3>1. PICK s \in D : \E i \in 1..Len(perStream[s]) : ops[n].s = s /\ at[s][i] = n
        BY <1>5
      <3>2. PICK i \in 1..Len(perStream[s]) : ops[n].s = s /\ at[s][i] = n
        BY <3>1
      <3>3. ops[n].op_id = n - 1 /\ \A f \in DOMAIN BlankOp \ {"op_id"} : ops[n][f] = perStream[s][i][f]
        BY <1>4, <3>2
      <3> QED BY <3>2, <3>3
    <2> QED BY <1>4, <1>6, <2>1 DEF Kept
  <1>8. ops \in Seq(MadeOps)
    <2>1. \A n \in 1..Len(ops) : ops[n] \in MadeOps
      <3> SUFFICES ASSUME NEW n \in 1..Len(ops) PROVE ops[n] \in MadeOps
        OBVIOUS
      <3>1. PICK s \in D : \E i \in 1..Len(perStream[s]) : ops[n].s = s /\ at[s][i] = n
        BY <1>5
      <3> QED BY <1>4, <3>1
    <2>2. ops = [n \in 1..Len(ops) |-> ops[n]]
      <3>1. ops = [n \in DOMAIN ops |-> ops[n]]
        BY DEF ops, InOrder
      <3> QED BY <1>1, <3>1
    <2> QED BY <1>1, <2>1, <2>2
  <1> QED BY <1>7, <1>8 DEF ops

(* An operation that is legal but for its number is, once numbered. *)
Numberable(tr, op) == \A n \in Nat : Shaped(tr, [op EXCEPT !.op_id = n])

(* A merge of streams that keep their handles is legal, under a header that    *)
(* says what it holds.                                                        *)
LEMMA MergeIsLegal ==
  ASSUME NEW perStream, Streams(perStream, MadeOps), KeepHandles(perStream),
         NEW tr, tr.ops = InOrder(perStream), tr.version \in 1..3,
         NEW duration \in Nat, tr.summary = Summary(tr.ops, duration),
         \A s \in DOMAIN perStream : \A i \in 1..Len(perStream[s]) : Numberable(tr, perStream[s][i])
  PROVE  Errors(tr) = {} /\ tr.ops \in Seq(MadeOps)
  <1> DEFINE ops == tr.ops
             D   == DOMAIN perStream
             L(s) == Len(perStream[s])
  <1>1. ops \in Seq(MadeOps) /\ ops = InOrder(perStream) /\ Typed(MadeOps)
    BY MergeKeepsAll, MadeOpsTyped
  <1>2. Interleaves(ops, perStream) /\ Len(ops) \in Nat /\ DOMAIN ops = 1..Len(ops)
    BY <1>1, MergeInterleaves
  <1>3. PICK at : Kept(at, ops, perStream)
    BY <1>1, MergeKeepsAll
  <1>3a. \A s \in D : L(s) \in Nat
    <2> SUFFICES ASSUME NEW s \in D PROVE L(s) \in Nat
      OBVIOUS
    <2>1. perStream[s] \in Seq(MadeOps)
      BY DEF Streams
    <2> QED BY <2>1
  <1> HIDE DEF ops
  <1>4. ASSUME NEW n \in 1..Len(ops)
        PROVE  /\ Shaped(tr, ops[n])
               /\ \E s \in D : \E i \in 1..L(s) :
                    /\ ops[n].s = s /\ at[s][i] = n
                    /\ ops[n].op = perStream[s][i].op /\ ops[n].h = perStream[s][i].h
    <2>1. \E s \in D : \E i \in 1..L(s) : ops[n] = [perStream[s][i] EXCEPT !.op_id = n - 1]
      BY <1>2 DEF Interleaves
    <2>2. Shaped(tr, ops[n])
      <3>1. PICK s \in D : \E i \in 1..L(s) : ops[n] = [perStream[s][i] EXCEPT !.op_id = n - 1]
        BY <2>1
      <3>2. PICK i \in 1..L(s) : ops[n] = [perStream[s][i] EXCEPT !.op_id = n - 1]
        BY <3>1
      <3>3. Numberable(tr, perStream[s][i]) /\ n - 1 \in Nat
        BY <1>2
      <3> QED BY <3>2, <3>3 DEF Numberable
    <2>3. {"op", "h"} \subseteq DOMAIN BlankOp \ {"op_id"}
      BY DEF BlankOp
    <2>4. PICK s \in D : \E i \in 1..L(s) : /\ ops[n].s = s /\ at[s][i] = n
                              /\ \A f \in DOMAIN BlankOp \ {"op_id"} : ops[n][f] = perStream[s][i][f]
      BY <1>3 DEF Kept
    <2>5. PICK i \in 1..L(s) : /\ ops[n].s = s /\ at[s][i] = n
                              /\ \A f \in DOMAIN BlankOp \ {"op_id"} : ops[n][f] = perStream[s][i][f]
      BY <2>4
    <2>6. ops[n].op = perStream[s][i].op /\ ops[n].h = perStream[s][i].h
      BY <2>3, <2>5
    <2> QED BY <2>2, <2>5, <2>6
  <1>5. Orderly(ops)
    <2>1. \A n \in 1..Len(ops) : ops[n].op_id = n - 1
      BY <1>3 DEF Kept
    <2>2. \A n, m \in 1..Len(ops) : n <= m => ops[n].t <= ops[m].t
      BY <1>2 DEF Interleaves
    <2>3. \A n, m \in 1..Len(ops) : n < m => n <= m /\ n - 1 < m - 1 /\ n - 1 # m - 1
      BY <1>2
    <2> QED BY <1>2, <2>1, <2>2, <2>3 DEF Orderly
  <1>6. \A s, r \in D : \A i \in 1..L(s), j \in 1..L(r) :
          perStream[s][i].op = "OPEN" /\ perStream[r][j].op = "OPEN" /\ perStream[s][i].h = perStream[r][j].h
            => s = r /\ i = j
    BY DEF KeepHandles
  <1>7. \A s \in D : \A j \in 1..L(s) : perStream[s][j].op \in Uses =>
          \E i \in 1..(j - 1) :
            /\ perStream[s][i].op = "OPEN" /\ perStream[s][i].h = perStream[s][j].h
            /\ \A k \in (i + 1)..(j - 1) :
                 ~(perStream[s][k].op = "CLOSE" /\ perStream[s][k].h = perStream[s][j].h)
    BY DEF KeepHandles
  <1>8. \A s \in D : \A i \in 1..L(s) :
          /\ at[s][i] \in 1..Len(ops) /\ ops[at[s][i]].s = s
          /\ ops[at[s][i]].op = perStream[s][i].op /\ ops[at[s][i]].h = perStream[s][i].h
    <2>1. {"op", "h"} \subseteq DOMAIN BlankOp \ {"op_id"}
      BY DEF BlankOp
    <2> QED BY <1>3, <2>1 DEF Kept
  <1>9. \A s \in D : \A i, j \in 1..L(s) : i < j <=> at[s][i] < at[s][j]
    BY <1>3 DEF Kept
  <1> HIDE DEF L
  <1>10. Lifecycles(ops)
    <2>1. ASSUME NEW n \in 1..Len(ops), NEW m \in 1..Len(ops),
                 ops[n].op = "OPEN", ops[m].op = "OPEN", ops[n].h = ops[m].h
          PROVE  n = m
      <3>1. PICK s \in D : \E i \in 1..L(s) :
              at[s][i] = n /\ ops[n].op = perStream[s][i].op /\ ops[n].h = perStream[s][i].h
        BY <1>4
      <3>2. PICK i \in 1..L(s) : at[s][i] = n /\ ops[n].op = perStream[s][i].op /\ ops[n].h = perStream[s][i].h
        BY <3>1
      <3>3. PICK r \in D : \E j \in 1..L(r) :
              at[r][j] = m /\ ops[m].op = perStream[r][j].op /\ ops[m].h = perStream[r][j].h
        BY <1>4
      <3>4. PICK j \in 1..L(r) : at[r][j] = m /\ ops[m].op = perStream[r][j].op /\ ops[m].h = perStream[r][j].h
        BY <3>3
      <3>5. s = r /\ i = j
        <4>1. /\ perStream[s][i].op = "OPEN" /\ perStream[r][j].op = "OPEN"
              /\ perStream[s][i].h = perStream[r][j].h
          BY <2>1, <3>2, <3>4
        <4>2. \A k \in 1..L(s), l \in 1..L(r) :
                perStream[s][k].op = "OPEN" /\ perStream[r][l].op = "OPEN" /\ perStream[s][k].h = perStream[r][l].h
                  => s = r /\ k = l
          BY <1>6
        <4> QED BY <4>1, <4>2
      <3> QED BY <3>2, <3>4, <3>5
    <2>2. ASSUME NEW m \in 1..Len(ops), ops[m].op \in Uses
          PROVE  \E n \in 1..(m - 1) :
                   /\ ops[n].op = "OPEN" /\ ops[n].h = ops[m].h /\ ops[n].s = ops[m].s
                   /\ \A k \in (n + 1)..(m - 1) : ~(ops[k].op = "CLOSE" /\ ops[k].h = ops[m].h)
      <3>1. PICK s \in D : \E j \in 1..L(s) :
              ops[m].s = s /\ at[s][j] = m /\ ops[m].op = perStream[s][j].op /\ ops[m].h = perStream[s][j].h
        BY <1>4
      <3>2. PICK j \in 1..L(s) :
              ops[m].s = s /\ at[s][j] = m /\ ops[m].op = perStream[s][j].op /\ ops[m].h = perStream[s][j].h
        BY <3>1
      <3>3. PICK i \in 1..(j - 1) :
              /\ perStream[s][i].op = "OPEN" /\ perStream[s][i].h = ops[m].h
              /\ \A k \in (i + 1)..(j - 1) : ~(perStream[s][k].op = "CLOSE" /\ perStream[s][k].h = ops[m].h)
        BY <1>7, <2>2, <3>2
      <3>4. i \in 1..L(s) /\ i < j
        <4>1. L(s) \in Nat
          BY <1>3a
        <4> QED BY <3>2, <3>3, <4>1
      <3> DEFINE n == at[s][i]
      <3>5. n \in 1..Len(ops) /\ n < m /\ ops[n].op = "OPEN" /\ ops[n].h = ops[m].h /\ ops[n].s = s
        BY <1>8, <1>9, <3>2, <3>3, <3>4
      <3>6. n \in 1..(m - 1)
        BY <1>2, <3>5
      <3>7. ASSUME NEW k \in (n + 1)..(m - 1), ops[k].op = "CLOSE", ops[k].h = ops[m].h PROVE FALSE
        <4>1. k \in 1..Len(ops) /\ n < k /\ k < m
          BY <1>2, <3>5
        <4>2. PICK r \in D : \E q \in 1..L(r) :
                at[r][q] = k /\ ops[k].op = perStream[r][q].op /\ ops[k].h = perStream[r][q].h
          BY <1>4, <4>1
        <4>3. PICK q \in 1..L(r) : at[r][q] = k /\ ops[k].op = perStream[r][q].op /\ ops[k].h = perStream[r][q].h
          BY <4>2
        <4>4. perStream[r][q].op \in Uses
          BY <3>7, <4>3 DEF Uses
        <4>5. PICK p \in 1..(q - 1) : perStream[r][p].op = "OPEN" /\ perStream[r][p].h = perStream[r][q].h
          BY <1>7, <4>4 DEF L
        <4>6. p \in 1..L(r)
          BY <1>3a, <4>3, <4>5 DEF L
        <4>7. r = s
          BY <1>6, <3>3, <3>4, <3>7, <4>3, <4>5, <4>6
        <4>8. i < q /\ q < j
          BY <1>9, <3>2, <3>4, <4>1, <4>3, <4>7
        <4>9. q \in (i + 1)..(j - 1)
          BY <1>3a, <3>2, <3>4, <4>3, <4>7, <4>8 DEF L
        <4> QED BY <3>3, <3>7, <4>3, <4>7, <4>9
      <3> QED BY <3>2, <3>5, <3>6, <3>7
    <2> QED BY <1>2, <2>1, <2>2 DEF Lifecycles
  <1>11. \A n \in DOMAIN ops : Shaped(tr, ops[n])
    BY <1>2, <1>4
  <1>12. SummaryErrors(tr) \cup HeaderErrors(tr) = {}
    BY <1>1, <1>11, HonestHeader DEF ops
  <1>13. Errors(tr) = {}
    <2>1. tr.version \in Int
      OBVIOUS
    <2> QED BY <1>1, <1>5, <1>10, <1>11, <1>12, <2>1, AcceptsExactly DEF ops
  <1> QED BY <1>1, <1>13 DEF ops

(* An import is made of nothing the validator refuses. *)
LEMMA ImportsAccepted ==
  ASSUME tool \in Imports, ClockInv, ImportInv, wall # <<>>
  PROVE  /\ Errors(TraceFile(Lines, 1)) = {} /\ TraceFile(Lines, 1).ops \in Seq(MadeOps)
         /\ TraceFile(Lines, 1).version \in Int
         /\ \E duration \in Nat : TraceFile(Lines, 1).summary = Summary(TraceFile(Lines, 1).ops, duration)
  <1> DEFINE tr  == TraceFile(Lines, 1)
             ops == InOrder(Rebased)
             m   == MinTimestamp(Lines)
  <1>1. /\ Streams(Rebased, MadeOps) /\ DOMAIN Rebased = Used
        /\ \A s \in Used : Rebased[s] = Clamped(streams[s], m)
        /\ tr.ops = ops /\ ops = Merged(Lines)
    <2>1. tr.ops = Merged(Lines)
      BY DEF TraceFile
    <2> QED BY <2>1, RebasedStreams
  <1>2. tr.version = VersionFor(ops) /\ tr.targets = 1
        /\ tr.summary = Summary(ops, IF ops = <<>> THEN 0 ELSE Last(ops).t)
    BY <1>1 DEF TraceFile
  <1>3. m \in Int /\ \A n \in 1..Len(wall) : m <= wall[n].abs
    BY FirstLine
  <1>4. ops \in Seq(MadeOps)
    BY <1>1, MergeKeepsAll
  <1> HIDE DEF tr, ops, m
  <1>5. ASSUME NEW s \in Used, NEW i \in 1..Len(Rebased[s])
        PROVE  /\ Rebased[s][i] \in MadeOps /\ Rebased[s][i].t \in Nat
               /\ Rebased[s][i].s = s /\ Rebased[s][i].h = s /\ s \in Int /\ i \in Nat \ {0}
               /\ Rebased[s][i].ret = None /\ Rebased[s][i].dur \in Nat \cup {None}
               /\ i = 1 => /\ Rebased[s][i].op = "OPEN" /\ Rebased[s][i].off = None
                           /\ Rebased[s][i].tgt = 0 /\ Rebased[s][i].mode = "rw"
                           /\ Rebased[s][i].len = None
               /\ i # 1 => /\ Rebased[s][i].op = "READ" /\ Rebased[s][i].off = i - 1
                           /\ Rebased[s][i].tgt = None /\ Rebased[s][i].mode = None
                           /\ Rebased[s][i].len = 1
    <2> DEFINE cl    == Clamped(streams[s], m)
               lines == OfStream(wall, s)
               L     == Len(streams[s])
               o     == CallMade(s, lines[i], i)
    <2>1. /\ s \in Ranks /\ streams[s] \in Seq(MadeOps) /\ L = Len(lines) /\ L \in Nat
          /\ \A k \in 1..L : streams[s][k] = CallMade(s, lines[k], k)
      BY DEF ImportInv, MadeOfLines, Used
    <2>2. /\ cl \in Seq(MadeOps) /\ Len(cl) = L /\ Rebased[s] = cl
      BY <1>1, <1>3, <2>1, ClampedInOrder
    <2>3. i \in 1..L /\ i \in Nat \ {0}
      BY <2>1, <2>2
    <2>4. /\ \A f \in DOMAIN BlankOp \ {"t"} : cl[i][f] = streams[s][i][f]
          /\ \A j \in 1..i : streams[s][j].t - m <= cl[i].t
      BY <1>3, <2>1, <2>3, ClampedInOrder
    <2>5. lines \in Seq(Stamped) /\ wall \in Seq(Stamped)
      BY StreamIsSelected DEF ClockInv
    <2>6. lines[i] \in Stamped
      BY <2>1, <2>3, <2>5
    <2>7. streams[s][i] = o /\ s \in Int
      BY <2>1, <2>3, ToolsAssumption
    <2>8. /\ o.t = lines[i].abs /\ o.s = s /\ o.h = s /\ o.ret = None /\ o.dur \in Nat \cup {None}
          /\ i = 1 => o.op = "OPEN" /\ o.off = None /\ o.tgt = 0 /\ o.mode = "rw" /\ o.len = None
          /\ i # 1 => o.op = "READ" /\ o.off = i - 1 /\ o.tgt = None /\ o.mode = None /\ o.len = 1
      BY <2>1, <2>3, <2>6, CallIsMade
    <2>9. {"s", "h", "ret", "dur", "op", "off", "tgt", "mode", "len"} \subseteq DOMAIN BlankOp \ {"t"}
      BY DEF BlankOp
    <2>10. cl[i] \in MadeOps
      BY <2>2, <2>3
    <2>11. cl[i].t \in Nat
      <3>1. PICK at : Selects(at, wall, s)
        BY <2>5, StreamIsSelected
      <3>2. lines[i] = wall[at[i]] /\ at[i] \in 1..Len(wall)
        BY <2>1, <2>3, <3>1 DEF Selects
      <3>3. m <= lines[i].abs /\ lines[i].abs \in Int
        BY <1>3, <2>6, <3>2 DEF Stamped
      <3>4. i \in 1..i
        BY <2>3
      <3>5. lines[i].abs - m <= cl[i].t /\ cl[i].t \in Int
        <4>1. \A x \in MadeOps : x.t \in Int
          BY DEF MadeOps
        <4> QED BY <2>4, <2>7, <2>8, <2>10, <3>4, <4>1
      <3> HIDE DEF cl, lines
      <3> QED BY <1>3, <3>3, <3>5
    <2> HIDE DEF cl, o, L, lines
    <2>12. /\ cl[i].s = o.s /\ cl[i].h = o.h /\ cl[i].ret = o.ret /\ cl[i].dur = o.dur /\ cl[i].op = o.op
           /\ cl[i].off = o.off /\ cl[i].tgt = o.tgt /\ cl[i].mode = o.mode /\ cl[i].len = o.len
      BY <2>4, <2>7, <2>9
    <2> QED BY <2>2, <2>3, <2>7, <2>8, <2>10, <2>11, <2>12
  <1>6. KeepHandles(Rebased)
    <2>1. ASSUME NEW s \in Used, NEW r \in Used, NEW i \in 1..Len(Rebased[s]), NEW j \in 1..Len(Rebased[r]),
                 Rebased[s][i].op = "OPEN", Rebased[r][j].op = "OPEN", Rebased[s][i].h = Rebased[r][j].h
          PROVE  s = r /\ i = j
      <3>1. i = 1 /\ j = 1
        BY <1>5, <2>1
      <3>2. Rebased[s][i].h = s /\ Rebased[r][j].h = r
        BY <1>5
      <3> QED BY <2>1, <3>1, <3>2
    <2>2. ASSUME NEW s \in Used, NEW j \in 1..Len(Rebased[s]), Rebased[s][j].op \in Uses
          PROVE  \E i \in 1..(j - 1) :
                   /\ Rebased[s][i].op = "OPEN" /\ Rebased[s][i].h = Rebased[s][j].h
                   /\ \A k \in (i + 1)..(j - 1) :
                        ~(Rebased[s][k].op = "CLOSE" /\ Rebased[s][k].h = Rebased[s][j].h)
      <3>1. j # 1 /\ j \in Nat \ {0}
        BY <1>5, <2>2 DEF Uses
      <3>2. Len(Rebased[s]) \in Nat
        <4>1. Rebased[s] \in Seq(MadeOps)
          BY <1>1 DEF Streams
        <4> QED BY <4>1
      <3>3. 1 \in 1..(j - 1) /\ 1 \in 1..Len(Rebased[s]) /\ \A k \in 1..(j - 1) : k \in 1..Len(Rebased[s])
        BY <3>1, <3>2
      <3>4. Rebased[s][1].op = "OPEN" /\ Rebased[s][1].h = s /\ Rebased[s][j].h = s
        BY <1>5, <3>3
      <3>5. \A k \in (1 + 1)..(j - 1) : Rebased[s][k].op # "CLOSE"
        <4> SUFFICES ASSUME NEW k \in (1 + 1)..(j - 1) PROVE Rebased[s][k].op # "CLOSE"
          OBVIOUS
        <4>1. k \in 1..Len(Rebased[s]) /\ k # 1
          BY <3>1, <3>3
        <4> QED BY <1>5, <4>1
      <3> QED BY <3>3, <3>4, <3>5
    <2> QED BY <1>1, <2>1, <2>2 DEF KeepHandles
  <1>7. \A s \in Used : \A i \in 1..Len(Rebased[s]) : Numberable(tr, Rebased[s][i])
    <2> SUFFICES ASSUME NEW s \in Used, NEW i \in 1..Len(Rebased[s]), NEW n \in Nat
                 PROVE  Shaped(tr, [Rebased[s][i] EXCEPT !.op_id = n])
      BY DEF Numberable
    <2> DEFINE o == Rebased[s][i]
               x == [o EXCEPT !.op_id = n]
    <2>1. o \in MadeOps /\ n \in Int
      BY <1>5
    <2>2. {"s", "h", "ret", "dur", "op", "off", "tgt", "mode", "len"} \subseteq DOMAIN BlankOp \ {"op_id"}
      BY DEF BlankOp
    <2>3. /\ o.h = s /\ s \in Int /\ i \in Nat \ {0} /\ o.ret = None /\ o.dur \in Nat \cup {None}
          /\ i = 1 => o.op = "OPEN" /\ o.off = None /\ o.tgt = 0 /\ o.mode = "rw" /\ o.len = None
          /\ i # 1 => o.op = "READ" /\ o.off = i - 1 /\ o.tgt = None /\ o.mode = None /\ o.len = 1
      BY <1>5
    <2> HIDE DEF o
    <2>4. x.op_id = n /\ \A f \in DOMAIN BlankOp \ {"op_id"} : x[f] = o[f]
      BY <2>1, MadeOpChanged
    <2> HIDE DEF x
    <2>5. /\ x.h = s /\ x.ret = None /\ x.dur \in Nat \cup {None} /\ x.op_id = n
          /\ i = 1 => x.op = "OPEN" /\ x.off = None /\ x.tgt = 0 /\ x.mode = "rw" /\ x.len = None
          /\ i # 1 => x.op = "READ" /\ x.off = i - 1 /\ x.tgt = None /\ x.mode = None /\ x.len = 1
      BY <2>2, <2>3, <2>4
    <2>6. None \notin Int
      BY HandAssumption
    <2>7. CASE i = 1
      BY <1>2, <2>3, <2>5, <2>6, <2>7 DEF Shaped, Kinds, Uses, x, o
    <2>8. CASE i # 1
      BY <1>2, <2>3, <2>5, <2>6, <2>8 DEF Shaped, Kinds, Uses, x, o
    <2> QED BY <2>7, <2>8
  <1>8. tr.version \in 1..3
    BY <1>2 DEF VersionFor
  <1>9. (IF ops = <<>> THEN 0 ELSE Last(ops).t) \in Nat
    <2>1. ASSUME ops # <<>> PROVE Last(ops).t \in Nat
      <3> DEFINE n == Len(ops)
      <3>1. n \in 1..n /\ Interleaves(ops, Rebased)
        <4>1. n \in Nat /\ n # 0
          BY <1>4, <2>1
        <4>2. Interleaves(ops, Rebased)
          BY <1>1, MergeInterleaves DEF ops
        <4> QED BY <4>1, <4>2
      <3> HIDE DEF n
      <3>2. PICK s \in Used : \E i \in 1..Len(Rebased[s]) : ops[n] = [Rebased[s][i] EXCEPT !.op_id = n - 1]
        BY <1>1, <3>1 DEF Interleaves, n
      <3>3. PICK i \in 1..Len(Rebased[s]) : ops[n] = [Rebased[s][i] EXCEPT !.op_id = n - 1]
        BY <3>2
      <3>4. Rebased[s][i] \in MadeOps /\ Rebased[s][i].t \in Nat /\ n - 1 \in Int
        BY <1>4, <1>5 DEF n
      <3>5. "t" \in DOMAIN BlankOp \ {"op_id"}
        BY DEF BlankOp
      <3>6. ops[n].t = Rebased[s][i].t
        BY <3>3, <3>4, <3>5, MadeOpChanged
      <3> QED BY <3>4, <3>6 DEF Last, n
    <2> QED BY <2>1
  <1>10. Errors(tr) = {}
    <2> DEFINE duration == IF ops = <<>> THEN 0 ELSE Last(ops).t
    <2>1. duration \in Nat /\ tr.summary = Summary(tr.ops, duration)
      BY <1>1, <1>2, <1>9
    <2> HIDE DEF duration
    <2>2. tr.ops = InOrder(Rebased)
      BY <1>1 DEF ops
    <2> QED BY <1>1, <1>6, <1>7, <1>8, <2>1, <2>2, MergeIsLegal
  <1>11. tr.version \in Int /\ \E duration \in Nat : tr.summary = Summary(tr.ops, duration)
    BY <1>1, <1>2, <1>8, <1>9
  <1> QED BY <1>1, <1>4, <1>10, <1>11 DEF tr

(* A trace made from a log is accepted: whatever lines the importer read, at   *)
(* whatever times, the file it writes is one the validator finds no fault in.  *)
THEOREM ImportsAreAccepted == Spec => [](tool \in Imports => phase # "refused")
  <1>1. ASSUME ClockInv, ImportInv, tool \in Imports
        PROVE  phase # "refused"
    <2> SUFFICES ASSUME phase = "refused" PROVE FALSE
      OBVIOUS
    <2>1. wall # <<>> /\ file = TraceFile(Lines, 1) /\ Errors(file) # {}
      BY <1>1 DEF ImportInv, Lines
    <2> QED BY <1>1, <2>1, ImportsAccepted
  <1> QED BY <1>1, ClockInvariant, ImportInvariant, PTL

-----------------------------------------------------------------------------
(* What is defined by recursion over the positions of a sequence exists.      *)
Recurs(f, base, next, S) == f[0] = base /\ \A n \in S : f[n] = next[n][f[n - 1]]

(* A function that each number's step makes from the one before exists. *)
LEMMA RecursionExists ==
  ASSUME NEW N \in Nat, NEW S, S = 1..N, NEW X, NEW base \in X, NEW next \in [S -> [X -> X]]
  PROVE  \E f \in [0..N -> X] : Recurs(f, base, next, S)
  <1>0. S = 1..N
    OBVIOUS
  <1>1. PICK fold \in [SUBSET S -> X] : FoldsPrefixes(base, next, S, fold)
    BY <1>0, PrefixFoldExists, Zenon
  <1> DEFINE f == [n \in 0..N |-> fold[1..n]]
  <1>2. f \in [0..N -> X]
    <2>1. \A n \in 0..N : 1..n \in SUBSET S
      BY <1>0
    <2> QED BY <2>1
  <1>3. f[0] = base
    <2>1. 1..0 = {} /\ {} \in SUBSET S /\ 0 \in 0..N
      OBVIOUS
    <2> QED BY <1>1, <2>1 DEF FoldsPrefixes
  <1>4. ASSUME NEW n \in S PROVE f[n] = next[n][f[n - 1]]
    <2>0. n \in 1..N
      BY <1>0
    <2>1. 1..n \in SUBSET S /\ 1..n # {} /\ n \in 0..N /\ n - 1 \in 0..N
      BY <1>0, <2>0, LastOfPrefix, Zenon
    <2>2. Max(1..n) = n /\ (1..n) \ {n} = 1..(n - 1)
      BY <2>0, LastOfPrefix, Zenon
    <2>3. fold[1..n] = next[n][fold[1..(n - 1)]]
      BY <1>1, <2>1, <2>2, Zenon DEF FoldsPrefixes
    <2> QED BY <2>1, <2>3
  <1> HIDE DEF f
  <1>5. Recurs(f, base, next, S)
    BY <1>3, <1>4 DEF Recurs
  <1> QED BY <1>2, <1>5

(* Sequences laid end to end: where each ends, and what is where.             *)
Laid(ends, all, parts) ==
  /\ ends \in [0..Len(parts) -> Nat] /\ ends[0] = 0
  /\ \A i \in 1..Len(parts) : ends[i] = ends[i - 1] + Len(parts[i])
  /\ Len(all) = ends[Len(parts)]
  /\ \A i \in 1..Len(parts) : \A k \in 1..Len(parts[i]) : all[ends[i - 1] + k] = parts[i][k]

(* The function FlattenSeq defines. *)
Flattening(flat, parts) ==
  flat = [i \in 1..Len(parts) |-> IF i = 1 THEN parts[i] ELSE flat[i - 1] \o parts[i]]

(* FlattenSeq is what the function it chooses has at the end. *)
LEMMA FlattenExpands ==
  ASSUME NEW parts, Len(parts) # 0
  PROVE  FlattenSeq(parts) = (CHOOSE flat : Flattening(flat, parts))[Len(parts)]
  BY Zenon DEF FlattenSeq, Flattening

(* What is at which place of two sequences, one after the other. *)
LEMMA EndToEnd ==
  ASSUME NEW X
  PROVE  \A s, r \in Seq(X) :
         /\ s \o r \in Seq(X) /\ Len(s \o r) = Len(s) + Len(r) /\ Len(s) \in Nat /\ Len(r) \in Nat
         /\ \A k \in 1..Len(s) : (s \o r)[k] = s[k]
         /\ \A k \in 1..Len(r) : (s \o r)[Len(s) + k] = r[k]
         /\ <<>> \o r = r
  OBVIOUS

(* Numbers that never fall from one to the next never fall.                   *)
LEMMA NeverFalls ==
  ASSUME NEW N \in Nat, NEW f \in [0..N -> Int], \A n \in 1..N : f[n - 1] <= f[n]
  PROVE  \A i, j \in 0..N : i <= j => f[i] <= f[j]
  <1> DEFINE Grows == {m \in Nat : m \in 0..N => \A i \in 0..m : f[i] <= f[m]}
  <1>1. 0 \in Grows
    OBVIOUS
  <1>2. ASSUME NEW m \in 0..(N - 1), m \in Grows PROVE m + 1 \in Grows
    <2>1. m + 1 \in 1..N /\ m \in 0..N /\ (m + 1) - 1 = m /\ m + 1 \in 0..N /\ m + 1 \in Nat
      OBVIOUS
    <2>2. f[m] <= f[m + 1]
      BY <2>1
    <2>3. \A i \in 0..m : f[i] <= f[m] /\ i \in 0..N
      BY <1>2, <2>1
    <2>4. \A i \in 0..(m + 1) : i \in 0..m \/ i = m + 1
      OBVIOUS
    <2>5. \A i \in 0..(m + 1) : f[i] <= f[m + 1]
      BY <2>1, <2>2, <2>3, <2>4
    <2> QED BY <2>1, <2>5
  <1>3. 0..N \subseteq Grows
    <2> HIDE DEF Grows
    <2> QED BY <1>1, <1>2, PrefixInduction
  <1> QED BY <1>3

(* A sequence grown part by part has the parts end to end.                    *)
Grown(run, parts, X) ==
  /\ run \in [0..Len(parts) -> Seq(X)] /\ run[0] = <<>>
  /\ \A n \in 1..Len(parts) : parts[n] \in Seq(X) /\ run[n] = run[n - 1] \o parts[n]

(* What grows part by part has every part where it was put. *)
LEMMA GrownIsLaid ==
  ASSUME NEW X, NEW parts, NEW N \in Nat, N = Len(parts), NEW run, Grown(run, parts, X)
  PROVE  \E ends : Laid(ends, run[N], parts)
  <1> DEFINE ends == [i \in 0..N |-> Len(run[i])]
             Is(m, i, k) == run[m][ends[i - 1] + k] = parts[i][k]
             Upto(m) == \A i \in 1..m : \A k \in 1..Len(parts[i]) : Is(m, i, k)
             Until == {m \in Nat : m \in 0..N => Upto(m)}
  <1>1. \A n \in 0..N : run[n] \in Seq(X) /\ Len(run[n]) \in Nat /\ ends[n] = Len(run[n])
    BY DEF Grown
  <1>2. \A n \in 1..N : parts[n] \in Seq(X) /\ Len(parts[n]) \in Nat /\ run[n] = run[n - 1] \o parts[n]
    <2>1. \A n \in 1..N : parts[n] \in Seq(X) /\ run[n] = run[n - 1] \o parts[n]
      BY DEF Grown
    <2>2. \A n \in 1..N : Len(parts[n]) \in Nat
      BY <2>1
    <2> QED BY <2>1, <2>2
  <1>3. \A n \in 1..N : n \in 0..N /\ n - 1 \in 0..N
    OBVIOUS
  <1>4. run[0] = <<>> /\ 0 \in 0..N
    BY DEF Grown
  <1>5. ends \in [0..N -> Nat]
    BY <1>1
  <1>6. ends[0] = 0
    BY <1>4
  <1> HIDE DEF ends
  <1>7. ASSUME NEW i \in 1..N PROVE ends[i] = ends[i - 1] + Len(parts[i])
    <2>1. i - 1 \in 0..N /\ i \in 0..N /\ run[i - 1] \in Seq(X) /\ parts[i] \in Seq(X)
      BY <1>1, <1>2, <1>3
    <2>2. Len(run[i - 1] \o parts[i]) = Len(run[i - 1]) + Len(parts[i])
      <3>1. \A a, b \in Seq(X) : Len(a \o b) = Len(a) + Len(b)
        BY EndToEnd, Zenon
      <3> QED BY <2>1, <3>1, Zenon
    <2>3. run[i] = run[i - 1] \o parts[i]
      BY <1>2
    <2>4. ends[i] = Len(run[i]) /\ ends[i - 1] = Len(run[i - 1])
      BY <1>1, <2>1
    <2> QED BY <2>2, <2>3, <2>4, Zenon
  <1>8. \A i, j \in 0..N : i <= j => ends[i] <= ends[j]
    <2>1. ASSUME NEW i \in 1..N PROVE ends[i - 1] <= ends[i]
      <3>1. ends[i - 1] \in Nat /\ Len(parts[i]) \in Nat
        BY <1>2, <1>3, <1>5
      <3> QED BY <1>7, <3>1
    <2>2. ends \in [0..N -> Int]
      BY <1>5
    <2> QED BY <2>1, <2>2, NeverFalls
  <1>9. ASSUME NEW n \in 1..N, Upto(n - 1) PROVE Upto(n)
    <2> DEFINE m == n - 1
    <2>1. m \in 0..N /\ n \in 0..N /\ run[m] \in Seq(X) /\ parts[n] \in Seq(X)
          /\ Len(run[m]) = ends[m] /\ run[n] = run[m] \o parts[n]
      BY <1>1, <1>2, <1>3
    <2> SUFFICES ASSUME NEW i \in 1..n, NEW k \in 1..Len(parts[i]) PROVE Is(n, i, k)
      OBVIOUS
    <2>2. CASE i = n
      <3>1. (run[m] \o parts[n])[Len(run[m]) + k] = parts[n][k]
        <4>1. k \in 1..Len(parts[n]) /\ run[m] \in Seq(X) /\ parts[n] \in Seq(X)
          BY <2>1, <2>2, Zenon
        <4> HIDE DEF m
        <4> QED BY <4>1, EndToEnd, Zenon
      <3> QED BY <2>1, <2>2, <3>1
    <2>3. CASE i # n
      <3>1. i \in 1..m /\ i \in 1..N /\ i \in 0..N /\ i <= m
        BY <2>3
      <3>2. Is(m, i, k)
        BY <1>9, <3>1
      <3>3. ends[i] = ends[i - 1] + Len(parts[i]) /\ ends[i] <= ends[m]
        BY <1>7, <1>8, <2>1, <3>1
      <3>4. ends[i - 1] \in Nat /\ ends[i] \in Nat /\ ends[m] \in Nat /\ Len(parts[i]) \in Nat
        BY <1>2, <1>3, <1>5, <2>1, <3>1
      <3> HIDE DEF Is, m
      <3>5. ends[i - 1] + k \in 1..ends[m]
        BY <3>3, <3>4
      <3>6. (run[m] \o parts[n])[ends[i - 1] + k] = run[m][ends[i - 1] + k]
        <4>1. ends[i - 1] + k \in 1..Len(run[m]) /\ run[m] \in Seq(X) /\ parts[n] \in Seq(X)
          BY <2>1, <3>5, Zenon
        <4>2. \A a, b \in Seq(X) : \A e \in 1..Len(a) : (a \o b)[e] = a[e]
          OBVIOUS
        <4> QED BY <4>1, <4>2, Zenon
      <3>7. Is(n, i, k)
        BY <2>1, <3>2, <3>6 DEF Is
      <3> QED BY <3>7
    <2> QED BY <2>2, <2>3
  <1>10. Upto(N)
    <2> HIDE DEF Upto
    <2>1. 0 \in Until
      BY DEF Upto
    <2>2. ASSUME NEW m \in 0..(N - 1), m \in Until PROVE m + 1 \in Until
      <3>1. m + 1 \in 1..N /\ (m + 1) - 1 = m /\ m \in 0..N /\ m + 1 \in Nat
        OBVIOUS
      <3>2. Upto((m + 1) - 1)
        BY <2>2, <3>1
      <3>3. Upto(m + 1)
        BY <1>9, <3>1, <3>2
      <3> QED BY <3>1, <3>3
    <2>3. 0..N \subseteq Until
      <3> HIDE DEF Until
      <3> QED BY <2>1, <2>2, PrefixInduction
    <2> QED BY <2>3
  <1>11. Len(run[N]) = ends[N]
    BY <1>1
  <1>12. Laid(ends, run[N], parts)
    BY <1>5, <1>6, <1>7, <1>10, <1>11 DEF Laid
  <1> QED BY <1>12

(* FlattenSeq grows its sequence part by part. *)
LEMMA FlattenGrows ==
  ASSUME NEW X, NEW parts \in Seq(Seq(X))
  PROVE  \E run : Grown(run, parts, X) /\ FlattenSeq(parts) = run[Len(parts)]
  <1> DEFINE N == Len(parts)
  <1>1. N \in Nat /\ \A i \in 1..N : parts[i] \in Seq(X)
    OBVIOUS
  <1>2. CASE N = 0
    <2>1. FlattenSeq(parts) = parts /\ parts = <<>>
      BY <1>2 DEF FlattenSeq
    <2> DEFINE run == [i \in 0..0 |-> <<>>]
    <2>2. <<>> \in Seq(X)
      OBVIOUS
    <2>3. Grown(run, parts, X) /\ run[N] = <<>>
      BY <1>2, <2>2 DEF Grown
    <2> QED BY <2>1, <2>3
  <1>3. CASE N # 0
    <2>0. N = Len(parts)
      OBVIOUS
    <2> HIDE DEF N
    <2> DEFINE next == [i \in 1..N |-> [x \in Seq(X) |-> x \o parts[i]]]
    <2>1. next \in [1..N -> [Seq(X) -> Seq(X)]] /\ <<>> \in Seq(X)
      BY <1>1, EndToEnd
    <2>2. PICK run \in [0..N -> Seq(X)] : run[0] = <<>> /\ \A n \in 1..N : run[n] = next[n][run[n - 1]]
      <3>1. N \in Nat /\ <<>> \in Seq(X) /\ next \in [1..N -> [Seq(X) -> Seq(X)]]
        BY <1>1, <2>1
      <3> DEFINE S == 1..N
      <3>2. N \in Nat /\ S = 1..N /\ <<>> \in Seq(X) /\ next \in [S -> [Seq(X) -> Seq(X)]]
        BY <3>1
      <3> HIDE DEF next, S
      <3>3. \E run \in [0..N -> Seq(X)] : Recurs(run, <<>>, next, S)
        BY <3>2, RecursionExists, Zenon
      <3> QED BY <3>2, <3>3, Zenon DEF Recurs
    <2>3. \A n \in 1..N : run[n] \in Seq(X) /\ run[n - 1] \in Seq(X) /\ run[n] = run[n - 1] \o parts[n]
      <3>1. \A n \in 1..N : n \in 0..N /\ n - 1 \in 0..N
        BY <1>1
      <3> QED BY <2>2, <3>1
    <2> HIDE DEF next
    <2> DEFINE flat == [i \in 1..N |-> run[i]]
    <2>4. Flattening(flat, parts)
      <3>1. ASSUME NEW i \in 1..N
            PROVE  flat[i] = IF i = 1 THEN parts[i] ELSE flat[i - 1] \o parts[i]
        <4>1. CASE i = 1
          <5>0. 1 \in 1..N /\ 1 - 1 = 0
            BY <4>1
          <5>1. run[i] = run[0] \o parts[i]
            BY <2>3, <4>1, <5>0
          <5>2. run[i] = parts[i]
            BY <1>1, <2>2, <5>1, EndToEnd
          <5> QED BY <4>1, <5>2
        <4>2. CASE i # 1
          <5>1. i - 1 \in 1..N
            BY <1>1, <4>2
          <5> QED BY <2>3, <4>2, <5>1
        <4> QED BY <4>1, <4>2
      <3> QED BY <2>0, <3>1 DEF Flattening
    <2> HIDE DEF flat
    <2> DEFINE some == CHOOSE some : Flattening(some, parts)
    <2>5. Flattening(some, parts)
      BY <2>4, Zenon
    <2>6. FlattenSeq(parts) = some[N]
      BY <1>3, <2>0, FlattenExpands, Zenon
    <2> HIDE DEF some
    <2>7. \A i \in 1..N : some[i] = IF i = 1 THEN parts[i] ELSE some[i - 1] \o parts[i]
      BY <2>0, <2>5 DEF Flattening
    <2> DEFINE Same == {i \in Nat : i \in 1..N => some[i] = run[i]}
    <2>8. 0 \in Same
      OBVIOUS
    <2>9. ASSUME NEW n \in 0..(N - 1), n \in Same PROVE n + 1 \in Same
      <3>1. n + 1 \in 1..N /\ (n + 1) - 1 = n /\ n + 1 \in Nat /\ n \in 0..N
        BY <1>1
      <3>2. run[n + 1] = run[n] \o parts[n + 1]
        BY <2>3, <3>1
      <3>3. CASE n = 0
        <4>1. some[n + 1] = parts[n + 1]
          BY <2>7, <3>1, <3>3
        <4>2. run[n + 1] = <<>> \o parts[n + 1]
          BY <2>2, <3>2, <3>3
        <4>3. run[n + 1] = parts[n + 1]
          BY <1>1, <3>1, <4>2, EndToEnd
        <4> QED BY <3>1, <4>1, <4>3
      <3>4. CASE n # 0
        <4>1. n + 1 # 1 /\ n \in 1..N
          BY <3>1, <3>4
        <4>2. some[n + 1] = some[n] \o parts[n + 1]
          BY <2>7, <3>1, <4>1
        <4>3. some[n] = run[n]
          BY <2>9, <4>1
        <4> QED BY <3>1, <3>2, <4>2, <4>3
      <3> QED BY <3>3, <3>4
    <2>10. some[N] = run[N]
      <3> HIDE DEF Same
      <3>1. 0..N \subseteq Same
        BY <1>1, <2>8, <2>9, PrefixInduction
      <3>2. N \in 0..N /\ N \in 1..N
        BY <1>1, <1>3
      <3> QED BY <3>1, <3>2 DEF Same
    <2>11. FlattenSeq(parts) = run[N] /\ run[N] \in Seq(X)
      BY <1>1, <2>2, <2>6, <2>10
    <2>12. Grown(run, parts, X)
      BY <1>1, <2>0, <2>2, <2>3 DEF Grown
    <2> QED BY <2>0, <2>11, <2>12
  <1> QED BY <1>2, <1>3

(* FlattenSeq lays its parts end to end. *)
LEMMA FlattenIsLaid ==
  ASSUME NEW X, NEW parts \in Seq(Seq(X))
  PROVE  FlattenSeq(parts) \in Seq(X) /\ \E ends : Laid(ends, FlattenSeq(parts), parts)
  <1> DEFINE N == Len(parts)
  <1>1. PICK run : Grown(run, parts, X) /\ FlattenSeq(parts) = run[N]
    BY FlattenGrows
  <1>2. N \in Nat /\ run[N] \in Seq(X)
    BY <1>1 DEF Grown
  <1>3. \E ends : Laid(ends, run[N], parts)
    BY <1>1, <1>2, GrownIsLaid
  <1> QED BY <1>1, <1>2, <1>3

-----------------------------------------------------------------------------
(* Nothing else is in sequences laid end to end. *)
LEMMA LaidEverywhere ==
  ASSUME NEW N \in Nat, NEW E \in [0..N -> Nat], E[0] = 0, NEW n \in 1..E[N]
  PROVE  \E i \in 1..N : E[i - 1] < n /\ n <= E[i]
  <1> DEFINE T == {i \in 0..N : n <= E[i]}
  <1>1. N \in T /\ T \in SUBSET Nat
    OBVIOUS
  <1>2. PICK i \in T : \A j \in T : i <= j
    <2> HIDE DEF T
    <2> QED BY <1>1, LeastNumber
  <1>3. i # 0
    OBVIOUS
  <1>4. i \in 1..N /\ i - 1 \in 0..N
    BY <1>3
  <1>5. i - 1 \notin T
    BY <1>2, <1>4
  <1>6. E[i - 1] \in Nat
    BY <1>4
  <1> QED BY <1>4, <1>5, <1>6

(* What adds up part by part, and within the parts, adds up.                  *)
AddsUp(N, E, a, g, c) ==
  /\ E \in [0..N -> Nat] /\ E[0] = 0
  /\ a \in [0..E[N] -> Nat] /\ a[0] = 0
  /\ g \in [0..N -> Nat] /\ g[0] = 0
  /\ \A i \in 1..N :
       /\ E[i - 1] <= E[i]
       /\ c[i] \in [0..(E[i] - E[i - 1]) -> Nat] /\ c[i][0] = 0
       /\ \A k \in 1..(E[i] - E[i - 1]) :
            a[E[i - 1] + k] = a[E[i - 1] + k - 1] + (c[i][k] - c[i][k - 1])
       /\ g[i] = g[i - 1] + c[i][E[i] - E[i - 1]]

(* A sum over a whole laid out in parts is the sum of the parts' sums. *)
LEMMA SumsByParts ==
  ASSUME NEW N \in Nat, NEW E, NEW a, NEW g, NEW c, AddsUp(N, E, a, g, c)
  PROVE  /\ \A i \in 1..N : \A k \in 0..(E[i] - E[i - 1]) : a[E[i - 1] + k] = g[i - 1] + c[i][k]
         /\ a[E[N]] = g[N]
  <1>1. \A i \in 0..N : E[i] \in Nat /\ g[i] \in Nat
    BY DEF AddsUp
  <1>2. ASSUME NEW i \in 1..N, a[E[i - 1]] = g[i - 1]
        PROVE  /\ \A k \in 0..(E[i] - E[i - 1]) : a[E[i - 1] + k] = g[i - 1] + c[i][k]
               /\ a[E[i]] = g[i]
    <2> DEFINE e == E[i - 1]
               L == E[i] - e
               d == c[i]
               Until == {k \in Nat : k \in 0..L => a[e + k] = g[i - 1] + d[k]}
    <2>1. e \in Nat /\ g[i - 1] \in Nat /\ E[i] \in Nat
      BY <1>1
    <2>2. /\ E[i - 1] <= E[i]
          /\ c[i] \in [0..(E[i] - E[i - 1]) -> Nat] /\ c[i][0] = 0
          /\ \A k \in 1..(E[i] - E[i - 1]) :
               a[E[i - 1] + k] = a[E[i - 1] + k - 1] + (c[i][k] - c[i][k - 1])
          /\ g[i] = g[i - 1] + c[i][E[i] - E[i - 1]]
      BY DEF AddsUp
    <2>3. L \in Nat /\ d \in [0..L -> Nat] /\ d[0] = 0
      BY <2>1, <2>2
    <2>4. \A k \in 1..L : a[e + k] = a[e + k - 1] + (d[k] - d[k - 1])
      BY <2>2
    <2>5. g[i] = g[i - 1] + d[L] /\ E[i] = e + L /\ a[e] = g[i - 1]
      BY <1>2, <2>1, <2>2
    <2> HIDE DEF e, L, d
    <2>6. 0 \in Until
      BY <2>1, <2>3, <2>5
    <2>7. ASSUME NEW k \in 0..(L - 1), k \in Until PROVE k + 1 \in Until
      <3>1. k + 1 \in 1..L /\ k \in 0..L /\ (k + 1) - 1 = k /\ e + (k + 1) - 1 = e + k
        BY <2>1, <2>3
      <3>2. a[e + (k + 1)] = a[e + k] + (d[k + 1] - d[k])
        BY <2>4, <3>1
      <3>3. a[e + k] = g[i - 1] + d[k]
        BY <2>7, <3>1
      <3>4. d[k] \in Nat /\ d[k + 1] \in Nat
        BY <2>3, <3>1
      <3>5. a[e + (k + 1)] = g[i - 1] + d[k + 1]
        BY <2>1, <3>2, <3>3, <3>4
      <3> QED BY <3>5
    <2>8. 0..L \subseteq Until
      <3> HIDE DEF Until
      <3> QED BY <2>3, <2>6, <2>7, PrefixInduction
    <2>9. \A k \in 0..L : a[e + k] = g[i - 1] + d[k]
      BY <2>8
    <2>10. a[E[i]] = g[i]
      BY <2>3, <2>5, <2>9
    <2> QED BY <2>9, <2>10 DEF e, L, d
  <1> DEFINE Agree == {i \in Nat : i \in 0..N => a[E[i]] = g[i]}
  <1>3. 0 \in Agree
    BY DEF AddsUp
  <1>4. ASSUME NEW i \in 0..(N - 1), i \in Agree PROVE i + 1 \in Agree
    <2> DEFINE j == i + 1
    <2>1. j \in 1..N /\ j - 1 = i /\ i \in 0..N /\ j \in Nat
      OBVIOUS
    <2>2. a[E[j - 1]] = g[j - 1]
      BY <1>4, <2>1
    <2> HIDE DEF j
    <2>3. a[E[j]] = g[j]
      BY <1>2, <2>1, <2>2
    <2>4. j \in Agree
      BY <2>1, <2>3
    <2> QED BY <2>4 DEF j
  <1>5. \A i \in 0..N : a[E[i]] = g[i]
    <2>1. 0..N \subseteq Agree
      <3> HIDE DEF Agree
      <3> QED BY <1>3, <1>4, PrefixInduction
    <2> QED BY <2>1
  <1>6. ASSUME NEW i \in 1..N PROVE \A k \in 0..(E[i] - E[i - 1]) : a[E[i - 1] + k] = g[i - 1] + c[i][k]
    <2>1. i - 1 \in 0..N
      OBVIOUS
    <2> QED BY <1>2, <1>5, <2>1
  <1> QED BY <1>5, <1>6

(* Any sequences can be flattened. *)
Sequences(parts, N) ==
  /\ parts = [i \in 1..N |-> parts[i]]
  /\ \A i \in 1..N : \E X : parts[i] \in Seq(X)

(* Sequences of whatever elements are laid out one after the other. *)
LEMMA SequencesAreLaid ==
  ASSUME NEW N \in Nat, NEW parts, Sequences(parts, N)
  PROVE  /\ Len(parts) = N
         /\ \A i \in 1..N : Len(parts[i]) \in Nat
         /\ \E X : FlattenSeq(parts) \in Seq(X)
         /\ \E ends : Laid(ends, FlattenSeq(parts), parts)
  <1> DEFINE X == UNION {{parts[i][k] : k \in 1..Len(parts[i])} : i \in 1..N}
  <1>1. ASSUME NEW i \in 1..N PROVE parts[i] \in Seq(X) /\ Len(parts[i]) \in Nat
    <2>1. PICK Y : parts[i] \in Seq(Y)
      BY DEF Sequences
    <2>2. \A k \in 1..Len(parts[i]) : parts[i][k] \in X
      OBVIOUS
    <2> HIDE DEF X
    <2>3. Len(parts[i]) \in Nat /\ parts[i] = [k \in 1..Len(parts[i]) |-> parts[i][k]]
      BY <2>1
    <2> QED BY <2>2, <2>3
  <1> HIDE DEF X
  <1>2. parts \in Seq(Seq(X)) /\ Len(parts) = N
    BY <1>1 DEF Sequences
  <1> QED BY <1>1, <1>2, FlattenIsLaid

-----------------------------------------------------------------------------
(* Parts whose parts are laid end to end in others are, laid end to end, what *)
(* the others are.                                                            *)
Refines(E, fine, coarse, c, N) ==
  /\ E \in [0..N -> Nat] /\ E[0] = 0
  /\ \A i \in 1..N :
       /\ E[i - 1] <= E[i]
       /\ c[i] \in [0..(E[i] - E[i - 1]) -> Nat] /\ c[i][0] = 0
       /\ c[i][E[i] - E[i - 1]] = Len(coarse[i])
       /\ \A k \in 1..(E[i] - E[i - 1]) :
            /\ Len(fine[E[i - 1] + k]) = c[i][k] - c[i][k - 1]
            /\ \A j \in 1..Len(fine[E[i - 1] + k]) :
                 c[i][k - 1] + j \in 1..Len(coarse[i]) /\ fine[E[i - 1] + k][j] = coarse[i][c[i][k - 1] + j]

(* Parts that are refined alike flatten to the same sequence. *)
LEMMA FlattensToTheSame ==
  ASSUME NEW N \in Nat, NEW E, NEW coarse, Sequences(coarse, N),
         NEW fine, Sequences(fine, E[N]), NEW c, Refines(E, fine, coarse, c, N)
  PROVE  FlattenSeq(fine) = FlattenSeq(coarse)
  <1> DEFINE M == E[N]
             A == FlattenSeq(fine)
             B == FlattenSeq(coarse)
  <1>1. E \in [0..N -> Nat] /\ E[0] = 0 /\ M \in Nat
    BY DEF Refines
  <1>2. PICK a : Laid(a, A, fine)
    BY <1>1, SequencesAreLaid
  <1>3. PICK g : Laid(g, B, coarse)
    BY SequencesAreLaid
  <1>4. /\ Len(fine) = M /\ Len(coarse) = N
        /\ \A n \in 1..M : Len(fine[n]) \in Nat
        /\ \A i \in 1..N : Len(coarse[i]) \in Nat
        /\ (\E X : A \in Seq(X)) /\ \E X : B \in Seq(X)
    BY <1>1, SequencesAreLaid
  <1> HIDE DEF A, B
  <1>5. /\ a \in [0..M -> Nat] /\ a[0] = 0 /\ Len(A) = a[M]
        /\ \A n \in 1..M : a[n] = a[n - 1] + Len(fine[n])
        /\ \A n \in 1..M : \A j \in 1..Len(fine[n]) : A[a[n - 1] + j] = fine[n][j]
    BY <1>2, <1>4 DEF Laid
  <1>6. /\ g \in [0..N -> Nat] /\ g[0] = 0 /\ Len(B) = g[N]
        /\ \A i \in 1..N : g[i] = g[i - 1] + Len(coarse[i])
        /\ \A i \in 1..N : \A k \in 1..Len(coarse[i]) : B[g[i - 1] + k] = coarse[i][k]
    BY <1>3, <1>4 DEF Laid
  <1>7. ASSUME NEW i \in 1..N
        PROVE  /\ E[i - 1] \in Nat /\ E[i] \in Nat /\ E[i - 1] <= E[i]
               /\ c[i] \in [0..(E[i] - E[i - 1]) -> Nat] /\ c[i][0] = 0
               /\ c[i][E[i] - E[i - 1]] = Len(coarse[i])
    <2>1. i \in 0..N /\ i - 1 \in 0..N
      OBVIOUS
    <2> QED BY <1>1, <2>1 DEF Refines
  <1>8. ASSUME NEW i \in 1..N, NEW k \in 1..(E[i] - E[i - 1])
        PROVE  /\ Len(fine[E[i - 1] + k]) = c[i][k] - c[i][k - 1]
               /\ \A j \in 1..Len(fine[E[i - 1] + k]) :
                    /\ c[i][k - 1] + j \in 1..Len(coarse[i])
                    /\ fine[E[i - 1] + k][j] = coarse[i][c[i][k - 1] + j]
    BY DEF Refines
  <1>9. \A i, j \in 0..N : i <= j => E[i] <= E[j]
    <2>1. E \in [0..N -> Int]
      BY <1>1
    <2>2. \A i \in 1..N : E[i - 1] <= E[i]
      BY <1>7
    <2> QED BY <2>1, <2>2, NeverFalls
  <1>10. ASSUME NEW i \in 1..N, NEW k \in 1..(E[i] - E[i - 1])
         PROVE  E[i - 1] + k \in 1..M
    <2>1. E[i] <= M /\ i \in 0..N /\ N \in 0..N
      BY <1>9
    <2> QED BY <1>1, <1>7, <2>1
  <1> HIDE DEF M
  <1>11. AddsUp(N, E, a, g, c)
    <2>1. ASSUME NEW i \in 1..N, NEW k \in 1..(E[i] - E[i - 1])
          PROVE  a[E[i - 1] + k] = a[E[i - 1] + k - 1] + (c[i][k] - c[i][k - 1])
      <3>1. a[E[i - 1] + k] = a[E[i - 1] + k - 1] + Len(fine[E[i - 1] + k])
        <4> DEFINE n == E[i - 1] + k
        <4>1. n \in 1..M /\ n - 1 = E[i - 1] + k - 1
          BY <1>7, <1>10
        <4> HIDE DEF n
        <4>2. a[n] = a[n - 1] + Len(fine[n])
          BY <1>5, <4>1
        <4> QED BY <4>1, <4>2 DEF n
      <3> QED BY <1>8, <3>1
    <2>2. ASSUME NEW i \in 1..N PROVE g[i] = g[i - 1] + c[i][E[i] - E[i - 1]]
      BY <1>6, <1>7
    <2> QED BY <1>1, <1>5, <1>6, <1>7, <2>1, <2>2 DEF AddsUp, M
  <1>12. /\ \A i \in 1..N : \A k \in 0..(E[i] - E[i - 1]) : a[E[i - 1] + k] = g[i - 1] + c[i][k]
         /\ a[E[N]] = g[N]
    BY <1>11, SumsByParts
  <1>13. Len(A) = Len(B) /\ Len(A) = a[M] /\ Len(A) \in Nat
    BY <1>1, <1>5, <1>6, <1>12 DEF M
  <1>14. ASSUME NEW p \in 1..Len(A) PROVE A[p] = B[p]
    <2>1. PICK n \in 1..M : a[n - 1] < p /\ p <= a[n]
      BY <1>1, <1>5, <1>13, LaidEverywhere
    <2>2. n \in 1..E[N]
      BY DEF M
    <2>3. PICK i \in 1..N : E[i - 1] < n /\ n <= E[i]
      BY <1>1, <2>2, LaidEverywhere
    <2> DEFINE k == n - E[i - 1]
               j == p - a[n - 1]
    <2>4. k \in 1..(E[i] - E[i - 1]) /\ n = E[i - 1] + k /\ k - 1 \in 0..(E[i] - E[i - 1])
      BY <1>1, <1>7, <2>3
    <2>5. a[n] = a[n - 1] + Len(fine[n]) /\ a[n - 1] \in Nat /\ Len(fine[n]) \in Nat /\ n - 1 \in 0..M
      BY <1>1, <1>4, <1>5
    <2>6. j \in 1..Len(fine[n]) /\ p = a[n - 1] + j
      BY <2>1, <2>5
    <2> HIDE DEF j
    <2>7. A[p] = fine[n][j]
      BY <1>5, <2>6
    <2>8. a[n - 1] = g[i - 1] + c[i][k - 1]
      <3>1. a[E[i - 1] + (k - 1)] = g[i - 1] + c[i][k - 1]
        BY <1>12, <2>4
      <3>2. E[i - 1] + (k - 1) = n - 1
        BY <1>7, <2>4
      <3> QED BY <3>1, <3>2
    <2>9. c[i][k - 1] + j \in 1..Len(coarse[i]) /\ fine[n][j] = coarse[i][c[i][k - 1] + j]
      <3>1. \A l \in 1..Len(fine[n]) :
              /\ c[i][k - 1] + l \in 1..Len(coarse[i]) /\ fine[n][l] = coarse[i][c[i][k - 1] + l]
        <4>1. k \in 1..(E[i] - E[i - 1]) /\ n = E[i - 1] + k
          BY <2>4
        <4> HIDE DEF k
        <4> QED BY <1>8, <4>1
      <3> QED BY <2>6, <3>1
    <2>10. c[i][k - 1] \in Nat /\ g[i - 1] \in Nat /\ j \in Nat
      <3>1. c[i][k - 1] \in Nat
        BY <1>7, <2>4
      <3>2. i - 1 \in 0..N
        OBVIOUS
      <3> QED BY <1>6, <2>5, <2>6, <3>1, <3>2
    <2>11. p = g[i - 1] + (c[i][k - 1] + j)
      BY <2>6, <2>8, <2>10
    <2>12. B[p] = coarse[i][c[i][k - 1] + j]
      BY <1>6, <2>9, <2>11
    <2> QED BY <2>7, <2>9, <2>12
  <1>15. A = [p \in 1..Len(A) |-> A[p]] /\ B = [p \in 1..Len(B) |-> B[p]]
    BY <1>4
  <1>16. A = B
    BY <1>13, <1>14, <1>15
  <1> QED BY <1>16 DEF A, B

(* The bytes counted, operation by operation. *)
Counts(op) == IF CountedBytes(op) THEN Transferred(op) ELSE 0

(* The bytes of the first n operations, for every n. *)
Totals(tot, ops) ==
  /\ tot \in [0..Len(ops) -> Nat] /\ tot[0] = 0
  /\ \A n \in 1..Len(ops) : tot[n] = tot[n - 1] + Counts(ops[n])
  /\ TransferTotal(ops) = tot[Len(ops)]

(* TransferTotal adds up the operations' bytes, one after the other. *)
LEMMA TotalRuns ==
  ASSUME NEW H, NEW ops \in Seq(H),
         \A i \in DOMAIN ops : CountedBytes(ops[i]) => Transferred(ops[i]) \in Nat
  PROVE  \E tot : Totals(tot, ops)
  <1> DEFINE N == Len(ops)
             S == DOMAIN ops
             Plus(x, n) == IF CountedBytes(ops[n]) THEN x + Transferred(ops[n]) ELSE x
             Step(fold, T) == IF T = {} THEN 0 ELSE Plus(fold[T \ {Max(T)}], Max(T))
             next == [n \in S |-> [x \in Nat |-> Plus(x, n)]]
  <1>1. N \in Nat /\ S = 1..N
    OBVIOUS
  <1>2. /\ next \in [S -> [Nat -> Nat]] /\ \A n \in S, x \in Nat : next[n][x] = Plus(x, n) /\ Plus(x, n) \in Nat
        /\ \A n \in S, x \in Nat : Plus(x, n) = x + Counts(ops[n])
    BY DEF Counts
  <1>3. \E fold : fold = [T \in SUBSET S |-> Step(fold, T)]
    <2> HIDE DEF N, S, next
    <2>1. PICK fold \in [SUBSET S -> Nat] : FoldsPrefixes(0, next, S, fold)
      <3> QED BY <1>1, <1>2, 0 \in Nat, PrefixFoldExists, Zenon
    <2> HIDE DEF Plus
    <2>2. ASSUME NEW T \in SUBSET S PROVE fold[T] = Step(fold, T)
      <3> DEFINE m == Max(T)
      <3>1. T # {} => m \in S
        BY <1>1, LastOfPrefix, Zenon
      <3>2. fold[T \ {m}] \in Nat
        OBVIOUS
      <3> HIDE DEF m
      <3>3. T # {} => next[m][fold[T \ {m}]] = Plus(fold[T \ {m}], m)
        BY <1>2, <3>1, <3>2
      <3> QED BY <2>1, <3>3, Zenon DEF m, FoldsPrefixes
    <2>3. fold = [T \in SUBSET S |-> fold[T]]
      OBVIOUS
    <2> HIDE DEF Step
    <2>4. fold = [T \in SUBSET S |-> Step(fold, T)]
      BY <2>2, <2>3
    <2> QED BY <2>4
  <1> DEFINE fold == CHOOSE fold : fold = [T \in SUBSET S |-> Step(fold, T)]
  <1>4. fold = [T \in SUBSET S |-> Step(fold, T)]
    <2> HIDE DEF Step
    <2> QED BY <1>3, Zenon
  <1>5. TransferTotal(ops) = fold[S]
    BY TotalExpands, Zenon
  <1> HIDE DEF fold, N, S
  <1>6. \A T \in SUBSET S : fold[T] = Step(fold, T)
    BY <1>4, Zenon
  <1> HIDE DEF Plus
  <1> DEFINE P == {n \in Nat : fold[1..n] \in Nat}
  <1>7. 1..0 = {} /\ {} \in SUBSET S /\ fold[1..0] = 0
    <2>1. 1..0 = {} /\ {} \in SUBSET S
      OBVIOUS
    <2>2. fold[{}] = 0
      BY <1>6, <2>1, Zenon
    <2> QED BY <2>1, <2>2
  <1>8. ASSUME NEW m \in 1..N PROVE fold[1..m] = Plus(fold[1..(m - 1)], m)
    <2>1. 1..m \in SUBSET S /\ 1..m # {} /\ Max(1..m) = m /\ (1..m) \ {m} = 1..(m - 1)
      BY <1>1, LastOfPrefix, Zenon
    <2> QED BY <1>6, <2>1, Zenon
  <1>9. 0 \in P
    BY <1>7
  <1>10. ASSUME NEW n \in 0..(N - 1), n \in P PROVE n + 1 \in P
    <2>1. n + 1 \in 1..N /\ n + 1 \in S /\ (n + 1) - 1 = n /\ n + 1 \in Nat
      BY <1>1
    <2>2. fold[1..(n + 1)] = Plus(fold[1..n], n + 1)
      BY <1>8, <2>1
    <2>3. Plus(fold[1..n], n + 1) \in Nat
      BY <1>2, <1>10, <2>1
    <2> QED BY <2>1, <2>2, <2>3
  <1>11. \A n \in 0..N : fold[1..n] \in Nat
    <2>1. 0..N \subseteq P
      <3> HIDE DEF P
      <3> QED BY <1>1, <1>9, <1>10, PrefixInduction
    <2> QED BY <2>1
  <1> DEFINE tot == [n \in 0..N |-> fold[1..n]]
  <1>12. tot \in [0..N -> Nat] /\ tot[0] = 0 /\ tot[N] = fold[S]
    BY <1>1, <1>7, <1>11
  <1>13. ASSUME NEW n \in 1..N PROVE tot[n] = tot[n - 1] + Counts(ops[n])
    <2>1. n \in 0..N /\ n - 1 \in 0..N /\ n \in S
      BY <1>1
    <2>2. tot[n] = fold[1..n] /\ tot[n - 1] = fold[1..(n - 1)] /\ fold[1..(n - 1)] \in Nat
      BY <1>11, <2>1
    <2>3. Plus(fold[1..(n - 1)], n) = fold[1..(n - 1)] + Counts(ops[n])
      BY <1>2, <2>1, <2>2
    <2> QED BY <1>8, <2>2, <2>3
  <1> HIDE DEF tot
  <1>14. Totals(tot, ops)
    BY <1>5, <1>12, <1>13 DEF Totals, N
  <1> QED BY <1>14

-----------------------------------------------------------------------------
(* An operation whose bytes can be counted. *)
Readable(op) == IsRead(op) => Transferred(op) \in Nat /\ op.off \in Nat

(* Piece k of an operation, but for its number. *)
PieceOf(o, op, b, k) ==
  /\ DOMAIN o = DOMAIN BlankOp
  /\ \A f \in {"t", "s", "op", "tgt", "h", "mode"} : o[f] = op[f]
  /\ Divided(op, b) => /\ o.off = op.off + PieceStart(b, k - 1)
                       /\ o.len = PieceSize(Transferred(op), b, k - 1)
                       /\ o.ret = None /\ o.dur = None
  /\ ~Divided(op, b) => /\ \A f \in {"off", "len", "ret", "dur"} : o[f] = op[f]
                        /\ o = [op EXCEPT !.op_id = o.op_id]

(* How many operations splitOne makes of one. *)
NumberOf(op, b) == IF Divided(op, b) THEN NumPieces(Transferred(op), b) ELSE 1

(* What splitOne makes, and of what it makes nothing else. *)
LEMMA PiecesAre ==
  ASSUME NEW H, Typed(H), NEW op \in H, Readable(op), NEW b \in Nat \ {0}
  PROVE  /\ NumberOf(op, b) \in Nat \ {0}
         /\ \E X : Pieces(op, b) \in Seq(X)
         /\ Len(Pieces(op, b)) = NumberOf(op, b)
         /\ \A k \in 1..NumberOf(op, b) : \A n \in Nat :
              LET o == [Pieces(op, b)[k] EXCEPT !.op_id = n]
              IN  o.op_id = n /\ PieceOf(o, op, b, k)
  <1>1. DOMAIN op = DOMAIN BlankOp /\ DOMAIN BlankOp = {"t", "op_id", "s", "op", "tgt", "h", "mode", "off", "len", "ret", "dur"}
    BY DEF Typed, BlankOp
  <1>2. CASE ~Divided(op, b)
    <2>1. Pieces(op, b) = <<op>> /\ NumberOf(op, b) = 1
      BY <1>2 DEF Pieces, NumberOf
    <2>2. Pieces(op, b) \in Seq({Pieces(op, b)[k] : k \in 1..1}) /\ Len(Pieces(op, b)) = 1 /\ Pieces(op, b)[1] = op
      BY <2>1
    <2>3. ASSUME NEW n \in Nat
          PROVE  [op EXCEPT !.op_id = n].op_id = n /\ PieceOf([op EXCEPT !.op_id = n], op, b, 1)
      <3> DEFINE o == [op EXCEPT !.op_id = n]
      <3>1. /\ DOMAIN o = DOMAIN BlankOp /\ o.op_id = n /\ \A f \in DOMAIN BlankOp \ {"op_id"} : o[f] = op[f]
            /\ o = [op EXCEPT !.op_id = o.op_id]
        BY <1>1
      <3> HIDE DEF o
      <3>2. PieceOf(o, op, b, 1)
        BY <1>1, <1>2, <3>1 DEF PieceOf
      <3> QED BY <3>1, <3>2 DEF o
    <2> QED BY <2>1, <2>2, <2>3
  <1>3. CASE Divided(op, b)
    <2> DEFINE m == Transferred(op)
               N == NumPieces(m, b)
               Cut(k) == [op EXCEPT !.off = @ + PieceStart(b, k - 1), !.len = PieceSize(m, b, k - 1),
                                    !.ret = None, !.dur = None]
    <2>1. m \in Nat \ {0} /\ op.off \in Nat
      BY <1>3 DEF Divided, Readable, IsRead
    <2>2. N \in Nat \ {0}
      BY <2>1, PiecesTile
    <2>3. Pieces(op, b) = [k \in 1..N |-> Cut(k)] /\ NumberOf(op, b) = N
      BY <1>3 DEF Pieces, NumberOf
    <2>4. ASSUME NEW k \in 1..N, NEW n \in Nat
          PROVE  [Cut(k) EXCEPT !.op_id = n].op_id = n /\ PieceOf([Cut(k) EXCEPT !.op_id = n], op, b, k)
      <3> DEFINE o == [Cut(k) EXCEPT !.op_id = n]
      <3>1. DOMAIN o = DOMAIN BlankOp /\ o.op_id = n
        BY <1>1
      <3>2. \A f \in {"t", "s", "op", "tgt", "h", "mode"} : o[f] = op[f]
        BY <1>1
      <3>3. o.off = op.off + PieceStart(b, k - 1) /\ o.len = PieceSize(m, b, k - 1) /\ o.ret = None /\ o.dur = None
        BY <1>1
      <3> HIDE DEF o
      <3>4. PieceOf(o, op, b, k)
        BY <1>3, <3>1, <3>2, <3>3 DEF PieceOf
      <3> QED BY <3>1, <3>4 DEF o
    <2> HIDE DEF N, Cut
    <2>5. Pieces(op, b) \in Seq({Pieces(op, b)[k] : k \in 1..N}) /\ Len(Pieces(op, b)) = N
          /\ \A k \in 1..N : Pieces(op, b)[k] = Cut(k)
      BY <2>2, <2>3
    <2> QED BY <2>2, <2>3, <2>4, <2>5
  <1> QED BY <1>2, <1>3

(* Where the pieces of each operation are. *)
SplitAt(E, cut, ops, b) ==
  /\ E \in [0..Len(ops) -> Nat] /\ E[0] = 0
  /\ Len(cut) = E[Len(ops)] /\ Len(cut) \in Nat
  /\ cut = [n \in 1..Len(cut) |-> cut[n]]
  /\ \A i \in 1..Len(ops) :
       /\ E[i] = E[i - 1] + NumberOf(ops[i], b)
       /\ NumberOf(ops[i], b) \in Nat \ {0}
       /\ \A k \in 1..NumberOf(ops[i], b) :
            LET o == cut[E[i - 1] + k]
            IN  o.op_id = E[i - 1] + k - 1 /\ PieceOf(o, ops[i], b, k)

(* A split trace is its operations' pieces, one operation after the other. *)
LEMMA SplitIsLaid ==
  ASSUME NEW H, Typed(H), NEW ops \in Seq(H), \A i \in 1..Len(ops) : Readable(ops[i]), NEW b \in Nat \ {0}
  PROVE  \E E : SplitAt(E, SplitOps(ops, b), ops, b)
  <1> DEFINE N     == Len(ops)
             parts == [i \in DOMAIN ops |-> Pieces(ops[i], b)]
             all   == FlattenSeq(parts)
             cut   == SplitOps(ops, b)
  <1>1. N \in Nat /\ DOMAIN ops = 1..N /\ \A i \in 1..N : ops[i] \in H
    OBVIOUS
  <1>2. ASSUME NEW i \in 1..N
        PROVE  /\ NumberOf(ops[i], b) \in Nat \ {0}
               /\ \E X : Pieces(ops[i], b) \in Seq(X)
               /\ Len(Pieces(ops[i], b)) = NumberOf(ops[i], b)
    <2>1. ops[i] \in H /\ Readable(ops[i])
      BY <1>1
    <2> QED BY <2>1, PiecesAre, Zenon
  <1>3. ASSUME NEW i \in 1..N, NEW k \in 1..NumberOf(ops[i], b), NEW n \in Nat
        PROVE  LET o == [Pieces(ops[i], b)[k] EXCEPT !.op_id = n]
               IN  o.op_id = n /\ PieceOf(o, ops[i], b, k)
    BY <1>1, PiecesAre
  <1>4. parts = [i \in 1..N |-> Pieces(ops[i], b)]
    BY <1>1
  <1>5. cut = [n \in DOMAIN all |-> [all[n] EXCEPT !.op_id = n - 1]]
    BY DEF SplitOps
  <1> HIDE DEF N, parts, all, cut
  <1>6. Sequences(parts, N) /\ \A i \in 1..N : parts[i] = Pieces(ops[i], b)
    BY <1>2, <1>4 DEF Sequences
  <1>7. PICK E : Laid(E, all, parts)
    BY <1>1, <1>6, SequencesAreLaid DEF all
  <1>8. Len(parts) = N /\ \E X : all \in Seq(X)
    BY <1>1, <1>6, SequencesAreLaid DEF all
  <1>9. Len(all) \in Nat /\ DOMAIN all = 1..Len(all)
    BY <1>8
  <1>10. /\ E \in [0..N -> Nat] /\ E[0] = 0 /\ Len(all) = E[N]
         /\ \A i \in 1..N : E[i] = E[i - 1] + NumberOf(ops[i], b)
         /\ \A i \in 1..N : \A k \in 1..NumberOf(ops[i], b) : all[E[i - 1] + k] = Pieces(ops[i], b)[k]
    <2>1. /\ E \in [0..N -> Nat] /\ E[0] = 0 /\ Len(all) = E[N]
          /\ \A i \in 1..N : E[i] = E[i - 1] + Len(parts[i])
          /\ \A i \in 1..N : \A k \in 1..Len(parts[i]) : all[E[i - 1] + k] = parts[i][k]
      BY <1>7, <1>8 DEF Laid
    <2>2. \A i \in 1..N : Len(parts[i]) = NumberOf(ops[i], b) /\ parts[i] = Pieces(ops[i], b)
      BY <1>2, <1>6
    <2> QED BY <2>1, <2>2
  <1>11. Len(cut) = Len(all) /\ cut = [n \in 1..Len(cut) |-> cut[n]]
         /\ \A n \in 1..Len(all) : cut[n] = [all[n] EXCEPT !.op_id = n - 1]
    BY <1>5, <1>9
  <1>12. \A i, j \in 0..N : i <= j => E[i] <= E[j]
    <2>1. ASSUME NEW i \in 1..N PROVE E[i - 1] <= E[i]
      <3>1. i - 1 \in 0..N
        BY <1>1
      <3>2. E[i - 1] \in Nat /\ NumberOf(ops[i], b) \in Nat
        BY <1>2, <1>10, <3>1
      <3>3. E[i] = E[i - 1] + NumberOf(ops[i], b)
        BY <1>10
      <3> QED BY <3>2, <3>3
    <2>2. E \in [0..N -> Int]
      BY <1>10
    <2> QED BY <1>1, <2>1, <2>2, NeverFalls
  <1>13. ASSUME NEW i \in 1..N, NEW k \in 1..NumberOf(ops[i], b)
         PROVE  LET o == cut[E[i - 1] + k]
                IN  o.op_id = E[i - 1] + k - 1 /\ PieceOf(o, ops[i], b, k)
    <2> DEFINE n == E[i - 1] + k
    <2>1. i - 1 \in 0..N /\ i \in 0..N /\ N \in 0..N /\ E[i] <= E[N]
      BY <1>1, <1>12
    <2>2. E[i - 1] \in Nat /\ E[i] \in Nat /\ E[N] \in Nat /\ NumberOf(ops[i], b) \in Nat
      BY <1>2, <1>10, <2>1
    <2>3. E[i] = E[i - 1] + NumberOf(ops[i], b)
      BY <1>10
    <2>4. n \in 1..E[N] /\ n - 1 \in Nat /\ n - 1 = E[i - 1] + k - 1
      BY <2>1, <2>2, <2>3
    <2>5. all[n] = Pieces(ops[i], b)[k]
      BY <1>10
    <2> HIDE DEF n
    <2>6. cut[n] = [Pieces(ops[i], b)[k] EXCEPT !.op_id = n - 1]
      BY <1>10, <1>11, <2>4, <2>5
    <2>7. cut[n].op_id = n - 1 /\ PieceOf(cut[n], ops[i], b, k)
      BY <1>3, <2>4, <2>6
    <2> QED BY <2>4, <2>7 DEF n
  <1>14. SplitAt(E, cut, ops, b)
    BY <1>2, <1>9, <1>10, <1>11, <1>13 DEF SplitAt, N
  <1> QED BY <1>14 DEF cut

-----------------------------------------------------------------------------
(* How much of what an operation touches, or counts, its first k pieces do.   *)
Covered(op, b, all) ==
  [k \in 0..NumberOf(op, b) |-> IF k = NumberOf(op, b) THEN all ELSE PieceStart(b, k)]

(* The pieces cover what was transferred, and no more. *)
LEMMA Covers ==
  ASSUME NEW b \in Nat \ {0}, NEW op, NumberOf(op, b) \in Nat \ {0}, NEW all \in Nat
  PROVE  /\ Covered(op, b, all) \in [0..NumberOf(op, b) -> Nat]
         /\ Covered(op, b, all)[0] = 0
         /\ Covered(op, b, all)[NumberOf(op, b)] = all
         /\ \A k \in 1..NumberOf(op, b) : Covered(op, b, all)[k - 1] = PieceStart(b, k - 1)
  <1> DEFINE n == NumberOf(op, b)
  <1>1. n \in Nat \ {0}
    OBVIOUS
  <1>2. \A k \in 0..n : PieceStart(b, k) \in Nat
    <2>1. \A k \in Nat : k * b \in Nat
      OBVIOUS
    <2> QED BY <2>1 DEF PieceStart
  <1>3. PieceStart(b, 0) = 0
    BY DEF PieceStart
  <1> HIDE DEF n
  <1>4. Covered(op, b, all) = [k \in 0..n |-> IF k = n THEN all ELSE PieceStart(b, k)]
    BY DEF Covered, n
  <1>5. Covered(op, b, all) \in [0..n -> Nat]
    BY <1>1, <1>2, <1>4
  <1>6. Covered(op, b, all)[0] = 0 /\ Covered(op, b, all)[n] = all
    BY <1>1, <1>3, <1>4
  <1>7. ASSUME NEW k \in 1..n PROVE Covered(op, b, all)[k - 1] = PieceStart(b, k - 1)
    <2>1. k - 1 \in 0..n /\ k - 1 # n
      BY <1>1
    <2> QED BY <1>4, <2>1
  <1> QED BY <1>5, <1>6, <1>7 DEF n

(* The pieces of a divided transfer begin one where the other ends. *)
LEMMA CoversPieces ==
  ASSUME NEW b \in Nat \ {0}, NEW op, Divided(op, b), Transferred(op) \in Nat, NEW k \in 1..NumberOf(op, b)
  PROVE  LET m == Transferred(op)
             c == Covered(op, b, m)
             size == PieceSize(m, b, k - 1)
         IN  /\ size \in 1..b
             /\ c[k - 1] \in Nat /\ c[k - 1] = PieceStart(b, k - 1)
             /\ c[k] = c[k - 1] + size /\ c[k] <= m
  <1> DEFINE m == Transferred(op)
             n == NumPieces(m, b)
             c == Covered(op, b, m)
             size == PieceSize(m, b, k - 1)
             End(j) == PieceStart(b, j) + PieceSize(m, b, j)
  <1>1. m \in Nat \ {0} /\ NumberOf(op, b) = n
    BY DEF Divided, NumberOf
  <1>2. /\ n \in Nat \ {0}
        /\ \A j \in 0..(n - 1) : PieceSize(m, b, j) \in 1..b
        /\ \A j \in 0..(n - 2) : End(j) = PieceStart(b, j + 1)
        /\ End(n - 1) = m
    <2> HIDE DEF m
    <2> QED BY <1>1, PiecesTile
  <1>3. c \in [0..n -> Nat] /\ c[n] = m /\ \A j \in 1..n : c[j - 1] = PieceStart(b, j - 1)
    <2>1. NumberOf(op, b) \in Nat \ {0} /\ m \in Nat
      BY <1>1, <1>2
    <2> HIDE DEF m, n
    <2> QED BY <1>1, <2>1, Covers DEF c
  <1> HIDE DEF m, n, c
  <1>4. k \in 1..n /\ k - 1 \in 0..(n - 1) /\ k - 1 \in 0..n /\ k \in 0..n
    BY <1>1, <1>2
  <1>5. size \in 1..b
    BY <1>2, <1>4
  <1>6. c[k - 1] \in Nat /\ c[k] \in Nat /\ c[k - 1] = PieceStart(b, k - 1)
    BY <1>3, <1>4
  <1>7. PieceStart(b, k - 1) + size = c[k]
    <2>1. CASE k = n
      <3>1. End(k - 1) = m
        BY <1>2, <2>1
      <3> QED BY <1>3, <2>1, <3>1
    <2>2. CASE k # n
      <3>1. k - 1 \in 0..(n - 2) /\ (k - 1) + 1 = k /\ k + 1 \in 1..n /\ (k + 1) - 1 = k
        BY <1>2, <1>4, <2>2
      <3>2. End(k - 1) = PieceStart(b, k)
        BY <1>2, <3>1
      <3>3. c[k] = PieceStart(b, k)
        BY <1>3, <3>1
      <3> QED BY <3>2, <3>3
    <2> QED BY <2>1, <2>2
  <1>8. c[k] <= m
    <2>1. m \in Nat
      BY <1>1
    <2>2. \A j \in 1..n : c[j - 1] <= c[j]
      <3> SUFFICES ASSUME NEW j \in 1..n PROVE c[j - 1] <= c[j]
        OBVIOUS
      <3>1. j - 1 \in 0..(n - 1) /\ c[j - 1] = PieceStart(b, j - 1) /\ PieceSize(m, b, j - 1) \in 1..b
            /\ c[j - 1] \in Nat /\ c[j] \in Nat
        <4>1. j - 1 \in 0..(n - 1) /\ j \in 0..n /\ j - 1 \in 0..n
          BY <1>2
        <4> QED BY <1>2, <1>3, <4>1
      <3>2. CASE j = n
        <4>1. End(j - 1) = c[j]
          BY <1>2, <1>3, <3>2
        <4> QED BY <3>1, <4>1
      <3>3. CASE j # n
        <4>1. j - 1 \in 0..(n - 2) /\ (j - 1) + 1 = j /\ j + 1 \in 1..n /\ (j + 1) - 1 = j
          BY <1>2, <3>3
        <4>2. End(j - 1) = c[j]
          BY <1>2, <1>3, <4>1
        <4> QED BY <3>1, <4>2
      <3> QED BY <3>2, <3>3
    <2>3. n \in Nat /\ n \in 0..n /\ c \in [0..n -> Int]
      BY <1>2, <1>3
    <2>4. c[k] <= c[n]
      <3>1. \A i, j \in 0..n : i <= j => c[i] <= c[j]
        BY <2>2, <2>3, NeverFalls
      <3>2. k <= n
        BY <1>4, <2>3
      <3> QED BY <1>4, <2>3, <3>1, <3>2
    <2> QED BY <1>3, <2>4
  <1> QED BY <1>5, <1>6, <1>7, <1>8 DEF m, c

(* What one operation touches. *)
LEMMA TouchesAre ==
  ASSUME NEW op, Readable(op)
  PROVE  /\ Len(Touched(op)) \in Nat
         /\ \E X : Touched(op) \in Seq(X)
         /\ IsRead(op) /\ Transferred(op) > 0 =>
              /\ Len(Touched(op)) = Transferred(op)
              /\ \A j \in 1..Transferred(op) : Touched(op)[j] = <<op.s, op.t, op.h, op.tgt, op.off + j - 1>>
         /\ ~(IsRead(op) /\ Transferred(op) > 0) => Touched(op) = <<[op EXCEPT !.op_id = 0]>> /\ Len(Touched(op)) = 1
  <1>1. CASE IsRead(op) /\ Transferred(op) > 0
    <2> DEFINE m == Transferred(op)
               Byte(j) == <<op.s, op.t, op.h, op.tgt, op.off + j - 1>>
    <2>1. Touched(op) = [j \in 1..m |-> Byte(j)] /\ m \in Nat
      BY <1>1 DEF Touched, Readable
    <2>2. \A j \in 1..m : Touched(op)[j] = Byte(j)
      BY <2>1
    <2> HIDE DEF Byte, m
    <2>3. Touched(op) \in Seq({Byte(j) : j \in 1..m}) /\ Len(Touched(op)) = m
      BY <2>1
    <2> QED BY <1>1, <2>1, <2>2, <2>3 DEF Byte, m
  <1>2. CASE ~(IsRead(op) /\ Transferred(op) > 0)
    <2> DEFINE bare == [op EXCEPT !.op_id = 0]
    <2>1. Touched(op) = <<bare>>
      BY <1>2 DEF Touched
    <2> HIDE DEF bare
    <2>2. Len(Touched(op)) = 1 /\ Touched(op) \in Seq({bare})
      BY <2>1
    <2> QED BY <1>2, <2>1, <2>2 DEF bare
  <1> QED BY <1>1, <1>2

(* What a piece touches of its operation. *)
LEMMA PieceTouches ==
  ASSUME NEW H, Typed(H), NEW op \in H, Readable(op), NEW b \in Nat \ {0},
         NEW k \in 1..NumberOf(op, b), NEW o, PieceOf(o, op, b, k),
         NumberOf(op, b) \in Nat \ {0}
  PROVE  LET all == Len(Touched(op))
             c   == Covered(op, b, all)
         IN  /\ Readable(o)
             /\ Len(Touched(o)) = c[k] - c[k - 1]
             /\ \A j \in 1..Len(Touched(o)) :
                  c[k - 1] + j \in 1..all /\ Touched(o)[j] = Touched(op)[c[k - 1] + j]
             /\ IsRead(o) => Transferred(o) <= b
  <1> DEFINE all == Len(Touched(op))
             c   == Covered(op, b, all)
  <1>0. None \notin Int
    BY DEF Typed
  <1>1. CASE ~Divided(op, b)
    <2>1. NumberOf(op, b) = 1 /\ k = 1
      BY <1>1 DEF NumberOf
    <2>2. \A f \in {"t", "s", "op", "tgt", "h", "mode", "off", "len", "ret", "dur"} : o[f] = op[f]
      BY <1>1 DEF PieceOf
    <2>3. DOMAIN o = DOMAIN BlankOp /\ DOMAIN op = DOMAIN BlankOp
          /\ DOMAIN BlankOp = {"t", "op_id", "s", "op", "tgt", "h", "mode", "off", "len", "ret", "dur"}
      BY DEF PieceOf, Typed, BlankOp
    <2>4. [o EXCEPT !.op_id = 0] = [op EXCEPT !.op_id = 0]
      BY <2>2, <2>3
    <2>5. Transferred(o) = Transferred(op) /\ (IsRead(o) <=> IsRead(op))
      BY <2>2 DEF Transferred, IsRead
    <2>6. Readable(o)
      BY <2>2, <2>5 DEF Readable
    <2>7. Touched(o) = Touched(op)
      <3>1. CASE IsRead(op) /\ Transferred(op) > 0
        BY <2>2, <2>5, <3>1 DEF Touched
      <3>2. CASE ~(IsRead(op) /\ Transferred(op) > 0)
        BY <2>4, <2>5, <3>2 DEF Touched
      <3> QED BY <3>1, <3>2
    <2>8. all \in Nat
      BY TouchesAre
    <2> HIDE DEF all
    <2>9. c[0] = 0 /\ c[1] = all
      BY <2>1, <2>8, Covers
    <2>10. IsRead(o) => Transferred(o) <= b
      BY <1>1, <2>5 DEF IsRead, Divided, Readable
    <2> HIDE DEF c
    <2>11. Len(Touched(o)) = c[k] - c[k - 1] /\ \A j \in 1..Len(Touched(o)) : c[k - 1] + j \in 1..all /\ c[k - 1] + j = j
      BY <2>1, <2>7, <2>8, <2>9 DEF all
    <2> QED BY <2>6, <2>7, <2>10, <2>11 DEF all, c
  <1>2. CASE Divided(op, b)
    <2> DEFINE m    == Transferred(op)
               size == PieceSize(m, b, k - 1)
    <2>1. IsRead(op) /\ m > 0 /\ m \in Nat /\ op.off \in Nat
      BY <1>2 DEF Divided, IsRead, Readable
    <2>2. all = m /\ \A j \in 1..m : Touched(op)[j] = <<op.s, op.t, op.h, op.tgt, op.off + j - 1>>
      BY <2>1, TouchesAre
    <2>3. /\ size \in 1..b
          /\ c[k - 1] \in Nat /\ c[k - 1] = PieceStart(b, k - 1)
          /\ c[k] = c[k - 1] + size /\ c[k] <= m
      BY <1>2, <2>1, <2>2, CoversPieces
    <2>4. /\ o.off = op.off + PieceStart(b, k - 1) /\ o.len = size /\ o.ret = None
          /\ o.s = op.s /\ o.t = op.t /\ o.h = op.h /\ o.tgt = op.tgt /\ o.op = op.op
      BY <1>2 DEF PieceOf
    <2> HIDE DEF m, size, all, c
    <2>5. Transferred(o) = size /\ IsRead(o)
      BY <1>0, <2>1, <2>3, <2>4 DEF Transferred, IsRead
    <2>6. Readable(o)
      BY <2>1, <2>3, <2>4, <2>5 DEF Readable
    <2>7. Len(Touched(o)) = size /\ \A j \in 1..size : Touched(o)[j] = <<o.s, o.t, o.h, o.tgt, o.off + j - 1>>
      BY <2>3, <2>5, <2>6, TouchesAre
    <2>8. ASSUME NEW j \in 1..size
          PROVE  c[k - 1] + j \in 1..m /\ Touched(o)[j] = Touched(op)[c[k - 1] + j]
      <3>1. c[k - 1] + j \in 1..m
        BY <2>1, <2>3
      <3>2. o.off + j - 1 = op.off + (c[k - 1] + j) - 1
        BY <2>1, <2>3, <2>4
      <3>3. Touched(op)[c[k - 1] + j] = <<op.s, op.t, op.h, op.tgt, op.off + (c[k - 1] + j) - 1>>
        BY <2>2, <3>1
      <3> QED BY <2>4, <2>7, <3>1, <3>2, <3>3
    <2>9. size = c[k] - c[k - 1] /\ size <= b
      BY <2>1, <2>3
    <2> QED BY <2>2, <2>5, <2>6, <2>7, <2>8, <2>9 DEF all, c
  <1> QED BY <1>1, <1>2

(* What a piece counts of its operation. *)
LEMMA PieceCounts ==
  ASSUME NEW H, Typed(H), NEW op \in H, Readable(op), NEW b \in Nat \ {0},
         CountedBytes(op) => Transferred(op) \in Nat,
         NEW k \in 1..NumberOf(op, b), NEW o, PieceOf(o, op, b, k),
         NumberOf(op, b) \in Nat \ {0}
  PROVE  LET c == Covered(op, b, Counts(op))
         IN  /\ Counts(op) \in Nat
             /\ CountedBytes(o) => Transferred(o) \in Nat
             /\ Counts(o) = c[k] - c[k - 1]
  <1> DEFINE all == Counts(op)
             c   == Covered(op, b, all)
  <1>0. None \notin Int /\ all \in Nat
    BY DEF Typed, Counts
  <1>1. CASE ~Divided(op, b)
    <2>1. NumberOf(op, b) = 1 /\ k = 1
      BY <1>1 DEF NumberOf
    <2>2. \A f \in {"op", "len", "ret"} : o[f] = op[f]
      BY <1>1 DEF PieceOf
    <2>3. Transferred(o) = Transferred(op) /\ (CountedBytes(o) <=> CountedBytes(op))
      BY <2>2 DEF Transferred, CountedBytes, CountsBytes
    <2>4. Counts(o) = all
      BY <2>3 DEF Counts
    <2> HIDE DEF all
    <2>5. c[0] = 0 /\ c[1] = all
      BY <1>0, <2>1, Covers
    <2> HIDE DEF c
    <2> QED BY <1>0, <2>1, <2>3, <2>4, <2>5 DEF all, c
  <1>2. CASE Divided(op, b)
    <2> DEFINE m    == Transferred(op)
               size == PieceSize(m, b, k - 1)
    <2>1. IsRead(op) /\ m > 0 /\ m \in Nat /\ CountedBytes(op)
      BY <1>2 DEF Divided, IsRead, Readable, CountedBytes, CountsBytes
    <2>2. all = m
      BY <2>1 DEF Counts
    <2>3. size \in 1..b /\ c[k - 1] \in Nat /\ c[k] = c[k - 1] + size
      BY <1>2, <2>1, <2>2, CoversPieces
    <2>4. o.len = size /\ o.ret = None /\ o.op = op.op
      BY <1>2 DEF PieceOf
    <2> HIDE DEF m, size, all, c
    <2>5. Transferred(o) = size /\ CountedBytes(o)
      BY <1>0, <2>1, <2>3, <2>4 DEF Transferred, CountedBytes, CountsBytes
    <2>6. Counts(o) = size
      BY <2>5 DEF Counts
    <2> QED BY <1>0, <2>3, <2>5, <2>6 DEF all, c
  <1> QED BY <1>1, <1>2

-----------------------------------------------------------------------------
(* An operation whose bytes can be counted and divided. *)
Sound(op) == Readable(op) /\ (CountedBytes(op) => Transferred(op) \in Nat)

(* Where the pieces are, told from the output's side. *)
Placed(E, cut, ops, b) ==
  /\ \A n \in 1..Len(cut) : \E i \in 1..Len(ops) : \E k \in 1..NumberOf(ops[i], b) :
       n = E[i - 1] + k /\ cut[n].op_id = n - 1 /\ PieceOf(cut[n], ops[i], b, k)
  /\ \A i, j \in 0..Len(ops) : i <= j => E[i] <= E[j]
  /\ \A i \in 0..Len(ops) : E[i] \in Nat
  /\ \A i \in 1..Len(ops) :
       /\ E[i] - E[i - 1] = NumberOf(ops[i], b)
       /\ E[i - 1] <= E[i]
       /\ NumberOf(ops[i], b) \in Nat \ {0}
       /\ \A k \in 1..NumberOf(ops[i], b) : E[i - 1] + k \in 1..Len(cut)

(* Every operation of the output is a piece of one of the input's. *)
LEMMA PlacedPieces ==
  ASSUME NEW ops, NEW b, NEW cut, Len(ops) \in Nat, NEW E, SplitAt(E, cut, ops, b)
  PROVE  Placed(E, cut, ops, b)
  <1> DEFINE N == Len(ops)
             M == Len(cut)
  <1>1. /\ E \in [0..N -> Nat] /\ E[0] = 0 /\ M = E[N] /\ N \in Nat /\ M \in Nat
        /\ \A i \in 1..N : E[i] = E[i - 1] + NumberOf(ops[i], b) /\ NumberOf(ops[i], b) \in Nat \ {0}
    BY DEF SplitAt
  <1>2. \A i \in 1..N : \A k \in 1..NumberOf(ops[i], b) :
          cut[E[i - 1] + k].op_id = E[i - 1] + k - 1 /\ PieceOf(cut[E[i - 1] + k], ops[i], b, k)
    BY DEF SplitAt
  <1> HIDE DEF N, M
  <1>3. ASSUME NEW i \in 1..N
        PROVE  /\ E[i - 1] \in Nat /\ E[i] \in Nat /\ E[i] - E[i - 1] = NumberOf(ops[i], b)
               /\ E[i - 1] <= E[i] /\ NumberOf(ops[i], b) \in Nat \ {0} /\ i \in 0..N
    <2>1. i - 1 \in 0..N /\ i \in 0..N
      BY <1>1
    <2>2. E[i - 1] \in Nat /\ E[i] \in Nat /\ NumberOf(ops[i], b) \in Nat \ {0} /\ E[i] = E[i - 1] + NumberOf(ops[i], b)
      BY <1>1, <2>1
    <2> QED BY <2>1, <2>2
  <1>4. \A i, j \in 0..N : i <= j => E[i] <= E[j]
    <2>1. E \in [0..N -> Int]
      BY <1>1
    <2> QED BY <1>1, <1>3, <2>1, NeverFalls
  <1>5. ASSUME NEW i \in 1..N, NEW k \in 1..NumberOf(ops[i], b) PROVE E[i - 1] + k \in 1..M
    <2>1. E[i] <= E[N] /\ N \in 0..N
      BY <1>1, <1>3, <1>4
    <2>2. E[N] = M /\ M \in Nat /\ E[i - 1] \in Nat /\ E[i] \in Nat
      BY <1>1, <1>3
    <2>3. NumberOf(ops[i], b) \in Nat /\ E[i] - E[i - 1] = NumberOf(ops[i], b)
      BY <1>3
    <2> QED BY <2>1, <2>2, <2>3
  <1>6. ASSUME NEW n \in 1..M
        PROVE  \E i \in 1..N : \E k \in 1..NumberOf(ops[i], b) :
                 n = E[i - 1] + k /\ cut[n].op_id = n - 1 /\ PieceOf(cut[n], ops[i], b, k)
    <2>1. PICK i \in 1..N : E[i - 1] < n /\ n <= E[i]
      BY <1>1, LaidEverywhere
    <2> DEFINE k == n - E[i - 1]
    <2>2. k \in 1..NumberOf(ops[i], b) /\ n = E[i - 1] + k /\ n - 1 = E[i - 1] + k - 1
      BY <1>1, <1>3, <2>1
    <2> HIDE DEF k
    <2>3. cut[E[i - 1] + k].op_id = E[i - 1] + k - 1 /\ PieceOf(cut[E[i - 1] + k], ops[i], b, k)
      BY <1>2, <2>2
    <2>4. cut[n].op_id = n - 1 /\ PieceOf(cut[n], ops[i], b, k)
      BY <2>2, <2>3
    <2> QED BY <2>2, <2>4
  <1>7. \A i \in 0..N : E[i] \in Nat
    BY <1>1
  <1> QED BY <1>3, <1>4, <1>5, <1>6, <1>7 DEF N, M, Placed

(* Dividing the reads of a trace leaves what is read, in its order, and how    *)
(* many bytes are counted, for any operations and any block (splitreads.go:74). *)
LEMMA SplitKeepsBytes ==
  ASSUME NEW H, Typed(H), NEW ops \in Seq(H), \A i \in 1..Len(ops) : Sound(ops[i]), NEW b \in Nat \ {0},
         NEW cut, cut = SplitOps(ops, b)
  PROVE  /\ AllTouched(cut) = AllTouched(ops)
         /\ TransferTotal(cut) = TransferTotal(ops)
         /\ \A n \in 1..Len(cut) : IsRead(cut[n]) => Full(cut[n], b) \/ FellShort(cut[n], b, ops)
         /\ \E E : SplitAt(E, cut, ops, b)
  <1> DEFINE N == Len(ops)
             M == Len(cut)
             num(i) == NumberOf(ops[i], b)
  <1>1. N \in Nat /\ DOMAIN ops = 1..N /\ \A i \in 1..N : ops[i] \in H /\ Sound(ops[i]) /\ Readable(ops[i])
    BY DEF Sound
  <1>2. PICK E : SplitAt(E, cut, ops, b)
    <2>1. \A i \in 1..Len(ops) : Readable(ops[i])
      BY <1>1
    <2> QED BY <2>1, SplitIsLaid
  <1>3. /\ \A n \in 1..M : \E i \in 1..N : \E k \in 1..num(i) :
              n = E[i - 1] + k /\ PieceOf(cut[n], ops[i], b, k)
        /\ \A i \in 0..N : E[i] \in Nat
        /\ \A i \in 1..N : /\ E[i] - E[i - 1] = num(i) /\ E[i - 1] <= E[i] /\ num(i) \in Nat \ {0}
                           /\ \A k \in 1..num(i) : E[i - 1] + k \in 1..M
    <2>1. Placed(E, cut, ops, b)
      <3>1. Len(ops) \in Nat
        BY <1>1
      <3> HIDE DEF N, M, num
      <3> QED BY <3>1, <1>2, PlacedPieces
    <2> QED BY <2>1 DEF Placed
  <1>4. /\ E \in [0..N -> Nat] /\ E[0] = 0 /\ M = E[N] /\ M \in Nat
        /\ cut = [n \in 1..M |-> cut[n]] /\ DOMAIN cut = 1..M
        /\ \A i \in 1..N : \A k \in 1..num(i) : PieceOf(cut[E[i - 1] + k], ops[i], b, k)
    <2>1. /\ E \in [0..N -> Nat] /\ E[0] = 0 /\ M = E[N] /\ M \in Nat
          /\ cut = [n \in 1..M |-> cut[n]]
          /\ \A i \in 1..N : \A k \in 1..num(i) : PieceOf(cut[E[i - 1] + k], ops[i], b, k)
      BY <1>2 DEF SplitAt
    <2>2. DOMAIN cut = 1..M
      BY <2>1
    <2> QED BY <2>1, <2>2
  <1> HIDE DEF N, M, num
  <1>5. ASSUME NEW i \in 1..N, NEW k \in 1..num(i), NEW o, PieceOf(o, ops[i], b, k)
        PROVE  LET all == Len(Touched(ops[i]))
                   c   == Covered(ops[i], b, all)
               IN  /\ Readable(o)
                   /\ Len(Touched(o)) = c[k] - c[k - 1]
                   /\ \A j \in 1..Len(Touched(o)) :
                        c[k - 1] + j \in 1..all /\ Touched(o)[j] = Touched(ops[i])[c[k - 1] + j]
                   /\ IsRead(o) => Transferred(o) <= b
    <2>1. ops[i] \in H /\ Readable(ops[i]) /\ k \in 1..NumberOf(ops[i], b) /\ NumberOf(ops[i], b) \in Nat \ {0}
      BY <1>1, <1>3 DEF num
    <2> QED BY <1>5, <2>1, PieceTouches
  <1>6. ASSUME NEW i \in 1..N, NEW k \in 1..num(i), NEW o, PieceOf(o, ops[i], b, k)
        PROVE  LET c == Covered(ops[i], b, Counts(ops[i]))
               IN  /\ CountedBytes(o) => Transferred(o) \in Nat
                   /\ Counts(o) = c[k] - c[k - 1]
    <2>1. ops[i] \in H /\ Readable(ops[i]) /\ k \in 1..NumberOf(ops[i], b) /\ NumberOf(ops[i], b) \in Nat \ {0}
          /\ (CountedBytes(ops[i]) => Transferred(ops[i]) \in Nat)
      BY <1>1, <1>3 DEF num, Sound
    <2> QED BY <1>6, <2>1, PieceCounts
  <1>7. \A n \in 1..M : Readable(cut[n]) /\ (IsRead(cut[n]) => Transferred(cut[n]) <= b)
                        /\ (CountedBytes(cut[n]) => Transferred(cut[n]) \in Nat)
    BY <1>3, <1>5, <1>6
  <1>8. AllTouched(cut) = AllTouched(ops)
    <2> DEFINE fine   == [n \in 1..M |-> Touched(cut[n])]
               coarse == [i \in 1..N |-> Touched(ops[i])]
               c      == [i \in 1..N |-> Covered(ops[i], b, Len(Touched(ops[i])))]
    <2>1. Sequences(fine, M)
      <3>1. \A n \in 1..M : \E X : Touched(cut[n]) \in Seq(X)
        BY <1>7, TouchesAre
      <3> QED BY <3>1 DEF Sequences
    <2>2. Sequences(coarse, N) /\ \A i \in 1..N : Len(Touched(ops[i])) \in Nat
      <3>1. \A i \in 1..N : (\E X : Touched(ops[i]) \in Seq(X)) /\ Len(Touched(ops[i])) \in Nat
        BY <1>1, TouchesAre
      <3> QED BY <3>1 DEF Sequences
    <2>3. ASSUME NEW i \in 1..N
          PROVE  /\ c[i] \in [0..num(i) -> Nat] /\ c[i][0] = 0 /\ c[i][num(i)] = Len(Touched(ops[i]))
      <3>1. num(i) \in Nat \ {0}
        BY <1>3
      <3> QED BY <2>2, <3>1, Covers DEF num
    <2>4. ASSUME NEW i \in 1..N, NEW k \in 1..num(i)
          PROVE  /\ Len(fine[E[i - 1] + k]) = c[i][k] - c[i][k - 1]
                 /\ \A j \in 1..Len(fine[E[i - 1] + k]) :
                      c[i][k - 1] + j \in 1..Len(coarse[i]) /\ fine[E[i - 1] + k][j] = coarse[i][c[i][k - 1] + j]
      <3> DEFINE n == E[i - 1] + k
      <3>1. n \in 1..M /\ PieceOf(cut[n], ops[i], b, k)
        BY <1>3, <1>4
      <3> HIDE DEF n
      <3>2. fine[n] = Touched(cut[n]) /\ coarse[i] = Touched(ops[i]) /\ c[i] = Covered(ops[i], b, Len(Touched(ops[i])))
        BY <3>1
      <3> HIDE DEF fine, coarse, c
      <3>3. /\ Len(fine[n]) = c[i][k] - c[i][k - 1]
            /\ \A j \in 1..Len(fine[n]) :
                 c[i][k - 1] + j \in 1..Len(coarse[i]) /\ fine[n][j] = coarse[i][c[i][k - 1] + j]
        <4>1. LET all == Len(Touched(ops[i]))
                  e   == Covered(ops[i], b, all)
              IN  /\ Len(Touched(cut[n])) = e[k] - e[k - 1]
                  /\ \A j \in 1..Len(Touched(cut[n])) :
                       e[k - 1] + j \in 1..all /\ Touched(cut[n])[j] = Touched(ops[i])[e[k - 1] + j]
          BY <1>5, <3>1
        <4> QED BY <4>1, <3>2
      <3> QED BY <3>3 DEF n
    <2>5. \A i \in 1..N : Len(coarse[i]) = Len(Touched(ops[i]))
      OBVIOUS
    <2>6. AllTouched(cut) = FlattenSeq(fine) /\ AllTouched(ops) = FlattenSeq(coarse)
      BY <1>1, <1>4 DEF AllTouched
    <2> HIDE DEF fine, coarse, c
    <2>7. Refines(E, fine, coarse, c, N)
      <3>1. \A i \in 1..N : E[i] - E[i - 1] = num(i) /\ E[i - 1] <= E[i]
        BY <1>3
      <3>2. ASSUME NEW i \in 1..N
            PROVE  /\ E[i - 1] <= E[i]
                   /\ c[i] \in [0..(E[i] - E[i - 1]) -> Nat] /\ c[i][0] = 0
                   /\ c[i][E[i] - E[i - 1]] = Len(coarse[i])
        <4>1. E[i] - E[i - 1] = num(i) /\ E[i - 1] <= E[i]
          BY <3>1
        <4>2. c[i] \in [0..num(i) -> Nat] /\ c[i][0] = 0 /\ c[i][num(i)] = Len(coarse[i])
          BY <2>3, <2>5
        <4> QED BY <4>1, <4>2
      <3>3. ASSUME NEW i \in 1..N, NEW k \in 1..(E[i] - E[i - 1])
            PROVE  /\ Len(fine[E[i - 1] + k]) = c[i][k] - c[i][k - 1]
                   /\ \A j \in 1..Len(fine[E[i - 1] + k]) :
                        c[i][k - 1] + j \in 1..Len(coarse[i]) /\ fine[E[i - 1] + k][j] = coarse[i][c[i][k - 1] + j]
        <4>1. k \in 1..num(i)
          BY <3>1
        <4> QED BY <2>4, <4>1
      <3>4. E \in [0..N -> Nat] /\ E[0] = 0
        BY <1>4
      <3> QED BY <3>2, <3>3, <3>4 DEF Refines
    <2>8. FlattenSeq(fine) = FlattenSeq(coarse)
      BY <1>1, <1>4, <2>1, <2>2, <2>7, FlattensToTheSame
    <2> QED BY <2>6, <2>8
  <1>9. TransferTotal(cut) = TransferTotal(ops)
    <2> DEFINE K == {cut[n] : n \in 1..M}
               c == [i \in 1..N |-> Covered(ops[i], b, Counts(ops[i]))]
    <2>1. cut \in Seq(K)
      <3>1. \A n \in 1..M : cut[n] \in K
        OBVIOUS
      <3> HIDE DEF K
      <3>2. cut \in [1..M -> K] /\ M \in Nat
        BY <1>4, <3>1
      <3> QED BY <3>2
    <2>2. PICK a : Totals(a, cut)
      <3> HIDE DEF K
      <3>1. \A n \in DOMAIN cut : CountedBytes(cut[n]) => Transferred(cut[n]) \in Nat
        BY <1>4, <1>7
      <3> QED BY <2>1, <3>1, TotalRuns
    <2>3. PICK g : Totals(g, ops)
      <3>1. \A i \in DOMAIN ops : CountedBytes(ops[i]) => Transferred(ops[i]) \in Nat
        BY <1>1 DEF Sound
      <3> QED BY <3>1, TotalRuns
    <2> HIDE DEF K
    <2>4. /\ a \in [0..M -> Nat] /\ a[0] = 0 /\ TransferTotal(cut) = a[M]
          /\ \A n \in 1..M : a[n] = a[n - 1] + Counts(cut[n])
      BY <2>2 DEF Totals, M
    <2>5. /\ g \in [0..N -> Nat] /\ g[0] = 0 /\ TransferTotal(ops) = g[N]
          /\ \A i \in 1..N : g[i] = g[i - 1] + Counts(ops[i])
      BY <2>3 DEF Totals, N
    <2>6. ASSUME NEW i \in 1..N
          PROVE  /\ c[i] \in [0..num(i) -> Nat] /\ c[i][0] = 0 /\ c[i][num(i)] = Counts(ops[i])
      <3>1. num(i) \in Nat \ {0} /\ Counts(ops[i]) \in Nat
        BY <1>1, <1>3 DEF Counts, Sound
      <3> QED BY <3>1, Covers DEF num
    <2>7. ASSUME NEW i \in 1..N, NEW k \in 1..num(i)
          PROVE  a[E[i - 1] + k] = a[E[i - 1] + k - 1] + (c[i][k] - c[i][k - 1])
      <3> DEFINE n == E[i - 1] + k
      <3>1. n \in 1..M /\ PieceOf(cut[n], ops[i], b, k)
        BY <1>3, <1>4
      <3> HIDE DEF n
      <3>2. Counts(cut[n]) = c[i][k] - c[i][k - 1]
        <4>1. c[i] = Covered(ops[i], b, Counts(ops[i]))
          OBVIOUS
        <4> HIDE DEF c
        <4> QED BY <1>6, <3>1, <4>1
      <3>3. a[n] = a[n - 1] + Counts(cut[n])
        BY <2>4, <3>1
      <3>4. n - 1 = E[i - 1] + k - 1
        <4>1. E[i - 1] \in Nat /\ num(i) \in Nat
          BY <1>3, <1>1
        <4> QED BY <4>1 DEF n
      <3> QED BY <3>2, <3>3, <3>4 DEF n
    <2> HIDE DEF c
    <2>8. AddsUp(N, E, a, g, c)
      <3>1. \A i \in 1..N : E[i] - E[i - 1] = num(i) /\ E[i - 1] <= E[i]
        BY <1>3
      <3>2. \A i \in 1..N : g[i] = g[i - 1] + c[i][num(i)]
        BY <2>5, <2>6
      <3>3. a \in [0..E[N] -> Nat]
        BY <1>4, <2>4
      <3> QED BY <1>4, <2>4, <2>5, <2>6, <2>7, <3>1, <3>2, <3>3 DEF AddsUp
    <2>9. a[E[N]] = g[N]
      BY <1>1, <2>8, SumsByParts
    <2> QED BY <1>4, <2>4, <2>5, <2>9
  <1>10. ASSUME NEW n \in 1..M, IsRead(cut[n])
         PROVE  Full(cut[n], b) \/ FellShort(cut[n], b, ops)
    <2> DEFINE o == cut[n]
    <2>1. PICK i \in 1..N : \E k \in 1..num(i) : PieceOf(o, ops[i], b, k)
      BY <1>3
    <2>2. Transferred(o) <= b
      BY <1>7, <1>10
    <2>3. Divided(ops[i], b) => o.ret = None
      BY <2>1 DEF PieceOf
    <2>4. ~Divided(ops[i], b) => o = [ops[i] EXCEPT !.op_id = o.op_id]
      BY <2>1 DEF PieceOf
    <2>5. i \in DOMAIN ops
      BY <1>1, <2>1
    <2> HIDE DEF o
    <2>6. CASE o.ret = None
      <3>1. Full(o, b)
        BY <2>2, <2>6 DEF Full, Transferred
      <3> QED BY <3>1 DEF o
    <2>7. CASE o.ret # None
      <3>1. o.ret <= b
        BY <2>2, <2>7 DEF Transferred
      <3>2. \E j \in DOMAIN ops : o = [ops[j] EXCEPT !.op_id = o.op_id]
        BY <2>3, <2>4, <2>5, <2>7
      <3>3. FellShort(o, b, ops)
        BY <2>7, <3>1, <3>2 DEF FellShort
      <3> QED BY <3>3 DEF o
    <2> QED BY <2>6, <2>7
  <1> QED BY <1>2, <1>8, <1>9, <1>10 DEF M

-----------------------------------------------------------------------------
(* Pieces are in the order of their operations, and those of one operation in *)
(* the order of their positions.                                              *)
LEMMA PiecesInOrder ==
  ASSUME NEW ops, Len(ops) \in Nat, NEW b, NEW cut, NEW E, Placed(E, cut, ops, b),
         NEW i \in 1..Len(ops), NEW k \in 1..NumberOf(ops[i], b),
         NEW j \in 1..Len(ops), NEW l \in 1..NumberOf(ops[j], b)
  PROVE  /\ E[i - 1] + k \in Nat /\ E[j - 1] + l \in Nat
         /\ i < j => E[i - 1] + k < E[j - 1] + l
         /\ E[i - 1] + k < E[j - 1] + l => i <= j
  <1> DEFINE N == Len(ops)
  <1>1. /\ \A x, y \in 0..N : x <= y => E[x] <= E[y]
        /\ \A x \in 0..N : E[x] \in Nat
        /\ \A x \in 1..N : E[x] - E[x - 1] = NumberOf(ops[x], b) /\ NumberOf(ops[x], b) \in Nat \ {0}
    BY DEF Placed
  <1>2. N \in Nat
    OBVIOUS
  <1> HIDE DEF N
  <1>3. ASSUME NEW x \in 1..N
        PROVE  /\ E[x] \in Nat /\ E[x - 1] \in Nat /\ NumberOf(ops[x], b) \in Nat
               /\ E[x] = E[x - 1] + NumberOf(ops[x], b)
    <2>1. x \in 0..N /\ x - 1 \in 0..N
      BY <1>2
    <2>2. E[x] \in Nat /\ E[x - 1] \in Nat /\ NumberOf(ops[x], b) \in Nat /\ E[x] - E[x - 1] = NumberOf(ops[x], b)
      BY <1>1, <2>1
    <2> QED BY <2>2
  <1>4. ASSUME NEW x \in 1..N, NEW y \in 1..N, x < y PROVE E[x] <= E[y - 1]
    <2>1. x \in 0..N /\ y - 1 \in 0..N /\ x <= y - 1
      BY <1>2, <1>4
    <2> QED BY <1>1, <2>1
  <1>5. i \in 1..N /\ j \in 1..N /\ k \in 1..NumberOf(ops[i], b) /\ l \in 1..NumberOf(ops[j], b)
    BY DEF N
  <1>6. E[i - 1] + k \in Nat /\ E[j - 1] + l \in Nat
    <2>1. E[i - 1] \in Nat /\ E[j - 1] \in Nat
      BY <1>3, <1>5
    <2>2. NumberOf(ops[i], b) \in Nat /\ NumberOf(ops[j], b) \in Nat
      BY <1>3, <1>5
    <2>3. k \in Nat /\ l \in Nat
      BY <2>2, <1>5
    <2> QED BY <2>1, <2>3
  <1>7. ASSUME i < j PROVE E[i - 1] + k < E[j - 1] + l
    <2>1. E[i] <= E[j - 1]
      BY <1>4, <1>5, <1>7
    <2> QED BY <1>3, <1>5, <2>1
  <1>8. ASSUME E[i - 1] + k < E[j - 1] + l PROVE i <= j
    <2>1. ASSUME j < i PROVE FALSE
      <3>1. E[j] <= E[i - 1]
        BY <1>4, <1>5, <2>1
      <3> QED BY <1>3, <1>5, <1>8, <3>1
    <2> QED BY <1>2, <1>5, <2>1
  <1> QED BY <1>6, <1>7, <1>8

(* What is legal can be divided. *)
LEMMA ShapedIsSound ==
  ASSUME NEW H, Typed(H), NEW op \in H, NEW tr, Shaped(tr, op)
  PROVE  Sound(op)
  <1>1. Transferred(op) # None => Transferred(op) \in Nat
    BY MovesNaturals
  <1>2. op.off # None => op.off \in Nat
    BY MovesNaturals
  <1>3. op.op \in {"READ", "GET"} => op.off # None
    BY DEF Shaped
  <1> QED BY <1>1, <1>2, <1>3 DEF Sound, Readable, IsRead, CountedBytes

(* A piece of a legal operation is typed and has the shape of one. *)
LEMMA PieceIsShaped ==
  ASSUME NEW H, Typed(H), NEW op \in H, NEW tr, Shaped(tr, op), tr.version \in Int,
         NEW b \in Nat \ {0}, NEW k \in 1..NumberOf(op, b), NumberOf(op, b) \in Nat \ {0},
         NEW n \in Nat, NEW o, PieceOf(o, op, b, k), o.op_id = n,
         NEW new, new.version = 3, new.targets = tr.targets
  PROVE  Shaped(new, o) /\ Typed({o})
  <1>1. /\ None \notin Int /\ DOMAIN op = DOMAIN BlankOp /\ op.t \in Int
        /\ \A f \in {"op_id", "off", "len", "ret", "dur"} : op[f] \in Int \cup {None}
    BY DEF Typed
  <1>2. DOMAIN o = DOMAIN BlankOp /\ o.t = op.t /\ o.s = op.s /\ o.op = op.op /\ o.tgt = op.tgt /\ o.h = op.h /\ o.mode = op.mode
    BY DEF PieceOf
  <1>3. CASE ~Divided(op, b)
    <2>1. o.off = op.off /\ o.len = op.len /\ o.ret = op.ret /\ o.dur = op.dur
      BY <1>3 DEF PieceOf
    <2>2. Typed({o})
      BY <1>1, <1>2, <2>1 DEF Typed
    <2>3. op.ret # None => op.op \in {"READ", "GET"} /\ op.ret \in 0..op.len
      BY DEF Shaped
    <2>4. \A f \in {"off", "len", "dur"} : o[f] # None => o[f] >= 0
      BY <2>1 DEF Shaped
    <2> QED BY <1>1, <1>2, <2>1, <2>2, <2>3, <2>4 DEF Shaped
  <1>4. CASE Divided(op, b)
    <2>1. o.off = op.off + PieceStart(b, k - 1) /\ o.len = PieceSize(Transferred(op), b, k - 1)
          /\ o.ret = None /\ o.dur = None
      BY <1>4 DEF PieceOf
    <2>2. op.op \in {"READ", "GET"} /\ Transferred(op) \in Nat /\ op.off \in Nat
      BY <1>4, ShapedIsSound DEF Divided, Sound, Readable, IsRead
    <2>3. PieceSize(Transferred(op), b, k - 1) \in 1..b /\ PieceStart(b, k - 1) \in Nat
      BY <1>4, <2>2, CoversPieces
    <2>4. o.off \in Nat /\ o.len \in Nat
      BY <2>1, <2>2, <2>3
    <2>5. Typed({o})
      BY <1>1, <1>2, <2>1, <2>4 DEF Typed
    <2>6. \A f \in {"off", "len", "dur"} : o[f] # None => o[f] >= 0
      BY <2>1, <2>4
    <2>7. o.off # None /\ o.len # None
      BY <1>1, <2>4
    <2> QED BY <1>1, <1>2, <2>1, <2>2, <2>5, <2>6, <2>7 DEF Shaped
  <1> QED BY <1>3, <1>4

(* An accepted trace is divided into one the validator accepts too, whatever  *)
(* the block: pieces keep the order and the lifecycles (transform.go:124).     *)
LEMMA SplitIsAccepted ==
  ASSUME NEW H, Typed(H), NEW tr, tr.ops \in Seq(H), tr.version \in Int, tr.summary.duration \in Nat,
         Errors(tr) = {}, NEW b \in Nat \ {0}
  PROVE  /\ Errors(SplitFile(tr, b)) = {}
         /\ \A i \in 1..Len(tr.ops) : Sound(tr.ops[i])
  <1> DEFINE ops == tr.ops
             N   == Len(ops)
             new == SplitFile(tr, b)
             cut == SplitOps(ops, b)
             M   == Len(cut)
             num(i) == NumberOf(ops[i], b)
             K   == {cut[n] : n \in 1..M}
  <1>1. ops \in Seq(H) /\ N \in Nat /\ DOMAIN ops = 1..N /\ \A i \in 1..N : ops[i] \in H
    OBVIOUS
  <1>2. (\A i \in 1..N : Shaped(tr, ops[i])) /\ Orderly(ops) /\ Lifecycles(ops)
    BY <1>1, AcceptsExactly
  <1>3. \A i \in 1..N : Sound(ops[i])
    BY <1>1, <1>2, ShapedIsSound
  <1>4. PICK E : SplitAt(E, cut, ops, b)
    BY <1>1, <1>3, SplitIsLaid DEF Sound
  <1>5. Placed(E, cut, ops, b)
    BY <1>1, <1>4, PlacedPieces
  <1>6. /\ new.ops = cut /\ new.version = 3 /\ new.targets = tr.targets
        /\ new.summary = Summary(cut, tr.summary.duration)
    BY DEF SplitFile
  <1>7. M \in Nat /\ cut = [n \in 1..M |-> cut[n]]
    BY <1>4 DEF SplitAt
  <1> HIDE DEF ops, N, new, cut, M, num, K
  <1>8. /\ \A n \in 1..M : \E i \in 1..N : \E k \in 1..num(i) :
             n = E[i - 1] + k /\ cut[n].op_id = n - 1 /\ PieceOf(cut[n], ops[i], b, k)
        /\ \A i \in 1..N : num(i) \in Nat \ {0} /\ \A k \in 1..num(i) : E[i - 1] + k \in 1..M
    BY <1>5 DEF Placed, N, M, num
  <1>9. ASSUME NEW i \in 1..N, NEW k \in 1..num(i), NEW j \in 1..N, NEW l \in 1..num(j)
        PROVE  /\ i < j => E[i - 1] + k < E[j - 1] + l
               /\ E[i - 1] + k < E[j - 1] + l => i <= j
    <2>1. i \in 1..Len(ops) /\ k \in 1..NumberOf(ops[i], b) /\ j \in 1..Len(ops) /\ l \in 1..NumberOf(ops[j], b) /\ Len(ops) \in Nat
      BY <1>1 DEF N, num
    <2> QED BY <1>5, <2>1, PiecesInOrder
  <1>10. ASSUME NEW n \in 1..M PROVE Shaped(new, cut[n]) /\ Typed({cut[n]})
    <2>1. PICK i \in 1..N : \E k \in 1..num(i) :
             n = E[i - 1] + k /\ cut[n].op_id = n - 1 /\ PieceOf(cut[n], ops[i], b, k)
      BY <1>8
    <2>2. PICK k \in 1..num(i) : cut[n].op_id = n - 1 /\ PieceOf(cut[n], ops[i], b, k)
      BY <2>1
    <2>3. ops[i] \in H /\ Shaped(tr, ops[i]) /\ n - 1 \in Nat /\ num(i) \in Nat \ {0}
      BY <1>1, <1>2, <1>7, <1>8
    <2> QED BY <1>6, <2>2, <2>3, PieceIsShaped DEF num
  <1>11. Typed(K) /\ cut \in Seq(K) /\ DOMAIN cut = 1..M /\ Len(cut) = M
    <2>1. Typed(K)
      <3>1. None \notin Int
        BY DEF Typed
      <3>2. ASSUME NEW o \in K
            PROVE  /\ DOMAIN o = DOMAIN BlankOp /\ o.t \in Int
                   /\ \A f \in {"op_id", "off", "len", "ret", "dur"} : o[f] \in Int \cup {None}
        <4>1. Typed({o})
          BY <1>10 DEF K
        <4> QED BY <4>1 DEF Typed
      <3> QED BY <3>1, <3>2 DEF Typed
    <2>2. \A n \in 1..M : cut[n] \in K
      BY DEF K
    <2>3. cut \in [1..M -> K]
      BY <1>7, <2>2
    <2> QED BY <1>7, <2>1, <2>3
  (* What the operation at n is a piece of. *)
  <1> DEFINE Of(n, i, k) == n = E[i - 1] + k /\ cut[n].t = ops[i].t /\ cut[n].s = ops[i].s
                            /\ cut[n].op = ops[i].op /\ cut[n].h = ops[i].h
  <1>12. ASSUME NEW n \in 1..M PROVE cut[n].op_id = n - 1 /\ \E i \in 1..N : \E k \in 1..num(i) : Of(n, i, k)
    <2>1. PICK i \in 1..N : \E k \in 1..num(i) :
             n = E[i - 1] + k /\ cut[n].op_id = n - 1 /\ PieceOf(cut[n], ops[i], b, k)
      BY <1>8
    <2>2. PICK k \in 1..num(i) : n = E[i - 1] + k /\ cut[n].op_id = n - 1 /\ PieceOf(cut[n], ops[i], b, k)
      BY <2>1
    <2>3. Of(n, i, k)
      BY <2>2 DEF PieceOf
    <2> QED BY <2>2, <2>3
  <1>13. ASSUME NEW i \in 1..N, ops[i].op \notin {"READ", "GET"} PROVE num(i) = 1
    BY <1>13 DEF num, NumberOf, Divided
  <1>14. ASSUME NEW n \in 1..M, NEW i \in 1..N, NEW k \in 1..num(i), Of(n, i, k),
                NEW m \in 1..M, NEW j \in 1..N, NEW l \in 1..num(j), Of(m, j, l)
         PROVE  (i < j => n < m) /\ (n < m => i <= j)
    BY <1>9, <1>14
  <1>15. ASSUME NEW n \in 1..M, NEW i \in 1..N, NEW k \in 1..num(i), Of(n, i, k),
                NEW m \in 1..M, NEW l \in 1..num(i), Of(m, i, l), ops[i].op \notin {"READ", "GET"}
         PROVE  n = m
    <2>1. k = 1 /\ l = 1
      BY <1>13, <1>15
    <2> QED BY <1>15, <2>1
  <1>16. ASSUME NEW i \in 1..N, ops[i].op \notin {"READ", "GET"} PROVE \E n \in 1..M : Of(n, i, 1)
    <2> DEFINE n == E[i - 1] + 1
    <2>1. num(i) = 1 /\ 1 \in 1..num(i)
      BY <1>13, <1>16
    <2>2. n \in 1..M
      BY <1>8, <2>1
    <2>3. PieceOf(cut[n], ops[i], b, 1)
      <3>1. \A k \in 1..num(i) : PieceOf(cut[E[i - 1] + k], ops[i], b, k)
        BY <1>4 DEF SplitAt, N, num
      <3> QED BY <2>1, <3>1
    <2>4. Of(n, i, 1)
      BY <2>3 DEF PieceOf
    <2> QED BY <2>2, <2>4
  <1>17. Orderly(cut)
    <2>1. ASSUME NEW n \in 1..M, NEW m \in 1..M, n < m
          PROVE  cut[n].t <= cut[m].t /\ cut[n].op_id < cut[m].op_id /\ cut[n].op_id # cut[m].op_id
      <3>1. PICK i \in 1..N : \E k \in 1..num(i) : Of(n, i, k)
        BY <1>12
      <3>2. PICK k \in 1..num(i) : Of(n, i, k)
        BY <3>1
      <3>3. PICK j \in 1..N : \E l \in 1..num(j) : Of(m, j, l)
        BY <1>12
      <3>4. PICK l \in 1..num(j) : Of(m, j, l)
        BY <3>3
      <3>5. i <= j
        BY <1>14, <2>1, <3>2, <3>4
      <3>6. ops[i].t <= ops[j].t
        <4>1. CASE i = j
          <5>1. ops[i].t \in Int
            BY <1>1 DEF Typed
          <5> QED BY <4>1, <5>1
        <4>2. CASE i # j
          <5>1. i < j
            BY <1>1, <3>5, <4>2
          <5> QED BY <1>1, <1>2, <5>1 DEF Orderly
        <4> QED BY <4>1, <4>2
      <3>7. cut[n].t = ops[i].t /\ cut[m].t = ops[j].t
        BY <3>2, <3>4
      <3>8. cut[n].op_id = n - 1 /\ cut[m].op_id = m - 1 /\ n - 1 < m - 1 /\ n - 1 # m - 1
        BY <1>7, <1>12, <2>1
      <3> QED BY <3>6, <3>7, <3>8
    <2> QED BY <1>11, <2>1 DEF Orderly
  <1>18. Lifecycles(cut)
    <2>1. ASSUME NEW n \in 1..M, NEW m \in 1..M, cut[n].op = "OPEN", cut[m].op = "OPEN", cut[n].h = cut[m].h
          PROVE  n = m
      <3>1. PICK i \in 1..N : \E k \in 1..num(i) : Of(n, i, k)
        BY <1>12
      <3>2. PICK k \in 1..num(i) : Of(n, i, k)
        BY <3>1
      <3>3. PICK j \in 1..N : \E l \in 1..num(j) : Of(m, j, l)
        BY <1>12
      <3>4. PICK l \in 1..num(j) : Of(m, j, l)
        BY <3>3
      <3>5. i = j
        <4>1. ops[i].op = "OPEN" /\ ops[j].op = "OPEN" /\ ops[i].h = ops[j].h
          BY <2>1, <3>2, <3>4
        <4> QED BY <1>1, <1>2, <4>1 DEF Lifecycles
      <3>6. ops[i].op \notin {"READ", "GET"}
        BY <2>1, <3>2
      <3> QED BY <1>15, <3>2, <3>4, <3>5, <3>6
    <2>2. ASSUME NEW m \in 1..M, cut[m].op \in Uses
          PROVE  \E n \in 1..(m - 1) :
                   /\ cut[n].op = "OPEN" /\ cut[n].h = cut[m].h /\ cut[n].s = cut[m].s
                   /\ \A p \in (n + 1)..(m - 1) : ~(cut[p].op = "CLOSE" /\ cut[p].h = cut[m].h)
      <3>1. PICK j \in 1..N : \E l \in 1..num(j) : Of(m, j, l)
        BY <1>12
      <3>2. PICK l \in 1..num(j) : Of(m, j, l)
        BY <3>1
      <3>3. cut[m].op = ops[j].op /\ cut[m].h = ops[j].h /\ cut[m].s = ops[j].s
        BY <3>2
      <3>4. PICK i \in 1..(j - 1) :
              /\ ops[i].op = "OPEN" /\ ops[i].h = ops[j].h /\ ops[i].s = ops[j].s
              /\ \A q \in (i + 1)..(j - 1) : ~(ops[q].op = "CLOSE" /\ ops[q].h = ops[j].h)
        BY <1>1, <1>2, <2>2, <3>3 DEF Lifecycles
      <3>5. i \in 1..N /\ i < j /\ ops[i].op \notin {"READ", "GET"}
        BY <1>1, <3>4
      <3>6. PICK n \in 1..M : Of(n, i, 1)
        BY <1>16, <3>5
      <3>7. num(i) = 1 /\ 1 \in 1..num(i)
        BY <1>13, <3>5
      <3>8. n < m /\ n \in 1..(m - 1)
        <4>1. n < m
          BY <1>14, <3>2, <3>5, <3>6, <3>7
        <4> QED BY <1>7, <4>1
      <3>9. cut[n].op = "OPEN" /\ cut[n].h = cut[m].h /\ cut[n].s = cut[m].s
        BY <3>3, <3>4, <3>6
      <3>10. ASSUME NEW p \in (n + 1)..(m - 1), cut[p].op = "CLOSE", cut[p].h = cut[m].h PROVE FALSE
        <4>1. p \in 1..M /\ n < p /\ p < m
          BY <1>7, <3>8
        <4>2. PICK q \in 1..N : \E k \in 1..num(q) : Of(p, q, k)
          BY <1>12, <4>1
        <4>3. PICK k \in 1..num(q) : Of(p, q, k)
          BY <4>2
        <4>4. ops[q].op = "CLOSE" /\ ops[q].h = ops[j].h
          BY <3>3, <3>10, <4>3
        <4>5. i <= q
          BY <1>14, <3>5, <3>6, <3>7, <4>1, <4>3
        <4>6. q <= j
          <5>1. p \in 1..M /\ q \in 1..N /\ k \in 1..num(q) /\ Of(p, q, k)
            BY <4>1, <4>3
          <5> HIDE DEF Of
          <5> QED BY <1>14, <3>2, <4>1, <5>1
        <4>7. q # i
          BY <3>4, <4>4
        <4>8. q # j
          <5>1. ASSUME q = j PROVE FALSE
            <6>1. ops[j].op \notin {"READ", "GET"}
              BY <4>4, <5>1
            <6>2. Of(p, j, k) /\ k \in 1..num(j)
              BY <4>3, <5>1
            <6>3. p = m
              BY <1>15, <3>2, <4>1, <6>1, <6>2
            <6> QED BY <1>7, <4>1, <6>3
          <5> QED BY <5>1
        <4>9. q \in (i + 1)..(j - 1)
          BY <1>1, <3>5, <4>5, <4>6, <4>7, <4>8
        <4> QED BY <3>4, <4>4, <4>9
      <3> QED BY <3>8, <3>9, <3>10
    <2> QED BY <1>11, <2>1, <2>2 DEF Lifecycles
  <1>19. \A n \in DOMAIN cut : Shaped(new, cut[n])
    BY <1>10, <1>11
  <1>20. SummaryErrors(new) \cup HeaderErrors(new) = {}
    <2>1. new.version \in 1..3 /\ new.ops = cut
      BY <1>6
    <2> QED BY <1>6, <1>11, <1>19, <2>1, HonestHeader
  <1>21. Errors(new) = {}
    <2>1. new.version \in Int /\ new.ops = cut
      BY <1>6
    <2> QED BY <1>11, <1>17, <1>18, <1>19, <1>20, <2>1, AcceptsExactly
  <1> QED BY <1>3, <1>21 DEF new, ops, N

-----------------------------------------------------------------------------
(* An operation a generator makes for a trace of so many targets. *)
Good(op, targets) ==
  /\ op \in MadeOps /\ op.h \in Int /\ op.dur = None /\ op.op \in Uses \cup {"OPEN"}
  /\ op.op = "OPEN" => op.tgt \in 0..(targets - 1) /\ op.mode \in {"r", "w", "rw"}
  /\ op.op # "OPEN" => op.tgt = None /\ op.mode = None
  /\ op.op \in {"READ", "WRITE"} => op.off \in Nat /\ op.len \in Nat
  /\ op.op \notin {"READ", "WRITE"} => op.off = None /\ op.len = None

(* Such an operation has the shape the validator asks for, once it is numbered. *)
LEMMA GoodIsNumberable ==
  ASSUME NEW targets, NEW op, Good(op, targets), NEW tr, tr.targets = targets
  PROVE  Numberable(tr, op)
  <1> SUFFICES ASSUME NEW n \in Nat PROVE Shaped(tr, [op EXCEPT !.op_id = n])
    BY DEF Numberable
  <1> DEFINE x == [op EXCEPT !.op_id = n]
  <1>1. op \in MadeOps /\ n \in Int
    BY DEF Good
  <1>2. x.op_id = n /\ \A f \in DOMAIN BlankOp \ {"op_id"} : x[f] = op[f]
    BY <1>1, MadeOpChanged
  <1>3. {"h", "ret", "dur", "op", "off", "tgt", "mode", "len"} \subseteq DOMAIN BlankOp \ {"op_id"}
    BY DEF BlankOp
  <1> HIDE DEF x
  <1>4. /\ x.op_id = n /\ x.h = op.h /\ x.ret = op.ret /\ x.dur = op.dur /\ x.op = op.op /\ x.off = op.off
        /\ x.tgt = op.tgt /\ x.mode = op.mode /\ x.len = op.len
    BY <1>2, <1>3
  <1>5. op.h \in Int /\ op.ret = None /\ None \notin Int
    BY <1>1, HandAssumption DEF MadeOps, Good
  <1>6. x.h # None /\ x.ret = None /\ x.dur = None /\ x.op \in Uses \cup {"OPEN"} /\ x.op_id = n
    BY <1>4, <1>5 DEF Good
  <1>7. CASE op.op = "OPEN"
    <2>1. /\ x.op = "OPEN" /\ x.tgt \in 0..(tr.targets - 1) /\ x.mode \in {"r", "w", "rw"}
          /\ x.off = None /\ x.len = None
      BY <1>4, <1>7 DEF Good
    <2>2. x.tgt # None
      BY <1>5, <2>1
    <2>3. Shaped(tr, x)
      BY <1>5, <1>6, <2>1, <2>2 DEF Shaped, Uses, Kinds
    <2> QED BY <2>3 DEF x
  <1>8. CASE op.op \in {"READ", "WRITE"}
    <2>1. /\ x.op \in {"READ", "WRITE"} /\ x.tgt = None /\ x.mode = None /\ x.off \in Nat /\ x.len \in Nat
      BY <1>4, <1>8 DEF Good
    <2>2. x.off # None /\ x.len # None
      BY <1>5, <2>1
    <2>3. Shaped(tr, x)
      BY <1>5, <1>6, <2>1, <2>2 DEF Shaped, Uses, Kinds
    <2> QED BY <2>3 DEF x
  <1>9. CASE op.op \in {"FSYNC", "CLOSE"}
    <2>1. /\ x.op \in {"FSYNC", "CLOSE"} /\ x.tgt = None /\ x.mode = None /\ x.off = None /\ x.len = None
      BY <1>4, <1>9 DEF Good
    <2>3. Shaped(tr, x)
      BY <1>5, <1>6, <2>1 DEF Shaped, Uses, Kinds
    <2> QED BY <2>3 DEF x
  <1> QED BY <1>4, <1>6, <1>7, <1>8, <1>9 DEF Uses

(* One file, from its OPEN on, to its CLOSE if it is closed. *)
OneFile(b, s, h, from, to, targets, closed) ==
  /\ b \in Seq(MadeOps) /\ Len(b) # 0
  /\ \A i \in 1..Len(b) : /\ Good(b[i], targets) /\ b[i].s = s /\ b[i].h = h /\ b[i].t \in from..to
                          /\ (b[i].op = "OPEN") = (i = 1)
                          /\ (b[i].op = "CLOSE") = (closed /\ i = Len(b))
  /\ \A i, j \in 1..Len(b) : i <= j => b[i].t <= b[j].t

(* A file from its OPEN to its CLOSE. *)
Lifecycle(b, s, h, from, to, targets) == OneFile(b, s, h, from, to, targets, TRUE)

(* What goes on with a file after its OPEN. *)
MoreOfFile(b, s, h, from, to, targets, closed) ==
  /\ b \in Seq(MadeOps) /\ (closed => Len(b) # 0)
  /\ \A i \in 1..Len(b) : /\ Good(b[i], targets) /\ b[i].s = s /\ b[i].h = h /\ b[i].t \in from..to
                          /\ b[i].op # "OPEN"
                          /\ (b[i].op = "CLOSE") = (closed /\ i = Len(b))
  /\ \A i, j \in 1..Len(b) : i <= j => b[i].t <= b[j].t

(* What goes on with a file that is not closed leaves it one file. *)
LEMMA FileGoesOn ==
  ASSUME NEW s, NEW h, NEW targets, NEW from \in Nat, NEW mid \in Nat, NEW later \in Nat, NEW till \in Nat,
         from <= mid, mid <= later, later <= till,
         NEW x, OneFile(x, s, h, from, mid, targets, FALSE),
         NEW closed \in BOOLEAN, NEW y, MoreOfFile(y, s, h, later, till, targets, closed)
  PROVE  OneFile(x \o y, s, h, from, till, targets, closed)
  <1> DEFINE all == x \o y
             L   == Len(x)
             M   == Len(y)
  <1>1. L \in Nat \ {0} /\ M \in Nat /\ all \in Seq(MadeOps) /\ Len(all) = L + M
        /\ (\A i \in 1..L : all[i] = x[i])
        /\ (\A j \in 1..M : all[L + j] = y[j])
    <2>1. x \in Seq(MadeOps) /\ y \in Seq(MadeOps) /\ L # 0
      BY DEF OneFile, MoreOfFile
    <2> QED BY <2>1, EndToEnd
  <1>2. \A i \in 1..L : /\ Good(x[i], targets) /\ x[i].s = s /\ x[i].h = h /\ x[i].t \in from..mid
                        /\ (x[i].op = "OPEN") = (i = 1) /\ x[i].op # "CLOSE"
    BY DEF OneFile
  <1>3. \A i \in 1..M : /\ Good(y[i], targets) /\ y[i].s = s /\ y[i].h = h /\ y[i].t \in later..till
                        /\ y[i].op # "OPEN"
                        /\ (y[i].op = "CLOSE") = (closed /\ i = M)
    BY DEF MoreOfFile
  <1>4. closed => M # 0
    BY DEF MoreOfFile
  <1> HIDE DEF all, L, M
  <1>5. ASSUME NEW n \in 1..Len(all)
        PROVE  \/ n \in 1..L /\ all[n] = x[n]
               \/ n \notin 1..L /\ n - L \in 1..M /\ all[n] = y[n - L]
    <2>1. CASE n \in 1..L
      BY <1>1, <2>1
    <2>2. CASE n \notin 1..L
      <3> DEFINE i == n - L
      <3>1. i \in 1..M /\ n = L + i
        BY <1>1, <2>2
      <3> HIDE DEF i
      <3>2. all[L + i] = y[i]
        BY <1>1, <3>1
      <3> QED BY <2>2, <3>1, <3>2 DEF i
    <2> QED BY <2>1, <2>2
  <1>6. ASSUME NEW n \in 1..Len(all)
        PROVE  /\ Good(all[n], targets) /\ all[n].s = s /\ all[n].h = h /\ all[n].t \in from..till
               /\ n \in 1..L => all[n].t <= mid
               /\ n \notin 1..L => mid <= all[n].t
               /\ (all[n].op = "OPEN") = (n = 1)
               /\ (all[n].op = "CLOSE") = (closed /\ n = Len(all))
    <2>1. CASE n \in 1..L
      <3>1. /\ Good(all[n], targets) /\ all[n].s = s /\ all[n].h = h /\ all[n].t \in from..mid
            /\ (all[n].op = "OPEN") = (n = 1) /\ all[n].op # "CLOSE"
        BY <1>2, <1>5, <2>1
      <3>2. closed => n # Len(all)
        BY <1>1, <1>4, <2>1
      <3> QED BY <2>1, <3>1, <3>2
    <2>2. CASE n \notin 1..L
      <3> DEFINE i == n - L
      <3>1. i \in 1..M /\ all[n] = y[i] /\ n # 1 /\ (n = Len(all)) = (i = M)
        <4>1. i \in 1..M /\ all[n] = y[i]
          BY <1>5, <2>2
        <4>2. n \in Nat /\ n # 1 /\ n = L + i /\ Len(all) = L + M
          BY <1>1, <2>2
        <4>3. (n = Len(all)) = (i = M)
          <5> HIDE DEF i
          <5> QED BY <1>1, <4>1, <4>2
        <4> QED BY <4>1, <4>2, <4>3
      <3> HIDE DEF i
      <3>2. /\ Good(all[n], targets) /\ all[n].s = s /\ all[n].h = h /\ all[n].t \in later..till
            /\ all[n].op # "OPEN" /\ (all[n].op = "CLOSE") = (closed /\ i = M)
        BY <1>3, <3>1
      <3> QED BY <2>2, <3>1, <3>2
    <2> QED BY <2>1, <2>2
  <1>7. ASSUME NEW n \in 1..Len(all), NEW m \in 1..Len(all), n <= m PROVE all[n].t <= all[m].t
    <2>1. CASE m \in 1..L
      <3>1. n \in 1..L
        BY <1>1, <1>7, <2>1
      <3> QED BY <1>5, <1>7, <2>1, <3>1 DEF OneFile, L
    <2>2. CASE n \notin 1..L
      <3>1. m \notin 1..L /\ n - L <= m - L
        BY <1>1, <1>7, <2>2
      <3>2. all[n] = y[n - L] /\ all[m] = y[m - L] /\ n - L \in 1..M /\ m - L \in 1..M
        BY <1>5, <2>2, <3>1
      <3> QED BY <3>1, <3>2 DEF MoreOfFile, M
    <2>3. CASE n \in 1..L /\ m \notin 1..L
      <3>1. all[n].t <= mid /\ mid <= all[m].t /\ all[n].t \in Int /\ all[m].t \in Int
        BY <1>6, <2>3
      <3> QED BY <3>1
    <2> QED BY <2>1, <2>2, <2>3
  <1>8. Len(all) # 0
    BY <1>1
  <1> QED BY <1>1, <1>6, <1>7, <1>8 DEF OneFile, all

(* Many, one after the other on a stream, their handles in hs. *)
Files(ops, s, hs, to, targets) ==
  /\ ops \in Seq(MadeOps)
  /\ \A i \in 1..Len(ops) : Good(ops[i], targets) /\ ops[i].s = s /\ ops[i].h \in hs /\ ops[i].t \in 0..to
  /\ \A i, j \in 1..Len(ops) : i <= j => ops[i].t <= ops[j].t
  /\ \A i, j \in 1..Len(ops) : ops[i].op = "OPEN" /\ ops[j].op = "OPEN" /\ ops[i].h = ops[j].h => i = j
  /\ \A j \in 1..Len(ops) : ops[j].op \in Uses =>
       \E i \in 1..(j - 1) :
         /\ ops[i].op = "OPEN" /\ ops[i].h = ops[j].h
         /\ \A k \in (i + 1)..(j - 1) : ~(ops[k].op = "CLOSE" /\ ops[k].h = ops[j].h)

(* A stream starts with no file. *)
LEMMA NoFiles ==
  ASSUME NEW s, NEW to, NEW targets
  PROVE  Files(<<>>, s, {}, to, targets)
  BY DEF Files

(* A file whose handle is new may follow. *)
LEMMA FileFollows ==
  ASSUME NEW targets, NEW ops, NEW s, NEW hs, NEW to \in Nat, Files(ops, s, hs, to, targets),
         NEW b, NEW h, h \notin hs, NEW from \in Nat, to <= from, NEW till \in Nat, from <= till,
         Lifecycle(b, s, h, from, till, targets)
  PROVE  Files(ops \o b, s, hs \cup {h}, till, targets)
  <1> DEFINE all == ops \o b
             L   == Len(ops)
             M   == Len(b)
  <1>1. L \in Nat /\ M \in Nat \ {0} /\ all \in Seq(MadeOps) /\ Len(all) = L + M
        /\ (\A i \in 1..L : all[i] = ops[i])
        /\ (\A j \in 1..M : all[L + j] = b[j])
    <2>1. ops \in Seq(MadeOps) /\ b \in Seq(MadeOps) /\ M # 0
      BY DEF Files, Lifecycle, OneFile
    <2> QED BY <2>1, EndToEnd
  <1>2. \A i \in 1..L : Good(ops[i], targets) /\ ops[i].s = s /\ ops[i].h \in hs /\ ops[i].t \in 0..to
    BY DEF Files
  <1>3. \A i \in 1..M : /\ Good(b[i], targets) /\ b[i].s = s /\ b[i].h = h /\ b[i].t \in from..till
                        /\ (b[i].op = "OPEN") = (i = 1)
                        /\ (b[i].op = "CLOSE") = (i = M)
    BY DEF Lifecycle, OneFile
  <1> HIDE DEF all, L, M
  <1>4. ASSUME NEW n \in 1..Len(all)
        PROVE  \/ n \in 1..L /\ all[n] = ops[n]
               \/ n \notin 1..L /\ n - L \in 1..M /\ all[n] = b[n - L]
    <2>1. CASE n \in 1..L
      BY <1>1, <2>1
    <2>2. CASE n \notin 1..L
      <3> DEFINE i == n - L
      <3>1. i \in 1..M /\ n = L + i
        BY <1>1, <2>2
      <3> HIDE DEF i
      <3>2. all[L + i] = b[i]
        BY <1>1, <3>1
      <3> QED BY <2>2, <3>1, <3>2 DEF i
    <2> QED BY <2>1, <2>2
  <1>5. ASSUME NEW n \in 1..Len(all)
        PROVE  /\ Good(all[n], targets) /\ all[n].s = s /\ all[n].h \in hs \cup {h} /\ all[n].t \in 0..till
               /\ n \in 1..L => all[n].h \in hs /\ all[n].t <= from
               /\ n \notin 1..L => all[n].h = h /\ from <= all[n].t
    <2>1. CASE n \in 1..L
      <3>1. Good(all[n], targets) /\ all[n].s = s /\ all[n].h \in hs /\ all[n].t \in 0..to
        BY <1>2, <1>4, <2>1
      <3> QED BY <2>1, <3>1
    <2>2. CASE n \notin 1..L
      <3>1. Good(all[n], targets) /\ all[n].s = s /\ all[n].h = h /\ all[n].t \in from..till
        BY <1>3, <1>4, <2>2
      <3> QED BY <2>2, <3>1
    <2> QED BY <2>1, <2>2
  <1>6. ASSUME NEW n \in 1..Len(all), NEW m \in 1..Len(all), n <= m PROVE all[n].t <= all[m].t
    <2>1. CASE m \in 1..L
      <3>1. n \in 1..L
        BY <1>1, <1>6, <2>1
      <3> QED BY <1>4, <1>6, <2>1, <3>1 DEF Files, L
    <2>2. CASE n \notin 1..L
      <3>1. m \notin 1..L /\ n - L <= m - L
        BY <1>1, <1>6, <2>2
      <3>2. all[n] = b[n - L] /\ all[m] = b[m - L] /\ n - L \in 1..M /\ m - L \in 1..M
        BY <1>4, <2>2, <3>1
      <3> QED BY <3>1, <3>2 DEF Lifecycle, OneFile, M
    <2>3. CASE n \in 1..L /\ m \notin 1..L
      <3>1. all[n].t <= from /\ from <= all[m].t /\ all[n].t \in Int /\ all[m].t \in Int
        BY <1>5, <2>3
      <3> QED BY <3>1
    <2> QED BY <2>1, <2>2, <2>3
  <1>7. ASSUME NEW n \in 1..Len(all), NEW m \in 1..Len(all),
               all[n].op = "OPEN", all[m].op = "OPEN", all[n].h = all[m].h
        PROVE  n = m
    <2>1. n \in 1..L <=> m \in 1..L
      BY <1>5, <1>7
    <2>2. CASE n \in 1..L
      BY <1>4, <1>7, <2>1, <2>2 DEF Files, L
    <2>3. CASE n \notin 1..L
      <3>1. n - L = 1 /\ m - L = 1
        BY <1>3, <1>4, <1>7, <2>1, <2>3
      <3> QED BY <1>1, <3>1
    <2> QED BY <2>2, <2>3
  <1>8. ASSUME NEW m \in 1..Len(all), all[m].op \in Uses
        PROVE  \E n \in 1..(m - 1) :
                 /\ all[n].op = "OPEN" /\ all[n].h = all[m].h
                 /\ \A k \in (n + 1)..(m - 1) : ~(all[k].op = "CLOSE" /\ all[k].h = all[m].h)
    <2>1. CASE m \in 1..L
      <3>1. all[m] = ops[m] /\ \A k \in 1..(m - 1) : all[k] = ops[k]
        BY <1>1, <2>1
      <3>2. PICK n \in 1..(m - 1) :
              /\ ops[n].op = "OPEN" /\ ops[n].h = ops[m].h
              /\ \A k \in (n + 1)..(m - 1) : ~(ops[k].op = "CLOSE" /\ ops[k].h = ops[m].h)
        BY <1>8, <2>1, <3>1 DEF Files, L
      <3>3. \A k \in (n + 1)..(m - 1) : k \in 1..(m - 1)
        BY <2>1, <3>2
      <3> QED BY <3>1, <3>2, <3>3
    <2>2. CASE m \notin 1..L
      <3>1. m - L \in 1..M /\ all[m] = b[m - L]
        BY <1>4, <2>2
      <3>2. m - L # 1
        BY <1>3, <1>8, <3>1 DEF Uses
      <3> DEFINE n == L + 1
      <3>3. n \in 1..(m - 1) /\ n \in 1..Len(all) /\ 1 \in 1..M
        BY <1>1, <3>1, <3>2
      <3>4. all[n] = b[1]
        <4>1. \A j \in 1..M : all[L + j] = b[j]
          BY <1>1
        <4> QED BY <3>3, <4>1
      <3>5. b[1].op = "OPEN" /\ b[1].h = h /\ b[m - L].h = h
        BY <1>3, <3>1, <3>3
      <3>6. ASSUME NEW k \in (n + 1)..(m - 1) PROVE all[k].op # "CLOSE"
        <4>1. k \in 1..Len(all) /\ k \notin 1..L /\ k - L # M
          BY <1>1, <3>1, <3>3
        <4> QED BY <1>3, <1>4, <4>1
      <3> QED BY <3>1, <3>3, <3>4, <3>5, <3>6
    <2> QED BY <2>1, <2>2
  <1> QED BY <1>1, <1>5, <1>6, <1>7, <1>8 DEF Files, all

(* What is generated is accepted, whenever no two streams share a handle. *)
LEMMA GeneratedAccepted ==
  ASSUME NEW perStream, IsFiniteSet(DOMAIN perStream), DOMAIN perStream \subseteq Int, NEW targets,
         NEW hs, NEW to, \A s \in DOMAIN perStream : Files(perStream[s], s, hs[s], to[s], targets) /\ to[s] \in Nat,
         \A s, r \in DOMAIN perStream : s # r => hs[s] \cap hs[r] = {},
         \E s \in DOMAIN perStream : perStream[s] # <<>>,
         NEW tr, tr = GeneratedFile(perStream, targets)
  PROVE  /\ Errors(tr) = {} /\ tr.ops \in Seq(MadeOps) /\ tr.version \in Int
         /\ \E duration \in Nat : tr.summary = Summary(tr.ops, duration)
  <1> DEFINE D   == DOMAIN perStream
             ops == InOrder(perStream)
             L(s) == Len(perStream[s])
  <1>1. ASSUME NEW s \in D
        PROVE  /\ perStream[s] \in Seq(MadeOps)
               /\ \A i \in 1..L(s) : /\ Good(perStream[s][i], targets) /\ perStream[s][i].s = s
                                     /\ perStream[s][i].h \in hs[s] /\ perStream[s][i].t \in Nat
               /\ \A i, j \in 1..L(s) : i <= j => perStream[s][i].t <= perStream[s][j].t
    <2>1. Files(perStream[s], s, hs[s], to[s], targets) /\ to[s] \in Nat
      OBVIOUS
    <2>2. \A t \in 0..to[s] : t \in Nat
      BY <2>1
    <2> QED BY <2>1, <2>2 DEF Files
  <1>2. Streams(perStream, MadeOps)
    <2>1. \A o \in MadeOps : DOMAIN o = DOMAIN BlankOp /\ o.t \in Int
      BY MadeOpsTyped DEF Typed
    <2> QED BY <1>1, <2>1 DEF Streams
  <1>3. KeepHandles(perStream)
    <2>1. ASSUME NEW s \in D, NEW r \in D, NEW i \in 1..L(s), NEW j \in 1..L(r),
                 perStream[s][i].op = "OPEN", perStream[r][j].op = "OPEN", perStream[s][i].h = perStream[r][j].h
          PROVE  s = r /\ i = j
      <3>1. perStream[s][i].h \in hs[s] /\ perStream[r][j].h \in hs[r]
        BY <1>1
      <3>2. s = r
        BY <2>1, <3>1
      <3> QED BY <2>1, <3>2 DEF Files
    <2>2. ASSUME NEW s \in D, NEW j \in 1..L(s), perStream[s][j].op \in Uses
          PROVE  \E i \in 1..(j - 1) :
                   /\ perStream[s][i].op = "OPEN" /\ perStream[s][i].h = perStream[s][j].h
                   /\ \A k \in (i + 1)..(j - 1) :
                        ~(perStream[s][k].op = "CLOSE" /\ perStream[s][k].h = perStream[s][j].h)
      <3>1. Files(perStream[s], s, hs[s], to[s], targets)
        OBVIOUS
      <3> QED BY <2>2, <3>1 DEF Files
    <2> HIDE DEF ops
    <2>3. \A s, r \in D : \A i \in 1..L(s), j \in 1..L(r) :
            perStream[s][i].op = "OPEN" /\ perStream[r][j].op = "OPEN" /\ perStream[s][i].h = perStream[r][j].h
              => s = r /\ i = j
      BY <2>1
    <2>4. \A s \in D : \A j \in 1..L(s) : perStream[s][j].op \in Uses =>
            \E i \in 1..(j - 1) :
              /\ perStream[s][i].op = "OPEN" /\ perStream[s][i].h = perStream[s][j].h
              /\ \A k \in (i + 1)..(j - 1) :
                   ~(perStream[s][k].op = "CLOSE" /\ perStream[s][k].h = perStream[s][j].h)
      BY <2>2
    <2> QED BY <2>3, <2>4 DEF KeepHandles
  <1>4. /\ tr.ops = ops /\ tr.version = 1 /\ tr.targets = targets
        /\ tr.summary = Summary(ops, Last(ops).t)
    BY DEF GeneratedFile
  <1>5. \A s \in D : \A i \in 1..L(s) : Numberable(tr, perStream[s][i])
    BY <1>1, <1>4, GoodIsNumberable
  <1>6. ops \in Seq(MadeOps) /\ \E at : Kept(at, ops, perStream)
    BY <1>2, MergeKeepsAll
  <1> HIDE DEF ops
  <1>7. PICK at : Kept(at, ops, perStream)
    BY <1>6
  <1>8. Last(ops).t \in Nat
    <2> DEFINE n == Len(ops)
    <2>1. PICK s \in D : perStream[s] # <<>>
      OBVIOUS
    <2>2. 1 \in 1..L(s)
      <3>1. L(s) \in Nat /\ L(s) # 0
        BY <1>1, <2>1
      <3> QED BY <3>1
    <2>3. at[s][1] \in 1..n
      BY <1>7, <2>2 DEF Kept
    <2>4. n \in 1..n
      <3>1. n \in Nat
        BY <1>6
      <3> QED BY <2>3, <3>1
    <2> HIDE DEF n
    <2>5. PICK r \in D : \E i \in 1..L(r) : \A f \in DOMAIN BlankOp \ {"op_id"} : ops[n][f] = perStream[r][i][f]
      <3>1. n \in 1..Len(ops)
        BY <2>4 DEF n
      <3>2. PICK r \in D : \E i \in 1..L(r) : /\ ops[n].s = r /\ at[r][i] = n
                              /\ \A f \in DOMAIN BlankOp \ {"op_id"} : ops[n][f] = perStream[r][i][f]
        BY <1>7, <3>1 DEF Kept
      <3> QED BY <3>2
    <2>6. PICK i \in 1..L(r) : \A f \in DOMAIN BlankOp \ {"op_id"} : ops[n][f] = perStream[r][i][f]
      BY <2>5
    <2>7. "t" \in DOMAIN BlankOp \ {"op_id"}
      BY DEF BlankOp
    <2>8. ops[n].t \in Nat
      BY <1>1, <2>6, <2>7
    <2> QED BY <2>8 DEF Last, n
  <1>9. Errors(tr) = {}
    <2> DEFINE duration == Last(ops).t
    <2>1. duration \in Nat /\ tr.summary = Summary(tr.ops, duration) /\ tr.version \in 1..3
      BY <1>4, <1>8
    <2>2. tr.ops = InOrder(perStream)
      BY <1>4 DEF ops
    <2> HIDE DEF duration
    <2> QED BY <1>2, <1>3, <1>5, <2>1, <2>2, MergeIsLegal
  <1> QED BY <1>4, <1>6, <1>8, <1>9

-----------------------------------------------------------------------------
(* The generators' operations are good. *)
LEMMA GoodOpen ==
  ASSUME NEW targets \in Int, NEW s \in Int, NEW t \in Int, NEW h \in Int, NEW tgt \in 0..(targets - 1),
         NEW mode \in {"r", "w", "rw"}, NEW o, o = Opens(s, t, h, tgt, mode)
  PROVE  Good(o, targets) /\ o.s = s /\ o.h = h /\ o.t = t /\ o.op = "OPEN"
  <1>1. o = [t |-> t, op_id |-> None, s |-> s, op |-> "OPEN", tgt |-> tgt, h |-> h, mode |-> mode,
             off |-> None, len |-> None, ret |-> None, dur |-> None]
    BY OperationsMade
  <1>2. o \in MadeOps
    BY <1>1 DEF MadeOps, Kinds
  <1> QED BY <1>1, <1>2 DEF Good, Uses

(* Reads and writes are good. *)
LEMMA GoodMove ==
  ASSUME NEW targets \in Int, NEW s \in Int, NEW t \in Int, NEW h \in Int, NEW off \in Nat, NEW len \in Nat,
         NEW kind, kind = "READ" \/ kind = "WRITE", NEW o, o = Moves(kind, s, t, h, off, len)
  PROVE  Good(o, targets) /\ o.s = s /\ o.h = h /\ o.t = t /\ o.op = kind
  <1>1. o = [t |-> t, op_id |-> None, s |-> s, op |-> kind, tgt |-> None, h |-> h, mode |-> None,
             off |-> off, len |-> len, ret |-> None, dur |-> None]
    BY OperationsMade
  <1>2. o \in MadeOps
    BY <1>1 DEF MadeOps, Kinds, Uses
  <1> QED BY <1>1, <1>2 DEF Good, Uses

(* The same of every place, size and time. *)
Fits(o, kind, s, t, h, targets) == Good(o, targets) /\ o.s = s /\ o.h = h /\ o.t = t /\ o.op = kind

(* A read or a write is one, wherever it is and whenever it is due. *)
LEMMA GoodMoves ==
  ASSUME NEW targets \in Int, NEW s \in Int, NEW h \in Int, NEW kind, kind = "READ" \/ kind = "WRITE"
  PROVE  \A t \in Int : \A off, len \in Nat : Fits(Moves(kind, s, t, h, off, len), kind, s, t, h, targets)
  <1> SUFFICES ASSUME NEW t \in Int, NEW off \in Nat, NEW len \in Nat
               PROVE  Fits(Moves(kind, s, t, h, off, len), kind, s, t, h, targets)
    OBVIOUS
  <1> DEFINE o == Moves(kind, s, t, h, off, len)
  <1>1. Good(o, targets) /\ o.s = s /\ o.h = h /\ o.t = t /\ o.op = kind
    <2>1. o = Moves(kind, s, t, h, off, len)
      OBVIOUS
    <2> HIDE DEF o
    <2> QED BY <2>1, GoodMove
  <1> HIDE DEF o
  <1>2. Fits(o, kind, s, t, h, targets)
    BY <1>1 DEF Fits
  <1> QED BY <1>2 DEF o

(* FSYNC and CLOSE are good. *)
LEMMA GoodOther ==
  ASSUME NEW targets \in Int, NEW s \in Int, NEW t \in Int, NEW h \in Int, NEW kind \in {"FSYNC", "CLOSE"},
         NEW o, o = OpOn(kind, s, t, h)
  PROVE  Good(o, targets) /\ o.s = s /\ o.h = h /\ o.t = t /\ o.op = kind /\ kind # "OPEN"
  <1>1. o = [t |-> t, op_id |-> None, s |-> s, op |-> kind, tgt |-> None, h |-> h, mode |-> None,
             off |-> None, len |-> None, ret |-> None, dur |-> None]
    BY OperationsMade
  <1>2. o \in MadeOps
    BY <1>1 DEF MadeOps, Kinds, Uses
  <1> QED BY <1>1, <1>2 DEF Good, Uses

(* An OPEN is one, of whatever target. *)
LEMMA GoodOpens ==
  ASSUME NEW targets \in Int, NEW s \in Int
  PROVE  \A t, h \in Int : \A tgt \in 0..(targets - 1) : \A mode \in {"r", "w", "rw"} :
           Fits(Opens(s, t, h, tgt, mode), "OPEN", s, t, h, targets)
  <1> SUFFICES ASSUME NEW t \in Int, NEW h \in Int, NEW tgt \in 0..(targets - 1), NEW mode \in {"r", "w", "rw"}
               PROVE  Fits(Opens(s, t, h, tgt, mode), "OPEN", s, t, h, targets)
    OBVIOUS
  <1> DEFINE o == Opens(s, t, h, tgt, mode)
  <1>1. Good(o, targets) /\ o.s = s /\ o.h = h /\ o.t = t /\ o.op = "OPEN"
    <2>1. o = [t |-> t, op_id |-> None, s |-> s, op |-> "OPEN", tgt |-> tgt, h |-> h, mode |-> mode,
               off |-> None, len |-> None, ret |-> None, dur |-> None]
      BY OperationsMade
    <2> HIDE DEF o
    <2>2. o \in MadeOps
      BY <2>1 DEF MadeOps, Kinds
    <2> QED BY <2>1, <2>2 DEF Good, Uses
  <1> HIDE DEF o
  <1>2. Fits(o, "OPEN", s, t, h, targets)
    BY <1>1 DEF Fits
  <1> QED BY <1>2 DEF o

(* FSYNC and CLOSE are ones, of whatever handle. *)
LEMMA GoodOthers ==
  ASSUME NEW targets \in Int, NEW s \in Int
  PROVE  \A t, h \in Int : \A kind \in {"FSYNC", "CLOSE"} : Fits(OpOn(kind, s, t, h), kind, s, t, h, targets)
  <1> SUFFICES ASSUME NEW t \in Int, NEW h \in Int, NEW kind \in {"FSYNC", "CLOSE"}
               PROVE  Fits(OpOn(kind, s, t, h), kind, s, t, h, targets)
    OBVIOUS
  <1> DEFINE o == OpOn(kind, s, t, h)
  <1>1. Good(o, targets) /\ o.s = s /\ o.h = h /\ o.t = t /\ o.op = kind
    <2>1. o = OpOn(kind, s, t, h)
      OBVIOUS
    <2> HIDE DEF o
    <2> QED BY <2>1, GoodOther
  <1> HIDE DEF o
  <1>2. Fits(o, kind, s, t, h, targets)
    BY <1>1 DEF Fits
  <1> QED BY <1>2 DEF o

(* A file is opened, and one operation may be all that goes on. *)
LEMMA FileOpened ==
  ASSUME NEW targets, NEW s, NEW h, NEW t \in Nat, NEW o, Good(o, targets),
         o.s = s, o.h = h, o.t = t, o.op = "OPEN"
  PROVE  OneFile(<<o>>, s, h, t, t, targets, FALSE)
  <1>1. o \in MadeOps
    BY DEF Good
  <1>2. <<o>> \in Seq(MadeOps) /\ Len(<<o>>) = 1 /\ <<o>>[1] = o
    BY <1>1
  <1>3. o.t \in t..t /\ o.t <= o.t
    OBVIOUS
  <1> QED BY <1>2, <1>3 DEF OneFile

(* One operation that goes on with a file, and closes it if it is a CLOSE. *)
LEMMA OneMore ==
  ASSUME NEW targets, NEW s, NEW h, NEW t \in Nat, NEW o, Good(o, targets),
         o.s = s, o.h = h, o.t = t, o.op # "OPEN"
  PROVE  /\ o.op = "CLOSE" => MoreOfFile(<<o>>, s, h, t, t, targets, TRUE)
         /\ o.op # "CLOSE" => MoreOfFile(<<o>>, s, h, t, t, targets, FALSE)
  <1>1. o \in MadeOps
    BY DEF Good
  <1>2. <<o>> \in Seq(MadeOps) /\ Len(<<o>>) = 1 /\ <<o>>[1] = o
    BY <1>1
  <1>3. o.t \in t..t /\ o.t <= o.t
    OBVIOUS
  <1>4. \A i \in 1..Len(<<o>>) : i = 1 /\ i = Len(<<o>>) /\ <<o>>[i] = o
    BY <1>2
  <1> DEFINE b == <<o>>
  <1> HIDE DEF b
  <1>5. b \in Seq(MadeOps) /\ Len(b) = 1 /\ \A i \in 1..Len(b) : i = 1 /\ i = Len(b) /\ b[i] = o
    BY <1>2, <1>4 DEF b
  <1>6. o.op = "CLOSE" => MoreOfFile(b, s, h, t, t, targets, TRUE)
    BY <1>3, <1>5 DEF MoreOfFile
  <1>7. o.op # "CLOSE" => MoreOfFile(b, s, h, t, t, targets, FALSE)
    BY <1>3, <1>5 DEF MoreOfFile
  <1> QED BY <1>6, <1>7 DEF b

(* Reads or writes go on with a file, in the order of their times. *)
LEMMA MovesGoOn ==
  ASSUME NEW targets \in Int, NEW s \in Int, NEW h \in Int, NEW n \in Nat, NEW from \in Nat, NEW till \in Nat,
         NEW kind, kind = "READ" \/ kind = "WRITE", NEW due, NEW start, NEW size,
         \A k \in 1..n : due[k] \in from..till /\ start[k] \in Nat /\ size[k] \in Nat,
         \A i, j \in 1..n : i <= j => due[i] <= due[j],
         NEW b, b = [k \in 1..n |-> Moves(kind, s, due[k], h, start[k], size[k])]
  PROVE  MoreOfFile(b, s, h, from, till, targets, FALSE)
  <1>1. ASSUME NEW k \in 1..n
        PROVE  /\ Good(b[k], targets) /\ b[k].s = s /\ b[k].h = h /\ b[k].t = due[k]
               /\ b[k].op # "OPEN" /\ b[k].op # "CLOSE"
    <2> DEFINE o == b[k]
    <2>1. o = Moves(kind, s, due[k], h, start[k], size[k])
      OBVIOUS
    <2>2. due[k] \in Int /\ start[k] \in Nat /\ size[k] \in Nat
      OBVIOUS
    <2> HIDE DEF o
    <2>3. Good(o, targets) /\ o.s = s /\ o.h = h /\ o.t = due[k] /\ o.op = kind
      <3>1. Fits(Moves(kind, s, due[k], h, start[k], size[k]), kind, s, due[k], h, targets)
        BY <2>2, GoodMoves, Zenon
      <3> QED BY <2>1, <3>1, Zenon DEF Fits
    <2>4. kind # "OPEN" /\ kind # "CLOSE"
      OBVIOUS
    <2> QED BY <2>3, <2>4 DEF o
  <1>2. b \in Seq(MadeOps) /\ Len(b) = n
    <2>1. \A k \in 1..n : b[k] \in MadeOps
      BY <1>1 DEF Good
    <2>2. b \in [1..n -> MadeOps]
      BY <2>1
    <2> QED BY <2>2
  <1>3. \A k \in 1..n : b[k].t \in from..till
    BY <1>1
  <1>4. \A i, j \in 1..n : i <= j => b[i].t <= b[j].t
    BY <1>1
  <1> QED BY <1>1, <1>2, <1>3, <1>4 DEF MoreOfFile

(* Nothing may go on with it too. *)
LEMMA NoMore ==
  ASSUME NEW targets, NEW s, NEW h, NEW t
  PROVE  MoreOfFile(<<>>, s, h, t, t, targets, FALSE)
  BY DEF MoreOfFile

-----------------------------------------------------------------------------
(* Two files of a checkpoint run have two numbers, both of them targets.      *)
LEMMA ShardsApart ==
  ASSUME NEW ranks \in Nat \ {0}, NEW c \in Nat, NEW r \in 0..(ranks - 1)
  PROVE  /\ c * ranks + r \in Nat
         /\ \A d \in Nat : \A q \in 0..(ranks - 1) : c < d => c * ranks + r < d * ranks + q
         /\ \A n \in Nat : c < n => c * ranks + r < n * ranks
  <1>1. c * ranks \in Nat
    OBVIOUS
  <1>2. ASSUME NEW d \in Nat, c < d PROVE c * ranks + ranks <= d * ranks /\ d * ranks \in Nat
    <2> DEFINE e == d - c - 1
    <2>1. e \in Nat /\ d = c + 1 + e
      BY <1>2
    <2> HIDE DEF e
    <2>2. e * ranks \in Nat
      BY <2>1
    <2>3. (c + 1 + e) * ranks = c * ranks + ranks + e * ranks
      BY <2>1
    <2> QED BY <1>1, <2>1, <2>2, <2>3
  <1> QED BY <1>1, <1>2

(* What is known of a checkpoint's parameters. *)
LEMMA CheckpointTyped ==
  ASSUME NEW p \in CkptParams
  PROVE  /\ p.model \in Nat \ {0} /\ p.ranks \in Nat \ {0} /\ p.ranks <= p.model
         /\ p.block \in Nat \ {0} /\ p.count \in Nat \ {0} /\ p.interval \in Nat
         /\ \A r \in 0..(p.ranks - 1) : ShardSize(p, r) \in Nat \ {0}
         /\ \A c \in Nat : c * p.interval \in Nat /\ \A d \in Nat : c <= d => c * p.interval <= d * p.interval
  <1>1. /\ p.model \in Int /\ p.ranks \in Int /\ p.block \in Int /\ p.count \in Int /\ p.interval \in Int
        /\ CheckpointValid(p)
    BY ToolsAssumption
  <1>2. /\ p.model \in Nat \ {0} /\ p.ranks \in Nat \ {0} /\ p.ranks <= p.model
        /\ p.block \in Nat \ {0} /\ p.count \in Nat \ {0} /\ p.interval \in Nat
    BY <1>1 DEF CheckpointValid
  <1> DEFINE m == p.model
             n == p.ranks
  <1>3. m \in Nat \ {0} /\ n \in Nat \ {0} /\ n <= m
    BY <1>2
  <1> HIDE DEF m, n
  <1>4. m \div n \in Nat /\ m < (m \div n) * n + n
    BY <1>3, Quotient
  <1>5. m \div n # 0
    <2>1. ASSUME m \div n = 0 PROVE FALSE
      <3>1. (m \div n) * n = 0
        BY <1>3, <2>1
      <3> QED BY <1>3, <1>4, <3>1
    <2> QED BY <2>1
  <1>6. (m % n) \in 0..(n - 1)
    BY <1>3, DaysAndTime
  <1>7. \A r \in 0..(n - 1) : ShardSize(p, r) \in Nat \ {0}
    BY <1>3, <1>4, <1>5, <1>6 DEF ShardSize, m, n
  <1>8. ASSUME NEW c \in Nat, NEW d \in Nat, c <= d
        PROVE  c * p.interval <= d * p.interval
    <2> DEFINE i == p.interval
               e == d - c
    <2>1. i \in Nat /\ e \in Nat /\ d = c + e
      BY <1>2, <1>8
    <2> HIDE DEF i, e
    <2>2. (c + e) * i = c * i + e * i /\ c * i \in Nat /\ e * i \in Nat
      BY <2>1
    <2>3. c * i <= d * i
      BY <2>1, <2>2
    <2> QED BY <2>3 DEF i
  <1>9. \A c \in Nat : c * p.interval \in Nat
    <2> DEFINE i == p.interval
    <2>1. i \in Nat
      BY <1>2
    <2> HIDE DEF i
    <2>2. \A c \in Nat : c * i \in Nat
      BY <2>1
    <2> QED BY <2>2 DEF i
  <1> QED BY <1>2, <1>7, <1>8, <1>9 DEF n

(* A rank's part of a checkpoint is one file. *)
LEMMA BurstIsLifecycle ==
  ASSUME NEW p \in CkptParams, NEW r \in 0..(p.ranks - 1), NEW c \in 0..(p.count - 1)
  PROVE  Lifecycle(Burst(p, c, r), r, Shard(p, c, r) + 1, c * p.interval, c * p.interval, p.count * p.ranks)
  <1> DEFINE t == c * p.interval
             tgt == Shard(p, c, r)
             h == tgt + 1
             targets == p.count * p.ranks
             size == ShardSize(p, r)
             n == NumPieces(size, p.block)
             moves == [k \in 1..n |-> Moves("WRITE", r, t, h, PieceStart(p.block, k - 1), PieceSize(size, p.block, k - 1))]
             syncs == IF SyncsAt(p, c) THEN <<OpOn("FSYNC", r, t, h)>> ELSE <<>>
             open  == Opens(r, t, h, tgt, "w")
             close == OpOn("CLOSE", r, t, h)
  <1>1. /\ p.ranks \in Nat \ {0} /\ p.block \in Nat \ {0} /\ p.count \in Nat \ {0} /\ size \in Nat \ {0}
        /\ c \in Nat /\ r \in Nat /\ c < p.count
    <2>1. p.count \in Nat /\ p.ranks \in Nat
      BY CheckpointTyped
    <2> QED BY <2>1, CheckpointTyped
  <1>2. t \in Nat
    BY <1>1, CheckpointTyped
  <1>3. targets \in Nat
    BY <1>1
  <1>4. tgt \in Nat /\ tgt < targets
    <2> DEFINE ranks == p.ranks
               count == p.count
    <2>1. ranks \in Nat \ {0} /\ r \in 0..(ranks - 1) /\ count \in Nat /\ c < count
      BY <1>1
    <2> HIDE DEF ranks, count
    <2>2. c * ranks + r \in Nat /\ c * ranks + r < count * ranks
      BY <1>1, <2>1, ShardsApart
    <2> QED BY <2>2 DEF ranks, count, Shard
  <1>5. Burst(p, c, r) = ((<<open>> \o moves) \o syncs) \o <<close>>
    BY DEF Burst
  <1>6. n \in Nat /\ \A k \in 1..n : PieceStart(p.block, k - 1) \in Nat /\ PieceSize(size, p.block, k - 1) \in Nat
    <2> DEFINE b == p.block
    <2>0. b \in Nat \ {0} /\ size \in Nat \ {0} /\ n = NumPieces(size, b)
      BY <1>1
    <2> HIDE DEF b, size, n
    <2>1. n \in Nat \ {0} /\ \A j \in 0..(n - 1) : PieceSize(size, b, j) \in 1..b
      BY <2>0, PiecesTile
    <2>2. ASSUME NEW k \in 1..n PROVE PieceStart(b, k - 1) \in Nat /\ PieceSize(size, b, k - 1) \in Nat
      <3> DEFINE j == k - 1
      <3>1. j \in 0..(n - 1) /\ j \in Nat
        BY <2>1
      <3> HIDE DEF j
      <3>2. j * b \in Nat /\ PieceSize(size, b, j) \in 1..b
        BY <2>0, <2>1, <3>1
      <3>3. PieceStart(b, j) \in Nat /\ PieceSize(size, b, j) \in Nat
        BY <2>0, <3>2 DEF PieceStart
      <3> QED BY <3>3 DEF j
    <2> QED BY <2>1, <2>2 DEF b
  <1>7. h \in Int /\ tgt \in 0..(targets - 1)
    BY <1>3, <1>4
  <1> HIDE DEF t, tgt, targets, size, n
  <1>8. OneFile(<<open>>, r, h, t, t, targets, FALSE)
    <2>1. Good(open, targets) /\ open.s = r /\ open.h = h /\ open.t = t /\ open.op = "OPEN"
      <3>1. r \in Int /\ t \in Int /\ targets \in Int /\ "w" \in {"r", "w", "rw"}
        BY <1>1, <1>2, <1>3
      <3> HIDE DEF open, h
      <3> QED BY <1>7, <3>1, GoodOpen DEF open
    <2> HIDE DEF open
    <2> QED BY <1>2, <2>1, FileOpened
  <1>9. MoreOfFile(moves, r, h, t, t, targets, FALSE)
    <2> DEFINE due   == [k \in 1..n |-> t]
               start == [k \in 1..n |-> PieceStart(p.block, k - 1)]
               len   == [k \in 1..n |-> PieceSize(size, p.block, k - 1)]
    <2>1. moves = [k \in 1..n |-> Moves("WRITE", r, due[k], h, start[k], len[k])]
      OBVIOUS
    <2>2. \A k \in 1..n : due[k] \in t..t /\ start[k] \in Nat /\ len[k] \in Nat
      BY <1>2, <1>6
    <2>3. \A i, j \in 1..n : i <= j => due[i] <= due[j]
      BY <1>2
    <2>4. r \in Int /\ targets \in Int
      BY <1>1, <1>3
    <2> HIDE DEF moves, due, start, len, h
    <2> QED BY <1>2, <1>6, <1>7, <2>1, <2>2, <2>3, <2>4, MovesGoOn
  <1>10. MoreOfFile(syncs, r, h, t, t, targets, FALSE)
    <2>1. CASE SyncsAt(p, c)
      <3> DEFINE o == OpOn("FSYNC", r, t, h)
      <3>1. Good(o, targets) /\ o.s = r /\ o.h = h /\ o.t = t /\ o.op = "FSYNC"
        <4>1. r \in Int /\ t \in Int /\ targets \in Int /\ "FSYNC" \in {"FSYNC", "CLOSE"}
          BY <1>1, <1>2, <1>3
        <4> HIDE DEF o, h
        <4> QED BY <1>7, <4>1, GoodOther DEF o
      <3>2. syncs = <<o>>
        BY <2>1
      <3> HIDE DEF o, syncs
      <3> QED BY <1>2, <3>1, <3>2, OneMore
    <2>2. CASE ~SyncsAt(p, c)
      <3>1. syncs = <<>>
        BY <2>2
      <3> QED BY <3>1, NoMore
    <2> QED BY <2>1, <2>2
  <1>11. MoreOfFile(<<close>>, r, h, t, t, targets, TRUE)
    <2>1. Good(close, targets) /\ close.s = r /\ close.h = h /\ close.t = t /\ close.op = "CLOSE"
      <3>1. r \in Int /\ t \in Int /\ targets \in Int /\ "CLOSE" \in {"FSYNC", "CLOSE"}
        BY <1>1, <1>2, <1>3
      <3> HIDE DEF close, h
      <3> QED BY <1>7, <3>1, GoodOther DEF close
    <2> HIDE DEF close
    <2> QED BY <1>2, <2>1, OneMore
  <1> HIDE DEF open, moves, syncs, close, h
  <1>12. t <= t /\ t \in Nat
    BY <1>2
  <1>13. OneFile(<<open>> \o moves, r, h, t, t, targets, FALSE)
    BY <1>8, <1>9, <1>12, FileGoesOn
  <1>14. OneFile((<<open>> \o moves) \o syncs, r, h, t, t, targets, FALSE)
    BY <1>10, <1>12, <1>13, FileGoesOn
  <1>15. OneFile(((<<open>> \o moves) \o syncs) \o <<close>>, r, h, t, t, targets, TRUE)
    BY <1>11, <1>12, <1>14, FileGoesOn
  <1> QED BY <1>5, <1>15 DEF Lifecycle, t, h, tgt, targets

-----------------------------------------------------------------------------
(* A rank's files, checkpoint after checkpoint. *)
Bursts(p, r) == [c \in 1..p.count |-> Burst(p, c - 1, r)]

(* The handles of a rank's first n files. *)
RanksHandles(p, r, n) == {Shard(p, c, r) + 1 : c \in 0..(n - 1)}

(* When the last of a rank's first n bursts is due. *)
BurstTime(p, n) == IF n = 0 THEN 0 ELSE (n - 1) * p.interval

(* A rank of a checkpoint run writes file after file, each with a handle of   *)
(* its own.                                                                   *)
LEMMA RankIsFiles ==
  ASSUME NEW p \in CkptParams, NEW r \in 0..(p.ranks - 1)
  PROVE  /\ Files(FlattenSeq(Bursts(p, r)), r, RanksHandles(p, r, p.count), BurstTime(p, p.count), p.count * p.ranks)
         /\ BurstTime(p, p.count) \in Nat
         /\ FlattenSeq(Bursts(p, r)) # <<>>
  <1> DEFINE parts   == Bursts(p, r)
             N       == p.count
             targets == p.count * p.ranks
             T(n)    == BurstTime(p, n)
             H(n)    == RanksHandles(p, r, n)
  <1>1. N \in Nat \ {0} /\ p.ranks \in Nat \ {0} /\ r \in Nat
    <2>1. p.ranks \in Nat \ {0} /\ N \in Nat \ {0}
      BY CheckpointTyped
    <2> QED BY <2>1
  <1>2. \A n \in Nat : T(n) \in Nat /\ T(n) <= T(n + 1)
    <2> DEFINE i == p.interval
    <2>1. i \in Nat /\ \A c \in Nat : c * i \in Nat /\ \A d \in Nat : c <= d => c * i <= d * i
      BY CheckpointTyped
    <2>2. ASSUME NEW n \in Nat PROVE T(n) \in Nat /\ T(n) <= T(n + 1)
      <3>1. T(n + 1) = n * i /\ n * i \in Nat
        <4>1. n + 1 # 0 /\ (n + 1) - 1 = n
          OBVIOUS
        <4> QED BY <2>1, <4>1 DEF BurstTime
      <3>2. CASE n = 0
        BY <3>1, <3>2 DEF BurstTime
      <3>3. CASE n # 0
        <4> DEFINE c == n - 1
        <4>1. c \in Nat /\ c <= n /\ T(n) = c * i
          BY <3>3 DEF BurstTime
        <4> HIDE DEF c, i
        <4>2. c * i \in Nat /\ c * i <= n * i
          BY <2>1, <4>1
        <4> QED BY <3>1, <4>1, <4>2
      <3> QED BY <3>2, <3>3
    <2> QED BY <2>2
  <1>3. \A n \in 1..N : Lifecycle(parts[n], r, Shard(p, n - 1, r) + 1, T(n), T(n), targets)
    <2> SUFFICES ASSUME NEW n \in 1..N
                 PROVE  Lifecycle(parts[n], r, Shard(p, n - 1, r) + 1, T(n), T(n), targets)
      OBVIOUS
    <2> DEFINE c == n - 1
    <2>1. c \in 0..(p.count - 1) /\ n # 0
      BY <1>1
    <2>2. parts[n] = Burst(p, c, r)
      BY DEF Bursts
    <2>3. T(n) = c * p.interval
      BY <2>1 DEF BurstTime
    <2> HIDE DEF c, parts, T, targets
    <2>4. Lifecycle(Burst(p, c, r), r, Shard(p, c, r) + 1, c * p.interval, c * p.interval, p.count * p.ranks)
      BY <2>1, BurstIsLifecycle
    <2> QED BY <2>2, <2>3, <2>4 DEF c, targets
  <1>4. parts \in Seq(Seq(MadeOps)) /\ Len(parts) = N
    <2>1. parts = [c \in 1..N |-> Burst(p, c - 1, r)]
      BY DEF Bursts
    <2>2. \A n \in 1..N : parts[n] \in Seq(MadeOps)
      <3> HIDE DEF parts
      <3> QED BY <1>3 DEF Lifecycle, OneFile
    <2>3. parts \in [1..N -> Seq(MadeOps)]
      BY <2>1, <2>2
    <2> HIDE DEF parts, N
    <2> QED BY <1>1, <2>3
  <1> HIDE DEF parts, targets, N
  <1>5. PICK run : Grown(run, parts, MadeOps) /\ FlattenSeq(parts) = run[N]
    BY <1>4, FlattenGrows
  <1>6. \A n \in 1..N : run[n] = run[n - 1] \o parts[n]
    BY <1>4, <1>5 DEF Grown
  <1>7. H(0) = {}
    BY DEF RanksHandles
  <1>8. \A n \in 0..(N - 1) : H(n + 1) = H(n) \cup {Shard(p, n, r) + 1} /\ Shard(p, n, r) + 1 \notin H(n)
    <2> SUFFICES ASSUME NEW n \in 0..(N - 1)
                 PROVE  H(n + 1) = H(n) \cup {Shard(p, n, r) + 1} /\ Shard(p, n, r) + 1 \notin H(n)
      OBVIOUS
    <2>1. n \in Nat /\ 0..((n + 1) - 1) = 0..(n - 1) \cup {n}
      BY <1>1
    <2>2. ASSUME NEW c \in 0..(n - 1) PROVE Shard(p, c, r) # Shard(p, n, r) /\ Shard(p, c, r) \in Nat /\ Shard(p, n, r) \in Nat
      <3> DEFINE ranks == p.ranks
      <3>1. ranks \in Nat \ {0} /\ c \in Nat /\ n \in Nat /\ c < n /\ r \in 0..(ranks - 1)
        BY <1>1, <2>1
      <3> HIDE DEF ranks
      <3>2. c * ranks + r \in Nat /\ n * ranks + r \in Nat /\ c * ranks + r < n * ranks + r
        BY <3>1, ShardsApart
      <3> QED BY <3>2 DEF Shard, ranks
    <2>3. Shard(p, n, r) + 1 \notin {Shard(p, c, r) + 1 : c \in 0..(n - 1)}
      <3> SUFFICES ASSUME NEW c \in 0..(n - 1), Shard(p, n, r) + 1 = Shard(p, c, r) + 1 PROVE FALSE
        OBVIOUS
      <3> QED BY <2>2
    <2> QED BY <2>1, <2>3 DEF RanksHandles
  <1> HIDE DEF T, H
  <1> DEFINE S == {n \in Nat : n \in 0..N => Files(run[n], r, H(n), T(n), targets)}
  <1>9. 0 \in S
    <2>1. run[0] = <<>>
      BY <1>5 DEF Grown
    <2> QED BY <1>7, <2>1, NoFiles
  <1>10. ASSUME NEW n \in 0..(N - 1), n \in S PROVE n + 1 \in S
    <2>1. n \in Nat /\ n \in 0..N /\ n + 1 \in 1..N /\ (n + 1) - 1 = n
      BY <1>1
    <2>2. Files(run[n], r, H(n), T(n), targets)
      BY <1>10, <2>1
    <2>3. run[n + 1] = run[n] \o parts[n + 1]
      BY <1>6, <2>1
    <2>4. Lifecycle(parts[n + 1], r, Shard(p, n, r) + 1, T(n + 1), T(n + 1), targets)
      BY <1>3, <2>1
    <2>5. T(n) \in Nat /\ T(n + 1) \in Nat /\ T(n) <= T(n + 1) /\ T(n + 1) <= T(n + 1)
      BY <1>2, <2>1
    <2>6. H(n + 1) = H(n) \cup {Shard(p, n, r) + 1} /\ Shard(p, n, r) + 1 \notin H(n)
      BY <1>8
    <2>7. Files(run[n] \o parts[n + 1], r, H(n) \cup {Shard(p, n, r) + 1}, T(n + 1), targets)
      BY <2>2, <2>4, <2>5, <2>6, FileFollows
    <2>8. Files(run[n + 1], r, H(n + 1), T(n + 1), targets)
      <3> DEFINE m == n + 1
      <3>1. run[m] = run[n] \o parts[m] /\ H(m) = H(n) \cup {Shard(p, n, r) + 1}
        BY <2>3, <2>6
      <3>2. Files(run[n] \o parts[m], r, H(n) \cup {Shard(p, n, r) + 1}, T(m), targets)
        BY <2>7
      <3> HIDE DEF m, S
      <3>3. Files(run[m], r, H(m), T(m), targets)
        BY <3>1, <3>2
      <3> QED BY <3>3 DEF m
    <2> QED BY <2>1, <2>8
  <1>11. 0..N \subseteq S
    <2> HIDE DEF S
    <2> QED BY <1>1, <1>9, <1>10, PrefixInduction
  <1>12. Files(run[N], r, H(N), T(N), targets)
    BY <1>1, <1>11
  <1>13. run[N] # <<>>
    <2>1. N - 1 \in 0..N /\ N \in 1..N
      BY <1>1
    <2>2. parts[N] \in Seq(MadeOps) /\ Len(parts[N]) # 0
      BY <1>3, <2>1 DEF Lifecycle, OneFile
    <2>3. run[N - 1] \in Seq(MadeOps) /\ run[N] = run[N - 1] \o parts[N]
      BY <1>4, <1>5, <1>6, <2>1 DEF Grown
    <2> DEFINE x == run[N - 1]
               y == parts[N]
    <2>4. x \in Seq(MadeOps) /\ y \in Seq(MadeOps) /\ Len(y) # 0 /\ run[N] = x \o y
      BY <2>2, <2>3
    <2> HIDE DEF x, y
    <2> QED BY <2>4
  <1> QED BY <1>1, <1>2, <1>5, <1>12, <1>13 DEF parts, N, T, H, targets

(* The checkpoint generator's trace is accepted, for any parameters it takes. *)
LEMMA CheckpointsAreAccepted ==
  ASSUME NEW p \in CkptParams, NEW tr, tr = Checkpoints(p)
  PROVE  /\ Errors(tr) = {} /\ tr.ops \in Seq(MadeOps) /\ tr.version \in Int
         /\ \E duration \in Nat : tr.summary = Summary(tr.ops, duration)
  <1> DEFINE R == 0..(p.ranks - 1)
             targets == p.count * p.ranks
             perStream == [r \in R |-> FlattenSeq(Bursts(p, r))]
             hs == [r \in R |-> RanksHandles(p, r, p.count)]
             to == [r \in R |-> BurstTime(p, p.count)]
  <1>1. tr = GeneratedFile(perStream, targets)
    BY DEF Checkpoints, Bursts
  <1>2. p.ranks \in Nat \ {0} /\ p.count \in Nat \ {0}
    BY CheckpointTyped
  <1>3. IsFiniteSet(R) /\ R \subseteq Int /\ 0 \in R /\ DOMAIN perStream = R
    <2>1. IsFiniteSet(R)
      BY <1>2, FS_Interval
    <2> QED BY <1>2, <2>1
  <1>4. \A r \in R : Files(perStream[r], r, hs[r], to[r], targets) /\ to[r] \in Nat /\ perStream[r] # <<>>
    BY RankIsFiles
  <1>5. ASSUME NEW s \in R, NEW r \in R, s # r PROVE hs[s] \cap hs[r] = {}
    <2> SUFFICES ASSUME NEW c \in 0..(p.count - 1), NEW d \in 0..(p.count - 1),
                        Shard(p, c, s) + 1 = Shard(p, d, r) + 1
                 PROVE  FALSE
      BY DEF RanksHandles
    <2> DEFINE ranks == p.ranks
    <2>1. ranks \in Nat \ {0} /\ c \in Nat /\ d \in Nat /\ s \in 0..(ranks - 1) /\ r \in 0..(ranks - 1)
      BY <1>2
    <2>2. c * ranks + s + 1 = d * ranks + r + 1
      BY DEF Shard
    <2> HIDE DEF ranks, R, hs
    <2>3. c * ranks + s \in Nat /\ (c < d => c * ranks + s < d * ranks + r)
      BY <2>1, ShardsApart
    <2>4. d * ranks + r \in Nat /\ (d < c => d * ranks + r < c * ranks + s)
      BY <2>1, ShardsApart
    <2>5. c * ranks + s = d * ranks + r
      <3> DEFINE x == c * ranks
                 y == d * ranks
      <3>1. x \in Nat /\ y \in Nat /\ x + s + 1 = y + r + 1
        BY <2>1, <2>2
      <3> HIDE DEF x, y
      <3>2. x + s = y + r
        BY <2>1, <3>1
      <3> QED BY <3>2 DEF x, y
    <2>6. c = d
      BY <2>1, <2>3, <2>4, <2>5
    <2>7. s = r
      <3> DEFINE x == c * ranks
      <3>1. x \in Nat /\ x + s = x + r
        BY <2>1, <2>5, <2>6
      <3> HIDE DEF x
      <3> QED BY <2>1, <3>1
    <2> QED BY <1>5, <2>7
  <1> HIDE DEF hs, to, perStream, R, targets
  <1>6. \A s, r \in R : s # r => hs[s] \cap hs[r] = {}
    BY <1>5
  <1>7. \E s \in R : perStream[s] # <<>>
    BY <1>3, <1>4
  <1>8. \A s \in DOMAIN perStream : Files(perStream[s], s, hs[s], to[s], targets) /\ to[s] \in Nat
    BY <1>3, <1>4
  <1> QED BY <1>1, <1>3, <1>6, <1>7, <1>8, GeneratedAccepted

-----------------------------------------------------------------------------
(* FoldLeft's sum, expanded to the function it chooses. *)
SumChosen(seq) ==
  (CHOOSE fold : fold = [T \in SUBSET DOMAIN seq |-> IF T = {} THEN 0
                           ELSE fold[T \ {Max(T)}] + seq[Max(T)]])[DOMAIN seq]

(* A sum is what that function has at the end. *)
LEMMA SumUnfolds ==
  ASSUME NEW seq
  PROVE  Total(seq) = SumChosen(seq)
  BY Zenon DEF Total, FoldLeft, MapThenFoldSet, SumChosen

(* A sum of natural numbers is one. *)
LEMMA SumIsNatural ==
  ASSUME NEW seq \in Seq(Nat)
  PROVE  Total(seq) \in Nat
  <1> DEFINE N == Len(seq)
             S == DOMAIN seq
             Step(fold, T) == IF T = {} THEN 0 ELSE fold[T \ {Max(T)}] + seq[Max(T)]
             next == [n \in S |-> [x \in Nat |-> x + seq[n]]]
  <1>1. N \in Nat /\ S = 1..N /\ \A n \in S : seq[n] \in Nat
    OBVIOUS
  <1>2. next \in [S -> [Nat -> Nat]] /\ \A n \in S, x \in Nat : next[n][x] = x + seq[n] /\ x + seq[n] \in Nat
    BY <1>1
  <1>3. \E fold : fold = [T \in SUBSET S |-> Step(fold, T)]
    <2> HIDE DEF N, S, next
    <2>1. PICK fold \in [SUBSET S -> Nat] : FoldsPrefixes(0, next, S, fold)
      <3> QED BY <1>1, <1>2, 0 \in Nat, PrefixFoldExists, Zenon
    <2>2. ASSUME NEW T \in SUBSET S PROVE fold[T] = Step(fold, T)
      <3> DEFINE m == Max(T)
      <3>1. T # {} => m \in S
        BY <1>1, LastOfPrefix, Zenon
      <3>2. fold[T \ {m}] \in Nat
        OBVIOUS
      <3> HIDE DEF m
      <3>3. T # {} => next[m][fold[T \ {m}]] = fold[T \ {m}] + seq[m]
        BY <1>2, <3>1, <3>2
      <3> QED BY <2>1, <3>3, Zenon DEF m, FoldsPrefixes
    <2> HIDE DEF Step
    <2>3. fold = [T \in SUBSET S |-> Step(fold, T)]
      <3>1. DOMAIN fold = SUBSET S /\ fold = [T \in SUBSET S |-> fold[T]]
        OBVIOUS
      <3> QED BY <2>2, <3>1, Zenon
    <2> QED BY <2>3, Zenon
  <1> DEFINE fold == CHOOSE f : f = [T \in SUBSET S |-> Step(f, T)]
  <1>4. fold = [T \in SUBSET S |-> Step(fold, T)]
    <2> HIDE DEF Step
    <2> QED BY <1>3, Zenon
  <1>5. Total(seq) = fold[S]
    BY SumUnfolds, Zenon DEF SumChosen
  <1> HIDE DEF fold, N, S
  <1>6. \A T \in SUBSET S : fold[T] = Step(fold, T)
    BY <1>4, Zenon
  <1> HIDE DEF Step
  <1> DEFINE P == {n \in Nat : fold[1..n] \in Nat}
  <1>7. fold[1..0] = 0
    <2>1. 1..0 = {} /\ {} \in SUBSET S
      OBVIOUS
    <2>2. fold[{}] = 0
      BY <1>6, <2>1, Zenon DEF Step
    <2> QED BY <2>1, <2>2
  <1>8. ASSUME NEW m \in 1..N PROVE fold[1..m] = fold[1..(m - 1)] + seq[m]
    <2>1. 1..m \in SUBSET S /\ 1..m # {} /\ Max(1..m) = m /\ (1..m) \ {m} = 1..(m - 1)
      BY <1>1, LastOfPrefix, Zenon
    <2> QED BY <1>6, <2>1, Zenon DEF Step
  <1>9. 0 \in P
    BY <1>7
  <1>10. ASSUME NEW n \in 0..(N - 1), n \in P PROVE n + 1 \in P
    <2>1. n + 1 \in 1..N /\ n + 1 \in S /\ (n + 1) - 1 = n /\ n + 1 \in Nat
      BY <1>1
    <2>2. fold[1..(n + 1)] = fold[1..n] + seq[n + 1]
      BY <1>8, <2>1
    <2> QED BY <1>1, <1>10, <2>1, <2>2
  <1>11. 0..N \subseteq P
    <2> HIDE DEF P
    <2> QED BY <1>1, <1>9, <1>10, PrefixInduction
  <1> QED BY <1>1, <1>5, <1>11

-----------------------------------------------------------------------------
(* What is known of a training run's parameters. *)
LEMMA TrainingTyped ==
  ASSUME NEW p \in TrainParams
  PROVE  p.shards \in Nat \ {0} /\ p.size \in Nat \ {0} /\ p.epochs \in Nat \ {0} /\ p.workers \in Nat \ {0}
  BY ToolsAssumption DEF TrainingValid

(* A shard is read at places that are there, in steps of a record. *)
LEMMA DrawTyped ==
  ASSUME NEW size \in Nat \ {0}, NEW draw \in Draws(size), NEW order \in Orders(draw)
  PROVE  /\ Len(draw) \in Nat /\ DOMAIN draw = 1..Len(draw)
         /\ \A i \in 1..Len(draw) : /\ order[i] \in 1..Len(draw) /\ draw[order[i]] \in Nat
                                    /\ StartsOf(draw)[order[i]] \in Nat
  <1>1. PICK n \in 1..size : draw \in [1..n -> 1..size]
    BY DEF Draws
  <1>2. draw \in Seq(Nat) /\ Len(draw) = n /\ DOMAIN draw = 1..n /\ n \in Nat
    BY <1>1
  <1>3. \A i \in 1..n : order[i] \in 1..n
    <2>1. CASE params.random
      <3>1. order \in [DOMAIN draw -> DOMAIN draw]
        BY <2>1 DEF Orders, Bijection, Injection
      <3> QED BY <1>2, <3>1
    <2>2. CASE ~params.random
      <3>1. order = [i \in DOMAIN draw |-> i]
        BY <2>2 DEF Orders
      <3> QED BY <1>2, <3>1
    <2> QED BY <2>1, <2>2
  <1>4. ASSUME NEW k \in 1..n PROVE StartsOf(draw)[k] \in Nat
    <2> DEFINE front == SubSeq(draw, 1, k - 1)
    <2>1. front \in Seq(Nat)
      <3>1. k - 1 \in 0..Len(draw)
        BY <1>2
      <3> QED BY <1>2, <3>1
    <2>2. StartsOf(draw)[k] = Total(front)
      BY <1>2 DEF StartsOf, Total
    <2> HIDE DEF front
    <2> QED BY <2>1, <2>2, SumIsNatural
  <1> QED BY <1>1, <1>2, <1>3, <1>4

(* One turn over a shard makes one file. *)
LEMMA ReadsGoOn ==
  ASSUME NEW targets \in Int, NEW s \in Int, NEW t \in Nat, NEW h \in Int,
         NEW n \in Nat, NEW start, NEW len, \A k \in 1..n : start[k] \in Nat /\ len[k] \in Nat
  PROVE  MoreOfFile([k \in 1..n |-> Moves("READ", s, t + k, h, start[k], len[k])], s, h, t, t + n, targets, FALSE)
  <1> DEFINE due   == [k \in 1..n |-> t + k]
             moves == [k \in 1..n |-> Moves("READ", s, due[k], h, start[k], len[k])]
             last  == t + n
             kind  == "READ"
  <1>1. moves = [k \in 1..n |-> Moves("READ", s, t + k, h, start[k], len[k])]
    OBVIOUS
  <1>2. moves = [k \in 1..n |-> Moves(kind, s, due[k], h, start[k], len[k])]
    OBVIOUS
  <1>3. (\A k \in 1..n : due[k] \in t..last /\ start[k] \in Nat /\ len[k] \in Nat) /\ last \in Nat
    OBVIOUS
  <1>4. \A i, j \in 1..n : i <= j => due[i] <= due[j]
    OBVIOUS
  <1>5. kind = "READ" \/ kind = "WRITE"
    OBVIOUS
  <1> HIDE DEF due, moves, last, kind
  <1>6. MoreOfFile(moves, s, h, t, last, targets, FALSE)
    BY <1>2, <1>3, <1>4, <1>5, MovesGoOn
  <1> QED BY <1>1, <1>6 DEF last

(* What one turn over a shard makes of so many records. *)
Records(n, start, len) == \A k \in 1..n : start[k] \in Nat /\ len[k] \in Nat

(* The operations themselves. *)
ReadThrough(s, t, h, shard, n, start, len) ==
  (<<Opens(s, t, h, shard, "r")>> \o [k \in 1..n |-> Moves("READ", s, t + k, h, start[k], len[k])])
  \o <<OpOn("CLOSE", s, t + n + 1, h)>>

(* They make one file, whose CLOSE is due one unit after the last record. *)
IsReadThrough(b, s, h, t, till, targets, n) ==
  Lifecycle(b, s, h, t, till, targets) /\ Len(b) = n + 2

(* Whatever the records are. *)
LEMMA ReadsAreAFile ==
  ASSUME NEW targets \in Int, NEW s \in Int, NEW t \in Nat, NEW h \in Int, NEW shard \in 0..(targets - 1),
         NEW n \in Nat, NEW start, NEW len, Records(n, start, len),
         NEW b, b = ReadThrough(s, t, h, shard, n, start, len), NEW till, till = t + n + 1
  PROVE  IsReadThrough(b, s, h, t, till, targets, n)
  <1>1. \A k \in 1..n : start[k] \in Nat /\ len[k] \in Nat
    BY DEF Records
  <1> DEFINE moves == [k \in 1..n |-> Moves("READ", s, t + k, h, start[k], len[k])]
             open  == Opens(s, t, h, shard, "r")
             close == OpOn("CLOSE", s, t + n + 1, h)
             due   == [k \in 1..n |-> t + k]
             end   == t + n + 1
             last  == t + n
  <1>3. moves = [k \in 1..n |-> Moves("READ", s, due[k], h, start[k], len[k])]
    OBVIOUS
  <1>4. \A k \in 1..n : due[k] \in t..last /\ start[k] \in Nat /\ len[k] \in Nat
    BY <1>1
  <1>5. \A i, j \in 1..n : i <= j => due[i] <= due[j]
    OBVIOUS
  <1>6. last \in Nat /\ end \in Nat /\ t <= t /\ t <= last /\ last <= end /\ end <= end /\ close = OpOn("CLOSE", s, end, h)
    OBVIOUS
  <1>0. b = (<<open>> \o moves) \o <<close>>
    BY DEF ReadThrough
  <1> HIDE DEF open, close, due, last, end, moves
  <1>7. OneFile(<<open>>, s, h, t, t, targets, FALSE)
    <2>1. t \in Int /\ "r" \in {"r", "w", "rw"} /\ open = Opens(s, t, h, shard, "r")
      BY DEF open
    <2>2. Good(open, targets) /\ open.s = s /\ open.h = h /\ open.t = t /\ open.op = "OPEN"
      <3>1. Fits(Opens(s, t, h, shard, "r"), "OPEN", s, t, h, targets)
        BY <2>1, GoodOpens, Zenon
      <3> QED BY <2>1, <3>1, Zenon DEF Fits
    <2> QED BY <2>2, FileOpened
  <1>8. MoreOfFile(moves, s, h, t, last, targets, FALSE)
    <2>1. \A k \in 1..n : start[k] \in Nat /\ len[k] \in Nat
      BY <1>1
    <2>2. MoreOfFile([k \in 1..n |-> Moves("READ", s, t + k, h, start[k], len[k])], s, h, t, t + n, targets, FALSE)
      BY <2>1, ReadsGoOn, Zenon
    <2> QED BY <2>2 DEF last, moves
  <1>9. MoreOfFile(<<close>>, s, h, end, end, targets, TRUE)
    <2>1. end \in Int /\ "CLOSE" \in {"FSYNC", "CLOSE"} /\ close = OpOn("CLOSE", s, end, h)
      BY <1>6
    <2>2. /\ Good(close, targets) /\ close.s = s /\ close.h = h /\ close.t = end /\ close.op = "CLOSE"
      <3>1. Fits(OpOn("CLOSE", s, end, h), "CLOSE", s, end, h, targets)
        BY <2>1, GoodOthers, Zenon
      <3> QED BY <2>1, <3>1, Zenon DEF Fits
    <2> QED BY <1>6, <2>2, OneMore
  <1>10. OneFile(<<open>> \o moves, s, h, t, last, targets, FALSE)
    BY <1>6, <1>7, <1>8, FileGoesOn
  <1>11. OneFile((<<open>> \o moves) \o <<close>>, s, h, t, end, targets, TRUE)
    BY <1>6, <1>9, <1>10, FileGoesOn
  <1>12. Len((<<open>> \o moves) \o <<close>>) = n + 2
    <2> DEFINE X == {open, close} \cup MadeOps
    <2>1. <<open>> \in Seq(X) /\ <<close>> \in Seq(X) /\ Len(<<open>>) = 1 /\ Len(<<close>>) = 1
      OBVIOUS
    <2>2. moves \in Seq(X) /\ Len(moves) = n
      <3>1. moves \in Seq(MadeOps)
        BY <1>8 DEF MoreOfFile
      <3>2. DOMAIN moves = 1..n
        BY <1>3
      <3>3. Len(moves) = n
        BY <3>1, <3>2
      <3>4. \A k \in 1..n : moves[k] \in X
        BY <3>1, <3>3
      <3>5. moves \in [1..n -> X]
        BY <1>3, <3>4
      <3> HIDE DEF X
      <3> QED BY <3>3, <3>5
    <2> HIDE DEF X
    <2>3. <<open>> \o moves \in Seq(X) /\ Len(<<open>> \o moves) = 1 + n
      BY <2>1, <2>2, EndToEnd
    <2> DEFINE front == <<open>> \o moves
    <2> HIDE DEF front
    <2>4. front \in Seq(X) /\ Len(front) = 1 + n
      BY <2>3 DEF front
    <2>5. Len(front \o <<close>>) = 1 + n + 1
      BY <2>1, <2>4, EndToEnd
    <2> QED BY <2>5 DEF front
  <1> QED BY <1>0, <1>11, <1>12 DEF Lifecycle, end, IsReadThrough

(* One turn of Generate's loop over the shards makes one file, for any draw   *)
(* and order.                                                                 *)
LEMMA ShardIsLifecycle ==
  ASSUME NEW size \in Nat \ {0}, NEW draw \in Draws(size), NEW order \in Orders(draw),
         NEW targets \in Int, NEW s \in Int, NEW t \in Nat, NEW h \in Int, NEW shard \in 0..(targets - 1),
         NEW b, b = ShardOps(s, t, h, shard, draw, order)
  PROVE  Lifecycle(b, s, h, t, t + Len(draw) + 1, targets) /\ Len(b) = Len(draw) + 2 /\ Len(draw) \in Nat
  <1> DEFINE n == Len(draw)
             moves == Reads(s, t, h, draw, order)
             start == [k \in 1..n |-> StartsOf(draw)[order[k]]]
             len   == [k \in 1..n |-> draw[order[k]]]
  <1>1. /\ n \in Nat /\ DOMAIN draw = 1..n
        /\ \A i \in 1..n : draw[order[i]] \in Nat /\ StartsOf(draw)[order[i]] \in Nat
    BY DrawTyped
  <1>2. b = (<<Opens(s, t, h, shard, "r")>> \o moves) \o <<OpOn("CLOSE", s, t + n + 1, h)>>
    BY DEF ShardOps
  <1>3. moves = [k \in 1..n |-> Moves("READ", s, t + k, h, start[k], len[k])]
    BY <1>1 DEF Reads
  <1>4. Records(n, start, len)
    BY <1>1 DEF Records
  <1>5. b = ReadThrough(s, t, h, shard, n, start, len)
    BY <1>2, <1>3 DEF ReadThrough
  <1> HIDE DEF n, moves, start, len
  <1>6. Lifecycle(b, s, h, t, t + n + 1, targets) /\ Len(b) = n + 2
    <2>1. n \in Nat
      BY <1>1
    <2> DEFINE till == t + n + 1
    <2>2. till = t + n + 1
      OBVIOUS
    <2> HIDE DEF till
    <2>3. IsReadThrough(b, s, h, t, till, targets, n)
      BY <2>1, <2>2, <1>4, <1>5, ReadsAreAFile
    <2> QED BY <2>3 DEF IsReadThrough, till
  <1> QED BY <1>1, <1>6 DEF n

-----------------------------------------------------------------------------
(* The workers of a training run, a stream for each. *)
Workers == 0..(params.workers - 1)

(* While it is made each stream is a series of files: hs are the handles of   *)
(* these files, none on two streams and none from turn.h on.                  *)
Owned(hs, st, turn, shards, W) ==
  \A s \in W : /\ hs[s] \subseteq 1..(turn.h - 1)
               /\ Files(st[s], s, hs[s], turn.t[s], shards)
               /\ \A r \in W : s # r => hs[s] \cap hs[r] = {}

(* What holds while a training run is made. *)
TrainInv ==
  tool = "training" =>
    /\ params \in TrainParams
    /\ DOMAIN streams = Workers
    /\ gen.h \in Nat \ {0} /\ gen.pos \in Nat /\ gen.left \subseteq 0..(params.shards - 1)
    /\ gen.t \in [Workers -> Nat]
    /\ \E hs \in [Workers -> SUBSET Nat] : Owned(hs, streams, gen, params.shards, Workers)
    /\ gen.epoch # 0 => \E s \in Workers : streams[s] # <<>>

(* It holds at the start. *)
LEMMA TrainStarts == Init => TrainInv
  <1> SUFFICES ASSUME Init, tool = "training" PROVE TrainInv
    BY DEF TrainInv
  <1>1. params \in TrainParams /\ streams = [s \in Workers |-> <<>>]
    BY DEF Init, Workers, Imports
  <1>2. gen = [epoch |-> 0, left |-> 0..(params.shards - 1), pos |-> 0, h |-> 1, t |-> [s \in Workers |-> 0]]
    BY DEF Init, Workers
  <1> DEFINE hs == [s \in Workers |-> {}]
  <1>3. hs \in [Workers -> SUBSET Nat]
    OBVIOUS
  <1>4. Owned(hs, streams, gen, params.shards, Workers)
    <2> SUFFICES ASSUME NEW s \in Workers
                 PROVE  /\ hs[s] \subseteq 1..(gen.h - 1)
                        /\ Files(streams[s], s, hs[s], gen.t[s], params.shards)
                        /\ \A r \in Workers : s # r => hs[s] \cap hs[r] = {}
      BY DEF Owned
    <2>1. Files(<<>>, s, {}, 0, params.shards)
      BY NoFiles
    <2> QED BY <1>1, <1>2, <2>1
  <1> HIDE DEF hs
  <1> QED BY <1>1, <1>2, <1>3, <1>4 DEF TrainInv

(* And a turn over one more shard keeps it: the new file's handle is no       *)
(* other's.                                                                   *)
LEMMA TurnKeepsFiles ==
  ASSUME TrainInv, NEW shard \in NextShards, NEW draw \in Draws(params.size), NEW order \in Orders(draw),
         Shards(shard, draw, order)
  PROVE  TrainInv'
  <1> DEFINE wi  == gen.pos % params.workers
             ops == ShardOps(wi, gen.t[wi], gen.h, shard, draw, order)
  <1>1. tool = "training" /\ tool' = tool /\ params' = params
    BY DEF Shards, Making, Unmade
  <1>2. /\ params \in TrainParams /\ DOMAIN streams = Workers
        /\ gen.h \in Nat \ {0} /\ gen.pos \in Nat /\ gen.left \subseteq 0..(params.shards - 1)
        /\ gen.t \in [Workers -> Nat]
        /\ \E hs \in [Workers -> SUBSET Nat] : Owned(hs, streams, gen, params.shards, Workers)
    BY <1>1 DEF TrainInv
  <1>3. params.shards \in Nat \ {0} /\ params.size \in Nat \ {0} /\ params.workers \in Nat \ {0}
    BY <1>2, TrainingTyped
  <1>4. wi \in Workers /\ wi \in Int
    <2> DEFINE n == params.workers
    <2>1. n \in Nat \ {0} /\ gen.pos \in Int
      BY <1>2, <1>3
    <2> HIDE DEF n
    <2>2. (gen.pos % n) \in 0..(n - 1)
      BY <2>1, DaysAndTime
    <2> QED BY <2>1, <2>2 DEF Workers, n
  <1>5. /\ streams' = [streams EXCEPT ![wi] = @ \o ops]
        /\ gen'.h = gen.h + 1 /\ gen'.t = [gen.t EXCEPT ![wi] = @ + Len(ops)]
        /\ gen'.pos = (IF gen.pos + 1 = params.shards THEN 0 ELSE gen.pos + 1)
        /\ gen'.left = (IF gen.pos + 1 = params.shards THEN 0..(params.shards - 1) ELSE gen.left \ {shard})
    BY DEF Shards
  <1>6. shard \in 0..(params.shards - 1)
    BY <1>2 DEF NextShards
  <1>7. Workers' = Workers
    BY <1>1 DEF Workers
  <1>8. /\ Lifecycle(ops, wi, gen.h, gen.t[wi], gen.t[wi] + Len(draw) + 1, params.shards)
        /\ Len(ops) = Len(draw) + 2 /\ Len(draw) \in Nat
    <2> DEFINE t == gen.t[wi]
               h == gen.h
               targets == params.shards
               size == params.size
    <2>1. t \in Nat /\ h \in Int /\ targets \in Int /\ size \in Nat \ {0} /\ shard \in 0..(targets - 1)
          /\ draw \in Draws(size) /\ ops = ShardOps(wi, t, h, shard, draw, order)
      BY <1>2, <1>3, <1>4, <1>6
    <2> HIDE DEF ops, wi, t, h, targets, size
    <2>2. Lifecycle(ops, wi, h, t, t + Len(draw) + 1, targets) /\ Len(ops) = Len(draw) + 2 /\ Len(draw) \in Nat
      BY <1>4, <2>1, ShardIsLifecycle
    <2> QED BY <2>2 DEF t, h, targets
  <1> HIDE DEF ops, wi
  <1>9. PICK hs \in [Workers -> SUBSET Nat] : Owned(hs, streams, gen, params.shards, Workers)
    BY <1>2
  <1> DEFINE new == [hs EXCEPT ![wi] = @ \cup {gen.h}]
  <1>10. new \in [Workers -> SUBSET Nat] /\ new[wi] = hs[wi] \cup {gen.h} /\ \A s \in Workers : s # wi => new[s] = hs[s]
    BY <1>2, <1>4
  <1>11. \A s \in Workers : hs[s] \subseteq 1..(gen.h - 1)
    BY <1>9 DEF Owned
  <1>12. gen'.h - 1 = gen.h /\ gen.h \notin 1..(gen.h - 1) /\ 1..(gen.h - 1) \subseteq 1..gen.h /\ gen.h \in 1..gen.h
    <2> DEFINE h == gen.h
               later == gen'.h
    <2>1. h \in Nat \ {0} /\ later = h + 1
      BY <1>2, <1>5
    <2> HIDE DEF h, later
    <2>2. later - 1 = h /\ h \notin 1..(h - 1) /\ 1..(h - 1) \subseteq 1..h /\ h \in 1..h
      BY <2>1
    <2> QED BY <2>2 DEF h, later
  <1>13. gen'.t \in [Workers -> Nat] /\ gen'.t[wi] = gen.t[wi] + (Len(draw) + 2)
         /\ \A s \in Workers : s # wi => gen'.t[s] = gen.t[s]
    BY <1>2, <1>4, <1>5, <1>8
  <1>14. /\ DOMAIN streams' = Workers /\ streams'[wi] = streams[wi] \o ops
         /\ \A s \in Workers : s # wi => streams'[s] = streams[s]
    BY <1>2, <1>4, <1>5
  <1>15. ASSUME NEW s \in Workers PROVE Files(streams'[s], s, new[s], gen'.t[s], params.shards)
    <2>1. CASE s # wi
      <3>1. Files(streams[s], s, hs[s], gen.t[s], params.shards)
        BY <1>9 DEF Owned
      <3> QED BY <1>10, <1>13, <1>14, <2>1, <3>1
    <2>2. CASE s = wi
      <3> DEFINE from == gen.t[wi]
                 till == gen.t[wi] + (Len(draw) + 2)
                 early == gen.t[wi] + Len(draw) + 1
                 old == streams[wi]
                 had == hs[wi]
                 h == gen.h
                 targets == params.shards
      <3>1. Files(old, wi, had, from, targets)
        BY <1>4, <1>9 DEF Owned
      <3>2. from \in Nat /\ till \in Nat /\ from <= from /\ from <= till /\ early <= till /\ early \in Nat /\ from <= early
        BY <1>2, <1>4, <1>8
      <3>3. h \notin had
        BY <1>4, <1>11, <1>12
      <3>4. Lifecycle(ops, wi, h, from, early, targets)
        BY <1>8
      <3> HIDE DEF from, till, early, old, had, h, targets, new
      <3>5. Lifecycle(ops, wi, h, from, till, targets)
        <4>1. \A i \in 1..Len(ops) : ops[i].t \in from..early => ops[i].t \in from..till
          BY <3>2
        <4> QED BY <3>4, <4>1 DEF Lifecycle, OneFile
      <3>6. Files(old \o ops, wi, had \cup {h}, till, targets)
        BY <3>1, <3>2, <3>3, <3>5, FileFollows
      <3> QED BY <1>10, <1>13, <1>14, <2>2, <3>6 DEF old, had, h, till, targets
    <2> QED BY <2>1, <2>2
  <1>16. \A s \in Workers : new[s] \subseteq 1..(gen'.h - 1)
    <2> SUFFICES ASSUME NEW s \in Workers PROVE new[s] \subseteq 1..gen.h
      BY <1>12
    <2>1. hs[s] \subseteq 1..gen.h
      BY <1>11, <1>12
    <2>2. CASE s = wi
      BY <1>10, <1>12, <2>1, <2>2
    <2>3. CASE s # wi
      BY <1>10, <2>1, <2>3
    <2> QED BY <2>2, <2>3
  <1>17. ASSUME NEW s \in Workers, NEW r \in Workers, s # r PROVE new[s] \cap new[r] = {}
    <2>1. hs[s] \cap hs[r] = {} /\ gen.h \notin hs[s] /\ gen.h \notin hs[r]
      BY <1>9, <1>11, <1>12, <1>17 DEF Owned
    <2>2. CASE s = wi
      BY <1>10, <1>17, <2>1, <2>2
    <2>3. CASE r = wi
      BY <1>10, <1>17, <2>1, <2>3
    <2>4. CASE s # wi /\ r # wi
      BY <1>10, <2>1, <2>4
    <2> QED BY <2>2, <2>3, <2>4
  <1>18. Owned(new, streams', gen', params.shards, Workers)
    <2> HIDE DEF new
    <2> QED BY <1>15, <1>16, <1>17 DEF Owned
  <1>19. streams'[wi] # <<>>
    <2> DEFINE x == streams[wi]
    <2>1. x \in Seq(MadeOps) /\ ops \in Seq(MadeOps) /\ Len(ops) # 0
      <3>1. Files(x, wi, hs[wi], gen.t[wi], params.shards)
        BY <1>4, <1>9 DEF Owned
      <3> QED BY <1>8, <3>1 DEF Files, Lifecycle, OneFile
    <2>2. streams'[wi] = x \o ops
      BY <1>14
    <2> HIDE DEF x
    <2> QED BY <2>1, <2>2
  <1>20. gen'.h \in Nat \ {0} /\ gen'.pos \in Nat /\ gen'.left \subseteq 0..(params.shards - 1)
    BY <1>2, <1>5
  <1>21. \E f \in [Workers -> SUBSET Nat] : Owned(f, streams', gen', params.shards, Workers)
    <2> HIDE DEF new
    <2> QED BY <1>10, <1>18
  <1> HIDE DEF new
  <1> QED BY <1>1, <1>2, <1>4, <1>7, <1>13, <1>14, <1>19, <1>20, <1>21 DEF TrainInv

-----------------------------------------------------------------------------
(* Only those turns change the streams. *)
LEMMA TrainInvariant == Spec => []TrainInv
  <1>1. TrainInv /\ [Next]_vars => TrainInv'
    <2> SUFFICES ASSUME TrainInv, [Next]_vars PROVE TrainInv'
      OBVIOUS
    <2>1. ASSUME UNCHANGED <<tool, params, streams, gen>> PROVE TrainInv'
      BY <2>1 DEF TrainInv, Workers
    <2>2. CASE UNCHANGED vars
      BY <2>1, <2>2 DEF vars
    <2>3. ASSUME tool # "training", tool' = tool PROVE TrainInv'
      BY <2>3 DEF TrainInv
    <2>4. ASSUME NEW s \in Ranks, NEW step \in Steps, NEW back \in {0, Back}, NEW dur \in Durs,
                 Line(s, step, back, dur)
          PROVE  TrainInv'
      BY <2>3, <2>4 DEF Line, Unmade, Imports
    <2>5. ASSUME ImportEnds PROVE TrainInv'
      BY <2>1, <2>5 DEF ImportEnds, Unmade
    <2>6. ASSUME Checkpoint \/ Training \/ Check PROVE TrainInv'
      BY <2>1, <2>6 DEF Checkpoint, Training, Check, Unmade
    <2>7. ASSUME NEW shard \in NextShards, NEW draw \in Draws(params.size), NEW order \in Orders(draw),
                 Shards(shard, draw, order)
          PROVE  TrainInv'
      BY <2>7, TurnKeepsFiles
    <2>8. ASSUME NEW op \in HandOps, Type(op) PROVE TrainInv'
      BY <2>3, <2>8 DEF Type, Making, Unmade
    <2>9. ASSUME NEW b \in Blocks, Transform(b) PROVE TrainInv'
      BY <2>1, <2>9 DEF Transform
    <2>10. ASSUME NEW mode, NEW speed, NEW n, Pace(mode, speed, n) PROVE TrainInv'
      BY <2>1, <2>10 DEF Pace
    <2>11. ASSUME Done PROVE TrainInv'
      BY <2>2, <2>11 DEF Done
    <2> QED BY <2>2, <2>4, <2>5, <2>6, <2>7, <2>8, <2>9, <2>10, <2>11 DEF Next
  <1> QED BY <1>1, TrainStarts, PTL DEF Spec

(* A trace that was accepted. *)
Accepted(tr) ==
  /\ Errors(tr) = {}
  /\ tr.ops \in Seq(MadeOps) \/ tr.ops \in Seq(HandOps)
  /\ tr.version \in Int
  /\ \E duration \in Nat : tr.summary = Summary(tr.ops, duration)

(* At the end the streams are merged to a trace the validator accepts. *)
LEMMA TrainingIsAccepted ==
  ASSUME TrainInv, tool = "training", gen.epoch = params.epochs,
         NEW tr, tr = GeneratedFile(streams, params.shards)
  PROVE  Accepted(tr)
  <1> DEFINE targets == params.shards
             to == gen.t
  <1>1. /\ params \in TrainParams /\ DOMAIN streams = Workers
        /\ gen.t \in [Workers -> Nat]
        /\ \E hs \in [Workers -> SUBSET Nat] : Owned(hs, streams, gen, params.shards, Workers)
        /\ gen.epoch # 0 => \E s \in Workers : streams[s] # <<>>
    BY DEF TrainInv
  <1>2. params.workers \in Nat \ {0} /\ gen.epoch # 0
    BY <1>1, TrainingTyped
  <1>3. IsFiniteSet(Workers) /\ Workers \subseteq Int
    <2>1. IsFiniteSet(0..(params.workers - 1))
      BY <1>2, FS_Interval
    <2> QED BY <1>2, <2>1 DEF Workers
  <1>4. PICK hs \in [Workers -> SUBSET Nat] : Owned(hs, streams, gen, params.shards, Workers)
    BY <1>1
  <1>5. \A s \in Workers : Files(streams[s], s, hs[s], to[s], targets) /\ to[s] \in Nat
    BY <1>1, <1>4 DEF Owned
  <1>6. \A s, r \in Workers : s # r => hs[s] \cap hs[r] = {}
    BY <1>4 DEF Owned
  <1>7. \E s \in Workers : streams[s] # <<>>
    BY <1>1, <1>2
  <1> DEFINE perStream == streams
  <1>8. /\ IsFiniteSet(DOMAIN perStream) /\ DOMAIN perStream \subseteq Int
        /\ \A s \in DOMAIN perStream : Files(perStream[s], s, hs[s], to[s], targets) /\ to[s] \in Nat
        /\ \A s, r \in DOMAIN perStream : s # r => hs[s] \cap hs[r] = {}
        /\ \E s \in DOMAIN perStream : perStream[s] # <<>>
        /\ tr = GeneratedFile(perStream, targets)
    BY <1>1, <1>3, <1>5, <1>6, <1>7
  <1> HIDE DEF targets, to, perStream
  <1>9. /\ Errors(tr) = {} /\ tr.ops \in Seq(MadeOps) /\ tr.version \in Int
        /\ \E duration \in Nat : tr.summary = Summary(tr.ops, duration)
    BY <1>8, GeneratedAccepted
  <1> QED BY <1>9 DEF Accepted

(* What is made is what the validator accepts, but for what is typed; what is *)
(* transformed was accepted, and so is what it becomes.                       *)
FilesInv ==
  /\ tool = "checkpoint" => params \in CkptParams
  /\ phase = "refused" => tool = "hand"
  /\ phase \in {"made", "split", "replayed"} => Accepted(file)
  /\ phase # "broken"
  /\ phase = "split" => block \in Nat \ {0} /\ out = SplitFile(file, block)

(* A trace that was accepted is split into one that is, and no byte of it changes. *)
LEMMA SplitOfAccepted ==
  ASSUME NEW tr, Accepted(tr), NEW b \in Nat \ {0}, NEW new, new = SplitFile(tr, b)
  PROVE  /\ Errors(new) = {}
         /\ AllTouched(new.ops) = AllTouched(tr.ops)
         /\ \A i \in DOMAIN new.ops :
              IsRead(new.ops[i]) => Full(new.ops[i], b) \/ FellShort(new.ops[i], b, tr.ops)
         /\ new.summary.total_bytes = tr.summary.total_bytes
  <1>1. PICK H : Typed(H) /\ tr.ops \in Seq(H)
    <2>1. Typed(HandOps)
      BY HandAssumption DEF Typed
    <2> QED BY <2>1, MadeOpsTyped DEF Accepted
  <1>2. PICK duration \in Nat : tr.summary = Summary(tr.ops, duration)
    BY DEF Accepted
  <1>3. tr.summary.duration \in Nat /\ tr.summary.total_bytes = TransferTotal(tr.ops)
    BY <1>2 DEF Summary
  <1>4. tr.version \in Int /\ Errors(tr) = {}
    BY DEF Accepted
  <1>5. Errors(new) = {} /\ \A i \in 1..Len(tr.ops) : Sound(tr.ops[i])
    BY <1>1, <1>3, <1>4, SplitIsAccepted
  <1> DEFINE ops == tr.ops
             cut == SplitOps(ops, b)
  <1>6. new.ops = cut /\ new.summary = Summary(cut, tr.summary.duration)
    BY DEF SplitFile
  <1>7. ops \in Seq(H) /\ \A i \in 1..Len(ops) : Sound(ops[i])
    BY <1>1, <1>5
  <1> HIDE DEF ops, cut
  <1>8. /\ AllTouched(cut) = AllTouched(ops)
        /\ TransferTotal(cut) = TransferTotal(ops)
        /\ \A n \in 1..Len(cut) : IsRead(cut[n]) => Full(cut[n], b) \/ FellShort(cut[n], b, ops)
        /\ \E E : SplitAt(E, cut, ops, b)
    BY <1>1, <1>7, SplitKeepsBytes DEF cut
  <1>9. DOMAIN cut = 1..Len(cut)
    BY <1>8 DEF SplitAt
  <1>10. new.summary.total_bytes = TransferTotal(cut)
    BY <1>6 DEF Summary
  <1> QED BY <1>3, <1>5, <1>6, <1>8, <1>9, <1>10 DEF ops

(* Every tool's last step makes it so, and so does the transformation. *)
LEMMA FilesInvariant == Spec => []FilesInv
  <1>1. Init => FilesInv
    BY DEF Init, FilesInv, Imports
  <1>2. /\ HandWhole /\ HandWhole' /\ ClockInv /\ ImportInv /\ TrainInv /\ FilesInv /\ [Next]_vars => FilesInv'
    <2> SUFFICES ASSUME HandWhole, HandWhole', ClockInv, ImportInv, TrainInv, FilesInv, [Next]_vars PROVE FilesInv'
      OBVIOUS
    <2>1. CASE UNCHANGED vars
      BY <2>1 DEF vars, FilesInv
    <2>2. ASSUME phase = "making", phase' = "making", UNCHANGED <<tool, params>> PROVE FilesInv'
      BY <2>2 DEF FilesInv
    <2>3. ASSUME phase = "making", UNCHANGED <<tool, params>>, Accepted(file') \/ tool = "hand",
                 phase' = IF Errors(file') = {} THEN "made" ELSE "refused",
                 phase' = "made" => Accepted(file')
          PROVE  FilesInv'
      <3>1. Accepted(file') => phase' = "made"
        BY <2>3 DEF Accepted
      <3>2. phase' \in {"made", "refused"}
        BY <2>3
      <3> QED BY <2>3, <3>1, <3>2 DEF FilesInv
    <2>4. ASSUME NEW s \in Ranks, NEW step \in Steps, NEW back \in {0, Back}, NEW dur \in Durs,
                 Line(s, step, back, dur)
          PROVE  FilesInv'
      BY <2>2, <2>4 DEF Line, Unmade
    <2>5. ASSUME ImportEnds PROVE FilesInv'
      <3>1. /\ phase = "making" /\ tool \in Imports /\ wall # <<>> /\ UNCHANGED <<tool, params>>
            /\ file' = TraceFile(Lines, 1)
            /\ phase' = IF Errors(file') = {} THEN "made" ELSE "refused"
        BY <2>5 DEF ImportEnds, Unmade, Lines, Used
      <3>2. Accepted(file')
        BY <3>1, ImportsAccepted DEF Accepted
      <3> QED BY <2>3, <3>1, <3>2
    <2>6. ASSUME Checkpoint PROVE FilesInv'
      <3>1. /\ phase = "making" /\ params \in CkptParams /\ UNCHANGED <<tool, params>>
            /\ file' = Checkpoints(params)
            /\ phase' = IF Errors(file') = {} THEN "made" ELSE "refused"
        BY <2>6 DEF Checkpoint, Making, Unmade, FilesInv
      <3>2. Accepted(file')
        BY <3>1, CheckpointsAreAccepted DEF Accepted
      <3> QED BY <2>3, <3>1, <3>2
    <2>7. ASSUME NEW shard, NEW draw, NEW order, Shards(shard, draw, order) PROVE FilesInv'
      BY <2>2, <2>7 DEF Shards, Making, Unmade
    <2>8. ASSUME Training PROVE FilesInv'
      <3>1. /\ phase = "making" /\ tool = "training" /\ gen.epoch = params.epochs /\ UNCHANGED <<tool, params>>
            /\ file' = GeneratedFile(streams, params.shards)
            /\ phase' = IF Errors(file') = {} THEN "made" ELSE "refused"
        BY <2>8 DEF Training, Making, Unmade
      <3>2. Accepted(file')
        BY <3>1, TrainingIsAccepted
      <3> QED BY <2>3, <3>1, <3>2
    <2>9. ASSUME NEW op \in HandOps, Type(op) PROVE FilesInv'
      BY <2>2, <2>9 DEF Type, Making, Unmade
    <2>10. ASSUME Check PROVE FilesInv'
      <3>1. /\ phase = "making" /\ tool = "hand" /\ UNCHANGED <<tool, params>> /\ streams # <<>>
            /\ file' = HandFile(streams)
            /\ phase' = IF Errors(file') = {} THEN "made" ELSE "refused"
        BY <2>10 DEF Check, Making, Unmade, HandFile
      <3>2. streams \in Seq(HandOps) /\ params \in [version : 1..2, truncated : BOOLEAN]
        BY <3>1 DEF HandWhole
      <3>3. ASSUME Errors(file') = {} PROVE Accepted(file')
        <4>1. ~params.truncated
          BY <3>1, <3>2, <3>3, HandAccepted
        <4>2. /\ HandFile(streams).ops = streams /\ HandFile(streams).version \in Int
              /\ HandFile(streams).summary = Summary(streams, 0)
          BY <3>2, <4>1 DEF HandFile
        <4> QED BY <3>1, <3>2, <3>3, <4>2 DEF Accepted
      <3> QED BY <2>3, <3>1, <3>3
    <2>11. ASSUME NEW b \in Blocks, Transform(b) PROVE FilesInv'
      <3>1. /\ phase = "made" /\ block' = b /\ out' = SplitFile(file, b) /\ UNCHANGED <<tool, params, file>>
            /\ phase' = IF Errors(out') = {} THEN "split" ELSE "broken"
        BY <2>11 DEF Transform
      <3>2. Accepted(file) /\ b \in Nat \ {0}
        BY <3>1, ToolsAssumption DEF FilesInv
      <3>3. Errors(out') = {}
        BY <3>1, <3>2, SplitOfAccepted
      <3>4. phase' = "split"
        BY <3>1, <3>3
      <3> QED BY <3>1, <3>2, <3>4 DEF FilesInv
    <2>12. ASSUME NEW mode, NEW speed, NEW n, Pace(mode, speed, n) PROVE FilesInv'
      BY <2>12 DEF Pace, FilesInv
    <2>13. ASSUME Done PROVE FilesInv'
      BY <2>1, <2>13 DEF Done
    <2> QED BY <2>1, <2>4, <2>5, <2>6, <2>7, <2>8, <2>9, <2>10, <2>11, <2>12, <2>13 DEF Next
  <1> QED BY <1>1, <1>2, HandInvariant, ClockInvariant, ImportInvariant, TrainInvariant, PTL DEF Spec

(* Imports and generators never make a trace the validator refuses, and no    *)
(* accepted trace is transformed into one it refuses, for any parameters, any *)
(* draws and any operations (gen/trainingread/generate.go:92, gen/checkpoint, *)
(* transform.go:124).                                                         *)
THEOREM ProductsAreValid == Spec => []ProductsValid
  <1>1. FilesInv => ProductsValid
    BY DEF FilesInv, ProductsValid
  <1> QED BY <1>1, FilesInvariant, PTL

(* A transformed trace reads the same bytes in the same order, requesting at  *)
(* most a block at a time but for the short reads it takes over, and agrees on *)
(* the total, for any accepted trace and any size of block (splitreads.go:66). *)
THEOREM SplitIsFaithful == Spec => []SplitFaithful
  <1>1. FilesInv => SplitFaithful
    <2> SUFFICES ASSUME FilesInv, phase \in {"split", "broken"} 
                 PROVE  /\ AllTouched(out.ops) = AllTouched(file.ops)
                        /\ \A i \in DOMAIN out.ops :
                             IsRead(out.ops[i]) => Full(out.ops[i], block) \/ FellShort(out.ops[i], block, file.ops)
                        /\ out.summary.total_bytes = file.summary.total_bytes
      BY DEF SplitFaithful
    <2>1. Accepted(file) /\ block \in Nat \ {0} /\ out = SplitFile(file, block)
      BY DEF FilesInv
    <2> QED BY <2>1, SplitOfAccepted
  <1> QED BY <1>1, FilesInvariant, PTL
=============================================================================
