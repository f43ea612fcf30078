---------------------------- MODULE SchedulerProofs ----------------------------
(***************************************************************************)
(* Proofs of SchedulerProps, for any set of streams, any number of          *)
(* operations and any capacity.                                             *)
(***************************************************************************)
EXTENDS SchedulerProps, DataInduction

USE StreamsAssumption, NumOpsAssumption, InflightAssumption,
    PacedAssumption, TicksAssumption

(* TypeOK with the two counters as integers: that they stay natural follows  *)
(* from what they count.                                                     *)
TypeInv ==
  /\ pc \in [Streams -> Places]
  /\ idx \in [Streams -> Nat]
  /\ sem \in Int /\ inflight \in Int /\ depth \in Int /\ peak \in Int
  /\ cur \in [Streams -> Int] /\ old \in [Streams -> Int]
  /\ opsDone \in Nat /\ bytesDone \in Nat
  /\ moved \in [Streams -> {0, 1}]
  /\ rec \in [Streams -> Points]
  /\ cancelled \in BOOLEAN
  /\ ticker \in {"idle", "loaded", "stopped"}
  /\ tickOps \in Nat
  /\ series \in Seq(Points)
  /\ main \in {"waiting", "stopping", "returned"}
  /\ out.depth \in Int /\ out.series \in Seq(Points)
  /\ mark \in [Streams -> Nat]

HoldPlaces == {"counting", "loading", "swapping", "issuing", "busy",
               "addingOps", "addingBytes", "leaving", "releasing"}
CountPlaces == HoldPlaces \ {"counting", "releasing"}

(* The two counters count what they are meant to count, so neither can go    *)
(* below zero and the second stays within the first.                         *)
TokenInv ==
  /\ sem = Cardinality(Holding)
  /\ inflight = Cardinality(Counted)
  /\ sem <= MaxInflight
  /\ \A s \in Streams : cur[s] <= MaxInflight
  /\ depth <= MaxInflight

(* The goroutine that raised the counter to its peak has not stored that     *)
(* value yet, or the depth already is the peak.                              *)
PeakInv ==
  /\ depth <= peak
  /\ \A s \in Streams : cur[s] <= peak
  /\ \/ depth = peak
     \/ \E s \in Streams : pc[s] \in {"loading", "swapping"} /\ cur[s] = peak
  /\ \A s \in Streams : pc[s] = "swapping" => old[s] < cur[s]
  /\ main = "returned" => out.depth = depth

(* How far each stream is, and when it may have left.                        *)
PlaceInv ==
  /\ \A s \in Streams :
       /\ pc[s] \notin {"head", "exited"} => idx[s] < NumOps[s]
       /\ pc[s] = "exited" => cancelled \/ idx[s] = NumOps[s]
       /\ idx[s] <= NumOps[s]
       /\ rec[s].ops = IF pc[s] \in {"addingOps", "addingBytes", "leaving", "releasing"}
                       THEN idx[s] + 1 ELSE idx[s]
  /\ main # "waiting" => \A s \in Streams : pc[s] = "exited"
  /\ main = "returned" => ticker = "stopped"
  /\ cancelled =>
       \A s \in Streams :
         /\ idx[s] <= mark[s] + 1
         /\ idx[s] = mark[s] + 1 => pc[s] \in {"head", "exited"}

(* The two totals are the sums of the recorders, less what a stream between  *)
(* its recorder and a counter has not added yet.                             *)
AddedOps   == [s \in Streams |-> rec[s].ops - (IF pc[s] = "addingOps" THEN 1 ELSE 0)]
AddedBytes == [s \in Streams |-> rec[s].bytes -
                 (IF pc[s] \in {"addingOps", "addingBytes"} THEN moved[s] ELSE 0)]

TotalsInv ==
  /\ opsDone = SumFunctionOnSet(AddedOps, Streams)
  /\ bytesDone = SumFunctionOnSet(AddedBytes, Streams)

(* The points so far rise, and both the last of them and the number the      *)
(* ticker has in hand are behind the totals, which only grow.                *)
Rising(points) ==
  \A i \in 1..(Len(points) - 1) :
    points[i].ops <= points[i + 1].ops /\ points[i].bytes <= points[i + 1].bytes

SeriesInv ==
  /\ Rising(series)
  /\ ticker = "loaded" => tickOps <= opsDone
  /\ series # <<>> =>
       /\ series[Len(series)].ops <= IF ticker = "loaded" THEN tickOps ELSE opsDone
       /\ series[Len(series)].bytes <= bytesDone

LEMMA Typing == Spec => []TypeInv
<1>1. Init => TypeInv
  <2> SUFFICES ASSUME Init PROVE TypeInv
    OBVIOUS
  <2> USE DEF Init
  <2>1. pc \in [Streams -> Places] /\ idx \in [Streams -> Nat] /\ mark \in [Streams -> Nat]
    BY DEF Places
  <2>2. /\ cur \in [Streams -> Int] /\ old \in [Streams -> Int]
        /\ moved \in [Streams -> {0, 1}]
    OBVIOUS
  <2>3. Point(0, 0) \in Points
    BY DEF Point, Points
  <2>4. rec \in [Streams -> Points]
    BY <2>3
  <2>5. series \in Seq(Points) /\ out.depth \in Int /\ out.series \in Seq(Points)
    BY DEF NoOutput
  <2>6. cancelled \in BOOLEAN
    BY Zenon
  <2> QED
    BY <2>1, <2>2, <2>4, <2>5, <2>6 DEF TypeInv
<1>2. TypeInv /\ [Next]_vars => TypeInv'
  <2> SUFFICES ASSUME TypeInv, [Next]_vars
               PROVE  TypeInv'
    OBVIOUS
  <2> USE DEF TypeInv, stream, counters, progress, history
  <2>1. ASSUME NEW s \in Streams,
               LoopHead(s) \/ Arrive(s) \/ Quit(s) \/ Block(s) \/ Issue(s)
        PROVE  TypeInv'
    BY <2>1 DEF LoopHead, Arrive, Quit, Block, Issue, Goto, Places
  <2>2. ASSUME NEW s \in Streams, Acquire(s)
        PROVE  TypeInv'
    <3>1. pc' = [pc EXCEPT ![s] = "counting"]
      BY <2>2 DEF Acquire, Goto
    <3>2. pc' \in [Streams -> Places]
      BY <3>1 DEF Places
    <3> QED
      BY <2>2, <3>2 DEF Acquire
  <2>3. ASSUME NEW s \in Streams, Leave(s)
        PROVE  TypeInv'
    BY <2>3 DEF Leave, Goto, Places
  <2>4. ASSUME NEW s \in Streams, Release(s)
        PROVE  TypeInv'
    BY <2>4 DEF Release, Goto, Places
  <2>5. ASSUME NEW s \in Streams, Count(s)
        PROVE  TypeInv'
    BY <2>5 DEF Count, Goto, Places
  <2>6. ASSUME NEW s \in Streams, LoadDepth(s)
        PROVE  TypeInv'
    BY <2>6 DEF LoadDepth, Goto, Places
  <2>7. ASSUME NEW s \in Streams, SwapDepth(s)
        PROVE  TypeInv'
    BY <2>7 DEF SwapDepth, Goto, Places
  <2>8. ASSUME NEW s \in Streams, AddOps(s)
        PROVE  TypeInv'
    BY <2>8 DEF AddOps, Goto, Places
  <2>9. ASSUME NEW s \in Streams, AddBytes(s)
        PROVE  TypeInv'
    <3>1. moved[s] \in {0, 1}
      OBVIOUS
    <3>2. bytesDone + moved[s] \in Nat
      BY <3>1
    <3> QED
      BY <2>9, <3>2 DEF AddBytes, Goto, Places
  <2>10. ASSUME NEW s \in Streams, NEW n \in {0, 1}, Complete(s, n)
         PROVE  TypeInv'
    <3>1. Point(rec[s].ops + 1, rec[s].bytes + n) \in Points
      BY DEF Point, Points
    <3>2. rec' \in [Streams -> Points]
      BY <2>10, <3>1 DEF Complete
    <3> QED
      BY <2>10, <3>2 DEF Complete, Goto, Places
  <2>11. CASE Tick \/ StopTicker \/ Wait \/ Cancel
    BY <2>11 DEF Tick, StopTicker, Wait, Cancel
  <2>12. CASE Sample
    <3>1. Point(tickOps, bytesDone) \in Points
      BY DEF Point, Points
    <3> QED
      BY <2>12, <3>1 DEF Sample
  <2>13. CASE Return
    <3>1. FinalSeries \in Seq(Points)
      <4>1. Point(opsDone, bytesDone) \in Points
        BY DEF Point, Points
      <4> QED
        BY <4>1 DEF FinalSeries
    <3> QED
      BY <2>13, <3>1 DEF Return
  <2>14. CASE UNCHANGED vars
    BY <2>14 DEF vars
  <2> QED
    BY <2>1, <2>2, <2>3, <2>4, <2>5, <2>6, <2>7, <2>8, <2>9, <2>10, <2>11,
       <2>12, <2>13, <2>14 DEF Next, Step, Terminated
<1> QED
  BY <1>1, <1>2, PTL DEF Spec

-----------------------------------------------------------------------------
(* A move of one goroutine changes the two sets by that stream at most.      *)
LEMMA Moves ==
  ASSUME TypeInv, NEW s \in Streams, NEW to \in Places,
         pc' = [pc EXCEPT ![s] = to]
  PROVE  /\ to \in HoldPlaces => Holding' = Holding \cup {s}
         /\ to \notin HoldPlaces => Holding' = Holding \ {s}
         /\ to \in CountPlaces => Counted' = Counted \cup {s}
         /\ to \notin CountPlaces => Counted' = Counted \ {s}
BY DEF TypeInv, Holding, Counted, HoldPlaces, CountPlaces, Places

LEMMA HeldFinite == IsFiniteSet(Holding) /\ IsFiniteSet(Counted)
BY FS_Subset DEF Holding, Counted

(* Steps that take and give no token.                                        *)
LEMMA SameTokens ==
  ASSUME TypeInv, TokenInv, NEW s \in Streams, NEW from \in Places, NEW to \in Places,
         pc[s] = from, pc' = [pc EXCEPT ![s] = to],
         from \in HoldPlaces <=> to \in HoldPlaces,
         from \in CountPlaces <=> to \in CountPlaces,
         UNCHANGED <<sem, inflight>>,
         depth' = depth \/ depth' = cur[s], cur' = cur
  PROVE  TokenInv'
<1>1. s \in Holding <=> from \in HoldPlaces
  BY DEF Holding, HoldPlaces, Places
<1>2. s \in Counted <=> from \in CountPlaces
  BY DEF Holding, Counted, HoldPlaces, CountPlaces, Places
<1>3. /\ to \in HoldPlaces => Holding' = Holding \cup {s}
      /\ to \notin HoldPlaces => Holding' = Holding \ {s}
      /\ to \in CountPlaces => Counted' = Counted \cup {s}
      /\ to \notin CountPlaces => Counted' = Counted \ {s}
  BY Moves
<1>4. Holding' = Holding
  BY <1>1, <1>3
<1>5. Counted' = Counted
  BY <1>2, <1>3
<1> QED
  BY <1>4, <1>5 DEF TokenInv

LEMMA Tokens == Spec => []TokenInv
<1>1. Init => TokenInv
  <2> SUFFICES ASSUME Init PROVE TokenInv
    OBVIOUS
  <2>1. Holding = {} /\ Counted = {}
    BY DEF Init, Holding, Counted
  <2> QED
    BY <2>1, FS_EmptySet DEF Init, TokenInv
<1>2. TypeInv /\ TokenInv /\ [Next]_vars => TokenInv'
  <2> SUFFICES ASSUME TypeInv, TokenInv, [Next]_vars
               PROVE  TokenInv'
    OBVIOUS
  <2> USE DEF stream, counters, progress, history
  <2>1. ASSUME NEW s \in Streams,
               LoopHead(s) \/ Arrive(s) \/ Quit(s) \/ Block(s) \/ Issue(s)
        PROVE  TokenInv'
    <3>1. UNCHANGED <<sem, inflight, depth, cur>>
      BY <2>1 DEF LoopHead, Arrive, Quit, Block, Issue
    <3>2. PICK from \in Places, to \in Places :
            /\ pc[s] = from /\ pc' = [pc EXCEPT ![s] = to]
            /\ from \in HoldPlaces <=> to \in HoldPlaces
            /\ from \in CountPlaces <=> to \in CountPlaces
      BY <2>1 DEF LoopHead, Arrive, Quit, Block, Issue, Goto, Places, HoldPlaces, CountPlaces
    <3> QED
      BY <3>1, <3>2, SameTokens
  <2>2. ASSUME NEW s \in Streams, Acquire(s)
        PROVE  TokenInv'
    <3>1. /\ pc' = [pc EXCEPT ![s] = "counting"]
          /\ pc[s] \in {"acquiring", "blocked"}
          /\ sem < MaxInflight /\ sem' = sem + 1
          /\ UNCHANGED <<inflight, depth, cur>>
      BY <2>2 DEF Acquire, Goto
    <3>2. s \notin Holding /\ s \notin Counted
      BY <3>1 DEF Holding, Counted
    <3>3. Holding' = Holding \cup {s} /\ Counted' = Counted
      <4>1. "counting" \in Places /\ "counting" \in HoldPlaces /\ "counting" \notin CountPlaces
        BY DEF Places, HoldPlaces, CountPlaces
      <4>2. Holding' = Holding \cup {s} /\ Counted' = Counted \ {s}
        BY <3>1, <4>1, Moves
      <4> QED
        BY <3>2, <4>2
    <3>4. Cardinality(Holding') = Cardinality(Holding) + 1
      BY <3>2, <3>3, HeldFinite, FS_AddElement
    <3> QED
      BY <3>1, <3>3, <3>4 DEF TokenInv, TypeInv
  <2>3. ASSUME NEW s \in Streams, Leave(s)
        PROVE  TokenInv'
    <3>1. /\ pc' = [pc EXCEPT ![s] = "releasing"] /\ pc[s] = "leaving"
          /\ inflight' = inflight - 1
          /\ UNCHANGED <<sem, depth, cur>>
      BY <2>3 DEF Leave, Goto
    <3>2. s \in Holding /\ s \in Counted
      BY <3>1 DEF Holding, Counted
    <3>3. Holding' = Holding /\ Counted' = Counted \ {s}
      <4>1. "releasing" \in Places /\ "releasing" \in HoldPlaces /\ "releasing" \notin CountPlaces
        BY DEF Places, HoldPlaces, CountPlaces
      <4>2. Holding' = Holding \cup {s} /\ Counted' = Counted \ {s}
        BY <3>1, <4>1, Moves
      <4> QED
        BY <3>2, <4>2
    <3>4. Cardinality(Counted') = Cardinality(Counted) - 1
      BY <3>2, <3>3, HeldFinite, FS_RemoveElement
    <3> QED
      BY <3>1, <3>3, <3>4 DEF TokenInv, TypeInv
  <2>4. ASSUME NEW s \in Streams, Release(s)
        PROVE  TokenInv'
    <3>1. /\ pc' = [pc EXCEPT ![s] = "head"] /\ pc[s] = "releasing"
          /\ sem' = sem - 1
          /\ UNCHANGED <<inflight, depth, cur>>
      BY <2>4 DEF Release, Goto
    <3>2. s \in Holding /\ s \notin Counted
      BY <3>1 DEF Holding, Counted
    <3>3. Holding' = Holding \ {s} /\ Counted' = Counted
      <4>1. "head" \in Places /\ "head" \notin HoldPlaces /\ "head" \notin CountPlaces
        BY DEF Places, HoldPlaces, CountPlaces
      <4>2. Holding' = Holding \ {s} /\ Counted' = Counted \ {s}
        BY <3>1, <4>1, Moves
      <4> QED
        BY <3>2, <4>2
    <3>4. Cardinality(Holding') = Cardinality(Holding) - 1
      BY <3>2, <3>3, HeldFinite, FS_RemoveElement
    <3> QED
      BY <3>1, <3>3, <3>4 DEF TokenInv, TypeInv
  <2>5. ASSUME NEW s \in Streams, Count(s)
        PROVE  TokenInv'
    <3>1. /\ pc' = [pc EXCEPT ![s] = "loading"] /\ pc[s] = "counting"
          /\ inflight' = inflight + 1
          /\ cur' = [cur EXCEPT ![s] = inflight + 1]
          /\ UNCHANGED <<sem, depth>>
      BY <2>5 DEF Count, Goto
    <3>2. s \in Holding /\ s \notin Counted
      BY <3>1 DEF Holding, Counted
    <3>3. Holding' = Holding /\ Counted' = Counted \cup {s}
      <4>1. "loading" \in Places /\ "loading" \in HoldPlaces /\ "loading" \in CountPlaces
        BY DEF Places, HoldPlaces, CountPlaces
      <4>2. Holding' = Holding \cup {s} /\ Counted' = Counted \cup {s}
        BY <3>1, <4>1, Moves
      <4> QED
        BY <3>2, <4>2
    <3>4. Cardinality(Counted') = Cardinality(Counted) + 1
      BY <3>2, <3>3, HeldFinite, FS_AddElement
    <3>5. Cardinality(Counted') <= Cardinality(Holding')
      <4>1. Counted' \subseteq Holding' /\ IsFiniteSet(Holding')
        BY FS_Subset DEF Holding, Counted
      <4> QED
        BY <4>1, FS_Subset
    <3>6. inflight + 1 <= MaxInflight
      BY <3>3, <3>4, <3>5 DEF TokenInv, TypeInv
    <3> QED
      BY <3>1, <3>3, <3>4, <3>6 DEF TokenInv, TypeInv
  <2>6. ASSUME NEW s \in Streams,
               LoadDepth(s) \/ SwapDepth(s) \/ (\E n \in {0, 1} : Complete(s, n))
                 \/ AddOps(s) \/ AddBytes(s)
        PROVE  TokenInv'
    <3>1. UNCHANGED <<sem, inflight, cur>> /\ (depth' = depth \/ depth' = cur[s])
      BY <2>6 DEF LoadDepth, SwapDepth, Complete, AddOps, AddBytes
    <3>2. PICK from \in Places, to \in Places :
            /\ pc[s] = from /\ pc' = [pc EXCEPT ![s] = to]
            /\ from \in CountPlaces /\ to \in CountPlaces
      BY <2>6 DEF LoadDepth, SwapDepth, Complete, AddOps, AddBytes, Goto,
                  Places, HoldPlaces, CountPlaces
    <3>3. from \in HoldPlaces /\ to \in HoldPlaces
      BY <3>2 DEF CountPlaces
    <3> QED
      BY <3>1, <3>2, <3>3, SameTokens
  <2>7. CASE Tick \/ Sample \/ StopTicker \/ Wait \/ Return \/ Cancel \/ UNCHANGED vars
    <3>1. UNCHANGED <<pc, sem, inflight, depth, cur>>
      BY <2>7 DEF Tick, Sample, StopTicker, Wait, Return, Cancel, vars
    <3> QED
      BY <3>1 DEF TokenInv, Holding, Counted
  <2> QED
    BY <2>1, <2>2, <2>3, <2>4, <2>5, <2>6, <2>7 DEF Next, Step, Terminated
<1> QED
  BY <1>1, <1>2, Typing, PTL DEF Spec

-----------------------------------------------------------------------------
LEMMA Placing == Spec => []PlaceInv
<1>1. Init => PlaceInv
  BY DEF Init, PlaceInv, Point
<1>2. TypeInv /\ PlaceInv /\ [Next]_vars => PlaceInv'
  <2> SUFFICES ASSUME TypeInv, PlaceInv, [Next]_vars
               PROVE  PlaceInv'
    OBVIOUS
  <2> USE DEF TypeInv, stream, counters, progress, history
  <2>1. ASSUME NEW s \in Streams, LoopHead(s)
        PROVE  PlaceInv'
    BY <2>1 DEF LoopHead, Goto, PlaceInv
  <2>2. ASSUME NEW s \in Streams, Arrive(s) \/ Block(s) \/ Count(s) \/ LoadDepth(s)
                                    \/ SwapDepth(s) \/ Issue(s)
        PROVE  PlaceInv'
    <3>1. UNCHANGED <<idx, rec, cancelled, main, ticker, mark>>
      BY <2>2 DEF Arrive, Block, Count, LoadDepth, SwapDepth, Issue
    <3>2. PICK to \in {"acquiring", "blocked", "loading", "swapping", "issuing", "busy"} :
            pc' = [pc EXCEPT ![s] = to]
      BY <2>2 DEF Arrive, Block, Count, LoadDepth, SwapDepth, Issue, Goto
    <3>3. pc[s] \in {"pacing", "acquiring", "counting", "loading", "swapping", "issuing"}
      BY <2>2 DEF Arrive, Block, Count, LoadDepth, SwapDepth, Issue, Goto
    <3> QED
      BY <3>1, <3>2, <3>3 DEF PlaceInv
  <2>3. ASSUME NEW s \in Streams, Quit(s)
        PROVE  PlaceInv'
    BY <2>3 DEF Quit, Goto, PlaceInv
  <2>4. ASSUME NEW s \in Streams, Acquire(s)
        PROVE  PlaceInv'
    BY <2>4 DEF Acquire, Goto, PlaceInv
  <2>5. ASSUME NEW s \in Streams, NEW n \in {0, 1}, Complete(s, n)
        PROVE  PlaceInv'
    BY <2>5 DEF Complete, Goto, Point, Points, PlaceInv
  <2>6. ASSUME NEW s \in Streams, AddOps(s) \/ AddBytes(s) \/ Leave(s)
        PROVE  PlaceInv'
    <3>1. UNCHANGED <<idx, rec, cancelled, main, ticker, mark>>
      BY <2>6 DEF AddOps, AddBytes, Leave
    <3>2. PICK to \in {"addingBytes", "leaving", "releasing"} : pc' = [pc EXCEPT ![s] = to]
      BY <2>6 DEF AddOps, AddBytes, Leave, Goto
    <3>3. pc[s] \in {"addingOps", "addingBytes", "leaving"}
      BY <2>6 DEF AddOps, AddBytes, Leave, Goto
    <3> QED
      BY <3>1, <3>2, <3>3 DEF PlaceInv
  <2>7. ASSUME NEW s \in Streams, Release(s)
        PROVE  PlaceInv'
    BY <2>7, SMTT(30) DEF Release, Goto, PlaceInv
  <2>8. CASE Tick \/ Sample \/ StopTicker
    <3>1. UNCHANGED <<pc, idx, rec, cancelled, main, mark>>
      BY <2>8 DEF Tick, Sample, StopTicker
    <3>2. ticker = "stopped" => ticker' = "stopped"
      BY <2>8 DEF Tick, Sample, StopTicker
    <3> QED
      BY <3>1, <3>2 DEF PlaceInv
  <2>9. CASE Wait
    BY <2>9 DEF Wait, PlaceInv
  <2>10. CASE Return
    BY <2>10 DEF Return, PlaceInv
  <2>11. CASE Cancel
    BY <2>11 DEF Cancel, PlaceInv
  <2>12. CASE UNCHANGED vars
    BY <2>12 DEF vars, PlaceInv
  <2> QED
    BY <2>1, <2>2, <2>3, <2>4, <2>5, <2>6, <2>7, <2>8, <2>9, <2>10, <2>11, <2>12
       DEF Next, Step, Terminated
<1> QED
  BY <1>1, <1>2, Typing, PTL DEF Spec

LEMMA Peaking == Spec => []PeakInv
<1>1. Init => PeakInv
  BY DEF Init, PeakInv
<1>2. TypeInv /\ PlaceInv /\ PeakInv /\ [Next]_vars => PeakInv'
  <2> SUFFICES ASSUME TypeInv, PlaceInv, PeakInv, [Next]_vars
               PROVE  PeakInv'
    OBVIOUS
  <2> USE DEF TypeInv, stream, counters, progress, history
  <2>1. ASSUME NEW s \in Streams, pc[s] \notin {"loading", "swapping"},
               UNCHANGED <<depth, peak, cur, old, out, main>>,
               NEW to \in Places \ {"swapping"}, pc' = [pc EXCEPT ![s] = to]
        PROVE  PeakInv'
    BY <2>1 DEF PeakInv
  <2>2. ASSUME NEW s \in Streams,
               LoopHead(s) \/ Arrive(s) \/ Quit(s) \/ Block(s) \/ Acquire(s)
                 \/ Issue(s) \/ (\E n \in {0, 1} : Complete(s, n))
                 \/ AddOps(s) \/ AddBytes(s) \/ Leave(s) \/ Release(s)
        PROVE  PeakInv'
    <3>1. UNCHANGED <<depth, peak, cur, old, out, main>>
      BY <2>2 DEF LoopHead, Arrive, Quit, Block, Acquire, Issue, Complete, AddOps,
                  AddBytes, Leave, Release
    <3>2. pc[s] \notin {"loading", "swapping"}
      BY <2>2 DEF LoopHead, Arrive, Quit, Block, Acquire, Issue, Complete, AddOps,
                  AddBytes, Leave, Release, Goto
    <3>3. PICK to \in Places \ {"swapping"} : pc' = [pc EXCEPT ![s] = to]
      BY <2>2 DEF LoopHead, Arrive, Quit, Block, Acquire, Issue, Complete, AddOps,
                  AddBytes, Leave, Release, Goto, Places
    <3> QED
      BY <2>1, <3>1, <3>2, <3>3
  <2>3. ASSUME NEW s \in Streams, Count(s)
        PROVE  PeakInv'
    <3>1. /\ pc[s] = "counting" /\ pc' = [pc EXCEPT ![s] = "loading"]
          /\ cur' = [cur EXCEPT ![s] = inflight + 1]
          /\ peak' = IF inflight + 1 > peak THEN inflight + 1 ELSE peak
          /\ UNCHANGED <<depth, old, out, main>>
      BY <2>3 DEF Count, Goto
    <3>2. CASE inflight + 1 > peak
      <4>1. cur'[s] = peak' /\ pc'[s] = "loading"
        BY <3>1, <3>2
      <4>2. depth' <= peak' /\ (\A t \in Streams : cur'[t] <= peak')
        BY <3>1, <3>2 DEF PeakInv
      <4>3. \A t \in Streams : pc'[t] = "swapping" => old'[t] < cur'[t]
        BY <3>1 DEF PeakInv
      <4>4. main' = "returned" => out'.depth = depth'
        BY <3>1 DEF PeakInv
      <4> QED
        BY <4>1, <4>2, <4>3, <4>4 DEF PeakInv
    <3>3. CASE ~(inflight + 1 > peak)
      BY <3>1, <3>3 DEF PeakInv
    <3> QED
      BY <3>2, <3>3
  <2>4. ASSUME NEW s \in Streams, LoadDepth(s)
        PROVE  PeakInv'
    BY <2>4, SMTT(30) DEF LoadDepth, Goto, PeakInv
  <2>5. ASSUME NEW s \in Streams, SwapDepth(s)
        PROVE  PeakInv'
    <3>1. /\ pc[s] = "swapping" /\ old[s] < cur[s] /\ main = "waiting"
          /\ UNCHANGED <<peak, cur, old, out, main>>
      BY <2>5 DEF SwapDepth, Goto, PeakInv, PlaceInv
    <3>2. CASE depth = old[s]
      BY <2>5, <3>1, <3>2 DEF SwapDepth, Goto, PeakInv
    <3>3. CASE depth # old[s]
      BY <2>5, <3>1, <3>3 DEF SwapDepth, Goto, PeakInv
    <3> QED
      BY <3>2, <3>3
  <2>6. CASE Return
    BY <2>6 DEF Return, PeakInv
  <2>7. CASE Tick \/ Sample \/ StopTicker \/ Wait \/ Cancel \/ UNCHANGED vars
    BY <2>7 DEF Tick, Sample, StopTicker, Wait, Cancel, vars, PeakInv
  <2> QED
    BY <2>2, <2>3, <2>4, <2>5, <2>6, <2>7 DEF Next, Step, Terminated
<1> QED
  BY <1>1, <1>2, Typing, Placing, PTL DEF Spec

-----------------------------------------------------------------------------
LEMMA Totalling == Spec => []TotalsInv
<1>1. Init => TotalsInv
  <2> SUFFICES ASSUME Init PROVE TotalsInv
    OBVIOUS
  <2>1. AddedOps = [s \in Streams |-> 0]
    BY DEF Init, AddedOps, Point
  <2>2. AddedBytes = [s \in Streams |-> 0]
    BY DEF Init, AddedBytes, Point
  <2> QED
    BY <2>1, <2>2, SumOfZeros DEF Init, TotalsInv
<1>2. TypeInv /\ TotalsInv /\ [Next]_vars => TotalsInv'
  <2> SUFFICES ASSUME TypeInv, TotalsInv, [Next]_vars
               PROVE  TotalsInv'
    OBVIOUS
  <2>1. AddedOps \in [Streams -> Int] /\ AddedBytes \in [Streams -> Int]
    <3>1. \A s \in Streams : rec[s].ops \in Int /\ rec[s].bytes \in Int /\ moved[s] \in Int
      BY DEF TypeInv, Points
    <3> QED
      BY <3>1 DEF AddedOps, AddedBytes
  <2>2. ASSUME UNCHANGED <<opsDone, bytesDone>>, AddedOps' = AddedOps, AddedBytes' = AddedBytes
        PROVE  TotalsInv'
    BY <2>2 DEF TotalsInv
  <2> USE DEF stream, counters, progress, history
  <2>3. ASSUME NEW s \in Streams,
               \/ LoopHead(s) \/ Arrive(s) \/ Quit(s) \/ Block(s) \/ Acquire(s)
               \/ Count(s) \/ LoadDepth(s) \/ SwapDepth(s) \/ Issue(s)
               \/ Leave(s) \/ Release(s)
        PROVE  TotalsInv'
    <3>1. UNCHANGED <<rec, moved, opsDone, bytesDone>>
      BY <2>3 DEF LoopHead, Arrive, Quit, Block, Acquire, Count, LoadDepth, SwapDepth,
                  Issue, Leave, Release
    <3>2. pc[s] \notin {"addingOps", "addingBytes"}
      BY <2>3 DEF LoopHead, Arrive, Quit, Block, Acquire, Count, LoadDepth, SwapDepth,
                  Issue, Leave, Release, Goto
    <3>3. PICK to \in Places \ {"addingOps", "addingBytes"} : pc' = [pc EXCEPT ![s] = to]
      BY <2>3 DEF LoopHead, Arrive, Quit, Block, Acquire, Count, LoadDepth, SwapDepth,
                  Issue, Leave, Release, Goto, Places
    <3>4. AddedOps' = AddedOps /\ AddedBytes' = AddedBytes
      BY <3>1, <3>2, <3>3 DEF AddedOps, AddedBytes, TypeInv
    <3> QED
      BY <2>2, <3>1, <3>4
  <2>4. ASSUME NEW s \in Streams, NEW n \in {0, 1}, Complete(s, n)
        PROVE  TotalsInv'
    <3>1. /\ pc[s] = "busy" /\ pc' = [pc EXCEPT ![s] = "addingOps"]
          /\ moved' = [moved EXCEPT ![s] = n]
          /\ rec' = [rec EXCEPT ![s] = Point(@.ops + 1, @.bytes + n)]
          /\ UNCHANGED <<opsDone, bytesDone>>
      BY <2>4 DEF Complete, Goto
    <3>2. /\ rec'[s].ops = rec[s].ops + 1 /\ rec'[s].bytes = rec[s].bytes + n
          /\ rec[s].ops \in Int /\ rec[s].bytes \in Int
          /\ pc'[s] = "addingOps" /\ moved'[s] = n
      BY <3>1 DEF TypeInv, Point, Points
    <3>3. \A t \in Streams : t # s => rec'[t] = rec[t] /\ pc'[t] = pc[t] /\ moved'[t] = moved[t]
      BY <3>1 DEF TypeInv
    <3>4. \A t \in Streams : AddedOps'[t] = AddedOps[t] /\ AddedBytes'[t] = AddedBytes[t]
      BY <3>1, <3>2, <3>3 DEF AddedOps, AddedBytes
    <3>5. AddedOps' = AddedOps /\ AddedBytes' = AddedBytes
      BY <3>4 DEF AddedOps, AddedBytes
    <3> QED
      BY <2>2, <3>1, <3>5
  <2>5. ASSUME NEW s \in Streams, AddOps(s)
        PROVE  TotalsInv'
    <3>1. /\ pc[s] = "addingOps" /\ pc' = [pc EXCEPT ![s] = "addingBytes"]
          /\ opsDone' = opsDone + 1 /\ UNCHANGED <<rec, moved, bytesDone>>
      BY <2>5 DEF AddOps, Goto
    <3>2. AddedBytes' = AddedBytes
      BY <3>1 DEF AddedBytes, TypeInv
    <3>3. /\ AddedOps'[s] = AddedOps[s] + 1
          /\ \A t \in Streams : t # s => AddedOps'[t] = AddedOps[t]
      <4>1. rec[s].ops \in Int /\ pc'[s] = "addingBytes"
        BY <3>1 DEF TypeInv, Points
      <4>2. \A t \in Streams : t # s => pc'[t] = pc[t]
        BY <3>1 DEF TypeInv
      <4> QED
        BY <3>1, <4>1, <4>2 DEF AddedOps
    <3>5. AddedOps' \in [Streams -> Int]
      <4>1. \A t \in Streams : AddedOps'[t] \in Int
        BY <2>1, <3>3
      <4> QED
        BY <4>1 DEF AddedOps
    <3>4. SumFunctionOnSet(AddedOps', Streams) = SumFunctionOnSet(AddedOps, Streams) + 1
      BY <2>1, <3>3, <3>5, SumChanges
    <3> QED
      BY <3>1, <3>2, <3>4 DEF TotalsInv
  <2>6. ASSUME NEW s \in Streams, AddBytes(s)
        PROVE  TotalsInv'
    <3>1. /\ pc[s] = "addingBytes" /\ pc' = [pc EXCEPT ![s] = "leaving"]
          /\ bytesDone' = bytesDone + moved[s] /\ UNCHANGED <<rec, moved, opsDone>>
      BY <2>6 DEF AddBytes, Goto
    <3>2. AddedOps' = AddedOps
      BY <3>1 DEF AddedOps, TypeInv
    <3>3. /\ moved[s] \in Int
          /\ AddedBytes'[s] = AddedBytes[s] + moved[s]
          /\ \A t \in Streams : t # s => AddedBytes'[t] = AddedBytes[t]
      <4>1. moved[s] \in {0, 1} /\ rec[s].bytes \in Int /\ pc'[s] = "leaving"
        BY <3>1 DEF TypeInv, Points
      <4>2. \A t \in Streams : t # s => pc'[t] = pc[t]
        BY <3>1 DEF TypeInv
      <4> QED
        BY <3>1, <4>1, <4>2 DEF AddedBytes
    <3>5. AddedBytes' \in [Streams -> Int]
      <4>1. \A t \in Streams : AddedBytes'[t] \in Int
        BY <2>1, <3>3
      <4> QED
        BY <4>1 DEF AddedBytes
    <3>4. SumFunctionOnSet(AddedBytes', Streams) = SumFunctionOnSet(AddedBytes, Streams) + moved[s]
      BY <2>1, <3>3, <3>5, SumChanges
    <3> QED
      BY <3>1, <3>2, <3>4 DEF TotalsInv
  <2>7. CASE Tick \/ Sample \/ StopTicker \/ Wait \/ Return \/ Cancel \/ UNCHANGED vars
    <3>1. UNCHANGED <<pc, rec, moved, opsDone, bytesDone>>
      BY <2>7 DEF Tick, Sample, StopTicker, Wait, Return, Cancel, vars
    <3> QED
      BY <2>2, <3>1 DEF AddedOps, AddedBytes
  <2> QED
    BY <2>3, <2>4, <2>5, <2>6, <2>7 DEF Next, Step, Terminated
<1> QED
  BY <1>1, <1>2, Typing, PTL DEF Spec

(* A point that is behind neither of the last point's counts goes on rising. *)
LEMMA Rises ==
  ASSUME NEW q \in Seq(Points), Rising(q), NEW p \in Points,
         q # <<>> => q[Len(q)].ops <= p.ops /\ q[Len(q)].bytes <= p.bytes
  PROVE  Rising(Append(q, p))
<1> SUFFICES ASSUME NEW i \in 1..Len(q)
             PROVE  /\ Append(q, p)[i].ops <= Append(q, p)[i + 1].ops
                    /\ Append(q, p)[i].bytes <= Append(q, p)[i + 1].bytes
  BY DEF Rising
<1>1. Append(q, p)[i] = q[i]
  OBVIOUS
<1>2. CASE i = Len(q)
  BY <1>1, <1>2
<1>3. CASE i < Len(q)
  <2>1. Append(q, p)[i + 1] = q[i + 1] /\ i \in 1..(Len(q) - 1)
    BY <1>3
  <2> QED
    BY <1>1, <2>1 DEF Rising
<1> QED
  BY <1>2, <1>3

LEMMA Sampling == Spec => []SeriesInv
<1>1. Init => SeriesInv
  BY DEF Init, SeriesInv, Rising
<1>2. TypeInv /\ SeriesInv /\ [Next]_vars => SeriesInv'
  <2> SUFFICES ASSUME TypeInv, SeriesInv, [Next]_vars
               PROVE  SeriesInv'
    OBVIOUS
  <2>1. series # <<>> => series[Len(series)] \in Points
    BY DEF TypeInv
  <2> USE DEF stream, counters, progress, history
  <2>2. ASSUME UNCHANGED <<ticker, tickOps, series>>, opsDone' \in Nat, bytesDone' \in Nat,
               opsDone' >= opsDone, bytesDone' >= bytesDone
        PROVE  SeriesInv'
    <3>1. opsDone \in Nat /\ bytesDone \in Nat /\ tickOps \in Nat
      BY DEF TypeInv
    <3>2. ticker' = "loaded" => tickOps' <= opsDone'
      BY <2>2, <3>1 DEF SeriesInv
    <3>3. ASSUME series # <<>>
          PROVE  /\ series[Len(series)].ops <= IF ticker = "loaded" THEN tickOps ELSE opsDone'
                 /\ series[Len(series)].bytes <= bytesDone'
      <4>1. series[Len(series)].ops \in Nat /\ series[Len(series)].bytes \in Nat
        BY <2>1, <3>3 DEF Points
      <4> QED
        BY <2>2, <3>1, <3>3, <4>1 DEF SeriesInv
    <3> QED
      BY <2>2, <3>2, <3>3 DEF SeriesInv
  <2>3. ASSUME NEW s \in Streams, Step(s)
        PROVE  SeriesInv'
    <3>1. opsDone \in Nat /\ bytesDone \in Nat /\ moved[s] \in {0, 1}
      BY DEF TypeInv
    <3>2. /\ UNCHANGED <<ticker, tickOps, series>>
          /\ opsDone' \in {opsDone, opsDone + 1}
          /\ bytesDone' \in {bytesDone, bytesDone + moved[s]}
      BY <2>3 DEF Step, LoopHead, Arrive, Quit, Block, Acquire, Count, LoadDepth, SwapDepth,
                  Issue, Complete, AddOps, AddBytes, Leave, Release
    <3>3. /\ opsDone' \in Nat /\ opsDone' >= opsDone
          /\ bytesDone' \in Nat /\ bytesDone' >= bytesDone
      BY <3>1, <3>2
    <3> QED
      BY <2>2, <3>2, <3>3
  <2>4. CASE Tick
    BY <2>1, <2>4 DEF Tick, SeriesInv, TypeInv
  <2>5. CASE Sample
    <3>1. Point(tickOps, bytesDone) \in Points
      BY DEF Point, Points, TypeInv
    <3>2. /\ ticker = "loaded" /\ ticker' = "idle"
          /\ series' = Append(series, Point(tickOps, bytesDone))
          /\ UNCHANGED <<opsDone, bytesDone>>
      BY <2>5 DEF Sample
    <3>3. Rising(series')
      BY <3>1, <3>2, Rises DEF SeriesInv, Point, TypeInv
    <3>4. series'[Len(series')] = Point(tickOps, bytesDone)
      BY <3>1, <3>2 DEF TypeInv
    <3> QED
      BY <3>2, <3>3, <3>4 DEF SeriesInv, Point, TypeInv
  <2>6. CASE StopTicker \/ Wait \/ Return \/ Cancel \/ UNCHANGED vars
    <3>1. /\ UNCHANGED <<tickOps, series, opsDone, bytesDone>>
          /\ ticker' = "loaded" <=> ticker = "loaded"
      BY <2>6 DEF StopTicker, Wait, Return, Cancel, vars
    <3> QED
      BY <3>1 DEF SeriesInv
  <2> QED
    BY <2>3, <2>4, <2>5, <2>6 DEF Next, Terminated
<1> QED
  BY <1>1, <1>2, Typing, PTL DEF Spec

-----------------------------------------------------------------------------
(* Every variable keeps its type; in particular neither the semaphore nor    *)
(* the in-flight counter is given back more often than taken                 *)
(* (scheduler.go:276-278).                                                   *)
THEOREM TypeCorrect == Spec => []TypeOK
<1>1. TypeInv /\ TokenInv /\ PeakInv => TypeOK
  <2> SUFFICES ASSUME TypeInv, TokenInv, PeakInv
               PROVE  TypeOK
    OBVIOUS
  <2>1. sem \in Nat /\ inflight \in Nat
    BY HeldFinite, FS_CardinalityType DEF TokenInv
  <2> QED
    BY <2>1 DEF TypeInv, TypeOK
<1> QED
  BY <1>1, Typing, Tokens, Peaking, PTL

(* At most MaxInflight operations are in the engine at once, and the depth   *)
(* reported never exceeds that (scheduler.go:26).                            *)
LEMMA BusyBelowCap ==
  ASSUME TypeInv, TokenInv
  PROVE  /\ IsFiniteSet({s \in Streams : pc[s] = "busy"})
         /\ Cardinality({s \in Streams : pc[s] = "busy"}) <= Cardinality(Counted)
         /\ Cardinality(Counted) <= MaxInflight
         /\ Cardinality({s \in Streams : pc[s] = "busy"}) \in Nat
         /\ Cardinality(Counted) \in Nat
<1>1. {s \in Streams : pc[s] = "busy"} \subseteq Counted
  BY DEF Holding, Counted
<1>2. Counted \subseteq Holding
  BY DEF Counted
<1>3. /\ IsFiniteSet({s \in Streams : pc[s] = "busy"})
      /\ Cardinality({s \in Streams : pc[s] = "busy"}) <= Cardinality(Counted)
  BY <1>1, HeldFinite, FS_Subset
<1>4. Cardinality(Counted) <= Cardinality(Holding)
  BY <1>2, HeldFinite, FS_Subset
<1>5. Cardinality(Counted) \in Nat /\ Cardinality(Holding) \in Nat
  BY HeldFinite, FS_CardinalityType
<1>6. Cardinality({s \in Streams : pc[s] = "busy"}) \in Nat
  BY <1>3, FS_CardinalityType
<1>7. Cardinality(Holding) <= MaxInflight
  BY DEF TokenInv
<1> QED
  BY <1>3, <1>4, <1>5, <1>6, <1>7

THEOREM Cap == Spec => []CapRespected
<1>1. TypeInv /\ TokenInv => CapRespected
  BY BusyBelowCap DEF TokenInv, CapRespected
<1> QED
  BY <1>1, Typing, Tokens, PTL

(* The compare-and-swap loop loses no maximum (scheduler.go:222-230).        *)
THEOREM DepthExact == Spec => []DepthIsPeak
<1>1. PlaceInv /\ PeakInv => DepthIsPeak
  BY DEF PlaceInv, PeakInv, DepthIsPeak
<1> QED
  BY <1>1, Placing, Peaking, PTL

(* What is reported as depth is exact and within the cap.                    *)
THEOREM Depth == Spec => []DepthWithinCap
<1>1. CapRespected /\ DepthIsPeak => DepthWithinCap
  BY DEF DepthWithinCap
<1> QED
  BY <1>1, Cap, DepthExact, PTL

(* A cancelled run takes at most one more operation from each stream         *)
(* (scheduler.go:178).                                                       *)
THEOREM CancelBound == Spec => []CancelStopsStreams
<1>1. PlaceInv => CancelStopsStreams
  BY DEF PlaceInv, CancelStopsStreams
<1> QED
  BY <1>1, Placing, PTL

(* When runStreams returns nothing of it still runs (scheduler.go:326).      *)
THEOREM Teardown == Spec => []CleanTeardown
<1>1. PlaceInv /\ TokenInv => CleanTeardown
  <2> SUFFICES ASSUME PlaceInv, TokenInv, main = "returned"
               PROVE  CleanTeardown
    BY DEF CleanTeardown
  <2>1. /\ \A s \in Streams : pc[s] = "exited"
        /\ ticker = "stopped"
    BY DEF PlaceInv
  <2>2. Holding = {} /\ Counted = {}
    BY <2>1 DEF Holding, Counted
  <2> QED
    BY <2>1, <2>2, FS_EmptySet DEF TokenInv, CleanTeardown
<1> QED
  BY <1>1, Placing, Tokens, PTL

(* Both: a cancelled run drains, and any run cleans up (scheduler.go:178,     *)
(* :326).                                                                    *)
THEOREM CleanEnds == Spec => []CleanEnd
<1>1. CancelStopsStreams /\ CleanTeardown => CleanEnd
  BY DEF CleanEnd
<1> QED
  BY <1>1, CancelBound, Teardown, PTL

(* The progress series rises and ends exactly in the totals of the merged    *)
(* recorders, for which it takes more than the counters it is sampled from:  *)
(* every stream has added to both of them what it recorded (scheduler.go:332).*)
THEOREM SeriesIsExact == Spec => []SeriesEndsInTotals
<1>1. Init => SeriesEndsInTotals
  BY DEF Init, SeriesEndsInTotals
<1>2. TypeInv /\ PlaceInv /\ TotalsInv /\ SeriesInv /\ SeriesEndsInTotals /\ [Next]_vars => SeriesEndsInTotals'
  <2> SUFFICES ASSUME TypeInv, PlaceInv, TotalsInv, SeriesInv, SeriesEndsInTotals, [Next]_vars
               PROVE  SeriesEndsInTotals'
    OBVIOUS
  <2>1. CASE main' # "returned"
    BY <2>1 DEF SeriesEndsInTotals
  <2>2. CASE UNCHANGED <<main, out>>
    BY <2>2 DEF SeriesEndsInTotals
  <2>3. CASE Return
    <3>1. /\ \A s \in Streams : pc[s] = "exited"
          /\ ticker = "stopped"
          /\ out' = [total |-> Merged, depth |-> depth, series |-> FinalSeries]
      BY <2>3 DEF Return, PlaceInv
    <3> DEFINE end == Point(opsDone, bytesDone)
    <3>2. Merged = end
      <4>1. /\ AddedOps = [s \in Streams |-> rec[s].ops]
            /\ AddedBytes = [s \in Streams |-> rec[s].bytes]
        BY <3>1 DEF AddedOps, AddedBytes, TypeInv, Points
      <4>2. /\ SumFunction([s \in Streams |-> rec[s].ops]) = opsDone
            /\ SumFunction([s \in Streams |-> rec[s].bytes]) = bytesDone
        BY <4>1 DEF TotalsInv, SumFunction
      <4> QED
        BY <4>2 DEF Merged
    <3>3. end \in Points /\ end.ops = opsDone /\ end.bytes = bytesDone
      BY DEF Point, Points, TypeInv
    <3> HIDE DEF end
    <3>4. /\ FinalSeries # <<>> /\ FinalSeries[Len(FinalSeries)] = end
          /\ Rising(FinalSeries)
      <4>1. CASE series # <<>> /\ series[Len(series)] = end
        <5>1. FinalSeries = series
          BY <4>1 DEF FinalSeries, end
        <5> QED
          BY <4>1, <5>1 DEF SeriesInv
      <4>2. CASE series = <<>> \/ series[Len(series)] # end
        <5>1. FinalSeries = Append(series, end)
          BY <4>2 DEF FinalSeries, end
        <5>2. Rising(Append(series, end))
          BY <3>1, <3>3, Rises DEF SeriesInv, TypeInv
        <5>3. Append(series, end) # <<>> /\ Append(series, end)[Len(Append(series, end))] = end
          <6>1. series \in Seq(Points)
            BY DEF TypeInv
          <6>2. Len(Append(series, end)) = Len(series) + 1
            BY <3>3, <6>1
          <6> QED
            BY <3>3, <6>1, <6>2
        <5> QED
          BY <5>1, <5>2, <5>3
      <4> QED
        BY <4>1, <4>2
    <3>5. out'.total = end /\ out'.series = FinalSeries
      BY <3>1, <3>2
    <3> QED
      BY <3>4, <3>5 DEF SeriesEndsInTotals, Rising
  <2> USE DEF stream, counters, progress, history
  <2>4. ASSUME NEW s \in Streams, Step(s)
        PROVE  UNCHANGED <<main, out>>
    BY <2>4 DEF Step, LoopHead, Arrive, Quit, Block, Acquire, Count, LoadDepth, SwapDepth,
                Issue, Complete, AddOps, AddBytes, Leave, Release
  <2>5. CASE Tick \/ Sample \/ StopTicker \/ Cancel \/ UNCHANGED vars
    BY <2>2, <2>5 DEF Tick, Sample, StopTicker, Cancel, vars
  <2>6. CASE Wait
    BY <2>1, <2>6 DEF Wait
  <2> QED
    BY <2>2, <2>3, <2>4, <2>5, <2>6 DEF Next, Terminated
<1> QED
  BY <1>1, <1>2, Typing, Placing, Totalling, Sampling, PTL DEF Spec

-----------------------------------------------------------------------------
(* runStreams implements BoundedReplay: every step of its goroutines is an   *)
(* operation issued below the cap, one completed, a cancellation, the        *)
(* return, or nothing the caller could see.                                  *)
THEOREM SchedulerImplementsReplay == Spec => ImplementsReplay
<1> DEFINE Busy == {s \in Streams : pc[s] = "busy"}
           Done == [s \in Streams |-> rec[s].ops]
<1>1. Init => Replay!Init
  <2> SUFFICES ASSUME Init PROVE Replay!Init
    OBVIOUS
  <2>1. Done = [s \in Streams |-> 0]
    BY DEF Init, Point
  <2>2. Busy = {}
    BY DEF Init
  <2> QED
    BY <2>1, <2>2 DEF Init, Replay!Init
<1>2. TypeInv /\ TokenInv /\ PlaceInv /\ [Next]_vars => [Replay!Next]_(Replay!vars)
  <2> SUFFICES ASSUME TypeInv, TokenInv, PlaceInv, [Next]_vars
               PROVE  [Replay!Next]_(Replay!vars)
    OBVIOUS
  <2> USE DEF TypeInv, stream, counters, progress, history
  <2>1. ASSUME UNCHANGED <<rec, cancelled, main>>, Busy' = Busy
        PROVE  UNCHANGED Replay!vars
    BY <2>1 DEF Replay!vars
  <2>2. ASSUME NEW s \in Streams,
               \/ LoopHead(s) \/ Arrive(s) \/ Quit(s) \/ Block(s) \/ Acquire(s)
               \/ Count(s) \/ LoadDepth(s) \/ SwapDepth(s)
               \/ AddOps(s) \/ AddBytes(s) \/ Leave(s) \/ Release(s)
        PROVE  UNCHANGED Replay!vars
    <3>1. UNCHANGED <<rec, cancelled, main>>
      BY <2>2 DEF LoopHead, Arrive, Quit, Block, Acquire, Count, LoadDepth, SwapDepth,
                  AddOps, AddBytes, Leave, Release
    <3>2. pc[s] # "busy"
      BY <2>2 DEF LoopHead, Arrive, Quit, Block, Acquire, Count, LoadDepth, SwapDepth,
                  AddOps, AddBytes, Leave, Release, Goto
    <3>3. PICK to \in Places \ {"busy"} : pc' = [pc EXCEPT ![s] = to]
      BY <2>2 DEF LoopHead, Arrive, Quit, Block, Acquire, Count, LoadDepth, SwapDepth,
                  AddOps, AddBytes, Leave, Release, Goto, Places
    <3>4. Busy' = Busy
      BY <3>2, <3>3
    <3> QED
      BY <2>1, <3>1, <3>4
  <2>3. ASSUME NEW s \in Streams, Issue(s)
        PROVE  Replay!Issue(s)
    <3>1. /\ pc[s] = "issuing" /\ pc' = [pc EXCEPT ![s] = "busy"]
          /\ UNCHANGED <<rec, cancelled, main>>
      BY <2>3 DEF Issue, Goto
    <3>2. main # "returned" /\ Done[s] < NumOps[s]
      BY <3>1 DEF PlaceInv
    <3>3. s \notin Busy /\ Busy' = Busy \cup {s}
      BY <3>1
    <3>4. Cardinality(Busy) < MaxInflight
      <4>1. Busy \subseteq Counted \ {s} /\ s \in Counted
        BY <3>1 DEF Holding, Counted
      <4>2. /\ IsFiniteSet(Counted \ {s})
            /\ Cardinality(Counted \ {s}) = Cardinality(Counted) - 1
        BY <4>1, HeldFinite, FS_RemoveElement
      <4>3. Cardinality(Busy) <= Cardinality(Counted \ {s})
        BY <4>1, <4>2, FS_Subset
      <4>4. /\ Cardinality(Counted) <= MaxInflight /\ Cardinality(Counted) \in Nat
            /\ Cardinality(Busy) \in Nat
        BY BusyBelowCap
      <4> HIDE DEF Busy
      <4> QED
        BY <4>2, <4>3, <4>4
    <3>5. Done' = Done
      BY <3>1
    <3>6. ~(main = "returned") /\ s \notin Busy /\ Done[s] < NumOps[s]
      BY <3>2, <3>3
    <3>7. Busy' = Busy \cup {s}
      BY <3>3
    <3>8. Done' = Done /\ cancelled' = cancelled /\ (main = "returned")' = (main = "returned")
      BY <3>1, <3>5
    <3>9. Replay!Cardinality(Busy) = Cardinality(Busy)
      BY DEF Cardinality, Replay!Cardinality
    <3> QED
      BY <3>4, <3>6, <3>7, <3>8, <3>9 DEF Replay!Issue
  <2>4. ASSUME NEW s \in Streams, NEW n \in {0, 1}, Complete(s, n)
        PROVE  Replay!Complete(s)
    <3>1. /\ pc[s] = "busy" /\ pc' = [pc EXCEPT ![s] = "addingOps"]
          /\ rec' = [rec EXCEPT ![s] = Point(@.ops + 1, @.bytes + n)]
          /\ UNCHANGED <<cancelled, main>>
      BY <2>4 DEF Complete, Goto
    <3>2. s \in Busy /\ Busy' = Busy \ {s}
      BY <3>1
    <3>3. Done' = [Done EXCEPT ![s] = @ + 1]
      BY <3>1 DEF Point, Points
    <3> QED
      BY <3>1, <3>2, <3>3 DEF Replay!Complete
  <2>5. CASE Tick \/ Sample \/ StopTicker \/ Wait \/ UNCHANGED vars
    <3>1. UNCHANGED <<pc, rec, cancelled>> /\ (main' = "returned" <=> main = "returned")
      BY <2>5 DEF Tick, Sample, StopTicker, Wait, vars
    <3> QED
      BY <3>1 DEF Replay!vars
  <2>6. CASE Return
    <3>1. /\ \A s \in Streams : pc[s] = "exited"
          /\ main' = "returned" /\ UNCHANGED <<pc, rec, cancelled>>
      BY <2>6 DEF Return, PlaceInv
    <3>2. Busy = {}
      BY <3>1
    <3>3. cancelled \/ Done = NumOps
      <4>1. cancelled \/ \A s \in Streams : rec[s].ops = NumOps[s]
        BY <3>1 DEF PlaceInv
      <4> QED
        BY <4>1
    <3>4. Busy' = Busy /\ Done' = Done
      BY <3>1
    <3> QED
      BY <3>1, <3>2, <3>3, <3>4 DEF Replay!Next, Replay!Return
  <2>7. CASE Cancel
    BY <2>7 DEF Cancel, Replay!Next, Replay!Cut
  <2> QED
    BY <2>2, <2>3, <2>4, <2>5, <2>6, <2>7 DEF Next, Step, Terminated, Replay!Next
<1> QED
  BY <1>1, <1>2, Typing, Tokens, Placing, PTL DEF Spec, ImplementsReplay, Replay!Spec
=============================================================================
