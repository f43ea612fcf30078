--------------------------- MODULE ObjectWriteProofs ---------------------------
(* What ObjectWrite guarantees for any validated traces, any sizes, any part  *)
(* size and threshold, and any number of streams and handles.                 *)
EXTENDS ObjectWriteProps, DataInduction, TLAPS

-----------------------------------------------------------------------------
(* The eligibility pass, over the first n operations of a trace.              *)

WritesOf(tr, h, n) == {j \in 1..n : tr[j].op = "WRITE" /\ tr[j].h = h}
End(o) == o.off + o.len

(* m is the furthest byte the WRITEs of h reach among the first n.            *)
Furthest(tr, h, n, m) ==
  /\ m \in Nat
  /\ \A j \in WritesOf(tr, h, n) : End(tr[j]) <= m
  /\ m = 0 \/ \E j \in WritesOf(tr, h, n) : End(tr[j]) = m

Opens(tr, h, n)  == {j \in 1..n : tr[j].op = "OPEN" /\ tr[j].h = h}
Closes(tr, h, n) == {j \in 1..n : tr[j].op = "CLOSE" /\ tr[j].h = h}

(* What the pass knows: of an open handle its OPEN and how far it has come,   *)
(* of a target the size of one closed lifecycle.                              *)
HandleKnown(tr, n, e, h) ==
  Closes(tr, h, n) = {} => \A i \in Opens(tr, h, n) :
    /\ e.open[h] = [tgt |-> tr[i].tgt, mode |-> tr[i].mode, next |-> e.open[h].next]
    /\ Furthest(tr, h, n, e.open[h].next)

WriteAdmitted(tr, n, j) ==
  /\ Furthest(tr, tr[j].h, j - 1, tr[j].off)
  /\ \A i \in Opens(tr, tr[j].h, n) : tr[i].mode = "w"

SizeKnown(tr, n, e, t) ==
  \E i \in 1..n : /\ tr[i].op = "OPEN" /\ tr[i].mode = "w" /\ tr[i].tgt = t
                  /\ Closes(tr, tr[i].h, n) # {}
                  /\ Furthest(tr, tr[i].h, n, e.sizes[t])

PassKnows(tr, n, e) ==
  /\ DOMAIN e = {"ok", "open", "sizes"}
  /\ DOMAIN e.open = Handles /\ e.sizes \in [Targets -> Nat \cup {None}]
  /\ e.ok =>
       /\ \A h \in Handles : HandleKnown(tr, n, e, h)
       /\ \A j \in 1..n : tr[j].op = "WRITE" => WriteAdmitted(tr, n, j)
       /\ \A i \in 1..n : tr[i].op = "OPEN" /\ tr[i].mode = "w" /\ Closes(tr, tr[i].h, n) # {} =>
            e.sizes[tr[i].tgt] # None
       /\ \A t \in Targets : e.sizes[t] # None => SizeKnown(tr, n, e, t)

(* The pass is what its recursion says: an initial part of it can always be   *)
(* continued by one operation.                                                *)
LEMMA PassUnfolds ==
  ASSUME NEW tr, Len(tr) \in Nat, NEW n \in 0..Len(tr)
  PROVE  Eligibility(tr)[n] = IF n = 0 THEN NothingSeen ELSE Observe(Eligibility(tr)[n - 1], tr[n])
  <1> DEFINE Pass(e, k) == e = [i \in 0..k |-> IF i = 0 THEN NothingSeen ELSE Observe(e[i - 1], tr[i])]
             Begun == {k \in 0..Len(tr) : \E e : Pass(e, k)}
  <1>1. 0 \in Begun
    <2> DEFINE first == [i \in 0..0 |-> NothingSeen]
    <2>1. Pass(first, 0)
      OBVIOUS
    <2> HIDE DEF Pass
    <2> QED BY <2>1
  <1>2. ASSUME NEW k \in 0..(Len(tr) - 1), k \in Begun PROVE k + 1 \in Begun
    <2>1. PICK e : Pass(e, k)
      BY <1>2
    <2> DEFINE longer == [i \in 0..(k + 1) |-> IF i = k + 1 THEN Observe(e[k], tr[k + 1]) ELSE e[i]]
    <2>2. ASSUME NEW i \in 0..(k + 1)
          PROVE  longer[i] = IF i = 0 THEN NothingSeen ELSE Observe(longer[i - 1], tr[i])
      <3>1. CASE i = k + 1
        <4>1. longer[i - 1] = e[k] /\ longer[i] = Observe(e[k], tr[i]) /\ i # 0
          BY <3>1
        <4> QED BY <4>1
      <3>2. CASE i \in 0..k
        <4>1. longer[i] = e[i] /\ (i # 0 => longer[i - 1] = e[i - 1])
          BY <3>2
        <4>2. e[i] = IF i = 0 THEN NothingSeen ELSE Observe(e[i - 1], tr[i])
          BY <2>1, <3>2, Zenon
        <4> QED BY <4>1, <4>2
      <3> QED BY <3>1, <3>2
    <2>3. Pass(longer, k + 1)
      BY <2>2
    <2> HIDE DEF Pass, longer
    <2> QED BY <2>3
  <1>3. Len(tr) \in Begun
    <2> HIDE DEF Begun
    <2>1. 0..Len(tr) \subseteq Begun
      BY <1>1, <1>2, PrefixInduction
    <2> QED BY <2>1
  <1>4. Pass(Eligibility(tr), Len(tr))
    BY <1>3, Zenon DEF Eligibility
  <1> QED BY <1>4, Zenon

(* A validated trace: the fields of its operations, and the life of a handle. *)
LEMMA Fields ==
  ASSUME NEW tr \in Traces, NEW i \in 1..Len(tr)
  PROVE  /\ tr[i].op \in {"OPEN", "WRITE", "FSYNC", "CLOSE"}
         /\ tr[i].s \in Streams /\ tr[i].h \in Handles
         /\ tr[i].op = "OPEN" => tr[i].tgt \in Targets /\ tr[i].mode \in {"w", "rw"}
         /\ tr[i].op = "WRITE" => tr[i].off \in Nat /\ tr[i].len \in Nat
  <1>1. tr \in Seq(Ops)
    BY TracesAssumption
  <1>2. tr[i] \in Ops
    BY <1>1
  <1>3. CASE tr[i] \in [op : {"OPEN"}, s : Streams, h : Handles, tgt : Targets, mode : {"w", "rw"}]
    BY <1>3
  <1>4. CASE tr[i] \in [op : {"WRITE"}, s : Streams, h : Handles, off : Nat, len : Nat]
    BY <1>4
  <1>5. CASE tr[i] \in [op : {"FSYNC", "CLOSE"}, s : Streams, h : Handles]
    BY <1>5
  <1> QED BY <1>2, <1>3, <1>4, <1>5 DEF Ops

LEMMA TraceLength == ASSUME NEW tr \in Traces PROVE Len(tr) \in Nat /\ DOMAIN tr = 1..Len(tr)
  <1>1. tr \in Seq(Ops)
    BY TracesAssumption
  <1> QED BY <1>1

LEMMA Lives ==
  ASSUME NEW tr \in Traces, NEW i \in 1..Len(tr)
  PROVE  /\ tr[i].op = "OPEN" =>
              \A j \in 1..Len(tr) : tr[j].h = tr[i].h => (IF tr[j].op = "OPEN" THEN j = i ELSE j > i)
         /\ tr[i].op # "OPEN" =>
              \E j \in 1..(i - 1) : tr[j].op = "OPEN" /\ tr[j].h = tr[i].h /\ tr[j].s = tr[i].s
         /\ tr[i].op = "CLOSE" => \A j \in 1..Len(tr) : tr[j].h = tr[i].h => j <= i
  <1>1. Validated(tr) /\ DOMAIN tr = 1..Len(tr) /\ Len(tr) \in Nat
    BY TracesAssumption, TraceLength
  <1>2. \A j \in 1..Len(tr) :
          /\ tr[j].op = "OPEN" => \A k \in 1..Len(tr) : tr[k].op = "OPEN" /\ tr[k].h = tr[j].h => k = j
          /\ tr[j].op # "OPEN" => \E k \in 1..(j - 1) : tr[k].op = "OPEN" /\ tr[k].h = tr[j].h /\ tr[k].s = tr[j].s
          /\ tr[j].op = "CLOSE" => \A k \in 1..Len(tr) : tr[k].h = tr[j].h => k <= j
    BY <1>1, Zenon DEF Validated
  <1>3. ASSUME tr[i].op = "OPEN", NEW j \in 1..Len(tr), tr[j].h = tr[i].h, tr[j].op # "OPEN"
        PROVE  j > i
    <2>1. PICK k \in 1..(j - 1) : tr[k].op = "OPEN" /\ tr[k].h = tr[j].h
      BY <1>2, <1>3, Zenon
    <2>2. k \in 1..Len(tr) /\ k < j
      BY <1>1
    <2>3. k = i
      BY <1>2, <1>3, <2>1, <2>2, Zenon
    <2> QED BY <2>2, <2>3
  <1>4. ASSUME tr[i].op = "OPEN", NEW j \in 1..Len(tr), tr[j].h = tr[i].h
        PROVE  IF tr[j].op = "OPEN" THEN j = i ELSE j > i
    BY <1>2, <1>3, <1>4, Zenon
  <1> QED BY <1>2, <1>4, Zenon

(* What one more operation adds.                                              *)
LEMMA OneMore ==
  ASSUME NEW tr \in Traces, NEW n \in 0..(Len(tr) - 1), NEW h
  PROVE  LET Is(kind) == tr[n + 1].op = kind /\ tr[n + 1].h = h
         IN  /\ Is("OPEN")   => Opens(tr, h, n + 1) = Opens(tr, h, n) \cup {n + 1}
             /\ ~Is("OPEN")  => Opens(tr, h, n + 1) = Opens(tr, h, n)
             /\ Is("CLOSE")  => Closes(tr, h, n + 1) = Closes(tr, h, n) \cup {n + 1}
             /\ ~Is("CLOSE") => Closes(tr, h, n + 1) = Closes(tr, h, n)
             /\ Is("WRITE")  => WritesOf(tr, h, n + 1) = WritesOf(tr, h, n) \cup {n + 1}
             /\ ~Is("WRITE") => WritesOf(tr, h, n + 1) = WritesOf(tr, h, n)
  <1> DEFINE Is(kind) == tr[n + 1].op = kind /\ tr[n + 1].h = h
  <1>1. n \in Nat /\ 1..(n + 1) = (1..n) \cup {n + 1}
    BY TraceLength
  <1>2. Is("OPEN") => Opens(tr, h, n + 1) = Opens(tr, h, n) \cup {n + 1}
    BY <1>1 DEF Opens
  <1>3. ~Is("OPEN") => Opens(tr, h, n + 1) = Opens(tr, h, n)
    BY <1>1 DEF Opens
  <1>4. Is("CLOSE") => Closes(tr, h, n + 1) = Closes(tr, h, n) \cup {n + 1}
    BY <1>1 DEF Closes
  <1>5. ~Is("CLOSE") => Closes(tr, h, n + 1) = Closes(tr, h, n)
    BY <1>1 DEF Closes
  <1>6. Is("WRITE") => WritesOf(tr, h, n + 1) = WritesOf(tr, h, n) \cup {n + 1}
    BY <1>1 DEF WritesOf
  <1>7. ~Is("WRITE") => WritesOf(tr, h, n + 1) = WritesOf(tr, h, n)
    BY <1>1 DEF WritesOf
  <1> QED BY <1>2, <1>3, <1>4, <1>5, <1>6, <1>7, Zenon

LEMMA ReachStays ==
  ASSUME NEW tr \in Traces, NEW n \in 0..(Len(tr) - 1), NEW h, NEW m,
         Furthest(tr, h, n, m), ~(tr[n + 1].op = "WRITE" /\ tr[n + 1].h = h)
  PROVE  Furthest(tr, h, n + 1, m)
  <1>1. WritesOf(tr, h, n + 1) = WritesOf(tr, h, n)
    BY OneMore, Zenon
  <1> QED BY <1>1 DEF Furthest

LEMMA ReachGrows ==
  ASSUME NEW tr \in Traces, NEW n \in 0..(Len(tr) - 1), NEW h, NEW m,
         Furthest(tr, h, n, m), tr[n + 1].op = "WRITE", tr[n + 1].h = h, tr[n + 1].off = m
  PROVE  Furthest(tr, h, n + 1, m + tr[n + 1].len)
  <1>1. WritesOf(tr, h, n + 1) = WritesOf(tr, h, n) \cup {n + 1}
    BY OneMore, Zenon
  <1>2. n + 1 \in 1..Len(tr)
    BY TraceLength
  <1>3. tr[n + 1].len \in Nat /\ m \in Nat /\ End(tr[n + 1]) = m + tr[n + 1].len
    BY <1>2, Fields DEF End, Furthest
  <1>4. \A j \in WritesOf(tr, h, n) : End(tr[j]) \in Nat
    <2>1. ASSUME NEW j \in WritesOf(tr, h, n) PROVE End(tr[j]) \in Nat
      <3>1. j \in 1..Len(tr) /\ tr[j].op = "WRITE"
        BY TraceLength DEF WritesOf
      <3> QED BY <3>1, Fields DEF End
    <2> QED BY <2>1
  <1>5. \A j \in WritesOf(tr, h, n + 1) : End(tr[j]) <= m + tr[n + 1].len
    BY <1>1, <1>3, <1>4 DEF Furthest
  <1>6. n + 1 \in WritesOf(tr, h, n + 1) /\ m + tr[n + 1].len \in Nat
    BY <1>1, <1>3
  <1> QED BY <1>3, <1>5, <1>6 DEF Furthest

(* What is known of what the next operation is not about stays known.         *)
LEMMA HandleStays ==
  ASSUME NEW tr \in Traces, NEW n \in 0..(Len(tr) - 1), NEW h, NEW e, NEW f,
         HandleKnown(tr, n, e, h), f.open[h] = e.open[h],
         tr[n + 1].h # h \/ tr[n + 1].op = "FSYNC"
  PROVE  HandleKnown(tr, n + 1, f, h)
  <1>1. ~(tr[n + 1].op = "OPEN" /\ tr[n + 1].h = h) /\ ~(tr[n + 1].op = "CLOSE" /\ tr[n + 1].h = h)
    OBVIOUS
  <1>2. Opens(tr, h, n + 1) = Opens(tr, h, n) /\ Closes(tr, h, n + 1) = Closes(tr, h, n)
    BY <1>1, OneMore, Zenon
  <1>3. \A m : Furthest(tr, h, n, m) => Furthest(tr, h, n + 1, m)
    <2>1. ~(tr[n + 1].op = "WRITE" /\ tr[n + 1].h = h)
      OBVIOUS
    <2> QED BY <2>1, ReachStays, Zenon
  <1> QED BY <1>2, <1>3, Zenon DEF HandleKnown

LEMMA WriteStays ==
  ASSUME NEW tr \in Traces, NEW n \in 0..(Len(tr) - 1), NEW j \in 1..n,
         tr[j].op = "WRITE", WriteAdmitted(tr, n, j)
  PROVE  WriteAdmitted(tr, n + 1, j)
  <1>1. n + 1 \in 1..Len(tr) /\ j \in 1..Len(tr) /\ ~(j > n + 1)
    BY TraceLength
  <1>2. ~(tr[n + 1].op = "OPEN" /\ tr[n + 1].h = tr[j].h)
    BY <1>1, Lives
  <1>3. Opens(tr, tr[j].h, n + 1) = Opens(tr, tr[j].h, n)
    BY <1>2, OneMore, Zenon
  <1> QED BY <1>3, Zenon DEF WriteAdmitted

LEMMA SizeStays ==
  ASSUME NEW tr \in Traces, NEW n \in 0..(Len(tr) - 1), NEW t, NEW e, NEW f,
         SizeKnown(tr, n, e, t), f.sizes[t] = e.sizes[t]
  PROVE  SizeKnown(tr, n + 1, f, t)
  <1>1. PICK i \in 1..n : /\ tr[i].op = "OPEN" /\ tr[i].mode = "w" /\ tr[i].tgt = t
                          /\ Closes(tr, tr[i].h, n) # {}
                          /\ Furthest(tr, tr[i].h, n, e.sizes[t])
    BY DEF SizeKnown
  <1>2. PICK k \in 1..n : tr[k].op = "CLOSE" /\ tr[k].h = tr[i].h
    BY <1>1 DEF Closes
  <1>3. n + 1 \in 1..Len(tr) /\ k \in 1..Len(tr) /\ i \in 1..(n + 1) /\ k \in 1..(n + 1) /\ ~(n + 1 <= k)
    BY TraceLength
  <1>4. tr[n + 1].h # tr[i].h
    BY <1>2, <1>3, Lives
  <1>5. Furthest(tr, tr[i].h, n + 1, e.sizes[t])
    BY <1>1, <1>4, ReachStays
  <1>6. k \in Closes(tr, tr[i].h, n + 1)
    BY <1>2, <1>3 DEF Closes
  <1> QED BY <1>1, <1>3, <1>5, <1>6 DEF SizeKnown

(* One operation, by kind.                                                    *)
LEMMA PassOpens ==
  ASSUME NEW tr \in Traces, NEW n \in 0..(Len(tr) - 1), NEW e, PassKnows(tr, n, e), e.ok,
         tr[n + 1].op = "OPEN"
  PROVE  PassKnows(tr, n + 1, Opened(e, tr[n + 1]))
  <1> DEFINE o == tr[n + 1]
             f == Opened(e, o)
  <1>1. n + 1 \in 1..Len(tr) /\ n \in Nat /\ o.h \in Handles
    BY TraceLength, Fields
  <1>2. /\ DOMAIN f = {"ok", "open", "sizes"} /\ DOMAIN f.open = Handles /\ f.sizes = e.sizes
        /\ f.sizes \in [Targets -> Nat \cup {None}]
        /\ f.open[o.h] = [tgt |-> o.tgt, mode |-> o.mode, next |-> 0]
        /\ \A h \in Handles \ {o.h} : f.open[h] = e.open[h]
    BY <1>1 DEF Opened, PassKnows
  <1> HIDE DEF f
  <1>3. \A j \in 1..Len(tr) : tr[j].h = o.h => (IF tr[j].op = "OPEN" THEN j = n + 1 ELSE j > n + 1)
    BY <1>1, Lives, Zenon
  <1>4. ASSUME NEW h \in Handles PROVE HandleKnown(tr, n + 1, f, h)
    <2>1. CASE h # o.h
      BY <1>2, <2>1, HandleStays DEF PassKnows
    <2>2. CASE h = o.h
      <3>1. Opens(tr, h, n + 1) \subseteq {n + 1} /\ WritesOf(tr, h, n + 1) = {}
        BY <1>1, <1>3, <2>2 DEF Opens, WritesOf
      <3>2. Furthest(tr, h, n + 1, 0)
        BY <3>1 DEF Furthest
      <3> QED BY <1>2, <2>2, <3>1, <3>2 DEF HandleKnown
    <2> QED BY <2>1, <2>2
  <1>5. ASSUME NEW j \in 1..(n + 1), tr[j].op = "WRITE" PROVE WriteAdmitted(tr, n + 1, j)
    <2>1. j \in 1..n
      BY <1>1, <1>5
    <2> QED BY <2>1, <1>5, WriteStays DEF PassKnows
  <1>6. ASSUME NEW i \in 1..(n + 1), tr[i].op = "OPEN", tr[i].mode = "w", Closes(tr, tr[i].h, n + 1) # {}
        PROVE  f.sizes[tr[i].tgt] # None
    <2>1. Closes(tr, o.h, n + 1) = {}
      BY <1>1, <1>3 DEF Closes
    <2>2. i \in 1..n
      BY <1>1, <1>6, <2>1
    <2>3. Closes(tr, tr[i].h, n + 1) = Closes(tr, tr[i].h, n)
      BY OneMore, Zenon
    <2> QED BY <1>2, <1>6, <2>2, <2>3 DEF PassKnows
  <1>7. ASSUME NEW t \in Targets, f.sizes[t] # None PROVE SizeKnown(tr, n + 1, f, t)
    BY <1>2, <1>7, SizeStays DEF PassKnows
  <1>8. PassKnows(tr, n + 1, f)
    BY <1>2, <1>4, <1>5, <1>6, <1>7 DEF PassKnows
  <1> QED BY <1>8, Zenon DEF f

(* A handle that is used has been opened and not closed.                      *)
LEMMA UsedIsOpen ==
  ASSUME NEW tr \in Traces, NEW n \in 0..(Len(tr) - 1), tr[n + 1].op # "OPEN"
  PROVE  Closes(tr, tr[n + 1].h, n) = {} /\ \E i \in Opens(tr, tr[n + 1].h, n) : tr[i].s = tr[n + 1].s
  <1>1. n + 1 \in 1..Len(tr) /\ n \in Nat /\ (n + 1) - 1 = n
    BY TraceLength
  <1>2. \E i \in Opens(tr, tr[n + 1].h, n) : tr[i].s = tr[n + 1].s
    BY <1>1, Lives DEF Opens
  <1>3. ASSUME NEW k \in Closes(tr, tr[n + 1].h, n) PROVE FALSE
    <2>1. k \in 1..Len(tr) /\ tr[k].op = "CLOSE" /\ tr[k].h = tr[n + 1].h /\ ~(n + 1 <= k)
      BY <1>1 DEF Closes
    <2> QED BY <1>1, <2>1, Lives
  <1> QED BY <1>2, <1>3

LEMMA PassWrites ==
  ASSUME NEW tr \in Traces, NEW n \in 0..(Len(tr) - 1), NEW e, PassKnows(tr, n, e), e.ok,
         tr[n + 1].op = "WRITE"
  PROVE  PassKnows(tr, n + 1, Written(e, tr[n + 1]))
  <1> DEFINE o == tr[n + 1]
             st == e.open[o.h]
             f == Written(e, o)
  <1>1. n + 1 \in 1..Len(tr) /\ n \in Nat /\ o.h \in Handles /\ o.len \in Nat
    BY TraceLength, Fields
  <1>2. PICK i \in Opens(tr, o.h, n) : TRUE
    BY UsedIsOpen
  <1>3. Closes(tr, o.h, n) = {} /\ HandleKnown(tr, n, e, o.h)
    BY <1>1, UsedIsOpen DEF PassKnows
  <1>4. /\ \A k \in Opens(tr, o.h, n) : st = [tgt |-> tr[k].tgt, mode |-> tr[k].mode, next |-> st.next]
        /\ Furthest(tr, o.h, n, st.next)
    BY <1>2, <1>3 DEF HandleKnown
  <1>5. CASE ~(st.mode = "w" /\ o.off = st.next)
    <2>1. f = [e EXCEPT !.ok = FALSE]
      BY <1>5 DEF Written
    <2>2. f.ok = FALSE /\ DOMAIN f = {"ok", "open", "sizes"} /\ f.open = e.open /\ f.sizes = e.sizes
      BY <2>1 DEF PassKnows
    <2> QED BY <2>2 DEF PassKnows
  <1>6. CASE st.mode = "w" /\ o.off = st.next
    <2>1. f = [e EXCEPT !.open[o.h].next = @ + o.len]
      BY <1>6 DEF Written
    <2>2. /\ DOMAIN f = {"ok", "open", "sizes"} /\ DOMAIN f.open = Handles /\ f.sizes = e.sizes
          /\ f.sizes \in [Targets -> Nat \cup {None}]
          /\ f.open[o.h] = [st EXCEPT !.next = @ + o.len]
          /\ \A h \in Handles \ {o.h} : f.open[h] = e.open[h]
      BY <1>1, <2>1 DEF PassKnows
    <2> HIDE DEF f
    <2>3. f.open[o.h] = [tgt |-> tr[i].tgt, mode |-> tr[i].mode, next |-> st.next + o.len]
      <3> DEFINE r == st.next
      <3>1. st = [tgt |-> tr[i].tgt, mode |-> tr[i].mode, next |-> r]
        BY <1>4
      <3> HIDE DEF r
      <3>2. [st EXCEPT !.next = @ + o.len] = [tgt |-> tr[i].tgt, mode |-> tr[i].mode, next |-> r + o.len]
        BY <3>1
      <3> QED BY <2>2, <3>2, Zenon DEF r
    <2>4. Opens(tr, o.h, n + 1) = Opens(tr, o.h, n) /\ Closes(tr, o.h, n + 1) = {}
      BY <1>3, OneMore
    <2>5. Furthest(tr, o.h, n + 1, st.next + o.len)
      BY <1>4, <1>6, ReachGrows
    <2>6. \A k \in Opens(tr, o.h, n) : k = i
      <3>1. ASSUME NEW k \in Opens(tr, o.h, n) PROVE k = i
        <4>1. i \in 1..Len(tr) /\ k \in 1..Len(tr) /\ tr[i].op = "OPEN" /\ tr[k].op = "OPEN" /\ tr[k].h = tr[i].h
          BY <1>1 DEF Opens
        <4> QED BY <4>1, Lives
      <3> QED BY <3>1
    <2>7. ASSUME NEW h \in Handles PROVE HandleKnown(tr, n + 1, f, h)
      <3>1. CASE h # o.h
        BY <2>2, <3>1, HandleStays DEF PassKnows
      <3>2. CASE h = o.h
        BY <2>3, <2>4, <2>5, <2>6, <3>2 DEF HandleKnown
      <3> QED BY <3>1, <3>2
    <2>8. ASSUME NEW j \in 1..(n + 1), tr[j].op = "WRITE" PROVE WriteAdmitted(tr, n + 1, j)
      <3>1. CASE j \in 1..n
        BY <3>1, <2>8, WriteStays DEF PassKnows
      <3>2. CASE j = n + 1
        <4>1. Furthest(tr, o.h, (n + 1) - 1, o.off)
          BY <1>1, <1>4, <1>6
        <4>2. \A k \in Opens(tr, o.h, n + 1) : tr[k].mode = "w"
          <5>1. ASSUME NEW k \in Opens(tr, o.h, n + 1) PROVE tr[k].mode = "w"
            <6>1. st.mode = tr[k].mode
              <7>1. k \in Opens(tr, o.h, n)
                BY <2>4, <5>1, Zenon
              <7> DEFINE r == st.next
              <7>2. st = [tgt |-> tr[k].tgt, mode |-> tr[k].mode, next |-> r]
                BY <1>4, <7>1, Zenon
              <7> HIDE DEF r, st
              <7> QED BY <7>2
            <6> QED BY <1>6, <6>1
          <5> QED BY <5>1
        <4> QED BY <3>2, <4>1, <4>2 DEF WriteAdmitted
      <3> QED BY <1>1, <3>1, <3>2
    <2>9. ASSUME NEW k \in 1..(n + 1), tr[k].op = "OPEN", tr[k].mode = "w", Closes(tr, tr[k].h, n + 1) # {}
          PROVE  f.sizes[tr[k].tgt] # None
      <3>1. k \in 1..n /\ Closes(tr, tr[k].h, n + 1) = Closes(tr, tr[k].h, n)
        BY <1>1, <2>9, OneMore
      <3> QED BY <2>2, <2>9, <3>1 DEF PassKnows
    <2>10. ASSUME NEW t \in Targets, f.sizes[t] # None PROVE SizeKnown(tr, n + 1, f, t)
      BY <2>2, <2>10, SizeStays DEF PassKnows
    <2>11. PassKnows(tr, n + 1, f)
      BY <2>2, <2>7, <2>8, <2>9, <2>10 DEF PassKnows
    <2> QED BY <2>11, Zenon DEF f
  <1> QED BY <1>5, <1>6

LEMMA PassCloses ==
  ASSUME NEW tr \in Traces, NEW n \in 0..(Len(tr) - 1), NEW e, PassKnows(tr, n, e), e.ok,
         tr[n + 1].op = "CLOSE"
  PROVE  PassKnows(tr, n + 1, Closed(e, tr[n + 1]))
  <1> DEFINE o == tr[n + 1]
             st == e.open[o.h]
             gone == [e EXCEPT !.open[o.h] = None]
             f == Closed(e, o)
             Kept(g, t) == g.sizes[t] = e.sizes[t]
             Noted(g, t, i) == t = tr[i].tgt /\ tr[i].mode = "w" /\ g.sizes[t] = st.next
             After(g, i) ==
               /\ DOMAIN g = {"ok", "open", "sizes"}
               /\ DOMAIN g.open = Handles /\ g.sizes \in [Targets -> Nat \cup {None}]
               /\ \A h \in Handles \ {o.h} : g.open[h] = e.open[h]
               /\ \A t \in Targets : Kept(g, t) \/ Noted(g, t, i)
               /\ tr[i].mode = "w" => g.sizes[tr[i].tgt] = st.next
  <1>1. n + 1 \in 1..Len(tr) /\ n \in Nat /\ o.h \in Handles
    BY TraceLength, Fields
  <1>2. PICK i \in Opens(tr, o.h, n) : TRUE
    BY UsedIsOpen
  <1>3. i \in 1..n /\ i \in 1..Len(tr) /\ tr[i].op = "OPEN" /\ tr[i].h = o.h /\ tr[i].tgt \in Targets
    BY <1>1, <1>2, Fields DEF Opens
  <1>4. st.tgt = tr[i].tgt /\ st.mode = tr[i].mode /\ Furthest(tr, o.h, n, st.next)
    <2>1. Closes(tr, o.h, n) = {} /\ HandleKnown(tr, n, e, o.h)
      BY <1>1, UsedIsOpen DEF PassKnows
    <2>2. st = [tgt |-> tr[i].tgt, mode |-> tr[i].mode, next |-> st.next] /\ Furthest(tr, o.h, n, st.next)
      BY <1>2, <2>1, Zenon DEF HandleKnown
    <2> DEFINE r == st.next
    <2>3. st = [tgt |-> tr[i].tgt, mode |-> tr[i].mode, next |-> r]
      BY <2>2
    <2> HIDE DEF r, st
    <2>4. st.tgt = tr[i].tgt /\ st.mode = tr[i].mode
      BY <2>3
    <2> QED BY <2>2, <2>4
  <1>5. st.next \in Nat /\ st.next # None /\ Furthest(tr, o.h, n + 1, st.next)
    <2> DEFINE r == st.next
    <2>1. n \in 0..(Len(tr) - 1) /\ Furthest(tr, o.h, n, r)
      BY <1>1, <1>4, TraceLength
    <2>2. ~(tr[n + 1].op = "WRITE" /\ tr[n + 1].h = o.h)
      OBVIOUS
    <2> HIDE DEF r
    <2>3. Furthest(tr, o.h, n + 1, r)
      BY <2>1, <2>2, ReachStays
    <2>4. r \in Nat /\ r # None
      BY <2>1, ObjectsAssumption DEF Furthest
    <2> QED BY <2>3, <2>4 DEF r
  <1>6. ASSUME NEW k \in 1..(n + 1), tr[k].op = "OPEN", tr[k].h = o.h PROVE k = i
    BY <1>1, <1>3, <1>6, Lives
  <1>7. n + 1 \in Closes(tr, o.h, n + 1)
    BY <1>1 DEF Closes
  (* What the three outcomes have in common.                                  *)
  <1>8. ASSUME NEW g, After(g, i)
        PROVE  PassKnows(tr, n + 1, g)
    <2>1. ASSUME NEW h \in Handles PROVE HandleKnown(tr, n + 1, g, h)
      <3>1. CASE h # o.h
        BY <1>8, <3>1, HandleStays DEF PassKnows
      <3>2. CASE h = o.h
        BY <1>7, <3>2 DEF HandleKnown
      <3> QED BY <3>1, <3>2
    <2>2. ASSUME NEW j \in 1..(n + 1), tr[j].op = "WRITE" PROVE WriteAdmitted(tr, n + 1, j)
      <3>1. j \in 1..n
        BY <1>1, <2>2
      <3> QED BY <2>2, <3>1, WriteStays DEF PassKnows
    <2>3. ASSUME NEW k \in 1..(n + 1), tr[k].op = "OPEN", tr[k].mode = "w", Closes(tr, tr[k].h, n + 1) # {}
          PROVE  g.sizes[tr[k].tgt] # None
      <3>1. CASE tr[k].h = o.h
        BY <1>5, <1>6, <1>8, <2>3, <3>1
      <3>2. CASE tr[k].h # o.h
        <4>1. k \in 1..n /\ k \in 1..Len(tr) /\ Closes(tr, tr[k].h, n + 1) = Closes(tr, tr[k].h, n)
          BY <1>1, <2>3, <3>2, OneMore
        <4>2. e.sizes[tr[k].tgt] # None /\ tr[k].tgt \in Targets
          BY <2>3, <4>1, Fields DEF PassKnows
        <4> QED BY <1>5, <1>8, <4>2
      <3> QED BY <3>1, <3>2
    <2>4. ASSUME NEW t \in Targets, g.sizes[t] # None PROVE SizeKnown(tr, n + 1, g, t)
      <3>1. CASE g.sizes[t] = e.sizes[t]
        BY <2>4, <3>1, SizeStays DEF PassKnows
      <3>2. CASE Noted(g, t, i)
        <4>1. i \in 1..(n + 1) /\ Closes(tr, tr[i].h, n + 1) # {} /\ Furthest(tr, tr[i].h, n + 1, g.sizes[t])
          BY <1>1, <1>3, <1>5, <1>7, <3>2
        <4> QED BY <1>3, <3>2, <4>1 DEF SizeKnown
      <3> QED BY <1>8, <3>1, <3>2
    <2> QED BY <1>8, <2>1, <2>2, <2>3, <2>4 DEF PassKnows
  <1>9. /\ DOMAIN gone = {"ok", "open", "sizes"} /\ DOMAIN gone.open = Handles /\ gone.sizes = e.sizes
        /\ gone.sizes \in [Targets -> Nat \cup {None}]
        /\ \A h \in Handles \ {o.h} : gone.open[h] = e.open[h]
    BY <1>1 DEF PassKnows
  <1>10. CASE st.mode # "w"
    <2>1. f = gone
      BY <1>10 DEF Closed
    <2>2. After(gone, i)
      <3> HIDE DEF gone, st, f
      <3> QED BY <1>4, <1>9, <1>10
    <2> HIDE DEF After, gone, f
    <2>3. PassKnows(tr, n + 1, gone)
      BY <1>8, <2>2
    <2> QED BY <2>1, <2>3, Zenon DEF f
  <1>11. CASE st.mode = "w" /\ Declared[st.tgt] > 0 /\ st.next # Declared[st.tgt]
    <2>1. f = [gone EXCEPT !.ok = FALSE]
      BY <1>11 DEF Closed
    <2>2. f.ok = FALSE /\ DOMAIN f = {"ok", "open", "sizes"} /\ DOMAIN f.open = Handles
          /\ f.sizes \in [Targets -> Nat \cup {None}]
      BY <1>9, <2>1
    <2> QED BY <2>2 DEF PassKnows
  <1>12. CASE st.mode = "w" /\ ~(Declared[st.tgt] > 0 /\ st.next # Declared[st.tgt])
    <2>1. f = [gone EXCEPT !.sizes[st.tgt] = st.next]
      BY <1>12 DEF Closed
    <2>2. /\ DOMAIN f = {"ok", "open", "sizes"} /\ DOMAIN f.open = Handles /\ f.sizes \in [Targets -> Nat \cup {None}]
          /\ f.open = gone.open /\ f.sizes[st.tgt] = st.next
          /\ \A t \in Targets \ {st.tgt} : f.sizes[t] = gone.sizes[t]
      <3>1. f.sizes = [gone.sizes EXCEPT ![st.tgt] = st.next] /\ f.open = gone.open
            /\ DOMAIN f = {"ok", "open", "sizes"}
        BY <1>9, <2>1
      <3> HIDE DEF f, gone, st
      <3> QED BY <1>3, <1>4, <1>5, <1>9, <3>1
    <2> HIDE DEF f, gone, st
    <2>3. PassKnows(tr, n + 1, f)
      <3>1. \A h \in Handles \ {o.h} : f.open[h] = e.open[h]
        BY <1>9, <2>2
      <3>2. ASSUME NEW t \in Targets PROVE Kept(f, t) \/ Noted(f, t, i)
        <4>1. CASE t = st.tgt
          BY <1>4, <1>12, <2>2, <4>1
        <4>2. CASE t # st.tgt
          BY <1>9, <2>2, <4>2
        <4> QED BY <4>1, <4>2
      <3>3. f.sizes[tr[i].tgt] = st.next
        BY <1>4, <2>2
      <3> HIDE DEF Kept, Noted
      <3>4. After(f, i)
        BY <2>2, <3>1, <3>2, <3>3
      <3> HIDE DEF After
      <3> QED BY <1>8, <3>4
    <2> QED BY <2>3, Zenon DEF f
  <1> QED BY <1>10, <1>11, <1>12

LEMMA PassRests ==
  ASSUME NEW tr \in Traces, NEW n \in 0..(Len(tr) - 1), NEW e, PassKnows(tr, n, e), e.ok,
         tr[n + 1].op = "FSYNC"
  PROVE  PassKnows(tr, n + 1, e)
  <1>1. \A h \in Handles : HandleKnown(tr, n + 1, e, h)
    BY HandleStays DEF PassKnows
  <1>2. ASSUME NEW j \in 1..(n + 1), tr[j].op = "WRITE" PROVE WriteAdmitted(tr, n + 1, j)
    <2>1. j \in 1..n
      BY <1>2
    <2> QED BY <1>2, <2>1, WriteStays DEF PassKnows
  <1>3. ASSUME NEW k \in 1..(n + 1), tr[k].op = "OPEN", tr[k].mode = "w", Closes(tr, tr[k].h, n + 1) # {}
        PROVE  e.sizes[tr[k].tgt] # None
    <2>1. k \in 1..n /\ Closes(tr, tr[k].h, n + 1) = Closes(tr, tr[k].h, n)
      BY <1>3, OneMore
    <2> QED BY <1>3, <2>1 DEF PassKnows
  <1>4. \A t \in Targets : e.sizes[t] # None => SizeKnown(tr, n + 1, e, t)
    BY SizeStays DEF PassKnows
  <1> QED BY <1>1, <1>2, <1>3, <1>4 DEF PassKnows

(* What PREPARE has established of a trace, and of each of its prefixes.      *)
LEMMA PassEstablishes ==
  ASSUME NEW tr \in Traces
  PROVE  \A n \in 0..Len(tr) : PassKnows(tr, n, Eligibility(tr)[n])
  <1> DEFINE e == Eligibility(tr)
             Known == {n \in 0..Len(tr) : PassKnows(tr, n, e[n])}
  <1>1. Len(tr) \in Nat
    BY TraceLength
  <1>2. 0 \in Known
    <2>1. e[0] = NothingSeen
      BY <1>1, PassUnfolds
    <2>2. PassKnows(tr, 0, NothingSeen)
      BY DEF PassKnows, NothingSeen, HandleKnown, Opens, Closes
    <2> QED BY <1>1, <2>1, <2>2
  <1>3. ASSUME NEW n \in 0..(Len(tr) - 1), n \in Known PROVE n + 1 \in Known
    <2>1. n + 1 \in 1..Len(tr) /\ n + 1 \in 0..Len(tr) /\ (n + 1) - 1 = n /\ n + 1 # 0
      BY <1>1
    <2>2. e[n + 1] = Observe(e[n], tr[n + 1])
      BY <1>1, <2>1, PassUnfolds
    <2>3. PassKnows(tr, n, e[n])
      BY <1>3
    <2>4. tr[n + 1].op \in {"OPEN", "WRITE", "FSYNC", "CLOSE"}
      BY <2>1, Fields
    <2> DEFINE g == e[n]
    <2> HIDE DEF g
    <2>5. PassKnows(tr, n + 1, Observe(g, tr[n + 1]))
      <3>1. PassKnows(tr, n, g)
        BY <2>3 DEF g
      <3>2. CASE ~g.ok
        <4>1. Observe(g, tr[n + 1]) = g
          BY <3>2 DEF Observe
        <4> QED BY <3>1, <3>2, <4>1 DEF PassKnows
      <3>3. CASE g.ok /\ tr[n + 1].op = "OPEN"
        <4>1. Observe(g, tr[n + 1]) = Opened(g, tr[n + 1])
          BY <3>3 DEF Observe
        <4> QED BY <3>1, <3>3, <4>1, PassOpens
      <3>4. CASE g.ok /\ tr[n + 1].op = "WRITE"
        <4>1. Observe(g, tr[n + 1]) = Written(g, tr[n + 1])
          BY <3>4 DEF Observe
        <4> QED BY <3>1, <3>4, <4>1, PassWrites
      <3>5. CASE g.ok /\ tr[n + 1].op = "CLOSE"
        <4>1. Observe(g, tr[n + 1]) = Closed(g, tr[n + 1])
          BY <3>5 DEF Observe
        <4> QED BY <3>1, <3>5, <4>1, PassCloses
      <3>6. CASE g.ok /\ tr[n + 1].op = "FSYNC"
        <4>1. Observe(g, tr[n + 1]) = g
          BY <3>6 DEF Observe
        <4> QED BY <3>1, <3>6, <4>1, PassRests
      <3> QED BY <2>4, <3>2, <3>3, <3>4, <3>5, <3>6
    <2> QED BY <2>1, <2>2, <2>5 DEF g
  <1>4. 0..Len(tr) \subseteq Known
    <2> HIDE DEF Known
    <2> QED BY <1>1, <1>2, <1>3, PrefixInduction
  <1> QED BY <1>4

-----------------------------------------------------------------------------
(* The inductive invariant.  Operation i of the trace is over.                *)
Executed(i) == i <= idx[trace[i].s]

(* How far stream s has come, a blocked WRITE included.                       *)
Reached(s) == IF pc[s] = "writing" THEN At(s) ELSE idx[s]

Pipes == [offer : Nat, offered : BOOLEAN, wclosed : BOOLEAN, rclosed : BOOLEAN]
Puts  == [stage : {"none", "begun", "reading", "returned", "detached", "sent"},
          size : Nat, filled : Nat, uploaded : Nat, err : BOOLEAN]

Types ==
  /\ trace \in Traces
  /\ phase \in {"preparing", "running", "refused"}
  /\ sizes \in [Targets -> Nat \cup {None}]
  /\ idx \in [Streams -> Nat]
  /\ pc \in [Streams -> {"head", "ready", "writing", "closing", "exited"}]
  /\ cancelled \in BOOLEAN
  /\ pipe \in [Handles -> Pipes]
  /\ put \in [Handles -> Puts]
  /\ upload \in [Handles -> {"none", "open", "orphaned", "aborted", "completed"}]
  /\ object \in [Targets -> Handles \cup {None}]
  /\ stored \in [Handles -> Nat \cup {None}]
  /\ closed \in [Handles -> {"no", "ok", "error"}]

(* What PREPARE leaves.                                                       *)
PlanInv ==
  /\ phase # "running" => \A h \in Handles : put[h].stage = "none"
  /\ phase = "running" => Eligibility(trace)[Len(trace)].ok /\ sizes = Eligibility(trace)[Len(trace)].sizes

StreamInv(s) ==
  /\ idx[s] <= Len(trace)
  /\ pc[s] \in {"ready", "writing", "closing"} => phase = "running" /\ Ahead(s) # {}
  /\ pc[s] = "writing" => NextOp(s).op = "WRITE" /\ Coalesced(NextOp(s).h)
  /\ pc[s] = "closing" => NextOp(s).op = "CLOSE" /\ Coalesced(NextOp(s).h)
  /\ pc[s] = "exited" /\ ~cancelled => Ahead(s) = {}

(* A Put belongs to an OPEN that was admitted, and knows the object's size.   *)
Admitted(i) == /\ trace[i].op = "OPEN" /\ Executed(i)
               /\ trace[i].mode = "w" /\ sizes[trace[i].tgt] # None

BegunInv(h) == put[h].stage # "none" =>
  \E i \in DOMAIN trace : Admitted(i) /\ trace[i].h = h /\ put[h].size = sizes[trace[i].tgt]

(* A Put, from its beginning to its answer.                                   *)
Answered(h) == put[h].stage \in {"returned", "detached", "sent"}

PutInv(h) ==
  /\ put[h].stage = "none" => put[h] = NotBegun /\ pipe[h] = Idle
  /\ put[h].stage \in {"none", "begun"} => put[h].filled = 0 /\ put[h].uploaded = 0 /\ upload[h] = "none"
  /\ put[h].stage \in {"none", "begun", "reading"} => ~put[h].err /\ stored[h] = None /\ ~pipe[h].rclosed
  /\ put[h].stage = "reading" =>
       IF Multipart(h) THEN /\ put[h].uploaded <= put[h].size
                            /\ put[h].filled <= Least(PartSize, put[h].size - put[h].uploaded)
                       ELSE put[h].uploaded = 0 /\ put[h].filled <= put[h].size /\ upload[h] # "open"
  /\ Answered(h) => upload[h] # "open" /\ (put[h].err \/ stored[h] # None)
  /\ stored[h] # None => stored[h] = put[h].size

CloseInv ==
  /\ \A i \in DOMAIN trace : trace[i].op = "CLOSE" /\ Executed(i) => closed[trace[i].h] # "no"
  /\ \A h \in Handles : closed[h] # "no" =>
       /\ put[h].stage \in {"none", "sent"}
       /\ \E i \in DOMAIN trace : trace[i].op = "CLOSE" /\ trace[i].h = h /\ Executed(i)

ObjectInv == \A t \in Targets : object[t] # None => stored[object[t]] # None

Inv == /\ Types /\ PlanInv /\ CloseInv /\ ObjectInv
       /\ \A s \in Streams : StreamInv(s)
       /\ \A h \in Handles : BegunInv(h) /\ PutInv(h)

(* What flows through the pipe: what the Put has read and what is on offer    *)
(* are the WRITEs the handle's stream has come to.                            *)
FlowInv(i) ==
  LET h == trace[i].h
      s == trace[i].s
  IN  /\ put[h].stage \in {"begun", "reading"} =>
           Furthest(trace, h, Reached(s), put[h].uploaded + put[h].filled + pipe[h].offer)
      /\ pipe[h].offered => /\ pc[s] = "writing" /\ NextOp(s).h = h
                            /\ pipe[h].offer > 0 \/ NextOp(s).len = 0
      /\ ~pipe[h].offered => pipe[h].offer = 0
      /\ pipe[h].wclosed => closed[h] # "no" \/ (pc[s] = "closing" /\ NextOp(s).h = h)

(* A Put that is over without a failure has seen all the WRITEs.              *)
AnswerInv(i) ==
  Answered(trace[i].h) /\ trace[i].h \notin faulty =>
    /\ ~pipe[trace[i].h].offered
    /\ \A j \in DOMAIN trace : trace[j].op = "WRITE" /\ trace[j].h = trace[i].h => j <= Reached(trace[i].s)

(* What follows from it of a trace without irregularities.                    *)
ReplayInv ==
  /\ \A i \in DOMAIN trace : trace[i].op = "OPEN" /\ Executed(i) => put[trace[i].h].stage # "none"
  /\ \A h \in Handles : h \in failed \/ put[h].err \/ closed[h] = "error" => h \in faulty
  /\ \A i \in DOMAIN trace : trace[i].op = "OPEN" /\ Executed(i) => AnswerInv(i)

FlowHolds == \A i \in DOMAIN trace : trace[i].op = "OPEN" /\ Executed(i) => FlowInv(i)

FullInv == FlowHolds /\ (Regular => ReplayInv)

-----------------------------------------------------------------------------
(* Positions in the trace.                                                    *)
LEMMA NextPosition ==
  ASSUME Types, NEW s \in Streams, Ahead(s) # {}
  PROVE  /\ At(s) \in DOMAIN trace /\ At(s) \in 1..Len(trace) /\ Len(trace) \in Nat
         /\ trace[At(s)].s = s /\ At(s) > idx[s]
         /\ \A i \in DOMAIN trace : trace[i].s = s /\ i < At(s) => i <= idx[s]
  <1>1. Len(trace) \in Nat /\ DOMAIN trace = 1..Len(trace) /\ idx[s] \in Nat
    BY TraceLength DEF Types
  <1>2. Ahead(s) \in SUBSET Nat
    BY <1>1 DEF Ahead
  <1>3. \E n \in Ahead(s) : \A m \in Ahead(s) : n <= m
    BY <1>2, LeastNumber
  <1>4. At(s) \in Ahead(s) /\ \A m \in Ahead(s) : At(s) <= m
    <2>1. At(s) = CHOOSE n \in Ahead(s) : \A m \in Ahead(s) : n <= m
      BY DEF At, Min
    <2> QED BY <1>3, <2>1
  <1>5. ASSUME NEW i \in DOMAIN trace, trace[i].s = s, i < At(s) PROVE i <= idx[s]
    <2>1. i \in Nat /\ At(s) \in Nat
      BY <1>1, <1>2, <1>4
    <2>2. i \notin Ahead(s)
      BY <1>4, <1>5, <2>1
    <2> QED BY <1>1, <1>5, <2>1, <2>2 DEF Ahead
  <1> QED BY <1>1, <1>4, <1>5 DEF Ahead

LEMMA OneStream ==
  ASSUME Types, NEW i \in DOMAIN trace, NEW j \in DOMAIN trace, trace[i].h = trace[j].h
  PROVE  trace[i].s = trace[j].s
  <1>1. trace \in Traces /\ DOMAIN trace = 1..Len(trace) /\ Len(trace) \in Nat
    BY TraceLength DEF Types
  <1>2. ASSUME NEW k \in DOMAIN trace
        PROVE  \E o \in DOMAIN trace : trace[o].op = "OPEN" /\ trace[o].h = trace[k].h /\ trace[o].s = trace[k].s
    <2>1. CASE trace[k].op = "OPEN"
      BY <2>1
    <2>2. CASE trace[k].op # "OPEN"
      <3>1. PICK o \in 1..(k - 1) : trace[o].op = "OPEN" /\ trace[o].h = trace[k].h /\ trace[o].s = trace[k].s
        BY <1>1, <2>2, Lives
      <3>2. o \in DOMAIN trace
        BY <1>1
      <3> QED BY <3>1, <3>2
    <2> QED BY <2>1, <2>2
  <1>3. PICK o \in DOMAIN trace : trace[o].op = "OPEN" /\ trace[o].h = trace[i].h /\ trace[o].s = trace[i].s
    BY <1>2
  <1>4. PICK q \in DOMAIN trace : trace[q].op = "OPEN" /\ trace[q].h = trace[j].h /\ trace[q].s = trace[j].s
    BY <1>2
  <1>5. o = q
    BY <1>1, <1>3, <1>4, Lives
  <1> QED BY <1>3, <1>4, <1>5

(* An operation that ends is the only one that becomes executed.              *)
LEMMA OneExecuted ==
  ASSUME Types, NEW s \in Streams, Ahead(s) # {}, Done(s), trace' = trace
  PROVE  /\ \A i \in DOMAIN trace : Executed(i)' <=> Executed(i) \/ i = At(s)
         /\ idx' \in [Streams -> Nat]
         /\ \A r \in Streams \ {s} : idx'[r] = idx[r] /\ pc'[r] = pc[r]
         /\ idx'[s] = At(s) /\ idx'[s] <= Len(trace) /\ pc'[s] = "head"
  <1>1. /\ idx' = [idx EXCEPT ![s] = At(s)] /\ pc' = [pc EXCEPT ![s] = "head"]
        /\ idx \in [Streams -> Nat] /\ pc \in [Streams -> {"head", "ready", "writing", "closing", "exited"}]
    BY DEF Done, Types
  <1>2. At(s) \in Nat /\ At(s) \in DOMAIN trace /\ trace[At(s)].s = s /\ At(s) > idx[s]
        /\ \A i \in DOMAIN trace : trace[i].s = s /\ i < At(s) => i <= idx[s]
    BY NextPosition
  <1>3. ASSUME NEW i \in DOMAIN trace PROVE Executed(i)' <=> Executed(i) \/ i = At(s)
    <2>1. i \in Nat /\ trace[i].s \in Streams /\ Executed(i)' = (i <= idx'[trace[i].s])
      BY TraceLength, Fields DEF Types, Executed
    <2>2. CASE trace[i].s = s
      <3>1. idx'[s] = At(s) /\ idx[s] \in Nat
        BY <1>1
      <3> QED BY <1>2, <2>1, <2>2, <3>1 DEF Executed
    <2>3. CASE trace[i].s # s
      BY <1>1, <1>2, <2>1, <2>3 DEF Executed
    <2> QED BY <2>2, <2>3
  <1> QED BY <1>1, <1>2, <1>3

(* Of the handle the next operation is about: opened once, and before it;     *)
(* nothing follows its CLOSE.                                                 *)
LEMMA AboutNext ==
  ASSUME Types, NEW s \in Streams, Ahead(s) # {}
  PROVE  /\ NextOp(s).h \in Handles /\ NextOp(s).s = s
         /\ NextOp(s).op \in {"OPEN", "WRITE", "FSYNC", "CLOSE"}
         /\ ~Executed(At(s))
         /\ \A i \in DOMAIN trace : trace[i].h = NextOp(s).h /\ trace[i].op = "CLOSE" => ~Executed(i)
         /\ NextOp(s).op = "OPEN" => \A i \in DOMAIN trace : trace[i].h = NextOp(s).h => ~Executed(i)
         /\ NextOp(s).op # "OPEN" => \E i \in DOMAIN trace :
              trace[i].op = "OPEN" /\ trace[i].h = NextOp(s).h /\ trace[i].s = s /\ Executed(i) /\ i < At(s)
  <1>1. trace \in Traces /\ DOMAIN trace = 1..Len(trace) /\ Len(trace) \in Nat /\ idx[s] \in Nat
    BY TraceLength DEF Types
  <1>2. /\ At(s) \in DOMAIN trace /\ At(s) \in Nat /\ trace[At(s)].s = s /\ At(s) > idx[s] /\ NextOp(s) = trace[At(s)]
        /\ \A i \in DOMAIN trace : trace[i].s = s /\ i < At(s) => i <= idx[s]
    BY NextPosition DEF NextOp
  <1>3. /\ NextOp(s).h \in Handles /\ NextOp(s).s = s
        /\ NextOp(s).op \in {"OPEN", "WRITE", "FSYNC", "CLOSE"}
    BY <1>1, <1>2, Fields
  <1>4. ASSUME NEW i \in DOMAIN trace, trace[i].h = NextOp(s).h, i >= At(s) PROVE ~Executed(i)
    <2>1. trace[i].s = s
      BY <1>2, <1>4, OneStream
    <2> QED BY <1>1, <1>2, <1>4, <2>1 DEF Executed
  <1>5. \A i \in DOMAIN trace : trace[i].h = NextOp(s).h /\ trace[i].op = "CLOSE" => i >= At(s)
    BY <1>1, <1>2, Lives
  <1>6. NextOp(s).op = "OPEN" => \A i \in DOMAIN trace : trace[i].h = NextOp(s).h => i >= At(s)
    BY <1>1, <1>2, Lives
  <1>7. ASSUME NextOp(s).op # "OPEN"
        PROVE  \E i \in DOMAIN trace : trace[i].op = "OPEN" /\ trace[i].h = NextOp(s).h /\ trace[i].s = s
                                       /\ Executed(i) /\ i < At(s)
    <2>1. PICK i \in 1..(At(s) - 1) : trace[i].op = "OPEN" /\ trace[i].h = NextOp(s).h /\ trace[i].s = s
      BY <1>1, <1>2, <1>7, Lives
    <2>2. i \in DOMAIN trace /\ i < At(s)
      BY <1>1, <1>2
    <2>3. Executed(i)
      BY <1>2, <2>1, <2>2 DEF Executed
    <2> QED BY <2>1, <2>2, <2>3
  <1>8. ~Executed(At(s))
    BY <1>2, <1>4
  <1> QED BY <1>3, <1>4, <1>5, <1>6, <1>7, <1>8

-----------------------------------------------------------------------------
(* What a step leaves alone keeps its part of the invariant.                  *)
Live(h) == put[h].stage # "none"

LEMMA StreamStays ==
  ASSUME Types, NEW r \in Streams, StreamInv(r),
         trace' = trace, phase' = phase, cancelled' = cancelled, pc'[r] = pc[r], idx'[r] = idx[r],
         \A h \in Handles : Live(h) => Live(h)'
  PROVE  StreamInv(r)'
  <1>1. Ahead(r)' = Ahead(r)
    BY DEF Ahead
  <1>2. NextOp(r)' = NextOp(r)
    BY <1>1 DEF NextOp, At
  <1>3. Ahead(r) # {} => NextOp(r).h \in Handles
    BY AboutNext
  <1> QED BY <1>1, <1>2, <1>3 DEF StreamInv, Coalesced, Live

LEMMA BegunStays ==
  ASSUME NEW h \in Handles, BegunInv(h), trace' = trace, sizes' = sizes,
         \A i \in DOMAIN trace : Executed(i) => Executed(i)',
         Live(h)' => Live(h) /\ put'[h].size = put[h].size
  PROVE  BegunInv(h)'
  <1> SUFFICES ASSUME Live(h)' PROVE BegunInv(h)'
    BY DEF BegunInv, Live
  <1>1. PICK i \in DOMAIN trace : Admitted(i) /\ trace[i].h = h /\ put[h].size = sizes[trace[i].tgt]
    BY DEF BegunInv, Live
  <1>2. Admitted(i)'
    BY <1>1 DEF Admitted
  <1> QED BY <1>1, <1>2 DEF BegunInv

LEMMA PutStays ==
  ASSUME NEW h \in Handles, PutInv(h), put'[h] = put[h], pipe'[h].rclosed = pipe[h].rclosed,
         ~Live(h) => pipe'[h] = pipe[h], upload'[h] = upload[h], stored'[h] = stored[h]
  PROVE  PutInv(h)'
  BY DEF PutInv, Answered, Multipart, Live

LEMMA CloseStays ==
  ASSUME CloseInv, trace' = trace, closed' = closed,
         \A i \in DOMAIN trace : trace[i].op = "CLOSE" => (Executed(i)' <=> Executed(i)),
         \A h \in Handles : put[h].stage \in {"none", "sent"} /\ closed[h] # "no" => put'[h].stage = put[h].stage
  PROVE  CloseInv'
  <1>1. \A i \in DOMAIN trace : trace[i].op = "CLOSE" /\ Executed(i)' => closed[trace[i].h] # "no"
    BY DEF CloseInv
  <1>2. ASSUME NEW h \in Handles, closed[h] # "no"
        PROVE  /\ put'[h].stage \in {"none", "sent"}
               /\ \E i \in DOMAIN trace : trace[i].op = "CLOSE" /\ trace[i].h = h /\ Executed(i)'
    BY <1>2 DEF CloseInv
  <1>3. /\ \A i \in DOMAIN trace' : trace'[i].op = "CLOSE" /\ Executed(i)' => closed'[trace'[i].h] # "no"
        /\ \A h \in Handles : closed'[h] # "no" =>
             /\ put'[h].stage \in {"none", "sent"}
             /\ \E i \in DOMAIN trace' : trace'[i].op = "CLOSE" /\ trace'[i].h = h /\ Executed(i)'
    BY <1>1, <1>2
  <1> QED BY <1>3 DEF CloseInv

(* A step of the Put of h touches no other handle and no stream.              *)
LEMMA PutSteps ==
  ASSUME Inv, Types', NEW h \in Handles, put[h].stage \notin {"none", "sent"},
         UNCHANGED <<plan, streams, cancelled, closed>>,
         \A g \in Handles \ {h} : /\ put'[g] = put[g] /\ pipe'[g] = pipe[g]
                                  /\ upload'[g] = upload[g] /\ stored'[g] = stored[g],
         put'[h].stage # "none", put'[h].size = put[h].size, PutInv(h)', ObjectInv'
  PROVE  Inv'
  <1>1. /\ trace' = trace /\ phase' = phase /\ sizes' = sizes /\ idx' = idx /\ pc' = pc
        /\ cancelled' = cancelled /\ closed' = closed
    BY DEF plan, streams
  <1>2. \A g \in Handles : Live(g) <=> Live(g)'
    BY DEF Live
  <1>3. PlanInv'
    BY <1>1, <1>2 DEF Inv, PlanInv, Live
  <1>4. \A i \in DOMAIN trace : Executed(i)' <=> Executed(i)
    BY <1>1 DEF Executed
  <1>5. CloseInv'
    <2>1. \A g \in Handles : put[g].stage \in {"none", "sent"} => put'[g].stage = put[g].stage
      OBVIOUS
    <2> QED BY <1>1, <1>4, <2>1, CloseStays DEF Inv
  <1>6. ASSUME NEW r \in Streams PROVE StreamInv(r)'
    BY <1>1, <1>2, StreamStays DEF Inv
  <1>7. ASSUME NEW g \in Handles PROVE BegunInv(g)'
    <2>1. put'[g].size = put[g].size
      OBVIOUS
    <2> QED BY <1>1, <1>2, <1>4, <2>1, BegunStays DEF Inv
  <1>8. ASSUME NEW g \in Handles PROVE PutInv(g)'
    <2>1. CASE g # h
      BY <2>1, PutStays DEF Inv
    <2> QED BY <2>1
  <1> QED BY <1>3, <1>5, <1>6, <1>7, <1>8 DEF Inv

(* The end of an operation that closes nothing, nor begins a Put.             *)
LEMMA StreamEnds ==
  ASSUME Inv, Types', NEW s \in Streams, Ahead(s) # {}, Done(s), NextOp(s).op # "CLOSE",
         UNCHANGED <<plan, cancelled, put, store, closed>>,
         \A h \in Handles : pipe'[h].rclosed = pipe[h].rclosed /\ (~Live(h) => pipe'[h] = pipe[h])
  PROVE  Inv'
  <1>1. /\ trace' = trace /\ phase' = phase /\ sizes' = sizes /\ cancelled' = cancelled /\ closed' = closed
        /\ put' = put /\ upload' = upload /\ stored' = stored /\ object' = object
    BY DEF plan, store
  <1>2. \A g \in Handles : Live(g) <=> Live(g)'
    BY <1>1 DEF Live
  <1>3. PlanInv'
    BY <1>1 DEF Inv, PlanInv
  <1>4. /\ \A i \in DOMAIN trace : Executed(i)' <=> Executed(i) \/ i = At(s)
        /\ \A r \in Streams \ {s} : idx'[r] = idx[r] /\ pc'[r] = pc[r]
        /\ pc'[s] = "head" /\ idx'[s] <= Len(trace)
    BY <1>1, OneExecuted DEF Inv
  <1>5. CloseInv'
    BY <1>1, <1>4, CloseStays DEF Inv, NextOp
  <1>6. ASSUME NEW r \in Streams PROVE StreamInv(r)'
    <2>1. CASE r = s
      BY <1>1, <1>4, <2>1 DEF StreamInv
    <2>2. CASE r # s
      BY <1>1, <1>2, <1>4, <2>2, StreamStays DEF Inv
    <2> QED BY <2>1, <2>2
  <1>7. ASSUME NEW g \in Handles PROVE BegunInv(g)'
    BY <1>1, <1>2, <1>4, BegunStays DEF Inv
  <1>8. ASSUME NEW g \in Handles PROVE PutInv(g)'
    BY <1>1, PutStays DEF Inv
  <1>9. ObjectInv'
    BY <1>1 DEF Inv, ObjectInv
  <1> QED BY <1>3, <1>5, <1>6, <1>7, <1>8, <1>9 DEF Inv

(* A stream that only changes what it is doing.                               *)
LEMMA StreamTurns ==
  ASSUME Inv, Types', NEW s \in Streams, StreamInv(s)',
         UNCHANGED <<plan, idx, cancelled, put, store, closed>>,
         \A r \in Streams \ {s} : pc'[r] = pc[r],
         \A h \in Handles : pipe'[h].rclosed = pipe[h].rclosed /\ (~Live(h) => pipe'[h] = pipe[h])
  PROVE  Inv'
  <1>1. /\ trace' = trace /\ phase' = phase /\ sizes' = sizes /\ cancelled' = cancelled /\ closed' = closed
        /\ put' = put /\ upload' = upload /\ stored' = stored /\ object' = object /\ idx' = idx
    BY DEF plan, store
  <1>2. \A g \in Handles : Live(g) <=> Live(g)'
    BY <1>1 DEF Live
  <1>3. PlanInv'
    BY <1>1 DEF Inv, PlanInv
  <1>4. \A i \in DOMAIN trace : Executed(i)' <=> Executed(i)
    BY <1>1 DEF Executed
  <1>5. CloseInv'
    BY <1>1, <1>4, CloseStays DEF Inv
  <1>6. ASSUME NEW r \in Streams PROVE StreamInv(r)'
    <2>1. CASE r # s
      BY <1>1, <1>2, <2>1, StreamStays DEF Inv
    <2> QED BY <2>1
  <1>7. ASSUME NEW g \in Handles PROVE BegunInv(g)'
    BY <1>1, <1>2, <1>4, BegunStays DEF Inv
  <1>8. ASSUME NEW g \in Handles PROVE PutInv(g)'
    BY <1>1, PutStays DEF Inv
  <1>9. ObjectInv'
    BY <1>1 DEF Inv, ObjectInv
  <1> QED BY <1>3, <1>5, <1>6, <1>7, <1>8, <1>9 DEF Inv

-----------------------------------------------------------------------------
LEMMA InvInit == Init => Inv
  <1> SUFFICES ASSUME Init PROVE Inv
    OBVIOUS
  <1>1. \A h \in Handles : put[h] = NotBegun /\ pipe[h] = Idle /\ upload[h] = "none" /\ stored[h] = None
        /\ closed[h] = "no"
    BY DEF Init
  <1>2. NotBegun.stage = "none" /\ NotBegun.filled = 0 /\ NotBegun.uploaded = 0 /\ ~NotBegun.err /\ ~Idle.rclosed
    BY DEF NotBegun, Idle
  <1>3. Types
    <2>1. NotBegun \in Puts /\ Idle \in Pipes
      BY DEF NotBegun, Idle, Puts, Pipes
    <2> QED BY <2>1 DEF Init, Types
  <1>4. PlanInv
    BY <1>1, <1>2 DEF Init, PlanInv
  <1>5. \A s \in Streams : StreamInv(s)
    BY DEF Init, StreamInv
  <1>6. \A h \in Handles : BegunInv(h) /\ PutInv(h)
    BY <1>1, <1>2 DEF BegunInv, PutInv, Answered
  <1>7. CloseInv
    <2>1. ASSUME NEW i \in DOMAIN trace PROVE ~Executed(i)
      <3>1. i \in 1..Len(trace) /\ trace[i].s \in Streams
        BY <1>3, TraceLength, Fields DEF Types
      <3>2. idx[trace[i].s] = 0
        BY <3>1 DEF Init
      <3> QED BY <1>3, <3>1, <3>2, TraceLength DEF Executed, Types
    <2> QED BY <1>1, <2>1 DEF CloseInv
  <1>8. ObjectInv
    BY DEF Init, ObjectInv
  <1> QED BY <1>3, <1>4, <1>5, <1>6, <1>7, <1>8 DEF Inv

LEMMA PrepareKeeps ==
  ASSUME Inv, Prepare
  PROVE  Inv'
  <1> DEFINE e == Eligibility(trace)[Len(trace)]
  <1>1. /\ trace' = trace /\ idx' = idx /\ pc' = pc /\ cancelled' = cancelled /\ pipe' = pipe /\ put' = put
        /\ upload' = upload /\ object' = object /\ stored' = stored /\ failed' = failed /\ closed' = closed
        /\ faulty' = faulty /\ phase = "preparing"
        /\ IF e.ok THEN phase' = "running" /\ sizes' = e.sizes ELSE phase' = "refused" /\ sizes' = sizes
    BY DEF Prepare, streams, store, results
  <1>2. \A h \in Handles : put[h].stage = "none"
    BY <1>1 DEF Inv, PlanInv
  <1>3. e.ok => e.sizes \in [Targets -> Nat \cup {None}]
    <2>1. trace \in Traces /\ Len(trace) \in Nat
      BY TraceLength DEF Inv, Types
    <2>2. PassKnows(trace, Len(trace), e)
      BY <2>1, PassEstablishes
    <2> HIDE DEF e
    <2> QED BY <2>2 DEF PassKnows
  <1>4. Types'
    BY <1>1, <1>3 DEF Inv, Types
  <1>5. PlanInv'
    BY <1>1, <1>2 DEF PlanInv
  <1>6. ASSUME NEW s \in Streams PROVE StreamInv(s)'
    <2>1. pc[s] \in {"head", "exited"}
      BY <1>1 DEF Inv, StreamInv, Types
    <2>2. Ahead(s)' = Ahead(s)
      BY <1>1 DEF Ahead
    <2> QED BY <1>1, <2>1, <2>2 DEF Inv, StreamInv
  <1>7. ASSUME NEW h \in Handles PROVE BegunInv(h)' /\ PutInv(h)'
    BY <1>1, <1>2, PutStays DEF Inv, BegunInv
  <1>8. CloseInv' /\ ObjectInv'
    BY <1>1, CloseStays DEF Inv, ObjectInv, Executed
  <1> QED BY <1>4, <1>5, <1>6, <1>7, <1>8 DEF Inv

(* The stream's operations.                                                   *)
LEMMA HeadKeeps ==
  ASSUME Inv, NEW s \in Streams, LoopHead(s) \/ Quit(s)
  PROVE  Inv'
  <1>1. /\ UNCHANGED <<plan, idx, cancelled, pipe, put, store, failed, closed, faulty>>
        /\ \/ /\ phase = "running"
              /\ pc' = [pc EXCEPT ![s] = IF Ahead(s) = {} \/ cancelled THEN "exited" ELSE "ready"]
           \/ cancelled /\ pc' = [pc EXCEPT ![s] = "exited"]
    BY DEF LoopHead, Quit, results
  <1>2. pc' \in [Streams -> {"head", "ready", "writing", "closing", "exited"}]
        /\ \A r \in Streams \ {s} : pc'[r] = pc[r]
    BY <1>1 DEF Inv, Types
  <1>3. Types'
    BY <1>1, <1>2 DEF Inv, Types, plan, store
  <1>4. StreamInv(s)'
    <2>1. Ahead(s)' = Ahead(s)
      BY <1>1 DEF Ahead, plan
    <2>2. \/ pc'[s] = "ready" /\ phase = "running" /\ Ahead(s) # {}
          \/ pc'[s] = "exited" /\ (cancelled \/ Ahead(s) = {})
      BY <1>1 DEF Inv, Types
    <2> QED BY <1>1, <2>1, <2>2 DEF Inv, StreamInv, plan
  <1> QED BY <1>1, <1>2, <1>3, <1>4, StreamTurns

LEMMA ReadyMeans ==
  ASSUME Inv, NEW s \in Streams, pc[s] \in {"ready", "writing", "closing"}
  PROVE  phase = "running" /\ Ahead(s) # {} /\ NextOp(s).h \in Handles
  BY AboutNext DEF Inv, StreamInv

LEMMA PipeFed ==
  ASSUME Types, NEW g \in Handles, NEW n \in Nat, NEW b \in BOOLEAN,
         pipe' = [pipe EXCEPT ![g].offer = n, ![g].offered = b]
  PROVE  /\ pipe' \in [Handles -> Pipes] /\ pipe'[g].offer = n /\ pipe'[g].offered = b
         /\ pipe'[g].wclosed = pipe[g].wclosed
         /\ \A h \in Handles : pipe'[h].rclosed = pipe[h].rclosed
         /\ \A h \in Handles \ {g} : pipe'[h] = pipe[h]
  <1>1. pipe \in [Handles -> Pipes]
    BY DEF Types, Pipes
  <1> DEFINE q == [offer |-> n, offered |-> b, wclosed |-> pipe[g].wclosed, rclosed |-> pipe[g].rclosed]
  <1>2. pipe'[g] = q /\ \A h \in Handles \ {g} : pipe'[h] = pipe[h]
    <2>1. pipe[g] \in Pipes
      BY <1>1
    <2> QED BY <1>1, <2>1 DEF Pipes
  <1>3. pipe' = [pipe EXCEPT ![g] = q]
    BY <1>1, <1>2
  <1>4. q \in Pipes /\ q.offer = n /\ q.offered = b /\ q.wclosed = pipe[g].wclosed /\ q.rclosed = pipe[g].rclosed
    BY <1>1 DEF Pipes
  <1> HIDE DEF q
  <1> QED BY <1>1, <1>2, <1>3, <1>4

LEMMA PipeEnded ==
  ASSUME Types, NEW g \in Handles, pipe' = [pipe EXCEPT ![g].wclosed = TRUE]
  PROVE  /\ pipe' \in [Handles -> Pipes] /\ pipe'[g] = [pipe[g] EXCEPT !.wclosed = TRUE]
         /\ \A h \in Handles : pipe'[h].rclosed = pipe[h].rclosed
         /\ \A h \in Handles : pipe'[h].offer = pipe[h].offer /\ pipe'[h].offered = pipe[h].offered
         /\ \A h \in Handles \ {g} : pipe'[h] = pipe[h]
  <1>1. pipe \in [Handles -> Pipes]
    BY DEF Types, Pipes
  <1> DEFINE q == [pipe[g] EXCEPT !.wclosed = TRUE]
  <1>2. q \in Pipes /\ q.rclosed = pipe[g].rclosed /\ q.offer = pipe[g].offer /\ q.offered = pipe[g].offered
    BY <1>1 DEF Pipes
  <1>3. pipe' = [pipe EXCEPT ![g] = q]
    OBVIOUS
  <1> HIDE DEF q
  <1> QED BY <1>1, <1>2, <1>3 DEF q

LEMMA PassiveKeeps ==
  ASSUME Inv, NEW s \in Streams, WriteTaken(s) \/ WriteRejected(s) \/ Fsync(s)
  PROVE  Inv'
  <1>1. /\ Done(s) /\ UNCHANGED <<plan, cancelled, put, store, closed>>
        /\ pc[s] \in {"ready", "writing"}
        /\ Coalesced(NextOp(s).h) /\ NextOp(s).op # "CLOSE"
        /\ \/ pipe' = pipe
           \/ pipe' = [pipe EXCEPT ![NextOp(s).h].offer = 0, ![NextOp(s).h].offered = FALSE]
    BY DEF WriteTaken, WriteRejected, Fsync, Dispatch, Inv, StreamInv, results
  <1>2. Ahead(s) # {} /\ NextOp(s).h \in Handles
    BY <1>1, ReadyMeans
  <1>3. /\ pipe' \in [Handles -> Pipes]
        /\ \A h \in Handles : pipe'[h].rclosed = pipe[h].rclosed /\ (~Live(h) => pipe'[h] = pipe[h])
    <2> DEFINE g == NextOp(s).h
    <2> HIDE DEF g
    <2>1. g \in Handles /\ Live(g) /\ (pipe' = pipe \/ pipe' = [pipe EXCEPT ![g].offer = 0, ![g].offered = FALSE])
      BY <1>1, <1>2 DEF g, Coalesced, Live
    <2>2. Types /\ pipe \in [Handles -> Pipes]
      BY DEF Inv, Types, Pipes
    <2>3. CASE pipe' = pipe
      BY <2>2, <2>3
    <2>4. CASE pipe' = [pipe EXCEPT ![g].offer = 0, ![g].offered = FALSE]
      BY <2>1, <2>2, <2>4, PipeFed
    <2> QED BY <2>1, <2>3, <2>4
  <1>4. Types'
    <2>1. idx' \in [Streams -> Nat] /\ pc' \in [Streams -> {"head", "ready", "writing", "closing", "exited"}]
      BY <1>1, <1>2, OneExecuted DEF Inv, Types, Done, plan
    <2> QED BY <1>1, <1>3, <2>1 DEF Inv, Types, plan, store
  <1> QED BY <1>1, <1>2, <1>3, <1>4, StreamEnds

LEMMA WriteKeeps ==
  ASSUME Inv, NEW s \in Streams, Write(s)
  PROVE  Inv'
  <1> DEFINE g == NextOp(s).h
             n == NextOp(s).len
  <1>1. /\ UNCHANGED <<plan, idx, cancelled, put, store, closed>> /\ pc' = [pc EXCEPT ![s] = "writing"]
        /\ pc[s] = "ready" /\ NextOp(s).op = "WRITE" /\ Coalesced(g)
        /\ pipe' = [pipe EXCEPT ![g].offer = n, ![g].offered = TRUE]
    BY DEF Write, Dispatch, results
  <1>2. phase = "running" /\ Ahead(s) # {} /\ g \in Handles
    BY <1>1, ReadyMeans
  <1>3. n \in Nat
    BY <1>1, <1>2, NextPosition, Fields DEF Inv, Types, NextOp
  <1>4. /\ pipe' \in [Handles -> Pipes]
        /\ \A h \in Handles : pipe'[h].rclosed = pipe[h].rclosed /\ (~Live(h) => pipe'[h] = pipe[h])
    <2> HIDE DEF g, n
    <2>1. Types /\ Live(g)
      BY <1>1 DEF Inv, Live, Coalesced
    <2> QED BY <1>1, <1>2, <1>3, <2>1, PipeFed
  <1>5. pc' \in [Streams -> {"head", "ready", "writing", "closing", "exited"}] /\ pc'[s] = "writing"
        /\ \A r \in Streams \ {s} : pc'[r] = pc[r]
    BY <1>1 DEF Inv, Types
  <1>6. Types'
    BY <1>1, <1>4, <1>5 DEF Inv, Types, plan, store
  <1>7. StreamInv(s)'
    <2>1. Ahead(s)' = Ahead(s) /\ NextOp(s)' = NextOp(s)
      BY <1>1 DEF Ahead, NextOp, At, plan
    <2> QED BY <1>1, <1>2, <1>5, <2>1 DEF Inv, StreamInv, Coalesced, plan
  <1> QED BY <1>1, <1>4, <1>5, <1>6, <1>7, StreamTurns

LEMMA CloseKeeps ==
  ASSUME Inv, NEW s \in Streams, Close(s)
  PROVE  Inv'
  <1> DEFINE g == NextOp(s).h
  <1>1. /\ UNCHANGED <<plan, idx, cancelled, put, store, closed>> /\ pc' = [pc EXCEPT ![s] = "closing"]
        /\ pc[s] = "ready" /\ NextOp(s).op = "CLOSE" /\ Coalesced(g)
        /\ pipe' = [pipe EXCEPT ![g].wclosed = TRUE]
    BY DEF Close, Dispatch, results
  <1>2. phase = "running" /\ Ahead(s) # {} /\ g \in Handles
    BY <1>1, ReadyMeans
  <1>3. /\ pipe' \in [Handles -> Pipes]
        /\ \A h \in Handles : pipe'[h].rclosed = pipe[h].rclosed /\ (~Live(h) => pipe'[h] = pipe[h])
    <2> HIDE DEF g
    <2>1. Types /\ Live(g)
      BY <1>1 DEF Inv, Live, Coalesced
    <2> QED BY <1>1, <1>2, <2>1, PipeEnded
  <1>4. pc' \in [Streams -> {"head", "ready", "writing", "closing", "exited"}] /\ pc'[s] = "closing"
        /\ \A r \in Streams \ {s} : pc'[r] = pc[r]
    BY <1>1 DEF Inv, Types
  <1>5. Types'
    BY <1>1, <1>3, <1>4 DEF Inv, Types, plan, store
  <1>6. StreamInv(s)'
    <2>1. Ahead(s)' = Ahead(s) /\ NextOp(s)' = NextOp(s)
      BY <1>1 DEF Ahead, NextOp, At, plan
    <2> QED BY <1>1, <1>2, <1>4, <2>1 DEF Inv, StreamInv, Coalesced, plan
  <1> QED BY <1>1, <1>3, <1>4, <1>5, <1>6, StreamTurns

(* A CLOSE that has its answer.                                               *)
LEMMA CloseEnds ==
  ASSUME Inv, NEW s \in Streams, Ahead(s) # {}, Done(s), NextOp(s).op = "CLOSE",
         UNCHANGED <<plan, cancelled, pipe, put, store>>, put[NextOp(s).h].stage \in {"none", "sent"},
         NEW r \in {"ok", "error"}, closed' = [closed EXCEPT ![NextOp(s).h] = r]
  PROVE  Inv'
  <1> DEFINE g == NextOp(s).h
  <1>1. /\ trace' = trace /\ phase' = phase /\ sizes' = sizes /\ cancelled' = cancelled /\ pipe' = pipe
        /\ put' = put /\ upload' = upload /\ stored' = stored /\ object' = object
    BY DEF plan, store
  <1>2. \A h \in Handles : Live(h) <=> Live(h)'
    BY <1>1 DEF Live
  <1>3. /\ \A i \in DOMAIN trace : Executed(i)' <=> Executed(i) \/ i = At(s)
        /\ \A q \in Streams \ {s} : idx'[q] = idx[q] /\ pc'[q] = pc[q]
        /\ idx' \in [Streams -> Nat] /\ pc'[s] = "head" /\ idx'[s] <= Len(trace)
    BY <1>1, OneExecuted DEF Inv
  <1>4. g \in Handles /\ At(s) \in DOMAIN trace /\ trace[At(s)].op = "CLOSE" /\ trace[At(s)].h = g
    BY AboutNext, NextPosition DEF Inv, NextOp
  <1>5. closed' \in [Handles -> {"no", "ok", "error"}] /\ closed'[g] = r
        /\ \A h \in Handles \ {g} : closed'[h] = closed[h]
    BY <1>4 DEF Inv, Types
  <1>6. Types'
    <2>1. pc' \in [Streams -> {"head", "ready", "writing", "closing", "exited"}]
      BY DEF Inv, Types, Done
    <2> QED BY <1>1, <1>3, <1>5, <2>1 DEF Inv, Types
  <1>7. PlanInv' /\ ObjectInv'
    BY <1>1 DEF Inv, PlanInv, ObjectInv
  <1>8. CloseInv'
    <2>1. ASSUME NEW i \in DOMAIN trace, trace[i].op = "CLOSE", Executed(i)' PROVE closed'[trace[i].h] # "no"
      <3>1. trace[i].h \in Handles
        BY Fields, TraceLength DEF Inv, Types
      <3>2. CASE trace[i].h = g
        BY <1>5, <3>2
      <3>3. CASE trace[i].h # g
        BY <1>3, <1>4, <1>5, <2>1, <3>1, <3>3 DEF Inv, CloseInv
      <3> QED BY <3>2, <3>3
    <2>2. ASSUME NEW h \in Handles, closed'[h] # "no"
          PROVE  /\ put[h].stage \in {"none", "sent"}
                 /\ \E i \in DOMAIN trace : trace[i].op = "CLOSE" /\ trace[i].h = h /\ Executed(i)'
      <3>1. CASE h = g
        BY <1>3, <1>4, <3>1
      <3>2. CASE h # g
        BY <1>3, <1>5, <2>2, <3>2 DEF Inv, CloseInv
      <3> QED BY <3>1, <3>2
    <2>3. /\ \A i \in DOMAIN trace' : trace'[i].op = "CLOSE" /\ Executed(i)' => closed'[trace'[i].h] # "no"
          /\ \A h \in Handles : closed'[h] # "no" =>
               /\ put'[h].stage \in {"none", "sent"}
               /\ \E i \in DOMAIN trace' : trace'[i].op = "CLOSE" /\ trace'[i].h = h /\ Executed(i)'
      BY <1>1, <2>1, <2>2
    <2> QED BY <2>3 DEF CloseInv
  <1>9. ASSUME NEW q \in Streams PROVE StreamInv(q)'
    <2>1. CASE q = s
      BY <1>1, <1>3, <2>1 DEF StreamInv
    <2>2. CASE q # s
      BY <1>1, <1>2, <1>3, <2>2, StreamStays DEF Inv
    <2> QED BY <2>1, <2>2
  <1>10. ASSUME NEW h \in Handles PROVE BegunInv(h)' /\ PutInv(h)'
    BY <1>1, <1>2, <1>3, BegunStays, PutStays DEF Inv
  <1> QED BY <1>6, <1>7, <1>8, <1>9, <1>10 DEF Inv

LEMMA FinishKeeps ==
  ASSUME Inv, NEW s \in Streams, Finish(s)
  PROVE  Inv'
  <1>1. /\ pc[s] = "closing" /\ put[NextOp(s).h].stage = "sent" /\ Done(s)
        /\ UNCHANGED <<plan, cancelled, pipe, put, store>>
        /\ closed' = [closed EXCEPT ![NextOp(s).h] = IF put[NextOp(s).h].err THEN "error" ELSE "ok"]
    BY DEF Finish
  <1>2. Ahead(s) # {} /\ NextOp(s).op = "CLOSE"
    BY <1>1, ReadyMeans DEF Inv, StreamInv
  <1> DEFINE r == IF put[NextOp(s).h].err THEN "error" ELSE "ok"
  <1>3. r \in {"ok", "error"} /\ closed' = [closed EXCEPT ![NextOp(s).h] = r]
    BY <1>1
  <1> HIDE DEF r
  <1> QED BY <1>1, <1>2, <1>3, CloseEnds

LEMMA NoHandleKeeps ==
  ASSUME Inv, NEW s \in Streams, NoHandle(s)
  PROVE  Inv'
  <1>1. /\ pc[s] = "ready" /\ NextOp(s).op \in {"WRITE", "FSYNC", "CLOSE"} /\ ~Coalesced(NextOp(s).h) /\ Done(s)
        /\ UNCHANGED <<plan, cancelled, pipe, put, store>>
        /\ IF NextOp(s).op = "CLOSE" THEN closed' = [closed EXCEPT ![NextOp(s).h] = "error"]
                                     ELSE closed' = closed
    BY DEF NoHandle, Dispatch
  <1>2. Ahead(s) # {} /\ NextOp(s).h \in Handles /\ put[NextOp(s).h].stage = "none"
    BY <1>1, ReadyMeans DEF Coalesced
  <1>3. CASE NextOp(s).op = "CLOSE"
    BY <1>1, <1>2, <1>3, CloseEnds
  <1>4. CASE NextOp(s).op # "CLOSE"
    <2>1. Types'
      <3>1. idx' \in [Streams -> Nat] /\ pc' \in [Streams -> {"head", "ready", "writing", "closing", "exited"}]
        BY <1>1, <1>2, OneExecuted DEF Inv, Types, Done, plan
      <3> QED BY <1>1, <1>4, <3>1 DEF Inv, Types, plan, store
    <2>2. \A h \in Handles : pipe'[h].rclosed = pipe[h].rclosed /\ (~Live(h) => pipe'[h] = pipe[h])
      BY <1>1
    <2> QED BY <1>1, <1>2, <1>4, <2>1, <2>2, StreamEnds
  <1> QED BY <1>3, <1>4

LEMMA OpenKeeps ==
  ASSUME Inv, NEW s \in Streams, Open(s)
  PROVE  Inv'
  <1> DEFINE o == NextOp(s)
             g == o.h
  <1>1. /\ pc[s] = "ready" /\ o.op = "OPEN" /\ Done(s)
        /\ UNCHANGED <<plan, cancelled, pipe, store, closed>>
        /\ \/ o.mode = "w" /\ sizes[o.tgt] # None
              /\ put' = [put EXCEPT ![g].stage = "begun", ![g].size = sizes[o.tgt]]
           \/ put' = put
    BY DEF Open, Dispatch
  <1>2. Ahead(s) # {} /\ phase = "running" /\ g \in Handles
    BY <1>1, ReadyMeans
  <1>3. CASE put' = put
    <2>1. Types'
      <3>1. idx' \in [Streams -> Nat] /\ pc' \in [Streams -> {"head", "ready", "writing", "closing", "exited"}]
        BY <1>1, <1>2, OneExecuted DEF Inv, Types, Done, plan
      <3> QED BY <1>1, <1>3, <3>1 DEF Inv, Types, plan, store
    <2>2. \A h \in Handles : pipe'[h].rclosed = pipe[h].rclosed /\ (~Live(h) => pipe'[h] = pipe[h])
      BY <1>1
    <2> QED BY <1>1, <1>2, <1>3, <2>1, <2>2, StreamEnds
  <1>4. CASE o.mode = "w" /\ sizes[o.tgt] # None
             /\ put' = [put EXCEPT ![g].stage = "begun", ![g].size = sizes[o.tgt]]
    <2>1. /\ trace' = trace /\ phase' = phase /\ sizes' = sizes /\ cancelled' = cancelled /\ pipe' = pipe
          /\ upload' = upload /\ stored' = stored /\ object' = object /\ closed' = closed
      BY <1>1 DEF plan, store
    <2>2. /\ \A i \in DOMAIN trace : Executed(i)' <=> Executed(i) \/ i = At(s)
          /\ \A q \in Streams \ {s} : idx'[q] = idx[q] /\ pc'[q] = pc[q]
          /\ idx' \in [Streams -> Nat] /\ pc'[s] = "head" /\ idx'[s] <= Len(trace)
      BY <1>1, <1>2, <2>1, OneExecuted DEF Inv
    <2>3. At(s) \in DOMAIN trace /\ trace[At(s)] = o /\ o.tgt \in Targets
      BY <1>1, <1>2, NextPosition, Fields DEF Inv, Types, NextOp
    <2>4. \A i \in DOMAIN trace : trace[i].h = g => ~Executed(i)
      BY <1>1, <1>2, AboutNext DEF Inv
    <2>5. put[g] = NotBegun
      <3>1. ~Live(g)
        BY <1>2, <2>4 DEF Inv, BegunInv, Live, Admitted
      <3> QED BY <1>2, <3>1 DEF Inv, PutInv, Live
    <2>6. closed[g] = "no"
      BY <1>2, <2>4 DEF Inv, CloseInv
    <2>7. /\ put' \in [Handles -> Puts]
          /\ put'[g] = [stage |-> "begun", size |-> sizes[o.tgt], filled |-> 0, uploaded |-> 0, err |-> FALSE]
          /\ \A h \in Handles \ {g} : put'[h] = put[h]
      <3> DEFINE n == sizes[o.tgt]
      <3>1. n \in Nat /\ put \in [Handles -> Puts]
        BY <1>4, <2>3 DEF Inv, Types
      <3> HIDE DEF n, g
      <3>2. put' = [put EXCEPT ![g] = [stage |-> "begun", size |-> n, filled |-> 0, uploaded |-> 0, err |-> FALSE]]
        <4>1. put' = [put EXCEPT ![g].stage = "begun", ![g].size = n]
          BY <1>4 DEF n
        <4>2. put[g] = [stage |-> "none", size |-> 0, filled |-> 0, uploaded |-> 0, err |-> FALSE]
          BY <2>5 DEF NotBegun
        <4> DEFINE q == [stage |-> "begun", size |-> n, filled |-> 0, uploaded |-> 0, err |-> FALSE]
        <4> DEFINE was == put[g]
                   now == [stage |-> "begun", size |-> n, filled |-> was.filled, uploaded |-> was.uploaded, err |-> was.err]
        <4>6. put'[g] = now
          <5>1. was \in Puts
            BY <1>2, <3>1
          <5> QED BY <1>2, <3>1, <4>1, <5>1 DEF Puts
        <4>3. put'[g] = q
          <5>1. was.filled = 0 /\ was.uploaded = 0 /\ was.err = FALSE
            BY <4>2
          <5> HIDE DEF was
          <5> QED BY <4>6, <5>1
        <4>4. put' \in [Handles -> {put'[h] : h \in Handles}] /\ \A h \in Handles \ {g} : put'[h] = put[h]
          BY <3>1, <4>1
        <4> HIDE DEF q
        <4>5. put' = [put EXCEPT ![g] = q]
          BY <1>2, <3>1, <4>3, <4>4
        <4> QED BY <4>5 DEF q
      <3>3. [stage |-> "begun", size |-> n, filled |-> 0, uploaded |-> 0, err |-> FALSE] \in Puts
        BY <3>1 DEF Puts
      <3> QED BY <1>2, <3>1, <3>2, <3>3 DEF n
    <2>8. Types'
      <3>1. pc' \in [Streams -> {"head", "ready", "writing", "closing", "exited"}]
        BY <1>1 DEF Inv, Types, Done
      <3> QED BY <2>1, <2>2, <2>7, <3>1 DEF Inv, Types
    <2>9. PlanInv' /\ ObjectInv'
      BY <1>2, <2>1 DEF Inv, PlanInv, ObjectInv
    <2>10. CloseInv'
      BY <1>1, <2>1, <2>2, <2>3, <2>6, <2>7, CloseStays DEF Inv
    <2>11. \A h \in Handles : Live(h) => Live(h)'
      BY <2>7 DEF Live
    <2>12. ASSUME NEW q \in Streams PROVE StreamInv(q)'
      <3>1. CASE q = s
        BY <2>1, <2>2, <3>1 DEF StreamInv
      <3>2. CASE q # s
        BY <2>1, <2>2, <2>11, <3>2, StreamStays DEF Inv
      <3> QED BY <3>1, <3>2
    <2>13. ASSUME NEW h \in Handles PROVE BegunInv(h)'
      <3>1. CASE h = g
        <4>1. PICK i \in DOMAIN trace : i = At(s)
          BY <2>3
        <4>2. trace[i] = o /\ Executed(i)'
          BY <2>2, <2>3, <4>1
        <4>3. Admitted(i)'
          BY <1>1, <1>4, <2>1, <4>2 DEF Admitted
        <4>4. put'[h].size = sizes[o.tgt] /\ trace[i].h = h
          BY <2>7, <3>1, <4>2
        <4> QED BY <2>1, <4>2, <4>3, <4>4 DEF BegunInv
      <3>2. CASE h # g
        BY <2>1, <2>2, <2>7, <3>2, BegunStays DEF Inv, Live
      <3> QED BY <3>1, <3>2
    <2>14. ASSUME NEW h \in Handles PROVE PutInv(h)'
      <3>1. CASE h = g
        <4>1. stored[g] = None /\ upload[g] = "none" /\ ~pipe[g].rclosed
          BY <1>2, <2>5 DEF Inv, PutInv, NotBegun
        <4>2. put'[h].stage = "begun" /\ put'[h].filled = 0 /\ put'[h].uploaded = 0 /\ ~put'[h].err
          BY <2>7, <3>1
        <4> QED BY <2>1, <3>1, <4>1, <4>2 DEF PutInv, Answered
      <3>2. CASE h # g
        BY <2>1, <2>7, <3>2, PutStays DEF Inv
      <3> QED BY <3>1, <3>2
    <2> QED BY <2>8, <2>9, <2>10, <2>12, <2>13, <2>14 DEF Inv
  <1> QED BY <1>1, <1>3, <1>4

(* The steps of a Put.                                                        *)
LEMMA PutReturned ==
  ASSUME Types, NEW h \in Handles, NEW b \in BOOLEAN,
         put' = [put EXCEPT ![h].stage = "returned", ![h].err = b]
  PROVE  /\ put' \in [Handles -> Puts] /\ \A g \in Handles \ {h} : put'[g] = put[g]
         /\ put'[h] = [stage |-> "returned", size |-> put[h].size, filled |-> put[h].filled,
                       uploaded |-> put[h].uploaded, err |-> b]
         /\ put'[h].stage = "returned" /\ put'[h].filled = put[h].filled /\ put'[h].uploaded = put[h].uploaded
            /\ put'[h].err = b /\ put'[h].size = put[h].size
  <1>1. put \in [Handles -> Puts] /\ put[h] \in Puts
    BY DEF Types
  <1> DEFINE q == [stage |-> "returned", size |-> put[h].size, filled |-> put[h].filled,
                   uploaded |-> put[h].uploaded, err |-> b]
  <1>2. put'[h] = q /\ \A g \in Handles \ {h} : put'[g] = put[g]
    BY <1>1 DEF Puts
  <1>3. put' = [put EXCEPT ![h] = q]
    BY <1>1, <1>2
  <1>4. q \in Puts
    BY <1>1 DEF Puts
  <1>6. q.stage = "returned" /\ q.filled = put[h].filled /\ q.uploaded = put[h].uploaded /\ q.err = b
        /\ q.size = put[h].size
    OBVIOUS
  <1> HIDE DEF q
  <1>5. put' \in [Handles -> Puts]
    BY <1>1, <1>3, <1>4
  <1>7. put'[h].stage = "returned" /\ put'[h].filled = put[h].filled /\ put'[h].uploaded = put[h].uploaded
        /\ put'[h].err = b /\ put'[h].size = put[h].size
    BY <1>2, <1>6
  <1> QED BY <1>2, <1>5, <1>7 DEF q

LEMMA PutMoved ==
  ASSUME Types, NEW h \in Handles, NEW st \in {"reading", "detached", "sent"},
         put' = [put EXCEPT ![h].stage = st]
  PROVE  /\ put' \in [Handles -> Puts] /\ \A g \in Handles \ {h} : put'[g] = put[g]
         /\ put'[h] = [stage |-> st, size |-> put[h].size, filled |-> put[h].filled,
                       uploaded |-> put[h].uploaded, err |-> put[h].err]
         /\ put'[h].stage = st /\ put'[h].filled = put[h].filled /\ put'[h].uploaded = put[h].uploaded
            /\ put'[h].err = put[h].err /\ put'[h].size = put[h].size
  <1>1. put \in [Handles -> Puts] /\ put[h] \in Puts
    BY DEF Types
  <1> DEFINE q == [stage |-> st, size |-> put[h].size, filled |-> put[h].filled,
                   uploaded |-> put[h].uploaded, err |-> put[h].err]
  <1>2. put'[h] = q /\ \A g \in Handles \ {h} : put'[g] = put[g]
    BY <1>1 DEF Puts
  <1>3. put' = [put EXCEPT ![h] = q]
    BY <1>1, <1>2
  <1>4. q \in Puts
    BY <1>1 DEF Puts
  <1>6. q.stage = st /\ q.filled = put[h].filled /\ q.uploaded = put[h].uploaded /\ q.err = put[h].err
        /\ q.size = put[h].size
    OBVIOUS
  <1> HIDE DEF q
  <1>5. put' \in [Handles -> Puts]
    BY <1>1, <1>3, <1>4
  <1>7. put'[h].stage = st /\ put'[h].filled = put[h].filled /\ put'[h].uploaded = put[h].uploaded
        /\ put'[h].err = put[h].err /\ put'[h].size = put[h].size
    BY <1>2, <1>6
  <1> QED BY <1>2, <1>5, <1>7 DEF q

LEMMA PutCounted ==
  ASSUME Types, NEW h \in Handles, NEW n \in Nat, NEW m \in Nat,
         \/ put' = [put EXCEPT ![h].uploaded = n, ![h].filled = m]
         \/ n = put[h].uploaded /\ put' = [put EXCEPT ![h].filled = m]
  PROVE  /\ put' \in [Handles -> Puts] /\ \A g \in Handles \ {h} : put'[g] = put[g]
         /\ put'[h] = [stage |-> put[h].stage, size |-> put[h].size, filled |-> m,
                       uploaded |-> n, err |-> put[h].err]
         /\ put'[h].stage = put[h].stage /\ put'[h].filled = m /\ put'[h].uploaded = n
            /\ put'[h].err = put[h].err /\ put'[h].size = put[h].size
  <1>1. put \in [Handles -> Puts] /\ put[h] \in Puts
    BY DEF Types
  <1> DEFINE q == [stage |-> put[h].stage, size |-> put[h].size, filled |-> m,
                   uploaded |-> n, err |-> put[h].err]
  <1>2. put'[h] = q /\ \A g \in Handles \ {h} : put'[g] = put[g]
    <2>1. CASE put' = [put EXCEPT ![h].uploaded = n, ![h].filled = m]
      BY <1>1, <2>1 DEF Puts
    <2>2. CASE n = put[h].uploaded /\ put' = [put EXCEPT ![h].filled = m]
      BY <1>1, <2>2 DEF Puts
    <2> QED BY <2>1, <2>2
  <1>3. put' = [put EXCEPT ![h] = q]
    <2>1. DOMAIN put' = Handles /\ put' = [g \in Handles |-> put'[g]]
      BY <1>1
    <2> HIDE DEF q
    <2> QED BY <1>1, <1>2, <2>1
  <1>4. q \in Puts
    BY <1>1 DEF Puts
  <1>6. q.stage = put[h].stage /\ q.filled = m /\ q.uploaded = n /\ q.err = put[h].err /\ q.size = put[h].size
    OBVIOUS
  <1> HIDE DEF q
  <1>5. put' \in [Handles -> Puts]
    BY <1>1, <1>3, <1>4
  <1>7. put'[h].stage = put[h].stage /\ put'[h].filled = m /\ put'[h].uploaded = n /\ put'[h].err = put[h].err
        /\ put'[h].size = put[h].size
    BY <1>2, <1>6
  <1> QED BY <1>2, <1>5, <1>7 DEF q

(* What a Put that comes back has to have seen to.                            *)
LEMMA ReturnKeeps ==
  ASSUME Inv, NEW h \in Handles, put[h].stage \in {"begun", "reading"}, NEW b \in BOOLEAN, Returned(h, b),
         UNCHANGED <<plan, streams, cancelled, pipe, closed>>,
         upload' \in [Handles -> {"none", "open", "orphaned", "aborted", "completed"}],
         object' \in [Targets -> Handles \cup {None}], stored' \in [Handles -> Nat \cup {None}],
         \A g \in Handles \ {h} : upload'[g] = upload[g] /\ stored'[g] = stored[g],
         upload'[h] # "open", b \/ stored'[h] # None, stored'[h] # None => stored'[h] = put[h].size,
         ObjectInv'
  PROVE  Inv'
  <1>1. /\ trace' = trace /\ phase' = phase /\ sizes' = sizes /\ idx' = idx /\ pc' = pc
        /\ cancelled' = cancelled /\ pipe' = pipe /\ closed' = closed
    BY DEF plan, streams
  <1>2. /\ put' \in [Handles -> Puts] /\ \A g \in Handles \ {h} : put'[g] = put[g]
        /\ put'[h] = [stage |-> "returned", size |-> put[h].size, filled |-> put[h].filled,
                      uploaded |-> put[h].uploaded, err |-> b]
    BY PutReturned DEF Inv, Returned
  <1>3. Types'
    BY <1>1, <1>2 DEF Inv, Types
  <1>4. PutInv(h)'
    BY <1>2 DEF PutInv, Answered
  <1> QED BY <1>1, <1>2, <1>3, <1>4, PutSteps

LEMMA BeginKeeps ==
  ASSUME Inv, NEW h \in Handles, Begin(h)
  PROVE  Inv'
  <1>1. /\ trace' = trace /\ phase' = phase /\ sizes' = sizes /\ idx' = idx /\ pc' = pc
        /\ cancelled' = cancelled /\ pipe' = pipe /\ closed' = closed /\ object' = object /\ stored' = stored
    BY DEF Begin, plan, streams, results
  <1>2. /\ put[h].stage = "begun" /\ put' = [put EXCEPT ![h].stage = "reading"]
        /\ upload' = IF Multipart(h) THEN [upload EXCEPT ![h] = "open"] ELSE upload
    BY DEF Begin
  <1>3. /\ put' \in [Handles -> Puts] /\ \A g \in Handles \ {h} : put'[g] = put[g]
        /\ put'[h] = [stage |-> "reading", size |-> put[h].size, filled |-> put[h].filled,
                      uploaded |-> put[h].uploaded, err |-> put[h].err]
    BY <1>2, PutMoved DEF Inv
  <1>4. /\ upload' \in [Handles -> {"none", "open", "orphaned", "aborted", "completed"}]
        /\ \A g \in Handles \ {h} : upload'[g] = upload[g]
    BY <1>2 DEF Inv, Types
  <1>5. Types'
    BY <1>1, <1>3, <1>4 DEF Inv, Types
  <1>6. PutInv(h)'
    <2>1. PutInv(h) /\ put[h].size \in Nat /\ PartSize \in Nat
      BY PartsAssumption DEF Inv, Types, Puts
    <2>2. put[h].filled = 0 /\ put[h].uploaded = 0 /\ ~put[h].err /\ stored[h] = None /\ ~pipe[h].rclosed
          /\ upload[h] = "none"
      BY <1>2, <2>1 DEF PutInv
    <2>3. (~Multipart(h) => upload'[h] = "none") /\ Multipart(h)' = Multipart(h)
      BY <1>2, <1>3, <2>2 DEF Multipart
    <2> QED BY <1>1, <1>3, <2>1, <2>2, <2>3 DEF PutInv, Answered, Least
  <1>7. ObjectInv'
    BY <1>1 DEF Inv, ObjectInv
  <1>8. UNCHANGED <<plan, streams, cancelled, closed>>
    BY DEF Begin, results
  <1>9. put[h].stage \notin {"none", "sent"} /\ put'[h].stage # "none" /\ put'[h].size = put[h].size
    BY <1>2, <1>3
  <1> QED BY <1>1, <1>3, <1>4, <1>5, <1>6, <1>7, <1>8, <1>9, PutSteps

LEMMA BeginFailsKeeps ==
  ASSUME Inv, NEW h \in Handles, BeginFails(h)
  PROVE  Inv'
  <1>1. /\ put[h].stage = "begun" /\ Returned(h, TRUE)
        /\ UNCHANGED <<plan, streams, cancelled, pipe, closed>>
        /\ upload' = upload \/ upload' = [upload EXCEPT ![h] = "orphaned"]
        /\ object' = object /\ stored' = stored
    BY DEF BeginFails, results
  <1>2. /\ upload' \in [Handles -> {"none", "open", "orphaned", "aborted", "completed"}]
        /\ upload'[h] # "open" /\ \A g \in Handles \ {h} : upload'[g] = upload[g]
        /\ stored[h] = None
    BY <1>1 DEF Inv, Types, PutInv
  <1>3. ObjectInv'
    BY <1>1 DEF Inv, ObjectInv
  <1> QED BY <1>1, <1>2, <1>3, ReturnKeeps DEF Inv, Types

(* Whatever a part still lacks is at most what the object lacks.              *)
LEMMA ReadingMeans ==
  ASSUME Inv, NEW h \in Handles, put[h].stage = "reading"
  PROVE  /\ put[h].size \in Nat /\ put[h].filled \in Nat /\ put[h].uploaded \in Nat /\ PartSize \in Nat \ {0}
         /\ put[h].uploaded + put[h].filled <= put[h].size
         /\ Missing(h) \in Nat
         /\ Multipart(h) => put[h].filled <= Least(PartSize, put[h].size - put[h].uploaded)
         /\ ~Multipart(h) => put[h].uploaded = 0 /\ upload[h] # "open"
         /\ ~put[h].err /\ stored[h] = None /\ ~pipe[h].rclosed
  <1>1. put[h].size \in Nat /\ put[h].filled \in Nat /\ put[h].uploaded \in Nat /\ PartSize \in Nat \ {0}
    BY PartsAssumption DEF Inv, Types, Puts
  <1>2. PutInv(h)
    BY DEF Inv
  <1>3. CASE Multipart(h)
    BY <1>1, <1>2, <1>3 DEF PutInv, Missing, Least
  <1>4. CASE ~Multipart(h)
    BY <1>1, <1>2, <1>4 DEF PutInv, Missing, Least
  <1> QED BY <1>1, <1>2, <1>3, <1>4 DEF PutInv

LEMMA FailsKeeps ==
  ASSUME Inv, NEW h \in Handles, ReadEnds(h) \/ SendPartFails(h)
  PROVE  Inv'
  <1>1. /\ put[h].stage = "reading" /\ Returned(h, TRUE) /\ Abort(h)
        /\ UNCHANGED <<plan, streams, cancelled, pipe, closed>>
        /\ object' = object /\ stored' = stored
    BY DEF ReadEnds, SendPartFails, results
  <1>2. /\ upload' \in [Handles -> {"none", "open", "orphaned", "aborted", "completed"}]
        /\ upload'[h] # "open" /\ \A g \in Handles \ {h} : upload'[g] = upload[g]
    BY <1>1 DEF Inv, Types, Abort
  <1>3. stored[h] = None /\ ObjectInv'
    BY <1>1, ReadingMeans DEF Inv, ObjectInv
  <1> QED BY <1>1, <1>2, <1>3, ReturnKeeps DEF Inv, Types

LEMMA ReadKeeps ==
  ASSUME Inv, NEW h \in Handles, Read(h)
  PROVE  Inv'
  <1> DEFINE t == Taken(h)
  <1>1. /\ put[h].stage = "reading" /\ pipe[h].offered
        /\ put' = [put EXCEPT ![h].filled = @ + t]
        /\ pipe' = [pipe EXCEPT ![h].offer = @ - t, ![h].offered = pipe[h].offer > t]
        /\ UNCHANGED <<plan, streams, cancelled, closed>>
        /\ upload' = upload /\ object' = object /\ stored' = stored
    BY DEF Read, store, results
  <1>2. t \in Nat /\ t <= Missing(h) /\ t <= pipe[h].offer /\ pipe[h].offer \in Nat
    BY <1>1, ReadingMeans DEF Inv, Types, Pipes, Taken, Least
  <1> DEFINE m == put[h].filled + t
             n == pipe[h].offer - t
             b == pipe[h].offer > t
  <1>3. m \in Nat /\ n \in Nat /\ b \in BOOLEAN /\ put[h].uploaded \in Nat
        /\ put' = [put EXCEPT ![h].filled = m] /\ pipe' = [pipe EXCEPT ![h].offer = n, ![h].offered = b]
    BY <1>1, <1>2, ReadingMeans
  <1>4. /\ put' \in [Handles -> Puts] /\ \A g \in Handles \ {h} : put'[g] = put[g]
        /\ put'[h] = [stage |-> put[h].stage, size |-> put[h].size, filled |-> m,
                      uploaded |-> put[h].uploaded, err |-> put[h].err]
    <2> HIDE DEF m
    <2> QED BY <1>3, PutCounted DEF Inv
  <1>5. /\ pipe' \in [Handles -> Pipes] /\ pipe'[h].rclosed = pipe[h].rclosed
        /\ \A g \in Handles \ {h} : pipe'[g] = pipe[g]
    <2> HIDE DEF n, b
    <2> QED BY <1>3, PipeFed DEF Inv
  <1>6. Types'
    BY <1>1, <1>4, <1>5 DEF Inv, Types, plan, streams
  <1>7. PutInv(h)'
    <2>1. PutInv(h)
      BY DEF Inv
    <2>2. /\ put[h].size \in Nat /\ put[h].filled \in Nat /\ put[h].uploaded \in Nat /\ PartSize \in Nat
          /\ put[h].filled + t <= (IF Multipart(h) THEN Least(PartSize, put[h].size - put[h].uploaded) ELSE put[h].size)
      BY <1>1, <1>2, ReadingMeans DEF Missing, Least, Multipart
    <2>3. /\ put'[h].stage = "reading" /\ put'[h].size = put[h].size /\ put'[h].filled = put[h].filled + t
          /\ put'[h].uploaded = put[h].uploaded /\ put'[h].err = put[h].err
      BY <1>1, <1>4
    <2> HIDE DEF t, m
    <2> QED BY <1>1, <1>5, <2>1, <2>2, <2>3 DEF PutInv, Answered, Multipart
  <1>8. ObjectInv'
    BY <1>1 DEF Inv, ObjectInv
  <1>9. put[h].stage \notin {"none", "sent"} /\ put'[h].stage # "none" /\ put'[h].size = put[h].size
    BY <1>1, <1>4
  <1> QED BY <1>1, <1>4, <1>5, <1>6, <1>7, <1>8, <1>9, PutSteps

LEMMA SendPartKeeps ==
  ASSUME Inv, NEW h \in Handles, SendPart(h)
  PROVE  Inv'
  <1>1. /\ put[h].stage = "reading" /\ Multipart(h) /\ Missing(h) = 0
        /\ put' = [put EXCEPT ![h].uploaded = @ + put[h].filled, ![h].filled = 0]
        /\ pipe' = pipe /\ UNCHANGED <<plan, streams, cancelled, closed>>
        /\ upload' = upload /\ object' = object /\ stored' = stored
    BY DEF SendPart, store, results
  <1> DEFINE n == put[h].uploaded + put[h].filled
  <1>2. n \in Nat /\ put' = [put EXCEPT ![h].uploaded = n, ![h].filled = 0]
    BY <1>1, ReadingMeans
  <1>3. /\ put' \in [Handles -> Puts] /\ \A g \in Handles \ {h} : put'[g] = put[g]
        /\ put'[h] = [stage |-> put[h].stage, size |-> put[h].size, filled |-> 0,
                      uploaded |-> n, err |-> put[h].err]
    <2> HIDE DEF n
    <2> QED BY <1>2, PutCounted DEF Inv
  <1>4. Types'
    BY <1>1, <1>3 DEF Inv, Types, plan, streams
  <1>5. PutInv(h)'
    <2>1. PutInv(h)
      BY DEF Inv
    <2>2. put[h].size \in Nat /\ n \in Nat /\ n <= put[h].size /\ PartSize \in Nat
      BY <1>1, <1>2, ReadingMeans
    <2>3. /\ put'[h].stage = "reading" /\ put'[h].size = put[h].size /\ put'[h].filled = 0
          /\ put'[h].uploaded = n /\ put'[h].err = put[h].err
      BY <1>1, <1>3
    <2> HIDE DEF n
    <2> QED BY <1>1, <2>1, <2>2, <2>3 DEF PutInv, Answered, Multipart, Least
  <1>6. ObjectInv'
    BY <1>1 DEF Inv, ObjectInv
  <1>7. put[h].stage \notin {"none", "sent"} /\ put'[h].stage # "none" /\ put'[h].size = put[h].size
    BY <1>1, <1>3
  <1> QED BY <1>1, <1>3, <1>4, <1>5, <1>6, <1>7, PutSteps

(* What is stored is what the OPEN announced.                                 *)
LEMMA ReadyMeansWhole ==
  ASSUME Inv, NEW h \in Handles, ReadyToStore(h)
  PROVE  put[h].uploaded + put[h].filled = put[h].size
  <1>1. put[h].stage = "reading"
    BY DEF ReadyToStore
  <1>2. CASE Multipart(h)
    BY <1>1, <1>2, ReadingMeans DEF ReadyToStore
  <1>3. CASE ~Multipart(h)
    BY <1>1, <1>3, ReadingMeans DEF ReadyToStore, Missing
  <1> QED BY <1>2, <1>3

LEMMA TargetKnown ==
  ASSUME Inv, NEW h \in Handles, Live(h)
  PROVE  /\ Target(h) \in Targets /\ sizes[Target(h)] # None /\ put[h].size = sizes[Target(h)]
         /\ \E i \in DOMAIN trace : Admitted(i) /\ trace[i].h = h /\ trace[i].tgt = Target(h)
  <1>1. PICK i \in DOMAIN trace : Admitted(i) /\ trace[i].h = h /\ put[h].size = sizes[trace[i].tgt]
    BY DEF Inv, BegunInv, Live
  <1>2. trace \in Traces /\ trace \in Seq(Ops) /\ i \in 1..Len(trace) /\ DOMAIN trace = 1..Len(trace)
    BY TracesAssumption, TraceLength DEF Inv, Types
  <1>3. \A o \in ToSet(trace) : o.op = "OPEN" /\ o.h = h => o = trace[i]
    <2>1. ASSUME NEW j \in DOMAIN trace, trace[j].op = "OPEN", trace[j].h = h PROVE j = i
      BY <1>1, <1>2, <2>1, Lives DEF Admitted
    <2> QED BY <2>1 DEF ToSet
  <1>4. trace[i] \in ToSet(trace) /\ trace[i].op = "OPEN"
    BY <1>1 DEF ToSet, Admitted
  <1>5. Target(h) = trace[i].tgt
    BY <1>1, <1>3, <1>4 DEF Target
  <1> QED BY <1>1, <1>2, <1>5, Fields DEF Admitted

LEMMA StoreKeeps ==
  ASSUME Inv, NEW h \in Handles, Store(h) \/ StoreFails(h)
  PROVE  Inv'
  <1>1. /\ ReadyToStore(h) /\ put[h].stage = "reading" /\ UNCHANGED <<plan, streams, cancelled, pipe, closed>>
        /\ \/ /\ Lands(h) /\ upload' = IF Multipart(h) THEN [upload EXCEPT ![h] = "completed"] ELSE upload
              /\ Returned(h, TRUE) \/ Returned(h, FALSE)
           \/ Abort(h) /\ object' = object /\ stored' = stored /\ Returned(h, TRUE)
    BY DEF Store, StoreFails, ReadyToStore, results
  <1>2. /\ upload' \in [Handles -> {"none", "open", "orphaned", "aborted", "completed"}] /\ upload'[h] # "open"
        /\ \A g \in Handles \ {h} : upload'[g] = upload[g]
    BY <1>1, ReadingMeans DEF Inv, Types, Abort
  <1>3. stored[h] = None /\ put[h].size \in Nat /\ put[h].size # None
    BY <1>1, ReadingMeans, ObjectsAssumption
  <1>4. CASE Lands(h)
    <2>1. stored' = [stored EXCEPT ![h] = put[h].size] /\ object' = [object EXCEPT ![Target(h)] = h]
      BY <1>1, <1>4, ReadyMeansWhole DEF Lands
    <2>2. /\ stored' \in [Handles -> Nat \cup {None}] /\ stored'[h] = put[h].size
          /\ \A g \in Handles \ {h} : stored'[g] = stored[g]
      BY <1>3, <2>1 DEF Inv, Types
    <2>3. object' \in [Targets -> Handles \cup {None}] /\ \A t \in Targets : object'[t] = h \/ object'[t] = object[t]
      BY <2>1 DEF Inv, Types
    <2>4. ObjectInv'
      BY <1>3, <2>2, <2>3 DEF Inv, ObjectInv, Types
    <2>5. PICK b \in BOOLEAN : Returned(h, b)
      BY <1>1
    <2> QED BY <1>1, <1>2, <1>3, <2>2, <2>3, <2>4, <2>5, ReturnKeeps
  <1>5. CASE object' = object /\ stored' = stored /\ Returned(h, TRUE)
    <2>1. ObjectInv'
      BY <1>5 DEF Inv, ObjectInv
    <2> QED BY <1>1, <1>2, <1>3, <1>5, <2>1, ReturnKeeps DEF Inv, Types
  <1> QED BY <1>1, <1>4, <1>5

LEMMA AnswerKeeps ==
  ASSUME Inv, NEW h \in Handles, CloseReader(h) \/ SendErr(h)
  PROVE  Inv'
  <1>1. /\ UNCHANGED <<plan, streams, cancelled, closed>>
        /\ upload' = upload /\ object' = object /\ stored' = stored
        /\ put[h].stage \in {"returned", "detached"}
    BY DEF CloseReader, SendErr, store, results
  <1>2. PICK st \in {"detached", "sent"} :
          /\ put' = [put EXCEPT ![h].stage = st]
          /\ pipe' = pipe \/ pipe' = [pipe EXCEPT ![h].rclosed = TRUE]
    BY DEF CloseReader, SendErr
  <1>3. /\ put' \in [Handles -> Puts] /\ \A g \in Handles \ {h} : put'[g] = put[g]
        /\ put'[h] = [stage |-> st, size |-> put[h].size, filled |-> put[h].filled,
                      uploaded |-> put[h].uploaded, err |-> put[h].err]
    BY <1>2, PutMoved DEF Inv
  <1>4. pipe' \in [Handles -> Pipes] /\ \A g \in Handles \ {h} : pipe'[g] = pipe[g]
    <2>1. pipe \in [Handles -> Pipes]
      BY DEF Inv, Types
    <2>2. [pipe[h] EXCEPT !.rclosed = TRUE] \in Pipes
      BY <2>1 DEF Pipes
    <2> QED BY <1>2, <2>1, <2>2
  <1>5. Types'
    BY <1>1, <1>3, <1>4 DEF Inv, Types, plan, streams
  <1>6. PutInv(h)'
    <2>1. PutInv(h)
      BY DEF Inv
    <2>2. /\ put'[h].stage = st /\ put'[h].size = put[h].size /\ put'[h].filled = put[h].filled
          /\ put'[h].uploaded = put[h].uploaded /\ put'[h].err = put[h].err
      BY <1>3
    <2> QED BY <1>1, <2>1, <2>2 DEF PutInv, Answered
  <1>7. ObjectInv'
    BY <1>1 DEF Inv, ObjectInv
  <1>8. put[h].stage \notin {"none", "sent"} /\ put'[h].stage # "none" /\ put'[h].size = put[h].size
    BY <1>1, <1>3
  <1> QED BY <1>1, <1>3, <1>4, <1>5, <1>6, <1>7, <1>8, PutSteps

(* Every step keeps the invariant.                                            *)
LEMMA InvStep == Inv /\ [Next]_vars => Inv'
  <1> SUFFICES ASSUME Inv, [Next]_vars PROVE Inv'
    OBVIOUS
  <1>1. CASE Prepare
    BY <1>1, PrepareKeeps
  <1>2. ASSUME NEW s \in Streams, StreamStep(s) PROVE Inv'
    BY <1>2, HeadKeeps, OpenKeeps, WriteKeeps, PassiveKeeps, NoHandleKeeps, CloseKeeps, FinishKeeps DEF StreamStep
  <1>3. ASSUME NEW h \in Handles, PutStep(h) PROVE Inv'
    BY <1>3, BeginKeeps, BeginFailsKeeps, ReadKeeps, FailsKeeps, SendPartKeeps, StoreKeeps, AnswerKeeps DEF PutStep
  <1>4. CASE Cancel \/ UNCHANGED vars
    <2>1. /\ trace' = trace /\ phase' = phase /\ sizes' = sizes /\ idx' = idx /\ pc' = pc /\ pipe' = pipe
          /\ put' = put /\ upload' = upload /\ object' = object /\ stored' = stored /\ closed' = closed
          /\ cancelled' = cancelled \/ cancelled' = TRUE
      BY <1>4 DEF Cancel, vars, plan, streams, store, results
    <2>2. Types' /\ PlanInv' /\ ObjectInv'
      BY <2>1 DEF Inv, Types, PlanInv, ObjectInv
    <2>3. CloseInv'
      BY <2>1, CloseStays DEF Inv, Executed
    <2>4. ASSUME NEW s \in Streams PROVE StreamInv(s)'
      <3>1. Ahead(s)' = Ahead(s) /\ NextOp(s)' = NextOp(s)
        BY <2>1 DEF Ahead, NextOp, At
      <3> QED BY <2>1, <3>1 DEF Inv, StreamInv, Coalesced
    <2>5. ASSUME NEW h \in Handles PROVE BegunInv(h)' /\ PutInv(h)'
      BY <2>1, BegunStays, PutStays DEF Inv, Executed, Live
    <2> QED BY <2>2, <2>3, <2>4, <2>5 DEF Inv
  <1> QED BY <1>1, <1>2, <1>3, <1>4 DEF Next, Over

LEMMA InvHolds == Spec => []Inv
  BY InvInit, InvStep, PTL DEF Spec

-----------------------------------------------------------------------------
(* Whatever fails, a Put that is over leaves no upload open but one the store *)
(* orphaned, and what was not cancelled leaves no Put behind of a handle that *)
(* the trace closes.                                                          *)
THEOREM RunsSettle == Spec => []Settled
  <1>1. Inv => Settled
    <2> SUFFICES ASSUME Inv
                 PROVE  Settled
      OBVIOUS
    <2>1. ASSUME NEW h \in Handles, put[h].stage \in {"returned", "detached", "sent"} PROVE upload[h] # "open"
      BY <2>1 DEF Inv, PutInv, Answered
    <2>2. ASSUME NEW h \in Handles, closed[h] # "no" PROVE put[h].stage \in {"none", "sent"}
      BY <2>2 DEF Inv, CloseInv
    <2>3. ASSUME Exited, ~cancelled, NEW h \in Handles, Performs(h, {"CLOSE"}) PROVE closed[h] # "no"
      <3>1. PICK i \in DOMAIN trace : trace[i].op = "CLOSE" /\ trace[i].h = h
        BY <2>3 DEF Performs
      <3>2. i \in 1..Len(trace) /\ trace[i].s \in Streams /\ Len(trace) \in Nat
        BY TraceLength, Fields DEF Inv, Types
      <3>3. i \notin Ahead(trace[i].s) /\ idx[trace[i].s] \in Nat
        BY <2>3, <3>2 DEF Inv, StreamInv, Exited, Types
      <3>4. Executed(i)
        BY <3>1, <3>2, <3>3 DEF Ahead, Executed
      <3> QED BY <3>1, <3>4 DEF Inv, CloseInv
    <2> QED BY <2>1, <2>2, <2>3 DEF Settled
  <1> QED BY <1>1, InvHolds, PTL

(* Two furthest bytes are one; Covered is the furthest byte of a trace.       *)
LEMMA OneFurthest ==
  ASSUME NEW tr \in Traces, NEW h, NEW n \in 0..Len(tr), NEW m, NEW k, Furthest(tr, h, n, m), Furthest(tr, h, n, k)
  PROVE  m = k
  <1>1. \A j \in WritesOf(tr, h, n) : End(tr[j]) \in Nat
    <2>1. ASSUME NEW j \in WritesOf(tr, h, n) PROVE End(tr[j]) \in Nat
      <3>1. j \in 1..Len(tr) /\ tr[j].op = "WRITE"
        BY TraceLength DEF WritesOf
      <3> QED BY <3>1, Fields DEF End
    <2> QED BY <2>1
  <1>2. m <= k /\ k <= m
    BY <1>1 DEF Furthest
  <1> QED BY <1>2 DEF Furthest

LEMMA CoveredIsFurthest ==
  ASSUME Types, NEW h, NEW m, Furthest(trace, h, Len(trace), m)
  PROVE  Covered(h) = m
  <1> DEFINE W == {i \in DOMAIN trace : trace[i].op = "WRITE" /\ trace[i].h = h}
             C == {0} \cup {trace[i].off + trace[i].len : i \in W}
  <1>1. trace \in Traces /\ W = WritesOf(trace, h, Len(trace))
    BY TraceLength DEF Types, WritesOf
  <1>2. \A j \in W : End(trace[j]) = trace[j].off + trace[j].len
    BY DEF End
  <1>3. m \in C /\ \A c \in C : m >= c
    BY <1>1, <1>2 DEF Furthest
  <1>4. C \subseteq Nat
    <2>1. ASSUME NEW j \in W PROVE trace[j].off + trace[j].len \in Nat
      BY <1>1, Fields, TraceLength
    <2> QED BY <2>1
  <1>5. \A x \in C : (\A c \in C : x >= c) => x = m
    BY <1>3, <1>4
  <1>6. (CHOOSE x \in C : \A c \in C : x >= c) = m
    <2> HIDE DEF C
    <2> QED BY <1>3, <1>5
  <1> QED BY <1>6 DEF Covered, Max

(* Where the lifecycles of an object agree, the size PREPARE noted is theirs. *)
LEMMA SizeIsCovered ==
  ASSUME Inv, SizesAgree, NEW h \in Handles, Live(h)
  PROVE  put[h].size = Covered(h)
  <1> DEFINE e == Eligibility(trace)[Len(trace)]
             t == Target(h)
  <1>1. PICK i \in DOMAIN trace : Admitted(i) /\ trace[i].h = h /\ trace[i].tgt = t
    BY TargetKnown
  <1>2. t \in Targets /\ sizes[t] # None /\ put[h].size = sizes[t]
    BY TargetKnown
  <1>3. trace \in Traces /\ Len(trace) \in Nat /\ DOMAIN trace = 1..Len(trace)
    BY TraceLength DEF Inv, Types
  <1>4. e.ok /\ sizes = e.sizes
    BY DEF Inv, PlanInv, Live
  <1>5. PassKnows(trace, Len(trace), e)
    BY <1>3, PassEstablishes
  <1> HIDE DEF e, t
  <1>6. SizeKnown(trace, Len(trace), e, t)
    BY <1>2, <1>4, <1>5 DEF PassKnows
  <1>7. PICK j \in DOMAIN trace : /\ trace[j].op = "OPEN" /\ trace[j].mode = "w" /\ trace[j].tgt = t
                                  /\ Furthest(trace, trace[j].h, Len(trace), sizes[t])
    BY <1>3, <1>4, <1>6 DEF SizeKnown
  <1>8. Covered(trace[j].h) = sizes[t]
    BY <1>7, CoveredIsFurthest DEF Inv
  <1>9. Covered(trace[i].h) = Covered(trace[j].h)
    BY <1>1, <1>7 DEF SizesAgree, Admitted
  <1> QED BY <1>1, <1>2, <1>8, <1>9

(* An object is replaced as a whole or not at all: what a Put stores is every *)
(* byte of its handle's WRITEs, when the lifecycles of the object agree on    *)
(* its size, which PREPARE does not check (objectwrite.go:15).                *)
THEOREM ObjectsAreWhole == Spec => []WholeObjects
  <1>1. Inv => WholeObjects
    <2> SUFFICES ASSUME Inv, SizesAgree, NEW t \in Targets, object[t] # None
                 PROVE  stored[object[t]] = Covered(object[t])
      BY DEF WholeObjects, NoPartialObject
    <2>1. object[t] \in Handles /\ stored[object[t]] # None
      BY DEF Inv, Types, ObjectInv
    <2>2. stored[object[t]] = put[object[t]].size /\ Live(object[t])
      BY <2>1 DEF Inv, PutInv, Live
    <2> QED BY <2>1, <2>2, SizeIsCovered
  <1> QED BY <1>1, InvHolds, PTL

-----------------------------------------------------------------------------
(* Pipe, Put and upload implement atomic replacement.                         *)
Landed == {h \in Handles : stored[h] # None}

LEMMA ContractInit == Init => Contract!Init
  BY DEF Init, Contract!Init

LEMMA LandIsContractLand ==
  ASSUME Inv, NEW h \in Handles, Store(h) \/ StoreFails(h), ~UNCHANGED store
  PROVE  Contract!Next \/ UNCHANGED Contract!vars
  <1>1. /\ ReadyToStore(h) /\ put[h].stage = "reading" /\ closed' = closed
        /\ Lands(h) \/ (object' = object /\ stored' = stored)
    BY DEF Store, StoreFails, ReadyToStore, results
  <1>2. CASE object' = object /\ stored' = stored
    BY <1>1, <1>2 DEF Contract!vars
  <1>3. CASE Lands(h)
    <2>1. stored' = [stored EXCEPT ![h] = put[h].size] /\ object' = [object EXCEPT ![Target(h)] = h]
      BY <1>1, <1>3, ReadyMeansWhole DEF Lands
    <2>2. stored[h] = None /\ put[h].size # None /\ stored \in [Handles -> Nat \cup {None}]
      BY <1>1, ReadingMeans, ObjectsAssumption DEF Inv, Types
    <2>3. Landed' = Landed \cup {h} /\ h \notin Landed
      BY <2>1, <2>2 DEF Landed
    <2>4. closed[h] = "no" /\ Target(h) \in Targets
      BY <1>1, TargetKnown DEF Inv, CloseInv, Live
    <2>5. Contract!Land(h)
      BY <1>1, <2>1, <2>3, <2>4 DEF Contract!Land, Landed
    <2> QED BY <2>5 DEF Contract!Next
  <1> QED BY <1>1, <1>2, <1>3

LEMMA CloseIsContractClose ==
  ASSUME Inv, NEW s \in Streams, Finish(s) \/ NoHandle(s)
  PROVE  Contract!Next \/ UNCHANGED Contract!vars
  <1> DEFINE g == NextOp(s).h
  <1>1. /\ object' = object /\ stored' = stored /\ pc[s] \in {"closing", "ready"}
        /\ \/ closed' = closed
           \/ /\ NextOp(s).op = "CLOSE" /\ closed' = [closed EXCEPT ![g] = "error"]
           \/ /\ NextOp(s).op = "CLOSE" /\ closed' = [closed EXCEPT ![g] = "ok"]
              /\ put[g].stage = "sent" /\ ~put[g].err
    <2>1. CASE Finish(s)
      <3>1. NextOp(s).op = "CLOSE"
        BY <2>1 DEF Finish, Inv, StreamInv
      <3> QED BY <2>1, <3>1 DEF Finish, store
    <2>2. CASE NoHandle(s)
      BY <2>2 DEF NoHandle, Dispatch, store
    <2> QED BY <2>1, <2>2
  <1>2. CASE closed' = closed
    BY <1>1, <1>2 DEF Contract!vars
  <1>3. CASE closed' # closed
    <2>1. Ahead(s) # {} /\ g \in Handles /\ NextOp(s).op = "CLOSE"
      BY <1>1, <1>3, ReadyMeans
    <2>2. closed[g] = "no"
      BY <2>1, AboutNext DEF Inv, CloseInv
    <2>3. closed' = [closed EXCEPT ![g] = "ok"] => g \in Landed \/ closed' = [closed EXCEPT ![g] = "error"]
      BY <1>1, <1>3, <2>1 DEF Inv, PutInv, Answered, Landed
    <2>4. Contract!Close(g)
      BY <1>1, <1>3, <2>1, <2>2, <2>3 DEF Contract!Close, Landed
    <2> QED BY <2>1, <2>4 DEF Contract!Next
  <1> QED BY <1>2, <1>3

(* Writing through a handle replaces one object, at most once and as a whole, *)
(* while the handle is open; CLOSE tells whether it has happened; after a     *)
(* failed CLOSE nothing more does (scheduler.go, "the Put either lands        *)
(* durably or fails outright at CLOSE").                                      *)
THEOREM ObjectWritesAreAtomic == Spec => ImplementsAtomicObjects
  <1>1. Inv /\ [Next]_vars => [Contract!Next]_Contract!vars
    <2> SUFFICES ASSUME Inv, [Next]_vars PROVE Contract!Next \/ UNCHANGED Contract!vars
      OBVIOUS
    <2>1. CASE object' = object /\ stored' = stored /\ closed' = closed
      BY <2>1 DEF Contract!vars
    <2>2. CASE Prepare \/ Cancel \/ UNCHANGED vars
      BY <2>1, <2>2 DEF Prepare, Cancel, vars, store, results
    <2>3. ASSUME NEW s \in Streams, StreamStep(s) PROVE Contract!Next \/ UNCHANGED Contract!vars
      <3>1. CASE Finish(s) \/ NoHandle(s)
        BY <3>1, CloseIsContractClose
      <3>2. CASE ~(Finish(s) \/ NoHandle(s))
        BY <2>1, <2>3, <3>2
          DEF StreamStep, LoopHead, Quit, Open, Write, WriteTaken, WriteRejected, Fsync, Close, store, results
      <3> QED BY <3>1, <3>2
    <2>4. ASSUME NEW h \in Handles, PutStep(h) PROVE Contract!Next \/ UNCHANGED Contract!vars
      <3>1. CASE Store(h) \/ StoreFails(h)
        <4>1. CASE UNCHANGED store
          BY <2>1, <3>1, <4>1 DEF store, Store, StoreFails, results
        <4> QED BY <3>1, <4>1, LandIsContractLand
      <3>2. CASE ~(Store(h) \/ StoreFails(h))
        BY <2>1, <2>4, <3>2
          DEF PutStep, Begin, BeginFails, Read, ReadEnds, SendPart, SendPartFails, CloseReader, SendErr, store, results
      <3> QED BY <3>1, <3>2
    <2> QED BY <2>2, <2>3, <2>4 DEF Next, Over
  <1> QED BY <1>1, ContractInit, InvHolds, PTL DEF Spec, ImplementsAtomicObjects, Contract!Spec

-----------------------------------------------------------------------------
(* The flow through the pipe.                                                 *)

(* Between a stream's position and its next operation lies nothing of its     *)
(* own.                                                                       *)
LEMMA NothingBetween ==
  ASSUME Inv, NEW s \in Streams, Ahead(s) # {}, NEW i \in DOMAIN trace, trace[i].s = s, NEW m,
         Furthest(trace, trace[i].h, idx[s], m)
  PROVE  /\ Furthest(trace, trace[i].h, At(s) - 1, m)
         /\ ~(NextOp(s).op = "WRITE" /\ NextOp(s).h = trace[i].h) => Furthest(trace, trace[i].h, At(s), m)
  <1> DEFINE h == trace[i].h
  <1>1. /\ At(s) \in 1..Len(trace) /\ DOMAIN trace = 1..Len(trace) /\ Len(trace) \in Nat
        /\ At(s) > idx[s] /\ idx[s] \in Nat
        /\ \A j \in DOMAIN trace : trace[j].s = s /\ j < At(s) => j <= idx[s]
    BY NextPosition, TraceLength DEF Inv, Types
  <1>2. ASSUME NEW j \in 1..Len(trace), trace[j].h = h PROVE trace[j].s = s
    BY <1>1, <1>2, OneStream DEF Inv
  <1>3. WritesOf(trace, h, At(s) - 1) = WritesOf(trace, h, idx[s])
    <2>1. ASSUME NEW j \in WritesOf(trace, h, At(s) - 1) PROVE j \in WritesOf(trace, h, idx[s])
      <3>1. j \in 1..Len(trace) /\ j \in Nat /\ j < At(s) /\ trace[j].op = "WRITE" /\ trace[j].h = h
        BY <1>1, <2>1 DEF WritesOf
      <3> QED BY <1>1, <1>2, <3>1 DEF WritesOf
    <2>2. ASSUME NEW j \in WritesOf(trace, h, idx[s]) PROVE j \in WritesOf(trace, h, At(s) - 1)
      BY <1>1, <2>2 DEF WritesOf
    <2> QED BY <2>1, <2>2
  <1>4. Furthest(trace, h, At(s) - 1, m)
    BY <1>3 DEF Furthest
  <1>5. ASSUME ~(NextOp(s).op = "WRITE" /\ NextOp(s).h = h) PROVE Furthest(trace, h, At(s), m)
    <2>1. WritesOf(trace, h, At(s)) = WritesOf(trace, h, At(s) - 1)
      BY <1>1, <1>5 DEF WritesOf, NextOp
    <2> QED BY <1>4, <2>1 DEF Furthest
  <1> QED BY <1>4, <1>5

LEMMA FlowStays ==
  ASSUME Types, NEW i \in DOMAIN trace, FlowInv(i), trace' = trace,
         put'[trace[i].h] = put[trace[i].h], pipe'[trace[i].h] = pipe[trace[i].h],
         closed'[trace[i].h] = closed[trace[i].h], pc'[trace[i].s] = pc[trace[i].s], idx'[trace[i].s] = idx[trace[i].s]
  PROVE  FlowInv(i)'
  <1> DEFINE s == trace[i].s
  <1>1. Reached(s)' = Reached(s) /\ NextOp(s)' = NextOp(s)
    BY DEF Reached, NextOp, At, Ahead
  <1> QED BY <1>1 DEF FlowInv

(* A step of a Put keeps the flow if it keeps the sum.                        *)
LEMMA FlowOfPut ==
  ASSUME Types, NEW h \in Handles, NEW i \in DOMAIN trace, FlowInv(i),
         UNCHANGED <<plan, streams, closed>>,
         \A g \in Handles \ {h} : put'[g] = put[g] /\ pipe'[g] = pipe[g],
         put'[h].stage \in {"begun", "reading"} =>
           /\ put[h].stage \in {"begun", "reading"}
           /\ put'[h].uploaded + put'[h].filled + pipe'[h].offer = put[h].uploaded + put[h].filled + pipe[h].offer,
         pipe'[h].offered => pipe[h].offered /\ (pipe'[h].offer > 0 \/ pipe'[h].offer = pipe[h].offer),
         ~pipe'[h].offered => pipe'[h].offer = 0 \/ (~pipe[h].offered /\ pipe'[h].offer = pipe[h].offer),
         pipe'[h].wclosed = pipe[h].wclosed
  PROVE  FlowInv(i)'
  <1> DEFINE s == trace[i].s
  <1>1. trace' = trace /\ idx' = idx /\ pc' = pc /\ closed' = closed
    BY DEF plan, streams
  <1>2. Reached(s)' = Reached(s) /\ NextOp(s)' = NextOp(s)
    BY <1>1 DEF Reached, NextOp, At, Ahead
  <1>3. trace[i].h \in Handles
    BY TraceLength, Fields DEF Types
  <1>4. CASE trace[i].h = h
    BY <1>1, <1>2, <1>4 DEF FlowInv
  <1>5. CASE trace[i].h # h
    BY <1>1, <1>3, <1>5, FlowStays
  <1> QED BY <1>4, <1>5

(* The end of an operation of the handle's own stream.                        *)
LEMMA FlowEnds ==
  ASSUME Inv, NEW s \in Streams, Ahead(s) # {}, Done(s), trace' = trace, pc[s] \in {"ready", "writing", "closing"},
         NEW i \in DOMAIN trace, trace[i].s = s, FlowInv(i),
         put'[trace[i].h].stage = put[trace[i].h].stage,
         pc[s] = "writing" \/ ~(NextOp(s).op = "WRITE" /\ NextOp(s).h = trace[i].h) \/ ~Live(trace[i].h),
         put[trace[i].h].stage \in {"begun", "reading"} =>
           put'[trace[i].h].uploaded + put'[trace[i].h].filled + pipe'[trace[i].h].offer
             = put[trace[i].h].uploaded + put[trace[i].h].filled + pipe[trace[i].h].offer,
         ~pipe'[trace[i].h].offered, pipe'[trace[i].h].offer = 0,
         pipe'[trace[i].h].wclosed => closed'[trace[i].h] # "no"
  PROVE  FlowInv(i)'
  <1> DEFINE h == trace[i].h
             m == put[h].uploaded + put[h].filled + pipe[h].offer
  <1>1. Reached(s)' = At(s)
    <2>1. pc'[s] = "head" /\ idx'[s] = At(s)
      BY OneExecuted DEF Inv
    <2> QED BY <2>1 DEF Reached
  <1>2. ASSUME put[h].stage \in {"begun", "reading"} PROVE Furthest(trace, h, At(s), m)
    <2>1. Furthest(trace, h, Reached(s), m)
      BY <1>2 DEF FlowInv
    <2>2. CASE pc[s] = "writing"
      BY <2>1, <2>2 DEF Reached
    <2>3. CASE pc[s] # "writing"
      <3>1. Furthest(trace, h, idx[s], m) /\ ~(NextOp(s).op = "WRITE" /\ NextOp(s).h = h)
        BY <1>2, <2>1, <2>3 DEF Reached, Live
      <3> HIDE DEF m
      <3> QED BY <3>1, NothingBetween
    <2> QED BY <2>2, <2>3
  <1> QED BY <1>1, <1>2 DEF FlowInv

(* What a stream's step does not touch.                                       *)
LEMMA StreamFrame ==
  ASSUME Inv, NEW s \in Streams, StreamStep(s)
  PROVE  /\ trace' = trace /\ phase' = phase /\ sizes' = sizes
         /\ \A r \in Streams \ {s} : pc'[r] = pc[r] /\ idx'[r] = idx[r]
         /\ \A h \in Handles : pc[s] = "head" \/ h # NextOp(s).h =>
              put'[h] = put[h] /\ pipe'[h] = pipe[h] /\ closed'[h] = closed[h]
         /\ faulty' = faulty
  <1>1. /\ pc \in [Streams -> {"head", "ready", "writing", "closing", "exited"}] /\ idx \in [Streams -> Nat]
        /\ put \in [Handles -> Puts] /\ pipe \in [Handles -> Pipes] /\ closed \in [Handles -> {"no", "ok", "error"}]
    BY DEF Inv, Types
  <1>2. /\ trace' = trace /\ phase' = phase /\ sizes' = sizes /\ faulty' = faulty
    BY DEF StreamStep, LoopHead, Quit, Open, Write, WriteTaken, WriteRejected, Fsync, NoHandle, Close, Finish, plan
  <1>3. \A r \in Streams \ {s} : pc'[r] = pc[r] /\ idx'[r] = idx[r]
    <2>1. /\ Done(s) \/ idx' = idx
          /\ \E c : pc' = [pc EXCEPT ![s] = c]
      BY DEF StreamStep, LoopHead, Quit, Open, Write, WriteTaken, WriteRejected, Fsync, NoHandle, Close, Finish, Done
    <2> QED BY <1>1, <2>1 DEF Done
  <1>4. ASSUME NEW h \in Handles, pc[s] = "head" \/ h # NextOp(s).h
        PROVE  put'[h] = put[h] /\ pipe'[h] = pipe[h] /\ closed'[h] = closed[h]
    <2>1. CASE LoopHead(s) \/ Quit(s) \/ WriteTaken(s) \/ Fsync(s)
      BY <2>1 DEF LoopHead, Quit, WriteTaken, Fsync, results
    <2>2. CASE Open(s)
      BY <1>1, <1>4, <2>2 DEF Open, Dispatch
    <2>3. CASE Write(s)
      BY <1>1, <1>4, <2>3 DEF Write, Dispatch, results
    <2>4. CASE WriteRejected(s)
      BY <1>1, <1>4, <2>4 DEF WriteRejected
    <2>5. CASE NoHandle(s)
      BY <1>1, <1>4, <2>5 DEF NoHandle, Dispatch
    <2>6. CASE Close(s)
      BY <1>1, <1>4, <2>6 DEF Close, Dispatch, results
    <2>7. CASE Finish(s)
      BY <1>1, <1>4, <2>7 DEF Finish
    <2> QED BY <2>1, <2>2, <2>3, <2>4, <2>5, <2>6, <2>7 DEF StreamStep
  <1> QED BY <1>2, <1>3, <1>4

LEMMA OtherFlows ==
  ASSUME Inv, NEW s \in Streams, StreamStep(s), NEW i \in DOMAIN trace, trace[i].s # s, FlowInv(i)
  PROVE  FlowInv(i)'
  <1>1. trace[i].h \in Handles /\ trace[i].s \in Streams
    BY TraceLength, Fields DEF Inv, Types
  <1>2. pc[s] = "head" \/ trace[i].h # NextOp(s).h \/ Quit(s)
    <2>1. pc[s] \in {"head", "ready", "writing", "closing"}
      BY DEF StreamStep, LoopHead, Quit, Open, Write, WriteTaken, WriteRejected, Fsync, NoHandle, Close, Finish, Dispatch
    <2>2. CASE pc[s] # "head"
      <3>1. Ahead(s) # {}
        BY <2>1, <2>2, ReadyMeans
      <3>2. At(s) \in DOMAIN trace /\ trace[At(s)].s = s /\ NextOp(s) = trace[At(s)]
        BY <3>1, NextPosition DEF Inv, NextOp
      <3> QED BY <3>2, OneStream DEF Inv
    <2> QED BY <2>2
  <1>3. /\ put'[trace[i].h] = put[trace[i].h] /\ pipe'[trace[i].h] = pipe[trace[i].h]
        /\ closed'[trace[i].h] = closed[trace[i].h]
    BY <1>1, <1>2, StreamFrame DEF Quit, results
  <1> QED BY <1>1, <1>3, StreamFrame, FlowStays DEF Inv

(* The flows of the stream's own handles.                                     *)
LEMMA HeadFlows ==
  ASSUME Inv, NEW s \in Streams, LoopHead(s) \/ Quit(s), NEW i \in DOMAIN trace, trace[i].s = s, FlowInv(i)
  PROVE  FlowInv(i)'
  <1>1. /\ trace' = trace /\ idx' = idx /\ pipe' = pipe /\ put' = put /\ closed' = closed
        /\ pc[s] \in {"head", "ready"} /\ pc'[s] \in {"ready", "exited"}
    BY DEF LoopHead, Quit, plan, results, Inv, Types
  <1>2. Reached(s)' = Reached(s)
    BY <1>1 DEF Reached
  <1> QED BY <1>1, <1>2 DEF FlowInv

LEMMA PassiveFlows ==
  ASSUME Inv, NEW s \in Streams, WriteTaken(s) \/ WriteRejected(s) \/ Fsync(s) \/ NoHandle(s) \/ Finish(s),
         NEW i \in DOMAIN trace, trace[i].s = s, FlowInv(i)
  PROVE  FlowInv(i)'
  <1> DEFINE h == trace[i].h
             g == NextOp(s).h
  <1>1. /\ Done(s) /\ trace' = trace /\ put' = put /\ pc[s] \in {"ready", "writing", "closing"}
        /\ pipe' = pipe \/ (WriteRejected(s) /\ pipe' = [pipe EXCEPT ![g].offer = 0, ![g].offered = FALSE])
    BY DEF WriteTaken, WriteRejected, Fsync, NoHandle, Finish, Dispatch, plan
  <1>2. Ahead(s) # {} /\ g \in Handles /\ h \in Handles
    BY <1>1, ReadyMeans, TraceLength, Fields DEF Inv, Types
  <1>3. pc[s] = "writing" \/ ~(NextOp(s).op = "WRITE" /\ g = h) \/ ~Live(h)
    <2>1. CASE WriteTaken(s) \/ WriteRejected(s) \/ Fsync(s)
      BY <2>1 DEF WriteTaken, WriteRejected, Fsync, Dispatch
    <2>2. CASE NoHandle(s)
      BY <2>2 DEF NoHandle, Live, Coalesced
    <2>3. CASE Finish(s)
      BY <2>3 DEF Finish, Inv, StreamInv
    <2> QED BY <2>1, <2>2, <2>3
  <1>4. ~pipe'[h].offered /\ pipe'[h].offer = 0
    <2>1. CASE WriteTaken(s) \/ Fsync(s) \/ NoHandle(s) \/ Finish(s)
      <3>1. pipe' = pipe /\ (pc[s] # "writing" \/ ~pipe[g].offered)
        BY <2>1 DEF WriteTaken, Fsync, NoHandle, Finish, Dispatch
      <3>2. ~pipe[h].offered
        BY <3>1 DEF FlowInv
      <3> QED BY <3>1, <3>2 DEF FlowInv
    <2>2. CASE WriteRejected(s)
      <3>1. pipe' = [pipe EXCEPT ![g].offer = 0, ![g].offered = FALSE]
        BY <2>2 DEF WriteRejected
      <3>2. pipe'[g].offer = 0 /\ pipe'[g].offered = FALSE /\ \A q \in Handles \ {g} : pipe'[q] = pipe[q]
        <4> HIDE DEF g
        <4> QED BY <1>2, <3>1, PipeFed DEF Inv
      <3>3. CASE h = g
        BY <3>2, <3>3
      <3>4. CASE h # g
        BY <1>2, <3>2, <3>4 DEF FlowInv
      <3> QED BY <3>3, <3>4
    <2> QED BY <2>1, <2>2
  <1>5. put[h].stage \in {"begun", "reading"} => pipe'[h].offer = pipe[h].offer
    <2>1. CASE pipe' = pipe
      BY <2>1
    <2>2. CASE WriteRejected(s) /\ h = g
      <3>1. pipe[h].rclosed
        BY <2>2 DEF WriteRejected
      <3> QED BY <1>2, <3>1 DEF Inv, PutInv
    <2>3. CASE WriteRejected(s) /\ h # g
      <3>1. \A q \in Handles \ {g} : pipe'[q] = pipe[q]
        <4>1. pipe' = [pipe EXCEPT ![g].offer = 0, ![g].offered = FALSE]
          BY <2>3 DEF WriteRejected
        <4> HIDE DEF g
        <4> QED BY <1>2, <4>1, PipeFed DEF Inv
      <3> QED BY <1>2, <2>3, <3>1
    <2> QED BY <1>1, <2>1, <2>2, <2>3
  <1>6. pipe'[h].wclosed => closed'[h] # "no"
    <2>1. pipe'[h].wclosed = pipe[h].wclosed
      <3>1. CASE pipe' = pipe
        BY <3>1
      <3>2. CASE pipe' = [pipe EXCEPT ![g].offer = 0, ![g].offered = FALSE]
        <4>1. pipe'[g].wclosed = pipe[g].wclosed /\ \A q \in Handles \ {g} : pipe'[q] = pipe[q]
          <5> HIDE DEF g
          <5> QED BY <1>2, <3>2, PipeFed DEF Inv
        <4> QED BY <1>2, <4>1
      <3> QED BY <1>1, <3>1, <3>2
    <2>2. closed[h] # "no" => closed'[h] # "no"
      BY <1>2 DEF WriteTaken, WriteRejected, Fsync, NoHandle, Finish, results, Inv, Types
    <2>3. pc[s] = "closing" /\ g = h => closed'[h] # "no"
      BY <1>2 DEF WriteTaken, WriteRejected, Fsync, NoHandle, Finish, Dispatch, Inv, Types
    <2> QED BY <2>1, <2>2, <2>3 DEF FlowInv
  <1>7. put'[h].stage = put[h].stage /\ put'[h].uploaded = put[h].uploaded /\ put'[h].filled = put[h].filled
    BY <1>1
  <1> QED BY <1>1, <1>2, <1>3, <1>4, <1>5, <1>6, <1>7, FlowEnds

LEMMA CloseFlows ==
  ASSUME Inv, NEW s \in Streams, Close(s), NEW i \in DOMAIN trace, trace[i].s = s, FlowInv(i)
  PROVE  FlowInv(i)'
  <1> DEFINE h == trace[i].h
             g == NextOp(s).h
  <1>1. /\ trace' = trace /\ put' = put /\ closed' = closed /\ idx' = idx
        /\ pc[s] = "ready" /\ pc'[s] = "closing" /\ pipe' = [pipe EXCEPT ![g].wclosed = TRUE]
    BY DEF Close, Dispatch, plan, results, Inv, Types
  <1>2. Ahead(s) # {} /\ g \in Handles /\ h \in Handles
    BY <1>1, ReadyMeans, TraceLength, Fields DEF Inv, Types
  <1>3. /\ \A q \in Handles : pipe'[q].offer = pipe[q].offer /\ pipe'[q].offered = pipe[q].offered
        /\ \A q \in Handles \ {g} : pipe'[q] = pipe[q]
    <2> HIDE DEF g
    <2> QED BY <1>1, <1>2, PipeEnded DEF Inv
  <1>4. Reached(s)' = Reached(s) /\ NextOp(s)' = NextOp(s)
    BY <1>1 DEF Reached, NextOp, At, Ahead
  <1>5. ~pipe[h].offered
    BY <1>1 DEF FlowInv
  <1>6. pipe'[h].wclosed => closed'[h] # "no" \/ (pc'[s] = "closing" /\ NextOp(s)'.h = h)
    BY <1>1, <1>2, <1>3, <1>4 DEF FlowInv
  <1> QED BY <1>1, <1>2, <1>3, <1>4, <1>5, <1>6 DEF FlowInv

(* What PREPARE has established for the run.                                  *)
LEMMA RunKnows ==
  ASSUME Inv, phase = "running"
  PROVE  /\ \A j \in DOMAIN trace : trace[j].op = "WRITE" => WriteAdmitted(trace, Len(trace), j)
         /\ \A i \in DOMAIN trace : trace[i].op = "OPEN" /\ trace[i].mode = "w" /\ Performs(trace[i].h, {"CLOSE"})
                                      => sizes[trace[i].tgt] # None
  <1> DEFINE e == Eligibility(trace)[Len(trace)]
  <1>1. trace \in Traces /\ Len(trace) \in Nat /\ DOMAIN trace = 1..Len(trace)
    BY TraceLength DEF Inv, Types
  <1>2. PassKnows(trace, Len(trace), e) /\ e.ok /\ sizes = e.sizes
    BY <1>1, PassEstablishes DEF Inv, PlanInv
  <1> HIDE DEF e
  <1>3. \A i \in DOMAIN trace : Performs(trace[i].h, {"CLOSE"}) => Closes(trace, trace[i].h, Len(trace)) # {}
    BY <1>1 DEF Performs, Closes
  <1> QED BY <1>1, <1>2, <1>3 DEF PassKnows

LEMMA WriteFlows ==
  ASSUME Inv, NEW s \in Streams, Write(s), NEW i \in DOMAIN trace, trace[i].s = s, FlowInv(i)
  PROVE  FlowInv(i)'
  <1> DEFINE h == trace[i].h
             g == NextOp(s).h
             n == NextOp(s).len
             m == put[h].uploaded + put[h].filled
  <1>1. /\ trace' = trace /\ put' = put /\ closed' = closed /\ idx' = idx
        /\ pc[s] = "ready" /\ pc'[s] = "writing" /\ NextOp(s).op = "WRITE"
        /\ pipe' = [pipe EXCEPT ![g].offer = n, ![g].offered = TRUE]
    BY DEF Write, Dispatch, plan, results, Inv, Types
  <1>2. Ahead(s) # {} /\ phase = "running" /\ g \in Handles /\ h \in Handles
    BY <1>1, ReadyMeans, TraceLength, Fields DEF Inv, Types
  <1>3. /\ trace \in Traces /\ DOMAIN trace = 1..Len(trace) /\ Len(trace) \in Nat
        /\ At(s) \in 1..Len(trace) /\ NextOp(s) = trace[At(s)] /\ n \in Nat
    BY <1>1, <1>2, NextPosition, TraceLength, Fields DEF Inv, Types, NextOp
  <1>4. /\ pipe'[g].offer = n /\ pipe'[g].offered = TRUE /\ pipe'[g].wclosed = pipe[g].wclosed
        /\ \A q \in Handles \ {g} : pipe'[q] = pipe[q]
    <2> HIDE DEF g, n
    <2> QED BY <1>1, <1>2, <1>3, PipeFed DEF Inv
  <1>5. Reached(s)' = At(s) /\ NextOp(s)' = NextOp(s)
    BY <1>1 DEF Reached, NextOp, At, Ahead
  <1>6. ~pipe[h].offered /\ pipe[h].offer = 0
    BY <1>1 DEF FlowInv
  <1>7. m \in Nat
    BY <1>2 DEF Inv, Types, Puts
  <1>8. ASSUME put[h].stage \in {"begun", "reading"} PROVE Furthest(trace, h, At(s), m + pipe'[h].offer)
    <2>1. Furthest(trace, h, Reached(s), m)
      BY <1>6, <1>7, <1>8 DEF FlowInv
    <2>2. Furthest(trace, h, At(s) - 1, m) /\ (g # h => Furthest(trace, h, At(s), m))
      <3>1. Furthest(trace, h, idx[s], m)
        BY <1>1, <2>1 DEF Reached
      <3> HIDE DEF m
      <3> QED BY <1>2, <3>1, NothingBetween
    <2>3. CASE g # h
      BY <1>2, <1>4, <1>6, <1>7, <2>2, <2>3
    <2>4. CASE g = h
      <3>1. Furthest(trace, h, At(s) - 1, trace[At(s)].off)
        BY <1>1, <1>2, <1>3, <2>4, RunKnows DEF WriteAdmitted
      <3>2. At(s) - 1 \in 0..(Len(trace) - 1) /\ At(s) - 1 \in 0..Len(trace) /\ (At(s) - 1) + 1 = At(s)
        BY <1>3
      <3>3. trace[At(s)].off = m
        <4> HIDE DEF m
        <4> QED BY <1>3, <2>2, <3>1, <3>2, OneFurthest
      <3>4. Furthest(trace, h, At(s), m + trace[At(s)].len)
        <4> HIDE DEF m
        <4> QED BY <1>1, <1>3, <2>2, <2>4, <3>2, <3>3, ReachGrows
      <3> QED BY <1>3, <1>4, <2>4, <3>4
    <2> QED BY <2>3, <2>4
  <1>9. pipe'[h].offered => h = g
    BY <1>2, <1>4, <1>6
  <1>10. pipe'[h].offered => pipe'[h].offer > 0 \/ NextOp(s).len = 0
    BY <1>3, <1>4, <1>9
  <1>11. ~pipe'[h].offered => pipe'[h].offer = 0
    BY <1>2, <1>4, <1>6
  <1>12. pipe'[h].wclosed => closed'[h] # "no"
    BY <1>1, <1>2, <1>4 DEF FlowInv
  <1> QED BY <1>1, <1>5, <1>8, <1>9, <1>10, <1>11, <1>12 DEF FlowInv

LEMMA OpenFlows ==
  ASSUME Inv, NEW s \in Streams, Open(s), NEW i \in DOMAIN trace, trace[i].s = s, trace[i].op = "OPEN",
         Executed(i)', Executed(i) => FlowInv(i)
  PROVE  FlowInv(i)'
  <1> DEFINE h == trace[i].h
             g == NextOp(s).h
  <1>1. /\ Done(s) /\ trace' = trace /\ closed' = closed /\ pipe' = pipe /\ pc[s] = "ready" /\ NextOp(s).op = "OPEN"
    BY DEF Open, Dispatch, plan
  <1>2. Ahead(s) # {} /\ g \in Handles /\ h \in Handles /\ trace \in Traces /\ Len(trace) \in Nat
        /\ DOMAIN trace = 1..Len(trace)
    BY <1>1, ReadyMeans, TraceLength, Fields DEF Inv, Types
  <1>3. At(s) \in 1..Len(trace) /\ NextOp(s) = trace[At(s)]
    BY <1>2, NextPosition DEF Inv, NextOp
  <1>4. CASE i # At(s)
    <2>1. Executed(i) /\ FlowInv(i)
      BY <1>1, <1>2, <1>4, OneExecuted DEF Inv
    <2>2. h # g
      BY <1>1, <1>2, <2>1, AboutNext DEF Inv
    <2>3. put'[h] = put[h]
      BY <1>2, <2>2, StreamFrame DEF StreamStep
    <2>4. ~pipe[h].offered /\ pipe[h].offer = 0 /\ (pipe[h].wclosed => closed[h] # "no")
      BY <1>1, <2>1 DEF FlowInv
    <2> QED BY <1>1, <1>2, <2>1, <2>2, <2>3, <2>4, FlowEnds
  <1>5. CASE i = At(s)
    <2>1. h = g /\ put[h] = NotBegun /\ pipe[h] = Idle
      <3>1. ~Live(g)
        BY <1>1, <1>2, AboutNext DEF Inv, BegunInv, Live, Admitted
      <3> QED BY <1>2, <1>3, <1>5, <3>1 DEF Inv, PutInv, Live
    <2>2. ~pipe'[h].offered /\ pipe'[h].offer = 0 /\ ~pipe'[h].wclosed
      BY <1>1, <2>1 DEF Idle
    <2>3. Reached(s)' = At(s)
      <3>1. pc'[s] = "head" /\ idx'[s] = At(s)
        BY <1>1, <1>2, OneExecuted DEF Inv
      <3> QED BY <3>1 DEF Reached
    <2>4. WritesOf(trace, h, At(s)) = {}
      <3>1. \A j \in 1..Len(trace) : trace[j].h = h => j >= At(s)
        BY <1>1, <1>2, <1>3, <2>1, Lives
      <3> QED BY <1>1, <1>2, <1>3, <3>1 DEF WritesOf
    <2>5. Furthest(trace, h, At(s), 0)
      BY <2>4 DEF Furthest
    <2>6. Inv'
      BY OpenKeeps
    <2>7. put'[h].stage \in {"begun", "reading"} => put'[h].uploaded + put'[h].filled = 0
      <3>1. put[h].uploaded = 0 /\ put[h].filled = 0
        BY <2>1 DEF NotBegun
      <3>2. put'[h].uploaded = 0 /\ put'[h].filled = 0
        <4>1. put \in [Handles -> Puts] /\ h \in Handles
          BY <1>2 DEF Inv, Types
        <4>2. put' = put \/ \E k : put' = [put EXCEPT ![g].stage = "begun", ![g].size = k]
          BY DEF Open
        <4> HIDE DEF g, h
        <4> QED BY <2>1, <3>1, <4>1, <4>2 DEF Puts
      <3> QED BY <3>2
    <2> QED BY <1>1, <1>5, <2>2, <2>3, <2>5, <2>7 DEF FlowInv
  <1> QED BY <1>4, <1>5

LEMMA PutFlows ==
  ASSUME Inv, NEW h \in Handles, PutStep(h), NEW i \in DOMAIN trace, FlowInv(i)
  PROVE  FlowInv(i)'
  <1>0. Types
    BY DEF Inv
  <1>1. CASE Begin(h)
    <2>1. /\ UNCHANGED <<plan, streams, closed>> /\ pipe' = pipe /\ put[h].stage = "begun"
          /\ put' = [put EXCEPT ![h].stage = "reading"]
      BY <1>1 DEF Begin, results
    <2>2. /\ \A g \in Handles \ {h} : put'[g] = put[g]
          /\ put'[h].uploaded = put[h].uploaded /\ put'[h].filled = put[h].filled
      BY <1>0, <2>1, PutMoved
    <2> QED BY <1>0, <2>1, <2>2, FlowOfPut
  <1>2. CASE Read(h)
    <2> DEFINE t == Taken(h)
               m == put[h].filled + t
               n == pipe[h].offer - t
               b == pipe[h].offer > t
    <2>1. /\ UNCHANGED <<plan, streams, closed>> /\ put[h].stage = "reading" /\ pipe[h].offered
          /\ put' = [put EXCEPT ![h].filled = m]
          /\ pipe' = [pipe EXCEPT ![h].offer = n, ![h].offered = b]
      BY <1>2 DEF Read, results
    <2>2. t \in Nat /\ t <= pipe[h].offer /\ pipe[h].offer \in Nat /\ put[h].uploaded \in Nat /\ put[h].filled \in Nat
      BY <2>1, ReadingMeans DEF Inv, Types, Pipes, Taken, Least
    <2>3. m \in Nat /\ n \in Nat /\ b \in BOOLEAN
      BY <2>2
    <2>4. /\ \A g \in Handles \ {h} : put'[g] = put[g]
          /\ put'[h].uploaded = put[h].uploaded /\ put'[h].filled = m
      <3>1. put[h].uploaded \in Nat /\ m \in Nat /\ put' = [put EXCEPT ![h].filled = m]
        BY <2>1, <2>2, <2>3
      <3> HIDE DEF m
      <3>2. /\ put' \in [Handles -> Puts] /\ \A g \in Handles \ {h} : put'[g] = put[g]
            /\ put'[h] = [stage |-> put[h].stage, size |-> put[h].size, filled |-> m,
                          uploaded |-> put[h].uploaded, err |-> put[h].err]
        BY <1>0, <3>1, PutCounted
      <3> QED BY <3>2
    <2>5. /\ \A g \in Handles \ {h} : pipe'[g] = pipe[g]
          /\ pipe'[h].offer = n /\ pipe'[h].offered = b /\ pipe'[h].wclosed = pipe[h].wclosed
      <3> HIDE DEF n, b
      <3> QED BY <1>0, <2>1, <2>3, PipeFed
    <2>6. put'[h].uploaded + put'[h].filled + pipe'[h].offer = put[h].uploaded + put[h].filled + pipe[h].offer
      BY <2>2, <2>4, <2>5
    <2>7. (pipe'[h].offered => pipe'[h].offer > 0) /\ (~pipe'[h].offered => pipe'[h].offer = 0)
      <3>1. CASE b
        <4>1. pipe'[h].offered = TRUE
          BY <2>5, <3>1, Zenon
        <4>2. n > 0
          <5> HIDE DEF t
          <5> QED BY <2>2, <3>1
        <4> QED BY <2>5, <4>1, <4>2
      <3>2. CASE ~b
        <4>1. ~pipe'[h].offered
          BY <2>5, <3>2, Zenon
        <4>2. n = 0
          <5> HIDE DEF t
          <5> QED BY <2>2, <3>2
        <4> QED BY <2>5, <4>1, <4>2
      <3> QED BY <3>1, <3>2
    <2> HIDE DEF t
    <2> QED BY <1>0, <2>1, <2>4, <2>5, <2>6, <2>7, FlowOfPut
  <1>3. CASE SendPart(h)
    <2> DEFINE n == put[h].uploaded + put[h].filled
    <2>1. /\ UNCHANGED <<plan, streams, closed>> /\ pipe' = pipe /\ put[h].stage = "reading"
          /\ put' = [put EXCEPT ![h].uploaded = n, ![h].filled = 0]
      BY <1>3 DEF SendPart, results
    <2>2. n \in Nat /\ pipe[h].offer \in Nat
      BY <2>1, ReadingMeans DEF Inv, Types, Pipes
    <2>3. (\A g \in Handles \ {h} : put'[g] = put[g]) /\ put'[h].uploaded = n /\ put'[h].filled = 0
      <3>1. n \in Nat /\ 0 \in Nat /\ put' = [put EXCEPT ![h].uploaded = n, ![h].filled = 0]
        BY <2>1, <2>2
      <3> HIDE DEF n
      <3>2. /\ put' \in [Handles -> Puts] /\ \A g \in Handles \ {h} : put'[g] = put[g]
            /\ put'[h] = [stage |-> put[h].stage, size |-> put[h].size, filled |-> 0, uploaded |-> n, err |-> put[h].err]
        BY <1>0, <3>1, PutCounted
      <3> QED BY <3>2
    <2>4. put'[h].uploaded + put'[h].filled + pipe'[h].offer = put[h].uploaded + put[h].filled + pipe[h].offer
      BY <2>1, <2>2, <2>3
    <2> QED BY <1>0, <2>1, <2>3, <2>4, FlowOfPut
  <1>4. CASE BeginFails(h) \/ ReadEnds(h) \/ SendPartFails(h) \/ Store(h) \/ StoreFails(h)
    <2>1. PICK b \in BOOLEAN : Returned(h, b)
      BY <1>4 DEF BeginFails, ReadEnds, SendPartFails, Store, StoreFails
    <2>2. (\A g \in Handles \ {h} : put'[g] = put[g]) /\ put'[h].stage = "returned"
      BY <1>0, <2>1, PutReturned DEF Returned
    <2>3. UNCHANGED <<plan, streams, closed>> /\ pipe' = pipe
      BY <1>4 DEF BeginFails, ReadEnds, SendPartFails, Store, StoreFails, results
    <2> QED BY <1>0, <2>2, <2>3, FlowOfPut
  <1>5. CASE CloseReader(h) \/ SendErr(h)
    <2>1. PICK st \in {"detached", "sent"} :
            /\ put' = [put EXCEPT ![h].stage = st]
            /\ pipe' = pipe \/ pipe' = [pipe EXCEPT ![h].rclosed = TRUE]
      BY <1>5 DEF CloseReader, SendErr
    <2>2. (\A g \in Handles \ {h} : put'[g] = put[g]) /\ put'[h].stage = st
      BY <1>0, <2>1, PutMoved
    <2>3. /\ \A g \in Handles \ {h} : pipe'[g] = pipe[g]
          /\ pipe'[h].offer = pipe[h].offer /\ pipe'[h].offered = pipe[h].offered
             /\ pipe'[h].wclosed = pipe[h].wclosed
      BY <1>0, <2>1 DEF Types, Pipes
    <2>4. UNCHANGED <<plan, streams, closed>>
      BY <1>5 DEF CloseReader, SendErr, results
    <2> QED BY <1>0, <2>2, <2>3, <2>4, FlowOfPut
  <1> QED BY <1>1, <1>2, <1>3, <1>4, <1>5 DEF PutStep

LEMMA FlowStep ==
  ASSUME Inv, FlowHolds, [Next]_vars
  PROVE  FlowHolds'
  <1>1. trace' = trace
    BY DEF Next, Prepare, StreamStep, PutStep, LoopHead, Quit, Open, Write, WriteTaken, WriteRejected, Fsync, NoHandle,
           Close, Finish, Begin, BeginFails, Read, ReadEnds, SendPart, SendPartFails, Store, StoreFails, CloseReader,
           SendErr, Cancel, Over, vars, plan
  <1> SUFFICES ASSUME NEW i \in DOMAIN trace, trace[i].op = "OPEN", Executed(i)' PROVE FlowInv(i)'
    BY <1>1 DEF FlowHolds
  <1>2. CASE idx' = idx
    <2>1. FlowInv(i)
      BY <1>1, <1>2 DEF FlowHolds, Executed
    <2>2. CASE Prepare \/ Cancel \/ UNCHANGED vars
      BY <2>1, <2>2, FlowStays DEF Inv, Prepare, Cancel, vars, plan, streams, results
    <2>3. ASSUME NEW h \in Handles, PutStep(h) PROVE FlowInv(i)'
      BY <2>1, <2>3, PutFlows
    <2>4. ASSUME NEW s \in Streams, StreamStep(s) PROVE FlowInv(i)'
      <3>1. CASE trace[i].s # s
        BY <2>1, <2>4, <3>1, OtherFlows
      <3>2. CASE trace[i].s = s
        BY <2>1, <2>4, <3>2, HeadFlows, CloseFlows, WriteFlows, PassiveFlows, OpenFlows DEF StreamStep
      <3> QED BY <3>1, <3>2
    <2> QED BY <2>2, <2>3, <2>4 DEF Next, Over
  <1>3. CASE idx' # idx
    <2>1. PICK s \in Streams : StreamStep(s)
      BY <1>3 DEF Next, Prepare, PutStep, Begin, BeginFails, Read, ReadEnds, SendPart, SendPartFails, Store, StoreFails,
           CloseReader, SendErr, Cancel, Over, vars, streams
    <2>2. CASE trace[i].s # s
      <3>1. trace[i].s \in Streams
        BY TraceLength, Fields DEF Inv, Types
      <3>2. Executed(i)
        BY <1>1, <2>1, <2>2, <3>1, StreamFrame DEF Executed
      <3> QED BY <2>1, <2>2, <3>2, OtherFlows DEF FlowHolds
    <2>3. CASE trace[i].s = s
      <3>1. CASE Open(s)
        BY <2>3, <3>1, OpenFlows DEF FlowHolds
      <3>2. CASE ~Open(s)
        <4>1. WriteTaken(s) \/ WriteRejected(s) \/ Fsync(s) \/ NoHandle(s) \/ Finish(s)
          BY <1>3, <2>1, <3>2 DEF StreamStep, LoopHead, Quit, Write, Close
        <4>2. Ahead(s) # {} /\ Done(s) /\ NextOp(s).op # "OPEN"
          <5>1. pc[s] \in {"ready", "writing", "closing"} /\ Done(s) /\ NextOp(s).op # "OPEN"
            BY <4>1 DEF WriteTaken, WriteRejected, Fsync, NoHandle, Finish, Dispatch, Inv, StreamInv
          <5> QED BY <5>1, ReadyMeans
        <4>3. Executed(i)
          BY <1>1, <4>2, OneExecuted DEF Inv, NextOp
        <4> QED BY <2>3, <4>1, <4>3, PassiveFlows DEF FlowHolds
      <3> QED BY <3>1, <3>2
    <2> QED BY <2>2, <2>3
  <1> QED BY <1>2, <1>3

-----------------------------------------------------------------------------
(* Traces without irregularities.                                             *)
LEMMA RegularOpens ==
  ASSUME Inv, Regular, phase = "running", NEW i \in DOMAIN trace, trace[i].op = "OPEN"
  PROVE  trace[i].mode = "w" /\ sizes[trace[i].tgt] # None
  <1>1. trace \in Traces /\ Len(trace) \in Nat /\ DOMAIN trace = 1..Len(trace) /\ trace[i].mode \in {"w", "rw"}
    BY TraceLength, Fields DEF Inv, Types
  <1>2. Performs(trace[i].h, {"CLOSE"}) /\ (trace[i].mode = "rw" => Performs(trace[i].h, {"WRITE"}))
    BY DEF Regular
  <1>3. ASSUME trace[i].mode = "rw" PROVE FALSE
    <2>1. PICK j \in DOMAIN trace : trace[j].op = "WRITE" /\ trace[j].h = trace[i].h
      BY <1>2, <1>3 DEF Performs
    <2>2. WriteAdmitted(trace, Len(trace), j)
      BY <2>1, RunKnows
    <2>3. i \in Opens(trace, trace[j].h, Len(trace))
      BY <1>1, <2>1 DEF Opens
    <2> QED BY <1>3, <2>2, <2>3 DEF WriteAdmitted
  <1> QED BY <1>1, <1>2, <1>3, RunKnows

(* The WRITEs of a handle reach somewhere.                                    *)
LEMMA FurthestExists ==
  ASSUME NEW tr \in Traces, NEW h
  PROVE  \A n \in 0..Len(tr) : \E m : Furthest(tr, h, n, m)
  <1> DEFINE S == {n \in 0..Len(tr) : \E m : Furthest(tr, h, n, m)}
  <1>1. Len(tr) \in Nat
    BY TraceLength
  <1>2. 0 \in S
    <2>1. Furthest(tr, h, 0, 0)
      BY DEF Furthest, WritesOf
    <2> QED BY <1>1, <2>1
  <1>3. ASSUME NEW n \in 0..(Len(tr) - 1), n \in S PROVE n + 1 \in S
    <2>1. PICK m : Furthest(tr, h, n, m)
      BY <1>3
    <2>2. n + 1 \in 1..Len(tr) /\ n + 1 \in 0..Len(tr)
      BY <1>1
    <2>3. CASE ~(tr[n + 1].op = "WRITE" /\ tr[n + 1].h = h)
      BY <2>1, <2>2, <2>3, ReachStays
    <2>4. CASE tr[n + 1].op = "WRITE" /\ tr[n + 1].h = h
      <3>1. WritesOf(tr, h, n + 1) = WritesOf(tr, h, n) \cup {n + 1}
        BY <2>4, OneMore, Zenon
      <3>2. m \in Nat /\ End(tr[n + 1]) \in Nat
        BY <2>1, <2>2, <2>4, Fields DEF Furthest, End
      <3>3. \A j \in WritesOf(tr, h, n) : End(tr[j]) \in Nat
        <4>1. ASSUME NEW j \in WritesOf(tr, h, n) PROVE End(tr[j]) \in Nat
          <5>1. j \in 1..Len(tr) /\ tr[j].op = "WRITE"
            BY <1>1 DEF WritesOf
          <5> QED BY <5>1, Fields DEF End
        <4> QED BY <4>1
      <3>4. CASE End(tr[n + 1]) >= m
        <4>1. Furthest(tr, h, n + 1, End(tr[n + 1]))
          BY <2>1, <3>1, <3>2, <3>3, <3>4 DEF Furthest
        <4> QED BY <2>2, <4>1
      <3>5. CASE End(tr[n + 1]) < m
        <4>1. Furthest(tr, h, n + 1, m)
          BY <2>1, <3>1, <3>2, <3>3, <3>5 DEF Furthest
        <4> QED BY <2>2, <4>1
      <3> QED BY <3>2, <3>4, <3>5
    <2> QED BY <2>3, <2>4
  <1>4. 0..Len(tr) \subseteq S
    <2> HIDE DEF S
    <2> QED BY <1>1, <1>2, <1>3, PrefixInduction
  <1> QED BY <1>4

LEMMA CoveredBounds ==
  ASSUME Types, NEW h
  PROVE  Furthest(trace, h, Len(trace), Covered(h))
  <1>1. trace \in Traces /\ Len(trace) \in 0..Len(trace)
    BY TraceLength DEF Types
  <1>2. PICK m : Furthest(trace, h, Len(trace), m)
    BY <1>1, FurthestExists
  <1> QED BY <1>2, CoveredIsFurthest

(* If the WRITEs the stream has come to reach the end, it has come to all of  *)
(* them: PREPARE admitted only WRITEs that begin where the last one ended,    *)
(* and an empty one is never the last.                                        *)
LEMMA AllBegun ==
  ASSUME Inv, Regular, phase = "running", NEW h \in Handles, NEW n \in 0..Len(trace),
         Furthest(trace, h, n, Covered(h)), NEW j \in DOMAIN trace, trace[j].op = "WRITE", trace[j].h = h
  PROVE  j <= n
  <1>1. trace \in Traces /\ Len(trace) \in Nat /\ DOMAIN trace = 1..Len(trace)
    BY TraceLength DEF Inv, Types
  <1> SUFFICES ASSUME j > n PROVE FALSE
    BY <1>1
  <1>2. PICK k \in DOMAIN trace : k > n /\ trace[k].op = "WRITE" /\ trace[k].h = h /\ trace[k].len > 0
    <2>1. trace[j].len \in Nat
      BY <1>1, Fields
    <2>2. CASE trace[j].len > 0
      BY <2>2
    <2>3. CASE trace[j].len = 0
      <3>1. PICK k \in j..Len(trace) : trace[k].op = "WRITE" /\ trace[k].h = trace[j].h /\ trace[k].len > 0
        BY <2>3 DEF Regular
      <3>2. k \in DOMAIN trace /\ k > n
        BY <1>1
      <3> QED BY <3>1, <3>2
    <2> QED BY <2>1, <2>2, <2>3
  <1> DEFINE c == Covered(h)
  <1>3. Furthest(trace, h, Len(trace), c) /\ c \in Nat
    BY CoveredBounds DEF Inv, Furthest
  <1>4. trace[k].off \in Nat /\ trace[k].len \in Nat /\ End(trace[k]) = trace[k].off + trace[k].len
    BY <1>1, <1>2, Fields DEF End
  <1>5. Furthest(trace, h, k - 1, trace[k].off)
    BY <1>2, RunKnows DEF WriteAdmitted
  <1>6. c <= trace[k].off
    <2>1. \A i \in WritesOf(trace, h, n) : i \in WritesOf(trace, h, k - 1)
      BY <1>1, <1>2 DEF WritesOf
    <2> QED BY <1>4, <1>5, <2>1 DEF Furthest
  <1>7. k \in WritesOf(trace, h, Len(trace))
    BY <1>1, <1>2 DEF WritesOf
  <1>8. End(trace[k]) <= c
    BY <1>3, <1>7 DEF Furthest
  <1> HIDE DEF c
  <1> QED BY <1>2, <1>3, <1>4, <1>6, <1>8

(* A Put that has read everything has seen all the WRITEs ...                 *)
LEMMA StoreSeesAll ==
  ASSUME Inv, Regular, NEW h \in Handles, ReadyToStore(h),
         NEW i \in DOMAIN trace, trace[i].h = h, FlowInv(i)
  PROVE  /\ ~pipe[h].offered
         /\ \A j \in DOMAIN trace : trace[j].op = "WRITE" /\ trace[j].h = h => j <= Reached(trace[i].s)
  <1> DEFINE s == trace[i].s
             c == Covered(h)
             o == pipe[h].offer
  <1>1. put[h].stage = "reading" /\ Live(h) /\ phase = "running"
    BY DEF ReadyToStore, Live, Inv, PlanInv
  <1>2. trace \in Traces /\ Len(trace) \in Nat /\ DOMAIN trace = 1..Len(trace) /\ s \in Streams /\ o \in Nat
    BY TraceLength, Fields DEF Inv, Types, Pipes
  <1>3. put[h].uploaded + put[h].filled = c
    BY <1>1, ReadyMeansWhole, SizeIsCovered DEF Regular
  <1>4. Reached(s) \in 0..Len(trace)
    <2>1. CASE pc[s] = "writing"
      BY <1>2, <2>1, ReadyMeans, NextPosition DEF Reached, Inv
    <2>2. CASE pc[s] # "writing"
      BY <1>2, <2>2 DEF Reached, Inv, StreamInv, Types
    <2> QED BY <2>1, <2>2
  <1>5. Furthest(trace, h, Len(trace), c) /\ c \in Nat
    BY CoveredBounds DEF Inv, Furthest
  <1>6. Furthest(trace, h, Reached(s), c + o)
    BY <1>1, <1>3 DEF FlowInv
  <1>7. o = 0
    <2>1. \A j \in WritesOf(trace, h, Reached(s)) : j \in WritesOf(trace, h, Len(trace))
      BY <1>2, <1>4 DEF WritesOf
    <2>2. c + o = 0 \/ c + o <= c
      <3> HIDE DEF c, o
      <3> QED BY <1>5, <1>6, <2>1 DEF Furthest
    <2> HIDE DEF c, o
    <2> QED BY <1>2, <1>5, <2>2
  <1>8. Furthest(trace, h, Reached(s), c)
    BY <1>5, <1>6, <1>7
  <1>9. \A j \in DOMAIN trace : trace[j].op = "WRITE" /\ trace[j].h = h => j <= Reached(s)
    BY <1>1, <1>4, <1>8, AllBegun
  <1>10. ASSUME pipe[h].offered PROVE FALSE
    <2>1. pc[s] = "writing" /\ NextOp(s).h = h /\ NextOp(s).len = 0
      BY <1>7, <1>10 DEF FlowInv
    <2>2. Ahead(s) # {} /\ NextOp(s).op = "WRITE" /\ NextOp(s) = trace[At(s)] /\ Reached(s) = At(s)
      BY <1>2, <2>1, ReadyMeans DEF Inv, StreamInv, NextOp, Reached
    <2>3. At(s) \in DOMAIN trace /\ At(s) \in Nat
      BY <1>2, <2>2, NextPosition DEF Inv
    <2>4. PICK k \in At(s)..Len(trace) : trace[k].op = "WRITE" /\ trace[k].h = h /\ trace[k].len > 0
      BY <2>1, <2>2, <2>3 DEF Regular
    <2>5. k \in DOMAIN trace /\ k <= At(s) /\ k = At(s)
      BY <1>2, <1>9, <2>2, <2>3, <2>4
    <2> QED BY <2>1, <2>2, <2>4, <2>5
  <1> QED BY <1>9, <1>10

(* ... and none of them ends before it has read everything.                   *)
LEMMA NoEarlyEnd ==
  ASSUME Inv, Regular, NEW h \in Handles, ReadEnds(h),
         NEW i \in DOMAIN trace, trace[i].h = h, FlowInv(i)
  PROVE  FALSE
  <1> DEFINE s == trace[i].s
             c == Covered(h)
             m == put[h].uploaded + put[h].filled
  <1>1. put[h].stage = "reading" /\ Live(h) /\ phase = "running" /\ Missing(h) > 0 /\ pipe[h].wclosed
        /\ ~pipe[h].offered
    BY DEF ReadEnds, Live, Inv, PlanInv
  <1>2. trace \in Traces /\ Len(trace) \in Nat /\ DOMAIN trace = 1..Len(trace) /\ s \in Streams
    BY TraceLength, Fields DEF Inv, Types
  <1>3. pc[s] = "closing" /\ NextOp(s).h = h
    BY <1>1 DEF FlowInv, Inv, CloseInv
  <1>4. NextOp(s).op = "CLOSE" /\ Ahead(s) # {} /\ NextOp(s) = trace[At(s)] /\ idx[s] \in Nat /\ idx[s] <= Len(trace)
    BY <1>2, <1>3, ReadyMeans DEF Inv, StreamInv, NextOp, Types
  <1>5. m \in Nat /\ Furthest(trace, h, idx[s], m)
    <2>1. m \in Nat /\ pipe[h].offer = 0 /\ Reached(s) = idx[s]
      BY <1>1, <1>3, ReadingMeans DEF FlowInv, Reached
    <2>2. Furthest(trace, h, Reached(s), m + pipe[h].offer)
      BY <1>1 DEF FlowInv
    <2> QED BY <2>1, <2>2
  <1>6. ASSUME NEW j \in WritesOf(trace, h, Len(trace)) PROVE j \in WritesOf(trace, h, idx[s])
    <2>1. j \in DOMAIN trace /\ j \in Nat /\ trace[j].op = "WRITE" /\ trace[j].h = h
      BY <1>2 DEF WritesOf
    <2>2. /\ At(s) \in 1..Len(trace) /\ At(s) \in DOMAIN trace /\ trace[At(s)].s = s
          /\ \A k \in DOMAIN trace : trace[k].s = s /\ k < At(s) => k <= idx[s]
      BY <1>2, <1>4, NextPosition DEF Inv
    <2>3. j <= At(s) /\ j # At(s)
      BY <1>2, <1>3, <1>4, <2>1, <2>2, Lives
    <2>4. trace[j].s = s
      BY <2>1, OneStream DEF Inv
    <2>5. j <= idx[s]
      BY <2>1, <2>2, <2>3, <2>4
    <2> QED BY <1>4, <2>1, <2>5 DEF WritesOf
  <1>7. Furthest(trace, h, Len(trace), m)
    <2>1. \A j \in WritesOf(trace, h, idx[s]) : j \in WritesOf(trace, h, Len(trace))
      BY <1>2, <1>4 DEF WritesOf
    <2> HIDE DEF m
    <2> QED BY <1>5, <1>6, <2>1 DEF Furthest
  <1>8. m = put[h].size
    <2>1. Covered(h) = m
      <3> HIDE DEF m
      <3> QED BY <1>7, CoveredIsFurthest DEF Inv
    <2> QED BY <1>1, <2>1, SizeIsCovered DEF Regular
  <1>9. CASE Multipart(h)
    BY <1>1, <1>8, <1>9, ReadingMeans DEF Missing, Least
  <1>10. CASE ~Multipart(h)
    BY <1>1, <1>8, <1>10, ReadingMeans DEF Missing, Least
  <1> QED BY <1>9, <1>10

SeesAll(i) ==
  /\ ~pipe[trace[i].h].offered
  /\ \A j \in DOMAIN trace : trace[j].op = "WRITE" /\ trace[j].h = trace[i].h => j <= Reached(trace[i].s)

LEMMA ReplayOfPut ==
  ASSUME Types, ReplayInv, NEW h \in Handles,
         UNCHANGED <<plan, streams, results>>, faulty \subseteq faulty',
         \A g \in Handles \ {h} : put'[g] = put[g] /\ pipe'[g] = pipe[g],
         put'[h].stage # "none", put'[h].err => put[h].err \/ h \in faulty',
         \A i \in DOMAIN trace : trace[i].op = "OPEN" /\ Executed(i) /\ trace[i].h = h =>
           (Answered(h)' => h \in faulty' \/ SeesAll(i)' \/ (Answered(h) /\ pipe'[h].offered = pipe[h].offered))
  PROVE  ReplayInv'
  <1>1. trace' = trace /\ idx' = idx /\ pc' = pc /\ failed' = failed /\ closed' = closed
    BY DEF plan, streams, results
  <1>2. \A s \in Streams : Reached(s)' = Reached(s)
    BY <1>1 DEF Reached, At, Ahead
  <1>3. \A i \in DOMAIN trace : (Executed(i)' <=> Executed(i)) /\ trace[i].h \in Handles /\ trace[i].s \in Streams
    BY <1>1, TraceLength, Fields DEF Executed, Types
  <1>4. \A i \in DOMAIN trace : trace[i].op = "OPEN" /\ Executed(i)' => put'[trace[i].h].stage # "none"
    BY <1>3 DEF ReplayInv
  <1>5. ASSUME NEW g \in Handles, g \in failed \/ put'[g].err \/ closed[g] = "error" PROVE g \in faulty'
    BY <1>5 DEF ReplayInv
  <1>6. ASSUME NEW i \in DOMAIN trace, trace[i].op = "OPEN", Executed(i)' PROVE AnswerInv(i)'
    <2>1. AnswerInv(i) /\ trace[i].s \in Streams /\ trace[i].h \in Handles
      BY <1>3, <1>6 DEF ReplayInv
    <2>2. CASE trace[i].h # h
      BY <1>1, <1>2, <2>1, <2>2 DEF AnswerInv, Answered
    <2>3. CASE trace[i].h = h
      <3>1. CASE SeesAll(i)'
        BY <1>1, <3>1 DEF SeesAll, AnswerInv
      <3>2. CASE Answered(h) /\ pipe'[h].offered = pipe[h].offered
        BY <1>1, <1>2, <2>1, <2>3, <3>2 DEF AnswerInv, Answered
      <3>3. CASE h \in faulty' \/ ~Answered(h)'
        BY <1>1, <2>3, <3>3 DEF AnswerInv, Answered
      <3> QED BY <1>3, <1>6, <2>3, <3>1, <3>2, <3>3
    <2> QED BY <2>2, <2>3
  <1> QED BY <1>1, <1>4, <1>5, <1>6 DEF ReplayInv

LEMMA PutReplays ==
  ASSUME Inv, FlowHolds, Regular, ReplayInv, NEW h \in Handles, PutStep(h)
  PROVE  ReplayInv'
  <1>0. Types
    BY DEF Inv
  <1>1. CASE Begin(h) \/ Read(h) \/ SendPart(h)
    <2>1. UNCHANGED <<plan, streams, results>> /\ faulty' = faulty
      BY <1>1 DEF Begin, Read, SendPart
    <2>2. /\ \A g \in Handles \ {h} : put'[g] = put[g] /\ pipe'[g] = pipe[g]
          /\ put'[h].stage = "reading" /\ put'[h].err = put[h].err
      <3>1. put \in [Handles -> Puts] /\ pipe \in [Handles -> Pipes]
        BY <1>0 DEF Types
      <3>2. CASE Begin(h)
        BY <3>1, <3>2 DEF Begin, Puts
      <3>3. CASE Read(h)
        BY <3>1, <3>3 DEF Read, Puts
      <3>4. CASE SendPart(h)
        BY <3>1, <3>4 DEF SendPart, Puts
      <3> QED BY <1>1, <3>2, <3>3, <3>4
    <2>3. ~Answered(h)'
      BY <2>2 DEF Answered
    <2> QED BY <1>0, <2>1, <2>2, <2>3, ReplayOfPut
  <1>2. CASE BeginFails(h) \/ SendPartFails(h) \/ StoreFails(h)
    <2>1. UNCHANGED <<plan, streams, results>> /\ faulty' = faulty \cup {h} /\ pipe' = pipe /\ Returned(h, TRUE)
      BY <1>2 DEF BeginFails, SendPartFails, StoreFails
    <2>2. (\A g \in Handles \ {h} : put'[g] = put[g]) /\ put'[h].stage = "returned"
      <3>1. /\ put' \in [Handles -> Puts] /\ \A g \in Handles \ {h} : put'[g] = put[g]
            /\ put'[h] = [stage |-> "returned", size |-> put[h].size, filled |-> put[h].filled,
                          uploaded |-> put[h].uploaded, err |-> TRUE]
        BY <1>0, <2>1, PutReturned DEF Returned
      <3> QED BY <3>1
    <2> QED BY <1>0, <2>1, <2>2, ReplayOfPut
  <1>3. CASE ReadEnds(h)
    <2>1. PICK i \in DOMAIN trace : Admitted(i) /\ trace[i].h = h
      BY <1>3 DEF ReadEnds, Inv, BegunInv
    <2>2. FlowInv(i)
      BY <2>1 DEF FlowHolds, Admitted
    <2> QED BY <1>3, <2>1, <2>2, NoEarlyEnd
  <1>4. CASE Store(h)
    <2>1. UNCHANGED <<plan, streams, results>> /\ faulty' = faulty /\ pipe' = pipe /\ Returned(h, FALSE)
          /\ ReadyToStore(h)
      BY <1>4 DEF Store
    <2>2. (\A g \in Handles \ {h} : put'[g] = put[g]) /\ put'[h].stage = "returned" /\ put'[h].err = FALSE
      <3>1. /\ put' \in [Handles -> Puts] /\ \A g \in Handles \ {h} : put'[g] = put[g]
            /\ put'[h] = [stage |-> "returned", size |-> put[h].size, filled |-> put[h].filled,
                          uploaded |-> put[h].uploaded, err |-> FALSE]
        BY <1>0, <2>1, PutReturned DEF Returned
      <3> QED BY <3>1
    <2>3. ASSUME NEW i \in DOMAIN trace, trace[i].op = "OPEN", Executed(i), trace[i].h = h PROVE SeesAll(i)'
      <3>1. FlowInv(i)
        BY <2>3 DEF FlowHolds
      <3>2. SeesAll(i)
        BY <2>1, <2>3, <3>1, StoreSeesAll DEF SeesAll
      <3> QED BY <2>1, <3>2 DEF SeesAll, Reached, At, Ahead, plan, streams
    <2> QED BY <1>0, <2>1, <2>2, <2>3, ReplayOfPut
  <1>5. CASE CloseReader(h) \/ SendErr(h)
    <2>1. UNCHANGED <<plan, streams, results>> /\ faulty' = faulty /\ Answered(h)
      BY <1>5 DEF CloseReader, SendErr, Answered
    <2>2. /\ \A g \in Handles \ {h} : put'[g] = put[g] /\ pipe'[g] = pipe[g]
          /\ put'[h].stage # "none" /\ put'[h].err = put[h].err /\ pipe'[h].offered = pipe[h].offered
      <3>1. put \in [Handles -> Puts] /\ pipe \in [Handles -> Pipes]
        BY <1>0 DEF Types
      <3>2. CASE CloseReader(h)
        BY <3>1, <3>2 DEF CloseReader, Puts, Pipes
      <3>3. CASE SendErr(h)
        BY <3>1, <3>3 DEF SendErr, Puts, Pipes
      <3> QED BY <1>5, <3>2, <3>3
    <2> QED BY <1>0, <2>1, <2>2, ReplayOfPut
  <1> QED BY <1>1, <1>2, <1>3, <1>4, <1>5 DEF PutStep

LEMMA ReachedGrows ==
  ASSUME Inv, NEW s \in Streams, StreamStep(s), NEW r \in Streams
  PROVE  Reached(r) \in Nat /\ Reached(r)' \in Nat /\ Reached(r) <= Reached(r)'
  <1>1. \A q \in Streams : idx[q] \in Nat /\ (pc[q] = "writing" => At(q) \in Nat /\ At(q) > idx[q])
    BY ReadyMeans, NextPosition DEF Inv, Types
  <1>2. Reached(r) \in Nat
    BY <1>1 DEF Reached
  <1>3. CASE r # s
    <2>1. Reached(r)' = Reached(r)
      BY <1>3, StreamFrame DEF Reached, At, Ahead
    <2> QED BY <1>2, <2>1
  <1>4. CASE r = s
    <2>1. CASE LoopHead(s) \/ Quit(s) \/ Close(s)
      <3>1. trace' = trace /\ idx' = idx /\ pc[s] # "writing" /\ pc'[s] # "writing"
        BY <2>1 DEF LoopHead, Quit, Close, Dispatch, plan, Inv, Types
      <3> QED BY <1>1, <1>4, <3>1 DEF Reached
    <2>2. CASE Write(s)
      <3>1. trace' = trace /\ idx' = idx /\ pc[s] = "ready" /\ pc'[s] = "writing"
        BY <2>2 DEF Write, Dispatch, plan, Inv, Types
      <3>2. At(s) \in Nat /\ At(s) > idx[s] /\ At(s)' = At(s)
        BY <3>1, ReadyMeans, NextPosition DEF Inv, Types, At, Ahead
      <3> QED BY <1>1, <1>4, <3>1, <3>2 DEF Reached
    <2>3. CASE Open(s) \/ WriteTaken(s) \/ WriteRejected(s) \/ Fsync(s) \/ NoHandle(s) \/ Finish(s)
      <3>1. Done(s) /\ trace' = trace /\ pc[s] \in {"ready", "writing", "closing"}
        BY <2>3 DEF Open, WriteTaken, WriteRejected, Fsync, NoHandle, Finish, Dispatch, plan
      <3>2. idx'[s] = At(s) /\ pc'[s] = "head" /\ At(s) \in Nat /\ At(s) > idx[s]
        BY <3>1, ReadyMeans, OneExecuted, NextPosition DEF Inv
      <3> QED BY <1>1, <1>4, <3>2 DEF Reached
    <2> QED BY <2>1, <2>2, <2>3 DEF StreamStep
  <1> QED BY <1>3, <1>4

(* An OPEN of a regular trace begins its Put, and every handle that is used   *)
(* has one.                                                                   *)
LEMMA OpensBegin ==
  ASSUME Inv, Regular, NEW s \in Streams, Open(s)
  PROVE  put' = [put EXCEPT ![NextOp(s).h].stage = "begun", ![NextOp(s).h].size = sizes[NextOp(s).tgt]]
         /\ failed' = failed
  <1>1. pc[s] = "ready" /\ NextOp(s).op = "OPEN"
    BY DEF Open, Dispatch
  <1>2. phase = "running" /\ At(s) \in DOMAIN trace /\ NextOp(s) = trace[At(s)]
    BY <1>1, ReadyMeans, NextPosition DEF Inv, NextOp
  <1>3. NextOp(s).mode = "w" /\ sizes[NextOp(s).tgt] # None
    BY <1>1, <1>2, RegularOpens
  <1> QED BY <1>3 DEF Open

LEMMA HandleAlways ==
  ASSUME Inv, ReplayInv, NEW s \in Streams
  PROVE  ~NoHandle(s)
  <1> SUFFICES ASSUME NoHandle(s) PROVE FALSE
    OBVIOUS
  <1>1. pc[s] = "ready" /\ NextOp(s).op \in {"WRITE", "FSYNC", "CLOSE"} /\ ~Coalesced(NextOp(s).h)
    BY DEF NoHandle, Dispatch
  <1>2. PICK i \in DOMAIN trace : trace[i].op = "OPEN" /\ trace[i].h = NextOp(s).h /\ Executed(i)
    BY <1>1, ReadyMeans, AboutNext DEF Inv
  <1> QED BY <1>1, <1>2 DEF ReplayInv, Coalesced

LEMMA StreamReplays ==
  ASSUME Inv, FlowHolds, Regular, ReplayInv, NEW s \in Streams, StreamStep(s)
  PROVE  ReplayInv'
  <1> DEFINE g == NextOp(s).h
  <1>0. /\ trace' = trace /\ faulty' = faulty /\ trace \in Traces /\ DOMAIN trace = 1..Len(trace)
        /\ put \in [Handles -> Puts] /\ closed \in [Handles -> {"no", "ok", "error"}]
    BY StreamFrame, TraceLength DEF Inv, Types
  <1>1. \A i \in DOMAIN trace : trace[i].h \in Handles /\ trace[i].s \in Streams
    BY <1>0, Fields
  <1>2. \/ put' = put
        \/ Open(s) /\ g \in Handles
           /\ put' = [put EXCEPT ![g].stage = "begun", ![g].size = sizes[NextOp(s).tgt]]
    <2>1. CASE Open(s)
      BY <2>1, OpensBegin, ReadyMeans DEF Open, Dispatch
    <2>2. CASE ~Open(s)
      BY <2>2 DEF StreamStep, LoopHead, Quit, Write, WriteTaken, WriteRejected, Fsync, NoHandle, Close, Finish
    <2> QED BY <2>1, <2>2
  <1>3. \A h \in Handles : /\ put'[h].err = put[h].err
                           /\ put[h].stage # "none" => put'[h].stage # "none"
                           /\ put'[h].stage \in {"returned", "detached", "sent"} => put'[h].stage = put[h].stage
    <2>1. CASE put' = put
      BY <2>1
    <2>2. CASE g \in Handles /\ put' = [put EXCEPT ![g].stage = "begun", ![g].size = sizes[NextOp(s).tgt]]
      <3> DEFINE n == sizes[NextOp(s).tgt]
      <3>1. g \in Handles /\ put' = [put EXCEPT ![g].stage = "begun", ![g].size = n]
        BY <2>2
      <3> HIDE DEF n, g
      <3> QED BY <1>0, <3>1 DEF Puts
    <2> QED BY <1>2, <2>1, <2>2
  (* Executed OPENs have their Put.                                           *)
  <1>4. ASSUME NEW i \in DOMAIN trace, trace[i].op = "OPEN", Executed(i)'
        PROVE  put'[trace[i].h].stage # "none" /\ (Answered(trace[i].h)' => Executed(i))
    <2>1. CASE Executed(i)
      BY <1>1, <1>3, <1>4, <2>1 DEF ReplayInv
    <2>2. CASE ~Executed(i)
      <3>1. trace[i].s = s /\ idx' # idx
        BY <1>0, <1>1, <1>4, <2>2, StreamFrame DEF Executed
      <3>2. Done(s) /\ pc[s] \in {"ready", "writing", "closing"}
        BY <3>1 DEF StreamStep, LoopHead, Quit, Open, Write, WriteTaken, WriteRejected, Fsync, NoHandle, Close, Finish,
             Dispatch
      <3>3. i = At(s) /\ Ahead(s) # {} /\ NextOp(s) = trace[i]
        BY <1>0, <1>4, <2>2, <3>2, ReadyMeans, OneExecuted DEF Inv, NextOp
      <3>4. Open(s)
        BY <1>4, <3>1, <3>3
          DEF StreamStep, LoopHead, Quit, Write, WriteTaken, WriteRejected, Fsync, NoHandle, Close, Finish, Dispatch,
              Inv, StreamInv
      <3>5. put'[g].stage = "begun"
        <4> DEFINE n == sizes[NextOp(s).tgt]
        <4>1. g \in Handles /\ put' = [put EXCEPT ![g].stage = "begun", ![g].size = n]
          BY <1>1, <3>3, <3>4, OpensBegin
        <4> HIDE DEF n, g
        <4> QED BY <1>0, <4>1 DEF Puts
      <3>6. trace[i].h = g
        BY <3>3
      <3>7. ~Answered(trace[i].h)'
        BY <1>0, <3>5, <3>6 DEF Answered
      <3> QED BY <3>5, <3>6, <3>7
    <2> QED BY <2>1, <2>2
  (* Nothing fails that has not failed at the store.                          *)
  <1>5. ASSUME NEW h \in Handles, h \in failed' \/ put'[h].err \/ closed'[h] = "error" PROVE h \in faulty
    <2>1. CASE WriteRejected(s)
      <3>1. pc[s] = "writing" /\ pipe[g].offered /\ pipe[g].rclosed /\ failed' = failed \cup {g} /\ closed' = closed
        BY <2>1 DEF WriteRejected
      <3>2. NextOp(s).op = "WRITE" /\ g \in Handles /\ Ahead(s) # {}
        BY <3>1, ReadyMeans DEF Inv, StreamInv
      <3>3. PICK i \in DOMAIN trace : trace[i].op = "OPEN" /\ trace[i].h = g /\ Executed(i)
        BY <3>2, AboutNext DEF Inv
      <3>4. Answered(g)
        BY <1>0, <3>1, <3>2 DEF Inv, PutInv, Answered, Puts
      <3>5. g \in faulty
        BY <3>1, <3>3, <3>4 DEF ReplayInv, AnswerInv
      <3> QED BY <1>3, <1>5, <3>1, <3>5 DEF ReplayInv
    <2>2. CASE Finish(s)
      <3>1. /\ pc[s] = "closing" /\ failed' = failed
            /\ closed' = [closed EXCEPT ![g] = IF put[g].err THEN "error" ELSE "ok"]
        BY <2>2 DEF Finish
      <3>2. g \in Handles
        BY <3>1, ReadyMeans
      <3>3. closed'[h] = "error" => closed[h] = "error" \/ put[h].err
        BY <1>0, <3>1, <3>2
      <3> QED BY <1>3, <1>5, <3>1, <3>3 DEF ReplayInv
    <2>3. CASE ~(WriteRejected(s) \/ Finish(s))
      <3>1. failed' = failed /\ closed' = closed
        BY <2>3, OpensBegin, HandleAlways
          DEF StreamStep, LoopHead, Quit, Open, Write, WriteTaken, Fsync, Close, results
      <3> QED BY <1>3, <1>5, <3>1 DEF ReplayInv
    <2> QED BY <2>1, <2>2, <2>3
  (* A Put that is over without a failure is offered nothing more.            *)
  <1>6. ASSUME NEW i \in DOMAIN trace, trace[i].op = "OPEN", Executed(i)' PROVE AnswerInv(i)'
    <2> SUFFICES ASSUME Answered(trace[i].h)', trace[i].h \notin faulty PROVE SeesAll(i)'
      BY <1>0 DEF AnswerInv, SeesAll
    <2> DEFINE h == trace[i].h
    <2>1. Executed(i) /\ Answered(h)
      BY <1>0, <1>1, <1>3, <1>4, <1>6 DEF Answered
    <2>2. SeesAll(i)
      BY <1>6, <2>1 DEF ReplayInv, AnswerInv, SeesAll
    <2>3. \A j \in DOMAIN trace : trace[j].op = "WRITE" /\ trace[j].h = h => j <= Reached(trace[i].s)'
      <3>1. Reached(trace[i].s) <= Reached(trace[i].s)' /\ Reached(trace[i].s) \in Nat /\ Reached(trace[i].s)' \in Nat
        <4>1. PICK r \in Streams : r = trace[i].s
          BY <1>1
        <4>2. Reached(r) \in Nat /\ Reached(r)' \in Nat /\ Reached(r) <= Reached(r)'
          BY ReachedGrows
        <4>3. Reached(trace[i].s)' = Reached(r)'
          BY <1>0, <4>1
        <4> QED BY <4>1, <4>2, <4>3
      <3>2. \A j \in DOMAIN trace : j \in Nat
        BY <1>0
      <3> HIDE DEF h
      <3> QED BY <2>2, <3>1, <3>2 DEF SeesAll, h
    <2>4. CASE Write(s)
      <3>1. pc[s] = "ready" /\ NextOp(s).op = "WRITE"
            /\ pipe' = [pipe EXCEPT ![g].offer = NextOp(s).len, ![g].offered = TRUE]
        BY <2>4 DEF Write, Dispatch
      <3>2. /\ At(s) \in DOMAIN trace /\ At(s) \in Nat /\ NextOp(s) = trace[At(s)] /\ trace[At(s)].s = s
            /\ At(s) > idx[s] /\ idx[s] \in Nat
        BY <1>0, <3>1, ReadyMeans, NextPosition DEF Inv, Types, NextOp
      <3>3. g # h
        <4>1. ASSUME g = h PROVE FALSE
          <5>1. trace[i].s = s
            BY <3>2, <4>1, OneStream DEF Inv
          <5>2. At(s) <= Reached(s) /\ Reached(s) = idx[s]
            BY <2>2, <3>1, <3>2, <4>1, <5>1 DEF SeesAll, Reached
          <5> QED BY <3>2, <5>2
        <4> QED BY <4>1
      <3>4. pipe'[h] = pipe[h]
        BY <1>1, <3>3, StreamFrame
      <3> QED BY <1>0, <2>2, <2>3, <3>4 DEF SeesAll
    <2>5. CASE ~Write(s)
      <3>1. ~pipe'[h].offered
        <4>1. CASE WriteRejected(s)
          <5>1. pipe' = [pipe EXCEPT ![g].offer = 0, ![g].offered = FALSE]
            BY <4>1 DEF WriteRejected
          <5>2. CASE h # g
            <6>1. pipe'[h] = pipe[h]
              BY <1>1, <5>2, StreamFrame
            <6> QED BY <2>2, <6>1 DEF SeesAll
          <5>3. CASE h = g
            <6>1. g \in Handles
              BY <1>1, <5>3
            <6>2. pipe'[g].offered = FALSE
              <7> HIDE DEF g
              <7> QED BY <5>1, <6>1, PipeFed DEF Inv
            <6> QED BY <5>3, <6>2
          <5> QED BY <5>2, <5>3
        <4>2. CASE Close(s)
          <5>1. pipe' = [pipe EXCEPT ![g].wclosed = TRUE] /\ g \in Handles
            BY <4>2, ReadyMeans DEF Close, Dispatch
          <5>2. pipe'[h].offered = pipe[h].offered
            <6> HIDE DEF g
            <6> QED BY <1>1, <5>1, PipeEnded DEF Inv
          <5> QED BY <2>2, <5>2 DEF SeesAll
        <4>3. CASE ~(WriteRejected(s) \/ Close(s))
          <5>1. pipe' = pipe
            BY <2>5, <4>3 DEF StreamStep, LoopHead, Quit, Open, WriteTaken, Fsync, NoHandle, Finish
          <5> QED BY <2>2, <5>1 DEF SeesAll
        <4> QED BY <4>1, <4>2, <4>3
      <3> QED BY <1>0, <2>3, <3>1 DEF SeesAll
    <2> QED BY <2>4, <2>5
  <1> QED BY <1>0, <1>4, <1>5, <1>6 DEF ReplayInv

LEMMA FullInvInit == Init => FullInv
  <1> SUFFICES ASSUME Init PROVE FullInv
    OBVIOUS
  <1>1. Inv
    BY InvInit
  <1>2. ASSUME NEW i \in DOMAIN trace PROVE ~Executed(i)
    <2>1. i \in 1..Len(trace) /\ trace[i].s \in Streams /\ Len(trace) \in Nat
      BY <1>1, TraceLength, Fields DEF Inv, Types
    <2>2. idx[trace[i].s] = 0
      BY <2>1 DEF Init
    <2> QED BY <2>1, <2>2 DEF Executed
  <1>3. \A h \in Handles : h \notin failed /\ ~put[h].err /\ closed[h] # "error"
    BY DEF Init, NotBegun
  <1> QED BY <1>2, <1>3 DEF FullInv, FlowHolds, ReplayInv

LEMMA FullInvStep == Inv /\ FullInv /\ [Next]_vars => FullInv'
  <1> SUFFICES ASSUME Inv, FullInv, [Next]_vars PROVE FullInv'
    OBVIOUS
  <1>1. FlowHolds'
    BY FlowStep DEF FullInv
  <1>2. trace' = trace
    BY DEF Next, Prepare, StreamStep, PutStep, LoopHead, Quit, Open, Write, WriteTaken, WriteRejected, Fsync, NoHandle,
           Close, Finish, Begin, BeginFails, Read, ReadEnds, SendPart, SendPartFails, Store, StoreFails, CloseReader,
           SendErr, Cancel, Over, vars, plan
  <1>3. Regular' = Regular
    BY <1>2 DEF Regular, SizesAgree, Covered, Performs
  <1>4. ASSUME Regular PROVE ReplayInv'
    <2>1. FlowHolds /\ ReplayInv
      BY <1>4 DEF FullInv
    <2>2. CASE Prepare \/ Cancel \/ UNCHANGED vars
      BY <2>1, <2>2
        DEF Prepare, Cancel, vars, plan, streams, results, ReplayInv, Executed, AnswerInv, Answered, Reached, At, Ahead
    <2>3. ASSUME NEW s \in Streams, StreamStep(s) PROVE ReplayInv'
      BY <1>4, <2>1, <2>3, StreamReplays
    <2>4. ASSUME NEW h \in Handles, PutStep(h) PROVE ReplayInv'
      BY <1>4, <2>1, <2>4, PutReplays
    <2> QED BY <2>2, <2>3, <2>4 DEF Next, Over
  <1> QED BY <1>1, <1>3, <1>4 DEF FullInv

(* What PREPARE admits can be replayed: on a regular trace an operation on a  *)
(* write handle only fails because a call to the store failed: no WRITE is    *)
(* ever refused by a Put that already has all it wants, no Put ends for want  *)
(* of bytes (objectwrite.go:18).                                              *)
THEOREM RegularTracesReplay == Spec => []RegularReplays
  <1>1. FullInv => RegularReplays
    BY DEF FullInv, ReplayInv, RegularReplays, EligibleReplays
  <1>2. Spec => []FullInv
    BY FullInvInit, FullInvStep, InvHolds, PTL DEF Spec
  <1> QED BY <1>1, <1>2, PTL
=============================================================================
