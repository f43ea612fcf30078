---------------------------- MODULE MCObjectWrite ----------------------------
(* Traces for ObjectWrite.  t2 has a declared size of 2, t1 has none; parts  *)
(* hold 2 bytes, so an object of 3 goes up in two parts.                     *)
EXTENDS ObjectWriteProps

CONSTANTS s1, s2, h1, h2, t1, t2

Sizes == [t \in Targets |-> IF t = t2 THEN 2 ELSE 0]

O(s, h, t, m)   == [op |-> "OPEN", s |-> s, h |-> h, tgt |-> t, mode |-> m]
W(s, h, off, n) == [op |-> "WRITE", s |-> s, h |-> h, off |-> off, len |-> n]
F(s, h)         == [op |-> "FSYNC", s |-> s, h |-> h]
C(s, h)         == [op |-> "CLOSE", s |-> s, h |-> h]

Disjoint   == <<O(s1, h1, t1, "w"), O(s2, h2, t2, "w"), W(s1, h1, 0, 3), W(s2, h2, 0, 1),
                F(s1, h1), C(s1, h1), W(s2, h2, 1, 1), C(s2, h2)>>
SameObject == <<O(s1, h1, t1, "w"), W(s1, h1, 0, 1), O(s2, h2, t1, "w"), W(s1, h1, 1, 2),
                W(s2, h2, 0, 3), C(s1, h1), C(s2, h2)>>
InSequence == <<O(s1, h1, t2, "w"), W(s1, h1, 0, 0), W(s1, h1, 0, 2), C(s1, h1),
                O(s1, h2, t1, "w"), C(s1, h2)>>
Short      == <<O(s1, h1, t2, "w"), W(s1, h1, 0, 1), C(s1, h1)>>
Update     == <<O(s1, h1, t1, "rw"), W(s1, h1, 0, 1), C(s1, h1)>>
Gap        == <<O(s1, h1, t1, "w"), W(s1, h1, 1, 1), C(s1, h1)>>

Shrinks    == <<O(s1, h1, t1, "w"), W(s1, h1, 0, 3), C(s1, h1),
                O(s2, h2, t1, "w"), W(s2, h2, 0, 1), C(s2, h2)>>
Grows      == <<O(s1, h1, t1, "w"), W(s1, h1, 0, 1), C(s1, h1),
                O(s2, h2, t1, "w"), W(s2, h2, 0, 3), C(s2, h2)>>
EmptyLast  == <<O(s1, h1, t1, "w"), W(s1, h1, 0, 1), W(s1, h1, 1, 0), C(s1, h1)>>
NeverClosed == <<O(s1, h1, t1, "w"), W(s1, h1, 0, 1), F(s1, h1),
                 O(s2, h2, t2, "w"), W(s2, h2, 0, 2), C(s2, h2)>>
ReadOnlyUse == <<O(s1, h1, t1, "rw"), F(s1, h1), C(s1, h1)>>

Consistent == {Disjoint, SameObject, InSequence, Short, Update, Gap}
All        == Consistent \cup {Shrinks, Grows, EmptyLast, NeverClosed, ReadOnlyUse}

ASSUME \A t \in All : \A i \in DOMAIN t : t[i] \in Ops
=============================================================================
