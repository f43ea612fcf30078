---------------------------- MODULE AtomicObjects ----------------------------
(***************************************************************************)
(* What a trace's write handles may rely on when it is replayed against an  *)
(* object store: writing through a handle replaces one object, at most once *)
(* and as a whole, while the handle is open, and a CLOSE that succeeds      *)
(* reports that this has happened.  After a CLOSE that fails nothing more   *)
(* happens.  ("The Put either lands durably or fails outright at CLOSE",    *)
(* pkg/replay/scheduler.go.)                                                *)
(***************************************************************************)

CONSTANTS Handles, Targets, None

VARIABLES
  object,   (* object[t]: the handle that wrote the object at t, or None *)
  landed,   (* handles whose object has been stored *)
  closed    (* closed[h]: "no", or what CLOSE reported *)

vars == <<object, landed, closed>>

Init ==
  /\ object = [t \in Targets |-> None]
  /\ landed = {}
  /\ closed = [h \in Handles |-> "no"]

Land(h) ==
  /\ closed[h] = "no"
  /\ h \notin landed
  /\ landed' = landed \cup {h}
  /\ \E t \in Targets : object' = [object EXCEPT ![t] = h]
  /\ UNCHANGED closed

Close(h) ==
  /\ closed[h] = "no"
  /\ \/ h \in landed /\ closed' = [closed EXCEPT ![h] = "ok"]
     \/ closed' = [closed EXCEPT ![h] = "error"]
  /\ UNCHANGED <<object, landed>>

Next == \E h \in Handles : Land(h) \/ Close(h)

Spec == Init /\ [][Next]_vars
=============================================================================
