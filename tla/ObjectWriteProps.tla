--------------------------- MODULE ObjectWriteProps ---------------------------
(* What ObjectWrite guarantees.  Drains, Settled and the contract hold    *)
(* for every validated trace, WholeObjects and RegularReplays say what        *)
(* PREPARE's eligibility pass is for.                                         *)
EXTENDS ObjectWrite

(* The furthest byte a handle's WRITEs reach, and which operations it has.    *)
Covered(h) ==
  Max({0} \cup {trace[i].off + trace[i].len : i \in {i \in DOMAIN trace : trace[i].op = "WRITE" /\ trace[i].h = h}})

Performs(h, ops) == \E i \in DOMAIN trace : trace[i].op \in ops /\ trace[i].h = h

(* A stream never hangs in its pipe: whatever the Put does, early failure     *)
(* included, a WRITE blocked on it and a CLOSE waiting for it come back       *)
(* (objectwrite.go:116).                                                      *)
Drains == <>(Exited \/ phase = "refused")

(* What is left behind.  A Put that has returned, whatever failed, leaves no  *)
(* multipart upload open at the store but one that the store itself orphaned, *)
(* by failing the call that created it or that was to abort it.  A CLOSE is   *)
(* answered when the Put has returned; so what stays are the Puts of handles  *)
(* that were never closed, and a handle the trace closes is one of these only *)
(* after a cancellation (objectwrite.go:136, multipart.go:30,                 *)
(* scheduler.go:182).                                                         *)
Settled ==
  /\ \A h \in Handles :
       /\ put[h].stage \in {"returned", "detached", "sent"} => upload[h] # "open"
       /\ closed[h] # "no" => put[h].stage \in {"none", "sent"}
  /\ Exited /\ ~cancelled => \A h \in Handles : Performs(h, {"CLOSE"}) => closed[h] # "no"

(* Pipe, Put and multipart upload implement atomic replacement of objects.    *)
Contract == INSTANCE AtomicObjects WITH landed <- {h \in Handles : stored[h] # None}

ImplementsAtomicObjects == Contract!Spec

-----------------------------------------------------------------------------
(* What PREPARE leaves unchecked.  Its pass looks at one lifecycle at a time, *)
(* at WRITEs and CLOSEs only: it does not see that lifecycles of one object   *)
(* differ in size, that a handle is never closed or opened "rw" for nothing,  *)
(* nor that a WRITE without bytes is the last one.                            *)
SizesAgree ==
  LET writers == {i \in DOMAIN trace : trace[i].op = "OPEN" /\ trace[i].mode = "w"}
  IN  \A i, j \in writers : trace[i].tgt = trace[j].tgt => Covered(trace[i].h) = Covered(trace[j].h)

Regular ==
  /\ SizesAgree
  /\ \A i \in DOMAIN trace : trace[i].op = "OPEN" =>
       Performs(trace[i].h, {"CLOSE"}) /\ (trace[i].mode = "rw" => Performs(trace[i].h, {"WRITE"}))
  /\ \A i \in DOMAIN trace : trace[i].op = "WRITE" /\ trace[i].len = 0 =>
       \E j \in i..Len(trace) : trace[j].op = "WRITE" /\ trace[j].h = trace[i].h /\ trace[j].len > 0

(* An object is replaced as a whole or not at all: whatever store calls fail  *)
(* and wherever the run is cut off, an object written through a handle holds  *)
(* every byte of that handle's WRITEs (objectwrite.go:15, "partial coverage   *)
(* ... is reported as an error").                                             *)
NoPartialObject ==
  \A t \in Targets : object[t] # None => stored[object[t]] = Covered(object[t])

(* ... for the traces in which the writers of an object agree on its size.   *)
WholeObjects == SizesAgree => NoPartialObject

(* What PREPARE admits can be replayed: an operation on a write handle only   *)
(* fails because a call to the store failed (objectwrite.go:18).              *)
EligibleReplays ==
  \A h \in Handles : h \in failed \/ closed[h] = "error" => h \in faulty

(* ... for the traces without the irregularities PREPARE does not look for.  *)
RegularReplays == Regular => EligibleReplays
=============================================================================
