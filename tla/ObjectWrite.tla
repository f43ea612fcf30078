----------------------------- MODULE ObjectWrite -----------------------------
(***************************************************************************)
(* Replaying file-shaped writes against an object store.  PREPARE's pass    *)
(* over the trace (objectwrite.go, observe) admits write handles whose      *)
(* WRITEs are sequential, and notes the size of their object.  In RUN the   *)
(* OPEN of such a handle starts a Put in the background (startObjectPut);   *)
(* every WRITE feeds it through an unbuffered pipe, and CLOSE ends the pipe *)
(* and waits for the Put (dispatchOp, S3Engine.Put, putMultipart).          *)
(* Bytes are counted, not represented.  A store call may fail at any time,  *)
(* with or without having taken effect, the call that aborts an upload      *)
(* included.  Read handles are left out.                                    *)
(***************************************************************************)
EXTENDS Naturals, Sequences, SequencesExt

CONSTANTS Streams, Handles, Targets, None,
          Traces,     (* the validated traces considered; sequences of Ops *)
          Declared,   (* Declared[t]: size in the target table, 0 if unknown *)
          Threshold,  (* Config.MultipartThreshold *)
          PartSize    (* Config.MultipartPartSize *)

ASSUME ObjectsAssumption == None \notin Handles \cup Nat
ASSUME DeclaredAssumption == Declared \in [Targets -> Nat]
ASSUME PartsAssumption == Threshold \in Nat /\ PartSize \in Nat \ {0}

VARIABLES
  trace, phase,
  sizes,      (* objectWriteSizes: sizes[t] \in Nat, or None *)
  idx, pc,    (* each stream's position in the trace, what its goroutine is doing *)
  cancelled,
  pipe,       (* pipe[h]: the bytes a blocked WRITE still offers, both ends *)
  put,        (* put[h]: the Put call of handle h *)
  upload,     (* upload[h]: its multipart upload at the store; "orphaned" is open
                 at the store after a failed call to create or to abort it *)
  object,     (* object[t]: the handle whose Put stored the object at t *)
  stored,     (* stored[h]: bytes in the object h's Put stored, or None *)
  failed,     (* handles with a failed OPEN, WRITE or FSYNC *)
  closed,     (* closed[h]: what CLOSE returned *)
  faulty      (* history: handles one of whose store calls failed, aborts aside *)

plan    == <<trace, phase, sizes>>
streams == <<idx, pc>>
store   == <<upload, object, stored>>
results == <<failed, closed>>
vars == <<plan, streams, cancelled, pipe, put, store, results, faulty>>

-----------------------------------------------------------------------------
Ops == [op : {"OPEN"}, s : Streams, h : Handles, tgt : Targets, mode : {"w", "rw"}]
       \cup [op : {"WRITE"}, s : Streams, h : Handles, off : Nat, len : Nat]
       \cup [op : {"FSYNC", "CLOSE"}, s : Streams, h : Handles]

(* What the validator lets through: a handle is opened once, used by the      *)
(* stream that opened it, after that and not after its CLOSE.                 *)
Validated(tr) ==
  \A i \in DOMAIN tr :
    /\ tr[i].op = "OPEN"  => \A j \in DOMAIN tr : tr[j].op = "OPEN" /\ tr[j].h = tr[i].h => j = i
    /\ tr[i].op # "OPEN"  => \E j \in 1..(i - 1) : tr[j].op = "OPEN" /\ tr[j].h = tr[i].h /\ tr[j].s = tr[i].s
    /\ tr[i].op = "CLOSE" => \A j \in DOMAIN tr : tr[j].h = tr[i].h => j <= i

ASSUME TracesAssumption == \A tr \in Traces : tr \in Seq(Ops) /\ Validated(tr)

(* A stream's operations are those of the trace that name it, in order.       *)
Ahead(s)  == {i \in DOMAIN trace : trace[i].s = s /\ i > idx[s]}
At(s)     == Min(Ahead(s))
NextOp(s) == trace[At(s)]

Target(h) == LET o == CHOOSE o \in ToSet(trace) : o.op = "OPEN" /\ o.h = h IN o.tgt

(* PREPARE: the eligibility pass.                                            *)
NothingSeen == [ok    |-> TRUE,
                open  |-> [h \in Handles |-> None],
                sizes |-> [t \in Targets |-> None]]

Opened(e, o) == [e EXCEPT !.open[o.h] = [tgt |-> o.tgt, mode |-> o.mode, next |-> 0]]

Written(e, o) ==
  IF e.open[o.h].mode = "w" /\ o.off = e.open[o.h].next
  THEN [e EXCEPT !.open[o.h].next = @ + o.len]
  ELSE [e EXCEPT !.ok = FALSE]

(* Mutant: the coverage of a lifecycle is not compared with the declared     *)
(* size, which becomes the size of the object instead.                       *)
MutantClosed(e, o) ==
  LET st == e.open[o.h]
      gone == [e EXCEPT !.open[o.h] = None]
  IN  IF st.mode # "w" THEN gone
      ELSE [gone EXCEPT !.sizes[st.tgt] = IF Declared[st.tgt] > 0 THEN Declared[st.tgt] ELSE st.next]

Closed(e, o) ==
  LET st == e.open[o.h]
      gone == [e EXCEPT !.open[o.h] = None]
  IN  IF st.mode # "w" THEN gone
      ELSE IF Declared[st.tgt] > 0 /\ st.next # Declared[st.tgt]
           THEN [gone EXCEPT !.ok = FALSE]
           ELSE [gone EXCEPT !.sizes[st.tgt] = st.next]

Observe(e, o) ==
  IF ~e.ok THEN e
  ELSE CASE o.op = "OPEN"  -> Opened(e, o)
         [] o.op = "WRITE" -> Written(e, o)
         [] o.op = "CLOSE" -> Closed(e, o)
         [] OTHER          -> e

(* ... over the first n operations of a trace. *)
Eligibility(tr) ==
  LET e[n \in 0..Len(tr)] == IF n = 0 THEN NothingSeen ELSE Observe(e[n - 1], tr[n])
  IN  e

-----------------------------------------------------------------------------
Idle     == [offer |-> 0, offered |-> FALSE, wclosed |-> FALSE, rclosed |-> FALSE]
NotBegun == [stage |-> "none", size |-> 0, filled |-> 0, uploaded |-> 0, err |-> FALSE]

Init ==
  /\ trace \in Traces
  /\ phase = "preparing"
  /\ sizes = [t \in Targets |-> None]
  /\ idx = [s \in Streams |-> 0]
  /\ pc = [s \in Streams |-> "head"]
  /\ cancelled = FALSE
  /\ pipe = [h \in Handles |-> Idle]
  /\ put = [h \in Handles |-> NotBegun]
  /\ upload = [h \in Handles |-> "none"]
  /\ object = [t \in Targets |-> None]
  /\ stored = [h \in Handles |-> None]
  /\ failed = {}
  /\ closed = [h \in Handles |-> "no"]
  /\ faulty = {}

(* prepareInternal: the first ineligible operation refuses the whole run.    *)
Prepare ==
  /\ phase = "preparing"
  /\ LET e == Eligibility(trace)[Len(trace)]
     IN  IF e.ok THEN phase' = "running" /\ sizes' = e.sizes
                 ELSE phase' = "refused" /\ UNCHANGED sizes
  /\ UNCHANGED <<trace, streams, cancelled, pipe, put, store, results, faulty>>

-----------------------------------------------------------------------------
(* The goroutine of stream s, one operation after the other.                 *)

(* Past the context check; waiting for arrival and semaphore may still end   *)
(* in the context's cancellation (Quit).                                     *)
LoopHead(s) ==
  /\ phase = "running" /\ pc[s] = "head"
  /\ pc' = [pc EXCEPT ![s] = IF Ahead(s) = {} \/ cancelled
                             THEN "exited" ELSE "ready"]
  /\ UNCHANGED <<plan, idx, cancelled, pipe, put, store, results, faulty>>

Quit(s) ==
  /\ cancelled /\ pc[s] = "ready"
  /\ pc' = [pc EXCEPT ![s] = "exited"]
  /\ UNCHANGED <<plan, idx, cancelled, pipe, put, store, results, faulty>>

Dispatch(s, kind) == pc[s] = "ready" /\ NextOp(s).op = kind

Done(s) == /\ pc' = [pc EXCEPT ![s] = "head"]
           /\ idx' = [idx EXCEPT ![s] = At(s)]

(* A handle OPEN put in the handle map as an object write.                   *)
Coalesced(h) == put[h].stage # "none"

Open(s) ==
  LET o == NextOp(s) IN
  /\ Dispatch(s, "OPEN")
  /\ IF o.mode = "w" /\ sizes[o.tgt] # None
     THEN /\ put' = [put EXCEPT ![o.h].stage = "begun", ![o.h].size = sizes[o.tgt]]
          /\ UNCHANGED failed
     ELSE /\ failed' = failed \cup {o.h}    (* S3Engine.Open: unsupported mode *)
          /\ UNCHANGED put
  /\ Done(s)
  /\ UNCHANGED <<plan, cancelled, pipe, store, closed, faulty>>

(* WRITE blocks in the pipe until its bytes are taken or the reader is gone. *)
Write(s) ==
  LET o == NextOp(s) IN
  /\ Dispatch(s, "WRITE") /\ Coalesced(o.h)
  /\ pc' = [pc EXCEPT ![s] = "writing"]
  /\ pipe' = [pipe EXCEPT ![o.h].offer = o.len, ![o.h].offered = TRUE]
  /\ UNCHANGED <<plan, idx, cancelled, put, store, results, faulty>>

WriteTaken(s) ==
  /\ pc[s] = "writing" /\ ~pipe[NextOp(s).h].offered
  /\ Done(s)
  /\ UNCHANGED <<plan, cancelled, pipe, put, store, results, faulty>>

(* Mutant: a rejected WRITE is tried again. *)
MutantWriteRejected(s) ==
  LET h == NextOp(s).h IN
  /\ pc[s] = "writing" /\ pipe[h].offered /\ pipe[h].rclosed
  /\ UNCHANGED vars

WriteRejected(s) ==
  LET h == NextOp(s).h IN
  /\ pc[s] = "writing" /\ pipe[h].offered /\ pipe[h].rclosed
  /\ pipe' = [pipe EXCEPT ![h].offer = 0, ![h].offered = FALSE]
  /\ failed' = failed \cup {h}
  /\ Done(s)
  /\ UNCHANGED <<plan, cancelled, put, store, closed, faulty>>

(* FSYNC of an object write does nothing.                                    *)
Fsync(s) ==
  /\ Dispatch(s, "FSYNC") /\ Coalesced(NextOp(s).h)
  /\ Done(s)
  /\ UNCHANGED <<plan, cancelled, pipe, put, store, results, faulty>>

(* After a failed OPEN the handle map has no entry, and the engine knows     *)
(* nothing of the handle the operation names.                                *)
NoHandle(s) ==
  LET o == NextOp(s) IN
  /\ \E kind \in {"WRITE", "FSYNC", "CLOSE"} : Dispatch(s, kind)
  /\ ~Coalesced(o.h)
  /\ IF o.op = "CLOSE" THEN closed' = [closed EXCEPT ![o.h] = "error"] /\ UNCHANGED failed
                       ELSE failed' = failed \cup {o.h} /\ UNCHANGED closed
  /\ Done(s)
  /\ UNCHANGED <<plan, cancelled, pipe, put, store, faulty>>

(* CLOSE: finish closes the write side ...                                   *)
Close(s) ==
  LET h == NextOp(s).h IN
  /\ Dispatch(s, "CLOSE") /\ Coalesced(h)
  /\ pc' = [pc EXCEPT ![s] = "closing"]
  /\ pipe' = [pipe EXCEPT ![h].wclosed = TRUE]
  /\ UNCHANGED <<plan, idx, cancelled, put, store, results, faulty>>

(* Mutant: finish does not wait for the Put. *)
MutantFinish(s) ==
  LET h == NextOp(s).h IN
  /\ pc[s] = "closing"
  /\ closed' = [closed EXCEPT ![h] = IF put[h].err THEN "error" ELSE "ok"]
  /\ Done(s)
  /\ UNCHANGED <<plan, cancelled, pipe, put, store, failed, faulty>>

(* ... and returns what the Put sends on done.                               *)
Finish(s) ==
  LET h == NextOp(s).h IN
  /\ pc[s] = "closing" /\ put[h].stage = "sent"
  /\ closed' = [closed EXCEPT ![h] = IF put[h].err THEN "error" ELSE "ok"]
  /\ Done(s)
  /\ UNCHANGED <<plan, cancelled, pipe, put, store, failed, faulty>>

-----------------------------------------------------------------------------
(* The goroutine that startObjectPut launched for handle h.                  *)

Multipart(h) == put[h].size > Threshold

(* What the current ReadFull still has to read.                              *)
Least(a, b) == IF a < b THEN a ELSE b
Missing(h) == (IF Multipart(h) THEN Least(PartSize, put[h].size - put[h].uploaded)
                               ELSE put[h].size) - put[h].filled

Returned(h, err) == put' = [put EXCEPT ![h].stage = "returned", ![h].err = err]

(* putMultipart's abort, on a context of its own; if it fails, which is       *)
(* ignored, the upload stays.  There may be none, or it may be completed.     *)
Abort(h) ==
  \/ upload[h] # "open" /\ UNCHANGED upload
  \/ /\ upload[h] = "open"
     /\ \E end \in {"aborted", "orphaned"} : upload' = [upload EXCEPT ![h] = end]

Begin(h) ==
  /\ put[h].stage = "begun"
  /\ upload' = IF Multipart(h) THEN [upload EXCEPT ![h] = "open"] ELSE upload
  /\ put' = [put EXCEPT ![h].stage = "reading"]
  /\ UNCHANGED <<plan, streams, cancelled, pipe, object, stored, results, faulty>>

(* CreateMultipartUpload fails, or answers without an id, which takes the     *)
(* same way out; the store may have created the upload.                       *)
BeginFails(h) ==
  /\ put[h].stage = "begun" /\ Multipart(h)
  /\ UNCHANGED upload \/ upload' = [upload EXCEPT ![h] = "orphaned"]
  /\ Returned(h, TRUE)
  /\ faulty' = faulty \cup {h}
  /\ UNCHANGED <<plan, streams, cancelled, pipe, object, stored, results>>

(* One Read of the pipe, paired with the WRITE blocked on it.                *)
Taken(h) == Least(pipe[h].offer, Missing(h))

Read(h) ==
  /\ put[h].stage = "reading" /\ Missing(h) > 0
  /\ pipe[h].offered
  /\ put' = [put EXCEPT ![h].filled = @ + Taken(h)]
  /\ pipe' = [pipe EXCEPT ![h].offer = @ - Taken(h),
                          ![h].offered = pipe[h].offer > Taken(h)]
  /\ UNCHANGED <<plan, streams, cancelled, store, results, faulty>>

(* The source ended before the declared size: an error.                      *)
ReadEnds(h) ==
  /\ put[h].stage = "reading" /\ Missing(h) > 0
  /\ pipe[h].wclosed /\ ~pipe[h].offered
  /\ Returned(h, TRUE)
  /\ Abort(h)
  /\ UNCHANGED <<plan, streams, cancelled, pipe, object, stored, results, faulty>>

(* A part is full and is sent; there is another one.                         *)
SendPart(h) ==
  /\ put[h].stage = "reading" /\ Multipart(h) /\ Missing(h) = 0
  /\ put[h].uploaded < put[h].size
  /\ put' = [put EXCEPT ![h].uploaded = @ + put[h].filled, ![h].filled = 0]
  /\ UNCHANGED <<plan, streams, cancelled, pipe, store, results, faulty>>

(* Mutant: a part that cannot be sent leaves its upload behind.              *)
MutantSendPartFails(h) ==
  /\ put[h].stage = "reading" /\ Multipart(h) /\ Missing(h) = 0
  /\ put[h].uploaded < put[h].size
  /\ Returned(h, TRUE)
  /\ faulty' = faulty \cup {h}
  /\ UNCHANGED <<plan, streams, cancelled, pipe, store, results>>

SendPartFails(h) ==
  /\ put[h].stage = "reading" /\ Multipart(h) /\ Missing(h) = 0
  /\ put[h].uploaded < put[h].size
  /\ Returned(h, TRUE)
  /\ Abort(h)
  /\ faulty' = faulty \cup {h}
  /\ UNCHANGED <<plan, streams, cancelled, pipe, object, stored, results>>

(* Mutant: a full part counts as the whole object. *)
MutantReadyToStore(h) == put[h].stage = "reading" /\ Missing(h) = 0

(* Everything has been read: PutObject, or CompleteMultipartUpload.          *)
ReadyToStore(h) ==
  /\ put[h].stage = "reading"
  /\ IF Multipart(h) THEN put[h].uploaded = put[h].size ELSE Missing(h) = 0

Lands(h) ==
  /\ stored' = [stored EXCEPT ![h] = put[h].uploaded + put[h].filled]
  /\ object' = [object EXCEPT ![Target(h)] = h]

Store(h) ==
  /\ ReadyToStore(h)
  /\ Lands(h)
  /\ upload' = IF Multipart(h) THEN [upload EXCEPT ![h] = "completed"] ELSE upload
  /\ Returned(h, FALSE)
  /\ UNCHANGED <<plan, streams, cancelled, pipe, results, faulty>>

(* The call fails; only its answer may have been lost.                       *)
StoreFails(h) ==
  /\ ReadyToStore(h)
  /\ \/ /\ Lands(h)
        /\ upload' = IF Multipart(h) THEN [upload EXCEPT ![h] = "completed"] ELSE upload
     \/ Abort(h) /\ UNCHANGED <<object, stored>>
  /\ Returned(h, TRUE)
  /\ faulty' = faulty \cup {h}
  /\ UNCHANGED <<plan, streams, cancelled, pipe, results>>

(* pr.CloseWithError(err), then done <- err.                                 *)
CloseReader(h) ==
  /\ put[h].stage = "returned"
  /\ put' = [put EXCEPT ![h].stage = "detached"]
  /\ pipe' = [pipe EXCEPT ![h].rclosed = TRUE]
  /\ UNCHANGED <<plan, streams, cancelled, store, results, faulty>>

SendErr(h) ==
  /\ put[h].stage = "detached"
  /\ put' = [put EXCEPT ![h].stage = "sent"]
  /\ UNCHANGED <<plan, streams, cancelled, pipe, store, results, faulty>>

-----------------------------------------------------------------------------
(* The run's context is cancelled.                                           *)
Cancel ==
  /\ phase = "running" /\ ~cancelled
  /\ cancelled' = TRUE
  /\ UNCHANGED <<plan, streams, pipe, put, store, results, faulty>>

Exited == \A s \in Streams : pc[s] = "exited"

(* All the streams are over; a Put nobody will finish stays as it is.        *)
Over ==
  /\ Exited \/ phase = "refused"
  /\ UNCHANGED vars

StreamStep(s) ==
  \/ LoopHead(s) \/ Quit(s) \/ Open(s)
  \/ Write(s) \/ WriteTaken(s) \/ WriteRejected(s)
  \/ Fsync(s) \/ NoHandle(s) \/ Close(s) \/ Finish(s)

PutStep(h) ==
  \/ Begin(h) \/ BeginFails(h) \/ Read(h) \/ ReadEnds(h)
  \/ SendPart(h) \/ SendPartFails(h) \/ Store(h) \/ StoreFails(h)
  \/ CloseReader(h) \/ SendErr(h)

Next ==
  \/ Prepare
  \/ \E s \in Streams : StreamStep(s)
  \/ \E h \in Handles : PutStep(h)
  \/ Cancel
  \/ Over

Spec == Init /\ [][Next]_vars

(* Goroutines run and store calls return.                                    *)
FairSpec ==
  /\ Spec
  /\ WF_vars(Prepare)
  /\ \A s \in Streams : WF_vars(StreamStep(s))
  /\ \A h \in Handles : WF_vars(PutStep(h))
=============================================================================
