---------------------------- MODULE DFTracerImport ----------------------------
(* The DFTracer importer (pkg/importer/dftracer/parse.go).  An event is       *)
(* logged as a whole, under its thread.  In the literal form it carries the   *)
(* descriptor and the offset; the hashed form (2.x) names files by a hash     *)
(* instead, logs no failed open, and needs the hash defined by metadata.      *)
EXTENDS FDTable, Descriptors

VARIABLES
  form,       (* "literal" or "hashed" *)
  hashes,     (* the files whose hash the metadata defines: fhashToPath *)
  ptToStream, (* the stream of each thread *)
  events      (* events read so far *)

dfVars == <<form, hashes, ptToStream, events>>

CONSTANTS MaxEvents,  (* bound on the events of the source trace *)
          NoKey       (* resolveFDKey found nothing *)

DFInit ==
  /\ TableInit
  /\ form \in {"literal", "hashed"}
  /\ hashes \in {Paths, AllPaths}
  /\ ptToStream = <<>>
  /\ events = 0

DFStreamOf(p) == IF p \in DOMAIN ptToStream THEN ptToStream[p] ELSE Cardinality(DOMAIN ptToStream)
DFRegistered(p) ==
  ptToStream' = [q \in DOMAIN ptToStream \cup {p} |-> IF q = p THEN DFStreamOf(p) ELSE ptToStream[q]]

(* resolveFDKey: the descriptor, or one synthesised from the hash.  synthFD   *)
(* is injective and never a real descriptor, so a file stands for its own.    *)
Key(p, e) == IF form = "literal" THEN e.fd ELSE IF Open(p, e.fd) THEN File(p, e.fd).path ELSE NoKey

DFSkip(reason) == Skip(reason) /\ UNCHANGED fdtVars

(* The event names the file itself, so directories need not be tracked. *)
DFOpen(p, s, e) ==
  IF e.ret < 0 THEN DFSkip("failed_open")
  ELSE LET path == PathOf(p, e)
           key  == IF form = "literal" THEN e.ret ELSE path
       IN  IF form = "hashed" /\ path \notin hashes THEN DFSkip("unresolved_fhash")
           ELSE IF "directory" \in e.flags THEN Silently /\ UNCHANGED fdtVars
           ELSE /\ FdtOpen(s, key, path, "append" \in e.flags)
                /\ AddTargetOp([BlankOp EXCEPT !.op = "OPEN", !.t = events, !.s = s, !.h = nextHandle,
                                               !.mode = "rw"], path)

Reads(e) == e.call \in {"read", "pread"}

(* The hashed form logs neither the offset nor the requested count. *)
DFAtOffset(e) == Positional(e) /\ form = "literal"

DFTransferOp(s, key, e) ==
  LET want == IF Reads(e) /\ form = "literal" THEN e.want ELSE e.ret
  IN  [HandleOp(IF Reads(e) THEN "READ" ELSE "WRITE", s, events, key)
         EXCEPT !.off = IF DFAtOffset(e) THEN e.off ELSE entries[<<s, key>>].cursor,
                !.len = want,
                !.ret = IF want # e.ret THEN e.ret ELSE None]

DFReadWrite(p, s, e) ==
  LET key == Key(p, e) IN
  IF key = NoKey \/ ~HasHandle(s, key) THEN DFSkip("unresolved_fd")
  ELSE IF e.ret < 0 THEN DFSkip("failed_syscall")
  ELSE IF e.ret = 0 THEN DFSkip(IF Reads(e) THEN "eof_read" ELSE "failed_syscall")
  ELSE IF ~Reads(e) /\ entries[<<s, key>>].append THEN DFSkip("append_write_unmodeled")
  ELSE /\ IF DFAtOffset(e) THEN UNCHANGED fdtVars ELSE Advance(s, key, e.ret) /\ UNCHANGED nextHandle
       /\ Add(DFTransferOp(s, key, e))
       /\ IF Reads(e) /\ form = "hashed" THEN Note("requested_len_unobservable") ELSE UNCHANGED report
       /\ UNCHANGED targets

DFClose(p, s, e) ==
  LET key == Key(p, e) IN
  IF key = NoKey THEN Silently /\ UNCHANGED fdtVars
  ELSE IF e.ret < 0 THEN DFSkip("failed_syscall")
  ELSE /\ FdtClose(s, key)
       /\ IF HasHandle(s, key) THEN AddHandleOp(HandleOp("CLOSE", s, events, key)) ELSE Silently

DFLseek(p, s, e) ==
  LET key == Key(p, e) IN
  /\ IF key = NoKey \/ e.ret < 0 THEN UNCHANGED fdtVars ELSE SetCursor(s, key, e.ret)
  /\ Silently

DFFsync(p, s, e) ==
  LET key == Key(p, e) IN
  IF e.ret < 0 THEN DFSkip("failed_syscall")
  ELSE IF key = NoKey \/ ~HasHandle(s, key) THEN DFSkip("unresolved_fd")
  ELSE AddHandleOp(HandleOp("FSYNC", s, events, key)) /\ UNCHANGED fdtVars

(* parser.line and parser.dispatch *)
Event(p, e) ==
  LET s == DFStreamOf(p) IN
  /\ events < MaxEvents /\ events' = events + 1
  /\ ~(form = "hashed" /\ e.call = "open" /\ e.ret < 0)
  /\ DFRegistered(p)
  /\ CASE e.call = "open"                                -> DFOpen(p, s, e)
       [] e.call \in {"read", "pread", "write", "pwrite"} -> DFReadWrite(p, s, e)
       [] e.call = "close"                               -> DFClose(p, s, e)
       [] e.call = "fsync"                               -> DFFsync(p, s, e)
       [] e.call = "lseek"                               -> DFLseek(p, s, e)
       [] OTHER                                          -> DFSkip("unsupported_event")
  /\ UNCHANGED <<form, hashes>>
=============================================================================
