----------------------------- MODULE StraceImport -----------------------------
(* The strace importer (pkg/importer/strace/parse.go), one line at a time.    *)
(* A call that another thread's line interrupts is split into an "unfinished" *)
(* line, which carries the arguments and the time, and a "resumed" line,      *)
(* which carries the result.  What lines look like is left out: an event is   *)
(* what splitCall, splitArgs, parseQuoted and parseLeadingInt make of one.    *)
EXTENDS FDTable, Descriptors

CONSTANTS MaxLines,     (* bound on the lines of the source trace *)
          NoPath        (* resolveAt and fdTarget found nothing *)

VARIABLES
  streamOf,    (* pidToStream *)
  unfinished,  (* the pending call of each thread, NoCall if none *)
  decorated,   (* whether strace ran with -y: descriptors carry their path *)
  lines        (* lines read so far, the clock of the source trace *)

parserVars == <<streamOf, unfinished, decorated, lines>>

NoCall == [e |-> None, t |-> 0]

StraceInit ==
  /\ TableInit
  /\ streamOf = <<>>
  /\ unfinished = [p \in Pids |-> NoCall]
  /\ decorated \in BOOLEAN
  /\ lines = 0

(* parser.stream: streams are numbered in the order threads appear. *)
StreamOf(p) == IF p \in DOMAIN streamOf THEN streamOf[p] ELSE Cardinality(DOMAIN streamOf)
Registered(p) ==
  streamOf' = [q \in DOMAIN streamOf \cup {p} |-> IF q = p THEN StreamOf(p) ELSE streamOf[q]]

Decoration(p, fd) == IF decorated /\ Open(p, fd) THEN File(p, fd).path ELSE NoPath

(* fdTarget: the recorded path first, then the decoration. *)
FdTarget(p, s, fd) == IF Tracked(s, fd) THEN entries[<<s, fd>>].path ELSE Decoration(p, fd)

(* Mutant: a relative name becomes the directory it is relative to. *)
MutantResolveAt(p, s, e) == IF e.at = Cwd THEN e.path ELSE FdTarget(p, s, e.at)

ResolveAt(p, s, e) ==
  IF e.at = Cwd THEN e.path
  ELSE LET dir == FdTarget(p, s, e.at) IN IF dir = NoPath THEN NoPath ELSE Join(dir, e.path)

SkipOnly(reason) == Skip(reason) /\ UNCHANGED fdtVars

DoOpen(p, s, t, e) ==
  LET path == ResolveAt(p, s, e) IN
  IF e.ret < 0 THEN SkipOnly("failed_open")
  ELSE IF path = NoPath THEN SkipOnly("unresolved_dirfd")
  ELSE IF "directory" \in e.flags THEN FdtOpenDir(s, e.ret, path) /\ Silently
  ELSE /\ FdtOpen(s, e.ret, path, "append" \in e.flags)
       /\ AddTargetOp([BlankOp EXCEPT !.op = "OPEN", !.t = t, !.s = s, !.h = nextHandle, !.mode = "rw"],
                      path)

IsRead(e) == e.call \in {"read", "pread"}

MovesCursor(s, e) ==
  IF Positional(e) THEN UNCHANGED fdtVars ELSE Advance(s, e.fd, e.ret) /\ UNCHANGED nextHandle

(* Reads keep the requested length and, if it differs, what arrived; writes   *)
(* keep only what landed.                                                     *)
TransferOp(s, t, e) ==
  LET op   == HandleOp(IF IsRead(e) THEN "READ" ELSE "WRITE", s, t, e.fd)
      want == IF IsRead(e) THEN e.want ELSE e.ret
  IN  [op EXCEPT !.off = IF Positional(e) THEN e.off ELSE entries[<<s, e.fd>>].cursor,
                 !.len = want,
                 !.ret = IF want # e.ret THEN e.ret ELSE None]

(* Mutant: the read that met the end of the file is not counted. *)
MutantEofSilent(s, t, e) ==
  IF ~HasHandle(s, e.fd) THEN SkipOnly("unresolved_fd")
  ELSE IF e.ret < 0 THEN SkipOnly("failed_syscall")
  ELSE IF e.ret = 0 THEN Silently /\ UNCHANGED fdtVars
  ELSE MovesCursor(s, e) /\ AddHandleOp(TransferOp(s, t, e))

DoRW(s, t, e) ==
  IF ~HasHandle(s, e.fd) THEN SkipOnly("unresolved_fd")
  ELSE IF e.ret < 0 THEN SkipOnly("failed_syscall")
  ELSE IF e.ret = 0 THEN SkipOnly(IF IsRead(e) THEN "eof_read" ELSE "failed_syscall")
  ELSE IF ~IsRead(e) /\ entries[<<s, e.fd>>].append THEN SkipOnly("append_write_unmodeled")
  ELSE MovesCursor(s, e) /\ AddHandleOp(TransferOp(s, t, e))

DoClose(s, t, e) ==
  IF e.ret < 0 THEN SkipOnly("failed_syscall")
  ELSE /\ FdtClose(s, e.fd)
       /\ IF HasHandle(s, e.fd) THEN AddHandleOp(HandleOp("CLOSE", s, t, e.fd)) ELSE Silently

DoFsync(s, t, e) ==
  IF e.ret < 0 THEN SkipOnly("failed_syscall")
  ELSE IF ~HasHandle(s, e.fd) THEN SkipOnly("unresolved_fd")
  ELSE AddHandleOp(HandleOp("FSYNC", s, t, e.fd)) /\ UNCHANGED fdtVars

DoLseek(s, e) ==
  /\ IF e.ret < 0 THEN UNCHANGED fdtVars ELSE SetCursor(s, e.fd, e.ret)
  /\ Silently

AddStat(s, t, path) ==
  /\ AddTargetOp([BlankOp EXCEPT !.op = "STAT", !.t = t, !.s = s], path)
  /\ UNCHANGED fdtVars

DoStatPath(p, s, t, e) ==
  LET path == ResolveAt(p, s, e) IN
  IF e.ret < 0 THEN SkipOnly("failed_syscall")
  ELSE IF path = NoPath THEN SkipOnly("unresolved_dirfd")
  ELSE AddStat(s, t, path)

DoFstat(p, s, t, e) ==
  LET path == FdTarget(p, s, e.fd) IN
  IF e.ret < 0 THEN SkipOnly("failed_syscall")
  ELSE IF path = NoPath THEN SkipOnly("unresolved_fd")
  ELSE AddStat(s, t, path)

(* parser.handle: a completed call of thread p, entered at time t. *)
Handle(p, t, e) ==
  LET s == StreamOf(p) IN
  /\ Registered(p)
  /\ CASE e.call = "open"                                -> DoOpen(p, s, t, e)
       [] e.call \in {"read", "pread", "write", "pwrite"} -> DoRW(s, t, e)
       [] e.call = "close"                               -> DoClose(s, t, e)
       [] e.call = "fsync"                               -> DoFsync(s, t, e)
       [] e.call = "lseek"                               -> DoLseek(s, e)
       [] e.call = "stat"                                -> DoStatPath(p, s, t, e)
       [] e.call = "fstat"                               -> DoFstat(p, s, t, e)
       [] OTHER                                          -> Silently /\ UNCHANGED fdtVars

(* parser.line.  A whole line is entered and completed at once. *)
NextLine == lines < MaxLines /\ lines' = lines + 1 /\ UNCHANGED decorated

WholeLine(p, e) ==
  /\ NextLine
  /\ unfinished[p] = NoCall
  /\ Handle(p, lines, e)
  /\ UNCHANGED unfinished

Args(e) == [e EXCEPT !.ret = 0]

UnfinishedLine(p, e) ==
  /\ NextLine
  /\ unfinished[p] = NoCall
  /\ unfinished' = [unfinished EXCEPT ![p] = [e |-> Args(e), t |-> lines]]
  /\ UNCHANGED <<streamOf, fdtVars, builderVars>>

(* Mutant: the call is dated by its second line. *)
MutantResumedLate(p, e) ==
  /\ NextLine
  /\ unfinished[p].e = Args(e)
  /\ unfinished' = [unfinished EXCEPT ![p] = NoCall]
  /\ Handle(p, lines, e)

ResumedLine(p, e) ==
  /\ NextLine
  /\ unfinished[p].e = Args(e)
  /\ unfinished' = [unfinished EXCEPT ![p] = NoCall]
  /\ Handle(p, unfinished[p].t, e)

(* parser.finish: calls that never returned are counted. *)
DropUnfinished ==
  /\ report' = [report EXCEPT !["unfinished_dropped"] =
                  @ + Cardinality({p \in Pids : unfinished[p] # NoCall})]
  /\ unfinished' = [p \in Pids |-> NoCall]
=============================================================================
