------------------------------- MODULE FDTable -------------------------------
(* What every importer keeps while it reads a source trace: the descriptor    *)
(* table (pkg/importer/fdtable.go) and the Builder's gathered state           *)
(* (pkg/importer/build.go).                                                   *)
EXTENDS TraceBuild

CONSTANT Streams   (* stream ids, 0 .. *)

VARIABLES
  entries,     (* FDTable.entries: <<stream, fd>> -> Entry *)
  nextHandle,  (* FDTable.nextHandle *)
  targets,     (* Builder.targets: the interned names, in order *)
  perStream,   (* Builder.perStream *)
  report       (* Builder.report: how often each reason was recorded *)

fdtVars     == <<entries, nextHandle>>
builderVars == <<targets, perStream, report>>

Reasons == {"failed_open", "failed_syscall", "eof_read", "unresolved_fd", "unresolved_dirfd",
            "append_write_unmodeled", "unfinished_dropped", "unresolved_fhash",
            "unsupported_event", "requested_len_unobservable"}

TableInit ==
  /\ entries = <<>>
  /\ nextHandle = 0
  /\ targets = <<>>
  /\ perStream = [s \in Streams |-> <<>>]
  /\ report = [r \in Reasons |-> 0]

-----------------------------------------------------------------------------
(* FDTable *)

Tracked(s, fd)   == <<s, fd>> \in DOMAIN entries
HasHandle(s, fd) == Tracked(s, fd) /\ entries[<<s, fd>>].h # None

Put(key, entry) == [k \in DOMAIN entries \cup {key} |-> IF k = key THEN entry ELSE entries[k]]

(* Mutant: the cursor of the descriptor's earlier use survives. *)
MutantFdtOpen(s, fd, path, append) ==
  /\ entries' = Put(<<s, fd>>, [h |-> nextHandle, path |-> path, append |-> append,
                                cursor |-> IF Tracked(s, fd) THEN entries[<<s, fd>>].cursor ELSE 0])
  /\ nextHandle' = nextHandle + 1

(* FDTable.Open: a fresh handle, in the place of whatever was there. *)
FdtOpen(s, fd, path, append) ==
  /\ entries' = Put(<<s, fd>>, [h |-> nextHandle, path |-> path, append |-> append, cursor |-> 0])
  /\ nextHandle' = nextHandle + 1

(* FDTable.OpenDir: a path to resolve against, no handle. *)
FdtOpenDir(s, fd, path) ==
  /\ entries' = Put(<<s, fd>>, [h |-> None, path |-> path, append |-> FALSE, cursor |-> 0])
  /\ UNCHANGED nextHandle

Advance(s, fd, n) ==
  entries' = IF Tracked(s, fd) THEN [entries EXCEPT ![<<s, fd>>].cursor = @ + n] ELSE entries

SetCursor(s, fd, pos) ==
  /\ entries' = IF Tracked(s, fd) THEN [entries EXCEPT ![<<s, fd>>].cursor = pos] ELSE entries
  /\ UNCHANGED nextHandle

FdtClose(s, fd) ==
  /\ entries' = [k \in DOMAIN entries \ {<<s, fd>>} |-> entries[k]]
  /\ UNCHANGED nextHandle

-----------------------------------------------------------------------------
(* Builder *)

(* Builder.Target interns a name. *)
Known(path)  == path \in ToSet(targets)
IdOf(names, path) == CHOOSE i \in 0..(Len(names) - 1) : names[i + 1] = path
Interned(path) == IF Known(path) THEN targets ELSE Append(targets, path)

Add(op) == perStream' = [perStream EXCEPT ![op.s] = Append(@, op)]

Skip(reason) ==
  /\ report' = [report EXCEPT ![reason] = @ + 1]
  /\ UNCHANGED <<targets, perStream>>

(* Builder.Note: the operation is kept, but something of it is lost. *)
Note(reason) == report' = [report EXCEPT ![reason] = @ + 1]

(* An operation on a handle, and one that names its target. *)
AddHandleOp(op) == Add(op) /\ UNCHANGED <<targets, report>>
AddTargetOp(op, path) ==
  /\ targets' = Interned(path)
  /\ Add([op EXCEPT !.tgt = IdOf(targets', path)])
  /\ UNCHANGED report

Silently == UNCHANGED builderVars

HandleOp(kind, s, t, fd) ==
  [BlankOp EXCEPT !.op = kind, !.t = t, !.s = s, !.h = entries[<<s, fd>>].h]

(* Builder.WriteTo on what was gathered. *)
Written == TraceFile([s \in {s \in Streams : perStream[s] # <<>>} |-> perStream[s]], Len(targets))
=============================================================================
