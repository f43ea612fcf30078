------------------------------- MODULE Engines -------------------------------
(* What the engines' calls do to the backend and to the engine's table of     *)
(* handles (pkg/engine).  Of a file or object only its size is represented.   *)
(* The kinds: "mem", "local", "direct" (local, with O_DIRECT on every OPEN)   *)
(* and "object" (S3).  Writes to objects are the subject of ObjectWrite.      *)
EXTENDS Integers, Sequences, SequencesExt, FiniteSets, TLC

CONSTANTS
  None,
  Default,   (* size of an in-memory object of which no size is recorded *)
  Align      (* block size of direct I/O *)

VARIABLES
  store,     (* size of every file or object that exists, by name *)
  handles    (* the name behind each handle given out; None once closed *)

Exists(name) == name \in DOMAIN store
Sized(name, size) == [n \in DOMAIN store \cup {name} |-> IF n = name THEN size ELSE store[n]]
Longer(a, b) == IF a > b THEN a ELSE b

(* Engine.Caps *)
Durable(kind)   == kind \in {"local", "direct"}
ObjectAPI(kind) == kind = "object"

(* TargetChecker: a containment root, or a key prefix. *)
Confines(kind)  == kind # "mem"

(* Open: whether it is refused, and the backend after it if it is not.  The   *)
(* in-memory engine creates what is missing and ignores the flags.            *)
OpenRefused(kind, name, mode, create) ==
  \/ kind \in {"local", "direct"} /\ ~Exists(name) /\ ~create
  \/ kind = "object" /\ mode # "r"

OpenedStore(kind, name, trunc, size) ==
  CASE kind = "object" -> store
    [] kind = "mem"    -> IF Exists(name) THEN store ELSE Sized(name, size)
    [] OTHER           -> IF trunc \/ ~Exists(name) THEN Sized(name, 0) ELSE store

(* nextH.Add(1) *)
NextHandle == Len(handles) + 1
WithHandle(name) == Append(handles, name)

Live(h) == h \in DOMAIN handles /\ handles[h] # None
LiveHandles == {h \in DOMAIN handles : Live(h)}
WithoutHandle(h) == IF Live(h) THEN [handles EXCEPT ![h] = None] ELSE handles

(* Read: a failed lookup, a missing object, and what is there of the rest.    *)
ReadFails(kind, h, off) ==
  \/ ~Live(h)
  \/ ~Exists(handles[h])
  \/ kind = "object" /\ off >= store[handles[h]]

Available(name, off, len) ==
  IF store[name] <= off THEN 0
  ELSE IF store[name] < off + len THEN store[name] - off ELSE len

(* Write, buffered: at an offset, past the end if need be. *)
Grown(name, end) == Sized(name, Longer(store[name], end))

-----------------------------------------------------------------------------
(* Write with O_DIRECT (alignedWriteAt), in its system calls: the size is     *)
(* asked for, the blocks around the data are read and written back whole, and *)
(* what rounding added is cut off.                                            *)
AlignUp(x) == ((x + Align - 1) \div Align) * Align

BlocksWritten(name, end) == Grown(name, AlignUp(end))

(* Mutant: the file is cut to the end of the data. *)
MutantCut(name, orig, end) == IF AlignUp(end) > end THEN Sized(name, end) ELSE store

Cut(name, orig, end) ==
  IF AlignUp(end) > Longer(orig, end) THEN Sized(name, Longer(orig, end)) ELSE store
=============================================================================
