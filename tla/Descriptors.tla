----------------------------- MODULE Descriptors -----------------------------
(* The traced program, as far as an importer can tell: threads that open,     *)
(* read, write and close files through POSIX descriptors.  External: it is    *)
(* what the importers of pkg/importer take the source trace to record.        *)
(*                                                                            *)
(* An event is one completed system call.  `Happens' says which events the    *)
(* kernel can produce, and what they do to descriptors and files.             *)
EXTENDS Integers, Sequences, SequencesExt, FiniteSets

CONSTANTS Pids,      (* threads *)
          Fds,       (* descriptor numbers *)
          Paths,     (* absolute file names *)
          Size       (* the initial size of every file *)

VARIABLES
  shared,   (* all of Pids share one descriptor table *)
  fds,      (* per process, fd -> open file description, 0 if not open *)
  files,    (* open file descriptions: name, append mode, directory, position *)
  size,     (* the size of every file that was opened *)
  users     (* history: the <<pid, fd>> each description was reached through *)

kernelVars == <<fds, files, size, users>>

Join(dir, name) == <<dir, name>>
Relative == "rel"                   (* a name resolved against a directory *)
AllPaths == Paths \cup {Join(p, Relative) : p \in Paths}
Cwd == 0                            (* AT_FDCWD; descriptors are positive *)
Opens == {{}, {"append"}, {"directory"}}

Blank == [call |-> "other", fd |-> 0, path |-> Relative, at |-> Cwd, flags |-> {},
          want |-> 0, off |-> 0, ret |-> 0]

PathArgs == [at : {Cwd}, path : Paths] \cup [at : Fds, path : {Relative}]
Transfers ==
  {[Blank EXCEPT !.call = c, !.fd = f, !.want = 2, !.ret = r] :
     c \in {"read", "write"}, f \in Fds, r \in {-1, 0, 1, 2}}
  \cup {[Blank EXCEPT !.call = c, !.fd = f, !.want = 2, !.off = 1, !.ret = r] :
     c \in {"pread", "pwrite"}, f \in Fds, r \in {-1, 1, 2}}
Events ==
  {[Blank EXCEPT !.call = "open", !.at = a.at, !.path = a.path, !.flags = g, !.ret = r] :
     a \in PathArgs, g \in Opens, r \in Fds \cup {-1}}
  \cup Transfers
  \cup {[Blank EXCEPT !.call = "lseek", !.fd = f, !.ret = r] : f \in Fds, r \in {-1, 0}}
  \cup {[Blank EXCEPT !.call = c, !.fd = f, !.ret = r] :
          c \in {"close", "fsync", "fstat"}, f \in Fds, r \in {-1, 0}}
  \cup {[Blank EXCEPT !.call = "stat", !.at = a.at, !.path = a.path, !.ret = r] :
          a \in PathArgs, r \in {-1, 0}}
  \cup {[Blank EXCEPT !.call = "dup2", !.fd = f, !.ret = g] : f, g \in Fds}

(* The descriptor table of a thread, and what it refers to. *)
First == CHOOSE p \in Pids : TRUE
Table(p) == IF shared THEN First ELSE p
Open(p, f)  == fds[Table(p)][f] # 0
Desc(p, f)  == fds[Table(p)][f]
File(p, f)  == files[Desc(p, f)]
Lowest(p)   == CHOOSE f \in Fds : ~Open(p, f) /\ \A g \in Fds : ~Open(p, g) => f <= g

(* The name a path argument stands for, against a directory descriptor. *)
PathOf(p, e) == IF e.at = Cwd THEN e.path ELSE Join(File(p, e.at).path, e.path)
Named(p, e)  == e.at # Cwd => Open(p, e.at) /\ File(p, e.at).directory

Min2(a, b) == IF a < b THEN a ELSE b
Max2(a, b) == IF a > b THEN a ELSE b

Reaches(p, f) == users' = [users EXCEPT ![Desc(p, f)] = @ \cup {<<p, f>>}]

KernelInit ==
  /\ fds = [p \in Pids |-> [f \in Fds |-> 0]]
  /\ files = <<>>
  /\ size = [p \in AllPaths |-> Size]
  /\ users = <<>>

(* Any call can fail without effect; close also after it freed the number. *)
Failing(p, e) ==
  /\ e.ret = -1
  /\ \/ UNCHANGED kernelVars
     \/ /\ e.call = "close" /\ Open(p, e.fd)
        /\ fds' = [fds EXCEPT ![Table(p)][e.fd] = 0]
        /\ Reaches(p, e.fd)
        /\ UNCHANGED <<files, size>>

Opening(p, e) ==
  /\ e.call = "open" /\ e.ret # -1
  /\ Named(p, e)
  /\ \E f \in Fds : ~Open(p, f)
  /\ e.ret = Lowest(p)
  /\ files' = Append(files, [path |-> PathOf(p, e), append |-> "append" \in e.flags,
                             directory |-> "directory" \in e.flags, pos |-> 0])
  /\ fds' = [fds EXCEPT ![Table(p)][e.ret] = Len(files) + 1]
  /\ users' = Append(users, {<<p, e.ret>>})
  /\ UNCHANGED size

(* A transfer at the description's position, which it moves, or at its own. *)
Positional(e) == e.call \in {"pread", "pwrite"}
Start(p, e) ==
  IF Positional(e) THEN e.off
  ELSE IF e.call = "write" /\ File(p, e.fd).append THEN size[File(p, e.fd).path]
  ELSE File(p, e.fd).pos

Transferring(p, e) ==
  /\ e.call \in {"read", "pread", "write", "pwrite"} /\ e.ret # -1
  /\ Open(p, e.fd) /\ ~File(p, e.fd).directory
  /\ IF e.call \in {"read", "pread"}
       THEN LET left == Max2(0, size[File(p, e.fd).path] - Start(p, e))
            IN  e.ret <= Min2(e.want, left) /\ (e.ret = 0 <=> left = 0) /\ UNCHANGED size
       ELSE /\ e.ret > 0
            /\ size' = [size EXCEPT ![File(p, e.fd).path] = Max2(@, Start(p, e) + e.ret)]
  /\ files' = IF Positional(e) THEN files
              ELSE [files EXCEPT ![Desc(p, e.fd)].pos = Start(p, e) + e.ret]
  /\ Reaches(p, e.fd)
  /\ UNCHANGED fds

Seeking(p, e) ==
  /\ e.call = "lseek" /\ e.ret # -1
  /\ Open(p, e.fd)
  /\ files' = [files EXCEPT ![Desc(p, e.fd)].pos = e.ret]
  /\ Reaches(p, e.fd)
  /\ UNCHANGED <<fds, size>>

Closing(p, e) ==
  /\ e.call = "close" /\ e.ret = 0
  /\ Open(p, e.fd)
  /\ fds' = [fds EXCEPT ![Table(p)][e.fd] = 0]
  /\ Reaches(p, e.fd)
  /\ UNCHANGED <<files, size>>

Looking(p, e) ==
  /\ e.ret = 0
  /\ \/ e.call \in {"fsync", "fstat"} /\ Open(p, e.fd) /\ Reaches(p, e.fd)
     \/ e.call = "stat" /\ Named(p, e) /\ UNCHANGED users
  /\ UNCHANGED <<fds, files, size>>

(* dup2 makes e.ret another name for e.fd, closing what it was. *)
Duplicating(p, e) ==
  /\ e.call = "dup2" /\ e.ret # e.fd
  /\ Open(p, e.fd)
  /\ fds' = [fds EXCEPT ![Table(p)][e.ret] = Desc(p, e.fd)]
  /\ users' = [users EXCEPT ![Desc(p, e.fd)] = @ \cup {<<p, e.fd>>, <<p, e.ret>>}]
  /\ UNCHANGED <<files, size>>

Happens(p, e) ==
  \/ Failing(p, e)
  \/ Opening(p, e)
  \/ Transferring(p, e)
  \/ Seeking(p, e)
  \/ Closing(p, e)
  \/ Looking(p, e)
  \/ Duplicating(p, e)

(* A description one thread has only ever reached through one descriptor. *)
Private(d) == Cardinality(users[d]) = 1
=============================================================================
