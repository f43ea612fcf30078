------------------------------ MODULE ResultFile ------------------------------
(* WriteJSONFile (results/results.go) on a file system that may fail any call, *)
(* report the failure of a write only when it is synced, and lose at a crash   *)
(* whatever was not.                                                           *)
EXTENDS Integers

CONSTANTS None

VARIABLES
  file,      (* at path: "old", "new", or "torn", a part of the new contents *)
  temp,      (* the temporary file: the same, "empty", or None *)
  synced,    (* its contents are on the disk *)
  settled,   (* the directory's entry is *)
  writing    (* how far the write is *)

fileVars == <<file, temp, synced, settled, writing>>

FileInit ==
  /\ file = "old"
  /\ temp = None
  /\ synced = FALSE
  /\ settled = FALSE
  /\ writing = "idle"

Step(from, to) == writing = from /\ writing' = to

(* The deferred function of a write that fails; the removal may fail too.      *)
Abandon(removed) ==
  /\ writing' = "failed"
  /\ temp' = IF removed THEN None ELSE temp
  /\ UNCHANGED <<file, synced, settled>>

Fails(step, removed) == writing = step /\ step \notin {"idle", "failed", "done"} /\ Abandon(removed)

CreateTemp ==
  /\ Step("idle", "created")
  /\ temp' = "empty"
  /\ UNCHANGED <<file, synced, settled>>

CreateFails == Step("idle", "failed") /\ UNCHANGED <<file, temp, synced, settled>>

(* Not everything need have gotten there when the call returns without error.  *)
WriteContents(contents) ==
  /\ Step("created", "written")
  /\ temp' = contents
  /\ UNCHANGED <<file, synced, settled>>

(* Mutant: the contents are not flushed. *)
MutantSync ==
  /\ Step("written", "synced")
  /\ UNCHANGED <<file, temp, synced, settled>>

(* A write that failed unseen is reported here. *)
Sync ==
  /\ temp = "new"
  /\ Step("written", "synced")
  /\ synced' = TRUE
  /\ UNCHANGED <<file, temp, settled>>

Chmod == Step("synced", "permitted") /\ UNCHANGED <<file, temp, synced, settled>>
CloseTemp == Step("permitted", "closed") /\ UNCHANGED <<file, temp, synced, settled>>

Rename ==
  /\ Step("closed", "renamed")
  /\ file' = temp
  /\ temp' = None
  /\ UNCHANGED <<synced, settled>>

(* syncDir, as best it can. *)
SyncDir(works) ==
  /\ Step("renamed", "done")
  /\ settled' = works
  /\ UNCHANGED <<file, temp, synced>>

(* What is found after power was lost while there was something to lose.       *)
Survives(contents) == IF contents = "new" /\ ~synced THEN {"new", "torn"} ELSE {contents}

CrashLeaves(found) ==
  /\ writing \notin {"idle", "crashed"}
  /\ found \in Survives(file) \cup (IF settled THEN {} ELSE {"old"})
  /\ file' = found
  /\ writing' = "crashed"
  /\ UNCHANGED <<temp, synced, settled>>

WriteStep ==
  \/ CreateTemp \/ CreateFails
  \/ \E contents \in {"new", "torn"} : WriteContents(contents)
  \/ Sync \/ Chmod \/ CloseTemp \/ Rename
  \/ \E works \in BOOLEAN : SyncDir(works)
  \/ \E step \in {"created", "written", "synced", "permitted", "closed"}, removed \in BOOLEAN : Fails(step, removed)

FileNext == WriteStep \/ \E found \in {"old", "new", "torn"} : CrashLeaves(found)

FileSpec == FileInit /\ [][FileNext]_fileVars

(* Whatever fails, and wherever power is lost, a reader of path finds the      *)
(* results of before or the new ones, whole (results.go:319).                  *)
NeverTorn == file \in {"old", "new"}
=============================================================================
