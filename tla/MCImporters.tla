----------------------------- MODULE MCImporters -----------------------------
(* Two threads, one file, two descriptors.  A source trace is about one of    *)
(* the things an importer has to get right, so that it can be long.           *)
EXTENDS ImportersProps

CONSTANTS p1, p2

Symmetry == Permutations(Pids)

Only(calls, rets)  == {e \in Events : e.call \in calls /\ e.ret \in rets}
Opened(flags, ats) == {e \in Events : e.call = "open" /\ e.ret > 0 /\ e.flags \in flags /\ e.at \in ats}
Plain == Opened({{}}, {Cwd})

Splitting == [split |-> TRUE, shared |-> FALSE,
              events |-> Plain \cup Only({"read"}, {1, 2}) \cup Only({"close"}, {0})]
Failing1  == [split |-> FALSE, shared |-> FALSE,
              events |-> Plain \cup Only({"open", "fsync"}, {-1, 0}) \cup Only({"close"}, {-1, 0})
                         \cup Only({"read"}, {-1, 2})]
Seeking1  == [split |-> FALSE, shared |-> FALSE,
              events |-> Plain \cup Only({"read", "pread"}, {0, 1}) \cup Only({"lseek"}, {-1, 0})
                         \cup Only({"write", "pwrite"}, {2})]
Appending1 == [split |-> FALSE, shared |-> FALSE,
              events |-> Plain \cup Opened({{"append"}}, {Cwd}) \cup Only({"read", "write"}, {1})]
Naming    == [split |-> FALSE, shared |-> FALSE,
              events |-> Opened({{}, {"directory"}}, {Cwd, 3, 4}) \cup Only({"stat", "fstat", "close"}, {0})]
Aliasing  == [split |-> FALSE, shared |-> FALSE,
              events |-> Plain \cup Only({"dup2"}, Fds) \cup Only({"close"}, {0}) \cup Only({"read"}, {1})]

Sharing   == [split |-> FALSE, shared |-> TRUE,
              events |-> Plain \cup Only({"close"}, {0}) \cup Only({"read"}, {1})]

AllThemes == {Splitting, Failing1, Seeking1, Appending1, Naming, Aliasing, Sharing}
=============================================================================
