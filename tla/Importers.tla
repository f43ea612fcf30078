------------------------------ MODULE Importers ------------------------------
(* An import: a source trace of what some threads did with files, read by one *)
(* of the two importers into a Builder, written and validated.                *)
EXTENDS StraceImport, DFTracerImport

CONSTANTS NoOp,
          Themes   (* what source traces are made of: the events of a trace,
                      whether its calls are split into two lines, and
                      whether its threads share their descriptors *)

ASSUME ThemesAssumption == Themes \subseteq [events : SUBSET Events, split : BOOLEAN, shared : BOOLEAN]

VARIABLES
  importer,   (* "strace" or "dftracer" *)
  theme,      (* what this source trace is made of *)
  phase,      (* "reading", then "written" or "refused" by the self-validation *)
  file,       (* the trace written *)
  opened,     (* history: the description each handle was opened for *)
  twice,      (* history: files a thread had open through two descriptors *)
  begun,      (* history: when the call behind each operation was entered *)
  last        (* history: what the last event did, and what was made of it *)

historyVars == <<opened, twice, begun, last>>
vars == <<kernelVars, fdtVars, builderVars, parserVars, dfVars, importer, theme, shared, phase, file,
          historyVars>>

Nothing == [e |-> Blank, d |-> 0, at |-> 0, path |-> None, op |-> NoOp,
            alone |-> FALSE, reasons |-> {}]

Init ==
  /\ KernelInit
  /\ StraceInit
  /\ DFInit
  /\ importer \in {"strace", "dftracer"}
  /\ theme \in Themes
  /\ shared = theme.shared
  /\ importer = "strace" => form = "literal" /\ hashes = AllPaths
  /\ importer = "dftracer" => ~decorated
  /\ phase = "reading"
  /\ file = NoOp
  /\ opened = <<>>
  /\ twice = {}
  /\ begun = [s \in Streams |-> <<>>]
  /\ last = Nothing

(* What the event did, against what the importer appended to stream s.  The   *)
(* description that matters is the one transferred through, or the directory  *)
(* a name is relative to.                                                     *)
IsTransfer(e) == e.call \in {"read", "pread", "write", "pwrite"}
Names(e)      == e.call \in {"open", "stat"}
Through(p, e) ==
  IF Names(e) THEN IF e.at = Cwd THEN 0 ELSE Desc(p, e.at) ELSE Desc(p, e.fd)

Truth(p, e) ==
  [d     |-> IF e.call = "open" THEN Len(files') ELSE Through(p, e),
   at    |-> IF IsTransfer(e) THEN Start(p, e) ELSE 0,
   path  |-> IF Names(e) THEN PathOf(p, e) ELSE files'[Through(p, e)].path,
   alone |-> Through(p, e) = 0 \/ Cardinality(users'[Through(p, e)]) = 1]

OpenOn(p, path) == {f \in Fds : fds'[Table(p)][f] # 0 /\ files'[fds'[Table(p)][f]].path = path}

Observe(p, e, s, entered) ==
  LET added == Len(perStream'[s]) > Len(perStream[s])
      truth == IF e.ret < 0 THEN [d |-> 0, at |-> 0, path |-> None, alone |-> FALSE] ELSE Truth(p, e)
  IN  /\ opened' = IF nextHandle' > nextHandle THEN Append(opened, Len(files')) ELSE opened
      /\ twice' = twice \cup {path \in AllPaths : Cardinality(OpenOn(p, path)) > 1}
      /\ begun' = IF added THEN [begun EXCEPT ![s] = Append(@, entered)] ELSE begun
      /\ last' = truth @@ [e |-> e, op |-> IF added THEN Last(perStream'[s]) ELSE NoOp,
                           reasons |-> {r \in Reasons : report'[r] > report[r]}]

Unread == UNCHANGED <<importer, theme, shared, phase, file>>

StraceCall(p, e) ==
  /\ importer = "strace"
  /\ Happens(p, e)
  /\ WholeLine(p, e) \/ ResumedLine(p, e)
  /\ Observe(p, e, StreamOf(p), IF unfinished[p] = NoCall THEN lines ELSE unfinished[p].t)
  /\ Unread /\ UNCHANGED dfVars

StraceUnfinished(p, e) ==
  /\ importer = "strace" /\ theme.split
  /\ unfinished[p] = NoCall
  /\ UnfinishedLine(p, e)
  /\ Unread /\ UNCHANGED <<kernelVars, dfVars, historyVars>>

DFEvent(p, e) ==
  /\ importer = "dftracer"
  /\ Happens(p, e)
  /\ Event(p, e)
  /\ Observe(p, e, DFStreamOf(p), events)
  /\ Unread /\ UNCHANGED parserVars

(* The end of the source trace: Builder.WriteTo, which hands the trace over   *)
(* only if it validates.                                                      *)
Write ==
  /\ phase = "reading"
  /\ importer = "strace" => lines > 0
  /\ importer = "dftracer" => events > 0
  /\ IF importer = "strace" THEN DropUnfinished ELSE UNCHANGED <<report, unfinished>>
  /\ phase' = IF Errors(Written) = {} THEN "written" ELSE "refused"
  /\ file' = Written
  /\ last' = Nothing
  /\ UNCHANGED <<kernelVars, fdtVars, targets, perStream, streamOf, decorated, lines, dfVars,
                 importer, theme, shared, opened, twice, begun>>

Done == phase # "reading" /\ UNCHANGED vars

Next ==
  \/ phase = "reading" /\ \E p \in Pids, e \in theme.events :
       StraceCall(p, e) \/ StraceUnfinished(p, e) \/ DFEvent(p, e)
  \/ Write
  \/ Done

Spec == Init /\ [][Next]_vars
=============================================================================
