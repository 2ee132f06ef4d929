-------------------------- MODULE SessionCommands --------------------------
(***************************************************************************)
(* The commands that work on one session next to its host: destroy,        *)
(* destroy --force, the reconcile that list and inspect run, and gc        *)
(* (host/lifecycle.ts, cli/commands/gc.ts). Each runs in a process of its  *)
(* own, shares nothing with the others but the session's files and the     *)
(* signals it sends, and can die or fail between any two of its steps.     *)
(*                                                                         *)
(* A command keeps a copy of the manifest from its last read and writes    *)
(* that copy back, with another status. It runs where it can read /proc    *)
(* and shares the host's pid space, so a proven group or host reads as     *)
(* what it is; ProgramGroup.tla is about the readings themselves.          *)
(***************************************************************************)
EXTENDS SessionHost

CONSTANTS
  Commands,   \* the command processes
  Operations  \* what they may be asked to do, of AllOperations

VARIABLES
  cmd         \* each command: its operation, place, copy, group and round

vars == <<sessionVars, cmd>>

AllOperations == {"destroy", "force", "reconcile", "gc"}
ASSUME OperationsAssumption == Operations \subseteq AllOperations

Final == {"destroyed", "failed", "done", "removed"}

Ready == [op |-> "none", pc |-> "idle", copy |-> NoWrite, group |-> FALSE, round |-> 0]

Init ==
  /\ SessionInit
  /\ cmd = [p \in Commands |-> Ready]

\* isMarkedDestroyed on disk, or recorded as destroyed: readers take both for
\* destroyed, and every repair makes the second out of the first.
ReadsDestroyed == manifest.status = "destroyed" \/ (manifest.status \in Terminal /\ marker)

At(p, pc) == cmd[p].pc = pc

\* A command that has ended keeps nothing but how it ended.
Goto(p, pc) ==
  cmd' = [cmd EXCEPT ![p] = [(IF pc \in Final THEN Ready ELSE cmd[p]) EXCEPT !.pc = pc]]

\* Go on at pc with the manifest as it is now.
GotoWithCopy(p, pc) == cmd' = [cmd EXCEPT ![p].pc = pc, ![p].copy = manifest]

\* readProgramGroup finds the group: by its proof, or by the child pid of the
\* copy. readProvenProgramGroup finds it by its proof only.
FindsProvenGroup == folder /\ token /\ named
FindsGroup(child) == folder /\ (IF token THEN named ELSE child)

Quiet == UNCHANGED sessionVars

\* The manifest on disk becomes this record.
WriteManifest(st, child) ==
  /\ manifest' = [status |-> st, child |-> child]
  /\ UNCHANGED <<folder, marker, named, nature, program, hostVars>>

Begin(p) ==
  /\ At(p, "idle")
  /\ \E op \in Operations :
       cmd' = [cmd EXCEPT ![p].op = op,
                          ![p].pc = IF op \in {"destroy", "force"} THEN "start" ELSE
                                    IF op = "gc" THEN "gc-start" ELSE "check"]
  /\ Quiet
-----------------------------------------------------------------------------
(* reconcileSession *)

\* Where a command goes on after its reconcile.
AfterReconcile(p) ==
  CASE cmd[p].op = "destroy" -> "reread"
    [] cmd[p].op = "gc" -> "gc-reread"
    [] OTHER -> "done"

Check(p) ==
  /\ At(p, "check")
  /\ \/ ~folder /\ Goto(p, AfterReconcile(p))
     \/ /\ folder /\ manifest.status \in Terminal
        /\ IF manifest.status # "destroyed" /\ marker
           THEN GotoWithCopy(p, "repair")
           ELSE Goto(p, AfterReconcile(p))
     \/ folder /\ manifest.status \notin Terminal /\ GotoWithCopy(p, "judge-host")
  /\ Quiet

\* writeMarkedDestroyed
Repair(p) ==
  /\ At(p, "repair")
  /\ IF folder THEN WriteManifest("destroyed", FALSE) ELSE Quiet
  /\ Goto(p, AfterReconcile(p))

\* Mutant: a reconcile does not ask whether the host lives.
JudgeHostNot(p) ==
  /\ At(p, "judge-host")
  /\ Goto(p, "check-again")
  /\ Quiet

JudgeHost(p) ==
  /\ At(p, "judge-host")
  /\ Goto(p, IF phase = "dead" THEN "check-again" ELSE AfterReconcile(p))
  /\ Quiet

CheckAgain(p) ==
  /\ At(p, "check-again")
  /\ IF ~folder \/ manifest.status \in Terminal
     THEN Goto(p, AfterReconcile(p))
     ELSE GotoWithCopy(p, "stop-group")
  /\ Quiet

\* Mutant: a reconcile leaves the program of a dead host alone.
StopGroupNot(p) ==
  /\ At(p, "stop-group")
  /\ cmd' = [cmd EXCEPT ![p].pc = "await-group",
                        ![p].group = FindsGroup(cmd[p].copy.child)]
  /\ Quiet

StopGroup(p) ==
  /\ At(p, "stop-group")
  /\ cmd' = [cmd EXCEPT ![p].pc = "await-group",
                        ![p].group = FindsGroup(cmd[p].copy.child)]
  /\ program' = IF FindsGroup(cmd[p].copy.child) THEN Killed ELSE program
  /\ UNCHANGED <<disk, named, nature, hostVars>>

\* waitForProcessesToExit: the group is gone, or the wait times out.
AwaitGroup(p) ==
  /\ At(p, "await-group")
  /\ Goto(p, IF cmd[p].group /\ GroupAlive THEN AfterReconcile(p) ELSE "read-latest")
  /\ Quiet

ReadLatest(p) ==
  /\ At(p, "read-latest")
  /\ IF ~folder \/ manifest.status \in Terminal
     THEN Goto(p, AfterReconcile(p))
     ELSE GotoWithCopy(p, "write-end")
  /\ Quiet

EndOf(st) ==
  CASE st = "running" -> "failed" [] st = "exiting" -> "exited" [] OTHER -> "destroyed"

WriteEnd(p) ==
  /\ At(p, "write-end")
  /\ IF folder
     THEN /\ WriteManifest(EndOf(cmd[p].copy.status), FALSE)
          /\ Goto(p, IF EndOf(cmd[p].copy.status) = "destroyed"
                     THEN AfterReconcile(p) ELSE "look-for-marker")
     ELSE Quiet /\ Goto(p, AfterReconcile(p))

LookForMarker(p) ==
  /\ At(p, "look-for-marker")
  /\ Goto(p, IF folder /\ marker THEN "repair" ELSE AfterReconcile(p))
  /\ Quiet
-----------------------------------------------------------------------------
(* destroySession *)

DestroyStart(p) ==
  /\ At(p, "start")
  /\ \/ (~folder \/ manifest.status = "destroyed") /\ Goto(p, "failed")
     \/ folder /\ manifest.status \in {"exited", "failed"} /\ GotoWithCopy(p, "leftovers")
     \/ /\ folder /\ manifest.status \in Active
        /\ IF cmd[p].op = "force"
           THEN cmd' = [cmd EXCEPT ![p].pc = "find", ![p].copy = manifest, ![p].round = 1]
           ELSE GotoWithCopy(p, "ask-host")
  /\ Quiet

\* The destroy RPC: the host begins its shutdown and answers, or the answer
\* does not come, or nothing listens.
AskHost(p) ==
  /\ At(p, "ask-host")
  /\ \/ /\ listening = "yes"
        /\ BeginShutdown(owed)
        /\ Goto(p, "await-end") \/ Goto(p, "failed")
        /\ UNCHANGED <<disk, named, nature, program, phase, listening, inflight,
                       wroteTerminal, wasDestroying>>
     \/ listening # "yes" /\ Goto(p, "check") /\ Quiet

\* waitForTerminalManifest, then a reconcile when it times out.
AwaitEnd(p) ==
  /\ At(p, "await-end")
  /\ \/ ~folder /\ Goto(p, "failed")
     \/ folder /\ manifest.status \in Terminal /\ GotoWithCopy(p, "leftovers")
     \/ folder /\ manifest.status \notin Terminal /\ Goto(p, "check")
  /\ Quiet

Reread(p) ==
  /\ At(p, "reread")
  /\ IF folder /\ manifest.status \in Terminal
     THEN GotoWithCopy(p, "leftovers") ELSE Goto(p, "failed")
  /\ Quiet

\* stopLeftoversThenRecordDestroyed kills only a group it can prove.
Leftovers(p) ==
  /\ At(p, "leftovers")
  /\ cmd' = [cmd EXCEPT ![p].pc = "await-leftovers", ![p].group = FindsProvenGroup]
  /\ program' = IF FindsProvenGroup THEN Killed ELSE program
  /\ UNCHANGED <<disk, named, nature, hostVars>>

AwaitLeftovers(p) ==
  /\ At(p, "await-leftovers")
  /\ Goto(p, IF cmd[p].group /\ GroupAlive THEN "failed" ELSE "record")
  /\ Quiet

\* destroy --force, twice: find the group of the copy, kill it and the host,
\* wait, and read the manifest that the dead host left.
FindGroup(p) ==
  /\ At(p, "find")
  /\ cmd' = [cmd EXCEPT ![p].pc = "kill", ![p].group = FindsGroup(cmd[p].copy.child)]
  /\ Quiet

KillSession(p) ==
  /\ At(p, "kill")
  /\ program' = IF cmd[p].group THEN Killed ELSE program
  /\ IF phase # "dead" THEN HostGone ELSE UNCHANGED <<phase, listening, owed, inflight, timer>>
  /\ Goto(p, "await-death")
  /\ UNCHANGED <<disk, named, nature, status, shut, wroteTerminal, wasDestroying>>

AwaitDeath(p) ==
  /\ At(p, "await-death")
  /\ IF cmd[p].group /\ GroupAlive
     THEN Goto(p, "failed")
     ELSE Goto(p, IF cmd[p].round = 1 THEN "read-final" ELSE "record")
  /\ Quiet

ReadFinal(p) ==
  /\ At(p, "read-final")
  /\ IF folder
     THEN cmd' = [cmd EXCEPT ![p].pc = "find", ![p].copy = manifest, ![p].round = 2]
     ELSE Goto(p, "failed")
  /\ Quiet

\* Mutant: recordDestroyed leaves no marker.
RecordUnmarked(p) ==
  /\ At(p, "record")
  /\ Goto(p, IF cmd[p].copy.status = "destroyed" THEN "destroyed" ELSE "write-destroyed")
  /\ Quiet

\* recordDestroyed: the marker first, then the copy as destroyed.
Record(p) ==
  /\ At(p, "record")
  /\ IF cmd[p].copy.status = "destroyed"
     THEN Goto(p, "destroyed") /\ Quiet
     ELSE IF folder
     THEN /\ marker' = TRUE /\ Goto(p, "write-destroyed")
          /\ UNCHANGED <<folder, manifest, named, nature, program, hostVars>>
     ELSE Goto(p, "failed") /\ Quiet

WriteDestroyed(p) ==
  /\ At(p, "write-destroyed")
  /\ IF folder
     THEN WriteManifest("destroyed", cmd[p].copy.child) /\ Goto(p, "destroyed")
     ELSE Quiet /\ Goto(p, "failed")
-----------------------------------------------------------------------------
(* gcSessions, for this session *)

GcStart(p) ==
  /\ At(p, "gc-start")
  /\ Goto(p, IF folder THEN "check" ELSE "done")
  /\ Quiet

GcReread(p) ==
  /\ At(p, "gc-reread")
  /\ IF ~folder \/ manifest.status \notin Terminal
     THEN Goto(p, "done")
     ELSE GotoWithCopy(p, IF manifest.status = "destroyed" THEN "gc-final" ELSE "gc-judge")
  /\ Quiet

\* Mutant: gc takes an ended session's program for ended.
GcJudgeNot(p) ==
  /\ At(p, "gc-judge")
  /\ Goto(p, "gc-final")
  /\ Quiet

\* provenProgramGroupRuns: gc keeps the session whose program it proves to run.
GcJudge(p) ==
  /\ At(p, "gc-judge")
  /\ Goto(p, IF FindsProvenGroup /\ GroupAlive THEN "done" ELSE "gc-final")
  /\ Quiet

GcFinal(p) ==
  /\ At(p, "gc-final")
  /\ Goto(p, IF folder /\ manifest.status \notin Terminal THEN "done" ELSE "gc-remove")
  /\ Quiet

GcRemove(p) ==
  /\ At(p, "gc-remove")
  /\ folder' = FALSE
  /\ Goto(p, "removed")
  /\ UNCHANGED <<manifest, marker, named, nature, program, hostVars>>
-----------------------------------------------------------------------------
ReconcileStep(p) ==
  Check(p) \/ Repair(p) \/ JudgeHost(p) \/ CheckAgain(p) \/ StopGroup(p)
  \/ AwaitGroup(p) \/ ReadLatest(p) \/ WriteEnd(p) \/ LookForMarker(p)

DestroyStep(p) ==
  DestroyStart(p) \/ AskHost(p) \/ AwaitEnd(p) \/ Reread(p) \/ Leftovers(p)
  \/ AwaitLeftovers(p) \/ FindGroup(p) \/ KillSession(p) \/ AwaitDeath(p)
  \/ ReadFinal(p) \/ Record(p) \/ WriteDestroyed(p)

GcStep(p) ==
  GcStart(p) \/ GcReread(p) \/ GcJudge(p) \/ GcFinal(p) \/ GcRemove(p)

CommandStep(p) == ReconcileStep(p) \/ DestroyStep(p) \/ GcStep(p)

\* The command is killed, or one of its reads, writes or signals fails.
CommandFails(p) ==
  /\ cmd[p].pc \notin Final \cup {"idle"}
  /\ Goto(p, "failed")
  /\ Quiet

Next ==
  \/ HostNext /\ UNCHANGED cmd
  \/ \E p \in Commands : Begin(p) \/ CommandStep(p) \/ CommandFails(p)

SafeSpec == Init /\ [][Next]_vars

\* A living host settles its writes, its timers and its handlers; a command
\* that was started goes on. Nothing makes the program exit or anyone crash.
Fairness ==
  /\ WF_vars(HostWrites /\ UNCHANGED cmd)
  /\ WF_vars(HostWorks /\ UNCHANGED cmd)
  /\ WF_vars(KillTimerFires /\ UNCHANGED cmd)
  /\ \A p \in Commands : WF_vars(CommandStep(p))

Spec == SafeSpec /\ Fairness
-----------------------------------------------------------------------------
(* Properties *)

Copies == [status : Active \cup Terminal \cup {"none"}, child : BOOLEAN]

Places ==
  {"idle", "start", "ask-host", "await-end", "reread", "leftovers",
   "await-leftovers", "find", "kill", "await-death", "read-final", "record",
   "write-destroyed", "check", "repair", "judge-host", "check-again",
   "stop-group", "await-group", "read-latest", "write-end", "look-for-marker",
   "gc-start", "gc-reread", "gc-judge", "gc-final", "gc-remove"} \cup Final

\* Every variable keeps its type.
TypeOK ==
  /\ folder \in BOOLEAN /\ marker \in BOOLEAN /\ named \in BOOLEAN
  /\ token \in BOOLEAN /\ shield \in {"nobody", "child", "leader"}
  /\ manifest \in [status : Active \cup Terminal, child : BOOLEAN]
  /\ program \in {"none", "running", "orphans", "gone"}
  /\ phase \in {"boot", "spawned", "up", "exiting", "persisting", "closing", "dead"}
  /\ status \in Active \cup Terminal
  /\ timer \in BOOLEAN /\ shut \in BOOLEAN /\ wasDestroying \in BOOLEAN
  /\ listening \in {"no", "yes", "closed", "never"}
  /\ owed \in Seq({"start", "shutdown", "exit"})
  /\ inflight \in Copies /\ wroteTerminal \in BOOLEAN
  /\ cmd \in [Commands -> [op : AllOperations \cup {"none"}, pc : Places,
                           copy : Copies, group : BOOLEAN, round : 0 .. 2]]

\* The program that the session's files name is over: all of its group when a
\* token proves the group, its leader when only the child pid names it.
Over == named => IF token THEN ~GroupAlive ELSE program # "running"

\* A session that reads failed or destroyed has no program left, although the
\* host that spawned it may have died before, during or after any write.
EndedMeansOver ==
  folder /\ manifest.status \in {"failed", "destroyed"} => Over

\* A destroy that reported success stays true: whatever the host or another
\* command still writes, readers find the session destroyed, or removed.
ReportedDestroyHolds ==
  \A p \in Commands :
    At(p, "destroyed") => Over /\ (folder => ReadsDestroyed)

\* gc removes no folder of a session that its host still works for or whose
\* program runs, since nothing could end that program afterwards.
GcSparesTheLiving ==
  ~folder => Over /\ (phase = "dead" \/ status \in Terminal)

\* A write of the host never replaces the record of an end: that record may be
\* the work of a destroy, and the host would only repeat its own.
HostNeverRewritesTheEnd ==
  [][inflight # NoWrite /\ inflight' = NoWrite /\ manifest' # manifest =>
       manifest.status \in Active]_vars

\* A host that was told to shut down ends, and its program with it, unless
\* nothing of ours can end the program's leader.
ShutdownEnds == (status = "destroying" /\ shield # "leader") ~> phase = "dead"

\* A reconcile that found the host dead leaves no session active, unless it
\* failed or some process of the program survives every kill.
StrandedIsRepaired ==
  \A p \in Commands :
    (At(p, "check-again") /\ shield = "nobody")
      ~> (~folder \/ manifest.status \in Terminal \/ At(p, "failed"))

\* Every command ends, also when what it waits for never comes.
CommandsEnd == \A p \in Commands : cmd[p].pc # "idle" ~> cmd[p].pc \in Final

Outcome ==
  IF ~folder THEN "removed"
  ELSE IF ReadsDestroyed THEN "destroyed"
  ELSE IF manifest.status \in Terminal THEN "ended" ELSE "active"

Contract == INSTANCE SessionContract WITH outcome <- Outcome, over <- Over

\* The session ends once, and neither destroyed nor removed is taken back or
\* comes before the end of the program.
ImplementsContract == Contract!Spec
=============================================================================
