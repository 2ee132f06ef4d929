---------------------------- MODULE SessionHost ----------------------------
(***************************************************************************)
(* The host process of one session (host/hostMain.ts), the record it keeps *)
(* of the session (sessionState.ts), the queue through which it writes     *)
(* that record to session.json (manifestWriter.ts), and the program it     *)
(* runs. SessionCommands adds the commands that work on the same files.    *)
(*                                                                         *)
(* The program is its process group: the leader that the host started and  *)
(* the processes the leader left behind. A session with a token is one     *)
(* whose program.json proves the group; without one only the child pid in  *)
(* session.json names it. Exit codes, sizes and times are left out.        *)
(***************************************************************************)
EXTENDS Naturals, Sequences

Active == {"running", "exiting", "destroying"}
Terminal == {"exited", "failed", "destroyed"}

VARIABLES
  folder,         \* the session folder exists
  manifest,       \* session.json: the status, and whether it has the child pid
  marker,         \* the empty file `destroyed`
  named,          \* a file that commands read has named the program's group
  token,          \* program.json carries a token that proves the group
  shield,         \* which of the group no kill of ours can reach
  program,        \* none, running (its leader), orphans (only others), gone
  phase,          \* the host: boot, spawned, up, exiting, persisting, closing, dead
  status,         \* state.#record.status
  timer,          \* groupKillTimer has been set
  shut,           \* shutdownPromise has been set
  listening,      \* the socket: no, yes, closed, never
  owed,           \* manifest writes waiting for their turn, by who asked
  inflight,       \* the snapshot being written, or NoWrite
  wroteTerminal,  \* wroteTerminal
  wasDestroying   \* handlePtyExit found the session destroying

disk == <<folder, manifest, marker>>
nature == <<token, shield>>
writer == <<owed, inflight, wroteTerminal>>
hostVars == <<phase, status, timer, shut, listening, writer, wasDestroying>>
sessionVars == <<disk, named, nature, program, hostVars>>

NoWrite == [status |-> "none", child |-> FALSE]

\* A new session, whose first manifest `create` has written, or one that a
\* host of an older version left `exiting` when it died.
SessionInit ==
  /\ folder = TRUE /\ marker = FALSE
  /\ token \in BOOLEAN /\ shield \in {"nobody", "child", "leader"}
  /\ \/ /\ manifest = [status |-> "running", child |-> FALSE]
        /\ named = FALSE /\ program = "none"
        /\ phase = "boot" /\ status = "running" /\ listening = "no"
     \/ /\ manifest = [status |-> "exiting", child |-> TRUE]
        /\ named = TRUE /\ program \in {"orphans", "gone"}
        /\ phase = "dead" /\ status = "exiting" /\ listening = "closed"
  /\ timer = FALSE /\ shut = FALSE
  /\ owed = <<>> /\ inflight = NoWrite /\ wroteTerminal = FALSE
  /\ wasDestroying = FALSE
-----------------------------------------------------------------------------
(* The program *)

GroupAlive == program \in {"running", "orphans"}

\* What is left of the group after SIGKILL reached all that we may signal.
Killed ==
  IF ~GroupAlive THEN program
  ELSE CASE shield = "nobody" -> "gone"
         [] shield = "child" -> "orphans"
         [] shield = "leader" -> program

\* The leader exits, by itself or on a hang-up; others of its group may stay.
LeaderExits ==
  /\ program = "running"
  /\ program' \in {"orphans", "gone"}
  /\ UNCHANGED <<disk, named, nature, hostVars>>

OrphansEnd ==
  /\ program = "orphans"
  /\ program' = "gone"
  /\ UNCHANGED <<disk, named, nature, hostVars>>
-----------------------------------------------------------------------------
(* The manifest writer *)

Snapshot == [status |-> status, child |-> phase # "boot"]

InQueue(w) == \E i \in DOMAIN owed : owed[i] = w

\* Mutant: the writer forgets that it wrote a terminal record.
BeginManifestWriteAlways ==
  /\ owed # <<>> /\ inflight = NoWrite /\ phase # "dead"
  /\ inflight' = Snapshot /\ UNCHANGED owed
  /\ UNCHANGED <<disk, named, nature, program, phase, status, timer, shut,
                 listening, wroteTerminal, wasDestroying>>

\* The write whose turn it is takes its snapshot now. After a terminal record
\* no write follows: the file may belong to a destroy by then.
BeginManifestWrite ==
  /\ owed # <<>> /\ inflight = NoWrite /\ phase # "dead"
  /\ IF wroteTerminal
     THEN owed' = Tail(owed) /\ UNCHANGED inflight
     ELSE inflight' = Snapshot /\ UNCHANGED owed
  /\ UNCHANGED <<disk, named, nature, program, phase, status, timer, shut,
                 listening, wroteTerminal, wasDestroying>>

\* The rename lands, unless gc removed the folder.
EndManifestWrite ==
  /\ inflight # NoWrite /\ folder
  /\ manifest' = inflight
  /\ named' = (named \/ (~token /\ inflight.child))
  /\ wroteTerminal' = (inflight.status \in Terminal)
  /\ owed' = Tail(owed) /\ inflight' = NoWrite
  /\ UNCHANGED <<folder, marker, nature, program, phase, status, timer, shut,
                 listening, wasDestroying>>
-----------------------------------------------------------------------------
(* Start-up and shutdown *)

\* initiateShutdown up to its first await, with `queue` the writes it finds.
BeginShutdown(queue) ==
  /\ shut' = TRUE
  /\ IF status = "running" /\ ~shut
     THEN timer' = TRUE /\ status' = "destroying" /\ owed' = Append(queue, "shutdown")
     ELSE owed' = queue /\ UNCHANGED <<timer, status>>

\* createPty and setChildPid. No file names the program yet.
Spawn ==
  /\ phase = "boot"
  /\ program' = "running" /\ phase' = "spawned"
  /\ UNCHANGED <<disk, named, nature, status, timer, shut, listening, writer,
                 wasDestroying>>

\* writeProgramRecord and the request of the start-up write; when program.json
\* cannot be written the host shuts down.
WriteProgram ==
  /\ phase = "spawned" /\ phase' = "up"
  /\ \/ /\ named' = token
        /\ owed' = <<"start">>
        /\ UNCHANGED <<status, timer, shut, listening>>
     \/ /\ UNCHANGED named
        /\ BeginShutdown(<<>>)
        /\ listening' = "never"
  /\ UNCHANGED <<disk, nature, program, inflight, wroteTerminal, wasDestroying>>

\* A write fails, for example on a full disk. A failed start-up write ends the
\* host; a failed shutdown or exit write leaves its work to a reconcile.
ManifestWriteFails ==
  /\ inflight # NoWrite
  /\ inflight' = NoWrite
  /\ IF Head(owed) = "start"
     THEN BeginShutdown(Tail(owed)) /\ listening' = "never"
     ELSE owed' = Tail(owed) /\ UNCHANGED <<status, timer, shut, listening>>
  /\ UNCHANGED <<disk, named, nature, program, phase, wroteTerminal, wasDestroying>>

\* The rest of the start-up, once its write has landed.
FinishStart ==
  /\ listening = "no" /\ phase \notin {"boot", "spawned", "dead"}
  /\ ~InQueue("start")
  /\ \/ /\ status = "running" /\ listening' = "yes"
        /\ UNCHANGED <<status, timer, shut, owed>>
     \/ /\ status # "running" /\ listening' = "never"
        /\ BeginShutdown(owed)
  /\ UNCHANGED <<disk, named, nature, program, phase, inflight, wroteTerminal,
                 wasDestroying>>

\* SIGTERM, or the create-failed marker, of a create that gave up.
ToldToStop ==
  /\ phase \in {"up", "exiting", "persisting"} /\ ~shut
  /\ BeginShutdown(owed)
  /\ UNCHANGED <<disk, named, nature, program, phase, listening, inflight,
                 wroteTerminal, wasDestroying>>

\* The session was idle for too long: hang up, and kill after the grace.
IdleHangUp ==
  /\ phase = "up" /\ status = "running" /\ ~timer
  /\ timer' = TRUE
  /\ UNCHANGED <<disk, named, nature, program, phase, status, shut, listening,
                 writer, wasDestroying>>

\* The grace after a hang-up is over.
KillTimerFires ==
  /\ timer /\ phase = "up" /\ program # Killed
  /\ program' = Killed
  /\ UNCHANGED <<disk, named, nature, hostVars>>
-----------------------------------------------------------------------------
(* The exit of the program *)

\* handlePtyExit: stop what the leader left, unless it exited by itself, and
\* record the exit of a session that is not being destroyed.
HandlePtyExit ==
  /\ phase = "up" /\ program \in {"orphans", "gone"}
  /\ program' = IF status = "destroying" \/ timer THEN Killed ELSE program
  /\ wasDestroying' = (status = "destroying")
  /\ status' = IF status = "destroying" THEN status ELSE "exited"
  /\ timer' = FALSE
  /\ phase' = "exiting"
  /\ UNCHANGED <<disk, named, nature, shut, listening, writer>>

\* Mutant: the host records destroyed without waiting for the group.
SettleExitAtOnce ==
  /\ phase = "exiting" /\ phase' = "persisting"
  /\ status' = IF wasDestroying THEN "destroyed" ELSE status
  /\ owed' = Append(owed, "exit")
  /\ UNCHANGED <<disk, named, nature, program, timer, shut, listening, inflight,
                 wroteTerminal, wasDestroying>>

\* After the exit event: a session being destroyed is destroyed once its group
\* is gone, and stays destroying when the wait for that times out.
SettleExit ==
  /\ phase = "exiting" /\ phase' = "persisting"
  /\ status' = IF wasDestroying /\ ~GroupAlive THEN "destroyed" ELSE status
  /\ owed' = Append(owed, "exit")
  /\ UNCHANGED <<disk, named, nature, program, timer, shut, listening, inflight,
                 wroteTerminal, wasDestroying>>

\* persistManifest settled; initiateShutdown finds nothing to command.
ExitPersisted ==
  /\ phase = "persisting" /\ ~InQueue("exit")
  /\ phase' = "closing" /\ shut' = TRUE
  /\ UNCHANGED <<disk, named, nature, program, status, timer, listening, writer,
                 wasDestroying>>

\* The rest of initiateShutdown: it awaits its own write and the program's
\* exit, not the write of that exit, and then closes the socket.
CloseSocket ==
  /\ shut /\ phase \in {"exiting", "persisting", "closing"}
  /\ ~InQueue("shutdown")
  /\ listening = "yes" /\ listening' = "closed"
  /\ UNCHANGED <<disk, named, nature, program, phase, status, timer, shut, writer,
                 wasDestroying>>

HostExits ==
  /\ phase = "closing" /\ listening \in {"closed", "never"}
  /\ owed = <<>>
  /\ phase' = "dead"
  /\ UNCHANGED <<disk, named, nature, program, status, timer, shut, listening,
                 writer, wasDestroying>>

\* The host is gone at once; a write under way has landed or is lost.
HostGone ==
  /\ phase' = "dead" /\ listening' = "closed"
  /\ owed' = <<>> /\ inflight' = NoWrite /\ timer' = FALSE

HostCrash ==
  /\ phase # "dead"
  /\ HostGone
  /\ UNCHANGED <<disk, named, nature, program, status, shut, wroteTerminal,
                 wasDestroying>>

HostWrites == BeginManifestWrite \/ EndManifestWrite \/ ManifestWriteFails

HostWorks ==
  \/ Spawn \/ WriteProgram \/ FinishStart
  \/ HandlePtyExit \/ SettleExit \/ ExitPersisted \/ CloseSocket \/ HostExits

HostNext ==
  \/ LeaderExits \/ OrphansEnd
  \/ HostWrites \/ HostWorks
  \/ ToldToStop \/ IdleHangUp \/ KillTimerFires
  \/ HostCrash
=============================================================================
