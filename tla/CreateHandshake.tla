-------------------------- MODULE CreateHandshake --------------------------
(***************************************************************************)
(* How `create` and the host it launches agree on whether the session is   *)
(* there (cli/commands/create.ts, host/lifecycle.ts, host/hostMain.ts).    *)
(*                                                                         *)
(* `create` launches the host, writes the first manifest, and polls the    *)
(* host until it answers. When it gives up it writes the create-failed     *)
(* marker, reads the manifest and sends SIGTERM; on Windows, where SIGTERM *)
(* kills, it sends it only to a host whose program the manifest names. The *)
(* host waits for the manifest, looks for the marker and for a noted       *)
(* SIGTERM before it starts the program, names the program in the          *)
(* manifest, looks for the marker again, and goes on looking while its     *)
(* creator runs. A host crash is the business of SessionHost.              *)
(***************************************************************************)
EXTENDS Naturals

CONSTANT MaxRetries   \* MARKER_RETRY_MAX_ATTEMPTS

ASSUME MaxRetriesAssumption == MaxRetries \in Nat

VARIABLES
  windows,     \* process.platform === 'win32'
  creator,     \* launching, waiting, marking, reading, stopping, or how it ended
  marked,      \* create: the marker write has succeeded
  seen,        \* create: the manifest it read last, or "unread"
  retries,     \* create: writes of the marker after the first
  manifest,    \* session.json: none, first, named, exited, destroyed
  everWritten, \* the first manifest has been written
  marker,      \* the file create-failed
  host,        \* how far the host is
  creatorSeen, \* host: what its last check of the creator told
  sigterm,     \* host: none, sent, noted
  program      \* none, running, ended

createVars == <<creator, marked, seen, retries>>
hostVars == <<host, creatorSeen, program>>
vars == <<windows, createVars, manifest, everWritten, marker, hostVars, sigterm>>

CreatorEnds == {"ok", "failed", "no-session", "killed"}
CreatorRuns == creator \notin CreatorEnds

\* The host process, from its launch to its end.
HostEnds == {"gone", "orphaned", "killed"}
HostRuns == host \notin HostEnds \cup {"none"}

Init ==
  /\ windows \in BOOLEAN
  /\ creator = "launching" /\ marked = FALSE /\ seen = "unread" /\ retries = 0
  /\ manifest = "none" /\ everWritten = FALSE /\ marker = FALSE
  /\ host = "none" /\ creatorSeen = TRUE /\ sigterm = "none" /\ program = "none"

Named(m) == m \notin {"none", "first", "unread"}
-----------------------------------------------------------------------------
(* create *)

Launch ==
  /\ creator = "launching" /\ host = "none"
  /\ host' = "starting"
  /\ UNCHANGED <<windows, createVars, manifest, everWritten, marker, creatorSeen,
                 sigterm, program>>

\* The first manifest, or the removal of the folder when its write fails.
WriteFirstManifest ==
  /\ creator = "launching" /\ host # "none"
  /\ \/ /\ manifest' = "first" /\ everWritten' = TRUE /\ creator' = "waiting"
     \/ creator' = "no-session" /\ UNCHANGED <<manifest, everWritten>>
  /\ UNCHANGED <<windows, marked, seen, retries, marker, hostVars, sigterm>>

\* waitForReadyHost: the host answers, or its program has exited already.
Ready ==
  /\ creator = "waiting"
  /\ host = "serving" \/ manifest = "exited"
  /\ creator' = "ok"
  /\ UNCHANGED <<windows, marked, seen, retries, manifest, everWritten, marker,
                 hostVars, sigterm>>

\* The host has exited, the deadline has passed, or a read failed.
GiveUp ==
  /\ creator = "waiting"
  /\ creator' = "marking"
  /\ UNCHANGED <<windows, marked, seen, retries, manifest, everWritten, marker,
                 hostVars, sigterm>>

WriteMarker ==
  /\ creator = "marking" /\ creator' = "reading"
  /\ marker' \in {marker, TRUE} /\ marked' = marker'
  /\ UNCHANGED <<windows, seen, retries, manifest, everWritten, hostVars, sigterm>>

\* The read of the manifest, which can fail, and the decision to try again.
ReadManifest ==
  /\ creator = "reading"
  /\ seen' \in {manifest, "unread"}
  /\ \/ /\ windows /\ ~marked /\ ~Named(seen') /\ retries < MaxRetries /\ HostRuns
        /\ creator' = "marking" /\ retries' = retries + 1
     \/ /\ ~windows \/ marked \/ Named(seen') \/ retries = MaxRetries \/ ~HostRuns
        /\ creator' = "stopping" /\ UNCHANGED retries
  /\ UNCHANGED <<windows, marked, manifest, everWritten, marker, hostVars, sigterm>>

StopHost ==
  /\ creator = "stopping" /\ creator' = "failed"
  /\ IF ~HostRuns \/ (windows /\ ~Named(seen)) THEN UNCHANGED <<host, sigterm>>
     ELSE IF windows
     THEN host' = "killed" /\ UNCHANGED sigterm
     ELSE sigterm' = "sent" /\ UNCHANGED host
  /\ UNCHANGED <<windows, marked, seen, retries, manifest, everWritten, marker,
                 creatorSeen, program>>

CreatorKilled ==
  /\ CreatorRuns /\ host # "none"
  /\ creator' = "killed"
  /\ UNCHANGED <<windows, marked, seen, retries, manifest, everWritten, marker,
                 hostVars, sigterm>>

CreateStep ==
  \/ Launch \/ WriteFirstManifest \/ Ready \/ WriteMarker
  \/ ReadManifest \/ StopHost
-----------------------------------------------------------------------------
(* The host: each look at a file or a process is a step of its own *)

HostGoes(from, to) ==
  /\ host = from /\ host' = to
  /\ UNCHANGED <<windows, createVars, everWritten, marker>>

\* From here on the host has a handler for SIGTERM.
StartHost ==
  /\ HostGoes("starting", "look-creator")
  /\ UNCHANGED <<manifest, creatorSeen, sigterm, program>>

\* Mutant: a creator that has gone is taken to have written nothing more.
LookAtCreatorOnly ==
  /\ HostGoes("look-creator", IF CreatorRuns THEN "look-manifest" ELSE "orphaned")
  /\ creatorSeen' = CreatorRuns
  /\ UNCHANGED <<manifest, sigterm, program>>

\* waitForManifestFromCreate: is the creator alive? Then: is the manifest there?
LookAtCreator ==
  /\ HostGoes("look-creator", "look-manifest")
  /\ creatorSeen' = CreatorRuns
  /\ UNCHANGED <<manifest, sigterm, program>>

LookForManifest ==
  /\ HostGoes("look-manifest", IF manifest # "none" THEN "prepare" ELSE
                               IF creatorSeen THEN "look-creator" ELSE "orphaned")
  /\ UNCHANGED <<manifest, creatorSeen, sigterm, program>>

\* The last look before the spawn: the marker, the noted SIGTERM, createPty.
LookBeforeSpawn ==
  /\ \/ /\ marker \/ sigterm = "noted"
        /\ HostGoes("prepare", "gone") /\ UNCHANGED program
     \/ /\ ~marker /\ sigterm # "noted"
        /\ HostGoes("prepare", "name") /\ program' = "running"
  /\ UNCHANGED <<manifest, creatorSeen, sigterm>>

\* The start-up write, which names the program; it may have exited already.
NameProgram ==
  /\ HostGoes("name", "look-marker")
  /\ \/ manifest' = "named"
     \/ program = "ended" /\ manifest' = "exited"
  /\ UNCHANGED <<creatorSeen, sigterm, program>>

\* Mutant: the host does not look for the marker after its start-up write.
LookForMarkerNot ==
  /\ HostGoes("look-marker", IF sigterm = "noted" THEN "stopping" ELSE "serving")
  /\ creatorSeen' = TRUE
  /\ UNCHANGED <<manifest, sigterm, program>>

\* After the start-up write: the marker, and a SIGTERM that came meanwhile.
LookForMarker ==
  /\ HostGoes("look-marker", IF marker \/ sigterm = "noted" THEN "stopping" ELSE "serving")
  /\ creatorSeen' = TRUE
  /\ UNCHANGED <<manifest, sigterm, program>>

\* Mutant: the watch ends with the creator, without a last look.
WatchCreatorOnly ==
  /\ creatorSeen
  /\ HostGoes("serving", IF CreatorRuns THEN "watching" ELSE "serving")
  /\ creatorSeen' = CreatorRuns
  /\ UNCHANGED <<manifest, sigterm, program>>

\* watchCreateFailed: the creator first, then the marker; the watch ends when
\* the creator had gone.
WatchCreator ==
  /\ creatorSeen
  /\ HostGoes("serving", "watching")
  /\ creatorSeen' = CreatorRuns
  /\ UNCHANGED <<manifest, sigterm, program>>

WatchMarker ==
  /\ HostGoes("watching", IF marker THEN "stopping" ELSE "serving")
  /\ UNCHANGED <<manifest, creatorSeen, sigterm, program>>

\* SIGTERM ends a host without a handler yet, is noted before the spawn, and
\* is a shutdown from then on. The start-up write goes on either way.
HandleSigterm ==
  /\ sigterm = "sent" /\ HostRuns
  /\ sigterm' = "noted"
  /\ HostGoes(host, CASE host = "starting" -> "killed"
                     [] host \in {"serving", "watching"} -> "stopping"
                     [] OTHER -> host)
  /\ UNCHANGED <<manifest, creatorSeen, program>>

\* The shutdown: hang up or kill the program, and record the end.
StopProgram ==
  /\ HostGoes("stopping", "gone")
  /\ program' = "ended"
  /\ manifest' = IF manifest = "exited" THEN "exited" ELSE "destroyed"
  /\ UNCHANGED <<creatorSeen, sigterm>>

ProgramExits ==
  /\ program = "running" /\ program' = "ended"
  /\ UNCHANGED <<windows, createVars, manifest, everWritten, marker, host,
                 creatorSeen, sigterm>>

RecordExit ==
  /\ program = "ended"
  /\ \E from \in {"look-marker", "serving", "watching"} : HostGoes(from, "gone")
  /\ manifest' = "exited"
  /\ UNCHANGED <<creatorSeen, sigterm, program>>

HostStep ==
  \/ StartHost \/ LookAtCreator \/ LookForManifest \/ LookBeforeSpawn
  \/ NameProgram \/ LookForMarker \/ WatchCreator \/ WatchMarker
  \/ StopProgram \/ RecordExit

Next ==
  \/ CreateStep \/ GiveUp \/ CreatorKilled
  \/ HostStep \/ HandleSigterm
  \/ ProgramExits

SafeSpec == Init /\ [][Next]_vars

\* The event loops of both processes go on, and a signal is delivered.
Fairness == WF_vars(CreateStep) /\ WF_vars(HostStep) /\ WF_vars(HandleSigterm)

Spec == SafeSpec /\ Fairness
-----------------------------------------------------------------------------
(* Properties *)

\* Every variable keeps its type.
TypeOK ==
  /\ windows \in BOOLEAN /\ marked \in BOOLEAN /\ marker \in BOOLEAN
  /\ everWritten \in BOOLEAN /\ creatorSeen \in BOOLEAN
  /\ creator \in {"launching", "waiting", "marking", "reading", "stopping"}
                  \cup CreatorEnds
  /\ manifest \in {"none", "first", "named", "exited", "destroyed"}
  /\ seen \in {"unread", "none", "first", "named", "exited", "destroyed"}
  /\ retries \in 0 .. MaxRetries
  /\ host \in {"none", "starting", "look-creator", "look-manifest", "prepare",
               "name", "look-marker", "serving", "watching", "stopping"} \cup HostEnds
  /\ sigterm \in {"none", "sent", "noted"}
  /\ program \in {"none", "running", "ended"}

\* A host that gives up waiting has not missed a manifest: its creator had
\* exited before it looked for the last time.
NoManifestIsMissed == host = "orphaned" => ~everWritten

\* "So the host finds the marker, or create finds the program": a create that
\* marked the session and then read a manifest without the program does not
\* meet a host that passed its own look at the marker.
HandshakeMeets ==
  creator = "failed" /\ marked /\ seen = "first" => host \notin {"serving", "watching"}

\* The program of a create that failed ends, or is left to a reconcile with
\* its name on file. On Windows that takes the marker or the name; there a
\* create that got neither on file can leave a host that serves.
FailedCreateLeavesNoProgram ==
  creator = "failed" /\ (~windows \/ marked \/ Named(seen))
    => program # "running" \/ (host = "killed" /\ Named(manifest))

\* No host waits for ever for a manifest that nobody will write.
NoHostWaitsForNobody ==
  creator \in {"no-session", "killed"} /\ manifest = "none" /\ host # "none"
    => host = "orphaned"

\* A create that fails, and one that dies before its manifest, leave nothing
\* that goes on. The creator has ended for good in both, so what holds in the
\* end is what they lead to.
CreateSettles == <>[](FailedCreateLeavesNoProgram /\ NoHostWaitsForNobody)
=============================================================================
