--------------------------- MODULE SessionProofs ---------------------------
(***************************************************************************)
(* Proofs about the end of a session, for any number of commands that race *)
(* each other, the host and its program, and for crashes, failed writes    *)
(* and timeouts anywhere. What carries them is that a session is sealed    *)
(* once its host is dead or has written the end: from then on the host     *)
(* writes nothing, no file names the program anew, and the program only    *)
(* shrinks, so that what a command has found to be over stays over.        *)
(***************************************************************************)
EXTENDS SessionCommands, TLAPS

\* The host writes the manifest no more.
Sealed == phase = "dead" \/ wroteTerminal

\* The leader of the program that the session's files name is over.
LeaderOver == named => program # "running"

\* What the writer of the host has in hand.
WriterInv ==
  /\ phase \in {"boot", "spawned"} =>
       ~named /\ owed = <<>> /\ ~wroteTerminal /\ listening = "no" /\ status = "running"
  /\ phase = "dead" => owed = <<>> /\ listening # "yes"
  /\ wroteTerminal => inflight = NoWrite /\ status \in Terminal
  /\ inflight # NoWrite =>
       owed # <<>> /\ inflight.child /\ inflight.status \in Active \cup {"exited", "destroyed"}
  /\ inflight.status \in Terminal => status \in Terminal
  /\ inflight.status = "destroyed" => status = "destroyed"

\* An end is what the host recorded of it.
StatusInv ==
  /\ status \in Terminal => program # "running" /\ phase \notin {"boot", "spawned", "up"}
  /\ status = "destroyed" => ~GroupAlive
  /\ status # "failed"

\* The files never say more than what is so, and what they say stays so.
DiskInv ==
  /\ manifest.status \in Terminal => Sealed /\ LeaderOver
  /\ manifest.status \in {"failed", "destroyed"} => Over
  /\ ~token /\ named => manifest.child \/ manifest.status \in Terminal
  /\ marker => Sealed /\ Over
  /\ ~folder => Sealed /\ Over

\* What reconcile knows at each of its places.
Ending == {"check-again", "stop-group", "await-group", "read-latest", "write-end"}

\* The end that a command is about to write is the one on disk, if there is one.
SameEnd(st) == manifest.status \in {st, EndOf(st)} \/ marker

ReconcileInv(p) ==
  /\ cmd[p].pc \in Ending => phase = "dead"
  /\ At(p, "stop-group") /\ ~token /\ named => cmd[p].copy.child
  /\ At(p, "await-group") => cmd[p].group \/ Over
  /\ At(p, "read-latest") \/ At(p, "write-end") => Over
  /\ At(p, "write-end") => cmd[p].copy.status \in Active /\ SameEnd(cmd[p].copy.status)
  /\ At(p, "repair") => marker

\* What destroy and destroy --force know.
DestroyInv(p) ==
  /\ cmd[p].pc \in {"leftovers", "await-leftovers"} => Sealed /\ LeaderOver
  /\ At(p, "await-leftovers") => cmd[p].group \/ Over
  /\ At(p, "await-death") \/ At(p, "read-final") => phase = "dead"
  /\ cmd[p].pc \in {"find", "kill", "await-death"} /\ cmd[p].round # 1 => phase = "dead"
  /\ At(p, "find") /\ cmd[p].round # 1 /\ ~token /\ named => cmd[p].copy.child \/ program # "running"
  /\ cmd[p].pc \in {"kill", "await-death"} /\ cmd[p].round # 1 => cmd[p].group \/ Over
  /\ At(p, "record") => Sealed /\ Over
  /\ At(p, "write-destroyed") => marker
  /\ At(p, "destroyed") => Sealed /\ Over /\ ReadsDestroyed

\* What gc knows before it removes the folder.
GcInv(p) ==
  /\ cmd[p].pc \in {"gc-judge", "gc-final", "gc-remove"} => Sealed /\ manifest.status \in Terminal
  /\ cmd[p].pc \in {"gc-final", "gc-remove"} => Over

\* A copy of an end is worth what the end was.
CopyInv(p) ==
  /\ cmd[p].copy.status \in {"failed", "destroyed"} => Sealed /\ Over
  /\ cmd[p].copy.status = "destroyed" => ReadsDestroyed

CommandInv(p) == ReconcileInv(p) /\ DestroyInv(p) /\ GcInv(p) /\ CopyInv(p)

SessionInv ==
  /\ TypeOK
  /\ WriterInv
  /\ StatusInv
  /\ DiskInv
  /\ \A p \in Commands : CommandInv(p)

-----------------------------------------------------------------------------
(* What no step takes back.                                                *)

\* A step is calm when it keeps what commands have found out of the session.
Calm ==
  /\ Sealed => /\ Sealed' /\ named' = named
               /\ LeaderOver => LeaderOver'
               /\ Over => Over'
               /\ program # "running" => program' # "running"
  /\ phase = "dead" => phase' = "dead"
  /\ token' = token
  /\ marker => marker'
  /\ manifest.status \in Terminal => manifest'.status \in Terminal
  /\ ReadsDestroyed => ReadsDestroyed'
  /\ \A st \in Active : phase = "dead" /\ SameEnd(st) => SameEnd(st)'
  /\ folder' = folder \/ (~folder' /\ manifest.status \in Terminal /\ Over)

CommandRecords ==
  [op : AllOperations \cup {"none"}, pc : Places, copy : Copies, group : BOOLEAN, round : 0 .. 2]

ManifestRecords == [status : Active \cup Terminal, child : BOOLEAN]

\* The variables of the session keep their types.
SessionTypes ==
  /\ folder \in BOOLEAN /\ marker \in BOOLEAN /\ named \in BOOLEAN
  /\ token \in BOOLEAN /\ shield \in {"nobody", "child", "leader"}
  /\ manifest \in ManifestRecords
  /\ program \in {"none", "running", "orphans", "gone"}
  /\ phase \in {"boot", "spawned", "up", "exiting", "persisting", "closing", "dead"}
  /\ status \in Active \cup Terminal
  /\ timer \in BOOLEAN /\ shut \in BOOLEAN /\ wasDestroying \in BOOLEAN
  /\ listening \in {"no", "yes", "closed", "never"}
  /\ owed \in Seq({"start", "shutdown", "exit"})
  /\ inflight \in Copies /\ wroteTerminal \in BOOLEAN

\* All but what the commands know.
World == SessionTypes /\ WriterInv /\ StatusInv /\ DiskInv

\* The types are those of the session and those of the commands.
LEMMA TypesSplit == TypeOK <=> SessionTypes /\ cmd \in [Commands -> CommandRecords]
BY DEF TypeOK, SessionTypes, CommandRecords, ManifestRecords

\* An active session is not an ended one, and EndOf gives an end.
LEMMA EndsAreEnds ==
  /\ \A st \in Active : st \notin Terminal /\ EndOf(st) \in Terminal
  /\ \A st : EndOf(st) \in Terminal
BY DEF Active, Terminal, EndOf

\* When the group is gone, so is its leader, and that is more than being over.
LEMMA OverMeans == (~GroupAlive => Over) /\ (Over => LeaderOver)
BY DEF Over, LeaderOver, GroupAlive

\* A kill leaves less of the program, never more.
LEMMA KilledIsLess ==
  ASSUME SessionTypes
  PROVE  /\ Killed \in {"none", "running", "orphans", "gone"}
         /\ program # "running" => Killed # "running"
         /\ program # "none" => Killed # "none"
         /\ ~GroupAlive => Killed \notin {"running", "orphans"}
BY DEF SessionTypes, Killed, GroupAlive

\* The host works on what only it sees.
LEMMA BookKeeping ==
  ASSUME World, UNCHANGED <<disk, named, nature, program, wroteTerminal>>,
         phase = "dead" => phase' = "dead",
         SessionTypes', WriterInv', StatusInv'
  PROVE  World' /\ Calm
<1>1. UNCHANGED <<folder, manifest, marker, named, token, shield, program, wroteTerminal>>
  BY DEF disk, nature
<1>2. (Sealed => Sealed') /\ Over' = Over /\ LeaderOver' = LeaderOver
  BY <1>1 DEF Sealed, Over, LeaderOver, GroupAlive
<1>3. DiskInv'
  BY <1>1, <1>2 DEF World, DiskInv
<1>4. Calm
  BY <1>1, <1>2 DEF Calm, ReadsDestroyed, SameEnd
<1>. QED BY <1>3, <1>4 DEF World

\* Nothing of the session changes.
LEMMA QuietKeeps ==
  ASSUME World, Quiet
  PROVE  World' /\ Calm
<1>1. UNCHANGED <<folder, manifest, marker, named, token, shield, program, phase, status,
                  timer, shut, listening, owed, inflight, wroteTerminal, wasDestroying>>
  BY DEF Quiet, sessionVars, disk, nature, hostVars, writer
<1>2. SessionTypes'
  BY <1>1 DEF World, SessionTypes
<1>3. WriterInv' /\ StatusInv'
  BY <1>1 DEF World, WriterInv, StatusInv, GroupAlive
<1>. QED BY <1>1, <1>2, <1>3, BookKeeping DEF disk, nature

\* What is left of the program only shrinks.
LEMMA ShrinkKeeps ==
  ASSUME World, program' \in {"none", "running", "orphans", "gone"},
         program # "running" => program' # "running",
         ~GroupAlive => program' \notin {"running", "orphans"},
         UNCHANGED <<disk, named, nature, hostVars>>
  PROVE  World' /\ Calm
<1>1. UNCHANGED <<folder, manifest, marker, named, token, shield, phase, status,
                  timer, shut, listening, owed, inflight, wroteTerminal, wasDestroying>>
  BY DEF disk, nature, hostVars, writer
<1>2. (Over => Over') /\ (LeaderOver => LeaderOver')
  BY <1>1 DEF Over, LeaderOver, GroupAlive
<1>3. SessionTypes' /\ WriterInv'
  BY <1>1 DEF World, SessionTypes, WriterInv
<1>4. StatusInv'
  BY <1>1 DEF World, StatusInv, GroupAlive
<1>5. DiskInv'
  BY <1>1, <1>2 DEF World, DiskInv, Sealed
<1>6. Calm
  BY <1>1, <1>2 DEF Calm, Sealed, ReadsDestroyed, SameEnd
<1>. QED BY <1>3, <1>4, <1>5, <1>6 DEF World

\* Whether or not a command kills the group.
LEMMA KillKeeps ==
  ASSUME World, program' \in {program, Killed}, UNCHANGED <<disk, named, nature, hostVars>>
  PROVE  World' /\ Calm
<1>1. /\ program' \in {"none", "running", "orphans", "gone"}
      /\ program # "running" => program' # "running"
      /\ ~GroupAlive => program' \notin {"running", "orphans"}
  BY KilledIsLess DEF World, SessionTypes, GroupAlive
<1>. QED BY <1>1, ShrinkKeeps

\* A command writes an end into the manifest: of a sealed session whose program
\* is over, and none but the end that is there.
LEMMA EndIsWritten ==
  ASSUME World, NEW st \in Terminal, NEW child \in BOOLEAN, WriteManifest(st, child),
         Sealed, Over,
         ReadsDestroyed => st = "destroyed" \/ marker,
         \A c \in Active : SameEnd(c) => st \in {c, EndOf(c)} \/ marker
  PROVE  World' /\ Calm
<1>1. /\ UNCHANGED <<folder, marker, named, token, shield, program, phase, status,
                     timer, shut, listening, owed, inflight, wroteTerminal, wasDestroying>>
      /\ manifest' = [status |-> st, child |-> child]
  BY DEF WriteManifest, nature, hostVars, writer
<1>2. Over' /\ LeaderOver' /\ Sealed'
  BY <1>1, OverMeans DEF Over, LeaderOver, GroupAlive, Sealed
<1>3. manifest'.status = st
  BY <1>1
<1>4. SessionTypes' /\ WriterInv' /\ StatusInv'
  <2>1. manifest' \in ManifestRecords
    BY <1>1 DEF ManifestRecords
  <2>2. SessionTypes'
    BY <1>1, <2>1 DEF World, SessionTypes
  <2>. QED BY <1>1, <2>2 DEF World, WriterInv, StatusInv, GroupAlive
<1>5. DiskInv'
  BY <1>1, <1>2, <1>3 DEF DiskInv
<1>6. Calm
  BY <1>1, <1>2, <1>3 DEF Calm, ReadsDestroyed, SameEnd
<1>. QED BY <1>4, <1>5, <1>6 DEF World

-----------------------------------------------------------------------------
(* The host and its program.                                               *)

\* The shutdown that the host begins changes no record of an end.
LEMMA ShutdownKeeps ==
  ASSUME World, NEW queue \in Seq({"start", "shutdown", "exit"}), BeginShutdown(queue),
         phase \notin {"boot", "dead"}, inflight' \in {NoWrite, inflight},
         inflight' # NoWrite => queue # <<>>,
         listening' \in {"no", "yes", "closed", "never"},
         phase' = phase \/ (phase = "spawned" /\ phase' = "up"),
         phase = "spawned" => phase' = "up",
         UNCHANGED <<disk, named, nature, program, wroteTerminal, wasDestroying>>
  PROVE  World' /\ Calm
<1>1. /\ UNCHANGED <<folder, manifest, marker, named, token, shield, program, wroteTerminal, wasDestroying>>
      /\ phase' \in {"up", "exiting", "persisting", "closing"} /\ phase # "dead"
  BY DEF disk, nature, World, SessionTypes
<1>2. /\ owed' \in {queue, Append(queue, "shutdown")} /\ shut' = TRUE
      /\ timer' \in {TRUE, timer}
      /\ status' = status \/ (status = "running" /\ status' = "destroying")
  BY DEF BeginShutdown
<1>3. owed' \in Seq({"start", "shutdown", "exit"}) /\ (queue # <<>> => owed' # <<>>)
  BY <1>2
<1>4. NoWrite \in Copies /\ NoWrite.status = "none"
  BY DEF NoWrite, Copies
<1>5. SessionTypes'
  <2>1. status' \in Active \cup Terminal /\ inflight' \in Copies /\ timer' \in BOOLEAN
    BY <1>2, <1>4 DEF World, SessionTypes, Active
  <2>. QED BY <1>1, <1>2, <1>3, <2>1 DEF World, SessionTypes
<1>6. status \in Terminal => status' = status
  BY <1>2 DEF Terminal
<1>7. WriterInv'
  BY <1>1, <1>3, <1>4, <1>6 DEF World, WriterInv, Terminal
<1>8. StatusInv'
  BY <1>1, <1>2 DEF World, StatusInv, GroupAlive, Terminal
<1>. QED BY <1>1, <1>5, <1>7, <1>8, BookKeeping

\* A rename that lands is that of a session which nobody has sealed.
LEMMA WriteLandsKeeps ==
  ASSUME World, EndManifestWrite
  PROVE  World' /\ Calm
<1>1. /\ inflight # NoWrite /\ manifest' = inflight /\ folder
      /\ named' = (named \/ (~token /\ inflight.child))
      /\ wroteTerminal' = (inflight.status \in Terminal)
      /\ owed' = Tail(owed) /\ inflight' = NoWrite
      /\ UNCHANGED <<folder, marker, token, shield, program, phase, status, timer, shut,
                     listening, wasDestroying>>
  BY DEF EndManifestWrite, nature
<1>2. ~Sealed /\ owed # <<>> /\ phase \notin {"boot", "spawned", "dead"}
  BY <1>1 DEF World, WriterInv, Sealed
<1>3. /\ inflight.child /\ inflight.status \in Active \cup Terminal
      /\ inflight.status # "failed"
  BY <1>1 DEF World, WriterInv, Active, Terminal
<1>4. NoWrite \in Copies /\ NoWrite.status = "none" /\ "none" \notin Terminal
  BY DEF NoWrite, Copies, Terminal
<1>5. SessionTypes'
  <2>1. manifest' \in ManifestRecords
    BY <1>1, <1>3 DEF World, SessionTypes, Copies, ManifestRecords
  <2>2. owed' \in Seq({"start", "shutdown", "exit"})
    BY <1>1, <1>2 DEF World, SessionTypes
  <2>. QED BY <1>1, <1>4, <2>1, <2>2 DEF World, SessionTypes
<1>6. WriterInv'
  BY <1>1, <1>2, <1>4 DEF World, WriterInv
<1>7. StatusInv'
  BY <1>1 DEF World, StatusInv, GroupAlive
<1>8. DiskInv'
  <2>1. manifest'.status \in Terminal => Sealed' /\ LeaderOver'
    BY <1>1 DEF World, WriterInv, StatusInv, Sealed, LeaderOver
  <2>2. manifest'.status \in {"failed", "destroyed"} => Over'
    BY <1>1, <1>3 DEF World, WriterInv, StatusInv, Over, GroupAlive
  <2>3. folder' /\ ~marker' /\ manifest'.child
    BY <1>1, <1>2, <1>3 DEF World, DiskInv
  <2>. QED BY <2>1, <2>2, <2>3 DEF DiskInv
<1>9. Calm
  <2>1. ~ReadsDestroyed /\ manifest.status \notin Terminal /\ ~marker /\ phase # "dead"
    BY <1>2 DEF World, DiskInv, ReadsDestroyed, Terminal
  <2>. QED BY <1>1, <1>2, <2>1 DEF Calm
<1>. QED BY <1>5, <1>6, <1>7, <1>8, <1>9 DEF World

\* Every step of the host and of its program keeps what the files say true.
LEMMA HostKeeps ==
  ASSUME World, HostNext
  PROVE  World' /\ Calm
<1> USE DEF World, disk, nature, hostVars, writer
<1>n. NoWrite \in Copies /\ NoWrite.status = "none" /\ "none" \notin Terminal
  BY DEF NoWrite, Copies, Terminal
<1>1. CASE LeaderExits \/ OrphansEnd
  BY <1>1, ShrinkKeeps DEF LeaderExits, OrphansEnd, GroupAlive, SessionTypes
<1>2. CASE KillTimerFires
  BY <1>2, ShrinkKeeps, KilledIsLess DEF KillTimerFires
<1>3. CASE EndManifestWrite
  BY <1>3, WriteLandsKeeps
<1>4. CASE BeginManifestWrite
  <2>1. CASE wroteTerminal
    <3>1. owed' = Tail(owed) /\ owed # <<>> /\ owed' \in Seq({"start", "shutdown", "exit"})
      BY <1>4, <2>1 DEF BeginManifestWrite, SessionTypes
    <3>2. SessionTypes'
      BY <1>4, <2>1, <3>1 DEF BeginManifestWrite, SessionTypes
    <3>3. WriterInv' /\ StatusInv'
      BY <1>4, <2>1, <3>1 DEF BeginManifestWrite, WriterInv, StatusInv, GroupAlive
    <3>. QED BY <1>4, <3>2, <3>3, BookKeeping DEF BeginManifestWrite
  <2>2. CASE ~wroteTerminal
    <3>1. inflight' = Snapshot /\ Snapshot.status = status /\ phase \notin {"boot", "spawned", "dead"}
      BY <1>4, <2>2 DEF BeginManifestWrite, Snapshot, WriterInv
    <3>2. Snapshot \in Copies /\ Snapshot.child
      BY <3>1 DEF Snapshot, SessionTypes, Copies
    <3>3. SessionTypes'
      BY <1>4, <2>2, <3>1, <3>2 DEF BeginManifestWrite, SessionTypes
    <3>4. status \in Active \cup {"exited", "destroyed"}
      BY DEF SessionTypes, StatusInv, Active, Terminal
    <3>5. WriterInv'
      BY <1>4, <2>2, <3>1, <3>2, <3>4 DEF BeginManifestWrite, WriterInv
    <3>6. StatusInv'
      BY <1>4, <2>2 DEF BeginManifestWrite, StatusInv, GroupAlive
    <3>. QED BY <1>4, <3>3, <3>5, <3>6, BookKeeping DEF BeginManifestWrite
  <2>. QED BY <2>1, <2>2
<1>5. CASE ManifestWriteFails
  <2>1. /\ owed # <<>> /\ Tail(owed) \in Seq({"start", "shutdown", "exit"}) /\ inflight' = NoWrite
        /\ phase \notin {"boot", "spawned", "dead"}
    BY <1>5 DEF ManifestWriteFails, WriterInv, SessionTypes
  <2>2. CASE Head(owed) = "start"
    BY <1>5, <2>1, <2>2, ShutdownKeeps DEF ManifestWriteFails, SessionTypes
  <2>3. CASE Head(owed) # "start"
    <3>1. SessionTypes'
      BY <1>5, <2>1, <2>3, <1>n DEF ManifestWriteFails, SessionTypes
    <3>2. WriterInv' /\ StatusInv'
      BY <1>5, <2>1, <2>3, <1>n DEF ManifestWriteFails, WriterInv, StatusInv, GroupAlive
    <3>. QED BY <1>5, <2>3, <3>1, <3>2, BookKeeping DEF ManifestWriteFails
  <2>. QED BY <2>2, <2>3
<1>6. CASE Spawn
  <2>1. ~Sealed /\ ~named /\ phase = "boot" /\ status = "running"
    BY <1>6 DEF Spawn, WriterInv, Sealed
  <2>2. SessionTypes' /\ WriterInv'
    BY <1>6, <2>1 DEF Spawn, SessionTypes, WriterInv
  <2>3. StatusInv' /\ DiskInv'
    BY <1>6, <2>1 DEF Spawn, StatusInv, DiskInv, Terminal, Sealed, Over
  <2>4. Calm
    BY <1>6, <2>1 DEF Spawn, Calm, ReadsDestroyed, SameEnd
  <2>. QED BY <2>2, <2>3, <2>4
<1>7. CASE WriteProgram
  <2>1. /\ ~Sealed /\ ~named /\ phase = "spawned" /\ phase' = "up" /\ owed = <<>> /\ status = "running"
        /\ inflight = NoWrite /\ inflight' = NoWrite /\ listening = "no"
    BY <1>7 DEF WriteProgram, WriterInv, Sealed
  <2>2. CASE named' = token /\ owed' = <<"start">> /\ UNCHANGED <<status, timer, shut, listening>>
    <3>1. <<"start">> \in Seq({"start", "shutdown", "exit"}) /\ <<"start">> # <<>>
      OBVIOUS
    <3>2. SessionTypes' /\ WriterInv'
      BY <1>7, <2>1, <2>2, <3>1 DEF WriteProgram, SessionTypes, WriterInv
    <3>3. StatusInv'
      BY <1>7, <2>1, <2>2 DEF WriteProgram, StatusInv, GroupAlive
    <3>4. manifest.status \notin Terminal /\ ~marker /\ folder /\ ~Sealed' /\ (token => ~(~token))
      BY <1>7, <2>1 DEF WriteProgram, DiskInv, Sealed
    <3>5. DiskInv'
      BY <1>7, <2>1, <2>2, <3>4 DEF WriteProgram, DiskInv, Terminal
    <3>6. Calm
      BY <1>7, <2>1, <3>4 DEF WriteProgram, Calm, ReadsDestroyed, SameEnd, Terminal
    <3>. QED BY <3>2, <3>3, <3>5, <3>6
  <2>3. CASE UNCHANGED named /\ BeginShutdown(<<>>) /\ listening' = "never"
    <3>1. <<>> \in Seq({"start", "shutdown", "exit"})
      OBVIOUS
    <3>. QED BY <1>7, <2>1, <2>3, <3>1, ShutdownKeeps DEF WriteProgram
  <2>. QED BY <1>7, <2>2, <2>3 DEF WriteProgram
<1>8. CASE FinishStart
  <2>1. CASE UNCHANGED <<status, timer, shut, owed>> /\ listening' = "yes"
    <3>1. SessionTypes' /\ WriterInv' /\ StatusInv'
      BY <1>8, <2>1 DEF FinishStart, SessionTypes, WriterInv, StatusInv, GroupAlive
    <3>. QED BY <1>8, <3>1, BookKeeping DEF FinishStart
  <2>2. CASE BeginShutdown(owed) /\ listening' = "never"
    BY <1>8, <2>2, ShutdownKeeps DEF FinishStart, SessionTypes, WriterInv
  <2>. QED BY <1>8, <2>1, <2>2 DEF FinishStart
<1>9. CASE ToldToStop
  BY <1>9, ShutdownKeeps DEF ToldToStop, SessionTypes, WriterInv
<1>10. CASE IdleHangUp
  <2>1. SessionTypes' /\ WriterInv' /\ StatusInv'
    BY <1>10 DEF IdleHangUp, SessionTypes, WriterInv, StatusInv, GroupAlive
  <2>. QED BY <1>10, <2>1, BookKeeping DEF IdleHangUp
<1>11. CASE HandlePtyExit
  <2>1. /\ program \in {"orphans", "gone"} /\ program' \in {"orphans", "gone"}
        /\ program = "gone" => program' = "gone"
        /\ phase = "up" /\ phase' = "exiting" /\ timer' = FALSE /\ wasDestroying' \in BOOLEAN
        /\ status' \in {status, "exited"} /\ status \notin Terminal
    <3>1. program' \in {program, Killed} /\ program \in {"orphans", "gone"} /\ phase = "up"
      BY <1>11 DEF HandlePtyExit
    <3>2. Killed \in {"orphans", "gone"} /\ (program = "gone" => Killed = "gone")
      BY <3>1, KilledIsLess DEF GroupAlive
    <3>3. status \notin Terminal
      BY <3>1 DEF StatusInv
    <3>. QED BY <1>11, <3>1, <3>2, <3>3 DEF HandlePtyExit
  <2>2. UNCHANGED <<folder, manifest, marker, named, token, shield, shut, listening, owed,
                    inflight, wroteTerminal>>
    BY <1>11 DEF HandlePtyExit
  <2>3. (Over => Over') /\ (LeaderOver => LeaderOver') /\ (~GroupAlive => ~GroupAlive')
    BY <2>1, <2>2 DEF Over, LeaderOver, GroupAlive
  <2>4. SessionTypes'
    <3>1. status' \in Active \cup Terminal
      BY <2>1 DEF SessionTypes, Terminal
    <3>. QED BY <2>1, <2>2, <3>1 DEF SessionTypes
  <2>5. inflight.status \notin Terminal /\ ~wroteTerminal
    BY <2>1 DEF WriterInv
  <2>6. WriterInv'
    BY <2>1, <2>2, <2>5 DEF WriterInv, Terminal
  <2>7. StatusInv'
    BY <2>1, <2>3 DEF StatusInv
  <2>8. Sealed' = Sealed
    BY <2>1, <2>2 DEF Sealed
  <2>9. DiskInv'
    BY <2>2, <2>3, <2>8, <2>1 DEF DiskInv
  <2>10. Calm
    BY <2>1, <2>2, <2>3, <2>8 DEF Calm, ReadsDestroyed, SameEnd
  <2>. QED BY <2>4, <2>6, <2>7, <2>9, <2>10
<1>12. CASE SettleExit
  <2>1. /\ phase = "exiting" /\ phase' = "persisting" /\ owed' = Append(owed, "exit")
        /\ status' = status \/ (status' = "destroyed" /\ ~GroupAlive)
    BY <1>12 DEF SettleExit
  <2>2. owed' # <<>> /\ owed' \in Seq({"start", "shutdown", "exit"})
    BY <2>1 DEF SessionTypes
  <2>3. SessionTypes'
    BY <1>12, <2>1, <2>2 DEF SettleExit, SessionTypes, Terminal
  <2>4. WriterInv'
    BY <1>12, <2>1, <2>2 DEF SettleExit, WriterInv, Terminal
  <2>5. StatusInv'
    BY <1>12, <2>1 DEF SettleExit, StatusInv, GroupAlive
  <2>. QED BY <1>12, <2>1, <2>3, <2>4, <2>5, BookKeeping DEF SettleExit
<1>13. CASE ExitPersisted \/ CloseSocket \/ HostExits
  <2>1. SessionTypes'
    <3>1. UNCHANGED <<folder, manifest, marker, named, token, shield, program, status, timer,
                      owed, inflight, wroteTerminal, wasDestroying>>
      BY <1>13 DEF ExitPersisted, CloseSocket, HostExits
    <3>2. /\ phase' \in {"boot", "spawned", "up", "exiting", "persisting", "closing", "dead"}
          /\ shut' \in BOOLEAN /\ listening' \in {"no", "yes", "closed", "never"}
      BY <1>13 DEF ExitPersisted, CloseSocket, HostExits, SessionTypes
    <3>. QED BY <3>1, <3>2 DEF SessionTypes
  <2>2. WriterInv' /\ StatusInv'
    BY <1>13 DEF ExitPersisted, CloseSocket, HostExits, WriterInv, StatusInv, GroupAlive
  <2>. QED BY <1>13, <2>1, <2>2, BookKeeping DEF ExitPersisted, CloseSocket, HostExits
<1>15. CASE HostCrash
  <2>1. <<>> \in Seq({"start", "shutdown", "exit"})
    OBVIOUS
  <2>2. SessionTypes'
    <3>1. /\ phase' = "dead" /\ listening' = "closed" /\ owed' = <<>> /\ inflight' = NoWrite
          /\ timer' = FALSE
          /\ UNCHANGED <<folder, manifest, marker, named, token, shield, program, status,
                         shut, wroteTerminal, wasDestroying>>
      BY <1>15 DEF HostCrash, HostGone
    <3>. QED BY <2>1, <3>1, <1>n, ZenonT(60) DEF SessionTypes
  <2>3. WriterInv' /\ StatusInv'
    BY <1>15, <1>n DEF HostCrash, HostGone, WriterInv, StatusInv, GroupAlive
  <2>. QED BY <1>15, <2>2, <2>3, BookKeeping DEF HostCrash, HostGone
<1>. QED
  BY <1>1, <1>2, <1>3, <1>4, <1>5, <1>6, <1>7, <1>8, <1>9, <1>10, <1>11, <1>12, <1>13, <1>15
  DEF HostNext, HostWrites, HostWorks

-----------------------------------------------------------------------------
(* The commands.                                                           *)

\* Places at which a command claims nothing.
Plain ==
  {"idle", "start", "ask-host", "await-end", "reread", "check", "judge-host",
   "look-for-marker", "gc-start", "gc-reread", "failed", "done", "removed"}

\* What a command keeps of the copy: it, none, or the manifest.
KeepsCopy(p) == cmd'[p].copy \in {cmd[p].copy, NoWrite, manifest}

\* The others stay where they are.
OthersWait(p) == \A q \in Commands : q # p => cmd'[q] = cmd[q]

\* Where a command goes, with what it has.
LEMMA Going ==
  ASSUME TypeOK, NEW p \in Commands
  PROVE  /\ \A pc \in Places : Goto(p, pc) =>
              /\ cmd' \in [Commands -> CommandRecords]
              /\ cmd'[p].pc = pc /\ KeepsCopy(p) /\ OthersWait(p)
              /\ pc \notin Final => /\ cmd'[p].copy = cmd[p].copy /\ cmd'[p].group = cmd[p].group
                                    /\ cmd'[p].round = cmd[p].round
         /\ \A pc \in Places \ Final : GotoWithCopy(p, pc) =>
              /\ cmd' \in [Commands -> CommandRecords]
              /\ cmd'[p].pc = pc /\ KeepsCopy(p) /\ OthersWait(p)
              /\ cmd'[p].copy = manifest /\ cmd'[p].round = cmd[p].round
<1>1. cmd \in [Commands -> CommandRecords] /\ cmd[p] \in CommandRecords /\ SessionTypes
  BY TypesSplit
<1>2. NoWrite \in Copies /\ manifest \in Copies
  BY <1>1 DEF NoWrite, Copies, SessionTypes, ManifestRecords
<1>3. ASSUME NEW pc \in Places, Goto(p, pc)
      PROVE  /\ cmd' \in [Commands -> CommandRecords]
             /\ cmd'[p].pc = pc /\ KeepsCopy(p) /\ OthersWait(p)
             /\ pc \notin Final => /\ cmd'[p].copy = cmd[p].copy /\ cmd'[p].group = cmd[p].group
                                   /\ cmd'[p].round = cmd[p].round
  <2> DEFINE new == [(IF pc \in Final THEN Ready ELSE cmd[p]) EXCEPT !.pc = pc]
  <2>1. Ready \in CommandRecords /\ Ready.copy = NoWrite
    BY <1>2 DEF Ready, CommandRecords, Places
  <2>2. new \in CommandRecords /\ new.pc = pc /\ new.copy \in {cmd[p].copy, NoWrite}
    BY <1>1, <2>1 DEF CommandRecords
  <2>3. pc \notin Final => new.copy = cmd[p].copy /\ new.group = cmd[p].group /\ new.round = cmd[p].round
    BY <1>1 DEF CommandRecords
  <2>4. cmd' = [cmd EXCEPT ![p] = new]
    BY <1>3 DEF Goto
  <2> HIDE DEF new
  <2>5. cmd' \in [Commands -> CommandRecords] /\ cmd'[p] = new /\ OthersWait(p)
    BY <1>1, <2>2, <2>4 DEF OthersWait
  <2>. QED BY <2>2, <2>3, <2>5 DEF KeepsCopy
<1>4. ASSUME NEW pc \in Places \ Final, GotoWithCopy(p, pc)
      PROVE  /\ cmd' \in [Commands -> CommandRecords]
             /\ cmd'[p].pc = pc /\ KeepsCopy(p) /\ OthersWait(p)
             /\ cmd'[p].copy = manifest /\ cmd'[p].round = cmd[p].round
  <2> DEFINE new == [cmd[p] EXCEPT !.pc = pc, !.copy = manifest]
  <2>1. new \in CommandRecords /\ new.pc = pc /\ new.copy = manifest /\ new.round = cmd[p].round
    BY <1>1, <1>2 DEF CommandRecords
  <2>2. cmd' = [cmd EXCEPT ![p] = new]
    BY <1>4 DEF GotoWithCopy
  <2> HIDE DEF new
  <2>3. cmd' \in [Commands -> CommandRecords] /\ cmd'[p] = new /\ OthersWait(p)
    BY <1>1, <2>1, <2>2 DEF OthersWait
  <2>. QED BY <2>1, <2>3 DEF KeepsCopy
<1>. QED BY <1>3, <1>4

\* The same for a step that sets several fields.
Becomes(p, new) == cmd' = [cmd EXCEPT ![p] = new]

LEMMA Becoming ==
  ASSUME TypeOK, NEW p \in Commands, NEW new \in CommandRecords, Becomes(p, new)
  PROVE  cmd' \in [Commands -> CommandRecords] /\ cmd'[p] = new /\ OthersWait(p)
<1>1. cmd \in [Commands -> CommandRecords]
  BY TypesSplit
<1>. QED BY <1>1 DEF Becomes, OthersWait

\* The places of commands, by whether they end there.
LEMMA PlacesAre ==
  /\ Plain \subseteq Places /\ "destroyed" \in Places
  /\ {"leftovers", "await-leftovers", "find", "kill", "await-death", "read-final", "record",
      "write-destroyed", "repair", "judge-host", "check-again", "stop-group", "await-group",
      "read-latest", "write-end", "look-for-marker", "ask-host", "gc-judge", "gc-final",
      "gc-remove"} \subseteq Places \ Final
  /\ {"start", "gc-start", "check"} \subseteq Places \ Final
BY DEF Plain, Places, Final

\* After its reconcile a command claims nothing.
LEMMA ReconcileLeadsOn == \A p \in Commands : AfterReconcile(p) \in Plain /\ AfterReconcile(p) \in Places
BY DEF AfterReconcile, Plain, Places, Final

\* A calm step leaves the others their knowledge.
LEMMA OthersKnow ==
  ASSUME Calm, NEW q \in Commands, CommandInv(q), cmd'[q] = cmd[q]
  PROVE  CommandInv(q)'
<1>1. ReconcileInv(q)'
  BY DEF CommandInv, ReconcileInv, Calm, At, Ending, Sealed
<1>2. DestroyInv(q)'
  BY DEF CommandInv, DestroyInv, Calm, At, Sealed
<1>3. GcInv(q)'
  BY DEF CommandInv, GcInv, Calm, At
<1>4. CopyInv(q)'
  BY DEF CommandInv, CopyInv, Calm
<1>. QED BY <1>1, <1>2, <1>3, <1>4 DEF CommandInv

\* A copy that was true stays true, and one that is made now is true.
LEMMA CopiesAreTrue ==
  ASSUME World, Calm, NEW p \in Commands, CopyInv(p), KeepsCopy(p)
  PROVE  CopyInv(p)'
<1>1. CASE cmd'[p].copy = cmd[p].copy
  BY <1>1 DEF CopyInv, Calm
<1>2. CASE cmd'[p].copy = NoWrite
  BY <1>2 DEF CopyInv, NoWrite
<1>3. CASE cmd'[p].copy = manifest
  BY <1>3 DEF CopyInv, Calm, World, DiskInv, ReadsDestroyed, Terminal
<1>. QED BY <1>1, <1>2, <1>3 DEF KeepsCopy

\* Who claims nothing has only its copy.
LEMMA PlainKnows ==
  ASSUME World, Calm, NEW p \in Commands, CopyInv(p), KeepsCopy(p), cmd'[p].pc \in Plain
  PROVE  CommandInv(p)'
<1>1. CopyInv(p)'
  BY CopiesAreTrue
<1>2. ReconcileInv(p)' /\ DestroyInv(p)' /\ GcInv(p)'
  BY DEF ReconcileInv, DestroyInv, GcInv, At, Ending, Plain
<1>. QED BY <1>1, <1>2 DEF CommandInv

\* Together: what a step of a command has to show.
LEMMA CommandKeeps ==
  ASSUME SessionInv, NEW p \in Commands, World', Calm, cmd' \in [Commands -> CommandRecords],
         KeepsCopy(p), OthersWait(p),
         cmd'[p].pc \in Plain \/ (ReconcileInv(p)' /\ DestroyInv(p)' /\ GcInv(p)')
  PROVE  SessionInv' /\ Calm
<1>1. World /\ \A q \in Commands : CommandInv(q)
  BY TypesSplit DEF SessionInv, World
<1>2. CopyInv(p) /\ CopyInv(p)'
  BY <1>1, CopiesAreTrue DEF CommandInv
<1>3. CommandInv(p)'
  BY <1>1, <1>2, PlainKnows DEF CommandInv
<1>4. \A q \in Commands : CommandInv(q)'
  BY <1>1, <1>3, OthersKnow DEF OthersWait
<1>5. TypeOK'
  BY TypesSplit DEF World, TypeOK, SessionTypes, CommandRecords, ManifestRecords
<1>. QED BY <1>4, <1>5 DEF SessionInv, World

\* What every step of a command starts from.
LEMMA CommandBegins ==
  ASSUME SessionInv, NEW p \in Commands
  PROVE  /\ World /\ TypeOK /\ CommandInv(p) /\ cmd[p] \in CommandRecords
         /\ ReconcileInv(p) /\ DestroyInv(p) /\ GcInv(p) /\ CopyInv(p)
BY TypesSplit DEF SessionInv, World, CommandInv

\* A reconcile writes an end only for a dead host whose program is over, and the
\* same end as every other reconcile of that session.
LEMMA ReconcileKeeps ==
  ASSUME SessionInv, NEW p \in Commands, ReconcileStep(p)
  PROVE  SessionInv' /\ Calm
<1>0. /\ World /\ TypeOK /\ CommandInv(p) /\ cmd[p] \in CommandRecords
      /\ ReconcileInv(p) /\ CopyInv(p)
  BY CommandBegins
<1>a. AfterReconcile(p) \in Plain /\ AfterReconcile(p) \in Places
  BY ReconcileLeadsOn
<1>q. Quiet => World' /\ Calm
  BY <1>0, QuietKeeps
<1>1. CASE Check(p)
  <2>1. CASE Goto(p, AfterReconcile(p))
    BY <1>0, <1>a, <1>q, <1>1, <2>1, Going, CommandKeeps DEF Check
  <2>2. CASE GotoWithCopy(p, "repair") /\ marker
    <3>1. World' /\ Calm /\ marker' /\ cmd'[p].pc = "repair"
      BY <1>0, <1>q, <1>1, <2>2, Going, PlacesAre DEF Check, Calm
    <3>2. ReconcileInv(p)' /\ DestroyInv(p)' /\ GcInv(p)'
      BY <3>1 DEF ReconcileInv, DestroyInv, GcInv, At, Ending
    <3>. QED BY <1>0, <2>2, <3>1, <3>2, Going, PlacesAre, CommandKeeps
  <2>3. CASE GotoWithCopy(p, "judge-host")
    <3>1. "judge-host" \in Plain
      BY DEF Plain
    <3>. QED BY <1>0, <1>q, <1>1, <2>3, <3>1, Going, PlacesAre, CommandKeeps DEF Check
  <2>. QED BY <1>1, <2>1, <2>2, <2>3 DEF Check
<1>2. CASE Repair(p)
  <2>1. World' /\ Calm
    <3>1. CASE folder
      <4>1. marker /\ Sealed /\ Over /\ WriteManifest("destroyed", FALSE)
        BY <1>0, <1>2, <3>1 DEF Repair, ReconcileInv, World, DiskInv
      <4>. QED BY <1>0, <4>1, EndIsWritten DEF Terminal
    <3>2. CASE ~folder
      BY <1>2, <3>2, <1>q DEF Repair
    <3>. QED BY <3>1, <3>2
  <2>2. Goto(p, AfterReconcile(p))
    BY <1>2 DEF Repair
  <2>. QED BY <1>0, <1>a, <2>1, <2>2, Going, CommandKeeps
<1>3. CASE JudgeHost(p)
  <2>1. CASE Goto(p, AfterReconcile(p))
    BY <1>0, <1>a, <1>q, <1>3, <2>1, Going, CommandKeeps DEF JudgeHost
  <2>2. CASE Goto(p, "check-again") /\ phase = "dead"
    <3>1. World' /\ Calm /\ phase' = "dead" /\ cmd'[p].pc = "check-again"
      BY <1>0, <1>q, <1>3, <2>2, Going, PlacesAre DEF JudgeHost, Calm
    <3>2. ReconcileInv(p)' /\ DestroyInv(p)' /\ GcInv(p)'
      BY <3>1 DEF ReconcileInv, DestroyInv, GcInv, At, Ending
    <3>. QED BY <1>0, <2>2, <3>1, <3>2, Going, PlacesAre, CommandKeeps
  <2>. QED BY <1>3, <2>1, <2>2 DEF JudgeHost
<1>4. CASE CheckAgain(p)
  <2>1. CASE Goto(p, AfterReconcile(p))
    BY <1>0, <1>a, <1>q, <1>4, <2>1, Going, CommandKeeps DEF CheckAgain
  <2>2. CASE GotoWithCopy(p, "stop-group") /\ manifest.status \notin Terminal
    <3>1. /\ World' /\ Calm /\ cmd'[p].pc = "stop-group" /\ cmd'[p].copy = manifest
          /\ phase = "dead" /\ (~token /\ named => manifest.child)
      BY <1>0, <1>q, <1>4, <2>2, Going, PlacesAre
      DEF CheckAgain, World, DiskInv, ReconcileInv, At, Ending
    <3>2. phase' = "dead" /\ named' = named /\ token' = token
      BY <3>1 DEF Calm, Sealed
    <3>3. ReconcileInv(p)' /\ DestroyInv(p)' /\ GcInv(p)'
      BY <3>1, <3>2 DEF ReconcileInv, DestroyInv, GcInv, At, Ending
    <3>. QED BY <1>0, <2>2, <3>1, <3>3, Going, PlacesAre, CommandKeeps
  <2>. QED BY <1>4, <2>1, <2>2 DEF CheckAgain
<1>5. CASE StopGroup(p)
  <2> DEFINE g == FindsGroup(cmd[p].copy.child)
             new == [cmd[p] EXCEPT !.pc = "await-group", !.group = g]
  <2>1. g \in BOOLEAN
    BY <1>0 DEF FindsGroup, World, SessionTypes, CommandRecords, Copies
  <2>2. /\ new \in CommandRecords /\ new.pc = "await-group" /\ new.group = g
        /\ new.copy = cmd[p].copy
    BY <1>0, <2>1, PlacesAre DEF CommandRecords
  <2>3. Becomes(p, new)
    BY <1>0, <1>5 DEF StopGroup, Becomes, CommandRecords
  <2>4. phase = "dead" /\ (g \/ Over)
    BY <1>0, <1>5 DEF StopGroup, ReconcileInv, At, Ending, FindsGroup, World, DiskInv, Over
  <2>5. World' /\ Calm
    BY <1>0, <1>5, KillKeeps DEF StopGroup
  <2> HIDE DEF g, new
  <2>6. cmd' \in [Commands -> CommandRecords] /\ cmd'[p] = new /\ OthersWait(p) /\ KeepsCopy(p)
    BY <1>0, <2>2, <2>3, Becoming DEF KeepsCopy
  <2>7. phase' = "dead" /\ (g \/ Over')
    BY <2>4, <2>5 DEF Calm, Sealed
  <2>8. ReconcileInv(p)' /\ DestroyInv(p)' /\ GcInv(p)'
    BY <2>2, <2>6, <2>7 DEF ReconcileInv, DestroyInv, GcInv, At, Ending
  <2>. QED BY <2>5, <2>6, <2>8, CommandKeeps
<1>6. CASE AwaitGroup(p)
  <2>1. CASE Goto(p, AfterReconcile(p))
    BY <1>0, <1>a, <1>q, <1>6, <2>1, Going, CommandKeeps DEF AwaitGroup
  <2>2. CASE Goto(p, "read-latest") /\ ~(cmd[p].group /\ GroupAlive)
    <3>1. World' /\ Calm /\ cmd'[p].pc = "read-latest" /\ phase = "dead" /\ Over
      BY <1>0, <1>q, <1>6, <2>2, Going, PlacesAre, OverMeans
      DEF AwaitGroup, ReconcileInv, At, Ending
    <3>2. phase' = "dead" /\ Over'
      BY <3>1 DEF Calm, Sealed
    <3>3. ReconcileInv(p)' /\ DestroyInv(p)' /\ GcInv(p)'
      BY <3>1, <3>2 DEF ReconcileInv, DestroyInv, GcInv, At, Ending
    <3>. QED BY <1>0, <2>2, <3>1, <3>3, Going, PlacesAre, CommandKeeps
  <2>. QED BY <1>6, <2>1, <2>2 DEF AwaitGroup
<1>7. CASE ReadLatest(p)
  <2>1. CASE Goto(p, AfterReconcile(p))
    BY <1>0, <1>a, <1>q, <1>7, <2>1, Going, CommandKeeps DEF ReadLatest
  <2>2. CASE GotoWithCopy(p, "write-end") /\ manifest.status \notin Terminal
    <3>1. /\ World' /\ Calm /\ cmd'[p].pc = "write-end" /\ cmd'[p].copy = manifest
          /\ phase = "dead" /\ Over
      BY <1>0, <1>q, <1>7, <2>2, Going, PlacesAre DEF ReadLatest, ReconcileInv, At, Ending
    <3>2. manifest.status \in Active /\ SameEnd(manifest.status)
      BY <1>0, <2>2 DEF World, SessionTypes, ManifestRecords, SameEnd
    <3>3. phase' = "dead" /\ Over' /\ manifest'.status = manifest.status /\ (marker => marker')
      BY <1>7, <3>1 DEF Calm, Sealed, ReadLatest, Quiet, sessionVars, disk
    <3>5. ReconcileInv(p)'
      BY <3>1, <3>2, <3>3 DEF ReconcileInv, At, Ending, SameEnd
    <3>6. DestroyInv(p)' /\ GcInv(p)'
      BY <3>1 DEF DestroyInv, GcInv, At
    <3>. QED BY <1>0, <2>2, <3>1, <3>5, <3>6, Going, PlacesAre, CommandKeeps
  <2>. QED BY <1>7, <2>1, <2>2 DEF ReadLatest
<1>8. CASE WriteEnd(p)
  <2>1. World' /\ Calm
    <3>1. CASE folder
      <4> DEFINE st == cmd[p].copy.status
      <4>1. st \in Active /\ SameEnd(st) /\ Over /\ phase = "dead"
        BY <1>0, <1>8 DEF WriteEnd, ReconcileInv, At, Ending
      <4>2. WriteManifest(EndOf(st), FALSE)
        BY <1>8, <3>1 DEF WriteEnd
      <4> HIDE DEF st
      <4>3. EndOf(st) \in Terminal /\ Sealed
        BY <4>1, EndsAreEnds DEF Sealed
      <4>4. ReadsDestroyed => EndOf(st) = "destroyed" \/ marker
        BY <4>1, EndsAreEnds DEF SameEnd, ReadsDestroyed, Active, Terminal
      <4>5. \A c \in Active : SameEnd(c) => EndOf(st) \in {c, EndOf(c)} \/ marker
        BY <4>1, EndsAreEnds DEF SameEnd
      <4>. QED BY <1>0, <4>1, <4>2, <4>3, <4>4, <4>5, EndIsWritten
    <3>2. CASE ~folder
      BY <1>8, <3>2, <1>q DEF WriteEnd
    <3>. QED BY <3>1, <3>2
  <2>2. Goto(p, AfterReconcile(p)) \/ Goto(p, "look-for-marker")
    BY <1>8 DEF WriteEnd
  <2>3. "look-for-marker" \in Plain /\ "look-for-marker" \in Places
    BY PlacesAre DEF Plain
  <2>. QED BY <1>0, <1>a, <2>1, <2>2, <2>3, Going, CommandKeeps
<1>9. CASE LookForMarker(p)
  <2>1. CASE Goto(p, AfterReconcile(p))
    BY <1>0, <1>a, <1>q, <1>9, <2>1, Going, CommandKeeps DEF LookForMarker
  <2>2. CASE Goto(p, "repair") /\ marker
    <3>1. World' /\ Calm /\ marker' /\ cmd'[p].pc = "repair"
      BY <1>0, <1>q, <1>9, <2>2, Going, PlacesAre DEF LookForMarker, Calm
    <3>2. ReconcileInv(p)' /\ DestroyInv(p)' /\ GcInv(p)'
      BY <3>1 DEF ReconcileInv, DestroyInv, GcInv, At, Ending
    <3>. QED BY <1>0, <2>2, <3>1, <3>2, Going, PlacesAre, CommandKeeps
  <2>. QED BY <1>9, <2>1, <2>2 DEF LookForMarker
<1>. QED BY <1>1, <1>2, <1>3, <1>4, <1>5, <1>6, <1>7, <1>8, <1>9 DEF ReconcileStep

\* The host is killed, and the group that was found with it.
LEMMA DeathKeeps ==
  ASSUME World, program' \in {program, Killed},
         HostGone \/ (phase = "dead" /\ UNCHANGED <<phase, listening, owed, inflight, timer>>),
         UNCHANGED <<disk, named, nature, status, shut, wroteTerminal, wasDestroying>>
  PROVE  World' /\ Calm /\ phase' = "dead"
<1>1. /\ program' \in {"none", "running", "orphans", "gone"}
      /\ program # "running" => program' # "running"
      /\ ~GroupAlive => program' \notin {"running", "orphans"}
  BY KilledIsLess DEF World, SessionTypes, GroupAlive
<1>2. /\ UNCHANGED <<folder, manifest, marker, named, token, shield, status, shut,
                     wroteTerminal, wasDestroying>>
      /\ phase' = "dead"
  BY DEF disk, nature, HostGone
<1>3. /\ owed' = <<>> /\ inflight' = NoWrite /\ timer' \in BOOLEAN
      /\ listening' \in {"no", "closed", "never"}
  BY DEF HostGone, World, WriterInv, SessionTypes
<1>4. <<>> \in Seq({"start", "shutdown", "exit"}) /\ NoWrite \in Copies /\ NoWrite.status = "none"
  BY DEF NoWrite, Copies
<1>5. (Over => Over') /\ (LeaderOver => LeaderOver')
  BY <1>1, <1>2 DEF Over, LeaderOver, GroupAlive
<1>6. SessionTypes'
  BY <1>1, <1>2, <1>3, <1>4 DEF World, SessionTypes
<1>7. WriterInv'
  BY <1>2, <1>3, <1>4 DEF World, WriterInv, Terminal
<1>8. StatusInv'
  BY <1>1, <1>2 DEF World, StatusInv, GroupAlive
<1>9. DiskInv'
  BY <1>2, <1>5 DEF World, DiskInv, Sealed
<1>10. Calm
  BY <1>1, <1>2, <1>5 DEF Calm, Sealed, ReadsDestroyed, SameEnd
<1>. QED BY <1>2, <1>6, <1>7, <1>8, <1>9, <1>10 DEF World

\* The marker is left, or the folder removed, when the session is over.
LEMMA LastStepsKeep ==
  ASSUME World, Sealed, Over,
         UNCHANGED <<manifest, named, nature, program, hostVars>>,
         \/ marker' = TRUE /\ folder' = folder
         \/ marker' = marker /\ folder' = FALSE /\ manifest.status \in Terminal
  PROVE  World' /\ Calm /\ (marker => marker')
<1>1. /\ UNCHANGED <<manifest, named, token, shield, program, phase, status, timer, shut,
                     listening, owed, inflight, wroteTerminal, wasDestroying>>
      /\ folder' \in BOOLEAN /\ marker' \in BOOLEAN /\ (marker => marker')
  BY DEF nature, hostVars, writer, World, SessionTypes
<1>2. Sealed' /\ Over' /\ LeaderOver' = LeaderOver
  BY <1>1 DEF Sealed, Over, LeaderOver, GroupAlive
<1>3. SessionTypes'
  BY <1>1 DEF World, SessionTypes
<1>4. WriterInv' /\ StatusInv' /\ DiskInv'
  BY <1>1, <1>2 DEF World, WriterInv, StatusInv, DiskInv, GroupAlive
<1>5. Calm
  BY <1>1, <1>2 DEF Calm, ReadsDestroyed, SameEnd
<1>. QED BY <1>1, <1>3, <1>4, <1>5 DEF World

\* A destroy records only an end that is sealed and over.
LEMMA DestroyKeeps ==
  ASSUME SessionInv, NEW p \in Commands, DestroyStep(p)
  PROVE  SessionInv' /\ Calm
<1>0. /\ World /\ TypeOK /\ CommandInv(p) /\ cmd[p] \in CommandRecords
      /\ DestroyInv(p) /\ CopyInv(p)
  BY CommandBegins
<1>q. Quiet => World' /\ Calm
  BY <1>0, QuietKeeps
<1>m. manifest \in Copies
  BY <1>0 DEF World, SessionTypes, ManifestRecords, Copies
<1>f. ASSUME Goto(p, "failed"), World', Calm PROVE SessionInv' /\ Calm
  <2>1. "failed" \in Plain /\ "failed" \in Places
    BY PlacesAre DEF Plain
  <2>. QED BY <1>0, <1>f, <2>1, Going, CommandKeeps
<1>c. ASSUME Goto(p, "check"), World', Calm PROVE SessionInv' /\ Calm
  <2>1. "check" \in Plain /\ "check" \in Places
    BY PlacesAre DEF Plain
  <2>. QED BY <1>0, <1>c, <2>1, Going, CommandKeeps
<1>l. ASSUME GotoWithCopy(p, "leftovers"), Quiet, manifest.status \in Terminal PROVE SessionInv' /\ Calm
  <2>1. World' /\ Calm /\ cmd'[p].pc = "leftovers" /\ Sealed /\ LeaderOver
    BY <1>0, <1>q, <1>l, Going, PlacesAre DEF World, DiskInv
  <2>2. Sealed' /\ LeaderOver'
    BY <2>1 DEF Calm
  <2>3. ReconcileInv(p)' /\ DestroyInv(p)' /\ GcInv(p)'
    BY <2>1, <2>2 DEF ReconcileInv, DestroyInv, GcInv, At, Ending
  <2>. QED BY <1>0, <1>l, <2>1, <2>3, Going, PlacesAre, CommandKeeps
<1>1. CASE DestroyStart(p)
  <2>1. CASE Goto(p, "failed")
    BY <1>q, <1>f, <1>1, <2>1 DEF DestroyStart
  <2>2. CASE GotoWithCopy(p, "leftovers") /\ manifest.status \in {"exited", "failed"}
    BY <1>l, <1>1, <2>2 DEF DestroyStart, Terminal
  <2>3. CASE cmd' = [cmd EXCEPT ![p].pc = "find", ![p].copy = manifest, ![p].round = 1]
    <3> DEFINE new == [cmd[p] EXCEPT !.pc = "find", !.copy = manifest, !.round = 1]
    <3>1. /\ new \in CommandRecords /\ new.pc = "find" /\ new.round = 1 /\ new.copy = manifest
      <4>1. "find" \in Places /\ 1 \in 0 .. 2
        BY PlacesAre
      <4>. QED BY <1>0, <1>m, <4>1 DEF CommandRecords
    <3>2. Becomes(p, new)
      BY <1>0, <2>3 DEF Becomes, CommandRecords
    <3> HIDE DEF new
    <3>3. cmd' \in [Commands -> CommandRecords] /\ cmd'[p] = new /\ OthersWait(p) /\ KeepsCopy(p)
      BY <1>0, <3>1, <3>2, Becoming DEF KeepsCopy
    <3>4. ReconcileInv(p)' /\ DestroyInv(p)' /\ GcInv(p)'
      BY <3>1, <3>3 DEF ReconcileInv, DestroyInv, GcInv, At, Ending
    <3>. QED BY <1>q, <1>1, <3>3, <3>4, CommandKeeps DEF DestroyStart
  <2>4. CASE GotoWithCopy(p, "ask-host")
    <3>1. "ask-host" \in Plain
      BY DEF Plain
    <3>. QED BY <1>0, <1>q, <1>1, <2>4, <3>1, Going, PlacesAre, CommandKeeps DEF DestroyStart
  <2>. QED BY <1>1, <2>1, <2>2, <2>3, <2>4 DEF DestroyStart
<1>2. CASE AskHost(p)
  <2>1. CASE listening = "yes"
    <3>1. phase \notin {"boot", "spawned", "dead"} /\ BeginShutdown(owed)
      BY <1>0, <1>2, <2>1 DEF AskHost, World, WriterInv
    <3>2. World' /\ Calm
      BY <1>0, <1>2, <2>1, <3>1, ShutdownKeeps DEF AskHost, World, SessionTypes, WriterInv
    <3>3. {"await-end", "failed"} \subseteq Plain /\ {"await-end", "failed"} \subseteq Places
      BY PlacesAre DEF Plain
    <3>4. Goto(p, "await-end") \/ Goto(p, "failed")
      BY <1>2, <2>1 DEF AskHost
    <3>. QED BY <1>0, <3>2, <3>3, <3>4, Going, CommandKeeps
  <2>2. CASE listening # "yes"
    BY <1>2, <1>q, <1>c, <2>2 DEF AskHost
  <2>. QED BY <2>1, <2>2
<1>3. CASE AwaitEnd(p)
  BY <1>3, <1>q, <1>f, <1>c, <1>l DEF AwaitEnd
<1>4. CASE Reread(p)
  BY <1>4, <1>q, <1>f, <1>l DEF Reread
<1>5. CASE Leftovers(p)
  <2> DEFINE g == FindsProvenGroup
             new == [cmd[p] EXCEPT !.pc = "await-leftovers", !.group = g]
  <2>1. g \in BOOLEAN
    BY <1>0 DEF FindsProvenGroup, World, SessionTypes
  <2>2. /\ new \in CommandRecords /\ new.pc = "await-leftovers" /\ new.group = g
        /\ new.copy = cmd[p].copy
    BY <1>0, <2>1, PlacesAre DEF CommandRecords
  <2>3. Becomes(p, new)
    BY <1>0, <1>5 DEF Leftovers, Becomes, CommandRecords
  <2>4. Sealed /\ LeaderOver /\ (g \/ Over)
    BY <1>0, <1>5 DEF Leftovers, DestroyInv, At, FindsProvenGroup, World, DiskInv, Over, LeaderOver
  <2>5. World' /\ Calm
    BY <1>0, <1>5, KillKeeps DEF Leftovers
  <2> HIDE DEF g, new
  <2>6. cmd' \in [Commands -> CommandRecords] /\ cmd'[p] = new /\ OthersWait(p) /\ KeepsCopy(p)
    BY <1>0, <2>2, <2>3, Becoming DEF KeepsCopy
  <2>7. Sealed' /\ LeaderOver' /\ (g \/ Over')
    BY <2>4, <2>5 DEF Calm
  <2>8. ReconcileInv(p)' /\ DestroyInv(p)' /\ GcInv(p)'
    BY <2>2, <2>6, <2>7 DEF ReconcileInv, DestroyInv, GcInv, At, Ending
  <2>. QED BY <2>5, <2>6, <2>8, CommandKeeps
<1>r. ASSUME Goto(p, "record"), Quiet, Sealed, Over PROVE SessionInv' /\ Calm
  <2>1. World' /\ Calm /\ cmd'[p].pc = "record"
    BY <1>0, <1>q, <1>r, Going, PlacesAre
  <2>2. Sealed' /\ Over'
    BY <1>r, <2>1 DEF Calm
  <2>3. ReconcileInv(p)' /\ DestroyInv(p)' /\ GcInv(p)'
    BY <2>1, <2>2 DEF ReconcileInv, DestroyInv, GcInv, At, Ending
  <2>. QED BY <1>0, <1>r, <2>1, <2>3, Going, PlacesAre, CommandKeeps
<1>6. CASE AwaitLeftovers(p)
  <2>1. CASE cmd[p].group /\ GroupAlive
    BY <1>6, <1>q, <1>f, <2>1 DEF AwaitLeftovers
  <2>2. CASE ~(cmd[p].group /\ GroupAlive)
    <3>1. Sealed /\ Over
      BY <1>0, <1>6, <2>2, OverMeans DEF AwaitLeftovers, DestroyInv, At
    <3>. QED BY <1>6, <1>r, <2>2, <3>1 DEF AwaitLeftovers
  <2>. QED BY <2>1, <2>2
<1>7. CASE FindGroup(p)
  <2> DEFINE g == FindsGroup(cmd[p].copy.child)
             new == [cmd[p] EXCEPT !.pc = "kill", !.group = g]
  <2>1. g \in BOOLEAN
    BY <1>0 DEF FindsGroup, World, SessionTypes, CommandRecords, Copies
  <2>2. /\ new \in CommandRecords /\ new.pc = "kill" /\ new.group = g
        /\ new.copy = cmd[p].copy /\ new.round = cmd[p].round
    BY <1>0, <2>1, PlacesAre DEF CommandRecords
  <2>3. Becomes(p, new)
    BY <1>0, <1>7 DEF FindGroup, Becomes, CommandRecords
  <2>4. cmd[p].round # 1 => phase = "dead" /\ (g \/ Over)
    BY <1>0, <1>7 DEF FindGroup, DestroyInv, At, FindsGroup, World, DiskInv, Over
  <2>5. World' /\ Calm
    BY <1>7, <1>q DEF FindGroup
  <2> HIDE DEF g, new
  <2>6. cmd' \in [Commands -> CommandRecords] /\ cmd'[p] = new /\ OthersWait(p) /\ KeepsCopy(p)
    BY <1>0, <2>2, <2>3, Becoming DEF KeepsCopy
  <2>7. cmd[p].round # 1 => phase' = "dead" /\ (g \/ Over')
    BY <2>4, <2>5 DEF Calm, Sealed
  <2>8. ReconcileInv(p)' /\ DestroyInv(p)' /\ GcInv(p)'
    BY <2>2, <2>6, <2>7 DEF ReconcileInv, DestroyInv, GcInv, At, Ending
  <2>. QED BY <2>5, <2>6, <2>8, CommandKeeps
<1>8. CASE KillSession(p)
  <2>1. World' /\ Calm /\ phase' = "dead"
    BY <1>0, <1>8, DeathKeeps DEF KillSession
  <2>2. Goto(p, "await-death") /\ At(p, "kill")
    BY <1>8 DEF KillSession
  <2>3. /\ cmd'[p].pc = "await-death" /\ cmd'[p].group = cmd[p].group /\ cmd'[p].round = cmd[p].round
    BY <1>0, <2>2, Going, PlacesAre
  <2>4. cmd[p].round # 1 => cmd[p].group \/ Over'
    BY <1>0, <2>1, <2>2 DEF DestroyInv, At, Calm, Sealed
  <2>5. ReconcileInv(p)' /\ DestroyInv(p)' /\ GcInv(p)'
    BY <2>1, <2>3, <2>4 DEF ReconcileInv, DestroyInv, GcInv, At, Ending
  <2>. QED BY <1>0, <2>1, <2>2, <2>5, Going, PlacesAre, CommandKeeps
<1>9. CASE AwaitDeath(p)
  <2>0. phase = "dead" /\ At(p, "await-death") /\ Quiet
    BY <1>0, <1>9 DEF AwaitDeath, DestroyInv
  <2>1. CASE Goto(p, "failed")
    BY <1>q, <1>f, <2>0, <2>1
  <2>2. CASE Goto(p, "read-final")
    <3>1. World' /\ Calm /\ cmd'[p].pc = "read-final" /\ phase' = "dead"
      BY <1>0, <1>q, <2>0, <2>2, Going, PlacesAre DEF Calm
    <3>2. ReconcileInv(p)' /\ DestroyInv(p)' /\ GcInv(p)'
      BY <3>1 DEF ReconcileInv, DestroyInv, GcInv, At, Ending
    <3>. QED BY <1>0, <2>2, <3>1, <3>2, Going, PlacesAre, CommandKeeps
  <2>3. CASE Goto(p, "record") /\ ~(cmd[p].group /\ GroupAlive) /\ cmd[p].round # 1
    <3>1. Sealed /\ Over
      BY <1>0, <2>0, <2>3, OverMeans DEF DestroyInv, At, Sealed
    <3>. QED BY <1>r, <2>0, <2>3, <3>1
  <2>. QED BY <1>9, <2>1, <2>2, <2>3 DEF AwaitDeath
<1>10. CASE ReadFinal(p)
  <2>1. CASE Goto(p, "failed")
    BY <1>q, <1>f, <1>10, <2>1 DEF ReadFinal
  <2>2. CASE cmd' = [cmd EXCEPT ![p].pc = "find", ![p].copy = manifest, ![p].round = 2]
    <3> DEFINE new == [cmd[p] EXCEPT !.pc = "find", !.copy = manifest, !.round = 2]
    <3>1. /\ new \in CommandRecords /\ new.pc = "find" /\ new.round = 2 /\ new.copy = manifest
      <4>1. "find" \in Places /\ 2 \in 0 .. 2
        BY PlacesAre
      <4>. QED BY <1>0, <1>m, <4>1 DEF CommandRecords
    <3>2. Becomes(p, new)
      BY <1>0, <2>2 DEF Becomes, CommandRecords
    <3> HIDE DEF new
    <3>3. cmd' \in [Commands -> CommandRecords] /\ cmd'[p] = new /\ OthersWait(p) /\ KeepsCopy(p)
      BY <1>0, <3>1, <3>2, Becoming DEF KeepsCopy
    <3>4. phase = "dead" /\ (~token /\ named => manifest.child \/ program # "running")
      BY <1>0, <1>10 DEF ReadFinal, DestroyInv, At, World, DiskInv, LeaderOver
    <3>5. World' /\ Calm
      BY <1>q, <1>10 DEF ReadFinal
    <3>6. /\ phase' = "dead" /\ named' = named /\ token' = token
          /\ (program # "running" => program' # "running")
      BY <3>4, <3>5 DEF Calm, Sealed
    <3>7. ReconcileInv(p)' /\ DestroyInv(p)' /\ GcInv(p)'
      BY <3>1, <3>3, <3>4, <3>6 DEF ReconcileInv, DestroyInv, GcInv, At, Ending
    <3>. QED BY <3>3, <3>5, <3>7, CommandKeeps
  <2>. QED BY <1>10, <2>1, <2>2 DEF ReadFinal
<1>d. ASSUME Goto(p, "destroyed"), World', Calm, Sealed', Over', ReadsDestroyed' PROVE SessionInv' /\ Calm
  <2>1. cmd'[p].pc = "destroyed"
    BY <1>0, <1>d, Going, PlacesAre
  <2>2. ReconcileInv(p)' /\ DestroyInv(p)' /\ GcInv(p)'
    BY <1>d, <2>1 DEF ReconcileInv, DestroyInv, GcInv, At, Ending
  <2>. QED BY <1>0, <1>d, <2>2, Going, PlacesAre, CommandKeeps
<1>11. CASE Record(p)
  <2>0. Sealed /\ Over
    BY <1>0, <1>11 DEF Record, DestroyInv
  <2>1. CASE Goto(p, "destroyed") /\ Quiet /\ cmd[p].copy.status = "destroyed"
    <3>1. World' /\ Calm /\ ReadsDestroyed
      BY <1>0, <1>q, <2>1 DEF CopyInv
    <3>. QED BY <1>d, <2>0, <2>1, <3>1 DEF Calm
  <2>2. CASE /\ marker' = TRUE /\ Goto(p, "write-destroyed")
             /\ UNCHANGED <<folder, manifest, named, nature, program, hostVars>>
    <3>1. World' /\ Calm /\ marker' /\ cmd'[p].pc = "write-destroyed"
      BY <1>0, <2>0, <2>2, LastStepsKeep, Going, PlacesAre
    <3>2. ReconcileInv(p)' /\ DestroyInv(p)' /\ GcInv(p)'
      BY <3>1 DEF ReconcileInv, DestroyInv, GcInv, At, Ending
    <3>. QED BY <1>0, <2>2, <3>1, <3>2, Going, PlacesAre, CommandKeeps
  <2>3. CASE Goto(p, "failed") /\ Quiet
    BY <1>q, <1>f, <2>3
  <2>. QED BY <1>11, <2>1, <2>2, <2>3 DEF Record
<1>12. CASE WriteDestroyed(p)
  <2>1. CASE folder
    <3>1. /\ marker /\ Sealed /\ Over /\ WriteManifest("destroyed", cmd[p].copy.child)
          /\ cmd[p].copy.child \in BOOLEAN /\ Goto(p, "destroyed")
      BY <1>0, <1>12, <2>1 DEF WriteDestroyed, DestroyInv, World, DiskInv, CommandRecords, Copies
    <3>2. World' /\ Calm
      BY <1>0, <3>1, EndIsWritten DEF Terminal
    <3>3. ReadsDestroyed'
      BY <3>1 DEF WriteManifest, ReadsDestroyed
    <3>. QED BY <1>d, <3>1, <3>2, <3>3 DEF Calm
  <2>2. CASE ~folder
    BY <1>12, <1>q, <1>f, <2>2 DEF WriteDestroyed
  <2>. QED BY <2>1, <2>2
<1>. QED BY <1>1, <1>2, <1>3, <1>4, <1>5, <1>6, <1>7, <1>8, <1>9, <1>10, <1>11, <1>12 DEF DestroyStep

\* gc removes the folder only of a sealed session whose program is over.
LEMMA GcKeeps ==
  ASSUME SessionInv, NEW p \in Commands, GcStep(p)
  PROVE  SessionInv' /\ Calm
<1>0. /\ World /\ TypeOK /\ CommandInv(p) /\ cmd[p] \in CommandRecords
      /\ GcInv(p) /\ CopyInv(p)
  BY CommandBegins
<1>q. Quiet => World' /\ Calm
  BY <1>0, QuietKeeps
<1>p. ASSUME NEW pc \in Plain, Goto(p, pc), World', Calm PROVE SessionInv' /\ Calm
  BY <1>0, <1>p, Going, PlacesAre, CommandKeeps
<1>d. "done" \in Plain /\ "check" \in Plain /\ "removed" \in Plain
  BY DEF Plain
<1>1. CASE GcStart(p)
  BY <1>1, <1>q, <1>p, <1>d DEF GcStart
<1>2. CASE GcReread(p)
  <2>1. CASE Goto(p, "done")
    BY <1>2, <1>q, <1>p, <1>d, <2>1 DEF GcReread
  <2>2. CASE /\ manifest.status \in Terminal
             /\ \/ GotoWithCopy(p, "gc-final") /\ manifest.status = "destroyed"
                \/ GotoWithCopy(p, "gc-judge")
    <3>1. World' /\ Calm /\ Sealed
      BY <1>0, <1>2, <1>q, <2>2 DEF GcReread, World, DiskInv
    <3>2. /\ \/ cmd'[p].pc = "gc-final" /\ Over
             \/ cmd'[p].pc = "gc-judge"
          /\ cmd' \in [Commands -> CommandRecords] /\ KeepsCopy(p) /\ OthersWait(p)
      BY <1>0, <2>2, Going, PlacesAre DEF World, DiskInv
    <3>3. Sealed' /\ manifest'.status \in Terminal /\ (Over => Over')
      BY <2>2, <3>1 DEF Calm
    <3>4. ReconcileInv(p)' /\ DestroyInv(p)' /\ GcInv(p)'
      BY <3>2, <3>3 DEF ReconcileInv, DestroyInv, GcInv, At, Ending
    <3>. QED BY <3>1, <3>2, <3>4, CommandKeeps
  <2>. QED BY <1>2, <2>1, <2>2 DEF GcReread
<1>g. ASSUME Goto(p, "gc-final") \/ Goto(p, "gc-remove"), Quiet,
             Sealed, manifest.status \in Terminal, Over
      PROVE  SessionInv' /\ Calm
  <2>1. World' /\ Calm /\ Sealed' /\ Over' /\ manifest'.status \in Terminal
    BY <1>q, <1>g DEF Calm
  <2>2. /\ cmd'[p].pc \in {"gc-final", "gc-remove"}
        /\ cmd' \in [Commands -> CommandRecords] /\ KeepsCopy(p) /\ OthersWait(p)
    BY <1>0, <1>g, Going, PlacesAre
  <2>3. ReconcileInv(p)' /\ DestroyInv(p)' /\ GcInv(p)'
    BY <2>1, <2>2 DEF ReconcileInv, DestroyInv, GcInv, At, Ending
  <2>. QED BY <2>1, <2>2, <2>3, CommandKeeps
<1>3. CASE GcJudge(p)
  <2>1. CASE Goto(p, "done")
    BY <1>3, <1>q, <1>p, <1>d, <2>1 DEF GcJudge
  <2>2. CASE Goto(p, "gc-final") /\ ~(FindsProvenGroup /\ GroupAlive)
    <3>1. Sealed /\ manifest.status \in Terminal /\ LeaderOver
      BY <1>0, <1>3 DEF GcJudge, GcInv, At, World, DiskInv
    <3>2. Over
      BY <1>0, <2>2, <3>1 DEF FindsProvenGroup, Over, LeaderOver, World, DiskInv
    <3>. QED BY <1>3, <1>g, <2>2, <3>1, <3>2 DEF GcJudge
  <2>. QED BY <1>3, <2>1, <2>2 DEF GcJudge
<1>4. CASE GcFinal(p)
  <2>1. Sealed /\ manifest.status \in Terminal /\ Over
    BY <1>0, <1>4 DEF GcFinal, GcInv, At
  <2>. QED BY <1>4, <1>g, <2>1 DEF GcFinal
<1>5. CASE GcRemove(p)
  <2>1. Sealed /\ Over /\ manifest.status \in Terminal
    BY <1>0, <1>5 DEF GcRemove, GcInv, At
  <2>2. World' /\ Calm
    BY <1>0, <1>5, <2>1, LastStepsKeep DEF GcRemove
  <2>. QED BY <1>5, <1>p, <1>d, <2>2 DEF GcRemove
<1>. QED BY <1>1, <1>2, <1>3, <1>4, <1>5 DEF GcStep

\* A command that starts, or fails, claims nothing.
LEMMA BeginAndFailKeep ==
  ASSUME SessionInv, NEW p \in Commands, Begin(p) \/ CommandFails(p)
  PROVE  SessionInv' /\ Calm
<1>0. /\ World /\ TypeOK /\ cmd[p] \in CommandRecords
      /\ cmd \in [Commands -> CommandRecords]
  BY CommandBegins, TypesSplit
<1>1. World' /\ Calm
  BY <1>0, QuietKeeps DEF Begin, CommandFails
<1>2. CASE Begin(p)
  <2>1. PICK op \in Operations :
          cmd' = [cmd EXCEPT ![p].op = op,
                             ![p].pc = IF op \in {"destroy", "force"} THEN "start" ELSE
                                       IF op = "gc" THEN "gc-start" ELSE "check"]
    BY <1>2 DEF Begin
  <2> DEFINE pc == IF op \in {"destroy", "force"} THEN "start" ELSE
                   IF op = "gc" THEN "gc-start" ELSE "check"
             new == [cmd[p] EXCEPT !.op = op, !.pc = pc]
  <2>2. pc \in Plain /\ pc \in Places
    BY DEF Plain, Places
  <2>3. op \in AllOperations
    BY OperationsAssumption
  <2>4. Becomes(p, new)
    BY <1>0, <2>1 DEF Becomes
  <2> HIDE DEF pc
  <2>5. new \in CommandRecords /\ new.pc = pc /\ new.copy = cmd[p].copy
    BY <1>0, <2>2, <2>3 DEF CommandRecords
  <2> HIDE DEF new
  <2>6. cmd' \in [Commands -> CommandRecords] /\ cmd'[p] = new /\ OthersWait(p) /\ KeepsCopy(p)
    BY <1>0, <2>4, <2>5, Becoming DEF KeepsCopy
  <2>. QED BY <1>1, <2>2, <2>5, <2>6, CommandKeeps
<1>3. CASE CommandFails(p)
  <2>1. "failed" \in Plain /\ "failed" \in Places
    BY PlacesAre DEF Plain
  <2>. QED BY <1>0, <1>1, <1>3, <2>1, Going, CommandKeeps DEF CommandFails
<1>. QED BY <1>2, <1>3

\* A new session, and one whose host died long ago, with no command at work.
LEMMA InitHolds == Init => SessionInv
<1> SUFFICES ASSUME Init PROVE SessionInv
  OBVIOUS
<1>n. NoWrite \in Copies /\ NoWrite.status = "none" /\ "none" \notin Terminal
  BY DEF NoWrite, Copies, Terminal
<1>1. SessionTypes
  <2>1. manifest \in ManifestRecords
    <3>1. {"running", "exiting"} \subseteq Active \cup Terminal
      BY DEF Active
    <3>2. \/ manifest = [status |-> "running", child |-> FALSE]
          \/ manifest = [status |-> "exiting", child |-> TRUE]
      BY DEF Init, SessionInit
    <3>3. "running" \in Active \cup Terminal /\ "exiting" \in Active \cup Terminal
      BY <3>1
    <3>4. CASE manifest = [status |-> "running", child |-> FALSE]
      BY <3>3, <3>4 DEF ManifestRecords
    <3>5. CASE manifest = [status |-> "exiting", child |-> TRUE]
      BY <3>3, <3>5 DEF ManifestRecords
    <3>. QED BY <3>2, <3>4, <3>5
  <2>2. owed \in Seq({"start", "shutdown", "exit"}) /\ inflight \in Copies
    BY <1>n DEF Init, SessionInit
  <2>3. /\ phase \in {"boot", "dead"} /\ status \in Active
        /\ program \in {"none", "orphans", "gone"} /\ listening \in {"no", "closed"}
    BY DEF Init, SessionInit, Active
  <2>. QED BY <2>1, <2>2, <2>3 DEF Init, SessionInit, SessionTypes
<1>2. WriterInv /\ StatusInv /\ DiskInv
  <2>1. /\ folder /\ ~marker /\ owed = <<>> /\ inflight = NoWrite /\ ~wroteTerminal
        /\ listening # "yes" /\ status \in {"running", "exiting"} /\ manifest.status = status
    BY DEF Init, SessionInit
  <2>2. \/ phase = "boot" /\ ~named /\ listening = "no" /\ status = "running"
        \/ phase = "dead" /\ manifest.child
    BY DEF Init, SessionInit
  <2>. QED BY <1>n, <2>1, <2>2 DEF WriterInv, StatusInv, DiskInv, Terminal
<1>3. \A p \in Commands : cmd[p] = Ready
  BY DEF Init
<1>4. Ready \in CommandRecords /\ Ready.pc = "idle" /\ Ready.copy = NoWrite
  BY <1>n DEF Ready, CommandRecords, Places
<1>5. TypeOK
  BY <1>1, <1>4, TypesSplit DEF Init
<1>6. ASSUME NEW p \in Commands PROVE CommandInv(p)
  <2>1. cmd[p].pc = "idle" /\ cmd[p].copy.status = "none"
    BY <1>n, <1>3, <1>4
  <2>. QED
    BY <2>1 DEF CommandInv, ReconcileInv, DestroyInv, GcInv, CopyInv, At, Ending
<1>. QED BY <1>2, <1>5, <1>6 DEF SessionInv

\* Every step, of whomever, keeps what is known of the session, and takes
\* nothing back of what commands found out.
LEMMA StepHolds == SessionInv /\ [Next]_vars => SessionInv' /\ Calm
<1> SUFFICES ASSUME SessionInv, [Next]_vars PROVE SessionInv' /\ Calm
  OBVIOUS
<1>0. World /\ cmd \in [Commands -> CommandRecords]
  BY TypesSplit DEF SessionInv, World
<1>s. ASSUME World', Calm, cmd' = cmd PROVE SessionInv' /\ Calm
  <2>1. \A q \in Commands : CommandInv(q)'
    BY <1>s, OthersKnow DEF SessionInv
  <2>2. TypeOK'
    BY <1>0, <1>s DEF World, TypeOK, SessionTypes, CommandRecords, ManifestRecords
  <2>. QED BY <1>s, <2>1, <2>2 DEF SessionInv, World
<1>1. CASE HostNext /\ UNCHANGED cmd
  BY <1>0, <1>1, <1>s, HostKeeps
<1>2. CASE \E p \in Commands : Begin(p) \/ CommandStep(p) \/ CommandFails(p)
  BY <1>2, ReconcileKeeps, DestroyKeeps, GcKeeps, BeginAndFailKeep DEF CommandStep
<1>3. CASE UNCHANGED vars
  BY <1>0, <1>3, <1>s, QuietKeeps DEF vars, Quiet
<1>. QED BY <1>1, <1>2, <1>3 DEF Next

\* What is known of a session holds however its host, its program and its
\* commands run, crash and race.
THEOREM SessionHolds == SafeSpec => []SessionInv
BY InitHolds, StepHolds, PTL DEF SafeSpec

-----------------------------------------------------------------------------
(* What readers may rely on.                                               *)

\* A session that reads failed or destroyed has no program left that its files
\* name, whatever crashed before it was recorded.
THEOREM AnEndIsTheEnd == SafeSpec => []EndedMeansOver
<1>1. SessionInv => EndedMeansOver
  BY DEF SessionInv, DiskInv, EndedMeansOver
<1>. QED BY <1>1, SessionHolds, PTL

\* A destroy that reported success stays true: of the host, another destroy and
\* any number of reconciles none brings the session back.
THEOREM ADestroyHolds == SafeSpec => []ReportedDestroyHolds
<1>1. SessionInv => ReportedDestroyHolds
  BY DEF SessionInv, CommandInv, DestroyInv, ReportedDestroyHolds
<1>. QED BY <1>1, SessionHolds, PTL

\* gc removes no folder of a session that its host works for or whose program
\* runs, although its checks and its removal are steps apart.
THEOREM GcIsSafe == SafeSpec => []GcSparesTheLiving
<1>1. SessionInv => GcSparesTheLiving
  BY DEF SessionInv, DiskInv, WriterInv, Sealed, GcSparesTheLiving
<1>. QED BY <1>1, SessionHolds, PTL

\* No late write of the host replaces an end that is on disk.
THEOREM TheHostLeavesEnds == SafeSpec => HostNeverRewritesTheEnd
<1>1. SessionInv /\ inflight # NoWrite => manifest.status \in Active
  <2> SUFFICES ASSUME SessionInv, inflight # NoWrite PROVE manifest.status \in Active
    OBVIOUS
  <2>1. ~Sealed
    BY DEF SessionInv, WriterInv, Sealed
  <2>. QED BY <2>1 DEF SessionInv, DiskInv, TypeOK
<1>2. SessionInv /\ [Next]_vars =>
        [inflight # NoWrite /\ inflight' = NoWrite /\ manifest' # manifest =>
           manifest.status \in Active]_vars
  BY <1>1
<1>. QED BY <1>2, SessionHolds, PTL DEF SafeSpec, HostNeverRewritesTheEnd

\* A step of the session, as readers see it, is one that the contract allows.
LEMMA StepsAreAllowed ==
  SessionInv /\ SessionInv' /\ Calm => [Contract!Next]_(Contract!vars)
<1> SUFFICES ASSUME SessionInv, SessionInv', Calm PROVE [Contract!Next]_(Contract!vars)
  OBVIOUS
<1> USE DEF Contract!Next, Contract!vars
<1>0. DiskInv /\ DiskInv' /\ folder \in BOOLEAN /\ folder' \in BOOLEAN
  BY DEF SessionInv, TypeOK
<1>b. Over \in BOOLEAN /\ Over' \in BOOLEAN
  BY DEF Over
<1>1. CASE ~folder
  <2>1. ~folder' /\ Over /\ Over'
    BY <1>0, <1>1 DEF Calm, DiskInv
  <2>2. Outcome' = Outcome /\ Over' = Over
    BY <1>1, <2>1, <1>b DEF Outcome
  <2>. QED BY <2>2
<1>2. CASE folder /\ ~folder'
  <2>1. Over /\ Over' /\ manifest.status \in Terminal
    BY <1>0, <1>2 DEF Calm, DiskInv
  <2>2. Outcome \in {"ended", "destroyed"} /\ Outcome' = "removed"
    BY <1>2, <2>1 DEF Outcome
  <2>. QED BY <2>1, <2>2 DEF Contract!Remove
<1>3. CASE folder /\ folder' /\ ReadsDestroyed
  <2>1. ReadsDestroyed' /\ Over /\ Over'
    BY <1>0, <1>3 DEF Calm, DiskInv, ReadsDestroyed
  <2>2. Outcome' = Outcome /\ Over' = Over
    BY <1>3, <2>1, <1>b DEF Outcome
  <2>. QED BY <2>2
<1>4. CASE folder /\ folder' /\ ~ReadsDestroyed /\ ReadsDestroyed'
  <2>1. Over'
    BY <1>0, <1>4 DEF DiskInv, ReadsDestroyed
  <2>2. Outcome \in {"active", "ended"} /\ Outcome' = "destroyed"
    BY <1>4 DEF Outcome
  <2>. QED BY <2>1, <2>2 DEF Contract!Destroy
<1>5. CASE /\ folder /\ folder' /\ ~ReadsDestroyed /\ ~ReadsDestroyed'
           /\ manifest.status \in Terminal
  <2>1. Outcome = "ended" /\ Outcome' = "ended" /\ (Over => Over')
    BY <1>0, <1>5 DEF Outcome, Calm, DiskInv
  <2>. QED BY <2>1, <1>b DEF Contract!ProgramChanges
<1>6. CASE /\ folder /\ folder' /\ ~ReadsDestroyed /\ ~ReadsDestroyed'
           /\ manifest.status \notin Terminal
  <2>1. Outcome = "active" /\ Outcome' \in {"active", "ended"}
    BY <1>6 DEF Outcome
  <2>. QED BY <2>1, <1>b DEF Contract!ProgramChanges, Contract!End
<1>. QED BY <1>0, <1>1, <1>2, <1>3, <1>4, <1>5, <1>6

\* The session keeps its contract: it ends once, and neither destroyed nor
\* removed comes before the end of the program or is taken back.
THEOREM TheContractIsKept == SafeSpec => ImplementsContract
<1>1. Init => Contract!Init
  BY DEF Init, SessionInit, Contract!Init, Outcome, ReadsDestroyed, Over, Terminal
<1>2. SessionInv /\ SessionInv' /\ [Next]_vars => [Contract!Next]_(Contract!vars)
  BY StepHolds, StepsAreAllowed
<1>. QED BY <1>1, <1>2, SessionHolds, PTL DEF SafeSpec, ImplementsContract, Contract!Spec
=============================================================================
