--------------------------- MODULE ArtifactStore ---------------------------
(***************************************************************************)
(* The files of a session's artifacts folder and the entries that list     *)
(* them: captures that publish a file and its entry under the manifest's   *)
(* lock (storage/artifactFiles.ts, storage/artifactManifest.ts), the undo  *)
(* of one (cli/commands/screenshot.ts), and default exports, which replace *)
(* their file first and take the lock for the entry alone                  *)
(* (cli/commands/record-export.ts).                                        *)
(*                                                                         *)
(* All captures want one name and all exports another: other names do not  *)
(* meet. The lock is the one of ManifestLock: one process at a time holds  *)
(* it, and that of a dead one is broken. Which of two equal entries is     *)
(* undone is left open.                                                    *)
(***************************************************************************)
EXTENDS Naturals, FiniteSets

CONSTANTS
  Captures,     \* calls of publishArtifactWithRollback, each of which may be undone
  Exports,      \* default exports
  Bytes,        \* what a file can hold
  Large,        \* the bytes of another size
  NoBytes,
  Nobody,
  MaxVariants   \* bound on the numbers behind a capture's name

Tasks == Captures \cup Exports
Variants == 1..MaxVariants

ASSUME StoreAssumption ==
  /\ Captures \cap Exports = {} /\ Nobody \notin Tasks
  /\ NoBytes \notin Bytes /\ Large \subseteq Bytes /\ MaxVariants \in Nat \ {0}

VARIABLES
  shots,     \* the bytes under a capture's name and its numbered variants
  export,    \* the file of the default exports: its bytes and who wrote it
  listed,    \* the entries for captures: variant, bytes, call
  exported,  \* the entries for exports: bytes and call
  lockedBy,  \* who holds the manifest's lock
  task       \* each call: where it is, its bytes, the variant it is at, whether
             \* it created that file, and whether its rollback found the name listed

storeVars == <<shots, export, listed, exported, lockedBy, task>>
NoFile == [bytes |-> NoBytes, by |-> Nobody]

FreshTask(b) == [pc |-> "begin", bytes |-> b, variant |-> 1, created |-> FALSE, spared |-> FALSE]

StoreInit ==
  /\ shots = [v \in Variants |-> NoBytes] /\ export = NoFile
  /\ listed = {} /\ exported = {} /\ lockedBy = Nobody
  /\ task \in [Tasks -> {FreshTask(b) : b \in Bytes}]

TaskAt(c, pc) == task[c].pc = pc
Goto(c, pc) == task' = [task EXCEPT ![c].pc = pc]
-----------------------------------------------------------------------------
(* The lock *)

AcquireLock(c, from, to) ==
  /\ TaskAt(c, from) /\ lockedBy = Nobody /\ lockedBy' = c /\ Goto(c, to)
  /\ UNCHANGED <<shots, export, listed, exported>>

\* acquireManifestLock gives up: nothing was published.
CaptureTimesOut(c) ==
  /\ c \in Captures /\ TaskAt(c, "begin") /\ lockedBy # Nobody /\ Goto(c, "failed")
  /\ UNCHANGED <<shots, export, listed, exported, lockedBy>>

Release(c) ==
  /\ \/ TaskAt(c, "release") /\ Goto(c, "done")
     \/ TaskAt(c, "give up") /\ Goto(c, "failed")
  /\ lockedBy' = Nobody
  /\ UNCHANGED <<shots, export, listed, exported>>

\* The process dies; others break its lock in time.
TaskDies(c) ==
  /\ task[c].pc \notin {"done", "failed", "dead"} /\ Goto(c, "dead")
  /\ UNCHANGED <<shots, export, listed, exported, lockedBy>>
BreakLock ==
  /\ lockedBy # Nobody /\ TaskAt(lockedBy, "dead") /\ lockedBy' = Nobody
  /\ UNCHANGED <<shots, export, listed, exported, task>>
-----------------------------------------------------------------------------
(* A capture *)

\* publishArtifactFile at one variant: create it, reuse it when it holds the
\* same bytes, or go on to the next.
Publish(c) ==
  LET v == task[c].variant IN
  /\ TaskAt(c, "publish")
  /\ \/ /\ shots[v] = NoBytes /\ shots' = [shots EXCEPT ![v] = task[c].bytes]
        /\ task' = [task EXCEPT ![c].pc = "list", ![c].created = TRUE]
     \/ shots[v] = task[c].bytes /\ Goto(c, "list") /\ UNCHANGED shots
     \/ /\ shots[v] \notin {NoBytes, task[c].bytes} /\ v < MaxVariants
        /\ task' = [task EXCEPT ![c].variant = v + 1] /\ UNCHANGED shots
  /\ UNCHANGED <<export, listed, exported, lockedBy>>

\* Publishing fails, with the file or without: no variant is free, or the disk errs.
PublishFails(c) ==
  /\ TaskAt(c, "publish") /\ Goto(c, "give up")
  /\ UNCHANGED <<shots, export, listed, exported, lockedBy>>

Entry(c) == [variant |-> task[c].variant, bytes |-> task[c].bytes, by |-> c]

List(c) ==
  /\ TaskAt(c, "list") /\ c \in Captures
  /\ listed' = listed \cup {Entry(c)} /\ Goto(c, "release")
  /\ UNCHANGED <<shots, export, exported, lockedBy>>
ListFails(c) ==
  /\ TaskAt(c, "list") /\ Goto(c, IF c \in Exports \/ task[c].created THEN "roll back" ELSE "give up")
  /\ UNCHANGED <<shots, export, listed, exported, lockedBy>>

Unlisted(v) == \A e \in listed : e.variant # v

\* removeUnlistedArtifact, with the lock: a manifest that cannot be read lists
\* nothing, and an rm that fails is passed over.
RollBackCapture(c) ==
  /\ TaskAt(c, "roll back") /\ c \in Captures
  /\ \/ shots' = [shots EXCEPT ![task[c].variant] = NoBytes]
     \/ UNCHANGED shots
  /\ Goto(c, "give up")
  /\ UNCHANGED <<export, listed, exported, lockedBy>>
-----------------------------------------------------------------------------
(* The undo of a capture *)

\* The copy to --out fails after the capture; the command takes the lock again.
BeginUndo(c) == c \in Captures /\ AcquireLock(c, "done", "undo")

\* removeArtifactEntry: an entry of that name and those bytes goes.
UndoEntry(c) ==
  /\ TaskAt(c, "undo")
  /\ LET same == {e \in listed : e.variant = task[c].variant /\ e.bytes = task[c].bytes} IN
     \/ same = {} /\ Goto(c, "give up") /\ UNCHANGED listed
     \/ \E e \in same : listed' = listed \ {e} /\ Goto(c, "undo file")
  /\ UNCHANGED <<shots, export, exported, lockedBy>>
UndoFails(c) ==
  /\ task[c].pc \in {"undo", "undo file"} /\ Goto(c, "give up")
  /\ UNCHANGED <<shots, export, listed, exported, lockedBy>>

\* Mutant: the file goes although another entry lists it.
UndoFileAnyway(c) ==
  /\ TaskAt(c, "undo file")
  /\ shots' = [shots EXCEPT ![task[c].variant] = NoBytes]
  /\ Goto(c, "give up")
  /\ UNCHANGED <<export, listed, exported, lockedBy>>

\* Then the file, when no other entry lists it.
UndoFile(c) ==
  /\ TaskAt(c, "undo file")
  /\ shots' = IF Unlisted(task[c].variant) THEN [shots EXCEPT ![task[c].variant] = NoBytes] ELSE shots
  /\ Goto(c, "give up")
  /\ UNCHANGED <<export, listed, exported, lockedBy>>
-----------------------------------------------------------------------------
(* An export *)

ExportEntry(c) == [bytes |-> task[c].bytes, by |-> c]

\* The file is renamed over the one of an earlier export.
Rename(c) ==
  /\ c \in Exports /\ TaskAt(c, "begin")
  /\ export' = ExportEntry(c) /\ Goto(c, "wait")
  /\ UNCHANGED <<shots, listed, exported, lockedBy>>

\* entriesKeptBeside: the entries of a file that this one replaced go. The
\* entry is not added when the path holds a file of another size by now.
SameSize(a, b) == (a \in Large) = (b \in Large)

\* Mutant: the earlier entries of the path go whichever file it holds now.
ListExportAlone(c) ==
  /\ TaskAt(c, "list") /\ c \in Exports
  /\ exported' = {ExportEntry(c)} /\ Goto(c, "release")
  /\ UNCHANGED <<shots, export, listed, lockedBy>>

ListExport(c) ==
  /\ TaskAt(c, "list") /\ c \in Exports
  /\ exported' = IF export = ExportEntry(c) THEN {ExportEntry(c)}
                 ELSE IF export = NoFile \/ SameSize(export.bytes, task[c].bytes)
                      THEN exported \cup {ExportEntry(c)} ELSE exported
  /\ Goto(c, "release")
  /\ UNCHANGED <<shots, export, listed, lockedBy>>

\* removeUnlistedArtifact, with the lock after a failed write or without it
\* after a wait in vain: it reads the manifest, if it can, and removes the file
\* then.
ExportTimesOut(c) ==
  /\ TaskAt(c, "wait") /\ lockedBy # Nobody /\ Goto(c, "roll back unlocked")
  /\ UNCHANGED <<shots, export, listed, exported, lockedBy>>
RollBackReads(c) ==
  /\ c \in Exports /\ task[c].pc \in {"roll back", "roll back unlocked"}
  /\ \E pc \in {IF TaskAt(c, "roll back") THEN "remove" ELSE "remove unlocked"}, seen \in {{}, exported} :
       task' = [task EXCEPT ![c].pc = pc, ![c].spared = seen # {}]
  /\ UNCHANGED <<shots, export, listed, exported, lockedBy>>
RollBackRemoves(c) ==
  /\ \/ TaskAt(c, "remove") /\ Goto(c, "give up")
     \/ TaskAt(c, "remove unlocked") /\ Goto(c, "failed")
  /\ export' = IF task[c].spared THEN export ELSE NoFile
  /\ UNCHANGED <<shots, listed, exported, lockedBy>>
-----------------------------------------------------------------------------
TaskStep(c) ==
  \/ c \in Captures /\ AcquireLock(c, "begin", "publish")
  \/ c \in Exports /\ AcquireLock(c, "wait", "list")
  \/ CaptureTimesOut(c) \/ Release(c) \/ TaskDies(c)
  \/ Publish(c) \/ PublishFails(c) \/ List(c) \/ ListFails(c) \/ RollBackCapture(c)
  \/ BeginUndo(c) \/ UndoEntry(c) \/ UndoFails(c) \/ UndoFile(c)
  \/ Rename(c) \/ ListExport(c) \/ ExportTimesOut(c) \/ RollBackReads(c) \/ RollBackRemoves(c)

StoreNext == BreakLock \/ \E c \in Tasks : TaskStep(c)
StoreSpec == StoreInit /\ [][StoreNext]_storeVars
-----------------------------------------------------------------------------
Pcs == {"begin", "wait", "publish", "list", "roll back", "roll back unlocked", "remove",
        "remove unlocked", "release", "give up", "undo", "undo file", "done", "failed", "dead"}
TaskRecord == [pc : Pcs, bytes : Bytes, variant : Variants, created : BOOLEAN, spared : BOOLEAN]

StoreTypes ==
  /\ shots \in [Variants -> Bytes \cup {NoBytes}]
  /\ export \in [bytes : Bytes \cup {NoBytes}, by : Tasks \cup {Nobody}]
  /\ listed \subseteq [variant : Variants, bytes : Bytes, by : Captures]
  /\ exported \subseteq [bytes : Bytes, by : Exports]
  /\ lockedBy \in Tasks \cup {Nobody}
  /\ task \in [Tasks -> TaskRecord]

\* An entry for a capture names a file that holds the entry's bytes, whatever
\* captures, failed writes, undos and deaths happen around it
\* (artifactFiles.ts:85, artifactManifest.ts:847).
CapturesAreKept == \A e \in listed : shots[e.variant] = e.bytes

\* An export that ended and whose file is still the one in place is listed:
\* the entry of another export, which may come late, never takes its away
\* (artifactManifest.ts:653).
ExportsAreListed ==
  \A c \in Exports : TaskAt(c, "done") /\ export.by = c => ExportEntry(c) \in exported
=============================================================================
