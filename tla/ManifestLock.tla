---------------------------- MODULE ManifestLock ----------------------------
(***************************************************************************)
(* The lock that guards a session's artifact manifest                      *)
(* (src/storage/artifactManifest.ts).  The host and any number of CLI      *)
(* processes read, change and rewrite manifest.json; a lock file made with *)
(* link() keeps them apart.  A process that dies leaves its files behind,  *)
(* so waiters break the lock of an owner that is gone, and because         *)
(* "remove the file if it still holds these bytes" is a read followed by a *)
(* removal by path, breakers first announce themselves and act one at a    *)
(* time.                                                                   *)
(*                                                                         *)
(* A writer is a process: its calls on one session run one after another   *)
(* (appendSerializer).  The token of a call stands for the bytes of its    *)
(* lock, break and temporary files and for the random id in their names.   *)
(* Each file-system call is one step, except where a comment says why two  *)
(* are taken together.  Time is the set `expired` of tokens whose files    *)
(* are more than unknownOwnerStaleMs (60 s) old.                           *)
(***************************************************************************)
EXTENDS Integers, FiniteSets

CONSTANTS
  Writers,      \* processes that update the manifest
  Dead,         \* those that died before, in the middle of their first call
  Unknown,      \* those whose liveness a reader cannot judge (judgeHost: unknown)
  MayStop,      \* those that may be stopped for over 60 s between two steps
  MaxCalls,     \* MaxCalls[w]: how many updates process w makes
  MaxCrashes    \* processes that die

ASSUME LockAssumption ==
  /\ Dead \subseteq Writers /\ Unknown \subseteq Writers /\ MayStop \subseteq Writers
  /\ MaxCalls \in [Writers -> Nat \ {0}] /\ MaxCrashes \in Nat

None == <<>>
Tokens == UNION {{w} \X (1 .. MaxCalls[w]) : w \in Writers}
Owner(t) == t[1]

VARIABLES
  lock,         \* the token in manifest.json.lock, or None
  brk,          \* the token in manifest.json.lock.break, or None
  folder,       \* does manifest.json.lock.breakers exist
  announced,    \* the tokens announced in it
  temps,        \* the tokens whose manifest.json.lock.tmp-<id> exists
  manifest,     \* the entries that manifest.json lists, by the token that added them
  recorded,     \* what the completed updates, one after another, add up to
  expired,      \* tokens whose files are more than 60 s old
  alive,        \* writers whose process runs
  pc, calls,    \* where each writer is, and how many calls it has begun
  foundTaken,   \* did this call find the lock taken
  judged,       \* the bytes a breaker or a sweeper judged, or None
  seen,         \* announcements still to look at
  snapshot,     \* the manifest as this call read it
  unreleased    \* the lock this process could not release (unreleasedLocks)

files == <<lock, brk, folder, announced, temps, expired>>
store == <<manifest, recorded>>
locals == <<foundTaken, judged, seen, snapshot, unreleased>>
vars == <<files, store, alive, pc, calls, locals>>

Token(w) == <<w, calls[w]>>

Waiting == {"link", "judge", "folder", "announce", "list", "scan", "break",
            "compareBreak", "removeBreak", "compareLock", "removeLock",
            "compareOwnBreak", "removeOwnBreak", "withdraw", "removeFolder"}
Sweeping == {"sweep", "sweepBreak", "sweepRemove", "sweepFolder"}
Section == {"read", "write", "release", "removeOwn"}
(* breakStaleManifestLock after the scan found no other breaker *)
Acting == {"break", "compareBreak", "removeBreak", "compareLock", "removeLock",
           "compareOwnBreak", "removeOwnBreak"}

TypeOK ==
  /\ lock \in Tokens \cup {None} /\ brk \in Tokens \cup {None}
  /\ folder \in BOOLEAN
  /\ announced \subseteq Tokens /\ temps \subseteq Tokens /\ expired \subseteq Tokens
  /\ manifest \subseteq Tokens /\ recorded \subseteq Tokens
  /\ alive \subseteq Writers
  /\ pc \in [Writers -> {"idle"} \cup Waiting \cup Sweeping \cup Section]
  /\ \A w \in Writers : calls[w] \in 0 .. MaxCalls[w]
  /\ foundTaken \in [Writers -> BOOLEAN]
  /\ judged \in [Writers -> Tokens \cup {None}]
  /\ seen \in [Writers -> SUBSET Tokens]
  /\ snapshot \in [Writers -> SUBSET Tokens]
  /\ unreleased \in [Writers -> Tokens \cup {None}]

(* What the dead left: a lock, a break file, announcements.                *)
Init ==
  LET left == {<<w, 1>> : w \in Dead}
  IN /\ lock \in left \cup {None}
     /\ brk \in (left \ {lock}) \cup {None}
     /\ announced \in SUBSET (left \ {lock})
     /\ folder \in BOOLEAN /\ (announced # {} => folder)
     /\ temps = left /\ expired = {}
     /\ manifest = {} /\ recorded = {}
     /\ alive = Writers \ Dead
     /\ pc = [w \in Writers |-> "idle"]
     /\ calls = [w \in Writers |-> IF w \in Dead THEN 1 ELSE 0]
     /\ foundTaken = [w \in Writers |-> FALSE]
     /\ judged = [w \in Writers |-> None]
     /\ seen = [w \in Writers |-> {}] /\ snapshot = [w \in Writers |-> {}]
     /\ unreleased = [w \in Writers |-> None]

(***************************************************************************)
(* Judgements of another writer's file.                                    *)
(***************************************************************************)
\* Mutant: an owner that reads unknown counts as gone, whatever the age of its file.
IsOwnerGoneUnlessAlive(t) == Owner(t) \in Unknown \/ Owner(t) \notin alive

(* judgeHost knows that the owner is dead, or the owner reads unknown and  *)
(* the file is old.                                                        *)
IsOwnerGone(t) ==
  IF Owner(t) \in Unknown THEN t \in expired ELSE Owner(t) \notin alive

(* A break file or an announcement is a lease: it also ends with age.      *)
IsStaleBreakFile(t) == IsOwnerGone(t) \/ t \in expired

\* Mutant: a process does not know its own lock again.
IsStaleLockOfOthers(w, t) == IsOwnerGone(t)

IsStaleLock(w, t) == unreleased[w] = t \/ IsOwnerGone(t)

(***************************************************************************)
(* Taking the lock.                                                        *)
(***************************************************************************)
At(w, label) == w \in alive /\ pc[w] = label
Go(w, label) == pc' = [pc EXCEPT ![w] = label]

Start(w) ==
  /\ At(w, "idle") /\ calls[w] < MaxCalls[w]
  /\ calls' = [calls EXCEPT ![w] = @ + 1]
  /\ temps' = temps \cup {<<w, calls[w] + 1>>}
  /\ foundTaken' = [foundTaken EXCEPT ![w] = FALSE]
  /\ Go(w, "link")
  /\ UNCHANGED <<lock, brk, folder, announced, expired, store, alive,
                 judged, seen, snapshot, unreleased>>

(* The loop of acquireManifestLock: the temporary file, rewritten if it is *)
(* gone, gets the time of now, and so do its links; then link() takes the  *)
(* lock or finds it taken.                                                 *)
TakeLock(w) ==
  /\ At(w, "link") /\ lock = None
  /\ lock' = Token(w) /\ expired' = expired \ {Token(w)}
  /\ IF foundTaken[w]
       THEN temps' = temps \cup {Token(w)} /\ Go(w, "sweep")
       ELSE temps' = temps \ {Token(w)} /\ Go(w, "read")
  /\ UNCHANGED <<brk, folder, announced, store, alive, calls, locals>>

FindTaken(w) ==
  /\ At(w, "link") /\ lock # None
  /\ temps' = temps \cup {Token(w)} /\ expired' = expired \ {Token(w)}
  /\ foundTaken' = [foundTaken EXCEPT ![w] = TRUE]
  /\ Go(w, "judge")
  /\ UNCHANGED <<lock, brk, folder, announced, store, alive, calls,
                 judged, seen, snapshot, unreleased>>

(* The deadline has passed when the lock is found taken.                   *)
TimeOut(w) ==
  /\ At(w, "link") /\ lock # None
  /\ temps' = temps \ {Token(w)}
  /\ Go(w, "idle")
  /\ UNCHANGED <<lock, brk, folder, announced, expired, store, alive, calls, locals>>

(***************************************************************************)
(* breakStaleManifestLock: judge, announce, look for other breakers, take  *)
(* the break file, remove the judged lock, and undo in reverse.            *)
(***************************************************************************)
Judge(w) ==
  /\ At(w, "judge")
  /\ IF lock # None /\ IsStaleLock(w, lock)
       THEN judged' = [judged EXCEPT ![w] = lock] /\ Go(w, "folder")
       ELSE Go(w, "link") /\ UNCHANGED judged
  /\ UNCHANGED <<files, store, alive, calls, foundTaken, seen, snapshot, unreleased>>

MakeFolder(w) ==
  /\ At(w, "folder")
  /\ folder' = TRUE
  /\ Go(w, "announce")
  /\ UNCHANGED <<lock, brk, announced, temps, expired, store, alive, calls, locals>>

(* Another breaker may have removed the empty folder since.                *)
Announce(w) ==
  /\ At(w, "announce")
  /\ IF folder
       THEN announced' = announced \cup {Token(w)} /\ Go(w, "list")
       ELSE Go(w, "link") /\ UNCHANGED announced
  /\ UNCHANGED <<lock, brk, folder, temps, expired, store, alive, calls, locals>>

ListAnnouncements(w) ==
  /\ At(w, "list")
  /\ seen' = [seen EXCEPT ![w] = announced \ {Token(w)}]
  /\ Go(w, "scan")
  /\ UNCHANGED <<files, store, alive, calls, foundTaken, judged, snapshot, unreleased>>

(* One announcement of otherBreakerAnnounced.  A stale one is removed in   *)
(* the same step: no other writer uses its name.                           *)
LookAt(w, t) ==
  /\ At(w, "scan") /\ t \in seen[w]
  /\ seen' = [seen EXCEPT ![w] = @ \ {t}]
  /\ IF t \in announced /\ ~IsStaleBreakFile(t)
       THEN Go(w, "withdraw") /\ UNCHANGED announced
       ELSE announced' = announced \ {t} /\ UNCHANGED pc
  /\ UNCHANGED <<lock, brk, folder, temps, expired, store, alive, calls,
                 foundTaken, judged, snapshot, unreleased>>

ScanEnds(w) ==
  /\ At(w, "scan") /\ seen[w] = {}
  /\ Go(w, "break")
  /\ UNCHANGED <<files, store, alive, calls, locals>>

TakeBreak(w) ==
  /\ At(w, "break") /\ brk = None
  /\ brk' = Token(w)
  /\ Go(w, "compareLock")
  /\ UNCHANGED <<lock, folder, announced, temps, expired, store, alive, calls, locals>>

(* The break file is there: a stale one is removed, in two steps, and this *)
(* attempt ends either way.                                                *)
MeetBreak(w) ==
  /\ At(w, "break") /\ brk # None
  /\ IF IsStaleBreakFile(brk)
       THEN judged' = [judged EXCEPT ![w] = brk] /\ Go(w, "compareBreak")
       ELSE Go(w, "withdraw") /\ UNCHANGED judged
  /\ UNCHANGED <<files, store, alive, calls, foundTaken, seen, snapshot, unreleased>>

(* removeIfUnchanged reads the file again and compares; the removal is a   *)
(* later step and goes by path.                                            *)
Compare(w, at, current, wanted, same, changed) ==
  /\ At(w, at)
  /\ Go(w, IF current = wanted THEN same ELSE changed)
  /\ UNCHANGED <<files, store, alive, calls, locals>>

CompareBreak(w) == Compare(w, "compareBreak", brk, judged[w], "removeBreak", "withdraw")
CompareOwnBreak(w) ==
  Compare(w, "compareOwnBreak", brk, Token(w), "removeOwnBreak", "withdraw")

RemoveBreakFile(w, at, next) ==
  /\ At(w, at)
  /\ brk' = None
  /\ Go(w, next)
  /\ UNCHANGED <<lock, folder, announced, temps, expired, store, alive, calls, locals>>

RemoveBreak(w) == RemoveBreakFile(w, "removeBreak", "withdraw")
RemoveOwnBreak(w) == RemoveBreakFile(w, "removeOwnBreak", "withdraw")

(* Once the judged lock was compared, and removed if it was still there,   *)
(* it is no longer one that this process has to release.                   *)
Forget(w) ==
  unreleased' = [unreleased EXCEPT ![w] = IF @ = judged[w] THEN None ELSE @]

\* Mutant: the judged lock is removed without a second look.
CompareLockNot(w) ==
  /\ At(w, "compareLock")
  /\ Go(w, "removeLock")
  /\ UNCHANGED <<files, store, alive, calls, locals>>

CompareLock(w) ==
  /\ At(w, "compareLock")
  /\ IF lock = judged[w]
       THEN Go(w, "removeLock") /\ UNCHANGED unreleased
       ELSE Go(w, "compareOwnBreak") /\ Forget(w)
  /\ UNCHANGED <<files, store, alive, calls, foundTaken, judged, seen, snapshot>>

RemoveLock(w) ==
  /\ At(w, "removeLock")
  /\ lock' = None
  /\ Forget(w)
  /\ Go(w, "compareOwnBreak")
  /\ UNCHANGED <<brk, folder, announced, temps, expired, store, alive, calls,
                 foundTaken, judged, seen, snapshot>>

Withdraw(w) ==
  /\ At(w, "withdraw")
  /\ announced' = announced \ {Token(w)}
  /\ Go(w, "removeFolder")
  /\ UNCHANGED <<lock, brk, folder, temps, expired, store, alive, calls, locals>>

(* rmdir removes only an empty folder.                                     *)
RemoveFolder(w, at, next) ==
  /\ At(w, at)
  /\ folder' = (folder /\ announced # {})
  /\ Go(w, next)
  /\ UNCHANGED <<lock, brk, announced, expired, store, alive, calls, locals>>

EndAttempt(w) == RemoveFolder(w, "removeFolder", "link") /\ UNCHANGED temps

(***************************************************************************)
(* removeOldLockFiles: a writer that had to wait removes what dead writers *)
(* left.  The files with names of their own go in one step, the break file *)
(* in three.                                                               *)
(***************************************************************************)
Sweep(w) ==
  /\ At(w, "sweep")
  /\ announced' = {t \in announced : ~IsStaleBreakFile(t)}
  /\ temps' = {t \in temps : t = Token(w) \/ ~IsOwnerGone(t)}
  /\ IF brk # None /\ IsStaleBreakFile(brk)
       THEN judged' = [judged EXCEPT ![w] = brk] /\ Go(w, "sweepBreak")
       ELSE Go(w, "sweepFolder") /\ UNCHANGED judged
  /\ UNCHANGED <<lock, brk, folder, expired, store, alive, calls,
                 foundTaken, seen, snapshot, unreleased>>

SweepBreak(w) == Compare(w, "sweepBreak", brk, judged[w], "sweepRemove", "sweepFolder")
SweepRemove(w) == RemoveBreakFile(w, "sweepRemove", "sweepFolder")
SweepFolder(w) ==
  RemoveFolder(w, "sweepFolder", "read") /\ temps' = temps \ {Token(w)}

(***************************************************************************)
(* The section: the manifest is read, and rewritten from what was read.    *)
(***************************************************************************)
ReadManifest(w) ==
  /\ At(w, "read")
  /\ snapshot' = [snapshot EXCEPT ![w] = manifest]
  /\ Go(w, "write")
  /\ UNCHANGED <<files, store, alive, calls, foundTaken, judged, seen, unreleased>>

(* appendArtifact                                                          *)
AppendEntry(w) ==
  /\ At(w, "write")
  /\ manifest' = snapshot[w] \cup {Token(w)}
  /\ recorded' = recorded \cup {Token(w)}
  /\ Go(w, "release")
  /\ UNCHANGED <<files, alive, calls, locals>>

(* removeArtifactEntry                                                     *)
RemoveEntry(w, t) ==
  /\ At(w, "write") /\ t \in snapshot[w]
  /\ manifest' = snapshot[w] \ {t}
  /\ recorded' = recorded \ {t}
  /\ Go(w, "release")
  /\ UNCHANGED <<files, alive, calls, locals>>

(* The update threw before it wrote.                                       *)
UpdateFails(w) ==
  /\ w \in alive /\ pc[w] \in {"read", "write"}
  /\ Go(w, "release")
  /\ UNCHANGED <<files, store, alive, calls, locals>>

CompareOwnLock(w) == Compare(w, "release", lock, Token(w), "removeOwn", "idle")

RemoveOwnLock(w) ==
  /\ At(w, "removeOwn")
  /\ lock' = None
  /\ Go(w, "idle")
  /\ UNCHANGED <<brk, folder, announced, temps, expired, store, alive, calls, locals>>

(* All attempts of releaseManifestLock failed.                             *)
ReleaseFails(w) ==
  /\ w \in alive /\ pc[w] \in {"release", "removeOwn"}
  /\ unreleased' = [unreleased EXCEPT ![w] = Token(w)]
  /\ Go(w, "idle")
  /\ UNCHANGED <<files, store, alive, calls, foundTaken, judged, seen, snapshot>>

(***************************************************************************)
(* A process dies between two steps; files grow old.  A writer that is not *)
(* stopped never lets the files of a running call reach that age while it  *)
(* waits; a lock that its owner failed to release can, and so can the lock *)
(* of a long update (of an owner that reads unknown: a documented limit).  *)
(***************************************************************************)
Crash(w) ==
  /\ w \in alive /\ Cardinality(Writers \ alive) < MaxCrashes
  /\ alive' = alive \ {w}
  /\ UNCHANGED <<files, store, pc, calls, locals>>

Expire(t) ==
  /\ t \notin expired /\ t \in {lock, brk} \cup announced \cup temps
  /\ \/ Owner(t) \notin alive
     \/ Owner(t) \in MayStop
     \/ t # Token(Owner(t)) \/ pc[Owner(t)] = "idle"
     \/ Owner(t) \notin Unknown /\ pc[Owner(t)] \in Section
  /\ expired' = expired \cup {t}
  /\ UNCHANGED <<lock, brk, folder, announced, temps, store, alive, pc, calls, locals>>

Break(w) ==
  \/ Judge(w) \/ MakeFolder(w) \/ Announce(w) \/ ListAnnouncements(w)
  \/ \E t \in Tokens : LookAt(w, t)
  \/ ScanEnds(w) \/ TakeBreak(w) \/ MeetBreak(w)
  \/ CompareBreak(w) \/ RemoveBreak(w) \/ CompareLock(w) \/ RemoveLock(w)
  \/ CompareOwnBreak(w) \/ RemoveOwnBreak(w) \/ Withdraw(w) \/ EndAttempt(w)

Acquire(w) ==
  \/ TakeLock(w) \/ FindTaken(w) \/ Break(w)
  \/ Sweep(w) \/ SweepBreak(w) \/ SweepRemove(w) \/ SweepFolder(w)

Next ==
  \/ \E w \in Writers :
       \/ Start(w) \/ Acquire(w) \/ TimeOut(w)
       \/ ReadManifest(w) \/ AppendEntry(w) \/ UpdateFails(w)
       \/ \E t \in Tokens : RemoveEntry(w, t)
       \/ CompareOwnLock(w) \/ RemoveOwnLock(w) \/ ReleaseFails(w)
       \/ Crash(w)
  \/ \E t \in Tokens : Expire(t)

(* A running process goes on with its call, and time passes for the files  *)
(* of the others.                                                          *)
Fairness ==
  /\ \A w \in Writers : WF_vars(Acquire(w))
  /\ \A t \in Tokens : WF_vars(Expire(t))

Spec == Init /\ [][Next]_vars
FairSpec == Spec /\ Fairness

(***************************************************************************)
(* What the lock promises.                                                 *)
(***************************************************************************)
(* While a live writer runs its update, the lock file is its own: nobody   *)
(* took it for the lock of a dead owner, and so no two updates overlap.    *)
(* "Breakers act one at a time": of two that announce, the one that scans  *)
(* later sees the other.                                                   *)
LockIsHeld ==
  /\ \A w \in alive : pc[w] \in Sweeping \cup Section => lock = Token(w)
  /\ \A v, w \in alive : pc[v] \in Acting /\ pc[w] \in Acting => v = w

(* The manifest is what the completed updates add up to: none was          *)
(* overwritten from an older reading and no removed entry came back.       *)
ManifestIsTheRecord == manifest = recorded

(* A writer that is left alone with the files of dead ones, a held lock, a *)
(* break file, announcements in any combination, gets the lock.            *)
LoneWriterGetsTheLock ==
  \A w \in Writers :
    (alive = {w} /\ pc[w] \in Waiting) ~> (w \notin alive \/ pc[w] \notin Waiting)
=============================================================================
