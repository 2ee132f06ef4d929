------------------------------ MODULE LiveView ------------------------------
(***************************************************************************)
(* The live view of the dashboard: the tail of a session's events.jsonl    *)
(* (dashboard/eventSource.ts), the follower that feeds its records to a    *)
(* renderer (dashboard/liveViewFollower.ts), and the effect that runs one  *)
(* follower for the selected session (useFollower of dashboard/app.tsx).   *)
(*                                                                         *)
(* A line of a log is two units, the second its line feed; the unit at     *)
(* place p belongs to line (p + 1) \div 2, whose record has that number.   *)
(* The host appends to a log and never shortens it; gc removes it.         *)
(***************************************************************************)
EXTENDS Picked, SequencesExt

CONSTANTS
  Sessions,      \* sessions of the list
  Records,       \* bound on the records of a log; the last one is the exit
  MaxFollows,    \* bound on selections
  MaxFailures    \* bound on failed boots of a renderer

ASSUME LiveViewAssumption ==
  Records \in Nat \ {0} /\ MaxFollows \in Nat \ {0} /\ MaxFailures \in Nat

VARIABLES
  log,       \* the log of each session: absent, there or gone, and its units
  follow,    \* the effects so far, one per selection; the last is the one that is shown
  frame,     \* what the hook keeps to show: the effect that set it, status and screen
  error,     \* the hook shows an error instead of the frame
  failures   \* failed boots so far

viewVars == <<follow, frame, error, failures>>
allVars == <<log, viewVars>>

NoFrame == [by |-> 0, status |-> "pending", screen |-> <<>>]
Tail0 == [offset |-> 0, partial |-> <<>>]
Effect(s) ==
  [session |-> s, aborted |-> FALSE, pc |-> "creating", size |-> 0, tail |-> Tail0, present |-> FALSE,
   events |-> <<>>, pending |-> 0, rendered |-> 0, collected |-> FALSE, exit |-> FALSE,
   screen |-> <<>>, drawn |-> FALSE, last |-> "none",
   renderer |-> "new", disposed |-> FALSE, applied |-> <<>>]

ViewInit ==
  /\ log = [s \in Sessions |-> [state |-> "absent", units |-> 0]]
  /\ follow = <<>> /\ frame = NoFrame /\ error = FALSE /\ failures = 0
-----------------------------------------------------------------------------
(* The log grows and goes *)

\* EventLog.open creates the file.
CreateLog(s) ==
  /\ log[s].state = "absent" /\ log' = [log EXCEPT ![s].state = "there"]
  /\ UNCHANGED viewVars

\* A write lands, a line or a part of one.
GrowLog(s) ==
  /\ log[s].state = "there"
  /\ \E n \in 1..2 :
       /\ log[s].units + n <= 2 * Records
       /\ log' = [log EXCEPT ![s].units = @ + n]
  /\ UNCHANGED viewVars

\* gc removes the session's folder.
CollectLog(s) ==
  /\ log[s].state = "there" /\ log' = [log EXCEPT ![s].state = "gone"]
  /\ UNCHANGED viewVars
-----------------------------------------------------------------------------
(* The tail *)

IsFeed(p) == p % 2 = 0

\* The units up to a line feed, from behind the one before, make a line; one
\* that does not parse is skipped.
Parses(units, k) ==
  /\ IsFeed(units[k]) /\ k > 1 /\ units[k - 1] = units[k] - 1
  /\ k > 2 => IsFeed(units[k - 2])
Lines(units) ==
  Picked([k \in DOMAIN units |-> units[k] \div 2], {k \in DOMAIN units : Parses(units, k)})

\* Mutant: what follows the last line feed is thrown away.
DropRest(units) == <<>>

\* What follows the last line feed waits for the next read.
Rest(units) == SubSeq(units, SelectLastInSeq(units, IsFeed) + 1, Len(units))

\* Where the next read begins, in a file of that size.
Resume(tail, size) == IF size < tail.offset THEN Tail0 ELSE tail

\* Reads to `size` and drains the complete lines.
ReadTo(tail, size) ==
  LET start == Resume(tail, size)
      all == start.partial \o [k \in 1..(size - start.offset) |-> start.offset + k]
  IN  [records |-> Lines(all), tail |-> [offset |-> size, partial |-> Rest(all)]]
-----------------------------------------------------------------------------
(* The follower *)

Status(e) == IF e.collected THEN "collected"
             ELSE IF e.exit THEN "exited"
             ELSE IF e.drawn THEN "following" ELSE "pending"

\* The batch joins what was ingested.
Ingested(e, records) ==
  [e EXCEPT !.events = @ \o records,
            !.pending = Max({@} \cup ToSet(records)),
            !.exit = @ \/ Records \in ToSet(records)]

Idle(e) == IF e.aborted THEN "over" ELSE "idle"

\* Mutant: after a failure no tick begins again.
FailsForGood(i, e) ==
  /\ error' = (error \/ ~e.aborted)
  /\ follow' = [follow EXCEPT ![i] = [e EXCEPT !.pc = "over"]]
  /\ UNCHANGED frame

\* A failure is shown, unless the view was left.
Fails(i, e) ==
  /\ error' = (error \/ ~e.aborted)
  /\ follow' = [follow EXCEPT ![i] = [e EXCEPT !.pc = Idle(e)]]
  /\ UNCHANGED frame

\* Mutant: a tick that ends sets the frame of a view that was left.
EndTickAnyway(i, e, changed) ==
  LET news == changed \/ Status(e) # e.last IN
  /\ frame' = IF news THEN [by |-> i, status |-> Status(e), screen |-> e.screen] ELSE frame
  /\ follow' = [follow EXCEPT ![i] = [e EXCEPT !.pc = Idle(e), !.last = Status(e)]]
  /\ UNCHANGED error

\* The end of a tick sets the frame when it changed.
EndTick(i, e, changed) ==
  LET news == ~e.aborted /\ (changed \/ Status(e) # e.last) IN
  /\ frame' = IF news THEN [by |-> i, status |-> Status(e), screen |-> e.screen] ELSE frame
  /\ follow' = [follow EXCEPT ![i] = [e EXCEPT !.pc = Idle(e), !.last = IF news THEN Status(e) ELSE @]]
  /\ UNCHANGED error

\* render up to its first await. boot() of a disposed renderer throws.
BeginRender(i, e) ==
  IF e.collected \/ e.pending <= e.rendered \/ e.events = <<>> THEN EndTick(i, e, FALSE)
  ELSE IF e.disposed THEN Fails(i, e)
  ELSE /\ follow' = [follow EXCEPT ![i] = [e EXCEPT !.pc = IF e.renderer = "up" THEN "replay" ELSE "boot"]]
       /\ UNCHANGED <<frame, error>>

\* A tick of the timer begins a poll, which looks at the file.
PollTick(i) ==
  LET file == log[follow[i].session] IN
  /\ follow[i].pc = "idle" /\ ~follow[i].aborted
  /\ IF file.state # "there"
     THEN \E e \in {[follow[i] EXCEPT !.tail = Tail0, !.collected = @ \/ follow[i].present]} : BeginRender(i, e)
     ELSE \E e \in {[follow[i] EXCEPT !.present = TRUE, !.tail = Resume(@, file.units)]} :
            IF file.units = e.tail.offset THEN BeginRender(i, e)
            ELSE /\ follow' = [follow EXCEPT ![i] = [e EXCEPT !.pc = "read", !.size = file.units]]
                 /\ UNCHANGED <<frame, error>>
  /\ UNCHANGED <<log, failures>>

\* The poll opens the file, which may be gone by now, and reads to the size it saw.
Read(i) ==
  /\ follow[i].pc = "read"
  /\ IF log[follow[i].session].state = "gone" THEN Fails(i, follow[i])
     ELSE \E got \in {ReadTo(follow[i].tail, follow[i].size)} :
          \E e \in {Ingested([follow[i] EXCEPT !.tail = got.tail], got.records)} : BeginRender(i, e)
  /\ UNCHANGED <<log, failures>>

\* The renderer is up; one that was disposed meanwhile holds its terminal for ever.
BootEnds(i) ==
  LET e == follow[i] up == [e EXCEPT !.renderer = "up"] IN
  /\ e.pc = "boot"
  /\ IF e.disposed THEN Fails(i, up)
     ELSE /\ follow' = [follow EXCEPT ![i] = [up EXCEPT !.pc = "replay"]]
          /\ UNCHANGED <<frame, error>>
  /\ UNCHANGED <<log, failures>>

BootFails(i) ==
  /\ follow[i].pc = "boot" /\ failures < MaxFailures
  /\ failures' = failures + 1 /\ Fails(i, follow[i]) /\ UNCHANGED log

\* replayTo feeds what lies behind the last record it applied, up to the
\* target; snapshot shows it; the events are forgotten.
Replay(i) ==
  LET e == follow[i]
      Fresh(r) == r > (IF e.applied = <<>> THEN 0 ELSE Last(e.applied)) /\ r <= e.pending
      screen == e.applied \o Picked(e.events, {k \in DOMAIN e.events : Fresh(e.events[k])})
  IN
  /\ e.pc = "replay"
  /\ IF e.disposed THEN Fails(i, e)
     ELSE EndTick(i, [e EXCEPT !.applied = screen, !.screen = screen, !.drawn = TRUE,
                               !.rendered = e.pending, !.events = <<>>], TRUE)
  /\ UNCHANGED <<log, failures>>
-----------------------------------------------------------------------------
(* The effect *)

\* Leaving a session aborts its effect and disposes its follower, if it has
\* one already; a tick under way goes on to its next await.
Left(e) ==
  [e EXCEPT !.aborted = TRUE,
            !.disposed = @ \/ e.pc # "creating",
            !.renderer = IF e.pc # "creating" /\ @ = "up" THEN "gone" ELSE @,
            !.pc = IF @ = "idle" THEN "over" ELSE @]

\* The selected session changed: the old effect's cleanup, then the new effect.
Follow(s) ==
  /\ Len(follow) < MaxFollows
  /\ follow # <<>> => Last(follow).session # s
  /\ follow' = Append([k \in DOMAIN follow |-> IF k = Len(follow) THEN Left(follow[k]) ELSE follow[k]],
                      Effect(s))
  /\ frame' = NoFrame /\ error' = FALSE
  /\ UNCHANGED <<log, failures>>

\* createRendererBackend returns: a view that was left meanwhile disposes it.
Created(i) ==
  LET e == follow[i] IN
  /\ e.pc = "creating"
  /\ follow' = [follow EXCEPT ![i] = [e EXCEPT !.pc = Idle(e), !.disposed = e.aborted]]
  /\ UNCHANGED <<log, frame, error, failures>>
-----------------------------------------------------------------------------
\* What the timer and the settled promises of an effect do by themselves.
GoesOn(i) == Created(i) \/ PollTick(i) \/ Read(i) \/ BootEnds(i) \/ Replay(i)

ViewNext ==
  \/ \E s \in Sessions : CreateLog(s) \/ GrowLog(s) \/ CollectLog(s) \/ Follow(s)
  \/ \E i \in DOMAIN follow : GoesOn(i) \/ BootFails(i)

\* Timers fire and files are read for the effect that is shown. A renderer
\* need not boot in vain, and nobody has to write or select anything.
ViewFairness == WF_allVars(follow # <<>> /\ GoesOn(Len(follow)))

ViewSpec == ViewInit /\ [][ViewNext]_allVars /\ ViewFairness
-----------------------------------------------------------------------------
Whole(s) == log[s].units \div 2

\* The view shows the log of the session that is followed now, each record
\* once and in order, whatever the cuts of its reads, and says that the
\* session exited only together with its exit record (eventSource.ts:45,
\* liveViewFollower.ts:62, app.tsx:387).
ShowsOneLog ==
  frame # NoFrame =>
    /\ frame.by = Len(follow)
    /\ frame.screen = [k \in 1..Len(frame.screen) |-> k]
    /\ Len(frame.screen) <= Whole(follow[frame.by].session)
    /\ frame.status = "exited" => Len(frame.screen) = Records

\* Whatever failed or was cut on the way, the frame of a view that stays comes
\* to hold all of its session's log, or freezes when the log is gone; one whose
\* session has no log that it could ever read stays pending
\* (liveViewFollower.ts:90). What is on the screen is the frame only while no
\* error hides it (app.tsx:162), and an error goes with the selection alone
\* (app.tsx:394): only where the log is there and no boot ever failed is the
\* frame seen. Selections and the growth of logs end by themselves here.
FrameCatchesUp ==
  <>[](follow # <<>> =>
         LET e == Last(follow) IN
         IF log[e.session].state = "there"
         THEN Len(frame.screen) = Whole(e.session) /\ (failures = 0 => ~error)
         ELSE frame.status = IF e.present THEN "collected" ELSE "pending")
=============================================================================
