------------------------------ MODULE Dashboard ------------------------------
(***************************************************************************)
(* The state of the dashboard's screens (dashboard/app.tsx): the list of   *)
(* sessions with its pinned selection, the picker of homes, the keys, and  *)
(* the list refreshes (dashboard/sessionScope.ts, lifecycle.listSessions)  *)
(* and home scans (storage/homeScope.ts) that end while all that changes.  *)
(*                                                                         *)
(* A handler changes the state at once; React renders it later (Render:    *)
(* refs and handlers then see it) and runs the effects that depend on it   *)
(* after that (Effects). A key is handled with what is rendered. The       *)
(* follower of LiveView is its status here.                                *)
(***************************************************************************)
EXTENDS Picked, SequencesExt

CONSTANTS
  Newest,    \* the sessions of all homes, newest first
  HomeOf,    \* the home of each session
  Homes,     \* the registered homes, last seen first
  Launched,  \* the home that the dashboard was started for
  NoSession,
  Requests,  \* what the command line may ask for: a scope and a session, or none
  MaxKeys    \* bound on keys pressed

AllSessions == ToSet(Newest)
\* The home of the start need not be registered: only `create` registers one.
AllHomes == ToSet(Homes) \cup {Launched}
ASSUME DashboardAssumption ==
  /\ Newest \in Seq(AllSessions) /\ Homes \in Seq(ToSet(Homes))
  /\ NoSession \notin AllSessions /\ MaxKeys \in Nat
  /\ HomeOf \in [AllSessions -> AllHomes]
  /\ Requests \subseteq [scope : {"active", "all"}, session : AllSessions \cup {NoSession}]

VARIABLES
  stored,     \* each session on disk: active, exited, destroyed, or gone with its log
  ui,         \* the state: home, scope, focus, maximized, sessions, selected, homes,
              \* homeIndex, the session asked for, and (history) whether a refresh has
              \* ended since the home was opened
  known,      \* lastKnown
  view,       \* the live view: its session, whether it read its log, its status
  seen,       \* as rendered: home, scope, focus, the selection and the session it
              \* means, and whether the view was collected
  ran,        \* what the effects that run depend on: home, scope, session, picker
  scans,      \* refreshes under way, one per refresh effect: alive, home, scope, step, result
  load,       \* the scan of homes under way
  keys        \* keys pressed so far

vars == <<stored, ui, known, view, seen, ran, scans, load, keys>>

Visible(home, scope) ==
  Picked(Newest, {k \in DOMAIN Newest :
                    /\ HomeOf[Newest[k]] = home /\ stored[Newest[k]] \in {"active", "exited"}
                    /\ scope = "active" => stored[Newest[k]] = "active"})
Listed == ToSet(ui.sessions)

\* The row of the selection; a selection that is not listed means the first row.
SelectedIndex(sessions, selected) ==
  IF selected \in ToSet(sessions) THEN CHOOSE k \in DOMAIN sessions : sessions[k] = selected ELSE 1
SelectedSession(sessions, selected) ==
  IF sessions = <<>> THEN NoSession ELSE sessions[SelectedIndex(sessions, selected)]

Picture ==
  [home |-> ui.home, scope |-> ui.scope, focus |-> ui.focus, selected |-> ui.selected,
   session |-> SelectedSession(ui.sessions, ui.selected), collected |-> view.status = "collected"]
Rendered == seen = Picture
Ran == [home |-> seen.home, scope |-> seen.scope, session |-> seen.session,
        picker |-> IF seen.focus = "home" THEN seen.scope ELSE "closed"]
Settled == Rendered /\ ran = Ran

NoView(s) == [session |-> s, present |-> FALSE, status |-> "none"]
Scan(home, scope) == [alive |-> TRUE, home |-> home, scope |-> scope, step |-> "reading", found |-> <<>>]

Init ==
  /\ stored = [s \in AllSessions |-> "active"]
  /\ \E request \in Requests :
       ui = [home |-> Launched, scope |-> request.scope, focus |-> "list", maximized |-> FALSE,
             sessions |-> <<>>, selected |-> request.session, requested |-> request.session,
             homes |-> <<>>, homeIndex |-> 1, refreshed |-> FALSE]
  /\ known = {} /\ view = NoView(NoSession) /\ seen = Picture
  /\ ran = Ran /\ scans = <<Scan(ui.home, ui.scope)>> /\ load = "none" /\ keys = 0
-----------------------------------------------------------------------------
(* Sessions end and are collected *)

SessionEnds(s) ==
  /\ stored[s] = "active"
  /\ \E end \in {"exited", "destroyed"} : stored' = [stored EXCEPT ![s] = end]
  /\ UNCHANGED <<ui, known, view, seen, ran, scans, load, keys>>

SessionGoes(s) ==
  /\ stored[s] \in {"exited", "destroyed"} /\ stored' = [stored EXCEPT ![s] = "gone"]
  /\ UNCHANGED <<ui, known, view, seen, ran, scans, load, keys>>

\* A poll of the follower: a log it never read is one that does not exist yet.
Follows ==
  /\ view.session # NoSession
  /\ view' = IF stored[view.session] # "gone"
              THEN [view EXCEPT !.present = TRUE, !.status = "following"]
              ELSE [view EXCEPT !.status = IF view.present THEN "collected" ELSE "pending"]
  /\ view' # view
  /\ UNCHANGED <<stored, ui, known, seen, ran, scans, load, keys>>
-----------------------------------------------------------------------------
(* React *)

Render ==
  /\ ~Rendered /\ seen' = Picture
  /\ UNCHANGED <<stored, ui, known, view, ran, scans, load, keys>>

\* Mutant: the refresh effect does not depend on what it lists.
EffectsOnce ==
  /\ ran # Ran /\ ran' = Ran
  /\ load' = IF ran.picker = Ran.picker THEN load
             ELSE IF Ran.picker = "closed" THEN "none" ELSE "loading"
  /\ view' = IF ran.session = Ran.session THEN view ELSE NoView(Ran.session)
  /\ UNCHANGED <<stored, ui, known, seen, scans, keys>>

\* Cleanups and effects whose dependencies changed: the refresh, the load of
\* the picker, the follower.
Effects ==
  /\ ran # Ran /\ ran' = Ran
  /\ IF <<ran.home, ran.scope>> # <<Ran.home, Ran.scope>>
     THEN scans' = Append([k \in DOMAIN scans |-> [scans[k] EXCEPT !.alive = FALSE]],
                          Scan(Ran.home, Ran.scope))
     ELSE UNCHANGED scans
  /\ load' = IF ran.picker = Ran.picker THEN load
             ELSE IF Ran.picker = "closed" THEN "none" ELSE "loading"
  /\ view' = IF ran.session = Ran.session THEN view ELSE NoView(Ran.session)
  /\ UNCHANGED <<stored, ui, known, seen, keys>>
-----------------------------------------------------------------------------
(* The refresh *)

\* The timer begins a refresh unless one is under way.
BeginScan(k) ==
  /\ scans[k].alive /\ scans[k].step = "idle"
  /\ scans' = [scans EXCEPT ![k].step = "reading"]
  /\ UNCHANGED <<stored, ui, known, view, seen, ran, load, keys>>

\* listDashboardSessions reads the sessions of the home.
ScanReads(k) ==
  /\ scans[k].step = "reading"
  /\ scans' = [scans EXCEPT ![k].step = "read", ![k].found = Visible(scans[k].home, scans[k].scope)]
  /\ UNCHANGED <<stored, ui, known, view, seen, ran, load, keys>>

\* Mutant: only what was found is listed.
DisplayedUnpinned(found, sightings) == found

\* The sessions found, and behind them the pinned one unless its log is gone.
Displayed(found, sightings) ==
  IF /\ seen.selected \notin ToSet(found) \cup {NoSession} /\ ~seen.collected
     /\ seen.selected \in sightings
  THEN Append(found, seen.selected) ELSE found

\* A selection that is not listed falls back to the session asked for, or to the newest.
Reselect(displayed, selected) ==
  IF selected \in ToSet(displayed) THEN selected
  ELSE IF ui.requested \in ToSet(displayed) THEN ui.requested
  ELSE IF displayed = <<>> THEN NoSession ELSE displayed[1]

\* The refresh ends; one whose effect was cleaned up changes nothing.
ScanEnds(k) ==
  LET scan == scans[k] sightings == known \cup ToSet(scan.found) IN
  /\ scan.step = "read"
  /\ scans' = [scans EXCEPT ![k].step = IF scan.alive THEN "idle" ELSE "over", ![k].found = <<>>]
  /\ IF ~scan.alive THEN UNCHANGED <<ui, known>>
     ELSE /\ known' = sightings
          /\ \E displayed \in {Displayed(scan.found, sightings)} :
               ui' = [ui EXCEPT !.sessions = displayed, !.selected = Reselect(displayed, @), !.refreshed = TRUE]
  /\ UNCHANGED <<stored, view, seen, ran, load, keys>>

\* listRegisteredHomes: homes in which nothing can be seen are left out.
LoadEnds ==
  /\ load = "loading" /\ load' = "none"
  /\ ui' = [ui EXCEPT !.homeIndex = 1,
                      !.homes = Picked(Homes, {k \in DOMAIN Homes : Visible(Homes[k], ran.picker) # <<>>})]
  /\ UNCHANGED <<stored, known, view, seen, ran, scans, keys>>
-----------------------------------------------------------------------------
(* Keys *)

\* A key is handled with the rendered state; while the view is maximized, and
\* while the picker is open, most keys are swallowed.
Key(change) ==
  /\ Rendered /\ keys < MaxKeys /\ keys' = keys + 1 /\ ui' = change
  /\ UNCHANGED <<stored, view, seen, ran, scans, load>>

Swap(value, one, other) == IF value = one THEN other ELSE one
Browsing == ~ui.maximized /\ ui.focus # "home"

KeyMove(step) ==
  /\ Browsing /\ ui.focus = "list" /\ ui.sessions # <<>>
  /\ LET at == SelectedIndex(ui.sessions, ui.selected)
         next == IF step = "up" THEN (IF at = 1 THEN 1 ELSE at - 1)
                 ELSE IF at = Len(ui.sessions) THEN at ELSE at + 1
     IN Key([ui EXCEPT !.selected = ui.sessions[next]])
  /\ UNCHANGED known

KeyScope == ~ui.maximized /\ Key([ui EXCEPT !.scope = Swap(@, "active", "all")]) /\ UNCHANGED known
KeyTab == Browsing /\ Key([ui EXCEPT !.focus = Swap(@, "list", "live")]) /\ UNCHANGED known
KeyMaximize ==
  /\ Browsing /\ seen.session # NoSession
  /\ Key([ui EXCEPT !.maximized = TRUE]) /\ UNCHANGED known
KeyRestore == ui.maximized /\ Key([ui EXCEPT !.maximized = FALSE]) /\ UNCHANGED known
KeyHomes == ~ui.maximized /\ Key([ui EXCEPT !.focus = Swap(@, "home", "list")]) /\ UNCHANGED known
KeyHomeMove(step) ==
  /\ ~ui.maximized /\ ui.focus = "home"
  /\ Key([ui EXCEPT !.homeIndex = IF step = "up" THEN (IF @ = 1 THEN 1 ELSE @ - 1)
                                  ELSE IF @ >= Len(ui.homes) THEN @ ELSE @ + 1])
  /\ UNCHANGED known

\* Another home: the selection and what was known of the sessions are forgotten.
KeyOpenHome ==
  /\ ~ui.maximized /\ ui.focus = "home"
  /\ IF ui.homeIndex \in DOMAIN ui.homes /\ ui.homes[ui.homeIndex] # ui.home
     THEN /\ Key([ui EXCEPT !.home = ui.homes[ui.homeIndex], !.selected = NoSession, !.focus = "list",
                           !.refreshed = FALSE])
          /\ known' = {}
     ELSE Key([ui EXCEPT !.focus = "list"]) /\ UNCHANGED known
-----------------------------------------------------------------------------
KeyStep ==
  \/ \E step \in {"up", "down"} : KeyMove(step) \/ KeyHomeMove(step)
  \/ KeyScope \/ KeyTab \/ KeyMaximize \/ KeyRestore \/ KeyHomes \/ KeyOpenHome
ScanStep(k) == BeginScan(k) \/ ScanReads(k) \/ ScanEnds(k)

Next ==
  \/ \E s \in AllSessions : SessionEnds(s) \/ SessionGoes(s)
  \/ Follows \/ Render \/ Effects \/ LoadEnds \/ KeyStep
  \/ \E k \in DOMAIN scans : ScanStep(k)

\* React renders and runs effects, timers fire and files are read. A key is
\* the user's; sessions end by themselves. Of the refreshes only the one of the
\* effect that is alive has to end.
Fairness ==
  /\ WF_vars(Render) /\ WF_vars(Effects) /\ WF_vars(Follows) /\ WF_vars(LoadEnds)
  /\ WF_vars(ScanStep(Len(scans)))

Spec == Init /\ [][Next]_vars /\ Fairness
-----------------------------------------------------------------------------
\* A session that is watched stays selected when a refresh finds that it ended
\* or left the scope; it goes only when its log was collected (app.tsx:516). Until
\* the first refresh after a home was opened the list is that of the home before,
\* and a selection in it is not kept (app.tsx:735).
WatchedStays ==
  [][\A k \in DOMAIN scans :
       /\ ScanEnds(k) /\ Settled /\ ui.refreshed /\ ui.selected \in Listed
       /\ view.status # "collected"
       => ui'.selected = ui.selected]_vars

\* Once no key is pressed, the list comes to show what can be seen of it, and
\* nothing else but the pinned session (app.tsx:515, sessionScope.ts:34).
ListCatchesUp ==
  <>[](Listed \ {ui.selected} = ToSet(Visible(ui.home, ui.scope)) \ {ui.selected})

\* "A collected Event Log (read error) surfaces a 'collected - no longer
\* available' state and the Session drops out on the next refresh"
\* (docs/prd/session-dashboard/PRD.md:73).
CollectedDropsOut == \A s \in AllSessions : stored[s] = "gone" ~> s \notin Listed
=============================================================================
