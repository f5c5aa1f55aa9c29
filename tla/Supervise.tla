----------------------------- MODULE Supervise -----------------------------
(***************************************************************************)
(* office run (cmd/office/supervise.go): the supervisor and its children,  *)
(* the server, in which the updater of Builds works, and the dashboard.    *)
(* It starts them again when they stop, starts the new build when the      *)
(* server exits with RestartCode, puts the build before back when that     *)
(* does not come up, and writes down its children for a later supervisor   *)
(* to end.  Children, and the supervisor, may go down at any step.         *)
(*                                                                         *)
(* The server goes with its supervisor (exitWithParent) before another one *)
(* is started.  A dashboard does not, and only one has the port.           *)
(***************************************************************************)
EXTENDS Builds, FiniteSets

CONSTANTS
    Dashes,     \* process numbers of dashboards
    GiveUp,     \* quick crashes of the server until the supervisor exits (5)
    MaxRuns,    \* bound: supervisors that are started
    MaxFaults   \* bound: processes that go down of themselves, or are killed

NoDash == 0

ASSUME SuperviseAssumption ==
    /\ IsFiniteSet(Dashes) /\ Dashes \subseteq Nat \ {NoDash}
    /\ GiveUp \in Nat /\ MaxRuns \in Nat /\ MaxFaults \in Nat

VARIABLES
    sup,        \* where the supervisor is: "loop" is its select
    then,       \* where it goes on once its children are written down
    api,        \* the server: "none", "starts", "up", or how it exited
    build,      \* the build it runs
    ui,         \* the dashboard that the supervisor knows
    live,       \* the dashboards that run
    shows,      \* the build a dashboard runs
    port,       \* the dashboard that has the port
    pids,       \* the dashboards in supervisor.pids
    uiRestart,  \* the timers of the loop
    apiRestart,
    crashes,
    noUI,
    runs,
    faults,
    hit         \* a dashboard or the supervisor was among those (history)

dashVars == <<ui, live, shows, port>>
loopVars == <<then, uiRestart, apiRestart, crashes, noUI>>
vars == <<buildVars, dashVars, loopVars, sup, api, build, pids, runs, faults, hit>>

Steps == {"off", "loop", "start_ui", "save", "health",
          "back_bin", "place_bin", "back_out", "place_out", "again"}
Exited == {"crashed", "stopped", "restart"}

TypeOK ==
    /\ BuildsTypeOK
    /\ sup \in Steps
    /\ then \in {"loop", "health"}
    /\ api \in {"none", "starts", "up"} \cup Exited
    /\ build \in Builds \cup {NoBuild}
    /\ ui \in Dashes \cup {NoDash}
    /\ live \subseteq Dashes
    /\ shows \in [Dashes -> Builds \cup {NoBuild}]
    /\ port \in live \cup {NoDash}
    /\ pids \subseteq Dashes
    /\ uiRestart \in BOOLEAN /\ apiRestart \in BOOLEAN /\ noUI \in BOOLEAN
    /\ crashes \in 0 .. GiveUp
    /\ runs \in 0 .. MaxRuns
    /\ faults \in 0 .. MaxFaults
    /\ hit \in BOOLEAN

Init ==
    /\ BuildsInit
    /\ sup = "off" /\ then = "loop"
    /\ api = "none" /\ build = NoBuild
    /\ ui = NoDash /\ live = {} /\ port = NoDash
    /\ shows = [d \in Dashes |-> NoBuild]
    /\ pids = {}
    /\ uiRestart = FALSE /\ apiRestart = FALSE /\ noUI = FALSE
    /\ crashes = 0 /\ runs = 0 /\ faults = 0 /\ hit = FALSE

-----------------------------------------------------------------------------
(* The children. *)

\* startAPI.
StartServer == api' = "starts" /\ build' = bin["cur"]

ServerAway(s) == api' = s /\ build' = build /\ UpdaterGone /\ UNCHANGED <<bin, out, broken, updates>>

\* stop of dashboards: they have exited.
End(D) ==
    /\ live' = live \ D
    /\ port' = IF port \in D THEN NoDash ELSE port
    /\ shows' = [d \in Dashes |-> IF d \in D THEN NoBuild ELSE shows[d]]

ServerUp ==
    /\ api = "starts" /\ build \in Builds \ broken
    /\ api' = "up"
    /\ UNCHANGED <<buildVars, dashVars, loopVars, sup, build, pids, runs, faults, hit>>

\* A build that does not come up exits at once, or only does not answer.
ServerDies ==
    /\ api = "starts" /\ build \in broken
    /\ ServerAway("crashed")
    /\ UNCHANGED <<dashVars, loopVars, sup, pids, runs, faults, hit>>

\* It crashes, or somebody ends it.
ServerFault ==
    /\ api \in {"starts", "up"} /\ faults < MaxFaults
    /\ faults' = faults + 1
    /\ \E s \in {"crashed", "stopped"} : ServerAway(s)
    /\ UNCHANGED <<dashVars, loopVars, sup, pids, runs, hit>>

\* Chats are shut down, then os.Exit(RestartCode).
ServerLeaves ==
    /\ api = "up" /\ leave
    /\ ServerAway("restart")
    /\ UNCHANGED <<dashVars, loopVars, sup, pids, runs, faults, hit>>

\* A person starts it.  Building takes longer than the supervisor needs from
\* one select to the next.
Updating ==
    /\ api = "up"
    /\ UpdateStart \/ UpdateFails \/ (sup = "loop" /\ UpdateBuilds) \/ Swap
    /\ UNCHANGED <<dashVars, loopVars, sup, api, build, pids, runs, faults, hit>>

DashListens(d) ==
    /\ d \in live /\ port = NoDash /\ shows[d] # NoBuild
    /\ port' = d
    /\ UNCHANGED <<buildVars, ui, live, shows, loopVars, sup, api, build, pids, runs, faults, hit>>

\* The port is taken, or there is nothing to run.
DashRefused(d) ==
    /\ d \in live /\ port # d
    /\ port # NoDash \/ shows[d] = NoBuild
    /\ End({d})
    /\ UNCHANGED <<buildVars, ui, loopVars, sup, api, build, pids, runs, faults, hit>>

DashFault(d) ==
    /\ d \in live /\ faults < MaxFaults
    /\ faults' = faults + 1 /\ hit' = TRUE
    /\ End({d})
    /\ UNCHANGED <<buildVars, ui, loopVars, sup, api, build, pids, runs>>

-----------------------------------------------------------------------------
(* The supervisor. *)

\* A supervisor starts: what the last one wrote down is ended (killOrphans),
\* then startAPI.
Run ==
    /\ sup = "off" /\ runs < MaxRuns /\ bin["cur"] # NoBuild
    /\ runs' = runs + 1
    /\ End(pids) /\ pids' = {} /\ ui' = NoDash
    /\ noUI' = (out["cur"] = NoBuild)
    /\ uiRestart' = FALSE /\ apiRestart' = FALSE /\ crashes' = 0
    /\ StartServer
    /\ sup' = "start_ui" /\ then' = "loop"
    /\ UNCHANGED <<buildVars, faults, hit>>

\* startUI, whatever ui was.
StartUI ==
    /\ sup = "start_ui"
    /\ sup' = "save"
    /\ IF noUI THEN UNCHANGED <<ui, live, shows>>
       ELSE \E d \in Dashes \ (live \cup pids) :
              /\ \A e \in Dashes \ (live \cup pids) : d <= e
              /\ ui' = d
              /\ live' = live \cup {d}
              /\ shows' = [shows EXCEPT ![d] = out["cur"]]
    /\ UNCHANGED <<buildVars, port, loopVars, api, build, pids, runs, faults, hit>>

SavePIDs ==
    /\ sup = "save"
    /\ pids' = {ui} \ {NoDash}
    /\ sup' = then
    /\ UNCHANGED <<buildVars, dashVars, loopVars, api, build, runs, faults, hit>>

\* The dashboard stopped: it is started again, after a time.  (Mistake: the
\* timer is not set.)
UiDoneOnly ==
    /\ sup = "loop" /\ ui # NoDash /\ ui \notin live
    /\ ui' = NoDash
    /\ UNCHANGED <<buildVars, live, shows, port, loopVars, sup, api, build, pids, runs, faults, hit>>
UiDone ==
    /\ sup = "loop" /\ ui # NoDash /\ ui \notin live
    /\ ui' = NoDash
    /\ uiRestart' = TRUE
    /\ UNCHANGED <<buildVars, live, shows, port, then, apiRestart, crashes, noUI,
                   sup, api, build, pids, runs, faults, hit>>

UiRestart ==
    /\ sup = "loop" /\ uiRestart
    /\ uiRestart' = FALSE
    /\ sup' = "start_ui" /\ then' = "loop"
    /\ UNCHANGED <<buildVars, dashVars, apiRestart, crashes, noUI, api, build, pids, runs, faults, hit>>

\* The supervisor exits, and leaves its dashboard to the next one when there is
\* no server to run.
ApiRestart ==
    /\ sup = "loop" /\ apiRestart
    /\ apiRestart' = FALSE
    /\ \/ /\ bin["cur"] # NoBuild
          /\ StartServer
          /\ sup' = "save" /\ then' = "loop" /\ ui' = ui
       \/ /\ bin["cur"] = NoBuild
          /\ sup' = "off" /\ ui' = NoDash
          /\ UNCHANGED <<api, build, then>>
    /\ UNCHANGED <<buildVars, live, shows, port, uiRestart, crashes, noUI, pids, runs, faults, hit>>

\* The server exited with RestartCode: both are started from the new build, the
\* timer of the dashboard stays as it is.  (Mistake: the old one is not stopped.)
UpdateRestartBeside ==
    /\ sup = "loop" /\ api = "restart"
    /\ ui' = NoDash
    /\ StartServer
    /\ sup' = "start_ui" /\ then' = "health"
    /\ UNCHANGED <<buildVars, live, shows, port, uiRestart, apiRestart, crashes, noUI, pids, runs, faults, hit>>
UpdateRestart ==
    /\ sup = "loop" /\ api = "restart"
    /\ End({ui}) /\ ui' = NoDash
    /\ StartServer
    /\ sup' = "start_ui" /\ then' = "health"
    /\ UNCHANGED <<buildVars, uiRestart, apiRestart, crashes, noUI, pids, runs, faults, hit>>

\* It exited with 0: so does the supervisor.
ServerStopped ==
    /\ sup = "loop" /\ api = "stopped"
    /\ End({ui}) /\ ui' = NoDash
    /\ api' = "none" /\ sup' = "off"
    /\ UNCHANGED <<buildVars, loopVars, build, pids, runs, faults, hit>>

\* It crashed: it is started again, after a time, unless it crashed too often
\* (one that ran for more than a minute does not count).
TooOften(n) == n >= GiveUp
ServerCrashed ==
    /\ sup = "loop" /\ api = "crashed"
    /\ api' = "none"
    /\ \E before \in {crashes, 0} :
         \/ /\ ~TooOften(before)
            /\ crashes' = before + 1
            /\ apiRestart' = TRUE
            /\ UNCHANGED <<dashVars, sup>>
         \/ /\ TooOften(before)
            /\ End({ui}) /\ ui' = NoDash /\ sup' = "off"
            /\ UNCHANGED <<crashes, apiRestart>>
    /\ UNCHANGED <<buildVars, then, uiRestart, noUI, build, pids, runs, faults, hit>>

\* Ctrl+C, the terminal is closed, or SIGTERM: seen in the select alone.
Signal ==
    /\ sup = "loop"
    /\ End({ui}) /\ ui' = NoDash
    /\ ServerAway("none")
    /\ pids' = {}
    /\ sup' = "off"
    /\ UNCHANGED <<loopVars, runs, faults, hit>>

\* The supervisor is killed.
Killed ==
    /\ sup # "off" /\ faults < MaxFaults
    /\ faults' = faults + 1 /\ hit' = TRUE
    /\ ServerAway("none")
    /\ ui' = NoDash /\ sup' = "off"
    /\ UNCHANGED <<live, shows, port, loopVars, pids, runs>>

\* healthy: the server answers, or it exited or 25 s have passed.  (Mistake: it
\* waits for the answer.)
HealthAnswers ==
    /\ sup = "health" /\ api = "up"
    /\ sup' = "loop" /\ crashes' = 0
    /\ UNCHANGED <<buildVars, dashVars, then, uiRestart, apiRestart, noUI, api, build, pids, runs, faults, hit>>
Health ==
    /\ sup = "health"
    /\ \/ /\ api = "up"
          /\ sup' = "loop" /\ crashes' = 0
          /\ UNCHANGED <<buildVars, dashVars, api, build>>
       \/ /\ api # "up"
          /\ End({ui}) /\ ui' = NoDash
          /\ ServerAway("none")
          /\ sup' = "back_bin" /\ UNCHANGED crashes
    /\ UNCHANGED <<then, uiRestart, apiRestart, noUI, pids, runs, faults, hit>>

\* Rollback: replace the server, then the dashboard, with the build before.
Rollback ==
    \/ /\ sup = "back_bin"
       /\ IF bin["prev"] = NoBuild THEN sup' = "again" /\ bin' = bin
                                   ELSE sup' = "place_bin" /\ bin' = Aside(bin, "failed")
       /\ out' = out
    \/ /\ sup = "place_bin" /\ sup' = "back_out"
       /\ bin' = Place(bin, "prev") /\ out' = out
    \/ /\ sup = "back_out"
       /\ IF out["prev"] = NoBuild THEN sup' = "again" /\ out' = out
                                   ELSE sup' = "place_out" /\ out' = Aside(out, "failed")
       /\ bin' = bin
    \/ /\ sup = "place_out" /\ sup' = "again"
       /\ out' = Place(out, "prev") /\ bin' = bin

PutBack ==
    /\ Rollback
    /\ UNCHANGED <<broken, updates, upd, leave, dashVars, loopVars, api, build, pids, runs, faults, hit>>

\* Both are started once more.
Again ==
    /\ sup = "again"
    /\ StartServer
    /\ sup' = "start_ui" /\ then' = "loop"
    /\ UNCHANGED <<buildVars, dashVars, uiRestart, apiRestart, crashes, noUI, pids, runs, faults, hit>>

Faults == ServerFault \/ Killed \/ \E d \in Dashes : DashFault(d)

Next ==
    \/ ServerUp \/ ServerDies \/ ServerLeaves \/ Updating
    \/ \E d \in Dashes : DashListens(d) \/ DashRefused(d)
    \/ Run \/ StartUI \/ SavePIDs \/ Health \/ PutBack \/ Again
    \/ UiDone \/ UiRestart \/ ApiRestart
    \/ UpdateRestart \/ ServerStopped \/ ServerCrashed \/ Signal
    \/ Faults

Spec == Init /\ [][Next]_vars

\* Processes run; a case of the select that stays ready is taken (select
\* chooses among those at random).  Nobody has to update, to stop or to start
\* office, and nothing has to fail.
Fairness ==
    /\ WF_vars(ServerUp)
    /\ WF_vars(ServerLeaves)
    /\ \A d \in Dashes : WF_vars(DashListens(d) \/ DashRefused(d))
    /\ WF_vars(StartUI \/ SavePIDs \/ Health \/ PutBack \/ Again)
    /\ SF_vars(UiDone)
    /\ SF_vars(UiRestart)
    /\ SF_vars(ApiRestart)
    /\ SF_vars(UpdateRestart \/ ServerStopped \/ ServerCrashed)

FairSpec == Spec /\ Fairness

-----------------------------------------------------------------------------
(* Properties. *)

\* "the previous build is kept as *.prev so the supervisor can roll back": a
\* server that comes up is on disk, in its place or as the one before,
\* wherever an update, its undoing or a rollback is, or was cut off.
KeepsGood == \E s \in {"cur", "prev"} : bin[s] # NoBuild /\ bin[s] \notin broken

\* "keep server and dashboard from the same build" (swap): those that an update
\* has started are both the build that is in place, whatever was cut before.
SameBuild == sup = "health" =>
    /\ build = bin["cur"] /\ build = out["cur"]
    /\ ui \in live => shows[ui] = build

\* No orphaned processes (ADR-031), as far as the code keeps it: an update, one
\* that does not come up, its rollback, a server that crashes or stops leave no
\* dashboard that neither the supervisor nor its file knows.  Once a dashboard
\* has gone down of itself, or the supervisor was killed, they may.
Strays == live \ ({ui} \cup pids)
NoStrays == Strays = {} \/ hit

\* "rolls back to the previous build if the new one does not come up": after an
\* update a server answers, the new or the one before, whatever goes down
\* meanwhile, or the supervisor is gone.
Recovers == sup = "health" ~> api = "up" \/ sup = "off"

\* "restarts them when they stop": a dashboard comes back as long as there is
\* one to run.
DashboardBack ==
    sup # "off" /\ port = NoDash ~>
        port # NoDash \/ sup = "off" \/ noUI \/ out["cur"] = NoBuild
=============================================================================
