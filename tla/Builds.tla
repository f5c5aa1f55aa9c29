------------------------------- MODULE Builds -------------------------------
(***************************************************************************)
(* How office builds itself anew and puts the new build in place           *)
(* (internal/selfupdate): the server and the dashboard on disk, each with  *)
(* the build beside it that is new, the one before and one that failed,    *)
(* and the updater, a goroutine of the server.  The supervisor puts the    *)
(* build before back with the same renames.                                *)
(*                                                                         *)
(* Builds are numbered as they are made.  A rename is one step and does    *)
(* not fail; what it replaces is removed in the step before it.            *)
(***************************************************************************)
EXTENDS Integers

CONSTANT MaxUpdates     \* bound: updates that are started

ASSUME UpdatesAssumption == MaxUpdates \in Nat

NoBuild == -1
Builds == 0 .. MaxUpdates
Slots == {"cur", "new", "prev", "failed"}

VARIABLES
    bin,      \* bin/office and beside it: the build in each place
    out,      \* the dashboard's .output and beside it
    broken,   \* the builds whose server does not come up
    updates,  \* updates started; the last one makes this build
    upd,      \* where the updater is ("failed" is "idle": it may start)
    leave     \* the server was asked to exit with RestartCode

buildVars == <<bin, out, broken, updates, upd, leave>>

UpdSteps == {"idle", "build", "bin", "place_bin", "out", "place_out",
             "undo", "place_undo", "restarting"}

BuildsTypeOK ==
    /\ bin \in [Slots -> Builds \cup {NoBuild}]
    /\ out \in [Slots -> Builds \cup {NoBuild}]
    /\ broken \subseteq Builds
    /\ updates \in 0 .. MaxUpdates
    /\ upd \in UpdSteps
    /\ leave \in BOOLEAN

\* Office was built by hand: build 0, which works.
BuildsInit ==
    /\ bin = [s \in Slots |-> IF s = "cur" THEN 0 ELSE NoBuild]
    /\ out = [s \in Slots |-> IF s = "cur" THEN 0 ELSE NoBuild]
    /\ broken = {}
    /\ updates = 0
    /\ upd = "idle"
    /\ leave = FALSE

\* replace in two steps: what is current goes to prev (what was there is
\* removed), then next takes its place.
Aside(d, prev) == [d EXCEPT ![prev] = d["cur"], !["cur"] = NoBuild]
Place(d, next) == [d EXCEPT !["cur"] = d[next], ![next] = NoBuild]

-----------------------------------------------------------------------------
(* The updater. *)

\* Start refuses (ErrBusy) while an update runs or office is to restart.
\* (Mistake: only while one runs.)
MayUpdateRunning == upd \in {"idle", "restarting"}
MayUpdate == upd = "idle"

UpdateStart ==
    /\ MayUpdate /\ updates < MaxUpdates
    /\ updates' = updates + 1
    /\ upd' = "build"
    /\ UNCHANGED <<bin, out, broken, leave>>

\* Pulling, building or a test fails: nothing that runs was touched (what is
\* left as new the next update makes again).
UpdateFails ==
    /\ upd = "build"
    /\ upd' = "idle"
    /\ UNCHANGED <<bin, out, broken, updates, leave>>

\* Everything compiled, which does not say that the server comes up, nor that
\* the dashboard is where it should be.
UpdateBuilds ==
    /\ upd = "build"
    /\ bin' = [bin EXCEPT !["new"] = updates]
    /\ \E b \in {updates, NoBuild} : out' = [out EXCEPT !["new"] = b]
    /\ \E B \in {{}, {updates}} : broken' = broken \cup B
    /\ upd' = "bin"
    /\ UNCHANGED <<updates, leave>>

\* swap: the server, then the dashboard.
SwapBin ==
    \/ upd = "bin" /\ bin' = Aside(bin, "prev") /\ upd' = "place_bin"
    \/ upd = "place_bin" /\ bin' = Place(bin, "new") /\ upd' = "out"

\* (Mistake: a dashboard that is not there is passed over.)
SwapOutAnyway ==
    \/ upd = "out" /\ out["new"] = NoBuild /\ out' = out /\ upd' = "restarting"
    \/ upd = "out" /\ out["new"] # NoBuild /\ out' = Aside(out, "prev") /\ upd' = "place_out"
    \/ upd = "place_out" /\ out' = Place(out, "new") /\ upd' = "restarting"
SwapOut ==
    \/ upd = "out" /\ out["new"] = NoBuild /\ out' = out /\ upd' = "undo"
    \/ upd = "out" /\ out["new"] # NoBuild /\ out' = Aside(out, "prev") /\ upd' = "place_out"
    \/ upd = "place_out" /\ out' = Place(out, "new") /\ upd' = "restarting"

\* "keep server and dashboard from the same build"; the update has failed.
SwapUndo ==
    \/ upd = "undo" /\ bin' = Aside(bin, "new") /\ upd' = "place_undo"
    \/ upd = "place_undo" /\ bin' = Place(bin, "prev") /\ upd' = "idle"

Swap ==
    /\ \/ (SwapBin \/ SwapUndo) /\ UNCHANGED <<out, leave>>
       \/ SwapOut /\ leave' = (upd' = "restarting") /\ UNCHANGED bin
    /\ UNCHANGED <<broken, updates>>

\* The server is gone, and its updater with it.
UpdaterGone == upd' = "idle" /\ leave' = FALSE
=============================================================================
