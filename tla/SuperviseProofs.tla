-------------------------- MODULE SuperviseProofs --------------------------
(***************************************************************************)
(* Whatever goes down at which step, however many updates there are: a     *)
(* server that comes up is on disk, an update starts a server and a        *)
(* dashboard of the same build, and only a dashboard or a supervisor that  *)
(* goes down of itself makes a dashboard that nobody knows.                *)
(***************************************************************************)
EXTENDS Supervise, FiniteSetTheorems, TLAPS

Good(s) == bin[s] \in Builds \ broken

\* The updater has not touched what is in place.
Early == {"idle", "build", "bin"}
\* The supervisor starts what an update made, or waits whether it answers.
Starting == sup \in {"start_ui", "save", "health"} /\ then = "health"
Back == {"back_bin", "place_bin"}
Restored == {"back_out", "place_out", "again"}

\* The build that is being made is in no place yet.
Numbered ==
    /\ \A s \in Slots : bin[s] <= updates
    /\ build <= updates /\ \A b \in broken : b <= updates
Fresh == upd = "build" =>
    /\ \A s \in Slots : bin[s] < updates
    /\ build < updates /\ \A b \in broken : b < updates

\* The updater lives in a server that answers; the build that it runs is in
\* place, and from the swap on the one before.
Running ==
    /\ api = "up" => build \in Builds \ broken
    /\ upd # "idle" => api = "up"
    /\ leave => upd = "restarting"
    /\ api \in {"starts", "up"} /\ upd \in Early => build = bin["cur"]
    /\ upd \notin Early => build = bin["prev"]

\* The server that asked to be replaced is the one to go back to.
Kept ==
    /\ api = "restart" \/ Starting \/ sup \in Back => Good("prev")
    /\ sup \in Restored => Good("cur")
    /\ Starting => upd \in {"idle", "build"}
    /\ sup \in Back \cup Restored \cup {"off"} => api = "none"
    /\ apiRestart /\ sup # "off" => api = "none"
    /\ Starting \/ sup \in Back \cup Restored => ~apiRestart
    /\ sup = "health" => then = "health"

GoodInv == TypeOK /\ Numbered /\ Fresh /\ Running /\ Kept /\ KeepsGood

\* What an update has put in place, from step to step.
Made ==
    /\ upd \in {"bin", "place_bin"} => bin["new"] = updates
    /\ upd \in {"out", "place_out", "restarting"} => bin["cur"] = updates
    /\ upd \in {"bin", "place_bin", "out"} => out["new"] \in {updates, NoBuild}
    /\ upd = "place_out" => out["new"] = updates
    /\ upd = "restarting" => out["cur"] = updates
Pair ==
    /\ api = "restart" => bin["cur"] = out["cur"]
    /\ Starting => build = bin["cur"] /\ build = out["cur"]
    /\ Starting => IF sup = "start_ui" THEN ui = NoDash ELSE ui \in live => shows[ui] = build
PairInv == GoodInv /\ Made /\ Pair
-----------------------------------------------------------------------------
\* The two halves of replace leave a build, or none, in every place.
LEMMA Renamed ==
  ASSUME NEW d \in [Slots -> Builds \cup {NoBuild}], NEW s \in Slots \ {"cur"}
  PROVE  /\ Aside(d, s) \in [Slots -> Builds \cup {NoBuild}]
         /\ Place(d, s) \in [Slots -> Builds \cup {NoBuild}]
         /\ Aside(d, s)["cur"] = NoBuild /\ Aside(d, s)[s] = d["cur"]
         /\ Place(d, s)["cur"] = d[s] /\ Place(d, s)[s] = NoBuild
         /\ \A t \in Slots \ {"cur", s} : Aside(d, s)[t] = d[t] /\ Place(d, s)[t] = d[t]
  BY DEF Aside, Place, Slots

\* Dashboards that are ended no longer run and no longer have the port; the
\* others go on.
LEMMA Ended ==
  ASSUME TypeOK, NEW D, End(D)
  PROVE  /\ live' \subseteq live /\ port' \in live' \cup {NoDash}
         /\ shows' \in [Dashes -> Builds \cup {NoBuild}]
         /\ \A d \in live' : shows'[d] = shows[d]
  BY DEF TypeOK, BuildsTypeOK, End

\* The office that was built by hand.
LEMMA InitGood == Init => PairInv
<1> SUFFICES ASSUME Init PROVE PairInv
  OBVIOUS
<1>1. 0 \in Builds /\ NoBuild <= 0
  BY UpdatesAssumption DEF Builds, NoBuild
<1>2. TypeOK
  <2>1. BuildsTypeOK
    <3>1. bin \in [Slots -> Builds \cup {NoBuild}] /\ out \in [Slots -> Builds \cup {NoBuild}]
      BY <1>1 DEF Init, BuildsInit
    <3>2. broken \subseteq Builds /\ updates \in 0 .. MaxUpdates
      BY UpdatesAssumption DEF Init, BuildsInit
    <3>3. upd \in UpdSteps /\ leave \in BOOLEAN
      BY DEF Init, BuildsInit, UpdSteps
    <3> QED BY <3>1, <3>2, <3>3 DEF BuildsTypeOK
  <2>2. sup \in Steps /\ runs \in 0 .. MaxRuns /\ faults \in 0 .. MaxFaults /\ crashes \in 0 .. GiveUp
    BY SuperviseAssumption DEF Init, Steps
  <2> QED BY <2>1, <2>2 DEF Init, TypeOK
<1>3. /\ \A s \in Slots : bin[s] \in {0, NoBuild}
      /\ bin["cur"] = 0 /\ 0 # NoBuild /\ build = NoBuild /\ updates = 0 /\ broken = {}
      /\ upd = "idle" /\ leave = FALSE /\ api = "none" /\ sup = "off" /\ then = "loop"
  BY DEF Init, BuildsInit, Slots, NoBuild
<1>4. Numbered /\ Fresh /\ Running
  BY <1>1, <1>3 DEF Numbered, Fresh, Running, Early
<1>5. Kept /\ KeepsGood /\ Made /\ Pair
  BY <1>3 DEF Kept, KeepsGood, Made, Pair, Starting, Back, Restored, Init
<1> QED
  BY <1>2, <1>4, <1>5 DEF PairInv, GoodInv

\* A step of the updater.
LEMMA UpdateTypes ==
  ASSUME TypeOK, UpdateStart \/ UpdateFails \/ UpdateBuilds \/ Swap
  PROVE  BuildsTypeOK'
<1> USE DEF TypeOK, BuildsTypeOK
<1>1. \A s \in Slots \ {"cur"} :
        /\ {Aside(bin, s), Place(bin, s)} \subseteq [Slots -> Builds \cup {NoBuild}]
        /\ {Aside(out, s), Place(out, s)} \subseteq [Slots -> Builds \cup {NoBuild}]
  BY Renamed
<1>2. {"new", "prev", "failed"} = Slots \ {"cur"} /\ updates \in Builds
  BY DEF Slots, Builds
<1>3. CASE UpdateStart
  BY <1>3, UpdatesAssumption DEF UpdateStart, UpdSteps, Builds
<1>4. CASE UpdateFails
  BY <1>4 DEF UpdateFails, UpdSteps
<1>5. CASE UpdateBuilds
  <2>1. /\ bin' = [bin EXCEPT !["new"] = updates]
        /\ \E b \in {updates, NoBuild} : out' = [out EXCEPT !["new"] = b]
        /\ broken' \subseteq Builds
    BY <1>2, <1>5 DEF UpdateBuilds
  <2>2. bin' \in [Slots -> Builds \cup {NoBuild}] /\ out' \in [Slots -> Builds \cup {NoBuild}]
    BY <1>2, <2>1
  <2>3. upd' \in UpdSteps /\ updates' = updates /\ leave' = leave
    BY <1>5 DEF UpdateBuilds, UpdSteps
  <2> QED BY <2>1, <2>2, <2>3
<1>6. CASE Swap
  <2>1. bin' \in [Slots -> Builds \cup {NoBuild}] /\ out' \in [Slots -> Builds \cup {NoBuild}]
    BY <1>1, <1>2, <1>6 DEF Swap, SwapBin, SwapUndo, SwapOut
  <2>2. upd' \in UpdSteps /\ leave' \in BOOLEAN
    BY <1>6 DEF Swap, SwapBin, SwapUndo, SwapOut, UpdSteps
  <2> QED BY <1>6, <2>1, <2>2 DEF Swap
<1> QED
  BY <1>3, <1>4, <1>5, <1>6

\* The server is gone.
LEMMA Away ==
  ASSUME TypeOK, NEW s \in {"none"} \cup Exited, ServerAway(s)
  PROVE  BuildsTypeOK' /\ build' = build /\ api' = s /\ api' \in {"none", "starts", "up"} \cup Exited
<1>1. bin' = bin /\ out' = out /\ broken' = broken /\ updates' = updates /\ build' = build /\ api' = s
  BY DEF ServerAway
<1>2. upd' \in UpdSteps /\ leave' \in BOOLEAN
  BY DEF ServerAway, UpdaterGone, UpdSteps
<1> QED
  BY <1>1, <1>2 DEF TypeOK, BuildsTypeOK

\* Every step keeps the types.
LEMMA StepTypes == ASSUME TypeOK, [Next]_vars PROVE TypeOK'
<1> USE DEF TypeOK
<1>0. /\ Builds \cup {NoBuild} = (Builds \cup {NoBuild})' /\ bin["cur"] \in Builds \cup {NoBuild}
      /\ MaxRuns \in Nat /\ MaxFaults \in Nat /\ GiveUp \in Nat
  BY SuperviseAssumption DEF BuildsTypeOK, Slots
<1>1. CASE ServerUp
  BY <1>1 DEF ServerUp, buildVars, dashVars, loopVars, BuildsTypeOK
<1>2. CASE ServerDies \/ ServerFault \/ ServerLeaves
  <2>1. /\ \E s \in Exited : ServerAway(s)
        /\ UNCHANGED <<dashVars, loopVars, sup, pids, runs, hit>> /\ faults' \in 0 .. MaxFaults
    BY <1>0, <1>2 DEF ServerDies, ServerFault, ServerLeaves, Exited
  <2>2. /\ BuildsTypeOK' /\ build' = build
        /\ api' \in {"none", "starts", "up"} \cup Exited
    BY <2>1, Away
  <2> QED BY <2>1, <2>2 DEF dashVars, loopVars
<1>3. CASE Updating
  BY <1>3, UpdateTypes DEF Updating, dashVars, loopVars
<1>4. ASSUME NEW d \in Dashes, DashListens(d) PROVE TypeOK'
  BY <1>4 DEF DashListens, buildVars, loopVars, BuildsTypeOK
<1>5. ASSUME NEW d \in Dashes, DashRefused(d) \/ DashFault(d) PROVE TypeOK'
  <2>1. End({d}) /\ ui' = ui /\ faults' \in 0 .. MaxFaults
    BY <1>0, <1>5 DEF DashRefused, DashFault
  <2>2. live' \subseteq live /\ port' \in live' \cup {NoDash} /\ shows' \in [Dashes -> Builds \cup {NoBuild}]
    BY <2>1, Ended
  <2> QED BY <1>5, <2>1, <2>2 DEF DashRefused, DashFault, buildVars, loopVars, BuildsTypeOK
<1>6. CASE Run
  <2>1. End(pids)
    BY <1>6 DEF Run
  <2>2. live' \subseteq live /\ port' \in live' \cup {NoDash} /\ shows' \in [Dashes -> Builds \cup {NoBuild}]
    BY <2>1, Ended
  <2>3. noUI' \in BOOLEAN
    BY <1>6 DEF Run
  <2>4. runs' \in 0 .. MaxRuns /\ crashes' \in 0 .. GiveUp
    BY <1>0, <1>6 DEF Run
  <2>5. BuildsTypeOK'
    BY <1>6 DEF Run, buildVars, BuildsTypeOK
  <2>6. /\ pids' = {} /\ ui' = NoDash /\ faults' = faults /\ uiRestart' = FALSE /\ apiRestart' = FALSE
        /\ api' = "starts" /\ build' = bin["cur"] /\ sup' = "start_ui" /\ then' = "loop"
    BY <1>6 DEF Run, StartServer
  <2>7. hit' = hit
    BY <1>6 DEF Run
  <2> QED BY <1>0, <2>2, <2>3, <2>4, <2>5, <2>6, <2>7 DEF Steps
<1>7. CASE StartUI
  <2>1. out["cur"] \in Builds \cup {NoBuild}
    BY DEF BuildsTypeOK, Slots
  <2> QED BY <1>7, <2>1 DEF StartUI, buildVars, loopVars, BuildsTypeOK, Steps
<1>8. CASE SavePIDs
  BY <1>8 DEF SavePIDs, buildVars, dashVars, loopVars, BuildsTypeOK, Steps
<1>9. CASE Health
  <2>1. CASE api = "up"
    BY <1>0, <1>9, <2>1 DEF Health, buildVars, dashVars, BuildsTypeOK, Steps
  <2>2. CASE api # "up"
    <3>1. End({ui})
      BY <1>9, <2>2 DEF Health
    <3>2. live' \subseteq live /\ port' \in live' \cup {NoDash} /\ shows' \in [Dashes -> Builds \cup {NoBuild}]
      BY <3>1, Ended
    <3> QED BY <1>9, <2>2, <3>2 DEF Health, ServerAway, UpdaterGone, BuildsTypeOK, Steps, UpdSteps
  <2> QED BY <2>1, <2>2
<1>10. CASE PutBack
  <2>1. \A s \in {"prev", "failed"} : s \in Slots \ {"cur"}
    BY DEF Slots
  <2>2. bin' \in [Slots -> Builds \cup {NoBuild}] /\ out' \in [Slots -> Builds \cup {NoBuild}]
    BY <1>10, <2>1, Renamed DEF PutBack, Rollback, BuildsTypeOK
  <2> QED BY <1>10, <2>2 DEF PutBack, Rollback, dashVars, loopVars, BuildsTypeOK, Steps
<1>11. CASE Again
  BY <1>0, <1>11 DEF Again, StartServer, buildVars, dashVars, BuildsTypeOK, Steps
<1>12. CASE UiDone
  BY <1>12 DEF UiDone, buildVars, BuildsTypeOK
<1>13. CASE UiRestart
  BY <1>13 DEF UiRestart, buildVars, dashVars, BuildsTypeOK, Steps
<1>14. CASE ApiRestart
  BY <1>0, <1>14 DEF ApiRestart, StartServer, buildVars, BuildsTypeOK, Steps
<1>15. CASE UpdateRestart \/ ServerStopped \/ Signal
  <2>1. End({ui})
    BY <1>15 DEF UpdateRestart, ServerStopped, Signal
  <2>2. live' \subseteq live /\ port' \in live' \cup {NoDash} /\ shows' \in [Dashes -> Builds \cup {NoBuild}]
    BY <2>1, Ended
  <2>3. hit' \in BOOLEAN
    BY <1>15 DEF UpdateRestart, ServerStopped, Signal
  <2> QED BY <1>0, <1>15, <2>2, <2>3 DEF UpdateRestart, ServerStopped, Signal, StartServer, ServerAway, UpdaterGone,
                                buildVars, loopVars, BuildsTypeOK, Steps, UpdSteps
<1>16. CASE ServerCrashed
  <2>1. PICK before \in {crashes, 0} :
          \/ ~TooOften(before) /\ crashes' = before + 1 /\ UNCHANGED <<dashVars, sup>> /\ apiRestart' = TRUE
          \/ End({ui}) /\ ui' = NoDash /\ sup' = "off" /\ UNCHANGED <<crashes, apiRestart>>
    BY <1>16 DEF ServerCrashed
  <2>2. CASE ~TooOften(before) /\ crashes' = before + 1 /\ UNCHANGED <<dashVars, sup>> /\ apiRestart' = TRUE
    BY <1>0, <1>16, <2>2 DEF ServerCrashed, TooOften, buildVars, dashVars, BuildsTypeOK
  <2>3. CASE End({ui}) /\ ui' = NoDash /\ sup' = "off" /\ UNCHANGED <<crashes, apiRestart>>
    <3>1. live' \subseteq live /\ port' \in live' \cup {NoDash} /\ shows' \in [Dashes -> Builds \cup {NoBuild}]
      BY <2>3, Ended
    <3> QED BY <1>16, <2>3, <3>1 DEF ServerCrashed, buildVars, BuildsTypeOK, Steps
  <2> QED BY <2>1, <2>2, <2>3
<1>17. CASE Killed
  <2>1. /\ BuildsTypeOK' /\ build' = build
        /\ api' \in {"none", "starts", "up"} \cup Exited
    BY <1>17, Away DEF Killed
  <2>2. sup' \in Steps /\ ui' = NoDash /\ faults' \in 0 .. MaxFaults
    BY <1>0, <1>17 DEF Killed, Steps
  <2> QED BY <1>17, <2>1, <2>2 DEF Killed, loopVars
<1>18. CASE UNCHANGED vars
  BY <1>18 DEF vars, buildVars, dashVars, loopVars, BuildsTypeOK
<1> QED
  BY <1>1, <1>2, <1>3, <1>4, <1>5, <1>6, <1>7, <1>8, <1>9, <1>10, <1>11, <1>12, <1>13, <1>14, <1>15,
     <1>16, <1>17, <1>18 DEF Next, Faults

\* The dashboards and the supervisor's files have no part in it.
LEMMA Aloof ==
  ASSUME GoodInv, UNCHANGED <<bin, broken, updates, upd, leave, build>>,
         api' = api \/ (api' = "up" /\ api = "starts" /\ build \in Builds \ broken)
           \/ (api' = "none" /\ api \in Exited),
         Starting' => Starting, sup' \in Back \cup Restored => sup' = sup,
         sup' = "off" => api' = "none", sup = "off" => sup' = "off", sup' = "health" => then' = "health",
         apiRestart' => \/ apiRestart
                        \/ api' = "none" /\ ~Starting' /\ sup' \notin Back \cup Restored
  PROVE  (Numbered /\ Fresh /\ Running /\ Kept /\ KeepsGood)'
<1>1. Numbered' /\ Fresh' /\ KeepsGood'
  BY DEF GoodInv, Numbered, Fresh, KeepsGood
<1>2. Running'
  BY DEF GoodInv, Running, Exited
<1>3. Kept'
  BY DEF GoodInv, Kept, Good, Exited
<1> QED
  BY <1>1, <1>2, <1>3

\* With its server an updater is gone; one that asked for it can be gone back to.
LEMMA Gone ==
  ASSUME GoodInv, NEW s \in Exited \cup {"none"}, ServerAway(s),
         s = "restart" => api = "up" /\ leave,
         \/ sup' = sup /\ then' = then /\ api # "none"
         \/ s = "none" /\ sup' = "off"
         \/ s = "none" /\ sup = "health" /\ sup' = "back_bin",
         apiRestart' = apiRestart
  PROVE  (Numbered /\ Fresh /\ Running /\ Kept /\ KeepsGood)'
<1>1. /\ UNCHANGED <<bin, broken, updates, build>> /\ api' = s /\ upd' = "idle" /\ leave' = FALSE
  BY DEF ServerAway, UpdaterGone
<1>2. Numbered' /\ Fresh' /\ KeepsGood'
  BY <1>1 DEF GoodInv, Numbered, Fresh, KeepsGood
<1>3. Running'
  BY <1>1 DEF Running, Exited, Early
<1>4. Kept'
  BY <1>1 DEF GoodInv, Kept, Running, Good, Starting, Exited, Back, Restored, Early
<1> QED
  BY <1>2, <1>3, <1>4

\* No updater is at work when a server is started.
LEMMA Started ==
  ASSUME GoodInv, StartServer, api \in {"none", "restart"},
         UNCHANGED <<bin, broken, updates, upd, leave>>,
         sup' \in {"start_ui", "save"}, then' \in {"loop", "health"},
         then' = "health" => api = "restart", ~apiRestart'
  PROVE  (Numbered /\ Fresh /\ Running /\ Kept /\ KeepsGood)'
<1>1. upd = "idle" /\ api' = "starts" /\ build' = bin["cur"] /\ "cur" \in Slots
  BY DEF GoodInv, Running, StartServer, Slots
<1>2. Numbered' /\ Fresh' /\ KeepsGood'
  BY <1>1 DEF GoodInv, Numbered, Fresh, KeepsGood
<1>3. Running'
  BY <1>1 DEF GoodInv, Running, Early
<1>4. Kept'
  BY <1>1 DEF GoodInv, Kept, Good, Starting, Back, Restored
<1> QED
  BY <1>2, <1>3, <1>4

\* An update leaves the running build in place until it sets it aside.
LEMMA Updated ==
  ASSUME GoodInv, Updating
  PROVE  (Numbered /\ Fresh /\ Running /\ Kept /\ KeepsGood)'
<1>1. /\ api = "up" /\ api' = "up" /\ UNCHANGED <<build, sup, then, apiRestart>>
      /\ build \in Builds \ broken /\ build <= updates /\ NoBuild \notin Builds
      /\ sup \notin Back \cup Restored \cup {"off"} /\ ~(apiRestart /\ sup # "off")
      /\ (Starting => upd \in {"idle", "build"}) /\ Starting' = Starting
      /\ (Starting => Good("prev")) /\ (sup = "health" => then = "health")
  BY DEF GoodInv, Updating, Running, Kept, Numbered, loopVars, Builds, NoBuild, Starting
<1>2. /\ bin \in [Slots -> Builds \cup {NoBuild}] /\ \A b \in Builds : NoBuild <= b
      /\ updates \in Builds /\ broken \subseteq Builds /\ {"cur", "prev", "new", "failed"} = Slots
  BY DEF GoodInv, TypeOK, BuildsTypeOK, Builds, NoBuild, Slots
<1>3. CASE UpdateStart
  <2>1. /\ UNCHANGED <<bin, broken, leave>> /\ updates' = updates + 1 /\ upd = "idle" /\ upd' = "build"
    BY <1>3 DEF UpdateStart, MayUpdate
  <2>2. Numbered' /\ Fresh'
    BY <1>1, <1>2, <2>1 DEF GoodInv, Numbered, Fresh, Builds, NoBuild
  <2>3. Running' /\ Kept' /\ KeepsGood'
    BY <1>1, <2>1 DEF GoodInv, Running, Kept, KeepsGood, Early, Good
  <2> QED BY <2>2, <2>3
<1>4. CASE UpdateFails
  <2>1. /\ UNCHANGED <<bin, broken, leave, updates>> /\ upd = "build" /\ upd' = "idle"
    BY <1>4 DEF UpdateFails
  <2>2. Numbered' /\ Fresh'
    BY <1>1, <2>1 DEF GoodInv, Numbered, Fresh
  <2>3. Running' /\ Kept' /\ KeepsGood'
    BY <1>1, <2>1 DEF GoodInv, Running, Kept, KeepsGood, Early, Good
  <2> QED BY <2>2, <2>3
<1>5. CASE sup = "loop" /\ UpdateBuilds
  <2>1. /\ bin' = [bin EXCEPT !["new"] = updates] /\ broken' \subseteq broken \cup {updates}
        /\ upd = "build" /\ upd' = "bin" /\ UNCHANGED <<leave, updates>> /\ build < updates
    BY <1>5 DEF UpdateBuilds, GoodInv, Fresh
  <2>2. /\ bin'["new"] = updates /\ \A s \in Slots \ {"new"} : bin'[s] = bin[s] /\ bin[s] < updates
    BY <1>2, <2>1 DEF GoodInv, Fresh
  <2>3. Numbered' /\ Fresh'
    BY <1>1, <1>2, <2>1, <2>2 DEF GoodInv, Numbered, Fresh, Builds
  <2>4. Running'
    BY <1>1, <1>2, <2>1, <2>2 DEF GoodInv, Running, Early, Builds
  <2>5. Kept' /\ KeepsGood'
    BY <1>1, <1>2, <1>5, <2>1, <2>2 DEF GoodInv, Kept, KeepsGood, Starting, Builds
  <2> QED BY <2>3, <2>4, <2>5
<1>6. ASSUME Swap
      PROVE  /\ \A s \in Slots : bin'[s] <= updates
             /\ upd' \in Early => build = bin'["cur"]
             /\ upd' \notin Early => build = bin'["prev"]
  <2>2. /\ \A s \in Slots : bin[s] <= updates
        /\ upd \in Early => build = bin["cur"]
        /\ upd \notin Early => build = bin["prev"]
        /\ NoBuild <= updates
    BY <1>1, <1>2 DEF GoodInv, Numbered, Running
  <2>3. \A s \in {"prev", "new"} :
          /\ Aside(bin, s)["cur"] = NoBuild /\ Aside(bin, s)[s] = bin["cur"]
          /\ Place(bin, s)["cur"] = bin[s] /\ Place(bin, s)[s] = NoBuild
          /\ \A t \in Slots \ {"cur", s} : Aside(bin, s)[t] = bin[t] /\ Place(bin, s)[t] = bin[t]
    BY <1>2, Renamed
  <2>4. CASE upd = "bin" /\ bin' = Aside(bin, "prev") /\ upd' = "place_bin"
    BY <1>2, <2>2, <2>3, <2>4 DEF Early
  <2>5. CASE upd = "place_bin" /\ bin' = Place(bin, "new") /\ upd' = "out"
    BY <1>2, <2>2, <2>3, <2>5 DEF Early
  <2>6. CASE upd = "undo" /\ bin' = Aside(bin, "new") /\ upd' = "place_undo"
    BY <1>2, <2>2, <2>3, <2>6 DEF Early
  <2>7. CASE upd = "place_undo" /\ bin' = Place(bin, "prev") /\ upd' = "idle"
    BY <1>2, <2>2, <2>3, <2>7 DEF Early
  <2>8. CASE SwapOut /\ bin' = bin
    <3>1. upd \notin Early /\ upd' \notin Early
      BY <2>8 DEF SwapOut, Early
    <3> QED BY <2>2, <2>8, <3>1
  <2> QED BY <1>6, <2>4, <2>5, <2>6, <2>7, <2>8 DEF Swap, SwapBin, SwapUndo
<1>7. CASE Swap
  <2>1. /\ UNCHANGED <<broken, updates>> /\ upd # "idle" /\ upd # "build" /\ upd' # "build" /\ ~Starting
    BY <1>1, <1>7 DEF Swap, SwapBin, SwapOut, SwapUndo
  <2>4. leave' => upd' = "restarting"
    <3>1. CASE (SwapBin \/ SwapUndo) /\ UNCHANGED <<out, leave>>
      BY <3>1 DEF SwapBin, SwapUndo, GoodInv, Running
    <3>2. CASE leave' = (upd' = "restarting")
      BY <3>2, Zenon
    <3> QED BY <1>7, <3>1, <3>2 DEF Swap
  <2>2. Numbered' /\ Fresh'
    BY <1>1, <1>6, <1>7, <2>1 DEF GoodInv, Numbered, Fresh
  <2>3. Running' /\ Kept' /\ KeepsGood'
    BY <1>1, <1>2, <1>6, <1>7, <2>1, <2>4 DEF Running, Kept, KeepsGood, Early
  <2> QED BY <2>2, <2>3
<1> QED
  BY <1>3, <1>4, <1>5, <1>7 DEF Updating

\* A rollback puts the build before in place.
LEMMA PutInPlace ==
  ASSUME GoodInv, PutBack
  PROVE  (Numbered /\ Fresh /\ Running /\ Kept /\ KeepsGood)'
<1>1. /\ api = "none" /\ UNCHANGED <<broken, updates, upd, leave, api, build>>
      /\ ~apiRestart /\ apiRestart' = apiRestart
      /\ upd = "idle" /\ ~leave
      /\ (sup \in Back => Good("prev")) /\ (sup \in Restored => Good("cur"))
      /\ NoBuild \notin Builds /\ NoBuild <= updates
      /\ bin \in [Slots -> Builds \cup {NoBuild}] /\ {"cur", "prev", "new", "failed"} = Slots
  BY DEF GoodInv, PutBack, Rollback, loopVars, Running, Kept, Back, Restored, TypeOK, BuildsTypeOK,
         Builds, NoBuild, Slots
<1>2. \A s \in {"prev", "failed"} :
        /\ Aside(bin, s)["cur"] = NoBuild /\ Aside(bin, s)[s] = bin["cur"]
        /\ Place(bin, s)["cur"] = bin[s] /\ Place(bin, s)[s] = NoBuild
        /\ \A t \in Slots \ {"cur", s} : Aside(bin, s)[t] = bin[t] /\ Place(bin, s)[t] = bin[t]
  BY <1>1, Renamed
<1>3. /\ \A s \in Slots : bin'[s] <= updates
      /\ sup' \in Back => Good("prev")'
      /\ sup' \notin Back => Good("cur")'
      /\ sup' \in Back \cup Restored
  <2>1. \A s \in Slots : bin[s] <= updates
    BY DEF GoodInv, Numbered
  <2>2. CASE sup = "back_bin"
    BY <1>1, <1>2, <2>1, <2>2 DEF PutBack, Rollback, Good, Back, Restored
  <2>3. CASE sup = "place_bin"
    BY <1>1, <1>2, <2>1, <2>3 DEF PutBack, Rollback, Good, Back, Restored
  <2>4. CASE sup \in {"back_out", "place_out"}
    BY <1>1, <2>1, <2>4 DEF PutBack, Rollback, Good, Back, Restored
  <2> QED BY <2>2, <2>3, <2>4 DEF PutBack, Rollback
<1>4. Numbered' /\ Fresh' /\ Running'
  BY <1>1, <1>3 DEF GoodInv, Numbered, Fresh, Running, Early
<1>5. Kept' /\ KeepsGood'
  BY <1>1, <1>3 DEF Kept, KeepsGood, Good, Starting, Back, Restored
<1> QED
  BY <1>4, <1>5

\* Each action is one of the kinds above.
LEMMA StepGood == ASSUME GoodInv, [Next]_vars PROVE GoodInv'
<1> DEFINE G == Numbered /\ Fresh /\ Running /\ Kept /\ KeepsGood
<1> SUFFICES G'
  BY StepTypes DEF GoodInv
<1>1. CASE ServerUp
  BY <1>1, Aloof DEF ServerUp, buildVars, loopVars, Starting, GoodInv, Kept
<1>2. CASE ServerDies \/ ServerFault \/ ServerLeaves
  <2>1. PICK s \in Exited : ServerAway(s) /\ (s = "restart" => api = "up" /\ leave)
    BY <1>2 DEF ServerDies, ServerFault, ServerLeaves, Exited
  <2>2. sup' = sup /\ then' = then /\ apiRestart' = apiRestart /\ api # "none"
    BY <1>2 DEF ServerDies, ServerFault, ServerLeaves, loopVars
  <2>3. s \in Exited \cup {"none"}
    BY <2>1
  <2> QED BY <2>1, <2>2, <2>3, Gone
<1>3. CASE Updating
  BY <1>3, Updated
<1>4. ASSUME NEW d \in Dashes, DashListens(d) \/ DashRefused(d) \/ DashFault(d) PROVE G'
  BY <1>4, Aloof DEF DashListens, DashRefused, DashFault, buildVars, loopVars, Starting, GoodInv, Kept
<1>5. CASE Run
  <2>1. api = "none"
    BY <1>5 DEF GoodInv, Kept, Run
  <2> QED BY <1>5, <2>1, Started DEF Run, buildVars
<1>6. CASE StartUI \/ SavePIDs
  <2>1. CASE StartUI
    BY <1>6, <2>1, Aloof DEF StartUI, buildVars, loopVars, dashVars, Starting, Back, Restored
  <2>2. CASE SavePIDs
    BY <1>6, <2>2, Aloof DEF SavePIDs, buildVars, loopVars, dashVars, Starting, GoodInv, TypeOK, Back, Restored
  <2> QED BY <1>6, <2>1, <2>2
<1>7. CASE Health
  <2>1. CASE api = "up"
    BY <1>7, <2>1, Aloof DEF Health, buildVars, Starting, Back, Restored
  <2>2. CASE api # "up"
    <3>1. sup = "health" /\ sup' = "back_bin" /\ ServerAway("none") /\ apiRestart' = apiRestart /\ then' = then
      BY <1>7, <2>2 DEF Health
    <3> QED BY <3>1, Gone DEF GoodInv
  <2> QED BY <2>1, <2>2
<1>8. CASE PutBack
  BY <1>8, PutInPlace
<1>9. CASE Again
  <2>1. api = "none" /\ ~apiRestart
    BY <1>9 DEF GoodInv, Kept, Again, Restored
  <2> QED BY <1>9, <2>1, Started DEF Again, buildVars
<1>10. CASE UiDone \/ UiRestart
  BY <1>10, Aloof DEF UiDone, UiRestart, buildVars, dashVars, Starting, Back, Restored
<1>11. CASE ApiRestart
  <2>1. api = "none"
    BY <1>11 DEF GoodInv, Kept, ApiRestart
  <2>2. CASE bin["cur"] # NoBuild
    BY <1>11, <2>1, <2>2, Started DEF ApiRestart, buildVars
  <2>3. CASE bin["cur"] = NoBuild
    BY <1>11, <2>1, <2>3, Aloof DEF ApiRestart, buildVars, Starting, Back, Restored
  <2> QED BY <2>2, <2>3
<1>12. CASE UpdateRestart
  <2>1. ~apiRestart
    BY <1>12 DEF GoodInv, Kept, UpdateRestart
  <2> QED BY <1>12, <2>1, Started DEF UpdateRestart, buildVars
<1>13. CASE ServerStopped \/ ServerCrashed
  BY <1>13, Aloof
  DEF ServerStopped, ServerCrashed, buildVars, dashVars, loopVars, Starting, Back, Restored, Exited
<1>14. CASE Signal \/ Killed
  <2>1. ServerAway("none") /\ sup' = "off" /\ apiRestart' = apiRestart
    BY <1>14 DEF Signal, Killed, loopVars
  <2> QED BY <2>1, Gone
<1>15. CASE UNCHANGED vars
  BY <1>15, Aloof DEF vars, buildVars, loopVars, Starting, GoodInv, Kept
<1> QED
  BY <1>1, <1>2, <1>3, <1>4, <1>5, <1>6, <1>7, <1>8, <1>9, <1>10, <1>11, <1>12, <1>13, <1>14, <1>15
  DEF Next, Faults

\* Where no update has to do with it.
LEMMA Unpaired ==
  ASSUME PairInv, ~Starting', api' # "restart",
         upd' = "idle" \/ UNCHANGED <<bin, out, updates, upd>>
  PROVE  (Made /\ Pair)'
<1>1. Made'
  BY DEF PairInv, Made
<1>2. Pair'
  BY DEF Pair
<1> QED
  BY <1>1, <1>2

\* What an update started stays as it is until the supervisor has seen it answer.
LEMMA StaysPaired ==
  ASSUME PairInv, UNCHANGED <<bin, out, updates, build>>, upd' = upd \/ upd' \in {"idle", "build"},
         api' = "restart" => api = "restart" \/ (api = "up" /\ leave),
         Starting' => /\ Starting /\ ui' = ui /\ live' \subseteq live
                      /\ sup' = "start_ui" <=> sup = "start_ui"
                      /\ \A d \in live' : shows'[d] = shows[d]
  PROVE  (Made /\ Pair)'
<1>1. Made'
  BY DEF PairInv, Made
<1>2. api' = "restart" => bin["cur"] = out["cur"]
  BY DEF PairInv, GoodInv, Running, Made, Pair
<1>3. Pair'
  BY <1>2 DEF PairInv, Pair
<1> QED
  BY <1>1, <1>3

\* Each half of a swap puts the build it should in the place it should.
LEMMA SwapMade ==
  ASSUME PairInv, Swap
  PROVE  Made'
<1>1. /\ bin \in [Slots -> Builds \cup {NoBuild}] /\ out \in [Slots -> Builds \cup {NoBuild}]
      /\ updates \in Builds /\ NoBuild \notin Builds /\ {"cur", "prev", "new", "failed"} = Slots
      /\ updates' = updates
  BY DEF PairInv, GoodInv, TypeOK, BuildsTypeOK, Builds, NoBuild, Slots, Swap
<1>2. \A s \in {"prev", "new"} :
        /\ Place(bin, s)["cur"] = bin[s] /\ Place(out, s)["cur"] = out[s]
        /\ \A t \in Slots \ {"cur", s} : Aside(bin, s)[t] = bin[t] /\ Aside(out, s)[t] = out[t]
  BY <1>1, Renamed
<1>3. CASE upd \in {"bin", "place_bin"}
  BY <1>1, <1>2, <1>3 DEF PairInv, Made, Swap, SwapBin, SwapOut, SwapUndo
<1>4. CASE upd \in {"out", "place_out"}
  BY <1>1, <1>2, <1>4 DEF PairInv, Made, Swap, SwapBin, SwapOut, SwapUndo
<1>5. CASE upd \in {"undo", "place_undo"}
  BY <1>5 DEF Made, Swap, SwapBin, SwapOut, SwapUndo
<1> QED
  BY <1>3, <1>4, <1>5 DEF Swap, SwapBin, SwapOut, SwapUndo

\* While an update is started nothing swaps, and the server that asks to be
\* replaced leaves both builds in place.
LEMMA StepPair == ASSUME PairInv, [Next]_vars PROVE PairInv'
<1> SUFFICES (Made /\ Pair)'
  BY StepGood DEF PairInv
<1> USE DEF Starting
<1>1. CASE ServerUp
  BY <1>1, StaysPaired DEF ServerUp, buildVars, dashVars, loopVars
<1>2. CASE ServerDies \/ ServerFault \/ ServerLeaves
  <2>1. UNCHANGED <<bin, out, updates, build, ui, live, shows, sup, then>> /\ upd' = "idle"
    BY <1>2 DEF ServerDies, ServerFault, ServerLeaves, ServerAway, UpdaterGone, dashVars, loopVars
  <2>2. api' = "restart" => api = "up" /\ leave
    BY <1>2 DEF ServerDies, ServerFault, ServerLeaves, ServerAway
  <2> QED BY <2>1, <2>2, StaysPaired
<1>3. CASE Updating
  <2>1. /\ api' = "up" /\ UNCHANGED <<build, sup, then, ui, live, shows>>
        /\ Starting => upd \in {"idle", "build"}
    BY <1>3 DEF Updating, dashVars, loopVars, PairInv, GoodInv, Kept
  <2>2. CASE UpdateStart \/ UpdateFails
    <3>1. UNCHANGED <<bin, out>> /\ upd' \in {"idle", "build"}
      BY <2>2 DEF UpdateStart, UpdateFails
    <3>2. Made'
      BY <3>1 DEF Made
    <3>3. Pair'
      BY <2>1, <3>1 DEF PairInv, Pair
    <3> QED BY <3>2, <3>3
  <2>3. CASE sup = "loop" /\ UpdateBuilds
    <3>1. /\ upd' = "bin" /\ bin' = [bin EXCEPT !["new"] = updates] /\ updates' = updates
          /\ \E b \in {updates, NoBuild} : out' = [out EXCEPT !["new"] = b]
          /\ bin \in [Slots -> Builds \cup {NoBuild}] /\ out \in [Slots -> Builds \cup {NoBuild}]
          /\ "new" \in Slots
      BY <2>3 DEF UpdateBuilds, PairInv, GoodInv, TypeOK, BuildsTypeOK, Slots
    <3>2. Made'
      BY <3>1 DEF Made
    <3>3. Pair'
      BY <2>1, <2>3 DEF Pair
    <3> QED BY <3>2, <3>3
  <2>4. CASE Swap
    <3>1. upd \notin {"idle", "build"}
      BY <2>4 DEF Swap, SwapBin, SwapOut, SwapUndo
    <3>2. Pair'
      BY <2>1, <3>1 DEF Pair
    <3> QED BY <2>4, <3>2, SwapMade
  <2> QED BY <1>3, <2>2, <2>3, <2>4 DEF Updating
<1>4. ASSUME NEW d \in Dashes, DashListens(d) PROVE (Made /\ Pair)'
  BY <1>4, StaysPaired DEF DashListens, buildVars, loopVars
<1>5. ASSUME NEW d \in Dashes, DashRefused(d) \/ DashFault(d) PROVE (Made /\ Pair)'
  <2>1. live' \subseteq live /\ \A e \in live' : shows'[e] = shows[e]
    BY <1>5, Ended DEF DashRefused, DashFault, PairInv, GoodInv
  <2> QED BY <1>5, <2>1, StaysPaired DEF DashRefused, DashFault, buildVars, loopVars
<1>6. CASE Run \/ Again
  BY <1>6, Unpaired DEF Run, Again, StartServer, buildVars
<1>7. CASE StartUI
  <2>1. /\ UNCHANGED <<bin, out, updates, upd, build, api, then>> /\ sup = "start_ui" /\ sup' = "save"
    BY <1>7 DEF StartUI, buildVars, loopVars
  <2>2. Starting => (ui' \in live' => shows'[ui'] = out["cur"])
    <3>1. CASE noUI
      BY <1>7, <3>1, SuperviseAssumption DEF StartUI, PairInv, Pair, GoodInv, TypeOK
    <3>2. CASE ~noUI
      BY <1>7, <3>2 DEF StartUI, PairInv, GoodInv, TypeOK
    <3> QED BY <3>1, <3>2
  <2>3. Made'
    BY <2>1 DEF PairInv, Made
  <2>4. Pair'
    BY <2>1, <2>2 DEF PairInv, Pair
  <2> QED BY <2>3, <2>4
<1>8. CASE SavePIDs
  BY <1>8, StaysPaired DEF SavePIDs, buildVars, dashVars, loopVars
<1>9. CASE Health
  BY <1>9, Unpaired DEF Health, ServerAway, UpdaterGone, buildVars
<1>10. CASE PutBack
  <2>1. api' = "none" /\ upd' = "idle" /\ sup' \in Back \cup Restored
    BY <1>10 DEF PutBack, Rollback, PairInv, GoodInv, Kept, Running, Back, Restored
  <2> QED BY <2>1, Unpaired DEF Back, Restored
<1>11. CASE UiDone \/ UiRestart
  BY <1>11, StaysPaired DEF UiDone, UiRestart, buildVars, dashVars
<1>12. CASE ApiRestart
  BY <1>12, Unpaired DEF ApiRestart, StartServer, buildVars, PairInv, GoodInv, Kept
<1>13. CASE UpdateRestart
  <2>1. /\ UNCHANGED <<bin, out, updates, upd>> /\ build' = bin["cur"] /\ api' = "starts"
        /\ ui' = NoDash /\ sup' = "start_ui" /\ api = "restart"
    BY <1>13 DEF UpdateRestart, StartServer, buildVars
  <2>2. Made' /\ Pair'
    BY <2>1 DEF PairInv, Made, Pair
  <2> QED BY <2>2
<1>14. CASE ServerStopped \/ ServerCrashed
  BY <1>14, Unpaired DEF ServerStopped, ServerCrashed, buildVars, dashVars
<1>15. CASE Signal \/ Killed
  BY <1>15, Unpaired DEF Signal, Killed, ServerAway, UpdaterGone
<1>16. CASE UNCHANGED vars
  BY <1>16, StaysPaired DEF vars, buildVars, dashVars, loopVars
<1> QED
  BY <1>1, <1>2, <1>3, <1>4, <1>5, <1>6, <1>7, <1>8, <1>9, <1>10, <1>11, <1>12, <1>13, <1>14, <1>15, <1>16
  DEF Next, Faults
-----------------------------------------------------------------------------
\* Every reachable state of an office that updates itself is one of PairInv,
\* each process where TypeOK has it (supervise.go, selfupdate.go).
LEMMA Supervised == Spec => []PairInv
<1>1. Init => PairInv
  BY InitGood
<1>2. PairInv /\ [Next]_vars => PairInv'
  BY StepPair
<1> QED
  BY <1>1, <1>2, PTL DEF Spec

\* The supervisor, its children, its file and the builds on disk are what the
\* code takes them for, at every step of an update, a rollback and a restart.
THEOREM TypesKeep == Spec => []TypeOK
<1>1. PairInv => TypeOK
  BY DEF PairInv, GoodInv
<1> QED
  BY <1>1, Supervised, PTL

\* However many updates are started and wherever the server or the supervisor
\* goes down, in a swap, its undoing or a rollback: a build that comes up is on
\* disk, in its place or as the one before.
THEOREM GoodKept == Spec => []KeepsGood
<1>1. PairInv => KeepsGood
  BY DEF PairInv, GoodInv
<1> QED
  BY <1>1, Supervised, PTL

\* While the supervisor waits whether an update comes up, the server and the
\* dashboard are of the same build, the one in place, although they are swapped
\* one after the other and either may go down meanwhile.
THEOREM SameBuildHolds == Spec => []SameBuild
<1>1. PairInv => SameBuild
  BY DEF PairInv, GoodInv, Kept, Pair, Starting, SameBuild
<1> QED
  BY <1>1, Supervised, PTL

-----------------------------------------------------------------------------
(* The dashboards that nobody knows. *)

\* While there is an update to start, or to take back, there is a dashboard to
\* run.
Served ==
    /\ api = "restart" \/ Starting \/ sup \in Back \cup {"back_out", "again"} => out["cur"] # NoBuild
    /\ sup = "place_out" => out["prev"] # NoBuild

\* As long as neither went down of itself: the supervisor's dashboard is the one
\* that runs, it has a build to run and so does not exit, its timer is never
\* set; it is in the file when the supervisor can leave it behind.
Known ==
    /\ ~uiRestart
    /\ IF sup = "off" THEN live \subseteq pids ELSE live = {ui} \ {NoDash}
    /\ sup \in {"loop", "health"} => live \subseteq pids
    /\ sup \in Back \cup Restored \cup {"start_ui"} => ui = NoDash
    /\ sup = "start_ui" => upd \in {"idle", "build"} /\ (noUI \/ out["cur"] # NoBuild)
    /\ \A d \in live : shows[d] # NoBuild
StrayInv == PairInv /\ Served /\ (Known \/ hit)

\* Nothing swaps while an update is started or taken back.
LEMMA StepServed == ASSUME PairInv, Served, [Next]_vars PROVE Served'
<1> USE DEF Starting
<1>1. /\ out \in [Slots -> Builds \cup {NoBuild}] /\ updates # NoBuild /\ {"cur", "prev", "new", "failed"} = Slots
      /\ (leave => out["cur"] = updates)
      /\ (Starting => upd \in {"idle", "build"}) /\ (sup \in Back \cup Restored => api = "none")
      /\ (sup = "health" => then = "health") /\ (api = "restart" => upd = "idle")
  BY DEF PairInv, GoodInv, TypeOK, BuildsTypeOK, Running, Kept, Made, NoBuild, Slots
<1>2. ASSUME UNCHANGED <<out, sup, then>>, api' = "restart" => api = "restart" \/ leave PROVE Served'
  BY <1>1, <1>2 DEF Served
<1>3. CASE ServerUp \/ ServerDies \/ ServerFault \/ ServerLeaves \/ UNCHANGED vars
  BY <1>2, <1>3 DEF ServerUp, ServerDies, ServerFault, ServerLeaves, ServerAway, vars, buildVars, loopVars
<1>4. CASE Updating
  <2>1. api = "up" /\ api' = "up" /\ UNCHANGED <<sup, then>>
    BY <1>4 DEF Updating, loopVars
  <2>2. CASE UNCHANGED out
    BY <1>2, <2>1, <2>2
  <2>3. CASE ~UNCHANGED out
    <3>1. sup = "loop" \/ upd \notin {"idle", "build"}
      BY <1>4, <2>3 DEF Updating, UpdateStart, UpdateFails, Swap, SwapBin, SwapOut, SwapUndo
    <3>2. ~Starting /\ sup \notin Back \cup Restored
      BY <1>1, <2>1, <3>1
    <3> QED BY <2>1, <3>2 DEF Served, Restored
  <2> QED BY <2>2, <2>3
<1>5. ASSUME NEW d \in Dashes, DashListens(d) \/ DashRefused(d) \/ DashFault(d) PROVE Served'
  BY <1>2, <1>5 DEF DashListens, DashRefused, DashFault, buildVars, loopVars
<1>6. CASE Run \/ Again \/ ApiRestart
  BY <1>1, <1>6 DEF Run, Again, ApiRestart, StartServer, buildVars, Served, Back
<1>7. CASE StartUI \/ SavePIDs
  BY <1>1, <1>7 DEF StartUI, SavePIDs, buildVars, loopVars, Served, Back, PairInv, GoodInv, TypeOK
<1>8. CASE Health
  BY <1>1, <1>8 DEF Health, ServerAway, buildVars, Served, Back
<1>9. CASE PutBack
  <2>1. /\ Aside(out, "failed")["prev"] = out["prev"] /\ Place(out, "prev")["cur"] = out["prev"]
        /\ api' = "none" /\ sup' \in Back \cup Restored
    BY <1>1, <1>9, Renamed DEF PutBack, Rollback, Back, Restored
  <2> QED BY <1>9, <2>1 DEF PutBack, Rollback, Served, Back, Restored
<1>10. CASE UiDone \/ UiRestart
  BY <1>1, <1>10 DEF UiDone, UiRestart, buildVars, dashVars, Served, Back
<1>11. CASE UpdateRestart
  BY <1>11 DEF UpdateRestart, StartServer, buildVars, Served, Back
<1>12. CASE ServerStopped \/ ServerCrashed \/ Signal \/ Killed
  BY <1>12 DEF ServerStopped, ServerCrashed, Signal, Killed, ServerAway, buildVars, dashVars, Served, Back
<1> QED
  BY <1>3, <1>4, <1>5, <1>6, <1>7, <1>8, <1>9, <1>10, <1>11, <1>12 DEF Next, Faults

\* Whatever else happens, no dashboard gets lost.
LEMMA StepKnown == ASSUME PairInv, Served, Known \/ hit, [Next]_vars PROVE (Known \/ hit)'
<1>1. CASE hit
  BY <1>1 DEF Next, Faults, vars, ServerUp, ServerDies, ServerFault, ServerLeaves, Updating, DashListens,
    DashRefused, DashFault, Run, StartUI, SavePIDs, Health, PutBack, Again, UiDone, UiRestart, ApiRestart,
    UpdateRestart, ServerStopped, ServerCrashed, Signal, Killed
<1> SUFFICES ASSUME Known, ~hit' PROVE Known'
  BY <1>1
<1>2. /\ NoDash \notin Dashes /\ live \subseteq Dashes /\ ui \in Dashes \cup {NoDash} /\ pids \subseteq Dashes
      /\ then \in {"loop", "health"} /\ port \in live \cup {NoDash} /\ shows \in [Dashes -> Builds \cup {NoBuild}]
      /\ (api # "up" => upd = "idle")
      /\ (sup \in Back \cup Restored \cup {"off"} => api = "none")
  BY SuperviseAssumption DEF PairInv, GoodInv, TypeOK, Running, Kept
<1>3. ASSUME NEW D, End(D) PROVE live' = live \ D /\ \A d \in live' : shows'[d] = shows[d]
  BY <1>2, <1>3 DEF End
<1>4. ASSUME UNCHANGED <<ui, live, shows, uiRestart, pids, sup, noUI>>,
             sup = "start_ui" => UNCHANGED out /\ upd' \in {"idle", "build"}
      PROVE  Known'
  BY <1>4 DEF Known
<1>5. CASE ServerUp \/ ServerDies \/ ServerFault \/ ServerLeaves \/ UNCHANGED vars
  <2>1. UNCHANGED <<ui, live, shows, uiRestart, pids, sup, noUI, out>> /\ (upd' = upd \/ upd' = "idle")
    BY <1>5 DEF ServerUp, ServerDies, ServerFault, ServerLeaves, ServerAway, UpdaterGone, vars, buildVars,
                dashVars, loopVars
  <2> QED BY <1>4, <2>1 DEF Known
<1>6. CASE Updating
  <2>1. UNCHANGED <<ui, live, shows, uiRestart, pids, sup, noUI>>
    BY <1>6 DEF Updating, dashVars, loopVars
  <2>2. ASSUME sup = "start_ui" PROVE UNCHANGED out /\ upd' \in {"idle", "build"}
    <3>1. upd \in {"idle", "build"}
      BY <2>2 DEF Known
    <3> QED BY <1>6, <2>2, <3>1 DEF Updating, UpdateStart, UpdateFails, Swap, SwapBin, SwapOut, SwapUndo
  <2> QED BY <1>4, <2>1, <2>2
<1>7. ASSUME NEW d \in Dashes, DashListens(d) PROVE Known'
  BY <1>4, <1>7 DEF DashListens, buildVars, loopVars, Known
<1>8. ASSUME NEW d \in Dashes, DashRefused(d) PROVE Known'
  <2>1. d \in live /\ port # d /\ (port # NoDash \/ shows[d] = NoBuild)
        /\ End({d}) /\ UNCHANGED <<buildVars, ui, loopVars, sup, pids>>
    BY <1>8 DEF DashRefused
  <2>2. sup = "off"
    BY <1>2, <2>1 DEF Known
  <2>3. live' \subseteq live /\ \A e \in live' : shows'[e] = shows[e]
    BY <1>3, <2>1
  <2> QED BY <2>1, <2>2, <2>3 DEF Known, buildVars, loopVars, Back, Restored
<1>9. CASE Run
  <2>1. sup = "off" /\ End(pids) /\ UNCHANGED buildVars
    BY <1>9 DEF Run
  <2>2. live' = {}
    BY <1>3, <2>1 DEF Known
  <2>3. upd' = "idle" /\ out' = out
    BY <1>2, <2>1 DEF buildVars
  <2> QED BY <1>9, <2>2, <2>3 DEF Run, Known, Back, Restored
<1>10. CASE StartUI
  <2>1. sup = "start_ui" /\ sup' = "save" /\ UNCHANGED <<uiRestart, pids>> /\ ui = NoDash /\ live = {}
    BY <1>10 DEF StartUI, loopVars, Known
  <2>2. CASE noUI
    BY <1>10, <2>1, <2>2 DEF StartUI, Known, Back, Restored
  <2>3. CASE ~noUI
    <3>1. PICK d \in Dashes : ui' = d /\ live' = live \cup {d} /\ shows' = [shows EXCEPT ![d] = out["cur"]]
      BY <1>10, <2>3 DEF StartUI
    <3>2. live' = {d} /\ shows'[d] # NoBuild
      BY <1>2, <2>1, <2>3, <3>1 DEF Known
    <3> QED BY <1>2, <2>1, <3>1, <3>2 DEF Known, Back, Restored
  <2> QED BY <2>2, <2>3
<1>11. CASE SavePIDs
  <2>1. /\ sup = "save" /\ sup' \in {"loop", "health"} /\ pids' = {ui} \ {NoDash}
        /\ UNCHANGED <<live, ui, shows, uiRestart>>
    BY <1>2, <1>11 DEF SavePIDs, dashVars, loopVars
  <2> QED BY <2>1 DEF Known, Back, Restored
<1>12. CASE Health
  <2>1. CASE api = "up"
    BY <1>12, <2>1 DEF Health, dashVars, Known, Back, Restored
  <2>2. CASE api # "up"
    <3>1. sup = "health" /\ End({ui}) /\ ui' = NoDash /\ sup' = "back_bin" /\ uiRestart' = uiRestart
      BY <1>12, <2>2 DEF Health
    <3>2. live' = {}
      BY <1>3, <3>1 DEF Known
    <3> QED BY <3>1, <3>2 DEF Known
  <2> QED BY <2>1, <2>2
<1>13. CASE PutBack
  <2>1. sup \in Back \cup Restored /\ sup' \in Back \cup Restored /\ UNCHANGED <<ui, live, shows, uiRestart>>
    BY <1>13 DEF PutBack, Rollback, Back, Restored, dashVars, loopVars
  <2> QED BY <2>1 DEF Known, Back, Restored
<1>14. CASE Again
  <2>1. sup = "again" /\ sup' = "start_ui" /\ UNCHANGED <<buildVars, dashVars, uiRestart>>
    BY <1>14 DEF Again
  <2>2. out["cur"] # NoBuild /\ upd = "idle" /\ ui = NoDash
    BY <1>2, <2>1 DEF Served, Known, Restored
  <2> QED BY <2>1, <2>2 DEF Known, buildVars, dashVars, Restored
<1>15. CASE UiDone \/ UiRestart
  BY <1>2, <1>15 DEF UiDone, UiRestart, Known
<1>16. CASE ApiRestart
  BY <1>16 DEF ApiRestart, Known, Back, Restored
<1>17. CASE UpdateRestart
  <2>1. /\ sup = "loop" /\ api = "restart" /\ End({ui}) /\ ui' = NoDash /\ sup' = "start_ui"
        /\ UNCHANGED <<buildVars, uiRestart>>
    BY <1>17 DEF UpdateRestart
  <2>2. live' = {} /\ out["cur"] # NoBuild /\ upd = "idle"
    BY <1>2, <1>3, <2>1 DEF Served, Known
  <2> QED BY <2>1, <2>2 DEF Known, buildVars
<1>18. CASE ServerStopped \/ Signal
  <2>1. sup = "loop" /\ End({ui}) /\ ui' = NoDash /\ sup' = "off" /\ uiRestart' = uiRestart
    BY <1>18 DEF ServerStopped, Signal, loopVars
  <2>2. live' = {}
    BY <1>3, <2>1 DEF Known
  <2> QED BY <2>1, <2>2 DEF Known, Back, Restored
<1>19. CASE ServerCrashed
  <2>1. /\ sup = "loop" /\ UNCHANGED <<uiRestart, pids, noUI>>
        /\ UNCHANGED <<dashVars, sup>> \/ (End({ui}) /\ ui' = NoDash /\ sup' = "off")
    BY <1>19 DEF ServerCrashed
  <2>2. CASE UNCHANGED <<dashVars, sup>>
    BY <1>4, <2>1, <2>2 DEF dashVars
  <2>3. CASE End({ui}) /\ ui' = NoDash /\ sup' = "off"
    <3>1. live' = {}
      BY <1>3, <2>1, <2>3 DEF Known
    <3> QED BY <2>1, <2>3, <3>1 DEF Known, Back, Restored
  <2> QED BY <2>1, <2>2, <2>3
<1>20. CASE Killed \/ \E d \in Dashes : DashFault(d)
  BY <1>20 DEF Killed, DashFault
<1> QED
  BY <1>5, <1>6, <1>7, <1>8, <1>9, <1>10, <1>11, <1>12, <1>13, <1>14, <1>15, <1>16, <1>17, <1>18, <1>19, <1>20
  DEF Next, Faults

\* NoStrays: an update, its failing, its rollback, a server that crashes or stops
\* and office being stopped leave no dashboard that neither the supervisor nor
\* its file knows, unless a dashboard or the supervisor went down of itself.
THEOREM NoStraysHolds == Spec => []NoStrays
<1>1. Init => StrayInv
  <2> SUFFICES ASSUME Init PROVE Served /\ Known
    BY InitGood DEF StrayInv
  <2>1. sup = "off" /\ ui = NoDash /\ pids = {} /\ live = {} /\ ~uiRestart /\ api = "none"
    BY DEF Init
  <2> QED BY <2>1 DEF Served, Known, Starting, Back, Restored
<1>2. StrayInv /\ [Next]_vars => StrayInv'
  BY StepPair, StepServed, StepKnown DEF StrayInv
<1>3. StrayInv => NoStrays
  BY DEF StrayInv, Known, NoStrays, Strays
<1> QED
  BY <1>1, <1>2, <1>3, PTL DEF Spec
=============================================================================
