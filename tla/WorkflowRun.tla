---------------------------- MODULE WorkflowRun ----------------------------
(***************************************************************************)
(* One run of a workflow as every kind of run has it (chat/workflow.go,    *)
(* chat/workflow_call.go): its place among the running ones, its row in    *)
(* the store and the goroutines that write it, its time, its end, and the  *)
(* chat that called it.  Module Coordinator adds the agent that decides    *)
(* and its roles, module Steps the graph of steps, module Workflow puts    *)
(* them together.                                                          *)
(*                                                                         *)
(* What is done under e.wf.mu is one step; a write of the row, which is    *)
(* done after the lock is let go, is another.  Stopping a turn only makes  *)
(* it end early, and every turn may end at any time here, so cancelling    *)
(* the turns of a run that ends is no step of its own.                     *)
(***************************************************************************)
EXTENDS Naturals

Ends == {"done", "failed", "stopped"}

VARIABLES
    mode,     \* who decides what is done next: "coordinator" | "steps"
    live,     \* e.wf.byConv has the run
    status,   \* its record in memory: "running" or how it ended
    stored,   \* the status of its row
    late,     \* a goroutine is yet to write what the run was before its end
    ending,   \* finishRun: "no" | "save" (the lock was let go) | "over" (run.done is closed)
    time,     \* "on" until its last second was noticed: "over", no turn is started
    answer,   \* what the chat that called it heard: "none" while it waits, "lost" with office
    office    \* "up" | "down" | "back"

run == <<mode, live, status, stored, late, ending, time, answer, office>>

RunTypeOK ==
    /\ mode \in {"coordinator", "steps"}
    /\ live \in BOOLEAN
    /\ status \in Ends \cup {"running"}
    /\ stored \in Ends \cup {"running"}
    /\ late \in BOOLEAN
    /\ ending \in {"no", "save", "over"}
    /\ time \in {"on", "over"}
    /\ answer \in Ends \cup {"none", "lost"}
    /\ office \in {"up", "down", "back"}

\* beginRun wrote the row and put the run among the running ones.
RunInit ==
    /\ mode \in {"coordinator", "steps"}
    /\ live = TRUE
    /\ status = "running" /\ stored = "running"
    /\ late = FALSE
    /\ ending = "no"
    /\ time = "on"
    /\ answer = "none"
    /\ office = "up"

-----------------------------------------------------------------------------
(* Its end                                                                 *)

\* The first part of finishRun: the first one to come ends the run.  Whoever
\* changed the run just before writes what it was then, now or later.
End(s) ==
    /\ live
    /\ live' = FALSE
    /\ status' = s
    /\ ending' = "save"
    /\ late' \in BOOLEAN

\* saveRun with what the end was; then those who wait on run.done go on.
SaveEnd ==
    /\ ending = "save"
    /\ stored' = status
    /\ ending' = "over"
    /\ UNCHANGED <<mode, live, status, late, time, answer, office>>

\* seq > savedSeq: a snapshot of the running run is older than one of its end.
\* (Mistake, for the check of the property: writes land in any order.)
NewerAlways == TRUE
Newer == stored = "running"

\* saveRun by a goroutine that took its snapshot while the run was on.
SaveLate ==
    /\ late
    /\ late' = FALSE
    /\ stored' = IF Newer THEN "running" ELSE stored
    /\ UNCHANGED <<mode, live, status, ending, time, answer, office>>

\* Somebody finds that less than a second is left until the deadline (once it
\* is so, it stays so; before somebody looks it makes no difference).
TooLate == time' = "over"

-----------------------------------------------------------------------------
(* The chat that called it                                                 *)

\* awaitRun: run.done is closed; the row is read and is the chat's answer.
CallerAnswers ==
    /\ answer = "none"
    /\ ending = "over"
    /\ answer' = stored
    /\ UNCHANGED <<mode, live, status, stored, late, ending, time, office>>

-----------------------------------------------------------------------------
(* Office goes down and comes back                                         *)

\* What was in memory is gone, the turn of the chat that waits too.
RunCrash ==
    /\ office = "up"
    /\ office' = "down"
    /\ live' = FALSE
    /\ status' = "running" /\ late' = FALSE /\ ending' = "no" /\ time' = "on"
    /\ answer' = IF answer = "none" THEN "lost" ELSE answer
    /\ UNCHANGED <<mode, stored>>

\* EndInterrupted: the runs whose row says they run did not end.
RunRestart ==
    /\ office = "down"
    /\ office' = "back"
    /\ stored' = IF stored = "running" THEN "failed" ELSE stored
    /\ UNCHANGED <<mode, live, status, late, ending, time, answer>>
=============================================================================
