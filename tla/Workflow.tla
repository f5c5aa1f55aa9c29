------------------------------ MODULE Workflow ------------------------------
(***************************************************************************)
(* A run of a workflow called from a chat: launch starts a coordinator or  *)
(* the runner of a graph of steps; people, the deadline and office going   *)
(* down end it as they end any run.                                        *)
(***************************************************************************)
EXTENDS Coordinator, Steps

vars == <<run, coordVars, stepVars>>

Init == RunInit /\ CoordInit /\ StepInit

\* A person stops the chat that called it, or the run above it has ended:
\* stopRun in the run's own chat.
Stop == FinishRun("stopped") /\ UNCHANGED <<restOfRun, stepVars>>

\* The deadline.
Expire == FinishRun("failed") /\ UNCHANGED <<restOfRun, stepVars>>

Crash == RunCrash /\ NoCoord /\ NoSteps

RunStep ==
    SaveEnd \/ SaveLate \/ CallerAnswers \/ RunRestart

Next ==
    \/ RunStep /\ UNCHANGED <<coordVars, stepVars>>
    \/ CoordNext /\ UNCHANGED stepVars
    \/ StepsNext /\ UNCHANGED coordVars
    \/ Stop \/ Expire \/ Crash

\* A write and the caller's goroutine go on; the timer of the deadline fires.
\* A graph of steps is not left to its deadline: every step's work ends (a turn,
\* a command and a request have a time limit of their own), and the runner goes
\* on.
Fairness ==
    /\ WF_vars(SaveEnd /\ UNCHANGED <<coordVars, stepVars>>)
    /\ WF_vars(CallerAnswers /\ UNCHANGED <<coordVars, stepVars>>)
    /\ WF_vars(mode = "coordinator" /\ Expire)
    /\ WF_vars(StepsNext /\ UNCHANGED coordVars)

Spec == Init /\ [][Next]_vars /\ Fairness

TypeOK == RunTypeOK /\ CoordTypeOK /\ StepTypeOK

-----------------------------------------------------------------------------
(* Properties                                                              *)

\* Role r has a turn that has not given its answer yet.
AtWork(r) == turn[r] \in {"work", "vote", "flow"}

\* The role that is counted as working and whose turn is about to start.
Starting == IF coord \in {"askStart", "afterStart"} THEN {asked.role} ELSE {}

\* No two roles of the vote may work at once otherwise.  (Where they may, one of
\* them can be delegated to in the turn that asks for the vote: it is started
\* twice, the second start is refused, and frees the seat of its ballot.)
VotersApart ==
    /\ Len(Voters) # 1
    /\ \A i, j \in DOMAIN Voters : i # j => ~SameBatch(Voters[i], Voters[j])

\* run.batch, the status of the roles and their turns say the same: a role
\* that does not start, answers, fails or whose sub-workflow ends always frees
\* its seat (else the coordinator is never called back), and no role works
\* without one (else it is called back too early).
SeatTrue ==
    VotersApart => \A r \in Roles :
        /\ (r \in batch) <=> (rstatus[r] = "working")
        /\ (r \in batch) <=> (AtWork(r) \/ r \in Starting)

\* limits.turns and limits.concurrency are kept, although asks are checked when
\* the coordinator makes them and turns are counted when they start, and
\* although one that does not start is taken back (a vote is checked against
\* limits.turns only).
LimitsKept ==
    /\ turns + Len(asks) <= MaxTurns
    /\ \/ Cardinality(batch) + Len(asks) <= Concurrency
       \/ Cardinality(batch) + Len(asks) <= Len(Voters)

\* Two roles that work at the same time are in one parallel group of the
\* workflow, however they came to work: delegated, asked again, asked and left
\* to the background, or a sub-workflow.
SideBySide ==
    VotersApart => \A a, b \in Roles :
        a # b /\ turn[a] \in {"work", "flow"} /\ turn[b] \in {"work", "flow"} => SameBatch(a, b)

\* workflow_done ends a run only with its gate passed and no role at work or
\* asked for, although it lets go of the lock between its checks and the end.
DoneClean ==
    [][VotersApart /\ live /\ status' = "done" /\ mode = "coordinator" =>
         /\ gate = "passed"
         /\ asks = <<>> /\ \A r \in Roles : ~AtWork(r)]_vars

\* A graph without loops: a step where branches join is started once every
\* branch that may still come to it has.
Acyclic == \A s \in Nodes : ~Reaches(s, s)
Joined ==
    Acyclic => \A s \in Nodes : visits[s] > 0 =>
        \A t \in ToSet(pending) \cup running : t # s => ~Reaches(t, s)

\* The row of a run and what its caller hears keep the promise of a call: the
\* run ends once, a late write of a goroutine never brings an ended run back,
\* and the caller hears the end that is written, once, or goes down with
\* office.
Promise == INSTANCE RunPromise WITH end <- stored
CallKept == Promise!Spec

\* Whoever calls a workflow hears its end, whatever the coordinator, the roles
\* and the steps do: the deadline ends a run nobody ends, and a graph of steps
\* does not wait for itself.
CallerAnswered == <>(answer # "none")

\* What the comments of the code say of an answer that came while nobody waited
\* for it: the coordinator is called back.  While the run is on and has time,
\* and no call-back and no person's decision is on its way, no answer waits to
\* be told.
NoneForgotten ==
    live /\ coord = "idle" /\ batch = {} /\ calls = NoCalls /\ time = "on" /\ decided = {}
    /\ tries < MaxTries => ~untold
=============================================================================
