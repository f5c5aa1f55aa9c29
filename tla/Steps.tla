------------------------------- MODULE Steps -------------------------------
(***************************************************************************)
(* A workflow that is a graph of steps (chat/workflow_steps.go,            *)
(* workflow/steps.go): the runner starts the steps that were reached,      *)
(* several at once, joins the branches, bounds the loops, and ends the     *)
(* run when no step is left.                                               *)
(*                                                                         *)
(* What a step does (an agent's turn, a sub-workflow, code, a request, a   *)
(* card) is how it ends.  One start of a step is one step here: the runner *)
(* waits for nothing between two of them, but others may act.              *)
(***************************************************************************)
EXTENDS WorkflowRun, Sequences, FiniteSets, SequencesExt

CONSTANTS
    Graphs,       \* the graphs a run may be of
    AtOnce,       \* limits.concurrency: steps at once
    MaxSteps,     \* MaxStepsRun: the steps of one run
    NoGraph

(* A graph: its steps, those it starts with, and of each step its kind     *)
(* ("end", "branch": a condition or a switch, "agent": a turn of its role, *)
(* "work": any other), where it goes (next: the ways it may go, a branch   *)
(* has several), where it goes when a check fails (else), whether it goes  *)
(* on after an error, and how often it may be a loop.                      *)
IsGraph(g) ==
    /\ IsFiniteSet(g.steps)
    /\ g.start \in Seq(g.steps)
    /\ g.kind \in [g.steps -> {"end", "branch", "agent", "work"}]
    /\ \A s \in g.steps : g.next[s] \subseteq Seq(g.steps) /\ g.else[s] \in Seq(g.steps)
    /\ DOMAIN g.role = g.steps
    /\ g.goesOn \in [g.steps -> BOOLEAN]
    /\ g.loops \in [g.steps -> Nat]

ASSUME GraphAssumption == NoGraph \notin Graphs /\ \A g \in Graphs : IsGraph(g)
ASSUME StepLimits == AtOnce \in Nat \ {0} /\ MaxSteps \in Nat

VARIABLES
    graph,    \* the run's graph
    runner,   \* runSteps: "off" | "starting" steps | "waiting" for a result | "over"
    pending,  \* steps that were reached and wait their turn
    running,  \* steps at work
    visits,   \* how often a step was started
    ended     \* an end step was reached

stepVars == <<graph, runner, pending, running, visits, ended>>

Nodes == IF graph = NoGraph THEN {} ELSE graph.steps

StepTypeOK ==
    /\ graph \in Graphs \cup {NoGraph}
    /\ runner \in {"off", "starting", "waiting", "over"}
    /\ pending \in Seq(Nodes)
    /\ running \subseteq Nodes
    /\ visits \in [Nodes -> Nat]
    /\ ended \in BOOLEAN

\* reach: what was reached is pending once.  (A recursive function, so that it
\* can be reasoned about.)
Reach(ids, queue) ==
    LET reached[i \in 0 .. Len(ids)] ==
            IF i = 0 THEN queue
            ELSE IF Contains(reached[i - 1], ids[i]) THEN reached[i - 1]
            ELSE Append(reached[i - 1], ids[i])
    IN  reached[Len(ids)]

StepInit ==
    IF mode = "steps"
    THEN /\ graph \in Graphs
         /\ runner = "starting"
         /\ pending = Reach(graph.start, <<>>)
         /\ running = {}
         /\ visits = [s \in graph.steps |-> 0]
         /\ ended = FALSE
    ELSE /\ graph = NoGraph /\ runner = "off"
         /\ pending = <<>> /\ running = {} /\ visits = <<>> /\ ended = FALSE

-----------------------------------------------------------------------------
\* Outs: every step that a step may go to.
Outs(g, s) == (UNION {ToSet(n) : n \in g.next[s]}) \cup ToSet(g.else[s])

\* S has the steps that go to "to" and all that go to one of it, not through "to".
LeadsTo(g, S, to) ==
    \A s \in g.steps : to \in Outs(g, s) \/ (Outs(g, s) \ {to}) \cap S # {} => s \in S

\* Of every graph and step "to", the steps it may come after: the least such set.
Before ==
    [g \in Graphs |-> [to \in g.steps |->
        {s \in g.steps : \A S \in SUBSET g.steps : LeadsTo(g, S, to) => s \in S}]]

Reaches(from, to) == from \in Before[graph][to]

\* free: no other step that waits or works can still reach it.  (Mistakes, for
\* the checks of the properties: only those that wait are looked at; a loop
\* that waits on itself waits for ever.)
FreeOfWaiting(s) == \A t \in ToSet(pending) \ {s} : ~Reaches(t, s)
Free(s) == \A t \in (ToSet(pending) \cup running) \ {s} : ~Reaches(t, s)

\* A loop that waits on itself: its first step goes.
ForcedNever(i) == FALSE
Forced(i) == i = 1 /\ running = {} /\ \A s \in ToSet(pending) : ~Free(s)

\* One role answers one step at a time, and the limit is kept by the steps
\* that take time.
RoleFree(s) ==
    graph.kind[s] = "agent" =>
        \A t \in running : ~(graph.kind[t] = "agent" /\ graph.role[t] = graph.role[s])
RoomFor(s) == graph.kind[s] \in {"end", "branch"} \/ Cardinality(running) < AtOnce

MayStart(i) ==
    /\ Free(pending[i]) \/ Forced(i)
    /\ RoleFree(pending[i])
    /\ RoomFor(pending[i])

\* How many steps were started.
Taken == FoldFunction(+, 0, visits)

\* The runner ends the run and is over itself.
RunnerEnds(s) ==
    /\ runner' = "over"
    /\ IF live THEN End(s) ELSE UNCHANGED <<live, status, ending, late>>

TooMany(s) == Taken + 1 > MaxSteps \/ visits[s] + 1 > graph.loops[s] + 1

\* The runner takes a step: it is logged (and the row is written) and done at
\* once or begun.
StartStep(i) ==
    LET s == pending[i]
        rest == RemoveAt(pending, i)
    IN  /\ runner = "starting"
        /\ MayStart(i)
        /\ ~TooMany(s)
        /\ visits' = [visits EXCEPT ![s] = @ + 1]
        /\ CASE graph.kind[s] = "end" ->
                  pending' = rest /\ ended' = TRUE /\ UNCHANGED running
             [] graph.kind[s] = "branch" ->
                  /\ \E n \in graph.next[s] : pending' = Reach(n, rest)
                  /\ UNCHANGED <<running, ended>>
             [] OTHER ->
                  pending' = rest /\ running' = running \cup {s} /\ UNCHANGED ended
        /\ UNCHANGED <<run, graph, runner>>

\* A loop, or the run, that takes too many steps fails.
StepTooMany(i) ==
    /\ runner = "starting"
    /\ MayStart(i)
    /\ TooMany(pending[i])
    /\ RunnerEnds("failed")
    /\ UNCHANGED <<mode, stored, time, answer, office,
                   graph, pending, running, visits, ended>>

\* No step may start now.
AllStarted ==
    /\ runner = "starting"
    /\ \A i \in DOMAIN pending : ~MayStart(i)
    /\ running # {} \/ pending # <<>>
    /\ runner' = "waiting"
    /\ UNCHANGED <<run, graph, pending, running, visits, ended>>

\* No step is left: endSteps, which checks the outputs.
NoneLeft ==
    /\ runner = "starting"
    /\ running = {} /\ pending = <<>>
    /\ \E s \in {"done", "failed"} : (ended \/ s = "failed") /\ RunnerEnds(s)
    /\ UNCHANGED <<mode, stored, time, answer, office,
                   graph, pending, running, visits, ended>>

\* A step's result comes: it worked, a check said no, or it failed.
StepResult(s) ==
    /\ runner = "waiting" /\ s \in running
    /\ running' = running \ {s}
    /\ \/ /\ \E n \in graph.next[s] : pending' = Reach(n, pending)
          /\ runner' = "starting"
       \/ /\ graph.kind[s] = "work" /\ graph.else[s] # <<>>
          /\ pending' = Reach(graph.else[s], pending)
          /\ runner' = "starting"
    /\ UNCHANGED <<run, graph, visits, ended>>

\* It failed and the run does not go on without it.
StepFails(s) ==
    /\ runner = "waiting" /\ s \in running
    /\ ~graph.goesOn[s]
    /\ running' = running \ {s}
    /\ RunnerEnds("failed")
    /\ UNCHANGED <<mode, stored, time, answer, office,
                   graph, pending, visits, ended>>

\* run.stop: the context of the runner and its steps is done.
RunnerStopped ==
    /\ runner \in {"starting", "waiting"}
    /\ ending = "over"
    /\ runner' = "over" /\ running' = {}
    /\ UNCHANGED <<run, graph, pending, visits, ended>>

NoSteps ==
    /\ graph' = NoGraph /\ runner' = "off"
    /\ pending' = <<>> /\ running' = {} /\ visits' = <<>> /\ ended' = FALSE

StepsNext ==
    \/ \E i \in DOMAIN pending : StartStep(i) \/ StepTooMany(i)
    \/ AllStarted \/ NoneLeft \/ RunnerStopped
    \/ \E s \in running : StepResult(s) \/ StepFails(s)
=============================================================================
