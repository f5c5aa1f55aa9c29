# Verification of agent-office

TLA+ models of the parts of agent-office whose correctness depends on
interleavings and restarts, TLC runs that check them on small instances, and
TLAPS proofs of their central invariants for all instances.

Contents: 1 the system, 2 hard behaviours and properties, 3 the modules,
4 the runs, 5 fairness, 6 the proofs, 7 where code and comments differ,
8 what is left out, 9 the plan.

To check one run: `tlc -config MCTurns_answers.cfg MCTurns`.  To check the
proofs: `tlapm TurnsProofs.tla`, and likewise the other modules named `...Proofs`.

## 1. The system

Office is one Go process (`cmd/office`) with one SQLite database on one
connection, a Vue dashboard, bots on Telegram and Discord, and AI agents, each
a command-line tool that it starts for every answer. Every HTTP request, bot
command, answer, hand-off, automation run and timer is a goroutine. They share
the database, whose statements are atomic but whose read-then-write sequences
seldom are, and a few maps under mutexes. When office stops, the maps and the
goroutines are gone and the rows remain.

| component | state | operations | depends on |
|---|---|---|---|
| proposals (`chat/order.go`, `deciding`, `actions`, `chat.DecidePatch`, `api/actions.go`, `api/chat.go`, `cmd/office/decider.go`) | rows of actions and patches (status, message), the deciding map, the `draining` mutex of a chat | Propose, Decide, Queue, QueuePatch, DecidePatch, Drain, CheckOrder; the end of a turn, which numbers actions and replaces diffs | turns write its rows; people decide them from two places |
| turns (`chat/engine.go`, `members.go`, `queue.go`, `restart.go`, `api/chat.go`) | messages and waiting messages (stored); `e.active`, `e.bg`, `e.turns`, `e.stopping`, `e.handed` | Send, queue, unqueue, SendQueued, run, Delegate, nextTurn, startTurn, finish, stop, Shutdown, ResumeInterrupted, SendAllQueued | jobs: one for every answer |
| job queue (`trigger/runner.go`, `storage/sqlite/jobs.go`, `api/jobs.go`) | the jobs table; slots, `busy`, `cap` | Tick, Enqueue (ByDedupe, ByDebounce, Debounce, Create, ClearDedupe), StartReady and Claim, execute, settle, cancelJob, FailRunning | sends to chats (turns) or runs scripts |
| workflows (`chat/workflow.go`, `workflow_call.go`, `workflow_sub.go`, `workflow_steps.go`, `resume.go`, `workflow`) | a row for each run; `e.wf`: the running ones, asks, who is waited for; a timer; the runner of a graph | the workflow_* tools of a coordinator, roles' turns, votes, gates, sub-workflows, call-backs; steps, joins, loops; finishRun, wfExpire, EndInterrupted | a role's or step's work is a turn; a gate is a proposal; a chat calls a run and waits |
| burn (`burn`) | pieces, quests, a stop time | the main agent works piece by piece | turns, job queue |
| ops (`ops`) | processes and compose services, wanted and real | start, stop, restart, watch | actions of agents |
| selfupdate, supervise (`internal/selfupdate`, `cmd/office/supervise.go`) | the builds of server and dashboard on disk, each current, new, previous or failed; the updater's state; the supervisor's children, timers, count of crashes; `supervisor.pids` | Start, build, swap and its undoing; start and stop of children, their restart, health check, Rollback, killOrphans | the whole office: the updater runs in the server that it replaces |
| peer | links and consults, each side's copy | ask, answer, retry | turns at both ends |
| support | tickets, drafts, deliveries | receive, draft, deliver, retry | job queue, channels |
| channels | bots, threads | poll, reply, approvals | proposals, job queue |
| usage | calls, sums, budgets | record, test | asked before every answer |
| mcpgateway | servers, tokens | connect, refresh | used by agents |
| monitor, worktree, provider, llm, perm, memory, collections, team, automation, setup, repos, scan, auth, secrets, audit, events and helpers | settings, files, readings | mostly one statement or one outside call each | |

`PROJECT.json` lists every component with its status.

## 2. Hard behaviours and what makes them correct

* **Decisions of proposals.** The dashboard, a bot, Drain, an agent that may
  run its own operations and an agent's turn that ends work on the same row.
  Correct: one decision of a card at a time; an operation is carried out once;
  a row says what happened; one agent's cards are carried out in the order made;
  an approved card is decided in the end.
* **Who holds a chat.** The turn a person waits for, background turns, tagged
  agents that take over, waiting messages, a stop, a shutdown. Correct: each
  turn at work is found by whoever stops the chat; none escapes Shutdown; no
  message is lost, said twice or overtaken by a later one of the same person;
  agents that hand each other work end, and then what waits goes.
* **Runs of automations.** Deliveries, schedules and people fill a queue that a
  few slots empty; a person cancels, a chat is busy, office restarts. Correct:
  no more side by side, or in an hour, than allowed; each is run once, with the
  payload last folded into it; a cancel stands; every job ends.
* **Runs of workflows.** A coordinator asks for roles' turns that start later, in
  other goroutines, and may not start; roles answer while it answers, call it
  back, and find its chat busy; anyone may end the run meanwhile, and every
  change is written after the lock was let go. Correct: the run ends once and
  its end stands; whoever called it hears that end; the limits of turns, roles
  at once and groups hold at every moment; a role's seat is free when its turn
  is over, or the coordinator is never called again; a step where branches join waits
  for all of them; a graph of steps never waits for itself.
* **Updates of office itself.** The updater works in the server it replaces; the
  supervisor that starts the new build, waits for it and goes back may go down
  too; dashboards outlive their supervisor. Correct: a build that works stays on
  disk; server and dashboard are of one build; updates, rollbacks and crashes of the
  server lose sight of no dashboard; a server and a dashboard come back.
* **Restarts** cut all of it between any two statements.

The hazards are listed in `PROJECT.json`, each at its line and with the
properties that cover it. No property speaks of these smaller ones, since no
line of the code promises either way; all but the last two are steps of the models:

* waiting messages of several people go as one, in the name of the first
  (`queue.go:106`); a turn that was cancelled leaves its entry in `e.handed`
  (`members.go:276`); a turn stopped just before a shutdown is told from a cut
  one by its context's error alone (`engine.go:1285`);
* `wfCallBack` clears the vote, the debt and the notes after it started the turn
  that may have made new ones (`workflow.go:1478`); a decision that waits for a
  quiet chat is dropped after ten minutes (`resume.go:113`);
* requests are served before cut answers go on, and the list of those is in memory
  only (`run.go:118`, `339`): a person's message takes the chat first, a second
  death forgets them;
* office dying after a run's end is saved and before its caller was answered
  tells nobody (`service.go:422`): `RunPromise` allows that answer to be lost;
* two tools that one coordinator calls at the same time can both pass `canAsk`
  (`workflow.go:855`), or ask for a role between workflow_done's checks and the end it
  makes (`workflow.go:1227`): `Coordinator` has it call one tool at a time;
* `wfAfter` goes on starting roles when the run has ended (`workflow.go:1298`):
  the turns of an ended run are not followed, what they answer finds no run.

## 3. The modules

| module | what it is |
|---|---|
| `ApprovalQueue` | abstract specification: the promise of order.go, cards made, approved, queued, run or rejected in order |
| `Proposals` | the cards of one chat as the code decides them |
| `ProposalsProofs` | TypeOK, OneDecision, DiffsOnce, DiffStaysDecided, proved |
| `ProposalsApartProofs` | RunsOnce, RecordTrue, proved (`Overlap` empty) |
| `ProposalsOrderProofs` | InOrder and KeepsPromise, the refinement of ApprovalQueue, proved (`Overlap` empty, `MayStop` FALSE, no bots) |
| `MCProposals` | Proposals for TLC (symmetry) |
| `Turns` | one chat: messages, answers, hand-offs, waiting messages, shutdown, start |
| `TurnsProofs` | TypeOK, Held, ShutdownMissesNone, OnceEach, NotLost, PersonOrder, AnswersKept, proved |
| `MCTurns` | Turns for TLC |
| `Jobs` | the queue of automation runs: what adds to it, StartReady, runs, cancels, restarts |
| `JobsProofs` | TypeOK, RunsOnce, CancelStands, FoldedRuns, OneEach, ParallelKept, RunsKept, proved |
| `MCJobs` | Jobs for TLC: a script with two runs at once and a chat with one |
| `Lists` | what a list of rows is once some are deleted (chat_queued, what is due) |
| `ListsProofs` | what Without leaves, proved |
| `RunPromise` | abstract specification: a workflow called from a chat ends once and its caller hears that end once |
| `WorkflowRun` | what every run of a workflow has: its row and who writes it, its end, deadline and caller |
| `Coordinator` | a run that an agent coordinates: tools, asks, roles, vote, gate, call-backs (extends `WorkflowRun`) |
| `Steps` | a run that is a graph of steps (extends `WorkflowRun`) |
| `Workflow` | the composition of the two with stops, the deadline and restarts; its properties; the refinement of `RunPromise` |
| `WorkflowProofs` | TypeOK, SeatTrue, LimitsKept, SideBySide, Joined, DoneClean, CallKept, proved |
| `MCWorkflow` | Workflow for TLC: two graphs of steps, the voters |
| `Builds` | the builds on disk and the updater that makes and swaps them |
| `Supervise` | `office run`: the supervisor, the server, the dashboards (extends `Builds`) |
| `SuperviseProofs` | TypeOK, KeepsGood, SameBuild, NoStrays, proved |
| `MCSupervise` | Supervise for TLC |

Each module's grain is the statement of the store: what a goroutine reads and
later writes are two steps, with everyone else's steps between them. What the
code does under one mutex without a statement in between is one step.

### Proposals

A process (`Procs`) is a request of the dashboard, a command in a bot, the
goroutine that holds a chat's draining mutex, or an agent's turn. `pc`, `cur`,
`approve` and `copy` are its locals: `copy` is the row it read, which it may
write back whole much later (`actionRepo.Update` writes every column). `lock`
is `deciding.now`. `row` is the stored row: status and the answer it belongs to.

`Click`, `Get`, `CheckOrder`, `QueueBegin`, `QueueEnd`, `DecideBegin`,
`DecideEnd` are the handlers' statements; `DrainStart`, `DrainList`, `DrainAgain`
are Drain; `TurnStart`, `Propose`, `Answer`, `Attach`, `Diff`, `Replace`,
`AddPatch`, `TurnEnd`, `TurnFail` are the life of a turn as far as it writes
cards. `Crash` drops everything but the rows.

`Overlap` is the set of agents that answer while cards are decided (while any other
one answers, nobody decides). In the run `quiet` it is empty: with an agent in it the code
breaks the promise of order.go, carries an action out twice and loses the number of
a card (section 7). The run `bots` has one in a worktree, whose next turn replaces
diffs that are being decided or queued at that moment, `run_twice` one that proposes
operations; `ProposalsProofs` is about any set. `Proposers` bounds which agents propose operations.

Abstractions: the list of waiting cards is read in one step (the code reads
actions, then diffs); "done" stands for done and failed, as both are final; errors of
the store or of the project before anything changed, and Propose's
deduplication, leave the rows alone and are left out; skip-all is rejections
followed by a Drain each; Drain's limit of 100 cards a pass is left out; diffs
created as failed are left out, as are the lines that tell an agent of a decision.

### Turns

`req` is where each person's request is; `sender` the goroutine that holds the
queue lock of the chat, `senders` those that wait for it. For each turn `stage`
is where it is, `off` whether its context was cancelled and by whom, `todo` what
nextTurn has still to start, `handed` the tasks its agent gave. `active` and
`bg` are `e.active` and `e.bg`. `log`, `waiting`, `told` and `job` are stored.
`office` goes up, stopping, stopped, down, listed, serving, resuming, resumed:
the order of `run.go`.

Abstractions: the chat has answered before (so no title, no first session); no
agent is paused; no workflow, consult or peer turns; no automation's job (those
are in Jobs); at most four agents called by a message; Shutdown's taking the
turns and cancelling them is one step; errors of the store are left out, the
budget's refusal is a choice (`MayRefuse`); the message that goes on after a
restart carries none of the person's text; a request is lost if office goes down
before it stored anything.

### Jobs

`job` is the table; `due` the waiting rows whose time has come, in the order
Claim takes them; `aged` rows older than the ten minutes of `dedupeTTL`.
`starter` is the one StartReady at a time (`startMu`): it reserves
every free slot and reads how many more runs each automation may have
(`StarterReserve`), claims (`StarterClaim`), puts back what is beyond that, a
statement each (`StarterSort`), and gives back slots and starts the runs
(`StarterGo`). StartReady is called when a row is added, when a run ends and
every 15 seconds, so the model lets it begin whenever a slot is free. `run[j]` is
where execute is for job j. `hook[d]` is the request of delivery d, `cancel` one
person's cancel, `tick` the schedule loop.

Abstractions: an automation has a schedule or a webhook; all deliveries of one
automation have the same debounce key; goal runs, escalations (jobs with a
ParentJobID, which MaxRunsPerHour exempts), jobs that a bot's message makes, the
daily cost limit, paused agents and the marks of skipped schedules are left
out; `Ages` and `HourPasses` are the clock: a job's dedupe window passes, or a job
and those made before it are over an hour old (`old`). What execute lists for
MaxRunsPerHour are the automation's jobs made within the hour before it read the
clock (`since`), of those the `Newest` ones (200 in the code), skipped ones included; the count of failures is a choice
of whether one more turns the automation off (`MayDisable`); `Parallel` does not
change; errors of the store are
left out. A run that was put back has left before its minute is over
(`Comes`). Beginning a chat's answer (StartIfRunning) is part of `Send`: before
it the row has no conversation, and a cancel of such a row is refused.

### WorkflowRun, Coordinator, Steps, Workflow

`live`, `status` and `ending` are the run in memory up to the moment run.done is
closed, `stored` its row, `late` a goroutine that took its copy of the run
before the end and writes it later. `office` goes down once.

`coord` is where the coordinator's turn is: it begins, answers and calls tools
(`answering`), waits for a role (`ask` to `asking`), starts what it asked for
(`after`, wfAfter), leaves. `asks` is `e.wf.pending`, `batch`, `owed`,
`voting`, `tries`, `turns` the fields of wfRun, `rstatus`, `rounds` and `turn` of each
role its row and its goroutine. `calls` counts the goroutines inside
wfCallBack by whose they are and where they are: they look, start the turn and
reset the run's fields in three holds of the lock. `gate`, `cards` and
`decided` are one gate, its proposals and the decisions `resume.go` holds.

`runner`, `pending`, `running`, `visits` are the variables of runSteps. A step's
work is its result (`StepResult`, `StepFails`). A graph is a constant: each kind of step
that differs in what the runner does with it.

Abstractions: a workflow has one gate, required; every role has an agent of its
own bound to it; the coordinator calls one tool at a time; a sub-workflow is one
seat of the run above it, so the tree's shared concurrency is a refusal, and its own run is
another instance of the same module; a role that is done and one that failed are one status
("answered"), as no test tells them apart; objections, outputs, cost, the
supervisor role and the texts are left out. In startChild a failed launch frees
seat and status in two holds of the lock, one step here. What turns of a run
still do after its end finds no run (wfRoleDone, wfCallBack return) and is not
followed. "Over" time is noticed by who looks at the deadline; the timer fires at any moment
(`Expire`). awaitRun's 30 seconds for a stopped run and panics that are
recovered are left out.

### Builds, Supervise

`bin` and `out` say which build is in each place of the server (`bin/office`,
`.new`, `.prev`, `.failed`) and of the dashboard (`.output` and beside it);
builds are numbered as they are made. `replace` is two renames, `Aside` and
`Place`, and whoever makes them may be gone between the two. `upd` is where the
updater is, `leave` that it asked the server to exit with RestartCode. `broken`
are builds whose server compiles but does not come up.

`sup` is where the supervisor is: in its select ("loop") or between two of
them. `api` is the server as `api.done` will tell: "stopped" is exit code 0,
"crashed" any other. `ui` is the dashboard the supervisor knows, `live` those that run,
`port` the one that listens, `pids` those in `supervisor.pids`.
`Run` is the start of a supervisor with killOrphans, `UpdateRestart`, `StartUI`,
`SavePIDs`, `Health`, `PutBack`, `Again` the update branch of the loop, the other
actions of the supervisor one case each. `Faults` are processes that crash or are killed.

Abstractions: there is a dashboard to build; renames do not fail (that the new
dashboard is missing does: `SwapOut`); building takes longer than the supervisor
needs from one select to the next; a server is gone before the next supervisor
starts one (exitWithParent looks every two seconds, killOrphans waits); one
supervisor at a time; /healthz is answered by the child that was started; that a
server ran for over a minute is a choice (`ServerCrashed`), as is that 25 seconds are over
(`Health`); `GiveUp` is 5 in the code; `update.json`, the test for busy chats,
SIGKILL after 15 seconds of stop and texts are left out.

## 4. The runs

| run | checks | instance and why it is enough |
|---|---|---|
| `quiet` | TypeOK, RecordTrue, InOrder, RunsOnce, OneDecision, KeepsPromise (Proposals implements ApprovalQueue) | one agent, three cards, two dashboard requests, two turns, a restart, nobody deciding while the agent answers: two cards to be in order, a third that replaces or follows, two requests to race with Drain and autoApply. OneDecision holds while agents answer, too: proved for every `Overlap`; the others are proved for any number of agents, requests and cards, under the run's empty `Overlap` |
| `bots` | DiffStaysDecided; QueuedRuns (liveness) | two agents, three cards, three turns that may be stopped: one agent in a worktree answers while its diffs are decided (so a diff is replaced between QueuePatch's read and its write), the other's actions and diffs run as it answers; cards decided in a bot, which drains after every decision |
| `lost_drain` | violates QueuedRuns | two dashboard requests |
| `run_twice` | violates RunsOnce | one request, one turn that ends meanwhile |
| `answers` | TypeOK, Held, ShutdownMissesNone, OnceEach, NotLost, PersonOrder | one person, three messages that may tag one of two agents each (waiting ones are joined, so two tags), three turns, one stop or one taken back, a restart inside the sender. Hand-offs are in `ends`; all six are proved for both together |
| `ends` | AnswersKept; Settles, WaitingGoes (liveness) | two agents that give each other work at every answer, refusals, a restart, small caps (four hand-offs, so that the cap on answers is the one that counts); twelve turns, the most those caps allow (with thirteen TLC never reaches the last) |
| `agent_twice` | violates AgentAlone | one hand-off |
| `jobs` | TypeOK, ParallelKept, RunsOnce, RunsKept, CancelStands, Ends (liveness) | a script on a schedule (two at once, one an hour) and a chat run by hand (one at once), two jobs, two slots, one busy retry, two events (cancel, restart): two jobs suffice to exceed either limit. Two events also are an hour that passes between a job's making and its run. `Newest` is 2, so that no job drops out of the list; LimitHolds is about every `Newest` |
| `deliveries` | FoldedRuns, OneEach | two deliveries, two keys, a webhook that folds and one that does not, two events (restart, cancel, a key whose window passes) |
| `workflow` | TypeOK, SeatTrue, LimitsKept, SideBySide, Joined, DoneClean; CallKept (Workflow implements RunPromise); CallerAnswered (liveness) | three roles (one that may be asked, one a sub-workflow, two that vote, two that may work side by side), two turns, two at once, one follow-up, one gate, two busy tries, the first role and the coordinator may be refused; two graphs: two branches joined before the end with a check that may say no, and a loop of three steps whose two agents' steps share a role and wait for each other. Two turns are enough for one to be counted late, refused, asked while another works, or vote |
| `forgotten` | violates NoneForgotten | two roles that may be asked, two turns |
| `supervise` | KeepsGood, SameBuild, NoStrays; Recovers, DashboardBack (liveness) | two updates (the second finds what the first one's swap, undoing or rollback left), two supervisors, two faults (one may cut a rename, one what repairs it), one quick crash until the supervisor gives up; five dashboards are all that these can start and leave |

Bounds stop new cards, turns, messages or jobs, so every run ends in states
where nothing happens any more: the configurations say `CHECK_DEADLOCK FALSE`.
Symmetry is used for people and keys, in runs without liveness only.

Each property of a passing run comes with a variant of one definition,
defined just before the original and used nowhere (`MayBeginAgain`,
`DroppedFirst`, `OverNever`, ...): a plausible mistake of the code. With it in
place of the original, TLC finds the property violated.

## 5. Fairness

Only the specifications of runs with liveness use it.

* Proposals: weak fairness of every goroutine's next step and of a turn's end
  (an answer has a time limit or is stopped, and an agent's process ends).
  Strong fairness of people deciding a *pending* card: the card is shown until
  then, but may be blocked again and again while others are decided. Nothing is assumed of approved ones: that is Drain's task.
* Turns: weak fairness of requests, the sender, each turn, of Shutdown's second
  half, of office's end after it and of the steps of its start. Nobody has to
  write, stop a turn or shut office down.
* Workflow: weak fairness of the write of a run's end, of its caller's goroutine,
  of the timer of a coordinated run's deadline, and of the runner of a graph
  with the results of its steps (a turn, a command, a request and a sub-workflow
  have time limits). That an approve step's card is decided is an assumption (`workflow_steps.go:551` waits
  without a limit; the run's deadline ends it). A graph is not left to its deadline: otherwise CallerAnswered would hold
  although its steps wait for each other. Nothing is assumed of the
  coordinator, its roles, people and call-backs.
* Supervise: weak fairness of a server that comes up or leaves, of dashboards that
  listen or find the port taken, and of the supervisor between two selects; strong
  fairness of each case of its select, as Go chooses at random among those that
  are ready, so that a signal, a crash or a timer is not passed over for ever. Nobody
  has to update, stop or start office; nothing has to fail.
* Jobs: weak fairness of StartReady (every 15 seconds, run.go starts the loop),
  of each run, and of time that comes. Cancels, restarts and deliveries need
  not happen.

## 6. The proofs

`ProposalsProofs` assumes only the named assumptions of Proposals' constants:
any agents, people, cards, turns, crashes, with stops and any agents in `Overlap`.

* `TypesHold`: `Spec => []TypeOK`. Inductive with CurCard (a process that is
  not idle has a card), as rows are indexed by it.
* `OneDecisionHolds`: `Spec => []OneDecision`, by `DecisionInv`. That the
  deciding map is right needs all three of its conjuncts: two processes
  in one decision contradict only the entry that names one of them.
* `DiffsOnceHolds`: `Spec => []DiffsOnce`, by `DiffInv`. An open diff is unspent
  (`ran[c] <= crashes`) unless its decision is being made. What keeps it so
  although an agent's turn writes back rows from an old list: the list it
  writes holds actions alone (`MineActions`), cards not made are not read
  (`ReadMade`, `CurMade`, `Unmade`). For actions the same argument fails where the code does (run_twice).

* `DiffStaysHolds`: the action property DiffStaysDecided, from DiffInv
  (`StepStays`): whoever writes a diff's row writes that it was decided, or its
  agent's next turn replaces it, which rejects it.

`ProposalsApartProofs` adds one hypothesis, `Overlap = {}`: people decide
while no agent answers. Without it both are false (`run_twice`, and TLC finds RecordTrue violated, too). Turns may be stopped, people
may decide in bots.

* `RunsOnceHolds`, `RecordTrueHolds`: by `ApartInv`. Either the
  agents or people and Drain are at work (`Apart`), so what a process read is
  what is stored when it writes it back (`Fresh`): a process holds rows of the card it decides or of
  its own turn's (`Reader`, `BusyCopy`, `OwnCards`), which nobody else writes. Then a card
  that is not done is unspent, unless its decision is being made (`Spent`), as for diffs.

`ProposalsOrderProofs` adds two more, without either of which TLC finds InOrder violated: `MayStop = FALSE`,
every turn comes to its end (a turn that is stopped or cut leaves cards without a number, which
sort after all later ones), and `Bots = {}` (section 7).

* `InOrderHolds`: by `OrderInv`. Cards are numbered in the order they are made: an
  agent's present turn has its last ones (`TurnLast`), numbers grow answer by
  answer (`Numbered`, `Answered`), so that `Before`, which the code sorts by, is the order of making
  (`InTurn`). A card that passed the test of the order has nothing open before it, and
  nothing comes to be there until it is decided (`InLine`), as only a decision or a new turn's end writes rows.
* `KeepsPromiseHolds`: every step of Proposals is one of ApprovalQueue's or
  none of its (one lemma for each of its actions). A restart while cards of two
  agents are carried out showed that `Cut` must cut all that are being carried out, not one
  (the run's single agent cannot tell): ApprovalQueue was corrected so.

`TurnsProofs` likewise assumes only Turns' assumptions. That there are finitely many
agents (rows of a table) is among them for AnswersKept, which counts them.

* `HeldHolds`: `Spec => []Held`, by `HeldInv`: Held with the types and three
  facts it lives on: `TypedTurns`, `TypedStages`, `TypedLists` (which agents a
  turn's lists name) and `Starting` (what a turn about to be started may be).
  Each action falls in one of few kinds (a turn registers, finishes, goes
  aside, moves), each with a lemma.
* `ShutdownMissesNoneHolds`: between Shutdown's mark and office's end nothing
  begins (`NothingBegins`), a cancelled turn stays so (`OffStays`), and Shutdown
  cancels what Held says is all there is.
* `TypesHold`: by `TypeInv`: the types, HeldInv, who wrote a message
  (`WrittenBy`), that a turn's root is a turn (`Before`) and who is told of what was cut (`CutOff`).
* `OnceEachHolds`, `NotLostHolds`, `PersonOrderHolds`: by `SaidInv`. A message is in
  one place, with the person who writes it or among those that wait (`InOnePlace`);
  a turn that begins is tied to the request that began it (`Links`, `HandedOn`).
  OnceEach is not inductive: `OncePerLife` says that a message which may still be
  said, by whoever holds it, was said at most once for each time office went down.
  What the sender deletes was said (`Answered`), and nothing its
  writer wrote earlier waits behind what is sent (`NoneBehind`): the sender takes all that waits, and a
  person looks whether messages wait before sending.
* `AnswersKeptHolds`: by `AnswersInv`. The code looks at the cap in one step (`MayStart`) and counts
  in a later one (`Register`), so what is bounded is not the answers but the answers and
  the turns about to add one, together (`Room`). `total` is at least the
  turns counted (`Sums`; a turn that gives way is taken off). Of one message's turns at most one
  per agent, the chat's and one more can be about to add an answer (`FewStart`): a hand-off keeps its
  agent until it is over (`HasAgent`), a report the chat (`HasChat`), and of the turns of the agents
  a person tagged one goes on with the rest (`OneLeads`, by who started whom: `Born`,
  `Waits`). That is one more than AnswersKept allows; but it takes every agent to be about to start
  one, and then no agent is free to begin (the second case of `RoomFor`). A new turn takes
  the room of the one that started it (`NewRoom`).

`WorkflowProofs` assumes Coordinator's and Steps' named assumptions: any roles,
groups, voters, limits, refusals, graphs.

* `CallIsKept`: `Spec => CallKept`, the refinement of RunPromise. It needs `RowInv`
  (`RowKept`): the row is written only with "running" while a late copy is
  about, and once run.done is closed it is the run's end. Everything the
  coordinator and the runner do falls in three kinds for it: they leave the run
  alone, end it, or notice that its time is over (`CoordEndsOnly`, `StepsEndsOnly`, `NextCases`).
* `LimitsAreKept`: by `LimitInv`, which adds the turn being started to the sums
  (counted in `batch` before its turn starts, taken out of `asks`).
* `SeatsAreTrue`, `WorkSideBySide`: by `SeatInv`: a role with a seat is at work,
  voting or about to start; any two of them, and those asked for, are of one
  group, or they all are one vote (`AskedApart`, `VoteWhole`). Under `VotersApart` only.
* `DoneIsClean`: what workflow_done saw stays true until it ends the run: nobody
  but the coordinator asks for turns, and it is at this tool (`DoneIdle`, `DoneNext`, `DoneOnlyThen`).
* `TypesHold`: TypeOK with RowInv (a caller that hears the row must not hear
  "running") and LimitInv (a turn that did not start is taken off `turns`, which
  stays a number because it was counted).
* `JoinedHolds`: for graphs without loops. Which steps reach a step is the least set
  that is closed under "goes to" (`Before`, `LeadsTo`), so reaching is transitive
  (`ReachesOn`) and whatever a step goes to is reached by all that reach the step (`Closed`). Of steps
  that wait, the one that the fewest others of them come before is free
  (`OneIsFree`, by counting), so the exception for loops never starts a
  step (`NeverForced`); a step that was started when it was free stays so,
  as what comes later comes from steps that could not reach it (`NoWayBack`).

`JobsProofs` assumes only Jobs' assumptions: any automations, limits, slots,
keys, deliveries and jobs. Most of it does not need all of TypeOK (in which order jobs are due does not
matter to it) and has types of its own, `Typed`.

* `OnceHolds`, `CancelHolds`: by `OnceInv`, which says of each job where its
  goroutine is and what its row says there (`RunOf`): before its content starts it
  is `Fresh`, and what StartReady holds is fresh and has no goroutine. That a
  cancel meets only waiting jobs and chats' (`CancelInv`) is what keeps a
  script's row its own. `CancelStands` is a step of the same case analysis (`Steady`).
* `FoldedHolds`: only a waiting job's payload changes, and a claim reads it in the
  statement that makes the job run.
* `OneEachHolds`: by `KeysInv`: a row without its key, and a request about to
  clear one (`HookKeys`), both mean that a job made with it is past the window.
* `ParallelHolds`: by `RoomInv`: r.busy is the number of runs, and the room StartReady
  read is still there when its runs begin, as meanwhile runs only leave.
* `LimitHolds`: by `LimitInv`, which counts also those that were let through and
  have not started (`Counts`): each of them is among the others that the next one sees, unless
  an hour has passed or newer jobs have pushed it out of the list, and then it is no longer
  among those RunsKept counts (`NeverFewer`); the hour a run looks back to is never later than
  the present one (`HourInv`).
* `TypesHold`: by `TypeInv`. What is due only grows by a job that is not in it or
  shrinks (`DueMoves`). That slots stay within bounds needs to know whose they are
  (`SlotsInv`): one for each run, and those StartReady holds, which are enough for what it
  claimed.

`SuperviseProofs` assumes Builds' and Supervise's assumptions: any numbers of
updates, faults, supervisors and crashes.

* `GoodKept`: by `GoodInv`. The updater lives in a server that answers, so the build it
  runs is good; until the swap that build is in place, from then on it is the one before
  (`Running`), also for the supervisor that starts its successor (`Kept`). A
  build being made is in no place yet (`Fresh`), so that finding it broken breaks
  nothing that is there. Updates (`Updated`), rollbacks (`PutInPlace`) and the
  ways a server starts and goes (`Started`, `Gone`) are a lemma each.
* `SameBuildHolds`: by `PairInv`: what each half of a swap has put in place
  (`Made`) makes the two equal when the server leaves, and nothing swaps until the supervisor
  has seen the new one answer (`Pair`).
* `NoStraysHolds`: by `StrayInv`. As long as no dashboard and no supervisor has gone down of
  itself (`hit`), each dashboard that runs is the supervisor's or in its file and its restart timer
  is not set (`Known`). That needs a build of the dashboard wherever one is started
  (`Served`), as one without files exits at once and sets the timer.
* `TypesKeep`: with them, as `GoodInv` holds TypeOK. TLC need not check it again:
  the run has the properties that say more.

TLC checks the inductive invariants' consequences; it checked the invariants themselves on the small
instances while the proofs were made.

`ListsProofs` is about `Without`, the list a DELETE leaves. The models had
SelectSeq there, which the prover cannot expand; a recursive function of the same
meaning it can. That the function exists and what it computes (`WithoutProperties`) are
inductions over a set of numbers, from the library's fact that < is
well-founded on Nat: they need no induction theorem with an operator as a parameter.
`WorkflowProofs` uses the same induction for `Reach`, which adds steps to those that wait (`ReachDefined`, `Reached`).

Model-checked only: liveness (Settles, WaitingGoes, Ends, QueuedRuns,
CallerAnswered, Recovers, DashboardBack), out of the prover's reach. Every invariant and
action property of the passing runs is a theorem.

## 7. Where the code and its comments differ

Found by runs:

* `lost_drain`: the dashboard's handler tests the order, then queues, and never
  drains. If the card before is decided and drained in between, the queued one
  stays until some other card of the chat is decided. order.go says it "runs once
  those before it are decided (Drain)". The bots' handler drains.
* `run_twice`: the end of a turn writes its actions' rows from a list read
  before; a decision stored in between becomes pending again and its operation can
  be run a second time. actions.go says "Only one decision of an action runs".
* `agent_twice`: startTurn refuses a second background turn of an agent, "one
  session, one worktree: never twice at once", but not a background turn of the agent that answers the person.

* `forgotten`: a role asked with workflow_ask answers after the wait, and its call-back
  finds another role at work that was asked meanwhile. It is dropped and
  `owed` not set; when that one answers to the ask, nobody calls back. wfAskNow
  says that past the wait "the coordinator is called back as for workflow_delegate".

Read, and followed by the models, without a run:

* A decision reads an action's row, runs it for minutes and writes the row whole
  (`actions.go:464`, `UPDATE` of every column): the answer's number, which the end of the agent's
  turn stored meanwhile, is lost, and the card sorts behind all later ones of its chat.
* treePatch rejects an agent's earlier diffs without a test of their status
  (`engine.go:1415`): one that is being applied is "rejected" until the outcome is written over that.
  It is applied once all the same (DiffsOnceHolds).
* order.go says a chat's proposals run in order and the bots' decider says it decides
  "in the order its agent proposed them" (`cmd/office/decider.go:34`), but it tests the order of a card
  it reads as pending only. One that a person on the dashboard
  queued after the bot showed it is read as queued and carried out past those before it (`Get`).
* A card of a turn that was stopped has no number in its chat and sorts after every
  numbered one (`unseen` in order.go), also those proposed later: these may run before it.
* runSteps says a join "runs once with every branch's output". In a loop it may
  run early: when every pending step waits for another, the first one goes
  (`Forced`). `Joined` is about graphs without loops.
* limits.concurrency is not tested by workflow_vote: a vote of more roles starts
  them all at once (`LimitsKept` has it).
* When two voters share a parallel group, one may be delegated to in the turn that
  asks for the vote: canAsk skips asks that are ballots. It is started twice, the second start
  is refused, which frees the seat and leaves the ballot out (`VotersApart`).
* wfCallBack starts the turn and then clears `voting`, `owed` and the notes: what
  the new turn did by then is cleared too (`CallReset`).
* canAsk is tested in one hold of the lock and the ask queued in another, without
  another test: the model has the coordinator call one tool at a time.
* finishRun cancels the turns of roles (`wfRole`), not those of steps (`wfStep`):
  these run on until they end, and their answers are thrown away. A role's turn
  that wfAfter starts after the end is not cancelled either, and a sub-workflow
  launched while the run above it ends is not stopped.
* A decision of a gate's card is dropped after ten minutes of a busy chat
  (`GoOnGivesUp`), call-backs after 240 busy tries: the deadline ends the run.
* A run whose end was stored, with office dying before its caller was answered, is
  told to nobody: EndInterrupted looks for running rows only.

* queue.go says waiting messages go "as the person who wrote them"; messages of
  two people go together, in the first one's name (`SenderSend`).
* DECISIONS.md limits the hand-offs of a message; the code counts those
  behind a turn, so each branch has the whole allowance (`hops`).
* runner.go says that of two identical deliveries at once the second is a
  duplicate. Not if a job with the same key is older than the window: both
  conflict with it, both find it too old, one frees the key and adds its row,
  then the other frees that row's key too and adds its own (three deliveries,
  two of them at once). `OneEach` is about keys with no such job.
* A delivery folded into a waiting run leaves no key of its own: the same one,
  sent again after the run began, runs.
* MaxRunsPerHour is documented as the limit of runs in an hour (`docs/DECISIONS.md:898`,
  `964`). The code counts rows by when they were *made* (`runner.go:415`, `jobs.go:328`) among the
  newest 200, skipped ones included (`jobs.go:341`): jobs that waited more than an hour, or lie behind 200
  newer ones, start beside a full hour's runs. RunsKept says what the code does keep.
* Two runs that count the hour's runs together can both be skipped, though
  one was allowed: RunsKept is an upper bound.
* DECISIONS.md has Claim as one statement; it is one UPDATE and one for each job
  put back. Office dying in between fails a job that was never started.
* Nothing after a restart takes up the cards that were queued before it:
  a queued card outlives the Drain that would run it, and only the next
  decision of the chat starts another (`Crash`).

* ADR-031 says office leaves no orphaned process (`docs/DECISIONS.md:601`), and
  the supervisor that it restarts its children. The update branch starts a dashboard
  without clearing `uiRestart` (`supervise.go:225`): when the old one had just
  stopped, the timer starts another, `ui` names that one, and the first keeps the port
  with nobody to stop it; after the next update it still shows the old build. Likewise
  a supervisor killed between startUI and savePIDs leaves a dashboard the next
  one does not know. So ADR-031 does not hold: with one fault TLC reaches a state with a
  dashboard that nobody knows. `NoStrays` says where it does hold: as long as no dashboard and no
  supervisor goes down of itself, whatever updates, rollbacks and crashes of the server do.
* The loop "uses no blocking wait, so that it always handles signals"
  (`docs/DECISIONS.md:602`); healthy waits in it for up to 25 seconds (`Health`).
* A new build is checked, and the one before put back, only when the server exited
  with RestartCode. One that goes down otherwise between swap and exit is
  replaced by the new build through `ServerCrashed`: no health check, no rollback, and the
  dashboard goes on with the old one. SameBuild is about updates that were announced.
* Between the two renames of replace there is no `bin/office`: a server that crashes
  there cannot be started again, and the supervisor exits (`ApiRestart`). The build
  is there as `.prev` (KeepsGood); somebody has to put it back.

## 8. What is left out

Each component that is not modelled is in `PROJECT.json` with its reason: pure
I/O (bots' APIs, providers, MCP servers, git), forms over stored settings, data
without interleavings (permission levels, cron, templates), the dashboard, and
those of the plan. The text of prompts, streams and notices is left out
everywhere.

## 9. The plan

In order of what can go wrong unnoticed; each module with its own small
constants, reusing one of the existing runs' questions where it can be
asked of the composition, so that the set of runs stays small.

1. `Jobs`: goal runs and escalations.
2. `Inbox`, an abstract specification of a chat's messages (written, waiting,
   said, told, taken back), implemented by `Turns`: replaces NotLost and OnceEach
   by one refinement.
3. `Resume`: the lines told to an agent about decisions made while it answers
   (`chat/resume.go`) in people's and bots' chats, composed with Proposals.
4. `Workflow`: a tree of runs (a sub-workflow that calls its parent's role again, the
   tree's concurrency), the supervisor role, a coordinator that calls tools side by side.
5. `Supervise`: two supervisors at once (one started while the other still runs),
   renames that fail, and a dashboard that nobody knows as a violation run of its own.
6. `Burn`: pieces, quests and the stop time over a turn at a time.
7. `Ops`: wanted and real state of processes and their restarts.
8. Proofs: that `Turns` implements `Inbox` (2), from `SaidInv`.
