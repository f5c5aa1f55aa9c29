---------------------------- MODULE Coordinator ----------------------------
(***************************************************************************)
(* A workflow that an agent coordinates (chat/workflow.go): its turns in   *)
(* the run's own chat and the workflow_* tools it calls in them, the turns *)
(* of the roles in the background, sub-workflows in a role's seat          *)
(* (chat/workflow_sub.go), the gate with its approval cards                *)
(* (chat/resume.go), and calling the coordinator back once its roles are   *)
(* done.                                                                   *)
(*                                                                         *)
(* Every role has an agent of its own bound to it.  The coordinator calls  *)
(* one tool at a time.                                                     *)
(***************************************************************************)
EXTENDS WorkflowRun, Sequences, FiniteSets, SequencesExt

CONSTANTS
    Roles,
    Askable,      \* roles that only read: the coordinator may ask and wait
    Flows,        \* roles filled by a sub-workflow
    Voters,       \* the roles of the vote, each an agent of its own (none: no vote)
    Together,     \* the groups of roles that may work at once (parallel)
    MaxTurns,     \* limits.turns: the turns of all roles
    MaxRounds,    \* limits.rounds: the follow-ups of a role
    Concurrency,  \* limits.concurrency: the roles at work at once
    MaxTries,     \* call-backs that find the chat busy (240 in the code)
    Refusable,    \* who may be refused a turn: no connection, its budget is spent
    MaxCards      \* bound: how often the gate is opened

Coord == "coordinator"    \* the goroutine of the coordinator's turn
Timer == "timer"          \* the goroutines that timers start

ASSUME RolesAssumption ==
    /\ IsFiniteSet(Roles)
    /\ {Coord, Timer} \cap Roles = {}
    /\ Askable \subseteq Roles /\ Flows \subseteq Roles
    /\ Voters \in Seq(Roles)
    /\ \A i, j \in DOMAIN Voters : i # j => Voters[i] # Voters[j]
ASSUME LimitsAssumption ==
    /\ MaxTurns \in Nat /\ MaxRounds \in Nat /\ MaxTries \in Nat
    /\ Concurrency \in Nat \ {0}
    /\ Refusable \subseteq Roles \cup {Coord} /\ MaxCards \in Nat

Callers == Roles \cup {Coord, Timer}
Asks == [role : Roles, vote : BOOLEAN]
NoAsk == [role |-> "nobody", vote |-> FALSE]

VARIABLES
    coord,    \* where the coordinator's turn is
    asks,     \* e.wf.pending: the turns it asked for, not started yet
    asked,    \* the one being started: for workflow_ask, or after its turn
    began,    \* a turn it asked for has started
    rstatus,  \* a role's status, whether it is done or has failed is left out
    rounds,   \* its follow-ups
    turn,     \* the role's turn: what kind is at work, "leaving" until finish(turn)
    batch,    \* run.batch: the roles answering now
    turns,    \* run.rec.Turns
    waiting,  \* e.wf.waiting: the roles whose answer goes to workflow_ask
    owed,     \* run.owed
    voting,   \* run.voting: a vote is in progress
    calls,    \* wfCallBack: its goroutines by who runs them and where they are
    tries,    \* run.tries
    gate,     \* the gate's status
    cards,    \* the cards it was opened with, the last one is the gate's
    decided,  \* the chat's decisions: some "held" for a while, some "taken" to be sent
    untold    \* history: a role is done and the coordinator has not been told

coordVars == <<coord, asks, asked, began, rstatus, rounds, turn, batch, turns, waiting, owed,
               voting, calls, tries, gate, cards, decided, untold>>
roleVars == <<rstatus, rounds, turn, batch, turns, waiting, owed>>
gateVars == <<gate, cards, decided>>
callVars == <<calls, tries>>

CoordTypeOK ==
    /\ coord \in {"idle", "begun", "answering", "ask", "askStart", "asking", "done",
                  "after", "afterStart", "leaving"}
    /\ asks \in Seq(Asks)
    /\ asked \in Asks \cup {NoAsk}
    /\ began \in BOOLEAN
    /\ rstatus \in [Roles -> {"idle", "working", "answered"}]
    /\ rounds \in [Roles -> 0 .. MaxRounds]
    /\ turn \in [Roles -> {"none", "work", "vote", "flow", "leaving"}]
    /\ batch \subseteq Roles
    /\ turns \in Nat
    /\ waiting \subseteq Roles
    /\ owed \in BOOLEAN /\ voting \in BOOLEAN
    /\ calls \in [Callers -> [{"look", "start", "reset", "retry"} -> Nat]]
    /\ tries \in Nat
    /\ gate \in {"open", "waiting", "passed", "failed"}
    /\ cards \in Seq({"pending", "done", "failed"})
    /\ decided \subseteq {"held", "taken"}
    /\ untold \in BOOLEAN

NoCalls == [w \in Callers |-> [s \in {"look", "start", "reset", "retry"} |-> 0]]

\* The coordinator's first turn begins with the run; a graph of steps has none.
CoordInit ==
    /\ coord = IF mode = "coordinator" THEN "begun" ELSE "idle"
    /\ asks = <<>> /\ asked = NoAsk /\ began = FALSE
    /\ rstatus = [r \in Roles |-> "idle"]
    /\ rounds = [r \in Roles |-> 0]
    /\ turn = [r \in Roles |-> "none"]
    /\ batch = {} /\ turns = 0 /\ waiting = {} /\ owed = FALSE
    /\ voting = FALSE
    /\ calls = NoCalls /\ tries = 0
    /\ gate = "open" /\ cards = <<>> /\ decided = {}
    /\ untold = FALSE

-----------------------------------------------------------------------------
(* The limits of a run                                                     *)

SameBatch(a, b) == \E g \in Together : {a, b} \subseteq g

Queued == {asks[i].role : i \in DOMAIN asks}

\* canAsk: a new turn for role r, besides those at work and those asked for.
\* The sub-workflows below a run share its limit of roles at once: a refusal
\* because of them is an ask the coordinator does not make.
\* (Mistakes, as every definition here whose comment says so, for the checks
\* of the properties: what was asked for in this turn is not counted; only
\* the roles at work are looked at.)
Beside(r, others) == \A k \in others \ {r} : SameBatch(r, k)
NotTwice(r) == \A i \in DOMAIN asks : asks[i].role = r => asks[i].vote

CanAskUncounted(r) ==
    turns < MaxTurns /\ Cardinality(batch) < Concurrency /\ NotTwice(r) /\ Beside(r, batch \cup Queued)
CanAskBeside(r) ==
    /\ turns + Cardinality(batch) + Len(asks) < MaxTurns
    /\ Cardinality(batch) + Len(asks) < Concurrency
    /\ NotTwice(r)
    /\ Beside(r, batch)
CanAsk(r) ==
    /\ turns + Cardinality(batch) + Len(asks) < MaxTurns
    /\ Cardinality(batch) + Len(asks) < Concurrency
    /\ NotTwice(r)
    /\ Beside(r, batch \cup Queued)

\* A role is asked again at most so often.  (Mistake: not counted.)
MayFollowAlways(r) == TRUE
MayFollow(r) == rounds[r] < MaxRounds

-----------------------------------------------------------------------------
(* finishRun                                                               *)

\* Nothing of it is in memory.
NoCoord ==
    /\ coord' = "idle" /\ asks' = <<>> /\ asked' = NoAsk /\ began' = FALSE
    /\ rstatus' = [r \in Roles |-> "idle"] /\ rounds' = [r \in Roles |-> 0]
    /\ turn' = [r \in Roles |-> "none"]
    /\ batch' = {} /\ turns' = 0 /\ waiting' = {} /\ owed' = FALSE /\ voting' = FALSE
    /\ calls' = NoCalls /\ tries' = 0
    /\ gate' = "open" /\ cards' = <<>> /\ decided' = {} /\ untold' = FALSE

\* Nothing happens to a run that has ended: what its turns still do finds no
\* run, and is not followed.
FinishRun(s) == End(s) /\ NoCoord

besidesTime == <<mode, live, status, stored, late, ending, answer, office>>
restOfRun == <<mode, stored, time, answer, office>>

-----------------------------------------------------------------------------
(* The coordinator's turn and its tools                                    *)

\* refreshGates: what a person decided about the card the gate waits on.
Refreshed ==
    IF gate = "waiting" /\ Last(cards) # "pending"
    THEN IF Last(cards) = "done" THEN "passed" ELSE "failed"
    ELSE gate

\* The agent starts: coordinatorOf, and wfBrief tells it how its roles are.
Brief ==
    /\ coord = "begun"
    /\ coord' = "answering"
    /\ gate' = Refreshed
    /\ untold' = FALSE
    /\ UNCHANGED <<run, asks, asked, began, roleVars, voting, callVars, cards, decided>>

\* The coordinator calls a tool.
Tool == coord = "answering"

\* workflow_delegate, of a sub-workflow too (wfDelegateFlow).
Delegate(r) ==
    /\ Tool
    /\ rstatus[r] # "working"
    /\ CanAsk(r)
    /\ asks' = Append(asks, [role |-> r, vote |-> FALSE])
    /\ UNCHANGED <<run, coord, asked, began, roleVars, voting, callVars, gateVars, untold>>

\* workflow_send: a follow-up to a role that has answered.
SendAgain(r) ==
    /\ Tool
    /\ rstatus[r] \notin {"idle", "working"}
    /\ MayFollow(r)
    /\ CanAsk(r)
    /\ rounds' = [rounds EXCEPT ![r] = @ + 1]
    /\ asks' = Append(asks, [role |-> r, vote |-> FALSE])
    /\ UNCHANGED <<run, coord, asked, began, rstatus, turn, batch, turns, waiting, owed,
                   voting, callVars, gateVars, untold>>

\* workflow_vote: a ballot of every voter, with nobody else at work.
Vote ==
    /\ Tool
    /\ Voters # <<>>
    /\ ~voting /\ batch = {} /\ asks = <<>>
    /\ turns + Len(Voters) <= MaxTurns
    /\ voting' = TRUE
    /\ asks' = [i \in DOMAIN Voters |-> [role |-> Voters[i], vote |-> TRUE]]
    /\ UNCHANGED <<run, coord, asked, began, roleVars, callVars, gateVars, untold>>

\* workflow_gate: an approval card, or a check command that runs at once or
\* waits for a person as a card.
OpenGate ==
    /\ Tool
    /\ Len(cards) < MaxCards
    /\ \E g \in {"waiting", "passed", "failed"} :
          /\ gate' = g
          /\ cards' = Append(cards, CASE g = "waiting" -> "pending"
                                      [] g = "passed" -> "done"
                                      [] g = "failed" -> "failed")
    /\ UNCHANGED <<run, coord, asks, asked, began, roleVars, voting, callVars, decided, untold>>

\* workflow_done is refused before the gate is passed, while a role works or
\* was just asked.  (Mistake: the roles are not looked at.)
MayFinishAtWork(g) == g = "passed" /\ asks = <<>>
MayFinish(g) == g = "passed" /\ asks = <<>> /\ \A r \in Roles : rstatus[r] # "working"

\* The gates are read again, then it looks; it ends the run a moment later.
DoneLook ==
    /\ Tool
    /\ gate' = Refreshed
    /\ coord' = IF MayFinish(Refreshed) THEN "done" ELSE "answering"
    /\ UNCHANGED <<run, asks, asked, began, roleVars, voting, callVars, cards, decided, untold>>

DoneFinish == coord = "done" /\ FinishRun("done") /\ UNCHANGED restOfRun

-----------------------------------------------------------------------------
(* Starting a role's turn: startRole, startChild                           *)

\* The role is counted as working before its turn starts.
Mark(a) ==
    /\ time = "on"
    /\ rstatus' = [rstatus EXCEPT ![a.role] = "working"]
    /\ batch' = batch \cup {a.role}
    /\ turns' = turns + 1

\* startTurn: its agent's place in the chat is free.  A sub-workflow has a
\* chat of its own.
Kind(a) == IF a.vote THEN "vote" ELSE IF a.role \in Flows THEN "flow" ELSE "work"

Starts(a) ==
    /\ turn[a.role] = "none"
    /\ turn' = [turn EXCEPT ![a.role] = Kind(a)]
    /\ UNCHANGED <<rstatus, batch, turns>>

\* ... or it does not start, and the role is not working after all.  (Mistake:
\* its seat stays taken.)
RefusedSeated(a) ==
    /\ a.role \in Refusable \/ turn[a.role] # "none"
    /\ rstatus' = [rstatus EXCEPT ![a.role] = "answered"]
    /\ turns' = turns - 1
    /\ UNCHANGED <<batch, turn>>
Refused(a) ==
    /\ a.role \in Refusable \/ turn[a.role] # "none"
    /\ rstatus' = [rstatus EXCEPT ![a.role] = "answered"]
    /\ batch' = batch \ {a.role}
    /\ turns' = turns - 1
    /\ UNCHANGED turn

-----------------------------------------------------------------------------
(* workflow_ask                                                            *)

Ask(r) ==
    /\ Tool
    /\ r \in Askable \ Flows
    /\ rstatus[r] # "working"
    /\ rstatus[r] # "idle" => MayFollow(r)
    /\ CanAsk(r)
    /\ rounds' = [rounds EXCEPT ![r] = IF rstatus[r] = "idle" THEN @ ELSE @ + 1]
    /\ waiting' = waiting \cup {r}
    /\ asked' = [role |-> r, vote |-> FALSE]
    /\ coord' = "ask"
    /\ UNCHANGED <<run, asks, began, rstatus, turn, batch, turns, owed, voting, callVars,
                   gateVars, untold>>

AskMark ==
    /\ coord = "ask"
    /\ Mark(asked)
    /\ coord' = "askStart"
    /\ UNCHANGED <<run, asks, asked, began, rounds, turn, waiting, owed, voting, callVars,
                   gateVars, untold>>

AskTooLate ==
    /\ coord = "ask" /\ TooLate
    /\ waiting' = waiting \ {asked.role}
    /\ asked' = NoAsk
    /\ coord' = "answering"
    /\ UNCHANGED <<besidesTime, asks, began, rstatus, rounds, turn, batch, turns, owed, voting,
                   callVars, gateVars, untold>>

AskStart ==
    /\ coord = "askStart"
    /\ \/ Starts(asked) /\ coord' = "asking" /\ UNCHANGED <<asked, waiting>>
       \/ /\ Refused(asked)
          /\ coord' = "answering" /\ asked' = NoAsk /\ waiting' = waiting \ {asked.role}
    /\ UNCHANGED <<run, asks, began, rounds, owed, voting, callVars, gateVars, untold>>

\* The answer came, or the wait is over and the role goes on in the background.
AskReturn ==
    /\ coord = "asking"
    /\ waiting' = waiting \ {asked.role}
    /\ asked' = NoAsk
    /\ coord' = "answering"
    /\ UNCHANGED <<run, asks, began, rstatus, rounds, turn, batch, turns, owed, voting,
                   callVars, gateVars, untold>>

-----------------------------------------------------------------------------
(* After the coordinator's turn: wfAfter                                   *)

\* Its answer is over, in whatever way.
CoordEnd ==
    /\ coord = "answering"
    /\ IF asks # <<>> THEN coord' = "after" /\ UNCHANGED asks
                              ELSE coord' = "leaving" /\ asks' = <<>>
    /\ began' = FALSE
    /\ UNCHANGED <<run, asked, roleVars, voting, callVars, gateVars, untold>>

AfterMark ==
    /\ coord = "after" /\ asks # <<>>
    /\ Mark(Head(asks))
    /\ asked' = Head(asks) /\ asks' = Tail(asks)
    /\ coord' = "afterStart"
    /\ UNCHANGED <<run, began, rounds, turn, waiting, owed, voting, callVars,
                   gateVars, untold>>

AfterTooLate ==
    /\ coord = "after" /\ asks # <<>> /\ TooLate
    /\ asks' = Tail(asks)
    /\ UNCHANGED <<besidesTime, coord, asked, began, roleVars, voting, callVars, gateVars, untold>>

AfterStart ==
    /\ coord = "afterStart"
    /\ \/ Starts(asked) /\ began' = TRUE /\ UNCHANGED untold
       \/ Refused(asked) /\ untold' = TRUE /\ UNCHANGED began
    /\ coord' = "after" /\ asked' = NoAsk
    /\ UNCHANGED <<run, asks, rounds, waiting, owed, voting, callVars, gateVars>>

-----------------------------------------------------------------------------
(* Calling the coordinator back: wfCallBack                                *)

Enter(w, s) == calls' = [calls EXCEPT ![w][s] = @ + 1]
Leave(w, s) == calls' = [calls EXCEPT ![w][s] = @ - 1]
Step(w, s, t) == calls' = [calls EXCEPT ![w][s] = @ - 1, ![w][t] = @ + 1]
Through(w) == \A s \in {"look", "start", "reset"} : calls[w][s] = 0

\* None of the turns it asked for has started: it is called back.
AfterOver ==
    /\ coord = "after" /\ asks = <<>>
    /\ coord' = "leaving"
    /\ IF began THEN UNCHANGED calls ELSE Enter(Coord, "look")
    /\ UNCHANGED <<run, asks, asked, began, roleVars, voting, tries, gateVars, untold>>

\* finish(turn): the chat is free.
CoordLeave ==
    /\ coord = "leaving" /\ Through(Coord)
    /\ coord' = "idle"
    /\ UNCHANGED <<run, asks, asked, began, roleVars, voting, callVars, gateVars, untold>>

\* It looks whether the run is on and no role works.
CallLook(w) ==
    /\ calls[w]["look"] > 0
    /\ \/ batch = {} /\ time = "on" /\ Step(w, "look", "start") /\ UNCHANGED time
       \/ batch # {} /\ Leave(w, "look") /\ UNCHANGED time
       \/ TooLate /\ Leave(w, "look")
    /\ UNCHANGED <<besidesTime, coord, asks, asked, began, roleVars, voting, tries, gateVars, untold>>

\* startTurn: the chat is free ...
CallStart(w) ==
    /\ calls[w]["start"] > 0
    /\ coord = "idle"
    /\ coord' = "begun"
    /\ Step(w, "start", "reset")
    /\ UNCHANGED <<run, asks, asked, began, roleVars, voting, tries, gateVars, untold>>

\* ... or busy, and it is tried again a little later ...
CallBusy(w) ==
    /\ calls[w]["start"] > 0
    /\ coord # "idle"
    /\ tries' = tries + 1
    /\ calls' = [calls EXCEPT ![w]["start"] = @ - 1,
                              ![Timer]["retry"] = @ + IF tries + 1 < MaxTries THEN 1 ELSE 0]
    /\ UNCHANGED <<run, coord, asks, asked, began, roleVars, voting, gateVars, untold>>

\* ... or the turn is refused, which ends the run.
CallRefused(w) ==
    /\ calls[w]["start"] > 0
    /\ Coord \in Refusable
    /\ FinishRun("failed")
    /\ UNCHANGED restOfRun

CallReset(w) ==
    /\ calls[w]["reset"] > 0
    /\ Leave(w, "reset")
    /\ tries' = 0 /\ voting' = FALSE /\ owed' = FALSE
    /\ UNCHANGED <<run, coord, asks, asked, began, rstatus, rounds, turn, batch, turns, waiting,
                   gateVars, untold>>

Retry ==
    /\ calls[Timer]["retry"] > 0
    /\ Step(Timer, "retry", "look")
    /\ UNCHANGED <<run, coord, asks, asked, began, roleVars, voting, tries, gateVars, untold>>

-----------------------------------------------------------------------------
(* A role's turn ends: wfRoleDone, awaitChild                              *)

RoleCounted(r) ==
    /\ rstatus' = [rstatus EXCEPT ![r] = "answered"]
    /\ batch' = batch \ {r}
    /\ UNCHANGED <<run, coord, asks, asked, began, rounds, turns, voting, tries, gateVars>>

\* Its answer goes to the coordinator that waits for it ...
RoleAnswers(r) ==
    /\ turn[r] \in {"work", "vote"} /\ r \in waiting
    /\ RoleCounted(r)
    /\ turn' = [turn EXCEPT ![r] = "leaving"]
    /\ waiting' = waiting \ {r}
    /\ IF batch' = {} /\ owed THEN Enter(r, "look") ELSE UNCHANGED calls
    /\ UNCHANGED <<owed, untold>>

\* ... or nobody waits, and the last one of the batch calls it back.
RoleDone(r) ==
    /\ turn[r] \in {"work", "vote"} /\ r \notin waiting
    /\ RoleCounted(r)
    /\ turn' = [turn EXCEPT ![r] = "leaving"]
    /\ owed' = (owed \/ batch' # {})
    /\ IF batch' = {} THEN Enter(r, "look") ELSE UNCHANGED calls
    /\ untold' = TRUE
    /\ UNCHANGED waiting

\* A sub-workflow has ended.
ChildDone(r) ==
    /\ turn[r] = "flow"
    /\ RoleCounted(r)
    /\ turn' = [turn EXCEPT ![r] = "none"]
    /\ IF batch' = {} THEN Enter(r, "look") ELSE UNCHANGED calls
    /\ untold' = TRUE
    /\ UNCHANGED <<waiting, owed>>

\* finish(turn): its agent's place in the chat is free.
RoleLeave(r) ==
    /\ turn[r] = "leaving" /\ Through(r)
    /\ turn' = [turn EXCEPT ![r] = "none"]
    /\ UNCHANGED <<run, coord, asks, asked, began, rstatus, rounds, batch, turns, waiting, owed,
                   voting, callVars, gateVars, untold>>

-----------------------------------------------------------------------------
(* A person decides a card: Decided, goOn                                  *)

Busy == coord # "idle" \/ \E r \in Roles : turn[r] \notin {"none", "flow"}
SomePending == \E i \in DOMAIN cards : cards[i] = "pending"

CardDecided(i) ==
    /\ cards[i] = "pending"
    /\ \E d \in {"done", "failed"} : cards' = [cards EXCEPT ![i] = d]
    /\ decided' = decided \cup {"held"}
    /\ UNCHANGED <<run, coord, asks, asked, began, roleVars, voting, callVars, gate, untold>>

\* goOn, a few seconds later: it waits for the chat to be quiet and for the
\* other cards ...
GoOn ==
    /\ "held" \in decided
    /\ ~Busy /\ ~SomePending
    /\ decided' = {"taken"}
    /\ UNCHANGED <<run, coord, asks, asked, began, roleVars, voting, callVars, gate, cards, untold>>

\* ... ten minutes at most.
GoOnGivesUp ==
    /\ "held" \in decided
    /\ Busy
    /\ decided' = decided \ {"held"}
    /\ UNCHANGED <<run, coord, asks, asked, began, roleVars, voting, callVars, gate, cards, untold>>

\* Send: the coordinator goes on; a chat that is busy again has lost it.
GoOnSend ==
    /\ "taken" \in decided
    /\ decided' = decided \ {"taken"}
    /\ IF coord = "idle" THEN coord' = "begun" ELSE UNCHANGED coord
    /\ UNCHANGED <<run, asks, asked, began, roleVars, voting, callVars, gate, cards, untold>>

-----------------------------------------------------------------------------
RoleStep(r) ==
    \/ Delegate(r) \/ SendAgain(r) \/ Ask(r)
    \/ RoleAnswers(r) \/ RoleDone(r) \/ ChildDone(r) \/ RoleLeave(r)

CallStep(w) == CallLook(w) \/ CallStart(w) \/ CallBusy(w) \/ CallRefused(w) \/ CallReset(w)

CoordStep ==
    \/ Brief \/ Vote \/ OpenGate \/ DoneLook \/ DoneFinish
    \/ AskMark \/ AskTooLate \/ AskStart \/ AskReturn
    \/ CoordEnd \/ AfterMark \/ AfterTooLate \/ AfterStart \/ AfterOver \/ CoordLeave

CoordNext ==
    \/ CoordStep
    \/ \E r \in Roles : RoleStep(r)
    \/ \E w \in Callers : CallStep(w)
    \/ Retry
    \/ \E i \in DOMAIN cards : CardDecided(i)
    \/ GoOn \/ GoOnGivesUp \/ GoOnSend
=============================================================================
