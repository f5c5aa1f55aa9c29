----------------------------- MODULE Proposals -----------------------------
(***************************************************************************)
(* What the agents of one chat propose (operations and diffs, its "cards") *)
(* and how people decide it: internal/chat/order.go (the order and the     *)
(* queue), internal/actions and chat.DecidePatch (a decision), deciding    *)
(* (one decision of a card at a time), the dashboard's and the bots'       *)
(* handlers, and the end of an agent's turn, which writes the same rows.   *)
(*                                                                         *)
(* Every read and every write of the store is a step of its own, so that   *)
(* what a process read may be old when it writes.  A list of cards is read *)
(* in one step.                                                            *)
(***************************************************************************)
EXTENDS Integers, FiniteSets

CONSTANTS
    Agents,     \* the chat's agents: each answers one turn at a time
    Dashes,     \* requests of the dashboard that are served at once
    Bots,       \* commands and buttons of bots' chats that are served at once
    Drainer,    \* the goroutine that holds the chat's draining mutex
    InTree,     \* the agents that work in a worktree: one open diff at a time
    AutoRun,    \* the agents some of whose actions run on their own
    AutoApply,  \* the agents whose diffs are applied on their own (CapApply)
    Overlap,    \* the agents that answer while cards are decided; while another one
                \* answers nothing is decided, nor does it begin while something is
    MayStop,    \* a turn can be stopped, fail or be cut off after it proposed something
    Proposers,  \* bound: the agents that propose operations
    MaxCards,   \* bound: cards of the chat
    MaxTurns,   \* bound: turns of the chat
    MaxCrashes  \* bound: how often office goes down and comes back

People == Dashes \cup Bots
Procs == People \cup Agents \cup {Drainer}

NoOne == "no one"        \* the deciding map has no entry

ASSUME ProcsAssumption ==
    /\ Dashes \cap Bots = {}
    /\ People \cap Agents = {}
    /\ Drainer \notin People \cup Agents
    /\ NoOne \notin Procs
ASSUME AgentsAssumption ==
    /\ InTree \subseteq Agents /\ AutoRun \subseteq Agents /\ AutoApply \subseteq Agents
    /\ Overlap \subseteq Agents /\ Proposers \subseteq Agents
ASSUME FlagsAssumption == MayStop \in BOOLEAN
ASSUME BoundsAssumption == MaxCards \in Nat /\ MaxTurns \in Nat /\ MaxCrashes \in Nat

Cards == 1 .. MaxCards   \* in the order they are made
None == 0                \* no card

Status == {"none", "pending", "queued", "done", "rejected"}
Row == [status : Status, msg : 0 .. MaxTurns]   \* msg 0: its answer is not stored
Blank == [status |-> "none", msg |-> 0]

VARIABLES
    made,     \* how many cards there are
    kind,     \* action | patch
    owner,    \* the agent that proposed it
    row,      \* the stored row of a card
    msgs,     \* how many answers are stored
    lock,     \* deciding.now: who decides a card
    pc,       \* where a process is
    cur,      \* the card it is about
    approve,  \* its decision: approve or reject
    copy,     \* the rows it read (Blank: not read)
    mine,     \* the cards an agent proposed in its present turn
    answer,   \* the message an agent's turn stored
    drains,   \* Drain goroutines that wait for the mutex
    turns,    \* turns started
    crashes,
    ran       \* how often a card was carried out (history)

cardVars == <<made, kind, owner>>
turnVars == <<msgs, mine, answer, turns>>
vars == <<cardVars, row, lock, pc, cur, approve, copy, turnVars, drains, crashes, ran>>

Locations == {"idle",
              "get", "check", "queue", "queueing", "decide", "deciding",
              "list", "again",
              "answering", "attach", "diff", "replace", "add"}

TypeOK ==
    /\ made \in 0 .. MaxCards
    /\ kind \in [Cards -> {"action", "patch"}]
    /\ owner \in [Cards -> Agents \cup {NoOne}]
    /\ row \in [Cards -> Row]
    /\ msgs \in 0 .. MaxTurns
    /\ lock \in [Cards -> Procs \cup {NoOne}]
    /\ pc \in [Procs -> Locations]
    /\ cur \in [Procs -> Cards \cup {None}]
    /\ approve \in [Procs -> BOOLEAN]
    /\ copy \in [Procs -> [Cards -> Row]]
    /\ mine \in [Agents -> SUBSET Cards]
    /\ answer \in [Agents -> 0 .. MaxTurns]
    /\ drains \in Nat
    /\ turns \in 0 .. MaxTurns
    /\ crashes \in 0 .. MaxCrashes
    /\ ran \in [Cards -> Nat]

Init ==
    /\ made = 0
    /\ kind = [c \in Cards |-> "action"]
    /\ owner = [c \in Cards |-> NoOne]
    /\ row = [c \in Cards |-> Blank]
    /\ msgs = 0
    /\ lock = [c \in Cards |-> NoOne]
    /\ pc = [p \in Procs |-> "idle"]
    /\ cur = [p \in Procs |-> None]
    /\ approve = [p \in Procs |-> TRUE]
    /\ copy = [p \in Procs |-> [c \in Cards |-> Blank]]
    /\ mine = [a \in Agents |-> {}]
    /\ answer = [a \in Agents |-> 0]
    /\ drains = 0
    /\ turns = 0
    /\ crashes = 0
    /\ ran = [c \in Cards |-> 0]

-----------------------------------------------------------------------------
(* The order of a chat's cards. *)

Open(c) == row[c].status \in {"pending", "queued"}
Waiting == {c \in Cards : Open(c)}

\* Answer by answer, an answer's actions before its diffs; those of an answer
\* that is not stored come last.  Equal so far: the one made first.
Number(c) == IF row[c].msg = 0 THEN MaxTurns + 1 ELSE row[c].msg
Before(c, d) ==
    \/ Number(c) < Number(d)
    \/ Number(c) = Number(d) /\ kind[c] = "action" /\ kind[d] = "patch"
    \/ Number(c) = Number(d) /\ kind[c] = kind[d] /\ c < d

Head(c) == c \in Waiting /\ \A d \in Waiting \ {c} : Before(c, d)

\* CheckOrder returns an OrderError: something waits before the card.
\* (HeldBackNever: a mistake for the mutants, as every definition here whose
\* comment says so.)
HeldBackNever(c) == FALSE
HeldBack(c) == c \in Waiting /\ ~Head(c)

-----------------------------------------------------------------------------
(* A decision, whoever makes it: a person on the dashboard, a person in a  *)
(* bot's chat, Drain (RunQueued), or an agent within its own permission.   *)

At(p, l) == pc[p] = l
GoTo(p, l) == pc' = [pc EXCEPT ![p] = l]

\* Where p goes on once its decision is over.
Home(p) ==
    CASE p = Drainer -> "again"
      [] p \in People -> "idle"
      [] p \in Agents /\ kind[cur[p]] = "action" -> "answering"
      [] p \in Agents /\ kind[cur[p]] = "patch" -> IF p \in InTree THEN "idle" ELSE "diff"

\* The decision of p is over: it forgets what it read (Drain looks at its
\* card once more).
Over(p) ==
    /\ GoTo(p, Home(p))
    /\ cur' = [cur EXCEPT ![p] = IF p = Drainer THEN @ ELSE None]
    /\ approve' = [approve EXCEPT ![p] = TRUE]
    /\ copy' = [copy EXCEPT ![p] = [c \in Cards |-> Blank]]

Idle(P) == \A p \in P : At(p, "idle")
Quiet == Idle(People \cup {Drainer}) /\ drains = 0

\* A person decides a card that they see open; a bot looks once more whether
\* it still waits (and that nobody decides it).
Click(p, c, yes) ==
    /\ p \in People /\ At(p, "idle")
    /\ Idle(Agents \ Overlap)
    /\ Open(c)
    /\ p \in Bots => row[c].status = "pending" /\ lock[c] = NoOne
    /\ GoTo(p, IF yes THEN "get" ELSE "decide")
    /\ cur' = [cur EXCEPT ![p] = c]
    /\ approve' = [approve EXCEPT ![p] = yes]
    /\ UNCHANGED <<cardVars, row, lock, copy, turnVars, drains, crashes, ran>>

\* The handler reads the card.  The dashboard answers "approved already" for
\* a queued one; a bot and Drain carry it out.
Get(p) ==
    /\ At(p, "get")
    /\ LET s == row[cur[p]].status IN
       \/ /\ s = "queued" /\ p \in Dashes
          /\ Over(p)
       \/ /\ s = "queued" /\ p \notin Dashes
          /\ GoTo(p, "decide") /\ UNCHANGED <<cur, approve, copy>>
       \/ /\ s = "pending"
          /\ GoTo(p, "check") /\ UNCHANGED <<cur, approve, copy>>
       \/ /\ s \notin {"pending", "queued"}
          /\ GoTo(p, "decide") /\ UNCHANGED <<cur, approve, copy>>
    /\ UNCHANGED <<cardVars, row, lock, turnVars, drains, crashes, ran>>

CheckOrder(p) ==
    /\ At(p, "check")
    /\ GoTo(p, IF HeldBack(cur[p]) THEN "queue" ELSE "decide")
    /\ UNCHANGED <<cardVars, row, lock, cur, approve, copy, turnVars, drains, crashes, ran>>

\* deciding.Begin succeeds and the row, read after it, is in a state that the
\* decision takes.  (Mistakes: no entry in the deciding map; a row that was
\* decided meanwhile is taken.)
MayBeginUnmarked(c, states) == row[c].status \in states
MayBeginAgain(c, states) == lock[c] = NoOne
MayBegin(c, states) == lock[c] = NoOne /\ row[c].status \in states

Undecided == {"pending", "queued"}

\* Else it is ErrDecided.
Refused(p) ==
    /\ \/ At(p, "queue") /\ ~MayBegin(cur[p], {"pending"})
       \/ At(p, "decide") /\ ~MayBegin(cur[p], Undecided)
    /\ Over(p)
    /\ UNCHANGED <<cardVars, row, lock, turnVars, drains, crashes, ran>>

Begin(p, from, to, states) ==
    /\ At(p, from)
    /\ MayBegin(cur[p], states)
    /\ lock' = [lock EXCEPT ![cur[p]] = p]
    /\ copy' = [copy EXCEPT ![p] = [@ EXCEPT ![cur[p]] = row[cur[p]]]]
    /\ GoTo(p, to)
    /\ UNCHANGED <<cardVars, row, cur, approve, turnVars, drains, crashes>>

QueueBegin(p) == Begin(p, "queue", "queueing", {"pending"}) /\ UNCHANGED ran

\* An approved card is carried out here.
DecideBegin(p) ==
    /\ Begin(p, "decide", "deciding", Undecided)
    /\ ran' = [ran EXCEPT ![cur[p]] = IF approve[p] THEN @ + 1 ELSE @]

\* A row written from the copy p read: all of an action's columns, only the
\* status of a diff.
Write(p, c, s) ==
    row' = [row EXCEPT ![c] = IF kind[c] = "action" THEN [copy[p][c] EXCEPT !.status = s]
                                                    ELSE [@ EXCEPT !.status = s]]

\* chat.QueuePatch's UPDATE finds only a pending row.  (Mistake: any.)
GoneNever(c) == FALSE
Gone(c) == kind[c] = "patch" /\ row[c].status # "pending"

\* A bot and Drain start a Drain after it, the dashboard and autoApply do not.
\* (Mistake: nobody does.)
DrainsNever(p, c) == FALSE
Drains(p, c) == p \in Bots \/ (p = Drainer /\ ~Gone(c))

\* actions.Queue and chat.QueuePatch.
QueueEnd(p) ==
    /\ At(p, "queueing")
    /\ IF Gone(cur[p]) THEN row' = row ELSE Write(p, cur[p], "queued")
    /\ drains' = IF Drains(p, cur[p]) THEN drains + 1 ELSE drains
    /\ lock' = [lock EXCEPT ![cur[p]] = NoOne]
    /\ Over(p)
    /\ UNCHANGED <<cardVars, turnVars, crashes, ran>>

\* What a decision comes to; a card that failed is one that was carried out.
\* (Mistake: the row of a rejected card says that it was.)
OutcomeDone(p) == "done"
Outcome(p) == IF approve[p] THEN "done" ELSE "rejected"

\* The outcome is stored; the handlers of people then start a Drain.
DecideEnd(p) ==
    /\ At(p, "deciding")
    /\ Write(p, cur[p], Outcome(p))
    /\ lock' = [lock EXCEPT ![cur[p]] = NoOne]
    /\ drains' = IF p \in People THEN drains + 1 ELSE drains
    /\ Over(p)
    /\ UNCHANGED <<cardVars, turnVars, crashes, ran>>

Decision(p) ==
    \/ Get(p) \/ CheckOrder(p) \/ Refused(p)
    \/ QueueBegin(p) \/ QueueEnd(p) \/ DecideBegin(p) \/ DecideEnd(p)

-----------------------------------------------------------------------------
(* Drain: under the chat's mutex, one queued card at the head after another. *)

\* (Mistake: a Drain that nobody asked for.)
DrainStartUnasked ==
    /\ At(Drainer, "idle")
    /\ drains' = drains - 1
    /\ GoTo(Drainer, "list")
    /\ UNCHANGED <<cardVars, row, lock, cur, approve, copy, turnVars, crashes, ran>>

DrainStart ==
    /\ At(Drainer, "idle") /\ drains > 0
    /\ drains' = drains - 1
    /\ GoTo(Drainer, "list")
    /\ UNCHANGED <<cardVars, row, lock, cur, approve, copy, turnVars, crashes, ran>>

\* The loop's head: a queued card nothing waits before is run, else it ends.
DrainList ==
    /\ At(Drainer, "list")
    /\ \/ \E c \in Cards :
            /\ Head(c) /\ row[c].status = "queued"
            /\ cur' = [cur EXCEPT ![Drainer] = c]
            /\ GoTo(Drainer, "get")
       \/ /\ \A c \in Cards : Head(c) => row[c].status # "queued"
          /\ cur' = [cur EXCEPT ![Drainer] = None]
          /\ GoTo(Drainer, "idle")
    /\ UNCHANGED <<cardVars, row, lock, approve, copy, turnVars, drains, crashes, ran>>

\* The card could not be carried out (it is the head still): never loop on it.
DrainAgain ==
    /\ At(Drainer, "again")
    /\ GoTo(Drainer, IF Head(cur[Drainer]) THEN "idle" ELSE "list")
    /\ cur' = [cur EXCEPT ![Drainer] = None]
    /\ UNCHANGED <<cardVars, row, lock, approve, copy, turnVars, drains, crashes, ran>>

-----------------------------------------------------------------------------
(* An agent's turn, as far as it makes cards and writes their rows. *)

TurnStart(a) ==
    /\ At(a, "idle") /\ turns < MaxTurns
    /\ a \in Overlap \/ Quiet
    /\ turns' = turns + 1
    /\ mine' = [mine EXCEPT ![a] = {}]
    /\ GoTo(a, "answering")
    /\ UNCHANGED <<cardVars, row, lock, cur, approve, copy, msgs, answer, drains, crashes, ran>>

\* Bound: a card for each agent that has a diff to add is kept free.
Room == made + Cardinality({a \in Agents : pc[a] \in {"replace", "add"}}) < MaxCards

MakeCard(a, k, m) ==
    /\ made < MaxCards
    /\ made' = made + 1
    /\ kind' = [kind EXCEPT ![made + 1] = k]
    /\ owner' = [owner EXCEPT ![made + 1] = a]
    /\ row' = [row EXCEPT ![made + 1] = [status |-> "pending", msg |-> m]]

\* actions.Propose: the card waits, or it is within the agent's own
\* permission and is decided at once (in no order: it never waited).
Propose(a) ==
    /\ At(a, "answering") /\ Room /\ a \in Proposers
    /\ MakeCard(a, "action", 0)
    /\ mine' = [mine EXCEPT ![a] = @ \cup {made + 1}]
    /\ \/ UNCHANGED <<pc, cur>>
       \/ /\ a \in AutoRun
          /\ GoTo(a, "decide")
          /\ cur' = [cur EXCEPT ![a] = made + 1]
    /\ UNCHANGED <<lock, approve, copy, msgs, answer, turns, drains, crashes, ran>>

\* The turn fails or is stopped: its cards belong to no answer.
TurnFail(a) ==
    /\ At(a, "answering") /\ MayStop
    /\ mine' = [mine EXCEPT ![a] = {}]
    /\ GoTo(a, "idle")
    /\ UNCHANGED <<cardVars, row, lock, cur, approve, copy, msgs, answer, turns, drains, crashes, ran>>

\* The actions that run() lists: those of the turn.
Listed(a) == mine[a]

\* run(): the answer is stored and the turn's actions are listed.
Answer(a) ==
    /\ At(a, "answering") /\ msgs < MaxTurns
    /\ msgs' = msgs + 1
    /\ answer' = [answer EXCEPT ![a] = msgs + 1]
    /\ copy' = [copy EXCEPT ![a] = [c \in Cards |-> IF c \in Listed(a) THEN row[c] ELSE Blank]]
    /\ GoTo(a, "attach")
    /\ UNCHANGED <<cardVars, row, lock, cur, approve, mine, turns, drains, crashes, ran>>

Read(a) == {c \in Cards : copy[a][c] # Blank}
Forget(a, c) == copy' = [copy EXCEPT ![a] = [@ EXCEPT ![c] = Blank]]

\* One action after the other gets its message: the row is written whole,
\* from the list.
Attach(a) ==
    /\ At(a, "attach")
    /\ \/ \E c \in Read(a) :
            /\ \A d \in Read(a) : c <= d
            /\ row' = [row EXCEPT ![c] = [copy[a][c] EXCEPT !.msg = answer[a]]]
            /\ Forget(a, c)
            /\ UNCHANGED <<pc, mine>>
       \/ /\ Read(a) = {}
          /\ GoTo(a, "diff")
          /\ mine' = [mine EXCEPT ![a] = {}]
          /\ UNCHANGED <<row, copy>>
    /\ UNCHANGED <<cardVars, lock, cur, approve, msgs, answer, turns, drains, crashes, ran>>

\* What the agent changed.  In a worktree it is one diff in place of the
\* agent's earlier ones that are open (treePatch lists them); else each diff
\* in the text.
Diff(a) ==
    /\ At(a, "diff") /\ Room
    /\ \/ /\ a \in InTree
          /\ copy' = [copy EXCEPT ![a] = [c \in Cards |->
                        IF Open(c) /\ kind[c] = "patch" /\ owner[c] = a THEN row[c] ELSE Blank]]
          /\ GoTo(a, "replace")
       \/ /\ a \notin InTree
          /\ GoTo(a, "add") /\ UNCHANGED copy
    /\ UNCHANGED <<cardVars, row, lock, cur, approve, turnVars, drains, crashes, ran>>

\* Nothing (more) changed: the turn is over.
TurnEnd(a) ==
    /\ At(a, "diff")
    /\ GoTo(a, "idle")
    /\ UNCHANGED <<cardVars, row, lock, cur, approve, copy, turnVars, drains, crashes, ran>>

\* treePatch rejects the diffs it listed, whatever became of them.
Replace(a) ==
    /\ At(a, "replace")
    /\ \/ \E c \in Read(a) :
            /\ row' = [row EXCEPT ![c].status = "rejected"]
            /\ Forget(a, c)
            /\ UNCHANGED pc
       \/ /\ Read(a) = {}
          /\ GoTo(a, "add")
          /\ UNCHANGED <<row, copy>>
    /\ UNCHANGED <<cardVars, lock, cur, approve, turnVars, drains, crashes, ran>>

\* chat.AddPatch, and autoApply when the agent may apply its diffs.
AddPatch(a) ==
    /\ At(a, "add")
    /\ MakeCard(a, "patch", answer[a])
    /\ \/ /\ a \in AutoApply
          /\ GoTo(a, "check")
          /\ cur' = [cur EXCEPT ![a] = made + 1]
       \/ /\ a \notin AutoApply
          /\ GoTo(a, IF a \in InTree THEN "idle" ELSE "diff")
          /\ UNCHANGED cur
    /\ UNCHANGED <<lock, approve, copy, turnVars, drains, crashes, ran>>

Turn(a) ==
    \/ TurnStart(a) \/ Propose(a) \/ TurnFail(a) \/ Answer(a)
    \/ Attach(a) \/ Diff(a) \/ Replace(a) \/ AddPatch(a) \/ TurnEnd(a)

-----------------------------------------------------------------------------
\* Office goes down and comes back: only the store is left.
Crash ==
    /\ crashes < MaxCrashes
    /\ MayStop \/ Idle(Agents)
    /\ crashes' = crashes + 1
    /\ lock' = [c \in Cards |-> NoOne]
    /\ pc' = [p \in Procs |-> "idle"]
    /\ cur' = [p \in Procs |-> None]
    /\ approve' = [p \in Procs |-> TRUE]
    /\ copy' = [p \in Procs |-> [c \in Cards |-> Blank]]
    /\ mine' = [a \in Agents |-> {}]
    /\ drains' = 0
    /\ UNCHANGED <<cardVars, row, msgs, answer, turns, ran>>

Clicks(c) == \E p \in People, yes \in BOOLEAN : Click(p, c, yes)

Next ==
    \/ \E c \in Cards : Clicks(c)
    \/ \E p \in Procs : Decision(p)
    \/ DrainStart \/ DrainList \/ DrainAgain
    \/ \E a \in Agents : Turn(a)
    \/ Crash

Spec == Init /\ [][Next]_vars

\* Goroutines run; a turn that answers ends; people decide, sooner or later,
\* what is pending (not what they have approved already).
Ending(a) == TurnFail(a) \/ Answer(a) \/ Attach(a) \/ Replace(a) \/ AddPatch(a) \/ TurnEnd(a)
Answers(c) == row[c].status = "pending" /\ Clicks(c)
Fairness ==
    /\ \A p \in Procs : WF_vars(Decision(p))
    /\ WF_vars(DrainStart \/ DrainList \/ DrainAgain)
    /\ \A a \in Agents : WF_vars(Ending(a))
    /\ \A c \in Cards : SF_vars(Answers(c))

FairSpec == Spec /\ Fairness

-----------------------------------------------------------------------------
(* Properties. *)

Busy(p) == pc[p] \in {"queueing", "deciding"}
Decided(c) == row[c].status \in {"done", "rejected"}

\* Only one decision of a card is under way, whoever makes it, and its entry
\* in the deciding map is that decision's (deciding.Begin and End).
OneDecision ==
    /\ \A p, q \in Procs : Busy(p) /\ Busy(q) /\ cur[p] = cur[q] => p = q
    /\ \A p \in Procs : Busy(p) => lock[cur[p]] = p
    /\ \A c \in Cards : lock[c] # NoOne => Busy(lock[c]) /\ cur[lock[c]] = c

\* "Only one decision of an action runs" (actions.Decide): as long as office
\* stays up a card's operation is carried out once at most; each time it goes
\* down, one that was under way may run again.
RunsOnce == \A c \in Cards : ran[c] <= 1 + crashes

\* The same of diffs alone: chat.DecidePatch applies a diff once at most,
\* also while the agent's next turn replaces it (treePatch).
DiffsOnce == \A c \in Cards : kind[c] = "patch" => ran[c] <= 1 + crashes

\* What the row says is what happened: one that is done was carried out, a
\* rejected one was not, unless office went down while it was.
RecordTrue == \A c \in Cards :
    /\ row[c].status = "rejected" => ran[c] <= crashes
    /\ row[c].status = "done" => ran[c] > 0

\* "A chat's proposals run in the order its agents made them" (order.go): when
\* people (or Drain, or autoApply) have a card carried out, none that the same
\* agent made before it is open.
InOrder == [][
    \A p \in Procs : At(p, "decide") /\ pc'[p] = "deciding" /\ approve[p]
                      /\ ~(p \in Agents /\ kind[cur[p]] = "action")
        => \A d \in Cards : d < cur[p] /\ owner[d] = owner[cur[p]] => ~Open(d) ]_vars

\* A diff that was decided is never open again: a late QueuePatch does not
\* bring back one that the agent's next turn replaced.
DiffStaysDecided == [][
    \A c \in Cards : kind[c] = "patch" /\ Decided(c) => Decided(c)' ]_vars

\* "one approved while an earlier one still waits is queued and runs once those
\* before it are decided (Drain)": every card is decided in the end, an approved
\* one that is queued too, as long as people decide what is pending.
QueuedRuns == \A c \in Cards : []<>(row[c].status = "none" \/ Decided(c))

-----------------------------------------------------------------------------
(* ApprovalQueue, seen in this state: a card whose approval is being carried *)
(* out is running.                                                           *)

Carrying(c) == lock[c] # NoOne /\ pc[lock[c]] = "deciding" /\ approve[lock[c]]

Promise == INSTANCE ApprovalQueue WITH
    SelfRun <- AutoRun,
    by <- owner,
    state <- [c \in Cards |-> IF Carrying(c) THEN "running" ELSE row[c].status]

\* The code keeps the promise of order.go.
KeepsPromise == Promise!Spec
=============================================================================
