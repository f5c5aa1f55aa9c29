-------------------------------- MODULE Turns --------------------------------
(***************************************************************************)
(* One chat's turns: what people write and what waits (api/chat.go,        *)
(* chat/queue.go), the answer they wait for, the hand-offs that work in    *)
(* the background and what follows each (chat/engine.go, chat/members.go), *)
(* stopping them, and office going down and coming back (chat/restart.go). *)
(*                                                                         *)
(* e.active, e.bg and e.stopping are looked at and changed together under  *)
(* e.mu: one step.  Every other read or write of memory or of the store is *)
(* a step of its own.                                                      *)
(***************************************************************************)
EXTENDS Lists, SequencesExt

CONSTANTS
    People,       \* who write in the chat, each one message at a time
    Agents,
    ChatAgent,    \* the one that answers a message that tags nobody
    MaxHops,      \* hand-offs that a message allows
    MaxAnswers,   \* answers that a message allows
    MayRefuse,    \* the budget may be spent
    MaxTags,      \* bound: agents tagged in a message
    MaxTasks,     \* bound: tasks an agent gives others in one answer
    MaxMsgs,      \* bound: messages people write
    MaxTurns,     \* bound: turns
    MaxStops,     \* bound: turns people stop and waiting messages they take back, together
    MaxDowns      \* bound: how often office goes down

NoOne == "no one"         \* no agent, no person

ASSUME AgentAssumption == ChatAgent \in Agents /\ IsFiniteSet(Agents)
ASSUME PeopleAssumption == {"sender", "office", "turn", NoOne} \cap People = {}
ASSUME LimitAssumption == MaxHops \in Nat /\ MaxAnswers \in Nat /\ MayRefuse \in BOOLEAN
ASSUME BoundAssumption ==
    /\ MaxTags \in Nat /\ MaxTasks \in Nat /\ MaxMsgs \in Nat /\ MaxTurns \in Nat
    /\ MaxStops \in Nat /\ MaxDowns \in Nat

Msgs == 1 .. MaxMsgs
Turns == 1 .. MaxTurns
None == 0                 \* no turn

\* A turn: who answers, in the background for the agent that gave the task
\* (by), for which person's message (root: the turn that message began), with
\* which agents still to answer; who waits for it to begin (from: a person's
\* request, the sender of waiting messages, office as it comes back, a turn)
\* and what it adds to the chat.
Turn == [agent : Agents, bg : BOOLEAN, by : Agents \cup {NoOne}, root : Turns, actor : People,
         queue : Seq(Agents),
         from : People \cup {"sender", "office", "turn"}, parent : Turns \cup {None}, parts : Seq(Msgs)]
Blank == [agent |-> ChatAgent, bg |-> FALSE, by |-> NoOne, root |-> None, actor |-> NoOne,
          queue |-> <<>>, from |-> "turn", parent |-> None, parts |-> <<>>]

VARIABLES
    written,  \* how many messages people wrote
    author,   \* who wrote a message
    tags,     \* the agents it tags
    waiting,  \* chat_queued: the messages that wait, in their order (stored)
    log,      \* what people are seen to say in the chat (stored)
    told,     \* messages that did not go and were said to (stored)
    taken,    \* waiting messages that a person took back
    req,      \* the request a person waits for: where it is, its message
    sender,   \* the goroutine that holds the chat's queue lock: where, what it read
    senders,  \* the SendQueued goroutines that wait for the lock
    n,        \* turns so far
    turn,
    stage,    \* where a turn is
    off,      \* its context: no | stopped by a person | cut by Shutdown
    job,      \* its job (stored): none | running | ended
    todo,     \* what nextTurn has left to start: [kind, agent]
    handed,   \* e.handed: the tasks a turn's agent gave
    hops,     \* the hand-offs behind a turn, its own included
    total,    \* the answers of a message so far, by its root turn
    active,   \* e.active: the turn the person waits for
    bg,       \* e.bg: the turn an agent works on in the background
    office,   \* up, or how far going down or coming back is
    cut,      \* the answers that were cut off (read when office starts): who asked, the agents
    stops, downs

chat == <<written, author, tags, waiting, log, told, taken>>
callers == <<req, sender, senders>>
answers == <<n, turn, stage, off, job, todo, handed, hops, total, active, bg>>
life == <<office, cut, stops, downs>>
vars == <<chat, callers, answers, life>>

Kinds == {"hand", "report", "tagged"}
Stages == {"none", "begun", "stored", "answering",        \* it works
           "ended", "next", "start", "started", "over"}
Phases == {"up", "stopping", "stopped", "down", "listed", "serving", "resuming", "resumed"}

TypeOK ==
    /\ written \in 0 .. MaxMsgs
    /\ author \in [Msgs -> People \cup {NoOne}]
    /\ tags \in [Msgs -> Seq(Agents)]
    /\ waiting \in Seq(Msgs)
    /\ log \in Seq([by : People, parts : Seq(Msgs)])
    /\ told \subseteq Msgs /\ taken \subseteq Msgs
    /\ req \in [People -> [at : {"idle", "active", "queued", "send", "sending", "queue"}, m : Msgs \cup {None}]]
    /\ sender \in [at : {"idle", "list", "send", "sending", "delete"}, list : Seq(Msgs)]
    /\ senders \in Nat
    /\ n \in 0 .. MaxTurns
    /\ turn \in [Turns -> Turn \cup {Blank}]
    /\ \A t \in Turns : (turn[t] = Blank) <=> n < t
    /\ stage \in [Turns -> Stages]
    /\ \A t \in Turns : (stage[t] = "none") <=> n < t
    /\ off \in [Turns -> {"no", "stopped", "cut"}]
    /\ job \in [Turns -> {"none", "running", "ended"}]
    /\ todo \in [Turns -> Seq([kind : Kinds, agent : Agents])]
    /\ handed \in [Turns -> Seq(Agents)]
    /\ hops \in [Turns -> Nat]
    /\ total \in [Turns -> Int]
    /\ active \in Turns \cup {None}
    /\ bg \in [Agents -> Turns \cup {None}]
    /\ office \in Phases
    /\ cut \in [who : People \cup {NoOne}, agents : Seq(Agents)]
    /\ stops \in Nat
    /\ downs \in 0 .. MaxDowns

NoRequest == [at |-> "idle", m |-> None]
NoSender == [at |-> "idle", list |-> <<>>]
NoCut == [who |-> NoOne, agents |-> <<>>]

\* A chat that has answered before and is quiet.
Init ==
    /\ written = 0
    /\ author = [m \in Msgs |-> NoOne]
    /\ tags = [m \in Msgs |-> <<>>]
    /\ waiting = <<>> /\ log = <<>> /\ told = {} /\ taken = {}
    /\ req = [p \in People |-> NoRequest]
    /\ sender = NoSender /\ senders = 0
    /\ n = 0
    /\ turn = [t \in Turns |-> Blank]
    /\ stage = [t \in Turns |-> "none"]
    /\ off = [t \in Turns |-> "no"]
    /\ job = [t \in Turns |-> "none"]
    /\ todo = [t \in Turns |-> <<>>]
    /\ handed = [t \in Turns |-> <<>>]
    /\ hops = [t \in Turns |-> 0]
    /\ total = [t \in Turns |-> 0]
    /\ active = None
    /\ bg = [a \in Agents |-> None]
    /\ office = "up" /\ cut = NoCut
    /\ stops = 0 /\ downs = 0

-----------------------------------------------------------------------------
(* SendWithContext. *)

\* e.stopping.  (StoppingNever: a mistake for the mutants, as every definition
\* here whose comment says so.)
StoppingNever == FALSE
Stopping == office \in {"stopping", "stopped"}

\* Mentions: the agents tagged in a text, once each, maxAnswers of them; a
\* message that tags nobody is for the chat's agent.  The first one answers,
\* then the others.
Callable == UNION {[1 .. k -> Agents] : k \in 1 .. 4}
Mentions(list) ==
    LET Add(as, m) == as \o SelectSeq(tags[m], LAMBDA a : ~Contains(as, a))
    IN FoldLeft(Add, <<>>, list)
Called(as, list) ==
    as = IF Mentions(list) = <<>> THEN <<ChatAgent>>
         ELSE SubSeq(Mentions(list), 1, IF Len(Mentions(list)) < 4 THEN Len(Mentions(list)) ELSE 4)

\* What SendWithContext finds under e.mu.
Verdict(as) ==
    IF Stopping THEN "stopping"
    ELSE IF active # None THEN "busy"
    ELSE IF \E a \in ToSet(as) : bg[a] # None THEN "agent busy" ELSE "free"

\* The chat gets a turn, with an answer counted, before e.mu is let go.
Register(t) ==
    /\ n < MaxTurns
    /\ n' = n + 1
    /\ turn' = [turn EXCEPT ![n + 1] = t]
    /\ stage' = [u \in Turns |-> IF u = n + 1 THEN IF t.from = "turn" THEN "stored" ELSE "begun"
                                ELSE IF u = t.parent THEN "started" ELSE stage[u]]
    /\ total' = [total EXCEPT ![t.root] = @ + 1]
    /\ IF t.bg THEN bg' = [bg EXCEPT ![t.agent] = n + 1] /\ UNCHANGED active
               ELSE active' = n + 1 /\ UNCHANGED bg

\* A message's first turn.
Begin(as, who, from, parts) ==
    /\ Verdict(as) = "free"
    /\ Register([agent |-> Head(as), bg |-> FALSE, by |-> NoOne, root |-> n + 1, actor |-> who,
                 queue |-> Tail(as), from |-> from, parent |-> None, parts |-> parts])
    /\ UNCHANGED <<off, job, todo, handed, hops>>

StoreMessage(t) ==
    /\ stage[t] = "begun"
    /\ log' = Append(log, [by |-> turn[t].actor, parts |-> turn[t].parts])
    /\ stage' = [stage EXCEPT ![t] = "stored"]
    /\ UNCHANGED <<written, author, tags, waiting, told, taken, callers,
                   n, turn, off, job, todo, handed, hops, total, active, bg, life>>

\* finish: the turn lets go of the chat, or of its agent, and what waits goes.
\* (Mistakes: the chat is let go of whoever has it; nobody sends what waits.)
FinishAny(t) ==
    /\ active' = IF turn[t].bg THEN active ELSE None
    /\ bg' = [a \in Agents |-> IF bg[a] = t THEN None ELSE bg[a]]
    /\ senders' = senders + 1
FinishSilent(t) ==
    /\ active' = IF active = t THEN None ELSE active
    /\ bg' = [a \in Agents |-> IF bg[a] = t THEN None ELSE bg[a]]
    /\ UNCHANGED senders
Finish(t) ==
    /\ active' = IF active = t THEN None ELSE active
    /\ bg' = [a \in Agents |-> IF bg[a] = t THEN None ELSE bg[a]]
    /\ senders' = IF (active = t \/ \E a \in Agents : bg[a] = t) /\ ~Stopping THEN senders + 1 ELSE senders

\* The turn t began, or gave way: the turn that started it goes on (as in
\* nextTurn: the hand-offs one by one, then one turn at most).
Began(t) ==
    LET p == turn[t].parent IN
    /\ stage' = [stage EXCEPT ![t] = "answering", ![p] = "next"]
    /\ IF turn[t].bg THEN hops' = [hops EXCEPT ![p] = @ + 1] /\ UNCHANGED todo
                     ELSE todo' = [todo EXCEPT ![p] = <<>>] /\ UNCHANGED hops
GaveWay(t) ==
    stage' = [stage EXCEPT ![t] = "over", ![turn[t].parent] = "next"]

\* beginJob of a turn that another one started, with the turn's own context:
\* one that is off by now gets no job.
BeginJobNext(t) ==
    /\ stage[t] = "stored" /\ turn[t].from = "turn"
    /\ \/ /\ off[t] = "no"
          /\ job' = [job EXCEPT ![t] = "running"]
          /\ Began(t)
          /\ UNCHANGED <<total, active, bg, senders>>
       \/ /\ off[t] # "no"
          /\ GaveWay(t)
          /\ total' = [total EXCEPT ![turn[t].root] = @ - 1]
          /\ Finish(t)
          /\ UNCHANGED <<job, todo, hops>>
    /\ UNCHANGED <<chat, req, sender, n, turn, off, handed, life>>

\* beginJob in SendWithContext; who sent the message goes on.
BeginJob(t) ==
    /\ stage[t] = "stored" /\ turn[t].from # "turn"
    /\ job' = [job EXCEPT ![t] = "running"]
    /\ stage' = [stage EXCEPT ![t] = "answering"]
    /\ LET from == turn[t].from IN
       /\ req' = IF from \in People THEN [req EXCEPT ![from] = NoRequest] ELSE req
       /\ sender' = IF from = "sender" THEN [sender EXCEPT !.at = "delete"] ELSE sender
       /\ office' = IF from = "office" THEN "resumed" ELSE office
    /\ UNCHANGED <<chat, senders, n, turn, off, todo, handed, hops, total, active, bg, cut, stops, downs>>

-----------------------------------------------------------------------------
(* People write: sendMessage and queueMessage of the api. *)

Serving == office \in {"serving", "resuming", "resumed", "up", "stopping", "stopped"}

TagLists == {s \in BoundedSeq(Agents, MaxTags) : \A i, j \in DOMAIN s : s[i] = s[j] => i = j}

At(p, l) == req[p].at = l
GoTo(p, l) == req' = [req EXCEPT ![p].at = l]

Write(p) ==
    /\ Serving /\ At(p, "idle") /\ written < MaxMsgs
    /\ written' = written + 1
    /\ author' = [author EXCEPT ![written + 1] = p]
    /\ \E s \in TagLists : tags' = [tags EXCEPT ![written + 1] = s]
    /\ req' = [req EXCEPT ![p] = [at |-> "active", m |-> written + 1]]
    /\ UNCHANGED <<waiting, log, told, taken, sender, senders, answers, life>>

LookActive(p) ==
    /\ At(p, "active")
    /\ GoTo(p, IF active # None THEN "queue" ELSE "queued")
    /\ UNCHANGED <<chat, sender, senders, answers, life>>

\* (Mistake: a new message does not wait behind those that do.)
HasQueuedNever == FALSE
HasQueued == waiting # <<>>
LookQueued(p) ==
    /\ At(p, "queued")
    /\ GoTo(p, IF HasQueued THEN "queue" ELSE "send")
    /\ UNCHANGED <<chat, sender, senders, answers, life>>

\* An answer started just now: it waits.  Any other error is the person's.
Send(p) ==
    /\ At(p, "send")
    /\ \E as \in Callable : Called(as, <<req[p].m>>) /\
       \/ /\ Begin(as, p, p, <<req[p].m>>)
          /\ GoTo(p, "sending")
       \/ /\ Verdict(as) = "busy"
          /\ GoTo(p, "queue") /\ UNCHANGED answers
       \/ /\ Verdict(as) \in {"stopping", "agent busy"} \/ MayRefuse
          /\ req' = [req EXCEPT ![p] = NoRequest] /\ UNCHANGED answers
    /\ UNCHANGED <<chat, sender, senders, life>>

\* Queue: the message waits, and is sent at once if the chat is free by now.
Queue(p) ==
    /\ At(p, "queue")
    /\ waiting' = Append(waiting, req[p].m)
    /\ req' = [req EXCEPT ![p] = NoRequest]
    /\ senders' = senders + 1
    /\ UNCHANGED <<written, author, tags, log, told, taken, sender, answers, life>>

MoreStops == stops + Cardinality(taken) < MaxStops

\* unqueue: a person takes back one waiting message, or all of the chat's.
Unqueue ==
    /\ Serving
    /\ \E M \in {{m} : m \in ToSet(waiting)} \cup {ToSet(waiting)} :
          /\ M # {}
          /\ taken' = taken \cup M
          /\ waiting' = Without(waiting, M)
    /\ MoreStops
    /\ UNCHANGED <<written, author, tags, log, told, callers, answers, life>>

-----------------------------------------------------------------------------
(* SendQueued, under the chat's queue lock. *)

\* (Mistake: a run that nobody asked for.)
SenderActiveUnasked ==
    /\ sender.at = "idle"
    /\ senders' = senders - 1
    /\ sender' = IF active # None THEN sender ELSE [sender EXCEPT !.at = "list"]
    /\ UNCHANGED <<chat, req, answers, life>>
SenderActive ==
    /\ sender.at = "idle" /\ senders > 0
    /\ senders' = senders - 1
    /\ sender' = IF active # None THEN sender ELSE [sender EXCEPT !.at = "list"]
    /\ UNCHANGED <<chat, req, answers, life>>

SenderList ==
    /\ sender.at = "list"
    /\ sender' = IF waiting = <<>> THEN NoSender ELSE [at |-> "send", list |-> waiting]
    /\ UNCHANGED <<chat, req, senders, answers, life>>

\* The waiting messages go as one, in the name of the first one's author.
\* Not now: they wait for the next end, or for the next office.  Not at all:
\* they are said in the chat and no longer wait.
Kept == {"busy", "agent busy", "stopping"}
SenderSend ==
    /\ sender.at = "send"
    /\ \E as \in Callable : Called(as, sender.list) /\
       \/ /\ Begin(as, author[Head(sender.list)], "sender", sender.list)
          /\ sender' = [sender EXCEPT !.at = "sending"]
          /\ UNCHANGED told
       \/ /\ Verdict(as) \in Kept
          /\ sender' = NoSender
          /\ UNCHANGED <<told, answers>>
       \/ /\ MayRefuse
          /\ sender' = [sender EXCEPT !.at = "delete"]
          /\ told' = told \cup ToSet(sender.list)
          /\ UNCHANGED answers
    /\ UNCHANGED <<written, author, tags, waiting, log, taken, req, senders, life>>

\* DeleteQueued: those of the list.  (Mistakes: all that wait; the first one.)
DroppedAll(m) == TRUE
DroppedFirst(m) == m = Head(sender.list)
Dropped(m) == Contains(sender.list, m)
SenderDelete ==
    /\ sender.at = "delete"
    /\ waiting' = Without(waiting, {m \in ToSet(waiting) : Dropped(m)})
    /\ sender' = NoSender
    /\ UNCHANGED <<written, author, tags, log, told, taken, req, senders, answers, life>>

-----------------------------------------------------------------------------
(* An answer, and what follows it: run and nextTurn. *)

\* The delegate tool.
Delegate(t, a) ==
    /\ stage[t] = "answering" /\ a # turn[t].agent
    /\ Len(handed[t]) < MaxTasks
    /\ handed' = [handed EXCEPT ![t] = Append(@, a)]
    /\ UNCHANGED <<chat, callers, n, turn, stage, off, job, todo, hops, total, active, bg, life>>

\* The answer ends, or fails.
AnswerEnd(t) ==
    /\ stage[t] = "answering"
    /\ stage' = [stage EXCEPT ![t] = "ended"]
    /\ job' = [job EXCEPT ![t] = "ended"]
    /\ UNCHANGED <<chat, callers, n, turn, off, todo, handed, hops, total, active, bg, life>>

\* Office goes down and the context is off: the turn is one that was cut off,
\* its job is left as it is.
AnswerCut(t) ==
    /\ stage[t] = "answering" /\ ~turn[t].bg
    /\ Stopping /\ off[t] # "no"
    /\ stage' = [stage EXCEPT ![t] = "next"]
    /\ UNCHANGED <<chat, callers, n, turn, off, job, todo, handed, hops, total, active, bg, life>>

Specs(kind, as) == [i \in DOMAIN as |-> [kind |-> kind, agent |-> as[i]]]

\* nextTurn: the tasks given in this answer; then the report to the agent
\* that gave this task, or the next agent the person tagged.
NextTurn(t) ==
    /\ stage[t] = "ended"
    /\ stage' = [stage EXCEPT ![t] = "next"]
    /\ IF off[t] # "no" THEN UNCHANGED <<todo, handed>>
       ELSE /\ handed' = [handed EXCEPT ![t] = <<>>]
            /\ todo' = [todo EXCEPT ![t] = Specs("hand", handed[t]) \o
                           IF turn[t].bg THEN Specs("report", <<turn[t].by>>)
                                         ELSE Specs("tagged", turn[t].queue)]
    /\ UNCHANGED <<chat, callers, n, turn, off, job, hops, total, active, bg, life>>

\* overAnswers and the hops.  (Mistake: answers are not counted.)
OverAnswersNever(t, kind) == FALSE
OverAnswers(t, kind) == kind # "report" /\ total[turn[t].root] >= MaxAnswers
OverHops(t, kind) == kind = "hand" /\ hops[t] >= MaxHops

\* Whether the next one may start (with a line in the chat if not) ...
MayStart(t) ==
    /\ stage[t] = "next" /\ todo[t] # <<>>
    /\ LET kind == Head(todo[t]).kind
           over == OverHops(t, kind) \/ OverAnswers(t, kind) IN
       \/ /\ over \/ MayRefuse
          /\ todo' = [todo EXCEPT ![t] = Tail(@)] /\ UNCHANGED stage
       \/ /\ ~over
          /\ stage' = [stage EXCEPT ![t] = "start"] /\ UNCHANGED todo
    /\ UNCHANGED <<chat, callers, n, turn, off, job, handed, hops, total, active, bg, life>>

\* ... and, under e.mu, whether it can: startTurn.  Only a tagged agent takes
\* the chat over from the turn t.
CanStart(t, s) ==
    /\ ~Stopping
    /\ bg[s.agent] = None
    /\ s.kind = "hand" \/ active = None \/ (s.kind = "tagged" /\ active = t)

\* What cannot start is not waited for.  (Mistake: it is tried again.)
LeftRetried(t, started) == IF started THEN Tail(todo[t]) ELSE todo[t]
Left(t, started) == Tail(todo[t])

StartTurn(t) ==
    /\ stage[t] = "start"
    /\ LET s == Head(todo[t])
           hand == s.kind = "hand"
           rest == IF s.kind = "tagged" THEN [i \in DOMAIN Tail(todo[t]) |-> Tail(todo[t])[i].agent] ELSE <<>> IN
       \/ /\ CanStart(t, s)
          /\ Register([agent |-> s.agent, bg |-> hand, by |-> IF hand THEN turn[t].agent ELSE NoOne,
                       root |-> turn[t].root, actor |-> turn[t].actor, queue |-> rest,
                       from |-> "turn", parent |-> t, parts |-> <<>>])
          /\ hops' = [hops EXCEPT ![n + 1] = IF hand THEN hops[t] + 1 ELSE hops[t]]
       \/ /\ ~CanStart(t, s)
          /\ stage' = [stage EXCEPT ![t] = "next"]
          /\ UNCHANGED <<n, turn, hops, total, active, bg>>
    /\ todo' = [todo EXCEPT ![t] = Left(t, CanStart(t, Head(@)))]
    /\ UNCHANGED <<chat, callers, off, job, handed, life>>

EndTurn(t) ==
    /\ stage[t] = "next" /\ todo[t] = <<>>
    /\ stage' = [stage EXCEPT ![t] = "over"]
    /\ Finish(t)
    /\ UNCHANGED <<chat, req, sender, n, turn, off, job, todo, handed, hops, total, life>>

-----------------------------------------------------------------------------
(* People stop answers; office goes down and comes back. *)

\* What StopAll and Shutdown find under e.mu.
Registered == ({active} \cup {bg[a] : a \in Agents}) \ {None}
TurnOff(T, why) == off' = [t \in Turns |-> IF t \in T /\ off[t] = "no" THEN why ELSE off[t]]

\* cancelTurn stops one turn, stopConversation all of the chat's.
Stop ==
    /\ Serving /\ MoreStops
    /\ stops' = stops + 1
    /\ \E T \in {{t} : t \in Registered} \cup {Registered} :
          T # {} /\ TurnOff(T, "stopped")
    /\ UNCHANGED <<chat, callers, n, turn, stage, job, todo, handed, hops, total, active, bg, office, cut, downs>>

\* Shutdown: first nothing begins any more, then what works is cut off.
Shutdown ==
    /\ office = "up" /\ downs < MaxDowns
    /\ office' = "stopping"
    /\ UNCHANGED <<chat, callers, answers, cut, stops, downs>>

ShutdownTakes ==
    /\ office = "stopping"
    /\ office' = "stopped"
    /\ TurnOff(Registered, "cut")
    /\ UNCHANGED <<chat, callers, n, turn, stage, job, todo, handed, hops, total, active, bg, cut, stops, downs>>

\* Office is gone (after Shutdown has waited, or killed): the store is left.
Down ==
    /\ office # "down" /\ downs < MaxDowns
    /\ downs' = downs + 1
    /\ office' = "down"
    /\ req' = [p \in People |-> NoRequest]
    /\ sender' = NoSender /\ senders' = 0
    /\ stage' = [t \in Turns |-> IF stage[t] = "none" THEN "none" ELSE "over"]
    /\ todo' = [t \in Turns |-> <<>>]
    /\ handed' = [t \in Turns |-> <<>>]
    /\ active' = None
    /\ bg' = [a \in Agents |-> None]
    /\ cut' = NoCut
    /\ UNCHANGED <<chat, n, turn, off, job, hops, total, stops>>

\* run.go: the jobs that run are listed, the last one first (at most four
\* agents', as many as a message calls), ...
Running == {t \in Turns : job[t] = "running"}
ListRunning ==
    /\ office = "down"
    /\ office' = "listed"
    /\ \/ Running = {} /\ cut' = NoCut
       \/ \E last \in Running, as \in Callable :
             /\ \A t \in Running : t <= last
             /\ LET Add(before, t) == IF Contains(before, turn[t].agent) THEN before
                                      ELSE Append(before, turn[t].agent)
                IN as = FoldLeft(Add, <<>>, SelectSeq([i \in Turns |-> MaxTurns + 1 - i], LAMBDA t : t \in Running))
             /\ cut' = [who |-> turn[last].actor, agents |-> as]
    /\ UNCHANGED <<chat, callers, answers, stops, downs>>

\* ... they fail, and office listens ...
FailRunning ==
    /\ office = "listed"
    /\ office' = "serving"
    /\ job' = [t \in Turns |-> IF job[t] = "running" THEN "ended" ELSE job[t]]
    /\ UNCHANGED <<chat, callers, n, turn, stage, off, todo, handed, hops, total, active, bg, cut, stops, downs>>

\* ... ResumeInterrupted: the agents cut off are called by a message; a chat
\* where it cannot go is left ...
ResumeInterrupted ==
    /\ office = "serving"
    /\ \/ /\ cut.agents # <<>>
          /\ Begin(cut.agents, cut.who, "office", <<>>)
          /\ office' = "resuming"
       \/ /\ cut.agents = <<>> \/ Verdict(cut.agents) # "free" \/ MayRefuse
          /\ office' = "resumed"
          /\ UNCHANGED answers
    /\ UNCHANGED <<chat, callers, cut, stops, downs>>

\* ... and what waited in the chat goes (SendAllQueued).
SendAllQueued ==
    /\ office = "resumed"
    /\ office' = "up"
    /\ cut' = NoCut
    /\ senders' = IF waiting # <<>> THEN senders + 1 ELSE senders
    /\ UNCHANGED <<chat, req, sender, answers, stops, downs>>

-----------------------------------------------------------------------------
Request(p) == LookActive(p) \/ LookQueued(p) \/ Send(p) \/ Queue(p)
Sender == SenderActive \/ SenderList \/ SenderSend \/ SenderDelete
Goes(t) ==
    \/ StoreMessage(t) \/ BeginJob(t) \/ BeginJobNext(t)
    \/ AnswerEnd(t) \/ AnswerCut(t) \/ NextTurn(t) \/ MayStart(t) \/ StartTurn(t) \/ EndTurn(t)
Starts == ListRunning \/ FailRunning \/ ResumeInterrupted \/ SendAllQueued

Next ==
    \/ \E p \in People : Write(p) \/ Request(p)
    \/ Unqueue
    \/ Sender
    \/ \E t \in Turns : Goes(t) \/ \E a \in Agents : Delegate(t, a)
    \/ Stop \/ Shutdown \/ ShutdownTakes \/ Down \/ Starts

Spec == Init /\ [][Next]_vars

\* Goroutines run, an answer ends in the end, and office that went down comes
\* back.
Fairness ==
    /\ \A p \in People : WF_vars(Request(p))
    /\ WF_vars(Sender)
    /\ \A t \in Turns : WF_vars(Goes(t))
    /\ WF_vars(ShutdownTakes)
    /\ WF_vars(office = "stopped" /\ Down)
    /\ WF_vars(Starts)

FairSpec == Spec /\ Fairness

-----------------------------------------------------------------------------
(* Properties. *)

Working(t) == stage[t] \in {"begun", "stored", "answering"}
Times(m) == Cardinality({i \in DOMAIN log : Contains(log[i].parts, m)})

\* Whoever stops a chat or shuts office down finds every turn that works: the
\* chat's (also while one tagged agent hands over to the next) or its agent's.
Held == \A t \in Turns : Working(t) =>
    IF turn[t].bg THEN bg[turn[t].agent] = t ELSE active = t

\* "Shutdown, which takes the turns under it, never misses this one"
\* (SendWithContext): once it has taken them, every turn at work is cut off.
ShutdownMissesNone == office = "stopped" => \A t \in Turns : Working(t) => off[t] # "no"

\* A message is said once in the chat; once more for each time office goes
\* down, between SendWithContext and DeleteQueued of SendQueued.
OnceEach == \A m \in Msgs : Times(m) <= 1 + downs

\* "One that cannot go is said in the chat with its text, not lost": what no
\* longer waits was sent, said or taken back.
NotLost == [][ \A m \in ToSet(waiting) :
    m \in ToSet(waiting') \/ Times(m) > 0 \/ m \in told \/ m \in taken' ]_vars

\* "messages wait in the chat (a new one waits behind them)": what a person
\* wrote earlier and still waits does not come after what they write now.
PersonOrder == [][ log' # log =>
    LET said == ToSet(Last(log').parts) IN
    \A m \in said, l \in ToSet(waiting) :
        l < m /\ author[l] = author[m] => l \in said \/ Times(l) > 0 ]_vars

\* "Once the chat is free they go together": a message that waits goes (or is
\* said not to) in the end, also over a restart.
WaitingGoes == \A m \in Msgs : (m \in ToSet(waiting)) ~> (m \notin ToSet(waiting))

\* maxAnswers of a message: agents that answer at once may each find room for
\* one more and both begin, but no more than that, whatever tags, tasks and
\* reports a message comes to.  (A report is one too, and never refused.)
Reports(t) == ~turn[t].bg /\ turn[t].parent # None /\ turn[turn[t].parent].bg
AnswersKept == \A r \in Turns :
    Cardinality({t \in Turns : turn[t].root = r /\ job[t] # "none" /\ ~Reports(t)})
        <= MaxAnswers + Cardinality(Agents)

\* "only a safety cap against a loop" (members.go): agents that give each other
\* work stop answering in the end, and the chat is free; none waits for another
\* one that waits for it.
Settles == <>[](\A t \in Turns : stage[t] \in {"none", "over"})

\* "one session, one worktree: never twice at once" (startTurn).
AgentAlone == \A t, u \in Turns :
    stage[t] = "answering" /\ stage[u] = "answering" /\ turn[t].agent = turn[u].agent => t = u
=============================================================================
