---------------------------- MODULE TurnsProofs ----------------------------
(***************************************************************************)
(* However many people, agents, messages, turns, stops and restarts there  *)
(* are: a turn that works can always be found to stop it, Shutdown misses  *)
(* none, what people write is said once per life of office, is not lost,   *)
(* and is said in the order in which its writer wrote it, and a message    *)
(* gets no more answers than it allows and there are agents.               *)
(***************************************************************************)
EXTENDS Turns, ListsProofs, FiniteSetTheorems, SequenceTheorems, TLAPS

StartSpec == [kind : Kinds, agent : Agents]

\* What Held needs of the values that turns are made of.  (Not all of TypeOK,
\* which is proved below: what waits and what is said does not matter here.)
TypedTurns ==
    /\ n \in Nat /\ n <= MaxTurns
    /\ turn = [t \in Turns |-> turn[t]]
    /\ \A t \in Turns :
        /\ turn[t].agent \in Agents /\ turn[t].bg \in BOOLEAN
        /\ turn[t].queue \in Seq(Agents)
        /\ turn[t].bg => turn[t].by \in Agents
    /\ active \in Turns \cup {None}
    /\ bg \in [Agents -> Turns \cup {None}]
TypedStages ==
    /\ stage \in [Turns -> Stages]
    /\ off \in [Turns -> {"no", "stopped", "cut"}]
TypedLists ==
    /\ todo \in [Turns -> Seq(StartSpec)]
    /\ handed \in [Turns -> Seq(Agents)]
    /\ cut.agents # <<>> => cut.agents \in Callable

\* A turn that is to start another one has one to start.
Starting == \A t \in Turns : stage[t] = "start" => todo[t] # <<>>

HeldInv == TypedTurns /\ TypedStages /\ TypedLists /\ Starting /\ Held
ShutdownInv == HeldInv /\ ShutdownMissesNone

-----------------------------------------------------------------------------
(* The lists of agents that are called, and what nextTurn makes of them. *)

LEMMA CallableSeq ==
    ASSUME NEW as \in Callable
    PROVE  as \in Seq(Agents) /\ as # <<>> /\ Head(as) \in Agents /\ Tail(as) \in Seq(Agents)
<1>1. PICK k \in 1 .. 4 : as \in [1 .. k -> Agents]
    BY DEF Callable
<1>2. k \in Nat /\ 1 \in 1 .. k
    OBVIOUS
<1>3. as \in Seq(Agents)
  <2>1. Seq(Agents) = UNION {[1 .. i -> Agents] : i \in Nat}
    BY SeqDef
  <2> QED
    BY <1>1, <1>2, <2>1, Zenon
<1>4. as # <<>>
  <2>1. DOMAIN as = 1 .. k
    BY <1>1
  <2>2. DOMAIN <<>> = {}
    OBVIOUS
  <2> QED
    BY <1>2, <2>1, <2>2
<1> QED
    BY <1>3, <1>4, HeadTailProperties

LEMMA SpecsSeq ==
    ASSUME NEW kind \in Kinds, NEW as \in Seq(Agents)
    PROVE  Specs(kind, as) \in Seq(StartSpec)
<1>1. Len(as) \in Nat /\ as \in [1 .. Len(as) -> Agents] /\ DOMAIN as = 1 .. Len(as)
    BY LenProperties
<1>2. Specs(kind, as) \in [1 .. Len(as) -> StartSpec]
    BY <1>1 DEF Specs, StartSpec
<1> QED
    BY <1>1, <1>2, SeqDef

\* The agents still to answer when a tagged one takes over.
LEMMA RestSeq ==
    ASSUME NEW s \in Seq(StartSpec), s # <<>>
    PROVE  [i \in DOMAIN Tail(s) |-> Tail(s)[i].agent] \in Seq(Agents)
<1>1. Tail(s) \in Seq(StartSpec)
    BY HeadTailProperties
<1>2. /\ Len(Tail(s)) \in Nat
      /\ DOMAIN Tail(s) = 1 .. Len(Tail(s))
      /\ Tail(s) \in [1 .. Len(Tail(s)) -> StartSpec]
    BY <1>1, LenProperties
<1>3. [i \in DOMAIN Tail(s) |-> Tail(s)[i].agent] \in [1 .. Len(Tail(s)) -> Agents]
    BY <1>2 DEF StartSpec
<1> QED
    BY <1>2, <1>3, SeqDef

-----------------------------------------------------------------------------
(* A turn is registered, or lets go. *)

LEMMA RegisterTyped ==
    ASSUME TypedTurns, TypedStages, NEW r, Register(r),
           r.agent \in Agents, r.bg \in BOOLEAN, r.queue \in Seq(Agents), r.bg => r.by \in Agents
    PROVE  /\ TypedTurns'
           /\ stage' \in [Turns -> Stages]
           /\ n + 1 \in Turns /\ turn'[n + 1] = r
           /\ \A u \in Turns : u # n + 1 => turn'[u] = turn[u]
<1>1. n + 1 \in Turns
    BY BoundAssumption DEF Register, TypedTurns, Turns
<1>2. /\ turn' = [t \in Turns |-> turn'[t]]
      /\ turn'[n + 1] = r
      /\ \A u \in Turns : u # n + 1 => turn'[u] = turn[u]
    BY <1>1 DEF Register, TypedTurns
<1>3. stage' \in [Turns -> Stages]
    BY DEF Register, TypedStages, Stages
<1>4. active' \in Turns \cup {None} /\ bg' \in [Agents -> Turns \cup {None}]
    BY <1>1 DEF Register, TypedTurns
<1>5. n' \in Nat /\ n' <= MaxTurns
    BY BoundAssumption DEF Register, TypedTurns
<1> QED
    BY <1>1, <1>2, <1>3, <1>4, <1>5 DEF TypedTurns

\* The chat is taken when nobody has it, or from a turn that works no more.
LEMMA RegisterHeld ==
    ASSUME TypedTurns, TypedStages, Held, NEW r, Register(r),
           r.agent \in Agents, r.bg \in BOOLEAN, r.queue \in Seq(Agents), r.bg => r.by \in Agents,
           r.bg => bg[r.agent] = None,
           ~r.bg => active = None \/ (active \in Turns /\ ~Working(active))
    PROVE  Held'
<1> SUFFICES ASSUME NEW t \in Turns, Working(t)'
             PROVE  IF turn'[t].bg THEN bg'[turn'[t].agent] = t ELSE active' = t
    BY DEF Held
<1>1. /\ n + 1 \in Turns /\ turn'[n + 1] = r
      /\ \A u \in Turns : u # n + 1 => turn'[u] = turn[u]
    BY RegisterTyped
<1>2. CASE t = n + 1
    BY <1>1, <1>2 DEF Register, TypedTurns
<1>3. CASE t # n + 1
    <2>1. Working(t)
        BY <1>3 DEF Register, Working, TypedStages
    <2>2. IF turn[t].bg THEN bg[turn[t].agent] = t ELSE active = t
        BY <2>1 DEF Held
    <2>3. turn'[t] = turn[t] /\ turn[t].agent \in Agents /\ t # None
        BY <1>1, <1>3 DEF TypedTurns, Turns, None
    <2>4. CASE r.bg
        BY <2>2, <2>3, <2>4 DEF Register, TypedTurns
    <2>5. CASE ~r.bg
        BY <2>1, <2>2, <2>3, <2>5 DEF Register, TypedTurns
    <2> QED BY <2>4, <2>5
<1> QED BY <1>2, <1>3

LEMMA FinishTyped ==
    ASSUME TypedTurns, NEW t \in Turns, Finish(t), UNCHANGED <<n, turn>>
    PROVE  TypedTurns'
    BY DEF TypedTurns, Finish, Turns, None

\* A turn that does not work lets go of what it has, and of nothing else.
LEMMA FinishHeld ==
    ASSUME TypedTurns, TypedStages, Held, NEW t \in Turns, Finish(t), UNCHANGED turn,
           \A u \in Turns : Working(u)' => Working(u) /\ u # t
    PROVE  Held'
    BY DEF Held, TypedTurns, Finish, Turns

-----------------------------------------------------------------------------
(* One step of a turn, of a person, of office: one lemma each. *)

\* What turns are made of stays as it is.
LEMMA AsideHeld ==
    ASSUME HeldInv, UNCHANGED <<n, turn, stage, off, todo, handed, active, bg>>,
           UNCHANGED cut \/ cut' = NoCut
    PROVE  HeldInv'
  BY DEF HeldInv, TypedTurns, TypedStages, TypedLists, Starting, Held, Working, NoCut, Callable

\* A message begins: Send, SenderSend, ResumeInterrupted.
LEMMA BeginHeld ==
    ASSUME HeldInv, NEW as \in Callable, NEW who, NEW from, NEW parts,
           Begin(as, who, from, parts), from # "turn", UNCHANGED cut
    PROVE  HeldInv'
<1> DEFINE r == [agent |-> Head(as), bg |-> FALSE, by |-> NoOne, root |-> n + 1, actor |-> who,
                 queue |-> Tail(as), from |-> from, parent |-> None, parts |-> parts]
<1>1. Register(r) /\ UNCHANGED <<off, todo, handed, cut>> /\ active = None
    BY DEF Begin, Verdict
<1>2. r.agent \in Agents /\ r.queue \in Seq(Agents) /\ r.bg = FALSE /\ r.from # "turn"
    BY CallableSeq
<1> HIDE DEF r
<1>3. TypedTurns' /\ stage' \in [Turns -> Stages]
    BY <1>1, <1>2, RegisterTyped DEF HeldInv
<1>4. Held'
    BY <1>1, <1>2, RegisterHeld DEF HeldInv
<1>5. TypedStages' /\ TypedLists'
    BY <1>1, <1>3 DEF HeldInv, TypedStages, TypedLists
<1>6. Starting'
    BY <1>1, <1>2 DEF HeldInv, Starting, Register
<1> QED
    BY <1>3, <1>4, <1>5, <1>6 DEF HeldInv

\* The last part of a turn's beginning, alone.
LEMMA StoredHeld ==
    ASSUME HeldInv, NEW t \in Turns, Working(t), NEW s \in {"stored", "answering"},
           stage' = [stage EXCEPT ![t] = s],
           UNCHANGED <<n, turn, off, todo, handed, active, bg, cut>>
    PROVE  HeldInv'
<1>1. TypedTurns' /\ TypedLists' /\ TypedStages'
    BY DEF HeldInv, TypedTurns, TypedLists, TypedStages, Stages
<1>2. \A u \in Turns : Working(u)' => Working(u)
    BY DEF HeldInv, TypedStages, Working
<1>3. Held'
    BY <1>2 DEF HeldInv, Held, TypedTurns
<1>4. Starting'
    BY DEF HeldInv, Starting, TypedStages
<1> QED
    BY <1>1, <1>3, <1>4 DEF HeldInv

LEMMA BeginJobNextHeld ==
    ASSUME HeldInv, NEW t \in Turns, BeginJobNext(t)
    PROVE  HeldInv'
<1> DEFINE p == turn[t].parent
<1>1. UNCHANGED <<n, turn, off, handed, cut>> /\ Working(t)
    BY DEF BeginJobNext, Working, life
<1>2. CASE Began(t) /\ UNCHANGED <<active, bg>>
    <2>1. stage' = [stage EXCEPT ![t] = "answering", ![p] = "next"]
        BY <1>2 DEF Began
    <2>2. todo' = todo \/ todo' = [todo EXCEPT ![p] = <<>>]
        BY <1>2 DEF Began
    <2>3. \A u \in Turns : Working(u)' => Working(u)
        BY <1>1, <2>1 DEF HeldInv, TypedStages, Working
    <2>4. TypedTurns' /\ Held'
        BY <1>1, <1>2, <2>3 DEF HeldInv, TypedTurns, Held
    <2>5. TypedStages'
        BY <1>1, <2>1 DEF HeldInv, TypedStages, Stages
    <2>6. TypedLists'
        BY <1>1, <2>2, EmptySeq DEF HeldInv, TypedLists
    <2>7. Starting'
        BY <2>1, <2>2 DEF HeldInv, Starting, TypedStages, TypedLists
    <2> QED BY <2>4, <2>5, <2>6, <2>7 DEF HeldInv
<1>3. CASE GaveWay(t) /\ Finish(t) /\ UNCHANGED todo
    <2>1. stage' = [stage EXCEPT ![t] = "over", ![p] = "next"]
        BY <1>3 DEF GaveWay
    <2>2. \A u \in Turns : Working(u)' => Working(u) /\ u # t
        BY <2>1 DEF HeldInv, TypedStages, Working
    <2>3. TypedTurns' /\ Held'
        BY <1>1, <1>3, <2>2, FinishTyped, FinishHeld DEF HeldInv
    <2>4. TypedStages' /\ TypedLists'
        BY <1>1, <1>3, <2>1 DEF HeldInv, TypedStages, TypedLists, Stages
    <2>5. Starting'
        BY <1>3, <2>1 DEF HeldInv, Starting, TypedStages
    <2> QED BY <2>3, <2>4, <2>5 DEF HeldInv
<1> QED
    BY <1>2, <1>3 DEF BeginJobNext

\* A turn goes on from one stage of its end to the next, or has less to start.
LEMMA OnwardHeld ==
    ASSUME HeldInv, NEW t \in Turns, ~Working(t)' \/ stage'[t] = stage[t],
           \A u \in Turns : u # t => stage'[u] = stage[u] /\ todo'[u] = todo[u],
           stage' \in [Turns -> Stages], todo' \in [Turns -> Seq(StartSpec)],
           stage'[t] = "start" => todo'[t] # <<>>,
           handed' \in [Turns -> Seq(Agents)],
           UNCHANGED <<n, turn, off, active, bg, cut>>
    PROVE  HeldInv'
<1>1. TypedTurns' /\ TypedLists' /\ TypedStages'
    BY DEF HeldInv, TypedTurns, TypedLists, TypedStages
<1>2. \A u \in Turns : Working(u)' => Working(u)
    BY DEF Working
<1>3. Held'
    BY <1>2 DEF HeldInv, Held, TypedTurns
<1>4. Starting'
    BY DEF HeldInv, Starting
<1> QED
    BY <1>1, <1>3, <1>4 DEF HeldInv

LEMMA NextTurnHeld ==
    ASSUME HeldInv, NEW t \in Turns, NextTurn(t)
    PROVE  HeldInv'
<1>1. stage' = [stage EXCEPT ![t] = "next"] /\ UNCHANGED <<n, turn, off, active, bg, cut>>
    BY DEF NextTurn, life
<1>2. stage' \in [Turns -> Stages] /\ stage'[t] = "next" /\ \A u \in Turns : u # t => stage'[u] = stage[u]
    BY <1>1 DEF HeldInv, TypedStages, Stages
<1> DEFINE last == IF turn[t].bg THEN Specs("report", <<turn[t].by>>) ELSE Specs("tagged", turn[t].queue)
<1>3. Specs("hand", handed[t]) \o last \in Seq(StartSpec)
    <2>1. Specs("hand", handed[t]) \in Seq(StartSpec)
        BY SpecsSeq DEF HeldInv, TypedLists, Kinds
    <2>2. CASE turn[t].bg
        <3>1. <<turn[t].by>> \in Seq(Agents)
            BY <2>2 DEF HeldInv, TypedTurns
        <3> QED BY <2>1, <2>2, <3>1, SpecsSeq, ConcatProperties DEF Kinds
    <2>3. CASE ~turn[t].bg
        <3>1. turn[t].queue \in Seq(Agents)
            BY DEF HeldInv, TypedTurns
        <3> QED BY <2>1, <2>3, <3>1, SpecsSeq, ConcatProperties DEF Kinds
    <2> QED BY <2>2, <2>3
<1>4. /\ todo' \in [Turns -> Seq(StartSpec)] /\ handed' \in [Turns -> Seq(Agents)]
      /\ \A u \in Turns : u # t => todo'[u] = todo[u]
    <2>1. CASE off[t] # "no"
        BY <2>1 DEF NextTurn, HeldInv, TypedLists
    <2>2. CASE off[t] = "no"
        <3>1. todo' = [todo EXCEPT ![t] = Specs("hand", handed[t]) \o last] /\ handed' = [handed EXCEPT ![t] = <<>>]
            BY <2>2 DEF NextTurn
        <3> QED BY <1>3, <3>1, EmptySeq DEF HeldInv, TypedLists
    <2> QED BY <2>1, <2>2
<1> QED
    BY <1>1, <1>2, <1>4, OnwardHeld DEF Working

LEMMA MayStartHeld ==
    ASSUME HeldInv, NEW t \in Turns, MayStart(t)
    PROVE  HeldInv'
<1>1. /\ stage[t] = "next" /\ todo[t] # <<>>
      /\ UNCHANGED <<n, turn, off, handed, active, bg, cut>>
    BY DEF MayStart, life
<1>2. \/ todo' = [todo EXCEPT ![t] = Tail(@)] /\ stage' = stage
      \/ stage' = [stage EXCEPT ![t] = "start"] /\ todo' = todo
    BY DEF MayStart
<1>3. Tail(todo[t]) \in Seq(StartSpec)
    BY <1>1, HeadTailProperties DEF HeldInv, TypedLists
<1>4. /\ todo' \in [Turns -> Seq(StartSpec)] /\ handed' \in [Turns -> Seq(Agents)]
      /\ stage' \in [Turns -> Stages]
      /\ \A u \in Turns : u # t => stage'[u] = stage[u] /\ todo'[u] = todo[u]
    BY <1>1, <1>2, <1>3 DEF HeldInv, TypedLists, TypedStages, Stages
<1>5. ~Working(t)' /\ (stage'[t] = "start" => todo'[t] # <<>>)
    BY <1>1, <1>2 DEF HeldInv, TypedStages, Working
<1> QED
    BY <1>1, <1>4, <1>5, OnwardHeld

LEMMA StartTurnHeld ==
    ASSUME HeldInv, NEW t \in Turns, StartTurn(t)
    PROVE  HeldInv'
<1> DEFINE s == Head(todo[t])
           hand == s.kind = "hand"
           rest == IF s.kind = "tagged" THEN [i \in DOMAIN Tail(todo[t]) |-> Tail(todo[t])[i].agent] ELSE <<>>
           r == [agent |-> s.agent, bg |-> hand, by |-> IF hand THEN turn[t].agent ELSE NoOne,
                 root |-> turn[t].root, actor |-> turn[t].actor, queue |-> rest,
                 from |-> "turn", parent |-> t, parts |-> <<>>]
<1>1. /\ stage[t] = "start" /\ todo[t] # <<>> /\ todo[t] \in Seq(StartSpec)
      /\ todo' = [todo EXCEPT ![t] = Tail(@)] /\ UNCHANGED <<off, handed, cut>>
    BY DEF StartTurn, Left, HeldInv, Starting, TypedLists, life
<1>2. s \in StartSpec /\ Tail(todo[t]) \in Seq(StartSpec) /\ rest \in Seq(Agents)
    BY <1>1, HeadTailProperties, RestSeq, EmptySeq
<1>3. r.agent \in Agents /\ r.bg \in BOOLEAN /\ r.queue \in Seq(Agents) /\ (r.bg => r.by \in Agents)
      /\ r.bg = (s.kind = "hand") /\ r.agent = s.agent /\ r.parent = t
    BY <1>2 DEF StartSpec, HeldInv, TypedTurns
<1>4. TypedLists'
    BY <1>1, <1>2 DEF HeldInv, TypedLists
<1>5. CASE CanStart(t, s) /\ Register(r)
    <2> HIDE DEF r
    <2>1. r.bg => bg[r.agent] = None
        BY <1>3, <1>5 DEF CanStart
    <2>2. ~r.bg => active = None \/ (active \in Turns /\ ~Working(active))
        BY <1>1, <1>3, <1>5 DEF CanStart, Working
    <2>3. TypedTurns' /\ stage' \in [Turns -> Stages]
        BY <1>3, <1>5, RegisterTyped DEF HeldInv
    <2>4. Held'
        BY <1>3, <1>5, <2>1, <2>2, RegisterHeld DEF HeldInv
    <2>5. TypedStages'
        BY <1>1, <2>3 DEF HeldInv, TypedStages
    <2>6. Starting'
        BY <1>1, <1>3, <1>5 DEF HeldInv, Starting, Register, TypedLists
    <2> QED BY <1>4, <2>3, <2>4, <2>5, <2>6 DEF HeldInv
<1>6. CASE stage' = [stage EXCEPT ![t] = "next"] /\ UNCHANGED <<n, turn, active, bg>>
    <2>1. /\ todo' \in [Turns -> Seq(StartSpec)] /\ handed' \in [Turns -> Seq(Agents)]
          /\ stage' \in [Turns -> Stages] /\ stage'[t] = "next"
          /\ \A u \in Turns : u # t => stage'[u] = stage[u] /\ todo'[u] = todo[u]
        BY <1>1, <1>4, <1>6 DEF HeldInv, TypedLists, TypedStages, Stages
    <2> QED
        BY <1>1, <1>6, <2>1, OnwardHeld DEF Working
<1> QED
    BY <1>5, <1>6 DEF StartTurn

LEMMA EndTurnHeld ==
    ASSUME HeldInv, NEW t \in Turns, EndTurn(t)
    PROVE  HeldInv'
<1>1. /\ stage' = [stage EXCEPT ![t] = "over"] /\ Finish(t)
      /\ UNCHANGED <<n, turn, off, todo, handed, cut>>
    BY DEF EndTurn, life
<1>2. \A u \in Turns : Working(u)' => Working(u) /\ u # t
    BY <1>1 DEF HeldInv, TypedStages, Working
<1>3. TypedTurns' /\ Held'
    BY <1>1, <1>2, FinishTyped, FinishHeld DEF HeldInv
<1>4. TypedStages' /\ TypedLists' /\ Starting'
    BY <1>1 DEF HeldInv, TypedStages, TypedLists, Stages, Starting
<1> QED
    BY <1>3, <1>4 DEF HeldInv

\* Every step of a turn.
LEMMA TurnHeld ==
    ASSUME HeldInv, NEW t \in Turns, Goes(t) \/ \E a \in Agents : Delegate(t, a)
    PROVE  HeldInv'
<1>1. CASE StoreMessage(t)
    BY <1>1, StoredHeld DEF StoreMessage, Working, life
<1>2. CASE BeginJob(t)
    BY <1>2, StoredHeld DEF BeginJob, Working
<1>3. CASE BeginJobNext(t)
    BY <1>3, BeginJobNextHeld
<1>4. CASE AnswerEnd(t) \/ AnswerCut(t)
    <2>1. /\ stage' = [stage EXCEPT ![t] = "ended"] \/ stage' = [stage EXCEPT ![t] = "next"]
          /\ UNCHANGED <<n, turn, off, todo, handed, active, bg, cut>>
        BY <1>4 DEF AnswerEnd, AnswerCut, life
    <2>2. /\ stage' \in [Turns -> Stages] /\ stage'[t] \in {"ended", "next"}
          /\ \A u \in Turns : u # t => stage'[u] = stage[u]
        BY <2>1 DEF HeldInv, TypedStages, Stages
    <2> QED
        BY <2>1, <2>2, OnwardHeld DEF HeldInv, TypedLists, Working
<1>5. CASE NextTurn(t)
    BY <1>5, NextTurnHeld
<1>6. CASE MayStart(t)
    BY <1>6, MayStartHeld
<1>7. CASE StartTurn(t)
    BY <1>7, StartTurnHeld
<1>8. CASE EndTurn(t)
    BY <1>8, EndTurnHeld
<1>9. ASSUME NEW a \in Agents, Delegate(t, a)
      PROVE  HeldInv'
    <2>1. handed' = [handed EXCEPT ![t] = Append(@, a)] /\ UNCHANGED <<n, turn, stage, off, todo, active, bg, cut>>
        BY <1>9 DEF Delegate, life
    <2>2. Append(handed[t], a) \in Seq(Agents)
        BY AppendProperties DEF HeldInv, TypedLists
    <2>3. handed' \in [Turns -> Seq(Agents)]
        BY <2>1, <2>2 DEF HeldInv, TypedLists
    <2> QED
        BY <2>1, <2>3, OnwardHeld DEF HeldInv, TypedLists, TypedStages, Starting
<1> QED
    BY <1>1, <1>2, <1>3, <1>4, <1>5, <1>6, <1>7, <1>8, <1>9 DEF Goes

LEMMA InitHeld == Init => HeldInv /\ ShutdownMissesNone
<1> SUFFICES ASSUME Init
             PROVE  HeldInv /\ ShutdownMissesNone
    OBVIOUS
<1>1. TypedTurns
  <2>1. \A t \in Turns : turn[t] = Blank
      BY DEF Init
  <2>2. Blank.agent \in Agents /\ Blank.bg = FALSE /\ Blank.queue \in Seq(Agents)
      BY AgentAssumption, EmptySeq DEF Blank
  <2>3. turn = [t \in Turns |-> turn[t]]
      BY DEF Init
  <2>4. active \in Turns \cup {None} /\ bg \in [Agents -> Turns \cup {None}]
      BY DEF Init
  <2>5. n \in Nat /\ n <= MaxTurns
      BY BoundAssumption DEF Init
  <2> QED
      BY <2>1, <2>2, <2>3, <2>4, <2>5 DEF TypedTurns
<1>2. TypedStages /\ TypedLists
    BY EmptySeq DEF Init, TypedStages, TypedLists, Stages, NoCut
<1>3. Starting /\ Held /\ ShutdownMissesNone
    BY DEF Init, Starting, Held, ShutdownMissesNone, Working
<1> QED
    BY <1>1, <1>2, <1>3 DEF HeldInv

\* A turn's context goes off.
LEMMA OffHeld ==
    ASSUME HeldInv, NEW T, NEW why \in {"stopped", "cut"}, TurnOff(T, why),
           UNCHANGED <<n, turn, stage, todo, handed, active, bg, cut>>
    PROVE  HeldInv'
<1>1. off' \in [Turns -> {"no", "stopped", "cut"}]
    BY DEF TurnOff, HeldInv, TypedStages
<1> QED
    BY <1>1 DEF HeldInv, TypedTurns, TypedStages, TypedLists, Starting, Held, Working

LEMMA DownHeld ==
    ASSUME HeldInv, Down
    PROVE  HeldInv'
<1>1. TypedTurns'
    BY DEF Down, HeldInv, TypedTurns
<1>2. TypedStages' /\ TypedLists'
    BY EmptySeq DEF Down, HeldInv, TypedStages, TypedLists, Stages, NoCut
<1>3. \A t \in Turns : stage'[t] \in {"none", "over"}
    BY DEF Down
<1>4. Starting' /\ Held'
    BY <1>3 DEF Starting, Held, Working
<1> QED
    BY <1>1, <1>2, <1>4 DEF HeldInv

LEMMA StartsHeld ==
    ASSUME HeldInv, Starts
    PROVE  HeldInv'
<1>1. CASE ListRunning
    <2>1. cut' = NoCut \/ \E as \in Callable, t \in Turns : cut' = [who |-> turn[t].actor, agents |-> as]
        BY <1>1, Zenon DEF ListRunning, Running
    <2>2. cut'.agents # <<>> => cut'.agents \in Callable
        BY <2>1 DEF NoCut
    <2>3. UNCHANGED <<n, turn, stage, off, todo, handed, active, bg>>
        BY <1>1 DEF ListRunning, answers
    <2> QED
        BY <2>2, <2>3 DEF HeldInv, TypedTurns, TypedStages, TypedLists, Starting, Held, Working
<1>2. CASE FailRunning
    BY <1>2, AsideHeld DEF FailRunning
<1>3. CASE ResumeInterrupted
    <2>1. CASE UNCHANGED answers
        BY <1>3, <2>1, AsideHeld DEF ResumeInterrupted, answers
    <2>2. CASE cut.agents # <<>> /\ Begin(cut.agents, cut.who, "office", <<>>)
        <3>1. cut.agents \in Callable /\ UNCHANGED cut
            BY <1>3, <2>2 DEF ResumeInterrupted, HeldInv, TypedLists
        <3> QED BY <2>2, <3>1, BeginHeld
    <2> QED BY <1>3, <2>1, <2>2 DEF ResumeInterrupted
<1>4. CASE SendAllQueued
    BY <1>4, AsideHeld DEF SendAllQueued, answers
<1> QED
    BY <1>1, <1>2, <1>3, <1>4 DEF Starts

\* A person is no turn: their message is no hand-off.
LEMMA PeopleHeld ==
    ASSUME HeldInv, NEW p \in People, p # "turn", Write(p) \/ Request(p)
    PROVE  HeldInv'
<1>1. CASE Write(p) \/ LookActive(p) \/ LookQueued(p) \/ Queue(p)
    BY <1>1, AsideHeld DEF Write, LookActive, LookQueued, Queue, answers, life
<1>2. CASE Send(p)
    <2>1. PICK as \in Callable :
            \/ Begin(as, p, p, <<req[p].m>>)
            \/ UNCHANGED answers
        BY <1>2 DEF Send
    <2>2. UNCHANGED cut
        BY <1>2 DEF Send, life
    <2> QED
        BY <2>1, <2>2, BeginHeld, AsideHeld DEF answers
<1> QED
    BY <1>1, <1>2 DEF Request

LEMMA SenderHeld ==
    ASSUME HeldInv, Sender
    PROVE  HeldInv'
<1>1. CASE SenderActive \/ SenderList \/ SenderDelete
    BY <1>1, AsideHeld DEF SenderActive, SenderList, SenderDelete, answers, life
<1>2. CASE SenderSend
    <2>1. PICK as \in Callable :
            \/ Begin(as, author[Head(sender.list)], "sender", sender.list)
            \/ UNCHANGED answers
        BY <1>2 DEF SenderSend
    <2>2. UNCHANGED cut
        BY <1>2 DEF SenderSend, life
    <2> QED
        BY <2>1, <2>2, BeginHeld, AsideHeld DEF answers
<1> QED
    BY <1>1, <1>2 DEF Sender

LEMMA StepHeld == HeldInv /\ [Next]_vars => HeldInv'
<1> SUFFICES ASSUME HeldInv, [Next]_vars
             PROVE  HeldInv'
    OBVIOUS
<1>1. ASSUME NEW p \in People, Write(p) \/ Request(p)
      PROVE  HeldInv'
    BY <1>1, PeopleHeld, PeopleAssumption
<1>2. CASE Unqueue
    BY <1>2, AsideHeld DEF Unqueue, answers, life
<1>3. CASE Sender
    BY <1>3, SenderHeld
<1>4. ASSUME NEW t \in Turns, Goes(t) \/ \E a \in Agents : Delegate(t, a)
      PROVE  HeldInv'
    BY <1>4, TurnHeld
<1>5. CASE Stop
    BY <1>5, OffHeld DEF Stop
<1>6. CASE Shutdown
    BY <1>6, AsideHeld DEF Shutdown, answers
<1>7. CASE ShutdownTakes
    BY <1>7, OffHeld DEF ShutdownTakes
<1>8. CASE Down
    BY <1>8, DownHeld
<1>9. CASE Starts
    BY <1>9, StartsHeld
<1>10. CASE UNCHANGED vars
    BY <1>10, AsideHeld DEF vars, answers, life
<1> QED
    BY <1>1, <1>2, <1>3, <1>4, <1>5, <1>6, <1>7, <1>8, <1>9, <1>10 DEF Next

\* Whoever stops a chat, or shuts office down, finds every turn that works:
\* SendWithContext and startTurn register a turn in e.active or e.bg before
\* e.mu is let go, finish takes it out only when it works no more, and nobody
\* else's registration goes with it.
THEOREM HeldHolds == Spec => []Held
<1>1. HeldInv => Held
    BY DEF HeldInv
<1> QED
    BY InitHeld, StepHeld, <1>1, PTL DEF Spec

-----------------------------------------------------------------------------
(* Shutdown. *)

\* While office stops, nothing begins: what works then worked before.
LEMMA NothingBegins ==
    ASSUME HeldInv, Next, Stopping
    PROVE  \A t \in Turns : Working(t)' => Working(t)
<1> USE DEF Working
<1>1. ASSUME NEW as \in Callable, NEW who, NEW from, NEW parts
      PROVE  ~Begin(as, who, from, parts)
    BY DEF Begin, Verdict
<1>2. CASE UNCHANGED stage
    BY <1>2
<1>3. ASSUME NEW t \in Turns, Goes(t)
      PROVE  \A u \in Turns : Working(u)' => Working(u)
    <2>1. CASE UNCHANGED stage
        BY <2>1
    <2>2. ~(stage[t] = "start" /\ stage' # [stage EXCEPT ![t] = "next"] /\ StartTurn(t))
        BY DEF StartTurn, CanStart
    <2>3. CASE BeginJobNext(t)
        <3>1. \/ stage' = [stage EXCEPT ![t] = "answering", ![turn[t].parent] = "next"]
              \/ stage' = [stage EXCEPT ![t] = "over", ![turn[t].parent] = "next"]
            BY <2>3 DEF BeginJobNext, Began, GaveWay
        <3>2. stage[t] = "stored"
            BY <2>3 DEF BeginJobNext
        <3> QED BY <3>1, <3>2 DEF HeldInv, TypedStages
    <2>4. CASE ~BeginJobNext(t)
        <3>1. \/ UNCHANGED stage
              \/ Working(t) /\ \E s \in Stages : stage' = [stage EXCEPT ![t] = s]
              \/ \E s \in {"next", "start", "over"} : stage' = [stage EXCEPT ![t] = s]
            BY <1>3, <2>2, <2>4 DEF Goes, StoreMessage, BeginJob, AnswerEnd, AnswerCut, NextTurn, MayStart,
                                    StartTurn, EndTurn, Stages
        <3> QED BY <3>1 DEF HeldInv, TypedStages
    <2> QED BY <2>3, <2>4
<1>4. CASE Down
    BY <1>4 DEF Down
<1>5. ASSUME NEW p \in People, Write(p) \/ Request(p)
      PROVE  UNCHANGED stage
    <2>1. Send(p) => UNCHANGED answers
        BY <1>1 DEF Send
    <2> QED
        BY <1>5, <2>1 DEF Write, Request, LookActive, LookQueued, Queue, answers
<1>6. Sender => UNCHANGED stage
    <2>1. SenderSend => UNCHANGED answers
        BY <1>1 DEF SenderSend
    <2> QED
        BY <2>1 DEF Sender, SenderActive, SenderList, SenderDelete, answers
<1>7. Starts => UNCHANGED stage
    BY DEF Starts, ListRunning, FailRunning, ResumeInterrupted, SendAllQueued, Stopping, answers
<1>8. (Unqueue \/ Stop \/ Shutdown \/ ShutdownTakes) => UNCHANGED stage
    BY DEF Unqueue, Stop, Shutdown, ShutdownTakes, answers
<1>9. ASSUME NEW t \in Turns, NEW a \in Agents, Delegate(t, a)
      PROVE  UNCHANGED stage
    BY <1>9 DEF Delegate
<1> QED
    BY <1>2, <1>3, <1>4, <1>5, <1>6, <1>7, <1>8, <1>9 DEF Next

\* Nothing gives a turn a new context.
LEMMA OffStays ==
    ASSUME HeldInv, Next
    PROVE  \A t \in Turns : off[t] # "no" => off'[t] # "no"
<1>1. ASSUME NEW T, NEW why \in {"stopped", "cut"}, TurnOff(T, why)
      PROVE  \A t \in Turns : off[t] # "no" => off'[t] # "no"
    BY <1>1 DEF TurnOff
<1>2. ASSUME NEW as, NEW who, NEW from, NEW parts, Begin(as, who, from, parts)
      PROVE  UNCHANGED off
    BY <1>2 DEF Begin
<1>3. ASSUME NEW p \in People, Write(p) \/ Request(p)
      PROVE  UNCHANGED off
    <2>1. Send(p) => UNCHANGED off
        BY <1>2 DEF Send, answers
    <2> QED
        BY <1>3, <2>1 DEF Write, Request, LookActive, LookQueued, Queue, answers
<1>4. Sender => UNCHANGED off
    <2>1. SenderSend => UNCHANGED off
        BY <1>2 DEF SenderSend, answers
    <2> QED
        BY <2>1 DEF Sender, SenderActive, SenderList, SenderDelete, answers
<1>5. ASSUME NEW t \in Turns, Goes(t) \/ \E a \in Agents : Delegate(t, a)
      PROVE  UNCHANGED off
    BY <1>5 DEF Goes, StoreMessage, BeginJob, BeginJobNext, AnswerEnd, AnswerCut, NextTurn, MayStart, StartTurn,
                EndTurn, Delegate
<1>6. Starts => UNCHANGED off
    <2>1. ResumeInterrupted => UNCHANGED off
        BY <1>2 DEF ResumeInterrupted, answers
    <2> QED
        BY <2>1 DEF Starts, ListRunning, FailRunning, SendAllQueued, answers
<1>7. (Unqueue \/ Shutdown \/ Down) => UNCHANGED off
    BY DEF Unqueue, Shutdown, Down, answers
<1>8. Stop => \E T : TurnOff(T, "stopped")
    BY DEF Stop
<1>9. ShutdownTakes => TurnOff(Registered, "cut")
    BY DEF ShutdownTakes
<1> QED
    BY <1>1, <1>3, <1>4, <1>5, <1>6, <1>7, <1>8, <1>9 DEF Next

\* Only Shutdown stops office.
LEMMA OfficeSteps ==
    ASSUME Next
    PROVE  UNCHANGED office \/ ShutdownTakes \/ office' # "stopped"
<1>1. ASSUME NEW p \in People, Write(p) \/ Request(p)
      PROVE  UNCHANGED office
    BY <1>1 DEF Write, Request, LookActive, LookQueued, Send, Queue, life
<1>2. (Unqueue \/ Sender \/ Stop) => UNCHANGED office
    BY DEF Unqueue, Sender, SenderActive, SenderList, SenderSend, SenderDelete, Stop, life
<1>3. ASSUME NEW t \in Turns, Goes(t) \/ \E a \in Agents : Delegate(t, a)
      PROVE  UNCHANGED office \/ office' = "resumed"
    BY <1>3 DEF Goes, StoreMessage, BeginJob, BeginJobNext, AnswerEnd, AnswerCut, NextTurn, MayStart, StartTurn,
                EndTurn, Delegate, life
<1>4. (Shutdown \/ Down \/ Starts) => office' # "stopped"
    BY DEF Shutdown, Down, Starts, ListRunning, FailRunning, ResumeInterrupted, SendAllQueued
<1> QED
    BY <1>1, <1>2, <1>3, <1>4 DEF Next

LEMMA ShutdownStep == HeldInv /\ ShutdownMissesNone /\ [Next]_vars => ShutdownMissesNone'
<1> SUFFICES ASSUME HeldInv, ShutdownMissesNone, Next, office' = "stopped", NEW t \in Turns, Working(t)'
             PROVE  off'[t] # "no"
    BY DEF ShutdownMissesNone, vars, answers, life, Working
<1>1. CASE office = "stopped"
    BY <1>1, NothingBegins, OffStays DEF ShutdownMissesNone, Stopping
<1>2. CASE office # "stopped"
    <2>1. ShutdownTakes
        BY <1>2, OfficeSteps
    <2>2. UNCHANGED <<turn, stage, active, bg>> /\ TurnOff(Registered, "cut")
        BY <2>1 DEF ShutdownTakes
    <2>3. Working(t) /\ t # None
        BY <2>2 DEF Working, Turns, None
    <2>4. t \in Registered
        BY <2>3 DEF HeldInv, Held, TypedTurns, Registered
    <2> QED
        BY <2>2, <2>4 DEF TurnOff
<1> QED
    BY <1>1, <1>2

\* Shutdown cuts off every turn that works (ShutdownMissesNone): e.stopping is
\* set before the turns are taken and looked at under the lock that registers
\* one, so that what is registered before is taken and nothing is after.
THEOREM ShutdownMissesNoneHolds == Spec => []ShutdownMissesNone
<1>1. ShutdownMissesNone /\ HeldInv /\ [Next]_vars => ShutdownMissesNone' /\ HeldInv'
    BY StepHeld, ShutdownStep
<1> QED
    BY InitHeld, <1>1, PTL DEF Spec

-----------------------------------------------------------------------------
(* Types. *)

ChatOK ==
    /\ written \in 0 .. MaxMsgs
    /\ author \in [Msgs -> People \cup {NoOne}]
    /\ tags \in [Msgs -> Seq(Agents)]
    /\ waiting \in Seq(Msgs)
    /\ log \in Seq([by : People, parts : Seq(Msgs)])
    /\ told \subseteq Msgs /\ taken \subseteq Msgs
CallersOK ==
    /\ req \in [People -> [at : {"idle", "active", "queued", "send", "sending", "queue"}, m : Msgs \cup {None}]]
    /\ sender \in [at : {"idle", "list", "send", "sending", "delete"}, list : Seq(Msgs)]
    /\ senders \in Nat
TurnsOK ==
    /\ n \in 0 .. MaxTurns
    /\ turn \in [Turns -> Turn \cup {Blank}]
    /\ \A t \in Turns : (turn[t] = Blank) <=> n < t
StagesOK ==
    /\ stage \in [Turns -> Stages]
    /\ \A t \in Turns : (stage[t] = "none") <=> n < t
ListsOK ==
    /\ off \in [Turns -> {"no", "stopped", "cut"}]
    /\ job \in [Turns -> {"none", "running", "ended"}]
    /\ todo \in [Turns -> Seq([kind : Kinds, agent : Agents])]
    /\ handed \in [Turns -> Seq(Agents)]
    /\ hops \in [Turns -> Nat]
    /\ total \in [Turns -> Int]
    /\ active \in Turns \cup {None}
    /\ bg \in [Agents -> Turns \cup {None}]
AnswersOK == TurnsOK /\ StagesOK /\ ListsOK
LifeOK ==
    /\ office \in Phases
    /\ cut \in [who : People \cup {NoOne}, agents : Seq(Agents)]
    /\ stops \in Nat
    /\ downs \in 0 .. MaxDowns

LEMMA TypeParts == TypeOK <=> ChatOK /\ CallersOK /\ AnswersOK /\ LifeOK
  BY DEF TypeOK, ChatOK, CallersOK, AnswersOK, TurnsOK, StagesOK, ListsOK, LifeOK

\* Whose message it is that waits, is sent, or was cut off.
WrittenBy ==
    /\ \A m \in Msgs : m <= written => author[m] \in People
    /\ ToSet(waiting) \subseteq 1 .. written
    /\ ToSet(sender.list) \subseteq 1 .. written
    /\ sender.at = "send" => sender.list # <<>>
    /\ \A p \in People : req[p].at # "idle" => req[p].m \in 1 .. written
Before ==
    /\ \A t \in Turns : turn[t].parent \in 0 .. n
    /\ \A t \in Turns : t <= n => turn[t].root \in 1 .. n
    /\ \A t \in Turns : job[t] # "none" => t <= n
CutOff == cut.agents # <<>> => cut.who \in People

TypeInv == TypeOK /\ HeldInv /\ WrittenBy /\ Before /\ CutOff
-----------------------------------------------------------------------------
LEMMA TurnsNat == Turns \subseteq Nat \ {None} /\ Msgs \subseteq Nat \ {None} /\ MaxTurns \in Nat /\ MaxMsgs \in Nat
  BY BoundAssumption DEF Turns, Msgs, None

LEMMA InitTypes == Init => TypeInv
<1> SUFFICES ASSUME Init PROVE TypeInv
    OBVIOUS
<1> USE DEF Init
<1>1. ChatOK
    BY BoundAssumption, EmptySeq DEF ChatOK
<1>2. CallersOK
    BY EmptySeq DEF CallersOK, NoRequest, NoSender
<1>3. TurnsOK /\ StagesOK
    BY TurnsNat DEF TurnsOK, StagesOK, Turns, Stages
<1>4. ListsOK
    BY EmptySeq DEF ListsOK
<1>5. LifeOK
    BY BoundAssumption, EmptySeq DEF LifeOK, Phases, NoCut
<1>6. WrittenBy
  <2>1. ToSet(<<>>) = {}
    BY DEF ToSet
  <2>2. sender.list = <<>> /\ sender.at = "idle" /\ \A p \in People : req[p].at = "idle"
    BY DEF NoRequest, NoSender
  <2>3. written = 0
    OBVIOUS
  <2>4. \A m \in Msgs : ~(m <= 0)
    BY TurnsNat DEF None
  <2> QED
    BY <2>1, <2>2, <2>3, <2>4 DEF WrittenBy
<1>7. Before /\ CutOff
    BY TurnsNat DEF Before, CutOff, NoCut, Blank, None
<1> QED
    BY <1>1, <1>2, <1>3, <1>4, <1>5, <1>6, <1>7, InitHeld, TypeParts DEF TypeInv, AnswersOK

\* Elements of a list.
LEMMA HeadIn == ASSUME NEW T, NEW s \in Seq(T), s # <<>> PROVE Head(s) \in ToSet(s)
<1>1. Len(s) \in Nat /\ DOMAIN s = 1 .. Len(s) /\ Len(s) # 0
    BY LenProperties, EmptySeq
<1>2. Head(s) = s[1] /\ 1 \in DOMAIN s
    BY <1>1, HeadTailProperties
<1> QED
    BY <1>2 DEF ToSet

LEMMA SetOfSeq == ASSUME NEW T, NEW s \in Seq(T) PROVE ToSet(s) \subseteq T
  BY LenProperties DEF ToSet

LEMMA AppendSet ==
    ASSUME NEW T, NEW s \in Seq(T), NEW e \in T
    PROVE  Append(s, e) \in Seq(T) /\ ToSet(Append(s, e)) = ToSet(s) \cup {e}
<1> DEFINE g == Append(s, e)
<1>1. /\ g \in Seq(T) /\ Len(g) = Len(s) + 1 /\ Len(s) \in Nat
      /\ \A j \in 1 .. Len(s) : g[j] = s[j]
      /\ g[Len(s) + 1] = e
    BY AppendProperties, LenProperties
<1>2. DOMAIN g = 1 .. Len(s) + 1 /\ DOMAIN s = 1 .. Len(s)
    BY <1>1, LenProperties
<1> HIDE DEF g
<1>3. ASSUME NEW j \in DOMAIN g PROVE g[j] \in ToSet(s) \cup {e}
  <2>1. CASE j \in 1 .. Len(s)
    BY <1>1, <1>2, <2>1 DEF ToSet
  <2>2. CASE j = Len(s) + 1
    BY <1>1, <2>2
  <2> QED
    BY <1>1, <1>2, <2>1, <2>2
<1>4. \A j \in DOMAIN s : j \in DOMAIN g /\ g[j] = s[j]
    BY <1>1, <1>2
<1>5. Len(s) + 1 \in DOMAIN g
    BY <1>1, <1>2
<1>6. ToSet(g) \subseteq ToSet(s) \cup {e}
    BY <1>3 DEF ToSet
<1>7. ToSet(s) \subseteq ToSet(g)
    BY <1>4 DEF ToSet
<1>8. e \in ToSet(g)
    BY <1>1, <1>5 DEF ToSet
<1> QED
    BY <1>1, <1>6, <1>7, <1>8 DEF g

-----------------------------------------------------------------------------
\* The chat gets a turn.
LEMMA RegisterTypes ==
    ASSUME TypeInv, NEW r \in Turn, Register(r), r.parent \in 0 .. n, r.root \in 1 .. n + 1,
           UNCHANGED <<off, job, handed>>
    PROVE  /\ TurnsOK' /\ StagesOK' /\ Before'
           /\ total' \in [Turns -> Int] /\ active' \in Turns \cup {None}
           /\ bg' \in [Agents -> Turns \cup {None}]
<1>1. n \in Nat /\ n + 1 \in Turns /\ n + 1 <= MaxTurns /\ n' = n + 1
    BY TurnsNat DEF Register, TypeInv, TypeOK, Turns
<1>2. r # Blank
    BY TurnsNat DEF Turn, Blank
<1>3. turn' = [turn EXCEPT ![n + 1] = r]
    BY DEF Register
<1>4. TurnsOK'
  <2>1. turn' \in [Turns -> Turn \cup {Blank}]
    BY <1>3 DEF TypeInv, TypeOK
  <2>2. \A t \in Turns : turn'[t] = IF t = n + 1 THEN r ELSE turn[t]
    BY <1>3 DEF TypeInv, TypeOK
  <2>3. \A t \in Turns : (turn[t] = Blank) <=> n < t
    BY DEF TypeInv, TypeOK
  <2>4. \A t \in Turns : (turn'[t] = Blank) <=> n' < t
    BY <1>1, <1>2, <2>2, <2>3, TurnsNat
  <2> QED
    BY <1>1, <2>1, <2>4, TurnsNat DEF TurnsOK
<1>5. StagesOK'
  <2>1. stage' \in [Turns -> Stages]
    BY DEF Register, TypeInv, TypeOK, Stages
  <2>2. stage'[n + 1] # "none"
    BY <1>1 DEF Register
  <2>3. ASSUME NEW u \in Turns, u # n + 1 PROVE stage'[u] = "none" <=> n' < u
    <3>1. CASE u = r.parent
      <4>1. stage'[u] = "started"
        BY <2>3, <3>1 DEF Register
      <4> QED
        BY <1>1, <3>1, <4>1, TurnsNat
    <3>2. CASE u # r.parent
      <4>1. stage'[u] = stage[u]
        BY <2>3, <3>2 DEF Register
      <4> QED
        BY <1>1, <2>3, <4>1, TurnsNat DEF TypeInv, TypeOK
    <3> QED
      BY <3>1, <3>2
  <2> QED
    BY <1>1, <2>1, <2>2, <2>3, TurnsNat DEF StagesOK
<1>6. Before'
  <2>1. \A t \in Turns : turn'[t] = IF t = n + 1 THEN r ELSE turn[t]
    BY <1>3 DEF TypeInv, TypeOK
  <2> QED
    BY <1>1, <2>1, TurnsNat DEF TypeInv, Before
<1>7. total' \in [Turns -> Int]
  <2>1. r.root \in Turns
    BY DEF Turn
  <2>2. total[r.root] + 1 \in Int
    BY <2>1 DEF TypeInv, TypeOK
  <2> QED
    BY <2>2 DEF Register, TypeInv, TypeOK
<1>8. active' \in Turns \cup {None} /\ bg' \in [Agents -> Turns \cup {None}]
    BY <1>1 DEF Register, TypeInv, TypeOK
<1> QED
    BY <1>4, <1>5, <1>6, <1>7, <1>8

LEMMA BeginTypes ==
    ASSUME TypeInv, NEW as \in Callable, NEW who \in People, NEW from \in People \cup {"sender", "office"},
           NEW parts \in Seq(Msgs), Begin(as, who, from, parts)
    PROVE  AnswersOK' /\ Before'
<1> DEFINE r == [agent |-> Head(as), bg |-> FALSE, by |-> NoOne, root |-> n + 1, actor |-> who,
                 queue |-> Tail(as), from |-> from, parent |-> None, parts |-> parts]
<1>1. Register(r) /\ UNCHANGED <<off, job, todo, handed, hops>>
    BY DEF Begin
<1>2. n \in Nat /\ n + 1 \in Turns
    BY TurnsNat DEF Begin, Register, TypeInv, TypeOK, Turns
<1>3. r \in Turn
    BY <1>2, CallableSeq DEF Turn
<1>4. r.parent \in 0 .. n /\ r.root \in 1 .. n + 1
    BY <1>2 DEF None
<1> HIDE DEF r
<1>5. TurnsOK' /\ StagesOK' /\ Before' /\ total' \in [Turns -> Int] /\ active' \in Turns \cup {None}
      /\ bg' \in [Agents -> Turns \cup {None}]
    BY <1>1, <1>3, <1>4, RegisterTypes
<1>6. ListsOK'
    BY <1>1, <1>5 DEF ListsOK, TypeInv, TypeOK
<1> QED
    BY <1>5, <1>6 DEF AnswersOK

Types == TypeOK /\ WrittenBy /\ Before /\ CutOff

LEMMA NextTypes ==
    (ChatOK /\ CallersOK /\ AnswersOK /\ LifeOK /\ WrittenBy /\ Before /\ CutOff)' => Types'
  BY DEF Types, TypeOK, ChatOK, CallersOK, AnswersOK, TurnsOK, StagesOK, ListsOK, LifeOK

LEMMA SameChat == ASSUME ChatOK, UNCHANGED chat PROVE ChatOK'
  BY DEF ChatOK, chat
LEMMA SameAnswers == ASSUME AnswersOK, Before, UNCHANGED answers PROVE AnswersOK' /\ Before'
  BY DEF AnswersOK, TurnsOK, StagesOK, ListsOK, Before, answers
LEMMA SameLife == ASSUME LifeOK, CutOff, UNCHANGED life PROVE LifeOK' /\ CutOff'
  BY DEF LifeOK, CutOff, life

\* People write.
LEMMA WriteTypes ==
    ASSUME TypeInv, NEW p \in People, Write(p)
    PROVE  Types'
<1>1. ChatOK /\ CallersOK /\ AnswersOK /\ LifeOK /\ WrittenBy /\ Before /\ CutOff
    BY TypeParts DEF TypeInv
<1>2. AnswersOK' /\ Before' /\ LifeOK' /\ CutOff'
    BY <1>1, SameAnswers, SameLife DEF Write
<1>3. written \in Nat /\ written + 1 \in Msgs /\ written' = written + 1 /\ written' \in 0 .. MaxMsgs
    BY <1>1, TurnsNat DEF Write, ChatOK, Msgs
<1>4. author' = [author EXCEPT ![written + 1] = p] /\ UNCHANGED <<waiting, log, told, taken, sender, senders>>
      /\ req' = [req EXCEPT ![p] = [at |-> "active", m |-> written + 1]]
    BY DEF Write
<1>5. ChatOK'
  <2>1. PICK s \in TagLists : tags' = [tags EXCEPT ![written + 1] = s]
    BY DEF Write
  <2>2. s \in Seq(Agents)
    <3>1. PICK k \in 0 .. MaxTags : s \in [1 .. k -> Agents]
      BY Zenon DEF TagLists, BoundedSeq, SeqOf
    <3>2. k \in Nat
      BY BoundAssumption
    <3> QED
      BY <3>1, <3>2, SeqDef
  <2> QED
    BY <1>1, <1>3, <1>4, <2>1, <2>2 DEF ChatOK
<1>6. CallersOK'
    BY <1>1, <1>3, <1>4 DEF CallersOK
<1>7. WrittenBy'
  <2>1. \A m \in Msgs : m <= written' => author'[m] \in People
    BY <1>1, <1>3, <1>4, TurnsNat DEF WrittenBy, ChatOK
  <2>2. \A q \in People : req'[q].at # "idle" => req'[q].m \in 1 .. written'
    BY <1>1, <1>3, <1>4 DEF WrittenBy, CallersOK
  <2> QED
    BY <1>1, <1>3, <1>4, <2>1, <2>2 DEF WrittenBy
<1> QED
    BY <1>2, <1>5, <1>6, <1>7, NextTypes

LEMMA LookTypes ==
    ASSUME TypeInv, NEW p \in People, LookActive(p) \/ LookQueued(p)
    PROVE  Types'
<1>1. ChatOK /\ CallersOK /\ AnswersOK /\ LifeOK /\ WrittenBy /\ Before /\ CutOff
    BY TypeParts DEF TypeInv
<1>2. AnswersOK' /\ Before' /\ LifeOK' /\ CutOff' /\ ChatOK'
    BY <1>1, SameAnswers, SameLife, SameChat DEF LookActive, LookQueued
<1>3. /\ \E l \in {"queue", "queued", "send"} : req' = [req EXCEPT ![p].at = l]
      /\ req[p].at # "idle" /\ UNCHANGED <<sender, senders>>
    BY DEF LookActive, LookQueued, GoTo, At
<1>4. CallersOK'
    BY <1>1, <1>3 DEF CallersOK
<1>5. WrittenBy'
    BY <1>1, <1>3 DEF WrittenBy, CallersOK, LookActive, LookQueued, chat
<1> QED
    BY <1>2, <1>4, <1>5, NextTypes

LEMMA SendTypes ==
    ASSUME TypeInv, NEW p \in People, Send(p)
    PROVE  Types'
<1>1. ChatOK /\ CallersOK /\ AnswersOK /\ LifeOK /\ WrittenBy /\ Before /\ CutOff
    BY TypeParts DEF TypeInv
<1>2. LifeOK' /\ CutOff' /\ ChatOK'
    BY <1>1, SameLife, SameChat DEF Send
<1>3. PICK as \in Callable :
          \/ Begin(as, p, p, <<req[p].m>>) /\ GoTo(p, "sending")
          \/ UNCHANGED answers /\ (GoTo(p, "queue") \/ req' = [req EXCEPT ![p] = NoRequest])
    BY DEF Send
<1>4. req[p].at # "idle" /\ req[p].m \in Msgs /\ <<req[p].m>> \in Seq(Msgs)
  <2>1. req[p].at = "send" /\ req[p].m \in 1 .. written /\ written <= MaxMsgs /\ written \in Nat
    <3>1. req[p].at = "send"
      BY DEF Send, At
    <3> QED
      BY <1>1, <3>1, BoundAssumption DEF WrittenBy, ChatOK
  <2> QED
    BY <2>1, TurnsNat DEF Msgs
<1>5. AnswersOK' /\ Before'
    BY <1>1, <1>3, <1>4, BeginTypes, SameAnswers
<1>6. CallersOK' /\ WrittenBy'
  <2>1. \/ \E l \in {"queue", "sending"} : req' = [req EXCEPT ![p].at = l]
        \/ req' = [req EXCEPT ![p] = NoRequest]
    BY <1>3 DEF GoTo
  <2>2. UNCHANGED <<chat, sender, senders>>
    BY DEF Send
  <2>3. CallersOK'
    BY <1>1, <2>1, <2>2 DEF CallersOK, NoRequest
  <2>4. WrittenBy'
    BY <1>1, <1>4, <2>1, <2>2 DEF WrittenBy, CallersOK, NoRequest, chat
  <2> QED
    BY <2>3, <2>4
<1> QED
    BY <1>2, <1>5, <1>6, NextTypes

LEMMA QueueTypes ==
    ASSUME TypeInv, NEW p \in People, Queue(p)
    PROVE  Types'
<1>1. ChatOK /\ CallersOK /\ AnswersOK /\ LifeOK /\ WrittenBy /\ Before /\ CutOff
    BY TypeParts DEF TypeInv
<1>2. AnswersOK' /\ Before' /\ LifeOK' /\ CutOff'
    BY <1>1, SameLife, SameAnswers DEF Queue
<1>3. /\ waiting' = Append(waiting, req[p].m) /\ req' = [req EXCEPT ![p] = NoRequest]
      /\ senders' = senders + 1 /\ UNCHANGED <<written, author, tags, log, told, taken, sender>>
    BY DEF Queue
<1>4. req[p].m \in 1 .. written /\ req[p].m \in Msgs
  <2>1. req[p].at = "queue" /\ req[p].m \in 1 .. written /\ written <= MaxMsgs /\ written \in Nat
    BY <1>1, BoundAssumption DEF Queue, At, WrittenBy, ChatOK
  <2> QED
    BY <2>1, TurnsNat DEF Msgs
<1>5. waiting' \in Seq(Msgs) /\ ToSet(waiting') = ToSet(waiting) \cup {req[p].m}
    BY <1>1, <1>3, <1>4, AppendSet DEF ChatOK
<1>6. ChatOK' /\ CallersOK'
    BY <1>1, <1>3, <1>5 DEF ChatOK, CallersOK, NoRequest
<1>7. WrittenBy'
    BY <1>1, <1>3, <1>4, <1>5 DEF WrittenBy, CallersOK, NoRequest
<1> QED
    BY <1>2, <1>6, <1>7, NextTypes

LEMMA UnqueueTypes ==
    ASSUME TypeInv, Unqueue
    PROVE  Types'
<1>1. ChatOK /\ CallersOK /\ AnswersOK /\ LifeOK /\ WrittenBy /\ Before /\ CutOff
    BY TypeParts DEF TypeInv
<1>2. AnswersOK' /\ Before' /\ LifeOK' /\ CutOff'
    BY <1>1, SameLife, SameAnswers DEF Unqueue
<1>3. UNCHANGED <<written, author, tags, log, told, req, sender, senders>>
    BY DEF Unqueue, callers
<1>4. PICK M \in SUBSET ToSet(waiting) : taken' = taken \cup M /\ waiting' = Without(waiting, M)
    BY DEF Unqueue
<1>5. waiting' \in Seq(Msgs) /\ ToSet(waiting') \subseteq ToSet(waiting)
    BY <1>1, <1>4, WithoutProperties DEF ChatOK
<1>6. ToSet(waiting) \subseteq Msgs
    BY <1>1, SetOfSeq DEF ChatOK
<1>7. ChatOK' /\ CallersOK' /\ WrittenBy'
    BY <1>1, <1>3, <1>4, <1>5, <1>6 DEF ChatOK, CallersOK, WrittenBy
<1> QED
    BY <1>2, <1>7, NextTypes

\* What the sender holds.
Senders == [at : {"idle", "list", "send", "sending", "delete"}, list : Seq(Msgs)]
LEMMA SenderRecords ==
    ASSUME NEW s \in Senders, NEW l \in {"idle", "list", "send", "sending", "delete"}
    PROVE  /\ NoSender \in Senders
           /\ [s EXCEPT !.at = l] \in Senders /\ [s EXCEPT !.at = l].at = l
           /\ [s EXCEPT !.at = l].list = s.list
<1>1. <<>> \in Seq(Msgs)
    BY EmptySeq
<1> QED
    BY <1>1 DEF Senders, NoSender

LEMMA SenderSteps ==
    ASSUME TypeInv, SenderActive \/ SenderList \/ SenderDelete
    PROVE  Types'
<1>1. ChatOK /\ CallersOK /\ AnswersOK /\ LifeOK /\ WrittenBy /\ Before /\ CutOff
    BY TypeParts DEF TypeInv
<1>2. AnswersOK' /\ Before' /\ LifeOK' /\ CutOff'
    BY <1>1, SameLife, SameAnswers DEF SenderActive, SenderList, SenderDelete
<1>3. ToSet(<<>>) = {}
    BY DEF ToSet
<1>4. CASE SenderActive
  <2>1. UNCHANGED <<chat, req>> /\ senders' = senders - 1 /\ senders > 0
        /\ (sender' = sender \/ (sender.at = "idle" /\ sender' = [sender EXCEPT !.at = "list"]))
    BY <1>4 DEF SenderActive
  <2>2. ChatOK'
    BY <1>1, <2>1, SameChat
  <2>3. CallersOK'
    BY <1>1, <2>1 DEF CallersOK
  <2>4. WrittenBy'
    BY <1>1, <2>1 DEF WrittenBy, CallersOK, chat
  <2> QED
    BY <1>2, <2>2, <2>3, <2>4, NextTypes
<1>5. CASE SenderList
  <2>1. UNCHANGED <<chat, req, senders>>
    BY <1>5 DEF SenderList
  <2>2. sender' = NoSender \/ (waiting # <<>> /\ sender' = [at |-> "send", list |-> waiting])
    BY <1>5 DEF SenderList
  <2>3. ChatOK'
    BY <1>1, <2>1, SameChat
  <2>4. CallersOK'
    <3>1. sender \in Senders /\ waiting \in Seq(Msgs)
      BY <1>1 DEF CallersOK, ChatOK, Senders
    <3>2. [at |-> "send", list |-> waiting] \in Senders
      BY <3>1 DEF Senders
    <3>3. sender' \in Senders
      BY <2>2, <3>1, <3>2, SenderRecords
    <3> QED
      BY <1>1, <2>1, <3>3 DEF CallersOK, Senders
  <2>5. WrittenBy'
    BY <1>1, <1>3, <2>1, <2>2 DEF WrittenBy, NoSender, chat
  <2> QED
    BY <1>2, <2>3, <2>4, <2>5, NextTypes
<1>6. CASE SenderDelete
  <2>1. UNCHANGED <<written, author, tags, log, told, taken, req, senders>> /\ sender' = NoSender
    BY <1>6 DEF SenderDelete
  <2>2. waiting' = Without(waiting, {m \in ToSet(waiting) : Dropped(m)})
    BY <1>6 DEF SenderDelete
  <2>3. waiting' \in Seq(Msgs) /\ ToSet(waiting') \subseteq ToSet(waiting)
    BY <1>1, <2>2, WithoutProperties DEF ChatOK
  <2>4. ChatOK' /\ CallersOK'
    BY <1>1, <2>1, <2>3, EmptySeq DEF ChatOK, CallersOK, NoSender
  <2>5. WrittenBy'
    BY <1>1, <1>3, <2>1, <2>3 DEF WrittenBy, NoSender
  <2> QED
    BY <1>2, <2>4, <2>5, NextTypes
<1> QED
    BY <1>4, <1>5, <1>6

LEMMA SenderSendTypes == ASSUME TypeInv, SenderSend PROVE Types'
<1>1. ChatOK /\ CallersOK /\ AnswersOK /\ LifeOK /\ WrittenBy /\ Before /\ CutOff
    BY TypeParts DEF TypeInv
<1>2. LifeOK' /\ CutOff'
    BY <1>1, SameLife DEF SenderSend
<1>3. PICK as \in Callable :
          \/ /\ Begin(as, author[Head(sender.list)], "sender", sender.list)
             /\ sender' = [sender EXCEPT !.at = "sending"] /\ UNCHANGED told
          \/ /\ UNCHANGED answers
             /\ \/ sender' = NoSender /\ UNCHANGED told
                \/ sender' = [sender EXCEPT !.at = "delete"] /\ told' = told \cup ToSet(sender.list)
    BY DEF SenderSend
<1>4. sender.at = "send" /\ sender.list \in Seq(Msgs) /\ sender.list # <<>>
      /\ UNCHANGED <<written, author, tags, waiting, log, taken, req, senders>>
    BY <1>1 DEF SenderSend, WrittenBy, CallersOK
<1>5. ToSet(sender.list) \subseteq Msgs
    BY <1>4, SetOfSeq
<1>6. author[Head(sender.list)] \in People
  <2>1. Head(sender.list) \in ToSet(sender.list)
    BY <1>4, HeadIn
  <2>2. Head(sender.list) \in 1 .. written /\ Head(sender.list) \in Msgs
    BY <1>1, <1>5, <2>1 DEF WrittenBy
  <2> QED
    BY <1>1, <2>2 DEF WrittenBy
<1>7. AnswersOK' /\ Before'
    BY <1>1, <1>3, <1>4, <1>6, BeginTypes, SameAnswers
<1>8. sender \in Senders
    BY <1>1 DEF CallersOK, Senders
<1>9. \/ sender' = NoSender
      \/ sender' \in Senders /\ sender'.list = sender.list
  <2>1. \/ sender' = NoSender \/ \E l \in {"sending", "delete"} : sender' = [sender EXCEPT !.at = l]
    BY <1>3
  <2>2. sender' = [sender EXCEPT !.at = "sending"] => sender' \in Senders /\ sender'.list = sender.list
    BY <1>8, SenderRecords DEF Senders
  <2>3. sender' = [sender EXCEPT !.at = "delete"] => sender' \in Senders /\ sender'.list = sender.list
    BY <1>8, SenderRecords DEF Senders
  <2> QED
    BY <2>1, <2>2, <2>3
<1>10. sender' \in Senders
    BY <1>8, <1>9, SenderRecords
<1>11. told' \subseteq Msgs
    BY <1>1, <1>3, <1>5 DEF ChatOK
<1>12. ChatOK' /\ CallersOK'
    BY <1>1, <1>4, <1>10, <1>11 DEF ChatOK, CallersOK, Senders
<1>13. ToSet(sender'.list) \subseteq 1 .. written
  <2>1. ToSet(<<>>) = {}
    BY DEF ToSet
  <2> QED
    BY <1>1, <1>4, <1>9, <2>1 DEF WrittenBy, NoSender
<1>14. sender'.at = "send" => sender'.list # <<>>
    BY <1>4, <1>9 DEF NoSender
<1>15. WrittenBy'
    BY <1>1, <1>4, <1>13, <1>14 DEF WrittenBy
<1> QED
    BY <1>2, <1>7, <1>15, <1>12, NextTypes

-----------------------------------------------------------------------------
(* A turn goes on. *)

\* The steps of a turn that leave the chat alone, and move no other turn than
\* it and its parent.
LEMMA StageMoved ==
    ASSUME StagesOK, TurnsOK, Before, NEW t \in Turns, stage[t] # "none",
           NEW s \in Stages \ {"none"}, UNCHANGED n,
           \/ stage' = [stage EXCEPT ![t] = s]
           \/ \E q \in Stages \ {"none"} : stage' = [stage EXCEPT ![t] = s, ![turn[t].parent] = q]
    PROVE  StagesOK'
<1>1. CASE stage' = [stage EXCEPT ![t] = s]
    BY <1>1 DEF StagesOK
<1>2. ASSUME NEW q \in Stages \ {"none"}, stage' = [stage EXCEPT ![t] = s, ![turn[t].parent] = q]
      PROVE  StagesOK'
  <2>1. turn[t].parent \in 0 .. n /\ n \in Nat
    BY TurnsNat DEF Before, TurnsOK
  <2>2. \A u \in Turns : stage'[u] = stage[u] \/ (u = t /\ stage'[u] # "none") \/ (u \in 0 .. n /\ stage'[u] # "none")
    BY <1>2, <2>1 DEF StagesOK
  <2>3. stage' \in [Turns -> Stages]
    BY <1>2 DEF StagesOK
  <2>4. ~(n < t)
    BY DEF StagesOK
  <2>5. \A u \in Turns : u \in 0 .. n => stage[u] # "none"
    BY <2>1, TurnsNat DEF StagesOK
  <2>6. \A u \in Turns : (stage'[u] = "none") <=> (stage[u] = "none")
    BY <2>2, <2>5
  <2> QED
    BY <2>3, <2>6 DEF StagesOK
<1> QED
    BY <1>1, <1>2

LEMMA StoreTypes == ASSUME TypeInv, NEW t \in Turns, StoreMessage(t) PROVE Types'
<1>1. ChatOK /\ CallersOK /\ AnswersOK /\ LifeOK /\ WrittenBy /\ Before /\ CutOff
    BY TypeParts DEF TypeInv
<1>2. stage[t] = "begun" /\ log' = Append(log, [by |-> turn[t].actor, parts |-> turn[t].parts])
      /\ stage' = [stage EXCEPT ![t] = "stored"] /\ UNCHANGED callers /\ UNCHANGED life
      /\ UNCHANGED <<written, author, tags, waiting, told, taken>>
      /\ UNCHANGED <<n, turn, off, job, todo, handed, hops, total, active, bg>>
    BY DEF StoreMessage
<1>3. turn[t] \in Turn
  <2>1. ~(n < t)
    BY <1>1, <1>2 DEF AnswersOK, StagesOK
  <2> QED
    BY <1>1, <2>1 DEF AnswersOK, TurnsOK
<1>4. log' \in Seq([by : People, parts : Seq(Msgs)])
  <2>1. [by |-> turn[t].actor, parts |-> turn[t].parts] \in [by : People, parts : Seq(Msgs)]
    BY <1>3 DEF Turn
  <2> QED
    BY <1>1, <1>2, <2>1, AppendProperties DEF ChatOK
<1>5. ChatOK' /\ CallersOK' /\ WrittenBy'
    BY <1>1, <1>2, <1>4 DEF ChatOK, CallersOK, WrittenBy, callers
<1>6. LifeOK' /\ CutOff' /\ Before'
    BY <1>1, <1>2, SameLife DEF Before
<1>7. StagesOK'
  <2>1. "stored" \in Stages \ {"none"} /\ stage[t] # "none" /\ StagesOK /\ TurnsOK /\ UNCHANGED n
    BY <1>1, <1>2 DEF Stages, AnswersOK
  <2> QED
    BY <1>1, <1>2, <2>1, StageMoved
<1>8. AnswersOK'
    BY <1>1, <1>2, <1>7 DEF AnswersOK, TurnsOK, ListsOK
<1> QED
    BY <1>5, <1>6, <1>8, NextTypes

\* Where office is while a turn goes on: only BeginJob changes it.
LEMMA BeginJobTypes == ASSUME TypeInv, NEW t \in Turns, BeginJob(t) PROVE Types'
<1>1. ChatOK /\ CallersOK /\ AnswersOK /\ LifeOK /\ WrittenBy /\ Before /\ CutOff
    BY TypeParts DEF TypeInv
<1>2. /\ stage[t] = "stored" /\ stage' = [stage EXCEPT ![t] = "answering"]
      /\ job' = [job EXCEPT ![t] = "running"]
      /\ UNCHANGED <<chat, senders, n, turn, off, todo, handed, hops, total, active, bg, cut, stops, downs>>
    BY DEF BeginJob
<1>3. /\ req' = req \/ \E p \in People : req' = [req EXCEPT ![p] = NoRequest]
      /\ sender' = sender \/ sender' = [sender EXCEPT !.at = "delete"]
      /\ office' = office \/ office' = "resumed"
    BY DEF BeginJob
<1>4. sender' \in Senders /\ sender'.list = sender.list /\ (sender'.at = "send" => sender.at = "send")
    BY <1>1, <1>3, SenderRecords DEF CallersOK, Senders
<1>5. ChatOK' /\ LifeOK' /\ CutOff'
    BY <1>1, <1>2, <1>3, SameChat DEF LifeOK, CutOff, Phases
<1>6. CallersOK'
    BY <1>1, <1>2, <1>3, <1>4 DEF CallersOK, Senders, NoRequest
<1>7. WrittenBy'
    BY <1>1, <1>2, <1>3, <1>4 DEF WrittenBy, CallersOK, chat, NoRequest
<1>8. StagesOK' /\ t <= n
  <2>1. "answering" \in Stages \ {"none"} /\ stage[t] # "none" /\ StagesOK /\ TurnsOK /\ UNCHANGED n
    BY <1>1, <1>2 DEF Stages, AnswersOK
  <2>2. t <= n
    BY <2>1, TurnsNat DEF StagesOK, TurnsOK
  <2> QED
    BY <1>1, <1>2, <2>1, <2>2, StageMoved
<1>9. AnswersOK' /\ Before'
    BY <1>1, <1>2, <1>8 DEF AnswersOK, TurnsOK, ListsOK, Before
<1> QED
    BY <1>5, <1>6, <1>7, <1>9, NextTypes

LEMMA FinishTypes ==
    ASSUME ListsOK, CallersOK, NEW t \in Turns, Finish(t)
    PROVE  active' \in Turns \cup {None} /\ bg' \in [Agents -> Turns \cup {None}] /\ senders' \in Nat
  BY DEF Finish, ListsOK, CallersOK

LEMMA BeginJobNextTypes == ASSUME TypeInv, NEW t \in Turns, BeginJobNext(t) PROVE Types'
<1>1. ChatOK /\ CallersOK /\ AnswersOK /\ LifeOK /\ WrittenBy /\ Before /\ CutOff
    BY TypeParts DEF TypeInv
<1>2. ListsOK /\ StagesOK /\ TurnsOK
    BY <1>1 DEF AnswersOK
<1>3. stage[t] = "stored" /\ UNCHANGED <<chat, req, sender, n, turn, off, handed, life>>
    BY DEF BeginJobNext
<1>4. ChatOK' /\ LifeOK' /\ CutOff' /\ WrittenBy'
    BY <1>1, <1>3, SameChat, SameLife DEF WrittenBy, chat
<1>5. t <= n /\ n \in Nat
    BY <1>2, <1>3, TurnsNat DEF StagesOK, TurnsOK
<1>6. StagesOK'
  <2>1. \E s \in Stages \ {"none"}, q \in Stages \ {"none"} : stage' = [stage EXCEPT ![t] = s, ![turn[t].parent] = q]
    BY DEF BeginJobNext, Began, GaveWay, Stages
  <2> QED
    BY <1>1, <1>2, <1>3, <2>1, StageMoved
<1>7. CASE off[t] = "no"
  <2>1. job' = [job EXCEPT ![t] = "running"] /\ UNCHANGED <<total, active, bg, senders>>
        /\ (\/ hops' = [hops EXCEPT ![turn[t].parent] = @ + 1] /\ todo' = todo
            \/ hops' = hops /\ todo' = [todo EXCEPT ![turn[t].parent] = <<>>])
    BY <1>7 DEF BeginJobNext, Began
  <2>2. hops' \in [Turns -> Nat] /\ todo' \in [Turns -> Seq([kind : Kinds, agent : Agents])]
    <3>1. hops' \in [Turns -> Nat]
      <4>1. CASE turn[t].parent \in Turns
        <5>1. hops[turn[t].parent] + 1 \in Nat
          BY <1>2, <4>1 DEF ListsOK
        <5> QED
          BY <1>2, <2>1, <5>1 DEF ListsOK
      <4>2. CASE turn[t].parent \notin Turns
        <5>1. hops' = hops
          BY <1>2, <2>1, <4>2 DEF ListsOK
        <5> QED
          BY <1>2, <5>1 DEF ListsOK
      <4> QED
        BY <4>1, <4>2
    <3>2. <<>> \in Seq([kind : Kinds, agent : Agents])
      BY EmptySeq
    <3>3. todo' \in [Turns -> Seq([kind : Kinds, agent : Agents])]
      BY <1>2, <2>1, <3>2 DEF ListsOK
    <3> QED
      BY <3>1, <3>3
  <2>3. ListsOK' /\ CallersOK' /\ Before'
    BY <1>1, <1>2, <1>3, <1>5, <2>1, <2>2 DEF ListsOK, CallersOK, Before
  <2> QED
    BY <1>2, <1>3, <1>4, <1>6, <2>3, NextTypes DEF AnswersOK, TurnsOK
<1>8. CASE off[t] # "no"
  <2>1. total' = [total EXCEPT ![turn[t].root] = @ - 1] /\ Finish(t) /\ UNCHANGED <<job, todo, hops>>
    BY <1>8 DEF BeginJobNext
  <2>2. total' \in [Turns -> Int]
    <3>1. \A u \in Turns : total[u] \in Int /\ total[u] - 1 \in Int
      BY <1>2 DEF ListsOK
    <3> QED
      BY <1>2, <2>1, <3>1 DEF ListsOK
  <2>3. ListsOK' /\ CallersOK' /\ Before'
    BY <1>1, <1>2, <1>3, <2>1, <2>2, FinishTypes DEF ListsOK, CallersOK, Before
  <2> QED
    BY <1>2, <1>3, <1>4, <1>6, <2>3, NextTypes DEF AnswersOK, TurnsOK
<1> QED
    BY <1>7, <1>8

\* The other steps leave the chat, its people and its sender alone.
LEMMA OtherTypes ==
    ASSUME TypeInv, NEW t \in Turns, UNCHANGED <<chat, req, sender, n, turn, off, total, life>>,
           stage[t] # "none", NEW s \in Stages \ {"none"}, stage' = [stage EXCEPT ![t] = s],
           job' = job \/ job' = [job EXCEPT ![t] = "ended"], hops' = hops, senders' \in Nat,
           todo' \in [Turns -> Seq(StartSpec)], handed' \in [Turns -> Seq(Agents)],
           active' \in Turns \cup {None}, bg' \in [Agents -> Turns \cup {None}]
    PROVE  Types'
<1>1. ChatOK /\ CallersOK /\ AnswersOK /\ LifeOK /\ WrittenBy /\ Before /\ CutOff
    BY TypeParts DEF TypeInv
<1>2. ListsOK /\ StagesOK /\ TurnsOK
    BY <1>1 DEF AnswersOK
<1>3. t <= n /\ StagesOK'
    BY <1>1, <1>2, StageMoved, TurnsNat DEF StagesOK, TurnsOK
<1>4. ChatOK' /\ LifeOK' /\ CutOff' /\ WrittenBy' /\ CallersOK'
    BY <1>1, SameChat, SameLife DEF WrittenBy, chat, CallersOK
<1>5. ListsOK' /\ Before'
    BY <1>1, <1>2, <1>3 DEF ListsOK, Before, StartSpec
<1> QED
    BY <1>2, <1>3, <1>4, <1>5, NextTypes DEF AnswersOK, TurnsOK

LEMMA StartTurnTypes == ASSUME TypeInv, NEW t \in Turns, StartTurn(t) PROVE Types'
<1>1. ChatOK /\ CallersOK /\ AnswersOK /\ LifeOK /\ WrittenBy /\ Before /\ CutOff
    BY TypeParts DEF TypeInv
<1>2. ListsOK /\ StagesOK /\ TurnsOK
    BY <1>1 DEF AnswersOK
<1> DEFINE s == Head(todo[t])
           hand == s.kind = "hand"
           rest == IF s.kind = "tagged" THEN [i \in DOMAIN Tail(todo[t]) |-> Tail(todo[t])[i].agent] ELSE <<>>
           r == [agent |-> s.agent, bg |-> hand, by |-> IF hand THEN turn[t].agent ELSE NoOne,
                 root |-> turn[t].root, actor |-> turn[t].actor, queue |-> rest,
                 from |-> "turn", parent |-> t, parts |-> <<>>]
<1>3. /\ stage[t] = "start" /\ todo[t] # <<>> /\ todo[t] \in Seq(StartSpec)
      /\ UNCHANGED <<chat, callers, off, job, handed, life>>
    BY DEF StartTurn, TypeInv, HeldInv, Starting, TypedLists
<1>4. \/ /\ Register(r) /\ hops' = [hops EXCEPT ![n + 1] = IF hand THEN hops[t] + 1 ELSE hops[t]]
      \/ stage' = [stage EXCEPT ![t] = "next"] /\ UNCHANGED <<n, turn, hops, total, active, bg>>
    BY DEF StartTurn
<1>5. t <= n /\ turn[t] \in Turn /\ n \in Nat
    BY <1>2, <1>3, TurnsNat DEF StagesOK, TurnsOK
<1>6. s \in StartSpec /\ rest \in Seq(Agents)
    BY <1>3, HeadTailProperties, RestSeq, EmptySeq
<1>7. r \in Turn
  <2>1. <<>> \in Seq(Msgs)
    BY EmptySeq
  <2>2. s.agent \in Agents /\ hand \in BOOLEAN
    BY <1>6 DEF StartSpec
  <2>3. turn[t].agent \in Agents /\ turn[t].root \in Turns /\ turn[t].actor \in People
    BY <1>5 DEF Turn
  <2> HIDE DEF hand, rest, s
  <2> QED
    BY <1>6, <2>1, <2>2, <2>3 DEF Turn
<1>8. r.parent \in 0 .. n /\ r.root \in 1 .. n + 1
  <2>1. t \in 0 .. n /\ turn[t].root \in 1 .. n
    BY <1>1, <1>5, TurnsNat DEF Before
  <2>2. turn[t].root \in 1 .. n + 1
    BY <1>5, <2>1
  <2> HIDE DEF hand, rest, s
  <2> QED
    BY <2>1, <2>2
<1>9. todo' \in [Turns -> Seq(StartSpec)]
  <2>1. HeldInv'
    BY StartTurnHeld DEF TypeInv
  <2> QED
    BY <2>1 DEF HeldInv, TypedLists
<1>10. ChatOK' /\ LifeOK' /\ CutOff' /\ CallersOK' /\ WrittenBy'
    BY <1>1, <1>3, SameChat, SameLife DEF CallersOK, WrittenBy, chat, callers
<1>11. CASE Register(r) /\ hops' = [hops EXCEPT ![n + 1] = IF hand THEN hops[t] + 1 ELSE hops[t]]
  <2>1. hops' \in [Turns -> Nat]
    <3>1. hops[t] \in Nat /\ hops[t] + 1 \in Nat
      BY <1>2 DEF ListsOK
    <3> QED
      BY <1>2, <1>11, <3>1 DEF ListsOK
  <2> HIDE DEF r
  <2>2. TurnsOK' /\ StagesOK' /\ Before' /\ total' \in [Turns -> Int] /\ active' \in Turns \cup {None}
        /\ bg' \in [Agents -> Turns \cup {None}]
    BY <1>3, <1>7, <1>8, <1>11, RegisterTypes
  <2>3. ListsOK'
    BY <1>2, <1>3, <1>9, <2>1, <2>2 DEF ListsOK, StartSpec
  <2> QED
    BY <1>10, <2>2, <2>3, NextTypes DEF AnswersOK
<1>12. CASE stage' = [stage EXCEPT ![t] = "next"] /\ UNCHANGED <<n, turn, hops, total, active, bg>>
  <2>1. "next" \in Stages \ {"none"}
    BY DEF Stages
  <2>2. UNCHANGED <<req, sender, senders>> /\ senders' \in Nat
    BY <1>1, <1>3 DEF callers, CallersOK
  <2>3. active' \in Turns \cup {None} /\ bg' \in [Agents -> Turns \cup {None}] /\ handed' \in [Turns -> Seq(Agents)]
    BY <1>2, <1>3, <1>12 DEF ListsOK
  <2> QED
    BY <1>3, <1>9, <1>12, <2>1, <2>2, <2>3, OtherTypes
<1> QED
    BY <1>4, <1>11, <1>12

LEMMA GoesTypes ==
    ASSUME TypeInv, NEW t \in Turns, Goes(t) \/ \E a \in Agents : Delegate(t, a)
    PROVE  Types'
<1>1. ListsOK /\ CallersOK /\ TurnsOK /\ Before
    BY TypeParts DEF TypeInv, AnswersOK
<1>2. HeldInv'
    BY TurnHeld DEF TypeInv
<1>3. todo' \in [Turns -> Seq(StartSpec)] /\ handed' \in [Turns -> Seq(Agents)]
      /\ active' \in Turns \cup {None} /\ bg' \in [Agents -> Turns \cup {None}]
    BY <1>2 DEF HeldInv, TypedLists, TypedTurns
<1>4. senders \in Nat
    BY <1>1 DEF CallersOK
<1>5. CASE StoreMessage(t)
    BY <1>5, StoreTypes
<1>6. CASE BeginJob(t)
    BY <1>6, BeginJobTypes
<1>7. CASE BeginJobNext(t)
    BY <1>7, BeginJobNextTypes
<1>8. CASE StartTurn(t)
    BY <1>8, StartTurnTypes
<1>9. CASE EndTurn(t)
  <2>1. UNCHANGED <<chat, req, sender, n, turn, off, job, hops, total, life>> /\ stage[t] # "none"
        /\ stage' = [stage EXCEPT ![t] = "over"]
    BY <1>9 DEF EndTurn
  <2>2. senders' \in Nat
    BY <1>1, <1>9, FinishTypes DEF EndTurn
  <2>3. "over" \in Stages \ {"none"}
    BY DEF Stages
  <2> QED
    BY <1>3, <2>1, <2>2, <2>3, OtherTypes
<1>10. CASE AnswerEnd(t) \/ AnswerCut(t) \/ NextTurn(t) \/ MayStart(t) \/ \E a \in Agents : Delegate(t, a)
  <2>1. UNCHANGED <<chat, callers, n, turn, off, hops, total, life>> /\ stage[t] # "none"
        /\ (job' = job \/ job' = [job EXCEPT ![t] = "ended"])
    BY <1>10 DEF AnswerEnd, AnswerCut, NextTurn, MayStart, Delegate
  <2>2. stage' = stage \/ \E s \in {"ended", "next", "start"} : stage' = [stage EXCEPT ![t] = s]
    BY <1>10 DEF AnswerEnd, AnswerCut, NextTurn, MayStart, Delegate
  <2>3. stage = [stage EXCEPT ![t] = stage[t]] /\ stage[t] \in Stages \ {"none"}
    BY <2>1 DEF TypeInv, TypeOK
  <2>4. \E s \in Stages \ {"none"} : stage' = [stage EXCEPT ![t] = s]
    BY <2>2, <2>3 DEF Stages
  <2>5. UNCHANGED <<req, sender, senders>>
    BY <2>1 DEF callers
  <2> QED
    BY <1>3, <1>4, <2>1, <2>4, <2>5, OtherTypes
<1> QED
    BY <1>5, <1>6, <1>7, <1>8, <1>9, <1>10 DEF Goes

-----------------------------------------------------------------------------
(* Office. *)

LEMMA OfficeTypes ==
    ASSUME TypeInv, Stop \/ Shutdown \/ ShutdownTakes \/ FailRunning \/ SendAllQueued
    PROVE  Types'
<1>1. ChatOK /\ CallersOK /\ AnswersOK /\ LifeOK /\ WrittenBy /\ Before /\ CutOff
    BY TypeParts DEF TypeInv
<1>2. ListsOK /\ StagesOK /\ TurnsOK
    BY <1>1 DEF AnswersOK
<1>3. UNCHANGED <<chat, req, sender, n, turn, stage, todo, handed, hops, total, active, bg, downs>>
    BY DEF Stop, Shutdown, ShutdownTakes, FailRunning, SendAllQueued, callers, answers
<1>4. senders' \in Nat
    BY <1>1 DEF Stop, Shutdown, ShutdownTakes, FailRunning, SendAllQueued, callers, CallersOK
<1>5. off' \in [Turns -> {"no", "stopped", "cut"}]
  <2>1. UNCHANGED off \/ (\E T : TurnOff(T, "stopped")) \/ TurnOff(Registered, "cut")
    <3>1. Stop => \E T : TurnOff(T, "stopped")
      BY Zenon DEF Stop
    <3>2. ShutdownTakes => TurnOff(Registered, "cut")
      BY Zenon DEF ShutdownTakes
    <3>3. Shutdown \/ FailRunning \/ SendAllQueued => UNCHANGED off
      BY DEF Shutdown, FailRunning, SendAllQueued, answers
    <3> QED
      BY <3>1, <3>2, <3>3
  <2> QED
    BY <1>2, <2>1 DEF TurnOff, ListsOK
<1>6. job' = job \/ job' = [u \in Turns |-> IF job[u] = "running" THEN "ended" ELSE job[u]]
    BY DEF Stop, Shutdown, ShutdownTakes, FailRunning, SendAllQueued, answers
<1>7. job' \in [Turns -> {"none", "running", "ended"}] /\ \A u \in Turns : job'[u] # "none" => job[u] # "none"
    BY <1>2, <1>6 DEF ListsOK
<1>8. office' \in Phases /\ (cut' = cut \/ cut' = NoCut) /\ stops' \in Nat
    BY <1>1 DEF Stop, Shutdown, ShutdownTakes, FailRunning, SendAllQueued, answers, LifeOK, Phases
<1>9. LifeOK' /\ CutOff'
  <2>1. NoCut \in [who : People \cup {NoOne}, agents : Seq(Agents)] /\ NoCut.agents = <<>>
    BY EmptySeq DEF NoCut
  <2> QED
    BY <1>1, <1>3, <1>8, <2>1 DEF LifeOK, CutOff
<1>10. ChatOK' /\ CallersOK' /\ WrittenBy'
    BY <1>1, <1>3, <1>4, SameChat DEF CallersOK, WrittenBy, chat
<1>11. AnswersOK' /\ Before'
    BY <1>1, <1>2, <1>3, <1>5, <1>7 DEF AnswersOK, TurnsOK, StagesOK, ListsOK, Before
<1> QED
    BY <1>9, <1>10, <1>11, NextTypes

LEMMA DownTypes == ASSUME TypeInv, Down PROVE Types'
<1>1. ChatOK /\ CallersOK /\ AnswersOK /\ LifeOK /\ WrittenBy /\ Before /\ CutOff
    BY TypeParts DEF TypeInv
<1>2. ListsOK /\ StagesOK /\ TurnsOK
    BY <1>1 DEF AnswersOK
<1>3. UNCHANGED <<chat, n, turn, off, job, hops, total, stops>> /\ office' = "down" /\ downs' = downs + 1
      /\ downs < MaxDowns /\ cut' = NoCut /\ active' = None /\ bg' = [a \in Agents |-> None]
      /\ todo' = [t \in Turns |-> <<>>] /\ handed' = [t \in Turns |-> <<>>]
    BY DEF Down
<1>4. req' = [p \in People |-> NoRequest] /\ sender' = NoSender /\ senders' = 0
    BY DEF Down
<1>5. StagesOK'
    BY <1>2, <1>3 DEF Down, StagesOK, Stages
<1>6. ListsOK'
  <2>1. <<>> \in Seq([kind : Kinds, agent : Agents]) /\ <<>> \in Seq(Agents)
    BY EmptySeq
  <2> QED
    BY <1>2, <1>3, <2>1 DEF ListsOK
<1>7. LifeOK' /\ CutOff'
    BY <1>1, <1>3, BoundAssumption, EmptySeq DEF LifeOK, CutOff, NoCut, Phases
<1>8. CallersOK'
    BY <1>4, EmptySeq DEF CallersOK, NoRequest, NoSender
<1>9. WrittenBy'
  <2>1. ToSet(<<>>) = {}
    BY DEF ToSet
  <2> QED
    BY <1>1, <1>3, <1>4, <2>1 DEF WrittenBy, NoRequest, NoSender, chat
<1>10. ChatOK' /\ Before'
    BY <1>1, <1>3, SameChat DEF Before
<1> QED
    BY <1>2, <1>3, <1>5, <1>6, <1>7, <1>8, <1>9, <1>10, NextTypes DEF AnswersOK, TurnsOK

LEMMA ComesBackTypes == ASSUME TypeInv, ListRunning \/ ResumeInterrupted PROVE Types'
<1>1. ChatOK /\ CallersOK /\ AnswersOK /\ LifeOK /\ WrittenBy /\ Before /\ CutOff
    BY TypeParts DEF TypeInv
<1>2. ChatOK' /\ CallersOK' /\ WrittenBy'
    BY <1>1 DEF ListRunning, ResumeInterrupted, ChatOK, CallersOK, WrittenBy, chat, callers
<1>3. CASE ListRunning
  <2>1. AnswersOK' /\ Before'
    BY <1>1, <1>3, SameAnswers DEF ListRunning
  <2>2. cut' = NoCut \/ \E as \in Callable, t \in Running : cut' = [who |-> turn[t].actor, agents |-> as]
    BY <1>3, Zenon DEF ListRunning
  <2>3. CASE cut' = NoCut
    BY <1>1, <1>3, <2>1, <2>3, <1>2, NextTypes, EmptySeq DEF LifeOK, CutOff, NoCut, ListRunning, Phases
  <2>4. ASSUME NEW as \in Callable, NEW t \in Running, cut' = [who |-> turn[t].actor, agents |-> as]
        PROVE  Types'
    <3>1. t \in Turns /\ t <= n
      BY <1>1 DEF Running, Before
    <3>2. turn[t] \in Turn
      BY <1>1, <3>1, TurnsNat DEF AnswersOK, TurnsOK
    <3>3. as \in Seq(Agents) /\ turn[t].actor \in People
      BY <3>2, CallableSeq DEF Turn
    <3>4. LifeOK' /\ CutOff'
      BY <1>1, <1>3, <2>4, <3>3 DEF LifeOK, CutOff, ListRunning, Phases
    <3> QED
      BY <1>2, <2>1, <3>4, NextTypes
  <2> QED
    BY <2>2, <2>3, <2>4
<1>4. CASE ResumeInterrupted
  <2>1. LifeOK' /\ CutOff'
    BY <1>1, <1>4 DEF ResumeInterrupted, LifeOK, CutOff, Phases
  <2>2. CASE UNCHANGED answers
    BY <1>1, <1>2, <2>1, <2>2, SameAnswers, NextTypes
  <2>3. CASE cut.agents # <<>> /\ Begin(cut.agents, cut.who, "office", <<>>)
    <3>1. cut.agents \in Callable /\ cut.who \in People
      BY <1>1, <2>3 DEF TypeInv, HeldInv, TypedLists, CutOff
    <3>2. <<>> \in Seq(Msgs)
      BY EmptySeq
    <3>3. AnswersOK' /\ Before'
      BY <2>3, <3>1, <3>2, BeginTypes
    <3> QED
      BY <1>2, <2>1, <3>3, NextTypes
  <2> QED
    BY <1>4, <2>2, <2>3 DEF ResumeInterrupted
<1> QED
    BY <1>3, <1>4

LEMMA StepTypes == TypeInv /\ [Next]_vars => TypeInv'
<1> SUFFICES ASSUME TypeInv, [Next]_vars
             PROVE  TypeInv'
    OBVIOUS
<1>1. HeldInv'
    BY StepHeld DEF TypeInv
<1>2. ASSUME NEW p \in People, Write(p) \/ Request(p) PROVE Types'
    BY <1>2, WriteTypes, LookTypes, SendTypes, QueueTypes DEF Request
<1>3. Sender => Types'
    BY SenderSteps, SenderSendTypes DEF Sender
<1>4. Starts => Types'
    BY ComesBackTypes, OfficeTypes DEF Starts
<1>5. ASSUME UNCHANGED vars PROVE Types'
  <2>1. ChatOK /\ CallersOK /\ AnswersOK /\ LifeOK /\ WrittenBy /\ Before /\ CutOff
    BY TypeParts DEF TypeInv
  <2>2. UNCHANGED chat /\ UNCHANGED callers /\ UNCHANGED answers /\ UNCHANGED life
    BY <1>5 DEF vars
  <2>3. CallersOK' /\ WrittenBy'
    BY <2>1, <2>2 DEF CallersOK, WrittenBy, callers, chat
  <2> QED
    <3>1. ChatOK'
      BY <2>1, <2>2, SameChat
    <3>2. AnswersOK' /\ Before'
      BY <2>1, <2>2, SameAnswers
    <3>3. LifeOK' /\ CutOff'
      BY <2>1, <2>2, SameLife
    <3> QED
      BY <2>3, <3>1, <3>2, <3>3, NextTypes
<1>6. Types'
  <2>1. ASSUME NEW t \in Turns, Goes(t) \/ \E a \in Agents : Delegate(t, a) PROVE Types'
    BY <2>1, GoesTypes
  <2>2. Unqueue \/ Stop \/ Shutdown \/ ShutdownTakes \/ Down => Types'
    BY UnqueueTypes, OfficeTypes, DownTypes
  <2>3. CASE Next
    BY <1>2, <1>3, <1>4, <2>1, <2>2, <2>3, Zenon DEF Next
  <2> QED
    BY <1>5, <2>3
<1> QED
    BY <1>1, <1>6 DEF TypeInv, Types

\* Every reachable state of a chat is well typed, whoever writes, stops and
\* restarts: what waits, is sent, or was cut off belongs to a person who wrote
\* it, and a turn to one that began before it.
THEOREM TypesHold == Spec => []TypeOK
<1>1. TypeInv => TypeOK
    BY DEF TypeInv
<1> QED
    BY InitTypes, StepTypes, <1>1, PTL DEF Spec

-----------------------------------------------------------------------------
(* What people say. *)

\* A turn that a message has begun is the one that who sent it waits for; one
\* that another turn starts says nothing.
Beginning(t) == stage[t] \in {"begun", "stored"} /\ turn[t].from # "turn"
Links == \A t \in Turns : Beginning(t) =>
    /\ ~turn[t].bg
    /\ turn[t].from \in People =>
         req[turn[t].from].at = "sending" /\ turn[t].parts = <<req[turn[t].from].m>>
    /\ turn[t].from = "sender" => sender.at = "sending" /\ turn[t].parts = sender.list
    /\ turn[t].from = "office" => turn[t].parts = <<>>
HandedOn == \A t \in Turns : stage[t] \in {"begun", "stored"} /\ turn[t].from = "turn" =>
    stage[t] = "stored" /\ turn[t].parts = <<>>

\* A message is at one place: with the person who writes it, or with those
\* that wait and that the sender has read.
Listed == ToSet(waiting) \cup ToSet(sender.list)
InOnePlace == \A p \in People : req[p].at # "idle" =>
    /\ author[req[p].m] = p
    /\ \A l \in Listed : author[l] = p => l < req[p].m

\* What may be said from here on, said already at most once for each time
\* office went down; anything else at most once more.
AtPerson(m) == \E p \in People : req[p].at \in {"active", "queued", "send", "queue"} /\ req[p].m = m
AtSender(m) == sender.at = "send" /\ m \in ToSet(sender.list)
Behind(m) == m \in ToSet(waiting) /\ ~(sender.at \in {"sending", "delete"} /\ m \in ToSet(sender.list))
InTurn(m) == \E t \in Turns : stage[t] = "begun" /\ m \in ToSet(turn[t].parts)
MayBeSaid(m) == AtPerson(m) \/ AtSender(m) \/ Behind(m) \/ InTurn(m)
OncePerLife == \A m \in Msgs : Times(m) <= 1 + downs /\ (MayBeSaid(m) => Times(m) <= downs)

\* Only what was written is said.
SaidWritten == \A i \in DOMAIN log : ToSet(log[i].parts) \subseteq 1 .. written

\* What is deleted was said, in the chat or to its writer.
Answered ==
    /\ \A t \in Turns : stage[t] = "stored" => \A m \in ToSet(turn[t].parts) : Times(m) > 0
    /\ sender.at = "delete" => \A m \in ToSet(sender.list) : Times(m) > 0 \/ m \in told

\* Nothing that its writer wrote earlier waits behind what is sent now.
NoneBehind ==
    /\ \A p \in People : req[p].at \in {"send", "sending"} => \A l \in ToSet(waiting) : author[l] # p
    /\ sender.at \in {"send", "sending"} =>
         \A m \in ToSet(sender.list), l \in ToSet(waiting) :
             l < m /\ author[l] = author[m] => l \in ToSet(sender.list)

Said == Links /\ HandedOn /\ InOnePlace /\ OncePerLife /\ SaidWritten /\ Answered /\ NoneBehind
SaidInv == TypeInv /\ Said

-----------------------------------------------------------------------------
LEMMA EmptyToSet == ToSet(<<>>) = {}
  BY DEF ToSet
LEMMA OneToSet == ASSUME NEW e PROVE ToSet(<<e>>) = {e}
<1>1. DOMAIN <<e>> = {1}
    OBVIOUS
<1>2. <<e>>[1] = e
    OBVIOUS
<1> QED
    BY <1>1, <1>2 DEF ToSet

Entry == [by : People, parts : Seq(Msgs)]
LEMMA TimesNat ==
    ASSUME NEW s \in Seq(Entry), NEW m
    PROVE  /\ IsFiniteSet({i \in DOMAIN s : Contains(s[i].parts, m)})
           /\ Cardinality({i \in DOMAIN s : Contains(s[i].parts, m)}) \in Nat
<1>1. Len(s) \in Nat /\ DOMAIN s = 1 .. Len(s)
    BY LenProperties
<1>2. IsFiniteSet(1 .. Len(s))
    BY <1>1, FS_Interval
<1>3. IsFiniteSet({i \in DOMAIN s : Contains(s[i].parts, m)})
    BY <1>1, <1>2, FS_Subset
<1> QED
    BY <1>3, FS_CardinalityType

LEMMA TimesType == ASSUME TypeOK, NEW m PROVE Times(m) \in Nat
  BY TimesNat DEF Times, TypeOK, Entry

\* One more entry says each of its messages once.
LEMMA TimesAppend ==
    ASSUME TypeOK, NEW e \in Entry, log' = Append(log, e), NEW m \in Msgs
    PROVE  Times(m)' = IF m \in ToSet(e.parts) THEN Times(m) + 1 ELSE Times(m)
<1> DEFINE S == {i \in DOMAIN log : Contains(log[i].parts, m)}
           S1 == {i \in DOMAIN log' : Contains(log'[i].parts, m)}
<1>1. log \in Seq(Entry)
    BY DEF TypeOK, Entry
<1>2. Len(log) \in Nat /\ DOMAIN log = 1 .. Len(log)
    BY <1>1, LenProperties
<1>3. /\ log' \in Seq(Entry) /\ Len(log') = Len(log) + 1
      /\ \A j \in 1 .. Len(log) : log'[j] = log[j]
      /\ log'[Len(log) + 1] = e
    BY <1>1, <1>2, AppendProperties
<1>4. DOMAIN log' = 1 .. Len(log) + 1
    BY <1>2, <1>3, LenProperties
<1>5. Contains(e.parts, m) <=> m \in ToSet(e.parts)
  <2>1. e.parts \in Seq(Msgs)
    BY DEF Entry
  <2>2. DOMAIN e.parts = 1 .. Len(e.parts)
    BY <2>1, LenProperties
  <2> QED
    BY <2>2 DEF Contains, ToSet
<1>6. IsFiniteSet(S) /\ Cardinality(S) \in Nat
    BY <1>1, TimesNat
<1>7. Len(log) + 1 \notin S
    BY <1>2
<1>8. CASE m \in ToSet(e.parts)
  <2>1. S1 = S \cup {Len(log) + 1}
    BY <1>2, <1>3, <1>4, <1>5, <1>8
  <2> HIDE DEF S, S1
  <2>2. Cardinality(S1) = Cardinality(S) + 1
    BY <1>6, <1>7, <2>1, FS_AddElement
  <2> QED
    BY <1>8, <2>2 DEF Times, S, S1
<1>9. CASE m \notin ToSet(e.parts)
  <2>1. S1 = S
    BY <1>2, <1>3, <1>4, <1>5, <1>9
  <2> QED
    BY <1>9, <2>1 DEF Times
<1> QED
    BY <1>8, <1>9

\* What nobody wrote was not said.
LEMMA NotSaid ==
    ASSUME TypeOK, SaidWritten, NEW m \in Nat, m > written
    PROVE  Times(m) = 0
<1>1. \A i \in DOMAIN log : ~Contains(log[i].parts, m)
  <2> SUFFICES ASSUME NEW i \in DOMAIN log, Contains(log[i].parts, m)
               PROVE  FALSE
      OBVIOUS
  <2>1. log \in Seq(Entry)
    BY DEF TypeOK, Entry
  <2>2. DOMAIN log = 1 .. Len(log) /\ log[i] \in Entry
    BY <2>1, LenProperties, ElementOfSeq
  <2>3. log[i].parts \in Seq(Msgs) /\ DOMAIN log[i].parts = 1 .. Len(log[i].parts)
    BY <2>2, LenProperties DEF Entry
  <2>4. m \in ToSet(log[i].parts)
    BY <2>3 DEF Contains, ToSet
  <2>5. m \in 1 .. written
    BY <2>4 DEF SaidWritten
  <2>6. written \in Nat
    BY BoundAssumption DEF TypeOK
  <2> QED
    BY <2>5, <2>6
<1>2. {i \in DOMAIN log : Contains(log[i].parts, m)} = {}
    BY <1>1
<1> QED
    BY <1>2, FS_EmptySet DEF Times

-----------------------------------------------------------------------------
(* What keeps each part. *)

LEMMA BeginningActive ==
    ASSUME TypeInv, Links, NEW t \in Turns, Beginning(t)
    PROVE  active = t
  BY DEF Links, TypeInv, HeldInv, Held, Working, Beginning

LEMMA LinksKept ==
    ASSUME Links, \A t \in Turns : Beginning(t)' => Beginning(t) /\ turn'[t] = turn[t],
           \A p \in People : req[p].at = "sending" => req'[p] = req[p],
           sender.at = "sending" => sender' = sender
    PROVE  Links'
<1> SUFFICES ASSUME NEW t \in Turns, Beginning(t)'
             PROVE  /\ ~turn'[t].bg
                    /\ turn'[t].from \in People =>
                         req'[turn'[t].from].at = "sending" /\ turn'[t].parts = <<req'[turn'[t].from].m>>
                    /\ turn'[t].from = "sender" => sender'.at = "sending" /\ turn'[t].parts = sender'.list
                    /\ turn'[t].from = "office" => turn'[t].parts = <<>>
    BY DEF Links
<1>1. Beginning(t) /\ turn'[t] = turn[t]
    OBVIOUS
<1> QED
    BY <1>1 DEF Links

LEMMA InOnePlaceKept ==
    ASSUME InOnePlace, UNCHANGED author,
           \A p \in People : req'[p].at # "idle" => req[p].at # "idle" /\ req'[p].m = req[p].m,
           ToSet(waiting') \subseteq Listed, ToSet(sender'.list) \subseteq Listed
    PROVE  InOnePlace'
  BY DEF InOnePlace, Listed

LEMMA OnceKept ==
    ASSUME OncePerLife, UNCHANGED <<log, downs>>, \A m \in Msgs : MayBeSaid(m)' => MayBeSaid(m)
    PROVE  OncePerLife'
<1>1. \A m \in Msgs : Times(m)' = Times(m)
    BY DEF Times
<1> HIDE DEF Times, MayBeSaid
<1> QED
    BY <1>1 DEF OncePerLife

LEMMA AnsweredKept ==
    ASSUME Answered, UNCHANGED log, told \subseteq told',
           \A t \in Turns : stage'[t] = "stored" =>
               (stage[t] = "stored" /\ turn'[t] = turn[t]) \/ turn'[t].parts = <<>>,
           sender'.at = "delete" => sender' = sender
    PROVE  Answered'
<1>1. \A m : Times(m)' = Times(m)
    BY DEF Times
<1> HIDE DEF Times
<1> QED
    BY <1>1, EmptyToSet DEF Answered

LEMMA NoneBehindKept ==
    ASSUME NoneBehind, UNCHANGED author, ToSet(waiting') \subseteq ToSet(waiting),
           \A p \in People : req'[p].at \in {"send", "sending"} => req[p].at \in {"send", "sending"},
           sender'.at \in {"send", "sending"} =>
               sender.at \in {"send", "sending"} /\ sender'.list = sender.list
    PROVE  NoneBehind'
  BY DEF NoneBehind

\* Steps that leave messages, people and the sender alone.
LEMMA Aside ==
    ASSUME SaidInv, UNCHANGED <<written, author, waiting, log, told, req, sender, downs>>,
           \A t \in Turns : stage'[t] \in {"begun", "stored"} =>
               \/ stage'[t] = stage[t] /\ turn'[t] = turn[t]
               \/ stage'[t] = "stored" /\ turn'[t].from = "turn" /\ turn'[t].parts = <<>>
    PROVE  Said'
<1>1. Links'
  <2>1. \A t \in Turns : Beginning(t)' => Beginning(t) /\ turn'[t] = turn[t]
    BY DEF Beginning
  <2> QED
    BY <2>1, LinksKept DEF SaidInv, Said
<1>2. HandedOn'
    BY DEF SaidInv, Said, HandedOn
<1>3. InOnePlace' /\ NoneBehind' /\ SaidWritten'
    BY DEF SaidInv, Said, InOnePlace, Listed, NoneBehind, SaidWritten
<1>4. OncePerLife'
  <2>1. ASSUME NEW m \in Msgs, MayBeSaid(m)' PROVE MayBeSaid(m)
    BY <2>1 DEF MayBeSaid, AtPerson, AtSender, Behind, InTurn
  <2> QED
    BY <2>1, OnceKept DEF SaidInv, Said
<1>5. Answered'
    BY AnsweredKept DEF SaidInv, Said
<1> QED
    BY <1>1, <1>2, <1>3, <1>4, <1>5 DEF Said

-----------------------------------------------------------------------------
(* The steps. *)

LEMMA InitSaid == Init => Said
<1> SUFFICES ASSUME Init PROVE Said
    OBVIOUS
<1>1. \A t \in Turns : stage[t] = "none"
    BY DEF Init
<1>2. waiting = <<>> /\ log = <<>> /\ sender.at = "idle" /\ sender.list = <<>> /\ downs = 0
    BY DEF Init, NoSender
<1>3. \A p \in People : req[p].at = "idle"
    BY DEF Init, NoRequest
<1>4. DOMAIN log = {}
    BY <1>2
<1>5. Links /\ HandedOn /\ InOnePlace /\ SaidWritten /\ Answered /\ NoneBehind
    BY <1>1, <1>2, <1>3, <1>4 DEF Links, Beginning, HandedOn, InOnePlace, SaidWritten, Answered, NoneBehind
<1>6. OncePerLife
  <2>1. ASSUME NEW m \in Msgs PROVE Times(m) = 0
    <3>1. {i \in DOMAIN log : Contains(log[i].parts, m)} = {}
      BY <1>4
    <3> QED
      BY <3>1, FS_EmptySet DEF Times
  <2> QED
    BY <1>2, <2>1 DEF OncePerLife
<1> QED
    BY <1>5, <1>6 DEF Said

\* What the invariants say of messages, in one place.
LEMMA Facts ==
    ASSUME SaidInv
    PROVE  /\ written \in Nat /\ written <= MaxMsgs
           /\ \A p \in People : req[p].at # "idle" => req[p].m \in 1 .. written /\ req[p].m \in Msgs
           /\ ToSet(waiting) \subseteq 1 .. written /\ ToSet(sender.list) \subseteq 1 .. written
           /\ Listed \subseteq 1 .. written
           /\ waiting \in Seq(Msgs) /\ sender.list \in Seq(Msgs) /\ log \in Seq(Entry)
           /\ author \in [Msgs -> People \cup {NoOne}]
           /\ req \in [People -> [at : {"idle", "active", "queued", "send", "sending", "queue"}, m : Msgs \cup {None}]]
           /\ sender \in Senders
           /\ 1 .. written \subseteq Msgs
<1>1. TypeOK /\ WrittenBy
    BY DEF SaidInv, TypeInv
<1>2. written \in Nat /\ written <= MaxMsgs /\ 1 .. written \subseteq Msgs
    BY <1>1, BoundAssumption DEF TypeOK, Msgs
<1> QED
    BY <1>1, <1>2 DEF TypeOK, WrittenBy, Listed, Entry, Senders

LEMMA WriteSaid == ASSUME SaidInv, NEW p \in People, Write(p) PROVE Said'
<1> DEFINE w == written + 1
<1>1. /\ written' = w /\ author' = [author EXCEPT ![w] = p] /\ req[p].at = "idle"
      /\ req' = [req EXCEPT ![p] = [at |-> "active", m |-> w]]
      /\ UNCHANGED <<waiting, log, told, taken, sender, senders, answers, life>>
    BY DEF Write, At
<1>2. UNCHANGED <<turn, stage, downs>>
    BY <1>1 DEF answers, life
<1>3. w \in Msgs /\ w \notin 1 .. written /\ \A l \in 1 .. written : l < w
    BY Facts, TurnsNat DEF Write, Msgs
<1>4. req'[p] = [at |-> "active", m |-> w] /\ \A q \in People : q # p => req'[q] = req[q]
    BY <1>1, Facts
<1>5. author'[w] = p /\ \A l \in 1 .. written : author'[l] = author[l]
    BY <1>1, <1>3, Facts
<1> HIDE DEF w
<1>6. Links'
  <2>1. \A t \in Turns : Beginning(t)' => Beginning(t) /\ turn'[t] = turn[t]
    BY <1>2 DEF Beginning
  <2>2. \A q \in People : req[q].at = "sending" => req'[q] = req[q]
    BY <1>1, <1>4
  <2> QED
    BY <1>1, <2>1, <2>2, LinksKept DEF SaidInv, Said
<1>7. HandedOn' /\ Answered'
  <2>1. HandedOn'
    BY <1>2 DEF SaidInv, Said, HandedOn
  <2> QED
    BY <1>1, <1>2, <2>1, AnsweredKept DEF SaidInv, Said
<1>8. InOnePlace'
  <2>1. Listed' = Listed /\ Listed \subseteq 1 .. written
    BY <1>1, Facts DEF Listed
  <2>2. ASSUME NEW q \in People, req'[q].at # "idle"
        PROVE  author'[req'[q].m] = q /\ \A l \in Listed : author'[l] = q => l < req'[q].m
    <3>1. CASE q = p
      BY <1>3, <1>4, <1>5, <2>1, <3>1
    <3>2. CASE q # p
      <4>1. req'[q] = req[q] /\ req[q].m \in 1 .. written
        BY <1>4, <2>2, <3>2, Facts
      <4>2. author[req[q].m] = q /\ \A l \in Listed : author[l] = q => l < req[q].m
        BY <2>2, <4>1 DEF SaidInv, Said, InOnePlace
      <4> QED
        BY <1>5, <2>1, <4>1, <4>2
    <3> QED
      BY <3>1, <3>2
  <2> QED
    BY <2>1, <2>2 DEF InOnePlace
<1>9. SaidWritten'
  <2>1. ASSUME NEW i \in DOMAIN log PROVE ToSet(log[i].parts) \subseteq 1 .. w
    <3>1. ToSet(log[i].parts) \subseteq 1 .. written
      BY DEF SaidInv, Said, SaidWritten
    <3>2. 1 .. written \subseteq 1 .. w
      BY Facts DEF w
    <3> QED
      BY <3>1, <3>2
  <2> QED
    BY <1>1, <2>1 DEF SaidWritten
<1>10. OncePerLife'
  <2>1. \A m \in Msgs : Times(m)' = Times(m)
    BY <1>1 DEF Times
  <2>2. ASSUME NEW m \in Msgs, MayBeSaid(m)' PROVE m = w \/ MayBeSaid(m)
    <3>1. AtSender(m)' \/ Behind(m)' \/ InTurn(m)' => MayBeSaid(m)
      BY <1>1, <1>2 DEF MayBeSaid, AtSender, Behind, InTurn
    <3>2. AtPerson(m)' => m = w \/ AtPerson(m)
      BY <1>4 DEF AtPerson
    <3> QED
      BY <2>2, <3>1, <3>2 DEF MayBeSaid
  <2>3. Times(w) = 0
    BY <1>3, NotSaid, Facts DEF SaidInv, Said, TypeInv, w
  <2>4. downs \in Nat
    BY BoundAssumption DEF SaidInv, TypeInv, TypeOK
  <2> HIDE DEF Times, MayBeSaid
  <2> QED
    BY <1>2, <2>1, <2>2, <2>3, <2>4 DEF SaidInv, Said, OncePerLife
<1>11. NoneBehind'
  <2>1. ToSet(waiting) \subseteq 1 .. written /\ ToSet(sender.list) \subseteq 1 .. written
    BY Facts
  <2>2. \A q \in People : req'[q].at \in {"send", "sending"} => req[q].at \in {"send", "sending"}
    BY <1>4
  <2> QED
    BY <1>1, <1>5, <2>1, <2>2 DEF SaidInv, Said, NoneBehind
<1> QED
    BY <1>6, <1>7, <1>8, <1>9, <1>10, <1>11 DEF Said

LEMMA LookSaid == ASSUME SaidInv, NEW p \in People, LookActive(p) \/ LookQueued(p) PROVE Said'
<1>1. /\ UNCHANGED <<chat, sender, senders, answers, life>>
      /\ \/ req[p].at = "active" /\ \E l \in {"queue", "queued"} : req' = [req EXCEPT ![p].at = l]
         \/ req[p].at = "queued" /\ req' = [req EXCEPT ![p].at = "queue"]
         \/ req[p].at = "queued" /\ waiting = <<>> /\ req' = [req EXCEPT ![p].at = "send"]
    BY DEF LookActive, LookQueued, At, GoTo, HasQueued
<1>2. UNCHANGED <<written, author, waiting, log, told, turn, stage, downs>>
    BY <1>1 DEF chat, answers, life
<1>3. \A q \in People : q # p => req'[q] = req[q]
    BY <1>1, Facts
<1>4. /\ req'[p].m = req[p].m /\ req[p].at \in {"active", "queued"}
      /\ req'[p].at \in {"queue", "queued"} \/ (req'[p].at = "send" /\ waiting = <<>>)
    BY <1>1, Facts
<1>5. Links'
  <2>1. \A t \in Turns : Beginning(t)' => Beginning(t) /\ turn'[t] = turn[t]
    BY <1>2 DEF Beginning
  <2> QED
    BY <1>1, <1>3, <1>4, <2>1, LinksKept DEF SaidInv, Said
<1>6. HandedOn' /\ SaidWritten'
    BY <1>2 DEF SaidInv, Said, HandedOn, SaidWritten
<1>7. Answered'
    BY <1>1, <1>2, AnsweredKept DEF SaidInv, Said
<1>8. InOnePlace'
    BY <1>1, <1>2, <1>3, <1>4, InOnePlaceKept DEF SaidInv, Said, Listed
<1>9. OncePerLife'
  <2>1. ASSUME NEW m \in Msgs, MayBeSaid(m)' PROVE MayBeSaid(m)
    <3>1. AtSender(m)' \/ Behind(m)' \/ InTurn(m)' => MayBeSaid(m)
      BY <1>1, <1>2 DEF MayBeSaid, AtSender, Behind, InTurn
    <3>2. AtPerson(m)' => AtPerson(m)
      BY <1>3, <1>4 DEF AtPerson
    <3> QED
      BY <2>1, <3>1, <3>2 DEF MayBeSaid
  <2> QED
    BY <1>2, <2>1, OnceKept DEF SaidInv, Said
<1>10. NoneBehind'
    BY <1>1, <1>2, <1>3, <1>4, EmptyToSet DEF SaidInv, Said, NoneBehind
<1> QED
    BY <1>5, <1>6, <1>7, <1>8, <1>9, <1>10 DEF Said

\* A message begins a turn: the only one that a message has begun.
LEMMA BeginFacts ==
    ASSUME SaidInv, NEW as \in Callable, NEW who, NEW from, NEW parts, Begin(as, who, from, parts)
    PROVE  /\ \A t \in Turns : ~Beginning(t)
           /\ n + 1 \in Turns
           /\ turn'[n + 1].from = from /\ turn'[n + 1].parts = parts /\ ~turn'[n + 1].bg
           /\ \A t \in Turns : t # n + 1 => stage'[t] = stage[t] /\ turn'[t] = turn[t]
           /\ from # "turn" => stage'[n + 1] = "begun"
<1> DEFINE r == [agent |-> Head(as), bg |-> FALSE, by |-> NoOne, root |-> n + 1, actor |-> who,
                 queue |-> Tail(as), from |-> from, parent |-> None, parts |-> parts]
<1>1. Register(r)
    BY DEF Begin
<1>2. active = None
    BY DEF Begin, Verdict
<1>3. \A t \in Turns : ~Beginning(t)
    BY <1>2, BeginningActive, TurnsNat DEF SaidInv, Said, None
<1>4. n + 1 \in Turns /\ turn \in [Turns -> Turn \cup {Blank}]
    BY <1>1, TurnsNat DEF Register, SaidInv, TypeInv, TypeOK, Turns
<1>5. turn' = [turn EXCEPT ![n + 1] = r]
    BY <1>1 DEF Register
<1>6. turn'[n + 1] = r /\ \A t \in Turns : t # n + 1 => turn'[t] = turn[t]
    BY <1>4, <1>5
<1>7. \A t \in Turns : t # n + 1 => stage'[t] = stage[t]
  <2>1. r.parent = None /\ None \notin Turns
    BY TurnsNat
  <2> HIDE DEF r
  <2> QED
    BY <1>1, <2>1 DEF Register
<1>8. from # "turn" => stage'[n + 1] = "begun"
    BY <1>1, <1>4 DEF Register
<1> QED
    BY <1>3, <1>4, <1>6, <1>7, <1>8

LEMMA BeginSaid ==
    ASSUME SaidInv, NEW as \in Callable, NEW who, NEW from \in People \cup {"sender", "office"}, NEW parts,
           Begin(as, who, from, parts), UNCHANGED <<written, log, downs>>, told \subseteq told',
           from \in People => req'[from].at = "sending" /\ parts = <<req'[from].m>>,
           from = "sender" => sender'.at = "sending" /\ parts = sender'.list,
           from = "office" => parts = <<>>,
           sender'.at = "delete" => sender' = sender,
           \A m \in Msgs : AtPerson(m)' \/ AtSender(m)' \/ Behind(m)' \/ m \in ToSet(parts) => MayBeSaid(m)
    PROVE  Links' /\ HandedOn' /\ Answered' /\ SaidWritten' /\ OncePerLife'
<1> DEFINE u == n + 1
<1>1. /\ \A t \in Turns : ~Beginning(t)
      /\ u \in Turns
      /\ turn'[u].from = from /\ turn'[u].parts = parts /\ ~turn'[u].bg
      /\ \A t \in Turns : t # u => stage'[t] = stage[t] /\ turn'[t] = turn[t]
      /\ stage'[u] = "begun"
  <2>1. from # "turn"
    BY PeopleAssumption
  <2> QED
    BY <2>1, BeginFacts
<1> HIDE DEF u
<1>2. Links'
  <2>1. ASSUME NEW t \in Turns, Beginning(t)' PROVE t = u
    BY <1>1, <2>1 DEF Beginning
  <2> QED
    BY <1>1, <2>1 DEF Links
<1>3. HandedOn'
  <2>1. ASSUME NEW t \in Turns, stage'[t] \in {"begun", "stored"}, turn'[t].from = "turn"
        PROVE  stage'[t] = "stored" /\ turn'[t].parts = <<>>
    <3>1. t # u
      BY <1>1, <2>1, PeopleAssumption
    <3> QED
      BY <1>1, <2>1, <3>1 DEF SaidInv, Said, HandedOn
  <2> QED
    BY <2>1 DEF HandedOn
<1>4. Answered'
    BY <1>1, AnsweredKept DEF SaidInv, Said
<1>5. SaidWritten'
    BY DEF SaidInv, Said, SaidWritten
<1>6. OncePerLife'
  <2>1. ASSUME NEW m \in Msgs, MayBeSaid(m)' PROVE MayBeSaid(m)
    <3>1. InTurn(m)' => InTurn(m) \/ m \in ToSet(parts)
      BY <1>1 DEF InTurn
    <3> QED
      BY <2>1, <3>1 DEF MayBeSaid
  <2> QED
    BY <2>1, OnceKept DEF SaidInv, Said
<1> QED
    BY <1>2, <1>3, <1>4, <1>5, <1>6

LEMMA SendSaid == ASSUME SaidInv, NEW p \in People, Send(p) PROVE Said'
<1>1. UNCHANGED <<written, author, waiting, log, told, sender, downs>> /\ req[p].at = "send"
    BY DEF Send, At, chat, life
<1>2. PICK as \in Callable :
          \/ Begin(as, p, p, <<req[p].m>>) /\ req' = [req EXCEPT ![p].at = "sending"]
          \/ /\ UNCHANGED answers
             /\ req' = [req EXCEPT ![p].at = "queue"] \/ req' = [req EXCEPT ![p] = NoRequest]
    BY DEF Send, GoTo
<1>3. \A q \in People : q # p => req'[q] = req[q]
    BY <1>2, Facts
<1>4. \/ req'[p].m = req[p].m /\ req'[p].at \in {"queue", "sending"}
      \/ req'[p].at = "idle"
  <2>1. \/ \E l \in {"queue", "sending"} : req' = [req EXCEPT ![p].at = l]
        \/ req' = [req EXCEPT ![p] = NoRequest]
    BY <1>2
  <2> QED
    BY <2>1, Facts DEF NoRequest
<1>5. InOnePlace' /\ NoneBehind'
  <2>1. InOnePlace'
    BY <1>1, <1>3, <1>4, InOnePlaceKept DEF SaidInv, Said, Listed
  <2> QED
    BY <1>1, <1>3, <1>4, <2>1, NoneBehindKept DEF SaidInv, Said
<1>6. \A m \in Msgs : AtPerson(m)' => AtPerson(m)
    BY <1>1, <1>3, <1>4 DEF AtPerson
<1>7. \A m \in Msgs : AtSender(m)' \/ Behind(m)' => MayBeSaid(m)
    BY <1>1 DEF AtSender, Behind, MayBeSaid
<1>8. CASE Begin(as, p, p, <<req[p].m>>) /\ req' = [req EXCEPT ![p].at = "sending"]
  <2>1. req'[p].at = "sending" /\ req'[p].m = req[p].m
    BY <1>8, Facts
  <2>2. p # "sender" /\ p # "office"
    BY PeopleAssumption
  <2>3. \A m \in Msgs : m \in ToSet(<<req[p].m>>) => MayBeSaid(m)
    BY <1>1, OneToSet DEF MayBeSaid, AtPerson
  <2>4. \A m \in Msgs : AtPerson(m)' \/ AtSender(m)' \/ Behind(m)' \/ m \in ToSet(<<req[p].m>>) => MayBeSaid(m)
    BY <1>6, <1>7, <2>3 DEF MayBeSaid
  <2>5. Links' /\ HandedOn' /\ Answered' /\ SaidWritten' /\ OncePerLife'
    BY <1>1, <1>8, <2>1, <2>2, <2>4, BeginSaid
  <2> QED
    BY <1>5, <2>5 DEF Said
<1>9. CASE UNCHANGED answers
  <2>1. UNCHANGED <<turn, stage>>
    BY <1>9 DEF answers
  <2>2. Links'
    <3>1. \A t \in Turns : Beginning(t)' => Beginning(t) /\ turn'[t] = turn[t]
      BY <2>1 DEF Beginning
    <3> QED
      BY <1>1, <1>3, <3>1, LinksKept DEF SaidInv, Said
  <2>3. HandedOn' /\ SaidWritten'
    BY <1>1, <2>1 DEF SaidInv, Said, HandedOn, SaidWritten
  <2>4. Answered'
    BY <1>1, <2>1, AnsweredKept DEF SaidInv, Said
  <2>5. OncePerLife'
    <3>1. \A m \in Msgs : InTurn(m)' => InTurn(m)
      BY <2>1 DEF InTurn
    <3>2. \A m \in Msgs : MayBeSaid(m)' => MayBeSaid(m)
      BY <1>6, <1>7, <3>1 DEF MayBeSaid
    <3> QED
      BY <1>1, <3>2, OnceKept DEF SaidInv, Said
  <2> QED
    BY <1>5, <2>2, <2>3, <2>4, <2>5 DEF Said
<1> QED
    BY <1>2, <1>8, <1>9

\* Steps of people and of the sender that begin no turn.
LEMMA ListsSaid ==
    ASSUME SaidInv, UNCHANGED <<written, log, turn, stage, downs>>, told \subseteq told',
           \A p \in People : req[p].at = "sending" => req'[p] = req[p],
           sender.at = "sending" => sender' = sender,
           sender'.at = "delete" => sender' = sender,
           \A m \in Msgs : AtPerson(m)' \/ AtSender(m)' \/ Behind(m)' => MayBeSaid(m)
    PROVE  Links' /\ HandedOn' /\ Answered' /\ SaidWritten' /\ OncePerLife'
<1>1. Links'
  <2>1. \A t \in Turns : Beginning(t)' => Beginning(t) /\ turn'[t] = turn[t]
    BY DEF Beginning
  <2> QED
    BY <2>1, LinksKept DEF SaidInv, Said
<1>2. HandedOn' /\ SaidWritten'
    BY DEF SaidInv, Said, HandedOn, SaidWritten
<1>3. Answered'
    BY AnsweredKept DEF SaidInv, Said
<1>4. OncePerLife'
  <2>1. \A m \in Msgs : InTurn(m)' => InTurn(m)
    BY DEF InTurn
  <2>2. \A m \in Msgs : MayBeSaid(m)' => MayBeSaid(m)
    BY <2>1 DEF MayBeSaid
  <2> QED
    BY <2>2, OnceKept DEF SaidInv, Said
<1> QED
    BY <1>1, <1>2, <1>3, <1>4

LEMMA QueueSaid == ASSUME SaidInv, NEW p \in People, Queue(p) PROVE Said'
<1>1. /\ req[p].at = "queue" /\ waiting' = Append(waiting, req[p].m) /\ req' = [req EXCEPT ![p] = NoRequest]
      /\ UNCHANGED <<written, author, log, told, sender, turn, stage, downs>>
    BY DEF Queue, At, answers, life
<1>2. req[p].m \in Msgs /\ author[req[p].m] = p /\ \A l \in Listed : author[l] = p => l < req[p].m
    BY <1>1, Facts DEF SaidInv, Said, InOnePlace
<1>3. ToSet(waiting') = ToSet(waiting) \cup {req[p].m}
    BY <1>1, <1>2, Facts, AppendSet
<1>4. req'[p].at = "idle" /\ \A q \in People : q # p => req'[q] = req[q]
    BY <1>1, Facts DEF NoRequest
<1>5. InOnePlace'
  <2>1. ASSUME NEW q \in People, req'[q].at # "idle"
        PROVE  author[req[q].m] = q /\ req'[q] = req[q] /\ q # p /\ \A l \in Listed' : author[l] = q => l < req[q].m
    <3>1. q # p /\ req'[q] = req[q]
      BY <1>4, <2>1
    <3>2. author[req[q].m] = q /\ \A l \in Listed : author[l] = q => l < req[q].m
      BY <2>1, <3>1 DEF SaidInv, Said, InOnePlace
    <3>3. Listed' = Listed \cup {req[p].m}
      BY <1>1, <1>3 DEF Listed
    <3> QED
      BY <1>2, <3>1, <3>2, <3>3
  <2> QED
    BY <1>1, <2>1 DEF InOnePlace
<1>6. NoneBehind'
  <2>1. ASSUME NEW q \in People, req'[q].at \in {"send", "sending"}, NEW l \in ToSet(waiting') PROVE author[l] # q
    <3>1. q # p /\ req[q].at \in {"send", "sending"}
      BY <1>4, <2>1
    <3> QED
      BY <1>2, <1>3, <3>1 DEF SaidInv, Said, NoneBehind
  <2>2. ASSUME sender.at \in {"send", "sending"}, NEW m \in ToSet(sender.list), NEW l \in ToSet(waiting'),
               l < m, author[l] = author[m]
        PROVE  l \in ToSet(sender.list)
    <3>1. CASE l \in ToSet(waiting)
      BY <2>2, <3>1 DEF SaidInv, Said, NoneBehind
    <3>2. CASE l = req[p].m
      <4>1. m < l
        BY <1>2, <2>2, <3>2 DEF Listed
      <4>2. m \in Nat /\ l \in Nat
        BY <1>2, <3>2, Facts, TurnsNat
      <4> QED
        BY <2>2, <4>1, <4>2
    <3> QED
      BY <1>3, <3>1, <3>2
  <2> QED
    BY <1>1, <2>1, <2>2 DEF NoneBehind
<1>7. \A m \in Msgs : AtPerson(m)' \/ AtSender(m)' \/ Behind(m)' => MayBeSaid(m)
  <2>1. \A m \in Msgs : AtPerson(m)' => AtPerson(m)
    BY <1>4 DEF AtPerson
  <2>2. \A m \in Msgs : Behind(m)' => Behind(m) \/ AtPerson(m)
    BY <1>1, <1>3 DEF Behind, AtPerson
  <2>3. \A m \in Msgs : AtSender(m)' => AtSender(m)
    BY <1>1 DEF AtSender
  <2> QED
    BY <2>1, <2>2, <2>3 DEF MayBeSaid
<1>8. Links' /\ HandedOn' /\ Answered' /\ SaidWritten' /\ OncePerLife'
  <2>1. \A q \in People : req[q].at = "sending" => req'[q] = req[q]
    BY <1>1, <1>4
  <2> QED
    BY <1>1, <1>7, <2>1, ListsSaid
<1> QED
    BY <1>5, <1>6, <1>8 DEF Said

LEMMA UnqueueSaid == ASSUME SaidInv, Unqueue PROVE Said'
<1>1. UNCHANGED <<written, author, log, told, req, sender, turn, stage, downs>>
    BY DEF Unqueue, callers, answers, life
<1>2. PICK M : waiting' = Without(waiting, M)
    BY DEF Unqueue
<1>3. ToSet(waiting') \subseteq ToSet(waiting)
    BY <1>2, Facts, WithoutProperties
<1>4. InOnePlace' /\ NoneBehind'
  <2>1. InOnePlace'
    BY <1>1, <1>3, InOnePlaceKept DEF SaidInv, Said, Listed
  <2> QED
    BY <1>1, <1>3, <2>1, NoneBehindKept DEF SaidInv, Said
<1>5. \A m \in Msgs : AtPerson(m)' \/ AtSender(m)' \/ Behind(m)' => MayBeSaid(m)
    BY <1>1, <1>3 DEF AtPerson, AtSender, Behind, MayBeSaid
<1>6. Links' /\ HandedOn' /\ Answered' /\ SaidWritten' /\ OncePerLife'
    BY <1>1, <1>5, ListsSaid
<1> QED
    BY <1>4, <1>6 DEF Said

-----------------------------------------------------------------------------
(* The sender. *)

LEMMA SenderReadsSaid == ASSUME SaidInv, SenderActive \/ SenderList PROVE Said'
<1>1. UNCHANGED <<written, author, waiting, log, told, req, turn, stage, downs>>
    BY DEF SenderActive, SenderList, chat, answers, life
<1>2. \/ sender' = sender
      \/ sender.at = "idle" /\ sender' = [sender EXCEPT !.at = "list"]
      \/ sender.at = "list" /\ sender' = NoSender
      \/ sender.at = "list" /\ sender' = [at |-> "send", list |-> waiting]
    BY DEF SenderActive, SenderList
<1>3. \/ sender' = sender
      \/ /\ sender.at \in {"idle", "list"}
         /\ \/ sender'.at = "list" /\ sender'.list = sender.list
            \/ sender'.at = "idle" /\ sender'.list = <<>>
            \/ sender'.at = "send" /\ sender'.list = waiting
    BY <1>2, Facts DEF NoSender, Senders
<1>4. InOnePlace'
    BY <1>1, <1>3, EmptyToSet, InOnePlaceKept DEF SaidInv, Said, Listed
<1>5. NoneBehind'
  <2>1. CASE sender'.at = "send" /\ sender'.list = waiting
    BY <1>1, <2>1 DEF SaidInv, Said, NoneBehind
  <2>2. CASE ~(sender'.at = "send" /\ sender'.list = waiting)
    <3>1. sender' = sender \/ sender'.at \notin {"send", "sending"}
      BY <1>3, <2>2
    <3> QED
      BY <1>1, <3>1, NoneBehindKept DEF SaidInv, Said
  <2> QED
    BY <2>1, <2>2
<1>6. \A m \in Msgs : AtPerson(m)' \/ AtSender(m)' \/ Behind(m)' => MayBeSaid(m)
    BY <1>1, <1>3 DEF AtPerson, AtSender, Behind, MayBeSaid
<1>7. Links' /\ HandedOn' /\ Answered' /\ SaidWritten' /\ OncePerLife'
  <2>1. sender.at = "sending" => sender' = sender
    BY <1>3
  <2>2. sender'.at = "delete" => sender' = sender
    BY <1>3
  <2> QED
    BY <1>1, <1>6, <2>1, <2>2, ListsSaid
<1> QED
    BY <1>4, <1>5, <1>7 DEF Said

LEMMA SenderDeleteSaid == ASSUME SaidInv, SenderDelete PROVE Said'
<1>1. UNCHANGED <<written, author, log, told, req, turn, stage, downs>> /\ sender.at = "delete"
      /\ sender'.at = "idle" /\ sender'.list = <<>>
    BY DEF SenderDelete, answers, life, NoSender
<1>2. ToSet(waiting') = ToSet(waiting) \ {m \in ToSet(waiting) : Dropped(m)}
    BY Facts, WithoutProperties DEF SenderDelete
<1>3. \A m \in ToSet(waiting) : Dropped(m) <=> m \in ToSet(sender.list)
  <2>1. DOMAIN sender.list = 1 .. Len(sender.list)
    BY Facts, LenProperties
  <2> QED
    BY <2>1 DEF Dropped, Contains, ToSet
<1>4. InOnePlace' /\ NoneBehind'
  <2>1. InOnePlace'
    BY <1>1, <1>2, EmptyToSet, InOnePlaceKept DEF SaidInv, Said, Listed
  <2> QED
    BY <1>1, <1>2, <2>1, NoneBehindKept DEF SaidInv, Said
<1>5. \A m \in Msgs : AtPerson(m)' \/ AtSender(m)' \/ Behind(m)' => MayBeSaid(m)
    BY <1>1, <1>2, <1>3 DEF AtPerson, AtSender, Behind, MayBeSaid
<1>6. Links' /\ HandedOn' /\ Answered' /\ SaidWritten' /\ OncePerLife'
    BY <1>1, <1>5, ListsSaid
<1> QED
    BY <1>4, <1>6 DEF Said

LEMMA SenderSendSaid == ASSUME SaidInv, SenderSend PROVE Said'
<1>1. UNCHANGED <<written, author, waiting, log, req, downs>> /\ sender.at = "send"
    BY DEF SenderSend, life
<1>2. PICK as \in Callable :
          \/ /\ Begin(as, author[Head(sender.list)], "sender", sender.list)
             /\ sender' = [sender EXCEPT !.at = "sending"] /\ UNCHANGED told
          \/ /\ UNCHANGED answers
             /\ \/ sender' = NoSender /\ UNCHANGED told
                \/ sender' = [sender EXCEPT !.at = "delete"] /\ told' = told \cup ToSet(sender.list)
    BY DEF SenderSend
<1>3. told \subseteq told'
    BY <1>2
<1>4. \/ sender'.at = "idle" /\ sender'.list = <<>>
      \/ sender'.at \in {"sending", "delete"} /\ sender'.list = sender.list
  <2>1. \/ sender' = NoSender \/ \E l \in {"sending", "delete"} : sender' = [sender EXCEPT !.at = l]
    BY <1>2
  <2> QED
    BY <2>1, Facts DEF NoSender, Senders
<1>5. InOnePlace' /\ NoneBehind'
  <2>1. InOnePlace'
    BY <1>1, <1>4, EmptyToSet, InOnePlaceKept DEF SaidInv, Said, Listed
  <2> QED
    BY <1>1, <1>4, <2>1, NoneBehindKept DEF SaidInv, Said
<1>6. \A m \in Msgs : AtPerson(m)' \/ AtSender(m)' \/ Behind(m)' => MayBeSaid(m)
    BY <1>1, <1>4 DEF AtPerson, AtSender, Behind, MayBeSaid
<1>7. CASE /\ Begin(as, author[Head(sender.list)], "sender", sender.list)
           /\ sender' = [sender EXCEPT !.at = "sending"]
  <2>1. sender'.at = "sending" /\ sender'.list = sender.list
    BY <1>4, <1>7, Facts DEF Senders
  <2>2. \A m \in Msgs : m \in ToSet(sender.list) => MayBeSaid(m)
    BY <1>1 DEF MayBeSaid, AtSender
  <2>3. "sender" \notin People
    BY PeopleAssumption
  <2> DEFINE who == author[Head(sender.list)]
  <2>4. Begin(as, who, "sender", sender.list)
    BY <1>7
  <2>5. \A m \in Msgs : AtPerson(m)' \/ AtSender(m)' \/ Behind(m)' \/ m \in ToSet(sender.list) => MayBeSaid(m)
    BY <1>6, <2>2
  <2> HIDE DEF who
  <2>6. Links' /\ HandedOn' /\ Answered' /\ SaidWritten' /\ OncePerLife'
    BY <1>1, <1>3, <2>1, <2>3, <2>4, <2>5, BeginSaid
  <2> QED
    BY <1>5, <2>6 DEF Said
<1>8. CASE /\ UNCHANGED answers
           /\ \/ sender' = NoSender
              \/ sender' = [sender EXCEPT !.at = "delete"] /\ told' = told \cup ToSet(sender.list)
  <2>1. UNCHANGED <<turn, stage>>
    BY <1>8 DEF answers
  <2>2. Links'
    <3>1. \A t \in Turns : Beginning(t)' => Beginning(t) /\ turn'[t] = turn[t]
      BY <2>1 DEF Beginning
    <3> QED
      BY <1>1, <3>1, LinksKept DEF SaidInv, Said
  <2>3. HandedOn' /\ SaidWritten'
    BY <1>1, <2>1 DEF SaidInv, Said, HandedOn, SaidWritten
  <2>4. Answered'
    <3>1. \A m : Times(m)' = Times(m)
      BY <1>1 DEF Times
    <3>2. sender'.at = "delete" => sender'.list = sender.list /\ ToSet(sender.list) \subseteq told'
      BY <1>4, <1>8 DEF NoSender
    <3> HIDE DEF Times
    <3> QED
      BY <2>1, <3>1, <3>2 DEF SaidInv, Said, Answered
  <2>5. OncePerLife'
    <3>1. \A m \in Msgs : InTurn(m)' => InTurn(m)
      BY <2>1 DEF InTurn
    <3>2. \A m \in Msgs : MayBeSaid(m)' => MayBeSaid(m)
      BY <1>6, <3>1 DEF MayBeSaid
    <3> QED
      BY <1>1, <3>2, OnceKept DEF SaidInv, Said
  <2> QED
    BY <1>5, <2>2, <2>3, <2>4, <2>5 DEF Said
<1> QED
    BY <1>2, <1>7, <1>8

-----------------------------------------------------------------------------
(* A message is said, and its turn gets a job. *)

LEMMA StoreSaid == ASSUME SaidInv, NEW t \in Turns, StoreMessage(t) PROVE Said'
<1> DEFINE e == [by |-> turn[t].actor, parts |-> turn[t].parts]
<1>1. /\ stage[t] = "begun" /\ log' = Append(log, e) /\ stage' = [stage EXCEPT ![t] = "stored"]
      /\ UNCHANGED <<written, author, waiting, told, req, sender, turn, downs>>
    BY DEF StoreMessage, callers, life
<1>2. turn[t] \in Turn /\ turn[t].parts \in Seq(Msgs) /\ e \in Entry
  <2>1. turn[t] \in Turn
    BY <1>1 DEF SaidInv, TypeInv, TypeOK
  <2> QED
    BY <2>1 DEF Turn, Entry
<1>3. stage'[t] = "stored" /\ \A u \in Turns : u # t => stage'[u] = stage[u]
    BY <1>1 DEF SaidInv, TypeInv, TypeOK
<1>4. Beginning(t) /\ \A u \in Turns : Beginning(u) => u = t
  <2>1. Beginning(t)
    BY <1>1 DEF SaidInv, Said, HandedOn, Beginning
  <2> QED
    BY <2>1, BeginningActive DEF SaidInv, Said
<1>5. \A u \in Turns : Beginning(u)' => Beginning(u)
    BY <1>1, <1>3, <1>4 DEF Beginning
<1>6. Links'
    BY <1>1, <1>5, LinksKept DEF SaidInv, Said
<1>7. HandedOn'
  <2>1. turn[t].from # "turn"
    BY <1>4 DEF Beginning
  <2> QED
    BY <1>1, <1>3, <2>1 DEF SaidInv, Said, HandedOn
<1>8. InOnePlace' /\ NoneBehind'
    BY <1>1 DEF SaidInv, Said, InOnePlace, Listed, NoneBehind
<1>9. e.parts = turn[t].parts
    OBVIOUS
<1> HIDE DEF e
<1>10. \A m \in Msgs : Times(m) \in Nat /\ Times(m)' = IF m \in ToSet(turn[t].parts) THEN Times(m) + 1 ELSE Times(m)
    BY <1>1, <1>2, <1>9, TimesAppend, TimesType DEF SaidInv, TypeInv
<1>11. turn[t].from \in People \cup {"sender", "office"}
    BY <1>2, <1>4 DEF Turn, Beginning
<1>12. SaidWritten'
  <2>1. ToSet(turn[t].parts) \subseteq 1 .. written
    <3>1. CASE turn[t].from \in People
      <4>1. req[turn[t].from].at = "sending" /\ turn[t].parts = <<req[turn[t].from].m>>
        BY <1>4, <3>1 DEF SaidInv, Said, Links
      <4> QED
        BY <3>1, <4>1, Facts, OneToSet
    <3>2. CASE turn[t].from = "sender"
      BY <1>4, <3>2, Facts DEF SaidInv, Said, Links
    <3>3. CASE turn[t].from = "office"
      BY <1>4, <3>3, EmptyToSet DEF SaidInv, Said, Links
    <3> QED
      BY <1>11, <3>1, <3>2, <3>3
  <2>2. /\ Len(log) \in Nat /\ DOMAIN log = 1 .. Len(log) /\ DOMAIN log' = 1 .. Len(log) + 1
        /\ \A j \in 1 .. Len(log) : log'[j] = log[j]
        /\ log'[Len(log) + 1] = e
    <3>1. log \in Seq(Entry)
      BY Facts
    <3> QED
      BY <1>1, <1>2, <3>1, LenProperties, AppendProperties
  <2>3. ASSUME NEW i \in DOMAIN log' PROVE ToSet(log'[i].parts) \subseteq 1 .. written
    <3>1. CASE i \in 1 .. Len(log)
      BY <2>2, <3>1 DEF SaidInv, Said, SaidWritten
    <3>2. CASE i = Len(log) + 1
      BY <1>9, <2>1, <2>2, <3>2
    <3> QED
      BY <2>2, <3>1, <3>2
  <2> QED
    BY <1>1, <2>3 DEF SaidWritten
<1>13. Answered'
  <2>1. \A u \in Turns : stage'[u] = "stored" => \A m \in ToSet(turn'[u].parts) : Times(m)' > 0
    <3> SUFFICES ASSUME NEW u \in Turns, stage'[u] = "stored", NEW m \in ToSet(turn[u].parts)
                 PROVE  Times(m)' > 0
        BY <1>1
    <3>1. m \in Msgs
      <4>1. stage[u] # "none"
        BY <1>1, <1>3
      <4>2. turn[u] \in Turn
        BY <4>1 DEF SaidInv, TypeInv, TypeOK
      <4> QED
        BY <4>2, SetOfSeq DEF Turn
    <3>2. CASE u = t
      BY <1>10, <3>1, <3>2
    <3>3. CASE u # t
      <4>1. Times(m) > 0
        BY <1>3, <3>3 DEF SaidInv, Said, Answered
      <4> QED
        BY <1>10, <3>1, <4>1
    <3> QED
      BY <3>2, <3>3
  <2>2. ASSUME sender.at = "delete", NEW m \in ToSet(sender.list) PROVE Times(m)' > 0 \/ m \in told
    <3>1. Times(m) > 0 \/ m \in told
      BY <2>2 DEF SaidInv, Said, Answered
    <3>2. m \in Msgs
      BY Facts
    <3> QED
      BY <1>10, <3>1, <3>2
  <2> QED
    BY <1>1, <2>1, <2>2 DEF Answered
\* A message that its turn says now can be said no more from elsewhere.
<1>14. ASSUME NEW m \in Msgs, m \in ToSet(turn[t].parts) PROVE MayBeSaid(m) /\ ~MayBeSaid(m)'
  <2>1. ~InTurn(m)'
    <3>1. ASSUME NEW u \in Turns, stage'[u] = "begun" PROVE FALSE
      <4>1. u # t /\ stage[u] = "begun"
        BY <1>3, <3>1
      <4>2. Beginning(u)
        BY <4>1 DEF SaidInv, Said, HandedOn, Beginning
      <4> QED
        BY <1>4, <4>1, <4>2
    <3> QED
      BY <3>1 DEF InTurn
  <2>2. CASE turn[t].from \in People
    <3>1. PICK p \in People : req[p].at = "sending" /\ turn[t].parts = <<req[p].m>>
      BY <1>4, <2>2 DEF SaidInv, Said, Links
    <3>2. m = req[p].m /\ author[m] = p /\ \A l \in Listed : author[l] = p => l < m
      BY <1>14, <3>1, OneToSet DEF SaidInv, Said, InOnePlace
    <3>3. m \notin Listed
      BY <3>2, TurnsNat
    <3>4. ~AtPerson(m)
      <4>1. ASSUME NEW q \in People, req[q].at \in {"active", "queued", "send", "queue"}, req[q].m = m PROVE FALSE
        <5>1. author[m] = q
          BY <4>1 DEF SaidInv, Said, InOnePlace
        <5> QED
          BY <3>1, <3>2, <4>1, <5>1
      <4> QED
        BY <4>1 DEF AtPerson
    <3>5. ~AtSender(m) /\ ~Behind(m)
      BY <3>3 DEF AtSender, Behind, Listed
    <3> QED
      BY <1>1, <1>14, <2>1, <3>4, <3>5 DEF MayBeSaid, AtPerson, AtSender, Behind, InTurn
  <2>3. CASE turn[t].from = "sender"
    <3>1. sender.at = "sending" /\ m \in ToSet(sender.list)
      BY <1>4, <1>14, <2>3 DEF SaidInv, Said, Links
    <3>2. ~AtPerson(m)
      <4>1. ASSUME NEW q \in People, req[q].at \in {"active", "queued", "send", "queue"}, req[q].m = m PROVE FALSE
        <5>1. author[m] = q /\ m < m
          BY <3>1, <4>1 DEF SaidInv, Said, InOnePlace, Listed
        <5> QED
          BY <5>1, TurnsNat
      <4> QED
        BY <4>1 DEF AtPerson
    <3>3. ~AtSender(m) /\ ~Behind(m)
      BY <3>1 DEF AtSender, Behind
    <3> QED
      BY <1>1, <1>14, <2>1, <3>2, <3>3 DEF MayBeSaid, AtPerson, AtSender, Behind, InTurn
  <2>4. CASE turn[t].from = "office"
    BY <1>4, <1>14, <2>4, EmptyToSet DEF SaidInv, Said, Links
  <2> QED
    BY <1>11, <2>2, <2>3, <2>4
<1>15. OncePerLife'
  <2>1. ASSUME NEW m \in Msgs, m \notin ToSet(turn[t].parts), MayBeSaid(m)' PROVE MayBeSaid(m)
    <3>1. InTurn(m)' => InTurn(m)
      BY <1>1, <1>3 DEF InTurn
    <3>2. AtPerson(m)' \/ AtSender(m)' \/ Behind(m)' => MayBeSaid(m)
      BY <1>1 DEF MayBeSaid, AtPerson, AtSender, Behind
    <3> QED
      BY <2>1, <3>1, <3>2 DEF MayBeSaid
  <2>2. downs \in Nat /\ downs' = downs
    BY <1>1, BoundAssumption DEF SaidInv, TypeInv, TypeOK
  <2>3. \A m \in Msgs : Times(m) <= 1 + downs /\ (MayBeSaid(m) => Times(m) <= downs)
    BY DEF SaidInv, Said, OncePerLife
  <2> HIDE DEF Times, MayBeSaid
  <2>4. ASSUME NEW m \in Msgs PROVE Times(m)' <= 1 + downs /\ (MayBeSaid(m)' => Times(m)' <= downs)
    <3>1. CASE m \in ToSet(turn[t].parts)
      BY <1>10, <1>14, <2>2, <2>3, <3>1
    <3>2. CASE m \notin ToSet(turn[t].parts)
      BY <1>10, <2>1, <2>3, <3>2
    <3> QED
      BY <3>1, <3>2
  <2> QED
    BY <2>2, <2>4 DEF OncePerLife
<1> QED
    BY <1>6, <1>7, <1>8, <1>12, <1>13, <1>15 DEF Said

LEMMA BeginJobSaid == ASSUME SaidInv, NEW t \in Turns, BeginJob(t) PROVE Said'
<1>1. /\ stage[t] = "stored" /\ stage' = [stage EXCEPT ![t] = "answering"] /\ turn[t].from # "turn"
      /\ UNCHANGED <<written, author, waiting, log, told, turn, downs>>
      /\ req' = IF turn[t].from \in People THEN [req EXCEPT ![turn[t].from] = NoRequest] ELSE req
      /\ sender' = IF turn[t].from = "sender" THEN [sender EXCEPT !.at = "delete"] ELSE sender
    BY DEF BeginJob, chat
<1>2. stage'[t] = "answering" /\ \A u \in Turns : u # t => stage'[u] = stage[u]
    BY <1>1 DEF SaidInv, TypeInv, TypeOK
<1>3. Beginning(t) /\ \A u \in Turns : Beginning(u) => u = t
  <2>1. Beginning(t)
    BY <1>1 DEF Beginning
  <2> QED
    BY <2>1, BeginningActive DEF SaidInv, Said
<1>4. Links'
  <2>1. \A u \in Turns : ~Beginning(u)'
    BY <1>1, <1>2, <1>3 DEF Beginning
  <2> QED
    BY <2>1 DEF Links
<1>5. HandedOn' /\ SaidWritten'
    BY <1>1, <1>2 DEF SaidInv, Said, HandedOn, SaidWritten
<1>6. \A p \in People : req'[p].at # "idle" => req'[p] = req[p]
    BY <1>1, Facts DEF NoRequest
<1>7. \/ sender' = sender
      \/ /\ turn[t].from = "sender" /\ sender.at = "sending" /\ turn[t].parts = sender.list
         /\ sender'.at = "delete" /\ sender'.list = sender.list
  <2>1. CASE turn[t].from = "sender"
    BY <1>1, <1>3, <2>1, Facts DEF SaidInv, Said, Links, Senders
  <2> QED
    BY <1>1, <2>1
<1>8. InOnePlace' /\ NoneBehind'
  <2>1. InOnePlace'
    BY <1>1, <1>6, <1>7, InOnePlaceKept DEF SaidInv, Said, Listed
  <2> QED
    BY <1>1, <1>6, <1>7, <2>1, NoneBehindKept DEF SaidInv, Said
<1>9. Answered'
  <2>1. \A m : Times(m)' = Times(m)
    BY <1>1 DEF Times
  <2> HIDE DEF Times
  <2> QED
    BY <1>1, <1>2, <1>7, <2>1 DEF SaidInv, Said, Answered
<1>10. OncePerLife'
  <2>1. ASSUME NEW m \in Msgs, MayBeSaid(m)' PROVE MayBeSaid(m)
    <3>1. InTurn(m)' => InTurn(m)
      BY <1>1, <1>2 DEF InTurn
    <3>2. AtPerson(m)' => AtPerson(m)
      BY <1>6 DEF AtPerson
    <3>3. AtSender(m)' \/ Behind(m)' => AtSender(m) \/ Behind(m)
      BY <1>1, <1>7 DEF AtSender, Behind
    <3> QED
      BY <2>1, <3>1, <3>2, <3>3 DEF MayBeSaid
  <2> QED
    BY <1>1, <2>1, OnceKept DEF SaidInv, Said
<1> QED
    BY <1>4, <1>5, <1>8, <1>9, <1>10 DEF Said

-----------------------------------------------------------------------------
(* The other steps say nothing. *)

LEMMA BeginJobNextSaid == ASSUME SaidInv, NEW t \in Turns, BeginJobNext(t) PROVE Said'
<1>1. UNCHANGED <<written, author, waiting, log, told, req, sender, turn, downs>>
    BY DEF BeginJobNext, chat, life
<1>2. \E s \in {"answering", "over"} : stage' = [stage EXCEPT ![t] = s, ![turn[t].parent] = "next"]
    BY DEF BeginJobNext, Began, GaveWay
<1>3. stage \in [Turns -> Stages]
    BY DEF SaidInv, TypeInv, TypeOK
<1>4. \A u \in Turns : stage'[u] \in {"begun", "stored"} => stage'[u] = stage[u]
    BY <1>2, <1>3
<1> QED
    BY <1>1, <1>4, Aside

LEMMA StartTurnSaid == ASSUME SaidInv, NEW t \in Turns, StartTurn(t) PROVE Said'
<1> DEFINE s == Head(todo[t])
           hand == s.kind = "hand"
           rest == IF s.kind = "tagged" THEN [i \in DOMAIN Tail(todo[t]) |-> Tail(todo[t])[i].agent] ELSE <<>>
           r == [agent |-> s.agent, bg |-> hand, by |-> IF hand THEN turn[t].agent ELSE NoOne,
                 root |-> turn[t].root, actor |-> turn[t].actor, queue |-> rest,
                 from |-> "turn", parent |-> t, parts |-> <<>>]
<1>1. UNCHANGED <<written, author, waiting, log, told, req, sender, downs>>
    BY DEF StartTurn, chat, callers, life
<1>2. Register(r) \/ (UNCHANGED turn /\ stage' = [stage EXCEPT ![t] = "next"])
    BY DEF StartTurn
<1>3. r.from = "turn" /\ r.parts = <<>>
    OBVIOUS
<1>4. /\ turn \in [Turns -> Turn \cup {Blank}] /\ stage \in [Turns -> Stages]
    BY DEF SaidInv, TypeInv, TypeOK
<1> HIDE DEF r
<1>5. \A u \in Turns : stage'[u] \in {"begun", "stored"} =>
         \/ stage'[u] = stage[u] /\ turn'[u] = turn[u]
         \/ stage'[u] = "stored" /\ turn'[u].from = "turn" /\ turn'[u].parts = <<>>
  <2>1. CASE UNCHANGED turn /\ stage' = [stage EXCEPT ![t] = "next"]
    BY <1>4, <2>1
  <2>2. CASE Register(r)
    <3>1. turn' = [turn EXCEPT ![n + 1] = r]
      BY <2>2 DEF Register
    <3>2. stage' = [u \in Turns |-> IF u = n + 1 THEN "stored" ELSE IF u = r.parent THEN "started" ELSE stage[u]]
      BY <1>3, <2>2 DEF Register
    <3> QED
      BY <1>3, <1>4, <3>1, <3>2
  <2> QED
    BY <1>2, <2>1, <2>2
<1> QED
    BY <1>1, <1>5, Aside

LEMMA OnwardSaid ==
    ASSUME SaidInv, NEW t \in Turns,
           AnswerEnd(t) \/ AnswerCut(t) \/ NextTurn(t) \/ MayStart(t) \/ EndTurn(t) \/ \E a \in Agents : Delegate(t, a)
    PROVE  Said'
<1>1. UNCHANGED <<written, author, waiting, log, told, req, sender, turn, downs>>
    BY DEF AnswerEnd, AnswerCut, NextTurn, MayStart, EndTurn, Delegate, chat, callers, life
<1>2. stage' = stage \/ \E s \in {"ended", "next", "start", "over"} : stage' = [stage EXCEPT ![t] = s]
    BY DEF AnswerEnd, AnswerCut, NextTurn, MayStart, EndTurn, Delegate
<1>3. stage \in [Turns -> Stages]
    BY DEF SaidInv, TypeInv, TypeOK
<1>4. \A u \in Turns : stage'[u] \in {"begun", "stored"} => stage'[u] = stage[u]
    BY <1>2, <1>3
<1> QED
    BY <1>1, <1>4, Aside

LEMMA OfficeSaid ==
    ASSUME SaidInv, Stop \/ Shutdown \/ ShutdownTakes \/ ListRunning \/ FailRunning \/ SendAllQueued \/ UNCHANGED vars
    PROVE  Said'
<1>1. UNCHANGED <<written, author, waiting, log, told, req, sender, turn, stage, downs>>
    BY DEF Stop, Shutdown, ShutdownTakes, ListRunning, FailRunning, SendAllQueued, vars,
           chat, callers, answers, life
<1> QED
    BY <1>1, Aside

LEMMA ResumeSaid == ASSUME SaidInv, ResumeInterrupted PROVE Said'
<1>1. UNCHANGED <<written, author, waiting, log, told, req, sender, downs>>
    BY DEF ResumeInterrupted, chat, callers
<1>2. CASE UNCHANGED answers
  <2>1. UNCHANGED <<turn, stage>>
    BY <1>2 DEF answers
  <2> QED
    BY <1>1, <2>1, Aside
<1>3. CASE cut.agents # <<>> /\ Begin(cut.agents, cut.who, "office", <<>>)
  <2>1. cut.agents \in Callable
    BY <1>3 DEF SaidInv, TypeInv, HeldInv, TypedLists
  <2>2. InOnePlace' /\ NoneBehind'
    BY <1>1 DEF SaidInv, Said, InOnePlace, Listed, NoneBehind
  <2>3. \A m \in Msgs : AtPerson(m)' \/ AtSender(m)' \/ Behind(m)' \/ m \in ToSet(<<>>) => MayBeSaid(m)
    BY <1>1, EmptyToSet DEF AtPerson, AtSender, Behind, MayBeSaid
  <2>4. "office" \notin People
    BY PeopleAssumption
  <2> DEFINE as == cut.agents
             who == cut.who
  <2>5. as \in Callable /\ Begin(as, who, "office", <<>>)
    BY <1>3, <2>1
  <2> HIDE DEF as, who
  <2>6. Links' /\ HandedOn' /\ Answered' /\ SaidWritten' /\ OncePerLife'
    BY <1>1, <2>3, <2>4, <2>5, BeginSaid
  <2> QED
    BY <2>2, <2>6 DEF Said
<1> QED
    BY <1>2, <1>3 DEF ResumeInterrupted

\* Office is gone: what was said stays said, and may be said once more.
LEMMA DownSaid == ASSUME SaidInv, Down PROVE Said'
<1>1. /\ UNCHANGED <<written, author, waiting, log, told, turn>> /\ downs' = downs + 1
      /\ \A p \in People : req'[p].at = "idle"
      /\ sender'.at = "idle" /\ sender'.list = <<>>
      /\ \A t \in Turns : stage'[t] \in {"none", "over"}
    BY DEF Down, chat, NoRequest, NoSender
<1>2. Links' /\ HandedOn' /\ InOnePlace' /\ SaidWritten' /\ Answered' /\ NoneBehind'
  <2>1. \A t \in Turns : stage'[t] \notin {"begun", "stored"}
    BY <1>1
  <2>2. Links' /\ HandedOn'
    BY <2>1 DEF Links, Beginning, HandedOn
  <2>3. SaidWritten'
    BY <1>1 DEF SaidInv, Said, SaidWritten
  <2>4. InOnePlace' /\ NoneBehind'
    BY <1>1 DEF InOnePlace, NoneBehind
  <2>5. Answered'
    BY <1>1, <2>1 DEF Answered
  <2> QED
    BY <2>2, <2>3, <2>4, <2>5
<1>3. OncePerLife'
  <2>1. \A m \in Msgs : Times(m)' = Times(m) /\ Times(m) \in Nat
    BY <1>1, TimesType DEF Times, SaidInv, TypeInv
  <2>2. downs \in Nat
    BY BoundAssumption DEF SaidInv, TypeInv, TypeOK
  <2>3. \A m \in Msgs : Times(m) <= 1 + downs
    BY DEF SaidInv, Said, OncePerLife
  <2> HIDE DEF Times, MayBeSaid
  <2>4. \A m \in Msgs : Times(m)' <= downs + 1 /\ Times(m)' <= 1 + (downs + 1)
    BY <2>1, <2>2, <2>3
  <2> QED
    BY <1>1, <2>4 DEF OncePerLife
<1> QED
    BY <1>2, <1>3 DEF Said

LEMMA StepSaid == SaidInv /\ [Next]_vars => SaidInv'
<1> SUFFICES ASSUME SaidInv, [Next]_vars PROVE SaidInv'
    OBVIOUS
<1>1. TypeInv'
    BY StepTypes DEF SaidInv
<1>2. ASSUME NEW p \in People, Write(p) \/ Request(p) PROVE Said'
    BY <1>2, WriteSaid, LookSaid, SendSaid, QueueSaid DEF Request
<1>3. Sender => Said'
    BY SenderReadsSaid, SenderSendSaid, SenderDeleteSaid DEF Sender
<1>4. Starts => Said'
    BY OfficeSaid, ResumeSaid DEF Starts
<1>5. ASSUME NEW t \in Turns, Goes(t) \/ \E a \in Agents : Delegate(t, a) PROVE Said'
    BY <1>5, StoreSaid, BeginJobSaid, BeginJobNextSaid, StartTurnSaid, OnwardSaid DEF Goes
<1>6. Unqueue \/ Stop \/ Shutdown \/ ShutdownTakes \/ Down \/ UNCHANGED vars => Said'
    BY UnqueueSaid, OfficeSaid, DownSaid
<1>7. Said'
    BY <1>2, <1>3, <1>4, <1>5, <1>6, Zenon DEF Next
<1> QED
    BY <1>1, <1>7 DEF SaidInv

LEMMA InitSaidInv == Init => SaidInv
  BY InitTypes, InitSaid DEF SaidInv

\* However often people write, take back, stop and restart: a message is said
\* once in the chat, and once more for each time office went down.
THEOREM OnceEachHolds == Spec => []OnceEach
<1>1. SaidInv => OnceEach
    BY DEF SaidInv, Said, OncePerLife, OnceEach
<1> QED
    BY InitSaidInv, StepSaid, <1>1, PTL DEF Spec

\* What no longer waits in the chat was said there, said not to go, or taken
\* back by a person.
THEOREM NotLostHolds == Spec => NotLost
<1> DEFINE Accounted(m) == m \in ToSet(waiting') \/ Times(m) > 0 \/ m \in told \/ m \in taken'
<1>1. ASSUME SaidInv, [Next]_vars PROVE [\A m \in ToSet(waiting) : Accounted(m)]_vars
  <2>1. CASE UNCHANGED waiting
    BY <2>1
  <2>2. ASSUME NEW p \in People, Queue(p) PROVE ToSet(waiting) \subseteq ToSet(waiting')
    <3>1. req[p].m \in Msgs /\ waiting \in Seq(Msgs)
      BY <1>1, <2>2, Facts DEF Queue, At
    <3> QED
      BY <2>2, <3>1, AppendSet DEF Queue
  <2>3. ASSUME Unqueue PROVE \A m \in ToSet(waiting) : Accounted(m)
    <3>1. PICK M : taken' = taken \cup M /\ waiting' = Without(waiting, M)
      BY <2>3 DEF Unqueue
    <3>2. ToSet(waiting') = ToSet(waiting) \ M
      BY <1>1, <3>1, Facts, WithoutProperties
    <3> QED
      BY <3>1, <3>2
  <2>4. ASSUME SenderDelete PROVE \A m \in ToSet(waiting) : Accounted(m)
    <3>1. ToSet(waiting') = ToSet(waiting) \ {m \in ToSet(waiting) : Dropped(m)}
      BY <1>1, <2>4, Facts, WithoutProperties DEF SenderDelete
    <3>2. ASSUME NEW m \in ToSet(waiting), Dropped(m) PROVE Times(m) > 0 \/ m \in told
      <4>1. DOMAIN sender.list = 1 .. Len(sender.list)
        BY <1>1, Facts, LenProperties
      <4>2. m \in ToSet(sender.list)
        BY <3>2, <4>1 DEF Dropped, Contains, ToSet
      <4>3. sender.at = "delete"
        BY <2>4 DEF SenderDelete
      <4> QED
        BY <1>1, <4>2, <4>3 DEF SaidInv, Said, Answered
    <3> QED
      BY <3>1, <3>2
  <2>5. \/ UNCHANGED waiting \/ (\E p \in People : Queue(p)) \/ Unqueue \/ SenderDelete
    <3>1. ASSUME NEW p \in People, Write(p) \/ Request(p) PROVE UNCHANGED waiting \/ Queue(p)
      BY <3>1 DEF Write, Request, LookActive, LookQueued, Send, chat
    <3>2. Sender => UNCHANGED waiting \/ SenderDelete
      BY DEF Sender, SenderActive, SenderList, SenderSend, chat
    <3>3. ASSUME NEW t \in Turns, Goes(t) \/ \E a \in Agents : Delegate(t, a) PROVE UNCHANGED waiting
      BY <3>3 DEF Goes, StoreMessage, BeginJob, BeginJobNext, AnswerEnd, AnswerCut, NextTurn, MayStart,
                  StartTurn, EndTurn, Delegate, chat
    <3>4. Stop \/ Shutdown \/ ShutdownTakes \/ Down \/ Starts \/ UNCHANGED vars => UNCHANGED waiting
      BY DEF Stop, Shutdown, ShutdownTakes, Down, Starts, ListRunning, FailRunning, ResumeInterrupted,
             SendAllQueued, vars, chat
    <3> QED
      BY <1>1, <3>1, <3>2, <3>3, <3>4, Zenon DEF Next
  <2> QED
    BY <2>1, <2>2, <2>3, <2>4, <2>5
<1> QED
    BY InitSaidInv, StepSaid, <1>1, PTL DEF Spec, NotLost

\* What a person wrote earlier and still waits does not come after what they
\* say now, whoever stops, takes back or restarts in between.
THEOREM PersonOrderHolds == Spec => PersonOrder
<1> DEFINE Order ==
        log' # log =>
        LET said == ToSet(Last(log').parts) IN
        \A m \in said, l \in ToSet(waiting) :
            l < m /\ author[l] = author[m] => l \in said \/ Times(l) > 0
<1>1. ASSUME SaidInv, [Next]_vars PROVE [Order]_vars
  <2> SUFFICES ASSUME log' # log PROVE Order
      OBVIOUS
  <2>1. \E t \in Turns : StoreMessage(t)
    <3>1. ASSUME NEW p \in People, Write(p) \/ Request(p) PROVE UNCHANGED log
      BY <3>1 DEF Write, Request, LookActive, LookQueued, Send, Queue, chat
    <3>2. Sender => UNCHANGED log
      BY DEF Sender, SenderActive, SenderList, SenderSend, SenderDelete, chat
    <3>3. ASSUME NEW t \in Turns, Goes(t) \/ \E a \in Agents : Delegate(t, a)
          PROVE  UNCHANGED log \/ StoreMessage(t)
      BY <3>3 DEF Goes, BeginJob, BeginJobNext, AnswerEnd, AnswerCut, NextTurn, MayStart,
                  StartTurn, EndTurn, Delegate, chat
    <3>4. Unqueue \/ Stop \/ Shutdown \/ ShutdownTakes \/ Down \/ Starts \/ UNCHANGED vars => UNCHANGED log
      BY DEF Unqueue, Stop, Shutdown, ShutdownTakes, Down, Starts, ListRunning, FailRunning, ResumeInterrupted,
             SendAllQueued, vars, chat
    <3> QED
      BY <1>1, <3>1, <3>2, <3>3, <3>4, Zenon DEF Next
  <2>2. PICK t \in Turns : StoreMessage(t)
    BY <2>1
  <2> DEFINE e == [by |-> turn[t].actor, parts |-> turn[t].parts]
  <2>3. stage[t] = "begun" /\ log' = Append(log, e)
    BY <2>2 DEF StoreMessage
  <2>4. turn[t] \in Turn /\ e \in Entry /\ e.parts = turn[t].parts
    <3>1. turn[t] \in Turn
      BY <1>1, <2>3 DEF SaidInv, TypeInv, TypeOK
    <3> QED
      BY <3>1 DEF Turn, Entry
  <2> HIDE DEF e
  <2>5. Last(log') = e
    <3>1. log \in Seq(Entry)
      BY <1>1, Facts
    <3>2. log' \in Seq(Entry) /\ Len(log') = Len(log) + 1 /\ log'[Len(log) + 1] = e
      BY <2>3, <2>4, <3>1, AppendProperties
    <3> QED
      BY <3>2 DEF Last
  <2>6. Beginning(t)
    BY <1>1, <2>3 DEF SaidInv, Said, HandedOn, Beginning
  <2>7. ASSUME NEW m \in ToSet(turn[t].parts), NEW l \in ToSet(waiting), l < m, author[l] = author[m]
        PROVE  l \in ToSet(turn[t].parts)
    <3>1. CASE turn[t].from \in People
      <4>1. PICK p \in People : req[p].at = "sending" /\ turn[t].parts = <<req[p].m>>
        BY <1>1, <2>6, <3>1 DEF SaidInv, Said, Links
      <4>2. m = req[p].m /\ author[m] = p
        BY <1>1, <2>7, <4>1, OneToSet DEF SaidInv, Said, InOnePlace
      <4>3. author[l] # p
        BY <1>1, <4>1 DEF SaidInv, Said, NoneBehind
      <4> QED
        BY <2>7, <4>2, <4>3
    <3>2. CASE turn[t].from = "sender"
      <4>1. sender.at = "sending" /\ turn[t].parts = sender.list
        BY <1>1, <2>6, <3>2 DEF SaidInv, Said, Links
      <4> QED
        BY <1>1, <2>7, <4>1 DEF SaidInv, Said, NoneBehind
    <3>3. CASE turn[t].from = "office"
      BY <1>1, <2>6, <2>7, <3>3, EmptyToSet DEF SaidInv, Said, Links
    <3> QED
      BY <2>4, <2>6, <3>1, <3>2, <3>3 DEF Turn, Beginning
  <2> QED
    BY <2>4, <2>5, <2>7
<1> QED
    BY InitSaidInv, StepSaid, <1>1, PTL DEF Spec, PersonOrder

-----------------------------------------------------------------------------
(* How often a message is answered. *)

\* The turns that total counts, those of them that are not reports, and those
\* that are about to add one.
Counts(t) == job[t] # "none" \/ stage[t] \in {"begun", "stored"}
Counted(r) == {t \in Turns : turn[t].root = r /\ Counts(t)}
AnswersOf(r) == {t \in Turns : turn[t].root = r /\ Counts(t) /\ ~Reports(t)}
Adds(t) == stage[t] = "start" /\ Head(todo[t]).kind # "report"
ToStart(r) == {t \in Turns : turn[t].root = r /\ Adds(t)}
Sums == \A r \in Turns : Cardinality(Counted(r)) <= total[r]

\* A turn has a job once it works, and starts others only later.
Fresh == \A t \in Turns :
    /\ stage[t] \in {"none", "begun", "stored"} => job[t] = "none" /\ todo[t] = <<>>
    /\ stage[t] = "answering" => job[t] # "none"

\* Where a turn comes from, and that who started it waits for it alone.
Born == \A t \in Turns : t <= n =>
    IF turn[t].parent = None THEN turn[t].root = t /\ ~turn[t].bg /\ turn[t].from # "turn"
    ELSE /\ turn[t].parent \in 1 .. t - 1
         /\ turn[t].root = turn[turn[t].parent].root /\ turn[t].from = "turn"
         /\ ~turn[t].bg /\ ~Reports(t) => ~Reports(turn[t].parent)
Waits == \A t \in Turns : stage[t] = "stored" /\ turn[t].from = "turn" =>
    /\ stage[turn[t].parent] = "started"
    /\ \A u \in Turns : stage[u] = "stored" /\ turn[u].parent = turn[t].parent => u = t

\* A turn in the background keeps its agent to its end; a report keeps the chat.
Within == {"answering", "ended", "next", "start", "started"}
HasAgent == \A t \in Turns : turn[t].bg /\ stage[t] \in Within => bg[turn[t].agent] = t
HasChat == \A t \in Turns : Reports(t) /\ stage[t] \in Within => active = t

\* What a turn starts; and that of the turns tagged one after another for one
\* message, one goes on with the rest.
Work(t) == IF turn[t].bg THEN {"hand", "report"} ELSE IF Reports(t) THEN {"hand"} ELSE {"hand", "tagged"}
Does == \A t \in Turns :
    /\ todo[t] \in Seq([kind : Work(t), agent : Agents])
    /\ Reports(t) => turn[t].queue = <<>>
Leading(t) ==
    /\ ~turn[t].bg /\ ~Reports(t)
    /\ \/ stage[t] \in {"begun", "answering", "ended", "started"}
       \/ stage[t] = "stored" /\ turn[t].from # "turn"
       \/ stage[t] \in {"next", "start"} /\ todo[t] # <<>>
OneLeads == \A t, u \in Turns : Leading(t) /\ Leading(u) /\ turn[t].root = turn[u].root => t = u

\* Each agent's turn may have found room for one more answer, the chat's one
\* and the one that goes on with the tagged ones, too: but while every agent is
\* about to start one, none can begin.
Most == MaxAnswers + Cardinality(Agents)
RoomFor(r) ==
    LET k == Cardinality(AnswersOf(r)) + Cardinality(ToStart(r)) IN
    \/ k <= Most
    \/ k <= Most + 1 /\ \A a \in Agents : bg[a] \in ToStart(r)
Room == \A r \in Turns : RoomFor(r)

Shape == Fresh /\ Born /\ Waits /\ HasAgent /\ HasChat /\ Does /\ OneLeads
AnswersInv == SaidInv /\ Sums /\ Shape /\ Room

-----------------------------------------------------------------------------
\* There are finitely many turns.
LEMMA AllFinite ==
    ASSUME NEW S \in SUBSET Turns
    PROVE  IsFiniteSet(S) /\ Cardinality(S) \in Nat
<1>1. IsFiniteSet(Turns)
  BY BoundAssumption, FS_Interval DEF Turns
<1> QED
  BY <1>1, FS_Subset, FS_CardinalityType

\* Fewer of them are fewer, however they are counted.
LEMMA SmallerSet ==
    ASSUME NEW S \in SUBSET Turns, NEW T \in SUBSET S
    PROVE  /\ Cardinality(T) <= Cardinality(S)
           /\ T # S => Cardinality(T) + 1 <= Cardinality(S)
<1>1. IsFiniteSet(S) /\ Cardinality(S) \in Nat /\ Cardinality(T) \in Nat
  BY AllFinite
<1> QED
  BY <1>1, FS_Subset

\* What is known of turns (in every reachable state).
LEMMA TurnFacts ==
    ASSUME SaidInv
    PROVE  /\ n \in Nat /\ n <= MaxTurns /\ MaxTurns \in Nat
           /\ turn = [t \in Turns |-> turn[t]] /\ stage \in [Turns -> Stages]
           /\ job \in [Turns -> {"none", "running", "ended"}]
           /\ total \in [Turns -> Int] /\ todo \in [Turns -> Seq([kind : Kinds, agent : Agents])]
           /\ active \in Turns \cup {None} /\ bg \in [Agents -> Turns \cup {None}] /\ None \notin Turns
           /\ \A t \in Turns : /\ t \in Nat
                               /\ stage[t] = "none" <=> n < t
                               /\ t <= n => turn[t].root \in 1 .. n
                               /\ n < t => turn[t] = Blank
                               /\ turn[t].parent \in 0 .. n /\ turn[t].agent \in Agents
                               /\ turn[t].bg \in BOOLEAN
<1>1. TypeOK /\ Before /\ TypedTurns
  BY DEF SaidInv, TypeInv, HeldInv
<1>2. None \notin Turns /\ \A t \in Turns : t \in Nat
  BY TurnsNat
<1>3. n \in Nat /\ n <= MaxTurns /\ MaxTurns \in Nat
  BY <1>1, TurnsNat DEF TypeOK
<1>4. \A t \in Turns : t <= n => turn[t].root \in 1 .. n
  BY <1>1 DEF Before
<1>5. \A t \in Turns : turn[t].parent \in 0 .. n
  BY <1>1 DEF Before
<1>6. \A t \in Turns : (stage[t] = "none" <=> n < t) /\ (turn[t] = Blank <=> n < t)
  BY <1>1 DEF TypeOK
<1>7. \A t \in Turns : turn[t].agent \in Agents /\ turn[t].bg \in BOOLEAN
  BY <1>1 DEF TypedTurns
<1>8. /\ turn = [t \in Turns |-> turn[t]] /\ stage \in [Turns -> Stages]
      /\ job \in [Turns -> {"none", "running", "ended"}]
      /\ total \in [Turns -> Int] /\ todo \in [Turns -> Seq([kind : Kinds, agent : Agents])]
      /\ active \in Turns \cup {None} /\ bg \in [Agents -> Turns \cup {None}]
  BY <1>1 DEF TypeOK, TypedTurns
<1> QED
  BY <1>2, <1>3, <1>4, <1>5, <1>6, <1>7, <1>8

\* Of the turns that are about to start another one for a message: one for each
\* agent, the chat's, and the one that goes on with the tagged ones.
Few(r) ==
    \/ Cardinality(ToStart(r)) <= Cardinality(Agents) + 1
    \/ Cardinality(ToStart(r)) <= Cardinality(Agents) + 2 /\ \A a \in Agents : bg[a] \in ToStart(r)
LEMMA FewStart == SaidInv /\ Shape => \A r \in Turns : Few(r)
<1> SUFFICES ASSUME SaidInv, Shape, NEW r \in Turns PROVE Few(r)
  OBVIOUS
<1> DEFINE S == ToStart(r)
           B == {a \in Agents : bg[a] \in S}
           T == {bg[a] : a \in B}
           L == {t \in S : Leading(t)}
<1>1. S \in SUBSET Turns /\ T \in SUBSET Turns /\ L \in SUBSET Turns
  BY DEF ToStart
<1>2. IsFiniteSet(Agents) /\ IsFiniteSet(B)
  BY AgentAssumption, FS_Subset
<1>3. IsFiniteSet(T) /\ Cardinality(T) <= Cardinality(B)
  <2>1. [a \in B |-> bg[a]] \in Surjection(B, T)
    BY DEF Surjection
  <2> QED
    BY <1>2, <2>1, FS_Surjection
<1>4. Cardinality(L) <= 1
  <2>1. \A t, u \in L : t = u
    BY <1>1 DEF Shape, OneLeads, ToStart
  <2>2. CASE L = {}
    BY <2>2, FS_EmptySet
  <2>3. ASSUME NEW t \in L PROVE Cardinality(L) <= 1
    <3>1. L = {t}
      BY <2>1
    <3> HIDE DEF L
    <3>2. Cardinality({t}) = 1
      BY FS_Singleton
    <3> QED
      BY <3>1, <3>2
  <2> QED
    BY <2>2, <2>3
<1>5. S \subseteq (T \cup L) \cup {active}
  <2> SUFFICES ASSUME NEW t \in S PROVE t \in T \/ t \in L \/ t = active
    OBVIOUS
  <2>1. t \in Turns /\ stage[t] = "start" /\ todo[t] # <<>>
    BY DEF ToStart, Adds, SaidInv, TypeInv, HeldInv, Starting
  <2>2. CASE turn[t].bg
    <3>1. bg[turn[t].agent] = t /\ turn[t].agent \in Agents
      BY <2>1, <2>2, TurnFacts DEF Shape, HasAgent, Within
    <3> QED
      BY <3>1
  <2>3. CASE Reports(t)
    BY <2>1, <2>3 DEF Shape, HasChat, Within
  <2>4. CASE ~turn[t].bg /\ ~Reports(t)
    BY <2>1, <2>4 DEF Leading
  <2> QED
    BY <2>2, <2>3, <2>4
<1>6. Cardinality(S) <= Cardinality(B) + 2
  <2>1. IsFiniteSet(L)
    BY <1>1, AllFinite
  <2> HIDE DEF S, T, L
  <2>2. IsFiniteSet(T \cup L) /\ Cardinality(T \cup L) = Cardinality(T) + Cardinality(L) - Cardinality(T \cap L)
    BY <1>3, <2>1, FS_Union
  <2>3. IsFiniteSet(T \cap L) /\ Cardinality(T \cap L) \in Nat
    <3>1. T \cap L \in SUBSET Turns
      BY <1>1
    <3> QED
      BY <3>1, AllFinite
  <2>4. Cardinality(T) \in Nat /\ Cardinality(L) \in Nat /\ Cardinality(B) \in Nat /\ Cardinality(S) \in Nat
    BY <1>1, <1>2, AllFinite, FS_CardinalityType
  <2>5. Cardinality(T \cup L) <= Cardinality(B) + 1 /\ Cardinality(T \cup L) \in Nat
    BY <1>3, <1>4, <2>2, <2>3, <2>4, FS_CardinalityType
  <2>6. IsFiniteSet((T \cup L) \cup {active}) /\ Cardinality((T \cup L) \cup {active}) <= Cardinality(T \cup L) + 1
    <3> DEFINE U == T \cup L
    <3>1. IsFiniteSet(U) /\ Cardinality(U) \in Nat
      BY <2>2, <2>5
    <3> HIDE DEF U
    <3>2. IsFiniteSet(U \cup {active}) /\ Cardinality(U \cup {active}) \in {Cardinality(U), Cardinality(U) + 1}
      BY <3>1, FS_AddElement, Zenon
    <3>3. IsFiniteSet(U \cup {active}) /\ Cardinality(U \cup {active}) <= Cardinality(U) + 1
      BY <3>1, <3>2
    <3> QED
      BY <3>3 DEF U
  <2>7. Cardinality(S) <= Cardinality((T \cup L) \cup {active}) /\ Cardinality((T \cup L) \cup {active}) \in Nat
    BY <1>5, <2>6, FS_Subset, FS_CardinalityType
  <2> QED
    BY <2>4, <2>5, <2>6, <2>7
<1>7. Cardinality(B) \in Nat /\ Cardinality(Agents) \in Nat /\ Cardinality(S) \in Nat
  BY <1>1, <1>2, AllFinite, FS_CardinalityType
<1>8. CASE B = Agents
  BY <1>6, <1>7, <1>8 DEF Few
<1>9. CASE B # Agents
  <2>1. Cardinality(B) + 1 <= Cardinality(Agents)
    BY <1>2, <1>7, <1>9, FS_Subset
  <2> QED
    BY <1>6, <1>7, <2>1 DEF Few
<1> QED
  BY <1>8, <1>9

-----------------------------------------------------------------------------
\* Fewer turns that count, and fewer that are about to add one.
LEMMA SumsKept ==
    ASSUME SaidInv, Sums, UNCHANGED <<turn, total>>, \A u \in Turns : Counts(u)' => Counts(u)
    PROVE  Sums'
<1> SUFFICES ASSUME NEW r \in Turns PROVE Cardinality(Counted(r)') <= total'[r]
  BY DEF Sums
<1>1. Counted(r)' \in SUBSET Counted(r) /\ Counted(r) \in SUBSET Turns
  BY DEF Counted
<1>2. total[r] \in Int /\ total'[r] = total[r] /\ Cardinality(Counted(r)) <= total[r]
  BY TurnFacts DEF Sums
<1> DEFINE C == Counted(r)
           D == Counted(r)'
<1>3. C \in SUBSET Turns /\ D \in SUBSET C
  BY <1>1
<1> HIDE DEF C, D
<1>4. Cardinality(D) <= Cardinality(C) /\ Cardinality(C) \in Nat /\ Cardinality(D) \in Nat
  BY <1>3, SmallerSet, AllFinite
<1> QED
  BY <1>2, <1>4 DEF C, D

\* The cap and the number of agents are numbers, and somebody answers.
LEMMA MostNat == Most \in Nat /\ Cardinality(Agents) \in Nat /\ Cardinality(Agents) >= 1 /\ MaxAnswers \in Nat
<1>1. Cardinality(Agents) \in Nat
  BY AgentAssumption, FS_CardinalityType
<1>2. Cardinality(Agents) # 0
  BY AgentAssumption, FS_EmptySet
<1> QED
  BY <1>1, <1>2, LimitAssumption DEF Most

\* A message that gets no new turn keeps its room.
LEMMA RoomKept ==
    ASSUME NEW r \in Turns, RoomFor(r), UNCHANGED turn,
           \A u \in Turns : (Counts(u)' => Counts(u)) /\ (Adds(u)' => Adds(u)),
           ToStart(r)' = ToStart(r) => \A a \in Agents : bg'[a] = bg[a] \/ bg[a] \notin ToStart(r)
    PROVE  RoomFor(r)'
<1> DEFINE A == AnswersOf(r)
           B == AnswersOf(r)'
           S == ToStart(r)
           T == ToStart(r)'
           k == Cardinality(A) + Cardinality(S)
           l == Cardinality(B) + Cardinality(T)
<1>1. A \in SUBSET Turns /\ B \in SUBSET A
  BY DEF AnswersOf, Reports
<1>2. S \in SUBSET Turns /\ T \in SUBSET S
  BY DEF ToStart
<1>3. k \in Nat /\ l \in Nat /\ l <= k /\ (T # S => l + 1 <= k)
  <2> HIDE DEF A, B, S, T
  <2>1. Cardinality(A) \in Nat /\ Cardinality(B) \in Nat /\ Cardinality(S) \in Nat /\ Cardinality(T) \in Nat
    BY <1>1, <1>2, AllFinite
  <2>2. Cardinality(B) <= Cardinality(A)
    BY <1>1, SmallerSet
  <2>3. Cardinality(T) <= Cardinality(S) /\ (T # S => Cardinality(T) + 1 <= Cardinality(S))
    BY <1>2, SmallerSet
  <2> QED
    BY <2>1, <2>2, <2>3
<1>4. k <= Most \/ (k <= Most + 1 /\ \A a \in Agents : bg[a] \in S)
  BY DEF RoomFor
<1>5. l <= Most \/ (l <= Most + 1 /\ \A a \in Agents : bg'[a] \in T)
  <2> HIDE DEF A, B, k, l
  <2>1. CASE k <= Most \/ T # S
    BY <1>3, <1>4, <2>1, MostNat
  <2>3. CASE \E a \in Agents : bg[a] \notin S
    BY <1>3, <1>4, <2>3, MostNat
  <2>4. CASE T = S /\ \A a \in Agents : bg[a] \in S
    <3>1. \A a \in Agents : bg'[a] \in T
      BY <2>4, Zenon
    <3> HIDE DEF S, T
    <3> QED
      BY <1>3, <1>4, <3>1, MostNat
  <2> QED
    BY <2>1, <2>3, <2>4
<1> QED
  BY <1>5 DEF RoomFor

\* Nothing happens to turns.
LEMMA QuietAnswers ==
    ASSUME SaidInv, Sums, Shape, Room,
           UNCHANGED <<n, turn, stage, todo, total, active, bg>>,
           \A u \in Turns : job'[u] = "none" <=> job[u] = "none"
    PROVE  Sums' /\ Shape' /\ Room'
<1>1. \A u \in Turns : (Counts(u)' => Counts(u)) /\ (Adds(u)' => Adds(u))
  BY DEF Counts, Adds
<1>2. Sums'
  BY <1>1, SumsKept
<1>3. Room'
  BY <1>1, RoomKept DEF Room
<1>4. Fresh'
  BY DEF Shape, Fresh
<1>5. Born' /\ Waits'
  BY DEF Shape, Born, Waits, Reports
<1>6. HasAgent' /\ HasChat' /\ Does' /\ OneLeads'
  BY DEF Shape, HasAgent, HasChat, Does, OneLeads, Leading, Reports, Work
<1> QED
  BY <1>2, <1>3, <1>4, <1>5, <1>6 DEF Shape

\* Before anything is written nothing is counted.
LEMMA InitAnswers == Init => Sums /\ Shape /\ Room
<1> SUFFICES ASSUME Init PROVE Sums /\ Shape /\ Room
  OBVIOUS
<1>1. /\ n = 0 /\ turn = [t \in Turns |-> Blank] /\ stage = [t \in Turns |-> "none"]
      /\ job = [t \in Turns |-> "none"] /\ todo = [t \in Turns |-> <<>>] /\ total = [t \in Turns |-> 0]
  BY DEF Init
<1>2. \A t \in Turns : ~Counts(t) /\ ~Adds(t) /\ ~Reports(t) /\ ~Leading(t) /\ stage[t] = "none"
  BY <1>1 DEF Counts, Adds, Reports, Leading, Blank
<1>3. \A r \in Turns : Counted(r) = {} /\ AnswersOf(r) = {} /\ ToStart(r) = {}
  BY <1>2 DEF Counted, AnswersOf, ToStart
<1>4. Cardinality({}) = 0
  BY FS_EmptySet
<1>5. Sums
  <2>1. \A r \in Turns : Cardinality(Counted(r)) = 0
    BY <1>3, <1>4, Zenon
  <2>2. \A r \in Turns : total[r] = 0
    BY <1>1
  <2> HIDE DEF Counted
  <2> QED
    BY <2>1, <2>2 DEF Sums
<1>6. Room
  BY <1>3, <1>4, MostNat DEF Room, RoomFor
<1>7. Fresh /\ Waits /\ HasAgent /\ HasChat /\ OneLeads
  BY <1>1, <1>2 DEF Fresh, Waits, HasAgent, HasChat, OneLeads, Within
<1>8. Does
  BY <1>1, <1>2, EmptySeq DEF Does
<1>9. Born
  <2>1. \A t \in Turns : ~(t <= 0)
    BY TurnsNat DEF None
  <2> QED
    BY <1>1, <2>1 DEF Born
<1> QED
  BY <1>5, <1>6, <1>7, <1>8, <1>9 DEF Shape

-----------------------------------------------------------------------------
\* Nothing that leads to an answer begins: what leads, leads already.
LEMMA LeadsKept ==
    ASSUME OneLeads, UNCHANGED turn, \A u \in Turns : Leading(u)' => Leading(u)
    PROVE  OneLeads'
  BY DEF OneLeads

\* One turn goes on alone, without looking for room.
Onward(t) ==
    /\ UNCHANGED <<n, turn, total>>
    /\ \A u \in Turns : u # t => stage'[u] = stage[u] /\ todo'[u] = todo[u] /\ job'[u] = job[u]
    /\ stage[t] \notin {"none", "started", "over"}
    /\ stage'[t] \in {"stored", "answering", "ended", "next", "over"}
    /\ stage'[t] = "stored" => stage[t] = "begun" /\ todo'[t] = todo[t] /\ job'[t] = job[t]
    /\ stage'[t] = "answering" => stage[t] = "stored" /\ turn[t].from # "turn" /\ job'[t] # "none"
    /\ stage'[t] = "ended" => stage[t] = "answering"
    /\ stage'[t] = "next" => /\ stage[t] \in {"answering", "ended", "next", "start"}
                             /\ stage[t] \in {"next", "start"} => todo[t] # <<>>
    /\ Counts(t)' => Counts(t)
    /\ todo'[t] \in Seq([kind : Work(t), agent : Agents])
    /\ UNCHANGED <<active, bg>> \/ (stage[t] = "next" /\ stage'[t] = "over" /\ Finish(t))
\* Such a step leaves the account of answers in order.
LEMMA OnwardAnswers ==
    ASSUME SaidInv, Sums, Shape, Room, NEW t \in Turns, Onward(t)
    PROVE  Sums' /\ Shape' /\ Room'
<1>1. \A u \in Turns : (Counts(u)' => Counts(u)) /\ (Adds(u)' => Adds(u))
  BY DEF Onward, Counts, Adds
<1>2. Sums'
  BY <1>1, SumsKept DEF Onward
<1>3. /\ UNCHANGED <<n, turn>> /\ \A u \in Turns : (Reports(u)' <=> Reports(u)) /\ Work(u)' = Work(u)
  BY DEF Onward, Reports, Work
<1>4. \A a \in Agents : bg'[a] = bg[a] \/ (bg[a] = t /\ stage[t] = "next")
  BY TurnFacts DEF Onward, Finish
<1>5. active' = active \/ (active = t /\ stage'[t] = "over")
  BY DEF Onward, Finish
<1>6. Room'
  <2> SUFFICES ASSUME NEW r \in Turns PROVE RoomFor(r)'
    BY DEF Room
  <2>1. \A a \in Agents : bg'[a] = bg[a] \/ bg[a] \notin ToStart(r)
    BY <1>4 DEF ToStart, Adds
  <2> QED
    BY <1>1, <1>3, <2>1, RoomKept DEF Room
<1>7. Fresh'
  BY DEF Shape, Fresh, Onward
<1>8. Born'
  BY <1>3 DEF Shape, Born, Reports
<1>9. ~(stage[t] \in {"begun", "stored"} /\ turn[t].from = "turn") \/ stage[t] = "stored"
  BY DEF SaidInv, Said, HandedOn
<1>10. Waits'
  <2> SUFFICES ASSUME NEW u \in Turns, stage'[u] = "stored", turn[u].from = "turn"
               PROVE  /\ stage'[turn[u].parent] = "started"
                      /\ \A v \in Turns : stage'[v] = "stored" /\ turn[v].parent = turn[u].parent => v = u
    BY <1>3 DEF Waits
  <2>1. u # t /\ stage[u] = "stored"
    BY <1>9 DEF Onward
  <2>2. /\ stage[turn[u].parent] = "started"
        /\ \A v \in Turns : stage[v] = "stored" /\ turn[v].parent = turn[u].parent => v = u
    BY <2>1 DEF Shape, Waits
  <2>3. u <= n /\ turn[u].parent \in Turns /\ turn[u].parent # None
    BY <2>1, TurnFacts DEF Shape, Born, Turns, None
  <2>4. stage'[turn[u].parent] = "started"
    BY <2>2, <2>3 DEF Onward
  <2>5. stage'[t] = "stored" => turn[t].parent = None
    <3>1. stage'[t] = "stored" => t <= n /\ turn[t].from # "turn"
      BY <1>9, TurnFacts DEF Onward
    <3> QED
      BY <3>1 DEF Shape, Born
  <2>6. ASSUME NEW v \in Turns, stage'[v] = "stored", turn[v].parent = turn[u].parent PROVE v = u
    <3>1. v # t
      BY <2>3, <2>5, <2>6
    <3> QED
      BY <2>2, <2>6, <3>1 DEF Onward
  <2> QED
    BY <2>4, <2>6
<1>11. \A u \in Turns : stage'[u] \in Within => stage[u] \in Within \/ Working(u)
  BY DEF Onward, Within, Working
<1>12. HasAgent'
  <2> SUFFICES ASSUME NEW u \in Turns, turn[u].bg, stage'[u] \in Within PROVE bg'[turn[u].agent] = u
    BY <1>3 DEF HasAgent
  <2>1. bg[turn[u].agent] = u
    BY <1>11 DEF Shape, HasAgent, SaidInv, TypeInv, HeldInv, Held
  <2>2. u # t \/ stage'[t] # "over"
    BY DEF Within
  <2>3. CASE UNCHANGED bg
    BY <2>1, <2>3
  <2>4. CASE stage'[t] = "over" /\ Finish(t)
    BY <2>1, <2>2, <2>4, TurnFacts DEF Finish
  <2> QED
    BY <2>3, <2>4 DEF Onward
<1>13. HasChat'
  <2> SUFFICES ASSUME NEW u \in Turns, Reports(u), stage'[u] \in Within PROVE active' = u
    BY <1>3 DEF HasChat
  <2>1. active = u
    BY <1>11 DEF Shape, HasChat, SaidInv, TypeInv, HeldInv, Held, Reports
  <2> QED
    BY <1>5, <2>1 DEF Within
<1>14. Does'
  BY <1>3 DEF Shape, Does, Onward
<1>15. OneLeads'
  <2>1. \A u \in Turns : u # t => (Leading(u)' => Leading(u))
    BY <1>3 DEF Leading, Onward
  <2>2. Leading(t)' => Leading(t)
    <3> SUFFICES ASSUME Leading(t)' PROVE Leading(t)
      OBVIOUS
    <3>1. ~turn[t].bg /\ ~Reports(t)
      BY <1>3 DEF Leading
    <3>2. CASE stage'[t] = "stored"
      BY <3>1, <3>2 DEF Leading, Onward
    <3>3. CASE stage'[t] \in {"answering", "ended", "next"}
      BY <3>1, <3>3 DEF Leading, Onward
    <3>4. CASE stage'[t] = "over"
      BY <3>4 DEF Leading
    <3> QED
      BY <3>2, <3>3, <3>4 DEF Onward
  <2> QED
    BY <1>3, <2>1, <2>2, LeadsKept DEF Shape
<1> QED
  BY <1>2, <1>6, <1>7, <1>8, <1>10, <1>12, <1>13, <1>14, <1>15 DEF Shape

\* The steps of a turn that are such.
LEMMA OnwardSteps ==
    ASSUME SaidInv, Shape, NEW t \in Turns,
           StoreMessage(t) \/ BeginJob(t) \/ AnswerEnd(t) \/ AnswerCut(t) \/ NextTurn(t) \/ EndTurn(t)
    PROVE  Onward(t)
<1>1. /\ stage \in [Turns -> Stages] /\ todo \in [Turns -> Seq([kind : Kinds, agent : Agents])]
      /\ job \in [Turns -> {"none", "running", "ended"}]
  BY TurnFacts
<1>2. todo[t] \in Seq([kind : Work(t), agent : Agents])
  BY DEF Shape, Does
<1>3. stage[t] \in {"begun", "stored"} /\ turn[t].from = "turn" => stage[t] = "stored"
  BY DEF SaidInv, Said, HandedOn
<1>4. stage[t] = "answering" => job[t] # "none"
  BY DEF Shape, Fresh
<1>5. CASE StoreMessage(t)
  BY <1>1, <1>2, <1>5 DEF StoreMessage, Onward, Counts
<1>6. CASE BeginJob(t)
  BY <1>1, <1>2, <1>6 DEF BeginJob, Onward, Counts
<1>7. CASE AnswerEnd(t)
  BY <1>1, <1>2, <1>4, <1>7 DEF AnswerEnd, Onward, Counts
<1>8. CASE AnswerCut(t)
  BY <1>1, <1>2, <1>8 DEF AnswerCut, Onward, Counts
<1>9. CASE EndTurn(t)
  BY <1>1, <1>2, <1>9 DEF EndTurn, Onward, Counts, Within
<1>10. CASE NextTurn(t)
  <2>1. /\ stage[t] = "ended" /\ stage' = [stage EXCEPT ![t] = "next"]
        /\ UNCHANGED <<n, turn, total, job, active, bg>>
        /\ \/ todo' = todo
           \/ todo' = [todo EXCEPT ![t] = Specs("hand", handed[t]) \o
                                            IF turn[t].bg THEN Specs("report", <<turn[t].by>>)
                                            ELSE Specs("tagged", turn[t].queue)]
    BY <1>10 DEF NextTurn
  <2> DEFINE a == Specs("hand", handed[t])
             b == IF turn[t].bg THEN Specs("report", <<turn[t].by>>) ELSE Specs("tagged", turn[t].queue)
             W == [kind : Work(t), agent : Agents]
  <2>2. ASSUME NEW k \in Work(t), NEW as \in Seq(Agents) PROVE Specs(k, as) \in Seq(W)
    <3>1. Len(as) \in Nat /\ as \in [1 .. Len(as) -> Agents] /\ DOMAIN as = 1 .. Len(as)
      BY LenProperties
    <3>2. Specs(k, as) \in [1 .. Len(as) -> W]
      BY <3>1 DEF Specs
    <3> HIDE DEF W
    <3> QED
      BY <3>1, <3>2, SeqDef
  <2>3. handed[t] \in Seq(Agents) /\ turn[t].queue \in Seq(Agents) /\ (turn[t].bg => turn[t].by \in Agents)
    BY DEF SaidInv, TypeInv, HeldInv, TypedLists, TypedTurns
  <2>4. a \in Seq(W)
    BY <2>2, <2>3 DEF Work
  <2>5. b \in Seq(W)
    <3>1. CASE turn[t].bg
      <4>1. <<turn[t].by>> \in Seq(Agents) /\ "report" \in Work(t)
        BY <2>3, <3>1 DEF Work
      <4> QED
        BY <2>2, <3>1, <4>1
    <3>2. CASE ~turn[t].bg /\ ~Reports(t)
      <4>1. "tagged" \in Work(t)
        BY <3>2 DEF Work
      <4> QED
        BY <2>2, <2>3, <3>2, <4>1
    <3>3. CASE ~turn[t].bg /\ Reports(t)
      <4>1. turn[t].queue = <<>>
        BY <3>3 DEF Shape, Does
      <4>2. Specs("tagged", <<>>) = <<>>
        BY DEF Specs
      <4>3. b = <<>>
        BY <3>3, <4>1, <4>2
      <4> QED
        BY <4>3, EmptySeq
    <3> QED
      BY <3>1, <3>2, <3>3
  <2> HIDE DEF a, b, W
  <2>6. a \o b \in Seq(W)
    BY <2>4, <2>5, ConcatProperties
  <2>7. todo' = todo \/ todo' = [todo EXCEPT ![t] = a \o b]
    BY <2>1 DEF a, b
  <2>8. todo'[t] \in Seq([kind : Work(t), agent : Agents]) /\ \A u \in Turns : u # t => todo'[u] = todo[u]
    BY <1>1, <1>2, <2>6, <2>7 DEF W
  <2> QED
    BY <1>1, <2>1, <2>8 DEF Onward, Counts
<1> QED
  BY <1>5, <1>6, <1>7, <1>8, <1>9, <1>10

\* What is left once the first was started, or was not.
LEMMA Leaves ==
    ASSUME NEW W, NEW s \in Seq(W), s # <<>>
    PROVE  Tail(s) \in Seq(W) /\ Head(s) \in W
  BY HeadTailProperties

\* A turn that finds room, or is refused it.
LEMMA MayStartAnswers ==
    ASSUME SaidInv, SaidInv', Sums, Shape, Room, NEW t \in Turns, MayStart(t)
    PROVE  Sums' /\ Shape' /\ Room'
<1>1. /\ stage \in [Turns -> Stages] /\ todo \in [Turns -> Seq([kind : Kinds, agent : Agents])]
      /\ stage[t] = "next" /\ todo[t] # <<>> /\ UNCHANGED <<n, turn, total, job, active, bg>>
  BY TurnFacts DEF MayStart
<1>2. todo[t] \in Seq([kind : Work(t), agent : Agents])
  BY DEF Shape, Does
<1>3. CASE todo' = [todo EXCEPT ![t] = Tail(@)] /\ UNCHANGED stage
  <2>1. Tail(todo[t]) \in Seq([kind : Work(t), agent : Agents])
    BY <1>1, <1>2, Leaves
  <2>2. todo'[t] = Tail(todo[t]) /\ \A u \in Turns : u # t => todo'[u] = todo[u]
    BY <1>1, <1>3
  <2>3. Onward(t)
    BY <1>1, <1>3, <2>1, <2>2 DEF Onward, Counts
  <2> QED
    BY <2>3, OnwardAnswers
<1>4. CASE ~OverAnswers(t, Head(todo[t]).kind) /\ stage' = [stage EXCEPT ![t] = "start"] /\ UNCHANGED todo
  <2>1. \A u \in Turns : Counts(u)' <=> Counts(u)
    BY <1>1, <1>4 DEF Counts
  <2>2. Sums'
    BY <1>1, <2>1, SumsKept
  <2>3. \A u \in Turns : (Reports(u)' <=> Reports(u)) /\ Work(u)' = Work(u)
    BY <1>1 DEF Reports, Work
  <2>4. Fresh' /\ Born' /\ Does'
    BY <1>1, <1>4, <2>3 DEF Shape, Fresh, Born, Does, Reports
  <2>5. Waits'
    BY <1>1, <1>4, TurnFacts DEF Shape, Waits
  <2>6. HasAgent' /\ HasChat'
    BY <1>1, <1>4, <2>3 DEF Shape, HasAgent, HasChat, Within
  <2>7. OneLeads'
    <3>1. \A u \in Turns : Leading(u)' => Leading(u)
      BY <1>1, <1>4, <2>3 DEF Leading
    <3> QED
      BY <1>1, <3>1, LeadsKept DEF Shape
  <2>8. Shape'
    BY <2>4, <2>5, <2>6, <2>7 DEF Shape
  <2>9. (\A r \in Turns : Few(r))'
    BY <2>8, FewStart, PTL
  <2>10. Room'
    <3> SUFFICES ASSUME NEW r \in Turns PROVE RoomFor(r)'
      BY DEF Room
    <3>1. CASE r # turn[t].root \/ Head(todo[t]).kind = "report"
      <4>1. \A u \in Turns : turn[u].root = r => (Adds(u)' <=> Adds(u))
        BY <1>1, <1>4, <3>1 DEF Adds
      <4>2. AnswersOf(r)' = AnswersOf(r) /\ ToStart(r)' = ToStart(r)
        BY <1>1, <2>1, <2>3, <4>1 DEF AnswersOf, ToStart
      <4> QED
        BY <1>1, <4>2 DEF Room, RoomFor, Most
    <3>2. CASE r = turn[t].root /\ Head(todo[t]).kind # "report"
      <4>1. total[r] < MaxAnswers
        BY <1>4, <3>2, TurnFacts, LimitAssumption DEF OverAnswers
      <4> DEFINE A == AnswersOf(r)'
                 C == Counted(r)
                 S == ToStart(r)'
      <4>2. C \in SUBSET Turns /\ A \in SUBSET C /\ S \in SUBSET Turns
        BY <1>1, <2>1, <2>3 DEF AnswersOf, Counted, ToStart
      <4>3. Cardinality(C) <= total[r] /\ total[r] \in Int
        BY TurnFacts DEF Sums
      <4>4. \/ Cardinality(S) <= Cardinality(Agents) + 1
            \/ Cardinality(S) <= Cardinality(Agents) + 2 /\ \A a \in Agents : bg'[a] \in S
        BY <2>9 DEF Few
      <4> HIDE DEF A, C, S
      <4>5. Cardinality(A) <= Cardinality(C) /\ Cardinality(A) \in Nat /\ Cardinality(C) \in Nat /\ Cardinality(S) \in Nat
        BY <4>2, SmallerSet, AllFinite
      <4>6. Cardinality(A) + 1 <= MaxAnswers
        BY <4>1, <4>3, <4>5, MostNat
      <4>7. \/ Cardinality(A) + Cardinality(S) <= Most
            \/ Cardinality(A) + Cardinality(S) <= Most + 1 /\ \A a \in Agents : bg'[a] \in S
        BY <4>4, <4>5, <4>6, MostNat DEF Most
      <4> QED
        BY <4>7 DEF A, S, RoomFor
    <3> QED
      BY <3>1, <3>2
  <2> QED
    BY <2>2, <2>8, <2>10
<1> QED
  BY <1>3, <1>4 DEF MayStart

-----------------------------------------------------------------------------
\* A turn that another one started begins, or gives way.
LEMMA BeginJobNextAnswers ==
    ASSUME SaidInv, Sums, Shape, Room, NEW t \in Turns, BeginJobNext(t)
    PROVE  Sums' /\ Shape' /\ Room'
<1>0. PICK p : p = turn[t].parent
  OBVIOUS
<1>1. /\ stage \in [Turns -> Stages] /\ todo \in [Turns -> Seq([kind : Kinds, agent : Agents])]
      /\ job \in [Turns -> {"none", "running", "ended"}] /\ None \notin Turns
      /\ bg \in [Agents -> Turns \cup {None}] /\ total \in [Turns -> Int]
  BY TurnFacts
<1>2. /\ stage[t] = "stored" /\ turn[t].from = "turn" /\ UNCHANGED <<n, turn>>
      /\ stage' \in {[stage EXCEPT ![t] = "answering", ![p] = "next"], [stage EXCEPT ![t] = "over", ![p] = "next"]}
  BY <1>0 DEF BeginJobNext, Began, GaveWay
<1>3. t <= n /\ p \in Turns /\ p # None /\ p # t /\ stage[p] = "started"
      /\ turn[t].root = turn[p].root /\ (~turn[t].bg /\ ~Reports(t) => ~Reports(p))
  <2>1. t <= n
    BY <1>2, TurnFacts
  <2>2. p \in 1 .. t - 1 /\ turn[t].root = turn[p].root /\ (~turn[t].bg /\ ~Reports(t) => ~Reports(p))
    BY <1>0, <1>2, <2>1 DEF Shape, Born
  <2>3. stage[p] = "started"
    BY <1>0, <1>2 DEF Shape, Waits
  <2>4. t \in Nat /\ t <= MaxTurns /\ MaxTurns \in Nat
    BY <2>1, TurnFacts
  <2> QED
    BY <2>1, <2>2, <2>3, <2>4 DEF Turns, None
<1>4. job[t] = "none" /\ todo[t] = <<>>
  BY <1>2 DEF Shape, Fresh
<1>5. \A u \in Turns : (Reports(u)' <=> Reports(u)) /\ Work(u)' = Work(u)
  BY <1>2 DEF Reports, Work
<1>6. \/ /\ job' = [job EXCEPT ![t] = "running"] /\ stage' = [stage EXCEPT ![t] = "answering", ![p] = "next"]
         /\ IF turn[t].bg THEN todo' = todo ELSE todo' = [todo EXCEPT ![p] = <<>>]
         /\ UNCHANGED <<total, active, bg>>
      \/ /\ stage' = [stage EXCEPT ![t] = "over", ![p] = "next"]
         /\ total' = [total EXCEPT ![turn[t].root] = @ - 1]
         /\ Finish(t) /\ UNCHANGED <<job, todo>>
  BY <1>0 DEF BeginJobNext, Began, GaveWay
<1>7. /\ \A u \in Turns : u # t /\ u # p => stage'[u] = stage[u] /\ todo'[u] = todo[u] /\ job'[u] = job[u]
      /\ todo'[t] = <<>> /\ todo'[p] \in {todo[p], <<>>} /\ job'[p] = job[p] /\ stage'[p] = "next"
      /\ (stage'[t] = "answering" /\ job'[t] = "running") \/ (stage'[t] = "over" /\ job'[t] = "none")
  <2>1. todo' = todo \/ todo' = [todo EXCEPT ![p] = <<>>]
    BY <1>6
  <2>2. todo'[t] = <<>> /\ todo'[p] \in {todo[p], <<>>} /\ \A u \in Turns : u # p => todo'[u] = todo[u]
    BY <1>1, <1>3, <1>4, <2>1
  <2>3. /\ \A u \in Turns : u # t /\ u # p => stage'[u] = stage[u] /\ job'[u] = job[u]
        /\ job'[p] = job[p] /\ stage'[p] = "next"
        /\ (stage'[t] = "answering" /\ job'[t] = "running") \/ (stage'[t] = "over" /\ job'[t] = "none")
    BY <1>1, <1>3, <1>4, <1>6
  <2> QED
    BY <2>2, <2>3
<1>8. \A u \in Turns : (Counts(u)' => Counts(u)) /\ (Adds(u)' => Adds(u))
  BY <1>2, <1>3, <1>7 DEF Counts, Adds
<1>9. \A a \in Agents : bg'[a] = bg[a] \/ bg[a] = t
  BY <1>1, <1>6 DEF Finish
<1>10. Sums'
  <2>1. CASE UNCHANGED total
    BY <1>2, <1>8, <2>1, SumsKept
  <2>2. CASE stage'[t] = "over" /\ job'[t] = "none" /\ total' = [total EXCEPT ![turn[t].root] = @ - 1]
    <3> SUFFICES ASSUME NEW r \in Turns PROVE Cardinality(Counted(r)') <= total'[r]
      BY DEF Sums
    <3> DEFINE C == Counted(r)
               D == Counted(r)'
    <3>1. C \in SUBSET Turns /\ D \in SUBSET C
      BY <1>2, <1>8 DEF Counted
    <3>2. r = turn[t].root => t \in C /\ t \notin D
      BY <1>2, <2>2 DEF Counted, Counts
    <3>3. /\ Cardinality(C) <= total[r] /\ total[r] \in Int
          /\ total'[r] = IF r = turn[t].root THEN total[r] - 1 ELSE total[r]
      BY <1>1, <2>2 DEF Sums
    <3> HIDE DEF C, D
    <3>4. /\ Cardinality(D) <= Cardinality(C) /\ Cardinality(C) \in Nat /\ Cardinality(D) \in Nat
          /\ (D # C => Cardinality(D) + 1 <= Cardinality(C))
      BY <3>1, SmallerSet, AllFinite
    <3>5. Cardinality(D) <= total'[r]
      BY <3>2, <3>3, <3>4
    <3> QED
      BY <3>5 DEF D
  <2> QED
    BY <1>4, <1>6, <1>7, <2>1, <2>2
<1>11. Room'
  <2> SUFFICES ASSUME NEW r \in Turns PROVE RoomFor(r)'
    BY DEF Room
  <2>1. \A a \in Agents : bg'[a] = bg[a] \/ bg[a] \notin ToStart(r)
    BY <1>2, <1>9 DEF ToStart, Adds
  <2> QED
    BY <1>2, <1>8, <2>1, RoomKept DEF Room
<1>12. Fresh' /\ Born'
  <2>1. Fresh'
    BY <1>2, <1>7 DEF Shape, Fresh
  <2> QED
    BY <1>2, <2>1 DEF Shape, Born, Reports
<1>13. Waits'
  <2> SUFFICES ASSUME NEW u \in Turns, stage'[u] = "stored", turn[u].from = "turn"
               PROVE  /\ stage'[turn[u].parent] = "started"
                      /\ \A v \in Turns : stage'[v] = "stored" /\ turn[v].parent = turn[u].parent => v = u
    BY <1>2 DEF Waits
  <2>1. u # t /\ stage[u] = "stored"
    BY <1>7
  <2>2. /\ stage[turn[u].parent] = "started"
        /\ \A v \in Turns : stage[v] = "stored" /\ turn[v].parent = turn[u].parent => v = u
    BY <2>1 DEF Shape, Waits
  <2>3. turn[u].parent # p /\ turn[u].parent # t
    BY <1>0, <1>2, <2>1, <2>2
  <2>4. u <= n /\ turn[u].parent \in Turns
    BY <2>1, TurnFacts DEF Shape, Born, Turns, None
  <2> QED
    BY <1>7, <2>2, <2>3, <2>4
<1>14. \A u \in Turns : stage'[u] \in Within => u # t \/ stage'[t] = "answering"
  BY <1>7 DEF Within
<1>15. HasAgent'
  <2> SUFFICES ASSUME NEW u \in Turns, turn[u].bg, stage'[u] \in Within PROVE bg'[turn[u].agent] = u
    BY <1>2 DEF HasAgent
  <2>1. stage[u] \in Within \/ Working(u)
    BY <1>2, <1>3, <1>7 DEF Within, Working
  <2>2. bg[turn[u].agent] = u
    BY <2>1 DEF Shape, HasAgent, SaidInv, TypeInv, HeldInv, Held
  <2>3. u = t => UNCHANGED bg
    BY <1>1, <1>3, <1>6, <1>7, <1>14
  <2> QED
    BY <1>9, <2>2, <2>3, TurnFacts
<1>16. HasChat'
  <2> SUFFICES ASSUME NEW u \in Turns, Reports(u), stage'[u] \in Within PROVE active' = u
    BY <1>5 DEF HasChat
  <2>1. stage[u] \in Within \/ Working(u)
    BY <1>2, <1>3, <1>7 DEF Within, Working
  <2>2. active = u
    BY <2>1 DEF Shape, HasChat, SaidInv, TypeInv, HeldInv, Held, Reports
  <2>3. u = t => UNCHANGED active
    BY <1>1, <1>3, <1>6, <1>7, <1>14
  <2> QED
    BY <1>6, <2>2, <2>3 DEF Finish
<1>17. Does'
  <2>1. \A u \in Turns : todo'[u] = todo[u] \/ todo'[u] = <<>>
    BY <1>7, <1>4
  <2> QED
    BY <1>2, <1>5, <2>1, EmptySeq DEF Shape, Does
<1>18. OneLeads'
  <2>1. \A u \in Turns : u # t => (Leading(u)' => Leading(u))
    BY <1>2, <1>3, <1>5, <1>7 DEF Leading
  <2>2. CASE ~(Leading(t)')
    BY <1>2, <2>1, <2>2, LeadsKept DEF Shape
  <2>3. CASE Leading(t)'
    <3>1. ~turn[t].bg /\ ~Reports(t) /\ stage'[t] = "answering"
      BY <1>2, <1>5, <1>7, <2>3 DEF Leading
    <3>2. Leading(p)
      BY <1>0, <1>3, <3>1 DEF Leading, Reports
    <3>3. ~(Leading(p)')
      <4>1. todo'[p] = <<>>
        BY <1>1, <1>3, <1>6, <3>1
      <4> QED
        BY <1>7, <4>1 DEF Leading
    <3>4. ASSUME NEW u \in Turns, Leading(u)', turn[u].root = turn[t].root PROVE u = t
      <4>1. CASE u # t
        <5>1. Leading(u)
          BY <2>1, <3>4, <4>1
        <5>2. u = p
          BY <1>3, <3>2, <3>4, <5>1 DEF Shape, OneLeads
        <5> QED
          BY <3>3, <3>4, <5>2
      <4> QED
        BY <4>1
    <3> SUFFICES ASSUME NEW u \in Turns, NEW v \in Turns, Leading(u)', Leading(v)', turn[u].root = turn[v].root
                 PROVE  u = v
      BY <1>2 DEF OneLeads
    <3>5. CASE u = t \/ v = t
      BY <3>4, <3>5
    <3>6. CASE u # t /\ v # t
      BY <2>1, <3>6 DEF Shape, OneLeads
    <3> QED
      BY <3>5, <3>6
  <2> QED
    BY <2>2, <2>3
<1> QED
  BY <1>10, <1>11, <1>12, <1>13, <1>15, <1>16, <1>17, <1>18 DEF Shape

\* Office goes down: no turn is about to do anything.
LEMMA DownAnswers == ASSUME SaidInv, Sums, Shape, Room, Down PROVE Sums' /\ Shape' /\ Room'
<1>1. /\ UNCHANGED <<n, turn, job, total>> /\ todo' = [t \in Turns |-> <<>>]
      /\ \A t \in Turns : stage'[t] = (IF stage[t] = "none" THEN "none" ELSE "over")
  BY DEF Down
<1>2. \A u \in Turns : (Counts(u)' => Counts(u)) /\ ~(Adds(u)') /\ ~(Leading(u)')
  BY <1>1 DEF Counts, Adds, Leading
<1>3. Sums'
  BY <1>1, <1>2, SumsKept
<1>4. Room'
  <2> SUFFICES ASSUME NEW r \in Turns PROVE RoomFor(r)'
    BY DEF Room
  <2>1. ToStart(r)' = {}
    BY <1>2 DEF ToStart
  <2>2. ToStart(r)' = ToStart(r) => \A a \in Agents : bg[a] \notin ToStart(r)
    BY <2>1
  <2> QED
    BY <1>1, <1>2, <2>2, RoomKept DEF Room
<1>5. Fresh' /\ Waits' /\ HasAgent' /\ HasChat' /\ OneLeads'
  BY <1>1, <1>2 DEF Shape, Fresh, Waits, HasAgent, HasChat, OneLeads, Within
<1>6. Born'
  BY <1>1 DEF Shape, Born, Reports
<1>7. Does'
  BY <1>1, EmptySeq DEF Shape, Does, Reports
<1> QED
  BY <1>3, <1>4, <1>5, <1>6, <1>7 DEF Shape

-----------------------------------------------------------------------------
(* A turn is registered: of a message, or by another turn. *)

\* What is so before: a message's turn takes a free chat; another turn starts
\* what it may, when the agent is free.
OfMessage(r) ==
    r.parent = None /\ r.root = n + 1 /\ ~r.bg /\ r.from # "turn" /\ active = None /\ todo' = todo
ByTurn(r, k) ==
    /\ r.parent \in Turns /\ stage[r.parent] = "start" /\ todo[r.parent] # <<>>
    /\ r.root = turn[r.parent].root /\ r.from = "turn" /\ r.agent \in Agents
    /\ k = Head(todo[r.parent]).kind
    /\ r.bg = (k = "hand") /\ (k # "tagged" => r.queue = <<>>)
    /\ bg[r.agent] = None
    /\ k = "hand" \/ active = None \/ (k = "tagged" /\ active = r.parent)
    /\ todo' = [todo EXCEPT ![r.parent] = Tail(@)]

\* What a new turn changes: itself and the turn that started it.
LEMMA NewTurn ==
    ASSUME SaidInv, Shape, NEW r \in Turn, Register(r), job' = job,
           OfMessage(r) \/ \E k : ByTurn(r, k)
    PROVE  /\ n + 1 \in Turns /\ n' = n + 1 /\ n \in Nat
           /\ turn[n + 1] = Blank /\ job[n + 1] = "none" /\ todo'[n + 1] = <<>> /\ turn'[n + 1] = r
           /\ stage'[n + 1] = (IF r.from = "turn" THEN "stored" ELSE "begun")
           /\ r.parent \in 0 .. n
           /\ \A u \in Turns : u # n + 1 =>
                /\ turn'[u] = turn[u]
                /\ stage'[u] = (IF u = r.parent THEN "started" ELSE stage[u])
                /\ u # r.parent => todo'[u] = todo[u]
                /\ Reports(u)' <=> Reports(u)
                /\ Work(u)' = Work(u)
                /\ Counts(u)' <=> Counts(u)
<1>1. /\ n \in Nat /\ MaxTurns \in Nat /\ n < MaxTurns /\ n' = n + 1
  BY TurnFacts DEF Register
<1>2. n + 1 \in Turns
  BY <1>1 DEF Turns
<1>3. /\ turn = [t \in Turns |-> turn[t]] /\ stage \in [Turns -> Stages]
      /\ todo \in [Turns -> Seq([kind : Kinds, agent : Agents])]
  BY TurnFacts
<1>4. stage[n + 1] = "none" /\ turn[n + 1] = Blank
  BY <1>1, <1>2, TurnFacts
<1>5. job[n + 1] = "none" /\ todo[n + 1] = <<>>
  BY <1>2, <1>4 DEF Shape, Fresh
<1>6. r.parent = None \/ (r.parent \in Turns /\ stage[r.parent] = "start")
  BY DEF OfMessage, ByTurn
<1>7. r.parent \in 0 .. n /\ r.parent # n + 1
  <2>1. CASE r.parent = None
    BY <1>1, <2>1 DEF None
  <2>2. CASE r.parent \in Turns /\ stage[r.parent] = "start"
    <3>1. r.parent <= n /\ r.parent \in Nat
      BY <1>1, <2>2, TurnFacts
    <3> QED
      BY <1>1, <3>1
  <2> QED
    BY <1>6, <2>1, <2>2
<1>8. /\ turn'[n + 1] = r
      /\ stage'[n + 1] = (IF r.from = "turn" THEN "stored" ELSE "begun")
      /\ \A u \in Turns : u # n + 1 =>
           /\ turn'[u] = turn[u]
           /\ stage'[u] = (IF u = r.parent THEN "started" ELSE stage[u])
  BY <1>2, <1>3 DEF Register
<1>9. todo'[n + 1] = <<>> /\ \A u \in Turns : u # r.parent => todo'[u] = todo[u]
  <2>1. CASE todo' = todo
    BY <1>5, <2>1
  <2>2. CASE todo' = [todo EXCEPT ![r.parent] = Tail(@)]
    BY <1>2, <1>3, <1>5, <1>7, <2>2
  <2> QED
    BY <2>1, <2>2 DEF OfMessage, ByTurn
<1>10. ASSUME NEW u \in Turns, u # n + 1 PROVE Reports(u)' <=> Reports(u)
  <2>1. turn[u].parent \in 0 .. n
    BY TurnFacts
  <2>2. turn[u].parent # None => turn[u].parent \in Turns /\ turn[u].parent # n + 1
    BY <1>1, <2>1 DEF Turns, None
  <2> QED
    BY <1>8, <1>10, <2>2 DEF Reports
<1>11. ASSUME NEW u \in Turns, u # n + 1 PROVE Work(u)' = Work(u)
  BY <1>8, <1>10, <1>11 DEF Work
<1>12. ASSUME NEW u \in Turns, u # n + 1 PROVE Counts(u)' <=> Counts(u)
  BY <1>6, <1>8, <1>12, TurnFacts DEF Counts
<1> QED
  BY <1>1, <1>2, <1>4, <1>5, <1>7, <1>8, <1>9, <1>10, <1>11, <1>12

\* What is started is what the turn that starts it may start.
LEMMA ByTurnKinds ==
    ASSUME SaidInv, Shape, NEW r, NEW k, ByTurn(r, k)
    PROVE  /\ k \in Work(r.parent) /\ k \in Kinds
           /\ k = "report" <=> turn[r.parent].bg /\ ~r.bg
           /\ k = "tagged" => ~turn[r.parent].bg /\ ~Reports(r.parent)
<1> DEFINE t == r.parent
<1>1. t \in Turns /\ todo[t] # <<>> /\ todo[t] \in Seq([kind : Work(t), agent : Agents])
  BY DEF ByTurn, Shape, Does
<1>2. k \in Work(t)
  <2>1. Head(todo[t]) \in [kind : Work(t), agent : Agents]
    BY <1>1, Leaves
  <2> QED
    BY <2>1 DEF ByTurn
<1>3. turn[t].bg \in BOOLEAN
  BY <1>1, TurnFacts
<1> QED
  BY <1>2, <1>3 DEF Work, ByTurn, Kinds

\* total counts the new turn, too.
LEMMA NewSums ==
    ASSUME SaidInv, Sums, Shape, NEW r \in Turn, Register(r), job' = job,
           OfMessage(r) \/ \E k : ByTurn(r, k)
    PROVE  Sums'
<1>1. /\ n + 1 \in Turns /\ turn[n + 1] = Blank /\ turn'[n + 1] = r
      /\ \A u \in Turns : u # n + 1 => turn'[u] = turn[u] /\ (Counts(u)' <=> Counts(u))
  BY NewTurn
<1>2. r.root \in Turns /\ total \in [Turns -> Int]
  BY TurnFacts DEF Turn
<1> SUFFICES ASSUME NEW q \in Turns PROVE Cardinality(Counted(q)') <= total'[q]
  BY DEF Sums
<1> DEFINE C == Counted(q)
           D == Counted(q)'
<1>3. total'[q] = (IF q = r.root THEN total[q] + 1 ELSE total[q]) /\ total[q] \in Int
  BY <1>2 DEF Register
<1>4. C \in SUBSET Turns /\ D \in SUBSET Turns /\ D \subseteq (IF q = r.root THEN C \cup {n + 1} ELSE C)
  BY <1>1 DEF Counted
<1>5. Cardinality(C) <= total[q]
  BY DEF Sums
<1> HIDE DEF C, D
<1>6. IsFiniteSet(C) /\ Cardinality(C) \in Nat /\ Cardinality(D) \in Nat
  BY <1>4, AllFinite
<1>7. CASE q = r.root
  <2>1. IsFiniteSet(C \cup {n + 1}) /\ Cardinality(C \cup {n + 1}) \in {Cardinality(C), Cardinality(C) + 1}
    BY <1>6, FS_AddElement, Zenon
  <2>2. Cardinality(D) <= Cardinality(C \cup {n + 1})
    BY <1>4, <1>7, <2>1, FS_Subset
  <2>3. Cardinality(D) <= total'[q]
    BY <1>3, <1>5, <1>6, <1>7, <2>1, <2>2
  <2> QED
    BY <2>3 DEF D
<1>8. CASE q # r.root
  <2>1. Cardinality(D) <= Cardinality(C)
    BY <1>4, <1>6, <1>8, FS_Subset
  <2>2. Cardinality(D) <= total'[q]
    BY <1>3, <1>5, <1>6, <1>8, <2>1
  <2> QED
    BY <2>2 DEF D
<1> QED
  BY <1>7, <1>8

\* None of the earlier turns is of a message that begins.
LEMMA NoneOfMessage ==
    ASSUME SaidInv, NEW u \in Turns, u # n + 1
    PROVE  turn[u].root # n + 1
<1>1. CASE u <= n
  <2>1. turn[u].root \in 1 .. n /\ n \in Nat
    BY <1>1, TurnFacts
  <2> QED
    BY <2>1
<1>2. CASE ~(u <= n)
  <2>1. turn[u] = Blank /\ n \in Nat
    BY <1>2, TurnFacts
  <2> QED
    BY <2>1 DEF Blank, None
<1> QED
  BY <1>1, <1>2

\* The new turn has its agent or the chat, and the turn that started it waits.
LEMMA NewShape ==
    ASSUME SaidInv, Shape, NEW r \in Turn, Register(r), job' = job,
           OfMessage(r) \/ \E k : ByTurn(r, k)
    PROVE  Shape'
<1>0. PICK m : m = n + 1
  OBVIOUS
<1>1. /\ m \in Turns /\ n' = m /\ n \in Nat
      /\ turn[m] = Blank /\ job[m] = "none" /\ todo'[m] = <<>> /\ turn'[m] = r
      /\ stage'[m] = (IF r.from = "turn" THEN "stored" ELSE "begun")
      /\ r.parent \in 0 .. n
  BY <1>0, NewTurn
<1>2. \A u \in Turns : u # m =>
        /\ turn'[u] = turn[u]
        /\ stage'[u] = (IF u = r.parent THEN "started" ELSE stage[u])
        /\ u # r.parent => todo'[u] = todo[u]
        /\ Reports(u)' <=> Reports(u)
        /\ Work(u)' = Work(u)
  BY <1>0, NewTurn
<1>3. r.parent = None \/ (r.parent \in Turns /\ r.parent # m /\ stage[r.parent] = "start" /\ todo[r.parent] # <<>>)
  BY <1>0, <1>1, TurnFacts DEF OfMessage, ByTurn
<1>4. None \notin Turns /\ \A u \in Turns : u \in Nat /\ turn[u].parent \in 0 .. n /\ (stage[u] = "none" <=> n < u)
  BY TurnFacts
<1>5. m \notin 0 .. n /\ \A u \in Turns : u # m => turn[u].parent # m
  BY <1>0, <1>1, <1>4
<1>6. Reports(m)' <=> r.parent # None /\ ~r.bg /\ turn[r.parent].bg
  <2>1. r.parent # None => turn'[r.parent] = turn[r.parent]
    BY <1>2, <1>3
  <2> QED
    BY <1>1, <2>1 DEF Reports
<1>7. stage[m] = "none"
  BY <1>0, <1>1, <1>4
<1>8. Fresh'
  <2>1. ASSUME NEW u \in Turns
        PROVE  /\ stage'[u] \in {"none", "begun", "stored"} => job'[u] = "none" /\ todo'[u] = <<>>
               /\ stage'[u] = "answering" => job'[u] # "none"
    <3>1. CASE u = m
      BY <1>1, <3>1
    <3>2. CASE u # m
      BY <1>2, <3>2 DEF Shape, Fresh
    <3> QED
      BY <3>1, <3>2
  <2> QED
    BY <2>1 DEF Fresh
<1>9. Born'
  <2> SUFFICES ASSUME NEW t \in Turns, t <= m
               PROVE  IF turn'[t].parent = None THEN turn'[t].root = t /\ ~turn'[t].bg /\ turn'[t].from # "turn"
                      ELSE /\ turn'[t].parent \in 1 .. t - 1
                           /\ turn'[t].root = turn'[turn'[t].parent].root /\ turn'[t].from = "turn"
                           /\ ~turn'[t].bg /\ ~Reports(t)' => ~Reports(turn[t].parent)'
    BY <1>1 DEF Born
  <2>1. CASE t = m /\ OfMessage(r)
    BY <1>0, <1>1, <2>1 DEF OfMessage
  <2>2. ASSUME t = m, NEW k, ByTurn(r, k)
        PROVE  /\ r.parent # None /\ r.parent \in 1 .. m - 1
               /\ r.root = turn'[r.parent].root /\ r.from = "turn"
               /\ ~r.bg /\ ~Reports(m)' => ~Reports(r.parent)'
    <3>1. /\ r.parent \in Turns /\ r.parent # m /\ r.parent # None
          /\ r.root = turn[r.parent].root /\ r.from = "turn" /\ r.bg = (k = "hand")
      BY <1>3, <1>4, <2>2 DEF ByTurn
    <3>2. r.parent \in 1 .. m - 1
      BY <1>0, <1>1, <3>1 DEF None
    <3>3. turn'[r.parent] = turn[r.parent] /\ (Reports(r.parent)' <=> Reports(r.parent))
      BY <1>2, <3>1
    <3>4. /\ k \in Kinds
          /\ k = "report" <=> turn[r.parent].bg /\ ~r.bg
          /\ k = "tagged" => ~turn[r.parent].bg /\ ~Reports(r.parent)
      BY <2>2, ByTurnKinds
    <3>5. ASSUME ~r.bg, ~Reports(m)' PROVE ~Reports(r.parent)'
      <4>1. ~turn[r.parent].bg
        BY <1>6, <3>1, <3>5
      <4>2. k = "tagged"
        BY <3>1, <3>4, <3>5, <4>1 DEF Kinds
      <4> QED
        BY <3>3, <3>4, <4>2
    <3> QED
      BY <3>1, <3>2, <3>3, <3>5
  <2>3. CASE t # m
    <3>1. t <= n /\ turn'[t] = turn[t] /\ (Reports(t)' <=> Reports(t))
      BY <1>0, <1>1, <1>2, <1>4, <2>3
    <3>2. IF turn[t].parent = None THEN turn[t].root = t /\ ~turn[t].bg /\ turn[t].from # "turn"
          ELSE /\ turn[t].parent \in 1 .. t - 1
               /\ turn[t].root = turn[turn[t].parent].root /\ turn[t].from = "turn"
               /\ ~turn[t].bg /\ ~Reports(t) => ~Reports(turn[t].parent)
      BY <3>1 DEF Shape, Born
    <3>3. CASE turn[t].parent = None
      BY <3>1, <3>2, <3>3
    <3>4. CASE turn[t].parent # None
      <4>1. PICK p : p = turn[t].parent
        OBVIOUS
      <4>2. p \in Turns /\ p # m
        BY <1>1, <1>4, <1>5, <2>3, <3>2, <3>4, <4>1, BoundAssumption DEF Turns
      <4>3. turn'[p] = turn[p] /\ (Reports(p)' <=> Reports(p))
        BY <1>2, <4>2
      <4>4. turn'[t].parent = p
        BY <3>1, <4>1
      <4> QED
        BY <3>1, <3>2, <3>4, <4>1, <4>3, <4>4
    <3> QED
      BY <3>3, <3>4
  <2>4. ASSUME t = m, NEW k, ByTurn(r, k)
        PROVE  IF turn'[t].parent = None THEN turn'[t].root = t /\ ~turn'[t].bg /\ turn'[t].from # "turn"
               ELSE /\ turn'[t].parent \in 1 .. t - 1
                    /\ turn'[t].root = turn'[turn'[t].parent].root /\ turn'[t].from = "turn"
                    /\ ~turn'[t].bg /\ ~Reports(t)' => ~Reports(turn[t].parent)'
    BY <1>1, <2>2, <2>4
  <2> QED
    BY <2>1, <2>3, <2>4
<1>10. Waits'
  <2>1. ASSUME NEW u \in Turns, stage'[u] = "stored", turn'[u].from = "turn", u # m
        PROVE  /\ u # r.parent /\ turn'[u].parent = turn[u].parent
               /\ stage[u] = "stored" /\ turn[u].from = "turn" /\ stage[turn[u].parent] = "started"
               /\ turn[u].parent \in Turns /\ turn[u].parent # r.parent /\ turn[u].parent # m
    <3>1. stage[u] = "stored" /\ turn'[u] = turn[u] /\ u # r.parent
      BY <1>2, <2>1
    <3>2. u <= n
      BY <1>1, <1>4, <3>1
    <3>3. turn[u].parent \in 1 .. u - 1 /\ stage[turn[u].parent] = "started"
      BY <2>1, <3>1, <3>2 DEF Shape, Born, Waits
    <3>4. turn[u].parent \in Turns
      BY <1>1, <1>4, <3>3, BoundAssumption DEF Turns
    <3> QED
      BY <1>3, <1>4, <1>5, <2>1, <3>1, <3>3, <3>4
  <2>2. ASSUME stage'[m] = "stored"
        PROVE  r.parent \in Turns /\ r.parent # m /\ stage'[r.parent] = "started"
    <3>1. r.from = "turn"
      BY <1>1, <2>2
    <3>2. r.parent # None
      BY <1>4, <3>1 DEF OfMessage, ByTurn
    <3> QED
      BY <1>2, <1>3, <3>2
  <2>3. ASSUME NEW t \in Turns, stage'[t] = "stored", turn'[t].from = "turn"
        PROVE  stage'[turn'[t].parent] = "started"
    <3>1. CASE t = m
      BY <1>1, <2>2, <2>3, <3>1
    <3>2. CASE t # m
      BY <1>2, <2>1, <2>3, <3>2
    <3> QED
      BY <3>1, <3>2
  <2>4. ASSUME NEW t \in Turns, stage'[t] = "stored", turn'[t].from = "turn",
               NEW u \in Turns, stage'[u] = "stored", turn'[u].parent = turn'[t].parent
        PROVE  u = t
    <3>1. u # m => turn'[u].from = "turn"
      <4> SUFFICES ASSUME u # m PROVE turn[u].from = "turn" /\ turn'[u] = turn[u]
        BY <1>2
      <4>1. turn'[u] = turn[u] /\ u <= n
        BY <1>1, <1>2, <1>4, <2>4
      <4>2. turn'[t].parent # None
        <5>1. CASE t = m
          BY <1>1, <1>4, <2>2, <2>4, <5>1
        <5>2. CASE t # m
          BY <1>4, <2>1, <2>4, <5>2
        <5> QED
          BY <5>1, <5>2
      <4> QED
        BY <2>4, <4>1, <4>2 DEF Shape, Born
    <3>2. CASE t = m /\ u = m
      BY <3>2
    <3>3. CASE t = m /\ u # m
      BY <1>1, <2>1, <2>4, <3>1, <3>3
    <3>4. CASE t # m /\ u = m
      BY <1>1, <2>1, <2>4, <3>4
    <3>5. CASE t # m /\ u # m
      BY <2>1, <2>4, <3>1, <3>5 DEF Shape, Waits
    <3> QED
      BY <3>2, <3>3, <3>4, <3>5
  <2> QED
    BY <2>3, <2>4 DEF Waits
<1>11. HasAgent'
  <2> SUFFICES ASSUME NEW t \in Turns, turn'[t].bg, stage'[t] \in Within
               PROVE  bg'[turn'[t].agent] = t
    BY DEF HasAgent
  <2>1. t # m
    BY <1>1 DEF Within
  <2>2. turn'[t] = turn[t] /\ stage[t] \in Within
    BY <1>2, <1>3, <1>4, <2>1 DEF Within
  <2>3. bg[turn[t].agent] = t /\ turn[t].agent \in Agents
    BY <2>2, TurnFacts DEF Shape, HasAgent
  <2>4. CASE ~r.bg
    BY <2>2, <2>3, <2>4 DEF Register
  <2>5. CASE r.bg
    <3>1. bg[r.agent] = None /\ bg' = [bg EXCEPT ![r.agent] = n + 1]
      BY <2>5 DEF OfMessage, ByTurn, Register
    <3>2. bg \in [Agents -> Turns \cup {None}] /\ turn[t].agent # r.agent
      BY <1>4, <2>3, <3>1, TurnFacts
    <3> QED
      BY <2>2, <2>3, <3>1, <3>2
  <2> QED
    BY <2>4, <2>5
<1>12. HasChat'
  <2> SUFFICES ASSUME NEW t \in Turns, Reports(t)', stage'[t] \in Within
               PROVE  active' = t
    BY DEF HasChat
  <2>1. t # m
    BY <1>1 DEF Within
  <2>2. Reports(t) /\ stage[t] \in Within
    BY <1>2, <1>3, <1>4, <2>1 DEF Within
  <2>3. active = t
    BY <2>2 DEF Shape, HasChat
  <2>4. CASE r.bg
    BY <2>3, <2>4 DEF Register
  <2>5. CASE ~r.bg
    <3>1. PICK k : ByTurn(r, k)
      BY <1>4, <2>3 DEF OfMessage
    <3>2. k = "tagged" /\ t = r.parent
      BY <1>4, <2>3, <2>5, <3>1 DEF ByTurn
    <3> QED
      BY <2>2, <3>1, <3>2, ByTurnKinds
  <2> QED
    BY <2>4, <2>5
<1>13. Does'
  <2>1. ASSUME NEW t \in Turns
        PROVE  todo'[t] \in Seq([kind : Work(t)', agent : Agents])
    <3>1. CASE t = m
      <4> DEFINE S == [kind : Work(t)', agent : Agents]
      <4>1. <<>> \in Seq(S)
        OBVIOUS
      <4> QED
        BY <1>1, <3>1, <4>1
    <3>2. CASE t # m
      <4> DEFINE S == [kind : Work(t), agent : Agents]
      <4>1. todo[t] \in Seq(S) /\ Work(t)' = Work(t)
        BY <1>2, <3>2 DEF Shape, Does
      <4> HIDE DEF S
      <4>2. todo'[t] \in Seq(S)
        <5>1. CASE t # r.parent
          BY <1>2, <3>2, <4>1, <5>1
        <5>2. CASE t = r.parent
          <6>1. todo[t] # <<>> /\ t \in Turns /\ todo' = [todo EXCEPT ![t] = Tail(@)]
            BY <1>3, <1>4, <5>2 DEF OfMessage, ByTurn
          <6>2. todo'[t] = Tail(todo[t])
            BY <6>1, TurnFacts
          <6> QED
            BY <4>1, <6>1, <6>2
        <5> QED
          BY <5>1, <5>2
      <4> QED
        BY <4>1, <4>2 DEF S
    <3> QED
      BY <3>1, <3>2
  <2>2. ASSUME NEW t \in Turns, Reports(t)'
        PROVE  turn'[t].queue = <<>>
    <3>1. CASE t # m
      BY <1>2, <2>2, <3>1 DEF Shape, Does
    <3>2. CASE t = m
      <4>1. r.parent # None /\ ~r.bg /\ turn[r.parent].bg
        BY <1>6, <2>2, <3>2
      <4>2. PICK k : ByTurn(r, k)
        BY <4>1 DEF OfMessage
      <4>3. k = "report"
        BY <4>1, <4>2, ByTurnKinds
      <4> QED
        BY <1>1, <3>2, <4>2, <4>3 DEF ByTurn
    <3> QED
      BY <3>1, <3>2
  <2> QED
    BY <2>1, <2>2 DEF Does
<1>14. OneLeads'
  <2>1. ASSUME NEW t \in Turns, t # m, Leading(t)'
        PROVE  Leading(t) /\ turn'[t] = turn[t]
    <3>1. turn'[t] = turn[t] /\ (Reports(t)' <=> Reports(t))
      BY <1>2, <2>1
    <3>2. CASE t # r.parent
      <4>1. stage'[t] = stage[t] /\ todo'[t] = todo[t]
        BY <1>2, <2>1, <3>2
      <4> QED
        BY <2>1, <3>1, <4>1 DEF Leading
    <3>3. CASE t = r.parent
      BY <1>3, <1>4, <2>1, <3>1, <3>3 DEF Leading
    <3> QED
      BY <3>2, <3>3
  <2>2. ASSUME Leading(m)' PROVE OfMessage(r)
    <3>1. r.from # "turn"
      BY <1>1, <2>2 DEF Leading
    <3> QED
      BY <3>1 DEF ByTurn
  <2>3. ASSUME NEW t \in Turns, t # m, OfMessage(r) PROVE turn'[t].root # turn'[m].root
    BY <1>0, <1>1, <1>2, <2>3, NoneOfMessage DEF OfMessage
  <2>4. ASSUME NEW t \in Turns, NEW u \in Turns, Leading(t)', Leading(u)', turn'[t].root = turn'[u].root
        PROVE  t = u
    <3>1. CASE t = m /\ u = m
      BY <3>1
    <3>2. CASE t = m /\ u # m
      BY <2>2, <2>3, <2>4, <3>2
    <3>3. CASE t # m /\ u = m
      BY <2>2, <2>3, <2>4, <3>3
    <3>4. CASE t # m /\ u # m
      <4>1. Leading(t) /\ Leading(u) /\ turn'[t] = turn[t] /\ turn'[u] = turn[u]
        BY <2>1, <2>4, <3>4
      <4> QED
        BY <2>4, <4>1 DEF Shape, OneLeads
    <3> QED
      BY <3>1, <3>2, <3>3, <3>4
  <2> QED
    BY <2>4 DEF OneLeads
<1> QED
  BY <1>8, <1>9, <1>10, <1>11, <1>12, <1>13, <1>14 DEF Shape

\* A new turn takes the room of the one that was about to start it.
LEMMA NewRoom ==
    ASSUME SaidInv, Shape, Room, NEW r \in Turn, Register(r), job' = job,
           OfMessage(r) \/ \E k : ByTurn(r, k)
    PROVE  Room'
<1>0. PICK m : m = n + 1
  OBVIOUS
<1>1. /\ m \in Turns /\ turn[m] = Blank /\ todo'[m] = <<>> /\ turn'[m] = r
      /\ stage'[m] \in {"stored", "begun"}
  BY <1>0, NewTurn
<1>2. \A u \in Turns : u # m =>
        /\ turn'[u] = turn[u]
        /\ stage'[u] = (IF u = r.parent THEN "started" ELSE stage[u])
        /\ u # r.parent => todo'[u] = todo[u]
        /\ Reports(u)' <=> Reports(u)
        /\ Counts(u)' <=> Counts(u)
  BY <1>0, NewTurn
<1>3. \A u \in Turns : Adds(u)' => Adds(u) /\ u # m /\ u # r.parent
  <2> SUFFICES ASSUME NEW u \in Turns, Adds(u)' PROVE Adds(u) /\ u # m /\ u # r.parent
    OBVIOUS
  <2>1. u # m
    BY <1>1 DEF Adds
  <2>2. u # r.parent
    BY <1>2, <2>1 DEF Adds
  <2> QED
    BY <1>2, <2>1, <2>2 DEF Adds
<1> SUFFICES ASSUME NEW q \in Turns PROVE RoomFor(q)'
  BY DEF Room
<1> DEFINE A == AnswersOf(q)
           B == AnswersOf(q)'
           S == ToStart(q)
           T == ToStart(q)'
<1>4. A \in SUBSET Turns /\ S \in SUBSET Turns /\ B \in SUBSET Turns /\ T \in SUBSET Turns
  BY DEF AnswersOf, ToStart
<1>5. B \subseteq A \cup {m} /\ (q # r.root \/ Reports(m)' => B \subseteq A)
  BY <1>1, <1>2 DEF AnswersOf
<1>6. T \subseteq S /\ r.parent \notin T
  BY <1>2, <1>3 DEF ToStart
<1>7. \/ Cardinality(A) + Cardinality(S) <= Most
      \/ Cardinality(A) + Cardinality(S) <= Most + 1 /\ \A a \in Agents : bg[a] \in S
  BY DEF Room, RoomFor
<1>8. CASE OfMessage(r) /\ q = m
  <2>1. A = {} /\ S = {}
    <3>1. \A u \in Turns : turn[u].root # m
      <4>1. turn[m].root # m
        BY <1>1, TurnFacts DEF Blank
      <4> QED
        BY <1>0, <4>1, NoneOfMessage
    <3> QED
      BY <1>8, <3>1 DEF AnswersOf, ToStart
  <2>2. B \in SUBSET {m} /\ T = {}
    BY <1>5, <1>6, <2>1
  <2> HIDE DEF A, B, S, T
  <2>3. {m} \in SUBSET Turns
    BY <1>1
  <2>4. Cardinality(B) <= Cardinality({m}) /\ Cardinality(B) \in Nat
    BY <1>4, <2>2, <2>3, SmallerSet, AllFinite
  <2>5. Cardinality({m}) = 1 /\ Cardinality({}) = 0
    BY FS_Singleton, FS_EmptySet
  <2>6. Cardinality(T) = 0
    BY <2>2, <2>5, Zenon
  <2>7. Cardinality(B) + Cardinality(T) <= Most
    BY <2>4, <2>5, <2>6, MostNat DEF Most
  <2> QED
    BY <2>7 DEF B, T, RoomFor, Most
<1>9. CASE OfMessage(r) /\ q # m
  <2>1. B \in SUBSET A /\ T \in SUBSET S /\ bg' = bg
    BY <1>0, <1>5, <1>6, <1>9 DEF OfMessage, Register
  <2> HIDE DEF A, B, S, T
  <2>2. Cardinality(B) <= Cardinality(A) /\ Cardinality(T) <= Cardinality(S)
        /\ (T # S => Cardinality(T) + 1 <= Cardinality(S))
    BY <1>4, <2>1, SmallerSet
  <2>3. Cardinality(A) \in Nat /\ Cardinality(B) \in Nat /\ Cardinality(S) \in Nat /\ Cardinality(T) \in Nat
    BY <1>4, AllFinite
  <2>4. \/ Cardinality(B) + Cardinality(T) <= Most
        \/ Cardinality(B) + Cardinality(T) <= Most + 1 /\ \A a \in Agents : bg'[a] \in T
    <3>1. CASE T # S
      BY <1>7, <2>2, <2>3, <3>1, MostNat
    <3>2. CASE T = S
      BY <1>7, <2>1, <2>2, <2>3, <3>2, MostNat
    <3> QED
      BY <3>1, <3>2
  <2> QED
    BY <2>4 DEF B, T, RoomFor, Most
<1>10. ASSUME NEW k, ByTurn(r, k) PROVE RoomFor(q)'
  <2>1. Cardinality(A) + Cardinality(S) <= Most
    <3>1. bg[r.agent] \notin S /\ r.agent \in Agents
      BY <1>4, <1>10, TurnFacts DEF ByTurn
    <3> QED
      BY <1>7, <3>1
  <2>2. q = r.root /\ ~(Reports(m)') => r.parent \in S
    <3> SUFFICES ASSUME q = r.root, ~(Reports(m)') PROVE r.parent \in S
      OBVIOUS
    <3>1. /\ r.parent \in Turns /\ stage[r.parent] = "start" /\ turn[r.parent].root = q
          /\ k = Head(todo[r.parent]).kind
      BY <1>10 DEF ByTurn
    <3>2. r.parent # m /\ r.parent # None
      BY <1>0, <3>1, TurnFacts
    <3>3. turn'[r.parent] = turn[r.parent]
      BY <1>2, <3>1, <3>2
    <3>4. ~(turn[r.parent].bg /\ ~r.bg)
      BY <1>1, <3>2, <3>3 DEF Reports
    <3>5. k # "report"
      BY <1>10, <3>4, ByTurnKinds
    <3> QED
      BY <3>1, <3>5 DEF ToStart, Adds
  <2> HIDE DEF A, B, S, T
  <2>3. Cardinality(A) \in Nat /\ Cardinality(B) \in Nat /\ Cardinality(S) \in Nat /\ Cardinality(T) \in Nat
    BY <1>4, AllFinite
  <2>4. Cardinality(T) <= Cardinality(S) /\ (T # S => Cardinality(T) + 1 <= Cardinality(S))
    BY <1>4, <1>6, SmallerSet
  <2>5. IsFiniteSet(A \cup {m}) /\ Cardinality(A \cup {m}) \in {Cardinality(A), Cardinality(A) + 1}
    BY <1>4, AllFinite, FS_AddElement, Zenon
  <2>6. Cardinality(B) <= Cardinality(A) + 1
    <3>1. Cardinality(B) <= Cardinality(A \cup {m})
      BY <1>5, <2>5, FS_Subset
    <3> QED
      BY <2>3, <2>5, <3>1
  <2>7. q # r.root \/ Reports(m)' => Cardinality(B) <= Cardinality(A)
    BY <1>4, <1>5, SmallerSet
  <2>8. Cardinality(B) + Cardinality(T) <= Most
    <3>1. CASE q # r.root \/ Reports(m)'
      BY <2>1, <2>3, <2>4, <2>7, <3>1, MostNat
    <3>2. CASE ~(q # r.root \/ Reports(m)')
      <4>1. Cardinality(T) + 1 <= Cardinality(S)
        BY <1>6, <2>2, <2>4, <3>2
      <4> QED
        BY <2>1, <2>3, <2>6, <4>1, MostNat
    <3> QED
      BY <3>1, <3>2
  <2> QED
    BY <2>8 DEF B, T, RoomFor, Most
<1> QED
  BY <1>8, <1>9, <1>10

\* So a new turn leaves the account in order.
LEMMA NewAnswers ==
    ASSUME SaidInv, Sums, Shape, Room, NEW r \in Turn, Register(r), job' = job,
           OfMessage(r) \/ \E k : ByTurn(r, k)
    PROVE  Sums' /\ Shape' /\ Room'
  BY NewSums, NewShape, NewRoom

-----------------------------------------------------------------------------
\* A message's first turn begins.
LEMMA BeginAnswers ==
    ASSUME SaidInv, Sums, Shape, Room, NEW as \in Callable, NEW who \in People,
           NEW from \in People \cup {"sender", "office"}, NEW parts \in Seq(Msgs), Begin(as, who, from, parts)
    PROVE  Sums' /\ Shape' /\ Room'
<1> DEFINE r == [agent |-> Head(as), bg |-> FALSE, by |-> NoOne, root |-> n + 1, actor |-> who,
                 queue |-> Tail(as), from |-> from, parent |-> None, parts |-> parts]
<1>1. Register(r) /\ UNCHANGED <<job, todo>> /\ active = None
  BY DEF Begin, Verdict
<1>2. n + 1 \in Turns
  BY <1>1, TurnFacts DEF Register, Turns
<1>3. r \in Turn
  BY <1>2, CallableSeq DEF Turn
<1>4. from # "turn"
  BY PeopleAssumption
<1>5. OfMessage(r)
  BY <1>1, <1>4 DEF OfMessage
<1> HIDE DEF r
<1> QED
  BY <1>1, <1>3, <1>5, NewAnswers

\* A person, ...
LEMMA SendAnswers ==
    ASSUME SaidInv, Sums, Shape, Room, NEW p \in People, Send(p)
    PROVE  Sums' /\ Shape' /\ Room'
<1>1. PICK as \in Callable : Begin(as, p, p, <<req[p].m>>) \/ UNCHANGED answers
  BY DEF Send
<1>2. CASE UNCHANGED answers
  BY <1>2, QuietAnswers DEF answers
<1>3. CASE Begin(as, p, p, <<req[p].m>>)
  <2>1. ChatOK /\ WrittenBy
    BY TypeParts DEF SaidInv, TypeInv
  <2>2. req[p].at = "send"
    BY DEF Send, At
  <2>3. req[p].m \in 1 .. written /\ written <= MaxMsgs /\ written \in Nat
    BY <2>1, <2>2, BoundAssumption DEF WrittenBy, ChatOK
  <2>4. <<req[p].m>> \in Seq(Msgs)
    BY <2>3, TurnsNat DEF Msgs
  <2> QED
    BY <1>3, <2>4, BeginAnswers
<1> QED
  BY <1>1, <1>2, <1>3

\* ... the sender of waiting messages ...
LEMMA SenderSendAnswers ==
    ASSUME SaidInv, Sums, Shape, Room, SenderSend
    PROVE  Sums' /\ Shape' /\ Room'
<1>1. PICK as \in Callable :
          Begin(as, author[Head(sender.list)], "sender", sender.list) \/ UNCHANGED answers
  BY DEF SenderSend
<1>2. CASE UNCHANGED answers
  BY <1>2, QuietAnswers DEF answers
<1>3. CASE Begin(as, author[Head(sender.list)], "sender", sender.list)
  <2>1. CallersOK /\ WrittenBy
    BY TypeParts DEF SaidInv, TypeInv
  <2>2. sender.list \in Seq(Msgs) /\ sender.list # <<>>
    BY <2>1 DEF SenderSend, WrittenBy, CallersOK
  <2>3. Head(sender.list) \in ToSet(sender.list) /\ ToSet(sender.list) \subseteq Msgs
    BY <2>2, HeadIn, SetOfSeq
  <2>4. author[Head(sender.list)] \in People
    BY <2>1, <2>3 DEF WrittenBy
  <2> QED
    BY <1>3, <2>2, <2>4, BeginAnswers
<1> QED
  BY <1>1, <1>2, <1>3

\* ... and office as it comes back begin a message.
LEMMA ResumeAnswers ==
    ASSUME SaidInv, Sums, Shape, Room, ResumeInterrupted
    PROVE  Sums' /\ Shape' /\ Room'
<1>1. CASE UNCHANGED answers
  BY <1>1, QuietAnswers DEF answers
<1>2. CASE cut.agents # <<>> /\ Begin(cut.agents, cut.who, "office", <<>>)
  <2>1. CutOff
    BY TypeParts DEF SaidInv, TypeInv
  <2>2. cut.agents \in Callable /\ cut.who \in People
    BY <1>2, <2>1 DEF SaidInv, TypeInv, HeldInv, TypedLists, CutOff
  <2>3. <<>> \in Seq(Msgs)
    BY EmptySeq
  <2> QED
    BY <1>2, <2>2, <2>3, BeginAnswers
<1> QED
  BY <1>1, <1>2 DEF ResumeInterrupted

\* A turn starts another one, or could not.
LEMMA StartTurnAnswers ==
    ASSUME SaidInv, Sums, Shape, Room, NEW t \in Turns, StartTurn(t)
    PROVE  Sums' /\ Shape' /\ Room'
<1> DEFINE s == Head(todo[t])
           hand == s.kind = "hand"
           rest == IF s.kind = "tagged" THEN [i \in DOMAIN Tail(todo[t]) |-> Tail(todo[t])[i].agent] ELSE <<>>
           r == [agent |-> s.agent, bg |-> hand, by |-> IF hand THEN turn[t].agent ELSE NoOne,
                 root |-> turn[t].root, actor |-> turn[t].actor, queue |-> rest,
                 from |-> "turn", parent |-> t, parts |-> <<>>]
<1>1. /\ stage[t] = "start" /\ todo[t] # <<>> /\ todo[t] \in Seq(StartSpec)
      /\ todo' = [todo EXCEPT ![t] = Tail(@)] /\ job' = job
  BY DEF StartTurn, Left, SaidInv, TypeInv, HeldInv, Starting, TypedLists
<1>2. \/ CanStart(t, s) /\ Register(r)
      \/ stage' = [stage EXCEPT ![t] = "next"] /\ UNCHANGED <<n, turn, total, active, bg>>
  BY DEF StartTurn
<1>3. CASE CanStart(t, s) /\ Register(r)
  <2>1. s \in StartSpec /\ rest \in Seq(Agents)
    BY <1>1, HeadTailProperties, RestSeq, EmptySeq
  <2>2. turn[t] \in Turn
    <3>1. TurnsOK /\ StagesOK
      BY TypeParts DEF SaidInv, TypeInv, AnswersOK
    <3> QED
      BY <1>1, <3>1, TurnsNat DEF TurnsOK, StagesOK
  <2>3. <<>> \in Seq(Msgs) /\ s.agent \in Agents /\ hand \in BOOLEAN
    BY <2>1, EmptySeq DEF StartSpec
  <2>4. turn[t].agent \in Agents /\ turn[t].root \in Turns /\ turn[t].actor \in People
    BY <2>2 DEF Turn
  <2>5. r \in Turn
    <3> HIDE DEF hand, rest, s
    <3> QED
      BY <2>1, <2>3, <2>4 DEF Turn
  <2>6. /\ r.parent = t /\ r.root = turn[t].root /\ r.from = "turn" /\ r.agent = s.agent /\ r.bg = (s.kind = "hand")
        /\ s.kind # "tagged" => r.queue = <<>>
    OBVIOUS
  <2> HIDE DEF r
  <2>7. ByTurn(r, s.kind)
    BY <1>1, <1>3, <2>3, <2>6 DEF ByTurn, CanStart
  <2> QED
    BY <1>1, <1>3, <2>5, <2>7, NewAnswers
<1>4. CASE stage' = [stage EXCEPT ![t] = "next"] /\ UNCHANGED <<n, turn, total, active, bg>>
  <2>1. /\ stage \in [Turns -> Stages] /\ todo \in [Turns -> Seq([kind : Kinds, agent : Agents])]
    BY TurnFacts
  <2>2. Tail(todo[t]) \in Seq([kind : Work(t), agent : Agents])
    BY <1>1, Leaves DEF Shape, Does
  <2>3. todo'[t] = Tail(todo[t]) /\ \A u \in Turns : u # t => todo'[u] = todo[u]
    BY <1>1, <2>1
  <2>4. Onward(t)
    BY <1>1, <1>4, <2>1, <2>2, <2>3 DEF Onward, Counts
  <2> QED
    BY <2>4, OnwardAnswers
<1> QED
  BY <1>2, <1>3, <1>4

\* What people, the sender and office do without beginning a turn.
LEMMA AsideAnswers ==
    ASSUME SaidInv, Sums, Shape, Room,
           \/ \E p \in People : Write(p) \/ LookActive(p) \/ LookQueued(p) \/ Queue(p)
           \/ Unqueue \/ SenderActive \/ SenderList \/ SenderDelete
           \/ \E t \in Turns, a \in Agents : Delegate(t, a)
           \/ Stop \/ Shutdown \/ ShutdownTakes \/ ListRunning \/ FailRunning \/ SendAllQueued
           \/ UNCHANGED vars
    PROVE  Sums' /\ Shape' /\ Room'
<1>1. UNCHANGED <<n, turn, stage, todo, total, active, bg>>
  BY DEF Write, LookActive, LookQueued, Queue, Unqueue, SenderActive, SenderList, SenderDelete, Delegate,
         Stop, Shutdown, ShutdownTakes, ListRunning, FailRunning, SendAllQueued, answers, vars
<1>2. job' = job \/ job' = [t \in Turns |-> IF job[t] = "running" THEN "ended" ELSE job[t]]
  BY DEF Write, LookActive, LookQueued, Queue, Unqueue, SenderActive, SenderList, SenderDelete, Delegate,
         Stop, Shutdown, ShutdownTakes, ListRunning, FailRunning, SendAllQueued, answers, vars
<1>3. \A u \in Turns : job'[u] = "none" <=> job[u] = "none"
  BY <1>2
<1> QED
  BY <1>1, <1>3, QuietAnswers

\* Every step keeps the account.
LEMMA StepAnswers == AnswersInv /\ [Next]_vars => AnswersInv'
<1> SUFFICES ASSUME AnswersInv, [Next]_vars PROVE AnswersInv'
  OBVIOUS
<1> DEFINE P == Sums' /\ Shape' /\ Room'
<1>1. SaidInv /\ Sums /\ Shape /\ Room
  BY DEF AnswersInv
<1>2. SaidInv'
  BY <1>1, StepSaid
<1>3. ASSUME NEW p \in People, Write(p) \/ Request(p) PROVE P
  BY <1>1, <1>3, AsideAnswers, SendAnswers DEF Request
<1>4. ASSUME Sender PROVE P
  BY <1>1, <1>4, AsideAnswers, SenderSendAnswers DEF Sender
<1>5. ASSUME Starts PROVE P
  BY <1>1, <1>5, AsideAnswers, ResumeAnswers DEF Starts
<1>6. ASSUME NEW t \in Turns, Goes(t) \/ \E a \in Agents : Delegate(t, a) PROVE P
  <2>1. CASE StoreMessage(t) \/ BeginJob(t) \/ AnswerEnd(t) \/ AnswerCut(t) \/ NextTurn(t) \/ EndTurn(t)
    BY <1>1, <2>1, OnwardSteps, OnwardAnswers
  <2>2. CASE BeginJobNext(t)
    BY <1>1, <2>2, BeginJobNextAnswers
  <2>3. CASE MayStart(t)
    BY <1>1, <1>2, <2>3, MayStartAnswers
  <2>4. CASE StartTurn(t)
    BY <1>1, <2>4, StartTurnAnswers
  <2>5. CASE \E a \in Agents : Delegate(t, a)
    BY <1>1, <2>5, AsideAnswers
  <2> QED
    BY <1>6, <2>1, <2>2, <2>3, <2>4, <2>5 DEF Goes
<1>7. ASSUME Unqueue \/ Stop \/ Shutdown \/ ShutdownTakes \/ Down \/ UNCHANGED vars PROVE P
  BY <1>1, <1>7, AsideAnswers, DownAnswers
<1> HIDE DEF P
<1>8. P
  BY <1>3, <1>4, <1>5, <1>6, <1>7, Zenon DEF Next
<1> QED
  BY <1>2, <1>8 DEF P, AnswersInv

\* A message gets no more answers than it allows and there are agents, reports
\* aside, whatever tags, tasks and reports it comes to.
THEOREM AnswersKeptHolds == Spec => []AnswersKept
<1>1. Init => AnswersInv
  BY InitSaidInv, InitAnswers DEF AnswersInv
<1>2. AnswersInv => AnswersKept
  <2> SUFFICES ASSUME AnswersInv, NEW r \in Turns
               PROVE  Cardinality({t \in Turns : turn[t].root = r /\ job[t] # "none" /\ ~Reports(t)}) <= Most
    BY DEF AnswersKept, Most
  <2> DEFINE W == {t \in Turns : turn[t].root = r /\ job[t] # "none" /\ ~Reports(t)}
             A == AnswersOf(r)
             S == ToStart(r)
  <2>1. A \in SUBSET Turns /\ W \in SUBSET A /\ S \in SUBSET Turns
    BY DEF AnswersOf, Counts, ToStart
  <2>2. \/ Cardinality(A) + Cardinality(S) <= Most
        \/ Cardinality(A) + Cardinality(S) <= Most + 1 /\ \A a \in Agents : bg[a] \in S
    BY DEF AnswersInv, Room, RoomFor
  <2> HIDE DEF W, A, S
  <2>3. /\ Cardinality(W) <= Cardinality(A) /\ Cardinality(W) \in Nat
        /\ Cardinality(A) \in Nat /\ IsFiniteSet(S) /\ Cardinality(S) \in Nat
    BY <2>1, SmallerSet, AllFinite
  <2>4. (\A a \in Agents : bg[a] \in S) => Cardinality(S) # 0
    BY <2>3, AgentAssumption, FS_EmptySet
  <2>5. Cardinality(W) <= Most
    BY <2>2, <2>3, <2>4, MostNat
  <2> QED
    BY <2>5 DEF W
<1> QED
  BY <1>1, StepAnswers, <1>2, PTL DEF Spec
=============================================================================
