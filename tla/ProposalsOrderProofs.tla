------------------------ MODULE ProposalsOrderProofs ------------------------
(***************************************************************************)
(* The order of a chat's cards, and the refinement of ApprovalQueue, when  *)
(* people decide only while no agent answers (Overlap = {}), every turn    *)
(* comes to its end (MayStop = FALSE) and people decide on the dashboard   *)
(* (Bots = {}): however many agents, requests, cards, turns and restarts.  *)
(***************************************************************************)
EXTENDS ProposalsApartProofs

MadeShown == \A c \in Cards : c <= made => row[c].status # "none" /\ owner[c] \in Agents

\* The cards of the turn an agent is at come after its others, and those of
\* them that have no number yet come last.
TurnLast == \A a \in Agents, c, d \in Cards :
    c \in mine[a] /\ c < d /\ d <= made /\ owner[d] = a =>
        /\ d \in mine[a]
        /\ pc[a] = "attach" /\ copy[a][c] # Blank => copy[a][d] # Blank
TurnActions == \A a \in Agents : mine[a] # {} =>
    \/ pc[a] \in {"answering", "attach"}
    \/ pc[a] \in Deciding /\ kind[cur[a]] = "action"

\* Numbers grow answer by answer.
Numbered == \A c \in Cards : c <= made =>
    /\ row[c].msg <= answer[owner[c]]
    /\ c \notin mine[owner[c]] => row[c].msg # 0
    /\ pc[owner[c]] = "attach" =>
        IF c \notin mine[owner[c]] THEN row[c].msg < answer[owner[c]]
        ELSE row[c].msg = IF copy[owner[c]][c] = Blank THEN answer[owner[c]] ELSE 0
Answered == \A a \in Agents :
    /\ answer[a] <= msgs
    /\ \/ pc[a] \in {"attach", "diff", "replace", "add"}
       \/ pc[a] \in Deciding /\ kind[cur[a]] = "patch"
       => answer[a] > 0
InTurn == \A c, d \in Cards : c < d /\ d <= made /\ owner[c] = owner[d] => Before(c, d)

\* What an agent decides on its own: an action of its, which waits; or its
\* newest diff.
SelfDecide == \A a \in Agents :
    /\ pc[a] # "get"
    /\ pc[a] \in Deciding /\ kind[cur[a]] = "action" =>
         a \in AutoRun /\ row[cur[a]].status = "pending" /\ pc[a] \in {"decide", "deciding"}

QueueingPending == \A p \in Procs : pc[p] = "queueing" => row[cur[p]].status = "pending"

\* A card that may be carried out has nothing of its agent before it.
Clear(c) == \A d \in Cards : d < c /\ owner[d] = owner[c] => ~Open(d)
Nears(p) ==
    /\ \/ pc[p] \in {"decide", "deciding"} /\ approve[p]
       \/ p = Drainer /\ pc[p] \in {"get", "check"}
    /\ ~(p \in Agents /\ kind[cur[p]] = "action")
    /\ Open(cur[p])
InLine == \A p \in Procs : Nears(p) => Clear(cur[p])

OrderInv ==
    /\ ApartInv /\ MadeShown /\ TurnLast /\ TurnActions /\ Numbered /\ Answered /\ InTurn
    /\ SelfDecide /\ QueueingPending /\ InLine

-----------------------------------------------------------------------------
LEMMA InitOrder == Init => OrderInv
<1> SUFFICES ASSUME Init PROVE OrderInv
  OBVIOUS
<1>1. ApartInv /\ made = 0 /\ \A c \in Cards : c \in Nat \ {0}
  BY InitApart DEF Init, Cards
<1>2. (\A p \in Procs : pc[p] = "idle") /\ (\A a \in Agents : mine[a] = {} /\ answer[a] <= msgs)
  BY DEF Init
<1>3. MadeShown /\ Numbered /\ InTurn
  BY <1>1 DEF MadeShown, Numbered, InTurn
<1>4. TurnLast /\ TurnActions
  BY <1>2 DEF TurnLast, TurnActions
<1>5. Answered /\ SelfDecide /\ QueueingPending /\ InLine
  BY <1>2, AgentProcs DEF Answered, SelfDecide, QueueingPending, InLine, Nears, Deciding
<1> QED BY <1>1, <1>3, <1>4, <1>5 DEF OrderInv

\* A step of an agent writes rows of its own cards only.
LEMMA AgentStep ==
  ASSUME ApartInv, NEW a \in Agents, Decision(a) \/ Turn(a)
  PROVE  /\ Alone(a)
         /\ \A c \in Cards : c <= made /\ owner[c] # a => row'[c] = row[c]
         /\ \A b \in Agents : b # a => mine'[b] = mine[b] /\ answer'[b] = answer[b]
<1> USE DEF ApartInv, DiffInv, DecisionInv, At, GoTo
<1>0. a \in Procs
  BY AgentProcs
<1>1. Alone(a)
  BY <1>0, DecisionMoves, DecisionBegins, DecisionEnds, TurnMoves DEF Decision, Moves, Begins, Ends
<1>2. CASE row' = row /\ answer' = answer /\ \A b \in Agents : b # a => mine'[b] = mine[b]
  BY <1>1, <1>2
<1>3. CASE Get(a) \/ CheckOrder(a) \/ Refused(a) \/ QueueBegin(a) \/ DecideBegin(a)
  BY <1>2, <1>3 DEF Get, CheckOrder, Refused, QueueBegin, DecideBegin, Begin, turnVars
<1>4. CASE QueueEnd(a) \/ DecideEnd(a)
  <2>1. mine' = mine /\ answer' = answer /\ pc[a] \in Deciding
    BY <1>4 DEF QueueEnd, DecideEnd, turnVars, Deciding
  <2>2. owner[cur[a]] = a
    BY <2>1 DEF OwnCards
  <2> QED BY <1>0, <1>1, <1>4, <2>1, <2>2, EndsRow
<1>5. CASE TurnStart(a) \/ TurnFail(a) \/ Diff(a) \/ TurnEnd(a)
  BY <1>2, <1>5 DEF TurnStart, TurnFail, Diff, TurnEnd, turnVars, TypeOK
<1>6. CASE Answer(a)
  BY <1>1, <1>6 DEF Answer, TypeOK
<1>7. CASE Propose(a) \/ AddPatch(a)
  <2>1. PICK k \in {"action", "patch"}, m \in 0 .. MaxTurns : MakeCard(a, k, m)
    BY <1>7, BoundsAssumption DEF Propose, AddPatch, TypeOK
  <2>2. \A c \in Cards : c <= made => c # made + 1
    BY Numbers
  <2>3. \A c \in Cards : c <= made => row'[c] = row[c]
    BY <2>1, <2>2, CardMade
  <2>4. answer' = answer /\ \A b \in Agents : b # a => mine'[b] = mine[b]
    BY <1>7 DEF Propose, AddPatch, turnVars, TypeOK
  <2> QED BY <1>1, <2>3, <2>4
<1>8. CASE Attach(a) \/ Replace(a)
  <2>1. answer' = answer /\ \A b \in Agents : b # a => mine'[b] = mine[b]
    BY <1>8 DEF Attach, Replace, turnVars, TypeOK
  <2>2. CASE row' # row \/ copy' # copy
    <3>1. PICK c \in Cards : copy[a][c] # Blank /\ \A d \in Cards : d # c => row'[d] = row[d]
      BY <1>8, <2>2, WritesBack
    <3>2. ~Busy(a)
      BY <1>8 DEF Attach, Replace, Busy
    <3>3. owner[c] = a
      BY <1>0, <3>1, <3>2 DEF Reader
    <3> QED BY <1>1, <2>1, <3>1, <3>3
  <2> QED BY <1>2, <2>1, <2>2
<1> QED BY <1>3, <1>4, <1>5, <1>6, <1>7, <1>8 DEF Decision, Turn

\* A step of anyone else is one when all agents are idle, before and after it.
LEMMA OtherStep ==
  ASSUME Overlap = {}, MayStop = FALSE, OrderInv,
         \/ \E c \in Cards : Clicks(c)
         \/ \E p \in Procs \ Agents : Decision(p)
         \/ DrainStart \/ DrainList \/ DrainAgain
         \/ Crash
  PROVE  /\ \A a \in Agents : pc[a] = "idle" /\ pc'[a] = "idle" /\ mine[a] = {} /\ mine'[a] = {}
         /\ made' = made /\ kind' = kind /\ owner' = owner /\ msgs' = msgs /\ answer' = answer
         /\ \A c \in Cards : row'[c].msg = row[c].msg
<1> USE DEF OrderInv, ApartInv, DiffInv, DecisionInv, At, GoTo
<1>1. ASSUME NEW p \in Procs \ Agents, Alone(p), pc[p] # "idle" \/ drains > 0 \/ Idle(Agents), mine' = mine
      PROVE  \A a \in Agents : pc[a] = "idle" /\ pc'[a] = "idle" /\ mine[a] = {} /\ mine'[a] = {}
  <2>1. Idle(Agents)
    BY <1>1 DEF Apart, Quiet, Idle, Procs
  <2>2. ASSUME NEW a \in Agents PROVE pc[a] = "idle" /\ pc'[a] = "idle"
    BY <1>1, <2>1, AgentProcs DEF Alone, Idle
  <2> QED BY <1>1, <2>2 DEF TurnActions, Deciding
<1>2. ASSUME NEW c \in Cards, Clicks(c)
      PROVE  /\ \A a \in Agents : pc[a] = "idle" /\ pc'[a] = "idle" /\ mine[a] = {} /\ mine'[a] = {}
             /\ made' = made /\ kind' = kind /\ owner' = owner /\ msgs' = msgs /\ answer' = answer /\ row' = row
  <2>1. PICK p \in People, yes \in BOOLEAN : Click(p, c, yes)
    BY <1>2 DEF Clicks
  <2>2. p \in Procs \ Agents /\ Alone(p)
    BY <2>1, ClickMoves, ProcsAssumption DEF Moves
  <2> QED BY <1>1, <2>1, <2>2 DEF Click, cardVars, turnVars
<1>3. ASSUME NEW p \in Procs \ Agents, Decision(p)
      PROVE  /\ \A a \in Agents : pc[a] = "idle" /\ pc'[a] = "idle" /\ mine[a] = {} /\ mine'[a] = {}
             /\ made' = made /\ kind' = kind /\ owner' = owner /\ msgs' = msgs /\ answer' = answer
             /\ \A c \in Cards : row'[c].msg = row[c].msg
  <2>1. Alone(p)
    BY <1>3, DecisionMoves, DecisionBegins, DecisionEnds DEF Decision, Moves, Begins, Ends
  <2>2. /\ pc[p] # "idle" /\ mine' = mine
        /\ made' = made /\ kind' = kind /\ owner' = owner /\ msgs' = msgs /\ answer' = answer
    BY <1>3 DEF Decision, Get, CheckOrder, Refused, QueueBegin, DecideBegin, Begin, QueueEnd, DecideEnd, cardVars, turnVars
  <2>3. \A c \in Cards : row'[c].msg = row[c].msg
    <3>1. CASE QueueEnd(p) \/ DecideEnd(p)
      BY <3>1, EndsRow
    <3>2. CASE ~(QueueEnd(p) \/ DecideEnd(p))
      BY <1>3, <3>2 DEF Decision, Get, CheckOrder, Refused, QueueBegin, DecideBegin, Begin
    <3> QED BY <3>1, <3>2
  <2> QED BY <1>1, <2>1, <2>2, <2>3
<1>4. ASSUME DrainStart \/ DrainList \/ DrainAgain
      PROVE  /\ \A a \in Agents : pc[a] = "idle" /\ pc'[a] = "idle" /\ mine[a] = {} /\ mine'[a] = {}
             /\ made' = made /\ kind' = kind /\ owner' = owner /\ msgs' = msgs /\ answer' = answer /\ row' = row
  <2>1. Drainer \in Procs \ Agents /\ Alone(Drainer)
    BY <1>4, DrainMoves, ProcsAssumption DEF Moves
  <2> QED BY <1>1, <1>4, <2>1 DEF DrainStart, DrainList, DrainAgain, cardVars, turnVars
<1>5. ASSUME Crash
      PROVE  /\ \A a \in Agents : pc[a] = "idle" /\ pc'[a] = "idle" /\ mine[a] = {} /\ mine'[a] = {}
             /\ made' = made /\ kind' = kind /\ owner' = owner /\ msgs' = msgs /\ answer' = answer /\ row' = row
  BY <1>5, AgentProcs DEF Crash, Idle, cardVars, TurnActions, Deciding
<1> QED BY <1>2, <1>3, <1>4, <1>5

\* Types after a step, where it matters.
LEMMA Later == ASSUME ApartInv, [Next]_vars PROVE TypeOK' /\ CurCard' /\ CurMade'
  BY StepDiff DEF ApartInv, DiffInv, DecisionInv

LEMMA StepShown == ASSUME ApartInv, MadeShown, [Next]_vars PROVE MadeShown'
<1> USE DEF ApartInv, DiffInv, DecisionInv
<1>1. CASE made' = made
  BY <1>1, RowSteps DEF MadeShown
<1>2. CASE made' # made
  <2>1. PICK a \in Agents : Propose(a) \/ AddPatch(a)
    BY <1>2 DEF Next, Clicks, Click, Decision, Get, CheckOrder, Refused, QueueBegin, DecideBegin, Begin, QueueEnd, DecideEnd,
                DrainStart, DrainList, DrainAgain, Turn, TurnStart, TurnFail, Answer, Attach, Diff, Replace, TurnEnd,
                Crash, cardVars, vars
  <2>2. PICK k \in {"action", "patch"}, m \in 0 .. MaxTurns : MakeCard(a, k, m)
    BY <2>1, BoundsAssumption DEF Propose, AddPatch, TypeOK
  <2>3. made' = made + 1 /\ row'[made + 1].status = "pending" /\ owner'[made + 1] = a
    BY <2>2, CardMade DEF MakeCard, TypeOK
  <2>4. \A c \in Cards : c <= made + 1 => c <= made \/ c = made + 1
    BY Numbers
  <2> QED BY <2>3, <2>4, RowSteps DEF MadeShown
<1> QED BY <1>1, <1>2

-----------------------------------------------------------------------------
\* The numbers of the cards.
Numbering == TurnLast /\ Numbered /\ InTurn

LEMMA NumberingSame ==
  ASSUME OrderInv, made' = made, kind' = kind, owner' = owner, answer' = answer, msgs' = msgs,
         \A c \in Cards : row'[c].msg = row[c].msg,
         \A a \in Agents : /\ mine'[a] = mine[a]
                           /\ pc'[a] = "attach" => pc[a] = "attach" /\ copy'[a] = copy[a]
  PROVE  Numbering'
<1> USE DEF OrderInv
<1>1. TurnLast'
  BY DEF TurnLast
<1>2. Numbered'
  BY DEF Numbered, MadeShown
<1>3. InTurn'
  BY DEF InTurn, Before, Number
<1> QED BY <1>1, <1>2, <1>3 DEF Numbering

LEMMA NumberingOther ==
  ASSUME Overlap = {}, MayStop = FALSE, OrderInv,
         \/ \E c \in Cards : Clicks(c)
         \/ \E p \in Procs \ Agents : Decision(p)
         \/ DrainStart \/ DrainList \/ DrainAgain
         \/ Crash
  PROVE  Numbering'
  BY OtherStep, NumberingSame

LEMMA NumberingStill ==
  ASSUME MayStop = FALSE, OrderInv, NEW a \in Agents,
         \/ Decision(a)
         \/ TurnStart(a) \/ TurnFail(a) \/ Diff(a) \/ Replace(a) \/ TurnEnd(a)
  PROVE  Numbering'
<1> USE DEF OrderInv, ApartInv, DiffInv, DecisionInv, At, GoTo
<1>1. Alone(a) /\ a \in Procs
  BY AgentStep, AgentProcs DEF Turn
<1>2. /\ made' = made /\ kind' = kind /\ owner' = owner /\ answer' = answer /\ msgs' = msgs
  BY DEF Decision, Get, CheckOrder, Refused, QueueBegin, DecideBegin, Begin, QueueEnd, DecideEnd,
         TurnStart, TurnFail, Diff, Replace, TurnEnd, cardVars, turnVars
<1>3. \A b \in Agents : mine'[b] = mine[b]
  <2>1. CASE TurnStart(a)
    <3>1. mine[a] = {}
      BY <2>1 DEF TurnStart, TurnActions, Deciding
    <3> QED BY <2>1, <3>1 DEF TurnStart, TypeOK
  <2>2. CASE ~TurnStart(a)
    BY <2>2 DEF Decision, Get, CheckOrder, Refused, QueueBegin, DecideBegin, Begin, QueueEnd, DecideEnd,
         TurnStart, TurnFail, Diff, Replace, TurnEnd, cardVars, turnVars
  <2> QED BY <2>1, <2>2
<1>4. \A c \in Cards : row'[c].msg = row[c].msg
  <2>1. CASE QueueEnd(a) \/ DecideEnd(a)
    BY <1>1, <2>1, EndsRow
  <2>2. CASE Replace(a)
    <3>1. CASE row' # row
      <4>1. PICK c \in Cards : row'[c].msg = row[c].msg /\ \A d \in Cards : d # c => row'[d] = row[d]
        BY <2>2, <3>1, WritesBack
      <4> QED BY <4>1
    <3> QED BY <3>1
  <2>3. CASE ~(QueueEnd(a) \/ DecideEnd(a) \/ Replace(a))
    BY <2>3 DEF Decision, Get, CheckOrder, Refused, QueueBegin, DecideBegin, Begin, TurnStart, TurnFail, Diff, TurnEnd
  <2> QED BY <2>1, <2>2, <2>3
<1>5. pc'[a] # "attach"
  <2>1. CASE Decision(a)
    <3>1. CASE Over(a)
      <4>1. pc[a] \in Deciding
        BY <2>1 DEF Decision, Get, CheckOrder, Refused, QueueBegin, DecideBegin, Begin, QueueEnd, DecideEnd, Deciding
      <4>2. kind[cur[a]] \in {"action", "patch"}
        BY <1>1, <4>1 DEF TypeOK, CurCard
      <4> QED BY <1>1, <3>1, <4>2, ProcsAssumption DEF Over, Home, TypeOK, People
    <3>2. CASE ~Over(a)
      BY <1>1, <2>1, <3>2 DEF Decision, Get, CheckOrder, Refused, QueueBegin, DecideBegin, Begin, QueueEnd, DecideEnd, TypeOK
    <3> QED BY <3>1, <3>2
  <2>2. CASE ~Decision(a)
    BY <1>1, <2>2 DEF TurnStart, TurnFail, Diff, Replace, TurnEnd, TypeOK
  <2> QED BY <2>1, <2>2
<1>6. \A b \in Agents : pc'[b] = "attach" => pc[b] = "attach" /\ copy'[b] = copy[b]
  BY <1>1, <1>5, AgentProcs DEF Alone
<1> QED BY <1>2, <1>3, <1>4, <1>6, NumberingSame

\* The answer is stored: its number is greater than those before it.
LEMMA NumberingAnswer == ASSUME OrderInv, NEW a \in Agents, Answer(a) PROVE Numbering'
<1> USE DEF OrderInv, ApartInv, DiffInv, DecisionInv, At, GoTo
<1>1. Alone(a) /\ a \in Procs
  BY AgentStep, AgentProcs DEF Turn
<1>2. /\ made' = made /\ kind' = kind /\ owner' = owner /\ row' = row /\ mine' = mine
      /\ msgs' = msgs + 1 /\ answer'[a] = msgs + 1 /\ \A b \in Agents : b # a => answer'[b] = answer[b]
      /\ pc[a] = "answering" /\ pc'[a] = "attach"
      /\ \A c \in Cards : copy'[a][c] = IF c \in mine[a] THEN row[c] ELSE Blank
  BY <1>1 DEF Answer, Listed, cardVars, TypeOK
<1>3. \A b \in Agents : b # a => pc'[b] = pc[b] /\ copy'[b] = copy[b]
  BY <1>1, AgentProcs DEF Alone
<1>4. \A c \in Cards : c <= made => row[c] # Blank
  BY DEF MadeShown, Blank
<1>5. \A c \in mine[a] : c \in Cards /\ c <= made /\ owner[c] = a /\ row[c].msg = 0
  BY <1>2 DEF MineActions, OwnCards, TypeOK
<1>6. TurnLast'
  <2>1. ASSUME NEW b \in Agents, NEW c \in Cards, NEW d \in Cards, c \in mine[b], c < d, d <= made, owner[d] = b
        PROVE  d \in mine[b] /\ (pc'[b] = "attach" /\ copy'[b][c] # Blank => copy'[b][d] # Blank)
    <3>1. d \in mine[b]
      BY <2>1 DEF TurnLast
    <3>2. CASE b = a
      BY <1>2, <1>4, <2>1, <3>1, <3>2
    <3>3. CASE b # a
      BY <1>3, <2>1, <3>1, <3>3 DEF TurnLast
    <3> QED BY <3>1, <3>2, <3>3
  <2> QED BY <1>2, <2>1 DEF TurnLast
<1>7. Numbered'
  <2>1. ASSUME NEW c \in Cards, c <= made, owner[c] = a
        PROVE  /\ row[c].msg < msgs + 1
               /\ c \notin mine[a] => row[c].msg # 0
               /\ c \in mine[a] => row[c].msg = 0 /\ copy'[a][c] # Blank
    <3>1. row[c].msg <= answer[a] /\ answer[a] <= msgs /\ (c \notin mine[a] => row[c].msg # 0)
      BY <2>1 DEF Numbered, Answered
    <3>2. answer[a] \in Nat /\ msgs \in Nat /\ row[c].msg \in Nat
      BY Numbers DEF TypeOK
    <3> QED BY <1>2, <1>4, <1>5, <2>1, <3>1, <3>2
  <2>2. ASSUME NEW c \in Cards, c <= made, owner[c] # a
        PROVE  /\ owner[c] \in Agents /\ answer'[owner[c]] = answer[owner[c]]
               /\ pc'[owner[c]] = pc[owner[c]] /\ copy'[owner[c]] = copy[owner[c]]
    BY <1>2, <1>3, <2>2 DEF MadeShown
  <2>3. ASSUME NEW c \in Cards, c <= made, owner[c] = a
        PROVE  /\ row'[c].msg <= answer'[a]
               /\ c \notin mine'[a] => row'[c].msg # 0
               /\ IF c \notin mine'[a] THEN row'[c].msg < answer'[a]
                  ELSE row'[c].msg = IF copy'[a][c] = Blank THEN answer'[a] ELSE 0
    <3>1. row[c].msg <= msgs + 1
      BY <2>1, <2>3, Numbers
    <3> QED BY <1>2, <2>1, <2>3, <3>1
  <2> QED BY <1>2, <2>2, <2>3 DEF Numbered
<1>8. InTurn'
  BY <1>2 DEF InTurn, Before, Number
<1> QED BY <1>6, <1>7, <1>8 DEF Numbering

\* Whatever an agent proposes comes after what it proposed before.
LEMMA NumberingMakes ==
  ASSUME OrderInv, NEW a \in Agents, NEW k \in {"action", "patch"}, NEW m \in 0 .. MaxTurns, MakeCard(a, k, m),
         Alone(a), copy' = copy, answer' = answer, msgs' = msgs,
         pc[a] # "attach", pc'[a] # "attach",
         \A b \in Agents : b # a => mine'[b] = mine[b],
         \/ k = "action" /\ m = 0 /\ mine'[a] = mine[a] \cup {made + 1}
         \/ k = "patch" /\ m = answer[a] /\ m > 0 /\ mine'[a] = mine[a] /\ mine[a] = {}
  PROVE  Numbering'
<1> USE DEF OrderInv, ApartInv, DiffInv, DecisionInv
<1>1. PICK new \in Cards :
      /\ new = made + 1 /\ made' = new
      /\ row'[new].msg = m /\ owner'[new] = a /\ kind'[new] = k
      /\ \A c \in Cards : c # new => kind'[c] = kind[c] /\ row'[c] = row[c] /\ owner'[c] = owner[c]
  <2>1. made + 1 \in Cards /\ made' = made + 1 /\ row'[made + 1].msg = m /\ kind'[made + 1] = k
        /\ \A c \in Cards : c # made + 1 => kind'[c] = kind[c] /\ row'[c] = row[c]
    <3>1. /\ made + 1 \in Cards /\ made' = made + 1 /\ kind'[made + 1] = k
          /\ row'[made + 1] = [status |-> "pending", msg |-> m]
          /\ \A c \in Cards : c # made + 1 => kind'[c] = kind[c] /\ row'[c] = row[c]
      <4>1. TypeOK
        OBVIOUS
      <4> HIDE DEF OrderInv
      <4> QED BY <4>1, CardMade
    <3> QED BY <3>1
  <2>2. owner'[made + 1] = a /\ \A c \in Cards : c # made + 1 => owner'[c] = owner[c]
    BY <2>1 DEF MakeCard, TypeOK
  <2> QED BY <2>1, <2>2
<1>2. \A c \in Cards : (c <= made => c # new) /\ (c <= new <=> c <= made \/ c = new) /\ (c < new <=> c <= made)
  BY <1>1, Numbers
<1>3. \A b \in Agents : \A c \in mine[b] : c \in Cards /\ c <= made /\ kind[c] = "action"
  BY DEF MineActions, TypeOK
<1>4. \A b \in Agents : b # a => pc'[b] = pc[b] /\ copy'[b] = copy[b]
  BY AgentProcs DEF Alone
<1>5. TurnLast'
  <2>1. ASSUME NEW b \in Agents, NEW c \in Cards, NEW d \in Cards, c \in mine'[b], c < d, d <= new, owner'[d] = b
        PROVE  d \in mine'[b] /\ (pc'[b] = "attach" /\ copy'[b][c] # Blank => copy'[b][d] # Blank)
    <3>1. CASE d = new
      BY <1>1, <1>2, <2>1, <3>1
    <3>2. CASE d # new
      <4>1. d <= made /\ owner[d] = b /\ c # new /\ c \in mine[b]
        BY <1>1, <1>2, <2>1, <3>2, Numbers
      <4>2. d \in mine[b] /\ (pc[b] = "attach" /\ copy[b][c] # Blank => copy[b][d] # Blank)
        BY <2>1, <4>1 DEF TurnLast
      <4>3. CASE b = a
        BY <1>1, <4>2, <4>3
      <4>4. CASE b # a
        BY <1>4, <4>2, <4>4
      <4> QED BY <4>3, <4>4
    <3> QED BY <3>1, <3>2
  <2> QED BY <1>1, <2>1 DEF TurnLast
<1>6. Numbered'
  <2>1. ASSUME NEW c \in Cards, c <= made
        PROVE  /\ row'[c].msg <= answer'[owner'[c]]
               /\ c \notin mine'[owner'[c]] => row'[c].msg # 0
               /\ pc'[owner'[c]] = "attach" =>
                    IF c \notin mine'[owner'[c]] THEN row'[c].msg < answer'[owner'[c]]
                    ELSE row'[c].msg = IF copy'[owner'[c]][c] = Blank THEN answer'[owner'[c]] ELSE 0
    <3>1. c # new /\ owner'[c] = owner[c] /\ row'[c] = row[c] /\ owner[c] \in Agents
      BY <1>1, <1>2, <2>1 DEF MadeShown
    <3>2. CASE owner[c] = a
      <4>1. c \in mine'[a] <=> c \in mine[a]
        BY <1>1, <3>1
      <4> QED BY <2>1, <3>1, <3>2, <4>1 DEF Numbered
    <3>3. CASE owner[c] # a
      BY <1>4, <2>1, <3>1, <3>3 DEF Numbered
    <3> QED BY <3>2, <3>3
  <2>2. row'[new].msg <= answer'[a] /\ (new \notin mine'[a] => row'[new].msg # 0)
    <3>1. answer[a] \in Nat /\ m \in Nat
      BY DEF TypeOK
    <3> QED BY <1>1, <3>1
  <2> QED BY <1>1, <1>2, <2>1, <2>2 DEF Numbered
<1>7. ASSUME NEW c \in Cards, c <= made, owner[c] = a PROVE Before(c, new)'
  <2>1. c # new /\ row'[c] = row[c] /\ kind'[c] = kind[c] /\ c < new
    BY <1>1, <1>2, <1>7
  <2>2. row[c].msg \in Nat /\ row[c].msg <= MaxTurns /\ MaxTurns \in Nat /\ row[c].msg <= answer[a]
    BY <1>7, Numbers DEF Numbered
  <2>3. CASE k = "action" /\ m = 0
    <3>1. CASE row[c].msg = 0
      <4>1. c \in mine[a]
        BY <1>7, <3>1 DEF Numbered
      <4>2. kind[c] = "action"
        BY <1>3, <4>1
      <4> QED BY <1>1, <2>1, <2>3, <3>1, <4>2 DEF Before, Number
    <3>2. CASE row[c].msg # 0
      <4>1. Number(c)' < Number(new)'
        BY <1>1, <2>1, <2>2, <2>3, <3>2 DEF Number
      <4> QED BY <4>1 DEF Before
    <3> QED BY <3>1, <3>2
  <2>4. CASE k = "patch" /\ m = answer[a] /\ m > 0 /\ mine[a] = {}
    <3>1. row[c].msg # 0
      BY <1>7, <2>4 DEF Numbered
    <3>2. Number(c)' = row[c].msg /\ Number(new)' = answer[a] /\ answer[a] \in Nat
      BY <1>1, <2>1, <2>4, <3>1 DEF Number, TypeOK
    <3>3. kind[c] \in {"action", "patch"}
      BY DEF TypeOK
    <3>4. CASE row[c].msg = answer[a]
      BY <1>1, <2>1, <2>4, <3>2, <3>3, <3>4 DEF Before
    <3>5. CASE row[c].msg # answer[a]
      <4>1. row[c].msg < answer[a]
        BY <2>2, <3>2, <3>5
      <4> QED BY <3>2, <4>1 DEF Before
    <3> QED BY <3>4, <3>5
  <2> QED BY <2>3, <2>4
<1>8. InTurn'
  <2>1. ASSUME NEW c \in Cards, NEW d \in Cards, c < d, d <= new, owner'[c] = owner'[d] PROVE Before(c, d)'
    <3>1. CASE d = new
      BY <1>1, <1>2, <1>7, <2>1, <3>1
    <3>2. CASE d # new
      <4>1. d <= made /\ c # new
        BY <1>1, <1>2, <2>1, <3>2, Numbers
      <4> QED BY <1>1, <2>1, <3>2, <4>1 DEF InTurn, Before, Number
    <3> QED BY <3>1, <3>2
  <2> QED BY <1>1, <2>1 DEF InTurn
<1> QED BY <1>5, <1>6, <1>8 DEF Numbering

LEMMA NumberingNew == ASSUME OrderInv, NEW a \in Agents, Propose(a) \/ AddPatch(a) PROVE Numbering'
<1> USE DEF OrderInv, ApartInv, DiffInv, DecisionInv, At, GoTo
<1>1. Alone(a) /\ a \in Procs
  BY AgentStep, AgentProcs DEF Turn
<1>2. CASE Propose(a)
  <2>1. MakeCard(a, "action", 0) /\ 0 \in 0 .. MaxTurns
    BY <1>2, BoundsAssumption DEF Propose
  <2>2. copy' = copy /\ answer' = answer /\ msgs' = msgs /\ pc[a] # "attach" /\ pc'[a] # "attach"
    BY <1>1, <1>2 DEF Propose, TypeOK
  <2>3. mine'[a] = mine[a] \cup {made + 1} /\ \A b \in Agents : b # a => mine'[b] = mine[b]
    BY <1>2 DEF Propose, TypeOK
  <2> QED BY <1>1, <2>1, <2>2, <2>3, NumberingMakes
<1>3. CASE AddPatch(a)
  <2>1. MakeCard(a, "patch", answer[a]) /\ answer[a] \in 0 .. MaxTurns /\ answer[a] > 0
    BY <1>3 DEF AddPatch, TypeOK, Answered
  <2>2. /\ copy' = copy /\ answer' = answer /\ msgs' = msgs /\ mine' = mine
        /\ pc[a] = "add" /\ pc'[a] # "attach"
    BY <1>1, <1>3 DEF AddPatch, turnVars, TypeOK
  <2>3. mine[a] = {}
    BY <2>2 DEF TurnActions, Deciding
  <2> QED BY <1>1, <2>1, <2>2, <2>3, NumberingMakes
<1> QED BY <1>2, <1>3

\* The actions of the answer get its number one after the other, the one made
\* first before the others.
LEMMA NumberingAttach == ASSUME OrderInv, NEW a \in Agents, Attach(a) PROVE Numbering'
<1> USE DEF OrderInv, ApartInv, DiffInv, DecisionInv, At, GoTo
<1>1. Alone(a) /\ a \in Procs /\ pc[a] = "attach"
  BY AgentStep, AgentProcs DEF Turn, Attach
<1>2. made' = made /\ kind' = kind /\ owner' = owner /\ answer' = answer /\ msgs' = msgs
  BY DEF Attach, cardVars
<1>3. \A b \in Agents : b # a => pc'[b] = pc[b] /\ copy'[b] = copy[b] /\ mine'[b] = mine[b]
  BY <1>1, AgentStep, AgentProcs DEF Alone, Turn
<1>4. answer[a] \in Nat /\ answer[a] > 0 /\ answer[a] <= MaxTurns /\ MaxTurns \in Nat
  BY <1>1, BoundsAssumption DEF Answered, TypeOK
<1>5. \A c \in mine[a] : c \in Cards /\ c <= made /\ owner[c] = a /\ kind[c] = "action"
  BY DEF MineActions, OwnCards, TypeOK
<1>6. CASE row' = row /\ copy' = copy
  <2>1. Read(a) = {} /\ pc'[a] = "diff" /\ mine'[a] = {}
    <3>1. ASSUME NEW c \in Read(a), Forget(a, c) PROVE FALSE
      <4>1. c \in Cards /\ copy[a][c] # Blank /\ copy'[a][c] = Blank
        BY <1>1, <3>1, ForgetCopy DEF Read
      <4> QED BY <1>6, <4>1
    <3> QED BY <1>1, <3>1 DEF Attach, TypeOK
  <2>2. \A c \in Cards : copy[a][c] = Blank
    BY <2>1 DEF Read
  <2>3. TurnLast'
    BY <1>2, <1>3, <2>1 DEF TurnLast
  <2>4. ASSUME NEW c \in Cards, c <= made, owner[c] = a PROVE row[c].msg # 0
    BY <1>1, <1>4, <2>2, <2>4 DEF Numbered
  <2>5. Numbered'
    <3>1. \A c \in Cards : c <= made => owner[c] \in Agents
      BY DEF MadeShown
    <3> QED BY <1>2, <1>3, <1>6, <2>1, <2>4, <3>1 DEF Numbered
  <2>6. InTurn'
    BY <1>2, <1>6 DEF InTurn, Before, Number
  <2> QED BY <2>3, <2>5, <2>6 DEF Numbering
<1>7. CASE row' # row \/ copy' # copy
  <2>1. PICK card \in Cards :
        /\ copy[a][card] # Blank /\ \A d \in Cards : copy[a][d] # Blank => card <= d
        /\ pc'[a] = "attach" /\ mine' = mine
        /\ \A d \in Cards : d # card => row'[d] = row[d]
        /\ row'[card].msg = answer[a]
        /\ \A q \in Procs, d \in Cards : copy'[q][d] = IF q = a /\ d = card THEN Blank ELSE copy[q][d]
    BY <1>1, <1>7, WritesBack
  <2>2. card \in mine[a] /\ owner[card] = a /\ kind[card] = "action" /\ card <= made
    BY <1>1, <1>5, <2>1 DEF OwnCards
  <2>3. TurnLast'
    <3>1. ASSUME NEW b \in Agents, NEW c \in Cards, NEW d \in Cards, c \in mine[b], c < d, d <= made, owner[d] = b
          PROVE  d \in mine[b] /\ (pc'[b] = "attach" /\ copy'[b][c] # Blank => copy'[b][d] # Blank)
      <4>1. d \in mine[b] /\ (pc[b] = "attach" /\ copy[b][c] # Blank => copy[b][d] # Blank)
        BY <3>1 DEF TurnLast
      <4>2. CASE b = a
        <5>1. ASSUME copy'[a][c] # Blank PROVE copy[a][c] # Blank /\ d # card
          <6>1. copy[a][c] # Blank
            BY <1>1, <2>1, <5>1
          <6>2. card <= c
            BY <2>1, <6>1
          <6> QED BY <3>1, <6>1, <6>2, Numbers
        <5> QED BY <1>1, <2>1, <4>1, <4>2, <5>1
      <4>3. CASE b # a
        BY <1>3, <4>1, <4>3
      <4> QED BY <4>2, <4>3
    <3> QED BY <1>2, <2>1, <3>1 DEF TurnLast
  <2>4. Numbered'
    <3>1. ASSUME NEW c \in Cards, c <= made
          PROVE  /\ row'[c].msg <= answer[owner[c]]
                 /\ c \notin mine[owner[c]] => row'[c].msg # 0
                 /\ pc'[owner[c]] = "attach" =>
                      IF c \notin mine[owner[c]] THEN row'[c].msg < answer[owner[c]]
                      ELSE row'[c].msg = IF copy'[owner[c]][c] = Blank THEN answer[owner[c]] ELSE 0
      <4>1. owner[c] \in Agents /\ owner[c] \in Procs
        BY <3>1, AgentProcs DEF MadeShown
      <4>2. CASE c = card
        BY <1>1, <1>4, <2>1, <2>2, <4>2
      <4>3. CASE c # card
        <5>1. row'[c] = row[c] /\ copy'[owner[c]][c] = copy[owner[c]][c] /\ pc'[owner[c]] = pc[owner[c]]
          BY <1>1, <1>3, <2>1, <4>1, <4>3
        <5> QED BY <3>1, <5>1 DEF Numbered
      <4> QED BY <4>2, <4>3
    <3> QED BY <1>2, <2>1, <3>1 DEF Numbered
  <2>5. InTurn'
    <3>1. ASSUME NEW c \in Cards, NEW d \in Cards, c < d, d <= made, owner[c] = owner[d] PROVE Before(c, d)'
      <4>0. c <= made
        BY <3>1, Numbers
      <4>1. CASE c = card
        <5>1. d \in mine[a] /\ copy[a][d] # Blank /\ d # card
          BY <1>1, <2>1, <2>2, <3>1, <4>1, Numbers DEF TurnLast
        <5>2. row'[d].msg = 0 /\ row'[c].msg = answer[a]
          BY <1>1, <2>1, <4>1, <5>1 DEF OwnCards
        <5>3. Number(c)' < Number(d)'
          BY <1>4, <5>2 DEF Number
        <5> QED BY <5>3 DEF Before
      <4>2. CASE d = card
        <5>1. c # card /\ copy[a][c] = Blank /\ row'[c] = row[c] /\ owner[c] = a
          BY <2>1, <2>2, <3>1, <4>2, Numbers
        <5>2. CASE c \in mine[a]
          <6>1. row'[c].msg = answer[a] /\ kind[c] = "action"
            BY <1>1, <1>5, <4>0, <5>1, <5>2 DEF Numbered
          <6> QED BY <1>2, <2>1, <2>2, <3>1, <4>2, <6>1 DEF Before, Number
        <5>3. CASE c \notin mine[a]
          <6>1. row[c].msg < answer[a] /\ row[c].msg # 0
            BY <1>1, <4>0, <5>1, <5>3 DEF Numbered
          <6>2. Number(c)' < Number(d)'
            BY <1>4, <2>1, <4>2, <5>1, <6>1 DEF Number
          <6> QED BY <6>2 DEF Before
        <5> QED BY <5>2, <5>3
      <4>3. CASE c # card /\ d # card
        BY <1>2, <2>1, <3>1, <4>3 DEF InTurn, Before, Number
      <4> QED BY <4>1, <4>2, <4>3
    <3> QED BY <1>2, <3>1 DEF InTurn
  <2> QED BY <2>3, <2>4, <2>5 DEF Numbering
<1> QED BY <1>6, <1>7

LEMMA StepNumbering ==
  ASSUME Overlap = {}, MayStop = FALSE, OrderInv, [Next]_vars
  PROVE  Numbering'
<1>1. CASE UNCHANGED vars
  BY <1>1, NumberingSame DEF vars, cardVars, turnVars
<1>2. ASSUME NEW a \in Agents, Turn(a) PROVE Numbering'
  BY <1>2, NumberingStill, NumberingNew, NumberingAnswer, NumberingAttach DEF Turn
<1>3. ASSUME NEW p \in Procs, Decision(p) PROVE Numbering'
  BY <1>3, NumberingStill, NumberingOther
<1> QED BY <1>1, <1>2, <1>3, NumberingOther DEF Next

-----------------------------------------------------------------------------
\* Where an agent is in its turn.
Place(a) ==
    /\ mine[a] # {} =>
         \/ pc[a] \in {"answering", "attach"}
         \/ pc[a] \in Deciding /\ kind[cur[a]] = "action"
    /\ answer[a] <= msgs
    /\ \/ pc[a] \in {"attach", "diff", "replace", "add"}
       \/ pc[a] \in Deciding /\ kind[cur[a]] = "patch"
       => answer[a] > 0
    /\ pc[a] # "get"
    /\ pc[a] \in Deciding /\ kind[cur[a]] = "action" =>
         a \in AutoRun /\ row[cur[a]].status = "pending" /\ pc[a] \in {"decide", "deciding"}

LEMMA Places == (\A a \in Agents : Place(a)) <=> TurnActions /\ Answered /\ SelfDecide
  BY DEF Place, TurnActions, Answered, SelfDecide

\* An agent's own decision leaves it in its turn.
LEMMA PlaceDecision == ASSUME OrderInv, NEW a \in Agents, Decision(a) PROVE Place(a)'
<1> USE DEF OrderInv, ApartInv, DiffInv, DecisionInv, At, GoTo
<1>1. Place(a) /\ a \in Procs
  BY Places, AgentProcs
<1>2. pc[a] \in Deciding /\ mine' = mine /\ answer' = answer /\ msgs' = msgs /\ kind' = kind
  BY DEF Decision, Get, CheckOrder, Refused, QueueBegin, DecideBegin, Begin, QueueEnd, DecideEnd, cardVars, turnVars, Deciding
<1>3. kind[cur[a]] \in {"action", "patch"}
  BY <1>1, <1>2 DEF TypeOK, CurCard
<1>4. CASE Over(a)
  <2>1. pc'[a] = Home(a)
    BY <1>1, <1>4 DEF Over, TypeOK
  <2>2. a \notin People /\ a # Drainer
    BY ProcsAssumption
  <2>3. CASE kind[cur[a]] = "action"
    <3>1. pc'[a] = "answering"
      BY <2>1, <2>2, <2>3 DEF Home
    <3> QED BY <1>1, <1>2, <3>1 DEF Place, Deciding
  <2>4. CASE kind[cur[a]] = "patch"
    <3>1. pc'[a] \in {"idle", "diff"}
      BY <2>1, <2>2, <2>4 DEF Home
    <3>2. mine[a] = {} /\ answer[a] > 0
      BY <1>1, <1>2, <2>4 DEF Place, Deciding
    <3> QED BY <1>1, <1>2, <3>1, <3>2 DEF Place, Deciding
  <2> QED BY <1>3, <2>3, <2>4
<1>5. CASE ~Over(a)
  <2>1. /\ cur' = cur /\ row' = row /\ pc'[a] \in Deciding /\ pc'[a] # "get"
        /\ pc[a] = "decide" => pc'[a] = "deciding"
        /\ pc[a] # "deciding"
    BY <1>1, <1>5 DEF Decision, Get, CheckOrder, Refused, QueueBegin, DecideBegin, Begin, QueueEnd, DecideEnd, Deciding, TypeOK
  <2>2. CASE kind[cur[a]] = "action"
    <3>1. /\ pc'[a] = "deciding" /\ kind'[cur'[a]] = "action" /\ row'[cur'[a]].status = "pending"
          /\ a \in AutoRun
      BY <1>1, <1>2, <2>1, <2>2 DEF Place
    <3> QED BY <1>1, <1>2, <2>1, <3>1 DEF Place
  <2>3. CASE kind[cur[a]] = "patch"
    <3>1. mine[a] = {} /\ answer[a] > 0 /\ kind'[cur'[a]] = "patch"
      BY <1>1, <1>2, <2>1, <2>3 DEF Place, Deciding
    <3> QED BY <1>1, <1>2, <2>1, <3>1 DEF Place, Deciding
  <2> QED BY <1>3, <2>2, <2>3
<1> QED BY <1>4, <1>5

LEMMA PlaceTurn == ASSUME OrderInv, NEW a \in Agents, Turn(a) PROVE Place(a)'
<1> USE DEF OrderInv, ApartInv, DiffInv, DecisionInv, At, GoTo
<1>1. Place(a) /\ a \in Procs
  BY Places, AgentProcs
<1>2. CASE TurnStart(a) \/ TurnFail(a)
  BY <1>1, <1>2 DEF TurnStart, TurnFail, Place, Deciding, TypeOK
<1>3. CASE Propose(a)
  <2>1. MakeCard(a, "action", 0) /\ 0 \in 0 .. MaxTurns
    BY <1>3, BoundsAssumption DEF Propose
  <2>2. kind'[made + 1] = "action" /\ row'[made + 1].status = "pending"
    <3>1. kind'[made + 1] = "action" /\ row'[made + 1] = [status |-> "pending", msg |-> 0]
      BY <2>1, CardMade
    <3> QED BY <3>1
  <2>3. answer' = answer /\ msgs' = msgs /\ pc[a] = "answering"
    BY <1>3 DEF Propose
  <2>4. CASE pc' = pc
    BY <1>1, <2>3, <2>4 DEF Place, Deciding
  <2>5. CASE pc' # pc
    <3>1. a \in AutoRun /\ pc'[a] = "decide" /\ cur'[a] = made + 1
      <4>1. cur' = [cur EXCEPT ![a] = made + 1] /\ pc' = [pc EXCEPT ![a] = "decide"] /\ a \in AutoRun
        BY <1>3, <2>5 DEF Propose
      <4> QED BY <1>1, <4>1 DEF TypeOK
    <3>2. kind'[cur'[a]] = "action" /\ row'[cur'[a]].status = "pending" /\ answer'[a] <= msgs'
      BY <1>1, <2>2, <2>3, <3>1 DEF Place
    <3> QED BY <3>1, <3>2 DEF Place, Deciding
  <2> QED BY <2>4, <2>5
<1>4. CASE Answer(a)
  <2>1. pc'[a] = "attach" /\ answer'[a] = msgs + 1 /\ msgs' = msgs + 1 /\ msgs + 1 > 0 /\ msgs + 1 <= msgs + 1
    BY <1>1, <1>4, Numbers DEF Answer, TypeOK
  <2> QED BY <2>1 DEF Place, Deciding
<1>5. CASE Attach(a)
  <2>1. answer' = answer /\ msgs' = msgs /\ pc[a] = "attach"
    BY <1>5 DEF Attach
  <2>2. CASE pc' = pc
    BY <1>1, <2>1, <2>2 DEF Place, Deciding
  <2>3. CASE pc' # pc
    <3>1. pc' = [pc EXCEPT ![a] = "diff"] /\ mine' = [mine EXCEPT ![a] = {}]
      BY <1>5, <2>3 DEF Attach
    <3>2. pc'[a] = "diff" /\ mine'[a] = {}
      BY <1>1, <3>1 DEF TypeOK
    <3> QED BY <1>1, <2>1, <3>2 DEF Place, Deciding
  <2> QED BY <2>2, <2>3
<1>6. CASE Diff(a) \/ Replace(a) \/ TurnEnd(a)
  <2>1. answer' = answer /\ msgs' = msgs /\ mine' = mine /\ pc[a] \in {"diff", "replace"}
    BY <1>6 DEF Diff, Replace, TurnEnd, turnVars
  <2>2. pc'[a] \in {"replace", "add", "idle"}
    BY <1>1, <1>6 DEF Diff, Replace, TurnEnd, TypeOK
  <2>3. mine[a] = {}
    BY <1>1, <2>1 DEF Place, Deciding
  <2> QED BY <1>1, <2>1, <2>2, <2>3 DEF Place, Deciding
<1>7. CASE AddPatch(a)
  <2>1. MakeCard(a, "patch", answer[a]) /\ answer[a] \in 0 .. MaxTurns
    BY <1>7 DEF AddPatch, TypeOK
  <2>2. kind'[made + 1] = "patch"
    BY <2>1, CardMade
  <2>3. answer' = answer /\ msgs' = msgs /\ mine' = mine /\ pc[a] = "add"
    BY <1>7 DEF AddPatch, turnVars
  <2>4. mine[a] = {} /\ answer[a] > 0 /\ answer[a] <= msgs
    BY <1>1, <2>3 DEF Place, Deciding
  <2>5. \/ pc'[a] \in {"idle", "diff"}
        \/ pc'[a] = "check" /\ cur'[a] = made + 1
    BY <1>1, <1>7 DEF AddPatch, TypeOK
  <2> QED BY <2>2, <2>3, <2>4, <2>5 DEF Place, Deciding
<1> QED BY <1>2, <1>3, <1>4, <1>5, <1>6, <1>7 DEF Turn

LEMMA StepPlaces ==
  ASSUME Overlap = {}, MayStop = FALSE, OrderInv, [Next]_vars
  PROVE  TurnActions' /\ Answered' /\ SelfDecide'
<1> USE DEF OrderInv, ApartInv, DiffInv, DecisionInv
<1>0. \A a \in Agents : Place(a)
  BY Places
<1>1. ASSUME NEW a \in Agents, Decision(a) \/ Turn(a), NEW b \in Agents PROVE Place(b)'
  <2>1. CASE b = a
    BY <1>1, <2>1, PlaceDecision, PlaceTurn
  <2>2. CASE b # a
    <3>1. pc'[b] = pc[b] /\ cur'[b] = cur[b] /\ mine'[b] = mine[b] /\ answer'[b] = answer[b]
      BY <1>1, <2>2, AgentStep, AgentProcs DEF Alone
    <3>2. pc[b] \in Deciding => cur[b] \in Cards /\ cur[b] <= made /\ owner[cur[b]] = b
      BY AgentProcs DEF CurCard, CurMade, OwnCards
    <3>3. pc[b] \in Deciding => row'[cur[b]] = row[cur[b]]
      BY <1>1, <2>2, <3>2, AgentStep
    <3>4. pc[b] \in Deciding => kind'[cur[b]] = kind[cur[b]]
      <4>1. Next
        BY <1>1, AgentProcs DEF Next
      <4> QED BY <3>2, <4>1, RowSteps
    <3>5. msgs' \in {msgs, msgs + 1}
      BY <1>1 DEF Decision, Get, CheckOrder, Refused, QueueBegin, DecideBegin, Begin, QueueEnd, DecideEnd, Turn,
                  TurnStart, Propose, TurnFail, Answer, Attach, Diff, Replace, AddPatch, TurnEnd, turnVars
    <3>6. answer[b] <= msgs' /\ Place(b)
      <4>1. answer[b] \in Nat /\ answer[b] <= msgs
        BY DEF TypeOK, Answered
      <4> QED BY <1>0, <3>5, <4>1, Numbers
    <3> QED BY <3>1, <3>3, <3>4, <3>6 DEF Place
  <2> QED BY <2>1, <2>2
<1>2. ASSUME \/ \E c \in Cards : Clicks(c)
             \/ \E p \in Procs \ Agents : Decision(p)
             \/ DrainStart \/ DrainList \/ DrainAgain
             \/ Crash,
             NEW b \in Agents
      PROVE  Place(b)'
  <2>1. pc'[b] = "idle" /\ mine'[b] = {} /\ answer' = answer /\ msgs' = msgs
    BY <1>2, OtherStep
  <2> QED BY <2>1 DEF Place, Deciding, Answered
<1>3. ASSUME UNCHANGED vars, NEW b \in Agents PROVE Place(b)'
  BY <1>0, <1>3 DEF vars, cardVars, turnVars, Place
<1>4. \A b \in Agents : Place(b)'
  BY <1>1, <1>2, <1>3 DEF Next
<1> QED BY <1>4, Places DEF Place, TurnActions, Answered, SelfDecide

\* A card that is about to be queued waits until it is.
LEMMA StepQueueing ==
  ASSUME Overlap = {}, OrderInv, [Next]_vars
  PROVE  QueueingPending'
<1> USE DEF OrderInv, ApartInv, DiffInv, DecisionInv
<1>1. Fresh' /\ BusyCopy'
  BY StepApartInv
<1>2. ASSUME NEW q \in Procs, pc[q] = "queueing", pc'[q] = "queueing", cur'[q] = cur[q], copy'[q] = copy[q]
      PROVE  row'[cur'[q]].status = "pending"
  <2>1. Busy(q) /\ Busy(q)' /\ cur[q] \in Cards
    BY <1>2 DEF Busy, CurCard, Deciding
  <2>2. copy[q][cur[q]] = row[cur[q]] /\ copy'[q][cur[q]] = row'[cur[q]]
    BY <1>1, <1>2, <2>1 DEF BusyCopy, Fresh
  <2> QED BY <1>2, <2>2 DEF QueueingPending
<1>3. ASSUME NEW p \in Procs, QueueBegin(p) PROVE pc'[p] = "queueing" => row'[cur'[p]].status = "pending"
  BY <1>3 DEF QueueBegin, Begin, MayBegin
<1>4. ASSUME NEW p \in Procs, Alone(p), ~QueueBegin(p), pc'[p] = "queueing" => pc[p] = "queueing" /\ cur'[p] = cur[p] /\ copy'[p] = copy[p]
      PROVE  QueueingPending'
  BY <1>2, <1>4 DEF QueueingPending, Alone
<1>5. ASSUME NEW p \in Procs, QueueBegin(p) PROVE QueueingPending'
  <2>1. Alone(p)
    BY <1>5, DecisionBegins DEF Begins
  <2> QED BY <1>2, <1>3, <1>5, <2>1 DEF QueueingPending, Alone
<1>6. ASSUME NEW p \in Procs, Moves(p) \/ Ends(p) \/ DecideBegin(p) PROVE QueueingPending'
  <2>1. Alone(p) /\ pc'[p] # "queueing"
    BY <1>6, DecisionBegins DEF Moves, Ends, Begins, Busy, DecideBegin, Begin, GoTo, TypeOK
  <2> QED BY <1>2, <2>1 DEF QueueingPending, Alone
<1>7. CASE Crash
  BY <1>7 DEF Crash, QueueingPending
<1>8. CASE UNCHANGED vars
  BY <1>8 DEF vars, QueueingPending
<1>9. ASSUME NEW p \in Procs, Decision(p) PROVE QueueingPending'
  BY <1>5, <1>6, <1>9, DecisionMoves, DecisionEnds DEF Decision
<1> QED BY <1>6, <1>7, <1>8, <1>9, ClickMoves, DrainMoves, TurnMoves DEF Next, Clicks

-----------------------------------------------------------------------------
\* The head of the order has nothing of its agent before it.
LEMMA HeadClear ==
  ASSUME OrderInv, NEW c \in Cards, c <= made, Head(c)
  PROVE  Clear(c)
<1> USE DEF OrderInv, ApartInv, DiffInv, DecisionInv
<1> SUFFICES ASSUME NEW d \in Cards, d < c, owner[d] = owner[c], Open(d)
             PROVE  FALSE
  BY DEF Clear
<1>1. Before(c, d)
  BY Numbers DEF Head, Waiting
<1>2. Before(d, c)
  BY DEF InTurn
<1>3. Number(c) \in Nat /\ Number(d) \in Nat
  BY Numbers DEF Number
<1> QED BY <1>1, <1>2, <1>3, Numbers DEF Before

LEMMA ClearStays ==
  ASSUME ApartInv, [Next]_vars, NEW c \in Cards, c <= made, Clear(c)
  PROVE  Clear(c)'
<1> SUFFICES ASSUME NEW d \in Cards, d < c, owner'[d] = owner'[c]
             PROVE  ~Open(d)'
  BY DEF Clear
<1>1. d <= made
  BY Numbers DEF ApartInv, DiffInv, DecisionInv
<1> QED BY <1>1, RowSteps DEF Clear

\* A process that keeps its card, and was near it before, has it in line still.
LEMMA InLineStays ==
  ASSUME ApartInv, InLine, [Next]_vars, NEW p \in Procs, pc[p] \in Deciding, cur'[p] = cur[p],
         Open(cur[p])' => Nears(p)
  PROVE  (Nears(p) => Clear(cur[p]))'
<1>1. cur[p] \in Cards /\ cur[p] <= made
  BY DEF ApartInv, DiffInv, DecisionInv, CurCard, CurMade
<1>2. Clear(cur[p]) => Clear(cur[p])'
  BY <1>1, ClearStays
<1>3. Nears(p)' => Open(cur[p])'
  BY DEF Nears, Open
<1> QED BY <1>2, <1>3 DEF InLine

\* Nothing is carried out before its turn: CheckOrder lets the head through,
\* DrainList picks it, and what is at the head stays there.
LEMMA StepInLine ==
  ASSUME Overlap = {}, MayStop = FALSE, Bots = {}, OrderInv, [Next]_vars
  PROVE  InLine'
<1> USE DEF OrderInv, ApartInv, DiffInv, DecisionInv, At, GoTo
<1>1. ASSUME NEW p \in Procs, Alone(p), (Nears(p) => Clear(cur[p]))' PROVE InLine'
  <2>1. ASSUME NEW q \in Procs, q # p PROVE (Nears(q) => Clear(cur[q]))'
    <3>1. pc'[q] = pc[q] /\ cur'[q] = cur[q] /\ approve'[q] = approve[q]
      BY <1>1, <2>1 DEF Alone
    <3>2. CASE pc[q] \in Deciding
      <4>1. cur[q] \in Cards /\ cur[q] <= made
        BY <3>2 DEF CurCard, CurMade
      <4>2. kind'[cur[q]] = kind[cur[q]] /\ (Open(cur[q])' => Open(cur[q]))
        BY <3>1, <4>1, RowSteps
      <4>3. Nears(q)' => Nears(q)
        BY <3>1, <4>2 DEF Nears
      <4>4. Clear(cur[q]) => Clear(cur[q])'
        BY <3>1, <4>1, ClearStays
      <4> QED BY <4>3, <4>4 DEF InLine
    <3>3. CASE pc[q] \notin Deciding
      BY <3>1, <3>3 DEF Nears, Deciding
    <3> QED BY <3>2, <3>3
  <2> QED BY <1>1, <2>1 DEF InLine
<1>2. ASSUME NEW p \in Procs, pc'[p] \notin Deciding PROVE ~Nears(p)'
  BY <1>2 DEF Nears, Deciding
<1>3. ASSUME NEW c \in Cards, NEW p \in People, NEW yes \in BOOLEAN, Click(p, c, yes) PROVE InLine'
  <2>1. p \in Procs /\ Alone(p) /\ p # Drainer
    BY <1>3, ClickMoves, ProcsAssumption DEF Moves
  <2>2. ~Nears(p)'
    BY <1>3, <2>1 DEF Click, Nears, TypeOK
  <2> QED BY <1>1, <2>1, <2>2
<1>4. ASSUME NEW p \in Procs, Over(p), pc[p] \in Deciding PROVE InLine'
  <2>1. Alone(p) /\ ~Nears(p)'
    BY <1>2, <1>4, OverAlone
  <2> QED BY <1>1, <2>1
<1>5. ASSUME NEW p \in Procs, Get(p), ~Over(p) PROVE InLine'
  <2>1. Alone(p) /\ pc[p] \in Deciding /\ cur' = cur /\ row' = row /\ approve' = approve /\ kind' = kind
    BY <1>5, DecisionMoves DEF Moves, Get, Deciding, cardVars
  <2>2. ASSUME Open(cur[p])', Nears(p)' PROVE Nears(p)
    <3>1. Open(cur[p])
      BY <2>1, <2>2 DEF Open
    <3>2. CASE p = Drainer
      BY <1>5, <3>1, <3>2, ProcsAssumption DEF Get, Nears
    <3>3. CASE p \in Dashes
      BY <1>5, <2>2, <3>1, <3>3, ProcsAssumption DEF Get, Nears, Open, TypeOK, People
    <3>4. CASE p \in Agents
      BY <1>5, <3>4 DEF Get, SelfDecide
    <3> QED BY <3>2, <3>3, <3>4 DEF Procs, People
  <2>3. Nears(p)' => Open(cur[p])'
    BY <2>1 DEF Nears, Open
  <2>4. cur[p] \in Cards /\ cur[p] <= made
    BY <2>1 DEF CurCard, CurMade
  <2>5. Clear(cur[p]) => Clear(cur[p])'
    BY <2>1, <2>4, ClearStays
  <2>6. (Nears(p) => Clear(cur[p]))'
    BY <2>2, <2>3, <2>5 DEF InLine
  <2> QED BY <1>1, <2>1, <2>6
<1>6. ASSUME NEW p \in Procs, CheckOrder(p) PROVE InLine'
  <2>1. Alone(p) /\ pc[p] \in Deciding /\ cur' = cur /\ row' = row /\ approve' = approve /\ kind' = kind /\ owner' = owner
    BY <1>6, DecisionMoves DEF Moves, CheckOrder, Deciding, cardVars
  <2>2. cur[p] \in Cards /\ cur[p] <= made
    BY <2>1 DEF CurCard, CurMade
  <2>3. CASE HeldBack(cur[p])
    <3>1. pc'[p] = "queue"
      BY <1>6, <2>3 DEF CheckOrder, TypeOK
    <3>2. ~Nears(p)'
      BY <3>1 DEF Nears
    <3> QED BY <1>1, <2>1, <3>2
  <2>4. CASE ~HeldBack(cur[p])
    <3>1. Open(cur[p]) => Clear(cur[p])
      BY <2>2, <2>4, HeadClear DEF HeldBack, Waiting
    <3>2. (Nears(p) => Clear(cur[p]))'
      BY <2>1, <3>1 DEF Nears, Open, Clear
    <3> QED BY <1>1, <2>1, <3>2
  <2> QED BY <2>3, <2>4
<1>7. ASSUME NEW p \in Procs, QueueBegin(p) PROVE InLine'
  <2>1. Alone(p)
    BY <1>7, DecisionBegins DEF Begins
  <2>2. ~Nears(p)'
    BY <1>7 DEF QueueBegin, Begin, Nears, TypeOK
  <2> QED BY <1>1, <2>1, <2>2
<1>8. ASSUME NEW p \in Procs, DecideBegin(p) PROVE InLine'
  <2>1. Alone(p)
    BY <1>8, DecisionBegins DEF Begins
  <2>2. pc[p] = "decide" /\ cur' = cur /\ row' = row /\ approve' = approve /\ kind' = kind /\ pc'[p] = "deciding"
    BY <1>8 DEF DecideBegin, Begin, cardVars, TypeOK
  <2>3. Nears(p)' => Nears(p)
    BY <2>2 DEF Nears, Open
  <2>4. (Nears(p) => Clear(cur[p]))'
    BY <2>2, <2>3, InLineStays DEF Deciding, Nears, Open
  <2> QED BY <1>1, <2>1, <2>4
<1>9. ASSUME DrainStart \/ DrainList \/ DrainAgain PROVE InLine'
  <2>1. Drainer \in Procs /\ Alone(Drainer) /\ row' = row /\ owner' = owner
    BY <1>9, DrainMoves DEF Moves, DrainStart, DrainList, DrainAgain, cardVars
  <2>2. CASE pc'[Drainer] \in Deciding
    <3>1. PICK c \in Cards : Head(c) /\ cur'[Drainer] = c
      BY <1>9, <2>1, <2>2 DEF DrainStart, DrainList, DrainAgain, Deciding, TypeOK
    <3>2. c <= made
      BY <3>1, Numbers DEF Head, Waiting, Open, Unmade, Blank
    <3>3. Clear(c)
      BY <3>1, <3>2, HeadClear
    <3>4. Clear(c)'
      BY <2>1, <3>3 DEF Clear, Open
    <3>5. (Clear(cur[Drainer]))'
      BY <3>1, <3>4 DEF Clear
    <3> QED BY <1>1, <2>1, <3>5
  <2>3. CASE pc'[Drainer] \notin Deciding
    BY <1>1, <1>2, <2>1, <2>3
  <2> QED BY <2>2, <2>3
<1>10. ASSUME NEW a \in Agents, Turn(a) PROVE InLine'
  <2>1. a \in Procs /\ Alone(a) /\ a # Drainer
    BY <1>10, AgentStep, AgentProcs, ProcsAssumption
  <2>2. CASE Propose(a)
    <3>1. MakeCard(a, "action", 0) /\ 0 \in 0 .. MaxTurns
      BY <2>2, BoundsAssumption DEF Propose
    <3>2. kind'[made + 1] = "action"
      BY <3>1, CardMade
    <3>3. pc'[a] = "answering" \/ cur'[a] = made + 1
      BY <2>1, <2>2 DEF Propose, TypeOK
    <3>4. ~Nears(a)'
      BY <2>1, <3>2, <3>3 DEF Nears
    <3> QED BY <1>1, <2>1, <3>4
  <2>3. CASE ~Propose(a)
    <3>1. pc'[a] \notin {"decide", "deciding"}
      BY <1>10, <2>1, <2>3 DEF Turn, TurnStart, TurnFail, Answer, Attach, Diff, Replace, AddPatch, TurnEnd, TypeOK
    <3>2. ~Nears(a)'
      BY <2>1, <3>1 DEF Nears
    <3> QED BY <1>1, <2>1, <3>2
  <2> QED BY <2>2, <2>3
<1>11. CASE Crash
  BY <1>11 DEF Crash, InLine, Nears
<1>12. CASE UNCHANGED vars
  BY <1>12 DEF vars, cardVars, InLine, Nears, Clear, Open
<1>13. ASSUME NEW p \in Procs, Decision(p) PROVE InLine'
  <2>1. CASE Over(p)
    BY <1>4, <1>13, <2>1 DEF Decision, Get, CheckOrder, Refused, QueueBegin, DecideBegin, Begin, QueueEnd, DecideEnd, Deciding
  <2>2. CASE ~Over(p)
    <3>1. ~(Refused(p) \/ QueueEnd(p) \/ DecideEnd(p))
      BY <2>2 DEF Refused, QueueEnd, DecideEnd
    <3> QED BY <1>5, <1>6, <1>7, <1>8, <1>13, <2>2, <3>1 DEF Decision
  <2> QED BY <2>1, <2>2
<1> QED BY <1>3, <1>9, <1>10, <1>11, <1>12, <1>13 DEF Next, Clicks

LEMMA StepOrder ==
  ASSUME Overlap = {}, MayStop = FALSE, Bots = {}, OrderInv, [Next]_vars
  PROVE  OrderInv'
<1>1. ApartInv' /\ MadeShown'
  BY StepApartInv, StepShown DEF OrderInv
<1>2. TurnLast' /\ Numbered' /\ InTurn'
  BY StepNumbering DEF Numbering
<1>3. TurnActions' /\ Answered' /\ SelfDecide'
  BY StepPlaces
<1>4. QueueingPending' /\ InLine'
  BY StepQueueing, StepInLine
<1> QED BY <1>1, <1>2, <1>3, <1>4 DEF OrderInv

\* "A chat's proposals run in the order its agents made them" (order.go):
\* whoever has a card carried out on the dashboard, through the queue or by
\* autoApply, nothing that its agent made before it is open then.
THEOREM InOrderHolds ==
  ASSUME Overlap = {}, MayStop = FALSE, Bots = {}
  PROVE  Spec => InOrder
<1>1. OrderInv /\ [Next]_vars => OrderInv'
  BY StepOrder
<1>2. ASSUME OrderInv, [Next]_vars, NEW p \in Procs, At(p, "decide"), pc'[p] = "deciding", approve[p],
             ~(p \in Agents /\ kind[cur[p]] = "action"),
             NEW d \in Cards, d < cur[p], owner[d] = owner[cur[p]]
      PROVE  ~Open(d)
  <2> USE DEF OrderInv, ApartInv, DiffInv, DecisionInv
  <2>1. pc[p] = "decide" /\ cur[p] \in Cards
    BY <1>2 DEF At, CurCard, Deciding
  <2>2. Open(cur[p])
    <3>1. Busy(p)' /\ ~Busy(p)
      BY <1>2, <2>1 DEF Busy
    <3>2. ~Crash /\ ~UNCHANGED vars
      BY <1>2, <2>1 DEF Crash, vars
    <3>3. PICK q \in Procs : Moves(q) \/ Begins(q) \/ Ends(q)
      BY <1>2, <3>2, StepKinds
    <3>4. pc'[p] # pc[p]
      BY <1>2, <2>1
    <3>5. q = p
      BY <3>3, <3>4 DEF Moves, Begins, Ends, Alone
    <3>6. cur'[p] = cur[p] /\ BusyCopy'
      BY <1>2, <3>1, <3>3, <3>5, <1>1 DEF Moves, Begins, Ends
    <3>7. Open(cur[p])'
      BY <3>1, <3>6 DEF BusyCopy
    <3>8. cur[p] <= made
      BY <1>2, <2>1 DEF CurMade, Deciding
    <3> QED BY <1>2, <2>1, <3>6, <3>7, <3>8, RowSteps
  <2>3. Nears(p)
    BY <1>2, <2>1, <2>2 DEF Nears
  <2> QED BY <1>2, <2>3 DEF InLine, Clear
<1>3. OrderInv /\ [Next]_vars =>
        [\A p \in Procs : At(p, "decide") /\ pc'[p] = "deciding" /\ approve[p]
                            /\ ~(p \in Agents /\ kind[cur[p]] = "action")
              => \A d \in Cards : d < cur[p] /\ owner[d] = owner[cur[p]] => ~Open(d)]_vars
  BY <1>2
<1> QED BY InitOrder, <1>1, <1>3, PTL DEF Spec, InOrder

-----------------------------------------------------------------------------
\* The state of ApprovalQueue, of a card and of all.
StateOf(c) == IF Carrying(c) THEN "running" ELSE row[c].status
States == [c \in Cards |-> IF Carrying(c) THEN "running" ELSE row[c].status]

LEMMA StatesMove ==
  ASSUME NEW c \in Cards, NEW to, StateOf(c)' = to,
         \A d \in Cards : d # c => StateOf(d)' = StateOf(d)
  PROVE  States' = [States EXCEPT ![c] = to]
<1>1. States' = [d \in Cards |-> StateOf(d)'] /\ States = [d \in Cards |-> StateOf(d)]
  BY DEF States, StateOf
<1> HIDE DEF StateOf, States
<1> QED BY <1>1

LEMMA StatesSame ==
  ASSUME \A d \in Cards : StateOf(d)' = StateOf(d)
  PROVE  States' = States
<1>1. States' = [d \in Cards |-> StateOf(d)'] /\ States = [d \in Cards |-> StateOf(d)]
  BY DEF States, StateOf
<1> QED BY <1>1

\* A card that is carried out is open, and the process that does it is known.
LEMMA CarryOpen ==
  ASSUME ApartInv, NEW c \in Cards, lock[c] # NoOne
  PROVE  lock[c] \in Procs /\ Busy(lock[c]) /\ cur[lock[c]] = c /\ Open(c)
  BY DEF ApartInv, DiffInv, DecisionInv, TypeOK, OneDecision, BusyCopy

\* What is neither open nor carried out nor unmade is decided.
LEMMA ClearTurn ==
  ASSUME OrderInv, NEW c \in Cards, c <= made, Clear(c), NEW d \in Cards, d < c, owner[d] = owner[c]
  PROVE  StateOf(d) \in {"done", "rejected"}
<1> USE DEF OrderInv, ApartInv, DiffInv, DecisionInv
<1>1. ~Open(d) /\ d <= made
  BY Numbers DEF Clear
<1>2. row[d].status \in Status /\ row[d].status # "none"
  BY <1>1 DEF MadeShown, TypeOK, Row
<1>3. ~Carrying(d)
  BY <1>1, CarryOpen DEF Carrying
<1> QED BY <1>1, <1>2, <1>3 DEF StateOf, Open, Status

\* A step of p that holds nothing, and changes the status of no card, is none
\* of the promise.
LEMMA MovesSame ==
  ASSUME OrderInv, NEW p \in Procs, Moves(p), \A c \in Cards : row'[c].status = row[c].status
  PROVE  States' = States
<1>1. \A c \in Cards : Carrying(c)' = Carrying(c)
  BY CarryingKept DEF OrderInv, ApartInv, DiffInv, DecisionInv
<1>2. \A c \in Cards : StateOf(c)' = StateOf(c)
  BY <1>1 DEF StateOf
<1> QED BY <1>2, StatesSame

LEMMA PromiseLooks ==
  ASSUME OrderInv, NEW p \in Procs, Looks(p)
  PROVE  States' = States /\ owner' = owner
  BY MovesSame DEF Looks

LEMMA PromiseBegins ==
  ASSUME MayStop = FALSE, Overlap = {}, Bots = {}, OrderInv,
         NEW p \in Procs, QueueBegin(p) \/ DecideBegin(p)
  PROVE  Promise!Next \/ (States' = States /\ owner' = owner)
<1> USE DEF OrderInv, ApartInv, DiffInv, DecisionInv, At, GoTo
<1>1. Begins(p)
  BY DecisionBegins
<1>2. PICK card \in Cards :
      /\ row' = row /\ owner' = owner /\ approve' = approve
      /\ card = cur[p] /\ Open(card) /\ lock[card] = NoOne /\ lock'[card] = p
      /\ pc[p] \in Deciding /\ card <= made
  BY <1>1 DEF QueueBegin, DecideBegin, Begin, MayBegin, Undecided, Open, Begins, cardVars, TypeOK, Deciding, CurMade
<1>3. \A c \in Cards : c # card => Carrying(c)' = Carrying(c)
  <2>1. \A c \in Cards : c # card => lock[c] # p /\ lock'[c] = lock[c]
    BY <1>1, <1>2, ProcsAssumption DEF Begins, OneDecision, TypeOK
  <2> QED BY <1>1, <2>1, CarryingStays DEF Begins
<1>4. \A c \in Cards : c # card => StateOf(c)' = StateOf(c)
  BY <1>2, <1>3 DEF StateOf
<1>5. ~Carrying(card) /\ StateOf(card) = row[card].status
  BY <1>2 DEF Carrying, StateOf
<1>6. CASE DecideBegin(p) /\ approve[p]
  <2>1. pc'[p] = "deciding" /\ pc[p] = "decide"
    BY <1>6 DEF DecideBegin, Begin, TypeOK
  <2>2. Carrying(card)'
    BY <1>2, <1>6, <2>1, ProcsAssumption DEF Carrying
  <2>3. States' = [States EXCEPT ![card] = "running"]
    BY <1>4, <2>2, StatesMove DEF StateOf
  <2>4. States[card] \in {"pending", "queued"} /\ States[card] = row[card].status
    BY <1>2, <1>5 DEF States, Open
  <2>5. CASE p \in Agents /\ kind[card] = "action"
    <3>1. owner[card] \in AutoRun /\ row[card].status = "pending"
      BY <1>2, <2>5 DEF SelfDecide, OwnCards
    <3>2. Promise!RunSelf(card)
      BY <1>2, <2>3, <2>4, <3>1 DEF Promise!RunSelf, Promise!Move, States
    <3> QED BY <3>2 DEF Promise!Next
  <2>6. CASE ~(p \in Agents /\ kind[card] = "action")
    <3>1. Clear(card)
      BY <1>2, <1>6, <2>1, <2>6 DEF InLine, Nears
    <3>2. ASSUME NEW d \in Cards, d < card, owner[d] = owner[card] PROVE States[d] \in {"done", "rejected"}
      <4>1. StateOf(d) \in {"done", "rejected"}
        BY <1>2, <3>1, <3>2, ClearTurn
      <4> QED BY <4>1 DEF StateOf, States
    <3>3. Promise!Turn(card)
      BY <3>2 DEF Promise!Turn, States
    <3>4. Promise!Run(card)
      BY <1>2, <2>3, <2>4, <3>3 DEF Promise!Run, Promise!Move, States
    <3> QED BY <3>4 DEF Promise!Next
  <2> QED BY <2>5, <2>6
<1>7. CASE ~(DecideBegin(p) /\ approve[p])
  <2>1. ~Carrying(card)'
    BY <1>2, <1>7 DEF QueueBegin, DecideBegin, Begin, Carrying, TypeOK
  <2>2. \A c \in Cards : StateOf(c)' = StateOf(c)
    BY <1>2, <1>4, <1>5, <2>1 DEF StateOf
  <2> QED BY <1>2, <2>2, StatesSame
<1> QED BY <1>6, <1>7

LEMMA PromiseEnds ==
  ASSUME OrderInv, NEW p \in Procs, QueueEnd(p) \/ DecideEnd(p)
  PROVE  Promise!Next
<1> USE DEF OrderInv, ApartInv, DiffInv, DecisionInv, At, GoTo
<1>1. Ends(p)
  BY DecisionEnds
<1>2. PICK card \in Cards :
      /\ owner' = owner
      /\ card = cur[p] /\ Open(card) /\ lock[card] = p /\ lock'[card] = NoOne
      /\ \A d \in Cards : d # card => row'[d] = row[d]
      /\ QueueEnd(p) => row'[card].status = "queued"
      /\ DecideEnd(p) => row'[card].status = Outcome(p)
  BY <1>1, EndsRow DEF QueueEnd, DecideEnd, cardVars, Ends, TypeOK
<1>3. \A c \in Cards : c # card => Carrying(c)' = Carrying(c)
  <2>1. \A c \in Cards : c # card => lock[c] # p /\ lock'[c] = lock[c]
    BY <1>1, <1>2, ProcsAssumption DEF Ends, OneDecision, TypeOK
  <2> QED BY <1>1, <2>1, CarryingStays DEF Ends
<1>4. \A c \in Cards : c # card => StateOf(c)' = StateOf(c)
  BY <1>2, <1>3 DEF StateOf
<1>5. ~Carrying(card)'
  BY <1>2 DEF Carrying
<1>6. CASE QueueEnd(p)
  <2>1. pc[p] = "queueing" /\ ~Carrying(card)
    BY <1>2, <1>6 DEF QueueEnd, Carrying
  <2>2. row[card].status = "pending"
    BY <1>2, <2>1 DEF QueueingPending
  <2>3. States' = [States EXCEPT ![card] = "queued"]
    BY <1>2, <1>4, <1>5, <1>6, StatesMove DEF StateOf
  <2>4. States[card] \in {"pending"}
    BY <2>1, <2>2 DEF States
  <2>5. Promise!Queue(card)
    BY <1>2, <2>3, <2>4 DEF Promise!Queue, Promise!Move, States
  <2> QED BY <2>5 DEF Promise!Next
<1>7. CASE DecideEnd(p) /\ approve[p]
  <2>1. Carrying(card)
    BY <1>2, <1>7, ProcsAssumption DEF DecideEnd, Carrying
  <2>2. States' = [States EXCEPT ![card] = "done"]
    BY <1>2, <1>4, <1>5, <1>7, StatesMove DEF StateOf, Outcome
  <2>3. States[card] \in {"running"}
    BY <2>1 DEF States
  <2>4. Promise!Finish(card)
    BY <1>2, <2>2, <2>3 DEF Promise!Finish, Promise!Move, States
  <2> QED BY <2>4 DEF Promise!Next
<1>8. CASE DecideEnd(p) /\ ~approve[p]
  <2>1. ~Carrying(card)
    BY <1>2, <1>8 DEF DecideEnd, Carrying
  <2>2. States' = [States EXCEPT ![card] = "rejected"]
    BY <1>2, <1>4, <1>5, <1>8, StatesMove DEF StateOf, Outcome
  <2>3. States[card] \in {"pending", "queued"}
    BY <1>2, <2>1 DEF States, Open
  <2>4. Promise!Reject(card)
    BY <1>2, <2>2, <2>3 DEF Promise!Reject, Promise!Move, States
  <2> QED BY <2>4 DEF Promise!Next
<1> QED BY <1>6, <1>7, <1>8

LEMMA PromiseMakes ==
  ASSUME OrderInv, NEW a \in Agents, Propose(a) \/ AddPatch(a)
  PROVE  Promise!Next
<1> USE DEF OrderInv, ApartInv, DiffInv, DecisionInv
<1>1. PICK k \in {"action", "patch"}, m \in 0 .. MaxTurns : MakeCard(a, k, m)
  BY BoundsAssumption DEF Propose, AddPatch, TypeOK
<1>2. PICK new \in Cards :
      /\ new = made + 1 /\ row'[new] = [status |-> "pending", msg |-> m]
      /\ \A c \in Cards : c # new => row'[c] = row[c]
  BY <1>1, CardMade
<1>3. owner' = [owner EXCEPT ![new] = a]
  BY <1>1, <1>2 DEF MakeCard
<1>4. a \in Procs /\ Moves(a)
  BY TurnMoves DEF Turn
<1>5. \A c \in Cards : Carrying(c)' = Carrying(c)
  BY <1>4, CarryingKept
<1>6. row[new].status = "none" /\ ~Carrying(new)
  <2>1. row[new] = Blank
    BY <1>2, Numbers DEF Unmade
  <2> QED BY <2>1, CarryOpen DEF Blank, Open, Carrying
<1>7. States' = [States EXCEPT ![new] = "pending"]
  <2>1. StateOf(new)' = "pending" /\ \A c \in Cards : c # new => StateOf(c)' = StateOf(c)
    BY <1>2, <1>5, <1>6 DEF StateOf
  <2> QED BY <2>1, StatesMove
<1>8. States[new] = "none" /\ \A d \in Cards : d < new => States[d] # "none"
  <2>1. \A d \in Cards : d < new => d <= made
    BY <1>2, Numbers
  <2> QED BY <1>6, <2>1 DEF States, MadeShown
<1>9. Promise!Make(new, a)
  BY <1>3, <1>7, <1>8 DEF Promise!Make, States
<1> QED BY <1>9 DEF Promise!Next

LEMMA PromiseWrites ==
  ASSUME OrderInv, NEW a \in Agents, Attach(a) \/ Replace(a)
  PROVE  Promise!Next \/ (States' = States /\ owner' = owner)
<1> USE DEF OrderInv, ApartInv, DiffInv, DecisionInv, At, GoTo
<1>1. a \in Procs /\ Moves(a) /\ owner' = owner
  BY TurnMoves DEF Turn, Attach, Replace, cardVars
<1>2. CASE \A c \in Cards : row'[c].status = row[c].status
  BY <1>1, <1>2, MovesSame
<1>3. CASE \E c \in Cards : row'[c].status # row[c].status
  <2>1. PICK card \in Cards :
        /\ copy[a][card] # Blank
        /\ \A d \in Cards : d # card => row'[d] = row[d]
        /\ Attach(a) => row'[card].status = row[card].status
        /\ Replace(a) => row'[card].status = "rejected"
    BY <1>3, WritesBack
  <2>2. Replace(a) /\ row'[card].status = "rejected"
    BY <1>3, <2>1
  <2>3. Open(card) /\ ~Carrying(card)
    <3>1. Open(card)
      BY <2>1, <2>2 DEF Replace, ReplaceOpen
    <3>2. lock[card] # a
      BY <1>1, ProcsAssumption DEF Moves, OneDecision
    <3> QED BY <1>1, <2>1, <3>1, <3>2, HolderLock DEF Carrying
  <2>4. \A c \in Cards : Carrying(c)' = Carrying(c)
    BY <1>1, CarryingKept
  <2>5. States' = [States EXCEPT ![card] = "rejected"]
    <3>1. StateOf(card)' = "rejected" /\ \A c \in Cards : c # card => StateOf(c)' = StateOf(c)
      BY <2>1, <2>2, <2>3, <2>4 DEF StateOf
    <3> QED BY <3>1, StatesMove
  <2>6. States[card] \in {"pending", "queued"}
    BY <2>3 DEF States, Open
  <2>7. Promise!Reject(card)
    BY <1>1, <2>5, <2>6 DEF Promise!Reject, Promise!Move, States
  <2> QED BY <2>7 DEF Promise!Next
<1> QED BY <1>2, <1>3

\* Office goes down: what was carried out is asked for once more.
LEMMA PromiseCut == ASSUME OrderInv, Crash PROVE Promise!Next
<1> USE DEF OrderInv, ApartInv, DiffInv, DecisionInv
<1>1. row' = row /\ owner' = owner /\ \A c \in Cards : ~Carrying(c)'
  BY DEF Crash, cardVars, Carrying
<1> DEFINE as == [c \in Cards |-> IF Carrying(c) THEN row[c].status ELSE "pending"]
<1>2. as \in [Cards -> {"pending", "queued"}]
  <2>1. \A c \in Cards : Carrying(c) => row[c].status \in {"pending", "queued"}
    BY CarryOpen DEF Carrying, Open
  <2> QED BY <2>1
<1>3. States' = [c \in Cards |-> row[c].status]
  BY <1>1 DEF States
<1>4. \A c \in Cards : row[c].status # "running"
  BY DEF TypeOK, Row, Status
<1>5. [c \in Cards |-> IF States[c] = "running" THEN as[c] ELSE States[c]] = [c \in Cards |-> row[c].status]
  <2>1. \A c \in Cards : (IF States[c] = "running" THEN as[c] ELSE States[c]) = row[c].status
    BY <1>4 DEF States
  <2> HIDE DEF as
  <2> QED BY <2>1
<1>6. Promise!Cut
  <2> HIDE DEF as
  <2> QED BY <1>1, <1>2, <1>3, <1>5 DEF Promise!Cut, States
<1> QED BY <1>6 DEF Promise!Next

\* The cards of the code keep the promise of order.go (ApprovalQueue): each is
\* made, waits, runs once in its turn or is rejected, and what restarts cut
\* short is asked for once more.
THEOREM KeepsPromiseHolds ==
  ASSUME Overlap = {}, MayStop = FALSE, Bots = {}
  PROVE  Spec => KeepsPromise
<1>1. Init => Promise!Init
  <2> SUFFICES ASSUME Init PROVE Promise!Init
    OBVIOUS
  <2>1. owner = [c \in Cards |-> NoOne] /\ \A c \in Cards : row[c].status = "none" /\ ~Carrying(c)
    BY DEF Init, Blank, Carrying
  <2> QED BY <2>1 DEF Promise!Init
<1>2. OrderInv /\ [Next]_vars => OrderInv'
  BY StepOrder
<1>3. OrderInv /\ [Next]_vars => Promise!Next \/ (States' = States /\ owner' = owner)
  <2> SUFFICES ASSUME OrderInv, [Next]_vars PROVE Promise!Next \/ (States' = States /\ owner' = owner)
    OBVIOUS
  <2> USE DEF OrderInv, ApartInv, DiffInv, DecisionInv
  <2>1. ASSUME NEW c \in Cards, Clicks(c) PROVE States' = States /\ owner' = owner
    BY <2>1, LooksClick, PromiseLooks DEF Clicks
  <2>2. ASSUME NEW p \in Procs, Decision(p) PROVE Promise!Next \/ (States' = States /\ owner' = owner)
    BY <2>2, LooksDecision, PromiseLooks, PromiseBegins, PromiseEnds DEF Decision
  <2>3. CASE DrainStart \/ DrainList \/ DrainAgain
    BY <2>3, LooksDrain, PromiseLooks, AgentProcs
  <2>4. ASSUME NEW a \in Agents, Turn(a) PROVE Promise!Next \/ (States' = States /\ owner' = owner)
    <3>1. CASE TurnStart(a) \/ TurnFail(a) \/ TurnEnd(a) \/ Answer(a) \/ Diff(a)
      <4>1. a \in Procs /\ Moves(a) /\ row' = row /\ owner' = owner
        BY <3>1, <2>4, TurnMoves DEF TurnStart, TurnFail, TurnEnd, Answer, Diff, cardVars
      <4> QED BY <4>1, MovesSame
    <3> QED BY <2>4, <3>1, PromiseMakes, PromiseWrites DEF Turn
  <2>5. CASE UNCHANGED vars
    <3>1. \A c \in Cards : StateOf(c)' = StateOf(c)
      BY <2>5 DEF vars, StateOf, Carrying
    <3> QED BY <2>5, <3>1, StatesSame DEF vars, cardVars
  <2> QED BY <2>1, <2>2, <2>3, <2>4, <2>5, PromiseCut DEF Next
<1>4. OrderInv /\ [Next]_vars => [Promise!Next]_<<owner, [c \in Cards |-> IF Carrying(c) THEN "running" ELSE row[c].status]>>
  BY <1>3 DEF States
<1> QED BY InitOrder, <1>1, <1>2, <1>4, PTL DEF Spec, KeepsPromise, Promise!Spec
=============================================================================
