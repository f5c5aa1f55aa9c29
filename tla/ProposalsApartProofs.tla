------------------------ MODULE ProposalsApartProofs ------------------------
(***************************************************************************)
(* What holds of the cards of a chat as long as people decide only while   *)
(* no agent answers (Overlap = {}), however many agents, people, cards,    *)
(* turns and restarts there are: each card is carried out once, and its    *)
(* row says what happened.                                                 *)
(***************************************************************************)
EXTENDS ProposalsProofs

\* Either agents answer, or people and Drain are at work.
Apart == Idle(Agents) \/ Quiet

\* What was read is what is stored: nobody writes a row between the step that
\* reads it and the one that writes it back.
Fresh == \A p \in Procs, c \in Cards : copy[p][c] # Blank => copy[p][c] = row[c]

\* Whose rows a process may hold: of the card it decides, and, at the end of a
\* turn, of cards of its own.
Reader == \A p \in Procs, c \in Cards : copy[p][c] # Blank =>
    \/ Busy(p) /\ c = cur[p]
    \/ p \in Agents /\ pc[p] \in {"attach", "replace"} /\ owner[c] = p

BusyCopy == \A p \in Procs : Busy(p) => copy[p][cur[p]] # Blank /\ Open(cur[p])

\* An agent decides its own cards only; those of its present turn are its own,
\* and have no number before they are attached.
OwnCards == \A a \in Agents :
    /\ pc[a] \in Deciding => owner[cur[a]] = a
    /\ \A c \in mine[a] : owner[c] = a
    /\ \A c \in mine[a] : pc[a] # "attach" \/ copy[a][c] # Blank => row[c].msg = 0
    /\ pc[a] = "attach" => \A c \in Cards : copy[a][c] # Blank => c \in mine[a]

\* What treePatch lists stays open until it is rejected.
ReplaceOpen == \A a \in Agents, c \in Cards :
    pc[a] = "replace" /\ copy[a][c] # Blank => Open(c)

\* What is not done was not carried out since office came up, but for the
\* decision that does it now; what is done was.
Spent == \A c \in Cards :
    /\ row[c].status # "done" /\ ~Carrying(c) => ran[c] <= crashes
    /\ row[c].status = "done" \/ Carrying(c) => ran[c] > 0

ApartInv ==
    /\ DiffInv /\ Apart /\ Fresh /\ Reader /\ BusyCopy
    /\ OwnCards /\ ReplaceOpen /\ Spent /\ RunsOnce
-----------------------------------------------------------------------------
LEMMA Numbers == ASSUME TypeOK
  PROVE  /\ made \in Nat /\ crashes \in Nat /\ msgs \in Nat /\ MaxTurns \in Nat /\ ran \in [Cards -> Nat]
         /\ \A c \in Cards : c \in Nat
         /\ \A c \in Cards : row[c] \in Row /\ row[c].msg \in Nat /\ row[c].msg <= MaxTurns
  BY BoundsAssumption DEF TypeOK, Cards, Row

LEMMA AgentProcs == Agents \subseteq Procs /\ People \subseteq Procs /\ Drainer \in Procs
  BY DEF Procs

LEMMA InitApart == Init => ApartInv
<1> SUFFICES ASSUME Init PROVE ApartInv
  OBVIOUS
<1>1. DiffInv
  BY InitDiff
<1>2. /\ \A p \in Procs : pc[p] = "idle" /\ \A c \in Cards : copy[p][c] = Blank
      /\ \A a \in Agents : mine[a] = {}
      /\ \A c \in Cards : row[c] = Blank /\ ran[c] = 0 /\ lock[c] = NoOne
      /\ crashes = 0
  BY DEF Init
<1>3. Apart
  BY <1>2, AgentProcs DEF Apart, Idle, At
<1>4. Fresh /\ Reader /\ BusyCopy /\ OwnCards /\ ReplaceOpen
  BY <1>2, AgentProcs DEF Fresh, Reader, BusyCopy, OwnCards, ReplaceOpen, Busy, Deciding
<1>5. Spent /\ RunsOnce
  BY <1>2 DEF Spent, RunsOnce, Carrying, Blank
<1> QED BY <1>1, <1>3, <1>4, <1>5 DEF ApartInv

\* Who answers keeps people and Drain away, and the other way round.
LEMMA AgentAlone ==
  ASSUME Apart, NEW a \in Agents, pc[a] # "idle", NEW q \in Procs, pc[q] # "idle"
  PROVE  q \in Agents
  BY DEF Apart, Quiet, Idle, At, Procs

\* One process at a time holds the row of a card.
LEMMA OneHolder ==
  ASSUME ApartInv, NEW p \in Procs, NEW q \in Procs, NEW c \in Cards, copy[p][c] # Blank, copy[q][c] # Blank
  PROVE  p = q
<1> USE DEF ApartInv, DiffInv, DecisionInv
<1>1. ASSUME NEW r \in Procs, NEW a \in Agents, Busy(r), cur[r] = c, pc[a] \in {"attach", "replace"}, owner[c] = a
      PROVE  FALSE
  <2>1. r \in Agents
    BY <1>1, AgentAlone DEF Busy
  <2>2. owner[cur[r]] = r
    BY <1>1, <2>1 DEF OwnCards, Busy, Deciding
  <2> QED BY <1>1, <2>2 DEF Busy
<1>2. CASE Busy(p) /\ c = cur[p] /\ Busy(q) /\ c = cur[q]
  BY <1>2 DEF OneDecision
<1> QED BY <1>1, <1>2 DEF Reader

LEMMA HolderLock ==
  ASSUME ApartInv, NEW p \in Procs, NEW c \in Cards, copy[p][c] # Blank
  PROVE  lock[c] \in {p, NoOne}
<1> USE DEF ApartInv, DiffInv, DecisionInv
<1>1. SUFFICES ASSUME lock[c] # NoOne PROVE lock[c] = p
  OBVIOUS
<1>2. lock[c] \in Procs /\ Busy(lock[c]) /\ cur[lock[c]] = c
  BY <1>1 DEF TypeOK, OneDecision
<1> QED BY <1>2, OneHolder DEF BusyCopy

\* Agents answer, or people and Drain are at work: never both.
LEMMA StepApart == ASSUME Overlap = {}, ApartInv, [Next]_vars PROVE Apart'
<1> USE DEF ApartInv, DiffInv, DecisionInv, At, GoTo
<1>1. ASSUME NEW p \in Procs \ Agents, pc[p] # "idle" \/ drains > 0 \/ Idle(Agents), \A q \in Procs : q # p => pc'[q] = pc[q]
      PROVE  Apart'
  <2>1. Idle(Agents)
    BY <1>1 DEF Apart, Quiet, Idle, Procs
  <2> QED BY <1>1, <2>1, AgentProcs DEF Apart, Idle
<1>2. ASSUME NEW a \in Agents, pc[a] # "idle" \/ Quiet, \A q \in Procs : q # a => pc'[q] = pc[q], drains' = drains
      PROVE  Apart'
  <2>1. Quiet
    BY <1>2 DEF Apart, Idle
  <2> QED BY <1>2, <2>1, AgentProcs, ProcsAssumption DEF Apart, Quiet, Idle
<1>3. ASSUME NEW c \in Cards, NEW p \in People, NEW yes \in BOOLEAN, Click(p, c, yes) PROVE Apart'
  <2>1. p \in Procs \ Agents
    BY ProcsAssumption DEF Procs
  <2> QED BY <1>1, <1>3, <2>1 DEF Click, TypeOK
<1>4. ASSUME NEW p \in Procs, Decision(p) PROVE Apart'
  <2>1. pc[p] \in Deciding /\ pc[p] # "idle"
    BY <1>4 DEF Decision, Get, CheckOrder, Refused, QueueBegin, DecideBegin, Begin, QueueEnd, DecideEnd, Deciding
  <2>2. \A q \in Procs : q # p => pc'[q] = pc[q]
    <3>1. CASE Over(p)
      BY <2>1, <3>1, OverAlone DEF Alone
    <3>2. CASE ~Over(p)
      BY <1>4, <3>2 DEF Decision, Get, CheckOrder, Refused, QueueBegin, DecideBegin, Begin, QueueEnd, DecideEnd, TypeOK
    <3> QED BY <3>1, <3>2
  <2>3. CASE p \in Agents
    <3>1. p \notin People /\ p # Drainer /\ p \notin Bots
      BY <2>3, ProcsAssumption DEF People
    <3>2. drains' = drains
      BY <1>4, <3>1 DEF Decision, Get, CheckOrder, Refused, QueueBegin, DecideBegin, Begin, QueueEnd, DecideEnd, Drains
    <3> QED BY <1>2, <2>1, <2>2, <2>3, <3>2
  <2> QED BY <1>1, <2>1, <2>2, <2>3
<1>5. ASSUME DrainStart \/ DrainList \/ DrainAgain PROVE Apart'
  <2>1. Drainer \in Procs \ Agents
    BY ProcsAssumption DEF Procs
  <2> QED BY <1>1, <1>5, <2>1 DEF DrainStart, DrainList, DrainAgain, TypeOK
<1>6. ASSUME NEW a \in Agents, Turn(a) PROVE Apart'
  <2>1. a \in Procs
    BY AgentProcs
  <2>2. drains' = drains /\ (pc[a] # "idle" \/ Quiet)
    BY <1>6 DEF Turn, TurnStart, Propose, TurnFail, Answer, Attach, Diff, Replace, AddPatch, TurnEnd
  <2>3. \A q \in Procs : q # a => pc'[q] = pc[q]
    BY <1>6, <2>1, TurnMoves DEF Moves, Alone
  <2> QED BY <1>2, <2>2, <2>3
<1>7. CASE Crash
  BY <1>7, AgentProcs DEF Crash, Apart, Idle
<1>8. CASE UNCHANGED vars
  BY <1>8 DEF vars, Apart, Quiet, Idle
<1> QED
  BY <1>3, <1>4, <1>5, <1>6, <1>7, <1>8 DEF Next, Clicks

-----------------------------------------------------------------------------
\* What a step leaves of ApartInv but DiffInv (ProposalsProofs) and Apart.
Kept == Fresh /\ Reader /\ BusyCopy /\ OwnCards /\ ReplaceOpen /\ Spent /\ RunsOnce

\* A step of p that writes no row and begins no decision.
Looks(p) ==
    /\ Moves(p)
    /\ pc[p] \notin {"attach", "replace"} /\ pc'[p] \notin {"attach", "replace"}
    /\ row' = row /\ kind' = kind /\ owner' = owner /\ ran' = ran /\ crashes' = crashes /\ made' = made
    /\ \A c \in Cards : copy'[p][c] \in {copy[p][c], Blank}
    /\ \A a \in Agents : mine'[a] \subseteq mine[a] /\ (a # p => mine'[a] = mine[a])
    /\ p \in Agents /\ pc'[p] \in Deciding => pc[p] \in Deciding /\ cur'[p] = cur[p]

LEMMA LooksClick ==
  ASSUME TypeOK, NEW c \in Cards, NEW p \in People, NEW yes \in BOOLEAN, Click(p, c, yes)
  PROVE  p \in Procs /\ Looks(p)
<1>1. p \in Procs /\ Moves(p) /\ p \notin Agents
  BY ClickMoves, ProcsAssumption
<1> QED BY <1>1 DEF Click, At, GoTo, Looks, cardVars, turnVars, TypeOK

LEMMA LooksDecision ==
  ASSUME TypeOK, CurCard, NEW p \in Procs, Get(p) \/ CheckOrder(p) \/ Refused(p)
  PROVE  Looks(p)
<1> USE DEF At, GoTo
<1>1. Moves(p) /\ pc[p] \in Deciding
  BY DecisionMoves DEF Get, CheckOrder, Refused, Deciding
<1>2. /\ row' = row /\ kind' = kind /\ owner' = owner /\ ran' = ran /\ crashes' = crashes
      /\ made' = made /\ mine' = mine
  BY DEF Get, CheckOrder, Refused, cardVars, turnVars
<1>3. CASE Over(p)
  <2>1. Home(p) \notin {"attach", "replace"}
    <3>1. kind[cur[p]] \in {"action", "patch"}
      BY <1>1 DEF TypeOK, CurCard
    <3> QED BY <3>1 DEF Home, Procs
  <2>2. pc'[p] = Home(p) /\ pc'[p] \notin Deciding /\ \A c \in Cards : copy'[p][c] = Blank
    BY <1>1, <1>3, OverAlone DEF Over, TypeOK
  <2> QED BY <1>1, <1>2, <2>1, <2>2 DEF Looks, Deciding
<1>4. CASE ~Over(p)
  <2>1. copy' = copy /\ cur' = cur /\ pc'[p] \notin {"attach", "replace"}
    BY <1>4 DEF Get, CheckOrder, Refused, TypeOK
  <2> QED BY <1>1, <1>2, <2>1 DEF Looks, Deciding
<1> QED BY <1>3, <1>4

LEMMA LooksDrain ==
  ASSUME TypeOK, DrainStart \/ DrainList \/ DrainAgain
  PROVE  Looks(Drainer)
<1>1. Moves(Drainer) /\ Drainer \in Procs /\ Drainer \notin Agents
  BY DrainMoves, ProcsAssumption
<1> QED BY <1>1 DEF DrainStart, DrainList, DrainAgain, At, GoTo, Looks, cardVars, turnVars, TypeOK

LEMMA LooksTurn ==
  ASSUME TypeOK, NEW a \in Agents, TurnStart(a) \/ TurnFail(a) \/ TurnEnd(a) \/ (Diff(a) /\ a \notin InTree)
  PROVE  Looks(a)
<1>1. Moves(a) /\ a \in Procs
  BY TurnMoves DEF Turn
<1>2. /\ row' = row /\ kind' = kind /\ owner' = owner /\ ran' = ran /\ crashes' = crashes
      /\ made' = made /\ copy' = copy /\ \A b \in Agents : mine'[b] \subseteq mine[b] /\ (b # a => mine'[b] = mine[b])
  BY DEF TurnStart, TurnFail, TurnEnd, Diff, cardVars, turnVars, TypeOK
<1>3. /\ pc[a] \notin {"attach", "replace"} /\ pc'[a] \notin {"attach", "replace"}
      /\ pc'[a] \notin Deciding
  BY <1>1 DEF TurnStart, TurnFail, TurnEnd, Diff, At, GoTo, Deciding, TypeOK
<1> QED BY <1>1, <1>2, <1>3 DEF Looks

LEMMA NotHolding ==
  ASSUME Reader, NEW p \in Procs, ~Busy(p), pc[p] \notin {"attach", "replace"}
  PROVE  \A c \in Cards : copy[p][c] = Blank
  BY DEF Reader

LEMMA CarryingKept ==
  ASSUME TypeOK, OneDecision, NEW p \in Procs, Moves(p), NEW c \in Cards
  PROVE  Carrying(c)' = Carrying(c)
<1>1. lock[c] # p
  BY ProcsAssumption DEF Moves, OneDecision
<1> QED BY <1>1, CarryingStays DEF Moves

LEMMA KeptLooks == ASSUME ApartInv, NEW p \in Procs, Looks(p) PROVE Kept'
<1> USE DEF ApartInv, DiffInv, DecisionInv
<1>1. \A q \in Procs, c \in Cards : copy'[q][c] = copy[q][c]
  BY NotHolding DEF Looks, Moves, Alone
<1>2. \A c \in Cards : copy[p][c] = Blank
  BY NotHolding DEF Looks, Moves
<1>3. \A q \in Procs : q # p => pc'[q] = pc[q] /\ cur'[q] = cur[q] /\ Busy(q)' = Busy(q)
  BY DEF Looks, Moves, Alone, Busy
<1>4. Fresh'
  BY <1>1 DEF Looks, Fresh
<1>5. Reader'
  BY <1>1, <1>2, <1>3 DEF Looks, Reader
<1>6. BusyCopy'
  <2>1. ASSUME NEW q \in Procs, Busy(q)' PROVE q # p /\ Busy(q)
    BY <1>3, <2>1 DEF Looks, Moves
  <2>2. \A q \in Procs : Busy(q) => cur[q] \in Cards
    BY DEF CurCard, Busy, Deciding
  <2> QED BY <1>1, <1>3, <2>1, <2>2 DEF Looks, BusyCopy, Open
<1>7. OwnCards'
  <2>1. ASSUME NEW a \in Agents, pc'[a] \in Deciding PROVE owner'[cur'[a]] = a
    BY <1>3, <2>1, AgentProcs DEF Looks, OwnCards
  <2>2. ASSUME NEW a \in Agents, NEW c \in mine'[a]
        PROVE  owner'[c] = a /\ c \in Cards /\ (pc'[a] # "attach" \/ copy'[a][c] # Blank => row'[c].msg = 0)
    <3>1. c \in mine[a] /\ c \in Cards
      BY <2>2 DEF Looks, TypeOK
    <3>2. pc'[a] # "attach" => pc[a] # "attach"
      BY <1>3, AgentProcs DEF Looks
    <3> QED BY <1>1, <3>1, <3>2, AgentProcs DEF Looks, OwnCards
  <2>3. ASSUME NEW a \in Agents, pc'[a] = "attach", NEW c \in Cards, copy'[a][c] # Blank PROVE c \in mine'[a]
    <3>1. a # p /\ pc[a] = "attach" /\ c \in mine[a]
      BY <1>1, <1>3, <2>3, AgentProcs DEF Looks, OwnCards
    <3> QED BY <3>1 DEF Looks
  <2> QED BY <2>1, <2>2, <2>3 DEF OwnCards
<1>8. ReplaceOpen'
  BY <1>1, <1>3, AgentProcs DEF Looks, ReplaceOpen, Open
<1>9. Spent' /\ RunsOnce'
  BY CarryingKept DEF Looks, Spent, RunsOnce
<1> QED BY <1>4, <1>5, <1>6, <1>7, <1>8, <1>9 DEF Kept

LEMMA KeptBegins ==
  ASSUME ApartInv, NEW p \in Procs, QueueBegin(p) \/ DecideBegin(p)
  PROVE  Kept'
<1> USE DEF ApartInv, DiffInv, DecisionInv, At, GoTo
<1>1. Begins(p)
  BY DecisionBegins
<1>2. PICK card \in Cards :
      /\ row' = row /\ kind' = kind /\ owner' = owner /\ mine' = mine /\ crashes' = crashes /\ cur' = cur
      /\ card = cur[p] /\ Open(card) /\ lock[card] = NoOne /\ lock'[card] = p /\ approve' = approve
      /\ pc[p] \in Deciding /\ pc'[p] \in {"queueing", "deciding"} /\ pc[p] \notin {"queueing", "deciding"}
      /\ \A c \in Cards : copy'[p][c] = IF c = card THEN row[card] ELSE copy[p][c]
  BY <1>1 DEF QueueBegin, DecideBegin, Begin, MayBegin, Undecided, Open, Begins, cardVars, turnVars, TypeOK, Deciding
<1>3. \A q \in Procs : q # p => pc'[q] = pc[q] /\ copy'[q] = copy[q] /\ Busy(q)' = Busy(q)
  BY <1>1 DEF Begins, Alone, Busy
<1>4. row[card] # Blank /\ Busy(p)' /\ \A c \in Cards : copy[p][c] = Blank
  <2>1. ~Busy(p) /\ pc[p] \notin {"attach", "replace"}
    BY <1>2 DEF Busy, Deciding
  <2> QED BY <1>2, <2>1, NotHolding DEF Open, Blank, Busy
<1>5. Fresh'
  BY <1>2, <1>3 DEF Fresh
<1>6. Reader'
  BY <1>2, <1>3, <1>4 DEF Reader
<1>7. BusyCopy'
  <2>1. ASSUME NEW q \in Procs, q # p, Busy(q)' PROVE copy'[q][cur[q]] # Blank /\ Open(cur[q])'
    BY <1>2, <1>3, <2>1 DEF BusyCopy, Open
  <2>2. copy'[p][cur[p]] # Blank /\ Open(cur[p])'
    BY <1>2, <1>4 DEF Open
  <2> QED BY <1>2, <2>1, <2>2 DEF BusyCopy, Open
<1>8. OwnCards'
  <2>1. ASSUME NEW a \in Agents PROVE pc'[a] \in Deciding => pc[a] \in Deciding
    BY <1>2, <1>3, AgentProcs
  <2>2. ASSUME NEW a \in Agents PROVE pc'[a] = "attach" => a # p
    BY <1>2
  <2>3. ASSUME NEW a \in Agents PROVE pc[a] = "attach" => a # p
    BY <1>2 DEF Deciding
  <2>4. ASSUME NEW a \in Agents, NEW c \in mine[a]
        PROVE  owner[c] = a /\ (pc'[a] # "attach" \/ copy'[a][c] # Blank => row[c].msg = 0)
    <3>1. CASE a = p
      BY <2>3, <2>4, <3>1 DEF OwnCards
    <3>2. CASE a # p
      BY <1>3, <2>4, <3>2, AgentProcs DEF OwnCards
    <3> QED BY <3>1, <3>2
  <2>5. ASSUME NEW a \in Agents, pc'[a] = "attach" PROVE \A c \in Cards : copy'[a][c] # Blank => c \in mine[a]
    BY <1>3, <2>2, <2>5, AgentProcs DEF OwnCards
  <2> QED BY <1>2, <2>1, <2>4, <2>5 DEF OwnCards
<1>9. ReplaceOpen'
  BY <1>2, <1>3, AgentProcs DEF ReplaceOpen, Open
<1>10. Spent' /\ RunsOnce'
  <2>1. \A c \in Cards : c # card => ran'[c] = ran[c]
    BY <1>2 DEF QueueBegin, DecideBegin, TypeOK
  <2>2. \A c \in Cards : c # card => Carrying(c)' = Carrying(c)
    <3>1. \A c \in Cards : c # card => lock[c] # p /\ lock'[c] = lock[c]
      BY <1>1, <1>2, ProcsAssumption DEF Begins, OneDecision, TypeOK
    <3> QED BY <1>1, <3>1, CarryingStays DEF Begins
  <2>3. ~Carrying(card) /\ row[card].status # "done"
    BY <1>2 DEF Carrying, Open
  <2>4. ran[card] <= crashes /\ crashes \in Nat /\ ran[card] \in Nat
    BY <2>3, Numbers DEF Spent
  <2>5. CASE DecideBegin(p) /\ approve[p]
    <3>1. ran'[card] = ran[card] + 1
      BY <1>2, <2>5 DEF DecideBegin, TypeOK
    <3>2. Carrying(card)'
      BY <1>2, <2>5, ProcsAssumption DEF DecideBegin, Begin, Carrying, TypeOK
    <3> QED BY <1>2, <2>1, <2>2, <2>3, <2>4, <3>1, <3>2 DEF Spent, RunsOnce
  <2>6. CASE ~(DecideBegin(p) /\ approve[p])
    <3>1. ran'[card] = ran[card]
      BY <1>2, <2>6 DEF QueueBegin, DecideBegin, TypeOK
    <3>2. ~Carrying(card)'
      BY <1>2, <2>6, ProcsAssumption DEF QueueBegin, DecideBegin, Begin, Carrying, TypeOK
    <3> QED BY <1>2, <2>1, <2>2, <2>3, <2>4, <3>1, <3>2 DEF Spent, RunsOnce
  <2> QED BY <2>5, <2>6
<1> QED BY <1>5, <1>6, <1>7, <1>8, <1>9, <1>10 DEF Kept

\* What the end of a decision leaves in the row.
LEMMA EndsRow ==
  ASSUME ApartInv, NEW p \in Procs, QueueEnd(p) \/ DecideEnd(p)
  PROVE  /\ cur[p] \in Cards /\ Open(cur[p]) /\ Busy(p) /\ lock[cur[p]] = p
         /\ \A d \in Cards : d # cur[p] => row'[d] = row[d]
         /\ row'[cur[p]].msg = row[cur[p]].msg
         /\ QueueEnd(p) => row'[cur[p]].status = "queued"
         /\ DecideEnd(p) => row'[cur[p]].status = Outcome(p)
         /\ \A q \in Procs, d \in Cards : copy'[q][d] = IF q = p THEN Blank ELSE copy[q][d]
<1> USE DEF ApartInv, DiffInv, DecisionInv, At, GoTo
<1> DEFINE c == cur[p]
<1>1. c \in Cards /\ Busy(p) /\ Open(c) /\ lock[c] = p /\ copy[p][c] = row[c] /\ row[c] \in Row
  BY DEF QueueEnd, DecideEnd, CurCard, Deciding, BusyCopy, Fresh, Busy, OneDecision, TypeOK
<1>2. Over(p) /\ \A q \in Procs, d \in Cards : copy'[q][d] = IF q = p THEN Blank ELSE copy[q][d]
  BY DEF QueueEnd, DecideEnd, Over, TypeOK
<1>3. ASSUME NEW s \in Status, Write(p, c, s)
      PROVE  (\A d \in Cards : d # c => row'[d] = row[d]) /\ row'[c].msg = row[c].msg /\ row'[c].status = s
  BY <1>1, <1>3 DEF Write, Row, TypeOK
<1>4. CASE QueueEnd(p)
  <2>1. CASE Gone(c)
    BY <1>1, <1>2, <1>4, <2>1 DEF QueueEnd, Gone, Open, DecideEnd
  <2>2. CASE ~Gone(c)
    <3>1. Write(p, c, "queued") /\ "queued" \in Status
      BY <1>4, <2>2 DEF QueueEnd, Status
    <3> QED BY <1>1, <1>2, <1>3, <1>4, <3>1 DEF QueueEnd, DecideEnd
  <2> QED BY <2>1, <2>2
<1>5. CASE DecideEnd(p)
  <2>1. Write(p, c, Outcome(p)) /\ Outcome(p) \in Status
    BY <1>5 DEF DecideEnd, Outcome, Status
  <2> QED BY <1>1, <1>2, <1>3, <1>5, <2>1 DEF QueueEnd, DecideEnd
<1> QED BY <1>4, <1>5

LEMMA KeptEnds ==
  ASSUME ApartInv, NEW p \in Procs, QueueEnd(p) \/ DecideEnd(p)
  PROVE  Kept'
<1> USE DEF ApartInv, DiffInv, DecisionInv, At, GoTo
<1>1. Ends(p)
  BY DecisionEnds
<1>2. PICK card \in Cards :
      /\ kind' = kind /\ owner' = owner /\ mine' = mine /\ crashes' = crashes /\ ran' = ran
      /\ card = cur[p] /\ Open(card) /\ lock[card] = p /\ lock'[card] = NoOne
      /\ \A d \in Cards : d # card => row'[d] = row[d]
      /\ row'[card].msg = row[card].msg
      /\ QueueEnd(p) => row'[card].status = "queued"
      /\ DecideEnd(p) => row'[card].status = Outcome(p)
      /\ \A q \in Procs, d \in Cards : copy'[q][d] = IF q = p THEN Blank ELSE copy[q][d]
  BY <1>1, EndsRow DEF QueueEnd, DecideEnd, cardVars, turnVars, Ends, TypeOK
<1>3. \A q \in Procs : q # p => pc'[q] = pc[q] /\ cur'[q] = cur[q] /\ Busy(q)' = Busy(q)
  BY <1>1 DEF Ends, Alone, Busy
<1>4. /\ ~Busy(p)' /\ Busy(p) /\ pc'[p] \notin Deciding /\ pc'[p] \notin {"attach", "replace"}
      /\ pc[p] \notin {"attach", "replace"}
  <2>1. pc[p] \in Deciding /\ Over(p) /\ Busy(p)
    BY DEF QueueEnd, DecideEnd, Deciding, Busy
  <2>2. Home(p) \notin {"attach", "replace"}
    <3>1. kind[cur[p]] \in {"action", "patch"}
      BY <1>2 DEF TypeOK
    <3> QED BY <3>1 DEF Home, Procs
  <2> QED BY <2>1, <2>2, OverAlone DEF Over, TypeOK, Deciding
<1>5. copy[p][card] # Blank
  BY <1>2, <1>4 DEF BusyCopy
<1>6. \A q \in Procs : q # p => copy[q][card] = Blank
  BY <1>5, OneHolder
<1>7. Fresh'
  BY <1>2, <1>6 DEF Fresh
<1>8. Reader'
  BY <1>2, <1>3 DEF Reader
<1>9. BusyCopy'
  <2>1. ASSUME NEW q \in Procs, Busy(q)' PROVE q # p /\ Busy(q) /\ cur'[q] = cur[q] /\ cur[q] \in Cards /\ cur[q] # card
    BY <1>2, <1>3, <1>4, <1>6, <2>1 DEF BusyCopy, CurCard, Busy, Deciding
  <2> QED BY <1>2, <2>1 DEF BusyCopy, Open
<1>10. OwnCards'
  <2>1. ASSUME NEW a \in Agents, pc'[a] \in Deciding PROVE owner'[cur'[a]] = a
    BY <1>2, <1>3, <1>4, <2>1, AgentProcs DEF OwnCards
  <2>2. ASSUME NEW a \in Agents, NEW c \in mine[a], pc'[a] # "attach" \/ copy'[a][c] # Blank
        PROVE  row'[c].msg = 0
    <3>1. c \in Cards /\ (pc[a] # "attach" \/ copy[a][c] # Blank)
      BY <1>2, <1>3, <1>4, <2>2, AgentProcs DEF TypeOK
    <3>2. row[c].msg = 0
      BY <2>2, <3>1 DEF OwnCards
    <3> QED BY <1>2, <3>1, <3>2
  <2>3. ASSUME NEW a \in Agents, pc'[a] = "attach" PROVE \A c \in Cards : copy'[a][c] # Blank => c \in mine[a]
    BY <1>2, <1>3, <1>4, <2>3, AgentProcs DEF OwnCards
  <2>4. \A a \in Agents : \A c \in mine[a] : owner[c] = a
    BY DEF OwnCards
  <2> QED BY <1>2, <2>1, <2>2, <2>3, <2>4 DEF OwnCards
<1>11. ReplaceOpen'
  <2>1. ASSUME NEW a \in Agents, NEW c \in Cards, pc'[a] = "replace", copy'[a][c] # Blank
        PROVE  a # p /\ pc[a] = "replace" /\ copy[a][c] # Blank /\ c # card
    BY <1>2, <1>3, <1>4, <1>6, <2>1, AgentProcs
  <2> QED BY <1>2, <2>1 DEF ReplaceOpen, Open
<1>12. Spent' /\ RunsOnce'
  <2>1. \A c \in Cards : c # card => Carrying(c)' = Carrying(c)
    <3>1. \A c \in Cards : c # card => lock[c] # p /\ lock'[c] = lock[c]
      BY <1>1, <1>2, ProcsAssumption DEF Ends, OneDecision, TypeOK
    <3> QED BY <1>1, <3>1, CarryingStays DEF Ends
  <2>2. ~Carrying(card)'
    BY <1>2 DEF Carrying
  <2>3. row[card].status # "done"
    BY <1>2 DEF Open
  <2>4. CASE DecideEnd(p) /\ approve[p]
    <3>1. Carrying(card) /\ row'[card].status = "done"
      BY <1>2, <2>4, ProcsAssumption DEF DecideEnd, Carrying, Outcome
    <3> QED BY <1>2, <2>1, <3>1, <2>2 DEF Spent, RunsOnce
  <2>5. CASE ~(DecideEnd(p) /\ approve[p])
    <3>1. ~Carrying(card) /\ row'[card].status # "done"
      BY <1>2, <2>5 DEF DecideEnd, QueueEnd, Carrying, Outcome
    <3> QED BY <1>2, <2>1, <2>2, <2>3, <3>1 DEF Spent, RunsOnce
  <2> QED BY <2>4, <2>5
<1> QED BY <1>7, <1>8, <1>9, <1>10, <1>11, <1>12 DEF Kept

\* A card is made: nobody read, holds or decides it.
LEMMA KeptMakes ==
  ASSUME ApartInv, NEW a \in Agents, NEW k \in {"action", "patch"}, NEW m \in 0 .. MaxTurns, MakeCard(a, k, m),
         Moves(a), copy' = copy, ran' = ran, crashes' = crashes,
         pc[a] \notin {"attach", "replace"}, pc'[a] \notin {"attach", "replace"},
         pc[a] \notin Deciding, pc'[a] \in Deciding => cur'[a] = made + 1,
         \A b \in Agents : b # a => mine'[b] = mine[b],
         \/ mine'[a] = mine[a]
         \/ mine'[a] = mine[a] \cup {made + 1} /\ m = 0
  PROVE  Kept'
<1> USE DEF ApartInv, DiffInv, DecisionInv
<1>1. PICK new \in Cards :
      /\ new = made + 1 /\ row'[new].msg = m /\ row'[new].status = "pending" /\ owner'[new] = a
      /\ \A c \in Cards : c # new => kind'[c] = kind[c] /\ row'[c] = row[c] /\ owner'[c] = owner[c]
  BY CardMade DEF MakeCard, TypeOK
<1>2. /\ \A q \in Procs : copy[q][new] = Blank
      /\ \A b \in Agents : new \notin mine[b]
      /\ lock[new] = NoOne /\ row[new].status # "done" /\ ran[new] = 0
      /\ \A q \in Procs : pc[q] \in Deciding => cur[q] \in Cards /\ cur[q] # new
  <2>1. ~(new <= made)
    BY <1>1, Numbers
  <2>2. \A q \in Procs : Busy(q) => pc[q] \in Deciding
    BY DEF Busy, Deciding
  <2>3. \A q \in Procs : pc[q] \in Deciding => cur[q] \in Cards /\ cur[q] # new
    BY <2>1 DEF CurMade, CurCard
  <2>4. lock[new] = NoOne
    BY <2>2, <2>3 DEF OneDecision, TypeOK
  <2>5. (\A q \in Procs : copy[q][new] = Blank) /\ (\A b \in Agents : new \notin mine[b])
    BY <2>1 DEF ReadMade, MineActions
  <2>6. row[new].status # "done" /\ ran[new] = 0
    BY <2>1, Numbers DEF Unmade, Blank
  <2> QED BY <2>3, <2>4, <2>5, <2>6
<1>3. \A q \in Procs : q # a => pc'[q] = pc[q] /\ cur'[q] = cur[q] /\ Busy(q)' = Busy(q)
  BY DEF Moves, Alone, Busy
<1>4. /\ \A c \in Cards : copy[a][c] = Blank
      /\ a \in Procs
  BY NotHolding, AgentProcs DEF Moves
<1>5. Fresh'
  BY <1>1, <1>2 DEF Fresh
<1>6. Reader'
  BY <1>1, <1>2, <1>3, <1>4 DEF Reader
<1>7. BusyCopy'
  <2>1. ASSUME NEW q \in Procs, Busy(q)'
        PROVE  cur'[q] = cur[q] /\ Busy(q) /\ cur[q] \in Cards /\ cur[q] # new
    BY <1>2, <1>3, <2>1 DEF Moves, Busy, Deciding
  <2> QED BY <1>1, <2>1 DEF BusyCopy, Open
<1>8. OwnCards'
  <2>1. ASSUME NEW b \in Agents, pc'[b] \in Deciding PROVE owner'[cur'[b]] = b
    <3>1. CASE b = a
      BY <1>1, <2>1, <3>1
    <3>2. CASE b # a
      <4>1. pc[b] \in Deciding /\ cur'[b] = cur[b] /\ b \in Procs
        BY <1>3, <2>1, <3>2, AgentProcs
      <4>2. owner[cur[b]] = b /\ cur[b] \in Cards /\ cur[b] # new
        BY <1>2, <4>1 DEF OwnCards
      <4> QED BY <1>1, <4>1, <4>2
    <3> QED BY <3>1, <3>2
  <2>2. ASSUME NEW b \in Agents, NEW c \in mine'[b]
        PROVE  owner'[c] = b /\ (pc'[b] # "attach" \/ copy'[b][c] # Blank => row'[c].msg = 0)
    <3>1. CASE c = new
      BY <1>1, <1>2, <2>2, <3>1
    <3>2. CASE c # new
      <4>1. c \in mine[b] /\ c \in Cards /\ (pc'[b] # "attach" => pc[b] # "attach")
        BY <1>1, <1>3, <2>2, <3>2, AgentProcs DEF TypeOK
      <4> QED BY <1>1, <3>2, <4>1 DEF OwnCards
    <3> QED BY <3>1, <3>2
  <2>3. ASSUME NEW b \in Agents, pc'[b] = "attach" PROVE \A c \in Cards : copy'[b][c] # Blank => c \in mine'[b]
    BY <1>3, <2>3, AgentProcs DEF OwnCards
  <2> QED BY <2>1, <2>2, <2>3 DEF OwnCards
<1>9. ReplaceOpen'
  BY <1>1, <1>2, <1>3, AgentProcs DEF ReplaceOpen, Open
<1>10. Spent' /\ RunsOnce'
  <2>1. \A c \in Cards : Carrying(c)' = Carrying(c)
    BY <1>4, CarryingKept
  <2>2. ~Carrying(new)
    BY <1>2 DEF Carrying
  <2> QED BY <1>1, <1>2, <2>1, <2>2, Numbers DEF Spent, RunsOnce
<1> QED BY <1>5, <1>6, <1>7, <1>8, <1>9, <1>10 DEF Kept

LEMMA KeptPropose == ASSUME ApartInv, NEW a \in Agents, Propose(a) PROVE Kept'
<1> USE DEF ApartInv, DiffInv, DecisionInv, At, GoTo
<1>1. Moves(a) /\ a \in Procs
  BY TurnMoves DEF Turn
<1>2. MakeCard(a, "action", 0) /\ 0 \in 0 .. MaxTurns
  BY BoundsAssumption DEF Propose
<1>3. copy' = copy /\ ran' = ran /\ crashes' = crashes
  BY DEF Propose
<1>4. /\ pc[a] \notin {"attach", "replace"} /\ pc'[a] \notin {"attach", "replace"}
      /\ pc[a] \notin Deciding
      /\ pc'[a] \in Deciding => cur'[a] = made + 1
  BY <1>1 DEF Propose, Deciding, TypeOK
<1>5. /\ \A b \in Agents : b # a => mine'[b] = mine[b]
      /\ mine'[a] = mine[a] \cup {made + 1}
  BY DEF Propose, TypeOK
<1> QED BY <1>1, <1>2, <1>3, <1>4, <1>5, KeptMakes

LEMMA KeptAddPatch == ASSUME ApartInv, NEW a \in Agents, AddPatch(a) PROVE Kept'
<1> USE DEF ApartInv, DiffInv, DecisionInv, At, GoTo
<1>1. Moves(a) /\ a \in Procs
  BY TurnMoves DEF Turn
<1>2. MakeCard(a, "patch", answer[a]) /\ answer[a] \in 0 .. MaxTurns
  BY DEF AddPatch, TypeOK
<1>3. copy' = copy /\ ran' = ran /\ crashes' = crashes /\ mine' = mine
  BY DEF AddPatch, turnVars
<1>4. /\ pc[a] \notin {"attach", "replace"} /\ pc'[a] \notin {"attach", "replace"}
      /\ pc[a] \notin Deciding
      /\ pc'[a] \in Deciding => cur'[a] = made + 1
  BY <1>1 DEF AddPatch, Deciding, TypeOK
<1> QED BY <1>1, <1>2, <1>3, <1>4, KeptMakes

\* At the end of an answer, and before a diff is replaced, an agent reads rows
\* of its own cards.
LEMMA KeptReads ==
  ASSUME ApartInv, NEW a \in Agents, Answer(a) \/ (Diff(a) /\ a \in InTree)
  PROVE  Kept'
<1> USE DEF ApartInv, DiffInv, DecisionInv, At, GoTo
<1>1. Moves(a) /\ a \in Procs
  BY TurnMoves DEF Turn
<1>2. /\ row' = row /\ kind' = kind /\ owner' = owner /\ ran' = ran /\ crashes' = crashes
      /\ made' = made /\ mine' = mine
  BY DEF Answer, Diff, cardVars, turnVars
<1>3. /\ pc[a] \in {"answering", "diff"}
      /\ pc'[a] \in {"attach", "replace"}
      /\ pc'[a] = "attach" => \A c \in Cards : copy'[a][c] # Blank => c \in mine[a]
      /\ pc'[a] = "replace" => \A c \in Cards : copy'[a][c] # Blank => Open(c) /\ owner[c] = a
      /\ \A c \in Cards : copy'[a][c] # Blank => copy'[a][c] = row[c]
  <2>1. CASE Answer(a)
    BY <1>1, <2>1 DEF Answer, Listed, TypeOK
  <2>2. CASE Diff(a) /\ a \in InTree
    <3>1. \A c \in Cards : copy'[a][c] = IF Open(c) /\ kind[c] = "patch" /\ owner[c] = a THEN row[c] ELSE Blank
      BY <1>1, <2>2 DEF Diff, TypeOK
    <3>2. pc[a] = "diff" /\ pc'[a] = "replace"
      BY <1>1, <2>2 DEF Diff, TypeOK
    <3> QED BY <3>1, <3>2
  <2> QED BY <2>1, <2>2
<1>4. \A q \in Procs : q # a => pc'[q] = pc[q] /\ cur'[q] = cur[q] /\ copy'[q] = copy[q] /\ Busy(q)' = Busy(q)
  BY <1>1 DEF Moves, Alone, Busy
<1>5. \A c \in mine[a] : owner[c] = a /\ c \in Cards /\ row[c].msg = 0
  BY <1>3 DEF OwnCards, TypeOK
<1>6. Fresh'
  BY <1>2, <1>3, <1>4 DEF Fresh
<1>7. Reader'
  <2>1. ASSUME NEW c \in Cards, copy'[a][c] # Blank PROVE owner[c] = a
    BY <1>3, <1>5, <2>1
  <2> QED BY <1>2, <1>3, <1>4, <2>1 DEF Reader
<1>8. BusyCopy'
  <2>1. ASSUME NEW q \in Procs, Busy(q)' PROVE q # a
    BY <1>1, <2>1 DEF Moves
  <2> QED BY <1>2, <1>4, <2>1 DEF BusyCopy, Open
<1>9. OwnCards'
  <2>1. ASSUME NEW b \in Agents, b # a
        PROVE  /\ pc'[b] \in Deciding => owner'[cur'[b]] = b
               /\ \A c \in mine'[b] : owner'[c] = b
               /\ \A c \in mine'[b] : pc'[b] # "attach" \/ copy'[b][c] # Blank => row'[c].msg = 0
               /\ pc'[b] = "attach" => \A c \in Cards : copy'[b][c] # Blank => c \in mine'[b]
    BY <1>2, <1>4, <2>1, AgentProcs DEF OwnCards
  <2>2. pc'[a] \notin Deciding
    BY <1>3 DEF Deciding
  <2> QED BY <1>2, <1>3, <1>5, <2>1, <2>2 DEF OwnCards
<1>10. ReplaceOpen'
  BY <1>2, <1>3, <1>4, AgentProcs DEF ReplaceOpen, Open
<1>11. Spent' /\ RunsOnce'
  BY <1>1, <1>2, CarryingKept DEF Spent, RunsOnce
<1> QED BY <1>6, <1>7, <1>8, <1>9, <1>10, <1>11 DEF Kept

\* What Attach and Replace do to the row of a card they read.
LEMMA WritesBack ==
  ASSUME ApartInv, NEW a \in Agents, Attach(a) \/ Replace(a), row' # row \/ copy' # copy
  PROVE  \E c \in Cards :
            /\ copy[a][c] # Blank /\ copy[a][c] = row[c] /\ \A d \in Cards : copy[a][d] # Blank /\ Attach(a) => c <= d
            /\ pc'[a] = pc[a] /\ mine' = mine
            /\ \A d \in Cards : d # c => row'[d] = row[d]
            /\ Attach(a) => row'[c].status = row[c].status /\ row'[c].msg = answer[a]
            /\ Replace(a) => row'[c].status = "rejected" /\ row'[c].msg = row[c].msg
            /\ \A q \in Procs, d \in Cards : copy'[q][d] = IF q = a /\ d = c THEN Blank ELSE copy[q][d]
<1> USE DEF ApartInv, DiffInv, DecisionInv, At, GoTo
<1>0. a \in Procs
  BY AgentProcs
<1>1. CASE Attach(a)
  <2>1. PICK c \in Read(a) :
        /\ \A d \in Read(a) : c <= d
        /\ row' = [row EXCEPT ![c] = [copy[a][c] EXCEPT !.msg = answer[a]]]
        /\ Forget(a, c)
        /\ UNCHANGED <<pc, mine>>
    BY <1>1 DEF Attach
  <2>2. c \in Cards /\ copy[a][c] # Blank /\ copy[a][c] = row[c] /\ row[c] \in Row
    BY <1>0, <2>1 DEF Read, Fresh, TypeOK
  <2>3. row'[c].status = row[c].status /\ row'[c].msg = answer[a]
    BY <2>1, <2>2 DEF TypeOK, Row
  <2>4. ~Replace(a)
    BY <1>1 DEF Attach, Replace
  <2> QED BY <1>0, <2>1, <2>2, <2>3, <2>4, ForgetCopy DEF Read, TypeOK
<1>2. CASE Replace(a)
  <2>1. PICK c \in Read(a) : row' = [row EXCEPT ![c].status = "rejected"] /\ Forget(a, c) /\ pc' = pc
    BY <1>2 DEF Replace
  <2>2. c \in Cards /\ copy[a][c] # Blank /\ copy[a][c] = row[c] /\ row[c] \in Row
    BY <1>0, <2>1 DEF Read, Fresh, TypeOK
  <2>3. row'[c].status = "rejected" /\ row'[c].msg = row[c].msg
    BY <2>1, <2>2 DEF TypeOK, Row
  <2>4. ~Attach(a) /\ mine' = mine
    BY <1>2 DEF Attach, Replace, turnVars
  <2> QED BY <1>0, <2>1, <2>2, <2>3, <2>4, ForgetCopy DEF TypeOK
<1> QED BY <1>1, <1>2

LEMMA KeptWrites ==
  ASSUME ApartInv, NEW a \in Agents, Attach(a) \/ Replace(a)
  PROVE  Kept'
<1> USE DEF ApartInv, DiffInv, DecisionInv, At, GoTo
<1>0. /\ a \in Procs /\ Moves(a) /\ pc[a] \in {"attach", "replace"} /\ pc[a] \notin Deciding
      /\ pc[a] = "attach" <=> Attach(a)
      /\ pc[a] = "replace" <=> Replace(a)
  BY TurnMoves DEF Attach, Replace, Turn, Deciding
<1>1. /\ kind' = kind /\ owner' = owner /\ ran' = ran /\ crashes' = crashes
  BY DEF Attach, Replace, cardVars
<1>2. \A q \in Procs : q # a => pc'[q] = pc[q] /\ cur'[q] = cur[q] /\ copy'[q] = copy[q] /\ Busy(q)' = Busy(q)
  BY <1>0 DEF Moves, Alone, Busy
<1>3. \A c \in Cards : Carrying(c)' = Carrying(c)
  BY <1>0, CarryingKept
<1>4. CASE row' = row /\ copy' = copy
  <2>1. Read(a) = {} /\ pc'[a] \in {"diff", "add"} /\ \A b \in Agents : mine'[b] \subseteq mine[b] /\ (b # a => mine'[b] = mine[b])
    <3>1. ASSUME NEW c \in Read(a), Forget(a, c) PROVE FALSE
      <4>1. c \in Cards /\ copy[a][c] # Blank /\ copy'[a][c] = Blank
        BY <1>0, <3>1, ForgetCopy DEF Read
      <4> QED BY <1>4, <4>1
    <3> QED BY <1>0, <3>1 DEF Attach, Replace, turnVars, TypeOK
  <2>2. \A c \in Cards : copy[a][c] = Blank
    BY <2>1 DEF Read
  <2>3. Fresh' /\ Reader'
    BY <1>1, <1>2, <1>4, <2>2 DEF Fresh, Reader
  <2>4. BusyCopy'
    <3>1. ASSUME NEW q \in Procs, Busy(q)' PROVE q # a
      BY <1>0, <3>1 DEF Moves
    <3> QED BY <1>2, <1>4, <3>1 DEF BusyCopy, Open
  <2>5. OwnCards'
    <3>1. ASSUME NEW b \in Agents, pc'[b] \in Deciding PROVE owner'[cur'[b]] = b
      BY <1>1, <1>2, <2>1, <3>1, AgentProcs DEF OwnCards, Deciding
    <3>2. ASSUME NEW b \in Agents, b # a
          PROVE  /\ \A c \in mine'[b] : owner'[c] = b
                 /\ \A c \in mine'[b] : pc'[b] # "attach" \/ copy'[b][c] # Blank => row'[c].msg = 0
                 /\ pc'[b] = "attach" => \A c \in Cards : copy'[b][c] # Blank => c \in mine'[b]
      BY <1>1, <1>2, <1>4, <2>1, <3>2, AgentProcs DEF OwnCards
    <3>3. CASE Attach(a)
      <4>1. mine'[a] = {}
        <5>1. mine' = [mine EXCEPT ![a] = {}]
          BY <2>1, <3>3 DEF Attach
        <5> QED BY <5>1 DEF TypeOK
      <4> QED BY <2>1, <3>1, <3>2, <4>1 DEF OwnCards
    <3>4. CASE Replace(a)
      <4>1. mine' = mine /\ \A c \in mine[a] : owner[c] = a /\ row[c].msg = 0
        BY <1>0, <3>4 DEF OwnCards, Replace, turnVars
      <4> QED BY <1>1, <1>4, <2>1, <3>1, <3>2, <4>1 DEF OwnCards
    <3> QED BY <3>3, <3>4
  <2>6. ReplaceOpen'
    BY <1>2, <1>4, <2>1, AgentProcs DEF ReplaceOpen, Open
  <2>7. Spent' /\ RunsOnce'
    BY <1>1, <1>3, <1>4 DEF Spent, RunsOnce
  <2> QED BY <2>3, <2>4, <2>5, <2>6, <2>7 DEF Kept
<1>5. CASE row' # row \/ copy' # copy
  <2>1. PICK card \in Cards :
        /\ copy[a][card] # Blank
        /\ pc'[a] = pc[a] /\ mine' = mine
        /\ \A d \in Cards : d # card => row'[d] = row[d]
        /\ Attach(a) => row'[card].status = row[card].status
        /\ Replace(a) => row'[card].status = "rejected" /\ row'[card].msg = row[card].msg
        /\ \A q \in Procs, d \in Cards : copy'[q][d] = IF q = a /\ d = card THEN Blank ELSE copy[q][d]
    BY <1>5, WritesBack
  <2>2. \A q \in Procs : q # a => copy[q][card] = Blank
    BY <1>0, <2>1, OneHolder
  <2>3. owner[card] = a /\ ~Carrying(card)
    <3>1. lock[card] = NoOne
      <4>1. lock[card] # a
        BY <1>0, ProcsAssumption DEF Moves, OneDecision
      <4> QED BY <1>0, <2>1, <4>1, HolderLock
    <3> QED BY <1>0, <2>1, <3>1 DEF Reader, Busy, Carrying
  <2>4. Fresh'
    BY <2>1, <2>2 DEF Fresh
  <2>5. Reader'
    BY <1>0, <1>1, <1>2, <2>1 DEF Reader, Moves
  <2>6. BusyCopy'
    <3>1. ASSUME NEW q \in Procs, Busy(q)'
          PROVE  q # a /\ Busy(q) /\ cur'[q] = cur[q] /\ cur[q] \in Cards /\ cur[q] # card
      <4>1. q # a /\ Busy(q) /\ cur'[q] = cur[q]
        BY <1>0, <1>2, <3>1 DEF Moves
      <4>2. cur[q] \in Cards /\ copy[q][cur[q]] # Blank
        BY <4>1 DEF BusyCopy, CurCard, Busy, Deciding
      <4> QED BY <2>2, <4>1, <4>2
    <3> QED BY <2>1, <3>1 DEF BusyCopy, Open
  <2>7. OwnCards'
    <3>1. ASSUME NEW b \in Agents, pc'[b] \in Deciding PROVE owner'[cur'[b]] = b
      <4>1. b # a
        BY <1>0, <2>1, <3>1
      <4> QED BY <1>1, <1>2, <3>1, <4>1, AgentProcs DEF OwnCards
    <3>2. ASSUME NEW b \in Agents, NEW c \in mine[b], pc'[b] # "attach" \/ copy'[b][c] # Blank
          PROVE  row'[c].msg = 0
      <4>1. c \in Cards /\ pc'[b] = pc[b] /\ owner[c] = b
        BY <1>2, <2>1, <3>2, AgentProcs DEF TypeOK, OwnCards
      <4>2. row[c].msg = 0
        BY <2>1, <3>2, <4>1, AgentProcs DEF OwnCards
      <4>3. CASE c = card /\ Attach(a)
        <5>1. b = a /\ copy'[b][c] = Blank
          BY <1>0, <2>1, <2>3, <4>1, <4>3
        <5> QED BY <1>0, <3>2, <4>1, <4>3, <5>1
      <4> QED BY <2>1, <4>1, <4>2, <4>3
    <3>3. ASSUME NEW b \in Agents, pc'[b] = "attach" PROVE \A c \in Cards : copy'[b][c] # Blank => c \in mine[b]
      BY <1>2, <2>1, <3>3, AgentProcs DEF OwnCards
    <3>4. \A b \in Agents : \A c \in mine[b] : owner[c] = b
      BY DEF OwnCards
    <3> QED BY <1>1, <2>1, <3>1, <3>2, <3>3, <3>4 DEF OwnCards
  <2>8. ReplaceOpen'
    <3>1. ASSUME NEW b \in Agents, NEW c \in Cards, pc'[b] = "replace", copy'[b][c] # Blank
          PROVE  pc[b] = "replace" /\ copy[b][c] # Blank /\ c # card
      BY <1>2, <2>1, <2>2, <3>1, AgentProcs
    <3> QED BY <2>1, <3>1 DEF ReplaceOpen, Open
  <2>9. Spent' /\ RunsOnce'
    <3>1. row'[card].status # "done" => row[card].status # "done"
      BY <1>0, <2>1 DEF ReplaceOpen, Open
    <3>2. row'[card].status = "done" => row[card].status = "done"
      BY <2>1
    <3> QED BY <1>1, <1>3, <2>1, <2>3, <3>1, <3>2 DEF Spent, RunsOnce
  <2> QED BY <2>4, <2>5, <2>6, <2>7, <2>8, <2>9 DEF Kept
<1> QED BY <1>4, <1>5

LEMMA KeptCrash == ASSUME ApartInv, Crash PROVE Kept'
<1> USE DEF ApartInv, DiffInv, DecisionInv
<1>1. /\ row' = row /\ owner' = owner /\ ran' = ran /\ crashes' = crashes + 1
      /\ \A p \in Procs : pc'[p] = "idle" /\ \A c \in Cards : copy'[p][c] = Blank
      /\ \A a \in Agents : mine'[a] = {}
      /\ \A c \in Cards : lock'[c] = NoOne
  BY DEF Crash, cardVars
<1>2. Fresh' /\ Reader' /\ BusyCopy' /\ OwnCards' /\ ReplaceOpen'
  BY <1>1, AgentProcs DEF Fresh, Reader, BusyCopy, OwnCards, ReplaceOpen, Busy, Deciding
<1>3. RunsOnce' /\ Spent'
  BY <1>1, Numbers DEF Spent, RunsOnce, Carrying
<1> QED BY <1>2, <1>3 DEF Kept

LEMMA StepKept == ASSUME ApartInv, [Next]_vars PROVE Kept'
<1> USE DEF ApartInv, DiffInv, DecisionInv
<1>1. ASSUME NEW c \in Cards, Clicks(c) PROVE Kept'
  BY <1>1, LooksClick, KeptLooks DEF Clicks
<1>2. ASSUME NEW p \in Procs, Decision(p) PROVE Kept'
  BY <1>2, LooksDecision, KeptLooks, KeptBegins, KeptEnds DEF Decision
<1>3. ASSUME DrainStart \/ DrainList \/ DrainAgain PROVE Kept'
  BY <1>3, LooksDrain, KeptLooks, AgentProcs
<1>4. ASSUME NEW a \in Agents, Turn(a) PROVE Kept'
  BY <1>4, LooksTurn, KeptLooks, KeptPropose, KeptAddPatch, KeptReads, KeptWrites, AgentProcs DEF Turn
<1>5. CASE UNCHANGED vars
  BY <1>5 DEF vars, cardVars, turnVars, Kept, Fresh, Reader, BusyCopy, Busy, OwnCards, ReplaceOpen, Open, Spent, Carrying, RunsOnce
<1> QED BY <1>1, <1>2, <1>3, <1>4, <1>5, KeptCrash DEF Next

LEMMA StepDiff == ASSUME DiffInv, [Next]_vars PROVE DiffInv'
  BY StepTypes, StepCur, StepDecision, StepMade, StepMine, StepUnspent DEF DiffInv, DecisionInv

LEMMA StepApartInv == ASSUME Overlap = {}, ApartInv, [Next]_vars PROVE ApartInv'
<1>1. DiffInv' /\ Apart' /\ Kept'
  BY StepDiff, StepApart, StepKept DEF ApartInv
<1> QED BY <1>1 DEF ApartInv, Kept

\* "Only one decision of an action runs" (actions.Decide): while people and
\* agents take turns, every card, operation or diff, is carried out once at
\* most each time office comes up, whatever requests of people race.
THEOREM RunsOnceHolds == ASSUME Overlap = {} PROVE Spec => []RunsOnce
<1>1. ApartInv /\ [Next]_vars => ApartInv'
  BY StepApartInv
<1>2. ApartInv => RunsOnce
  BY DEF ApartInv
<1> QED BY InitApart, <1>1, <1>2, PTL DEF Spec

\* A row never lies (DecideEnd's write): what it says is done was carried out;
\* what it says is rejected was not, but before office last went down.
THEOREM RecordTrueHolds == ASSUME Overlap = {} PROVE Spec => []RecordTrue
<1>1. ApartInv /\ [Next]_vars => ApartInv'
  BY StepApartInv
<1>2. ApartInv => RecordTrue
  <2> SUFFICES ASSUME ApartInv PROVE RecordTrue
    OBVIOUS
  <2>2. ASSUME NEW c \in Cards, row[c].status = "rejected" PROVE ~Carrying(c)
    <3>1. ASSUME lock[c] # NoOne PROVE FALSE
      <4>1. lock[c] \in Procs /\ Busy(lock[c]) /\ cur[lock[c]] = c
        BY <3>1 DEF ApartInv, DiffInv, DecisionInv, TypeOK, OneDecision
      <4> QED BY <2>2, <4>1 DEF ApartInv, BusyCopy, Open
    <3> QED BY <3>1 DEF Carrying
  <2> QED BY <2>2 DEF ApartInv, Spent, RecordTrue
<1> QED BY InitApart, <1>1, <1>2, PTL DEF Spec

\* What a step does to the rows there are: it opens none, and gives a number
\* only to one that an agent attaches to its answer.
LEMMA RowSteps ==
  ASSUME ApartInv, [Next]_vars
  PROVE  /\ made' \in {made, made + 1}
         /\ \A c \in Cards : c <= made =>
              /\ kind'[c] = kind[c] /\ owner'[c] = owner[c]
              /\ Open(c)' => Open(c)
              /\ row[c].status # "none" => row'[c].status # "none"
              /\ \/ row'[c].msg = row[c].msg
                 \/ \E a \in Agents : pc[a] = "attach" /\ copy[a][c] # Blank /\ row[c].msg = 0
<1> USE DEF ApartInv, DiffInv, DecisionInv, At, GoTo
<1> DEFINE Goal == /\ made' \in {made, made + 1}
                   /\ \A c \in Cards : c <= made =>
                        /\ kind'[c] = kind[c] /\ owner'[c] = owner[c]
                        /\ Open(c)' => Open(c)
                        /\ row[c].status # "none" => row'[c].status # "none"
                        /\ \/ row'[c].msg = row[c].msg
                           \/ \E a \in Agents : pc[a] = "attach" /\ copy[a][c] # Blank /\ row[c].msg = 0
<1>1. ASSUME row' = row, kind' = kind, owner' = owner, made' = made PROVE Goal
  BY <1>1 DEF Open
<1>2. ASSUME NEW c \in Cards, Clicks(c) PROVE Goal
  BY <1>1, <1>2 DEF Clicks, Click, cardVars
<1>3. ASSUME NEW p \in Procs, Get(p) \/ CheckOrder(p) \/ Refused(p) \/ QueueBegin(p) \/ DecideBegin(p) PROVE Goal
  BY <1>1, <1>3 DEF Get, CheckOrder, Refused, QueueBegin, DecideBegin, Begin, cardVars
<1>4. ASSUME NEW p \in Procs, QueueEnd(p) \/ DecideEnd(p) PROVE Goal
  <2>1. kind' = kind /\ owner' = owner /\ made' = made
    BY <1>4 DEF QueueEnd, DecideEnd, cardVars
  <2>2. /\ Open(cur[p]) /\ \A d \in Cards : d # cur[p] => row'[d] = row[d]
        /\ row'[cur[p]].msg = row[cur[p]].msg
        /\ row'[cur[p]].status # "none"
    BY <1>4, EndsRow DEF Outcome
  <2> QED BY <2>1, <2>2 DEF Open
<1>5. ASSUME DrainStart \/ DrainList \/ DrainAgain \/ Crash PROVE Goal
  BY <1>1, <1>5 DEF DrainStart, DrainList, DrainAgain, Crash, cardVars
<1>6. ASSUME NEW a \in Agents, Turn(a) PROVE Goal
  <2>1. CASE TurnStart(a) \/ TurnFail(a) \/ Answer(a) \/ Diff(a) \/ TurnEnd(a)
    BY <1>1, <2>1 DEF TurnStart, TurnFail, Answer, Diff, TurnEnd, cardVars
  <2>2. CASE Propose(a) \/ AddPatch(a)
    <3>1. PICK k \in {"action", "patch"}, m \in 0 .. MaxTurns : MakeCard(a, k, m)
      BY <2>2, BoundsAssumption DEF Propose, AddPatch, TypeOK
    <3>0. \A c \in Cards : c <= made => c # made + 1
      BY Numbers
    <3>2. made' = made + 1 /\ \A c \in Cards : c <= made => kind'[c] = kind[c] /\ row'[c] = row[c]
      BY <3>0, <3>1, CardMade
    <3>3. \A c \in Cards : c <= made => owner'[c] = owner[c]
      BY <3>0, <3>1 DEF MakeCard, TypeOK
    <3> QED BY <3>2, <3>3 DEF Open
  <2>3. CASE Attach(a) \/ Replace(a)
    <3>1. kind' = kind /\ owner' = owner /\ made' = made
      BY <2>3 DEF Attach, Replace, cardVars
    <3>2. CASE row' # row \/ copy' # copy
      <4>1. PICK c \in Cards :
            /\ copy[a][c] # Blank
            /\ \A d \in Cards : d # c => row'[d] = row[d]
            /\ Attach(a) => row'[c].status = row[c].status
            /\ Replace(a) => row'[c].status = "rejected" /\ row'[c].msg = row[c].msg
        BY <2>3, <3>2, WritesBack
      <4>2. Attach(a) => pc[a] = "attach" /\ row[c].msg = 0
        BY <4>1, AgentProcs DEF Attach, OwnCards
      <4>3. Open(c)' => Open(c)
        BY <2>3, <4>1 DEF Open
      <4> QED BY <2>3, <3>1, <4>1, <4>2, <4>3 DEF Open
    <3> QED BY <1>1, <3>1, <3>2
  <2> QED BY <1>6, <2>1, <2>2, <2>3 DEF Turn
<1>7. CASE UNCHANGED vars
  BY <1>1, <1>7 DEF vars, cardVars
<1> QED BY <1>2, <1>3, <1>4, <1>5, <1>6, <1>7 DEF Next, Decision
=============================================================================
