-------------------------- MODULE ProposalsProofs --------------------------
(***************************************************************************)
(* What holds of the cards of a chat however many agents, people, cards,   *)
(* turns and restarts there are, and however they overlap: types, one      *)
(* decision of a card at a time, a diff applied once.                      *)
(***************************************************************************)
EXTENDS Proposals, TLAPS

Deciding == {"get", "check", "queue", "queueing", "decide", "deciding"}

\* A decision is about a card.
CurCard == \A p \in Procs : pc[p] \in Deciding => cur[p] \in Cards

\* A card that nobody made has an empty row, and nobody decides, read or ran it.
CurMade == \A p \in Procs : pc[p] \in Deciding => cur[p] <= made
Unmade == \A c \in Cards : c > made => row[c] = Blank /\ ran[c] = 0
ReadMade == \A p \in Procs, c \in Cards : copy[p][c] # Blank => c <= made

\* What an agent lists at the end of its turn are operations, never diffs: so
\* only chat.DecidePatch and QueuePatch write the status of a diff, which is
\* in the row (not in a copy) when they do.
MineActions == \A a \in Agents, c \in Cards :
    c \in mine[a] \/ (pc[a] = "attach" /\ copy[a][c] # Blank) => c <= made /\ kind[c] = "action"

\* A diff that is open was not applied since office came up, but for the
\* decision that applies it now.
OpenUnspent == \A c \in Cards :
    kind[c] = "patch" /\ Open(c) /\ ~Carrying(c) => ran[c] <= crashes

DecisionInv == TypeOK /\ CurCard /\ OneDecision
DiffInv == DecisionInv /\ CurMade /\ Unmade /\ ReadMade /\ MineActions /\ OpenUnspent /\ DiffsOnce

-----------------------------------------------------------------------------
LEMMA InitDecision == Init => DecisionInv
  BY ProcsAssumption, BoundsAssumption
  DEF Init, DecisionInv, TypeOK, CurCard, OneDecision, Cards, Procs, People, Row, Status, Blank,
         Locations, Busy, Deciding, None

\* What Write leaves: a row of the same shape with the status it was given.
LEMMA WriteRow ==
  ASSUME TypeOK, NEW p \in Procs, NEW c \in Cards, NEW s \in Status, Write(p, c, s)
  PROVE  /\ row' \in [Cards -> Row]
         /\ \A d \in Cards : d # c => row'[d] = row[d]
         /\ row'[c].status = s
<1>1. row \in [Cards -> Row] /\ copy[p][c] \in Row /\ row[c] \in Row
  BY DEF TypeOK
<1>2. PICK r \in Row : row' = [row EXCEPT ![c] = r] /\ r.status = s
  <2>1. CASE kind[c] = "action"
    <3>1. row' = [row EXCEPT ![c] = [copy[p][c] EXCEPT !.status = s]]
      BY <2>1 DEF Write
    <3>2. [copy[p][c] EXCEPT !.status = s] \in Row /\ [copy[p][c] EXCEPT !.status = s].status = s
      BY <1>1 DEF Row
    <3> QED BY <3>1, <3>2
  <2>2. CASE kind[c] # "action"
    <3>1. row' = [row EXCEPT ![c] = [row[c] EXCEPT !.status = s]]
      BY <2>2 DEF Write
    <3>2. [row[c] EXCEPT !.status = s] \in Row /\ [row[c] EXCEPT !.status = s].status = s
      BY <1>1 DEF Row
    <3> QED BY <3>1, <3>2
  <2> QED BY <2>1, <2>2
<1> QED
  BY <1>1, <1>2

\* A process forgets a row it read.
LEMMA ForgetCopy ==
  ASSUME TypeOK, NEW p \in Procs, NEW c \in Cards, Forget(p, c)
  PROVE  /\ copy' \in [Procs -> [Cards -> Row]]
         /\ \A q \in Procs, d \in Cards : copy'[q][d] = IF q = p /\ d = c THEN Blank ELSE copy[q][d]
<1>1. Blank \in Row
  BY BoundsAssumption DEF Blank, Row, Status
<1>2. copy' = [copy EXCEPT ![p] = [copy[p] EXCEPT ![c] = Blank]]
  BY DEF Forget
<1>3. copy[p] \in [Cards -> Row] /\ copy \in [Procs -> [Cards -> Row]]
  BY DEF TypeOK
<1>4. [copy[p] EXCEPT ![c] = Blank] \in [Cards -> Row]
  BY <1>1, <1>3
<1> QED
  BY <1>2, <1>3, <1>4

\* Where a decision leaves its process.
LEMMA OverTypes ==
  ASSUME TypeOK, CurCard, NEW p \in Procs, pc[p] \in Deciding, Over(p)
  PROVE  /\ pc' \in [Procs -> Locations]
         /\ cur' \in [Procs -> Cards \cup {None}]
         /\ approve' \in [Procs -> BOOLEAN]
         /\ copy' \in [Procs -> [Cards -> Row]]
<1>1. kind[cur[p]] \in {"action", "patch"}
  BY DEF TypeOK, CurCard
<1>2. Home(p) \in Locations
  BY <1>1 DEF Home, Locations, Procs
<1>3. Blank \in Row
  BY BoundsAssumption DEF Blank, Row, Status
<1> QED
  BY <1>2, <1>3 DEF Over, GoTo, TypeOK

LEMMA StepTypes == ASSUME TypeOK, CurCard, [Next]_vars PROVE TypeOK'
<1>1. ASSUME NEW c \in Cards, NEW p \in People, NEW yes \in BOOLEAN, Click(p, c, yes) PROVE TypeOK'
  BY <1>1 DEF Click, cardVars, turnVars, GoTo, Procs, TypeOK, Locations
<1>2. ASSUME NEW p \in Procs, Get(p) PROVE TypeOK'
  <2>1. pc[p] \in Deciding
    BY <1>2 DEF Get, At, Deciding
  <2>2. CASE Over(p)
    BY <1>2, <2>1, <2>2, OverTypes DEF Get, cardVars, turnVars, TypeOK
  <2>3. CASE ~Over(p)
    BY <1>2, <2>3 DEF Get, cardVars, turnVars, TypeOK, GoTo, Locations
  <2> QED BY <2>2, <2>3
<1>3. ASSUME NEW p \in Procs, CheckOrder(p) PROVE TypeOK'
  BY <1>3 DEF CheckOrder, cardVars, turnVars, GoTo, TypeOK, Locations
<1>4. ASSUME NEW p \in Procs, Refused(p) PROVE TypeOK'
  <2>1. pc[p] \in Deciding
    BY <1>4 DEF Refused, At, Deciding
  <2> QED BY <1>4, <2>1, OverTypes DEF Refused, cardVars, turnVars, TypeOK
<1>5. ASSUME NEW p \in Procs, QueueBegin(p) PROVE TypeOK'
  BY <1>5 DEF QueueBegin, Begin, At, cardVars, turnVars, GoTo, TypeOK, Locations, CurCard, Deciding
<1>6. ASSUME NEW p \in Procs, DecideBegin(p) PROVE TypeOK'
  BY <1>6 DEF DecideBegin, Begin, At, cardVars, turnVars, GoTo, TypeOK, Locations, CurCard, Deciding
<1>7. ASSUME NEW p \in Procs, QueueEnd(p) PROVE TypeOK'
  <2>1. pc[p] \in Deciding /\ cur[p] \in Cards
    BY <1>7 DEF QueueEnd, At, Deciding, CurCard
  <2>2. row' \in [Cards -> Row]
    BY <1>7, <2>1, WriteRow DEF QueueEnd, TypeOK, Status
  <2>3. lock' \in [Cards -> Procs \cup {NoOne}]
    BY <1>7 DEF QueueEnd, TypeOK
  <2>4. drains' \in Nat
    BY <1>7 DEF QueueEnd, TypeOK
  <2> QED BY <1>7, <2>1, <2>2, <2>3, <2>4, OverTypes DEF QueueEnd, cardVars, turnVars, TypeOK
<1>8. ASSUME NEW p \in Procs, DecideEnd(p) PROVE TypeOK'
  <2>1. pc[p] \in Deciding /\ cur[p] \in Cards
    BY <1>8 DEF DecideEnd, At, Deciding, CurCard
  <2>2. row' \in [Cards -> Row]
    BY <1>8, <2>1, WriteRow DEF DecideEnd, Outcome, Status
  <2>3. lock' \in [Cards -> Procs \cup {NoOne}]
    BY <1>8 DEF DecideEnd, TypeOK
  <2>4. drains' \in Nat
    BY <1>8 DEF DecideEnd, TypeOK
  <2> QED BY <1>8, <2>1, <2>2, <2>3, <2>4, OverTypes DEF DecideEnd, cardVars, turnVars, TypeOK
<1>9. ASSUME DrainStart \/ DrainList \/ DrainAgain PROVE TypeOK'
  <2>1. Drainer \in Procs
    BY DEF Procs
  <2>2. CASE DrainStart
    BY <2>1, <2>2 DEF DrainStart, cardVars, turnVars, GoTo, TypeOK, Locations
  <2>3. CASE DrainList
    <3>1. PICK l \in Locations, c \in Cards \cup {None} :
             pc' = [pc EXCEPT ![Drainer] = l] /\ cur' = [cur EXCEPT ![Drainer] = c]
      BY <2>3 DEF DrainList, GoTo, Locations
    <3>2. cur' \in [Procs -> Cards \cup {None}] /\ pc' \in [Procs -> Locations]
      BY <2>1, <3>1 DEF TypeOK
    <3> QED BY <2>3, <3>2 DEF DrainList, cardVars, turnVars, TypeOK
  <2>4. CASE DrainAgain
    BY <2>1, <2>4 DEF DrainAgain, cardVars, turnVars, GoTo, TypeOK, Locations
  <2> QED BY <1>9, <2>2, <2>3, <2>4
<1>10. ASSUME NEW a \in Agents, Turn(a) PROVE TypeOK'
  <2>0. a \in Procs
    BY DEF Procs
  <2>1. ASSUME NEW k \in {"action", "patch"}, NEW m \in 0 .. MaxTurns, MakeCard(a, k, m)
        PROVE  /\ made' \in 0 .. MaxCards
               /\ made + 1 \in Cards
               /\ kind' \in [Cards -> {"action", "patch"}]
               /\ owner' \in [Cards -> Agents \cup {NoOne}]
               /\ row' \in [Cards -> Row]
    BY <2>1, BoundsAssumption DEF MakeCard, TypeOK, Cards, Row, Status
  <2>2. CASE TurnStart(a)
    BY <2>0, <2>2, BoundsAssumption DEF TurnStart, cardVars, GoTo, TypeOK, Locations
  <2>3. CASE Propose(a)
    <3>1. MakeCard(a, "action", 0) /\ 0 \in 0 .. MaxTurns
      BY <2>3, BoundsAssumption DEF Propose
    <3>2. made + 1 \in Cards /\ UNCHANGED <<lock, approve, copy, msgs, answer, turns, drains, crashes, ran>>
      BY <2>1, <2>3, <3>1 DEF Propose
    <3>3. mine' \in [Agents -> SUBSET Cards] /\ pc' \in [Procs -> Locations] /\ cur' \in [Procs -> Cards \cup {None}]
      <4>1. mine' \in [Agents -> SUBSET Cards]
        <5>1. mine[a] \cup {made + 1} \in SUBSET Cards
          BY <3>2 DEF TypeOK
        <5> QED BY <2>3, <5>1 DEF Propose, TypeOK
      <4>2. cur' \in [Procs -> Cards \cup {None}]
        BY <2>0, <2>3, <3>2 DEF Propose, TypeOK
      <4>3. pc' \in [Procs -> Locations]
        BY <2>0, <2>3 DEF Propose, GoTo, TypeOK, Locations
      <4> QED BY <4>1, <4>2, <4>3
    <3> QED BY <2>1, <3>1, <3>2, <3>3 DEF TypeOK
  <2>4. CASE TurnFail(a)
    BY <2>0, <2>4 DEF TurnFail, cardVars, GoTo, TypeOK, Locations
  <2>5. CASE Answer(a)
    <3>1. copy' \in [Procs -> [Cards -> Row]]
      BY <2>0, <2>5, BoundsAssumption DEF Answer, TypeOK, Row, Status, Blank
    <3> QED BY <2>0, <2>5, <3>1, BoundsAssumption DEF Answer, cardVars, GoTo, TypeOK, Locations
  <2>6. CASE Attach(a)
    <3>1. row' \in [Cards -> Row]
      <4>1. ASSUME NEW c \in Cards, row' = [row EXCEPT ![c] = [copy[a][c] EXCEPT !.msg = answer[a]]]
            PROVE  row' \in [Cards -> Row]
        <5>1. [copy[a][c] EXCEPT !.msg = answer[a]] \in Row
          <6>1. copy[a][c] \in Row /\ answer[a] \in 0 .. MaxTurns
            BY <2>0 DEF TypeOK
          <6> QED BY <6>1 DEF Row
        <5> QED BY <4>1, <5>1 DEF TypeOK
      <4>2. CASE Read(a) = {} /\ row' = row
        BY <4>2 DEF TypeOK
      <4>3. CASE \E c \in Read(a) : row' = [row EXCEPT ![c] = [copy[a][c] EXCEPT !.msg = answer[a]]]
        BY <4>1, <4>3 DEF Read
      <4> QED BY <2>6, <4>2, <4>3 DEF Attach
    <3>2. copy' \in [Procs -> [Cards -> Row]]
      BY <2>0, <2>6, ForgetCopy DEF Attach, Read, TypeOK
    <3> QED BY <2>0, <2>6, <3>1, <3>2 DEF Attach, cardVars, GoTo, TypeOK, Locations
  <2>7. CASE Diff(a)
    <3>1. copy' \in [Procs -> [Cards -> Row]]
      <4>1. Blank \in Row /\ \A c \in Cards : row[c] \in Row
        BY BoundsAssumption DEF TypeOK, Row, Status, Blank
      <4>2. PICK rows \in [Cards -> Row] : copy' = [copy EXCEPT ![a] = rows] \/ copy' = copy
        <5> DEFINE listed == [c \in Cards |->
                     IF Open(c) /\ kind[c] = "patch" /\ owner[c] = a THEN row[c] ELSE Blank]
        <5>1. listed \in [Cards -> Row]
          BY <4>1
        <5>2. copy' = [copy EXCEPT ![a] = listed] \/ copy' = copy
          BY <2>7 DEF Diff
        <5> HIDE DEF listed
        <5> QED BY <5>1, <5>2
      <4> QED BY <2>0, <4>2 DEF TypeOK
    <3> QED BY <2>0, <2>7, <3>1 DEF Diff, cardVars, turnVars, GoTo, TypeOK, Locations
  <2>8. CASE Replace(a)
    <3>1. row' \in [Cards -> Row]
      <4>1. ASSUME NEW c \in Cards, row' = [row EXCEPT ![c].status = "rejected"]
            PROVE  row' \in [Cards -> Row]
        <5>1. [row[c] EXCEPT !.status = "rejected"] \in Row
          <6>1. row[c] \in Row
            BY DEF TypeOK
          <6> QED BY <6>1 DEF Row, Status
        <5> QED BY <4>1, <5>1 DEF TypeOK
      <4>2. CASE Read(a) = {} /\ row' = row
        BY <4>2 DEF TypeOK
      <4>3. CASE \E c \in Read(a) : row' = [row EXCEPT ![c].status = "rejected"]
        BY <4>1, <4>3 DEF Read
      <4> QED BY <2>8, <4>2, <4>3 DEF Replace
    <3>2. copy' \in [Procs -> [Cards -> Row]]
      BY <2>0, <2>8, ForgetCopy DEF Replace, Read, TypeOK
    <3> QED BY <2>0, <2>8, <3>1, <3>2 DEF Replace, cardVars, turnVars, GoTo, TypeOK, Locations
  <2>9. CASE AddPatch(a)
    <3>1. MakeCard(a, "patch", answer[a]) /\ answer[a] \in 0 .. MaxTurns
      BY <2>9 DEF AddPatch, TypeOK
    <3>2. made + 1 \in Cards /\ UNCHANGED <<lock, approve, copy, turnVars, drains, crashes, ran>>
      BY <2>1, <2>9, <3>1 DEF AddPatch
    <3>3. cur' \in [Procs -> Cards \cup {None}]
      BY <2>0, <2>9, <3>2 DEF AddPatch, TypeOK
    <3>4. PICK l \in Locations : pc' = [pc EXCEPT ![a] = l]
      BY <2>9 DEF AddPatch, GoTo, Locations
    <3>5. pc' \in [Procs -> Locations]
      BY <2>0, <3>4 DEF TypeOK
    <3> QED BY <2>1, <3>1, <3>2, <3>3, <3>5 DEF TypeOK, turnVars
  <2>10. CASE TurnEnd(a)
    BY <2>0, <2>10 DEF TurnEnd, cardVars, turnVars, GoTo, TypeOK, Locations
  <2> QED BY <1>10, <2>2, <2>3, <2>4, <2>5, <2>6, <2>7, <2>8, <2>9, <2>10 DEF Turn
<1>11. ASSUME Crash PROVE TypeOK'
  BY <1>11, BoundsAssumption DEF Crash, cardVars, TypeOK, Locations, Row, Status, Blank, None
<1>12. ASSUME UNCHANGED vars PROVE TypeOK'
  BY <1>12 DEF vars, cardVars, turnVars, TypeOK
<1> QED
  BY <1>1, <1>2, <1>3, <1>4, <1>5, <1>6, <1>7, <1>8, <1>9, <1>10, <1>11, <1>12 DEF Next, Clicks, Decision

-----------------------------------------------------------------------------
\* Every step is one of these: a process that does not hold a card moves, it
\* begins a decision, it ends one; or office goes down.
Alone(p) == \A q \in Procs \ {p} :
    pc'[q] = pc[q] /\ cur'[q] = cur[q] /\ approve'[q] = approve[q] /\ copy'[q] = copy[q]
Moves(p) == Alone(p) /\ ~Busy(p) /\ ~Busy(p)' /\ lock' = lock
Begins(p) ==
    /\ Alone(p) /\ ~Busy(p) /\ Busy(p)'
    /\ cur[p] \in Cards /\ cur'[p] = cur[p] /\ approve'[p] = approve[p]
    /\ lock[cur[p]] = NoOne /\ lock' = [lock EXCEPT ![cur[p]] = p]
Ends(p) ==
    /\ Alone(p) /\ Busy(p) /\ ~Busy(p)'
    /\ lock' = [lock EXCEPT ![cur[p]] = NoOne]

LEMMA OverAlone ==
  ASSUME TypeOK, CurCard, NEW p \in Procs, pc[p] \in Deciding, Over(p)
  PROVE  Alone(p) /\ ~Busy(p)' /\ pc'[p] \notin Deciding
<1>1. kind[cur[p]] \in {"action", "patch"}
  BY DEF TypeOK, CurCard
<1>2. Home(p) \notin Deciding
  BY <1>1 DEF Home, Deciding, Procs
<1> QED
  BY <1>2 DEF Over, GoTo, TypeOK, Alone, Busy, Deciding

LEMMA ClickMoves ==
  ASSUME TypeOK, NEW c \in Cards, NEW p \in People, NEW yes \in BOOLEAN, Click(p, c, yes)
  PROVE  p \in Procs /\ Moves(p)
  BY DEF Click, At, GoTo, Moves, Alone, Busy, Procs, TypeOK

LEMMA DecisionMoves ==
  ASSUME TypeOK, CurCard, NEW p \in Procs, Get(p) \/ CheckOrder(p) \/ Refused(p)
  PROVE  Moves(p)
<1> USE DEF At, GoTo
<1>1. pc[p] \in Deciding /\ lock' = lock /\ ~Busy(p)
  BY DEF Get, CheckOrder, Refused, Deciding, Busy
<1>2. CASE Over(p)
  BY <1>1, <1>2, OverAlone DEF Moves
<1>3. CASE ~Over(p)
  BY <1>1, <1>3 DEF Get, CheckOrder, Refused, Moves, Alone, Busy, TypeOK
<1> QED BY <1>2, <1>3

LEMMA DecisionBegins ==
  ASSUME TypeOK, CurCard, NEW p \in Procs, QueueBegin(p) \/ DecideBegin(p)
  PROVE  Begins(p)
  BY DEF QueueBegin, DecideBegin, Begin, MayBegin, At, GoTo, Begins, Alone, Busy, TypeOK, CurCard, Deciding

LEMMA DecisionEnds ==
  ASSUME TypeOK, CurCard, NEW p \in Procs, QueueEnd(p) \/ DecideEnd(p)
  PROVE  Ends(p)
<1>1. pc[p] \in Deciding /\ Busy(p) /\ Over(p) /\ lock' = [lock EXCEPT ![cur[p]] = NoOne]
  BY DEF QueueEnd, DecideEnd, At, Deciding, Busy
<1> QED BY <1>1, OverAlone DEF Ends

LEMMA DrainMoves ==
  ASSUME TypeOK, DrainStart \/ DrainList \/ DrainAgain
  PROVE  Drainer \in Procs /\ Moves(Drainer)
  BY DEF DrainStart, DrainList, DrainAgain, At, GoTo, Moves, Alone, Busy, TypeOK, Procs

LEMMA TurnMoves ==
  ASSUME TypeOK, NEW a \in Agents, Turn(a)
  PROVE  a \in Procs /\ Moves(a)
<1> USE DEF At, GoTo
<1>0. a \in Procs
  BY DEF Procs
<1>1. CASE TurnStart(a) \/ Propose(a) \/ TurnFail(a) \/ TurnEnd(a)
  BY <1>0, <1>1 DEF TurnStart, Propose, TurnFail, TurnEnd, Moves, Alone, Busy, TypeOK
<1>2. CASE Answer(a)
  BY <1>0, <1>2 DEF Answer, Moves, Alone, Busy, TypeOK
<1>3. CASE Attach(a)
  BY <1>0, <1>3 DEF Attach, Forget, Moves, Alone, Busy, TypeOK
<1>4. CASE Diff(a)
  BY <1>0, <1>4 DEF Diff, turnVars, Moves, Alone, Busy, TypeOK
<1>5. CASE Replace(a)
  BY <1>0, <1>5 DEF Replace, Forget, turnVars, Moves, Alone, Busy, TypeOK
<1>6. CASE AddPatch(a)
  BY <1>0, <1>6 DEF AddPatch, turnVars, Moves, Alone, Busy, TypeOK
<1> QED BY <1>0, <1>1, <1>2, <1>3, <1>4, <1>5, <1>6 DEF Turn

LEMMA StepKinds ==
  ASSUME TypeOK, CurCard, Next
  PROVE  \/ \E p \in Procs : Moves(p) \/ Begins(p) \/ Ends(p)
         \/ Crash
  BY ClickMoves, DecisionMoves, DecisionBegins, DecisionEnds, DrainMoves, TurnMoves DEF Next, Clicks, Decision

LEMMA StepDecision == ASSUME DecisionInv, [Next]_vars PROVE OneDecision'
<1> USE DEF DecisionInv
<1>1. CASE UNCHANGED vars
  BY <1>1 DEF vars, OneDecision, Busy
<1>2. CASE Crash
  BY <1>2 DEF Crash, OneDecision, Busy
<1>3. ASSUME NEW p \in Procs, Alone(p), NEW q \in Procs, q # p
      PROVE  Busy(q)' = Busy(q) /\ cur'[q] = cur[q]
  BY <1>3 DEF Alone, Busy
<1>4. ASSUME NEW p \in Procs, Moves(p) PROVE OneDecision'
  <2>1. \A q \in Procs : Busy(q)' => Busy(q) /\ q # p /\ cur'[q] = cur[q]
    BY <1>3, <1>4 DEF Moves
  <2>2. \A q \in Procs : Busy(q) => Busy(q)' /\ cur'[q] = cur[q]
    BY <1>3, <1>4 DEF Moves
  <2>3. \A c \in Cards : lock[c] # NoOne => lock[c] \in Procs
    BY DEF TypeOK
  <2>4. lock' = lock
    BY <1>4 DEF Moves
  <2> QED BY <2>1, <2>2, <2>3, <2>4 DEF OneDecision
<1>5. ASSUME NEW p \in Procs, Begins(p) PROVE OneDecision'
  <2>1. /\ ~Busy(p) /\ cur[p] \in Cards /\ cur'[p] = cur[p] /\ Busy(p)'
        /\ lock[cur[p]] = NoOne /\ lock'[cur[p]] = p
        /\ \A c \in Cards : c # cur[p] => lock'[c] = lock[c]
    BY <1>5 DEF Begins, TypeOK
  <2>2. \A q \in Procs : q # p => (Busy(q)' <=> Busy(q)) /\ cur'[q] = cur[q]
    BY <1>3, <1>5 DEF Begins, Busy
  <2>3. \A q \in Procs : Busy(q) => q # p /\ cur[q] # cur[p] /\ cur[q] \in Cards
    BY <2>1, ProcsAssumption DEF OneDecision, CurCard, Busy, Deciding
  <2>4. \A c \in Cards : lock[c] # NoOne => lock[c] \in Procs
    BY DEF TypeOK
  <2>5. \A q \in Procs : Busy(q)' => lock'[cur'[q]] = q
    BY <2>1, <2>2, <2>3 DEF OneDecision
  <2>6. \A c \in Cards, q \in Procs : lock'[c] = q => Busy(q)' /\ cur'[q] = c
    BY <2>1, <2>2, <2>3, <2>4, ProcsAssumption DEF OneDecision
  <2>7. \A c \in Cards : lock'[c] # NoOne => lock'[c] \in Procs
    BY <2>1, <2>4
  <2> QED BY <2>5, <2>6, <2>7 DEF OneDecision, Busy
<1>6. ASSUME NEW p \in Procs, Ends(p) PROVE OneDecision'
  <2>1. /\ Busy(p) /\ cur[p] \in Cards /\ ~Busy(p)'
        /\ lock[cur[p]] = p /\ lock'[cur[p]] = NoOne
        /\ \A c \in Cards : c # cur[p] => lock'[c] = lock[c]
    BY <1>6 DEF Ends, TypeOK, OneDecision, CurCard, Busy, Deciding
  <2>2. \A q \in Procs : q # p => (Busy(q)' <=> Busy(q)) /\ cur'[q] = cur[q]
    BY <1>3, <1>6 DEF Ends, Busy
  <2>3. \A q \in Procs : Busy(q) /\ q # p => cur[q] # cur[p] /\ cur[q] \in Cards
    BY <2>1 DEF OneDecision, CurCard, Busy, Deciding
  <2>4. \A c \in Cards : lock[c] # NoOne => lock[c] \in Procs
    BY DEF TypeOK
  <2>5. \A q \in Procs : Busy(q)' => lock'[cur'[q]] = q
    BY <2>1, <2>2, <2>3 DEF OneDecision
  <2>6. \A c \in Cards, q \in Procs : lock'[c] = q => Busy(q)' /\ cur'[q] = c
    BY <2>1, <2>2, <2>3, <2>4, ProcsAssumption DEF OneDecision
  <2>7. \A c \in Cards : lock'[c] # NoOne => lock'[c] \in Procs
    BY <2>1, <2>4
  <2> QED BY <2>5, <2>6, <2>7 DEF OneDecision, Busy
<1> QED
  BY <1>1, <1>2, <1>4, <1>5, <1>6, StepKinds

LEMMA StepCur == ASSUME DecisionInv, [Next]_vars PROVE CurCard'
<1> USE DEF DecisionInv, At, GoTo
<1>1. ASSUME NEW c \in Cards, NEW p \in People, NEW yes \in BOOLEAN, Click(p, c, yes) PROVE CurCard'
  BY <1>1 DEF Click, CurCard, Procs, TypeOK
<1>2. ASSUME NEW p \in Procs, Get(p) \/ Refused(p) \/ QueueEnd(p) \/ DecideEnd(p) PROVE CurCard'
  <2>1. pc[p] \in Deciding
    BY <1>2 DEF Get, Refused, QueueEnd, DecideEnd, Deciding
  <2>2. CASE Over(p)
    BY <2>1, <2>2, OverAlone DEF Alone, CurCard
  <2>3. CASE ~Over(p)
    BY <1>2, <2>1, <2>3 DEF Get, Refused, QueueEnd, DecideEnd, CurCard, TypeOK
  <2> QED BY <2>2, <2>3
<1>3. ASSUME NEW p \in Procs, CheckOrder(p) \/ QueueBegin(p) \/ DecideBegin(p) PROVE CurCard'
  BY <1>3 DEF CheckOrder, QueueBegin, DecideBegin, Begin, CurCard, Deciding, TypeOK
<1>4. ASSUME DrainStart \/ DrainList \/ DrainAgain PROVE CurCard'
  BY <1>4 DEF DrainStart, DrainList, DrainAgain, CurCard, Deciding, TypeOK, Procs
<1>5. ASSUME NEW a \in Agents, Turn(a) PROVE CurCard'
  <2>1. a \in Procs
    BY DEF Procs
  <2>2. MakeCard(a, "action", 0) \/ MakeCard(a, "patch", answer[a]) => made + 1 \in Cards
    BY BoundsAssumption DEF MakeCard, TypeOK, Cards
  <2>3. CASE Propose(a) \/ AddPatch(a)
    BY <2>1, <2>2, <2>3 DEF Propose, AddPatch, CurCard, Deciding, TypeOK
  <2>4. CASE TurnStart(a) \/ TurnFail(a) \/ Answer(a) \/ Attach(a) \/ TurnEnd(a)
    BY <2>1, <2>4 DEF TurnStart, TurnFail, Answer, Attach, TurnEnd, CurCard, Deciding, TypeOK
  <2>5. CASE Diff(a) \/ Replace(a)
    BY <2>1, <2>5 DEF Diff, Replace, CurCard, Deciding, TypeOK
  <2> QED BY <1>5, <2>3, <2>4, <2>5 DEF Turn
<1>6. CASE Crash
  BY <1>6 DEF Crash, CurCard, Deciding
<1>7. CASE UNCHANGED vars
  BY <1>7 DEF vars, CurCard
<1> QED
  BY <1>1, <1>2, <1>3, <1>4, <1>5, <1>6, <1>7 DEF Next, Clicks, Decision

\* Types, whatever the constants are.
THEOREM TypesHold == Spec => []TypeOK
<1>1. DecisionInv /\ [Next]_vars => DecisionInv'
  BY StepTypes, StepCur, StepDecision DEF DecisionInv
<1>2. DecisionInv => TypeOK
  BY DEF DecisionInv
<1> QED
  BY InitDecision, <1>1, <1>2, PTL DEF Spec

\* However many people and agents decide at once, and whatever the turns write
\* meanwhile: only one decision of a card is under way (deciding.Begin, End).
THEOREM OneDecisionHolds == Spec => []OneDecision
<1>1. DecisionInv /\ [Next]_vars => DecisionInv'
  BY StepTypes, StepCur, StepDecision DEF DecisionInv
<1>2. DecisionInv => OneDecision
  BY DEF DecisionInv
<1> QED
  BY InitDecision, <1>1, <1>2, PTL DEF Spec

-----------------------------------------------------------------------------
LEMMA InitDiff == Init => DiffInv
<1> SUFFICES ASSUME Init PROVE DiffInv
  OBVIOUS
<1>1. DecisionInv
  BY InitDecision
<1>2. CurMade /\ Unmade /\ ReadMade /\ MineActions /\ OpenUnspent /\ DiffsOnce
  BY ProcsAssumption, BoundsAssumption
  DEF Init, CurMade, Unmade, ReadMade, MineActions, OpenUnspent, DiffsOnce, Deciding, Procs
<1> QED BY <1>1, <1>2 DEF DiffInv

\* A card is made: the one after the last.
LEMMA CardMade ==
  ASSUME TypeOK, NEW a \in Agents, NEW k \in {"action", "patch"}, NEW m \in 0 .. MaxTurns, MakeCard(a, k, m)
  PROVE  /\ made \in Nat /\ made' = made + 1 /\ made + 1 \in Cards
         /\ kind'[made + 1] = k /\ row'[made + 1] = [status |-> "pending", msg |-> m]
         /\ \A c \in Cards : c # made + 1 => kind'[c] = kind[c] /\ row'[c] = row[c]
  BY BoundsAssumption DEF MakeCard, TypeOK, Cards

LEMMA StepMade == ASSUME DiffInv, [Next]_vars PROVE CurMade' /\ Unmade' /\ ReadMade'
<1> USE DEF DiffInv, DecisionInv, At, GoTo
<1>0. made \in Nat /\ \A c \in Cards : c \in Nat
  BY DEF TypeOK, Cards
<1>1. ASSUME NEW c \in Cards, NEW p \in People, NEW yes \in BOOLEAN, Click(p, c, yes)
      PROVE  CurMade' /\ Unmade' /\ ReadMade'
  <2>1. c <= made
    BY <1>0, <1>1 DEF Click, Open, Unmade, Blank
  <2> QED BY <1>1, <2>1 DEF Click, cardVars, CurMade, Unmade, ReadMade, Procs, TypeOK
<1>2. ASSUME NEW p \in Procs, pc[p] \in Deciding, Over(p)
      PROVE  (made' = made => CurMade' /\ ReadMade')
  <2>1. Alone(p) /\ pc'[p] \notin Deciding
    BY <1>2, OverAlone
  <2>2. \A c \in Cards : copy'[p][c] = Blank
    BY <1>2 DEF Over, TypeOK
  <2> QED BY <2>1, <2>2 DEF Alone, CurMade, ReadMade
<1>3. ASSUME NEW p \in Procs, Get(p) \/ Refused(p) PROVE CurMade' /\ Unmade' /\ ReadMade'
  <2>1. pc[p] \in Deciding /\ made' = made /\ row' = row /\ ran' = ran
    BY <1>3 DEF Get, Refused, Deciding, cardVars
  <2>2. CASE Over(p)
    BY <1>2, <2>1, <2>2 DEF Unmade
  <2>3. CASE ~Over(p)
    BY <1>3, <2>1, <2>3 DEF Get, Refused, CurMade, Unmade, ReadMade, TypeOK
  <2> QED BY <2>2, <2>3
<1>4. ASSUME NEW p \in Procs, QueueEnd(p) \/ DecideEnd(p) PROVE CurMade' /\ Unmade' /\ ReadMade'
  <2>1. pc[p] \in Deciding /\ made' = made /\ ran' = ran /\ Over(p) /\ cur[p] \in Cards /\ cur[p] <= made
    BY <1>4 DEF QueueEnd, DecideEnd, Deciding, cardVars, CurCard, CurMade
  <2>2. \A c \in Cards : c # cur[p] => row'[c] = row[c]
    BY <1>4, <2>1, WriteRow DEF QueueEnd, DecideEnd, Outcome, Status
  <2> QED BY <1>0, <1>2, <2>1, <2>2 DEF Unmade
<1>5. ASSUME NEW p \in Procs, CheckOrder(p) PROVE CurMade' /\ Unmade' /\ ReadMade'
  BY <1>5 DEF CheckOrder, cardVars, CurMade, Unmade, ReadMade, Deciding, TypeOK
<1>6. ASSUME NEW p \in Procs, QueueBegin(p) \/ DecideBegin(p) PROVE CurMade' /\ Unmade' /\ ReadMade'
  <2>1. /\ pc[p] \in Deciding /\ cur[p] \in Cards /\ cur[p] <= made /\ cur' = cur
        /\ made' = made /\ row' = row
        /\ \A q \in Procs : q # p => pc'[q] = pc[q]
    BY <1>6 DEF QueueBegin, DecideBegin, Begin, cardVars, Deciding, CurCard, CurMade, TypeOK
  <2>2. \A c \in Cards : c # cur[p] => ran'[c] = ran[c]
    BY <1>6, <2>1 DEF QueueBegin, DecideBegin, TypeOK
  <2>3. \A q \in Procs, c \in Cards : q # p \/ c # cur[p] => copy'[q][c] = copy[q][c]
    BY <1>6, <2>1 DEF QueueBegin, DecideBegin, Begin, TypeOK
  <2> QED BY <1>0, <2>1, <2>2, <2>3 DEF CurMade, Unmade, ReadMade
<1>7. ASSUME DrainStart \/ DrainList \/ DrainAgain PROVE CurMade' /\ Unmade' /\ ReadMade'
  <2>1. \A c \in Cards : Head(c) => c <= made
    BY <1>0 DEF Head, Waiting, Open, Unmade, Blank
  <2> QED BY <1>7, <2>1 DEF DrainStart, DrainList, DrainAgain, cardVars, CurMade, Unmade, ReadMade, Deciding, TypeOK, Procs
<1>8. ASSUME NEW a \in Agents, Turn(a) PROVE CurMade' /\ Unmade' /\ ReadMade'
  <2>0. a \in Procs
    BY DEF Procs
  <2>1. CASE Propose(a) \/ AddPatch(a)
    <3>1. PICK k \in {"action", "patch"}, m \in 0 .. MaxTurns : MakeCard(a, k, m)
      BY <2>1, BoundsAssumption DEF Propose, AddPatch, TypeOK
    <3>2. ran' = ran /\ copy' = copy
      BY <2>1 DEF Propose, AddPatch
    <3>3. /\ made' = made + 1 /\ made + 1 \in Cards
          /\ kind'[made + 1] = k
          /\ \A c \in Cards : c # made + 1 => kind'[c] = kind[c] /\ row'[c] = row[c]
      BY <3>1, CardMade
    <3>4. Unmade' /\ ReadMade'
      BY <1>0, <3>2, <3>3 DEF Unmade, ReadMade
    <3>5. \A q \in Procs : q # a => pc'[q] = pc[q] /\ cur'[q] = cur[q]
      BY <2>0, <2>1 DEF Propose, AddPatch, TypeOK
    <3>6. pc'[a] \in Deciding => cur'[a] = made + 1
      BY <2>0, <2>1 DEF Propose, AddPatch, Deciding, TypeOK
    <3> QED BY <1>0, <3>4, <3>5, <3>6, <3>3 DEF CurMade, CurCard, Cards, Deciding
  <2>2. CASE TurnStart(a) \/ TurnFail(a) \/ TurnEnd(a)
    BY <2>0, <2>2 DEF TurnStart, TurnFail, TurnEnd, cardVars, turnVars, CurMade, Unmade, ReadMade, Deciding, TypeOK
  <2>3. CASE Answer(a)
    <3>1. \A c \in Cards : copy'[a][c] # Blank => c <= made
      BY <2>0, <2>3 DEF Answer, Listed, MineActions, TypeOK
    <3> QED BY <2>0, <2>3, <3>1 DEF Answer, cardVars, CurMade, Unmade, ReadMade, Deciding, TypeOK
  <2>4. CASE Attach(a) \/ Replace(a)
    <3>1. pc'[a] \notin Deciding /\ cur' = cur /\ made' = made /\ ran' = ran /\ \A q \in Procs : q # a => pc'[q] = pc[q]
      BY <2>0, <2>4 DEF Attach, Replace, cardVars, Deciding, TypeOK
    <3>2. CASE row' = row /\ copy' = copy
      BY <3>1, <3>2 DEF CurMade, Unmade, ReadMade
    <3>3. CASE \E c \in Read(a) : Forget(a, c) /\ \A d \in Cards : d # c => row'[d] = row[d]
      <4>1. PICK c \in Read(a) : Forget(a, c) /\ \A d \in Cards : d # c => row'[d] = row[d]
        BY <3>3
      <4>2. c \in Cards /\ c <= made
        BY <2>0 DEF Read, ReadMade
      <4>3. \A q \in Procs, d \in Cards : copy'[q][d] # Blank => copy[q][d] # Blank
        BY <2>0, <4>1, <4>2, ForgetCopy
      <4> QED BY <1>0, <3>1, <4>1, <4>2, <4>3 DEF CurMade, Unmade, ReadMade
    <3>4. CASE \E c \in Read(a) : \E r : row' = [row EXCEPT ![c] = r] /\ Forget(a, c)
      BY <3>3, <3>4 DEF Read, TypeOK
    <3> QED BY <2>4, <3>2, <3>4 DEF Attach, Replace
  <2>5. CASE Diff(a)
    <3>1. \A c \in Cards : Open(c) => c <= made
      BY <1>0 DEF Open, Unmade, Blank
    <3>2. \A c \in Cards : copy'[a][c] # Blank => Open(c) \/ copy[a][c] # Blank
      BY <2>0, <2>5 DEF Diff, TypeOK
    <3>3. Alone(a) /\ pc'[a] \notin Deciding /\ cur' = cur
      BY <2>0, <2>5 DEF Diff, Alone, Deciding, TypeOK
    <3>4. made' = made /\ row' = row /\ ran' = ran
      BY <2>5 DEF Diff, cardVars
    <3> QED BY <2>0, <3>1, <3>2, <3>3, <3>4 DEF Alone, CurMade, Unmade, ReadMade
  <2> QED BY <1>8, <2>1, <2>2, <2>3, <2>4, <2>5 DEF Turn
<1>9. CASE Crash
  BY <1>9 DEF Crash, cardVars, CurMade, Unmade, ReadMade, Deciding
<1>10. CASE UNCHANGED vars
  BY <1>10 DEF vars, cardVars, CurMade, Unmade, ReadMade
<1> QED
  BY <1>1, <1>3, <1>4, <1>5, <1>6, <1>7, <1>8, <1>9, <1>10 DEF Next, Clicks, Decision

LEMMA StepMine == ASSUME DiffInv, [Next]_vars PROVE MineActions'
<1> USE DEF DiffInv, DecisionInv, At, GoTo
<1>0. made \in Nat /\ \A c \in Cards : c \in Nat
  BY DEF TypeOK, Cards
<1>1. ASSUME made' = made, kind' = kind, mine' = mine,
             \A a \in Agents : pc'[a] = "attach" => pc[a] = "attach" /\ copy'[a] = copy[a]
      PROVE  MineActions'
  BY <1>1 DEF MineActions
<1>2. ASSUME NEW p \in Procs, Alone(p), made' = made, kind' = kind, mine' = mine, pc'[p] # "attach"
      PROVE  MineActions'
  BY <1>2 DEF MineActions, Alone, Procs
<1>3. ASSUME NEW p \in Procs, Decision(p) PROVE MineActions'
  <2>1. pc[p] \in Deciding /\ made' = made /\ kind' = kind /\ mine' = mine
    BY <1>3 DEF Decision, Get, CheckOrder, Refused, QueueBegin, DecideBegin, Begin, QueueEnd, DecideEnd,
                cardVars, turnVars, Deciding
  <2>2. ASSUME Over(p) PROVE Alone(p) /\ pc'[p] # "attach"
    <3>1. Home(p) # "attach"
      <4>1. kind[cur[p]] \in {"action", "patch"}
        BY <2>1 DEF TypeOK, CurCard
      <4> QED BY <4>1 DEF Home, Procs
    <3> QED BY <2>1, <2>2, <3>1, OverAlone DEF Over, TypeOK
  <2>3. CASE ~Over(p)
    <3>1. Alone(p) /\ pc'[p] # "attach"
      BY <1>3, <2>3 DEF Decision, Get, CheckOrder, Refused, QueueBegin, DecideBegin, Begin, QueueEnd, DecideEnd, Alone, TypeOK
    <3> QED BY <1>2, <2>1, <3>1
  <2> QED BY <1>2, <2>1, <2>2, <2>3
<1>4. ASSUME NEW c \in Cards, NEW p \in People, NEW yes \in BOOLEAN, Click(p, c, yes) PROVE MineActions'
  BY <1>2, <1>4 DEF Click, Alone, cardVars, turnVars, Procs, TypeOK
<1>5. ASSUME DrainStart \/ DrainList \/ DrainAgain PROVE MineActions'
  BY <1>2, <1>5 DEF DrainStart, DrainList, DrainAgain, Alone, cardVars, turnVars, Procs, TypeOK
<1>6. ASSUME NEW a \in Agents, Turn(a) PROVE MineActions'
  <2>0. a \in Procs
    BY DEF Procs
  <2>1. CASE TurnStart(a)
    BY <2>0, <2>1 DEF TurnStart, cardVars, MineActions, TypeOK
  <2>2. CASE Propose(a)
    <3>1. MakeCard(a, "action", 0) /\ 0 \in 0 .. MaxTurns
      BY <2>2, BoundsAssumption DEF Propose
    <3>2. /\ made' = made + 1 /\ made + 1 \in Cards
          /\ kind'[made + 1] = "action"
          /\ \A c \in Cards : c # made + 1 => kind'[c] = kind[c] /\ row'[c] = row[c]
      BY <3>1, CardMade
    <3>3. \A b \in Agents : mine'[b] = IF b = a THEN mine[a] \cup {made + 1} ELSE mine[b]
      BY <2>2 DEF Propose, TypeOK
    <3>4. copy' = copy /\ \A b \in Agents : pc'[b] = "attach" => pc[b] = "attach"
      BY <2>0, <2>2 DEF Propose, TypeOK, Procs
    <3> QED BY <1>0, <3>3, <3>4, <3>2 DEF MineActions
  <2>3. CASE TurnFail(a)
    BY <2>0, <2>3 DEF TurnFail, cardVars, MineActions, TypeOK, Procs
  <2>4. CASE Answer(a)
    <3>1. \A c \in Cards : copy'[a][c] # Blank => c \in mine[a]
      BY <2>0, <2>4 DEF Answer, Listed, TypeOK
    <3>2. \A b \in Agents : b # a => pc'[b] = pc[b] /\ copy'[b] = copy[b]
      BY <2>0, <2>4 DEF Answer, TypeOK, Procs
    <3>3. made' = made /\ kind' = kind /\ mine' = mine
      BY <2>4 DEF Answer, cardVars
    <3> QED BY <3>1, <3>2, <3>3 DEF MineActions
  <2>5. CASE Attach(a)
    <3>1. made' = made /\ kind' = kind /\ \A b \in Agents : mine'[b] \subseteq mine[b]
      BY <2>5 DEF Attach, cardVars, TypeOK
    <3>2. \A b \in Agents : pc'[b] = "attach" => pc[b] = "attach"
      BY <2>0, <2>5 DEF Attach, TypeOK, Procs
    <3>3. \A b \in Agents, c \in Cards : copy'[b][c] # Blank => copy[b][c] # Blank
      BY <2>0, <2>5, ForgetCopy DEF Attach, Read, Procs
    <3> QED BY <3>1, <3>2, <3>3 DEF MineActions
  <2>6. CASE Diff(a) \/ TurnEnd(a)
    BY <1>2, <2>0, <2>6 DEF Diff, TurnEnd, Alone, cardVars, turnVars, TypeOK
  <2>7. CASE Replace(a)
    <3>1. Alone(a)
      BY <2>0, <2>7 DEF Replace, Forget, Alone, TypeOK
    <3> QED BY <1>2, <2>0, <2>7, <3>1 DEF Replace, cardVars, turnVars, TypeOK
  <2>8. CASE AddPatch(a)
    <3>1. MakeCard(a, "patch", answer[a]) /\ answer[a] \in 0 .. MaxTurns
      BY <2>8 DEF AddPatch, TypeOK
    <3>2. /\ made' = made + 1 /\ made + 1 \in Cards
          /\ kind'[made + 1] = "patch"
          /\ \A c \in Cards : c # made + 1 => kind'[c] = kind[c] /\ row'[c] = row[c]
      BY <3>1, CardMade
    <3>3. mine' = mine /\ copy' = copy /\ \A b \in Agents : pc'[b] = "attach" => pc[b] = "attach"
      BY <2>0, <2>8 DEF AddPatch, turnVars, TypeOK, Procs
    <3> QED BY <1>0, <3>3, <3>2 DEF MineActions
  <2> QED BY <1>6, <2>1, <2>2, <2>3, <2>4, <2>5, <2>6, <2>7, <2>8 DEF Turn
<1>7. CASE Crash
  BY <1>7 DEF Crash, MineActions, Procs
<1>8. CASE UNCHANGED vars
  BY <1>1, <1>8 DEF vars, cardVars, turnVars
<1> QED
  BY <1>3, <1>4, <1>5, <1>6, <1>7, <1>8 DEF Next, Clicks

\* Who carries a card out is known by its entry in the deciding map.
LEMMA CarryingStays ==
  ASSUME TypeOK, OneDecision, NEW p \in Procs, NEW c \in Cards,
         Alone(p), lock[c] # p, lock'[c] = lock[c]
  PROVE  Carrying(c)' = Carrying(c)
  BY ProcsAssumption DEF Alone, Carrying, TypeOK

\* Nothing but a decision of it ends that a diff is open, and nothing opens it
\* again; a step that does not begin one carries nothing out.
LEMMA StepUnspent == ASSUME DiffInv, [Next]_vars PROVE OpenUnspent' /\ DiffsOnce'
<1> USE DEF DiffInv, DecisionInv, At, GoTo
<1>0. made \in Nat /\ crashes \in Nat /\ ran \in [Cards -> Nat] /\ \A c \in Cards : c \in Nat
  BY DEF TypeOK, Cards
<1>1. ASSUME NEW p \in Procs, Moves(p), ran' = ran, crashes' = crashes,
             \A c \in Cards : kind'[c] = "patch" /\ Open(c)' => (kind[c] = "patch" /\ Open(c)) \/ c > made,
             \A c \in Cards : kind'[c] = "patch" => kind[c] = "patch" \/ c > made
      PROVE  OpenUnspent' /\ DiffsOnce'
  <2>1. \A c \in Cards : Carrying(c)' = Carrying(c)
    <3>1. \A c \in Cards : lock[c] # p
      BY <1>1, ProcsAssumption DEF Moves, OneDecision
    <3> QED BY <1>1, <3>1, CarryingStays DEF Moves
  <2>2. \A c \in Cards : c > made => ran[c] = 0
    BY DEF Unmade
  <2> QED BY <1>0, <1>1, <2>1, <2>2 DEF OpenUnspent, DiffsOnce
<1>2. ASSUME row' = row, kind' = kind
      PROVE  /\ \A c \in Cards : kind'[c] = "patch" /\ Open(c)' => (kind[c] = "patch" /\ Open(c)) \/ c > made
             /\ \A c \in Cards : kind'[c] = "patch" => kind[c] = "patch" \/ c > made
  BY <1>2 DEF Open
<1>3. ASSUME NEW c \in Cards, NEW p \in People, NEW yes \in BOOLEAN, Click(p, c, yes)
      PROVE  OpenUnspent' /\ DiffsOnce'
  BY <1>1, <1>2, <1>3, ClickMoves DEF Click, cardVars
<1>4. ASSUME NEW p \in Procs, Get(p) \/ CheckOrder(p) \/ Refused(p) PROVE OpenUnspent' /\ DiffsOnce'
  BY <1>1, <1>2, <1>4, DecisionMoves DEF Get, CheckOrder, Refused, cardVars
<1>5. ASSUME DrainStart \/ DrainList \/ DrainAgain PROVE OpenUnspent' /\ DiffsOnce'
  BY <1>1, <1>2, <1>5, DrainMoves DEF DrainStart, DrainList, DrainAgain, cardVars
<1>6. ASSUME NEW p \in Procs, QueueBegin(p) \/ DecideBegin(p) PROVE OpenUnspent' /\ DiffsOnce'
  <2>1. Begins(p)
    BY <1>6, DecisionBegins
  <2>2. PICK card \in Cards :
        /\ row' = row /\ kind' = kind /\ crashes' = crashes /\ card = cur[p] /\ Open(card)
        /\ lock[card] = NoOne /\ lock'[card] = p /\ approve' = approve
    BY <1>6, <2>1 DEF QueueBegin, DecideBegin, Begin, MayBegin, Undecided, Open, Begins, cardVars, TypeOK
  <2>3. \A c \in Cards : c # card => ran'[c] = ran[c]
    BY <1>6, <2>2 DEF QueueBegin, DecideBegin, TypeOK
  <2>4. \A c \in Cards : c # card => Carrying(c)' = Carrying(c)
    <3>1. \A c \in Cards : c # card => lock[c] # p /\ lock'[c] = lock[c]
      BY <2>1, <2>2, ProcsAssumption DEF Begins, OneDecision, TypeOK
    <3> QED BY <2>1, <3>1, CarryingStays DEF Begins
  <2>5. ~Carrying(card)
    BY <2>2 DEF Carrying
  <2>6. kind[card] = "patch" => ran[card] <= crashes
    BY <2>2, <2>5 DEF OpenUnspent
  <2>7. CASE DecideBegin(p) /\ approve[p]
    <3>1. ran'[card] = ran[card] + 1
      BY <2>2, <2>7 DEF DecideBegin, TypeOK
    <3>2. Carrying(card)'
      BY <2>2, <2>7, ProcsAssumption DEF DecideBegin, Begin, Carrying, TypeOK
    <3>3. OpenUnspent'
      BY <2>2, <2>3, <2>4, <3>2 DEF OpenUnspent, Open
    <3>4. DiffsOnce'
      BY <1>0, <2>2, <2>3, <2>6, <3>1 DEF DiffsOnce
    <3> QED BY <3>3, <3>4
  <2>8. CASE ~(DecideBegin(p) /\ approve[p])
    <3>1. ran'[card] = ran[card]
      BY <1>6, <2>2, <2>8 DEF QueueBegin, DecideBegin, TypeOK
    <3>2. OpenUnspent'
      BY <2>2, <2>3, <2>4, <2>6, <3>1 DEF OpenUnspent, Open
    <3>3. DiffsOnce'
      BY <2>2, <2>3, <3>1 DEF DiffsOnce
    <3> QED BY <3>2, <3>3
  <2> QED BY <2>7, <2>8
<1>7. ASSUME NEW p \in Procs, QueueEnd(p) \/ DecideEnd(p) PROVE OpenUnspent' /\ DiffsOnce'
  <2>1. Ends(p)
    BY <1>7, DecisionEnds
  <2>2. PICK card \in Cards :
        /\ kind' = kind /\ crashes' = crashes /\ ran' = ran
        /\ card = cur[p] /\ lock[card] = p /\ lock'[card] = NoOne
    BY <1>7, <2>1 DEF QueueEnd, DecideEnd, Ends, cardVars, OneDecision, CurCard, Deciding, TypeOK, Busy
  <2>3. \A c \in Cards : c # card => row'[c] = row[c]
    BY <1>7, <2>2, WriteRow DEF QueueEnd, DecideEnd, Outcome, Status
  <2>4. \A c \in Cards : c # card => Carrying(c)' = Carrying(c)
    <3>1. \A c \in Cards : c # card => lock[c] # p /\ lock'[c] = lock[c]
      BY <2>1, <2>2, ProcsAssumption DEF Ends, OneDecision, TypeOK
    <3> QED BY <2>1, <3>1, CarryingStays DEF Ends
  <2>5. kind[card] = "patch" /\ Open(card)' => ran[card] <= crashes
    <3>1. CASE DecideEnd(p)
      <4>1. row'[card].status \in {"done", "rejected"}
        BY <2>2, <3>1, WriteRow DEF DecideEnd, Outcome, Status
      <4> QED BY <4>1 DEF Open
    <3>2. CASE QueueEnd(p) /\ kind[card] = "patch"
      <4>1. CASE row[card].status = "pending"
        <5>1. Open(card) /\ ~Carrying(card)
          BY <2>2, <3>2, <4>1 DEF Open, Carrying, QueueEnd
        <5> QED BY <2>2, <3>2, <5>1 DEF OpenUnspent
      <4>2. CASE row[card].status # "pending"
        <5>1. row' = row /\ ~Carrying(card)
          BY <2>2, <3>2, <4>2 DEF QueueEnd, Gone, Carrying
        <5> QED BY <2>2, <3>2, <5>1 DEF OpenUnspent, Open
      <4> QED BY <4>1, <4>2
    <3> QED BY <1>7, <3>1, <3>2
  <2>6. OpenUnspent'
    BY <2>2, <2>3, <2>4, <2>5 DEF OpenUnspent, Open
  <2>7. DiffsOnce'
    BY <2>2 DEF DiffsOnce
  <2> QED BY <2>6, <2>7
<1>8. ASSUME NEW a \in Agents, Turn(a) PROVE OpenUnspent' /\ DiffsOnce'
  <2>0. a \in Procs /\ Moves(a)
    BY <1>8, TurnMoves
  <2>1. ran' = ran /\ crashes' = crashes
    BY <1>8 DEF Turn, TurnStart, Propose, TurnFail, Answer, Attach, Diff, TurnEnd, Replace, AddPatch
  <2>2. CASE TurnStart(a) \/ TurnFail(a) \/ Answer(a) \/ Diff(a) \/ TurnEnd(a)
    <3>1. row' = row /\ kind' = kind
      BY <2>2 DEF TurnStart, TurnFail, Answer, Diff, TurnEnd, cardVars
    <3> QED BY <1>1, <1>2, <2>0, <2>1, <3>1
  <2>3. CASE Propose(a) \/ AddPatch(a)
    <3>1. PICK k \in {"action", "patch"}, m \in 0 .. MaxTurns : MakeCard(a, k, m)
      BY <2>3, BoundsAssumption DEF Propose, AddPatch, TypeOK
    <3>2. \A c \in Cards : c <= made => kind'[c] = kind[c] /\ row'[c] = row[c]
      <4>1. \A c \in Cards : c # made + 1 => kind'[c] = kind[c] /\ row'[c] = row[c]
        BY <3>1, CardMade
      <4> QED BY <1>0, <4>1
    <3>3. \A c \in Cards : c <= made \/ c > made
      BY <1>0
    <3> QED BY <1>1, <2>0, <2>1, <3>2, <3>3 DEF Open
  <2>4. CASE Attach(a) \/ Replace(a)
    <3>1. kind' = kind
      BY <2>4 DEF Attach, Replace, cardVars
    <3>2. \A c \in Cards : kind[c] = "patch" /\ Open(c)' => Open(c)
      <4>1. CASE Attach(a)
        <5>1. \A c \in Read(a) : c \in Cards /\ kind[c] = "action"
          BY <4>1 DEF Attach, Read, MineActions
        <5> QED BY <4>1, <5>1 DEF Attach, Open, TypeOK
      <4>2. CASE Replace(a)
        <5>1. \A c \in Cards : row'[c] = row[c] \/ row'[c].status = "rejected"
          BY <4>2 DEF Replace, TypeOK, Row
        <5> QED BY <5>1 DEF Open
      <4> QED BY <2>4, <4>1, <4>2
    <3> QED BY <1>1, <2>0, <2>1, <3>1, <3>2
  <2> QED BY <1>8, <2>2, <2>3, <2>4 DEF Turn
<1>9. CASE Crash
  <2>1. crashes' = crashes + 1 /\ ran' = ran /\ kind' = kind
    BY <1>9 DEF Crash, cardVars
  <2> QED BY <1>0, <2>1 DEF OpenUnspent, DiffsOnce
<1>10. CASE UNCHANGED vars
  BY <1>10 DEF vars, cardVars, OpenUnspent, DiffsOnce, Open, Carrying
<1> QED
  BY <1>3, <1>4, <1>5, <1>6, <1>7, <1>8, <1>9, <1>10 DEF Next, Clicks, Decision

\* However decisions, turns and restarts overlap: chat.DecidePatch applies a
\* diff once at most as long as office stays up, and a diff that was decided
\* is not applied (its turn-end replacement is not undone by a late decision).
THEOREM DiffsOnceHolds == Spec => []DiffsOnce
<1>1. DiffInv /\ [Next]_vars => DiffInv'
  BY StepTypes, StepCur, StepDecision, StepMade, StepMine, StepUnspent DEF DiffInv, DecisionInv
<1>2. DiffInv => DiffsOnce
  BY DEF DiffInv
<1> QED
  BY InitDiff, <1>1, <1>2, PTL DEF Spec
\* Whoever writes the row of a diff that was decided writes that it was.
LEMMA StepStays ==
  ASSUME DiffInv, [Next]_vars
  PROVE  \A c \in Cards : kind[c] = "patch" /\ Decided(c) => Decided(c)'
<1> USE DEF DiffInv, DecisionInv, At, GoTo
<1>0. made \in Nat /\ \A c \in Cards : c \in Nat
  BY DEF TypeOK, Cards
<1>1. ASSUME row' = row
      PROVE  \A c \in Cards : kind[c] = "patch" /\ Decided(c) => Decided(c)'
  BY <1>1 DEF Decided
<1>2. ASSUME NEW c \in Cards, Clicks(c) PROVE row' = row
  BY <1>2 DEF Clicks, Click
<1>3. ASSUME NEW p \in Procs,
             Get(p) \/ CheckOrder(p) \/ Refused(p) \/ QueueBegin(p) \/ DecideBegin(p)
      PROVE  row' = row
  BY <1>3 DEF Get, CheckOrder, Refused, QueueBegin, DecideBegin, Begin
<1>4. ASSUME NEW p \in Procs, QueueEnd(p) \/ DecideEnd(p), NEW c \in Cards, kind[c] = "patch", Decided(c)
      PROVE  Decided(c)'
  <2>1. cur[p] \in Cards
    BY <1>4 DEF QueueEnd, DecideEnd, CurCard, Deciding
  <2>2. CASE c # cur[p]
    <3>1. row'[c] = row[c]
      BY <1>4, <2>1, <2>2, WriteRow DEF QueueEnd, DecideEnd, Outcome, Status
    <3> QED BY <1>4, <3>1 DEF Decided
  <2>3. CASE c = cur[p] /\ QueueEnd(p)
    BY <1>4, <2>3 DEF QueueEnd, Gone, Decided
  <2>4. CASE c = cur[p] /\ DecideEnd(p)
    <3>1. row'[c].status \in {"done", "rejected"}
      BY <2>1, <2>4, WriteRow DEF DecideEnd, Outcome, Status
    <3> QED BY <3>1 DEF Decided
  <2> QED BY <1>4, <2>2, <2>3, <2>4
<1>5. ASSUME NEW a \in Agents, Turn(a), NEW c \in Cards, kind[c] = "patch", Decided(c)
      PROVE  Decided(c)'
  <2>1. CASE TurnStart(a) \/ TurnFail(a) \/ Answer(a) \/ Diff(a) \/ TurnEnd(a)
    BY <1>5, <2>1 DEF TurnStart, TurnFail, Answer, Diff, TurnEnd, Decided
  <2>2. CASE Propose(a) \/ AddPatch(a)
    <3>1. PICK k \in {"action", "patch"}, m \in 0 .. MaxTurns : MakeCard(a, k, m)
      BY <2>2, BoundsAssumption DEF Propose, AddPatch, TypeOK
    <3>2. \A d \in Cards : d # made + 1 => row'[d] = row[d]
      BY <3>1, CardMade
    <3>3. c <= made
      BY <1>0, <1>5 DEF Unmade, Blank, Decided
    <3>4. c # made + 1
      BY <1>0, <3>3
    <3> QED BY <1>5, <3>2, <3>4 DEF Decided
  <2>3. CASE Attach(a)
    <3>1. \A d \in Read(a) : d \in Cards /\ kind[d] = "action"
      BY <2>3 DEF Attach, Read, MineActions
    <3> QED BY <1>5, <2>3, <3>1 DEF Attach, Decided, TypeOK
  <2>4. CASE Replace(a)
    <3>1. row'[c] = row[c] \/ row'[c].status = "rejected"
      BY <2>4 DEF Replace, TypeOK, Row
    <3> QED BY <1>5, <3>1 DEF Decided
  <2> QED BY <1>5, <2>1, <2>2, <2>3, <2>4 DEF Turn
<1>6. CASE DrainStart \/ DrainList \/ DrainAgain \/ Crash \/ UNCHANGED vars
  BY <1>1, <1>6 DEF DrainStart, DrainList, DrainAgain, Crash, vars
<1> QED
  BY <1>1, <1>2, <1>3, <1>4, <1>5, <1>6 DEF Next, Decision

\* However decisions, turns and restarts overlap, a diff that was applied or
\* rejected stays so: the UPDATE of QueuePatch does not open one that
\* treePatch replaced while a person queued it, and a turn's end writes the
\* rows of operations only.
THEOREM DiffStaysHolds == Spec => DiffStaysDecided
<1>1. DiffInv /\ [Next]_vars => DiffInv'
  BY StepTypes, StepCur, StepDecision, StepMade, StepMine, StepUnspent DEF DiffInv, DecisionInv
<1>2. DiffInv /\ [Next]_vars => [\A c \in Cards : kind[c] = "patch" /\ Decided(c) => Decided(c)']_vars
  BY StepStays
<1> QED
  BY InitDiff, <1>1, <1>2, PTL DEF Spec, DiffStaysDecided
=============================================================================
