--------------------------- MODULE WorkflowProofs ---------------------------
(***************************************************************************)
(* What is proved of a run of a workflow for every workflow, every limit   *)
(* and every graph: the promise of a call, the limits of its turns, the    *)
(* seats of its roles, its types, and the joins of its graph of steps.     *)
(***************************************************************************)
EXTENDS Workflow, ListsProofs, FiniteSetTheorems, SequenceTheorems, TLAPS

-----------------------------------------------------------------------------
(* The row of the run and its caller                                       *)

\* A run that is on has a row that says so; one that ends has not written it
\* yet, and only then is it heard.
RowInv ==
    /\ status \in Ends \cup {"running"}
    /\ stored \in Ends \cup {"running"}
    /\ live => status = "running" /\ stored = "running" /\ ending = "no" /\ office = "up"
    /\ ending = "save" => status \in Ends /\ stored = "running" /\ office = "up"
    /\ ending = "over" => stored \in Ends /\ office = "up"

\* What a step of the coordinator or of the graph may do to the run itself.
EndsOnly ==
    /\ UNCHANGED <<mode, stored, answer, office>>
    /\ time' = time \/ TooLate
    /\ \/ UNCHANGED <<live, status, ending, late>>
       \/ \E s \in Ends : End(s)

\* A coordinator, its roles and the people who decide its cards change the run
\* itself only by ending it.
LEMMA CoordEndsOnly == CoordNext => EndsOnly
<1> USE DEF EndsOnly, run, besidesTime, restOfRun
<1>1. ASSUME CoordStep PROVE EndsOnly
  <2>1. CASE DoneFinish
    BY <2>1 DEF DoneFinish, FinishRun, Ends
  <2>2. CASE Brief \/ Vote \/ OpenGate \/ DoneLook
    BY <2>2 DEF Brief, Vote, OpenGate, DoneLook
  <2>3. CASE AskMark \/ AskTooLate \/ AskStart \/ AskReturn
    BY <2>3 DEF AskMark, AskTooLate, AskStart, AskReturn
  <2>4. CASE CoordEnd \/ AfterMark \/ AfterTooLate \/ AfterStart \/ AfterOver \/ CoordLeave
    BY <2>4 DEF CoordEnd, AfterMark, AfterTooLate, AfterStart, AfterOver, CoordLeave
  <2> QED BY <1>1, <2>1, <2>2, <2>3, <2>4 DEF CoordStep
<1>2. ASSUME NEW r \in Roles, RoleStep(r) PROVE EndsOnly
  <2>1. CASE Delegate(r) \/ SendAgain(r) \/ Ask(r)
    BY <2>1 DEF Delegate, SendAgain, Ask
  <2>2. CASE RoleAnswers(r) \/ RoleDone(r) \/ ChildDone(r) \/ RoleLeave(r)
    BY <2>2 DEF RoleAnswers, RoleDone, ChildDone, RoleLeave, RoleCounted
  <2> QED BY <1>2, <2>1, <2>2 DEF RoleStep
<1>3. ASSUME NEW w \in Callers, CallStep(w) PROVE EndsOnly
  <2>1. CASE CallRefused(w)
    BY <2>1 DEF CallRefused, FinishRun, Ends
  <2>2. CASE CallLook(w) \/ CallStart(w) \/ CallBusy(w) \/ CallReset(w)
    BY <2>2 DEF CallLook, CallStart, CallBusy, CallReset
  <2> QED BY <1>3, <2>1, <2>2 DEF CallStep
<1>4. ASSUME Retry \/ (\E i \in DOMAIN cards : CardDecided(i)) \/ GoOn \/ GoOnGivesUp \/ GoOnSend
      PROVE  EndsOnly
  BY <1>4 DEF Retry, CardDecided, GoOn, GoOnGivesUp, GoOnSend
<1> QED BY <1>1, <1>2, <1>3, <1>4 DEF CoordNext

\* So does the runner of a graph.
LEMMA StepsEndsOnly == StepsNext => EndsOnly
<1> USE DEF EndsOnly, run, RunnerEnds, Ends
<1>1. ASSUME NEW i \in DOMAIN pending, StartStep(i) \/ StepTooMany(i) PROVE EndsOnly
  BY <1>1 DEF StartStep, StepTooMany
<1>2. ASSUME AllStarted \/ NoneLeft \/ RunnerStopped PROVE EndsOnly
  BY <1>2 DEF AllStarted, NoneLeft, RunnerStopped
<1>3. ASSUME NEW s \in running, StepResult(s) \/ StepFails(s) PROVE EndsOnly
  BY <1>3 DEF StepResult, StepFails
<1> QED BY <1>1, <1>2, <1>3 DEF StepsNext

\* Every step of a run is one of these.
LEMMA NextCases ==
    [Next]_vars => \/ EndsOnly
                   \/ SaveEnd \/ SaveLate \/ CallerAnswers \/ RunRestart \/ RunCrash
<1>1. CASE Stop \/ Expire
  BY <1>1 DEF Stop, Expire, FinishRun, EndsOnly, restOfRun, Ends
<1>2. CASE UNCHANGED vars
  BY <1>2 DEF vars, run, EndsOnly
<1> QED BY <1>1, <1>2, CoordEndsOnly, StepsEndsOnly DEF Next, RunStep, Crash

\* What the row and the goroutines that write it are in every reachable state:
\* only a run that is on is written as running, and run.done is closed after
\* the end was written.
THEOREM RowKept == Spec => []RowInv
<1>1. Init => RowInv
  BY DEF Init, RunInit, RowInv, Ends
<1>2. RowInv /\ [Next]_vars => RowInv'
  <2> SUFFICES ASSUME RowInv, [Next]_vars PROVE RowInv'
    OBVIOUS
  <2>1. CASE EndsOnly
    BY <2>1 DEF RowInv, EndsOnly, End, Ends
  <2>2. CASE SaveEnd \/ SaveLate \/ CallerAnswers
    BY <2>2 DEF RowInv, SaveEnd, SaveLate, CallerAnswers, Newer, Ends
  <2>3. CASE RunRestart \/ RunCrash
    BY <2>3 DEF RowInv, RunRestart, RunCrash, Ends
  <2> QED BY NextCases, <2>1, <2>2, <2>3
<1> QED BY <1>1, <1>2, PTL DEF Spec

\* The row and what the caller hears implement RunPromise: a run ends once, no
\* late write brings it back, the caller hears the end that is stored.
THEOREM CallIsKept == Spec => CallKept
<1>1. Init => Promise!Init
  BY DEF Init, RunInit, Promise!Init
<1>2. RowInv /\ RowInv' /\ [Next]_vars => [Promise!Next]_<<stored, answer>>
  <2> SUFFICES ASSUME RowInv, RowInv', [Next]_vars PROVE [Promise!Next]_<<stored, answer>>
    OBVIOUS
  <2> USE DEF Promise!Next
  <2>1. CASE EndsOnly
    BY <2>1 DEF EndsOnly
  <2>2. CASE SaveEnd
    BY <2>2 DEF RowInv, SaveEnd, Promise!End, Promise!Ends, Ends
  <2>3. CASE SaveLate
    BY <2>3 DEF SaveLate, Newer
  <2>4. CASE CallerAnswers
    BY <2>4 DEF RowInv, CallerAnswers, Promise!Answer, Promise!Ends, Ends
  <2>5. CASE RunRestart
    BY <2>5 DEF RunRestart, Promise!End, Promise!Ends
  <2>6. CASE RunCrash
    BY <2>6 DEF RunCrash, Promise!Interrupt
  <2> QED BY NextCases, <2>1, <2>2, <2>3, <2>4, <2>5, <2>6
<1> QED BY <1>1, <1>2, RowKept, PTL DEF Spec, CallKept, Promise!Spec

-----------------------------------------------------------------------------
(* The limits                                                              *)

\* The coordinator has just got leave to ask one role more.
One == IF coord = "ask" THEN 1 ELSE 0

\* What the proof needs of the values the coordinator works with.
LimitTypes ==
    /\ asks \in Seq(Asks)
    /\ coord \in {"ask", "askStart", "asking", "afterStart"} => asked \in Asks
    /\ coord \in {"askStart", "afterStart"} => turns # 0
    /\ batch \in SUBSET Roles
    /\ turns \in Nat

\* What was asked for and not yet counted has its place kept.
LimitInv ==
    /\ LimitTypes
    /\ turns + Len(asks) + One <= MaxTurns
    /\ \/ Cardinality(batch) + Len(asks) + One <= Concurrency
       \/ Cardinality(batch) + Len(asks) + One <= Len(Voters)

limitVars == <<asks, asked, batch, turns>>

\* A set of roles with one more has one more element, or as many.
LEMMA BatchAdd ==
    ASSUME NEW S \in SUBSET Roles, NEW r \in Roles
    PROVE  /\ S \cup {r} \in SUBSET Roles
           /\ Cardinality(S) \in Nat /\ Cardinality(S \cup {r}) \in Nat
           /\ Cardinality(S \cup {r}) <= Cardinality(S) + 1
<1>1. IsFiniteSet(S)
  BY RolesAssumption, FS_Subset
<1>2. Cardinality(S) \in Nat
  BY <1>1, FS_CardinalityType
<1>3. Cardinality(S \cup {r}) = IF r \in S THEN Cardinality(S) ELSE Cardinality(S) + 1
  BY <1>1, FS_AddElement
<1> QED BY <1>2, <1>3

\* A set of roles with one less has no more elements.
LEMMA BatchDel ==
    ASSUME NEW S \in SUBSET Roles, NEW r
    PROVE  /\ S \ {r} \in SUBSET Roles
           /\ Cardinality(S) \in Nat /\ Cardinality(S \ {r}) \in Nat
           /\ Cardinality(S \ {r}) <= Cardinality(S)
<1>1. IsFiniteSet(S)
  BY RolesAssumption, FS_Subset
<1> QED BY <1>1, FS_RemoveElement, FS_CardinalityType, FS_Subset

\* A run begins with nobody asked for.
LEMMA LimitInit == Init => LimitInv
  BY LimitsAssumption, FS_EmptySet
     DEF Init, CoordInit, LimitInv, LimitTypes, One

\* A coordinator that is gone.
LEMMA LimitNoCoord == NoCoord => LimitInv'
  BY LimitsAssumption, FS_EmptySet DEF NoCoord, LimitInv, LimitTypes, One

\* A step that asks for nothing and starts nothing.
LEMMA LimitIdle ==
    ASSUME LimitInv, UNCHANGED limitVars,
           coord' = coord \/ coord' \in {"idle", "begun", "answering", "done", "after", "leaving"}
    PROVE  LimitInv'
<1>1. Cardinality(batch) \in Nat /\ Len(asks) \in Nat
  BY BatchAdd, RolesAssumption, FS_Subset, FS_CardinalityType DEF LimitInv, LimitTypes
<1> QED BY <1>1, RolesAssumption, LimitsAssumption DEF LimitInv, LimitTypes, One, limitVars

\* A tool of the coordinator that asks for turns.
LEMMA LimitAsks ==
    ASSUME LimitInv,
           Vote \/ \E r \in Roles : Delegate(r) \/ SendAgain(r) \/ Ask(r)
    PROVE  LimitInv'
<1>1. Cardinality(batch) \in Nat /\ Len(asks) \in Nat
  BY RolesAssumption, FS_Subset, FS_CardinalityType DEF LimitInv, LimitTypes
<1>2. ASSUME NEW r \in Roles, Delegate(r) \/ SendAgain(r) PROVE LimitInv'
  <2>1. [role |-> r, vote |-> FALSE] \in Asks
    BY DEF Asks
  <2>2. asks' \in Seq(Asks) /\ Len(asks') = Len(asks) + 1
    BY <1>2, <2>1 DEF Delegate, SendAgain, LimitInv, LimitTypes
  <2>3. CanAsk(r) /\ coord = "answering" /\ UNCHANGED <<coord, asked, batch, turns>>
    BY <1>2 DEF Delegate, SendAgain, Tool, roleVars
  <2> QED BY <1>1, <2>2, <2>3, LimitsAssumption DEF CanAsk, LimitInv, LimitTypes, One
<1>3. ASSUME NEW r \in Roles, Ask(r) PROVE LimitInv'
  <2>1. /\ CanAsk(r) /\ coord = "answering" /\ coord' = "ask"
        /\ asked' = [role |-> r, vote |-> FALSE] /\ UNCHANGED <<asks, batch, turns>>
    BY <1>3 DEF Ask, Tool
  <2>2. asked' \in Asks
    BY <2>1 DEF Asks
  <2> QED BY <1>1, <2>1, <2>2, LimitsAssumption DEF CanAsk, LimitInv, LimitTypes, One
<1>4. CASE Vote
  <2>1. /\ batch = {} /\ turns + Len(Voters) <= MaxTurns /\ coord = "answering"
        /\ asks' = [i \in DOMAIN Voters |-> [role |-> Voters[i], vote |-> TRUE]]
        /\ UNCHANGED <<coord, asked, batch, turns>>
    BY <1>4 DEF Vote, Tool, roleVars
  <2>2. /\ Len(Voters) \in Nat /\ DOMAIN Voters = 1 .. Len(Voters)
        /\ \A i \in 1 .. Len(Voters) : Voters[i] \in Roles
    BY RolesAssumption
  <2>3. \A i \in 1 .. Len(Voters) : [role |-> Voters[i], vote |-> TRUE] \in Asks
    BY <2>2 DEF Asks
  <2>4. asks' \in Seq(Asks) /\ Len(asks') = Len(Voters)
    BY <2>1, <2>2, <2>3
  <2> QED BY <2>1, <2>2, <2>4, FS_EmptySet, LimitsAssumption DEF LimitInv, LimitTypes, One
<1> QED BY <1>2, <1>3, <1>4

\* Starting what was asked for.
LEMMA LimitStarts ==
    ASSUME LimitInv,
           \/ AskMark \/ AskTooLate \/ AskStart \/ AskReturn
           \/ CoordEnd \/ AfterMark \/ AfterTooLate \/ AfterStart
    PROVE  LimitInv'
<1>1. /\ Cardinality(batch) \in Nat /\ Len(asks) \in Nat
      /\ MaxTurns \in Nat /\ Concurrency \in Nat /\ Len(Voters) \in Nat
  BY RolesAssumption, LimitsAssumption, FS_Subset, FS_CardinalityType DEF LimitInv, LimitTypes
<1>2. asks # <<>> => /\ Head(asks) \in Asks /\ Tail(asks) \in Seq(Asks)
                     /\ Len(Tail(asks)) = Len(asks) - 1
  BY DEF LimitInv, LimitTypes
<1>3. CASE AskMark
  <2>1. /\ coord = "ask" /\ coord' = "askStart" /\ UNCHANGED <<asks, asked>>
        /\ batch' = batch \cup {asked.role} /\ turns' = turns + 1
    BY <1>3 DEF AskMark, Mark
  <2>2. asked.role \in Roles
    BY <2>1 DEF LimitInv, LimitTypes, Asks
  <2>3. /\ batch' \in SUBSET Roles /\ Cardinality(batch') \in Nat
        /\ Cardinality(batch') <= Cardinality(batch) + 1
    BY <2>1, <2>2, BatchAdd DEF LimitInv, LimitTypes
  <2> QED BY <1>1, <2>1, <2>3 DEF LimitInv, LimitTypes, One
<1>4. CASE AfterMark
  <2>1. /\ coord = "after" /\ coord' = "afterStart" /\ asks # <<>>
        /\ asks' = Tail(asks) /\ asked' = Head(asks)
        /\ batch' = batch \cup {asked'.role} /\ turns' = turns + 1
    BY <1>4 DEF AfterMark, Mark
  <2>2. asked' \in Asks /\ asked'.role \in Roles
    BY <1>2, <2>1 DEF Asks
  <2>3. /\ batch' \in SUBSET Roles /\ Cardinality(batch') \in Nat
        /\ Cardinality(batch') <= Cardinality(batch) + 1
    BY <2>1, <2>2, BatchAdd DEF LimitInv, LimitTypes
  <2> QED BY <1>1, <1>2, <2>1, <2>2, <2>3 DEF LimitInv, LimitTypes, One
<1>5. CASE AskStart \/ AfterStart
  <2>1. /\ coord \in {"askStart", "afterStart"} /\ UNCHANGED asks
        /\ coord' \in {"asking", "answering", "after"}
        /\ coord' = "asking" => UNCHANGED asked
        /\ \/ UNCHANGED <<batch, turns>>
           \/ batch' = batch \ {asked.role} /\ turns' = turns - 1
    BY <1>5 DEF AskStart, AfterStart, Starts, Refused
  <2>2. /\ batch \ {asked.role} \in SUBSET Roles /\ Cardinality(batch \ {asked.role}) \in Nat
        /\ Cardinality(batch \ {asked.role}) <= Cardinality(batch)
    BY BatchDel DEF LimitInv, LimitTypes
  <2>3. /\ batch' \in SUBSET Roles /\ Cardinality(batch') \in Nat
        /\ Cardinality(batch') <= Cardinality(batch)
    <3>1. CASE batch' = batch \ {asked.role}
      BY <2>2, <3>1
    <3>2. CASE batch' = batch
      BY <1>1, <3>2 DEF LimitInv, LimitTypes
    <3> QED BY <2>1, <3>1, <3>2
  <2>4. turns' \in Nat /\ turns' <= turns
    BY <2>1 DEF LimitInv, LimitTypes
  <2> QED BY <1>1, <2>1, <2>3, <2>4 DEF LimitInv, LimitTypes, One
<1>6. CASE AskTooLate \/ AskReturn
  <2>1. coord' = "answering" /\ UNCHANGED <<asks, batch, turns>>
    BY <1>6 DEF AskTooLate, AskReturn
  <2> QED BY <1>1, <2>1 DEF LimitInv, LimitTypes, One
<1>7. CASE CoordEnd \/ AfterTooLate
  <2>1. /\ coord' \in {"after", "leaving"} /\ UNCHANGED <<batch, turns>>
        /\ asks' \in Seq(Asks) /\ Len(asks') <= Len(asks) /\ Len(asks') \in Nat
    BY <1>1, <1>2, <1>7 DEF CoordEnd, AfterTooLate, roleVars, LimitInv, LimitTypes
  <2> QED BY <1>1, <2>1 DEF LimitInv, LimitTypes, One
<1> QED BY <1>3, <1>4, <1>5, <1>6, <1>7

\* A role that is done leaves the batch.
LEMMA LimitRole ==
    ASSUME LimitInv, NEW r \in Roles, RoleAnswers(r) \/ RoleDone(r) \/ ChildDone(r)
    PROVE  LimitInv'
<1>1. /\ Cardinality(batch) \in Nat /\ Len(asks) \in Nat
      /\ MaxTurns \in Nat /\ Concurrency \in Nat /\ Len(Voters) \in Nat
  BY RolesAssumption, LimitsAssumption, FS_Subset, FS_CardinalityType DEF LimitInv, LimitTypes
<1>2. batch' = batch \ {r} /\ UNCHANGED <<coord, asks, asked, turns>>
  BY DEF RoleAnswers, RoleDone, ChildDone, RoleCounted
<1>3. batch' \in SUBSET Roles /\ Cardinality(batch') \in Nat /\ Cardinality(batch') <= Cardinality(batch)
  BY <1>2, BatchDel DEF LimitInv, LimitTypes
<1> QED BY <1>1, <1>2, <1>3 DEF LimitInv, LimitTypes, One

\* Every step keeps them.
LEMMA LimitNext == LimitInv /\ [Next]_vars => LimitInv'
<1> SUFFICES ASSUME LimitInv, [Next]_vars PROVE LimitInv'
  OBVIOUS
<1> USE DEF limitVars, roleVars
<1>1. CASE UNCHANGED coordVars
  BY <1>1, LimitIdle DEF coordVars
<1>2. CASE NoCoord
  BY <1>2, LimitNoCoord
<1>3. CASE CoordStep
  <2>1. CASE DoneFinish
    BY <2>1, LimitNoCoord DEF DoneFinish, FinishRun
  <2>2. CASE Brief \/ OpenGate \/ DoneLook \/ AfterOver \/ CoordLeave
    BY <2>2, LimitIdle DEF Brief, OpenGate, Tool, DoneLook, AfterOver, CoordLeave
  <2> QED BY <1>3, <2>1, <2>2, LimitAsks, LimitStarts DEF CoordStep
<1>4. ASSUME NEW r \in Roles, RoleStep(r) PROVE LimitInv'
  <2>1. CASE RoleLeave(r)
    BY <2>1, LimitIdle DEF RoleLeave
  <2> QED BY <1>4, <2>1, LimitAsks, LimitRole DEF RoleStep
<1>5. ASSUME NEW w \in Callers, CallStep(w) PROVE LimitInv'
  <2>1. CASE CallRefused(w)
    BY <2>1, LimitNoCoord DEF CallRefused, FinishRun
  <2>2. CASE CallLook(w) \/ CallStart(w) \/ CallBusy(w) \/ CallReset(w)
    BY <2>2, LimitIdle DEF CallLook, CallStart, CallBusy, CallReset
  <2> QED BY <1>5, <2>1, <2>2 DEF CallStep
<1>6. CASE Retry \/ (\E i \in DOMAIN cards : CardDecided(i)) \/ GoOn \/ GoOnGivesUp \/ GoOnSend
  BY <1>6, LimitIdle DEF Retry, CardDecided, GoOn, GoOnGivesUp, GoOnSend
<1>7. CASE UNCHANGED vars
  BY <1>7, <1>1 DEF vars
<1>8. CASE Stop \/ Expire \/ Crash
  BY <1>8, <1>2 DEF Stop, Expire, Crash, FinishRun
<1> QED BY <1>1, <1>3, <1>4, <1>5, <1>6, <1>7, <1>8 DEF Next, CoordNext

\* limits.turns and limits.concurrency are kept by every run.
THEOREM LimitsAreKept == Spec => []LimitsKept
<1>1. LimitInv /\ [Next]_vars => LimitInv'
  BY LimitNext
<1>2. LimitInv => LimitsKept
  <2> SUFFICES ASSUME LimitInv PROVE LimitsKept
    OBVIOUS
  <2>1. Cardinality(batch) \in Nat /\ Len(asks) \in Nat
    BY RolesAssumption, FS_Subset, FS_CardinalityType DEF LimitInv, LimitTypes
  <2> QED BY <2>1, RolesAssumption, LimitsAssumption DEF LimitInv, LimitTypes, LimitsKept, One
<1> QED BY <1>1, <1>2, LimitInit, PTL DEF Spec

-----------------------------------------------------------------------------
(* The seats of the roles                                                  *)

SeatTypes ==
    /\ asks \in Seq(Asks)
    /\ coord \in {"ask", "askStart", "asking", "afterStart"} => asked \in Asks
    /\ batch \in SUBSET Roles
    /\ rstatus \in [Roles -> {"idle", "working", "answered"}]
    /\ turn \in [Roles -> {"none", "work", "vote", "flow", "leaving"}]

\* A seat is taken by a role at work or about to start, never by both.
Seats ==
    \A r \in Roles :
        /\ (r \in batch) <=> (rstatus[r] = "working")
        /\ (r \in batch) <=> (AtWork(r) \/ r \in Starting)
        /\ r \in Starting => ~AtWork(r)

\* A role that is asked for is asked for once, and does not work.
AskedApart ==
    /\ \A i \in DOMAIN asks : asks[i].role \notin batch
    /\ \A i, j \in DOMAIN asks : i # j => asks[i].role # asks[j].role
    /\ coord = "ask" => /\ ~asked.vote
                        /\ asked.role \notin batch
                        /\ \A i \in DOMAIN asks : asks[i].role # asked.role

\* A vote is asked for as a whole, in one turn of the coordinator.
InTurn == {"answering", "done", "ask", "askStart", "asking"}
VoteWhole ==
    /\ coord \in {"idle", "begun", "leaving"} => asks = <<>>
    /\ \A i \in DOMAIN asks : asks[i].vote =>
          /\ \E j \in DOMAIN Voters : asks[i].role = Voters[j]
          /\ coord \in InTurn =>
                \A j \in DOMAIN Voters : \E k \in DOMAIN asks : asks[k].role = Voters[j]

\* The roles that work or will, and those of them that vote.
Engaged(r) ==
    \/ r \in batch
    \/ \E i \in DOMAIN asks : asks[i].role = r
    \/ coord = "ask" /\ asked.role = r
Ballot(r) ==
    \/ turn[r] = "vote"
    \/ r \in Starting /\ asked.vote
    \/ \E i \in DOMAIN asks : asks[i].role = r /\ asks[i].vote
Sides ==
    \A a, b \in Roles :
        a # b /\ Engaged(a) /\ Engaged(b) => SameBatch(a, b) \/ (Ballot(a) /\ Ballot(b))

SeatInv == SeatTypes /\ Seats /\ AskedApart /\ VoteWhole /\ Sides

seatVars == <<asks, batch, rstatus, turn>>

\* What canAsk lets through works side by side with all there is.
LEMMA Apart ==
    ASSUME VotersApart, SeatInv, coord = "answering", NEW r \in Roles, r \notin batch, CanAsk(r)
    PROVE  \A i \in DOMAIN asks : asks[i].role # r
<1> SUFFICES ASSUME NEW i \in DOMAIN asks, asks[i].role = r PROVE FALSE
  OBVIOUS
<1>1. asks[i].vote
  BY DEF CanAsk, NotTwice
<1>2. /\ \E j \in DOMAIN Voters : r = Voters[j]
      /\ \A j \in DOMAIN Voters : \E k \in DOMAIN asks : asks[k].role = Voters[j]
  BY <1>1 DEF SeatInv, VoteWhole, InTurn
<1>3. PICK j \in DOMAIN Voters : r = Voters[j]
  BY <1>2
<1>4. PICK k \in DOMAIN Voters : k # j
  <2>1. Len(Voters) \in Nat /\ DOMAIN Voters = 1 .. Len(Voters) /\ Len(Voters) # 1
    BY RolesAssumption DEF VotersApart
  <2>2. 1 \in DOMAIN Voters /\ 2 \in DOMAIN Voters
    BY <2>1
  <2> QED BY <2>2
<1>5. PICK m \in DOMAIN asks : asks[m].role = Voters[k]
  BY <1>2
<1>6. Voters[k] # r /\ ~SameBatch(r, Voters[k])
  BY <1>3, <1>4, RolesAssumption DEF VotersApart
<1>7. Voters[k] \in Queued
  BY <1>5 DEF Queued
<1> QED BY <1>6, <1>7 DEF CanAsk, Beside

\* A run begins with every seat free.
LEMMA SeatInit == Init => SeatInv
  BY DEF Init, CoordInit, SeatInv, SeatTypes, Seats, AtWork, Starting, AskedApart, VoteWhole,
         Sides, Engaged

\* When nothing of the coordinator is left, every seat is free.
LEMMA SeatNoCoord == NoCoord => SeatInv'
  BY DEF NoCoord, SeatInv, SeatTypes, Seats, AtWork, Starting, AskedApart, VoteWhole,
         Sides, Engaged

\* A step that leaves the seats and what was asked for alone.
LEMMA SeatIdle ==
    ASSUME SeatInv, UNCHANGED seatVars,
           \/ coord' = coord /\ UNCHANGED asked
           \/ /\ coord \notin {"ask", "askStart", "afterStart"}
              /\ coord' \in InTurn \ {"ask", "askStart", "asking"}
              /\ coord \in InTurn \/ asks = <<>>
           \/ /\ coord \notin {"ask", "askStart", "afterStart"}
              /\ coord' \in {"idle", "begun", "leaving"} /\ asks = <<>>
    PROVE  SeatInv'
<1> USE DEF seatVars, InTurn
<1>1. CASE coord' = coord /\ UNCHANGED asked
  BY <1>1 DEF SeatInv, SeatTypes, Seats, AtWork, Starting, AskedApart, VoteWhole, Sides,
              Engaged, Ballot
<1>2. CASE /\ coord \notin {"ask", "askStart", "afterStart"}
           /\ coord' \notin {"ask", "askStart", "asking", "afterStart"}
  <2>1. Starting = {} /\ Starting' = {}
    BY <1>2 DEF Starting
  <2>2. SeatTypes' /\ Seats' /\ AskedApart'
    BY <1>2, <2>1 DEF SeatInv, SeatTypes, Seats, AtWork, AskedApart
  <2>3. Sides'
    BY <1>2, <2>1 DEF SeatInv, Sides, Engaged, Ballot
  <2>4. VoteWhole'
    BY DEF SeatInv, VoteWhole
  <2> QED BY <2>2, <2>3, <2>4 DEF SeatInv
<1> QED BY <1>1, <1>2

\* workflow_delegate, workflow_send.
LEMMA SeatDelegate ==
    ASSUME VotersApart, SeatInv, NEW r \in Roles, Delegate(r) \/ SendAgain(r)
    PROVE  SeatInv'
<1>1. /\ coord = "answering" /\ CanAsk(r) /\ UNCHANGED <<coord, asked, batch, rstatus, turn>>
      /\ rstatus[r] # "working"
      /\ asks' = Append(asks, [role |-> r, vote |-> FALSE])
  BY DEF Delegate, SendAgain, Tool, roleVars
<1>2. r \notin batch /\ \A i \in DOMAIN asks : asks[i].role # r
  BY <1>1, Apart DEF SeatInv, Seats
<1>3. [role |-> r, vote |-> FALSE] \in Asks
  BY DEF Asks
<1>4. /\ asks' \in Seq(Asks) /\ DOMAIN asks = 1 .. Len(asks) /\ Len(asks) \in Nat
      /\ DOMAIN asks' = 1 .. Len(asks) + 1
      /\ \A i \in DOMAIN asks : asks'[i] = asks[i]
      /\ asks'[Len(asks) + 1] = [role |-> r, vote |-> FALSE]
  BY <1>1, <1>3 DEF SeatInv, SeatTypes
<1>5. \A i \in DOMAIN asks' : (i \in DOMAIN asks /\ asks'[i] = asks[i])
                              \/ (i = Len(asks) + 1 /\ asks'[i] = [role |-> r, vote |-> FALSE])
  BY <1>4
<1>6. SeatTypes' /\ Seats'
  BY <1>1, <1>4 DEF SeatInv, SeatTypes, Seats, AtWork, Starting
<1>7. AskedApart'
  BY <1>1, <1>2, <1>5 DEF SeatInv, AskedApart
<1>8. VoteWhole'
  <2>1. ASSUME NEW i \in DOMAIN asks', asks'[i].vote
        PROVE  /\ \E j \in DOMAIN Voters : asks'[i].role = Voters[j]
               /\ \A j \in DOMAIN Voters : \E k \in DOMAIN asks' : asks'[k].role = Voters[j]
    <3>1. i \in DOMAIN asks /\ asks'[i] = asks[i]
      BY <1>5, <2>1
    <3>2. /\ \E j \in DOMAIN Voters : asks[i].role = Voters[j]
          /\ \A j \in DOMAIN Voters : \E k \in DOMAIN asks : asks[k].role = Voters[j]
      BY <1>1, <2>1, <3>1 DEF SeatInv, VoteWhole, InTurn
    <3> QED BY <1>4, <3>1, <3>2
  <2> QED BY <1>1, <2>1 DEF VoteWhole
<1>9. Sides'
  <2>1. \A a \in Roles : Engaged(a)' => Engaged(a) \/ a = r
    BY <1>1, <1>5 DEF Engaged
  <2>2. \A a \in Roles : Ballot(a) => Ballot(a)'
    BY <1>1, <1>4 DEF Ballot, Starting
  <2>3. \A a \in Roles \ {r} : Engaged(a) => SameBatch(r, a) /\ SameBatch(a, r)
    BY <1>1 DEF Engaged, CanAsk, Beside, Queued, SameBatch
  <2> QED BY <2>1, <2>2, <2>3 DEF SeatInv, Sides, SameBatch
<1> QED BY <1>6, <1>7, <1>8, <1>9 DEF SeatInv

\* workflow_ask.
LEMMA SeatAsk ==
    ASSUME VotersApart, SeatInv, NEW r \in Roles, Ask(r)
    PROVE  SeatInv'
<1>1. /\ coord = "answering" /\ CanAsk(r) /\ UNCHANGED <<asks, batch, rstatus, turn>>
      /\ rstatus[r] # "working" /\ coord' = "ask"
      /\ asked' = [role |-> r, vote |-> FALSE]
  BY DEF Ask, Tool
<1>2. r \notin batch /\ \A i \in DOMAIN asks : asks[i].role # r
  BY <1>1, Apart DEF SeatInv, Seats
<1>3. asked' \in Asks /\ asked'.role = r /\ ~asked'.vote
  BY <1>1 DEF Asks
<1>4. Starting = {} /\ Starting' = {}
  BY <1>1 DEF Starting
<1>5. SeatTypes' /\ Seats' /\ AskedApart'
  BY <1>1, <1>2, <1>3, <1>4 DEF SeatInv, SeatTypes, Seats, AtWork, AskedApart
<1>6. VoteWhole'
  BY <1>1 DEF SeatInv, VoteWhole, InTurn
<1>7. Sides'
  <2>1. \A a \in Roles : Engaged(a)' => Engaged(a) \/ a = r
    BY <1>1, <1>3 DEF Engaged
  <2>2. \A a \in Roles : Ballot(a) => Ballot(a)'
    BY <1>1, <1>4 DEF Ballot
  <2>3. \A a \in Roles \ {r} : Engaged(a) => SameBatch(r, a) /\ SameBatch(a, r)
    BY <1>1 DEF Engaged, CanAsk, Beside, Queued, SameBatch
  <2> QED BY <2>1, <2>2, <2>3 DEF SeatInv, Sides, SameBatch
<1> QED BY <1>5, <1>6, <1>7 DEF SeatInv

\* workflow_vote.
LEMMA SeatVote ==
    ASSUME SeatInv, Vote
    PROVE  SeatInv'
<1>1. /\ coord = "answering" /\ batch = {} /\ UNCHANGED <<coord, asked, batch, rstatus, turn>>
      /\ asks' = [i \in DOMAIN Voters |-> [role |-> Voters[i], vote |-> TRUE]]
  BY DEF Vote, Tool, roleVars
<1>2. /\ Len(Voters) \in Nat /\ DOMAIN Voters = 1 .. Len(Voters)
      /\ \A i \in 1 .. Len(Voters) : Voters[i] \in Roles
  BY RolesAssumption
<1>3. \A i \in 1 .. Len(Voters) : [role |-> Voters[i], vote |-> TRUE] \in Asks
  BY <1>2 DEF Asks
<1>4. /\ asks' \in Seq(Asks) /\ DOMAIN asks' = DOMAIN Voters
      /\ \A i \in DOMAIN Voters : asks'[i].role = Voters[i] /\ asks'[i].vote
  BY <1>1, <1>2, <1>3
<1>5. SeatTypes' /\ Seats'
  BY <1>1, <1>4 DEF SeatInv, SeatTypes, Seats, AtWork, Starting
<1>6. AskedApart' /\ VoteWhole'
  BY <1>1, <1>4, RolesAssumption DEF AskedApart, VoteWhole
<1>7. Sides'
  BY <1>1, <1>4 DEF Sides, Engaged, Ballot
<1> QED BY <1>5, <1>6, <1>7 DEF SeatInv

\* The seat is taken: by workflow_ask ...
LEMMA SeatAskMark ==
    ASSUME SeatInv, AskMark
    PROVE  SeatInv'
<1>1. /\ coord = "ask" /\ coord' = "askStart" /\ UNCHANGED <<asks, asked, turn>>
      /\ batch' = batch \cup {asked.role}
      /\ rstatus' = [rstatus EXCEPT ![asked.role] = "working"]
  BY DEF AskMark, Mark
<1>2. asked \in Asks /\ asked.role \in Roles
  BY <1>1 DEF SeatInv, SeatTypes, Asks
<1>3. Starting = {} /\ Starting' = {asked.role}
  BY <1>1 DEF Starting
<1>4. asked.role \notin batch /\ ~AtWork(asked.role)
  BY <1>1, <1>2 DEF SeatInv, Seats, AskedApart
<1>5. SeatTypes'
  BY <1>1, <1>2 DEF SeatInv, SeatTypes
<1>6. Seats'
  BY <1>1, <1>2, <1>3, <1>4 DEF SeatInv, SeatTypes, Seats, AtWork
<1>7. AskedApart'
  BY <1>1 DEF SeatInv, AskedApart
<1>8. VoteWhole'
  BY <1>1 DEF SeatInv, VoteWhole, InTurn
<1>9. Sides'
  <2>1. \A a \in Roles : Engaged(a)' => Engaged(a)
    BY <1>1 DEF Engaged
  <2>2. \A a \in Roles : Ballot(a) => Ballot(a)'
    BY <1>1, <1>3 DEF Ballot
  <2> QED BY <2>1, <2>2 DEF SeatInv, Sides
<1> QED BY <1>5, <1>6, <1>7, <1>8, <1>9 DEF SeatInv

\* ... or after the turn of the coordinator.
LEMMA SeatAfterMark ==
    ASSUME SeatInv, AfterMark
    PROVE  SeatInv'
<1>1. /\ coord = "after" /\ coord' = "afterStart" /\ asks # <<>> /\ UNCHANGED turn
      /\ asked' = Head(asks) /\ asks' = Tail(asks)
      /\ batch' = batch \cup {asked'.role}
      /\ rstatus' = [rstatus EXCEPT ![asked'.role] = "working"]
  BY DEF AfterMark, Mark
<1>2. /\ asks \in Seq(Asks) /\ Len(asks) \in Nat \ {0} /\ DOMAIN asks = 1 .. Len(asks)
      /\ 1 \in DOMAIN asks /\ asked' = asks[1] /\ asked' \in Asks /\ asked'.role \in Roles
      /\ asks' \in Seq(Asks) /\ DOMAIN asks' = 1 .. Len(asks) - 1
      /\ \A i \in DOMAIN asks' : i + 1 \in DOMAIN asks /\ i + 1 # 1 /\ asks'[i] = asks[i + 1]
  <2>1. asks \in Seq(Asks) /\ Len(asks) \in Nat /\ DOMAIN asks = 1 .. Len(asks)
    BY DEF SeatInv, SeatTypes
  <2>2. Len(asks) # 0
    BY <1>1, <2>1
  <2>3. 1 \in DOMAIN asks /\ asks[1] \in Asks /\ asked' = asks[1]
    BY <1>1, <2>1, <2>2
  <2>4. asked'.role \in Roles
    BY <2>3 DEF Asks
  <2>5. asks' \in Seq(Asks) /\ Len(asks') = Len(asks) - 1
    BY <1>1, <2>1, <2>2
  <2>6. DOMAIN asks' = 1 .. Len(asks) - 1
    BY <2>5
  <2>7. \A i \in 1 .. Len(asks) - 1 : asks'[i] = asks[i + 1]
    BY <1>1, <2>1, <2>2
  <2> QED BY <2>1, <2>2, <2>3, <2>4, <2>5, <2>6, <2>7
<1>3. Starting = {} /\ Starting' = {asked'.role}
  BY <1>1 DEF Starting
<1>4. asked'.role \notin batch /\ ~AtWork(asked'.role)
  BY <1>2 DEF SeatInv, Seats, AskedApart
<1>5. SeatTypes'
  BY <1>1, <1>2 DEF SeatInv, SeatTypes
<1>6. Seats'
  BY <1>1, <1>2, <1>3, <1>4 DEF SeatInv, SeatTypes, Seats, AtWork
<1>7. AskedApart'
  <2>1. \A i \in DOMAIN asks' : asks'[i].role \notin batch'
    BY <1>1, <1>2 DEF SeatInv, AskedApart
  <2>2. \A i, j \in DOMAIN asks' : i # j => asks'[i].role # asks'[j].role
    BY <1>2 DEF SeatInv, AskedApart
  <2> QED BY <1>1, <2>1, <2>2 DEF AskedApart
<1>8. VoteWhole'
  BY <1>1, <1>2 DEF SeatInv, VoteWhole, InTurn
<1>9. Sides'
  <2>1. \A a \in Roles : Engaged(a)' => Engaged(a)
    BY <1>1, <1>2 DEF Engaged
  <2>2. ASSUME NEW a \in Roles, Ballot(a) PROVE Ballot(a)'
    <3>1. CASE turn[a] = "vote"
      BY <1>1, <3>1 DEF Ballot
    <3>2. ASSUME NEW i \in DOMAIN asks, asks[i].role = a, asks[i].vote PROVE Ballot(a)'
      <4>1. CASE i = 1
        BY <1>2, <1>3, <3>2, <4>1 DEF Ballot
      <4>2. CASE i # 1
        <5>1. i - 1 \in DOMAIN asks' /\ asks'[i - 1] = asks[i]
          BY <1>2, <4>2
        <5> QED BY <3>2, <5>1 DEF Ballot
      <4> QED BY <4>1, <4>2
    <3> QED BY <1>3, <2>2, <3>1, <3>2 DEF Ballot
  <2> QED BY <2>1, <2>2 DEF SeatInv, Sides
<1> QED BY <1>5, <1>6, <1>7, <1>8, <1>9 DEF SeatInv

\* The turn starts, or it does not and the seat is free again.
LEMMA SeatStart ==
    ASSUME SeatInv, AskStart \/ AfterStart
    PROVE  SeatInv'
<1>1. /\ coord \in {"askStart", "afterStart"} /\ UNCHANGED asks
      /\ coord = "askStart" => coord' \in {"asking", "answering"}
      /\ coord = "afterStart" => coord' = "after"
      /\ coord' = "asking" => UNCHANGED asked
      /\ \/ Starts(asked)
         \/ Refused(asked)
  BY DEF AskStart, AfterStart
<1>2. asked \in Asks /\ asked.role \in Roles
  BY <1>1 DEF SeatInv, SeatTypes, Asks
<1>3. Starting = {asked.role} /\ Starting' = {}
  BY <1>1 DEF Starting
<1>4. asked.role \in batch /\ ~AtWork(asked.role)
  BY <1>2, <1>3 DEF SeatInv, Seats
<1>5. CASE Starts(asked)
  <2>1. /\ turn' = [turn EXCEPT ![asked.role] = Kind(asked)]
        /\ UNCHANGED <<batch, rstatus>> /\ Kind(asked) \in {"work", "vote", "flow"}
        /\ asked.vote => Kind(asked) = "vote"
    BY <1>5 DEF Starts, Kind
  <2>2. SeatTypes'
    BY <1>1, <1>2, <2>1 DEF SeatInv, SeatTypes
  <2>3. Seats'
    BY <1>2, <1>3, <1>4, <2>1 DEF SeatInv, SeatTypes, Seats, AtWork
  <2>4. AskedApart' /\ VoteWhole'
    BY <1>1, <2>1 DEF SeatInv, AskedApart, VoteWhole, InTurn
  <2>5. Sides'
    <3>1. \A a \in Roles : Engaged(a)' => Engaged(a)
      BY <1>1, <2>1 DEF Engaged
    <3>2. \A a \in Roles : Ballot(a) => Ballot(a)'
      BY <1>1, <1>2, <1>3, <1>4, <2>1 DEF Ballot, SeatInv, SeatTypes, AtWork
    <3> QED BY <3>1, <3>2 DEF SeatInv, Sides
  <2> QED BY <2>2, <2>3, <2>4, <2>5 DEF SeatInv
<1>6. CASE Refused(asked)
  <2>1. /\ UNCHANGED turn /\ batch' = batch \ {asked.role}
        /\ rstatus' = [rstatus EXCEPT ![asked.role] = "answered"]
    BY <1>6 DEF Refused
  <2>2. SeatTypes'
    BY <1>1, <1>2, <2>1 DEF SeatInv, SeatTypes
  <2>3. Seats'
    BY <1>2, <1>3, <1>4, <2>1 DEF SeatInv, SeatTypes, Seats, AtWork
  <2>4. AskedApart' /\ VoteWhole'
    BY <1>1, <2>1 DEF SeatInv, AskedApart, VoteWhole, InTurn
  <2>5. Sides'
    <3>1. \A a \in Roles : Engaged(a)' => Engaged(a) /\ a # asked.role
      BY <1>1, <1>4, <2>1 DEF Engaged, SeatInv, AskedApart
    <3>2. \A a \in Roles \ {asked.role} : Ballot(a) => Ballot(a)'
      BY <1>1, <1>3, <2>1 DEF Ballot
    <3> QED BY <3>1, <3>2 DEF SeatInv, Sides
  <2> QED BY <2>2, <2>3, <2>4, <2>5 DEF SeatInv
<1> QED BY <1>1, <1>5, <1>6

\* What was asked for is begun, or given up as the time is over.
LEMMA SeatLeaves ==
    ASSUME SeatInv, CoordEnd \/ AfterTooLate
    PROVE  SeatInv'
<1>1. /\ coord \in {"answering", "after"} /\ coord' \in {"after", "leaving"}
      /\ UNCHANGED <<batch, rstatus, turn>>
      /\ coord' = "leaving" => asks' = <<>>
      /\ asks' = asks \/ asks' = <<>> \/ (asks # <<>> /\ asks' = Tail(asks))
  BY DEF CoordEnd, AfterTooLate, roleVars
<1>2. /\ asks' \in Seq(Asks)
      /\ \E d \in {0, 1} : \A i \in DOMAIN asks' : i + d \in DOMAIN asks /\ asks'[i] = asks[i + d]
  <2>1. CASE asks' = asks
    BY <2>1 DEF SeatInv, SeatTypes
  <2>2. CASE asks' = <<>>
    BY <2>2
  <2>3. CASE asks # <<>> /\ asks' = Tail(asks)
    <3>1. /\ asks' \in Seq(Asks) /\ DOMAIN asks' = 1 .. Len(asks) - 1 /\ DOMAIN asks = 1 .. Len(asks)
          /\ Len(asks) \in Nat /\ \A i \in DOMAIN asks' : asks'[i] = asks[i + 1]
      BY <2>3 DEF SeatInv, SeatTypes
    <3> QED BY <3>1
  <2> QED BY <1>1, <2>1, <2>2, <2>3
<1>3. PICK d \in {0, 1} : \A i \in DOMAIN asks' : i + d \in DOMAIN asks /\ asks'[i] = asks[i + d]
  BY <1>2
<1>4. \A i \in DOMAIN asks' : i \in Nat
  BY <1>2
<1>5. Starting = {} /\ Starting' = {}
  BY <1>1 DEF Starting
<1>6. SeatTypes' /\ Seats'
  BY <1>1, <1>2, <1>5 DEF SeatInv, SeatTypes, Seats, AtWork
<1>7. AskedApart'
  BY <1>1, <1>3, <1>4 DEF SeatInv, AskedApart
<1>8. VoteWhole'
  BY <1>1, <1>3 DEF SeatInv, VoteWhole, InTurn
<1>9. Sides'
  <2>1. ASSUME NEW a \in Roles, Engaged(a)' PROVE Engaged(a)
    BY <1>1, <1>3, <2>1 DEF Engaged
  <2>2. ASSUME NEW a \in Roles, Engaged(a)', Ballot(a) PROVE Ballot(a)'
    <3>1. CASE a \in batch
      <4>1. turn[a] = "vote"
        BY <1>5, <2>2, <3>1 DEF Ballot, SeatInv, AskedApart
      <4> QED BY <1>1, <4>1 DEF Ballot
    <3>2. CASE a \notin batch
      <4>1. PICK i \in DOMAIN asks' : asks'[i].role = a
        BY <1>1, <2>2, <3>2 DEF Engaged
      <4>2. i + d \in DOMAIN asks /\ asks[i + d].role = a /\ asks'[i] = asks[i + d]
        BY <1>3, <4>1
      <4>3. CASE turn[a] = "vote"
        BY <1>1, <4>3 DEF Ballot
      <4>4. CASE turn[a] # "vote"
        <5>1. PICK j \in DOMAIN asks : asks[j].role = a /\ asks[j].vote
          BY <1>5, <2>2, <4>4 DEF Ballot
        <5>2. j = i + d
          BY <4>2, <5>1 DEF SeatInv, AskedApart
        <5> QED BY <4>1, <4>2, <5>1, <5>2 DEF Ballot
      <4> QED BY <4>3, <4>4
    <3> QED BY <3>1, <3>2
  <2> QED BY <2>1, <2>2 DEF SeatInv, Sides
<1> QED BY <1>6, <1>7, <1>8, <1>9 DEF SeatInv

\* workflow_ask gives up or returns.
LEMMA SeatAskOver ==
    ASSUME SeatInv, AskTooLate \/ AskReturn
    PROVE  SeatInv'
<1>1. /\ coord \in {"ask", "asking"} /\ coord' = "answering"
      /\ UNCHANGED <<asks, batch, rstatus, turn>>
  BY DEF AskTooLate, AskReturn
<1>2. Starting = {} /\ Starting' = {}
  BY <1>1 DEF Starting
<1>3. SeatTypes' /\ Seats' /\ AskedApart'
  BY <1>1, <1>2 DEF SeatInv, SeatTypes, Seats, AtWork, AskedApart
<1>4. VoteWhole'
  BY <1>1 DEF SeatInv, VoteWhole, InTurn
<1>5. Sides'
  BY <1>1, <1>2 DEF SeatInv, Sides, Engaged, Ballot
<1> QED BY <1>3, <1>4, <1>5 DEF SeatInv

\* A role answers, or its sub-workflow ends.
LEMMA SeatRole ==
    ASSUME SeatInv, NEW r \in Roles, RoleAnswers(r) \/ RoleDone(r) \/ ChildDone(r)
    PROVE  SeatInv'
<1>1. /\ UNCHANGED <<coord, asks, asked>> /\ AtWork(r)
      /\ batch' = batch \ {r}
      /\ rstatus' = [rstatus EXCEPT ![r] = "answered"]
      /\ \E t \in {"leaving", "none"} : turn' = [turn EXCEPT ![r] = t]
  BY DEF RoleAnswers, RoleDone, ChildDone, RoleCounted, AtWork
<1>2. r \in batch /\ r \notin Starting /\ Starting' = Starting
  BY <1>1 DEF SeatInv, Seats, Starting
<1>3. SeatTypes'
  BY <1>1 DEF SeatInv, SeatTypes
<1>4. Seats'
  BY <1>1, <1>2 DEF SeatInv, SeatTypes, Seats, AtWork
<1>5. AskedApart' /\ VoteWhole'
  BY <1>1 DEF SeatInv, AskedApart, VoteWhole
<1>6. Sides'
  <2>1. \A a \in Roles : Engaged(a)' => Engaged(a) /\ a # r
    BY <1>1, <1>2 DEF Engaged, SeatInv, AskedApart
  <2>2. \A a \in Roles \ {r} : Ballot(a) => Ballot(a)'
    BY <1>1, <1>2 DEF Ballot, SeatInv, SeatTypes
  <2> QED BY <2>1, <2>2 DEF SeatInv, Sides
<1> QED BY <1>3, <1>4, <1>5, <1>6 DEF SeatInv

\* ... and has left its place in the chat.
LEMMA SeatRoleLeave ==
    ASSUME SeatInv, NEW r \in Roles, RoleLeave(r)
    PROVE  SeatInv'
<1>1. /\ UNCHANGED <<coord, asks, asked, batch, rstatus>> /\ turn[r] = "leaving"
      /\ turn' = [turn EXCEPT ![r] = "none"]
  BY DEF RoleLeave
<1>2. Starting' = Starting
  BY <1>1 DEF Starting
<1>3. SeatTypes' /\ Seats' /\ AskedApart' /\ VoteWhole'
  BY <1>1, <1>2 DEF SeatInv, SeatTypes, Seats, AtWork, AskedApart, VoteWhole
<1>4. Sides'
  BY <1>1, <1>2 DEF SeatInv, SeatTypes, Sides, Engaged, Ballot
<1> QED BY <1>3, <1>4 DEF SeatInv

\* Every step keeps the seats true.
LEMMA SeatNext == ASSUME VotersApart PROVE SeatInv /\ [Next]_vars => SeatInv'
<1> SUFFICES ASSUME SeatInv, [Next]_vars PROVE SeatInv'
  OBVIOUS
<1> USE DEF seatVars, roleVars
<1>1. CASE UNCHANGED coordVars
  BY <1>1, SeatIdle DEF coordVars
<1>2. CASE CoordStep
  <2>1. CASE DoneFinish
    BY <2>1, SeatNoCoord DEF DoneFinish, FinishRun
  <2>2. CASE Brief
    <3>1. asks = <<>>
      BY <2>2 DEF Brief, SeatInv, VoteWhole
    <3> QED BY <2>2, <3>1, SeatIdle DEF Brief, InTurn
  <2>3. CASE OpenGate \/ DoneLook
    BY <2>3, SeatIdle DEF OpenGate, DoneLook, Tool, InTurn
  <2>4. CASE AfterOver
    BY <2>4, SeatIdle DEF AfterOver
  <2>5. CASE CoordLeave
    <3>1. asks = <<>>
      BY <2>5 DEF CoordLeave, SeatInv, VoteWhole
    <3> QED BY <2>5, <3>1, SeatIdle DEF CoordLeave
  <2> QED BY <1>2, <2>1, <2>2, <2>3, <2>4, <2>5, SeatVote, SeatAskMark, SeatAskOver, SeatStart,
             SeatLeaves, SeatAfterMark DEF CoordStep
<1>3. ASSUME NEW r \in Roles, RoleStep(r) PROVE SeatInv'
  BY <1>3, SeatDelegate, SeatAsk, SeatRole, SeatRoleLeave DEF RoleStep
<1>4. ASSUME NEW w \in Callers, CallStep(w) PROVE SeatInv'
  <2>1. CASE CallRefused(w)
    BY <2>1, SeatNoCoord DEF CallRefused, FinishRun
  <2>2. CASE CallStart(w)
    <3>1. asks = <<>>
      BY <2>2 DEF CallStart, SeatInv, VoteWhole
    <3> QED BY <2>2, <3>1, SeatIdle DEF CallStart
  <2>3. CASE CallLook(w) \/ CallBusy(w) \/ CallReset(w)
    BY <2>3, SeatIdle DEF CallLook, CallBusy, CallReset
  <2> QED BY <1>4, <2>1, <2>2, <2>3 DEF CallStep
<1>5. CASE GoOnSend
  <2>1. coord = "idle" => asks = <<>>
    BY DEF SeatInv, VoteWhole
  <2> QED BY <1>5, <2>1, SeatIdle DEF GoOnSend
<1>6. CASE Retry \/ (\E i \in DOMAIN cards : CardDecided(i)) \/ GoOn \/ GoOnGivesUp
  BY <1>6, SeatIdle DEF Retry, CardDecided, GoOn, GoOnGivesUp
<1>7. CASE Stop \/ Expire \/ Crash
  BY <1>7, SeatNoCoord DEF Stop, Expire, Crash, FinishRun
<1>8. CASE UNCHANGED vars
  BY <1>8, <1>1 DEF vars
<1> QED BY <1>1, <1>2, <1>3, <1>4, <1>5, <1>6, <1>7, <1>8 DEF Next, CoordNext

\* Whatever the roles do, they work in the seats that are counted as taken ...
THEOREM SeatsAreTrue == Spec => []SeatTrue
<1>1. CASE VotersApart
  <2>1. SeatInv => SeatTrue
    BY DEF SeatInv, Seats, SeatTrue
  <2> QED BY <1>1, <2>1, SeatInit, SeatNext, PTL DEF Spec
<1>2. CASE ~VotersApart
  <2>1. SeatTrue
    BY <1>2 DEF SeatTrue
  <2> QED BY <2>1, PTL
<1> QED BY <1>1, <1>2

\* ... and only beside roles of their own group.
THEOREM WorkSideBySide == Spec => []SideBySide
<1>1. CASE VotersApart
  <2>1. SeatInv => SideBySide
    <3> SUFFICES ASSUME SeatInv, NEW a \in Roles, NEW b \in Roles, a # b,
                        turn[a] \in {"work", "flow"}, turn[b] \in {"work", "flow"}
                 PROVE  SameBatch(a, b)
      BY DEF SideBySide
    <3>1. \A r \in {a, b} : AtWork(r) /\ r \in batch /\ r \notin Starting
      BY DEF SeatInv, Seats, AtWork
    <3>2. \A r \in {a, b} : Engaged(r) /\ ~Ballot(r)
      BY <3>1 DEF Engaged, Ballot, SeatInv, AskedApart
    <3> QED BY <3>2 DEF SeatInv, Sides
  <2> QED BY <1>1, <2>1, SeatInit, SeatNext, PTL DEF Spec
<1>2. CASE ~VotersApart
  <2>1. SideBySide
    BY <1>2 DEF SideBySide
  <2> QED BY <2>1, PTL
<1> QED BY <1>1, <1>2

-----------------------------------------------------------------------------
(* workflow_done                                                           *)

\* Nothing changes between its checks and the end that could undo them.
DoneInv ==
    /\ mode = "coordinator" => runner = "off"
    /\ coord = "done" => gate = "passed" /\ asks = <<>> /\ \A r \in Roles : rstatus[r] # "working"

\* Most steps leave what workflow_done looked at alone.
LEMMA DoneIdle ==
    ASSUME DoneInv, mode' = mode, UNCHANGED runner,
           coord' # "done" \/ (coord' = coord /\ UNCHANGED <<gate, asks, rstatus>>)
    PROVE  DoneInv'
  BY DEF DoneInv

\* What workflow_done saw stays true, whatever the others do.
LEMMA DoneNext == SeatInv /\ DoneInv /\ [Next]_vars => DoneInv'
<1> SUFFICES ASSUME SeatInv, DoneInv, [Next]_vars PROVE DoneInv'
  OBVIOUS
<1> USE DEF roleVars, gateVars
<1>1. mode' = mode
  BY NextCases DEF EndsOnly, SaveEnd, SaveLate, CallerAnswers, RunRestart, RunCrash
<1>2. CASE RunStep /\ UNCHANGED <<coordVars, stepVars>>
  BY <1>1, <1>2, DoneIdle DEF coordVars, stepVars
<1>3. CASE StepsNext /\ UNCHANGED coordVars
  <2>1. mode # "coordinator"
    BY <1>3 DEF DoneInv, StepsNext, StartStep, StepTooMany, AllStarted, NoneLeft, RunnerStopped,
                StepResult, StepFails
  <2>2. UNCHANGED <<coord, gate, asks, rstatus>>
    BY <1>3 DEF coordVars
  <2> QED BY <1>1, <2>1, <2>2 DEF DoneInv
<1>4. CASE Stop \/ Expire \/ Crash
  <2>1. coord' = "idle" /\ runner' \in {runner, "off"}
    BY <1>4 DEF Stop, Expire, Crash, FinishRun, NoCoord, NoSteps, stepVars
  <2> QED BY <1>1, <2>1 DEF DoneInv
<1>5. CASE CoordNext /\ UNCHANGED stepVars
  <2>1. UNCHANGED runner
    BY <1>5 DEF stepVars
  <2> USE <1>1, <2>1, DoneIdle
  <2>2. CASE CoordStep
    <3>1. CASE DoneLook
      BY <3>1 DEF DoneLook, MayFinish, DoneInv
    <3>2. CASE DoneFinish
      BY <3>2 DEF DoneFinish, FinishRun, NoCoord
    <3>3. CASE Brief \/ Vote \/ OpenGate \/ AskMark \/ AskTooLate \/ AskStart \/ AskReturn
      BY <3>3 DEF Brief, Vote, OpenGate, Tool, AskMark, AskTooLate, AskStart, AskReturn
    <3>4. CASE CoordEnd \/ AfterMark \/ AfterTooLate \/ AfterStart \/ AfterOver \/ CoordLeave
      BY <3>4 DEF CoordEnd, AfterMark, AfterTooLate, AfterStart, AfterOver, CoordLeave
    <3> QED BY <2>2, <3>1, <3>2, <3>3, <3>4 DEF CoordStep
  <2>3. ASSUME NEW r \in Roles, RoleStep(r) PROVE DoneInv'
    <3>1. CASE Delegate(r) \/ SendAgain(r) \/ Ask(r)
      BY <3>1 DEF Delegate, SendAgain, Ask, Tool
    <3>2. CASE RoleAnswers(r) \/ RoleDone(r) \/ ChildDone(r)
      <4>1. /\ UNCHANGED <<coord, gate, asks>>
            /\ rstatus' = [rstatus EXCEPT ![r] = "answered"]
        BY <3>2 DEF RoleAnswers, RoleDone, ChildDone, RoleCounted
      <4> QED BY <4>1 DEF DoneInv, SeatInv, SeatTypes
    <3>3. CASE RoleLeave(r)
      BY <3>3 DEF RoleLeave
    <3> QED BY <2>3, <3>1, <3>2, <3>3 DEF RoleStep
  <2>4. ASSUME NEW w \in Callers, CallStep(w) PROVE DoneInv'
    <3>1. CASE CallRefused(w)
      BY <3>1 DEF CallRefused, FinishRun, NoCoord
    <3>2. CASE CallLook(w) \/ CallStart(w) \/ CallBusy(w) \/ CallReset(w)
      BY <3>2 DEF CallLook, CallStart, CallBusy, CallReset
    <3> QED BY <2>4, <3>1, <3>2 DEF CallStep
  <2>5. CASE Retry \/ (\E i \in DOMAIN cards : CardDecided(i)) \/ GoOn \/ GoOnGivesUp \/ GoOnSend
    BY <2>5 DEF Retry, CardDecided, GoOn, GoOnGivesUp, GoOnSend
  <2> QED BY <1>5, <2>2, <2>3, <2>4, <2>5 DEF CoordNext
<1>6. CASE UNCHANGED vars
  BY <1>1, <1>6, DoneIdle DEF vars, coordVars, stepVars
<1> QED BY <1>2, <1>3, <1>4, <1>5, <1>6 DEF Next

\* Only workflow_done ends a coordinator's run as done.
LEMMA DoneOnlyThen == CoordNext => status' = status \/ status' = "failed" \/ DoneFinish
<1> USE DEF run, besidesTime, restOfRun
<1>1. ASSUME CoordStep, ~DoneFinish PROVE status' = status
  <2>1. CASE Brief \/ Vote \/ OpenGate \/ DoneLook \/ AskMark \/ AskTooLate \/ AskStart \/ AskReturn
    BY <2>1 DEF Brief, Vote, OpenGate, DoneLook, AskMark, AskTooLate, AskStart, AskReturn
  <2>2. CASE CoordEnd \/ AfterMark \/ AfterTooLate \/ AfterStart \/ AfterOver \/ CoordLeave
    BY <2>2 DEF CoordEnd, AfterMark, AfterTooLate, AfterStart, AfterOver, CoordLeave
  <2> QED BY <1>1, <2>1, <2>2 DEF CoordStep
<1>2. ASSUME NEW r \in Roles, RoleStep(r) PROVE status' = status
  BY <1>2 DEF RoleStep, Delegate, SendAgain, Ask, RoleAnswers, RoleDone, ChildDone, RoleLeave,
              RoleCounted
<1>3. ASSUME NEW w \in Callers, CallStep(w) PROVE status' = status \/ status' = "failed"
  <2>1. CASE CallRefused(w)
    BY <2>1 DEF CallRefused, FinishRun, End
  <2>2. CASE CallLook(w) \/ CallStart(w) \/ CallBusy(w) \/ CallReset(w)
    BY <2>2 DEF CallLook, CallStart, CallBusy, CallReset
  <2> QED BY <1>3, <2>1, <2>2 DEF CallStep
<1>4. CASE Retry \/ (\E i \in DOMAIN cards : CardDecided(i)) \/ GoOn \/ GoOnGivesUp \/ GoOnSend
  BY <1>4 DEF Retry, CardDecided, GoOn, GoOnGivesUp, GoOnSend
<1> QED BY <1>1, <1>2, <1>3, <1>4 DEF CoordNext

\* A run is done only when its gate is passed and its roles are at rest.
THEOREM DoneIsClean == Spec => DoneClean
<1>1. Init => DoneInv
  BY DEF Init, CoordInit, StepInit, DoneInv
<1>2. ASSUME SeatInv, DoneInv, RowInv, [Next]_vars, live, status' = "done", mode = "coordinator"
      PROVE  /\ gate = "passed"
             /\ asks = <<>> /\ \A r \in Roles : ~AtWork(r)
  <2>1. DoneFinish
    <3>1. status' # status
      BY <1>2 DEF RowInv
    <3>2. CASE RunStep
      BY <3>1, <3>2 DEF RunStep, SaveEnd, SaveLate, CallerAnswers, RunRestart
    <3>3. CASE CoordNext
      BY <1>2, <3>1, <3>3, DoneOnlyThen
    <3>4. CASE StepsNext
      BY <1>2, <3>4 DEF DoneInv, StepsNext, StartStep, StepTooMany, AllStarted, NoneLeft,
                        RunnerStopped, StepResult, StepFails
    <3>5. CASE Stop \/ Expire \/ Crash
      BY <1>2, <3>5 DEF Stop, Expire, Crash, FinishRun, End, RunCrash
    <3>6. CASE UNCHANGED vars
      BY <3>1, <3>6 DEF vars, run
    <3> QED BY <1>2, <3>2, <3>3, <3>4, <3>5, <3>6 DEF Next
  <2> QED BY <1>2, <2>1 DEF DoneFinish, DoneInv, SeatInv, Seats
<1>3. CASE VotersApart
  <2>1. SeatInv /\ DoneInv /\ RowInv /\ [Next]_vars =>
          [VotersApart /\ live /\ status' = "done" /\ mode = "coordinator" =>
             /\ gate = "passed"
             /\ asks = <<>> /\ \A r \in Roles : ~AtWork(r)]_vars
    BY <1>2
  <2> QED BY <1>1, <1>3, <2>1, SeatInit, SeatNext, DoneNext, RowKept, PTL DEF Spec, DoneClean
<1>4. CASE ~VotersApart
  <2>1. [VotersApart /\ live /\ status' = "done" /\ mode = "coordinator" =>
           /\ gate = "passed"
           /\ asks = <<>> /\ \A r \in Roles : ~AtWork(r)]_vars
    BY <1>4
  <2> QED BY <2>1, PTL DEF DoneClean
<1> QED BY <1>3, <1>4

-----------------------------------------------------------------------------
(* Types of the coordinator                                                *)

Stages == {"look", "start", "reset", "retry"}
CallsOK == calls \in [Callers -> [Stages -> Nat]]

\* The coordinator's turn and what it asked for.
TurnOK ==
    /\ coord \in {"idle", "begun", "answering", "ask", "askStart", "asking", "done",
                  "after", "afterStart", "leaving"}
    /\ asks \in Seq(Asks)
    /\ asked \in Asks \cup {NoAsk}
    /\ began \in BOOLEAN

\* The roles.
RolesOK ==
    /\ rstatus \in [Roles -> {"idle", "working", "answered"}]
    /\ rounds \in [Roles -> 0 .. MaxRounds]
    /\ turn \in [Roles -> {"none", "work", "vote", "flow", "leaving"}]
    /\ batch \subseteq Roles
    /\ turns \in Nat
    /\ waiting \subseteq Roles
    /\ owed \in BOOLEAN /\ voting \in BOOLEAN

\* Its gate, and what it has not been told.
GateOK ==
    /\ tries \in Nat
    /\ gate \in {"open", "waiting", "passed", "failed"}
    /\ cards \in Seq({"pending", "done", "failed"})
    /\ decided \subseteq {"held", "taken"}
    /\ untold \in BOOLEAN

\* The type of the coordinator, in four parts.
LEMMA CoordParts == CoordTypeOK <=> TurnOK /\ RolesOK /\ GateOK /\ CallsOK
  BY DEF CoordTypeOK, TurnOK, RolesOK, GateOK, CallsOK, Stages

\* Where nothing of the coordinator is in memory, it is well typed.
LEMMA NoCoordTyped == NoCoord => CoordTypeOK'
<1> SUFFICES ASSUME NoCoord PROVE CoordTypeOK'
  OBVIOUS
<1>1. TurnOK'
  <2>1. coord' = "idle" /\ asks' = <<>> /\ asked' = NoAsk /\ began' = FALSE
    BY DEF NoCoord
  <2>2. began' \in BOOLEAN
    BY <2>1, Zenon
  <2> QED
    BY <2>1, <2>2 DEF TurnOK
<1>2. RolesOK'
  <2>1. /\ rstatus' = [r \in Roles |-> "idle"] /\ rounds' = [r \in Roles |-> 0]
        /\ turn' = [r \in Roles |-> "none"]
        /\ batch' = {} /\ turns' = 0 /\ waiting' = {} /\ owed' = FALSE /\ voting' = FALSE
    BY DEF NoCoord
  <2>2. owed' \in BOOLEAN /\ voting' \in BOOLEAN
    BY <2>1, Zenon
  <2> QED
    BY <2>1, <2>2, LimitsAssumption DEF RolesOK
<1>3. GateOK'
  <2>1. tries' = 0 /\ gate' = "open" /\ cards' = <<>> /\ decided' = {} /\ untold' = FALSE
    BY DEF NoCoord
  <2>2. untold' \in BOOLEAN
    BY <2>1, Zenon
  <2> QED
    BY <2>1, <2>2 DEF GateOK
<1>4. CallsOK'
  BY DEF NoCoord, CallsOK, NoCalls, Stages
<1> QED
  BY <1>1, <1>2, <1>3, <1>4, CoordParts, PTL

\* A call-back more, one less, and one that goes on.
LEMMA CallsChange ==
    ASSUME CallsOK, NEW w \in Callers, NEW s \in Stages
    PROVE  /\ calls[w][s] \in Nat
           /\ Enter(w, s) => CallsOK'
           /\ calls[w][s] > 0 /\ Leave(w, s) => CallsOK'
           /\ \A t \in Stages : calls[w][s] > 0 /\ Step(w, s, t) => CallsOK'
<1>1. calls[w] \in [Stages -> Nat] /\ calls[w][s] \in Nat
  BY DEF CallsOK
<1>2. ASSUME NEW f \in [Stages -> Nat], calls' = [calls EXCEPT ![w] = f] PROVE CallsOK'
  BY <1>2 DEF CallsOK
<1>3. Enter(w, s) => CallsOK'
  <2>1. [calls[w] EXCEPT ![s] = @ + 1] \in [Stages -> Nat]
    BY <1>1
  <2>2. Enter(w, s) => calls' = [calls EXCEPT ![w] = [calls[w] EXCEPT ![s] = @ + 1]]
    BY DEF Enter
  <2> QED
    BY <1>2, <2>1, <2>2
<1>4. calls[w][s] > 0 /\ Leave(w, s) => CallsOK'
  <2>1. calls[w][s] > 0 => [calls[w] EXCEPT ![s] = @ - 1] \in [Stages -> Nat]
    BY <1>1
  <2>2. Leave(w, s) => calls' = [calls EXCEPT ![w] = [calls[w] EXCEPT ![s] = @ - 1]]
    BY DEF Leave
  <2> QED
    BY <1>2, <2>1, <2>2
<1>5. ASSUME NEW t \in Stages, calls[w][s] > 0, Step(w, s, t) PROVE CallsOK'
  <2> DEFINE f == [calls[w] EXCEPT ![s] = @ - 1]
             g == [f EXCEPT ![t] = @ + 1]
  <2>1. f \in [Stages -> Nat]
    BY <1>1, <1>5
  <2>2. g \in [Stages -> Nat]
    BY <2>1
  <2>3. calls' = [calls EXCEPT ![w] = g]
    BY <1>5 DEF Step, CallsOK
  <2> QED
    BY <1>2, <2>2, <2>3
<1> QED
  BY <1>1, <1>3, <1>4, <1>5

\* What its gate becomes.
LEMMA RefreshedTyped == GateOK => Refreshed \in {"open", "waiting", "passed", "failed"}
  BY DEF GateOK, Refreshed

\* What it asks for.
LEMMA AskTyped == ASSUME NEW r \in Roles, NEW v \in BOOLEAN PROVE [role |-> r, vote |-> v] \in Asks
  BY DEF Asks

\* The coordinator's turn, and its tools.
LEMMA TypesTurn ==
    ASSUME CoordTypeOK, Brief \/ Vote \/ OpenGate \/ DoneLook
    PROVE  CoordTypeOK'
<1> USE DEF roleVars, gateVars, callVars
<1>1. TurnOK /\ RolesOK /\ GateOK /\ CallsOK
  BY CoordParts
<1>2. CallsOK' /\ RolesOK'
  BY <1>1 DEF Brief, Vote, OpenGate, DoneLook, CallsOK, RolesOK
<1>3. TurnOK'
  <2>1. CASE Vote
    <3>1. Len(Voters) \in Nat /\ DOMAIN Voters = 1 .. Len(Voters) /\ \A i \in 1 .. Len(Voters) : Voters[i] \in Roles
      BY RolesAssumption
    <3>2. \A i \in 1 .. Len(Voters) : [role |-> Voters[i], vote |-> TRUE] \in Asks
      BY <3>1, AskTyped
    <3>3. asks' \in Seq(Asks)
      BY <2>1, <3>1, <3>2 DEF Vote
    <3> QED
      BY <1>1, <2>1, <3>3 DEF Vote, TurnOK
  <2>2. CASE Brief \/ OpenGate \/ DoneLook
    BY <1>1, <2>2 DEF Brief, OpenGate, DoneLook, TurnOK
  <2> QED
    BY <2>1, <2>2
<1>4. GateOK'
  <2>1. CASE OpenGate
    <3>1. cards' \in Seq({"pending", "done", "failed"}) /\ gate' \in {"waiting", "passed", "failed"}
      BY <1>1, <2>1 DEF OpenGate, GateOK
    <3> QED
      BY <1>1, <2>1, <3>1 DEF OpenGate, GateOK
  <2>2. CASE Brief \/ Vote \/ DoneLook
    BY <1>1, <2>2, RefreshedTyped DEF Brief, Vote, DoneLook, GateOK
  <2> QED
    BY <2>1, <2>2
<1> QED
  BY <1>2, <1>3, <1>4, CoordParts, PTL

\* Tools that ask for a role.
LEMMA TypesAsk ==
    ASSUME CoordTypeOK, NEW r \in Roles, Delegate(r) \/ SendAgain(r) \/ Ask(r)
    PROVE  CoordTypeOK'
<1> USE DEF roleVars, gateVars, callVars
<1>1. TurnOK /\ RolesOK /\ GateOK /\ CallsOK
  BY CoordParts
<1>2. CallsOK' /\ GateOK'
  BY <1>1 DEF Delegate, SendAgain, Ask, CallsOK, GateOK
<1>3. TurnOK'
  <2>1. [role |-> r, vote |-> FALSE] \in Asks
    BY AskTyped
  <2>2. CASE Delegate(r) \/ SendAgain(r)
    <3>1. asks' \in Seq(Asks) /\ UNCHANGED <<coord, asked, began>>
      BY <1>1, <2>1, <2>2 DEF Delegate, SendAgain, TurnOK
    <3> QED
      BY <1>1, <3>1 DEF TurnOK
  <2>3. CASE Ask(r)
    <3>1. coord' = "ask" /\ asked' \in Asks /\ UNCHANGED <<asks, began>>
      BY <2>1, <2>3 DEF Ask
    <3> QED
      BY <1>1, <3>1 DEF TurnOK
  <2> QED
    BY <2>2, <2>3
<1>4. RolesOK'
  <2>1. rounds[r] \in 0 .. MaxRounds /\ rounds \in [Roles -> 0 .. MaxRounds]
    BY <1>1 DEF RolesOK
  <2>2. CASE Delegate(r)
    BY <1>1, <2>2 DEF Delegate, RolesOK
  <2>3. CASE SendAgain(r)
    <3>1. rounds' \in [Roles -> 0 .. MaxRounds]
      BY <2>1, <2>3, LimitsAssumption DEF SendAgain, MayFollow
    <3> QED
      BY <1>1, <2>3, <3>1 DEF SendAgain, RolesOK
  <2>4. CASE Ask(r)
    <3>1. rounds' \in [Roles -> 0 .. MaxRounds]
      BY <2>1, <2>4, LimitsAssumption DEF Ask, MayFollow
    <3> QED
      BY <1>1, <2>4, <3>1 DEF Ask, RolesOK
  <2> QED
    BY <2>2, <2>3, <2>4
<1> QED
  BY <1>2, <1>3, <1>4, CoordParts, PTL

\* Starting what was asked for.
LEMMA TypesStart ==
    ASSUME CoordTypeOK, LimitInv,
           \/ AskMark \/ AskTooLate \/ AskStart \/ AskReturn
           \/ CoordEnd \/ AfterMark \/ AfterTooLate \/ AfterStart \/ AfterOver \/ CoordLeave
    PROVE  CoordTypeOK'
<1> USE DEF roleVars, gateVars, callVars
<1>1. TurnOK /\ RolesOK /\ GateOK /\ CallsOK
  BY CoordParts
<1>2. GateOK'
  BY <1>1 DEF AskMark, AskTooLate, AskStart, AskReturn, CoordEnd, AfterMark, AfterTooLate,
              AfterStart, AfterOver, CoordLeave, GateOK
<1>3. CallsOK'
  <2>1. CASE AfterOver
    <3>1. calls' = calls \/ Enter(Coord, "look")
      BY <2>1 DEF AfterOver
    <3> QED
      BY <1>1, <3>1, CallsChange DEF Callers, Stages, CallsOK
  <2>2. CASE calls' = calls
    BY <1>1, <2>2 DEF CallsOK
  <2> QED
    BY <2>1, <2>2 DEF AskMark, AskTooLate, AskStart, AskReturn, CoordEnd, AfterMark, AfterTooLate,
              AfterStart, CoordLeave
<1>4. asks # <<>> => Head(asks) \in Asks /\ Tail(asks) \in Seq(Asks)
  BY <1>1 DEF TurnOK
<1>5. TurnOK'
  <2>1. CASE AskMark \/ AskTooLate \/ AskStart \/ AskReturn
    BY <1>1, <2>1 DEF AskMark, AskTooLate, AskStart, AskReturn, TurnOK
  <2>2. CASE CoordEnd \/ AfterMark \/ AfterTooLate
    BY <1>1, <1>4, <2>2 DEF CoordEnd, AfterMark, AfterTooLate, TurnOK
  <2>3. CASE AfterStart \/ AfterOver \/ CoordLeave
    BY <1>1, <2>3 DEF AfterStart, AfterOver, CoordLeave, TurnOK
  <2> QED
    BY <2>1, <2>2, <2>3
<1>6. RolesOK'
  <2>1. CASE AskMark \/ AfterMark
    <3>1. PICK a \in Asks : Mark(a)
      BY <1>4, <2>1 DEF AskMark, AfterMark, LimitInv, LimitTypes
    <3>2. a.role \in Roles /\ UNCHANGED <<rounds, turn, waiting, owed, voting>>
      BY <2>1 DEF AskMark, AfterMark, Asks
    <3>3. rstatus' \in [Roles -> {"idle", "working", "answered"}]
      BY <1>1, <3>1 DEF Mark, RolesOK
    <3> QED
      BY <1>1, <3>1, <3>2, <3>3 DEF Mark, RolesOK
  <2>2. CASE AskStart \/ AfterStart
    <3>1. asked \in Asks /\ asked.role \in Roles /\ turns \in Nat \ {0}
      BY <2>2 DEF AskStart, AfterStart, LimitInv, LimitTypes, Asks
    <3>2. /\ UNCHANGED <<rounds, owed, voting>> /\ waiting' \in {waiting, waiting \ {asked.role}}
          /\ Starts(asked) \/ Refused(asked)
      BY <2>2 DEF AskStart, AfterStart
    <3>3. CASE Starts(asked)
      <4>1. turn' \in [Roles -> {"none", "work", "vote", "flow", "leaving"}]
        BY <1>1, <3>3 DEF Starts, Kind, RolesOK
      <4> QED
        BY <1>1, <3>2, <3>3, <4>1 DEF Starts, RolesOK
    <3>4. CASE Refused(asked)
      <4>1. rstatus' \in [Roles -> {"idle", "working", "answered"}]
        BY <1>1, <3>4 DEF Refused, RolesOK
      <4> QED
        BY <1>1, <3>1, <3>2, <3>4, <4>1 DEF Refused, RolesOK
    <3> QED
      BY <3>2, <3>3, <3>4
  <2>3. CASE \/ AskTooLate \/ AskReturn \/ CoordEnd \/ AfterTooLate \/ AfterOver \/ CoordLeave
    BY <1>1, <2>3 DEF AskTooLate, AskReturn, CoordEnd, AfterTooLate, AfterOver, CoordLeave, RolesOK
  <2> QED
    BY <2>1, <2>2, <2>3
<1> QED
  BY <1>2, <1>3, <1>5, <1>6, CoordParts, PTL

\* A role's turn ends.
LEMMA TypesRole ==
    ASSUME CoordTypeOK, NEW r \in Roles, RoleAnswers(r) \/ RoleDone(r) \/ ChildDone(r) \/ RoleLeave(r)
    PROVE  CoordTypeOK'
<1> USE DEF roleVars, gateVars, callVars
<1>1. TurnOK /\ RolesOK /\ GateOK /\ CallsOK
  BY CoordParts
<1>2. GateOK' /\ TurnOK'
  BY <1>1 DEF RoleAnswers, RoleDone, ChildDone, RoleLeave, RoleCounted, GateOK, TurnOK
<1>3. CallsOK'
  <2>1. calls' = calls \/ Enter(r, "look")
    BY DEF RoleAnswers, RoleDone, ChildDone, RoleLeave
  <2> QED
    BY <1>1, <2>1, CallsChange DEF Callers, Stages, CallsOK
<1>4. RolesOK'
  <2>1. turn' \in [Roles -> {"none", "work", "vote", "flow", "leaving"}]
    BY <1>1 DEF RoleAnswers, RoleDone, ChildDone, RoleLeave, RolesOK
  <2>2. CASE RoleLeave(r)
    BY <1>1, <2>1, <2>2 DEF RoleLeave, RolesOK
  <2>3. CASE RoleAnswers(r) \/ RoleDone(r) \/ ChildDone(r)
    <3>1. rstatus' \in [Roles -> {"idle", "working", "answered"}] /\ batch' \subseteq Roles
          /\ UNCHANGED <<rounds, turns, voting>>
      BY <1>1, <2>3 DEF RoleAnswers, RoleDone, ChildDone, RoleCounted, RolesOK
    <3>2. waiting' \subseteq Roles /\ owed' \in BOOLEAN
      BY <1>1, <2>3 DEF RoleAnswers, RoleDone, ChildDone, RolesOK
    <3> QED
      BY <1>1, <2>1, <3>1, <3>2 DEF RolesOK
  <2> QED
    BY <2>2, <2>3
<1> QED
  BY <1>2, <1>3, <1>4, CoordParts, PTL

\* Calling the coordinator back.
LEMMA TypesCall ==
    ASSUME CoordTypeOK,
           \/ \E w \in Callers : CallLook(w) \/ CallStart(w) \/ CallBusy(w) \/ CallReset(w)
           \/ Retry
    PROVE  CoordTypeOK'
<1> USE DEF roleVars, gateVars, callVars
<1>1. TurnOK /\ RolesOK /\ GateOK /\ CallsOK
  BY CoordParts
<1>2. GateOK' /\ TurnOK' /\ RolesOK'
  <2>1. coord' \in {coord, "begun"} /\ UNCHANGED <<asks, asked, began>>
    BY DEF CallLook, CallStart, CallBusy, CallReset, Retry
  <2>2. tries' \in Nat /\ UNCHANGED <<gate, cards, decided, untold>>
    <3>1. tries' \in {tries, tries + 1, 0} /\ UNCHANGED <<gate, cards, decided, untold>>
      BY DEF CallLook, CallStart, CallBusy, CallReset, Retry
    <3> QED
      BY <1>1, <3>1 DEF GateOK
  <2>3. /\ UNCHANGED <<rstatus, rounds, turn, batch, turns, waiting>>
        /\ owed' \in {owed, FALSE} /\ voting' \in {voting, FALSE}
    BY DEF CallLook, CallStart, CallBusy, CallReset, Retry
  <2>4. owed' \in BOOLEAN /\ voting' \in BOOLEAN
    BY <1>1, <2>3, Zenon DEF RolesOK
  <2> QED
    BY <1>1, <2>1, <2>2, <2>3, <2>4 DEF GateOK, TurnOK, RolesOK
<1>3. Timer \in Callers /\ {"look", "start", "reset", "retry"} = Stages
  BY DEF Callers, Stages
<1>4. CallsOK'
  <2>1. ASSUME NEW w \in Callers, CallLook(w) PROVE CallsOK'
    BY <1>1, <1>3, <2>1, CallsChange DEF CallLook
  <2>2. ASSUME NEW w \in Callers, CallStart(w) PROVE CallsOK'
    BY <1>1, <1>3, <2>2, CallsChange DEF CallStart
  <2>3. ASSUME NEW w \in Callers, CallReset(w) PROVE CallsOK'
    BY <1>1, <1>3, <2>3, CallsChange DEF CallReset
  <2>4. ASSUME Retry PROVE CallsOK'
    BY <1>1, <1>3, <2>4, CallsChange DEF Retry
  <2>5. ASSUME NEW w \in Callers, CallBusy(w) PROVE CallsOK'
    <3> DEFINE more == IF tries + 1 < MaxTries THEN 1 ELSE 0
               f == [calls EXCEPT ![w]["start"] = @ - 1]
    <3>1. calls[w] \in [Stages -> Nat] /\ calls[w]["start"] \in Nat \ {0}
      BY <1>1, <1>3, <2>5 DEF CallBusy, CallsOK
    <3>2. [calls[w] EXCEPT !["start"] = @ - 1] \in [Stages -> Nat]
      BY <1>3, <3>1
    <3>3. f \in [Callers -> [Stages -> Nat]]
      BY <1>1, <3>2 DEF CallsOK
    <3>4. calls' = [f EXCEPT ![Timer]["retry"] = @ + more]
      BY <2>5 DEF CallBusy
    <3>5. f[Timer] \in [Stages -> Nat] /\ f[Timer]["retry"] \in Nat /\ more \in Nat
      BY <1>3, <3>3
    <3> HIDE DEF f, more
    <3>6. [f[Timer] EXCEPT !["retry"] = @ + more] \in [Stages -> Nat]
      BY <1>3, <3>5
    <3> QED
      BY <1>3, <3>3, <3>4, <3>6 DEF CallsOK
  <2> QED
    BY <2>1, <2>2, <2>3, <2>4, <2>5
<1> QED
  BY <1>2, <1>4, CoordParts, PTL

\* What people decide about its cards.
LEMMA TypesCards ==
    ASSUME CoordTypeOK, (\E i \in DOMAIN cards : CardDecided(i)) \/ GoOn \/ GoOnGivesUp \/ GoOnSend
    PROVE  CoordTypeOK'
<1> USE DEF roleVars, gateVars, callVars
<1>1. TurnOK /\ RolesOK /\ GateOK /\ CallsOK
  BY CoordParts
<1>2. CallsOK' /\ TurnOK' /\ RolesOK'
  BY <1>1 DEF CardDecided, GoOn, GoOnGivesUp, GoOnSend, CallsOK, TurnOK, RolesOK
<1>3. cards' \in Seq({"pending", "done", "failed"})
  BY <1>1 DEF CardDecided, GoOn, GoOnGivesUp, GoOnSend, GateOK
<1>4. GateOK'
  BY <1>1, <1>3 DEF CardDecided, GoOn, GoOnGivesUp, GoOnSend, GateOK
<1> QED
  BY <1>2, <1>4, CoordParts, PTL

-----------------------------------------------------------------------------
(* What was reached *)

\* The function inside Reach, and that it exists.
ReachBody(f, ids, queue, i) ==
    IF i = 0 THEN queue
    ELSE IF Contains(f[i - 1], ids[i]) THEN f[i - 1]
    ELSE Append(f[i - 1], ids[i])

\* It exists, and Reach is its value at the last step.
LEMMA ReachDefined ==
    ASSUME NEW ids, NEW queue, Len(ids) \in Nat
    PROVE  \E f : /\ f = [i \in 0 .. Len(ids) |-> ReachBody(f, ids, queue, i)]
                  /\ Reach(ids, queue) = f[Len(ids)]
<1> DEFINE Is(f, k) == f = [i \in 0 .. k |-> ReachBody(f, ids, queue, i)]
           S == {k \in Nat : \E f : Is(f, k)}
<1>1. 0 \in S
  <2>1. Is([i \in 0 .. 0 |-> queue], 0)
    BY DEF ReachBody
  <2> QED
    BY <2>1
<1>2. ASSUME NEW k \in S PROVE k + 1 \in S
  <2>1. PICK f : Is(f, k)
    OBVIOUS
  <2> DEFINE g == [i \in 0 .. k + 1 |-> IF i <= k THEN f[i] ELSE ReachBody(f, ids, queue, i)]
  <2>2. \A i \in 0 .. k + 1 : g[i] = ReachBody(g, ids, queue, i)
    <3>1. \A i \in 0 .. k : f[i] = ReachBody(f, ids, queue, i)
      BY <2>1
    <3> QED
      BY <3>1 DEF ReachBody
  <2>3. Is(g, k + 1)
    BY <2>2
  <2> QED
    BY <2>3
<1>3. PICK f : Is(f, Len(ids))
  <2>1. S = Nat
    <3> HIDE DEF S
    <3> QED BY <1>1, <1>2, Induction DEF S
  <2> QED
    BY <2>1
<1> DEFINE g == CHOOSE h : h = [i \in 0 .. Len(ids) |-> ReachBody(h, ids, queue, i)]
<1>4. g = [i \in 0 .. Len(ids) |-> ReachBody(g, ids, queue, i)]
    BY <1>3
<1>5. Reach(ids, queue) = g[Len(ids)]
    BY DEF Reach, ReachBody
<1> QED
    BY <1>4, <1>5

\* What is pending after steps were reached: what was, and those.
LEMMA Reached ==
    ASSUME NEW T, NEW ids \in Seq(T), NEW queue \in Seq(T)
    PROVE  /\ Reach(ids, queue) \in Seq(T)
           /\ ToSet(Reach(ids, queue)) \subseteq ToSet(queue) \cup ToSet(ids)
<1>1. Len(ids) \in Nat /\ DOMAIN ids = 1 .. Len(ids) /\ ids \in [1 .. Len(ids) -> T]
    BY LenProperties
<1>2. PICK f : f = [i \in 0 .. Len(ids) |-> ReachBody(f, ids, queue, i)] /\ Reach(ids, queue) = f[Len(ids)]
    BY <1>1, ReachDefined
<1> DEFINE Good(i) == f[i] \in Seq(T) /\ ToSet(f[i]) \subseteq ToSet(queue) \cup ToSet(ids)
           S == {i \in Nat : i <= Len(ids) => Good(i)}
<1>3. 0 \in S
  <2>1. f[0] = queue
    BY <1>1, <1>2 DEF ReachBody
  <2> QED
    BY <2>1
<1>4. ASSUME NEW i \in S PROVE i + 1 \in S
  <2> SUFFICES ASSUME i + 1 <= Len(ids) PROVE Good(i + 1)
    OBVIOUS
  <2>1. i \in Nat /\ i + 1 \in 1 .. Len(ids) /\ i \in 0 .. Len(ids) /\ Good(i)
    BY <1>1
  <2>2. f[i + 1] = f[i] \/ f[i + 1] = Append(f[i], ids[i + 1])
    <3>1. f[i + 1] = ReachBody(f, ids, queue, i + 1)
      <4>1. i + 1 \in 0 .. Len(ids)
        BY <1>1, <2>1
      <4> QED
        BY <1>2, <4>1
    <3>2. i + 1 # 0 /\ (i + 1) - 1 = i
      BY <2>1
    <3> QED
      BY <3>1, <3>2, Zenon DEF ReachBody
  <2>3. CASE f[i + 1] = f[i]
    BY <2>1, <2>3
  <2>4. CASE f[i + 1] = Append(f[i], ids[i + 1])
    <3>1. ids[i + 1] \in T /\ ids[i + 1] \in ToSet(ids)
      BY <1>1, <2>1 DEF ToSet
    <3> DEFINE g == Append(f[i], ids[i + 1])
    <3>2. /\ g \in Seq(T) /\ Len(g) = Len(f[i]) + 1 /\ Len(f[i]) \in Nat
          /\ \A j \in 1 .. Len(f[i]) : g[j] = f[i][j]
          /\ g[Len(f[i]) + 1] = ids[i + 1]
      BY <2>1, <3>1, AppendProperties, LenProperties
    <3>3. DOMAIN g = 1 .. Len(f[i]) + 1 /\ DOMAIN f[i] = 1 .. Len(f[i])
      BY <2>1, <3>2, LenProperties
    <3> HIDE DEF g
    <3>4. \A j \in DOMAIN g : g[j] \in ToSet(f[i]) \cup ToSet(ids)
      <4> SUFFICES ASSUME NEW j \in DOMAIN g PROVE g[j] \in ToSet(f[i]) \cup ToSet(ids)
        OBVIOUS
      <4>1. CASE j \in 1 .. Len(f[i])
        <5>1. g[j] = f[i][j] /\ j \in DOMAIN f[i]
          BY <3>2, <3>3, <4>1
        <5> QED
          BY <5>1 DEF ToSet
      <4>2. CASE j = Len(f[i]) + 1
        BY <3>1, <3>2, <4>2
      <4> QED
        BY <3>2, <3>3, <4>1, <4>2
    <3>5. ToSet(g) \subseteq ToSet(f[i]) \cup ToSet(ids)
      BY <3>4 DEF ToSet
    <3> QED
      BY <2>1, <2>4, <3>2, <3>5 DEF g
  <2> QED
    BY <2>2, <2>3, <2>4
<1>5. S = Nat
  <2> HIDE DEF S
  <2> QED
    BY <1>3, <1>4, Induction DEF S
<1>6. Good(Len(ids))
  <2>1. Len(ids) \in S
    BY <1>1, <1>5
  <2> QED
    BY <1>1, <2>1
<1> QED
    BY <1>2, <1>6

-----------------------------------------------------------------------------
(* Which step may come after which *)

\* A step goes to steps of the graph.
LEMMA OutsAreSteps ==
    ASSUME NEW g \in Graphs, NEW s \in g.steps
    PROVE  Outs(g, s) \subseteq g.steps
<1>1. IsGraph(g)
  BY GraphAssumption
<1>2. ASSUME NEW ids \in Seq(g.steps) PROVE ToSet(ids) \subseteq g.steps
  BY DEF ToSet
<1>3. g.next[s] \subseteq Seq(g.steps) /\ g.else[s] \in Seq(g.steps)
  BY <1>1 DEF IsGraph
<1>4. \A n \in g.next[s] : ToSet(n) \subseteq g.steps
  BY <1>2, <1>3
<1>5. UNION {ToSet(n) : n \in g.next[s]} \subseteq g.steps
  BY <1>4, Zenon
<1>6. ToSet(g.else[s]) \subseteq g.steps
  BY <1>2, <1>3
<1> QED
  BY <1>5, <1>6, Zenon DEF Outs

\* What Before is: the steps in every set that leads to "to".
LEMMA BeforeOf ==
    ASSUME NEW g \in Graphs, NEW to \in g.steps
    PROVE  Before[g][to] = {s \in g.steps : \A S \in SUBSET g.steps : LeadsTo(g, S, to) => s \in S}
  BY DEF Before

\* Reaches is closed: a step that goes to one that reaches "to" reaches it,
\* and so does one that goes to it.
LEMMA Closed ==
    ASSUME NEW g \in Graphs, NEW to \in g.steps, NEW s \in g.steps, NEW x \in Outs(g, s),
           x = to \/ x \in Before[g][to]
    PROVE  s \in Before[g][to]
<1> SUFFICES ASSUME NEW S \in SUBSET g.steps, LeadsTo(g, S, to) PROVE s \in S
  BY BeforeOf
<1>1. CASE x = to
  BY <1>1 DEF LeadsTo
<1>2. CASE x # to
  <2>1. x \in S
    BY <1>2, BeforeOf
  <2> QED
    BY <1>2, <2>1 DEF LeadsTo
<1> QED
  BY <1>1, <1>2

\* What reaches a step that reaches another reaches that one.
LEMMA ReachesOn ==
    ASSUME NEW g \in Graphs, NEW a \in g.steps, NEW b \in g.steps, NEW c \in g.steps,
           a \in Before[g][b], b \in Before[g][c]
    PROVE  a \in Before[g][c]
<1> DEFINE S == Before[g][c]
<1>1. S \in SUBSET g.steps
  BY BeforeOf
<1>2. LeadsTo(g, S, b)
  <2> SUFFICES ASSUME NEW s \in g.steps, b \in Outs(g, s) \/ (Outs(g, s) \ {b}) \cap S # {}
               PROVE  s \in S
    BY DEF LeadsTo
  <2>1. PICK x \in Outs(g, s) : x \in S
    OBVIOUS
  <2> QED
    BY <2>1, Closed
<1> QED
  BY <1>1, <1>2, BeforeOf

\* Of steps that wait in a graph without loops, one is reached by no other.
LEMMA OneIsFree ==
    ASSUME NEW g \in Graphs, NEW P \in SUBSET g.steps, P # {},
           \A s \in g.steps : s \notin Before[g][s]
    PROVE  \E s \in P : \A t \in P : t \notin Before[g][s]
<1> DEFINE Near(s) == {t \in P : t \in Before[g][s]}
           Sizes == {Cardinality(Near(s)) : s \in P}
<1>1. IsFiniteSet(P)
  BY GraphAssumption, FS_Subset DEF IsGraph
<1>2. \A s \in P : IsFiniteSet(Near(s)) /\ Cardinality(Near(s)) \in Nat
  BY <1>1, FS_Subset, FS_CardinalityType
<1>3. PICK k \in Sizes : \A m \in Sizes : k <= m
  <2>1. Sizes \subseteq Nat /\ Sizes # {}
    BY <1>2
  <2> HIDE DEF Sizes
  <2> QED
    BY <2>1, Least
<1>4. PICK s \in P : \A t \in P : Cardinality(Near(s)) <= Cardinality(Near(t))
  BY <1>3
<1> SUFFICES ASSUME NEW t \in P, t \in Before[g][s] PROVE FALSE
  OBVIOUS
<1>5. Near(t) \subseteq Near(s)
  BY ReachesOn
<1>6. t \in Near(s) /\ t \notin Near(t)
  OBVIOUS
<1>7. Near(t) # Near(s)
  BY <1>6
<1>8. Cardinality(Near(t)) < Cardinality(Near(s))
  <2> HIDE DEF Near
  <2> QED
    BY <1>2, <1>5, <1>7, FS_Subset
<1>9. Cardinality(Near(s)) <= Cardinality(Near(t)) /\ Cardinality(Near(s)) \in Nat /\ Cardinality(Near(t)) \in Nat
  BY <1>2, <1>4
<1> QED
  <2> HIDE DEF Near
  <2> QED
    BY <1>8, <1>9

-----------------------------------------------------------------------------
(* The types *)

\* A list without one of its elements.
LEMMA Removed ==
    ASSUME NEW T, NEW s \in Seq(T), NEW i \in DOMAIN s
    PROVE  /\ RemoveAt(s, i) \in Seq(T)
           /\ ToSet(RemoveAt(s, i)) \subseteq ToSet(s)
<1>1. Len(s) \in Nat /\ DOMAIN s = 1 .. Len(s) /\ i \in 1 .. Len(s) /\ s \in Seq(T)
  BY LenProperties
<1> DEFINE a == SubSeq(s, 1, i - 1)
           b == SubSeq(s, i + 1, Len(s))
<1>2. /\ a \in Seq(T) /\ Len(a) = i - 1 /\ \A k \in 1 .. i - 1 : a[k] = s[k]
      /\ b \in Seq(T) /\ Len(b) = Len(s) - i /\ \A k \in 1 .. Len(s) - i : b[k] = s[k + i]
  <2>1. a \in Seq(T) /\ Len(a) = i - 1 /\ \A k \in 1 .. i - 1 : a[k] = s[k]
    BY <1>1, SubSeqProperties
  <2>2. b \in Seq(T) /\ Len(b) = Len(s) - i
    BY <1>1, SubSeqProperties
  <2>3. \A k \in 1 .. Len(s) - i : b[k] = s[k + i]
    BY <1>1, SubSeqProperties
  <2> QED
    BY <2>1, <2>2, <2>3
<1>3. RemoveAt(s, i) = a \o b
  BY DEF RemoveAt
<1> HIDE DEF a, b
<1>4. /\ a \o b \in Seq(T) /\ Len(a \o b) = Len(s) - 1
      /\ \A k \in 1 .. Len(s) - 1 : (a \o b)[k] = IF k <= i - 1 THEN a[k] ELSE b[k - (i - 1)]
      /\ DOMAIN (a \o b) = 1 .. Len(s) - 1
  <2>1. /\ a \o b \in Seq(T) /\ Len(a \o b) = Len(a) + Len(b)
        /\ \A k \in 1 .. Len(a) + Len(b) : (a \o b)[k] = IF k <= Len(a) THEN a[k] ELSE b[k - Len(a)]
    BY <1>2, ConcatProperties
  <2>2. Len(a) = i - 1 /\ Len(a) + Len(b) = Len(s) - 1
    BY <1>1, <1>2
  <2>3. DOMAIN (a \o b) = 1 .. Len(a \o b)
    BY <2>1, LenProperties
  <2> QED
    BY <2>1, <2>2, <2>3
<1>5. ASSUME NEW k \in 1 .. Len(s) - 1 PROVE (a \o b)[k] \in ToSet(s)
  <2>1. CASE k <= i - 1
    <3>1. (a \o b)[k] = s[k] /\ k \in DOMAIN s
      <4>1. k \in 1 .. i - 1 /\ k \in 1 .. Len(s)
        BY <1>1, <2>1
      <4>2. a[k] = s[k]
        BY <1>2, <4>1
      <4>3. (a \o b)[k] = a[k]
        BY <1>4, <2>1
      <4> QED
        BY <1>1, <4>1, <4>2, <4>3
    <3> QED
      BY <3>1 DEF ToSet
  <2>2. CASE ~(k <= i - 1)
    <3>1. (a \o b)[k] = s[k + 1] /\ k + 1 \in DOMAIN s
      <4>1. k - (i - 1) \in 1 .. Len(s) - i /\ (k - (i - 1)) + i = k + 1
        BY <1>1, <2>2
      <4>2. b[k - (i - 1)] = s[(k - (i - 1)) + i]
        BY <1>2, <4>1
      <4>3. (a \o b)[k] = b[k - (i - 1)]
        BY <1>4, <2>2
      <4> QED
        BY <1>1, <4>1, <4>2, <4>3
    <3> QED
      BY <3>1 DEF ToSet
  <2> QED
    BY <2>1, <2>2
<1> QED
  BY <1>3, <1>4, <1>5 DEF ToSet

\* Steps that are pending or running are steps of the graph.
LEMMA GraphOf ==
    ASSUME StepTypeOK
    PROVE  /\ \A i \in DOMAIN pending : graph \in Graphs /\ pending[i] \in graph.steps /\ pending[i] \in ToSet(pending)
           /\ \A s \in running : graph \in Graphs /\ s \in graph.steps
           /\ graph \in Graphs => Nodes = graph.steps
           /\ ToSet(pending) \subseteq Nodes /\ running \subseteq Nodes
  BY GraphAssumption DEF StepTypeOK, Nodes, ToSet

\* Where a step goes is in the graph.
LEMMA Goes ==
    ASSUME NEW g \in Graphs, NEW s \in g.steps
    PROVE  /\ \A n \in g.next[s] : n \in Seq(g.steps) /\ ToSet(n) \subseteq Outs(g, s)
           /\ g.else[s] \in Seq(g.steps) /\ ToSet(g.else[s]) \subseteq Outs(g, s)
<1>1. g.next[s] \subseteq Seq(g.steps) /\ g.else[s] \in Seq(g.steps)
  BY GraphAssumption DEF IsGraph
<1>2. \A n \in g.next[s] : ToSet(n) \subseteq Outs(g, s)
  BY Zenon DEF Outs
<1>3. ToSet(g.else[s]) \subseteq Outs(g, s)
  BY Zenon DEF Outs
<1> QED
  BY <1>1, <1>2, <1>3

\* What a step of the runner does to what is pending, at work and counted: it
\* takes one that may start, has a result of one at work, or only lets go.
Same == UNCHANGED graph /\ pending' \in Seq(Nodes)
Begins(i) ==
    /\ runner = "starting" /\ MayStart(i)
    /\ visits' = [visits EXCEPT ![pending[i]] = @ + 1]
    /\ ToSet(pending') \subseteq ToSet(pending) \cup Outs(graph, pending[i])
    /\ running' \subseteq running \cup {pending[i]}
Results(s) ==
    /\ UNCHANGED visits
    /\ ToSet(pending') \subseteq ToSet(pending) \cup Outs(graph, s)
    /\ running' \subseteq running
LetsGo ==
    /\ UNCHANGED <<pending, visits>>
    /\ running' \subseteq running

\* All that the runner does is one of these.
LEMMA RunnerMoves ==
    ASSUME StepTypeOK, StepsNext
    PROVE  /\ Same
           /\ \/ \E i \in DOMAIN pending : Begins(i)
              \/ \E s \in running : Results(s)
              \/ LetsGo
<1>1. pending \in Seq(Nodes)
  BY DEF StepTypeOK
<1>2. ASSUME NEW i \in DOMAIN pending, StartStep(i) PROVE Same /\ Begins(i)
  <2> DEFINE s == pending[i]
             rest == RemoveAt(pending, i)
  <2>1. graph \in Graphs /\ s \in graph.steps /\ Nodes = graph.steps
    BY GraphOf
  <2>2. rest \in Seq(Nodes) /\ ToSet(rest) \subseteq ToSet(pending)
    BY <1>1, Removed
  <2>3. /\ runner = "starting" /\ MayStart(i) /\ UNCHANGED graph
        /\ visits' = [visits EXCEPT ![s] = @ + 1]
        /\ running' \subseteq running \cup {s}
        /\ pending' = rest \/ \E n \in graph.next[s] : pending' = Reach(n, rest)
    BY <1>2 DEF StartStep
  <2> HIDE DEF s, rest
  <2>4. CASE pending' = rest
    BY <2>2, <2>3, <2>4 DEF Same, Begins, s
  <2>5. CASE \E n \in graph.next[s] : pending' = Reach(n, rest)
    <3>1. PICK n \in graph.next[s] : pending' = Reach(n, rest)
      BY <2>5
    <3>2. n \in Seq(Nodes) /\ ToSet(n) \subseteq Outs(graph, s)
      BY <2>1, Goes
    <3>3. pending' \in Seq(Nodes) /\ ToSet(pending') \subseteq ToSet(rest) \cup ToSet(n)
      BY <2>2, <3>1, <3>2, Reached
    <3> QED
      BY <2>2, <2>3, <3>2, <3>3 DEF Same, Begins, s
  <2> QED
    BY <2>3, <2>4, <2>5
<1>3. ASSUME NEW s \in running, StepResult(s) PROVE Same /\ Results(s)
  <2>1. graph \in Graphs /\ s \in graph.steps /\ Nodes = graph.steps
    BY GraphOf
  <2>2. /\ UNCHANGED <<graph, visits>> /\ running' \subseteq running
        /\ \/ \E n \in graph.next[s] : pending' = Reach(n, pending)
           \/ pending' = Reach(graph.else[s], pending)
    BY <1>3 DEF StepResult
  <2>3. PICK n \in Seq(Nodes) : ToSet(n) \subseteq Outs(graph, s) /\ pending' = Reach(n, pending)
    BY <2>1, <2>2, Goes
  <2>4. pending' \in Seq(Nodes) /\ ToSet(pending') \subseteq ToSet(pending) \cup ToSet(n)
    BY <1>1, <2>3, Reached
  <2> QED
    BY <2>2, <2>3, <2>4 DEF Same, Results
<1>4. ASSUME NEW i \in DOMAIN pending, StepTooMany(i) PROVE Same /\ LetsGo
  BY <1>1, <1>4 DEF StepTooMany, Same, LetsGo
<1>5. ASSUME NEW s \in running, StepFails(s) PROVE Same /\ LetsGo
  BY <1>1, <1>5 DEF StepFails, Same, LetsGo
<1>6. ASSUME AllStarted \/ NoneLeft \/ RunnerStopped PROVE Same /\ LetsGo
  BY <1>1, <1>6 DEF AllStarted, NoneLeft, RunnerStopped, Same, LetsGo
<1> QED
  BY <1>2, <1>3, <1>4, <1>5, <1>6 DEF StepsNext

\* The runner keeps the graph well typed.
LEMMA StepTypes == ASSUME StepTypeOK, StepsNext PROVE StepTypeOK'
<1>1. Nodes' = Nodes /\ graph' = graph /\ pending' \in Seq(Nodes')
  BY RunnerMoves DEF Same, Nodes
<1>2. running' \subseteq Nodes /\ visits' \in [Nodes -> Nat]
  <2>1. CASE \E i \in DOMAIN pending : Begins(i)
    <3>1. PICK i \in DOMAIN pending : Begins(i)
      BY <2>1
    <3>2. pending[i] \in Nodes
      BY GraphOf
    <3> QED
      BY <3>1, <3>2 DEF Begins, StepTypeOK
  <2>2. CASE (\E s \in running : Results(s)) \/ LetsGo
    BY <2>2 DEF Results, LetsGo, StepTypeOK
  <2> QED
    BY <2>1, <2>2, RunnerMoves
<1>3. runner' \in {"off", "starting", "waiting", "over"}
  BY DEF StepTypeOK, StepsNext, StartStep, StepTooMany, AllStarted, NoneLeft, RunnerStopped,
         StepResult, StepFails, RunnerEnds
<1>4. ended' \in BOOLEAN
  <2>1. ended' = ended \/ ended' = TRUE
    BY DEF StepsNext, StartStep, StepTooMany, AllStarted, NoneLeft, RunnerStopped,
           StepResult, StepFails
  <2> QED
    BY <2>1, Zenon DEF StepTypeOK
<1> QED
  BY <1>1, <1>2, <1>3, <1>4 DEF StepTypeOK

\* Where there is no graph, it is well typed.
LEMMA NoStepsTyped == NoSteps => StepTypeOK'
<1> SUFFICES ASSUME NoSteps PROVE StepTypeOK'
  OBVIOUS
<1>1. /\ graph' = NoGraph /\ runner' = "off"
      /\ pending' = <<>> /\ running' = {} /\ visits' = <<>> /\ ended' = FALSE
  BY DEF NoSteps
<1>2. Nodes' = {}
  BY <1>1 DEF Nodes
<1>3. visits' \in [Nodes' -> Nat]
  BY <1>1, <1>2
<1>4. ended' \in BOOLEAN
  BY <1>1, Zenon
<1> QED
  BY <1>1, <1>2, <1>3, <1>4 DEF StepTypeOK

\* A run that begins is well typed.
LEMMA InitStepTyped == Init => StepTypeOK
<1> SUFFICES ASSUME Init PROVE StepTypeOK
  OBVIOUS
<1>1. StepInit
  BY DEF Init
<1>2. CASE mode = "steps"
  <2>1. /\ graph \in Graphs /\ runner = "starting" /\ pending = Reach(graph.start, <<>>) /\ running = {}
        /\ visits = [s \in graph.steps |-> 0] /\ ended = FALSE
    BY <1>1, <1>2 DEF StepInit
  <2>2. Nodes = graph.steps /\ graph.start \in Seq(graph.steps)
    BY <2>1, GraphAssumption DEF Nodes, IsGraph
  <2>3. pending \in Seq(Nodes)
    <3>1. <<>> \in Seq(graph.steps)
      OBVIOUS
    <3> QED
      BY <2>1, <2>2, <3>1, Reached
  <2>4. ended \in BOOLEAN
    BY <2>1, Zenon
  <2> QED
    BY <2>1, <2>2, <2>3, <2>4 DEF StepTypeOK
<1>3. CASE mode # "steps"
  <2>1. /\ graph = NoGraph /\ runner = "off"
        /\ pending = <<>> /\ running = {} /\ visits = <<>> /\ ended = FALSE
    BY <1>1, <1>3 DEF StepInit
  <2>2. Nodes = {}
    BY <2>1 DEF Nodes
  <2>3. visits \in [Nodes -> Nat]
    BY <2>1, <2>2
  <2>4. ended \in BOOLEAN
    BY <2>1, Zenon
  <2> QED
    BY <2>1, <2>2, <2>3, <2>4 DEF StepTypeOK
<1> QED
  BY <1>2, <1>3

\* What can happen to the run itself (RowInv: its caller hears no "running").
LEMMA RunTypes == ASSUME RunTypeOK, RowInv, [Next]_vars PROVE RunTypeOK'
<1>1. CASE EndsOnly
  <2>1. /\ mode' \in {"coordinator", "steps"} /\ stored' \in Ends \cup {"running"}
        /\ answer' \in Ends \cup {"none", "lost"} /\ office' \in {"up", "down", "back"}
        /\ time' \in {"on", "over"}
    BY <1>1 DEF RunTypeOK, EndsOnly, TooLate
  <2>2. CASE UNCHANGED <<live, status, ending, late>>
    BY <2>1, <2>2 DEF RunTypeOK
  <2>3. ASSUME NEW s \in Ends, End(s) PROVE RunTypeOK'
    <3>1. live' \in BOOLEAN /\ late' \in BOOLEAN
      BY <2>3, Zenon DEF End
    <3> QED
      BY <2>1, <2>3, <3>1 DEF End, RunTypeOK
  <2> QED
    BY <1>1, <2>2, <2>3 DEF EndsOnly
<1>2. CASE SaveEnd \/ CallerAnswers
  <2>1. live' = live /\ late' = late
    BY <1>2 DEF SaveEnd, CallerAnswers
  <2>2. live' \in BOOLEAN /\ late' \in BOOLEAN
    BY <2>1, Zenon DEF RunTypeOK
  <2>3. /\ mode' = mode /\ status' = status /\ time' = time /\ office' = office
        /\ (stored' = stored \/ stored' = status)
        /\ (ending' = ending \/ ending' = "over")
    BY <1>2 DEF SaveEnd, CallerAnswers
  <2>4. /\ mode' \in {"coordinator", "steps"} /\ time' \in {"on", "over"}
        /\ status' \in Ends \cup {"running"} /\ stored' \in Ends \cup {"running"}
        /\ ending' \in {"no", "save", "over"} /\ office' \in {"up", "down", "back"}
    BY <2>3, Zenon DEF RunTypeOK
  <2>5. answer' \in Ends \cup {"none", "lost"}
    BY <1>2 DEF SaveEnd, CallerAnswers, RunTypeOK, RowInv
  <2> QED
    BY <2>2, <2>4, <2>5 DEF RunTypeOK
<1>3. CASE SaveLate \/ RunRestart \/ RunCrash
  <2>1. live' \in BOOLEAN /\ late' \in BOOLEAN
    <3>1. (live' = live \/ live' = FALSE) /\ (late' = late \/ late' = FALSE)
      BY <1>3 DEF SaveLate, RunRestart, RunCrash
    <3> QED
      BY <3>1, Zenon DEF RunTypeOK
  <2> QED
    BY <1>3, <2>1 DEF SaveLate, RunRestart, RunCrash, RunTypeOK, Ends
<1> QED
  BY <1>1, <1>2, <1>3, NextCases

\* What can happen to the coordinator.
LEMMA CoordTypes == ASSUME CoordTypeOK, LimitInv, [Next]_vars PROVE CoordTypeOK'
<1>1. CASE UNCHANGED coordVars
  BY <1>1 DEF coordVars, CoordTypeOK
<1>2. CASE NoCoord
  BY <1>2, NoCoordTyped
<1>3. CASE CoordStep
  BY <1>2, <1>3, TypesTurn, TypesStart DEF CoordStep, DoneFinish, FinishRun
<1>4. ASSUME NEW r \in Roles, RoleStep(r) PROVE CoordTypeOK'
  BY <1>4, TypesAsk, TypesRole DEF RoleStep
<1>5. ASSUME NEW w \in Callers, CallStep(w) PROVE CoordTypeOK'
  BY <1>2, <1>5, TypesCall DEF CallStep, CallRefused, FinishRun
<1>6. CASE Retry \/ (\E i \in DOMAIN cards : CardDecided(i)) \/ GoOn \/ GoOnGivesUp \/ GoOnSend
  BY <1>6, TypesCall, TypesCards
<1>7. CASE UNCHANGED vars
  BY <1>1, <1>7 DEF vars
<1>8. CASE Stop \/ Expire \/ Crash
  BY <1>2, <1>8 DEF Stop, Expire, Crash, FinishRun
<1> QED
  BY <1>1, <1>3, <1>4, <1>5, <1>6, <1>7, <1>8 DEF Next, CoordNext

\* What can happen to the graph.
LEMMA GraphCases ==
    [Next]_vars => UNCHANGED stepVars \/ StepsNext \/ NoSteps
  BY DEF Next, vars, Stop, Expire, Crash

\* Every reachable state of a run is well typed.
THEOREM TypesHold == Spec => []TypeOK
<1>1. Init => TypeOK
  <2> SUFFICES ASSUME Init PROVE TypeOK
    OBVIOUS
  <2>1. RunTypeOK
    BY DEF Init, RunInit, RunTypeOK
  <2>2. CoordTypeOK
    <3>1. TurnOK
      <4>1. /\ coord \in {"idle", "begun"}
            /\ asks = <<>> /\ asked = NoAsk /\ began = FALSE
        BY DEF Init, CoordInit
      <4>2. began \in BOOLEAN
        BY <4>1, Zenon
      <4> QED
        BY <4>1, <4>2 DEF TurnOK
    <3>2. RolesOK
      <4>1. /\ rstatus = [r \in Roles |-> "idle"] /\ rounds = [r \in Roles |-> 0]
            /\ turn = [r \in Roles |-> "none"]
            /\ batch = {} /\ turns = 0 /\ waiting = {} /\ owed = FALSE /\ voting = FALSE
        BY DEF Init, CoordInit
      <4>2. owed \in BOOLEAN /\ voting \in BOOLEAN
        BY <4>1, Zenon
      <4> QED
        BY <4>1, <4>2, LimitsAssumption DEF RolesOK
    <3>3. GateOK
      <4>1. tries = 0 /\ gate = "open" /\ cards = <<>> /\ decided = {} /\ untold = FALSE
        BY DEF Init, CoordInit
      <4>2. untold \in BOOLEAN
        BY <4>1, Zenon
      <4> QED
        BY <4>1, <4>2 DEF GateOK
    <3>4. CallsOK
      BY DEF Init, CoordInit, CallsOK, NoCalls, Stages
    <3> QED
      BY <3>1, <3>2, <3>3, <3>4, CoordParts
  <2> QED
    BY <2>1, <2>2, InitStepTyped DEF TypeOK
<1>2. ASSUME TypeOK, RowInv, LimitInv, [Next]_vars PROVE TypeOK'
  <2>1. StepTypeOK'
    <3>1. CASE UNCHANGED stepVars
      BY <1>2, <3>1 DEF stepVars, TypeOK, StepTypeOK, Nodes
    <3> QED
      BY <1>2, <3>1, GraphCases, StepTypes, NoStepsTyped DEF TypeOK
  <2> QED
    BY <1>2, <2>1, RunTypes, CoordTypes DEF TypeOK
<1> QED
  BY <1>1, <1>2, RowKept, LimitInit, LimitNext, PTL DEF Spec

-----------------------------------------------------------------------------
(* Joins *)

\* In a graph without loops some step that waits may go while none works.
LEMMA NeverForced ==
    ASSUME StepTypeOK, Acyclic, NEW i \in DOMAIN pending, MayStart(i)
    PROVE  Free(pending[i])
<1> SUFFICES ASSUME Forced(i) PROVE FALSE
  BY DEF MayStart
<1> DEFINE P == ToSet(pending)
<1>1. graph \in Graphs /\ P \in SUBSET graph.steps /\ P # {} /\ running = {} /\ Nodes = graph.steps
  BY GraphOf DEF Forced
<1>2. \A s \in graph.steps : s \notin Before[graph][s]
  BY <1>1 DEF Acyclic, Reaches
<1>3. PICK s \in P : \A t \in P : t \notin Before[graph][s]
  BY <1>1, <1>2, OneIsFree
<1>4. Free(s)
  BY <1>1, <1>3 DEF Free, Reaches
<1> QED
  BY <1>3, <1>4 DEF Forced

\* A branch that comes to a step comes from one that could.
LEMMA NoWayBack ==
    ASSUME NEW g \in Graphs, NEW s \in g.steps, NEW v \in g.steps, NEW t \in Outs(g, s),
           t \in Before[g][v]
    PROVE  s \in Before[g][v]
  BY Closed

\* What the runner does keeps joins.
LEMMA JoinedStep == ASSUME StepTypeOK, Joined, StepsNext PROVE Joined'
<1>1. graph' = graph /\ Nodes' = Nodes /\ (Acyclic' <=> Acyclic)
  BY RunnerMoves DEF Same, Nodes, Acyclic, Reaches
<1> SUFFICES ASSUME Acyclic, NEW v \in Nodes, visits'[v] > 0,
                    NEW t \in ToSet(pending') \cup running', t # v, Reaches(t, v)
             PROVE  FALSE
  BY <1>1 DEF Joined, Reaches
<1>2. graph \in Graphs /\ v \in graph.steps /\ Nodes = graph.steps /\ visits \in [Nodes -> Nat]
  BY DEF StepTypeOK, Nodes
<1>3. \A s \in graph.steps : ~Reaches(s, s)
  BY <1>2 DEF Acyclic
<1>4. ASSUME NEW i \in DOMAIN pending, Begins(i) PROVE FALSE
  <2> DEFINE s == pending[i]
  <2>1. s \in graph.steps /\ s \in ToSet(pending)
    BY GraphOf
  <2>2. Free(s)
    BY <1>4, NeverForced DEF Begins
  <2>3. CASE v = s
    <3>1. CASE t \in ToSet(pending) \cup running
      BY <2>2, <2>3, <3>1 DEF Free
    <3>2. CASE t \in Outs(graph, s)
      <4>1. Reaches(s, s)
        BY <1>2, <2>1, <2>3, <3>2, NoWayBack DEF Reaches
      <4> QED
        BY <1>3, <2>1, <4>1
    <3> QED
      BY <1>4, <2>3, <3>1, <3>2 DEF Begins
  <2>4. CASE v # s
    <3>1. visits[v] > 0
      BY <1>2, <1>4, <2>1, <2>4 DEF Begins
    <3>2. \A u \in ToSet(pending) \cup running : u # v => ~Reaches(u, v)
      BY <3>1 DEF Joined
    <3>3. ~Reaches(s, v)
      BY <2>1, <2>4, <3>2
    <3>4. CASE t \in ToSet(pending) \cup running
      BY <3>2, <3>4
    <3>5. CASE t \in Outs(graph, s)
      BY <1>2, <2>1, <3>3, <3>5, NoWayBack DEF Reaches
    <3> QED
      BY <1>4, <2>1, <3>4, <3>5 DEF Begins
  <2> QED
    BY <2>3, <2>4
<1>5. ASSUME NEW s \in running, Results(s) PROVE FALSE
  <2>1. s \in graph.steps
    BY GraphOf
  <2>2. \A u \in ToSet(pending) \cup running : u # v => ~Reaches(u, v)
    BY <1>5 DEF Joined, Results
  <2>3. ~Reaches(s, v)
    BY <1>3, <2>1, <2>2
  <2>4. CASE t \in ToSet(pending) \cup running
    BY <2>2, <2>4
  <2>5. CASE t \in Outs(graph, s)
    BY <1>2, <2>1, <2>3, <2>5, NoWayBack DEF Reaches
  <2> QED
    BY <1>5, <2>4, <2>5 DEF Results
<1>6. ASSUME LetsGo PROVE FALSE
  BY <1>6 DEF LetsGo, Joined
<1> QED
  BY <1>4, <1>5, <1>6, RunnerMoves

\* In a graph without loops a step where branches join is started when every
\* branch that may still come to it has (free).
THEOREM JoinedHolds == Spec => []Joined
<1>1. Init => Joined
  <2> SUFFICES ASSUME Init, NEW s \in Nodes PROVE ~(visits[s] > 0)
    BY DEF Joined
  <2>1. CASE mode = "steps"
    BY <2>1, GraphAssumption DEF Init, StepInit, Nodes
  <2>2. CASE mode # "steps"
    BY <2>2 DEF Init, StepInit, Nodes
  <2> QED
    BY <2>1, <2>2
<1>2. ASSUME TypeOK, Joined, [Next]_vars PROVE Joined'
  <2>1. CASE UNCHANGED stepVars
    BY <1>2, <2>1 DEF stepVars, Joined, Acyclic, Reaches, Nodes
  <2>2. CASE NoSteps
    BY <2>2 DEF NoSteps, Joined, Nodes
  <2> QED
    BY <1>2, <2>1, <2>2, GraphCases, JoinedStep DEF TypeOK
<1> QED
  BY <1>1, <1>2, TypesHold, PTL DEF Spec
=============================================================================
