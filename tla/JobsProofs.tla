----------------------------- MODULE JobsProofs -----------------------------
(***************************************************************************)
(* However many automations, jobs, deliveries, slots, cancels and restarts *)
(* there are: what the queue and the runner of automations keep.           *)
(***************************************************************************)
EXTENDS Jobs, ListsProofs, FiniteSetTheorems, SequenceTheorems, TLAPS

\* What most of the proofs need of the values.  (The rest of TypeOK, what is due
\* and the counts of the slots, comes last.)
TypedJobs ==
    /\ job \in Seq(Job) /\ n <= MaxJobs
    /\ aged \subseteq 1 .. n
    /\ sent \in [Jobs -> Keys \cup {NoKey}]
TypedRuns ==
    /\ run \in [Jobs -> Stages]
    /\ \A j \in Jobs : Started(j) => j <= n
    /\ copy \in [Jobs -> 0 .. Deliveries]
    /\ ran \in [Jobs -> Nat]
    /\ busy \in [Origins -> Int]
TypedStarter ==
    /\ starter = [at |-> starter.at, free |-> starter.free, left |-> starter.left,
                  list |-> starter.list, keep |-> starter.keep]
    /\ starter.left \in [Origins -> Int]
    /\ starter.list \subseteq 1 .. n /\ starter.keep \subseteq 1 .. n
TypedOutside ==
    /\ enabled \subseteq Origins
    /\ tick \in Origins \cup {None}
    /\ hook = [d \in 1 .. Deliveries |-> hook[d]]
    /\ \A d \in 1 .. Deliveries :
          /\ hook[d] = [at |-> hook[d].at, origin |-> hook[d].origin, key |-> hook[d].key,
                        job |-> hook[d].job, again |-> hook[d].again]
          /\ hook[d].at \notin {"idle", "over"} => hook[d].origin \in Origins /\ hook[d].key \in Keys
    /\ cancel = [at |-> cancel.at, job |-> cancel.job, raced |-> cancel.raced]
    /\ cancel.at # "idle" => cancel.job \in 1 .. n
Typed == TypedJobs /\ TypedRuns /\ TypedStarter /\ TypedOutside

-----------------------------------------------------------------------------
(* What a statement does to the table. *)

\* The table as a function of its rows.
LEMMA TableShape ==
    ASSUME TypedJobs
    PROVE  /\ n \in Nat /\ DOMAIN job = 1 .. n /\ 1 .. n \subseteq Jobs
           /\ job \in [1 .. n -> Job]
           /\ \A j \in 1 .. n : job[j] \in Job
<1>1. n \in Nat /\ DOMAIN job = 1 .. n /\ job \in [1 .. n -> Job]
    BY LenProperties DEF TypedJobs, n
<1> QED
    BY <1>1, BoundAssumption DEF TypedJobs, Jobs

\* One that keeps the rows and their number: a table of the same length.
LEMMA SameTable ==
    ASSUME TypedJobs, NEW t \in [1 .. n -> Job], job' = t
    PROVE  job' \in Seq(Job) /\ n' = n
<1>1. n \in Nat
    BY TableShape
<1>2. t \in Seq(Job) /\ DOMAIN t = 1 .. n
    BY <1>1, SeqDef
<1>3. Len(t) = n
    BY <1>1, <1>2, LenProperties
<1> QED
    BY <1>2, <1>3 DEF n

\* A row gets a status: only it changes, and only in that.
LEMMA StatusSet ==
    ASSUME TypedJobs, NEW j \in 1 .. n, NEW s \in Open \cup Final, SetStatus(j, s)
    PROVE  /\ job' \in Seq(Job) /\ n' = n
           /\ job'[j] = [job[j] EXCEPT !.status = s]
           /\ \A i \in 1 .. n : i # j => job'[i] = job[i]
<1>1. n \in Nat /\ job \in [1 .. n -> Job] /\ job[j] \in Job
    BY TableShape
<1>2. job' \in [1 .. n -> Job]
    BY <1>1 DEF SetStatus, Job
<1>3. job' \in Seq(Job) /\ n' = n
    BY <1>2, SameTable
<1> QED
    BY <1>1, <1>3 DEF SetStatus

\* A new row is the last one; the others stay.
LEMMA RowAdded ==
    ASSUME TypedJobs, NEW o \in Origins, NEW trigger \in {"webhook", "schedule", "manual"},
           NEW key \in Keys \cup {NoKey}, NEW d \in 0 .. Deliveries, NEW waits \in BOOLEAN,
           Create(o, trigger, key, d, waits)
    PROVE  /\ job' \in Seq(Job) /\ n' = n + 1 /\ n + 1 \in Jobs
           /\ job'[n + 1].origin = o /\ job'[n + 1].key = key
           /\ job'[n + 1].status = "pending" /\ job'[n + 1].chat = FALSE
           /\ \A i \in 1 .. n : job'[i] = job[i]
           /\ sent' \in [Jobs -> Keys \cup {NoKey}]
           /\ sent'[n + 1] = key
           /\ \A i \in 1 .. n : sent'[i] = sent[i]
<1> DEFINE row == [origin |-> o, trigger |-> trigger, key |-> key,
                   status |-> "pending", chat |-> FALSE, payload |-> d]
<1>1. row \in Job
    BY DEF Job, Open
<1>2. n \in Nat /\ 1 .. n \subseteq Jobs
    BY TableShape
<1>3. job' = Append(job, row)
    BY DEF Create
<1>4. job' \in Seq(Job) /\ Len(job') = n + 1 /\ job'[n + 1] = row /\ \A i \in 1 .. n : job'[i] = job[i]
    BY <1>1, <1>3, AppendProperties DEF TypedJobs, n
<1>5. n + 1 \in Jobs
    BY <1>2, BoundAssumption DEF Create, Jobs
<1>6. /\ sent' \in [Jobs -> Keys \cup {NoKey}] /\ sent'[n + 1] = key
      /\ \A i \in 1 .. n : sent'[i] = sent[i]
    BY <1>2, <1>5 DEF Create, TypedJobs
<1> QED
    BY <1>4, <1>5, <1>6 DEF n

-----------------------------------------------------------------------------
(* The values stay what they are. *)

\* At the start everything is typed.
LEMMA InitTyped == Init => Typed
<1> SUFFICES ASSUME Init PROVE Typed
    OBVIOUS
<1>1. Len(job) = 0 /\ job \in Seq(Job)
    BY DEF Init
<1>2. TypedJobs
    BY <1>1, BoundAssumption DEF Init, TypedJobs, n
<1>3. TypedRuns
    BY <1>1, BoundAssumption DEF Init, TypedRuns, Stages, Started, None
<1>4. TypedStarter
    BY DEF Init, TypedStarter, NoStarter
<1>5. TypedOutside
    BY DEF Init, TypedOutside, NoHook, Request, NoCancel
<1> QED
    BY <1>2, <1>3, <1>4, <1>5 DEF Typed

\* A row is added: nothing else of the table changes.
LEMMA AddedTyped ==
    ASSUME Typed, NEW o \in Origins, NEW trigger \in {"webhook", "schedule", "manual"},
           NEW key \in Keys \cup {NoKey}, NEW d \in 0 .. Deliveries, NEW waits \in BOOLEAN,
           Create(o, trigger, key, d, waits), UNCHANGED <<aged, starter, runner, cancel>>
    PROVE  TypedJobs' /\ TypedRuns' /\ TypedStarter'
           /\ (cancel.at # "idle" => cancel'.job \in 1 .. n')
<1>1. n \in Nat
    BY TableShape DEF Typed
<1>2. job' \in Seq(Job) /\ n' = n + 1 /\ n + 1 \in Jobs /\ sent' \in [Jobs -> Keys \cup {NoKey}]
    BY RowAdded DEF Typed
<1>3. n' <= MaxJobs /\ 1 .. n \subseteq 1 .. n'
    BY <1>1, <1>2, BoundAssumption DEF Jobs
<1>4. TypedJobs'
    BY <1>1, <1>2, <1>3 DEF Typed, TypedJobs
<1>5. TypedRuns'
    BY <1>1, <1>2, BoundAssumption DEF Typed, TypedRuns, runner, Started, Jobs
<1>6. TypedStarter'
    BY <1>3 DEF Typed, TypedStarter
<1> QED
    BY <1>3, <1>4, <1>5, <1>6 DEF Typed, TypedOutside

\* The table keeps its rows.
LEMMA KeptTyped ==
    ASSUME Typed, job' \in Seq(Job), n' = n, aged' = aged, sent' = sent
    PROVE  TypedJobs'
BY DEF Typed, TypedJobs

\* Whose a row is, what asked for it and its key.
RowsStay ==
    /\ n' = n
    /\ \A i \in 1 .. n : /\ job'[i].origin = job[i].origin
                         /\ job'[i].trigger = job[i].trigger
                         /\ job'[i].key = job[i].key
Unmoved == aged' = aged /\ sent' = sent

\* Setting the status of a row keeps all rows' keys, origins and triggers.
LEMMA SetTyped ==
    ASSUME Typed, NEW j \in 1 .. n, NEW s \in Open \cup Final, SetStatus(j, s), Unmoved
    PROVE  TypedJobs' /\ RowsStay
<1>1. n \in Nat /\ job[j] \in Job
    BY TableShape DEF Typed
<1>2. /\ job' \in Seq(Job) /\ n' = n
      /\ job'[j] = [job[j] EXCEPT !.status = s]
      /\ \A i \in 1 .. n : i # j => job'[i] = job[i]
    BY StatusSet DEF Typed
<1>3. TypedJobs'
    BY <1>2, KeptTyped DEF Unmoved
<1> QED
    BY <1>1, <1>2, <1>3 DEF RowsStay, Job

\* So does leaving the table alone.
LEMMA NoRowSet == Typed /\ UNCHANGED job /\ Unmoved => TypedJobs' /\ RowsStay
<1> SUFFICES ASSUME Typed, UNCHANGED job, Unmoved PROVE TypedJobs' /\ RowsStay
    OBVIOUS
<1>1. n' = n
    BY DEF n
<1> QED
    BY <1>1 DEF Unmoved, RowsStay, Typed, TypedJobs

\* Any step of a run: its job is in the table.
LEMMA RunsTyped ==
    ASSUME Typed, NEW j \in Jobs, Runs(j)
    PROVE  Typed' /\ RowsStay /\ j \in 1 .. n
<1>1. j \in 1 .. n
    BY BoundAssumption DEF Typed, TypedRuns, Started, Jobs, Runs, Check, Limit, Skip, Script, ScriptEnd,
       Send, Answer, SettleBusy, Put, Timeout, Settle, Finish, Record, Leave
<1>2. n \in Nat /\ job \in [1 .. n -> Job] /\ job[j] \in Job /\ 1 .. n \subseteq Jobs
    BY <1>1, TableShape DEF Typed
<1>3. TypedJobs' /\ RowsStay
  <2>1. CASE Check(j) \/ Limit(j) \/ Script(j) \/ SettleBusy(j) \/ Settle(j) \/ Record(j)
    BY <2>1, NoRowSet DEF Check, Limit, Script, SettleBusy, Settle, Record, Stay, Unmoved
  <2>2. CASE Leave(j)
    BY <2>2, NoRowSet DEF Leave, Unmoved, queue
  <2>3. CASE Skip(j) \/ Timeout(j)
    BY <1>1, <2>3, SetTyped DEF Skip, Timeout, Stay, Unmoved, Final
  <2>4. CASE ScriptEnd(j) \/ Finish(j)
    BY <1>1, <2>4, SetTyped DEF ScriptEnd, Finish, Stay, Unmoved, Final
  <2>5. CASE Answer(j)
    BY <1>1, <2>5, SetTyped, NoRowSet DEF Answer, Stay, Unmoved, Final
  <2>6. CASE Send(j)
    <3>1. CASE UNCHANGED job
        BY <2>6, <3>1, NoRowSet DEF Send, Stay, Unmoved
    <3>2. CASE job' = [job EXCEPT ![j].chat = TRUE]
        <4>1. [job EXCEPT ![j].chat = TRUE] \in [1 .. n -> Job]
            BY <1>2 DEF Job
        <4>2. job' \in Seq(Job) /\ n' = n
            BY <3>2, <4>1, SameTable DEF Typed
        <4> QED
            BY <1>1, <1>2, <2>6, <3>2, <4>2, KeptTyped DEF Send, Stay, Unmoved, RowsStay, Job
    <3> QED BY <2>6, <3>1, <3>2 DEF Send
  <2>7. CASE Put(j)
    <3>1. job' = [job EXCEPT ![j].status = "pending", ![j].payload = copy[j]]
        BY <2>7 DEF Put
    <3>2. [job EXCEPT ![j].status = "pending", ![j].payload = copy[j]] \in [1 .. n -> Job]
        BY <1>1, <1>2 DEF Job, Open, Typed, TypedRuns
    <3>3. job' \in Seq(Job) /\ n' = n
        BY <3>1, <3>2, SameTable DEF Typed
    <3> QED
        BY <1>1, <1>2, <2>7, <3>1, <3>3, KeptTyped DEF Put, Stay, Unmoved, RowsStay, Job
  <2> QED
    BY <2>1, <2>2, <2>3, <2>4, <2>5, <2>6, <2>7 DEF Runs
<1>4. n' = n
    BY <1>3 DEF RowsStay
<1>5. TypedRuns'
  <2>1. busy' \in [Origins -> Int]
    <3>1. CASE Leave(j)
        BY <1>2, <3>1 DEF Typed, TypedRuns, Leave, Job
    <3>2. CASE ~Leave(j)
        BY <3>2 DEF Typed, TypedRuns, Runs, Check, Limit, Skip, Script, ScriptEnd,
           Send, Answer, SettleBusy, Put, Timeout, Settle, Finish, Record, Stay
    <3> QED BY <3>1, <3>2
  <2>2. ran' \in [Jobs -> Nat]
    BY DEF Typed, TypedRuns, Runs, Check, Limit, Skip, Script, ScriptEnd,
       Send, Answer, SettleBusy, Put, Timeout, Settle, Finish, Record, Leave
  <2>3. copy' \in [Jobs -> 0 .. Deliveries]
    <3>1. job[j].payload \in 0 .. Deliveries /\ None \in 0 .. Deliveries
        BY <1>2, BoundAssumption DEF Job, None
    <3>2. CASE SettleBusy(j) \/ Leave(j)
        BY <3>1, <3>2 DEF Typed, TypedRuns, SettleBusy, Leave
    <3>3. CASE ~SettleBusy(j) /\ ~Leave(j)
        BY <3>3 DEF Typed, TypedRuns, Runs, Check, Limit, Skip, Script, ScriptEnd,
           Send, Answer, Put, Timeout, Settle, Finish, Record
    <3> QED BY <3>2, <3>3
  <2>4. run' \in [Jobs -> Stages] /\ \A i \in Jobs : i # j => run'[i] = run[i]
    <3>1. CASE Check(j) \/ Limit(j)
        BY <3>1 DEF Typed, TypedRuns, Move, Check, Limit, Content, Stages
    <3>2. CASE Skip(j) \/ Script(j) \/ ScriptEnd(j) \/ Send(j) \/ Answer(j)
        BY <3>2 DEF Typed, TypedRuns, Move, Skip, Script, ScriptEnd, Send, Answer, Stages
    <3>3. CASE SettleBusy(j) \/ Put(j) \/ Timeout(j) \/ Settle(j) \/ Finish(j) \/ Record(j) \/ Leave(j)
        BY <3>3 DEF Typed, TypedRuns, Move, SettleBusy, Put, Timeout, Settle, Finish, Record, Leave, Stages
    <3> QED BY <3>1, <3>2, <3>3 DEF Runs
  <2> QED
    BY <1>1, <1>4, <2>1, <2>2, <2>3, <2>4 DEF Typed, TypedRuns, Started
<1>6. TypedStarter'
    BY <1>4 DEF Typed, TypedStarter, Runs, Check, Limit, Skip, Script, ScriptEnd,
       Send, Answer, SettleBusy, Put, Timeout, Settle, Finish, Record, Leave, Stay
<1>7. UNCHANGED outside
    BY DEF Runs, Check, Limit, Skip, Script, ScriptEnd,
       Send, Answer, SettleBusy, Put, Timeout, Settle, Finish, Record, Leave, Stay
<1>8. TypedOutside'
  <2>1. enabled' \subseteq enabled
    BY DEF Runs, Check, Limit, Skip, Script, ScriptEnd, queue,
       Send, Answer, SettleBusy, Put, Timeout, Settle, Finish, Record, Leave, Stay
  <2> QED
    BY <1>4, <1>7, <2>1 DEF Typed, TypedOutside, outside
<1> QED
    BY <1>1, <1>3, <1>5, <1>6, <1>8 DEF Typed

\* Any step of StartReady.
LEMMA StarterTyped ==
    ASSUME Typed, Starter
    PROVE  Typed' /\ RowsStay /\ Unmoved
<1>1. n \in Nat /\ job \in [1 .. n -> Job] /\ 1 .. n \subseteq Jobs /\ \A j \in 1 .. n : job[j] \in Job
    BY TableShape DEF Typed
<1>2. UNCHANGED <<outside, enabled>> /\ Unmoved
    BY DEF Starter, StarterReserve, StarterClaim, StarterSort, StarterGo, queue, Unmoved
<1>3. CASE StarterReserve
  <2>1. TypedJobs' /\ RowsStay
    BY <1>3, NoRowSet DEF StarterReserve, queue, Unmoved
  <2>2. TypedRuns'
    BY <1>3, <2>1 DEF Typed, TypedRuns, StarterReserve, Started, RowsStay
  <2>3. TypedStarter'
    BY <1>3, <2>1, LimitAssumption DEF Typed, TypedRuns, TypedStarter, StarterReserve
  <2>4. TypedOutside'
    BY <1>2, <2>1 DEF Typed, TypedOutside, outside, RowsStay
  <2> QED BY <1>2, <2>1, <2>2, <2>3, <2>4 DEF Typed
<1>4. CASE StarterClaim
  <2>1. PICK list \in SUBSET Can :
          /\ starter' = [starter EXCEPT !.at = "sort", !.list = list]
          /\ job' = [j \in 1 .. n |-> IF j \in list THEN [job[j] EXCEPT !.status = "running"] ELSE job[j]]
          /\ copy' = [j \in Jobs |-> IF j \in list THEN job[j].payload ELSE copy[j]]
    BY <1>4 DEF StarterClaim
  <2>2. list \subseteq 1 .. n
    BY <2>1 DEF Can
  <2>3. \A j \in 1 .. n : [job[j] EXCEPT !.status = "running"] \in Job
    BY <1>1 DEF Job, Open
  <2>4. job' \in [1 .. n -> Job]
    BY <1>1, <2>1, <2>3
  <2>5. job' \in Seq(Job) /\ n' = n
    BY <2>4, SameTable DEF Typed
  <2>6. TypedJobs' /\ RowsStay
    BY <1>1, <1>2, <2>1, <2>5, KeptTyped DEF RowsStay, Unmoved, Job
  <2>7. copy' \in [Jobs -> 0 .. Deliveries]
    <3>1. \A j \in list : job[j].payload \in 0 .. Deliveries
        BY <1>1, <2>2 DEF Job
    <3> QED BY <2>1, <3>1 DEF Typed, TypedRuns
  <2>8. TypedRuns'
    BY <1>4, <2>5, <2>7 DEF Typed, TypedRuns, StarterClaim, Started
  <2>9. TypedStarter'
    BY <2>1, <2>2, <2>5 DEF Typed, TypedStarter
  <2>10. TypedOutside'
    BY <1>2, <2>5 DEF Typed, TypedOutside, outside
  <2> QED BY <1>2, <2>6, <2>8, <2>9, <2>10 DEF Typed
<1>5. ASSUME NEW j \in Jobs, StarterSort(j) PROVE Typed' /\ RowsStay
  <2>1. j \in 1 .. n
    BY <1>5 DEF StarterSort, Typed, TypedStarter
  <2>2. TypedJobs' /\ RowsStay
    BY <1>2, <1>5, <2>1, SetTyped, NoRowSet DEF StarterSort, Open
  <2>3. TypedRuns'
    BY <1>5, <2>2 DEF Typed, TypedRuns, StarterSort, runner, Started, RowsStay
  <2>4. TypedStarter'
    <3>1. CASE Over(j)
        <4>1. starter' = [starter EXCEPT !.list = @ \ {j}]
            BY <1>5, <3>1 DEF StarterSort
        <4> QED BY <4>1, <2>2 DEF Typed, TypedStarter, RowsStay
    <3>2. CASE ~Over(j)
        <4>1. starter' = [starter EXCEPT !.list = @ \ {j}, !.keep = @ \cup {j}]
            BY <1>5, <3>2 DEF StarterSort
        <4> QED BY <4>1, <2>1, <2>2 DEF Typed, TypedStarter, RowsStay
    <3> QED BY <3>1, <3>2
  <2>5. TypedOutside'
    BY <1>2, <2>2 DEF Typed, TypedOutside, outside, RowsStay
  <2> QED BY <2>2, <2>3, <2>4, <2>5 DEF Typed
<1>6. CASE StarterGo
  <2>1. TypedJobs' /\ RowsStay
    BY <1>2, <1>6, NoRowSet DEF StarterGo
  <2>2. \A o \in Origins : Taken(o) \in Int
    <3> SUFFICES ASSUME NEW o \in Origins PROVE Taken(o) \in Int
        OBVIOUS
    <3>1. IsFiniteSet(1 .. n)
        BY <1>1, FS_Interval
    <3>2. {j \in starter.keep : job[j].origin = o} \subseteq 1 .. n
        BY DEF Typed, TypedStarter
    <3>3. IsFiniteSet({j \in starter.keep : job[j].origin = o})
        BY <3>1, <3>2, FS_Subset
    <3>4. Cardinality({j \in starter.keep : job[j].origin = o}) \in Nat
        BY <3>3, FS_CardinalityType
    <3> QED BY <3>4 DEF Taken
  <2>3. busy' \in [Origins -> Int]
    BY <1>6, <2>2 DEF Typed, TypedRuns, StarterGo
  <2>4. run' \in [Jobs -> Stages] /\ \A j \in Jobs : Started(j)' => j <= n
    BY <1>1, <1>6 DEF Typed, TypedRuns, TypedStarter, StarterGo, Started, Stages
  <2>5. TypedRuns'
    BY <1>6, <2>1, <2>3, <2>4 DEF Typed, TypedRuns, StarterGo, RowsStay
  <2>6. TypedStarter'
    <3>1. starter' = NoStarter
        BY <1>6 DEF StarterGo
    <3> QED BY <3>1 DEF TypedStarter, NoStarter
  <2>7. TypedOutside'
    BY <1>2, <2>1 DEF Typed, TypedOutside, outside, RowsStay
  <2> QED BY <1>2, <2>1, <2>5, <2>6, <2>7 DEF Typed
<1> QED
    BY <1>2, <1>3, <1>4, <1>5, <1>6 DEF Starter

\* A step that adds a row: whose it is, and its key.
RowAddedBy(o, key) ==
    /\ n' = n + 1 /\ n + 1 \in Jobs
    /\ job'[n + 1].origin = o /\ job'[n + 1].key = key /\ sent'[n + 1] = key
    /\ job'[n + 1].status = "pending" /\ ~job'[n + 1].chat
    /\ \A i \in 1 .. n : job'[i] = job[i] /\ sent'[i] = sent[i]
    /\ UNCHANGED <<aged, starter, runner, cancel>>

\* A row is added: what the steps below need of that.
LEMMA AddTyped ==
    ASSUME Typed, NEW o \in Origins, NEW trigger \in {"webhook", "schedule", "manual"},
           NEW key \in Keys \cup {NoKey}, NEW d \in 0 .. Deliveries, NEW waits \in BOOLEAN,
           Create(o, trigger, key, d, waits), UNCHANGED <<aged, starter, runner, cancel>>
    PROVE  TypedJobs' /\ TypedRuns' /\ TypedStarter' /\ RowAddedBy(o, key)
           /\ (cancel.at # "idle" => cancel.job \in 1 .. n')
<1>1. TypedJobs' /\ TypedRuns' /\ TypedStarter' /\ (cancel.at # "idle" => cancel'.job \in 1 .. n')
    BY AddedTyped
<1>0. TypedJobs
    BY DEF Typed
<1>2. /\ n' = n + 1 /\ n + 1 \in Jobs
      /\ job'[n + 1].origin = o /\ job'[n + 1].key = key
      /\ job'[n + 1].status = "pending" /\ job'[n + 1].chat = FALSE
      /\ sent'[n + 1] = key
      /\ \A i \in 1 .. n : job'[i] = job[i]
      /\ \A i \in 1 .. n : sent'[i] = sent[i]
    BY <1>0, RowAdded, ZenonT(40)
<1>3. RowAddedBy(o, key)
    BY <1>2 DEF RowAddedBy
<1> QED
    BY <1>1, <1>3 DEF RowAddedBy

\* No delivery and no key are among the values a row may have.
LEMMA ZeroIsNone == None \in 0 .. Deliveries /\ NoKey \in Keys \cup {NoKey}
BY BoundAssumption DEF None

\* A person's run.
LEMMA RunNowTyped ==
    ASSUME Typed, NEW o \in Origins, RunNow(o)
    PROVE  Typed' /\ RowAddedBy(o, NoKey) /\ UNCHANGED hook
<1>1. Create(o, "manual", NoKey, None, FALSE) /\ UNCHANGED <<aged, enabled, starter, runner, cancel, hook, tick>>
    BY DEF RunNow, outside
<1>2. TypedJobs' /\ TypedRuns' /\ TypedStarter' /\ RowAddedBy(o, NoKey)
      /\ (cancel.at # "idle" => cancel.job \in 1 .. n')
    BY <1>1, ZeroIsNone, AddTyped
<1>3. TypedOutside'
    BY <1>1, <1>2 DEF Typed, TypedOutside
<1> QED BY <1>1, <1>2, <1>3 DEF Typed

\* A schedule's run.
LEMMA TickAddTyped ==
    ASSUME Typed, TickAdd
    PROVE  Typed' /\ RowAddedBy(tick, NoKey) /\ UNCHANGED hook
<1>1. /\ Create(tick, "schedule", NoKey, None, FALSE) /\ tick \in Origins /\ tick' = None
      /\ UNCHANGED <<aged, enabled, starter, runner, cancel, hook>>
    BY DEF TickAdd, Typed, TypedOutside
<1>2. TypedJobs' /\ TypedRuns' /\ TypedStarter' /\ RowAddedBy(tick, NoKey)
      /\ (cancel.at # "idle" => cancel.job \in 1 .. n')
    BY <1>1, ZeroIsNone, AddTyped
<1>3. TypedOutside'
    BY <1>1, <1>2 DEF Typed, TypedOutside
<1> QED BY <1>1, <1>2, <1>3 DEF Typed

\* A step of one delivery changes what that delivery does, at most.
LEMMA HookShape ==
    ASSUME TypedOutside, NEW d \in 1 .. Deliveries, NEW r,
           hook' = [hook EXCEPT ![d] = r],
           r = [at |-> r.at, origin |-> r.origin, key |-> r.key, job |-> r.job, again |-> r.again],
           r.at \notin {"idle", "over"} => r.origin \in Origins /\ r.key \in Keys,
           UNCHANGED <<enabled, tick, cancel>>, cancel.at # "idle" => cancel.job \in 1 .. n'
    PROVE  TypedOutside' /\ hook'[d] = r /\ \A e \in 1 .. Deliveries : e # d => hook'[e] = hook[e]
<1>1. hook' = [e \in 1 .. Deliveries |-> IF e = d THEN r ELSE hook[e]]
    BY DEF TypedOutside
<1>2. hook' = [e \in 1 .. Deliveries |-> hook'[e]]
    BY <1>1
<1>3. hook'[d] = r /\ \A e \in 1 .. Deliveries : e # d => hook'[e] = hook[e]
    BY <1>1
<1> QED
    BY <1>2, <1>3 DEF TypedOutside

\* A request comes.
LEMMA DeliverTyped ==
    ASSUME Typed, NEW d \in 1 .. Deliveries, Deliver(d)
    PROVE  Typed' /\ RowsStay /\ Unmoved /\ hook'[d].at = "look"
           /\ \A e \in 1 .. Deliveries : e # d => hook'[e] = hook[e]
<1>1. PICK o \in Origins, k \in Keys :
          hook' = [hook EXCEPT ![d] = Request("look", o, k)]
    BY DEF Deliver, Typed, TypedOutside
<1>2. UNCHANGED <<queue, starter, runner, tick, cancel, events>> /\ n' = n
    BY DEF Deliver, queue, n
<1>3. TypedOutside' /\ hook'[d].at = "look" /\ \A e \in 1 .. Deliveries : e # d => hook'[e] = hook[e]
  <2> DEFINE r == Request("look", o, k)
  <2>1. /\ r = [at |-> r.at, origin |-> r.origin, key |-> r.key, job |-> r.job, again |-> r.again]
        /\ r.at = "look" /\ r.origin \in Origins /\ r.key \in Keys
        /\ hook' = [hook EXCEPT ![d] = r]
    BY <1>1 DEF Request
  <2>2. TypedOutside /\ UNCHANGED <<enabled, tick, cancel>> /\ (cancel.at # "idle" => cancel.job \in 1 .. n')
    BY <1>2 DEF Typed, TypedOutside, queue
  <2> HIDE DEF r
  <2> QED BY <2>1, <2>2, HookShape
<1>4. TypedJobs' /\ RowsStay /\ Unmoved
    BY <1>2, NoRowSet DEF queue, Unmoved
<1>5. TypedRuns' /\ TypedStarter'
    BY <1>2 DEF Typed, TypedRuns, TypedStarter, runner, Started
<1> QED BY <1>3, <1>4, <1>5 DEF Typed

\* What a delivery does next, when it is the only thing that changes of it.
LEMMA GoTyped ==
    ASSUME Typed, NEW d \in 1 .. Deliveries, NEW l, GoTo(d, l), hook[d].at \notin {"idle", "over"},
           UNCHANGED <<enabled, tick, cancel>>, cancel.at # "idle" => cancel.job \in 1 .. n'
    PROVE  /\ TypedOutside'
           /\ hook'[d].at = l
           /\ l # "over" => hook'[d].origin = hook[d].origin /\ hook'[d].key = hook[d].key
           /\ \A e \in 1 .. Deliveries : e # d => hook'[e] = hook[e]
<1>1. CASE l = "over"
  <2>1. hook' = [hook EXCEPT ![d] = HookOver] /\ HookOver.at = "over"
    BY <1>1 DEF GoTo, HookOver, Request
  <2> DEFINE r == HookOver
  <2>2. r = [at |-> r.at, origin |-> r.origin, key |-> r.key, job |-> r.job, again |-> r.again]
    BY DEF HookOver, Request
  <2>3. TypedOutside /\ hook' = [hook EXCEPT ![d] = r] /\ r.at = "over"
    BY <2>1 DEF Typed
  <2> HIDE DEF r
  <2>4. TypedOutside' /\ hook'[d] = r /\ \A e \in 1 .. Deliveries : e # d => hook'[e] = hook[e]
    BY <2>2, <2>3, HookShape
  <2> QED BY <1>1, <2>3, <2>4
<1>2. CASE l # "over"
  <2>1. hook' = [hook EXCEPT ![d] = [hook[d] EXCEPT !.at = l]]
    BY <1>2 DEF GoTo, Typed, TypedOutside
  <2> DEFINE r == [hook[d] EXCEPT !.at = l]
  <2>2. /\ r = [at |-> r.at, origin |-> r.origin, key |-> r.key, job |-> r.job, again |-> r.again]
        /\ r.at = l /\ r.origin = hook[d].origin /\ r.key = hook[d].key
        /\ r.origin \in Origins /\ r.key \in Keys
        /\ hook' = [hook EXCEPT ![d] = r]
        /\ TypedOutside
    BY <2>1 DEF Typed, TypedOutside
  <2> HIDE DEF r
  <2>3. TypedOutside' /\ hook'[d] = r /\ \A e \in 1 .. Deliveries : e # d => hook'[e] = hook[e]
    BY <2>2, HookShape
  <2> QED BY <1>2, <2>2, <2>3
<1> QED BY <1>1, <1>2

\* A step of a delivery that leaves the table as it is.
LEMMA GoStill ==
    ASSUME Typed, NEW d \in 1 .. Deliveries, NEW l, GoTo(d, l), hook[d].at \notin {"idle", "over"},
           UNCHANGED <<queue, starter, runner, tick, cancel>>
    PROVE  Typed' /\ RowsStay /\ Unmoved
<1>1. n' = n /\ UNCHANGED job /\ Unmoved /\ UNCHANGED <<enabled, tick, cancel>>
    BY DEF queue, n, Unmoved
<1>2. cancel.at # "idle" => cancel.job \in 1 .. n'
    BY <1>1 DEF Typed, TypedOutside
<1>3. TypedOutside'
    BY <1>1, <1>2, GoTyped
<1>4. TypedJobs' /\ RowsStay
    BY <1>1, NoRowSet
<1>5. TypedRuns' /\ TypedStarter'
    BY <1>1 DEF Typed, TypedRuns, TypedStarter, runner, Started
<1> QED BY <1>1, <1>3, <1>4, <1>5 DEF Typed

\* Looking for one like it, the first time and again.
LEMMA LookKeyTyped ==
    ASSUME Typed, NEW d \in 1 .. Deliveries, LookKey(d) \/ LookAgain(d)
    PROVE  Typed' /\ RowsStay /\ Unmoved
<1>1. PICK l : GoTo(d, l)
    BY DEF LookKey, LookAgain
<1> QED
    BY <1>1, GoStill DEF LookKey, LookAgain, At

\* The same, of a request of which several fields change.
LEMMA HookFields ==
    ASSUME TypedOutside, NEW d \in 1 .. Deliveries, NEW at, NEW j, NEW again,
           hook' = [e \in 1 .. Deliveries |-> hook'[e]],
           \A e \in 1 .. Deliveries : e # d => hook'[e] = hook[e],
           hook'[d] = [at |-> at, origin |-> hook[d].origin, key |-> hook[d].key, job |-> j, again |-> again],
           hook[d].at \notin {"idle", "over"},
           UNCHANGED <<enabled, tick, cancel>>, cancel.at # "idle" => cancel.job \in 1 .. n'
    PROVE  TypedOutside' /\ hook'[d].at = at
<1>1. \A e \in 1 .. Deliveries :
          /\ hook'[e] = [at |-> hook'[e].at, origin |-> hook'[e].origin, key |-> hook'[e].key,
                         job |-> hook'[e].job, again |-> hook'[e].again]
          /\ hook'[e].at \notin {"idle", "over"} => hook'[e].origin \in Origins /\ hook'[e].key \in Keys
    BY DEF TypedOutside
<1> QED
    BY <1>1 DEF TypedOutside

\* Looking for a run that waits.
LEMMA LookFoldTyped ==
    ASSUME Typed, NEW d \in 1 .. Deliveries, LookFold(d)
    PROVE  /\ Typed' /\ RowsStay /\ Unmoved
           /\ hook'[d].at \in {"create", "folding"}
           /\ \A e \in 1 .. Deliveries : e # d => hook'[e] = hook[e]
<1>1. UNCHANGED <<queue, starter, runner, tick, cancel>> /\ hook[d].at = "fold"
    BY DEF LookFold, At
<1>2. n' = n /\ UNCHANGED job /\ Unmoved /\ UNCHANGED <<enabled, tick, cancel>>
    BY <1>1 DEF queue, n, Unmoved
<1>3. cancel.at # "idle" => cancel.job \in 1 .. n'
    BY <1>2 DEF Typed, TypedOutside
<1>4. /\ hook = [e \in 1 .. Deliveries |-> hook[e]]
      /\ hook[d] = [at |-> hook[d].at, origin |-> hook[d].origin, key |-> hook[d].key,
                    job |-> hook[d].job, again |-> hook[d].again]
      /\ TypedOutside
    BY DEF Typed, TypedOutside
<1>5. TypedOutside' /\ hook'[d].at \in {"create", "folding"}
      /\ \A e \in 1 .. Deliveries : e # d => hook'[e] = hook[e]
  <2>1. CASE hook' = [hook EXCEPT ![d].at = "create"]
    <3>1. /\ hook'[d] = [at |-> "create", origin |-> hook[d].origin, key |-> hook[d].key,
                         job |-> hook[d].job, again |-> hook[d].again]
          /\ hook' = [e \in 1 .. Deliveries |-> hook'[e]]
          /\ \A e \in 1 .. Deliveries : e # d => hook'[e] = hook[e]
        BY <1>4, <2>1
    <3> QED BY <1>1, <1>2, <1>3, <1>4, <3>1, HookFields
  <2>2. CASE ~(hook' = [hook EXCEPT ![d].at = "create"])
    <3>1. PICK j : hook' = [hook EXCEPT ![d].at = "folding", ![d].job = j]
        BY <2>2 DEF LookFold
    <3>2. /\ hook'[d] = [at |-> "folding", origin |-> hook[d].origin, key |-> hook[d].key,
                         job |-> j, again |-> hook[d].again]
          /\ hook' = [e \in 1 .. Deliveries |-> hook'[e]]
          /\ \A e \in 1 .. Deliveries : e # d => hook'[e] = hook[e]
        BY <1>4, <3>1
    <3> QED BY <1>1, <1>2, <1>3, <1>4, <3>2, HookFields
  <2> QED BY <2>1, <2>2
<1>6. TypedJobs' /\ RowsStay
    BY <1>2, NoRowSet
<1>7. TypedRuns' /\ TypedStarter'
    BY <1>1, <1>2 DEF Typed, TypedRuns, TypedStarter, runner, Started
<1> QED BY <1>2, <1>5, <1>6, <1>7 DEF Typed

\* Folding into it, or finding that it does not wait any more.
LEMMA FoldTyped ==
    ASSUME Typed, NEW d \in 1 .. Deliveries, Fold(d)
    PROVE  Typed' /\ RowsStay /\ Unmoved
<1>1. /\ UNCHANGED <<aged, enabled, sent, starter, runner, tick, cancel>> /\ hook[d].at = "folding"
      /\ n \in Nat /\ job \in [1 .. n -> Job]
    BY TableShape DEF Fold, At, Typed
<1>2. job' \in Seq(Job) /\ n' = n /\ RowsStay /\ Unmoved
  <2>1. CASE UNCHANGED job
    BY <1>1, <2>1, NoRowSet DEF Unmoved, Typed, TypedJobs, RowsStay
  <2>2. CASE job' = [job EXCEPT ![hook[d].job].payload = d]
    <3>1. d \in 0 .. Deliveries
        BY BoundAssumption
    <3>2. [job EXCEPT ![hook[d].job].payload = d] \in [1 .. n -> Job]
        BY <1>1, <3>1 DEF Job
    <3>3. job' \in Seq(Job) /\ n' = n
        BY <2>2, <3>2, SameTable DEF Typed
    <3> QED BY <1>1, <2>2, <3>3 DEF RowsStay, Unmoved, Job
  <2> QED BY <2>1, <2>2 DEF Fold
<1>3. cancel.at # "idle" => cancel.job \in 1 .. n'
    BY <1>2 DEF Typed, TypedOutside
<1>4. PICK l : GoTo(d, l)
    BY DEF Fold
<1>5. TypedOutside'
    BY <1>1, <1>3, <1>4, GoTyped
<1>6. TypedJobs'
    BY <1>2, KeptTyped DEF Unmoved
<1>7. TypedRuns' /\ TypedStarter'
    BY <1>1, <1>2 DEF Typed, TypedRuns, TypedStarter, runner, Started
<1> QED BY <1>2, <1>5, <1>6, <1>7 DEF Typed

\* ClearDedupe: rows of that key lose it, nothing else.
LEMMA ClearTyped ==
    ASSUME Typed, NEW d \in 1 .. Deliveries, ClearDedupe(d)
    PROVE  /\ Typed' /\ n' = n /\ Unmoved
           /\ hook'[d].at = "create"
           /\ \A e \in 1 .. Deliveries : e # d => hook'[e] = hook[e]
           /\ \A j \in 1 .. n : /\ job'[j].origin = job[j].origin /\ job'[j].trigger = job[j].trigger
                                /\ job'[j].status = job[j].status /\ job'[j].chat = job[j].chat
                                /\ job'[j].payload = job[j].payload
                                /\ j \notin SameKey(d) => job'[j].key = job[j].key
                                /\ j \in SameKey(d) => job'[j].key = NoKey
<1>1. /\ UNCHANGED <<aged, enabled, sent, starter, runner, tick, cancel>> /\ hook[d].at = "clear"
      /\ n \in Nat /\ job \in [1 .. n -> Job] /\ \A j \in 1 .. n : job[j] \in Job
    BY TableShape DEF ClearDedupe, At, Typed
<1>2. job' = [j \in 1 .. n |-> IF j \in SameKey(d) THEN [job[j] EXCEPT !.key = NoKey] ELSE job[j]]
    BY DEF ClearDedupe
<1>3. \A j \in 1 .. n : [job[j] EXCEPT !.key = NoKey] \in Job
    BY <1>1 DEF Job
<1>4. job' \in [1 .. n -> Job]
    BY <1>1, <1>2, <1>3
<1>5. job' \in Seq(Job) /\ n' = n
    BY <1>4, SameTable DEF Typed
<1>6. cancel.at # "idle" => cancel.job \in 1 .. n'
    BY <1>5 DEF Typed, TypedOutside
<1>7. /\ hook = [e \in 1 .. Deliveries |-> hook[e]]
      /\ hook[d] = [at |-> hook[d].at, origin |-> hook[d].origin, key |-> hook[d].key,
                    job |-> hook[d].job, again |-> hook[d].again]
      /\ TypedOutside
    BY DEF Typed, TypedOutside
<1>8. TypedOutside' /\ hook'[d].at = "create" /\ \A e \in 1 .. Deliveries : e # d => hook'[e] = hook[e]
  <2>1. hook' = [hook EXCEPT ![d].at = "create", ![d].again = TRUE]
    BY DEF ClearDedupe
  <2>2. /\ hook'[d] = [at |-> "create", origin |-> hook[d].origin, key |-> hook[d].key,
                       job |-> hook[d].job, again |-> TRUE]
        /\ hook' = [e \in 1 .. Deliveries |-> hook'[e]]
        /\ \A e \in 1 .. Deliveries : e # d => hook'[e] = hook[e]
    BY <1>7, <2>1
  <2> QED BY <1>1, <1>6, <1>7, <2>2, HookFields
<1>9. TypedJobs' /\ Unmoved
    BY <1>1, <1>5, KeptTyped DEF Unmoved
<1>10. TypedRuns' /\ TypedStarter'
    BY <1>1, <1>5 DEF Typed, TypedRuns, TypedStarter, runner, Started
<1>11. \A j \in 1 .. n : /\ job'[j].origin = job[j].origin /\ job'[j].trigger = job[j].trigger
                         /\ job'[j].status = job[j].status /\ job'[j].chat = job[j].chat
                         /\ job'[j].payload = job[j].payload
                         /\ j \notin SameKey(d) => job'[j].key = job[j].key
                         /\ j \in SameKey(d) => job'[j].key = NoKey
    BY <1>1, <1>2 DEF Job
<1> QED BY <1>5, <1>8, <1>9, <1>10, <1>11 DEF Typed

\* Creating its job: a row, or a conflict.
LEMMA CreateTyped ==
    ASSUME Typed, NEW d \in 1 .. Deliveries, CreateHook(d)
    PROVE  /\ Typed'
           /\ \A e \in 1 .. Deliveries : e # d => hook'[e] = hook[e]
           /\ \/ ~Conflicts(d) /\ RowAddedBy(hook[d].origin, hook[d].key) /\ hook'[d].at = "over"
              \/ /\ Conflicts(d) /\ RowsStay /\ Unmoved /\ UNCHANGED <<job, starter, runner, cancel>>
                 /\ hook'[d].at = "again"
                 /\ hook'[d].origin = hook[d].origin /\ hook'[d].key = hook[d].key
<1>1. /\ UNCHANGED <<aged, enabled, starter, runner, tick, cancel>> /\ hook[d].at = "create"
      /\ hook[d].origin \in Origins /\ hook[d].key \in Keys
    BY DEF CreateHook, At, Typed, TypedOutside
<1>2. CASE ~Conflicts(d)
  <2> DEFINE waits == hook[d].origin \in Debounced
  <2>0. waits \in BOOLEAN
    OBVIOUS
  <2>1. Create(hook[d].origin, "webhook", hook[d].key, d, waits)
    BY <1>2, Zenon DEF CreateHook
  <2>2. d \in 0 .. Deliveries /\ hook[d].key \in Keys \cup {NoKey} /\ UNCHANGED <<aged, starter, runner, cancel>>
    BY <1>1, BoundAssumption
  <2>3. TypedJobs' /\ TypedRuns' /\ TypedStarter' /\ RowAddedBy(hook[d].origin, hook[d].key)
        /\ (cancel.at # "idle" => cancel.job \in 1 .. n')
    BY <1>1, <2>0, <2>1, <2>2, AddTyped
  <2>4. GoTo(d, "over")
    BY <1>2 DEF CreateHook
  <2>5. TypedOutside' /\ hook'[d].at = "over" /\ \A e \in 1 .. Deliveries : e # d => hook'[e] = hook[e]
    BY <1>1, <2>3, <2>4, GoTyped
  <2> QED BY <1>2, <2>3, <2>5 DEF Typed
<1>3. CASE Conflicts(d)
  <2>1. GoTo(d, "again") /\ UNCHANGED <<queue, starter, runner, tick, cancel>>
    BY <1>3 DEF CreateHook, queue
  <2>2. Typed' /\ RowsStay /\ Unmoved
    BY <1>1, <2>1, GoStill
  <2>3. n' = n /\ UNCHANGED <<job, enabled, tick, cancel>>
    BY <2>1 DEF queue, n
  <2>4. cancel.at # "idle" => cancel.job \in 1 .. n'
    BY <2>3 DEF Typed, TypedOutside
  <2>5. /\ hook'[d].at = "again"
        /\ hook'[d].origin = hook[d].origin /\ hook'[d].key = hook[d].key
        /\ \A e \in 1 .. Deliveries : e # d => hook'[e] = hook[e]
    BY <1>1, <2>1, <2>3, <2>4, GoTyped
  <2> QED BY <1>1, <1>3, <2>2, <2>3, <2>5
<1> QED BY <1>2, <1>3

\* Steps of which only these change: the times of jobs, what Tick and the
\* person who cancels have read.
Bystander == (\E o \in Origins : TickLook(o)) \/ \E j \in Jobs : Comes(j) \/ Ages(j) \/ HourPasses(j) \/ CancelLook(j)

\* Those steps leave the rows and the runs.
LEMMA BystanderTyped ==
    ASSUME Typed, Bystander
    PROVE  Typed' /\ RowsStay /\ UNCHANGED <<job, sent, starter, runner, hook>> /\ aged \subseteq aged'
<1>1. UNCHANGED <<job, sent, enabled, starter, runner, hook>> /\ n' = n
    BY DEF Bystander, TickLook, Comes, Ages, HourPasses, CancelLook, queue, outside, n
<1>2. RowsStay
    BY <1>1 DEF RowsStay
<1>3. TypedRuns' /\ TypedStarter'
    BY <1>1 DEF Typed, TypedRuns, TypedStarter, runner, Started
<1>4. aged \subseteq aged' /\ TypedJobs'
  <2>0. n \in Nat
    BY TableShape DEF Typed
  <2>1. CASE \E j \in Jobs : Ages(j)
    <3>1. PICK j \in Jobs : Ages(j)
        BY <2>1
    <3>2. j \in 1 .. n /\ aged' = aged \cup {j}
        BY <3>1, BoundAssumption DEF Ages, Jobs
    <3> QED BY <1>1, <3>2 DEF Typed, TypedJobs
  <2>2. CASE \E j \in Jobs : HourPasses(j)
    <3>1. PICK j \in Jobs : HourPasses(j)
        BY <2>2
    <3>2. aged' = aged \cup 1 .. j /\ 1 .. j \subseteq 1 .. n
        BY <2>0, <3>1, BoundAssumption DEF HourPasses, Jobs
    <3> QED BY <1>1, <3>2 DEF Typed, TypedJobs
  <2>3. CASE ~\E j \in Jobs : Ages(j) \/ HourPasses(j)
    <3>1. UNCHANGED aged
        BY <2>3 DEF Bystander, TickLook, Comes, CancelLook, queue
    <3> QED BY <1>1, <3>1 DEF Typed, TypedJobs
  <2> QED BY <2>1, <2>2, <2>3
<1>5. TypedOutside'
  <2>1. n \in Nat
    BY TableShape DEF Typed
  <2>2. CASE \E o \in Origins : TickLook(o)
    BY <1>1, <2>2 DEF TickLook, Typed, TypedOutside
  <2>3. CASE \E j \in Jobs : Comes(j) \/ Ages(j) \/ HourPasses(j)
    BY <1>1, <2>3 DEF Comes, Ages, HourPasses, outside, Typed, TypedOutside
  <2>4. CASE \E j \in Jobs : CancelLook(j)
    <3>1. PICK j \in Jobs : CancelLook(j)
        BY <2>4
    <3>2. j \in 1 .. n
        BY <2>1, <3>1, BoundAssumption DEF CancelLook, Jobs
    <3> QED BY <1>1, <3>1, <3>2 DEF CancelLook, Typed, TypedOutside
  <2> QED BY <2>2, <2>3, <2>4 DEF Bystander
<1> QED BY <1>1, <1>2, <1>3, <1>4, <1>5 DEF Typed

\* A person's cancel: no row changes but in its status.
LEMMA CancelTyped ==
    ASSUME Typed, Cancel
    PROVE  Typed' /\ RowsStay /\ Unmoved /\ UNCHANGED <<starter, runner, hook>>
<1>1. /\ UNCHANGED <<enabled, tick, hook, starter, runner>> /\ Unmoved /\ cancel.job \in 1 .. n
    BY DEF Cancel, CancelPending, CancelAgain, CancelRunning, CancelRecord, queue, Unmoved, Typed, TypedOutside
<1>2. TypedJobs' /\ RowsStay
  <2>1. CASE UNCHANGED job
    BY <1>1, <2>1, NoRowSet
  <2>2. CASE SetStatus(cancel.job, "cancelled")
    BY <1>1, <2>2, SetTyped DEF Final
  <2> QED BY <2>1, <2>2 DEF Cancel, CancelPending, CancelAgain, CancelRunning, CancelRecord, queue
<1>3. n' = n
    BY <1>2 DEF RowsStay
<1>4. TypedOutside'
  <2>1. CASE cancel' = NoCancel
    BY <1>1, <1>3, <2>1 DEF Typed, TypedOutside, NoCancel
  <2>2. CASE ~(cancel' = NoCancel)
    BY <1>1, <1>3, <2>2 DEF Typed, TypedOutside, Cancel, CancelPending, CancelAgain, CancelRunning, CancelRecord
  <2> QED BY <2>1, <2>2
<1>5. TypedRuns' /\ TypedStarter'
    BY <1>1, <1>3 DEF Typed, TypedRuns, TypedStarter, runner, Started
<1> QED BY <1>1, <1>2, <1>4, <1>5 DEF Typed

\* Office starts again: no run, no request and no cancel is left.
LEMMA RestartTyped ==
    ASSUME Typed, Restart
    PROVE  /\ Typed' /\ RowsStay /\ Unmoved /\ starter' = NoStarter /\ cancel' = NoCancel /\ UNCHANGED ran
           /\ \A j \in Jobs : run'[j] = "no"
           /\ \A j \in 1 .. n : /\ Status(j) = "running" => job'[j].status = "failed"
                                /\ Status(j) # "running" => job'[j] = job[j]
                                /\ job'[j].chat = job[j].chat
           /\ \A d \in 1 .. Deliveries : hook'[d].at \in {"idle", "over"} \/ hook'[d] = hook[d]
           /\ \A d \in 1 .. Deliveries : hook'[d].at \notin {"again", "clear"}
<1>1. n \in Nat /\ job \in [1 .. n -> Job] /\ \A j \in 1 .. n : job[j] \in Job
    BY TableShape DEF Typed
<1>2. job' = [j \in 1 .. n |-> IF job[j].status = "running" THEN [job[j] EXCEPT !.status = "failed"] ELSE job[j]]
    BY DEF Restart, Cut, Status
<1>3. \A j \in 1 .. n : [job[j] EXCEPT !.status = "failed"] \in Job
    BY <1>1 DEF Job, Final
<1>4. job' \in [1 .. n -> Job]
    BY <1>1, <1>2, <1>3
<1>5. job' \in Seq(Job) /\ n' = n
    BY <1>4, SameTable DEF Typed
<1>6. RowsStay /\ \A j \in 1 .. n :
          /\ Status(j) = "running" => job'[j].status = "failed"
          /\ Status(j) # "running" => job'[j] = job[j]
          /\ job'[j].chat = job[j].chat
    BY <1>1, <1>2, <1>5 DEF RowsStay, Job, Status
<1>7. Unmoved /\ TypedJobs'
    BY <1>5, KeptTyped DEF Restart, Unmoved
<1>8. TypedRuns' /\ \A j \in Jobs : run'[j] = "no"
    BY <1>5, BoundAssumption DEF Restart, Typed, TypedRuns, Started, Stages, None
<1>9. starter' = NoStarter /\ cancel' = NoCancel /\ UNCHANGED <<ran, enabled>> /\ tick' = None
    BY DEF Restart
<1>10. TypedStarter'
    BY <1>9 DEF TypedStarter, NoStarter
<1>11. /\ hook' = [d \in 1 .. Deliveries |-> hook'[d]]
       /\ \A d \in 1 .. Deliveries :
             \/ hook'[d] = HookOver /\ hook[d].at \in {"look", "fold", "folding", "create", "again", "clear"}
             \/ hook'[d] = hook[d] /\ hook[d].at \notin {"look", "fold", "folding", "create", "again", "clear"}
    BY DEF Restart
<1>12. HookOver.at = "over" /\ HookOver = [at |-> HookOver.at, origin |-> HookOver.origin, key |-> HookOver.key,
                                          job |-> HookOver.job, again |-> HookOver.again]
    BY DEF HookOver, Request
<1>13. TypedOutside'
  <2>1. \A d \in 1 .. Deliveries :
          /\ hook'[d] = [at |-> hook'[d].at, origin |-> hook'[d].origin, key |-> hook'[d].key,
                         job |-> hook'[d].job, again |-> hook'[d].again]
          /\ hook'[d].at \notin {"idle", "over"} => hook'[d].origin \in Origins /\ hook'[d].key \in Keys
    BY <1>11, <1>12 DEF Typed, TypedOutside
  <2>2. NoCancel = [at |-> NoCancel.at, job |-> NoCancel.job, raced |-> NoCancel.raced] /\ NoCancel.at = "idle"
    BY DEF NoCancel
  <2> QED
    BY <1>9, <1>11, <2>1, <2>2 DEF Typed, TypedOutside
<1> QED
    BY <1>6, <1>7, <1>8, <1>9, <1>10, <1>11, <1>12, <1>13 DEF Typed

\* No step makes anything ill-typed.
LEMMA StepTyped == Typed /\ [Next]_vars => Typed'
<1> SUFFICES ASSUME Typed, [Next]_vars PROVE Typed'
    OBVIOUS
<1>1. CASE UNCHANGED vars
    BY <1>1 DEF vars, queue, runner, outside, Typed, TypedJobs, TypedRuns, TypedStarter, TypedOutside, n, Started
<1>2. ASSUME NEW o \in Origins, RunNow(o) PROVE Typed'
    BY <1>2, RunNowTyped
<1>3. CASE TickAdd
    BY <1>3, TickAddTyped
<1>4. ASSUME NEW d \in 1 .. Deliveries, Deliver(d) \/ Hook(d) PROVE Typed'
    BY <1>4, DeliverTyped, LookKeyTyped, LookFoldTyped, FoldTyped, CreateTyped, ClearTyped DEF Hook
<1>5. CASE Starter
    BY <1>5, StarterTyped
<1>6. ASSUME NEW j \in Jobs, Runs(j) PROVE Typed'
    BY <1>6, RunsTyped
<1>7. CASE Bystander
    BY <1>7, BystanderTyped
<1>8. CASE Cancel
    BY <1>8, CancelTyped
<1>9. CASE Restart
    BY <1>9, RestartTyped
<1> QED
    BY <1>1, <1>2, <1>3, <1>4, <1>5, <1>6, <1>7, <1>8, <1>9 DEF Next, Bystander

-----------------------------------------------------------------------------
(* Each job is started once. *)

\* Its goroutine is at work, nothing of it was started and nobody stopped it.
Fresh(j) == Status(j) = "running" /\ ran[j] = 0 /\ ~job[j].chat
NotYet == {"check", "limit", "skip", "script", "send", "busy", "put", "timeout", "finish"}
\* Where its goroutine is tells whether it was started: one that waits was
\* not, and only a chat's is stopped while it runs.
RunOf(j) ==
    /\ Status(j) \in {"pending", "skipped"} => ran[j] = 0 /\ ~job[j].chat
    /\ run[j] \in NotYet => Fresh(j)
    /\ run[j] = "ran" => Status(j) = "running" /\ ran[j] = 1 /\ ~job[j].chat
    /\ run[j] = "answering" => ran[j] = 1 /\ job[j].chat
    /\ run[j] = "settle" => Fresh(j) \/ Status(j) \in Final
    /\ run[j] \in {"record", "leave"} => Status(j) # "running"
    /\ ran[j] \in {0, 1}
    /\ job[j].chat => ran[j] = 1
RunInv == \A j \in 1 .. n : RunOf(j)
StarterInv ==
    /\ starter.at # "sort" => starter.list = {} /\ starter.keep = {}
    /\ starter.list \cap starter.keep = {}
    /\ \A j \in starter.list \cup starter.keep : run[j] = "no" /\ Fresh(j)
CancelInv == cancel.at \in {"running", "record"} => job[cancel.job].chat
OnceInv == RunInv /\ StarterInv /\ CancelInv
\* What was not made was not started.
Unmade == \A j \in Jobs : j > n => ran[j] = 0
RunsInv == Typed /\ OnceInv /\ Unmade

\* At the start nothing was made or started.
LEMMA InitOnce == Init => OnceInv /\ Unmade
<1> SUFFICES ASSUME Init PROVE OnceInv /\ Unmade
    OBVIOUS
<1>1. n = 0
    BY DEF Init, n
<1> QED
    BY <1>1 DEF Init, OnceInv, RunInv, StarterInv, CancelInv, Unmade, NoStarter, NoCancel

\* A step of one run leaves the others alone.
LEMMA RunsOthers ==
    ASSUME Typed, NEW j \in Jobs, Runs(j)
    PROVE  /\ \A i \in 1 .. n : i # j => /\ job'[i] = job[i] /\ run'[i] = run[i]
                                         /\ ran'[i] = ran[i] /\ copy'[i] = copy[i]
           /\ \A i \in Jobs : i # j => ran'[i] = ran[i]
           /\ UNCHANGED <<starter, outside, sent, aged>>
<1>1. 1 .. n \subseteq Jobs /\ DOMAIN job = 1 .. n
    BY TableShape DEF Typed
<1>2. UNCHANGED <<starter, outside, sent, aged>>
    BY DEF Runs, Check, Limit, Skip, Script, ScriptEnd, queue,
       Send, Answer, SettleBusy, Put, Timeout, Settle, Finish, Record, Leave, Stay
<1>3. \A i \in 1 .. n : i # j => job'[i] = job[i]
    BY <1>1 DEF Runs, Check, Limit, Skip, Script, ScriptEnd, queue,
       Send, Answer, SettleBusy, Put, Timeout, Settle, Finish, Record, Leave, SetStatus
<1>4. \A i \in Jobs : i # j => run'[i] = run[i]
    BY DEF Typed, TypedRuns, Runs, Check, Limit, Skip, Script, ScriptEnd,
       Send, Answer, SettleBusy, Put, Timeout, Settle, Finish, Record, Leave, Move
<1>5. \A i \in Jobs : i # j => ran'[i] = ran[i] /\ copy'[i] = copy[i]
    BY DEF Typed, TypedRuns, Runs, Check, Limit, Skip, Script, ScriptEnd,
       Send, Answer, SettleBusy, Put, Timeout, Settle, Finish, Record, Leave
<1> QED BY <1>1, <1>2, <1>3, <1>4, <1>5

\* The row and the goroutine of a job after a step of its run.
LEMMA RunsRow ==
    ASSUME Typed, NEW j \in 1 .. n, NEW s \in Open \cup Final, NEW l \in Stages, SetStatus(j, s), Move(j, l)
    PROVE  job'[j].status = s /\ job'[j].chat = job[j].chat /\ run'[j] = l
<1>1. job'[j] = [job[j] EXCEPT !.status = s] /\ job[j] \in Job /\ 1 .. n \subseteq Jobs
    BY StatusSet, TableShape DEF Typed
<1> QED
    BY <1>1 DEF Job, Move, Typed, TypedRuns

\* What a step of a run does to its own job.
LEMMA RunsSelf ==
    ASSUME Typed, OnceInv, NEW j \in Jobs, Runs(j)
    PROVE  RunOf(j)' /\ (job[j].chat => job'[j].chat)
           /\ (Status(j) = "cancelled" => job'[j].status = "cancelled" /\ ran'[j] = ran[j])
<1>1. j \in 1 .. n /\ job[j] \in Job /\ 1 .. n \subseteq Jobs /\ DOMAIN job = 1 .. n
    BY RunsTyped, TableShape DEF Typed
<1>2. RunOf(j)
    BY <1>1 DEF OnceInv, RunInv
<1>3. run \in [Jobs -> Stages] /\ ran \in [Jobs -> Nat]
    BY DEF Typed, TypedRuns
<1>4. CASE Check(j) \/ Limit(j)
  <2>1. PICK l \in {"skip", "limit", "script", "send"} : Move(j, l)
    BY <1>4 DEF Check, Limit, Content
  <2>2. run'[j] = l /\ UNCHANGED <<job, ran>> /\ run[j] \in NotYet
    BY <1>1, <1>3, <1>4, <2>1 DEF Check, Limit, Move, NotYet
  <2> QED
    BY <1>2, <2>2 DEF RunOf, NotYet, Fresh, Status
<1>5. CASE Skip(j) \/ Timeout(j)
  <2>1. PICK s \in {"skipped", "failed"} : SetStatus(j, s) /\ Move(j, "leave")
    BY <1>5 DEF Skip, Timeout
  <2>2. job'[j].status = s /\ job'[j].chat = job[j].chat /\ run'[j] = "leave"
    BY <1>1, <2>1, RunsRow DEF Final, Stages
  <2> QED
    BY <1>2, <1>5, <2>2 DEF Skip, Timeout, RunOf, NotYet, Fresh, Status, Final
<1>6. CASE Script(j)
  <2>1. run'[j] = "ran" /\ ran'[j] = ran[j] + 1 /\ UNCHANGED job /\ run[j] = "script"
    BY <1>1, <1>3, <1>6 DEF Script, Move
  <2> QED
    BY <1>2, <2>1 DEF RunOf, NotYet, Fresh, Status
<1>7. CASE ScriptEnd(j) \/ Finish(j)
  <2>1. PICK s \in {"done", "failed"} : SetStatus(j, s) /\ Move(j, "record")
    BY <1>7 DEF ScriptEnd, Finish
  <2>2. job'[j].status = s /\ job'[j].chat = job[j].chat /\ run'[j] = "record"
    BY <1>1, <2>1, RunsRow DEF Final, Stages
  <2> QED
    BY <1>2, <1>7, <2>2 DEF ScriptEnd, Finish, RunOf, NotYet, Fresh, Status, Final
<1>8. CASE Send(j)
  <2>1. run[j] = "send"
    BY <1>8 DEF Send
  <2>2. CASE UNCHANGED <<job, ran>> /\ \E stage \in {"busy", "settle"} : Move(j, stage)
    <3>1. run'[j] \in {"busy", "settle"}
        BY <1>1, <1>3, <2>2 DEF Move
    <3> QED
        BY <1>2, <2>1, <2>2, <3>1 DEF RunOf, NotYet, Fresh, Status
  <2>3. CASE job' = [job EXCEPT ![j].chat = TRUE] /\ Move(j, "answering") /\ ran' = [ran EXCEPT ![j] = @ + 1]
    <3>1. run'[j] = "answering" /\ ran'[j] = ran[j] + 1 /\ job'[j].chat /\ job'[j].status = job[j].status
        BY <1>1, <1>3, <2>3 DEF Move, Job
    <3> QED
        BY <1>2, <2>1, <3>1 DEF RunOf, NotYet, Fresh, Status
  <2> QED BY <1>8, <2>2, <2>3 DEF Send
<1>9. CASE Answer(j)
  <2>1. run[j] = "answering" /\ run'[j] = "settle" /\ UNCHANGED ran
    BY <1>1, <1>3, <1>9 DEF Answer, Move
  <2>2. CASE Status(j) # "running"
    <3>1. UNCHANGED job
        BY <1>9, <2>2 DEF Answer
    <3>2. Status(j) \in Final
        BY <1>1, <1>2, <2>1, <2>2 DEF Job, Open, RunOf, Status
    <3> QED
        BY <1>2, <2>1, <3>1, <3>2 DEF RunOf, NotYet, Fresh, Status
  <2>3. CASE Status(j) = "running"
    <3>1. PICK s \in {"done", "failed", "cancelled"} : SetStatus(j, s)
        BY <1>9, <2>3 DEF Answer
    <3>2. Move(j, "settle")
        BY <1>9 DEF Answer
    <3>3. job'[j].status = s /\ job'[j].chat = job[j].chat
        BY <1>1, <3>1, <3>2, RunsRow DEF Final, Stages
    <3> QED
        BY <1>2, <2>1, <2>3, <3>3 DEF RunOf, NotYet, Fresh, Status, Final
  <2> QED BY <2>2, <2>3
<1>10. CASE SettleBusy(j)
  <2>1. run[j] = "busy" /\ run'[j] \in {"timeout", "put"} /\ UNCHANGED <<job, ran>>
    BY <1>1, <1>3, <1>10 DEF SettleBusy, Move
  <2> QED
    BY <1>2, <2>1 DEF RunOf, NotYet, Fresh, Status
<1>11. CASE Put(j)
  <2>1. run[j] = "put" /\ run'[j] = "leave" /\ UNCHANGED ran /\ job'[j].status = "pending" /\ job'[j].chat = job[j].chat
    BY <1>1, <1>3, <1>11 DEF Put, Move, Job
  <2> QED
    BY <1>2, <2>1 DEF RunOf, NotYet, Fresh, Status
<1>12. CASE Settle(j)
  <2>1. /\ run[j] = "settle" /\ UNCHANGED <<job, ran>>
        /\ run'[j] = IF Status(j) \in Open THEN "finish" ELSE "record"
    BY <1>1, <1>3, <1>12 DEF Settle, Move
  <2> QED
    BY <1>2, <2>1 DEF RunOf, NotYet, Fresh, Status, Open, Final
<1>13. CASE Record(j) \/ Leave(j)
  <2>1. run[j] \in {"record", "leave"} /\ run'[j] \in {"leave", "no"} /\ UNCHANGED <<job, ran>>
    BY <1>1, <1>3, <1>13 DEF Record, Leave, Move, queue
  <2> QED
    BY <1>2, <2>1 DEF RunOf, NotYet, Fresh, Status
<1> QED
    BY <1>4, <1>5, <1>6, <1>7, <1>8, <1>9, <1>10, <1>11, <1>12, <1>13 DEF Runs

\* What a step keeps of each job: a chat's stays one, a cancelled one stays so
\* and nothing of it is started.
Steady(j) ==
    /\ job[j].chat => job'[j].chat
    /\ Status(j) = "cancelled" => job'[j].status = "cancelled" /\ ran'[j] = ran[j]

\* A step that leaves the rows of all jobs, and what their runs do.
LEMMA OnceStill ==
    ASSUME RunsInv, Typed', UNCHANGED <<starter, run, ran, cancel>>, n' = n,
           \A j \in 1 .. n : job'[j].status = job[j].status /\ job'[j].chat = job[j].chat
    PROVE  RunsInv' /\ \A j \in 1 .. n : Steady(j)
<1>1. \A j \in 1 .. n : Fresh(j)' = Fresh(j) /\ Status(j)' = Status(j)
    BY DEF Fresh, Status
<1>2. RunInv'
    BY <1>1 DEF RunsInv, OnceInv, RunInv, RunOf
<1>3. StarterInv'
    BY <1>1 DEF RunsInv, OnceInv, StarterInv, Typed, TypedStarter
<1>4. CancelInv'
    BY DEF RunsInv, OnceInv, CancelInv, Typed, TypedOutside
<1>5. Unmade'
    BY DEF RunsInv, Unmade
<1> QED
    BY <1>2, <1>3, <1>4, <1>5 DEF RunsInv, OnceInv, Steady, Status

\* A new job was not started.
LEMMA OnceAdded ==
    ASSUME RunsInv, Typed', NEW o, NEW key, RowAddedBy(o, key)
    PROVE  RunsInv' /\ \A j \in 1 .. n : Steady(j)
<1>1. n \in Nat /\ 1 .. n \subseteq Jobs /\ n' = n + 1 /\ n + 1 \in Jobs
    BY TableShape DEF RunsInv, Typed, RowAddedBy
<1>2. UNCHANGED <<starter, run, ran, cancel>>
    BY DEF RowAddedBy, runner
<1>3. \A j \in 1 .. n : job'[j] = job[j] /\ Fresh(j)' = Fresh(j)
    BY <1>2 DEF RowAddedBy, Fresh, Status
<1>4. \A j \in 1 .. n : RunOf(j)'
    BY <1>2, <1>3 DEF RunsInv, OnceInv, RunInv, RunOf, Status
<1>5. ASSUME NEW j \in Jobs, j = n + 1 PROVE RunOf(j)'
  <2>1. ran[j] = 0 /\ run[j] = "no"
    BY <1>1, <1>5 DEF RunsInv, Unmade, Typed, TypedRuns, Started
  <2>2. ran'[j] = 0 /\ run'[j] = "no" /\ job'[j].status = "pending" /\ ~job'[j].chat
    BY <1>2, <1>5, <2>1 DEF RowAddedBy
  <2> QED BY <2>2 DEF RunOf, NotYet, Fresh, Status
<1>6. RunInv'
    BY <1>1, <1>4, <1>5 DEF RunInv
<1>7. StarterInv'
    BY <1>2, <1>3 DEF RunsInv, OnceInv, StarterInv, Typed, TypedStarter
<1>8. CancelInv'
    BY <1>2, <1>3 DEF RunsInv, OnceInv, CancelInv, Typed, TypedOutside
<1>9. Unmade'
    BY <1>1, <1>2 DEF RunsInv, Unmade, Jobs
<1> QED
    BY <1>2, <1>3, <1>6, <1>7, <1>8, <1>9 DEF RunsInv, OnceInv, Steady, Status

\* A step of a run keeps what is known of where it is.
LEMMA OnceRuns ==
    ASSUME RunsInv, Typed', NEW j \in Jobs, Runs(j)
    PROVE  RunsInv' /\ \A i \in 1 .. n : Steady(i)
<1>1. /\ j \in 1 .. n /\ n' = n
      /\ \A i \in 1 .. n : i # j => job'[i] = job[i] /\ run'[i] = run[i] /\ ran'[i] = ran[i]
      /\ \A i \in Jobs : i # j => ran'[i] = ran[i]
      /\ UNCHANGED <<starter, cancel>>
    BY RunsTyped, RunsOthers DEF RunsInv, RowsStay, outside
<1>2. /\ RunOf(j)' /\ (job[j].chat => job'[j].chat)
      /\ (Status(j) = "cancelled" => job'[j].status = "cancelled" /\ ran'[j] = ran[j])
    BY RunsSelf DEF RunsInv
<1>3. RunInv'
  <2>1. \A i \in 1 .. n : i # j => RunOf(i)'
    BY <1>1 DEF RunsInv, OnceInv, RunInv, RunOf, Fresh, Status
  <2> QED BY <1>1, <1>2, <2>1 DEF RunInv
<1>4. j \notin starter.list \cup starter.keep
  <2>1. run[j] # "no"
    BY DEF Runs, Check, Limit, Skip, Script, ScriptEnd,
       Send, Answer, SettleBusy, Put, Timeout, Settle, Finish, Record, Leave
  <2> QED BY <2>1 DEF RunsInv, OnceInv, StarterInv
<1>5. StarterInv'
  <2>1. \A i \in starter.list \cup starter.keep : i \in 1 .. n /\ i # j /\ run[i] = "no" /\ Fresh(i)
    BY <1>4 DEF RunsInv, OnceInv, StarterInv, Typed, TypedStarter
  <2>2. \A i \in starter.list \cup starter.keep : run'[i] = "no" /\ Fresh(i)'
    BY <1>1, <2>1 DEF Fresh, Status
  <2> QED BY <1>1, <2>2 DEF RunsInv, OnceInv, StarterInv
<1>6. CancelInv'
  <2>1. cancel.at \in {"running", "record"} => cancel.job \in 1 .. n /\ job[cancel.job].chat
    BY DEF RunsInv, OnceInv, CancelInv, Typed, TypedOutside
  <2>2. \A i \in 1 .. n : job[i].chat => job'[i].chat
    BY <1>1, <1>2
  <2> QED BY <1>1, <2>1, <2>2 DEF CancelInv
<1>7. Unmade'
  <2>1. n \in Nat /\ \A i \in Jobs : i > n => i # j
    BY <1>1, TableShape DEF RunsInv, Typed, Jobs
  <2> QED BY <1>1, <2>1 DEF RunsInv, Unmade
<1>8. \A i \in 1 .. n : Steady(i)
    BY <1>1, <1>2 DEF Steady, Status
<1> QED
    BY <1>3, <1>5, <1>6, <1>7, <1>8 DEF RunsInv, OnceInv

\* StartReady takes only jobs of which nothing was started.
LEMMA OnceStarter ==
    ASSUME RunsInv, Typed', Starter
    PROVE  RunsInv' /\ \A i \in 1 .. n : Steady(i)
<1>1. n' = n /\ n \in Nat /\ 1 .. n \subseteq Jobs /\ DOMAIN job = 1 .. n /\ \A j \in 1 .. n : job[j] \in Job
    BY StarterTyped, TableShape DEF RunsInv, Typed, RowsStay
<1>2. UNCHANGED <<ran, cancel>>
    BY DEF Starter, StarterReserve, StarterClaim, StarterSort, StarterGo, runner, outside
<1>3. Unmade'
    BY <1>1, <1>2 DEF RunsInv, Unmade
<1>4. CASE StarterReserve
  <2>1. UNCHANGED <<job, run>> /\ starter'.at # "sort" /\ starter'.list = {} /\ starter'.keep = {}
    BY <1>4 DEF StarterReserve, queue
  <2>2. StarterInv'
    BY <2>1 DEF StarterInv
  <2>3. RunInv' /\ CancelInv'
    BY <1>1, <1>2, <2>1 DEF RunsInv, OnceInv, RunInv, RunOf, CancelInv, Fresh, Status
  <2> QED BY <1>2, <1>3, <2>1, <2>2, <2>3 DEF RunsInv, OnceInv, Steady, Status
<1>5. CASE StarterClaim
  <2>1. PICK list \in SUBSET Can :
          /\ starter' = [starter EXCEPT !.at = "sort", !.list = list]
          /\ job' = [j \in 1 .. n |-> IF j \in list THEN [job[j] EXCEPT !.status = "running"] ELSE job[j]]
    BY <1>5 DEF StarterClaim
  <2>2. UNCHANGED run
    BY <1>5 DEF StarterClaim
  <2>3. \A j \in list : j \in 1 .. n /\ Status(j) = "pending" /\ run[j] = "no"
    BY <2>1 DEF Can, Claimable, Started
  <2>4. \A j \in 1 .. n : j \in list => job'[j].status = "running" /\ job'[j].chat = job[j].chat
    BY <1>1, <2>1 DEF Job
  <2>5. \A j \in 1 .. n : j \notin list => job'[j] = job[j]
    BY <2>1
  <2>6. starter'.at = "sort" /\ starter'.list = list /\ starter'.keep = {}
    BY <1>5, <2>1 DEF StarterClaim, RunsInv, OnceInv, StarterInv, Typed, TypedStarter
  <2>7. \A j \in list : Fresh(j)'
    BY <1>2, <2>3, <2>4 DEF RunsInv, OnceInv, RunInv, RunOf, Fresh, Status
  <2>8. StarterInv'
    BY <2>2, <2>3, <2>6, <2>7 DEF StarterInv
  <2>9. \A j \in 1 .. n : RunOf(j)'
    <3>1. ASSUME NEW j \in 1 .. n, j \in list PROVE RunOf(j)'
        BY <1>2, <2>2, <2>3, <2>4, <2>7, <3>1 DEF RunsInv, OnceInv, RunInv, RunOf, Fresh, Status, NotYet
    <3>2. ASSUME NEW j \in 1 .. n, j \notin list PROVE RunOf(j)'
        BY <1>2, <2>2, <2>5, <3>2 DEF RunsInv, OnceInv, RunInv, RunOf, Fresh, Status
    <3> QED BY <3>1, <3>2
  <2>10. \A j \in 1 .. n : Steady(j)
    BY <1>2, <2>3, <2>4, <2>5 DEF Steady, Status
  <2>11. CancelInv'
    BY <1>2, <2>10 DEF RunsInv, OnceInv, CancelInv, Steady, Typed, TypedOutside
  <2> QED BY <1>1, <1>3, <2>8, <2>9, <2>10, <2>11 DEF RunsInv, OnceInv, RunInv
<1>6. ASSUME NEW j \in Jobs, StarterSort(j) PROVE RunsInv' /\ \A i \in 1 .. n : Steady(i)
  <2>1. j \in 1 .. n /\ Fresh(j) /\ run[j] = "no" /\ UNCHANGED run /\ starter.at = "sort"
    BY <1>6 DEF StarterSort, runner, RunsInv, OnceInv, StarterInv, Typed, TypedStarter
  <2>2. CASE Over(j)
    <3>1. /\ SetStatus(j, "pending")
          /\ starter'.list = starter.list \ {j} /\ starter'.keep = starter.keep /\ starter'.at = "sort"
        BY <1>6, <2>1, <2>2 DEF StarterSort, RunsInv, Typed, TypedStarter
    <3>2. /\ job'[j].status = "pending" /\ job'[j].chat = job[j].chat
          /\ \A i \in 1 .. n : i # j => job'[i] = job[i]
      <4>1. TypedJobs /\ "pending" \in Open \cup Final
        BY DEF RunsInv, Typed, Open
      <4>2. job'[j] = [job[j] EXCEPT !.status = "pending"] /\ \A i \in 1 .. n : i # j => job'[i] = job[i]
        BY <2>1, <3>1, <4>1, StatusSet
      <4> QED BY <1>1, <2>1, <4>2 DEF Job
    <3>3. RunOf(j)'
        BY <1>2, <2>1, <3>2 DEF RunsInv, OnceInv, RunInv, RunOf, Fresh, Status, NotYet
    <3>4. \A i \in 1 .. n : i # j => RunOf(i)'
        BY <1>2, <2>1, <3>2 DEF RunsInv, OnceInv, RunInv, RunOf, Fresh, Status
    <3>5. j \in starter.list /\ j \notin starter.keep
        BY <1>6 DEF StarterSort, RunsInv, OnceInv, StarterInv
    <3>6. StarterInv'
        BY <1>2, <2>1, <3>1, <3>2, <3>5 DEF RunsInv, OnceInv, StarterInv, Typed, TypedStarter, Fresh, Status
    <3>7. \A i \in 1 .. n : Steady(i)
        BY <1>2, <2>1, <3>2 DEF Steady, Fresh, Status
    <3>8. CancelInv'
        BY <1>2, <3>7 DEF RunsInv, OnceInv, CancelInv, Steady, Typed, TypedOutside
    <3> QED BY <1>1, <1>3, <3>3, <3>4, <3>6, <3>7, <3>8 DEF RunsInv, OnceInv, RunInv
  <2>3. CASE ~Over(j)
    <3>1. /\ UNCHANGED job
          /\ starter'.list = starter.list \ {j} /\ starter'.keep = starter.keep \cup {j} /\ starter'.at = "sort"
        BY <1>6, <2>1, <2>3 DEF StarterSort, RunsInv, Typed, TypedStarter
    <3>2. \A i \in 1 .. n : RunOf(i)' /\ Steady(i)
        BY <1>2, <2>1, <3>1 DEF RunsInv, OnceInv, RunInv, RunOf, Fresh, Status, Steady
    <3>3. StarterInv'
        BY <1>2, <2>1, <3>1 DEF RunsInv, OnceInv, StarterInv, Fresh, Status
    <3>4. CancelInv'
        BY <1>2, <3>1 DEF RunsInv, OnceInv, CancelInv
    <3> QED BY <1>1, <1>3, <3>2, <3>3, <3>4 DEF RunsInv, OnceInv, RunInv
  <2> QED BY <2>2, <2>3
<1>7. CASE StarterGo
  <2>1. starter' = NoStarter /\ UNCHANGED job
    BY <1>7 DEF StarterGo
  <2>2. \A j \in 1 .. n : run'[j] = run[j] \/ (run'[j] = "check" /\ Fresh(j))
    BY <1>1, <1>7 DEF StarterGo, RunsInv, OnceInv, StarterInv
  <2>3. \A j \in 1 .. n : RunOf(j)' /\ Steady(j)
    BY <1>2, <2>1, <2>2 DEF RunsInv, OnceInv, RunInv, RunOf, Fresh, Status, NotYet, Steady
  <2>4. StarterInv'
    BY <2>1 DEF StarterInv, NoStarter
  <2>5. CancelInv'
    BY <1>2, <2>1 DEF RunsInv, OnceInv, CancelInv
  <2> QED BY <1>1, <1>3, <2>3, <2>4, <2>5 DEF RunsInv, OnceInv, RunInv
<1> QED BY <1>4, <1>5, <1>6, <1>7 DEF Starter

\* A cancel ends a job that waits, or a chat's that runs.
LEMMA OnceCancel ==
    ASSUME RunsInv, Typed', Cancel
    PROVE  RunsInv' /\ \A i \in 1 .. n : Steady(i)
<1>1. /\ n' = n /\ UNCHANGED <<starter, runner, run, ran>> /\ cancel.job \in 1 .. n /\ cancel.at # "idle"
      /\ TypedJobs
    BY CancelTyped DEF RunsInv, RowsStay, runner, Typed, TypedOutside,
       Cancel, CancelPending, CancelAgain, CancelRunning, CancelRecord
<1>2. Unmade'
    BY <1>1 DEF RunsInv, Unmade
<1>3. CASE UNCHANGED job
  <2>1. RunInv' /\ StarterInv' /\ \A i \in 1 .. n : Steady(i)
    BY <1>1, <1>3 DEF RunsInv, OnceInv, RunInv, RunOf, StarterInv, Fresh, Status, Steady
  <2>2. CancelInv'
    <3>1. CASE cancel' = NoCancel
        BY <3>1 DEF CancelInv, NoCancel
    <3>2. CASE cancel'.at = "record" /\ cancel'.job = cancel.job /\ cancel.at = "running"
        BY <1>3, <3>2 DEF RunsInv, OnceInv, CancelInv
    <3>3. CASE cancel'.at = "running" /\ cancel'.job = cancel.job /\ Stoppable(cancel.job)
        BY <1>3, <3>3 DEF Stoppable, CancelInv
    <3>4. CASE cancel'.at = "again"
        BY <3>4 DEF CancelInv
    <3>5. \/ cancel' = NoCancel \/ cancel'.at = "again"
          \/ cancel'.at = "record" /\ cancel'.job = cancel.job /\ cancel.at = "running"
          \/ cancel'.at = "running" /\ cancel'.job = cancel.job /\ Stoppable(cancel.job)
        BY DEF RunsInv, Typed, TypedOutside, Cancel, CancelPending, CancelAgain, CancelRunning, CancelRecord
    <3> QED BY <3>1, <3>2, <3>3, <3>4, <3>5
  <2> QED BY <1>2, <2>1, <2>2 DEF RunsInv, OnceInv
<1>4. CASE /\ SetStatus(cancel.job, "cancelled") /\ cancel' = NoCancel
           /\ Status(cancel.job) = "pending" \/ (Status(cancel.job) = "running" /\ cancel.at = "record")
  <2> DEFINE j == cancel.job
  <2>1. job[j] \in Job /\ "cancelled" \in Open \cup Final
    BY <1>1, TableShape DEF Final
  <2>2. job'[j] = [job[j] EXCEPT !.status = "cancelled"] /\ \A i \in 1 .. n : i # j => job'[i] = job[i]
    BY <1>1, <1>4, <2>1, StatusSet
  <2>3. job'[j].status = "cancelled" /\ job'[j].chat = job[j].chat
    BY <2>1, <2>2 DEF Job
  <2>4. RunOf(j) /\ (cancel.at = "record" => job[j].chat)
    BY <1>1 DEF RunsInv, OnceInv, RunInv, CancelInv
  <2>5. ~Fresh(j) /\ run[j] # "ran"
    BY <1>4, <2>4 DEF Fresh, RunOf, Status
  <2>6. \A i \in 1 .. n : i = j => RunOf(i)'
    BY <1>1, <2>3, <2>4, <2>5 DEF RunOf, Fresh, Status, Final
  <2>7. \A i \in 1 .. n : i # j => RunOf(i)'
    BY <1>1, <2>2 DEF RunsInv, OnceInv, RunInv, RunOf, Fresh, Status
  <2>8. \A i \in starter.list \cup starter.keep : i \in 1 .. n /\ i # j /\ Fresh(i)'
    BY <1>1, <2>2, <2>5 DEF RunsInv, OnceInv, StarterInv, Typed, TypedStarter, Fresh, Status
  <2>9. StarterInv'
    BY <1>1, <2>8 DEF RunsInv, OnceInv, StarterInv
  <2>10. CancelInv'
    BY <1>4 DEF CancelInv, NoCancel
  <2>11. \A i \in 1 .. n : Steady(i)
    BY <1>1, <2>2, <2>3 DEF Steady, Status
  <2>12. RunInv'
    BY <1>1, <2>6, <2>7 DEF RunInv
  <2> QED BY <1>2, <2>9, <2>10, <2>11, <2>12 DEF RunsInv, OnceInv
<1> QED
    BY <1>3, <1>4 DEF Cancel, CancelPending, CancelAgain, CancelRunning, CancelRecord, StillPending, queue

\* After a restart no job runs.
LEMMA OnceRestart ==
    ASSUME RunsInv, Typed', Restart
    PROVE  RunsInv' /\ \A i \in 1 .. n : Steady(i)
<1>1. /\ n' = n /\ starter' = NoStarter /\ cancel' = NoCancel /\ UNCHANGED ran
      /\ \A j \in Jobs : run'[j] = "no"
      /\ \A j \in 1 .. n : /\ Status(j) = "running" => job'[j].status = "failed"
                           /\ Status(j) # "running" => job'[j] = job[j]
                           /\ job'[j].chat = job[j].chat
      /\ 1 .. n \subseteq Jobs
    BY RestartTyped, TableShape DEF RunsInv, RowsStay, Typed
<1>2. RunInv' /\ \A i \in 1 .. n : Steady(i)
    BY <1>1 DEF RunsInv, OnceInv, RunInv, RunOf, Fresh, Status, NotYet, Steady
<1>3. StarterInv' /\ CancelInv'
    BY <1>1 DEF StarterInv, CancelInv, NoStarter, NoCancel
<1>4. Unmade'
    BY <1>1 DEF RunsInv, Unmade
<1> QED
    BY <1>2, <1>3, <1>4 DEF RunsInv, OnceInv

\* Together: every step keeps it, and is steady for every job.
LEMMA OnceStep == RunsInv /\ [Next]_vars => RunsInv' /\ \A i \in 1 .. n : Steady(i)
<1> SUFFICES ASSUME RunsInv, [Next]_vars PROVE RunsInv' /\ \A i \in 1 .. n : Steady(i)
    OBVIOUS
<1>1. Typed /\ Typed'
    BY StepTyped DEF RunsInv
<1>2. CASE UNCHANGED vars
  <2>1. UNCHANGED <<job, starter, run, ran, cancel>> /\ n' = n
    BY <1>2 DEF vars, queue, runner, outside, n
  <2> QED BY <1>1, <2>1, OnceStill
<1>3. ASSUME NEW o \in Origins, RunNow(o) PROVE RunsInv' /\ \A i \in 1 .. n : Steady(i)
    BY <1>1, <1>3, RunNowTyped, OnceAdded
<1>4. CASE TickAdd
    BY <1>1, <1>4, TickAddTyped, OnceAdded
<1>5. ASSUME NEW d \in 1 .. Deliveries, Deliver(d) \/ Hook(d)
      PROVE  RunsInv' /\ \A i \in 1 .. n : Steady(i)
  <2>1. UNCHANGED <<starter, run, ran, cancel>>
    BY <1>5 DEF Deliver, Hook, LookKey, LookFold, Fold, CreateHook, LookAgain, ClearDedupe, runner
  <2>2. CASE Deliver(d) \/ LookKey(d) \/ LookFold(d) \/ LookAgain(d)
    <3>1. UNCHANGED job /\ n' = n
        BY <2>2 DEF Deliver, LookKey, LookFold, LookAgain, queue, n
    <3> QED BY <1>1, <2>1, <3>1, OnceStill
  <2>3. CASE Fold(d)
    <3>1. n' = n
        BY <1>1, <2>3, FoldTyped DEF RowsStay
    <3>2. \A j \in 1 .. n : job'[j].status = job[j].status /\ job'[j].chat = job[j].chat
      <4>1. job \in [1 .. n -> Job]
        BY <1>1, TableShape DEF Typed
      <4>2. UNCHANGED job \/ job' = [job EXCEPT ![hook[d].job].payload = d]
        BY <2>3 DEF Fold
      <4>3. ASSUME NEW j \in 1 .. n PROVE job'[j].status = job[j].status /\ job'[j].chat = job[j].chat
        <5>1. CASE j = hook[d].job
            BY <4>1, <4>2, <5>1 DEF Job
        <5>2. CASE j # hook[d].job
            BY <4>1, <4>2, <5>2
        <5> QED BY <5>1, <5>2
      <4> QED BY <4>3
    <3> QED BY <1>1, <2>1, <3>1, <3>2, OnceStill
  <2>4. CASE ClearDedupe(d)
    <3>1. n' = n /\ \A j \in 1 .. n : job'[j].status = job[j].status /\ job'[j].chat = job[j].chat
        BY <1>1, <2>4, ClearTyped
    <3> QED BY <1>1, <2>1, <3>1, OnceStill
  <2>5. CASE CreateHook(d)
    <3>1. CASE RowAddedBy(hook[d].origin, hook[d].key)
        BY <1>1, <3>1, OnceAdded
    <3>2. CASE UNCHANGED job
      <4>1. n' = n
        BY <3>2 DEF n
      <4> QED BY <1>1, <2>1, <3>2, <4>1, OnceStill
    <3> QED BY <1>1, <2>5, <3>1, <3>2, CreateTyped
  <2> QED BY <1>5, <2>2, <2>3, <2>4, <2>5 DEF Hook
<1>6. CASE Starter
    BY <1>1, <1>6, OnceStarter
<1>7. ASSUME NEW j \in Jobs, Runs(j) PROVE RunsInv' /\ \A i \in 1 .. n : Steady(i)
    BY <1>1, <1>7, OnceRuns
<1>8. CASE Bystander
  <2>1. UNCHANGED <<job, starter, run, ran, hook>> /\ n' = n
    BY <1>1, <1>8, BystanderTyped DEF runner, RowsStay
  <2>2. CASE UNCHANGED cancel
    BY <1>1, <2>1, <2>2, OnceStill
  <2>3. CASE \E j \in Jobs : CancelLook(j)
    <3>1. RunInv' /\ StarterInv' /\ Unmade' /\ \A i \in 1 .. n : Steady(i)
        BY <2>1 DEF RunsInv, OnceInv, RunInv, RunOf, StarterInv, Fresh, Status, Unmade, Steady
    <3>2. CancelInv'
        BY <2>1, <2>3 DEF CancelLook, CancelInv, Stoppable
    <3> QED BY <1>1, <3>1, <3>2 DEF RunsInv, OnceInv
  <2> QED BY <1>8, <2>2, <2>3 DEF Bystander, TickLook, Comes, Ages, HourPasses, outside
<1>9. CASE Cancel
    BY <1>1, <1>9, OnceCancel
<1>10. CASE Restart
    BY <1>1, <1>10, OnceRestart
<1> QED
    BY <1>2, <1>3, <1>4, <1>5, <1>6, <1>7, <1>8, <1>9, <1>10 DEF Next, Bystander

\* So it holds in every reachable state.
LEMMA RunsAlways == Spec => []RunsInv
<1>1. Init => RunsInv
    BY InitTyped, InitOnce DEF RunsInv
<1>2. RunsInv /\ [Next]_vars => RunsInv'
    BY OnceStep
<1> QED BY <1>1, <1>2, PTL DEF Spec

\* A job's script or agent is started once, also when its chat was busy, when
\* the claim was taken back and when office restarted (execute, Claim,
\* FailRunning).
THEOREM OnceHolds == Spec => []RunsOnce
<1>1. RunsInv => RunsOnce
  <2> SUFFICES ASSUME RunsInv, NEW j \in Jobs PROVE ran[j] <= 1
    BY DEF RunsOnce
  <2>1. n \in Nat
    BY TableShape DEF RunsInv, Typed
  <2>2. CASE j \in 1 .. n
    BY <2>2 DEF RunsInv, OnceInv, RunInv, RunOf
  <2>3. CASE j \notin 1 .. n
    BY <2>1, <2>3, BoundAssumption DEF RunsInv, Unmade, Jobs
  <2> QED BY <2>2, <2>3
<1> QED BY <1>1, RunsAlways, PTL

\* What a person cancelled stays so and nothing of it is started any more,
\* whoever writes its row (cancelJob, settle, beginJob, endJob).
THEOREM CancelHolds == Spec => CancelStands
<1> DEFINE Stands == \A j \in 1 .. n :
    Status(j) = "cancelled" => Status(j)' = "cancelled" /\ ran'[j] = ran[j]
<1>1. RunsInv /\ [Next]_vars => Stands
    BY OnceStep DEF Steady, Status
<1>2. RunsInv /\ [Next]_vars => [Stands]_vars
    BY <1>1
<1> QED BY <1>2, RunsAlways, PTL DEF Spec, CancelStands

-----------------------------------------------------------------------------
(* A run has the payload that was last folded into it. *)

\* A step that changes neither what runs nor what it runs with.
LEMMA FoldedStill ==
    ASSUME Typed, FoldedRuns, n' = n, UNCHANGED copy,
           \A j \in 1 .. n : job'[j].payload = job[j].payload
                             /\ (job'[j].status = "running" => Status(j) = "running")
    PROVE  FoldedRuns'
BY DEF FoldedRuns, Status

\* A run never changes the payload of a job while it runs.
LEMMA FoldedJobRuns ==
    ASSUME RunsInv, FoldedRuns, NEW j \in Jobs, Runs(j)
    PROVE  FoldedRuns'
<1>1. /\ j \in 1 .. n /\ n' = n /\ job[j] \in Job /\ 1 .. n \subseteq Jobs /\ DOMAIN job = 1 .. n
      /\ \A i \in 1 .. n : i # j => job'[i] = job[i] /\ copy'[i] = copy[i]
    BY RunsTyped, RunsOthers, TableShape DEF RunsInv, RowsStay, Typed
<1>2. RunOf(j) /\ copy \in [Jobs -> 0 .. Deliveries]
    BY <1>1 DEF RunsInv, OnceInv, RunInv, Typed, TypedRuns
<1> SUFFICES job'[j].status = "running" => copy'[j] = job'[j].payload
    BY <1>1 DEF FoldedRuns, Status
<1>3. Status(j) = "running" => copy[j] = job[j].payload
    BY <1>1 DEF FoldedRuns
<1>4. CASE Check(j) \/ Limit(j) \/ Script(j) \/ Settle(j) \/ Record(j)
    BY <1>3, <1>4 DEF Check, Limit, Script, Settle, Record, Status
<1>5. CASE Leave(j)
  <2>1. UNCHANGED job /\ Status(j) # "running"
    BY <1>2, <1>5 DEF Leave, queue, RunOf
  <2> QED BY <2>1 DEF Status
<1>6. CASE Skip(j) \/ Timeout(j) \/ ScriptEnd(j) \/ Finish(j)
  <2>1. PICK s \in Final : SetStatus(j, s)
    BY <1>6 DEF Skip, Timeout, ScriptEnd, Finish, Final
  <2>2. job'[j] = [job[j] EXCEPT !.status = s]
    BY <1>1, <2>1 DEF SetStatus
  <2> QED BY <1>1, <2>2 DEF Job, Final
<1>7. CASE Answer(j)
  <2>1. UNCHANGED <<job, copy>> \/ (\E s \in Final : SetStatus(j, s))
    BY <1>7 DEF Answer, Final
  <2>2. CASE UNCHANGED <<job, copy>>
    BY <1>3, <2>2 DEF Status
  <2>3. CASE \E s \in Final : SetStatus(j, s)
    <3>1. PICK s \in Final : SetStatus(j, s)
        BY <2>3
    <3>2. job'[j] = [job[j] EXCEPT !.status = s]
        BY <1>1, <3>1 DEF SetStatus
    <3> QED BY <1>1, <3>2 DEF Job, Final
  <2> QED BY <2>1, <2>2, <2>3
<1>8. CASE Send(j)
  <2>1. UNCHANGED copy /\ (UNCHANGED job \/ job' = [job EXCEPT ![j].chat = TRUE])
    BY <1>8 DEF Send
  <2> QED BY <1>1, <1>3, <2>1 DEF Job, Status
<1>9. CASE SettleBusy(j)
    BY <1>1, <1>2, <1>9 DEF SettleBusy
<1>10. CASE Put(j)
    BY <1>1, <1>10 DEF Put, Job
<1> QED
    BY <1>4, <1>5, <1>6, <1>7, <1>8, <1>9, <1>10 DEF Runs

\* A step keeps what runs have read: a fold changes only a job that waits.
LEMMA FoldedStep == RunsInv /\ FoldedRuns /\ [Next]_vars => FoldedRuns'
<1> SUFFICES ASSUME RunsInv, FoldedRuns, [Next]_vars PROVE FoldedRuns'
    OBVIOUS
<1>1. Typed
    BY DEF RunsInv
<1>2. CASE UNCHANGED vars
  <2>1. UNCHANGED <<job, copy>> /\ n' = n
    BY <1>2 DEF vars, queue, runner, n
  <2> QED BY <1>1, <2>1, FoldedStill DEF Status
<1>3. ASSUME NEW o, NEW key, RowAddedBy(o, key) PROVE FoldedRuns'
  <2>1. n \in Nat /\ n' = n + 1
    BY <1>1, <1>3, TableShape DEF Typed, RowAddedBy
  <2> SUFFICES ASSUME NEW j \in 1 .. n', job'[j].status = "running" PROVE copy'[j] = job'[j].payload
    BY DEF FoldedRuns, Status
  <2>2. j \in 1 .. n
    BY <1>3, <2>1 DEF RowAddedBy
  <2> QED BY <1>3, <2>2 DEF RowAddedBy, FoldedRuns, Status, runner
<1>4. CASE (\E o \in Origins : RunNow(o)) \/ TickAdd
    BY <1>1, <1>3, <1>4, RunNowTyped, TickAddTyped
<1>5. ASSUME NEW d \in 1 .. Deliveries, Deliver(d) \/ Hook(d) PROVE FoldedRuns'
  <2>1. UNCHANGED copy
    BY <1>5 DEF Deliver, Hook, LookKey, LookFold, Fold, CreateHook, LookAgain, ClearDedupe, runner
  <2>2. CASE UNCHANGED job
    <3>1. n' = n
        BY <2>2 DEF n
    <3> QED BY <1>1, <2>1, <2>2, <3>1, FoldedStill DEF Status
  <2>3. CASE Fold(d) /\ ~UNCHANGED job
    <3>1. n' = n /\ job \in [1 .. n -> Job]
        BY <1>1, <2>3, FoldTyped, TableShape DEF RowsStay, Typed
    <3>2. job' = [job EXCEPT ![hook[d].job].payload = d] /\ Status(hook[d].job) = "pending"
        BY <2>3 DEF Fold, Folds
    <3>3. ASSUME NEW j \in 1 .. n, job'[j].status = "running" PROVE copy'[j] = job'[j].payload
        <4>1. CASE j = hook[d].job
            BY <3>1, <3>2, <3>3, <4>1 DEF Job, Status
        <4>2. CASE j # hook[d].job
            BY <2>1, <3>1, <3>2, <3>3, <4>2 DEF FoldedRuns, Status
        <4> QED BY <4>1, <4>2
    <3> QED BY <3>1, <3>3 DEF FoldedRuns, Status
  <2>4. CASE ClearDedupe(d)
    <3>1. n' = n /\ \A j \in 1 .. n : job'[j].status = job[j].status /\ job'[j].payload = job[j].payload
        BY <1>1, <2>4, ClearTyped
    <3> QED BY <1>1, <2>1, <3>1, FoldedStill DEF Status
  <2>5. CASE CreateHook(d)
    BY <1>1, <1>3, <2>2, <2>5, CreateTyped
  <2> QED BY <1>5, <2>2, <2>3, <2>4, <2>5 DEF Hook, Deliver, LookKey, LookFold, LookAgain, queue
<1>6. CASE Starter
  <2>1. n' = n /\ n \in Nat /\ 1 .. n \subseteq Jobs /\ \A j \in 1 .. n : job[j] \in Job
    BY <1>1, <1>6, StarterTyped, TableShape DEF Typed, RowsStay
  <2>2. CASE StarterReserve \/ StarterGo
    <3>1. UNCHANGED <<job, copy>>
        BY <2>2 DEF StarterReserve, StarterGo, queue
    <3> QED BY <1>1, <2>1, <3>1, FoldedStill DEF Status
  <2>3. CASE StarterClaim
    <3>1. PICK list :
          /\ job' = [j \in 1 .. n |-> IF j \in list THEN [job[j] EXCEPT !.status = "running"] ELSE job[j]]
          /\ copy' = [j \in Jobs |-> IF j \in list THEN job[j].payload ELSE copy[j]]
        BY <2>3 DEF StarterClaim
    <3>2. \A j \in 1 .. n : j \in list => job'[j].payload = job[j].payload /\ copy'[j] = job[j].payload
        BY <2>1, <3>1 DEF Job
    <3>3. \A j \in 1 .. n : j \notin list => job'[j] = job[j] /\ copy'[j] = copy[j]
        BY <2>1, <3>1
    <3> QED BY <2>1, <3>2, <3>3 DEF FoldedRuns, Status
  <2>4. ASSUME NEW j \in Jobs, StarterSort(j) PROVE FoldedRuns'
    <3>1. UNCHANGED copy
        BY <2>4 DEF StarterSort, runner
    <3>2. CASE UNCHANGED job
        BY <1>1, <2>1, <3>1, <3>2, FoldedStill DEF Status
    <3>3. CASE SetStatus(j, "pending")
      <4>1. j \in 1 .. n /\ TypedJobs /\ "pending" \in Open \cup Final
        BY <1>1, <2>4 DEF StarterSort, Typed, TypedStarter, Open
      <4>2. job'[j] = [job[j] EXCEPT !.status = "pending"] /\ \A i \in 1 .. n : i # j => job'[i] = job[i]
        BY <3>3, <4>1, StatusSet
      <4>3. \A i \in 1 .. n : job'[i].payload = job[i].payload
                              /\ (job'[i].status = "running" => Status(i) = "running")
        BY <2>1, <4>2 DEF Job, Status
      <4> QED BY <1>1, <2>1, <3>1, <4>3, FoldedStill
    <3> QED BY <2>4, <3>2, <3>3 DEF StarterSort
  <2> QED BY <1>6, <2>2, <2>3, <2>4 DEF Starter
<1>7. ASSUME NEW j \in Jobs, Runs(j) PROVE FoldedRuns'
    BY <1>7, FoldedJobRuns
<1>8. CASE Bystander
  <2>1. UNCHANGED <<job, copy>> /\ n' = n
    BY <1>1, <1>8, BystanderTyped DEF runner, RowsStay
  <2> QED BY <1>1, <2>1, FoldedStill DEF Status
<1>9. CASE Cancel
  <2>1. UNCHANGED copy /\ n' = n /\ cancel.job \in 1 .. n /\ TypedJobs /\ "cancelled" \in Open \cup Final
    BY <1>1, <1>9, CancelTyped DEF runner, RowsStay, Typed, TypedOutside, Final,
       Cancel, CancelPending, CancelAgain, CancelRunning, CancelRecord
  <2>2. CASE UNCHANGED job
    BY <1>1, <2>1, <2>2, FoldedStill DEF Status
  <2>3. CASE SetStatus(cancel.job, "cancelled")
    <3>1. /\ job'[cancel.job] = [job[cancel.job] EXCEPT !.status = "cancelled"] /\ job[cancel.job] \in Job
          /\ \A i \in 1 .. n : i # cancel.job => job'[i] = job[i]
        BY <2>1, <2>3, StatusSet, TableShape
    <3>2. \A i \in 1 .. n : job'[i].payload = job[i].payload
                            /\ (job'[i].status = "running" => Status(i) = "running")
        BY <3>1 DEF Job, Status
    <3> QED BY <1>1, <2>1, <3>2, FoldedStill
  <2> QED BY <1>9, <2>2, <2>3 DEF Cancel, CancelPending, CancelAgain, CancelRunning, CancelRecord, queue
<1>10. CASE Restart
    BY <1>1, <1>10, RestartTyped DEF FoldedRuns, Status, RowsStay
<1> QED
    BY <1>2, <1>4, <1>5, <1>6, <1>7, <1>8, <1>9, <1>10 DEF Next, Bystander

\* FoldedRuns: what a delivery put into a run that waits is what the run was
\* claimed with: the claim reads the payload in the same statement that makes
\* the job run, and Debounce writes only to one that still waits.
THEOREM FoldedHolds == Spec => []FoldedRuns
<1>1. Init => FoldedRuns
  <2> SUFFICES ASSUME Init PROVE n = 0
    BY DEF FoldedRuns
  <2> QED BY DEF Init, n
<1> QED
    BY <1>1, FoldedStep, RunsAlways, PTL DEF Spec

-----------------------------------------------------------------------------
(* One job of each key, within the dedupe window. *)

\* A job of o was made with that key; one of those is older than the window.
Was(o, key) == \E i \in 1 .. n : job[i].origin = o /\ sent[i] = key
Passed(o, key) == \E i \in aged : job[i].origin = o /\ sent[i] = key

\* A row lost its key only when the window of one like it had passed; so did
\* every request that is about to clear them.
TableKeys == \A j \in 1 .. n :
    job[j].key = sent[j] \/ (job[j].key = NoKey /\ Passed(job[j].origin, sent[j]))
HookKeys == \A d \in 1 .. Deliveries :
    /\ hook[d].at = "again" => Was(hook[d].origin, hook[d].key)
    /\ hook[d].at = "clear" => Passed(hook[d].origin, hook[d].key)
KeysInv == TableKeys /\ HookKeys /\ OneEach

\* What was so of a key stays so: no row goes, none gets younger.
More ==
    /\ 1 .. n \subseteq 1 .. n' /\ aged \subseteq aged'
    /\ \A i \in 1 .. n : job'[i].origin = job[i].origin /\ sent'[i] = sent[i]

\* A key that was there stays one that was there.
LEMMA KeysGrow ==
    ASSUME Typed, More, NEW o, NEW key
    PROVE  (Was(o, key) => Was(o, key)') /\ (Passed(o, key) => Passed(o, key)')
<1>1. Was(o, key) => Was(o, key)'
    BY DEF More, Was
<1>2. Passed(o, key) => Passed(o, key)'
    BY DEF More, Passed, Typed, TypedJobs
<1> QED BY <1>1, <1>2

\* A step that keeps the rows keeps what is known of their keys.
LEMMA KeysStay ==
    ASSUME Typed, TableKeys, OneEach, RowsStay, sent' = sent, aged \subseteq aged'
    PROVE  More /\ TableKeys' /\ OneEach'
<1>1. More
    BY DEF More, RowsStay
<1>2. TableKeys'
  <2> SUFFICES ASSUME NEW j \in 1 .. n'
      PROVE job'[j].key = sent'[j] \/ (job'[j].key = NoKey /\ Passed(job[j].origin, sent[j])')
    BY DEF TableKeys
  <2>1. j \in 1 .. n /\ job'[j].key = job[j].key /\ job'[j].origin = job[j].origin /\ sent'[j] = sent[j]
    BY DEF RowsStay
  <2>2. Passed(job[j].origin, sent[j]) => Passed(job[j].origin, sent[j])'
    BY <1>1, <2>1 DEF More, Passed, Typed, TypedJobs
  <2> QED BY <2>1, <2>2 DEF TableKeys
<1>3. OneEach'
  <2>1. n' = n /\ \A i \in 1 .. n : job'[i].origin = job[i].origin /\ sent'[i] = sent[i]
    BY DEF RowsStay
  <2>2. aged \subseteq 1 .. n
    BY DEF Typed, TypedJobs
  <2> QED BY <2>1, <2>2 DEF OneEach
<1> QED BY <1>1, <1>2, <1>3

\* A row that is added: its key is none, or no row had it.
LEMMA KeysAdded ==
    ASSUME Typed, TableKeys, OneEach, NEW o \in Origins, NEW key \in Keys \cup {NoKey}, RowAddedBy(o, key),
           key = NoKey \/ \A i \in 1 .. n : ~(job[i].origin = o /\ job[i].key = key)
    PROVE  More /\ TableKeys' /\ OneEach'
<1>1. /\ n \in Nat /\ n' = n + 1 /\ aged' = aged /\ aged \subseteq 1 .. n
      /\ \A i \in 1 .. n : job'[i] = job[i] /\ sent'[i] = sent[i]
    BY TableShape DEF Typed, TypedJobs, RowAddedBy
<1>2. More
    BY <1>1 DEF More
<1>3. ASSUME NEW j \in 1 .. n', j = n + 1 PROVE job'[j].origin = o /\ job'[j].key = key /\ sent'[j] = key
    BY <1>3 DEF RowAddedBy
<1>4. TableKeys'
  <2> SUFFICES ASSUME NEW j \in 1 .. n'
      PROVE job'[j].key = sent'[j] \/ (job'[j].key = NoKey /\ Passed(job[j].origin, sent[j])')
    BY DEF TableKeys
  <2>1. CASE j = n + 1
    BY <1>3, <2>1
  <2>2. CASE j # n + 1
    BY <1>1, <2>2 DEF TableKeys, Passed
  <2> QED BY <2>1, <2>2
<1>5. ASSUME NEW i \in 1 .. n, job[i].origin = o, sent[i] = key, key # NoKey
      PROVE  \E k \in aged : job[k].origin = o /\ sent[k] = key
    BY <1>5 DEF TableKeys, Passed
<1>6. OneEach'
  <2> SUFFICES ASSUME NEW i \in 1 .. n', NEW j \in 1 .. n', i # j, job'[i].origin = job'[j].origin,
                      sent'[i] = sent'[j], sent'[i] # NoKey
               PROVE  \E k \in aged' : job'[k].origin = job'[i].origin /\ sent'[k] = sent'[i]
    BY DEF OneEach
  <2>1. CASE i \in 1 .. n /\ j \in 1 .. n
    BY <1>1, <2>1 DEF OneEach
  <2>2. CASE i = n + 1
    <3>1. j \in 1 .. n /\ job'[i].origin = o /\ sent'[i] = key
        BY <1>1, <1>3, <2>2
    <3> QED BY <1>1, <1>5, <3>1
  <2>3. CASE j = n + 1
    <3>1. i \in 1 .. n /\ job'[j].origin = o /\ sent'[j] = key
        BY <1>1, <1>3, <2>3
    <3> QED BY <1>1, <1>5, <3>1
  <2> QED BY <1>1, <2>1, <2>2, <2>3
<1> QED BY <1>2, <1>4, <1>6

\* The requests that a step leaves as they are.
LEMMA HooksStay ==
    ASSUME Typed, HookKeys, More, NEW S \in SUBSET (1 .. Deliveries),
           \A d \in S : hook'[d] = hook[d],
           \A d \in (1 .. Deliveries) \ S :
              /\ hook'[d].at = "again" => Was(hook[d].origin, hook[d].key)'
              /\ hook'[d].at = "clear" => Passed(hook[d].origin, hook[d].key)'
    PROVE  HookKeys'
<1>1. \A d \in S : /\ hook'[d].at = "again" => Was(hook[d].origin, hook[d].key)'
                   /\ hook'[d].at = "clear" => Passed(hook[d].origin, hook[d].key)'
  <2> TAKE d \in S
  <2>1. hook'[d] = hook[d] /\ d \in 1 .. Deliveries
    OBVIOUS
  <2>2. /\ Was(hook[d].origin, hook[d].key) => Was(hook[d].origin, hook[d].key)'
        /\ Passed(hook[d].origin, hook[d].key) => Passed(hook[d].origin, hook[d].key)'
    BY <2>1 DEF More, Was, Passed, Typed, TypedJobs
  <2> QED BY <2>1, <2>2 DEF HookKeys
<1> QED
    BY <1>1 DEF HookKeys

\* Two kinds of steps: those that keep the rows, those that add one.
LEMMA KeysKept ==
    ASSUME Typed, KeysInv, RowsStay, sent' = sent, aged \subseteq aged', UNCHANGED hook
    PROVE  KeysInv'
<1>1. More /\ TableKeys' /\ OneEach'
    BY KeysStay DEF KeysInv
<1>2. HookKeys'
    BY <1>1, HooksStay DEF KeysInv
<1> QED BY <1>1, <1>2 DEF KeysInv

\* A step of a delivery: its look, its insert, its clearing.
LEMMA KeysHook ==
    ASSUME Typed, KeysInv, NEW d \in 1 .. Deliveries, Deliver(d) \/ Hook(d)
    PROVE  KeysInv'
<1>0. /\ TableKeys /\ HookKeys /\ OneEach
      /\ hook[d].at \notin {"idle", "over"} => hook[d].origin \in Origins /\ hook[d].key \in Keys
      /\ \A j \in 1 .. n : job[j] \in Job
    BY TableShape DEF KeysInv, Typed, TypedOutside
<1>1. ASSUME More, TableKeys', OneEach',
             \A e \in 1 .. Deliveries : e # d => hook'[e] = hook[e],
             hook'[d].at = "again" => Was(hook[d].origin, hook[d].key)',
             hook'[d].at = "clear" => Passed(hook[d].origin, hook[d].key)',
             hook'[d].at \in {"again", "clear"} => hook'[d].origin = hook[d].origin /\ hook'[d].key = hook[d].key
      PROVE  KeysInv'
  <2>1. /\ hook'[d].at = "again" => Was(hook[d].origin, hook[d].key)'
        /\ hook'[d].at = "clear" => Passed(hook[d].origin, hook[d].key)'
    BY <1>1
  <2> DEFINE S == (1 .. Deliveries) \ {d}
  <2>2. /\ S \in SUBSET (1 .. Deliveries) /\ \A e \in S : hook'[e] = hook[e]
        /\ \A e \in (1 .. Deliveries) \ S :
              /\ hook'[e].at = "again" => Was(hook[e].origin, hook[e].key)'
              /\ hook'[e].at = "clear" => Passed(hook[e].origin, hook[e].key)'
    BY <1>1, <2>1
  <2> HIDE DEF S
  <2>3. HookKeys'
    BY <1>0, <1>1, <2>2, HooksStay
  <2> QED BY <1>1, <2>3 DEF KeysInv
<1>2. ASSUME RowsStay, Unmoved, hook'[d].at \notin {"again", "clear"},
             \A e \in 1 .. Deliveries : e # d => hook'[e] = hook[e]
      PROVE  KeysInv'
  <2>1. More /\ TableKeys' /\ OneEach'
    BY <1>0, <1>2, KeysStay DEF Unmoved
  <2> QED BY <1>1, <1>2, <2>1
<1>3. CASE Deliver(d)
    BY <1>2, <1>3, DeliverTyped
<1>4. CASE LookKey(d)
  <2>1. PICK l \in {"over", "fold", "create"} : GoTo(d, l)
    BY <1>4 DEF LookKey
  <2>2. hook'[d].at = l /\ \A e \in 1 .. Deliveries : e # d => hook'[e] = hook[e]
    BY <1>4, <2>1, GoTyped DEF LookKey, At, queue, n, Typed, TypedOutside
  <2> QED BY <1>2, <1>4, <2>2, LookKeyTyped
<1>5. CASE LookFold(d)
    BY <1>2, <1>5, LookFoldTyped
<1>6. CASE Fold(d)
  <2>1. PICK l \in {"over", "create"} : GoTo(d, l)
    BY <1>6 DEF Fold
  <2>2. RowsStay /\ Unmoved
    BY <1>6, FoldTyped
  <2>3. hook'[d].at = l /\ \A e \in 1 .. Deliveries : e # d => hook'[e] = hook[e]
    BY <1>6, <2>1, <2>2, GoTyped DEF Fold, At, RowsStay, Typed, TypedOutside
  <2> QED BY <1>2, <2>2, <2>3
<1>7. CASE CreateHook(d)
  <2>1. hook[d].at = "create" /\ hook[d].origin \in Origins /\ hook[d].key \in Keys
    BY <1>0, <1>7 DEF CreateHook, At
  <2>2. CASE ~Conflicts(d) /\ RowAddedBy(hook[d].origin, hook[d].key) /\ hook'[d].at = "over"
    <3>1. \A i \in 1 .. n : ~(job[i].origin = hook[d].origin /\ job[i].key = hook[d].key)
        BY <2>2 DEF Conflicts, SameKey, Of
    <3>2. More /\ TableKeys' /\ OneEach'
        BY <1>0, <2>1, <2>2, <3>1, KeysAdded
    <3> QED BY <1>1, <1>7, <2>2, <3>2, CreateTyped
  <2>3. CASE /\ Conflicts(d) /\ RowsStay /\ Unmoved /\ UNCHANGED job /\ hook'[d].at = "again"
             /\ hook'[d].origin = hook[d].origin /\ hook'[d].key = hook[d].key
    <3>1. More /\ TableKeys' /\ OneEach'
        BY <1>0, <2>3, KeysStay DEF Unmoved
    <3>2. PICK i \in 1 .. n : job[i].origin = hook[d].origin /\ job[i].key = hook[d].key
        BY <2>3 DEF Conflicts, SameKey, Of
    <3>3. sent[i] = hook[d].key
        BY <1>0, <2>1, <3>2, OriginAssumption DEF TableKeys
    <3>4. Was(hook[d].origin, hook[d].key)
        BY <3>2, <3>3 DEF Was
    <3>5. Was(hook[d].origin, hook[d].key)'
        BY <2>3, <3>1, <3>4 DEF More, Was
    <3> QED BY <1>1, <1>7, <2>3, <3>1, <3>5, CreateTyped
  <2> QED BY <1>7, <2>2, <2>3, CreateTyped
<1>8. CASE LookAgain(d)
  <2>1. PICK l \in {"over", "clear"} : GoTo(d, l) /\ (l = "clear" => ~Repeated(d))
    BY <1>8 DEF LookAgain
  <2>2. hook[d].at = "again" /\ hook[d].origin \in Origins /\ hook[d].key \in Keys
    BY <1>0, <1>8 DEF LookAgain, At
  <2>3. /\ hook'[d].at = l
        /\ l # "over" => hook'[d].origin = hook[d].origin /\ hook'[d].key = hook[d].key
        /\ \A e \in 1 .. Deliveries : e # d => hook'[e] = hook[e]
    BY <1>8, <2>1, GoTyped DEF LookAgain, At, queue, n, Typed, TypedOutside
  <2>4. RowsStay /\ Unmoved
    BY <1>8, LookKeyTyped
  <2>5. More /\ TableKeys' /\ OneEach'
    BY <1>0, <2>4, KeysStay DEF Unmoved
  <2>6. ~Repeated(d) => Passed(hook[d].origin, hook[d].key)
    <3>1. SUFFICES ASSUME ~Repeated(d) PROVE Passed(hook[d].origin, hook[d].key)
        OBVIOUS
    <3>2. PICK i \in 1 .. n : job[i].origin = hook[d].origin /\ sent[i] = hook[d].key
        BY <1>0, <2>2 DEF HookKeys, Was
    <3>3. CASE job[i].key = sent[i]
        BY <3>1, <3>2, <3>3 DEF Repeated, SameKey, Of, Passed
    <3>4. CASE Passed(job[i].origin, sent[i])
        BY <3>2, <3>4 DEF Passed
    <3> QED BY <1>0, <3>3, <3>4 DEF TableKeys
  <2>7. hook'[d].at = "clear" => Passed(hook[d].origin, hook[d].key)'
    BY <2>1, <2>3, <2>5, <2>6 DEF More, Passed, Typed, TypedJobs
  <2> QED BY <1>1, <2>1, <2>3, <2>5, <2>7
<1>9. CASE ClearDedupe(d)
  <2>1. hook[d].at = "clear" /\ hook[d].origin \in Origins /\ hook[d].key \in Keys
    BY <1>0, <1>9 DEF ClearDedupe, At
  <2>2. Passed(hook[d].origin, hook[d].key)
    BY <1>0, <2>1 DEF HookKeys
  <2>3. /\ n' = n /\ aged' = aged /\ sent' = sent /\ aged \subseteq 1 .. n
        /\ hook'[d].at = "create" /\ \A e \in 1 .. Deliveries : e # d => hook'[e] = hook[e]
        /\ \A j \in 1 .. n : /\ job'[j].origin = job[j].origin
                             /\ j \notin SameKey(d) => job'[j].key = job[j].key
                             /\ j \in SameKey(d) => job'[j].key = NoKey
    BY <1>9, ClearTyped DEF Unmoved, Typed, TypedJobs
  <2>4. More
    BY <2>3 DEF More
  <2>5. ASSUME NEW j \in 1 .. n
        PROVE  job'[j].key = sent'[j] \/ (job'[j].key = NoKey /\ Passed(job[j].origin, sent[j])')
    <3>1. Passed(job[j].origin, sent[j]) => Passed(job[j].origin, sent[j])'
        BY <2>3 DEF Passed
    <3>2. CASE j \notin SameKey(d)
        BY <1>0, <2>3, <3>1, <3>2 DEF TableKeys
    <3>3. CASE j \in SameKey(d)
        <4>1. job[j].origin = hook[d].origin /\ job[j].key = hook[d].key /\ job'[j].key = NoKey
            BY <2>3, <3>3 DEF SameKey, Of
        <4>2. sent[j] = hook[d].key
            BY <1>0, <2>1, <4>1, OriginAssumption DEF TableKeys
        <4>3. Passed(job[j].origin, sent[j])
            BY <2>2, <4>1, <4>2 DEF Passed
        <4> QED BY <3>1, <4>1, <4>3
    <3> QED BY <3>2, <3>3
  <2>6. TableKeys'
    BY <2>3, <2>5 DEF TableKeys
  <2>7. OneEach'
    BY <1>0, <2>3 DEF OneEach
  <2> QED BY <1>1, <2>3, <2>4, <2>6, <2>7
<1> QED
    BY <1>3, <1>4, <1>5, <1>6, <1>7, <1>8, <1>9 DEF Hook

\* Every step keeps what is known of the keys.
LEMMA KeysStep == Typed /\ KeysInv /\ [Next]_vars => KeysInv'
<1> SUFFICES ASSUME Typed, KeysInv, [Next]_vars PROVE KeysInv'
    OBVIOUS
<1>1. CASE UNCHANGED vars
  <2>1. UNCHANGED <<job, sent, aged, hook>> /\ n' = n
    BY <1>1 DEF vars, queue, outside, n
  <2>2. RowsStay
    BY <2>1 DEF RowsStay
  <2> QED BY <2>1, <2>2, KeysKept
<1>2. ASSUME NEW o \in Origins, RowAddedBy(o, NoKey), UNCHANGED hook PROVE KeysInv'
  <2>1. More /\ TableKeys' /\ OneEach'
    BY <1>2, KeysAdded DEF KeysInv
  <2>2. HookKeys'
    BY <1>2, <2>1, HooksStay DEF KeysInv
  <2> QED BY <2>1, <2>2 DEF KeysInv
<1>3. CASE \E o \in Origins : RunNow(o)
    BY <1>2, <1>3, RunNowTyped
<1>4. CASE TickAdd
    BY <1>2, <1>4, TickAddTyped DEF TickAdd, Typed, TypedOutside
<1>5. ASSUME NEW d \in 1 .. Deliveries, Deliver(d) \/ Hook(d) PROVE KeysInv'
    BY <1>5, KeysHook
<1>6. CASE Starter
  <2>1. UNCHANGED hook
    BY <1>6 DEF Starter, StarterReserve, StarterClaim, StarterSort, StarterGo, outside
  <2> QED BY <1>6, <2>1, StarterTyped, KeysKept DEF Unmoved
<1>7. ASSUME NEW j \in Jobs, Runs(j) PROVE KeysInv'
    BY <1>7, RunsTyped, RunsOthers, KeysKept DEF outside
<1>8. CASE Bystander
    BY <1>8, BystanderTyped, KeysKept
<1>9. CASE Cancel
    BY <1>9, CancelTyped, KeysKept DEF Unmoved
<1>10. CASE Restart
  <2>1. RowsStay /\ Unmoved /\ \A d \in 1 .. Deliveries : hook'[d].at \notin {"again", "clear"}
    BY <1>10, RestartTyped
  <2>2. More /\ TableKeys' /\ OneEach'
    BY <2>1, KeysStay DEF KeysInv, Unmoved
  <2>3. HookKeys'
    BY <2>1 DEF HookKeys
  <2> QED BY <2>2, <2>3 DEF KeysInv
<1> QED
    BY <1>1, <1>3, <1>4, <1>5, <1>6, <1>7, <1>8, <1>9, <1>10 DEF Next, Bystander

\* OneEach: of two deliveries with the same key, at once or one after the
\* other, one becomes a job (create, ClearDedupe), while none that was made
\* with it is older than the window.
THEOREM OneEachHolds == Spec => []OneEach
<1>1. Init => Typed /\ KeysInv
  <2> SUFFICES ASSUME Init PROVE KeysInv
    BY InitTyped
  <2>1. n = 0 /\ \A d \in 1 .. Deliveries : hook[d].at = "idle"
    BY DEF Init, n, NoHook, Request
  <2> QED BY <2>1 DEF KeysInv, TableKeys, HookKeys, OneEach
<1>2. Typed /\ KeysInv /\ [Next]_vars => Typed' /\ KeysInv'
    BY StepTyped, KeysStep
<1>3. KeysInv => OneEach
    BY DEF KeysInv
<1> QED BY <1>1, <1>2, <1>3, PTL DEF Spec

-----------------------------------------------------------------------------
(* An automation's runs have room. *)

RunsOf(o) == {j \in Of(o) : Started(j)}
KeptOf(o) == {j \in starter.keep : job[j].origin = o}
\* r.busy counts the runs; what StartReady read of it leaves room for what it
\* keeps, also while runs leave: they only make more.
RoomOf(o) ==
    /\ busy[o] = Cardinality(RunsOf(o)) /\ busy[o] <= Parallel[o]
    /\ starter.at # "idle" => /\ starter.left[o] >= 0 /\ busy[o] + starter.left[o] <= Parallel[o]
                              /\ Cardinality(KeptOf(o)) <= starter.left[o]
RoomInv == \A o \in Origins : RoomOf(o)

\* Jobs of the table are finitely many.
LEMMA SomeJobs ==
    ASSUME Typed, NEW S \in SUBSET (1 .. n)
    PROVE  IsFiniteSet(S) /\ Cardinality(S) \in Nat
<1>1. IsFiniteSet(1 .. n)
    BY TableShape, FS_Interval DEF Typed
<1>2. IsFiniteSet(S)
    BY <1>1, FS_Subset
<1> QED BY <1>2, FS_CardinalityType

\* A step that neither begins a run nor ends one.
LEMMA RoomStill ==
    ASSUME Typed, RoomInv, UNCHANGED <<busy, starter>>, 1 .. n \subseteq 1 .. n',
           \A i \in 1 .. n : job'[i].origin = job[i].origin /\ (Started(i)' <=> Started(i)),
           \A i \in 1 .. n' : i \notin 1 .. n => ~Started(i)'
    PROVE  RoomInv'
<1> SUFFICES ASSUME NEW o \in Origins PROVE RoomOf(o)'
    BY DEF RoomInv
<1>1. RunsOf(o)' = RunsOf(o)
    BY DEF RunsOf, Of, Started
<1>2. KeptOf(o)' = KeptOf(o)
    BY DEF KeptOf, Typed, TypedStarter
<1>3. RoomOf(o)
    BY DEF RoomInv
<1> QED BY <1>1, <1>2, <1>3 DEF RoomOf

\* A new job does not run.
LEMMA RoomAdded ==
    ASSUME Typed, RoomInv, NEW o, NEW key, RowAddedBy(o, key)
    PROVE  RoomInv'
<1>1. /\ n \in Nat /\ n' = n + 1 /\ n + 1 \in Jobs /\ UNCHANGED <<busy, starter, run>>
      /\ \A i \in 1 .. n : job'[i] = job[i]
    BY TableShape DEF Typed, RowAddedBy, runner
<1>2. \A i \in 1 .. n' : i \notin 1 .. n => ~Started(i)'
    BY <1>1 DEF Typed, TypedRuns, Started
<1> QED BY <1>1, <1>2, RoomStill DEF Started

\* One of a job: until it leaves it is one of its automation's runs.
LEMMA RoomRuns ==
    ASSUME RunsInv, RoomInv, NEW j \in Jobs, Runs(j)
    PROVE  RoomInv'
<1>1. /\ Typed /\ RowsStay /\ j \in 1 .. n /\ 1 .. n \subseteq Jobs /\ job[j].origin \in Origins
      /\ UNCHANGED starter /\ \A i \in 1 .. n : i # j => run'[i] = run[i]
    BY RunsTyped, RunsOthers, TableShape DEF RunsInv, Typed, Job
<1>2. run[j] # "no"
    BY DEF Runs, Check, Limit, Skip, Script, ScriptEnd,
       Send, Answer, SettleBusy, Put, Timeout, Settle, Finish, Record, Leave
<1>3. CASE Leave(j)
  <2> SUFFICES ASSUME NEW o \in Origins PROVE RoomOf(o)'
    BY DEF RoomInv
  <2>1. /\ busy' = [busy EXCEPT ![job[j].origin] = @ - 1] /\ run' = [run EXCEPT ![j] = "no"] /\ busy[o] \in Int
        /\ run \in [Jobs -> Stages] /\ busy \in [Origins -> Int] /\ Parallel[o] \in Nat /\ starter.left[o] \in Int
    BY <1>1, <1>3, LimitAssumption DEF Leave, Move, Typed, TypedRuns, TypedStarter
  <2>2. KeptOf(o)' = KeptOf(o)
    BY <1>1 DEF KeptOf, Typed, TypedStarter, RowsStay
  <2>3. RoomOf(o) /\ IsFiniteSet(RunsOf(o))
    BY <1>1, SomeJobs DEF RoomInv, RunsOf, Of
  <2>4. CASE o = job[j].origin
    <3>1. RunsOf(o)' = RunsOf(o) \ {j} /\ j \in RunsOf(o)
        BY <1>1, <1>2, <2>1, <2>4 DEF RunsOf, Of, Started, RowsStay
    <3>2. Cardinality(RunsOf(o)') = Cardinality(RunsOf(o)) - 1
        BY <2>3, <3>1, FS_RemoveElement
    <3>3. busy'[o] = busy[o] - 1
        BY <2>1, <2>4
    <3>4. Cardinality(KeptOf(o)) \in Nat
        BY <1>1, SomeJobs DEF KeptOf, Typed, TypedStarter
    <3>5. busy'[o] = Cardinality(RunsOf(o)') /\ busy'[o] <= Parallel[o]
        BY <2>1, <2>3, <3>2, <3>3 DEF RoomOf
    <3>6. starter.at # "idle" => /\ starter.left[o] >= 0 /\ busy'[o] + starter.left[o] <= Parallel[o]
                                 /\ Cardinality(KeptOf(o)) <= starter.left[o]
        BY <2>1, <2>3, <3>3 DEF RoomOf
    <3> QED BY <1>1, <2>2, <3>5, <3>6 DEF RoomOf
  <2>5. CASE o # job[j].origin
    <3>1. RunsOf(o)' = RunsOf(o)
        BY <1>1, <2>1, <2>5 DEF RunsOf, Of, Started, RowsStay
    <3>2. busy'[o] = busy[o]
        BY <2>1, <2>5
    <3> QED BY <1>1, <2>2, <2>3, <3>1, <3>2 DEF RoomOf
  <2> QED BY <2>4, <2>5
<1>4. CASE ~Leave(j)
  <2>1. run'[j] # "no"
    <3>1. CASE Check(j) \/ Limit(j)
        BY <1>1, <3>1 DEF Typed, TypedRuns, Move, Check, Limit, Content
    <3>2. CASE Skip(j) \/ Script(j) \/ ScriptEnd(j) \/ Send(j) \/ Answer(j)
        BY <1>1, <3>2 DEF Typed, TypedRuns, Move, Skip, Script, ScriptEnd, Send, Answer
    <3>3. CASE SettleBusy(j) \/ Put(j) \/ Timeout(j) \/ Settle(j) \/ Finish(j) \/ Record(j)
        BY <1>1, <3>3 DEF Typed, TypedRuns, Move, SettleBusy, Put, Timeout, Settle, Finish, Record
    <3> QED BY <1>4, <3>1, <3>2, <3>3 DEF Runs
  <2>2. UNCHANGED busy
    BY <1>4 DEF Runs, Check, Limit, Skip, Script, ScriptEnd,
       Send, Answer, SettleBusy, Put, Timeout, Settle, Finish, Record, Stay
  <2>3. \A i \in 1 .. n : job'[i].origin = job[i].origin /\ (Started(i)' <=> Started(i))
    BY <1>1, <1>2, <2>1 DEF RowsStay, Started
  <2> QED BY <1>1, <2>2, <2>3, RoomStill DEF RowsStay
<1> QED BY <1>3, <1>4

\* StartReady: what it reads, what it keeps, what it starts.
LEMMA RoomStarter ==
    ASSUME RunsInv, RoomInv, Starter
    PROVE  RoomInv'
<1>1. /\ Typed /\ RowsStay /\ n \in Nat /\ 1 .. n \subseteq Jobs /\ StarterInv
      /\ \A i \in 1 .. n : job[i].origin \in Origins
    BY StarterTyped, TableShape DEF RunsInv, OnceInv, Typed, Job
<1>2. ASSUME NEW o \in Origins
      PROVE  /\ busy[o] \in Int /\ starter.left[o] \in Int /\ Parallel[o] \in Nat /\ RoomOf(o)
             /\ IsFiniteSet(KeptOf(o)) /\ Cardinality(KeptOf(o)) \in Nat
             /\ IsFiniteSet(RunsOf(o)) /\ Cardinality(RunsOf(o)) \in Nat
  <2>1. KeptOf(o) \subseteq 1 .. n /\ RunsOf(o) \subseteq 1 .. n
    BY <1>1 DEF KeptOf, RunsOf, Of, Typed, TypedStarter
  <2> QED BY <1>1, <2>1, SomeJobs, LimitAssumption DEF RoomInv, Typed, TypedRuns, TypedStarter
<1>3. ASSUME UNCHANGED run, NEW o \in Origins PROVE RunsOf(o)' = RunsOf(o)
    BY <1>1, <1>3 DEF RunsOf, Of, Started, RowsStay
<1>4. CASE StarterReserve
  <2> SUFFICES ASSUME NEW o \in Origins PROVE RoomOf(o)'
    BY DEF RoomInv
  <2>1. RunsOf(o)' = RunsOf(o) /\ UNCHANGED busy
    BY <1>3, <1>4 DEF StarterReserve
  <2>2. starter'.left[o] = Parallel[o] - busy[o] /\ starter'.keep = {}
    BY <1>4 DEF StarterReserve
  <2>3. Cardinality(KeptOf(o)') = 0
    BY <2>2, FS_EmptySet DEF KeptOf
  <2>4. starter'.left[o] >= 0 /\ busy'[o] + starter'.left[o] <= Parallel[o] /\ Cardinality(KeptOf(o)') <= starter'.left[o]
    BY <1>2, <2>1, <2>2, <2>3 DEF RoomOf
  <2> QED BY <1>2, <2>1, <2>4 DEF RoomOf
<1>5. CASE StarterClaim
  <2> SUFFICES ASSUME NEW o \in Origins PROVE RoomOf(o)'
    BY DEF RoomInv
  <2>1. RunsOf(o)' = RunsOf(o) /\ UNCHANGED busy
    BY <1>3, <1>5 DEF StarterClaim
  <2>2. PICK list : starter' = [starter EXCEPT !.at = "sort", !.list = list]
    BY <1>5 DEF StarterClaim
  <2>3. starter'.left = starter.left /\ starter'.keep = starter.keep /\ starter.at # "idle"
    BY <1>1, <1>5, <2>2 DEF Typed, TypedStarter, StarterClaim
  <2>4. KeptOf(o)' = KeptOf(o)
    BY <1>1, <2>3 DEF KeptOf, RowsStay, Typed, TypedStarter
  <2> QED BY <1>2, <2>1, <2>3, <2>4 DEF RoomOf
<1>6. ASSUME NEW j \in Jobs, StarterSort(j) PROVE RoomInv'
  <2> SUFFICES ASSUME NEW o \in Origins PROVE RoomOf(o)'
    BY DEF RoomInv
  <2>1. RunsOf(o)' = RunsOf(o) /\ UNCHANGED busy
    BY <1>3, <1>6 DEF StarterSort, runner
  <2>2. j \in 1 .. n /\ j \notin starter.keep /\ starter.at = "sort"
    BY <1>1, <1>6 DEF StarterSort, Typed, TypedStarter, StarterInv
  <2>3. CASE Over(j)
    <3>1. starter' = [starter EXCEPT !.list = @ \ {j}]
        BY <1>6, <2>3 DEF StarterSort
    <3>2. starter'.left = starter.left /\ starter'.keep = starter.keep
        BY <1>1, <3>1 DEF Typed, TypedStarter
    <3>3. KeptOf(o)' = KeptOf(o)
        BY <1>1, <3>2 DEF KeptOf, RowsStay, Typed, TypedStarter
    <3> QED BY <1>2, <2>1, <2>2, <3>2, <3>3 DEF RoomOf
  <2>4. CASE ~Over(j)
    <3>1. starter' = [starter EXCEPT !.list = @ \ {j}, !.keep = @ \cup {j}]
        BY <1>6, <2>4 DEF StarterSort
    <3>2. starter'.left = starter.left /\ starter'.keep = starter.keep \cup {j}
        BY <1>1, <3>1 DEF Typed, TypedStarter
    <3>3. CASE job[j].origin # o
        <4>1. KeptOf(o)' = KeptOf(o)
            BY <1>1, <2>2, <3>2, <3>3 DEF KeptOf, RowsStay, Typed, TypedStarter
        <4> QED BY <1>2, <2>1, <2>2, <3>2, <4>1 DEF RoomOf
    <3>4. CASE job[j].origin = o
        <4>1. KeptOf(o)' = KeptOf(o) \cup {j} /\ j \notin KeptOf(o)
            BY <1>1, <2>2, <3>2, <3>4 DEF KeptOf, RowsStay, Typed, TypedStarter
        <4>2. Cardinality(KeptOf(o)') = Cardinality(KeptOf(o)) + 1
            BY <1>2, <4>1, FS_AddElement
        <4>3. ~(Cardinality(KeptOf(o)) >= starter.left[o])
            BY <2>4, <3>4 DEF Over, Taken, KeptOf
        <4>4. Cardinality(KeptOf(o)') <= starter.left[o]
            BY <1>2, <4>2, <4>3
        <4> QED BY <1>2, <2>1, <2>2, <3>2, <4>4 DEF RoomOf
    <3> QED BY <3>3, <3>4
  <2> QED BY <2>3, <2>4
<1>7. CASE StarterGo
  <2> SUFFICES ASSUME NEW o \in Origins PROVE RoomOf(o)'
    BY DEF RoomInv
  <2>1. /\ starter'.at = "idle" /\ starter.at = "sort" /\ busy'[o] = busy[o] + Cardinality(KeptOf(o))
        /\ run' = [i \in Jobs |-> IF i \in starter.keep THEN "check" ELSE run[i]]
    BY <1>7 DEF StarterGo, NoStarter, Taken, KeptOf
  <2>2. RunsOf(o)' = RunsOf(o) \cup KeptOf(o)
    BY <1>1, <2>1 DEF RunsOf, KeptOf, Of, Started, RowsStay, Typed, TypedStarter
  <2>3. RunsOf(o) \cap KeptOf(o) = {}
    BY <1>1 DEF RunsOf, KeptOf, Started, StarterInv
  <2>4. Cardinality(RunsOf(o)') = Cardinality(RunsOf(o)) + Cardinality(KeptOf(o))
    <3>1. Cardinality(RunsOf(o) \cup KeptOf(o)) =
            Cardinality(RunsOf(o)) + Cardinality(KeptOf(o)) - Cardinality(RunsOf(o) \cap KeptOf(o))
        BY <1>2, FS_Union
    <3>2. Cardinality(RunsOf(o) \cap KeptOf(o)) = 0
        BY <2>3, FS_EmptySet
    <3> QED BY <1>2, <2>2, <3>1, <3>2
  <2>5. busy'[o] = Cardinality(RunsOf(o)') /\ busy'[o] <= Parallel[o]
    BY <1>2, <2>1, <2>4 DEF RoomOf
  <2> QED BY <2>1, <2>5 DEF RoomOf
<1> QED BY <1>4, <1>5, <1>6, <1>7 DEF Starter

\* Every step keeps the room.
LEMMA RoomStep == RunsInv /\ RoomInv /\ [Next]_vars => RoomInv'
<1> SUFFICES ASSUME RunsInv, RoomInv, [Next]_vars PROVE RoomInv'
    OBVIOUS
<1>1. Typed /\ n \in Nat
    BY TableShape DEF RunsInv, Typed
<1>2. ASSUME RowsStay, UNCHANGED <<busy, run, starter>> PROVE RoomInv'
    BY <1>1, <1>2, RoomStill DEF RowsStay, Started
<1>3. CASE UNCHANGED vars
  <2>1. RowsStay /\ UNCHANGED <<busy, run, starter>>
    BY <1>3 DEF vars, queue, runner, RowsStay, n
  <2> QED BY <1>2, <2>1
<1>4. CASE (\E o \in Origins : RunNow(o)) \/ TickAdd
    BY <1>1, <1>4, RunNowTyped, TickAddTyped, RoomAdded
<1>5. ASSUME NEW d \in 1 .. Deliveries, Deliver(d) \/ Hook(d) PROVE RoomInv'
  <2>1. UNCHANGED <<busy, run, starter>>
    BY <1>5 DEF Deliver, Hook, LookKey, LookFold, Fold, CreateHook, LookAgain, ClearDedupe, runner
  <2>2. CASE ClearDedupe(d)
    <3>1. n' = n /\ \A i \in 1 .. n : job'[i].origin = job[i].origin
        BY <1>1, <2>2, ClearTyped
    <3> QED BY <1>1, <2>1, <3>1, RoomStill DEF Started
  <2>3. CASE CreateHook(d)
    BY <1>1, <1>2, <2>1, <2>3, CreateTyped, RoomAdded
  <2> QED BY <1>1, <1>2, <1>5, <2>1, <2>2, <2>3, DeliverTyped, LookKeyTyped, LookFoldTyped, FoldTyped DEF Hook
<1>6. CASE Starter
    BY <1>6, RoomStarter
<1>7. ASSUME NEW j \in Jobs, Runs(j) PROVE RoomInv'
    BY <1>7, RoomRuns
<1>8. CASE Bystander
    BY <1>1, <1>2, <1>8, BystanderTyped DEF runner
<1>9. CASE Cancel
    BY <1>1, <1>2, <1>9, CancelTyped DEF runner
<1>10. CASE Restart
  <2> SUFFICES ASSUME NEW o \in Origins PROVE RoomOf(o)'
    BY DEF RoomInv
  <2>1. busy'[o] = 0 /\ starter' = NoStarter /\ n' = n /\ 1 .. n \subseteq Jobs /\ \A i \in Jobs : run'[i] = "no"
    BY <1>1, <1>10, RestartTyped, TableShape DEF Restart, RowsStay, Typed
  <2>2. RunsOf(o)' = {}
    BY <2>1 DEF RunsOf, Of, Started
  <2>3. Cardinality(RunsOf(o)') = 0 /\ Parallel[o] \in Nat
    BY <2>2, FS_EmptySet, LimitAssumption
  <2> QED BY <2>1, <2>3 DEF RoomOf, NoStarter
<1> QED
    BY <1>3, <1>4, <1>5, <1>6, <1>7, <1>8, <1>9, <1>10 DEF Next, Bystander

\* ParallelKept: an automation never has more runs at once than
\* Automation.Parallel, whatever leaves between reading r.busy and claiming.
THEOREM ParallelHolds == Spec => []ParallelKept
<1>1. Init => RoomInv
  <2> SUFFICES ASSUME Init, NEW o \in Origins PROVE RoomOf(o)
    BY DEF RoomInv
  <2>1. n = 0 /\ busy[o] = 0 /\ starter.at = "idle" /\ Parallel[o] \in Nat
    BY LimitAssumption DEF Init, n, NoStarter
  <2>2. RunsOf(o) = {}
    BY <2>1 DEF RunsOf, Of
  <2> QED BY <2>1, <2>2, FS_EmptySet DEF RoomOf
<1>2. RoomInv => ParallelKept
    BY DEF RoomInv, RoomOf, RunsOf, ParallelKept
<1> QED BY <1>1, <1>2, RoomStep, RunsAlways, PTL DEF Spec

-----------------------------------------------------------------------------
(* Its runs within the hour. *)

\* What was old when a run read the clock is old now.
HourInv == old \in 0 .. n /\ since \in [Jobs -> 0 .. old]

\* At first nothing is old.
LEMMA InitHour == Init => HourInv
    BY DEF Init, HourInv, None, n

\* The hour only moves on.
HourGoesOn == old \in Nat /\ old' \in Nat /\ old <= old' /\ n' \in Nat

\* There are never fewer jobs.
LEMMA NeverFewer == ASSUME Typed, [Next]_vars PROVE n \in Nat /\ n' \in Nat /\ n <= n'
<1>1. n \in Nat
    BY TableShape DEF Typed
<1>2. CASE UNCHANGED vars
    BY <1>1, <1>2 DEF vars, queue, n
<1>3. CASE (\E o \in Origins : RunNow(o)) \/ TickAdd
    BY <1>1, <1>3, RunNowTyped, TickAddTyped, TableShape DEF RowAddedBy
<1>4. ASSUME NEW d \in 1 .. Deliveries, Deliver(d) \/ Hook(d) PROVE n' \in Nat /\ n <= n'
  <2>1. CASE CreateHook(d)
    BY <1>1, <2>1, CreateTyped, TableShape DEF RowAddedBy, RowsStay
  <2>2. CASE ClearDedupe(d)
    BY <1>1, <2>2, ClearTyped
  <2> QED
    BY <1>1, <1>4, <2>1, <2>2, DeliverTyped, LookKeyTyped, LookFoldTyped, FoldTyped DEF Hook, RowsStay
<1>5. ASSUME NEW j \in Jobs, Runs(j) PROVE n' \in Nat /\ n <= n'
    BY <1>1, <1>5, RunsTyped DEF RowsStay
<1>6. CASE Starter \/ Bystander \/ Cancel \/ Restart
    BY <1>1, <1>6, StarterTyped, BystanderTyped, CancelTyped, RestartTyped DEF RowsStay
<1> QED
    BY <1>1, <1>2, <1>3, <1>4, <1>5, <1>6 DEF Next, Bystander

\* A run reads the clock in Check and is done with it when it leaves.
LEMMA HourStep == Typed /\ HourInv /\ [Next]_vars => HourInv' /\ HourGoesOn
<1> SUFFICES ASSUME Typed, HourInv, [Next]_vars PROVE HourInv' /\ HourGoesOn
    OBVIOUS
<1>1. n \in Nat /\ n' \in Nat /\ n <= n' /\ None \in 0 .. old
    BY NeverFewer DEF HourInv, None
<1>2. old <= old' /\ old' \in 0 .. n'
  <2>1. CASE \E j \in Jobs : HourPasses(j)
    BY <1>1, <2>1 DEF HourPasses, HourInv
  <2>2. CASE UNCHANGED old
    BY <1>1, <2>2 DEF HourInv
  <2>3. ASSUME NEW d \in 1 .. Deliveries, Hook(d) PROVE UNCHANGED old
    BY <2>3 DEF Hook, LookKey, LookFold, Fold, CreateHook, LookAgain, ClearDedupe, queue
  <2>4. CASE Starter
    BY <2>2, <2>4 DEF Starter, StarterReserve, StarterClaim, StarterSort, StarterGo, queue
  <2>5. ASSUME NEW j \in Jobs, Runs(j) PROVE UNCHANGED old
    BY <2>5 DEF Runs, Stay, Check, Limit, Skip, Script, ScriptEnd, Send, Answer, SettleBusy, Put,
                Timeout, Settle, Finish, Record, Leave, queue
  <2>6. CASE Cancel
    BY <2>2, <2>6 DEF Cancel, CancelPending, CancelAgain, CancelRunning, CancelRecord, queue
  <2>7. CASE UNCHANGED vars \/ TickAdd \/ Restart \/ (\E o \in Origins : RunNow(o) \/ TickLook(o))
    BY <2>2, <2>7 DEF vars, TickAdd, Restart, RunNow, TickLook, queue
  <2>8. CASE (\E d \in 1 .. Deliveries : Deliver(d)) \/ \E j \in Jobs : Comes(j) \/ Ages(j) \/ CancelLook(j)
    BY <2>2, <2>8 DEF Deliver, Comes, Ages, CancelLook, queue
  <2> QED BY <2>1, <2>2, <2>3, <2>4, <2>5, <2>6, <2>7, <2>8 DEF Next
<1>3. since' \in [Jobs -> 0 .. old]
  <2>1. CASE UNCHANGED since
    BY <2>1 DEF HourInv
  <2>2. ASSUME NEW j \in Jobs, Runs(j) PROVE since' \in [Jobs -> 0 .. old]
    <3>1. CASE Check(j)
        BY <1>1, <3>1 DEF Check, HourInv
    <3>2. CASE Leave(j)
        BY <1>1, <3>2 DEF Leave, HourInv
    <3> QED BY <2>1, <2>2, <3>1, <3>2
            DEF Runs, Limit, Skip, Script, ScriptEnd, Send, Answer, SettleBusy, Put,
                Timeout, Settle, Finish, Record
  <2>3. CASE Restart
    BY <1>1, <2>3 DEF Restart
  <2>4. ASSUME NEW d \in 1 .. Deliveries, Hook(d) PROVE UNCHANGED since
    BY <2>4 DEF Hook, LookKey, LookFold, Fold, CreateHook, LookAgain, ClearDedupe, runner
  <2>5. CASE Starter
    BY <2>1, <2>5 DEF Starter, StarterReserve, StarterClaim, StarterSort, StarterGo, runner
  <2>6. CASE Cancel
    BY <2>1, <2>6 DEF Cancel, CancelPending, CancelAgain, CancelRunning, CancelRecord, runner
  <2>7. CASE UNCHANGED vars \/ TickAdd \/ (\E o \in Origins : RunNow(o) \/ TickLook(o))
    BY <2>1, <2>7 DEF vars, TickAdd, RunNow, TickLook, runner
  <2>8. CASE (\E d \in 1 .. Deliveries : Deliver(d))
             \/ \E j \in Jobs : Comes(j) \/ Ages(j) \/ HourPasses(j) \/ CancelLook(j)
    BY <2>1, <2>8 DEF Deliver, Comes, Ages, HourPasses, CancelLook, runner
  <2> QED BY <2>1, <2>2, <2>3, <2>4, <2>5, <2>6, <2>7, <2>8 DEF Next
<1>4. 0 .. old \subseteq 0 .. old' /\ old \in Nat /\ old' \in Nat
    BY <1>1, <1>2 DEF HourInv
<1> QED BY <1>1, <1>2, <1>3, <1>4 DEF HourInv, HourGoesOn

\* Its content was started, or is about to be: MaxRunsPerHour lets it, and
\* nothing is asked again before it.
Counts(j) == (ran[j] > 0 \/ run[j] \in {"script", "send"}) /\ ~Asked(j)
CountedOf(o) == {j \in Recent(o, old) : Counts(j)}
LimitOf(o) == MaxRuns[o] > 0 => Cardinality(CountedOf(o)) <= MaxRuns[o]
LimitInv == \A o \in Origins : LimitOf(o)

\* A step that makes nothing count: a job that is among the newest, and of the
\* last hour, after it was so before.
LEMMA LimitStill ==
    ASSUME RunsInv, LimitInv, HourGoesOn, 1 .. n \subseteq 1 .. n',
           \A i \in 1 .. n : job'[i].origin = job[i].origin /\ (Counts(i)' => Counts(i)),
           \A i \in 1 .. n' : i \notin 1 .. n => ~Counts(i)'
    PROVE  LimitInv'
<1> SUFFICES ASSUME NEW o \in Origins, MaxRuns[o] > 0 PROVE Cardinality(CountedOf(o)') <= MaxRuns[o]
    BY DEF LimitInv, LimitOf
<1>1. CountedOf(o)' \subseteq CountedOf(o)
  <2> SUFFICES ASSUME NEW j, j \in CountedOf(o)' PROVE j \in CountedOf(o)
    OBVIOUS
  <2>1. j \in 1 .. n /\ Counts(j) /\ job[j].origin = o /\ job'[j].origin = o /\ j > old
    BY DEF CountedOf, Recent, Of, HourGoesOn
  <2>2. Newer(j) \subseteq Newer(j)'
    BY <2>1 DEF Newer, Of
  <2>3. IsFiniteSet(Newer(j)')
    <3>1. Newer(j)' \subseteq 1 .. n'
        BY DEF Newer, Of
    <3>2. IsFiniteSet(1 .. n')
        BY FS_Interval DEF HourGoesOn
    <3> HIDE DEF Newer
    <3> QED BY <3>1, <3>2, FS_Subset
  <2>4. Cardinality(Newer(j)') < Newest
    BY DEF CountedOf, Recent
  <2> HIDE DEF Newer
  <2>5. /\ Cardinality(Newer(j)) <= Cardinality(Newer(j)')
        /\ Cardinality(Newer(j)) \in Nat /\ Cardinality(Newer(j)') \in Nat
    BY <2>2, <2>3, FS_Subset, FS_CardinalityType
  <2>6. Cardinality(Newer(j)) < Newest
    BY <2>4, <2>5, LimitAssumption
  <2> QED BY <2>1, <2>6 DEF CountedOf, Recent, Of
<1>2. IsFiniteSet(CountedOf(o)) /\ Cardinality(CountedOf(o)) \in Nat
    BY SomeJobs DEF RunsInv, CountedOf, Recent, Of
<1>3. Cardinality(CountedOf(o)') <= Cardinality(CountedOf(o)) /\ Cardinality(CountedOf(o)') \in Nat
    BY <1>1, <1>2, FS_Subset, FS_CardinalityType
<1> QED BY <1>2, <1>3, LimitAssumption DEF LimitInv, LimitOf

\* A new job does not count.
LEMMA LimitAdded ==
    ASSUME RunsInv, LimitInv, HourGoesOn, NEW o, NEW key, RowAddedBy(o, key)
    PROVE  LimitInv'
<1>1. /\ n \in Nat /\ n' = n + 1 /\ n + 1 \in Jobs /\ UNCHANGED <<run, ran>>
      /\ \A i \in 1 .. n : job'[i] = job[i]
    BY TableShape DEF RunsInv, Typed, RowAddedBy, runner
<1>2. ASSUME NEW i \in 1 .. n', i \notin 1 .. n PROVE ~Counts(i)'
  <2>1. i = n + 1 /\ i \in Jobs
    BY <1>1, <1>2
  <2>2. ran[i] = 0 /\ run[i] = "no"
    BY <1>1, <2>1 DEF RunsInv, Unmade, Typed, TypedRuns, Started
  <2> QED BY <1>1, <2>2 DEF Counts
<1> QED BY <1>1, <1>2, LimitStill DEF Counts, Asked

\* Only Limit makes one count that an automation has a limit for: when it read
\* fewer others that were not skipped, and those that count are among them.
LEMMA LimitRuns ==
    ASSUME RunsInv, LimitInv, HourInv, HourGoesOn, NEW j \in Jobs, Runs(j)
    PROVE  LimitInv'
<1>1. /\ Typed /\ RowsStay /\ n' = n /\ j \in 1 .. n /\ 1 .. n \subseteq Jobs /\ job[j].origin \in Origins
      /\ \A i \in 1 .. n : i # j => job'[i] = job[i] /\ run'[i] = run[i] /\ ran'[i] = ran[i]
    BY RunsTyped, RunsOthers, TableShape DEF RunsInv, Typed, Job, RowsStay
<1>2. Asked(j)' = Asked(j) /\ \A i \in 1 .. n : job'[i].origin = job[i].origin
    BY <1>1 DEF RowsStay, Asked
<1>3. ASSUME Counts(j)' => Counts(j) PROVE LimitInv'
  <2>1. \A i \in 1 .. n : Counts(i)' => Counts(i)
    BY <1>1, <1>3 DEF Counts, Asked
  <2> QED BY <1>1, <1>2, <2>1, LimitStill
<1>4. run \in [Jobs -> Stages] /\ ran \in [Jobs -> Nat]
    BY <1>1 DEF Typed, TypedRuns
<1>5. CASE run'[j] \notin {"script", "send"} /\ UNCHANGED ran
    BY <1>2, <1>3, <1>5 DEF Counts
<1>6. CASE Script(j)
    BY <1>2, <1>3, <1>6 DEF Counts, Script
<1>7. CASE Send(j)
    BY <1>2, <1>3, <1>7 DEF Counts, Send
<1>8. CASE Skip(j) \/ ScriptEnd(j) \/ Answer(j)
    BY <1>1, <1>4, <1>5, <1>8 DEF Skip, ScriptEnd, Answer, Move
<1>9. CASE SettleBusy(j) \/ Put(j) \/ Timeout(j) \/ Settle(j) \/ Finish(j) \/ Record(j) \/ Leave(j)
    BY <1>1, <1>4, <1>5, <1>9 DEF SettleBusy, Put, Timeout, Settle, Finish, Record, Leave, Move
<1>10. CASE Check(j) \/ Limit(j)
  <2> SUFFICES ASSUME NEW o \in Origins, MaxRuns[o] > 0 PROVE Cardinality(CountedOf(o)') <= MaxRuns[o]
    BY DEF LimitInv, LimitOf
  <2>1. UNCHANGED ran
    BY <1>10 DEF Check, Limit
  <2>2. LimitOf(o) /\ IsFiniteSet(CountedOf(o)) /\ Cardinality(CountedOf(o)) \in Nat /\ MaxRuns[o] \in Nat
    BY <1>1, SomeJobs, LimitAssumption DEF LimitInv, CountedOf, Recent, Of
  <2>0. Recent(o, old)' = Recent(o, old) /\ Recent(o, old) \subseteq 1 .. n
    <3>1. old' = old
        BY <1>10 DEF Check, Limit, Stay
    <3> QED BY <1>1, <1>2, <3>1 DEF Recent, Newer, Of
  <2>3. CASE job[j].origin # o
    <3>1. CountedOf(o)' = CountedOf(o)
        BY <1>1, <1>2, <2>0, <2>3 DEF CountedOf, Recent, Of, Counts, Asked
    <3> QED BY <2>2, <3>1 DEF LimitOf
  <2>4. CASE job[j].origin = o /\ Check(j)
    <3>1. Asked(j) \/ run'[j] \in {"skip", "limit"}
        BY <1>1, <1>4, <2>4 DEF Check, Move
    <3>2. CountedOf(o)' \subseteq CountedOf(o)
        BY <1>1, <1>2, <2>0, <2>1, <3>1 DEF CountedOf, Counts, Asked
    <3>3. Cardinality(CountedOf(o)') <= Cardinality(CountedOf(o)) /\ Cardinality(CountedOf(o)') \in Nat
        BY <2>2, <3>2, FS_Subset, FS_CardinalityType
    <3> QED BY <2>2, <3>3 DEF LimitOf
  <2>5. CASE job[j].origin = o /\ Limit(j) /\ OverRuns(j)
    <3>1. run'[j] = "skip"
        BY <1>1, <1>4, <2>5 DEF Limit, Move
    <3> QED BY <1>5, <2>1, <2>2, <3>1 DEF LimitInv, LimitOf
  <2>6. CASE job[j].origin = o /\ Limit(j) /\ ~OverRuns(j)
    <3> DEFINE others == {i \in Recent(o, since[j]) \ {j} : Status(i) # "skipped"}
    <3>1. ~(Cardinality(others) >= MaxRuns[o])
        BY <2>6 DEF OverRuns
    <3>2. IsFiniteSet(others) /\ Cardinality(others) \in Nat
        BY <1>1, SomeJobs DEF Recent, Of
    <3>3. ASSUME NEW i \in CountedOf(o), i # j PROVE i \in others
        <4>1. i \in Recent(o, old) /\ i \in 1 .. n /\ Counts(i) /\ RunOf(i)
            BY <3>3 DEF CountedOf, Recent, Of, RunsInv, OnceInv, RunInv
        <4>2. Status(i) # "skipped"
            BY <4>1 DEF Counts, RunOf, NotYet, Fresh
        <4>3. since[j] \in Nat /\ old \in Nat /\ since[j] <= old
            BY DEF HourInv
        <4>4. i \in Recent(o, since[j])
            BY <4>1, <4>3 DEF Recent
        <4> QED BY <3>3, <4>2, <4>4
    <3>4. CountedOf(o)' \subseteq others \cup {j}
        BY <1>1, <1>2, <2>0, <2>1, <3>3 DEF CountedOf, Counts, Asked
    <3>5. j \notin others
        OBVIOUS
    <3> HIDE DEF others
    <3>6. IsFiniteSet(others \cup {j}) /\ Cardinality(others \cup {j}) = Cardinality(others) + 1
        BY <3>2, <3>5, FS_AddElement
    <3>7. Cardinality(CountedOf(o)') <= Cardinality(others \cup {j}) /\ Cardinality(CountedOf(o)') \in Nat
          /\ Cardinality(others \cup {j}) \in Nat
        BY <3>4, <3>6, FS_Subset, FS_CardinalityType
    <3> QED BY <2>2, <3>1, <3>2, <3>6, <3>7
  <2> QED BY <1>10, <2>3, <2>4, <2>5, <2>6
<1> QED
    BY <1>6, <1>7, <1>8, <1>9, <1>10 DEF Runs

\* Every step keeps the count within the limit.
LEMMA LimitStep == RunsInv /\ HourInv /\ LimitInv /\ [Next]_vars => LimitInv'
<1> SUFFICES ASSUME RunsInv, HourInv, LimitInv, [Next]_vars PROVE LimitInv'
    OBVIOUS
<1>1. Typed /\ n \in Nat /\ 1 .. n \subseteq Jobs /\ HourGoesOn
    BY TableShape, HourStep DEF RunsInv, Typed
<1>2. ASSUME RowsStay, UNCHANGED <<run, ran>> PROVE LimitInv'
  <2>1. \A i \in 1 .. n : job'[i].origin = job[i].origin /\ (Counts(i)' => Counts(i))
    BY <1>2 DEF RowsStay, Counts, Asked
  <2> QED BY <1>1, <1>2, <2>1, LimitStill DEF RowsStay
<1>3. CASE UNCHANGED vars
  <2>1. RowsStay /\ UNCHANGED <<run, ran>>
    BY <1>3 DEF vars, queue, runner, RowsStay, n
  <2> QED BY <1>2, <2>1
<1>4. CASE (\E o \in Origins : RunNow(o)) \/ TickAdd
    BY <1>1, <1>4, RunNowTyped, TickAddTyped, LimitAdded
<1>5. ASSUME NEW d \in 1 .. Deliveries, Deliver(d) \/ Hook(d) PROVE LimitInv'
  <2>1. UNCHANGED <<run, ran>>
    BY <1>5 DEF Deliver, Hook, LookKey, LookFold, Fold, CreateHook, LookAgain, ClearDedupe, runner
  <2>2. CASE ClearDedupe(d)
    <3>1. n' = n /\ \A i \in 1 .. n : job'[i].origin = job[i].origin /\ job'[i].trigger = job[i].trigger
        BY <1>1, <2>2, ClearTyped
    <3> QED BY <1>1, <2>1, <3>1, LimitStill DEF Counts, Asked
  <2>3. CASE CreateHook(d)
    BY <1>1, <1>2, <2>1, <2>3, CreateTyped, LimitAdded
  <2> QED BY <1>1, <1>2, <1>5, <2>1, <2>2, <2>3, DeliverTyped, LookKeyTyped, LookFoldTyped, FoldTyped DEF Hook
<1>6. CASE Starter
  <2>1. n' = n /\ \A i \in 1 .. n : job'[i].origin = job[i].origin /\ job'[i].trigger = job[i].trigger
    BY <1>1, <1>6, StarterTyped DEF RowsStay
  <2>2. UNCHANGED ran /\ \A i \in 1 .. n : run'[i] \in {"script", "send"} => run'[i] = run[i]
    BY <1>1, <1>6 DEF Starter, StarterReserve, StarterClaim, StarterSort, StarterGo, runner
  <2> QED BY <1>1, <2>1, <2>2, LimitStill DEF Counts, Asked
<1>7. ASSUME NEW j \in Jobs, Runs(j) PROVE LimitInv'
    BY <1>1, <1>7, LimitRuns
<1>8. CASE Bystander
    BY <1>1, <1>2, <1>8, BystanderTyped DEF runner
<1>9. CASE Cancel
    BY <1>1, <1>2, <1>9, CancelTyped DEF runner
<1>10. CASE Restart
  <2>1. RowsStay /\ UNCHANGED ran /\ \A i \in Jobs : run'[i] = "no"
    BY <1>1, <1>10, RestartTyped
  <2> QED BY <1>1, <2>1, LimitStill DEF Counts, Asked, RowsStay
<1> QED
    BY <1>3, <1>4, <1>5, <1>6, <1>7, <1>8, <1>9, <1>10 DEF Next, Bystander

\* RunsKept: of an automation's jobs that were made within the hour and are
\* among the newest that a list has, no more are started than MaxRunsPerHour,
\* however many ask at once (execute): each sees the others that were not
\* skipped.
THEOREM LimitHolds == Spec => []RunsKept
<1>1. Init => HourInv /\ LimitInv
  <2> SUFFICES ASSUME Init, NEW o \in Origins PROVE HourInv /\ LimitOf(o)
    BY InitHour DEF LimitInv
  <2>1. CountedOf(o) = {} /\ MaxRuns[o] \in Nat
    BY LimitAssumption DEF Init, n, CountedOf, Recent, Of
  <2> QED BY <2>1, FS_EmptySet, InitHour DEF LimitOf
<1>2. RunsInv /\ LimitInv => RunsKept
  <2> SUFFICES ASSUME RunsInv, LimitInv, NEW o \in Origins, MaxRuns[o] > 0
               PROVE  Cardinality({j \in Recent(o, old) : ran[j] > 0 /\ ~Asked(j)}) <= MaxRuns[o]
    BY DEF RunsKept
  <2> DEFINE S == {j \in Recent(o, old) : ran[j] > 0 /\ ~Asked(j)}
  <2>1. S \subseteq CountedOf(o) /\ IsFiniteSet(CountedOf(o)) /\ Cardinality(CountedOf(o)) \in Nat
    BY SomeJobs DEF RunsInv, CountedOf, Recent, Of, Counts
  <2>2. Cardinality(S) <= Cardinality(CountedOf(o)) /\ Cardinality(S) \in Nat
    BY <2>1, FS_Subset, FS_CardinalityType
  <2>3. Cardinality(CountedOf(o)) <= MaxRuns[o] /\ MaxRuns[o] \in Nat
    BY LimitAssumption DEF LimitInv, LimitOf
  <2> HIDE DEF S
  <2>4. Cardinality(S) <= MaxRuns[o]
    BY <2>1, <2>2, <2>3
  <2> QED BY <2>4 DEF S
<1>3. RunsInv /\ HourInv /\ [Next]_vars => HourInv'
    BY HourStep DEF RunsInv
<1> QED BY <1>1, <1>2, <1>3, LimitStep, RunsAlways, PTL DEF Spec

-----------------------------------------------------------------------------
(* What is due, the slots that are taken, and the types of the rest. *)

Due == due \in Seq(1 .. n) /\ IsInjective(due)

\* A slot is taken by a run, or held by StartReady for those it will start.
Active == {j \in 1 .. n : Started(j)}
Reserved == starter.list \cup starter.keep
SlotsInv ==
    /\ slots = Cardinality(Active) + starter.free
    /\ slots <= Slots
    /\ starter.free \in 0 .. Slots
    /\ Cardinality(Reserved) <= starter.free
    /\ starter.at = "idle" => starter.free = 0

HookStages == {"idle", "look", "fold", "folding", "create", "again", "clear", "over"}
Places ==
    /\ starter.at \in {"idle", "claim", "sort"}
    /\ \A d \in 1 .. Deliveries : hook[d].at \in HookStages
    /\ cancel.at \in {"idle", "pending", "again", "running", "record"}
    /\ tries \in [Jobs -> 0 .. MaxTries]
TypeInv == RunsInv /\ RoomInv /\ HourInv /\ Due /\ SlotsInv /\ Places

\* A longer table: what was due is due.
LEMMA LongerSeq == ASSUME NEW S, NEW T, S \subseteq T, NEW s \in Seq(S) PROVE s \in Seq(T)
<1>1. Len(s) \in Nat /\ s \in [1 .. Len(s) -> S]
    BY LenProperties
<1>2. s \in [1 .. Len(s) -> T]
    BY <1>1
<1> QED
    BY <1>1, <1>2, SeqDef

\* One more at the end of a list that it is not in.
LEMMA AppendOnce ==
    ASSUME NEW T, NEW s \in Seq(T), NEW e \in T, IsInjective(s), ~Contains(s, e)
    PROVE  Append(s, e) \in Seq(T) /\ IsInjective(Append(s, e))
<1> DEFINE g == Append(s, e)
<1>1. /\ g \in Seq(T) /\ Len(g) = Len(s) + 1 /\ Len(s) \in Nat
      /\ \A j \in 1 .. Len(s) : g[j] = s[j]
      /\ g[Len(s) + 1] = e
    BY AppendProperties, LenProperties
<1>2. DOMAIN g = 1 .. Len(s) + 1 /\ DOMAIN s = 1 .. Len(s)
    BY <1>1, LenProperties
<1>3. \A j \in 1 .. Len(s) : s[j] # e
    BY <1>2 DEF Contains
<1> HIDE DEF g
<1>4. ASSUME NEW a \in DOMAIN g, NEW b \in DOMAIN g, g[a] = g[b] PROVE a = b
  <2>1. CASE a \in 1 .. Len(s) /\ b \in 1 .. Len(s)
    BY <1>1, <1>2, <1>4, <2>1 DEF IsInjective
  <2>2. CASE a = Len(s) + 1 \/ b = Len(s) + 1
    BY <1>1, <1>2, <1>3, <1>4, <2>2
  <2> QED
    BY <1>1, <1>2, <2>1, <2>2
<1>5. IsInjective(g)
    BY <1>4 DEF IsInjective
<1> QED
    BY <1>1, <1>5 DEF g

\* How what is due changes.
DueMoves ==
    /\ 1 .. n \subseteq 1 .. n'
    /\ \/ due' = due
       \/ \E j \in 1 .. n' : ~Contains(due, j) /\ due' = Append(due, j)
       \/ \E M : due' = Without(due, M)
LEMMA DueKept == ASSUME Due, DueMoves PROVE Due'
<1>1. due \in Seq(1 .. n')
    BY LongerSeq DEF Due, DueMoves
<1>2. IsInjective(due)
    BY DEF Due
<1>3. CASE due' = due
    BY <1>1, <1>2, <1>3 DEF Due
<1>4. CASE \E j \in 1 .. n' : ~Contains(due, j) /\ due' = Append(due, j)
  <2>1. PICK j \in 1 .. n' : ~Contains(due, j) /\ due' = Append(due, j)
    BY <1>4
  <2>2. Append(due, j) \in Seq(1 .. n') /\ IsInjective(Append(due, j))
    BY <1>1, <1>2, <2>1, AppendOnce
  <2> QED
    BY <2>1, <2>2 DEF Due
<1>5. CASE \E M : due' = Without(due, M)
  <2>1. PICK M : due' = Without(due, M)
    BY <1>5
  <2>2. Without(due, M) \in Seq(1 .. n') /\ IsInjective(Without(due, M))
    BY <1>1, <1>2, WithoutProperties
  <2> QED
    BY <2>1, <2>2 DEF Due
<1> QED
    BY <1>3, <1>4, <1>5 DEF DueMoves

\* A new job is due last, or not yet.
LEMMA DueAdded ==
    ASSUME Typed, Due, NEW o, NEW key, RowAddedBy(o, key), due' = due \/ due' = Append(due, n + 1)
    PROVE  DueMoves
<1>1. n \in Nat /\ n' = n + 1
    BY TableShape DEF Typed, RowAddedBy
<1>2. ~Contains(due, n + 1)
  <2>1. Len(due) \in Nat /\ due \in [1 .. Len(due) -> 1 .. n]
    BY LenProperties DEF Due
  <2>2. \A i \in 1 .. Len(due) : due[i] # n + 1
    BY <1>1, <2>1
  <2> QED
    BY <2>2 DEF Contains
<1> QED
    BY <1>1, <1>2 DEF DueMoves

LEMMA DueStep == Typed /\ Due /\ [Next]_vars => DueMoves
<1> SUFFICES ASSUME Typed, Due, [Next]_vars PROVE DueMoves
    OBVIOUS
<1>1. n \in Nat
    BY TableShape DEF Typed
<1>2. ASSUME n' = n, UNCHANGED due \/ \E M : due' = Without(due, M) PROVE DueMoves
    BY <1>2 DEF DueMoves
<1>3. CASE UNCHANGED vars
    BY <1>2, <1>3 DEF vars, queue, n
<1>4. ASSUME NEW o \in Origins, RunNow(o) PROVE DueMoves
  <2>1. due' = Append(due, n + 1) /\ RowAddedBy(o, NoKey)
    BY <1>4, RunNowTyped DEF RunNow, Create
  <2> QED
    BY <2>1, DueAdded
<1>5. CASE TickAdd
  <2>1. due' = Append(due, n + 1) /\ RowAddedBy(tick, NoKey)
    BY <1>5, TickAddTyped DEF TickAdd, Create
  <2> QED
    BY <2>1, DueAdded
<1>6. ASSUME NEW d \in 1 .. Deliveries, Deliver(d) \/ Hook(d) PROVE DueMoves
  <2>1. CASE Deliver(d) \/ LookKey(d) \/ LookFold(d) \/ LookAgain(d)
    BY <1>2, <2>1 DEF Deliver, LookKey, LookFold, LookAgain, queue, n
  <2>2. CASE ClearDedupe(d)
    BY <1>2, <2>2, ClearTyped DEF ClearDedupe
  <2>3. CASE Fold(d)
    <3>1. n' = n
      BY <2>3, FoldTyped DEF RowsStay
    <3>2. UNCHANGED due \/ \E M : due' = Without(due, M)
      BY <2>3, Zenon DEF Fold
    <3> QED
      BY <1>2, <3>1, <3>2
  <2>4. CASE CreateHook(d)
    <3>1. CASE RowAddedBy(hook[d].origin, hook[d].key)
      <4>1. n' # n
        BY <1>1, <3>1 DEF RowAddedBy
      <4>2. due' = due \/ due' = Append(due, n + 1)
        BY <2>4, <4>1 DEF CreateHook, Create
      <4> QED
        BY <3>1, <4>2, DueAdded
    <3>2. CASE Conflicts(d) /\ UNCHANGED job
      BY <1>2, <2>4, <3>2 DEF CreateHook, n
    <3> QED
      BY <2>4, <3>1, <3>2, CreateTyped
  <2> QED
    BY <1>6, <2>1, <2>2, <2>3, <2>4 DEF Hook
<1>7. CASE Starter
  <2>1. n' = n
    BY <1>7, StarterTyped DEF RowsStay
  <2>2. UNCHANGED due \/ \E M : due' = Without(due, M)
    BY <1>7 DEF Starter, StarterReserve, StarterClaim, StarterSort, StarterGo, queue
  <2> QED
    BY <1>2, <2>1, <2>2
<1>8. ASSUME NEW j \in Jobs, Runs(j) PROVE DueMoves
  <2>1. n' = n
    BY <1>8, RunsTyped DEF RowsStay
  <2>2. UNCHANGED due
    BY <1>8 DEF Runs, Check, Limit, Skip, Script, ScriptEnd, queue,
       Send, Answer, SettleBusy, Put, Timeout, Settle, Finish, Record, Leave, Stay
  <2> QED
    BY <1>2, <2>1, <2>2
<1>9. CASE Bystander
  <2>1. n' = n
    BY <1>9, BystanderTyped DEF RowsStay
  <2>2. ASSUME NEW j \in Jobs, Comes(j) PROVE DueMoves
    <3>1. j \in 1 .. n /\ ~Contains(due, j) /\ due' = Append(due, j)
      BY <1>1, <2>2, BoundAssumption DEF Comes, Jobs
    <3> QED
      BY <2>1, <3>1 DEF DueMoves
  <2>3. CASE ~\E j \in Jobs : Comes(j)
    <3>1. UNCHANGED due
      BY <1>9, <2>3 DEF Bystander, TickLook, Ages, HourPasses, CancelLook, queue
    <3> QED
      BY <1>2, <2>1, <3>1
  <2> QED
    BY <2>2, <2>3
<1>10. CASE Cancel
  <2>1. n' = n
    BY <1>10, CancelTyped DEF RowsStay
  <2>2. UNCHANGED due
    BY <1>10 DEF Cancel, CancelPending, CancelAgain, CancelRunning, CancelRecord, queue
  <2> QED
    BY <1>2, <2>1, <2>2
<1>11. CASE Restart
  <2>1. n' = n
    BY <1>11, RestartTyped DEF RowsStay
  <2>2. \E M : due' = Without(due, M)
    BY <1>11, Zenon DEF Restart
  <2> QED
    BY <1>2, <2>1, <2>2
<1> QED
    BY <1>3, <1>4, <1>5, <1>6, <1>7, <1>8, <1>9, <1>10, <1>11 DEF Next, Bystander

-----------------------------------------------------------------------------
\* The runs and those that StartReady claimed are finitely many.
LEMMA SlotsShape ==
    ASSUME Typed
    PROVE  /\ IsFiniteSet(Active) /\ Cardinality(Active) \in Nat
           /\ IsFiniteSet(Reserved) /\ Cardinality(Reserved) \in Nat
           /\ Slots \in Nat
<1>1. Active \subseteq 1 .. n /\ Reserved \subseteq 1 .. n
    BY DEF Active, Reserved, Typed, TypedStarter
<1> QED
    BY <1>1, SomeJobs, LimitAssumption

\* A step that neither begins a run nor ends one.
LEMMA SlotsStill ==
    ASSUME Typed, SlotsInv, UNCHANGED <<slots, starter>>, 1 .. n \subseteq 1 .. n',
           \A i \in 1 .. n : Started(i)' <=> Started(i),
           \A i \in 1 .. n' : i \notin 1 .. n => ~Started(i)'
    PROVE  SlotsInv'
<1>1. Active' = Active
    BY DEF Active
<1>2. Reserved' = Reserved
    BY DEF Reserved
<1> QED
    BY <1>1, <1>2 DEF SlotsInv

\* A new job does not run.
LEMMA SlotsAdded ==
    ASSUME Typed, SlotsInv, NEW o, NEW key, RowAddedBy(o, key)
    PROVE  SlotsInv'
<1>1. n \in Nat /\ n' = n + 1 /\ n + 1 \in Jobs /\ UNCHANGED <<slots, starter, run>>
    BY TableShape DEF Typed, RowAddedBy, runner
<1>2. \A i \in 1 .. n' : i \notin 1 .. n => ~Started(i)'
    BY <1>1 DEF Typed, TypedRuns, Started
<1> QED
    BY <1>1, <1>2, SlotsStill DEF Started

\* One that leaves gives its slot back.
LEMMA SlotsRuns ==
    ASSUME RunsInv, SlotsInv, NEW j \in Jobs, Runs(j)
    PROVE  SlotsInv'
<1>1. /\ Typed /\ n' = n /\ j \in 1 .. n /\ 1 .. n \subseteq Jobs /\ UNCHANGED starter
      /\ \A i \in 1 .. n : i # j => run'[i] = run[i]
    BY RunsTyped, RunsOthers, TableShape DEF RunsInv, Typed, RowsStay
<1>2. run[j] # "no" /\ run \in [Jobs -> Stages]
    BY <1>1 DEF Runs, Check, Limit, Skip, Script, ScriptEnd,
       Send, Answer, SettleBusy, Put, Timeout, Settle, Finish, Record, Leave, Typed, TypedRuns
<1>3. CASE Leave(j)
  <2>1. run'[j] = "no" /\ slots' = slots - 1
    BY <1>2, <1>3 DEF Leave, Move, Freed
  <2>2. Active' = Active \ {j} /\ j \in Active
    BY <1>1, <1>2, <2>1 DEF Active, Started
  <2>3. Cardinality(Active') = Cardinality(Active) - 1
    BY <1>1, <2>2, SlotsShape, FS_RemoveElement
  <2>4. Reserved' = Reserved
    BY <1>1 DEF Reserved
  <2> QED
    BY <1>1, <2>1, <2>3, <2>4, SlotsShape DEF SlotsInv
<1>4. CASE ~Leave(j)
  <2>1. run'[j] # "no"
    <3>1. CASE Check(j) \/ Limit(j)
      BY <1>1, <1>2, <3>1 DEF Move, Check, Limit, Content
    <3>2. CASE Skip(j) \/ Script(j) \/ ScriptEnd(j) \/ Send(j) \/ Answer(j)
      BY <1>1, <1>2, <3>2 DEF Move, Skip, Script, ScriptEnd, Send, Answer
    <3>3. CASE SettleBusy(j) \/ Put(j) \/ Timeout(j) \/ Settle(j) \/ Finish(j) \/ Record(j)
      BY <1>1, <1>2, <3>3 DEF Move, SettleBusy, Put, Timeout, Settle, Finish, Record
    <3> QED
      BY <1>4, <3>1, <3>2, <3>3 DEF Runs
  <2>2. UNCHANGED slots
    BY <1>4 DEF Runs, Check, Limit, Skip, Script, ScriptEnd,
       Send, Answer, SettleBusy, Put, Timeout, Settle, Finish, Record, Stay
  <2>3. \A i \in 1 .. n : Started(i)' <=> Started(i)
    BY <1>1, <1>2, <2>1 DEF Started
  <2> QED
    BY <1>1, <2>2, <2>3, SlotsStill
<1> QED
    BY <1>3, <1>4

\* StartReady: the slots it reserves, the jobs it claims for them and what it
\* gives back.
LEMMA SlotsStarter ==
    ASSUME RunsInv, SlotsInv, Starter
    PROVE  SlotsInv'
<1>1. /\ Typed /\ Typed' /\ n' = n /\ n \in Nat /\ 1 .. n \subseteq Jobs /\ StarterInv
      /\ starter.list \subseteq 1 .. n /\ starter.keep \subseteq 1 .. n
    BY StarterTyped, TableShape DEF RunsInv, OnceInv, Typed, TypedStarter, RowsStay
<1>2. /\ IsFiniteSet(Active) /\ Cardinality(Active) \in Nat /\ Slots \in Nat
      /\ IsFiniteSet(Reserved) /\ Cardinality(Reserved) \in Nat
      /\ slots \in Int /\ starter.free \in Nat
    BY <1>1, SlotsShape DEF SlotsInv
<1>3. ASSUME UNCHANGED run PROVE Active' = Active
    BY <1>1, <1>3 DEF Active, Started
<1>4. starter = [at |-> starter.at, free |-> starter.free, left |-> starter.left,
                 list |-> starter.list, keep |-> starter.keep]
    BY <1>1 DEF Typed, TypedStarter
<1>5. CASE StarterReserve
  <2>1. /\ starter.at = "idle" /\ slots < Slots /\ slots' = Slots /\ UNCHANGED run
        /\ starter'.at = "claim" /\ starter'.free = Slots - slots /\ starter'.list = {} /\ starter'.keep = {}
    BY <1>5 DEF StarterReserve
  <2>2. Active' = Active /\ slots = Cardinality(Active)
    BY <1>2, <1>3, <2>1 DEF SlotsInv
  <2>3. Cardinality(Reserved') = 0
    BY <2>1, FS_EmptySet DEF Reserved
  <2> QED
    BY <1>2, <2>1, <2>2, <2>3 DEF SlotsInv
<1>6. CASE StarterClaim
  <2>1. PICK list \in SUBSET Can : /\ Cardinality(list) <= starter.free
                                   /\ starter' = [starter EXCEPT !.at = "sort", !.list = list]
    BY <1>6, Zenon DEF StarterClaim
  <2>2. starter.at = "claim" /\ UNCHANGED <<slots, run>>
    BY <1>6 DEF StarterClaim
  <2>3. starter'.at = "sort" /\ starter'.free = starter.free /\ starter'.list = list /\ starter'.keep = {}
    BY <1>1, <1>4, <2>1, <2>2 DEF StarterInv
  <2>4. Active' = Active /\ Reserved' = list
    BY <1>3, <2>2, <2>3 DEF Reserved
  <2> QED
    BY <1>2, <2>1, <2>2, <2>3, <2>4 DEF SlotsInv
<1>7. ASSUME NEW j \in Jobs, StarterSort(j) PROVE SlotsInv'
  <2>1. starter.at = "sort" /\ j \in starter.list /\ UNCHANGED <<slots, run>>
    BY <1>7 DEF StarterSort, runner
  <2>2. /\ starter'.at = "sort" /\ starter'.free = starter.free /\ starter'.list = starter.list \ {j}
        /\ starter'.keep = starter.keep \/ starter'.keep = starter.keep \cup {j}
    BY <1>4, <1>7 DEF StarterSort
  <2>3. Active' = Active /\ Reserved' \subseteq Reserved
    BY <1>3, <2>1, <2>2 DEF Reserved
  <2>4. Cardinality(Reserved') <= Cardinality(Reserved) /\ Cardinality(Reserved') \in Nat
    BY <1>2, <2>3, FS_Subset, FS_CardinalityType
  <2> QED
    BY <1>2, <2>1, <2>2, <2>3, <2>4 DEF SlotsInv
<1>8. CASE StarterGo
  <2>1. /\ starter.at = "sort" /\ starter.list = {} /\ slots' = slots - (starter.free - Cardinality(starter.keep))
        /\ run' = [i \in Jobs |-> IF i \in starter.keep THEN "check" ELSE run[i]]
        /\ starter'.at = "idle" /\ starter'.free = 0 /\ starter'.list = {} /\ starter'.keep = {}
    BY <1>8 DEF StarterGo, NoStarter, Unused
  <2>2. Reserved = starter.keep /\ Reserved' = {}
    BY <2>1 DEF Reserved
  <2>3. Active' = Active \cup Reserved
    BY <1>1, <2>1, <2>2 DEF Active, Started
  <2>4. Active \cap Reserved = {}
    BY <1>1, <2>2 DEF Active, Started, StarterInv
  <2>5. Cardinality(Active') = Cardinality(Active) + Cardinality(Reserved)
    <3>1. Cardinality(Active \cup Reserved) =
            Cardinality(Active) + Cardinality(Reserved) - Cardinality(Active \cap Reserved)
      BY <1>2, FS_Union
    <3>2. Cardinality(Active \cap Reserved) = 0
      BY <2>4, FS_EmptySet
    <3> QED
      BY <1>2, <2>3, <3>1, <3>2
  <2>6. Cardinality(Reserved') = 0
    BY <2>2, FS_EmptySet
  <2>7. slots' = Cardinality(Active')
    BY <1>2, <2>1, <2>2, <2>5 DEF SlotsInv
  <2>8. slots' <= Slots
    BY <1>2, <2>1, <2>2 DEF SlotsInv
  <2> QED
    BY <1>2, <2>1, <2>6, <2>7, <2>8 DEF SlotsInv
<1> QED
    BY <1>5, <1>6, <1>7, <1>8 DEF Starter

\* Every step keeps the slots.
LEMMA SlotsStep == RunsInv /\ SlotsInv /\ [Next]_vars => SlotsInv'
<1> SUFFICES ASSUME RunsInv, SlotsInv, [Next]_vars PROVE SlotsInv'
    OBVIOUS
<1>1. Typed /\ n \in Nat /\ 1 .. n \subseteq Jobs
    BY TableShape DEF RunsInv, Typed
<1>2. ASSUME n' = n, UNCHANGED <<slots, run, starter>> PROVE SlotsInv'
    BY <1>1, <1>2, SlotsStill DEF Started
<1>3. CASE UNCHANGED vars
    BY <1>2, <1>3 DEF vars, queue, runner, n
<1>4. CASE (\E o \in Origins : RunNow(o)) \/ TickAdd
    BY <1>1, <1>4, RunNowTyped, TickAddTyped, SlotsAdded
<1>5. ASSUME NEW d \in 1 .. Deliveries, Deliver(d) \/ Hook(d) PROVE SlotsInv'
  <2>1. UNCHANGED <<slots, run, starter>>
    BY <1>5 DEF Deliver, Hook, LookKey, LookFold, Fold, CreateHook, LookAgain, ClearDedupe, runner
  <2>2. CASE CreateHook(d)
    BY <1>1, <1>2, <2>1, <2>2, CreateTyped, SlotsAdded DEF RowsStay
  <2> QED
    BY <1>1, <1>2, <1>5, <2>1, <2>2, DeliverTyped, LookKeyTyped, LookFoldTyped, FoldTyped, ClearTyped
       DEF Hook, RowsStay
<1>6. CASE Starter
    BY <1>6, SlotsStarter
<1>7. ASSUME NEW j \in Jobs, Runs(j) PROVE SlotsInv'
    BY <1>7, SlotsRuns
<1>8. CASE Bystander
    BY <1>1, <1>2, <1>8, BystanderTyped DEF runner, RowsStay
<1>9. CASE Cancel
    BY <1>1, <1>2, <1>9, CancelTyped DEF runner, RowsStay
<1>10. CASE Restart
  <2>1. starter' = NoStarter /\ slots' = 0 /\ n' = n /\ \A i \in Jobs : run'[i] = "no"
    BY <1>1, <1>10, RestartTyped DEF Restart, RowsStay
  <2>2. Active' = {} /\ Reserved' = {} /\ starter'.free = 0
    BY <1>1, <2>1 DEF Active, Reserved, Started, NoStarter
  <2>3. Cardinality(Active') = 0 /\ Cardinality(Reserved') = 0 /\ Slots \in Nat
    BY <2>2, FS_EmptySet, LimitAssumption
  <2> QED
    BY <2>1, <2>2, <2>3 DEF SlotsInv
<1> QED
    BY <1>3, <1>4, <1>5, <1>6, <1>7, <1>8, <1>9, <1>10 DEF Next, Bystander

-----------------------------------------------------------------------------
\* One delivery goes on.
LEMMA PlacesHook ==
    ASSUME Typed, Places, NEW d \in 1 .. Deliveries, Deliver(d) \/ Hook(d)
    PROVE  \A e \in 1 .. Deliveries : hook'[e].at \in HookStages
<1>1. ASSUME NEW l \in HookStages, GoTo(d, l) PROVE \A e \in 1 .. Deliveries : hook'[e].at \in HookStages
  <2>1. hook = [e \in 1 .. Deliveries |-> hook[e]]
    BY DEF Typed, TypedOutside
  <2>2. \A e \in 1 .. Deliveries : e # d => hook'[e] = hook[e]
    BY <1>1, <2>1 DEF GoTo
  <2>3. hook'[d].at = l
    <3>1. CASE l = "over"
      BY <1>1, <2>1, <3>1 DEF GoTo, HookOver, Request
    <3>2. CASE l # "over"
      <4>1. hook[d] = [at |-> hook[d].at, origin |-> hook[d].origin, key |-> hook[d].key,
                       job |-> hook[d].job, again |-> hook[d].again]
        BY DEF Typed, TypedOutside
      <4>2. hook'[d] = [hook[d] EXCEPT !.at = l]
        BY <1>1, <2>1, <3>2 DEF GoTo
      <4> QED
        BY <4>1, <4>2
    <3> QED
      BY <3>1, <3>2
  <2> QED
    BY <1>1, <2>2, <2>3 DEF Places
<1>2. CASE Deliver(d)
    BY <1>2, DeliverTyped DEF Places, HookStages
<1>3. CASE LookKey(d)
    BY <1>1, <1>3 DEF LookKey, HookStages
<1>4. CASE LookFold(d)
    BY <1>4, LookFoldTyped DEF Places, HookStages
<1>5. CASE Fold(d)
    BY <1>1, <1>5 DEF Fold, HookStages
<1>6. CASE CreateHook(d)
    BY <1>6, CreateTyped DEF Places, HookStages
<1>7. CASE LookAgain(d)
    BY <1>1, <1>7 DEF LookAgain, HookStages
<1>8. CASE ClearDedupe(d)
    BY <1>8, ClearTyped DEF Places, HookStages
<1> QED
    BY <1>2, <1>3, <1>4, <1>5, <1>6, <1>7, <1>8 DEF Hook

\* Every step leaves everyone at a place there is.
LEMMA PlacesStep == Typed /\ Places /\ [Next]_vars => Places'
<1> SUFFICES ASSUME Typed, Places, [Next]_vars PROVE Places'
    OBVIOUS
<1>1. UNCHANGED starter \/ starter'.at \in {"idle", "claim", "sort"}
  <2>1. starter = [at |-> starter.at, free |-> starter.free, left |-> starter.left,
                   list |-> starter.list, keep |-> starter.keep]
    BY DEF Typed, TypedStarter
  <2>2. CASE Starter \/ Restart
    <3>1. CASE StarterReserve \/ StarterGo \/ Restart
      BY <3>1 DEF StarterReserve, StarterGo, Restart, NoStarter
    <3>2. CASE StarterClaim
      <4>1. PICK list : starter' = [starter EXCEPT !.at = "sort", !.list = list]
        BY <3>2, Zenon DEF StarterClaim
      <4> QED
        BY <2>1, <4>1
    <3>3. CASE \E j \in Jobs : StarterSort(j)
      BY <2>1, <3>3 DEF StarterSort
    <3> QED
      BY <2>2, <3>1, <3>2, <3>3 DEF Starter
  <2>3. CASE (\E j \in Jobs : Runs(j) \/ Comes(j) \/ Ages(j) \/ HourPasses(j) \/ CancelLook(j))
    BY <2>3, RunsOthers DEF Comes, Ages, HourPasses, CancelLook
  <2>4. CASE Cancel
    BY <2>4 DEF Cancel, CancelPending, CancelAgain, CancelRunning, CancelRecord
  <2>5. CASE \E d \in 1 .. Deliveries : Deliver(d) \/ Hook(d)
    BY <2>5 DEF Deliver, Hook, LookKey, LookFold, Fold, CreateHook, LookAgain, ClearDedupe
  <2>6. CASE (\E o \in Origins : RunNow(o) \/ TickLook(o)) \/ TickAdd \/ UNCHANGED vars
    BY <2>6 DEF RunNow, TickLook, TickAdd, vars
  <2> QED
    BY <2>2, <2>3, <2>4, <2>5, <2>6 DEF Next
<1>2. \A d \in 1 .. Deliveries : hook'[d].at \in HookStages
  <2>1. CASE \E d \in 1 .. Deliveries : Deliver(d) \/ Hook(d)
    BY <2>1, PlacesHook
  <2>2. CASE Restart
    BY <2>2, RestartTyped DEF Places, HookStages
  <2>3. CASE UNCHANGED hook
    BY <2>3 DEF Places
  <2>4. CASE (\E o \in Origins : RunNow(o) \/ TickLook(o)) \/ TickAdd \/ UNCHANGED vars
    BY <2>3, <2>4 DEF RunNow, TickLook, TickAdd, vars, outside
  <2>5. CASE Starter \/ Cancel
    BY <2>3, <2>5, CancelTyped DEF Starter, StarterReserve, StarterClaim, StarterSort, StarterGo, outside
  <2>6. CASE (\E j \in Jobs : Runs(j) \/ Comes(j) \/ Ages(j) \/ HourPasses(j) \/ CancelLook(j))
    BY <2>3, <2>6, RunsOthers DEF Comes, Ages, HourPasses, CancelLook, outside
  <2> QED
    BY <2>1, <2>2, <2>4, <2>5, <2>6 DEF Next
<1>3. cancel'.at \in {"idle", "pending", "again", "running", "record"}
  <2>1. CASE UNCHANGED cancel
    BY <2>1 DEF Places
  <2>2. CASE (\E o \in Origins : RunNow(o) \/ TickLook(o)) \/ TickAdd \/ UNCHANGED vars
    BY <2>1, <2>2 DEF RunNow, TickLook, TickAdd, vars, outside
  <2>3. CASE Starter
    BY <2>1, <2>3 DEF Starter, StarterReserve, StarterClaim, StarterSort, StarterGo, outside
  <2>4. CASE (\E j \in Jobs : Runs(j) \/ Comes(j) \/ Ages(j) \/ HourPasses(j) \/ CancelLook(j))
    BY <2>1, <2>4, RunsOthers DEF Comes, Ages, HourPasses, CancelLook, outside
  <2>5. CASE \E d \in 1 .. Deliveries : Deliver(d) \/ Hook(d)
    BY <2>1, <2>5 DEF Deliver, Hook, LookKey, LookFold, Fold, CreateHook, LookAgain, ClearDedupe
  <2>6. CASE Cancel \/ Restart
    <3>1. cancel = [at |-> cancel.at, job |-> cancel.job, raced |-> cancel.raced]
      BY DEF Typed, TypedOutside
    <3>2. CASE cancel' = NoCancel
      BY <3>2 DEF NoCancel
    <3>3. CASE cancel' = [cancel EXCEPT !.at = "again", !.raced = TRUE]
      BY <3>1, <3>3
    <3>4. CASE cancel' = [cancel EXCEPT !.at = "running"] \/ cancel' = [cancel EXCEPT !.at = "record"]
      BY <3>1, <3>4
    <3> QED
      BY <2>6, <3>2, <3>3, <3>4, Zenon
         DEF Cancel, CancelPending, CancelAgain, CancelRunning, CancelRecord, Restart
  <2> QED
    BY <2>2, <2>3, <2>4, <2>5, <2>6 DEF Next
<1>4. tries' \in [Jobs -> 0 .. MaxTries]
  <2>1. CASE UNCHANGED tries
    BY <2>1 DEF Places
  <2>2. ASSUME NEW j \in Jobs, SettleBusy(j) PROVE tries' \in [Jobs -> 0 .. MaxTries]
    <3>1. CASE tries[j] < MaxTries /\ tries' = [tries EXCEPT ![j] = @ + 1]
      <4>1. tries[j] + 1 \in 0 .. MaxTries
        BY <3>1, LimitAssumption DEF Places
      <4> QED
        BY <3>1, <4>1 DEF Places
    <3> QED
      BY <2>1, <2>2, <3>1 DEF SettleBusy
  <2>3. ASSUME NEW j \in Jobs, Runs(j) PROVE tries' \in [Jobs -> 0 .. MaxTries]
    BY <2>1, <2>2, <2>3 DEF Runs, Check, Limit, Skip, Script, ScriptEnd,
       Send, Answer, SettleBusy, Put, Timeout, Settle, Finish, Record, Leave
  <2>4. CASE (\E o \in Origins : RunNow(o) \/ TickLook(o)) \/ TickAdd \/ UNCHANGED vars
    BY <2>1, <2>4 DEF RunNow, TickLook, TickAdd, vars, runner
  <2>5. CASE Starter \/ Restart
    BY <2>1, <2>5 DEF Starter, StarterReserve, StarterClaim, StarterSort, StarterGo, Restart, runner
  <2>6. CASE (\E j \in Jobs : Comes(j) \/ Ages(j) \/ HourPasses(j) \/ CancelLook(j)) \/ Cancel
    BY <2>1, <2>6 DEF Comes, Ages, HourPasses, CancelLook, runner,
       Cancel, CancelPending, CancelAgain, CancelRunning, CancelRecord
  <2>7. CASE \E d \in 1 .. Deliveries : Deliver(d) \/ Hook(d)
    BY <2>1, <2>7 DEF Deliver, Hook, LookKey, LookFold, Fold, CreateHook, LookAgain, ClearDedupe, runner
  <2> QED
    BY <2>3, <2>4, <2>5, <2>6, <2>7 DEF Next
<1> QED
    BY <1>1, <1>2, <1>3, <1>4 DEF Places

-----------------------------------------------------------------------------
\* At the start nothing is due and no slot is taken.
LEMMA InitTypes == Init => TypeInv
<1> SUFFICES ASSUME Init PROVE TypeInv
    OBVIOUS
<1>1. n = 0 /\ due = <<>>
    BY DEF Init, n
<1>2. RunsInv
    BY InitTyped, InitOnce DEF RunsInv
<1>3. RoomInv
  <2> SUFFICES ASSUME NEW o \in Origins PROVE RoomOf(o)
    BY DEF RoomInv
  <2>1. busy[o] = 0 /\ starter.at = "idle" /\ Parallel[o] \in Nat
    BY LimitAssumption DEF Init, NoStarter
  <2>2. RunsOf(o) = {}
    BY <1>1 DEF RunsOf, Of
  <2> QED
    BY <2>1, <2>2, FS_EmptySet DEF RoomOf
<1>4. Due
  <2>1. <<>> \in Seq(1 .. n) /\ IsInjective(<<>>)
    BY DEF IsInjective
  <2> QED
    BY <1>1, <2>1 DEF Due
<1>5. SlotsInv
  <2>1. Active = {} /\ Reserved = {} /\ slots = 0 /\ starter.free = 0 /\ Slots \in Nat
    BY <1>1, LimitAssumption DEF Active, Reserved, Init, NoStarter
  <2> QED
    BY <2>1, FS_EmptySet DEF SlotsInv
<1>6. Places
    BY LimitAssumption DEF Init, Places, NoStarter, NoHook, Request, NoCancel, HookStages
<1> QED
    BY <1>2, <1>3, <1>4, <1>5, <1>6, InitHour DEF TypeInv

\* TypeOK: of the runner's counts above all.  No more than Slots runs go on at
\* once, no count falls below nothing, and no job is due twice (StartReady,
\* Claim, Debounce).
THEOREM TypesHold == Spec => []TypeOK
<1>1. TypeInv /\ [Next]_vars => TypeInv'
  <2> SUFFICES ASSUME TypeInv, [Next]_vars PROVE TypeInv'
    OBVIOUS
  <2>1. RunsInv' /\ RoomInv' /\ HourInv' /\ SlotsInv'
    BY OnceStep, RoomStep, HourStep, SlotsStep DEF TypeInv, RunsInv
  <2>2. Due' /\ Places'
    BY DueStep, DueKept, PlacesStep DEF TypeInv, RunsInv
  <2> QED
    BY <2>1, <2>2 DEF TypeInv
<1>2. TypeInv => TypeOK
  <2> SUFFICES ASSUME TypeInv PROVE TypeOK
    OBVIOUS
  <2>1. Typed /\ Due /\ SlotsInv /\ Places
    BY DEF TypeInv, RunsInv
  <2>2. busy \in [Origins -> Nat]
    <3> SUFFICES ASSUME NEW o \in Origins PROVE busy[o] \in Nat
      BY <2>1 DEF Typed, TypedRuns
    <3>1. Cardinality(RunsOf(o)) \in Nat
      BY <2>1, SomeJobs DEF RunsOf, Of
    <3> QED
      BY <3>1 DEF TypeInv, RoomInv, RoomOf
  <2>3. slots \in 0 .. Slots
    BY <2>1, SlotsShape DEF SlotsInv
  <2>4. old \in 0 .. n /\ since \in [Jobs -> 0 .. n]
    <3>1. n \in Nat /\ old \in 0 .. n /\ since \in [Jobs -> 0 .. old]
      BY <2>1, TableShape DEF Typed, TypeInv, HourInv
    <3>2. 0 .. old \subseteq 0 .. n
      BY <3>1
    <3> QED
      BY <3>1, <3>2
  <2> QED
    BY <2>1, <2>2, <2>3, <2>4 DEF TypeOK, Typed, TypedJobs, TypedRuns, TypedStarter, TypedOutside,
       Due, SlotsInv, Places, HookStages
<1> QED
    BY <1>1, <1>2, InitTypes, PTL DEF Spec
=============================================================================
