-------------------------------- MODULE Jobs --------------------------------
(***************************************************************************)
(* The runs of automations: the jobs table as their queue                  *)
(* (storage/sqlite/jobs.go), the webhooks, schedules and people that add   *)
(* to it and the runner that claims jobs and carries them out              *)
(* (trigger/runner.go), a person cancelling one (api/jobs.go) and office   *)
(* starting again (cmd/office/run.go).                                     *)
(*                                                                         *)
(* The store has one connection and no transaction spans two statements:   *)
(* each statement is a step.  So is what is done under r.mu, and what a    *)
(* run does to its chat.                                                   *)
(***************************************************************************)
EXTENDS Lists, SequencesExt, FiniteSets, FiniteSetsExt

CONSTANTS
    Origins,      \* automations
    Scheduled,    \* those with a schedule; the others have a webhook
    Scripts,      \* those that run a script; the others send to a chat
    Debounced,    \* those whose deliveries fold into a run that waits
    Parallel,     \* Automation.Parallel, for each
    MaxRuns,      \* Limits.MaxRunsPerHour, for each (0: no limit)
    Newest,       \* the most jobs that List gives, from the newest on (200)
    Slots,        \* runs at once, office wide
    MaxTries,     \* busyTimeout: after so many waits of busyRetry it has passed
    Keys,         \* what tells a delivery from another (dedupe_key)
    Deliveries,   \* bound: deliveries to the webhooks, 1 .. so many
    MaxJobs,      \* bound: jobs
    ByHand,       \* bound: the automations people run by hand
    MayDisable,   \* bound: those that failed often enough to be turned off by one more
    MaxEvents     \* bound: cancels, times office goes down and steps of the clock, together

Jobs == 1 .. MaxJobs
None == 0                 \* no job, no delivery
NoKey == "no key"

ASSUME OriginAssumption ==
    /\ Scheduled \subseteq Origins /\ Scripts \subseteq Origins
    /\ Debounced \subseteq Origins \ Scheduled /\ NoKey \notin Keys
ASSUME LimitAssumption ==
    /\ Slots \in Nat \ {0} /\ MaxTries \in Nat
    /\ Parallel \in [Origins -> Nat \ {0}]
    /\ MaxRuns \in [Origins -> Nat] /\ Newest \in Nat
ASSUME BoundAssumption ==
    /\ Deliveries \in Nat /\ MaxJobs \in Nat /\ MaxEvents \in Nat
    /\ ByHand \subseteq Origins /\ MayDisable \subseteq Origins

VARIABLES
    job,      \* the jobs table (stored)
    due,      \* the waiting jobs whose time has come, in the order of next_attempt_at
    aged,     \* jobs older than the dedupe window
    old,      \* the latest job that was made over an hour ago (None: none was)
    enabled,  \* automations that are on (stored)
    starter,  \* StartReady, by whoever holds startMu: what it read and claimed
    slots,    \* slots taken
    busy,     \* how many runs of an automation there are
    run,      \* where the goroutine of a job is
    copy,     \* the payload it read
    since,    \* what was old when it read the clock
    tick,     \* the automation whose time has come, looked at by Tick
    hook,     \* a delivery: where its request is, what it is, the job it found
    cancel,   \* a person's cancel: where it is, what it read
    events,   \* how many of these there were
    sent,     \* the key a job was made with (never cleared)
    tries,    \* how often the chat of a job was busy
    ran       \* how often a job's content was started: its script, its agent

queue == <<job, due, aged, old, enabled, sent>>
runner == <<slots, busy, run, copy, tries, since, ran>>
outside == <<tick, hook, cancel, events>>
vars == <<queue, starter, runner, outside>>

n == Len(job)             \* jobs so far

Open == {"pending", "running"}
Final == {"done", "failed", "cancelled", "skipped"}
Job == [origin : Origins, trigger : {"webhook", "schedule", "manual"}, key : Keys \cup {NoKey},
        status : Open \cup Final, chat : BOOLEAN, payload : 0 .. Deliveries]
Stages == {"no", "check", "limit", "skip", "script", "ran", "send", "answering",
           "busy", "put", "timeout", "settle", "finish", "record", "leave"}
Started(j) == run[j] # "no"

NoStarter == [at |-> "idle", free |-> 0, left |-> [o \in Origins |-> 0], list |-> {}, keep |-> {}]
Request(at, o, key) == [at |-> at, origin |-> o, key |-> key, job |-> None, again |-> FALSE]
NoHook == Request("idle", None, NoKey)
NoCancel == [at |-> "idle", job |-> None, raced |-> FALSE]

TypeOK ==
    /\ job \in Seq(Job) /\ n <= MaxJobs
    /\ due \in Seq(1 .. n) /\ IsInjective(due)
    /\ aged \subseteq 1 .. n /\ old \in 0 .. n
    /\ enabled \subseteq Origins
    /\ starter.at \in {"idle", "claim", "sort"} /\ starter.free \in 0 .. Slots
    /\ starter.list \subseteq 1 .. n /\ starter.keep \subseteq 1 .. n
    /\ slots \in 0 .. Slots
    /\ busy \in [Origins -> Nat]
    /\ run \in [Jobs -> Stages] /\ \A j \in Jobs : Started(j) => j <= n
    /\ copy \in [Jobs -> 0 .. Deliveries] /\ since \in [Jobs -> 0 .. n]
    /\ tick \in Origins \cup {None}
    /\ \A d \in 1 .. Deliveries : hook[d].at \in
          {"idle", "look", "fold", "folding", "create", "again", "clear", "over"}
    /\ cancel.at \in {"idle", "pending", "again", "running", "record"}
    /\ sent \in [Jobs -> Keys \cup {NoKey}]
    /\ tries \in [Jobs -> 0 .. MaxTries] /\ ran \in [Jobs -> Nat]

Init ==
    /\ job = <<>> /\ due = <<>> /\ aged = {} /\ old = None /\ enabled = Origins
    /\ starter = NoStarter
    /\ slots = 0 /\ busy = [o \in Origins |-> 0]
    /\ run = [j \in Jobs |-> "no"] /\ copy = [j \in Jobs |-> None]
    /\ since = [j \in Jobs |-> None]
    /\ tick = None
    /\ hook = [d \in 1 .. Deliveries |-> NoHook]
    /\ cancel = NoCancel /\ events = 0
    /\ sent = [j \in Jobs |-> NoKey] /\ tries = [j \in Jobs |-> 0] /\ ran = [j \in Jobs |-> 0]

Status(j) == job[j].status
SetStatus(j, s) == job' = [job EXCEPT ![j].status = s]
Move(j, stage) == run' = [run EXCEPT ![j] = stage]
Happens == events < MaxEvents /\ events' = events + 1
Of(o) == {j \in 1 .. n : job[j].origin = o}

-----------------------------------------------------------------------------
(* What adds to the queue. *)

\* A row of the table; it is due at once, unless it waits for more deliveries.
Create(o, trigger, key, d, waits) ==
    /\ n < MaxJobs
    /\ job' = Append(job, [origin |-> o, trigger |-> trigger, key |-> key,
                           status |-> "pending", chat |-> FALSE, payload |-> d])
    /\ due' = IF waits THEN due ELSE Append(due, n + 1)
    /\ sent' = [sent EXCEPT ![n + 1] = key]

\* A person runs an automation now: limits and "off" are not asked.
RunNow(o) ==
    /\ o \in ByHand
    /\ Create(o, "manual", NoKey, None, FALSE)
    /\ UNCHANGED <<aged, old, enabled, starter, runner, outside>>

\* Tick: a schedule whose time has come is left when as many runs as it may
\* have are waiting or running.
TickLook(o) ==
    /\ tick = None /\ o \in enabled \cap Scheduled
    /\ Cardinality({j \in Of(o) : Status(j) \in Open}) < Parallel[o]
    /\ tick' = o
    /\ UNCHANGED <<queue, starter, runner, hook, cancel, events>>
TickAdd ==
    /\ tick # None
    /\ Create(tick, "schedule", NoKey, None, FALSE)
    /\ tick' = None
    /\ UNCHANGED <<aged, old, enabled, starter, runner, hook, cancel, events>>

At(d, l) == hook[d].at = l
\* "over": queued, folded, a duplicate, refused, or lost.
HookOver == Request("over", None, NoKey)
GoTo(d, l) == hook' = [hook EXCEPT ![d] = IF l = "over" THEN HookOver ELSE [@ EXCEPT !.at = l]]

SameKey(d) == {j \in Of(hook[d].origin) : job[j].key = hook[d].key}

Deliver(d) ==
    /\ At(d, "idle")
    /\ \E o \in enabled \ Scheduled, k \in Keys :
          hook' = [hook EXCEPT ![d] = Request("look", o, k)]
    /\ UNCHANGED <<queue, starter, runner, tick, cancel, events>>

\* ByDedupe: one like it came within the window.
Repeated(d) == SameKey(d) \ aged # {}
LookKey(d) ==
    /\ At(d, "look")
    /\ GoTo(d, IF Repeated(d) THEN "over" ELSE IF hook[d].origin \in Debounced THEN "fold" ELSE "create")
    /\ UNCHANGED <<queue, starter, runner, tick, cancel, events>>

\* ByDebounce: the run that waits, the latest one.
Waits(j) == Status(j) = "pending"
LookFold(d) ==
    /\ At(d, "fold")
    /\ LET waiting == {j \in Of(hook[d].origin) : Waits(j) /\ job[j].trigger = "webhook"} IN
       hook' = IF waiting = {} THEN [hook EXCEPT ![d].at = "create"]
               ELSE [hook EXCEPT ![d].at = "folding", ![d].job = Max(waiting)]
    /\ UNCHANGED <<queue, starter, runner, tick, cancel, events>>

\* Debounce: only while it waits; its time moves on, but not past the most it
\* may wait.
FoldsAny(j) == TRUE
Folds(j) == Status(j) = "pending"
Fold(d) ==
    /\ At(d, "folding")
    /\ LET j == hook[d].job IN
       IF Folds(j)
       THEN /\ job' = [job EXCEPT ![j].payload = d]
            /\ due' \in {due, Without(due, {j})}
            /\ GoTo(d, "over")
       ELSE GoTo(d, "create") /\ UNCHANGED <<job, due>>
    /\ UNCHANGED <<aged, old, enabled, sent, starter, runner, tick, cancel, events>>

\* create: the unique index of keys; a key that is older than the window is
\* freed, once.
ConflictsNever(d) == FALSE
Conflicts(d) == SameKey(d) # {}
CreateHook(d) ==
    /\ At(d, "create")
    /\ LET waits == hook[d].origin \in Debounced IN
       \/ /\ ~Conflicts(d)
          /\ Create(hook[d].origin, "webhook", hook[d].key, d, waits)
          /\ GoTo(d, "over")
       \/ /\ Conflicts(d)
          /\ GoTo(d, "again")
          /\ UNCHANGED <<job, due, sent>>
    /\ UNCHANGED <<aged, old, enabled, starter, runner, tick, cancel, events>>
LookAgain(d) ==
    /\ At(d, "again")
    /\ GoTo(d, IF Repeated(d) THEN "over" ELSE IF hook[d].again THEN "over" ELSE "clear")
    /\ UNCHANGED <<queue, starter, runner, tick, cancel, events>>
ClearDedupe(d) ==
    /\ At(d, "clear")
    /\ job' = [j \in 1 .. n |-> IF j \in SameKey(d) THEN [job[j] EXCEPT !.key = NoKey] ELSE job[j]]
    /\ hook' = [hook EXCEPT ![d].at = "create", ![d].again = TRUE]
    /\ UNCHANGED <<due, aged, old, enabled, sent, starter, runner, tick, cancel, events>>

-----------------------------------------------------------------------------
(* Time. *)

\* next_attempt_at comes: for a job put back, long after its run has left.
Comes(j) ==
    /\ j <= n /\ Status(j) = "pending" /\ ~Started(j) /\ ~Contains(due, j)
    /\ due' = Append(due, j)
    /\ UNCHANGED <<job, aged, old, enabled, sent, starter, runner, outside>>
\* The dedupe window of a job's key passes.
Ages(j) ==
    /\ j <= n /\ job[j].key # NoKey /\ j \notin aged /\ Happens
    /\ aged' = aged \cup {j}
    /\ UNCHANGED <<job, due, old, enabled, sent, starter, runner, tick, hook, cancel>>
\* A job, and those made before it, were made over an hour ago, which is longer
\* than that window.  (It matters to a limit alone.)
HourPasses(j) ==
    /\ j \in old + 1 .. n /\ Happens
    /\ \E o \in Origins : MaxRuns[o] > 0
    /\ old' = j /\ aged' = aged \cup 1 .. j
    /\ UNCHANGED <<job, due, enabled, sent, starter, runner, tick, hook, cancel>>

-----------------------------------------------------------------------------
(* StartReady, under startMu: when a job was added, when a run leaves and     *)
(* every 15 seconds.                                                       *)

\* The slots are reserved first; what each automation may still run is read.
StarterReserve ==
    /\ starter.at = "idle" /\ slots < Slots
    /\ slots' = Slots
    /\ starter' = [at |-> "claim", free |-> Slots - slots, left |-> [o \in Origins |-> Parallel[o] - busy[o]],
                   list |-> {}, keep |-> {}]
    /\ UNCHANGED <<queue, busy, run, copy, tries, since, ran, outside>>

\* Claim: as many of the jobs that are due as there are slots, the first of
\* them, not those of an automation with no room, run from now on.
Claimable(j) == Status(j) = "pending" /\ ~Started(j) /\ starter.left[job[j].origin] > 0
Can == {j \in 1 .. n : Contains(due, j) /\ Claimable(j)}
\* i's time came before j's.
Before(i, j) == \E a, b \in DOMAIN due : a < b /\ due[a] = i /\ due[b] = j
StarterClaim ==
    /\ starter.at = "claim"
    /\ \E list \in SUBSET Can :
          /\ Cardinality(list) <= starter.free
          /\ Cardinality(list) = starter.free \/ list = Can
          /\ \A j \in list : \A i \in Can \ list : ~Before(i, j)
          /\ starter' = [starter EXCEPT !.at = "sort", !.list = list]
          /\ job' = [j \in 1 .. n |-> IF j \in list THEN [job[j] EXCEPT !.status = "running"] ELSE job[j]]
          /\ copy' = [j \in Jobs |-> IF j \in list THEN job[j].payload ELSE copy[j]]
    /\ UNCHANGED <<due, aged, old, enabled, sent, slots, busy, run, tries, since, ran, outside>>

\* One of them after the other, in any order: RETURNING gives none.  Those
\* beyond what their automation may run are put back.
Taken(o) == Cardinality({j \in starter.keep : job[j].origin = o})
OverNever(j) == FALSE
Over(j) == Taken(job[j].origin) >= starter.left[job[j].origin]
StarterSort(j) ==
    /\ starter.at = "sort" /\ j \in starter.list
    /\ IF Over(j)
       THEN /\ SetStatus(j, "pending")
            /\ starter' = [starter EXCEPT !.list = @ \ {j}]
       ELSE /\ starter' = [starter EXCEPT !.list = @ \ {j}, !.keep = @ \cup {j}]
            /\ UNCHANGED job
    /\ UNCHANGED <<due, aged, old, enabled, sent, runner, outside>>

\* The slots that nobody needs are given back; the others' runs begin.
UnusedAll == starter.free
Unused == starter.free - Cardinality(starter.keep)
StarterGo ==
    /\ starter.at = "sort" /\ starter.list = {}
    /\ slots' = slots - Unused
    /\ busy' = [o \in Origins |-> busy[o] + Taken(o)]
    /\ run' = [j \in Jobs |-> IF j \in starter.keep THEN "check" ELSE run[j]]
    /\ due' = Without(due, starter.keep)
    /\ starter' = NoStarter
    /\ UNCHANGED <<job, aged, old, enabled, sent, copy, tries, since, ran, outside>>

-----------------------------------------------------------------------------
(* execute: a run, to its end. *)

Content(j) == IF job[j].origin \in Scripts THEN "script" ELSE "send"
Asked(j) == job[j].trigger = "manual"
Stay(j) == UNCHANGED <<due, aged, old, enabled, sent, starter, slots, busy, outside>>

Check(j) ==
    /\ run[j] = "check"
    /\ Move(j, IF ~Asked(j) /\ job[j].origin \notin enabled THEN "skip"
               ELSE IF ~Asked(j) /\ MaxRuns[job[j].origin] > 0 THEN "limit" ELSE Content(j))
    /\ since' = [since EXCEPT ![j] = old]
    /\ UNCHANGED <<job, copy, tries, ran>> /\ Stay(j)

\* List: the automation's jobs made after a time, no more than the newest ones.
Newer(j) == {i \in Of(job[j].origin) : i > j}
Recent(o, time) == {j \in Of(o) : j > time /\ Cardinality(Newer(j)) < Newest}
\* MaxRunsPerHour: the others of the last hour that were not skipped.
\* (Mistake: those that have ended.)
OverRunsEnded(j) ==
    Cardinality({i \in Recent(job[j].origin, since[j]) \ {j} : Status(i) \in Final \ {"skipped"}})
        >= MaxRuns[job[j].origin]
OverRuns(j) ==
    Cardinality({i \in Recent(job[j].origin, since[j]) \ {j} : Status(i) # "skipped"})
        >= MaxRuns[job[j].origin]
Limit(j) ==
    /\ run[j] = "limit"
    /\ Move(j, IF OverRuns(j) THEN "skip" ELSE Content(j))
    /\ UNCHANGED <<job, copy, tries, since, ran>> /\ Stay(j)
Skip(j) ==
    /\ run[j] = "skip"
    /\ SetStatus(j, "skipped") /\ Move(j, "leave")
    /\ UNCHANGED <<copy, tries, since, ran>> /\ Stay(j)

\* runScriptJob
Script(j) ==
    /\ run[j] = "script"
    /\ Move(j, "ran") /\ ran' = [ran EXCEPT ![j] = @ + 1]
    /\ UNCHANGED <<job, copy, tries, since>> /\ Stay(j)
ScriptEnd(j) ==
    /\ run[j] = "ran"
    /\ \E s \in {"done", "failed"} : SetStatus(j, s)
    /\ Move(j, "record")
    /\ UNCHANGED <<copy, tries, since, ran>> /\ Stay(j)

\* RunChat: the chat takes the message (beginJob: StartIfRunning, so that a
\* cancel made meanwhile stands), is busy, or it does not go.
Starts(j) == Status(j) = "running"
Send(j) ==
    /\ run[j] = "send"
    /\ \/ /\ Starts(j)
          /\ job' = [job EXCEPT ![j].chat = TRUE]
          /\ Move(j, "answering") /\ ran' = [ran EXCEPT ![j] = @ + 1]
       \/ /\ \E stage \in {"busy", "settle"} : Move(j, stage)
          /\ UNCHANGED <<job, ran>>
    /\ UNCHANGED <<copy, tries, since>> /\ Stay(j)
\* endJob: FinishIfRunning.  An answer that is stopped meanwhile ends as one of
\* these too: with what it has, or cancelled.
Answer(j) ==
    /\ run[j] = "answering"
    /\ IF Status(j) # "running" THEN UNCHANGED job
       ELSE \E s \in {"done", "failed", "cancelled"} : SetStatus(j, s)
    /\ Move(j, "settle")
    /\ UNCHANGED <<copy, tries, since, ran>> /\ Stay(j)

\* settle.  A busy one is put back, for at most busyTimeout.
SettleBusy(j) ==
    /\ run[j] = "busy"
    /\ \/ Move(j, "timeout") /\ UNCHANGED tries
       \/ /\ tries[j] < MaxTries
          /\ Move(j, "put") /\ tries' = [tries EXCEPT ![j] = @ + 1]
    /\ copy' = [copy EXCEPT ![j] = job[j].payload]
    /\ UNCHANGED <<job, since, ran>> /\ Stay(j)
Put(j) ==
    /\ run[j] = "put"
    /\ job' = [job EXCEPT ![j].status = "pending", ![j].payload = copy[j]]
    /\ Move(j, "leave")
    /\ UNCHANGED <<copy, tries, since, ran>> /\ Stay(j)
Timeout(j) ==
    /\ run[j] = "timeout"
    /\ SetStatus(j, "failed") /\ Move(j, "leave")
    /\ UNCHANGED <<copy, tries, since, ran>> /\ Stay(j)
\* One that its chat ended is left as it is.
Settle(j) ==
    /\ run[j] = "settle"
    /\ Move(j, IF Status(j) \in Open THEN "finish" ELSE "record")
    /\ UNCHANGED <<job, copy, tries, since, ran>> /\ Stay(j)
Finish(j) ==
    /\ run[j] = "finish"
    /\ \E s \in {"done", "failed"} : SetStatus(j, s)
    /\ Move(j, "record")
    /\ UNCHANGED <<copy, tries, since, ran>> /\ Stay(j)

\* RecordRun: too many failures (a stopped run is one) turn the automation off.
Record(j) ==
    /\ run[j] = "record"
    /\ \/ enabled' = enabled
       \/ job[j].origin \in MayDisable /\ Status(j) \in {"failed", "cancelled"} /\ enabled' = enabled \ {job[j].origin}
    /\ Move(j, "leave")
    /\ UNCHANGED <<job, due, aged, old, sent, starter, slots, busy, copy, tries, since, ran, outside>>

\* Its slot is free: the next one is looked for.
FreedNever == slots
Freed == slots - 1
Leave(j) ==
    /\ run[j] = "leave"
    /\ Move(j, "no")
    /\ busy' = [busy EXCEPT ![job[j].origin] = @ - 1]
    /\ slots' = Freed
    /\ copy' = [copy EXCEPT ![j] = None] /\ since' = [since EXCEPT ![j] = None]
    /\ UNCHANGED <<queue, starter, tries, ran, outside>>

-----------------------------------------------------------------------------
(* cancelJob, and office starting again. *)

\* Get: one that waits, or a chat's that runs; another one is refused.
Stoppable(j) == Status(j) = "running" /\ job[j].origin \notin Scripts /\ job[j].chat
CancelLook(j) ==
    /\ cancel.at = "idle" /\ Happens /\ j <= n
    /\ Status(j) = "pending" \/ Stoppable(j)
    /\ cancel' = [at |-> IF Stoppable(j) THEN "running" ELSE "pending", job |-> j, raced |-> FALSE]
    /\ UNCHANGED <<queue, starter, runner, tick, hook>>
\* FinishIfPending
StillPendingAny(j) == TRUE
StillPending(j) == Status(j) = "pending"
CancelPending ==
    /\ cancel.at = "pending"
    /\ IF StillPending(cancel.job)
       THEN SetStatus(cancel.job, "cancelled") /\ cancel' = NoCancel
       ELSE cancel' = [cancel EXCEPT !.at = "again", !.raced = TRUE] /\ UNCHANGED job
    /\ UNCHANGED <<due, aged, old, enabled, sent, starter, runner, tick, hook, events>>
\* A claim won: it runs now.
CancelAgain ==
    /\ cancel.at = "again"
    /\ cancel' = IF Stoppable(cancel.job) THEN [cancel EXCEPT !.at = "running"] ELSE NoCancel
    /\ UNCHANGED <<queue, starter, runner, tick, hook, events>>
\* TurnByJob: the turn is stopped; the run of one that has none may be about to
\* begin, after a claim, or over.
CancelRunning ==
    /\ cancel.at = "running"
    /\ cancel' = IF run[cancel.job] = "answering" \/ cancel.raced THEN NoCancel
                 ELSE [cancel EXCEPT !.at = "record"]
    /\ UNCHANGED <<queue, starter, runner, tick, hook, events>>
\* FinishIfRunning
CancelRecord ==
    /\ cancel.at = "record"
    /\ cancel' = NoCancel
    /\ IF Status(cancel.job) = "running" THEN SetStatus(cancel.job, "cancelled") ELSE UNCHANGED job
    /\ UNCHANGED <<due, aged, old, enabled, sent, starter, runner, tick, hook, events>>

\* Office is gone and back: FailRunning, before the runner.  Requests are lost.
CutAgain == "pending"
Cut == "failed"
Restart ==
    /\ Happens
    /\ job' = [j \in 1 .. n |-> IF Status(j) = "running" THEN [job[j] EXCEPT !.status = Cut] ELSE job[j]]
    /\ due' = Without(due, {j \in ToSet(due) : Status(j) # "pending"})
    /\ starter' = NoStarter
    /\ slots' = 0 /\ busy' = [o \in Origins |-> 0]
    /\ run' = [j \in Jobs |-> "no"] /\ copy' = [j \in Jobs |-> None] /\ since' = [j \in Jobs |-> None]
    /\ tick' = None /\ cancel' = NoCancel
    /\ hook' = [d \in 1 .. Deliveries |-> IF hook[d].at \in {"look", "fold", "folding", "create", "again", "clear"}
                                          THEN HookOver ELSE hook[d]]
    /\ UNCHANGED <<aged, old, enabled, sent, tries, ran>>

-----------------------------------------------------------------------------
Hook(d) == LookKey(d) \/ LookFold(d) \/ Fold(d) \/ CreateHook(d) \/ LookAgain(d) \/ ClearDedupe(d)
Starter == StarterReserve \/ StarterClaim \/ (\E j \in Jobs : StarterSort(j)) \/ StarterGo
Runs(j) ==
    \/ Check(j) \/ Limit(j) \/ Skip(j) \/ Script(j) \/ ScriptEnd(j)
    \/ Send(j) \/ Answer(j)
    \/ SettleBusy(j) \/ Put(j) \/ Timeout(j) \/ Settle(j) \/ Finish(j)
    \/ Record(j) \/ Leave(j)
Cancel == CancelPending \/ CancelAgain \/ CancelRunning \/ CancelRecord

Next ==
    \/ \E o \in Origins : RunNow(o) \/ TickLook(o)
    \/ TickAdd
    \/ \E d \in 1 .. Deliveries : Deliver(d) \/ Hook(d)
    \/ Starter
    \/ \E j \in Jobs : Runs(j) \/ Comes(j) \/ Ages(j) \/ HourPasses(j) \/ CancelLook(j)
    \/ Cancel
    \/ Restart

Spec == Init /\ [][Next]_vars

\* Goroutines run, time passes, and an answer ends in the end.
Fairness ==
    /\ WF_vars(Starter)
    /\ \A j \in Jobs : WF_vars(Runs(j)) /\ WF_vars(Comes(j))

FairSpec == Spec /\ Fairness

-----------------------------------------------------------------------------
(* Properties. *)

\* "they may not run side by side" beyond Automation.Parallel: the count of an
\* automation's runs, read before the claim, and the claim agree.
ParallelKept == \A o \in Origins : Cardinality({j \in Of(o) : Started(j)}) <= Parallel[o]

\* A job's script or agent is started once: also after the chat was busy, a
\* failure, a retry of the claim or a restart of office.
RunsOnce == \A j \in Jobs : ran[j] <= 1

\* A cancelled job stays so and nothing of it is started.
CancelStands == [][ \A j \in 1 .. n :
    Status(j) = "cancelled" => Status(j)' = "cancelled" /\ ran'[j] = ran[j] ]_vars

\* "only while it waits: once started, this delivery gets its own run": what
\* was folded into a run is what it runs with.
FoldedRuns == \A j \in 1 .. n : Status(j) = "running" => copy[j] = job[j].payload

\* MaxRunsPerHour, as far as the code keeps it: of an automation's newest jobs
\* (200), those made within the last hour, no more than that are started,
\* however many are carried out at once and ask for the others (execute).  What
\* it does not bound is what starts within an hour: jobs that waited longer
\* than one are not counted, nor are those behind 200 newer ones, skipped ones
\* included.
RunsKept == \A o \in Origins :
    MaxRuns[o] > 0 => Cardinality({j \in Recent(o, old) : ran[j] > 0 /\ ~Asked(j)}) <= MaxRuns[o]

\* A job that is made ends, whatever it waits for.
Ends == \A j \in Jobs : []<>(j <= n => Status(j) \in Final)

\* "Two identical deliveries at once meet the unique index: the second is a
\* duplicate of the first" (create), while no job made with that key is older
\* than the dedupe window: none is lost to that window's ClearDedupe.
OneEach == \A i, j \in 1 .. n :
    /\ i # j /\ job[i].origin = job[j].origin
    /\ sent[i] = sent[j] /\ sent[i] # NoKey
    => \E k \in aged : job[k].origin = job[i].origin /\ sent[k] = sent[i]
=============================================================================
