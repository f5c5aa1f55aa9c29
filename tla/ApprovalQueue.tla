--------------------------- MODULE ApprovalQueue ---------------------------
(***************************************************************************)
(* What internal/chat/order.go promises about the proposals of a chat,     *)
(* with no handler, goroutine or row in sight: each agent's proposals run  *)
(* in the order it made them, each once at most; one approved too early    *)
(* waits; what is decided stays decided.  Those under way when office goes *)
(* down are asked for once more.                                           *)
(***************************************************************************)
EXTENDS Naturals

CONSTANTS Cards,    \* numbers: a card with a smaller one was made earlier
          Agents,
          NoOne,    \* the agent of a card nobody made
          SelfRun   \* agents that may run a card of theirs in no order

VARIABLES by,      \* whose card it is
          state    \* none, pending, queued, running, done, rejected

Init ==
    /\ by = [c \in Cards |-> NoOne]
    /\ state = [c \in Cards |-> "none"]

Move(c, from, to) ==
    /\ state[c] \in from
    /\ state' = [state EXCEPT ![c] = to]
    /\ by' = by

\* Everything the agent of c made before c is decided.
Turn(c) == \A d \in Cards : d < c /\ by[d] = by[c] => state[d] \in {"done", "rejected"}

Make(c, a) ==
    /\ state[c] = "none" /\ \A d \in Cards : d < c => state[d] # "none"
    /\ state' = [state EXCEPT ![c] = "pending"]
    /\ by' = [by EXCEPT ![c] = a]

Run(c) == Turn(c) /\ Move(c, {"pending", "queued"}, "running")
RunSelf(c) == by[c] \in SelfRun /\ Move(c, {"pending"}, "running")
Queue(c) == Move(c, {"pending"}, "queued")
Reject(c) == Move(c, {"pending", "queued"}, "rejected")
Finish(c) == Move(c, {"running"}, "done")

\* Office goes down: each agent may have one that runs.
Cut == \E as \in [Cards -> {"pending", "queued"}] :
    /\ state' = [c \in Cards |-> IF state[c] = "running" THEN as[c] ELSE state[c]]
    /\ by' = by

Next ==
    \/ \E c \in Cards :
        \/ \E a \in Agents : Make(c, a)
        \/ Run(c) \/ RunSelf(c) \/ Queue(c) \/ Reject(c) \/ Finish(c)
    \/ Cut

Spec == Init /\ [][Next]_<<by, state>>
=============================================================================
