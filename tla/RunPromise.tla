----------------------------- MODULE RunPromise -----------------------------
(***************************************************************************)
(* What a chat that calls a workflow is promised (chat/workflow_call.go):  *)
(* the workflow runs as a function call.  It ends once, its end stands,    *)
(* and the chat hears that end once; if office goes down first, the chat   *)
(* gets no answer.                                                         *)
(***************************************************************************)

Ends == {"done", "failed", "stopped"}

VARIABLES
    end,      \* how the run ended, "running" before
    answer    \* what its caller heard, "none" before

Init == end = "running" /\ answer = "none"

End == end = "running" /\ end' \in Ends /\ UNCHANGED answer

Answer == end \in Ends /\ answer = "none" /\ answer' = end /\ UNCHANGED end

\* The call dies with office, whatever the run came to.
Interrupt == answer = "none" /\ answer' = "lost" /\ UNCHANGED end

Next == End \/ Answer \/ Interrupt

Spec == Init /\ [][Next]_<<end, answer>>
=============================================================================
