----------------------------- MODULE MCWorkflow -----------------------------
(* Workflow for TLC. *)
EXTENDS Workflow

CONSTANTS r1, r2, r3

MCVoters == <<r1, r3>>
MCNoVote == <<>>
MCRefusable == {r1, Coord}

\* Two branches at once, one of them an agent's, joined by a check before the end.
Fork ==
    LET S == {"ask", "split", "code", "check", "end"}
    IN  [steps |-> S, start |-> <<"split">>,
         kind |-> [s \in S |-> CASE s = "ask" -> "agent" [] s = "split" -> "branch"
                                 [] s = "end" -> "end" [] OTHER -> "work"],
         next |-> [s \in S |-> CASE s = "split" -> {<<"ask", "check", "code">>, <<"code">>}
                                 [] s = "ask" -> {<<"check">>} [] s = "code" -> {<<"check">>}
                                 [] s = "check" -> {<<"end">>} [] OTHER -> {}],
         else |-> [s \in S |-> IF s = "check" THEN <<"end">> ELSE <<>>],
         role |-> [s \in S |-> "writer"],
         goesOn |-> [s \in S |-> s = "code"],
         loops |-> [s \in S |-> 5]]

\* A draft that is judged and written again, two agents' steps of one role,
\* and a loop the two of them wait in for each other.
Loop ==
    LET S == {"draft", "test", "judge", "end"}
    IN  [steps |-> S, start |-> <<"draft", "test">>,
         kind |-> [s \in S |-> CASE s = "judge" -> "branch" [] s = "end" -> "end" [] OTHER -> "agent"],
         next |-> [s \in S |-> CASE s = "draft" -> {<<"judge">>} [] s = "test" -> {<<"judge">>}
                                 [] s = "judge" -> {<<"draft", "test">>, <<"end">>, <<>>} [] OTHER -> {}],
         else |-> [s \in S |-> <<>>],
         role |-> [s \in S |-> "writer"],
         goesOn |-> [s \in S |-> s = "test"],
         loops |-> [s \in S |-> 1]]

MCGraphs == {Fork, Loop}
=============================================================================
