------------------------------- MODULE Lists -------------------------------
(***************************************************************************)
(* Rows that a statement deletes from a list kept in order (chat_queued,   *)
(* the jobs that are due).                                                 *)
(***************************************************************************)
EXTENDS Integers, Sequences

\* What is left of s once the elements in M are gone, in its order.  (A
\* recursive function, so that it can be reasoned about.)
Without(s, M) ==
    LET left[i \in 0 .. Len(s)] ==
            IF i = 0 THEN <<>>
            ELSE IF s[i] \in M THEN left[i - 1]
            ELSE Append(left[i - 1], s[i])
    IN  left[Len(s)]
=============================================================================
