------------------------------- MODULE MCJobs -------------------------------
(* Jobs for TLC: a script with two runs at a time, a chat with one. *)
EXTENDS Jobs, TLC

CONSTANTS check, ask

TwoAndOne == [o \in Origins |-> IF o = check THEN 2 ELSE 1]
OneOfEach == [o \in Origins |-> 1]
KeysAlike == Permutations(Keys)
NoLimit == [o \in Origins |-> 0]
=============================================================================
