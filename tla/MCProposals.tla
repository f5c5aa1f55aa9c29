---------------------------- MODULE MCProposals ----------------------------
(* Proposals for TLC: symmetry of the people on the dashboard, sound in the *)
(* runs that check safety only.                                             *)
EXTENDS Proposals, TLC

People2 == Permutations(Dashes)
=============================================================================
