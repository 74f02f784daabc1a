---------------------------- MODULE MCTurnClaim ----------------------------
(***************************************************************************)
(* Small instances of TurnClaim: two or three turns of one conversation.   *)
(***************************************************************************)
EXTENDS TurnClaim, TLC

\* The turns a user may stop differ in nothing else.
TurnSymmetry == Permutations(Stoppable)
=============================================================================
