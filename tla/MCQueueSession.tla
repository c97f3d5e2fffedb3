--------------------------- MODULE MCQueueSession ---------------------------
(***************************************************************************)
(* A small session: one or two cards, two settings, and a revision limit   *)
(* low enough for the counter to reach it.                                 *)
(***************************************************************************)
EXTENDS QueueSession, TLC

MCConfig == {[photoCount |-> 1], [photoCount |-> 2]}
MCStageState == {"ready"}
Symmetry == Permutations(DecisionId)
=============================================================================
