------------------------- MODULE MCQueueCoordinator -------------------------
(***************************************************************************)
(* Small helpers for TLC: two cards over two photos.                       *)
(***************************************************************************)
EXTENDS QueueCoordinator, TLC

MCItemId == 1..LastItem
MCPhoto == 1..2
MCConfig == {[photoCount |-> 1, concurrency |-> 1, autoAnalyze |-> TRUE]}
MCTwoCards == {[photoCount |-> 2, concurrency |-> 1, autoAnalyze |-> TRUE]}
MCConfigs == {[photoCount |-> n, concurrency |-> 1, autoAnalyze |-> TRUE] : n \in 1..2}
MCLostRuns == {{}, {1}}
Symmetry == Permutations(DecisionId) \cup Permutations(Persister)
=============================================================================
