------------------------------- MODULE MCStudyRun -------------------------------
EXTENDS StudyRun, TLC

(* Closed trades by watermark: a position that is liquidated at one end of   *)
(* the data is still open at a later one, so the count is not monotone.      *)
MCClosed == [w \in 0 .. 3 |-> CASE w = 0 -> 0 [] w = 1 -> 2 [] w = 2 -> 1 [] w = 3 -> 3]

Symmetry == Permutations(Runs)
=============================================================================
