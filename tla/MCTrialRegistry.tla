-------------------------- MODULE MCTrialRegistry --------------------------
(* The TLC instance of TrialRegistry.  Processes are interchangeable.      *)
EXTENDS TrialRegistry, TLC

Interchangeable == Permutations(Processes)
============================================================================
