-------------------------- MODULE MCResearchRecovery --------------------------
(* Any supervisor and any process number does for any other: the run looks at *)
(* safety alone.                                                              *)
EXTENDS ResearchRecovery, TLC

Interchangeable == Permutations(Supervisors) \cup Permutations(Processes)
================================================================================
