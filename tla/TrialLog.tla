----------------------------- MODULE TrialLog ------------------------------
(***************************************************************************)
(* What trial_registry.py promises a researcher: a log of trials that only *)
(* grows and is frozen once by one outcome, or else is known to be         *)
(* damaged.  After the outcome is sealed a rollback can never pass for the *)
(* log itself; before that it can ("the seal detects", lines 3-6).         *)
(***************************************************************************)
EXTENDS Naturals, Sequences, SequencesExt

CONSTANT NoOutcome

VARIABLES
    trials,    \* the status of every trial, in order
    outcome,   \* the sealed selection or rejection, or NoOutcome
    trusted    \* the registry still passes its own verification

Init ==
    /\ trials = <<>>
    /\ outcome = NoOutcome
    /\ trusted = TRUE

Open == trusted /\ outcome = NoOutcome

Attempt ==
    /\ Open
    /\ \E status \in {"SUCCESS", "FAILURE"} : trials' = Append(trials, status)
    /\ UNCHANGED <<outcome, trusted>>

Select ==
    /\ Open
    /\ \E i \in DOMAIN trials : /\ trials[i] = "SUCCESS"
                                /\ outcome' = [kind |-> "SELECTION", ref |-> i]
    /\ UNCHANGED <<trials, trusted>>

RejectAll ==
    /\ Open
    /\ trials # <<>>
    /\ outcome' = [kind |-> "REJECTION", ref |-> Len(trials)]
    /\ UNCHANGED <<trials, trusted>>

\* A process dies half-way, or someone rolls the registry back.
Damage ==
    /\ trusted' = FALSE
    /\ IsPrefix(trials', trials)
    /\ outcome = NoOutcome \/ outcome' = outcome

\* An unsealed log that is rolled back may pass for a shorter one.
UndetectedRollback ==
    /\ outcome = NoOutcome
    /\ IsPrefix(trials', trials)
    /\ trusted' = TRUE
    /\ UNCHANGED outcome

Next == Attempt \/ Select \/ RejectAll \/ Damage \/ UndetectedRollback

Spec == Init /\ [][Next]_<<trials, outcome, trusted>>
============================================================================
