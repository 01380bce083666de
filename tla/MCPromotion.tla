------------------------------ MODULE MCPromotion ------------------------------
(* The TLC instance of Promotion: plans that differ in their purge, their    *)
(* horizon and the place of their windows, and sealed registries that each   *)
(* break one rule.                                                           *)
EXTENDS Promotion

Trial(config, growth, data) == [config |-> config, ok |-> TRUE, growth |-> growth, data |-> data]
Failed(config, data) == [config |-> config, ok |-> FALSE, growth |-> 0, data |-> data]
Sealed(is, fold, trials, chosen) ==
  [over |-> [is |-> is, fold |-> fold], trials |-> trials, chosen |-> chosen, binds |-> TRUE]

MCContents ==
  << Sealed("selection", 0, <<Trial("a", 2, 0), Trial("b", 2, 0)>>, 1),
     Sealed("selection", 0, <<Trial("a", 2, 0), Trial("b", 2, 0)>>, 2),  \* not the earliest
     Sealed("selection", 0, <<Trial("a", 2, 9), Trial("b", 1, 9)>>, 1),  \* other data, same trial
     Sealed("selection", 0, <<Trial("a", 0, 0), Trial("b", 0, 0)>>, 0),  \* all below the floor
     Sealed("selection", 0, <<Trial("a", 2, 0), Failed("b", 0)>>, 1),    \* one failed
     Sealed("training", 1, <<Trial("c", 1, 1), Trial("d", 3, 1)>>, 2),
     Sealed("training", 2, <<Trial("c", 1, 2), Trial("d", 1, 2)>>, 1),
     Sealed("purge", 1, <<Trial("c", 1, 3), Trial("d", 3, 3)>>, 2) >>    \* up to the test

MCFinal == <<"a", "b">>
MCNested == <<"c", "d">>

MCPlans ==
  {[selection |-> Window("selection", 0, 2), nested |-> Window("robustness", start, 12),
    blind |-> Window("blind", blind, blind + 2),
    origin |-> start, first |-> start + 3, folds |-> 2, train |-> 1, test |-> 2,
    purge |-> purge, holding |-> holding, label |-> 1, latency |-> 1] :
     start \in {2, 4}, purge \in {1, 2}, holding \in {1, 3}, blind \in {12, 14}}
=============================================================================
