------------------------ MODULE MCManagedPosition --------------------------
EXTENDS ManagedPosition

FewPrices == 1..5
TwoWayPlans ==
    {[long |-> TRUE, stop |-> 1, target |-> 5, holding |-> 3,
      trails |-> TRUE, activation |-> 3, distance |-> 1],
     [long |-> TRUE, stop |-> 1, target |-> 4, holding |-> 2,
      trails |-> TRUE, activation |-> 2, distance |-> 2],
     [long |-> FALSE, stop |-> 5, target |-> 1, holding |-> 3,
      trails |-> TRUE, activation |-> 3, distance |-> 1],
     [long |-> FALSE, stop |-> 4, target |-> 2, holding |-> 1,
      trails |-> FALSE, activation |-> 0, distance |-> 1]}
============================================================================
