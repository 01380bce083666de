-------------------------- MODULE MCForwardLedger --------------------------
(* A TLC instance of ForwardLedger.                                        *)
EXTENDS ForwardLedger

CONSTANTS Collector, Operator

\* Archives are imported and synchronised beside lines and verifications.
EveryCommand == [p \in Processes |-> IF p = Collector THEN {"sync", "collect", "import"}
                                     ELSE {"line", "verify"}]

CollectsAndLines == [p \in Processes |-> IF p = Collector THEN {"collect"} ELSE {"line"}]

\* Every minute says "up", but for one that the strategy waits for.
Archives == [s \in Symbols |-> [m \in 0..(LastDay * DayLength - 1) |->
                IF s = 1 /\ m = 3 THEN "down" ELSE "up"]]

\* A bar that agrees with the archive and one that contradicts it.
SubmittedLines == {[symbol |-> 2, minute |-> 2, content |-> "up"],
                   [symbol |-> 1, minute |-> 3, content |-> "up"]}

DaysAskedFor == {<<0, 1>>, <<0, 2>>}

Turns == {<<"up", "down">>, <<"up", "up">>}
============================================================================
