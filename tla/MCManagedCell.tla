--------------------------- MODULE MCManagedCell ---------------------------
(* A TLC instance of ManagedCell and CellReplay.                           *)
EXTENDS CellReplay

\* An intent decided at the close of candle d, eligible some ticks later.
After(d, wait, expires, holding) ==
    [decision |-> Closes(d), eligible |-> Closes(d) + wait, expires |-> expires,
     holding |-> holding]

Latencies == {[latency |-> 0, exitLatency |-> 0, grace |-> 0],
              [latency |-> 2, exitLatency |-> 1, grace |-> 1],
              [latency |-> 1, exitLatency |-> 2, grace |-> 1]}

\* Two intents for one open, one that follows a trade, one that comes too late.
IntentLists ==
    {<<After(0, 1, 4, 1), After(0, 1, 4, 2)>>,
     <<After(0, 1, 4, 1), After(1, 1, 3, 1), After(1, 1, 6, 1)>>,
     <<After(0, 1, 4, 2), After(2, 1, 8, 1)>>,
     <<After(4, 1, 20, 1), After(5, 3, 20, 1)>>}

FewSetups ==
    {[intents |-> l, latency |-> p.latency, exitLatency |-> p.exitLatency, grace |-> p.grace] :
        l \in IntentLists, p \in Latencies}
============================================================================
