-------------------------- MODULE ObservationLog ---------------------------
(***************************************************************************)
(* What forward_observation.py promises an evaluation: one log of closed   *)
(* bars per symbol that only grows, and that a violation freezes for good  *)
(* ("append_only_per_symbol_sha256_chain", the protocol of the plan).      *)
(***************************************************************************)
EXTENDS Naturals, Sequences

CONSTANTS Symbols, Contents

VARIABLES
    log,      \* per symbol, the contents of its bars in order
    frozen    \* per symbol, whether it is quarantined

Init ==
    /\ log = [s \in Symbols |-> <<>>]
    /\ frozen = [s \in Symbols |-> FALSE]

Extends(longer, shorter) ==
    /\ longer \in Seq(Contents)
    /\ Len(shorter) <= Len(longer)
    /\ \A i \in DOMAIN shorter : longer[i] = shorter[i]

\* A line, a day or a month of one symbol.
Observe(s) ==
    /\ ~frozen[s]
    /\ Extends(log'[s], log[s])
    /\ log' = [log EXCEPT ![s] = log'[s]]
    /\ UNCHANGED frozen

Quarantine(s) ==
    /\ frozen' = [frozen EXCEPT ![s] = TRUE]
    /\ UNCHANGED log

Next == \E s \in Symbols : Observe(s) \/ Quarantine(s)

Spec == Init /\ [][Next]_<<log, frozen>>
============================================================================
