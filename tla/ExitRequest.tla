---------------------------- MODULE ExitRequest ----------------------------
(***************************************************************************)
(* What barrier_engine.py promises the owner of a position: it is open     *)
(* until one candle asks for an exit, asked for no later than the deadline *)
(* ("Once an exit is pending, subsequent candles only create retry         *)
(* decisions", lines 149-150), then pending for that one reason until      *)
(* fills have taken the whole quantity, each against its own offer.        *)
(***************************************************************************)
EXTENDS Integers

CONSTANTS
    Quantity,     \* what the position holds at entry
    NoWhy,        \* no exit has been asked for
    NoOffer       \* nothing can be filled now

VARIABLES
    phase,        \* "open", "pending" or "closed"
    why,          \* the reason and the ambiguity of the exit
    remaining,    \* what is not yet sold
    offer,        \* from when until when a fill is valid
    bar,          \* the last candle consumed
    deadline      \* the first candle that may not leave the position open

vars == <<phase, why, remaining, offer, bar, deadline>>

Stops == {"STOP_LOSS", "TRAILING_STOP"}
Opens(b) == 2 * b
Closes(b) == 2 * b + 1

\* An offer at the open of a candle, or one learned when it has closed.
AtOpen(b) == [from |-> Opens(b), until |-> Closes(b)]
AtClose(b) == [from |-> Closes(b), until |-> Closes(b)]

Init ==
    /\ phase = "open"
    /\ why = NoWhy
    /\ remaining = Quantity
    /\ offer = NoOffer
    /\ bar = -1
    /\ deadline \in Nat \ {0}

\* The first candle opens at the entry; later ones only move forward.
Advance == IF bar = -1 THEN bar' = 0 ELSE bar' \in Nat /\ bar' > bar

Hold ==
    /\ phase = "open"
    /\ Advance
    /\ bar' < deadline
    /\ UNCHANGED <<phase, why, remaining, offer, deadline>>

Ask ==
    /\ phase = "open"
    /\ phase' = "pending"
    /\ Advance
    /\ \E r \in Stops \cup {"TAKE_PROFIT", "TIMEOUT"}, a \in BOOLEAN :
        /\ why' = [reason |-> r, ambiguous |-> a]
        /\ offer' \in {AtOpen(bar'), AtClose(bar')}
        /\ a => r \in Stops /\ offer' = AtClose(bar')
        /\ r = "TIMEOUT" => bar' >= deadline
        /\ bar' >= deadline => offer' = AtOpen(bar')
    /\ UNCHANGED <<remaining, deadline>>

AskAgain ==
    /\ phase = "pending"
    /\ Advance
    /\ offer' = AtOpen(bar')
    /\ UNCHANGED <<phase, why, remaining, deadline>>

Fill ==
    /\ phase = "pending"
    /\ offer # NoOffer
    /\ offer' = NoOffer
    /\ \E q \in 1..remaining :
        /\ remaining' = remaining - q
        /\ phase' = IF q = remaining THEN "closed" ELSE "pending"
    /\ UNCHANGED <<why, bar, deadline>>

Next == Hold \/ Ask \/ AskAgain \/ Fill

Spec == Init /\ [][Next]_vars
============================================================================
