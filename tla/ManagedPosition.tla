-------------------------- MODULE ManagedPosition --------------------------
(***************************************************************************)
(* barrier_engine.py: one managed position.  A caller feeds it completed   *)
(* candles with on_candle and settles the exit decisions it returns with   *)
(* apply_exit_fill.  Prices and quantities are integers; candle b opens at *)
(* time 2b and closes at 2b+1, and the entry is the open of candle 0.  A   *)
(* call that a check rejects leaves the state as it was and is no step.    *)
(***************************************************************************)
EXTENDS Integers, Sequences

CONSTANTS
    Prices,       \* the prices a candle may touch
    Plans,        \* the exit plans an intent may carry
    Quantity,     \* the quantity of the entry fill
    MaxBars,      \* bound: candles the history holds
    None          \* no decision, no reason

Stops == {"STOP_LOSS", "TRAILING_STOP"}
Reasons == Stops \cup {"TAKE_PROFIT", "TIMEOUT"}

Plan == [long : BOOLEAN, stop : Nat \ {0}, target : Nat \ {0}, holding : Nat \ {0},
         trails : BOOLEAN, activation : Int, distance : Nat \ {0}]

Decision == [sequence : Nat \ {0}, from : Nat, until : Nat, reference : Nat \ {0},
             requested : 1..Quantity, reason : Reasons, ambiguous : BOOLEAN]

Position ==
    [plan : Plans, entry : Nat \ {0}, remaining : 0..Quantity, filled : 0..Quantity,
     stop : Nat \ {0}, stopReason : Stops, trailing : BOOLEAN,
     mae : Nat, mfe : Nat, bar : -1..MaxBars,
     pending : BOOLEAN, reason : Reasons \cup {None}, ambiguous : BOOLEAN,
     decision : Decision \cup {None}, sequence : Nat, closed : BOOLEAN]

ASSUME PositionBounds ==
    /\ Prices \subseteq Nat \ {0}
    /\ Plans \subseteq Plan
    /\ Quantity \in Nat \ {0}
    /\ MaxBars \in Nat
    /\ None \notin Decision \cup Reasons
    /\ None \notin [reason : Reasons, ambiguous : BOOLEAN]
    /\ None \notin [from : Nat, until : Nat]

VARIABLES
    state,        \* ManagedPositionState
    record,       \* the trade record of a closed position, or None
    raised,       \* on_candle raised on its own computation
    closes,       \* history: the close of every candle the position survived
    fills         \* history: the fills applied so far

vars == <<state, record, raised, closes, fills>>

Opens(b) == 2 * b
Closes(b) == 2 * b + 1

Candles == {c \in [open : Prices, low : Prices, high : Prices, close : Prices] :
                /\ c.low <= c.open /\ c.open <= c.high
                /\ c.low <= c.close /\ c.close <= c.high}

Max2(a, b) == IF a > b THEN a ELSE b

\* a is at b or further in the direction that makes money.
Reaches(s, a, b) == IF s.plan.long THEN a >= b ELSE a <= b
Beyond(s, a, b) == IF s.plan.long THEN a > b ELSE a < b
Worst(s, c) == IF s.plan.long THEN c.low ELSE c.high
Best(s, c) == IF s.plan.long THEN c.high ELSE c.low
Gain(s, price) == IF s.plan.long THEN price - s.entry ELSE s.entry - price

Init ==
    /\ \E p \in Plans, e \in Prices :
        /\ IF p.long THEN p.stop < e /\ e < p.target ELSE p.target < e /\ e < p.stop
        /\ state = [plan |-> p, entry |-> e, remaining |-> Quantity, filled |-> 0,
                    stop |-> p.stop, stopReason |-> "STOP_LOSS", trailing |-> FALSE,
                    mae |-> 0, mfe |-> 0, bar |-> -1,
                    pending |-> FALSE, reason |-> None, ambiguous |-> FALSE,
                    decision |-> None, sequence |-> 0, closed |-> FALSE]
    /\ record = None
    /\ raised = FALSE
    /\ closes = <<>>
    /\ fills = <<>>

StopCrossed(s, price) == Reaches(s, s.stop, price)
TargetCrossed(s, price) == Reaches(s, price, s.plan.target)

BarHitsStop(s, c) == StopCrossed(s, Worst(s, c))
BarHitsTarget(s, c) == TargetCrossed(s, Best(s, c))

UpdateExcursions(s, worst, best) ==
    [s EXCEPT !.mae = Max2(@, -Gain(s, worst) * s.remaining),
              !.mfe = Max2(@, Gain(s, best) * s.remaining)]

\* Bug: only a candle the position survives updates the excursions.
ObserveNothing(s, price) == s

\* A single observed price is both the worst and the best of the candle.
Observe(s, price) == UpdateExcursions(s, price, price)

RequestExit(s, from, reference, reason, ambiguous) ==
    [s EXCEPT !.pending = TRUE,
              !.reason = reason,
              !.ambiguous = @ \/ ambiguous,
              !.sequence = @ + 1,
              !.decision = [sequence |-> s.sequence + 1, from |-> from,
                            until |-> Closes(s.bar), reference |-> reference,
                            requested |-> s.remaining, reason |-> reason,
                            ambiguous |-> ambiguous]]

\* Where the trailing stop would stand after a close, and whether it trails.
Candidate(s, close) ==
    IF s.plan.long THEN close - s.plan.distance ELSE close + s.plan.distance
Activated(s, close) ==
    s.plan.trails /\ (s.trailing \/ Reaches(s, close, s.plan.activation))

\* Bug: the trailing stop is the latest candidate, better or not.
TrailLoosely(s, close) ==
    IF ~Activated(s, close) THEN s
    ELSE [s EXCEPT !.trailing = TRUE, !.stop = Candidate(s, close),
                   !.stopReason = "TRAILING_STOP"]

UpdateTrailingAtClose(s, close) ==
    IF ~Activated(s, close) THEN s
    ELSE IF ~Beyond(s, Candidate(s, close), s.stop) THEN [s EXCEPT !.trailing = TRUE]
    ELSE [s EXCEPT !.trailing = TRUE, !.stop = Candidate(s, close),
                   !.stopReason = "TRAILING_STOP"]

\* What on_candle makes of the state before it looks at prices.
Seen(b) == [state EXCEPT !.bar = b, !.decision = None]

ValidCandle(b) ==
    /\ ~state.closed
    /\ ~raised
    /\ IF state.bar = -1 THEN b = 0 ELSE b > state.bar

Asks(s) == state' = s /\ UNCHANGED <<record, raised, closes, fills>>

Pending(b, c) ==
    /\ state.pending
    /\ Asks(RequestExit(Observe(Seen(b), c.open), Opens(b), c.open,
                        state.reason, state.ambiguous))

\* A stop gap fills at the adverse open.
StopAtOpen(b, c) ==
    /\ ~state.pending
    /\ StopCrossed(state, c.open)
    /\ Asks(RequestExit(Observe(Seen(b), c.open), Opens(b), c.open, state.stopReason, FALSE))

\* A target gap keeps the target price.
TargetAtOpen(b, c) ==
    /\ ~state.pending
    /\ ~StopCrossed(state, c.open)
    /\ TargetCrossed(state, c.open)
    /\ Asks(RequestExit(Observe(Seen(b), c.open), Opens(b), state.plan.target,
                        "TAKE_PROFIT", FALSE))

InsideAtOpen(c) ==
    /\ ~state.pending
    /\ ~StopCrossed(state, c.open)
    /\ ~TargetCrossed(state, c.open)

\* Bug: the candle at the deadline may still be held.
ExpiredLate(b) == b > state.plan.holding

Expired(b) == b >= state.plan.holding

Timeout(b, c) ==
    /\ InsideAtOpen(c)
    /\ Expired(b)
    /\ Asks(RequestExit(Observe(Seen(b), c.open), Opens(b), c.open, "TIMEOUT", FALSE))

StopInBar(b, c) ==
    /\ InsideAtOpen(c) /\ ~Expired(b)
    /\ BarHitsStop(state, c)
    /\ Asks(RequestExit(Observe(Seen(b), state.stop), Closes(b), state.stop,
                        state.stopReason, BarHitsTarget(state, c)))

TargetInBar(b, c) ==
    /\ InsideAtOpen(c) /\ ~Expired(b)
    /\ ~BarHitsStop(state, c)
    /\ BarHitsTarget(state, c)
    /\ Asks(RequestExit(Observe(Seen(b), state.plan.target), Closes(b), state.plan.target,
                        "TAKE_PROFIT", FALSE))

Survives(b, c) ==
    /\ InsideAtOpen(c) /\ ~Expired(b)
    /\ ~BarHitsStop(state, c)
    /\ ~BarHitsTarget(state, c)

\* The candidate must be a price even when it would not improve the stop.
CandidateFails(c) == Activated(state, c.close) /\ Candidate(state, c.close) <= 0

Hold(b, c) ==
    /\ Survives(b, c)
    /\ ~CandidateFails(c)
    /\ state' = UpdateTrailingAtClose(
                    UpdateExcursions(Seen(b), Worst(state, c), Best(state, c)), c.close)
    /\ closes' = Append(closes, c.close)
    /\ UNCHANGED <<record, raised, fills>>

Raise(b, c) ==
    /\ Survives(b, c)
    /\ CandidateFails(c)
    /\ raised' = TRUE
    /\ UNCHANGED <<state, record, closes, fills>>

OnCandle ==
    \E b \in 0..MaxBars, c \in Candles :
        /\ ValidCandle(b)
        /\ \/ Pending(b, c) \/ StopAtOpen(b, c) \/ TargetAtOpen(b, c) \/ Timeout(b, c)
           \/ StopInBar(b, c) \/ TargetInBar(b, c) \/ Hold(b, c) \/ Raise(b, c)

\* The state after a fill of q; the decision it used is spent.
Filled(s, q) ==
    [s EXCEPT !.remaining = @ - q, !.filled = @ + q, !.decision = None,
              !.pending = q # s.remaining, !.closed = q = s.remaining]

ApplyExitFill ==
    /\ state.pending /\ ~state.closed /\ ~raised
    /\ state.decision # None
    /\ \E q \in 1..state.remaining, t \in state.decision.from..state.decision.until :
        /\ state' = Filled(state, q)
        /\ fills' = Append(fills, [decision |-> state.decision.sequence,
                                   at |-> t, quantity |-> q])
        /\ record' = IF q = state.remaining
                     THEN [reason |-> state.decision.reason,
                           ambiguous |-> state.ambiguous]
                     ELSE None
    /\ UNCHANGED <<raised, closes>>

Next == OnCandle \/ ApplyExitFill

Spec == Init /\ [][Next]_vars
-----------------------------------------------------------------------------
\* The position, its record and the caller's histories are well typed.
TypeOK ==
    /\ state \in Position
    /\ record \in [reason : Reasons, ambiguous : BOOLEAN] \cup {None}
    /\ raised \in BOOLEAN
    /\ closes \in Seq(Nat \ {0})
    /\ fills \in Seq([decision : Nat \ {0}, at : Nat, quantity : 1..Quantity])

\* The survived closes from the first that reached the activation price on.
Trailed ==
    {i \in DOMAIN closes :
        /\ state.plan.trails
        /\ \E j \in 1..i : Reaches(state, closes[j], state.plan.activation)}

\* The stop in force is the best of the plan's stop and the candidates of the
\* closes since activation, and it is a trailing stop exactly when it moved:
\* the incremental update at each close (496-526) loses and invents nothing.
StopFollowsCloses ==
    /\ state.trailing <=> Trailed # {}
    /\ ~Beyond(state, state.plan.stop, state.stop)
    /\ \A i \in Trailed : ~Beyond(state, Candidate(state, closes[i]), state.stop)
    /\ state.stop # state.plan.stop =>
           \E i \in Trailed : state.stop = Candidate(state, closes[i])
    /\ state.stopReason = "TRAILING_STOP" <=> state.stop # state.plan.stop

\* A position nobody has asked to exit lies strictly between the stop that now
\* protects it and its target, also after the stop moved at the close, so no
\* candle is survived with a barrier already crossed (256-318).
OpenBetweenBarriers ==
    LET last == IF closes = <<>> THEN state.entry ELSE closes[Len(closes)]
    IN  ~state.pending /\ ~state.closed =>
            Beyond(state, last, state.stop) /\ Beyond(state, state.plan.target, last)

\* The price a fill is offered at never lies outside the excursions recorded
\* for the position, whichever barrier, gap or retry made the offer (243-316).
OfferWithinExcursions ==
    state.decision # None =>
        LET gain == Gain(state, state.decision.reference) * state.decision.requested
        IN  -gain <= state.mae /\ gain <= state.mfe

\* Every decision is filled at most once and fills move forward in time: a
\* decision is spent by its fill and retries only come with later candles
\* (337-338, 363).
FillsFollowDecisions ==
    \A i, j \in DOMAIN fills :
        i < j => fills[i].decision < fills[j].decision /\ fills[i].at < fills[j].at

\* The position as its owner sees it: the record speaks once it is closed.
Exit == INSTANCE ExitRequest WITH
    NoWhy <- None,
    NoOffer <- None,
    phase <- IF state.closed THEN "closed" ELSE IF state.pending THEN "pending" ELSE "open",
    why <- IF state.closed THEN record
           ELSE IF state.pending
           THEN [reason |-> state.reason, ambiguous |-> state.ambiguous]
           ELSE None,
    remaining <- state.remaining,
    offer <- IF state.decision = None THEN None
             ELSE [from |-> state.decision.from, until |-> state.decision.until],
    bar <- state.bar,
    deadline <- state.plan.holding

\* Candles, gaps, partial fills and retries keep the promise of ExitRequest:
\* one reason from the first decision to the trade record, no exit asked for
\* later than the deadline and none reversed (docstring, 146-151).
ImplementsExitRequest == Exit!Spec
============================================================================
