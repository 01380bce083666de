----------------------- MODULE ManagedPosition_proofs -----------------------
(***************************************************************************)
(* What TLAPS proves of ManagedPosition for all prices, plans, quantities  *)
(* and histories.                                                          *)
(***************************************************************************)
EXTENDS ManagedPosition, TLAPS

\* What on_candle asks for: a single price was observed at candle b.
Asked(b, price, from, reference, reason, ambiguous) ==
    RequestExit(Observe(Seen(b), price), from, reference, reason, ambiguous)

\* An unasked position still holds everything; a decision in force is the
\* latest one, made at the last candle for the reason the position keeps.
Links ==
    /\ state.remaining + state.filled = Quantity
    /\ ~state.closed => state.remaining > 0 /\ record = None
    /\ state.closed => /\ state.remaining = 0 /\ ~state.pending
                       /\ state.decision = None /\ record # None
    /\ state.pending => state.reason # None /\ state.bar >= 0
    /\ ~state.pending /\ ~state.closed =>
          /\ state.reason = None /\ ~state.ambiguous /\ state.decision = None
          /\ state.sequence = 0 /\ state.remaining = Quantity /\ fills = <<>>
    /\ state.decision # None =>
          /\ state.pending
          /\ state.decision.sequence = state.sequence
          /\ state.decision.from \in {Opens(state.bar), Closes(state.bar)}
          /\ state.decision.until = Closes(state.bar)
          /\ state.decision.requested = state.remaining
          /\ state.decision.reason = state.reason

LEMMA Arithmetic ==
    ASSUME NEW a \in Int, NEW q \in Int
    PROVE a * q \in Int
BY SMT

LEMMA PlanFields ==
    ASSUME NEW s \in Position
    PROVE /\ s.plan.long \in BOOLEAN /\ s.plan.trails \in BOOLEAN
          /\ s.plan.stop \in Nat \ {0} /\ s.plan.target \in Nat \ {0}
          /\ s.plan.holding \in Nat \ {0}
          /\ s.plan.activation \in Int /\ s.plan.distance \in Nat \ {0}
          /\ s.entry \in Nat \ {0} /\ s.stop \in Nat \ {0}
<1>1. s.plan \in Plan
  BY PositionBounds DEF Position
<1> QED BY <1>1 DEF Position, Plan

LEMMA SeenFields ==
    ASSUME TypeOK, NEW b \in 0..MaxBars
    PROVE /\ Seen(b) \in Position
          /\ Seen(b).plan = state.plan /\ Seen(b).entry = state.entry
          /\ Seen(b).mae = state.mae /\ Seen(b).mfe = state.mfe
          /\ Seen(b).remaining = state.remaining
<1>1. b \in -1..MaxBars
  BY PositionBounds
<1>2. state \in Position
  BY DEF TypeOK
<1> QED BY <1>1, <1>2 DEF Position, Seen

LEMMA GainIsInt ==
    ASSUME TypeOK, NEW b \in 0..MaxBars, NEW price \in Int
    PROVE /\ Gain(state, price) \in Int
          /\ Gain(Seen(b), price) = Gain(state, price)
<1>1. state \in Position
  BY DEF TypeOK
<1> QED BY <1>1, PlanFields, SeenFields DEF Gain

\* Observing a price only raises the two excursions.
LEMMA ObserveFields ==
    ASSUME TypeOK, NEW b \in 0..MaxBars, NEW worst \in Int, NEW best \in Int
    PROVE LET s == UpdateExcursions(Seen(b), worst, best)
          IN  /\ s \in Position
              /\ s = [state EXCEPT !.bar = b, !.decision = None, !.mae = s.mae, !.mfe = s.mfe]
              /\ s.mae >= state.mae /\ s.mae >= -Gain(state, worst) * state.remaining
              /\ s.mfe >= state.mfe /\ s.mfe >= Gain(state, best) * state.remaining
<1> DEFINE g == Gain(state, worst) * state.remaining
           ng == -Gain(state, worst) * state.remaining
           h == Gain(state, best) * state.remaining
           s == UpdateExcursions(Seen(b), worst, best)
<1>1. /\ Seen(b) \in Position
      /\ Seen(b).mae = state.mae /\ Seen(b).mfe = state.mfe /\ Seen(b).remaining = state.remaining
  BY SeenFields
<1>2. ng \in Int /\ h \in Int
  <2>1. Gain(state, worst) \in Int /\ Gain(state, best) \in Int
    BY GainIsInt
  <2>2. state.remaining \in Int
    BY DEF TypeOK, Position
  <2>3. -Gain(state, worst) \in Int
    BY <2>1
  <2> QED BY <2>1, <2>2, <2>3, Arithmetic
<1>3. s = [Seen(b) EXCEPT !.mae = Max2(state.mae, ng), !.mfe = Max2(state.mfe, h)]
  BY <1>1, GainIsInt DEF UpdateExcursions, Position
<1>4. state.mae \in Nat /\ state.mfe \in Nat
  BY DEF TypeOK, Position
<1>5. /\ Max2(state.mae, ng) \in Nat /\ Max2(state.mae, ng) >= state.mae /\ Max2(state.mae, ng) >= ng
      /\ Max2(state.mfe, h) \in Nat /\ Max2(state.mfe, h) >= state.mfe /\ Max2(state.mfe, h) >= h
  <2> HIDE DEF ng, h
  <2> QED BY <1>2, <1>4 DEF Max2
<1>6. s.mae = Max2(state.mae, ng) /\ s.mfe = Max2(state.mfe, h)
  <2> HIDE DEF s, ng, h
  <2> QED BY <1>1, <1>3 DEF Position
<1>7. s \in Position
  <2> HIDE DEF s, ng, h
  <2> QED BY <1>1, <1>3, <1>5 DEF Position
<1>8. s = [state EXCEPT !.bar = b, !.decision = None, !.mae = s.mae, !.mfe = s.mfe]
  <2>1. state \in Position
    BY DEF TypeOK
  <2> HIDE DEF s, ng, h
  <2> QED BY <1>3, <1>6, <2>1 DEF Position, Seen
<1> HIDE DEF s, ng, h
<1> QED BY <1>5, <1>6, <1>7, <1>8 DEF s, ng, h

\* What a request for an exit leaves, field by field.
AskedShape(s, b, price, from, reference, reason, ambiguous) ==
    /\ s \in Position
    /\ s.plan = state.plan /\ s.entry = state.entry
    /\ s.remaining = state.remaining /\ s.filled = state.filled
    /\ s.stop = state.stop /\ s.stopReason = state.stopReason
    /\ s.trailing = state.trailing /\ s.bar = b /\ s.closed = state.closed
    /\ s.pending = TRUE /\ s.reason = reason
    /\ s.ambiguous = (state.ambiguous \/ ambiguous)
    /\ s.sequence = state.sequence + 1
    /\ s.decision \in Decision
    /\ s.decision = [sequence |-> state.sequence + 1, from |-> from,
                     until |-> Closes(b), reference |-> reference,
                     requested |-> state.remaining, reason |-> reason,
                     ambiguous |-> ambiguous]
    /\ s.mae >= -Gain(state, price) * state.remaining
    /\ s.mfe >= Gain(state, price) * state.remaining

LEMMA AskedFields ==
    ASSUME TypeOK, Links, ~state.closed,
           NEW b \in 0..MaxBars, NEW price \in Int, NEW from \in Nat,
           NEW reference \in Nat \ {0}, NEW reason \in Reasons, NEW ambiguous \in BOOLEAN
    PROVE AskedShape(Asked(b, price, from, reference, reason, ambiguous),
                     b, price, from, reference, reason, ambiguous)
<1> DEFINE o == Observe(Seen(b), price)
           d == [sequence |-> state.sequence + 1, from |-> from,
                 until |-> Closes(b), reference |-> reference,
                 requested |-> state.remaining, reason |-> reason,
                 ambiguous |-> ambiguous]
           s == Asked(b, price, from, reference, reason, ambiguous)
<1>0. state \in Position
  BY DEF TypeOK
<1>1. /\ o \in Position
      /\ o = [state EXCEPT !.bar = b, !.decision = None, !.mae = o.mae, !.mfe = o.mfe]
      /\ o.mae >= -Gain(state, price) * state.remaining
      /\ o.mfe >= Gain(state, price) * state.remaining
  BY ObserveFields DEF Observe
<1>2. /\ o.plan = state.plan /\ o.entry = state.entry
      /\ o.remaining = state.remaining /\ o.filled = state.filled
      /\ o.stop = state.stop /\ o.stopReason = state.stopReason
      /\ o.trailing = state.trailing /\ o.bar = b /\ o.closed = state.closed
      /\ o.ambiguous = state.ambiguous /\ o.sequence = state.sequence
  <2> HIDE DEF o
  <2> QED BY <1>0, <1>1 DEF Position
<1>3. d \in Decision
  <2>1. state.remaining \in 1..Quantity /\ state.sequence \in Nat
    BY <1>0, PositionBounds DEF Position, Links
  <2>2. Closes(b) \in Nat
    BY PositionBounds DEF Closes
  <2> QED BY <2>1, <2>2 DEF Decision
<1>4. s = [o EXCEPT !.pending = TRUE, !.reason = reason,
                    !.ambiguous = o.ambiguous \/ ambiguous,
                    !.sequence = state.sequence + 1, !.decision = d]
  <2> HIDE DEF o
  <2> QED BY <1>1, <1>2 DEF Asked, RequestExit, o, Position
<1> HIDE DEF o, d
<1>5. /\ o.sequence + 1 \in Nat /\ (o.ambiguous \/ ambiguous) \in BOOLEAN
      /\ o.sequence + 1 = state.sequence + 1
  BY <1>0, <1>1, <1>2 DEF Position
<1>6. s \in Position
  <2> DEFINE amb == o.ambiguous \/ ambiguous
             seq == state.sequence + 1
  <2>1. amb \in BOOLEAN /\ seq \in Nat /\ d \in Decision \cup {None} /\ reason \in Reasons \cup {None}
    BY <1>3, <1>5, <1>2
  <2>2. s = [o EXCEPT !.pending = TRUE, !.reason = reason, !.ambiguous = amb,
                      !.sequence = seq, !.decision = d]
    BY <1>4
  <2> HIDE DEF amb, seq, s
  <2> QED BY <1>1, <2>1, <2>2 DEF Position
<1>7. /\ s.plan = state.plan /\ s.entry = state.entry
      /\ s.remaining = state.remaining /\ s.filled = state.filled
      /\ s.stop = state.stop /\ s.stopReason = state.stopReason
      /\ s.trailing = state.trailing /\ s.bar = b /\ s.closed = state.closed
      /\ s.pending = TRUE /\ s.reason = reason
      /\ s.sequence = state.sequence + 1
      /\ s.decision = d /\ s.mae = o.mae /\ s.mfe = o.mfe
  BY <1>1, <1>2, <1>4 DEF Position
<1>8. s.ambiguous = (state.ambiguous \/ ambiguous)
  BY <1>1, <1>2, <1>4 DEF Position
<1> HIDE DEF s
<1>9. AskedShape(s, b, price, from, reference, reason, ambiguous)
  BY <1>1, <1>3, <1>6, <1>7, <1>8 DEF AskedShape, d
<1> QED BY <1>9 DEF s

\* Every exit a candle asks for, at which price and why.
Request(b, price, from, reference, reason, ambiguous) ==
    /\ Asks(Asked(b, price, from, reference, reason, ambiguous))
    /\ price \in Int /\ reference \in Nat \ {0}
    /\ from \in {Opens(b), Closes(b)}
    /\ reason \in Reasons /\ ambiguous \in BOOLEAN
    /\ state.pending =>
          reason = state.reason /\ ambiguous = state.ambiguous /\ from = Opens(b)
    /\ ~state.pending =>
          /\ ambiguous => reason \in Stops /\ from = Closes(b)
          /\ reason = "TIMEOUT" => Expired(b)
          /\ Expired(b) => from = Opens(b)
    /\ \/ reference = price
       \/ reference = state.plan.target /\ TargetCrossed(state, price)

Requested(b) ==
    \E price, from, reference, reason, ambiguous :
        Request(b, price, from, reference, reason, ambiguous)

LEMMA CandleOutcome ==
    ASSUME TypeOK, Links, OnCandle
    PROVE \E b \in 0..MaxBars :
             /\ ValidCandle(b)
             /\ Requested(b) \/ (\E c \in Candles : Hold(b, c)) \/ (\E c \in Candles : Raise(b, c))
<1>1. PICK b \in 0..MaxBars, c \in Candles :
        /\ ValidCandle(b)
        /\ \/ Pending(b, c) \/ StopAtOpen(b, c) \/ TargetAtOpen(b, c) \/ Timeout(b, c)
           \/ StopInBar(b, c) \/ TargetInBar(b, c) \/ Hold(b, c) \/ Raise(b, c)
  BY DEF OnCandle
<1>2. state \in Position
  BY DEF TypeOK
<1>3. /\ c.open \in Nat \ {0} /\ state.stop \in Nat \ {0} /\ state.plan.target \in Nat \ {0}
      /\ state.stopReason \in Stops /\ state.plan.long \in BOOLEAN
  BY <1>2, PlanFields, PositionBounds DEF Candles, Position
<1>p. c.open \in Int /\ state.plan.target \in Int
  BY <1>3
<1>t. BarHitsTarget(state, c) \in BOOLEAN
  <2>1. c.low \in Int /\ c.high \in Int
    BY PositionBounds DEF Candles
  <2>2. /\ (c.high >= state.plan.target) \in BOOLEAN
        /\ (c.low <= state.plan.target) \in BOOLEAN
    BY <1>p, <2>1
  <2>3. CASE state.plan.long
    BY <2>2, <2>3 DEF BarHitsTarget, TargetCrossed, Reaches, Best
  <2>4. CASE ~state.plan.long
    BY <2>2, <2>4 DEF BarHitsTarget, TargetCrossed, Reaches, Best
  <2> QED BY <2>3, <2>4
<1>r. /\ state.stopReason \in Reasons /\ state.stopReason # "TIMEOUT"
      /\ "TAKE_PROFIT" \in Reasons /\ "TIMEOUT" \in Reasons
  BY <1>3 DEF Stops, Reasons
<1>4. CASE Pending(b, c)
  <2>1. state.reason \in Reasons /\ state.ambiguous \in BOOLEAN
    BY <1>2, <1>4 DEF Pending, Links, Position
  <2>2. Request(b, c.open, Opens(b), c.open, state.reason, state.ambiguous)
    BY <1>3, <1>4, <2>1 DEF Pending, Request, Asked
  <2> QED BY <1>1, <2>2 DEF Requested
<1>5. CASE StopAtOpen(b, c)
  <2>1. /\ ~state.pending 
        /\ Asks(Asked(b, c.open, Opens(b), c.open, state.stopReason, FALSE))
    BY <1>5 DEF StopAtOpen, InsideAtOpen, Asked
  <2>2. Request(b, c.open, Opens(b), c.open, state.stopReason, FALSE)
    BY <1>3, <1>p, <1>r, <2>1, Zenon DEF Request
  <2> QED BY <1>1, <2>2 DEF Requested
<1>6. CASE TargetAtOpen(b, c)
  <2>1. /\ ~state.pending /\ TargetCrossed(state, c.open)
        /\ Asks(Asked(b, c.open, Opens(b), state.plan.target, "TAKE_PROFIT", FALSE))
    BY <1>6 DEF TargetAtOpen, InsideAtOpen, Asked
  <2>2. Request(b, c.open, Opens(b), state.plan.target, "TAKE_PROFIT", FALSE)
    BY <1>3, <1>p, <1>r, <2>1, Zenon DEF Request
  <2> QED BY <1>1, <2>2 DEF Requested
<1>7. CASE Timeout(b, c)
  <2>1. /\ ~state.pending /\ Expired(b)
        /\ Asks(Asked(b, c.open, Opens(b), c.open, "TIMEOUT", FALSE))
    BY <1>7 DEF Timeout, InsideAtOpen, Asked
  <2>2. Request(b, c.open, Opens(b), c.open, "TIMEOUT", FALSE)
    BY <1>3, <1>p, <1>r, <2>1, Zenon DEF Request
  <2> QED BY <1>1, <2>2 DEF Requested
<1>8. CASE StopInBar(b, c)
  <2>2. Request(b, state.stop, Closes(b), state.stop, state.stopReason, BarHitsTarget(state, c))
    <3> DEFINE both == BarHitsTarget(state, c)
    <3>1. /\ ~state.pending /\ ~Expired(b)
          /\ Asks(Asked(b, state.stop, Closes(b), state.stop, state.stopReason, both))
      BY <1>8 DEF StopInBar, InsideAtOpen, Asked
    <3> HIDE DEF both
    <3>2. Request(b, state.stop, Closes(b), state.stop, state.stopReason, both)
      BY <1>3, <1>r, <1>t, <3>1 DEF Request, both
    <3> QED BY <3>2 DEF both
  <2> QED BY <1>1, <2>2 DEF Requested
<1>9. CASE TargetInBar(b, c)
  <2>1. /\ ~state.pending /\ ~Expired(b)
        /\ Asks(Asked(b, state.plan.target, Closes(b), state.plan.target, "TAKE_PROFIT", FALSE))
    BY <1>9 DEF TargetInBar, InsideAtOpen, Asked
  <2>2. Request(b, state.plan.target, Closes(b), state.plan.target, "TAKE_PROFIT", FALSE)
    BY <1>3, <1>p, <1>r, <2>1, Zenon DEF Request
  <2> QED BY <1>1, <2>2 DEF Requested
<1>10. CASE Hold(b, c) \/ Raise(b, c)
  BY <1>1, <1>10
<1> QED BY <1>1, <1>4, <1>5, <1>6, <1>7, <1>8, <1>9, <1>10

\* The state after a candle the position survives.
LEMMA HeldFields ==
    ASSUME TypeOK, NEW b \in 0..MaxBars, NEW c \in Candles, Hold(b, c)
    PROVE /\ state' \in Position
          /\ \E low, high \in Nat :
                state' = UpdateTrailingAtClose(
                           [state EXCEPT !.bar = b, !.decision = None,
                                         !.mae = low, !.mfe = high], c.close)
          /\ c.close \in Nat \ {0}
<1> DEFINE u == UpdateExcursions(Seen(b), Worst(state, c), Best(state, c))
<1>1. /\ c.close \in Nat \ {0} /\ Worst(state, c) \in Int /\ Best(state, c) \in Int
  BY PositionBounds DEF Candles, Worst, Best
<1>2. u \in Position /\ u = [state EXCEPT !.bar = b, !.decision = None, !.mae = u.mae, !.mfe = u.mfe]
  BY <1>1, ObserveFields
<1>3. state' = UpdateTrailingAtClose(u, c.close) /\ ~CandidateFails(c)
  BY DEF Hold
<1> HIDE DEF u
<1>4. u.plan = state.plan /\ u.trailing = state.trailing /\ u.stop = state.stop
  BY <1>2 DEF TypeOK, Position
<1>5. UpdateTrailingAtClose(u, c.close) \in Position
  <2>1. CASE ~Activated(u, c.close)
    BY <1>2, <2>1 DEF UpdateTrailingAtClose
  <2>2. CASE Activated(u, c.close)
    <3>1. Activated(state, c.close)
      BY <1>4, <2>2 DEF Activated, Reaches
    <3>2. Candidate(u, c.close) \in Int
      BY <1>1, <1>2, PlanFields DEF Candidate
    <3>3. ~(Candidate(u, c.close) <= 0)
      BY <1>3, <1>4, <3>1 DEF CandidateFails, Candidate
    <3>4. Candidate(u, c.close) \in Nat \ {0}
      BY <3>2, <3>3
    <3> QED BY <1>2, <2>2, <3>4 DEF UpdateTrailingAtClose, Position, Stops
  <2> QED BY <2>1, <2>2
<1>6. u.mae \in Nat /\ u.mfe \in Nat
  BY <1>2 DEF Position
<1> QED BY <1>1, <1>2, <1>3, <1>5, <1>6

TypeInv == TypeOK /\ Links

LEMMA InitType == Init => TypeInv
<1> SUFFICES ASSUME Init PROVE TypeInv
  OBVIOUS
<1>1. PICK p \in Plans, e \in Prices :
        state = [plan |-> p, entry |-> e, remaining |-> Quantity, filled |-> 0,
                 stop |-> p.stop, stopReason |-> "STOP_LOSS", trailing |-> FALSE,
                 mae |-> 0, mfe |-> 0, bar |-> -1,
                 pending |-> FALSE, reason |-> None, ambiguous |-> FALSE,
                 decision |-> None, sequence |-> 0, closed |-> FALSE]
  BY DEF Init
<1>2. p.stop \in Nat \ {0} /\ e \in Nat \ {0} /\ -1 \in -1..MaxBars /\ Quantity \in 0..Quantity
  BY PositionBounds DEF Plan
<1>3. state \in Position
  BY <1>1, <1>2, PositionBounds DEF Position, Stops
<1>4. Links
  BY <1>1, PositionBounds DEF Links, Init
<1>5. record = None /\ raised = FALSE /\ closes = <<>> /\ fills = <<>>
  BY DEF Init
<1>6. TypeOK
  <2>1. /\ <<>> \in Seq(Nat \ {0})
        /\ <<>> \in Seq([decision : Nat \ {0}, at : Nat, quantity : 1..Quantity])
    OBVIOUS
  <2> QED BY <1>3, <1>5, <2>1 DEF TypeOK
<1> QED BY <1>4, <1>6 DEF TypeInv

LEMMA RequestType ==
    ASSUME TypeInv, NEW b \in 0..MaxBars, ValidCandle(b), Requested(b)
    PROVE TypeInv'
<1>1. PICK price, from, reference, reason, ambiguous :
        Request(b, price, from, reference, reason, ambiguous)
  BY DEF Requested
<1>2. TypeOK /\ Links /\ ~state.closed
  BY DEF TypeInv, ValidCandle
<1>3. from \in Nat
  BY <1>1, PositionBounds DEF Request, Opens, Closes
<1>4. /\ state' = Asked(b, price, from, reference, reason, ambiguous)
      /\ UNCHANGED <<record, raised, closes, fills>>
  BY <1>1 DEF Request, Asks
<1>5. /\ price \in Int /\ reference \in Nat \ {0} /\ from \in {Opens(b), Closes(b)}
      /\ reason \in Reasons /\ ambiguous \in BOOLEAN
  BY <1>1 DEF Request
<1>6. AskedShape(state', b, price, from, reference, reason, ambiguous)
  BY <1>2, <1>3, <1>4, <1>5, AskedFields
<1>7. TypeOK'
  BY <1>2, <1>4, <1>6 DEF TypeOK, AskedShape
<1>8. reason # None
  BY <1>5, PositionBounds
<1>9. Links'
  BY <1>2, <1>4, <1>5, <1>6, <1>8, PositionBounds DEF Links, Opens, Closes, AskedShape
<1> QED BY <1>7, <1>9 DEF TypeInv

LEMMA HoldType ==
    ASSUME TypeInv, NEW b \in 0..MaxBars, NEW c \in Candles, ValidCandle(b), Hold(b, c)
    PROVE /\ TypeInv'
          /\ state'.bar = b /\ state'.plan = state.plan /\ state'.entry = state.entry
          /\ state'.remaining = state.remaining /\ state'.decision = None
          /\ ~state'.pending /\ ~state'.closed /\ state'.reason = None
<1>1. TypeOK /\ Links /\ ~state.closed /\ ~state.pending /\ state \in Position
  BY DEF TypeInv, TypeOK, ValidCandle, Hold, Survives, InsideAtOpen
<1>2. PICK low, high \in Nat :
        state' = UpdateTrailingAtClose(
                   [state EXCEPT !.bar = b, !.decision = None, !.mae = low, !.mfe = high],
                   c.close)
  BY <1>1, HeldFields
<1>3. state' \in Position /\ c.close \in Nat \ {0}
  BY <1>1, HeldFields
<1>4. /\ state'.bar = b /\ state'.plan = state.plan /\ state'.entry = state.entry
      /\ state'.remaining = state.remaining /\ state'.filled = state.filled
      /\ state'.decision = None /\ state'.pending = state.pending
      /\ state'.closed = state.closed /\ state'.reason = state.reason
      /\ state'.ambiguous = state.ambiguous /\ state'.sequence = state.sequence
  BY <1>1, <1>2 DEF UpdateTrailingAtClose, Position
<1>5. TypeOK'
  BY <1>1, <1>3 DEF TypeOK, Hold
<1>6. Links'
  BY <1>1, <1>4 DEF Links, Hold
<1> QED BY <1>1, <1>4, <1>5, <1>6 DEF TypeInv, Links

\* A fill, its quantity and its time.
FillOf(q, t) ==
    /\ state' = Filled(state, q)
    /\ fills' = Append(fills, [decision |-> state.decision.sequence, at |-> t, quantity |-> q])
    /\ record' = IF q = state.remaining
                 THEN [reason |-> state.decision.reason, ambiguous |-> state.ambiguous]
                 ELSE None

LEMMA FillType ==
    ASSUME TypeInv, ApplyExitFill
    PROVE /\ TypeInv'
          /\ \E q \in 1..state.remaining, t \in state.decision.from..state.decision.until : FillOf(q, t)
          /\ state'.bar = state.bar /\ state'.plan = state.plan /\ state'.decision = None
          /\ state'.sequence = state.sequence /\ state'.entry = state.entry
          /\ state'.stop = state.stop /\ state'.stopReason = state.stopReason
          /\ state'.trailing = state.trailing /\ state'.reason = state.reason
          /\ state'.ambiguous = state.ambiguous /\ state'.pending = ~state'.closed
<1>1. TypeOK /\ Links /\ state \in Position
  BY DEF TypeInv, TypeOK
<1>2. PICK q \in 1..state.remaining, t \in state.decision.from..state.decision.until : FillOf(q, t)
  BY DEF ApplyExitFill, FillOf
<1>3. /\ state.pending /\ ~state.closed /\ state.decision # None
      /\ UNCHANGED <<raised, closes>>
  BY DEF ApplyExitFill
<1>4. /\ state.decision \in Decision /\ state.remaining \in 1..Quantity
      /\ state.filled \in 0..Quantity /\ Quantity \in Nat
  BY <1>1, <1>3, PositionBounds DEF Position, Links
<1>5. state' = [state EXCEPT !.remaining = state.remaining - q, !.filled = state.filled + q,
                             !.decision = None, !.pending = q # state.remaining,
                             !.closed = (q = state.remaining)]
  BY <1>1, <1>2 DEF FillOf, Filled, Position
<1>6. /\ state.remaining - q \in 0..Quantity /\ state.filled + q \in 0..Quantity
      /\ state.remaining - q + (state.filled + q) = Quantity
      /\ state.remaining - q = 0 <=> q = state.remaining
  BY <1>1, <1>4 DEF Links
<1>7. state' \in Position
  <2> DEFINE rem == state.remaining - q
             fil == state.filled + q
             pen == q # state.remaining
             clo == q = state.remaining
  <2>1. rem \in 0..Quantity /\ fil \in 0..Quantity /\ pen \in BOOLEAN /\ clo \in BOOLEAN
    BY <1>6
  <2>2. state' = [state EXCEPT !.remaining = rem, !.filled = fil, !.decision = None,
                               !.pending = pen, !.closed = clo]
    BY <1>5
  <2> HIDE DEF rem, fil, pen, clo
  <2> QED BY <1>1, <2>1, <2>2 DEF Position
<1>8. /\ state'.remaining = state.remaining - q /\ state'.filled = state.filled + q
      /\ state'.decision = None
      /\ state'.bar = state.bar /\ state'.plan = state.plan
      /\ state'.sequence = state.sequence /\ state'.entry = state.entry
      /\ state'.stop = state.stop /\ state'.stopReason = state.stopReason
      /\ state'.trailing = state.trailing /\ state'.reason = state.reason
      /\ state'.ambiguous = state.ambiguous
  BY <1>1, <1>5 DEF Position
<1>9. /\ state'.pending = (q # state.remaining)
      /\ state'.closed = (q = state.remaining)
  BY <1>1, <1>5 DEF Position
<1>10. /\ [decision |-> state.decision.sequence, at |-> t, quantity |-> q]
             \in [decision : Nat \ {0}, at : Nat, quantity : 1..Quantity]
       /\ [reason |-> state.decision.reason, ambiguous |-> state.ambiguous]
             \in [reason : Reasons, ambiguous : BOOLEAN]
  BY <1>1, <1>2, <1>4 DEF Decision, Position
<1>11. TypeOK'
  BY <1>1, <1>2, <1>3, <1>7, <1>10 DEF TypeOK, FillOf
<1>12. record' = None <=> q # state.remaining
  BY <1>2, <1>10, PositionBounds DEF FillOf
<1>13. Links'
  <2>1. CASE q = state.remaining
    <3>1. /\ state'.closed = TRUE /\ state'.pending = FALSE /\ record' # None
          /\ state'.remaining = 0
      BY <1>6, <1>8, <1>9, <1>12, <2>1
    <3> QED BY <1>6, <1>8, <3>1 DEF Links
  <2>2. CASE q # state.remaining
    <3>1. state.remaining - q > 0
      BY <1>2, <1>4, <2>2
    <3>2. state'.closed = FALSE /\ state'.pending = TRUE /\ record' = None
      BY <1>9, <1>12, <2>2
    <3> QED BY <1>1, <1>3, <1>6, <1>8, <3>1, <3>2 DEF Links
  <2> QED BY <2>1, <2>2
<1> QED BY <1>2, <1>8, <1>9, <1>11, <1>13 DEF TypeInv

LEMMA TypeStep == TypeInv /\ [Next]_vars => TypeInv'
<1> SUFFICES ASSUME TypeInv, [Next]_vars PROVE TypeInv'
  OBVIOUS
<1>1. CASE OnCandle
  <2>1. PICK b \in 0..MaxBars :
          /\ ValidCandle(b)
          /\ Requested(b) \/ (\E c \in Candles : Hold(b, c)) \/ (\E c \in Candles : Raise(b, c))
    BY <1>1, CandleOutcome DEF TypeInv
  <2>2. CASE Requested(b)
    BY <2>1, <2>2, RequestType
  <2>3. CASE \E c \in Candles : Hold(b, c)
    BY <2>1, <2>3, HoldType
  <2>4. CASE \E c \in Candles : Raise(b, c)
    BY <2>4 DEF Raise, TypeInv, TypeOK, Links
  <2> QED BY <2>1, <2>2, <2>3, <2>4
<1>2. CASE ApplyExitFill
  BY <1>2, FillType
<1>3. CASE UNCHANGED vars
  BY <1>3 DEF vars, TypeInv, TypeOK, Links
<1> QED BY <1>1, <1>2, <1>3 DEF Next

\* The position stays well typed whatever candles and fills arrive: in
\* particular a stop stays a positive price and nothing is oversold.
THEOREM TypeCorrect == Spec => []TypeOK
<1>1. Spec => []TypeInv
  BY InitType, TypeStep, PTL DEF Spec
<1>2. TypeInv => TypeOK
  BY DEF TypeInv
<1> QED BY <1>1, <1>2, PTL

LEMMA TypeAlways == Spec => []TypeInv
BY InitType, TypeStep, PTL DEF Spec

\* A step is a candle that asks, holds or raises, or a fill, or nothing.
LEMMA Steps ==
    ASSUME TypeInv, [Next]_vars
    PROVE \/ \E b \in 0..MaxBars : ValidCandle(b) /\ Requested(b)
          \/ \E b \in 0..MaxBars, c \in Candles : ValidCandle(b) /\ Hold(b, c)
          \/ raised' = TRUE /\ UNCHANGED <<state, record, closes, fills>>
          \/ ApplyExitFill
          \/ UNCHANGED vars
<1>1. CASE OnCandle
  BY <1>1, CandleOutcome DEF TypeInv, Raise
<1> QED BY <1>1 DEF Next

\* What holding does to the stop.
LEMMA HoldTrail ==
    ASSUME TypeInv, NEW b \in 0..MaxBars, NEW c \in Candles, ValidCandle(b), Hold(b, c)
    PROVE /\ c.close \in Nat \ {0}
          /\ ~Activated(state, c.close) =>
                 /\ state'.trailing = state.trailing
                 /\ state'.stop = state.stop /\ state'.stopReason = state.stopReason
          /\ Activated(state, c.close) => state'.trailing = TRUE
          /\ Activated(state, c.close) /\ ~Beyond(state, Candidate(state, c.close), state.stop) =>
                 state'.stop = state.stop /\ state'.stopReason = state.stopReason
          /\ Activated(state, c.close) /\ Beyond(state, Candidate(state, c.close), state.stop) =>
                 /\ state'.stop = Candidate(state, c.close)
                 /\ state'.stopReason = "TRAILING_STOP"
<1>1. TypeOK /\ state \in Position
  BY DEF TypeInv, TypeOK
<1>2. PICK low, high \in Nat :
        state' = UpdateTrailingAtClose(
                   [state EXCEPT !.bar = b, !.decision = None, !.mae = low, !.mfe = high],
                   c.close)
  BY <1>1, HeldFields
<1> DEFINE u == [state EXCEPT !.bar = b, !.decision = None, !.mae = low, !.mfe = high]
<1>3. /\ u.plan = state.plan /\ u.trailing = state.trailing
      /\ u.stop = state.stop /\ u.stopReason = state.stopReason
  BY <1>1 DEF Position
<1>4. /\ [u EXCEPT !.trailing = TRUE].trailing = TRUE
      /\ [u EXCEPT !.trailing = TRUE].stop = state.stop
      /\ [u EXCEPT !.trailing = TRUE].stopReason = state.stopReason
  BY <1>1, <1>3 DEF Position
<1>5. \A k : LET v == [u EXCEPT !.trailing = TRUE, !.stop = k, !.stopReason = "TRAILING_STOP"]
            IN  v.trailing = TRUE /\ v.stop = k /\ v.stopReason = "TRAILING_STOP"
  BY <1>1 DEF Position
<1> HIDE DEF u
<1>6. /\ Activated(u, c.close) = Activated(state, c.close)
      /\ Candidate(u, c.close) = Candidate(state, c.close)
  BY <1>3 DEF Activated, Candidate, Reaches
<1>7. Beyond(u, Candidate(state, c.close), u.stop) = Beyond(state, Candidate(state, c.close), state.stop)
  BY <1>3 DEF Beyond
<1>8. state' = UpdateTrailingAtClose(u, c.close)
  BY <1>2 DEF u
<1>9. c.close \in Nat \ {0}
  BY <1>1, HeldFields
<1> QED BY <1>3, <1>4, <1>5, <1>6, <1>7, <1>8, <1>9 DEF UpdateTrailingAtClose

\* A step other than a hold leaves the stop and the closes alone.
LEMMA OthersKeepStop ==
    ASSUME TypeInv, [Next]_vars,
           ~\E b \in 0..MaxBars, c \in Candles : ValidCandle(b) /\ Hold(b, c)
    PROVE /\ state'.plan = state.plan /\ state'.stop = state.stop
          /\ state'.stopReason = state.stopReason /\ state'.trailing = state.trailing
          /\ closes' = closes
<1>1. CASE \E b \in 0..MaxBars : ValidCandle(b) /\ Requested(b)
  <2>0. PICK b \in 0..MaxBars : ValidCandle(b) /\ Requested(b)
    BY <1>1
  <2>1. PICK price, from, reference, reason, ambiguous :
          ValidCandle(b) /\ Request(b, price, from, reference, reason, ambiguous)
    BY <2>0 DEF Requested
  <2>2. from \in Nat
    BY <2>1, PositionBounds DEF Request, Opens, Closes
  <2>3. AskedShape(state', b, price, from, reference, reason, ambiguous)
    BY <2>1, <2>2, AskedFields DEF Request, Asks, TypeInv, ValidCandle
  <2> QED BY <2>1, <2>3 DEF AskedShape, Request, Asks
<1>2. CASE ApplyExitFill
  BY <1>2, FillType DEF ApplyExitFill
<1> QED BY <1>1, <1>2, Steps DEF vars

LEMMA CompareInts ==
    ASSUME NEW s \in Position, NEW x \in Int, NEW y \in Int, NEW z \in Int
    PROVE /\ Beyond(s, x, y) /\ ~Beyond(s, z, y) => ~Beyond(s, z, x)
          /\ Beyond(s, x, y) /\ Beyond(s, y, z) => Beyond(s, x, z)
          /\ ~Beyond(s, x, x)
          /\ ~Reaches(s, x, y) <=> Beyond(s, y, x)
          /\ Beyond(s, x, y) => x # y
<1>1. CASE s.plan.long
  BY <1>1 DEF Beyond, Reaches
<1>2. CASE ~s.plan.long
  BY <1>2 DEF Beyond, Reaches
<1> QED BY <1>1, <1>2

LEMMA StopInit == Init => StopFollowsCloses
<1> SUFFICES ASSUME Init PROVE StopFollowsCloses
  OBVIOUS
<1>1. /\ closes = <<>> /\ state.stop = state.plan.stop /\ state.trailing = FALSE
      /\ state.stopReason = "STOP_LOSS" /\ state \in Position
  <2>1. PICK p \in Plans, e \in Prices :
          state = [plan |-> p, entry |-> e, remaining |-> Quantity, filled |-> 0,
                   stop |-> p.stop, stopReason |-> "STOP_LOSS", trailing |-> FALSE,
                   mae |-> 0, mfe |-> 0, bar |-> -1,
                   pending |-> FALSE, reason |-> None, ambiguous |-> FALSE,
                   decision |-> None, sequence |-> 0, closed |-> FALSE]
    BY DEF Init
  <2>2. state \in Position
    BY InitType DEF TypeInv, TypeOK
  <2> QED BY <2>1, <2>2 DEF Init
<1>2. Trailed = {}
  BY <1>1 DEF Trailed
<1>3. ~Beyond(state, state.plan.stop, state.stop)
  BY <1>1, PlanFields, CompareInts
<1> QED BY <1>1, <1>2, <1>3 DEF StopFollowsCloses

LEMMA StopHold ==
    ASSUME TypeInv, StopFollowsCloses,
           NEW b \in 0..MaxBars, NEW c \in Candles, ValidCandle(b), Hold(b, c)
    PROVE StopFollowsCloses'
<1> DEFINE n == Len(closes) + 1
           cl == c.close
<1>1. TypeOK /\ state \in Position /\ closes \in Seq(Nat \ {0})
  BY DEF TypeInv, TypeOK
<1>2. /\ cl \in Nat \ {0}
      /\ ~Activated(state, cl) =>
             /\ state'.trailing = state.trailing
             /\ state'.stop = state.stop /\ state'.stopReason = state.stopReason
      /\ Activated(state, cl) => state'.trailing = TRUE
      /\ Activated(state, cl) /\ ~Beyond(state, Candidate(state, cl), state.stop) =>
             state'.stop = state.stop /\ state'.stopReason = state.stopReason
      /\ Activated(state, cl) /\ Beyond(state, Candidate(state, cl), state.stop) =>
             /\ state'.stop = Candidate(state, cl)
             /\ state'.stopReason = "TRAILING_STOP"
  BY HoldTrail
<1>3. /\ state'.plan = state.plan /\ state' \in Position
  BY HoldType DEF TypeInv, TypeOK
<1>4. closes' = Append(closes, cl)
  BY DEF Hold
<1>5. /\ DOMAIN closes = 1..(n - 1) /\ DOMAIN closes' = 1..n /\ n \in Nat \ {0}
      /\ closes'[n] = cl /\ \A i \in 1..(n - 1) : closes'[i] = closes[i]
  BY <1>1, <1>2, <1>4
<1> HIDE DEF n, cl
<1>6. /\ \A x, y : Beyond(state', x, y) = Beyond(state, x, y)
      /\ \A x, y : Reaches(state', x, y) = Reaches(state, x, y)
      /\ \A x : Candidate(state', x) = Candidate(state, x)
  BY <1>3 DEF Beyond, Reaches, Candidate
<1>7. /\ \A i \in 1..(n - 1) : i \in Trailed' <=> i \in Trailed
      /\ Trailed' \subseteq 1..n
      /\ n \in Trailed' <=> Activated(state, cl)
  <2>1. \A i \in 1..(n - 1) : \A j \in 1..i : closes'[j] = closes[j]
    BY <1>5
  <2>2. \A i \in 1..(n - 1) : i \in Trailed' <=> i \in Trailed
    BY <1>3, <1>5, <1>6, <2>1 DEF Trailed
  <2>3. state.trailing <=> \E i \in 1..(n - 1) :
            state.plan.trails /\ \E j \in 1..i : Reaches(state, closes[j], state.plan.activation)
    BY <1>5 DEF StopFollowsCloses, Trailed
  <2>4. state.trailing <=> \E j \in 1..(n - 1) :
            state.plan.trails /\ Reaches(state, closes[j], state.plan.activation)
    BY <1>5, <2>3
  <2>5. n \in Trailed' <=>
            state.plan.trails /\ \E j \in 1..n : Reaches(state, closes'[j], state.plan.activation)
    BY <1>3, <1>5, <1>6 DEF Trailed
  <2>6. (\E j \in 1..n : Reaches(state, closes'[j], state.plan.activation)) <=>
            \/ \E j \in 1..(n - 1) : Reaches(state, closes[j], state.plan.activation)
            \/ Reaches(state, cl, state.plan.activation)
    <3>1. 1..n = (1..(n - 1)) \cup {n}
      BY <1>5
    <3> QED BY <1>5, <3>1
  <2>7. n \in Trailed' <=> Activated(state, cl)
    BY <2>4, <2>5, <2>6 DEF Activated
  <2> QED BY <1>5, <2>2, <2>7 DEF Trailed
<1>8. /\ Candidate(state, cl) \in Int /\ state.stop \in Int /\ state.plan.stop \in Int
      /\ \A i \in Trailed : Candidate(state, closes[i]) \in Int
  <2>1. \A x \in Int : Candidate(state, x) \in Int
    BY <1>1, PlanFields DEF Candidate
  <2>2. \A i \in Trailed : closes[i] \in Int
    BY <1>1 DEF Trailed
  <2>3. Candidate(state, cl) \in Int
    BY <1>2, <2>1
  <2>4. state.stop \in Int /\ state.plan.stop \in Int
    BY <1>1, PlanFields
  <2> QED BY <2>1, <2>2, <2>3, <2>4
<1>9. state'.trailing <=> Trailed' # {}
  <2>1. CASE Activated(state, cl)
    BY <1>2, <1>7, <2>1
  <2>2. CASE ~Activated(state, cl)
    <3>1. Trailed' = Trailed
      <4>1. n \notin Trailed' /\ Trailed \subseteq 1..(n - 1)
        BY <1>5, <1>7, <2>2 DEF Trailed
      <4>2. Trailed' \subseteq 1..(n - 1)
        BY <1>5, <1>7, <4>1
      <4> QED BY <1>7, <4>1, <4>2
    <3> QED BY <1>2, <2>2, <3>1 DEF StopFollowsCloses
  <2> QED BY <2>1, <2>2
<1>10. /\ \A i \in Trailed' : i = n \/ (i \in Trailed /\ closes'[i] = closes[i])
       /\ \A i \in Trailed : i \in Trailed' /\ closes'[i] = closes[i]
  <2>1. Trailed \subseteq 1..(n - 1)
    BY <1>5 DEF Trailed
  <2>2. \A i \in 1..n : i = n \/ i \in 1..(n - 1)
    BY <1>5
  <2> QED BY <1>5, <1>7, <2>1, <2>2
<1>11. CASE Activated(state, cl) /\ Beyond(state, Candidate(state, cl), state.stop)
  <2>1. state'.stop = Candidate(state, cl) /\ state'.stopReason = "TRAILING_STOP"
    BY <1>2, <1>11
  <2>2. ~Beyond(state, state.plan.stop, state'.stop) /\ state'.stop # state.plan.stop
    <3>1. ~Beyond(state, state.plan.stop, state.stop)
      BY DEF StopFollowsCloses
    <3> QED BY <1>8, <1>11, <2>1, <3>1 DEF Beyond
  <2>3. ~Beyond(state, Candidate(state, cl), state'.stop)
    BY <1>8, <2>1 DEF Beyond
  <2>4. ASSUME NEW i \in Trailed
        PROVE ~Beyond(state, Candidate(state, closes[i]), state'.stop)
    <3>1. /\ ~Beyond(state, Candidate(state, closes[i]), state.stop)
          /\ Candidate(state, closes[i]) \in Int
      BY <1>8 DEF StopFollowsCloses
    <3> QED BY <1>8, <1>11, <2>1, <3>1 DEF Beyond
  <2>5. \A i \in Trailed' : ~Beyond(state', Candidate(state', closes'[i]), state'.stop)
    BY <1>3, <1>5, <1>6, <1>10, <2>3, <2>4 DEF Beyond
  <2>6. \E i \in Trailed' : state'.stop = Candidate(state', closes'[i])
    BY <1>5, <1>6, <1>7, <1>11, <2>1
  <2>7. ~Beyond(state', state'.plan.stop, state'.stop)
    BY <1>3, <2>2 DEF Beyond
  <2> QED BY <1>3, <1>9, <2>1, <2>2, <2>5, <2>6, <2>7 DEF StopFollowsCloses
<1>12. CASE ~(Activated(state, cl) /\ Beyond(state, Candidate(state, cl), state.stop))
  <2>1. state'.stop = state.stop /\ state'.stopReason = state.stopReason
    BY <1>2, <1>12
  <2>2. \A i \in Trailed' : ~Beyond(state', Candidate(state', closes'[i]), state'.stop)
    BY <1>3, <1>5, <1>6, <1>7, <1>10, <1>12, <2>1 DEF StopFollowsCloses, Beyond
  <2>3. state'.stop # state'.plan.stop =>
            \E i \in Trailed' : state'.stop = Candidate(state', closes'[i])
    BY <1>3, <1>6, <1>10, <2>1 DEF StopFollowsCloses
  <2>4. ~Beyond(state', state'.plan.stop, state'.stop)
    BY <1>3, <2>1 DEF StopFollowsCloses, Beyond
  <2> QED BY <1>3, <1>9, <2>1, <2>2, <2>3, <2>4 DEF StopFollowsCloses
<1> QED BY <1>11, <1>12

LEMMA StopStep == TypeInv /\ StopFollowsCloses /\ [Next]_vars => StopFollowsCloses'
<1> SUFFICES ASSUME TypeInv, StopFollowsCloses, [Next]_vars PROVE StopFollowsCloses'
  OBVIOUS
<1>1. CASE \E b \in 0..MaxBars, c \in Candles : ValidCandle(b) /\ Hold(b, c)
  BY <1>1, StopHold
<1>2. CASE ~\E b \in 0..MaxBars, c \in Candles : ValidCandle(b) /\ Hold(b, c)
  <2>1. /\ state'.plan = state.plan /\ state'.stop = state.stop
        /\ state'.stopReason = state.stopReason /\ state'.trailing = state.trailing
        /\ closes' = closes
    BY <1>2, OthersKeepStop
  <2>2. Trailed' = Trailed
    BY <2>1 DEF Trailed, Reaches
  <2> QED BY <2>1, <2>2 DEF StopFollowsCloses, Beyond, Candidate
<1> QED BY <1>1, <1>2

\* For every plan and every history the stop in force is the best candidate
\* seen since activation, and never worse than the plan's own stop.
THEOREM StopCorrect == Spec => []StopFollowsCloses
<1>1. Init => StopFollowsCloses
  BY StopInit
<1>2. TypeInv /\ StopFollowsCloses /\ [Next]_vars => StopFollowsCloses'
  BY StopStep
<1> QED BY <1>1, <1>2, TypeAlways, PTL DEF Spec

\* The last price the position survived.
Last == IF closes = <<>> THEN state.entry ELSE closes[Len(closes)]

LEMMA OpenInit == Init => OpenBetweenBarriers
<1> SUFFICES ASSUME Init PROVE OpenBetweenBarriers
  OBVIOUS
<1>1. PICK p \in Plans, e \in Prices :
        /\ IF p.long THEN p.stop < e /\ e < p.target ELSE p.target < e /\ e < p.stop
        /\ state = [plan |-> p, entry |-> e, remaining |-> Quantity, filled |-> 0,
                    stop |-> p.stop, stopReason |-> "STOP_LOSS", trailing |-> FALSE,
                    mae |-> 0, mfe |-> 0, bar |-> -1,
                    pending |-> FALSE, reason |-> None, ambiguous |-> FALSE,
                    decision |-> None, sequence |-> 0, closed |-> FALSE]
  BY DEF Init
<1>2. p.stop \in Nat /\ p.target \in Nat /\ e \in Nat /\ p.long \in BOOLEAN
  BY PositionBounds DEF Plan
<1>3. state.plan = p /\ state.entry = e /\ state.stop = p.stop
  BY <1>1
<1>4. Beyond(state, e, p.stop) /\ Beyond(state, p.target, e)
  BY <1>1, <1>2, <1>3 DEF Beyond
<1> QED BY <1>3, <1>4 DEF OpenBetweenBarriers, Init

LEMMA OpenHold ==
    ASSUME TypeInv, NEW b \in 0..MaxBars, NEW c \in Candles, ValidCandle(b), Hold(b, c)
    PROVE OpenBetweenBarriers'
<1> DEFINE cl == c.close
<1>1. TypeOK /\ state \in Position /\ closes \in Seq(Nat \ {0})
  BY DEF TypeInv, TypeOK
<1>2. /\ cl \in Nat \ {0}
      /\ state'.stop = state.stop \/ state'.stop = Candidate(state, cl)
  BY HoldTrail
<1>3. state'.plan = state.plan
  BY HoldType
<1>4. /\ closes' # <<>> /\ closes'[Len(closes')] = cl
  BY <1>1, <1>2 DEF Hold
<1>5. /\ state.plan.long \in BOOLEAN /\ state.stop \in Int /\ state.plan.target \in Int
      /\ state.plan.distance \in Nat \ {0}
  BY <1>1, PlanFields
<1>6. /\ c.low \in Nat /\ c.high \in Nat /\ c.low <= cl /\ cl <= c.high
  BY PositionBounds DEF Candles
<1>7. ~BarHitsStop(state, c) /\ ~BarHitsTarget(state, c)
  BY DEF Hold, Survives
<1> HIDE DEF cl
<1>8. Beyond(state, cl, state.stop) /\ Beyond(state, state.plan.target, cl)
  <2>1. CASE state.plan.long
    BY <1>2, <1>5, <1>6, <1>7, <2>1
    DEF BarHitsStop, BarHitsTarget, StopCrossed, TargetCrossed, Worst, Best, Reaches, Beyond
  <2>2. CASE ~state.plan.long
    BY <1>2, <1>5, <1>6, <1>7, <2>2
    DEF BarHitsStop, BarHitsTarget, StopCrossed, TargetCrossed, Worst, Best, Reaches, Beyond
  <2> QED BY <1>5, <2>1, <2>2
<1>9. Beyond(state, cl, Candidate(state, cl))
  BY <1>2, <1>5 DEF Beyond, Candidate
<1>10. Beyond(state', cl, state'.stop) /\ Beyond(state', state'.plan.target, cl)
  BY <1>2, <1>3, <1>8, <1>9 DEF Beyond
<1> QED BY <1>4, <1>10 DEF OpenBetweenBarriers

LEMMA RequestsPend ==
    ASSUME TypeInv, NEW b \in 0..MaxBars, ValidCandle(b), Requested(b)
    PROVE \E price, from, reference, reason, ambiguous :
             /\ Request(b, price, from, reference, reason, ambiguous)
             /\ from \in Nat
             /\ AskedShape(state', b, price, from, reference, reason, ambiguous)
<1>1. PICK price, from, reference, reason, ambiguous :
        Request(b, price, from, reference, reason, ambiguous)
  BY DEF Requested
<1>2. from \in Nat
  BY <1>1, PositionBounds DEF Request, Opens, Closes
<1>3. AskedShape(state', b, price, from, reference, reason, ambiguous)
  BY <1>1, <1>2, AskedFields DEF Request, Asks, TypeInv, ValidCandle
<1> QED BY <1>1, <1>2, <1>3

LEMMA OpenStep == TypeInv /\ OpenBetweenBarriers /\ [Next]_vars => OpenBetweenBarriers'
<1> SUFFICES ASSUME TypeInv, OpenBetweenBarriers, [Next]_vars PROVE OpenBetweenBarriers'
  OBVIOUS
<1>1. CASE \E b \in 0..MaxBars : ValidCandle(b) /\ Requested(b)
  BY <1>1, RequestsPend DEF AskedShape, OpenBetweenBarriers
<1>2. CASE \E b \in 0..MaxBars, c \in Candles : ValidCandle(b) /\ Hold(b, c)
  BY <1>2, OpenHold
<1>3. CASE ApplyExitFill
  BY <1>3, FillType DEF OpenBetweenBarriers
<1>4. CASE UNCHANGED <<state, closes>>
  BY <1>4 DEF OpenBetweenBarriers, Beyond
<1> QED BY <1>1, <1>2, <1>3, <1>4, Steps DEF vars

\* No candle is survived with a barrier crossed, also when the stop has just
\* moved: what is held lies strictly between its stop and its target.
THEOREM OpenInside == Spec => []OpenBetweenBarriers
<1>1. TypeInv /\ OpenBetweenBarriers /\ [Next]_vars => OpenBetweenBarriers'
  BY OpenStep
<1> QED BY <1>1, OpenInit, TypeAlways, PTL DEF Spec

\* The fills so far are older than what can be filled now.
FillsPast ==
    /\ FillsFollowDecisions
    /\ \A i \in DOMAIN fills :
          /\ fills[i].decision <= state.sequence /\ fills[i].at <= Closes(state.bar)
          /\ state.decision # None =>
                fills[i].decision < state.sequence /\ fills[i].at < state.decision.from

LEMMA Element ==
    ASSUME NEW S, NEW s \in Seq(S), NEW i \in DOMAIN s
    PROVE s[i] \in S
OBVIOUS

LEMMA FillTypes ==
    ASSUME TypeInv, NEW i \in DOMAIN fills
    PROVE fills[i].decision \in Nat /\ fills[i].at \in Nat
<1>1. fills \in Seq([decision : Nat \ {0}, at : Nat, quantity : 1..Quantity])
  BY DEF TypeInv, TypeOK
<1>2. fills[i] \in [decision : Nat \ {0}, at : Nat, quantity : 1..Quantity]
  BY <1>1, Element
<1> QED BY <1>2

LEMMA FillsInit == Init => FillsPast
BY DEF Init, FillsPast, FillsFollowDecisions

LEMMA FillsRequest ==
    ASSUME TypeInv, FillsPast, NEW b \in 0..MaxBars, ValidCandle(b), Requested(b)
    PROVE FillsPast'
<1>1. PICK price, from, reference, reason, ambiguous :
        /\ Request(b, price, from, reference, reason, ambiguous)
        /\ from \in Nat
        /\ AskedShape(state', b, price, from, reference, reason, ambiguous)
  BY RequestsPend
<1>2. /\ fills' = fills /\ state'.sequence = state.sequence + 1 /\ state'.bar = b
      /\ state'.decision.from = from
  BY <1>1 DEF Request, Asks, AskedShape
<1>3. /\ state.sequence \in Nat /\ state.bar \in -1..MaxBars /\ b \in Nat
      /\ fills \in Seq([decision : Nat \ {0}, at : Nat, quantity : 1..Quantity])
  BY PositionBounds DEF TypeInv, TypeOK, Position
<1>4. CASE fills = <<>>
  BY <1>2, <1>4 DEF FillsPast, FillsFollowDecisions
<1>5. CASE fills # <<>>
  <2>1. state.pending /\ from = Opens(b)
    BY <1>1, <1>5 DEF TypeInv, Links, Request, ValidCandle
  <2>2. state.bar >= 0 /\ b > state.bar
    BY <2>1 DEF TypeInv, Links, ValidCandle
  <2>3. Closes(state.bar) < Opens(b) /\ Closes(state.bar) < Closes(b)
    BY <1>3, <2>2 DEF Opens, Closes
  <2>4. ASSUME NEW i \in DOMAIN fills
        PROVE /\ fills[i].decision < state.sequence + 1
              /\ fills[i].at < from /\ fills[i].at <= Closes(b)
    <3>1. /\ fills[i].decision <= state.sequence /\ fills[i].at <= Closes(state.bar)
          /\ fills[i].decision \in Nat /\ fills[i].at \in Nat
      BY FillTypes DEF FillsPast
    <3>2. Closes(state.bar) \in Int /\ Opens(b) \in Int /\ Closes(b) \in Int
      BY <1>3 DEF Opens, Closes
    <3>3. fills[i].decision < state.sequence + 1
      BY <1>3, <3>1
    <3> QED BY <2>1, <2>3, <3>1, <3>2, <3>3
  <2>5. FillsFollowDecisions'
    BY <1>2 DEF FillsPast, FillsFollowDecisions
  <2>6. \A i \in DOMAIN fills : fills[i].decision <= state.sequence + 1
    BY <1>3, <2>4, FillTypes
  <2> QED BY <1>2, <2>4, <2>5, <2>6 DEF FillsPast
<1> QED BY <1>4, <1>5

LEMMA FillsFill ==
    ASSUME TypeInv, FillsPast, ApplyExitFill
    PROVE FillsPast'
<1>1. PICK q \in 1..state.remaining, t \in state.decision.from..state.decision.until : FillOf(q, t)
  BY FillType
<1>2. /\ state'.bar = state.bar /\ state'.decision = None /\ state'.sequence = state.sequence
  BY FillType
<1> DEFINE f == [decision |-> state.decision.sequence, at |-> t, quantity |-> q]
           n == Len(fills) + 1
<1>3. /\ state.decision # None /\ state.decision.sequence = state.sequence
      /\ state.decision.until = Closes(state.bar)
  BY DEF ApplyExitFill, TypeInv, Links
<1>4. /\ state.decision \in Decision /\ state.sequence \in Nat
      /\ state.bar \in -1..MaxBars
      /\ fills \in Seq([decision : Nat \ {0}, at : Nat, quantity : 1..Quantity])
  BY <1>3 DEF TypeInv, TypeOK, Position
<1>5. /\ state.decision.from \in Nat /\ state.decision.until \in Nat
      /\ t \in Nat /\ t >= state.decision.from /\ t <= Closes(state.bar)
  BY <1>1, <1>3, <1>4 DEF Decision
<1>6. fills' = Append(fills, f)
  BY <1>1 DEF FillOf
<1>7. f.decision = state.sequence /\ f.at = t
  BY <1>3
<1> HIDE DEF f
<1>8. /\ DOMAIN fills' = 1..n /\ DOMAIN fills = 1..(n - 1) /\ fills'[n] = f /\ n \in Nat
      /\ \A i \in 1..(n - 1) : fills'[i] = fills[i]
  BY <1>4, <1>6
<1> HIDE DEF n
<1>9. ASSUME NEW i \in 1..(n - 1)
      PROVE fills[i].decision < state.sequence /\ fills[i].at < t
  <2>1. /\ fills[i].decision < state.sequence /\ fills[i].at < state.decision.from
        /\ fills[i].at \in Nat
    BY <1>3, <1>8, FillTypes DEF FillsPast
  <2> QED BY <1>5, <2>1
<1>10. FillsFollowDecisions'
  <2>1. ASSUME NEW i \in 1..n, NEW j \in 1..n, i < j
        PROVE fills'[i].decision < fills'[j].decision /\ fills'[i].at < fills'[j].at
    <3>1. i \in 1..(n - 1)
      BY <1>8, <2>1
    <3>2. CASE j = n
      BY <1>7, <1>8, <1>9, <3>1, <3>2
    <3>3. CASE j # n
      <4>1. j \in 1..(n - 1)
        BY <1>8, <3>3
      <4> QED BY <1>8, <2>1, <3>1, <4>1 DEF FillsPast, FillsFollowDecisions
    <3> QED BY <3>2, <3>3
  <2> QED BY <1>8, <2>1 DEF FillsFollowDecisions
<1>11. ASSUME NEW i \in 1..n
       PROVE fills'[i].decision <= state.sequence /\ fills'[i].at <= Closes(state.bar)
  <2>1. CASE i = n
    BY <1>4, <1>5, <1>7, <1>8, <2>1
  <2>2. CASE i # n
    <3>1. i \in 1..(n - 1)
      BY <1>8, <2>2
    <3> QED BY <1>8, <3>1 DEF FillsPast
  <2> QED BY <2>1, <2>2
<1> QED BY <1>2, <1>8, <1>10, <1>11 DEF FillsPast

LEMMA FillsStep == TypeInv /\ FillsPast /\ [Next]_vars => FillsPast'
<1> SUFFICES ASSUME TypeInv, FillsPast, [Next]_vars PROVE FillsPast'
  OBVIOUS
<1>1. CASE \E b \in 0..MaxBars : ValidCandle(b) /\ Requested(b)
  BY <1>1, FillsRequest
<1>2. CASE \E b \in 0..MaxBars, c \in Candles : ValidCandle(b) /\ Hold(b, c)
  <2>1. fills = <<>> /\ fills' = fills
    BY <1>2 DEF TypeInv, Links, Hold, Survives, InsideAtOpen, ValidCandle
  <2> QED BY <2>1 DEF FillsPast, FillsFollowDecisions
<1>3. CASE ApplyExitFill
  BY <1>3, FillsFill
<1>4. CASE UNCHANGED <<state, fills>>
  BY <1>4 DEF FillsPast, FillsFollowDecisions
<1> QED BY <1>1, <1>2, <1>3, <1>4, Steps DEF vars

\* No decision is ever filled twice and no fill goes back in time, however
\* fills, partial fills and retries interleave.
THEOREM FillsOnce == Spec => []FillsFollowDecisions
<1>1. TypeInv /\ FillsPast /\ [Next]_vars => FillsPast'
  BY FillsStep
<1>2. Spec => []FillsPast
  BY <1>1, FillsInit, TypeAlways, PTL DEF Spec
<1>3. FillsPast => FillsFollowDecisions
  BY DEF FillsPast
<1> QED BY <1>2, <1>3, PTL

\* The offer stays within the excursions, and the entry inside the target.
OfferInv ==
    /\ OfferWithinExcursions
    /\ Beyond(state, state.plan.target, state.entry)

LEMMA OfferInit == Init => OfferInv
<1> SUFFICES ASSUME Init PROVE OfferInv
  OBVIOUS
<1>1. OpenBetweenBarriers /\ TypeInv
  BY OpenInit, InitType
<1>2. closes = <<>>
  BY DEF Init
<1>3. state.decision = None /\ ~state.pending /\ ~state.closed
  BY DEF Init
<1> QED BY <1>1, <1>2, <1>3 DEF OfferInv, OfferWithinExcursions, OpenBetweenBarriers

LEMMA Scaled ==
    ASSUME NEW a \in Int, NEW b \in Int, NEW q \in Nat, a <= b
    PROVE a * q <= b * q
BY SMT

LEMMA OfferRequest ==
    ASSUME TypeInv, OfferInv, NEW b \in 0..MaxBars, ValidCandle(b), Requested(b)
    PROVE OfferInv'
<1>1. PICK price, from, reference, reason, ambiguous :
        /\ Request(b, price, from, reference, reason, ambiguous)
        /\ AskedShape(state', b, price, from, reference, reason, ambiguous)
  BY RequestsPend
<1> DEFINE q == state.remaining
           g == Gain(state, reference)
           h == Gain(state, price)
<1>2. state \in Position
  BY DEF TypeInv, TypeOK
<1>3. /\ state'.plan = state.plan /\ state'.entry = state.entry
      /\ state'.decision.reference = reference /\ state'.decision.requested = q
      /\ state'.mae >= -(h * q) /\ state'.mfe >= h * q
      /\ state'.mae \in Nat /\ state'.mfe \in Nat /\ q \in Nat
  BY <1>1, <1>2 DEF AskedShape, Position
<1>4. price \in Int /\ reference \in Int
  BY <1>1 DEF Request
<1>5. /\ state.plan.long \in BOOLEAN /\ state.plan.target \in Int /\ state.entry \in Int
  BY <1>2, PlanFields
<1>6. g \in Int /\ h \in Int
  BY <1>4, <1>5 DEF Gain
<1>7. Gain(state', reference) = g
  BY <1>3 DEF Gain
<1>8. reference = price \/ (g <= h /\ 0 <= g)
  <2>1. reference = price \/ (reference = state.plan.target /\ TargetCrossed(state, price))
    BY <1>1 DEF Request
  <2>2. Beyond(state, state.plan.target, state.entry)
    BY DEF OfferInv
  <2> QED BY <1>4, <1>5, <2>1, <2>2 DEF TargetCrossed, Reaches, Beyond, Gain
<1>9. -(g * q) <= state'.mae /\ g * q <= state'.mfe
  <2>1. CASE reference = price
    <3>1. g = h
      BY <2>1
    <3>2. g * q \in Int
      BY <1>3, <1>6, Arithmetic
    <3> HIDE DEF g, h, q
    <3> QED BY <1>3, <3>1, <3>2
  <2>2. CASE g <= h /\ 0 <= g
    <3>1. g * q <= h * q /\ 0 * q <= g * q /\ g * q \in Int /\ h * q \in Int
      BY <1>3, <1>6, <2>2, Scaled, Arithmetic
    <3>2. 0 * q = 0
      BY <1>3
    <3> HIDE DEF g, h, q
    <3> DEFINE gq == g * q
               hq == h * q
    <3>3. gq <= hq /\ 0 <= gq /\ gq \in Int /\ hq \in Int /\ state'.mfe >= hq
      BY <1>3, <3>1, <3>2
    <3> HIDE DEF gq, hq
    <3>4. -gq <= state'.mae /\ gq <= state'.mfe
      BY <1>3, <3>3
    <3> QED BY <3>4 DEF gq
  <2> QED BY <1>8, <2>1, <2>2
<1>10. OfferWithinExcursions'
  BY <1>3, <1>7, <1>9 DEF OfferWithinExcursions
<1> QED BY <1>3, <1>10 DEF OfferInv, Beyond

LEMMA OfferStep == TypeInv /\ OfferInv /\ [Next]_vars => OfferInv'
<1> SUFFICES ASSUME TypeInv, OfferInv, [Next]_vars PROVE OfferInv'
  OBVIOUS
<1>1. CASE \E b \in 0..MaxBars : ValidCandle(b) /\ Requested(b)
  BY <1>1, OfferRequest
<1>2. CASE \E b \in 0..MaxBars, c \in Candles : ValidCandle(b) /\ Hold(b, c)
  <2>1. state'.plan = state.plan /\ state'.entry = state.entry /\ state'.decision = None
    BY <1>2, HoldType
  <2> QED BY <2>1 DEF OfferInv, OfferWithinExcursions, Beyond
<1>3. CASE ApplyExitFill
  <2>1. state'.plan = state.plan /\ state'.entry = state.entry /\ state'.decision = None
    BY <1>3, FillType
  <2> QED BY <2>1 DEF OfferInv, OfferWithinExcursions, Beyond
<1>4. CASE UNCHANGED state
  BY <1>4 DEF OfferInv, OfferWithinExcursions, Beyond, Gain
<1> QED BY <1>1, <1>2, <1>3, <1>4, Steps DEF vars

\* No offer is made at a price the recorded excursions do not cover.
THEOREM OfferCovered == Spec => []OfferWithinExcursions
<1>1. TypeInv /\ OfferInv /\ [Next]_vars => OfferInv'
  BY OfferStep
<1>2. Spec => []OfferInv
  BY <1>1, OfferInit, TypeAlways, PTL DEF Spec
<1>3. OfferInv => OfferWithinExcursions
  BY DEF OfferInv
<1> QED BY <1>2, <1>3, PTL

LEMMA ExitInit == Init => Exit!Init
<1> SUFFICES ASSUME Init PROVE Exit!Init
  OBVIOUS
<1>1. PICK p \in Plans, e \in Prices :
        state = [plan |-> p, entry |-> e, remaining |-> Quantity, filled |-> 0,
                 stop |-> p.stop, stopReason |-> "STOP_LOSS", trailing |-> FALSE,
                 mae |-> 0, mfe |-> 0, bar |-> -1,
                 pending |-> FALSE, reason |-> None, ambiguous |-> FALSE,
                 decision |-> None, sequence |-> 0, closed |-> FALSE]
  BY DEF Init
<1>2. p.holding \in Nat \ {0}
  BY PositionBounds DEF Plan
<1> QED BY <1>1, <1>2 DEF Exit!Init

LEMMA RequestAsks ==
    ASSUME TypeInv, NEW b \in 0..MaxBars, ValidCandle(b), Requested(b)
    PROVE Exit!Ask \/ Exit!AskAgain
<1>1. PICK price, from, reference, reason, ambiguous :
        /\ Request(b, price, from, reference, reason, ambiguous)
        /\ AskedShape(state', b, price, from, reference, reason, ambiguous)
  BY RequestsPend
<1>2. /\ state'.plan = state.plan /\ state'.remaining = state.remaining
      /\ state'.bar = b /\ state'.closed = FALSE /\ ~state.closed
      /\ state'.pending = TRUE /\ state'.reason = reason
      /\ state'.decision # None
      /\ state'.decision.from = from /\ state'.decision.until = Closes(b)
  BY <1>1, PositionBounds DEF AskedShape, ValidCandle, TypeInv, TypeOK, Position
<1>3. /\ from \in {Opens(b), Closes(b)} /\ reason \in Reasons /\ ambiguous \in BOOLEAN
  BY <1>1 DEF Request
<1>4. IF state.bar = -1 THEN b = 0 ELSE b \in Nat /\ b > state.bar
  BY PositionBounds DEF ValidCandle
<1>5. Opens(b) = Exit!Opens(b) /\ Closes(b) = Exit!Closes(b)
  BY DEF Opens, Closes, Exit!Opens, Exit!Closes
<1>6. CASE state.pending
  <2>1. /\ reason = state.reason /\ ambiguous = state.ambiguous /\ from = Opens(b)
    BY <1>1, <1>6 DEF Request
  <2>2. state'.ambiguous = state.ambiguous
    BY <1>1, <2>1 DEF AskedShape, TypeInv, TypeOK, Position
  <2>3. Exit!AskAgain
    BY <1>2, <1>4, <1>5, <1>6, <2>1, <2>2 DEF Exit!AskAgain, Exit!Advance, Exit!AtOpen
  <2> QED BY <2>3
<1>7. CASE ~state.pending
  <2>1. /\ ambiguous => reason \in Stops /\ from = Closes(b)
        /\ reason = "TIMEOUT" => b >= state.plan.holding
        /\ b >= state.plan.holding => from = Opens(b)
    BY <1>1, <1>7 DEF Request, Expired
  <2>2. state.ambiguous = FALSE
    BY <1>2, <1>7 DEF TypeInv, Links, TypeOK, Position
  <2>3. state'.ambiguous = ambiguous
    BY <1>1, <1>3, <2>2 DEF AskedShape
  <2>4. reason \in Exit!Stops \cup {"TAKE_PROFIT", "TIMEOUT"} /\ Stops = Exit!Stops
    BY <1>3 DEF Reasons, Stops, Exit!Stops
  <2>5. Exit!Ask
    BY <1>2, <1>3, <1>4, <1>5, <1>7, <2>1, <2>3, <2>4
    DEF Exit!Ask, Exit!Advance, Exit!AtOpen, Exit!AtClose
  <2> QED BY <2>5
<1> QED BY <1>6, <1>7

LEMMA ExitStep == TypeInv /\ [Next]_vars => [Exit!Next]_(Exit!vars)
<1> SUFFICES ASSUME TypeInv, [Next]_vars PROVE [Exit!Next]_(Exit!vars)
  OBVIOUS
<1>1. CASE \E b \in 0..MaxBars : ValidCandle(b) /\ Requested(b)
  BY <1>1, RequestAsks DEF Exit!Next
<1>2. CASE \E b \in 0..MaxBars, c \in Candles : ValidCandle(b) /\ Hold(b, c)
  <2>1. PICK b \in 0..MaxBars, c \in Candles : ValidCandle(b) /\ Hold(b, c)
    BY <1>2
  <2>2. /\ state'.bar = b /\ state'.plan = state.plan
        /\ state'.remaining = state.remaining /\ state'.decision = None
        /\ ~state'.pending /\ ~state'.closed
        /\ ~state.pending /\ ~state.closed /\ state.decision = None
    BY <2>1, HoldType DEF ValidCandle, Hold, Survives, InsideAtOpen, TypeInv, Links
  <2>3. b < state.plan.holding
    <3>1. state.plan.holding \in Nat
      BY PlanFields DEF TypeInv, TypeOK
    <3> QED BY <2>1, <3>1 DEF Hold, Survives, Expired
  <2>4. IF state.bar = -1 THEN b = 0 ELSE b \in Nat /\ b > state.bar
    BY <2>1, PositionBounds DEF ValidCandle
  <2>5. Exit!Hold
    BY <2>2, <2>3, <2>4 DEF Exit!Hold, Exit!Advance
  <2> QED BY <2>5 DEF Exit!Next
<1>3. CASE ApplyExitFill
  <2>1. PICK q \in 1..state.remaining, t \in state.decision.from..state.decision.until : FillOf(q, t)
    BY <1>3, FillType
  <2>2. /\ state.pending /\ ~state.closed /\ state.decision # None
        /\ state.decision.reason = state.reason
    BY <1>3 DEF ApplyExitFill, TypeInv, Links
  <2>3. /\ state'.bar = state.bar /\ state'.plan = state.plan /\ state'.decision = None
        /\ state'.reason = state.reason /\ state'.ambiguous = state.ambiguous
        /\ state'.pending = ~state'.closed
    BY <1>3, FillType
  <2>4. /\ state'.remaining = state.remaining - q
        /\ state'.closed = (q = state.remaining)
    BY <2>1 DEF FillOf, Filled, TypeInv, TypeOK, Position
  <2>5. [from |-> state.decision.from, until |-> state.decision.until] # None
    <3>1. state.decision \in Decision
      BY <2>2 DEF TypeInv, TypeOK, Position
    <3> QED BY <3>1, PositionBounds DEF Decision
  <2>6. CASE q = state.remaining
    <3>1. state'.closed = TRUE
          /\ record' = [reason |-> state.reason, ambiguous |-> state.ambiguous]
      BY <2>1, <2>2, <2>4, <2>6 DEF FillOf
    <3>2. Exit!Fill
      BY <2>2, <2>3, <2>4, <2>5, <2>6, <3>1 DEF Exit!Fill
    <3> QED BY <3>2 DEF Exit!Next
  <2>7. CASE q # state.remaining
    <3>1. state'.closed = FALSE /\ state'.pending = TRUE
      BY <2>3, <2>4, <2>7
    <3>2. Exit!Fill
      BY <2>2, <2>3, <2>4, <2>5, <2>7, <3>1 DEF Exit!Fill
    <3> QED BY <3>2 DEF Exit!Next
  <2> QED BY <2>6, <2>7
<1>4. CASE UNCHANGED <<state, record>>
  BY <1>4 DEF Exit!vars
<1> QED BY <1>1, <1>2, <1>3, <1>4, Steps DEF vars

\* The barrier engine keeps the promise of ExitRequest for every plan and
\* history: one reason from first decision to record, none reversed or late.
THEOREM Implements == Spec => ImplementsExitRequest
<1>1. Init => Exit!Init
  BY ExitInit
<1>2. TypeInv /\ [Next]_vars => [Exit!Next]_(Exit!vars)
  BY ExitStep
<1> QED BY <1>1, <1>2, TypeAlways, PTL DEF Spec, ImplementsExitRequest, Exit!Spec
=============================================================================
