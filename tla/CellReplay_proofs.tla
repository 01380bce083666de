------------------------- MODULE CellReplay_proofs -------------------------
(***************************************************************************)
(* What TLAPS proves of a cell, for all intents, latencies, candle counts  *)
(* and volumes: of the candle loop (ManagedCell) and of the ledgers it     *)
(* leaves.  Funding is complete, the loop treats its position only as      *)
(* ExitRequest allows, and the validator of CellReplay accepts the result. *)
(***************************************************************************)
EXTENDS CellReplay, TLAPS, WellFoundedInduction

----------------------------------------------------------------------------
(* The candle loop.                                                        *)

Consuming == pc \in {"barrier", "resting", "application", "entered", "last"}

\* A candle is consumed only by a position, and only a position schedules an exit.
Where ==
    /\ Consuming \/ pc = "entries" => index < Candles
    /\ Consuming => position # None
    /\ position = None => exit = None

\* The position that is held entered with room for its exit and its grace.
Held ==
    position # None =>
        /\ position.intent \in Intents
        /\ dispositions[position.intent] # None
        /\ position.entry <= index
        /\ Deadline(position.intent, position.entry) < Candles
        /\ \E k \in DOMAIN fills : fills[k].intent = position.intent /\ IsEntry(fills[k])
        /\ position.decision # None => position.decision.requested = position.remaining
        /\ IF position.pending THEN position.reason # None /\ position.bar # -1
           ELSE position.decision = None /\ exit = None
        /\ exit # None /\ pc # "illiquid" =>
              /\ exit.ready <= Deadline(position.intent, position.entry)
              /\ exit.ready < Candles

DecidedAt(times) == position.decision # None /\ position.decision.from \in times

\* An exit that has been asked for is filled in this candle or scheduled, and one
\* that has not been asked for is asked for at its timeout.
Stage ==
    position # None =>
        /\ pc \in {"open", "barrier"} =>
              IF position.pending THEN exit # None /\ index <= exit.ready
              ELSE index <= position.entry + Holding(position.intent)
        /\ pc = "resting" => position.pending /\ exit = None /\ DecidedAt({Opens(index)})
        /\ pc = "application" => position.pending /\ exit # None /\ DecidedAt({Opens(index)})
        /\ pc = "last" => /\ position.pending /\ exit = None
                          /\ DecidedAt({Opens(index), Closes(index)})
        /\ pc \in {"entries", "entered"} =>
              \/ ~position.pending /\ index < position.entry + Holding(position.intent)
              \/ /\ pc = "entries" /\ position.pending /\ exit # None
                 /\ index < exit.ready
                 /\ position.decision # None => position.decision.from = Opens(index)
              \/ /\ pc = "entries" /\ position.pending /\ exit = None
                 /\ DecidedAt({Closes(index)})

\* What is closed was disposed of, and closed by now.
Past ==
    \A k \in DOMAIN trades :
        /\ trades[k].intent \in Intents
        /\ dispositions[trades[k].intent] # None
        /\ position = None =>
              /\ trades[k].exit <= Opens(index)
              /\ pc = "open" => trades[k].exit < Opens(index)

IInv == /\ TypeOK /\ Where /\ Held /\ Stage /\ Past
        /\ OnePositionAtATime /\ NeverHeldTooLong /\ FailsOnlyWithoutLiquidity

----------------------------------------------------------------------------
\* The types of what an intent and the policy say.
LEMMA SetupFields ==
    ASSUME TypeOK
    PROVE /\ setup.latency \in Nat /\ setup.exitLatency \in Nat /\ setup.grace \in Nat
          /\ setup.exitLatency <= 2 * setup.grace
          /\ setup.intents \in Seq(Intent)
          /\ \A i \in Intents : i \in Nat \ {0} /\ setup.intents[i] \in Intent
<1>1. setup \in Setup /\ ValidSetup(setup)
  BY CellBounds DEF TypeOK
<1>2. setup.intents \in Seq(Intent)
  BY <1>1 DEF Setup
<1>3. \A i \in Intents : i \in Nat \ {0} /\ setup.intents[i] \in Intent
  BY <1>2 DEF Intents
<1> QED BY <1>1, <1>2, <1>3 DEF Setup, ValidSetup

\* The times of an intent.
LEMMA IntentTimes ==
    ASSUME TypeOK, NEW i \in Intents
    PROVE /\ Holding(i) \in Nat \ {0}
          /\ Causal(i) \in Nat /\ EntryIndex(i) \in Nat
          /\ \A e \in Nat : Deadline(i, e) \in Nat /\ e + Holding(i) <= Deadline(i, e)
          /\ setup.intents[i].decision \in Nat
          /\ i \in Nat \ {0}
<1>1. setup.intents[i] \in Intent /\ setup.latency \in Nat /\ setup.grace \in Nat
      /\ i \in Nat \ {0}
  BY SetupFields
<1>2. Holding(i) \in Nat \ {0} /\ Causal(i) \in Nat /\ setup.intents[i].decision \in Nat
  BY <1>1 DEF Holding, Causal, Intent, Max2
<1>3. EntryIndex(i) \in Nat
  BY <1>2 DEF EntryIndex, IndexAt
<1> QED BY <1>1, <1>2, <1>3 DEF Deadline

LEMMA PositionFields ==
    ASSUME TypeOK, position # None
    PROVE /\ position \in Position
          /\ position.intent \in Nat \ {0} /\ position.entry \in Nat
          /\ position.remaining \in Nat \ {0} /\ position.bar \in Nat \cup {-1}
          /\ position.pending \in BOOLEAN /\ position.ambiguous \in BOOLEAN
          /\ position.reason \in Reasons \cup {None} /\ position.sequence \in Nat
          /\ position.decision \in Decision \cup {None}
          /\ index \in Nat /\ capacity \in Nat /\ volume \in Nat
<1>1. position \in Position
  BY DEF TypeOK
<1>2. index \in Nat /\ capacity \in Nat /\ volume \in Nat
  BY CellBounds DEF TypeOK
<1> QED BY <1>1, <1>2 DEF Position

LEMMA DecisionFields ==
    ASSUME NEW d \in Decision
    PROVE /\ d.from \in Nat /\ d.until \in Nat /\ d.requested \in Nat \ {0}
          /\ d.reason \in Reasons /\ d.ambiguous \in BOOLEAN /\ d # None
BY NoneIsNoValue DEF Decision

\* When a scheduled exit may be tried.
LEMMA ScheduleFields ==
    ASSUME TypeOK, NEW decided \in Nat, NEW minimum \in Nat
    PROVE /\ Schedule(decided, minimum) \in Scheduled
          /\ Schedule(decided, minimum) # None
          /\ Schedule(decided, minimum).ready \in Nat
          /\ Schedule(decided, minimum).ready >= minimum
          /\ Schedule(decided, minimum).ready
                = Max2(IndexAt(decided + setup.exitLatency), minimum)
<1>1. setup.exitLatency \in Nat
  BY SetupFields
<1>2. IndexAt(decided + setup.exitLatency) \in Nat
  BY <1>1 DEF IndexAt
<1>3. /\ Max2(IndexAt(decided + setup.exitLatency), minimum) \in Nat
      /\ Max2(IndexAt(decided + setup.exitLatency), minimum) >= minimum
  BY <1>2 DEF Max2
<1>4. decided + setup.exitLatency \in Nat
  BY <1>1
<1>5. Schedule(decided, minimum) \in Scheduled
  BY <1>3, <1>4 DEF Schedule, Scheduled
<1> QED BY <1>3, <1>5, NoneIsNoValue DEF Schedule

\* A timeout leaves the latency of an exit within the grace.
LEMMA TimeoutFits ==
    ASSUME TypeOK, index \in Nat
    PROVE /\ Schedule(Opens(index), index).ready <= index + setup.grace
          /\ Schedule(Opens(index), index).decided = Opens(index)
<1>1. Opens(index) \in Nat
  BY DEF Opens
<1>2. Schedule(Opens(index), index).ready
        = Max2(IndexAt(Opens(index) + setup.exitLatency), index)
  BY <1>1, ScheduleFields
<1>3. IndexAt(Opens(index) + setup.exitLatency) <= index + setup.grace
  BY SetupFields DEF IndexAt, Opens
<1>4. IndexAt(Opens(index) + setup.exitLatency) \in Nat
  BY <1>1, SetupFields DEF IndexAt
<1> QED BY <1>2, <1>3, <1>4, SetupFields DEF Max2, Schedule

\* The position once on_candle has asked for an exit.
AskedShape(s, from, reason, ambiguous) ==
    /\ s \in Position /\ s # None
    /\ s.intent = position.intent /\ s.entry = position.entry
    /\ s.remaining = position.remaining /\ s.bar = Bar
    /\ s.pending = TRUE /\ s.reason = reason
    /\ s.ambiguous = (position.ambiguous \/ ambiguous)
    /\ s.decision \in Decision /\ s.decision # None
    /\ s.decision.from = from /\ s.decision.until = Closes(index)
    /\ s.decision.requested = position.remaining

LEMMA AskingFields ==
    ASSUME TypeOK, position # None, position.entry <= index,
           NEW from \in Nat, NEW reason \in Reasons, NEW ambiguous \in BOOLEAN
    PROVE AskedShape(Asking(from, reason, ambiguous), from, reason, ambiguous)
<1> DEFINE d == [sequence |-> position.sequence + 1, from |-> from, until |-> Closes(index),
                 requested |-> position.remaining, reason |-> reason, ambiguous |-> ambiguous]
           a == position.ambiguous \/ ambiguous
           n == position.sequence + 1
           s == Asking(from, reason, ambiguous)
<1>1. position \in Position /\ index \in Nat
  BY PositionFields
<1>2. Bar \in Nat
  BY PositionFields DEF Bar
<1>3. d \in Decision
  BY PositionFields, <1>1 DEF Decision, Closes
<1>4. a \in BOOLEAN /\ n \in Nat
  BY PositionFields
<1>5. s = [position EXCEPT !.bar = Bar, !.pending = TRUE, !.reason = reason,
                           !.ambiguous = a, !.sequence = n, !.decision = d]
  BY DEF Asking
<1>6. s \in Position
  <2> HIDE DEF d, a, n, s
  <2> QED BY <1>1, <1>2, <1>3, <1>4, <1>5 DEF Position
<1>7. /\ s.intent = position.intent /\ s.entry = position.entry
      /\ s.remaining = position.remaining /\ s.bar = Bar
      /\ s.pending = TRUE /\ s.reason = reason /\ s.ambiguous = a /\ s.decision = d
  <2> HIDE DEF d, a, n, s
  <2> QED BY <1>1, <1>5 DEF Position
<1>8. d.from = from /\ d.until = Closes(index) /\ d.requested = position.remaining
  OBVIOUS
<1> HIDE DEF d, s
<1> QED BY <1>3, <1>6, <1>7, <1>8, NoneIsNoValue DEF AskedShape, s, a

----------------------------------------------------------------------------
\* What execute_exit leaves: a closed trade, or an exit planned for a later candle
\* that is in time unless the fill fell short.
ClosedBehind(next) ==
    /\ position' = None /\ exit' = None /\ pc' = next
    /\ trades' = Append(trades, Closed(position.decision.from))

PlannedAhead(next) ==
    /\ position' \in Position /\ position' # None
    /\ position'.intent = position.intent /\ position'.entry = position.entry
    /\ position'.bar = position.bar /\ position'.reason = position.reason
    /\ position'.pending = TRUE
    /\ position'.decision # None => /\ position'.decision = position.decision
                                  /\ position'.decision.requested = position'.remaining
    /\ exit' \in Scheduled /\ exit' # None /\ exit'.ready >= index + 1
    /\ trades' = trades
    /\ \/ /\ pc' = next /\ exit'.ready < Candles
          /\ exit'.ready <= Deadline(position.intent, position.entry)
       \/ pc' = "illiquid" /\ Last(fills').filled < Last(fills').requested

ExecutedExit(next) ==
    /\ UNCHANGED <<setup, volume, dispositions, funding>>
    /\ capacity' \in 0..volume
    /\ \E f \in Fill : fills' = Append(fills, f) /\ f.intent = position.intent
    /\ ClosedBehind(next) \/ PlannedAhead(next)

LEMMA MinFields ==
    ASSUME NEW a \in Nat, NEW b \in Nat
    PROVE Min2(a, b) \in Nat /\ Min2(a, b) <= a /\ Min2(a, b) <= b
BY DEF Min2

LEMMA AppendedLast ==
    ASSUME NEW S, NEW s \in Seq(S), NEW e \in S
    PROVE /\ Append(s, e) \in Seq(S) /\ Append(s, e) # <<>> /\ Last(Append(s, e)) = e
          /\ Len(Append(s, e)) = Len(s) + 1 /\ Append(s, e)[Len(s) + 1] = e
          /\ \A k \in 1..Len(s) : Append(s, e)[k] = s[k]
BY DEF Last

LEMMA ExecuteFields ==
    ASSUME TypeOK, Held, position # None, position.pending,
           DecidedAt({Opens(index), Closes(index)}),
           NEW origin \in {"RESTING_BARRIER", "APPLICATION_EXIT"},
           NEW decided \in Nat, NEW eligible \in Nat, NEW next,
           ExecuteExit(origin, decided, eligible, next)
    PROVE ExecutedExit(next)
<1> DEFINE f == Executed(origin, decided, eligible)
           d == position.decision
           retry == Schedule(f.at, index + 1)
<1>1. /\ position \in Position /\ index \in Nat /\ capacity \in Nat /\ volume \in Nat
      /\ position.remaining \in Nat /\ position.intent \in Nat \ {0}
  BY PositionFields
<1>2. /\ d \in Decision /\ d # None /\ d.from \in Nat /\ d.requested \in Nat \ {0}
      /\ d.requested = position.remaining
  BY PositionFields, DecisionFields DEF DecidedAt, Held
<1>3. /\ FilledQuantity(d.requested) \in Nat
      /\ FilledQuantity(d.requested) <= d.requested /\ FilledQuantity(d.requested) <= capacity
  BY <1>1, <1>2, MinFields DEF FilledQuantity
<1>4. /\ f \in Fill /\ f.intent = position.intent /\ f.at = d.from
      /\ f.requested = d.requested /\ f.filled = FilledQuantity(d.requested)
      /\ f.after = capacity - FilledQuantity(d.requested)
  <2>1. capacity - FilledQuantity(d.requested) \in Nat
    BY <1>1, <1>3
  <2> QED BY <1>1, <1>2, <1>3, <2>1 DEF Executed, Fill
<1>5. /\ retry \in Scheduled /\ retry # None /\ retry.ready \in Nat
      /\ retry.ready >= index + 1
  <2>1. f.at \in Nat /\ index + 1 \in Nat
    BY <1>1, <1>2, <1>4
  <2> HIDE DEF f
  <2> QED BY <2>1, ScheduleFields
<1>6. /\ fills' = Append(fills, f) /\ capacity' = f.after
      /\ UNCHANGED <<setup, volume, dispositions, funding>>
  BY DEF ExecuteExit
<1>7. capacity' \in 0..volume
  <2>1. capacity \in 0..volume
    BY DEF TypeOK
  <2> HIDE DEF f, d
  <2> QED BY <1>1, <1>3, <1>4, <1>6, <2>1
<1>8. Last(fills') = f
  <2>1. fills \in Seq(Fill)
    BY DEF TypeOK
  <2> HIDE DEF f
  <2> QED BY <1>4, <1>6, <2>1, AppendedLast
<1>9. CASE f.filled = position.remaining
  <2>1. ClosedBehind(next)
    BY <1>4, <1>9 DEF ExecuteExit, ClosedBehind
  <2> QED BY <1>4, <1>6, <1>7, <2>1 DEF ExecutedExit
<1>10. CASE f.filled # position.remaining
  <2>1. /\ position' = IF f.filled = 0 THEN position
                       ELSE [position EXCEPT !.remaining = @ - f.filled, !.decision = None]
        /\ exit' = retry
        /\ pc' = IF CannotFill(retry) THEN "illiquid" ELSE next
        /\ trades' = trades
    BY <1>10 DEF ExecuteExit
  <2>2. position.remaining - f.filled \in Nat \ {0}
    <3> HIDE DEF f, d
    <3> QED BY <1>1, <1>2, <1>3, <1>4, <1>10
  <2>3. /\ position' \in Position /\ position' # None
        /\ position'.intent = position.intent /\ position'.entry = position.entry
        /\ position'.bar = position.bar /\ position'.reason = position.reason
        /\ position'.pending = TRUE
        /\ position'.decision # None => /\ position'.decision = d
                                      /\ d.requested = position'.remaining
    <3>0. position.pending = TRUE
      BY PositionFields
    <3>1. CASE f.filled = 0
      BY <1>1, <1>2, <2>1, <3>0, <3>1
    <3>2. CASE f.filled # 0
      <4> DEFINE left == position.remaining - f.filled
      <4>1. position' = [position EXCEPT !.remaining = left, !.decision = None]
        BY <2>1, <3>2
      <4> HIDE DEF f, left
      <4>2. position' \in Position
        BY <1>1, <2>2, <4>1 DEF Position, left
      <4>3. /\ position'.intent = position.intent /\ position'.entry = position.entry
            /\ position'.bar = position.bar /\ position'.reason = position.reason
            /\ position'.pending = TRUE /\ position'.decision = None
        BY <1>1, <3>0, <4>1 DEF Position
      <4> QED BY <4>2, <4>3, NoneIsNoValue
    <3> QED BY <3>1, <3>2
  <2>4. \/ /\ pc' = next /\ exit'.ready < Candles
           /\ exit'.ready <= Deadline(position.intent, position.entry)
        \/ pc' = "illiquid" /\ Last(fills').filled < Last(fills').requested
    <3>1. Deadline(position.intent, position.entry) \in Nat
      BY <1>1, PositionFields, IntentTimes DEF Held
    <3>2. f.filled < f.requested
      <4> HIDE DEF f, d
      <4> QED BY <1>1, <1>2, <1>3, <1>4, <1>10
    <3>3. CASE CannotFill(retry)
      <4> HIDE DEF f, retry
      <4> QED BY <1>8, <2>1, <3>2, <3>3
    <3>4. CASE ~CannotFill(retry)
      <4> HIDE DEF f, retry
      <4> QED BY <1>5, <2>1, <3>1, <3>4, CellBounds DEF CannotFill
    <3> QED BY <3>3, <3>4
  <2>5. PlannedAhead(next)
    <3> HIDE DEF f, retry
    <3> QED BY <1>5, <2>1, <2>3, <2>4 DEF PlannedAhead
  <2> QED BY <1>4, <1>6, <1>7, <2>5 DEF ExecutedExit
<1> QED BY <1>9, <1>10

\* The trade that a whole fill closes.
LEMMA ClosedFields ==
    ASSUME TypeOK, Held, position # None, position.pending,
           NEW at \in Nat
    PROVE /\ Closed(at) \in Trade /\ Closed(at).intent = position.intent
          /\ Closed(at).entry = Opens(position.entry) /\ Closed(at).exit = at
<1> DEFINE mine == {k \in DOMAIN fills : fills[k].intent = position.intent
                                         /\ fills[k].origin = "ENTRY_SIGNAL"}
<1>1. mine # {}
  BY DEF Held, IsEntry
<1>2. (CHOOSE k \in mine : TRUE) \in DOMAIN fills
  BY <1>1
<1>3. fills \in Seq(Fill)
  BY DEF TypeOK
<1>4. fills[CHOOSE k \in mine : TRUE] \in Fill
  <2> HIDE DEF mine
  <2> QED BY <1>2, <1>3
<1>5. EntryFilled(position.intent) \in Nat
  BY <1>4 DEF EntryFilled, Fill
<1>6. position.reason \in Reasons /\ position.ambiguous \in BOOLEAN
      /\ position.intent \in Nat \ {0} /\ Opens(position.entry) \in Nat
  BY PositionFields DEF Held, Opens
<1> QED BY <1>5, <1>6 DEF Closed, Trade

\* The three places of the loop that fill an exit keep the invariant.
LEMMA ExitPreserves ==
    ASSUME IInv, position # None, position.pending, index < Candles,
           DecidedAt({Opens(index), Closes(index)}),
           NEW next,
           ExecutedExit(next),
           \/ next = "entries" /\ index' = index /\ position.decision.from = Opens(index)
           \/ next = "open" /\ index' = index + 1
    PROVE IInv'
<1> USE DEF IInv
<1>1. PICK f \in Fill : fills' = Append(fills, f) /\ f.intent = position.intent
  BY DEF ExecutedExit
<1>2. /\ setup' = setup /\ volume' = volume /\ dispositions' = dispositions
      /\ funding' = funding /\ capacity' \in 0..volume
      /\ Intents' = Intents
  BY DEF ExecutedExit, Intents
<1>3. /\ position \in Position /\ index \in Nat /\ position.entry \in Nat
      /\ position.intent \in Intents /\ position.entry <= index
      /\ Candles \in Nat
  BY PositionFields, CellBounds DEF Held
<1>4. /\ position.decision.from \in Nat
      /\ position.decision.from \in {Opens(index), Closes(index)}
  BY <1>3 DEF DecidedAt, Opens, Closes
<1>5. index' \in 0..Candles /\ index' \in Nat /\ index <= index'
  BY <1>3
<1>6. /\ fills \in Seq(Fill) /\ fills' \in Seq(Fill) /\ Last(fills') = f
      /\ DOMAIN fills' = 1..Len(fills) + 1 /\ fills' # <<>>
      /\ \A k \in DOMAIN fills : k \in DOMAIN fills' /\ fills'[k] = fills[k]
      /\ fills'[Len(fills) + 1] = f
  <2>1. fills \in Seq(Fill)
    BY DEF TypeOK
  <2> QED BY <1>1, <2>1, AppendedLast
<1>7. \A i, e : Holding(i)' = Holding(i) /\ Deadline(i, e)' = Deadline(i, e)
  BY <1>2 DEF Holding, Deadline
<1>8. trades \in Seq(Trade)
  BY DEF TypeOK
<1>9. CASE ClosedBehind(next)
  <2> DEFINE t == Closed(position.decision.from)
  <2>1. /\ t \in Trade /\ t.intent = position.intent
        /\ t.entry = Opens(position.entry) /\ t.exit = position.decision.from
    BY <1>4, ClosedFields
  <2>2. position' = None /\ exit' = None /\ pc' = next /\ trades' = Append(trades, t)
    BY <1>9 DEF ClosedBehind
  <2> HIDE DEF t
  <2>3. /\ trades' \in Seq(Trade) /\ DOMAIN trades' = 1..Len(trades) + 1
        /\ \A k \in DOMAIN trades : k \in DOMAIN trades' /\ trades'[k] = trades[k]
        /\ trades'[Len(trades) + 1] = t
        /\ \A k \in DOMAIN trades' : k \in DOMAIN trades \/ k = Len(trades) + 1
    BY <1>8, <2>1, <2>2, AppendedLast
  <2>4. TypeOK'
    BY <1>1, <1>2, <1>5, <1>6, <2>2, <2>3 DEF TypeOK, PCs
  <2>5. Where'
    BY <1>3, <2>2 DEF Where, Consuming
  <2>6. Held' /\ Stage'
    BY <2>2 DEF Held, Stage
  <2>7. Past'
    <3>1. \A k \in DOMAIN trades : trades[k].exit <= Opens(position.entry)
      BY DEF OnePositionAtATime
    <3>2. \A k \in DOMAIN trades' :
            trades'[k].exit <= Opens(position.entry) \/ trades'[k].exit = position.decision.from
      BY <2>1, <2>3, <3>1
    <3>3. \A k \in DOMAIN trades' : trades'[k].exit \in Nat
      <4>1. \A k \in DOMAIN trades' : trades'[k] \in Trade
        BY <2>3
      <4> QED BY <4>1 DEF Trade
    <3>4. \A k \in DOMAIN trades' :
             trades'[k].intent \in Intents /\ dispositions[trades'[k].intent] # None
      BY <1>3, <2>1, <2>3 DEF Past, Held
    <3>5. \A k \in DOMAIN trades' :
             trades'[k].exit <= Opens(index)' /\ (next = "open" => trades'[k].exit < Opens(index)')
      BY <1>3, <1>4, <3>2, <3>3 DEF Opens, Closes
    <3> QED BY <1>2, <2>2, <3>4, <3>5 DEF Past
  <2>8. OnePositionAtATime'
    <3>1. ClosedIntents' = ClosedIntents \cup {position.intent}
      BY <2>1, <2>3 DEF ClosedIntents
    <3>2. \A k \in DOMAIN trades', m \in DOMAIN trades' :
             k < m => trades'[k].exit <= trades'[m].entry /\ trades'[k].intent # trades'[m].intent
      <4> SUFFICES ASSUME NEW k \in DOMAIN trades', NEW m \in DOMAIN trades', k < m
                   PROVE trades'[k].exit <= trades'[m].entry
                         /\ trades'[k].intent # trades'[m].intent
        OBVIOUS
      <4>1. k \in DOMAIN trades
        BY <1>8, <2>3
      <4>2. CASE m \in DOMAIN trades
        BY <2>3, <4>1, <4>2 DEF OnePositionAtATime
      <4>3. CASE m = Len(trades) + 1
        BY <2>1, <2>3, <4>1, <4>3 DEF OnePositionAtATime, ClosedIntents
      <4> QED BY <2>3, <4>2, <4>3
    <3>3. \A k \in DOMAIN fills' : fills'[k].intent \in ClosedIntents'
      BY <1>1, <1>6, <3>1 DEF OnePositionAtATime
    <3> QED BY <2>2, <3>2, <3>3 DEF OnePositionAtATime
  <2>9. NeverHeldTooLong' /\ FailsOnlyWithoutLiquidity'
    BY <2>2 DEF NeverHeldTooLong, FailsOnlyWithoutLiquidity
  <2> QED BY <2>4, <2>5, <2>6, <2>7, <2>8, <2>9
<1>10. CASE PlannedAhead(next)
  <2>1. /\ position' \in Position /\ position' # None
        /\ position'.intent = position.intent /\ position'.entry = position.entry
        /\ position'.bar = position.bar /\ position'.reason = position.reason
        /\ position'.pending = TRUE
        /\ position'.decision # None => /\ position'.decision = position.decision
                                      /\ position'.decision.requested = position'.remaining
        /\ exit' \in Scheduled /\ exit' # None /\ exit'.ready >= index + 1
        /\ trades' = trades
        /\ \/ /\ pc' = next /\ exit'.ready < Candles
              /\ exit'.ready <= Deadline(position.intent, position.entry)
           \/ pc' = "illiquid" /\ Last(fills').filled < Last(fills').requested
    BY <1>10 DEF PlannedAhead
  <2>2. exit'.ready \in Nat
    BY <2>1 DEF Scheduled
  <2>3. TypeOK'
    BY <1>1, <1>2, <1>5, <1>6, <2>1 DEF TypeOK, PCs
  <2>4. Where'
    BY <1>3, <2>1 DEF Where, Consuming
  <2>5. Held'
    <3>1. \E k \in DOMAIN fills' : fills'[k].intent = position.intent /\ IsEntry(fills'[k])
      BY <1>6 DEF Held
    <3>2. /\ position'.reason # None /\ position'.bar # -1
          /\ dispositions[position.intent] # None
          /\ Deadline(position.intent, position.entry) < Candles
      BY <2>1 DEF Held
    <3>3. position'.entry <= index'
      BY <1>3, <1>5, <2>1
    <3> QED BY <1>2, <1>3, <1>7, <2>1, <3>1, <3>2, <3>3 DEF Held
  <2>6. Stage'
    <3>1. CASE pc' = "illiquid"
      BY <3>1 DEF Stage
    <3>2. CASE pc' = "entries" /\ index' = index /\ position.decision.from = Opens(index)
      BY <1>3, <2>1, <2>2, <3>2 DEF Stage
    <3>3. CASE pc' = "open" /\ index' = index + 1
      BY <1>3, <2>1, <2>2, <3>3 DEF Stage
    <3> QED BY <2>1, <3>1, <3>2, <3>3
  <2>7. Past'
    BY <1>2, <2>1 DEF Past
  <2>8. OnePositionAtATime'
    <3>1. ClosedIntents' = ClosedIntents
      BY <2>1 DEF ClosedIntents
    <3>2. \A k \in DOMAIN fills' : \/ fills'[k].intent \in ClosedIntents
                                  \/ fills'[k].intent = position'.intent
      BY <1>1, <1>6, <2>1 DEF OnePositionAtATime
    <3>3. Opens(position.entry)' = Opens(position.entry)
      BY <2>1 DEF Opens
    <3> QED BY <2>1, <3>1, <3>2, <3>3 DEF OnePositionAtATime
  <2>9. NeverHeldTooLong' /\ FailsOnlyWithoutLiquidity'
    BY <1>6, <2>1 DEF NeverHeldTooLong, FailsOnlyWithoutLiquidity
  <2> QED BY <2>3, <2>4, <2>5, <2>6, <2>7, <2>8, <2>9
<1> QED BY <1>9, <1>10 DEF ExecutedExit

----------------------------------------------------------------------------
\* While the same position is held and nothing is filled or closed, what the
\* invariant says of trades stays true.
LEMMA SamePosition ==
    ASSUME IInv, position # None, position' # None,
           position'.intent = position.intent, position'.entry = position.entry,
           UNCHANGED <<setup, dispositions, fills, trades>>
    PROVE Past' /\ OnePositionAtATime'
<1>1. /\ ClosedIntents' = ClosedIntents /\ Intents' = Intents
      /\ Opens(position.entry)' = Opens(position.entry)
  BY DEF ClosedIntents, Intents, Opens
<1> QED BY <1>1 DEF IInv, Past, OnePositionAtATime

\* on_candle asks for an exit that is filled now, planned in time, or filled when
\* this candle has closed.
LEMMA AskingPreserves ==
    ASSUME IInv, position # None, index < Candles,
           NEW from \in {Opens(index), Closes(index)}, NEW reason \in Reasons,
           NEW ambiguous \in BOOLEAN,
           position' = Asking(from, reason, ambiguous),
           UNCHANGED Evidence,
           exit' \in Scheduled \cup {None},
           exit' # None => /\ exit'.ready <= Deadline(position.intent, position.entry)
                           /\ exit'.ready < Candles,
           \/ pc' = "resting" /\ exit' = None /\ from = Opens(index)
           \/ pc' = "application" /\ exit' # None /\ from = Opens(index)
           \/ pc' = "last" /\ exit' = None
           \/ pc' = "entries" /\ exit' # None /\ index < exit'.ready /\ from = Opens(index)
           \/ pc' = "entries" /\ exit' = None /\ from = Closes(index)
    PROVE IInv'
<1> USE DEF IInv
<1>1. index \in Nat /\ position.entry <= index /\ position.entry \in Nat
  BY PositionFields DEF Held
<1>2. from \in Nat /\ Bar \in Nat /\ Bar # -1
  BY <1>1 DEF Opens, Closes, Bar
<1>3. AskedShape(position', from, reason, ambiguous)
  BY <1>1, <1>2, AskingFields
<1>4. /\ position' \in Position /\ position' # None
      /\ position'.intent = position.intent /\ position'.entry = position.entry
      /\ position'.bar # -1 /\ position'.pending = TRUE /\ position'.reason = reason
      /\ position'.decision # None /\ position'.decision.from = from
      /\ position'.decision.requested = position'.remaining
  BY <1>2, <1>3 DEF AskedShape
<1>5. /\ setup' = setup /\ index' = index /\ volume' = volume /\ capacity' = capacity
      /\ dispositions' = dispositions /\ fills' = fills /\ funding' = funding
      /\ trades' = trades /\ Intents' = Intents
  BY DEF Evidence, Intents
<1>6. TypeOK'
  BY <1>4, <1>5 DEF TypeOK, PCs
<1>7. Where'
  BY <1>4, <1>5 DEF Where, Consuming
<1>8. \A i, e : Holding(i)' = Holding(i) /\ Deadline(i, e)' = Deadline(i, e)
  BY <1>5 DEF Holding, Deadline
<1>9. Held'
  <2>1. reason # None
    BY NoneIsNoValue
  <2> QED BY <1>1, <1>4, <1>5, <1>8, <2>1 DEF Held
<1>10. Stage'
  <2>1. Opens(index)' = Opens(index) /\ Closes(index)' = Closes(index)
    BY <1>5 DEF Opens, Closes
  <2> QED BY <1>4, <1>5, <2>1 DEF Stage, DecidedAt
<1>11. Past' /\ OnePositionAtATime'
  BY <1>4, <1>5, SamePosition
<1>12. NeverHeldTooLong' /\ FailsOnlyWithoutLiquidity'
  BY DEF NeverHeldTooLong, FailsOnlyWithoutLiquidity
<1> QED BY <1>6, <1>7, <1>9, <1>10, <1>11, <1>12

\* A candle that ends with the position neither asked nor filled.
LEMMA SurvivorPreserves ==
    ASSUME IInv, position # None, ~position.pending,
           index < Candles, index < position.entry + Holding(position.intent),
           position' = Survivor,
           UNCHANGED <<setup, volume, capacity, exit, dispositions, fills, funding, trades>>,
           \/ pc' = "entries" /\ index' = index
           \/ pc' = "open" /\ index' = index + 1
    PROVE IInv'
<1> USE DEF IInv
<1>1. /\ position \in Position /\ index \in Nat /\ position.entry <= index
      /\ position.entry \in Nat /\ Candles \in Nat
      /\ position.intent \in Intents
  BY PositionFields, CellBounds DEF Held
<1>2. Bar \in Nat
  BY <1>1 DEF Bar
<1>3. /\ position' \in Position
      /\ position'.intent = position.intent /\ position'.entry = position.entry
      /\ position'.decision = None /\ position'.pending = FALSE
  <2>1. position.pending = FALSE
    BY PositionFields
  <2> QED BY <1>1, <1>2, <2>1 DEF Survivor, Position
<1>4. position' # None
  BY <1>3, NoneIsNoValue
<1>5. index' \in 0..Candles /\ index <= index' /\ index' \in Nat
  BY <1>1
<1>6. TypeOK'
  BY <1>3, <1>5 DEF TypeOK, PCs, Intents
<1>7. \A i, e : Holding(i)' = Holding(i) /\ Deadline(i, e)' = Deadline(i, e)
  BY DEF Holding, Deadline
<1>8. exit' = None
  BY DEF Held
<1>9. Where'
  BY <1>1, <1>4 DEF Where, Consuming
<1>10. Held'
  BY <1>1, <1>3, <1>5, <1>7, <1>8 DEF Held, Intents
<1>11. Stage'
  <2>1. Holding(position.intent) \in Nat
    BY <1>1, IntentTimes
  <2> QED BY <1>1, <1>3, <1>7, <2>1 DEF Stage
<1>12. Past' /\ OnePositionAtATime'
  BY <1>3, <1>4, SamePosition
<1>13. NeverHeldTooLong' /\ FailsOnlyWithoutLiquidity'
  BY DEF NeverHeldTooLong, FailsOnlyWithoutLiquidity
<1> QED BY <1>6, <1>9, <1>10, <1>11, <1>12, <1>13

----------------------------------------------------------------------------
\* The first state: nothing is held, filled or closed.
LEMMA InitInv ==
    ASSUME Init
    PROVE IInv
<1>1. Intents = DOMAIN setup.intents /\ setup \in Setups
  BY DEF Init, Intents
<1>2. \A i \in Intents : Unscheduled(i) \in Disposition
  BY DEF Unscheduled, Disposition, Rejections
<1>3. dispositions \in [Intents -> Disposition \cup {None}]
  <2>1. \A i \in Intents :
          (IF EntryIndex(i) >= Candles THEN Unscheduled(i) ELSE None) \in Disposition \cup {None}
    BY <1>2
  <2> QED BY <2>1 DEF Init
<1>4. /\ pc = "open" /\ index = 0 /\ volume = 0 /\ capacity = 0 /\ position = None
      /\ exit = None /\ fills = <<>> /\ funding = <<>> /\ trades = <<>>
  BY DEF Init
<1>5. TypeOK
  BY <1>1, <1>3, <1>4, CellBounds DEF TypeOK, PCs
<1>6. Where /\ Held /\ Stage
  BY <1>4 DEF Where, Held, Stage, Consuming
<1>7. Past /\ OnePositionAtATime
  BY <1>4 DEF Past, OnePositionAtATime
<1>8. NeverHeldTooLong /\ FailsOnlyWithoutLiquidity
  BY <1>4 DEF NeverHeldTooLong, FailsOnlyWithoutLiquidity
<1> QED BY <1>5, <1>6, <1>7, <1>8 DEF IInv

\* A position that is still held when a candle opens is within its deadline.
LEMMA OpenCandleInv ==
    ASSUME IInv, OpenCandle
    PROVE IInv'
<1> USE DEF IInv
<1>1. /\ pc = "open" /\ index < Candles /\ index' = index /\ setup' = setup
      /\ position' = position /\ exit' = exit /\ dispositions' = dispositions
      /\ fills' = fills /\ trades' = trades /\ Intents' = Intents
  BY DEF OpenCandle, Intents
<1>2. index \in Nat /\ Candles \in Nat
  BY CellBounds DEF TypeOK
<1>3. position # None => index <= Deadline(position.intent, position.entry)
  <2> SUFFICES ASSUME position # None
               PROVE index <= Deadline(position.intent, position.entry)
    OBVIOUS
  <2>1. /\ position.intent \in Intents /\ position.entry \in Nat
    BY PositionFields DEF Held
  <2>2. /\ Deadline(position.intent, position.entry) \in Nat
        /\ position.entry + Holding(position.intent)
              <= Deadline(position.intent, position.entry)
        /\ Holding(position.intent) \in Nat
    BY <2>1, IntentTimes
  <2>3. CASE position.pending
    <3>1. /\ exit # None /\ index <= exit.ready
          /\ exit.ready <= Deadline(position.intent, position.entry)
      BY <1>1, <2>3 DEF Stage, Held
    <3>2. exit.ready \in Nat
      BY <3>1 DEF TypeOK, Scheduled
    <3> QED BY <1>2, <2>2, <3>1, <3>2
  <2>4. CASE ~position.pending
    BY <1>1, <1>2, <2>1, <2>2, <2>4 DEF Stage
  <2> QED BY <2>3, <2>4
<1>4. pc' = IF position = None THEN "entries" ELSE "barrier"
  <2>1. CASE position = None
    BY <2>1 DEF OpenCandle
  <2>2. CASE position # None
    <3>1. Deadline(position.intent, position.entry) \in Nat
      BY <2>2, PositionFields, IntentTimes DEF Held
    <3> QED BY <1>2, <1>3, <2>2, <3>1 DEF OpenCandle
  <2> QED BY <2>1, <2>2
<1>5. volume' \in 0..MaxVolume /\ capacity' \in 0..volume'
  <2>1. volume' \in 0..MaxVolume /\ capacity' = volume'
    BY CellBounds DEF OpenCandle
  <2> QED BY <2>1, CellBounds
<1>6. funding' \in Seq(Charge)
  <2>1. funding \in Seq(Charge)
    BY DEF TypeOK
  <2>2. CASE index \in Settlements /\ position # None
    <3> DEFINE c == [intent |-> position.intent, at |-> Opens(index),
                     quantity |-> position.remaining]
    <3>1. c \in Charge
      BY <1>2, <2>2, PositionFields DEF Charge, Opens
    <3>2. funding' = Append(funding, c)
      BY <2>2 DEF OpenCandle, SettleFunding
    <3> HIDE DEF c
    <3> QED BY <2>1, <3>1, <3>2
  <2>3. CASE ~(index \in Settlements /\ position # None)
    BY <2>1, <2>3 DEF OpenCandle, SettleFunding
  <2> QED BY <2>2, <2>3
<1>7. TypeOK'
  BY <1>1, <1>4, <1>5, <1>6 DEF TypeOK, PCs
<1>8. Where'
  BY <1>1, <1>4 DEF Where, Consuming
<1>9. \A i, e : Holding(i)' = Holding(i) /\ Deadline(i, e)' = Deadline(i, e)
  BY <1>1 DEF Holding, Deadline
<1>10. Held'
  BY <1>1, <1>4, <1>9 DEF Held
<1>11. Stage'
  BY <1>1, <1>4, <1>9 DEF Stage
<1>12. Past' /\ OnePositionAtATime'
  <2>1. /\ ClosedIntents' = ClosedIntents /\ Opens(index)' = Opens(index)
        /\ Opens(position.entry)' = Opens(position.entry)
    BY <1>1 DEF ClosedIntents, Opens
  <2>2. Past'
    BY <1>1, <1>4, <2>1 DEF Past
  <2>3. OnePositionAtATime'
    BY <1>1, <2>1 DEF OnePositionAtATime
  <2> QED BY <2>2, <2>3
<1>13. NeverHeldTooLong' /\ FailsOnlyWithoutLiquidity'
  BY <1>4 DEF NeverHeldTooLong, FailsOnlyWithoutLiquidity
<1> QED BY <1>7, <1>8, <1>10, <1>11, <1>12, <1>13

\* The answers of on_candle, and what the loop does with each.
LEMMA BarrierInv ==
    ASSUME IInv, Survive \/ BarrierInsideCandle \/ BarrierAtOpen \/ ApplicationManaged
    PROVE IInv'
<1> USE DEF IInv
<1>1. /\ pc = "barrier" /\ position # None /\ index < Candles
      /\ index \in Nat /\ position.entry \in Nat /\ position.entry <= index
      /\ position.intent \in Intents /\ Candles \in Nat
      /\ Holding(position.intent) \in Nat \ {0}
  <2>1. pc = "barrier"
    BY DEF Survive, BarrierInsideCandle, BarrierAtOpen, ApplicationManaged
  <2>2. position # None /\ index < Candles
    BY <2>1 DEF Where, Consuming
  <2>3. position.intent \in Intents
    BY <2>2 DEF Held
  <2> QED BY <2>1, <2>2, <2>3, PositionFields, IntentTimes, CellBounds DEF Held
<1>2. ~position.pending => exit = None
  BY <1>1 DEF Held
<1>3. \A r \in BarrierReasons : r \in Reasons
  BY CellBounds DEF Reasons
<1>4. CASE Survive
  <2>1. index < position.entry + Holding(position.intent)
    BY <1>1, <1>4 DEF Survive, Expired, Bar
  <2> QED BY <1>1, <1>4, <2>1, SurvivorPreserves DEF Survive, Evidence
<1>5. CASE BarrierInsideCandle
  <2>1. PICK r \in BarrierReasons : \E a \in Ambiguities(r) :
           position' = Asking(Closes(index), r, a)
    BY <1>5 DEF BarrierInsideCandle
  <2>2. PICK a \in Ambiguities(r) : position' = Asking(Closes(index), r, a)
    BY <2>1
  <2>3. a \in BOOLEAN
    BY DEF Ambiguities
  <2>4. /\ UNCHANGED Evidence /\ exit' = exit /\ exit = None /\ pc' = "entries"
    BY <1>2, <1>5 DEF BarrierInsideCandle
  <2> QED BY <1>1, <1>3, <2>2, <2>3, <2>4, AskingPreserves
<1>6. CASE BarrierAtOpen
  <2>1. PICK r \in BarrierReasons : position' = Asking(Opens(index), r, FALSE)
    BY <1>6 DEF BarrierAtOpen
  <2>2. /\ UNCHANGED Evidence /\ exit' = exit /\ exit = None /\ pc' = "resting"
    BY <1>2, <1>6 DEF BarrierAtOpen
  <2> QED BY <1>1, <1>3, <2>1, <2>2, AskingPreserves
<1>7. CASE ApplicationManaged
  <2> DEFINE plan == PlannedExit
             reason == IF position.pending THEN position.reason ELSE "TIMEOUT"
             ambiguous == position.pending /\ position.ambiguous
  <2>1. /\ position' = Asking(Opens(index), reason, ambiguous)
        /\ exit' = plan /\ UNCHANGED Evidence
        /\ pc' = IF exit = None /\ CannotFill(plan) THEN "illiquid"
                 ELSE IF index >= plan.ready THEN "application" ELSE "entries"
        /\ position.pending \/ Expired
    BY <1>7 DEF ApplicationManaged
  <2>2. reason \in Reasons /\ ambiguous \in BOOLEAN
    <3>1. position.pending \in BOOLEAN /\ position.ambiguous \in BOOLEAN
          /\ position.reason \in Reasons \cup {None}
      BY <1>1, PositionFields
    <3>2. ambiguous \in BOOLEAN
      BY <3>1
    <3>3. position.pending => position.reason # None
      BY <1>1 DEF Held
    <3>4. "TIMEOUT" \in Reasons
      BY DEF Reasons
    <3> QED BY <3>1, <3>2, <3>3, <3>4
  <2>3. Deadline(position.intent, position.entry) < Candles
        /\ Deadline(position.intent, position.entry) \in Nat
    BY <1>1, IntentTimes DEF Held
  <2>4. /\ plan \in Scheduled /\ plan # None /\ plan.ready \in Nat
        /\ plan.ready <= Deadline(position.intent, position.entry) /\ plan.ready < Candles
    <3>1. CASE exit # None
      <4>1. plan = exit
        BY <3>1 DEF PlannedExit
      <4>2. exit \in Scheduled /\ exit.ready \in Nat
        BY <3>1 DEF TypeOK, Scheduled
      <4> HIDE DEF plan
      <4> QED BY <1>1, <3>1, <4>1, <4>2 DEF Held
    <3>2. CASE exit = None
      <4>1. ~position.pending /\ index = position.entry + Holding(position.intent)
        <5>1. ~position.pending
          BY <1>1, <3>2 DEF Stage
        <5>2. index <= position.entry + Holding(position.intent)
          BY <1>1, <5>1 DEF Stage
        <5>3. index - position.entry >= Holding(position.intent)
          BY <2>1, <5>1 DEF Expired, Bar
        <5> QED BY <1>1, <5>1, <5>2, <5>3
      <4>2. plan = Schedule(Opens(index), index)
        BY <3>2 DEF PlannedExit
      <4>3. Opens(index) \in Nat
        BY <1>1 DEF Opens
      <4>4. /\ plan \in Scheduled /\ plan # None /\ plan.ready \in Nat
            /\ plan.ready <= index + setup.grace
        BY <1>1, <4>2, <4>3, ScheduleFields, TimeoutFits
      <4>5. index + setup.grace = Deadline(position.intent, position.entry)
        BY <4>1 DEF Deadline
      <4> HIDE DEF plan
      <4> QED BY <1>1, <2>3, <4>4, <4>5
    <3> QED BY <3>1, <3>2
  <2> HIDE DEF plan, reason, ambiguous
  <2>5. ~CannotFill(plan)
    BY <1>1, <2>3, <2>4 DEF CannotFill
  <2>6. CASE index >= plan.ready
    <3>1. pc' = "application"
      BY <2>1, <2>5, <2>6
    <3> QED BY <1>1, <2>1, <2>2, <2>4, <3>1, AskingPreserves
  <2>7. CASE index < plan.ready
    <3>1. pc' = "entries"
      BY <1>1, <2>1, <2>4, <2>5, <2>7
    <3> QED BY <1>1, <2>1, <2>2, <2>4, <2>7, <3>1, AskingPreserves
  <2> QED BY <1>1, <2>4, <2>6, <2>7
<1> QED BY <1>4, <1>5, <1>6, <1>7

\* Each of the three fills is of a decision of this candle.
LEMMA FillInv ==
    ASSUME IInv, FillAtOpen \/ FillApplicationExit \/ FillLast
    PROVE IInv'
<1> USE DEF IInv
<1>1. /\ pc \in {"resting", "application", "last"} /\ position # None /\ index < Candles
      /\ index \in Nat /\ position.pending
      /\ DecidedAt({Opens(index), Closes(index)})
  <2>1. pc \in {"resting", "application", "last"}
    BY DEF FillAtOpen, FillApplicationExit, FillLast
  <2>2. position # None /\ index < Candles
    BY <2>1 DEF Where, Consuming
  <2>3. position.pending /\ DecidedAt({Opens(index), Closes(index)})
    BY <2>1, <2>2 DEF Stage, DecidedAt
  <2> QED BY <2>1, <2>2, <2>3, PositionFields
<1>2. position.decision.from \in Nat
  BY <1>1 DEF DecidedAt, Opens, Closes
<1>3. CASE FillAtOpen
  <2>1. ExecutedExit("entries")
    BY <1>1, <1>2, <1>3, ExecuteFields DEF FillAtOpen
  <2>2. index' = index /\ position.decision.from = Opens(index)
    BY <1>1, <1>3 DEF FillAtOpen, Stage, DecidedAt
  <2> QED BY <1>1, <2>1, <2>2, ExitPreserves
<1>4. CASE FillApplicationExit
  <2>1. index' = index /\ position.decision.from = Opens(index) /\ exit # None
    BY <1>1, <1>4 DEF FillApplicationExit, Stage, DecidedAt
  <2>2. exit.decided \in Nat /\ exit.eligible \in Nat
    BY <2>1 DEF TypeOK, Scheduled
  <2>3. ExecutedExit("entries")
    BY <1>1, <1>4, <2>2, ExecuteFields DEF FillApplicationExit
  <2> QED BY <1>1, <2>1, <2>3, ExitPreserves
<1>5. CASE FillLast
  <2>1. ExecutedExit("open")
    BY <1>1, <1>2, <1>5, ExecuteFields DEF FillLast
  <2>2. index' = index + 1
    BY <1>5 DEF FillLast
  <2> QED BY <1>1, <2>1, <2>2, ExitPreserves
<1> QED BY <1>3, <1>4, <1>5

\* The type of a disposition that rejects.
LEMMA RejectedFields ==
    ASSUME TypeOK, NEW reason \in Rejections, NEW equity \in SUBSET Nat
    PROVE Rejected(reason, equity) \in Disposition
<1>1. volume \in Nat /\ capacity \in Nat
  BY CellBounds DEF TypeOK
<1> QED BY <1>1 DEF Rejected, Disposition

LEMMA ClosedIntentsAreNat ==
    ASSUME TypeOK
    PROVE ClosedIntents \in SUBSET Nat
<1>1. trades \in Seq(Trade)
  BY DEF TypeOK
<1>2. \A k \in DOMAIN trades : trades[k] \in Trade
  BY <1>1
<1> QED BY <1>2 DEF ClosedIntents, Trade

\* A disposition is given once and changes nothing else.
LEMMA RejectInv ==
    ASSUME IInv, NEW i \in Intents, RejectEarly(i) \/ RejectPriced(i)
    PROVE IInv'
<1> USE DEF IInv
<1>1. /\ pc = "entries" /\ pc' = pc /\ index' = index /\ setup' = setup
      /\ volume' = volume /\ capacity' = capacity /\ position' = position
      /\ exit' = exit /\ fills' = fills /\ funding' = funding /\ trades' = trades
      /\ Intents' = Intents
  BY DEF RejectEarly, RejectPriced, Intents
<1>2. PICK d \in Disposition : Dispose(i, d)
  <2>1. /\ Rejected("EXPIRED", {}) \in Disposition
        /\ Rejected("INSUFFICIENT_TERMINAL_HORIZON", {}) \in Disposition
        /\ Rejected("OVERLAPPING_POSITION", {}) \in Disposition
        /\ Rejected("ENTRY_OUTSIDE_EXIT_PLAN", {}) \in Disposition
        /\ Rejected("ADMISSION", ClosedIntents) \in Disposition
        /\ Rejected("NO_LIQUIDITY", ClosedIntents) \in Disposition
    BY RejectedFields, ClosedIntentsAreNat DEF Rejections
  <2> QED BY <2>1 DEF RejectEarly, RejectPriced
<1>3. /\ dispositions' = [dispositions EXCEPT ![i] = d]
      /\ dispositions' \in [Intents -> Disposition \cup {None}]
      /\ \A j \in Intents : dispositions[j] # None => dispositions'[j] # None
  <2>1. dispositions \in [Intents -> Disposition \cup {None}] /\ d # None
    BY NoneIsNoValue DEF TypeOK
  <2> QED BY <1>2, <2>1 DEF Dispose
<1>4. TypeOK'
  BY <1>1, <1>3 DEF TypeOK
<1>5. Where'
  BY <1>1 DEF Where, Consuming
<1>6. \A j, e : Holding(j)' = Holding(j) /\ Deadline(j, e)' = Deadline(j, e)
  BY <1>1 DEF Holding, Deadline
<1>7. Held'
  BY <1>1, <1>3, <1>6 DEF Held
<1>8. Stage'
  <2>1. Opens(index)' = Opens(index) /\ Closes(index)' = Closes(index)
    BY <1>1 DEF Opens, Closes
  <2> QED BY <1>1, <1>6, <2>1 DEF Stage, DecidedAt
<1>9. Past'
  <2>1. Opens(index)' = Opens(index)
    BY <1>1 DEF Opens
  <2> QED BY <1>1, <1>3, <2>1 DEF Past
<1>10. OnePositionAtATime'
  <2>1. ClosedIntents' = ClosedIntents /\ Opens(position.entry)' = Opens(position.entry)
    BY <1>1 DEF ClosedIntents, Opens
  <2> QED BY <1>1, <2>1 DEF OnePositionAtATime
<1>11. NeverHeldTooLong' /\ FailsOnlyWithoutLiquidity'
  BY <1>1 DEF NeverHeldTooLong, FailsOnlyWithoutLiquidity
<1> QED BY <1>4, <1>5, <1>7, <1>8, <1>9, <1>10, <1>11

\* An entry begins with room for its exit, after everything closed.
LEMMA EnterInv ==
    ASSUME IInv, NEW i \in Intents, Enter(i)
    PROVE IInv'
<1> USE DEF IInv
<1>1. /\ pc = "entries" /\ pc' = pc /\ index' = index /\ setup' = setup
      /\ volume' = volume /\ funding' = funding /\ trades' = trades
      /\ exit' = None /\ position = None /\ dispositions[i] = None
      /\ ~BeyondHorizon(i) /\ Intents' = Intents
  BY DEF Enter, Enterable, IsNext, Due, Intents
<1>2. /\ index \in Nat /\ Candles \in Nat /\ capacity \in 0..volume /\ volume \in Nat
      /\ index < Candles /\ capacity > 0
  BY <1>1, CellBounds DEF TypeOK, Where, Enter
<1>3. PICK requested \in 1..MaxRequest :
        /\ Dispose(i, [reason |-> "ENTERED", volume |-> volume, capacity |-> capacity,
                       equity |-> ClosedIntents, requested |-> requested,
                       filled |-> FilledQuantity(requested)])
        /\ fills' = Append(fills,
              [intent |-> i, origin |-> "ENTRY_SIGNAL", decision |-> None,
               decided |-> setup.intents[i].decision, eligible |-> Causal(i),
               candle |-> index, at |-> Opens(index), requested |-> requested,
               filled |-> FilledQuantity(requested), volume |-> volume, before |-> capacity,
               after |-> capacity - FilledQuantity(requested)])
        /\ capacity' = capacity - FilledQuantity(requested)
        /\ position' = [intent |-> i, entry |-> index, remaining |-> FilledQuantity(requested),
                        bar |-> -1, pending |-> FALSE, reason |-> None, ambiguous |-> FALSE,
                        decision |-> None, sequence |-> 0]
  BY DEF Enter
<1> DEFINE q == FilledQuantity(requested)
           d == [reason |-> "ENTERED", volume |-> volume, capacity |-> capacity,
                 equity |-> ClosedIntents, requested |-> requested, filled |-> q]
           f == [intent |-> i, origin |-> "ENTRY_SIGNAL", decision |-> None,
                 decided |-> setup.intents[i].decision, eligible |-> Causal(i),
                 candle |-> index, at |-> Opens(index), requested |-> requested,
                 filled |-> q, volume |-> volume, before |-> capacity, after |-> capacity - q]
<1>4. requested \in Nat \ {0} /\ q \in Nat \ {0} /\ q <= capacity
  <2>1. requested \in Nat \ {0}
    BY CellBounds
  <2> QED BY <1>2, <2>1 DEF FilledQuantity, Min2
<1>5. /\ i \in Nat \ {0} /\ setup.intents[i].decision \in Nat /\ Causal(i) \in Nat
      /\ Holding(i) \in Nat \ {0} /\ Deadline(i, index) \in Nat
  BY <1>2, IntentTimes
<1>6. f \in Fill /\ f.intent = i /\ IsEntry(f)
  <2>1. capacity - q \in Nat /\ Opens(index) \in Nat
    <3> HIDE DEF q
    <3> QED BY <1>2, <1>4 DEF Opens
  <2> HIDE DEF q
  <2> QED BY <1>2, <1>4, <1>5, <2>1 DEF Fill, IsEntry
<1>7. d \in Disposition /\ d # None
  <2>1. d \in Disposition
    <3> HIDE DEF q
    <3> QED BY <1>2, <1>4, ClosedIntentsAreNat DEF Disposition
  <2> QED BY <2>1, NoneIsNoValue
<1>8. /\ position' \in Position /\ position'.intent = i /\ position'.entry = index
      /\ position'.pending = FALSE /\ position'.decision = None
  <2>1. position' = [intent |-> i, entry |-> index, remaining |-> q, bar |-> -1,
                     pending |-> FALSE, reason |-> None, ambiguous |-> FALSE,
                     decision |-> None, sequence |-> 0]
    BY <1>3
  <2> HIDE DEF q
  <2> QED BY <1>2, <1>4, <1>5, <2>1 DEF Position
<1>9. position' # None
  BY <1>8, NoneIsNoValue
<1>10. /\ dispositions' \in [Intents -> Disposition \cup {None}]
       /\ dispositions'[i] # None
       /\ \A j \in Intents : dispositions[j] # None => dispositions'[j] # None
  <2>1. dispositions \in [Intents -> Disposition \cup {None}]
    BY DEF TypeOK
  <2>2. dispositions' = [dispositions EXCEPT ![i] = d]
    BY <1>3 DEF Dispose
  <2> HIDE DEF d
  <2> QED BY <1>7, <2>1, <2>2
<1>11. /\ fills \in Seq(Fill) /\ fills' \in Seq(Fill) /\ fills' # <<>>
       /\ DOMAIN fills' = 1..Len(fills) + 1
       /\ \A k \in DOMAIN fills : fills'[k] = fills[k]
       /\ fills'[Len(fills) + 1] = f
       /\ \A k \in DOMAIN fills' : k \in DOMAIN fills \/ k = Len(fills) + 1
  <2>1. fills \in Seq(Fill) /\ fills' = Append(fills, f)
    BY <1>3 DEF TypeOK
  <2> HIDE DEF f
  <2> QED BY <1>6, <2>1, AppendedLast
<1>12. capacity' \in 0..volume'
  <2>1. capacity' = capacity - q
    BY <1>3
  <2> HIDE DEF q
  <2> QED BY <1>1, <1>2, <1>4, <2>1
<1> HIDE DEF q, d, f
<1>13. TypeOK'
  BY <1>1, <1>8, <1>10, <1>11, <1>12 DEF TypeOK
<1>14. Where'
  BY <1>1, <1>9 DEF Where, Consuming
<1>15. \A j, e : Holding(j)' = Holding(j) /\ Deadline(j, e)' = Deadline(j, e)
  BY <1>1 DEF Holding, Deadline
<1>16. Held'
  <2>1. Deadline(i, index) < Candles
    BY <1>1, <1>2, <1>5 DEF BeyondHorizon
  <2>2. \E k \in DOMAIN fills' : fills'[k].intent = i /\ IsEntry(fills'[k])
    <3>1. Len(fills) + 1 \in DOMAIN fills'
      BY <1>11
    <3> QED BY <1>6, <1>11, <3>1
  <2> QED BY <1>1, <1>2, <1>8, <1>10, <1>15, <2>1, <2>2 DEF Held
<1>17. Stage'
  BY <1>1, <1>2, <1>5, <1>8, <1>15 DEF Stage
<1>18. Past'
  BY <1>1, <1>9, <1>10 DEF Past
<1>19. OnePositionAtATime'
  <2>1. ClosedIntents' = ClosedIntents
    BY <1>1 DEF ClosedIntents
  <2>2. i \notin ClosedIntents
    BY <1>1 DEF Past, ClosedIntents
  <2>3. \A k \in DOMAIN trades : trades[k].exit <= Opens(index)
    BY <1>1 DEF Past
  <2>4. \A k \in DOMAIN fills' : fills'[k].intent \in ClosedIntents \/ fills'[k].intent = i
    BY <1>1, <1>6, <1>11 DEF OnePositionAtATime
  <2>5. Opens(position.entry)' = Opens(index)
    BY <1>8 DEF Opens
  <2> QED BY <1>1, <1>8, <1>9, <2>1, <2>2, <2>3, <2>4, <2>5 DEF OnePositionAtATime
<1>20. NeverHeldTooLong' /\ FailsOnlyWithoutLiquidity'
  BY <1>1 DEF NeverHeldTooLong, FailsOnlyWithoutLiquidity
<1> QED BY <1>13, <1>14, <1>16, <1>17, <1>18, <1>19, <1>20

\* When the intents of an open are settled, an unasked position moves on, and an
\* exit that waits for the close is the only one filled now.
LEMMA EntriesDoneInv ==
    ASSUME IInv, EntriesDone
    PROVE IInv'
<1> USE DEF IInv
<1>1. /\ pc = "entries" /\ setup' = setup /\ volume' = volume /\ capacity' = capacity
      /\ position' = position /\ exit' = exit /\ dispositions' = dispositions
      /\ fills' = fills /\ funding' = funding /\ trades' = trades /\ Intents' = Intents
  BY DEF EntriesDone, Intents
<1>2. index \in Nat /\ Candles \in Nat /\ index < Candles
  BY <1>1, CellBounds DEF TypeOK, Where
<1>3. /\ index' \in 0..Candles /\ index' \in Nat /\ index <= index'
      /\ \/ EnteredHere /\ pc' = "entered" /\ index' = index
         \/ AwaitsClose /\ pc' = "last" /\ index' = index
         \/ ~EnteredHere /\ ~AwaitsClose /\ pc' = "open" /\ index' = index + 1
  BY <1>2 DEF EntriesDone
<1>4. TypeOK'
  BY <1>1, <1>3 DEF TypeOK, PCs
<1>5. Where'
  BY <1>1, <1>2, <1>3 DEF Where, Consuming, EnteredHere, AwaitsClose
<1>6. \A j, e : Holding(j)' = Holding(j) /\ Deadline(j, e)' = Deadline(j, e)
  BY <1>1 DEF Holding, Deadline
<1>7. position # None =>
        /\ position.entry \in Nat /\ position.entry <= index
        /\ Holding(position.intent) \in Nat
        /\ exit # None => exit.ready \in Nat
  <2>1. position # None => position.intent \in Intents /\ position.entry <= index
    BY DEF Held
  <2>2. exit # None => exit.ready \in Nat
    BY DEF TypeOK, Scheduled
  <2> QED BY <2>1, <2>2, PositionFields, IntentTimes
<1>8. Held'
  BY <1>1, <1>2, <1>3, <1>6, <1>7 DEF Held
<1>9. Stage'
  <2> SUFFICES ASSUME position # None PROVE Stage'
    BY <1>1 DEF Stage
  <2>1. \/ ~position.pending /\ index < position.entry + Holding(position.intent)
        \/ /\ position.pending /\ exit # None /\ index < exit.ready
           /\ position.decision # None => position.decision.from = Opens(index)
        \/ position.pending /\ exit = None /\ DecidedAt({Closes(index)})
    BY <1>1 DEF Stage
  <2>2. /\ position.pending => ~EnteredHere
        /\ ~position.pending => position.decision = None /\ exit = None
    BY DEF Held, EnteredHere
  <2>3. Opens(index) # Closes(index)
    BY <1>2 DEF Opens, Closes
  <2>4. CASE EnteredHere /\ pc' = "entered" /\ index' = index
    BY <1>1, <1>6, <2>1, <2>2, <2>4 DEF Stage
  <2>5. CASE AwaitsClose /\ pc' = "last" /\ index' = index
    <3>1. position.pending /\ exit = None /\ DecidedAt({Closes(index)})
      BY <2>1, <2>2, <2>3, <2>5 DEF AwaitsClose
    <3>2. DecidedAt({Opens(index), Closes(index)})'
      BY <1>1, <2>5, <3>1 DEF DecidedAt, Opens, Closes
    <3> QED BY <1>1, <2>5, <3>1, <3>2 DEF Stage
  <2>6. CASE ~EnteredHere /\ ~AwaitsClose /\ pc' = "open" /\ index' = index + 1
    <3>1. ~DecidedAt({Closes(index)})
      BY <2>6 DEF AwaitsClose, DecidedAt
    <3>2. IF position.pending THEN exit # None /\ index + 1 <= exit.ready
          ELSE index + 1 <= position.entry + Holding(position.intent)
      BY <1>2, <1>7, <2>1, <3>1
    <3> QED BY <1>1, <1>6, <2>6, <3>2 DEF Stage
  <2> QED BY <1>3, <2>4, <2>5, <2>6
<1>10. Past'
  <2>1. \A k \in DOMAIN trades : trades[k] \in Trade /\ trades[k].exit \in Nat
    <3>1. \A k \in DOMAIN trades : trades[k] \in Trade
      BY DEF TypeOK
    <3> QED BY <3>1 DEF Trade
  <2>2. position = None => pc' = "open" /\ index' = index + 1
    BY <1>3 DEF EnteredHere, AwaitsClose
  <2> QED BY <1>1, <1>2, <2>1, <2>2 DEF Past, Opens
<1>11. OnePositionAtATime'
  <2>1. ClosedIntents' = ClosedIntents /\ Opens(position.entry)' = Opens(position.entry)
    BY <1>1 DEF ClosedIntents, Opens
  <2> QED BY <1>1, <2>1 DEF OnePositionAtATime
<1>12. NeverHeldTooLong' /\ FailsOnlyWithoutLiquidity'
  BY <1>3 DEF NeverHeldTooLong, FailsOnlyWithoutLiquidity
<1> QED BY <1>4, <1>5, <1>8, <1>9, <1>10, <1>11, <1>12

\* The entry candle of a new position.
LEMMA EntryCandleInv ==
    ASSUME IInv, EntryCandleSurvived \/ EntryCandleBarrier
    PROVE IInv'
<1> USE DEF IInv
<1>1. pc = "entered"
  BY DEF EntryCandleSurvived, EntryCandleBarrier
<1>2. /\ position # None /\ index < Candles /\ ~position.pending /\ exit = None
      /\ index < position.entry + Holding(position.intent)
  BY <1>1 DEF Where, Consuming, Stage, Held
<1>3. CASE EntryCandleSurvived
  BY <1>2, <1>3, SurvivorPreserves DEF EntryCandleSurvived
<1>4. CASE EntryCandleBarrier
  <2>1. /\ pc' = "last" /\ UNCHANGED Evidence /\ exit' = None
    BY <1>2, <1>4 DEF EntryCandleBarrier
  <2>2. PICK from \in {Opens(index), Closes(index)} : \E r \in Reasons : \E a \in BOOLEAN :
           position' = Asking(from, r, a)
    BY <1>4, CellBounds DEF EntryCandleBarrier, Ambiguities, Reasons
  <2>3. PICK r \in Reasons : \E a \in BOOLEAN : position' = Asking(from, r, a)
    BY <2>2
  <2>4. PICK a \in BOOLEAN : position' = Asking(from, r, a)
    BY <2>3
  <2> QED BY <1>2, <2>1, <2>4, AskingPreserves
<1> QED BY <1>3, <1>4

\* Behind the last candle nothing is held.
LEMMA FinishInv ==
    ASSUME IInv, Finish
    PROVE IInv'
<1> USE DEF IInv
<1>1. /\ pc = "open" /\ index = Candles /\ UNCHANGED <<Evidence, position, exit>>
  BY DEF Finish
<1>2. position = None
  <2> SUFFICES ASSUME position # None PROVE FALSE
    OBVIOUS
  <2>1. /\ position.intent \in Intents /\ position.entry \in Nat
        /\ Deadline(position.intent, position.entry) < Candles
        /\ index \in Nat /\ Candles \in Nat
    BY PositionFields, CellBounds DEF Held
  <2>2. /\ Deadline(position.intent, position.entry) \in Nat
        /\ Holding(position.intent) \in Nat
        /\ position.entry + Holding(position.intent)
              <= Deadline(position.intent, position.entry)
    BY <2>1, IntentTimes
  <2>3. CASE position.pending
    <3>1. exit # None /\ index <= exit.ready /\ exit.ready < Candles
      BY <1>1, <2>3 DEF Stage, Held
    <3>2. exit.ready \in Nat
      BY <3>1 DEF TypeOK, Scheduled
    <3> QED BY <1>1, <2>1, <3>1, <3>2
  <2>4. CASE ~position.pending
    BY <1>1, <2>1, <2>2, <2>4 DEF Stage
  <2> QED BY <2>3, <2>4
<1>3. /\ pc' = "done" /\ setup' = setup /\ index' = index /\ volume' = volume
      /\ capacity' = capacity /\ position' = None /\ exit' = exit /\ exit = None
      /\ dispositions' = dispositions /\ fills' = fills /\ funding' = funding
      /\ trades' = trades /\ Intents' = Intents
  BY <1>1, <1>2 DEF Finish, Evidence, Where, Intents
<1>4. TypeOK'
  BY <1>2, <1>3 DEF TypeOK, PCs
<1>5. Where' /\ Held' /\ Stage'
  BY <1>3 DEF Where, Consuming, Held, Stage
<1>6. Past'
  <2>1. Opens(index)' = Opens(index)
    BY <1>3 DEF Opens
  <2> QED BY <1>2, <1>3, <2>1 DEF Past
<1>7. OnePositionAtATime'
  <2>1. ClosedIntents' = ClosedIntents
    BY <1>3 DEF ClosedIntents
  <2> QED BY <1>2, <1>3, <2>1 DEF OnePositionAtATime
<1>8. NeverHeldTooLong' /\ FailsOnlyWithoutLiquidity'
  BY <1>3 DEF NeverHeldTooLong, FailsOnlyWithoutLiquidity
<1> QED BY <1>4, <1>5, <1>6, <1>7, <1>8

LEMMA StutterInv ==
    ASSUME IInv, UNCHANGED vars
    PROVE IInv'
<1>1. /\ setup' = setup /\ pc' = pc /\ index' = index /\ volume' = volume
      /\ capacity' = capacity /\ position' = position /\ exit' = exit
      /\ dispositions' = dispositions /\ fills' = fills /\ funding' = funding
      /\ trades' = trades
  BY DEF vars
<1>2. /\ Intents' = Intents /\ ClosedIntents' = ClosedIntents
      /\ Opens(index)' = Opens(index) /\ Closes(index)' = Closes(index)
      /\ Opens(position.entry)' = Opens(position.entry)
      /\ \A j, e : Holding(j)' = Holding(j) /\ Deadline(j, e)' = Deadline(j, e)
  BY <1>1 DEF Intents, ClosedIntents, Opens, Closes, Holding, Deadline
<1>3. TypeOK' /\ Where'
  BY <1>1, <1>2 DEF IInv, TypeOK, Where, Consuming
<1>4. Held' /\ Stage'
  BY <1>1, <1>2 DEF IInv, Held, Stage, DecidedAt
<1>5. Past' /\ OnePositionAtATime'
  BY <1>1, <1>2 DEF IInv, Past, OnePositionAtATime
<1>6. NeverHeldTooLong' /\ FailsOnlyWithoutLiquidity'
  BY <1>1 DEF IInv, NeverHeldTooLong, FailsOnlyWithoutLiquidity
<1> QED BY <1>3, <1>4, <1>5, <1>6 DEF IInv

\* Every step of the candle loop keeps the strengthening.
LEMMA StepInv ==
    ASSUME IInv, [Next]_vars
    PROVE IInv'
<1>1. CASE OpenCandle
  BY <1>1, OpenCandleInv
<1>2. CASE Survive \/ BarrierInsideCandle \/ BarrierAtOpen \/ ApplicationManaged
  BY <1>2, BarrierInv
<1>3. CASE FillAtOpen \/ FillApplicationExit \/ FillLast
  BY <1>3, FillInv
<1>4. ASSUME NEW i \in Intents, RejectEarly(i) \/ RejectPriced(i) PROVE IInv'
  BY <1>4, RejectInv
<1>5. ASSUME NEW i \in Intents, Enter(i) PROVE IInv'
  BY <1>5, EnterInv
<1>6. CASE EntriesDone
  BY <1>6, EntriesDoneInv
<1>7. CASE EntryCandleSurvived \/ EntryCandleBarrier
  BY <1>7, EntryCandleInv
<1>8. CASE Finish
  BY <1>8, FinishInv
<1>9. CASE UNCHANGED vars
  BY <1>9, StutterInv
<1> QED BY <1>1, <1>2, <1>3, <1>4, <1>5, <1>6, <1>7, <1>8, <1>9 DEF Next

\* The strengthening from which the results below follow: it is true at first and
\* every step of the candle loop keeps it.
THEOREM Invariance == Spec => []IInv
<1>1. Init => IInv
  BY InitInv
<1>2. IInv /\ [Next]_vars => IInv'
  BY StepInv
<1> QED BY <1>1, <1>2, PTL DEF Spec

\* Whatever intents and latencies a cell is given, its ledgers stay well typed and
\* no candle is filled beyond the capacity it was left.
THEOREM TypeCorrect == Spec => []TypeOK
<1>1. IInv => TypeOK
  BY DEF IInv
<1> QED BY <1>1, Invariance, PTL

\* The loop owns one position at a time and loses none, for any overlap of intents.
THEOREM OnlyOne == Spec => []OnePositionAtATime
<1>1. IInv => OnePositionAtATime
  BY DEF IInv
<1> QED BY <1>1, Invariance, PTL

\* The two errors that guard the liquidation deadline are unreachable: an exit is
\* asked for and scheduled in time over any candles and any partial fills.
THEOREM InTime == Spec => []NeverHeldTooLong
<1>1. IInv => NeverHeldTooLong
  BY DEF IInv
<1> QED BY <1>1, Invariance, PTL

\* An exit that cannot be scheduled follows a fill that fell short, never a latency
\* the policy allows.
THEOREM OnlyIlliquid == Spec => []FailsOnlyWithoutLiquidity
<1>1. IInv => FailsOnlyWithoutLiquidity
  BY DEF IInv
<1> QED BY <1>1, Invariance, PTL

----------------------------------------------------------------------------
(* The funding ledger.                                                     *)

\* The last candle whose settlement has been charged.
Settled == IF pc \in {"open", "illiquid"} THEN index - 1 ELSE index

Charged(ledger, i, s) ==
    \E c \in DOMAIN ledger : ledger[c].intent = i /\ ledger[c].at = Opens(s)

\* The position that is held has paid every settlement since its entry.
Paid ==
    position # None =>
        \A s \in Settlements :
            position.entry < s /\ s <= Settled => Charged(funding, position.intent, s)

FundingInv == IInv /\ Paid /\ FundingIsComplete

\* A charge is never taken back.
LEMMA ChargesStay ==
    ASSUME TypeOK, NEW c \in Charge, funding' = funding \/ funding' = Append(funding, c),
           NEW i, NEW s, Charged(funding, i, s)
    PROVE Charged(funding', i, s)
<1>1. PICK k \in DOMAIN funding : funding[k].intent = i /\ funding[k].at = Opens(s)
  BY DEF Charged
<1>2. funding \in Seq(Charge)
  BY DEF TypeOK
<1>3. k \in DOMAIN funding' /\ funding'[k] = funding[k]
  BY <1>1, <1>2, AppendedLast
<1> QED BY <1>1, <1>3 DEF Charged

\* While nothing is closed, the ledger of closed trades stays complete.
LEMMA TradesStayPaid ==
    ASSUME FundingIsComplete, funding' = funding, trades' = trades
    PROVE FundingIsComplete'
BY DEF FundingIsComplete, Opens

\* The settlement of an opening candle is paid by the position it finds.
LEMMA OpenPays ==
    ASSUME FundingInv, OpenCandle
    PROVE Paid' /\ FundingIsComplete'
<1> USE DEF FundingInv
<1>1. /\ pc = "open" /\ index' = index /\ position' = position /\ trades' = trades
      /\ pc' \in {"entries", "barrier", "overrun"} /\ index \in Nat /\ TypeOK
  BY CellBounds DEF OpenCandle, IInv, TypeOK
<1>2. CASE index \in Settlements /\ position # None
  <2> DEFINE c == [intent |-> position.intent, at |-> Opens(index),
                   quantity |-> position.remaining]
  <2>1. c \in Charge
    BY <1>1, <1>2, PositionFields DEF Charge, Opens
  <2>2. funding' = Append(funding, c)
    BY <1>2 DEF OpenCandle, SettleFunding
  <2>3. c.intent = position.intent /\ c.at = Opens(index)
    OBVIOUS
  <2> HIDE DEF c
  <2>4. /\ Len(funding) + 1 \in DOMAIN funding' /\ funding'[Len(funding) + 1] = c
    <3>1. funding \in Seq(Charge)
      BY <1>1 DEF TypeOK
    <3> QED BY <2>1, <2>2, <3>1, AppendedLast
  <2>5. Charged(funding', position.intent, index)
    BY <1>1, <2>3, <2>4 DEF Charged, Opens
  <2>6. \A i, s : Charged(funding, i, s) => Charged(funding', i, s)
    BY <1>1, <2>1, <2>2, ChargesStay
  <2>7. Paid'
    <3> SUFFICES ASSUME NEW s \in Settlements, position.entry < s, s <= index
                 PROVE Charged(funding', position.intent, s)
      BY <1>1 DEF Paid, Settled, Charged
    <3>1. s \in Nat
      BY CellBounds
    <3>2. CASE s = index
      BY <2>5, <3>2
    <3>3. CASE s <= index - 1
      <4>1. Charged(funding, position.intent, s)
        BY <1>1, <1>2, <3>3 DEF Paid, Settled
      <4> QED BY <2>6, <4>1
    <3> QED BY <1>1, <3>1, <3>2, <3>3
  <2>8. FundingIsComplete'
    <3> SUFFICES ASSUME NEW k \in DOMAIN trades, NEW s \in Settlements,
                        trades[k].entry < Opens(s), Opens(s) <= trades[k].exit
                 PROVE Charged(funding', trades[k].intent, s)
      BY <1>1 DEF FundingIsComplete, Charged, Opens
    <3>1. Charged(funding, trades[k].intent, s)
      BY DEF FundingIsComplete, Charged
    <3> QED BY <2>6, <3>1
  <2> QED BY <2>7, <2>8
<1>3. CASE ~(index \in Settlements /\ position # None)
  <2>1. funding' = funding
    BY <1>3 DEF OpenCandle, SettleFunding
  <2>2. FundingIsComplete'
    BY <1>1, <2>1, TradesStayPaid
  <2>3. Paid'
    <3> SUFFICES ASSUME position # None, NEW s \in Settlements, position.entry < s, s <= index
                 PROVE Charged(funding', position.intent, s)
      BY <1>1 DEF Paid, Settled, Charged
    <3>1. s <= index - 1
      BY <1>1, <1>3, CellBounds
    <3>2. Charged(funding, position.intent, s)
      BY <1>1, <3>1 DEF Paid, Settled
    <3> QED BY <2>1, <3>2 DEF Charged, Opens
  <2> QED BY <2>2, <2>3
<1> QED BY <1>2, <1>3

\* A step of the same position, or of none, that no settlement passes.
LEMMA StillPaid ==
    ASSUME FundingInv, funding' = funding, trades' = trades,
           position' = None \/ (/\ position # None
                                /\ position'.intent = position.intent
                                /\ position'.entry = position.entry),
           position' # None => Settled' <= Settled /\ Settled' \in Int
    PROVE Paid' /\ FundingIsComplete'
<1>1. FundingIsComplete'
  BY TradesStayPaid DEF FundingInv
<1>2. Paid'
  <2> SUFFICES ASSUME position' # None, NEW s \in Settlements, position.entry < s, s <= Settled'
               PROVE Charged(funding, position.intent, s)
    BY DEF Paid, Charged, Opens
  <2>1. s <= Settled
    BY CellBounds DEF Settled, FundingInv, IInv, TypeOK
  <2> QED BY <2>1 DEF FundingInv, Paid
<1> QED BY <1>1, <1>2

\* An exit closes a trade that has paid every settlement up to its exit.
LEMMA ExitPays ==
    ASSUME FundingInv, FillAtOpen \/ FillApplicationExit \/ FillLast
    PROVE Paid' /\ FundingIsComplete'
<1> USE DEF FundingInv
<1>1. /\ pc \in {"resting", "application", "last"} /\ position # None /\ index < Candles
      /\ index \in Nat /\ position.pending /\ position.entry \in Nat
      /\ DecidedAt({Opens(index), Closes(index)}) /\ TypeOK /\ Held
  <2>1. pc \in {"resting", "application", "last"}
    BY DEF FillAtOpen, FillApplicationExit, FillLast
  <2>2. position # None /\ index < Candles
    BY <2>1 DEF IInv, Where, Consuming
  <2>3. position.pending /\ DecidedAt({Opens(index), Closes(index)})
    BY <2>1, <2>2 DEF IInv, Stage, DecidedAt
  <2> QED BY <2>1, <2>2, <2>3, PositionFields DEF IInv
<1>2. position.decision.from \in Nat
      /\ position.decision.from \in {Opens(index), Closes(index)}
  BY <1>1 DEF DecidedAt, Opens, Closes
<1>3. PICK next \in {"entries", "open"} :
        ExecutedExit(next) /\ index' = IF next = "open" THEN index + 1 ELSE index
  <2>1. exit # None => exit.decided \in Nat /\ exit.eligible \in Nat
    BY <1>1 DEF TypeOK, Scheduled
  <2>2. FillApplicationExit => exit # None
    BY <1>1 DEF FillApplicationExit, IInv, Stage
  <2>3. CASE FillAtOpen
    <3>1. ExecutedExit("entries")
      BY <1>1, <1>2, <2>3, ExecuteFields DEF FillAtOpen
    <3> QED BY <2>3, <3>1 DEF FillAtOpen
  <2>4. CASE FillApplicationExit
    <3>1. ExecutedExit("entries")
      BY <1>1, <2>1, <2>2, <2>4, ExecuteFields DEF FillApplicationExit
    <3> QED BY <2>4, <3>1 DEF FillApplicationExit
  <2>5. CASE FillLast
    <3>1. ExecutedExit("open")
      BY <1>1, <1>2, <2>5, ExecuteFields DEF FillLast
    <3> QED BY <2>5, <3>1 DEF FillLast
  <2> QED BY <2>3, <2>4, <2>5
<1>4. funding' = funding /\ Settled = index
  BY <1>1, <1>3 DEF ExecutedExit, Settled
<1>5. CASE PlannedAhead(next)
  <2>1. /\ position'.intent = position.intent /\ position'.entry = position.entry
        /\ trades' = trades /\ (pc' = next \/ pc' = "illiquid")
    BY <1>5 DEF PlannedAhead
  <2>2. Settled' <= Settled /\ Settled' \in Int
    BY <1>1, <1>3, <1>4, <2>1 DEF Settled
  <2>3. FundingIsComplete'
    BY <1>4, <2>1, TradesStayPaid
  <2>4. Paid'
    <3> SUFFICES ASSUME NEW s \in Settlements, position.entry < s, s <= Settled'
                 PROVE Charged(funding', position.intent, s)
      BY <2>1 DEF Paid, Charged
    <3>1. s <= Settled
      BY <1>1, <1>4, <2>2, CellBounds
    <3> QED BY <1>1, <1>4, <3>1 DEF Paid, Charged, Opens
  <2> QED BY <2>3, <2>4
<1>6. CASE ClosedBehind(next)
  <2> DEFINE t == Closed(position.decision.from)
  <2>1. /\ t \in Trade /\ t.intent = position.intent
        /\ t.entry = Opens(position.entry) /\ t.exit = position.decision.from
    BY <1>1, <1>2, ClosedFields
  <2>2. position' = None /\ trades' = Append(trades, t) /\ trades \in Seq(Trade)
    BY <1>1, <1>6 DEF ClosedBehind, TypeOK
  <2> HIDE DEF t
  <2>3. \A k \in DOMAIN trades' : \/ k \in DOMAIN trades /\ trades'[k] = trades[k]
                                  \/ trades'[k] = t
    BY <2>1, <2>2, AppendedLast
  <2>4. \A s \in Settlements : t.entry < Opens(s) /\ Opens(s) <= t.exit =>
           Charged(funding, position.intent, s)
    <3> SUFFICES ASSUME NEW s \in Settlements, Opens(position.entry) < Opens(s),
                        Opens(s) <= position.decision.from
                 PROVE Charged(funding, position.intent, s)
      BY <2>1
    <3>1. s \in Nat
      BY CellBounds
    <3>2. position.entry < s /\ s <= index
      BY <1>1, <1>2, <3>1 DEF Opens, Closes
    <3> QED BY <1>1, <1>4, <3>2 DEF Paid
  <2>5. FundingIsComplete'
    <3> SUFFICES ASSUME NEW k \in DOMAIN trades', NEW s \in Settlements,
                        trades'[k].entry < Opens(s), Opens(s) <= trades'[k].exit
                 PROVE Charged(funding, trades'[k].intent, s)
      BY <1>4 DEF FundingIsComplete, Charged, Opens
    <3> QED BY <2>1, <2>3, <2>4 DEF FundingIsComplete, Charged
  <2> QED BY <2>2, <2>5 DEF Paid
<1> QED BY <1>3, <1>5, <1>6 DEF ExecutedExit

\* The steps of a position that no settlement passes, and of no position.
LEMMA QuietSteps ==
    ASSUME FundingInv,
           \/ Survive \/ BarrierInsideCandle \/ BarrierAtOpen \/ ApplicationManaged
           \/ EntriesDone \/ EntryCandleSurvived \/ EntryCandleBarrier \/ Finish
           \/ \E i \in Intents : RejectEarly(i) \/ RejectPriced(i)
           \/ UNCHANGED vars
    PROVE Paid' /\ FundingIsComplete'
<1>1. index \in Nat /\ Candles \in Nat /\ TypeOK
  BY CellBounds DEF FundingInv, IInv, TypeOK
<1>2. funding' = funding /\ trades' = trades
  BY DEF Survive, BarrierInsideCandle, BarrierAtOpen, ApplicationManaged, EntriesDone,
         EntryCandleSurvived, EntryCandleBarrier, Finish, RejectEarly, RejectPriced,
         Evidence, vars
<1>3. position' = None \/ (/\ position # None
                           /\ position'.intent = position.intent
                           /\ position'.entry = position.entry)
  <2>1. CASE UNCHANGED position
    BY <2>1
  <2>2. CASE /\ position # None
             /\ \/ position' = Survivor
                \/ \E from \in Nat, r \in Reasons, a \in BOOLEAN : position' = Asking(from, r, a)
    <3>1. position \in Position
      BY <1>1, <2>2, PositionFields
    <3>2. CASE position' = Survivor
      <4> DEFINE b == Bar
      <4>1. position' = [position EXCEPT !.bar = b, !.decision = None]
        BY <3>2 DEF Survivor
      <4> HIDE DEF b
      <4> QED BY <2>2, <3>1, <4>1 DEF Position
    <3>3. ASSUME NEW from \in Nat, NEW r \in Reasons, NEW a \in BOOLEAN,
                 position' = Asking(from, r, a)
          PROVE position'.intent = position.intent /\ position'.entry = position.entry
      <4>1. position.entry <= index
        BY <2>2 DEF FundingInv, IInv, Held
      <4>2. AskedShape(Asking(from, r, a), from, r, a)
        BY <1>1, <2>2, <3>3, <4>1, AskingFields
      <4> QED BY <3>3, <4>2 DEF AskedShape
    <3> QED BY <2>2, <3>2, <3>3
  <2>3. UNCHANGED position \/ (/\ position # None
             /\ \/ position' = Survivor
                \/ \E from \in Nat, r \in Reasons, a \in BOOLEAN : position' = Asking(from, r, a))
    <3>1. CASE Survive \/ EntryCandleSurvived
      BY <3>1 DEF Survive, EntryCandleSurvived, FundingInv, IInv, Where, Consuming
    <3>2. Opens(index) \in Nat /\ Closes(index) \in Nat
      BY <1>1 DEF Opens, Closes
    <3>3. CASE BarrierInsideCandle \/ BarrierAtOpen \/ EntryCandleBarrier
      <4>1. position # None
        BY <3>3 DEF BarrierInsideCandle, BarrierAtOpen, EntryCandleBarrier,
                    FundingInv, IInv, Where, Consuming
      <4>2. \E from \in Nat, r \in Reasons, a \in BOOLEAN : position' = Asking(from, r, a)
        BY <3>2, <3>3, CellBounds DEF BarrierInsideCandle, BarrierAtOpen, EntryCandleBarrier,
                    Ambiguities, Reasons
      <4> QED BY <4>1, <4>2
    <3>4. CASE ApplicationManaged
      <4>1. position # None
        BY <3>4 DEF ApplicationManaged, FundingInv, IInv, Where, Consuming
      <4>2. PICK r, a : /\ position' = Asking(Opens(index), r, a)
                        /\ r = IF position.pending THEN position.reason ELSE "TIMEOUT"
                        /\ a = (position.pending /\ position.ambiguous)
        BY <3>4 DEF ApplicationManaged
      <4>3. r \in Reasons
        <5>1. CASE position.pending
          BY <1>1, <4>1, <4>2, <5>1, PositionFields DEF FundingInv, IInv, Held
        <5>2. CASE ~position.pending
          BY <4>2, <5>2 DEF Reasons
        <5> QED BY <5>1, <5>2
      <4>4. a \in BOOLEAN
        BY <4>2
      <4> QED BY <3>2, <4>1, <4>2, <4>3, <4>4
    <3>5. CASE EntriesDone \/ Finish \/ UNCHANGED vars
               \/ \E i \in Intents : RejectEarly(i) \/ RejectPriced(i)
      BY <3>5 DEF EntriesDone, Finish, vars, RejectEarly, RejectPriced
    <3> QED BY <3>1, <3>3, <3>4, <3>5
  <2> QED BY <2>1, <2>2, <2>3
<1>4. position' # None => Settled' <= Settled /\ Settled' \in Int
  <2>1. CASE Survive \/ BarrierInsideCandle \/ BarrierAtOpen \/ ApplicationManaged
             \/ EntryCandleBarrier
    <3>1. index' = index /\ pc \in {"barrier", "entered"}
      BY <2>1 DEF Survive, BarrierInsideCandle, BarrierAtOpen, ApplicationManaged,
                  EntryCandleBarrier, Evidence
    <3> QED BY <1>1, <3>1 DEF Settled
  <2>2. CASE EntriesDone
    BY <1>1, <2>2 DEF EntriesDone, Settled
  <2>3. CASE EntryCandleSurvived
    BY <1>1, <2>3 DEF EntryCandleSurvived, Settled
  <2>4. CASE Finish
    <3>1. position' = None
      <4>1. NeverHeldTooLong'
        BY <2>4, FinishInv DEF FundingInv, IInv
      <4> QED BY <2>4, <4>1 DEF Finish, NeverHeldTooLong
    <3> QED BY <3>1
  <2>5. CASE UNCHANGED vars \/ \E i \in Intents : RejectEarly(i) \/ RejectPriced(i)
    BY <1>1, <2>5 DEF vars, RejectEarly, RejectPriced, Settled
  <2> QED BY <2>1, <2>2, <2>3, <2>4, <2>5
<1> QED BY <1>2, <1>3, <1>4, StillPaid

\* A position owes nothing for the settlement at whose candle it is entered.
LEMMA EnterPays ==
    ASSUME FundingInv, NEW i \in Intents, Enter(i)
    PROVE Paid' /\ FundingIsComplete'
<1>1. /\ funding' = funding /\ trades' = trades /\ pc' = "entries" /\ index' = index
      /\ position'.entry = index /\ index \in Nat
  BY CellBounds DEF Enter, FundingInv, IInv, TypeOK
<1>2. FundingIsComplete'
  BY <1>1, TradesStayPaid DEF FundingInv
<1>3. Settled' = index
  BY <1>1 DEF Settled
<1>4. Paid'
  BY <1>1, <1>3, CellBounds DEF Paid
<1> QED BY <1>2, <1>4

\* A trade has paid for every settlement it was held over, whatever happens between
\* its entry and its last fill.
THEOREM FundingComplete == Spec => []FundingIsComplete
<1>1. Init => FundingInv
  BY InitInv DEF Init, FundingInv, Paid, FundingIsComplete
<1>2. FundingInv /\ [Next]_vars => FundingInv'
  <2> SUFFICES ASSUME FundingInv, [Next]_vars PROVE FundingInv'
    OBVIOUS
  <2>1. IInv'
    BY StepInv DEF FundingInv
  <2>2. Paid' /\ FundingIsComplete'
    BY OpenPays, ExitPays, QuietSteps, EnterPays DEF Next
  <2> QED BY <2>1, <2>2 DEF FundingInv
<1>3. FundingInv => FundingIsComplete
  BY DEF FundingInv
<1> QED BY <1>1, <1>2, <1>3, PTL DEF Spec

----------------------------------------------------------------------------
\* The candle the position has been shown, by where the loop stands; what has not
\* been asked for is not ambiguous.
Bars ==
    position # None =>
        /\ ~position.pending => ~position.ambiguous
        /\ pc \in {"open", "barrier"} =>
              position.bar # -1 /\ position.entry + position.bar < index
        /\ pc \in {"resting", "application", "last"} => position.entry + position.bar = index
        /\ pc = "entered" => position.bar = -1 /\ position.entry = index
        /\ pc = "entries" => IF position.bar = -1 THEN position.entry = index
                             ELSE position.entry + position.bar = index

Promised == [(position = None /\ position' # None) \/ Engine!Next]_(Engine!vars)

Shown == IF position.bar = -1 THEN Bar = 0 ELSE Bar \in Nat /\ Bar > position.bar

\* Nothing the owner sees has changed.
LEMMA SameView ==
    ASSUME setup' = setup, position' = position, trades' = trades
    PROVE UNCHANGED Engine!vars
BY DEF Engine!vars, Phase, Why, Left, Offer, LastBar, Horizon, Reason, Holding, Last, Opens

\* The position has just been shown a candle.
LEMMA ShownHere ==
    ASSUME IInv, Bars, position # None, pc \in {"barrier", "entered"}
    PROVE /\ Shown /\ Bar \in Nat /\ index \in Nat /\ position.entry \in Nat
          /\ position.entry <= index /\ position.intent \in Intents
          /\ Holding(position.intent) \in Nat \ {0}
<1>1. /\ index \in Nat /\ position.entry \in Nat /\ position.bar \in Nat \cup {-1}
      /\ position.entry <= index /\ position.intent \in Intents
  BY PositionFields DEF IInv, Held
<1>2. Holding(position.intent) \in Nat \ {0}
  BY <1>1, IntentTimes DEF IInv
<1> QED BY <1>1, <1>2 DEF Bars, Shown, Bar

\* A request of on_candle is a step of ExitRequest.
LEMMA AskStep ==
    ASSUME IInv, Bars, position # None, pc \in {"barrier", "entered"},
           NEW from \in {Opens(index), Closes(index)}, NEW r \in Reasons, NEW a \in BOOLEAN,
           position' = Asking(from, r, a), setup' = setup, trades' = trades,
           IF position.pending
           THEN r = position.reason /\ (a => position.ambiguous) /\ from = Opens(index)
           ELSE /\ a => r \in {"STOP_LOSS", "TRAILING_STOP"} /\ from = Closes(index)
                /\ r = "TIMEOUT" => Bar >= Holding(position.intent)
                /\ Bar >= Holding(position.intent) => from = Opens(index)
    PROVE Engine!Next
<1>1. /\ Shown /\ Bar \in Nat /\ index \in Nat /\ position.entry \in Nat
      /\ position.entry <= index /\ position.intent \in Intents /\ TypeOK
  BY ShownHere DEF IInv
<1>2. AskedShape(position', from, r, a)
  BY <1>1, AskingFields DEF Opens, Closes
<1> DEFINE both == position.ambiguous \/ a
           offered == [from |-> from - Opens(position.entry),
                       until |-> Closes(index) - Opens(position.entry)]
<1>3. /\ Phase' = "pending" /\ Why' = [reason |-> r, ambiguous |-> both] /\ Left' = Left
      /\ Offer' = offered /\ LastBar' = Bar /\ LastBar = position.bar
      /\ Horizon' = Horizon /\ Horizon = Holding(position.intent)
      /\ Phase = IF position.pending THEN "pending" ELSE "open"
  BY <1>2 DEF AskedShape, Phase, Why, Left, Offer, LastBar, Horizon, Reason, Holding, Opens, Bar
<1>4. /\ from = Opens(index) => offered = Engine!AtOpen(Bar)
      /\ from = Closes(index) => offered = Engine!AtClose(Bar)
  BY <1>1 DEF Opens, Closes, Bar, Engine!AtOpen, Engine!AtClose, Engine!Opens, Engine!Closes
<1>5. Engine!Advance
  BY <1>1, <1>3 DEF Engine!Advance, Shown
<1>6. both \in BOOLEAN
  OBVIOUS
<1>7. CASE position.pending
  <2>1. position.ambiguous \in BOOLEAN
    BY <1>1, PositionFields
  <2>2. both = position.ambiguous
    BY <1>7, <2>1
  <2>3. Why = [reason |-> r, ambiguous |-> both]
    BY <1>7, <2>2 DEF Why, Reason
  <2> HIDE DEF both, offered
  <2>4. Engine!AskAgain
    BY <1>3, <1>4, <1>5, <1>7, <2>3 DEF Engine!AskAgain
  <2> QED BY <2>4 DEF Engine!Next
<1>8. CASE ~position.pending
  <2>1. both = a
    BY <1>1, <1>8, PositionFields DEF Bars
  <2>2. r \in Engine!Stops \cup {"TAKE_PROFIT", "TIMEOUT"}
    BY DEF Reasons, Engine!Stops
  <2>3. Opens(index) # Closes(index)
    BY <1>1 DEF Opens, Closes
  <2> HIDE DEF both, offered
  <2>4. Engine!Ask
    BY <1>3, <1>4, <1>5, <1>8, <2>1, <2>2, <2>3 DEF Engine!Ask, Engine!Stops
  <2> QED BY <2>4 DEF Engine!Next
<1> QED BY <1>7, <1>8

\* Whatever asks for an exit has shown the candle.
LEMMA AskBars ==
    ASSUME IInv, position # None, position.entry <= index, NEW from \in Nat,
           NEW r \in Reasons, NEW a \in BOOLEAN,
           position' = Asking(from, r, a), index' = index,
           pc' \in {"resting", "application", "last", "entries", "illiquid"}
    PROVE Bars'
<1>1. AskedShape(position', from, r, a) /\ index \in Nat /\ position.entry \in Nat
  BY PositionFields, AskingFields DEF IInv
<1>2. Bar \in Nat /\ position.entry + Bar = index
  BY <1>1 DEF Bar
<1> QED BY <1>1, <1>2 DEF AskedShape, Bars

\* A candle that leaves the position open is one before its deadline.
LEMMA HoldStep ==
    ASSUME IInv, Bars, position # None, pc \in {"barrier", "entered"}, ~position.pending,
           Bar < Holding(position.intent), position' = Survivor, setup' = setup, trades' = trades,
           \/ pc' = "entries" /\ index' = index
           \/ pc' = "open" /\ index' = index + 1
    PROVE Engine!Next /\ Bars'
<1>1. /\ Shown /\ Bar \in Nat /\ index \in Nat /\ position.entry \in Nat
      /\ position.entry <= index /\ position \in Position
  BY ShownHere, PositionFields DEF IInv
<1> DEFINE b == Bar
<1>2. /\ position' \in Position /\ position' # None
      /\ position'.bar = b /\ position'.decision = None /\ position'.pending = position.pending
      /\ position'.intent = position.intent /\ position'.entry = position.entry
      /\ position'.remaining = position.remaining /\ position'.ambiguous = position.ambiguous
  <2>1. position' = [position EXCEPT !.bar = b, !.decision = None] /\ b \in Nat
    BY <1>1 DEF Survivor
  <2> HIDE DEF b
  <2>2. position' \in Position
    BY <1>1, <2>1 DEF Position
  <2>3. position' # None
    BY <2>2, NoneIsNoValue
  <2>4. /\ position'.bar = b /\ position'.decision = None
        /\ position'.pending = position.pending /\ position'.intent = position.intent
        /\ position'.entry = position.entry /\ position'.remaining = position.remaining
        /\ position'.ambiguous = position.ambiguous
    BY <1>1, <2>1 DEF Position
  <2> QED BY <2>2, <2>3, <2>4
<1>3. /\ Phase' = "open" /\ Phase = "open" /\ Why' = None /\ Why = None /\ Left' = Left
      /\ Offer' = None /\ Offer = None /\ LastBar' = Bar /\ LastBar = position.bar
      /\ Horizon' = Horizon /\ Horizon = Holding(position.intent)
  <2>1. position.decision = None
    BY DEF IInv, Held
  <2> QED BY <1>2, <2>1 DEF Phase, Why, Left, Offer, LastBar, Horizon, Holding
<1>4. Engine!Hold
  BY <1>1, <1>3 DEF Engine!Hold, Engine!Advance, Shown
<1>5. position.entry + Bar = index
  BY <1>1 DEF Bar
<1>6. Bars'
  BY <1>1, <1>2, <1>5 DEF Bars
<1> QED BY <1>4, <1>6 DEF Engine!Next

\* An executed exit is a fill of the offer made, or, when it finds no capacity,
\* nothing at all.
LEMMA FillStep ==
    ASSUME IInv, Bars, position # None, pc \in {"resting", "application", "last"},
           NEW origin, NEW decided, NEW eligible, NEW next \in {"entries", "open"},
           ExecuteExit(origin, decided, eligible, next),
           index' = IF next = "open" THEN index + 1 ELSE index
    PROVE (Engine!Next \/ UNCHANGED Engine!vars) /\ Bars'
<1> DEFINE d == position.decision
           q == FilledQuantity(d.requested)
           r == position.remaining
           left == r - q
           t == Closed(d.from)
<1>1. /\ position \in Position /\ index \in Nat /\ capacity \in Nat /\ r \in Nat \ {0}
      /\ position.entry \in Nat /\ position.entry <= index /\ position.bar \in Nat \cup {-1}
      /\ position.entry + position.bar = index /\ position.pending = TRUE /\ TypeOK /\ Held
  <2>1. position.pending
    BY DEF IInv, Stage
  <2> QED BY <2>1, PositionFields DEF IInv, Held, Bars
<1>2. /\ d \in Decision /\ d # None /\ d.from \in Nat /\ d.requested = r
      /\ d.from \in {Opens(index), Closes(index)}
  <2>1. d # None /\ d.from \in {Opens(index), Closes(index)}
    BY DEF IInv, Stage, DecidedAt
  <2> QED BY <1>1, <2>1, PositionFields, DecisionFields DEF Held
<1>3. q \in Nat /\ q <= r
  BY <1>1, <1>2, MinFields DEF FilledQuantity
<1>4. setup' = setup
  BY DEF ExecuteExit
<1>5. IF q = r
      THEN position' = None /\ trades' = Append(trades, t)
      ELSE /\ position' = IF q = 0 THEN position
                          ELSE [position EXCEPT !.remaining = left, !.decision = None]
           /\ trades' = trades
           /\ pc' \in {next, "illiquid"}
  BY DEF ExecuteExit, Executed
<1>6. /\ Phase = "pending" /\ Why = Reason(position) /\ Left = r /\ Offer # None
      /\ LastBar = position.bar /\ Horizon = Holding(position.intent)
  <2>1. Offer \in [from : Int, until : Int]
    <3>1. d.until \in Nat
      BY <1>2, DecisionFields
    <3> QED BY <1>1, <1>2, <3>1 DEF Offer, Opens
  <2> QED BY <1>1, <2>1, NoneIsNoValue DEF Phase, Why, Left, LastBar, Horizon
<1>7. CASE q = r
  <2>1. /\ t \in Trade /\ t.intent = position.intent
        /\ t.entry = Opens(position.entry) /\ t.exit = d.from
    BY <1>1, <1>2, ClosedFields
  <2>2. t.reason = position.reason /\ t.ambiguous = position.ambiguous
    BY DEF Closed
  <2>3. position' = None /\ trades' = Append(trades, t) /\ trades \in Seq(Trade)
    BY <1>1, <1>5, <1>7 DEF TypeOK
  <2>4. (t.exit \div 2) - (t.entry \div 2) = position.bar
    BY <1>1, <1>2, <2>1 DEF Opens, Closes
  <2> HIDE DEF t
  <2>5. trades' # <<>> /\ Last(trades') = t
    BY <2>1, <2>3, AppendedLast
  <2>6. /\ Phase' = "closed" /\ Why' = Why /\ Left' = 0 /\ Offer' = None
        /\ LastBar' = LastBar /\ Horizon' = Horizon
    BY <1>4, <1>6, <2>1, <2>2, <2>3, <2>4, <2>5
       DEF Phase, Why, Left, Offer, LastBar, Horizon, Reason, Holding, Last
  <2>7. Engine!Fill
    BY <1>1, <1>6, <2>6 DEF Engine!Fill
  <2> QED BY <2>3, <2>7 DEF Engine!Next, Bars
<1>8. CASE q # r /\ q = 0
  <2>1. position' = position /\ trades' = trades /\ pc' \in {next, "illiquid"}
    BY <1>5, <1>8
  <2> QED BY <1>1, <1>4, <2>1, SameView DEF Bars
<1>9. CASE q # r /\ q # 0
  <2>1. /\ position' = [position EXCEPT !.remaining = left, !.decision = None]
        /\ trades' = trades /\ pc' \in {next, "illiquid"}
    BY <1>5, <1>9
  <2>2. left \in Nat \ {0} /\ q \in 1..r /\ left = r - q
    <3>1. r \in Nat
      BY <1>1
    <3> HIDE DEF q, r
    <3>2. q \in 1..r /\ r - q \in Nat \ {0}
      BY <1>3, <1>9, <3>1
    <3> QED BY <3>2
  <2> HIDE DEF q, left
  <2>3. position' \in Position
    BY <1>1, <2>1, <2>2 DEF Position
  <2>4. /\ position'.decision = None /\ position'.pending = TRUE
        /\ position'.intent = position.intent /\ position'.entry = position.entry
        /\ position'.bar = position.bar /\ position'.reason = position.reason
        /\ position'.ambiguous = position.ambiguous /\ position'.remaining = left
    BY <1>1, <2>1 DEF Position
  <2>5. position' # None
    BY <2>3, NoneIsNoValue
  <2>6. /\ Phase' = "pending" /\ Why' = Why /\ Left' = left /\ Offer' = None
        /\ LastBar' = LastBar /\ Horizon' = Horizon
    BY <1>4, <1>6, <2>1, <2>4, <2>5
       DEF Phase, Why, Left, Offer, LastBar, Horizon, Reason, Holding
  <2>7. Engine!Fill
    BY <1>6, <1>9, <2>2, <2>6 DEF Engine!Fill
  <2>8. Bars'
    BY <1>1, <2>1, <2>4, <2>5 DEF Bars
  <2> QED BY <2>7, <2>8 DEF Engine!Next
<1> QED BY <1>7, <1>8, <1>9

\* The step of a candle that has been shown to the position.
LEMMA ShowStep ==
    ASSUME IInv, Bars,
           \/ Survive \/ BarrierInsideCandle \/ BarrierAtOpen \/ ApplicationManaged
           \/ EntryCandleSurvived \/ EntryCandleBarrier
    PROVE Engine!Next /\ Bars'
<1>1. /\ position # None /\ pc \in {"barrier", "entered"} /\ setup' = setup /\ trades' = trades
  BY DEF Survive, BarrierInsideCandle, BarrierAtOpen, ApplicationManaged,
         EntryCandleSurvived, EntryCandleBarrier, Evidence, IInv, Where, Consuming
<1>2. /\ Bar \in Nat /\ index \in Nat /\ position.entry <= index
      /\ Holding(position.intent) \in Nat \ {0}
      /\ Opens(index) \in Nat /\ Closes(index) \in Nat
  BY <1>1, ShownHere DEF Opens, Closes
<1>3. pc = "entered" => Bar = 0 /\ ~position.pending
  BY <1>1, <1>2 DEF Bars, Bar, IInv, Stage
<1>4. CASE Survive \/ EntryCandleSurvived
  <2>1. ~position.pending /\ Bar < Holding(position.intent) /\ position' = Survivor
        /\ \/ pc' = "entries" /\ index' = index
           \/ pc' = "open" /\ index' = index + 1
    BY <1>2, <1>3, <1>4 DEF Survive, EntryCandleSurvived, Expired, Evidence
  <2> QED BY <1>1, <2>1, HoldStep
<1>5. CASE BarrierInsideCandle \/ BarrierAtOpen \/ EntryCandleBarrier
  <2>1. PICK from \in {Opens(index), Closes(index)} : \E r \in Reasons : \E a \in BOOLEAN :
          /\ position' = Asking(from, r, a) /\ r # "TIMEOUT"
          /\ a => r \in {"STOP_LOSS", "TRAILING_STOP"} /\ from = Closes(index)
          /\ Bar < Holding(position.intent) \/ from = Opens(index)
    <3>1. CASE BarrierInsideCandle
      <4>1. Bar < Holding(position.intent)
        BY <1>2, <3>1 DEF BarrierInsideCandle, Expired
      <4> QED BY <3>1, <4>1, CellBounds DEF BarrierInsideCandle, Ambiguities, Reasons
    <3>2. CASE BarrierAtOpen
      BY <3>2, CellBounds DEF BarrierAtOpen, Reasons
    <3>3. CASE EntryCandleBarrier
      <4>1. Bar < Holding(position.intent)
        BY <1>2, <1>3, <3>3 DEF EntryCandleBarrier
      <4>2. CASE position' = Asking(Opens(index), "STOP_LOSS", FALSE)
        BY <4>2 DEF Reasons
      <4>3. CASE \E r \in BarrierReasons \ {"TRAILING_STOP"} : \E a \in Ambiguities(r) :
                    position' = Asking(Closes(index), r, a)
        BY <4>1, <4>3, CellBounds DEF Ambiguities, Reasons
      <4> QED BY <3>3, <4>2, <4>3 DEF EntryCandleBarrier
    <3> QED BY <1>5, <3>1, <3>2, <3>3
  <2>2. PICK r \in Reasons : \E a \in BOOLEAN :
          /\ position' = Asking(from, r, a) /\ r # "TIMEOUT"
          /\ a => r \in {"STOP_LOSS", "TRAILING_STOP"} /\ from = Closes(index)
          /\ Bar < Holding(position.intent) \/ from = Opens(index)
    BY <2>1
  <2>3. PICK a \in BOOLEAN :
          /\ position' = Asking(from, r, a) /\ r # "TIMEOUT"
          /\ a => r \in {"STOP_LOSS", "TRAILING_STOP"} /\ from = Closes(index)
          /\ Bar < Holding(position.intent) \/ from = Opens(index)
    BY <2>2
  <2>4. ~position.pending /\ index' = index /\ pc' \in {"entries", "resting", "last"}
    BY <1>3, <1>5 DEF BarrierInsideCandle, BarrierAtOpen, EntryCandleBarrier, Evidence
  <2>5. Bar >= Holding(position.intent) => from = Opens(index)
    BY <1>2, <2>1, <2>3
  <2>6. Engine!Next
    BY <1>1, <2>3, <2>4, <2>5, AskStep
  <2>7. Bars'
    BY <1>1, <1>2, <2>3, <2>4, AskBars
  <2> QED BY <2>6, <2>7
<1>6. CASE ApplicationManaged
  <2>1. PICK r, a : /\ position' = Asking(Opens(index), r, a)
                    /\ r = IF position.pending THEN position.reason ELSE "TIMEOUT"
                    /\ a = (position.pending /\ position.ambiguous)
    BY <1>6 DEF ApplicationManaged
  <2>2. r \in Reasons
    <3>1. CASE position.pending
      BY <1>1, <2>1, <3>1, PositionFields DEF IInv, Held
    <3>2. CASE ~position.pending
      BY <2>1, <3>2 DEF Reasons
    <3> QED BY <3>1, <3>2
  <2>3. a \in BOOLEAN
    BY <2>1
  <2>4. /\ index' = index /\ pc' \in {"illiquid", "application", "entries"}
        /\ position.pending \/ Bar >= Holding(position.intent)
    BY <1>6 DEF ApplicationManaged, Evidence, Expired
  <2>5. IF position.pending
        THEN r = position.reason /\ (a => position.ambiguous)
        ELSE ~a /\ r = "TIMEOUT" /\ Bar >= Holding(position.intent)
    BY <2>1, <2>4
  <2>6. Engine!Next
    BY <1>1, <2>1, <2>2, <2>3, <2>5, AskStep
  <2>7. Bars'
    BY <1>1, <1>2, <2>1, <2>2, <2>3, <2>4, AskBars
  <2> QED BY <2>6, <2>7
<1> QED BY <1>4, <1>5, <1>6

\* Every other step leaves the position alone, or enters one.
LEMMA OwnSteps ==
    ASSUME IInv, Bars,
           \/ OpenCandle \/ EntriesDone \/ Finish \/ UNCHANGED vars
           \/ \E i \in Intents : RejectEarly(i) \/ RejectPriced(i) \/ Enter(i)
    PROVE Promised /\ Bars'
<1>1. index \in Nat
  BY CellBounds DEF IInv, TypeOK
<1>2. CASE \E i \in Intents : Enter(i)
  <2>1. PICK i \in Intents : Enter(i)
    BY <1>2
  <2>2. /\ position = None /\ pc' = "entries" /\ index' = index
        /\ position'.bar = -1 /\ position'.entry = index /\ position'.ambiguous = FALSE
    BY <2>1 DEF Enter, Enterable
  <2>3. position' # None
    <3>1. PICK requested \in 1..MaxRequest :
            position' = [intent |-> i, entry |-> index, remaining |-> FilledQuantity(requested),
                         bar |-> -1, pending |-> FALSE, reason |-> None, ambiguous |-> FALSE,
                         decision |-> None, sequence |-> 0]
      BY <2>1 DEF Enter
    <3>2. i \in Nat \ {0} /\ FilledQuantity(requested) \in Nat \ {0}
      <4>1. capacity \in Nat \ {0} /\ requested \in Nat \ {0}
        BY <2>1, CellBounds DEF Enter, IInv, TypeOK
      <4>2. i \in Nat \ {0}
        BY IntentTimes DEF IInv
      <4> QED BY <4>1, <4>2 DEF FilledQuantity, Min2
    <3> DEFINE q == FilledQuantity(requested)
    <3>3. position' \in Position
      <4> HIDE DEF q
      <4> QED BY <1>1, <3>1, <3>2 DEF Position
    <3> QED BY <3>3, NoneIsNoValue
  <2>4. Bars'
    BY <2>2 DEF Bars
  <2> QED BY <2>2, <2>3, <2>4 DEF Promised
<1>3. CASE \/ OpenCandle \/ EntriesDone \/ Finish \/ UNCHANGED vars
           \/ \E i \in Intents : RejectEarly(i) \/ RejectPriced(i)
  <2>1. setup' = setup /\ position' = position /\ trades' = trades
    BY <1>3 DEF OpenCandle, EntriesDone, Finish, vars, RejectEarly, RejectPriced, Evidence
  <2>2. UNCHANGED Engine!vars
    BY <2>1, SameView
  <2>3. Bars'
    <3> SUFFICES ASSUME position # None PROVE Bars'
      BY <2>1 DEF Bars
    <3>1. position.entry \in Nat /\ position.bar \in Nat \cup {-1}
          /\ (~position.pending => position.decision = None)
          /\ (position.pending => position.bar # -1)
      BY PositionFields DEF IInv, Held
    <3>2. CASE OpenCandle
      BY <2>1, <3>2 DEF OpenCandle, Bars
    <3>3. CASE EntriesDone
      BY <1>1, <2>1, <3>1, <3>3 DEF EntriesDone, Bars, EnteredHere, AwaitsClose
    <3>4. CASE Finish
      BY <2>1, <3>4 DEF Finish, Bars
    <3>5. CASE UNCHANGED vars
      BY <3>5 DEF vars, Bars
    <3>6. CASE \E i \in Intents : RejectEarly(i) \/ RejectPriced(i)
      BY <2>1, <3>6 DEF RejectEarly, RejectPriced, Bars
    <3> QED BY <1>3, <3>2, <3>3, <3>4, <3>5, <3>6
  <2> QED BY <2>2, <2>3 DEF Promised
<1> QED BY <1>2, <1>3

\* The loop, which shares no code with the barrier engine, uses it as ExitRequest
\* allows: with ManagedPosition shown to keep ExitRequest, the two fit together.
THEOREM KeepsPromise == Spec => PositionKeepsPromise
<1>1. Init => IInv /\ Bars
  BY InitInv DEF Init, Bars
<1>2. IInv /\ Bars /\ [Next]_vars => IInv' /\ Bars' /\ Promised
  <2> SUFFICES ASSUME IInv, Bars, [Next]_vars PROVE Bars' /\ Promised
    BY StepInv
  <2>1. CASE FillAtOpen \/ FillApplicationExit \/ FillLast
    <3>1. pc \in {"resting", "application", "last"} /\ position # None
      BY <2>1 DEF FillAtOpen, FillApplicationExit, FillLast, IInv, Where, Consuming
    <3>2. (Engine!Next \/ UNCHANGED Engine!vars) /\ Bars'
      BY <2>1, <3>1, FillStep DEF FillAtOpen, FillApplicationExit, FillLast
    <3> QED BY <3>2 DEF Promised
  <2>2. CASE \/ Survive \/ BarrierInsideCandle \/ BarrierAtOpen \/ ApplicationManaged
             \/ EntryCandleSurvived \/ EntryCandleBarrier
    BY <2>2, ShowStep DEF Promised
  <2>3. CASE \/ OpenCandle \/ EntriesDone \/ Finish \/ UNCHANGED vars
             \/ \E i \in Intents : RejectEarly(i) \/ RejectPriced(i) \/ Enter(i)
    BY <2>3, OwnSteps
  <2> QED BY <2>1, <2>2, <2>3 DEF Next
<1> QED BY <1>1, <1>2, PTL DEF Spec, PositionKeepsPromise, Promised

----------------------------------------------------------------------------
(* The result is accepted.                                                 *)

\* A set of naturals has a least member.
LEMMA LeastOf == ASSUME NEW T \in SUBSET Nat, T # {}
                 PROVE \E x \in T : \A y \in T : x <= y
<1>1. PICK x \in T : \A y \in T : ~ (<<y, x>> \in OpToRel(<, Nat))
  BY WFMin, NatLessThanWellFounded
<1>2. \A y \in T : ~ (y < x)
  BY <1>1 DEF OpToRel
<1> QED BY <1>2

\* The largest index of a part of a ledger.
LEMMA MaxIsIn == ASSUME NEW n \in Nat, NEW S \in SUBSET (1..n), S # {}
                 PROVE Max(S) \in S /\ \A y \in S : y <= Max(S)
<1> DEFINE T == {x \in 0..n : \A y \in S : y <= x}
<1>1. n \in T
  OBVIOUS
<1>2. PICK m \in T : \A x \in T : m <= x
  <2>1. T \in SUBSET Nat /\ T # {}
    BY <1>1
  <2> HIDE DEF T
  <2> QED BY <2>1, LeastOf
<1>3. m \in S
  <2> SUFFICES ASSUME m \notin S PROVE FALSE
    OBVIOUS
  <2>1. PICK y \in S : TRUE
    OBVIOUS
  <2>2. m - 1 \in 0..n /\ \A z \in S : z <= m - 1
    BY <2>1
  <2>3. m - 1 \in T
    BY <2>2
  <2> QED BY <1>2, <2>3
<1>4. \A y \in S : m >= y
  BY <1>2
<1> QED BY <1>3, <1>4 DEF Max

LEMMA MaxOfMore == ASSUME NEW n \in Nat, NEW S \in SUBSET (1..n)
                   PROVE Max(S \cup {n + 1}) = n + 1
<1>1. \A y \in S \cup {n + 1} : n + 1 >= y
  OBVIOUS
<1>2. \A x \in S \cup {n + 1} : (\A y \in S \cup {n + 1} : x >= y) => x = n + 1
  OBVIOUS
<1> QED BY <1>1, <1>2 DEF Max

----------------------------------------------------------------------------
(* What a new fill leaves of the ledger.                                   *)

LEMMA AttemptsOf ==
    ASSUME TypeOK
    PROVE /\ DOMAIN fills = 1..Len(fills) /\ Len(fills) \in Nat
          /\ \A k \in DOMAIN fills : fills[k] \in Fill
          /\ \A i : ExitsOf(i) \subseteq DOMAIN fills /\ EntriesOf(i) \subseteq DOMAIN fills
          /\ \A k \in DOMAIN fills : Earlier(k) \in SUBSET (1..Len(fills))
<1>1. fills \in Seq(Fill)
  BY DEF TypeOK
<1> QED BY <1>1 DEF ExitsOf, EntriesOf, Earlier

\* The ledger with one fill more.
Appended(f, n) ==
    /\ n = Len(fills) + 1 /\ n \in Nat
    /\ fills' \in Seq(Fill) /\ Len(fills') = n
    /\ DOMAIN fills = 1..Len(fills) /\ Len(fills) \in Nat
    /\ DOMAIN fills' = DOMAIN fills \cup {n} /\ n \notin DOMAIN fills
    /\ fills'[n] = f
    /\ \A k \in DOMAIN fills : fills'[k] = fills[k] /\ k < n

LEMMA AppendedFill ==
    ASSUME TypeOK, NEW f \in Fill, fills' = Append(fills, f)
    PROVE Appended(f, Len(fills) + 1)
<1>1. fills \in Seq(Fill)
  BY DEF TypeOK
<1> QED BY <1>1, AppendedLast DEF Appended

LEMMA AppendedParts ==
    ASSUME TypeOK, NEW f \in Fill, NEW n, Appended(f, n)
    PROVE /\ \A i : ExitsOf(i)' = IF f.intent = i /\ ~IsEntry(f) THEN ExitsOf(i) \cup {n}
                                  ELSE ExitsOf(i)
          /\ \A i : EntriesOf(i)' = IF f.intent = i /\ IsEntry(f) THEN EntriesOf(i) \cup {n}
                                    ELSE EntriesOf(i)
          /\ \A k \in DOMAIN fills : Earlier(k)' = Earlier(k)
          /\ Earlier(n)' = ExitsOf(f.intent)
<1>1. ASSUME NEW i
      PROVE  ExitsOf(i)' = IF f.intent = i /\ ~IsEntry(f) THEN ExitsOf(i) \cup {n}
                           ELSE ExitsOf(i)
  BY DEF Appended, ExitsOf, IsEntry
<1>2. ASSUME NEW i
      PROVE  EntriesOf(i)' = IF f.intent = i /\ IsEntry(f) THEN EntriesOf(i) \cup {n}
                             ELSE EntriesOf(i)
  BY DEF Appended, EntriesOf, IsEntry
<1>3. \A k \in DOMAIN fills : k \in Nat /\ k < n
  BY DEF Appended
<1>4. n \in Nat /\ fills'[n] = f /\ \A k \in DOMAIN fills : fills'[k] = fills[k]
  BY DEF Appended
<1>5. \A i : \A j \in ExitsOf(i) : j \in Nat /\ j < n
  BY <1>3 DEF ExitsOf
<1>6. ASSUME NEW k \in DOMAIN fills PROVE Earlier(k)' = Earlier(k)
  <2>0. PICK i : i = fills[k].intent
    OBVIOUS
  <2>1. Earlier(k)' = {j \in ExitsOf(i)' : j < k} /\ Earlier(k) = {j \in ExitsOf(i) : j < k}
    BY <2>0, <1>4 DEF Earlier
  <2>2. ~ (n < k)
    BY <1>3, <1>4
  <2> QED BY <1>1, <2>1, <2>2
<1>7. Earlier(n)' = ExitsOf(f.intent)
  <2>1. Earlier(n)' = {j \in ExitsOf(f.intent)' : j < n}
    BY <1>4 DEF Earlier
  <2>2. ~ (n < n)
    BY <1>4
  <2> QED BY <1>1, <1>5, <2>1, <2>2
<1> QED BY <1>1, <1>2, <1>6, <1>7

\* What has been told of a trade stays told.
LEMMA LeftStays ==
    ASSUME TypeOK, NEW f \in Fill, NEW n, Appended(f, n), NEW S \in SUBSET DOMAIN fills, NEW t
    PROVE LeftAfter(t, S)' = LeftAfter(t, S)
<1>1. CASE S = {}
  BY <1>1 DEF LeftAfter
<1>2. CASE S # {}
  <2>1. Max(S) \in DOMAIN fills
    BY <1>2, MaxIsIn DEF Appended
  <2> QED BY <1>2, <2>1 DEF LeftAfter, Appended
<1> QED BY <1>1, <1>2

LEMMA AttemptStays ==
    ASSUME TypeOK, NEW f \in Fill, NEW n, Appended(f, n), setup' = setup,
           NEW k \in DOMAIN fills, NEW t, AttemptHolds(t, k)
    PROVE AttemptHolds(t, k)'
<1>1. Earlier(k)' = Earlier(k) /\ Earlier(k) \in SUBSET DOMAIN fills
  BY AppendedParts, AttemptsOf
<1>2. fills'[k] = fills[k]
  BY DEF Appended
<1>4. Earlier(k) # {} => fills'[Max(Earlier(k))] = fills[Max(Earlier(k))]
  <2>1. Earlier(k) # {} => Max(Earlier(k)) \in DOMAIN fills
    BY <1>1, MaxIsIn DEF Appended
  <2> QED BY <2>1 DEF Appended
<1>3. LeftAfter(t, Earlier(k))' = LeftAfter(t, Earlier(k))
  BY <1>1, <1>4 DEF LeftAfter
<1>5. ApplicationDecision(t, k)' = ApplicationDecision(t, k) /\ NominalTimeout(t)' = NominalTimeout(t)
  BY <1>1, <1>4 DEF ApplicationDecision, NominalTimeout, Holding
<1> QED BY <1>1, <1>2, <1>3, <1>4, <1>5 DEF AttemptHolds

----------------------------------------------------------------------------
(* The invariant.                                                          *)

Running == pc \in {"barrier", "resting", "application", "entries", "entered", "last"}
Filling == pc \in {"resting", "application", "last"}

\* Where the capacity ledger ends.
LedgerEnds ==
    /\ \A k \in DOMAIN fills : /\ fills[k].candle <= index
                               /\ pc = "open" => fills[k].candle < index
                               /\ pc = "open" => fills[k].at < Opens(index)
                               /\ Running => fills[k].at <= Opens(index)
    /\ Running =>
          LET end == fills[Len(fills)]
          IN  IF fills # <<>> /\ end.candle = index
              THEN capacity = end.after /\ volume = end.volume
              ELSE capacity = volume

Entered == {i \in Intents : dispositions[i] # None /\ dispositions[i].reason = "ENTERED"}
HeldIntents == IF position = None THEN {} ELSE {position.intent}

\* The trade that the position will be.
Current == Closed(Opens(position.entry))

EntryTold(t) == \A k \in EntriesOf(t.intent) : t.entry = fills[k].at /\ t.quantity = fills[k].filled

EntriesTold ==
    /\ Entered = ClosedIntents \cup HeldIntents
    /\ \A i \in Entered : \E k \in EntriesOf(i) : EntriesOf(i) = {k}
    /\ \A k \in DOMAIN trades : EntryTold(trades[k])
    /\ position # None => EntryTold(Current)

\* What is disposed of is behind, and what is behind is disposed of.
Considered ==
    \A i \in Intents :
        /\ EntryIndex(i) >= Candles \/ pc = "done" => dispositions[i] # None
        /\ dispositions[i] # None /\ EntryIndex(i) < Candles =>
              /\ EntryIndex(i) <= index
              /\ pc \in {"open", "barrier", "resting", "application"} => EntryIndex(i) < index
        /\ EntryIndex(i) < index => dispositions[i] # None
        /\ pc \in {"entered", "last"} /\ EntryIndex(i) = index => dispositions[i] # None

\* What waits for the end of a candle was learned then, and nothing is held at the end.
Outside ==
    /\ pc = "last" => position.decision.from = Closes(index)
    /\ pc = "done" => position = None

\* As DispositionHolds has it, but that a position is as live as a trade.
LiveOrHeld(t) == LiveAt(t) \/ (position # None /\ Opens(position.entry) <= t)
Priced(d) == d.reason \in {"ADMISSION", "NO_LIQUIDITY", "ENTERED"}
EntryHolds(i, d) ==
    \A k \in EntriesOf(i) :
        /\ fills[k].before = d.capacity
        /\ fills[k].requested = d.requested
        /\ fills[k].filled = d.filled
        /\ fills[k].candle = EntryIndex(i)
        /\ fills[k].eligible = Causal(i)
        /\ fills[k].decided = setup.intents[i].decision
Told(i) ==
    LET d == dispositions[i]
        at == Opens(EntryIndex(i))
    IN  IF ScheduledReason(i) # "OPEN" THEN d.reason = ScheduledReason(i)
        ELSE /\ d.reason \notin {"EXPIRED", "INSUFFICIENT_TERMINAL_HORIZON"}
             /\ d.capacity <= d.volume
             /\ d.reason = "OVERLAPPING_POSITION" => LiveOrHeld(at)
             /\ Priced(d) => d.equity = ClosedBy(at)
             /\ d.reason = "NO_LIQUIDITY" => d.capacity = 0
             /\ d.reason = "ENTERED" => EntryHolds(i, d)

DispositionsTold == \A i \in Intents : dispositions[i] # None => Told(i)

\* The attempts of the position, and what its next one must follow from.
Attempts == ExitsOf(position.intent)
Newest == fills[Max(Attempts)]
AskedAt == IF Attempts = {} THEN NominalTimeout(Current) ELSE Newest.at

AttemptsHold ==
    /\ \A k \in Attempts : /\ AttemptHolds(Current, k)
                           /\ fills[k].decision.ambiguous = position.ambiguous
    /\ position.remaining = LeftAfter(Current, Attempts)

DecisionTold ==
    /\ position.decision # None =>
          /\ position.decision.sequence = position.sequence
          /\ position.decision.reason = position.reason
          /\ position.decision.ambiguous = position.ambiguous
          /\ Filling => position.decision.until = Closes(index)
    /\ ~position.pending => ~position.ambiguous
    /\ Attempts # {} => /\ Newest.decision \in Decision
                        /\ Newest.decision.sequence <= position.sequence
                        /\ Filling => Newest.decision.sequence < position.sequence

RestingTold ==
    exit = None =>
        /\ Attempts = {}
        /\ position.pending => /\ position.reason # "TIMEOUT"
                               /\ position.decision # None
                               /\ position.decision.until = Closes(index)
                               /\ position.decision.from <= NominalTimeout(Current)

ScheduleTold ==
    exit # None =>
        /\ Attempts = {} => position.reason = "TIMEOUT"
        /\ exit.decided = AskedAt
        /\ exit.eligible = AskedAt + setup.exitLatency
        /\ exit.ready = IF Attempts = {} THEN IndexAt(exit.eligible)
                        ELSE Max2(IndexAt(exit.eligible), Newest.candle + 1)
        /\ pc = "application" => index = exit.ready

Story == position # None /\ pc # "illiquid" =>
             AttemptsHold /\ DecisionTold /\ RestingTold /\ ScheduleTold

ClosedTrades == {trades[k] : k \in DOMAIN trades}
TradesTold == \A t \in ClosedTrades : ExitsHold(t)

\* As ChargeHolds has it, but that a position is charged like a trade.
Before(i, at) == {m \in ExitsOf(i) : fills[m].at < at}
PaidBy(t, c) ==
    /\ t.intent = c.intent /\ t.entry < c.at /\ c.at <= t.exit
    /\ c.quantity = LeftAfter(t, Before(t.intent, c.at))
ChargedHere(c) ==
    /\ position # None /\ position.intent = c.intent
    /\ Opens(position.entry) < c.at
    /\ c.quantity = LeftAfter(Current, Before(position.intent, c.at))
ChargeTold(c) == (\E t \in ClosedTrades : PaidBy(t, c)) \/ ChargedHere(c)

Charges == {funding[k] : k \in DOMAIN funding}
ChargesTold ==
    /\ \A c \in Charges : /\ ChargeTold(c) /\ c.at <= Opens(index)
                          /\ pc = "open" => c.at < Opens(index)
    /\ \A k \in 2..Len(funding) : funding[k - 1].at <= funding[k].at

ReplayInv == /\ IInv /\ CapacityLedgerHolds /\ LedgerEnds /\ EntriesTold /\ Considered
             /\ Outside /\ DispositionsTold /\ Story /\ TradesTold /\ ChargesTold

----------------------------------------------------------------------------
(* What one attempt to exit does.                                          *)

Ended(f, next) ==
    /\ position' = None /\ exit' = None /\ pc' = next
    /\ trades' = Append(trades, Closed(f.at))

Retried(f, next) ==
    /\ position' \in Position /\ position' # None
    /\ position'.intent = position.intent /\ position'.entry = position.entry
    /\ position'.reason = position.reason /\ position'.ambiguous = position.ambiguous
    /\ position'.sequence = position.sequence /\ position'.pending = TRUE
    /\ position'.remaining = f.requested - f.filled
    /\ position'.decision \in {None, position.decision}
    /\ exit' = Schedule(f.at, index + 1) /\ exit' # None
    /\ pc' \in {next, "illiquid"}
    /\ trades' = trades

Answers(f, origin, decided, eligible) ==
    /\ fills' = Append(fills, f)
    /\ f.intent = position.intent /\ f.decision = position.decision /\ f.candle = index
    /\ f.at = position.decision.from /\ f.requested = position.remaining
    /\ f.filled = Min2(f.requested, capacity)
    /\ f.volume = volume /\ f.before = capacity /\ f.after = capacity - f.filled
    /\ f.origin = origin /\ f.decided = decided /\ f.eligible = eligible
    /\ capacity' = f.after
    /\ UNCHANGED <<setup, volume, dispositions, funding>>

Tried(f, next) ==
    /\ f \in Fill
    /\ \/ /\ pc = "application" /\ exit # None
          /\ Answers(f, "APPLICATION_EXIT", exit.decided, exit.eligible)
       \/ /\ pc \in {"resting", "last"} /\ exit = None
          /\ Answers(f, "RESTING_BARRIER", f.at, f.at)
    /\ IF next = "open" THEN pc = "last" /\ index' = index + 1
       ELSE pc # "last" /\ index' = index /\ f.at = Opens(index)
    /\ IF f.filled = f.requested THEN Ended(f, next) ELSE Retried(f, next)

\* Where a fill finds its position.
LEMMA AtFill ==
    ASSUME IInv, Filling
    PROVE /\ TypeOK /\ Held /\ position # None /\ index < Candles /\ index \in Nat
          /\ position.pending /\ position \in Position /\ position.entry \in Nat
          /\ position.entry <= index
          /\ position.intent \in Intents /\ position.intent \in Nat \ {0}
          /\ position.remaining \in Nat \ {0} /\ capacity \in Nat /\ volume \in Nat
          /\ capacity <= volume
          /\ position.decision \in Decision /\ position.decision # None
          /\ position.decision.requested = position.remaining
          /\ position.decision.from \in {Opens(index), Closes(index)}
          /\ pc # "last" => position.decision.from = Opens(index)
          /\ exit = None <=> pc # "application"
          /\ exit # None => exit \in Scheduled
<1>1. position # None /\ index < Candles
  BY DEF Filling, IInv, Where, Consuming
<1>2. position.pending /\ DecidedAt({Opens(index), Closes(index)})
      /\ (pc # "last" => position.decision.from = Opens(index))
      /\ (exit = None <=> pc # "application")
  BY <1>1 DEF Filling, IInv, Stage, DecidedAt
<1>3. TypeOK /\ Held
  BY DEF IInv
<1>4. position.decision \in Decision /\ position.decision # None
      /\ position.decision.from \in {Opens(index), Closes(index)}
  BY <1>1, <1>2, <1>3, PositionFields DEF DecidedAt
<1>5. capacity <= volume /\ (exit # None => exit \in Scheduled)
  BY <1>1, <1>3, PositionFields DEF TypeOK
<1> QED BY <1>1, <1>2, <1>3, <1>4, <1>5, PositionFields DEF Held

LEMMA ExecuteTells ==
    ASSUME IInv, Filling,
           NEW origin \in {"RESTING_BARRIER", "APPLICATION_EXIT"},
           NEW decided \in Nat, NEW eligible \in Nat, NEW next,
           ExecuteExit(origin, decided, eligible, next)
    PROVE \E f \in Fill : /\ Answers(f, origin, decided, eligible)
                          /\ IF f.filled = f.requested THEN Ended(f, next) ELSE Retried(f, next)
<1> DEFINE f == Executed(origin, decided, eligible)
           d == position.decision
           retry == Schedule(f.at, index + 1)
<1>1. /\ position # None /\ position.pending /\ position \in Position /\ index \in Nat
      /\ capacity \in Nat /\ volume \in Nat /\ d \in Decision /\ d # None
      /\ d.requested = position.remaining /\ position.remaining \in Nat \ {0}
      /\ position.intent \in Nat \ {0} /\ d.from \in Nat /\ TypeOK
  BY AtFill, DecisionFields
<1>2. /\ FilledQuantity(d.requested) \in Nat /\ FilledQuantity(d.requested) <= capacity
      /\ FilledQuantity(d.requested) = Min2(d.requested, capacity)
  BY <1>1, MinFields DEF FilledQuantity
<1>3. /\ f.intent = position.intent /\ f.decision = d /\ f.candle = index /\ f.at = d.from
      /\ f.requested = d.requested /\ f.filled = FilledQuantity(d.requested)
      /\ f.volume = volume /\ f.before = capacity
      /\ f.after = capacity - FilledQuantity(d.requested)
      /\ f.origin = origin /\ f.decided = decided /\ f.eligible = eligible
  BY DEF Executed
<1>4. f \in Fill
  <2>1. capacity - FilledQuantity(d.requested) \in Nat
    BY <1>1, <1>2
  <2> QED BY <1>1, <1>2, <2>1 DEF Executed, Fill
<1>5. /\ fills' = Append(fills, f) /\ capacity' = f.after
      /\ UNCHANGED <<setup, volume, dispositions, funding>>
  BY DEF ExecuteExit
<1>8. Answers(f, origin, decided, eligible)
  <2> HIDE DEF f
  <2> QED BY <1>1, <1>2, <1>3, <1>5 DEF Answers
<1>6. CASE f.filled = f.requested
  <2>1. Ended(f, next)
    BY <1>1, <1>3, <1>6 DEF ExecuteExit, Ended
  <2> HIDE DEF f
  <2> QED BY <1>4, <1>6, <1>8, <2>1
<1>7. CASE f.filled # f.requested
  <2>1. /\ position' = IF f.filled = 0 THEN position
                       ELSE [position EXCEPT !.remaining = @ - f.filled, !.decision = None]
        /\ exit' = retry /\ pc' \in {next, "illiquid"} /\ trades' = trades
    BY <1>1, <1>3, <1>7 DEF ExecuteExit
  <2>2. position' \in Position /\ position' # None
        /\ position'.intent = position.intent /\ position'.entry = position.entry
    <3>1. DecidedAt({Opens(index), Closes(index)}) /\ Held
      BY AtFill DEF DecidedAt
    <3>2. ExecutedExit(next)
      BY <1>1, <3>1, ExecuteFields
    <3>3. ~ ClosedBehind(next)
      <4>1. trades \in Seq(Trade)
        BY <1>1 DEF TypeOK
      <4>2. Closed(d.from) \in Trade
        BY <1>1, <3>1, ClosedFields
      <4>3. trades' # Append(trades, Closed(d.from))
        BY <2>1, <4>1, <4>2, AppendedLast
      <4> QED BY <4>3 DEF ClosedBehind
    <3> QED BY <3>2, <3>3 DEF ExecutedExit, PlannedAhead
  <2>3. /\ position'.reason = position.reason /\ position'.ambiguous = position.ambiguous
        /\ position'.sequence = position.sequence /\ position'.pending = TRUE
        /\ position'.remaining = f.requested - f.filled
        /\ position'.decision \in {None, position.decision}
    <3>0. position.pending = TRUE
      BY <1>1, PositionFields
    <3>1. CASE f.filled = 0
      <4>1. f.requested - f.filled = position.remaining
        <5> HIDE DEF f, d
        <5> QED BY <1>1, <1>3, <3>1
      <4> HIDE DEF f, d
      <4> QED BY <2>1, <3>0, <3>1, <4>1
    <3>2. CASE f.filled # 0
      <4> DEFINE left == position.remaining - f.filled
      <4>1. position' = [position EXCEPT !.remaining = left, !.decision = None]
        BY <2>1, <3>2
      <4>2. left = f.requested - f.filled
        <5> HIDE DEF f, d
        <5> QED BY <1>1, <1>3
      <4> HIDE DEF f, left
      <4> QED BY <1>1, <3>0, <4>1, <4>2 DEF Position
    <3> QED BY <3>1, <3>2
  <2>4. retry # None
    <3>1. f.at \in Nat /\ index + 1 \in Nat
      BY <1>1, <1>3
    <3> HIDE DEF f
    <3> QED BY <1>1, <3>1, ScheduleFields
  <2>5. Retried(f, next)
    <3> HIDE DEF f
    <3> QED BY <2>1, <2>2, <2>3, <2>4 DEF Retried
  <2> HIDE DEF f
  <2> QED BY <1>4, <1>7, <1>8, <2>5
<1> QED BY <1>6, <1>7

LEMMA ExitTells ==
    ASSUME IInv, FillAtOpen \/ FillApplicationExit \/ FillLast
    PROVE Filling /\ \E f \in Fill, next \in {"entries", "open"} : Tried(f, next)
<1>1. Filling
  BY DEF FillAtOpen, FillApplicationExit, FillLast, Filling
<1>2. /\ position.decision.from \in Nat /\ (pc # "last" => position.decision.from = Opens(index))
      /\ (exit = None <=> pc # "application")
  BY <1>1, AtFill, DecisionFields
<1>3. CASE FillAtOpen
  <2>1. ExecuteExit("RESTING_BARRIER", position.decision.from, position.decision.from, "entries")
        /\ pc = "resting" /\ index' = index
    BY <1>3 DEF FillAtOpen
  <2>2. \E f \in Fill : Tried(f, "entries")
    BY <1>1, <1>2, <2>1, ExecuteTells DEF Tried, Answers
  <2> QED BY <1>1, <2>2
<1>4. CASE FillApplicationExit
  <2>1. ExecuteExit("APPLICATION_EXIT", exit.decided, exit.eligible, "entries")
        /\ pc = "application" /\ index' = index
    BY <1>4 DEF FillApplicationExit
  <2>2. exit \in Scheduled
    BY <1>1, <2>1, AtFill
  <2>3. exit.decided \in Nat /\ exit.eligible \in Nat
    BY <2>2 DEF Scheduled
  <2>4. \E f \in Fill : Tried(f, "entries")
    BY <1>1, <1>2, <2>1, <2>3, ExecuteTells DEF Tried, Answers
  <2> QED BY <1>1, <2>4
<1>5. CASE FillLast
  <2>1. ExecuteExit("RESTING_BARRIER", position.decision.from, position.decision.from, "open")
        /\ pc = "last" /\ index' = index + 1
    BY <1>5 DEF FillLast
  <2>2. \E f \in Fill : Tried(f, "open")
    BY <1>1, <1>2, <2>1, ExecuteTells DEF Tried, Answers
  <2> QED BY <1>1, <2>2
<1> QED BY <1>3, <1>4, <1>5

----------------------------------------------------------------------------
(* The capacity ledger.                                                    *)

LEMMA NewestIsFill ==
    ASSUME TypeOK, Attempts # {}
    PROVE Newest \in Fill /\ Max(Attempts) \in Attempts /\ Max(Attempts) \in DOMAIN fills
<1>1. Attempts \in SUBSET (1..Len(fills)) /\ Len(fills) \in Nat /\ Attempts \subseteq DOMAIN fills
  BY AttemptsOf DEF Attempts
<1>2. Max(Attempts) \in Attempts
  BY <1>1, MaxIsIn
<1> QED BY <1>1, <1>2, AttemptsOf DEF Newest

LEMMA ExitIsCausal ==
    ASSUME IInv, Story, Filling, NEW f, NEW next, Tried(f, next)
    PROVE FillIsCausal(f)
<1>1. /\ index \in Nat /\ capacity \in Nat /\ position.remaining \in Nat \ {0}
      /\ position.decision \in Decision /\ position.decision # None
      /\ position.decision.requested = position.remaining
      /\ position.decision.from \in {Opens(index), Closes(index)}
      /\ pc # "last" => position.decision.from = Opens(index)
      /\ position # None /\ TypeOK
  BY AtFill
<1>2. /\ f.candle = index /\ f.at = position.decision.from /\ f.decision = position.decision
      /\ f.requested = position.remaining /\ f.filled = Min2(f.requested, capacity)
      /\ f.before = capacity /\ f.after = capacity - f.filled
  BY DEF Tried, Answers
<1>3. f.decision.until = Closes(f.candle)
  BY <1>1, <1>2 DEF Story, DecisionTold, Filling
<1>4. f.filled \in Nat /\ f.filled <= f.requested /\ f.before = f.after + f.filled
  <2>1. position.remaining \in Nat
    BY <1>1
  <2>2. /\ Min2(position.remaining, capacity) \in Nat
        /\ Min2(position.remaining, capacity) <= position.remaining
    BY <1>1, <2>1, MinFields
  <2>3. f.filled \in Nat /\ f.filled <= f.requested
    BY <1>2, <2>2
  <2> QED BY <1>1, <1>2, <2>3
<1>5. f.at \in Opens(f.candle)..Closes(f.candle) /\ f.at \in Nat
  BY <1>1, <1>2 DEF Opens, Closes
<1>6. CASE pc = "application"
  <2>1. /\ exit # None /\ f.origin = "APPLICATION_EXIT"
        /\ f.decided = exit.decided /\ f.eligible = exit.eligible
    BY <1>6 DEF Tried, Answers
  <2>2. /\ exit.decided = AskedAt /\ exit.eligible = AskedAt + setup.exitLatency
        /\ index = exit.ready
        /\ exit.ready = IF Attempts = {} THEN IndexAt(exit.eligible)
                        ELSE Max2(IndexAt(exit.eligible), Newest.candle + 1)
    BY <1>1, <1>6, <2>1 DEF Story, ScheduleTold
  <2>3. exit.decided \in Nat /\ exit.eligible \in Nat /\ setup.exitLatency \in Nat
    <3>1. exit \in Scheduled
      BY <2>1, AtFill
    <3> QED BY <1>1, <3>1, SetupFields DEF Scheduled
  <2>4. IndexAt(exit.eligible) <= index
    <3> DEFINE a == IndexAt(exit.eligible)
               b == Newest.candle + 1
    <3>1. a \in Nat
      BY <2>3 DEF IndexAt
    <3>2. CASE Attempts = {}
      BY <1>1, <2>2, <3>1, <3>2
    <3>3. CASE Attempts # {}
      <4>1. b \in Nat
        BY <1>1, <3>3, NewestIsFill DEF Fill
      <4>2. index = Max2(a, b)
        BY <2>2, <3>3
      <4>3. a <= index
        <5> HIDE DEF a, b
        <5> QED BY <1>1, <3>1, <4>1, <4>2 DEF Max2
      <4> QED BY <4>3
    <3> QED BY <3>2, <3>3
  <2>5. exit.eligible <= Opens(index)
    BY <1>1, <2>3, <2>4 DEF IndexAt, Opens
  <2>6. f.at = Opens(f.candle)
    BY <1>1, <1>2, <1>6
  <2>7. f.decided <= f.eligible /\ f.eligible <= f.at
    BY <1>2, <2>1, <2>2, <2>3, <2>5, <2>6
  <2> QED BY <1>1, <1>2, <1>3, <1>4, <1>5, <2>1, <2>6, <2>7 DEF FillIsCausal, IsEntry
<1>7. CASE pc # "application"
  <2>1. f.origin = "RESTING_BARRIER" /\ f.decided = f.at /\ f.eligible = f.at
    BY <1>7 DEF Tried, Answers
  <2> QED BY <1>1, <1>2, <1>3, <1>4, <1>5, <2>1 DEF FillIsCausal, IsEntry
<1> QED BY <1>6, <1>7

LEMMA CapacityShared ==
    ASSUME TypeOK, CapacityLedgerHolds, LedgerEnds, Running,
           NEW f \in Fill, NEW n, Appended(f, n), FillIsCausal(f),
           f.candle = index, f.before = capacity, f.volume = volume,
           f.filled = Min2(f.requested, f.before)
    PROVE CapacityLedgerHolds'
<1> DEFINE Shares(s, k) ==
        LET g == s[k]
            first == k = 1 \/ s[k - 1].candle # g.candle
        IN  /\ FillIsCausal(g)
            /\ k > 1 => /\ s[k - 1].candle <= g.candle
                        /\ s[k - 1].candle = g.candle => s[k - 1].at <= g.at
            /\ g.before = IF first THEN g.volume ELSE s[k - 1].after
            /\ ~first => g.volume = s[k - 1].volume
            /\ g.filled = Min2(g.requested, g.before)
<1>1. CapacityLedgerHolds <=> \A k \in DOMAIN fills : Shares(fills, k)
  BY DEF CapacityLedgerHolds
<1>2. CapacityLedgerHolds' <=> \A k \in DOMAIN fills' : Shares(fills', k)
  BY DEF CapacityLedgerHolds
<1>3. ASSUME NEW k \in DOMAIN fills PROVE Shares(fills', k)
  <2>1. Shares(fills, k) /\ fills'[k] = fills[k] /\ k \in 1..Len(fills) /\ Len(fills) \in Nat
    BY <1>1, <1>3 DEF Appended
  <2>2. k > 1 => fills'[k - 1] = fills[k - 1]
    <3>1. k > 1 => k - 1 \in DOMAIN fills
      BY <2>1 DEF Appended
    <3> QED BY <3>1 DEF Appended
  <2>3. k = 1 \/ k > 1
    BY <2>1
  <2> QED BY <2>1, <2>2, <2>3
<1>4. Shares(fills', n)
  <2>1. n \in Nat /\ n > 0 /\ fills'[n] = f /\ n = Len(fills) + 1 /\ Len(fills) \in Nat
    BY DEF Appended
  <2>2. f.at \in Nat /\ Opens(index) <= f.at /\ index \in Nat
    BY CellBounds DEF FillIsCausal, TypeOK, Opens, Closes
  <2>3. CASE n = 1
    <3>1. fills = <<>>
      BY <2>1, <2>3 DEF TypeOK
    <3>2. f.before = f.volume
      BY <3>1 DEF LedgerEnds
    <3> QED BY <2>1, <2>3, <3>2
  <2>4. CASE n # 1
    <3> DEFINE end == fills[Len(fills)]
    <3>1. Len(fills) \in DOMAIN fills /\ fills # <<>> /\ n - 1 = Len(fills) /\ n > 1
      BY <2>1, <2>4 DEF Appended
    <3>2. fills'[n - 1] = end /\ end \in Fill
      BY <3>1, AttemptsOf DEF Appended
    <3>3. end.candle \in Nat /\ end.at \in Nat
      BY <3>2 DEF Fill
    <3>4. end.candle <= index /\ end.at <= Opens(index)
          /\ IF end.candle = index THEN capacity = end.after /\ volume = end.volume
             ELSE capacity = volume
      BY <3>1 DEF LedgerEnds
    <3>5. Opens(index) \in Nat
      BY <2>2 DEF Opens
    <3>6. end.at <= f.at
      BY <2>2, <3>3, <3>4, <3>5
    <3> HIDE DEF end
    <3> QED BY <2>1, <3>1, <3>2, <3>4, <3>6
  <2> QED BY <2>3, <2>4
<1>5. DOMAIN fills' = DOMAIN fills \cup {n}
  BY DEF Appended
<1> HIDE DEF Shares
<1> QED BY <1>2, <1>3, <1>4, <1>5

----------------------------------------------------------------------------
(* What entering does.                                                     *)

Begins(i, f) ==
    /\ position = None /\ pc = "entries" /\ index < Candles
    /\ fills' = Append(fills, f)
    /\ f.intent = i /\ f.origin = "ENTRY_SIGNAL" /\ f.candle = index /\ f.at = Opens(index)
    /\ f.decided = setup.intents[i].decision /\ f.eligible = Causal(i)
    /\ f.filled = Min2(f.requested, capacity) /\ f.filled <= f.requested
    /\ f.volume = volume /\ f.before = capacity /\ f.after = capacity - f.filled
    /\ f.before = f.after + f.filled
    /\ capacity' = f.after /\ exit' = None
    /\ position' # None /\ position'.intent = i /\ position'.entry = index
    /\ position'.remaining = f.filled /\ position'.pending = FALSE
    /\ position'.ambiguous = FALSE /\ position'.decision = None
    /\ UNCHANGED <<setup, pc, index, volume, funding, trades>>

\* The disposition of intent i, the others kept.
DisposedNow(i, d) ==
    /\ EntryIndex(i) = index /\ dispositions[i] = None
    /\ dispositions'[i] = d /\ d # None
    /\ \A j \in Intents : j # i => dispositions'[j] = dispositions[j]

EnteredAs(i, f, d) ==
    /\ ~TooLate(i) /\ ~BeyondHorizon(i)
    /\ d.reason = "ENTERED" /\ d.capacity = capacity /\ d.volume = volume
    /\ d.equity = ClosedIntents /\ d.requested = f.requested /\ d.filled = f.filled

LEMMA DisposeTells ==
    ASSUME TypeOK, NEW i \in Intents, NEW d \in Disposition, IsNext(i), Dispose(i, d)
    PROVE DisposedNow(i, d)
<1>1. dispositions \in [Intents -> Disposition \cup {None}]
  BY DEF TypeOK
<1>2. EntryIndex(i) = index /\ dispositions[i] = None
  BY DEF IsNext, Due
<1> QED BY <1>1, <1>2, NoneIsNoValue DEF Dispose, DisposedNow

LEMMA EnterTells ==
    ASSUME IInv, NEW i \in Intents, Enter(i)
    PROVE \E f \in Fill, d \in Disposition :
             Begins(i, f) /\ DisposedNow(i, d) /\ EnteredAs(i, f, d)
<1>1. /\ pc = "entries" /\ IsNext(i) /\ position = None /\ exit' = None
      /\ ~TooLate(i) /\ ~BeyondHorizon(i)
      /\ UNCHANGED <<setup, pc, index, volume, funding, trades>>
  BY DEF Enter, Enterable
<1>2. /\ index \in Nat /\ capacity \in 0..volume /\ volume \in Nat
      /\ index < Candles /\ capacity > 0 /\ TypeOK
  BY <1>1, CellBounds DEF IInv, TypeOK, Where, Enter
<1>3. PICK requested \in 1..MaxRequest :
        /\ Dispose(i, [reason |-> "ENTERED", volume |-> volume, capacity |-> capacity,
                       equity |-> ClosedIntents, requested |-> requested,
                       filled |-> FilledQuantity(requested)])
        /\ fills' = Append(fills,
              [intent |-> i, origin |-> "ENTRY_SIGNAL", decision |-> None,
               decided |-> setup.intents[i].decision, eligible |-> Causal(i),
               candle |-> index, at |-> Opens(index), requested |-> requested,
               filled |-> FilledQuantity(requested), volume |-> volume, before |-> capacity,
               after |-> capacity - FilledQuantity(requested)])
        /\ capacity' = capacity - FilledQuantity(requested)
        /\ position' = [intent |-> i, entry |-> index, remaining |-> FilledQuantity(requested),
                        bar |-> -1, pending |-> FALSE, reason |-> None, ambiguous |-> FALSE,
                        decision |-> None, sequence |-> 0]
  BY DEF Enter
<1> DEFINE q == FilledQuantity(requested)
           d == [reason |-> "ENTERED", volume |-> volume, capacity |-> capacity,
                 equity |-> ClosedIntents, requested |-> requested, filled |-> q]
           f == [intent |-> i, origin |-> "ENTRY_SIGNAL", decision |-> None,
                 decided |-> setup.intents[i].decision, eligible |-> Causal(i),
                 candle |-> index, at |-> Opens(index), requested |-> requested,
                 filled |-> q, volume |-> volume, before |-> capacity, after |-> capacity - q]
           p == [intent |-> i, entry |-> index, remaining |-> q, bar |-> -1,
                 pending |-> FALSE, reason |-> None, ambiguous |-> FALSE,
                 decision |-> None, sequence |-> 0]
<1>4. requested \in Nat \ {0} /\ q \in Nat \ {0} /\ q <= capacity /\ q <= requested
      /\ q = Min2(requested, capacity)
  <2>1. requested \in Nat \ {0}
    BY CellBounds
  <2> QED BY <1>2, <2>1 DEF FilledQuantity, Min2
<1>5. /\ i \in Nat \ {0} /\ setup.intents[i].decision \in Nat /\ Causal(i) \in Nat
  BY <1>2, IntentTimes
<1>6. f \in Fill /\ capacity = (capacity - q) + q
  <2>1. capacity - q \in Nat /\ Opens(index) \in Nat /\ capacity = (capacity - q) + q
    <3> HIDE DEF q
    <3> QED BY <1>2, <1>4 DEF Opens
  <2> HIDE DEF q
  <2> QED BY <1>2, <1>4, <1>5, <2>1 DEF Fill
<1>7. d \in Disposition
  <2> HIDE DEF q
  <2> QED BY <1>2, <1>4, ClosedIntentsAreNat DEF Disposition
<1>8. p \in Position /\ p # None
  <2>1. p \in Position
    <3> HIDE DEF q
    <3> QED BY <1>2, <1>4, <1>5 DEF Position
  <2> QED BY <2>1, NoneIsNoValue
<1>9. DisposedNow(i, d)
  BY <1>1, <1>2, <1>3, <1>7, DisposeTells
<1>10. EnteredAs(i, f, d)
  BY <1>1 DEF EnteredAs
<1>11. Begins(i, f)
  <2>1. fills' = Append(fills, f) /\ capacity' = capacity - q /\ position' = p
    BY <1>3
  <2>2. /\ f.intent = i /\ f.origin = "ENTRY_SIGNAL" /\ f.candle = index /\ f.at = Opens(index)
        /\ f.decided = setup.intents[i].decision /\ f.eligible = Causal(i)
        /\ f.filled = q /\ f.requested = requested
        /\ f.volume = volume /\ f.before = capacity /\ f.after = capacity - q
    OBVIOUS
  <2>3. /\ p.intent = i /\ p.entry = index /\ p.remaining = q /\ p.pending = FALSE
        /\ p.ambiguous = FALSE /\ p.decision = None
    OBVIOUS
  <2> HIDE DEF q, f, p
  <2> QED BY <1>1, <1>2, <1>4, <1>6, <1>8, <2>1, <2>2, <2>3 DEF Begins
<1> HIDE DEF f, d
<1> QED BY <1>6, <1>7, <1>9, <1>10, <1>11

LEMMA EntryIsCausal ==
    ASSUME TypeOK, NEW i \in Intents, NEW f \in Fill, Begins(i, f), EntryIndex(i) = index
    PROVE FillIsCausal(f)
<1>1. setup.intents[i].decision \in Nat /\ setup.latency \in Nat /\ index \in Nat
      /\ setup.intents[i].eligible \in Nat /\ Causal(i) \in Nat
  BY SetupFields, IntentTimes, CellBounds DEF TypeOK, Intent
<1>2. setup.intents[i].decision <= Causal(i)
  BY <1>1 DEF Causal, Max2
<1>3. Causal(i) <= Opens(index)
  BY <1>1 DEF EntryIndex, IndexAt, Opens
<1>4. Opens(index) \in Opens(index)..Closes(index)
  BY <1>1 DEF Opens, Closes
<1> QED BY <1>2, <1>3, <1>4 DEF Begins, FillIsCausal, IsEntry

----------------------------------------------------------------------------
(* What the steps without a fill do.                                       *)

\* The same position, or none.
SameHeld == IF position = None THEN position' = None
            ELSE /\ position' # None
                 /\ position'.intent = position.intent /\ position'.entry = position.entry

Quiet == UNCHANGED <<setup, dispositions, fills, trades>> /\ SameHeld

Stays == UNCHANGED <<pc, index, volume, capacity, funding>>
Starts == /\ pc = "open" /\ pc' \in {"barrier", "entries", "overrun"} /\ index' = index
          /\ capacity' = volume' /\ SettleFunding
Ends == /\ pc = "open" /\ index = Candles /\ pc' \in {"done", "held"}
        /\ pc' = "done" => position' = None
        /\ UNCHANGED <<index, volume, capacity, funding>>
Consumes == /\ pc = "barrier" /\ pc' \in {"resting", "application", "entries", "illiquid"}
            /\ UNCHANGED <<index, volume, capacity, funding>>
Settles == /\ pc \in {"entries", "entered"}
           /\ pc = "entries" => Due = {}
           /\ \/ pc' \in {"entered", "last"} /\ index' = index
              \/ pc' = "open" /\ index' = index + 1
           /\ UNCHANGED <<volume, capacity, funding>>

Goes == Stays \/ Starts \/ Ends \/ Consumes \/ Settles

LEMMA AskingHolds ==
    ASSUME IInv, position # None,
           NEW from \in {Opens(index), Closes(index)}, NEW reason \in Reasons,
           NEW ambiguous \in BOOLEAN
    PROVE LET s == Asking(from, reason, ambiguous)
          IN  /\ AskedShape(s, from, reason, ambiguous)
              /\ s.sequence = position.sequence + 1 /\ s.decision.sequence = position.sequence + 1
              /\ s.decision.reason = reason /\ s.decision.ambiguous = ambiguous
              /\ s.decision.until = Closes(index)
<1>1. from \in Nat /\ TypeOK /\ position.entry <= index
  BY PositionFields DEF Opens, Closes, IInv, Held
<1>2. AskedShape(Asking(from, reason, ambiguous), from, reason, ambiguous)
  BY <1>1, AskingFields
<1>3. position \in Position
  BY <1>1, PositionFields
<1> DEFINE n == position.sequence + 1
           a == position.ambiguous \/ ambiguous
           d == [sequence |-> n, from |-> from, until |-> Closes(index),
                 requested |-> position.remaining, reason |-> reason, ambiguous |-> ambiguous]
           s == Asking(from, reason, ambiguous)
<1>4. s = [position EXCEPT !.bar = Bar, !.pending = TRUE, !.reason = reason,
                           !.ambiguous = a, !.sequence = n, !.decision = d]
  BY DEF Asking
<1>5. s.sequence = n /\ s.decision = d
  <2> HIDE DEF n, a, d, s
  <2> QED BY <1>3, <1>4 DEF Position
<1>6. d.sequence = n /\ d.reason = reason /\ d.ambiguous = ambiguous /\ d.until = Closes(index)
  OBVIOUS
<1> HIDE DEF d, s
<1> QED BY <1>2, <1>5, <1>6 DEF s

LEMMA SurvivorHolds ==
    ASSUME IInv, position # None
    PROVE LET s == Survivor
          IN  /\ s # None /\ s.intent = position.intent /\ s.entry = position.entry
              /\ s.remaining = position.remaining /\ s.pending = position.pending
              /\ s.reason = position.reason /\ s.ambiguous = position.ambiguous
              /\ s.sequence = position.sequence /\ s.decision = None
<1>1. position \in Position /\ Bar \in Nat
  BY PositionFields DEF IInv, Held, Bar
<1>2. Survivor \in Position
  BY <1>1 DEF Survivor, Position
<1> QED BY <1>1, <1>2, NoneIsNoValue DEF Survivor, Position

LEMMA QuietTells ==
    ASSUME IInv,
           \/ OpenCandle \/ Survive \/ BarrierInsideCandle \/ BarrierAtOpen \/ ApplicationManaged
           \/ EntriesDone \/ EntryCandleSurvived \/ EntryCandleBarrier \/ Finish
           \/ UNCHANGED vars
    PROVE Quiet /\ Goes
<1>1. \A r \in BarrierReasons : r \in Reasons
  BY CellBounds DEF Reasons
<1>2. Consuming => position # None
  BY DEF IInv, Where
<1>3. CASE OpenCandle
  BY <1>3 DEF OpenCandle, Quiet, SameHeld, Goes, Starts
<1>4. CASE Survive
  <2>1. position # None /\ position' = Survivor
    BY <1>2, <1>4 DEF Survive, Consuming
  <2> QED BY <1>4, <2>1, SurvivorHolds DEF Survive, Evidence, Quiet, SameHeld, Goes, Consumes
<1>5. ASSUME pc \in {"barrier", "entered"}, NEW from \in {Opens(index), Closes(index)},
             NEW reason \in Reasons, NEW ambiguous \in BOOLEAN,
             position' = Asking(from, reason, ambiguous)
      PROVE  SameHeld
  <2>1. position # None
    BY <1>2, <1>5 DEF Consuming
  <2>2. AskedShape(Asking(from, reason, ambiguous), from, reason, ambiguous)
    BY <2>1, AskingHolds
  <2> QED BY <1>5, <2>1, <2>2 DEF AskedShape, SameHeld
<1>6. CASE BarrierInsideCandle
  <2>1. PICK r \in BarrierReasons : \E a \in Ambiguities(r) :
           position' = Asking(Closes(index), r, a)
    BY <1>6 DEF BarrierInsideCandle
  <2>2. PICK a \in BOOLEAN : position' = Asking(Closes(index), r, a)
    BY <2>1 DEF Ambiguities
  <2>3. SameHeld
    BY <1>1, <1>5, <1>6, <2>2 DEF BarrierInsideCandle
  <2> QED BY <1>6, <2>3 DEF BarrierInsideCandle, Evidence, Quiet, Goes, Consumes
<1>7. CASE BarrierAtOpen
  <2>1. PICK r \in BarrierReasons : position' = Asking(Opens(index), r, FALSE)
    BY <1>7 DEF BarrierAtOpen
  <2>2. SameHeld
    BY <1>1, <1>5, <1>7, <2>1 DEF BarrierAtOpen
  <2> QED BY <1>7, <2>2 DEF BarrierAtOpen, Evidence, Quiet, Goes, Consumes
<1>8. CASE ApplicationManaged
  <2> DEFINE r == IF position.pending THEN position.reason ELSE "TIMEOUT"
             a == position.pending /\ position.ambiguous
  <2>1. position' = Asking(Opens(index), r, a) /\ pc = "barrier"
    BY <1>8 DEF ApplicationManaged
  <2>2. r \in Reasons
    <3>1. position # None
      BY <1>2, <2>1 DEF Consuming
    <3> QED BY <3>1, PositionFields DEF IInv, Held, Reasons
  <2>3. a \in BOOLEAN
    OBVIOUS
  <2>4. SameHeld
    <3> HIDE DEF r, a
    <3> QED BY <1>5, <2>1, <2>2, <2>3
  <2> QED BY <1>8, <2>4 DEF ApplicationManaged, Evidence, Quiet, Goes, Consumes
<1>9. CASE EntriesDone
  BY <1>9 DEF EntriesDone, Quiet, SameHeld, Goes, Settles
<1>10. CASE EntryCandleSurvived
  <2>1. position # None /\ position' = Survivor
    BY <1>2, <1>10 DEF EntryCandleSurvived, Consuming
  <2> QED BY <1>10, <2>1, SurvivorHolds DEF EntryCandleSurvived, Quiet, SameHeld, Goes, Settles
<1>11. CASE EntryCandleBarrier
  <2>1. \E from \in {Opens(index), Closes(index)}, r \in Reasons, a \in BOOLEAN :
           position' = Asking(from, r, a)
    BY <1>1, <1>11 DEF EntryCandleBarrier, Ambiguities, Reasons
  <2>2. SameHeld
    BY <1>5, <1>11, <2>1 DEF EntryCandleBarrier
  <2> QED BY <1>11, <2>2 DEF EntryCandleBarrier, Evidence, Quiet, Goes, Settles
<1>12. CASE Finish
  BY <1>12 DEF Finish, Evidence, Quiet, SameHeld, Goes, Ends
<1>13. CASE UNCHANGED vars
  BY <1>13 DEF vars, Quiet, SameHeld, Goes, Stays
<1> QED BY <1>3, <1>4, <1>6, <1>7, <1>8, <1>9, <1>10, <1>11, <1>12, <1>13

----------------------------------------------------------------------------
(* Where the capacity ledger ends, after each step.                        *)

LEMMA FillTimes ==
    ASSUME TypeOK
    PROVE /\ index \in Nat
          /\ \A k \in DOMAIN fills : fills[k].candle \in Nat /\ fills[k].at \in Nat
<1>1. \A g \in Fill : g.candle \in Nat /\ g.at \in Nat
  BY DEF Fill
<1>2. index \in Nat
  BY CellBounds DEF TypeOK
<1> QED BY <1>1, <1>2, AttemptsOf

LEMMA LedgerGoes ==
    ASSUME TypeOK, LedgerEnds, Goes, fills' = fills
    PROVE LedgerEnds'
<1>1. index \in Nat /\ \A k \in DOMAIN fills : fills[k].candle \in Nat /\ fills[k].at \in Nat
  BY FillTimes
<1>2. Opens(index) \in Nat /\ Opens(index + 1) > Opens(index)
  BY <1>1 DEF Opens
<1>3. CASE Stays
  BY <1>3 DEF Stays, LedgerEnds, Running, Opens
<1>4. CASE Starts
  <2>1. \A k \in DOMAIN fills : fills'[k].candle < index' /\ fills'[k].at <= Opens(index)'
    BY <1>1, <1>2, <1>4 DEF Starts, LedgerEnds, Opens
  <2>2. fills # <<>> => Len(fills) \in DOMAIN fills
    BY DEF TypeOK
  <2> QED BY <1>1, <1>4, <2>1, <2>2 DEF Starts, LedgerEnds, Running
<1>5. CASE Ends
  BY <1>1, <1>5 DEF Ends, LedgerEnds, Running
<1>6. CASE Consumes
  BY <1>1, <1>6 DEF Consumes, LedgerEnds, Running, Opens
<1>7. CASE Settles
  <2>1. Running /\ UNCHANGED <<volume, capacity>>
    BY <1>7 DEF Settles, Running
  <2>2. CASE pc' \in {"entered", "last"} /\ index' = index
    BY <2>1, <2>2 DEF LedgerEnds, Running, Opens
  <2>3. CASE pc' = "open" /\ index' = index + 1
    <3>1. \A k \in DOMAIN fills : fills[k].candle <= index /\ fills[k].at <= Opens(index)
      BY <2>1 DEF LedgerEnds
    <3>2. \A k \in DOMAIN fills : fills[k].candle < index + 1 /\ fills[k].at < Opens(index + 1)
      BY <1>1, <1>2, <3>1 DEF Opens
    <3>3. Opens(index)' = Opens(index + 1)
      BY <2>3 DEF Opens
    <3> QED BY <1>1, <2>3, <3>2, <3>3 DEF LedgerEnds, Running
  <2> QED BY <1>7, <2>2, <2>3 DEF Settles
<1> QED BY <1>3, <1>4, <1>5, <1>6, <1>7 DEF Goes

LEMMA LedgerFills ==
    ASSUME TypeOK, LedgerEnds, Running, NEW f \in Fill, NEW n, Appended(f, n),
           f.candle = index, capacity' = f.after, volume' = f.volume,
           \/ pc' # "open" /\ index' = index /\ f.at = Opens(index)
           \/ pc' = "open" /\ index' = index + 1 /\ f.at \in Opens(index)..Closes(index)
    PROVE LedgerEnds'
<1>1. /\ index \in Nat /\ f.at \in Nat
      /\ \A k \in DOMAIN fills : fills[k].candle \in Nat /\ fills[k].at \in Nat
  BY FillTimes DEF Fill
<1>2. \A k \in DOMAIN fills : fills[k].candle <= index /\ fills[k].at <= Opens(index)
  BY DEF LedgerEnds
<1>3. \A k \in DOMAIN fills' : (k \in DOMAIN fills /\ fills'[k] = fills[k]) \/ fills'[k] = f
  BY DEF Appended
<1>4. Opens(index) \in Nat /\ Opens(index + 1) = Opens(index) + 2 /\ Closes(index) = Opens(index) + 1
  BY <1>1 DEF Opens, Closes
<1>5. fills'[Len(fills')] = f /\ fills' # <<>>
  BY DEF Appended
<1>6. CASE pc' # "open"
  <2>1. index' = index /\ f.at = Opens(index) /\ Opens(index)' = Opens(index)
    BY <1>6 DEF Opens
  <2>2. \A k \in DOMAIN fills' : fills'[k].candle <= index /\ fills'[k].at <= Opens(index)
    BY <1>1, <1>2, <1>3, <1>4, <2>1
  <2> QED BY <1>5, <1>6, <2>1, <2>2 DEF LedgerEnds
<1>7. CASE pc' = "open"
  <2>1. index' = index + 1 /\ Opens(index)' = Opens(index + 1) /\ f.at <= Opens(index) + 1
    BY <1>1, <1>4, <1>7 DEF Opens
  <2>2. \A k \in DOMAIN fills' : fills'[k].candle < index + 1 /\ fills'[k].at < Opens(index) + 2
                                 /\ fills'[k].candle <= index + 1
    BY <1>1, <1>2, <1>3, <1>4, <2>1
  <2> QED BY <1>4, <1>7, <2>1, <2>2 DEF LedgerEnds, Running
<1> QED BY <1>6, <1>7

----------------------------------------------------------------------------
(* What is entered and what is considered.                                 *)

LEMMA ConsideredGoes ==
    ASSUME TypeOK, Considered, Goes, setup' = setup, dispositions' = dispositions
    PROVE Considered'
<1>1. index \in Nat /\ Intents' = Intents /\ Candles \in Nat
  BY CellBounds DEF TypeOK, Intents
<1>2. \A i \in Intents : EntryIndex(i)' = EntryIndex(i) /\ EntryIndex(i) \in Nat
  BY IntentTimes DEF EntryIndex, Causal
<1>3. ASSUME NEW i \in Intents
      PROVE  /\ EntryIndex(i) >= Candles \/ pc' = "done" => dispositions[i] # None
             /\ dispositions[i] # None /\ EntryIndex(i) < Candles =>
                   /\ EntryIndex(i) <= index'
                   /\ pc' \in {"open", "barrier", "resting", "application"}
                         => EntryIndex(i) < index'
             /\ EntryIndex(i) < index' => dispositions[i] # None
             /\ pc' \in {"entered", "last"} /\ EntryIndex(i) = index' => dispositions[i] # None
  <2>0. /\ EntryIndex(i) \in Nat
        /\ EntryIndex(i) >= Candles \/ pc = "done" => dispositions[i] # None
        /\ dispositions[i] # None /\ EntryIndex(i) < Candles =>
              /\ EntryIndex(i) <= index
              /\ pc \in {"open", "barrier", "resting", "application"} => EntryIndex(i) < index
        /\ EntryIndex(i) < index => dispositions[i] # None
        /\ pc \in {"entered", "last"} /\ EntryIndex(i) = index => dispositions[i] # None
    BY <1>2 DEF Considered
  <2>1. CASE Stays
    BY <2>0, <2>1 DEF Stays
  <2>2. CASE Starts
    BY <2>0, <2>2 DEF Starts
  <2>3. CASE Ends
    <3>1. EntryIndex(i) < Candles \/ EntryIndex(i) >= Candles
      BY <1>1, <2>0
    <3> QED BY <2>0, <2>3, <3>1 DEF Ends
  <2>4. CASE Consumes
    BY <2>0, <2>4 DEF Consumes
  <2>5. CASE Settles
    <3>1. EntryIndex(i) = index => dispositions[i] # None
      BY <2>0, <2>5 DEF Settles, Due
    <3>2. CASE pc' \in {"entered", "last"} /\ index' = index
      BY <2>0, <3>1, <3>2
    <3>3. CASE pc' = "open" /\ index' = index + 1
      BY <1>1, <2>0, <3>1, <3>3
    <3> QED BY <2>5, <3>2, <3>3 DEF Settles
  <2> QED BY <2>1, <2>2, <2>3, <2>4, <2>5 DEF Goes
<1> QED BY <1>1, <1>2, <1>3 DEF Considered

LEMMA ConsideredNow ==
    ASSUME TypeOK, Considered, NEW i \in Intents, NEW d, DisposedNow(i, d),
           pc = "entries", index < Candles, UNCHANGED <<setup, pc, index>>
    PROVE Considered'
<1>1. index \in Nat /\ Intents' = Intents /\ Candles \in Nat
  BY CellBounds DEF TypeOK, Intents
<1>2. \A j \in Intents : EntryIndex(j)' = EntryIndex(j) /\ EntryIndex(j) \in Nat
  BY IntentTimes DEF EntryIndex, Causal
<1> QED BY <1>1, <1>2 DEF Considered, DisposedNow

LEMMA ConsideredExits ==
    ASSUME TypeOK, Considered, Filling, UNCHANGED <<setup, dispositions>>,
           IF pc = "last" THEN pc' \in {"open", "illiquid"} /\ index' = index + 1
           ELSE pc' \in {"entries", "illiquid"} /\ index' = index
    PROVE Considered'
<1>1. index \in Nat /\ Intents' = Intents /\ Candles \in Nat
  BY CellBounds DEF TypeOK, Intents
<1>2. \A j \in Intents : EntryIndex(j)' = EntryIndex(j) /\ EntryIndex(j) \in Nat
  BY IntentTimes DEF EntryIndex, Causal
<1>3. CASE pc = "last"
  BY <1>1, <1>2, <1>3 DEF Considered
<1>4. CASE pc # "last"
  BY <1>1, <1>2, <1>4 DEF Considered, Filling
<1> QED BY <1>3, <1>4

----------------------------------------------------------------------------
(* Entered intents and entry fills.                                        *)

LEMMA SameFills ==
    ASSUME fills' = fills
    PROVE /\ \A i : EntriesOf(i)' = EntriesOf(i) /\ ExitsOf(i)' = ExitsOf(i)
          /\ \A i : EntryFilled(i)' = EntryFilled(i)
          /\ \A k : Earlier(k)' = Earlier(k)
          /\ \A t, S : LeftAfter(t, S)' = LeftAfter(t, S)
<1>1. \A i : EntriesOf(i)' = EntriesOf(i) /\ ExitsOf(i)' = ExitsOf(i)
  BY DEF EntriesOf, ExitsOf
<1>2. \A i : EntryFilled(i)' = EntryFilled(i)
  BY DEF EntryFilled
<1>3. \A k : Earlier(k)' = Earlier(k)
  BY <1>1 DEF Earlier
<1>4. \A t, S : LeftAfter(t, S)' = LeftAfter(t, S)
  BY DEF LeftAfter
<1> QED BY <1>1, <1>2, <1>3, <1>4

\* What the position will have told of it, field by field.
LEMMA CurrentFields ==
    /\ Current.intent = position.intent /\ Current.entry = Opens(position.entry)
    /\ Current.quantity = EntryFilled(position.intent)
    /\ Current.reason = position.reason /\ Current.ambiguous = position.ambiguous
BY DEF Current, Closed

\* The quantity of a position is that of its one entry.
LEMMA EntryQuantity ==
    ASSUME NEW i, NEW k, EntriesOf(i) = {k}
    PROVE EntryFilled(i) = fills[k].filled
<1>1. EntriesOf(i) = {m \in DOMAIN fills : fills[m].intent = i /\ fills[m].origin = "ENTRY_SIGNAL"}
  BY DEF EntriesOf, IsEntry
<1>2. (CHOOSE m \in {k} : TRUE) = k
  OBVIOUS
<1> QED BY <1>1, <1>2 DEF EntryFilled

LEMMA EntriesQuiet ==
    ASSUME EntriesTold, Quiet
    PROVE EntriesTold'
<1>1. Entered' = Entered /\ ClosedIntents' = ClosedIntents /\ HeldIntents' = HeldIntents
  BY DEF Quiet, SameHeld, Entered, Intents, ClosedIntents, HeldIntents
<1>2. /\ \A i : EntriesOf(i)' = EntriesOf(i)
      /\ \A i : EntryFilled(i)' = EntryFilled(i)
  BY SameFills DEF Quiet
<1>3. \A t : EntryTold(t)' <=> EntryTold(t)
  BY <1>2 DEF Quiet, EntryTold
<1>4. position' # None => EntryTold(Current)'
  <2> SUFFICES ASSUME position' # None PROVE EntryTold(Current)'
    OBVIOUS
  <2>1. position # None /\ EntryTold(Current)
    BY DEF Quiet, SameHeld, EntriesTold
  <2>2. /\ Current'.intent = Current.intent /\ Current'.entry = Current.entry
        /\ Current'.quantity = Current.quantity
    <3>1. position'.intent = position.intent /\ position'.entry = position.entry
      BY <2>1 DEF Quiet, SameHeld
    <3> QED BY <1>2, <3>1 DEF Current, Closed, Opens
  <2> QED BY <1>2, <2>1, <2>2 DEF EntryTold, Quiet
<1> QED BY <1>1, <1>2, <1>3, <1>4 DEF EntriesTold, Quiet

\* The list of trades with one more.
Closing(t) ==
    /\ DOMAIN trades' = DOMAIN trades \cup {Len(trades) + 1}
    /\ trades'[Len(trades) + 1] = t
    /\ \A k \in DOMAIN trades : trades'[k] = trades[k]
    /\ ClosedIntents' = ClosedIntents \cup {t.intent}

LEMMA ClosedTrade ==
    ASSUME TypeOK, NEW t \in Trade, trades' = Append(trades, t)
    PROVE Closing(t)
<1>1. trades \in Seq(Trade)
  BY DEF TypeOK
<1>2. /\ DOMAIN trades' = DOMAIN trades \cup {Len(trades) + 1}
      /\ trades'[Len(trades) + 1] = t
      /\ \A k \in DOMAIN trades : trades'[k] = trades[k]
  BY <1>1, AppendedLast
<1> QED BY <1>2 DEF ClosedIntents, Closing

\* What the position becomes when its last attempt fills.
Became(t, f) ==
    /\ t.intent = position.intent /\ t.entry = Opens(position.entry) /\ t.exit = f.at
    /\ t.quantity = EntryFilled(position.intent)
    /\ t.reason = position.reason /\ t.ambiguous = position.ambiguous

LEMMA EndsTrade ==
    ASSUME IInv, Filling, NEW f \in Fill, NEW next, Ended(f, next)
    PROVE \E t \in Trade : Became(t, f) /\ Closing(t)
<1>1. position # None /\ position.pending /\ TypeOK /\ Held
  BY AtFill
<1>2. f.at \in Nat
  BY DEF Fill
<1>3. Closed(f.at) \in Trade
  BY <1>1, <1>2, ClosedFields
<1>4. Closing(Closed(f.at))
  BY <1>1, <1>3, ClosedTrade DEF Ended
<1>5. Became(Closed(f.at), f)
  BY DEF Became, Closed
<1> QED BY <1>3, <1>4, <1>5

LEMMA EntriesReject ==
    ASSUME EntriesTold, NEW i \in Intents, NEW d, DisposedNow(i, d), d.reason # "ENTERED",
           UNCHANGED <<setup, position, fills, trades>>
    PROVE EntriesTold'
<1>1. Entered' = Entered
  BY DEF DisposedNow, Entered, Intents
<1>2. ClosedIntents' = ClosedIntents /\ HeldIntents' = HeldIntents
  BY DEF ClosedIntents, HeldIntents
<1>3. /\ \A i_1 : EntriesOf(i_1)' = EntriesOf(i_1)
      /\ \A i_1 : EntryFilled(i_1)' = EntryFilled(i_1)
  BY SameFills
<1>4. \A t : EntryTold(t)' <=> EntryTold(t)
  BY <1>3 DEF EntryTold
<1>5. Current' = Current
  BY <1>3 DEF Current, Closed, Opens
<1>6. position # None => EntryTold(Current)'
  BY <1>3, <1>5 DEF EntryTold, EntriesTold
<1> QED BY <1>1, <1>2, <1>3, <1>4, <1>6 DEF EntriesTold

LEMMA NothingForgotten ==
    ASSUME IInv, EntriesTold, NEW i, i \notin Entered
    PROVE EntriesOf(i) = {} /\ ExitsOf(i) = {}
<1>1. \A k \in DOMAIN fills : fills[k].intent \in Entered
  BY DEF EntriesTold, HeldIntents, IInv, OnePositionAtATime
<1> QED BY <1>1 DEF EntriesOf, ExitsOf

LEMMA EntriesEnter ==
    ASSUME IInv, EntriesTold, NEW i \in Intents, NEW f \in Fill, NEW d,
           Begins(i, f), DisposedNow(i, d), EnteredAs(i, f, d)
    PROVE EntriesTold'
<1> DEFINE n == Len(fills) + 1
<1>1. TypeOK /\ Appended(f, n)
  BY AppendedFill DEF Begins, IInv
<1>2. IsEntry(f) /\ f.intent = i /\ i \notin Entered
  BY DEF Begins, IsEntry, DisposedNow, Entered
<1>3. Entered' = Entered \cup {i}
  BY DEF DisposedNow, EnteredAs, Entered, Intents, Begins
<1>4. /\ ClosedIntents' = ClosedIntents /\ HeldIntents' = {i} /\ HeldIntents = {}
  BY DEF Begins, ClosedIntents, HeldIntents
<1>5. /\ \A j : j # i => EntriesOf(j)' = EntriesOf(j)
      /\ EntriesOf(i)' = {n}
  BY <1>1, <1>2, AppendedParts, NothingForgotten
<1>6. ASSUME NEW k \in DOMAIN trades PROVE EntryTold(trades[k])'
  <2>1. trades[k].intent \in ClosedIntents /\ trades' = trades /\ EntryTold(trades[k])
    BY DEF ClosedIntents, Begins, EntriesTold
  <2>2. trades[k].intent # i
    BY <1>2, <2>1 DEF EntriesTold
  <2>3. \A m \in EntriesOf(trades[k].intent) : fills'[m] = fills[m]
    BY <1>1, AttemptsOf DEF Appended
  <2> QED BY <1>5, <2>1, <2>2, <2>3 DEF EntryTold
<1>7. EntryTold(Current)'
  <2>1. EntryFilled(i)' = f.filled
    <3>1. EntriesOf(i)' = {n} => EntryFilled(i)' = fills'[n].filled
      <4>1. EntriesOf(i)' = {m \in DOMAIN fills' : fills'[m].intent = i /\ fills'[m].origin = "ENTRY_SIGNAL"}
        BY DEF EntriesOf, IsEntry
      <4>2. (CHOOSE m \in {n} : TRUE) = n
        OBVIOUS
      <4> QED BY <4>1, <4>2 DEF EntryFilled
    <3>2. fills'[n] = f
      BY <1>1 DEF Appended
    <3> QED BY <1>5, <3>1, <3>2
  <2>2. Current'.intent = i /\ Current'.entry = Opens(index) /\ Current'.quantity = f.filled
    BY <2>1 DEF Current, Closed, Begins, Opens
  <2>3. fills'[n].at = Opens(index) /\ fills'[n].filled = f.filled
    BY <1>1 DEF Appended, Begins
  <2> HIDE DEF n
  <2> QED BY <1>5, <2>2, <2>3 DEF EntryTold
<1> HIDE DEF n
<1> QED BY <1>3, <1>4, <1>5, <1>6, <1>7 DEF EntriesTold, Begins

LEMMA EntriesStay ==
    ASSUME TypeOK, EntriesTold, NEW f \in Fill, NEW n, Appended(f, n), ~IsEntry(f)
    PROVE /\ \A i : EntriesOf(i)' = EntriesOf(i)
          /\ \A i \in Entered : EntryFilled(i)' = EntryFilled(i)
          /\ \A t : EntryTold(t) => EntryTold(t)'
<1>1. \A i : EntriesOf(i)' = EntriesOf(i)
  BY AppendedParts
<1>2. \A i : \A k \in EntriesOf(i) : fills'[k] = fills[k]
  BY AttemptsOf DEF Appended
<1>3. ASSUME NEW i \in Entered PROVE EntryFilled(i)' = EntryFilled(i)
  <2>1. PICK k : EntriesOf(i) = {k}
    BY DEF EntriesTold
  <2>2. fills'[k] = fills[k]
    BY <1>2, <2>1
  <2>3. EntriesOf(i) = {m \in DOMAIN fills : fills[m].intent = i /\ fills[m].origin = "ENTRY_SIGNAL"}
    BY DEF EntriesOf, IsEntry
  <2>4. EntriesOf(i)' = {m \in DOMAIN fills' : fills'[m].intent = i /\ fills'[m].origin = "ENTRY_SIGNAL"}
    BY DEF EntriesOf, IsEntry
  <2>5. (CHOOSE m \in {k} : TRUE) = k
    OBVIOUS
  <2> QED BY <1>1, <2>1, <2>2, <2>3, <2>4, <2>5 DEF EntryFilled
<1>4. \A t : EntryTold(t) => EntryTold(t)'
  BY <1>1, <1>2 DEF EntryTold
<1> QED BY <1>1, <1>3, <1>4

LEMMA EntriesExit ==
    ASSUME IInv, EntriesTold, Filling, NEW f \in Fill, NEW next, Tried(f, next)
    PROVE EntriesTold'
<1> DEFINE n == Len(fills) + 1
<1>1. TypeOK /\ Appended(f, n) /\ ~IsEntry(f) /\ UNCHANGED <<setup, dispositions>>
  BY AppendedFill DEF Tried, Answers, IInv, IsEntry
<1>2. /\ \A i : EntriesOf(i)' = EntriesOf(i)
      /\ \A i \in Entered : EntryFilled(i)' = EntryFilled(i)
      /\ \A t : EntryTold(t) => EntryTold(t)'
  BY <1>1, EntriesStay
<1>3. Entered' = Entered
  BY <1>1 DEF Entered, Intents
<1>4. position # None /\ EntryTold(Current) /\ position.intent \in Entered
  BY AtFill DEF EntriesTold, HeldIntents
<1>5. CASE f.filled = f.requested
  <2>1. PICK t \in Trade : Became(t, f) /\ Closing(t)
    BY <1>5, EndsTrade DEF Tried
  <2>2. ClosedIntents' \cup HeldIntents' = ClosedIntents \cup HeldIntents /\ position' = None
    BY <1>4, <1>5, <2>1 DEF Tried, Ended, HeldIntents, Closing, Became
  <2>3. EntryTold(t)
    BY <1>4, <2>1, CurrentFields DEF Became, EntryTold
  <2>4. ASSUME NEW k \in DOMAIN trades' PROVE EntryTold(trades[k])'
    <3>1. PICK u : u = trades'[k]
      OBVIOUS
    <3>2. EntryTold(u)
      BY <2>1, <2>3, <3>1 DEF Closing, EntriesTold
    <3>3. EntryTold(u)'
      BY <1>2, <3>2
    <3> QED BY <3>1, <3>3 DEF EntryTold
  <2> QED BY <1>2, <1>3, <2>2, <2>4 DEF EntriesTold
<1>6. CASE f.filled # f.requested
  <2>1. /\ position' # None /\ position'.intent = position.intent
        /\ position'.entry = position.entry /\ trades' = trades
    BY <1>6 DEF Tried, Retried
  <2>2. HeldIntents' = HeldIntents /\ ClosedIntents' = ClosedIntents
    BY <1>4, <2>1 DEF HeldIntents, ClosedIntents
  <2>3. /\ Current'.intent = Current.intent /\ Current'.entry = Current.entry
        /\ Current'.quantity = Current.quantity
    BY <1>2, <1>4, <2>1 DEF Current, Closed, Opens
  <2>4. EntryTold(Current)'
    <3>1. \A k \in EntriesOf(Current.intent) : fills'[k] = fills[k]
      BY <1>1, AttemptsOf DEF Appended
    <3> QED BY <1>2, <1>4, <2>3, <3>1 DEF EntryTold
  <2> QED BY <1>2, <1>3, <2>1, <2>2, <2>4 DEF EntriesTold
<1> QED BY <1>5, <1>6

----------------------------------------------------------------------------
(* What is said of a disposition.                                          *)

LEMMA SameSchedule ==
    ASSUME setup' = setup
    PROVE /\ Intents' = Intents
          /\ \A j : /\ ScheduledReason(j)' = ScheduledReason(j)
                    /\ EntryIndex(j)' = EntryIndex(j) /\ Causal(j)' = Causal(j)
                    /\ Holding(j)' = Holding(j)
          /\ \A j, e : Deadline(j, e)' = Deadline(j, e)
<1>1. /\ Intents' = Intents
      /\ \A j : EntryIndex(j)' = EntryIndex(j) /\ Causal(j)' = Causal(j)
      /\ \A j, e : Deadline(j, e)' = Deadline(j, e)
      /\ \A j : Holding(j)' = Holding(j)
  BY DEF Intents, EntryIndex, Causal, Deadline, Holding
<1> QED BY <1>1 DEF ScheduledReason, LastOpen, Opens

LEMMA ToldStays ==
    ASSUME NEW j, NEW at, Told(j), setup' = setup, dispositions'[j] = dispositions[j],
           at = Opens(EntryIndex(j)),
           ScheduledReason(j) = "OPEN" =>
               /\ LiveOrHeld(at) => LiveOrHeld(at)'
               /\ ClosedBy(at)' = ClosedBy(at)
               /\ EntriesOf(j)' = EntriesOf(j)
               /\ \A k \in EntriesOf(j) : fills'[k] = fills[k]
    PROVE Told(j)'
<1>1. /\ ScheduledReason(j)' = ScheduledReason(j)
      /\ EntryIndex(j)' = EntryIndex(j) /\ Causal(j)' = Causal(j)
      /\ Opens(EntryIndex(j))' = at
  BY SameSchedule DEF Opens
<1>2. ASSUME NEW d, EntryHolds(j, d), ScheduledReason(j) = "OPEN" PROVE EntryHolds(j, d)'
  BY <1>1, <1>2 DEF EntryHolds
<1>3. CASE ScheduledReason(j) # "OPEN"
  BY <1>1, <1>3 DEF Told
<1>4. CASE ScheduledReason(j) = "OPEN"
  <2> DEFINE d == dispositions[j]
  <2>1. /\ d.reason \notin {"EXPIRED", "INSUFFICIENT_TERMINAL_HORIZON"}
        /\ d.capacity <= d.volume
        /\ d.reason = "OVERLAPPING_POSITION" => LiveOrHeld(at)
        /\ Priced(d) => d.equity = ClosedBy(at)
        /\ d.reason = "NO_LIQUIDITY" => d.capacity = 0
        /\ d.reason = "ENTERED" => EntryHolds(j, d)
    BY <1>4 DEF Told
  <2>2. d.reason = "ENTERED" => EntryHolds(j, d)'
    <3>1. PICK e : e = d
      OBVIOUS
    <3>2. d.reason = "ENTERED" => EntryHolds(j, e)'
      BY <1>2, <1>4, <2>1, <3>1
    <3> QED BY <3>1, <3>2 DEF EntryHolds
  <2>3. Told(j)' <=> /\ d.reason \notin {"EXPIRED", "INSUFFICIENT_TERMINAL_HORIZON"}
                     /\ d.capacity <= d.volume
                     /\ d.reason = "OVERLAPPING_POSITION" => LiveOrHeld(at)'
                     /\ Priced(d) => d.equity = ClosedBy(at)'
                     /\ d.reason = "NO_LIQUIDITY" => d.capacity = 0
                     /\ d.reason = "ENTERED" => EntryHolds(j, dispositions[j])'
    BY <1>1, <1>4 DEF Told, LiveOrHeld, LiveAt, ClosedBy, Priced
  <2> QED BY <1>4, <2>1, <2>2, <2>3
<1> QED BY <1>3, <1>4

LEMMA DispositionsQuiet ==
    ASSUME DispositionsTold, Quiet
    PROVE DispositionsTold'
<1>1. ASSUME NEW at PROVE (LiveOrHeld(at) => LiveOrHeld(at)') /\ ClosedBy(at)' = ClosedBy(at)
  BY DEF Quiet, SameHeld, LiveOrHeld, LiveAt, ClosedBy, Opens
<1>2. \A j : EntriesOf(j)' = EntriesOf(j)
  BY SameFills DEF Quiet
<1>3. ASSUME NEW j \in Intents, dispositions[j] # None PROVE Told(j)'
  BY <1>1, <1>2, <1>3, ToldStays DEF Quiet, DispositionsTold
<1>4. Intents' = Intents /\ dispositions' = dispositions
  BY DEF Quiet, Intents
<1> QED BY <1>3, <1>4 DEF DispositionsTold

RejectedAs(i, d) ==
    /\ d.capacity = capacity /\ d.volume = volume /\ d.reason # "ENTERED"
    /\ \/ TooLate(i) /\ d.reason = "EXPIRED"
       \/ ~TooLate(i) /\ BeyondHorizon(i) /\ d.reason = "INSUFFICIENT_TERMINAL_HORIZON"
       \/ /\ ~TooLate(i) /\ ~BeyondHorizon(i) /\ position # None
          /\ d.reason = "OVERLAPPING_POSITION"
       \/ /\ ~TooLate(i) /\ ~BeyondHorizon(i) /\ position = None
          /\ \/ d.reason = "ENTRY_OUTSIDE_EXIT_PLAN"
             \/ d.reason = "ADMISSION" /\ d.equity = ClosedIntents
             \/ d.reason = "NO_LIQUIDITY" /\ d.equity = ClosedIntents /\ capacity = 0

Rejects(i, d) ==
    /\ pc = "entries" /\ index < Candles
    /\ DisposedNow(i, d) /\ RejectedAs(i, d)
    /\ UNCHANGED <<setup, pc, index, volume, capacity, position, exit, fills, funding, trades>>

LEMMA RejectTells ==
    ASSUME IInv, NEW i \in Intents, RejectEarly(i) \/ RejectPriced(i)
    PROVE \E d \in Disposition : Rejects(i, d)
<1>1. /\ pc = "entries" /\ IsNext(i)
      /\ UNCHANGED <<setup, pc, index, volume, capacity, position, exit, fills, funding, trades>>
  BY DEF RejectEarly, RejectPriced
<1>2. index < Candles /\ TypeOK
  BY <1>1 DEF IInv, Where
<1>3. \A r \in Rejections, e \in SUBSET Nat :
         /\ Rejected(r, e) \in Disposition
         /\ Rejected(r, e).capacity = capacity /\ Rejected(r, e).volume = volume
         /\ Rejected(r, e).reason = r /\ Rejected(r, e).equity = e
  BY <1>2, RejectedFields DEF Rejected
<1>4. ClosedIntents \in SUBSET Nat /\ {} \in SUBSET Nat
  BY <1>2, ClosedIntentsAreNat
<1>5. \E r \in Rejections, e \in SUBSET Nat :
         Dispose(i, Rejected(r, e)) /\ RejectedAs(i, Rejected(r, e))
  <2>1. CASE RejectEarly(i)
    <3>1. CASE TooLate(i) /\ Dispose(i, Rejected("EXPIRED", {}))
      BY <1>3, <1>4, <3>1 DEF Rejections, RejectedAs
    <3>2. CASE ~TooLate(i) /\ BeyondHorizon(i)
               /\ Dispose(i, Rejected("INSUFFICIENT_TERMINAL_HORIZON", {}))
      BY <1>3, <1>4, <3>2 DEF Rejections, RejectedAs
    <3>3. CASE ~TooLate(i) /\ ~BeyondHorizon(i) /\ position # None
               /\ Dispose(i, Rejected("OVERLAPPING_POSITION", {}))
      BY <1>3, <1>4, <3>3 DEF Rejections, RejectedAs
    <3> QED BY <2>1, <3>1, <3>2, <3>3 DEF RejectEarly
  <2>2. CASE RejectPriced(i)
    <3>0. ~TooLate(i) /\ ~BeyondHorizon(i) /\ position = None
      BY <2>2 DEF RejectPriced, Enterable
    <3>1. CASE Dispose(i, Rejected("ENTRY_OUTSIDE_EXIT_PLAN", {}))
      BY <1>3, <1>4, <3>0, <3>1 DEF Rejections, RejectedAs
    <3>2. CASE Dispose(i, Rejected("ADMISSION", ClosedIntents))
      BY <1>3, <1>4, <3>0, <3>2 DEF Rejections, RejectedAs
    <3>3. CASE capacity = 0 /\ Dispose(i, Rejected("NO_LIQUIDITY", ClosedIntents))
      BY <1>3, <1>4, <3>0, <3>3 DEF Rejections, RejectedAs
    <3> QED BY <2>2, <3>1, <3>2, <3>3 DEF RejectPriced
  <2> QED BY <2>1, <2>2
<1>6. PICK r \in Rejections, e \in SUBSET Nat :
         Dispose(i, Rejected(r, e)) /\ RejectedAs(i, Rejected(r, e))
  BY <1>5
<1>7. DisposedNow(i, Rejected(r, e)) /\ Rejected(r, e) \in Disposition
  BY <1>1, <1>2, <1>3, <1>6, DisposeTells
<1> QED BY <1>1, <1>2, <1>6, <1>7 DEF Rejects

LEMMA ScheduleNow ==
    ASSUME TypeOK, NEW i \in Intents, EntryIndex(i) = index, index < Candles
    PROVE ScheduledReason(i) = IF TooLate(i) THEN "EXPIRED"
                               ELSE IF BeyondHorizon(i) THEN "INSUFFICIENT_TERMINAL_HORIZON"
                               ELSE "OPEN"
<1>1. ~ (index > Candles - 1)
  BY CellBounds DEF TypeOK
<1> QED BY <1>1 DEF ScheduledReason, TooLate, BeyondHorizon, LastOpen

\* Everything that a flat cell has closed was closed by this open.
LEMMA FlatIsClosed ==
    ASSUME IInv, position = None
    PROVE ClosedBy(Opens(index)) = ClosedIntents
BY DEF IInv, Past, ClosedBy, ClosedIntents

LEMMA DispositionsReject ==
    ASSUME IInv, DispositionsTold, NEW i \in Intents, NEW d \in Disposition, Rejects(i, d)
    PROVE DispositionsTold'
<1>1. UNCHANGED <<setup, position, fills, trades>> /\ DisposedNow(i, d) /\ RejectedAs(i, d)
  BY DEF Rejects
<1>2. ASSUME NEW at PROVE LiveOrHeld(at)' = LiveOrHeld(at) /\ ClosedBy(at)' = ClosedBy(at)
  BY <1>1 DEF LiveOrHeld, LiveAt, ClosedBy, Opens
<1>3. \A j : EntriesOf(j)' = EntriesOf(j)
  BY <1>1, SameFills
<1>4. ASSUME NEW j \in Intents, j # i, dispositions[j] # None PROVE Told(j)'
  BY <1>1, <1>2, <1>3, <1>4, ToldStays DEF DispositionsTold, DisposedNow
<1>5. Told(i)'
  <2>1. /\ EntryIndex(i) = index /\ index < Candles /\ TypeOK /\ capacity <= volume
        /\ capacity \in Nat
    BY <1>1, CellBounds DEF Rejects, DisposedNow, IInv, TypeOK
  <2>2. ScheduledReason(i)' = ScheduledReason(i) /\ Opens(EntryIndex(i))' = Opens(index)
    BY <1>1, <2>1, SameSchedule DEF Opens
  <2>3. dispositions'[i] = d /\ d.capacity <= d.volume
    BY <1>1, <2>1 DEF DisposedNow, RejectedAs
  <2>4. d.reason = "OVERLAPPING_POSITION" => LiveOrHeld(Opens(index))
    <3>1. position # None => Opens(position.entry) <= Opens(index)
      BY PositionFields DEF IInv, Held, Opens
    <3> QED BY <1>1, <3>1 DEF RejectedAs, LiveOrHeld
  <2>5. Priced(d) => d.equity = ClosedBy(Opens(index))
    BY <1>1, FlatIsClosed DEF RejectedAs, Priced
  <2>6. LiveOrHeld(Opens(EntryIndex(i)))' = LiveOrHeld(Opens(index))
        /\ ClosedBy(Opens(EntryIndex(i)))' = ClosedBy(Opens(index))
    BY <1>1, <2>2 DEF LiveOrHeld, LiveAt, ClosedBy, Opens
  <2>7. ScheduledReason(i) # "OPEN" => d.reason = ScheduledReason(i)
    BY <1>1, <2>1, ScheduleNow DEF RejectedAs
  <2>8. ScheduledReason(i) = "OPEN" =>
           /\ d.reason \notin {"EXPIRED", "INSUFFICIENT_TERMINAL_HORIZON", "ENTERED"}
           /\ d.reason = "NO_LIQUIDITY" => d.capacity = 0
    BY <1>1, <2>1, ScheduleNow DEF RejectedAs
  <2>9. Priced(dispositions[i])' = Priced(d)
    BY <2>3 DEF Priced
  <2> QED BY <2>2, <2>3, <2>4, <2>5, <2>6, <2>7, <2>8, <2>9 DEF Told
<1>6. Intents' = Intents /\ \A j \in Intents : j # i => dispositions'[j] = dispositions[j]
  BY <1>1 DEF Intents, DisposedNow
<1> QED BY <1>4, <1>5, <1>6 DEF DispositionsTold

LEMMA DispositionsEnter ==
    ASSUME IInv, EntriesTold, DispositionsTold, NEW i \in Intents, NEW f \in Fill,
           NEW d \in Disposition, Begins(i, f), DisposedNow(i, d), EnteredAs(i, f, d)
    PROVE DispositionsTold'
<1> DEFINE n == Len(fills) + 1
<1>1. /\ TypeOK /\ Appended(f, n) /\ position = None /\ UNCHANGED <<setup, trades>>
      /\ f.intent = i /\ IsEntry(f)
  BY AppendedFill DEF Begins, IInv, IsEntry
<1>2. ASSUME NEW at PROVE (LiveOrHeld(at) => LiveOrHeld(at)') /\ ClosedBy(at)' = ClosedBy(at)
  BY <1>1 DEF LiveOrHeld, LiveAt, ClosedBy
<1>3. \A j : j # i => EntriesOf(j)' = EntriesOf(j)
  BY <1>1, AppendedParts
<1>4. EntriesOf(i)' = {n}
  <2>1. i \notin Entered
    BY DEF DisposedNow, Entered
  <2> QED BY <1>1, <2>1, AppendedParts, NothingForgotten
<1>5. ASSUME NEW j \in Intents, j # i, dispositions[j] # None PROVE Told(j)'
  <2>1. \A k \in EntriesOf(j) : fills'[k] = fills[k]
    BY <1>1, AttemptsOf DEF Appended
  <2>2. Told(j) /\ dispositions'[j] = dispositions[j]
    BY <1>5 DEF DispositionsTold, DisposedNow
  <2> QED BY <1>1, <1>2, <1>3, <1>5, <2>1, <2>2, ToldStays
<1>6. Told(i)'
  <2>1. /\ EntryIndex(i) = index /\ index < Candles /\ capacity <= volume
        /\ capacity \in Nat
    BY <1>1, CellBounds DEF Begins, DisposedNow, TypeOK
  <2>2. ScheduledReason(i) = "OPEN"
    BY <1>1, <2>1, ScheduleNow DEF EnteredAs
  <2>3. ScheduledReason(i)' = "OPEN" /\ Opens(EntryIndex(i))' = Opens(index)
        /\ EntryIndex(i)' = index /\ Causal(i)' = Causal(i)
    BY <1>1, <2>1, <2>2, SameSchedule DEF Opens
  <2>4. dispositions'[i] = d /\ d.capacity <= d.volume /\ d.reason = "ENTERED"
    BY <2>1 DEF DisposedNow, EnteredAs
  <2>5. ClosedBy(Opens(EntryIndex(i)))' = d.equity
    <3>1. ClosedBy(Opens(EntryIndex(i)))' = ClosedBy(Opens(index))
      BY <1>1, <2>3 DEF ClosedBy
    <3> QED BY <1>1, <3>1, FlatIsClosed DEF EnteredAs
  <2>6. fills'[n] = f
    BY <1>1 DEF Appended
  <2>7. EntryHolds(i, d)'
    <3>1. setup' = setup
      BY <1>1
    <3> HIDE DEF n
    <3> QED BY <1>4, <2>3, <2>6, <3>1 DEF EntryHolds, Begins, EnteredAs
  <2>8. EntryHolds(i, dispositions[i])'
    BY <2>4, <2>7 DEF EntryHolds
  <2> HIDE DEF n
  <2> QED BY <2>3, <2>4, <2>5, <2>8 DEF Told
<1>7. Intents' = Intents /\ \A j \in Intents : j # i => dispositions'[j] = dispositions[j]
  BY <1>1 DEF Intents, DisposedNow
<1> QED BY <1>5, <1>6, <1>7 DEF DispositionsTold

LEMMA DispositionsExit ==
    ASSUME OpenStops = FALSE, IInv, Outside, EntriesTold, Considered, DispositionsTold, Filling,
           NEW f \in Fill, NEW next, Tried(f, next)
    PROVE DispositionsTold'
<1> DEFINE n == Len(fills) + 1
<1>1. /\ TypeOK /\ Appended(f, n) /\ ~IsEntry(f) /\ UNCHANGED <<setup, dispositions>>
      /\ position # None /\ index \in Nat /\ f.at = position.decision.from
      /\ position.entry \in Nat
  BY AppendedFill, AtFill DEF Tried, Answers, IInv, IsEntry
<1>2. \A j : /\ EntriesOf(j)' = EntriesOf(j)
             /\ \A k \in EntriesOf(j) : fills'[k] = fills[k]
  BY <1>1, EntriesStay, AttemptsOf DEF Appended
<1>3. ASSUME NEW j \in Intents, dispositions[j] # None, ScheduledReason(j) = "OPEN"
      PROVE  Opens(EntryIndex(j)) \in Nat /\ Opens(EntryIndex(j)) < f.at
  <2>1. EntryIndex(j) \in Nat /\ Candles \in Nat
    BY <1>1, IntentTimes, CellBounds
  <2>2. EntryIndex(j) < Candles
    <3>1. ~ (EntryIndex(j) > LastOpen)
      BY <1>3 DEF ScheduledReason
    <3> QED BY <2>1, <3>1 DEF LastOpen
  <2>3. EntryIndex(j) <= index /\ (pc # "last" => EntryIndex(j) < index)
    BY <1>3, <2>2 DEF Considered, Filling
  <2>4. CASE pc = "last"
    BY <1>1, <2>1, <2>3, <2>4 DEF Outside, Opens, Closes
  <2>5. CASE pc # "last"
    <3>1. f.at = Opens(index)
      BY <2>5 DEF Tried
    <3> QED BY <1>1, <2>1, <2>3, <2>5, <3>1 DEF Opens
  <2> QED BY <2>4, <2>5
<1>4. ASSUME NEW at \in Nat, at < f.at
      PROVE (LiveOrHeld(at) => LiveOrHeld(at)') /\ ClosedBy(at)' = ClosedBy(at)
  <2>1. CASE f.filled = f.requested
    <3>1. PICK t \in Trade : Became(t, f) /\ Closing(t)
      BY <2>1, EndsTrade DEF Tried
    <3> DEFINE m == Len(trades) + 1
    <3>2. /\ DOMAIN trades' = DOMAIN trades \cup {m} /\ trades'[m] = t
          /\ \A k \in DOMAIN trades : trades'[k] = trades[k]
          /\ t.entry = Opens(position.entry) /\ t.exit = f.at
      BY <3>1 DEF Closing, Became
    <3>3. ~ (f.at <= at) /\ f.at \in Nat
      BY <1>4 DEF Fill
    <3> HIDE DEF m
    <3>4. LiveOrHeld(at) => LiveAt(at)'
      BY <1>4, <3>2 DEF LiveOrHeld, LiveAt
    <3>5. ClosedBy(at)' = ClosedBy(at)
      BY <3>2, <3>3 DEF ClosedBy
    <3> QED BY <3>4, <3>5 DEF LiveOrHeld
  <2>2. CASE f.filled # f.requested
    <3>1. position' # None /\ position'.entry = position.entry /\ trades' = trades
      BY <2>2 DEF Tried, Retried
    <3> QED BY <1>1, <3>1 DEF LiveOrHeld, LiveAt, ClosedBy, Opens
  <2> QED BY <2>1, <2>2
<1>5. ASSUME NEW j \in Intents, dispositions[j] # None PROVE Told(j)'
  <2>1. PICK at : at = Opens(EntryIndex(j))
    OBVIOUS
  <2>2. ScheduledReason(j) = "OPEN" => /\ LiveOrHeld(at) => LiveOrHeld(at)'
                                       /\ ClosedBy(at)' = ClosedBy(at)
    BY <1>3, <1>4, <1>5, <2>1
  <2> QED BY <1>1, <1>2, <1>5, <2>1, <2>2, ToldStays DEF DispositionsTold
<1>6. Intents' = Intents
  BY <1>1 DEF Intents
<1> QED BY <1>1, <1>5, <1>6 DEF DispositionsTold

----------------------------------------------------------------------------
(* The story of the position.                                              *)

Alike(t, u) == /\ u.intent = t.intent /\ u.entry = t.entry
               /\ u.quantity = t.quantity /\ u.reason = t.reason

LEMMA AlikeHolds ==
    ASSUME NEW t, NEW u, Alike(t, u)
    PROVE /\ \A k : AttemptHolds(t, k) => AttemptHolds(u, k)
          /\ \A S : LeftAfter(u, S) = LeftAfter(t, S)
          /\ NominalTimeout(u) = NominalTimeout(t)
<1>1. \A S : LeftAfter(u, S) = LeftAfter(t, S)
  BY DEF LeftAfter, Alike
<1>2. NominalTimeout(u) = NominalTimeout(t)
  BY DEF NominalTimeout, Alike
<1>3. \A k : ApplicationDecision(u, k) = ApplicationDecision(t, k)
  BY <1>2 DEF ApplicationDecision
<1>4. \A k : AttemptHolds(t, k) => AttemptHolds(u, k)
  BY <1>1, <1>2, <1>3 DEF AttemptHolds, Alike
<1> QED BY <1>1, <1>2, <1>4

LEMMA SameAttempt ==
    ASSUME NEW t, NEW k, fills' = fills, setup' = setup
    PROVE /\ AttemptHolds(t, k)' <=> AttemptHolds(t, k)
          /\ NominalTimeout(t)' = NominalTimeout(t)
<1>1. Earlier(k)' = Earlier(k) /\ \A S : LeftAfter(t, S)' = LeftAfter(t, S)
  BY SameFills
<1>2. NominalTimeout(t)' = NominalTimeout(t)
  BY DEF NominalTimeout, Holding
<1>3. ApplicationDecision(t, k)' = ApplicationDecision(t, k)
  BY <1>1, <1>2 DEF ApplicationDecision
<1> QED BY <1>1, <1>2, <1>3 DEF AttemptHolds

\* A step that fills nothing leaves the attempts as they were told.
StillTold ==
    /\ AttemptsHold' /\ Attempts' = Attempts /\ Newest' = Newest
    /\ NominalTimeout(Current)' = NominalTimeout(Current) /\ AskedAt' = AskedAt

LEMMA AttemptsStill ==
    ASSUME fills' = fills, setup' = setup, position # None, AttemptsHold,
           position'.intent = position.intent, position'.entry = position.entry,
           position'.remaining = position.remaining,
           Attempts = {} \/ (/\ position'.reason = position.reason
                             /\ position'.ambiguous = position.ambiguous)
    PROVE StillTold
<1>1. /\ \A i : ExitsOf(i)' = ExitsOf(i) /\ EntryFilled(i)' = EntryFilled(i)
      /\ \A t, S : LeftAfter(t, S)' = LeftAfter(t, S)
  BY SameFills
<1>2. Attempts' = Attempts
  BY <1>1 DEF Attempts
<1>3. Newest' = Newest
  BY <1>2 DEF Newest
<1>4. PICK t : t = Current
  OBVIOUS
<1>5. PICK u : u = Current'
  OBVIOUS
<1>6. /\ u.intent = t.intent /\ u.entry = t.entry /\ u.quantity = t.quantity
      /\ u.reason = position'.reason /\ t.reason = position.reason
  BY <1>1, <1>4, <1>5 DEF Current, Closed, Opens
<1>7. NominalTimeout(Current)' = NominalTimeout(Current)
  <2>1. NominalTimeout(Current)' = Current'.entry + 2 * setup'.intents[Current'.intent].holding
    BY DEF NominalTimeout, Holding
  <2>2. NominalTimeout(Current) = Current.entry + 2 * setup.intents[Current.intent].holding
    BY DEF NominalTimeout, Holding
  <2> QED BY <1>4, <1>5, <1>6, <2>1, <2>2
<1>8. AskedAt' = AskedAt
  BY <1>2, <1>3, <1>7 DEF AskedAt
<1>9. ASSUME NEW k \in Attempts
      PROVE  AttemptHolds(Current, k)' /\ fills'[k].decision.ambiguous = position'.ambiguous
  <2>1. Alike(t, u)
    BY <1>6, <1>9 DEF Alike
  <2>2. AttemptHolds(u, k)
    BY <1>4, <2>1, AlikeHolds DEF AttemptsHold
  <2>3. AttemptHolds(u, k)'
    BY <2>2, SameAttempt
  <2>4. AttemptHolds(Current, k)'
    BY <1>5, <2>3 DEF AttemptHolds, ApplicationDecision, LeftAfter, NominalTimeout
  <2> QED BY <1>9, <2>4 DEF AttemptsHold
<1>10. position'.remaining = LeftAfter(Current, Attempts)'
  <2>1. LeftAfter(Current, Attempts)' = LeftAfter(Current, Attempts)
    BY <1>2, <1>4, <1>5, <1>6 DEF LeftAfter
  <2> QED BY <2>1 DEF AttemptsHold
<1> QED BY <1>2, <1>3, <1>7, <1>8, <1>9, <1>10 DEF StillTold, AttemptsHold

\* A step that leaves the position as it was.
LEMMA StoryStays ==
    ASSUME IInv, Story, fills' = fills, setup' = setup, position' = position, exit' = exit,
           pc # "illiquid",
           \/ index' = index /\ (Filling' => pc' = pc)
           \/ EntriesDone
    PROVE Story'
<1> SUFFICES ASSUME position # None PROVE Story'
  BY DEF Story
<1>1. AttemptsHold /\ DecisionTold /\ RestingTold /\ ScheduleTold
  BY DEF Story
<1>2. StillTold
  BY <1>1, AttemptsStill
<1>3. CASE index' = index /\ (Filling' => pc' = pc)
  <2>1. Filling' => Filling
    BY <1>3 DEF Filling
  <2>2. Closes(index)' = Closes(index)
    BY <1>3 DEF Closes
  <2>3. DecisionTold'
    BY <1>1, <1>2, <2>1, <2>2 DEF DecisionTold, StillTold
  <2>4. RestingTold' /\ ScheduleTold'
    <3>1. pc' = "application" => pc = "application"
      BY <1>3 DEF Filling
    <3> QED BY <1>1, <1>2, <1>3, <2>2, <3>1 DEF RestingTold, ScheduleTold, StillTold, IndexAt
  <2> QED BY <1>2, <2>3, <2>4 DEF Story, StillTold
<1>4. CASE EntriesDone
  <2>1. /\ pc = "entries" /\ pc' \in {"entered", "last", "open"}
        /\ pc' = "last" => AwaitsClose /\ index' = index
        /\ pc' = "open" => ~AwaitsClose
        /\ pc' # "open" => index' = index
    BY <1>4 DEF EntriesDone
  <2>2. exit = None /\ position.pending => AwaitsClose
    BY <2>1 DEF IInv, Stage, DecidedAt, AwaitsClose
  <2>3. AwaitsClose => exit = None /\ position.pending
    <3>1. position.decision # None => position.pending
      BY DEF IInv, Held
    <3>2. Opens(index) # Closes(index)
      BY PositionFields DEF IInv, Opens, Closes
    <3> QED BY <2>1, <3>1, <3>2 DEF IInv, Stage, AwaitsClose
  <2>4. DecisionTold'
    <3>1. Filling' => /\ Attempts = {} /\ position.decision.until = Closes(index)'
      BY <1>1, <2>1, <2>3 DEF Filling, RestingTold, Closes
    <3> QED BY <1>1, <1>2, <3>1 DEF DecisionTold, StillTold
  <2>5. RestingTold'
    <3>1. CASE pc' = "open"
      BY <1>1, <1>2, <2>1, <2>2, <3>1 DEF RestingTold, StillTold
    <3>2. CASE pc' # "open"
      <4>1. Closes(index)' = Closes(index)
        BY <2>1, <3>2 DEF Closes
      <4> QED BY <1>1, <1>2, <4>1 DEF RestingTold, StillTold
    <3> QED BY <3>1, <3>2
  <2>6. ScheduleTold'
    BY <1>1, <1>2, <2>1 DEF ScheduleTold, StillTold, IndexAt
  <2> QED BY <1>2, <2>4, <2>5, <2>6 DEF Story, StillTold
<1> QED BY <1>3, <1>4

\* What is not asked for has no attempts.
LEMMA Unasked ==
    ASSUME IInv, Story, position # None, pc # "illiquid", ~position.pending
    PROVE /\ position.decision = None /\ exit = None /\ Attempts = {}
          /\ position.ambiguous = FALSE
<1>1. position.decision = None /\ exit = None
  BY DEF IInv, Held
<1>2. Attempts = {} /\ ~position.ambiguous
  BY <1>1 DEF Story, RestingTold, DecisionTold
<1> QED BY <1>1, <1>2, PositionFields DEF IInv

LEMMA StorySurvives ==
    ASSUME IInv, Story, position # None, pc # "illiquid", ~position.pending,
           fills' = fills, setup' = setup, position' = Survivor, exit' = exit,
           pc' \in {"entries", "open"}
    PROVE Story'
<1>1. AttemptsHold /\ DecisionTold /\ RestingTold
  BY DEF Story
<1>2. /\ position'.intent = position.intent /\ position'.entry = position.entry
      /\ position'.remaining = position.remaining /\ position'.pending = position.pending
      /\ position'.ambiguous = position.ambiguous /\ position'.decision = None
  BY SurvivorHolds
<1>3. Attempts = {} /\ exit = None /\ position.ambiguous = FALSE
  BY Unasked
<1>4. StillTold
  BY <1>1, <1>2, <1>3, AttemptsStill
<1>5. DecisionTold' /\ RestingTold' /\ ScheduleTold'
  BY <1>2, <1>3, <1>4 DEF DecisionTold, RestingTold, ScheduleTold, StillTold
<1> QED BY <1>4, <1>5 DEF Story, StillTold

LEMMA StoryAsks ==
    ASSUME IInv, Story, position # None, pc # "illiquid", ~position.pending,
           NEW from \in {Opens(index), Closes(index)}, NEW reason \in Reasons \ {"TIMEOUT"},
           NEW ambiguous \in BOOLEAN, from <= NominalTimeout(Current),
           fills' = fills, setup' = setup, index' = index, exit' = exit,
           position' = Asking(from, reason, ambiguous),
           pc' # "application"
    PROVE Story'
<1>1. AttemptsHold
  BY DEF Story
<1>2. Attempts = {} /\ exit = None /\ position.ambiguous = FALSE
  BY Unasked
<1>3. LET s == Asking(from, reason, ambiguous)
      IN  /\ AskedShape(s, from, reason, ambiguous)
          /\ s.sequence = position.sequence + 1 /\ s.decision.sequence = position.sequence + 1
          /\ s.decision.reason = reason /\ s.decision.ambiguous = ambiguous
          /\ s.decision.until = Closes(index)
  BY AskingHolds
<1>4. /\ position'.intent = position.intent /\ position'.entry = position.entry
      /\ position'.remaining = position.remaining /\ position'.pending = TRUE
      /\ position'.reason = reason /\ position'.ambiguous = ambiguous
      /\ position'.decision # None /\ position'.decision.from = from
      /\ position'.sequence = position'.decision.sequence
      /\ position'.decision.reason = reason /\ position'.decision.ambiguous = ambiguous
      /\ position'.decision.until = Closes(index)
  BY <1>2, <1>3 DEF AskedShape
<1>5. StillTold
  BY <1>1, <1>2, <1>4, AttemptsStill
<1>6. Closes(index)' = Closes(index)
  BY DEF Closes
<1>7. DecisionTold' /\ RestingTold' /\ ScheduleTold'
  BY <1>2, <1>4, <1>5, <1>6 DEF DecisionTold, RestingTold, ScheduleTold, StillTold
<1> QED BY <1>5, <1>7 DEF Story, StillTold

LEMMA StoryManages ==
    ASSUME IInv, Story, ApplicationManaged
    PROVE Story'
<1> DEFINE reason == IF position.pending THEN position.reason ELSE "TIMEOUT"
           ambiguous == position.pending /\ position.ambiguous
<1>1. /\ pc = "barrier" /\ position' = Asking(Opens(index), reason, ambiguous)
      /\ position.pending \/ Expired
      /\ exit' = PlannedExit
      /\ pc' = "application" => index >= PlannedExit.ready
      /\ UNCHANGED Evidence
  BY DEF ApplicationManaged
<1>2. /\ position # None /\ TypeOK /\ Held /\ position.intent \in Intents
      /\ index \in Nat /\ position.entry \in Nat /\ position.entry <= index
      /\ position.pending \in BOOLEAN /\ position.ambiguous \in BOOLEAN
      /\ setup' = setup /\ index' = index /\ fills' = fills
  BY <1>1, PositionFields DEF IInv, Where, Consuming, Held, Evidence
<1>3. reason \in Reasons /\ ambiguous \in BOOLEAN
  BY <1>2, PositionFields DEF Held, Reasons
<1>4. AttemptsHold /\ DecisionTold /\ RestingTold /\ ScheduleTold
  BY <1>1, <1>2 DEF Story
<1> HIDE DEF reason, ambiguous
<1>5. LET s == Asking(Opens(index), reason, ambiguous)
      IN  /\ AskedShape(s, Opens(index), reason, ambiguous)
          /\ s.sequence = position.sequence + 1 /\ s.decision.sequence = position.sequence + 1
          /\ s.decision.reason = reason /\ s.decision.ambiguous = ambiguous
          /\ s.decision.until = Closes(index)
  BY <1>2, <1>3, AskingHolds
<1>6. /\ position'.intent = position.intent /\ position'.entry = position.entry
      /\ position'.remaining = position.remaining /\ position'.pending = TRUE
      /\ position'.reason = reason /\ position'.ambiguous = (position.ambiguous \/ ambiguous)
      /\ position'.sequence = position'.decision.sequence
      /\ position'.sequence = position.sequence + 1
      /\ position'.decision.reason = reason /\ position'.decision.ambiguous = ambiguous
      /\ position'.decision.until = Closes(index)
  BY <1>1, <1>5 DEF AskedShape
<1>7. Closes(index)' = Closes(index)
  BY <1>2 DEF Closes
<1>8. CASE position.pending
  <2>1. reason = position.reason /\ ambiguous = position.ambiguous
    BY <1>2, <1>8 DEF reason, ambiguous
  <2>2. exit # None /\ index <= exit.ready /\ exit' = exit /\ exit.ready \in Nat
    <3>1. exit # None /\ index <= exit.ready
      BY <1>1, <1>2, <1>8 DEF IInv, Stage
    <3> QED BY <1>1, <1>2, <3>1 DEF PlannedExit, TypeOK, Scheduled
  <2>3. position'.ambiguous = position.ambiguous
    BY <1>2, <1>6, <2>1
  <2>4. StillTold
    BY <1>2, <1>4, <1>6, <2>1, <2>3, AttemptsStill
  <2>5. Attempts # {} => /\ Newest.decision.sequence <= position.sequence + 1
                         /\ Newest.decision.sequence < position.sequence + 1
    <3>1. Attempts # {} => Newest.decision.sequence <= position.sequence
      BY <1>4 DEF DecisionTold
    <3>2. Attempts # {} => Newest.decision.sequence \in Nat
      BY <1>4 DEF DecisionTold, Decision
    <3> QED BY <1>2, <3>1, <3>2, PositionFields
  <2>6. DecisionTold'
    BY <1>4, <1>6, <1>7, <2>1, <2>3, <2>4, <2>5 DEF DecisionTold, StillTold
  <2>7. RestingTold'
    BY <2>2 DEF RestingTold
  <2>8. ScheduleTold'
    <3>1. pc' = "application" => index = exit.ready
      BY <1>1, <1>2, <2>2 DEF PlannedExit
    <3> QED BY <1>2, <1>4, <1>6, <2>1, <2>2, <2>4, <3>1 DEF ScheduleTold, StillTold, IndexAt
  <2> QED BY <2>4, <2>6, <2>7, <2>8 DEF Story, StillTold
<1>9. CASE ~position.pending
  <2>1. reason = "TIMEOUT" /\ ambiguous = FALSE
    BY <1>9 DEF reason, ambiguous
  <2>2. exit = None /\ Attempts = {} /\ position.ambiguous = FALSE
    BY <1>1, <1>2, <1>9, Unasked
  <2>3. StillTold
    BY <1>2, <1>4, <1>6, <2>2, AttemptsStill
  <2>4. DecisionTold'
    BY <1>6, <1>7, <2>1, <2>2, <2>3 DEF DecisionTold, StillTold
  <2>5. exit' = Schedule(Opens(index), index) /\ PlannedExit = Schedule(Opens(index), index)
    BY <1>1, <2>2 DEF PlannedExit
  <2>6. Opens(index) = NominalTimeout(Current)
    <3>1. Holding(position.intent) \in Nat
      BY <1>2, IntentTimes
    <3>2. index = position.entry + Holding(position.intent)
      BY <1>1, <1>2, <1>9, <3>1 DEF IInv, Stage, Expired, Bar
    <3> QED BY <1>2, <3>1, <3>2, CurrentFields DEF NominalTimeout, Opens
  <2>7. /\ Schedule(Opens(index), index).decided = Opens(index)
        /\ Schedule(Opens(index), index).eligible = Opens(index) + setup.exitLatency
        /\ Schedule(Opens(index), index).ready = IndexAt(Opens(index) + setup.exitLatency)
        /\ Schedule(Opens(index), index).ready \in Nat
        /\ Schedule(Opens(index), index).ready >= index
        /\ Schedule(Opens(index), index) # None
    <3>1. Opens(index) \in Nat /\ setup.exitLatency \in Nat
      BY <1>2, SetupFields DEF Opens
    <3>2. IndexAt(Opens(index) + setup.exitLatency) >= index
          /\ IndexAt(Opens(index) + setup.exitLatency) \in Nat
      BY <1>2, <3>1 DEF IndexAt, Opens
    <3>3. Max2(IndexAt(Opens(index) + setup.exitLatency), index)
            = IndexAt(Opens(index) + setup.exitLatency)
      BY <1>2, <3>2 DEF Max2
    <3> QED BY <1>2, <3>1, <3>2, <3>3, ScheduleFields DEF Schedule
  <2>8. ScheduleTold'
    <3>1. pc' = "application" => index = exit'.ready
      BY <1>1, <1>2, <2>5, <2>7
    <3>2. AskedAt' = Opens(index)
      BY <2>2, <2>3, <2>6 DEF AskedAt, StillTold
    <3>3. /\ exit'.decided = Opens(index) /\ exit'.eligible = Opens(index) + setup.exitLatency
          /\ exit'.ready = IndexAt(exit'.eligible)
      BY <2>5, <2>7
    <3>4. Attempts' = {} /\ position'.reason = "TIMEOUT"
      BY <1>6, <2>1, <2>2, <2>3 DEF StillTold
    <3> QED BY <1>2, <3>1, <3>2, <3>3, <3>4 DEF ScheduleTold, IndexAt
  <2>9. RestingTold'
    BY <2>5, <2>7 DEF RestingTold
  <2> QED BY <2>3, <2>4, <2>8, <2>9 DEF Story, StillTold
<1> QED BY <1>8, <1>9

QuietStep ==
    \/ OpenCandle \/ Survive \/ BarrierInsideCandle \/ BarrierAtOpen \/ ApplicationManaged
    \/ EntriesDone \/ EntryCandleSurvived \/ EntryCandleBarrier \/ Finish
    \/ UNCHANGED vars

\* Until it is asked for, the exit of a position is not late.
LEMMA NotLate ==
    ASSUME IInv, Story, position # None, pc \in {"barrier", "entered"}, ~position.pending
    PROVE /\ Opens(index) <= NominalTimeout(Current)
          /\ index < position.entry + Holding(position.intent)
                => Closes(index) <= NominalTimeout(Current)
          /\ ~Expired => index < position.entry + Holding(position.intent)
<1>1. /\ index \in Nat /\ position.entry \in Nat /\ position.intent \in Intents
  BY PositionFields DEF IInv, Held
<1>2. Holding(position.intent) \in Nat
  BY <1>1, IntentTimes DEF IInv
<1>3. index <= position.entry + Holding(position.intent)
  BY <1>1, <1>2 DEF IInv, Stage
<1>4. NominalTimeout(Current) = 2 * position.entry + 2 * Holding(position.intent)
  BY CurrentFields DEF NominalTimeout, Opens
<1> QED BY <1>1, <1>2, <1>3, <1>4 DEF Opens, Closes, Expired, Bar

LEMMA StoryQuiet ==
    ASSUME OpenStops = FALSE, IInv, Story, QuietStep
    PROVE Story' /\ (Outside => Outside')
<1>1. \A r \in BarrierReasons : r \in Reasons \ {"TIMEOUT"}
  BY CellBounds DEF Reasons
<1>2. Consuming => position # None
  BY DEF IInv, Where
<1>3. CASE OpenCandle
  <2>1. /\ fills' = fills /\ setup' = setup /\ position' = position /\ exit' = exit
        /\ index' = index /\ pc = "open" /\ pc' \in {"barrier", "entries", "overrun"}
    BY <1>3 DEF OpenCandle
  <2> QED BY <2>1, StoryStays DEF Filling, Outside
<1>4. CASE Survive
  <2>1. position # None /\ pc = "barrier" /\ pc' = "entries"
    BY <1>2, <1>4 DEF Survive, Consuming
  <2> QED BY <1>4, <2>1, StorySurvives DEF Survive, Evidence, Outside
<1>5. CASE BarrierInsideCandle
  <2>1. PICK r \in BarrierReasons : \E a \in Ambiguities(r) :
           position' = Asking(Closes(index), r, a)
    BY <1>5 DEF BarrierInsideCandle
  <2>2. PICK a \in BOOLEAN : position' = Asking(Closes(index), r, a)
    BY <2>1 DEF Ambiguities
  <2>3. /\ position # None /\ pc = "barrier" /\ pc' = "entries" /\ ~position.pending
        /\ fills' = fills /\ setup' = setup /\ index' = index /\ exit' = exit
    BY <1>2, <1>5 DEF BarrierInsideCandle, Consuming, Evidence
  <2>4. Closes(index) <= NominalTimeout(Current)
    BY <1>5, <2>3, NotLate DEF BarrierInsideCandle
  <2> QED BY <1>1, <2>2, <2>3, <2>4, StoryAsks DEF Outside
<1>6. CASE BarrierAtOpen
  <2>1. PICK r \in BarrierReasons : position' = Asking(Opens(index), r, FALSE)
    BY <1>6 DEF BarrierAtOpen
  <2>2. /\ position # None /\ pc = "barrier" /\ pc' = "resting" /\ ~position.pending
        /\ fills' = fills /\ setup' = setup /\ index' = index /\ exit' = exit
    BY <1>2, <1>6 DEF BarrierAtOpen, Consuming, Evidence
  <2> QED BY <1>1, <2>1, <2>2, NotLate, StoryAsks DEF Outside
<1>7. CASE ApplicationManaged
  <2>1. pc' \in {"illiquid", "application", "entries"}
    BY <1>7 DEF ApplicationManaged
  <2> QED BY <1>7, <2>1, StoryManages DEF Outside
<1>8. CASE EntriesDone
  <2>1. /\ fills' = fills /\ setup' = setup /\ position' = position /\ exit' = exit
        /\ pc = "entries" /\ pc' \in {"entered", "last", "open"}
        /\ pc' = "last" => position.decision.from = Closes(index) /\ index' = index
    BY <1>8 DEF EntriesDone, AwaitsClose
  <2>2. Outside'
    BY <2>1 DEF Outside, Closes
  <2> QED BY <1>8, <2>1, <2>2, StoryStays
<1>9. CASE EntryCandleSurvived
  <2>1. position # None /\ pc = "entered" /\ pc' = "open" /\ ~position.pending
    BY <1>2, <1>9 DEF EntryCandleSurvived, Consuming, IInv, Stage
  <2> QED BY <1>9, <2>1, StorySurvives DEF EntryCandleSurvived, Outside
<1>10. CASE EntryCandleBarrier
  <2>1. PICK r \in BarrierReasons : \E a \in Ambiguities(r) :
           position' = Asking(Closes(index), r, a)
    BY <1>10 DEF EntryCandleBarrier
  <2>2. PICK a \in BOOLEAN : position' = Asking(Closes(index), r, a)
    BY <2>1 DEF Ambiguities
  <2>3. /\ position # None /\ pc = "entered" /\ pc' = "last"
        /\ fills' = fills /\ setup' = setup /\ index' = index /\ exit' = exit
    BY <1>2, <1>10 DEF EntryCandleBarrier, Consuming, Evidence
  <2>4. ~position.pending /\ index < position.entry + Holding(position.intent)
    BY <2>3 DEF IInv, Stage
  <2>5. Closes(index) <= NominalTimeout(Current)
    BY <2>3, <2>4, NotLate
  <2>6. position'.decision.from = Closes(index)'
    <3>1. r \in Reasons
      BY <1>1
    <3>2. AskedShape(Asking(Closes(index), r, a), Closes(index), r, a)
      BY <2>3, <3>1, AskingHolds
    <3> QED BY <2>2, <2>3, <3>2 DEF AskedShape, Closes
  <2>7. Story'
    BY <1>1, <2>2, <2>3, <2>4, <2>5, StoryAsks
  <2> QED BY <2>3, <2>6, <2>7 DEF Outside
<1>11. CASE Finish
  <2>1. /\ fills' = fills /\ setup' = setup /\ position' = position /\ exit' = exit
        /\ index' = index /\ pc = "open" /\ pc' \in {"done", "held"}
        /\ pc' = "done" => position' = None
    BY <1>11 DEF Finish, Evidence
  <2> QED BY <2>1, StoryStays DEF Filling, Outside
<1>12. CASE UNCHANGED vars
  <2>1. /\ fills' = fills /\ setup' = setup /\ position' = position /\ exit' = exit
        /\ index' = index /\ pc' = pc
    BY <1>12 DEF vars
  <2>2. Outside => Outside'
    BY <2>1 DEF Outside, Closes
  <2>3. CASE pc = "illiquid"
    BY <2>1, <2>2, <2>3 DEF Story
  <2>4. CASE pc # "illiquid"
    BY <2>1, <2>2, <2>4, StoryStays
  <2> QED BY <2>3, <2>4
<1> QED BY <1>3, <1>4, <1>5, <1>6, <1>7, <1>8, <1>9, <1>10, <1>11, <1>12 DEF QuietStep

LEMMA StoryEnters ==
    ASSUME IInv, EntriesTold, NEW i \in Intents, NEW f \in Fill, NEW d,
           Begins(i, f), DisposedNow(i, d), EnteredAs(i, f, d), EntriesTold'
    PROVE Story'
<1> DEFINE n == Len(fills) + 1
<1>1. TypeOK /\ Appended(f, n) /\ IsEntry(f) /\ f.intent = i /\ i \notin Entered
  BY AppendedFill DEF Begins, IInv, IsEntry, DisposedNow, Entered
<1>2. /\ position' # None /\ position'.intent = i /\ position'.pending = FALSE
      /\ position'.ambiguous = FALSE /\ position'.decision = None /\ exit' = None
      /\ position'.remaining = f.filled
  BY DEF Begins
<1>3. ExitsOf(i)' = {} /\ EntriesOf(i)' = {n}
  BY <1>1, AppendedParts, NothingForgotten
<1>4. Attempts' = {}
  BY <1>2, <1>3 DEF Attempts
<1>5. position'.remaining = LeftAfter(Current, Attempts)'
  <2>1. Current'.quantity = f.filled
    <3>1. EntryTold(Current)' /\ Current'.intent = i
      BY <1>2 DEF EntriesTold, Current, Closed
    <3>2. fills'[n] = f
      BY <1>1 DEF Appended
    <3> HIDE DEF n
    <3> QED BY <1>3, <3>1, <3>2 DEF EntryTold
  <2> QED BY <1>2, <1>4, <2>1 DEF LeftAfter
<1>6. AttemptsHold' /\ DecisionTold' /\ RestingTold' /\ ScheduleTold'
  BY <1>2, <1>4, <1>5 DEF AttemptsHold, DecisionTold, RestingTold, ScheduleTold
<1> QED BY <1>6 DEF Story

\* The new attempt follows from those before it.
LEMMA AttemptFollows ==
    ASSUME IInv, Story, Filling, NEW f \in Fill, NEW next, Tried(f, next),
           NEW n, Appended(f, n), NEW t, Alike(Current, t)
    PROVE AttemptHolds(t, n)'
<1>1. /\ TypeOK /\ Held /\ position # None /\ index \in Nat /\ position.pending
      /\ position.entry \in Nat /\ position.intent \in Intents
      /\ position.decision \in Decision /\ position.decision # None
      /\ position.decision.from \in {Opens(index), Closes(index)}
      /\ exit = None <=> pc # "application"
  BY AtFill
<1>2. /\ f.intent = position.intent /\ f.decision = position.decision /\ f.candle = index
      /\ f.at = position.decision.from /\ f.requested = position.remaining
      /\ setup' = setup
  BY DEF Tried, Answers
<1>3. AttemptsHold /\ DecisionTold /\ RestingTold /\ ScheduleTold
  BY <1>1 DEF Story, Filling
<1>4. Earlier(n)' = Attempts /\ fills'[n] = f
  BY <1>1, <1>2, AppendedParts DEF Appended, Attempts
<1>5. Attempts # {} => fills'[Max(Attempts)] = Newest
  BY <1>1, NewestIsFill DEF Appended, Newest
<1>6. /\ NominalTimeout(t)' = NominalTimeout(Current)
      /\ t.reason = position.reason
  BY <1>2, CurrentFields DEF NominalTimeout, Holding, Alike
<1>7. ApplicationDecision(t, n)' = AskedAt
  BY <1>4, <1>5, <1>6 DEF ApplicationDecision, AskedAt
<1>8. LeftAfter(t, Earlier(n))' = f.requested
  <2>1. LeftAfter(t, Earlier(n))' = IF Attempts = {} THEN t.quantity
                                    ELSE Newest.requested - Newest.filled
    BY <1>4, <1>5 DEF LeftAfter
  <2>2. LeftAfter(Current, Attempts) = IF Attempts = {} THEN Current.quantity
                                       ELSE Newest.requested - Newest.filled
    BY DEF LeftAfter, Newest
  <2> QED BY <1>2, <1>3, <2>1, <2>2 DEF AttemptsHold, Alike
<1>9. Attempts # {} => Newest.decision.sequence < f.decision.sequence
  BY <1>1, <1>2, <1>3 DEF DecisionTold
<1>10. f.decision.reason = t.reason
  BY <1>1, <1>2, <1>3, <1>6 DEF DecisionTold
<1>11. /\ NominalTimeout(Current) \in Nat /\ setup.grace \in Nat
       /\ NominalTimeout(Current) = 2 * position.entry + 2 * Holding(position.intent)
       /\ Holding(position.intent) \in Nat
  <2>1. Holding(position.intent) \in Nat /\ setup.grace \in Nat
    BY <1>1, IntentTimes, SetupFields
  <2> QED BY <1>1, <2>1, CurrentFields DEF NominalTimeout, Opens
<1>12. CASE pc = "application"
  <2>1. /\ exit # None /\ f.origin = "APPLICATION_EXIT"
        /\ f.decided = exit.decided /\ f.eligible = exit.eligible
    BY <1>12 DEF Tried, Answers
  <2>2. /\ exit.decided = AskedAt /\ exit.eligible = AskedAt + setup.exitLatency
        /\ Attempts = {} => position.reason = "TIMEOUT"
        /\ index = exit.ready
        /\ exit.ready = IF Attempts = {} THEN IndexAt(exit.eligible)
                        ELSE Max2(IndexAt(exit.eligible), Newest.candle + 1)
    BY <1>3, <1>12, <2>1 DEF ScheduleTold
  <2>3. f.at = Opens(index)
    BY <1>12 DEF Tried
  <2>4. f.at <= NominalTimeout(Current) + 2 * setup.grace
    <3>1. index <= Deadline(position.intent, position.entry)
      BY <1>1, <1>12, <2>1, <2>2 DEF Held
    <3> QED BY <1>1, <1>11, <2>3, <3>1 DEF Deadline, Opens
  <2> DEFINE decided == ApplicationDecision(t, n)'
             eligible == decided + setup.exitLatency
  <2>5. /\ Earlier(n)' # {} => fills'[Max(Attempts)].decision.sequence < f.decision.sequence
        /\ f.at <= NominalTimeout(t)' + 2 * setup.grace
        /\ Earlier(n)' = {} => f.decision.reason = "TIMEOUT"
        /\ f.decided = decided /\ f.eligible = eligible
        /\ f.candle = IF Earlier(n)' # {} THEN Max2(IndexAt(eligible), fills'[Max(Attempts)].candle + 1)
                      ELSE IndexAt(eligible)
        /\ f.decision.from = f.at
    BY <1>2, <1>4, <1>5, <1>6, <1>7, <1>9, <1>10, <2>1, <2>2, <2>4
  <2> HIDE DEF decided, eligible
  <2>6. decided = ApplicationDecision(t, n)' /\ eligible = decided + setup.exitLatency
    BY DEF decided, eligible
  <2> QED BY <1>2, <1>4, <1>8, <1>10, <2>1, <2>5, <2>6 DEF AttemptHolds, IndexAt, Max2
<1>13. CASE pc # "application"
  <2>1. exit = None /\ f.origin = "RESTING_BARRIER"
    BY <1>1, <1>13 DEF Tried, Answers
  <2>2. /\ Attempts = {} /\ position.reason # "TIMEOUT"
        /\ position.decision.from <= NominalTimeout(Current)
    BY <1>1, <1>3, <2>1 DEF RestingTold
  <2>3. f.at \in Nat
    BY DEF Fill
  <2>4. /\ f.at <= NominalTimeout(Current)
        /\ f.at <= NominalTimeout(Current) + 2 * setup.grace
    BY <1>2, <1>11, <2>2, <2>3
  <2>5. f.decision.reason # "TIMEOUT"
    BY <1>6, <1>10, <2>2
  <2> QED BY <1>2, <1>4, <1>6, <1>8, <1>10, <2>1, <2>2, <2>4, <2>5 DEF AttemptHolds
<1> QED BY <1>12, <1>13

\* All attempts of the position, with the new one.
LEMMA AttemptsFollow ==
    ASSUME IInv, Story, Filling, NEW f \in Fill, NEW next, Tried(f, next),
           NEW n, Appended(f, n), NEW t, Alike(Current, t), NEW S, S = Attempts \cup {n}
    PROVE /\ ExitsOf(t.intent)' = S
          /\ \A k \in S : /\ AttemptHolds(t, k)'
                        /\ fills'[k].decision.ambiguous = position.ambiguous
          /\ Max(S) = n
          /\ LeftAfter(t, S)' = f.requested - f.filled
          /\ fills'[n] = f /\ n \notin Attempts
<1>1. /\ TypeOK /\ position # None /\ position.decision # None
  BY AtFill
<1>2. /\ f.intent = position.intent /\ f.decision = position.decision
      /\ setup' = setup /\ ~IsEntry(f) /\ t.intent = position.intent
  BY CurrentFields DEF Tried, Answers, Alike, IsEntry
<1>3. AttemptsHold /\ DecisionTold
  BY <1>1 DEF Story, Filling
<1>4. ExitsOf(t.intent)' = Attempts \cup {n} /\ fills'[n] = f
  BY <1>1, <1>2, AppendedParts DEF Appended, Attempts
<1>5. AttemptHolds(t, n)' /\ fills'[n].decision.ambiguous = position.ambiguous
  BY <1>1, <1>2, <1>3, <1>4, AttemptFollows DEF DecisionTold
<1>6. Attempts \subseteq DOMAIN fills
  BY <1>1, AttemptsOf DEF Attempts
<1>7. ASSUME NEW k \in Attempts
      PROVE  AttemptHolds(t, k)' /\ fills'[k].decision.ambiguous = position.ambiguous
  <2>1. AttemptHolds(t, k) /\ k \in DOMAIN fills
    BY <1>3, <1>6, AlikeHolds DEF AttemptsHold
  <2>2. AttemptHolds(t, k)'
    BY <1>1, <1>2, <2>1, AttemptStays
  <2> QED BY <1>3, <2>1, <2>2 DEF AttemptsHold, Appended
<1>8. Max(Attempts \cup {n}) = n
  <2>1. Attempts \in SUBSET (1..Len(fills)) /\ Len(fills) \in Nat /\ n = Len(fills) + 1
    BY <1>6 DEF Appended
  <2> QED BY <2>1, MaxOfMore
<1>9. LeftAfter(t, S)' = f.requested - f.filled
  BY <1>4, <1>8 DEF LeftAfter
<1>10. n \notin Attempts
  BY <1>6 DEF Appended
<1> QED BY <1>4, <1>5, <1>7, <1>8, <1>9, <1>10

LEMMA StoryExits ==
    ASSUME IInv, EntriesTold, Story, Filling, NEW f \in Fill, NEW next \in {"entries", "open"},
           Tried(f, next)
    PROVE Story'
<1> SUFFICES ASSUME position' # None, pc' # "illiquid" PROVE Story'
  BY DEF Story
<1> DEFINE n == Len(fills) + 1
<1>1. /\ TypeOK /\ Appended(f, n) /\ ~IsEntry(f) /\ position # None
      /\ f.intent = position.intent /\ f.candle = index /\ f.decision = position.decision
      /\ position.decision \in Decision /\ index \in Nat /\ position.sequence \in Nat
      /\ setup' = setup
  BY AppendedFill, AtFill, PositionFields DEF Tried, Answers, IInv, IsEntry
<1>2. /\ position'.intent = position.intent /\ position'.entry = position.entry
      /\ position'.reason = position.reason /\ position'.ambiguous = position.ambiguous
      /\ position'.sequence = position.sequence /\ position'.pending = TRUE
      /\ position'.remaining = f.requested - f.filled
      /\ position'.decision \in {None, position.decision}
      /\ exit' = Schedule(f.at, index + 1) /\ exit' # None
      /\ pc' = next
  <2>1. f.filled # f.requested
    BY DEF Tried, Ended
  <2> QED BY <2>1 DEF Tried, Retried
<1>3. PICK u : u = Current'
  OBVIOUS
<1>4. Alike(Current, u) /\ u.intent = position.intent
  <2>1. \A i \in Entered : EntryFilled(i)' = EntryFilled(i)
    <3> HIDE DEF n
    <3> QED BY <1>1, EntriesStay
  <2>2. position.intent \in Entered
    BY <1>1 DEF EntriesTold, HeldIntents
  <2> QED BY <1>2, <1>3, <2>1, <2>2 DEF Current, Closed, Alike, Opens
<1>5. PICK S : S = Attempts \cup {n}
  OBVIOUS
<1> HIDE DEF n
<1>6. /\ ExitsOf(u.intent)' = S
      /\ \A k \in S : AttemptHolds(u, k)' /\ fills'[k].decision.ambiguous = position.ambiguous
      /\ Max(S) = n /\ LeftAfter(u, S)' = f.requested - f.filled
      /\ fills'[n] = f
  BY <1>1, <1>4, <1>5, AttemptsFollow
<1>7. Attempts' = S /\ S # {}
  BY <1>2, <1>4, <1>5, <1>6 DEF Attempts
<1>8. Newest' = f
  BY <1>6, <1>7 DEF Newest
<1>9. AttemptsHold'
  <2>1. \A k \in S : AttemptHolds(Current, k)'
    BY <1>3, <1>6 DEF AttemptHolds, ApplicationDecision, LeftAfter, NominalTimeout
  <2>2. LeftAfter(Current, Attempts)' = f.requested - f.filled
    BY <1>3, <1>6, <1>7 DEF LeftAfter
  <2> QED BY <1>2, <1>6, <1>7, <2>1, <2>2 DEF AttemptsHold
<1>10. DecisionTold'
  <2>1. DecisionTold /\ position.decision # None
    BY <1>1, AtFill DEF Story, Filling
  <2>2. ~ Filling'
    BY <1>2 DEF Filling
  <2>3. /\ position.decision.sequence = position.sequence
        /\ position.decision.reason = position.reason
        /\ position.decision.ambiguous = position.ambiguous
    BY <2>1 DEF DecisionTold
  <2> QED BY <1>1, <1>2, <1>8, <2>2, <2>3 DEF DecisionTold
<1>11. RestingTold'
  BY <1>2 DEF RestingTold
<1>12. ScheduleTold'
  <2>1. AskedAt' = f.at
    BY <1>7, <1>8 DEF AskedAt
  <2>2. /\ exit'.decided = f.at /\ exit'.eligible = f.at + setup.exitLatency
        /\ exit'.ready = Max2(IndexAt(f.at + setup.exitLatency), f.candle + 1)
    BY <1>1, <1>2 DEF Schedule
  <2>3. pc' # "application"
    BY <1>2
  <2> QED BY <1>1, <1>2, <1>7, <1>8, <2>1, <2>2, <2>3 DEF ScheduleTold, IndexAt, Max2
<1> QED BY <1>9, <1>10, <1>11, <1>12 DEF Story

----------------------------------------------------------------------------
(* The trades.                                                             *)

LEMMA ExitsStay ==
    ASSUME TypeOK, NEW f \in Fill, NEW n, Appended(f, n), setup' = setup,
           NEW t, IsEntry(f) \/ f.intent # t.intent, ExitsHold(t)
    PROVE ExitsHold(t)'
<1>1. PICK S : S = ExitsOf(t.intent)
  OBVIOUS
<1>2. ExitsOf(t.intent)' = S /\ S \subseteq DOMAIN fills /\ S # {}
  BY <1>1, AppendedParts, AttemptsOf DEF ExitsHold
<1>3. \A k \in S : AttemptHolds(t, k)'
  BY <1>1, <1>2, AttemptStays DEF ExitsHold
<1>4. LeftAfter(t, S)' = 0
  BY <1>1, <1>2, LeftStays DEF ExitsHold
<1>5. Max(S) \in S /\ \A k \in S : fills'[k] = fills[k]
  <2>1. S \in SUBSET (1..Len(fills)) /\ Len(fills) \in Nat
    BY <1>2 DEF Appended
  <2> QED BY <1>2, <2>1, MaxIsIn DEF Appended
<1>6. fills[Max(S)].at = t.exit /\ t.ambiguous = \E k \in S : fills[k].decision.ambiguous
  BY <1>1 DEF ExitsHold
<1>7. LeftAfter(t, ExitsOf(t.intent))' = 0
  BY <1>2, <1>4 DEF LeftAfter
<1> QED BY <1>2, <1>3, <1>5, <1>6, <1>7 DEF ExitsHold

LEMMA TradesSame ==
    ASSUME TradesTold, UNCHANGED <<setup, fills, trades>>
    PROVE TradesTold'
<1>1. /\ \A i : ExitsOf(i)' = ExitsOf(i)
      /\ \A t, S : LeftAfter(t, S)' = LeftAfter(t, S)
  BY SameFills
<1>2. ASSUME NEW t, ExitsHold(t) PROVE ExitsHold(t)'
  <2>1. \A k : AttemptHolds(t, k)' <=> AttemptHolds(t, k)
    BY SameAttempt
  <2>2. PICK S : S = ExitsOf(t.intent)
    OBVIOUS
  <2>3. ExitsOf(t.intent)' = S /\ LeftAfter(t, S)' = LeftAfter(t, S)
    BY <1>1, <2>2
  <2>4. LeftAfter(t, ExitsOf(t.intent))' = LeftAfter(t, S)
    BY <2>3 DEF LeftAfter
  <2> QED BY <1>2, <2>1, <2>2, <2>3, <2>4 DEF ExitsHold
<1>3. ClosedTrades' = ClosedTrades
  BY DEF ClosedTrades
<1> QED BY <1>2, <1>3 DEF TradesTold

LEMMA TradesGrow ==
    ASSUME IInv, TradesTold, NEW f \in Fill, NEW n, Appended(f, n), setup' = setup, trades' = trades,
           IsEntry(f) \/ f.intent \notin ClosedIntents
    PROVE TradesTold'
<1>1. ASSUME NEW t \in ClosedTrades PROVE ExitsHold(t)'
  <2>1. IsEntry(f) \/ f.intent # t.intent
    BY DEF ClosedTrades, ClosedIntents
  <2> QED BY <2>1, ExitsStay DEF TradesTold, IInv
<1>2. ClosedTrades' = ClosedTrades
  BY DEF ClosedTrades
<1> QED BY <1>1, <1>2 DEF TradesTold

LEMMA TradesExit ==
    ASSUME IInv, TradesTold, Story, Filling, NEW f \in Fill, NEW next, Tried(f, next)
    PROVE TradesTold'
<1> DEFINE n == Len(fills) + 1
<1>1. /\ TypeOK /\ Appended(f, n) /\ ~IsEntry(f) /\ position # None
      /\ f.intent = position.intent /\ setup' = setup
      /\ position.intent \notin ClosedIntents
  BY AppendedFill, AtFill DEF Tried, Answers, IInv, IsEntry, OnePositionAtATime
<1>2. CASE f.filled # f.requested
  <2>1. trades' = trades
    BY <1>2 DEF Tried, Retried
  <2> HIDE DEF n
  <2> QED BY <1>1, <2>1, TradesGrow
<1>3. CASE f.filled = f.requested
  <2>1. PICK t \in Trade : Became(t, f) /\ Closing(t)
    BY <1>3, EndsTrade DEF Tried
  <2>2. PICK S : S = Attempts \cup {n}
    OBVIOUS
  <2>3. Alike(Current, t) /\ t.intent = position.intent
    BY <2>1, CurrentFields DEF Became, Alike
  <2> HIDE DEF n
  <2>4. /\ ExitsOf(t.intent)' = S
        /\ \A k \in S : AttemptHolds(t, k)' /\ fills'[k].decision.ambiguous = position.ambiguous
        /\ Max(S) = n /\ LeftAfter(t, S)' = f.requested - f.filled
        /\ fills'[n] = f
    BY <1>1, <2>2, <2>3, AttemptsFollow
  <2>5. f.requested - f.filled = 0
    BY <1>3 DEF Fill
  <2>6. ExitsHold(t)'
    <3>1. LeftAfter(t, ExitsOf(t.intent))' = 0
      BY <2>4, <2>5 DEF LeftAfter
    <3>2. t.ambiguous = position.ambiguous /\ t.exit = f.at
      BY <2>1 DEF Became
    <3>3. t.ambiguous = \E k \in S : fills'[k].decision.ambiguous
      <4>1. position.ambiguous \in BOOLEAN /\ n \in S
        BY <1>1, <2>2, PositionFields
      <4> QED BY <2>4, <3>2, <4>1
    <3> QED BY <2>2, <2>4, <3>1, <3>2, <3>3 DEF ExitsHold
  <2>7. ASSUME NEW u \in ClosedTrades PROVE ExitsHold(u)'
    <3>1. f.intent # u.intent
      BY <1>1 DEF ClosedTrades, ClosedIntents
    <3> QED BY <1>1, <3>1, ExitsStay DEF TradesTold
  <2>8. ClosedTrades' = ClosedTrades \cup {t}
    BY <2>1 DEF ClosedTrades, Closing
  <2> QED BY <2>6, <2>7, <2>8 DEF TradesTold
<1> QED BY <1>2, <1>3

----------------------------------------------------------------------------
(* The charges.                                                            *)

LEMMA ChargeFields ==
    ASSUME TypeOK
    PROVE /\ \A c \in Charges : c \in Charge /\ c.at \in Nat
          /\ \A k \in DOMAIN funding : funding[k] \in Charges
          /\ funding \in Seq(Charge)
<1>1. funding \in Seq(Charge)
  BY DEF TypeOK
<1>2. \A k \in DOMAIN funding : funding[k] \in Charge
  BY <1>1
<1>3. \A c \in Charge : c.at \in Nat
  BY DEF Charge
<1> QED BY <1>1, <1>2, <1>3 DEF Charges

\* A fill after a charge changes nothing of it.
LEMMA ChargedStays ==
    ASSUME TypeOK, NEW f \in Fill, NEW n, Appended(f, n),
           NEW c \in Charge, c.at <= f.at
    PROVE /\ \A t : PaidBy(t, c) => PaidBy(t, c)'
          /\ \A i : Before(i, c.at)' = Before(i, c.at)
          /\ \A t, i : LeftAfter(t, Before(i, c.at))' = LeftAfter(t, Before(i, c.at))
<1>1. c.at \in Nat /\ f.at \in Nat /\ ~ (f.at < c.at)
  BY DEF Charge, Fill
<1>2. \A i : Before(i, c.at)' = Before(i, c.at)
  <2>1. SUFFICES ASSUME NEW i PROVE Before(i, c.at)' = Before(i, c.at)
    OBVIOUS
  <2>2. Before(i, c.at)' = {m \in ExitsOf(i)' : fills'[m].at < c.at}
    BY DEF Before
  <2>3. ExitsOf(i)' = ExitsOf(i) \/ ExitsOf(i)' = ExitsOf(i) \cup {n}
    BY AppendedParts
  <2>4. fills'[n] = f /\ \A m \in ExitsOf(i) : fills'[m] = fills[m]
    BY AttemptsOf DEF Appended
  <2> QED BY <1>1, <2>2, <2>3, <2>4 DEF Before
<1>3. \A i : Before(i, c.at) \in SUBSET DOMAIN fills
  BY AttemptsOf DEF Before
<1>4. ASSUME NEW t, NEW i
      PROVE  LeftAfter(t, Before(i, c.at))' = LeftAfter(t, Before(i, c.at))
  <2>1. PICK S : S = Before(i, c.at)
    OBVIOUS
  <2>2. LeftAfter(t, S)' = LeftAfter(t, S)
    BY <1>3, <2>1, LeftStays
  <2> QED BY <1>2, <2>1, <2>2 DEF LeftAfter
<1> QED BY <1>2, <1>4 DEF PaidBy

LEMMA ChargedSame ==
    ASSUME fills' = fills
    PROVE /\ \A t, c : PaidBy(t, c)' <=> PaidBy(t, c)
          /\ \A i, at : Before(i, at)' = Before(i, at)
<1>1. /\ \A i : ExitsOf(i)' = ExitsOf(i)
      /\ \A t, S : LeftAfter(t, S)' = LeftAfter(t, S)
  BY SameFills
<1>2. \A i, at : Before(i, at)' = Before(i, at)
  BY <1>1 DEF Before
<1>3. ASSUME NEW t, NEW c PROVE PaidBy(t, c)' <=> PaidBy(t, c)
  <2>1. PICK S : S = Before(t.intent, c.at)
    OBVIOUS
  <2>2. Before(t.intent, c.at)' = S
    BY <1>2, <2>1
  <2>3. LeftAfter(t, Before(t.intent, c.at))' = LeftAfter(t, S)
    BY <2>2 DEF LeftAfter
  <2> QED BY <2>1, <2>3 DEF PaidBy
<1> QED BY <1>2, <1>3

LEMMA ChargeStill ==
    ASSUME SameHeld, UNCHANGED <<fills, trades>>, NEW c, ChargeTold(c)
    PROVE ChargeTold(c)'
<1>1. /\ \A t : PaidBy(t, c)' <=> PaidBy(t, c)
      /\ \A i : Before(i, c.at)' = Before(i, c.at)
  BY ChargedSame
<1>2. CASE \E t \in ClosedTrades : PaidBy(t, c)
  <2>1. ClosedTrades' = ClosedTrades
    BY DEF ClosedTrades
  <2> QED BY <1>1, <1>2, <2>1 DEF ChargeTold
<1>3. CASE ChargedHere(c)
  <2>1. /\ position # None /\ position' # None
        /\ position'.intent = position.intent /\ position'.entry = position.entry
    BY <1>3 DEF ChargedHere, SameHeld
  <2>2. Current'.quantity = Current.quantity
    <3>1. \A i : EntryFilled(i)' = EntryFilled(i)
      BY SameFills
    <3> QED BY <2>1, <3>1 DEF Current, Closed
  <2>3. Before(position.intent, c.at)' = Before(position.intent, c.at)
    BY <1>1, <2>1 DEF Before, ExitsOf
  <2>4. LeftAfter(Current, Before(position.intent, c.at))'
          = LeftAfter(Current, Before(position.intent, c.at))
    BY <2>2, <2>3 DEF LeftAfter
  <2> QED BY <1>3, <2>1, <2>4 DEF ChargedHere, ChargeTold, Opens
<1> QED BY <1>2, <1>3 DEF ChargeTold

\* The times of the charges, when no charge is made.
LEMMA ChargesKept ==
    ASSUME TypeOK, ChargesTold, funding' = funding,
           \A c \in Charges : ChargeTold(c)',
           \/ index' = index /\ (pc' = "open" => pc = "open")
           \/ index' = index + 1
    PROVE ChargesTold'
<1>1. index \in Nat /\ \A c \in Charges : c.at \in Nat
  BY ChargeFields, FillTimes
<1>2. Charges' = Charges
  BY DEF Charges
<1>3. \A c \in Charges : c.at <= Opens(index)' /\ (pc' = "open" => c.at < Opens(index)')
  <2>1. \A c \in Charges : c.at <= Opens(index) /\ (pc = "open" => c.at < Opens(index))
    BY DEF ChargesTold
  <2>2. CASE index' = index /\ (pc' = "open" => pc = "open")
    BY <2>1, <2>2 DEF Opens
  <2>3. CASE index' = index + 1
    <3>1. Opens(index)' = Opens(index) + 2 /\ Opens(index) \in Nat
      BY <1>1, <2>3 DEF Opens
    <3> QED BY <1>1, <2>1, <3>1
  <2> QED BY <2>2, <2>3
<1> QED BY <1>2, <1>3 DEF ChargesTold

\* A settlement at this open is charged to the position that holds over it.
LEMMA ChargesStart ==
    ASSUME IInv, LedgerEnds, EntriesTold, Story, ChargesTold, Quiet, Starts
    PROVE ChargesTold'
<1>1. /\ TypeOK /\ index \in Nat /\ index' = index /\ pc = "open" /\ pc' # "open"
      /\ SettleFunding /\ SameHeld /\ UNCHANGED <<setup, fills, trades>>
  BY FillTimes DEF IInv, Starts, Quiet
<1>2. \A c \in Charges : ChargeTold(c)'
  BY <1>1, ChargeStill DEF ChargesTold
<1>3. CASE funding' = funding
  BY <1>1, <1>2, <1>3, ChargesKept
<1>4. CASE position # None /\ funding' = Append(funding,
             [intent |-> position.intent, at |-> Opens(index), quantity |-> position.remaining])
  <2> DEFINE n == Len(funding) + 1
  <2>0. PICK c : c = [intent |-> position.intent, at |-> Opens(index),
                      quantity |-> position.remaining]
    OBVIOUS
  <2>1. c \in Charge /\ c.at = Opens(index) /\ c.intent = position.intent
        /\ c.quantity = position.remaining
    BY <1>1, <1>4, <2>0, PositionFields DEF Charge, Opens
  <2>2. /\ DOMAIN funding' = DOMAIN funding \cup {n} /\ Len(funding') = n /\ Len(funding) \in Nat
        /\ funding'[n] = c /\ \A k \in 1..Len(funding) : funding'[k] = funding[k]
        /\ DOMAIN funding = 1..Len(funding)
    <3>1. funding' = Append(funding, c) /\ funding \in Seq(Charge)
      BY <1>1, <1>4, <2>0, ChargeFields
    <3> QED BY <2>1, <3>1, AppendedLast
  <2>3. Before(position.intent, c.at) = Attempts
    <3>1. \A k \in Attempts : fills[k].at < Opens(index)
      BY <1>1, AttemptsOf DEF LedgerEnds, Attempts
    <3> QED BY <2>1, <3>1 DEF Before, Attempts
  <2>4. Opens(position.entry) < c.at
    <3>1. position.intent \in Entered /\ EntryTold(Current)
      BY <1>4 DEF EntriesTold, HeldIntents
    <3>2. PICK k \in EntriesOf(position.intent) : TRUE
      BY <3>1 DEF EntriesTold
    <3>3. Opens(position.entry) = fills[k].at
      BY <3>1, <3>2, CurrentFields DEF EntryTold
    <3>4. k \in DOMAIN fills
      BY <3>2 DEF EntriesOf
    <3> QED BY <1>1, <2>1, <3>3, <3>4 DEF LedgerEnds
  <2>5. ChargedHere(c)
    <3>1. position.remaining = LeftAfter(Current, Attempts)
      BY <1>1, <1>4 DEF Story, AttemptsHold
    <3> QED BY <1>4, <2>1, <2>3, <2>4, <3>1 DEF ChargedHere
  <2>6. ChargeTold(c)'
    BY <1>1, <2>5, ChargeStill DEF ChargeTold
  <2>7. Charges' = Charges \cup {c}
    BY <2>2 DEF Charges
  <2>8. Opens(index)' = Opens(index)
    BY <1>1 DEF Opens
  <2>9. \A k \in 2..Len(funding') : funding'[k - 1].at <= funding'[k].at
    <3>1. \A k \in DOMAIN funding : funding[k].at <= Opens(index)
      BY <1>1, ChargeFields DEF ChargesTold
    <3>2. ASSUME NEW k \in 2..n PROVE funding'[k - 1].at <= funding'[k].at
      <4>1. CASE k = n
        <5>1. k - 1 \in 1..Len(funding)
          BY <2>2, <4>1
        <5> QED BY <2>1, <2>2, <3>1, <4>1, <5>1
      <4>2. CASE k # n
        <5>1. k \in 2..Len(funding) /\ k \in 1..Len(funding) /\ k - 1 \in 1..Len(funding)
          BY <2>2, <4>2
        <5> HIDE DEF n
        <5> QED BY <2>2, <5>1 DEF ChargesTold
      <4> QED BY <4>1, <4>2
    <3> QED BY <2>2, <3>2
  <2>10. \A x \in Charges \cup {c} : ChargeTold(x)' /\ x.at <= Opens(index)
    <3>1. Opens(index) <= Opens(index)
      BY <1>1 DEF Opens
    <3> QED BY <1>2, <2>1, <2>6, <3>1 DEF ChargesTold
  <2> QED BY <1>1, <2>7, <2>8, <2>9, <2>10 DEF ChargesTold
<1> QED BY <1>1, <1>3, <1>4 DEF SettleFunding

LEMMA ChargesQuiet ==
    ASSUME IInv, LedgerEnds, EntriesTold, Story, ChargesTold, Quiet, Goes
    PROVE ChargesTold'
<1>1. TypeOK /\ SameHeld /\ UNCHANGED <<fills, trades>>
  BY DEF IInv, Quiet
<1>2. CASE Starts
  BY <1>2, ChargesStart
<1>3. CASE ~Starts
  <2>1. funding' = funding
        /\ \/ index' = index /\ (pc' = "open" => pc = "open")
           \/ index' = index + 1
    BY <1>3 DEF Goes, Stays, Ends, Consumes, Settles
  <2> QED BY <1>1, <2>1, ChargeStill, ChargesKept DEF ChargesTold
<1> QED BY <1>2, <1>3

LEMMA ChargesEnter ==
    ASSUME IInv, ChargesTold, NEW i, NEW f \in Fill, Begins(i, f)
    PROVE ChargesTold'
<1> DEFINE n == Len(fills) + 1
<1>1. /\ TypeOK /\ Appended(f, n) /\ position = None /\ trades' = trades /\ funding' = funding
      /\ f.at = Opens(index) /\ index' = index /\ pc' = pc
  BY AppendedFill DEF Begins, IInv
<1>2. ASSUME NEW c \in Charges PROVE ChargeTold(c)'
  <2>1. c \in Charge /\ c.at <= f.at
    BY <1>1, ChargeFields DEF ChargesTold
  <2>2. PICK t \in ClosedTrades : PaidBy(t, c)
    BY <1>1 DEF ChargesTold, ChargeTold, ChargedHere
  <2>3. PaidBy(t, c)'
    <3> HIDE DEF n
    <3> QED BY <1>1, <2>1, <2>2, ChargedStays
  <2>4. t \in ClosedTrades'
    BY <1>1 DEF ClosedTrades
  <2> QED BY <2>3, <2>4 DEF ChargeTold
<1> QED BY <1>1, <1>2, ChargesKept

LEMMA ChargesExit ==
    ASSUME IInv, EntriesTold, ChargesTold, Filling, NEW f \in Fill,
           NEW next \in {"entries", "open"}, Tried(f, next)
    PROVE ChargesTold'
<1> DEFINE n == Len(fills) + 1
<1>1. /\ TypeOK /\ Appended(f, n) /\ ~IsEntry(f) /\ position # None /\ funding' = funding
      /\ index \in Nat /\ f.at \in {Opens(index), Closes(index)}
  BY AppendedFill, AtFill DEF Tried, Answers, IInv, IsEntry
<1>2. \/ index' = index /\ (pc' = "open" => pc = "open")
      \/ index' = index + 1
  BY DEF Tried, Ended, Retried
<1>3. ASSUME NEW c \in Charges PROVE ChargeTold(c)'
  <2>1. c \in Charge /\ c.at <= f.at
    <3>1. c \in Charge /\ c.at \in Nat /\ c.at <= Opens(index)
      BY <1>1, ChargeFields DEF ChargesTold
    <3> QED BY <1>1, <3>1 DEF Opens, Closes
  <2> HIDE DEF n
  <2>2. /\ \A t : PaidBy(t, c) => PaidBy(t, c)'
        /\ \A i : Before(i, c.at)' = Before(i, c.at)
        /\ \A t, i : LeftAfter(t, Before(i, c.at))' = LeftAfter(t, Before(i, c.at))
    BY <1>1, <2>1, ChargedStays
  <2>3. CASE f.filled = f.requested
    <3>1. PICK u \in Trade : Became(u, f) /\ Closing(u)
      BY <2>3, EndsTrade DEF Tried
    <3>2. ClosedTrades' = ClosedTrades \cup {u}
      BY <3>1 DEF ClosedTrades, Closing
    <3>3. CASE \E t \in ClosedTrades : PaidBy(t, c)
      BY <2>2, <3>2, <3>3 DEF ChargeTold
    <3>4. CASE ChargedHere(c)
      <4>1. PaidBy(u, c)
        BY <2>1, <3>1, <3>4, CurrentFields DEF ChargedHere, PaidBy, Became, LeftAfter
      <4> QED BY <2>2, <3>2, <4>1 DEF ChargeTold
    <3> QED BY <3>3, <3>4 DEF ChargesTold, ChargeTold
  <2>4. CASE f.filled # f.requested
    <3>1. /\ position' # None /\ position'.intent = position.intent
          /\ position'.entry = position.entry /\ trades' = trades
      BY <2>4 DEF Tried, Retried
    <3>2. ClosedTrades' = ClosedTrades
      BY <3>1 DEF ClosedTrades
    <3>3. CASE \E t \in ClosedTrades : PaidBy(t, c)
      BY <2>2, <3>2, <3>3 DEF ChargeTold
    <3>4. CASE ChargedHere(c)
      <4>1. Current'.quantity = Current.quantity
        <5>1. \A i \in Entered : EntryFilled(i)' = EntryFilled(i)
          BY <1>1, EntriesStay
        <5>2. position.intent \in Entered
          BY <1>1 DEF EntriesTold, HeldIntents
        <5> QED BY <3>1, <5>1, <5>2 DEF Current, Closed
      <4>2. PICK t, i : t = Current /\ i = position.intent
        OBVIOUS
      <4>3. PICK S : S = Before(i, c.at)
        OBVIOUS
      <4>4. LeftAfter(t, S)' = LeftAfter(t, S)
        <5>1. Before(i, c.at)' = S /\ LeftAfter(t, Before(i, c.at))' = LeftAfter(t, S)
          BY <2>2, <4>3
        <5> QED BY <5>1 DEF LeftAfter
      <4>5. Before(position.intent, c.at)' = S
        BY <2>2, <3>1, <4>2, <4>3 DEF Before, ExitsOf
      <4>6. LeftAfter(Current, Before(position.intent, c.at))' = LeftAfter(t, S)
        BY <4>1, <4>2, <4>4, <4>5 DEF LeftAfter
      <4>7. Opens(position.entry)' = Opens(position.entry)
        BY <3>1 DEF Opens
      <4> QED BY <3>1, <3>4, <4>2, <4>3, <4>6, <4>7 DEF ChargedHere, ChargeTold
    <3> QED BY <3>3, <3>4 DEF ChargesTold, ChargeTold
  <2> QED BY <2>3, <2>4
<1> QED BY <1>1, <1>2, <1>3, ChargesKept

----------------------------------------------------------------------------
(* Every step keeps the invariant.                                         *)

LEMMA ReplayInit == ASSUME Init PROVE ReplayInv
<1>1. IInv
  BY InitInv
<1>2. /\ pc = "open" /\ index = 0 /\ position = None /\ fills = <<>> /\ funding = <<>>
      /\ trades = <<>>
      /\ dispositions = [i \in Intents |-> IF EntryIndex(i) >= Candles THEN Unscheduled(i)
                                           ELSE None]
  BY DEF Init
<1>3. CapacityLedgerHolds /\ LedgerEnds /\ Outside /\ Story
  BY <1>2 DEF CapacityLedgerHolds, LedgerEnds, Running, Outside, Story
<1>4. TradesTold /\ ChargesTold
  BY <1>2 DEF TradesTold, ClosedTrades, ChargesTold, Charges
<1>5. \A i \in Intents : EntryIndex(i) \in Nat
  BY <1>1, IntentTimes DEF IInv
<1>6. \A i \in Intents : /\ EntryIndex(i) >= Candles => dispositions[i] = Unscheduled(i)
                         /\ ~ (EntryIndex(i) >= Candles) => dispositions[i] = None
  BY <1>2
<1>7. \A i \in Intents : Unscheduled(i) # None
  BY <1>1, <1>6, NoneIsNoValue DEF IInv, TypeOK, Unscheduled, Disposition, Rejections
<1>8. Considered
  BY <1>2, <1>5, <1>6, <1>7, CellBounds DEF Considered
<1>9. DispositionsTold
  <2> SUFFICES ASSUME NEW i \in Intents, dispositions[i] # None PROVE Told(i)
    BY DEF DispositionsTold
  <2>1. EntryIndex(i) >= Candles /\ dispositions[i] = Unscheduled(i)
    BY <1>6
  <2>2. EntryIndex(i) > LastOpen
    BY <1>5, <2>1, CellBounds DEF LastOpen
  <2>3. ScheduledReason(i) = Unscheduled(i).reason /\ ScheduledReason(i) # "OPEN"
    BY <2>2 DEF ScheduledReason, Unscheduled
  <2> QED BY <2>1, <2>3 DEF Told
<1>10. EntriesTold
  <2>1. \A i \in Intents : Unscheduled(i).reason # "ENTERED"
    BY DEF Unscheduled
  <2>2. Entered = {}
    BY <1>6, <2>1 DEF Entered
  <2> QED BY <1>2, <2>2 DEF EntriesTold, ClosedIntents, HeldIntents
<1> QED BY <1>1, <1>3, <1>4, <1>8, <1>9, <1>10 DEF ReplayInv

LEMMA ReplayQuiet ==
    ASSUME OpenStops = FALSE, ReplayInv, QuietStep
    PROVE ReplayInv'
<1> USE DEF ReplayInv
<1>1. Quiet /\ Goes
  BY QuietTells DEF QuietStep
<1>2. IInv'
  BY StepInv DEF QuietStep, Next
<1>3. TypeOK /\ UNCHANGED <<setup, dispositions, fills, trades>>
  BY <1>1 DEF IInv, Quiet
<1>4. CapacityLedgerHolds'
  BY <1>3 DEF CapacityLedgerHolds
<1>5. LedgerEnds' /\ Considered'
  BY <1>1, <1>3, LedgerGoes, ConsideredGoes
<1>6. EntriesTold' /\ DispositionsTold' /\ TradesTold'
  BY <1>1, <1>3, EntriesQuiet, DispositionsQuiet, TradesSame
<1>7. Story' /\ Outside'
  BY StoryQuiet
<1>8. ChargesTold'
  BY <1>1, ChargesQuiet
<1> QED BY <1>2, <1>4, <1>5, <1>6, <1>7, <1>8

LEMMA ReplayRejects ==
    ASSUME ReplayInv, NEW i \in Intents, RejectEarly(i) \/ RejectPriced(i)
    PROVE ReplayInv'
<1> USE DEF ReplayInv
<1>1. PICK d \in Disposition : Rejects(i, d)
  BY RejectTells
<1>2. IInv' /\ TypeOK
  BY RejectInv DEF IInv
<1>3. /\ pc = "entries" /\ index < Candles /\ DisposedNow(i, d) /\ d.reason # "ENTERED"
      /\ UNCHANGED <<setup, pc, index, volume, capacity, position, exit, fills, funding, trades>>
  BY <1>1 DEF Rejects, RejectedAs
<1>4. CapacityLedgerHolds' /\ Outside'
  BY <1>3 DEF CapacityLedgerHolds, Outside
<1>5. LedgerEnds' /\ Considered'
  BY <1>2, <1>3, LedgerGoes, ConsideredNow DEF Goes, Stays
<1>6. EntriesTold' /\ DispositionsTold' /\ TradesTold'
  BY <1>1, <1>3, EntriesReject, DispositionsReject, TradesSame
<1>7. Story'
  BY <1>3, StoryStays
<1>8. ChargesTold'
  BY <1>2, <1>3, ChargeStill, ChargesKept DEF SameHeld, ChargesTold
<1> QED BY <1>2, <1>4, <1>5, <1>6, <1>7, <1>8

LEMMA ReplayEnters ==
    ASSUME ReplayInv, NEW i \in Intents, Enter(i)
    PROVE ReplayInv'
<1> USE DEF ReplayInv
<1>1. PICK f \in Fill, d \in Disposition : Begins(i, f) /\ DisposedNow(i, d) /\ EnteredAs(i, f, d)
  BY EnterTells
<1>2. IInv' /\ TypeOK
  BY EnterInv DEF IInv
<1>3. PICK n : n = Len(fills) + 1
  OBVIOUS
<1>4. Appended(f, n)
  BY <1>1, <1>2, <1>3, AppendedFill DEF Begins
<1>5. /\ pc = "entries" /\ index < Candles /\ f.candle = index /\ f.at = Opens(index)
      /\ f.before = capacity /\ f.volume = volume /\ f.filled = Min2(f.requested, f.before)
      /\ capacity' = f.after /\ volume' = f.volume /\ IsEntry(f)
      /\ UNCHANGED <<setup, pc, index, funding, trades>>
  BY <1>1 DEF Begins, IsEntry
<1>6. FillIsCausal(f)
  BY <1>1, <1>2, EntryIsCausal DEF DisposedNow
<1>7. CapacityLedgerHolds'
  BY <1>2, <1>4, <1>5, <1>6, CapacityShared DEF Running
<1>8. LedgerEnds'
  BY <1>2, <1>4, <1>5, LedgerFills DEF Running
<1>9. Considered' /\ Outside'
  BY <1>1, <1>2, <1>5, ConsideredNow DEF Outside
<1>10. EntriesTold' /\ DispositionsTold' /\ ChargesTold'
  BY <1>1, EntriesEnter, DispositionsEnter, ChargesEnter
<1>11. Story'
  BY <1>1, <1>10, StoryEnters
<1>12. TradesTold'
  BY <1>4, <1>5, TradesGrow
<1> QED BY <1>2, <1>7, <1>8, <1>9, <1>10, <1>11, <1>12

LEMMA ReplayExits ==
    ASSUME OpenStops = FALSE, ReplayInv, FillAtOpen \/ FillApplicationExit \/ FillLast
    PROVE ReplayInv'
<1> USE DEF ReplayInv
<1>1. Filling /\ \E f \in Fill, next \in {"entries", "open"} : Tried(f, next)
  BY ExitTells
<1>2. PICK f \in Fill, next \in {"entries", "open"} : Tried(f, next)
  BY <1>1
<1>3. IInv' /\ TypeOK
  BY FillInv DEF IInv
<1>4. PICK n : n = Len(fills) + 1
  OBVIOUS
<1>5. /\ fills' = Append(fills, f) /\ f.candle = index
      /\ f.before = capacity /\ f.volume = volume /\ f.filled = Min2(f.requested, f.before)
      /\ capacity' = f.after /\ volume' = f.volume /\ ~IsEntry(f)
      /\ UNCHANGED <<setup, dispositions>>
      /\ f.at = position.decision.from
  BY <1>2 DEF Tried, Answers, IsEntry
<1>6. Appended(f, n)
  BY <1>3, <1>4, <1>5, AppendedFill
<1>7. /\ IF pc = "last" THEN pc' \in {"open", "illiquid"} /\ index' = index + 1 /\ next = "open"
         ELSE pc' \in {"entries", "illiquid"} /\ index' = index /\ f.at = Opens(index)
  BY <1>2 DEF Tried, Ended, Retried
<1>8. FillIsCausal(f) /\ Running
  BY <1>1, <1>2, ExitIsCausal DEF Filling, Running
<1>9. CapacityLedgerHolds'
  BY <1>3, <1>5, <1>6, <1>8, CapacityShared
<1>10. LedgerEnds'
  <2>1. f.at \in Opens(index)..Closes(index)
    BY <1>5, <1>8 DEF FillIsCausal
  <2>2. CASE pc' = "illiquid" /\ pc = "last"
    <3>1. /\ index \in Nat /\ \A k \in DOMAIN fills : /\ fills[k].candle \in Nat
                                                      /\ fills[k].at \in Nat
      BY <1>3, FillTimes
    <3>2. \A k \in DOMAIN fills' : fills'[k].candle <= index + 1
      <4>1. \A k \in DOMAIN fills' : (k \in DOMAIN fills /\ fills'[k] = fills[k]) \/ fills'[k] = f
        BY <1>6 DEF Appended
      <4> QED BY <1>5, <3>1, <4>1 DEF LedgerEnds
    <3> QED BY <1>7, <2>2, <3>2 DEF LedgerEnds, Running
  <2>3. CASE ~ (pc' = "illiquid" /\ pc = "last")
    BY <1>3, <1>5, <1>6, <1>7, <1>8, <2>1, <2>3, LedgerFills
  <2> QED BY <2>2, <2>3
<1>11. Considered' /\ Outside'
  BY <1>1, <1>3, <1>5, <1>7, ConsideredExits DEF Outside
<1>12. EntriesTold' /\ DispositionsTold' /\ ChargesTold'
  BY <1>1, <1>2, EntriesExit, DispositionsExit, ChargesExit
<1>13. Story' /\ TradesTold'
  BY <1>1, <1>2, StoryExits, TradesExit
<1> QED BY <1>3, <1>9, <1>10, <1>11, <1>12, <1>13

LEMMA ReplayStep ==
    ASSUME OpenStops = FALSE, ReplayInv, [Next]_vars
    PROVE ReplayInv'
<1>1. CASE QuietStep
  BY <1>1, ReplayQuiet
<1>2. CASE FillAtOpen \/ FillApplicationExit \/ FillLast
  BY <1>2, ReplayExits
<1>3. ASSUME NEW i \in Intents, RejectEarly(i) \/ RejectPriced(i) \/ Enter(i) PROVE ReplayInv'
  BY <1>3, ReplayRejects, ReplayEnters
<1> QED BY <1>1, <1>2, <1>3 DEF Next, QuietStep

\* At the end the invariant is what the validator asks for.
LEMMA ReplayEnds ==
    ASSUME ReplayInv, pc = "done"
    PROVE Accepts
<1> USE DEF ReplayInv
<1>1. position = None
  BY DEF Outside
<1>2. \A i \in Intents : dispositions[i] # None
  BY DEF Considered
<1>3. EnteredIntents = Entered /\ Entered = ClosedIntents
  BY <1>1, <1>2 DEF EnteredIntents, Entered, EntriesTold, HeldIntents
<1>4. EntriesMatchTrades
  <2>1. \A k \in DOMAIN fills : fills[k].intent \in ClosedIntents
    BY <1>1 DEF IInv, OnePositionAtATime
  <2> QED BY <1>3, <2>1 DEF EntriesMatchTrades, EntriesTold, EntryTold
<1>5. \A i \in Intents : DispositionHolds(i)
  <2> SUFFICES ASSUME NEW i \in Intents PROVE DispositionHolds(i)
    OBVIOUS
  <2>1. Told(i)
    BY <1>2 DEF DispositionsTold
  <2>2. \A at : LiveOrHeld(at) => LiveAt(at)
    BY <1>1 DEF LiveOrHeld
  <2> QED BY <2>1, <2>2 DEF Told, Priced, EntryHolds, DispositionHolds
<1>6. \A k \in DOMAIN trades : ExitsHold(trades[k])
  BY DEF TradesTold, ClosedTrades
<1>7. FundingHolds
  <2>1. ASSUME NEW c \in Charges PROVE ChargeHolds(c)
    <3>1. PICK t \in ClosedTrades : PaidBy(t, c)
      BY <1>1 DEF ChargesTold, ChargeTold, ChargedHere
    <3> QED BY <3>1 DEF ClosedTrades, PaidBy, Before, ChargeHolds
  <2> QED BY <2>1 DEF FundingHolds, ChargesTold, Charges
<1> QED BY <1>2, <1>4, <1>5, <1>6, <1>7 DEF Accepts

\* Whatever intents, latencies, candles and volumes a cell is given, the validator
\* accepts the result that the loop leaves (ReplayIsAccepted). An entry must not be
\* stopped at its own open: such a trade closes at the time its own admission is
\* judged at, and the validator then counts it as closed before.
THEOREM Accepted ==
    ASSUME OpenStops = FALSE
    PROVE  Spec => []ReplayIsAccepted
<1>1. Init => ReplayInv
  BY ReplayInit
<1>2. ReplayInv /\ [Next]_vars => ReplayInv'
  BY ReplayStep
<1>3. ReplayInv => ReplayIsAccepted
  BY ReplayEnds DEF ReplayIsAccepted
<1> QED BY <1>1, <1>2, <1>3, PTL DEF Spec
=============================================================================
