---------------------------- MODULE ManagedCell ----------------------------
(***************************************************************************)
(* evaluate_sleeve_cell of managed_evaluation.py: the candle loop that     *)
(* turns the intents of one cell into dispositions, fills, funding charges *)
(* and trades, with at most one managed position at a time.                *)
(*                                                                         *)
(* Candle i opens at time 2i and closes at 2i+1; latencies are in the same *)
(* ticks, so that one may end before, at or after an open.  Prices are     *)
(* abstracted to what on_candle may answer, which is what ExitRequest      *)
(* promises of ManagedPosition; an equity is named by the trades whose     *)
(* results it contains.  Quantities are integers.                          *)
(***************************************************************************)
EXTENDS Integers, Sequences

CONSTANTS
    Setups,         \* the intents and latencies a cell may be given
    Candles,        \* how many candles the cell has
    MaxVolume,      \* the largest capacity a candle leaves to the next
    MaxRequest,     \* the largest quantity an admission may size
    Settlements,    \* the candles at whose open funding is settled
    BarrierReasons, \* the reasons for which a barrier may ask for an exit
    OpenStops,      \* an entry may already be stopped at its own open
    None

Intent == [decision : Nat, eligible : Nat, expires : Nat, holding : Nat \ {0}]

\* What the constructors of the policy and of an intent refuse.
ValidSetup(s) ==
    /\ s.exitLatency <= 2 * s.grace
    /\ \A i \in DOMAIN s.intents : s.intents[i].decision < s.intents[i].eligible
    /\ \A i \in DOMAIN s.intents, j \in DOMAIN s.intents :
          i < j => s.intents[i].eligible <= s.intents[j].eligible

Setup == [intents : Seq(Intent), latency : Nat, exitLatency : Nat, grace : Nat]

ASSUME CellBounds ==
    /\ Setups \subseteq Setup
    /\ \A s \in Setups : ValidSetup(s)
    /\ Candles \in Nat \ {0}
    /\ MaxVolume \in Nat
    /\ MaxRequest \in Nat \ {0}
    /\ Settlements \subseteq Nat \ {0}
    /\ BarrierReasons \subseteq {"STOP_LOSS", "TRAILING_STOP", "TAKE_PROFIT"}
    /\ OpenStops \in BOOLEAN

VARIABLES
    setup,          \* the arguments of the call
    pc,             \* where the loop stands, or how the call ended
    index,          \* the current candle
    volume,         \* what the previous candle lets this one trade
    capacity,       \* remaining_capacity
    position,       \* the active position, or None
    exit,           \* the scheduled application exit, or None
    dispositions,   \* per intent, its disposition or None
    fills,          \* fill_events
    funding,        \* funding_events
    trades

vars == <<setup, pc, index, volume, capacity, position, exit, dispositions,
          fills, funding, trades>>

Opens(i) == 2 * i
Closes(i) == 2 * i + 1
\* bisect_left(open_times, t), and _minute_open_at_or_after.
IndexAt(t) == (t + 1) \div 2
Max2(a, b) == IF a > b THEN a ELSE b
Min2(a, b) == IF a < b THEN a ELSE b

Intents == DOMAIN setup.intents
Causal(i) == Max2(setup.intents[i].eligible, setup.intents[i].decision + setup.latency)
EntryIndex(i) == IndexAt(Causal(i))
Holding(i) == setup.intents[i].holding

\* The last candle at which an exit of intent i, entered at candle e, may fill.
Deadline(i, e) == e + Holding(i) + setup.grace

Reasons == {"STOP_LOSS", "TRAILING_STOP", "TAKE_PROFIT", "TIMEOUT"}
Decision == [sequence : Nat \ {0}, from : Nat, until : Nat, requested : Nat \ {0},
             reason : Reasons, ambiguous : BOOLEAN]
Position == [intent : Nat \ {0}, entry : Nat, remaining : Nat \ {0}, bar : Nat \cup {-1},
             pending : BOOLEAN, reason : Reasons \cup {None}, ambiguous : BOOLEAN,
             decision : Decision \cup {None}, sequence : Nat]
Scheduled == [decided : Nat, eligible : Nat, ready : Nat]

Rejections == {"EXPIRED", "INSUFFICIENT_TERMINAL_HORIZON", "OVERLAPPING_POSITION",
               "ENTRY_OUTSIDE_EXIT_PLAN", "ADMISSION", "NO_LIQUIDITY"}
Disposition == [reason : Rejections \cup {"ENTERED"}, volume : Nat, capacity : Nat,
                equity : SUBSET Nat, requested : Nat, filled : Nat]
Fill == [intent : Nat \ {0}, origin : {"ENTRY_SIGNAL", "RESTING_BARRIER", "APPLICATION_EXIT"},
         decision : Decision \cup {None}, decided : Nat, eligible : Nat, candle : Nat,
         at : Nat, requested : Nat \ {0}, filled : Nat, volume : Nat, before : Nat, after : Nat]
Charge == [intent : Nat \ {0}, at : Nat, quantity : Nat \ {0}]
Trade == [intent : Nat \ {0}, entry : Nat, exit : Nat, quantity : Nat,
          reason : Reasons, ambiguous : BOOLEAN]

ASSUME NoneIsNoValue ==
    /\ None \notin Position \cup Scheduled \cup Decision \cup Disposition
    /\ None \notin Reasons
    /\ None \notin [from : Int, until : Int]

\* "overrun", "held" and "illiquid" are the ways in which the evaluation raises.
PCs == {"open", "barrier", "resting", "application", "entries", "entered", "last",
        "done", "overrun", "held", "illiquid"}

TypeOK ==
    /\ setup \in Setups
    /\ pc \in PCs
    /\ index \in 0..Candles
    /\ volume \in 0..MaxVolume
    /\ capacity \in 0..volume
    /\ position \in Position \cup {None}
    /\ exit \in Scheduled \cup {None}
    /\ dispositions \in [Intents -> Disposition \cup {None}]
    /\ fills \in Seq(Fill)
    /\ funding \in Seq(Charge)
    /\ trades \in Seq(Trade)

----------------------------------------------------------------------------
Rejected(reason, equity) ==
    [reason |-> reason, volume |-> volume, capacity |-> capacity, equity |-> equity,
     requested |-> 0, filled |-> 0]

\* An intent whose entry falls behind the last candle is never scheduled.
Unscheduled(i) ==
    [reason |-> IF Causal(i) > setup.intents[i].expires THEN "EXPIRED"
                ELSE "INSUFFICIENT_TERMINAL_HORIZON",
     volume |-> 0, capacity |-> 0, equity |-> {}, requested |-> 0, filled |-> 0]

Init ==
    /\ setup \in Setups
    /\ pc = "open"
    /\ index = 0
    /\ volume = 0
    /\ capacity = 0
    /\ position = None
    /\ exit = None
    /\ dispositions = [i \in Intents |-> IF EntryIndex(i) >= Candles THEN Unscheduled(i)
                                         ELSE None]
    /\ fills = <<>>
    /\ funding = <<>>
    /\ trades = <<>>

\* settle_funding: the position that holds at the open pays.
SettleFunding ==
    funding' = IF index \in Settlements /\ position # None
               THEN Append(funding, [intent |-> position.intent, at |-> Opens(index),
                                     quantity |-> position.remaining])
               ELSE funding

\* The head of the loop body.  The first candle has no volume before it.
OpenCandle ==
    /\ pc = "open"
    /\ index < Candles
    /\ SettleFunding
    /\ volume' \in IF index = 0 THEN {0} ELSE 0..MaxVolume
    /\ capacity' = volume'
    /\ pc' = IF position = None THEN "entries"
             ELSE IF index > Deadline(position.intent, position.entry) THEN "overrun"
             ELSE "barrier"
    /\ UNCHANGED <<setup, index, position, exit, dispositions, fills, trades>>

----------------------------------------------------------------------------
(* on_candle, by what it may answer.                                       *)

Bar == index - position.entry
Expired == Bar >= Holding(position.intent)

Survivor == [position EXCEPT !.bar = Bar, !.decision = None]

\* position after on_candle asked for an exit.
Asking(from, reason, ambiguous) ==
    [position EXCEPT !.bar = Bar, !.pending = TRUE, !.reason = reason,
                     !.ambiguous = @ \/ ambiguous, !.sequence = @ + 1,
                     !.decision = [sequence |-> position.sequence + 1, from |-> from,
                                   until |-> Closes(index),
                                   requested |-> position.remaining, reason |-> reason,
                                   ambiguous |-> ambiguous]]

\* Only a stop is ever ambiguous, and only inside a candle.
Ambiguities(reason) == IF reason = "TAKE_PROFIT" THEN {FALSE} ELSE BOOLEAN

Evidence == <<setup, index, volume, capacity, dispositions, fills, funding, trades>>

Survive ==
    /\ pc = "barrier"
    /\ ~position.pending /\ ~Expired
    /\ position' = Survivor
    /\ pc' = "entries"
    /\ UNCHANGED <<Evidence, exit>>

\* A decision learned when the candle has closed waits until the intents of its
\* open have been considered.
BarrierInsideCandle ==
    /\ pc = "barrier"
    /\ ~position.pending /\ ~Expired
    /\ \E r \in BarrierReasons : \E a \in Ambiguities(r) :
          position' = Asking(Closes(index), r, a)
    /\ pc' = "entries"
    /\ UNCHANGED <<Evidence, exit>>

\* A resting order that the open has crossed fills at once.
BarrierAtOpen ==
    /\ pc = "barrier"
    /\ ~position.pending
    /\ \E r \in BarrierReasons : position' = Asking(Opens(index), r, FALSE)
    /\ pc' = "resting"
    /\ UNCHANGED <<Evidence, exit>>

\* Bug: the candle of the failed attempt counts as a later one.
ScheduleHere(decided, minimum) ==
    LET eligible == decided + setup.exitLatency
    IN  [decided |-> decided, eligible |-> eligible, ready |-> IndexAt(eligible)]

\* schedule_application_exit.
Schedule(decided, minimum) ==
    LET eligible == decided + setup.exitLatency
    IN  [decided |-> decided, eligible |-> eligible,
         ready |-> Max2(IndexAt(eligible), minimum)]

\* Bug: the grace is left out of the horizon.
CannotFillByTimeout(s) ==
    s.ready >= Candles \/ s.ready > position.entry + Holding(position.intent)

CannotFill(s) ==
    s.ready >= Candles \/ s.ready > Deadline(position.intent, position.entry)

\* Bug: every candle begins a new wait.
ReplannedExit == Schedule(Opens(index), index)

\* An exit that is scheduled already keeps its time over the candles it waits.
PlannedExit == IF exit = None THEN Schedule(Opens(index), index) ELSE exit

\* A timeout, or the retry of an exit that is pending: it waits for its latency.
ApplicationManaged ==
    LET retry == position.pending
    IN  /\ pc = "barrier"
        /\ retry \/ Expired
        /\ position' = Asking(Opens(index), IF retry THEN position.reason ELSE "TIMEOUT",
                              retry /\ position.ambiguous)
        /\ exit' = PlannedExit
        /\ pc' = IF exit = None /\ CannotFill(PlannedExit) THEN "illiquid"
                 ELSE IF index >= PlannedExit.ready THEN "application" ELSE "entries"
        /\ UNCHANGED Evidence

----------------------------------------------------------------------------
(* execute_exit.                                                           *)

\* FillSimulator.fill, for the volume that remaining_capacity stands for.
FilledQuantity(requested) == Min2(requested, capacity)

Executed(origin, decided, eligible) ==
    LET d == position.decision
        filled == FilledQuantity(d.requested)
    IN  [intent |-> position.intent, origin |-> origin, decision |-> d,
         decided |-> decided, eligible |-> eligible, candle |-> index, at |-> d.from,
         requested |-> d.requested, filled |-> filled, volume |-> volume,
         before |-> capacity, after |-> capacity - filled]

EntryFilled(i) ==
    LET mine == {k \in DOMAIN fills : fills[k].intent = i /\ fills[k].origin = "ENTRY_SIGNAL"}
    IN  fills[CHOOSE k \in mine : TRUE].filled

Closed(at) ==
    [intent |-> position.intent, entry |-> Opens(position.entry), exit |-> at,
     quantity |-> EntryFilled(position.intent), reason |-> position.reason,
     ambiguous |-> position.ambiguous]

\* A whole fill closes the position; anything less is scheduled for a retry no
\* earlier than the next candle, a zero fill leaving the position as it was.
ExecuteExit(origin, decided, eligible, next) ==
    LET fill == Executed(origin, decided, eligible)
        retry == Schedule(fill.at, index + 1)
    IN  /\ fills' = Append(fills, fill)
        /\ capacity' = fill.after
        /\ IF fill.filled = position.remaining
           THEN /\ position' = None
                /\ trades' = Append(trades, Closed(fill.at))
                /\ exit' = None
                /\ pc' = next
           ELSE /\ position' = IF fill.filled = 0 THEN position
                               ELSE [position EXCEPT !.remaining = @ - fill.filled,
                                                     !.decision = None]
                /\ exit' = retry
                /\ pc' = IF CannotFill(retry) THEN "illiquid" ELSE next
                /\ UNCHANGED trades
        /\ UNCHANGED <<setup, volume, dispositions, funding>>

FillAtOpen ==
    /\ pc = "resting"
    /\ ExecuteExit("RESTING_BARRIER", position.decision.from, position.decision.from, "entries")
    /\ UNCHANGED index

FillApplicationExit ==
    /\ pc = "application"
    /\ ExecuteExit("APPLICATION_EXIT", exit.decided, exit.eligible, "entries")
    /\ UNCHANGED index

\* The decision of the entry candle or of the candle's close; the loop goes on.
FillLast ==
    /\ pc = "last"
    /\ ExecuteExit("RESTING_BARRIER", position.decision.from, position.decision.from, "open")
    /\ index' = index + 1

----------------------------------------------------------------------------
(* The intents scheduled at this open, in the order they were given.       *)

Due == {i \in Intents : EntryIndex(i) = index /\ dispositions[i] = None}
IsNext(i) == i \in Due /\ \A j \in Due : i <= j

Dispose(i, d) == dispositions' = [dispositions EXCEPT ![i] = d]

\* Point-in-time equity of a flat cell: the results of the trades closed so far.
ClosedIntents == {trades[k].intent : k \in DOMAIN trades}

TooLate(i) == Opens(index) > setup.intents[i].expires
BeyondHorizon(i) == Deadline(i, index) > Candles - 1

\* An intent rejected before its price is looked at.
RejectEarly(i) ==
    /\ pc = "entries"
    /\ IsNext(i)
    /\ \/ TooLate(i) /\ Dispose(i, Rejected("EXPIRED", {}))
       \/ /\ ~TooLate(i) /\ BeyondHorizon(i)
          /\ Dispose(i, Rejected("INSUFFICIENT_TERMINAL_HORIZON", {}))
       \/ /\ ~TooLate(i) /\ ~BeyondHorizon(i) /\ position # None
          /\ Dispose(i, Rejected("OVERLAPPING_POSITION", {}))
    /\ UNCHANGED <<setup, pc, index, volume, capacity, position, exit, fills, funding, trades>>

Enterable(i) == ~TooLate(i) /\ ~BeyondHorizon(i) /\ position = None

\* An intent rejected by its exit plan, by admission or for want of capacity.
RejectPriced(i) ==
    /\ pc = "entries"
    /\ IsNext(i)
    /\ Enterable(i)
    /\ \/ Dispose(i, Rejected("ENTRY_OUTSIDE_EXIT_PLAN", {}))
       \/ Dispose(i, Rejected("ADMISSION", ClosedIntents))
       \/ capacity = 0 /\ Dispose(i, Rejected("NO_LIQUIDITY", ClosedIntents))
    /\ UNCHANGED <<setup, pc, index, volume, capacity, position, exit, fills, funding, trades>>

Enter(i) ==
    /\ pc = "entries"
    /\ IsNext(i)
    /\ Enterable(i)
    /\ capacity > 0
    /\ \E requested \in 1..MaxRequest :
          LET filled == FilledQuantity(requested)
          IN  /\ Dispose(i, [reason |-> "ENTERED", volume |-> volume, capacity |-> capacity,
                             equity |-> ClosedIntents, requested |-> requested,
                             filled |-> filled])
              /\ fills' = Append(fills,
                    [intent |-> i, origin |-> "ENTRY_SIGNAL", decision |-> None,
                     decided |-> setup.intents[i].decision, eligible |-> Causal(i),
                     candle |-> index, at |-> Opens(index), requested |-> requested,
                     filled |-> filled, volume |-> volume, before |-> capacity,
                     after |-> capacity - filled])
              /\ capacity' = capacity - filled
              /\ position' = [intent |-> i, entry |-> index, remaining |-> filled, bar |-> -1,
                              pending |-> FALSE, reason |-> None, ambiguous |-> FALSE,
                              decision |-> None, sequence |-> 0]
    /\ exit' = None
    /\ UNCHANGED <<setup, pc, index, volume, funding, trades>>

EnteredHere == position # None /\ position.bar = -1
AwaitsClose == position # None /\ position.decision # None
               /\ position.decision.from = Closes(index)

\* All intents of this open are settled: what the position still does in it.
EntriesDone ==
    /\ pc = "entries"
    /\ Due = {}
    /\ \/ EnteredHere /\ pc' = "entered" /\ UNCHANGED index
       \/ AwaitsClose /\ pc' = "last" /\ UNCHANGED index
       \/ ~EnteredHere /\ ~AwaitsClose /\ pc' = "open" /\ index' = index + 1
    /\ UNCHANGED <<setup, volume, capacity, position, exit, dispositions, fills, funding, trades>>

\* Bug: a new position is not shown its entry candle.
EntryCandleSkipped ==
    /\ pc = "entered"
    /\ pc' = "open"
    /\ index' = index + 1
    /\ UNCHANGED <<setup, volume, capacity, position, exit, dispositions, fills, funding, trades>>

\* The entry candle of a new position, from its open to its close.
EntryCandleSurvived ==
    /\ pc = "entered"
    /\ position' = Survivor
    /\ pc' = "open"
    /\ index' = index + 1
    /\ UNCHANGED <<setup, volume, capacity, exit, dispositions, fills, funding, trades>>

EntryCandleBarrier ==
    /\ pc = "entered"
    /\ \/ \E r \in BarrierReasons \ {"TRAILING_STOP"} : \E a \in Ambiguities(r) :
             position' = Asking(Closes(index), r, a)
       \/ OpenStops /\ position' = Asking(Opens(index), "STOP_LOSS", FALSE)
    /\ pc' = "last"
    /\ UNCHANGED <<Evidence, exit>>

\* The end of the call: the position must be flat.
Finish ==
    /\ pc = "open"
    /\ index = Candles
    /\ pc' = IF position = None THEN "done" ELSE "held"
    /\ UNCHANGED <<Evidence, position, exit>>

Next ==
    \/ OpenCandle
    \/ Survive \/ BarrierInsideCandle \/ BarrierAtOpen \/ ApplicationManaged
    \/ FillAtOpen \/ FillApplicationExit \/ FillLast
    \/ \E i \in Intents : RejectEarly(i) \/ RejectPriced(i) \/ Enter(i)
    \/ EntriesDone \/ EntryCandleSurvived \/ EntryCandleBarrier
    \/ Finish

Spec == Init /\ [][Next]_vars
============================================================================
