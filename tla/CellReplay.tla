----------------------------- MODULE CellReplay -----------------------------
(***************************************************************************)
(* ManagedCellResult.__post_init__: the result of a cell is accepted only  *)
(* when its ledgers retell one causal story.  The validator shares no      *)
(* state with the loop that produced them; it recomputes schedules,        *)
(* deadlines, capacity, retries and funding from the sealed arguments.     *)
(***************************************************************************)
EXTENDS ManagedCell, SequencesExt

LastOpen == Candles - 1

IsEntry(f) == f.origin = "ENTRY_SIGNAL"
EntriesOf(i) == {k \in DOMAIN fills : fills[k].intent = i /\ IsEntry(fills[k])}
ExitsOf(i) == {k \in DOMAIN fills : fills[k].intent = i /\ ~IsEntry(fills[k])}

\* What the attempts S leave of a trade.  Each is asked for what the one before it
\* has left, so the newest tells the whole sum.
LeftAfter(t, S) == IF S = {} THEN t.quantity
                   ELSE fills[Max(S)].requested - fills[Max(S)].filled

\* ManagedFillEvent.__post_init__, for the times and quantities of one event.
FillIsCausal(f) ==
    /\ f.decided <= f.eligible
    /\ f.eligible <= f.at
    /\ f.at \in Opens(f.candle)..Closes(f.candle)
    /\ f.origin \in {"ENTRY_SIGNAL", "APPLICATION_EXIT"} => f.at = Opens(f.candle)
    /\ f.origin = "RESTING_BARRIER" => f.decided = f.at /\ f.eligible = f.at
    /\ f.filled <= f.requested
    /\ f.before = f.after + f.filled
    /\ ~IsEntry(f) => /\ f.decision.requested = f.requested
                      /\ f.decision.until = Closes(f.candle)
                      /\ f.decision.from \in Opens(f.candle)..f.at

\* Events in causal order share one capacity ledger per candle.
CapacityLedgerHolds ==
    \A k \in DOMAIN fills :
        LET f == fills[k]
            first == k = 1 \/ fills[k - 1].candle # f.candle
        IN  /\ FillIsCausal(f)
            /\ k > 1 => /\ fills[k - 1].candle <= f.candle
                        /\ fills[k - 1].candle = f.candle => fills[k - 1].at <= f.at
            /\ f.before = IF first THEN f.volume ELSE fills[k - 1].after
            /\ ~first => f.volume = fills[k - 1].volume
            /\ f.filled = Min2(f.requested, f.before)

EnteredIntents == {i \in Intents : dispositions[i].reason = "ENTERED"}

\* Entered intents, closed trades and entry fills are in bijection.
EntriesMatchTrades ==
    /\ EnteredIntents = ClosedIntents
    /\ \A k \in DOMAIN fills : fills[k].intent \in EnteredIntents
    /\ \A i \in EnteredIntents : \E k \in EntriesOf(i) : EntriesOf(i) = {k}
    /\ \A k \in DOMAIN trades : \A i \in EntriesOf(trades[k].intent) :
          /\ trades[k].entry = fills[i].at
          /\ trades[k].quantity = fills[i].filled

\* A trade that was live at a time, and the equity of the trades closed by it.
LiveAt(t) == \E k \in DOMAIN trades : trades[k].entry <= t /\ t < trades[k].exit
ClosedBy(t) == {trades[k].intent : k \in {m \in DOMAIN trades : trades[m].exit <= t}}

\* The reason that the sealed arguments alone decide, or "OPEN".
ScheduledReason(i) ==
    LET e == EntryIndex(i)
        in == setup.intents[i]
    IN  IF e > LastOpen
        THEN IF Causal(i) > in.expires THEN "EXPIRED" ELSE "INSUFFICIENT_TERMINAL_HORIZON"
        ELSE IF Opens(e) > in.expires THEN "EXPIRED"
        ELSE IF Deadline(i, e) > LastOpen THEN "INSUFFICIENT_TERMINAL_HORIZON"
        ELSE "OPEN"

DispositionHolds(i) ==
    LET d == dispositions[i]
        at == Opens(EntryIndex(i))
        priced == d.reason \in {"ADMISSION", "NO_LIQUIDITY", "ENTERED"}
    IN  IF ScheduledReason(i) # "OPEN" THEN d.reason = ScheduledReason(i)
        ELSE /\ d.reason \notin {"EXPIRED", "INSUFFICIENT_TERMINAL_HORIZON"}
             /\ d.capacity <= d.volume
             /\ d.reason = "OVERLAPPING_POSITION" => LiveAt(at)
             /\ priced => d.equity = ClosedBy(at)
             /\ d.reason = "NO_LIQUIDITY" => d.capacity = 0
             /\ d.reason = "ENTERED" => \A k \in EntriesOf(i) :
                   /\ fills[k].before = d.capacity
                   /\ fills[k].requested = d.requested
                   /\ fills[k].filled = d.filled
                   /\ fills[k].candle = EntryIndex(i)
                   /\ fills[k].eligible = Causal(i)
                   /\ fills[k].decided = setup.intents[i].decision

NominalTimeout(t) == t.entry + 2 * Holding(t.intent)

Earlier(k) == {j \in ExitsOf(fills[k].intent) : j < k}

\* What starts an application exit: the timeout, or the attempt before it.
ApplicationDecision(t, k) ==
    IF Earlier(k) = {} THEN NominalTimeout(t) ELSE fills[Max(Earlier(k))].at

\* The origin and the time of one attempt follow from the attempts before it.
AttemptHolds(t, k) ==
    LET f == fills[k]
        retry == Earlier(k) # {}
        previous == fills[Max(Earlier(k))]
        decided == ApplicationDecision(t, k)
        eligible == decided + setup.exitLatency
    IN  /\ retry => previous.decision.sequence < f.decision.sequence
        /\ f.requested = LeftAfter(t, Earlier(k))
        /\ f.at <= NominalTimeout(t) + 2 * setup.grace
        /\ f.decision.reason = t.reason
        /\ IF f.origin = "RESTING_BARRIER"
           THEN ~retry /\ f.at <= NominalTimeout(t) /\ f.decision.reason # "TIMEOUT"
           ELSE /\ f.origin = "APPLICATION_EXIT"
                /\ ~retry => f.decision.reason = "TIMEOUT"
                /\ f.decided = decided
                /\ f.eligible = eligible
                /\ f.candle = IF retry THEN Max2(IndexAt(eligible), previous.candle + 1)
                              ELSE IndexAt(eligible)
                /\ f.decision.from = f.at

ExitsHold(t) ==
    LET exits == ExitsOf(t.intent)
    IN  /\ exits # {}
        /\ \A k \in exits : AttemptHolds(t, k)
        /\ LeftAfter(t, exits) = 0
        /\ fills[Max(exits)].at = t.exit
        /\ t.ambiguous = \E k \in exits : fills[k].decision.ambiguous

\* A charge belongs to a trade that was open, for what was left of it.
ChargeHolds(c) ==
    \E k \in DOMAIN trades :
        LET t == trades[k]
        IN  /\ t.intent = c.intent
            /\ t.entry < c.at /\ c.at <= t.exit
            /\ c.quantity = LeftAfter(t, {m \in ExitsOf(t.intent) : fills[m].at < c.at})

FundingHolds ==
    /\ \A k \in DOMAIN funding : ChargeHolds(funding[k])
    /\ \A k \in 2..Len(funding) : funding[k - 1].at <= funding[k].at

Accepts ==
    /\ \A i \in Intents : dispositions[i] # None
    /\ CapacityLedgerHolds
    /\ EntriesMatchTrades
    /\ \A i \in Intents : DispositionHolds(i)
    /\ \A k \in DOMAIN trades : ExitsHold(trades[k])
    /\ FundingHolds

----------------------------------------------------------------------------
\* As long as no entry is stopped at its own open (OpenStops = FALSE), the
\* validator accepts the result the loop leaves: two tellings of latency,
\* capacity, retries and funding agree (559-1130 against 1331-1992), so that an
\* evaluation does not fail after all its work is done.  With such an entry the
\* validator counts its trade against its own admission (735-740) and refuses.
ReplayIsAccepted == pc = "done" => Accepts

\* "A cell may own at most one position" (1350-1351): a position is entered only
\* once the trade before it has ended, no intent is entered twice, and whatever was
\* filled belongs to the position held or to a closed trade, so none is forgotten.
OnePositionAtATime ==
    /\ \A k \in DOMAIN trades, m \in DOMAIN trades :
          k < m => trades[k].exit <= trades[m].entry /\ trades[k].intent # trades[m].intent
    /\ position # None => /\ position.intent \notin ClosedIntents
                          /\ \A k \in DOMAIN trades : trades[k].exit <= Opens(position.entry)
    /\ \A k \in DOMAIN fills :
          \/ fills[k].intent \in ClosedIntents
          \/ position # None /\ fills[k].intent = position.intent

\* The loop's own guards against a position held too long never trip: every
\* position is asked to leave, scheduled and refused in time (1591-1596, 1904).
NeverHeldTooLong == pc \notin {"overrun", "held"}

\* An evaluation that fails because an exit cannot fill has met a candle that
\* could not take the whole exit: a latency within the grace never fails a
\* cell by itself (137-140, 1501-1514).
FailsOnlyWithoutLiquidity ==
    pc = "illiquid" => fills # <<>> /\ Last(fills).filled < Last(fills).requested

\* Funding is charged for every settlement a trade was held over, not only for
\* none it was not: entries at a settlement do not pay, exits at it do.
FundingIsComplete ==
    \A k \in DOMAIN trades, s \in Settlements :
        trades[k].entry < Opens(s) /\ Opens(s) <= trades[k].exit =>
            \E c \in DOMAIN funding : /\ funding[c].intent = trades[k].intent
                                      /\ funding[c].at = Opens(s)

\* The position as its owner sees it, or what the last trade tells of it.
Phase == IF position = None THEN "closed"
         ELSE IF position.pending THEN "pending" ELSE "open"
Reason(p) == [reason |-> p.reason, ambiguous |-> p.ambiguous]
Why == IF position # None THEN IF position.pending THEN Reason(position) ELSE None
       ELSE IF trades = <<>> THEN None ELSE Reason(Last(trades))
Left == IF position = None THEN 0 ELSE position.remaining
Offer == IF position = None \/ position.decision = None THEN None
         ELSE [from |-> position.decision.from - Opens(position.entry),
               until |-> position.decision.until - Opens(position.entry)]
LastBar == IF position # None THEN position.bar
           ELSE IF trades = <<>> THEN 0
           ELSE (Last(trades).exit \div 2) - (Last(trades).entry \div 2)
Horizon == IF position # None THEN Holding(position.intent)
           ELSE IF trades = <<>> THEN 1 ELSE Holding(Last(trades).intent)

Engine == INSTANCE ExitRequest WITH
    Quantity <- MaxRequest, NoWhy <- None, NoOffer <- None,
    phase <- Phase, why <- Why, remaining <- Left, offer <- Offer, bar <- LastBar,
    deadline <- Horizon

\* The loop uses its position only as a managed position may be used, and assumes
\* of it only what ManagedPosition is shown to keep: every step is an entry, or a
\* step of ExitRequest, so no offer is filled twice, late, or after the close.
PositionKeepsPromise ==
    [][(position = None /\ position' # None) \/ Engine!Next]_(Engine!vars)
=============================================================================
