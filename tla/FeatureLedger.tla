----------------------------- MODULE FeatureLedger -----------------------------
(****************************************************************************)
(* The append-only ledger of quarter-hour features                           *)
(* (quarter_hour_features.py) as operators over its rows: what an append     *)
(* accepts, what a row holds, what verify() asks and what the study reads.   *)
(* The hash chain is the sequence of rows itself: a row's chain value stands *)
(* for all rows up to it.                                                    *)
(****************************************************************************)
EXTENDS PeakWindows

CONSTANTS Symbols,     \* the universe, in its fixed order
          Months,      \* how many monthly periods are planned
          MonthDays    \* days of a month

ASSUME PlanAssumption ==
  /\ Len(Symbols) \in Nat \ {0} /\ DOMAIN Symbols = 1 .. Len(Symbols)
  /\ \A i, j \in DOMAIN Symbols : Symbols[i] = Symbols[j] => i = j
  /\ Months \in Nat \ {0} /\ MonthDays \in Nat \ {0}

(* Months first, the symbols inside a month.                                 *)
Plan == [i \in 1 .. Months * Len(Symbols) |->
           [symbol |-> Symbols[((i - 1) % Len(Symbols)) + 1], period |-> (i - 1) \div Len(Symbols)]]

PeriodStart(period) == period * MonthDays * Day
PeriodEnd(period) == PeriodStart(period) + MonthDays * Day

(* The trade a scan starts from: the last of the symbol's latest batch.      *)
LastTrade(rows, symbol) ==
  LET mine == {i \in DOMAIN rows : rows[i].symbol = symbol}
  IN IF mine = {} THEN <<>> ELSE <<rows[Max(mine)].lastTrade>>

Before(rows, i) == SubSeq(rows, 1, i - 1)

SumMissing(gaps) == FoldSeq(LAMBDA g, n : g.missing + n, 0, gaps)

CountsAddUp(x) ==
  /\ x.expected = Len(Boundaries(PeriodStart(x.period), PeriodEnd(x.period)))
  /\ Len(x.windows) + x.empty + x.noReference = x.expected

(* The daily manifests reach from one end of the gap to the other: inside    *)
(* the only day, or from the last trade of the first day to the first trade  *)
(* of the last.                                                              *)
ProofReaches(proof) ==
  LET gap == proof.gap
      one == Head(proof.days)
      two == Last(proof.days)
  IN /\ [k \in DOMAIN proof.days |-> proof.days[k].day]
          = [k \in 1 .. DayOf(gap.to) - DayOf(gap.from) + 1 |-> DayOf(gap.from) + k - 1]
     /\ \A k \in DOMAIN proof.days : proof.days[k].rows >= 1
     /\ \/ /\ DayOf(gap.from) = DayOf(gap.to)
           /\ one.firstId <= gap.prev /\ gap.next <= one.lastId
           /\ one.firstTime <= gap.from /\ gap.to <= one.lastTime
           /\ one.missing >= gap.missing
        \/ /\ DayOf(gap.from) < DayOf(gap.to)
           /\ one.lastId = gap.prev /\ one.lastTime = gap.from
           /\ two.firstId = gap.next /\ two.firstTime = gap.to

(* The gaps inside the month make up what its manifest misses, the one       *)
(* before it what lies between two archives of a symbol.                     *)
GapsAccountFor(x, prior) ==
  /\ SumMissing(SelectSeq(x.gaps, LAMBDA g : g.inPeriod)) = x.missing
  /\ SumMissing(SelectSeq(x.gaps, LAMBDA g : ~g.inPeriod))
       = (IF prior = <<>> THEN 0 ELSE x.firstId - prior[1].id - 1)

WindowsAreMeasured(x) ==
  /\ \A k \in 1 .. Len(x.windows) - 1 :
        \/ x.windows[k].start < x.windows[k + 1].start
        \/ /\ x.windows[k].start = x.windows[k + 1].start
           /\ x.windows[k].phase < x.windows[k + 1].phase
  /\ \A k \in DOMAIN x.windows :
        LET w == x.windows[k]
        IN /\ w.phase \in Phases
           /\ w.start % Quarter = w.phase
           /\ w.end = w.start + Window
           /\ w.missing = SumMissing(SelectSeq(x.gaps, LAMBDA g : w.start < g.to /\ g.to <= w.end))

(* _validate_extraction for the batch at place i of the plan.                *)
Valid(rows, i, x) ==
  LET prior == LastTrade(Before(rows, i), Plan[i].symbol)
  IN /\ x.symbol = Plan[i].symbol /\ x.period = Plan[i].period
     /\ x.lastTrade.id = x.lastId /\ x.lastTrade.t = x.lastTime
     /\ CountsAddUp(x)
     /\ prior # <<>> => x.firstTime >= prior[1].t
     /\ [k \in DOMAIN x.proofs |-> x.proofs[k].gap] = x.gaps
     /\ \A k \in DOMAIN x.proofs : ProofReaches(x.proofs[k])
     /\ GapsAccountFor(x, prior)
     /\ WindowsAreMeasured(x)

(* What append() answers before it writes: the batch is there already and    *)
(* the same, or it is the next one; anything else raises.                    *)
Replays(rows, i, x) == i <= Len(rows) /\ rows[i] = x
IsNext(rows, i) == i = Len(rows) + 1

(* verify(): the rows are a prefix of the plan, complete when that is asked. *)
Verifies(rows, complete) ==
  /\ complete => Len(rows) = Len(Plan)
  /\ Len(rows) <= Len(Plan)
  /\ \A i \in DOMAIN rows : rows[i].symbol = Plan[i].symbol /\ rows[i].period = Plan[i].period

IsClean(w) == w.missing = 0 /\ w.missingRaw = 0

(* phase_returns: the windows of a symbol and a phase, by time.              *)
PhaseReturns(rows, symbol, phase, cleanOnly) ==
  LET mine == SelectSeq(rows, LAMBDA r : r.symbol = symbol)
      windows == FlattenSeq([k \in DOMAIN mine |-> mine[k].windows])
  IN SelectSeq(windows, LAMBDA w : w.phase = phase /\ (cleanOnly => IsClean(w)))

(* What one place of the plan should hold: the month's archive scanned from  *)
(* the symbol's previous month, its gaps proved by the daily archives.       *)
ExtractBatch(feed, i, prior) ==
  LET period == Plan[i].period
      symbol == Plan[i].symbol
      trades == Loaded(feed.month[symbol][period], PeriodStart(period), PeriodEnd(period))
      x == Extract(symbol, period, PeriodStart(period), PeriodEnd(period), trades, prior)
  IN IF x = Raised \/ x.gaps = <<>> THEN x ELSE Corroborate(x, feed.day[symbol])
================================================================================
