--------------------------- MODULE FeatureCollection ---------------------------
(****************************************************************************)
(* The processes that fill one feature ledger: collectors                    *)
(* (quarter_hour_features.collect_features), one batch or one month of       *)
(* batches at a time, and the recovery script                                *)
(* (scripts/recover_quarter_hour.py) that prepares the archives of a month   *)
(* and runs a bounded collector over it.  Nothing but SQLite keeps two of    *)
(* them apart, every one may die between two steps, and the archives they    *)
(* read are an input that does not change.                                   *)
(****************************************************************************)
EXTENDS FeatureLedger

CONSTANTS Collectors,  \* collector processes
          Recoverers,  \* recovery scripts
          Feeds        \* the archives that may be published, as a sequence; a
                       \* feed's "starts" bounds the collectors started over it

(* An aggregate trade as the parser leaves it.                               *)
Trade == [id : Nat, lo : Nat, hi : Nat, t : Nat]

ASSUME FeedAssumption ==
  \A f \in DOMAIN Feeds : \A symbol \in {Symbols[k] : k \in DOMAIN Symbols} :
    /\ \A period \in 0 .. Months - 1 : Feeds[f].month[symbol][period].trades \in Seq(Trade)
    /\ \A d \in 0 .. Months * MonthDays - 1 : Feeds[f].day[symbol][d].trades \in Seq(Trade)

VARIABLES
  feed,      \* the place in Feeds of what the exchange publishes
  rows,      \* the ledger
  collector, \* the state of every collector
  script,    \* the state of every recovery script
  starts     \* collectors started so far

collectionVars == <<feed, rows, collector, script, starts>>

NoBatch == [raised |-> FALSE]

(* A collector has the batches next .. last to do, a range of the plan.      *)
Idle == [pc |-> "off", next |-> 1, last |-> 0, parallel |-> FALSE, priors |-> <<>>, batch |-> NoBatch]

CollectionInit ==
  /\ feed \in DOMAIN Feeds
  /\ rows = <<>>
  /\ collector = [c \in Collectors |-> Idle]
  /\ script = [r \in Recoverers |-> [pc |-> "off", before |-> 0, group |-> 0, child |-> {}]]
  /\ starts = 0

MonthTrades(f, symbol, period) ==
  Loaded(Feeds[f].month[symbol][period], PeriodStart(period), PeriodEnd(period))

LastPending(limit) ==
  IF Len(rows) + limit < Len(Plan) THEN Len(rows) + limit ELSE Len(Plan)

SameMonth(first, last) == {i \in first .. last : Plan[i].period = Plan[first].period}

(* The batches of the first pending month, or the first batch alone.         *)
MonthGroup(c) ==
  IF collector[c].parallel THEN SameMonth(collector[c].next, collector[c].last)
                           ELSE {collector[c].next}

Failed(c) == collector' = [collector EXCEPT ![c] = [Idle EXCEPT !.pc = "failed"]]

(* Opening the ledger: its rows are checked against the plan and counted.    *)
Opened(c, limit, parallel) ==
  collector' = [collector EXCEPT ![c] =
    IF Verifies(rows, FALSE)
    THEN [Idle EXCEPT !.pc = "run", !.next = Len(rows) + 1, !.last = LastPending(limit),
                      !.parallel = parallel]
    ELSE [Idle EXCEPT !.pc = "failed"]]

Start(c) ==
  /\ collector[c].pc \in {"off", "failed", "killed", "done"} /\ starts < Feeds[feed].starts
  /\ \A r \in Recoverers : c \notin script[r].child
  /\ \E parallel \in BOOLEAN : Opened(c, Len(Plan), parallel)
  /\ starts' = starts + 1
  /\ UNCHANGED <<feed, rows, script>>

(* last_trade(symbol), read for every batch of the group before any of them  *)
(* is extracted.                                                             *)
Submit(c) ==
  LET mine == collector[c]
      i == mine.next + Len(mine.priors)
  IN /\ mine.pc = "run" /\ mine.next <= mine.last
     /\ i \in MonthGroup(c)
     /\ collector' = [collector EXCEPT ![c].priors =
                        Append(mine.priors, LastTrade(rows, Plan[i].symbol)),
                                        ![c].pc = IF i + 1 \in MonthGroup(c) THEN "run" ELSE "take"]
     /\ UNCHANGED <<feed, rows, script, starts>>

(* The batch leaves the list; with the last of its group the next is due.    *)
Advanced(mine) ==
  [mine EXCEPT !.next = mine.next + 1, !.priors = Tail(mine.priors), !.batch = NoBatch,
               !.pc = IF Len(mine.priors) = 1 THEN "run" ELSE "take"]

(* One extraction, in the collector or in a worker it waits for.             *)
Extraction(c) ==
  ExtractBatch(Feeds[feed], collector[c].next, Head(collector[c].priors))

Take(c) ==
  /\ collector[c].pc = "take"
  /\ IF Extraction(c) = Raised THEN Failed(c)
     ELSE collector' = [collector EXCEPT ![c].pc = "append", ![c].batch = Extraction(c)]
  /\ UNCHANGED <<feed, rows, script, starts>>

(* The reads of append(): validation, a batch that is there already, the     *)
(* count of rows.                                                            *)
Check(c) ==
  LET mine == collector[c]
      i == mine.next
  IN /\ mine.pc = "append"
     /\ \/ /\ ~Valid(rows, i, mine.batch)
           /\ Failed(c)
        \/ /\ Valid(rows, i, mine.batch) /\ i <= Len(rows)
           /\ IF Replays(rows, i, mine.batch)
              THEN collector' = [collector EXCEPT ![c] = Advanced(mine)]
              ELSE Failed(c)
        \/ /\ Valid(rows, i, mine.batch) /\ i > Len(rows)
           /\ IF IsNext(rows, i)
              THEN collector' = [collector EXCEPT ![c].pc = "insert"]
              ELSE Failed(c)
     /\ UNCHANGED <<feed, rows, script, starts>>

(* A mutant: the table has no primary key.                                   *)
KeyUnchecked(i) == i \in Nat

(* The transaction: the sequence number is the primary key.                  *)
KeyIsFree(i) == i > Len(rows)

Insert(c) ==
  LET mine == collector[c]
  IN /\ mine.pc = "insert"
     /\ IF KeyIsFree(mine.next)
        THEN /\ rows' = Append(rows, mine.batch)
             /\ collector' = [collector EXCEPT ![c] = Advanced(mine)]
        ELSE /\ Failed(c)
             /\ UNCHANGED rows
     /\ UNCHANGED <<feed, script, starts>>

Finish(c) ==
  /\ collector[c].pc = "run" /\ collector[c].next > collector[c].last
  /\ collector' = [collector EXCEPT ![c] = [Idle EXCEPT !.pc = IF Verifies(rows, FALSE)
                                                               THEN "done" ELSE "failed"]]
  /\ UNCHANGED <<feed, rows, script, starts>>

(* A transport error or the death of the process: nothing is rolled back     *)
(* that was committed and nothing uncommitted stays.                         *)
Kill(c) ==
  /\ collector[c].pc \in {"run", "take", "append", "insert"}
  /\ collector' = [collector EXCEPT ![c] = [Idle EXCEPT !.pc = "killed"]]
  /\ UNCHANGED <<feed, rows, script, starts>>

--------------------------------------------------------------------------------
(* The recovery script.                                                      *)

RemainingMonth == SameMonth(Len(rows) + 1, Len(Plan))

Prepared(i) ==
  Feeds[feed].month[Plan[i].symbol][Plan[i].period].kind = "good"

Script(r, pc) == script' = [script EXCEPT ![r].pc = pc]

(* `--verify` in a process of its own, before any download.                  *)
ScriptVerify(r) ==
  /\ script[r].pc = "off"
  /\ Script(r, IF Verifies(rows, FALSE) THEN "next" ELSE "failed")
  /\ UNCHANGED <<feed, rows, collector, starts>>

(* next_group: the committed rows are a prefix of the plan and the rest of   *)
(* the month they end in, or the next one, is due.                           *)
ScriptNext(r) ==
  /\ script[r].pc = "next"
  /\ IF ~Verifies(rows, FALSE) THEN Script(r, "failed")
     ELSE IF RemainingMonth = {} THEN Script(r, "done")
     ELSE script' = [script EXCEPT ![r] = [pc |-> "prepare", before |-> Len(rows),
                                           group |-> Cardinality(RemainingMonth), child |-> {}]]
  /\ UNCHANGED <<feed, rows, collector, starts>>

ScriptPrepare(r) ==
  /\ script[r].pc = "prepare"
  /\ Script(r, IF \A k \in 1 .. script[r].group : Prepared(script[r].before + k)
               THEN "launch" ELSE "failed")
  /\ UNCHANGED <<feed, rows, collector, starts>>

ScriptLaunch(r) ==
  /\ script[r].pc = "launch" /\ starts < Feeds[feed].starts
  /\ \E c \in Collectors, parallel \in BOOLEAN :
       /\ collector[c].pc \in {"off", "failed", "killed", "done"}
       /\ \A s \in Recoverers : c \notin script[s].child
       /\ Opened(c, script[r].group, parallel)
       /\ script' = [script EXCEPT ![r].pc = "wait", ![r].child = {c}]
  /\ starts' = starts + 1
  /\ UNCHANGED <<feed, rows>>

(* The child's exit code, then the count of committed batches again.         *)
ScriptCheck(r) ==
  /\ script[r].pc = "wait"
  /\ \A c \in script[r].child : collector[c].pc \in {"done", "failed", "killed"}
  /\ script' = [script EXCEPT ![r].child = {},
       ![r].pc = IF /\ \A c \in script[r].child : collector[c].pc = "done"
                    /\ Verifies(rows, FALSE)
                    /\ Len(rows) = script[r].before + script[r].group
                 THEN "next" ELSE "failed"]
  /\ UNCHANGED <<feed, rows, collector, starts>>

(* The script dies; a collector it started goes on.                          *)
ScriptKill(r) ==
  /\ script[r].pc \in {"next", "prepare", "launch", "wait"}
  /\ script' = [script EXCEPT ![r].pc = "killed", ![r].child = {}]
  /\ UNCHANGED <<feed, rows, collector, starts>>

CollectorStep(c) == Submit(c) \/ Take(c) \/ Check(c) \/ Insert(c) \/ Finish(c)
ScriptStep(r) == ScriptNext(r) \/ ScriptPrepare(r) \/ ScriptLaunch(r) \/ ScriptCheck(r)

CollectionNext ==
  \/ \E c \in Collectors : Start(c) \/ CollectorStep(c) \/ Kill(c)
  \/ \E r \in Recoverers : ScriptVerify(r) \/ ScriptStep(r) \/ ScriptKill(r)

CollectionSpec == CollectionInit /\ [][CollectionNext]_collectionVars

--------------------------------------------------------------------------------
(* What the months of the feed hold, without a ledger.                       *)
PriorOf(i) ==
  IF Plan[i].period = 0 THEN <<>>
  ELSE <<Last(MonthTrades(feed, Plan[i].symbol, Plan[i].period - 1))>>

(* However collectors race, die and start over, one at a time or a month in  *)
(* parallel, with the months before a batch read early or late, the ledger   *)
(* is what one undisturbed pass over the archives writes (append, collect).  *)
LedgerIsReplay ==
  \A i \in DOMAIN rows : rows[i] = ExtractBatch(Feeds[feed], i, PriorOf(i)) /\ rows[i] # Raised

(* The targets of the study look back across the months and never ahead: a   *)
(* window's reference is the last published trade at or before its boundary, *)
(* its target lies in (T, T + Window], and a clean one skips no trade number *)
(* from its reference to its last trade (extract_phase_peak_windows).        *)
SymbolTrades(symbol) ==
  FlattenSeq([p \in 1 .. Months |-> MonthTrades(feed, symbol, p - 1)])

WindowsAreCausal ==
  \A i \in DOMAIN rows : \A k \in DOMAIN rows[i].windows :
    LET w == rows[i].windows[k]
        published == Range(SymbolTrades(rows[i].symbol))
        past == {t \in published : t.t <= w.start}
        target == {t \in published : w.start < t.t /\ t.t <= w.end}
        numbers(trades) == {t.id : t \in trades}
    IN /\ w.reference = CHOOSE n \in numbers(past) : \A m \in numbers(past) : m <= n
       /\ w.first = CHOOSE n \in numbers(target) : \A m \in numbers(target) : n <= m
       /\ w.last = CHOOSE n \in numbers(target) : \A m \in numbers(target) : m <= n
       /\ w.count = Cardinality(target)
       /\ IsClean(w) => w.reference .. w.last \subseteq numbers(published)

(* A trade the ledger treats as missing is missing from the exchange's daily *)
(* archives too, unless the gap runs over midnight and the daily archives    *)
(* have all of it (corroborate_aggregate_gaps, _cross_day).                  *)
DailyNumbers(symbol, days) ==
  UNION {{Feeds[feed].day[symbol][d].trades[k].id : k \in DOMAIN Feeds[feed].day[symbol][d].trades} : d \in days}

GapsAreReproduced ==
  \A i \in DOMAIN rows : \A k \in DOMAIN rows[i].gaps :
    LET gap == rows[i].gaps[k]
        missing == gap.prev + 1 .. gap.next - 1
        daily == DailyNumbers(rows[i].symbol, DayOf(gap.from) .. DayOf(gap.to))
    IN \/ missing \cap daily = {}
       \/ DayOf(gap.from) < DayOf(gap.to) - 1 /\ missing \subseteq daily

(* README: a clean target excludes every window a missing trade touches.     *)
(* A window is clean here although a number of its own span is missing: the  *)
(* gap is charged to the window its next trade falls into.                   *)
CleanTargetsAreWhole ==
  \A symbol \in Range(Symbols) : \A phase \in Phases :
    \A w \in Range(PhaseReturns(rows, symbol, phase, TRUE)) :
      \A n \in Feeds[feed].withheld[symbol] : ~(w.start < n.t /\ n.t <= w.end)
================================================================================
