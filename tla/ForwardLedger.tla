--------------------------- MODULE ForwardLedger ---------------------------
(***************************************************************************)
(* forward_observation.py and forward_collection.py: the SQLite ledger of  *)
(* a forward campaign, the commands that append to it, and the             *)
(* verification that reads it back.  A process may die between any two     *)
(* statements; what it had not committed is rolled back.                   *)
(*                                                                         *)
(* Minute m is the bar that opens m minutes after the warm-up start, and   *)
(* day d is the minutes from d * DayLength on.  A bar is its content, and  *)
(* a hash is what it identifies, the contents of the bars chained.         *)
(***************************************************************************)
EXTENDS Integers, Sequences, FiniteSets

CONSTANTS
    Processes,
    Commands,       \* per process, the commands it may be given
    SymbolCount,    \* the symbols of the plan are 1..SymbolCount, in order
    Contents,       \* what a closed bar may say
    Official,       \* per symbol and minute, what the archives say
    Lines,          \* the bars that someone may submit one by one
    Ranges,         \* the first day and the day after the last that someone may ask for
    DayLength,
    LastDay,        \* bound: no day after this one begins
    BlindStart,     \* the first minute that may emit an intent
    Window,         \* OBSERVATION_WINDOW_BARS
    DecisionPeriod,
    Signals,        \* the windows on which the frozen strategy emits an intent
    MaxFailures,    \* bound: processes that die or give up waiting for the lock
    None

Symbols == 1..SymbolCount

Line == [symbol : Symbols, minute : Nat, content : Contents]

ASSUME LedgerBounds ==
    /\ SymbolCount \in Nat \ {0}
    /\ DayLength \in Nat \ {0}
    /\ LastDay \in Nat
    /\ BlindStart \in Nat
    /\ Window \in Nat \ {0}
    /\ DecisionPeriod \in Nat \ {0}
    /\ MaxFailures \in Nat
    /\ Official \in [Symbols -> [0..(LastDay * DayLength - 1) -> Contents]]
    /\ Lines \subseteq Line
    /\ Ranges \subseteq {range \in Nat \X Nat : range[1] < range[2]}
    /\ Signals \subseteq Seq(Contents)
    /\ None \notin {"conflict", "boundary", "gap", "refused"}

VARIABLES
    ledger,      \* per symbol, its row of symbol_state, its bars and its intents
    tx,          \* the write transaction under way, or None
    run,         \* per process, the command it executes
    published,   \* the days of each symbol whose archive is available
    today,
    failures,
    violated     \* history: the symbols whose ingestion met a violation

vars == <<ledger, tx, run, published, today, failures, violated>>

Opens(d) == d * DayLength

Violations == {"conflict", "boundary", "gap"}
Row == [minute : Nat, content : Contents, before : Seq(Contents)]
StoredIntent == [minute : Nat, window : Seq(Contents)]
\* last is -1 for an empty chain; head is what last_record_sha256 identifies.
Entry == [last : Nat \cup {-1}, head : Seq(Contents), count : Nat, emitted : Nat,
          blocked : Violations \cup {None}, bars : SUBSET Row, intents : SUBSET StoredIntent]

ASSUME NoneIsNoTransaction == None \notin [by : Processes, entry : Entry]

NoEntry == [last |-> -1, head |-> <<>>, count |-> 0, emitted |-> 0, blocked |-> None,
            bars |-> {}, intents |-> {}]

PCs == {"idle", "stage", "begin", "insert", "block", "state", "bars", "intents", "alarm"}
StateRows == [last : Nat \cup {-1}, head : Seq(Contents), count : Nat, emitted : Nat]
NoRow == [last |-> -1, head |-> <<>>, count |-> 0, emitted |-> 0]

\* day..until-1 are the days of an archive command, next the minute of the transaction,
\* seen the row of symbol_state a verification has read; disturbed (history) says
\* that someone has committed bars of that symbol since.
Run == [pc : PCs, command : {"none", "sync", "collect", "import", "line", "verify"},
        day : Nat, until : Nat, symbol : Symbols, next : Nat,
        line : Lines \cup {None}, reason : Violations \cup {"refused", None},
        seen : StateRows, disturbed : BOOLEAN]

Idle == [pc |-> "idle", command |-> "none", day |-> 0, until |-> 0, symbol |-> 1,
         next |-> 0, line |-> None, reason |-> None, seen |-> NoRow,
         disturbed |-> FALSE]

TypeOK ==
    /\ ledger \in [Symbols -> Entry]
    /\ tx \in [by : Processes, entry : Entry] \cup {None}
    /\ run \in [Processes -> Run]
    /\ published \subseteq Symbols \X Nat
    /\ today \in 0..LastDay
    /\ failures \in 0..MaxFailures
    /\ violated \subseteq Symbols

Init ==
    /\ ledger = [s \in Symbols |-> NoEntry]
    /\ tx = None
    /\ run = [p \in Processes |-> Idle]
    /\ published = {}
    /\ today = 0
    /\ failures = 0
    /\ violated = {}

----------------------------------------------------------------------------
(* One bar of one symbol, inside a transaction.                            *)

\* _ingest_in_transaction, up to what it refuses.
Verdict(e, m, c) ==
    LET stored == {r \in e.bars : r.minute = m}
    IN  IF e.blocked # None THEN "refused"
        ELSE IF stored # {} THEN IF \A r \in stored : r.content = c THEN "duplicate"
                                 ELSE "conflict"
        ELSE IF e.last = -1 /\ m # 0 THEN "boundary"
        ELSE IF e.last # -1 /\ m # e.last + 1 THEN "gap"
        ELSE "insert"

IsDecision(m) == (m + 1) % DecisionPeriod = 0

\* The latest Window bars that end with minute m, when all of them are stored.
Complete(bars, m) == \A k \in 1..Window : \E r \in bars : r.minute = m - Window + k
History(bars, m) ==
    [k \in 1..Window |-> (CHOOSE r \in bars : r.minute = m - Window + k).content]

\* Bug: a replayed warm-up emits intents too.
EmittedInWarmup(bars, m) ==
    IF IsDecision(m) /\ Complete(bars, m) /\ History(bars, m) \in Signals
    THEN {[minute |-> m, window |-> History(bars, m)]}
    ELSE {}

\* _persist_intents: what the frozen strategy emits on the bar just stored.
Emitted(bars, m) ==
    IF m >= BlindStart /\ IsDecision(m) /\ Complete(bars, m)
       /\ History(bars, m) \in Signals
    THEN {[minute |-> m, window |-> History(bars, m)]}
    ELSE {}

Previous(e) == IF e.last = -1 THEN <<>> ELSE e.head

\* Bug: the counter of intents is left for a later transaction.
StoredUncounted(e, m, c) ==
    LET bars == e.bars \cup {[minute |-> m, content |-> c, before |-> Previous(e)]}
    IN  [e EXCEPT !.last = m, !.head = Append(Previous(e), c), !.count = @ + 1,
                  !.bars = bars, !.intents = @ \cup Emitted(bars, m)]

Stored(e, m, c) ==
    LET bars == e.bars \cup {[minute |-> m, content |-> c, before |-> Previous(e)]}
        new == Emitted(bars, m) \ e.intents
    IN  [e EXCEPT !.last = m, !.head = Append(Previous(e), c), !.count = @ + 1,
                  !.bars = bars, !.intents = @ \cup new, !.emitted = @ + Cardinality(new)]

----------------------------------------------------------------------------
(* verify_integrity, and the watermark of status().                        *)

StateRow(e) == [last |-> e.last, head |-> e.head, count |-> e.count, emitted |-> e.emitted]

BarsVerify(row, bars) ==
    LET n == Cardinality(bars)
    IN  /\ {r.minute : r \in bars} = 0..(n - 1)
        /\ \A r \in bars : r.minute = 0 => r.before = <<>>
        /\ \A r \in bars, q \in bars :
              q.minute = r.minute + 1 => q.before = Append(r.before, r.content)
        /\ row.count = n
        /\ \A r \in bars : r.minute = n - 1 =>
              row.last = r.minute /\ row.head = Append(r.before, r.content)

\* The decision bar and the first bar of the window are looked up, the others are not.
IntentsVerify(row, bars, intents) ==
    /\ \A i \in intents :
          /\ i.minute >= BlindStart
          /\ Len(i.window) = Window
          /\ \E r \in bars : r.minute = i.minute /\ r.content = i.window[Window]
          /\ \E r \in bars : r.minute = i.minute - Window + 1 /\ r.content = i.window[1]
    /\ row.emitted = Cardinality(intents)

\* The minute at which all symbols have arrived, when none is blocked or empty.
IsWatermark(w) ==
    /\ \A s \in Symbols : /\ ledger[s].blocked = None
                          /\ ledger[s].last # -1
                          /\ w <= ledger[s].last + 1
    /\ \E s \in Symbols : w = ledger[s].last + 1

----------------------------------------------------------------------------
(* The commands.                                                           *)

May(p, command) == run[p].pc = "idle" /\ command \in Commands[p]

Quiet == <<ledger, tx, published, today, failures, violated>>

\* Bug: a sync wants all symbols to have arrived at the same minute.
EvenWatermark(w) == IsWatermark(w) /\ \A s \in Symbols : w = ledger[s].last + 1

SyncStart(w) == IsWatermark(w)

\* sync_latest_daily_archives, which refuses a watermark that is not a midnight.
StartSync(p) ==
    /\ May(p, "sync")
    /\ \E d \in 0..today :
          /\ SyncStart(Opens(d))
          /\ run' = [run EXCEPT ![p] = [Idle EXCEPT !.pc = "stage", !.command = "sync",
                                                    !.day = d, !.until = today]]
    /\ UNCHANGED Quiet

\* collect_daily_archives and ingest_monthly_archives, for finished days.
StartArchives(p) ==
    /\ \E command \in {"collect", "import"}, range \in Ranges :
          /\ May(p, command)
          /\ range[2] <= today
          /\ run' = [run EXCEPT ![p] = [Idle EXCEPT !.pc = "stage", !.command = command,
                                                    !.day = range[1], !.until = range[2]]]
    /\ UNCHANGED Quiet

\* ingest_bar of one line, refused without a trace before the bar has closed.
StartLine(p) ==
    /\ May(p, "line")
    /\ \E l \in Lines :
          /\ l.minute < Opens(today + 1)
          /\ run' = [run EXCEPT ![p] = [Idle EXCEPT !.pc = "begin", !.command = "line",
                                                    !.symbol = l.symbol, !.line = l]]
    /\ UNCHANGED Quiet

StartVerify(p) ==
    /\ May(p, "verify")
    /\ run' = [run EXCEPT ![p] = [Idle EXCEPT !.pc = "state", !.command = "verify"]]
    /\ UNCHANGED Quiet

\* What the archives that a command stages next cover: a sync goes day by day and
\* an import symbol by symbol.
Days(r) == IF r.command = "sync" THEN {r.day} ELSE r.day..(r.until - 1)
Staged(r) == (IF r.command = "import" THEN {r.symbol} ELSE Symbols) \X Days(r)

\* Every archive is read before any symbol advances.  One that is missing ends the
\* command, whether it is late or overdue, and so does the last day of a sync.
Stage(p) ==
    /\ run[p].pc = "stage"
    /\ run' = [run EXCEPT ![p] = IF run[p].day < run[p].until /\ Staged(run[p]) \subseteq published
                                 THEN [@ EXCEPT !.pc = "begin"] ELSE Idle]
    /\ UNCHANGED Quiet

----------------------------------------------------------------------------
(* ingest_atomic and ingest_bar: one write transaction for one symbol.     *)

First(r) == IF r.command = "line" THEN r.line.minute ELSE Opens(r.day)
Past(r) == IF r.command = "line" THEN r.line.minute + 1
           ELSE Opens(IF r.command = "sync" THEN r.day + 1 ELSE r.until)
Content(r) == IF r.command = "line" THEN r.line.content ELSE Official[r.symbol][r.next]

Begin(p) ==
    /\ run[p].pc = "begin"
    /\ tx = None
    /\ tx' = [by |-> p, entry |-> ledger[run[p].symbol]]
    /\ run' = [run EXCEPT ![p].pc = "insert", ![p].next = First(run[p])]
    /\ UNCHANGED <<ledger, published, today, failures, violated>>

Inserting(p) == run[p].pc = "insert" /\ run[p].next < Past(run[p])
VerdictOf(p) == Verdict(tx.entry, run[p].next, Content(run[p]))

Insert(p) ==
    /\ Inserting(p)
    /\ VerdictOf(p) = "insert"
    /\ tx' = [tx EXCEPT !.entry = Stored(@, run[p].next, Content(run[p]))]
    /\ run' = [run EXCEPT ![p].next = @ + 1]
    /\ UNCHANGED <<ledger, published, today, failures, violated>>

SkipDuplicate(p) ==
    /\ Inserting(p)
    /\ VerdictOf(p) = "duplicate"
    /\ run' = [run EXCEPT ![p].next = @ + 1]
    /\ UNCHANGED Quiet

\* Everything since BEGIN is rolled back; the quarantine is a transaction of its own.
Violate(p) ==
    /\ Inserting(p)
    /\ VerdictOf(p) \in Violations \cup {"refused"}
    /\ tx' = None
    /\ run' = [run EXCEPT ![p].pc = "block", ![p].reason = VerdictOf(p)]
    /\ violated' = violated \cup {run[p].symbol}
    /\ UNCHANGED <<ledger, published, today, failures>>

\* Bug: the latest reason replaces the first, and a refusal lifts the quarantine.
BlockAnew(old, reason) == IF reason = "refused" THEN None ELSE reason

\* COALESCE(blocked_reason, ?); a refusal finds a reason there already.
Coalesced(old, reason) == IF old = None THEN reason ELSE old

Block(p) ==
    /\ run[p].pc = "block"
    /\ tx = None
    /\ ledger' = [ledger EXCEPT ![run[p].symbol].blocked = Coalesced(@, run[p].reason)]
    /\ run' = [run EXCEPT ![p] = Idle]
    /\ UNCHANGED <<tx, published, today, failures, violated>>

\* q has read the counters of s, and not yet all that they count.
Between(q, s) == run[q].pc \in {"bars", "intents"} /\ run[q].symbol = s

\* Where a command goes on when a symbol is committed.
Committed(r) ==
    IF r.command = "line" THEN Idle
    ELSE IF r.symbol < SymbolCount
    THEN [r EXCEPT !.symbol = @ + 1, !.next = 0,
                   !.pc = IF r.command = "import" THEN "stage" ELSE "begin"]
    ELSE [r EXCEPT !.symbol = 1, !.next = 0, !.pc = "state"]

Commit(p) ==
    /\ run[p].pc = "insert"
    /\ run[p].next = Past(run[p])
    /\ ledger' = [ledger EXCEPT ![run[p].symbol] = tx.entry]
    /\ tx' = None
    /\ run' = [q \in Processes |-> IF q = p THEN Committed(run[p])
                                   ELSE [run[q] EXCEPT !.disturbed =
                                                           @ \/ Between(q, run[p].symbol)]]
    /\ UNCHANGED <<published, today, failures, violated>>

----------------------------------------------------------------------------
(* verify_integrity reads in three statements per symbol, not in one.      *)

ReadState(p) ==
    /\ run[p].pc = "state"
    /\ run' = [run EXCEPT ![p].pc = "bars", ![p].disturbed = FALSE,
                          ![p].seen = StateRow(ledger[run[p].symbol])]
    /\ UNCHANGED Quiet

ReadBars(p) ==
    /\ run[p].pc = "bars"
    /\ run' = [run EXCEPT ![p].pc = IF BarsVerify(run[p].seen, ledger[run[p].symbol].bars)
                                    THEN "intents" ELSE "alarm"]
    /\ UNCHANGED Quiet

\* A sync goes on with its next day; any other command has ended.
Verified(r) ==
    IF r.symbol < SymbolCount
    THEN [r EXCEPT !.pc = "state", !.symbol = @ + 1, !.seen = NoRow, !.disturbed = FALSE]
    ELSE IF r.command = "sync" THEN [Idle EXCEPT !.pc = "stage", !.command = "sync",
                                                 !.day = r.day + 1, !.until = r.until]
    ELSE Idle

ReadIntents(p) ==
    /\ run[p].pc = "intents"
    /\ LET e == ledger[run[p].symbol]
       IN  run' = [run EXCEPT ![p] = IF IntentsVerify(@.seen, e.bars, e.intents)
                                     THEN Verified(@) ELSE [@ EXCEPT !.pc = "alarm"]]
    /\ UNCHANGED Quiet

\* The command fails, whatever it has committed.
Raise(p) ==
    /\ run[p].pc = "alarm"
    /\ run' = [run EXCEPT ![p] = Idle]
    /\ UNCHANGED Quiet

----------------------------------------------------------------------------
\* A process dies, or gives up after busy_timeout; SQLite undoes its transaction.
Fail(p) ==
    /\ run[p].pc # "idle"
    /\ failures < MaxFailures
    /\ failures' = failures + 1
    /\ run' = [run EXCEPT ![p] = Idle]
    /\ tx' = IF run[p].pc = "insert" THEN None ELSE tx
    /\ UNCHANGED <<ledger, published, today, violated>>

NextDay ==
    /\ today < LastDay
    /\ today' = today + 1
    /\ UNCHANGED <<ledger, tx, run, published, failures, violated>>

\* Archives appear in any order, and stay as they are.
Publish ==
    /\ \E s \in Symbols, d \in 0..LastDay :
          /\ d < today
          /\ <<s, d>> \notin published
          /\ published' = published \cup {<<s, d>>}
    /\ UNCHANGED <<ledger, tx, run, today, failures, violated>>

Start(p) == StartSync(p) \/ StartArchives(p) \/ StartLine(p) \/ StartVerify(p)

Continue(p) ==
    \/ Stage(p)
    \/ Begin(p) \/ Insert(p) \/ SkipDuplicate(p) \/ Violate(p) \/ Block(p) \/ Commit(p)
    \/ ReadState(p) \/ ReadBars(p) \/ ReadIntents(p) \/ Raise(p)

Next ==
    \/ \E p \in Processes : Start(p) \/ Continue(p) \/ Fail(p)
    \/ NextDay \/ Publish

Spec == Init /\ [][Next]_vars

\* A command that runs goes on, the lock is granted to whoever keeps waiting for it,
\* and a sync is started again and again.
FairSpec ==
    /\ Spec
    /\ \A p \in Processes : WF_vars(Continue(p)) /\ SF_vars(Begin(p) \/ Block(p))
    /\ \A p \in Processes : "sync" \in Commands[p] => SF_vars(StartSync(p))

----------------------------------------------------------------------------
\* Whatever is committed passes the verification of restarts, evaluations and
\* backups (597-671), over any mixture of lines, days, months, rollbacks and deaths.
LedgerVerifies ==
    \A s \in Symbols : /\ BarsVerify(StateRow(ledger[s]), ledger[s].bars)
                       /\ IntentsVerify(StateRow(ledger[s]), ledger[s].bars, ledger[s].intents)

\* The intents are those the strategy makes of the chain, no more and no fewer:
\* replays after an interruption neither repeat one nor leave one out.
IntentsAreReplay ==
    \A s \in Symbols :
        LET chain == ledger[s].head
            window(m) == SubSeq(chain, m - Window + 2, m + 1)
        IN  ledger[s].intents =
                {[minute |-> m, window |-> window(m)] :
                    m \in {n \in 0..(Len(chain) - 1) :
                              /\ n >= BlindStart /\ IsDecision(n) /\ n + 1 >= Window
                              /\ window(n) \in Signals}}

\* A sync that resumes at the common watermark meets neither a gap nor a wrong start,
\* wherever a death between two symbols has left them (266-311).
SyncMeetsOnlyConflicts ==
    \A p \in Processes :
        run[p].command = "sync" /\ run[p].pc = "block" => run[p].reason \in {"conflict", "refused"}

\* A verification fails only beside a commit to the symbol it reads: its statements do
\* not share a snapshot (600-671), but nothing else can make it fail.
AlarmMeansOverlap ==
    \A p \in Processes : run[p].pc = "alarm" => run[p].disturbed

Observations == INSTANCE ObservationLog WITH
    log <- [s \in Symbols |-> ledger[s].head],
    frozen <- [s \in Symbols |-> ledger[s].blocked # None]

\* The chains only grow and a quarantine is never lifted or grown past.
ImplementsObservationLog == Observations!Spec

\* The watermark never stays at a day that is available (266-311): an interrupted or
\* refused sync is made up for by a later one.
CatchesUp ==
    \A d \in 0..(LastDay - 1) :
        IsWatermark(Opens(d)) /\ Symbols \X {d} \subseteq published ~> ~IsWatermark(Opens(d))

\* "A gap, reorder or conflicting final bar permanently quarantines that symbol"
\* (README.md:450): so it is once no command runs any more.
ViolationQuarantines ==
    (\A p \in Processes : run[p].pc = "idle") => \A s \in violated : ledger[s].blocked # None
============================================================================
