------------------------------ MODULE PeakWindows ------------------------------
(****************************************************************************)
(* What one monthly archive of aggregate trades yields to the quarter-hour   *)
(* study (aggtrades.py): the windows (T, T + Window] at every planned phase, *)
(* the gaps in the trade numbers, and the proof of each gap by the daily     *)
(* archives.  Time is counted in ticks; prices and quantities are left out,  *)
(* a window keeps which trades it was computed from.                         *)
(****************************************************************************)
EXTENDS Integers, Sequences, FiniteSets, SequencesExt

CONSTANTS Quarter,   \* ticks from one boundary of a phase to the next
          Phases,    \* the planned phase offsets
          Window,    \* ticks of a forward window
          Day        \* ticks of a UTC day

ASSUME GridAssumption ==
  /\ Quarter \in Nat \ {0} /\ Window \in Nat \ {0} /\ Day \in Nat \ {0} /\ Day % Quarter = 0
  /\ Phases # {} /\ Phases \subseteq 0 .. Quarter - 1
  /\ \A p \in Phases : /\ p + Window < Quarter
                       /\ \A q \in Phases : p < q => p + Window <= q

Raised == [raised |-> TRUE]      \* what a function that raises returns here

(* An aggregate trade: its number, the raw trades it stands for, its time.  *)
InOrder(earlier, later) ==
  /\ later.id > earlier.id
  /\ later.t >= earlier.t
  /\ later.lo > earlier.hi

Ordered(trades) == \A i \in 1 .. Len(trades) - 1 : InOrder(trades[i], trades[i + 1])

(* A published file as the loader meets it: "good", or one of the ways it    *)
(* can be unusable (not published, empty answer, wrong digest, bad ZIP).  An *)
(* archive without rows is refused as well, so <<>> stands for refused.      *)
Loaded(file, start, end) ==
  IF /\ file.kind = "good"
     /\ \A i \in DOMAIN file.trades : start <= file.trades[i].t /\ file.trades[i].t < end
  THEN file.trades
  ELSE <<>>

(* A daily archive is read through once when it is loaded.                   *)
LoadedDay(file, day) ==
  LET trades == Loaded(file, day * Day, (day + 1) * Day)
  IN IF Ordered(trades) THEN trades ELSE <<>>

DailyManifest(day, trades) ==
  [day |-> day, rows |-> Len(trades),
   firstId |-> Head(trades).id, lastId |-> Last(trades).id,
   firstTime |-> Head(trades).t, lastTime |-> Last(trades).t,
   missing |-> Last(trades).id - Head(trades).id - (Len(trades) - 1)]

(* What a pass over a sequence keeps of it: the elements at some places.     *)
Kept(s, places) ==
  LET kept[n \in 0 .. Len(s)] ==
        IF n = 0 THEN <<>>
        ELSE IF n \in places THEN Append(kept[n - 1], s[n]) ELSE kept[n - 1]
  IN kept[Len(s)]

(* The boundaries of every phase inside a period, earliest first.            *)
Boundaries(start, end) ==
  LET ticks == [k \in 1 .. end - start |-> start + k - 1]
      grid == Kept(ticks, {k \in DOMAIN ticks : ticks[k] % Quarter \in Phases})
  IN [k \in DOMAIN grid |-> <<grid[k], grid[k] % Quarter>>]

Gap(earlier, later, inPeriod) ==
  [prev |-> earlier.id, next |-> later.id, missing |-> later.id - earlier.id - 1,
   from |-> earlier.t, to |-> later.t, inPeriod |-> inPeriod]

(* The trades a scan walks over: the last one of the preceding archive, when *)
(* there is one, and then the archive's own.                                 *)
Scanned(prior, trades) == prior \o trades

Gaps(prior, trades) ==
  LET all == Scanned(prior, trades)
      steps == [i \in 1 .. Len(all) - 1 |-> Gap(all[i], all[i + 1], i > Len(prior))]
  IN Kept(steps, {i \in DOMAIN steps : steps[i].missing > 0})

(* A mutant: a trade at the very boundary counts for the window after it.    *)
UpToExclusive(all, time) == Cardinality({i \in DOMAIN all : all[i].t < time})

UpTo(all, time) == Cardinality({i \in DOMAIN all : all[i].t <= time})

(* The window at one boundary: its reference is the last trade at or before  *)
(* it, its target the trades up to Window ticks later.                       *)
WindowAt(all, boundary) ==
  LET r == UpTo(all, boundary[1])
      e == UpTo(all, boundary[1] + Window)
  IN [start |-> boundary[1], end |-> boundary[1] + Window, phase |-> boundary[2],
      reference |-> all[r].id, first |-> all[r + 1].id, last |-> all[e].id, count |-> e - r,
      missing |-> all[e].id - all[r].id - (e - r),
      missingRaw |-> LET Raw[i \in r .. e] ==
                           IF i = r THEN 0 ELSE Raw[i - 1] + all[i].lo - all[i - 1].hi - 1
                     IN Raw[e]]

MissingReference(all, boundary) == UpTo(all, boundary[1]) = 0
EmptyTarget(all, boundary) == UpTo(all, boundary[1]) = UpTo(all, boundary[1] + Window)

(* extract_phase_peak_windows: one pass over the archive.                    *)
Extract(symbol, period, start, end, trades, prior) ==
  LET all == Scanned(prior, trades)
      grid == Boundaries(start, end)
      referenced == Kept(grid, {k \in DOMAIN grid : ~MissingReference(all, grid[k])})
      traded == Kept(referenced, {k \in DOMAIN referenced : ~EmptyTarget(all, referenced[k])})
      own == Len(trades)
  IN IF trades = <<>> \/ ~Ordered(all) \/ (\E i \in DOMAIN prior : prior[i].t >= start)
     THEN Raised
     ELSE [symbol |-> symbol, period |-> period,
           firstId |-> Head(trades).id, lastId |-> Last(trades).id,
           firstRaw |-> Head(trades).lo, firstTime |-> Head(trades).t,
           lastTime |-> Last(trades).t,
           missing |-> Last(trades).id - Head(trades).id - (own - 1),
           windows |-> [i \in DOMAIN traded |-> WindowAt(all, traded[i])],
           lastTrade |-> Last(trades),
           expected |-> Len(grid),
           empty |-> Len(referenced) - Len(traded),
           noReference |-> Len(grid) - Len(referenced),
           gaps |-> Gaps(prior, trades),
           proofs |-> <<>>]

DayOf(time) == time \div Day

(* A mutant: both trades are there, but others may lie between them.         *)
EndpointsExist(gap, trades) ==
  {gap.prev, gap.next} \subseteq {trades[i].id : i \in DOMAIN trades}

(* A gap between two trades of one day: the day's archive has the same two   *)
(* trades next to each other.                                                *)
SameDayGapIsReproduced(gap, trades) ==
  \E i \in 1 .. Len(trades) - 1 :
     Gap(trades[i], trades[i + 1], gap.inPeriod) = gap

(* A gap over midnight: the daily archives, one after the other, lead from   *)
(* its first trade to its second either directly or without any gap at all.  *)
CrossDayGapIsReproduced(gap, all) ==
  \E i, j \in DOMAIN all :
     /\ i < j
     /\ \A k \in 1 .. i - 1 : all[k].id < gap.prev
     /\ all[i].id = gap.prev /\ all[i].t = gap.from
     /\ all[j].id = gap.next /\ all[j].t = gap.to
     /\ \A k \in i .. j - 1 : InOrder(all[k], all[k + 1])
     /\ \/ j = i + 1
        \/ \A k \in i .. j - 1 : all[k + 1].id = all[k].id + 1

(* corroborate_aggregate_gaps: every gap bound to the manifests of the days  *)
(* it spans, or the whole archive refused.                                   *)
Corroborate(x, days) ==
  LET span(gap) == DayOf(gap.from) .. DayOf(gap.to)
      required == UNION {span(x.gaps[i]) : i \in DOMAIN x.gaps}
      archive == [d \in required |-> LoadedDay(days[d], d)]
      joined(gap) == FlattenSeq([k \in 1 .. Cardinality(span(gap)) |->
                                   archive[DayOf(gap.from) + k - 1]])
      reproduced(gap) == IF DayOf(gap.from) = DayOf(gap.to)
                         THEN SameDayGapIsReproduced(gap, archive[DayOf(gap.from)])
                         ELSE CrossDayGapIsReproduced(gap, joined(gap))
      proof(gap) == [gap |-> gap,
                     days |-> [k \in 1 .. Cardinality(span(gap)) |->
                       DailyManifest(DayOf(gap.from) + k - 1, archive[DayOf(gap.from) + k - 1])]]
  IN IF \E d \in required : archive[d] = <<>> THEN Raised
     ELSE IF \E i \in DOMAIN x.gaps : ~reproduced(x.gaps[i]) THEN Raised
     ELSE [x EXCEPT !.proofs = [i \in DOMAIN x.gaps |-> proof(x.gaps[i])]]
================================================================================
