----------------------------- MODULE MCCampaign -----------------------------
(* The TLC instance of Campaign: four books that tell the gates apart, and  *)
(* lists of up to two intents around every boundary.                        *)
EXTENDS Campaign

Book(trades, gain, loss, days, drawdown) ==
  [at |-> [s \in Symbols |-> [d \in Sides |-> [trades |-> trades, gain |-> gain, loss |-> loss]]],
   costs |-> 1, days |-> days, drawdown |-> drawdown, sharpe |-> IF gain > loss THEN 1 ELSE 0]

MCBooks ==
  {Book(2, 3, 1, {1, 2}, 1),   \* a good one, with twice the trades
   Book(1, 2, 1, {1, 2}, 2),   \* a thinner one
   Book(1, 2, 0, {1, 2}, 0),   \* winning trades only
   Book(1, 1, 2, {1, 2}, 4)}   \* a losing one

(* BASELINE and STRESS, and what else they could be set to.                  *)
Calm == Execution(0, 1, 1, 1, 2, 5, "unavailable", 0, 9)
Hard == Execution(2, 2, 2, 1, 2, 5, "assumed", 3, 9)
MCMarkets ==
  {[baseline |-> Calm, stress |-> x] : x \in
     {Hard,
      [Hard EXCEPT !.latency = 4],          \* slower than the protocol knows
      [Hard EXCEPT !.participation = 9],    \* more of the volume than the baseline
      [Hard EXCEPT !.rate = 0],             \* no funding under stress
      [Hard EXCEPT !.slippage = 0]}}         \* fills that slip less
MCCandidates ==
  {[holding |-> 3, grace |-> 3],
   [holding |-> 6, grace |-> 0],   \* a latency beyond its grace
   [holding |-> 6, grace |-> 3]}   \* longer than was registered
MCDefault == [market |-> [baseline |-> Calm, stress |-> Hard], candidate |-> [holding |-> 3, grace |-> 3]]

MCDates == 0 .. RobustnessEnd

(* Bound: the moments at which a generator may decide: on both sides of the  *)
(* evaluation's start, of the cutoff and of its end.                         *)
Moments(r) ==
  {t - 1 : t \in {r.from, r.from + Minute, Cutoff(r), Cutoff(r) + Minute, r.to, r.to + Minute}}
Waits(r) == IF r.kind \in {"direct", "development"} THEN {0, Minute} ELSE {0}
MCLists(r) ==
  LET some == {Intent(t, w) : t \in Moments(r), w \in Waits(r)}
  IN  {<<>>} \cup {<<i>> : i \in some}
        \cup {<<i, j>> : i, j \in some}
=============================================================================
