------------------------------- MODULE Campaign -------------------------------
(****************************************************************************)
(* One campaign: a managed grid evaluated over a stretch of minutes under a  *)
(* baseline and a stress scenario, as run by the development, order-flow and *)
(* regime/retest campaigns, and a screen: three campaigns of a registered    *)
(* plan, gated and ranked into one selection.  A check that raises ends the  *)
(* campaign and the screen ("refused").                                      *)
(*                                                                           *)
(* The sleeves' generators are outside: they may return any list.  A cell's  *)
(* trading is ManagedCell's business and is abstracted to a book of what the *)
(* gates read.  A minute is Minute units long, so that a bar closes between  *)
(* two openings; a bar is a minute here.                                     *)
(****************************************************************************)
EXTENDS ScenarioPair, Sequences, SequencesExt

CONSTANTS
  Symbols,
  Minute, DayUnits,  \* units in a minute and in a day
  ResearchEnd, SelectionEnd, RobustnessEnd,  \* the days at which the windows end
  ScreenStart, ScreenEnd,  \* the days a screen evaluates, of its research window
  Dates,         \* bound: the days a caller may ask for
  Warmup,        \* history the generators are given before the evaluation
  Holding, Latency,  \* the registered horizon of a position, and latency, in units
  Candidates,    \* bound: candidates, each with the longest holding time and the grace
  Markets,       \* bound: what BASELINE and STRESS may be configured to
  Default,       \* the market and candidate of most requests
  Lists(_),      \* bound: what the generators may return for a request
  MaxIntents,    \* bound: intents generated by a campaign
  Books,         \* bound: what the trading of a scenario may come to
  Trials,        \* trials of a screen
  MinTrades,     \* closed trades a scenario needs (each screen has its own numbers)
  MinSymbolTrades, MinSideTrades,
  MinEarners,    \* symbols that must earn
  MinDays,       \* distinct days with an exit
  MaxDrawdown

ASSUME CampaignUnits ==
  /\ Minute \in Nat \ {0} /\ DayUnits \in Nat \ {0} /\ DayUnits % Minute = 0
  /\ Warmup \in Nat /\ Warmup % DayUnits = 0
  /\ Holding \in Nat \ {0} /\ Latency \in Nat
  /\ Trials \in Nat \ {0} /\ IsFiniteSet(Symbols)

(* The days are counted from the first of the research window.               *)
ASSUME DatesAreDays ==
  Dates \cup {ResearchEnd, SelectionEnd, RobustnessEnd, ScreenStart, ScreenEnd} \subseteq Nat
At(day) == day * DayUnits

(* A book counts in integers, per symbol and side.                           *)
Sides == {"long", "short"}
Tally == [trades : Int, gain : Int, loss : Int]
ASSUME BooksCount ==
  \A b \in Books :
    b.drawdown \in Int /\ \A s \in Symbols, d \in Sides : b.at[s][d] \in Tally

(* A holding time is a number of bars.  A settlement interval is a number of *)
(* minutes: of the configuration nothing but its sign is checked, but an     *)
(* hour is the only one the repository sets.                                 *)
ExecutionType(x) ==
  /\ {x.latency, x.spread, x.slippage, x.jitter, x.fee, x.participation, x.rate,
      x.interval} \subseteq Int
  /\ x.interval % Minute = 0
ASSUME SetupsAreTyped ==
  /\ \A c \in Candidates : c.holding \in Nat /\ c.grace \in Nat /\ c.holding % Minute = 0
  /\ \A m \in Markets : ExecutionType(m.baseline) /\ ExecutionType(m.stress)
  /\ Default.market \in Markets /\ Default.candidate \in Candidates

VARIABLES
  request,  \* what is asked: the kind of campaign, its role, purpose and bounds
  hole,     \* for each symbol, a minute its data lack
  stage,    \* how far the campaign in hand has come
  made,     \* what the generators returned
  kept,     \* the same, by partition
  cells,    \* per scenario, the intents each cell disposed of, in order
  trials,   \* the books of the trials judged so far
  selected  \* the ranking of the screen's eligible trials

campaignVars == <<request, hole, stage, made, kept, cells, trials, selected>>

Kinds == {"direct", "development", "orderflow", "regime_retest"}
Scenarios == {"baseline", "stress"}
NoHole == -1
Nothing == [s \in Symbols |-> <<>>]

(* DEVELOPMENT_WINDOWS: research, selection, robustness, one after the other. *)
Research == Window("research", At(0), At(ResearchEnd))
DevelopmentWindows ==
  {Research, Window("selection", At(ResearchEnd), At(SelectionEnd)),
   Window("robustness", At(SelectionEnd), At(RobustnessEnd))}

(* The frozen protocols: a label of the regime/retest campaign lasts until   *)
(* the next minute opens.                                                    *)
Registered(kind) ==
  [holding |-> Holding, latency |-> Latency,
   label |-> IF kind = "regime_retest" THEN Holding + Minute ELSE Holding]

(* How long an outcome can take, in whole minutes: the terminal embargo of   *)
(* the regime/retest campaign.                                               *)
Purge ==
  LET protocol == Registered("regime_retest")
  IN  PurgeOf(protocol.holding, protocol.label, protocol.latency)
RoundedDown == (Purge \div Minute) * Minute
OperationalHorizon == RoundUp(Purge, Minute)

(* Some hours, of the two days a campaign has at least.                      *)
ASSUME HorizonIsShort == OperationalHorizon <= 2 * DayUnits

(* What a campaign is run with: the configured executions, the candidate     *)
(* and the scenarios, which the factory makes of both.                       *)
Factory(market, candidate) ==
  [baseline |-> Scenario(market.baseline, candidate), stress |-> Scenario(market.stress, candidate)]
Setup(market, candidate) ==
  [market |-> market, candidate |-> candidate, pair |-> Factory(market, candidate)]
DefaultSetup == Setup(Default.market, Default.candidate)

(* The screens ask for fixed bounds inside the research role.                *)
Bounds(window, purpose, from, to) ==
  [window |-> window, purpose |-> purpose, from |-> from, to |-> to]
Ask(kind, bounds, setup) ==
  [kind |-> kind, window |-> bounds.window, purpose |-> bounds.purpose,
   from |-> bounds.from, to |-> bounds.to, setup |-> setup]
Fixed == Bounds(Research, "fit", At(ScreenStart), At(ScreenEnd))
FixedRequest(kind, setup) == Ask(kind, Fixed, setup)

(* A caller of run_development_campaign may ask for anything, and pass       *)
(* scenarios of its own: here, with the hurdle of the baseline under stress. *)
Setups == {Setup(m, c) : m \in Markets, c \in Candidates}
Cheaper(setup) == [setup EXCEPT !.pair.stress.costs = setup.pair.baseline.costs]
Requests ==
  {FixedRequest(k, setup) : k \in Kinds, setup \in Setups}
    \cup {FixedRequest("direct", Cheaper(DefaultSetup))}
    \cup {Ask("direct", Bounds(w, p, At(from), At(to)), DefaultSetup) :
             w \in DevelopmentWindows, p \in Purposes, from \in Dates, to \in Dates}

Later(a, b) == IF a >= b THEN a ELSE b

(* Warmup reaches back into earlier roles, never before the first day.       *)
GenerationStart(r) == Later(0, r.from - Warmup)

(* Where the last evaluated decision must lie before.                        *)
Cutoff(r) == IF r.kind = "regime_retest" THEN r.to - OperationalHorizon ELSE r.to

(* _validated_bounds: inside the role, two complete days at least.           *)
BoundsHold(r) ==
  /\ r.window.start <= r.from /\ r.from < r.to /\ r.to <= r.window.end
  /\ r.to - r.from >= 2 * DayUnits

(* _validate_protocol and _validate_scenarios.                               *)
SetupHolds(r) ==
  LET s == r.setup
      protocol == Registered(r.kind)
  IN  CASE r.kind \in {"direct", "development"} ->
             /\ DevelopmentFits(s.candidate, protocol)
             /\ DevelopmentScenarios(s.pair, s.market, s.candidate, protocol, Minute)
        [] r.kind = "orderflow" ->
             /\ OrderFlowFits(s.candidate, protocol)
             /\ OrderFlowScenarios(s.pair, s.market, s.candidate, protocol, Minute)
        [] r.kind = "regime_retest" ->
             /\ RetestFits(s.candidate, protocol, Minute)
             /\ RetestScenarios(s.pair, s.market, s.candidate, protocol, Minute)

(* The checks of a campaign before it touches the data.                      *)
Admitted(r) ==
  /\ SetupHolds(r)
  /\ r.purpose # "promote"
  /\ Accessible(r.window, r.purpose, Unfrozen, Unfrozen)
  /\ r.window.role # "blind"
  /\ BoundsHold(r)

(* The cache a screen loads, for its own fixed bounds: every minute once, its *)
(* archives' checksums verified.  The caller of a campaign brings candles.   *)
DevelopmentCache(at) == ~ (Fixed.from - Warmup <= at /\ at < Fixed.to)
OrderFlowCache(at) == DevelopmentCache(at)
RetestCache(at) == DevelopmentCache(at)
Loaded(kind, at) ==
  CASE kind = "direct" -> TRUE
    [] kind = "development" -> DevelopmentCache(at)
    [] kind = "orderflow" -> OrderFlowCache(at)
    [] kind = "regime_retest" -> RetestCache(at)

(* The slices: every minute of generation and evaluation, no gap imputed.    *)
DevelopmentSlice(r, at) == ~ (GenerationStart(r) <= at /\ at < r.to)
OrderFlowSlice(r, at) == DevelopmentSlice(r, at)
RetestSlice(r, at) == DevelopmentSlice(r, at)
EveryMinute(r, at) ==
  CASE r.kind \in {"direct", "development"} -> DevelopmentSlice(r, at)
    [] r.kind = "orderflow" -> OrderFlowSlice(r, at)
    [] r.kind = "regime_retest" -> RetestSlice(r, at)

----------------------------------------------------------------------------
(* Intents: decided at the close of a bar, eligible for entry after that.    *)

Intent(decision, wait) == [decision |-> decision, eligible |-> decision + 1 + wait]

(* The generators may return any lists of them.                              *)
IntentType == [decision : Int, eligible : Int]
ASSUME ListsAreTyped == \A r \in Requests : Lists(r) \subseteq Seq(IntentType)

InData(r, list) ==
  \A n \in DOMAIN list : GenerationStart(r) <= list[n].decision /\ list[n].decision < r.to
Distinct(list) == \A m, n \in DOMAIN list : list[m] = list[n] => m = n
Ascending(list, field) == \A n \in DOMAIN list \ {1} : list[n - 1][field] <= list[n][field]

(* The members of a finite set in the order of a relation, a set of pairs:   *)
(* at place k the one that k - 1 others precede.                             *)
Preceding(S, precedes, n) == {m \in S : <<m, n>> \in precedes}
InOrder(S, precedes) ==
  [k \in 1 .. Cardinality(S) |-> CHOOSE n \in S : Cardinality(Preceding(S, precedes, n)) = k - 1]
PairsOf(S) == S \X S

(* Python's filter keeps the order, its sorted() that of equal keys.         *)
Picked(list, places) == [k \in DOMAIN places |-> list[places[k]]]
Earlier(S) == {p \in PairsOf(S) : p[1] < p[2]}
Filtered(list, places) == Picked(list, InOrder(places, Earlier(places)))
Sooner(list, field) ==
  {p \in PairsOf(DOMAIN list) :
     \/ list[p[1]][field] < list[p[2]][field]
     \/ list[p[1]][field] = list[p[2]][field] /\ p[1] < p[2]}
Sorted(list, field) == Picked(list, InOrder(DOMAIN list, Sooner(list, field)))

(* _validate_generated_intent of the order-flow and regime/retest campaigns: *)
(* an intent enters no earlier and no later than the next bar's open.        *)
OrderFlowIntent(i) == i.eligible = i.decision + 1 /\ i.eligible % Minute = 0
RetestIntent(i) == OrderFlowIntent(i)

(* What each campaign accepts from its generators.                           *)
DevelopmentOutput(r, list) == InData(r, list)
OrderFlowOutput(r, list) ==
  InData(r, list) /\ \A n \in DOMAIN list : OrderFlowIntent(list[n])
RetestOutput(r, list) ==
  /\ InData(r, list) /\ \A n \in DOMAIN list : RetestIntent(list[n])
  /\ Ascending(list, "decision") /\ Distinct(list)
Accepted(r, list) ==
  CASE r.kind \in {"direct", "development"} -> DevelopmentOutput(r, list)
    [] r.kind = "orderflow" -> OrderFlowOutput(r, list)
    [] r.kind = "regime_retest" -> RetestOutput(r, list)

Part(warmup, evaluated, embargoed) ==
  [warmup |-> warmup, evaluated |-> evaluated, embargoed |-> embargoed]

Before(list, t) == Filtered(list, {n \in DOMAIN list : list[n].decision < t})
Within(list, s, t) ==
  Filtered(list, {n \in DOMAIN list : s <= list[n].decision /\ list[n].decision < t})

(* The partitions.  The development campaign orders what it evaluates by     *)
(* eligibility; the others order everything by decision first.               *)
DevelopmentPartition(r, list) ==
  Part(Before(list, r.from), Sorted(Within(list, r.from, r.to), "eligible"), <<>>)

OrderFlowPartition(r, list) ==
  LET all == Sorted(list, "decision")
  IN  Part(Before(all, r.from), Within(all, r.from, r.to), <<>>)

RetestPartition(r, list) ==
  Part(Before(list, r.from), Within(list, r.from, Cutoff(r)), Within(list, Cutoff(r), r.to))

Partition(r, list) ==
  CASE r.kind \in {"direct", "development"} -> DevelopmentPartition(r, list)
    [] r.kind = "orderflow" -> OrderFlowPartition(r, list)
    [] r.kind = "regime_retest" -> RetestPartition(r, list)

(* The bounds partition what was generated.                                  *)
Accounts(p, list) ==
  Len(list) = Len(p.warmup) + Len(p.evaluated) + Len(p.embargoed)

(* When an intent's position is opened under a scenario: at the first minute *)
(* after it is eligible and the latency has passed; and when it must be flat *)
(* (ManagedCell's Causal, EntryIndex and Deadline).                          *)
EntryOpen(i, s) == RoundUp(Later(i.eligible, i.decision + s.execution.latency), Minute)
MustBeFlat(i, s) == EntryOpen(i, s) + s.horizon

(* evaluate_sleeve_cell demands distinct intents in order of eligibility,    *)
(* each decided at a close of the evaluated candles, and costs that cover    *)
(* what every position it may open can be charged.                           *)
CellTakes(r, s, list) ==
  /\ CostsCovered(s, Minute)
  /\ Distinct(list) /\ Ascending(list, "eligible")
  /\ \A n \in DOMAIN list :
       /\ r.from <= list[n].decision /\ list[n].decision < r.to
       /\ MustBeFlat(list[n], s) + Minute <= r.to => FundingCovered(s, EntryOpen(list[n], s))

(* The evidence classes: what is counted adds up and what the cells disposed *)
(* of is what was kept for them; the regime/retest campaign has every        *)
(* intent in its evidence and looks for duplicates again.                    *)
DevelopmentCell(s, scenario) ==
  Accounts(kept[s], made[s]) /\ cells[scenario][s] = kept[s].evaluated
OrderFlowCell(s, scenario) == DevelopmentCell(s, scenario)
RetestCell(s, scenario) ==
  /\ DevelopmentCell(s, scenario)
  /\ Distinct(made[s])
  /\ made[s] = kept[s].warmup \o kept[s].evaluated \o kept[s].embargoed

(* A campaign's bounds are checked again, and but for the development        *)
(* campaign both scenarios must have disposed of the same intents.           *)
SameInventory == \A s \in Symbols : cells["stress"][s] = cells["baseline"][s]
DevelopmentEvidence(r) ==
  Accessible(r.window, r.purpose, Unfrozen, Unfrozen) /\ BoundsHold(r)
OrderFlowEvidence(r) == r = FixedRequest("orderflow", r.setup) /\ SameInventory
RetestEvidence(r) == r = FixedRequest("regime_retest", r.setup) /\ SameInventory
Evident(r) ==
  CASE r.kind \in {"direct", "development"} ->
         (\A s \in Symbols, c \in Scenarios : DevelopmentCell(s, c)) /\ DevelopmentEvidence(r)
    [] r.kind = "orderflow" ->
         (\A s \in Symbols, c \in Scenarios : OrderFlowCell(s, c)) /\ OrderFlowEvidence(r)
    [] r.kind = "regime_retest" ->
         (\A s \in Symbols, c \in Scenarios : RetestCell(s, c)) /\ RetestEvidence(r)

----------------------------------------------------------------------------
(* Gates.  A book: per symbol and side, the trades closed, what they gained  *)
(* and lost net of costs; the costs, the days with an exit, the deepest      *)
(* drawdown and the sign of the robust Sharpe ratio.  The book of a          *)
(* development trial is its pullback sleeve's, the only one its gates read.  *)

OverSides(b, s, field) == SumFunction([d \in Sides |-> b.at[s][d][field]])
OverSymbols(b, d, field) == SumFunction([s \in Symbols |-> b.at[s][d][field]])
Overall(b, field) == SumFunction([s \in Symbols |-> OverSides(b, s, field)])

Growth(b) == Overall(b, "gain") - Overall(b, "loss")

(* profit_factor is None without a losing trade, and None is not above one.  *)
AboveOne(gain, loss) == loss > 0 /\ gain > loss

(* What every screen demands of a scenario.                                  *)
Earns(b) ==
  /\ Growth(b) > 0
  /\ AboveOne(Overall(b, "gain"), Overall(b, "loss"))
  /\ Overall(b, "trades") >= MinTrades

(* _eligibility_failures of the three screens.                               *)
DevelopmentEligible(book) == \A scenario \in Scenarios : Earns(book[scenario])

(* Enough trades of every symbol, none with more than half of them; enough   *)
(* days; enough symbols that earn.                                           *)
Spread(b) ==
  /\ \A s \in Symbols :
       /\ OverSides(b, s, "trades") >= MinSymbolTrades
       /\ 2 * OverSides(b, s, "trades") <= Overall(b, "trades")
  /\ Cardinality(b.days) >= MinDays
  /\ Cardinality({s \in Symbols : OverSides(b, s, "gain") > OverSides(b, s, "loss")}) >= MinEarners

OrderFlowEligible(book) ==
  /\ \A scenario \in Scenarios : Earns(book[scenario]) /\ Spread(book[scenario])
  /\ book["stress"].drawdown <= MaxDrawdown

RetestEligible(book) ==
  /\ \A scenario \in Scenarios :
       LET b == book[scenario]
       IN  /\ Earns(b) /\ Spread(b)
           /\ Growth(b) + b.costs > 0
           /\ b.sharpe > 0
           /\ \A d \in Sides :
                /\ OverSymbols(b, d, "trades") >= MinSideTrades
                /\ AboveOne(OverSymbols(b, d, "gain"), OverSymbols(b, d, "loss"))
  /\ 100 * Overall(book["stress"], "trades") >= 65 * Overall(book["baseline"], "trades")
  /\ book["stress"].drawdown <= MaxDrawdown

Eligible(kind, book) ==
  CASE kind = "development" -> DevelopmentEligible(book)
    [] kind = "orderflow" -> OrderFlowEligible(book)
    [] kind = "regime_retest" -> RetestEligible(book)

Worst(book) ==
  IF Growth(book["stress"]) <= Growth(book["baseline"])
  THEN Growth(book["stress"]) ELSE Growth(book["baseline"])

(* Mutant: ranked by the baseline's growth.                                  *)
RankedByBaseline(m, n) ==
  \/ Growth(trials[m]["baseline"]) > Growth(trials[n]["baseline"])
  \/ Growth(trials[m]["baseline"]) = Growth(trials[n]["baseline"]) /\ m < n

(* The key of the ranking: the worse scenario's growth, then the stress      *)
(* drawdown, then the fixed order of the plan.                               *)
Ranked(m, n) ==
  LET x == trials[m]
      y == trials[n]
  IN  \/ Worst(x) > Worst(y)
      \/ /\ Worst(x) = Worst(y)
         /\ \/ x["stress"].drawdown < y["stress"].drawdown
            \/ x["stress"].drawdown = y["stress"].drawdown /\ m < n

----------------------------------------------------------------------------
CampaignInit ==
  /\ request \in Requests
  /\ hole \in [Symbols -> {NoHole, GenerationStart(request), request.to - Minute, request.to}]
  /\ stage = "asked"
  /\ made = Nothing
  /\ kept = [s \in Symbols |-> Part(<<>>, <<>>, <<>>)]
  /\ cells = [scenario \in Scenarios |-> Nothing]
  /\ trials = <<>>
  /\ selected = <<>>

Reach(to) == stage' = to

(* Refuse the request, or load and slice the data of every symbol.           *)
Slice ==
  /\ stage = "asked"
  /\ Reach(IF /\ \A s \in Symbols : Loaded(request.kind, hole[s])
              /\ Admitted(request)
              /\ \A s \in Symbols : EveryMinute(request, hole[s])
           THEN "sliced" ELSE "refused")
  /\ UNCHANGED <<request, hole, made, kept, cells, trials, selected>>

(* Generate the intents of every cell and partition them.                    *)
Generate ==
  /\ stage = "sliced"
  /\ made' \in [Symbols -> Lists(request)]
  /\ SumFunction([s \in Symbols |-> Len(made'[s])]) <= MaxIntents
  /\ kept' = [s \in Symbols |-> Partition(request, made'[s])]
  /\ Reach(IF \A s \in Symbols : Accepted(request, made'[s]) /\ Accounts(kept'[s], made'[s])
           THEN "generated" ELSE "refused")
  /\ UNCHANGED <<request, hole, cells, trials, selected>>

(* Evaluate every cell under one scenario, then under the other.             *)
EvaluateCells(scenario) ==
  /\ stage = (IF scenario = "baseline" THEN "generated" ELSE "baseline")
  /\ IF \A s \in Symbols : CellTakes(request, request.setup.pair[scenario], kept[s].evaluated)
     THEN /\ cells' = [cells EXCEPT ![scenario] = [s \in Symbols |-> kept[s].evaluated]]
          /\ Reach(scenario)
     ELSE Reach("refused") /\ UNCHANGED cells
  /\ UNCHANGED <<request, hole, made, kept, trials, selected>>

(* The evidence verifies itself.  A campaign of a screen is then reduced to  *)
(* its book, and the next trial starts over on the same candles.             *)
Conclude ==
  /\ stage = "stress"
  /\ IF ~ Evident(request) THEN Reach("refused") /\ UNCHANGED <<made, kept, cells, trials>>
     ELSE IF request.kind = "direct" THEN Reach("done") /\ UNCHANGED <<made, kept, cells, trials>>
     ELSE /\ \E book \in [Scenarios -> Books] : trials' = Append(trials, book)
          /\ Reach(IF Len(trials) + 1 = Trials THEN "judged" ELSE "sliced")
          /\ made' = Nothing
          /\ kept' = [s \in Symbols |-> Part(<<>>, <<>>, <<>>)]
          /\ cells' = [scenario \in Scenarios |-> Nothing]
  /\ UNCHANGED <<request, hole, selected>>

(* The result of a screen exists only for all of its planned trials.         *)
Rank ==
  /\ stage = "judged"
  /\ LET passing == {n \in 1 .. Trials : Eligible(request.kind, trials[n])}
     IN  selected' = InOrder(passing, {p \in PairsOf(passing) : Ranked(p[1], p[2])})
  /\ Reach("done")
  /\ UNCHANGED <<request, hole, made, kept, cells, trials>>

CampaignNext ==
  Slice \/ Generate \/ (\E scenario \in Scenarios : EvaluateCells(scenario)) \/ Conclude \/ Rank

CampaignSpec == CampaignInit /\ [][CampaignNext]_campaignVars

----------------------------------------------------------------------------
(* A role is never left: what is evaluated was decided inside the registered *)
(* window, on complete minutes, and history is read backwards only.          *)
RoleIsNeverLeft ==
  stage \in {"baseline", "stress"} =>
    /\ request.window.start <= request.from /\ request.to <= request.window.end
    /\ request.purpose \in Allowed(request.window.role)
    /\ \A s \in Symbols : ~ (GenerationStart(request) <= hole[s] /\ hole[s] < request.to)
    /\ \A s \in Symbols : \A n \in DOMAIN cells["baseline"][s] :
         LET i == cells["baseline"][s][n]
         IN  request.window.start <= i.decision /\ i.decision < request.window.end

(* The terminal embargo of the regime/retest campaign covers the longest     *)
(* outcome under either scenario: a minute opens at the deadline of every    *)
(* intent it evaluates, so that no trade is cut off by the end of its data   *)
(* (regime_retest_campaign.py:1009-1032, 1273; managed_evaluation.py:1696).  *)
EmbargoCoversOutcomes ==
  request.kind = "regime_retest" =>
    \A s \in Symbols, scenario \in Scenarios : \A n \in DOMAIN cells[scenario][s] :
      MustBeFlat(cells[scenario][s][n], request.setup.pair[scenario]) + Minute <= request.to

(* A generator that keeps its own contract.                                  *)
Orderly(list) == Accepted(request, list) /\ Distinct(list)

(* A look is never wasted: once the data are open, nothing but a broken      *)
(* generator stops a campaign - the partition, the evaluator's own checks of *)
(* order and of the costs it may charge, and the self-verifying evidence     *)
(* never disagree about intents that were lawful, though the hurdle is       *)
(* rounded from a horizon and the evaluator counts settlement times          *)
(* (development_campaign.py:220, managed_evaluation.py:1274-1314, 1439).     *)
NoLookIsWasted ==
  stage = "refused" /\ made # Nothing => \E s \in Symbols : ~ Orderly(made[s])

(* The selected trial is the planned trial that loses least to the worse of  *)
(* its scenarios among those that pass, and a screen rejects all only when   *)
(* every planned trial fails.                                                *)
SelectionIsBest ==
  stage = "done" /\ request.kind # "direct" =>
    LET passing == {n \in 1 .. Trials : Eligible(request.kind, trials[n])}
    IN  /\ Len(trials) = Trials
        /\ ToSet(selected) = passing
        /\ selected # <<>> =>
             \A n \in passing : \A scenario \in Scenarios :
               \E worse \in Scenarios :
                 Growth(trials[selected[1]][scenario]) >= Growth(trials[n][worse])
===============================================================================
