------------------------------ MODULE ScenarioPair ------------------------------
(****************************************************************************)
(* The two execution scenarios of a campaign, as the development, order-flow *)
(* and regime/retest campaigns build and check them: what a simulated fill   *)
(* costs, what the admission hurdle assumes it costs, and how the candidate's *)
(* horizons fit the protocol.  Pure operators; Campaign uses them.           *)
(*                                                                           *)
(* Costs are in eighths of a basis point, times in Campaign's units.         *)
(****************************************************************************)
EXTENDS ResearchProtocol

(* ExecutionConfig with its FundingConfig.  Participation is a percentage.   *)
Execution(latency, spread, slippage, jitter, fee, participation, evidence, rate, interval) ==
  [latency |-> latency, spread |-> spread, slippage |-> slippage, jitter |-> jitter, fee |-> fee,
   participation |-> participation, evidence |-> evidence, rate |-> rate, interval |-> interval]
ExecutionHolds(x) ==
  /\ x.interval > 0 /\ x.latency >= 0 /\ x.participation \in 1 .. 100
  /\ \A cost \in {x.spread, x.slippage, x.jitter, x.fee, x.rate} : cost >= 0
  /\ x.evidence = "unavailable" => x.rate = 0

(* What a settlement charges: an eighth of the eight-hour rate.              *)
SettlementCost(x) == IF x.evidence = "assumed" THEN x.rate ELSE 0

(* A candidate's longest position, its retries included.                     *)
LiquidationHorizon(candidate) == candidate.holding + candidate.grace

(* Mutant: only whole intervals are counted.                                 *)
WholeSettlements(horizon, interval) == horizon \div interval

(* _maximum_adverse_funding_bps: the settlements a position can live through. *)
AdverseSettlements(horizon, interval) == (horizon + interval - 1) \div interval
AdverseFunding(x, horizon) ==
  IF x.evidence = "unavailable" THEN 0 ELSE AdverseSettlements(horizon, x.interval) * x.rate

(* AllInCostModel and ManagedEvaluationPolicy as the factories fill them.    *)
Costs(x, horizon) ==
  [fee |-> x.fee, spread |-> x.spread, slippage |-> x.slippage + x.jitter,
   funding |-> AdverseFunding(x, horizon)]
Scenario(x, candidate) ==
  [execution |-> x, costs |-> Costs(x, LiquidationHorizon(candidate)),
   exitLatency |-> x.latency, grace |-> candidate.grace,
   horizon |-> LiquidationHorizon(candidate)]
PolicyHolds(s, minute) == s.grace % minute = 0 /\ s.exitLatency <= s.grace

(* DevelopmentScenario, OrderFlowScenario and RegimeRetestScenario: the      *)
(* hurdle is the execution's cost exactly.                                   *)
ScenarioHolds(s, minute) ==
  /\ ExecutionHolds(s.execution) /\ s.execution.evidence \in {"unavailable", "assumed"}
  /\ PolicyHolds(s, minute) /\ s.horizon > 0
  /\ s.costs = Costs(s.execution, s.horizon)

(* Stress weakly dominates every cost of the baseline.                       *)
Dominates(stress, baseline) ==
  /\ stress.execution.latency >= baseline.execution.latency
  /\ stress.execution.spread >= baseline.execution.spread
  /\ stress.execution.slippage + stress.execution.jitter
       >= baseline.execution.slippage + baseline.execution.jitter
  /\ stress.execution.fee >= baseline.execution.fee
  /\ stress.execution.participation <= baseline.execution.participation
  /\ stress.costs.funding >= baseline.costs.funding

(* What all three _validate_scenarios ask of a pair; the pair is the one     *)
(* that the fixed factory makes of the candidate.                            *)
PairHolds(pair, market, candidate, protocol, minute) ==
  /\ pair = [baseline |-> Scenario(market.baseline, candidate),
             stress |-> Scenario(market.stress, candidate)]
  /\ ScenarioHolds(pair.baseline, minute) /\ ScenarioHolds(pair.stress, minute)
  /\ Dominates(pair.stress, pair.baseline)
  /\ pair.baseline.execution.evidence = "unavailable"
  /\ pair.stress.execution.evidence = "assumed"
  /\ \A s \in {pair.baseline, pair.stress} : s.execution.latency <= protocol.latency

(* The development campaign also wants a stress rate above zero.             *)
DevelopmentScenarios(pair, market, candidate, protocol, minute) ==
  /\ PairHolds(pair, market, candidate, protocol, minute)
  /\ pair.stress.execution.rate > 0
OrderFlowScenarios(pair, market, candidate, protocol, minute) ==
  PairHolds(pair, market, candidate, protocol, minute)
RetestScenarios(pair, market, candidate, protocol, minute) ==
  PairHolds(pair, market, candidate, protocol, minute)

(* evaluate_sleeve_cell looks for itself whether the hurdle it is handed     *)
(* covers what it will charge: fee, spread and slippage to begin with.       *)
CostsCovered(s, minute) ==
  /\ s.execution.interval % minute = 0
  /\ s.costs.fee >= s.execution.fee /\ s.costs.spread >= s.execution.spread
  /\ s.costs.slippage >= s.execution.slippage + s.execution.jitter

(* _required_funding_bps: the settlements of a position opened then, while   *)
(* it may be held and liquidated.                                            *)
Settlements(opened, horizon, interval) ==
  Cardinality({t \in opened + 1 .. opened + horizon : t % interval = 0})
FundingCovered(s, opened) ==
  s.costs.funding >= Settlements(opened, s.horizon, s.execution.interval) * SettlementCost(s.execution)

(* _validate_protocol: how the candidate's horizon fits the registered ones. *)
(* An outcome of the regime/retest campaign may wait for one more minute.    *)
DevelopmentFits(candidate, protocol) ==
  LiquidationHorizon(candidate) <= protocol.holding /\ LiquidationHorizon(candidate) <= protocol.label
OrderFlowFits(candidate, protocol) ==
  LiquidationHorizon(candidate) = protocol.holding /\ protocol.label = protocol.holding
RetestFits(candidate, protocol, minute) ==
  /\ LiquidationHorizon(candidate) = protocol.holding
  /\ LiquidationHorizon(candidate) + minute = protocol.label
===============================================================================
