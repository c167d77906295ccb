----------------------------- MODULE TradeGates -----------------------------
(***************************************************************************)
(* What src/bin/vertexa.rs computes about a trade between the decision and *)
(* the hand-over: build_planned_trade, the MEV guard                       *)
(* (crates/mev_guard/src/guard.rs), the profitability gate                 *)
(* (crates/risk/src/profitability.rs), the cap on the gas price and the    *)
(* chunks (crates/mev_guard/src/split_executor.rs), while the mempool      *)
(* monitor keeps changing the queue that the guard reads.                  *)
(*                                                                         *)
(* Trades and liquidity are in dollars; impact, score and confidence in    *)
(* thousandths; slippage in basis points; costs in hundred-thousandths of  *)
(* a dollar. A gas cost is that of all the gas of the transaction.         *)
(***************************************************************************)
EXTENDS MempoolMonitor, FiniteSets, Functions

CONSTANTS
  KnownBots,        \* mev.known_bot_addresses
  Amounts,          \* adjusted trade sizes at or above min_trade_usd
  Confidences,      \* avg_confidence of a decision
  Liquidities,      \* pool_liquidity, 0 while it is not known
  SlippagePublic,   \* risk.max_slippage_public
  SlippageBundle,   \* risk.max_slippage_flashbots
  MinChunk          \* risk.min_chunk_usd

ASSUME GatesConfig ==
  /\ KnownBots \subseteq Senders /\ Amounts \subseteq Nat \ {0}
  /\ Confidences \subseteq 0 .. 1000 /\ Liquidities \subseteq Nat
  /\ SlippagePublic \in Nat /\ SlippageBundle \in Nat /\ MinChunk \in Nat

VARIABLES
  gate,             \* the next gate of the iteration, or "handed over"
  plan,             \* the planned trade and the liquidity of its context
  assessment,       \* the MEV guard's
  maxGas            \* the capped gas cost; NoCap for none

gateVars == <<gate, plan, assessment, maxGas>>
vars == <<mempoolVars, gateVars>>

NoCap == -1
NoPlan == [amount |-> 0, confidence |-> 0, slippage |-> 0, liquidity |-> 1]
NoThreat == [score |-> 0, risk |-> 0, route |-> "Public"]

Init ==
  /\ MempoolInit
  /\ gate = "plan" /\ plan = NoPlan /\ assessment = NoThreat /\ maxGas = NoCap

-----------------------------------------------------------------------------
(* MevGuard::assess.                                                       *)

AtMost(limit, n) == IF n <= limit THEN n ELSE limit

\* count_bots_in_mempool counts transactions, not senders.
Bots(queue) == Cardinality({i \in DOMAIN queue : queue[i] \in KnownBots})

Impact(amount, liquidity) == (1000 * amount) \div liquidity

Score(bots, impact, slippage) ==
  AtMost(1000, AtMost(500, 250 * bots) + AtMost(300, 2 * impact)
                 + AtMost(200, 50 * bots) + AtMost(150, slippage \div 2))

\* Mutant: whatever is not public, bundled or split is public.
RouteMut(risk) ==
  CASE risk >= 150000 /\ risk < 450000 -> "Flashbots"
    [] risk >= 450000 /\ risk < 750000 -> "Split"
    [] OTHER                           -> "Public"

Route(risk) ==
  CASE risk < 150000                   -> "Public"
    [] risk >= 150000 /\ risk < 450000 -> "Flashbots"
    [] risk >= 450000 /\ risk < 750000 -> "Split"
    [] risk >= 750000                  -> "Abort"

Assessed(bots, trade) ==
  LET impact == Impact(trade.amount, trade.liquidity)
      score  == Score(bots, impact, trade.slippage)
      risk   == score * AtMost(1000, impact)
  IN  [score |-> score, risk |-> risk, route |-> Route(risk)]

-----------------------------------------------------------------------------
(* ProfitabilityCheck::evaluate and the fee cap.                           *)

Edge(trade) == trade.amount * (500 + trade.confidence)
SlippageCost(trade) == 10 * trade.amount * trade.slippage
MevCost(trade, threat) == trade.amount * threat.score

\* gas_used * price / 1e18 prices a unit of gas at one wei: less than 1e-5
\* dollars for any block's worth of gas.
GasCost == 0

\* Mutant: slippage is left out of the costs.
TotalCostMut(trade, threat) == GasCost + MevCost(trade, threat)

TotalCost(trade, threat) == GasCost + SlippageCost(trade) + MevCost(trade, threat)

\* The simulator's confidence is always Low: a ratio of 1.5 + 0.5.
Profitable(trade, threat) == Edge(trade) >= 2 * TotalCost(trade, threat)

\* max_gas_price_wei, as the cost of the gas at that price.
GasCap(trade, threat) ==
  LET budget == Edge(trade) - (SlippageCost(trade) + MevCost(trade, threat))
  IN  IF budget > 0 THEN budget ELSE NoCap

-----------------------------------------------------------------------------
(* SplitExecutor::compute_chunks. A unit of amount_in is a dollar's worth. *)

\* Mutant: the whole trade is compared with the smallest chunk.
ChunksMut(trade, risk) ==
  LET n     == IF risk >= 600000 THEN 3 ELSE 2
      apart == IF risk >= 600000 THEN 2 ELSE 1
  IN  IF trade.amount < MinChunk THEN <<[amount |-> trade.amount, delay |-> 0]>>
      ELSE [i \in 1 .. n |-> [amount |-> trade.amount \div n, delay |-> (i - 1) * apart]]

Chunks(trade, risk) ==
  LET n     == IF risk >= 600000 THEN 3 ELSE 2
      apart == IF risk >= 600000 THEN 2 ELSE 1
  IN  IF trade.amount < n * MinChunk THEN <<[amount |-> trade.amount, delay |-> 0]>>
      ELSE [i \in 1 .. n |-> [amount |-> trade.amount \div n, delay |-> (i - 1) * apart]]

-----------------------------------------------------------------------------
(* The iteration. A gate that refuses ends it.                             *)

\* What unknown liquidity is taken for: ten million dollars.
DeepPool == 10000 * 1000

\* Confident trades allow less slippage.
MakePlan ==
  /\ gate = "plan" /\ gate' = "assess"
  /\ \E amount \in Amounts, confidence \in Confidences, liquidity \in Liquidities :
       plan' = [amount     |-> amount,
                confidence |-> confidence,
                slippage   |-> IF confidence > 700 THEN SlippageBundle ELSE SlippagePublic,
                liquidity  |-> IF liquidity = 0 THEN DeepPool ELSE liquidity]
  /\ assessment' = NoThreat /\ maxGas' = NoCap
  /\ UNCHANGED mempoolVars

Assess ==
  /\ gate = "assess"
  /\ assessment' = Assessed(Bots(pendingTxs), plan)
  /\ gate' = IF assessment'.route = "Abort" THEN "plan" ELSE "simulate"
  /\ UNCHANGED <<mempoolVars, plan, maxGas>>

SimulationFails ==
  /\ gate = "simulate" /\ gate' = "plan"
  /\ UNCHANGED <<mempoolVars, plan, assessment, maxGas>>

Simulate ==
  /\ gate = "simulate" /\ gate' = "profit"
  /\ UNCHANGED <<mempoolVars, plan, assessment, maxGas>>

CheckProfitability ==
  /\ gate = "profit"
  /\ gate' = IF Profitable(plan, assessment) THEN "risk" ELSE "plan"
  /\ UNCHANGED <<mempoolVars, plan, assessment, maxGas>>

RiskRefuses ==
  /\ gate = "risk" /\ gate' = "plan"
  /\ UNCHANGED <<mempoolVars, plan, assessment, maxGas>>

CapGas ==
  /\ gate = "risk" /\ gate' = "handed over"
  /\ maxGas' = GasCap(plan, assessment)
  /\ UNCHANGED <<mempoolVars, plan, assessment>>

Answered ==
  /\ gate = "handed over" /\ gate' = "plan"
  /\ UNCHANGED <<mempoolVars, plan, assessment, maxGas>>

Iterate == MakePlan \/ Assess \/ SimulationFails \/ Simulate \/ CheckProfitability
             \/ RiskRefuses \/ CapGas \/ Answered

Next == Iterate \/ (Monitor /\ UNCHANGED gateVars)

Spec == Init /\ [][Next]_vars

-----------------------------------------------------------------------------
\* Every variable has its type; the queue stays within its bound and the
\* monitor's delay within thirty seconds.
TypeOK ==
  /\ monitor \in {"connect", "listen", "fetch", "queue", "sleep"}
  /\ retryDelay \in 1 .. 30 /\ swap \in Senders \union {Nobody}
  /\ pendingTxs \in Seq(Senders) /\ Len(pendingTxs) <= MaxMempoolSize
  /\ swaps \in Seq(Senders) /\ Len(swaps) <= MaxSwaps
  /\ gate \in {"plan", "assess", "simulate", "profit", "risk", "handed over"}
  /\ plan.slippage \in {0, SlippagePublic, SlippageBundle} /\ plan.liquidity > 0
  /\ assessment.score \in 0 .. 1000 /\ assessment.risk \in Nat
  /\ maxGas \in Nat \union {NoCap}

\* The guard sees exactly the last MaxMempoolSize swaps, in their order: what a
\* full queue drops is its oldest, and a lost connection drops nothing.
MempoolIsRecent ==
  LET kept == AtMost(MaxMempoolSize, Len(swaps))
  IN  pendingTxs = SubSeq(swaps, Len(swaps) - kept + 1, Len(swaps))

Exposure(route) ==
  CASE route = "Public" -> 3 [] route = "Flashbots" -> 2 [] route = "Split" -> 1
    [] route = "Abort"  -> 0

\* MevGuard::assess: a larger trade, a thinner pool or more bots never make the
\* guard choose a route that exposes the trade more.
GuardFollowsThreat ==
  gate = "assess" =>
    LET bots == Bots(pendingTxs)
        Chosen(n, trade) == Exposure(Assessed(n, trade).route)
    IN  \A fewer \in 0 .. bots, smaller \in Amounts, deeper \in Liquidities :
          smaller <= plan.amount /\ deeper >= plan.liquidity =>
            Chosen(bots, plan)
              <= Chosen(fewer, [plan EXCEPT !.amount = smaller, !.liquidity = deeper])

\* An order always carries a cap on its gas, although the code has none for a
\* budget of nothing: gas paid up to the cap, slippage and MEV losses are covered
\* by the edge, and gas may take at least half of it.
GasBudgetIsSound ==
  gate = "handed over" =>
    /\ maxGas # NoCap
    /\ maxGas + SlippageCost(plan) + MevCost(plan, assessment) <= Edge(plan)
    /\ 2 * maxGas >= Edge(plan)

\* compute_chunks, for a trade that is split: no chunk is smaller than
\* min_chunk_usd, no two are for one block, and together they are the trade but
\* for less than a unit each.
ChunksAreWorthIt ==
  gate = "handed over" /\ assessment.route = "Split" =>
    LET chunks == Chunks(plan, assessment.risk)
        total  == SumFunctionOnSet([i \in DOMAIN chunks |-> chunks[i].amount], DOMAIN chunks)
    IN  /\ \A i \in DOMAIN chunks : Len(chunks) > 1 => chunks[i].amount >= MinChunk
        /\ \A i, j \in DOMAIN chunks : i # j => chunks[i].delay # chunks[j].delay
        /\ total <= plan.amount /\ plan.amount - total < Len(chunks)
=============================================================================
