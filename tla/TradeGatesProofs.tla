-------------------------- MODULE TradeGatesProofs --------------------------
(***************************************************************************)
(* Theorems about TradeGates, for every queue length, every set of bots,   *)
(* trade sizes, confidences and liquidities, and every configured          *)
(* slippage.                                                               *)
(***************************************************************************)
EXTENDS TradeGates, SumTheorems, SequenceTheorems

\* What the monitor's task relies on between its steps.
SwapsCounted ==
  monitor = "queue" => swap \in Senders /\ Len(swaps) < MaxSwaps

\* A plan, and the costs that follow from it, are numbers.
PlanOK ==
  /\ plan \in [amount : Nat, confidence : Nat, slippage : Nat, liquidity : Nat \ {0}]
  /\ gate # "plan" => plan.amount > 0

\* What the gates that an iteration has passed established.
GatesPassed ==
  /\ gate \in {"risk", "handed over"} => Profitable(plan, assessment)
  /\ gate = "handed over" => maxGas = GasCap(plan, assessment)

\* MempoolIsRecent, place by place.
Recent ==
  /\ Len(pendingTxs) = AtMost(MaxMempoolSize, Len(swaps))
  /\ \A i \in 1 .. Len(pendingTxs) :
       pendingTxs[i] = swaps[Len(swaps) - Len(pendingTxs) + i]

\* The two halves of TypeOK.
MonitorTypes ==
  /\ monitor \in {"connect", "listen", "fetch", "queue", "sleep"}
  /\ retryDelay \in 1 .. 30 /\ swap \in Senders \union {Nobody}
  /\ pendingTxs \in Seq(Senders) /\ Len(pendingTxs) <= MaxMempoolSize
  /\ swaps \in Seq(Senders) /\ Len(swaps) <= MaxSwaps

GateTypes ==
  /\ gate \in {"plan", "assess", "simulate", "profit", "risk", "handed over"}
  /\ plan.slippage \in {0, SlippagePublic, SlippageBundle} /\ plan.liquidity > 0
  /\ assessment.score \in 0 .. 1000 /\ assessment.risk \in Nat
  /\ maxGas \in Nat \union {NoCap}

MonitorOK == MonitorTypes /\ SwapsCounted /\ Recent
GatesOK == GateTypes /\ PlanOK /\ GatesPassed

IInv == MonitorOK /\ GatesOK

-----------------------------------------------------------------------------
(* The arithmetic of the guard and of the gates.                           *)

LEMMA BotsIsNat == ASSUME NEW q \in Seq(Senders) PROVE Bots(q) \in Nat
<1>1. IsFiniteSet(1 .. Len(q))
  BY FS_Interval
<1>2. {i \in DOMAIN q : q[i] \in KnownBots} \in SUBSET (1 .. Len(q))
  OBVIOUS
<1> QED
  BY <1>1, <1>2, FS_Subset, FS_CardinalityType DEF Bots

\* Whatever is assessed, the score stays within its scale.
LEMMA AssessedTypes ==
  ASSUME NEW bots \in Nat, NEW t, t.amount \in Nat, t.liquidity \in Nat \ {0},
         t.slippage \in Nat
  PROVE  Assessed(bots, t).score \in 0 .. 1000 /\ Assessed(bots, t).risk \in Nat
<1> DEFINE impact == Impact(t.amount, t.liquidity)
           score  == Score(bots, impact, t.slippage)
           capped == AtMost(1000, impact)
<1>1. impact \in Nat
  <2>1. 1000 * t.amount \in Nat
    OBVIOUS
  <2> QED
    BY <2>1 DEF Impact
<1>2. t.slippage \div 2 \in Nat
  OBVIOUS
<1> HIDE DEF impact
<1>3. score \in 0 .. 1000
  <2> DEFINE total == AtMost(500, 250 * bots) + AtMost(300, 2 * impact)
                        + AtMost(200, 50 * bots) + AtMost(150, t.slippage \div 2)
  <2>1. /\ AtMost(500, 250 * bots) \in Nat /\ AtMost(300, 2 * impact) \in Nat
        /\ AtMost(200, 50 * bots) \in Nat /\ AtMost(150, t.slippage \div 2) \in Nat
    BY <1>1, <1>2 DEF AtMost
  <2>2. total \in Nat
    BY <2>1
  <2>3. score = AtMost(1000, total)
    BY DEF Score
  <2> HIDE DEF total
  <2> QED
    BY <2>2, <2>3 DEF AtMost
<1>4. capped \in Nat
  BY <1>1 DEF AtMost
<1>5. Assessed(bots, t).score = score /\ Assessed(bots, t).risk = score * capped
  BY DEF Assessed, impact
<1> HIDE DEF score, capped
<1>6. \A m, n \in Nat : m * n \in Nat
  OBVIOUS
<1>7. score \in Nat
  BY <1>3
<1>8. score * capped \in Nat
  BY <1>4, <1>6, <1>7
<1> QED
  BY <1>3, <1>5, <1>8

LEMMA CostTypes ==
  ASSUME PlanOK, assessment.score \in Nat
  PROVE  /\ Edge(plan) \in Nat /\ SlippageCost(plan) \in Nat
         /\ MevCost(plan, assessment) \in Nat
         /\ gate # "plan" => Edge(plan) > 0
<1>1. plan.amount \in Nat /\ 500 + plan.confidence \in Nat /\ 500 + plan.confidence > 0
  BY DEF PlanOK
<1>2. \A a, b \in Nat : a > 0 /\ b > 0 => a * b \in Nat /\ a * b > 0
  OBVIOUS
<1>3. \A a, b \in Nat : a * b \in Nat
  OBVIOUS
<1>4. gate # "plan" => plan.amount > 0
  BY DEF PlanOK
<1>5. Edge(plan) \in Nat /\ (gate # "plan" => Edge(plan) > 0)
  BY <1>1, <1>2, <1>3, <1>4 DEF Edge
<1>6. MevCost(plan, assessment) \in Nat
  BY <1>1, <1>3 DEF MevCost
<1>7. SlippageCost(plan) \in Nat
  BY <1>1, <1>3 DEF SlippageCost, PlanOK
<1> QED
  BY <1>5, <1>6, <1>7

\* A trade that passes the profitability gate leaves half its edge for gas.
LEMMA ProfitLeavesGas ==
  ASSUME PlanOK, assessment.score \in Nat, gate # "plan", Profitable(plan, assessment)
  PROVE  /\ GasCap(plan, assessment) \in Nat /\ GasCap(plan, assessment) # NoCap
         /\ GasCap(plan, assessment) + SlippageCost(plan) + MevCost(plan, assessment)
              <= Edge(plan)
         /\ 2 * GasCap(plan, assessment) >= Edge(plan)
<1> DEFINE e == Edge(plan)  s == SlippageCost(plan)  v == MevCost(plan, assessment)
<1>1. e \in Nat /\ s \in Nat /\ v \in Nat /\ e > 0
  BY CostTypes
<1>2. e >= 2 * (0 + s + v)
  BY DEF Profitable, TotalCost, GasCost
<1>3. GasCap(plan, assessment) = IF e - (s + v) > 0 THEN e - (s + v) ELSE NoCap
  BY DEF GasCap
<1> HIDE DEF e, s, v
<1>4. e - (s + v) > 0 /\ e - (s + v) \in Nat /\ 2 * (e - (s + v)) >= e
  BY <1>1, <1>2
<1>5. GasCap(plan, assessment) = e - (s + v)
  BY <1>3, <1>4
<1>6. /\ e - (s + v) # NoCap
      /\ (e - (s + v)) + s + v <= e
  BY <1>1, <1>4 DEF NoCap
<1> QED
  BY <1>4, <1>5, <1>6 DEF e, s, v

-----------------------------------------------------------------------------
(* The queue.                                                              *)

\* Pushing a swap keeps the queue's bound and makes it the last swaps again.
LEMMA PushKeepsRecent ==
  ASSUME MonitorTypes, SwapsCounted, Recent, Push
  PROVE  /\ pendingTxs' \in Seq(Senders) /\ Len(pendingTxs') <= MaxMempoolSize
         /\ swaps' \in Seq(Senders) /\ Len(swaps') <= MaxSwaps
         /\ Recent'
<1> DEFINE room == MakeRoom(pendingTxs)
           n    == Len(swaps)
           k    == Len(pendingTxs)
           r    == Len(room)
<1>1. /\ pendingTxs \in Seq(Senders) /\ swaps \in Seq(Senders) /\ swap \in Senders
      /\ n \in Nat /\ k \in Nat /\ n < MaxSwaps /\ MaxMempoolSize \in Nat \ {0}
      /\ MaxSwaps \in Nat
  <2>1. pendingTxs \in Seq(Senders) /\ swaps \in Seq(Senders)
    BY DEF MonitorTypes
  <2>2. swap \in Senders /\ n < MaxSwaps
    BY DEF SwapsCounted, Push
  <2> QED
    BY <2>1, <2>2, MempoolConfig, LenProperties
<1>2. k = (IF n <= MaxMempoolSize THEN n ELSE MaxMempoolSize)
  BY DEF Recent, AtMost
<1>3. CASE k >= MaxMempoolSize
  <2>1. pendingTxs # <<>> /\ k = MaxMempoolSize
    BY <1>1, <1>2, <1>3
  <2>2. room = Tail(pendingTxs)
    BY <1>3 DEF MakeRoom
  <2>3. /\ room \in Seq(Senders) /\ r = k - 1
        /\ \A i \in 1 .. r : room[i] = pendingTxs[i + 1]
    BY <1>1, <2>1, <2>2, HeadTailProperties
  <2>4. /\ pendingTxs' \in Seq(Senders) /\ Len(pendingTxs') = r + 1
        /\ \A i \in 1 .. r : pendingTxs'[i] = room[i]
        /\ pendingTxs'[r + 1] = swap
    BY <1>1, <2>3, AppendProperties DEF Push
  <2>5. /\ swaps' \in Seq(Senders) /\ Len(swaps') = n + 1
        /\ \A i \in 1 .. n : swaps'[i] = swaps[i]
        /\ swaps'[n + 1] = swap
    BY <1>1, AppendProperties DEF Push
  <2>6. \A i \in 1 .. k : pendingTxs[i] = swaps[n - k + i]
    BY DEF Recent
  <2> HIDE DEF room, n, k, r
  <2>7. ASSUME NEW i \in 1 .. r + 1
        PROVE  pendingTxs'[i] = swaps'[n + 1 - (r + 1) + i]
    <3>1. CASE i = r + 1
      BY <1>1, <2>3, <2>4, <2>5, <3>1
    <3>2. CASE i \in 1 .. r
      <4>1. pendingTxs'[i] = swaps[n - k + (i + 1)]
        BY <1>1, <2>3, <2>4, <2>6, <3>2
      <4>2. n - k + (i + 1) \in 1 .. n /\ n - k + (i + 1) = n + 1 - (r + 1) + i
        BY <1>1, <1>2, <2>3, <3>2
      <4> QED
        BY <2>5, <4>1, <4>2
    <3> QED
      BY <1>1, <2>3, <3>1, <3>2
  <2>8. Len(pendingTxs') = AtMost(MaxMempoolSize, Len(swaps'))
    BY <1>1, <1>2, <2>1, <2>3, <2>4, <2>5 DEF AtMost
  <2>9. Recent'
    <3>1. /\ Len(pendingTxs') = r + 1 /\ Len(swaps') = n + 1
          /\ r \in Nat /\ n \in Nat
      BY <1>1, <2>1, <2>3, <2>4, <2>5
    <3>2. \A i \in 1 .. r + 1 : pendingTxs'[i] = swaps'[n + 1 - (r + 1) + i]
      BY <2>7
    <3>3. \A i \in 1 .. Len(pendingTxs') :
            pendingTxs'[i] = swaps'[Len(swaps') - Len(pendingTxs') + i]
      BY <3>1, <3>2
    <3> QED
      BY <2>8, <3>3 DEF Recent, AtMost
  <2> QED
    BY <1>1, <2>1, <2>3, <2>4, <2>5, <2>9
<1>4. CASE ~(k >= MaxMempoolSize)
  <2>1. k = n /\ n < MaxMempoolSize
    BY <1>1, <1>2, <1>4
  <2>2. room = pendingTxs
    BY <1>4 DEF MakeRoom
  <2>3. /\ pendingTxs' \in Seq(Senders) /\ Len(pendingTxs') = k + 1
        /\ \A i \in 1 .. k : pendingTxs'[i] = pendingTxs[i]
        /\ pendingTxs'[k + 1] = swap
    BY <1>1, <2>2, AppendProperties DEF Push
  <2>4. /\ swaps' \in Seq(Senders) /\ Len(swaps') = n + 1
        /\ \A i \in 1 .. n : swaps'[i] = swaps[i]
        /\ swaps'[n + 1] = swap
    BY <1>1, AppendProperties DEF Push
  <2>5. \A i \in 1 .. k : pendingTxs[i] = swaps[n - k + i]
    BY DEF Recent
  <2> HIDE DEF room, n, k, r
  <2>6. ASSUME NEW i \in 1 .. k + 1
        PROVE  pendingTxs'[i] = swaps'[n + 1 - (k + 1) + i]
    BY <1>1, <2>1, <2>3, <2>4, <2>5
  <2>7. Len(pendingTxs') = AtMost(MaxMempoolSize, Len(swaps'))
    BY <1>1, <2>1, <2>3, <2>4 DEF AtMost
  <2>8. Recent'
    <3>1. /\ Len(pendingTxs') = k + 1 /\ Len(swaps') = n + 1
          /\ k \in Nat /\ n \in Nat
      BY <1>1, <2>3, <2>4
    <3>2. \A i \in 1 .. k + 1 : pendingTxs'[i] = swaps'[n + 1 - (k + 1) + i]
      BY <2>6
    <3>3. \A i \in 1 .. Len(pendingTxs') :
            pendingTxs'[i] = swaps'[Len(swaps') - Len(pendingTxs') + i]
      BY <3>1, <3>2
    <3> QED
      BY <2>7, <3>3 DEF Recent, AtMost
  <2> QED
    BY <1>1, <2>1, <2>3, <2>4, <2>8
<1> QED
  BY <1>3, <1>4

LEMMA RecentIsRecent ==
  ASSUME MonitorTypes, Recent
  PROVE  MempoolIsRecent
<1> DEFINE n == Len(swaps)  k == AtMost(MaxMempoolSize, n)
           last == SubSeq(swaps, n - k + 1, n)
<1>1. /\ pendingTxs \in Seq(Senders) /\ swaps \in Seq(Senders) /\ n \in Nat
      /\ MaxMempoolSize \in Nat
  <2>1. pendingTxs \in Seq(Senders) /\ swaps \in Seq(Senders)
    BY DEF MonitorTypes
  <2> QED
    BY <2>1, MempoolConfig, LenProperties
<1>2. k \in 0 .. n
  BY <1>1 DEF AtMost
<1>3. Len(pendingTxs) = k /\ \A i \in 1 .. k : pendingTxs[i] = swaps[n - k + i]
  BY DEF Recent
<1> HIDE DEF n, k
<1>4. n - k + 1 \in 1 .. n + 1 /\ n \in n - k + 1 - 1 .. n
  BY <1>1, <1>2
<1>5. /\ last \in Seq(Senders)
      /\ Len(last) = k
      /\ \A i \in 1 .. k : last[i] = swaps[n - k + i]
  BY <1>1, <1>2, <1>4, SubSeqProperties DEF n
<1>6. pendingTxs = last
  BY <1>1, <1>3, <1>5, SeqEqual
<1> QED
  BY <1>6 DEF MempoolIsRecent, n, k, last

-----------------------------------------------------------------------------
(* The inductive invariant.                                                *)

LEMMA InitOK == Init => IInv
<1> SUFFICES ASSUME Init PROVE IInv
  OBVIOUS
<1>1. MempoolInit /\ gate = "plan" /\ plan = NoPlan /\ assessment = NoThreat
      /\ maxGas = NoCap
  BY DEF Init
<1>2. /\ pendingTxs \in Seq(Senders) /\ swaps \in Seq(Senders)
      /\ Len(pendingTxs) = 0 /\ Len(swaps) = 0
  BY <1>1 DEF MempoolInit
<1>3. MonitorTypes
  BY <1>1, <1>2, MempoolConfig DEF MempoolInit, MonitorTypes
<1>4. GateTypes
  BY <1>1 DEF NoPlan, NoThreat, GateTypes
<1>5. SwapsCounted /\ GatesPassed
  BY <1>1 DEF MempoolInit, SwapsCounted, GatesPassed
<1>6. Recent
  BY <1>2, MempoolConfig DEF Recent, AtMost
<1>7. PlanOK
  BY <1>1 DEF PlanOK, NoPlan
<1> QED
  BY <1>3, <1>4, <1>5, <1>6, <1>7 DEF IInv, MonitorOK, GatesOK

\* What does not touch the queue keeps its half of the invariant, and what does
\* not touch the iteration keeps the other.
LEMMA MempoolUnchanged ==
  ASSUME MonitorOK, UNCHANGED mempoolVars
  PROVE  MonitorOK'
BY DEF mempoolVars, MonitorOK, MonitorTypes, SwapsCounted, Recent

LEMMA GatesUnchanged ==
  ASSUME GatesOK, UNCHANGED gateVars
  PROVE  GatesOK'
BY DEF gateVars, GatesOK, GateTypes, PlanOK, GatesPassed

LEMMA MonitorPreserves ==
  ASSUME MonitorOK, Monitor
  PROVE  MonitorOK'
<1>1. MonitorTypes /\ SwapsCounted /\ Recent
  BY DEF MonitorOK
<1>2. ASSUME pendingTxs' = pendingTxs, swaps' = swaps PROVE Recent'
  BY <1>1, <1>2 DEF Recent
<1>3. CASE Connect \/ Hear \/ FetchNothing \/ ConnectionEnds
  <2>1. /\ monitor' \in {"listen", "fetch", "sleep"} /\ retryDelay' = retryDelay
        /\ swap' = swap /\ pendingTxs' = pendingTxs /\ swaps' = swaps
    BY <1>3 DEF Connect, Hear, FetchNothing, ConnectionEnds
  <2>2. SwapsCounted'
    BY <2>1 DEF SwapsCounted
  <2>3. MonitorTypes'
    BY <1>1, <2>1 DEF MonitorTypes
  <2> QED
    BY <1>2, <2>1, <2>2, <2>3 DEF MonitorOK
<1>4. CASE FetchSwap
  <2>1. /\ monitor' = "queue" /\ retryDelay' = retryDelay /\ swap' \in Senders
        /\ pendingTxs' = pendingTxs /\ swaps' = swaps /\ Len(swaps) < MaxSwaps
    BY <1>4 DEF FetchSwap
  <2>2. SwapsCounted'
    BY <2>1 DEF SwapsCounted
  <2>3. MonitorTypes'
    BY <1>1, <2>1 DEF MonitorTypes
  <2> QED
    BY <1>2, <2>1, <2>2, <2>3 DEF MonitorOK
<1>5. CASE Push
  <2>1. monitor' = "listen" /\ retryDelay' = retryDelay /\ swap' = Nobody
    BY <1>5 DEF Push
  <2>2. SwapsCounted'
    BY <2>1 DEF SwapsCounted
  <2>3. /\ pendingTxs' \in Seq(Senders) /\ Len(pendingTxs') <= MaxMempoolSize
        /\ swaps' \in Seq(Senders) /\ Len(swaps') <= MaxSwaps
        /\ Recent'
    BY <1>1, <1>5, PushKeepsRecent
  <2>4. MonitorTypes'
    BY <1>1, <2>1, <2>3 DEF MonitorTypes
  <2> QED
    BY <2>2, <2>3, <2>4 DEF MonitorOK
<1>6. CASE SleepOver
  <2>1. /\ monitor' = "connect" /\ swap' = swap /\ pendingTxs' = pendingTxs
        /\ swaps' = swaps
        /\ retryDelay' = IF 2 * retryDelay <= 30 THEN 2 * retryDelay ELSE 30
    BY <1>6 DEF SleepOver
  <2>2. retryDelay' \in 1 .. 30
    <3>1. retryDelay \in 1 .. 30
      BY <1>1 DEF MonitorTypes
    <3> QED
      BY <2>1, <3>1
  <2>3. SwapsCounted'
    BY <2>1 DEF SwapsCounted
  <2>4. MonitorTypes'
    BY <1>1, <2>1, <2>2 DEF MonitorTypes
  <2> QED
    BY <1>2, <2>1, <2>3, <2>4 DEF MonitorOK
<1> QED
  BY <1>3, <1>4, <1>5, <1>6 DEF Monitor

\* A refusal ends the iteration and changes nothing else; so does the answer.
LEMMA RefusalPreserves ==
  ASSUME GatesOK, gate' = "plan", UNCHANGED <<plan, assessment, maxGas>>
  PROVE  GatesOK'
BY DEF GatesOK, GateTypes, PlanOK, GatesPassed

LEMMA MakePlanPreserves ==
  ASSUME MakePlan
  PROVE  GatesOK'
<1>1. gate' = "assess" /\ assessment' = NoThreat /\ maxGas' = NoCap
  BY DEF MakePlan
<1>2. PICK amount \in Amounts, confidence \in Confidences, liquidity \in Liquidities :
        plan' = [amount     |-> amount,
                 confidence |-> confidence,
                 slippage   |-> IF confidence > 700 THEN SlippageBundle ELSE SlippagePublic,
                 liquidity  |-> IF liquidity = 0 THEN DeepPool ELSE liquidity]
  BY DEF MakePlan
<1>3. /\ amount \in Nat \ {0} /\ confidence \in Nat /\ liquidity \in Nat
      /\ SlippagePublic \in Nat /\ SlippageBundle \in Nat /\ DeepPool \in Nat \ {0}
  BY GatesConfig DEF DeepPool
<1>4. PlanOK'
  BY <1>2, <1>3 DEF PlanOK
<1>5. plan'.slippage \in {0, SlippagePublic, SlippageBundle} /\ plan'.liquidity > 0
  BY <1>2, <1>3
<1>6. GateTypes'
  BY <1>1, <1>5 DEF GateTypes, NoThreat
<1>7. GatesPassed'
  BY <1>1 DEF GatesPassed
<1> QED
  BY <1>4, <1>6, <1>7 DEF GatesOK

LEMMA AssessPreserves ==
  ASSUME MonitorOK, GatesOK, Assess
  PROVE  GatesOK'
<1>1. /\ gate = "assess" /\ gate' \in {"plan", "simulate"}
      /\ plan' = plan /\ maxGas' = maxGas
      /\ assessment' = Assessed(Bots(pendingTxs), plan)
  BY DEF Assess
<1>2. GateTypes /\ PlanOK
  BY DEF GatesOK
<1>3. Bots(pendingTxs) \in Nat
  <2>1. pendingTxs \in Seq(Senders)
    BY DEF MonitorOK, MonitorTypes
  <2> QED
    BY <2>1, BotsIsNat
<1>4. plan.amount \in Nat /\ plan.slippage \in Nat /\ plan.liquidity \in Nat \ {0}
  BY <1>2 DEF PlanOK
<1>5. assessment'.score \in 0 .. 1000 /\ assessment'.risk \in Nat
  <2>1. /\ Assessed(Bots(pendingTxs), plan).score \in 0 .. 1000
        /\ Assessed(Bots(pendingTxs), plan).risk \in Nat
    BY <1>3, <1>4, AssessedTypes
  <2> QED
    BY <1>1, <2>1
<1>6. GateTypes'
  BY <1>1, <1>2, <1>5 DEF GateTypes
<1> QED
  BY <1>1, <1>2, <1>6 DEF GatesOK, PlanOK, GatesPassed

LEMMA SimulatePreserves ==
  ASSUME GatesOK, Simulate
  PROVE  GatesOK'
BY DEF Simulate, GatesOK, GateTypes, PlanOK, GatesPassed

LEMMA CheckProfitabilityPreserves ==
  ASSUME GatesOK, CheckProfitability
  PROVE  GatesOK'
<1>1. /\ gate = "profit" /\ gate' \in {"risk", "plan"}
      /\ plan' = plan /\ assessment' = assessment /\ maxGas' = maxGas
      /\ gate' = "risk" => Profitable(plan, assessment)
  BY DEF CheckProfitability
<1>2. GateTypes' /\ PlanOK'
  BY <1>1 DEF GatesOK, GateTypes, PlanOK
<1>3. GatesPassed'
  BY <1>1 DEF GatesPassed
<1> QED
  BY <1>2, <1>3 DEF GatesOK

LEMMA ScoreIsNat == ASSUME GateTypes PROVE assessment.score \in Nat
<1>1. assessment.score \in 0 .. 1000
  BY DEF GateTypes
<1> QED
  BY <1>1

LEMMA CapGasPreserves ==
  ASSUME GatesOK, CapGas
  PROVE  GatesOK'
<1>1. /\ gate = "risk" /\ gate' = "handed over"
      /\ plan' = plan /\ assessment' = assessment
      /\ maxGas' = GasCap(plan, assessment)
  BY DEF CapGas
<1>2. GateTypes /\ PlanOK /\ GatesPassed
  BY DEF GatesOK
<1>3. Profitable(plan, assessment) /\ gate # "plan"
  BY <1>1, <1>2 DEF GatesPassed
<1>4. assessment.score \in Nat
  BY <1>2, ScoreIsNat
<1>5. maxGas' \in Nat
  BY <1>1, <1>2, <1>3, <1>4, ProfitLeavesGas
<1>6. GateTypes' /\ PlanOK'
  BY <1>1, <1>2, <1>5 DEF GateTypes, PlanOK
<1>7. Profitable(plan', assessment') /\ maxGas' = GasCap(plan', assessment')
  BY <1>1, <1>3
<1>8. GatesPassed'
  BY <1>7 DEF GatesPassed
<1> QED
  BY <1>6, <1>8 DEF GatesOK

LEMMA StepOK == IInv /\ [Next]_vars => IInv'
<1> SUFFICES ASSUME IInv, [Next]_vars PROVE IInv'
  OBVIOUS
<1>1. MonitorOK /\ GatesOK
  BY DEF IInv
<1>2. CASE Iterate
  <2>1. MonitorOK'
    <3>1. UNCHANGED mempoolVars
      BY <1>2 DEF Iterate, MakePlan, Assess, SimulationFails, Simulate, CheckProfitability,
                  RiskRefuses, CapGas, Answered
    <3> QED
      BY <1>1, <3>1, MempoolUnchanged
  <2>2. CASE MakePlan
    BY <2>1, <2>2, MakePlanPreserves DEF IInv
  <2>3. CASE Assess
    BY <1>1, <2>1, <2>3, AssessPreserves DEF IInv
  <2>4. CASE SimulationFails \/ RiskRefuses \/ Answered
    <3>1. gate' = "plan" /\ UNCHANGED <<plan, assessment, maxGas>>
      BY <2>4 DEF SimulationFails, RiskRefuses, Answered
    <3> QED
      BY <1>1, <2>1, <3>1, RefusalPreserves DEF IInv
  <2>5. CASE Simulate
    BY <1>1, <2>1, <2>5, SimulatePreserves DEF IInv
  <2>6. CASE CheckProfitability
    BY <1>1, <2>1, <2>6, CheckProfitabilityPreserves DEF IInv
  <2>7. CASE CapGas
    BY <1>1, <2>1, <2>7, CapGasPreserves DEF IInv
  <2> QED
    BY <1>2, <2>2, <2>3, <2>4, <2>5, <2>6, <2>7 DEF Iterate
<1>3. CASE Monitor /\ UNCHANGED gateVars
  BY <1>1, <1>3, MonitorPreserves, GatesUnchanged DEF IInv
<1>4. CASE UNCHANGED vars
  <2>1. UNCHANGED mempoolVars /\ UNCHANGED gateVars
    BY <1>4 DEF vars
  <2> QED
    BY <1>1, <2>1, MempoolUnchanged, GatesUnchanged DEF IInv
<1> QED
  BY <1>2, <1>3, <1>4 DEF Next

LEMMA Invariance == Spec => []IInv
BY InitOK, StepOK, PTL DEF Spec

-----------------------------------------------------------------------------
\* Every variable keeps its type, whatever the node reports and the operator
\* configured: detector.rs never lets the queue outgrow MAX_MEMPOOL_SIZE.
THEOREM TypeCorrect == Spec => []TypeOK
<1>1. IInv => TypeOK
  BY DEF IInv, MonitorOK, GatesOK, MonitorTypes, GateTypes, TypeOK
<1> QED
  BY <1>1, Invariance, PTL

\* The queue that the guard reads is the last swaps of the process, in their
\* order, for every length of queue and across every reconnection.
THEOREM QueueIsRecent == Spec => []MempoolIsRecent
<1>1. IInv => MempoolIsRecent
  BY RecentIsRecent DEF IInv, MonitorOK
<1> QED
  BY <1>1, Invariance, PTL

\* An order of the gates carries a cap on its gas, and gas up to the cap, the
\* slippage and the MEV losses are covered by the edge: max_gas_price_wei cannot
\* underflow to "no cap" once the profitability gate has passed.
THEOREM GasBudgetHolds == Spec => []GasBudgetIsSound
<1>1. IInv => GasBudgetIsSound
  <2> SUFFICES ASSUME IInv, gate = "handed over"
               PROVE  /\ maxGas # NoCap
                      /\ maxGas + SlippageCost(plan) + MevCost(plan, assessment)
                           <= Edge(plan)
                      /\ 2 * maxGas >= Edge(plan)
    BY DEF GasBudgetIsSound
  <2>1. PlanOK /\ Profitable(plan, assessment) /\ maxGas = GasCap(plan, assessment)
    BY DEF IInv, GatesOK, GatesPassed
  <2>2. assessment.score \in Nat
    BY ScoreIsNat DEF IInv, GatesOK
  <2>3. gate # "plan"
    OBVIOUS
  <2>4. GasCap(plan, assessment) # NoCap
    BY <2>1, <2>2, <2>3, ProfitLeavesGas
  <2>5. GasCap(plan, assessment) + SlippageCost(plan) + MevCost(plan, assessment)
          <= Edge(plan)
    BY <2>1, <2>2, <2>3, ProfitLeavesGas
  <2>6. 2 * GasCap(plan, assessment) >= Edge(plan)
    BY <2>1, <2>2, <2>3, ProfitLeavesGas
  <2> QED
    BY <2>1, <2>4, <2>5, <2>6
<1> QED
  BY <1>1, Invariance, PTL

-----------------------------------------------------------------------------
(* The route is monotone in the threat, step by step from the divisions of *)
(* integers up to the thresholds of the routes.                            *)

LEMMA Product ==
  ASSUME NEW a \in Nat, NEW b \in Nat, NEW c \in Nat, NEW d \in Nat, a <= b, c <= d
  PROVE  a * c \in Nat /\ b * d \in Nat /\ a * c <= b * d
<1>1. b - a \in Nat /\ d - c \in Nat
  OBVIOUS
<1>2. (b - a) * c \in Nat /\ b * (d - c) \in Nat
  BY <1>1
<1>3. b * d = a * c + (b - a) * c + b * (d - c)
  OBVIOUS
<1>4. a * c \in Nat /\ b * d \in Nat
  OBVIOUS
<1> QED
  BY <1>2, <1>3, <1>4

\* What a quotient is.
LEMMA Quotient ==
  ASSUME NEW a \in Nat, NEW c \in Nat \ {0}
  PROVE  /\ a \div c \in Nat
         /\ (a \div c) * c <= a /\ a < ((a \div c) + 1) * c
OBVIOUS

\* A larger dividend and a smaller divisor never make the quotient smaller.
LEMMA QuotientMonotone ==
  ASSUME NEW a \in Nat, NEW b \in Nat, a <= b,
         NEW c \in Nat \ {0}, NEW d \in Nat \ {0}, d <= c
  PROVE  a \div c <= b \div d
<1> DEFINE q == a \div c
           r == b \div d
<1>1. /\ q \in Nat /\ r \in Nat /\ q * c <= a /\ b < (r + 1) * d
  BY Quotient
<1> HIDE DEF q, r
<1>2. ASSUME q >= r + 1 PROVE FALSE
  <2>1. (r + 1) * d <= q * c /\ (r + 1) * d \in Nat /\ q * c \in Nat
    BY <1>1, <1>2, Product
  <2> QED
    BY <1>1, <2>1
<1>3. q <= r
  BY <1>1, <1>2
<1> QED
  BY <1>3 DEF q, r

LEMMA ImpactMonotone ==
  ASSUME NEW a \in Nat, NEW b \in Nat, a <= b,
         NEW c \in Nat \ {0}, NEW d \in Nat \ {0}, d <= c
  PROVE  /\ Impact(a, c) \in Nat /\ Impact(b, d) \in Nat
         /\ Impact(a, c) <= Impact(b, d)
<1> DEFINE x == 1000 * a
           y == 1000 * b
<1>1. x \in Nat /\ y \in Nat /\ x <= y
  OBVIOUS
<1> HIDE DEF x, y
<1>2. x \div c \in Nat /\ y \div d \in Nat
  BY <1>1, Quotient
<1>3. x \div c <= y \div d
  BY <1>1, QuotientMonotone
<1> QED
  BY <1>2, <1>3 DEF Impact, x, y

\* More bots and more impact never lower the score.
LEMMA ScoreMonotone ==
  ASSUME NEW m \in Nat, NEW n \in Nat, m <= n, NEW i \in Nat, NEW j \in Nat, i <= j,
         NEW slippage \in Nat
  PROVE  /\ Score(m, i, slippage) \in Nat /\ Score(n, j, slippage) \in Nat
         /\ Score(m, i, slippage) <= Score(n, j, slippage)
<1>1. slippage \div 2 \in Nat
  OBVIOUS
<1>2. \A limit, x, y \in Nat : x <= y =>
        /\ AtMost(limit, x) \in Nat /\ AtMost(limit, y) \in Nat
        /\ AtMost(limit, x) <= AtMost(limit, y)
  BY DEF AtMost
<1> DEFINE total(bots, impact) ==
             AtMost(500, 250 * bots) + AtMost(300, 2 * impact)
               + AtMost(200, 50 * bots) + AtMost(150, slippage \div 2)
<1>3. total(m, i) \in Nat /\ total(n, j) \in Nat /\ total(m, i) <= total(n, j)
  <2>1. /\ AtMost(500, 250 * m) \in Nat /\ AtMost(500, 250 * n) \in Nat
        /\ AtMost(500, 250 * m) <= AtMost(500, 250 * n)
    BY <1>2
  <2>2. /\ AtMost(300, 2 * i) \in Nat /\ AtMost(300, 2 * j) \in Nat
        /\ AtMost(300, 2 * i) <= AtMost(300, 2 * j)
    BY <1>2
  <2>3. /\ AtMost(200, 50 * m) \in Nat /\ AtMost(200, 50 * n) \in Nat
        /\ AtMost(200, 50 * m) <= AtMost(200, 50 * n)
    BY <1>2
  <2>4. AtMost(150, slippage \div 2) \in Nat
    BY <1>1, <1>2
  <2> QED
    BY <2>1, <2>2, <2>3, <2>4
<1>4. /\ Score(m, i, slippage) = AtMost(1000, total(m, i))
      /\ Score(n, j, slippage) = AtMost(1000, total(n, j))
  BY DEF Score
<1> HIDE DEF total
<1> QED
  BY <1>2, <1>3, <1>4

\* A higher risk never leads to a route that exposes the trade more.
LEMMA RouteMonotone ==
  ASSUME NEW r \in Nat, NEW s \in Nat, r <= s
  PROVE  Exposure(Route(s)) <= Exposure(Route(r))
<1> DEFINE E(risk) == IF risk < 150000 THEN 3 ELSE IF risk < 450000 THEN 2
                      ELSE IF risk < 750000 THEN 1 ELSE 0
<1>1. ASSUME NEW risk \in Nat PROVE Exposure(Route(risk)) = E(risk)
  <2>1. CASE risk < 150000
    BY <2>1 DEF Exposure, Route
  <2>2. CASE risk >= 150000 /\ risk < 450000
    BY <2>2 DEF Exposure, Route
  <2>3. CASE risk >= 450000 /\ risk < 750000
    BY <2>3 DEF Exposure, Route
  <2>4. CASE risk >= 750000
    BY <2>4 DEF Exposure, Route
  <2> QED
    BY <2>1, <2>2, <2>3, <2>4
<1> QED
  BY <1>1

\* A trade that is smaller, in a deeper pool, with fewer bots about, is assessed
\* no riskier, and not routed more carefully.
LEMMA ThreatMonotone ==
  ASSUME NEW m \in Nat, NEW n \in Nat, m <= n, NEW small, NEW large,
         small.amount \in Nat, large.amount \in Nat, small.amount <= large.amount,
         small.liquidity \in Nat \ {0}, large.liquidity \in Nat \ {0},
         large.liquidity <= small.liquidity,
         small.slippage \in Nat, large.slippage = small.slippage
  PROVE  Exposure(Assessed(n, large).route) <= Exposure(Assessed(m, small).route)
<1> DEFINE i == Impact(small.amount, small.liquidity)
           j == Impact(large.amount, large.liquidity)
           s == Score(m, i, small.slippage)
           t == Score(n, j, large.slippage)
<1>1. i \in Nat /\ j \in Nat /\ i <= j
  BY ImpactMonotone
<1>2. s \in Nat /\ t \in Nat /\ s <= t
  <2> HIDE DEF i, j
  <2> QED
    BY <1>1, ScoreMonotone
<1>3. /\ AtMost(1000, i) \in Nat /\ AtMost(1000, j) \in Nat
      /\ AtMost(1000, i) <= AtMost(1000, j)
  <2> HIDE DEF i, j
  <2> QED
    BY <1>1 DEF AtMost
<1>4. /\ Assessed(m, small).route = Route(s * AtMost(1000, i))
      /\ Assessed(n, large).route = Route(t * AtMost(1000, j))
  BY DEF Assessed
<1> HIDE DEF i, j, s, t
<1>5. /\ s * AtMost(1000, i) \in Nat /\ t * AtMost(1000, j) \in Nat
      /\ s * AtMost(1000, i) <= t * AtMost(1000, j)
  BY <1>2, <1>3, Product
<1> QED
  BY <1>4, <1>5, RouteMonotone

\* The guard follows the threat, whatever the queue holds when it looks: for
\* every trade size, pool, queue and slippage that can be configured.
THEOREM GuardFollows == Spec => []GuardFollowsThreat
<1>1. IInv => GuardFollowsThreat
  <2> SUFFICES ASSUME IInv,
                      NEW fewer \in 0 .. Bots(pendingTxs),
                      NEW smaller \in Amounts, NEW deeper \in Liquidities,
                      smaller <= plan.amount, deeper >= plan.liquidity
               PROVE  Exposure(Assessed(Bots(pendingTxs), plan).route)
                        <= Exposure(Assessed(fewer, [plan EXCEPT !.amount = smaller,
                                                                 !.liquidity = deeper]).route)
    BY DEF GuardFollowsThreat
  <2>1. /\ plan \in [amount : Nat, confidence : Nat, slippage : Nat, liquidity : Nat \ {0}]
        /\ pendingTxs \in Seq(Senders)
    BY DEF IInv, GatesOK, PlanOK, MonitorOK, MonitorTypes
  <2>2. Bots(pendingTxs) \in Nat /\ fewer \in Nat /\ fewer <= Bots(pendingTxs)
    BY <2>1, BotsIsNat
  <2> DEFINE other == [plan EXCEPT !.amount = smaller, !.liquidity = deeper]
  <2>3. other.amount = smaller /\ other.liquidity = deeper /\ other.slippage = plan.slippage
    BY <2>1
  <2>4. /\ smaller \in Nat /\ deeper \in Nat \ {0} /\ plan.slippage \in Nat
        /\ plan.amount \in Nat /\ plan.liquidity \in Nat \ {0}
    BY <2>1, GatesConfig
  <2> HIDE DEF other
  <2>5. Exposure(Assessed(Bots(pendingTxs), plan).route) <= Exposure(Assessed(fewer, other).route)
    BY <2>2, <2>3, <2>4, ThreatMonotone
  <2> QED
    BY <2>5 DEF other
<1> QED
  BY <1>1, Invariance, PTL

-----------------------------------------------------------------------------
(* The chunks.                                                             *)

\* A trade of at least n smallest chunks is split into n equal ones; another one
\* stays whole. Together they are the trade but for less than a unit each.
LEMMA ChunksWorthIt ==
  ASSUME NEW trade, trade.amount \in Nat, NEW risk \in Nat
  PROVE  LET chunks == Chunks(trade, risk)
             total  == SumFunctionOnSet([i \in DOMAIN chunks |-> chunks[i].amount], DOMAIN chunks)
         IN  /\ \A i \in DOMAIN chunks : Len(chunks) > 1 => chunks[i].amount >= MinChunk
             /\ \A i, j \in DOMAIN chunks : i # j => chunks[i].delay # chunks[j].delay
             /\ total <= trade.amount /\ trade.amount - total < Len(chunks)
<1> DEFINE chunks == Chunks(trade, risk)
           amounts == [i \in DOMAIN chunks |-> chunks[i].amount]
           total  == SumFunctionOnSet(amounts, DOMAIN chunks)
           n      == IF risk >= 600000 THEN 3 ELSE 2
           apart  == IF risk >= 600000 THEN 2 ELSE 1
\* They are n for some n and of equal amounts, so they sum up to n times that.
<1>1. ASSUME NEW k \in Nat \ {0}, NEW c \in Nat,
             DOMAIN chunks = 1 .. k, \A i \in 1 .. k : chunks[i].amount = c
      PROVE  total = k * c
  <2>1. IsFiniteSet(1 .. k) /\ Cardinality(1 .. k) = k
    <3>1. 1 \in Int /\ k \in Int /\ ~(1 > k) /\ k - 1 + 1 = k
      OBVIOUS
    <3> HIDE DEF chunks
    <3> QED
      BY <3>1, FS_Interval
  <2>2. \A i \in 1 .. k : amounts[i] = c
    BY <1>1
  <2> HIDE DEF amounts, chunks
  <2>3. SumFunctionOnSet(amounts, 1 .. k) = Cardinality(1 .. k) * c
    BY <2>1, <2>2, SumConstant
  <2> QED
    BY <1>1, <2>1, <2>3
<1>2. CASE trade.amount < n * MinChunk
  <2>1. chunks = <<[amount |-> trade.amount, delay |-> 0]>>
    BY <1>2 DEF Chunks
  <2>2. /\ Len(chunks) = 1 /\ DOMAIN chunks = 1 .. 1
        /\ \A i \in 1 .. 1 : chunks[i].amount = trade.amount
    <3> HIDE DEF chunks
    <3> QED
      BY <2>1
  <2>3. total = 1 * trade.amount
    <3> HIDE DEF chunks, total, n, apart
    <3>1. 1 \in Nat \ {0} /\ trade.amount \in Nat
      OBVIOUS
    <3> QED
      BY <1>1, <2>2, <3>1
  <2> HIDE DEF chunks, total
  <2> QED
    BY <2>2, <2>3 DEF chunks, total
<1>3. CASE ~(trade.amount < n * MinChunk)
  <2> DEFINE c == trade.amount \div n
  <2>0. n \in {2, 3} /\ apart \in {1, 2} /\ MinChunk \in Nat
    BY GatesConfig
  <2>1. chunks = [i \in 1 .. n |-> [amount |-> c, delay |-> (i - 1) * apart]]
    BY <1>3 DEF Chunks
  <2>2. /\ Len(chunks) = n /\ DOMAIN chunks = 1 .. n
        /\ \A i \in 1 .. n : chunks[i].amount = c /\ chunks[i].delay = (i - 1) * apart
    <3> HIDE DEF chunks, c, apart, n
    <3> QED
      BY <2>0, <2>1
  <2>3. c \in Nat /\ n * c <= trade.amount /\ trade.amount < n * c + n /\ c >= MinChunk
    BY <2>0, <1>3
  <2> HIDE DEF chunks, total, c
  <2>4. total = n * c
    <3> HIDE DEF n, apart
    <3>1. n \in Nat \ {0}
      BY <2>0
    <3>2. DOMAIN chunks = 1 .. n /\ \A i \in 1 .. n : chunks[i].amount = c
      BY <2>2
    <3> QED
      BY <1>1, <2>3, <3>1, <3>2
  <2>5. \A i, j \in 1 .. n : i # j => (i - 1) * apart # (j - 1) * apart
    BY <2>0
  <2>6. total <= trade.amount /\ trade.amount - total < n
    <3> HIDE DEF n
    <3>1. n * c \in Nat
      BY <2>0, <2>3
    <3> QED
      BY <2>0, <2>3, <2>4, <3>1
  <2> HIDE DEF n, apart
  <2> QED
    BY <2>2, <2>3, <2>5, <2>6 DEF chunks, total
<1> QED
  BY <1>2, <1>3

\* compute_chunks, for every trade the gates hand over and every smallest chunk
\* that can be configured: what is split is worth splitting, and nothing is lost
\* but the remainder of the division.
THEOREM ChunksWorth == Spec => []ChunksAreWorthIt
<1>1. IInv => ChunksAreWorthIt
  <2> SUFFICES ASSUME IInv PROVE ChunksAreWorthIt
    OBVIOUS
  <2>1. PlanOK /\ GateTypes
    BY DEF IInv, GatesOK
  <2>2. plan.amount \in Nat /\ assessment.risk \in Nat
    BY <2>1 DEF PlanOK, GateTypes
  <2> QED
    BY <2>2, ChunksWorthIt DEF ChunksAreWorthIt
<1> QED
  BY <1>1, Invariance, PTL
=============================================================================
