------------------------- MODULE RiskCheckerProofs -------------------------
(***************************************************************************)
(* Theorems about RiskChecker, for every limit, every set of trade sizes,  *)
(* losses and scalings and every number of days.                           *)
(***************************************************************************)
EXTENDS RiskChecker, TLAPS

\* Between check and record_trade the room for the trade stays free: nobody
\* else adds to the position.
RoomForTrade ==
  caller.at \in {"approved", "filled"} => WithinLimit(position + caller.amount)

\* The breaker of a limit that has been reached is set, about to be set, or was
\* cleared by a reset that losses straddled.
LimitAccounted ==
  dailyLoss >= DailyLossLimit => breaker \/ caller.at = "tripping" \/ straddled

\* A reset under way belongs to a day later than the last reset.
ResetIsDue ==
  /\ lastReset <= today
  /\ reset.at # "asleep" => lastReset < reset.day /\ reset.day <= today

IInv == TypeOK /\ PositionWithinLimit /\ RoomForTrade /\ LimitAccounted /\ ResetIsDue

-----------------------------------------------------------------------------
LEMMA InitEstablishes == Init => IInv
<1> SUFFICES ASSUME Init PROVE IInv
  OBVIOUS
<1>1. breaker \in BOOLEAN /\ straddled \in BOOLEAN
  BY DEF Init
<1>2. /\ position = 0 /\ dailyLoss = 0 /\ lastReset = 0 /\ today = 0
      /\ caller = Idle /\ reset = [at |-> "asleep", day |-> 0]
  BY DEF Init
<1> QED
  BY <1>1, <1>2, RiskConfig DEF Idle, IInv, TypeOK, CallerSteps, ResetSteps,
       PositionWithinLimit, WithinLimit, RoomForTrade, LimitAccounted, ResetIsDue

LEMMA StepPreserves == IInv /\ [Next]_riskVars => IInv'
<1> SUFFICES ASSUME IInv, [Next]_riskVars PROVE IInv'
  OBVIOUS
<1> USE RiskConfig DEF IInv, TypeOK, CallerSteps, ResetSteps
<1>1. ASSUME NEW a \in Amounts, NEW s \in Slippages,
             NEW r \in {"Public", "Flashbots", "Split"}, NEW scale \in Scales,
             Check(a, s, r, scale)
      PROVE  IInv'
  <2>1. a \in Nat /\ position + a \in Nat
    OBVIOUS
  <2>2. WithinLimit(position + a)
    BY <1>1 DEF Check, Passes, WithinLimit
  <2> QED
    BY <1>1, <2>1, <2>2 DEF Check, PositionWithinLimit, RoomForTrade,
         LimitAccounted, ResetIsDue
<1>2. CASE ExecutionFails
  BY <1>2 DEF ExecutionFails, Idle, PositionWithinLimit, RoomForTrade,
       LimitAccounted, ResetIsDue
<1>3. ASSUME NEW output \in {"short", "enough"}, CheckSlippage(output)
      PROVE  IInv'
  <2>1. breaker' \in BOOLEAN
    BY <1>3 DEF CheckSlippage
  <2>4. breaker => breaker'
    BY <1>3 DEF CheckSlippage
  <2>2. /\ caller.at = "approved" /\ caller' = [caller EXCEPT !.at = "filled"]
        /\ UNCHANGED <<position, dailyLoss, lastReset, today, reset, straddled>>
    BY <1>3 DEF CheckSlippage
  <2>3. LimitAccounted'
    <3>1. dailyLoss >= DailyLossLimit => breaker \/ straddled
      BY <2>2 DEF LimitAccounted
    <3> QED
      BY <3>1, <2>2, <2>4 DEF LimitAccounted
  <2> QED
    BY <2>1, <2>2, <2>3 DEF PositionWithinLimit, RoomForTrade, ResetIsDue
<1>4. ASSUME NEW loss \in Losses, RecordPosition(loss)
      PROVE  IInv'
  <2>1. /\ caller.at = "filled" /\ position' = position + caller.amount
        /\ UNCHANGED <<dailyLoss, breaker, lastReset, today, reset, straddled>>
    BY <1>4 DEF RecordPosition
  <2>2. /\ caller' \in [at : CallerSteps, amount : Nat, loss : Nat]
        /\ caller'.at \in {"idle", "losing"}
    BY <1>4 DEF RecordPosition, Idle
  <2> QED
    BY <2>1, <2>2 DEF PositionWithinLimit, RoomForTrade, LimitAccounted, ResetIsDue
<1>5. CASE RecordLoss
  BY <1>5 DEF RecordLoss, Idle, PositionWithinLimit, RoomForTrade, LimitAccounted, ResetIsDue
<1>6. CASE TripOnLoss
  BY <1>6 DEF TripOnLoss, Idle, PositionWithinLimit, RoomForTrade, LimitAccounted, ResetIsDue
<1>7. CASE NewDay
  BY <1>7 DEF NewDay, PositionWithinLimit, RoomForTrade, LimitAccounted, ResetIsDue
<1>8. CASE ResetTick
  BY <1>8 DEF ResetTick, PositionWithinLimit, RoomForTrade, LimitAccounted, ResetIsDue
<1>9. CASE ClearLoss
  <2>1. straddled' \in BOOLEAN
    BY <1>9 DEF ClearLoss
  <2>2. /\ reset.at = "clearLoss" /\ reset' = [reset EXCEPT !.at = "clearBreaker"]
        /\ dailyLoss' = 0 /\ UNCHANGED <<position, breaker, lastReset, today, caller>>
    BY <1>9 DEF ClearLoss
  <2> QED
    BY <2>1, <2>2 DEF PositionWithinLimit, RoomForTrade, LimitAccounted, ResetIsDue
<1>10. CASE ClearBreaker
  <2>1. breaker' \in BOOLEAN
    BY <1>10 DEF ClearBreaker
  <2>4. straddled' \in BOOLEAN
    <3>1. (dailyLoss > 0) \in BOOLEAN
      OBVIOUS
    <3> QED
      BY <1>10, <3>1, Zenon DEF ClearBreaker
  <2>3. dailyLoss > 0 => straddled'
    BY <1>10 DEF ClearBreaker
  <2>2. /\ reset.at = "clearBreaker" /\ reset' = [reset EXCEPT !.at = "stamp"]
        /\ UNCHANGED <<position, dailyLoss, lastReset, today, caller>>
    BY <1>10 DEF ClearBreaker
  <2> QED
    BY <2>1, <2>2, <2>3, <2>4 DEF PositionWithinLimit, RoomForTrade, LimitAccounted, ResetIsDue
<1>11. CASE Stamp
  BY <1>11 DEF Stamp, PositionWithinLimit, RoomForTrade, LimitAccounted, ResetIsDue
<1>12. CASE UNCHANGED riskVars
  BY <1>12 DEF riskVars, PositionWithinLimit, RoomForTrade, LimitAccounted, ResetIsDue
<1> QED
  BY <1>1, <1>2, <1>3, <1>4, <1>5, <1>6, <1>7, <1>8, <1>9, <1>10, <1>11, <1>12
     DEF Next, Record, MidnightReset

\* The inductive invariant holds in every reachable state.
THEOREM Inductive == Spec => []IInv
BY InitEstablishes, StepPreserves, PTL DEF Spec

-----------------------------------------------------------------------------
\* The counters of crates/risk/src/checker.rs keep their types.
THEOREM TypeCorrect == Spec => []TypeOK
<1>1. IInv => TypeOK
  BY DEF IInv
<1> QED
  BY <1>1, Inductive, PTL

\* The position never exceeds max_position_usd under the largest scaling in use,
\* whatever the midnight task and the macro regime do between check and
\* record_trade.
THEOREM PositionStaysWithinLimit == Spec => []PositionWithinLimit
<1>1. IInv => PositionWithinLimit
  BY DEF IInv
<1> QED
  BY <1>1, Inductive, PTL

\* A day's losses that reach the limit halt the loop before its next check,
\* but for losses recorded between the two stores of a midnight reset.
THEOREM LossLimitHaltsTrading == Spec => []LossLimitHalts
<1>1. IInv => LossLimitHalts
  BY DEF IInv, LimitAccounted, LossLimitHalts
<1> QED
  BY <1>1, Inductive, PTL

\* The midnight task clears the breaker only in the reset of a new day.
THEOREM BreakerHolds == Spec => BreakerHoldsUntilMidnight
<1>1. IInv /\ [Next]_riskVars => [breaker /\ ~breaker' => lastReset < today]_riskVars
  <2> SUFFICES ASSUME IInv, Next, breaker, ~breaker'
               PROVE  lastReset < today
    BY DEF riskVars
  <2>1. ClearBreaker
    BY DEF Next, Record, MidnightReset, Check, ExecutionFails, CheckSlippage,
         RecordPosition, RecordLoss, TripOnLoss, NewDay, ResetTick, ClearLoss, Stamp
  <2> QED
    BY <2>1 DEF ClearBreaker, IInv, TypeOK, ResetIsDue
<1> QED
  BY <1>1, Inductive, PTL DEF Spec, BreakerHoldsUntilMidnight
=============================================================================
