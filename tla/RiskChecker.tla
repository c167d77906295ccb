---------------------------- MODULE RiskChecker ----------------------------
(***************************************************************************)
(* crates/risk/src/checker.rs: the limits every trade passes, and the      *)
(* counters behind them.                                                   *)
(*                                                                         *)
(* Two tasks share a RiskChecker. The trading loop, the only caller of     *)
(* check, check_slippage and record_trade, takes one trade at a time       *)
(* through them; the midnight task wakes every 60 s and clears the day's   *)
(* loss and the circuit breaker. The counters are three separate atomics:  *)
(* every load or store is a step here, so the tasks interleave as they do  *)
(* in the program.                                                         *)
(*                                                                         *)
(* Money is in whole cents, slippage in tenths of a percent, time in UTC   *)
(* days.                                                                   *)
(***************************************************************************)
EXTENDS Integers

CONSTANTS
  Amounts,          \* sizes a planned trade can have
  Slippages,        \* max_slippage values a planned trade can have
  Losses,           \* realised losses handed to record_trade, 0 for none
  Scales,           \* scalings of the limits, in percent: a macro regime's, or 100
  MaxTrade,         \* RiskConfig.max_trade_usd
  MaxPosition,      \* RiskConfig.max_position_usd
  DailyLossLimit,   \* RiskConfig.daily_loss_limit_usd
  MaxDay            \* bound: the last UTC day of a behaviour

ASSUME RiskConfig ==
  /\ Amounts \subseteq Nat /\ Slippages \subseteq Nat /\ Losses \subseteq Nat /\ Scales \subseteq Nat
  /\ MaxTrade \in Nat /\ MaxPosition \in Nat /\ MaxDay \in Nat
  /\ DailyLossLimit \in Nat \ {0}

VARIABLES
  position,         \* current_position
  dailyLoss,        \* daily_loss
  breaker,          \* circuit_breaker_active
  lastReset,        \* last_reset, as a day
  today,            \* Utc::now(), as a day
  caller,           \* the trading loop: how far its trade is
  reset,            \* the midnight task: its next store, and the day it read
  straddled         \* history: losses were recorded between the two stores of
                    \* the last midnight reset

riskVars == <<position, dailyLoss, breaker, lastReset, today, caller, reset,
              straddled>>

CallerSteps == {"idle", "approved", "filled", "losing", "tripping"}
ResetSteps  == {"asleep", "clearLoss", "clearBreaker", "stamp"}

Idle == [at |-> "idle", amount |-> 0, loss |-> 0]

Init ==
  /\ position = 0 /\ dailyLoss = 0 /\ breaker = FALSE
  /\ today = 0 /\ lastReset = 0
  /\ caller = Idle
  /\ reset = [at |-> "asleep", day |-> 0]
  /\ straddled = FALSE

-----------------------------------------------------------------------------
(* check: the gates before execution.                                      *)

\* The Abort route is refused before any limit is read and has no entry.
MaxSafeSlippage(route) ==
  CASE route = "Public" -> 5 [] route = "Flashbots" -> 2 [] route = "Split" -> 1

\* Mutant: the limit is compared with the position held, not the one to be.
PassesMut(amount, slippage, route, scale) ==
  /\ ~breaker
  /\ slippage <= MaxSafeSlippage(route)
  /\ 100 * amount <= MaxTrade * scale
  /\ 100 * position <= MaxPosition * scale

Passes(amount, slippage, route, scale) ==
  /\ ~breaker
  /\ slippage <= MaxSafeSlippage(route)
  /\ 100 * amount <= MaxTrade * scale
  /\ 100 * (position + amount) <= MaxPosition * scale

\* A refusal changes nothing, so only the approval is a step.
Check(amount, slippage, route, scale) ==
  /\ caller.at = "idle"
  /\ Passes(amount, slippage, route, scale)
  /\ caller' = [caller EXCEPT !.at = "approved", !.amount = amount]
  /\ UNCHANGED <<position, dailyLoss, breaker, lastReset, today, reset, straddled>>

\* check_slippage on a failed execution does nothing and nothing is recorded.
ExecutionFails ==
  /\ caller.at = "approved"
  /\ caller' = Idle
  /\ UNCHANGED <<position, dailyLoss, breaker, lastReset, today, reset, straddled>>

\* check_slippage on a successful one: a short fill is the kill-switch, an
\* unknown output passes. Either way record_trade follows.
CheckSlippage(output) ==
  /\ caller.at = "approved"
  /\ caller' = [caller EXCEPT !.at = "filled"]
  /\ breaker' = (breaker \/ output = "short")
  /\ UNCHANGED <<position, dailyLoss, lastReset, today, reset, straddled>>

-----------------------------------------------------------------------------
(* record_trade: up to three atomic operations.                            *)

\* Mutant: a trade reduces the position.
RecordPositionMut(loss) ==
  /\ caller.at = "filled"
  /\ position' = position - caller.amount
  /\ caller' = Idle
  /\ UNCHANGED <<dailyLoss, breaker, lastReset, today, reset, straddled>>

RecordPosition(loss) ==
  /\ caller.at = "filled"
  /\ position' = position + caller.amount
  /\ caller' = IF loss = 0 THEN Idle
               ELSE [caller EXCEPT !.at = "losing", !.loss = loss]
  /\ UNCHANGED <<dailyLoss, breaker, lastReset, today, reset, straddled>>

\* Mutant: the limit must be exceeded, not reached.
RecordLossMut ==
  /\ caller.at = "losing"
  /\ dailyLoss' = dailyLoss + caller.loss
  /\ caller' = IF dailyLoss + caller.loss > DailyLossLimit
               THEN [caller EXCEPT !.at = "tripping"] ELSE Idle
  /\ UNCHANGED <<position, breaker, lastReset, today, reset, straddled>>

RecordLoss ==
  /\ caller.at = "losing"
  /\ dailyLoss' = dailyLoss + caller.loss
  /\ caller' = IF dailyLoss + caller.loss >= DailyLossLimit
               THEN [caller EXCEPT !.at = "tripping"] ELSE Idle
  /\ UNCHANGED <<position, breaker, lastReset, today, reset, straddled>>

TripOnLoss ==
  /\ caller.at = "tripping"
  /\ breaker' = TRUE
  /\ caller' = Idle
  /\ UNCHANGED <<position, dailyLoss, lastReset, today, reset, straddled>>

-----------------------------------------------------------------------------
(* start_midnight_reset: one pass of the ticker.                           *)

NewDay ==
  /\ today < MaxDay
  /\ today' = today + 1
  /\ UNCHANGED <<position, dailyLoss, breaker, lastReset, caller, reset, straddled>>

\* Mutant: every tick resets, whatever the date.
ResetTickMut ==
  /\ reset.at = "asleep"
  /\ reset' = [at |-> "clearLoss", day |-> today]
  /\ UNCHANGED <<position, dailyLoss, breaker, lastReset, today, caller, straddled>>

\* A tick on the day of the last reset does nothing.
ResetTick ==
  /\ reset.at = "asleep"
  /\ today # lastReset
  /\ reset' = [at |-> "clearLoss", day |-> today]
  /\ UNCHANGED <<position, dailyLoss, breaker, lastReset, today, caller, straddled>>

ClearLoss ==
  /\ reset.at = "clearLoss"
  /\ dailyLoss' = 0
  /\ straddled' = FALSE
  /\ reset' = [reset EXCEPT !.at = "clearBreaker"]
  /\ UNCHANGED <<position, breaker, lastReset, today, caller>>

ClearBreaker ==
  /\ reset.at = "clearBreaker"
  /\ breaker' = FALSE
  /\ straddled' = (dailyLoss > 0)
  /\ reset' = [reset EXCEPT !.at = "stamp"]
  /\ UNCHANGED <<position, dailyLoss, lastReset, today, caller>>

\* Mutant: the reset is never stamped, so it runs again at every tick.
StampMut ==
  /\ reset.at = "stamp"
  /\ reset' = [reset EXCEPT !.at = "asleep"]
  /\ UNCHANGED <<position, dailyLoss, breaker, lastReset, today, caller, straddled>>

Stamp ==
  /\ reset.at = "stamp"
  /\ lastReset' = reset.day
  /\ reset' = [reset EXCEPT !.at = "asleep"]
  /\ UNCHANGED <<position, dailyLoss, breaker, today, caller, straddled>>

MidnightReset == ResetTick \/ ClearLoss \/ ClearBreaker \/ Stamp

-----------------------------------------------------------------------------
Record == (\E loss \in Losses : RecordPosition(loss)) \/ RecordLoss \/ TripOnLoss

Next ==
  \/ \E a \in Amounts, s \in Slippages, r \in {"Public", "Flashbots", "Split"},
        scale \in Scales : Check(a, s, r, scale)
  \/ ExecutionFails
  \/ \E output \in {"short", "enough"} : CheckSlippage(output)
  \/ Record
  \/ NewDay
  \/ MidnightReset

\* The ticker of the midnight task never stops, so its next step always comes.
\* Neither a trade nor the end of the day is promised.
Spec == Init /\ [][Next]_riskVars /\ WF_riskVars(MidnightReset)

-----------------------------------------------------------------------------
TypeOK ==
  /\ position \in Nat /\ dailyLoss \in Nat /\ breaker \in BOOLEAN
  /\ lastReset \in Nat /\ today \in Nat
  /\ caller \in [at : CallerSteps, amount : Nat, loss : Nat]
  /\ reset \in [at : ResetSteps, day : Nat]
  /\ straddled \in BOOLEAN

\* Some scaling of max_position_usd that check can be given allows p.
WithinLimit(p) == p = 0 \/ \E scale \in Scales : 100 * p <= MaxPosition * scale

\* The position never exceeds max_position_usd as the largest scaling raises it,
\* and without a macro regime as it is: check reads the position several awaits
\* before record_trade adds to it, and the scaling varies from one check to the
\* next.
PositionWithinLimit == WithinLimit(position)

\* Once the day's losses reach the limit, trading is halted whenever the loop
\* is free to check the next trade - unless losses slipped in between the two
\* stores of a midnight reset, which then cleared the breaker they set.
LossLimitHalts ==
  caller.at = "idle" /\ dailyLoss >= DailyLossLimit /\ ~straddled => breaker

\* The breaker is cleared only while the reset of a new day is due: one that is
\* set after a day's reset was stamped holds until that day is over.
BreakerHoldsUntilMidnight ==
  [][breaker /\ ~breaker' => lastReset < today]_riskVars

\* Every midnight is followed by a reset, however late the tick.
ResetFollowsMidnight == lastReset < today ~> lastReset = today
=============================================================================
