---------------------------- MODULE TradingLoop ----------------------------
(***************************************************************************)
(* src/bin/vertexa.rs: the main loop, its gates, and the life of the       *)
(* process around it - signals, the state file, crashes and restarts.      *)
(*                                                                         *)
(* It composes the risk checker, whose atomics it shares with the midnight *)
(* task (RiskChecker), with what the execution side promises about an      *)
(* order (OrderLifecycle, which Execution implements). An iteration runs   *)
(* to its end before the loop looks at the shutdown signal again.          *)
(***************************************************************************)
EXTENDS Integers, Functions

CONSTANTS
  Amounts, Slippages, MaxTrade, MaxPosition, DailyLossLimit, MaxDay,
  MinTrade,         \* min_trade_usd
  Answers,          \* answers of the execution side
  TradeLosses,      \* what a trade can really lose on the chain
  MaxTrades,        \* bound: orders of a behaviour
  MaxIterations,    \* bound: loop iterations of a behaviour
  MaxStarts         \* bound: restarts of the process

ASSUME LoopConfig ==
  /\ Amounts \subseteq Nat /\ Slippages \subseteq Nat /\ TradeLosses \subseteq Nat
  /\ MaxTrade \in Nat /\ MaxPosition \in Nat /\ MaxDay \in Nat /\ MinTrade \in Nat
  /\ DailyLossLimit \in Nat \ {0}
  /\ Answers \subseteq {"filled", "accepted", "simulated", "failed"}
  /\ MaxTrades \in Nat /\ MaxIterations \in Nat /\ MaxStarts \in Nat

VARIABLES
  position, dailyLoss, breaker, lastReset, today, caller, reset, straddled,
  opened, closed, executed,
  stage,            \* where the main task is
  trade,            \* the PlannedTrade of the iteration and its route
  signalled,        \* the permit of `shutdown`
  file,             \* vertexa_state.json, {} while it holds no valid state
  snapshot,         \* the PersistentState being built
  starts,           \* restarts so far
  iterations,       \* iterations begun
  rows, alerts,     \* CSV rows and notifications of this iteration
  sizes,            \* history: the size of each order
  realised,         \* history: what today's trades lost
  lossy,            \* history: a crash or a failed write lost state
  haltedOn          \* history: day of the kill-switch; -1 for none

riskVars  == <<position, dailyLoss, breaker, lastReset, today, caller, reset, straddled>>
orderVars == <<opened, closed, executed>>
fileVars  == <<file, snapshot, lossy>>
countVars == <<iterations, rows, alerts>>
histVars  == <<sizes, realised, haltedOn>>
vars == <<riskVars, orderVars, fileVars, countVars, histVars,
          stage, trade, signalled, starts>>

\* record_trade is only ever called with a realised PnL of 0.0, and the RAG
\* client never yields a macro regime.
Risk   == INSTANCE RiskChecker WITH Losses <- {0}, Scales <- {100}
Orders == INSTANCE OrderLifecycle WITH Trades <- 1 .. MaxTrades

Running == stage \notin {"stopped", "down"}

NoTrade == [amount |-> 0, slippage |-> 0, route |-> "Public"]
Stored(loss, brk, pos) == [loss |-> loss, breaker |-> brk, position |-> pos]

Init ==
  /\ Risk!Init /\ Orders!Init
  /\ stage = "select" /\ trade = NoTrade /\ signalled = FALSE /\ starts = 0
  /\ file = {} /\ snapshot = Stored(0, FALSE, 0) /\ lossy = FALSE
  /\ iterations = 0 /\ rows = 0 /\ alerts = 0
  /\ sizes = [t \in 1 .. MaxTrades |-> 0] /\ realised = 0 /\ haltedOn = -1

\* The order in flight is the last one opened.
Last == CHOOSE t \in opened : \A u \in opened : u <= t

-----------------------------------------------------------------------------
(* The select! of the main loop.                                           *)

Goto(from, to) == stage = from /\ stage' = to

\* A permit already given wins over a timer just armed.
Select ==
  /\ Goto("select", IF signalled THEN "saveLoss" ELSE "sleep")
  /\ signalled' = FALSE
  /\ UNCHANGED <<riskVars, orderVars, fileVars, countVars, histVars, trade, starts>>

\* Mutant: the wait for the interval does not watch the signal, which is lost.
WakeMut ==
  /\ iterations < MaxIterations
  /\ Goto("sleep", "context")
  /\ signalled' = FALSE
  /\ iterations' = iterations + 1 /\ rows' = 0 /\ alerts' = 0
  /\ UNCHANGED <<riskVars, orderVars, fileVars, histVars, trade, starts>>

\* The timer fires; a permit given meanwhile stays for the next select.
Wake ==
  /\ iterations < MaxIterations
  /\ Goto("sleep", "context")
  /\ iterations' = iterations + 1 /\ rows' = 0 /\ alerts' = 0
  /\ UNCHANGED <<riskVars, orderVars, fileVars, histVars, trade, signalled, starts>>

Interrupted ==
  /\ signalled
  /\ Goto("sleep", "saveLoss")
  /\ signalled' = FALSE
  /\ UNCHANGED <<riskVars, orderVars, fileVars, countVars, histVars, trade, starts>>

-----------------------------------------------------------------------------
(* run_loop_iteration: one action per gate.                                *)

Pass(from, to) ==
  /\ Goto(from, to)
  /\ UNCHANGED <<riskVars, orderVars, fileVars, countVars, histVars, signalled, starts>>

\* The iteration ends, with a CSV row or without, and notifies or does not.
Leave(from, row, alert) ==
  /\ Goto(from, "select")
  /\ trade' = NoTrade
  /\ rows' = rows + row /\ alerts' = alerts + alert
  /\ UNCHANGED <<fileVars, signalled, starts, iterations>>

GateCloses(from, row, alert) ==
  Leave(from, row, alert) /\ UNCHANGED <<riskVars, orderVars, histVars>>

ContextFails     == GateCloses("context", 0, 0)
DecisionNeutral  == GateCloses("context", 1, 0)
TooSmall         == GateCloses("context", 1, 0)
                    /\ \E a \in Amounts : a < MinTrade
MevAborts        == GateCloses("planned", 1, 1)
BuildFails       == GateCloses("routed", 1, 0)
SimulationFails  == GateCloses("built", 1, 1)
NotProfitable    == GateCloses("simulated", 1, 1)
RiskRefuses      == GateCloses("profitable", 1, 1)
                    /\ ~Risk!Passes(trade.amount, trade.slippage, trade.route, 100)

\* build_planned_trade: size from the regime, slippage from the confidence.
Plan ==
  /\ \E a \in Amounts, s \in Slippages :
       a >= MinTrade /\ trade' = [NoTrade EXCEPT !.amount = a, !.slippage = s]
  /\ Pass("context", "planned")

Assess ==
  /\ \E r \in {"Public", "Flashbots", "Split"} : trade' = [trade EXCEPT !.route = r]
  /\ Pass("planned", "routed")

BuildAndSimulate ==
  /\ \/ Pass("routed", "built")
     \/ Pass("built", "simulated")
     \/ Pass("simulated", "profitable")
  /\ UNCHANGED trade

Approve ==
  /\ Goto("profitable", "approved")
  /\ Risk!Check(trade.amount, trade.slippage, trade.route, 100)
  /\ UNCHANGED <<orderVars, fileVars, countVars, histVars, trade, signalled, starts>>

-----------------------------------------------------------------------------
(* Dispatch, and what follows the answer.                                  *)

Dispatch ==
  /\ Goto("approved", "awaiting")
  /\ \E t \in 1 .. MaxTrades :
       /\ opened = 1 .. t - 1
       /\ Orders!Open(t)
       /\ sizes' = [sizes EXCEPT ![t] = trade.amount]
  /\ UNCHANGED <<riskVars, fileVars, countVars, realised, haltedOn, trade, signalled, starts>>

\* The execution side answers; a filled trade may have lost money.
Succeeds(verdict) ==
  /\ verdict # "failed"
  /\ Goto("awaiting", "executed")
  /\ Orders!Close(Last, verdict)
  /\ \E l \in IF verdict = "filled" THEN TradeLosses ELSE {0} : realised' = realised + l
  /\ UNCHANGED <<riskVars, fileVars, countVars, sizes, haltedOn, trade, signalled, starts>>

\* Mutant: a failed execution is logged and not notified.
FailsMut ==
  /\ Leave("awaiting", 1, 0)
  /\ Orders!Close(Last, "failed")
  /\ Risk!ExecutionFails
  /\ UNCHANGED histVars

Fails ==
  /\ Leave("awaiting", 1, 1)
  /\ Orders!Close(Last, "failed")
  /\ Risk!ExecutionFails
  /\ UNCHANGED histVars

\* check_slippage: only a receipt tells the amount that came out. A short fill
\* alerts, is booked all the same and leaves without a row.
CheckSlippage(output) ==
  /\ Goto("executed", IF output = "short" THEN "recordShort" ELSE "record")
  /\ output = "short" => [trade |-> Last, verdict |-> "filled"] \in closed
  /\ Risk!CheckSlippage(output)
  /\ alerts' = alerts + (IF output = "short" THEN 1 ELSE 0)
  /\ haltedOn' = IF output = "short" /\ lastReset = today /\ reset.at = "asleep"
                 THEN today ELSE haltedOn
  /\ UNCHANGED <<orderVars, fileVars, iterations, rows, sizes, realised, trade, signalled, starts>>

\* Mutant: the kill-switch returns before it books the trade.
BookShortMut ==
  /\ Leave("recordShort", 0, 0)
  /\ caller' = Risk!Idle
  /\ UNCHANGED <<position, dailyLoss, breaker, lastReset, today, reset, straddled>>
  /\ UNCHANGED <<orderVars, histVars>>

\* Mutant: the kill-switch branch falls through and books the trade as usual.
BookShortReturnMut ==
  /\ Leave("recordShort", 1, 1)
  /\ Risk!RecordPosition(0)
  /\ UNCHANGED <<orderVars, histVars>>

BookShort ==
  /\ Leave("recordShort", 0, 0)
  /\ Risk!RecordPosition(0)
  /\ UNCHANGED <<orderVars, histVars>>

Book ==
  /\ Leave("record", 1, 1)
  /\ Risk!RecordPosition(0)
  /\ UNCHANGED <<orderVars, histVars>>

-----------------------------------------------------------------------------
(* Shutdown: three loads, then fs::write, which empties the file first.    *)

Load(from, to, snap) ==
  /\ Goto(from, to)
  /\ snapshot' = snap
  /\ UNCHANGED <<riskVars, orderVars, countVars, histVars, file, lossy, trade, signalled, starts>>

LoadState ==
  \/ Load("saveLoss", "saveBreaker", [snapshot EXCEPT !.loss = dailyLoss])
  \/ Load("saveBreaker", "savePosition", [snapshot EXCEPT !.breaker = breaker])
  \/ Load("savePosition", "truncate", [snapshot EXCEPT !.position = position])

SaveState(from, to, content, lost) ==
  /\ Goto(from, to)
  /\ file' = content
  /\ lossy' = (lossy \/ lost)
  /\ UNCHANGED <<riskVars, orderVars, countVars, histVars, snapshot, trade, signalled, starts>>

\* A failed write is only logged.
WriteFile ==
  \/ SaveState("truncate", "write", {}, FALSE)
  \/ SaveState("truncate", "stopped", file, TRUE)
  \/ SaveState("write", "stopped", {snapshot}, FALSE)
  \/ SaveState("write", "stopped", {}, TRUE)

-----------------------------------------------------------------------------
(* The world around the main task.                                         *)

Signal ==
  /\ Running /\ ~signalled
  /\ stage \notin {"saveLoss", "saveBreaker", "savePosition", "truncate", "write"}
  /\ signalled' = TRUE
  /\ UNCHANGED <<riskVars, orderVars, fileVars, countVars, histVars, stage, trade, starts>>

\* The process dies; an order in flight is never answered to the loop.
Crash ==
  /\ Running
  /\ stage' = "down"
  /\ lossy' = TRUE
  /\ IF stage = "awaiting" THEN Orders!Close(Last, "failed") ELSE UNCHANGED orderVars
  /\ UNCHANGED <<riskVars, countVars, histVars, file, snapshot, trade, signalled, starts>>

\* Mutant: the breaker is not restored.
RestoredMut == IF file = {} THEN Stored(0, FALSE, 0)
               ELSE [(CHOOSE s \in file : TRUE) EXCEPT !.breaker = FALSE]

\* Mutant: the position is not restored.
RestoredPositionMut == IF file = {} THEN Stored(0, FALSE, 0)
                       ELSE [(CHOOSE s \in file : TRUE) EXCEPT !.position = 0]

\* load_state: no file and an unreadable one both mean a fresh start.
Restored == IF file = {} THEN Stored(0, FALSE, 0) ELSE CHOOSE s \in file : TRUE

\* main again, with new_with_state: the day of the last reset is now.
Start ==
  /\ ~Running /\ starts < MaxStarts
  /\ starts' = starts + 1
  /\ position' = Restored.position /\ dailyLoss' = Restored.loss
  /\ breaker' = Restored.breaker
  /\ lastReset' = today
  /\ caller' = Risk!Idle /\ reset' = [at |-> "asleep", day |-> 0] /\ straddled' = FALSE
  /\ stage' = "select" /\ trade' = NoTrade /\ signalled' = FALSE
  /\ UNCHANGED <<today, orderVars, fileVars, countVars, histVars>>

Midnight ==
  /\ \/ Running /\ Risk!MidnightReset /\ UNCHANGED realised
     \/ Risk!NewDay /\ realised' = 0
  /\ UNCHANGED <<orderVars, fileVars, countVars, sizes, haltedOn, stage, trade, signalled, starts>>

\* The chain takes a transaction, answered or not.
Mined ==
  /\ \E t \in opened : Orders!Execute(t)
  /\ UNCHANGED <<riskVars, fileVars, countVars, histVars, stage, trade, signalled, starts>>

-----------------------------------------------------------------------------
Gates ==
  \/ ContextFails \/ DecisionNeutral \/ TooSmall \/ Plan
  \/ MevAborts \/ Assess \/ BuildFails \/ SimulationFails \/ NotProfitable
  \/ BuildAndSimulate \/ RiskRefuses \/ Approve

Iteration ==
  \/ Gates \/ Dispatch
  \/ (\E v \in Answers : Succeeds(v)) \/ Fails
  \/ (\E output \in {"short", "enough"} : CheckSlippage(output)) \/ BookShort \/ Book

MainTask == Select \/ Interrupted \/ Iteration \/ LoadState \/ WriteFile

Next == MainTask \/ Wake \/ Signal \/ Crash \/ Start \/ Midnight \/ Mined

\* The main task runs: an iteration takes its next step, the execution side
\* answers every order (Execution's OrderAnswered), a shutdown proceeds.
Spec == Init /\ [][Next]_vars /\ WF_vars(MainTask)

-----------------------------------------------------------------------------
Stages == {"select", "sleep", "context", "planned", "routed", "built", "simulated",
  "profitable", "approved", "awaiting", "executed", "recordShort", "record",
  "saveLoss", "saveBreaker", "savePosition", "truncate", "write", "stopped", "down"}

TypeOK ==
  /\ Risk!TypeOK
  /\ opened \subseteq 1 .. MaxTrades /\ executed \subseteq opened
  /\ stage \in Stages
  /\ file \subseteq [loss : Nat, breaker : BOOLEAN, position : Nat]
  /\ snapshot \in [loss : Nat, breaker : BOOLEAN, position : Nat]
  /\ iterations \in 0 .. MaxIterations /\ rows \in 0 .. 1
  /\ alerts \in 0 .. 1

SizeOf(trades) == SumFunctionOnSet(sizes, trades)

Failed    == {c.trade : c \in {d \in closed : d.verdict = "failed"}}
Succeeded == {c.trade : c \in closed} \ Failed

\* Between iterations the position is what the successful orders add up to,
\* over every graceful stop and restart: each is booked exactly once, on the
\* kill-switch path too, and a stop never falls between execution and booking.
PositionAccountsForOrders ==
  stage = "select" /\ ~lossy => position = SizeOf(Succeeded)

\* What is on the chain and was not answered as failed stays within the limit,
\* the order in flight included.
TrackedExposureWithinLimit ==
  ~lossy => SizeOf(executed \ Failed) <= MaxPosition

\* A kill-switch set after the day's reset keeps trading halted until that day
\* is over, across graceful restarts.
KillSwitchLastsTheDay ==
  stage = "select" /\ ~lossy /\ haltedOn = today => breaker

\* Whatever becomes of an order, the iteration that opened it notifies exactly
\* once and leaves no second row, and one is left unless the trade filled short:
\* of a short fill nothing is asked here but that it is not logged twice.
OrderReportedOnce ==
  [][(stage \in {"awaiting", "recordShort", "record"} /\ stage' = "select")
       => (alerts' = 1 /\ rows' <= 1 /\ (stage # "recordShort" => rows' = 1))]_vars

\* A signal ends the process, after the iteration in progress at the latest.
SignalStops == signalled ~> ~Running

\* "Enforces risk limits (position limits, ...)", for what is on the chain and
\* however the actor answered, in a process that never crashed.
ExposureWithinLimit == ~lossy => SizeOf(executed) <= MaxPosition

\* "Enforces risk limits (..., daily loss circuit breaker)", for the losses the
\* trades really make.
RealLossHalts == stage = "select" /\ realised >= DailyLossLimit => breaker
=============================================================================
