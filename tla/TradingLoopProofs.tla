-------------------------- MODULE TradingLoopProofs --------------------------
(***************************************************************************)
(* Theorems about TradingLoop, for every number of orders, iterations,     *)
(* starts and days, every trade size and limit, and any answers of the     *)
(* execution side.                                                         *)
(*                                                                         *)
(* The counters are those of the risk checker, but a restart may set them  *)
(* to what the file holds. So the invariant follows the position through   *)
(* the file and through what is about to be booked, and says of every      *)
(* place of the loop what the risk checker is waiting for there.           *)
(***************************************************************************)
EXTENDS TradingLoop, SumTheorems

-----------------------------------------------------------------------------
(* The inductive invariant.                                                *)

Quiet   == {"select", "sleep", "context", "planned", "routed", "built", "simulated",
            "profitable"}
Booking == {"recordShort", "record"}
Saving  == {"saveLoss", "saveBreaker", "savePosition", "truncate", "write"}
Ended   == {"stopped", "down"}

States == [loss : Nat, breaker : BOOLEAN, position : Nat]

LoopTypes ==
  /\ stage \in Stages
  /\ trade \in [amount : Nat, slippage : Nat, route : {"Public", "Flashbots", "Split"}]
  /\ sizes \in [1 .. MaxTrades -> Nat]
  /\ iterations \in 0 .. MaxIterations
  /\ lossy \in BOOLEAN /\ haltedOn \in Int

FileTypes == file \subseteq States /\ snapshot \in States

\* An iteration has left no row yet, and has notified of a short fill only.
Reported ==
  /\ rows \in 0 .. 1 /\ alerts \in 0 .. 1
  /\ stage \in {"context", "planned", "routed", "built", "simulated", "profitable",
                "approved", "awaiting", "executed", "record"} => rows = 0 /\ alerts = 0
  /\ stage = "recordShort" => rows = 0 /\ alerts = 1

\* The risk checker is where the loop takes it.
CallerInStep ==
  /\ stage \in Quiet \union Saving => caller.at = "idle"
  /\ stage \in {"approved", "awaiting", "executed"} => caller.at = "approved"
  /\ stage \in Booking => caller.at = "filled"
  /\ stage \in {"approved", "awaiting", "executed"} \union Booking =>
       caller.amount = trade.amount

\* Orders are numbered one after the other, and only the last one is open, while
\* the loop awaits its answer.
OrdersInLine ==
  /\ \E n \in 0 .. MaxTrades :
       /\ opened = 1 .. n
       /\ Orders!Closed = IF stage = "awaiting" THEN 1 .. n - 1 ELSE 1 .. n
       /\ stage = "awaiting" => n > 0 /\ sizes[n] = caller.amount
  /\ executed \subseteq opened

AnsweredOnce == \A c, d \in closed : c.trade = d.trade => c = d

Unbooked == IF stage \in {"executed"} \union Booking THEN caller.amount ELSE 0

PositionAccounted == ~lossy => position + Unbooked = SizeOf(Succeeded)

RoomKept ==
  /\ position <= MaxPosition /\ snapshot.position <= MaxPosition
  /\ \A s \in file : s.position <= MaxPosition
  /\ stage \in {"approved", "awaiting", "executed"} \union Booking =>
       position + caller.amount <= MaxPosition

\* What a graceful stop saves is what it leaves.
Saved ==
  ~lossy => /\ stage # "down"
            /\ stage \in {"truncate", "write", "stopped"} => snapshot.position = position
            /\ stage = "stopped" => file = {snapshot}

\* No reset falls into the rest of the day of a kill-switch.
HaltHolds ==
  /\ haltedOn <= today
  /\ haltedOn = today /\ ~lossy =>
       /\ lastReset = today /\ reset.at = "asleep"
       /\ Running => breaker
       /\ stage \in {"savePosition", "truncate", "write", "stopped"} => snapshot.breaker

IInv ==
  /\ Risk!TypeOK /\ LoopTypes /\ FileTypes /\ Reported
  /\ CallerInStep /\ OrdersInLine /\ AnsweredOnce
  /\ PositionAccounted /\ RoomKept /\ Saved /\ HaltHolds

-----------------------------------------------------------------------------
(* Orders and sums of their sizes.                                         *)

\* An order has a size, and a set of orders a total.
LEMMA SizeOfType ==
  ASSUME LoopTypes, NEW T, T \subseteq 1 .. MaxTrades
  PROVE  IsFiniteSet(T) /\ SizeOf(T) \in Nat
  <1>1. IsFiniteSet(1 .. MaxTrades)
    BY LoopConfig, FS_Interval
  <1>2. IsFiniteSet(T)
    BY <1>1, FS_Subset
  <1>3. \A t \in T : sizes[t] \in Nat
    BY DEF LoopTypes
  <1>. QED BY <1>2, <1>3, SumType DEF SizeOf

\* The order in flight is the one with the highest number.
LEMMA LastOpen ==
  ASSUME NEW n \in Nat \ {0}, opened = 1 .. n
  PROVE  Last = n
  <1>1. n \in opened /\ \A u \in opened : u <= n
    OBVIOUS
  <1>2. Last \in opened /\ \A u \in opened : u <= Last
    BY <1>1 DEF Last
  <1>. QED BY <1>1, <1>2

\* An order that has been answered was opened before, and in order.
LEMMA AnsweredOpened ==
  ASSUME OrdersInLine
  PROVE  /\ Orders!Closed \subseteq opened /\ opened \subseteq 1 .. MaxTrades
         /\ Failed \subseteq Orders!Closed /\ Succeeded = Orders!Closed \ Failed
         /\ stage # "awaiting" => Orders!Closed = opened
         /\ stage = "awaiting" => /\ Last \in opened \ Orders!Closed
                                 /\ opened = Orders!Closed \union {Last}
                                 /\ sizes[Last] = caller.amount
  <1>1. PICK n \in 0 .. MaxTrades :
          /\ opened = 1 .. n
          /\ Orders!Closed = IF stage = "awaiting" THEN 1 .. n - 1 ELSE 1 .. n
          /\ stage = "awaiting" => n > 0 /\ sizes[n] = caller.amount
    BY DEF OrdersInLine
  <1>2. MaxTrades \in Nat
    BY LoopConfig
  <1>3. Failed \subseteq Orders!Closed /\ Succeeded = Orders!Closed \ Failed
    BY DEF Failed, Succeeded, Orders!Closed
  <1>4. stage = "awaiting" => Last = n
    BY <1>1, <1>2, LastOpen
  <1>. QED BY <1>1, <1>2, <1>3, <1>4

\* The totals do not change while the orders and their sizes do not.
LEMMA TotalsKept ==
  ASSUME UNCHANGED <<closed, sizes>>
  PROVE  UNCHANGED <<Failed, Succeeded, SizeOf(Succeeded), Orders!Closed>>
  BY DEF Failed, Succeeded, SizeOf, Orders!Closed

-----------------------------------------------------------------------------
LEMMA InitIInv == Init => IInv
  <1>. SUFFICES ASSUME Init PROVE IInv
    OBVIOUS
  <1>. USE LoopConfig
  <1>1. Risk!TypeOK
    <2>1. breaker \in BOOLEAN /\ straddled \in BOOLEAN
      BY DEF Init, Risk!Init
    <2>2. /\ position \in Nat /\ dailyLoss \in Nat /\ lastReset \in Nat /\ today \in Nat
          /\ caller \in [at : Risk!CallerSteps, amount : Nat, loss : Nat]
          /\ reset \in [at : Risk!ResetSteps, day : Nat]
      BY DEF Init, Risk!Init, Risk!Idle, Risk!CallerSteps, Risk!ResetSteps
    <2>. QED BY <2>1, <2>2 DEF Risk!TypeOK
  <1>2. LoopTypes
    <2>1. lossy \in BOOLEAN
      BY DEF Init
    <2>. QED BY <2>1 DEF Init, LoopTypes, Stages, NoTrade
  <1>3. FileTypes
    BY DEF Init, FileTypes, States, Stored
  <1>4. Reported /\ CallerInStep
    BY DEF Init, Risk!Init, Risk!Idle, Reported, CallerInStep, Booking
  <1>5. closed = {} /\ opened = {} /\ executed = {} /\ stage = "select"
    BY DEF Init, Orders!Init
  <1>6. AnsweredOnce /\ OrdersInLine
    BY <1>5 DEF AnsweredOnce, OrdersInLine, Orders!Closed
  <1>7. PositionAccounted
    <2>1. Succeeded = {}
      BY <1>5 DEF Succeeded
    <2>2. SizeOf(Succeeded) = 0
      BY <2>1, SumEmpty DEF SizeOf
    <2>. QED BY <2>2, <1>5 DEF PositionAccounted, Unbooked, Booking, Init, Risk!Init
  <1>8. RoomKept
    BY DEF Init, Risk!Init, RoomKept, Stored, Booking
  <1>9. Saved
    BY <1>5 DEF Saved
  <1>10. HaltHolds
    BY DEF Init, Risk!Init, HaltHolds
  <1>. QED BY <1>1, <1>2, <1>3, <1>4, <1>6, <1>7, <1>8, <1>9, <1>10 DEF IInv

-----------------------------------------------------------------------------
(* Steps that change none of what the invariant is about but the stage: the *)
(* select! and the gates up to the risk check.                             *)

QuietStep ==
  \/ Select \/ Wake \/ Interrupted
  \/ ContextFails \/ DecisionNeutral \/ TooSmall \/ Plan
  \/ MevAborts \/ Assess \/ BuildFails \/ SimulationFails \/ NotProfitable
  \/ BuildAndSimulate \/ RiskRefuses

\* A gate leaves the risk checker, the orders and the state file alone.
LEMMA QuietShape ==
  ASSUME QuietStep
  PROVE  /\ stage \in Quiet /\ stage' \in Quiet \union {"saveLoss"}
         /\ UNCHANGED <<riskVars, orderVars, fileVars, histVars>>
  <1>. USE DEF Goto, Pass, Leave, GateCloses, Quiet
  <1>1. CASE Select \/ Wake \/ Interrupted
    BY <1>1 DEF Select, Wake, Interrupted
  <1>2. CASE ContextFails \/ DecisionNeutral \/ TooSmall \/ MevAborts
    BY <1>2 DEF ContextFails, DecisionNeutral, TooSmall, MevAborts
  <1>3. CASE BuildFails \/ SimulationFails \/ NotProfitable \/ RiskRefuses
    BY <1>3 DEF BuildFails, SimulationFails, NotProfitable, RiskRefuses
  <1>4. CASE Plan \/ Assess \/ BuildAndSimulate
    BY <1>4 DEF Plan, Assess, BuildAndSimulate
  <1>. QED BY <1>1, <1>2, <1>3, <1>4 DEF QuietStep

Routes == {"Public", "Flashbots", "Split"}

\* A trade is planned with a size and a slippage of the program's.
LEMMA QuietTrade ==
  ASSUME LoopTypes, QuietStep
  PROVE  /\ trade' \in [amount : Nat, slippage : Nat, route : Routes]
         /\ iterations' \in 0 .. MaxIterations
  <1>. USE LoopConfig DEF Goto, Pass, Leave, GateCloses, LoopTypes, NoTrade, Routes
  <1>1. CASE Select \/ Wake \/ Interrupted
    BY <1>1 DEF Select, Wake, Interrupted, countVars
  <1>2. CASE ContextFails \/ DecisionNeutral \/ TooSmall \/ MevAborts
    BY <1>2 DEF ContextFails, DecisionNeutral, TooSmall, MevAborts
  <1>3. CASE BuildFails \/ SimulationFails \/ NotProfitable \/ RiskRefuses
    BY <1>3 DEF BuildFails, SimulationFails, NotProfitable, RiskRefuses
  <1>4. CASE Plan
    <2>1. PICK a \in Amounts, sl \in Slippages :
            trade' = [NoTrade EXCEPT !.amount = a, !.slippage = sl]
      BY <1>4 DEF Plan
    <2>2. a \in Nat /\ sl \in Nat
      OBVIOUS
    <2>. QED BY <2>1, <2>2, <1>4 DEF Plan, countVars
  <1>5. CASE Assess
    <2>1. PICK r \in Routes : trade' = [trade EXCEPT !.route = r]
      BY <1>5 DEF Assess
    <2>. QED BY <2>1, <1>5 DEF Assess, countVars
  <1>6. CASE BuildAndSimulate
    BY <1>6 DEF BuildAndSimulate, countVars
  <1>. QED BY <1>1, <1>2, <1>3, <1>4, <1>5, <1>6 DEF QuietStep

\* A gate that closes leaves a row and notifies once at most.
LEMMA QuietReports ==
  ASSUME Reported, QuietStep
  PROVE  Reported'
  <1>. USE DEF Goto, Pass, Leave, GateCloses, Reported, countVars
  <1>1. CASE Select \/ Wake \/ Interrupted
    BY <1>1 DEF Select, Wake, Interrupted
  <1>2. CASE ContextFails \/ DecisionNeutral \/ TooSmall \/ MevAborts
    BY <1>2 DEF ContextFails, DecisionNeutral, TooSmall, MevAborts
  <1>3. CASE BuildFails \/ SimulationFails \/ NotProfitable \/ RiskRefuses
    BY <1>3 DEF BuildFails, SimulationFails, NotProfitable, RiskRefuses
  <1>4. CASE Plan \/ Assess \/ BuildAndSimulate
    BY <1>4 DEF Plan, Assess, BuildAndSimulate
  <1>. QED BY <1>1, <1>2, <1>3, <1>4 DEF QuietStep

LEMMA QuietIInv == IInv /\ QuietStep => IInv'
  <1>. SUFFICES ASSUME IInv, QuietStep PROVE IInv'
    OBVIOUS
  <1>1. /\ stage \in Quiet /\ stage' \in Quiet \union {"saveLoss"}
        /\ UNCHANGED riskVars /\ UNCHANGED orderVars /\ UNCHANGED fileVars /\ UNCHANGED histVars
    BY QuietShape
  <1>2. /\ UNCHANGED <<position, dailyLoss, breaker, lastReset, today, caller, reset, straddled>>
        /\ UNCHANGED <<opened, closed, executed, file, snapshot, lossy, sizes, haltedOn>>
    BY <1>1 DEF riskVars, orderVars, fileVars, histVars
  <1>3. stage # "awaiting" /\ stage' # "awaiting" /\ caller.at = "idle"
    BY <1>1 DEF IInv, CallerInStep, Quiet
  <1>4. Risk!TypeOK'
    BY <1>2 DEF IInv, Risk!TypeOK
  <1>5. LoopTypes'
    BY <1>1, <1>2, QuietTrade DEF IInv, LoopTypes, Routes, Stages, Quiet
  <1>6. FileTypes' /\ AnsweredOnce'
    BY <1>2 DEF IInv, FileTypes, AnsweredOnce
  <1>7. Reported'
    BY QuietReports DEF IInv
  <1>8. CallerInStep'
    BY <1>1, <1>2, <1>3 DEF CallerInStep, Quiet, Saving, Booking
  <1>9. OrdersInLine'
    BY <1>2, <1>3, TotalsKept DEF IInv, OrdersInLine
  <1>10. PositionAccounted'
    BY <1>1, <1>2, TotalsKept DEF IInv, PositionAccounted, Unbooked, Quiet, Booking
  <1>11. RoomKept'
    BY <1>1, <1>2 DEF IInv, RoomKept, Quiet, Booking
  <1>12. Saved'
    BY <1>1, <1>2 DEF IInv, Saved, Quiet
  <1>13. HaltHolds'
    BY <1>1, <1>2 DEF IInv, HaltHolds, Quiet, Running
  <1>. QED BY <1>4, <1>5, <1>6, <1>7, <1>8, <1>9, <1>10, <1>11, <1>12, <1>13 DEF IInv

-----------------------------------------------------------------------------
(* From the risk check to the booking of the trade.                        *)

\* The check passes with the position as it is: there is room for the trade.
LEMMA ApproveIInv == IInv /\ Approve => IInv'
  <1>. SUFFICES ASSUME IInv, Approve PROVE IInv'
    OBVIOUS
  <1>1. /\ stage = "profitable" /\ stage' = "approved"
        /\ UNCHANGED <<opened, closed, executed, file, snapshot, lossy, sizes, realised, haltedOn>>
        /\ UNCHANGED <<iterations, rows, alerts, trade>>
    BY DEF Approve, Goto, orderVars, fileVars, countVars, histVars
  <1>2. /\ UNCHANGED <<position, dailyLoss, breaker, lastReset, today, reset, straddled>>
        /\ caller' = [caller EXCEPT !.at = "approved", !.amount = trade.amount]
        /\ 100 * (position + trade.amount) <= MaxPosition * 100
    BY DEF Approve, Risk!Check, Risk!Passes
  <1>3. /\ caller \in [at : Risk!CallerSteps, amount : Nat, loss : Nat] /\ trade.amount \in Nat
        /\ position \in Nat /\ MaxPosition \in Nat
    BY LoopConfig DEF IInv, Risk!TypeOK, LoopTypes
  <1>4. caller' = [at |-> "approved", amount |-> trade.amount, loss |-> caller.loss]
    BY <1>2, <1>3
  <1>5. Risk!TypeOK'
    <2>1. caller' \in [at : Risk!CallerSteps, amount : Nat, loss : Nat]
      BY <1>3, <1>4 DEF Risk!CallerSteps
    <2>. QED BY <2>1, <1>2 DEF IInv, Risk!TypeOK
  <1>6. LoopTypes'
    BY <1>1 DEF IInv, LoopTypes, Stages
  <1>7. FileTypes' /\ AnsweredOnce'
    BY <1>1 DEF IInv, FileTypes, AnsweredOnce
  <1>8. Reported'
    BY <1>1 DEF IInv, Reported
  <1>9. CallerInStep'
    BY <1>1, <1>4 DEF CallerInStep, Quiet, Saving, Booking
  <1>10. OrdersInLine'
    BY <1>1, TotalsKept DEF IInv, OrdersInLine
  <1>11. PositionAccounted'
    BY <1>1, <1>2, TotalsKept DEF IInv, PositionAccounted, Unbooked, Booking
  <1>12. RoomKept'
    BY <1>1, <1>2, <1>3, <1>4 DEF IInv, RoomKept
  <1>13. Saved'
    BY <1>1, <1>2 DEF IInv, Saved
  <1>14. HaltHolds'
    BY <1>1, <1>2 DEF IInv, HaltHolds, Running
  <1>. QED BY <1>5, <1>6, <1>7, <1>8, <1>9, <1>10, <1>11, <1>12, <1>13, <1>14 DEF IInv

\* The order gets the next number, and the size that was approved.
LEMMA DispatchIInv == IInv /\ Dispatch => IInv'
  <1>. SUFFICES ASSUME IInv, Dispatch PROVE IInv'
    OBVIOUS
  <1>1. /\ stage = "approved" /\ stage' = "awaiting"
        /\ UNCHANGED <<position, dailyLoss, breaker, lastReset, today, caller, reset, straddled>>
        /\ UNCHANGED <<file, snapshot, lossy, iterations, rows, alerts, trade, haltedOn>>
    BY DEF Dispatch, Goto, riskVars, fileVars, countVars
  <1>2. PICK t \in 1 .. MaxTrades :
          /\ opened = 1 .. t - 1 /\ opened' = opened \union {t} /\ UNCHANGED <<closed, executed>>
          /\ sizes' = [sizes EXCEPT ![t] = trade.amount]
    BY DEF Dispatch, Orders!Open
  <1>3. /\ sizes \in [1 .. MaxTrades -> Nat] /\ trade.amount \in Nat /\ MaxTrades \in Nat
        /\ caller.amount = trade.amount
    BY <1>1, LoopConfig DEF IInv, LoopTypes, CallerInStep
  <1>4. opened' = 1 .. t /\ sizes' \in [1 .. MaxTrades -> Nat] /\ sizes'[t] = caller.amount
    BY <1>2, <1>3
  <1>5. Risk!TypeOK'
    BY <1>1 DEF IInv, Risk!TypeOK
  <1>6. LoopTypes'
    BY <1>1, <1>4 DEF IInv, LoopTypes, Stages
  <1>7. FileTypes' /\ AnsweredOnce'
    BY <1>1, <1>2 DEF IInv, FileTypes, AnsweredOnce
  <1>8. Reported' /\ CallerInStep'
    BY <1>1 DEF IInv, Reported, CallerInStep, Quiet, Saving, Booking
  <1>9. Orders!Closed = 1 .. t - 1 /\ UNCHANGED <<Orders!Closed, Failed, Succeeded>>
    BY <1>1, <1>2, AnsweredOpened DEF IInv, Orders!Closed, Failed, Succeeded
  <1>10. OrdersInLine'
    <2>1. Orders!Closed' = 1 .. t - 1 /\ t \in 0 .. MaxTrades /\ t > 0
      BY <1>9, <1>3
    <2>2. executed' \subseteq opened'
      BY <1>2 DEF IInv, OrdersInLine
    <2>. QED BY <2>1, <2>2, <1>1, <1>4 DEF OrdersInLine
  <1>11. PositionAccounted'
    <2>1. Succeeded \subseteq 1 .. t - 1
      BY <1>1, <1>9, AnsweredOpened DEF IInv
    <2>2. \A u \in Succeeded : sizes'[u] = sizes[u]
      BY <2>1, <1>2, <1>3
    <2>3. IsFiniteSet(Succeeded)
      <3>1. Succeeded \subseteq 1 .. MaxTrades
        BY AnsweredOpened DEF IInv
      <3>. QED BY <3>1, SizeOfType DEF IInv
    <2>4. SizeOf(Succeeded)' = SizeOf(Succeeded)
      BY <2>2, <2>3, <1>9, SumSame DEF SizeOf
    <2>. QED BY <2>4, <1>1 DEF IInv, PositionAccounted, Unbooked, Booking
  <1>12. RoomKept' /\ Saved'
    BY <1>1 DEF IInv, RoomKept, Saved, Booking
  <1>13. HaltHolds'
    BY <1>1 DEF IInv, HaltHolds, Running
  <1>. QED BY <1>5, <1>6, <1>7, <1>8, <1>10, <1>11, <1>12, <1>13 DEF IInv

\* What an answer does to the orders.
LEMMA Answering ==
  ASSUME IInv, stage = "awaiting", stage' # "awaiting", NEW verdict, Orders!Close(Last, verdict),
         UNCHANGED sizes
  PROVE  /\ OrdersInLine' /\ AnsweredOnce'
         /\ verdict = "failed" => UNCHANGED Succeeded /\ Failed' = Failed \union {Last}
         /\ verdict # "failed" => /\ UNCHANGED Failed
                                 /\ Succeeded' = Succeeded \union {Last} /\ Last \notin Succeeded
                                 /\ SizeOf(Succeeded)' = SizeOf(Succeeded) + caller.amount
  <1>. DEFINE answer == [trade |-> Last, verdict |-> verdict]
  <1>1. PICK n \in 0 .. MaxTrades :
          /\ opened = 1 .. n /\ Orders!Closed = 1 .. n - 1
          /\ n > 0 /\ sizes[n] = caller.amount
    BY DEF IInv, OrdersInLine
  <1>2. n \in Nat \ {0} /\ MaxTrades \in Nat /\ Last = n
    BY <1>1, LoopConfig, LastOpen
  <1>3. closed' = closed \union {answer} /\ UNCHANGED <<opened, executed>>
    BY DEF Orders!Close
  <1>4. answer.trade = n /\ answer.verdict = verdict /\ n \notin Orders!Closed
    BY <1>1, <1>2
  <1>5. Orders!Closed' = Orders!Closed \union {n}
    BY <1>3, <1>4 DEF Orders!Closed
  <1>6. OrdersInLine'
    <2>1. Orders!Closed' = 1 .. n
      BY <1>1, <1>2, <1>5
    <2>. QED BY <2>1, <1>1, <1>3 DEF IInv, OrdersInLine
  <1>7. AnsweredOnce'
    <2>1. \A c \in closed : c.trade # n
      BY <1>4 DEF Orders!Closed
    <2>. QED BY <2>1, <1>3, <1>4 DEF IInv, AnsweredOnce
  <1>8. Failed' = IF verdict = "failed" THEN Failed \union {n} ELSE Failed
    BY <1>3, <1>4 DEF Failed
  <1>9. Failed \subseteq Orders!Closed /\ Succeeded = Orders!Closed \ Failed
    BY AnsweredOpened DEF IInv
  <1>10. Succeeded' = Orders!Closed' \ Failed'
    BY DEF Succeeded, Orders!Closed
  <1>11. Succeeded' = IF verdict = "failed" THEN Succeeded ELSE Succeeded \union {n}
    BY <1>4, <1>5, <1>8, <1>9, <1>10
  <1>12. ASSUME verdict # "failed"
         PROVE  SizeOf(Succeeded)' = SizeOf(Succeeded) + caller.amount
    <2>1. Succeeded \union {n} \subseteq 1 .. MaxTrades /\ n \notin Succeeded
      BY <1>1, <1>2, <1>4, <1>9
    <2>2. IsFiniteSet(Succeeded) /\ \A u \in Succeeded \union {n} : sizes[u] \in Nat
      BY <2>1, SizeOfType DEF IInv, LoopTypes
    <2>3. SizeOf(Succeeded \union {n}) = SizeOf(Succeeded) + sizes[n]
      BY <2>1, <2>2, SumAdd DEF SizeOf
    <2>4. SizeOf(Succeeded)' = SizeOf(Succeeded \union {n})
      BY <1>11, <1>12 DEF SizeOf
    <2>. QED BY <2>3, <2>4, <1>1
  <1>. QED BY <1>2, <1>4, <1>6, <1>7, <1>8, <1>9, <1>11, <1>12

\* An answer other than a failure: the trade is still to be booked.
LEMMA SucceedsIInv ==
  ASSUME IInv, NEW verdict \in Answers, Succeeds(verdict)
  PROVE  IInv'
  <1>1. /\ stage = "awaiting" /\ stage' = "executed" /\ verdict # "failed"
        /\ Orders!Close(Last, verdict)
        /\ UNCHANGED <<position, dailyLoss, breaker, lastReset, today, caller, reset, straddled>>
        /\ UNCHANGED <<file, snapshot, lossy, iterations, rows, alerts, trade, sizes, haltedOn>>
    BY DEF Succeeds, Goto, riskVars, fileVars, countVars
  <1>2. Risk!TypeOK'
    BY <1>1 DEF IInv, Risk!TypeOK
  <1>3. LoopTypes'
    BY <1>1 DEF IInv, LoopTypes, Stages
  <1>4. FileTypes' /\ Reported' /\ CallerInStep'
    BY <1>1 DEF IInv, FileTypes, Reported, CallerInStep, Quiet, Saving, Booking
  <1>5. /\ OrdersInLine' /\ AnsweredOnce'
        /\ SizeOf(Succeeded)' = SizeOf(Succeeded) + caller.amount
    BY <1>1, Answering
  <1>6. PositionAccounted'
    <2>1. Succeeded \subseteq 1 .. MaxTrades
      BY AnsweredOpened DEF IInv
    <2>2. SizeOf(Succeeded) \in Nat /\ caller.amount \in Nat /\ position \in Nat
      BY <2>1, SizeOfType DEF IInv, Risk!TypeOK
    <2>3. Unbooked = 0 /\ Unbooked' = caller.amount
      BY <1>1 DEF Unbooked, Booking
    <2>. QED BY <2>2, <2>3, <1>1, <1>5 DEF IInv, PositionAccounted
  <1>7. RoomKept' /\ Saved'
    BY <1>1 DEF IInv, RoomKept, Saved, Booking
  <1>8. HaltHolds'
    BY <1>1 DEF IInv, HaltHolds, Running
  <1>. QED BY <1>2, <1>3, <1>4, <1>5, <1>6, <1>7, <1>8 DEF IInv

\* A failure: nothing is booked.
LEMMA FailsIInv == IInv /\ Fails => IInv'
  <1>. SUFFICES ASSUME IInv, Fails PROVE IInv'
    OBVIOUS
  <1>1. /\ stage = "awaiting" /\ stage' = "select" /\ trade' = NoTrade
        /\ rows' = rows + 1 /\ alerts' = alerts + 1 /\ Orders!Close(Last, "failed")
        /\ UNCHANGED <<file, snapshot, lossy, iterations, sizes, haltedOn>>
    BY DEF Fails, Leave, Goto, fileVars, histVars
  <1>2. /\ caller' = [at |-> "idle", amount |-> 0, loss |-> 0]
        /\ UNCHANGED <<position, dailyLoss, breaker, lastReset, today, reset, straddled>>
    BY DEF Fails, Risk!ExecutionFails, Risk!Idle
  <1>3. Risk!TypeOK'
    <2>1. caller' \in [at : Risk!CallerSteps, amount : Nat, loss : Nat]
      BY <1>2 DEF Risk!CallerSteps
    <2>. QED BY <2>1, <1>2 DEF IInv, Risk!TypeOK
  <1>4. LoopTypes'
    BY <1>1 DEF IInv, LoopTypes, Stages, NoTrade
  <1>5. FileTypes' /\ Reported' /\ CallerInStep'
    BY <1>1, <1>2 DEF IInv, FileTypes, Reported, CallerInStep, Quiet, Saving, Booking
  <1>6. /\ OrdersInLine' /\ AnsweredOnce' /\ UNCHANGED Succeeded
    BY <1>1, Answering
  <1>7. PositionAccounted'
    <2>1. SizeOf(Succeeded)' = SizeOf(Succeeded)
      BY <1>1, <1>6 DEF SizeOf
    <2>. QED BY <2>1, <1>1, <1>2 DEF IInv, PositionAccounted, Unbooked, Booking
  <1>8. RoomKept' /\ Saved'
    BY <1>1, <1>2 DEF IInv, RoomKept, Saved, Booking
  <1>9. HaltHolds'
    BY <1>1, <1>2 DEF IInv, HaltHolds, Running
  <1>. QED BY <1>3, <1>4, <1>5, <1>6, <1>7, <1>8, <1>9 DEF IInv

\* A kill-switch sets the breaker; it is the day's if no reset is due.
LEMMA CheckSlippageIInv ==
  ASSUME IInv, NEW output \in {"short", "enough"}, CheckSlippage(output)
  PROVE  IInv'
  <1>1. /\ stage = "executed" /\ stage' = IF output = "short" THEN "recordShort" ELSE "record"
        /\ alerts' = alerts + (IF output = "short" THEN 1 ELSE 0)
        /\ haltedOn' = IF output = "short" /\ lastReset = today /\ reset.at = "asleep"
                       THEN today ELSE haltedOn
        /\ UNCHANGED <<opened, closed, executed, file, snapshot, lossy>>
        /\ UNCHANGED <<iterations, rows, sizes, realised, trade>>
    BY DEF CheckSlippage, Goto, orderVars, fileVars
  <1>2. /\ caller' = [caller EXCEPT !.at = "filled"]
        /\ UNCHANGED <<position, dailyLoss, lastReset, today, reset, straddled>>
    BY DEF CheckSlippage, Risk!CheckSlippage
  <1>3. breaker' \in BOOLEAN /\ (breaker => breaker') /\ (output = "short" => breaker')
    BY DEF CheckSlippage, Risk!CheckSlippage
  <1>4. /\ caller \in [at : Risk!CallerSteps, amount : Nat, loss : Nat]
        /\ caller.at = "approved" /\ caller.amount = trade.amount
    BY <1>1 DEF IInv, Risk!TypeOK, CallerInStep
  <1>5. caller' = [at |-> "filled", amount |-> caller.amount, loss |-> caller.loss]
    BY <1>2, <1>4
  <1>6. Risk!TypeOK'
    <2>1. caller' \in [at : Risk!CallerSteps, amount : Nat, loss : Nat]
      BY <1>4, <1>5 DEF Risk!CallerSteps
    <2>. QED BY <2>1, <1>2, <1>3 DEF IInv, Risk!TypeOK
  <1>7. LoopTypes'
    <2>1. haltedOn' \in Int
      BY <1>1 DEF IInv, LoopTypes, Risk!TypeOK
    <2>. QED BY <2>1, <1>1 DEF IInv, LoopTypes, Stages
  <1>8. FileTypes' /\ AnsweredOnce'
    BY <1>1 DEF IInv, FileTypes, AnsweredOnce
  <1>9. Reported'
    BY <1>1 DEF IInv, Reported
  <1>10. CallerInStep'
    BY <1>1, <1>4, <1>5 DEF CallerInStep, Quiet, Saving, Booking
  <1>11. OrdersInLine'
    BY <1>1, TotalsKept DEF IInv, OrdersInLine
  <1>12. PositionAccounted'
    <2>1. Unbooked = caller.amount /\ Unbooked' = caller.amount
      BY <1>1, <1>5 DEF Unbooked, Booking
    <2>. QED BY <2>1, <1>1, <1>2, TotalsKept DEF IInv, PositionAccounted
  <1>13. RoomKept' /\ Saved'
    BY <1>1, <1>2, <1>5 DEF IInv, RoomKept, Saved, Booking
  <1>14. HaltHolds'
    <2>1. today \in Nat /\ haltedOn \in Int
      BY DEF IInv, LoopTypes, Risk!TypeOK
    <2>2. haltedOn' <= today'
      BY <2>1, <1>1, <1>2 DEF IInv, HaltHolds
    <2>3. stage' \notin {"savePosition", "truncate", "write", "stopped"} /\ Running
      BY <1>1 DEF Running
    <2>4. CASE output = "short" /\ lastReset = today /\ reset.at = "asleep"
      BY <2>2, <2>3, <2>4, <1>2, <1>3 DEF HaltHolds
    <2>5. CASE ~(output = "short" /\ lastReset = today /\ reset.at = "asleep")
      <3>1. haltedOn' = haltedOn
        BY <2>5, <1>1
      <3>. QED BY <3>1, <2>2, <2>3, <1>1, <1>2, <1>3 DEF IInv, HaltHolds
    <2>. QED BY <2>4, <2>5
  <1>. QED BY <1>6, <1>7, <1>8, <1>9, <1>10, <1>11, <1>12, <1>13, <1>14 DEF IInv

\* record_trade adds what was approved, whether the fill was short or not.
LEMMA BookIInv == IInv /\ (BookShort \/ Book) => IInv'
  <1>. SUFFICES ASSUME IInv, BookShort \/ Book PROVE IInv'
    OBVIOUS
  <1>1. /\ stage \in Booking /\ stage' = "select" /\ trade' = NoTrade
        /\ rows' \in 0 .. 1 /\ alerts' \in 0 .. 1
        /\ UNCHANGED <<opened, closed, executed, file, snapshot, lossy>>
        /\ UNCHANGED <<iterations, sizes, haltedOn>>
    BY DEF BookShort, Book, Leave, Goto, Booking, orderVars, fileVars, histVars, IInv, Reported
  <1>2. /\ position' = position + caller.amount
        /\ caller' = [at |-> "idle", amount |-> 0, loss |-> 0]
        /\ UNCHANGED <<dailyLoss, breaker, lastReset, today, reset, straddled>>
    BY DEF BookShort, Book, Risk!RecordPosition, Risk!Idle
  <1>3. Risk!TypeOK'
    <2>1. /\ caller' \in [at : Risk!CallerSteps, amount : Nat, loss : Nat]
          /\ position' \in Nat
      BY <1>2 DEF Risk!CallerSteps, IInv, Risk!TypeOK
    <2>. QED BY <2>1, <1>2 DEF IInv, Risk!TypeOK
  <1>4. LoopTypes'
    BY <1>1 DEF IInv, LoopTypes, Stages, NoTrade
  <1>5. FileTypes' /\ AnsweredOnce'
    BY <1>1 DEF IInv, FileTypes, AnsweredOnce
  <1>6. Reported' /\ CallerInStep'
    BY <1>1, <1>2 DEF Reported, CallerInStep, Quiet, Saving, Booking
  <1>7. OrdersInLine'
    BY <1>1, TotalsKept DEF IInv, OrdersInLine, Booking
  <1>8. PositionAccounted'
    <2>1. Unbooked = caller.amount /\ Unbooked' = 0
      BY <1>1 DEF Unbooked, Booking
    <2>2. position' \in Nat
      BY <1>3 DEF Risk!TypeOK
    <2>. QED BY <2>1, <2>2, <1>1, <1>2, TotalsKept DEF IInv, PositionAccounted
  <1>9. RoomKept' /\ Saved'
    BY <1>1, <1>2 DEF IInv, RoomKept, Saved, Booking
  <1>10. HaltHolds'
    BY <1>1, <1>2 DEF IInv, HaltHolds, Running, Booking
  <1>. QED BY <1>3, <1>4, <1>5, <1>6, <1>7, <1>8, <1>9, <1>10 DEF IInv

-----------------------------------------------------------------------------
(* The end of the process, and its next start.                             *)

\* The breaker is loaded while it is set, the position while nobody adds to it.
LEMMA LoadStateIInv == IInv /\ LoadState => IInv'
  <1>. SUFFICES ASSUME IInv, LoadState PROVE IInv'
    OBVIOUS
  <1>1. /\ UNCHANGED <<position, dailyLoss, breaker, lastReset, today, caller, reset, straddled>>
        /\ UNCHANGED <<opened, closed, executed, file, lossy, trade>>
        /\ UNCHANGED <<iterations, rows, alerts, sizes, haltedOn>>
    BY DEF LoadState, Load, riskVars, orderVars, countVars, histVars
  <1>2. \/ stage = "saveLoss" /\ stage' = "saveBreaker"
           /\ snapshot' = [snapshot EXCEPT !.loss = dailyLoss]
        \/ stage = "saveBreaker" /\ stage' = "savePosition"
           /\ snapshot' = [snapshot EXCEPT !.breaker = breaker]
        \/ stage = "savePosition" /\ stage' = "truncate"
           /\ snapshot' = [snapshot EXCEPT !.position = position]
    BY DEF LoadState, Load, Goto
  <1>3. stage \in Saving /\ stage' \in Saving
    BY <1>2 DEF Saving
  <1>4. /\ snapshot \in States /\ position \in Nat /\ dailyLoss \in Nat /\ breaker \in BOOLEAN
        /\ position <= MaxPosition
    BY DEF IInv, FileTypes, Risk!TypeOK, RoomKept
  <1>5. /\ snapshot' \in States
        /\ snapshot'.position = IF stage = "savePosition" THEN position ELSE snapshot.position
        /\ snapshot'.breaker = IF stage = "saveBreaker" THEN breaker ELSE snapshot.breaker
    BY <1>2, <1>4 DEF States
  <1>6. Risk!TypeOK'
    BY <1>1 DEF IInv, Risk!TypeOK
  <1>7. LoopTypes'
    BY <1>1, <1>3 DEF IInv, LoopTypes, Stages, Saving
  <1>8. FileTypes' /\ AnsweredOnce'
    BY <1>1, <1>5 DEF IInv, FileTypes, AnsweredOnce
  <1>9. Reported' /\ CallerInStep'
    BY <1>1, <1>3 DEF IInv, Reported, CallerInStep, Quiet, Saving, Booking
  <1>10. OrdersInLine'
    BY <1>1, <1>3, TotalsKept DEF IInv, OrdersInLine, Saving
  <1>11. PositionAccounted'
    BY <1>1, <1>3, TotalsKept DEF IInv, PositionAccounted, Unbooked, Saving, Booking
  <1>12. RoomKept'
    BY <1>1, <1>3, <1>4, <1>5 DEF IInv, RoomKept, Saving, Booking
  <1>13. Saved'
    BY <1>1, <1>2, <1>3, <1>5 DEF IInv, Saved, Saving
  <1>14. HaltHolds'
    BY <1>1, <1>2, <1>3, <1>5 DEF IInv, HaltHolds, Saving, Running
  <1>. QED BY <1>6, <1>7, <1>8, <1>9, <1>10, <1>11, <1>12, <1>13, <1>14 DEF IInv

\* The file holds the snapshot, or state is lost.
LEMMA WriteFileIInv == IInv /\ WriteFile => IInv'
  <1>. SUFFICES ASSUME IInv, WriteFile PROVE IInv'
    OBVIOUS
  <1>1. /\ UNCHANGED <<position, dailyLoss, breaker, lastReset, today, caller, reset, straddled>>
        /\ UNCHANGED <<opened, closed, executed, snapshot, trade>>
        /\ UNCHANGED <<iterations, rows, alerts, sizes, haltedOn>>
    BY DEF WriteFile, SaveState, riskVars, orderVars, countVars, histVars
  <1>2. /\ stage \in {"truncate", "write"} /\ stage' \in {"write", "stopped"}
        /\ file' \in {file, {}, {snapshot}} /\ (lossy => lossy')
        /\ ~lossy' /\ stage' = "stopped" => file' = {snapshot}
    BY DEF WriteFile, SaveState, Goto
  <1>3. lossy' \in BOOLEAN
    BY DEF WriteFile, SaveState, IInv, LoopTypes
  <1>4. Risk!TypeOK'
    BY <1>1 DEF IInv, Risk!TypeOK
  <1>5. LoopTypes'
    BY <1>1, <1>2, <1>3 DEF IInv, LoopTypes, Stages
  <1>6. FileTypes' /\ AnsweredOnce'
    BY <1>1, <1>2 DEF IInv, FileTypes, AnsweredOnce
  <1>7. Reported' /\ CallerInStep'
    BY <1>1, <1>2 DEF IInv, Reported, CallerInStep, Quiet, Saving, Booking
  <1>8. OrdersInLine'
    BY <1>1, <1>2, TotalsKept DEF IInv, OrdersInLine
  <1>9. PositionAccounted'
    BY <1>1, <1>2, TotalsKept DEF IInv, PositionAccounted, Unbooked, Booking
  <1>10. RoomKept' /\ Saved'
    BY <1>1, <1>2 DEF IInv, RoomKept, Saved, Booking
  <1>11. HaltHolds'
    BY <1>1, <1>2 DEF IInv, HaltHolds, Running
  <1>. QED BY <1>4, <1>5, <1>6, <1>7, <1>8, <1>9, <1>10, <1>11 DEF IInv

\* A crash loses state; an order in flight is counted as failed.
LEMMA CrashIInv == IInv /\ Crash => IInv'
  <1>. SUFFICES ASSUME IInv, Crash PROVE IInv'
    OBVIOUS
  <1>1. /\ stage' = "down" /\ lossy' = TRUE
        /\ IF stage = "awaiting" THEN Orders!Close(Last, "failed") ELSE UNCHANGED orderVars
        /\ UNCHANGED <<position, dailyLoss, breaker, lastReset, today, caller, reset, straddled>>
        /\ UNCHANGED <<iterations, rows, alerts, sizes, haltedOn, file, snapshot, trade>>
    BY DEF Crash, riskVars, countVars, histVars
  <1>2. Risk!TypeOK'
    BY <1>1 DEF IInv, Risk!TypeOK
  <1>3. LoopTypes'
    <2>1. lossy' \in BOOLEAN
      BY <1>1
    <2>. QED BY <2>1, <1>1 DEF IInv, LoopTypes, Stages
  <1>4. FileTypes' /\ Reported' /\ CallerInStep'
    BY <1>1 DEF IInv, FileTypes, Reported, CallerInStep, Quiet, Saving, Booking
  <1>5. OrdersInLine' /\ AnsweredOnce'
    <2>1. CASE stage = "awaiting"
      BY <2>1, <1>1, Answering
    <2>2. CASE stage # "awaiting"
      <3>1. UNCHANGED <<opened, closed, executed>>
        BY <2>2, <1>1 DEF orderVars
      <3>. QED BY <3>1, <2>2, <1>1, TotalsKept DEF IInv, OrdersInLine, AnsweredOnce
    <2>. QED BY <2>1, <2>2
  <1>6. PositionAccounted' /\ RoomKept' /\ Saved' /\ HaltHolds'
    BY <1>1 DEF IInv, PositionAccounted, RoomKept, Saved, HaltHolds, Booking
  <1>. QED BY <1>2, <1>3, <1>4, <1>5, <1>6 DEF IInv

\* A process that was stopped in order starts with what it left.
LEMMA StartIInv == IInv /\ Start => IInv'
  <1>. SUFFICES ASSUME IInv, Start PROVE IInv'
    OBVIOUS
  <1>1. /\ stage \in Ended /\ stage' = "select" /\ trade' = NoTrade
        /\ position' = Restored.position /\ dailyLoss' = Restored.loss
        /\ breaker' = Restored.breaker /\ lastReset' = today /\ today' = today
        /\ caller' = [at |-> "idle", amount |-> 0, loss |-> 0]
        /\ reset' = [at |-> "asleep", day |-> 0]
        /\ UNCHANGED <<opened, closed, executed, file, snapshot, lossy>>
        /\ UNCHANGED <<iterations, rows, alerts, sizes, haltedOn>>
    BY DEF Start, Running, Ended, Risk!Idle, orderVars, fileVars, countVars, histVars
  <1>2. straddled' \in BOOLEAN
    BY DEF Start
  <1>3. Restored \in States /\ Restored.position <= MaxPosition
    <2>1. CASE file = {}
      BY <2>1, LoopConfig DEF Restored, Stored, States
    <2>2. CASE file # {}
      BY <2>2 DEF Restored, IInv, FileTypes, RoomKept
    <2>. QED BY <2>1, <2>2
  <1>4. ASSUME ~lossy
        PROVE  stage = "stopped" /\ Restored = snapshot /\ snapshot.position = position
    <2>1. stage = "stopped" /\ file = {snapshot} /\ snapshot.position = position
      BY <1>1, <1>4 DEF IInv, Saved, Ended
    <2>. QED BY <2>1 DEF Restored
  <1>5. Risk!TypeOK'
    <2>1. /\ caller' \in [at : Risk!CallerSteps, amount : Nat, loss : Nat]
          /\ reset' \in [at : Risk!ResetSteps, day : Nat]
      BY <1>1 DEF Risk!CallerSteps, Risk!ResetSteps
    <2>2. position' \in Nat /\ dailyLoss' \in Nat /\ breaker' \in BOOLEAN
      BY <1>1, <1>3 DEF States
    <2>. QED BY <2>1, <2>2, <1>1, <1>2 DEF IInv, Risk!TypeOK
  <1>6. LoopTypes'
    BY <1>1 DEF IInv, LoopTypes, Stages, NoTrade
  <1>7. FileTypes' /\ AnsweredOnce' /\ Reported'
    BY <1>1 DEF IInv, FileTypes, AnsweredOnce, Reported
  <1>8. CallerInStep'
    BY <1>1 DEF CallerInStep, Quiet, Saving, Booking
  <1>9. OrdersInLine'
    BY <1>1, TotalsKept DEF IInv, OrdersInLine, Ended
  <1>10. PositionAccounted'
    BY <1>1, <1>4, TotalsKept DEF IInv, PositionAccounted, Unbooked, Ended, Booking
  <1>11. RoomKept'
    BY <1>1, <1>3 DEF IInv, RoomKept, Booking
  <1>12. Saved'
    BY <1>1 DEF IInv, Saved, Ended
  <1>13. HaltHolds'
    BY <1>1, <1>4 DEF IInv, HaltHolds, Running
  <1>. QED BY <1>5, <1>6, <1>7, <1>8, <1>9, <1>10, <1>11, <1>12, <1>13 DEF IInv

-----------------------------------------------------------------------------
(* The world around the main task.                                         *)

\* The midnight task's next step; none on a day that has had its reset.
LEMMA MidnightShape ==
  ASSUME IInv, Midnight
  PROVE  /\ Risk!TypeOK' /\ UNCHANGED <<position, caller>>
         /\ \/ UNCHANGED today /\ today # lastReset
            \/ UNCHANGED today /\ reset.at # "asleep"
            \/ today' = today + 1
  <1>. USE DEF IInv, Risk!TypeOK
  <1>1. CASE Risk!NewDay
    BY <1>1 DEF Risk!NewDay
  <1>2. CASE Risk!ResetTick
    <2>1. reset' \in [at : Risk!ResetSteps, day : Nat]
      BY <1>2 DEF Risk!ResetTick, Risk!ResetSteps
    <2>. QED BY <1>2, <2>1 DEF Risk!ResetTick
  <1>3. CASE Risk!ClearLoss
    <2>1. straddled' \in BOOLEAN
      BY <1>3 DEF Risk!ClearLoss
    <2>2. /\ reset.at = "clearLoss" /\ reset' = [reset EXCEPT !.at = "clearBreaker"]
          /\ dailyLoss' = 0 /\ UNCHANGED <<position, breaker, lastReset, today, caller>>
      BY <1>3 DEF Risk!ClearLoss
    <2>3. reset' \in [at : Risk!ResetSteps, day : Nat]
      BY <2>2 DEF Risk!ResetSteps
    <2>. QED BY <2>1, <2>2, <2>3
  <1>4. CASE Risk!ClearBreaker
    <2>1. breaker' \in BOOLEAN
      BY <1>4 DEF Risk!ClearBreaker
    <2>2. straddled' \in BOOLEAN
      <3>1. (dailyLoss > 0) \in BOOLEAN
        OBVIOUS
      <3>. QED BY <1>4, <3>1, Zenon DEF Risk!ClearBreaker
    <2>3. /\ reset.at = "clearBreaker" /\ reset' = [reset EXCEPT !.at = "stamp"]
          /\ UNCHANGED <<position, dailyLoss, lastReset, today, caller>>
      BY <1>4 DEF Risk!ClearBreaker
    <2>4. reset' \in [at : Risk!ResetSteps, day : Nat]
      BY <2>3 DEF Risk!ResetSteps
    <2>. QED BY <2>1, <2>2, <2>3, <2>4
  <1>5. CASE Risk!Stamp
    <2>1. /\ reset.at = "stamp" /\ lastReset' = reset.day
          /\ reset' = [reset EXCEPT !.at = "asleep"]
          /\ UNCHANGED <<position, dailyLoss, breaker, today, caller, straddled>>
      BY <1>5 DEF Risk!Stamp
    <2>2. reset' \in [at : Risk!ResetSteps, day : Nat] /\ lastReset' \in Nat
      BY <2>1 DEF Risk!ResetSteps
    <2>. QED BY <2>1, <2>2
  <1>. QED BY <1>1, <1>2, <1>3, <1>4, <1>5 DEF Midnight, Risk!MidnightReset

LEMMA MidnightIInv == IInv /\ Midnight => IInv'
  <1>. SUFFICES ASSUME IInv, Midnight PROVE IInv'
    OBVIOUS
  <1>1. UNCHANGED <<opened, closed, executed, file, snapshot, lossy, iterations, rows, alerts,
                    sizes, haltedOn, stage, trade>>
    BY DEF Midnight, orderVars, fileVars, countVars
  <1>2. /\ Risk!TypeOK' /\ UNCHANGED <<position, caller>>
        /\ \/ UNCHANGED today /\ today # lastReset
           \/ UNCHANGED today /\ reset.at # "asleep"
           \/ today' = today + 1
    BY MidnightShape
  <1>3. LoopTypes' /\ FileTypes' /\ Reported' /\ AnsweredOnce'
    BY <1>1 DEF IInv, LoopTypes, FileTypes, Reported, AnsweredOnce
  <1>4. CallerInStep' /\ RoomKept' /\ Saved'
    BY <1>1, <1>2 DEF IInv, CallerInStep, RoomKept, Saved
  <1>5. OrdersInLine' /\ PositionAccounted'
    BY <1>1, <1>2, TotalsKept DEF IInv, OrdersInLine, PositionAccounted, Unbooked
  <1>6. HaltHolds'
    <2>1. today \in Nat /\ haltedOn \in Int /\ haltedOn <= today
      BY DEF IInv, LoopTypes, Risk!TypeOK, HaltHolds
    <2>2. CASE UNCHANGED today /\ (lossy \/ haltedOn # today)
      BY <2>1, <2>2, <1>1 DEF HaltHolds
    <2>3. CASE UNCHANGED today /\ ~lossy /\ haltedOn = today
      BY <2>1, <2>3, <1>2 DEF IInv, HaltHolds
    <2>4. CASE today' = today + 1
      BY <2>1, <2>4, <1>1 DEF HaltHolds
    <2>. QED BY <2>2, <2>3, <2>4, <1>2
  <1>. QED BY <1>2, <1>3, <1>4, <1>5, <1>6 DEF IInv

\* The chain takes a transaction; the loop does not see it.
LEMMA MinedIInv == IInv /\ Mined => IInv'
  <1>. SUFFICES ASSUME IInv, Mined PROVE IInv'
    OBVIOUS
  <1>1. PICK t \in opened : Orders!Execute(t)
    BY DEF Mined
  <1>2. executed' = executed \union {t} /\ UNCHANGED <<opened, closed>>
    BY <1>1 DEF Orders!Execute
  <1>3. /\ UNCHANGED <<position, dailyLoss, breaker, lastReset, today, caller, reset, straddled>>
        /\ UNCHANGED <<file, snapshot, lossy, iterations, rows, alerts, sizes, haltedOn, stage, trade>>
    BY DEF Mined, riskVars, fileVars, countVars, histVars
  <1>4. Risk!TypeOK' /\ LoopTypes' /\ FileTypes' /\ Reported' /\ AnsweredOnce'
    BY <1>2, <1>3 DEF IInv, Risk!TypeOK, LoopTypes, FileTypes, Reported, AnsweredOnce
  <1>5. CallerInStep' /\ RoomKept' /\ Saved' /\ HaltHolds'
    BY <1>3 DEF IInv, CallerInStep, RoomKept, Saved, HaltHolds, Running
  <1>6. OrdersInLine' /\ PositionAccounted'
    BY <1>2, <1>3, TotalsKept DEF IInv, OrdersInLine, PositionAccounted, Unbooked
  <1>. QED BY <1>4, <1>5, <1>6 DEF IInv

\* A signal sets its permit, and nothing else that the invariant speaks of.
LEMMA SignalIInv == IInv /\ (Signal \/ UNCHANGED vars) => IInv'
  <1>. SUFFICES ASSUME IInv, Signal \/ UNCHANGED vars PROVE IInv'
    OBVIOUS
  <1>1. /\ UNCHANGED <<position, dailyLoss, breaker, lastReset, today, caller, reset, straddled>>
        /\ UNCHANGED <<opened, closed, executed, file, snapshot, lossy, iterations, rows, alerts>>
        /\ UNCHANGED <<sizes, haltedOn, stage, trade>>
    BY DEF Signal, vars, riskVars, orderVars, fileVars, countVars, histVars
  <1>2. Risk!TypeOK' /\ LoopTypes' /\ FileTypes' /\ Reported' /\ AnsweredOnce'
    BY <1>1 DEF IInv, Risk!TypeOK, LoopTypes, FileTypes, Reported, AnsweredOnce
  <1>3. CallerInStep' /\ RoomKept' /\ Saved' /\ HaltHolds'
    BY <1>1 DEF IInv, CallerInStep, RoomKept, Saved, HaltHolds, Running
  <1>4. OrdersInLine' /\ PositionAccounted'
    BY <1>1, TotalsKept DEF IInv, OrdersInLine, PositionAccounted, Unbooked
  <1>. QED BY <1>2, <1>3, <1>4 DEF IInv

LEMMA NextIInv == IInv /\ [Next]_vars => IInv'
  <1>. SUFFICES ASSUME IInv, [Next]_vars PROVE IInv'
    OBVIOUS
  <1>1. CASE QuietStep
    BY <1>1, QuietIInv
  <1>2. CASE Approve \/ Dispatch \/ Fails
    BY <1>2, ApproveIInv, DispatchIInv, FailsIInv
  <1>3. CASE \E v \in Answers : Succeeds(v)
    BY <1>3, SucceedsIInv
  <1>4. CASE \E output \in {"short", "enough"} : CheckSlippage(output)
    BY <1>4, CheckSlippageIInv
  <1>5. CASE BookShort \/ Book
    BY <1>5, BookIInv
  <1>6. CASE LoadState \/ WriteFile
    BY <1>6, LoadStateIInv, WriteFileIInv
  <1>7. CASE Crash \/ Start \/ Midnight \/ Mined
    BY <1>7, CrashIInv, StartIInv, MidnightIInv, MinedIInv
  <1>8. CASE Signal \/ UNCHANGED vars
    BY <1>8, SignalIInv
  <1>. QED BY <1>1, <1>2, <1>3, <1>4, <1>5, <1>6, <1>7, <1>8
          DEF Next, MainTask, Iteration, Gates, QuietStep

-----------------------------------------------------------------------------
(* The theorems.                                                           *)

\* The conjunction of the parts above holds in every reachable state.
THEOREM Invariant == Spec => []IInv
  BY InitIInv, NextIInv, PTL DEF Spec

\* The loop's state, and the file the next process reads, keep their types.
THEOREM TypeCorrect == Spec => []TypeOK
  <1>1. IInv => TypeOK
    <2>. SUFFICES ASSUME IInv PROVE TypeOK
      OBVIOUS
    <2>1. opened \subseteq 1 .. MaxTrades /\ executed \subseteq opened
      BY AnsweredOpened DEF IInv, OrdersInLine
    <2>. QED BY <2>1 DEF IInv, TypeOK, LoopTypes, FileTypes, States, Reported
  <1>. QED BY <1>1, Invariant, PTL

\* Between iterations the tracked position is the sum of the successful orders,
\* each booked exactly once (record_trade), over graceful stops and restarts.
THEOREM PositionAccounts == Spec => []PositionAccountsForOrders
  <1>1. IInv => PositionAccountsForOrders
    <2>. SUFFICES ASSUME IInv, stage = "select", ~lossy PROVE position = SizeOf(Succeeded)
      BY DEF PositionAccountsForOrders
    <2>1. Unbooked = 0 /\ position \in Nat
      BY DEF Unbooked, Booking, IInv, Risk!TypeOK
    <2>. QED BY <2>1 DEF IInv, PositionAccounted
  <1>. QED BY <1>1, Invariant, PTL

\* What is on the chain and was not answered as failed stays within
\* max_position_usd, the order in flight included.
THEOREM TrackedExposureBounded == Spec => []TrackedExposureWithinLimit
  <1>1. IInv => TrackedExposureWithinLimit
    <2>. SUFFICES ASSUME IInv, ~lossy PROVE SizeOf(executed \ Failed) <= MaxPosition
      BY DEF TrackedExposureWithinLimit
    <2>. DEFINE exposed == executed \ Failed
                tracked == IF stage = "awaiting" THEN Succeeded \union {Last} ELSE Succeeded
    <2>1. /\ exposed \subseteq tracked /\ tracked \subseteq 1 .. MaxTrades
          /\ Succeeded \subseteq 1 .. MaxTrades
      BY AnsweredOpened DEF IInv, OrdersInLine
    <2>2. \A t \in 1 .. MaxTrades : sizes[t] \in Nat
      BY DEF IInv, LoopTypes
    <2>3. /\ IsFiniteSet(tracked) /\ IsFiniteSet(Succeeded)
          /\ SizeOf(exposed) \in Nat /\ SizeOf(tracked) \in Nat /\ SizeOf(Succeeded) \in Nat
      BY <2>1, SizeOfType DEF IInv
    <2>4. SizeOf(exposed) <= SizeOf(tracked)
      <3>. HIDE DEF exposed, tracked
      <3>. QED BY <2>1, <2>2, <2>3, SumMonotone DEF SizeOf
    <2>5. SizeOf(tracked) <= MaxPosition
      <3>1. /\ position \in Nat /\ caller.amount \in Nat /\ MaxPosition \in Nat
            /\ position + Unbooked = SizeOf(Succeeded) /\ position <= MaxPosition
        BY LoopConfig DEF IInv, Risk!TypeOK, PositionAccounted, RoomKept
      <3>2. CASE stage = "awaiting"
        <4>1. Last \notin Succeeded /\ sizes[Last] = caller.amount
          BY <3>2, AnsweredOpened DEF IInv
        <4>2. \A t \in Succeeded \union {Last} : sizes[t] \in Nat
          BY <3>2, <2>1, <2>2
        <4>3. SizeOf(tracked) = SizeOf(Succeeded) + caller.amount
          BY <3>2, <4>1, <4>2, <2>3, SumAdd DEF SizeOf
        <4>4. Unbooked = 0 /\ position + caller.amount <= MaxPosition
          BY <3>2 DEF Unbooked, Booking, IInv, RoomKept
        <4>. QED BY <4>3, <4>4, <3>1
      <3>3. CASE stage # "awaiting"
        <4>1. position + Unbooked <= MaxPosition
          BY <3>1 DEF Unbooked, IInv, RoomKept
        <4>. QED BY <4>1, <3>1, <3>3
      <3>. QED BY <3>2, <3>3
    <2>. QED BY <2>3, <2>4, <2>5, LoopConfig
  <1>. QED BY <1>1, Invariant, PTL

\* A kill-switch set after the day's reset halts trading for the rest of that
\* day: the midnight task does not clear it, nor does a graceful restart.
THEOREM KillSwitchHolds == Spec => []KillSwitchLastsTheDay
  <1>1. IInv => KillSwitchLastsTheDay
    BY DEF IInv, HaltHolds, KillSwitchLastsTheDay, Running
  <1>. QED BY <1>1, Invariant, PTL

\* No restart brings back more than max_position_usd, whatever was lost before.
THEOREM PositionBounded == Spec => []Risk!PositionWithinLimit
  <1>1. IInv => Risk!PositionWithinLimit
    <2>. SUFFICES ASSUME IInv PROVE Risk!WithinLimit(position)
      BY DEF Risk!PositionWithinLimit
    <2>1. position <= MaxPosition /\ position \in Nat /\ MaxPosition \in Nat
      BY LoopConfig DEF IInv, RoomKept, Risk!TypeOK
    <2>2. 100 * position <= MaxPosition * 100
      BY <2>1
    <2>. QED BY <2>2 DEF Risk!WithinLimit
  <1>. QED BY <1>1, Invariant, PTL

\* The iteration that opened an order notifies once and leaves one row, at most
\* one after a short fill (run_loop_iteration's branches behind the execution).
THEOREM OrdersReported == Spec => OrderReportedOnce
  <1>1. IInv /\ [Next]_vars =>
          [(stage \in {"awaiting", "recordShort", "record"} /\ stage' = "select")
             => (alerts' = 1 /\ rows' <= 1 /\ (stage # "recordShort" => rows' = 1))]_vars
    <2>. SUFFICES ASSUME IInv, Next, stage \in {"awaiting", "recordShort", "record"},
                         stage' = "select"
                  PROVE  alerts' = 1 /\ rows' <= 1 /\ (stage # "recordShort" => rows' = 1)
      OBVIOUS
    <2>1. CASE Fails \/ BookShort \/ Book
      BY <2>1 DEF IInv, Reported, Fails, BookShort, Book, Leave, Goto
    <2>2. ~QuietStep
      BY QuietShape DEF Quiet
    <2>3. ~(Approve \/ Dispatch \/ LoadState \/ WriteFile \/ Crash \/ Start)
      BY DEF Approve, Dispatch, LoadState, WriteFile, Crash, Start, Load, SaveState, Goto, Running
    <2>4. ~(Signal \/ Midnight \/ Mined)
      BY DEF Signal, Midnight, Mined
    <2>5. ~(\E v \in Answers : Succeeds(v))
      BY DEF Succeeds, Goto
    <2>6. ~(\E output \in {"short", "enough"} : CheckSlippage(output))
      BY DEF CheckSlippage, Goto
    <2>. QED BY <2>1, <2>2, <2>3, <2>4, <2>5, <2>6
            DEF Next, MainTask, Iteration, Gates, QuietStep
  <1>. QED BY <1>1, Invariant, PTL DEF Spec, OrderReportedOnce

\* What the execution side takes for granted of its caller: an order is open just
\* while the loop awaits its answer, and it is the last one, over failures, crashes
\* and restarts (run_loop_iteration sends and awaits in one place). The actions of
\* the loop conjoin Orders!Open and Orders!Close, whose guards could hold it up:
\* they never do.
OneOrderAtATime ==
  opened \ Orders!Closed = IF stage = "awaiting" THEN {Last} ELSE {}

THEOREM OneOrderOut == Spec => []OneOrderAtATime
  <1>1. IInv => OneOrderAtATime
    <2>. SUFFICES ASSUME IInv PROVE OneOrderAtATime
      OBVIOUS
    <2>1. CASE stage = "awaiting"
      BY <2>1, AnsweredOpened DEF IInv, OneOrderAtATime
    <2>2. CASE stage # "awaiting"
      BY <2>2, AnsweredOpened DEF IInv, OneOrderAtATime
    <2>. QED BY <2>1, <2>2
  <1>. QED BY <1>1, Invariant, PTL
-----------------------------------------------------------------------------
(* A signal brings the end closer: what SignalStops rests on besides fairness. *)

\* The process knows that it has to stop, by the permit or because it took it.
Stopping == Running /\ (signalled \/ stage \in Saving)

\* Stages the main task has yet to leave, at most, until a stopping process ends.
StagesLeft ==
  CASE stage = "sleep"        -> 17
    [] stage = "context"      -> 16
    [] stage = "planned"      -> 15
    [] stage = "routed"       -> 14
    [] stage = "built"        -> 13
    [] stage = "simulated"    -> 12
    [] stage = "profitable"   -> 11
    [] stage = "approved"     -> 10
    [] stage = "awaiting"     -> 9
    [] stage = "executed"     -> 8
    [] stage \in {"recordShort", "record"} -> 7
    [] stage = "select"       -> 6
    [] stage = "saveLoss"     -> 5
    [] stage = "saveBreaker"  -> 4
    [] stage = "savePosition" -> 3
    [] stage = "truncate"     -> 2
    [] stage = "write"        -> 1
    [] stage \in {"stopped", "down"} -> 0

\* While the process lives it does not forget the signal, and the main task never
\* goes back: it sleeps no second time and begins one more iteration at most.
EndComesCloser ==
  Stopping => /\ Running' => Stopping'
              /\ stage' # stage => StagesLeft' < StagesLeft
              /\ MainTask \/ Wake => StagesLeft' < StagesLeft

\* Every step of the main task leaves its stage.
LEMMA MainTaskMoves ==
  ASSUME MainTask \/ Wake
  PROVE  stage' # stage
  <1>. USE DEF Goto
  <1>1. CASE Select \/ Wake \/ Interrupted
    BY <1>1 DEF Select, Wake, Interrupted
  <1>2. CASE ContextFails \/ DecisionNeutral \/ TooSmall \/ MevAborts
    BY <1>2 DEF ContextFails, DecisionNeutral, TooSmall, MevAborts, GateCloses, Leave
  <1>3. CASE BuildFails \/ SimulationFails \/ NotProfitable \/ RiskRefuses
    BY <1>3 DEF BuildFails, SimulationFails, NotProfitable, RiskRefuses, GateCloses, Leave
  <1>4. CASE Plan \/ Assess \/ BuildAndSimulate
    BY <1>4 DEF Plan, Assess, BuildAndSimulate, Pass
  <1>5. CASE Approve \/ Dispatch
    BY <1>5 DEF Approve, Dispatch
  <1>6. CASE \E v \in Answers : Succeeds(v)
    BY <1>6 DEF Succeeds
  <1>7. CASE \E output \in {"short", "enough"} : CheckSlippage(output)
    BY <1>7 DEF CheckSlippage
  <1>8. CASE Fails \/ BookShort \/ Book
    BY <1>8 DEF Fails, BookShort, Book, Leave
  <1>9. CASE LoadState \/ WriteFile
    BY <1>9 DEF LoadState, Load, WriteFile, SaveState
  <1>. QED BY <1>1, <1>2, <1>3, <1>4, <1>5, <1>6, <1>7, <1>8, <1>9
          DEF MainTask, Iteration, Gates

\* A stopping process goes on stopping, and its stages only go down.
LEMMA MovesOn ==
  ASSUME IInv, Next, Stopping
  PROVE  /\ Running' => Stopping'
         /\ stage' # stage => StagesLeft' < StagesLeft
  <1>. USE DEF Goto, Stopping, Running, Saving, StagesLeft
  <1>1. CASE Select \/ Wake \/ Interrupted
    BY <1>1 DEF Select, Wake, Interrupted
  <1>2. CASE ContextFails \/ DecisionNeutral \/ TooSmall \/ MevAborts
    BY <1>2 DEF ContextFails, DecisionNeutral, TooSmall, MevAborts, GateCloses, Leave
  <1>3. CASE BuildFails \/ SimulationFails \/ NotProfitable \/ RiskRefuses
    BY <1>3 DEF BuildFails, SimulationFails, NotProfitable, RiskRefuses, GateCloses, Leave
  <1>4. CASE Plan \/ Assess
    <2>1. /\ \/ stage = "context" /\ stage' = "planned"
             \/ stage = "planned" /\ stage' = "routed"
          /\ signalled' = signalled
      BY <1>4 DEF Plan, Assess, Pass
    <2>. QED BY <2>1
  <1>5. CASE BuildAndSimulate
    <2>1. /\ \/ stage = "routed" /\ stage' = "built"
             \/ stage = "built" /\ stage' = "simulated"
             \/ stage = "simulated" /\ stage' = "profitable"
          /\ signalled' = signalled
      BY <1>5 DEF BuildAndSimulate, Pass
    <2>. QED BY <2>1
  <1>6. CASE Approve \/ Dispatch
    BY <1>6 DEF Approve, Dispatch
  <1>7. CASE Fails \/ BookShort \/ Book
    BY <1>7 DEF Fails, BookShort, Book, Leave
  <1>8. CASE LoadState
    BY <1>8 DEF LoadState, Load
  <1>9. CASE WriteFile
    BY <1>9 DEF WriteFile, SaveState
  <1>10. CASE Crash
    BY <1>10 DEF Crash, IInv, LoopTypes, Stages
  <1>11. ASSUME Signal \/ Midnight \/ Mined
         PROVE  stage' = stage /\ (signalled => signalled')
    BY <1>11 DEF Signal, Midnight, Mined
  <1>12. ~Start
    BY DEF Start
  <1>13. CASE \E v \in Answers : Succeeds(v)
    <2>1. stage = "awaiting" /\ stage' = "executed" /\ signalled' = signalled
      BY <1>13 DEF Succeeds
    <2>. QED BY <2>1
  <1>14. CASE \E output \in {"short", "enough"} : CheckSlippage(output)
    <2>1. stage = "executed" /\ stage' \in {"recordShort", "record"} /\ signalled' = signalled
      BY <1>14 DEF CheckSlippage
    <2>. QED BY <2>1
  <1>. QED BY <1>1, <1>2, <1>3, <1>4, <1>5, <1>6, <1>7, <1>8, <1>9, <1>10, <1>11, <1>12, <1>13, <1>14
          DEF Next, MainTask, Iteration, Gates

\* A process that was signalled stops in a bounded number of its own steps: the
\* permit is taken at the next select!, and the state is saved behind it (main).
THEOREM StopComesCloser == Spec => [][EndComesCloser]_vars
  <1>1. IInv /\ [Next]_vars => [EndComesCloser]_vars
    BY MovesOn, MainTaskMoves DEF EndComesCloser
  <1>. QED BY <1>1, Invariant, PTL DEF Spec
=============================================================================
