------------------------------ MODULE Dispatch -----------------------------
(***************************************************************************)
(* src/bin/vertexa.rs, run_loop_iteration: an approved trade is handed to  *)
(* the executor actor (public route) or to the broadcaster (private        *)
(* routes), the loop waits for the answer, and books the trade if it is a  *)
(* success. The loop is inside one iteration until that answer, so there   *)
(* is at most one order.                                                   *)
(***************************************************************************)
EXTENDS Integers

CONSTANTS
  MaxTrades,        \* bound: trades dispatched in a behaviour
  Routes,           \* routes the MEV guard recommends, Abort excepted
  FeeCaps           \* values of max_gas_price_wei, in fee steps

ASSUME DispatchConfig ==
  /\ MaxTrades \in Nat
  /\ Routes \subseteq {"Public", "Flashbots", "Split"}
  /\ FeeCaps \subseteq Nat

VARIABLES
  order,            \* the order the loop waits for; trades are numbered
  answered          \* the answer to each trade the loop is done with

dispatchVars == <<order, answered>>

TradeIds == 1 .. MaxTrades

\* ExecutionResult as the loop sees it. "filled" is the actor's success, backed
\* by a receipt; "accepted" the broadcaster's, backed by the relay's word only;
\* "simulated" is either's in paper mode.
Successes == {"filled", "accepted", "simulated"}
Verdicts  == Successes \union {"failed"}

Order == [at : {"none", "sent", "returned"}, trade : 0 .. MaxTrades,
          route : {"Public", "Flashbots", "Split"}, cap : Nat, verdict : Verdicts]

\* No order is out; `last` is the last trade that was.
NoOrder(last) == [at |-> "none", trade |-> last, route |-> "Public", cap |-> 0,
                  verdict |-> "failed"]

DispatchInit ==
  /\ order = NoOrder(0)
  /\ answered = [t \in TradeIds |-> "none"]

\* actor_tx.send, or the call of broadcaster.broadcast.
Submit(route, cap) ==
  /\ order.at = "none"
  /\ order.trade < MaxTrades
  /\ order' = [order EXCEPT !.at = "sent", !.trade = @ + 1, !.route = route, !.cap = cap]
  /\ UNCHANGED answered

\* resp.send, or the return of broadcast.
Return(verdict) ==
  /\ order' = [order EXCEPT !.at = "returned", !.verdict = verdict]
  /\ UNCHANGED answered

\* resp_rx.await: the loop takes the answer and ends its iteration.
Settle ==
  /\ order.at = "returned"
  /\ order' = NoOrder(order.trade)
  /\ answered' = [answered EXCEPT ![order.trade] = order.verdict]

\* The trades the loop books with record_trade.
Booked == {t \in TradeIds : answered[t] \in Successes}

DispatchTypeOK ==
  /\ order \in Order
  /\ answered \in [TradeIds -> Verdicts \union {"none"}]
=============================================================================
