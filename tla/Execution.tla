----------------------------- MODULE Execution -----------------------------
(***************************************************************************)
(* The execution side of the bot: the trading loop's hand-over, the        *)
(* executor actor, the broadcaster and the account they share.             *)
(***************************************************************************)
EXTENDS ExecutorActor, Broadcaster

vars == <<chainNonce, pool, bundles, ledger, order, answered,
          isPaper, nonce, actor, signed, bundle, chunksLeft>>

Init == AccountInit /\ DispatchInit /\ ActorInit /\ BroadcasterInit

\* The loop runs beside the actor: it can submit while the actor still starts.
Loop ==
  /\ Settle \/ \E r \in Routes, c \in FeeCaps : Submit(r, c)
  /\ UNCHANGED <<chainVars, actorVars, broadcasterVars>>

Act == ActorProgress /\ UNCHANGED broadcasterVars

ActFails == ReceiptFails /\ UNCHANGED broadcasterVars

Broadcast ==
  /\ \/ ReturnUnsubmitted(isPaper)
     \/ ~isPaper /\ (SignTx \/ SubmitBundle \/ SubmitFails)
  /\ UNCHANGED actorVars

Block ==
  /\ \/ \E tx \in pool \union bundles, ok \in BOOLEAN : Mine(tx, ok)
     \/ \E tx \in bundles : BundleExpires(tx)
  /\ UNCHANGED <<dispatchVars, actorVars, broadcasterVars>>

Next == Loop \/ Act \/ ActFails \/ Broadcast \/ Block

\* The tasks run, every RPC call returns and the timer of an attempt fires, so
\* the actor, the broadcaster and the loop take their next steps. The chain
\* owes them nothing, not even a failed receipt.
Spec ==
  /\ Init /\ [][Next]_vars
  /\ WF_vars(Act) /\ WF_vars(Broadcast) /\ WF_vars(Settle /\ Loop)

-----------------------------------------------------------------------------
TypeOK == AccountTypeOK /\ DispatchTypeOK /\ ActorTypeOK /\ BroadcasterTypeOK

\* However often a trade is signed, resent, escalated and answered, it is mined
\* at most once: all its transactions compete for one nonce.
MinedAtMostOnce ==
  \A r, q \in ledger : r.tx.trade = q.tx.trade => r = q

\* The actor never signs two trades with the same nonce, so that a late
\* transaction of one cannot displace another of its own.
ActorNonceOwnedByOneTrade ==
  \A x, y \in signed : x.nonce = y.nonce => x.trade = y.trade

\* A trade the loop books as filled did take effect on the chain.
FilledIsExecuted ==
  \A t \in TradeIds : answered[t] = "filled" => t \in Executed

\* Every order is answered: no path of the actor or the broadcaster keeps the
\* trading loop waiting.
OrderAnswered == order.at = "sent" ~> order.at # "sent"

\* "This eliminates nonce collisions": no two trades of the account are signed
\* for the same nonce.
NoNonceCollision ==
  \A x \in signed, y \in bundles \union {r.tx : r \in ledger} :
     x.nonce = y.nonce => x.trade = y.trade

\* The execution side keeps the promise of OrderLifecycle.
Orders == INSTANCE OrderLifecycle WITH
  Trades   <- TradeIds,
  opened   <- 1 .. order.trade,
  closed   <- {[trade |-> t, verdict |-> answered[t]] :
                 t \in {u \in TradeIds : answered[u] # "none"}},
  executed <- Executed

KeepsOrderLifecycle == Orders!Spec
=============================================================================
