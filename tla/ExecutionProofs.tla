-------------------------- MODULE ExecutionProofs --------------------------
(***************************************************************************)
(* Theorems about Execution, for every number of trades, attempts and      *)
(* chunks, every set of routes and of fee caps.                            *)
(***************************************************************************)
EXTENDS Execution, TLAPS

Busy == actor.at \in {"sending", "waiting"}

\* Every transaction that is signed and may reach the chain, or did.
AllTx ==
  signed \union bundles \union {r.tx : r \in ledger}
    \union (IF chunksLeft > 0 THEN {bundle} ELSE {})

\* The route says who works on an order, and nobody works without one.
HandOver ==
  /\ Busy => order.at = "sent" /\ order.route = "Public"
  /\ chunksLeft > 0 => /\ order.at = "sent" /\ order.route # "Public"
                       /\ bundle.trade = order.trade
  /\ actor.at = "starting" => signed = {}
  /\ actor.at = "waiting" => actor.attempt < MAX_RETRIES
  /\ pool \subseteq signed

\* Transactions belong to trades that were dispatched; an order nobody has
\* begun to work on has none.
OwnTrades ==
  /\ \A x \in AllTx : x.trade \in 1 .. order.trade
  /\ order.at = "sent" /\ ~Busy /\ chunksLeft = 0 => \A x \in AllTx : x.trade # order.trade

\* All transactions of a trade have one nonce: the actor's while it works on
\* the trade, the bundle's while the broadcaster does.
OneNoncePerTrade ==
  /\ \A x, y \in AllTx : x.trade = y.trade => x.nonce = y.nonce
  /\ Busy => \A x \in AllTx : x.trade = order.trade => x.nonce = nonce

\* The actor's nonce is above all it signed for the trades it is done with.
ActorNonces ==
  /\ \A x \in signed : /\ x.nonce <= nonce
                       /\ x.nonce = nonce => Busy /\ x.trade = order.trade
  /\ ActorNonceOwnedByOneTrade

\* The chain takes one transaction per nonce, in order.
OneReceiptPerNonce ==
  /\ \A r \in ledger : r.tx.nonce < chainNonce
  /\ \A r, q \in ledger : r.tx.nonce = q.tx.nonce => r = q

\* An order answered as filled is on the chain, and exactly the orders the loop
\* is done with have an answer.
AnswersTrue ==
  /\ order.at = "returned" /\ order.verdict = "filled" => order.trade \in Executed
  /\ order.at # "none" => order.trade \in TradeIds
  /\ \A t \in TradeIds : answered[t] # "none" <=>
        t < order.trade \/ (t = order.trade /\ order.at = "none")
  /\ FilledIsExecuted

IInv ==
  /\ TypeOK
  /\ HandOver /\ OwnTrades /\ OneNoncePerTrade
  /\ ActorNonces /\ OneReceiptPerNonce /\ AnswersTrue
-----------------------------------------------------------------------------
(* Types.                                                                  *)

LEMMA AttemptIsTx == TypeOK => Attempt \in Tx
BY DispatchConfig DEF TypeOK, AccountTypeOK, DispatchTypeOK, ActorTypeOK, Attempt, Tx, Fee,
     Order, TradeIds

LEMMA ReturnTypes ==
  ASSUME TypeOK, NEW v \in Verdicts, Return(v)
  PROVE  DispatchTypeOK'
BY DEF TypeOK, DispatchTypeOK, Return, Order, TradeIds

LEMMA InitTypes == Init => TypeOK
BY DispatchConfig, Retries, Chunks
   DEF Init, AccountInit, DispatchInit, ActorInit, BroadcasterInit, NoOrder, Idle, NoBundle,
       TypeOK, AccountTypeOK, DispatchTypeOK, ActorTypeOK, BroadcasterTypeOK, ActorSteps,
       Order, Tx, Verdicts, Successes

LEMMA LoopTypes == TypeOK /\ Loop => TypeOK'
<1> SUFFICES ASSUME TypeOK, Loop PROVE TypeOK'
  OBVIOUS
<1>1. AccountTypeOK' /\ ActorTypeOK' /\ BroadcasterTypeOK'
  BY DEF TypeOK, Loop, chainVars, actorVars, broadcasterVars, AccountTypeOK, ActorTypeOK,
       BroadcasterTypeOK
<1>2. ASSUME NEW r \in Routes, NEW c \in FeeCaps, Submit(r, c)
      PROVE  DispatchTypeOK'
  <2>1. order \in Order /\ order.trade + 1 \in 0 .. MaxTrades
    BY <1>2, DispatchConfig DEF TypeOK, DispatchTypeOK, Submit, Order
  <2>2. r \in {"Public", "Flashbots", "Split"} /\ c \in Nat
    BY DispatchConfig
  <2>3. order' \in Order
    BY <1>2, <2>1, <2>2 DEF Submit, Order
  <2> QED
    BY <1>2, <2>3 DEF TypeOK, DispatchTypeOK, Submit
<1>3. ASSUME Settle PROVE DispatchTypeOK'
  <2>1. order \in Order /\ order.trade \in 0 .. MaxTrades /\ order.verdict \in Verdicts
    BY DEF TypeOK, DispatchTypeOK, Order
  <2>2. order' \in Order
    BY <1>3, <2>1 DEF Settle, NoOrder, Order, Verdicts, Successes
  <2>3. answered' \in [TradeIds -> Verdicts \union {"none"}]
    BY <1>3, <2>1 DEF Settle, TypeOK, DispatchTypeOK
  <2> QED
    BY <2>2, <2>3 DEF DispatchTypeOK
<1>4. DispatchTypeOK'
  BY <1>2, <1>3 DEF Loop
<1> QED
  BY <1>1, <1>4 DEF TypeOK

LEMMA ActorTypes == TypeOK /\ HandOver /\ (Act \/ ActFails) => TypeOK'
<1> SUFFICES ASSUME TypeOK, HandOver, Act \/ ActFails PROVE TypeOK'
  OBVIOUS
<1> USE Retries
<1>1. BroadcasterTypeOK'
  BY DEF TypeOK, Act, ActFails, broadcasterVars, BroadcasterTypeOK
<1>2. ASSUME NEW v \in Verdicts, Reply(v), isPaper' = isPaper, signed' = signed, nonce' \in Nat
      PROVE  TypeOK'
  BY <1>1, <1>2, ReturnTypes
     DEF Reply, TypeOK, AccountTypeOK, chainVars, ActorTypeOK, Idle, ActorSteps
<1>3. ASSUME UNCHANGED <<isPaper, signed, chainVars, dispatchVars>>, nonce' \in Nat,
             actor' \in [at : ActorSteps, attempt : 0 .. MAX_RETRIES, level : Nat]
      PROVE  TypeOK'
  BY <1>1, <1>3
     DEF TypeOK, AccountTypeOK, DispatchTypeOK, chainVars, dispatchVars, ActorTypeOK
<1>4. ASSUME pool' \in {pool, pool \union {Attempt}}, signed' = signed \union {Attempt},
             UNCHANGED <<isPaper, nonce, chainNonce, bundles, ledger, dispatchVars>>,
             actor' \in [at : ActorSteps, attempt : 0 .. MAX_RETRIES, level : Nat]
      PROVE  TypeOK'
  BY <1>1, <1>4, AttemptIsTx
     DEF TypeOK, AccountTypeOK, DispatchTypeOK, dispatchVars, ActorTypeOK
<1>5. CASE InitNonce
  BY <1>3, <1>5 DEF InitNonce, Idle, ActorSteps, TypeOK, AccountTypeOK
<1>6. CASE ExecutePaper
  BY <1>2, <1>6 DEF ExecutePaper, Verdicts, Successes, TypeOK, ActorTypeOK
<1>7. CASE PrepareFails
  BY <1>2, <1>7 DEF PrepareFails, Verdicts, TypeOK, ActorTypeOK
<1>8. CASE Prepare
  BY <1>3, <1>8 DEF Prepare, Idle, ActorSteps, TypeOK, ActorTypeOK
<1>9. CASE Send
  BY <1>4, <1>9 DEF Send, ActorSteps, TypeOK, ActorTypeOK
<1>10. CASE SendFails
  BY <1>4, <1>10 DEF SendFails, Attempting, ActorSteps, TypeOK, ActorTypeOK
<1>11. ASSUME NEW ok \in BOOLEAN, Confirmed(ok)
       PROVE  TypeOK'
  BY <1>2, <1>11 DEF Confirmed, Verdicts, Successes, TypeOK, ActorTypeOK
<1>12. CASE ReceiptFails \/ Timeout
  BY <1>3, <1>12 DEF ReceiptFails, Timeout, NextAttempt, Waiting, HandOver, ActorSteps,
       TypeOK, ActorTypeOK
<1>13. CASE Exhausted
  BY <1>2, <1>13 DEF Exhausted, Verdicts, TypeOK, ActorTypeOK
<1> QED
  BY <1>5, <1>6, <1>7, <1>8, <1>9, <1>10, <1>11, <1>12, <1>13 DEF Act, ActFails, ActorProgress

LEMMA BroadcastTypes == TypeOK /\ HandOver /\ Broadcast => TypeOK'
<1> SUFFICES ASSUME TypeOK, HandOver, Broadcast PROVE TypeOK'
  OBVIOUS
<1>1. ActorTypeOK'
  BY DEF TypeOK, Broadcast, actorVars, ActorTypeOK
<1>2. CASE ReturnUnsubmitted(isPaper)
  BY <1>1, <1>2, ReturnTypes DEF ReturnUnsubmitted, Verdicts, Successes, TypeOK,
       AccountTypeOK, BroadcasterTypeOK, chainVars
<1>3. CASE SignTx
  BY <1>1, <1>3, Chunks, DispatchConfig DEF SignTx, Called, TypeOK, AccountTypeOK, DispatchTypeOK,
       BroadcasterTypeOK, chainVars, dispatchVars, Order, TradeIds, Tx
<1>4. ASSUME DispatchTypeOK', bundle' = bundle, chunksLeft' \in 0 .. MaxChunks,
             RelayTakes \/ UNCHANGED chainVars
      PROVE  TypeOK'
  <2>1. BroadcasterTypeOK'
    BY <1>4 DEF TypeOK, BroadcasterTypeOK
  <2>2. AccountTypeOK'
    BY <1>4 DEF RelayTakes, TypeOK, AccountTypeOK, BroadcasterTypeOK, chainVars
  <2> QED
    BY <1>1, <1>4, <2>1, <2>2 DEF TypeOK
<1>5. CASE SubmitBundle
  <2>1. DispatchTypeOK'
    BY <1>5, ReturnTypes DEF SubmitBundle, Verdicts, Successes, dispatchVars, TypeOK,
         DispatchTypeOK
  <2>2. bundle' = bundle /\ RelayTakes /\ chunksLeft' \in 0 .. MaxChunks
    BY <1>5, Chunks DEF SubmitBundle, TypeOK, BroadcasterTypeOK
  <2> QED
    BY <1>4, <2>1, <2>2
<1>6. CASE SubmitFails
  <2>1. DispatchTypeOK'
    BY <1>6, ReturnTypes DEF SubmitFails, Verdicts
  <2> QED
    BY <1>4, <1>6, <2>1, Chunks DEF SubmitFails
<1> QED
  BY <1>2, <1>3, <1>5, <1>6 DEF Broadcast

LEMMA BlockTypes == TypeOK /\ Block => TypeOK'
<1> SUFFICES ASSUME TypeOK, Block PROVE TypeOK'
  OBVIOUS
<1>1. DispatchTypeOK' /\ ActorTypeOK' /\ BroadcasterTypeOK'
  BY DEF TypeOK, Block, dispatchVars, actorVars, broadcasterVars, DispatchTypeOK, ActorTypeOK,
       BroadcasterTypeOK
<1>2. ASSUME NEW tx \in pool \union bundles, NEW ok \in BOOLEAN, Mine(tx, ok)
      PROVE  AccountTypeOK'
  BY <1>2 DEF Mine, Receipt, TypeOK, AccountTypeOK
<1>3. ASSUME NEW tx \in bundles, BundleExpires(tx)
      PROVE  AccountTypeOK'
  BY <1>3 DEF BundleExpires, TypeOK, AccountTypeOK
<1> QED
  BY <1>1, <1>2, <1>3 DEF Block, TypeOK
-----------------------------------------------------------------------------
(* Facts the steps share.                                                  *)

LEMMA TypesPreserved == TypeOK /\ HandOver /\ [Next]_vars => TypeOK'
<1>1. ASSUME TypeOK, UNCHANGED vars PROVE TypeOK'
  BY <1>1 DEF vars, TypeOK, AccountTypeOK, DispatchTypeOK, ActorTypeOK, BroadcasterTypeOK
<1> QED
  BY <1>1, LoopTypes, ActorTypes, BroadcastTypes, BlockTypes DEF Next

LEMMA TransactionTypes == TypeOK => AllTx \subseteq Tx
BY DEF TypeOK, AccountTypeOK, ActorTypeOK, BroadcasterTypeOK, AllTx

LEMMA SameTransactions ==
  ASSUME UNCHANGED <<signed, bundles, ledger, broadcasterVars>>
  PROVE  AllTx' = AllTx /\ Executed' = Executed
BY DEF AllTx, Executed, broadcasterVars

\* A step that leaves the order alone and takes nothing off the chain.
LEMMA AnswersUndisturbed ==
  ASSUME AnswersTrue, UNCHANGED dispatchVars, Executed \subseteq Executed'
  PROVE  AnswersTrue'
BY DEF AnswersTrue, FilledIsExecuted, dispatchVars, TradeIds

\* The answer to the order, which claims to be filled only if it is.
LEMMA AnswerGiven ==
  ASSUME AnswersTrue, order.at = "sent", DispatchTypeOK,
         NEW v \in Verdicts, Return(v),
         v = "filled" => order.trade \in Executed,
         Executed \subseteq Executed'
  PROVE  AnswersTrue' /\ order'.at = "returned" /\ order'.trade = order.trade
<1>1. order'.at = "returned" /\ order'.trade = order.trade /\ order'.verdict = v
  BY DEF Return, DispatchTypeOK, Order
<1>2. answered' = answered
  BY DEF Return
<1> QED
  BY <1>1, <1>2 DEF AnswersTrue, FilledIsExecuted, TradeIds

LEMMA InitInv == Init => IInv
<1> SUFFICES ASSUME Init PROVE IInv
  OBVIOUS
<1>1. AllTx = {}
  BY DEF Init, AccountInit, ActorInit, BroadcasterInit, AllTx
<1>2. order.at = "none" /\ order.trade = 0 /\ \A t \in TradeIds : answered[t] = "none"
  BY DEF Init, DispatchInit, NoOrder
<1>3. ~Busy /\ chunksLeft = 0 /\ actor.at = "starting"
  BY DEF Init, ActorInit, BroadcasterInit, Idle, Busy
<1>4. HandOver /\ OwnTrades /\ OneNoncePerTrade
  BY <1>1, <1>2, <1>3 DEF Init, AccountInit, ActorInit, HandOver, OwnTrades, OneNoncePerTrade
<1>5. ActorNonces /\ OneReceiptPerNonce
  BY DEF Init, AccountInit, ActorInit, ActorNonces, ActorNonceOwnedByOneTrade,
       OneReceiptPerNonce
<1>6. AnswersTrue
  BY <1>2, DispatchConfig DEF AnswersTrue, FilledIsExecuted, TradeIds
<1> QED
  BY <1>4, <1>5, <1>6, InitTypes DEF IInv
-----------------------------------------------------------------------------
(* The loop: nobody works on an order it submits or settles.               *)

LEMMA LoopKeeps == IInv /\ Loop => IInv'
<1> SUFFICES ASSUME IInv, Loop PROVE IInv'
  OBVIOUS
<1>1. TypeOK'
  BY LoopTypes DEF IInv
<1>2. AllTx' = AllTx /\ Executed' = Executed
  BY SameTransactions DEF Loop, chainVars, actorVars
<1>3. OneReceiptPerNonce'
  BY DEF IInv, Loop, chainVars, OneReceiptPerNonce
<1>4. order.trade \in 0 .. MaxTrades /\ AllTx \subseteq Tx
  BY TransactionTypes DEF IInv, TypeOK, DispatchTypeOK, Order
<1>5. ~Busy /\ chunksLeft = 0 /\ order.at # "sent"
  <2>1. order.at # "sent"
    BY DEF Loop, Settle, Submit
  <2> QED
    BY <2>1, Chunks DEF IInv, HandOver, TypeOK, BroadcasterTypeOK
<1>6. ~Busy' /\ chunksLeft' = 0
  BY <1>5 DEF Loop, actorVars, broadcasterVars, Busy
<1>7. HandOver' /\ OneNoncePerTrade' /\ ActorNonces'
  BY <1>2, <1>5, <1>6 DEF IInv, HandOver, OneNoncePerTrade, ActorNonces,
       ActorNonceOwnedByOneTrade, Loop, chainVars, actorVars
<1>8. OwnTrades' /\ AnswersTrue'
  <2>1. ASSUME NEW r \in Routes, NEW c \in FeeCaps, Submit(r, c)
        PROVE  OwnTrades' /\ AnswersTrue'
    <3>1. /\ order'.at = "sent" /\ order'.trade = order.trade + 1
          /\ order.at = "none" /\ order.trade < MaxTrades /\ answered' = answered
      BY <2>1 DEF Submit, IInv, TypeOK, DispatchTypeOK, Order
    <3>2. OwnTrades'
      BY <1>2, <1>4, <3>1 DEF IInv, OwnTrades, Tx
    <3>3. AnswersTrue'
      BY <1>2, <1>4, <3>1, DispatchConfig DEF IInv, AnswersTrue, FilledIsExecuted, TradeIds
    <3> QED
      BY <3>2, <3>3
  <2>2. ASSUME Settle
        PROVE  OwnTrades' /\ AnswersTrue'
    <3>1. order'.at = "none" /\ order'.trade = order.trade /\ order.at = "returned"
      BY <2>2 DEF Settle, NoOrder
    <3>2. /\ \A t \in TradeIds \ {order.trade} : answered'[t] = answered[t]
          /\ answered'[order.trade] = order.verdict /\ order.verdict # "none"
      BY <2>2 DEF Settle, IInv, TypeOK, DispatchTypeOK, Order, Verdicts, Successes, AnswersTrue
    <3>3. OwnTrades'
      BY <1>2, <3>1 DEF IInv, OwnTrades
    <3>4. AnswersTrue'
      BY <1>2, <1>4, <3>1, <3>2 DEF IInv, AnswersTrue, FilledIsExecuted, TradeIds
    <3> QED
      BY <3>3, <3>4
  <2> QED
    BY <2>1, <2>2 DEF Loop
<1> QED
  BY <1>1, <1>3, <1>7, <1>8 DEF IInv
-----------------------------------------------------------------------------
(* The actor.                                                              *)

\* An answer leaves the transactions alone, and the nonce above all of them.
LEMMA ReplyKeeps ==
  ASSUME IInv, NEW v \in Verdicts, Reply(v), order.at = "sent",
         v = "filled" => order.trade \in Executed,
         UNCHANGED <<isPaper, signed, broadcasterVars>>,
         (nonce' = nonce /\ ~Busy) \/ nonce' = nonce + 1,
         chunksLeft = 0
  PROVE  /\ HandOver' /\ OwnTrades' /\ OneNoncePerTrade'
         /\ ActorNonces' /\ OneReceiptPerNonce' /\ AnswersTrue'
<1>1. AllTx' = AllTx /\ Executed' = Executed
  BY SameTransactions DEF Reply, chainVars
<1>2. AnswersTrue' /\ order'.at = "returned" /\ order'.trade = order.trade
  BY <1>1, AnswerGiven DEF Reply, IInv, TypeOK
<1>3. ~Busy' /\ chunksLeft' = 0 /\ actor'.at = "idle"
  BY DEF Reply, Idle, Busy, broadcasterVars
<1>4. HandOver' /\ OwnTrades' /\ OneNoncePerTrade'
  BY <1>1, <1>2, <1>3 DEF IInv, HandOver, OwnTrades, OneNoncePerTrade, Reply, chainVars
<1>5. \A x \in signed : x.nonce <= nonce /\ x.nonce \in Nat /\ nonce \in Nat
  BY DEF IInv, ActorNonces, TypeOK, ActorTypeOK, Tx
<1>6. \A x \in signed : x.nonce <= nonce' /\ x.nonce # nonce'
  BY <1>5 DEF IInv, ActorNonces
<1>7. ActorNonces'
  BY <1>6 DEF IInv, ActorNonces, ActorNonceOwnedByOneTrade
<1>8. OneReceiptPerNonce'
  BY DEF IInv, OneReceiptPerNonce, Reply, chainVars
<1> QED
  BY <1>2, <1>4, <1>7, <1>8

\* The actor moves on with its order, its nonce and its transactions.
LEMMA OrderKeptKeeps ==
  ASSUME IInv, UNCHANGED <<signed, nonce, chainVars, dispatchVars, broadcasterVars>>,
         Busy, actor'.at \in {"sending", "waiting"},
         actor'.at = "waiting" => actor'.attempt < MAX_RETRIES
  PROVE  /\ HandOver' /\ OwnTrades' /\ OneNoncePerTrade'
         /\ ActorNonces' /\ OneReceiptPerNonce' /\ AnswersTrue'
<1>1. AllTx' = AllTx /\ Executed' = Executed
  BY SameTransactions DEF chainVars
<1>2. Busy'
  BY DEF Busy
<1>3. HandOver' /\ OwnTrades' /\ OneNoncePerTrade'
  BY <1>1, <1>2 DEF IInv, HandOver, OwnTrades, OneNoncePerTrade, chainVars, dispatchVars,
       broadcasterVars
<1>4. ActorNonces' /\ OneReceiptPerNonce'
  BY <1>2 DEF IInv, ActorNonces, ActorNonceOwnedByOneTrade, OneReceiptPerNonce, chainVars,
       dispatchVars
<1>5. AnswersTrue'
  BY <1>1, AnswersUndisturbed DEF IInv
<1> QED
  BY <1>3, <1>4, <1>5

\* An attempt is signed, and the node takes it or not: one more transaction of
\* the order's trade, at the nonce all the others have.
LEMMA AttemptSigned ==
  ASSUME IInv, Attempting, actor'.at \in {"sending", "waiting"},
         actor'.at = "waiting" => actor'.attempt < MAX_RETRIES,
         pool' \in {pool, pool \union {Attempt}}, signed' = signed \union {Attempt},
         UNCHANGED <<nonce, chainNonce, bundles, ledger, dispatchVars, broadcasterVars>>
  PROVE  /\ HandOver' /\ OwnTrades' /\ OneNoncePerTrade'
         /\ ActorNonces' /\ OneReceiptPerNonce' /\ AnswersTrue'
<1>1. AllTx' = AllTx \union {Attempt} /\ Executed' = Executed
  BY DEF AllTx, Executed, broadcasterVars
<1>2. Busy /\ Busy' /\ order.at = "sent" /\ order.route = "Public"
  BY DEF Attempting, Busy, IInv, HandOver
<1>3. Attempt.trade = order.trade /\ Attempt.nonce = nonce /\ order.trade \in TradeIds
  BY <1>2 DEF Attempt, IInv, AnswersTrue
<1>4. HandOver'
  BY <1>2 DEF IInv, HandOver, dispatchVars, broadcasterVars
<1>5. OwnTrades'
  BY <1>1, <1>2, <1>3, DispatchConfig DEF IInv, OwnTrades, dispatchVars, TradeIds
<1>6. OneNoncePerTrade'
  BY <1>1, <1>2, <1>3 DEF IInv, OneNoncePerTrade, dispatchVars
<1>7. ActorNonces'
  <2>1. nonce \in Nat
    BY DEF IInv, TypeOK, ActorTypeOK
  <2> QED
    BY <1>2, <1>3, <2>1 DEF IInv, ActorNonces, ActorNonceOwnedByOneTrade, dispatchVars
<1>8. OneReceiptPerNonce'
  BY DEF IInv, OneReceiptPerNonce
<1>9. AnswersTrue'
  BY <1>1, AnswersUndisturbed DEF IInv
<1> QED
  BY <1>4, <1>5, <1>6, <1>7, <1>8, <1>9

LEMMA ActorKeeps == IInv /\ (Act \/ ActFails) => IInv'
<1> SUFFICES ASSUME IInv, Act \/ ActFails PROVE IInv'
  OBVIOUS
<1> DEFINE Rest == /\ HandOver /\ OwnTrades /\ OneNoncePerTrade
                   /\ ActorNonces /\ OneReceiptPerNonce /\ AnswersTrue
<1>1. TypeOK'
  BY ActorTypes DEF IInv
<1>2. UNCHANGED broadcasterVars /\ chunksLeft \in Nat
  BY Chunks DEF Act, ActFails, IInv, TypeOK, BroadcasterTypeOK
<1>3. ASSUME Received
      PROVE  order.at = "sent" /\ ~Busy /\ chunksLeft = 0
  BY <1>2, <1>3 DEF Received, Busy, IInv, HandOver
<1>4. ASSUME Busy
      PROVE  order.at = "sent" /\ chunksLeft = 0
  BY <1>2, <1>4 DEF IInv, HandOver
<1>5. ASSUME InitNonce PROVE Rest'
  <2>1. signed = {} /\ signed' = {} /\ ~Busy /\ ~Busy' /\ actor'.at = "idle"
    BY <1>5 DEF InitNonce, Idle, Busy, IInv, HandOver
  <2>2. AllTx' = AllTx /\ Executed' = Executed
    BY <1>2, <1>5, SameTransactions DEF InitNonce, chainVars
  <2>3. HandOver' /\ OwnTrades' /\ OneNoncePerTrade'
    BY <1>2, <1>5, <2>1, <2>2 DEF InitNonce, IInv, HandOver, OwnTrades, OneNoncePerTrade,
         chainVars, dispatchVars, broadcasterVars
  <2>4. ActorNonces'
    BY <2>1 DEF ActorNonces, ActorNonceOwnedByOneTrade
  <2>5. OneReceiptPerNonce' /\ AnswersTrue'
    BY <1>5, <2>2, AnswersUndisturbed DEF InitNonce, IInv, OneReceiptPerNonce, chainVars
  <2> QED
    BY <2>3, <2>4, <2>5
<1>6. ASSUME ExecutePaper PROVE Rest'
  BY <1>2, <1>3, <1>6, ReplyKeeps DEF ExecutePaper, Verdicts, Successes
<1>7. ASSUME PrepareFails PROVE Rest'
  BY <1>2, <1>3, <1>7, ReplyKeeps DEF PrepareFails, Verdicts
<1>8. ASSUME Prepare PROVE Rest'
  <2>1. order.at = "sent" /\ order.route = "Public" /\ ~Busy /\ chunksLeft = 0
    BY <1>3, <1>8 DEF Prepare, Received
  <2>2. Busy' /\ actor'.at = "sending"
    BY <1>8 DEF Prepare, Busy, Idle
  <2>3. AllTx' = AllTx /\ Executed' = Executed
    BY <1>2, <1>8, SameTransactions DEF Prepare, chainVars
  <2>4. HandOver' /\ OwnTrades' /\ OneNoncePerTrade'
    BY <1>2, <1>8, <2>1, <2>2, <2>3 DEF Prepare, IInv, HandOver, OwnTrades, OneNoncePerTrade,
         chainVars, dispatchVars, broadcasterVars
  <2>5. ActorNonces'
    BY <1>8, <2>1 DEF Prepare, IInv, ActorNonces, ActorNonceOwnedByOneTrade
  <2>6. OneReceiptPerNonce' /\ AnswersTrue'
    BY <1>8, <2>3, AnswersUndisturbed DEF Prepare, IInv, OneReceiptPerNonce, chainVars
  <2> QED
    BY <2>4, <2>5, <2>6
<1>9. ASSUME Send PROVE Rest'
  <2>1. actor'.at = "waiting" /\ actor'.attempt < MAX_RETRIES
    BY <1>9 DEF Send, Attempting, IInv, TypeOK, ActorTypeOK
  <2> QED
    BY <1>2, <1>9, <2>1, AttemptSigned DEF Send
<1>10. ASSUME SendFails PROVE Rest'
  <2>1. actor'.at = "sending" /\ Busy
    BY <1>10 DEF SendFails, Attempting, Busy, IInv, TypeOK, ActorTypeOK
  <2>2. pool' \in {pool, pool \union {Attempt}}
    BY <1>10 DEF SendFails
  <2> QED
    BY <1>2, <1>10, <2>1, <2>2, AttemptSigned DEF SendFails
<1>11. ASSUME NEW ok \in BOOLEAN, Confirmed(ok) PROVE Rest'
  <2>1. Busy
    BY <1>11 DEF Confirmed, Waiting, Busy
  <2>2. ok => order.trade \in Executed
    BY <1>11 DEF Confirmed, Receipt, Executed, Attempt
  <2> DEFINE v == IF ok THEN "filled" ELSE "failed"
  <2>3. v \in Verdicts /\ (v = "filled" => order.trade \in Executed)
    BY <2>2 DEF Verdicts, Successes
  <2>4. Reply(v) /\ nonce' = nonce + 1 /\ UNCHANGED <<isPaper, signed, broadcasterVars>>
    BY <1>2, <1>11 DEF Confirmed
  <2> QED
    BY <1>4, <2>1, <2>3, <2>4, ReplyKeeps
<1>12. ASSUME ReceiptFails \/ Timeout PROVE Rest'
  <2>1. Busy /\ actor'.at = "sending"
    BY <1>12 DEF ReceiptFails, Timeout, NextAttempt, Waiting, Busy
  <2> QED
    BY <1>2, <1>12, <2>1, OrderKeptKeeps DEF ReceiptFails, Timeout, NextAttempt
<1>13. ASSUME Exhausted PROVE Rest'
  <2>1. Busy
    BY <1>13 DEF Exhausted, Busy
  <2> QED
    BY <1>2, <1>4, <1>13, <2>1, ReplyKeeps DEF Exhausted, Verdicts
<1>14. Rest'
  BY <1>5, <1>6, <1>7, <1>8, <1>9, <1>10, <1>11, <1>12, <1>13 DEF Act, ActFails, ActorProgress
<1> QED
  BY <1>1, <1>14 DEF IInv
-----------------------------------------------------------------------------
(* The broadcaster.                                                        *)

\* The broadcaster answers: what it submitted was signed before.
LEMMA BroadcastReturns ==
  ASSUME IInv, Called, ~isPaper \/ chunksLeft = 0, UNCHANGED actorVars,
         NEW v \in Verdicts, v # "filled", Return(v),
         chunksLeft' = 0, AllTx' \subseteq AllTx, ledger' = ledger,
         chainNonce' = chainNonce, pool' = pool
  PROVE  /\ HandOver' /\ OwnTrades' /\ OneNoncePerTrade'
         /\ ActorNonces' /\ OneReceiptPerNonce' /\ AnswersTrue'
<1>1. Executed' = Executed /\ order.at = "sent"
  BY DEF Executed, Called
<1>2. AnswersTrue' /\ order'.at = "returned" /\ order'.trade = order.trade
  BY <1>1, AnswerGiven DEF IInv, TypeOK
<1>3. ~Busy /\ ~Busy'
  BY DEF Called, Busy, IInv, HandOver, actorVars
<1>4. HandOver' /\ OwnTrades' /\ OneNoncePerTrade'
  BY <1>2, <1>3 DEF IInv, HandOver, OwnTrades, OneNoncePerTrade, actorVars
<1>5. ActorNonces' /\ OneReceiptPerNonce'
  BY <1>3 DEF IInv, ActorNonces, ActorNonceOwnedByOneTrade, OneReceiptPerNonce, actorVars
<1> QED
  BY <1>2, <1>4, <1>5

LEMMA BroadcastKeeps == IInv /\ Broadcast => IInv'
<1> SUFFICES ASSUME IInv, Broadcast PROVE IInv'
  OBVIOUS
<1> DEFINE Rest == /\ HandOver /\ OwnTrades /\ OneNoncePerTrade
                   /\ ActorNonces /\ OneReceiptPerNonce /\ AnswersTrue
<1>1. TypeOK' /\ UNCHANGED actorVars
  BY BroadcastTypes DEF IInv, Broadcast
<1>2. ASSUME ReturnUnsubmitted(isPaper) PROVE Rest'
  <2>1. AllTx' \subseteq AllTx
    BY <1>1, <1>2 DEF ReturnUnsubmitted, AllTx, actorVars, chainVars
  <2> QED
    BY <1>1, <1>2, <2>1, BroadcastReturns
       DEF ReturnUnsubmitted, Verdicts, Successes, chainVars
<1>3. ASSUME SignTx PROVE Rest'
  <2>1. /\ order.at = "sent" /\ order.route # "Public" /\ chunksLeft = 0 /\ chunksLeft' > 0
        /\ ~Busy /\ ~Busy'
    BY <1>1, <1>3 DEF SignTx, Called, IInv, HandOver, Busy, actorVars
  <2>2. bundle'.trade = order.trade /\ order.trade \in TradeIds
    BY <1>3, <2>1 DEF SignTx, IInv, AnswersTrue
  <2>3. AllTx' = AllTx \union {bundle'} /\ Executed' = Executed
    BY <1>1, <1>3, <2>1 DEF SignTx, AllTx, Executed, actorVars, chainVars
  <2>4. HandOver'
    BY <1>1, <1>3, <2>1, <2>2 DEF SignTx, IInv, HandOver, actorVars, chainVars, dispatchVars
  <2>5. OwnTrades'
    BY <1>3, <2>1, <2>2, <2>3, DispatchConfig DEF SignTx, IInv, OwnTrades, dispatchVars, TradeIds
  <2>6. OneNoncePerTrade'
    BY <2>1, <2>2, <2>3 DEF IInv, OwnTrades, OneNoncePerTrade
  <2>7. ActorNonces' /\ OneReceiptPerNonce' /\ AnswersTrue'
    BY <1>1, <1>3, <2>1, <2>3, AnswersUndisturbed
       DEF SignTx, IInv, ActorNonces, ActorNonceOwnedByOneTrade, OneReceiptPerNonce,
           actorVars, chainVars
  <2> QED
    BY <2>4, <2>5, <2>6, <2>7
<1>4. ASSUME ~isPaper, SubmitBundle PROVE Rest'
  <2>1. /\ order.at = "sent" /\ ~Busy /\ ~Busy' /\ chunksLeft > 0
        /\ chunksLeft \in Nat /\ chunksLeft' = chunksLeft - 1
    BY <1>1, <1>4, Chunks DEF SubmitBundle, Called, IInv, HandOver, Busy, actorVars, TypeOK,
         BroadcasterTypeOK
  <2>2. AllTx' \subseteq AllTx /\ Executed' = Executed
    BY <1>1, <1>4, <2>1 DEF SubmitBundle, RelayTakes, AllTx, Executed, actorVars
  <2>3. CASE chunksLeft = 1
    <3>1. Return("accepted") /\ chunksLeft' = 0
      BY <1>4, <2>1, <2>3 DEF SubmitBundle
    <3> QED
      BY <1>1, <1>4, <2>2, <3>1, BroadcastReturns
         DEF SubmitBundle, RelayTakes, Verdicts, Successes
  <2>4. CASE chunksLeft # 1
    <3>1. UNCHANGED dispatchVars /\ chunksLeft' > 0 /\ bundle' = bundle
      BY <1>4, <2>1, <2>4 DEF SubmitBundle
    <3>2. HandOver' /\ OwnTrades' /\ OneNoncePerTrade'
      BY <1>1, <1>4, <2>1, <2>2, <3>1
         DEF SubmitBundle, RelayTakes, IInv, HandOver, OwnTrades, OneNoncePerTrade, actorVars,
             dispatchVars
    <3>3. ActorNonces' /\ OneReceiptPerNonce' /\ AnswersTrue'
      BY <1>1, <1>4, <2>1, <2>2, <3>1, AnswersUndisturbed
         DEF SubmitBundle, RelayTakes, IInv, ActorNonces, ActorNonceOwnedByOneTrade,
             OneReceiptPerNonce, actorVars
    <3> QED
      BY <3>2, <3>3
  <2> QED
    BY <2>3, <2>4
<1>5. ASSUME ~isPaper, SubmitFails PROVE Rest'
  <2>1. AllTx' \subseteq AllTx
    BY <1>1, <1>5 DEF SubmitFails, RelayTakes, AllTx, actorVars, chainVars
  <2>2. ledger' = ledger /\ chainNonce' = chainNonce /\ pool' = pool
    BY <1>5 DEF SubmitFails, RelayTakes, chainVars
  <2> QED
    BY <1>1, <1>5, <2>1, <2>2, BroadcastReturns DEF SubmitFails, Verdicts
<1>6. Rest'
  BY <1>2, <1>3, <1>4, <1>5 DEF Broadcast
<1> QED
  BY <1>1, <1>6 DEF IInv
-----------------------------------------------------------------------------
(* The chain.                                                              *)

LEMMA BlockKeeps == IInv /\ Block => IInv'
<1> SUFFICES ASSUME IInv, Block PROVE IInv'
  OBVIOUS
<1>1. TypeOK' /\ UNCHANGED <<dispatchVars, actorVars, broadcasterVars>>
  BY BlockTypes DEF IInv, Block
<1>2. AllTx' \subseteq AllTx /\ Executed \subseteq Executed' /\ pool' \subseteq pool
  <2>1. ASSUME NEW tx \in pool \union bundles, NEW ok \in BOOLEAN, Mine(tx, ok)
        PROVE  AllTx' \subseteq AllTx /\ Executed \subseteq Executed' /\ pool' \subseteq pool
    <3>1. tx \in AllTx
      BY DEF IInv, HandOver, AllTx
    <3> QED
      BY <1>1, <2>1, <3>1 DEF Mine, Receipt, AllTx, Executed, actorVars, broadcasterVars
  <2>2. ASSUME NEW tx \in bundles, BundleExpires(tx)
        PROVE  AllTx' \subseteq AllTx /\ Executed \subseteq Executed' /\ pool' \subseteq pool
    BY <1>1, <2>2 DEF BundleExpires, AllTx, Executed, actorVars, broadcasterVars
  <2> QED
    BY <2>1, <2>2 DEF Block
<1>3. Busy' = Busy
  BY <1>1 DEF Busy, actorVars
<1>4. HandOver' /\ OwnTrades' /\ OneNoncePerTrade'
  BY <1>1, <1>2, <1>3 DEF IInv, HandOver, OwnTrades, OneNoncePerTrade, dispatchVars, actorVars,
       broadcasterVars
<1>5. ActorNonces' /\ AnswersTrue'
  BY <1>1, <1>2, <1>3, AnswersUndisturbed
     DEF IInv, ActorNonces, ActorNonceOwnedByOneTrade, dispatchVars, actorVars
<1>6. OneReceiptPerNonce'
  <2>1. chainNonce \in Nat /\ \A r \in ledger : r.tx.nonce \in Nat
    BY DEF IInv, TypeOK, AccountTypeOK, Tx
  <2>2. ASSUME NEW tx \in pool \union bundles, NEW ok \in BOOLEAN, Mine(tx, ok)
        PROVE  OneReceiptPerNonce'
    BY <2>1, <2>2 DEF Mine, Receipt, IInv, OneReceiptPerNonce
  <2>3. ASSUME NEW tx \in bundles, BundleExpires(tx)
        PROVE  OneReceiptPerNonce'
    BY <2>3 DEF BundleExpires, IInv, OneReceiptPerNonce
  <2> QED
    BY <2>2, <2>3 DEF Block
<1> QED
  BY <1>1, <1>4, <1>5, <1>6 DEF IInv
-----------------------------------------------------------------------------
(* The theorems.                                                           *)

LEMMA StepPreserves == IInv /\ [Next]_vars => IInv'
<1> SUFFICES ASSUME IInv, [Next]_vars PROVE IInv'
  OBVIOUS
<1>1. CASE UNCHANGED vars
  <2>1. TypeOK'
    BY TypesPreserved DEF IInv
  <2>2. /\ UNCHANGED <<signed, bundles, ledger, pool, chainNonce, nonce, actor>>
        /\ UNCHANGED dispatchVars /\ UNCHANGED broadcasterVars
    BY <1>1 DEF vars, dispatchVars, broadcasterVars
  <2>3. AllTx' = AllTx /\ Executed' = Executed /\ Busy' = Busy
    BY <2>2, SameTransactions DEF Busy
  <2>4. HandOver' /\ OwnTrades' /\ OneNoncePerTrade'
    BY <2>2, <2>3 DEF IInv, HandOver, OwnTrades, OneNoncePerTrade, dispatchVars, broadcasterVars
  <2>5. ActorNonces' /\ OneReceiptPerNonce' /\ AnswersTrue'
    BY <2>2, <2>3, AnswersUndisturbed
       DEF IInv, ActorNonces, ActorNonceOwnedByOneTrade, OneReceiptPerNonce, dispatchVars
  <2> QED
    BY <2>1, <2>4, <2>5 DEF IInv
<1> QED
  BY <1>1, LoopKeeps, ActorKeeps, BroadcastKeeps, BlockKeeps DEF Next

\* All the facts above hold in every reachable state of the execution side.
THEOREM Inductive == Spec => []IInv
BY InitInv, StepPreserves, PTL DEF Spec

\* Every variable keeps its type, for any number of trades and attempts.
THEOREM TypeCorrect == Spec => []TypeOK
<1>1. IInv => TypeOK
  BY DEF IInv
<1> QED
  BY <1>1, Inductive, PTL

\* A trade is mined at most once however often execute_real resends it: every
\* attempt, and every chunk of a split, is signed for one nonce, and the chain
\* takes one transaction per nonce.
THEOREM MinedOnce == Spec => []MinedAtMostOnce
<1>1. IInv => MinedAtMostOnce
  <2> SUFFICES ASSUME IInv, NEW r \in ledger, NEW q \in ledger, r.tx.trade = q.tx.trade
               PROVE  r = q
    BY DEF MinedAtMostOnce
  <2>1. r.tx \in AllTx /\ q.tx \in AllTx
    BY DEF AllTx
  <2>2. r.tx.nonce = q.tx.nonce
    BY <2>1 DEF IInv, OneNoncePerTrade
  <2> QED
    BY <2>2 DEF IInv, OneReceiptPerNonce
<1> QED
  BY <1>1, Inductive, PTL

\* The actor's nonces are never shared by two of its trades, because execute_real
\* moves past the nonce on every path that used it.
THEOREM ActorNonceOwned == Spec => []ActorNonceOwnedByOneTrade
<1>1. IInv => ActorNonceOwnedByOneTrade
  BY DEF IInv, ActorNonces
<1> QED
  BY <1>1, Inductive, PTL

\* A trade answered as filled is on the chain: the answer rests on a receipt of
\* the order's own transaction.
THEOREM FilledExecuted == Spec => []FilledIsExecuted
<1>1. IInv => FilledIsExecuted
  BY DEF IInv, AnswersTrue
<1> QED
  BY <1>1, Inductive, PTL
-----------------------------------------------------------------------------
(* Execution implements OrderLifecycle.                                    *)


LEMMA AnsweredTrades == Orders!Closed = {u \in TradeIds : answered[u] # "none"}
<1> DEFINE ids == {u \in TradeIds : answered[u] # "none"}
           answer(t) == [trade |-> t, verdict |-> answered[t]]
<1>1. Orders!Closed = {c.trade : c \in {answer(t) : t \in ids}}
  BY DEF Orders!Closed
<1>2. \A t : answer(t).trade = t
  OBVIOUS
<1> HIDE DEF answer, ids
<1>3. {c.trade : c \in {answer(t) : t \in ids}} = ids
  BY <1>2
<1> QED
  BY <1>1, <1>3 DEF ids

\* Steps of the executor that end no iteration are invisible to the loop.
LEMMA ExecutorHides ==
  ASSUME order'.trade = order.trade, answered' = answered, Executed' = Executed
  PROVE  UNCHANGED Orders!orderVars
BY DEF Orders!orderVars

LEMMA SubmitOpens ==
  ASSUME IInv, Loop, NEW r \in Routes, NEW c \in FeeCaps, Submit(r, c)
  PROVE  Orders!Next
<1> DEFINE t == order.trade + 1
<1>1. /\ order.at = "none" /\ order'.trade = t /\ answered' = answered
      /\ order.trade \in Nat /\ t \in TradeIds
  BY DispatchConfig DEF Submit, IInv, TypeOK, DispatchTypeOK, Order, TradeIds
<1>2. Executed' = Executed
  BY DEF Loop, Executed, chainVars
<1>3. t \in TradeIds \ (1 .. order.trade) /\ 1 .. order'.trade = (1 .. order.trade) \union {t}
  BY <1>1
<1>4. 1 .. order.trade \subseteq Orders!Closed
  BY <1>1, AnsweredTrades, DispatchConfig
     DEF IInv, AnswersTrue, TypeOK, DispatchTypeOK, Order, TradeIds
<1>5. Orders!Open(t)
  BY <1>1, <1>2, <1>3, <1>4 DEF Orders!Open
<1> QED
  BY <1>1, <1>5 DEF Orders!Next

LEMMA SettleCloses ==
  ASSUME IInv, Loop, Settle
  PROVE  Orders!Next
<1> SUFFICES ASSUME NEW t, NEW v, t = order.trade, v = order.verdict
             PROVE  Orders!Next
  OBVIOUS
<1> DEFINE ids == {u \in TradeIds : answered[u] # "none"}
<1>1. /\ order.at = "returned" /\ order'.trade = t /\ t \in TradeIds /\ answered[t] = "none"
      /\ v \in Verdicts /\ (v = "filled" => t \in Executed)
  BY DEF Settle, NoOrder, IInv, AnswersTrue, TypeOK, DispatchTypeOK, Order
<1>2. Executed' = Executed
  BY DEF Loop, Executed, chainVars
<1>3. \A u \in TradeIds : answered'[u] = IF u = t THEN v ELSE answered[u]
  BY <1>1 DEF Settle, IInv, TypeOK, DispatchTypeOK
<1>4. ids' = ids \union {t}
  BY <1>1, <1>3 DEF Verdicts, Successes
<1>5. {[trade |-> u, verdict |-> answered'[u]] : u \in ids'}
        = {[trade |-> u, verdict |-> answered[u]] : u \in ids} \union {[trade |-> t, verdict |-> v]}
  BY <1>1, <1>3, <1>4
<1>6. t \in (1 .. order.trade) \ Orders!Closed
  BY <1>1, AnsweredTrades DEF TradeIds
<1>7. Orders!Close(t, v)
  BY <1>1, <1>2, <1>5, <1>6 DEF Orders!Close
<1>8. t \in TradeIds /\ v \in {"filled", "accepted", "simulated", "failed"}
  BY <1>1 DEF Verdicts, Successes
<1> QED
  BY <1>7, <1>8 DEF Orders!Next

\* A block takes effect for a trade that had not taken effect before.
LEMMA MineExecutes ==
  ASSUME IInv, UNCHANGED dispatchVars,
         NEW tx \in pool \union bundles, NEW ok \in BOOLEAN, Mine(tx, ok)
  PROVE  Orders!Next \/ UNCHANGED Orders!orderVars
<1>1. ledger' = ledger \union {[tx |-> tx, ok |-> ok]} /\ tx.nonce = chainNonce
  BY DEF Mine, Receipt
<1>2. CASE ~ok
  <2>1. Executed' = Executed
    BY <1>1, <1>2 DEF Executed
  <2> QED
    BY <2>1, ExecutorHides DEF dispatchVars
<1>3. CASE ok
  <2>1. Executed' = Executed \union {tx.trade}
    <3>1. \A r : r \in ledger' <=> r \in ledger \/ r = [tx |-> tx, ok |-> TRUE]
      BY <1>1, <1>3
    <3>2. \A t : t \in Executed' <=> \E r \in ledger' : r.ok /\ t = r.tx.trade
      BY DEF Executed
    <3>3. \A t : t \in Executed <=> \E r \in ledger : r.ok /\ t = r.tx.trade
      BY DEF Executed
    <3> DEFINE new == [tx |-> tx, ok |-> TRUE]
    <3>4. new.ok /\ new.tx.trade = tx.trade /\ ledger' = ledger \union {new}
      BY <3>1
    <3> HIDE DEF new
    <3>5. \A t : t \in Executed' <=> t \in Executed \/ t = tx.trade
      BY <3>2, <3>3, <3>4
    <3> QED
      BY <3>5
  <2>2. tx \in AllTx /\ \A r \in ledger : r.tx \in AllTx
    BY DEF IInv, HandOver, AllTx
  <2>3. tx.trade \notin Executed
    <3>1. \A r \in ledger : r.tx.nonce \in Nat /\ chainNonce \in Nat /\ r.tx.nonce < chainNonce
      BY DEF IInv, TypeOK, AccountTypeOK, Tx, OneReceiptPerNonce
    <3>2. \A r \in ledger : r.tx.trade = tx.trade => r.tx.nonce = tx.nonce
      BY <2>2 DEF IInv, OneNoncePerTrade
    <3> QED
      BY <1>1, <3>1, <3>2 DEF Executed
  <2>4. tx.trade \in 1 .. order.trade /\ tx.trade \in TradeIds
    BY <2>2, DispatchConfig DEF IInv, OwnTrades, TypeOK, DispatchTypeOK, Order, TradeIds
  <2>5. Orders!Execute(tx.trade)
    BY <2>1, <2>3, <2>4 DEF Orders!Execute, dispatchVars
  <2> QED
    BY <2>4, <2>5 DEF Orders!Next
<1> QED
  BY <1>2, <1>3

LEMMA StepRefines == IInv /\ [Next]_vars => [Orders!Next]_(Orders!orderVars)
<1> SUFFICES ASSUME IInv, [Next]_vars
             PROVE  Orders!Next \/ UNCHANGED Orders!orderVars
  OBVIOUS
<1>1. ASSUME UNCHANGED vars PROVE UNCHANGED Orders!orderVars
  BY <1>1, ExecutorHides DEF vars, Executed
<1>2. ASSUME Loop PROVE Orders!Next
  BY <1>2, SubmitOpens, SettleCloses DEF Loop
<1>3. ASSUME NEW v, Return(v) PROVE order'.trade = order.trade /\ answered' = answered
  BY <1>3 DEF Return, IInv, TypeOK, DispatchTypeOK, Order
<1>4. ASSUME Act \/ ActFails PROVE UNCHANGED Orders!orderVars
  <2>1. Executed' = Executed
    BY <1>4 DEF Act, ActFails, ActorProgress, InitNonce, ExecutePaper, PrepareFails, Prepare,
         Send, SendFails, Confirmed, Timeout, Exhausted, ReceiptFails, NextAttempt, Reply,
         chainVars, Executed
  <2>2. order'.trade = order.trade /\ answered' = answered
    BY <1>3, <1>4 DEF Act, ActFails, ActorProgress, InitNonce, ExecutePaper, PrepareFails,
         Prepare, Send, SendFails, Confirmed, Timeout, Exhausted, ReceiptFails, NextAttempt,
         Reply, dispatchVars
  <2> QED
    BY <2>1, <2>2, ExecutorHides
<1>5. ASSUME Broadcast PROVE UNCHANGED Orders!orderVars
  <2>1. Executed' = Executed
    BY <1>5 DEF Broadcast, ReturnUnsubmitted, SignTx, SubmitBundle, SubmitFails, RelayTakes,
         chainVars, Executed
  <2>2. order'.trade = order.trade /\ answered' = answered
    BY <1>3, <1>5 DEF Broadcast, ReturnUnsubmitted, SignTx, SubmitBundle, SubmitFails,
         dispatchVars
  <2> QED
    BY <2>1, <2>2, ExecutorHides
<1>6. ASSUME Block PROVE Orders!Next \/ UNCHANGED Orders!orderVars
  <2>1. ASSUME NEW tx \in bundles, BundleExpires(tx) PROVE UNCHANGED Orders!orderVars
    BY <1>6, <2>1, ExecutorHides DEF Block, BundleExpires, Executed, dispatchVars
  <2> QED
    BY <1>6, <2>1, MineExecutes DEF Block
<1> QED
  BY <1>1, <1>2, <1>4, <1>5, <1>6 DEF Next

\* The execution side - actor, broadcaster and account together - implements the
\* promise TradingLoop relies on: an order is answered once, and its trade takes
\* effect at most once, before the answer if that says "filled".
THEOREM ImplementsOrderLifecycle == Spec => KeepsOrderLifecycle
<1>1. Init => Orders!Init
  BY DEF Init, AccountInit, DispatchInit, NoOrder, Executed, Orders!Init
<1> QED
  BY <1>1, StepRefines, Inductive, PTL DEF Spec, KeepsOrderLifecycle, Orders!Spec

-----------------------------------------------------------------------------
(* Answers come closer: what OrderAnswered rests on besides fairness.      *)

Starting == IF actor.at = "starting" THEN 1 ELSE 0

\* Steps the execution side still has to take, at most, until the loop is done with the
\* order: two for each attempt that is left, or one for each chunk.
StepsLeft ==
  Starting +
  CASE order.at = "none"     -> 0
    [] order.at = "returned" -> 1
    [] order.at = "sent" /\ order.route = "Public" ->
         (CASE actor.at = "sending" -> 2 * (MAX_RETRIES - actor.attempt) + 2
            [] actor.at = "waiting" -> 2 * (MAX_RETRIES - actor.attempt) + 1
            [] OTHER                -> 2 * MAX_RETRIES + 3)
    [] order.at = "sent" /\ order.route # "Public" ->
         (IF chunksLeft > 0 THEN chunksLeft + 1 ELSE MaxChunks + 2)

AnswerComesCloser == order.at # "none" /\ ~Block => StepsLeft' < StepsLeft

\* What StepsLeft is, place by place.
StepsCounted ==
  /\ order.at = "none" => StepsLeft = Starting
  /\ order.at = "returned" => StepsLeft = Starting + 1
  /\ order.at = "sent" /\ order.route = "Public" =>
       /\ actor.at = "sending" => StepsLeft = 2 * (MAX_RETRIES - actor.attempt) + 2
       /\ actor.at = "waiting" => StepsLeft = 2 * (MAX_RETRIES - actor.attempt) + 1
       /\ ~Busy => StepsLeft = Starting + (2 * MAX_RETRIES + 3)
  /\ order.at = "sent" /\ order.route # "Public" =>
       /\ chunksLeft > 0 => StepsLeft = Starting + (chunksLeft + 1)
       /\ chunksLeft = 0 => StepsLeft = Starting + (MaxChunks + 2)

LEMMA StepsAreCounted == IInv => StepsCounted
<1> SUFFICES ASSUME IInv PROVE StepsCounted
  OBVIOUS
<1>1. /\ actor.attempt \in 0 .. MAX_RETRIES /\ chunksLeft \in 0 .. MaxChunks
      /\ MAX_RETRIES \in Nat \ {0} /\ MaxChunks \in Nat \ {0}
  BY Retries, Chunks DEF IInv, TypeOK, ActorTypeOK, BroadcasterTypeOK
<1>2. /\ order.at = "none" => StepsLeft = Starting + 0
      /\ order.at = "returned" => StepsLeft = Starting + 1
  BY DEF StepsLeft
<1>3. ASSUME order.at = "sent", order.route = "Public"
      PROVE  StepsLeft = Starting +
               (CASE actor.at = "sending" -> 2 * (MAX_RETRIES - actor.attempt) + 2
                  [] actor.at = "waiting" -> 2 * (MAX_RETRIES - actor.attempt) + 1
                  [] OTHER                -> 2 * MAX_RETRIES + 3)
  BY <1>3 DEF StepsLeft
<1>4. ASSUME order.at = "sent", order.route # "Public"
      PROVE  StepsLeft = Starting +
               (IF chunksLeft > 0 THEN chunksLeft + 1 ELSE MaxChunks + 2)
  BY <1>4 DEF StepsLeft
<1>5. ASSUME order.at = "sent", order.route = "Public"
      PROVE  /\ actor.at = "sending" => StepsLeft = 2 * (MAX_RETRIES - actor.attempt) + 2
             /\ actor.at = "waiting" => StepsLeft = 2 * (MAX_RETRIES - actor.attempt) + 1
             /\ ~Busy => StepsLeft = Starting + (2 * MAX_RETRIES + 3)
  <2>1. CASE actor.at = "sending"
    BY <1>1, <1>3, <1>5, <2>1 DEF Busy, Starting
  <2>2. CASE actor.at = "waiting"
    BY <1>1, <1>3, <1>5, <2>2 DEF Busy, Starting
  <2>3. CASE ~Busy
    BY <1>1, <1>3, <1>5, <2>3 DEF Busy
  <2> QED
    BY <2>1, <2>2, <2>3 DEF Busy
<1>6. ASSUME order.at = "sent", order.route # "Public"
      PROVE  /\ chunksLeft > 0 => StepsLeft = Starting + (chunksLeft + 1)
             /\ chunksLeft = 0 => StepsLeft = Starting + (MaxChunks + 2)
  BY <1>1, <1>4, <1>6
<1> QED
  BY <1>1, <1>2, <1>5, <1>6 DEF StepsCounted, Starting

\* Every step with an order out brings the answer closer, blocks apart: an attempt
\* is never given back, nor a chunk.
LEMMA StepComesCloser == IInv /\ Next => AnswerComesCloser
<1> SUFFICES ASSUME IInv, Next, order.at # "none", ~Block
             PROVE  StepsLeft' < StepsLeft
  BY DEF AnswerComesCloser
<1>1. StepsCounted /\ StepsCounted'
  <2>1. IInv'
    BY StepPreserves
  <2> QED
    BY <2>1, StepsAreCounted, PTL
<1>2. /\ order \in Order /\ order.at \in {"sent", "returned"}
      /\ order.route \in {"Public", "Flashbots", "Split"}
      /\ chunksLeft \in 0 .. MaxChunks /\ MaxChunks \in Nat \ {0} /\ MAX_RETRIES \in Nat \ {0}
      /\ actor \in [at : ActorSteps, attempt : 0 .. MAX_RETRIES, level : Nat]
  BY Retries, Chunks DEF IInv, TypeOK, DispatchTypeOK, ActorTypeOK, BroadcasterTypeOK, Order
<1>3. /\ Busy => order.at = "sent" /\ order.route = "Public"
      /\ chunksLeft > 0 => order.at = "sent" /\ order.route # "Public"
      /\ actor.at = "waiting" => actor.attempt < MAX_RETRIES
  BY DEF IInv, HandOver
<1>4. Starting \in {0, 1} /\ Starting' \in {0, 1} /\ (Busy => Starting = 0) /\ (Busy' => Starting' = 0)
  BY DEF Starting, Busy
<1>5. ASSUME NEW v \in Verdicts, Return(v)
      PROVE  StepsLeft' = Starting' + 1
  <2>1. order'.at = "returned"
    BY <1>2, <1>5 DEF Return, Order
  <2> QED
    BY <1>1, <2>1 DEF StepsCounted
<1>6. ASSUME order.at = "sent" PROVE StepsLeft \in Nat /\ StepsLeft > Starting + 1
  <2>1. CASE order.route = "Public" /\ ~Busy
    BY <1>1, <1>2, <1>4, <1>6, <2>1 DEF StepsCounted
  <2>2. CASE order.route = "Public" /\ actor.at = "sending"
    BY <1>1, <1>2, <1>4, <1>6, <2>2 DEF StepsCounted, Busy
  <2>3. CASE order.route = "Public" /\ actor.at = "waiting"
    BY <1>1, <1>2, <1>3, <1>4, <1>6, <2>3 DEF StepsCounted, Busy
  <2>4. CASE order.route # "Public"
    BY <1>1, <1>2, <1>4, <1>6, <2>4 DEF StepsCounted
  <2> QED
    BY <2>1, <2>2, <2>3, <2>4 DEF Busy
<1>7. CASE Loop
  <2>1. Settle /\ actor' = actor
    BY <1>7 DEF Loop, Submit, actorVars
  <2>2. order.at = "returned" /\ order'.at = "none"
    BY <2>1 DEF Settle, NoOrder
  <2>3. Starting' = Starting
    BY <2>1 DEF Starting
  <2> QED
    BY <1>1, <1>4, <2>2, <2>3 DEF StepsCounted
<1>8. CASE InitNonce /\ UNCHANGED broadcasterVars
  <2>1. Starting = 1 /\ Starting' = 0 /\ ~Busy /\ ~Busy'
    BY <1>8 DEF InitNonce, Starting, Busy, Idle
  <2>2. order' = order /\ chunksLeft' = chunksLeft
    BY <1>8 DEF InitNonce, dispatchVars, broadcasterVars
  <2> QED
    BY <1>1, <1>2, <2>1, <2>2 DEF StepsCounted
<1>9. ASSUME NEW v \in Verdicts, Reply(v), order.at = "sent"
      PROVE  StepsLeft' < StepsLeft
  <2>1. Starting' = 0 /\ StepsLeft' = Starting' + 1
    BY <1>5, <1>9 DEF Reply, Idle, Starting
  <2> QED
    BY <1>4, <1>6, <1>9, <2>1
<1>10. CASE Prepare /\ UNCHANGED broadcasterVars
  <2>1. /\ order.at = "sent" /\ order.route = "Public" /\ ~Busy /\ order' = order
        /\ actor'.at = "sending" /\ actor'.attempt = 0 /\ Starting = 0
    BY <1>10 DEF Prepare, Received, Busy, Idle, dispatchVars, Starting
  <2>2. StepsLeft = 2 * MAX_RETRIES + 3
    BY <1>1, <1>2, <2>1 DEF StepsCounted
  <2>3. StepsLeft' = 2 * (MAX_RETRIES - 0) + 2
    BY <1>1, <2>1 DEF StepsCounted
  <2> QED
    BY <1>2, <2>2, <2>3
<1>11. ASSUME actor.at = "sending", actor.attempt < MAX_RETRIES, order' = order,
              \/ actor'.at = "waiting" /\ actor'.attempt = actor.attempt
              \/ actor'.at = "sending" /\ actor'.attempt = actor.attempt + 1
       PROVE  StepsLeft' < StepsLeft
  <2>1. order.at = "sent" /\ order.route = "Public"
    BY <1>3, <1>11 DEF Busy
  <2>2. StepsLeft = 2 * (MAX_RETRIES - actor.attempt) + 2
    BY <1>1, <1>11, <2>1 DEF StepsCounted
  <2>3. \/ StepsLeft' = 2 * (MAX_RETRIES - actor.attempt) + 1
        \/ StepsLeft' = 2 * (MAX_RETRIES - (actor.attempt + 1)) + 2
    BY <1>1, <1>11, <2>1 DEF StepsCounted
  <2> QED
    BY <1>2, <2>2, <2>3
<1>12. CASE Send
  <2>1. /\ actor.at = "sending" /\ actor.attempt < MAX_RETRIES /\ order' = order
        /\ actor'.at = "waiting" /\ actor'.attempt = actor.attempt
    BY <1>2, <1>12 DEF Send, Attempting, dispatchVars
  <2> QED
    BY <1>11, <2>1
<1>13. CASE SendFails
  <2>1. /\ actor.at = "sending" /\ actor.attempt < MAX_RETRIES /\ order' = order
        /\ actor'.at = "sending" /\ actor'.attempt = actor.attempt + 1
    BY <1>2, <1>13 DEF SendFails, Attempting, dispatchVars
  <2> QED
    BY <1>11, <2>1
<1>14. ASSUME NEW level, NextAttempt(level)
       PROVE  StepsLeft' < StepsLeft
  <2>1. /\ actor.at = "waiting" /\ order' = order /\ order.at = "sent" /\ order.route = "Public"
        /\ actor'.at = "sending" /\ actor'.attempt = actor.attempt + 1
    BY <1>3, <1>14 DEF NextAttempt, Waiting, Busy, dispatchVars
  <2>2. /\ StepsLeft = 2 * (MAX_RETRIES - actor.attempt) + 1
        /\ StepsLeft' = 2 * (MAX_RETRIES - (actor.attempt + 1)) + 2
    BY <1>1, <2>1 DEF StepsCounted
  <2> QED
    BY <1>2, <2>2
<1>15. CASE ExecutePaper \/ PrepareFails
  BY <1>9, <1>15 DEF ExecutePaper, PrepareFails, Received, Verdicts, Successes
<1>16. ASSUME NEW ok \in BOOLEAN, Confirmed(ok) PROVE StepsLeft' < StepsLeft
  BY <1>3, <1>9, <1>16 DEF Confirmed, Waiting, Busy, Verdicts, Successes
<1>17. CASE Exhausted
  BY <1>3, <1>9, <1>17 DEF Exhausted, Busy, Verdicts
<1>18. CASE Broadcast
  <2>1. order.at = "sent" /\ order.route # "Public" /\ actor' = actor
    BY <1>18 DEF Broadcast, ReturnUnsubmitted, SignTx, SubmitBundle, SubmitFails, Called, actorVars
  <2>2. Starting' = Starting
    BY <2>1 DEF Starting
  <2>3. ASSUME NEW v \in Verdicts, Return(v) PROVE StepsLeft' < StepsLeft
    BY <1>4, <1>5, <1>6, <2>1, <2>2, <2>3
  <2>4. CASE ReturnUnsubmitted(isPaper) \/ SubmitFails
    BY <2>3, <2>4 DEF ReturnUnsubmitted, SubmitFails, Verdicts, Successes
  <2>5. CASE SignTx
    <3>1. order' = order /\ chunksLeft = 0 /\ chunksLeft' \in 1 .. MaxChunks
      BY <1>2, <2>5 DEF SignTx, dispatchVars
    <3>2. StepsLeft = Starting + (MaxChunks + 2) /\ StepsLeft' = Starting' + (chunksLeft' + 1)
      BY <1>1, <1>2, <2>1, <3>1 DEF StepsCounted
    <3>3. ASSUME NEW c \in 1 .. MaxChunks, NEW s \in Nat
          PROVE  s + (c + 1) < s + (MaxChunks + 2)
      BY Chunks
    <3> QED
      BY <1>4, <2>2, <3>1, <3>2, <3>3
  <2>6. CASE SubmitBundle /\ chunksLeft = 1
    BY <2>3, <2>6 DEF SubmitBundle, Verdicts, Successes
  <2>7. CASE SubmitBundle /\ chunksLeft # 1
    <3>1. order' = order /\ chunksLeft > 1 /\ chunksLeft' = chunksLeft - 1
      BY <1>2, <2>7 DEF SubmitBundle, dispatchVars
    <3>2. StepsLeft = Starting + (chunksLeft + 1) /\ StepsLeft' = Starting' + (chunksLeft' + 1)
      BY <1>1, <1>2, <2>1, <3>1 DEF StepsCounted
    <3> QED
      BY <1>2, <1>4, <2>2, <3>1, <3>2
  <2> QED
    BY <1>18, <2>4, <2>5, <2>6, <2>7 DEF Broadcast
<1> QED
  BY <1>7, <1>8, <1>10, <1>12, <1>13, <1>14, <1>15, <1>16, <1>17, <1>18
     DEF Next, Act, ActorProgress, ActFails, ReceiptFails, Timeout

\* No step of the actor, the broadcaster or the loop goes back on the way to an answer,
\* whatever fails: an order is answered after a bounded number of them. OrderAnswered
\* adds that they are taken.
THEOREM AnswersComeCloser == Spec => [][AnswerComesCloser]_vars
BY StepComesCloser, Inductive, PTL DEF Spec
-----------------------------------------------------------------------------
(* Paper mode.                                                             *)

\* Nothing is signed, submitted or mined.
PaperIsInert ==
  isPaper => /\ ~Busy /\ chunksLeft = 0
             /\ signed = {} /\ pool = {} /\ bundles = {} /\ ledger = {}

LEMMA PaperStays == PaperIsInert /\ [Next]_vars => PaperIsInert'
<1> SUFFICES ASSUME PaperIsInert, [Next]_vars, isPaper' PROVE PaperIsInert'
  BY DEF PaperIsInert
<1>1. isPaper' = isPaper
  BY DEF Next, Loop, Act, ActorProgress, ActFails, ReceiptFails, Broadcast, Block, actorVars, vars,
         InitNonce, ExecutePaper, PrepareFails, Prepare, Send, SendFails, Confirmed, Timeout,
         NextAttempt, Exhausted
<1>2. /\ ~Busy /\ chunksLeft = 0 /\ isPaper
      /\ signed = {} /\ pool = {} /\ bundles = {} /\ ledger = {}
  BY <1>1 DEF PaperIsInert
<1>3. CASE Loop
  BY <1>2, <1>3 DEF Loop, chainVars, actorVars, broadcasterVars, PaperIsInert, Busy
<1>4. CASE Act \/ ActFails
  BY <1>2, <1>4 DEF Act, ActorProgress, ActFails, ReceiptFails, InitNonce, ExecutePaper,
       PrepareFails, Prepare, Send, SendFails, Attempting, Confirmed, Waiting, Timeout, NextAttempt,
       Exhausted, Reply, Idle, Busy, chainVars, broadcasterVars, PaperIsInert
<1>5. CASE Broadcast
  BY <1>2, <1>5 DEF Broadcast, ReturnUnsubmitted, chainVars, actorVars, PaperIsInert, Busy
<1>6. CASE Block
  BY <1>2, <1>6 DEF Block, Mine, BundleExpires
<1>7. CASE UNCHANGED vars
  BY <1>2, <1>7 DEF vars, PaperIsInert, Busy
<1> QED
  BY <1>3, <1>4, <1>5, <1>6, <1>7 DEF Next

\* A bot that runs in paper mode signs nothing, submits nothing and has nothing on the
\* chain, on any route: execute_paper and the broadcaster return before they sign.
THEOREM PaperSignsNothing == Spec => []PaperIsInert
<1>1. Init => PaperIsInert
  BY DEF Init, AccountInit, ActorInit, BroadcasterInit, Idle, PaperIsInert, Busy
<1> QED
  BY <1>1, PaperStays, PTL DEF Spec
=============================================================================
