------------------------------ MODULE Strategy -------------------------------
(***************************************************************************)
(* From market data to decision: the price series and the cells the feeds  *)
(* write, the context builder that reads them one lock after the other     *)
(* (crates/ingestion/src/context_builder.rs), and the consensus engine     *)
(* with the votes its four signals (VotingSignals) cast on that context.   *)
(*                                                                         *)
(* It extends Consensus: the engine's variables and its vote are those of  *)
(* that module, while the context and the signals' votes, which are free   *)
(* there, are computed here. `prices` is what the engine will find of the  *)
(* closes that were read.                                                  *)
(*                                                                         *)
(* The pool's price is MarketData's and the queue of swaps is              *)
(* MempoolMonitor's: here they move as they like, and no swap has left the *)
(* queue yet. An outage of the price feed only means that no close         *)
(* arrives. Liquidity sizes the levels of the order book on both sides     *)
(* alike and no signal reads the volumes: they are left out.               *)
(***************************************************************************)
EXTENDS Consensus, VotingSignals

CONSTANTS
  Closes,           \* closes the exchange sends
  PoolPrices,       \* prices of the pool
  Swaps,            \* pending swaps: direction, value in tens of ETH, sender's weight
  MaxLen,           \* closes the series keeps: 100
  MaxCloses,        \* bound: closes that arrive
  MaxSwaps          \* bound: swaps that are heard of

\* The engine has the four signals, takes any confidence, and every atr_pct of the
\* closes. A swap of any direction may carry ETH.
ASSUME StrategyConfig ==
  /\ Closes \subseteq Nat /\ PoolPrices \subseteq Nat \ {0}
  /\ \A s \in Swaps : /\ s.direction \in {"Buy", "Sell", "Unknown"}
                      /\ s.value \in Nat /\ s.weight \in Nat
  /\ Signals = Names /\ 0 .. 1000 \subseteq Confidences /\ NoMacro \in Macros
  /\ \A w \in [1 .. AtrPeriod + 1 -> Closes \ {0}] : AtrPct(w) \in Volatilities
  /\ MaxLen \in Nat \ {0} /\ MaxCloses \in Nat /\ MaxSwaps \in Nat

VARIABLES
  series,           \* price_series.closes
  poolPrice,        \* pool_price, 0 until the pool was read
  pending,          \* pending_txs
  arrived,          \* closes so far
  builder,          \* what the context builder reads next, or "done"
  closes, price, whales     \* the context; the closes are kept after its use

feedVars     == <<series, poolPrice, pending, arrived>>
contextVars  == <<prices, closes, price, whales>>
engineVars   == <<history, regime, stage, results, decision>>
strategyVars == <<feedVars, builder, contextVars, engineVars>>

StrategyInit ==
  /\ Init
  /\ series = <<>> /\ poolPrice = 0 /\ pending = <<>> /\ arrived = 0
  /\ builder = "closes" /\ closes = <<>> /\ price = 0 /\ whales = <<>>

-----------------------------------------------------------------------------
(* The feeds.                                                              *)

\* Mutant: the room is made only once the series is too long.
PushedMut(close) == Append(IF Len(series) > MaxLen THEN Tail(series) ELSE series, close)

\* PriceSeries::push.
Pushed(close) == Append(IF Len(series) >= MaxLen THEN Tail(series) ELSE series, close)

\* Every update of a candle is pushed, the last one or not.
CloseArrives ==
  /\ arrived < MaxCloses /\ arrived' = arrived + 1
  /\ \E close \in Closes : close > 0 /\ series' = Pushed(close)
  /\ UNCHANGED <<poolPrice, pending, builder, contextVars, engineVars>>

PoolMoves ==
  /\ poolPrice' \in PoolPrices \ {poolPrice}
  /\ UNCHANGED <<series, pending, arrived, builder, contextVars, engineVars>>

SwapHeard ==
  /\ Len(pending) < MaxSwaps
  /\ \E swap \in Swaps : pending' = Append(pending, swap)
  /\ UNCHANGED <<series, poolPrice, arrived, builder, contextVars, engineVars>>

-----------------------------------------------------------------------------
(* ContextBuilder::build.                                                  *)

\* Without a close there is no context; the loop comes again.
ReadCloses ==
  /\ builder = "closes" /\ series # <<>>
  /\ closes' = series /\ builder' = "price"
  /\ prices' = IF Len(series) > AtrPeriod THEN "enough" ELSE "few"
  /\ UNCHANGED <<feedVars, price, whales, engineVars>>

ReadPrice ==
  /\ builder = "price"
  /\ \/ poolPrice > 0 /\ price' = poolPrice /\ builder' = "swaps"
     \/ poolPrice <= 0 /\ builder' = "closes" /\ UNCHANGED price
  /\ UNCHANGED <<feedVars, prices, closes, whales, engineVars>>

\* estimate_whale_txs.
ReadSwaps ==
  /\ builder = "swaps" /\ builder' = "done"
  /\ whales' = Whales(pending, price)
  /\ UNCHANGED <<feedVars, prices, closes, price, engineVars>>

-----------------------------------------------------------------------------
(* ConsensusEngine::evaluate, on the context.                              *)

ClassifyContext ==
  /\ builder = "done" /\ stage = "classify" /\ stage' = "vote"
  /\ IF Len(closes) < AtrPeriod + 1
     THEN regime' = "Ranging" /\ UNCHANGED history
     ELSE /\ history' = Remember(AtrPct(closes))
          /\ regime' = Classified(history')
  /\ results' = NoVotes /\ decision' = Pending
  /\ UNCHANGED <<feedVars, builder, contextVars>>

\* The context is gone after evaluate, but for the closes that will be read again.
ContextUsed ==
  /\ stage = "vote" /\ stage' = "classify"
  /\ builder' = "closes" /\ price' = 0 /\ whales' = <<>>
  /\ UNCHANGED <<feedVars, prices, closes, history, regime>>

\* Nothing ever sets a macro regime.
ContextSize == Size(regime, NoMacro)

GateBlocksContext ==
  /\ ContextUsed /\ ContextSize <= 0
  /\ decision' = Blocked("RegimeGate")
  /\ UNCHANGED results

Cast(signal) ==
  CASE signal = "RSI"         -> Rsi(closes)
    [] signal = "EMA"         -> Ema(closes)
    [] signal = "OrderBook"   -> OrderBook
    [] signal = "OnchainFlow" -> OnchainFlow(whales, closes, price)

\* Mutant: a size of zero passes the gate.
DecideOnContextMut ==
  /\ ContextUsed /\ ContextSize >= 0
  /\ results' = [signal \in Names |-> Cast(signal)]
  /\ decision' = Decided(results', ContextSize, NoMacro)

DecideOnContext ==
  /\ ContextUsed /\ ContextSize > 0
  /\ results' = [signal \in Names |-> Cast(signal)]
  /\ decision' = Decided(results', ContextSize, NoMacro)

Feeds == CloseArrives \/ PoolMoves \/ SwapHeard
Loop  == \/ ReadCloses \/ ReadPrice \/ ReadSwaps
         \/ ClassifyContext \/ GateBlocksContext \/ DecideOnContext

StrategyNext == Feeds \/ Loop

StrategySpec == StrategyInit /\ [][StrategyNext]_strategyVars

-----------------------------------------------------------------------------
StrategyTypeOK ==
  /\ TypeOK
  /\ series \in Seq(Closes \ {0}) /\ Len(series) <= MaxLen
  /\ poolPrice \in PoolPrices \union {0}
  /\ pending \in Seq(Swaps) /\ arrived \in 0 .. MaxCloses
  /\ builder \in {"closes", "price", "swaps", "done"}
  /\ closes \in Seq(Closes \ {0}) /\ Len(closes) <= MaxLen
  /\ price \in PoolPrices \union {0}
  /\ \A i \in DOMAIN whales : whales[i].usd >= WhaleThreshold

\* The engine over what the signals really compute is the engine of Consensus,
\* whose votes are free: whatever mixture of old and new readings its context
\* is, every signal casts a vote, none is out of range, and none is asked while
\* the regime blocks.
KeepsConsensus == Safety

Opposite(result) ==
  IF result.vote = "Neutral" THEN result
  ELSE [result EXCEPT !.vote = Against(@)]

Rose(seq) == \A i \in 2 .. Len(seq) : seq[i] >= seq[i - 1]
Fell(seq) == \A i \in 2 .. Len(seq) : seq[i] <= seq[i - 1]

\* The two signals on prices take no side. Turned upside down, a series makes
\* RSI vote the other way with the same confidence - unless nothing moved, which
\* it takes for a rise. And EMA, for all its seeds and smoothing, never votes
\* against a series that only rose or only fell.
PricesReadBothWays ==
  builder = "price" =>
    /\ (Len(closes) > RsiPeriod /\ \E i \in 1 .. RsiPeriod : Moves(closes, RsiPeriod)[i] # 0) =>
         Rsi([i \in DOMAIN closes |-> -closes[i]]) = Opposite(Rsi(closes))
    /\ Rose(closes) => Ema(closes).vote # "Sell"
    /\ Fell(closes) => Ema(closes).vote # "Buy"

\* A swap known to buy never turns the flow's vote towards selling, nor one known
\* to sell towards buying: without it the vote leans no further to its side than
\* with it. Absorption, the prices and the other whales change how sure the vote
\* is, never whom it follows. Nothing is claimed of a swap that was not decoded.
Lean(result) == CASE result.vote = "Buy" -> 1 [] result.vote = "Sell" -> -1 [] OTHER -> 0

WhalesPullTheirWay ==
  builder = "done" =>
    \A i \in DOMAIN whales :
      LET with    == Lean(OnchainFlow(whales, closes, price))
          without == Lean(OnchainFlow(Restrict(whales, DOMAIN whales \ {i}), closes, price))
      IN  /\ pending[i].direction = "Buy"  => without <= with
          /\ pending[i].direction = "Sell" => without >= with
=============================================================================
