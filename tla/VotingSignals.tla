---------------------------- MODULE VotingSignals ----------------------------
(***************************************************************************)
(* crates/signals: what the four voters and the volatility compute from a  *)
(* market context.                                                         *)
(*                                                                         *)
(* A series of closes is a sequence of numbers, the oldest first. Averages *)
(* are kept as numerators over a common denominator, so that a vote is the *)
(* one of exact arithmetic; confidences are in thousandths and atr_pct in  *)
(* millionths, both rounded down.                                          *)
(***************************************************************************)
EXTENDS Integers, Sequences, Functions

CONSTANTS
  RsiPeriod,        \* PERIOD: 14
  FastPeriod,       \* FAST_PERIOD: 9
  SlowPeriod,       \* SLOW_PERIOD: 21
  AtrPeriod,        \* atr_period: 14
  WhaleThreshold    \* from which a swap is a whale's, in tens of dollars: 50 000

ASSUME SignalsConfig ==
  /\ {RsiPeriod, FastPeriod, SlowPeriod, AtrPeriod} \subseteq Nat \ {0}
  /\ FastPeriod < SlowPeriod /\ WhaleThreshold \in Nat

Names == {"RSI", "EMA", "OrderBook", "OnchainFlow"}

\* SignalResult::new, which clamps the confidence.
SignalResult(v, confidence) ==
  [vote |-> v, confidence |-> IF confidence > 1000 THEN 1000 ELSE confidence]

Neutral == SignalResult("Neutral", 0)

Total(values) == SumFunction(values)
Above(n) == IF n > 0 THEN n ELSE 0
Abs(n) == IF n < 0 THEN -n ELSE n

\* The last n differences of two closes in a row.
Moves(closes, n) ==
  LET from == Len(closes) - n
  IN  [i \in 1 .. n |-> closes[from + i] - closes[from + i - 1]]

\* An average moves towards a value: old parts of the one, new parts of the other.
Blend(avg, value, old, new) ==
  [over  |-> old * avg.over + new * value * avg.under,
   under |-> (old + new) * avg.under]

\* The average that starts as `first` and moves towards each of the values in turn.
Smoothed(first, values, old, new) ==
  LET avg[i \in 0 .. Len(values)] ==
        IF i = 0 THEN first ELSE Blend(avg[i - 1], values[i], old, new)
  IN  avg[Len(values)]

-----------------------------------------------------------------------------
(* volatility_regime.rs: atr_pct.                                          *)

AtrPct(closes) ==
  LET moves == Moves(closes, AtrPeriod)
  IN  (Total([i \in DOMAIN moves |-> Abs(moves[i])]) * 1000000)
        \div (AtrPeriod * closes[Len(closes)])

-----------------------------------------------------------------------------
(* rsi.rs.                                                                 *)

\* The numerator of a period's mean gain or loss, smoothed over all of the parts
\* but the first once more; its denominator depends on RsiPeriod only.
Wilder(parts) ==
  Smoothed([over |-> Total(parts), under |-> RsiPeriod], Tail(parts), RsiPeriod - 1, 1).over

\* Mutant: without losses there is no ratio, and no vote.
RsiMut(closes) ==
  LET moves  == Moves(closes, RsiPeriod)
      gains  == Wilder([i \in DOMAIN moves |-> Above(moves[i])])
      losses == Wilder([i \in DOMAIN moves |-> Above(-moves[i])])
      both   == gains + losses
  IN  IF Len(closes) < RsiPeriod + 1 \/ losses = 0 THEN Neutral
      ELSE CASE 10 * gains < 3 * both ->
                  SignalResult("Buy", (1000 * (3 * both - 10 * gains)) \div (3 * both))
             [] 10 * gains > 7 * both ->
                  SignalResult("Sell", (1000 * (10 * gains - 7 * both)) \div (3 * both))
             [] OTHER -> Neutral

\* rsi is 100 * gains / both, and 100 without losses, be there gains or not.
Rsi(closes) ==
  LET moves  == Moves(closes, RsiPeriod)
      gains  == Wilder([i \in DOMAIN moves |-> Above(moves[i])])
      losses == Wilder([i \in DOMAIN moves |-> Above(-moves[i])])
      both   == gains + losses
  IN  IF Len(closes) < RsiPeriod + 1 THEN Neutral
      ELSE CASE losses = 0 -> SignalResult("Sell", 1000)
             [] losses > 0 /\ 10 * gains < 3 * both ->
                  SignalResult("Buy", (1000 * (3 * both - 10 * gains)) \div (3 * both))
             [] losses > 0 /\ 10 * gains > 7 * both ->
                  SignalResult("Sell", (1000 * (10 * gains - 7 * both)) \div (3 * both))
             [] OTHER -> Neutral

-----------------------------------------------------------------------------
(* ema.rs.                                                                 *)

\* The mean of the first closes, which moves towards each of the others.
EmaOf(closes, period) ==
  Smoothed([over |-> Total(SubSeq(closes, 1, period)), under |-> period],
           SubSeq(closes, period + 1, Len(closes)), period - 1, 2)

\* The difference of the averages, and the slow one, over a common denominator.
Crossing(closes) ==
  LET fast == EmaOf(closes, FastPeriod)
      slow == EmaOf(closes, SlowPeriod)
  IN  [gap |-> fast.over * slow.under - slow.over * fast.under,
       slow |-> slow.over * fast.under]

\* A spread of more than 0.5 %; at 5 % there is no doubt left.
Ema(closes) ==
  IF Len(closes) < SlowPeriod THEN Neutral
  ELSE LET c == Crossing(closes)
           confidence == (Abs(c.gap) * 20000) \div c.slow
       IN  CASE c.gap * 200 > c.slow  -> SignalResult("Buy", confidence)
             [] c.gap * 200 < -c.slow -> SignalResult("Sell", confidence)
             [] OTHER                 -> Neutral

-----------------------------------------------------------------------------
(* orderbook.rs, here and in crates/ingestion, which makes the book up from *)
(* price and liquidity: 20 levels a side, in twentieths of a size.         *)

Bids == [level \in 1 .. 20 |-> 21 - level]
Asks == [level \in 1 .. 20 |-> level]

OrderBook ==
  LET imbalance == (1000 * (Total(Bids) - Total(Asks))) \div (Total(Bids) + Total(Asks))
  IN  CASE imbalance > 150  -> SignalResult("Buy", imbalance)
        [] imbalance < -150 -> SignalResult("Sell", -imbalance)
        [] OTHER            -> Neutral

-----------------------------------------------------------------------------
(* onchain_flow.rs, and the whales that context_builder.rs picks from the   *)
(* queue of swaps.                                                         *)

\* The ETH a swap carries, in tens, valued at the pool's price; a swap whose direction
\* is not known is no buy.
Whale(swap, price) == [isBuy |-> swap.direction = "Buy", usd |-> swap.value * price,
                       weight |-> swap.weight]

\* By the places of their swaps in the queue.
Whales(swaps, price) ==
  [i \in {j \in DOMAIN swaps : Whale(swaps[j], price).usd >= WhaleThreshold}
     |-> Whale(swaps[i], price)]

Volume(whales, isBuy) ==
  Total([i \in DOMAIN whales |->
           IF whales[i].isBuy = isBuy THEN whales[i].usd * whales[i].weight ELSE 0])

\* The pool's price against the close before the last of the other market.
PriceMove(closes, price) ==
  IF Len(closes) >= 2 THEN price - closes[Len(closes) - 1] ELSE 0

\* Mutant: flow that the price absorbs is a reversal, and votes against itself.
OnchainFlowMut(whales, closes, price) ==
  LET buys  == Volume(whales, TRUE)
      sells == Volume(whales, FALSE)
      total == buys + sells
      cvd   == buys - sells
      move  == PriceMove(closes, price)
  IN  CASE 2 * cvd > total /\ move < 0  -> SignalResult("Sell", 900)
        [] 2 * cvd < -total /\ move > 0 -> SignalResult("Buy", 900)
        [] OTHER                        -> Neutral

\* Most of the flow on one side while the price moves to the other makes for a
\* fixed confidence; the share of the flow alone says which way to vote.
OnchainFlow(whales, closes, price) ==
  LET buys  == Volume(whales, TRUE)
      sells == Volume(whales, FALSE)
      total == buys + sells
      cvd   == buys - sells
      move  == PriceMove(closes, price)
      absorbed   == (2 * cvd > total /\ move < 0) \/ (2 * cvd < -total /\ move > 0)
      confidence == IF absorbed THEN 900 ELSE (1000 * Abs(cvd)) \div total
  IN  CASE 5 * cvd > total  -> SignalResult("Buy", confidence)
        [] 5 * cvd < -total -> SignalResult("Sell", confidence)
        [] OTHER            -> Neutral
=============================================================================
