----------------------------- MODULE Consensus ------------------------------
(***************************************************************************)
(* crates/consensus/src/engine.rs and the regime classifier it owns        *)
(* (crates/signals/src/volatility_regime.rs): whether the bot trades, and  *)
(* which way.                                                              *)
(*                                                                         *)
(* Each evaluation first classifies the volatility (ATR over price) and    *)
(* remembers it; once enough of them are remembered the thresholds follow  *)
(* their percentiles. If the regime lets trades pass, the signals vote.    *)
(* What the signals compute is free here; Strategy computes it. Volatility *)
(* is in millionths, confidence and size are in thousandths.               *)
(***************************************************************************)
EXTENDS Integers, Sequences, FiniteSets, Functions

CONSTANTS
  Signals,          \* the voters
  RequiredVotes,    \* consensus.required_votes
  MinConfidence,    \* consensus.min_confidence
  Confidences,      \* confidences of a directional vote
  Macros,           \* macro regimes of a context, NoMacro for none
  Volatilities,     \* values of atr_pct
  Capacity,         \* volatilities remembered: 100
  Warmup            \* volatilities the percentiles need: 50

ASSUME ConsensusConfig ==
  /\ IsFiniteSet(Signals) /\ RequiredVotes \in Nat /\ MinConfidence \in Nat
  /\ Confidences \subseteq 0 .. 1000 /\ Volatilities \subseteq Nat
  /\ Warmup \in Nat \ {0} /\ Capacity \in Nat /\ Warmup <= Capacity

VARIABLES
  prices,           \* "few" until the context has a full ATR period
  history,          \* atr_pct of the last evaluations, the oldest first
  regime,
  stage,            \* "classify", or "vote" while evaluate awaits the signals
  results,          \* the votes of this evaluation
  decision          \* its outcome

vars == <<prices, history, regime, stage, results, decision>>

Results == [vote : {"Buy", "Sell"}, confidence : Confidences]
             \union [vote : {"Neutral"}, confidence : {0}]

NoMacro == [size |-> -1, modifier |-> 1000]

Blocked(gate) == [action |-> "Neutral", agreeing |-> {}, size |-> 0, blockedBy |-> gate]

Pending == Blocked("none")
NoVotes == [s \in Signals |-> [vote |-> "Neutral", confidence |-> 0]]

Init ==
  /\ prices = "few" /\ history = <<>> /\ regime = "Ranging" /\ stage = "classify"
  /\ results = NoVotes /\ decision = Pending

-----------------------------------------------------------------------------
(* VolatilityRegimeSignal::classify.                                       *)

\* Mutant: nothing is forgotten.
RememberMut(atr) == Append(history, atr)

Remember(atr) ==
  Append(IF Len(history) >= Capacity THEN Tail(history) ELSE history, atr)

\* sorted[k]: more than k of the values are at most it, at most k are below it.
Ranked(seq, k) ==
  CHOOSE v \in {seq[i] : i \in DOMAIN seq} :
    /\ Cardinality({i \in DOMAIN seq : seq[i] < v}) <= k
    /\ Cardinality({i \in DOMAIN seq : seq[i] <= v}) > k

Between(atr, low, high) ==
  CASE atr < low                 -> "Ranging"
    [] atr >= low /\ atr <= high -> "Trending"
    [] atr >= low /\ atr > high  -> "Volatile"

\* Mutant: a volatility at the lower percentile counts as ranging.
ClassifiedMut(seq) ==
  LET atr == seq[Len(seq)]
  IN  IF Len(seq) < Warmup THEN Between(atr, 8000, 25000)
      ELSE IF atr <= Ranked(seq, Len(seq) \div 4) THEN "Ranging"
      ELSE Between(atr, Ranked(seq, Len(seq) \div 4), Ranked(seq, (3 * Len(seq)) \div 4))

Classified(seq) ==
  LET atr == seq[Len(seq)]
  IN  IF Len(seq) < Warmup THEN Between(atr, 8000, 25000)
      ELSE Between(atr, Ranked(seq, Len(seq) \div 4), Ranked(seq, (3 * Len(seq)) \div 4))

-----------------------------------------------------------------------------
(* ConsensusEngine::evaluate.                                              *)

Size(reg, macro) ==
  IF macro.size >= 0 THEN macro.size
  ELSE CASE reg = "Trending" -> 1000 [] reg = "Volatile" -> 500 [] reg = "Ranging" -> 0

Voters(votes, v) == {s \in Signals : votes[s].vote = v}
Sum(votes, voters) == SumFunctionOnSet([s \in Signals |-> votes[s].confidence], voters)

\* Confidences a thousandth apart on average decide a tie.
TieBreak(votes) ==
  LET buy  == Sum(votes, Voters(votes, "Buy"))
      sell == Sum(votes, Voters(votes, "Sell"))
      n    == Cardinality(Voters(votes, "Buy"))
  IN  CASE buy - sell < n /\ sell - buy < n -> "Neutral"
        [] buy - sell >= n                  -> "Buy"
        [] sell - buy >= n                  -> "Sell"

\* Mutant: without a majority, Buy wins a tie.
ActionTieMut(votes) ==
  LET n(v) == Cardinality(Voters(votes, v))
  IN  CASE n("Buy") >= RequiredVotes     -> "Buy"
        [] n("Sell") >= RequiredVotes    -> "Sell"
        [] n("Neutral") >= RequiredVotes -> "Neutral"
        [] OTHER                         -> IF n("Buy") >= n("Sell") THEN "Buy" ELSE "Sell"

\* Majorities are looked for in the order Buy, Sell, Neutral; then the larger
\* side wins, however few it is.
Action(votes) ==
  LET n(v) == Cardinality(Voters(votes, v))
      Short == \A v \in {"Buy", "Sell", "Neutral"} : n(v) < RequiredVotes
  IN  CASE n("Buy") >= RequiredVotes                                -> "Buy"
        [] n("Buy") < RequiredVotes /\ n("Sell") >= RequiredVotes   -> "Sell"
        [] n("Buy") < RequiredVotes /\ n("Sell") < RequiredVotes
             /\ n("Neutral") >= RequiredVotes                       -> "Neutral"
        [] Short /\ n("Buy") = n("Sell") /\ n("Buy") > 0            -> TieBreak(votes)
        [] Short /\ n("Buy") > n("Sell")                            -> "Buy"
        [] Short /\ n("Sell") > n("Buy")                            -> "Sell"
        [] OTHER                                                    -> "Neutral"

\* The signals that agree; a tie leaves none.
Agreeing(votes) ==
  IF Action(votes) = "Neutral" /\ Cardinality(Voters(votes, "Neutral")) < RequiredVotes
  THEN {} ELSE Voters(votes, Action(votes))

\* avg_confidence < min_confidence.
Unsure(votes, macro) ==
  Sum(votes, Agreeing(votes)) * macro.modifier
    < MinConfidence * 1000 * Cardinality(Agreeing(votes))

\* Mutant: the confidence gate judges all votes, not those that agree.
DecidedMut(votes, size, macro) ==
  IF Action(votes) # "Neutral"
     /\ Sum(votes, Signals) * macro.modifier < MinConfidence * 1000 * Cardinality(Agreeing(votes))
  THEN Blocked("ConfidenceGate")
  ELSE [action |-> Action(votes), agreeing |-> Agreeing(votes), size |-> size,
        blockedBy |-> "none"]

Decided(votes, size, macro) ==
  IF Action(votes) # "Neutral" /\ Unsure(votes, macro) THEN Blocked("ConfidenceGate")
  ELSE [action |-> Action(votes), agreeing |-> Agreeing(votes), size |-> size,
        blockedBy |-> "none"]

-----------------------------------------------------------------------------
\* The price feed fills the series, which never shrinks again.
SeriesFills ==
  /\ prices = "few" /\ prices' = "enough"
  /\ UNCHANGED <<history, regime, stage, results, decision>>

\* Too few prices count as ranging and are not remembered.
ClassifyNothing ==
  /\ stage = "classify" /\ prices = "few"
  /\ regime' = "Ranging" /\ stage' = "vote"
  /\ results' = NoVotes /\ decision' = Pending
  /\ UNCHANGED <<prices, history>>

Classify ==
  /\ stage = "classify" /\ prices = "enough"
  /\ \E atr \in Volatilities : history' = Remember(atr)
  /\ regime' = Classified(history') /\ stage' = "vote"
  /\ results' = NoVotes /\ decision' = Pending
  /\ UNCHANGED prices

GateBlocks ==
  /\ stage = "vote" /\ stage' = "classify"
  /\ \E macro \in Macros : Size(regime, macro) <= 0
  /\ decision' = Blocked("RegimeGate")
  /\ UNCHANGED <<prices, history, regime, results>>

Vote ==
  /\ stage = "vote" /\ stage' = "classify"
  /\ results' \in [Signals -> Results]
  /\ \E macro \in Macros :
       /\ Size(regime, macro) > 0
       /\ decision' = Decided(results', Size(regime, macro), macro)
  /\ UNCHANGED <<prices, history, regime>>

Evaluate == ClassifyNothing \/ Classify \/ GateBlocks \/ Vote

Next == SeriesFills \/ Evaluate

Safety == Init /\ [][Next]_vars

\* The trading loop evaluates again and again.
Spec == Safety /\ WF_vars(Evaluate)

-----------------------------------------------------------------------------
TypeOK ==
  /\ prices \in {"few", "enough"}
  /\ history \in Seq(Volatilities) /\ Len(history) <= Capacity
  /\ regime \in {"Ranging", "Trending", "Volatile"}
  /\ stage \in {"classify", "vote"}
  /\ results \in [Signals -> Results]
  /\ decision.agreeing \subseteq Signals
  /\ decision.blockedBy \in {"none", "RegimeGate", "ConfidenceGate"}

Against(action) == IF action = "Buy" THEN "Sell" ELSE "Buy"

\* A trade is never outvoted, and the signals behind it are confident enough by
\* themselves, for macro regimes that do not raise confidence.
TradesAreBacked ==
  decision.action # "Neutral" =>
    LET backers == Voters(results, decision.action)
    IN  /\ decision.agreeing = backers
        /\ Cardinality(backers) >= Cardinality(Voters(results, Against(decision.action)))
        /\ Sum(results, backers) >= MinConfidence * Cardinality(backers)

Mirrored(votes) ==
  [s \in Signals |-> IF votes[s].vote = "Neutral" THEN votes[s]
                     ELSE [votes[s] EXCEPT !.vote = Against(@)]]

\* No side of the market is preferred: mirrored votes give the mirrored action,
\* although majorities are looked for in a fixed order.
NeitherSideFavoured ==
  Action(Mirrored(results)) =
    IF Action(results) = "Neutral" THEN "Neutral" ELSE Against(Action(results))

\* Once prices arrive, the adaptive gate does not block for ever: whatever the
\* volatility does, it is again and again among the upper three quarters of what
\* is remembered.
RegimeGateReopens == prices = "enough" ~> regime # "Ranging"
=============================================================================
