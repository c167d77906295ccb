--------------------------- MODULE StrategyProofs ---------------------------
(***************************************************************************)
(* Theorems about Consensus, for any number of signals, any confidences,   *)
(* any volatilities and any length of the history; then about the four     *)
(* signals of VotingSignals, for any periods and any series of closes; and *)
(* last about Strategy, which lets the engine vote on what they compute    *)
(* and so implements Consensus.                                            *)
(*                                                                         *)
(* Some of them need what the configuration gives and the code does not    *)
(* check: that required_votes is more than half of the signals, without    *)
(* which both sides can have their votes and Buy is looked for first.      *)
(***************************************************************************)
EXTENDS Strategy, SumTheorems

\* required_votes is a majority: 3 of 4 in config/default.toml.
Majority == 2 * RequiredVotes > Cardinality(Signals)

\* No macro regime raises the confidence of the votes.
NoneRaises == \A m \in Macros : m.modifier \in 0 .. 1000

Regimes == {"Ranging", "Trending", "Volatile"}

-----------------------------------------------------------------------------
(* The percentiles of the volatilities.                                    *)

\* The places of a sequence with a value of at most v, or below it, are finite.
LEMMA PlacesFinite ==
  ASSUME NEW seq \in Seq(Nat), NEW v
  PROVE  LET upto  == {i \in DOMAIN seq : seq[i] <= v}
             below == {i \in DOMAIN seq : seq[i] < v}
         IN  /\ IsFiniteSet(upto) /\ Cardinality(upto) \in Nat
             /\ IsFiniteSet(below) /\ Cardinality(below) \in Nat
  <1>1. IsFiniteSet(DOMAIN seq)
    BY FS_Interval
  <1>. QED BY <1>1, FS_Subset, FS_CardinalityType

\* The value of rank k is one of the sequence's.
LEMMA RankedIsOne ==
  ASSUME NEW seq \in Seq(Nat), NEW k \in 0 .. Len(seq) - 1
  PROVE  Ranked(seq, k) \in {seq[i] : i \in DOMAIN seq}
  <1>. DEFINE values   == {seq[i] : i \in DOMAIN seq}
              upto(v)  == {i \in DOMAIN seq : seq[i] <= v}
              below(v) == {i \in DOMAIN seq : seq[i] < v}
              P        == {v \in values : Cardinality(upto(v)) > k}
  <1>0. k \in Nat /\ k < Len(seq)
    OBVIOUS
  <1>1. DOMAIN seq = 1 .. Len(seq) /\ Len(seq) \in Nat \ {0} /\ \A i \in DOMAIN seq : seq[i] \in Nat
    OBVIOUS
  <1>2. values \subseteq Nat /\ values # {} /\ IsFiniteSet(values)
    <2>1. IsFiniteSet(DOMAIN seq)
      BY <1>1, FS_Interval
    <2>2. [i \in DOMAIN seq |-> seq[i]] \in Surjection(DOMAIN seq, values)
      BY DEF Surjection
    <2>3. IsFiniteSet(values)
      BY <2>1, <2>2, FS_Surjection
    <2>. QED BY <1>1, <2>3
  <1>3. P # {}
    <2>1. PICK v \in values : \A w \in values : w <= v
      <3>1. values \subseteq Int
        BY <1>2
      <3>. HIDE DEF values
      <3>. QED BY <1>2, <3>1, GreatestMember
    <2>2. upto(v) = DOMAIN seq
      BY <2>1
    <2>3. Cardinality(upto(v)) = Len(seq)
      <3>1. Cardinality(1 .. Len(seq)) = Len(seq)
        <4>1. 1 \in Int /\ Len(seq) \in Int /\ ~(1 > Len(seq)) /\ Len(seq) - 1 + 1 = Len(seq)
          BY <1>1
        <4>. HIDE DEF values, upto, below, P
        <4>. QED BY <4>1, FS_Interval
      <3>. QED BY <1>1, <2>2, <3>1
    <2>4. Cardinality(upto(v)) > k
      BY <1>0, <2>3
    <2>. QED BY <2>1, <2>4
  <1>4. PICK v \in P : \A w \in P : v <= w
    <2>1. P \subseteq Nat
      BY <1>2
    <2>. HIDE DEF P
    <2>. QED BY <2>1, <1>3, LeastNatural
  <1>5. Cardinality(below(v)) <= k
    <2>0. Cardinality(below(v)) \in Nat
      BY PlacesFinite
    <2>. SUFFICES ASSUME Cardinality(below(v)) > k PROVE FALSE
      BY <2>0, <1>0
    <2>. DEFINE lower == {w \in values : w < v}
    <2>1. below(v) # {}
      <3>1. ASSUME below(v) = {} PROVE Cardinality(below(v)) = 0
        BY <3>1, FS_EmptySet
      <3>. HIDE DEF below
      <3>. QED BY <3>1, <1>0
    <2>2. lower \subseteq Int /\ lower # {} /\ IsFiniteSet(lower)
      BY <1>2, <2>1, FS_Subset
    <2>3. PICK w \in lower : \A u \in lower : u <= w
      <3>. HIDE DEF lower
      <3>. QED BY <2>2, GreatestMember
    <2>4. below(v) \subseteq upto(w)
      BY <2>3
    <2>5. Cardinality(below(v)) <= Cardinality(upto(w))
      BY <2>4, PlacesFinite, FS_Subset
    <2>6. Cardinality(upto(w)) \in Nat /\ Cardinality(below(v)) \in Nat
      BY PlacesFinite
    <2>7. w \in P
      BY <1>0, <2>3, <2>5, <2>6
    <2>8. v \in Nat /\ w \in Nat /\ w < v /\ v <= w
      BY <1>2, <1>4, <2>3, <2>7
    <2>. QED BY <2>8
  <1>. QED BY <1>4, <1>5 DEF Ranked

\* A volatility has one regime, whichever thresholds are in force.
LEMMA ClassifiedType ==
  ASSUME NEW seq \in Seq(Nat), Len(seq) > 0
  PROVE  Classified(seq) \in Regimes
  <1>1. \A atr, low, high \in Int : Between(atr, low, high) \in Regimes
    BY DEF Between, Regimes
  <1>2. Len(seq) \in Nat /\ seq[Len(seq)] \in Int
    OBVIOUS
  <1>3. CASE Len(seq) < Warmup
    BY <1>1, <1>2, <1>3 DEF Classified
  <1>4. CASE ~(Len(seq) < Warmup)
    <2>1. Len(seq) \div 4 \in 0 .. Len(seq) - 1 /\ (3 * Len(seq)) \div 4 \in 0 .. Len(seq) - 1
      BY <1>2
    <2>2. \A v \in {seq[i] : i \in DOMAIN seq} : v \in Int
      OBVIOUS
    <2>3. /\ Ranked(seq, Len(seq) \div 4) \in Int
          /\ Ranked(seq, (3 * Len(seq)) \div 4) \in Int
      BY <2>1, <2>2, RankedIsOne
    <2>. QED BY <1>1, <1>2, <1>4, <2>3 DEF Classified
  <1>. QED BY <1>3, <1>4

\* Longer by one, and still of the set.
LEMMA AppendType ==
  ASSUME NEW S, NEW seq \in Seq(S), NEW e \in S
  PROVE  Append(seq, e) \in Seq(S) /\ Len(Append(seq, e)) = Len(seq) + 1
  OBVIOUS

\* What is remembered is bounded, and not empty.
LEMMA RememberType ==
  ASSUME TypeOK, NEW atr \in Volatilities
  PROVE  /\ Remember(atr) \in Seq(Volatilities)
         /\ Len(Remember(atr)) \in 1 .. Capacity
  <1>1. /\ history \in Seq(Volatilities) /\ Len(history) \in Nat /\ Len(history) <= Capacity
        /\ Capacity \in Nat \ {0}
    BY ConsensusConfig DEF TypeOK
  <1>2. CASE Len(history) >= Capacity
    <2>. DEFINE rest == Tail(history)
    <2>1. rest \in Seq(Volatilities) /\ Len(rest) = Len(history) - 1
      BY <1>1, <1>2
    <2>2. Remember(atr) = Append(rest, atr)
      BY <1>2 DEF Remember
    <2>. HIDE DEF rest
    <2>3. Append(rest, atr) \in Seq(Volatilities) /\ Len(Append(rest, atr)) = Len(rest) + 1
      BY <2>1, AppendType
    <2>. QED BY <2>1, <2>2, <2>3, <1>1, <1>2
  <1>3. CASE ~(Len(history) >= Capacity)
    <2>1. /\ Append(history, atr) \in Seq(Volatilities)
          /\ Len(Append(history, atr)) = Len(history) + 1
      BY <1>1, AppendType
    <2>2. Remember(atr) = Append(history, atr)
      BY <1>3 DEF Remember
    <2>. QED BY <2>1, <2>2, <1>1, <1>3
  <1>. QED BY <1>2, <1>3

\* Volatilities are naturals.
LEMMA HistoryType ==
  ASSUME NEW seq \in Seq(Volatilities)
  PROVE  seq \in Seq(Nat)
  <1>1. seq \in [1 .. Len(seq) -> Volatilities] /\ Len(seq) \in Nat
    OBVIOUS
  <1>2. seq \in [1 .. Len(seq) -> Nat]
    BY <1>1, ConsensusConfig
  <1>. QED BY <1>1, <1>2

-----------------------------------------------------------------------------
(* The votes.                                                              *)

\* The voters of every side can be counted, and both sides do not exceed the signals.
LEMMA VotersCount ==
  ASSUME NEW votes
  PROVE  /\ \A v : /\ Voters(votes, v) \subseteq Signals /\ IsFiniteSet(Voters(votes, v))
                   /\ Cardinality(Voters(votes, v)) \in Nat
         /\ Cardinality(Signals) \in Nat
         /\ Cardinality(Voters(votes, "Buy")) + Cardinality(Voters(votes, "Sell"))
              <= Cardinality(Signals)
  <1>. DEFINE B == Voters(votes, "Buy")
              S == Voters(votes, "Sell")
  <1>1. IsFiniteSet(Signals) /\ Cardinality(Signals) \in Nat
    BY ConsensusConfig, FS_CardinalityType
  <1>2. \A v : Voters(votes, v) \subseteq Signals /\ IsFiniteSet(Voters(votes, v))
    BY <1>1, FS_Subset DEF Voters
  <1>3. \A v : Cardinality(Voters(votes, v)) \in Nat
    BY <1>2, FS_CardinalityType
  <1>4. B \cap S = {} /\ B \union S \subseteq Signals
    BY DEF Voters
  <1>5. IsFiniteSet(B) /\ IsFiniteSet(S) /\ Cardinality(B) \in Nat /\ Cardinality(S) \in Nat
    BY <1>2, <1>3
  <1>6. Cardinality(B \union S) = Cardinality(B) + Cardinality(S)
    <2>. HIDE DEF B, S
    <2>1. /\ Cardinality(B \union S) = Cardinality(B) + Cardinality(S) - Cardinality(B \cap S)
          /\ Cardinality(B \cap S) = 0
      BY <1>4, <1>5, FS_Union, FS_EmptySet
    <2>. QED BY <2>1, <1>5
  <1>7. Cardinality(B \union S) <= Cardinality(Signals)
    <2>. HIDE DEF B, S
    <2>. QED BY <1>1, <1>4, FS_Subset
  <1>. QED BY <1>1, <1>2, <1>3, <1>6, <1>7

\* Confidences are naturals, and so is their sum.
LEMMA SumIsNat ==
  ASSUME NEW votes \in [Signals -> Results], NEW voters \in SUBSET Signals
  PROVE  Sum(votes, voters) \in Nat
  <1>1. \A s \in Signals : votes[s] \in Results
    OBVIOUS
  <1>2. \A r \in Results : r.confidence \in Nat
    <2>1. Confidences \subseteq Nat
      BY ConsensusConfig
    <2>2. \A r \in [vote : {"Buy", "Sell"}, confidence : Confidences] : r.confidence \in Nat
      BY <2>1
    <2>3. \A r \in [vote : {"Neutral"}, confidence : {0}] : r.confidence \in Nat
      OBVIOUS
    <2>. QED BY <2>2, <2>3 DEF Results
  <1>. DEFINE fun == [s \in Signals |-> votes[s].confidence]
  <1>3. \A s \in voters : fun[s] \in Nat
    BY <1>1, <1>2
  <1>4. IsFiniteSet(voters)
    BY ConsensusConfig, FS_Subset
  <1>5. SumFunctionOnSet(fun, voters) \in Nat
    <2>. HIDE DEF fun
    <2>. QED BY <1>3, <1>4, SumType
  <1>. QED BY <1>5 DEF Sum

\* A tie is decided one way.
LEMMA TieBreakType ==
  ASSUME NEW votes \in [Signals -> Results]
  PROVE  TieBreak(votes) \in {"Buy", "Sell", "Neutral"}
  <1>1. Sum(votes, Voters(votes, "Buy")) \in Nat /\ Sum(votes, Voters(votes, "Sell")) \in Nat
    BY VotersCount, SumIsNat
  <1>2. Cardinality(Voters(votes, "Buy")) \in Nat
    BY VotersCount
  <1>. QED BY <1>1, <1>2 DEF TieBreak

\* There is one action, and with a majority required it has no fewer voters
\* than the opposite one.
LEMMA ActionType ==
  ASSUME NEW votes \in [Signals -> Results]
  PROVE  /\ Action(votes) \in {"Buy", "Sell", "Neutral"}
         /\ Majority /\ Action(votes) # "Neutral" =>
              Cardinality(Voters(votes, Action(votes)))
                >= Cardinality(Voters(votes, Against(Action(votes))))
  <1>. DEFINE n(v) == Cardinality(Voters(votes, v))
  <1>1. /\ n("Buy") \in Nat /\ n("Sell") \in Nat /\ n("Neutral") \in Nat
        /\ Cardinality(Signals) \in Nat /\ n("Buy") + n("Sell") <= Cardinality(Signals)
        /\ RequiredVotes \in Nat
    BY VotersCount, ConsensusConfig
  <1>2. TieBreak(votes) \in {"Buy", "Sell", "Neutral"}
    BY TieBreakType
  <1>3. CASE n("Buy") >= RequiredVotes
    <2>1. Action(votes) = "Buy"
      BY <1>1, <1>3 DEF Action
    <2>. QED BY <1>1, <1>3, <2>1 DEF Majority, Against
  <1>4. CASE n("Buy") < RequiredVotes /\ n("Sell") >= RequiredVotes
    <2>1. Action(votes) = "Sell"
      BY <1>1, <1>4 DEF Action
    <2>. QED BY <1>1, <1>4, <2>1 DEF Majority, Against
  <1>5. CASE n("Buy") < RequiredVotes /\ n("Sell") < RequiredVotes /\ n("Neutral") >= RequiredVotes
    BY <1>1, <1>5 DEF Action
  <1>6. CASE \A v \in {"Buy", "Sell", "Neutral"} : n(v) < RequiredVotes
    <2>1. CASE n("Buy") = n("Sell") /\ n("Buy") > 0
      <3>1. Action(votes) = TieBreak(votes)
        BY <1>1, <1>6, <2>1 DEF Action
      <3>. QED BY <1>1, <1>2, <2>1, <3>1 DEF Against
    <2>2. CASE n("Buy") > n("Sell")
      <3>1. Action(votes) = "Buy"
        BY <1>1, <1>6, <2>2 DEF Action
      <3>. QED BY <1>1, <2>2, <3>1 DEF Against
    <2>3. CASE n("Sell") > n("Buy")
      <3>1. Action(votes) = "Sell"
        BY <1>1, <1>6, <2>3 DEF Action
      <3>. QED BY <1>1, <2>3, <3>1 DEF Against
    <2>4. CASE n("Buy") = 0 /\ n("Sell") = 0
      BY <1>1, <1>6, <2>4 DEF Action
    <2>. QED BY <1>1, <2>1, <2>2, <2>3, <2>4
  <1>. QED BY <1>1, <1>3, <1>4, <1>5, <1>6

-----------------------------------------------------------------------------
(* The invariant: the decision is what the votes at hand led to. The       *)
(* properties of a trade are then properties of Decided.                   *)

Reached ==
  \/ decision.action = "Neutral"
  \/ \E macro \in Macros : decision = Decided(results, Size(regime, macro), macro)

IInv == TypeOK /\ Reached

LEMMA InitIInv == Init => IInv
  <1>. SUFFICES ASSUME Init PROVE IInv
    OBVIOUS
  <1>1. <<>> \in Seq(Volatilities) /\ Len(<<>>) <= Capacity
    BY ConsensusConfig
  <1>2. NoVotes \in [Signals -> Results]
    BY DEF NoVotes, Results
  <1>. QED BY <1>1, <1>2 DEF Init, IInv, TypeOK, Reached, Pending, Blocked

\* A decision names signals, and the gate that stopped it.
LEMMA DecidedType ==
  ASSUME NEW votes \in [Signals -> Results], NEW size, NEW macro
  PROVE  /\ Decided(votes, size, macro).agreeing \subseteq Signals
         /\ Decided(votes, size, macro).blockedBy \in {"none", "RegimeGate", "ConfidenceGate"}
  <1>1. Agreeing(votes) \subseteq Signals
    BY VotersCount DEF Agreeing
  <1>. QED BY <1>1 DEF Decided, Blocked

LEMMA NextIInv == IInv /\ [Next]_vars => IInv'
  <1>. SUFFICES ASSUME IInv, [Next]_vars PROVE IInv'
    OBVIOUS
  <1>0. TypeOK /\ Reached
    BY DEF IInv
  <1>1. CASE SeriesFills
    BY <1>0, <1>1 DEF SeriesFills, IInv, TypeOK, Reached
  <1>2. CASE ClassifyNothing
    <2>1. NoVotes \in [Signals -> Results]
      BY DEF NoVotes, Results
    <2>. QED BY <1>0, <1>2, <2>1 DEF ClassifyNothing, IInv, TypeOK, Reached, Pending, Blocked
  <1>3. CASE Classify
    <2>1. NoVotes \in [Signals -> Results]
      BY DEF NoVotes, Results
    <2>2. PICK atr \in Volatilities : history' = Remember(atr)
      BY <1>3 DEF Classify
    <2>3. history' \in Seq(Volatilities) /\ Len(history') \in 1 .. Capacity
      BY <1>0, <2>2, RememberType
    <2>4. Len(history') <= Capacity /\ Len(history') > 0
      BY <2>3, ConsensusConfig
    <2>5. regime' \in Regimes
      <3>1. history' \in Seq(Nat)
        BY <2>3, HistoryType
      <3>. QED BY <1>3, <2>4, <3>1, ClassifiedType DEF Classify
    <2>. QED BY <1>0, <1>3, <2>1, <2>3, <2>4, <2>5
           DEF Classify, IInv, TypeOK, Reached, Pending, Blocked, Regimes
  <1>4. CASE GateBlocks
    BY <1>0, <1>4 DEF GateBlocks, IInv, TypeOK, Reached, Blocked
  <1>5. CASE Vote
    <2>1. PICK macro \in Macros : decision' = Decided(results', Size(regime, macro), macro)
      BY <1>5 DEF Vote
    <2>2. results' \in [Signals -> Results]
      BY <1>5 DEF Vote
    <2>3. /\ decision'.agreeing \subseteq Signals
          /\ decision'.blockedBy \in {"none", "RegimeGate", "ConfidenceGate"}
      BY <2>1, <2>2, DecidedType
    <2>4. TypeOK'
      BY <1>0, <1>5, <2>2, <2>3 DEF Vote, TypeOK
    <2>5. Reached'
      BY <1>5, <2>1 DEF Vote, Reached
    <2>. QED BY <2>4, <2>5 DEF IInv
  <1>6. CASE UNCHANGED vars
    BY <1>0, <1>6 DEF vars, IInv, TypeOK, Reached
  <1>. QED BY <1>1, <1>2, <1>3, <1>4, <1>5, <1>6 DEF Next, Evaluate

\* The decision of an evaluation is the outcome of the votes it collected.
THEOREM Invariant == Spec => []IInv
  BY InitIInv, NextIInv, PTL DEF Spec, Safety

\* The state keeps its types: the history of volatilities stays within its
\* capacity, every one of them has a regime, and every vote leads to a decision.
THEOREM TypeCorrect == Spec => []TypeOK
  BY Invariant, PTL DEF IInv

-----------------------------------------------------------------------------
(* Trades are backed.                                                      *)

\* A modifier of at most one makes no sum pass a bound it does not pass itself.
LEMMA ModifierLowers ==
  ASSUME NEW sum \in Nat, NEW modifier \in 0 .. 1000, NEW bound \in Nat,
         ~(sum * modifier < bound * 1000)
  PROVE  sum >= bound
  <1>1. sum * modifier <= sum * 1000
    OBVIOUS
  <1>2. sum * modifier \in Nat /\ sum * 1000 \in Nat /\ bound * 1000 \in Nat
    OBVIOUS
  <1>3. sum * 1000 >= bound * 1000
    BY <1>1, <1>2
  <1>. QED BY <1>3

\* What Decided says of a trade.
LEMMA DecidedBacked ==
  ASSUME Majority, NEW votes \in [Signals -> Results], NEW size,
         NEW macro, macro.modifier \in 0 .. 1000,
         Decided(votes, size, macro).action # "Neutral"
  PROVE  LET action  == Decided(votes, size, macro).action
             backers == Voters(votes, action)
         IN  /\ Decided(votes, size, macro).agreeing = backers
             /\ Cardinality(backers) >= Cardinality(Voters(votes, Against(action)))
             /\ Sum(votes, backers) >= MinConfidence * Cardinality(backers)
  <1>. DEFINE backers == Voters(votes, Action(votes))
  <1>1. ~(Action(votes) # "Neutral" /\ Unsure(votes, macro))
    BY DEF Decided, Blocked
  <1>2. /\ Decided(votes, size, macro).action = Action(votes)
        /\ Decided(votes, size, macro).agreeing = Agreeing(votes)
    BY <1>1 DEF Decided
  <1>3. Action(votes) # "Neutral" /\ Agreeing(votes) = backers /\ ~Unsure(votes, macro)
    BY <1>1, <1>2 DEF Agreeing
  <1>4. Cardinality(backers) >= Cardinality(Voters(votes, Against(Action(votes))))
    BY <1>3, ActionType
  <1>5. Sum(votes, backers) >= MinConfidence * Cardinality(backers)
    <2>. DEFINE sum == Sum(votes, backers)
                card == Cardinality(backers)
    <2>1. sum \in Nat /\ card \in Nat /\ MinConfidence \in Nat /\ macro.modifier \in 0 .. 1000
      BY VotersCount, SumIsNat, ConsensusConfig
    <2>2. ~(sum * macro.modifier < MinConfidence * 1000 * card)
      BY <1>3 DEF Unsure
    <2>. HIDE DEF sum, card
    <2>3. MinConfidence * 1000 * card = (MinConfidence * card) * 1000
      BY <2>1
    <2>4. MinConfidence * card \in Nat
      BY <2>1
    <2>5. sum >= MinConfidence * card
      BY <2>1, <2>2, <2>3, <2>4, ModifierLowers
    <2>. QED BY <2>5 DEF sum, card
  <1>. QED BY <1>2, <1>3, <1>4, <1>5

\* With a majority required and no macro regime that raises confidence, a trade
\* is never outvoted, and its backers are confident enough by themselves.
THEOREM TradesBacked ==
  ASSUME Majority, NoneRaises
  PROVE  Spec => []TradesAreBacked
  <1>1. IInv => TradesAreBacked
    <2>. SUFFICES ASSUME IInv, decision.action # "Neutral" PROVE TradesAreBacked
      BY DEF TradesAreBacked
    <2>1. results \in [Signals -> Results]
      BY DEF IInv, TypeOK
    <2>2. PICK macro \in Macros : decision = Decided(results, Size(regime, macro), macro)
      BY DEF IInv, Reached
    <2>. QED BY <2>1, <2>2, DecidedBacked DEF TradesAreBacked, NoneRaises
  <1>. QED BY <1>1, Invariant, PTL

-----------------------------------------------------------------------------
(* Neither side is favoured.                                               *)

\* Mirrored votes exchange the voters of the two sides, with their confidences.
LEMMA MirroredVotes ==
  ASSUME NEW votes \in [Signals -> Results]
  PROVE  /\ Voters(Mirrored(votes), "Buy") = Voters(votes, "Sell")
         /\ Voters(Mirrored(votes), "Sell") = Voters(votes, "Buy")
         /\ Voters(Mirrored(votes), "Neutral") = Voters(votes, "Neutral")
         /\ \A voters : Sum(Mirrored(votes), voters) = Sum(votes, voters)
  <1>. DEFINE mirrored == Mirrored(votes)
  <1>1. ASSUME NEW s \in Signals
        PROVE  /\ mirrored[s].confidence = votes[s].confidence
               /\ mirrored[s].vote = "Buy" <=> votes[s].vote = "Sell"
               /\ mirrored[s].vote = "Sell" <=> votes[s].vote = "Buy"
               /\ mirrored[s].vote = "Neutral" <=> votes[s].vote = "Neutral"
    <2>1. /\ votes[s] \in [vote : {"Buy", "Sell"}, confidence : Confidences]
                            \union [vote : {"Neutral"}, confidence : {0}]
      BY DEF Results
    <2>2. mirrored[s] = IF votes[s].vote = "Neutral" THEN votes[s]
                        ELSE [votes[s] EXCEPT !.vote = Against(@)]
      BY DEF Mirrored
    <2>3. CASE votes[s].vote = "Neutral"
      BY <2>2, <2>3
    <2>4. CASE votes[s].vote # "Neutral"
      <3>1. votes[s] \in [vote : {"Buy", "Sell"}, confidence : Confidences]
        BY <2>1, <2>4
      <3>2. mirrored[s] = [vote |-> Against(votes[s].vote), confidence |-> votes[s].confidence]
        BY <2>2, <2>4, <3>1
      <3>. QED BY <3>1, <3>2 DEF Against
    <2>. QED BY <2>3, <2>4
  <1>2. [s \in Signals |-> mirrored[s].confidence] = [s \in Signals |-> votes[s].confidence]
    BY <1>1
  <1>. HIDE DEF mirrored
  <1>3. \A voters : Sum(mirrored, voters) = Sum(votes, voters)
    BY <1>2 DEF Sum
  <1>. QED BY <1>1, <1>3 DEF Voters, mirrored

LEMMA ActionMirrored ==
  ASSUME Majority, NEW votes \in [Signals -> Results]
  PROVE  Action(Mirrored(votes)) =
           IF Action(votes) = "Neutral" THEN "Neutral" ELSE Against(Action(votes))
  <1>. DEFINE n(v)        == Cardinality(Voters(votes, v))
              mirrored    == Mirrored(votes)
              m(v)        == Cardinality(Voters(mirrored, v))
  <1>1. /\ n("Buy") \in Nat /\ n("Sell") \in Nat /\ n("Neutral") \in Nat
        /\ n("Buy") + n("Sell") < 2 * RequiredVotes
        /\ RequiredVotes \in Nat
    <2>1. Cardinality(Signals) < 2 * RequiredVotes /\ Cardinality(Signals) \in Nat
      BY VotersCount, ConsensusConfig DEF Majority
    <2>2. RequiredVotes \in Nat
      BY ConsensusConfig
    <2>. QED BY <2>1, <2>2, VotersCount
  <1>2. m("Buy") = n("Sell") /\ m("Sell") = n("Buy") /\ m("Neutral") = n("Neutral")
    BY MirroredVotes
  <1>3. CASE n("Buy") >= RequiredVotes
    <2>1. Action(votes) = "Buy"
      BY <1>1, <1>3 DEF Action
    <2>2. m("Buy") < RequiredVotes /\ m("Sell") >= RequiredVotes
      BY <1>1, <1>2, <1>3
    <2>3. Action(mirrored) = "Sell"
      BY <1>1, <1>2, <2>2 DEF Action
    <2>. QED BY <2>1, <2>3 DEF Against
  <1>4. CASE n("Sell") >= RequiredVotes
    <2>1. n("Buy") < RequiredVotes
      BY <1>1, <1>4
    <2>2. Action(votes) = "Sell"
      BY <1>1, <1>4, <2>1 DEF Action
    <2>3. Action(mirrored) = "Buy"
      BY <1>1, <1>2, <1>4 DEF Action
    <2>. QED BY <2>2, <2>3 DEF Against
  <1>5. CASE n("Buy") < RequiredVotes /\ n("Sell") < RequiredVotes /\ n("Neutral") >= RequiredVotes
    <2>1. Action(votes) = "Neutral"
      BY <1>1, <1>5 DEF Action
    <2>2. Action(mirrored) = "Neutral"
      BY <1>1, <1>2, <1>5 DEF Action
    <2>. QED BY <2>1, <2>2
  <1>6. CASE \A v \in {"Buy", "Sell", "Neutral"} : n(v) < RequiredVotes
    <2>0. \A v \in {"Buy", "Sell", "Neutral"} : m(v) < RequiredVotes
      BY <1>2, <1>6
    <2>1. CASE n("Buy") = n("Sell") /\ n("Buy") > 0
      <3>1. Action(votes) = TieBreak(votes)
        BY <1>1, <1>6, <2>1 DEF Action
      <3>2. Action(mirrored) = TieBreak(mirrored)
        BY <1>1, <1>2, <2>0, <2>1 DEF Action
      <3>. DEFINE buy  == Sum(votes, Voters(votes, "Buy"))
                  sell == Sum(votes, Voters(votes, "Sell"))
      <3>3. buy \in Nat /\ sell \in Nat
        BY VotersCount, SumIsNat
      <3>4. /\ Sum(mirrored, Voters(mirrored, "Buy")) = sell
            /\ Sum(mirrored, Voters(mirrored, "Sell")) = buy
        BY MirroredVotes
      <3>5. TieBreak(votes) = CASE buy - sell < n("Buy") /\ sell - buy < n("Buy") -> "Neutral"
                                [] buy - sell >= n("Buy")                         -> "Buy"
                                [] sell - buy >= n("Buy")                         -> "Sell"
        BY DEF TieBreak
      <3>6. TieBreak(mirrored) = CASE sell - buy < n("Buy") /\ buy - sell < n("Buy") -> "Neutral"
                                   [] sell - buy >= n("Buy")                         -> "Buy"
                                   [] buy - sell >= n("Buy")                         -> "Sell"
        BY <1>2, <2>1, <3>4 DEF TieBreak
      <3>. HIDE DEF buy, sell, n, m, mirrored
      <3>. QED BY <1>1, <2>1, <3>1, <3>2, <3>3, <3>5, <3>6 DEF Against, mirrored
    <2>2. CASE n("Buy") > n("Sell")
      <3>1. Action(votes) = "Buy"
        BY <1>1, <1>6, <2>2 DEF Action
      <3>2. Action(mirrored) = "Sell"
        BY <1>1, <1>2, <2>0, <2>2 DEF Action
      <3>. QED BY <3>1, <3>2 DEF Against
    <2>3. CASE n("Sell") > n("Buy")
      <3>1. Action(votes) = "Sell"
        BY <1>1, <1>6, <2>3 DEF Action
      <3>2. Action(mirrored) = "Buy"
        BY <1>1, <1>2, <2>0, <2>3 DEF Action
      <3>. QED BY <3>1, <3>2 DEF Against
    <2>4. CASE n("Buy") = 0 /\ n("Sell") = 0
      <3>1. Action(votes) = "Neutral"
        BY <1>1, <1>6, <2>4 DEF Action
      <3>2. Action(mirrored) = "Neutral"
        BY <1>1, <1>2, <2>0, <2>4 DEF Action
      <3>. QED BY <3>1, <3>2
    <2>. QED BY <1>1, <2>1, <2>2, <2>3, <2>4
  <1>. QED BY <1>1, <1>3, <1>4, <1>5, <1>6

\* With a majority required, mirrored votes give the mirrored action, although
\* evaluate looks for a majority of buyers before one of sellers.
THEOREM NeitherFavoured ==
  ASSUME Majority
  PROVE  Spec => []NeitherSideFavoured
  <1>1. IInv => NeitherSideFavoured
    <2>. SUFFICES ASSUME IInv PROVE NeitherSideFavoured
      OBVIOUS
    <2>1. results \in [Signals -> Results]
      BY DEF IInv, TypeOK
    <2>. QED BY <2>1, ActionMirrored DEF NeitherSideFavoured
  <1>. QED BY <1>1, Invariant, PTL

-----------------------------------------------------------------------------
(* Averages that move towards one value after the other.                   *)

Averages == [over : Nat, under : Nat \ {0}]

\* avg[i] is the average after i of the values.
Follows(avg, first, values, old, new) ==
  /\ avg[0] = first
  /\ \A i \in 1 .. Len(values) : avg[i] = Blend(avg[i - 1], values[i], old, new)

\* The recursion of Smoothed has a solution, which goes from value to value.
LEMMA SmoothedFollows ==
  ASSUME NEW first, NEW values, Len(values) \in Nat, NEW old, NEW new
  PROVE  \E avg : /\ Follows(avg, first, values, old, new)
                  /\ Smoothed(first, values, old, new) = avg[Len(values)]
  <1>. DEFINE n == Len(values)
              After(g, i) == IF i = 0 THEN first ELSE Blend(g[i - 1], values[i], old, new)
              Solves(g, k) == g = [i \in 0 .. k |-> After(g, i)]
              P == {k \in Nat : \E g : Solves(g, k)}
  <1>. HIDE DEF n
  <1>1. 0 \in P
    <2>1. Solves([i \in 0 .. 0 |-> first], 0)
      OBVIOUS
    <2>. QED BY <2>1
  <1>2. ASSUME NEW k \in Nat, k \in P PROVE k + 1 \in P
    <2>1. PICK g : Solves(g, k)
      BY <1>2
    <2>. DEFINE h == [i \in 0 .. k + 1 |-> After(g, i)]
    <2>2. ASSUME NEW i \in 0 .. k PROVE h[i] = g[i]
      <3>1. i \in 0 .. k + 1 /\ g[i] = After(g, i)
        BY <2>1
      <3>. QED BY <3>1
    <2>3. ASSUME NEW i \in 0 .. k + 1 PROVE After(h, i) = After(g, i)
      <3>1. CASE i = 0
        BY <3>1
      <3>2. CASE i # 0
        <4>1. i - 1 \in 0 .. k
          BY <3>2
        <4>2. h[i - 1] = g[i - 1]
          BY <2>2, <4>1
        <4>. QED BY <3>2, <4>2
      <3>. QED BY <3>1, <3>2
    <2>4. h = [i \in 0 .. k + 1 |-> After(h, i)]
      BY <2>3
    <2>5. Solves(h, k + 1)
      BY <2>4
    <2>6. \E f : Solves(f, k + 1)
      <3>. HIDE DEF h, Solves
      <3>. QED BY <2>5
    <2>. QED BY <2>6
  <1>3. n \in P
    <2>1. Nat \subseteq P
      <3>. HIDE DEF P
      <3>. QED BY <1>1, <1>2, NaturalsClosed
    <2>. QED BY <2>1 DEF n
  <1>. DEFINE avg == CHOOSE g : Solves(g, n)
  <1>4. Solves(avg, n)
    BY <1>3
  <1>5. Smoothed(first, values, old, new) = avg[n]
    BY DEF Smoothed, n
  <1>. HIDE DEF avg
  <1>6. \A i \in 0 .. n : avg[i] = After(avg, i)
    BY <1>4
  <1>7. Follows(avg, first, values, old, new)
    BY <1>6 DEF Follows, n
  <1>. QED BY <1>5, <1>7 DEF n

\* Averages of naturals are averages, and what starts positive stays so while
\* a part of the old average is kept.
LEMMA FollowsType ==
  ASSUME NEW first \in Averages, NEW values \in Seq(Nat), NEW old \in Nat, NEW new \in Nat \ {0},
         NEW avg, Follows(avg, first, values, old, new)
  PROVE  \A i \in 0 .. Len(values) :
           /\ avg[i] \in Averages
           /\ first.over > 0 /\ old > 0 => avg[i].over > 0
  <1>. DEFINE Right(i) == /\ avg[i] \in Averages
                          /\ first.over > 0 /\ old > 0 => avg[i].over > 0
              P == {i \in Nat : i <= Len(values) => Right(i)}
  <1>1. 0 \in P
    BY DEF Follows
  <1>2. ASSUME NEW i \in Nat, i \in P PROVE i + 1 \in P
    <2>. SUFFICES ASSUME i + 1 <= Len(values) PROVE Right(i + 1)
      OBVIOUS
    <2>1. Right(i) /\ i + 1 \in 1 .. Len(values) /\ values[i + 1] \in Nat
      BY <1>2
    <2>2. avg[i + 1] = Blend(avg[i], values[i + 1], old, new)
      <3>1. (i + 1) - 1 = i
        OBVIOUS
      <3>. QED BY <2>1, <3>1 DEF Follows
    <2>. DEFINE o == avg[i].over
                u == avg[i].under
                v == values[i + 1]
    <2>3. o \in Nat /\ u \in Nat \ {0} /\ v \in Nat /\ (first.over > 0 /\ old > 0 => o > 0)
      BY <2>1 DEF Averages
    <2>4. avg[i + 1] = [over |-> old * o + new * v * u, under |-> (old + new) * u]
      BY <2>2 DEF Blend
    <2>. HIDE DEF o, u, v
    <2>5. old * o \in Nat /\ new * v * u \in Nat /\ (old + new) * u \in Nat \ {0}
      BY <2>3
    <2>6. old > 0 /\ o > 0 => old * o > 0
      BY <2>3
    <2>. QED BY <2>3, <2>4, <2>5, <2>6 DEF Averages
  <1>. HIDE DEF P
  <1>3. Nat \subseteq P
    BY <1>1, <1>2, NaturalsClosed
  <1>. QED BY <1>3 DEF P

-----------------------------------------------------------------------------
(* What the signals compute is a vote.                                     *)

\* A total of naturals is a natural, and none of them exceeds it.
LEMMA TotalType ==
  ASSUME NEW D, IsFiniteSet(D), NEW fun \in [D -> Nat]
  PROVE  Total(fun) \in Nat /\ \A x \in D : fun[x] <= Total(fun)
  <1>1. Total(fun) = SumFunctionOnSet(fun, D)
    BY DEF Total, SumFunction
  <1>2. \A x \in D : fun[x] \in Nat
    OBVIOUS
  <1>3. SumFunctionOnSet(fun, D) \in Nat
    BY <1>2, SumType
  <1>4. ASSUME NEW x \in D PROVE fun[x] <= SumFunctionOnSet(fun, D)
    <2>1. SumFunctionOnSet(fun, D) = fun[x] + SumFunctionOnSet(fun, D \ {x})
      BY <1>2, SumRemove
    <2>2. IsFiniteSet(D \ {x}) /\ \A y \in D \ {x} : fun[y] \in Nat
      BY <1>2, FS_Subset
    <2>3. SumFunctionOnSet(fun, D \ {x}) \in Nat
      BY <2>2, SumType
    <2>. QED BY <1>2, <2>1, <2>3
  <1>. QED BY <1>1, <1>3, <1>4

\* A confidence is clamped, and every one up to 1.0 is taken.
LEMMA SignalResultType ==
  /\ \A v \in {"Buy", "Sell"}, c \in Nat : SignalResult(v, c) \in Results
  /\ Neutral \in Results
  <1>1. ASSUME NEW v \in {"Buy", "Sell"}, NEW c \in Nat PROVE SignalResult(v, c) \in Results
    <2>1. (IF c > 1000 THEN 1000 ELSE c) \in 0 .. 1000
      OBVIOUS
    <2>2. 0 .. 1000 \subseteq Confidences
      BY StrategyConfig
    <2>. QED BY <2>1, <2>2 DEF SignalResult, Results
  <1>2. Neutral = [vote |-> "Neutral", confidence |-> 0]
    BY DEF Neutral, SignalResult
  <1>. QED BY <1>1, <1>2 DEF Results

\* The last n moves.
LEMMA MovesType ==
  ASSUME NEW seq \in Seq(Int), NEW n \in Nat \ {0}, Len(seq) > n
  PROVE  /\ Moves(seq, n) \in [1 .. n -> Int]
         /\ \A i \in 1 .. n : /\ Len(seq) - n + i \in 2 .. Len(seq)
                              /\ Moves(seq, n)[i] = seq[Len(seq) - n + i]
                                                          - seq[Len(seq) - n + i - 1]
  <1>. DEFINE from == Len(seq) - n
  <1>1. ASSUME NEW i \in 1 .. n
        PROVE  /\ from + i \in 2 .. Len(seq)
               /\ seq[from + i] \in Int /\ seq[from + i - 1] \in Int
    OBVIOUS
  <1>2. Moves(seq, n) = [i \in 1 .. n |-> seq[from + i] - seq[from + i - 1]]
    BY DEF Moves
  <1>. QED BY <1>1, <1>2

\* The smoothed gain of a period is positive if there was any gain at all.
LEMMA WilderType ==
  ASSUME NEW parts \in [1 .. RsiPeriod -> Nat]
  PROVE  /\ Wilder(parts) \in Nat
         /\ (\E i \in 1 .. RsiPeriod : parts[i] > 0) => Wilder(parts) > 0
  <1>. DEFINE first  == [over |-> Total(parts), under |-> RsiPeriod]
              values == Tail(parts)
  <1>1. RsiPeriod \in Nat \ {0}
    BY SignalsConfig
  <1>2. /\ parts \in Seq(Nat) /\ Len(parts) = RsiPeriod
        /\ values \in Seq(Nat) /\ Len(values) = RsiPeriod - 1
    BY <1>1
  <1>3. Total(parts) \in Nat /\ \A i \in 1 .. RsiPeriod : parts[i] <= Total(parts)
    <2>1. IsFiniteSet(1 .. RsiPeriod)
      BY <1>1, FS_Interval
    <2>. QED BY <2>1, TotalType
  <1>4. first \in Averages
    BY <1>1, <1>3 DEF Averages
  <1>. HIDE DEF values
  <1>5. PICK avg : /\ Follows(avg, first, values, RsiPeriod - 1, 1)
                   /\ Smoothed(first, values, RsiPeriod - 1, 1) = avg[RsiPeriod - 1]
    <2>. HIDE DEF first
    <2>1. Len(values) \in Nat
      BY <1>1, <1>2
    <2>. QED BY <1>2, <2>1, SmoothedFollows
  <1>6. Wilder(parts) = avg[RsiPeriod - 1].over
    BY <1>5 DEF Wilder, values
  <1>7. /\ avg[RsiPeriod - 1] \in Averages
        /\ first.over > 0 /\ RsiPeriod - 1 > 0 => avg[RsiPeriod - 1].over > 0
    <2>1. RsiPeriod - 1 \in 0 .. Len(values) /\ RsiPeriod - 1 \in Nat
      BY <1>1, <1>2
    <2>. HIDE DEF first
    <2>. QED BY <2>1, <1>2, <1>4, <1>5, FollowsType
  <1>8. RsiPeriod = 1 => avg[RsiPeriod - 1] = first
    BY <1>5 DEF Follows
  <1>9. (\E i \in 1 .. RsiPeriod : parts[i] > 0) => first.over > 0
    BY <1>3
  <1>. QED BY <1>1, <1>6, <1>7, <1>8, <1>9 DEF Averages

\* RSI casts a vote, whatever moved.
LEMMA RsiType ==
  ASSUME NEW seq \in Seq(Int)
  PROVE  Rsi(seq) \in Results
  <1>. DEFINE moves  == Moves(seq, RsiPeriod)
              gains  == Wilder([i \in DOMAIN moves |-> Above(moves[i])])
              losses == Wilder([i \in DOMAIN moves |-> Above(-moves[i])])
              both   == gains + losses
  <1>1. CASE Len(seq) < RsiPeriod + 1
    BY <1>1, SignalResultType DEF Rsi
  <1>2. CASE ~(Len(seq) < RsiPeriod + 1)
    <2>1. RsiPeriod \in Nat \ {0} /\ Len(seq) > RsiPeriod
      BY <1>2, SignalsConfig
    <2>2. moves \in [1 .. RsiPeriod -> Int]
      BY <2>1, MovesType
    <2>3. /\ [i \in DOMAIN moves |-> Above(moves[i])] \in [1 .. RsiPeriod -> Nat]
          /\ [i \in DOMAIN moves |-> Above(-moves[i])] \in [1 .. RsiPeriod -> Nat]
      BY <2>2 DEF Above
    <2>4. gains \in Nat /\ losses \in Nat
      BY <2>3, WilderType
    <2>5. Rsi(seq) =
            CASE losses = 0 -> SignalResult("Sell", 1000)
              [] losses > 0 /\ 10 * gains < 3 * both ->
                   SignalResult("Buy", (1000 * (3 * both - 10 * gains)) \div (3 * both))
              [] losses > 0 /\ 10 * gains > 7 * both ->
                   SignalResult("Sell", (1000 * (10 * gains - 7 * both)) \div (3 * both))
              [] OTHER -> Neutral
      BY <1>2 DEF Rsi
    <2>. HIDE DEF gains, losses
    <2>6. losses > 0 /\ 10 * gains < 3 * both =>
            (1000 * (3 * both - 10 * gains)) \div (3 * both) \in Nat
      BY <2>4
    <2>7. losses > 0 /\ 10 * gains > 7 * both =>
            (1000 * (10 * gains - 7 * both)) \div (3 * both) \in Nat
      BY <2>4
    <2>. HIDE DEF both
    <2>8. CASE losses = 0
      BY <2>5, <2>8, SignalResultType
    <2>9. CASE losses > 0 /\ 10 * gains < 3 * both
      <3>1. ~(10 * gains > 7 * both) /\ losses # 0
        BY <2>4, <2>9 DEF both
      <3>. QED BY <2>5, <2>6, <2>9, <3>1, SignalResultType
    <2>10. CASE losses > 0 /\ ~(10 * gains < 3 * both) /\ 10 * gains > 7 * both
      BY <2>4, <2>5, <2>7, <2>10, SignalResultType
    <2>11. CASE losses > 0 /\ ~(10 * gains < 3 * both) /\ ~(10 * gains > 7 * both)
      BY <2>5, <2>11, SignalResultType
    <2>. QED BY <2>4, <2>8, <2>9, <2>10, <2>11
  <1>. QED BY <1>1, <1>2

\* The moving average of a series, by the place of the last close it has seen: it
\* starts as the mean of the first closes, and is never zero once it smooths.
LEMMA EmaFollows ==
  ASSUME NEW seq \in Seq(Nat \ {0}), NEW period \in Nat \ {0}, period <= Len(seq)
  PROVE  \E avg :
           /\ avg[period] = [over |-> Total(SubSeq(seq, 1, period)), under |-> period]
           /\ \A i \in period + 1 .. Len(seq) : avg[i] = Blend(avg[i - 1], seq[i], period - 1, 2)
           /\ \A i \in period .. Len(seq) : avg[i] \in Averages /\ (period > 1 => avg[i].over > 0)
           /\ EmaOf(seq, period) = avg[Len(seq)]
  <1>. DEFINE head   == SubSeq(seq, 1, period)
              first  == [over |-> Total(head), under |-> period]
              values == SubSeq(seq, period + 1, Len(seq))
              n      == Len(seq) - period
  <1>1. /\ head \in [1 .. period -> Nat \ {0}]
        /\ values \in Seq(Nat) /\ Len(values) = n /\ n \in Nat
        /\ \A i \in 1 .. n : values[i] = seq[period + i]
    <2>1. n \in Nat
      OBVIOUS
    <2>2. head \in [1 .. period -> Nat \ {0}]
      <3>1. head = [i \in 1 .. period |-> seq[i]]
        OBVIOUS
      <3>2. \A i \in 1 .. period : seq[i] \in Nat \ {0}
        OBVIOUS
      <3>. HIDE DEF head
      <3>. QED BY <3>1, <3>2
    <2>3. values = [i \in 1 .. n |-> seq[period + i]]
      OBVIOUS
    <2>4. \A i \in 1 .. n : seq[period + i] \in Nat
      OBVIOUS
    <2>5. values \in [1 .. n -> Nat]
      <3>. HIDE DEF values
      <3>. QED BY <2>3, <2>4
    <2>. HIDE DEF values, head
    <2>. QED BY <2>1, <2>2, <2>3, <2>5
  <1>2. Total(head) \in Nat \ {0}
    <2>1. IsFiniteSet(1 .. period) /\ 1 \in 1 .. period
      BY FS_Interval
    <2>2. head \in [1 .. period -> Nat] /\ head[1] > 0
      BY <1>1
    <2>. HIDE DEF head
    <2>3. Total(head) \in Nat /\ head[1] <= Total(head)
      BY <2>1, <2>2, TotalType
    <2>. QED BY <2>2, <2>3
  <1>3. first \in Averages /\ first.over > 0
    BY <1>2 DEF Averages
  <1>. HIDE DEF values, head
  <1>4. PICK a : Follows(a, first, values, period - 1, 2) /\ EmaOf(seq, period) = a[n]
    <2>1. EmaOf(seq, period) = Smoothed(first, values, period - 1, 2)
      BY DEF EmaOf, values, head
    <2>. HIDE DEF first
    <2>2. \E a : /\ Follows(a, first, values, period - 1, 2)
                 /\ Smoothed(first, values, period - 1, 2) = a[Len(values)]
      <3>1. Len(values) \in Nat
        BY <1>1
      <3>. QED BY <3>1, SmoothedFollows
    <2>. QED BY <1>1, <2>1, <2>2
  <1>5. \A i \in 0 .. n : a[i] \in Averages /\ (period > 1 => a[i].over > 0)
    <2>. HIDE DEF first
    <2>1. \A i \in 0 .. Len(values) :
            a[i] \in Averages /\ (first.over > 0 /\ period - 1 > 0 => a[i].over > 0)
      BY <1>1, <1>3, <1>4, FollowsType
    <2>. QED BY <1>1, <1>3, <2>1
  <1>6. a[0] = first
    BY <1>4 DEF Follows
  <1>7. ASSUME NEW i \in 1 .. n PROVE a[i] = Blend(a[i - 1], seq[period + i], period - 1, 2)
    <2>1. a[i] = Blend(a[i - 1], values[i], period - 1, 2)
      BY <1>1, <1>4 DEF Follows
    <2>. QED BY <1>1, <2>1
  <1>. DEFINE avg == [i \in period .. Len(seq) |-> a[i - period]]
  <1>8. avg[period] = first
    <2>1. period \in period .. Len(seq) /\ period - period = 0
      OBVIOUS
    <2>. QED BY <2>1, <1>6
  <1>9. ASSUME NEW i \in period + 1 .. Len(seq)
        PROVE  avg[i] = Blend(avg[i - 1], seq[i], period - 1, 2)
    <2>1. /\ i \in period .. Len(seq) /\ i - 1 \in period .. Len(seq)
          /\ i - period \in 1 .. n /\ (i - 1) - period = (i - period) - 1
          /\ period + (i - period) = i
      OBVIOUS
    <2>2. avg[i] = a[i - period] /\ avg[i - 1] = a[(i - period) - 1]
      BY <2>1
    <2>3. a[i - period] = Blend(a[(i - period) - 1], seq[period + (i - period)], period - 1, 2)
      BY <2>1, <1>7
    <2>. QED BY <2>1, <2>2, <2>3
  <1>10. ASSUME NEW i \in period .. Len(seq)
         PROVE  avg[i] \in Averages /\ (period > 1 => avg[i].over > 0)
    <2>1. i - period \in 0 .. n /\ avg[i] = a[i - period]
      OBVIOUS
    <2>. HIDE DEF avg
    <2>. QED BY <2>1, <1>5
  <1>11. avg[Len(seq)] = a[n]
    OBVIOUS
  <1>. HIDE DEF avg
  <1>. QED BY <1>4, <1>8, <1>9, <1>10, <1>11 DEF head

\* EMA casts a vote: the slow average it divides by is positive.
LEMMA EmaType ==
  ASSUME NEW seq \in Seq(Nat \ {0})
  PROVE  /\ Ema(seq) \in Results
         /\ Len(seq) >= SlowPeriod => Crossing(seq).gap \in Int /\ Crossing(seq).slow \in Nat \ {0}
  <1>1. CASE Len(seq) < SlowPeriod
    <2>1. Ema(seq) = Neutral
      BY <1>1 DEF Ema
    <2>. QED BY <1>1, <2>1, SignalResultType, SignalsConfig
  <1>2. CASE ~(Len(seq) < SlowPeriod)
    <2>1. /\ FastPeriod \in Nat \ {0} /\ SlowPeriod \in Nat \ {0} /\ FastPeriod < SlowPeriod
          /\ FastPeriod <= Len(seq) /\ SlowPeriod <= Len(seq) /\ SlowPeriod > 1
      BY <1>2, SignalsConfig
    <2>. DEFINE fast == EmaOf(seq, FastPeriod)
                slow == EmaOf(seq, SlowPeriod)
    <2>0. ASSUME NEW p \in Nat \ {0}, p <= Len(seq)
          PROVE  EmaOf(seq, p) \in Averages /\ (p > 1 => EmaOf(seq, p).over > 0)
      <3>1. PICK avg :
              /\ avg[p] = [over |-> Total(SubSeq(seq, 1, p)), under |-> p]
              /\ \A i \in p + 1 .. Len(seq) : avg[i] = Blend(avg[i - 1], seq[i], p - 1, 2)
              /\ \A i \in p .. Len(seq) : avg[i] \in Averages /\ (p > 1 => avg[i].over > 0)
              /\ EmaOf(seq, p) = avg[Len(seq)]
        BY <2>0, EmaFollows
      <3>2. Len(seq) \in p .. Len(seq)
        BY <2>0
      <3>. QED BY <3>1, <3>2
    <2>2. fast \in Averages
      BY <2>0, <2>1
    <2>3. slow \in Averages /\ slow.over > 0
      BY <2>0, <2>1
    <2>4. Crossing(seq) = [gap |-> fast.over * slow.under - slow.over * fast.under,
                           slow |-> slow.over * fast.under]
      BY DEF Crossing
    <2>. HIDE DEF fast, slow
    <2>5. Crossing(seq).gap \in Int /\ Crossing(seq).slow \in Nat \ {0}
      <3>1. /\ fast.over \in Nat /\ fast.under \in Nat \ {0}
            /\ slow.over \in Nat \ {0} /\ slow.under \in Nat \ {0}
        BY <2>2, <2>3 DEF Averages
      <3>2. slow.over * fast.under \in Nat \ {0} /\ fast.over * slow.under \in Nat
        BY <3>1
      <3>. QED BY <2>4, <3>2
    <2>. DEFINE gap == Crossing(seq).gap
                base == Crossing(seq).slow
                confidence == (Abs(gap) * 20000) \div base
    <2>6. Ema(seq) = CASE gap * 200 > base  -> SignalResult("Buy", confidence)
                       [] gap * 200 < -base -> SignalResult("Sell", confidence)
                       [] OTHER             -> Neutral
      BY <1>2 DEF Ema
    <2>. HIDE DEF gap, base
    <2>7. confidence \in Nat
      <3>1. Abs(gap) * 20000 \in Nat
        BY <2>5 DEF Abs, gap
      <3>2. base \in Nat \ {0}
        BY <2>5 DEF base
      <3>3. \A x \in Nat, y \in Nat \ {0} : x \div y \in Nat
        OBVIOUS
      <3>. QED BY <3>1, <3>2, <3>3
    <2>. HIDE DEF confidence
    <2>8. CASE gap * 200 > base
      BY <2>5, <2>6, <2>7, <2>8, SignalResultType DEF gap, base
    <2>9. CASE gap * 200 < -base
      BY <2>5, <2>6, <2>7, <2>9, SignalResultType DEF gap, base
    <2>10. CASE ~(gap * 200 > base) /\ ~(gap * 200 < -base)
      BY <2>5, <2>6, <2>10, SignalResultType DEF gap, base
    <2>. QED BY <2>5, <2>8, <2>9, <2>10
  <1>. QED BY <1>1, <1>2

\* The levels of the book are symmetric, and nobody votes on it.
LEMMA OrderBookNeutral == OrderBook = Neutral
  <1>. DEFINE P == {n \in Nat : n <= 20 =>
                      /\ 2 * SumFunctionOnSet(Asks, 1 .. n) = n * (n + 1)
                      /\ 2 * SumFunctionOnSet(Bids, 1 .. n) = n * (41 - n)}
  <1>1. 0 \in P
    <2>1. 1 .. 0 = {}
      OBVIOUS
    <2>. QED BY <2>1, SumEmpty
  <1>2. ASSUME NEW n \in Nat, n \in P PROVE n + 1 \in P
    <2>. SUFFICES ASSUME n + 1 <= 20
                  PROVE  /\ 2 * SumFunctionOnSet(Asks, 1 .. n + 1) = (n + 1) * (n + 2)
                         /\ 2 * SumFunctionOnSet(Bids, 1 .. n + 1) = (n + 1) * (40 - n)
      OBVIOUS
    <2>1. /\ 2 * SumFunctionOnSet(Asks, 1 .. n) = n * (n + 1)
          /\ 2 * SumFunctionOnSet(Bids, 1 .. n) = n * (41 - n)
      BY <1>2
    <2>2. /\ IsFiniteSet(1 .. n) /\ n + 1 \notin 1 .. n
          /\ 1 .. n + 1 = (1 .. n) \union {n + 1}
      BY FS_Interval
    <2>3. /\ \A y \in 1 .. n + 1 : Asks[y] \in Nat /\ Bids[y] \in Nat
          /\ Asks[n + 1] = n + 1 /\ Bids[n + 1] = 20 - n
      BY DEF Asks, Bids
    <2>. DEFINE asks == SumFunctionOnSet(Asks, 1 .. n)
                bids == SumFunctionOnSet(Bids, 1 .. n)
    <2>4. asks \in Nat /\ bids \in Nat
      <3>1. \A y \in 1 .. n : Asks[y] \in Nat /\ Bids[y] \in Nat
        BY <2>2, <2>3
      <3>. QED BY <2>2, <3>1, SumType
    <2>5. /\ SumFunctionOnSet(Asks, 1 .. n + 1) = asks + (n + 1)
          /\ SumFunctionOnSet(Bids, 1 .. n + 1) = bids + (20 - n)
      <3>. DEFINE S == 1 .. n
      <3>1. /\ IsFiniteSet(S) /\ n + 1 \notin S
            /\ \A y \in S \union {n + 1} : Asks[y] \in Nat
            /\ \A y \in S \union {n + 1} : Bids[y] \in Nat
        BY <2>2, <2>3
      <3>. HIDE DEF S
      <3>2. SumFunctionOnSet(Asks, S \union {n + 1}) = SumFunctionOnSet(Asks, S) + Asks[n + 1]
        BY <3>1, SumAdd
      <3>3. SumFunctionOnSet(Bids, S \union {n + 1}) = SumFunctionOnSet(Bids, S) + Bids[n + 1]
        BY <3>1, SumAdd
      <3>. QED BY <2>2, <2>3, <3>2, <3>3 DEF S
    <2>6. 2 * asks = n * (n + 1) /\ 2 * bids = n * (41 - n)
      BY <2>1
    <2>. HIDE DEF asks, bids
    <2>. QED BY <2>4, <2>5, <2>6
  <1>. HIDE DEF P
  <1>3. 20 \in P
    <2>1. Nat \subseteq P
      BY <1>1, <1>2, NaturalsClosed
    <2>. QED BY <2>1
  <1>4. SumFunctionOnSet(Asks, 1 .. 20) = 210 /\ SumFunctionOnSet(Bids, 1 .. 20) = 210
    <2>. DEFINE asks == SumFunctionOnSet(Asks, 1 .. 20)
                bids == SumFunctionOnSet(Bids, 1 .. 20)
    <2>1. IsFiniteSet(1 .. 20) /\ \A y \in 1 .. 20 : Asks[y] \in Nat /\ Bids[y] \in Nat
      <3>1. \A n \in Nat : IsFiniteSet(1 .. n)
        BY FS_Interval
      <3>2. IsFiniteSet(1 .. 20)
        <4>1. 20 \in Nat
          OBVIOUS
        <4>. QED BY ONLY <3>1, <4>1
      <3>3. \A y \in 1 .. 20 : Asks[y] \in Nat /\ Bids[y] \in Nat
        BY DEF Asks, Bids
      <3>. QED BY <3>2, <3>3
    <2>2. asks \in Nat /\ bids \in Nat
      BY <2>1, SumType
    <2>3. 2 * asks = 420 /\ 2 * bids = 420
      BY <1>3 DEF P
    <2>. HIDE DEF asks, bids
    <2>4. asks = 210 /\ bids = 210
      BY <2>2, <2>3
    <2>. QED BY <2>4 DEF asks, bids
  <1>5. Total(Asks) = 210 /\ Total(Bids) = 210
    <2>1. DOMAIN Asks = 1 .. 20 /\ DOMAIN Bids = 1 .. 20
      BY DEF Asks, Bids
    <2>. QED BY <1>4, <2>1 DEF Total, SumFunction
  <1>. QED BY <1>5 DEF OrderBook

\* Whales, by the places of their swaps.
WhalesOK(flow) ==
  /\ IsFiniteSet(DOMAIN flow)
  /\ \A i \in DOMAIN flow : /\ flow[i].usd \in Nat /\ flow[i].weight \in Nat
                            /\ flow[i].usd >= WhaleThreshold

\* Whales of these swaps, on the side that was decoded.
WhalesOf(flow, swaps) ==
  \A i \in DOMAIN flow : /\ i \in DOMAIN swaps
                         /\ flow[i].isBuy = (swaps[i].direction = "Buy")

\* What the context builder picks from the queue.
LEMMA WhalesPicked ==
  ASSUME NEW swaps \in Seq(Swaps), NEW usd \in Nat
  PROVE  WhalesOK(Whales(swaps, usd)) /\ WhalesOf(Whales(swaps, usd), swaps)
  <1>. DEFINE places == {j \in DOMAIN swaps : Whale(swaps[j], usd).usd >= WhaleThreshold}
  <1>1. IsFiniteSet(places)
    <2>1. DOMAIN swaps = 1 .. Len(swaps) /\ Len(swaps) \in Nat
      OBVIOUS
    <2>2. IsFiniteSet(1 .. Len(swaps))
      BY <2>1, FS_Interval
    <2>. QED BY <2>1, <2>2, FS_Subset
  <1>2. Whales(swaps, usd) = [i \in places |-> Whale(swaps[i], usd)]
    BY DEF Whales
  <1>3. ASSUME NEW i \in places
        PROVE  LET whale == Whale(swaps[i], usd)
               IN  /\ whale.usd \in Nat /\ whale.weight \in Nat /\ whale.usd >= WhaleThreshold
                   /\ whale.isBuy = (swaps[i].direction = "Buy") /\ i \in DOMAIN swaps
    <2>1. swaps[i].value \in Nat /\ swaps[i].weight \in Nat
      <3>1. swaps[i] \in Swaps
        OBVIOUS
      <3>. QED BY <3>1, StrategyConfig
    <2>2. swaps[i].value * usd \in Nat
      BY <2>1
    <2>. QED BY <2>1, <2>2 DEF Whale
  <1>. HIDE DEF places
  <1>. QED BY <1>1, <1>2, <1>3 DEF WhalesOK, WhalesOf

\* What a whale adds to the volume of a side.
Worth(flow, isBuy) ==
  [i \in DOMAIN flow |-> IF flow[i].isBuy = isBuy THEN flow[i].usd * flow[i].weight ELSE 0]

\* The volume of a side is a natural.
LEMMA VolumeType ==
  ASSUME NEW flow, WhalesOK(flow), NEW isBuy
  PROVE  /\ Worth(flow, isBuy) \in [DOMAIN flow -> Nat]
         /\ Volume(flow, isBuy) = SumFunctionOnSet(Worth(flow, isBuy), DOMAIN flow)
         /\ Volume(flow, isBuy) \in Nat
  <1>1. IsFiniteSet(DOMAIN flow)
    BY DEF WhalesOK
  <1>2. Worth(flow, isBuy) \in [DOMAIN flow -> Nat]
    <2>1. ASSUME NEW i \in DOMAIN flow PROVE Worth(flow, isBuy)[i] \in Nat
      <3>1. flow[i].usd * flow[i].weight \in Nat
        BY DEF WhalesOK
      <3>. QED BY <3>1 DEF Worth
    <2>. QED BY <2>1 DEF Worth
  <1>3. Volume(flow, isBuy) = Total(Worth(flow, isBuy))
    BY DEF Volume, Worth
  <1>4. Total(Worth(flow, isBuy)) = SumFunctionOnSet(Worth(flow, isBuy), DOMAIN flow)
    BY DEF Total, SumFunction, Worth
  <1>. QED BY <1>1, <1>2, <1>3, <1>4, TotalType

\* Without one of the whales its side has no more volume, and the other one as much.
LEMMA VolumeWithout ==
  ASSUME NEW flow, WhalesOK(flow), NEW i \in DOMAIN flow, NEW isBuy
  PROVE  LET rest == Restrict(flow, DOMAIN flow \ {i})
         IN  /\ WhalesOK(rest)
             /\ Volume(rest, isBuy) <= Volume(flow, isBuy)
             /\ flow[i].isBuy # isBuy => Volume(rest, isBuy) = Volume(flow, isBuy)
  <1>. DEFINE D    == DOMAIN flow \ {i}
              rest == Restrict(flow, D)
              all  == Worth(flow, isBuy)
              some == Worth(rest, isBuy)
  <1>1. DOMAIN rest = D /\ \A j \in D : rest[j] = flow[j]
    BY DEF Restrict
  <1>2. IsFiniteSet(DOMAIN flow) /\ IsFiniteSet(D)
    BY FS_Subset DEF WhalesOK
  <1>3. WhalesOK(rest)
    <2>. HIDE DEF rest
    <2>1. \A j \in D : j \in DOMAIN flow
      OBVIOUS
    <2>. HIDE DEF D
    <2>. QED BY <1>1, <1>2, <2>1 DEF WhalesOK
  <1>4. /\ all \in [DOMAIN flow -> Nat] /\ some \in [D -> Nat]
        /\ Volume(flow, isBuy) = SumFunctionOnSet(all, DOMAIN flow)
        /\ Volume(rest, isBuy) = SumFunctionOnSet(some, D)
        /\ Volume(rest, isBuy) \in Nat
    <2>. HIDE DEF rest, D
    <2>. QED BY <1>1, <1>3, VolumeType
  <1>5. \A j \in D : some[j] = all[j]
    <2>. HIDE DEF rest
    <2>. QED BY <1>1 DEF Worth
  <1>6. all[i] \in Nat /\ (flow[i].isBuy # isBuy => all[i] = 0)
    <2>1. all[i] \in Nat
      <3>. HIDE DEF all
      <3>. QED BY <1>4
    <2>. QED BY <2>1 DEF Worth
  <1>7. SumFunctionOnSet(all, DOMAIN flow) = all[i] + SumFunctionOnSet(all, D)
    <2>1. \A j \in DOMAIN flow : all[j] \in Nat
      <3>. HIDE DEF all
      <3>. QED BY <1>4
    <2>. HIDE DEF all
    <2>. QED BY <1>2, <2>1, SumRemove
  <1>8. SumFunctionOnSet(all, D) = SumFunctionOnSet(some, D)
    <2>. HIDE DEF all, some, D
    <2>. QED BY <1>2, <1>5, SumSame
  <1>. HIDE DEF all, some, rest, D
  <1>9. /\ Volume(rest, isBuy) <= Volume(flow, isBuy)
        /\ flow[i].isBuy # isBuy => Volume(rest, isBuy) = Volume(flow, isBuy)
    BY <1>4, <1>6, <1>7, <1>8
  <1>. QED BY <1>3, <1>9 DEF rest, D

\* The flow casts a vote; whether it is one to buy or to sell the two volumes say.
LEMMA OnchainFlowType ==
  ASSUME NEW flow, WhalesOK(flow), NEW seq, NEW usd
  PROVE  LET buys == Volume(flow, TRUE)
             sells == Volume(flow, FALSE)
             result == OnchainFlow(flow, seq, usd)
         IN  /\ result \in Results
             /\ result.vote = "Buy"  <=> 4 * buys > 6 * sells
             /\ result.vote = "Sell" <=> 4 * sells > 6 * buys
  <1>. DEFINE buys  == Volume(flow, TRUE)
              sells == Volume(flow, FALSE)
              total == buys + sells
              cvd   == buys - sells
              move  == PriceMove(seq, usd)
              absorbed   == (2 * cvd > total /\ move < 0) \/ (2 * cvd < -total /\ move > 0)
              confidence == IF absorbed THEN 900 ELSE (1000 * Abs(cvd)) \div total
              result == OnchainFlow(flow, seq, usd)
  <1>1. buys \in Nat /\ sells \in Nat
    BY VolumeType
  <1>2. result =
          CASE 5 * cvd > total  -> SignalResult("Buy", confidence)
            [] 5 * cvd < -total -> SignalResult("Sell", confidence)
            [] OTHER            -> Neutral
    BY DEF OnchainFlow
  <1>. HIDE DEF buys, sells, absorbed, result
  <1>3. /\ 5 * cvd > total  <=> 4 * buys > 6 * sells
        /\ 5 * cvd < -total <=> 4 * sells > 6 * buys
        /\ ~(4 * buys > 6 * sells /\ 4 * sells > 6 * buys)
    BY <1>1
  <1>4. 5 * cvd > total \/ 5 * cvd < -total => confidence \in Nat
    <2>1. 5 * cvd > total \/ 5 * cvd < -total => total \in Nat \ {0} /\ 1000 * Abs(cvd) \in Nat
      BY <1>1 DEF Abs
    <2>. HIDE DEF total, cvd
    <2>2. \A x \in Nat, y \in Nat \ {0} : x \div y \in Nat
      OBVIOUS
    <2>3. 5 * cvd > total \/ 5 * cvd < -total => (1000 * Abs(cvd)) \div total \in Nat
      BY <2>1, <2>2
    <2>. QED BY <2>3
  <1>. HIDE DEF confidence, total, cvd
  <1>5. 4 * buys > 6 * sells => result \in Results /\ result.vote = "Buy"
    <2>. SUFFICES ASSUME 4 * buys > 6 * sells PROVE result \in Results /\ result.vote = "Buy"
      OBVIOUS
    <2>1. result = SignalResult("Buy", confidence) /\ confidence \in Nat
      BY <1>2, <1>3, <1>4
    <2>2. SignalResult("Buy", confidence).vote = "Buy"
      BY DEF SignalResult
    <2>. QED BY <2>1, <2>2, SignalResultType
  <1>6. 4 * sells > 6 * buys => result \in Results /\ result.vote = "Sell"
    <2>. SUFFICES ASSUME 4 * sells > 6 * buys PROVE result \in Results /\ result.vote = "Sell"
      OBVIOUS
    <2>1. result = SignalResult("Sell", confidence) /\ confidence \in Nat
      BY <1>2, <1>3, <1>4
    <2>2. SignalResult("Sell", confidence).vote = "Sell"
      BY DEF SignalResult
    <2>. QED BY <2>1, <2>2, SignalResultType
  <1>7. ~(4 * buys > 6 * sells) /\ ~(4 * sells > 6 * buys) =>
          result \in Results /\ result.vote = "Neutral"
    <2>1. Neutral.vote = "Neutral"
      BY DEF Neutral, SignalResult
    <2>. QED BY <1>2, <1>3, <2>1, SignalResultType
  <1>8. /\ result \in Results
        /\ result.vote = "Buy"  <=> 4 * buys > 6 * sells
        /\ result.vote = "Sell" <=> 4 * sells > 6 * buys
    <2>. DEFINE more == 4 * buys > 6 * sells
                less == 4 * sells > 6 * buys
    <2>1. ~(more /\ less)
      BY <1>1
    <2>. HIDE DEF more, less
    <2>2. /\ more => result \in Results /\ result.vote = "Buy"
          /\ less => result \in Results /\ result.vote = "Sell"
          /\ ~more /\ ~less => result \in Results /\ result.vote = "Neutral"
      BY <1>5, <1>6, <1>7 DEF more, less
    <2>3. /\ result \in Results
          /\ result.vote = "Buy"  <=> more
          /\ result.vote = "Sell" <=> less
      BY <2>1, <2>2
    <2>. QED BY <2>3 DEF more, less
  <1>. QED BY <1>8 DEF buys, sells, result

\* A whale that buys makes the flow lean no less to buying, one that sells no less to
\* selling.
LEMMA FlowFollows ==
  ASSUME NEW flow, WhalesOK(flow), NEW i \in DOMAIN flow, NEW seq, NEW usd
  PROVE  LET with    == Lean(OnchainFlow(flow, seq, usd))
             without == Lean(OnchainFlow(Restrict(flow, DOMAIN flow \ {i}), seq, usd))
         IN  /\ flow[i].isBuy = TRUE  => without <= with
             /\ flow[i].isBuy = FALSE => without >= with
  <1>. DEFINE rest    == Restrict(flow, DOMAIN flow \ {i})
              with    == OnchainFlow(flow, seq, usd)
              without == OnchainFlow(rest, seq, usd)
  <1>1. WhalesOK(rest)
    BY VolumeWithout
  <1>2. /\ Volume(rest, TRUE) <= Volume(flow, TRUE) /\ Volume(rest, FALSE) <= Volume(flow, FALSE)
        /\ flow[i].isBuy = TRUE  => Volume(rest, FALSE) = Volume(flow, FALSE)
        /\ flow[i].isBuy = FALSE => Volume(rest, TRUE) = Volume(flow, TRUE)
    BY VolumeWithout
  <1>. HIDE DEF rest
  <1>3. /\ Volume(flow, TRUE) \in Nat /\ Volume(flow, FALSE) \in Nat
        /\ Volume(rest, TRUE) \in Nat /\ Volume(rest, FALSE) \in Nat
    BY <1>1, VolumeType
  <1>. DEFINE more(f) == 4 * Volume(f, TRUE) > 6 * Volume(f, FALSE)
              less(f) == 4 * Volume(f, FALSE) > 6 * Volume(f, TRUE)
  <1>4. /\ with.vote = "Buy"  <=> more(flow)
        /\ with.vote = "Sell" <=> less(flow)
        /\ without.vote = "Buy"  <=> more(rest)
        /\ without.vote = "Sell" <=> less(rest)
    <2>. HIDE DEF rest
    <2>. QED BY <1>1, OnchainFlowType
  <1>5. flow[i].isBuy = TRUE => /\ without.vote = "Buy" => with.vote = "Buy"
                                /\ with.vote = "Sell" => without.vote = "Sell"
    <2>. SUFFICES ASSUME flow[i].isBuy = TRUE
                  PROVE  /\ without.vote = "Buy" => with.vote = "Buy"
                         /\ with.vote = "Sell" => without.vote = "Sell"
      OBVIOUS
    <2>1. Volume(rest, FALSE) = Volume(flow, FALSE) /\ Volume(rest, TRUE) <= Volume(flow, TRUE)
      BY <1>2
    <2>. DEFINE fewer == Volume(rest, TRUE)
                full == Volume(flow, TRUE)
                other == Volume(flow, FALSE)
    <2>2. (more(rest) => more(flow)) /\ (less(flow) => less(rest))
      <3>1. fewer \in Nat /\ full \in Nat /\ other \in Nat /\ fewer <= full
        BY <1>3, <2>1
      <3>. HIDE DEF fewer, full, other
      <3>2. /\ 4 * fewer > 6 * other => 4 * full > 6 * other
            /\ 4 * other > 6 * full => 4 * other > 6 * fewer
        BY <3>1
      <3>. QED BY <2>1, <3>2 DEF fewer, full, other
    <2>. HIDE DEF with, without, more, less
    <2>. QED BY <1>4, <2>2
  <1>6. flow[i].isBuy = FALSE => /\ without.vote = "Sell" => with.vote = "Sell"
                                 /\ with.vote = "Buy" => without.vote = "Buy"
    <2>. SUFFICES ASSUME flow[i].isBuy = FALSE
                  PROVE  /\ without.vote = "Sell" => with.vote = "Sell"
                         /\ with.vote = "Buy" => without.vote = "Buy"
      OBVIOUS
    <2>1. Volume(rest, TRUE) = Volume(flow, TRUE) /\ Volume(rest, FALSE) <= Volume(flow, FALSE)
      BY <1>2
    <2>. DEFINE fewer == Volume(rest, FALSE)
                full == Volume(flow, FALSE)
                other == Volume(flow, TRUE)
    <2>2. (less(rest) => less(flow)) /\ (more(flow) => more(rest))
      <3>1. fewer \in Nat /\ full \in Nat /\ other \in Nat /\ fewer <= full
        BY <1>3, <2>1
      <3>. HIDE DEF fewer, full, other
      <3>2. /\ 4 * fewer > 6 * other => 4 * full > 6 * other
            /\ 4 * other > 6 * full => 4 * other > 6 * fewer
        BY <3>1
      <3>. QED BY <2>1, <3>2 DEF fewer, full, other
    <2>. HIDE DEF with, without, more, less
    <2>. QED BY <1>4, <2>2
  <1>7. \A result : Lean(result) = IF result.vote = "Buy" THEN 1
                                   ELSE IF result.vote = "Sell" THEN -1 ELSE 0
    BY DEF Lean
  <1>. HIDE DEF with, without
  <1>8. /\ flow[i].isBuy = TRUE  => Lean(without) <= Lean(with)
        /\ flow[i].isBuy = FALSE => Lean(without) >= Lean(with)
    BY <1>5, <1>6, <1>7
  <1>. QED BY <1>8 DEF with, without, rest

-----------------------------------------------------------------------------
(* Averages of a series that moves one way. The way is e: 1 for a rise, -1  *)
(* for a fall.                                                             *)

Along(e, seq) == \A i \in 2 .. Len(seq) : e * (seq[i] - seq[i - 1]) >= 0

\* A value is at least as far along as an average, and an average as another.
Leads(e, value, avg) == e * (value * avg.under - avg.over) >= 0
Before(e, avg, other) == e * (avg.over * other.under - other.over * avg.under) >= 0

\* The next value leads an average that the last one led.
LEMMA LeadsOn ==
  ASSUME NEW e \in {1, -1}, NEW avg \in Averages, NEW value \in Nat, NEW next \in Nat,
         Leads(e, value, avg), e * (next - value) >= 0
  PROVE  Leads(e, next, avg)
  <1>. DEFINE u == avg.under
              o == avg.over
  <1>1. u \in Nat /\ o \in Nat
    BY DEF Averages
  <1>2. e * (value * u - o) >= 0
    BY DEF Leads
  <1>. HIDE DEF u, o
  <1>3. e * (next * u - o) = (e * (next - value)) * u + e * (value * u - o)
    BY <1>1
  <1>4. (e * (next - value)) * u >= 0
    BY <1>1
  <1>5. e * (next * u - o) >= 0
    <2>1. (e * (next - value)) * u \in Int /\ e * (value * u - o) \in Int
      BY <1>1
    <2>. QED BY <1>2, <1>3, <1>4, <2>1
  <1>. QED BY <1>5 DEF Leads, u, o

\* A value that leads two averages moves the one that weighs it more further.
LEMMA BlendOrder ==
  ASSUME NEW e \in {1, -1}, NEW a \in Averages, NEW b \in Averages, NEW value \in Nat,
         NEW oldA \in Nat, NEW newA \in Nat, NEW oldB \in Nat, NEW newB \in Nat,
         newA * (oldB + newB) >= newB * (oldA + newA),
         Leads(e, value, a), Before(e, a, b)
  PROVE  /\ Before(e, Blend(a, value, oldA, newA), Blend(b, value, oldB, newB))
         /\ Leads(e, value, Blend(a, value, oldA, newA))
  <1>. DEFINE ao == a.over
              au == a.under
              bo == b.over
              bu == b.under
              lead   == value * au - ao
              ahead  == ao * bu - bo * au
              weight == newA * (oldB + newB) - newB * (oldA + newA)
              overA  == oldA * ao + newA * value * au
              underA == (oldA + newA) * au
              overB  == oldB * bo + newB * value * bu
              underB == (oldB + newB) * bu
  <1>1. ao \in Nat /\ au \in Nat /\ bo \in Nat /\ bu \in Nat
    BY DEF Averages
  <1>2. e * lead >= 0 /\ e * ahead >= 0
    BY DEF Leads, Before
  <1>3. /\ Blend(a, value, oldA, newA) = [over |-> overA, under |-> underA]
        /\ Blend(b, value, oldB, newB) = [over |-> overB, under |-> underB]
    BY DEF Blend
  <1>. HIDE DEF ao, au, bo, bu
  <1>4. value * underA - overA = oldA * lead
    BY <1>1
  <1>5. overA * underB - overB * underA
          = (oldB * (oldA + newA)) * ahead + (weight * bu) * lead
    BY <1>1
  <1>6. weight \in Nat /\ lead \in Int /\ ahead \in Int
    BY <1>1
  <1>7. ASSUME NEW k \in Nat, NEW n \in Int, e * n >= 0 PROVE e * (k * n) >= 0
    BY <1>7
  <1>. DEFINE k1 == oldB * (oldA + newA)
              k2 == weight * bu
  <1>8. k1 \in Nat /\ k2 \in Nat
    <2>. HIDE DEF weight
    <2>. QED BY <1>1, <1>6
  <1>. HIDE DEF lead, ahead, weight, k1, k2, overA, underA, overB, underB
  <1>9. e * (oldA * lead) >= 0 /\ e * (k1 * ahead) >= 0 /\ e * (k2 * lead) >= 0
    BY <1>2, <1>6, <1>7, <1>8
  <1>10. overA * underB - overB * underA = k1 * ahead + k2 * lead
    BY <1>5 DEF k1, k2
  <1>11. k1 * ahead \in Int /\ k2 * lead \in Int
    BY <1>6, <1>8
  <1>12. e * (k1 * ahead + k2 * lead) >= 0
    <2>. DEFINE x == k1 * ahead
                y == k2 * lead
    <2>1. x \in Int /\ y \in Int /\ e * x >= 0 /\ e * y >= 0
      BY <1>9, <1>11
    <2>. HIDE DEF x, y
    <2>2. e * (x + y) >= 0
      BY <2>1
    <2>. QED BY <2>2 DEF x, y
  <1>13. e * (overA * underB - overB * underA) >= 0
    BY <1>10, <1>12
  <1>14. e * (value * underA - overA) >= 0
    BY <1>4, <1>9
  <1>. QED BY <1>3, <1>13, <1>14 DEF Before, Leads

\* The mean of the first i closes.
Mean(seq, i) == [over |-> Total(SubSeq(seq, 1, i)), under |-> i]

\* One more close adds to the total.
LEMMA MeanGrows ==
  ASSUME NEW seq \in Seq(Nat \ {0})
  PROVE  /\ \A i \in 1 .. Len(seq) : Mean(seq, i) \in Averages
         /\ Len(seq) > 0 => Mean(seq, 1).over = seq[1]
         /\ \A i \in 1 .. Len(seq) - 1 : Mean(seq, i + 1).over = Mean(seq, i).over + seq[i + 1]
  <1>. DEFINE S(i) == SumFunctionOnSet(seq, 1 .. i)
  <1>0. \A i \in 1 .. Len(seq) : seq[i] \in Nat /\ i \in Nat
    OBVIOUS
  <1>1. \A n \in Nat : IsFiniteSet(1 .. n)
    BY FS_Interval
  <1>2. ASSUME NEW i \in 1 .. Len(seq) PROVE Mean(seq, i).over = S(i) /\ S(i) \in Nat
    <2>. DEFINE head == SubSeq(seq, 1, i)
    <2>1. head = [j \in 1 .. i |-> seq[j]]
      OBVIOUS
    <2>2. IsFiniteSet(1 .. i)
      BY <1>0, <1>1
    <2>. HIDE DEF head
    <2>3. DOMAIN head = 1 .. i /\ \A j \in 1 .. i : head[j] = seq[j]
      BY <2>1
    <2>4. SumFunctionOnSet(head, 1 .. i) = S(i)
      BY <2>2, <2>3, SumSame
    <2>5. \A j \in 1 .. i : seq[j] \in Nat
      BY <1>0
    <2>6. S(i) \in Nat
      BY <2>2, <2>5, SumType
    <2>. QED BY <2>3, <2>4, <2>6 DEF Mean, Total, SumFunction, head
  <1>3. ASSUME NEW i \in 0 .. Len(seq) - 1 PROVE S(i + 1) = S(i) + seq[i + 1]
    <2>1. /\ i \in Nat /\ i + 1 \notin 1 .. i /\ 1 .. i + 1 = (1 .. i) \union {i + 1}
          /\ \A j \in 1 .. i + 1 : seq[j] \in Nat
      BY <1>0
    <2>. DEFINE T == 1 .. i
    <2>2. IsFiniteSet(T) /\ i + 1 \notin T /\ \A j \in T \union {i + 1} : seq[j] \in Nat
      BY <1>1, <2>1
    <2>. HIDE DEF T
    <2>3. SumFunctionOnSet(seq, T \union {i + 1}) = SumFunctionOnSet(seq, T) + seq[i + 1]
      BY <2>2, SumAdd
    <2>. QED BY <2>1, <2>3 DEF T
  <1>. HIDE DEF S
  <1>4. \A i \in 1 .. Len(seq) : Mean(seq, i) \in Averages
    BY <1>0, <1>2 DEF Mean, Averages
  <1>5. Len(seq) > 0 => Mean(seq, 1).over = seq[1]
    <2>. SUFFICES ASSUME Len(seq) > 0 PROVE Mean(seq, 1).over = seq[1]
      OBVIOUS
    <2>1. 1 .. 0 = {} /\ 0 \in 0 .. Len(seq) - 1 /\ 1 \in 1 .. Len(seq)
      OBVIOUS
    <2>2. S(0) = 0
      BY <2>1, SumEmpty DEF S
    <2>3. S(0 + 1) = S(0) + seq[0 + 1]
      BY <2>1, <1>3
    <2>. QED BY <1>0, <1>2, <2>1, <2>2, <2>3
  <1>6. \A i \in 1 .. Len(seq) - 1 : Mean(seq, i + 1).over = Mean(seq, i).over + seq[i + 1]
    <2>. TAKE i \in 1 .. Len(seq) - 1
    <2>1. i \in 1 .. Len(seq) /\ i + 1 \in 1 .. Len(seq) /\ i \in 0 .. Len(seq) - 1
      OBVIOUS
    <2>. QED BY <2>1, <1>2, <1>3
  <1>. QED BY <1>4, <1>5, <1>6

\* The last of the closes leads their mean.
LEMMA MeanLed ==
  ASSUME NEW e \in {1, -1}, NEW seq \in Seq(Nat \ {0}), Along(e, seq)
  PROVE  \A i \in 1 .. Len(seq) : Leads(e, seq[i], Mean(seq, i))
  <1>. DEFINE P == {i \in Nat : i + 1 <= Len(seq) => Leads(e, seq[i + 1], Mean(seq, i + 1))}
  <1>0. \A i \in 1 .. Len(seq) : seq[i] \in Nat
    OBVIOUS
  <1>1. 0 \in P
    <2>. SUFFICES ASSUME Len(seq) > 0 PROVE Leads(e, seq[1], Mean(seq, 1))
      OBVIOUS
    <2>1. Mean(seq, 1).over = seq[1] /\ Mean(seq, 1).under = 1 /\ seq[1] \in Nat
      BY <1>0, MeanGrows DEF Mean
    <2>. QED BY <2>1 DEF Leads
  <1>2. ASSUME NEW i \in Nat, i \in P PROVE i + 1 \in P
    <2>. SUFFICES ASSUME (i + 1) + 1 <= Len(seq) PROVE Leads(e, seq[(i + 1) + 1], Mean(seq, (i + 1) + 1))
      OBVIOUS
    <2>. DEFINE j == i + 1
                c == seq[j]
                d == seq[j + 1]
                s == Mean(seq, j).over
    <2>1. /\ j \in 1 .. Len(seq) /\ j + 1 \in 2 .. Len(seq) /\ j \in 1 .. Len(seq) - 1
          /\ (j + 1) - 1 = j /\ j \in Nat
      OBVIOUS
    <2>. HIDE DEF j
    <2>2. Leads(e, c, Mean(seq, j))
      BY <1>2, <2>1 DEF j
    <2>3. c \in Nat /\ d \in Nat /\ s \in Nat
      BY <2>1, <1>0, MeanGrows DEF Averages
    <2>4. e * (d - c) >= 0
      BY <2>1 DEF Along
    <2>5. e * (c * j - s) >= 0
      BY <2>2 DEF Leads, Mean
    <2>6. Mean(seq, j + 1).over = s + d /\ Mean(seq, j + 1).under = j + 1
      BY <2>1, MeanGrows DEF Mean
    <2>. HIDE DEF c, d, s
    <2>7. e * (d * (j + 1) - (s + d)) = (e * (d - c)) * j + e * (c * j - s)
      BY <2>1, <2>3
    <2>8. (e * (d - c)) * j >= 0 /\ (e * (d - c)) * j \in Int /\ e * (c * j - s) \in Int
      BY <2>1, <2>3, <2>4
    <2>9. e * (d * (j + 1) - (s + d)) >= 0
      BY <2>5, <2>7, <2>8
    <2>. QED BY <2>6, <2>9 DEF Leads, d, j
  <1>. HIDE DEF P
  <1>3. Nat \subseteq P
    BY <1>1, <1>2, NaturalsClosed
  <1>4. ASSUME NEW i \in 1 .. Len(seq) PROVE Leads(e, seq[i], Mean(seq, i))
    <2>1. i - 1 \in Nat /\ (i - 1) + 1 = i
      OBVIOUS
    <2>2. i - 1 \in P
      BY <1>3, <2>1
    <2>. QED BY <2>1, <2>2 DEF P
  <1>. QED BY <1>4

\* What holds of the first place, and of the next one if of a place, holds of all.
LEMMA PlacesClosed ==
  ASSUME NEW p \in Nat, NEW n \in Nat, NEW P, p \in P,
         \A i \in p .. n - 1 : i \in P => i + 1 \in P
  PROVE  p .. n \subseteq P
  <1>. DEFINE Q == {k \in Nat : p + k <= n => p + k \in P}
  <1>1. 0 \in Q
    OBVIOUS
  <1>2. ASSUME NEW k \in Nat, k \in Q PROVE k + 1 \in Q
    <2>. SUFFICES ASSUME p + (k + 1) <= n PROVE p + (k + 1) \in P
      OBVIOUS
    <2>1. p + k \in p .. n - 1 /\ (p + k) + 1 = p + (k + 1)
      OBVIOUS
    <2>2. p + k \in P
      BY <1>2, <2>1
    <2>. QED BY <2>1, <2>2
  <1>. HIDE DEF Q
  <1>3. Nat \subseteq Q
    BY <1>1, <1>2, NaturalsClosed
  <1>4. ASSUME NEW i \in p .. n PROVE i \in P
    <2>1. i - p \in Q
      BY <1>3
    <2>2. p + (i - p) = i /\ i <= n
      OBVIOUS
    <2>. QED BY <2>1, <2>2 DEF Q
  <1>. QED BY <1>4

\* The moving average of a period, from the place where it starts.
MovesAlong(avg, seq, period) ==
  /\ avg[period] = Mean(seq, period)
  /\ \A i \in period + 1 .. Len(seq) : avg[i] = Blend(avg[i - 1], seq[i], period - 1, 2)
  /\ \A i \in period .. Len(seq) : avg[i] \in Averages

\* A moving average weighs the last close more than the mean of all of them does: it
\* is further along, and the last close further still.
LEMMA AverageLeadsMean ==
  ASSUME NEW e \in {1, -1}, NEW seq \in Seq(Nat \ {0}), Along(e, seq),
         NEW period \in Nat \ {0}, period <= Len(seq), NEW avg, MovesAlong(avg, seq, period)
  PROVE  \A i \in period .. Len(seq) :
           Leads(e, seq[i], avg[i]) /\ Before(e, avg[i], Mean(seq, i))
  <1>. DEFINE P == {i \in period .. Len(seq) :
                      Leads(e, seq[i], avg[i]) /\ Before(e, avg[i], Mean(seq, i))}
  <1>0. /\ Len(seq) \in Nat /\ \A i \in 1 .. Len(seq) : seq[i] \in Nat
        /\ \A i \in 1 .. Len(seq) : Mean(seq, i) \in Averages
    BY MeanGrows
  <1>1. period \in P
    <2>1. period \in 1 .. Len(seq) /\ period \in period .. Len(seq)
      OBVIOUS
    <2>2. Leads(e, seq[period], Mean(seq, period))
      BY <2>1, MeanLed
    <2>3. Before(e, Mean(seq, period), Mean(seq, period))
      <3>1. Mean(seq, period).over \in Nat /\ Mean(seq, period).under \in Nat
        BY <1>0, <2>1 DEF Averages
      <3>. QED BY <3>1 DEF Before
    <2>. QED BY <2>1, <2>2, <2>3 DEF MovesAlong
  <1>2. ASSUME NEW i \in period .. Len(seq) - 1, i \in P PROVE i + 1 \in P
    <2>. DEFINE c == seq[i + 1]
                m == Mean(seq, i)
    <2>1. /\ i \in period .. Len(seq) /\ i + 1 \in period + 1 .. Len(seq)
          /\ i \in 1 .. Len(seq) /\ i + 1 \in 2 .. Len(seq) /\ i + 1 \in 1 .. Len(seq)
          /\ i \in 1 .. Len(seq) - 1 /\ (i + 1) - 1 = i /\ i \in Nat \ {0}
          /\ i + 1 \in period .. Len(seq)
      BY <1>0
    <2>2. avg[i] \in Averages /\ avg[i + 1] \in Averages
      BY <2>1 DEF MovesAlong
    <2>3. avg[i + 1] = Blend(avg[i], c, period - 1, 2)
      BY <2>1 DEF MovesAlong
    <2>4. c \in Nat /\ seq[i] \in Nat /\ m \in Averages
      BY <1>0, <2>1
    <2>5. Leads(e, seq[i], avg[i]) /\ Before(e, avg[i], m)
      BY <1>2
    <2>6. e * (c - seq[i]) >= 0
      BY <2>1 DEF Along
    <2>7. m.under = i /\ Mean(seq, i + 1) = [over |-> m.over + c, under |-> i + 1]
      BY <2>1, MeanGrows DEF Mean
    <2>. HIDE DEF c, m, P
    <2>8. Leads(e, c, avg[i])
      BY <2>2, <2>4, <2>5, <2>6, LeadsOn
    <2>9. /\ Before(e, Blend(avg[i], c, period - 1, 2), Blend(m, c, i, 1))
          /\ Leads(e, c, Blend(avg[i], c, period - 1, 2))
      <3>1. period - 1 \in Nat /\ 2 \in Nat /\ 1 \in Nat /\ 2 * (i + 1) >= 1 * (period - 1 + 2)
        BY <2>1
      <3>. QED BY <2>1, <2>2, <2>4, <2>5, <2>8, <3>1, BlendOrder
    <2>10. Before(e, avg[i + 1], Mean(seq, i + 1))
      <3>. DEFINE o == avg[i + 1].over
                  u == avg[i + 1].under
                  s == m.over
      <3>1. o \in Nat /\ u \in Nat /\ s \in Nat
        BY <2>2, <2>4 DEF Averages
      <3>2. Blend(m, c, i, 1) = [over |-> i * s + 1 * c * i, under |-> (i + 1) * i]
        BY <2>7 DEF Blend
      <3>3. e * (o * ((i + 1) * i) - (i * s + 1 * c * i) * u) >= 0
        BY <2>3, <2>9, <3>2 DEF Before
      <3>. DEFINE n == e * (o * (i + 1) - (s + c) * u)
      <3>. HIDE DEF o, u, s
      <3>4. n \in Int
        BY <2>1, <2>4, <3>1
      <3>5. e * (o * ((i + 1) * i) - (i * s + 1 * c * i) * u) = i * n
        BY <2>1, <2>4, <3>1
      <3>6. n >= 0
        <4>. HIDE DEF n
        <4>1. i * n >= 0
          BY <3>3, <3>5
        <4>. QED BY <2>1, <3>4, <4>1
      <3>. QED BY <2>7, <3>6 DEF Before, o, u, s
    <2>. QED BY <2>1, <2>3, <2>9, <2>10 DEF P, c
  <1>. HIDE DEF P
  <1>3. period .. Len(seq) \subseteq P
    BY <1>0, <1>1, <1>2, PlacesClosed
  <1>. QED BY <1>3 DEF P

\* The fast average of a series that moves one way is never behind the slow one.
LEMMA FastLeadsSlow ==
  ASSUME NEW e \in {1, -1}, NEW seq \in Seq(Nat \ {0}), Along(e, seq), SlowPeriod <= Len(seq)
  PROVE  e * Crossing(seq).gap >= 0
  <1>0. /\ FastPeriod \in Nat \ {0} /\ SlowPeriod \in Nat \ {0} /\ FastPeriod < SlowPeriod
        /\ FastPeriod <= Len(seq) /\ Len(seq) \in Nat
    BY SignalsConfig
  <1>1. ASSUME NEW p \in Nat \ {0}, p <= Len(seq)
        PROVE  \E avg : MovesAlong(avg, seq, p) /\ EmaOf(seq, p) = avg[Len(seq)]
    <2>1. PICK avg :
            /\ avg[p] = [over |-> Total(SubSeq(seq, 1, p)), under |-> p]
            /\ \A i \in p + 1 .. Len(seq) : avg[i] = Blend(avg[i - 1], seq[i], p - 1, 2)
            /\ \A i \in p .. Len(seq) : avg[i] \in Averages /\ (p > 1 => avg[i].over > 0)
            /\ EmaOf(seq, p) = avg[Len(seq)]
      BY <1>1, EmaFollows
    <2>2. MovesAlong(avg, seq, p)
      BY <2>1 DEF MovesAlong, Mean
    <2>. QED BY <2>1, <2>2
  <1>2. PICK fast : MovesAlong(fast, seq, FastPeriod) /\ EmaOf(seq, FastPeriod) = fast[Len(seq)]
    BY <1>0, <1>1
  <1>3. PICK slow : MovesAlong(slow, seq, SlowPeriod) /\ EmaOf(seq, SlowPeriod) = slow[Len(seq)]
    BY <1>0, <1>1
  <1>4. \A i \in FastPeriod .. Len(seq) :
          Leads(e, seq[i], fast[i]) /\ Before(e, fast[i], Mean(seq, i))
    BY <1>0, <1>2, AverageLeadsMean
  <1>. DEFINE P == {i \in SlowPeriod .. Len(seq) : Before(e, fast[i], slow[i])}
  <1>5. SlowPeriod \in P
    <2>1. SlowPeriod \in FastPeriod .. Len(seq) /\ SlowPeriod \in SlowPeriod .. Len(seq)
      BY <1>0
    <2>. QED BY <2>1, <1>3, <1>4 DEF MovesAlong
  <1>6. ASSUME NEW i \in SlowPeriod .. Len(seq) - 1, i \in P PROVE i + 1 \in P
    <2>. DEFINE c == seq[i + 1]
    <2>1. /\ i + 1 \in SlowPeriod + 1 .. Len(seq) /\ i + 1 \in FastPeriod + 1 .. Len(seq)
          /\ i \in SlowPeriod .. Len(seq) /\ i \in FastPeriod .. Len(seq)
          /\ (i + 1) - 1 = i /\ i \in 1 .. Len(seq) /\ i + 1 \in 2 .. Len(seq)
          /\ i + 1 \in SlowPeriod .. Len(seq)
      BY <1>0
    <2>2. fast[i] \in Averages /\ fast[i + 1] = Blend(fast[i], c, FastPeriod - 1, 2)
      BY <1>2, <2>1 DEF MovesAlong
    <2>3. slow[i] \in Averages /\ slow[i + 1] = Blend(slow[i], c, SlowPeriod - 1, 2)
      BY <1>3, <2>1 DEF MovesAlong
    <2>4. c \in Nat /\ seq[i] \in Nat
      BY <2>1
    <2>5. e * (c - seq[i]) >= 0
      BY <2>1 DEF Along
    <2>6. Leads(e, seq[i], fast[i]) /\ Before(e, fast[i], slow[i])
      BY <1>4, <1>6, <2>1
    <2>. HIDE DEF c, P
    <2>7. Leads(e, c, fast[i])
      BY <2>2, <2>4, <2>5, <2>6, LeadsOn
    <2>8. Before(e, Blend(fast[i], c, FastPeriod - 1, 2), Blend(slow[i], c, SlowPeriod - 1, 2))
      <3>1. /\ FastPeriod - 1 \in Nat /\ SlowPeriod - 1 \in Nat /\ 2 \in Nat
            /\ 2 * (SlowPeriod - 1 + 2) >= 2 * (FastPeriod - 1 + 2)
        BY <1>0
      <3>. QED BY <2>2, <2>3, <2>4, <2>6, <2>7, <3>1, BlendOrder
    <2>. QED BY <2>1, <2>2, <2>3, <2>8 DEF P
  <1>7. Len(seq) \in P
    <2>. HIDE DEF P
    <2>1. SlowPeriod .. Len(seq) \subseteq P
      BY <1>0, <1>5, <1>6, PlacesClosed
    <2>2. Len(seq) \in SlowPeriod .. Len(seq)
      BY <1>0
    <2>. QED BY <2>1, <2>2
  <1>8. Before(e, EmaOf(seq, FastPeriod), EmaOf(seq, SlowPeriod))
    BY <1>2, <1>3, <1>7
  <1>. QED BY <1>8 DEF Before, Crossing

\* EMA does not vote against a series that moves one way.
LEMMA EmaGoesAlong ==
  ASSUME NEW seq \in Seq(Nat \ {0})
  PROVE  /\ Rose(seq) => Ema(seq).vote # "Sell"
         /\ Fell(seq) => Ema(seq).vote # "Buy"
  <1>1. CASE Len(seq) < SlowPeriod
    BY <1>1 DEF Ema, Neutral, SignalResult
  <1>2. CASE ~(Len(seq) < SlowPeriod)
    <2>. DEFINE gap == Crossing(seq).gap
                base == Crossing(seq).slow
                confidence == (Abs(gap) * 20000) \div base
    <2>1. SlowPeriod <= Len(seq) /\ gap \in Int /\ base \in Nat \ {0}
      BY <1>2, EmaType, SignalsConfig
    <2>2. Ema(seq) = CASE gap * 200 > base  -> SignalResult("Buy", confidence)
                       [] gap * 200 < -base -> SignalResult("Sell", confidence)
                       [] OTHER             -> Neutral
      BY <1>2 DEF Ema
    <2>0. \A i \in 2 .. Len(seq) : seq[i] \in Nat /\ seq[i - 1] \in Nat
      OBVIOUS
    <2>3. Rose(seq) => gap >= 0
      <3>. SUFFICES ASSUME Rose(seq) PROVE gap >= 0
        OBVIOUS
      <3>1. Along(1, seq)
        BY <2>0 DEF Rose, Along
      <3>2. 1 * gap >= 0
        BY <2>1, <3>1, FastLeadsSlow
      <3>. HIDE DEF gap
      <3>. QED BY <2>1, <3>2
    <2>4. Fell(seq) => gap <= 0
      <3>. SUFFICES ASSUME Fell(seq) PROVE gap <= 0
        OBVIOUS
      <3>1. Along(-1, seq)
        BY <2>0 DEF Fell, Along
      <3>2. -1 * gap >= 0
        BY <2>1, <3>1, FastLeadsSlow
      <3>. HIDE DEF gap
      <3>. QED BY <2>1, <3>2
    <2>. HIDE DEF gap, base, confidence
    <2>5. ASSUME gap >= 0 PROVE Ema(seq).vote # "Sell"
      <3>1. ~(gap * 200 < -base)
        BY <2>1, <2>5
      <3>. QED BY <2>2, <3>1 DEF SignalResult, Neutral
    <2>6. ASSUME gap <= 0 PROVE Ema(seq).vote # "Buy"
      <3>1. ~(gap * 200 > base)
        BY <2>1, <2>6
      <3>. QED BY <2>2, <3>1 DEF SignalResult, Neutral
    <2>. QED BY <2>3, <2>4, <2>5, <2>6
  <1>. QED BY <1>1, <1>2

-----------------------------------------------------------------------------
(* RSI of a series that is turned upside down.                             *)

\* RSI's vote on the smoothed gains and losses.
Relative(gains, losses) ==
  LET both == gains + losses
  IN  CASE losses = 0 -> SignalResult("Sell", 1000)
        [] losses > 0 /\ 10 * gains < 3 * both ->
             SignalResult("Buy", (1000 * (3 * both - 10 * gains)) \div (3 * both))
        [] losses > 0 /\ 10 * gains > 7 * both ->
             SignalResult("Sell", (1000 * (10 * gains - 7 * both)) \div (3 * both))
        [] OTHER -> Neutral

\* Gains and losses change places in it, if there are any.
LEMMA RelativeOpposite ==
  ASSUME NEW g \in Nat, NEW l \in Nat, g + l > 0
  PROVE  Relative(l, g) = Opposite(Relative(g, l))
  <1>1. \A c : /\ Opposite(SignalResult("Buy", c)) = SignalResult("Sell", c)
               /\ Opposite(SignalResult("Sell", c)) = SignalResult("Buy", c)
    BY DEF Opposite, SignalResult, Against
  <1>2. Opposite(Neutral) = Neutral
    BY DEF Opposite, Neutral, SignalResult
  <1>. DEFINE both == g + l
              low  == (1000 * (3 * both - 10 * g)) \div (3 * both)
              high == (1000 * (10 * g - 7 * both)) \div (3 * both)
  <1>3. /\ 3 * both - 10 * l = 10 * g - 7 * both /\ 10 * l - 7 * both = 3 * both - 10 * g
        /\ l + g = both
    OBVIOUS
  <1>4. Relative(g, l) = CASE l = 0 -> SignalResult("Sell", 1000)
                           [] l > 0 /\ 10 * g < 3 * both -> SignalResult("Buy", low)
                           [] l > 0 /\ 10 * g > 7 * both -> SignalResult("Sell", high)
                           [] OTHER -> Neutral
    BY DEF Relative
  <1>5. Relative(l, g) = CASE g = 0 -> SignalResult("Sell", 1000)
                           [] g > 0 /\ 10 * l < 3 * both -> SignalResult("Buy", high)
                           [] g > 0 /\ 10 * l > 7 * both -> SignalResult("Sell", low)
                           [] OTHER -> Neutral
    <2>1. Relative(l, g) = CASE g = 0 -> SignalResult("Sell", 1000)
             [] g > 0 /\ 10 * l < 3 * (l + g) ->
                  SignalResult("Buy", (1000 * (3 * (l + g) - 10 * l)) \div (3 * (l + g)))
             [] g > 0 /\ 10 * l > 7 * (l + g) ->
                  SignalResult("Sell", (1000 * (10 * l - 7 * (l + g))) \div (3 * (l + g)))
             [] OTHER -> Neutral
      BY DEF Relative
    <2>. HIDE DEF both
    <2>. QED BY <1>3, <2>1
  <1>6. CASE l = 0
    <2>1. g > 0 /\ 10 * l < 3 * both /\ g # 0 /\ ~(10 * l > 7 * both)
      BY <1>6
    <2>2. high = 1000
      <3>1. 10 * g - 7 * both = 3 * g /\ 3 * both = 3 * g
        BY <1>6
      <3>2. (1000 * (3 * g)) \div (3 * g) = 1000
        <4>1. 3 * g \in Nat \ {0}
          BY <2>1
        <4>2. \A k \in Nat \ {0} : (1000 * k) \div k = 1000
          OBVIOUS
        <4>. QED BY <4>1, <4>2
      <3>. HIDE DEF both
      <3>. QED BY <3>1, <3>2
    <2>. HIDE DEF low, high, both
    <2>3. Relative(g, l) = SignalResult("Sell", 1000)
      BY <1>4, <1>6
    <2>4. Relative(l, g) = SignalResult("Buy", high)
      BY <1>5, <2>1
    <2>. QED BY <1>1, <2>2, <2>3, <2>4
  <1>7. CASE g = 0
    <2>1. l > 0 /\ 10 * g < 3 * both /\ l # 0 /\ ~(10 * g > 7 * both)
      BY <1>7
    <2>2. low = 1000
      <3>1. 3 * both - 10 * g = 3 * l /\ 3 * both = 3 * l
        BY <1>7
      <3>2. (1000 * (3 * l)) \div (3 * l) = 1000
        <4>1. 3 * l \in Nat \ {0}
          BY <2>1
        <4>2. \A k \in Nat \ {0} : (1000 * k) \div k = 1000
          OBVIOUS
        <4>. QED BY <4>1, <4>2
      <3>. HIDE DEF both
      <3>. QED BY <3>1, <3>2
    <2>. HIDE DEF low, high, both
    <2>3. Relative(l, g) = SignalResult("Sell", 1000)
      BY <1>5, <1>7
    <2>4. Relative(g, l) = SignalResult("Buy", low)
      BY <1>4, <2>1
    <2>. QED BY <1>1, <2>2, <2>3, <2>4
  <1>8. CASE l > 0 /\ g > 0
    <2>1. /\ l # 0 /\ g # 0 /\ both \in Nat
          /\ 10 * g < 3 * both <=> 10 * l > 7 * both
          /\ 10 * g > 7 * both <=> 10 * l < 3 * both
          /\ ~(10 * g < 3 * both /\ 10 * g > 7 * both)
      BY <1>8
    <2>. HIDE DEF low, high, both
    <2>2. CASE 10 * g < 3 * both
      <3>1. Relative(g, l) = SignalResult("Buy", low)
        BY <1>4, <1>8, <2>1, <2>2
      <3>2. Relative(l, g) = SignalResult("Sell", low)
        BY <1>5, <1>8, <2>1, <2>2
      <3>. QED BY <1>1, <3>1, <3>2
    <2>3. CASE 10 * g > 7 * both
      <3>1. Relative(g, l) = SignalResult("Sell", high)
        BY <1>4, <1>8, <2>1, <2>3
      <3>2. Relative(l, g) = SignalResult("Buy", high)
        BY <1>5, <1>8, <2>1, <2>3
      <3>. QED BY <1>1, <3>1, <3>2
    <2>4. CASE ~(10 * g < 3 * both) /\ ~(10 * g > 7 * both)
      <3>1. Relative(g, l) = Neutral
        BY <1>4, <2>1, <2>4
      <3>2. Relative(l, g) = Neutral
        BY <1>5, <2>1, <2>4
      <3>. QED BY <1>2, <3>1, <3>2
    <2>. QED BY <2>2, <2>3, <2>4
  <1>. QED BY <1>6, <1>7, <1>8

\* Upside down, gains are losses: RSI votes the other way, if anything moved.
LEMMA RsiFlips ==
  ASSUME NEW seq \in Seq(Nat \ {0}), Len(seq) > RsiPeriod,
         \E i \in 1 .. RsiPeriod : Moves(seq, RsiPeriod)[i] # 0
  PROVE  Rsi([i \in DOMAIN seq |-> -seq[i]]) = Opposite(Rsi(seq))
  <1>. DEFINE flip      == [i \in DOMAIN seq |-> -seq[i]]
              ups(s)    == [i \in DOMAIN Moves(s, RsiPeriod) |-> Above(Moves(s, RsiPeriod)[i])]
              downs(s)  == [i \in DOMAIN Moves(s, RsiPeriod) |-> Above(-Moves(s, RsiPeriod)[i])]
  <1>1. RsiPeriod \in Nat \ {0} /\ Len(seq) \in Nat /\ seq \in Seq(Int)
    <2>1. RsiPeriod \in Nat \ {0} /\ Len(seq) \in Nat
      BY SignalsConfig
    <2>2. seq \in [1 .. Len(seq) -> Int]
      OBVIOUS
    <2>. QED BY <2>1, <2>2
  <1>2. flip \in Seq(Int) /\ Len(flip) = Len(seq) /\ \A i \in 1 .. Len(seq) : flip[i] = -seq[i]
    <2>1. DOMAIN seq = 1 .. Len(seq) /\ \A i \in 1 .. Len(seq) : -seq[i] \in Int
      BY <1>1
    <2>2. flip \in [1 .. Len(seq) -> Int]
      BY <2>1
    <2>. HIDE DEF flip
    <2>3. flip \in Seq(Int) /\ Len(flip) = Len(seq)
      BY <1>1, <2>2
    <2>. QED BY <2>1, <2>3 DEF flip
  <1>. HIDE DEF flip
  <1>3. /\ Moves(seq, RsiPeriod) \in [1 .. RsiPeriod -> Int]
        /\ Moves(flip, RsiPeriod) \in [1 .. RsiPeriod -> Int]
        /\ \A i \in 1 .. RsiPeriod : Moves(flip, RsiPeriod)[i] = -Moves(seq, RsiPeriod)[i]
    <2>. DEFINE n == Len(seq) - RsiPeriod
    <2>1. /\ Moves(seq, RsiPeriod) \in [1 .. RsiPeriod -> Int]
          /\ \A i \in 1 .. RsiPeriod : /\ n + i \in 2 .. Len(seq)
                                       /\ Moves(seq, RsiPeriod)[i] = seq[n + i] - seq[n + i - 1]
      BY <1>1, MovesType
    <2>2. /\ Moves(flip, RsiPeriod) \in [1 .. RsiPeriod -> Int]
          /\ \A i \in 1 .. RsiPeriod : Moves(flip, RsiPeriod)[i] = flip[n + i] - flip[n + i - 1]
      <3>1. Len(flip) > RsiPeriod /\ Len(flip) - RsiPeriod = n
        BY <1>1, <1>2
      <3>2. /\ Moves(flip, RsiPeriod) \in [1 .. RsiPeriod -> Int]
            /\ \A i \in 1 .. RsiPeriod :
                 Moves(flip, RsiPeriod)[i] = flip[Len(flip) - RsiPeriod + i]
                                               - flip[Len(flip) - RsiPeriod + i - 1]
        BY <1>1, <1>2, <3>1, MovesType
      <3>. QED BY <3>1, <3>2
    <2>3. ASSUME NEW i \in 1 .. RsiPeriod
          PROVE  flip[n + i] - flip[n + i - 1] = -(seq[n + i] - seq[n + i - 1])
      <3>0. n \in Int /\ i \in Int
        BY <1>1
      <3>. HIDE DEF n
      <3>1. n + i \in 1 .. Len(seq) /\ n + i - 1 \in 1 .. Len(seq)
        BY <1>1, <2>1, <3>0
      <3>2. flip[n + i] = -seq[n + i] /\ flip[n + i - 1] = -seq[n + i - 1]
        BY <1>2, <3>1
      <3>3. seq[n + i] \in Int /\ seq[n + i - 1] \in Int
        BY <3>1, <1>1
      <3>. QED BY <3>2, <3>3
    <2>. HIDE DEF n
    <2>. QED BY <2>1, <2>2, <2>3
  <1>4. /\ ups(flip) = downs(seq) /\ downs(flip) = ups(seq)
        /\ ups(seq) \in [1 .. RsiPeriod -> Nat] /\ downs(seq) \in [1 .. RsiPeriod -> Nat]
    <2>1. \A i \in 1 .. RsiPeriod :
            /\ Above(Moves(flip, RsiPeriod)[i]) = Above(-Moves(seq, RsiPeriod)[i])
            /\ Above(-Moves(flip, RsiPeriod)[i]) = Above(Moves(seq, RsiPeriod)[i])
            /\ Above(Moves(seq, RsiPeriod)[i]) \in Nat
            /\ Above(-Moves(seq, RsiPeriod)[i]) \in Nat
      BY <1>3 DEF Above
    <2>. QED BY <1>3, <2>1
  <1>5. Wilder(ups(seq)) \in Nat /\ Wilder(downs(seq)) \in Nat
    BY <1>4, WilderType
  <1>6. Wilder(ups(seq)) + Wilder(downs(seq)) > 0
    <2>1. PICK i \in 1 .. RsiPeriod : Moves(seq, RsiPeriod)[i] # 0
      OBVIOUS
    <2>2. /\ ups(seq)[i] = Above(Moves(seq, RsiPeriod)[i])
          /\ downs(seq)[i] = Above(-Moves(seq, RsiPeriod)[i])
          /\ Moves(seq, RsiPeriod)[i] \in Int
      BY <1>3
    <2>3. ups(seq)[i] > 0 \/ downs(seq)[i] > 0
      BY <2>1, <2>2 DEF Above
    <2>. HIDE DEF ups, downs
    <2>4. Wilder(ups(seq)) > 0 \/ Wilder(downs(seq)) > 0
      BY <1>4, <2>3, WilderType
    <2>. QED BY <1>5, <2>4
  <1>7. /\ Rsi(seq) = Relative(Wilder(ups(seq)), Wilder(downs(seq)))
        /\ Rsi(flip) = Relative(Wilder(ups(flip)), Wilder(downs(flip)))
    <2>1. ~(Len(seq) < RsiPeriod + 1) /\ ~(Len(flip) < RsiPeriod + 1)
      BY <1>1, <1>2
    <2>. QED BY <2>1 DEF Rsi, Relative
  <1>. HIDE DEF ups, downs
  <1>8. Rsi(flip) = Opposite(Rsi(seq))
    BY <1>4, <1>5, <1>6, <1>7, RelativeOpposite
  <1>. QED BY <1>8 DEF flip

-----------------------------------------------------------------------------
(* The strategy: its steps are steps of the engine.                        *)

\* The votes on the context.
Votes == [signal \in Names |-> Cast(signal)]

\* The series only grows, and what was read of it does not outgrow it: once there
\* were enough closes for an ATR, there are for ever. A vote is taken on a complete
\* context, the whales of it are swaps of the queue, each on the side that was
\* decoded, and a decision is that of the votes without a macro regime.
StrategyInv ==
  /\ StrategyTypeOK /\ IInv
  /\ stage = "vote" => builder = "done"
  /\ prices = "enough" <=> Len(closes) > AtrPeriod
  /\ Len(closes) <= Len(series)
  /\ WhalesOK(whales) /\ WhalesOf(whales, pending)
  /\ \/ decision.action = "Neutral"
     \/ decision = Decided(results, ContextSize, NoMacro)

\* No place, no whale.
LEMMA NoWhales == WhalesOK(<<>>) /\ \A swaps : WhalesOf(<<>>, swaps)
  <1>1. DOMAIN <<>> = {}
    OBVIOUS
  <1>2. IsFiniteSet({})
    BY FS_EmptySet
  <1>. QED BY <1>1, <1>2 DEF WhalesOK, WhalesOf

LEMMA InitStrategyInv == StrategyInit => StrategyInv
  <1>. SUFFICES ASSUME StrategyInit PROVE StrategyInv
    OBVIOUS
  <1>1. /\ Init /\ series = <<>> /\ poolPrice = 0 /\ pending = <<>> /\ arrived = 0
        /\ builder = "closes" /\ closes = <<>> /\ price = 0 /\ whales = <<>>
    BY DEF StrategyInit
  <1>2. IInv /\ TypeOK
    BY <1>1, InitIInv DEF IInv
  <1>3. AtrPeriod \in Nat /\ MaxLen \in Nat /\ MaxCloses \in Nat
    BY SignalsConfig, StrategyConfig
  <1>4. WhalesOK(whales) /\ WhalesOf(whales, pending)
    BY <1>1, NoWhales
  <1>5. StrategyTypeOK
    <2>1. <<>> \in Seq(Closes \ {0}) /\ <<>> \in Seq(Swaps) /\ Len(<<>>) = 0 /\ DOMAIN <<>> = {}
      OBVIOUS
    <2>. QED BY <1>1, <1>2, <1>3, <2>1 DEF StrategyTypeOK
  <1>6. prices = "few" /\ stage = "classify" /\ decision = Pending
    BY <1>1 DEF Init
  <1>7. decision.action = "Neutral"
    BY <1>6 DEF Pending, Blocked
  <1>8. Len(closes) = 0 /\ Len(series) = 0
    BY <1>1
  <1>. QED BY <1>2, <1>3, <1>4, <1>5, <1>6, <1>7, <1>8 DEF StrategyInv

\* A close pushed: the series stays within its length, and gets no shorter.
LEMMA PushedType ==
  ASSUME series \in Seq(Closes \ {0}), Len(series) <= MaxLen, NEW close \in Closes \ {0}
  PROVE  /\ Pushed(close) \in Seq(Closes \ {0}) /\ Len(Pushed(close)) <= MaxLen
         /\ Len(Pushed(close)) >= Len(series)
  <1>1. Len(series) \in Nat /\ MaxLen \in Nat \ {0}
    <2>1. MaxLen \in Nat \ {0}
      BY StrategyConfig
    <2>. QED BY <2>1
  <1>2. CASE Len(series) >= MaxLen
    <2>. DEFINE rest == Tail(series)
    <2>1. rest \in Seq(Closes \ {0}) /\ Len(rest) = Len(series) - 1
      BY <1>1, <1>2
    <2>2. Pushed(close) = Append(rest, close)
      BY <1>2 DEF Pushed
    <2>. HIDE DEF rest
    <2>3. Append(rest, close) \in Seq(Closes \ {0}) /\ Len(Append(rest, close)) = Len(rest) + 1
      BY <2>1, AppendType
    <2>. QED BY <1>1, <2>1, <2>2, <2>3
  <1>3. CASE ~(Len(series) >= MaxLen)
    <2>1. /\ Append(series, close) \in Seq(Closes \ {0})
          /\ Len(Append(series, close)) = Len(series) + 1
      BY AppendType
    <2>2. Pushed(close) = Append(series, close)
      BY <1>3 DEF Pushed
    <2>. QED BY <1>1, <1>3, <2>1, <2>2
  <1>. QED BY <1>2, <1>3

\* The volatility of a series is the one of its last closes.
LEMMA AtrPctType ==
  ASSUME NEW seq \in Seq(Closes \ {0}), Len(seq) > AtrPeriod
  PROVE  AtrPct(seq) \in Volatilities
  <1>. DEFINE n    == Len(seq) - AtrPeriod
              last == [i \in 1 .. AtrPeriod + 1 |-> seq[n - 1 + i]]
  <1>1. AtrPeriod \in Nat \ {0} /\ Len(seq) \in Nat /\ n \in Nat \ {0}
    BY SignalsConfig
  <1>2. last \in [1 .. AtrPeriod + 1 -> Closes \ {0}]
    <2>1. \A i \in 1 .. AtrPeriod + 1 : n - 1 + i \in 1 .. Len(seq)
      BY <1>1
    <2>. QED BY <2>1
  <1>3. Len(last) = AtrPeriod + 1
    BY <1>1
  <1>4. last[Len(last)] = seq[Len(seq)]
    <2>1. AtrPeriod + 1 \in 1 .. AtrPeriod + 1 /\ n - 1 + (AtrPeriod + 1) = Len(seq)
      BY <1>1
    <2>. HIDE DEF n
    <2>2. last[AtrPeriod + 1] = seq[n - 1 + (AtrPeriod + 1)]
      BY <2>1
    <2>. QED BY <1>3, <2>1, <2>2
  <1>5. Moves(last, AtrPeriod) = Moves(seq, AtrPeriod)
    <2>1. Moves(last, AtrPeriod)
            = [i \in 1 .. AtrPeriod |-> last[(AtrPeriod + 1) - AtrPeriod + i]
                                          - last[(AtrPeriod + 1) - AtrPeriod + i - 1]]
      <3>. HIDE DEF last, n
      <3>. QED BY <1>3 DEF Moves
    <2>2. Moves(seq, AtrPeriod) = [i \in 1 .. AtrPeriod |-> seq[n + i] - seq[n + i - 1]]
      BY DEF Moves
    <2>3. ASSUME NEW i \in 1 .. AtrPeriod
          PROVE  /\ last[(AtrPeriod + 1) - AtrPeriod + i] = seq[n + i]
                 /\ last[(AtrPeriod + 1) - AtrPeriod + i - 1] = seq[n + i - 1]
      <3>1. /\ (AtrPeriod + 1) - AtrPeriod + i = i + 1
            /\ (AtrPeriod + 1) - AtrPeriod + i - 1 = i
            /\ i \in 1 .. AtrPeriod + 1 /\ i + 1 \in 1 .. AtrPeriod + 1
            /\ n - 1 + (i + 1) = n + i /\ n - 1 + i = n + i - 1
        BY <1>1
      <3>2. last[i] = seq[n - 1 + i] /\ last[i + 1] = seq[n - 1 + (i + 1)]
        BY <3>1
      <3>. HIDE DEF last, n
      <3>. QED BY <3>1, <3>2
    <2>. HIDE DEF last, n
    <2>. QED BY <2>1, <2>2, <2>3
  <1>6. AtrPct(last) \in Volatilities
    BY <1>2, StrategyConfig
  <1>. HIDE DEF last
  <1>. QED BY <1>4, <1>5, <1>6 DEF AtrPct

\* Every signal casts a vote on the context.
LEMMA VotesType ==
  ASSUME StrategyTypeOK, WhalesOK(whales)
  PROVE  Votes \in [Signals -> Results]
  <1>1. closes \in Seq(Nat \ {0}) /\ closes \in Seq(Int)
    <2>1. closes \in [1 .. Len(closes) -> Closes \ {0}] /\ Len(closes) \in Nat
      BY DEF StrategyTypeOK
    <2>2. Closes \subseteq Nat
      BY StrategyConfig
    <2>. DEFINE D == 1 .. Len(closes)
    <2>3. \A i \in D : closes[i] \in Nat \ {0} /\ closes[i] \in Int
      <3>1. \A i \in D : closes[i] \in Closes \ {0}
        BY <2>1
      <3>2. \A c \in Closes \ {0} : c \in Nat \ {0} /\ c \in Int
        BY <2>2
      <3>. QED BY <3>1, <3>2
    <2>4. closes = [i \in D |-> closes[i]]
      BY <2>1
    <2>5. closes \in [D -> Nat \ {0}] /\ closes \in [D -> Int]
      <3>. HIDE DEF D
      <3>. QED BY <2>3, <2>4
    <2>. QED BY <2>1, <2>5
  <1>2. Rsi(closes) \in Results
    BY <1>1, RsiType
  <1>3. Ema(closes) \in Results
    BY <1>1, EmaType
  <1>4. OrderBook \in Results
    BY OrderBookNeutral, SignalResultType
  <1>5. OnchainFlow(whales, closes, price) \in Results
    BY OnchainFlowType
  <1>6. /\ Cast("RSI") = Rsi(closes) /\ Cast("EMA") = Ema(closes)
        /\ Cast("OrderBook") = OrderBook
        /\ Cast("OnchainFlow") = OnchainFlow(whales, closes, price)
    BY DEF Cast
  <1>7. \A signal \in Names : Cast(signal) \in Results
    BY <1>2, <1>3, <1>4, <1>5, <1>6 DEF Names
  <1>8. Signals = Names
    BY StrategyConfig
  <1>. QED BY <1>7, <1>8 DEF Votes

\* Every step of the strategy is a step of the engine, or none. It is here that a
\* context never goes back to having too few closes, and that every vote is cast.
LEMMA EngineStep == StrategyInv /\ [StrategyNext]_strategyVars => [Next]_vars
  <1>. SUFFICES ASSUME StrategyInv, [StrategyNext]_strategyVars PROVE [Next]_vars
    OBVIOUS
  <1>0. /\ StrategyTypeOK /\ TypeOK /\ WhalesOK(whales)
        /\ Len(closes) \in Nat /\ Len(series) \in Nat /\ AtrPeriod \in Nat
        /\ Len(closes) <= Len(series)
        /\ prices \in {"few", "enough"} /\ (prices = "enough" <=> Len(closes) > AtrPeriod)
    BY SignalsConfig DEF StrategyInv, StrategyTypeOK, TypeOK
  <1>1. CASE CloseArrives
    BY <1>1 DEF CloseArrives, contextVars, engineVars, vars
  <1>2. CASE PoolMoves
    BY <1>2 DEF PoolMoves, contextVars, engineVars, vars
  <1>3. CASE SwapHeard
    BY <1>3 DEF SwapHeard, contextVars, engineVars, vars
  <1>4. CASE ReadCloses
    <2>1. /\ prices' = IF Len(series) > AtrPeriod THEN "enough" ELSE "few"
          /\ UNCHANGED <<history, regime, stage, results, decision>>
      BY <1>4 DEF ReadCloses, engineVars
    <2>2. CASE prices = "enough"
      BY <1>0, <2>1, <2>2 DEF vars
    <2>3. CASE prices = "few" /\ prices' = "few"
      BY <2>1, <2>3 DEF vars
    <2>4. CASE prices = "few" /\ prices' = "enough"
      BY <2>1, <2>4 DEF SeriesFills, Next
    <2>. QED BY <1>0, <2>1, <2>2, <2>3, <2>4
  <1>5. CASE ReadPrice
    BY <1>5 DEF ReadPrice, engineVars, vars
  <1>6. CASE ReadSwaps
    BY <1>6 DEF ReadSwaps, engineVars, vars
  <1>7. CASE ClassifyContext
    <2>1. /\ stage = "classify" /\ stage' = "vote" /\ results' = NoVotes /\ decision' = Pending
          /\ prices' = prices
      BY <1>7 DEF ClassifyContext, contextVars
    <2>2. CASE Len(closes) < AtrPeriod + 1
      <3>1. prices = "few"
        BY <1>0, <2>2
      <3>2. regime' = "Ranging" /\ history' = history
        BY <1>7, <2>2 DEF ClassifyContext
      <3>. QED BY <2>1, <3>1, <3>2 DEF ClassifyNothing, Evaluate, Next
    <2>3. CASE ~(Len(closes) < AtrPeriod + 1)
      <3>1. prices = "enough" /\ Len(closes) > AtrPeriod
        BY <1>0, <2>3
      <3>2. history' = Remember(AtrPct(closes)) /\ regime' = Classified(history')
        BY <1>7, <2>3 DEF ClassifyContext
      <3>3. AtrPct(closes) \in Volatilities
        BY <1>0, <3>1, AtrPctType DEF StrategyTypeOK
      <3>. QED BY <2>1, <3>1, <3>2, <3>3 DEF Classify, Evaluate, Next
    <2>. QED BY <2>2, <2>3
  <1>8. CASE GateBlocksContext
    <2>1. NoMacro \in Macros /\ Size(regime, NoMacro) <= 0
      BY <1>8, StrategyConfig DEF GateBlocksContext, ContextSize
    <2>2. GateBlocks
      BY <1>8, <2>1 DEF GateBlocksContext, ContextUsed, GateBlocks
    <2>. QED BY <2>2 DEF Evaluate, Next
  <1>9. CASE DecideOnContext
    <2>1. NoMacro \in Macros
      BY StrategyConfig
    <2>2. results' = Votes /\ results' \in [Signals -> Results]
      BY <1>0, <1>9, VotesType DEF DecideOnContext, Votes
    <2>3. /\ Size(regime, NoMacro) > 0
          /\ decision' = Decided(results', Size(regime, NoMacro), NoMacro)
      BY <1>9 DEF DecideOnContext, ContextSize
    <2>4. Vote
      BY <1>9, <2>1, <2>2, <2>3 DEF DecideOnContext, ContextUsed, Vote
    <2>. QED BY <2>4 DEF Evaluate, Next
  <1>10. CASE UNCHANGED strategyVars
    BY <1>10 DEF strategyVars, contextVars, engineVars, vars
  <1>. QED BY <1>1, <1>2, <1>3, <1>4, <1>5, <1>6, <1>7, <1>8, <1>9, <1>10
         DEF StrategyNext, Feeds, Loop

\* The types of the feeds and of the context.
LEMMA ContextTypeStep ==
  ASSUME StrategyInv, [StrategyNext]_strategyVars, TypeOK'
  PROVE  /\ StrategyTypeOK' /\ (Len(closes) <= Len(series))'
         /\ WhalesOK(whales)' /\ WhalesOf(whales, pending)'
  <1>0. /\ StrategyTypeOK /\ WhalesOK(whales) /\ WhalesOf(whales, pending) /\ Len(closes) <= Len(series)
        /\ series \in Seq(Closes \ {0}) /\ Len(series) <= MaxLen /\ Len(series) \in Nat
        /\ closes \in Seq(Closes \ {0}) /\ Len(closes) <= MaxLen /\ Len(closes) \in Nat
        /\ MaxLen \in Nat
    <2>1. MaxLen \in Nat
      BY StrategyConfig
    <2>. QED BY <2>1 DEF StrategyInv, StrategyTypeOK
  <1>. DEFINE Same == UNCHANGED <<builder, closes, price, whales>>
  <1>1. CASE CloseArrives
    <2>1. PICK close \in Closes : close > 0 /\ series' = Pushed(close)
      BY <1>1 DEF CloseArrives
    <2>2. close \in Closes \ {0}
      BY <2>1
    <2>3. /\ series' \in Seq(Closes \ {0}) /\ Len(series') <= MaxLen
          /\ Len(series') >= Len(series) /\ Len(series') \in Nat
      BY <1>0, <2>1, <2>2, PushedType
    <2>4. arrived' \in 0 .. MaxCloses
      <3>1. arrived \in 0 .. MaxCloses
        BY <1>0 DEF StrategyTypeOK
      <3>2. MaxCloses \in Nat
        BY StrategyConfig
      <3>. QED BY <1>1, <3>1, <3>2 DEF CloseArrives
    <2>5. Same /\ UNCHANGED <<poolPrice, pending>>
      BY <1>1 DEF CloseArrives, contextVars
    <2>6. StrategyTypeOK'
      BY <1>0, <2>3, <2>4, <2>5 DEF StrategyTypeOK
    <2>. QED BY <1>0, <2>3, <2>5, <2>6
  <1>2. CASE PoolMoves
    BY <1>0, <1>2 DEF PoolMoves, contextVars, StrategyTypeOK
  <1>3. CASE SwapHeard
    <2>1. PICK swap \in Swaps : pending' = Append(pending, swap)
      BY <1>3 DEF SwapHeard
    <2>2. pending' \in Seq(Swaps)
      BY <1>0, <2>1, AppendType DEF StrategyTypeOK
    <2>3. WhalesOf(whales, pending')
      <3>1. pending \in Seq(Swaps) /\ \A i \in DOMAIN pending : /\ i \in DOMAIN pending'
                                                               /\ pending'[i] = pending[i]
        BY <1>0, <2>1 DEF StrategyTypeOK
      <3>. QED BY <1>0, <3>1 DEF WhalesOf
    <2>. QED BY <1>0, <1>3, <2>2, <2>3 DEF SwapHeard, contextVars, StrategyTypeOK
  <1>4. CASE ReadCloses
    BY <1>0, <1>4 DEF ReadCloses, feedVars, StrategyTypeOK
  <1>5. CASE ReadPrice
    BY <1>0, <1>5 DEF ReadPrice, feedVars, StrategyTypeOK
  <1>6. CASE ReadSwaps
    <2>1. price \in Nat
      <3>1. price \in PoolPrices \union {0}
        BY <1>0 DEF StrategyTypeOK
      <3>2. PoolPrices \subseteq Nat
        BY StrategyConfig
      <3>. QED BY <3>1, <3>2
    <2>2. WhalesOK(whales') /\ WhalesOf(whales', pending)
      BY <1>0, <1>6, <2>1, WhalesPicked DEF ReadSwaps, StrategyTypeOK
    <2>3. \A i \in DOMAIN whales' : whales'[i].usd >= WhaleThreshold
      BY <2>2 DEF WhalesOK
    <2>. QED BY <1>0, <1>6, <2>2, <2>3 DEF ReadSwaps, feedVars, StrategyTypeOK
  <1>7. CASE ClassifyContext
    BY <1>0, <1>7 DEF ClassifyContext, feedVars, contextVars, StrategyTypeOK
  <1>8. CASE ContextUsed
    <2>1. WhalesOK(whales') /\ WhalesOf(whales', pending) /\ DOMAIN whales' = {}
      BY <1>8, NoWhales DEF ContextUsed
    <2>. QED BY <1>0, <1>8, <2>1 DEF ContextUsed, feedVars, StrategyTypeOK
  <1>9. CASE UNCHANGED strategyVars
    BY <1>0, <1>9 DEF strategyVars, feedVars, contextVars, StrategyTypeOK
  <1>. QED BY <1>1, <1>2, <1>3, <1>4, <1>5, <1>6, <1>7, <1>8, <1>9
         DEF StrategyNext, Feeds, Loop, GateBlocksContext, DecideOnContext

LEMMA NextStrategyInv == StrategyInv /\ [StrategyNext]_strategyVars => StrategyInv'
  <1>. SUFFICES ASSUME StrategyInv, [StrategyNext]_strategyVars PROVE StrategyInv'
    OBVIOUS
  <1>1. IInv' /\ TypeOK'
    BY EngineStep, NextIInv DEF StrategyInv, IInv
  <1>2. /\ StrategyTypeOK' /\ (Len(closes) <= Len(series))'
        /\ WhalesOK(whales)' /\ WhalesOf(whales, pending)'
    BY <1>1, ContextTypeStep
  <1>3. (stage = "vote" => builder = "done")'
    BY DEF StrategyInv, StrategyNext, Feeds, Loop, CloseArrives, PoolMoves, SwapHeard, ReadCloses,
           ReadPrice, ReadSwaps, ClassifyContext, GateBlocksContext, DecideOnContext, ContextUsed,
           strategyVars, engineVars
  <1>4. (prices = "enough" <=> Len(closes) > AtrPeriod)'
    <2>1. CASE ReadCloses
      BY <2>1 DEF ReadCloses
    <2>2. CASE UNCHANGED <<prices, closes>>
      BY <2>2 DEF StrategyInv
    <2>. QED BY <2>1, <2>2 DEF StrategyNext, Feeds, Loop, CloseArrives, PoolMoves, SwapHeard,
           ReadPrice, ReadSwaps, ClassifyContext, GateBlocksContext, DecideOnContext, ContextUsed,
           strategyVars, contextVars
  <1>5. (\/ decision.action = "Neutral"
         \/ decision = Decided(results, ContextSize, NoMacro))'
    <2>1. CASE ClassifyContext
      BY <2>1 DEF ClassifyContext, Pending, Blocked
    <2>2. CASE GateBlocksContext
      BY <2>2 DEF GateBlocksContext, Blocked
    <2>3. CASE DecideOnContext
      <3>1. /\ results' = Votes /\ decision' = Decided(Votes, ContextSize, NoMacro)
            /\ ContextSize' = ContextSize
        BY <2>3 DEF DecideOnContext, ContextUsed, ContextSize, Votes
      <3>. QED BY <3>1
    <2>4. CASE UNCHANGED engineVars
      BY <2>4 DEF StrategyInv, engineVars, ContextSize
    <2>. QED BY <2>1, <2>2, <2>3, <2>4
           DEF StrategyNext, Feeds, Loop, CloseArrives, PoolMoves, SwapHeard, ReadCloses,
               ReadPrice, ReadSwaps, strategyVars
  <1>. QED BY <1>1, <1>2, <1>3, <1>4, <1>5 DEF StrategyInv

THEOREM StrategyInvariant == StrategySpec => []StrategyInv
  BY InitStrategyInv, NextStrategyInv, PTL DEF StrategySpec

\* The state keeps its types: series and context stay within their lengths, the
\* queue holds swaps, and what the engine remembers and decides is its own.
THEOREM StrategyTypeCorrect == StrategySpec => []StrategyTypeOK
  BY StrategyInvariant, PTL DEF StrategyInv

\* Over what the signals compute, the engine behaves as Consensus says it does when
\* votes are free: no context makes a signal fail, leave its range or go unheard.
THEOREM ImplementsConsensus == StrategySpec => KeepsConsensus
  <1>1. StrategyInit => Init
    BY DEF StrategyInit
  <1>. QED BY <1>1, EngineStep, StrategyInvariant, PTL DEF StrategySpec, KeepsConsensus, Safety

\* Neither of the signals on prices takes a side, whatever the periods and the closes.
THEOREM BothWays == StrategySpec => []PricesReadBothWays
  <1>1. StrategyInv => PricesReadBothWays
    <2>. SUFFICES ASSUME StrategyInv PROVE PricesReadBothWays
      OBVIOUS
    <2>1. closes \in Seq(Nat \ {0})
      <3>1. closes \in Seq(Closes \ {0})
        BY DEF StrategyInv, StrategyTypeOK
      <3>2. \A c \in Closes \ {0} : c \in Nat \ {0}
        BY StrategyConfig
      <3>3. \A i \in 1 .. Len(closes) : closes[i] \in Nat \ {0}
        BY <3>1, <3>2
      <3>4. Len(closes) \in Nat /\ closes = [i \in 1 .. Len(closes) |-> closes[i]]
        BY <3>1
      <3>. QED BY <3>3, <3>4
    <2>. QED BY <2>1, RsiFlips, EmaGoesAlong DEF PricesReadBothWays
  <1>. QED BY <1>1, StrategyInvariant, PTL

\* A swap that was decoded as a purchase speaks for buying if at all, and one decoded as
\* a sale for selling, whatever they carry, whose they are and what the price does.
THEOREM WhalesPull == StrategySpec => []WhalesPullTheirWay
  <1>1. StrategyInv => WhalesPullTheirWay
    <2>. SUFFICES ASSUME StrategyInv, NEW i \in DOMAIN whales
                  PROVE  LET with    == Lean(OnchainFlow(whales, closes, price))
                             rest    == Restrict(whales, DOMAIN whales \ {i})
                             without == Lean(OnchainFlow(rest, closes, price))
                         IN  /\ pending[i].direction = "Buy"  => without <= with
                             /\ pending[i].direction = "Sell" => without >= with
      BY DEF WhalesPullTheirWay
    <2>1. WhalesOK(whales) /\ WhalesOf(whales, pending)
      BY DEF StrategyInv
    <2>2. /\ pending[i].direction = "Buy"  => whales[i].isBuy = TRUE
          /\ pending[i].direction = "Sell" => whales[i].isBuy = FALSE
      BY <2>1 DEF WhalesOf
    <2>. QED BY <2>1, <2>2, FlowFollows
  <1>. QED BY <1>1, StrategyInvariant, PTL

\* What the bot trades on is backed, without a condition on the macro regimes: none is
\* ever set. The rest is what TradesBacked says of Consensus.
THEOREM StrategyTradesBacked ==
  ASSUME Majority
  PROVE  StrategySpec => []TradesAreBacked
  <1>1. StrategyInv => TradesAreBacked
    <2>. SUFFICES ASSUME StrategyInv, decision.action # "Neutral" PROVE TradesAreBacked
      BY DEF TradesAreBacked
    <2>1. results \in [Signals -> Results]
      BY DEF StrategyInv, IInv, TypeOK
    <2>2. decision = Decided(results, ContextSize, NoMacro) /\ NoMacro.modifier \in 0 .. 1000
      BY DEF StrategyInv, NoMacro
    <2>. QED BY <2>1, <2>2, DecidedBacked DEF TradesAreBacked
  <1>. QED BY <1>1, StrategyInvariant, PTL
=============================================================================
