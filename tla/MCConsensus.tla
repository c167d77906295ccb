----------------------------- MODULE MCConsensus ----------------------------
(* Consensus for TLC: without a macro regime, and with one that sizes the   *)
(* trade itself and asks for more confidence.                               *)
EXTENDS Consensus

TwoMacros == {NoMacro, [size |-> 250, modifier |-> 800]}
=============================================================================
