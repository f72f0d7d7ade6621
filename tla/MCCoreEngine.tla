---------------------------- MODULE MCCoreEngine ----------------------------
(* Instances of CoreEngine for TLC.                                        *)
EXTENDS CoreEngine, TLC

OnePair == {[base |-> "ETH", quote |-> "USDC"]}

Symmetry == Permutations(OrderIds) \cup Permutations(Users)
=============================================================================
