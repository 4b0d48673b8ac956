-------------------------- MODULE MCWormholeBridge --------------------------
(* WormholeBridge for TLC: two chains that are interchangeable.            *)
EXTENDS WormholeBridge, TLC

ChainSymmetry == Permutations(Chains)
=============================================================================
