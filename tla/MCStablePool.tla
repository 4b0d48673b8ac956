---------------------------- MODULE MCStablePool ----------------------------
(* One token with 18 decimals and a rebasing one with fewer. *)
EXTENDS StablePool, TLC
CONSTANTS usd, rebasing

MCScale == usd :> 1 @@ rebasing :> 2
MCSlips == {-1, 0}
MCInitialFeeSplits == {[lp |-> 2, retention |-> 0]}
MCFeeSplits == {[lp |-> 2, retention |-> 2]}
=============================================================================
