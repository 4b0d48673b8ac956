------------------------------ MODULE MCVeWom ------------------------------
(* VeWom for TLC: two users, one of them a contract.                       *)
EXTENDS VeWom, TLC

\* Square roots of 1 and 2 days, rounded, in units of 1 / WAD, with WAD = 2.
MCSqrtDays == 1 :> 2 @@ 2 :> 3
=============================================================================
