--------------------------- MODULE MCMasterWombat ---------------------------
(* MasterWombat for TLC.                                                   *)
EXTENDS MasterWombat, TLC

UserSymmetry == Permutations(Users)
=============================================================================
