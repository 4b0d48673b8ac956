---------------------------- MODULE MCSquareRoot ----------------------------
(* SquareRoot for TLC: every y below the bound with every guess.           *)
EXTENDS SquareRoot
MCInputs == 0..70
=============================================================================
