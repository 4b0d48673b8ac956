------------------------------ MODULE RootMath ------------------------------
(***************************************************************************)
(* The integer square root, as a fact about numbers: what DSMath.sqrt and  *)
(* SignedSafeMath.sqrt are for, whatever their loops do.                   *)
(***************************************************************************)
EXTENDS Integers, FiniteSets

IsFloorRoot(z, y) == z * z <= y /\ y < (z + 1) * (z + 1)

\* How many positive squares do not exceed y.
FloorRoot(y) == Cardinality({n \in 1..y : n * n <= y})

\* y is one below the square of n: both n - 1 and n look like roots of y.
OneBelowSquareOf(n, y) == y + 1 = n * n

OneBelowSquare(y) == \E n \in 1..y : OneBelowSquareOf(n, y)

\* DSMath.sqrt(y, guess) returns, whatever the guess (module SquareRoot).
RootReturns(y) == y <= 3 \/ ~OneBelowSquare(y)
=============================================================================
