-------------------------------- MODULE Sums --------------------------------
(* Sums over finite sets: of balances, votes, weights and credit.          *)
EXTENDS Integers, FiniteSetsExt

\* The sum of f[x] over the elements x of the finite set S.
SumOver(f, S) == MapThenSumSet(LAMBDA x : f[x], S)
=============================================================================
