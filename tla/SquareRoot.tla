----------------------------- MODULE SquareRoot -----------------------------
(***************************************************************************)
(* DSMath.sqrt(y, guess), Newton's iteration from a guess, one turn of its *)
(* loop at a time.  MasterWombat takes the boosting factor of a stake with *)
(* it, the stableswap core (SignedSafeMath) the solutions of its quadratic *)
(* equations, with the same loop.                                          *)
(***************************************************************************)
EXTENDS RootMath

CONSTANTS Inputs,     \* values of y
          Guesses     \* values of guess

ASSUME SquareRootAssumption == Inputs \subseteq Nat /\ Guesses \subseteq Nat

VARIABLES radicand,   \* y
          root,       \* z, the result
          estimate,   \* x, the next estimate
          returned    \* whether the function has returned

sqrtVars == <<radicand, root, estimate, returned>>

Improve(r) == (radicand \div r + r) \div 2

\* Where the iteration starts.
Start(n, guess) == IF guess > n \/ guess = 0 THEN n ELSE guess

SqrtInit ==
  /\ radicand \in Inputs
  /\ IF radicand > 3
     THEN /\ \E guess \in Guesses : root = Start(radicand, guess)
          /\ estimate = Improve(root)
          /\ returned = FALSE
     ELSE /\ root = IF radicand = 0 THEN 0 ELSE 1
          /\ estimate = root
          /\ returned = TRUE

\* Mutant: the loop also turns when nothing changes any more.
LoopTurnForever ==
  /\ ~returned
  /\ root' = IF estimate = root THEN root + 1 ELSE estimate
  /\ estimate' = (radicand \div estimate + estimate) \div 2
  /\ UNCHANGED <<radicand, returned>>

\* while (x != z) { z = x; x = (y / x + x) / 2; }
LoopTurn ==
  /\ ~returned /\ estimate # root
  /\ root' = estimate
  /\ estimate' = (radicand \div estimate + estimate) \div 2
  /\ UNCHANGED <<radicand, returned>>

\* Mutant: returns once the estimates are neighbours.
ReturnClose ==
  /\ ~returned /\ estimate - root \in {0 - 1, 0, 1}
  /\ returned' = TRUE
  /\ UNCHANGED <<radicand, root, estimate>>

Return ==
  /\ ~returned /\ estimate = root
  /\ returned' = TRUE
  /\ UNCHANGED <<radicand, root, estimate>>

SqrtNext == LoopTurn \/ Return

SqrtSpec == SqrtInit /\ [][SqrtNext]_sqrtVars

\* A transaction runs until it returns (or out of gas).
SqrtFairSpec == SqrtSpec /\ WF_sqrtVars(SqrtNext)
-----------------------------------------------------------------------------
\* The result of the function is the integer square root, from any guess.
ReturnsRoot == returned => IsFloorRoot(root, radicand)

\* For such an input the loop never ends, whatever the guess: the two estimates
\* n - 1 and n follow each other.  (The shortest inputs do not enter it.)
NeverReturnsOneBelowSquare == radicand > 3 /\ OneBelowSquare(radicand) => ~returned

\* The loop ends for every input that is not one below a square.
EndsUnlessOneBelowSquare == <>(returned \/ OneBelowSquare(radicand))

\* The comment above the function: it is the Babylonian method, which
\* computes the square root (DSMath.sol:37), so a call returns.
AlwaysReturns == <>returned
=============================================================================
