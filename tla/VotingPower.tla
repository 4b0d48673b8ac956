---------------------------- MODULE VotingPower ----------------------------
(***************************************************************************)
(* What veWOM and the Voter promise together: each user has some voting    *)
(* power and spreads at most that much over the gauges.  Power is granted  *)
(* at any time; it is only taken back as far as the votes leave it free.   *)
(***************************************************************************)
EXTENDS Sums

CONSTANTS Users, Gauges, Grants     \* Grants: amounts granted or revoked at once

VARIABLES power, alloc

powerVars == <<power, alloc>>

TotalOf(f) == SumOver(f, Gauges)

Init ==
  /\ power = [u \in Users |-> 0]
  /\ alloc = [u \in Users |-> [g \in Gauges |-> 0]]

Grant(u, n) ==
  /\ power' = [power EXCEPT ![u] = @ + n]
  /\ UNCHANGED alloc

Revoke(u, n) ==
  /\ power[u] - n >= TotalOf(alloc[u])
  /\ power' = [power EXCEPT ![u] = @ - n]
  /\ UNCHANGED alloc

\* The votes of u become f, which the power of u covers.
Assign(u, f) ==
  /\ TotalOf(f) <= power[u]
  /\ alloc' = [alloc EXCEPT ![u] = f]
  /\ UNCHANGED power

Next ==
  \E u \in Users :
    \/ \E n \in Grants : Grant(u, n) \/ Revoke(u, n)
    \/ \E f \in [Gauges -> 0..power[u]] : Assign(u, f)

Spec == Init /\ [][Next]_powerVars
=============================================================================
