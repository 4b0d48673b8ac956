------------------------------ MODULE MCVoter ------------------------------
(* Voter for TLC: ballots with one and with two entries, the latter also   *)
(* for the same gauge twice; every lock is of one day.                     *)
EXTENDS Voter, TLC

CONSTANTS g1, g2, b1

Entry(g, n) == [lp |-> g, delta |-> n]

MCBallots == {<<Entry(g1, 2)>>, <<Entry(g1, 0 - 1), Entry(g2, 1)>>, <<Entry(g2, 2), Entry(g2, 0 - 1)>>,
              <<Entry(g2, 1)>>, <<Entry(g1, 0 - 1)>>}
\* All votes go to one gauge and then move, one by one.
MCMoves == {<<Entry(g1, 2)>>, <<Entry(g1, 0 - 1), Entry(g2, 1)>>}

MCSqrtDays == 1 :> 1
MCLpTokenOf == b1 :> g1
MCNoBribes == <<>>
=============================================================================
