---------------------------- MODULE CreditLedger ----------------------------
(***************************************************************************)
(* What the cross-chain pools promise their users, with the pools, the     *)
(* adaptors and the network left out.  Credit is issued on one chain and   *)
(* leaves as a transfer; every transfer is settled once, either in tokens  *)
(* (the credit is burned where it arrives) or as a credit balance of its   *)
(* receiver; a balance is spent on its own chain or sent on as a transfer. *)
(* WormholeBridge and LayerZeroBridge are shown to implement this module.  *)
(***************************************************************************)
EXTENDS Sums

CONSTANTS Chains,       \* the chains a CrossChainPool is deployed on
          Users,        \* owners of credit
          Transfers     \* records with fields id, src, dst, credit, receiver

VARIABLES net,      \* net[c]: credit minted minus credit burned on chain c
          issued,   \* ids of the transfers issued so far
          transit,  \* transfers not settled yet
          credit    \* credit[c][u]: u's credit balance on c

vars == <<net, issued, transit, credit>>

Init ==
  /\ net = [c \in Chains |-> 0]
  /\ issued = {}
  /\ transit = {}
  /\ credit = [c \in Chains |-> [u \in Users |-> 0]]

Leave(t) ==
  /\ t.id \notin issued
  /\ issued' = issued \cup {t.id}
  /\ transit' = transit \cup {t}

Spend(c, u, amount) ==
  /\ amount <= credit[c][u]
  /\ credit' = [credit EXCEPT ![c][u] = @ - amount]

\* Tokens are paid in on t.src and credit for them leaves for t.dst.
Issue(t) ==
  /\ Leave(t)
  /\ net' = [net EXCEPT ![t.src] = @ + t.credit]
  /\ UNCHANGED credit

\* u sends credit it holds on t.src to another chain.
Forward(t, u) ==
  /\ Leave(t)
  /\ Spend(t.src, u, t.credit)
  /\ UNCHANGED net

\* A transfer arrives and is paid out in tokens.
Redeem(t) ==
  /\ t \in transit
  /\ transit' = transit \ {t}
  /\ net' = [net EXCEPT ![t.dst] = @ - t.credit]
  /\ UNCHANGED <<issued, credit>>

\* A transfer arrives, cannot be paid out, and becomes a balance.
Park(t) ==
  /\ t \in transit
  /\ transit' = transit \ {t}
  /\ credit' = [credit EXCEPT ![t.dst][t.receiver] = @ + t.credit]
  /\ UNCHANGED <<net, issued>>

\* u swaps credit it holds on c for tokens of c.
RedeemBalance(c, u, amount) ==
  /\ Spend(c, u, amount)
  /\ net' = [net EXCEPT ![c] = @ - amount]
  /\ UNCHANGED <<issued, transit>>

CreditAmounts == {t.credit : t \in Transfers}

Next ==
  \/ \E t \in Transfers : \/ Issue(t)
                          \/ \E u \in Users : Forward(t, u)
                          \/ Redeem(t)
                          \/ Park(t)
  \/ \E c \in Chains, u \in Users, amount \in CreditAmounts : RedeemBalance(c, u, amount)

Spec == Init /\ [][Next]_vars

(***************************************************************************)
(* No credit is made or lost on the way: what the pools minted and did not *)
(* burn again is exactly what is still travelling plus what users hold.    *)
(* (CrossChainPool.sol, totalCreditMinted, totalCreditBurned and           *)
(* creditBalance, summed over the chains.)                                 *)
(***************************************************************************)
Outstanding == SumOver(net, Chains)
InTransit   == SumOver([t \in transit |-> t.credit], transit)
Held        == SumOver([p \in Chains \X Users |-> credit[p[1]][p[2]]], Chains \X Users)

Conservation == Outstanding = InTransit + Held
=============================================================================
