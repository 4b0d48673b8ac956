--------------------------- MODULE LayerZeroBridge ---------------------------
(***************************************************************************)
(* The CrossChainPools joined by LayerZeroAdaptors and the LayerZero       *)
(* endpoint.  The endpoint is external: it delivers the messages of a path *)
(* in order, and a message whose delivery reverts blocks its path until it *)
(* is retried or the receiving application drops it.                       *)
(***************************************************************************)
EXTENDS CrossChainPool, SequencesExt

CONSTANTS
  NoAdaptor,        \* an empty trustedRemoteLookup entry
  MaxMessages,      \* bound: messages sent in a behaviour
  MaxPoolOps,       \* bound: PoolAdmin and MintFee steps
  MaxRewires        \* bound: changes of adaptors and remotes, forced resumes

ASSUME BridgeAssumption ==
  /\ NoAdaptor \notin Adaptors
  /\ MaxMessages \in Nat \ {0} /\ MaxPoolOps \in Nat /\ MaxRewires \in Nat

VARIABLES
  \* Each adaptor deployment a on each chain c:
  trustedRemote,    \* trustedRemoteLookup[c][a][d]: the peer on chain d
  validToken,       \* validToken[c][a]: chains whose token is approved
  failedMessages,   \* failedMessages[c][a]: messages stored for retryMessage
  \* The endpoint:
  path,             \* path[p]: messages sent along p and not yet received
  blocked,          \* paths whose first message reverted (stored payload)
  nonce,            \* messages sent so far
  dropped,          \* messages dropped by forceResumeReceive
  \* Bounds:
  poolOps, rewires

adaptorVars  == <<trustedRemote, validToken>>
endpointVars == <<path, blocked, nonce, dropped>>
boundVars    == <<poolOps, rewires>>
vars == <<poolVars, adaptorVars, failedMessages, endpointVars, boundVars>>

Paths == [src : Chains, from : Adaptors, dst : Chains, to : Adaptors]

Message == [id : 1..MaxMessages, src : Chains, from : Adaptors,
            dst : Chains, to : Adaptors,
            credit : Credits \ {0}, minTo : MinAmounts, receiver : Users]

PathOf(m) == [src |-> m.src, from |-> m.from, dst |-> m.dst, to |-> m.to]

TypeOK ==
  /\ PoolTypeOK
  /\ trustedRemote \in [Chains -> [Adaptors -> [Chains -> Adaptors \cup {NoAdaptor}]]]
  /\ validToken \in [Chains -> [Adaptors -> SUBSET Chains]]
  /\ failedMessages \in [Chains -> [Adaptors -> SUBSET Message]]
  /\ DOMAIN path = Paths
  /\ \A p \in Paths : \A i \in DOMAIN path[p] :
        path[p][i] \in Message /\ PathOf(path[p][i]) = p
  /\ blocked \subseteq Paths
  /\ nonce \in 0..MaxMessages
  /\ dropped \subseteq Message
  /\ poolOps \in 0..MaxPoolOps
  /\ rewires \in 0..MaxRewires

Init ==
  /\ PoolInit
  /\ trustedRemote = [c \in Chains |-> [a \in Adaptors |-> [d \in Chains |->
                        IF a = FirstAdaptor THEN FirstAdaptor ELSE NoAdaptor]]]
  /\ validToken = [c \in Chains |-> [a \in Adaptors |-> Chains \ {c}]]
  /\ failedMessages = [c \in Chains |-> [a \in Adaptors |-> {}]]
  /\ path = [p \in Paths |-> <<>>]
  /\ blocked = {}
  /\ nonce = 0
  /\ dropped = {}
  /\ poolOps = 0
  /\ rewires = 0

-----------------------------------------------------------------------------
(* Sending *)

\* bridgeCreditAndSwapForTokens and _lzSend: unlike Wormhole's adaptor, the
\* peer must be set.
Bridge(c, d, credit, minTo, receiver) ==
  LET a == config[c].adaptor
      b == trustedRemote[c][a][d]
      m == [id |-> nonce + 1, src |-> c, from |-> a, dst |-> d, to |-> b,
            credit |-> credit, minTo |-> minTo, receiver |-> receiver]
  IN  /\ nonce < MaxMessages
      /\ d \in validToken[c][a]
      /\ b # NoAdaptor
      /\ nonce' = nonce + 1
      /\ path' = [path EXCEPT ![PathOf(m)] = Append(@, m)]
      /\ UNCHANGED <<adaptorVars, failedMessages, blocked, dropped, boundVars>>

SwapTokensForTokensCrossChain(c, d, amount, q, minTo, receiver) ==
  /\ SwapTokensForCredit(c, amount, q)
  /\ Bridge(c, d, q.credit, minTo, receiver)

SwapCreditForTokensCrossChain(c, d, u, amount, minTo, receiver) ==
  /\ SwapCreditCrossChain(c, u, amount)
  /\ Bridge(c, d, amount, minTo, receiver)

RedeemCredit(c, u, amount, minTo, q) ==
  /\ SwapCreditForTokens(c, u, amount, minTo, q)
  /\ UNCHANGED <<adaptorVars, failedMessages, endpointVars, boundVars>>

-----------------------------------------------------------------------------
(* Receiving *)

\* _nonblockingLzReceive: _swapCreditForTokens of the adaptor.  It reverts
\* when the pool has another adaptor, for then mintCredit reverts too.
Settle(m) ==
  \E q \in CreditForTokensQuotes :
    \/ CompleteSwapCreditForTokens(m.dst, m.to, m.credit, m.minTo, q)
    \/ /\ ~CanSwapCreditForTokens(m.dst, m.credit, m.minTo, q)
       /\ MintCredit(m.dst, m.to, m.credit, m.receiver)

\* The requirement of lzReceive on the path of the message.
TrustedPath(p) == trustedRemote[p.dst][p.to][p.src] = p.from

\* The endpoint hands over the first message of p, for the first time or
\* (retryPayload, open to anybody) again; lzReceive returns.
Handover(p) ==
  /\ path[p] # <<>>
  /\ TrustedPath(p)
  /\ path' = [path EXCEPT ![p] = Tail(@)]
  /\ blocked' = blocked \ {p}
  /\ UNCHANGED <<nonce, dropped, adaptorVars, boundVars>>

LzReceiveSettles(p) ==
  /\ Handover(p)
  /\ Settle(Head(path[p]))
  /\ UNCHANGED failedMessages

\* Mutant: the failure of nonblockingLzReceive is not caught.
LzReceiveUncaught(p) ==
  /\ path[p] # <<>>
  /\ TrustedPath(p)
  /\ ~OnlyAdaptor(Head(path[p]).dst, Head(path[p]).to)
  /\ blocked' = blocked \cup {p}
  /\ UNCHANGED <<poolVars, adaptorVars, failedMessages, path, nonce, dropped, boundVars>>

\* The call of nonblockingLzReceive fails and the message is stored.
LzReceiveStores(p) ==
  LET m == Head(path[p]) IN
  /\ Handover(p)
  /\ ~OnlyAdaptor(m.dst, m.to)
  /\ failedMessages' = [failedMessages EXCEPT ![m.dst][m.to] = @ \cup {m}]
  /\ UNCHANGED <<poolVars>>

\* lzReceive reverts and the endpoint keeps the message: the path is blocked.
LzReceiveBlocks(p) ==
  /\ path[p] # <<>>
  /\ p \notin blocked
  /\ ~TrustedPath(p)
  /\ blocked' = blocked \cup {p}
  /\ UNCHANGED <<poolVars, adaptorVars, failedMessages, path, nonce, dropped,
                 boundVars>>

\* Mutant: the stored message is executed and not cleared.
RetryMessageKeepsStored(m) ==
  /\ m \in failedMessages[m.dst][m.to]
  /\ Settle(m)
  /\ UNCHANGED <<adaptorVars, failedMessages, endpointVars, boundVars>>

\* retryMessage, open to anybody; it does not look at trustedRemoteLookup.
RetryMessage(m) ==
  /\ m \in failedMessages[m.dst][m.to]
  /\ failedMessages' = [failedMessages EXCEPT ![m.dst][m.to] = @ \ {m}]
  /\ Settle(m)
  /\ UNCHANGED <<adaptorVars, endpointVars, boundVars>>

-----------------------------------------------------------------------------
(* Administration *)

AdministerPool(c) ==
  /\ poolOps < MaxPoolOps
  /\ PoolAdmin(c) \/ MintFee(c)
  /\ poolOps' = poolOps + 1
  /\ UNCHANGED <<adaptorVars, failedMessages, endpointVars, rewires>>

SetTrustedRemote(c, a, d, peer) ==
  /\ trustedRemote' = [trustedRemote EXCEPT ![c][a][d] = peer]
  /\ UNCHANGED <<poolVars, validToken, endpointVars>>

\* approveToken, revokeToken
ToggleToken(c, a, d) ==
  /\ validToken' = [validToken EXCEPT ![c][a] = SymDiff(@, {d})]
  /\ UNCHANGED <<poolVars, trustedRemote, endpointVars>>

\* The owner of the adaptor gives up the message that blocks p.
ForceResumeReceive(p) ==
  /\ p \in blocked
  /\ blocked' = blocked \ {p}
  /\ path' = [path EXCEPT ![p] = Tail(@)]
  /\ dropped' = dropped \cup {Head(path[p])}
  /\ UNCHANGED <<poolVars, adaptorVars, nonce>>

Rewire ==
  /\ rewires < MaxRewires
  /\ \/ \E c \in Chains, a \in Adaptors :
          \/ SetAdaptorAddr(c, a) /\ UNCHANGED <<adaptorVars, endpointVars>>
          \/ \E d \in Chains \ {c} :
               \/ \E peer \in Adaptors \cup {NoAdaptor} : SetTrustedRemote(c, a, d, peer)
               \/ ToggleToken(c, a, d)
     \/ \E p \in Paths : ForceResumeReceive(p)
  /\ rewires' = rewires + 1
  /\ UNCHANGED <<failedMessages, poolOps>>

-----------------------------------------------------------------------------
UserSwaps(c) ==
  \/ \E d \in Chains \ {c}, amount \in Amounts, minTo \in MinAmounts, receiver \in Users :
       \E q \in TokensForCreditQuotes(amount) :
         SwapTokensForTokensCrossChain(c, d, amount, q, minTo, receiver)
  \/ \E u \in Users, amount \in Credits, minTo \in MinAmounts :
       \/ \E d \in Chains \ {c}, receiver \in Users :
            SwapCreditForTokensCrossChain(c, d, u, amount, minTo, receiver)
       \/ \E q \in CreditForTokensQuotes : RedeemCredit(c, u, amount, minTo, q)

Stored == UNION {failedMessages[c][a] : c \in Chains, a \in Adaptors}

LzReceive(p) == LzReceiveSettles(p) \/ LzReceiveStores(p) \/ LzReceiveBlocks(p)

Next ==
  \/ \E c \in Chains : UserSwaps(c) \/ AdministerPool(c)
  \/ Rewire
  \/ \E p \in Paths : LzReceive(p)
  \/ \E m \in Stored : RetryMessage(m)

Spec == Init /\ [][Next]_vars

(***************************************************************************)
(* Fairness: the endpoint keeps trying to deliver the first message of     *)
(* every path, and somebody keeps retrying a stored message.               *)
(***************************************************************************)
RetryId(i) == \E m \in Stored : m.id = i /\ RetryMessage(m)

Fairness == /\ \A p \in Paths : WF_vars(LzReceive(p))
            /\ \A i \in 1..MaxMessages : WF_vars(RetryId(i))

FairSpec == Spec /\ Fairness

-----------------------------------------------------------------------------
(* Properties *)

OnPath    == UNION {ToSet(path[p]) : p \in Paths}
Unsettled == OnPath \cup Stored \cup dropped

Ledger == INSTANCE CreditLedger WITH
            Transfers <- Message,
            net       <- [c \in Chains |-> Net(c)],
            issued    <- 1..nonce,
            transit   <- Unsettled,
            credit    <- creditBalance

(***************************************************************************)
(* Every step is a step of the credit ledger: a stored message that is     *)
(* retried is settled once, however often retryMessage is called.          *)
(***************************************************************************)
ImplementsLedger == Ledger!Spec

(***************************************************************************)
(* Over all chains, the credit minted and not burned is exactly the credit *)
(* of the messages on a path, stored or dropped plus the credit balances   *)
(* of the users, however often a message is retried and whichever adaptor  *)
(* the pools have meanwhile.  (_swapCreditForTokens, retryMessage)         *)
(***************************************************************************)
CreditConserved == Ledger!Conservation

(***************************************************************************)
(* NonblockingLzAppUpgradable.sol:10-13: a message that fails does not     *)
(* block its path; as long as the path stays trusted, every message sent   *)
(* along it is taken off it, settled or stored, whatever happens to the    *)
(* pool it is for (here: it may change its adaptor).                       *)
(***************************************************************************)
NonBlocking ==
  \A p \in Paths : <>[]TrustedPath(p) => []<>(path[p] = <<>>)

\* A message is on a trusted path or stored, at the pool's own adaptor.
Wired(i) == \E m \in OnPath \cup Stored :
              /\ m.id = i
              /\ TrustedPath(PathOf(m))
              /\ OnlyAdaptor(m.dst, m.to)

(***************************************************************************)
(* Whatever pauses, switches and replaced adaptors do in between, a        *)
(* message that nobody drops is settled once its route stays in place: no  *)
(* message waits for ever on a working route.                              *)
(***************************************************************************)
RestoredRouteSettles == \A i \in 1..MaxMessages : ~<>[]Wired(i)
=============================================================================
