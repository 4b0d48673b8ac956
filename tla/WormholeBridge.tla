--------------------------- MODULE WormholeBridge ---------------------------
(***************************************************************************)
(* The CrossChainPools joined by WormholeAdaptors and the Wormhole         *)
(* relayer.  The relayer is external: it may deliver in any order, late,   *)
(* never, or (after requestResend, which anybody may call) again.          *)
(***************************************************************************)
EXTENDS CrossChainPool

CONSTANTS
  NoAdaptor,        \* the zero address in adaptorAddress
  Contracts,        \* users whose address is a contract: it may reject a call
  MaxMessages,      \* bound: messages sent in a behaviour
  MaxPoolOps,       \* bound: PoolAdmin and MintFee steps
  MaxRewires        \* bound: changes of adaptors, peers and tokens

ASSUME BridgeAssumption ==
  /\ NoAdaptor \notin Adaptors
  /\ Contracts \subseteq Users
  /\ MaxMessages \in Nat \ {0} /\ MaxPoolOps \in Nat /\ MaxRewires \in Nat

VARIABLES
  \* Each adaptor deployment a on each chain c:
  adaptorAddress,   \* adaptorAddress[c][a][d]: the trusted peer on chain d
  validToken,       \* validToken[c][a]: chains whose token is approved
  delivered,        \* deliveredMessage: ids recorded by _recordMessageHash
  \* The relayer:
  sent,             \* messages handed to the relayer
  queue,            \* messages the relayer is going to deliver
  sequence,         \* last sequence number it returned
  failed,           \* ids of the messages with a reverted delivery
  \* Bounds:
  poolOps, rewires

adaptorVars == <<adaptorAddress, validToken>>
relayerVars == <<sent, sequence>>
boundVars   == <<poolOps, rewires>>
vars == <<poolVars, adaptorVars, delivered, relayerVars, queue, failed, boundVars>>

\* The payload of _encode with the addresses the relayer adds to it.
Message == [id : 1..MaxMessages, src : Chains, from : Adaptors,
            dst : Chains, to : Adaptors \cup {NoAdaptor},
            credit : Credits \ {0}, minTo : MinAmounts, receiver : Users]

AdaptorTypeOK ==
  /\ adaptorAddress \in [Chains -> [Adaptors -> [Chains -> Adaptors \cup {NoAdaptor}]]]
  /\ validToken \in [Chains -> [Adaptors -> SUBSET Chains]]
  /\ delivered \in [Chains -> [Adaptors -> SUBSET (1..MaxMessages)]]

RelayerTypeOK ==
  /\ sent \subseteq Message
  /\ queue \subseteq sent
  /\ sequence \in 0..MaxMessages
  /\ failed \subseteq 1..MaxMessages

BoundTypeOK ==
  /\ poolOps \in 0..MaxPoolOps
  /\ rewires \in 0..MaxRewires

TypeOK == PoolTypeOK /\ AdaptorTypeOK /\ RelayerTypeOK /\ BoundTypeOK

Init ==
  /\ PoolInit
  /\ adaptorAddress = [c \in Chains |-> [a \in Adaptors |-> [d \in Chains |->
                         IF a = FirstAdaptor THEN FirstAdaptor ELSE NoAdaptor]]]
  /\ validToken = [c \in Chains |-> [a \in Adaptors |->
                     IF a = FirstAdaptor THEN Chains \ {c} ELSE {}]]
  /\ delivered = [c \in Chains |-> [a \in Adaptors |-> {}]]
  /\ sent = {}
  /\ queue = {}
  /\ sequence = 0
  /\ failed = {}
  /\ poolOps = 0
  /\ rewires = 0

-----------------------------------------------------------------------------
(* Sending *)

\* bridgeCreditAndSwapForTokens of the pool's adaptor: one message to the
\* peer it has on chain d, which nothing checks to be set.
Bridge(c, d, credit, minTo, receiver) ==
  LET a == config[c].adaptor
      m == [id |-> sequence + 1, src |-> c, from |-> a,
            dst |-> d, to |-> adaptorAddress[c][a][d],
            credit |-> credit, minTo |-> minTo, receiver |-> receiver]
  IN  /\ sequence < MaxMessages
      /\ d \in validToken[c][a]
      /\ sequence' = sequence + 1
      /\ sent' = sent \cup {m}
      /\ queue' = queue \cup {m}
      /\ UNCHANGED <<adaptorVars, delivered, failed, boundVars>>

SwapTokensForTokensCrossChain(c, d, amount, q, minTo, receiver) ==
  /\ SwapTokensForCredit(c, amount, q)
  /\ Bridge(c, d, q.credit, minTo, receiver)

SwapCreditForTokensCrossChain(c, d, u, amount, minTo, receiver) ==
  /\ SwapCreditCrossChain(c, u, amount)
  /\ Bridge(c, d, amount, minTo, receiver)

RedeemCredit(c, u, amount, minTo, q) ==
  /\ SwapCreditForTokens(c, u, amount, minTo, q)
  /\ UNCHANGED <<adaptorVars, delivered, relayerVars, queue, failed, boundVars>>

-----------------------------------------------------------------------------
(* receiveWormholeMessages(m).  The relayer drops m from its queue whatever *)
(* the outcome; a reverted delivery is only retried after requestResend.    *)

IsDelivered(m) == /\ m.to # NoAdaptor
                  /\ m.id \in delivered[m.dst][m.to]

Trusted(m) == adaptorAddress[m.dst][m.to][m.src] = m.from

Dequeue(m) ==
  /\ m \in queue
  /\ m.to # NoAdaptor
  /\ queue' = queue \ {m}

\* UnknownEmitter: the call returns without recording anything.
ReceiveUnknown(m) ==
  /\ Dequeue(m)
  /\ ~Trusted(m)
  /\ UNCHANGED <<poolVars, adaptorVars, delivered, relayerVars, failed, boundVars>>

\* Mutant: the hash of the delivery is checked and not recorded.
AcceptUnrecorded(m) ==
  /\ Dequeue(m)
  /\ Trusted(m)
  /\ m.id \notin delivered[m.dst][m.to]
  /\ UNCHANGED <<adaptorVars, delivered, relayerVars, failed, boundVars>>

\* The guards of a delivery that reaches _swapCreditForTokens, and
\* _recordMessageHash.
Accept(m) ==
  /\ Dequeue(m)
  /\ Trusted(m)
  /\ m.id \notin delivered[m.dst][m.to]
  /\ delivered' = [delivered EXCEPT ![m.dst][m.to] = @ \cup {m.id}]
  /\ UNCHANGED <<adaptorVars, relayerVars, failed, boundVars>>

ReceivePaysTokens(m, q) ==
  /\ Accept(m)
  /\ CompleteSwapCreditForTokens(m.dst, m.to, m.credit, m.minTo, q)

\* The catch branch: completeSwapCreditForTokens reverted.
ReceiveMintsCredit(m, q) ==
  /\ Accept(m)
  /\ ~CanSwapCreditForTokens(m.dst, m.credit, m.minTo, q)
  /\ MintCredit(m.dst, m.to, m.credit, m.receiver)

\* A delivery that reverts: a duplicate, a receiver that rejects the
\* native-token call, or an adaptor the pool no longer accepts.
ReceiveReverts(m) ==
  /\ Dequeue(m)
  /\ Trusted(m)
  /\ \/ m.id \in delivered[m.dst][m.to]
     \/ m.receiver \in Contracts
     \/ ~OnlyAdaptor(m.dst, m.to)
  /\ failed' = failed \cup {m.id}
  /\ UNCHANGED <<poolVars, adaptorVars, delivered, relayerVars, boundVars>>

Receive(m) ==
  \/ ReceiveUnknown(m)
  \/ \E q \in CreditForTokensQuotes : \/ ReceivePaysTokens(m, q)
                                      \/ ReceiveMintsCredit(m, q)
  \/ ReceiveReverts(m)

\* Mutant: only reverted deliveries are sent again.
RequestResendFailed(m) ==
  /\ m \in sent \ queue
  /\ m.id \in failed
  /\ queue' = queue \cup {m}
  /\ UNCHANGED <<poolVars, adaptorVars, delivered, relayerVars, failed, boundVars>>

RequestResend(m) ==
  /\ m \in sent \ queue
  /\ queue' = queue \cup {m}
  /\ UNCHANGED <<poolVars, adaptorVars, delivered, relayerVars, failed, boundVars>>

-----------------------------------------------------------------------------
(* Administration *)

AdministerPool(c) ==
  /\ poolOps < MaxPoolOps
  /\ PoolAdmin(c) \/ MintFee(c)
  /\ poolOps' = poolOps + 1
  /\ UNCHANGED <<adaptorVars, delivered, relayerVars, queue, failed, rewires>>

SetAdaptorAddress(c, a, d, peer) ==
  /\ adaptorAddress' = [adaptorAddress EXCEPT ![c][a][d] = peer]
  /\ UNCHANGED <<poolVars, validToken>>

ApproveToken(c, a, d) ==
  /\ d \notin validToken[c][a]
  /\ validToken' = [validToken EXCEPT ![c][a] = @ \cup {d}]
  /\ UNCHANGED <<poolVars, adaptorAddress>>

RevokeToken(c, a, d) ==
  /\ d \in validToken[c][a]
  /\ validToken' = [validToken EXCEPT ![c][a] = @ \ {d}]
  /\ UNCHANGED <<poolVars, adaptorAddress>>

Rewire(c, a) ==
  /\ rewires < MaxRewires
  /\ \/ SetAdaptorAddr(c, a) /\ UNCHANGED adaptorVars
     \/ \E d \in Chains \ {c} :
          \/ \E peer \in Adaptors \cup {NoAdaptor} : SetAdaptorAddress(c, a, d, peer)
          \/ ApproveToken(c, a, d)
          \/ RevokeToken(c, a, d)
  /\ rewires' = rewires + 1
  /\ UNCHANGED <<delivered, relayerVars, queue, failed, poolOps>>

-----------------------------------------------------------------------------
UserSwaps(c) ==
  \/ \E d \in Chains \ {c}, amount \in Amounts, minTo \in MinAmounts, receiver \in Users :
       \E q \in TokensForCreditQuotes(amount) :
         SwapTokensForTokensCrossChain(c, d, amount, q, minTo, receiver)
  \/ \E u \in Users, amount \in Credits, minTo \in MinAmounts :
       \/ \E d \in Chains \ {c}, receiver \in Users :
            SwapCreditForTokensCrossChain(c, d, u, amount, minTo, receiver)
       \/ \E q \in CreditForTokensQuotes : RedeemCredit(c, u, amount, minTo, q)

Next ==
  \/ \E c \in Chains : \/ UserSwaps(c)
                       \/ AdministerPool(c)
                       \/ \E a \in Adaptors : Rewire(c, a)
  \/ \E m \in sent : Receive(m) \/ RequestResend(m)

Spec == Init /\ [][Next]_vars

(***************************************************************************)
(* Fairness: the relayer eventually attempts each delivery it has queued   *)
(* ("typically within 5 minutes", WormholeAdaptor.sol:86), and somebody    *)
(* keeps asking for the redelivery of a message that was not settled.      *)
(***************************************************************************)
ReceiveId(i) == \E m \in sent : m.id = i /\ Receive(m)
ResendId(i)  == \E m \in sent : m.id = i /\ ~IsDelivered(m) /\ RequestResend(m)

Fairness == \A i \in 1..MaxMessages : WF_vars(ReceiveId(i)) /\ WF_vars(ResendId(i))

FairSpec == Spec /\ Fairness

-----------------------------------------------------------------------------
(* Properties *)

SettledMessages == {m \in sent : IsDelivered(m)}

Ledger == INSTANCE CreditLedger WITH
            Transfers <- Message,
            net       <- [c \in Chains |-> Net(c)],
            issued    <- {m.id : m \in sent},
            transit   <- sent \ SettledMessages,
            credit    <- creditBalance

(***************************************************************************)
(* A sequence number names one message, and no adaptor has recorded one    *)
(* that is still to come: what the at-most-once settlement rests on.       *)
(***************************************************************************)
SequenceNumbers ==
  /\ \A m, n \in sent : m.id = n.id => m = n
  /\ \A m \in sent : m.id <= sequence
  /\ \A c \in Chains, a \in Adaptors : \A i \in delivered[c][a] : i <= sequence

(***************************************************************************)
(* Over all chains, the credit minted and not burned is exactly the credit *)
(* of the messages not yet settled plus the credit balances of the users,  *)
(* through duplicated, reverted and ignored deliveries, pauses and changes *)
(* of the adaptors.  (receiveWormholeMessages, completeSwapCreditForTokens,*)
(* mintCredit)                                                             *)
(***************************************************************************)
CreditConserved == Ledger!Conservation

(***************************************************************************)
(* Every step is a step of the credit ledger: in particular a message is   *)
(* settled at most once, and either in tokens or in credit, never both.    *)
(* (_recordMessageHash, Adaptor._swapCreditForTokens)                      *)
(***************************************************************************)
ImplementsLedger == Ledger!Spec

SettledId(i) == \E m \in SettledMessages : m.id = i

\* The destination trusts m's sender, its pool accepts m's adaptor and the
\* receiver takes the call with native tokens that comes with the delivery.
Wired(i) == \E m \in sent : /\ m.id = i
                            /\ m.to # NoAdaptor
                            /\ Trusted(m)
                            /\ OnlyAdaptor(m.dst, m.to)
                            /\ m.receiver \notin Contracts

(***************************************************************************)
(* A message that was ignored or reverted while its route was rewired is   *)
(* not lost: once the route is restored for good, it is settled, whatever  *)
(* the pools' pauses, switches and limits do meanwhile: mintCredit works   *)
(* even if the pool is paused (CrossChainPool.sol:376).                    *)
(* (The early return of receiveWormholeMessages records no hash, and a     *)
(* revert undoes the record, so that requestResend can deliver it.)        *)
(***************************************************************************)
RestoredRouteSettles == \A i \in 1..MaxMessages : <>[]Wired(i) => <>SettledId(i)
=============================================================================
