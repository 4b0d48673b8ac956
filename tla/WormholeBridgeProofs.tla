------------------------ MODULE WormholeBridgeProofs ------------------------
(***************************************************************************)
(* Proofs about WormholeBridge: the state is well typed, an asset is short *)
(* of what it owes only by the rounding of shared fees, every step is a    *)
(* step of CreditLedger, credit is conserved and the limits are kept.      *)
(***************************************************************************)
EXTENDS WormholeBridge, CrossChainPoolProofs

\* The inductive invariant.
IInv == TypeOK /\ SequenceNumbers

-----------------------------------------------------------------------------
(* Sending *)

\* The message Bridge hands to the relayer.
NewMessage(c, d, credit, minTo, receiver) ==
  LET a == config[c].adaptor
  IN  [id |-> sequence + 1, src |-> c, from |-> a,
       dst |-> d, to |-> adaptorAddress[c][a][d],
       credit |-> credit, minTo |-> minTo, receiver |-> receiver]

(* The message is well formed and its sequence number is new. (_encode)     *)
LEMMA NewMessageType ==
  ASSUME IInv, NEW c \in Chains, NEW d \in Chains, NEW credit \in Credits \ {0},
         NEW minTo \in MinAmounts, NEW receiver \in Users,
         Bridge(c, d, credit, minTo, receiver)
  PROVE  LET m == NewMessage(c, d, credit, minTo, receiver) IN
         /\ m \in Message
         /\ m.id = sequence + 1
         /\ sequence' = sequence + 1
         /\ sent' = sent \cup {m}
         /\ queue' = queue \cup {m}
<1>1. config[c].adaptor \in Adaptors
  BY DEF IInv, TypeOK, PoolTypeOK, Config
<1>2. adaptorAddress[c][config[c].adaptor][d] \in Adaptors \cup {NoAdaptor}
  BY <1>1 DEF IInv, TypeOK, AdaptorTypeOK
<1>3. sequence + 1 \in 1..MaxMessages
  BY BridgeAssumption DEF IInv, TypeOK, RelayerTypeOK, Bridge
<1> QED
  BY <1>1, <1>2, <1>3 DEF NewMessage, Message, Bridge

(* Sending keeps the invariant if the pool's half of the step keeps its     *)
(* part. (bridgeCreditAndSwapForTokens)                                     *)
LEMMA BridgeInv ==
  ASSUME IInv, PoolTypeOK', NEW c \in Chains, NEW d \in Chains, NEW credit \in Credits \ {0},
         NEW minTo \in MinAmounts, NEW receiver \in Users,
         Bridge(c, d, credit, minTo, receiver)
  PROVE  IInv'
<1> DEFINE m == NewMessage(c, d, credit, minTo, receiver)
<1>1. /\ m \in Message /\ m.id = sequence + 1
      /\ sequence' = sequence + 1
      /\ sent' = sent \cup {m} /\ queue' = queue \cup {m}
  BY NewMessageType
<1>2. sequence \in Nat /\ sequence + 1 \in 0..MaxMessages
  BY BridgeAssumption DEF IInv, TypeOK, RelayerTypeOK, Bridge
<1> HIDE DEF m
<1>3. AdaptorTypeOK' /\ BoundTypeOK'
  BY DEF IInv, TypeOK, AdaptorTypeOK, BoundTypeOK, Bridge, adaptorVars, boundVars
<1>4. RelayerTypeOK'
  BY <1>1, <1>2 DEF IInv, TypeOK, RelayerTypeOK, Bridge
<1>5. SequenceNumbers'
  <2>1. \A n \in sent : n.id \in Int /\ n.id <= sequence
    BY DEF IInv, SequenceNumbers, TypeOK, RelayerTypeOK, Message
  <2>2. \A n \in sent' : n.id <= sequence'
    BY <1>1, <1>2, <2>1
  <2>3. \A n1, n2 \in sent' : n1.id = n2.id => n1 = n2
    BY <1>1, <1>2, <2>1 DEF IInv, SequenceNumbers
  <2>4. \A c1 \in Chains, a \in Adaptors : \A i \in delivered'[c1][a] : i <= sequence'
    <3> SUFFICES ASSUME NEW c1 \in Chains, NEW a \in Adaptors, NEW i \in delivered'[c1][a]
                 PROVE  i <= sequence'
      OBVIOUS
    <3>1. delivered' = delivered
      BY DEF Bridge
    <3>2. i \in 1..MaxMessages /\ i <= sequence
      BY <3>1 DEF IInv, SequenceNumbers, TypeOK, AdaptorTypeOK
    <3> QED
      BY <1>1, <1>2, <3>2
  <2> QED
    BY <2>2, <2>3, <2>4 DEF SequenceNumbers
<1> QED
  BY <1>3, <1>4, <1>5 DEF IInv, TypeOK

-----------------------------------------------------------------------------
(* Receiving *)

(* Recording a delivery keeps the invariant if the call of the pool does.   *)
(* (receiveWormholeMessages, _recordMessageHash)                            *)
LEMMA AcceptInv ==
  ASSUME IInv, PoolTypeOK', NEW m \in sent, Accept(m)
  PROVE  IInv'
<1>1. /\ m \in Message /\ m.id \in 1..MaxMessages /\ m.id <= sequence
      /\ m.dst \in Chains /\ m.to \in Adaptors
  BY DEF IInv, TypeOK, RelayerTypeOK, SequenceNumbers, Accept, Dequeue, Message
<1>2. /\ sent' = sent /\ sequence' = sequence /\ failed' = failed
      /\ queue' = queue \ {m}
      /\ UNCHANGED <<adaptorAddress, validToken, poolOps, rewires>>
  BY DEF Accept, Dequeue, adaptorVars, relayerVars, boundVars
<1>3. delivered \in [Chains -> [Adaptors -> SUBSET (1..MaxMessages)]]
  BY DEF IInv, TypeOK, AdaptorTypeOK
<1>4. /\ delivered' \in [Chains -> [Adaptors -> SUBSET (1..MaxMessages)]]
      /\ \A c \in Chains, a \in Adaptors : delivered'[c][a] \subseteq delivered[c][a] \cup {m.id}
  BY <1>1, <1>3 DEF Accept
<1>5. AdaptorTypeOK' /\ RelayerTypeOK' /\ BoundTypeOK'
  BY <1>2, <1>4 DEF IInv, TypeOK, AdaptorTypeOK, RelayerTypeOK, BoundTypeOK
<1>6. SequenceNumbers'
  BY <1>1, <1>2, <1>4 DEF IInv, SequenceNumbers
<1> QED
  BY <1>5, <1>6 DEF IInv, TypeOK

(* A delivery that changes only the relayer's view keeps the invariant.     *)
LEMMA RelayerStepInv ==
  ASSUME IInv, UNCHANGED <<poolVars, adaptorVars, delivered, relayerVars, boundVars>>,
         queue' \subseteq sent, failed' \subseteq 1..MaxMessages
  PROVE  IInv'
<1>1. PoolTypeOK'
  BY DEF IInv, TypeOK, PoolTypeOK, poolVars, assetVars
<1>2. AdaptorTypeOK' /\ RelayerTypeOK' /\ BoundTypeOK'
  BY DEF IInv, TypeOK, AdaptorTypeOK, RelayerTypeOK, BoundTypeOK,
         adaptorVars, relayerVars, boundVars
<1>3. SequenceNumbers'
  BY DEF IInv, SequenceNumbers, relayerVars
<1> QED
  BY <1>1, <1>2, <1>3 DEF IInv, TypeOK

(* Every outcome of a delivery keeps the invariant.                         *)
LEMMA ReceiveInv ==
  ASSUME IInv, NEW m \in sent, Receive(m)
  PROVE  IInv'
<1>1. /\ m \in Message /\ m.id \in 1..MaxMessages
      /\ m.dst \in Chains /\ m.credit \in Nat /\ m.receiver \in Users
  BY PoolAssumption DEF IInv, TypeOK, RelayerTypeOK, Message
<1>2. PoolTypeOK
  BY DEF IInv, TypeOK
<1>3. CASE ReceiveUnknown(m)
  <2>1. queue' \subseteq sent /\ failed' \subseteq 1..MaxMessages
    BY <1>3 DEF ReceiveUnknown, Dequeue, IInv, TypeOK, RelayerTypeOK
  <2> QED
    BY <1>3, <2>1, RelayerStepInv DEF ReceiveUnknown
<1>4. ASSUME NEW q \in CreditForTokensQuotes, ReceivePaysTokens(m, q)
      PROVE  IInv'
  <2>1. PoolTypeOK'
    BY <1>1, <1>2, <1>4, CompleteSwapCreditForTokensKeeps DEF ReceivePaysTokens
  <2> QED
    BY <1>4, <2>1, AcceptInv DEF ReceivePaysTokens
<1>5. ASSUME NEW q \in CreditForTokensQuotes, ReceiveMintsCredit(m, q)
      PROVE  IInv'
  <2>1. PoolTypeOK'
    BY <1>1, <1>2, <1>5, MintCreditKeeps DEF ReceiveMintsCredit
  <2> QED
    BY <1>5, <2>1, AcceptInv DEF ReceiveMintsCredit
<1>6. CASE ReceiveReverts(m)
  <2>1. queue' \subseteq sent /\ failed' \subseteq 1..MaxMessages
    BY <1>1, <1>6 DEF ReceiveReverts, Dequeue, IInv, TypeOK, RelayerTypeOK
  <2> QED
    BY <1>6, <2>1, RelayerStepInv DEF ReceiveReverts
<1> QED
  BY <1>3, <1>4, <1>5, <1>6 DEF Receive

(* Asking for a redelivery keeps the invariant. (requestResend)             *)
LEMMA RequestResendInv ==
  ASSUME IInv, NEW m \in sent, RequestResend(m)
  PROVE  IInv'
<1>1. queue' \subseteq sent /\ failed' \subseteq 1..MaxMessages
  BY DEF RequestResend, IInv, TypeOK, RelayerTypeOK
<1> QED
  BY <1>1, RelayerStepInv DEF RequestResend

-----------------------------------------------------------------------------
(* The other steps *)

(* A step of the pool alone keeps the invariant.                            *)
LEMMA PoolStepInv ==
  ASSUME IInv, PoolTypeOK', AdaptorTypeOK', BoundTypeOK',
         UNCHANGED <<delivered, relayerVars, queue, failed>>
  PROVE  IInv'
<1>1. RelayerTypeOK'
  BY DEF IInv, TypeOK, RelayerTypeOK, relayerVars
<1>2. SequenceNumbers'
  BY DEF IInv, SequenceNumbers, relayerVars
<1> QED
  BY <1>1, <1>2 DEF IInv, TypeOK

(* The users' swaps keep the invariant.                                     *)
LEMMA UserSwapsInv ==
  ASSUME IInv, NEW c \in Chains, UserSwaps(c)
  PROVE  IInv'
<1>1. PoolTypeOK
  BY DEF IInv, TypeOK
<1>2. ASSUME NEW d \in Chains, NEW amount \in Amounts, NEW minTo \in MinAmounts,
             NEW receiver \in Users, NEW q \in TokensForCreditQuotes(amount),
             SwapTokensForTokensCrossChain(c, d, amount, q, minTo, receiver)
      PROVE  IInv'
  <2>1. PoolTypeOK'
    BY <1>1, <1>2, SwapTokensForCreditKeeps DEF SwapTokensForTokensCrossChain
  <2>2. q.credit \in Credits \ {0}
    BY <1>2 DEF TokensForCreditQuotes, SwapTokensForTokensCrossChain,
                SwapTokensForCredit, CanSwapTokensForCredit
  <2> QED
    BY <1>2, <2>1, <2>2, BridgeInv DEF SwapTokensForTokensCrossChain
<1>3. ASSUME NEW d \in Chains, NEW u \in Users, NEW amount \in Credits,
             NEW minTo \in MinAmounts, NEW receiver \in Users,
             SwapCreditForTokensCrossChain(c, d, u, amount, minTo, receiver)
      PROVE  IInv'
  <2>1. amount \in Nat
    BY PoolAssumption
  <2>2. PoolTypeOK'
    BY <1>1, <1>3, <2>1, SwapCreditCrossChainKeeps DEF SwapCreditForTokensCrossChain
  <2>3. amount \in Credits \ {0}
    BY <1>3, <2>1 DEF SwapCreditForTokensCrossChain, SwapCreditCrossChain, SpendCredit
  <2> QED
    BY <1>3, <2>2, <2>3, BridgeInv DEF SwapCreditForTokensCrossChain
<1>4. ASSUME NEW u \in Users, NEW amount \in Credits, NEW minTo \in MinAmounts,
             NEW q \in CreditForTokensQuotes, RedeemCredit(c, u, amount, minTo, q)
      PROVE  IInv'
  <2>1. amount \in Nat
    BY PoolAssumption
  <2>2. PoolTypeOK'
    BY <1>1, <1>4, <2>1, SwapCreditForTokensKeeps DEF RedeemCredit
  <2>3. AdaptorTypeOK' /\ BoundTypeOK'
    BY <1>4 DEF RedeemCredit, IInv, TypeOK, AdaptorTypeOK, BoundTypeOK,
                adaptorVars, boundVars
  <2> QED
    BY <1>4, <2>2, <2>3, PoolStepInv DEF RedeemCredit
<1> QED
  BY <1>2, <1>3, <1>4 DEF UserSwaps

(* Administration keeps the invariant.                                      *)
LEMMA AdministerPoolInv ==
  ASSUME IInv, NEW c \in Chains, AdministerPool(c)
  PROVE  IInv'
<1>1. PoolTypeOK'
  BY PoolAdminKeeps, MintFeeKeeps DEF IInv, TypeOK, AdministerPool
<1>2. AdaptorTypeOK'
  BY DEF AdministerPool, IInv, TypeOK, AdaptorTypeOK, adaptorVars
<1>3. BoundTypeOK'
  BY BridgeAssumption DEF AdministerPool, IInv, TypeOK, BoundTypeOK
<1> QED
  BY <1>1, <1>2, <1>3, PoolStepInv DEF AdministerPool

(* Replacing adaptors, peers and tokens keeps the invariant.                *)
LEMMA RewireInv ==
  ASSUME IInv, NEW c \in Chains, NEW a \in Adaptors, Rewire(c, a)
  PROVE  IInv'
<1>1. BoundTypeOK'
  BY BridgeAssumption DEF Rewire, IInv, TypeOK, BoundTypeOK
<1>2. PoolTypeOK
  BY DEF IInv, TypeOK
<1>3. /\ adaptorAddress \in [Chains -> [Adaptors -> [Chains -> Adaptors \cup {NoAdaptor}]]]
      /\ validToken \in [Chains -> [Adaptors -> SUBSET Chains]]
      /\ delivered \in [Chains -> [Adaptors -> SUBSET (1..MaxMessages)]]
      /\ delivered' = delivered
  BY DEF IInv, TypeOK, AdaptorTypeOK, Rewire
<1>4. PoolTypeOK' /\ AdaptorTypeOK'
  <2>1. CASE SetAdaptorAddr(c, a) /\ UNCHANGED adaptorVars
    BY <1>2, <1>3, <2>1, SetAdaptorAddrKeeps DEF AdaptorTypeOK, adaptorVars
  <2>2. ASSUME UNCHANGED poolVars
        PROVE  PoolTypeOK'
    BY <1>2, <2>2 DEF PoolTypeOK, poolVars, assetVars
  <2>3. ASSUME NEW d \in Chains, NEW peer \in Adaptors \cup {NoAdaptor},
               SetAdaptorAddress(c, a, d, peer)
        PROVE  PoolTypeOK' /\ AdaptorTypeOK'
    BY <1>3, <2>2, <2>3 DEF SetAdaptorAddress, AdaptorTypeOK
  <2>4. ASSUME NEW d \in Chains, ApproveToken(c, a, d) \/ RevokeToken(c, a, d)
        PROVE  PoolTypeOK' /\ AdaptorTypeOK'
    <3>1. validToken[c][a] \cup {d} \in SUBSET Chains /\ validToken[c][a] \ {d} \in SUBSET Chains
      BY <1>3
    <3>2. validToken' \in [Chains -> [Adaptors -> SUBSET Chains]]
      <4>1. PICK S \in SUBSET Chains : validToken' = [validToken EXCEPT ![c][a] = S]
        BY <2>4, <3>1, Zenon DEF ApproveToken, RevokeToken
      <4> QED
        BY <1>3, <4>1
    <3>3. UNCHANGED <<poolVars, adaptorAddress>>
      BY <2>4 DEF ApproveToken, RevokeToken
    <3> QED
      BY <1>3, <2>2, <3>2, <3>3 DEF AdaptorTypeOK
  <2> QED
    BY <2>1, <2>3, <2>4 DEF Rewire
<1> QED
  BY <1>1, <1>4, PoolStepInv DEF Rewire

-----------------------------------------------------------------------------
(* The inductive invariant *)

LEMMA InitIInv == Init => IInv
<1> SUFFICES ASSUME Init PROVE IInv
  OBVIOUS
<1>1. PoolTypeOK
  BY PoolInitType DEF Init
<1>2. AdaptorTypeOK
  BY PoolAssumption DEF Init, AdaptorTypeOK
<1>3. RelayerTypeOK /\ BoundTypeOK
  BY BridgeAssumption DEF Init, RelayerTypeOK, BoundTypeOK
<1>4. SequenceNumbers
  BY DEF Init, SequenceNumbers
<1> QED
  BY <1>1, <1>2, <1>3, <1>4 DEF IInv, TypeOK

LEMMA NextIInv == IInv /\ [Next]_vars => IInv'
<1> SUFFICES ASSUME IInv, [Next]_vars PROVE IInv'
  OBVIOUS
<1>1. ASSUME NEW c \in Chains, UserSwaps(c) PROVE IInv'
  BY <1>1, UserSwapsInv
<1>2. ASSUME NEW c \in Chains, AdministerPool(c) PROVE IInv'
  BY <1>2, AdministerPoolInv
<1>3. ASSUME NEW c \in Chains, NEW a \in Adaptors, Rewire(c, a) PROVE IInv'
  BY <1>3, RewireInv
<1>4. ASSUME NEW m \in sent, Receive(m) PROVE IInv'
  BY <1>4, ReceiveInv
<1>5. ASSUME NEW m \in sent, RequestResend(m) PROVE IInv'
  BY <1>5, RequestResendInv
<1>6. CASE UNCHANGED vars
  <2>1. queue' \subseteq sent /\ failed' \subseteq 1..MaxMessages
    BY <1>6 DEF IInv, TypeOK, RelayerTypeOK, vars
  <2> QED
    BY <1>6, <2>1, RelayerStepInv DEF vars
<1> QED
  BY <1>1, <1>2, <1>3, <1>4, <1>5, <1>6 DEF Next

(* The inductive invariant holds in every reachable state.                  *)
THEOREM Invariance == Spec => []IInv
<1> QED
  BY InitIInv, NextIInv, PTL DEF Spec

(* Every reachable state is well typed: no counter, balance or amount of    *)
(* cash wraps below zero.                                                   *)
THEOREM TypeCorrect == Spec => []TypeOK
<1>1. IInv => TypeOK
  BY DEF IInv
<1> QED
  BY <1>1, Invariance, PTL

-----------------------------------------------------------------------------
(* The refinement: each step is a step of the ledger or changes nothing of  *)
(* what the ledger sees.                                                    *)

IdsOf     == {m.id : m \in sent}
TransitOf == sent \ SettledMessages

(* A new message is one more transfer. (_encode, sendPayloadToEvm)          *)
LEMMA BridgeLeaves ==
  ASSUME IInv, NEW c \in Chains, NEW d \in Chains, NEW credit \in Credits \ {0},
         NEW minTo \in MinAmounts, NEW receiver \in Users,
         Bridge(c, d, credit, minTo, receiver)
  PROVE  LET m == NewMessage(c, d, credit, minTo, receiver) IN
         /\ m \in Message
         /\ m.src = c /\ m.credit = credit
         /\ m.id \notin IdsOf
         /\ IdsOf' = IdsOf \cup {m.id}
         /\ TransitOf' = TransitOf \cup {m}
<1> DEFINE m == NewMessage(c, d, credit, minTo, receiver)
<1>1. /\ m \in Message /\ m.id = sequence + 1
      /\ sent' = sent \cup {m}
  BY NewMessageType
<1>2. m.src = c /\ m.credit = credit
  BY DEF NewMessage
<1> HIDE DEF m
<1>3. sequence \in Nat
  BY DEF IInv, TypeOK, RelayerTypeOK
<1>4. \A n \in sent : n.id \in Int /\ n.id <= sequence
  BY DEF IInv, SequenceNumbers, TypeOK, RelayerTypeOK, Message
<1>5. m.id \notin IdsOf /\ IdsOf' = IdsOf \cup {m.id}
  BY <1>1, <1>3, <1>4 DEF IdsOf
<1>6. delivered' = delivered
  BY DEF Bridge
<1>7. \A n : IsDelivered(n)' <=> IsDelivered(n)
  BY <1>6 DEF IsDelivered
<1>8. ~IsDelivered(m)
  <2>1. m.dst \in Chains /\ m.to \in Adaptors \cup {NoAdaptor}
    BY <1>1 DEF Message
  <2>2. ASSUME m.to \in Adaptors, m.id \in delivered[m.dst][m.to] PROVE FALSE
    <3>1. m.id <= sequence
      BY <2>1, <2>2 DEF IInv, SequenceNumbers
    <3> QED
      BY <1>1, <1>3, <3>1
  <2> QED
    BY <2>1, <2>2 DEF IsDelivered
<1>9. TransitOf' = TransitOf \cup {m}
  BY <1>1, <1>7, <1>8 DEF TransitOf, SettledMessages
<1> QED
  BY <1>1, <1>2, <1>5, <1>9 DEF m

(* A delivery that is recorded settles the message and no other one.        *)
(* (_recordMessageHash)                                                     *)
LEMMA AcceptSettles ==
  ASSUME IInv, NEW m \in sent, Accept(m)
  PROVE  /\ m \in Message
         /\ m \in TransitOf
         /\ TransitOf' = TransitOf \ {m}
         /\ IdsOf' = IdsOf
<1>1. /\ m \in Message /\ m.to # NoAdaptor
      /\ m.dst \in Chains /\ m.to \in Adaptors
  BY DEF IInv, TypeOK, RelayerTypeOK, Accept, Dequeue, Message
<1>2. /\ sent' = sent
      /\ m.id \notin delivered[m.dst][m.to]
      /\ delivered' = [delivered EXCEPT ![m.dst][m.to] = @ \cup {m.id}]
  BY DEF Accept, relayerVars
<1>3. /\ delivered \in [Chains -> [Adaptors -> SUBSET (1..MaxMessages)]]
      /\ \A n1, n2 \in sent : n1.id = n2.id => n1 = n2
      /\ \A n \in sent : n.dst \in Chains /\ n.to \in Adaptors \cup {NoAdaptor}
  BY DEF IInv, TypeOK, AdaptorTypeOK, SequenceNumbers, RelayerTypeOK, Message
<1>4. m \in TransitOf
  BY <1>2 DEF TransitOf, SettledMessages, IsDelivered
<1>5. delivered'[m.dst][m.to] = delivered[m.dst][m.to] \cup {m.id}
  BY <1>1, <1>2, <1>3
<1>6. IsDelivered(m)'
  BY <1>1, <1>5 DEF IsDelivered
<1>7. ASSUME NEW n \in sent, n # m
      PROVE  IsDelivered(n)' <=> IsDelivered(n)
  <2>1. CASE n.to = NoAdaptor
    BY <2>1 DEF IsDelivered
  <2>2. CASE n.to # NoAdaptor
    <3>1. n.dst \in Chains /\ n.to \in Adaptors /\ n.id # m.id
      BY <1>3, <1>7, <2>2
    <3>2. n.id \in delivered'[n.dst][n.to] <=> n.id \in delivered[n.dst][n.to]
      BY <1>1, <1>2, <1>3, <3>1
    <3> QED
      BY <3>2 DEF IsDelivered
  <2> QED
    BY <2>1, <2>2
<1>8. TransitOf' = TransitOf \ {m}
  BY <1>2, <1>6, <1>7 DEF TransitOf, SettledMessages
<1> QED
  BY <1>1, <1>2, <1>4, <1>8 DEF IdsOf

(* A step that sends and records nothing leaves the transfers alone.        *)
LEMMA TransfersUnchanged ==
  ASSUME UNCHANGED <<delivered, sent>>
  PROVE  UNCHANGED <<IdsOf, TransitOf>>
BY DEF IdsOf, TransitOf, SettledMessages, IsDelivered

LEMMA LedgerInit == Init => Ledger!Init
<1> SUFFICES ASSUME Init PROVE Ledger!Init
  OBVIOUS
<1>1. ASSUME NEW c \in Chains PROVE Net(c) = 0
  <2>1. totalCreditMinted[c] = 0 /\ totalCreditBurned[c] = 0
    BY DEF Init, PoolInit
  <2> QED
    BY <2>1 DEF Net
<1> QED
  BY <1>1 DEF Init, PoolInit, Ledger!Init, SettledMessages

(* What the ledger sees of a step that leaves it alone.                     *)
LEMMA LedgerStutters ==
  ASSUME UNCHANGED <<totalCreditMinted, totalCreditBurned, creditBalance, delivered, sent>>
  PROVE  UNCHANGED Ledger!vars
<1>1. UNCHANGED <<IdsOf, TransitOf, NetOf>>
  BY TransfersUnchanged, NetUnchanged
<1> QED
  BY <1>1 DEF Ledger!vars, IdsOf, TransitOf, NetOf

(* The users' swaps issue, forward and redeem.                              *)
LEMMA LedgerUserSwaps ==
  ASSUME IInv, NEW c \in Chains, UserSwaps(c)
  PROVE  Ledger!Next
<1>1. PoolTypeOK
  BY DEF IInv, TypeOK
<1>2. ASSUME NEW d \in Chains, NEW amount \in Amounts, NEW minTo \in MinAmounts,
             NEW receiver \in Users, NEW q \in TokensForCreditQuotes(amount),
             SwapTokensForTokensCrossChain(c, d, amount, q, minTo, receiver)
      PROVE  Ledger!Next
  <2>1. q.credit \in Credits \ {0} /\ q.credit \in Nat
    BY <1>2, PoolAssumption
    DEF TokensForCreditQuotes, SwapTokensForTokensCrossChain,
        SwapTokensForCredit, CanSwapTokensForCredit
  <2>2. PICK m \in Message :
          /\ m.src = c /\ m.credit = q.credit /\ m.id \notin IdsOf
          /\ IdsOf' = IdsOf \cup {m.id} /\ TransitOf' = TransitOf \cup {m}
    BY <1>2, <2>1, BridgeLeaves DEF SwapTokensForTokensCrossChain
  <2>3. NetOf' = [NetOf EXCEPT ![c] = @ + q.credit] /\ creditBalance' = creditBalance
    BY <1>1, <1>2, <2>1, MintMovesNet DEF SwapTokensForTokensCrossChain, SwapTokensForCredit
  <2>4. Ledger!Issue(m)
    BY <2>2, <2>3 DEF Ledger!Issue, Ledger!Leave, IdsOf, TransitOf, NetOf
  <2> QED
    BY <2>2, <2>4 DEF Ledger!Next
<1>3. ASSUME NEW d \in Chains, NEW u \in Users, NEW amount \in Credits,
             NEW minTo \in MinAmounts, NEW receiver \in Users,
             SwapCreditForTokensCrossChain(c, d, u, amount, minTo, receiver)
      PROVE  Ledger!Next
  <2>1. amount \in Credits \ {0}
    BY <1>3, PoolAssumption DEF SwapCreditForTokensCrossChain, SwapCreditCrossChain, SpendCredit
  <2>2. PICK m \in Message :
          /\ m.src = c /\ m.credit = amount /\ m.id \notin IdsOf
          /\ IdsOf' = IdsOf \cup {m.id} /\ TransitOf' = TransitOf \cup {m}
    BY <1>3, <2>1, BridgeLeaves DEF SwapCreditForTokensCrossChain
  <2>3. NetOf' = NetOf
    BY <1>3, NetUnchanged DEF SwapCreditForTokensCrossChain, SwapCreditCrossChain
  <2>4. /\ amount <= creditBalance[c][u]
        /\ creditBalance' = [creditBalance EXCEPT ![c][u] = @ - amount]
    BY <1>3 DEF SwapCreditForTokensCrossChain, SwapCreditCrossChain, SpendCredit
  <2>5. Ledger!Forward(m, u)
    BY <2>2, <2>3, <2>4
    DEF Ledger!Forward, Ledger!Leave, Ledger!Spend, IdsOf, TransitOf, NetOf
  <2> QED
    BY <2>2, <2>5 DEF Ledger!Next
<1>4. ASSUME NEW u \in Users, NEW amount \in Credits, NEW minTo \in MinAmounts,
             NEW q \in CreditForTokensQuotes, RedeemCredit(c, u, amount, minTo, q)
      PROVE  Ledger!Next
  <2>1. amount \in Nat /\ amount \in Credits \ {0}
    BY <1>4, PoolAssumption DEF RedeemCredit, SwapCreditForTokens, SpendCredit
  <2>2. UNCHANGED <<IdsOf, TransitOf>>
    BY <1>4, TransfersUnchanged DEF RedeemCredit, relayerVars
  <2>3. NetOf' = [NetOf EXCEPT ![c] = @ - amount]
    BY <1>1, <1>4, <2>1, BurnMovesNet DEF RedeemCredit, SwapCreditForTokens, DoSwapCreditForTokens
  <2>4. /\ amount <= creditBalance[c][u]
        /\ creditBalance' = [creditBalance EXCEPT ![c][u] = @ - amount]
    BY <1>4 DEF RedeemCredit, SwapCreditForTokens, SpendCredit
  <2>5. Ledger!RedeemBalance(c, u, amount)
    BY <2>2, <2>3, <2>4 DEF Ledger!RedeemBalance, Ledger!Spend, IdsOf, TransitOf, NetOf
  <2>6. amount \in Ledger!CreditAmounts
    <3> DEFINE m == [id |-> 1, src |-> c, from |-> FirstAdaptor, dst |-> c, to |-> FirstAdaptor,
                     credit |-> amount, minTo |-> minTo, receiver |-> u]
    <3>1. m \in Message /\ m.credit = amount
      BY <2>1, PoolAssumption, BridgeAssumption DEF Message
    <3> QED
      BY <3>1 DEF Ledger!CreditAmounts
  <2> QED
    BY <2>5, <2>6 DEF Ledger!Next
<1> QED
  BY <1>2, <1>3, <1>4 DEF UserSwaps

(* A delivery redeems, parks, or leaves the ledger alone.                   *)
LEMMA LedgerReceive ==
  ASSUME IInv, NEW m \in sent, Receive(m)
  PROVE  Ledger!Next \/ UNCHANGED Ledger!vars
<1>1. PoolTypeOK
  BY DEF IInv, TypeOK
<1>2. CASE ReceiveUnknown(m) \/ ReceiveReverts(m)
  BY <1>2, LedgerStutters DEF ReceiveUnknown, ReceiveReverts, poolVars, relayerVars
<1>3. ASSUME NEW q \in CreditForTokensQuotes, ReceivePaysTokens(m, q)
      PROVE  Ledger!Next
  <2>1. /\ m \in Message /\ m \in TransitOf
        /\ TransitOf' = TransitOf \ {m} /\ IdsOf' = IdsOf
    BY <1>3, AcceptSettles DEF ReceivePaysTokens
  <2>2. m.dst \in Chains /\ m.credit \in Nat
    BY <2>1, PoolAssumption DEF Message
  <2>3. NetOf' = [NetOf EXCEPT ![m.dst] = @ - m.credit] /\ creditBalance' = creditBalance
    BY <1>1, <1>3, <2>2, BurnMovesNet
    DEF ReceivePaysTokens, CompleteSwapCreditForTokens, DoSwapCreditForTokens
  <2>4. Ledger!Redeem(m)
    BY <2>1, <2>3 DEF Ledger!Redeem, IdsOf, TransitOf, NetOf
  <2> QED
    BY <2>1, <2>4 DEF Ledger!Next
<1>4. ASSUME NEW q \in CreditForTokensQuotes, ReceiveMintsCredit(m, q)
      PROVE  Ledger!Next
  <2>1. /\ m \in Message /\ m \in TransitOf
        /\ TransitOf' = TransitOf \ {m} /\ IdsOf' = IdsOf
    BY <1>4, AcceptSettles DEF ReceiveMintsCredit
  <2>2. /\ NetOf' = NetOf
        /\ creditBalance' = [creditBalance EXCEPT ![m.dst][m.receiver] = @ + m.credit]
    BY <1>4, NetUnchanged DEF ReceiveMintsCredit, MintCredit
  <2>3. Ledger!Park(m)
    BY <2>1, <2>2 DEF Ledger!Park, IdsOf, TransitOf, NetOf
  <2> QED
    BY <2>1, <2>3 DEF Ledger!Next
<1> QED
  BY <1>2, <1>3, <1>4 DEF Receive

LEMMA LedgerNext == IInv /\ [Next]_vars => [Ledger!Next]_(Ledger!vars)
<1> SUFFICES ASSUME IInv, [Next]_vars PROVE Ledger!Next \/ UNCHANGED Ledger!vars
  OBVIOUS
<1>1. ASSUME NEW c \in Chains, UserSwaps(c) PROVE Ledger!Next
  BY <1>1, LedgerUserSwaps
<1>2. ASSUME NEW c \in Chains, AdministerPool(c) PROVE UNCHANGED Ledger!vars
  BY <1>2, LedgerStutters
  DEF AdministerPool, PoolAdmin, TogglePause, ToggleAssetPause,
      SetSwapTokensForCreditEnabled, SetSwapCreditForTokensEnabled,
      SetMaximumOutboundCredit, SetMaximumInboundCredit, Reconfigure, SetFee, MintFee,
      ShareFee, TransferTipBucket, FillPool, relayerVars
<1>3. ASSUME NEW c \in Chains, NEW a \in Adaptors, Rewire(c, a) PROVE UNCHANGED Ledger!vars
  BY <1>3, LedgerStutters
  DEF Rewire, SetAdaptorAddr, Reconfigure, SetAdaptorAddress, ApproveToken, RevokeToken,
      poolVars, relayerVars
<1>4. ASSUME NEW m \in sent, Receive(m) PROVE Ledger!Next \/ UNCHANGED Ledger!vars
  BY <1>4, LedgerReceive
<1>5. ASSUME NEW m \in sent, RequestResend(m) PROVE UNCHANGED Ledger!vars
  BY <1>5, LedgerStutters DEF RequestResend, poolVars, relayerVars
<1>6. CASE UNCHANGED vars
  BY <1>6, LedgerStutters DEF vars, poolVars, relayerVars
<1> QED
  BY <1>1, <1>2, <1>3, <1>4, <1>5, <1>6 DEF Next

(* The pools, the adaptors and the relayer implement the credit ledger, for *)
(* any number of chains, adaptors, users and messages: a message is settled *)
(* at most once, in tokens or in credit.                                    *)
THEOREM LedgerRefinement == Spec => ImplementsLedger
<1> QED
  BY Invariance, LedgerInit, LedgerNext, PTL DEF Spec, ImplementsLedger, Ledger!Spec
-----------------------------------------------------------------------------
(* The conservation of credit *)

(* The sums of the ledger over the state of the bridge.                     *)
LEMMA ConservedHere ==
  CreditConserved <=>
    SumOver(NetOf, Chains) = Travelling(TransitOf) + HeldIn(creditBalance)
BY DEF CreditConserved, Ledger!Conservation, Ledger!Outstanding, Ledger!InTransit,
       Ledger!Held, Ledger!SumOver, Ledger!MapThenSumSet, Ledger!MapThenFoldSet,
       Travelling, HeldIn, SumOver, MapThenSumSet, MapThenFoldSet, NetOf, TransitOf

\* Credit is conserved over finitely many transfers.
CreditInv == Conserved(NetOf, TransitOf, creditBalance)

(* A step of the ledger makes and loses no credit.                          *)
LEMMA LedgerConserves == IInv /\ CreditInv /\ [Ledger!Next]_(Ledger!vars) => CreditInv'
<1> SUFFICES ASSUME IInv, CreditInv, [Ledger!Next]_(Ledger!vars) PROVE CreditInv'
  OBVIOUS
<1>1. \A m \in Message : /\ m.credit \in Int /\ m.src \in Chains /\ m.dst \in Chains
                         /\ m.receiver \in Users
  <2> TAKE m \in Message
  <2>1. m.credit \in Credits /\ m.src \in Chains /\ m.dst \in Chains /\ m.receiver \in Users
    BY DEF Message
  <2>2. Credits \subseteq Int
    BY PoolAssumption
  <2> QED
    BY <2>1, <2>2
<1>2. ASSUME NEW t \in Message, Ledger!Leave(t)
      PROVE  t \notin TransitOf /\ TransitOf' = TransitOf \cup {t}
  BY <1>2 DEF Ledger!Leave, TransitOf
<1>3. ASSUME NEW t \in Message, Ledger!Issue(t) PROVE CreditInv'
  <2>1. NetOf' = [NetOf EXCEPT ![t.src] = @ + t.credit] /\ creditBalance' = creditBalance
    BY <1>3 DEF Ledger!Issue, NetOf
  <2>2. t \notin TransitOf /\ TransitOf' = TransitOf \cup {t}
    BY <1>2, <1>3 DEF Ledger!Issue
  <2>3. Conserved(NetOf, TransitOf, creditBalance) /\ t.src \in Chains /\ t.credit \in Int
    BY <1>1 DEF CreditInv
  <2>4. Conserved([NetOf EXCEPT ![t.src] = @ + t.credit], TransitOf \cup {t}, creditBalance)
    BY <2>2, <2>3, IssueConserves
  <2> QED
    BY <2>1, <2>2, <2>4 DEF CreditInv
<1>4. ASSUME NEW t \in Message, NEW u \in Users, Ledger!Forward(t, u) PROVE CreditInv'
  <2>1. NetOf' = NetOf /\ creditBalance' = [creditBalance EXCEPT ![t.src][u] = @ - t.credit]
    BY <1>4 DEF Ledger!Forward, Ledger!Spend, NetOf
  <2>2. t \notin TransitOf /\ TransitOf' = TransitOf \cup {t}
    BY <1>2, <1>4 DEF Ledger!Forward
  <2>3. Conserved(NetOf, TransitOf, creditBalance) /\ t.src \in Chains /\ t.credit \in Int
    BY <1>1 DEF CreditInv
  <2>4. Conserved(NetOf, TransitOf \cup {t}, [creditBalance EXCEPT ![t.src][u] = @ - t.credit])
    BY <2>2, <2>3, ForwardConserves
  <2> QED
    BY <2>1, <2>2, <2>4 DEF CreditInv
<1>5. ASSUME NEW t \in Message, Ledger!Redeem(t) PROVE CreditInv'
  <2>1. /\ t \in TransitOf /\ TransitOf' = TransitOf \ {t}
        /\ NetOf' = [NetOf EXCEPT ![t.dst] = @ - t.credit] /\ creditBalance' = creditBalance
    BY <1>5 DEF Ledger!Redeem, NetOf, TransitOf
  <2> QED
    BY <1>1, <2>1, RedeemConserves DEF CreditInv
<1>6. ASSUME NEW t \in Message, Ledger!Park(t) PROVE CreditInv'
  <2>1. /\ t \in TransitOf /\ TransitOf' = TransitOf \ {t} /\ NetOf' = NetOf
        /\ creditBalance' = [creditBalance EXCEPT ![t.dst][t.receiver] = @ + t.credit]
    BY <1>6 DEF Ledger!Park, NetOf, TransitOf
  <2> QED
    BY <1>1, <2>1, ParkConserves DEF CreditInv
<1>7. ASSUME NEW c \in Chains, NEW u \in Users, NEW amount \in Ledger!CreditAmounts,
             Ledger!RedeemBalance(c, u, amount)
      PROVE  CreditInv'
  <2>1. amount \in Int
    BY <1>1 DEF Ledger!CreditAmounts
  <2>2. /\ TransitOf' = TransitOf /\ NetOf' = [NetOf EXCEPT ![c] = @ - amount]
        /\ creditBalance' = [creditBalance EXCEPT ![c][u] = @ - amount]
    BY <1>7 DEF Ledger!RedeemBalance, Ledger!Spend, NetOf, TransitOf
  <2> QED
    BY <2>1, <2>2, SpendConserves DEF CreditInv
<1>8. CASE UNCHANGED Ledger!vars
  <2>1. NetOf' = NetOf /\ TransitOf' = TransitOf /\ creditBalance' = creditBalance
    BY <1>8 DEF Ledger!vars, NetOf, TransitOf
  <2> QED
    BY <2>1 DEF CreditInv
<1> QED
  BY <1>3, <1>4, <1>5, <1>6, <1>7, <1>8 DEF Ledger!Next

LEMMA InitCredit == Init => CreditInv
<1> SUFFICES ASSUME Init PROVE CreditInv
  OBVIOUS
<1>1. /\ NetOf = [c \in Chains |-> 0] /\ TransitOf = {}
      /\ creditBalance = [c \in Chains |-> [u \in Users |-> 0]]
  BY LedgerInit DEF Ledger!Init, NetOf, TransitOf
<1> QED
  BY <1>1, NothingConserved DEF CreditInv

(* Over all chains, any number of them, the credit minted and not burned is *)
(* the credit of the messages not yet settled plus what the users hold,     *)
(* whatever the relayer repeats or drops and the owners switch.             *)
(* (receiveWormholeMessages, completeSwapCreditForTokens, mintCredit)       *)
THEOREM CreditStaysConserved == Spec => []CreditConserved
<1>1. IInv /\ CreditInv /\ [Next]_vars => CreditInv'
  BY LedgerNext, LedgerConserves
<1>2. CreditInv => CreditConserved
  BY ConservedHere DEF CreditInv, Conserved
<1> QED
  BY <1>1, <1>2, Invariance, InitCredit, PTL DEF Spec
-----------------------------------------------------------------------------
(* The credit limits *)

(* Every step is within the limits in force when it is taken.               *)
LEMMA NextWithinLimits == IInv /\ [Next]_vars => [WithinLimits]_poolVars
<1> SUFFICES ASSUME IInv, [Next]_vars PROVE WithinLimits
  OBVIOUS
<1>1. PoolTypeOK
  BY DEF IInv, TypeOK
<1>2. ASSUME NEW c \in Chains, UserSwaps(c) PROVE WithinLimits
  <2>1. ASSUME NEW d \in Chains, NEW amount \in Amounts, NEW minTo \in MinAmounts,
               NEW receiver \in Users, NEW q \in TokensForCreditQuotes(amount),
               SwapTokensForTokensCrossChain(c, d, amount, q, minTo, receiver)
        PROVE  WithinLimits
    BY <1>1, <2>1, MintsWithinLimits DEF SwapTokensForTokensCrossChain
  <2>2. ASSUME NEW d \in Chains, NEW u \in Users, NEW amount \in Credits,
               NEW minTo \in MinAmounts, NEW receiver \in Users,
               SwapCreditForTokensCrossChain(c, d, u, amount, minTo, receiver)
        PROVE  WithinLimits
    BY <1>1, <2>2, CountersUnchangedWithinLimits
    DEF SwapCreditForTokensCrossChain, SwapCreditCrossChain
  <2>3. ASSUME NEW u \in Users, NEW amount \in Credits, NEW minTo \in MinAmounts,
               NEW q \in CreditForTokensQuotes, RedeemCredit(c, u, amount, minTo, q)
        PROVE  WithinLimits
    <3>1. amount \in Nat /\ DoSwapCreditForTokens(c, amount, minTo, q)
      BY <2>3, PoolAssumption DEF RedeemCredit, SwapCreditForTokens
    <3> QED
      BY <1>1, <3>1, BurnsWithinLimits
  <2> QED
    BY <1>2, <2>1, <2>2, <2>3 DEF UserSwaps
<1>3. ASSUME NEW c \in Chains, AdministerPool(c) PROVE WithinLimits
  BY <1>1, <1>3, PoolAdminWithinLimits, MintFeeWithinLimits DEF AdministerPool
<1>4. ASSUME NEW c \in Chains, NEW a \in Adaptors, Rewire(c, a) PROVE WithinLimits
  BY <1>1, <1>4, CountersUnchangedWithinLimits
  DEF Rewire, SetAdaptorAddr, Reconfigure, SetAdaptorAddress, ApproveToken, RevokeToken,
      poolVars
<1>5. ASSUME NEW m \in sent, Receive(m) PROVE WithinLimits
  <2>1. m.dst \in Chains /\ m.credit \in Nat
    BY PoolAssumption DEF IInv, TypeOK, RelayerTypeOK, Message
  <2>2. CASE ReceiveUnknown(m) \/ ReceiveReverts(m)
    BY <1>1, <2>2, CountersUnchangedWithinLimits
    DEF ReceiveUnknown, ReceiveReverts, poolVars
  <2>3. ASSUME NEW q \in CreditForTokensQuotes, ReceivePaysTokens(m, q)
        PROVE  WithinLimits
    BY <1>1, <2>1, <2>3, BurnsWithinLimits
    DEF ReceivePaysTokens, CompleteSwapCreditForTokens
  <2>4. ASSUME NEW q \in CreditForTokensQuotes, ReceiveMintsCredit(m, q)
        PROVE  WithinLimits
    BY <1>1, <2>4, CountersUnchangedWithinLimits DEF ReceiveMintsCredit, MintCredit
  <2> QED
    BY <1>5, <2>2, <2>3, <2>4 DEF Receive
<1>6. ASSUME NEW m \in sent, RequestResend(m) PROVE WithinLimits
  BY <1>1, <1>6, CountersUnchangedWithinLimits DEF RequestResend, poolVars
<1>7. CASE UNCHANGED vars
  BY <1>1, <1>7, CountersUnchangedWithinLimits DEF vars, poolVars
<1> QED
  BY <1>2, <1>3, <1>4, <1>5, <1>6, <1>7 DEF Next

(* No swap, delivery or redelivery takes the net credit of a chain past the *)
(* limit in force, whatever the limits were set to before.                  *)
(* (maximumOutboundCredit, maximumInboundCredit)                            *)
THEOREM LimitsHold == Spec => LimitsRespected
<1> QED
  BY Invariance, NextWithinLimits, PTL DEF Spec, LimitsRespected, WithinLimits

-----------------------------------------------------------------------------
(* The tokens that are owed *)

(* Only a step that shares out fees leaves an asset shorter, by a wad.      *)
LEMMA NextShortKept == IInv /\ [Next]_vars => [ShortKept]_poolVars
<1> SUFFICES ASSUME IInv, [Next]_vars PROVE ShortKept
  OBVIOUS
<1>1. PoolTypeOK
  BY DEF IInv, TypeOK
<1>2. ASSUME UNCHANGED poolVars PROVE ShortKept
  BY <1>1, <1>2, AssetsUnchanged DEF poolVars
<1>3. ASSUME NEW c \in Chains, UserSwaps(c) PROVE ShortKept
  <2>1. ASSUME NEW d \in Chains, NEW amount \in Amounts, NEW minTo \in MinAmounts,
               NEW receiver \in Users, NEW q \in TokensForCreditQuotes(amount),
               SwapTokensForTokensCrossChain(c, d, amount, q, minTo, receiver)
        PROVE  ShortKept
    BY <1>1, <2>1, SwapTokensForCreditKeeps DEF SwapTokensForTokensCrossChain
  <2>2. ASSUME NEW d \in Chains, NEW u \in Users, NEW amount \in Credits,
               NEW minTo \in MinAmounts, NEW receiver \in Users,
               SwapCreditForTokensCrossChain(c, d, u, amount, minTo, receiver)
        PROVE  ShortKept
    BY <1>1, <2>2, PoolAssumption, SwapCreditCrossChainKeeps DEF SwapCreditForTokensCrossChain
  <2>3. ASSUME NEW u \in Users, NEW amount \in Credits, NEW minTo \in MinAmounts,
               NEW q \in CreditForTokensQuotes, RedeemCredit(c, u, amount, minTo, q)
        PROVE  ShortKept
    BY <1>1, <2>3, PoolAssumption, SwapCreditForTokensKeeps DEF RedeemCredit
  <2> QED
    BY <1>3, <2>1, <2>2, <2>3 DEF UserSwaps
<1>4. ASSUME NEW c \in Chains, AdministerPool(c) PROVE ShortKept
  BY <1>1, <1>4, PoolAdminKeeps, MintFeeKeeps DEF AdministerPool
<1>5. ASSUME NEW c \in Chains, NEW a \in Adaptors, Rewire(c, a) PROVE ShortKept
  BY <1>1, <1>2, <1>5, SetAdaptorAddrKeeps
  DEF Rewire, SetAdaptorAddress, ApproveToken, RevokeToken
<1>6. ASSUME NEW m \in sent, Receive(m) PROVE ShortKept
  <2>1. m.dst \in Chains /\ m.credit \in Nat /\ m.receiver \in Users
    BY PoolAssumption DEF IInv, TypeOK, RelayerTypeOK, Message
  <2>2. CASE ReceiveUnknown(m) \/ ReceiveReverts(m)
    BY <1>2, <2>2 DEF ReceiveUnknown, ReceiveReverts
  <2>3. ASSUME NEW q \in CreditForTokensQuotes, ReceivePaysTokens(m, q)
        PROVE  ShortKept
    BY <1>1, <2>1, <2>3, CompleteSwapCreditForTokensKeeps DEF ReceivePaysTokens
  <2>4. ASSUME NEW q \in CreditForTokensQuotes, ReceiveMintsCredit(m, q)
        PROVE  ShortKept
    BY <1>1, <2>1, <2>4, MintCreditKeeps DEF ReceiveMintsCredit
  <2> QED
    BY <1>6, <2>2, <2>3, <2>4 DEF Receive
<1>7. ASSUME NEW m \in sent, RequestResend(m) PROVE ShortKept
  BY <1>2, <1>7 DEF RequestResend
<1>8. CASE UNCHANGED vars
  BY <1>2, <1>8 DEF vars
<1> QED
  BY <1>3, <1>4, <1>5, <1>6, <1>7, <1>8 DEF Next

(* For any decimals, quotes, fees, split of the fees, limits and settings,  *)
(* no step leaves the tokens of an asset further short of its cash and fees *)
(* than before, but one that shares fees out, and that by a wad at most:    *)
(* swaps in either direction and the tip bucket never do. (_mintFee,        *)
(* _swapTokensForCredit, _doSwapCreditForTokens, fillPool)                  *)
THEOREM ShortByRoundingOnly == Spec => ShortOnlyByRounding
<1> QED
  BY Invariance, NextShortKept, PTL DEF Spec, ShortOnlyByRounding, ShortKept
=============================================================================
