------------------------ MODULE LayerZeroBridgeProofs ------------------------
(***************************************************************************)
(* Proofs about LayerZeroBridge: a message that is not settled is in one   *)
(* place (once on its path, stored at its receiver, or dropped), so every  *)
(* step is a step of CreditLedger; an asset is short of what it owes only  *)
(* by the rounding of shared fees; the limits are kept.                    *)
(***************************************************************************)
EXTENDS LayerZeroBridge, CrossChainPoolProofs, SequenceTheorems

\* A path carries its own messages, each of them once, and a blocked path
\* still has the message that blocks it.
OnePath ==
  /\ path \in [Paths -> Seq(Message)]
  /\ \A p \in Paths : /\ IsInjective(path[p])
                      /\ \A m \in ToSet(path[p]) : PathOf(m) = p
  /\ blocked \subseteq Paths
  /\ \A p \in blocked : path[p] # <<>>

\* An adaptor stores only messages that were for it.
OwnStore ==
  /\ failedMessages \in [Chains -> [Adaptors -> SUBSET Message]]
  /\ \A c \in Chains, a \in Adaptors :
       \A m \in failedMessages[c][a] : m.dst = c /\ m.to = a

\* A message that was sent is on its path, stored or dropped: in one of them.
OnePlace ==
  /\ nonce \in 0..MaxMessages
  /\ dropped \subseteq Message
  /\ \A m \in Unsettled : m.id <= nonce
  /\ OnPath \cap Stored = {} /\ OnPath \cap dropped = {} /\ Stored \cap dropped = {}

EndpointInv == OnePath /\ OwnStore /\ OnePlace

WiringTypeOK ==
  /\ trustedRemote \in [Chains -> [Adaptors -> [Chains -> Adaptors \cup {NoAdaptor}]]]
  /\ validToken \in [Chains -> [Adaptors -> SUBSET Chains]]

BoundTypeOK ==
  /\ poolOps \in 0..MaxPoolOps
  /\ rewires \in 0..MaxRewires

\* The inductive invariant.
IInv == PoolTypeOK /\ WiringTypeOK /\ EndpointInv /\ BoundTypeOK

-----------------------------------------------------------------------------
(* Sequences *)

(* Appending a new element to a sequence without repetitions.               *)
LEMMA AppendNew ==
  ASSUME NEW S, NEW s \in Seq(S), NEW x \in S, IsInjective(s), x \notin ToSet(s)
  PROVE  /\ Append(s, x) \in Seq(S)
         /\ Append(s, x) # <<>>
         /\ ToSet(Append(s, x)) = ToSet(s) \cup {x}
         /\ IsInjective(Append(s, x))
<1> DEFINE t == Append(s, x)
<1>1. /\ t \in Seq(S) /\ t # <<>> /\ Len(t) = Len(s) + 1
      /\ \A i \in 1..Len(s) : t[i] = s[i]
      /\ t[Len(s) + 1] = x
  BY AppendProperties
<1>2. Len(s) \in Nat /\ DOMAIN s = 1..Len(s) /\ DOMAIN t = 1..(Len(s) + 1)
  BY <1>1, LenProperties
<1> HIDE DEF t
<1>3. \A i \in DOMAIN t : i \in DOMAIN s \/ i = Len(s) + 1
  BY <1>2
<1>4. \A i \in DOMAIN s : i \in DOMAIN t /\ t[i] = s[i] /\ i # Len(s) + 1
  BY <1>1, <1>2
<1>5. Len(s) + 1 \in DOMAIN t
  BY <1>2
<1>6. ToSet(t) = ToSet(s) \cup {x}
  BY <1>1, <1>3, <1>4, <1>5, Zenon DEF ToSet
<1>7. IsInjective(t)
  BY <1>1, <1>3, <1>4, <1>5, Zenon DEF ToSet, IsInjective
<1> QED
  BY <1>1, <1>6, <1>7 DEF t

(* Taking the first element off a sequence without repetitions.             *)
LEMMA TailDropsHead ==
  ASSUME NEW S, NEW s \in Seq(S), s # <<>>, IsInjective(s)
  PROVE  /\ Head(s) \in S /\ Head(s) \in ToSet(s)
         /\ Tail(s) \in Seq(S)
         /\ ToSet(Tail(s)) = ToSet(s) \ {Head(s)}
         /\ IsInjective(Tail(s))
<1> DEFINE t == Tail(s)
           h == Head(s)
<1>1. /\ h \in S /\ t \in Seq(S) /\ Len(t) = Len(s) - 1
      /\ \A i \in 1..Len(t) : t[i] = s[i + 1]
  BY HeadTailProperties
<1>2. /\ Len(s) \in Nat /\ Len(s) # 0 /\ DOMAIN s = 1..Len(s)
      /\ DOMAIN t = 1..(Len(s) - 1)
  BY <1>1, LenProperties, EmptySeq
<1>3. h = s[1]
  OBVIOUS
<1> HIDE DEF t, h
<1>4. 1 \in DOMAIN s
  BY <1>2
<1>5. \A i \in DOMAIN t : /\ i + 1 \in DOMAIN s /\ i + 1 # 1 /\ t[i] = s[i + 1]
                          /\ \A j \in DOMAIN t : i + 1 = j + 1 => i = j
  BY <1>1, <1>2
<1>6. \A k \in DOMAIN s : k = 1 \/ \E i \in DOMAIN t : k = i + 1
  <2> SUFFICES ASSUME NEW k \in DOMAIN s, k # 1 PROVE \E i \in DOMAIN t : k = i + 1
    OBVIOUS
  <2>1. k - 1 \in DOMAIN t /\ k = (k - 1) + 1
    BY <1>2
  <2> QED
    BY <2>1
<1>7. ToSet(t) = ToSet(s) \ {h}
  <2>1. ASSUME NEW x \in ToSet(t) PROVE x \in ToSet(s) \ {h}
    <3>1. PICK i \in DOMAIN t : x = t[i]
      BY DEF ToSet
    <3>2. x = s[i + 1] /\ i + 1 \in DOMAIN s /\ i + 1 # 1
      BY <1>5, <3>1
    <3> QED
      BY <1>3, <1>4, <3>2, Zenon DEF ToSet, IsInjective
  <2>2. ASSUME NEW x \in ToSet(s), x # h PROVE x \in ToSet(t)
    <3>1. PICK k \in DOMAIN s : x = s[k]
      BY DEF ToSet
    <3>2. PICK i \in DOMAIN t : k = i + 1
      BY <1>3, <1>6, <2>2, <3>1
    <3> QED
      BY <1>5, <3>1, <3>2 DEF ToSet
  <2> QED
    BY <2>1, <2>2
<1>8. IsInjective(t)
  BY <1>5, Zenon DEF IsInjective
<1>9. h \in ToSet(s)
  BY <1>3, <1>4 DEF ToSet
<1> QED
  BY <1>1, <1>7, <1>8, <1>9 DEF t, h

-----------------------------------------------------------------------------
(* The places of the messages *)

(* What a change of one path does to the set of messages under way.         *)
LEMMA OnPathAfter ==
  ASSUME OnePath, NEW p \in Paths, NEW s, path' = [path EXCEPT ![p] = s]
  PROVE  /\ ToSet(path[p]) \subseteq OnPath
         /\ \A m : PathOf(m) = p => (m \in OnPath <=> m \in ToSet(path[p]))
         /\ \A m : m \in OnPath' <=> m \in ToSet(s) \/ (m \in OnPath /\ PathOf(m) # p)
<1>1. /\ DOMAIN path = Paths
      /\ path'[p] = s /\ \A r \in Paths : r # p => path'[r] = path[r]
  BY DEF OnePath
<1>2. \A m : m \in OnPath <=> \E r \in Paths : m \in ToSet(path[r])
  BY DEF OnPath
<1>3. \A m : m \in OnPath' <=> \E r \in Paths : m \in ToSet(path'[r])
  BY DEF OnPath, ToSet
<1>4. \A r \in Paths : \A m \in ToSet(path[r]) : PathOf(m) = r
  BY DEF OnePath
<1>5. ToSet(path[p]) \subseteq OnPath
  BY <1>2
<1>6. ASSUME NEW m, PathOf(m) = p
      PROVE  m \in OnPath <=> m \in ToSet(path[p])
  BY <1>2, <1>4, <1>6
<1>7. ASSUME NEW m
      PROVE  m \in OnPath' <=> m \in ToSet(s) \/ (m \in OnPath /\ PathOf(m) # p)
  <2>1. ASSUME m \in OnPath' PROVE m \in ToSet(s) \/ (m \in OnPath /\ PathOf(m) # p)
    <3>1. PICK r \in Paths : m \in ToSet(path'[r])
      BY <1>3, <2>1
    <3> QED
      BY <1>1, <1>2, <1>4, <3>1
  <2>2. ASSUME m \in ToSet(s) PROVE m \in OnPath'
    BY <1>1, <1>3, <2>2
  <2>3. ASSUME m \in OnPath, PathOf(m) # p PROVE m \in OnPath'
    <3>1. PICK r \in Paths : m \in ToSet(path[r])
      BY <1>2, <2>3
    <3> QED
      BY <1>1, <1>3, <1>4, <2>3, <3>1
  <2> QED
    BY <2>1, <2>2, <2>3
<1> QED
  BY <1>5, <1>6, <1>7

(* A message that is sent is new: it is appended to its path, and is one    *)
(* more that is not settled. (bridgeCreditAndSwapForTokens, _lzSend)        *)
LEMMA BridgeLeaves ==
  ASSUME IInv, NEW c \in Chains, NEW d \in Chains, NEW credit \in Credits \ {0},
         NEW minTo \in MinAmounts, NEW receiver \in Users,
         Bridge(c, d, credit, minTo, receiver)
  PROVE  /\ EndpointInv'
         /\ nonce' = nonce + 1
         /\ \E m \in Message : /\ m.id = nonce + 1 /\ m.src = c /\ m.credit = credit
                               /\ Unsettled' = Unsettled \cup {m}
<1> DEFINE a == config[c].adaptor
           m == [id |-> nonce + 1, src |-> c, from |-> a, dst |-> d,
                 to |-> trustedRemote[c][a][d],
                 credit |-> credit, minTo |-> minTo, receiver |-> receiver]
           p == PathOf(m)
           s == Append(path[p], m)
<1>1. a \in Adaptors /\ trustedRemote[c][a][d] \in Adaptors
  <2>1. a \in Adaptors
    BY DEF IInv, PoolTypeOK, Config
  <2>2. trustedRemote[c][a][d] \in Adaptors \cup {NoAdaptor}
    BY <2>1 DEF IInv, WiringTypeOK
  <2> QED
    BY <2>1, <2>2 DEF Bridge
<1>2. /\ nonce \in Nat /\ nonce + 1 \in 1..MaxMessages
      /\ nonce + 1 \in 0..MaxMessages
  <2>1. nonce < MaxMessages
    BY DEF Bridge
  <2>2. nonce \in 0..MaxMessages
    BY DEF IInv, EndpointInv, OnePlace
  <2>3. MaxMessages \in Nat
    BY BridgeAssumption
  <2> QED
    BY <2>1, <2>2, <2>3
<1>3. m \in Message /\ p \in Paths
  BY <1>1, <1>2 DEF Message, Paths, PathOf
<1>4. /\ nonce' = nonce + 1
      /\ path' = [path EXCEPT ![p] = s]
      /\ UNCHANGED <<failedMessages, blocked, dropped>>
  BY DEF Bridge
<1>5. m.id = nonce + 1 /\ m.src = c /\ m.credit = credit
  OBVIOUS
<1> HIDE DEF m, p, s
<1>6. OnePath /\ OwnStore /\ OnePlace
  BY DEF IInv, EndpointInv
<1>7. m \notin Unsettled
  BY <1>2, <1>5, <1>6 DEF OnePlace
<1>8. m \notin OnPath /\ m \notin Stored /\ m \notin dropped
  BY <1>7 DEF Unsettled
<1>9. /\ s \in Seq(Message) /\ s # <<>> /\ IsInjective(s)
      /\ ToSet(s) = ToSet(path[p]) \cup {m}
  <2>1. /\ path[p] \in Seq(Message) /\ IsInjective(path[p])
        /\ m \notin ToSet(path[p])
    BY <1>3, <1>4, <1>6, <1>8, OnPathAfter DEF OnePath
  <2> QED
    BY <1>3, <2>1, AppendNew DEF s
<1>10. OnPath' = OnPath \cup {m}
  <2>1. \A x : x \in OnPath' <=> x \in ToSet(s) \/ (x \in OnPath /\ PathOf(x) # p)
    BY <1>3, <1>4, <1>6, OnPathAfter
  <2>2. \A x : PathOf(x) = p => (x \in OnPath <=> x \in ToSet(path[p]))
    BY <1>3, <1>4, <1>6, OnPathAfter
  <2>3. ToSet(path[p]) \subseteq OnPath
    BY <1>3, <1>4, <1>6, OnPathAfter
  <2> QED
    BY <1>9, <2>1, <2>2, <2>3
<1>11. Stored' = Stored /\ dropped' = dropped
  BY <1>4 DEF Stored
<1>12. Unsettled' = Unsettled \cup {m}
  BY <1>10, <1>11 DEF Unsettled
<1>13. OnePath'
  <2>1. path' \in [Paths -> Seq(Message)]
    BY <1>3, <1>4, <1>6, <1>9 DEF OnePath
  <2>2. ASSUME NEW r \in Paths
        PROVE  /\ IsInjective(path'[r])
               /\ \A x \in ToSet(path'[r]) : PathOf(x) = r
    <3>1. CASE r = p
      BY <1>4, <1>6, <1>9, <3>1 DEF OnePath, p
    <3>2. CASE r # p
      BY <1>4, <1>6, <3>2 DEF OnePath
    <3> QED
      BY <3>1, <3>2
  <2>3. blocked' \subseteq Paths /\ \A r \in blocked' : path'[r] # <<>>
    BY <1>4, <1>6, <1>9 DEF OnePath
  <2> QED
    BY <2>1, <2>2, <2>3 DEF OnePath
<1>14. OwnStore'
  BY <1>4, <1>6 DEF OwnStore
<1>15. OnePlace'
  <2>1. \A x \in Unsettled' : x.id <= nonce'
    <3>1. \A x \in Unsettled : x \in Message
      BY <1>6 DEF Unsettled, OnPath, OnePath, Stored, OwnStore, OnePlace, ToSet
    <3>2. \A x \in Unsettled : x.id \in Int /\ x.id <= nonce
      BY <1>6, <3>1 DEF OnePlace, Message
    <3> QED
      BY <1>2, <1>4, <1>5, <1>12, <3>2
  <2>2. nonce' \in 0..MaxMessages /\ dropped' \subseteq Message
    BY <1>2, <1>4, <1>6 DEF OnePlace
  <2>3. OnPath' \cap Stored' = {} /\ OnPath' \cap dropped' = {} /\ Stored' \cap dropped' = {}
    BY <1>6, <1>8, <1>10, <1>11 DEF OnePlace
  <2> QED
    BY <2>1, <2>2, <2>3 DEF OnePlace
<1> QED
  BY <1>3, <1>4, <1>5, <1>12, <1>13, <1>14, <1>15 DEF EndpointInv

(* The first message of a path leaves it, and no other one.                 *)
LEMMA PathAdvances ==
  ASSUME IInv, NEW p \in Paths, path[p] # <<>>,
         path' = [path EXCEPT ![p] = Tail(@)], blocked' = blocked \ {p}
  PROVE  /\ Head(path[p]) \in Message /\ PathOf(Head(path[p])) = p
         /\ Head(path[p]) \in OnPath
         /\ OnPath' = OnPath \ {Head(path[p])}
         /\ OnePath'
<1> DEFINE m == Head(path[p])
           s == Tail(path[p])
<1>1. OnePath
  BY DEF IInv, EndpointInv
<1>2. path[p] \in Seq(Message) /\ IsInjective(path[p])
  BY <1>1 DEF OnePath
<1>3. /\ m \in Message /\ m \in ToSet(path[p])
      /\ s \in Seq(Message) /\ ToSet(s) = ToSet(path[p]) \ {m} /\ IsInjective(s)
  BY <1>2, TailDropsHead
<1>4. path' = [path EXCEPT ![p] = s]
  OBVIOUS
<1>5. PathOf(m) = p
  BY <1>1, <1>3 DEF OnePath
<1> HIDE DEF m, s
<1>6. m \in OnPath /\ OnPath' = OnPath \ {m}
  <2>1. \A x : x \in OnPath' <=> x \in ToSet(s) \/ (x \in OnPath /\ PathOf(x) # p)
    BY <1>1, <1>4, OnPathAfter
  <2>2. /\ \A x : PathOf(x) = p => (x \in OnPath <=> x \in ToSet(path[p]))
        /\ ToSet(path[p]) \subseteq OnPath
    BY <1>1, <1>4, OnPathAfter
  <2>3. \A x \in ToSet(path[p]) : PathOf(x) = p
    BY <1>1 DEF OnePath
  <2> QED
    BY <1>3, <1>5, <2>1, <2>2, <2>3
<1>7. OnePath'
  <2>1. path' \in [Paths -> Seq(Message)]
    BY <1>1, <1>3, <1>4 DEF OnePath
  <2>2. ASSUME NEW r \in Paths
        PROVE  /\ IsInjective(path'[r])
               /\ \A x \in ToSet(path'[r]) : PathOf(x) = r
    <3>1. CASE r = p
      <4>1. path'[r] = s
        BY <1>1, <1>4, <3>1 DEF OnePath
      <4> QED
        BY <1>1, <1>3, <3>1, <4>1 DEF OnePath
    <3>2. CASE r # p
      BY <1>1, <1>4, <3>2 DEF OnePath
    <3> QED
      BY <3>1, <3>2
  <2>3. blocked' \subseteq Paths /\ \A r \in blocked' : path'[r] # <<>>
    BY <1>1, <1>4 DEF OnePath
  <2> QED
    BY <2>1, <2>2, <2>3 DEF OnePath
<1> QED
  BY <1>3, <1>5, <1>6, <1>7 DEF m

(* The store of an adaptor as the set of all stored messages sees it.       *)
LEMMA StoredAfter ==
  ASSUME OwnStore, NEW m \in Message, NEW S \in SUBSET Message,
         \A n \in S : n.dst = m.dst /\ n.to = m.to,
         failedMessages' = [failedMessages EXCEPT ![m.dst][m.to] = S]
  PROVE  /\ OwnStore'
         /\ m \in Stored <=> m \in failedMessages[m.dst][m.to]
         /\ \A n : n \in Stored' <=>
                      n \in S \/ (n \in Stored /\ n \notin failedMessages[m.dst][m.to])
<1>1. m.dst \in Chains /\ m.to \in Adaptors
  BY DEF Message
<1>2. /\ failedMessages \in [Chains -> [Adaptors -> SUBSET Message]]
      /\ \A c \in Chains, a \in Adaptors :
           \A n \in failedMessages[c][a] : n.dst = c /\ n.to = a
  BY DEF OwnStore
<1>3. /\ failedMessages' \in [Chains -> [Adaptors -> SUBSET Message]]
      /\ failedMessages'[m.dst][m.to] = S
      /\ \A c \in Chains, a \in Adaptors :
           c # m.dst \/ a # m.to => failedMessages'[c][a] = failedMessages[c][a]
  BY <1>1, <1>2
<1>4. OwnStore'
  BY <1>2, <1>3 DEF OwnStore
<1>5. \A n : n \in Stored <=> \E c \in Chains, a \in Adaptors : n \in failedMessages[c][a]
  BY DEF Stored
<1>6. \A n : n \in Stored' <=> \E c \in Chains, a \in Adaptors : n \in failedMessages'[c][a]
  BY DEF Stored
<1>7. m \in Stored <=> m \in failedMessages[m.dst][m.to]
  BY <1>1, <1>2, <1>5
<1>8. ASSUME NEW n
      PROVE  n \in Stored' <=>
               n \in S \/ (n \in Stored /\ n \notin failedMessages[m.dst][m.to])
  <2>1. ASSUME n \in Stored', n \notin S
        PROVE  n \in Stored /\ n \notin failedMessages[m.dst][m.to]
    <3>1. PICK c \in Chains, a \in Adaptors : n \in failedMessages'[c][a]
      BY <1>6, <2>1
    <3>2. (c # m.dst \/ a # m.to) /\ n \in failedMessages[c][a]
      BY <1>3, <2>1, <3>1
    <3> QED
      BY <1>1, <1>2, <1>5, <3>2
  <2>2. ASSUME n \in Stored, n \notin failedMessages[m.dst][m.to]
        PROVE  n \in Stored'
    <3>1. PICK c \in Chains, a \in Adaptors : n \in failedMessages[c][a]
      BY <1>5, <2>2
    <3>2. c # m.dst \/ a # m.to
      BY <2>2, <3>1
    <3> QED
      BY <1>3, <1>6, <3>1, <3>2
  <2>3. n \in S => n \in Stored'
    BY <1>1, <1>3, <1>6
  <2> QED
    BY <2>1, <2>2, <2>3
<1> QED
  BY <1>4, <1>7, <1>8

(* Messages may move between places or leave them: each is still in one.    *)
LEMMA OnePlaceKept ==
  ASSUME OnePlace, nonce' = nonce, dropped' \subseteq Message,
         Unsettled' \subseteq Unsettled,
         OnPath' \cap Stored' = {}, OnPath' \cap dropped' = {}, Stored' \cap dropped' = {}
  PROVE  OnePlace'
BY DEF OnePlace

(* A message that is received leaves the messages not settled. (lzReceive)  *)
LEMMA HandoverTakes ==
  ASSUME IInv, NEW p \in Paths, Handover(p), UNCHANGED failedMessages
  PROVE  /\ Head(path[p]) \in Message /\ Head(path[p]) \in Unsettled
         /\ Unsettled' = Unsettled \ {Head(path[p])}
         /\ nonce' = nonce
         /\ EndpointInv'
<1> DEFINE m == Head(path[p])
<1>1. /\ m \in Message /\ m \in OnPath /\ OnPath' = OnPath \ {m} /\ OnePath'
  BY PathAdvances DEF Handover
<1> HIDE DEF m
<1>2. /\ nonce' = nonce /\ dropped' = dropped /\ Stored' = Stored
  BY DEF Handover, Stored
<1>3. OwnStore' /\ OnePlace
  BY DEF IInv, EndpointInv, OwnStore
<1>4. m \in Unsettled /\ Unsettled' = Unsettled \ {m}
  BY <1>1, <1>2, <1>3 DEF Unsettled, OnePlace
<1>5. OnePlace'
  <2>1. /\ dropped' \subseteq Message /\ OnPath' \cap Stored' = {}
        /\ OnPath' \cap dropped' = {} /\ Stored' \cap dropped' = {}
    BY <1>1, <1>2, <1>3 DEF OnePlace
  <2> QED
    BY <1>2, <1>3, <1>4, <2>1, OnePlaceKept
<1> QED
  BY <1>1, <1>2, <1>3, <1>4, <1>5 DEF EndpointInv, m

(* A message whose execution failed moves from its path to the store of its *)
(* receiver. (_blockingLzReceive, _storeFailedMessage)                      *)
LEMMA StoresKeepsUnsettled ==
  ASSUME IInv, NEW p \in Paths, LzReceiveStores(p)
  PROVE  Unsettled' = Unsettled /\ nonce' = nonce /\ EndpointInv'
<1> DEFINE m == Head(path[p])
           S == failedMessages[m.dst][m.to] \cup {m}
<1>1. /\ m \in Message /\ m \in OnPath /\ OnPath' = OnPath \ {m} /\ OnePath'
  BY PathAdvances DEF LzReceiveStores, Handover
<1>2. failedMessages' = [failedMessages EXCEPT ![m.dst][m.to] = S]
  BY DEF LzReceiveStores
<1> HIDE DEF m
<1>3. OwnStore /\ OnePlace
  BY DEF IInv, EndpointInv
<1>4. /\ S \in SUBSET Message
      /\ \A n \in S : n.dst = m.dst /\ n.to = m.to
  BY <1>1, <1>3 DEF OwnStore, Message
<1> HIDE DEF S
<1>5. /\ OwnStore'
      /\ \A n : n \in Stored' <=>
                   n \in S \/ (n \in Stored /\ n \notin failedMessages[m.dst][m.to])
  BY <1>1, <1>2, <1>3, <1>4, StoredAfter
<1>6. failedMessages[m.dst][m.to] \subseteq Stored
  BY <1>1 DEF Stored, Message
<1>7. Stored' = Stored \cup {m}
  BY <1>5, <1>6 DEF S
<1>8. nonce' = nonce /\ dropped' = dropped
  BY DEF LzReceiveStores, Handover
<1>9. Unsettled' = Unsettled
  BY <1>1, <1>7, <1>8 DEF Unsettled
<1>10. OnePlace'
  <2>1. /\ dropped' \subseteq Message /\ OnPath' \cap Stored' = {}
        /\ OnPath' \cap dropped' = {} /\ Stored' \cap dropped' = {}
    BY <1>1, <1>3, <1>7, <1>8 DEF OnePlace
  <2> QED
    BY <1>3, <1>8, <1>9, <2>1, OnePlaceKept
<1> QED
  BY <1>1, <1>5, <1>8, <1>9, <1>10 DEF EndpointInv

(* A blocked message moves from its path to the dropped ones.               *)
(* (forceResumeReceive)                                                     *)
LEMMA DropKeepsUnsettled ==
  ASSUME IInv, NEW p \in Paths, ForceResumeReceive(p), UNCHANGED failedMessages
  PROVE  Unsettled' = Unsettled /\ nonce' = nonce /\ EndpointInv'
<1> DEFINE m == Head(path[p])
<1>1. path[p] # <<>>
  BY DEF IInv, EndpointInv, OnePath, ForceResumeReceive
<1>2. /\ m \in Message /\ m \in OnPath /\ OnPath' = OnPath \ {m} /\ OnePath'
  BY <1>1, PathAdvances DEF ForceResumeReceive
<1>3. nonce' = nonce /\ dropped' = dropped \cup {m} /\ Stored' = Stored
  BY DEF ForceResumeReceive, Stored
<1> HIDE DEF m
<1>4. OwnStore' /\ OnePlace
  BY DEF IInv, EndpointInv, OwnStore
<1>5. Unsettled' = Unsettled
  BY <1>2, <1>3 DEF Unsettled
<1>6. OnePlace'
  <2>1. /\ dropped' \subseteq Message /\ OnPath' \cap Stored' = {}
        /\ OnPath' \cap dropped' = {} /\ Stored' \cap dropped' = {}
    BY <1>2, <1>3, <1>4 DEF OnePlace
  <2> QED
    BY <1>3, <1>4, <1>5, <2>1, OnePlaceKept
<1> QED
  BY <1>2, <1>3, <1>4, <1>5, <1>6 DEF EndpointInv

(* A stored message that is executed leaves the messages not settled.       *)
(* (retryMessage)                                                           *)
LEMMA RetryTakes ==
  ASSUME IInv, NEW m \in Stored, RetryMessage(m)
  PROVE  /\ m \in Message /\ m \in Unsettled
         /\ Unsettled' = Unsettled \ {m}
         /\ nonce' = nonce
         /\ EndpointInv'
<1> DEFINE S == failedMessages[m.dst][m.to] \ {m}
<1>1. OnePath /\ OwnStore /\ OnePlace
  BY DEF IInv, EndpointInv
<1>2. m \in Message
  BY <1>1 DEF Stored, OwnStore
<1>3. /\ m \in failedMessages[m.dst][m.to]
      /\ failedMessages' = [failedMessages EXCEPT ![m.dst][m.to] = S]
      /\ UNCHANGED <<path, blocked, nonce, dropped>>
  BY DEF RetryMessage, endpointVars
<1>4. /\ S \in SUBSET Message
      /\ \A n \in S : n.dst = m.dst /\ n.to = m.to
  BY <1>1, <1>2 DEF OwnStore, Message
<1>5. /\ OwnStore'
      /\ \A n : n \in Stored' <=>
                   n \in S \/ (n \in Stored /\ n \notin failedMessages[m.dst][m.to])
  BY <1>1, <1>2, <1>3, <1>4, StoredAfter
<1>6. failedMessages[m.dst][m.to] \subseteq Stored
  BY <1>2 DEF Stored, Message
<1>7. Stored' = Stored \ {m}
  BY <1>3, <1>5, <1>6
<1>8. OnPath' = OnPath
  BY <1>3 DEF OnPath
<1>9. OnePath'
  BY <1>1, <1>3 DEF OnePath
<1>10. m \in Unsettled /\ Unsettled' = Unsettled \ {m}
  BY <1>1, <1>3, <1>7, <1>8 DEF Unsettled, OnePlace
<1>11. OnePlace'
  <2>1. /\ dropped' \subseteq Message /\ OnPath' \cap Stored' = {}
        /\ OnPath' \cap dropped' = {} /\ Stored' \cap dropped' = {}
    BY <1>1, <1>3, <1>7, <1>8 DEF OnePlace
  <2> QED
    BY <1>1, <1>3, <1>10, <2>1, OnePlaceKept
<1> QED
  BY <1>2, <1>3, <1>5, <1>9, <1>10, <1>11 DEF EndpointInv

(* A step that touches no message keeps each of them where it is. A path    *)
(* may become blocked by the message at its head.                           *)
LEMMA MessagesUntouched ==
  ASSUME IInv, UNCHANGED <<path, failedMessages, nonce, dropped>>,
         blocked' \subseteq Paths, \A p \in blocked' : path[p] # <<>>
  PROVE  Unsettled' = Unsettled /\ nonce' = nonce /\ EndpointInv'
<1>1. OnPath' = OnPath /\ Stored' = Stored /\ Unsettled' = Unsettled
  BY DEF OnPath, Stored, Unsettled
<1>2. OnePath' /\ OwnStore' /\ OnePlace'
  BY <1>1 DEF IInv, EndpointInv, OnePath, OwnStore, OnePlace
<1> QED
  BY <1>1, <1>2 DEF EndpointInv

-----------------------------------------------------------------------------
(* What every step does *)

\* A step keeps the invariant, is a step of the ledger or changes nothing of
\* what the ledger sees, stays within the credit limits, and leaves an asset
\* shorter only by sharing out fees.
StepKept == /\ IInv'
            /\ Ledger!Next \/ UNCHANGED Ledger!vars
            /\ WithinLimits
            /\ ShortKept

(* A step that leaves the pool alone.                                       *)
LEMMA PoolUntouched ==
  ASSUME PoolTypeOK, UNCHANGED poolVars
  PROVE  PoolTypeOK' /\ ShortKept
<1>1. PoolTypeOK'
  BY DEF PoolTypeOK, poolVars, assetVars
<1> QED
  BY <1>1, AssetsUnchanged DEF poolVars

(* A step that leaves the credit and the unsettled messages alone.          *)
LEMMA NoCreditMoves ==
  ASSUME IInv, IInv', ShortKept,
         UNCHANGED <<totalCreditMinted, totalCreditBurned, creditBalance>>,
         nonce' = nonce, Unsettled' = Unsettled
  PROVE  StepKept
<1>1. WithinLimits
  BY CountersUnchangedWithinLimits DEF IInv
<1>2. UNCHANGED Ledger!vars
  <2>1. NetOf' = NetOf
    BY NetUnchanged
  <2> QED
    BY <2>1 DEF Ledger!vars, NetOf
<1> QED
  BY <1>1, <1>2 DEF StepKept

(* The execution of a message redeems or parks its credit.                  *)
(* (Adaptor._swapCreditForTokens)                                           *)
LEMMA SettleKept ==
  ASSUME IInv, WiringTypeOK', BoundTypeOK', EndpointInv',
         NEW m \in Message, m \in Unsettled, Settle(m),
         Unsettled' = Unsettled \ {m}, nonce' = nonce
  PROVE  StepKept
<1>1. PoolTypeOK /\ m.dst \in Chains /\ m.credit \in Nat /\ m.receiver \in Users
  BY PoolAssumption DEF IInv, Message
<1>2. PICK q \in CreditForTokensQuotes :
        \/ CompleteSwapCreditForTokens(m.dst, m.to, m.credit, m.minTo, q)
        \/ MintCredit(m.dst, m.to, m.credit, m.receiver)
  BY DEF Settle
<1>3. CASE CompleteSwapCreditForTokens(m.dst, m.to, m.credit, m.minTo, q)
  <2>1. PoolTypeOK' /\ ShortKept
    BY <1>1, <1>3, CompleteSwapCreditForTokensKeeps
  <2>2. WithinLimits
    BY <1>1, <1>3, BurnsWithinLimits DEF CompleteSwapCreditForTokens
  <2>3. NetOf' = [NetOf EXCEPT ![m.dst] = @ - m.credit] /\ creditBalance' = creditBalance
    BY <1>1, <1>3, BurnMovesNet DEF CompleteSwapCreditForTokens, DoSwapCreditForTokens
  <2>4. Ledger!Redeem(m)
    BY <2>3 DEF Ledger!Redeem, NetOf
  <2> QED
    BY <2>1, <2>2, <2>4 DEF StepKept, IInv, Ledger!Next
<1>4. CASE MintCredit(m.dst, m.to, m.credit, m.receiver)
  <2>1. PoolTypeOK' /\ ShortKept
    BY <1>1, <1>4, MintCreditKeeps
  <2>2. WithinLimits
    BY <1>1, <1>4, CountersUnchangedWithinLimits DEF MintCredit
  <2>3. /\ NetOf' = NetOf
        /\ creditBalance' = [creditBalance EXCEPT ![m.dst][m.receiver] = @ + m.credit]
    BY <1>4, NetUnchanged DEF MintCredit
  <2>4. Ledger!Park(m)
    BY <2>3 DEF Ledger!Park, NetOf
  <2> QED
    BY <2>1, <2>2, <2>4 DEF StepKept, IInv, Ledger!Next
<1> QED
  BY <1>2, <1>3, <1>4

(* swapTokensForTokensCrossChain                                            *)
LEMMA SwapTokensCrossChainKept ==
  ASSUME IInv, NEW c \in Chains, NEW d \in Chains, NEW amount \in Amounts,
         NEW minTo \in MinAmounts, NEW receiver \in Users,
         NEW q \in TokensForCreditQuotes(amount),
         SwapTokensForTokensCrossChain(c, d, amount, q, minTo, receiver)
  PROVE  StepKept
<1>1. PoolTypeOK
  BY DEF IInv
<1>2. /\ q.credit \in Credits \ {0} /\ q.credit \in Nat
      /\ SwapTokensForCredit(c, amount, q) /\ Bridge(c, d, q.credit, minTo, receiver)
  BY PoolAssumption
  DEF TokensForCreditQuotes, SwapTokensForTokensCrossChain,
      SwapTokensForCredit, CanSwapTokensForCredit
<1>3. PICK m \in Message : /\ m.id = nonce + 1 /\ m.src = c /\ m.credit = q.credit
                           /\ Unsettled' = Unsettled \cup {m}
  BY <1>2, BridgeLeaves
<1>4. EndpointInv' /\ nonce' = nonce + 1
  BY <1>2, BridgeLeaves
<1>5. PoolTypeOK' /\ ShortKept /\ WithinLimits
  BY <1>1, <1>2, SwapTokensForCreditKeeps, MintsWithinLimits
<1>6. WiringTypeOK' /\ BoundTypeOK'
  BY <1>2 DEF Bridge, IInv, WiringTypeOK, BoundTypeOK, adaptorVars, boundVars
<1>7. NetOf' = [NetOf EXCEPT ![c] = @ + q.credit] /\ creditBalance' = creditBalance
  BY <1>1, <1>2, MintMovesNet DEF SwapTokensForCredit
<1>8. m.id \notin 1..nonce /\ 1..nonce' = (1..nonce) \cup {m.id}
  BY <1>3, <1>4 DEF IInv, EndpointInv, OnePlace
<1>9. Ledger!Issue(m)
  BY <1>3, <1>7, <1>8 DEF Ledger!Issue, Ledger!Leave, NetOf
<1> QED
  BY <1>4, <1>5, <1>6, <1>9 DEF StepKept, IInv, Ledger!Next

(* swapCreditForTokensCrossChain                                            *)
LEMMA SwapCreditCrossChainKept ==
  ASSUME IInv, NEW c \in Chains, NEW d \in Chains, NEW u \in Users,
         NEW amount \in Credits, NEW minTo \in MinAmounts, NEW receiver \in Users,
         SwapCreditForTokensCrossChain(c, d, u, amount, minTo, receiver)
  PROVE  StepKept
<1>1. PoolTypeOK
  BY DEF IInv
<1>2. /\ amount \in Credits \ {0} /\ amount \in Nat
      /\ SwapCreditCrossChain(c, u, amount) /\ Bridge(c, d, amount, minTo, receiver)
  BY PoolAssumption DEF SwapCreditForTokensCrossChain, SwapCreditCrossChain, SpendCredit
<1>3. PICK m \in Message : /\ m.id = nonce + 1 /\ m.src = c /\ m.credit = amount
                           /\ Unsettled' = Unsettled \cup {m}
  BY <1>2, BridgeLeaves
<1>4. EndpointInv' /\ nonce' = nonce + 1
  BY <1>2, BridgeLeaves
<1>5. PoolTypeOK' /\ ShortKept
  BY <1>1, <1>2, SwapCreditCrossChainKeeps
<1>6. WithinLimits
  BY <1>1, <1>2, CountersUnchangedWithinLimits DEF SwapCreditCrossChain
<1>7. WiringTypeOK' /\ BoundTypeOK'
  BY <1>2 DEF Bridge, IInv, WiringTypeOK, BoundTypeOK, adaptorVars, boundVars
<1>8. NetOf' = NetOf
  BY <1>2, NetUnchanged DEF SwapCreditCrossChain
<1>9. /\ amount <= creditBalance[c][u]
      /\ creditBalance' = [creditBalance EXCEPT ![c][u] = @ - amount]
  BY <1>2 DEF SwapCreditCrossChain, SpendCredit
<1>10. m.id \notin 1..nonce /\ 1..nonce' = (1..nonce) \cup {m.id}
  BY <1>3, <1>4 DEF IInv, EndpointInv, OnePlace
<1>11. Ledger!Forward(m, u)
  BY <1>3, <1>8, <1>9, <1>10 DEF Ledger!Forward, Ledger!Leave, Ledger!Spend, NetOf
<1> QED
  BY <1>4, <1>5, <1>6, <1>7, <1>11 DEF StepKept, IInv, Ledger!Next

(* swapCreditForTokens                                                      *)
LEMMA RedeemCreditKept ==
  ASSUME IInv, NEW c \in Chains, NEW u \in Users, NEW amount \in Credits,
         NEW minTo \in MinAmounts, NEW q \in CreditForTokensQuotes,
         RedeemCredit(c, u, amount, minTo, q)
  PROVE  StepKept
<1>1. PoolTypeOK
  BY DEF IInv
<1>2. /\ amount \in Credits \ {0} /\ amount \in Nat
      /\ SwapCreditForTokens(c, u, amount, minTo, q)
      /\ DoSwapCreditForTokens(c, amount, minTo, q)
  BY PoolAssumption DEF RedeemCredit, SwapCreditForTokens, SpendCredit
<1>3. EndpointInv' /\ Unsettled' = Unsettled /\ nonce' = nonce
  <2>1. /\ UNCHANGED <<path, failedMessages, nonce, dropped, blocked>>
        /\ blocked' \subseteq Paths /\ \A p \in blocked' : path[p] # <<>>
    BY DEF RedeemCredit, endpointVars, IInv, EndpointInv, OnePath
  <2> QED
    BY <2>1, MessagesUntouched
<1>4. PoolTypeOK' /\ ShortKept
  BY <1>1, <1>2, SwapCreditForTokensKeeps
<1>5. WithinLimits
  BY <1>1, <1>2, BurnsWithinLimits
<1>6. WiringTypeOK' /\ BoundTypeOK'
  BY DEF RedeemCredit, IInv, WiringTypeOK, BoundTypeOK, adaptorVars, boundVars
<1>7. NetOf' = [NetOf EXCEPT ![c] = @ - amount]
  BY <1>1, <1>2, BurnMovesNet DEF DoSwapCreditForTokens
<1>8. /\ amount <= creditBalance[c][u]
      /\ creditBalance' = [creditBalance EXCEPT ![c][u] = @ - amount]
  BY <1>2 DEF SwapCreditForTokens, SpendCredit
<1>9. Ledger!RedeemBalance(c, u, amount)
  BY <1>3, <1>7, <1>8 DEF Ledger!RedeemBalance, Ledger!Spend, NetOf
<1>10. amount \in Ledger!CreditAmounts
  <2> DEFINE m == [id |-> 1, src |-> c, from |-> FirstAdaptor, dst |-> c, to |-> FirstAdaptor,
                   credit |-> amount, minTo |-> minTo, receiver |-> u]
  <2>1. m \in Message /\ m.credit = amount
    BY <1>2, PoolAssumption, BridgeAssumption DEF Message
  <2> QED
    BY <2>1 DEF Ledger!CreditAmounts
<1> QED
  BY <1>3, <1>4, <1>5, <1>6, <1>9, <1>10 DEF StepKept, IInv, Ledger!Next

(* Every outcome of a delivery. (lzReceive)                                 *)
LEMMA LzReceiveKept ==
  ASSUME IInv, NEW p \in Paths, LzReceive(p)
  PROVE  StepKept
<1>1. UNCHANGED <<trustedRemote, validToken, poolOps, rewires>>
  BY DEF LzReceive, LzReceiveSettles, LzReceiveStores, LzReceiveBlocks, Handover,
         adaptorVars, boundVars
<1>2. WiringTypeOK' /\ BoundTypeOK'
  BY <1>1 DEF IInv, WiringTypeOK, BoundTypeOK
<1>3. ASSUME UNCHANGED poolVars PROVE PoolTypeOK' /\ ShortKept
  BY <1>3, PoolUntouched DEF IInv
<1>4. CASE LzReceiveSettles(p)
  <2>1. Handover(p) /\ UNCHANGED failedMessages /\ Settle(Head(path[p]))
    BY <1>4 DEF LzReceiveSettles
  <2> QED
    BY <1>2, <2>1, HandoverTakes, SettleKept
<1>5. CASE LzReceiveStores(p)
  <2>1. Unsettled' = Unsettled /\ nonce' = nonce /\ EndpointInv'
    BY <1>5, StoresKeepsUnsettled
  <2>2. IInv'
    BY <1>2, <1>3, <1>5, <2>1 DEF IInv, LzReceiveStores
  <2> QED
    BY <1>3, <1>5, <2>1, <2>2, NoCreditMoves DEF LzReceiveStores, poolVars
<1>6. CASE LzReceiveBlocks(p)
  <2>1. Unsettled' = Unsettled /\ nonce' = nonce /\ EndpointInv'
    BY <1>6, MessagesUntouched DEF LzReceiveBlocks, IInv, EndpointInv, OnePath
  <2>2. IInv'
    BY <1>2, <1>3, <1>6, <2>1 DEF IInv, LzReceiveBlocks
  <2> QED
    BY <1>3, <1>6, <2>1, <2>2, NoCreditMoves DEF LzReceiveBlocks, poolVars
<1> QED
  BY <1>4, <1>5, <1>6 DEF LzReceive

(* retryMessage                                                             *)
LEMMA RetryMessageKept ==
  ASSUME IInv, NEW m \in Stored, RetryMessage(m)
  PROVE  StepKept
<1>1. WiringTypeOK' /\ BoundTypeOK'
  BY DEF RetryMessage, IInv, WiringTypeOK, BoundTypeOK, adaptorVars, boundVars
<1>2. Settle(m)
  BY DEF RetryMessage
<1> QED
  BY <1>1, <1>2, RetryTakes, SettleKept

(* Messages are not touched by a step that leaves all of the endpoint alone. *)
LEMMA EndpointUntouched ==
  ASSUME IInv, UNCHANGED <<failedMessages, endpointVars>>
  PROVE  Unsettled' = Unsettled /\ nonce' = nonce /\ EndpointInv'
BY MessagesUntouched DEF endpointVars, IInv, EndpointInv, OnePath

(* The permissioned functions of the pool, and mintFee.                     *)
LEMMA AdministerPoolKept ==
  ASSUME IInv, NEW c \in Chains, AdministerPool(c)
  PROVE  StepKept
<1>1. PoolTypeOK' /\ ShortKept
  BY PoolAdminKeeps, MintFeeKeeps DEF IInv, AdministerPool
<1>2. WiringTypeOK' /\ BoundTypeOK'
  BY BridgeAssumption
  DEF AdministerPool, IInv, WiringTypeOK, BoundTypeOK, adaptorVars
<1>3. Unsettled' = Unsettled /\ nonce' = nonce /\ EndpointInv'
  BY EndpointUntouched DEF AdministerPool
<1>4. UNCHANGED <<totalCreditMinted, totalCreditBurned, creditBalance>>
  BY DEF AdministerPool, PoolAdmin, TogglePause, ToggleAssetPause,
         SetSwapTokensForCreditEnabled, SetSwapCreditForTokensEnabled,
         SetMaximumOutboundCredit, SetMaximumInboundCredit, Reconfigure, SetFee, MintFee,
         ShareFee, TransferTipBucket, FillPool
<1> QED
  BY <1>1, <1>2, <1>3, <1>4, NoCreditMoves DEF IInv

(* Replacing adaptors, remotes and tokens, and dropping a blocked message.  *)
LEMMA RewireKept ==
  ASSUME IInv, Rewire
  PROVE  StepKept
<1>1. PoolTypeOK /\ BoundTypeOK' /\ UNCHANGED failedMessages
  BY BridgeAssumption DEF Rewire, IInv, BoundTypeOK
<1>2. /\ trustedRemote \in [Chains -> [Adaptors -> [Chains -> Adaptors \cup {NoAdaptor}]]]
      /\ validToken \in [Chains -> [Adaptors -> SUBSET Chains]]
  BY DEF IInv, WiringTypeOK
<1>3. ASSUME UNCHANGED poolVars PROVE PoolTypeOK' /\ ShortKept
  BY <1>1, <1>3, PoolUntouched
<1>4. ASSUME NEW c \in Chains, NEW a \in Adaptors,
             SetAdaptorAddr(c, a), UNCHANGED <<adaptorVars, endpointVars>>
      PROVE  StepKept
  <2>1. PoolTypeOK' /\ ShortKept /\ WiringTypeOK'
    BY <1>1, <1>2, <1>4, SetAdaptorAddrKeeps DEF WiringTypeOK, adaptorVars
  <2>2. Unsettled' = Unsettled /\ nonce' = nonce /\ EndpointInv'
    BY <1>1, <1>4, EndpointUntouched
  <2> QED
    BY <1>1, <1>4, <2>1, <2>2, NoCreditMoves DEF IInv, SetAdaptorAddr, Reconfigure
<1>5. ASSUME WiringTypeOK', UNCHANGED <<poolVars, endpointVars>>
      PROVE  StepKept
  <2>1. Unsettled' = Unsettled /\ nonce' = nonce /\ EndpointInv'
    BY <1>1, <1>5, EndpointUntouched
  <2> QED
    BY <1>1, <1>3, <1>5, <2>1, NoCreditMoves DEF IInv, poolVars
<1>6. ASSUME NEW c \in Chains, NEW a \in Adaptors, NEW d \in Chains,
             NEW peer \in Adaptors \cup {NoAdaptor}, SetTrustedRemote(c, a, d, peer)
      PROVE  StepKept
  BY <1>2, <1>5, <1>6 DEF SetTrustedRemote, WiringTypeOK
<1>7. ASSUME NEW c \in Chains, NEW a \in Adaptors, NEW d \in Chains, ToggleToken(c, a, d)
      PROVE  StepKept
  <2>1. SymDiff(validToken[c][a], {d}) \in SUBSET Chains
    BY <1>2 DEF SymDiff
  <2>2. WiringTypeOK'
    BY <1>2, <1>7, <2>1 DEF ToggleToken, WiringTypeOK
  <2> QED
    BY <1>5, <1>7, <2>2 DEF ToggleToken
<1>8. ASSUME NEW p \in Paths, ForceResumeReceive(p)
      PROVE  StepKept
  <2>1. Unsettled' = Unsettled /\ nonce' = nonce /\ EndpointInv'
    BY <1>1, <1>8, DropKeepsUnsettled
  <2>2. UNCHANGED poolVars /\ WiringTypeOK'
    BY <1>2, <1>8 DEF ForceResumeReceive, WiringTypeOK, adaptorVars
  <2> QED
    BY <1>1, <1>3, <2>1, <2>2, NoCreditMoves DEF IInv, poolVars
<1> QED
  BY <1>4, <1>6, <1>7, <1>8 DEF Rewire

-----------------------------------------------------------------------------
(* The theorems *)

LEMMA InitIInv == Init => IInv
<1> SUFFICES ASSUME Init PROVE IInv
  OBVIOUS
<1>1. PoolTypeOK /\ WiringTypeOK /\ BoundTypeOK
  BY PoolInitType, PoolAssumption, BridgeAssumption DEF Init, WiringTypeOK, BoundTypeOK
<1>2. OnePath /\ OwnStore
  BY DEF Init, OnePath, OwnStore, IsInjective, ToSet
<1>3. OnPath = {} /\ Stored = {} /\ dropped = {} /\ nonce = 0
  BY DEF Init, OnPath, Stored, ToSet
<1>4. OnePlace
  BY <1>3, BridgeAssumption DEF OnePlace, Unsettled
<1> QED
  BY <1>1, <1>2, <1>4 DEF IInv, EndpointInv

LEMMA NextKept == IInv /\ [Next]_vars => StepKept
<1> SUFFICES ASSUME IInv, [Next]_vars PROVE StepKept
  OBVIOUS
<1>1. ASSUME NEW c \in Chains, UserSwaps(c) PROVE StepKept
  BY <1>1, SwapTokensCrossChainKept, SwapCreditCrossChainKept, RedeemCreditKept
  DEF UserSwaps
<1>2. ASSUME NEW c \in Chains, AdministerPool(c) PROVE StepKept
  BY <1>2, AdministerPoolKept
<1>3. CASE Rewire
  BY <1>3, RewireKept
<1>4. ASSUME NEW p \in Paths, LzReceive(p) PROVE StepKept
  BY <1>4, LzReceiveKept
<1>5. ASSUME NEW m \in Stored, RetryMessage(m) PROVE StepKept
  BY <1>5, RetryMessageKept
<1>6. CASE UNCHANGED vars
  <2>1. Unsettled' = Unsettled /\ nonce' = nonce /\ EndpointInv'
    BY <1>6, EndpointUntouched DEF vars
  <2>2. PoolTypeOK' /\ ShortKept
    BY <1>6, PoolUntouched DEF vars, IInv
  <2>3. IInv'
    BY <1>6, <2>1, <2>2
    DEF vars, adaptorVars, boundVars, IInv, WiringTypeOK, BoundTypeOK
  <2> QED
    BY <1>6, <2>1, <2>2, <2>3, NoCreditMoves DEF vars, poolVars
<1> QED
  BY <1>1, <1>2, <1>3, <1>4, <1>5, <1>6 DEF Next

(* The inductive invariant holds in every reachable state.                  *)
THEOREM Invariance == Spec => []IInv
<1>1. IInv /\ [Next]_vars => IInv'
  BY NextKept DEF StepKept
<1> QED
  BY <1>1, InitIInv, PTL DEF Spec

(* Every reachable state is well typed: no counter, balance or amount of    *)
(* cash wraps below zero, and every path carries its own messages.          *)
THEOREM TypeCorrect == Spec => []TypeOK
<1>1. IInv => TypeOK
  <2> SUFFICES ASSUME IInv PROVE TypeOK
    OBVIOUS
  <2>1. OnePath /\ OwnStore /\ OnePlace
    BY DEF IInv, EndpointInv
  <2>2. \A p \in Paths : \A i \in DOMAIN path[p] :
           path[p][i] \in Message /\ PathOf(path[p][i]) = p
    BY <2>1 DEF OnePath, ToSet
  <2> QED
    BY <2>1, <2>2 DEF IInv, WiringTypeOK, BoundTypeOK, OnePath, OwnStore, OnePlace,
                      TypeOK
<1> QED
  BY <1>1, Invariance, PTL

LEMMA LedgerInit == Init => Ledger!Init
<1> SUFFICES ASSUME Init PROVE Ledger!Init
  OBVIOUS
<1>1. ASSUME NEW c \in Chains PROVE Net(c) = 0
  BY DEF Init, PoolInit, Net
<1>2. Unsettled = {} /\ 1..nonce = {}
  BY DEF Init, Unsettled, OnPath, Stored, ToSet
<1> QED
  BY <1>1, <1>2 DEF Init, PoolInit, Ledger!Init

(* The pools, the adaptors and the endpoint implement the credit ledger:    *)
(* a message is settled at most once, in tokens or in credit, whether it is *)
(* executed at its delivery or retried, and a blocked or stored message is  *)
(* still there until it is. (lzReceive, retryMessage)                       *)
THEOREM LedgerRefinement == Spec => ImplementsLedger
<1>1. IInv /\ [Next]_vars => [Ledger!Next]_(Ledger!vars)
  BY NextKept DEF StepKept
<1> QED
  BY <1>1, LedgerInit, Invariance, PTL DEF Spec, ImplementsLedger, Ledger!Spec

-----------------------------------------------------------------------------
(* The conservation of credit *)

(* The sums of the ledger over the state of the bridge.                     *)
LEMMA ConservedHere ==
  CreditConserved <=>
    SumOver(NetOf, Chains) = Travelling(Unsettled) + HeldIn(creditBalance)
BY DEF CreditConserved, Ledger!Conservation, Ledger!Outstanding, Ledger!InTransit,
       Ledger!Held, Ledger!SumOver, Ledger!MapThenSumSet, Ledger!MapThenFoldSet,
       Travelling, HeldIn, SumOver, MapThenSumSet, MapThenFoldSet, NetOf

\* Credit is conserved over finitely many transfers.
CreditInv == Conserved(NetOf, Unsettled, creditBalance)

(* A step of the ledger makes and loses no credit.                          *)
LEMMA LedgerConserves == IInv /\ CreditInv /\ [Ledger!Next]_(Ledger!vars) => CreditInv'
<1> SUFFICES ASSUME IInv, CreditInv, [Ledger!Next]_(Ledger!vars) PROVE CreditInv'
  OBVIOUS
<1>1. \A m \in Message : /\ m.credit \in Int /\ m.src \in Chains /\ m.dst \in Chains
                         /\ m.receiver \in Users
  <2> TAKE m \in Message
  <2>1. m.credit \in Credits /\ m.src \in Chains /\ m.dst \in Chains /\ m.receiver \in Users
    BY DEF Message
  <2>2. Credits \subseteq Int
    BY PoolAssumption
  <2> QED
    BY <2>1, <2>2
<1>2. ASSUME NEW t \in Message, Ledger!Leave(t)
      PROVE  t \notin Unsettled /\ Unsettled' = Unsettled \cup {t}
  <2>1. t.id \in 1..MaxMessages /\ t.id \notin 1..nonce
    BY <1>2 DEF Ledger!Leave, Message
  <2>2. nonce \in Nat /\ \A m \in Unsettled : m.id <= nonce
    BY BridgeAssumption DEF IInv, EndpointInv, OnePlace
  <2>3. t \notin Unsettled
    BY <2>1, <2>2
  <2> QED
    BY <1>2, <2>3 DEF Ledger!Leave
<1>3. ASSUME NEW t \in Message, Ledger!Issue(t) PROVE CreditInv'
  <2>1. NetOf' = [NetOf EXCEPT ![t.src] = @ + t.credit] /\ creditBalance' = creditBalance
    BY <1>3 DEF Ledger!Issue, NetOf
  <2>2. t \notin Unsettled /\ Unsettled' = Unsettled \cup {t}
    BY <1>2, <1>3 DEF Ledger!Issue
  <2>3. Conserved(NetOf, Unsettled, creditBalance) /\ t.src \in Chains /\ t.credit \in Int
    BY <1>1 DEF CreditInv
  <2>4. Conserved([NetOf EXCEPT ![t.src] = @ + t.credit], Unsettled \cup {t}, creditBalance)
    BY <2>2, <2>3, IssueConserves
  <2> QED
    BY <2>1, <2>2, <2>4 DEF CreditInv
<1>4. ASSUME NEW t \in Message, NEW u \in Users, Ledger!Forward(t, u) PROVE CreditInv'
  <2>1. NetOf' = NetOf /\ creditBalance' = [creditBalance EXCEPT ![t.src][u] = @ - t.credit]
    BY <1>4 DEF Ledger!Forward, Ledger!Spend, NetOf
  <2>2. t \notin Unsettled /\ Unsettled' = Unsettled \cup {t}
    BY <1>2, <1>4 DEF Ledger!Forward
  <2>3. Conserved(NetOf, Unsettled, creditBalance) /\ t.src \in Chains /\ t.credit \in Int
    BY <1>1 DEF CreditInv
  <2>4. Conserved(NetOf, Unsettled \cup {t}, [creditBalance EXCEPT ![t.src][u] = @ - t.credit])
    BY <2>2, <2>3, ForwardConserves
  <2> QED
    BY <2>1, <2>2, <2>4 DEF CreditInv
<1>5. ASSUME NEW t \in Message, Ledger!Redeem(t) PROVE CreditInv'
  <2>1. /\ t \in Unsettled /\ Unsettled' = Unsettled \ {t}
        /\ NetOf' = [NetOf EXCEPT ![t.dst] = @ - t.credit] /\ creditBalance' = creditBalance
    BY <1>5 DEF Ledger!Redeem, NetOf
  <2> QED
    BY <1>1, <2>1, RedeemConserves DEF CreditInv
<1>6. ASSUME NEW t \in Message, Ledger!Park(t) PROVE CreditInv'
  <2>1. /\ t \in Unsettled /\ Unsettled' = Unsettled \ {t} /\ NetOf' = NetOf
        /\ creditBalance' = [creditBalance EXCEPT ![t.dst][t.receiver] = @ + t.credit]
    BY <1>6 DEF Ledger!Park, NetOf
  <2> QED
    BY <1>1, <2>1, ParkConserves DEF CreditInv
<1>7. ASSUME NEW c \in Chains, NEW u \in Users, NEW amount \in Ledger!CreditAmounts,
             Ledger!RedeemBalance(c, u, amount)
      PROVE  CreditInv'
  <2>1. amount \in Int
    BY <1>1 DEF Ledger!CreditAmounts
  <2>2. /\ Unsettled' = Unsettled /\ NetOf' = [NetOf EXCEPT ![c] = @ - amount]
        /\ creditBalance' = [creditBalance EXCEPT ![c][u] = @ - amount]
    BY <1>7 DEF Ledger!RedeemBalance, Ledger!Spend, NetOf
  <2> QED
    BY <2>1, <2>2, SpendConserves DEF CreditInv
<1>8. CASE UNCHANGED Ledger!vars
  <2>1. NetOf' = NetOf /\ Unsettled' = Unsettled /\ creditBalance' = creditBalance
    BY <1>8 DEF Ledger!vars, NetOf
  <2> QED
    BY <2>1 DEF CreditInv
<1> QED
  BY <1>3, <1>4, <1>5, <1>6, <1>7, <1>8 DEF Ledger!Next

LEMMA InitCredit == Init => CreditInv
<1> SUFFICES ASSUME Init PROVE CreditInv
  OBVIOUS
<1>1. /\ NetOf = [c \in Chains |-> 0] /\ Unsettled = {}
      /\ creditBalance = [c \in Chains |-> [u \in Users |-> 0]]
  BY LedgerInit DEF Ledger!Init, NetOf
<1> QED
  BY <1>1, NothingConserved DEF CreditInv

(* Over any number of chains, the credit minted and not burned is the       *)
(* credit of the messages still on a path, stored or dropped, plus what the *)
(* users hold. (_swapCreditForTokens, retryMessage, forceResumeReceive)     *)
THEOREM CreditStaysConserved == Spec => []CreditConserved
<1>1. IInv /\ CreditInv /\ [Next]_vars => CreditInv'
  BY NextKept, LedgerConserves DEF StepKept
<1>2. CreditInv => CreditConserved
  BY ConservedHere DEF CreditInv, Conserved
<1> QED
  BY <1>1, <1>2, Invariance, InitCredit, PTL DEF Spec

-----------------------------------------------------------------------------
(* No step takes the net credit of a chain past the limit in force.         *)
(* (maximumOutboundCredit, maximumInboundCredit)                            *)
THEOREM LimitsHold == Spec => LimitsRespected
<1>1. IInv /\ [Next]_vars => [WithinLimits]_poolVars
  BY NextKept DEF StepKept
<1> QED
  BY <1>1, Invariance, PTL DEF Spec, LimitsRespected, WithinLimits

(* With LayerZero's endpoint too, an asset gets further short of its cash   *)
(* and fees only when fees are shared out, and then by one wad. (_mintFee,  *)
(* _swapTokensForCredit, _doSwapCreditForTokens, fillPool)                  *)
THEOREM ShortByRoundingOnly == Spec => ShortOnlyByRounding
<1>1. IInv /\ [Next]_vars => [ShortKept]_poolVars
  BY NextKept DEF StepKept
<1> QED
  BY <1>1, Invariance, PTL DEF Spec, ShortOnlyByRounding, ShortKept
=============================================================================
