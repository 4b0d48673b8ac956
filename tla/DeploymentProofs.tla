-------------------------- MODULE DeploymentProofs --------------------------
(***************************************************************************)
(* Proofs about running the deploy scripts, for any networks and tags, any *)
(* number of runs, interrupted anywhere: the state stays well typed, what  *)
(* is given to the Safe has every setting that only its owner can make,    *)
(* and a completed setup leaves the adaptors with their peers of today.    *)
(*                                                                         *)
(* ScriptsAreSound says of the scripts, as sequences of calls, that a      *)
(* contract is handed over after its settings are made.  The invariant     *)
(* says the same of the calls that are left of the script that runs: of    *)
(* each setting, that it is made or that a call that is left makes it      *)
(* before the contract is handed over.  An interrupted run leaves no such  *)
(* calls, and the next one never hands over what it did not create.        *)
(*                                                                         *)
(* Of the calls of the setup that the run has begun, the invariant says    *)
(* that the peer is known by its address, or that a call that is left      *)
(* makes it known.  When none is left, SetupConnectsAll gives the rest.    *)
(***************************************************************************)
EXTENDS Deployment, SequenceTheorems, TLAPS

-----------------------------------------------------------------------------
(* Sequences of calls *)

LEMMA SequenceOfCalls ==
  ASSUME NEW s, IsSequenceOfCalls(s)
  PROVE  s \in Seq(ToSet(s)) /\ Len(s) \in Nat /\ DOMAIN s = 1..Len(s)
<1>1. PICK n \in Nat : n = Len(s)
  BY DEF IsSequenceOfCalls
<1>2. s = [i \in 1..n |-> s[i]]
  BY <1>1 DEF IsSequenceOfCalls
<1>3. DOMAIN s = 1..n
  BY <1>2
<1>4. s \in [1..n -> ToSet(s)]
  BY <1>2, <1>3 DEF ToSet
<1>5. s \in Seq(ToSet(s))
  BY <1>4, SeqDef
<1> QED BY <1>1, <1>3, <1>5

LEMMA CallsOfSequence ==
  ASSUME NEW S, NEW s \in Seq(S)
  PROVE  IsSequenceOfCalls(s)
BY LenProperties DEF IsSequenceOfCalls

LEMMA EmptySequence == IsSequenceOfCalls(<<>>) /\ DOMAIN <<>> = {}
<1>1. <<>> \in Seq({}) /\ Len(<<>>) = 0
  BY EmptySeq
<1>2. DOMAIN <<>> = 1..Len(<<>>)
  BY <1>1, LenProperties
<1>3. DOMAIN <<>> = {}
  BY <1>1, <1>2
<1>4. IsSequenceOfCalls(<<>>)
  BY <1>1, CallsOfSequence
<1> QED BY <1>3, <1>4

\* The sequence that is left when the first call unfolds.
LEMMA Unfolding ==
  ASSUME NEW s, NEW u, IsSequenceOfCalls(s), IsSequenceOfCalls(u), u # <<>>,
         NEW c, c = s \o Tail(u)
  PROVE  /\ IsSequenceOfCalls(c)
         /\ Len(c) = Len(s) + Len(u) - 1 /\ Len(u) >= 1 /\ Head(u) = u[1]
         /\ DOMAIN c = 1..Len(c) /\ DOMAIN s = 1..Len(s) /\ DOMAIN u = 1..Len(u)
         /\ \A j \in 1..Len(s) : c[j] = s[j]
         /\ \A j \in 2..Len(u) : c[Len(s) + j - 1] = u[j]
<1> DEFINE S == ToSet(s) \cup ToSet(u)
<1>1. s \in Seq(S) /\ u \in Seq(S)
  BY SequenceOfCalls, SeqMonotonic
<1> HIDE DEF S
<1>2. PICK t \in Seq(S) : t = Tail(u) /\ Len(t) = Len(u) - 1
               /\ \A i \in 1..Len(t) : t[i] = u[i + 1]
  BY <1>1, HeadTailProperties
<1>3. /\ c \in Seq(S) /\ Len(c) = Len(s) + Len(t)
      /\ \A i \in 1..Len(s) + Len(t) :
           c[i] = IF i <= Len(s) THEN s[i] ELSE t[i - Len(s)]
  BY <1>1, <1>2, ConcatProperties
<1>4. Len(s) \in Nat /\ Len(u) \in Nat /\ Len(u) # 0
  BY <1>1, EmptySeq, LenProperties
<1>5. Head(u) = u[1]
  OBVIOUS
<1>6. ASSUME NEW j \in 2..Len(u) PROVE c[Len(s) + j - 1] = u[j]
  <2>1. j - 1 \in 1..Len(t) /\ Len(s) + j - 1 \in 1..Len(s) + Len(t)
        /\ (Len(s) + j - 1) - Len(s) = j - 1 /\ ~(Len(s) + j - 1 <= Len(s))
    BY <1>2, <1>4, <1>6
  <2>2. c[Len(s) + j - 1] = t[j - 1]
    BY <1>3, <2>1
  <2>3. t[j - 1] = u[(j - 1) + 1]
    BY <1>2, <2>1
  <2> QED BY <2>2, <2>3
<1>7. \A j \in 1..Len(s) : c[j] = s[j]
  BY <1>2, <1>3, <1>4
<1>8. IsSequenceOfCalls(c)
  BY <1>3, CallsOfSequence
<1>9. DOMAIN c = 1..Len(c) /\ DOMAIN s = 1..Len(s) /\ DOMAIN u = 1..Len(u)
  BY <1>1, <1>3, LenProperties
<1> QED BY <1>2, <1>3, <1>4, <1>5, <1>6, <1>7, <1>8, <1>9

\* Its calls are those of s and, but for the first, those of u.
LEMMA UnfoldedCalls ==
  ASSUME NEW s, NEW u, IsSequenceOfCalls(s), IsSequenceOfCalls(u), u # <<>>,
         NEW c, c = s \o Tail(u)
  PROVE  /\ ToSet(s) \subseteq ToSet(c) /\ ToSet(c) \subseteq ToSet(s) \cup ToSet(u)
         /\ \A i \in DOMAIN u : i # 1 => u[i] \in ToSet(c)
<1>1. /\ Len(c) = Len(s) + Len(u) - 1 /\ Len(u) >= 1
      /\ DOMAIN c = 1..Len(c) /\ DOMAIN s = 1..Len(s) /\ DOMAIN u = 1..Len(u)
      /\ \A j \in 1..Len(s) : c[j] = s[j]
      /\ \A j \in 2..Len(u) : c[Len(s) + j - 1] = u[j]
  BY Unfolding
<1>2. Len(s) \in Nat /\ Len(u) \in Nat
  BY DEF IsSequenceOfCalls
<1>3. ASSUME NEW j \in DOMAIN c, j \notin DOMAIN s
      PROVE  c[j] \in ToSet(u)
  <2>1. j - Len(s) + 1 \in 2..Len(u) /\ Len(s) + (j - Len(s) + 1) - 1 = j
    BY <1>1, <1>2, <1>3
  <2>2. c[j] = u[j - Len(s) + 1] /\ j - Len(s) + 1 \in DOMAIN u
    BY <1>1, <1>2, <2>1
  <2> QED BY <2>2 DEF ToSet
<1>4. ASSUME NEW i \in DOMAIN s
      PROVE  i \in DOMAIN c /\ c[i] = s[i]
  BY <1>1, <1>2
<1>5. ASSUME NEW i \in DOMAIN u, i # 1
      PROVE  u[i] \in ToSet(c)
  <2>1. i \in 2..Len(u) /\ Len(s) + i - 1 \in DOMAIN c
    BY <1>1, <1>2, <1>5
  <2>2. c[Len(s) + i - 1] = u[i]
    BY <1>1, <2>1
  <2> QED BY <2>1, <2>2 DEF ToSet
<1>6. ToSet(s) \subseteq ToSet(c)
  BY <1>4 DEF ToSet
<1>7. ToSet(c) \subseteq ToSet(s) \cup ToSet(u)
  BY <1>3, <1>4 DEF ToSet
<1> QED BY <1>5, <1>6, <1>7

-----------------------------------------------------------------------------
(* The settings that are wanted *)

LEMMA PaymentWanted ==
  ASSUME NEW r, NEW key \in PaymentSettings(r)
  PROVE  key[1] \in {"operator", "rewardToken"}
BY DEF PaymentSettings

\* They are settings of tracked contracts, of the kinds listed.
LEMMA WantedKinds ==
  ASSUME NEW n, NEW w \in Wanted(n)
  PROVE  Tracked(w[1]) /\ w[2][1] \in SettingKinds /\ w = <<w[1], w[2]>>
<1>1. CASE \E p \in ToSet(AllPools(n)) : \E a \in ToSet(p.assets) :
             w \in {Asset(p, a)} \X AssetSettings(a)
  <2>1. PICK p, a : w \in {Asset(p, a)} \X AssetSettings(a)
    BY <1>1
  <2>2. Tracked(Asset(p, a))
    BY DEF Tracked, Asset, AssetName
  <2>3. \A key \in AssetSettings(a) : key[1] \in SettingKinds
    BY DEF AssetSettings, SettingKinds
  <2> QED BY <2>1, <2>2, <2>3
<1>2. CASE \E r \in ToSet(Of(Rewarders, n)) : w \in {Rewarder(r.lp)} \X PaymentSettings(r)
  <2>1. PICK r : w \in {Rewarder(r.lp)} \X PaymentSettings(r)
    BY <1>2
  <2>2. Tracked(Rewarder(r.lp))
    BY DEF Tracked, Rewarder
  <2> QED BY <2>1, <2>2, PaymentWanted DEF SettingKinds
<1>3. CASE \E r \in ToSet(Of(Bribes, n)) : w \in {Bribe(r.lp)} \X PaymentSettings(r)
  <2>1. PICK r : w \in {Bribe(r.lp)} \X PaymentSettings(r)
    BY <1>3
  <2>2. Tracked(Bribe(r.lp))
    BY DEF Tracked, Bribe
  <2> QED BY <2>1, <2>2, PaymentWanted DEF SettingKinds
<1>4. CASE w \in FeedsWanted(n)
  BY <1>4 DEF FeedsWanted, Tracked, ChainlinkPriceFeed, SettingKinds
<1>5. w \in AssetsWanted(n) => \E p \in ToSet(AllPools(n)) : \E a \in ToSet(p.assets) :
                                 w \in {Asset(p, a)} \X AssetSettings(a)
  BY DEF AssetsWanted
<1>6. w \in RewardersWanted(n) => \E r \in ToSet(Of(Rewarders, n)) :
                                    w \in {Rewarder(r.lp)} \X PaymentSettings(r)
  BY DEF RewardersWanted
<1>7. w \in BribesWanted(n) => \E r \in ToSet(Of(Bribes, n)) :
                                 w \in {Bribe(r.lp)} \X PaymentSettings(r)
  BY DEF BribesWanted
<1> QED BY <1>1, <1>2, <1>3, <1>4, <1>5, <1>6, <1>7 DEF Wanted

-----------------------------------------------------------------------------
(* The inductive invariant *)

\* The setting w is made.
Made(w) == Value(w[1], w[2]) # None

\* A call and the calls it may unfold into are sound.
CallSound(n, call) ==
  SoundCall(n, call) /\ \A k \in DOMAIN Bodies(call) : Sound1(n, Bodies(call)[k])

\* A contract about to be handed over exists, and while it is the deployer's
\* each of its settings is made or a call before makes it.
Ready(seq) ==
  \A j \in DOMAIN seq : seq[j].op = "transfer" =>
    /\ seq[j].on.contract \in Contracts
    /\ owner[seq[j].on.contract] = Deployer =>
         \A w \in Wanted(network) : w[1] = seq[j].on.contract =>
           Made(w) \/ \E i \in 1..j - 1 : Provides(seq[i], w)
CallsInv ==
  /\ IsSequenceOfCalls(calls)
  /\ \A i \in DOMAIN calls : CallSound(network, calls[i])
  /\ Ready(calls)

\* Where the run is.
RunInv ==
  /\ step \in Nat
  /\ status = "running" => tag \in TagsOf[network]

\* The proxies are of other contracts, so that handing these over at the end
\* hands no tracked contract over.
RecordsInv ==
  /\ Contracts \subseteq deployed
  /\ \A c \in deployed : c[1] = "Proxy" => ~Tracked(c[2])

\* What a contract lacks is still the deployer's to set.
MadeInv ==
  /\ \A w \in Wanted(network) :
       Made(w) \/ w[1] \notin Contracts \/ owner[w[1]] = Deployer
  /\ \A p \in ToSet(AllPools(network)) : \A a \in ToSet(p.assets) :
       Value(Asset(p, a), <<"pool">>) \in {None, Pool(p)}

\* A peer that an adaptor is to know has its address.
HasPeer(w) == Value(w[1], <<"peer", w[2]>>) = AdaptorAddress(w[3])
\* The call tells the adaptor of this peer.
Tells(call, w) ==
  /\ call.op = "send"
  /\ call.on.contract = w[1] /\ call.on.key = <<"peer", w[2]>>
  /\ call.on.value = AdaptorAddress(w[3])
\* What is sent to adaptors about peers is right.
TellsRight(seq) ==
  \A j \in DOMAIN seq : seq[j].op = "send" /\ seq[j].on.key[1] = "peer" =>
    \E w \in PeersWanted(network) : Tells(seq[j], w)

\* A call of the plan that threw, or left an adaptor without a peer, is not over.
Settled(call, seq) ==
  /\ call.op = "throw" => \E j \in DOMAIN seq : seq[j] = call
  /\ \A w \in PeersWanted(network) : Connects(call, w) =>
       HasPeer(w) \/ \E j \in DOMAIN seq : Connects(seq[j], w) \/ Tells(seq[j], w)

\* Adaptors know peers that they are to know, and those that the run connected
\* so far have the addresses that are recorded now.
PeersInv ==
  /\ TellsRight(calls)
  /\ \A k \in DOMAIN setting : k[2][1] = "peer" =>
       \E w \in PeersWanted(network) : k = <<w[1], <<"peer", w[2]>>>>
  /\ status = "running" => \A i \in 1..step : Settled(Plan[<<network, tag>>][i], calls)
DInv == TypeOK /\ RunInv /\ RecordsInv /\ MadeInv /\ CallsInv /\ PeersInv

-----------------------------------------------------------------------------
(* Sound calls *)

LEMMA BodySound ==
  ASSUME NEW n, NEW seq, Sound1(n, seq)
  PROVE  \A i \in DOMAIN seq : CallSound(n, seq[i])
<1> SUFFICES ASSUME NEW i \in DOMAIN seq, NEW k \in DOMAIN Bodies(seq[i])
             PROVE  Sound1(n, Bodies(seq[i])[k])
  BY DEF Sound1, SoundOnes, CallSound
<1> DEFINE b == Bodies(seq[i])[k]
<1>1. Sound0(n, b)
  BY DEF Sound1
<1> HIDE DEF b
<1>2. \A m \in DOMAIN b : DOMAIN Bodies(b[m]) = {}
  BY <1>1, EmptySequence DEF Sound0
<1>3. Sound1(n, b)
  BY <1>1, <1>2 DEF Sound0, Sound1
<1> QED BY <1>3 DEF b

LEMMA TopSound ==
  ASSUME NEW n, NEW c, Sound2(n, <<c>>)
  PROVE  CallSound(n, c)
<1>1. 1 \in DOMAIN <<c>> /\ <<c>>[1] = c
  OBVIOUS
<1> QED BY <1>1 DEF Sound2, SoundOnes, CallSound

LEMMA OneCall ==
  ASSUME NEW c, NEW s, s = <<c>>
  PROVE  IsSequenceOfCalls(s) /\ DOMAIN s = {1} /\ s[1] = c
<1>1. s \in Seq({c}) /\ Len(s) = 1 /\ s[1] = c
  OBVIOUS
<1>2. IsSequenceOfCalls(s) /\ DOMAIN s = 1..1
  BY <1>1, CallsOfSequence, LenProperties
<1> QED BY <1>1, <1>2

LEMMA TwoCalls ==
  ASSUME NEW c, NEW d, NEW s, s = <<c, d>>
  PROVE  IsSequenceOfCalls(s) /\ DOMAIN s = {1, 2} /\ s[1] = c /\ s[2] = d
<1>1. s \in Seq({c, d}) /\ Len(s) = 2 /\ s[1] = c /\ s[2] = d
  OBVIOUS
<1>2. IsSequenceOfCalls(s) /\ DOMAIN s = 1..2
  BY <1>1, CallsOfSequence, LenProperties
<1> QED BY <1>1, <1>2

\* What scripts send to contracts that are not tracked.
LEMMA SoundSend ==
  ASSUME NEW n, NEW c, NEW key, NEW value, ~Tracked(c)
  PROVE  /\ CallSound(n, Send(c, key, value)) /\ Send(c, key, value).op = "send"
         /\ Send(c, key, value).on.key = key
<1> DEFINE call == Send(c, key, value)
<1>1. call.op = "send" /\ call.on.contract = c /\ call.on.key = key
  BY DEF Send, Do
<1> HIDE DEF call
<1>2. SoundCall(n, call) /\ Bodies(call) = <<>>
  BY <1>1 DEF SoundCall, Bodies
<1>3. CallSound(n, call)
  BY <1>2, EmptySequence DEF CallSound
<1> QED BY <1>1, <1>3 DEF call

LEMMA SoundTransfer ==
  ASSUME NEW n, NEW c
  PROVE  /\ CallSound(n, TransferOwnership(c, Multisig(n)))
         /\ TransferOwnership(c, Multisig(n)).op = "transfer"
         /\ TransferOwnership(c, Multisig(n)).on.contract = c
<1> DEFINE call == TransferOwnership(c, Multisig(n))
<1>1. call.op = "transfer" /\ call.on.contract = c /\ call.on.to = Multisig(n)
  BY DEF TransferOwnership, Do
<1> HIDE DEF call
<1>2. SoundCall(n, call) /\ Bodies(call) = <<>>
  BY <1>1 DEF SoundCall, Bodies
<1>3. CallSound(n, call)
  BY <1>2, EmptySequence DEF CallSound
<1> QED BY <1>1, <1>3 DEF call

\* Calls that are sound and hand nothing over.
Harmless(m) ==
  /\ IsSequenceOfCalls(m)
  /\ \A i \in DOMAIN m : CallSound(network, m[i]) /\ m[i].op # "transfer"
  /\ TellsNoPeer(m)

LEMMA HarmlessNothing ==
  ASSUME NEW m, m = <<>>
  PROVE  Harmless(m)
BY EmptySequence DEF Harmless, TellsNoPeer

LEMMA HarmlessSend ==
  ASSUME NEW c, NEW key, NEW value, ~Tracked(c), key[1] # "peer",
         NEW m, m = <<Send(c, key, value)>>
  PROVE  Harmless(m)
<1>1. IsSequenceOfCalls(m) /\ DOMAIN m = {1} /\ m[1] = Send(c, key, value)
  BY OneCall
<1>2. TellsNoPeer(m)
  BY <1>1, SoundSend DEF TellsNoPeer
<1> QED BY <1>1, <1>2, SoundSend DEF Harmless

\* They tell no adaptor of a wrong peer.
LEMMA TellsNothing ==
  ASSUME NEW m, TellsNoPeer(m)
  PROVE  TellsRight(m)
BY DEF TellsNoPeer, TellsRight

-----------------------------------------------------------------------------
(* The calls that are left after the first one *)

\* When the first call unfolds into m, what is left stays sound and ready,
\* provided that m is, that contracts stay, that none returns to the deployer,
\* that no setting is taken back, and that what the first call was to provide is
\* made or m provides it.
LEMMA CallsStep ==
  ASSUME CallsInv, calls # <<>>, NEW m, calls' = m \o Tail(calls), network' = network,
         IsSequenceOfCalls(m), \A i \in DOMAIN m : CallSound(network, m[i]), Ready(m)',
         \A c \in Contracts : c \in Contracts' /\ (owner'[c] = Deployer => owner[c] = Deployer),
         \A w \in Wanted(network) : Made(w) => Made(w)',
         \A w \in Wanted(network) :
           w[1] \in Contracts /\ owner'[w[1]] = Deployer /\ Provides(Head(calls), w) =>
             Made(w)' \/ \E i \in DOMAIN m : Provides(m[i], w)
  PROVE  CallsInv'
<1> PICK d : d = calls'
  OBVIOUS
<1> PICK u : u = calls
  OBVIOUS
<1>1. /\ IsSequenceOfCalls(d)
      /\ Len(d) = Len(m) + Len(u) - 1 /\ Len(u) >= 1 /\ Head(u) = u[1]
      /\ DOMAIN d = 1..Len(d) /\ DOMAIN m = 1..Len(m) /\ DOMAIN u = 1..Len(u)
      /\ \A j \in 1..Len(m) : d[j] = m[j]
      /\ \A j \in 2..Len(u) : d[Len(m) + j - 1] = u[j]
  <2>1. IsSequenceOfCalls(m) /\ IsSequenceOfCalls(u) /\ d = m \o Tail(u) /\ u # <<>>
    BY DEF CallsInv
  <2>2. IsSequenceOfCalls(d)
    BY ONLY <2>1, Unfolding
  <2>5. Len(d) = Len(m) + Len(u) - 1 /\ Len(u) >= 1
    BY ONLY <2>1, Unfolding
  <2>6. Head(u) = u[1]
    OBVIOUS
  <2>7. DOMAIN d = 1..Len(d) /\ DOMAIN m = 1..Len(m) /\ DOMAIN u = 1..Len(u)
    BY ONLY <2>1, <2>2, SequenceOfCalls
  <2>3. \A j \in 1..Len(m) : d[j] = m[j]
    BY ONLY <2>1, Unfolding
  <2>4. \A j \in 2..Len(u) : d[Len(m) + j - 1] = u[j]
    BY ONLY <2>1, Unfolding
  <2> QED BY <2>2, <2>3, <2>4, <2>5, <2>6, <2>7
<1>2. Len(m) \in Nat /\ Len(calls) \in Nat
  BY DEF IsSequenceOfCalls, CallsInv
<1>3. ASSUME NEW j \in DOMAIN d, ~(j \in 1..Len(m))
      PROVE  /\ j - Len(m) + 1 \in 2..Len(calls)
             /\ d[j] = calls[j - Len(m) + 1]
  <2>1. j - Len(m) + 1 \in 2..Len(calls) /\ Len(m) + (j - Len(m) + 1) - 1 = j
    BY <1>1, <1>2, <1>3
  <2> QED BY <1>1, <2>1
<1>4. ASSUME NEW j \in DOMAIN d PROVE CallSound(network, d[j])
  <2>1. CASE j \in 1..Len(m)
    BY <1>1, <2>1
  <2>2. CASE ~(j \in 1..Len(m))
    <3>1. j - Len(m) + 1 \in DOMAIN calls
      BY <1>1, <1>2, <1>3, <2>2
    <3> QED BY <1>3, <2>2, <3>1 DEF CallsInv
  <2> QED BY <2>1, <2>2
<1>5. ASSUME NEW j \in DOMAIN d, d[j].op = "transfer"
      PROVE  /\ d[j].on.contract \in Contracts'
             /\ owner'[d[j].on.contract] = Deployer =>
                  \A w \in Wanted(network) : w[1] = d[j].on.contract =>
                    Made(w)' \/ \E i \in 1..j - 1 : Provides(d[i], w)
  <2>1. CASE j \in 1..Len(m)
    <3>1. d[j] = m[j] /\ j \in DOMAIN m
      BY <1>1, <2>1
    <3>2. \A i \in 1..j - 1 : d[i] = m[i]
      BY <1>1, <1>2, <2>1
    <3> QED BY <1>5, <3>1, <3>2 DEF Ready
  <2>2. CASE ~(j \in 1..Len(m))
    <3> DEFINE k == j - Len(m) + 1
    <3>1. k \in DOMAIN calls /\ d[j] = calls[k] /\ j \in Nat /\ k \in Nat /\ k >= 2
      BY <1>1, <1>2, <1>3, <2>2
    <3>2. d[j].on.contract \in Contracts
      BY <1>5, <3>1 DEF CallsInv, Ready
    <3>3. ASSUME owner'[d[j].on.contract] = Deployer,
                 NEW w \in Wanted(network), w[1] = d[j].on.contract
          PROVE  Made(w)' \/ \E i \in 1..j - 1 : Provides(d[i], w)
      <4>1. owner[d[j].on.contract] = Deployer
        BY <3>2, <3>3
      <4>2. Made(w) \/ \E i \in 1..k - 1 : Provides(calls[i], w)
        BY <1>5, <3>1, <3>3, <4>1 DEF CallsInv, Ready
      <4>3. CASE Made(w)
        BY <3>3, <4>3
      <4>4. CASE \E i \in 2..k - 1 : Provides(calls[i], w)
        <5>1. PICK i \in 2..k - 1 : Provides(calls[i], w)
          BY <4>4
        <5>2. d[Len(m) + i - 1] = calls[i]
          BY <1>1, <3>1, <5>1
        <5>3. Len(m) + i - 1 \in 1..j - 1
          BY <1>2, <3>1, <5>1
        <5> QED BY <5>1, <5>2, <5>3
      <4>5. CASE Provides(calls[1], w)
        <5>1. Provides(Head(calls), w)
          BY <1>1, <4>5
        <5>2. Made(w)' \/ \E i \in DOMAIN m : Provides(m[i], w)
          BY <3>2, <3>3, <5>1
        <5>3. \A i \in DOMAIN m : d[i] = m[i] /\ i \in 1..j - 1
          BY <1>1, <1>2, <2>2
        <5> QED BY <5>2, <5>3
      <4>6. \A i \in 1..k - 1 : i = 1 \/ i \in 2..k - 1
        BY <3>1
      <4> QED BY <4>2, <4>3, <4>4, <4>5, <4>6
    <3>4. d[j].on.contract \in Contracts'
      BY <3>2
    <3> QED BY <3>3, <3>4
  <2> QED BY <2>1, <2>2
<1>6. Ready(d)'
  BY <1>5 DEF Ready
<1>7. Ready(calls)'
  BY <1>6 DEF Ready
<1> QED BY <1>1, <1>4, <1>7 DEF CallsInv

-----------------------------------------------------------------------------
(* The peers of the adaptors *)

\* When the first call unfolds into m, what is settled stays settled, provided
\* that the first call does not throw, that no peer is lost, and that the one it
\* was to tell of is there or m tells of it.
LEMMA PeersStep ==
  ASSUME PeersInv, CallsInv, status = "running", calls # <<>>,
         NEW m, calls' = m \o Tail(calls), network' = network, tag' = tag, step' = step,
         elsewhere' = elsewhere, IsSequenceOfCalls(m), TellsRight(m),
         Head(calls).op # "throw",
         \A w \in PeersWanted(network) : HasPeer(w) => HasPeer(w)',
         \A w \in PeersWanted(network) :
           Connects(Head(calls), w) \/ Tells(Head(calls), w) =>
             HasPeer(w)' \/ \E j \in DOMAIN m : Connects(m[j], w) \/ Tells(m[j], w),
         \A k \in DOMAIN setting' : k[2][1] = "peer" =>
           \/ k \in DOMAIN setting
           \/ \E w \in PeersWanted(network) : k = <<w[1], <<"peer", w[2]>>>>
  PROVE  PeersInv'
<1> PICK d, u : d = calls' /\ u = calls
  OBVIOUS
<1>1. /\ \A j \in DOMAIN d : (\E i \in DOMAIN m : d[j] = m[i]) \/ (\E i \in DOMAIN u : d[j] = u[i])
      /\ \A i \in DOMAIN m : \E j \in DOMAIN d : d[j] = m[i]
      /\ \A i \in DOMAIN u : i # 1 => \E j \in DOMAIN d : d[j] = u[i]
  <2>1. IsSequenceOfCalls(m) /\ IsSequenceOfCalls(u) /\ u # <<>> /\ d = m \o Tail(u)
    BY DEF CallsInv
  <2>2. ToSet(m) \subseteq ToSet(d) /\ ToSet(d) \subseteq ToSet(m) \cup ToSet(u)
    BY ONLY <2>1, UnfoldedCalls
  <2>3. \A i \in DOMAIN u : i # 1 => u[i] \in ToSet(d)
    BY ONLY <2>1, UnfoldedCalls
  <2> QED BY ONLY <2>2, <2>3 DEF ToSet
<1>2. Head(u) = u[1]
  OBVIOUS
<1>3. \A call, w : Tells(call, w)' = Tells(call, w)
  BY DEF Tells, AdaptorAddress
<1>4. TellsRight(d)'
  <2>1. TellsRight(u)
    BY DEF PeersInv
  <2>2. ASSUME NEW j \in DOMAIN d, d[j].op = "send" /\ d[j].on.key[1] = "peer"
        PROVE  \E w \in PeersWanted(network) : Tells(d[j], w)
    <3>1. CASE \E i \in DOMAIN m : d[j] = m[i]
      BY <2>2, <3>1 DEF TellsRight
    <3>2. CASE \E i \in DOMAIN u : d[j] = u[i]
      BY <2>1, <2>2, <3>2 DEF TellsRight
    <3> QED BY <1>1, <3>1, <3>2
  <2> QED BY <1>3, <2>2 DEF TellsRight
<1>5. ASSUME NEW call, Settled(call, u)
      PROVE  Settled(call, d)'
  <2>1. ASSUME call.op = "throw" PROVE \E j \in DOMAIN d : d[j] = call
    <3>1. PICK j \in DOMAIN u : u[j] = call
      BY <1>5, <2>1 DEF Settled
    <3>2. u[1].op # "throw"
      BY <1>2
    <3>3. j # 1
      BY <2>1, <3>1, <3>2
    <3>4. \E i \in DOMAIN d : d[i] = u[j]
      BY ONLY <1>1, <3>1, <3>3
    <3> QED BY <3>1, <3>4
  <2>2. ASSUME NEW w \in PeersWanted(network), Connects(call, w)
        PROVE  HasPeer(w)' \/ \E j \in DOMAIN d : Connects(d[j], w) \/ Tells(d[j], w)
    <3>1. HasPeer(w) \/ \E j \in DOMAIN u : Connects(u[j], w) \/ Tells(u[j], w)
      BY <1>5, <2>2 DEF Settled
    <3>2. CASE HasPeer(w)
      BY <3>2
    <3>3. CASE \E j \in DOMAIN u : j # 1 /\ (Connects(u[j], w) \/ Tells(u[j], w))
      <4>1. PICK j \in DOMAIN u : j # 1 /\ (Connects(u[j], w) \/ Tells(u[j], w))
        BY <3>3
      <4>2. PICK i \in DOMAIN d : d[i] = u[j]
        BY <1>1, <4>1
      <4> QED BY <4>1, <4>2
    <3>4. CASE Connects(u[1], w) \/ Tells(u[1], w)
      <4>1. HasPeer(w)' \/ \E j \in DOMAIN m : Connects(m[j], w) \/ Tells(m[j], w)
        BY <1>2, <3>4
      <4>2. CASE HasPeer(w)'
        BY <4>2
      <4>3. CASE \E j \in DOMAIN m : Connects(m[j], w) \/ Tells(m[j], w)
        <5>1. PICK j \in DOMAIN m : Connects(m[j], w) \/ Tells(m[j], w)
          BY <4>3
        <5>2. PICK i \in DOMAIN d : d[i] = m[j]
          BY <1>1
        <5> QED BY <5>1, <5>2
      <4> QED BY <4>1, <4>2, <4>3
    <3> QED BY <3>1, <3>2, <3>3, <3>4
  <2> QED BY <1>3, <2>1, <2>2 DEF Settled
<1>6. status' = "running" =>
        \A i \in 1..step' : Settled(Plan[<<network, tag>>][i], calls)'
  BY <1>5 DEF PeersInv
<1>7. \A k \in DOMAIN setting' : k[2][1] = "peer" =>
        \E w \in PeersWanted(network) : k = <<w[1], <<"peer", w[2]>>>>
  BY DEF PeersInv
<1> QED BY <1>4, <1>6, <1>7 DEF PeersInv

\* Neither the first call nor m is about peers, and no peer changes.
LEMMA OtherThanPeersStep ==
  ASSUME PeersInv, CallsInv, status = "running", calls # <<>>,
         NEW m, calls' = m \o Tail(calls), network' = network, tag' = tag, step' = step,
         elsewhere' = elsewhere, IsSequenceOfCalls(m), TellsNoPeer(m),
         Head(calls).op \notin {"throw", "connect"},
         Head(calls).op = "send" => Head(calls).on.key[1] # "peer",
         \A c, key : key[1] = "peer" => Value(c, key)' = Value(c, key),
         \A k \in DOMAIN setting' : k[2][1] = "peer" => k \in DOMAIN setting
  PROVE  PeersInv'
<1>1. ASSUME NEW w \in PeersWanted(network), HasPeer(w)
      PROVE  HasPeer(w)'
  <2>1. Value(w[1], <<"peer", w[2]>>)' = Value(w[1], <<"peer", w[2]>>)
    OBVIOUS
  <2>2. AdaptorAddress(w[3])' = AdaptorAddress(w[3])
    BY DEF AdaptorAddress
  <2> QED BY <1>1, <2>1, <2>2 DEF HasPeer
<1>2. \A w : ~Connects(Head(calls), w) /\ ~Tells(Head(calls), w)
  BY DEF Connects, Tells
<1>3. TellsRight(m)
  BY TellsNothing
<1>4. Head(calls).op # "throw"
  OBVIOUS
<1> QED BY <1>1, <1>2, <1>3, <1>4, PeersStep

\* No run is on its way, or it has not begun a call.
LEMMA PeersApart ==
  ASSUME PeersInv, network' = network, calls' = <<>>, status' = "running" => step' = 0,
         \A k \in DOMAIN setting' : k[2][1] = "peer" => k \in DOMAIN setting
  PROVE  PeersInv'
<1>1. DOMAIN calls' = {}
  BY EmptySequence
<1>2. TellsRight(calls)'
  BY <1>1 DEF TellsRight
<1>3. \A k \in DOMAIN setting' : k[2][1] = "peer" =>
        \E w \in PeersWanted(network) : k = <<w[1], <<"peer", w[2]>>>>
  BY DEF PeersInv
<1>4. status' = "running" => 1..step' = {}
  OBVIOUS
<1> QED BY <1>2, <1>3, <1>4 DEF PeersInv

-----------------------------------------------------------------------------
(* Steps that leave the chain alone *)

LEMMA SameChain ==
  ASSUME RecordsInv, MadeInv, UNCHANGED <<network, chain>>
  PROVE  /\ RecordsInv' /\ MadeInv' /\ Contracts' = Contracts /\ owner' = owner
         /\ \A w : Made(w)' = Made(w)
<1>1. deployed' = deployed /\ owner' = owner /\ setting' = setting /\ network' = network
  BY DEF chain
<1>2. Contracts' = Contracts
  BY <1>1 DEF Contracts
<1>3. \A c, key : Value(c, key)' = Value(c, key)
  BY <1>1 DEF Value
<1>4. \A w : Made(w)' = Made(w)
  BY <1>3 DEF Made
<1>5. RecordsInv'
  BY <1>1, <1>2 DEF RecordsInv
<1>6. MadeInv'
  BY <1>1, <1>2, <1>3, <1>4 DEF MadeInv
<1> QED BY <1>1, <1>2, <1>4, <1>5, <1>6

\* The first call unfolds into m.
LEMMA UnfoldStep ==
  ASSUME DInv, status = "running", calls # <<>>, NEW m, Unfold(m),
         IsSequenceOfCalls(m), \A i \in DOMAIN m : CallSound(network, m[i]), Ready(m),
         \A w \in Wanted(network) :
           DeployerOwns(w[1]) /\ Provides(Head(calls), w) =>
             Made(w) \/ \E i \in DOMAIN m : Provides(m[i], w),
         TellsRight(m), Head(calls).op # "throw",
         \A w \in PeersWanted(network) :
           Connects(Head(calls), w) \/ Tells(Head(calls), w) =>
             HasPeer(w) \/ \E j \in DOMAIN m : Connects(m[j], w) \/ Tells(m[j], w)
  PROVE  DInv'
<1>1. /\ calls' = m \o Tail(calls) /\ UNCHANGED <<network, chain>>
      /\ deployed' = deployed /\ owner' = owner /\ setting' = setting
      /\ tag' = tag /\ step' = step /\ status' = status /\ again' = again
      /\ clean' = clean /\ done' = done /\ runs' = runs
      /\ whole' = whole /\ lost' = lost /\ elsewhere' = elsewhere
  BY DEF Unfold, ContinueWith, chain, history
<1>2. /\ RecordsInv' /\ MadeInv' /\ Contracts' = Contracts
      /\ \A w : Made(w)' = Made(w)
  BY <1>1, SameChain DEF DInv
<1>3. Ready(m)'
  BY <1>1, <1>2 DEF Ready
<1>4. \A c \in Contracts : c \in Contracts' /\ (owner'[c] = Deployer => owner[c] = Deployer)
  BY <1>1, <1>2
<1>5. ASSUME NEW w \in Wanted(network),
             w[1] \in Contracts /\ owner'[w[1]] = Deployer /\ Provides(Head(calls), w)
      PROVE  Made(w)' \/ \E i \in DOMAIN m : Provides(m[i], w)
  BY <1>1, <1>2, <1>5 DEF DeployerOwns
<1>6. \A w \in Wanted(network) : Made(w) => Made(w)'
  BY <1>2
<1>7. CallsInv'
  BY <1>1, <1>3, <1>4, <1>5, <1>6, CallsStep DEF DInv
<1>8. TypeOK'
  BY <1>1, <1>2 DEF DInv, TypeOK
<1>9. RunInv'
  BY <1>1 DEF DInv, RunInv
<1>10. PeersInv'
  <2>1. \A w : HasPeer(w)' = HasPeer(w)
    BY <1>1 DEF HasPeer, Value, AdaptorAddress
  <2>2. network' = network
    BY <1>1
  <2> QED BY <1>1, <2>1, <2>2, PeersStep DEF DInv
<1> QED BY <1>2, <1>7, <1>8, <1>9, <1>10 DEF DInv

\* It unfolds into calls that hand nothing over, and was to make no setting.
LEMMA HarmlessStep ==
  ASSUME DInv, status = "running", calls # <<>>, NEW m, Unfold(m), Harmless(m),
         Call.op \notin {"send", "readPrice", "configureChainlink", "throw", "connect"}
  PROVE  DInv'
<1>1. \A w : ~Provides(Head(calls), w)
  BY DEF Provides, Call
<1>2. Ready(m)
  BY DEF Harmless, Ready
<1>3. TellsRight(m)
  BY TellsNothing DEF Harmless
<1>4. Head(calls).op # "throw" /\ \A w : ~Connects(Head(calls), w) /\ ~Tells(Head(calls), w)
  BY DEF Connects, Tells, Call
<1> QED BY <1>1, <1>2, <1>3, <1>4, UnfoldStep DEF Harmless

\* A run that fails leaves nothing to be done.
LEMMA NothingLeft ==
  ASSUME calls' = <<>>
  PROVE  CallsInv'
<1>1. IsSequenceOfCalls(calls')
  BY EmptySequence
<1>2. DOMAIN calls' = {}
  BY EmptySequence
<1>3. Ready(calls)'
  BY <1>2 DEF Ready
<1> QED BY <1>1, <1>2, <1>3 DEF CallsInv

LEMMA StoppedStep ==
  ASSUME DInv, Stopped, whole' \in BOOLEAN
  PROVE  DInv'
<1>1. /\ status' = "failed" /\ clean' = FALSE /\ again' = FALSE /\ calls' = <<>>
      /\ step' = 0 /\ UNCHANGED <<network, chain>> /\ deployed' = deployed
      /\ owner' = owner /\ setting' = setting /\ network' = network
      /\ tag' = tag /\ done' = done /\ runs' = runs /\ lost' = lost
      /\ elsewhere' = elsewhere
  BY DEF Stopped, chain
<1>2. RecordsInv' /\ MadeInv' /\ Contracts' = Contracts
  BY <1>1, SameChain DEF DInv
<1>3. CallsInv'
  BY <1>1, NothingLeft
<1>4. TypeOK'
  BY <1>1, <1>2 DEF DInv, TypeOK
<1>5. RunInv'
  BY <1>1 DEF RunInv
<1>6. PeersInv'
  BY <1>1, PeersApart DEF DInv
<1> QED BY <1>2, <1>3, <1>4, <1>5, <1>6 DEF DInv

LEMMA FailedStep ==
  ASSUME DInv, Failed
  PROVE  DInv'
<1>1. Stopped /\ whole' \in BOOLEAN
  BY DEF Failed, DInv, TypeOK
<1> QED BY <1>1, StoppedStep

LEMMA StartStep ==
  ASSUME DInv, NEW t \in TagsOf[network], Start(t)
  PROVE  DInv'
<1>1. /\ status # "running" /\ runs < MaxRuns[network] /\ status' = "running"
      /\ tag' = t /\ again' = (again /\ tag = t) /\ runs' = runs + 1
      /\ UNCHANGED <<network, chain>> /\ deployed' = deployed /\ owner' = owner
      /\ setting' = setting /\ network' = network /\ step' = step /\ calls' = calls
      /\ clean' = clean /\ done' = done /\ elsewhere' = elsewhere
      /\ whole' = whole /\ lost' = lost
  BY DEF Start, chain
<1>2. RecordsInv' /\ MadeInv' /\ Contracts' = Contracts
  BY <1>1, SameChain DEF DInv
<1>3. CallsInv'
  <2>1. calls' = <<>>
    BY <1>1 DEF DInv, TypeOK
  <2> QED BY <2>1, NothingLeft
<1>4. again' \in BOOLEAN
  BY <1>1 DEF DInv, TypeOK
<1>5. runs' \in 0..MaxRuns[network]
  <2>1. MaxRuns[network] \in Nat
    BY DeploymentAssumption DEF DInv, TypeOK
  <2>2. runs \in 0..MaxRuns[network]
    BY DEF DInv, TypeOK
  <2> QED BY <1>1, <2>1, <2>2
<1>6. TypeOK'
  BY <1>1, <1>2, <1>4, <1>5 DEF DInv, TypeOK
<1>7. RunInv'
  BY <1>1 DEF DInv, RunInv
<1>8. PeersInv'
  BY <1>1, PeersApart DEF DInv, TypeOK
<1> QED BY <1>2, <1>3, <1>6, <1>7, <1>8 DEF DInv

\* The calls of the scripts are sound, each by itself.
LEMMA PlanSound ==
  ASSUME NEW n \in DOMAIN TagsOf, NEW t \in TagsOf[n]
  PROVE  /\ IsSequenceOfCalls(Plan[<<n, t>>])
         /\ \A i \in DOMAIN Plan[<<n, t>>] :
              /\ CallSound(n, Plan[<<n, t>>][i]) /\ Plan[<<n, t>>][i].op # "transfer"
              /\ TellsNoPeer(<<Plan[<<n, t>>][i]>>)
<1> DEFINE c == CallsOf(n, t)
<1>1. n \in Networks /\ t \in Tags
  BY DeploymentAssumption
<1>2. /\ IsSequenceOfCalls(c) /\ HandsOverNothing(c)
      /\ \A i \in DOMAIN c : Sound2(n, <<c[i]>>)
  BY <1>1, ScriptsAreSound
<1>3. Plan[<<n, t>>] = c
  BY PlanAssumption
<1> HIDE DEF c
<1>4. \A i \in DOMAIN c : CallSound(n, c[i])
  BY <1>2, TopSound
<1>5. \A i \in DOMAIN c : c[i].op # "transfer"
  BY <1>2 DEF HandsOverNothing
<1>6. \A i \in DOMAIN c : TellsNoPeer(<<c[i]>>)
  BY <1>2 DEF Sound2, SoundOnes
<1> QED BY <1>2, <1>3, <1>4, <1>5, <1>6

LEMMA AdvanceStep ==
  ASSUME DInv, Advance
  PROVE  DInv'
<1> DEFINE plan == Plan[<<network, tag>>]
<1>0. step < Len(plan) /\ calls' = <<plan[step + 1]>>
  BY DEF Advance
<1>1. /\ status = "running" /\ step' = step + 1
      /\ UNCHANGED <<network, chain>> /\ deployed' = deployed /\ owner' = owner
      /\ setting' = setting /\ network' = network /\ tag' = tag /\ status' = status
      /\ again' = again /\ clean' = clean /\ done' = done /\ runs' = runs
      /\ whole' = whole /\ lost' = lost /\ elsewhere' = elsewhere
  BY DEF Advance, chain, history
<1>2. RecordsInv' /\ MadeInv' /\ Contracts' = Contracts
  BY <1>1, SameChain DEF DInv
<1>3. network \in DOMAIN TagsOf /\ tag \in TagsOf[network] /\ step \in Nat
  BY <1>1 DEF DInv, TypeOK, RunInv
<1>4. /\ IsSequenceOfCalls(plan)
      /\ \A i \in DOMAIN plan : /\ CallSound(network, plan[i]) /\ plan[i].op # "transfer"
                               /\ TellsNoPeer(<<plan[i]>>)
  BY <1>3, PlanSound
<1> HIDE DEF plan
<1>5. step + 1 \in DOMAIN plan
  <2>1. Len(plan) \in Nat /\ DOMAIN plan = 1..Len(plan)
    BY <1>4, SequenceOfCalls
  <2>2. step < Len(plan)
    BY <1>0
  <2> QED BY <1>3, <2>1, <2>2
<1>6. CallsInv'
  <2> PICK d : d = calls'
    OBVIOUS
  <2>1. d = <<plan[step + 1]>>
    BY <1>0
  <2>2. IsSequenceOfCalls(d) /\ DOMAIN d = {1} /\ d[1] = plan[step + 1]
    BY <2>1, OneCall
  <2>3. \A i \in DOMAIN d : CallSound(network, d[i]) /\ d[i].op # "transfer"
    BY <1>4, <1>5, <2>2
  <2>4. Ready(calls)'
    BY <2>3 DEF Ready
  <2> QED BY <1>1, <2>2, <2>3, <2>4 DEF CallsInv
<1>7. TypeOK'
  BY <1>1, <1>2 DEF DInv, TypeOK
<1>8. RunInv'
  BY <1>1 DEF DInv, RunInv
<1>9. PeersInv'
  <2> PICK d, p : d = calls' /\ p = plan
    OBVIOUS
  <2>1. DOMAIN d = {1} /\ d[1] = p[step + 1]
    BY <1>0, OneCall
  <2>2. TellsRight(d)'
    <3>1. TellsNoPeer(d)
      BY <1>0, <1>4, <1>5
    <3> QED BY <3>1 DEF TellsNoPeer, TellsRight
  <2>3. \A w : HasPeer(w)' = HasPeer(w)
    BY <1>1 DEF HasPeer, Value, AdaptorAddress
  <2>4. calls = <<>> /\ DOMAIN calls = {}
    BY EmptySequence DEF Advance
  <2>5. ASSUME NEW i \in 1..step PROVE Settled(p[i], d)'
    <3> PICK call : call = p[i]
      OBVIOUS
    <3>1. Settled(call, calls)
      BY <1>1, <2>5 DEF DInv, PeersInv, plan
    <3>2. call.op # "throw" /\ \A w \in PeersWanted(network) : Connects(call, w) => HasPeer(w)
      BY <2>4, <3>1 DEF Settled
    <3>3. network' = network /\ \A w \in PeersWanted(network) : Connects(call, w) => HasPeer(w)'
      BY <1>1, <2>3, <3>2
    <3>4. Settled(call, d)'
      BY <3>2, <3>3 DEF Settled
    <3> QED BY <3>4
  <2> PICK next : next = step + 1
    OBVIOUS
  <2>6. ASSUME NEW call, call = p[next] PROVE Settled(call, d)'
    <3>1. \E j \in DOMAIN d : d[j] = call
      BY <2>1, <2>6
    <3> QED BY <1>1, <3>1 DEF Settled
  <2>7. \A i \in 1..next : i \in 1..step \/ i = next
    BY <1>3
  <2>8. \A i \in 1..step' : Settled(Plan[<<network, tag>>][i], calls)'
    <3>1. step' = next /\ d = calls' /\ p = Plan[<<network, tag>>]
          /\ network' = network /\ tag' = tag
      BY <1>1 DEF plan
    <3>2. \A i \in 1..next : Settled(p[i], d)'
      BY <2>5, <2>6, <2>7
    <3> QED BY ONLY <3>1, <3>2
  <2> QED BY <1>1, <2>2, <2>8 DEF DInv, PeersInv
<1> QED BY <1>2, <1>6, <1>7, <1>8, <1>9 DEF DInv

LEMMA CompleteStep ==
  ASSUME DInv, Complete
  PROVE  DInv'
<1>1. /\ status = "running" /\ calls = <<>> /\ status' = "completed" /\ again' = TRUE
      /\ done' = done \cup {tag} /\ step' = 0
      /\ UNCHANGED <<network, chain>> /\ deployed' = deployed /\ owner' = owner
      /\ setting' = setting /\ network' = network /\ tag' = tag /\ calls' = calls
      /\ clean' = clean /\ runs' = runs
      /\ whole' = whole /\ lost' = lost /\ elsewhere' = elsewhere
  BY DEF Complete, chain
<1>2. RecordsInv' /\ MadeInv' /\ Contracts' = Contracts
  BY <1>1, SameChain DEF DInv
<1>3. CallsInv'
  BY <1>1, NothingLeft
<1>4. done' \subseteq TagsOf[network]
  BY <1>1 DEF DInv, TypeOK, RunInv
<1>5. TypeOK'
  BY <1>1, <1>2, <1>4 DEF DInv, TypeOK
<1>6. RunInv'
  BY <1>1 DEF RunInv
<1>7. PeersInv'
  BY <1>1, PeersApart DEF DInv
<1> QED BY <1>2, <1>3, <1>5, <1>6, <1>7 DEF DInv

-----------------------------------------------------------------------------
(* The first of the calls that are left *)

LEMMA HeadSound ==
  ASSUME DInv, calls # <<>>
  PROVE  /\ CallSound(network, Call) /\ SoundCall(network, Call)
         /\ 1 \in DOMAIN calls /\ Call = calls[1]
<1>1. IsSequenceOfCalls(calls) /\ \A i \in DOMAIN calls : CallSound(network, calls[i])
  BY DEF DInv, CallsInv
<1>2. PICK u : u = calls
  OBVIOUS
<1>3. u \in Seq(ToSet(u)) /\ Len(u) \in Nat /\ DOMAIN u = 1..Len(u) /\ u # <<>>
  BY <1>1, <1>2, SequenceOfCalls
<1>4. Len(u) # 0
  BY <1>3, EmptySeq
<1>5. 1 \in DOMAIN calls
  BY <1>2, <1>3, <1>4
<1>6. Call = calls[1]
  BY DEF Call
<1> QED BY <1>1, <1>5, <1>6 DEF CallSound

\* The calls of a script that a call unfolds into.
LEMMA BodyOfCall ==
  ASSUME NEW n, NEW call, CallSound(n, call)
  PROVE  /\ call.op = "deploy" => Sound1(n, call.on.then) /\ Sound1(n, call.on.otherwise)
         /\ call.op = "unlessRecorded" => Sound1(n, call.on.calls)
<1>1. CASE call.op = "deploy"
  <2>1. Bodies(call) = <<call.on.then, call.on.otherwise>>
    BY <1>1 DEF Bodies
  <2>2. 1 \in DOMAIN Bodies(call) /\ 2 \in DOMAIN Bodies(call)
    BY <2>1
  <2> QED BY <1>1, <2>1, <2>2 DEF CallSound
<1>2. CASE call.op = "unlessRecorded"
  <2>1. Bodies(call) = <<call.on.calls>>
    BY <1>2 DEF Bodies
  <2>2. 1 \in DOMAIN Bodies(call)
    BY <2>1
  <2> QED BY <1>2, <2>1, <2>2 DEF CallSound
<1> QED BY <1>1, <1>2

LEMMA BodyHarmless ==
  ASSUME NEW m, Sound1(network, m), HandsOverNothing(m)
  PROVE  Harmless(m)
<1>1. \A i \in DOMAIN m : CallSound(network, m[i])
  BY BodySound
<1> QED BY <1>1 DEF Harmless, HandsOverNothing, Sound1, SoundOnes, TellsNoPeer

-----------------------------------------------------------------------------
(* Steps that change the chain *)

LEMMA AssetTracked ==
  ASSUME NEW p, NEW a
  PROVE  Tracked(Asset(p, a)) /\ <<"pool">>[1] \in SettingKinds
BY DEF Tracked, Asset, AssetName, SettingKinds

\* New contracts are the deployer's, and no setting that is wanted is touched.
LEMMA OthersStep ==
  ASSUME MadeInv, network' = network, Contracts \subseteq Contracts',
         \A c \in Contracts : owner'[c] = owner[c],
         \A c \in Contracts' \ Contracts : owner'[c] = Deployer,
         \A c, key : Tracked(c) /\ key[1] \in SettingKinds => Value(c, key)' = Value(c, key)
  PROVE  MadeInv' /\ \A w \in Wanted(network) : Made(w)' = Made(w)
<1>1. \A w \in Wanted(network) : Made(w)' = Made(w)
  BY WantedKinds DEF Made
<1>2. ASSUME NEW w \in Wanted(network)
      PROVE  Made(w)' \/ w[1] \notin Contracts' \/ owner'[w[1]] = Deployer
  BY <1>1 DEF MadeInv
<1>3. ASSUME NEW p \in ToSet(AllPools(network)), NEW a \in ToSet(p.assets)
      PROVE  Value(Asset(p, a), <<"pool">>)' \in {None, Pool(p)}
  <2>1. Value(Asset(p, a), <<"pool">>)' = Value(Asset(p, a), <<"pool">>)
    BY AssetTracked
  <2> QED BY <2>1 DEF MadeInv
<1> QED BY <1>1, <1>2, <1>3 DEF MadeInv

LEMMA Overwritten ==
  ASSUME NEW f, NEW g
  PROVE  /\ DOMAIN Overwrite(f, g) = DOMAIN f \cup DOMAIN g
         /\ \A x \in DOMAIN f \ DOMAIN g : Overwrite(f, g)[x] = f[x]
BY DEF Overwrite

\* A contract that is deployed is the deployer's, and no other changes hands.
LEMMA Owned ==
  ASSUME NEW c, Own(c, Deployer)
  PROVE  /\ Contracts' = Contracts \cup {c} /\ owner'[c] = Deployer
         /\ \A x \in Contracts \ {c} : owner'[x] = owner[x]
<1> DEFINE g == [x \in {c} |-> Deployer]
<1>1. owner' = Overwrite(owner, g) /\ DOMAIN g = {c} /\ g[c] = Deployer
  BY DEF Own
<1> HIDE DEF g
<1>2. Contracts' = Contracts \cup {c}
  BY <1>1, Overwritten DEF Contracts
<1>3. owner'[c] = Deployer
  BY <1>1 DEF Overwrite
<1>4. ASSUME NEW x \in Contracts \ {c} PROVE owner'[x] = owner[x]
  <2>1. x \in DOMAIN owner \ DOMAIN g
    BY <1>1 DEF Contracts
  <2>2. Overwrite(owner, g)[x] = owner[x]
    BY <2>1, Overwritten
  <2> QED BY <1>1, <2>2
<1> QED BY <1>2, <1>3, <1>4

\* Settings of some contracts are made, and no others are touched.
LEMMA SettingsMade ==
  ASSUME NEW g, setting' = Overwrite(setting, g)
  PROVE  /\ DOMAIN setting' = DOMAIN setting \cup DOMAIN g
         /\ \A c, key : <<c, key>> \notin DOMAIN g => Value(c, key)' = Value(c, key)
         /\ \A c, key : <<c, key>> \in DOMAIN g => Value(c, key)' = g[<<c, key>>]
<1>1. DOMAIN setting' = DOMAIN setting \cup DOMAIN g
  BY Overwritten
<1>2. ASSUME NEW c, NEW key, <<c, key>> \notin DOMAIN g
      PROVE  Value(c, key)' = Value(c, key)
  <2> DEFINE k == <<c, key>>
  <2>1. k \notin DOMAIN g
    BY <1>2
  <2>2. Value(c, key) = IF k \in DOMAIN setting THEN setting[k] ELSE None
    BY DEF Value
  <2>3. Value(c, key)' = IF k \in DOMAIN setting' THEN setting'[k] ELSE None
    BY DEF Value
  <2> HIDE DEF k
  <2>4. k \in DOMAIN setting => setting'[k] = setting[k]
    <3>1. k \in DOMAIN setting => k \in DOMAIN setting \ DOMAIN g
      BY <2>1
    <3>2. k \in DOMAIN setting => Overwrite(setting, g)[k] = setting[k]
      BY <3>1, Overwritten
    <3> QED BY <3>2
  <2> QED BY <1>1, <2>1, <2>2, <2>3, <2>4
<1>3. ASSUME NEW c, NEW key, <<c, key>> \in DOMAIN g
      PROVE  Value(c, key)' = g[<<c, key>>]
  <2> DEFINE k == <<c, key>>
  <2>1. k \in DOMAIN g
    BY <1>3
  <2>2. Value(c, key)' = IF k \in DOMAIN setting' THEN setting'[k] ELSE None
    BY DEF Value
  <2> HIDE DEF k
  <2>3. Overwrite(setting, g)[k] = g[k]
    BY <2>1 DEF Overwrite
  <2>4. Value(c, key)' = g[k]
    BY <1>1, <2>1, <2>2, <2>3
  <2> QED BY <2>4 DEF k
<1> QED BY <1>1, <1>2, <1>3

LEMMA MadeSetting ==
  ASSUME NEW c, NEW key, NEW value, Make(c, key, value)
  PROVE  /\ DOMAIN setting' = DOMAIN setting \cup {<<c, key>>}
         /\ Value(c, key)' = value
<1> DEFINE g == [k \in {<<c, key>>} |-> value]
<1>1. setting' = Overwrite(setting, g) /\ DOMAIN g = {<<c, key>>} /\ g[<<c, key>>] = value
  BY DEF Make
<1> HIDE DEF g
<1>2. DOMAIN setting' = DOMAIN setting \cup {<<c, key>>}
  BY <1>1, SettingsMade
<1>3. Value(c, key)' = value
  BY <1>1, SettingsMade
<1> QED BY <1>2, <1>3

LEMMA OthersKept ==
  ASSUME NEW c, NEW key, NEW value, Make(c, key, value), NEW x, NEW k, ~(x = c /\ k = key)
  PROVE  Value(x, k)' = Value(x, k)
<1> DEFINE g == [y \in {<<c, key>>} |-> value]
<1>1. setting' = Overwrite(setting, g) /\ DOMAIN g = {<<c, key>>}
  BY DEF Make
<1> HIDE DEF g
<1>2. <<x, k>> \notin DOMAIN g
  BY <1>1
<1> QED BY <1>1, <1>2, SettingsMade

LEMMA SaveProxyStep ==
  ASSUME DInv, SaveProxy
  PROVE  DInv'
<1>1. /\ status = "running" /\ calls # <<>> /\ Call.op = "saveProxy"
      /\ deployed' = deployed \cup {ProxyRecord(on)} /\ owner' = owner
      /\ setting' = setting /\ calls' = <<>> \o Tail(calls) /\ network' = network
      /\ tag' = tag /\ step' = step /\ status' = status /\ again' = again
      /\ clean' = clean /\ done' = done /\ runs' = runs
      /\ whole' = whole /\ lost' = lost /\ elsewhere' = elsewhere
  BY DEF SaveProxy, Performs, ContinueWith, history
<1>2. ~Tracked(on)
  BY <1>1, HeadSound DEF SoundCall, on
<1>3. Contracts' = Contracts /\ \A c, key : Value(c, key)' = Value(c, key)
  BY <1>1 DEF Contracts, Value
<1>4. MadeInv' /\ \A w \in Wanted(network) : Made(w)' = Made(w)
  BY <1>1, <1>3, OthersStep DEF DInv
<1>5. RecordsInv'
  BY <1>1, <1>2, <1>3 DEF DInv, RecordsInv, ProxyRecord
<1>6. CallsInv'
  <2> PICK m : m = <<>>
    OBVIOUS
  <2>1. IsSequenceOfCalls(m) /\ DOMAIN m = {}
    BY EmptySequence
  <2>2. Ready(m)'
    BY <2>1 DEF Ready
  <2>3. \A w : ~Provides(Head(calls), w)
    BY <1>1 DEF Provides, Call
  <2>4. calls' = m \o Tail(calls)
    BY <1>1
  <2> QED BY <1>1, <1>3, <1>4, <2>1, <2>2, <2>3, <2>4, CallsStep DEF DInv
<1>7. TypeOK'
  BY <1>1, <1>3 DEF DInv, TypeOK, ProxyRecord
<1>8. RunInv'
  BY <1>1 DEF DInv, RunInv
<1>9. PeersInv'
  <2> PICK m : m = <<>>
    OBVIOUS
  <2>1. IsSequenceOfCalls(m) /\ TellsNoPeer(m)
    BY HarmlessNothing DEF Harmless
  <2>2. Head(calls).op = "saveProxy" /\ calls' = m \o Tail(calls)
    BY <1>1 DEF Call
  <2> QED BY <1>1, <1>3, <2>1, <2>2, OtherThanPeersStep DEF DInv
<1> QED BY <1>4, <1>5, <1>6, <1>7, <1>8, <1>9 DEF DInv

LEMMA SendStep ==
  ASSUME DInv, PerformSend
  PROVE  DInv'
<1> PICK c, key, value : c = on.contract /\ key = on.key /\ value = on.value
  OBVIOUS
<1>1. status = "running" /\ calls # <<>> /\ Call.op = "send"
  BY DEF PerformSend, Performs
<1>2. CASE Failed
  BY <1>2, FailedStep
<1>3. CASE ~Failed
  <2>1. /\ DeployerOwns(c) /\ Make(c, key, value) /\ deployed' = deployed /\ owner' = owner
        /\ calls' = <<>> \o Tail(calls) /\ network' = network
        /\ tag' = tag /\ step' = step /\ status' = status /\ again' = again
        /\ clean' = clean /\ done' = done /\ runs' = runs
        /\ whole' = whole /\ lost' = lost /\ elsewhere' = elsewhere
    BY <1>3 DEF PerformSend, ContinueWith, history
  <2>2. Tracked(c) => value # None /\ (key = <<"pool">> => OwnPool(network, c, value))
    BY <1>1, HeadSound DEF SoundCall, on
  <2>3. \A w : Provides(Head(calls), w) => c = w[1] /\ key = w[2] /\ value # None
    BY <1>1 DEF Provides, Call, on
  <2>4. /\ DOMAIN setting' = DOMAIN setting \cup {<<c, key>>}
        /\ Value(c, key)' = value
        /\ \A x, k : ~(x = c /\ k = key) => Value(x, k)' = Value(x, k)
    <3>1. Make(c, key, value)
      BY <2>1
    <3>2. DOMAIN setting' = DOMAIN setting \cup {<<c, key>>}
      BY <3>1, MadeSetting
    <3>3. Value(c, key)' = value
      BY <3>1, MadeSetting
    <3>4. ASSUME NEW x, NEW k, ~(x = c /\ k = key)
          PROVE  Value(x, k)' = Value(x, k)
      BY <3>1, <3>4, OthersKept
    <3> QED BY <3>2, <3>3, <3>4
  <2>5. Contracts' = Contracts /\ c \in Contracts
    BY <2>1 DEF Contracts, DeployerOwns
  <2>6. ASSUME NEW w \in Wanted(network), Made(w)
        PROVE  Made(w)'
    <3>1. CASE w[1] = c /\ w[2] = key
      BY <2>2, <2>4, <3>1, WantedKinds DEF Made
    <3>2. CASE ~(w[1] = c /\ w[2] = key)
      BY <2>4, <2>6, <3>2 DEF Made
    <3> QED BY <3>1, <3>2
  <2>7. ASSUME NEW w \in Wanted(network), Provides(Head(calls), w)
        PROVE  Made(w)'
    BY <2>3, <2>4, <2>7 DEF Made
  <2>8. MadeInv'
    <3>1. \A w \in Wanted(network) :
            Made(w)' \/ w[1] \notin Contracts' \/ owner'[w[1]] = Deployer
      BY <2>1, <2>5, <2>6 DEF DInv, MadeInv
    <3>2. ASSUME NEW p \in ToSet(AllPools(network)), NEW a \in ToSet(p.assets)
          PROVE  Value(Asset(p, a), <<"pool">>)' \in {None, Pool(p)}
      <4>1. CASE Asset(p, a) = c /\ <<"pool">> = key
        <5>1. value = Pool(p)
          BY <2>2, <4>1, AssetTracked DEF OwnPool
        <5> QED BY <2>4, <4>1, <5>1
      <4>2. CASE ~(Asset(p, a) = c /\ <<"pool">> = key)
        <5>1. Value(Asset(p, a), <<"pool">>)' = Value(Asset(p, a), <<"pool">>)
          BY <2>4, <4>2
        <5> QED BY <5>1 DEF DInv, MadeInv
      <4> QED BY <4>1, <4>2
    <3> QED BY <2>1, <3>1, <3>2 DEF MadeInv
  <2>9. RecordsInv'
    BY <2>1, <2>5 DEF DInv, RecordsInv
  <2>10. CallsInv'
    <3> PICK m : m = <<>>
      OBVIOUS
    <3>1. IsSequenceOfCalls(m) /\ DOMAIN m = {}
      BY EmptySequence
    <3>2. Ready(m)'
      BY <3>1 DEF Ready
    <3>3. calls' = m \o Tail(calls)
      BY <2>1
    <3> QED BY <1>1, <2>1, <2>5, <2>6, <2>7, <3>1, <3>2, <3>3, CallsStep DEF DInv
  <2>11. TypeOK'
    BY <2>1, <2>4, <2>5, <1>1 DEF DInv, TypeOK
  <2>12. RunInv'
    BY <2>1 DEF DInv, RunInv
  <2>13. PeersInv'
    <3> PICK m : m = <<>>
      OBVIOUS
    <3>1. IsSequenceOfCalls(m) /\ TellsNoPeer(m)
      BY HarmlessNothing DEF Harmless
    <3>2. /\ Head(calls).op = "send" /\ Head(calls).on.contract = c
          /\ Head(calls).on.key = key /\ Head(calls).on.value = value
          /\ calls' = m \o Tail(calls)
      BY <1>1, <2>1 DEF Call, on
    <3>3. CASE key[1] # "peer"
      <4>1. \A x, k : k[1] = "peer" => Value(x, k)' = Value(x, k)
        BY <2>4, <3>3
      <4>2. \A k \in DOMAIN setting' : k[2][1] = "peer" => k \in DOMAIN setting
        BY <2>4, <3>3
      <4> QED BY <1>1, <2>1, <3>1, <3>2, <3>3, <4>1, <4>2, OtherThanPeersStep DEF DInv
    <3>4. CASE key[1] = "peer"
      <4>1. PICK v \in PeersWanted(network) : Tells(Head(calls), v)
        <5>1. 1 \in DOMAIN calls /\ Head(calls) = calls[1]
          BY <1>1, HeadSound DEF Call
        <5> QED BY <3>2, <3>4, <5>1 DEF DInv, PeersInv, TellsRight
      <4>2. c = v[1] /\ key = <<"peer", v[2]>> /\ value = AdaptorAddress(v[3])
        BY <3>2, <4>1 DEF Tells
      <4>3. \A h : AdaptorAddress(h)' = AdaptorAddress(h)
        BY <2>1 DEF AdaptorAddress
      <4>4. ASSUME NEW w \in PeersWanted(network), w[1] = c, <<"peer", w[2]>> = key
            PROVE  HasPeer(w)'
        <5>1. w[3] = v[3]
          <6>1. w[2] = v[2]
            BY <4>2, <4>4
          <6>2. network \in Networks
            BY DeploymentAssumption DEF DInv, TypeOK
          <6> QED BY <4>2, <4>4, <6>1, <6>2, PeersAreDistinct
        <5> QED BY <2>4, <4>2, <4>3, <4>4, <5>1 DEF HasPeer
      <4>5. ASSUME NEW w \in PeersWanted(network), HasPeer(w)
            PROVE  HasPeer(w)'
        <5>1. CASE w[1] = c /\ <<"peer", w[2]>> = key
          BY <4>4, <5>1
        <5>2. CASE ~(w[1] = c /\ <<"peer", w[2]>> = key)
          <6>1. Value(w[1], <<"peer", w[2]>>)' = Value(w[1], <<"peer", w[2]>>)
            BY <2>4, <5>2
          <6> QED BY <4>3, <4>5, <6>1 DEF HasPeer
        <5> QED BY <5>1, <5>2
      <4>6. \A w : ~Connects(Head(calls), w)
        BY <3>2 DEF Connects
      <4>7. \A w : Tells(Head(calls), w) => w[1] = c /\ <<"peer", w[2]>> = key
        BY <3>2 DEF Tells
      <4>8. \A k \in DOMAIN setting' : k \in DOMAIN setting \/ (k = <<v[1], <<"peer", v[2]>>>>)
        BY <2>4, <4>2
      <4>9. TellsRight(m) /\ Head(calls).op # "throw"
        BY <3>1, <3>2, TellsNothing
      <4> QED BY <1>1, <2>1, <3>1, <3>2, <4>4, <4>5, <4>6, <4>7, <4>8, <4>9, PeersStep DEF DInv
    <3> QED BY <3>3, <3>4
  <2> QED BY <2>8, <2>9, <2>10, <2>11, <2>12, <2>13 DEF DInv
<1> QED BY <1>2, <1>3

\* The transaction may be mined or not: it is the adaptor of a pool.
LEMMA SendUnawaitedStep ==
  ASSUME DInv, PerformSendUnawaited
  PROVE  DInv'
<1> PICK c : c = on.contract
  OBVIOUS
<1>1. status = "running" /\ calls # <<>> /\ Call.op = "sendUnawaited"
  BY DEF PerformSendUnawaited, Performs
<1>2. CASE Failed
  BY <1>2, FailedStep
<1>3. CASE ~Failed
  <2>1. /\ DeployerOwns(c) /\ deployed' = deployed /\ owner' = owner
        /\ calls' = Tail(calls) /\ network' = network
        /\ tag' = tag /\ step' = step /\ status' = status /\ again' = again
        /\ clean' = clean /\ done' = done /\ runs' = runs
        /\ whole' = whole /\ elsewhere' = elsewhere
        /\ \/ Make(c, on.key, on.value) /\ lost' = lost
           \/ UNCHANGED setting /\ lost' = lost \cup {c}
    BY <1>3 DEF PerformSendUnawaited
  <2>2. /\ on.key = <<"adaptor">>
        /\ \E p \in ToSet(Of(CrossChainPools, network)) : c = Pool(p)
    BY <1>1, HeadSound DEF SoundCall, on
  <2>3. ~Tracked(c)
    BY <2>2 DEF Tracked, Pool
  <2>4. DOMAIN setting' \subseteq DOMAIN setting \cup {<<c, <<"adaptor">>>>}
    BY <2>1, <2>2, MadeSetting
  <2>5. ASSUME NEW x, NEW k, ~(x = c /\ k = <<"adaptor">>)
        PROVE  Value(x, k)' = Value(x, k)
    <3>1. CASE Make(c, on.key, on.value)
      BY <2>2, <2>5, <3>1, OthersKept
    <3>2. CASE UNCHANGED setting
      BY <3>2 DEF Value
    <3> QED BY <2>1, <3>1, <3>2
  <2>6. Contracts' = Contracts
    BY <2>1 DEF Contracts
  <2>7. MadeInv' /\ \A w \in Wanted(network) : Made(w)' = Made(w)
    BY <2>1, <2>3, <2>5, <2>6, OthersStep DEF DInv
  <2>8. RecordsInv'
    BY <2>1, <2>6 DEF DInv, RecordsInv
  <2> PICK m : m = <<>>
    OBVIOUS
  <2>9. IsSequenceOfCalls(m) /\ DOMAIN m = {} /\ TellsNoPeer(m)
    BY EmptySequence, HarmlessNothing DEF Harmless
  <2>10. calls' = m \o Tail(calls)
    <3>1. calls \in Seq(ToSet(calls))
      BY SequenceOfCalls DEF DInv, CallsInv
    <3>2. Tail(calls) \in Seq(ToSet(calls))
      BY <1>1, <3>1
    <3> QED BY <2>1, <3>2
  <2>11. CallsInv'
    <3>1. Ready(m)'
      BY <2>9 DEF Ready
    <3>2. \A w : ~Provides(Head(calls), w)
      BY <1>1 DEF Provides, Call
    <3> QED BY <1>1, <2>1, <2>6, <2>7, <2>9, <2>10, <3>1, <3>2, CallsStep DEF DInv
  <2>12. TypeOK'
    <3>1. \A x \in lost' : \E p \in ToSet(Of(CrossChainPools, network)) : x = Pool(p)
      BY <2>1, <2>2 DEF DInv, TypeOK
    <3>2. \A k \in DOMAIN setting' : k[1] \in Contracts
      <4>1. c \in Contracts
        BY <2>1 DEF Contracts, DeployerOwns
      <4> QED BY <2>4, <4>1 DEF DInv, TypeOK
    <3> QED BY <1>1, <2>1, <2>4, <2>6, <3>1, <3>2 DEF DInv, TypeOK
  <2>13. RunInv'
    BY <2>1 DEF DInv, RunInv
  <2>14. PeersInv'
    <3>1. Head(calls).op = "sendUnawaited"
      BY <1>1 DEF Call
    <3>2. \A x, k : k[1] = "peer" => Value(x, k)' = Value(x, k)
      BY <2>5
    <3>3. \A k \in DOMAIN setting' : k[2][1] = "peer" => k \in DOMAIN setting
      BY <2>4
    <3> QED BY <1>1, <2>1, <2>9, <2>10, <3>1, <3>2, <3>3, OtherThanPeersStep DEF DInv
  <2> QED BY <2>7, <2>8, <2>11, <2>12, <2>13, <2>14 DEF DInv
<1> QED BY <1>2, <1>3

LEMMA Accounts ==
  ASSUME NEW n
  PROVE  Multisig(n) \in {Missing, Deployer, Safe}
BY DEF Multisig

LEMMA ResolvedAccounts ==
  ASSUME NEW v, v \in {Multisig(network), ProxyAdminOwner}, Resolved(v) # Missing
  PROVE  Resolved(v) \in {Deployer, Safe}
<1>1. CASE v = ProxyAdminOwner
  <2>1. Resolved(v) = IF network \notin ZkSyncNetworks THEN Multisig(network)
                      ELSE IF \E c \in deployed : c[1] = "Proxy" THEN Deployer ELSE Missing
    BY <1>1 DEF Resolved, ProxyAdminOwner, LatestMasterWombat, RecordedVoter
  <2> QED BY <2>1, Accounts
<1>2. CASE v = Multisig(network)
  <2>1. v \in {Missing, Deployer, Safe}
    BY <1>2, Accounts
  <2>2. v # ProxyAdminOwner /\ v # LatestMasterWombat /\ v # RecordedVoter
    <3>1. v[1] \in {"no such named account", "deployer", "Gnosis Safe"}
      <4>1. Missing[1] = "no such named account" /\ Deployer[1] = "deployer"
            /\ Safe[1] = "Gnosis Safe"
        BY DEF Missing, Deployer, Safe
      <4> QED BY <2>1, <4>1
    <3>2. /\ ProxyAdminOwner[1] = "owner of the ProxyAdmin"
          /\ LatestMasterWombat[1] = "latest master wombat"
          /\ RecordedVoter[1] = "recorded voter"
      BY DEF ProxyAdminOwner, LatestMasterWombat, RecordedVoter
    <3> QED BY <3>1, <3>2
  <2>3. Resolved(v) = v
    BY <2>2 DEF Resolved
  <2> QED BY <2>1, <2>3
<1> QED BY <1>1, <1>2

\* A contract leaves the deployer with every setting made.
LEMMA TransferStep ==
  ASSUME DInv, PerformTransfer
  PROVE  DInv'
<1> PICK c, to : c = on.contract /\ to = Resolved(on.to)
  OBVIOUS
<1>1. status = "running" /\ calls # <<>> /\ Call.op = "transfer"
  BY DEF PerformTransfer, Performs
<1>2. CASE Failed
  BY <1>2, FailedStep
<1>3. CASE ~Failed
  <2>1. /\ DeployerOwns(c) /\ to # Missing /\ owner' = [owner EXCEPT ![c] = to]
        /\ deployed' = deployed /\ setting' = setting
        /\ calls' = <<>> \o Tail(calls) /\ network' = network
        /\ tag' = tag /\ step' = step /\ status' = status /\ again' = again
        /\ clean' = clean /\ done' = done /\ runs' = runs
        /\ whole' = whole /\ lost' = lost /\ elsewhere' = elsewhere
    BY <1>3 DEF PerformTransfer, ContinueWith, history
  <2>2. on.to \in {Multisig(network), ProxyAdminOwner}
    BY <1>1, HeadSound DEF SoundCall, on
  <2>3. to \in {Deployer, Safe}
    BY <2>1, <2>2, ResolvedAccounts
  <2>4. c \in Contracts /\ owner[c] = Deployer
    BY <2>1 DEF DeployerOwns
  <2>5. /\ Contracts' = Contracts /\ owner'[c] = to
        /\ \A x \in Contracts : x # c => owner'[x] = owner[x]
        /\ \A w : Made(w)' = Made(w)
    BY <2>1, <2>4 DEF Contracts, Made, Value
  <2>6. ASSUME NEW w \in Wanted(network), w[1] = c
        PROVE  Made(w)
    <3>1. 1 \in DOMAIN calls /\ calls[1].op = "transfer" /\ calls[1].on.contract = c
      BY <1>1, HeadSound DEF on
    <3>2. Made(w) \/ \E i \in 1..1 - 1 : Provides(calls[i], w)
      BY <2>4, <2>6, <3>1 DEF DInv, CallsInv, Ready
    <3>3. 1..1 - 1 = {}
      OBVIOUS
    <3> QED BY <3>2, <3>3
  <2>7. MadeInv'
    <3>1. ASSUME NEW w \in Wanted(network)
          PROVE  Made(w)' \/ w[1] \notin Contracts' \/ owner'[w[1]] = Deployer
      <4>1. CASE w[1] = c
        BY <2>5, <2>6, <4>1
      <4>2. CASE w[1] # c
        BY <2>5, <4>2 DEF DInv, MadeInv
      <4> QED BY <4>1, <4>2
    <3>2. \A x, key : Value(x, key)' = Value(x, key)
      BY <2>1 DEF Value
    <3> QED BY <2>1, <3>1, <3>2 DEF DInv, MadeInv
  <2>8. RecordsInv'
    BY <2>1, <2>5 DEF DInv, RecordsInv
  <2>9. CallsInv'
    <3> PICK m : m = <<>>
      OBVIOUS
    <3>1. IsSequenceOfCalls(m) /\ DOMAIN m = {}
      BY EmptySequence
    <3>2. Ready(m)'
      BY <3>1 DEF Ready
    <3>3. \A w : ~Provides(Head(calls), w)
      BY <1>1 DEF Provides, Call
    <3>4. calls' = m \o Tail(calls)
      BY <2>1
    <3>5. \A x \in Contracts : x \in Contracts' /\ (owner'[x] = Deployer => owner[x] = Deployer)
      BY <2>4, <2>5
    <3>6. \A w \in Wanted(network) : Made(w) => Made(w)'
      BY <2>5
    <3> QED BY <1>1, <2>1, <3>1, <3>2, <3>3, <3>4, <3>5, <3>6, CallsStep DEF DInv
  <2>10. TypeOK'
    BY <1>1, <2>1, <2>3, <2>5 DEF DInv, TypeOK
  <2>11. RunInv'
    BY <2>1 DEF DInv, RunInv
  <2>12. PeersInv'
    <3> PICK m : m = <<>>
      OBVIOUS
    <3>1. IsSequenceOfCalls(m) /\ TellsNoPeer(m)
      BY HarmlessNothing DEF Harmless
    <3>2. Head(calls).op = "transfer" /\ calls' = m \o Tail(calls)
      BY <1>1, <2>1 DEF Call
    <3>3. \A x, key : Value(x, key)' = Value(x, key)
      BY <2>1 DEF Value
    <3> QED BY <1>1, <2>1, <3>1, <3>2, <3>3, OtherThanPeersStep DEF DInv
  <2> QED BY <2>7, <2>8, <2>9, <2>10, <2>11, <2>12 DEF DInv
<1> QED BY <1>2, <1>3

LEMMA ApproveSpendingStep ==
  ASSUME DInv, ApproveSpending
  PROVE  DInv'
<1>1. status = "running" /\ calls # <<>> /\ Call.op = "approveSpending"
  BY DEF ApproveSpending, Performs
<1>2. PICK m : m = <<>>
  OBVIOUS
<1>3. Harmless(m)
  BY <1>2, HarmlessNothing
<1>4. CASE Failed
  BY <1>4, FailedStep
<1>5. CASE Unfold(m)
  BY <1>1, <1>3, <1>5, HarmlessStep
<1>6. CASE ~Failed /\ ~Unfold(m)
  <2> PICK g : g = [k \in {<<WombatRouter, <<"spends", on.pool, s>>>> : s \in on.spends}
                      |-> Configured]
    OBVIOUS
  <2>1. /\ DeployerOwns(WombatRouter) /\ setting' = Overwrite(setting, g)
        /\ deployed' = deployed /\ owner' = owner
        /\ calls' = m \o Tail(calls) /\ network' = network
        /\ tag' = tag /\ step' = step /\ status' = status /\ again' = again
        /\ clean' = clean /\ done' = done /\ runs' = runs
        /\ whole' = whole /\ lost' = lost /\ elsewhere' = elsewhere
    BY <1>2, <1>6 DEF ApproveSpending, ContinueWith, history
  <2>2. \A k \in DOMAIN g : k[1] = WombatRouter
    OBVIOUS
  <2>3. Contracts' = Contracts /\ WombatRouter \in Contracts
    BY <2>1 DEF Contracts, DeployerOwns
  <2>4. ~Tracked(WombatRouter)
    BY DEF Tracked, WombatRouter
  <2>5. ASSUME NEW c, NEW key, Tracked(c) /\ key[1] \in SettingKinds
        PROVE  Value(c, key)' = Value(c, key)
    <3>1. <<c, key>> \notin DOMAIN g
      BY <2>2, <2>4, <2>5
    <3> QED BY <2>1, <3>1, SettingsMade
  <2>6. MadeInv' /\ \A w \in Wanted(network) : Made(w)' = Made(w)
    BY <2>1, <2>3, <2>5, OthersStep DEF DInv
  <2>7. RecordsInv'
    BY <2>1, <2>3 DEF DInv, RecordsInv
  <2>8. CallsInv'
    <3>1. Ready(m)'
      BY <1>3 DEF Harmless, Ready
    <3>2. \A w : ~Provides(Head(calls), w)
      BY <1>1 DEF Provides, Call
    <3> QED BY <1>1, <1>3, <2>1, <2>3, <2>6, <3>1, <3>2, CallsStep DEF DInv, Harmless
  <2>9. \A k \in DOMAIN setting' : k[1] \in Contracts'
    <3>1. DOMAIN setting' = DOMAIN setting \cup DOMAIN g
      BY <2>1, SettingsMade
    <3> QED BY <2>2, <2>3, <3>1 DEF DInv, TypeOK
  <2>10. TypeOK'
    BY <1>1, <2>1, <2>3, <2>9 DEF DInv, TypeOK
  <2>11. RunInv'
    BY <2>1 DEF DInv, RunInv
  <2>12. PeersInv'
    <3>1. IsSequenceOfCalls(m) /\ TellsNoPeer(m)
      BY <1>3 DEF Harmless
    <3>2. Head(calls).op = "approveSpending"
      BY <1>1 DEF Call
    <3>3. \A k \in DOMAIN g : k[2][1] = "spends"
      OBVIOUS
    <3>4. ASSUME NEW c, NEW key, key[1] = "peer"
          PROVE  Value(c, key)' = Value(c, key)
      <4>1. <<c, key>> \notin DOMAIN g
        BY <3>3, <3>4
      <4> QED BY <2>1, <4>1, SettingsMade
    <3>5. DOMAIN setting' = DOMAIN setting \cup DOMAIN g
      BY <2>1, SettingsMade
    <3>6. \A k \in DOMAIN setting' : k[2][1] = "peer" => k \in DOMAIN setting
      BY <3>3, <3>5
    <3> QED BY <1>1, <2>1, <3>1, <3>2, <3>4, <3>6, OtherThanPeersStep DEF DInv
  <2> QED BY <2>6, <2>7, <2>8, <2>10, <2>11, <2>12 DEF DInv
<1> QED BY <1>4, <1>5, <1>6

\* A call before the calls of a script.
LEMMA Prefixed ==
  ASSUME NEW x, NEW p, p = <<x>>, NEW s, IsSequenceOfCalls(s), NEW m, m = p \o s
  PROVE  /\ IsSequenceOfCalls(m) /\ DOMAIN m = 1..Len(s) + 1 /\ Len(s) \in Nat
         /\ DOMAIN s = 1..Len(s) /\ m[1] = x /\ \A i \in DOMAIN s : m[i + 1] = s[i]
<1> DEFINE S == {x} \cup ToSet(s)
<1>1. s \in Seq(S) /\ Len(s) \in Nat /\ DOMAIN s = 1..Len(s)
  BY SequenceOfCalls, SeqMonotonic
<1>2. p \in Seq(S) /\ Len(p) = 1 /\ p[1] = x
  OBVIOUS
<1> HIDE DEF S
<1>3. /\ m \in Seq(S) /\ Len(m) = 1 + Len(s)
      /\ \A i \in 1..1 + Len(s) : m[i] = IF i <= 1 THEN p[i] ELSE s[i - 1]
  BY <1>1, <1>2, ConcatProperties
<1>4. DOMAIN m = 1..Len(s) + 1 /\ IsSequenceOfCalls(m)
  <2>1. IsSequenceOfCalls(m)
    BY <1>3, CallsOfSequence
  <2>2. DOMAIN m = 1..Len(m)
    BY <1>3, LenProperties
  <2>3. Len(m) = Len(s) + 1
    BY <1>1, <1>3
  <2> QED BY <2>1, <2>2, <2>3
<1>5. m[1] = x
  BY <1>1, <1>2, <1>3
<1>6. ASSUME NEW i \in DOMAIN s PROVE m[i + 1] = s[i]
  <2>1. i + 1 \in 1..1 + Len(s) /\ ~(i + 1 <= 1) /\ (i + 1) - 1 = i
    BY <1>1
  <2> QED BY <1>3, <2>1
<1> QED BY <1>1, <1>4, <1>5, <1>6

\* The calls of a new deployment: those of the script, after the record of the
\* proxy where that is saved apart.
LEMMA ReadyAfterDeploy ==
  ASSUME NEW n, NEW c, NEW s, Sound1(n, s), HandsOverOnly(c, s), NEW first, NEW m,
         m = first \o s,
         \/ first = <<>>
         \/ ~Tracked(c) /\ first = <<Do("saveProxy", c)>>
  PROVE  /\ IsSequenceOfCalls(m) /\ \A i \in DOMAIN m : CallSound(n, m[i])
         /\ HandsOverOnly(c, m) /\ HandsOverLast(n, m) /\ TellsNoPeer(m)
<1>1. /\ IsSequenceOfCalls(s) /\ HandsOverLast(n, s) /\ TellsNoPeer(s)
      /\ \A i \in DOMAIN s : CallSound(n, s[i])
  BY BodySound DEF Sound1, SoundOnes
<1>2. CASE first = <<>>
  <2>1. m = s
    <3>1. s \in Seq(ToSet(s))
      BY <1>1, SequenceOfCalls
    <3> QED BY <1>2, <3>1, ConcatEmptySeq
  <2> QED BY <1>1, <2>1
<1>3. CASE ~Tracked(c) /\ first = <<Do("saveProxy", c)>>
  <2> PICK x : x = Do("saveProxy", c)
    OBVIOUS
  <2>1. /\ IsSequenceOfCalls(m) /\ DOMAIN m = 1..Len(s) + 1 /\ Len(s) \in Nat
        /\ DOMAIN s = 1..Len(s) /\ m[1] = x /\ \A i \in DOMAIN s : m[i + 1] = s[i]
    <3>1. IsSequenceOfCalls(s) /\ first = <<x>> /\ m = first \o s
      BY <1>1, <1>3
    <3>2. IsSequenceOfCalls(m)
      BY ONLY <3>1, Prefixed
    <3>3. DOMAIN m = 1..Len(s) + 1
      BY <3>1, Prefixed
    <3>4. Len(s) \in Nat /\ DOMAIN s = 1..Len(s)
      BY <3>1, SequenceOfCalls
    <3>5. m[1] = x
      BY <3>1, Prefixed
    <3>6. \A i \in DOMAIN s : m[i + 1] = s[i]
      BY <3>1, Prefixed
    <3> QED BY <3>2, <3>3, <3>4, <3>5, <3>6
  <2>2. x.op = "saveProxy" /\ x.on = c
    BY DEF Do
  <2>3. CallSound(n, x)
    <3>1. SoundCall(n, x) /\ Bodies(x) = <<>>
      BY <1>3, <2>2 DEF SoundCall, Bodies
    <3> QED BY <3>1, EmptySequence DEF CallSound
  <2>4. ASSUME NEW j \in DOMAIN m, j # 1
        PROVE  j - 1 \in DOMAIN s /\ m[j] = s[j - 1]
    <3>1. j - 1 \in DOMAIN s /\ (j - 1) + 1 = j
      BY <2>1, <2>4
    <3> QED BY <2>1, <3>1
  <2>5. ASSUME NEW j \in DOMAIN m PROVE CallSound(n, m[j])
    BY <1>1, <2>1, <2>3, <2>4
  <2>6. ASSUME NEW j \in DOMAIN m, m[j].op = "transfer" PROVE m[j].on.contract = c
    BY <2>1, <2>2, <2>4, <2>6 DEF HandsOverOnly
  <2>7. ASSUME NEW j \in DOMAIN m, m[j].op = "transfer",
               NEW w \in Wanted(n), w[1] = m[j].on.contract
        PROVE  \E i \in 1..j - 1 : Provides(m[i], w)
    <3>1. j # 1
      BY <2>1, <2>2, <2>7
    <3>2. j - 1 \in DOMAIN s /\ m[j] = s[j - 1]
      BY <2>4, <3>1
    <3>3. PICK i \in 1..(j - 1) - 1 : Provides(s[i], w)
      BY <1>1, <2>7, <3>2 DEF HandsOverLast
    <3>4. i \in DOMAIN s /\ i + 1 \in 1..j - 1
      <4>1. j \in Nat /\ i \in Nat /\ i >= 1 /\ i <= (j - 1) - 1 /\ j - 1 <= Len(s)
        BY <2>1, <3>2, <3>3
      <4> QED BY <2>1, <4>1
    <3>5. m[i + 1] = s[i]
      BY <2>1, <3>4
    <3> QED BY <3>3, <3>4, <3>5
  <2>8. TellsNoPeer(m)
    BY <1>1, <2>1, <2>2, <2>4 DEF TellsNoPeer
  <2> QED BY <2>1, <2>5, <2>6, <2>7, <2>8 DEF HandsOverOnly, HandsOverLast
<1> QED BY <1>2, <1>3

LEMMA DeployStep ==
  ASSUME DInv, PerformDeploy
  PROVE  DInv'
<1> PICK c, s : c = on.contract /\ s = on.then
  OBVIOUS
<1>1. status = "running" /\ calls # <<>> /\ Call.op = "deploy"
  BY DEF PerformDeploy, Performs
<1>2. /\ on.contract[1] # "Proxy" /\ (on.proxied => ~Tracked(c))
      /\ \A x \in on.init : x[1][1] \notin SettingKinds \cup {"peer"}
      /\ HandsOverOnly(c, s) /\ HandsOverNothing(on.otherwise)
  BY <1>1, HeadSound DEF SoundCall, on
<1>3. Sound1(network, s) /\ Sound1(network, on.otherwise)
  BY <1>1, HeadSound, BodyOfCall DEF on
<1>4. CASE Recorded(c)
  <2> PICK m : m = on.otherwise
    OBVIOUS
  <2>1. Unfold(m)
    BY <1>4 DEF PerformDeploy
  <2>2. Harmless(m)
    BY <1>2, <1>3, BodyHarmless
  <2> QED BY <1>1, <2>1, <2>2, HarmlessStep
<1>5. CASE ~Recorded(c)
  <2> PICK first : first = When(on.proxied /\ network \in ZkSyncNetworks, <<Do("saveProxy", c)>>)
    OBVIOUS
  <2> PICK m : m = first \o s
    OBVIOUS
  <2> PICK g : g = [k \in {<<c, x[1]>> : x \in on.init} |->
                      Resolved((CHOOSE x \in on.init : x[1] = k[2])[2])]
    OBVIOUS
  <2>1. /\ Own(c, Deployer) /\ setting' = Overwrite(setting, g)
        /\ deployed' = deployed \cup {c} \cup
             IF on.proxied /\ ~(network \in ZkSyncNetworks) THEN {ProxyRecord(c)} ELSE {}
        /\ calls' = m \o Tail(calls) /\ network' = network
        /\ tag' = tag /\ step' = step /\ status' = status /\ again' = again
        /\ clean' = clean /\ done' = done /\ runs' = runs
        /\ whole' = whole /\ lost' = lost /\ elsewhere' = elsewhere
    BY <1>5 DEF PerformDeploy, ContinueWith, history
  <2>2. c \notin Contracts
    BY <1>5 DEF DInv, RecordsInv, Recorded
  <2>3. /\ Contracts' = Contracts \cup {c} /\ owner'[c] = Deployer
        /\ \A x \in Contracts \ {c} : owner'[x] = owner[x]
    BY <2>1, Owned
  <2>4. \A k \in DOMAIN g : k[1] = c /\ k[2][1] \notin SettingKinds \cup {"peer"}
    BY <1>2
  <2>5. ASSUME NEW x, NEW key, Tracked(x) /\ key[1] \in SettingKinds
        PROVE  Value(x, key)' = Value(x, key)
    <3>1. <<x, key>> \notin DOMAIN g
      BY <2>4, <2>5
    <3> QED BY <2>1, <3>1, SettingsMade
  <2>6. MadeInv' /\ \A w \in Wanted(network) : Made(w)' = Made(w)
    <3>1. \A x \in Contracts : owner'[x] = owner[x]
      BY <2>2, <2>3
    <3>2. \A x \in Contracts' \ Contracts : owner'[x] = Deployer
      BY <2>3
    <3> QED BY <2>1, <2>3, <2>5, <3>1, <3>2, OthersStep DEF DInv
  <2>7. RecordsInv'
    <3>1. \A x \in deployed' : x \in deployed \/ x = c \/ (x = ProxyRecord(c) /\ on.proxied)
      BY <2>1
    <3>2. ASSUME NEW x \in deployed', x[1] = "Proxy"
          PROVE  ~Tracked(x[2])
      <4>1. CASE x \in deployed
        BY <3>2, <4>1 DEF DInv, RecordsInv
      <4>2. CASE x = c
        BY <1>2, <3>2, <4>2
      <4>3. CASE x = ProxyRecord(c) /\ on.proxied
        BY <1>2, <4>3 DEF ProxyRecord
      <4> QED BY <3>1, <4>1, <4>2, <4>3
    <3>3. Contracts' \subseteq deployed'
      BY <2>1, <2>3 DEF DInv, RecordsInv
    <3> QED BY <3>2, <3>3 DEF RecordsInv
  <2>8. CallsInv'
    <3>1. \/ first = <<>>
          \/ ~Tracked(c) /\ first = <<Do("saveProxy", c)>>
      BY <1>2 DEF When
    <3>2. /\ IsSequenceOfCalls(m) /\ \A i \in DOMAIN m : CallSound(network, m[i])
          /\ HandsOverOnly(c, m) /\ HandsOverLast(network, m)
      BY <1>2, <1>3, <3>1, ReadyAfterDeploy
    <3>3. Ready(m)'
      <4>1. ASSUME NEW j \in DOMAIN m, m[j].op = "transfer"
            PROVE  /\ m[j].on.contract \in Contracts'
                   /\ owner'[m[j].on.contract] = Deployer =>
                        \A w \in Wanted(network') : w[1] = m[j].on.contract =>
                          Made(w)' \/ \E i \in 1..j - 1 : Provides(m[i], w)
        <5>1. m[j].on.contract \in Contracts'
          BY <2>3, <3>2, <4>1 DEF HandsOverOnly
        <5>2. \A w \in Wanted(network) : w[1] = m[j].on.contract =>
                \E i \in 1..j - 1 : Provides(m[i], w)
          BY <3>2, <4>1 DEF HandsOverLast
        <5>3. network' = network
          BY <2>1
        <5> QED BY <5>1, <5>2, <5>3
      <4> QED BY <4>1 DEF Ready
    <3>4. \A w : ~Provides(Head(calls), w)
      BY <1>1 DEF Provides, Call
    <3>5. \A x \in Contracts : x \in Contracts' /\ (owner'[x] = Deployer => owner[x] = Deployer)
      BY <2>2, <2>3
    <3> QED BY <1>1, <2>1, <2>6, <3>2, <3>3, <3>4, <3>5, CallsStep DEF DInv
  <2>9. TypeOK'
    <3>1. DOMAIN setting' = DOMAIN setting \cup DOMAIN g
      BY <2>1, SettingsMade
    <3>2. \A k \in DOMAIN setting' : k[1] \in Contracts'
      BY <2>3, <2>4, <3>1 DEF DInv, TypeOK
    <3>3. \A x \in Contracts' : owner'[x] \in {Deployer, Safe, Timelock}
      BY <2>3 DEF DInv, TypeOK
    <3>4. \A x \in deployed' : x[1] = "Proxy" \/ x \in Contracts'
      <4>1. \A x \in deployed' : x \in deployed \/ x = c \/ x = ProxyRecord(c)
        BY <2>1
      <4> QED BY <2>3, <4>1 DEF DInv, TypeOK, ProxyRecord
    <3> QED BY <1>1, <2>1, <3>2, <3>3, <3>4 DEF DInv, TypeOK
  <2>10. RunInv'
    BY <2>1 DEF DInv, RunInv
  <2>11. PeersInv'
    <3>1. \/ first = <<>>
          \/ ~Tracked(c) /\ first = <<Do("saveProxy", c)>>
      BY <1>2 DEF When
    <3>2. IsSequenceOfCalls(m) /\ TellsNoPeer(m)
      BY <1>2, <1>3, <3>1, ReadyAfterDeploy
    <3>3. Head(calls).op = "deploy"
      BY <1>1 DEF Call
    <3>4. ASSUME NEW x, NEW key, key[1] = "peer"
          PROVE  Value(x, key)' = Value(x, key)
      <4>1. <<x, key>> \notin DOMAIN g
        BY <2>4, <3>4
      <4> QED BY <2>1, <4>1, SettingsMade
    <3>5. DOMAIN setting' = DOMAIN setting \cup DOMAIN g
      BY <2>1, SettingsMade
    <3>6. \A k \in DOMAIN setting' : k[2][1] = "peer" => k \in DOMAIN setting
      BY <2>4, <3>5
    <3> QED BY <1>1, <2>1, <3>2, <3>3, <3>4, <3>6, OtherThanPeersStep DEF DInv
  <2> QED BY <2>6, <2>7, <2>8, <2>9, <2>10, <2>11 DEF DInv
<1> QED BY <1>4, <1>5

-----------------------------------------------------------------------------
(* Between runs *)

LEMMA NoCalls ==
  ASSUME DInv, status # "running", calls' = calls
  PROVE  calls' = <<>> /\ CallsInv'
BY NothingLeft DEF DInv, TypeOK

LEMMA DeployElsewhereStep ==
  ASSUME DInv, NEW n \in DOMAIN ADAPTOR_CONFIG_MAP, DeployElsewhere(n)
  PROVE  DInv'
<1>1. /\ status # "running" /\ elsewhere[n] < MaxElsewhere /\ again' = FALSE
      /\ elsewhere' = [elsewhere EXCEPT ![n] = @ + 1]
      /\ UNCHANGED <<network, chain>> /\ deployed' = deployed /\ owner' = owner
      /\ setting' = setting /\ network' = network /\ tag' = tag /\ step' = step
      /\ calls' = calls /\ status' = status /\ clean' = clean /\ done' = done /\ runs' = runs
      /\ whole' = whole /\ lost' = lost
  BY DEF DeployElsewhere, Between, chain, run
<1>2. RecordsInv' /\ MadeInv' /\ Contracts' = Contracts
  BY <1>1, SameChain DEF DInv
<1>3. CallsInv'
  BY <1>1, NoCalls
<1>4. \A x \in DOMAIN elsewhere' : elsewhere'[x] \in 0..MaxElsewhere
  <2>1. \A x \in DOMAIN elsewhere : elsewhere[x] \in 0..MaxElsewhere
    BY DEF DInv, TypeOK
  <2>2. DOMAIN elsewhere' = DOMAIN elsewhere
    BY <1>1
  <2>3. ASSUME NEW x \in DOMAIN elsewhere
        PROVE  elsewhere'[x] \in 0..MaxElsewhere
    <3>1. CASE x = n
      <4>1. elsewhere'[x] = elsewhere[x] + 1
        BY <1>1, <2>3, <3>1
      <4> QED BY <1>1, <2>1, <2>3, <3>1, <4>1, DeploymentAssumption
    <3>2. CASE x # n
      BY <1>1, <2>1, <2>3, <3>2
    <3> QED BY <3>1, <3>2
  <2> QED BY <2>2, <2>3
<1>5. TypeOK'
  BY <1>1, <1>2, <1>4 DEF DInv, TypeOK
<1>6. RunInv'
  BY <1>1 DEF DInv, RunInv
<1>7. PeersInv'
  BY <1>1, NoCalls, PeersApart DEF DInv
<1> QED BY <1>2, <1>3, <1>5, <1>6, <1>7 DEF DInv

LEMMA PassOnStep ==
  ASSUME DInv, NEW c \in deployed, c[1] = "Pool", PassOn(c)
  PROVE  DInv'
<1>1. /\ status # "running" /\ owner[c] = Safe /\ again' = FALSE /\ clean' = FALSE
      /\ owner' = [owner EXCEPT ![c] = Timelock] /\ deployed' = deployed
      /\ setting' = setting /\ elsewhere' = elsewhere /\ network' = network /\ tag' = tag
      /\ step' = step /\ calls' = calls /\ status' = status /\ done' = done /\ runs' = runs
      /\ whole' = FALSE /\ lost' = lost
  BY DEF PassOn, Between, run
<1>2. ~Tracked(c)
  BY DEF Tracked
<1>3. /\ Contracts' = Contracts
      /\ \A x \in Contracts : x # c => owner'[x] = owner[x]
      /\ \A x \in Contracts : owner'[x] \in {owner[x], Timelock}
      /\ \A x, key : Value(x, key)' = Value(x, key)
  BY <1>1 DEF Contracts, Value
<1>4. MadeInv'
  <2>1. ASSUME NEW w \in Wanted(network)
        PROVE  Made(w)' \/ w[1] \notin Contracts' \/ owner'[w[1]] = Deployer
    <3>1. w[1] # c
      BY <1>2, WantedKinds
    <3> QED BY <1>3, <3>1 DEF DInv, MadeInv, Made
  <2> QED BY <1>1, <1>3, <2>1 DEF DInv, MadeInv
<1>5. RecordsInv'
  BY <1>1, <1>3 DEF DInv, RecordsInv
<1>6. CallsInv'
  BY <1>1, NoCalls
<1>7. TypeOK'
  BY <1>1, <1>3 DEF DInv, TypeOK
<1>8. RunInv'
  BY <1>1 DEF DInv, RunInv
<1>9. PeersInv'
  BY <1>1, NoCalls, PeersApart DEF DInv
<1> QED BY <1>4, <1>5, <1>6, <1>7, <1>8, <1>9 DEF DInv

\* An asset whose record is removed is no contract that the scripts know.
LEMMA RemoveRecordStep ==
  ASSUME DInv, NEW c \in deployed \cap Replaceable, RemoveRecord(c)
  PROVE  DInv'
<1> DEFINE Kept == {k \in DOMAIN setting : k[1] # c /\ ~IsAbout(k[2], c)}
<1>1. /\ status # "running" /\ again' = FALSE /\ clean' = FALSE
      /\ deployed' = deployed \ {c} /\ owner' = [x \in DOMAIN owner \ {c} |-> owner[x]]
      /\ setting' = [k \in Kept |-> IF setting[k] = c THEN Replaced(c) ELSE setting[k]]
      /\ elsewhere' = elsewhere /\ network' = network /\ tag' = tag /\ step' = step
      /\ calls' = calls /\ status' = status /\ done' = done /\ runs' = runs
      /\ whole' = FALSE /\ lost' = lost
  BY DEF RemoveRecord, Between, run
<1>2. c = <<"Asset", c[2], c[3]>>
  BY DeploymentAssumption
<1>3. Contracts' = Contracts \ {c} /\ \A x \in Contracts' : owner'[x] = owner[x]
  BY <1>1 DEF Contracts
<1>4. ASSUME NEW x, NEW key, x # c, key[1] \in SettingKinds
      PROVE  Value(x, key)' = IF Value(x, key) = c THEN Replaced(c) ELSE Value(x, key)
  <2> DEFINE k == <<x, key>>
  <2>1. Value(x, key) = IF k \in DOMAIN setting THEN setting[k] ELSE None
    BY DEF Value
  <2>2. Value(x, key)' = IF k \in DOMAIN setting' THEN setting'[k] ELSE None
    BY DEF Value
  <2>3. k[1] # c /\ ~IsAbout(k[2], c)
    BY <1>4 DEF IsAbout, SettingKinds
  <2>4. None # c
    BY <1>2 DEF None
  <2> HIDE DEF k
  <2>5. k \in DOMAIN setting <=> k \in Kept
    BY <2>3
  <2>6. DOMAIN setting' = Kept
    BY <1>1
  <2>7. k \in Kept => setting'[k] = IF setting[k] = c THEN Replaced(c) ELSE setting[k]
    BY <1>1
  <2> QED BY <2>1, <2>2, <2>4, <2>5, <2>6, <2>7
<1> HIDE DEF Kept
<1>5. Replaced(c) # None
  BY DEF Replaced, None
<1>6. MadeInv'
  <2>1. ASSUME NEW w \in Wanted(network)
        PROVE  Made(w)' \/ w[1] \notin Contracts' \/ owner'[w[1]] = Deployer
    <3>1. CASE w[1] = c
      BY <1>3, <3>1
    <3>2. CASE w[1] # c
      <4>1. Made(w) => Made(w)'
        BY <1>4, <1>5, <3>2, WantedKinds DEF Made
      <4> QED BY <1>3, <4>1 DEF DInv, MadeInv
    <3> QED BY <3>1, <3>2
  <2>2. ASSUME NEW p \in ToSet(AllPools(network)), NEW a \in ToSet(p.assets)
        PROVE  Value(Asset(p, a), <<"pool">>)' \in {None, Pool(p)}
    <3>1. Value(Asset(p, a), <<"pool">>) \in {None, Pool(p)}
      BY DEF DInv, MadeInv
    <3>2. CASE Asset(p, a) = c
      <4>1. <<Asset(p, a), <<"pool">>>> \notin DOMAIN setting'
        BY <1>1, <3>2 DEF Kept
      <4> QED BY <4>1 DEF Value
    <3>3. CASE Asset(p, a) # c
      <4>1. Pool(p) # c /\ None # c
        <5>1. Pool(p)[1] = "Pool"
          BY DEF Pool
        <5>2. c[1] = "Asset"
          BY <1>2
        <5>3. None # c
          BY <1>2 DEF None
        <5> QED BY <5>1, <5>2, <5>3
      <4>2. Value(Asset(p, a), <<"pool">>) # c
        BY <3>1, <4>1
      <4>3. Value(Asset(p, a), <<"pool">>)' = Value(Asset(p, a), <<"pool">>)
        BY <1>4, <3>3, <4>2, AssetTracked
      <4> QED BY <3>1, <4>3
    <3> QED BY <3>2, <3>3
  <2> QED BY <1>1, <2>1, <2>2 DEF MadeInv
<1>7. RecordsInv'
  BY <1>1, <1>3 DEF DInv, RecordsInv
<1>8. CallsInv'
  BY <1>1, NoCalls
<1>9. TypeOK'
  <2>1. \A k \in DOMAIN setting' : k[1] \in Contracts'
    <3>1. DOMAIN setting' = Kept
      BY <1>1
    <3> QED BY <1>3, <3>1 DEF DInv, TypeOK, Kept
  <2> QED BY <1>1, <1>3, <2>1 DEF DInv, TypeOK
<1>10. RunInv'
  BY <1>1 DEF DInv, RunInv
<1>11. PeersInv'
  <2>1. DOMAIN setting' \subseteq DOMAIN setting
    BY <1>1 DEF Kept
  <2> QED BY <1>1, <2>1, NoCalls, PeersApart DEF DInv
<1> QED BY <1>6, <1>7, <1>8, <1>9, <1>10, <1>11 DEF DInv

-----------------------------------------------------------------------------
(* Calls that look at the contracts before they send anything *)

Asks == {"linkPool", "listAsset", "approveToken", "setVeWom", "voterOfVeWom",
         "addBribe", "voterOfFactory", "linkMasterWombat", "addToMasterWombat",
         "setRewarder", "addToVoter", "setAllocPoint", "factoryOfVoter", "require",
         "configurePyth", "unlessRecorded", "requireMasterWombat", "findAdaptor",
         "handOverProxies", "handOverEach", "handOver", "handOverProxy"}

LEMMA AskingStep ==
  ASSUME DInv, NEW op \in Asks, Performs(op), NEW m, Unfold(m), Harmless(m)
  PROVE  DInv'
<1>1. status = "running" /\ calls # <<>> /\ Call.op = op
  BY DEF Performs
<1>2. Call.op \notin {"send", "readPrice", "configureChainlink", "throw", "connect"}
  BY <1>1 DEF Asks
<1> QED BY <1>1, <1>2, HarmlessStep

\* Nothing is left of the call.
LEMMA NothingStep ==
  ASSUME DInv, NEW op \in Asks, Performs(op), Unfold(<<>>)
  PROVE  DInv'
<1> PICK m : m = <<>>
  OBVIOUS
<1>1. Harmless(m) /\ Unfold(m)
  BY HarmlessNothing
<1> QED BY <1>1, AskingStep

\* At most one transaction is sent, to a contract that is not tracked.
LEMMA SendingStep ==
  ASSUME DInv, NEW op \in Asks, Performs(op),
         NEW c, NEW key, NEW value, ~Tracked(c), key[1] # "peer",
         Unfold(<<>>) \/ Unfold(<<Send(c, key, value)>>)
  PROVE  DInv'
<1>1. CASE Unfold(<<>>)
  BY <1>1, NothingStep
<1>2. CASE Unfold(<<Send(c, key, value)>>)
  <2> PICK m : m = <<Send(c, key, value)>>
    OBVIOUS
  <2>1. Harmless(m) /\ Unfold(m)
    BY <1>2, HarmlessSend
  <2> QED BY <2>1, AskingStep
<1> QED BY <1>1, <1>2

LEMMA Untracked ==
  /\ ~Tracked(TheMasterWombat) /\ ~Tracked(VeWom) /\ ~Tracked(Voter)
  /\ ~Tracked(BribeRewarderFactory) /\ ~Tracked(PythPriceFeed)
BY DEF Tracked, TheMasterWombat, BoostedMasterWombat, MasterWombatV3, VeWom, Voter,
       BribeRewarderFactory, PythPriceFeed

LEMMA LinkPoolStep ==
  ASSUME DInv, LinkPool
  PROVE  DInv'
<1> PICK c, key, value : c = on /\ key = <<"masterWombat">> /\ value = TheMasterWombat
  OBVIOUS
<1>1. Performs("linkPool") /\ "linkPool" \in Asks
  BY DEF LinkPool, Asks
<1>2. ~Tracked(c)
  BY <1>1, HeadSound DEF SoundCall, on, Performs
<1>3. Unfold(<<>>) \/ Unfold(<<Send(c, key, value)>>)
  BY DEF LinkPool, When
<1>4. key[1] # "peer"
  OBVIOUS
<1> QED BY <1>1, <1>2, <1>3, <1>4, SendingStep

LEMMA SetVeWomStep ==
  ASSUME DInv, SetVeWom
  PROVE  DInv'
<1> PICK c, key : c = TheMasterWombat /\ key = <<"veWom">>
  OBVIOUS
<1>1. Performs("setVeWom") /\ "setVeWom" \in Asks
  BY DEF SetVeWom, Asks
<1>2. ~Tracked(c)
  BY Untracked
<1>3. Unfold(<<>>) \/ Unfold(<<Send(c, key, VeWom)>>)
  BY DEF SetVeWom, When
<1>4. key[1] # "peer"
  OBVIOUS
<1> QED BY <1>1, <1>2, <1>3, <1>4, SendingStep

LEMMA VoterOfVeWomStep ==
  ASSUME DInv, VoterOfVeWom
  PROVE  DInv'
<1>1. Performs("voterOfVeWom") /\ "voterOfVeWom" \in Asks
  BY DEF VoterOfVeWom, Asks
<1>2. \/ Unfold(<<>>) \/ Unfold(<<Send(VeWom, <<"voter">>, Voter)>>)
      \/ Unfold(<<Send(VeWom, <<"paused">>, Configured)>>) \/ Failed
  BY DEF VoterOfVeWom, When
<1>3. <<"voter">>[1] # "peer" /\ <<"paused">>[1] # "peer"
  OBVIOUS
<1> QED BY <1>1, <1>2, <1>3, Untracked, SendingStep, FailedStep

LEMMA ConnectStep ==
  ASSUME DInv, Connect
  PROVE  DInv'
<1> PICK c, key, value : c = on.adaptor /\ key = <<"peer", on.chain>> /\ value = AdaptorAddress(on.home)
  OBVIOUS
<1>1. status = "running" /\ calls # <<>> /\ Call.op = "connect" /\ Head(calls) = Call
  BY DEF Connect, Performs, Call
<1>2. ~Tracked(c)
  BY <1>1, HeadSound DEF SoundCall, on
<1>3. \/ Value(c, key) = value /\ Unfold(<<>>)
      \/ Unfold(<<Send(c, key, value)>>) \/ Failed
  BY DEF Connect
<1>4. PICK v \in PeersWanted(network) : Connects(Call, v)
  BY <1>1, HeadSound DEF SoundCall
<1>5. \A w : Connects(Call, w) => c = w[1] /\ key = <<"peer", w[2]>> /\ value = AdaptorAddress(w[3])
  BY DEF Connects, on
<1>6. \A w : ~Provides(Head(calls), w) /\ ~Tells(Head(calls), w)
  BY <1>1 DEF Provides, Tells
<1>7. CASE Value(c, key) = value /\ Unfold(<<>>)
  <2> PICK m : m = <<>>
    OBVIOUS
  <2>1. Harmless(m) /\ Unfold(m)
    BY <1>7, HarmlessNothing
  <2>2. Ready(m)
    BY <2>1 DEF Harmless, Ready
  <2>3. \A w : Connects(Head(calls), w) => HasPeer(w)
    BY <1>1, <1>5, <1>7 DEF HasPeer
  <2>4. TellsRight(m)
    BY <2>1, TellsNothing DEF Harmless
  <2> QED BY <1>1, <1>6, <2>1, <2>2, <2>3, <2>4, UnfoldStep DEF Harmless
<1>8. CASE Unfold(<<Send(c, key, value)>>)
  <2> PICK x : x = Send(c, key, value)
    OBVIOUS
  <2> PICK m : m = <<x>>
    OBVIOUS
  <2>1. IsSequenceOfCalls(m) /\ DOMAIN m = {1} /\ m[1] = x /\ Unfold(m)
    BY <1>8, OneCall
  <2>2. CallSound(network, x)
    BY <1>2, SoundSend
  <2>3. x.op = "send" /\ x.on.contract = c /\ x.on.key = key /\ x.on.value = value
    BY DEF Send, Do
  <2>4. Ready(m)
    BY <2>1, <2>3 DEF Ready
  <2>5. \A w : Connects(Call, w) => Tells(x, w)
    BY <1>5, <2>3 DEF Tells
  <2>6. TellsRight(m)
    BY <1>4, <2>1, <2>5 DEF TellsRight
  <2>7. \A w : Connects(Head(calls), w) => \E j \in DOMAIN m : Tells(m[j], w)
    BY <1>1, <2>1, <2>5
  <2> QED BY <1>1, <1>6, <2>1, <2>2, <2>4, <2>6, <2>7, UnfoldStep
<1> QED BY <1>3, <1>7, <1>8, FailedStep

LEMMA ApproveTokenStep ==
  ASSUME DInv, ApproveToken
  PROVE  DInv'
<1> PICK c, key, value : c = on.adaptor /\ key = <<"token", on.chain, on.token>> /\ value = Configured
  OBVIOUS
<1>1. Performs("approveToken") /\ "approveToken" \in Asks
  BY DEF ApproveToken, Asks
<1>2. ~Tracked(c)
  BY <1>1, HeadSound DEF SoundCall, on, Performs
<1>3. Unfold(<<>>) \/ Unfold(<<Send(c, key, value)>>)
  BY DEF ApproveToken, When
<1>4. key[1] # "peer"
  OBVIOUS
<1> QED BY <1>1, <1>2, <1>3, <1>4, SendingStep

LEMMA AddBribeStep ==
  ASSUME DInv, AddBribe
  PROVE  DInv'
<1> PICK c, key, value : c = Voter /\ key = <<"gauge", on>> /\ value = 
            Gauge(IF Value(Voter, key) = None THEN TheMasterWombat ELSE Value(Voter, key)[2],
                  Bribe(on))
  OBVIOUS
<1>1. Performs("addBribe") /\ "addBribe" \in Asks
  BY DEF AddBribe, Asks
<1>2. ~Tracked(c)
  BY Untracked
<1>3. Unfold(<<>>) \/ Unfold(<<Send(c, key, value)>>) \/ Failed
  BY DEF AddBribe, When
<1>4. key[1] # "peer"
  OBVIOUS
<1> QED BY <1>1, <1>2, <1>3, <1>4, SendingStep, FailedStep

LEMMA VoterOfFactoryStep ==
  ASSUME DInv, VoterOfFactory
  PROVE  DInv'
<1> PICK c, key, value : c = BribeRewarderFactory /\ key = <<"voter">> /\ value = Voter
  OBVIOUS
<1>1. Performs("voterOfFactory") /\ "voterOfFactory" \in Asks
  BY DEF VoterOfFactory, Asks
<1>2. ~Tracked(c)
  BY Untracked
<1>3. Unfold(<<>>) \/ Unfold(<<Send(c, key, value)>>)
  BY DEF VoterOfFactory, When
<1>4. key[1] # "peer"
  OBVIOUS
<1> QED BY <1>1, <1>2, <1>3, <1>4, SendingStep

LEMMA LinkMasterWombatStep ==
  ASSUME DInv, LinkMasterWombat
  PROVE  DInv'
<1> PICK c, key, value : c = TheMasterWombat /\ key = on[1] /\ value = on[2]
  OBVIOUS
<1>1. Performs("linkMasterWombat") /\ "linkMasterWombat" \in Asks
  BY DEF LinkMasterWombat, Asks
<1>2. ~Tracked(c)
  BY Untracked
<1>3. Unfold(<<>>) \/ Unfold(<<Send(c, key, value)>>)
  BY DEF LinkMasterWombat, When
<1>4. key[1] # "peer"
  BY <1>1, HeadSound DEF SoundCall, on, Performs
<1> QED BY <1>1, <1>2, <1>3, <1>4, SendingStep

LEMMA AddToMasterWombatStep ==
  ASSUME DInv, AddToMasterWombat
  PROVE  DInv'
<1> PICK c, key, value : c = TheMasterWombat /\ key = <<"lp", on>> /\ value = Configured
  OBVIOUS
<1>1. Performs("addToMasterWombat") /\ "addToMasterWombat" \in Asks
  BY DEF AddToMasterWombat, Asks
<1>2. ~Tracked(c)
  BY Untracked
<1>3. Unfold(<<>>) \/ Unfold(<<Send(c, key, value)>>)
  BY DEF AddToMasterWombat, When
<1>4. key[1] # "peer"
  OBVIOUS
<1> QED BY <1>1, <1>2, <1>3, <1>4, SendingStep

LEMMA SetRewarderStep ==
  ASSUME DInv, SetRewarder
  PROVE  DInv'
<1> PICK c, key, value : c = TheMasterWombat /\ key = <<"rewarder", on>> /\ value = Rewarder(on)
  OBVIOUS
<1>1. Performs("setRewarder") /\ "setRewarder" \in Asks
  BY DEF SetRewarder, Asks
<1>2. ~Tracked(c)
  BY Untracked
<1>3. Unfold(<<>>) \/ Unfold(<<Send(c, key, value)>>) \/ Failed
  BY DEF SetRewarder, When
<1>4. key[1] # "peer"
  OBVIOUS
<1> QED BY <1>1, <1>2, <1>3, <1>4, SendingStep, FailedStep

LEMMA AddToVoterStep ==
  ASSUME DInv, AddToVoter
  PROVE  DInv'
<1> PICK c, key, value : c = Voter /\ key = <<"gauge", on>> /\ value = Gauge(TheMasterWombat, None)
  OBVIOUS
<1>1. Performs("addToVoter") /\ "addToVoter" \in Asks
  BY DEF AddToVoter, Asks
<1>2. ~Tracked(c)
  BY Untracked
<1>3. Unfold(<<>>) \/ Unfold(<<Send(c, key, value)>>) \/ Failed
  BY DEF AddToVoter, When
<1>4. key[1] # "peer"
  OBVIOUS
<1> QED BY <1>1, <1>2, <1>3, <1>4, SendingStep, FailedStep

LEMMA SetAllocPointStep ==
  ASSUME DInv, SetAllocPoint
  PROVE  DInv'
<1> PICK c, key, value : c = Voter /\ key = <<"allocPoint", on>> /\ value = Configured
  OBVIOUS
<1>1. Performs("setAllocPoint") /\ "setAllocPoint" \in Asks
  BY DEF SetAllocPoint, Asks
<1>2. ~Tracked(c)
  BY Untracked
<1>3. Unfold(<<>>) \/ Unfold(<<Send(c, key, value)>>)
  BY DEF SetAllocPoint, When
<1>4. key[1] # "peer"
  OBVIOUS
<1> QED BY <1>1, <1>2, <1>3, <1>4, SendingStep

LEMMA FactoryOfVoterStep ==
  ASSUME DInv, FactoryOfVoter
  PROVE  DInv'
<1> PICK c, key, value : c = Voter /\ key = <<"bribeFactory">> /\ value = BribeRewarderFactory
  OBVIOUS
<1>1. Performs("factoryOfVoter") /\ "factoryOfVoter" \in Asks
  BY DEF FactoryOfVoter, Asks
<1>2. ~Tracked(c)
  BY Untracked
<1>3. Unfold(<<>>) \/ Unfold(<<Send(c, key, value)>>)
  BY DEF FactoryOfVoter, When
<1>4. key[1] # "peer"
  OBVIOUS
<1> QED BY <1>1, <1>2, <1>3, <1>4, SendingStep

LEMMA ConfigurePythStep ==
  ASSUME DInv, ConfigurePyth
  PROVE  DInv'
<1> PICK c, key, value : c = PythPriceFeed /\ key = <<"id", on>> /\ value = Configured
  OBVIOUS
<1>1. Performs("configurePyth") /\ "configurePyth" \in Asks
  BY DEF ConfigurePyth, Asks
<1>2. ~Tracked(c)
  BY Untracked
<1>3. Unfold(<<>>) \/ Unfold(<<Send(c, key, value)>>) \/ Failed
  BY DEF ConfigurePyth, When, ConfigureFeed
<1>4. key[1] # "peer"
  OBVIOUS
<1> QED BY <1>1, <1>2, <1>3, <1>4, SendingStep, FailedStep

LEMMA PerformRequireStep ==
  ASSUME DInv, PerformRequire
  PROVE  DInv'
<1>1. Performs("require") /\ "require" \in Asks
  BY DEF PerformRequire, Asks
<1>2. Unfold(<<>>) \/ Failed
  BY DEF PerformRequire
<1> QED BY <1>1, <1>2, NothingStep, FailedStep

LEMMA RequireMasterWombatStep ==
  ASSUME DInv, RequireMasterWombat
  PROVE  DInv'
<1>1. Performs("requireMasterWombat") /\ "requireMasterWombat" \in Asks
  BY DEF RequireMasterWombat, Asks
<1>2. Unfold(<<>>) \/ Failed
  BY DEF RequireMasterWombat
<1> QED BY <1>1, <1>2, NothingStep, FailedStep

LEMMA FindAdaptorStep ==
  ASSUME DInv, FindAdaptor
  PROVE  DInv'
<1>1. Performs("findAdaptor") /\ "findAdaptor" \in Asks
  BY DEF FindAdaptor, Asks
<1>2. Unfold(<<>>) \/ Failed
  BY DEF FindAdaptor
<1> QED BY <1>1, <1>2, NothingStep, FailedStep

LEMMA UnlessRecordedStep ==
  ASSUME DInv, UnlessRecorded
  PROVE  DInv'
<1> PICK m : m = on.calls
  OBVIOUS
<1>1. Performs("unlessRecorded") /\ "unlessRecorded" \in Asks
  BY DEF UnlessRecorded, Asks
<1>2. Call.op = "unlessRecorded" /\ calls # <<>>
  BY <1>1 DEF Performs
<1>3. Sound1(network, m)
  BY <1>2, HeadSound, BodyOfCall DEF on
<1>4. HandsOverNothing(m)
  BY <1>2, HeadSound DEF SoundCall, on
<1>5. Harmless(m)
  BY <1>3, <1>4, BodyHarmless
<1>6. Unfold(<<>>) \/ Unfold(m)
  BY DEF UnlessRecorded, When
<1> QED BY <1>1, <1>5, <1>6, NothingStep, AskingStep

\* An asset of the pool is replaced, or added.
LEMMA ListAssetStep ==
  ASSUME DInv, ListAsset
  PROVE  DInv'
<1> PICK c, key, value : c = on.pool /\ key = <<"asset", on.token>> /\ value = on.asset
  OBVIOUS
<1>1. Performs("listAsset") /\ "listAsset" \in Asks
  BY DEF ListAsset, Asks
<1>2. ~Tracked(c)
  BY <1>1, HeadSound DEF SoundCall, on, Performs
<1> PICK x, p, q : /\ x = Send(c, key, None)
                   /\ p = <<x>> /\ q = <<Send(c, key, value)>>
  OBVIOUS
<1> PICK m : m = p \o q
  OBVIOUS
<1>3. Harmless(m)
  <2>1. IsSequenceOfCalls(q) /\ DOMAIN q = {1} /\ q[1] = Send(c, key, value)
    BY OneCall
  <2>2. IsSequenceOfCalls(m)
    BY <2>1, Prefixed
  <2>3. Len(q) = 1
    BY <2>1
  <2>4. DOMAIN m = 1..2
    BY <2>1, <2>3, Prefixed
  <2>5. m[1] = x
    BY <2>1, Prefixed
  <2>6. m[2] = q[1]
    BY <2>1, Prefixed
  <2>7. \A i \in DOMAIN m : i = 1 \/ i = 2
    BY <2>4
  <2>8. key[1] # "peer"
    OBVIOUS
  <2>9. TellsNoPeer(m)
    BY <1>2, <2>1, <2>5, <2>6, <2>7, <2>8, SoundSend DEF TellsNoPeer
  <2> QED BY <1>2, <2>1, <2>2, <2>5, <2>6, <2>7, <2>9, SoundSend DEF Harmless
<1>4. Unfold(<<>>) \/ Unfold(<<Send(c, key, value)>>) \/ Unfold(m)
  BY DEF ListAsset, When
<1>5. key[1] # "peer"
  OBVIOUS
<1> QED BY <1>1, <1>2, <1>3, <1>4, <1>5, SendingStep, AskingStep

-----------------------------------------------------------------------------
(* Settings of tracked contracts *)

\* The asset has its price feed, where it needs one.
LEMMA ReadPriceStep ==
  ASSUME DInv, ReadPrice
  PROVE  DInv'
<1> PICK m : m = <<>>
  OBVIOUS
<1>1. status = "running" /\ calls # <<>> /\ Call.op = "readPrice"
  BY DEF ReadPrice, Performs
<1>2. CASE Failed
  BY <1>2, FailedStep
<1>3. CASE ~Failed
  <2>1. Unfold(m) /\ (on.feed = "none" \/ Value(on.asset, <<"priceFeed">>) # None)
    BY <1>3 DEF ReadPrice
  <2>2. ASSUME NEW w \in Wanted(network), Provides(Head(calls), w)
        PROVE  Made(w)
    <3>1. on.feed # "none" /\ on.asset = w[1] /\ w[2] = <<"priceFeed">>
      BY <1>1, <2>2 DEF Provides, Call, on
    <3> QED BY <2>1, <3>1 DEF Made
  <2>3. Harmless(m)
    BY HarmlessNothing
  <2>4. Ready(m)
    BY <2>3 DEF Harmless, Ready
  <2>5. TellsRight(m)
    BY <2>3, TellsNothing DEF Harmless
  <2>6. Head(calls).op # "throw" /\ \A w : ~Connects(Head(calls), w) /\ ~Tells(Head(calls), w)
    BY <1>1 DEF Connects, Tells, Call
  <2> QED BY <1>1, <2>1, <2>2, <2>3, <2>4, <2>5, <2>6, UnfoldStep DEF Harmless
<1> QED BY <1>2, <1>3

\* A feed that the deployer may set is set, or the run fails.
LEMMA ConfigureChainlinkStep ==
  ASSUME DInv, ConfigureChainlink
  PROVE  DInv'
<1> PICK c, key : c = ChainlinkPriceFeed /\ key = <<"feed", on>>
  OBVIOUS
<1> PICK m : m = When(DeployerOwns(c), <<Send(c, key, Configured)>>)
  OBVIOUS
<1>1. status = "running" /\ calls # <<>> /\ Call.op = "configureChainlink"
  BY DEF ConfigureChainlink, Performs
<1>2. CASE Failed
  BY <1>2, FailedStep
<1>3. CASE ~Failed
  <2>1. Unfold(m)
    BY <1>3 DEF ConfigureChainlink, ConfigureFeed
  <2>2. \A w : Provides(Head(calls), w) => w[1] = c /\ w[2] = key
    BY <1>1 DEF Provides, Call, on
  <2>3. Head(calls).op # "throw" /\ \A w : ~Connects(Head(calls), w) /\ ~Tells(Head(calls), w)
    BY <1>1 DEF Connects, Tells, Call
  <2>4. CASE DeployerOwns(c)
    <3> PICK x : x = Send(c, key, Configured)
      OBVIOUS
    <3>1. IsSequenceOfCalls(m) /\ DOMAIN m = {1} /\ m[1] = x
      BY <2>4, OneCall DEF When
    <3>2. x.op = "send" /\ x.on.contract = c /\ x.on.key = key /\ x.on.value # None
      BY DEF Send, Do, Configured, None
    <3>3. CallSound(network, x)
      <4>1. key # <<"pool">>
        <5>1. key[1] = "feed" /\ <<"pool">>[1] = "pool"
          OBVIOUS
        <5> QED BY <5>1
      <4>2. SoundCall(network, x) /\ Bodies(x) = <<>>
        BY <3>2, <4>1 DEF SoundCall, Bodies
      <4> QED BY <4>2, EmptySequence DEF CallSound
    <3>4. Ready(m)
      BY <3>1, <3>2 DEF Ready
    <3>5. \A w : Provides(Head(calls), w) => \E i \in DOMAIN m : Provides(m[i], w)
      BY <2>2, <3>1, <3>2 DEF Provides
    <3>6. TellsRight(m)
      <4>1. x.on.key[1] # "peer"
        BY <3>2
      <4> QED BY <3>1, <4>1 DEF TellsRight
    <3> QED BY <1>1, <2>1, <2>3, <3>1, <3>3, <3>4, <3>5, <3>6, UnfoldStep
  <2>5. CASE ~DeployerOwns(c)
    <3>1. Harmless(m)
      BY <2>5, HarmlessNothing DEF When
    <3>2. Ready(m)
      BY <3>1 DEF Harmless, Ready
    <3>3. \A w : ~(DeployerOwns(w[1]) /\ Provides(Head(calls), w))
      BY <2>2, <2>5
    <3>4. TellsRight(m)
      BY <3>1, TellsNothing DEF Harmless
    <3> QED BY <1>1, <2>1, <2>3, <3>1, <3>2, <3>3, <3>4, UnfoldStep DEF Harmless
  <2> QED BY <2>4, <2>5
<1> QED BY <1>2, <1>3

-----------------------------------------------------------------------------
(* Handing over pools and proxies *)

\* A contract of the deployer that is not tracked is handed over.
LEMMA HandingOverStep ==
  ASSUME DInv, NEW op \in Asks, Performs(op), NEW c, ~Tracked(c),
         \/ Unfold(<<>>) \/ Failed
         \/ DeployerOwns(c) /\ Unfold(<<TransferOwnership(c, Multisig(network))>>)
  PROVE  DInv'
<1>1. CASE Unfold(<<>>)
  BY <1>1, NothingStep
<1>2. CASE Failed
  BY <1>2, FailedStep
<1>3. CASE DeployerOwns(c) /\ Unfold(<<TransferOwnership(c, Multisig(network))>>)
  <2> PICK x : x = TransferOwnership(c, Multisig(network))
    OBVIOUS
  <2> PICK m : m = <<x>>
    OBVIOUS
  <2>1. IsSequenceOfCalls(m) /\ DOMAIN m = {1} /\ m[1] = x
    BY OneCall
  <2>2. CallSound(network, x) /\ x.op = "transfer" /\ x.on.contract = c
    BY SoundTransfer
  <2>3. Ready(m)
    <3>1. \A w \in Wanted(network) : w[1] # c
      BY WantedKinds
    <3> QED BY <1>3, <2>1, <2>2, <3>1 DEF Ready, DeployerOwns
  <2>4. status = "running" /\ calls # <<>> /\ Call.op = op /\ Unfold(m)
    BY <1>3 DEF Performs
  <2>5. \A w : ~Provides(Head(calls), w)
    BY <2>4 DEF Provides, Call, Asks
  <2>6. TellsRight(m)
    BY <2>1, <2>2 DEF TellsRight
  <2>7. Head(calls).op # "throw" /\ \A w : ~Connects(Head(calls), w) /\ ~Tells(Head(calls), w)
    BY <2>4 DEF Connects, Tells, Call, Asks
  <2> QED BY <2>1, <2>2, <2>3, <2>4, <2>5, <2>6, <2>7, UnfoldStep
<1> QED BY <1>1, <1>2, <1>3

LEMMA HandOverStep ==
  ASSUME DInv, HandOver
  PROVE  DInv'
<1> PICK c : c = on
  OBVIOUS
<1>1. Performs("handOver") /\ "handOver" \in Asks
  BY DEF HandOver, Asks
<1>2. ~Tracked(c)
  BY <1>1, HeadSound DEF SoundCall, on, Performs
<1>3. \/ Unfold(<<>>) \/ Failed
      \/ DeployerOwns(c) /\ Unfold(<<TransferOwnership(c, Multisig(network))>>)
  BY DEF HandOver
<1> QED BY <1>1, <1>2, <1>3, HandingOverStep

LEMMA HandOverProxyStep ==
  ASSUME DInv, HandOverProxy
  PROVE  DInv'
<1> PICK c : c = on
  OBVIOUS
<1>1. Performs("handOverProxy") /\ "handOverProxy" \in Asks
  BY DEF HandOverProxy, Asks
<1>2. ~Tracked(c)
  BY <1>1, HeadSound DEF SoundCall, on, Performs
<1>3. \/ Unfold(<<>>) \/ Failed
      \/ DeployerOwns(c) /\ Unfold(<<TransferOwnership(c, Multisig(network))>>)
  BY DEF HandOverProxy
<1> QED BY <1>1, <1>2, <1>3, HandingOverStep

\* Handing over contracts that are not tracked.
LEMMA HandOverSound ==
  ASSUME NEW n
  PROVE  /\ \A c : ~Tracked(c) => /\ CallSound(n, Do("handOverProxy", c))
                                  /\ Do("handOverProxy", c).op # "transfer"
         /\ \A S : (\A c \in S : ~Tracked(c)) => /\ CallSound(n, Do("handOverEach", S))
                                                 /\ Do("handOverEach", S).op # "transfer"
<1>1. ASSUME NEW c, ~Tracked(c)
      PROVE  CallSound(n, Do("handOverProxy", c)) /\ Do("handOverProxy", c).op # "transfer"
  <2> DEFINE x == Do("handOverProxy", c)
  <2>1. x.op = "handOverProxy" /\ x.on = c
    BY DEF Do
  <2> HIDE DEF x
  <2>2. SoundCall(n, x) /\ Bodies(x) = <<>>
    BY <1>1, <2>1 DEF SoundCall, Bodies
  <2>3. CallSound(n, x) /\ x.op # "transfer"
    BY <2>1, <2>2, EmptySequence DEF CallSound
  <2> QED BY <2>3 DEF x
<1>2. ASSUME NEW S, \A c \in S : ~Tracked(c)
      PROVE  CallSound(n, Do("handOverEach", S)) /\ Do("handOverEach", S).op # "transfer"
  <2> DEFINE x == Do("handOverEach", S)
  <2>1. x.op = "handOverEach" /\ x.on = S
    BY DEF Do
  <2> HIDE DEF x
  <2>2. SoundCall(n, x) /\ Bodies(x) = <<>>
    BY <1>2, <2>1 DEF SoundCall, Bodies
  <2>3. CallSound(n, x) /\ x.op # "transfer"
    BY <2>1, <2>2, EmptySequence DEF CallSound
  <2> QED BY <2>3 DEF x
<1> QED BY <1>1, <1>2

LEMMA HandOverProxiesStep ==
  ASSUME DInv, HandOverProxies
  PROVE  DInv'
<1> PICK S : S = {c \in deployed : ProxyRecord(c) \in deployed}
  OBVIOUS
<1> PICK m : m = <<Do("handOverEach", S)>>
  OBVIOUS
<1>1. Performs("handOverProxies") /\ "handOverProxies" \in Asks
  BY DEF HandOverProxies, Asks
<1>2. \A c \in S : ~Tracked(c)
  BY DEF DInv, RecordsInv, ProxyRecord
<1>3. Harmless(m)
  <2>1. IsSequenceOfCalls(m) /\ DOMAIN m = {1} /\ m[1] = Do("handOverEach", S)
    BY OneCall
  <2>2. m[1].op = "handOverEach"
    BY <2>1 DEF Do
  <2> QED BY <1>2, <2>1, <2>2, HandOverSound DEF Harmless, TellsNoPeer
<1>4. Unfold(<<>>) \/ Unfold(m)
  BY DEF HandOverProxies, When
<1> QED BY <1>1, <1>3, <1>4, NothingStep, AskingStep

LEMMA HandOverEachStep ==
  ASSUME DInv, HandOverEach
  PROVE  DInv'
<1> PICK S, c : S = on /\ c = CHOOSE x \in S : TRUE
  OBVIOUS
<1> PICK m : m = <<Do("handOverProxy", c), Do("handOverEach", S \ {c})>>
  OBVIOUS
<1>1. Performs("handOverEach") /\ "handOverEach" \in Asks
  BY DEF HandOverEach, Asks
<1>2. \A x \in S : ~Tracked(x)
  BY <1>1, HeadSound DEF SoundCall, on, Performs
<1>3. S # {} => c \in S
  OBVIOUS
<1>4. S # {} => Harmless(m)
  <2>1. /\ IsSequenceOfCalls(m) /\ DOMAIN m = {1, 2}
        /\ m[1] = Do("handOverProxy", c) /\ m[2] = Do("handOverEach", S \ {c})
    BY TwoCalls
  <2>2. m[1].op = "handOverProxy" /\ m[2].op = "handOverEach"
    BY <2>1 DEF Do
  <2>3. TellsNoPeer(m)
    BY <2>1, <2>2 DEF TellsNoPeer
  <2>4. S # {} => ~Tracked(c) /\ \A x \in S \ {c} : ~Tracked(x)
    BY <1>2, <1>3
  <2>5. S # {} => \A i \in DOMAIN m : CallSound(network, m[i]) /\ m[i].op # "transfer"
    BY <2>1, <2>2, <2>4, HandOverSound
  <2> QED BY <2>1, <2>3, <2>5 DEF Harmless
<1>5. Unfold(<<>>) \/ (S # {} /\ Unfold(m))
  BY DEF HandOverEach
<1> QED BY <1>1, <1>4, <1>5, NothingStep, AskingStep

-----------------------------------------------------------------------------
(* The theorems *)

LEMMA InitInv == Init => DInv
<1> SUFFICES ASSUME Init PROVE DInv
  OBVIOUS
<1>1. /\ network \in DOMAIN TagsOf /\ deployed = {} /\ owner = <<>> /\ setting = <<>>
      /\ tag = "none" /\ step = 0 /\ calls = <<>> /\ status = "idle" /\ again = FALSE
      /\ clean = TRUE /\ done = {} /\ runs = 0 /\ lost = {} /\ whole = TRUE
      /\ elsewhere = [n \in DOMAIN ADAPTOR_CONFIG_MAP |-> 0]
  BY DEF Init
<1>2. Contracts = {} /\ DOMAIN setting = {}
  BY <1>1, EmptySequence DEF Contracts
<1>3. TypeOK
  <2>1. \A n \in DOMAIN elsewhere : elsewhere[n] \in 0..MaxElsewhere
    BY <1>1, DeploymentAssumption
  <2>2. runs \in 0..MaxRuns[network]
    BY <1>1, DeploymentAssumption
  <2> QED BY <1>1, <1>2, <2>1, <2>2 DEF TypeOK
<1>4. RunInv
  BY <1>1 DEF RunInv
<1>5. RecordsInv
  BY <1>1, <1>2 DEF RecordsInv
<1>6. MadeInv
  <2>1. \A c, key : Value(c, key) = None
    BY <1>2 DEF Value
  <2> QED BY <1>2, <2>1 DEF MadeInv
<1>7. CallsInv
  BY <1>1, EmptySequence DEF CallsInv, Ready
<1>8. PeersInv
  <2>1. TellsRight(calls)
    BY <1>1, EmptySequence DEF TellsRight
  <2> QED BY <1>1, <1>2, <2>1 DEF PeersInv
<1> QED BY <1>3, <1>4, <1>5, <1>6, <1>7, <1>8 DEF DInv

LEMMA StutterStep ==
  ASSUME DInv, UNCHANGED vars
  PROVE  DInv'
<1>1. /\ deployed' = deployed /\ owner' = owner /\ setting' = setting
      /\ network' = network /\ tag' = tag /\ step' = step /\ calls' = calls
      /\ status' = status /\ again' = again /\ clean' = clean /\ done' = done
      /\ runs' = runs
      /\ whole' = whole /\ lost' = lost /\ elsewhere' = elsewhere /\ UNCHANGED <<network, chain>>
  BY DEF vars, chain, run, history
<1>2. /\ RecordsInv' /\ MadeInv' /\ Contracts' = Contracts
      /\ \A w : Made(w)' = Made(w)
  BY <1>1, SameChain DEF DInv
<1>3. CallsInv'
  BY <1>1, <1>2 DEF DInv, CallsInv, Ready
<1>4. TypeOK'
  BY <1>1, <1>2 DEF DInv, TypeOK
<1>5. RunInv'
  BY <1>1 DEF DInv, RunInv
<1>6. PeersInv'
  <2>1. /\ \A w : HasPeer(w)' = HasPeer(w)
        /\ \A call, w : Tells(call, w)' = Tells(call, w)
    BY <1>1 DEF HasPeer, Tells, Value, AdaptorAddress
  <2>2. TellsRight(calls)'
    BY <1>1, <2>1 DEF DInv, PeersInv, TellsRight
  <2>3. \A call : Settled(call, calls)' = Settled(call, calls)
    BY <1>1, <2>1 DEF Settled
  <2> QED BY <1>1, <2>2, <2>3 DEF DInv, PeersInv
<1> QED BY <1>2, <1>3, <1>4, <1>5, <1>6 DEF DInv

LEMMA PerformSteps ==
  ASSUME DInv, Perform
  PROVE  DInv'
<1>1. CASE PerformThrow \/ PerformRequire \/ PerformDeploy \/ SaveProxy \/ PerformSend
           \/ PerformSendUnawaited \/ PerformTransfer \/ ApproveSpending
  <2>1. CASE PerformThrow
    BY <2>1, FailedStep DEF PerformThrow
  <2> QED BY <1>1, <2>1, PerformRequireStep, DeployStep, SaveProxyStep, SendStep,
             SendUnawaitedStep, TransferStep, ApproveSpendingStep
<1>2. CASE LinkPool \/ ReadPrice \/ ListAsset \/ HandOver \/ ConfigureChainlink
           \/ ConfigurePyth \/ UnlessRecorded \/ RequireMasterWombat
  BY <1>2, LinkPoolStep, ReadPriceStep, ListAssetStep, HandOverStep,
     ConfigureChainlinkStep, ConfigurePythStep, UnlessRecordedStep, RequireMasterWombatStep
<1>3. CASE FindAdaptor \/ Connect \/ ApproveToken \/ SetVeWom \/ VoterOfVeWom
           \/ AddBribe \/ VoterOfFactory \/ LinkMasterWombat
  BY <1>3, FindAdaptorStep, ConnectStep, ApproveTokenStep, SetVeWomStep,
     VoterOfVeWomStep, AddBribeStep, VoterOfFactoryStep, LinkMasterWombatStep
<1>4. CASE AddToMasterWombat \/ SetRewarder \/ AddToVoter \/ SetAllocPoint
           \/ FactoryOfVoter \/ HandOverProxies \/ HandOverEach \/ HandOverProxy
  BY <1>4, AddToMasterWombatStep, SetRewarderStep, AddToVoterStep, SetAllocPointStep,
     FactoryOfVoterStep, HandOverProxiesStep, HandOverEachStep, HandOverProxyStep
<1> QED BY <1>1, <1>2, <1>3, <1>4 DEF Perform

LEMMA NextInv ==
  ASSUME DInv, [Next]_vars
  PROVE  DInv'
<1>1. CASE \E t \in TagsOf[network] : Start(t)
  BY <1>1, StartStep
<1>2. CASE Advance
  BY <1>2, AdvanceStep
<1>3. CASE Perform
  BY <1>3, PerformSteps
<1>4. CASE Complete
  BY <1>4, CompleteStep
<1>5. CASE Interrupt
  BY <1>5, StoppedStep DEF Interrupt
<1>6. CASE \E n \in DOMAIN ADAPTOR_CONFIG_MAP \ {network} : DeployElsewhere(n)
  BY <1>6, DeployElsewhereStep
<1>7. CASE \E c \in deployed \cap Replaceable : RemoveRecord(c)
  BY <1>7, RemoveRecordStep
<1>8. CASE \E c \in deployed : c[1] = "Pool" /\ PassOn(c)
  BY <1>8, PassOnStep
<1>9. CASE UNCHANGED vars
  BY <1>9, StutterStep
<1> QED BY <1>1, <1>2, <1>3, <1>4, <1>5, <1>6, <1>7, <1>8, <1>9 DEF Next

LEMMA Invariance == Spec => []DInv
<1>1. DInv /\ [Next]_vars => DInv'
  BY NextInv
<1> QED BY InitInv, <1>1, PTL DEF Spec

\* Contracts have an owner the scripts know, settings and records are of
\* contracts that exist, a run that is over leaves no calls, and the counters stay
\* within their bounds, whatever the scripts do and wherever they stop.
THEOREM TypeCorrect == Spec => []TypeOK
<1>1. DInv => TypeOK
  BY DEF DInv
<1> QED BY <1>1, Invariance, PTL

\* What the Safe owns has no setting left to make.
LEMMA NothingLacks ==
  ASSUME DInv, NEW c, Owner(c) = Safe, NEW key, <<c, key>> \in Wanted(network)
  PROVE  ValueIs(c, key)
<1>1. c \in Contracts /\ owner[c] = Safe
  <2>1. Safe # None
    BY DEF Safe, None
  <2> QED BY <2>1 DEF Owner
<1>2. Safe # Deployer
  BY DEF Safe, Deployer
<1>3. Made(<<c, key>>)
  BY <1>1, <1>2 DEF DInv, MadeInv
<1> QED BY <1>3 DEF Made, ValueIs

LEMMA WantedByAsset ==
  ASSUME NEW n, NEW p \in ToSet(AllPools(n)), NEW a \in ToSet(p.assets),
         NEW key \in AssetSettings(a)
  PROVE  <<Asset(p, a), key>> \in Wanted(n)
<1>1. <<Asset(p, a), key>> \in AssetsWanted(n)
  BY DEF AssetsWanted
<1> QED BY <1>1 DEF Wanted

LEMMA WantedByRewarder ==
  ASSUME NEW n, NEW r \in ToSet(Of(Rewarders, n)), NEW key \in PaymentSettings(r)
  PROVE  <<Rewarder(r.lp), key>> \in Wanted(n)
<1>1. <<Rewarder(r.lp), key>> \in RewardersWanted(n)
  BY DEF RewardersWanted
<1> QED BY <1>1 DEF Wanted

LEMMA WantedByBribe ==
  ASSUME NEW n, NEW r \in ToSet(Of(Bribes, n)), NEW key \in PaymentSettings(r)
  PROVE  <<Bribe(r.lp), key>> \in Wanted(n)
<1>1. <<Bribe(r.lp), key>> \in BribesWanted(n)
  BY DEF BribesWanted
<1> QED BY <1>1 DEF Wanted

LEMMA WantedOfFeed ==
  ASSUME NEW n, NEW t \in ToSet(Of(ChainlinkTokens, n))
  PROVE  <<ChainlinkPriceFeed, <<"feed", t>>>> \in Wanted(n)
<1>1. <<ChainlinkPriceFeed, <<"feed", t>>>> \in FeedsWanted(n)
  BY DEF FeedsWanted
<1> QED BY <1>1 DEF Wanted

LEMMA PaymentLacksNothing ==
  ASSUME DInv, NEW c, Owner(c) = Safe, NEW r,
         \A key \in PaymentSettings(r) : <<c, key>> \in Wanted(network)
  PROVE  PaymentConfigured(c, r)
<1>1. \A key \in PaymentSettings(r) : ValueIs(c, key)
  BY NothingLacks
<1>2. ValueIs(c, <<"operator">>)
  BY <1>1 DEF PaymentSettings
<1>3. \A i \in 1..r.tokens - 1 : ValueIs(c, <<"rewardToken", i>>)
  BY <1>1 DEF PaymentSettings
<1> QED BY <1>2, <1>3 DEF PaymentConfigured

LEMMA LacksNothing ==
  ASSUME DInv
  PROVE  HandedOverLast
<1>1. ASSUME NEW p \in ToSet(AllPools(network)), NEW a \in ToSet(p.assets),
             Owner(Asset(p, a)) = Safe
      PROVE  AssetConfigured(p, a)
  <2>1. \A key \in AssetSettings(a) : ValueIs(Asset(p, a), key)
    BY <1>1, WantedByAsset, NothingLacks
  <2>2. ValueIs(Asset(p, a), <<"pool">>)
    BY <2>1 DEF AssetSettings
  <2>3. Value(Asset(p, a), <<"pool">>) = Pool(p)
    BY <1>1, <2>2 DEF DInv, MadeInv, ValueIs
  <2>4. a.capped => ValueIs(Asset(p, a), <<"maxSupply">>)
    BY <2>1 DEF AssetSettings
  <2>5. a.feed # "none" => ValueIs(Asset(p, a), <<"priceFeed">>)
    BY <2>1 DEF AssetSettings
  <2> QED BY <2>3, <2>4, <2>5 DEF AssetConfigured
<1>2. \A r \in ToSet(Of(Rewarders, network)) :
        Owner(Rewarder(r.lp)) = Safe => PaymentConfigured(Rewarder(r.lp), r)
  BY WantedByRewarder, PaymentLacksNothing
<1>3. \A r \in ToSet(Of(Bribes, network)) :
        Owner(Bribe(r.lp)) = Safe => PaymentConfigured(Bribe(r.lp), r)
  BY WantedByBribe, PaymentLacksNothing
<1>4. Owner(ChainlinkPriceFeed) = Safe =>
        \A t \in ToSet(Of(ChainlinkTokens, network)) :
          ValueIs(ChainlinkPriceFeed, <<"feed", t>>)
  BY WantedOfFeed, NothingLacks
<1> QED BY <1>1, <1>2, <1>3, <1>4 DEF HandedOverLast

\* Wherever the runs are interrupted, whichever tags are run again and whatever
\* records are removed between them: the Safe is given an asset, a rewarder, a
\* bribe or the Chainlink feed only when every setting that its owner alone can
\* make has been made, and an asset belongs to its pool.
THEOREM HandedOver == Spec => []HandedOverLast
<1>1. DInv => HandedOverLast
  BY LacksNothing
<1> QED BY <1>1, Invariance, PTL

-----------------------------------------------------------------------------
(* The peers of a completed setup *)

\* A setup that is about to complete has connected every adaptor with each peer.
LEMMA SetupConnected ==
  ASSUME DInv, Complete, tag = "CrossChainAdaptorSetup", NEW w \in PeersWanted(network)
  PROVE  HasPeer(w)
<1> DEFINE plan == Plan[<<network, tag>>]
<1>1. status = "running" /\ calls = <<>> /\ DOMAIN calls = {} /\ step = Len(plan)
  BY EmptySequence DEF Complete
<1>2. network \in DOMAIN TagsOf /\ tag \in TagsOf[network] /\ network \in Networks
  BY <1>1, DeploymentAssumption DEF DInv, TypeOK, RunInv
<1>3. plan = CallsOf(network, "CrossChainAdaptorSetup")
  BY <1>2, PlanAssumption
<1>4. \A i \in 1..step : Settled(plan[i], calls)
  BY <1>1 DEF DInv, PeersInv
<1>5. IsSequenceOfCalls(plan)
  BY <1>2, PlanSound
<1>6. \/ \E i \in DOMAIN plan : plan[i].op = "throw"
      \/ \E i \in DOMAIN plan : Connects(plan[i], w)
  BY <1>2, <1>3, SetupConnectsAll
<1> HIDE DEF plan
<1>7. DOMAIN plan = 1..step
  BY <1>1, <1>5, SequenceOfCalls
<1>8. \A i \in DOMAIN plan : plan[i].op # "throw" /\ (Connects(plan[i], w) => HasPeer(w))
  BY <1>1, <1>4, <1>7 DEF Settled
<1> QED BY <1>6, <1>8

\* An adaptor is found at an address.
LEMMA Addresses ==
  ASSUME NEW h, h = <<h[1], h[2]>>
  PROVE  AdaptorAddress(h) # None
<1>1. PICK a, b : h = <<a, b>>
  OBVIOUS
<1>2. h \in Seq({a, b}) /\ h # <<>>
  BY <1>1
<1>3. ASSUME NEW e PROVE Append(h, e) # <<>>
  <2>1. h \in Seq({a, b, e})
    BY <1>1
  <2>2. Append(h, e) # <<>>
    BY <2>1, AppendProperties
  <2> QED BY <2>2
<1> QED BY <1>2, <1>3 DEF AdaptorAddress, None

\* What an adaptor is to know depends on the name of its pool only.
LEMMA PeersByName ==
  ASSUME NEW n, NEW p, NEW q, Adaptor(p) = Adaptor(q)
  PROVE  PeersOf(n, p) = PeersOf(n, q)
<1>1. p.name = q.name
  BY DEF Adaptor
<1> QED BY <1>1 DEF PeersOf, OtherAdaptorsInGroup, HasAdaptorType, AdaptorType, Adaptor

\* Wherever earlier runs were interrupted and however often other networks
\* deployed their adaptors anew: a setup of the adaptors that completes leaves
\* those of every pool with the addresses that are recorded now, and no others.
THEOREM PeersAreCurrent == Spec => PeersCurrent
<1> DEFINE Known(p) == {<<k[2][2], setting[k]>> : k \in {k \in DOMAIN setting :
                          k[1] = Adaptor(p) /\ k[2][1] = "peer"}}
<1>1. ASSUME DInv, Complete, tag = "CrossChainAdaptorSetup",
             NEW p \in ToSet(Of(CrossChainPools, network))
      PROVE  Known(p) = Peers(p)
  <2>1. \A w \in PeersWanted(network) : HasPeer(w)
    BY <1>1, SetupConnected
  <2>2. \A w \in PeersOf(network, p) : w \in PeersWanted(network) /\ w[1] = Adaptor(p)
    BY <1>1 DEF PeersOf, PeersWanted
  <2>3. ASSUME NEW w \in PeersWanted(network), w[1] = Adaptor(p)
        PROVE  w \in PeersOf(network, p)
    <3>1. PICK q : w \in PeersOf(network, q)
      BY <2>3 DEF PeersWanted
    <3>2. w[1] = Adaptor(q)
      BY <3>1 DEF PeersOf
    <3> QED BY <2>3, <3>1, <3>2, PeersByName
  <2>4. ASSUME NEW k \in DOMAIN setting, k[1] = Adaptor(p), k[2][1] = "peer"
        PROVE  <<k[2][2], setting[k]>> \in Peers(p)
    <3>1. PICK w \in PeersWanted(network) : k = <<w[1], <<"peer", w[2]>>>>
      BY <1>1, <2>4 DEF DInv, PeersInv
    <3>2. w \in PeersOf(network, p)
      BY <2>3, <2>4, <3>1
    <3>3. setting[k] = AdaptorAddress(w[3])
      <4>1. Value(w[1], <<"peer", w[2]>>) = setting[k]
        BY <2>4, <3>1 DEF Value
      <4> QED BY <2>1, <4>1 DEF HasPeer
    <3> QED BY <3>1, <3>2, <3>3 DEF Peers
  <2>5. ASSUME NEW w \in PeersOf(network, p)
        PROVE  <<w[2], AdaptorAddress(w[3])>> \in Known(p)
    <3> DEFINE k == <<w[1], <<"peer", w[2]>>>>
    <3>1. HasPeer(w) /\ w[1] = Adaptor(p) /\ w \in PeersWanted(network)
      BY <2>1, <2>2
    <3>2. AdaptorAddress(w[3]) # None
      <4>1. network \in Networks
        BY <1>1, DeploymentAssumption DEF DInv, TypeOK
      <4> QED BY <3>1, <4>1, PeersAreDistinct, Addresses
    <3>3. k \in DOMAIN setting /\ setting[k] = AdaptorAddress(w[3])
      BY <3>1, <3>2 DEF HasPeer, Value
    <3>4. k[1] = Adaptor(p) /\ k[2][1] = "peer" /\ k[2][2] = w[2]
      BY <3>1
    <3> QED BY <3>3, <3>4
  <2> QED BY <2>4, <2>5 DEF Peers
<1> HIDE DEF Known
<1>2. DInv /\ Complete /\ tag = "CrossChainAdaptorSetup" =>
        \A p \in ToSet(Of(CrossChainPools, network)) : Known(p) = Peers(p)
  BY <1>1
<1>3. DInv /\ [Next]_vars =>
        [Complete /\ tag = "CrossChainAdaptorSetup" =>
           \A p \in ToSet(Of(CrossChainPools, network)) :
             {<<k[2][2], setting[k]>> : k \in {k \in DOMAIN setting :
                k[1] = Adaptor(p) /\ k[2][1] = "peer"}} = Peers(p)]_vars
  BY <1>2 DEF Known
<1> QED BY <1>3, Invariance, PTL DEF Spec, PeersCurrent
=============================================================================
