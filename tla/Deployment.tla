----------------------------- MODULE Deployment -----------------------------
(***************************************************************************)
(* Running the deploy scripts.  A run performs the calls of a tag one by   *)
(* one.  It reads the records (deployments/<network>/*.json) and the       *)
(* contracts, and the deployer sends transactions.  All but one kind are   *)
(* awaited: that one may be lost and the run goes on.  A run ends, throws, *)
(* or is interrupted anywhere; nothing is rolled back, and the next run    *)
(* starts over from the records.                                           *)
(***************************************************************************)
EXTENDS DeploymentScripts, TLC

CONSTANTS
  TagsOf,        \* the networks, and the tags that are run on each
  MaxRuns,       \* bound: runs of scripts on each network
  Interruptible, \* bound: networks on which runs are interrupted
  Replaceable,   \* bound: assets that are replaced
  MaxElsewhere   \* bound: deployments of an adaptor on another network

ASSUME DeploymentAssumption ==
  /\ DOMAIN TagsOf \subseteq Networks
  /\ \A n \in DOMAIN TagsOf : TagsOf[n] \subseteq Tags
  /\ MaxRuns \in [DOMAIN TagsOf -> Nat]
  /\ \A c \in Replaceable : c = <<"Asset", c[2], c[3]>>
  /\ MaxElsewhere \in Nat

VARIABLES
  network,    \* the network of the runs
  deployed,   \* the records of contracts
  owner,      \* owner[c] for each contract
  setting,    \* setting[<<c, key>>]: the settings made
  tag,        \* the tag being run, or the last one
  step,       \* how many of its calls were begun
  calls,      \* what is left of the last of these
  status,     \* "idle", "running"; after a run, "completed" or "failed"
  again,      \* the run before was of this tag, completed, and nothing happened since
  whole,      \* no run was interrupted, no record removed, no pool passed on
  clean,      \* nor did a run throw
  done,       \* the tags that were completed
  runs,       \* how many runs were begun
  lost,       \* the pools whose adaptor was sent, and never mined
  elsewhere   \* elsewhere[n]: which adaptor the records of n name; 0: none

chain == <<deployed, owner, setting>>
run == <<tag, step, calls, status>>
history == <<again, whole, clean, done, runs, lost>>
vars == <<network, chain, run, history, elsewhere>>

\* Plan[<<n, t>>]: the calls of tag t on network n, unfolded once.
Plan ==
  LET tags == {x \in (DOMAIN TagsOf) \X UNION Range(TagsOf) : x[2] \in TagsOf[x[1]]}
  IN FoldSet(LAMBDA x, plan : (x :> CallsOf(x[1], x[2])) @@ plan, <<>>, tags)

ASSUME PlanAssumption ==
  \A n \in DOMAIN TagsOf : \A t \in TagsOf[n] : Plan[<<n, t>>] = CallsOf(n, t)

\* f, with g where g is defined.
Overwrite(f, g) ==
  [x \in DOMAIN f \cup DOMAIN g |-> IF x \in DOMAIN g THEN g[x] ELSE f[x]]
Make(c, key, value) == setting' = Overwrite(setting, [k \in {<<c, key>>} |-> value])
Own(c, who) == owner' = Overwrite(owner, [x \in {c} |-> who])

Timelock == <<"TimelockController">>
Replaced(c) == <<"replaced", c>>

Value(c, key) == IF <<c, key>> \in DOMAIN setting THEN setting[<<c, key>>] ELSE None
Recorded(c) == c \in deployed
Contracts == DOMAIN owner
DeployerOwns(c) == c \in Contracts /\ owner[c] = Deployer

TheMasterWombat ==
  IF Recorded(BoostedMasterWombat) THEN BoostedMasterWombat ELSE MasterWombatV3
\* Values that are looked up when they are used.
Resolved(v) ==
  CASE v = LatestMasterWombat -> TheMasterWombat
    [] v = RecordedVoter -> IF Recorded(Voter) THEN Voter ELSE None
    [] v = ProxyAdminOwner ->
         IF network \notin ZkSyncNetworks THEN Multisig(network)
         ELSE IF \E c \in deployed : c[1] = "Proxy" THEN Deployer ELSE Missing
    [] OTHER -> v

---------------------------------------------------------------------------
(* Performing calls. *)

Call == Head(calls)
on == Call.on
Performs(op) == status = "running" /\ calls # <<>> /\ Call.op = op

\* The call is done; it unfolds into `more`.
ContinueWith(more) ==
  /\ calls' = more \o Tail(calls)
  /\ UNCHANGED <<network, tag, step, status, history, elsewhere>>
Unfold(more) == ContinueWith(more) /\ UNCHANGED chain

Stopped ==
  /\ status' = "failed"
  /\ clean' = FALSE
  /\ again' = FALSE
  /\ calls' = <<>>
  /\ step' = 0
  /\ UNCHANGED <<network, chain, tag, done, runs, lost, elsewhere>>

Failed == Stopped /\ UNCHANGED whole

Start(t) ==
  /\ status # "running"
  /\ runs < MaxRuns[network]
  /\ status' = "running"
  /\ tag' = t
  /\ again' = (again /\ tag = t)
  /\ runs' = runs + 1
  /\ UNCHANGED <<network, chain, step, calls, whole, clean, done, lost, elsewhere>>

\* The run takes up its next call, or ends.
Advance ==
  /\ status = "running"
  /\ calls = <<>>
  /\ step < Len(Plan[<<network, tag>>])
  /\ step' = step + 1
  /\ calls' = <<Plan[<<network, tag>>][step + 1]>>
  /\ UNCHANGED <<network, chain, tag, status, history, elsewhere>>

Complete ==
  /\ status = "running"
  /\ calls = <<>>
  /\ step = Len(Plan[<<network, tag>>])
  /\ status' = "completed"
  /\ again' = TRUE
  /\ done' = done \cup {tag}
  /\ step' = 0
  /\ UNCHANGED <<network, chain, tag, calls, whole, clean, runs, lost, elsewhere>>

\* The process is interrupted before one of its transactions.
Transactions ==
  {"deploy", "saveProxy", "send", "sendUnawaited", "transfer", "approveSpending"}
Interrupt ==
  /\ network \in Interruptible
  /\ status = "running"
  /\ calls # <<>>
  /\ Call.op \in Transactions
  /\ Stopped
  /\ whole' = FALSE

PerformThrow == Performs("throw") /\ Failed

PerformRequire ==
  /\ Performs("require")
  /\ IF Recorded(on) THEN Unfold(<<>>) ELSE Failed

\* Mutant: a contract that is recorded is deployed again.
PerformDeployAgain ==
  /\ Performs("deploy")
  /\ deployed' = deployed \cup {on.contract}
  /\ Own(on.contract, Deployer)
  /\ UNCHANGED setting
  /\ ContinueWith(on.then)

\* Mutant: a contract that is recorded is handed over too.
PerformDeployHandOver ==
  /\ Performs("deploy")
  /\ LET c == on.contract
     IN IF Recorded(c)
        THEN Unfold(on.otherwise \o SelectSeq(on.then, LAMBDA call :
                                      call.op = "transfer" /\ DeployerOwns(c)))
        ELSE /\ deployed' = deployed \cup {c}
             /\ Own(c, Deployer)
             /\ setting' = Overwrite(setting,
                  [k \in {<<c, s[1]>> : s \in on.init} |-> Configured])
             /\ ContinueWith(on.then)

\* On zkSync the record of the proxy is saved after that of the contract.
PerformDeploy ==
  /\ Performs("deploy")
  /\ LET c == on.contract
         onZkSync == network \in ZkSyncNetworks
     IN IF Recorded(c) THEN Unfold(on.otherwise)
        ELSE /\ deployed' = deployed \cup {c} \cup
                  IF on.proxied /\ ~onZkSync THEN {ProxyRecord(c)} ELSE {}
             /\ Own(c, Deployer)
             /\ setting' = Overwrite(setting, [k \in {<<c, s[1]>> : s \in on.init} |->
                              Resolved((CHOOSE s \in on.init : s[1] = k[2])[2])])
             /\ ContinueWith(When(on.proxied /\ onZkSync, <<Do("saveProxy", c)>>)
                             \o on.then)

SaveProxy ==
  /\ Performs("saveProxy")
  /\ deployed' = deployed \cup {ProxyRecord(on)}
  /\ UNCHANGED <<owner, setting>>
  /\ ContinueWith(<<>>)

PerformSend ==
  /\ Performs("send")
  /\ IF DeployerOwns(on.contract) /\ on.value # Missing
     THEN /\ Make(on.contract, on.key, on.value)
          /\ UNCHANGED <<deployed, owner>>
          /\ ContinueWith(<<>>)
     ELSE Failed

\* It is sent, or the call throws when it is bound to revert.  Whether it is
\* ever mined, the run does not see, nor does any later call depend on it.
PerformSendUnawaited ==
  /\ Performs("sendUnawaited")
  /\ IF DeployerOwns(on.contract)
     THEN /\ \/ Make(on.contract, on.key, on.value) /\ lost' = lost
             \/ UNCHANGED setting /\ lost' = lost \cup {on.contract}
          /\ calls' = Tail(calls)
          /\ UNCHANGED <<network, deployed, owner, tag, step, status,
                         again, whole, clean, done, runs, elsewhere>>
     ELSE Failed

PerformTransfer ==
  /\ Performs("transfer")
  /\ LET to == Resolved(on.to)
     IN IF DeployerOwns(on.contract) /\ to # Missing
        THEN /\ owner' = [owner EXCEPT ![on.contract] = to]
             /\ UNCHANGED <<deployed, setting>>
             /\ ContinueWith(<<>>)
        ELSE Failed

---------------------------------------------------------------------------
(* Calls that look at the contracts before they send anything. *)

LinkPool ==
  /\ Performs("linkPool")
  /\ Unfold(When(Recorded(TheMasterWombat),
                 <<Send(on, <<"masterWombat">>, TheMasterWombat)>>))

\* getRelativePrice: the asset has a feed, and the feed knows the token.
ReadPrice ==
  /\ Performs("readPrice")
  /\ LET known == \/ on.feed = "none"
                  \/ /\ Value(on.asset, <<"priceFeed">>) # None
                     /\ on.feed = "ChainlinkPriceFeed" =>
                          Value(ChainlinkPriceFeed, <<"feed", on.token>>) # None
     IN IF known THEN Unfold(<<>>) ELSE Failed

\* A pool that has an asset for the token gives it up for the new one.
ListAsset ==
  /\ Performs("listAsset")
  /\ LET key == <<"asset", on.token>>
         add == <<Send(on.pool, key, on.asset)>>
     IN IF Value(on.pool, key) = None
        THEN Unfold(When(DeployerOwns(on.pool), add))
        ELSE Unfold(<<Send(on.pool, key, None)>> \o add)

HandOver ==
  /\ Performs("handOver")
  /\ IF owner[on] = Multisig(network) THEN Unfold(<<>>)
     ELSE IF DeployerOwns(on) THEN Unfold(<<TransferOwnership(on, Multisig(network))>>)
     ELSE Failed

\* A feed that is set is taken for wrong when its maximum age is as expected.
ConfigureFeed(feeds, key) ==
  IF Value(feeds, key) = None
  THEN Unfold(When(DeployerOwns(feeds), <<Send(feeds, key, Configured)>>))
  ELSE Failed

ConfigureChainlink ==
  /\ Performs("configureChainlink")
  /\ ConfigureFeed(ChainlinkPriceFeed, <<"feed", on>>)

ConfigurePyth ==
  /\ Performs("configurePyth")
  /\ ConfigureFeed(PythPriceFeed, <<"id", on>>)

UnlessRecorded ==
  /\ Performs("unlessRecorded")
  /\ Unfold(When(~Recorded(on.contract), on.calls))

RequireMasterWombat ==
  /\ Performs("requireMasterWombat")
  /\ IF Recorded(TheMasterWombat) THEN Unfold(<<>>) ELSE Failed

ApproveSpending ==
  /\ Performs("approveSpending")
  /\ LET missing == {s \in on.spends : Value(WombatRouter, <<"spends", on.pool, s>>) = None}
     IN IF missing = {} THEN Unfold(<<>>)
        ELSE IF ~DeployerOwns(WombatRouter) THEN Failed
        ELSE /\ setting' = Overwrite(setting,
                  [k \in {<<WombatRouter, <<"spends", on.pool, s>>>> : s \in on.spends}
                     |-> Configured])
             /\ UNCHANGED <<deployed, owner>>
             /\ ContinueWith(<<>>)

---------------------------------------------------------------------------
(* Adaptors of other chains. *)

AdaptorAddress(home) ==
  IF home[1] = "address" THEN home ELSE Append(home, elsewhere[home[2]])

FindAdaptor ==
  /\ Performs("findAdaptor")
  /\ IF on[1] = "record" => elsewhere[on[2]] # 0 THEN Unfold(<<>>) ELSE Failed

\* Mutant: an address that is set is left alone, whatever it is.
ConnectOnce ==
  /\ Performs("connect")
  /\ Unfold(When(Value(on.adaptor, <<"peer", on.chain>>) = None,
                 <<Send(on.adaptor, <<"peer", on.chain>>, AdaptorAddress(on.home))>>))

\* setAdaptorAddress of a Wormhole adaptor, setTrustedRemoteAddress of a
\* LayerZero adaptor, which expects that there is none.
Connect ==
  /\ Performs("connect")
  /\ LET current == Value(on.adaptor, <<"peer", on.chain>>)
         address == AdaptorAddress(on.home)
     IN CASE current = None ->
               Unfold(<<Send(on.adaptor, <<"peer", on.chain>>, address)>>)
          [] on.type = "WORMHOLE" /\ current = address -> Unfold(<<>>)
          [] OTHER -> Failed

ApproveToken ==
  /\ Performs("approveToken")
  /\ LET key == <<"token", on.chain, on.token>>
     IN Unfold(When(Value(on.adaptor, key) = None,
                    <<Send(on.adaptor, key, Configured)>>))

---------------------------------------------------------------------------
(* Governance. *)

SetVeWom ==
  /\ Performs("setVeWom")
  /\ Unfold(When(DeployerOwns(TheMasterWombat),
                 <<Send(TheMasterWombat, <<"veWom">>, VeWom)>>))

\* Without a Voter the VeWom is paused, which reverts when it is already.
VoterOfVeWom ==
  /\ Performs("voterOfVeWom")
  /\ IF Recorded(Voter)
     THEN Unfold(When(Value(VeWom, <<"voter">>) # Voter, <<Send(VeWom, <<"voter">>, Voter)>>))
     ELSE IF Value(VeWom, <<"paused">>) = None
     THEN Unfold(<<Send(VeWom, <<"paused">>, Configured)>>)
     ELSE Failed

Gauge(manager, bribe) == <<"gauge", manager, bribe>>

\* Voter.add, or setBribe where the LP token was added before.
AddBribe ==
  /\ Performs("addBribe")
  /\ LET key == <<"gauge", on>>
         old == Value(Voter, key)
         manager == IF old = None THEN TheMasterWombat ELSE old[2]
     IN IF ~DeployerOwns(Voter) THEN Unfold(<<>>)
        ELSE IF ~Recorded(TheMasterWombat) THEN Failed
        ELSE Unfold(<<Send(Voter, key, Gauge(manager, Bribe(on)))>>)

VoterOfFactory ==
  /\ Performs("voterOfFactory")
  /\ Unfold(When(/\ Recorded(Voter)
                 /\ Value(BribeRewarderFactory, <<"voter">>) # Voter
                 /\ DeployerOwns(BribeRewarderFactory),
                 <<Send(BribeRewarderFactory, <<"voter">>, Voter)>>))

\* The address is compared with a record, never equal: it is always sent.
LinkMasterWombat ==
  /\ Performs("linkMasterWombat")
  /\ Unfold(When(/\ Recorded(on[2])
                 /\ on[2] = BribeRewarderFactory => TheMasterWombat = BoostedMasterWombat,
                 <<Send(TheMasterWombat, on[1], on[2])>>))

AddToMasterWombat ==
  /\ Performs("addToMasterWombat")
  /\ Unfold(When(Value(TheMasterWombat, <<"lp", on>>) = None,
                 <<Send(TheMasterWombat, <<"lp", on>>, Configured)>>))

SetRewarder ==
  /\ Performs("setRewarder")
  /\ IF ~DeployerOwns(TheMasterWombat) THEN Unfold(<<>>)
     ELSE IF Value(TheMasterWombat, <<"lp", on>>) = None THEN Failed
     ELSE Unfold(<<Send(TheMasterWombat, <<"rewarder", on>>, Rewarder(on))>>)

\* "already added" is not an error; that the deployer is not the owner is.
AddToVoter ==
  /\ Performs("addToVoter")
  /\ LET key == <<"gauge", on>>
     IN IF ~DeployerOwns(Voter) THEN Failed
        ELSE Unfold(When(Value(Voter, key) = None,
                         <<Send(Voter, key, Gauge(TheMasterWombat, None))>>))

SetAllocPoint ==
  /\ Performs("setAllocPoint")
  /\ Unfold(When(DeployerOwns(Voter) /\ Value(Voter, <<"gauge", on>>) # None,
                 <<Send(Voter, <<"allocPoint", on>>, Configured)>>))

FactoryOfVoter ==
  /\ Performs("factoryOfVoter")
  /\ Unfold(When(/\ Recorded(BribeRewarderFactory)
                 /\ Value(Voter, <<"bribeFactory">>) # BribeRewarderFactory,
                 <<Send(Voter, <<"bribeFactory">>, BribeRewarderFactory)>>))

\* deployments.all() lists the records under the name of the network, which
\* those of a local network do not have.
HandOverProxies ==
  /\ Performs("handOverProxies")
  /\ Unfold(When(network \notin LocalNetworks,
       <<Do("handOverEach", {c \in deployed : ProxyRecord(c) \in deployed})>>))

\* The loop over these names.
HandOverEach ==
  /\ Performs("handOverEach")
  /\ IF on = {} THEN Unfold(<<>>)
     ELSE LET c == CHOOSE c \in on : TRUE
          IN Unfold(<<Do("handOverProxy", c), Do("handOverEach", on \ {c})>>)

HandOverProxy ==
  /\ Performs("handOverProxy")
  /\ IF owner[on] = Multisig(network) THEN Unfold(<<>>)
     ELSE IF DeployerOwns(on) THEN Unfold(<<TransferOwnership(on, Multisig(network))>>)
     ELSE Failed

---------------------------------------------------------------------------
(* Between runs. *)

Between(what) ==
  /\ status # "running"
  /\ again' = FALSE
  /\ what
  /\ UNCHANGED <<network, run, done, runs, lost>>

\* The adaptor of another network is deployed, or deployed anew.
DeployElsewhere(n) ==
  /\ status # "running"
  /\ "CrossChainAdaptorSetup" \in TagsOf[network]
  /\ elsewhere[n] < MaxElsewhere
  /\ \E p \in ToSet(Of(CrossChainPools, network)) : n \in OtherAdaptorsInGroup(network, p)
  /\ Between(/\ elsewhere' = [elsewhere EXCEPT ![n] = @ + 1]
             /\ UNCHANGED <<chain, whole, clean>>)

\* The record of an asset is removed, for the asset to be replaced: contracts
\* that refer to it now refer to one that has no name.
IsAbout(key, c) ==
  /\ key[1] \in {"lp", "rewarder", "gauge", "allocPoint", "spends"}
  /\ Last(key) = c
RemoveRecord(c) ==
  /\ clean
  /\ Between(/\ deployed' = deployed \ {c}
             /\ owner' = [x \in DOMAIN owner \ {c} |-> owner[x]]
             /\ setting' = [k \in {k \in DOMAIN setting : k[1] # c /\ ~IsAbout(k[2], c)} |->
                              IF setting[k] = c THEN Replaced(c) ELSE setting[k]]
             /\ whole' = FALSE
             /\ clean' = FALSE
             /\ UNCHANGED elsewhere)

\* The Safe passes a pool on to the timelock (bound: it does so once).
PassOn(c) ==
  /\ owner[c] = Safe
  /\ \A other \in DOMAIN owner : owner[other] # Timelock
  /\ Between(/\ owner' = [owner EXCEPT ![c] = Timelock]
             /\ whole' = FALSE
             /\ clean' = FALSE
             /\ UNCHANGED <<deployed, setting, elsewhere>>)

Init ==
  /\ network \in DOMAIN TagsOf
  /\ deployed = {}
  /\ owner = <<>>
  /\ setting = <<>>
  /\ tag = "none"
  /\ step = 0
  /\ calls = <<>>
  /\ status = "idle"
  /\ again = FALSE
  /\ whole = TRUE /\ clean = TRUE
  /\ done = {}
  /\ runs = 0
  /\ lost = {}
  /\ elsewhere = [n \in DOMAIN ADAPTOR_CONFIG_MAP |-> 0]

Perform ==
  \/ PerformThrow \/ PerformRequire \/ PerformDeploy \/ SaveProxy \/ PerformSend
  \/ PerformSendUnawaited \/ PerformTransfer \/ LinkPool \/ ReadPrice \/ ListAsset \/ HandOver
  \/ ConfigureChainlink \/ ConfigurePyth \/ UnlessRecorded \/ RequireMasterWombat
  \/ ApproveSpending \/ FindAdaptor \/ Connect \/ ApproveToken \/ SetVeWom
  \/ VoterOfVeWom \/ AddBribe \/ VoterOfFactory \/ LinkMasterWombat
  \/ AddToMasterWombat \/ SetRewarder \/ AddToVoter \/ SetAllocPoint
  \/ FactoryOfVoter \/ HandOverProxies \/ HandOverEach \/ HandOverProxy

Next ==
  \/ \E t \in TagsOf[network] : Start(t)
  \/ Advance
  \/ Perform
  \/ Complete
  \/ Interrupt
  \/ \E n \in DOMAIN ADAPTOR_CONFIG_MAP \ {network} : DeployElsewhere(n)
  \/ \E c \in deployed \cap Replaceable : RemoveRecord(c)
  \/ \E c \in deployed : c[1] = "Pool" /\ PassOn(c)

Spec == Init /\ [][Next]_vars /\ WF_vars(Advance \/ Perform \/ Complete)
---------------------------------------------------------------------------
(* Properties. *)

Owner(c) == IF c \in Contracts THEN owner[c] ELSE None
ValueIs(c, key) == Value(c, key) # None

TypeOK ==
  /\ network \in DOMAIN TagsOf
  /\ \A c \in Contracts : owner[c] \in {Deployer, Safe, Timelock}
  /\ \A k \in DOMAIN setting : k[1] \in Contracts
  /\ \A c \in deployed : c[1] = "Proxy" \/ c \in Contracts
  /\ tag \in TagsOf[network] \cup {"none"}
  /\ status \in {"idle", "running", "completed", "failed"}
  /\ status # "running" => step = 0 /\ calls = <<>>
  /\ again \in BOOLEAN /\ whole \in BOOLEAN /\ clean \in BOOLEAN
  /\ done \subseteq TagsOf[network]
  /\ runs \in 0..MaxRuns[network]
  /\ \A c \in lost : \E p \in ToSet(Of(CrossChainPools, network)) : c = Pool(p)
  /\ \A n \in DOMAIN elsewhere : elsewhere[n] \in 0..MaxElsewhere

AssetConfigured(p, a) ==
  /\ Value(Asset(p, a), <<"pool">>) = Pool(p)
  /\ a.capped => ValueIs(Asset(p, a), <<"maxSupply">>)
  /\ a.feed # "none" => ValueIs(Asset(p, a), <<"priceFeed">>)

PaymentConfigured(c, r) ==
  /\ ValueIs(c, <<"operator">>)
  /\ \A i \in 1..r.tokens - 1 : ValueIs(c, <<"rewardToken", i>>)

\* Whatever interrupts the runs, the Safe is given an asset, a rewarder, a
\* bribe or the Chainlink feed only when nothing is left that only the owner
\* can set: the scripts never come back to a contract that is recorded.
HandedOverLast ==
  /\ \A p \in ToSet(AllPools(network)) : \A a \in ToSet(p.assets) :
       Owner(Asset(p, a)) = Safe => AssetConfigured(p, a)
  /\ \A r \in ToSet(Of(Rewarders, network)) :
       Owner(Rewarder(r.lp)) = Safe => PaymentConfigured(Rewarder(r.lp), r)
  /\ \A r \in ToSet(Of(Bribes, network)) :
       Owner(Bribe(r.lp)) = Safe => PaymentConfigured(Bribe(r.lp), r)
  /\ Owner(ChainlinkPriceFeed) = Safe =>
       \A t \in ToSet(Of(ChainlinkTokens, network)) :
         ValueIs(ChainlinkPriceFeed, <<"feed", t>>)

CrossChain(p) == p \in ToSet(Of(CrossChainPools, network))
PoolSettings(p) ==
  {"dev", "fee", "feeTo", "mintFeeThreshold"}
  \cup ToSet(IF CrossChain(p) THEN ConfigureCrossChainPool ELSE CovRatioFee)
PoolConfigured(p) ==
  /\ \A s \in PoolSettings(p) : ValueIs(Pool(p), <<s>>)
  /\ \A a \in ToSet(p.assets) :
       /\ Value(Pool(p), <<"asset", a.symbol>>) = Asset(p, a)
       /\ AssetConfigured(p, a)

PoolsOf(t) ==
  CASE t = "FirstClass" -> Of(FactoryPools, network) \o Of(CrossChainPools, network)
    [] t = "HighCovRatioFeePoolAssets" -> Of(FactoryPools, network)
    [] t = "DynamicPoolAssets" -> Of(DynamicPools, network)
    [] t = "VolatilePoolAssets" -> Of(VolatilePools, network)
    [] t = "CrossChainPoolAssets" -> Of(CrossChainPools, network)
    [] OTHER -> <<>>

\* The contracts of FirstClass refer to one another, and to no older ones, but
\* for a pool whose adaptor was sent and never mined.  A pool that another tag
\* created before there was a MasterWombat has none.
Connected ==
  /\ Value(BoostedMasterWombat, <<"veWom">>) = VeWom
  /\ Value(VeWom, <<"masterWombat">>) = BoostedMasterWombat
  /\ Value(VeWom, <<"whitelist">>) = Whitelist
  /\ Value(BoostedMasterWombat, <<"bribeRewarderFactory">>) = BribeRewarderFactory
  /\ Value(BribeRewarderFactory, <<"masterWombat">>) = BoostedMasterWombat
  /\ \A p \in ToSet(PoolsOf("FirstClass")) :
       /\ done = {"FirstClass"} =>
            Value(Pool(p), <<"masterWombat">>) = BoostedMasterWombat
       /\ CrossChain(p) =>
            /\ \/ Value(Pool(p), <<"adaptor">>) = Adaptor(p)
               \/ Pool(p) \in lost
            /\ Value(Adaptor(p), <<"crossChainPool">>) = Pool(p)
       /\ \A a \in ToSet(p.assets) :
            /\ ValueIs(BoostedMasterWombat, <<"lp", Asset(p, a)>>)
            /\ ValueIs(WombatRouter, <<"spends", Pool(p), <<"token", a.symbol>>>>)

\* While no run is interrupted, a completed tag leaves its pools and assets
\* configured and handed over, in whatever order tags are run, and although some
\* throw: no order makes a run find a pool that another left half configured.
\* While no run throws either, FirstClass leaves the contracts connected.  (062
\* run before 061 makes 061 throw, and leaves a pool that has no adaptor.)
CleanRunsComplete ==
  status # "running" =>
    /\ whole => \A t \in done : \A p \in ToSet(PoolsOf(t)) :
         /\ PoolConfigured(p)
         /\ Owner(Pool(p)) = Multisig(network)
         /\ \A a \in ToSet(p.assets) : Owner(Asset(p, a)) = Multisig(network)
    /\ clean /\ "FirstClass" \in done => Connected

\* Completing the setup of the adaptors leaves them with the addresses that the
\* records of the other networks name now, and with none outside the group.
Peers(p) == {<<w[2], AdaptorAddress(w[3])>> : w \in PeersOf(network, p)}
PeersCurrent ==
  [][Complete /\ tag = "CrossChainAdaptorSetup" =>
       \A p \in ToSet(Of(CrossChainPools, network)) :
         {<<k[2][2], setting[k]>> : k \in {k \in DOMAIN setting :
            k[1] = Adaptor(p) /\ k[2][1] = "peer"}} = Peers(p)]_vars

\* Running a tag again right after it completed changes nothing on the chain.
RerunIsNoOp == [][again /\ status = "running" => UNCHANGED chain]_vars
=============================================================================
