------------------------- MODULE DeploymentScripts -------------------------
(***************************************************************************)
(* The deploy scripts of src/deploy: what each of them asks for on a       *)
(* network, in order.  A script is a sequence of calls.  A call is         *)
(* performed by module Deployment when its turn comes, from the records    *)
(* and the contracts it finds then; a call may unfold into more calls.     *)
(* A contract is named by a tuple: what it is and, where there are         *)
(* several, which.  Configured is the value the tables give a setting.     *)
(***************************************************************************)
EXTENDS DeploymentConfig

None == <<>>
Configured == <<"configured">>
LatestMasterWombat == <<"latest master wombat">>  \* resolved when used
RecordedVoter == <<"recorded voter">>             \* likewise
ProxyAdminOwner == <<"owner of the ProxyAdmin">>  \* likewise

Deployer == <<"deployer">>
Safe == <<"Gnosis Safe">>
Missing == <<"no such named account">>

LocalNetworks == {"hardhat", "localhost"}
TestNetworks == LocalNetworks \cup {"avax_testnet", "polygon_testnet",
  "scroll_testnet", "zksync_testnet", "skale_testnet", "bsc_testnet"}
ZkSyncNetworks == {"zksync_testnet", "zksync_mainnet"}

\* The named account multisig, which is the deployer itself on some networks
\* and does not exist on others.
Multisig(n) ==
  IF n \in ZkSyncNetworks THEN Missing
  ELSE IF n \in {"scroll_mainnet", "gnosis_mainnet", "polygon_zkevm_mainnet"}
               \cup TestNetworks THEN Deployer
  ELSE Safe

CoreV3 == <<"CoreV3">>
ChainlinkPriceFeed == <<"ChainlinkPriceFeed">>
PythPriceFeed == <<"PythPriceFeed">>
BoostedMasterWombat == <<"BoostedMasterWombat">>
MasterWombatV3 == <<"MasterWombatV3">>
VeWom == <<"VeWom">>
Voter == <<"Voter">>
Whitelist == <<"Whitelist">>
BribeRewarderFactory == <<"BribeRewarderFactory">>
WombatRouter == <<"WombatRouter">>
Implementation(c) == <<"Implementation", c>>
Beacon(c) == <<"Beacon", c>>
ProxyRecord(c) == <<"Proxy", c>>
TokenRecord(t) == IF t = "WOM" THEN <<"WombatToken">> ELSE <<"TestERC20", t>>

Pool(p) == <<"Pool", p.prefix, p.name>>
Asset(p, a) == AssetName(p, a)
GovernedPriceFeed(asset) == <<"PriceFeed", asset>>
Rewarder(lp) == <<"MultiRewarderPerSec_V3", lp>>
Bribe(lp) == <<"Bribe", lp>>
Adaptor(p) == <<"Adaptor", p.name>>

---------------------------------------------------------------------------
(* Calls. *)

Do(op, on) == [op |-> op, on |-> on]
Require(record) == Do("require", record)     \* deployments.get
Throw == Do("throw", None)
\* A transaction the deployer sends; only the owner of the contract may.
Send(contract, key, value) ==
  Do("send", [contract |-> contract, key |-> key, value |-> value])
\* One whose receipt the script does not wait for.
SendUnawaited(contract, key, value) ==
  Do("sendUnawaited", [contract |-> contract, key |-> key, value |-> value])
TransferOwnership(contract, to) == Do("transfer", [contract |-> contract, to |-> to])

\* deploy with skipIfAlreadyDeployed: `then` follows a new deployment, whose
\* initializer or constructor makes the settings `init`.
Create(contract, proxied, init, then, otherwise) ==
  Do("deploy", [contract |-> contract, proxied |-> proxied, init |-> init,
                then |-> then, otherwise |-> otherwise])
Deploy(contract, init, then) == Create(contract, FALSE, init, then, <<>>)
DeployProxy(contract, init, then) == Create(contract, TRUE, init, then, <<>>)

ForEach(seq, F(_)) == [i \in DOMAIN seq |-> F(seq[i])]
ForEachFlat(seq, F(_)) == FlattenSeq(ForEach(seq, F))
InSomeOrder(S) == FoldSet(LAMBDA x, seq : Append(seq, x), <<>>, S)
When(condition, calls) == IF condition THEN calls ELSE <<>>

\* getTokenAddress: a token is found by its record, or at an address; some
\* tokens of bsc_testnet have neither.
Resolve(n, token) ==
  When(token \in SetOf(FromRecord, n), <<Require(TokenRecord(token))>>)
  \o When(token \in SetOf(Unregistered, n), <<Throw>>)

---------------------------------------------------------------------------
(* utils/deploy.ts *)

DeployBasePool(n, p, setup) ==
  <<DeployProxy(Pool(p), {},
      <<Do("linkPool", Pool(p)),
        Send(Pool(p), <<"dev">>, Multisig(n)),
        Send(Pool(p), <<"fee">>, Configured),
        Send(Pool(p), <<"feeTo">>, Multisig(n)),
        Send(Pool(p), <<"mintFeeThreshold">>, Configured)>>
      \o ForEach(setup, LAMBDA s : Send(Pool(p), <<s>>, Configured)))>>

\* A new governed feed is handed over, then given to the asset, old or new; a
\* shared feed is given to new assets only.
DeployPriceFeed(n, asset, feed, assetIsNew) ==
  CASE feed = "none" -> <<>>
    [] feed = "GovernedPriceFeed" ->
         LET c == GovernedPriceFeed(asset)
         IN <<Deploy(c, {}, <<TransferOwnership(c, Multisig(n)),
                              Send(asset, <<"priceFeed">>, c)>>)>>
    [] OTHER ->
         <<Require(<<feed>>)>>
         \o When(assetIsNew, <<Send(asset, <<"priceFeed">>, <<feed>>)>>)

DeployAssetV2(n, p, a) ==
  LET asset == Asset(p, a)
      configure ==
        When(a.priced, <<Do("readPrice", [asset |-> asset, feed |-> a.feed,
                                          token |-> a.symbol])>>)
        \o <<Do("listAsset", [pool |-> Pool(p), asset |-> asset, token |-> a.symbol]),
             Send(asset, <<"pool">>, Pool(p))>>
        \o When(a.capped, <<Send(asset, <<"maxSupply">>, Configured)>>)
        \o <<TransferOwnership(asset, Multisig(n))>>
  IN Resolve(n, a.symbol)
     \o <<Create(asset, FALSE, {},
                 DeployPriceFeed(n, asset, a.feed, TRUE) \o configure,
                 DeployPriceFeed(n, asset, a.feed, FALSE))>>

DeployRewarderOrBribe(n, contract, master, payment, then) ==
  When(payment.lp[1] = "Asset", <<Require(payment.lp)>>)
  \o <<Deploy(contract, {<<<<"master">>, master>>, <<<<"lpToken">>, payment.lp>>},
         [i \in 1..payment.tokens - 1 |->
            Send(contract, <<"rewardToken", i>>, Configured)]
         \o <<Send(contract, <<"operator">>, Configured),
              TransferOwnership(contract, Multisig(n))>>
         \o then)>>

DeployUpgradeableBeacon(c) ==
  <<Deploy(Implementation(c), {}, <<>>),
    Deploy(Beacon(c), {}, <<TransferOwnership(Beacon(c), ProxyAdminOwner)>>)>>

---------------------------------------------------------------------------
(* The scripts, in the order of their files. *)

MockTokenCalls(n) ==
  When(n \in TestNetworks,
       ForEach(Of(MockTokens, n), LAMBDA t : Deploy(TokenRecord(t), {}, <<>>)))

WombatTokenCalls(n) ==
  When("WOM" \in SetOf(FromRecord, n), <<Deploy(TokenRecord("WOM"), {}, <<>>)>>)

\* Not skipped when deployed, but the same code is not deployed again.
CoreV3Calls(n) == <<Deploy(CoreV3, {}, <<>>)>>

\* The feeds are set, then a new contract is handed over.
ChainlinkPriceFeedCalls(n) ==
  When(n \notin LocalNetworks,
    IF n \notin ChainlinkAgeBound THEN <<Throw>>
    ELSE LET feeds == ForEachFlat(Of(ChainlinkTokens, n), LAMBDA t :
                        Resolve(n, t) \o <<Do("configureChainlink", t)>>)
         IN <<Create(ChainlinkPriceFeed, FALSE, {},
                feeds \o <<TransferOwnership(ChainlinkPriceFeed, Multisig(n))>>,
                feeds)>>)

\* A new contract is handed over, then the ids are set.
PythPriceFeedCalls(n) ==
  When(n \notin LocalNetworks,
    IF n \notin PythAgeBound THEN <<Throw>>
    ELSE <<Deploy(PythPriceFeed, {}, <<TransferOwnership(PythPriceFeed, Multisig(n))>>)>>
         \o ForEachFlat(Of(PythTokens, n), LAMBDA t :
              Resolve(n, t) \o <<Do("configurePyth", t)>>))

BoostedMasterWombatCalls(n) ==
  Resolve(n, "WOM") \o <<DeployProxy(BoostedMasterWombat, {}, <<>>)>>

\* Skipped once a BoostedMasterWombat is recorded.
MasterWombatV3Calls(n) ==
  <<Do("unlessRecorded", [contract |-> BoostedMasterWombat,
      calls |-> Resolve(n, "WOM") \o <<DeployProxy(MasterWombatV3, {}, <<>>)>>])>>

CovRatioFee == <<"covRatioFeeParam">>

\* Mutant: the pool is handed over before it has its assets.
PoolAssetCallsHandOverFirst(n, pools) ==
  ForEachFlat(pools, LAMBDA p :
    <<Require(Pool(p)), Do("handOver", Pool(p))>>
    \o ForEachFlat(p.assets, LAMBDA a : DeployAssetV2(n, p, a)))

\* The assets of each pool, then "finally" the ownership of the pool.
PoolAssetCalls(n, pools) ==
  ForEachFlat(pools, LAMBDA p :
    <<Require(Pool(p))>>
    \o ForEachFlat(p.assets, LAMBDA a : DeployAssetV2(n, p, a))
    \o <<Do("handOver", Pool(p))>>)

HighCovRatioFeePoolCalls(n) ==
  ForEachFlat(Of(FactoryPools, n), LAMBDA p : DeployBasePool(n, p, CovRatioFee))
HighCovRatioFeePoolAssetsCalls(n) == PoolAssetCalls(n, Of(FactoryPools, n))

DynamicPoolCalls(n) ==
  ForEachFlat(Of(DynamicPools, n), LAMBDA p : DeployBasePool(n, p, CovRatioFee))
DynamicPoolAssetsCalls(n) == PoolAssetCalls(n, Of(DynamicPools, n))

VolatilePoolCalls(n) ==
  <<Require(CoreV3)>>
  \o ForEachFlat(Of(VolatilePools, n), LAMBDA p : DeployBasePool(n, p, CovRatioFee))
VolatilePoolAssetsCalls(n) == PoolAssetCalls(n, Of(VolatilePools, n))

MockLayerZeroCalls(n) ==
  When(n \in LocalNetworks, <<Deploy(<<"LZEndpointMock">>, {}, <<>>)>>)
MockWormholeCalls(n) ==
  When(n \in LocalNetworks, <<Deploy(<<"MockWormhole">>, {}, <<>>),
                              Deploy(<<"MockRelayer">>, {}, <<>>)>>)

ConfigureCrossChainPool ==
  <<"maximumInboundCredit", "maximumOutboundCredit", "crossChainHaircut",
    "swapTokensForCreditEnabled", "swapCreditForTokensEnabled">>
CrossChainPoolCalls(n) ==
  <<Require(CoreV3)>>
  \o ForEachFlat(Of(CrossChainPools, n),
       LAMBDA p : DeployBasePool(n, p, ConfigureCrossChainPool))
CrossChainPoolAssetsCalls(n) == PoolAssetCalls(n, Of(CrossChainPools, n))

\* The type of the pool's adaptor is known for the network.
HasAdaptorType(n, p) ==
  n \in DOMAIN ADAPTOR_CONFIG_MAP /\ p.name \in DOMAIN ADAPTOR_CONFIG_MAP[n]
AdaptorType(n, p) == ADAPTOR_CONFIG_MAP[n][p.name].type

CrossChainAdaptorCalls(n) ==
  ForEachFlat(Of(CrossChainPools, n), LAMBDA p :
    IF ~HasAdaptorType(n, p) THEN <<Throw>>
    ELSE <<Require(Pool(p))>>
         \o When(n \notin DOMAIN ChainIds(AdaptorType(n, p)), <<Throw>>)
         \o When(n \in LocalNetworks,
              IF AdaptorType(n, p) = "WORMHOLE"
              THEN <<Require(<<"MockRelayer">>), Require(<<"MockWormhole">>)>>
              ELSE <<Require(<<"LZEndpointMock">>)>>)
         \o <<DeployProxy(Adaptor(p), {<<<<"crossChainPool">>, Pool(p)>>},
                          <<SendUnawaited(Pool(p), <<"adaptor">>, Adaptor(p))>>)>>)

\* The other networks of the group that have an adaptor for the pool.
OtherAdaptorsInGroup(n, p) ==
  {m \in DOMAIN ADAPTOR_CONFIG_MAP \ {n} : HasAdaptorType(m, p) /\ SameGroup(m, n)}

LoopAdaptorInGroup(n, p) ==
  ForEachFlat(InSomeOrder(OtherAdaptorsInGroup(n, p)), LAMBDA m :
    LET other == ADAPTOR_CONFIG_MAP[m][p.name]
        on(token) == [adaptor |-> Adaptor(p), type |-> AdaptorType(n, p), token |-> token,
                      chain |-> ChainIds(other.type)[m], home |-> other.home]
    IN <<Do("findAdaptor", other.home)>>
       \o When(m \in DOMAIN ChainIds(other.type),
            <<Do("connect", on(None))>>
            \o ForEach(other.tokens, LAMBDA t : Do("approveToken", on(<<m, t>>)))))

CrossChainAdaptorSetupCalls(n) ==
  ForEachFlat(Of(CrossChainPools, n), LAMBDA p :
    IF ~HasAdaptorType(n, p) THEN <<Throw>>
    ELSE <<Require(Adaptor(p))>> \o LoopAdaptorInGroup(n, p))

VeWomCalls(n) ==
  Resolve(n, "WOM")
  \o <<Do("requireMasterWombat", None),
       DeployProxy(VeWom, {<<<<"masterWombat">>, LatestMasterWombat>>},
                   <<Do("setVeWom", None)>>)>>

\* Without the skip the same code is still not deployed again.
VeWomImplementationCalls(n) == <<Deploy(Implementation(VeWom), {}, <<>>)>>
BoostedMasterWombatImplementationCalls(n) ==
  <<Deploy(Implementation(BoostedMasterWombat), {}, <<>>)>>

\* Pools that support native tokens may spend the LP tokens too.
ApproveForPools(n, pools) ==
  ForEachFlat(pools, LAMBDA p :
    ForEachFlat(p.assets, LAMBDA a :
      Resolve(n, a.symbol) \o When(p.native, <<Require(Asset(p, a))>>))
    \o <<Require(Pool(p))>>
    \o When(Pool(p) # <<"Pool", "FactoryPools", "StandalonePool">>,
         IF p.assets = <<>> THEN <<Throw>>
         ELSE <<Do("approveSpending", [pool |-> Pool(p), spends |->
                  {<<"token", a.symbol>> : a \in ToSet(p.assets)} \cup
                  {Asset(p, a) : a \in {b \in ToSet(p.assets) : p.native}}])>>))

WombatRouterCalls(n) ==
  Resolve(n, WRAPPED_NATIVE_TOKENS_MAP[n])
  \o <<Deploy(WombatRouter, {}, <<>>)>>
  \o ApproveForPools(n, Of(FactoryPools, n))
  \o ApproveForPools(n, Of(DynamicPools, n))
  \o ApproveForPools(n, Of(CrossChainPools, n))

\* Whether a payment is of the contracts of the factory is not asked.
MultiRewarderCalls(n) ==
  <<Do("requireMasterWombat", None)>>
  \o ForEachFlat(Of(Rewarders, n), LAMBDA r :
       DeployRewarderOrBribe(n, Rewarder(r.lp), LatestMasterWombat, r, <<>>))

\* The networks with arguments for Voter.
VOTER_ARGS == {"hardhat", "skale_testnet", "scroll_testnet", "eth_mainnet"}

VoterCalls(n) ==
  IF n \notin VOTER_ARGS THEN <<Throw>>
  ELSE Resolve(n, "WOM") \o <<Require(VeWom), DeployProxy(Voter, {}, <<>>)>>
VoterImplementationCalls(n) == <<Deploy(Implementation(Voter), {}, <<>>)>>

VeWomSetupCalls(n) ==
  <<Require(VeWom), Do("voterOfVeWom", None),
    Deploy(Whitelist, {}, <<Send(VeWom, <<"whitelist">>, Whitelist)>>)>>

BribeCalls(n) ==
  <<Require(Voter)>>
  \o ForEachFlat(Of(Bribes, n), LAMBDA r :
       DeployRewarderOrBribe(n, Bribe(r.lp), Voter, r, <<Do("addBribe", r.lp)>>))

BribeRewarderBeaconCalls(n) ==
  DeployUpgradeableBeacon(<<"BoostedMultiRewarder">>)
  \o DeployUpgradeableBeacon(<<"BribeV2">>)

BribeRewarderFactoryCalls(n) ==
  <<Do("requireMasterWombat", None), Require(Beacon(<<"BoostedMultiRewarder">>)),
    Require(Beacon(<<"BribeV2">>)),
    DeployProxy(BribeRewarderFactory,
      {<<<<"masterWombat">>, LatestMasterWombat>>, <<<<"voter">>, RecordedVoter>>}, <<>>),
    Do("voterOfFactory", None)>>

\* The assets that earn WOM: volatile pools are not among them.
EarningAssets(n) ==
  ForEachFlat(Of(DynamicPools, n) \o Of(FactoryPools, n) \o Of(CrossChainPools, n),
              LAMBDA p : ForEach(p.assets, LAMBDA a : Asset(p, a)))

BoostedMasterWombatSetupCalls(n) ==
  <<Do("requireMasterWombat", None)>>
  \o ForEach(<<<<<<"veWom">>, VeWom>>, <<<<"voter">>, Voter>>,
               <<<<"bribeRewarderFactory">>, BribeRewarderFactory>>>>,
             LAMBDA l : Do("linkMasterWombat", l))
  \o ForEachFlat(EarningAssets(n), LAMBDA asset :
       <<Require(asset), Do("addToMasterWombat", asset)>>)

MultiRewarderSetupCalls(n) ==
  <<Do("requireMasterWombat", None)>>
  \o ForEachFlat(Of(Rewarders, n), LAMBDA r :
       When(r.lp[1] = "Asset", <<Require(r.lp)>>)
       \o <<Require(Rewarder(r.lp)), Do("setRewarder", r.lp)>>)

VoterSetupCalls(n) ==
  <<Require(Voter), Do("requireMasterWombat", None)>>
  \o ForEachFlat(EarningAssets(n), LAMBDA asset :
       <<Require(asset), Do("addToVoter", asset), Do("setAllocPoint", asset)>>)
  \o <<Do("factoryOfVoter", None)>>

\* Every proxy with a record under the name of the network, then Whitelist.
TransferOwnershipCalls(n) ==
  <<Do("handOverProxies", None), Require(Whitelist), Do("handOverProxy", Whitelist)>>

TimelockControllerCalls(n) == <<Deploy(<<"TimelockController">>, {}, <<>>)>>

---------------------------------------------------------------------------
(* What hardhat-deploy runs for a tag: the scripts that have it, in the    *)
(* order of their files, each after those its dependencies name.  Scripts  *)
(* 101 and 201 to 203 are always skipped.                                  *)

Script(name, tags, dependencies) ==
  [name |-> name, tags |-> {name} \cup tags, dependencies |-> dependencies]
First == {"FirstClass"}

Scripts == <<
  Script("MockTokens", {}, <<>>),
  Script("WombatToken", First, <<>>),
  Script("CoreV3", {}, <<>>),
  Script("ChainlinkPriceFeed", {}, <<"MockTokens">>),
  Script("PythPriceFeed", {}, <<"MockTokens">>),
  Script("BoostedMasterWombat", First, <<>>),
  Script("MasterWombatV3", {}, <<"WombatToken">>),
  Script("HighCovRatioFeePool", {}, <<>>),
  Script("HighCovRatioFeePoolAssets", First, <<"MockTokens", "HighCovRatioFeePool">>),
  Script("DynamicPool", {}, <<"MasterWombatV3">>),
  Script("DynamicPoolAssets", {}, <<"DynamicPool">>),
  Script("VolatilePoolWithExternalOracle", {}, <<"CoreV3">>),
  Script("VolatilePoolAssets", {},
         <<"VolatilePoolWithExternalOracle", "ChainlinkPriceFeed", "PythPriceFeed">>),
  Script("MockLayerZero", {}, <<>>),
  Script("MockWormhole", {}, <<>>),
  Script("CrossChainPool", First, <<"MockTokens", "CoreV3">>),
  Script("CrossChainAdaptor", First,
         <<"MockWormhole", "MockLayerZero", "CrossChainPool">>),
  Script("CrossChainPoolAssets", First, <<"CrossChainPool">>),
  Script("CrossChainAdaptorSetup", {}, <<"CrossChainAdaptor">>),
  Script("VeWom", {}, <<"WombatToken">>),
  Script("VeWom_Implementation", {}, <<>>),
  Script("BoostedMasterWombat_Implementation", {}, <<>>),
  Script("WombatRouter", First, <<>>),
  Script("MultiRewarderPerSec", {}, <<"MasterWombatV3">>),
  Script("Voter", {}, <<"WombatToken", "VeWom">>),
  Script("Voter_Implementation", {}, <<>>),
  Script("VeWomSetup", First, <<"VeWom">>),
  Script("Bribe", {}, <<>>),
  Script("BribeRewarderBeacon", {}, <<>>),
  Script("BribeRewarderFactory", First, <<"BribeRewarderBeacon">>),
  Script("BoostedMasterWombatSetup", First, <<"MasterWombatV3">>),
  Script("MultiRewarderSetup", {}, <<"MultiRewarderPerSec">>),
  Script("VoterSetup", {}, <<"MasterWombatV3", "Voter">>),
  Script("TransferOwnership", {}, <<>>),
  Script("TimelockController", {}, <<>>) >>

CallsOfScripts(n) == [
  MockTokens |-> MockTokenCalls(n),
  WombatToken |-> WombatTokenCalls(n),
  CoreV3 |-> CoreV3Calls(n),
  ChainlinkPriceFeed |-> ChainlinkPriceFeedCalls(n),
  PythPriceFeed |-> PythPriceFeedCalls(n),
  BoostedMasterWombat |-> BoostedMasterWombatCalls(n),
  MasterWombatV3 |-> MasterWombatV3Calls(n),
  HighCovRatioFeePool |-> HighCovRatioFeePoolCalls(n),
  HighCovRatioFeePoolAssets |-> HighCovRatioFeePoolAssetsCalls(n),
  DynamicPool |-> DynamicPoolCalls(n),
  DynamicPoolAssets |-> DynamicPoolAssetsCalls(n),
  VolatilePoolWithExternalOracle |-> VolatilePoolCalls(n),
  VolatilePoolAssets |-> VolatilePoolAssetsCalls(n),
  MockLayerZero |-> MockLayerZeroCalls(n),
  MockWormhole |-> MockWormholeCalls(n),
  CrossChainPool |-> CrossChainPoolCalls(n),
  CrossChainAdaptor |-> CrossChainAdaptorCalls(n),
  CrossChainPoolAssets |-> CrossChainPoolAssetsCalls(n),
  CrossChainAdaptorSetup |-> CrossChainAdaptorSetupCalls(n),
  VeWom |-> VeWomCalls(n),
  VeWom_Implementation |-> VeWomImplementationCalls(n),
  BoostedMasterWombat_Implementation |-> BoostedMasterWombatImplementationCalls(n),
  WombatRouter |-> WombatRouterCalls(n),
  MultiRewarderPerSec |-> MultiRewarderCalls(n),
  Voter |-> VoterCalls(n),
  Voter_Implementation |-> VoterImplementationCalls(n),
  VeWomSetup |-> VeWomSetupCalls(n),
  Bribe |-> BribeCalls(n),
  BribeRewarderBeacon |-> BribeRewarderBeaconCalls(n),
  BribeRewarderFactory |-> BribeRewarderFactoryCalls(n),
  BoostedMasterWombatSetup |-> BoostedMasterWombatSetupCalls(n),
  MultiRewarderSetup |-> MultiRewarderSetupCalls(n),
  VoterSetup |-> VoterSetupCalls(n),
  TransferOwnership |-> TransferOwnershipCalls(n),
  TimelockController |-> TimelockControllerCalls(n) ]

WithTag(tag) == SelectSeq(Scripts, LAMBDA s : tag \in s.tags)

\* Upto[d][s]: script s after those it depends on, with repetitions.
MaxDepth == 3    \* no dependency is deeper
Upto[depth \in 0..MaxDepth] ==
  [s \in ToSet(Scripts) |->
    ForEachFlat(ForEachFlat(s.dependencies, WithTag), LAMBDA d :
      IF depth = 0 THEN <<>> ELSE Upto[depth - 1][d]) \o <<s>>]
OnceEach(seq) ==
  FoldLeft(LAMBDA s, x : IF x \in ToSet(s) THEN s ELSE Append(s, x), <<>>, seq)
RunOrder(tag) == OnceEach(ForEachFlat(WithTag(tag), LAMBDA s : Upto[MaxDepth][s]))

CallsOf(n, tag) ==
  LET calls == CallsOfScripts(n)
  IN ForEachFlat(RunOrder(tag), LAMBDA s : calls[s.name])
---------------------------------------------------------------------------
(* What the Safe relies on when it is given a contract: the settings that  *)
(* only its owner can make come first, in every script and on every        *)
(* network.                                                                *)

\* The kinds of contracts that a script hands over right after it set them up.
Tracked(c) == c[1] \in {"Asset", "MultiRewarderPerSec_V3", "Bribe", "ChainlinkPriceFeed"}
SettingKinds == {"pool", "maxSupply", "priceFeed", "operator", "rewardToken", "feed"}

AssetSettings(a) ==
  {<<"pool">>} \cup (IF a.capped THEN {<<"maxSupply">>} ELSE {})
  \cup (IF a.feed # "none" THEN {<<"priceFeed">>} ELSE {})
PaymentSettings(r) == {<<"operator">>} \cup {<<"rewardToken", i>> : i \in 1..r.tokens - 1}

\* The settings these contracts must have: pairs of a contract and a key.
AssetsWanted(n) ==
  UNION {UNION {{Asset(p, a)} \X AssetSettings(a) : a \in ToSet(p.assets)} :
           p \in ToSet(AllPools(n))}
RewardersWanted(n) ==
  UNION {{Rewarder(r.lp)} \X PaymentSettings(r) : r \in ToSet(Of(Rewarders, n))}
BribesWanted(n) ==
  UNION {{Bribe(r.lp)} \X PaymentSettings(r) : r \in ToSet(Of(Bribes, n))}
FeedsWanted(n) ==
  {ChainlinkPriceFeed} \X {<<"feed", t>> : t \in ToSet(Of(ChainlinkTokens, n))}
Wanted(n) == AssetsWanted(n) \cup RewardersWanted(n) \cup BribesWanted(n) \cup FeedsWanted(n)

\* Once the call is done the setting w is made, or the run has failed, or it is
\* no longer the deployer's to make.
Provides(call, w) ==
  \/ /\ call.op = "send"
     /\ call.on.contract = w[1] /\ call.on.key = w[2] /\ call.on.value # None
  \/ /\ call.op = "readPrice" /\ call.on.feed # "none"
     /\ call.on.asset = w[1] /\ w[2] = <<"priceFeed">>
  \/ /\ call.op = "configureChainlink"
     /\ ChainlinkPriceFeed = w[1] /\ w[2] = <<"feed", call.on>>

\* A contract is handed over after the calls that make its settings, right after
\* it was deployed.
HandsOverLast(n, seq) ==
  \A j \in DOMAIN seq : seq[j].op = "transfer" =>
    \A w \in Wanted(n) : w[1] = seq[j].on.contract => \E i \in 1..j - 1 : Provides(seq[i], w)
HandsOverOnly(c, seq) ==
  \A j \in DOMAIN seq : seq[j].op = "transfer" => seq[j].on.contract = c
HandsOverNothing(seq) == \A j \in DOMAIN seq : seq[j].op # "transfer"

\* An asset is only ever told of its own pool.
OwnPool(n, asset, value) ==
  \A p \in ToSet(AllPools(n)) : \A a \in ToSet(p.assets) :
    asset = Asset(p, a) => value = Pool(p)

\* The adaptors that those of the pools are to know: the adaptor that knows, the
\* chain of the other and where that one is found.
PeersOf(n, p) ==
  {<<Adaptor(p), ChainIds(AdaptorType(m, p))[m], ADAPTOR_CONFIG_MAP[m][p.name].home>> :
     m \in {m \in OtherAdaptorsInGroup(n, p) : m \in DOMAIN ChainIds(AdaptorType(m, p))}}
PeersWanted(n) == UNION {PeersOf(n, p) : p \in ToSet(Of(CrossChainPools, n))}
Connects(call, w) ==
  call.op = "connect" /\ <<call.on.adaptor, call.on.chain, call.on.home>> = w

\* Only the calls that connect adaptors tell one of a peer.
TellsNoPeer(seq) ==
  \A j \in DOMAIN seq : seq[j].op = "send" => seq[j].on.key[1] # "peer"

\* Other calls do not hand a tracked contract over, take a setting back, or tell
\* an adaptor of a peer.
SoundCall(n, call) ==
  LET on == call.on
  IN /\ call.op = "deploy" =>
          /\ on.contract[1] # "Proxy" /\ (on.proxied => ~Tracked(on.contract))
          /\ \A s \in on.init : s[1][1] \notin SettingKinds \cup {"peer"}
          /\ HandsOverOnly(on.contract, on.then) /\ HandsOverNothing(on.otherwise)
     /\ call.op = "unlessRecorded" => HandsOverNothing(on.calls)
     /\ call.op = "send" /\ Tracked(on.contract) =>
          /\ on.value # None
          /\ on.key = <<"pool">> => OwnPool(n, on.contract, on.value)
     /\ call.op = "sendUnawaited" =>
          /\ on.key = <<"adaptor">>
          /\ \E p \in ToSet(Of(CrossChainPools, n)) : on.contract = Pool(p)
     /\ call.op = "transfer" => on.to \in {Multisig(n), ProxyAdminOwner}
     /\ call.op \in {"linkPool", "handOver", "handOverProxy", "saveProxy"} => ~Tracked(on)
     /\ call.op = "handOverEach" => \A c \in on : ~Tracked(c)
     /\ call.op = "listAsset" => ~Tracked(on.pool)
     /\ call.op \in {"connect", "approveToken"} => ~Tracked(on.adaptor)
     /\ call.op = "connect" => \E w \in PeersWanted(n) : Connects(call, w)
     /\ call.op = "linkMasterWombat" => on[1][1] # "peer"

\* What a call may unfold into, from the scripts.
Bodies(call) ==
  IF call.op = "deploy" THEN <<call.on.then, call.on.otherwise>>
  ELSE IF call.op = "unlessRecorded" THEN <<call.on.calls>> ELSE <<>>

IsSequenceOfCalls(seq) ==
  Len(seq) \in Nat /\ seq = [i \in 1..Len(seq) |-> seq[i]]

\* Sequences of calls that are sound; the number is how deep they are nested.
SoundOnes(n, seq) ==
  /\ IsSequenceOfCalls(seq)
  /\ HandsOverLast(n, seq) /\ TellsNoPeer(seq)
  /\ \A i \in DOMAIN seq : SoundCall(n, seq[i])
Sound0(n, seq) == SoundOnes(n, seq) /\ \A i \in DOMAIN seq : Bodies(seq[i]) = <<>>
Sound1(n, seq) ==
  /\ SoundOnes(n, seq)
  /\ \A i \in DOMAIN seq : \A k \in DOMAIN Bodies(seq[i]) : Sound0(n, Bodies(seq[i])[k])
Sound2(n, seq) ==
  /\ SoundOnes(n, seq)
  /\ \A i \in DOMAIN seq : \A k \in DOMAIN Bodies(seq[i]) : Sound1(n, Bodies(seq[i])[k])

Tags == UNION {s.tags : s \in ToSet(Scripts)}

\* The calls of every tag on every network are sound, each by itself.
ASSUME ScriptsAreSound ==
  \A n \in Networks : \A t \in Tags :
    LET calls == CallsOf(n, t)
    IN /\ IsSequenceOfCalls(calls)
       /\ HandsOverNothing(calls)
       /\ \A i \in DOMAIN calls : Sound2(n, <<calls[i]>>)

\* A chain is of one peer, found in one place.
ASSUME PeersAreDistinct ==
  \A n \in Networks : \A w \in PeersWanted(n) :
    /\ w[3] = <<w[3][1], w[3][2]>>
    /\ \A v \in PeersWanted(n) : v[1] = w[1] /\ v[2] = w[2] => v[3] = w[3]

\* The setup of the adaptors connects each with all of its peers, or throws.
ASSUME SetupConnectsAll ==
  \A n \in Networks :
    LET calls == CallsOf(n, "CrossChainAdaptorSetup")
    IN \/ \E i \in DOMAIN calls : calls[i].op = "throw"
       \/ \A w \in PeersWanted(n) : \E i \in DOMAIN calls : Connects(calls[i], w)
=============================================================================
