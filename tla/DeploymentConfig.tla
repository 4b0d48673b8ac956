-------------------------- MODULE DeploymentConfig --------------------------
(***************************************************************************)
(* The configuration tables of src/config that the deploy scripts read:    *)
(* the pools of each network and their assets, the rewarders and bribes,   *)
(* the price feeds, the cross-chain adaptors and the messengers.  Of an    *)
(* asset the tables keep what the scripts branch on: whether its contract  *)
(* has a relative price, which feed it takes it from, whether it is        *)
(* capped.  Rates, supplies, parameters and addresses are left out.        *)
(***************************************************************************)
EXTENDS Naturals, SequencesExt

\* table[n], or nothing where the network n has no entry.
Of(table, n) == IF n \in DOMAIN table THEN table[n] ELSE <<>>
SetOf(table, n) == IF n \in DOMAIN table THEN table[n] ELSE {}

---------------------------------------------------------------------------
(* Assets, as in assets.config.ts, and pools, as in pools.config.ts. *)

AssetsOfKind(symbols, priced, feed) ==
  [i \in DOMAIN symbols |->
    [symbol |-> symbols[i], priced |-> priced, feed |-> feed, capped |-> FALSE]]

Plain(symbols) == AssetsOfKind(symbols, FALSE, "none")
Dynamic(symbols) == AssetsOfKind(symbols, TRUE, "none")
Governed(symbols) == AssetsOfKind(symbols, TRUE, "GovernedPriceFeed")
Chainlink(symbols) == AssetsOfKind(symbols, TRUE, "ChainlinkPriceFeed")
Capped(assets) == [i \in DOMAIN assets |-> [assets[i] EXCEPT !.capped = TRUE]]

NewPool(prefix, name, assets) ==
  [prefix |-> prefix, name |-> name, native |-> FALSE, assets |-> assets]
\* The router must let the pool spend the LP tokens too.
NativePool(prefix, name, assets) ==
  [NewPool(prefix, name, assets) EXCEPT !.native = TRUE]

FactoryPoolsBscMainnet == <<
  NewPool("", "MainPool", Plain(<<"BUSD", "USDT", "USDC", "DAI">>)),
  NewPool("FactoryPools", "stables_01", Plain(<<"BUSD", "TUSD", "FRAX", "USDT">>)),
  NewPool("", "SidePool_01", Plain(<<"BUSD", "HAY">>)),
  NewPool("", "HAY_Pool", Plain(<<"HAY", "USDC", "USDT">>)),
  NewPool("FactoryPools", "iUSD_Pool", Plain(<<"iUSD", "BUSD">>)),
  NewPool("FactoryPools", "axlUSDC_Pool", Plain(<<"axlUSDC", "BUSD">>)),
  NewPool("FactoryPools", "USDD_Pool", Plain(<<"USDD", "USDC">>)),
  NewPool("FactoryPools", "BOB_Pool", Plain(<<"BOB", "USDC">>)),
  NewPool("FactoryPools", "Mixed_Pool", Plain(<<"USD+", "USDT+", "USDC", "CUSD", "HAY", "FRAX">>)),
  NewPool("FactoryPools", "MIM_Pool", Plain(<<"MIM", "USDT">>)),
  NewPool("WomSidePools", "wmxWOMPool", Plain(<<"WOM", "wmxWOM">>)),
  NewPool("WomSidePools", "mWOMPool", Plain(<<"WOM", "mWOM">>)),
  NewPool("WomSidePools", "qWOMPool", Plain(<<"WOM", "qWOM">>)),
  NewPool("", "USDS_Pool", Plain(<<"USDS", "USDT">>)),
  NativePool("", "zBNB_Pool", Capped(Plain(<<"zBNB">>)) \o Capped(Dynamic(<<"WBNB">>))),
  NewPool("", "zUSD_Pool", Capped(Plain(<<"zUSD", "USDC">>))),
  NewPool("FactoryPools", "StandalonePool", <<>>),
  NewPool("FactoryPools", "StandalonePool2", <<>>),
  NewPool("FactoryPools", "USDV_Pool", Capped(Plain(<<"USDV", "USDT">>))) >>

FactoryPoolsBscTestnet == <<
  NewPool("", "MainPool", Plain(<<"BUSD", "USDT", "USDC", "DAI", "TUSD", "vUSDC">>)),
  NewPool("FactoryPools", "stables_01", Plain(<<"BUSD", "TUSD", "FRAX">>)),
  NewPool("", "SidePool_01", Plain(<<"BUSD", "TUSD", "FRAX", "MIM", "HAY">>)),
  NewPool("FactoryPools", "iUSD_Pool", Plain(<<"iUSD", "BUSD">>)),
  NewPool("FactoryPools", "CUSD_Pool", Plain(<<"CUSD", "HAY">>)),
  NewPool("FactoryPools", "axlUSDC_Pool", Plain(<<"axlUSDC", "BUSD">>)),
  NewPool("FactoryPools", "USDD_Pool", Plain(<<"USDD", "USDC">>)),
  NewPool("FactoryPools", "BOB_Pool", Plain(<<"BOB", "USDC">>)),
  NewPool("WomSidePools", "wmxWOMPool", Plain(<<"WOM", "wmxWOM">>)),
  NewPool("WomSidePools", "mWOMPool", Plain(<<"WOM", "mWOM">>)),
  NewPool("WomSidePools", "qWOMPool", Plain(<<"WOM", "qWOM">>)) >>

FactoryPoolsArbitrum == <<
  NewPool("", "MainPool", Plain(<<"USDT", "USDC", "USDCe", "DAI">>)),
  NewPool("FactoryPools", "USDPlus_Pool", Plain(<<"USD+", "DAI+", "USDCe">>)),
  NewPool("FactoryPools", "MIM_Pool", Plain(<<"MIM", "USDT">>)),
  NewPool("FactoryPools", "FRAX_Pool", Plain(<<"FRAX", "MAI", "USD+", "USDCe">>)),
  NewPool("FactoryPools", "BOB_Pool", Plain(<<"BOB", "USDCe">>)),
  NewPool("WomSidePools", "mWOM_Pool", Plain(<<"mWOM", "WOM">>)),
  NewPool("WomSidePools", "wmxWOM_Pool", Plain(<<"wmxWOM", "WOM">>)),
  NewPool("WomSidePools", "qWOM_Pool", Plain(<<"qWOM", "WOM">>)),
  NewPool("FactoryPools", "StandalonePool", <<>>),
  NewPool("PendleSidePools", "mPendle_Pool", Plain(<<"PENDLE", "mPendle">>)),
  NewPool("FactoryPools", "fUSDC_Pool", Plain(<<"fUSDC", "USDCe">>)),
  NewPool("PendleSidePools", "ePendle_Pool", Plain(<<"PENDLE", "ePendle">>)),
  NewPool("FactoryPools", "USDV_Pool", Capped(Plain(<<"USDV", "USDT">>))) >>

FactoryPoolsEthereum == <<
  NewPool("FactoryPools", "FRAX_Pool", Capped(Plain(<<"FRAX", "USDT">>))),
  NewPool("FactoryPools", "agEUR_Pool", Capped(Plain(<<"agEUR", "EURe">>))),
  NewPool("WomSidePools", "wmxWOMPool", Plain(<<"WOM", "wmxWOM">>)),
  NewPool("WomSidePools", "mWOMPool", Plain(<<"WOM", "mWOM">>)),
  NewPool("FactoryPools", "USDV_Pool", Capped(Plain(<<"USDV", "USDT">>))) >>

FactoryPools == [
  bsc_mainnet |-> FactoryPoolsBscMainnet,
  bsc_testnet |-> FactoryPoolsBscTestnet,
  arb_mainnet |-> FactoryPoolsArbitrum,
  eth_mainnet |-> FactoryPoolsEthereum,
  hardhat |->
    <<NewPool("", "MainPool", Plain(<<"BUSD", "USDT", "USDC", "DAI", "TUSD", "vUSDC">>))>>,
  skale_testnet |-> <<NewPool("", "MainPool", Plain(<<"USDT", "USDC">>))>>,
  scroll_testnet |-> <<NewPool("", "MainPool", Plain(<<"USDT", "USDC">>))>>,
  zksync_testnet |-> <<NewPool("", "MainPool", Plain(<<"USDT", "USDC">>))>>,
  gnosis_mainnet |-> <<NewPool("", "MainPool", Plain(<<"USDT", "USDC", "WXDAI">>))>>,
  zksync_mainnet |-> <<NewPool("", "MainPool", Plain(<<"USDT", "USDC", "BUSD">>))>>,
  polygon_zkevm_mainnet |-> <<NewPool("", "MainPool", Plain(<<"USDT", "USDC", "DAI">>))>>,
  opt_mainnet |->
    <<NewPool("FactoryPools", "Frax_Pool", Capped(Plain(<<"FRAX", "USDC">>))),
      NewPool("FactoryPools", "USDV_Pool", Capped(Plain(<<"USDV", "USDT">>))),
      NewPool("FactoryPools", "Dola_Pool", Capped(Plain(<<"USDCe", "DOLA">>))),
      NewPool("FactoryPools", "StandalonePool", <<>>)>>,
  avax_mainnet |->
    <<NewPool("FactoryPools", "USDV_Pool", Capped(Plain(<<"USDV", "USDT">>)))>>,
  polygon_mainnet |-> <<NewPool("FactoryPools", "StandalonePool", <<>>)>>,
  base_mainnet |->
    <<NewPool("FactoryPools", "USDS_Pool", Capped(Plain(<<"USDS", "USDbC">>)))>> ]

DynamicPoolsBscMainnet == <<
  NewPool("DynamicPools", "wBETH_Pool", Capped(Dynamic(<<"wBETH", "ETH">>))),
  NewPool("DynamicPools", "frxETH_Pool", Capped(Governed(<<"sfrxETH">>))
      \o Dynamic(<<"frxETH", "ETH">>)),
  NewPool("DynamicPools", "ankrETH_Pool", Capped(Dynamic(<<"ankrETH", "ETH">>))),
  NativePool("", "BnbxPool", Dynamic(<<"WBNB", "BNBx">>)),
  NativePool("", "StkBnbPool", Dynamic(<<"WBNB", "stkBNB">>)),
  NativePool("", "AnkrBNBPool", Dynamic(<<"WBNB", "ankrBNB">>)),
  NativePool("", "BNBy_Pool", Capped(Dynamic(<<"WBNB", "BNBy">>))),
  NativePool("", "SnBNB_Pool", Capped(Dynamic(<<"WBNB", "SnBNB">>))),
  NativePool("", "rBNB_Pool", Capped(Dynamic(<<"WBNB", "rBNB">>))) >>

DynamicPoolsArbitrum == <<
  NewPool("DynamicPools", "jUSDC_Pool", Capped(Dynamic(<<"jUSDC", "USDCe">>))),
  NativePool("DynamicPools", "frxETH_Pool", Dynamic(<<"frxETH", "WETH">>)
      \o Capped(Governed(<<"sfrxETH">>))),
  NativePool("DynamicPools", "ankrETH_Pool", Capped(Dynamic(<<"ankrETH", "WETH">>))),
  NativePool("DynamicPools", "WstETH_Pool", Capped(Dynamic(<<"wstETH", "WETH">>))) >>

DynamicPools == [
  bsc_mainnet |-> DynamicPoolsBscMainnet,
  arb_mainnet |-> DynamicPoolsArbitrum,
  eth_mainnet |->
    <<NativePool("DynamicPools", "frxETH_Pool", Capped(Dynamic(<<"WETH", "frxETH", "sfrxETH">>))),
      NativePool("DynamicPools", "wstETH_Pool", Capped(Dynamic(<<"wstETH", "WETH">>))),
      NativePool("DynamicPools", "ETHx_Pool", Capped(Dynamic(<<"ETHx", "WETH">>)))>>,
  avax_mainnet |->
    <<NativePool("DynamicPools", "sAVAX_Pool", Capped(Dynamic(<<"WAVAX", "sAVAX">>)))>>,
  opt_mainnet |->
    <<NativePool("DynamicPools", "frxETH_Pool", Capped(Dynamic(<<"frxETH", "WETH">>)) \o Capped(Governed(<<"sfrxETH">>)))>> ]

VolatilePools == [
  bsc_testnet |->
    <<NewPool("VolatilePools", "BUSD-ETH-BTC_Pool", Capped(Chainlink(<<"BUSD", "ETH", "BTCB">>)))>> ]

CrossChainPools == [
  hardhat |-> <<NewPool("CrossChainPool", "Stablecoin_Pool", Plain(<<"BUSD", "vUSDC">>)),
      NewPool("CrossChainPool", "LayerZero_Stablecoin_Pool", Plain(<<"BUSD", "vUSDC">>))>>,
  bsc_testnet |->
    <<NewPool("CrossChainPool", "Stablecoin_Pool", Plain(<<"BUSD", "vUSDC">>))>>,
  avax_testnet |->
    <<NewPool("CrossChainPool", "Stablecoin_Pool", Plain(<<"BUSD", "vUSDC">>))>>,
  polygon_testnet |->
    <<NewPool("CrossChainPool", "Stablecoin_Pool", Plain(<<"USDC", "USDT", "axlUSDC">>))>>,
  bsc_mainnet |->
    <<NewPool("CrossChainPool", "Stablecoin_Pool", Capped(Plain(<<"USDC", "USDT">>)))>>,
  eth_mainnet |->
    <<NewPool("CrossChainPool", "Stablecoin_Pool", Capped(Plain(<<"USDC", "USDT">>)))>>,
  arb_mainnet |->
    <<NewPool("CrossChainPool", "Stablecoin_Pool", Capped(Plain(<<"USDC", "USDT">>)))>>,
  opt_mainnet |->
    <<NewPool("CrossChainPool", "Stablecoin_Pool", Capped(Plain(<<"USDC", "USDT", "USDCe">>)))>>,
  base_mainnet |->
    <<NewPool("CrossChainPool", "Stablecoin_Pool", Capped(Plain(<<"USDC", "USDbC">>)))>>,
  polygon_mainnet |->
    <<NewPool("CrossChainPool", "Stablecoin_Pool", Capped(Plain(<<"USDCe", "USDT">>)))>>,
  avax_mainnet |->
    <<NewPool("CrossChainPool", "Stablecoin_Pool", Capped(Plain(<<"USDC", "USDT">>)))>>,
  scroll_mainnet |->
    <<NewPool("CrossChainPool", "Stablecoin_Pool", Capped(Plain(<<"USDC", "USDT">>)))>> ]

---------------------------------------------------------------------------
(* Rewarders and bribes, as in emissions.config.ts.  `lp` is a deployed    *)
(* asset or an LP token given by its address; `v2` marks contracts of the  *)
(* BribeRewarderFactory.                                                   *)

Payment(lp, tokens, v2) == [lp |-> lp, tokens |-> tokens, v2 |-> v2]
Paid(pool, symbols, tokens) ==
  [i \in DOMAIN symbols |-> Payment(<<"Asset", pool, symbols[i]>>, tokens, FALSE)]
PaidV2(pool, symbols, tokens) ==
  [i \in DOMAIN symbols |-> Payment(<<"Asset", pool, symbols[i]>>, tokens, TRUE)]
PaidTo(addresses, tokens) ==
  [i \in DOMAIN addresses |-> Payment(<<"LP", addresses[i]>>, tokens, FALSE)]

RewardersBscMainnet ==
  PaidTo(<<"HAY", "wmxWOM", "wmxWOMPool_WOM", "mWOM", "mWOMPool_WOM", "qWOM">>, 1)
  \o PaidTo(<<"qWOMPool_WOM", "BNBx", "BnbxPool_WBNB", "stkBnb", "StkBnbPool_WBNB">>, 1)
  \o Paid("frxETH_Pool", <<"ETH", "frxETH", "sfrxETH">>, 1)
  \o Paid("Mixed_Pool", <<"FRAX", "CUSD">>, 1)
  \o Paid("qWOMPool", <<"WOM", "qWOM">>, 1)
  \o Paid("mWOMPool", <<"WOM", "mWOM">>, 1)
  \o Paid("wmxWOMPool", <<"WOM", "wmxWOM">>, 1)
  \o Paid("wBETH_Pool", <<"wBETH", "ETH">>, 1) \o Paid("stables_01", <<"FRAX">>, 1)
  \o Paid("BNBy_Pool", <<"WBNB", "BNBy">>, 1)
  \o Paid("rBNB_Pool", <<"rBNB", "WBNB">>, 1)
  \o PaidV2("USDV_Pool", <<"USDV", "USDT">>, 2)

RewardersArbitrum ==
  Paid("FRAX_Pool", <<"USDCe">>, 1) \o Paid("USDPlus_Pool", <<"USDCe">>, 1)
  \o Paid("qWOM_Pool", <<"WOM", "qWOM">>, 1)
  \o Paid("mWOM_Pool", <<"WOM", "mWOM">>, 1)
  \o Paid("wmxWOM_Pool", <<"WOM", "wmxWOM">>, 1)
  \o Paid("WstETH_Pool", <<"WETH">>, 1) \o Paid("WstETH_Pool", <<"wstETH">>, 2)
  \o Paid("mPendle_Pool", <<"PENDLE", "mPendle">>, 2)
  \o Paid("fUSDC_Pool", <<"fUSDC", "USDCe">>, 2)
  \o Paid("ePendle_Pool", <<"PENDLE", "ePendle">>, 1)
  \o PaidV2("USDV_Pool", <<"USDV", "USDT">>, 2)

RewardersOptimism ==
  PaidV2("Frax_Pool", <<"USDC", "FRAX">>, 2)
  \o PaidV2("frxETH_Pool", <<"frxETH", "sfrxETH", "WETH">>, 2)
  \o PaidV2("USDV_Pool", <<"USDT", "USDV">>, 2)
  \o PaidV2("Dola_Pool", <<"DOLA", "USDCe">>, 1)

RewardersEthereum ==
  Paid("ETHx_Pool", <<"WETH", "ETHx">>, 2)
  \o Paid("agEUR_Pool", <<"EURe", "agEUR">>, 2)
  \o Paid("frxETH_Pool", <<"WETH", "frxETH", "sfrxETH">>, 2)
  \o Paid("wstETH_Pool", <<"WETH", "wstETH">>, 1)
  \o Paid("Stablecoin_Pool", <<"USDC", "USDT">>, 1)
  \o PaidV2("USDV_Pool", <<"USDV", "USDT">>, 2)

Rewarders == [
  hardhat |-> Paid("MainPool", <<"BUSD">>, 1) \o Paid("MainPool", <<"USDT">>, 2),
  zksync_testnet |-> Paid("MainPool", <<"USDC">>, 1) \o Paid("MainPool", <<"USDT">>, 2),
  bsc_mainnet |-> RewardersBscMainnet,
  bsc_testnet |-> PaidTo(<<"BUSD", "USDC", "FRAX_BUSD", "FRAX", "wWOM">>, 1)
      \o PaidTo(<<"qWOM", "qWOMPool_WOM", "BNBx", "BnbxPool_WBNB">>, 1),
  arb_mainnet |-> RewardersArbitrum,
  opt_mainnet |-> RewardersOptimism,
  base_mainnet |-> PaidV2("USDS_Pool", <<"USDS", "USDbC">>, 1),
  eth_mainnet |-> RewardersEthereum,
  avax_mainnet |-> PaidV2("sAVAX_Pool", <<"WAVAX", "sAVAX">>, 2)
      \o PaidV2("USDV_Pool", <<"USDV", "USDT">>, 2) ]

BribesBscMainnet ==
  PaidTo(<<"HAY", "BNBx", "BnbxPool_WBNB", "stkBnb">>, 1)
  \o PaidTo(<<"StkBnbPool_WBNB", "wmxWom", "wmxWOMPool_WOM">>, 1)
  \o PaidTo(<<"mWOM", "mWOMPool_WOM">>, 2) \o PaidTo(<<"qWOM", "qWOMPool_WOM">>, 1)
  \o Paid("IUSDPool", <<"iUSD", "BUSD">>, 1)
  \o Paid("AxlUsdcPool", <<"axlUSDC", "BUSD">>, 2)
  \o Paid("BOB_Pool", <<"BOB", "USDC">>, 1)
  \o Paid("frxETH_Pool", <<"frxETH", "WETH", "ETH", "sfrxETH">>, 1)
  \o Paid("stables_01", <<"FRAX">>, 1) \o Paid("SnBNB_Pool", <<"SnBNB", "WBNB">>, 1)
  \o Paid("MIM_Pool", <<"MIM", "USDT">>, 1)
  \o Paid("Mixed_Pool", <<"USD+", "USDT+", "USDC">>, 2)
  \o Paid("Mixed_Pool", <<"CUSD">>, 3) \o Paid("Mixed_Pool", <<"HAY">>, 4)
  \o Paid("Mixed_Pool", <<"FRAX">>, 1)
  \o Paid("AnkrBNBPool", <<"WBNB", "ankrBNB">>, 2)
  \o Paid("BNBy_Pool", <<"WBNB", "BNBy">>, 1)
  \o Paid("ankrETH_Pool", <<"ETH", "ankrETH">>, 1)
  \o Paid("SidePool_01", <<"HAY">>, 1) \o Paid("HAY_Pool", <<"USDC", "USDT">>, 1)
  \o Paid("wBETH_Pool", <<"wBETH", "ETH">>, 1) \o Paid("stables_01", <<"USDT">>, 1)
  \o Paid("rBNB_Pool", <<"rBNB", "WBNB">>, 1)
  \o Paid("USDS_Pool", <<"USDS", "USDT">>, 1)

BribesArbitrum ==
  Paid("USDPlus_Pool", <<"USD+", "DAI+", "USDCe">>, 2)
  \o Paid("MIM_Pool", <<"MIM", "USDT">>, 1)
  \o Paid("FRAX_Pool", <<"FRAX", "MAI", "USD+">>, 1)
  \o Paid("BOB_Pool", <<"BOB", "USDCe">>, 1)
  \o Paid("mWOM_Pool", <<"mWOM", "WOM">>, 3)
  \o Paid("wmxWOM_Pool", <<"wmxWOM", "WOM">>, 1)
  \o Paid("frxETH_Pool", <<"frxETH", "sfrxETH", "WETH">>, 2)
  \o Paid("qWOM_Pool", <<"qWOM", "WOM">>, 1)
  \o Paid("jUSDC_Pool", <<"jUSDC", "USDCe">>, 2)
  \o Paid("ankrETH_Pool", <<"WETH", "ankrETH">>, 3)
  \o Paid("WstETH_Pool", <<"WETH", "wstETH">>, 1)
  \o Paid("mPendle_Pool", <<"PENDLE", "mPendle">>, 1)

Bribes == [
  hardhat |-> Paid("MainPool", <<"BUSD">>, 1) \o Paid("MainPool", <<"USDT">>, 3),
  bsc_mainnet |-> BribesBscMainnet,
  bsc_testnet |-> PaidTo(<<"BUSD", "FRAX_BUSD", "BNBx">>, 1),
  arb_mainnet |-> BribesArbitrum,
  eth_mainnet |-> PaidV2("ETHx_Pool", <<"ETHx", "WETH">>, 1) ]

MockTokens == [
  hardhat |-> <<"BUSD", "USDC", "USDT", "TUSD", "DAI", "vUSDC", "axlUSDC">>,
  bsc_testnet |-> <<"BUSD", "USDC", "USDT", "DAI", "vUSDC", "TUSD", "FRAX", "iUSD", "CUSD",
    "MIM", "HAY", "axlUSDC", "USDD", "BOB", "WOM", "wmxWOM", "mWOM", "qWOM", "BTCB", "ETH">>,
  localhost |-> <<"BUSD", "USDC", "USDT", "TUSD", "DAI", "vUSDC">>,
  avax_testnet |-> <<"BUSD", "vUSDC">>,
  scroll_testnet |-> <<"USDC", "USDT">>,
  polygon_testnet |-> <<"USDC", "USDT", "axlUSDC">>,
  skale_testnet |-> <<"USDC", "USDT">>,
  zksync_testnet |-> <<"USDC", "USDT">> ]

FromRecord == [
  bsc_testnet |->
    {"BTCB", "BUSD", "DAI", "ETH", "TUSD", "USDC", "USDT", "WOM", "axlUSDC", "vUSDC"},
  hardhat |-> {"BUSD", "DAI", "TUSD", "USDC", "USDT", "WOM", "vUSDC"},
  localhost |-> {"BUSD", "DAI", "TUSD", "USDC", "USDT", "WOM", "vUSDC"},
  avax_testnet |-> {"BUSD", "WOM", "vUSDC"},
  polygon_testnet |-> {"USDC", "USDT", "WOM", "axlUSDC"},
  skale_testnet |-> {"USDC", "USDT", "WOM"},
  scroll_testnet |-> {"USDC", "USDT", "WOM"},
  zksync_testnet |-> {"USDC", "USDT"},
  bsc_mainnet |-> {"WOM"} ]

Unregistered == [
  bsc_testnet |->
    {"FRAX", "MIM", "HAY", "iUSD", "CUSD", "USDD", "BOB", "wmxWOM", "mWOM", "qWOM"} ]
\* The native token of a network, wrapped: router.config.ts.
WRAPPED_NATIVE_TOKENS_MAP == [
  hardhat |-> "BUSD", localhost |-> "BUSD", base_mainnet |-> "WETH",
  bsc_mainnet |-> "WBNB", bsc_testnet |-> "WBNB", polygon_mainnet |-> "WMATIC",
  polygon_testnet |-> "WMATIC", avax_mainnet |-> "WAVAX", avax_testnet |-> "WAVAX",
  arb_mainnet |-> "WETH", opt_mainnet |-> "WETH", eth_mainnet |-> "WETH",
  scroll_testnet |-> "WETH", scroll_mainnet |-> "WETH",
  skale_testnet |-> "NO_WRAPPED_NATIVE_TOKEN", zksync_testnet |-> "WETH",
  gnosis_mainnet |-> "WXDAI", polygon_zkevm_mainnet |-> "WETH", zksync_mainnet |-> "WETH" ]

---------------------------------------------------------------------------
(* Oracles: oracle.config.ts. *)

ChainlinkTokens == [bsc_testnet |-> <<"BUSD", "BTCB", "ETH">>,
                    eth_mainnet |-> <<"frxETH", "sfrxETH">>]
ChainlinkAgeBound == {"bsc_mainnet", "bsc_testnet", "eth_mainnet"}
PythTokens == [bsc_testnet |-> <<"ETH", "USDT", "WBNB">>]
PythAgeBound == {"bsc_mainnet", "bsc_testnet"}

---------------------------------------------------------------------------
(* Adaptors: adaptor.config.ts, wormhole.config.ts, layerzero.config.ts.   *)
(* An adaptor is found at an address, or in the records of a network.      *)

AdaptorAt(type, home, tokens) == [type |-> type, home |-> home, tokens |-> tokens]
WormholeOn(network, tokens) ==
  [Stablecoin_Pool |-> AdaptorAt("WORMHOLE", <<"record", network>>, tokens)]
MockAdaptors ==
  [Stablecoin_Pool |->
     AdaptorAt("WORMHOLE", <<"address", "0x01">>, <<"BUSD", "vUSDC">>),
   LayerZero_Stablecoin_Pool |->
     AdaptorAt("LAYERZERO", <<"address", "0x02">>, <<"BUSD", "vUSDC">>)]

ADAPTOR_CONFIG_MAP == [
  hardhat |-> MockAdaptors,
  localhost |-> MockAdaptors,
  bsc_testnet |-> WormholeOn("bsc_testnet", <<"BUSD", "vUSDC">>),
  avax_testnet |-> WormholeOn("avax_testnet", <<"BUSD", "vUSDC">>),
  polygon_testnet |-> WormholeOn("polygon_testnet", <<"USDC", "USDT", "axlUSDC">>),
  scroll_testnet |-> WormholeOn("polygon_testnet", <<"BUSD", "vUSDC">>),
  bsc_mainnet |-> WormholeOn("bsc_mainnet", <<"USDC", "USDT">>),
  arb_mainnet |-> WormholeOn("arb_mainnet", <<"USDC", "USDT">>),
  eth_mainnet |-> WormholeOn("eth_mainnet", <<"USDC", "USDT">>),
  opt_mainnet |-> WormholeOn("opt_mainnet", <<"USDCe", "USDC", "USDT">>),
  base_mainnet |-> WormholeOn("base_mainnet", <<"USDC", "USDbC">>),
  polygon_mainnet |-> WormholeOn("polygon_mainnet", <<"USDCe", "USDT">>),
  avax_mainnet |-> WormholeOn("avax_mainnet", <<"USDC", "USDT">>) ]

NETWORK_GROUP_MAP == [
  HARDHAT |-> {"hardhat", "localhost"},
  MAINNET |-> {"bsc_mainnet", "polygon_mainnet", "avax_mainnet", "arb_mainnet",
               "opt_mainnet", "eth_mainnet", "base_mainnet"},
  TESTNET |-> {"bsc_testnet", "polygon_testnet", "avax_testnet", "arb_testnet",
               "opt_testnet"} ]

\* Networks that are in no group look each other up as undefined, so that they
\* are in a group with one another.
SameGroup(m, n) ==
  \A g \in DOMAIN NETWORK_GROUP_MAP :
    m \in NETWORK_GROUP_MAP[g] <=> n \in NETWORK_GROUP_MAP[g]

WORMHOLE_CONFIG_MAPS == [
  bsc_mainnet |-> 4, eth_mainnet |-> 2, arb_mainnet |-> 23, opt_mainnet |-> 10,
  polygon_mainnet |-> 5, base_mainnet |-> 30, avax_mainnet |-> 6,
  bsc_testnet |-> 4, avax_testnet |-> 6, polygon_testnet |-> 5,
  localhost |-> 0, hardhat |-> 0 ]

LAYERZERO_CONFIG_MAPS == [
  hardhat |-> 65535, localhost |-> 65535,
  bsc_testnet |-> 10102, avax_testnet |-> 10106 ]

\* The chain ids of a messenger.
ChainIds(type) ==
  IF type = "WORMHOLE" THEN WORMHOLE_CONFIG_MAPS ELSE LAYERZERO_CONFIG_MAPS

---------------------------------------------------------------------------
(* What the scripts rely on when they look names up in these tables. *)

AllPools(n) == Of(FactoryPools, n) \o Of(DynamicPools, n)
               \o Of(VolatilePools, n) \o Of(CrossChainPools, n)
Networks == DOMAIN FactoryPools \cup DOMAIN DynamicPools \cup
            DOMAIN VolatilePools \cup DOMAIN CrossChainPools
AssetName(p, asset) == <<"Asset", p.name, asset.symbol>>
AssetNames(n) ==
  FlattenSeq([i \in DOMAIN AllPools(n) |->
    LET p == AllPools(n)[i]
    IN [j \in DOMAIN p.assets |-> AssetName(p, p.assets[j])]])

\* No two assets of a network share a deployment name, which leaves the prefix
\* of the pool out: the second would be taken for the first.
ASSUME AssetNamesDistinct == \A n \in Networks : IsInjective(AssetNames(n))

\* Every asset of a dynamic or volatile pool has a relative price.
ASSUME PricedWherePricesAreUsed ==
  \A n \in Networks : \A p \in ToSet(Of(DynamicPools, n) \o Of(VolatilePools, n)) :
    \A a \in ToSet(p.assets) : a.priced

\* The tokens that other chains are told to accept are those of the pool.
ASSUME AdaptorTokensAreThePools ==
  \A n \in DOMAIN CrossChainPools \cap DOMAIN ADAPTOR_CONFIG_MAP :
    \A p \in ToSet(CrossChainPools[n]) :
      ToSet(ADAPTOR_CONFIG_MAP[n][p.name].tokens) = {a.symbol : a \in ToSet(p.assets)}

\* Within a group a chain id names one network.
ASSUME ChainIdsDistinct ==
  \A type \in {"WORMHOLE", "LAYERZERO"} : \A m, n \in DOMAIN ChainIds(type) :
    m # n /\ SameGroup(m, n) /\ ChainIds(type)[m] = ChainIds(type)[n]
      => m \in NETWORK_GROUP_MAP.HARDHAT

\* Rewarders and bribes are for assets that some pool has, but for five bribes
\* of bsc_mainnet.
ASSUME PaidAssetsExist ==
  \A n \in DOMAIN Rewarders \cup DOMAIN Bribes :
    \A r \in ToSet(Of(Rewarders, n) \o Of(Bribes, n)) :
      r.lp[1] = "Asset" /\ r.lp \notin ToSet(AssetNames(n)) =>
        /\ n = "bsc_mainnet"
        /\ r.lp \in {<<"Asset", "IUSDPool", "iUSD">>, <<"Asset", "IUSDPool", "BUSD">>,
                     <<"Asset", "AxlUsdcPool", "axlUSDC">>,
                     <<"Asset", "AxlUsdcPool", "BUSD">>,
                     <<"Asset", "frxETH_Pool", "WETH">>}
=============================================================================
