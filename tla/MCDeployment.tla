---------------------------- MODULE MCDeployment ----------------------------
(* The instance of Deployment that TLC checks. *)
EXTENDS Deployment

MCTagsOf == [
  base_mainnet |-> {"FirstClass", "MultiRewarderSetup", "TransferOwnership"},
  polygon_mainnet |-> {"CrossChainPoolAssets", "CrossChainAdaptor"},
  opt_mainnet |-> {"DynamicPoolAssets"},
  eth_mainnet |-> {"ChainlinkPriceFeed"},
  avax_testnet |-> {"CrossChainPoolAssets", "CrossChainAdaptorSetup"},
  bsc_testnet |-> {"VolatilePoolAssets"},
  zksync_testnet |-> {"HighCovRatioFeePoolAssets"},
  bsc_mainnet |-> {"FirstClass", "DynamicPoolAssets", "MultiRewarderSetup"},
  arb_mainnet |-> {"FirstClass", "DynamicPoolAssets", "MultiRewarderSetup"},
  hardhat |-> {"FirstClass", "VoterSetup", "Bribe", "MultiRewarderSetup",
               "CrossChainAdaptorSetup"} ]
LongRuns == {"bsc_mainnet", "arb_mainnet"}
MCMaxRuns ==
  [n \in DOMAIN MCTagsOf |-> IF n \in LongRuns \cup {"avax_testnet"} THEN 2 ELSE 3]
MCInterruptible == DOMAIN MCTagsOf \ (LongRuns \cup {"hardhat"})
MCReplaceable == {<<"Asset", "USDS_Pool", "USDS">>, <<"Asset", "frxETH_Pool", "sfrxETH">>,
                  <<"Asset", "MainPool", "BUSD">>}
=============================================================================
