# Wombat Exchange: a TLA+ verification project

Wombat is a stableswap exchange: pools of single-asset liquidity priced by coverage
ratios, liquidity mining for the LP tokens (MasterWombat and its rewarders),
vote-escrowed WOM that directs the emission (VeWom, Voter, bribes), and cross-chain
pools whose credit travels through Wormhole or LayerZero adaptors. The contracts are
under `src/contracts`; the TypeScript around them deploys and configures them.

1. [Inventory](#1-inventory) · 2. [Modules](#2-modules) ·
3. [Cross-chain credit](#3-cross-chain-credit) · 4. [Voting and emission](#4-voting-and-emission) ·
5. [Liquidity mining and the square root](#5-liquidity-mining-and-the-square-root) ·
6. [The stableswap pool](#6-the-stableswap-pool) · 7. [Deployment](#7-deployment) ·
8. [Runs](#8-runs-and-bounds) · 9. [Proofs](#9-proofs) ·
10. [Disagreements](#10-where-the-code-and-its-comments-disagree) ·
11. [Not modelled](#11-what-is-not-modelled-and-why) · 12. [Plan](#12-plan)

## 1. Inventory

| Component | State | Operations | Interacts with | Hard behaviour | What makes it correct |
|---|---|---|---|---|---|
| Cross-chain pool (`CrossChainPool.sol` over `PoolV3.sol`, `CoreV3.sol`) | cash, fees and token balance of the asset; credit minted, burned; credit balances; limits, switches, adaptor | swap tokens for credit, credit for tokens (here or on another chain), `completeSwapCreditForTokens`, `mintCredit`, setters | calls its adaptor when credit leaves, is called by it when credit arrives | pauses, limits and the adaptor change while credit travels; rounding between token decimals and wad | tokens cover cash and fees but for rounding; net credit within its limits; no balance wraps |
| Adaptors (`Adaptor.sol`, `WormholeAdaptor.sol`, `LayerZeroAdaptor.sol`, `NonblockingLzAppUpgradable.sol`, `LzAppUpgradable.sol`) | trusted peers, valid tokens, delivered hashes, failed messages | bridge, receive, retry, resend, setters | relayer or endpoint, pool | lost, late, repeated and reordered deliveries; failure half way; rewiring under way | credit is neither made nor lost; a message is settled at most once, and once its route is restored, settled; a failing message does not block those behind it |
| veWOM (`VeWom.sol`, `VeERC20Upgradeable.sol`, `Whitelist.sol`) | locks, balances, used votes, WOM | mint, burn, update, vote, setters | Voter (votes), MasterWombat (`updateFactor`) | locks and votes change in different contracts; slots move when one is burnt | votes are backed by veWOM; WOM pays back every lock; a lock holds until its day, and what can keep its owner in after it |
| Voter and bribes (`Voter.sol`, `BribeV2.sol`) | weights, votes, indices, gauges, WOM | vote, distribute, claim bribes, add, allocation, pauses | veWOM, MasterWombat (gauge manager), bribes | votes, rates and pauses change between payments; the Voter is short of WOM | gauges earn what the schedule allows, once; bookkeeping of votes agrees over contracts |
| MasterWombat (`BoostedMasterWombat.sol`; before it `MasterWombatV2/V3.sol`) | pool (accumulators, rate, period), users (stake, factor, debt, pending), WOM | deposit, withdraw, claim, migrate, `emergencyWithdraw`, `notifyRewardAmount`, `updateFactor` | veWOM, Voter (pays in the middle of an update), rewarder | a payment restarts the period inside another operation; factors depend on two contracts | boosts follow stake and veWOM; WOM owed is there; nobody's earnings are lost |
| Rewarders (`BoostedMultiRewarder.sol`; before it `MultiRewarderPerSec*.sol`) | accumulators, distributed, claimed, copies of stakes, tokens | `onReward`, `onUpdateFactor`, rates, tokens, emergency functions | MasterWombat (reports stakes; its totals are read) | order of the call and the change of the totals; a balance that runs out; detaching | promises are covered by tokens; earned rewards are kept until paid |
| Square roots (`DSMath.sqrt`, `SignedSafeMath.sqrt`) | the two estimates | one turn of the loop | MasterWombat's factors, the stableswap equations | two estimates compared for equality | returns the integer root; returns at all |
| Stableswap pool (`PoolV4.sol`, `CoreV4.sol`, `HighCovRatioFeePoolV4.sol` and their older versions), LP token (`Asset.sol`, `SkimmableAsset.sol`), `AssetLibrary.sol`, `PausableAssets.sol` | list of assets, cash, liability, supply, tokens, fees, pauses, ratios | deposit, withdraw (also from another asset), swap, fill pool, mint fee, tip bucket, skim, setters | Asset, MasterWombat | fees enter cash and liability in the middle of other operations; two roundings share one fee | tokens cover cash and fees; LP tokens have a liability behind them, and their rate does not fall |
| Volatile and dynamic pools (`VolatilePool*`, `RepegHelper.sol`, `DynamicPool*`), wrapped assets, price feeds | price scales, reserves | repeg, quotes | Asset, oracles | reserves become cash before the price scales change | coverage after a repeg |
| Periphery (`WombatRouter.sol`, `BribeRewarderFactory.sol`, `TokenVesting.sol`, tokens) | deployed rewarders, vesting schedules | deploy, attach, release | pools, Voter, MasterWombat | sequences of legal calls | not more released than granted; a rewarder attached where it belongs |
| Deployment (`src/deploy`, `utils/deploy.ts`, `utils/index.ts`, `config/*.ts`) | records of contracts, owners, settings on the chain | one script after the other, call by call | every contract; the Safe that takes over | runs fail half way, are repeated, in any order of tags; other networks deploy anew | what is handed over is configured; complete runs leave everything connected; repeating changes nothing |
| Operation (`utils/multisig`, `src/tasks`, `src/scripts`) | files of transactions | proposals for the Safe | every contract | written against a state that has changed when executed | |

Every call is a transaction of its own: it happens as a whole or, when it reverts, not
at all. So the interleavings are those of whole transactions, of users, owners and
relayers, and an action of a module is one transaction: a call that reverts is an
action that is not enabled (except where the revert itself matters: a failed delivery
stays with the relayer or the endpoint).

`PROJECT.json` lists every component with its status, the hazards with the properties
that would show them going wrong, and for each definition the lines it stands for.

## 2. Modules

| Module | Models | Built on |
|---|---|---|
| `CreditLedger` | abstract: each transfer of credit is issued once and settled once | |
| `CrossChainPool` | the pools' operations on credit; half of a step where they call the adaptor | |
| `WormholeBridge` | pools + `WormholeAdaptor` + relayer | `CrossChainPool`; implements `CreditLedger` |
| `LayerZeroBridge` | pools + `LayerZeroAdaptor` + endpoint | `CrossChainPool`; implements `CreditLedger` |
| `VeWom` | veWOM, with any voter | |
| `VotingPower` | abstract: power is granted, revoked while free, and spread over gauges | |
| `Voter` | veWOM + `Voter` + bribes' shares | `VeWom`; implements `VotingPower` |
| `RootMath`, `SquareRoot` | the integer root as a fact about numbers; the loop that computes it | |
| `BoostedRewarder` | the operations of the rewarder | |
| `MasterWombat` | one pool of MasterWombat + its rewarder, veWOM and Voter seen through their calls | `BoostedRewarder`, `RootMath` |
| `StablePool` | a pool of `PoolV4` and `CoreV4` with its assets | |
| `DeploymentConfig` | the tables of `src/config` | |
| `DeploymentScripts` | what each script of `src/deploy` asks for, in order | `DeploymentConfig` |
| `Deployment` | runs of the scripts: records, contracts, failures, repetitions | `DeploymentScripts` |
| `Sums` | sums of balances, votes, weights and credit over finite sets | |
| `SumProofs` | lemmas about them, cited by the other proofs | `Sums`, TLAPS |
| `…Proofs` | theorems about the module of that name | that module, TLAPS |
| `VoterProofs`, `MasterWombatProofs` | also those about `VeWom`; about `BoostedRewarder` and `SquareRoot` | |
| `MC…` | values of constants that a .cfg cannot express, symmetry | that module |

A definition whose comment says *Mutant* is the code with a plausible mistake in it;
nothing uses it. It is there to replace its neighbour, and then one of the properties
named in `PROJECT.json` ("mutants") no longer holds.

## 3. Cross-chain credit

**Correspondence.** `SwapTokensForCredit`, `SwapCreditForTokens`,
`SwapCreditCrossChain`, `CompleteSwapCreditForTokens` and `MintCredit` are the
pool's functions with their checks; `PoolAdmin` is its owner and dev, `MintFee`, `SetFee`,
`TransferTipBucket` and `FillPool` are what the pool inherits from `PoolV3` and what touches the fees
that credit leaves behind (anybody may call `mintFee`). A quote of the curve is
any value of a small set that passes the checks `CoreV3` makes on it: the properties
do not depend on which, since wad amounts (`cash`, `feeCollected`, `q`) and token
units (`balance`) are kept apart and `FromWad` rounds down. A `Bridge` step is the
source transaction: pool, adaptor and network together.

*Wormhole.* `queue` is what the relayer will attempt. A delivery takes the message off
it whatever comes out: the early return for an unknown emitter (`ReceiveUnknown`), the
payment (`ReceivePaysTokens`), the catch branch (`ReceiveMintsCredit`), or a revert
(`ReceiveReverts`: duplicate, another adaptor, or a receiver that rejects the native
token call). `RequestResend` puts any message that was sent back on the queue, delivered
or not, as anybody may. So messages are delayed, reordered, repeated and lost until
somebody asks again.

*LayerZero.* A `path` delivers in order and stops at a message whose `lzReceive` reverts
(`LzReceiveBlocks`: untrusted remote). What fails inside is stored (`LzReceiveStores`)
and `RetryMessage` clears and executes it. `ForceResumeReceive` drops a blocked message.

**Properties.** `ShortOnlyByRounding`: the tokens of an asset fall behind its cash and fees
only when a fee is shared out, and then by at most one wad, since `mintFee` rounds both dividends to
the nearest (`PoolV3.sol:947`, `:955`; the same as section 6 says of `CoreV4`). No credit that comes or goes,
and no operation on fees, takes more.
`CreditConserved` (`CreditLedger!Conservation`): credit minted and not burned = credit
under way + credit balances, over all chains. `ImplementsLedger`: every step is a
step of the ledger, so no message is settled twice. `LimitsRespected`: a step
that moves net credit further out (in) leaves it within the limit then in force.
`RestoredRouteSettles`: a message whose route ends up in place is settled, whatever was
paused, switched or rewired before. `NonBlocking` (LayerZero): a trusted path is emptied
again and again, settled or stored.

**Fairness.** Wormhole: the relayer attempts what it has queued ("typically within 5
minutes", `WormholeAdaptor.sol:86`) and somebody asks again for a message that was not
settled; one weak fairness condition per message and kind. Nothing is assumed of the
owners or of a route. LayerZero: the endpoint keeps trying the first message of each
path, somebody retries a stored message; that is what the endpoint and `retryMessage`
are for. The liveness properties are conditional on the route being in place for good
(`<>[]Wired(i)`), since no code forces an owner to keep it.

## 4. Voting and emission

**Correspondence.** `Mint`, `Burn`, `Update`, `Vote` and the owner's functions are
`VeWom`'s, with the hook of `VeERC20Upgradeable` inside (`ChangeBalance`: the
balance, the masterWombat that is told, the votes that must stay backed). Of the masterWombat it keeps what
can stop the transaction: `stake`, which users move (`MoveStake`), and whether the root of stake times
veWOM returns (`FactorReturns`, section 10), for one pool that is linked to this veWOM. `RemoveSlot`
is the move of the last slot into the burnt one. `Voter` composes veWOM's user
transactions with the ballots: `CastBallot` updates the indices, updates each gauge
whose votes change *before* the change, moves weights, total and the user's votes,
notifies the bribes and calls veWOM. `Distribute` is the gauge manager's call;
`PendingWom`, `UpdatedFor` and `DistributedIndex` are `_getClaimable`, `_updateFor`
and `_distributeWom` in fixed point. A unit of time is a day of veWOM and a second of
the Voter. `paid`, `paidEpoch`, `scheduled`, `interrupted` are history for properties.

**Properties.** `LocksBacked`, `LocksHold` (no step lowers what is locked until day t
before day t, though slots move), `ExitOpen` (an expired lock whose veWOM is free of
votes can be burnt unless paused, by a revoked contract too, and unless the root for the remaining
veWOM never returns: then the burn runs out of gas until the user changes the stake), `VotesBacked`,
`VotesAgree` (used votes, votes, weights, totals), `ImplementsVotingPower`,
`BribeSharesBacked` (a bribe never detached counts no votes a user does not have),
`NoOverEmission` (all gauges together earn at most the schedule), `EarnedOverTime` (no
transaction changes what a gauge has earned: only time does, and only for gauges that
are not paused), `PaidOncePerEpoch`, `DistributeNeverBlocks` (a Voter short of WOM does
not make `distribute`, hence every deposit in MasterWombat, revert).

## 5. Liquidity mining and the square root

**Correspondence.** One pool. `UpdatedPool(w)` is `_updatePool`, in the middle of
which the Voter may pay `w` and `NotifyRewardAmount` restarts the period;
`UpdateUserAmount` is `_updateUserAmount` (harvest, factor, debt, rewarder, sum);
`MultiClaim`, `Migrate`, `EmergencyWithdraw`, `UpdateFactor` are the functions of that
name. The factor is the root of stake times veWOM, as long as `sqrt` returns. The rewarder is called where the code calls it, with the totals of before
the change. `RewardsToDistribute` is capped by the tokens not yet reserved; `OnReward`
pays what there is and keeps the rest as `unpaid`; a share without debt and unpaid
rewards counts as unregistered. `astray` (history) becomes true when the rewarder
is kept from a change of a stake: by `migrate`, by detaching it, and by a factor it
does not record while only the base partition counts. It is not part of any guard.

**Properties.** `BoostsFresh`: each factor is the one of the *present* stake and veWOM,
and the sums are the users'. `PeriodInOrder`: the timestamps that are subtracted never
underflow. `RewardsFunded`: WOM covers what users are owed and the rest of the period,
up to one unit for each change of a stake or factor (rounding), unless the owner took it.
`EarningsKept`: no transaction costs a user WOM earned, except the user's own
`emergencyWithdraw`, and even that keeps `pendingWom`. `SharesInSync`,
`ClaimsCovered` (all claims together within what was distributed, up to two units for each
change of a stake or factor, which may round twice: `updateFactor` records the factor alone after an emergency
claim, and the base part starts anew later),
`DistributionCovered` (never more promised than tokens held), `RewardsKept` (no step
costs a user reward tokens, whether the rewarder can pay or not).

**The root.** `SquareRoot` runs `DSMath.sqrt(y, guess)` one turn of its `while (x != z)` at a time.
`ReturnsRoot`: what it returns is the integer root. `NeverReturnsOneBelowSquare` and
`EndsUnlessOneBelowSquare`: it ends for every input but those one below a square, and for
those never, whatever the guess. Fairness: `WF_sqrtVars(SqrtNext)`, as a transaction runs until it
returns (or out of gas). MasterWombat's model takes the root of a product as a function
(`Boost`) and the same condition (`BoostReturns`): a transaction in which `sqrt` does not return does
not happen. That both agree with the loop is proved (`FactorIsWhatSqrtReturns`). The variables are
the function's: `radicand` y, `root` z, `estimate` x.

## 6. The stableswap pool

**Correspondence.** `asset[a]` is what the contract of the asset holds (cash, liability,
supply in wad, `tokens` in units) and the fees the pool has collected for it; `config` is
what owner and dev set. `Deposit`, `Withdraw`, `WithdrawFromOtherAsset`, `Swap`, `MintFee`,
`TransferTipBucket`, `FillPool`, `SetFee` and the setters are `PoolV4`'s functions with
the part of `CoreV4` they call; `Settled` is `_mintFeeIfNeeded`, which shares out the fees
(`FeeMinted`) before a deposit or withdrawal is quoted. `Skim` is `SkimmableAsset`'s, which
shares them out first. The curve answers an amount and some slip: any number within
`Slips`, and any fee of `CovFees` where the coverage ratio is above one, subject to the
checks the code makes of them. So the properties hold for every amplification factor. A token
with fewer decimals is worth `Scale` wad, and amounts are converted where the code does.
`Init` is a pool of LPs as `initialize` leaves it, or with `feeTo` and the fee set as well.

**Properties.** `ShortOnlyByRounding`: the tokens of an asset fall behind its cash and fees
(in units) by at most one, and only when a fee is shared out of which both dividends are rounded up.
`LpTokensBacked`: no LP tokens over a liability of zero, where the next deposit would
take part one to one. `ExchangeRateKept`: liability over supply never falls, so
nobody's transaction, however it is rounded, takes from those who hold LP tokens.

**What the model showed.**

- `wmul` rounds to the nearest: of a fee of one wad with a share of a half each, veWOM and
  the LPs both get one (`CoreV4.sol:669`, `:677`). The asset is a wad short, once for each such
  fee; `tipBucketBalance` reverts until tokens make up for it.
- With `feeTo` unset and a share for veWOM, `mintFee` reverts, and with it every deposit and
  withdrawal of an asset with a fee due, until `setFeeTo`. Swaps go on. `initialize` leaves
  `lpDividendRatio` at one, so it takes a `setFee` before `setFeeTo`.
- When the last LP leaves, the haircut of the withdrawal stays behind as a fee. When it is shared out with the LPs,
  it becomes cash and liability without LP tokens: the next deposit is multiplied by a supply of zero over that
  liability (`CoreV4.sol:419`), comes to no LP tokens and reverts. `ExchangeRateKept` is
  about assets with a supply before and after.
- `removeAsset` leaves the fees of the asset recorded; they can be shared out again only after it is listed anew.

## 7. Deployment

**Correspondence.** `DeploymentConfig` holds the tables of `src/config` entry by entry, but of each
entry only what a script branches on. `DeploymentScripts` gives, for a network, the
calls of each script in order, with `utils/deploy.ts` (`deployProxy`, `deployUpgradeable`, the
hand-over) unfolded. A *tag* is what `hardhat deploy --tags` runs with its dependencies. `Deployment` performs the calls:
each reads the records (`deployed`) and contracts (`owner`, `setting`) of its own moment, sends a
transaction, unfolds, or throws. A transaction is mined before the script goes on, as `confirmTxn` waits for it, except
for the one that does not wait (`PerformSendUnawaited`, `061_…:77`): it may be `lost`. `Start`, `Advance` and `Complete` are the
runner; `Interrupt` stops the process before any transaction. Between runs another network deploys its adaptor
(`DeployElsewhere`), a record is removed so that an asset is replaced (`RemoveRecord`), or the Safe passes a pool on
(`PassOn`). `again`, `whole`, `clean`, `done`, `lost` are history for properties. Fairness: a run that was
started goes on; no property of the runs depends on it.

**Properties.** `HandedOverLast`: whatever interrupts the runs, an asset, a rewarder, a bribe or
the Chainlink feed belongs to the Safe only when nothing is left that only its owner can set, since
a recorded contract is skipped ever after. `CleanRunsComplete`: as long as no run is interrupted (`whole`), the
completed tags leave their pools and assets configured and handed over, in whatever order they were run and although some runs
throw; as long as none throws either (`clean`), `FirstClass` leaves the contracts connected, a pool with its adaptor unless the
transaction was `lost`.
`PeersCurrent`: a completed setup leaves each adaptor with the peers that the other networks name now,
and no others. `RerunIsNoOp`: repeating a tag right after it completed changes nothing on the chain.

**What is assumed of the scripts.** `ScriptsAreSound` (in `DeploymentScripts`) says of the calls of each tag
on each network, one call at a time, with what it unfolds into: a tracked contract (asset, rewarder, bribe, Chainlink feed) is handed over
only by the deployment that has just created it and after each setting it wants, and no other call hands
one over, takes a setting back, or tells an adaptor of a peer (only the calls that connect adaptors do).
`PeersAreDistinct` says that an adaptor has one peer per chain, `SetupConnectsAll` that the script of the setup
names every adaptor with each of its peers, or throws. These have no free constants, and TLC evaluates them for all networks and
all tags, also those that no run performs. They say nothing of records, owners, failures or repetitions:
that a run which stops in the middle, is repeated, or meets the records of another one keeps
`HandedOverLast` and `PeersCurrent` is what `Deployment` and its proofs add. `PlanAssumption` (also evaluated) says
that the table `Plan`, which spares TLC from folding scripts again in every state, holds the calls of its tags.

**What the model showed** (for the scripts as they are; the tags checked are those of `MCDeployment`):

- Pools are not in `HandedOverLast`: their settings are made only when the
  proxy is newly deployed (`utils/deploy.ts:109`, `060_CrossChainPool.ts:28`). A run that
  stops between two of them is repeated by one that finds the record, skips every setting and hands
  the pool over without them, though `021_…:32` says "finally transfer pool contract ownership to
  Gnosis Safe after admin scripts completed". `CleanRunsComplete` shows that nothing but an interruption does this.
- `062` depends on `060` only. Run before `061`, it hands the pool to the Safe without an adaptor (with the same comment, `062_…:30`).
  `061` then deploys the adaptor, which is recorded, and its `setAdaptorAddr` reverts, since the Safe owns the pool; later runs
  find the record and skip it. The Safe has to set it. The tag `FirstClass` runs them in the right order.
- `061` does not wait for `setAdaptorAddr`. When the transaction is not mined, the run completes with a pool
  without an adaptor, and no later run sends it again, since the adaptor is recorded.
- Some scripts do not take a second run: `004` and `005` compare the age of a price the wrong way round and throw,
  `063` expects a LayerZero adaptor without remotes and throws, `190` pauses veWOM again while there is no Voter and reverts,
  `197` compares a record with an address and sends its transactions every time (with the same values). They leave
  the chain as it is, so `RerunIsNoOp` holds.
- A pool deployed before there is a MasterWombat is never linked to one (`Connected` says so).

## 8. Runs and bounds

| Run | Module, configuration | Shows | States |
|---|---|---|---|
| `wormhole` | `MCWormholeBridge`, `Wormhole.cfg` | types, `CreditConserved`, `LimitsRespected`, `ImplementsLedger`, `RestoredRouteSettles` | 291 000 |
| `layerzero` | `LayerZeroBridge`, `LayerZero.cfg` | `ShortOnlyByRounding`, `CreditConserved`, `ImplementsLedger`, `NonBlocking`, `RestoredRouteSettles` | 102 000 |
| `vewom_locks` | `MCVeWom`, `VeWom.cfg` | `LocksBacked`, `VotesBacked`, `ExitOpen`, `LocksHold` | 632 000 |
| `voter_votes` | `MCVoter`, `VoterVotes.cfg` | `VotesAgree`, `BribeSharesBacked`, `ImplementsVotingPower` | 21 000 |
| `voter_payments` | `MCVoter`, `VoterPayments.cfg` | `NoOverEmission`, `DistributeNeverBlocks`, `EarnedOverTime`, `PaidOncePerEpoch` | 252 000 |
| `masterwombat` | `MCMasterWombat`, `MasterWombat.cfg` | `BoostsFresh`, `PeriodInOrder`, `RewardsFunded`, `EarningsKept` | 411 000 |
| `rewarder` | `MCMasterWombat`, `Rewarder.cfg` | `SharesInSync`, `DistributionCovered`, `ClaimsCovered`, `RewardsKept` | 179 000 |
| `rewarder_claims` | `MCMasterWombat`, `RewarderClaims.cfg` | more is claimed than distributed after a migration (section 10) | |
| `stableswap` | `MCStablePool`, `StablePool.cfg` | `LpTokensBacked`, `ShortOnlyByRounding`, `ExchangeRateKept` | 155 000 |
| `deployment` | `MCDeployment`, `Deployment.cfg` | `HandedOverLast`, `CleanRunsComplete`, `PeersCurrent`, `RerunIsNoOp` | 1 149 000 |
| `sqrt` | `MCSquareRoot`, `Sqrt.cfg` | `ReturnsRoot`, `NeverReturnsOneBelowSquare`, `EndsUnlessOneBelowSquare` | 2 500 |
| `sqrt_returns` | `MCSquareRoot`, `SqrtReturns.cfg` | 8 has no answer (section 10) | |

*The bounds, and why they are enough.*

- Bridges: two chains, two deployments of the adaptor on each, one user, `MaxMessages`
  = 2 (two messages can overtake each other, and one can be a forwarded credit balance
  of the other), one setting of a pool or `mintFee` (`MaxPoolOps`) and two changes of the
  wiring (`MaxRewires`: away and back, or two halves of a replacement) at any moment. A
  token is worth `Scale` = 2 wad; a quote of 3 then rounds when it is paid, and of the 3
  tokens of cash a second payment would leave less than the pool must keep.
  `wormhole` is about limits: one set to 0 stops a route, and a swap in the other
  direction opens it again; it has no fees and no quote misses the user's minimum, so a
  delivery fails for a pause, a switch, a limit or the cash. `layerzero` is about fees:
  each quote costs one wad, a quarter is the LPs' (`WAD` = 4) or a half after `setFee`; of
  two wad veWOM then gets two and the LPs one, which is the rounding the property allows,
  and it is reached. A payment that was rounded down leaves a tip bucket to fill back or to
  transfer. Its quotes of 1 miss the user's minimum, so that credit is parked and
  redeemed; its limits stay at 3. Receivers that
  reject the call (`Contracts`) are left out of TLC's run, where their revert has the effect
  of the others; the proofs hold for any `Contracts`. The three counters bound a
  behaviour's length, not what may happen within it; deliveries and resends are unbounded.
- veWOM: two users, one of them a contract; two slots each (the least at which a burn moves
  one), locks of 1 or 2 days over 2 days, two voters, a stake of 0 or 4 (with 2 veWOM left the root is that of 8, which
  never returns), two transactions of the owner,
  `Uint104` = 3 so that amounts reach the limit of the width, `WAD` = 2 so that `wmul` rounds.
- Voter: two gauges. For the votes: one gauge added later, ballots of one and two entries, also
  negative ones, moves from gauge to gauge and one that names a gauge twice, no stakes, two users and three owner's transactions.
  For the payments: all the votes of a user go to one gauge and then move, one by one; three units of
  time in epochs of two; two managers; a Voter without funds at first, or with 6 at once; any two
  of the owner's transactions. Fixed point 2 makes indices round.
- MasterWombat: two users, stakes up to 2, veWOM 0 or 2 (so factors 0, 1 and 2), two payments in three units of time with a period
  of two (so a period is restarted while it runs and after it ended), four changes of a stake
  or a factor, one by the owner. For the rewarder: three changes of a stake or a factor,
  eight tokens against a rate of 6 (it runs out), with `ACC_TOKEN_PRECISION` = 6: what is
  distributed wrongly then exceeds what rounding may lose, two changes by its owner (detach and attach, deprecate and claim, rate and partition).
- Stableswap pool: two assets, one with 18 decimals and a rebasing one whose unit is 2 wad
  (so that wad fall between units); one unit of each deposited at first, up to two tokens and 3 wad each. A
  deposit or withdrawal then meets every fee from 0 to 2 wad, and the last LP leaves and another comes.
  `WAD` = 4 with shares of a half makes both dividends round up for a fee of one. The slip is 0 or −1
  wad: a positive one only adds liability. Two changes of settings (two rates, a split and a threshold, pause and
  unpause). The proofs hold for all values.
- Deployment: ten networks, with the tags of `MCTagsOf`, chosen so that each table and each kind of call is
  met. Three runs each (two where they are long): a run, an interrupted repetition, another tag. Interruption
  anywhere on the seven where runs are short. Three assets may be replaced, an adaptor elsewhere is
  deployed twice, one pool is passed on. Tokens recorded on other networks are taken to be found.
- `sqrt`: every input and guess from 0 to 70, of which six are one below a square and enter the loop.

The type invariants of the modules other than `WormholeBridge` hold on
the same instances; the configurations spend the time on the other properties. All of them are proved.

`CHECK_DEADLOCK FALSE` appears in every configuration: nothing has to happen in a system
of contracts, and every behaviour ends at the bounds; what must not get stuck is stated
as a property (`NonBlocking`, `RestoredRouteSettles`, `ExitOpen`, `DistributeNeverBlocks`,
`EndsUnlessOneBelowSquare`).

## 9. Proofs

The theorems hold for every value of the constants that the `ASSUME`s allow (numbers
are naturals, scales and periods positive, initial settings among the possible ones, the
zero address no adaptor): any number of chains, users, messages, quotes, rates and time.

| Module | Theorems | Say |
|---|---|---|
| `WormholeBridgeProofs` | `TypeCorrect`, `ShortByRoundingOnly`, `CreditStaysConserved`, `LedgerRefinement`, `LimitsHold` | `TypeOK`, `ShortOnlyByRounding`, `CreditConserved`, `ImplementsLedger`, `LimitsRespected` |
| `LayerZeroBridgeProofs` | the same five | the same of the other bridge |
| `VoterProofs`, of veWOM | `VeWomTypeCorrect`, `VotesAlwaysBacked`, `LocksStayBacked`, `LocksAlwaysHold` | `VeWomTypeOK`, `VotesBacked`, `LocksBacked`, `LocksHold` |
| `VoterProofs`, of the Voter | `TypeCorrect`, `VotesAlwaysAgree`, `BribeSharesStayBacked`, `PowerRefinement` | `TypeOK`, `VotesAgree`, `BribeSharesBacked`, `ImplementsVotingPower` |
| | `GaugesPaidOncePerEpoch`, `EarningsOverTime`, `EmissionBounded` | `PaidOncePerEpoch`, `EarnedOverTime`, `NoOverEmission` |
| `MasterWombatProofs`, of MasterWombat | `TypeCorrect`, `PeriodStaysInOrder`, `EarningsAreKept`, `BoostsStayFresh`, `RewardsStayFunded` | `TypeOK`, `PeriodInOrder`, `EarningsKept`, `BoostsFresh`, `RewardsFunded` |
| `MasterWombatProofs`, of the rewarder | `RewardsAreKept`, `SharesStayInSync`, `DistributionStaysCovered`, `ClaimsStayCovered` | `RewardsKept`, `SharesInSync`, `DistributionCovered`, `ClaimsCovered` |
| `MasterWombatProofs`, of `sqrt` | `ResultIsRoot`, `NeverReturns` | `ReturnsRoot`, `NeverReturnsOneBelowSquare` |
| | `FactorIsWhatSqrtReturns` | a result of the loop is `Boost`, and then `BoostReturns` |
| `StablePoolProofs` | `TypeCorrect`, `AlwaysBacked`, `NothingTaken`, `RateNeverFalls` | `TypeOK`, `LpTokensBacked`, `ShortOnlyByRounding`, `ExchangeRateKept` |
| `DeploymentProofs` | `TypeCorrect`, `HandedOver`, `PeersAreCurrent` | `TypeOK`, `HandedOverLast`, `PeersCurrent` |

*Sums* (`SumProofs`). Totals over users, chains, gauges or messages are folds of the community modules,
which unfold to a `CHOOSE` of a function on the subsets. The library's induction theorems take the formula as an operator, which
the provers cannot instantiate, but the strict subsets of a finite set are
well founded (`FS_StrictSubsetOrderingWellFounded`), and that a non-empty set of subsets has a minimal one
(`WFMin`) takes a *set*. So each lemma supposes the set of the subsets that
violate it non-empty, picks a minimal one (`MinimalSubset`) and shows that removing an element repairs nothing. The
lemmas used elsewhere say what a sum is after one term or two changed, after an element came or went, and that sums of no smaller terms
are no smaller. What a list of locks weighs (`Weight` in `VoterProofs`) is such a sum over its slots.

*The bridges.* The pool's operations and the arithmetic of decimals (`FromWadRoundsDown`, `ToWadMonotone`) have their
lemmas in `CrossChainPoolProofs`. One of them, `ShortKept`, goes through the operations for `ShortOnlyByRounding`: a conversion
never takes more tokens than the wad that are given up for them, and two rounded dividends come to at most one wad more than
the fee. Wormhole's `IInv` is `TypeOK` and `SequenceNumbers`. A message is new because sequence numbers grow, and a hash recorded for
its id can only be its own. LayerZero's `IInv` says where a message is: at most once on its own path
(`OnePath`), in the store of the adaptor it was for (`OwnStore`), or dropped, and never in two of these (`OnePlace`). That
is why a retry, which looks neither at the path nor at who is trusted, settles what nobody else can settle. The
refinement has one lemma per kind of step: sending is `Issue` or `Forward`, paying is `Redeem`, minting is `Park`,
everything else stutters; and `CreditStaysConserved` follows from it, since no step of the ledger makes or loses credit (`LedgerConserves`).

*veWOM.* `VeWomInv` = types and `VotesBacked`: a burn is checked against the votes, a vote against the balance, whoever
the voter is. Every transaction of a user is a `LockStep`: what the list of locks weighs in veWOM, in WOM, and in
WOM locked until after a day t > now changes by what the balance and the contract's WOM change by (the third does
not fall). A burn that moves the last slot into the burnt one removes exactly one lock from each weight, which is what both theorems need.

*The Voter.* `VoterInv` = types, `VotesBacked`, `VotesAgree`, no gauge ahead of the indices (`IndexesCover`), and a gauge
that was never added has no votes (`UnlistedIdle`). Ballots of any length are covered, also
those that name a gauge twice: what a ballot gives to each gauge adds up to its total (`BallotSum`). Every step is time passing (`Elapse`) or a `Transaction`, in which each gauge is
`Carried` (nothing that counts for it changes) or `CaughtUp` (what was pending is claimable or paid). `EarningsOverTime` follows at once;
`EmissionBounded` needs `EmissionInv`: in fixed point, what all gauges earned up to the last update plus
what was emitted since is within the schedule. It holds because each index grows by a rounded-down share that is multiplied by at most the total of
the weights (`GrowthWithinEmission`), hence needs `VotesAgree`. `PaymentsApart`: the next payment of a gauge lies in an epoch after the one
it was last paid in. `SharesInv`: a bribe that is attached counts all of a user's votes or none, one that was replaced none. `GrantsInv`: no lock
grants more than `type(uint104).max`, so that a burn is a step of `VotingPower`.

*MasterWombat and the rewarder.* `WInv` = `RInv` ∧ `MInv`. `RInv`: the debt of a share never exceeds what it has earned, a
stake without debt has nothing unpaid, accumulators start at the precision. `MInv`: the last update is neither in the future nor past the
period, and no user's debt exceeds what the stake earned. With one lemma per operation of the rewarder and one per
transaction of MasterWombat it gives `PeriodStaysInOrder`, `EarningsAreKept` and `RewardsAreKept`. `SharesStayInSync` needs that a
rewarder which is not attached has no stakes (`Detached`), as long as nothing went astray. The two properties about sums are not inductive, since they speak of
rounded amounts; their invariants count what is owed before rounding, in units of one over `ACC_TOKEN_PRECISION`:

- `FundsInv`: `BoostsFresh`, and the exact `Liability` to all users and to the rest of the period is at most WOM held plus one unit
  for each change. An update moves WOM from the period to the users and loses the rounding; changing a stake rounds one debt.
- `ClaimsInv`: each share is a `Copy` of the stake, of its factor alone, or of nothing, and the `Excess`
  (the exact `Part` of each share, plus what was claimed, less what was distributed) is at most two units for each change. The
  `Part` of a share that does not know the stake, or only its factor, counts the *fraction* of a unit that the missing part has
  earned: registering the stake again takes the rounded debt, and that fraction would otherwise appear from
  nowhere. An emergency claim and an update gain nothing, a change of a stake or factor
  rounds at most two debts. It is inductive together with `WInv`, `FundsInv` and `SyncInv` (`ClaimsReady`), as what
  an update distributes is shared by totals that `FundsInv` ties to the users.

The bound of `ClaimsCovered` comes from this argument, which counts two roundings for such a change. It
is what is proved; that two units are ever needed is not claimed (on small instances TLC meets no state that exceeds one for each).

*The root.* `LoopInv` ties the two estimates: x = (y/z + z)/2 whenever y > 3. A fixed point of that step is the integer root
and y is not one below a square (`NewtonFixedPoint`). The integer root is how many positive squares do not
exceed y (`FloorRootOf`), which is what MasterWombat's model takes for the factor.

*The pool.* `AlwaysBacked`, `NothingTaken` and `RateNeverFalls` hold for every curve, every number of
assets and decimals. `IInv` = `TypeOK` ∧ `LpTokensBacked`: the rate of an asset is kept only if an empty
liability means an empty supply, since the first deposit is minted one to one, and the backing
needs that a burn takes liability ⌊L·l/S⌋ < L unless all LP tokens are burnt. What one transaction does to one
asset is `Kept`: the record stays typed and backed, its rate is kept, and it is at most that much shorter. It
composes along the parts of a transaction (fees shared out, then amount added, then LP tokens
minted), so each operator has a lemma (`FeeMintedKept`, `DepositedKept`, `WithdrawnKept`, `GivenKept`, …) and
each action follows from those of its parts. Underneath are lemmas about `\div` (`Floor`, `FloorMonotonic`,
`FloorMinus`, `FloorWhole`) and about two shares of a fee (`TwoShares`: they exceed it by at most one).

*Deployment.* `HandedOver` and `PeersAreCurrent` hold for any selection of networks and tags, any number of runs in any order,
interruptions, replaced assets and new deployments elsewhere, given what section 7 assumes of the scripts. `DInv` is `TypeOK` with five parts. `RunInv`: the tag that runs is
one of the network's. `RecordsInv`: a contract has a record, and what has a proxy beside it is not tracked, so that
`501` hands no tracked contract over. `MadeInv`: what a tracked contract lacks is still the deployer's to set, and an asset
belongs to its own pool. `CallsInv`, which carries the proof of `HandedOver`: each call left of the running script is sound, and where one
hands over a contract, that contract exists and, while it is the deployer's, each
setting it wants is made or an earlier call left provides it. `HandedOverLast`
alone is not inductive, since nothing in it says why the next transfer is right. Each call has a lemma of what it
may change (the general ones: `Unfolding` for calls that unfold into others, one transaction to a contract
that is not tracked, settings made and nothing else touched), and two matter most: a deployment either finds the record and unfolds
into calls that hand nothing over, or creates a contract of the deployer and unfolds into the settings and the hand-over; and a
transfer empties the obligation it was first in line for. A run that stops drops `calls`, so the
obligation is gone and with it the hand-over: what an interrupted run leaves unfinished stays the deployer's
(and is never finished, section 7).

`PeersInv` carries the proof of `PeersAreCurrent`, which is about a whole run: of each call of the plan begun so far, that the peer it connects
has the address recorded now, or that a call left connects it or sends that address (`Settled`); and adaptors know
no peers but those the configuration gives them (`PeersWanted`). An earlier run may have left an address that is stale by now: a
call that meets one fails, and with it the run; and a plan with a call that throws never completes. Within a run nothing makes an address
stale, because other networks deploy between runs only, and no other call touches a peer. When a run completes, no call
is left and every call of the plan has begun, so by `SetupConnectsAll` each peer that is wanted has its address; with
`PeersAreDistinct` those are exactly the ones an adaptor knows.

*Model-checked only.* `ExitOpen` and `DistributeNeverBlocks` are stated with `ENABLED`, and
`RestoredRouteSettles`, `NonBlocking` and `EndsUnlessOneBelowSquare` are liveness under fairness; the provers
handle neither. `CleanRunsComplete` and `RerunIsNoOp` say what *every* call of a whole run of a tag
has done: that is a fold over the scripts, call by call with the tables of
`src/config`, which are constants of the code. There is nothing in them to generalise over but the order of
runs, and TLC goes through those.

## 10. Where the code and its comments disagree

- `sqrt_returns`. `DSMath.sqrt` does not end for y = n² − 1 > 3: from 8 the
  estimates are 3, 2, 3, 2, … A deposit, a withdrawal or a change of veWOM for which stake
  times veWOM is such a number runs out of gas; `SignedSafeMath.sqrt` has the same loop. An expired lock whose
  burn would leave such a product stays shut until its owner changes the stake, which `ExitOpen` says.
- `rewarder_claims`. `BoostedMultiRewarder.sol:101` says "claimedAmount always <=
  distributedAmount". `migrate` does not tell the rewarder, whose copy of the stake keeps
  earning next to the stakes that share the rewards: the claims then exceed what was
  distributed. The properties that depend on it say so (`astray`).

Other disagreements, met while modelling and not stated as runs:

- `WormholeAdaptor.sol:85` says that `receiveWormholeMessages` "should NOT throw". It reverts on a
  duplicate delivery (which line 92 says to expect), when the pool has another adaptor and when the
  receiver rejects the native token. The state is unharmed: `wormhole` has these reverts (`ReceiveReverts`).
- `021_HighCovRatioFeePool_Assets.ts:32` and `062_CrossChainPool_Assets.ts:30`: a pool goes to the Safe before its settings after an
  interrupted run, and before its adaptor is set when `062` is run before `061` (section 7).
- `hasActiveRewards` (`utils/multisig/utils.ts:265`) is true when every rate is *zero*, and is asked of the new
  bribe or rewarder, where the comments (lines 229 and 256) say "Make sure existing bribe is not emitting".

## 11. What is not modelled, and why

- *Inside modelled components.* Cross-chain pool: LP deposits and withdrawals, swaps within the pool and the pausing of
  assets, all inherited from PoolV3 (liability changes only when a fee is shared out), one asset per pool,
  `minimumCreditAmount` (`CrossChainPool.sol:207`), which only restricts what can be sent. LayerZero: gas and payload
  settings, which only restrict what can be sent. Voter: replacing the voter or the
  masterWombat (only in `VeWom` alone; a new one knows no balances of before, and bribes none of the votes of before they were
  attached: the code brings neither up to date; votes in use would stay with the old voter, and no
  text promises a migration), `setBribeFactory` (in the model the owner or the factory may
  set a bribe at any time), `emergencyTokenWithdraw`, the width of weights. MasterWombat:
  several pools (they share only the WOM balance), the deprecated rewarder beside the
  boosted one, `setVeWom`, `setWom`, the width of stored amounts (`to128`, `to104`).
  Rewarder: operators, several tokens at once (they share only the stakes), native tokens.
  Pool: staking a deposit in MasterWombat at once (a deposit to the pool, and then one of section 5), `setMaxSupply`,
  `setPool`, native tokens, the 120 and 128 bits of stored amounts, who holds LP tokens, the list of
  assets as an array, changes of the amplification factor (any curve at any time is allowed).
  Deployment: errors of `getTokenAddress` for a reward token and of the look-up of `config.operator` (`utils/deploy.ts:343`,
  `:361`), which stop a run as `Interrupt` does, the scripts that are always skipped (101, 201, 202, 203), verification of sources,
  transactions of others in the middle of a run, the values of rates and addresses.
- *The stableswap curve.* Solutions of quadratic equations with 18 decimals are beyond TLC
  and would be opaque to the provers. The pools' accounting does not depend on them: a model
  takes any quote that passes the checks.
- *Not modelled yet, planned:* see section 12.
- *Never:* price feeds and wrapped assets (reads of external contracts), the router (keeps no
  state), tokens and signatures (OpenZeppelin), `LogExpMath` (a constant function in `VeWom`),
  tests and mocks (read as a reference).

## 12. Plan

Done, in this order: credit between chains; voting and emission; the square root; liquidity
mining with its rewarder; deployment; the stableswap pool; the proofs of section 9.

Next:

1. `Repeg`: what `RepegHelper` and `VolatilePool` do to cash, reserves and price scales: all reserves become
   cash before the scales change (`RepegHelper.sol:167`), and the coverage checked before must hold after.
2. `Proposals`: the transactions that `utils/multisig` prepares for the Safe, executed later against the
   contracts of section 7.
3. `AssetList`: the index moved by `AssetLibrary.removeAsset`, against a set as reference.
4. `RewarderFactory` (who may deploy and attach a bribe or a rewarder, `BribeRewarderFactory.sol:91`),
   `Vesting` (the share of intervals is not capped at ten, `TokenVesting.sol:168`), payments of `BribeV2`,
   and the order in `MasterWombatV3`'s `emergencyWithdraw` (line 456), which sends the LP tokens before it tells the
   rewarder that should be called before.
5. What no property states, since no text says what should happen: `setVoter` while votes are in use
   (`VeWom.sol:131`; they can no longer be returned), and the time before a new emission partition, which the
   rewarder counts by the new one (`BoostedMasterWombat.sol:544`).
6. Proofs of the properties of the modules above as they are written.
