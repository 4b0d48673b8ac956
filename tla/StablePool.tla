----------------------------- MODULE StablePool -----------------------------
(***************************************************************************)
(* The stableswap pool (PoolV4 and HighCovRatioFeePoolV4 with the library  *)
(* CoreV4) and its assets: deposits, withdrawals and swaps, the fees they  *)
(* leave in an asset and how the fees are shared out, the tip bucket, and  *)
(* the skimming of rebasing tokens.                                        *)
(*                                                                         *)
(* Cash, liability, fees and LP tokens are counted in wad, the underlying  *)
(* tokens in units of the token: Scale[a] wad make a unit.  The price      *)
(* curve is abstracted: what it answers for an amount is the amount and    *)
(* some slip.  A revert undoes the transaction, so a reverting call is a   *)
(* step that is not enabled.                                               *)
(***************************************************************************)
EXTENDS Integers

CONSTANTS
  Assets,
  Scale,             \* wad per unit of the token: 10^(18 - decimals)
  Skimmable,         \* the assets that are SkimmableAssets
  WAD,               \* one, as a fixed point number
  InitialHaircutRate, \* the haircut rate the pool is initialized with
  Deposited,         \* units of each token that LPs deposited at first
  Amounts,           \* units a user deposits, swaps, or a rebase brings
  Slips, SwapSlips,  \* the curve's answer less the amount asked for (wad)
  CovFees,           \* fees for a high coverage ratio (wad)
  TipAmounts,        \* amounts taken out of the tip bucket (wad)
  MaxSupply,         \* Asset.maxSupply
  InitialFeeSplits,  \* lpDividendRatio and retentionRatio of a pool's setup
  FeeSplits,         \* and those the owner may set
  Thresholds, HaircutRates, WithdrawalHaircutRates,
  MaxTokens, MaxWad, \* bounds on an asset: its tokens, its cash and liability
  MaxChanges         \* bound on the settings changed

FeeSplit == [lp : 0 .. WAD, retention : 0 .. WAD]

ASSUME StablePoolAssumption ==
  /\ Scale \in [Assets -> Nat \ {0}] /\ Skimmable \subseteq Assets
  /\ WAD \in Nat \ {0} /\ InitialHaircutRate \in 0 .. WAD
  /\ Deposited \in Nat /\ Amounts \subseteq Nat \ {0}
  /\ Slips \cup SwapSlips \subseteq Int /\ CovFees \subseteq Nat /\ TipAmounts \subseteq Nat
  /\ MaxSupply \in Nat \ {0}
  /\ InitialFeeSplits \cup FeeSplits \subseteq {f \in FeeSplit : f.lp + f.retention <= WAD}
  /\ Thresholds \subseteq Nat
  /\ HaircutRates \subseteq 0 .. WAD /\ WithdrawalHaircutRates \subseteq 0 .. WAD
  /\ MaxTokens \in Nat /\ MaxWad \in Nat /\ MaxChanges \in Nat

VARIABLES
  asset,     \* what each asset contract holds, and its fees in the pool
  config,    \* the settings of owner and dev
  changes    \* how often they were changed

vars == <<asset, config, changes>>

Asset == [cash : Nat, liability : Nat, totalSupply : Nat,
          tokens : Nat,         \* underlyingTokenBalance
          feeCollected : Nat]

Config == [paused : BOOLEAN, assetPaused : SUBSET Assets, listed : SUBSET Assets,
           split : {f \in FeeSplit : f.lp + f.retention <= WAD},
           mintFeeThreshold : Nat, haircutRate : 0 .. WAD,
           withdrawalHaircutRate : 0 .. WAD,
           feeTo : BOOLEAN]     \* feeTo is set

TypeOK == asset \in [Assets -> Asset] /\ config \in Config /\ changes \in Nat

\* The pool as it is initialized, or with feeTo and the fee set up as well.
Init ==
  /\ asset = [a \in Assets |->
                [cash |-> Deposited * Scale[a], liability |-> Deposited * Scale[a],
                 totalSupply |-> Deposited * Scale[a], tokens |-> Deposited,
                 feeCollected |-> 0]]
  /\ \E split \in InitialFeeSplits \cup {[lp |-> WAD, retention |-> 0]} :
       config = [paused |-> FALSE, assetPaused |-> {}, listed |-> Assets,
                 split |-> split, feeTo |-> split \in InitialFeeSplits,
                 mintFeeThreshold |-> 0, haircutRate |-> InitialHaircutRate,
                 withdrawalHaircutRate |-> 0]
  /\ changes = 0

-----------------------------------------------------------------------------
(* Arithmetic and quotes *)

ToWad(a, units) == units * Scale[a]
FromWad(a, wad) == wad \div Scale[a]
Wmul(x, y) == (x * y + WAD \div 2) \div WAD

\* _quoteDepositLiquidity: the liability for an amount, and the LP tokens for
\* a liability.
DepositLiability(r, amount, slip) == IF r.liability = 0 THEN amount ELSE amount + slip
\* The curve divides by the coverage ratio.
Quotable(r) == r.liability > 0 => r.cash > 0

LpTokens(r, minted) ==
  IF r.liability = 0 THEN minted ELSE (minted * r.totalSupply) \div r.liability

\* Mutant: rounds up.
LiabilityToBurnRoundedUp(r, liquidity) ==
  (r.liability * liquidity + r.totalSupply - 1) \div r.totalSupply
LiabilityToBurn(r, liquidity) == (r.liability * liquidity) \div r.totalSupply

\* Coverage ratio of at least 1%.
Covered(r) == 100 * r.cash >= r.liability

-----------------------------------------------------------------------------
(* Sharing out the fees of an asset *)

VeWomDividend(r) == Wmul(r.feeCollected, WAD - config.split.lp - config.split.retention)
LpDividend(r) == Wmul(r.feeCollected, config.split.lp)

\* Neither the transfer to feeTo nor the quote for the LPs reverts.
CanMintFee(a, r, slip) ==
  r.feeCollected > 0 =>
    /\ VeWomDividend(r) > 0 => config.feeTo /\ FromWad(a, VeWomDividend(r)) <= r.tokens
    /\ LpDividend(r) > 0 => Quotable(r) /\ DepositLiability(r, LpDividend(r), slip) >= 0

\* mintFee: a dividend leaves for veWOM, one becomes the LPs', the rest stays
\* in the tip bucket.
FeeMinted(a, r, slip) ==
  IF r.feeCollected = 0 THEN r
  ELSE [r EXCEPT
          !.tokens = @ - FromWad(a, VeWomDividend(r)),
          !.liability = @ + (IF LpDividend(r) > 0
                             THEN DepositLiability(r, LpDividend(r), slip) ELSE 0),
          !.cash = @ + LpDividend(r),
          !.feeCollected = 0]

\* _mintFeeIfNeeded
Due(r) == r.feeCollected > 0 /\ r.feeCollected >= config.mintFeeThreshold
CanSettle(a, r, slip) == Due(r) => CanMintFee(a, r, slip)
Settled(a, r, slip) == IF Due(r) THEN FeeMinted(a, r, slip) ELSE r

-----------------------------------------------------------------------------
(* Deposits and withdrawals *)

InBounds(r) == r.tokens <= MaxTokens /\ r.cash + r.feeCollected <= MaxWad /\ r.liability <= MaxWad

\* The outcome of a call, within the bounds, that changes no setting.
Becomes(assets) ==
  /\ \A a \in Assets : InBounds(assets[a])
  /\ asset' = assets
  /\ UNCHANGED <<config, changes>>

Operational(a) == ~config.paused /\ a \in config.listed

Deposit(a, amount, slip, mintSlip) ==
  LET r == Settled(a, [asset[a] EXCEPT !.tokens = @ + amount], mintSlip)
      minted == DepositLiability(r, ToWad(a, amount), slip)
      liquidity == LpTokens(r, minted)
  IN  /\ Operational(a) /\ a \notin config.assetPaused
      /\ CanSettle(a, [asset[a] EXCEPT !.tokens = @ + amount], mintSlip)
      /\ Quotable(r) /\ minted >= 0 /\ liquidity # 0
      /\ liquidity + r.totalSupply <= MaxSupply
      /\ Becomes([asset EXCEPT ![a] =
                     [r EXCEPT !.cash = @ + ToWad(a, amount),
                               !.liability = @ + minted,
                               !.totalSupply = @ + liquidity]])

\* CoreV4.withdraw, on the settled asset: what an LP gets for its tokens.
Gross(r, liquidity, slip) == LiabilityToBurn(r, liquidity) + slip
WithdrawalHaircut(gross) == Wmul(gross, config.withdrawalHaircutRate)
NetAmount(gross) == gross - WithdrawalHaircut(gross)

\* Mutant: the LP tokens are not burnt.
WithdrawnUnburnt(r, liquidity, gross) ==
  [r EXCEPT !.cash = @ - gross, !.liability = @ - LiabilityToBurn(r, liquidity),
            !.feeCollected = @ + WithdrawalHaircut(gross)]
Withdrawn(r, liquidity, gross) ==
  [r EXCEPT !.totalSupply = @ - liquidity, !.cash = @ - gross,
            !.liability = @ - LiabilityToBurn(r, liquidity),
            !.feeCollected = @ + WithdrawalHaircut(gross)]

CanWithdraw(r, liquidity, gross) ==
  /\ LiabilityToBurn(r, liquidity) # 0
  /\ Quotable(r) /\ gross >= 0 /\ gross <= r.cash
  /\ LiabilityToBurn(r, liquidity) < r.liability => Covered(Withdrawn(r, liquidity, gross))

Withdraw(a, liquidity, slip, mintSlip) ==
  LET r == Settled(a, asset[a], mintSlip)
      gross == Gross(r, liquidity, slip)
      paid == FromWad(a, NetAmount(gross))
  IN  /\ Operational(a) /\ CanSettle(a, asset[a], mintSlip)
      /\ CanWithdraw(r, liquidity, gross)
      /\ paid <= r.tokens
      /\ Becomes([asset EXCEPT ![a] =
                     [Withdrawn(r, liquidity, gross) EXCEPT !.tokens = @ - paid]])

-----------------------------------------------------------------------------
(* Swaps *)

\* quoteSwap and quoteSwapForHighCovRatioPool, which takes a fee where the
\* from-asset comes to more than startCovRatio (at least one).
Haircut(ideal) == Wmul(ideal, config.haircutRate)
ActualToAmount(ideal, covFee) == ideal - Haircut(ideal) - covFee
CanQuote(from, to, amount, ideal, covFee) ==
  /\ from.liability > 0 /\ to.liability > 0 /\ Quotable(from) /\ Quotable(to)
  /\ covFee \in IF from.cash + amount > from.liability THEN CovFees ELSE {0}
  /\ ideal >= 0 /\ ideal <= to.cash
  /\ ActualToAmount(ideal, covFee) >= 0

\* performSwap: the to-asset gives the amount and puts the fee aside.
Given(b, to, ideal, covFee) ==
  [to EXCEPT !.feeCollected = @ + (ideal - ActualToAmount(ideal, covFee)),
             !.cash = @ - ideal,
             !.tokens = @ - FromWad(b, ActualToAmount(ideal, covFee))]

CanGive(b, to, ideal, covFee) ==
  /\ Covered(Given(b, to, ideal, covFee))
  /\ FromWad(b, ActualToAmount(ideal, covFee)) <= to.tokens

Swap(a, b, amount, slip, covFee) ==
  LET ideal == ToWad(a, amount) + slip
  IN  /\ Operational(a) /\ b \in config.listed
      /\ a \notin config.assetPaused
      /\ CanQuote(asset[a], asset[b], ToWad(a, amount), ideal, covFee)
      /\ CanGive(b, asset[b], ideal, covFee)
      /\ Becomes([asset EXCEPT
                     ![a].cash = @ + ToWad(a, amount), ![a].tokens = @ + amount,
                     ![b] = Given(b, @, ideal, covFee)])

\* The amount withdrawn of a is swapped for b without leaving a.
WithdrawFromOtherAsset(a, b, liquidity, slip, mintSlip, swapSlip, covFee) ==
  LET r == Settled(a, asset[a], mintSlip)
      gross == Gross(r, liquidity, slip)
      from == Withdrawn(r, liquidity, gross)
      ideal == NetAmount(gross) + swapSlip
  IN  /\ Operational(a) /\ b \in config.listed
      /\ a \notin config.assetPaused
      /\ CanSettle(a, asset[a], mintSlip)
      /\ CanWithdraw(r, liquidity, gross)
      /\ CanQuote(from, asset[b], NetAmount(gross), ideal, covFee)
      /\ CanGive(b, asset[b], ideal, covFee)
      /\ Becomes([asset EXCEPT
                     ![a] = [from EXCEPT !.cash = @ + NetAmount(gross)],
                     ![b] = Given(b, @, ideal, covFee)])

-----------------------------------------------------------------------------
(* Fees, the tip bucket and skimming *)

\* mintFee, which anyone may call.
MintFee(a, mintSlip) ==
  /\ a \in config.listed /\ asset[a].feeCollected > 0
  /\ CanMintFee(a, asset[a], mintSlip)
  /\ Becomes([asset EXCEPT ![a] = FeeMinted(a, @, mintSlip)])

\* Mutant: the fees that are not shared out yet count as tips.
TipBucketBalanceWithFees(a) == ToWad(a, asset[a].tokens) - asset[a].cash
TipBucketBalance(a) == ToWad(a, asset[a].tokens) - asset[a].cash - asset[a].feeCollected

TransferTipBucket(a, amount) ==
  /\ a \in config.listed /\ amount <= TipBucketBalance(a)
  /\ Becomes([asset EXCEPT ![a].tokens = @ - FromWad(a, amount)])

FillPool(a, amount) ==
  /\ a \in config.listed /\ amount <= TipBucketBalance(a)
  /\ Becomes([asset EXCEPT ![a].cash = @ + amount])

\* SkimmableAsset.skim: the tokens beyond the cash, after the fees are shared out.
Skim(a, mintSlip) ==
  LET r == FeeMinted(a, asset[a], mintSlip)
  IN  /\ a \in Skimmable /\ a \in config.listed
      /\ CanMintFee(a, asset[a], mintSlip)
      /\ FromWad(a, r.cash) <= r.tokens
      /\ Becomes([asset EXCEPT ![a] = [r EXCEPT !.tokens = FromWad(a, r.cash)]])

\* A rebasing token credits its holders.
Rebase(a, amount) ==
  /\ a \in Skimmable
  /\ Becomes([asset EXCEPT ![a].tokens = @ + amount])

-----------------------------------------------------------------------------
(* Settings *)

Configure(new) ==
  /\ new # config /\ changes < MaxChanges
  /\ config' = new /\ changes' = changes + 1

\* setFee shares out the fees of every listed asset by the old split.
SetFee(split, mintSlips) ==
  /\ \A a \in config.listed : CanMintFee(a, asset[a], mintSlips[a])
  /\ asset' = [a \in Assets |-> IF a \in config.listed
                                THEN FeeMinted(a, asset[a], mintSlips[a]) ELSE asset[a]]
  /\ \A a \in Assets : InBounds(asset'[a])
  /\ changes < MaxChanges /\ changes' = changes + 1
  /\ config' = [config EXCEPT !.split = split]

PauseAsset(a) ==
  /\ a \in config.listed /\ a \notin config.assetPaused
  /\ Configure([config EXCEPT !.assetPaused = @ \cup {a}])
  /\ UNCHANGED asset

UnpauseAsset(a) ==
  /\ a \in config.assetPaused
  /\ Configure([config EXCEPT !.assetPaused = @ \ {a}])
  /\ UNCHANGED asset

AddAsset(a) ==
  /\ a \notin config.listed
  /\ Configure([config EXCEPT !.listed = @ \cup {a}])
  /\ UNCHANGED asset

RemoveAsset(a) ==
  /\ a \in config.listed
  /\ Configure([config EXCEPT !.listed = @ \ {a}])
  /\ UNCHANGED asset

\* pause, unpause, setFeeTo and the setters of rates and of the threshold
Adjust ==
  /\ UNCHANGED asset
  /\ \/ Configure([config EXCEPT !.paused = ~@])
     \/ Configure([config EXCEPT !.feeTo = TRUE])
     \/ \E t \in Thresholds : Configure([config EXCEPT !.mintFeeThreshold = t])
     \/ \E h \in HaircutRates : Configure([config EXCEPT !.haircutRate = h])
     \/ \E h \in WithdrawalHaircutRates :
          Configure([config EXCEPT !.withdrawalHaircutRate = h])

-----------------------------------------------------------------------------

\* Where no fee is shared out the curve is not asked for one.
MintSlips(a) == IF asset[a].feeCollected = 0 THEN {0} ELSE Slips

Use(a) ==
  \/ \E amount \in Amounts, slip \in Slips, mintSlip \in MintSlips(a) :
       Deposit(a, amount, slip, mintSlip)
  \/ \E liquidity \in 1 .. asset[a].totalSupply, slip \in Slips, mintSlip \in MintSlips(a) :
       \/ Withdraw(a, liquidity, slip, mintSlip)
       \/ \E b \in Assets \ {a}, swapSlip \in SwapSlips, covFee \in CovFees \cup {0} :
            WithdrawFromOtherAsset(a, b, liquidity, slip, mintSlip, swapSlip, covFee)
  \/ \E b \in Assets \ {a}, amount \in Amounts, slip \in SwapSlips, covFee \in CovFees \cup {0} :
       Swap(a, b, amount, slip, covFee)
  \/ \E mintSlip \in MintSlips(a) : MintFee(a, mintSlip) \/ Skim(a, mintSlip)
  \/ \E amount \in Amounts : Rebase(a, amount)
  \/ \E amount \in TipAmounts : TransferTipBucket(a, amount) \/ FillPool(a, amount)

Manage ==
  \/ \E split \in FeeSplits, mintSlips \in [Assets -> Slips] : SetFee(split, mintSlips)
  \/ \E a \in Assets : PauseAsset(a) \/ UnpauseAsset(a) \/ AddAsset(a) \/ RemoveAsset(a)
  \/ Adjust

Next == (\E a \in Assets : Use(a)) \/ Manage

Spec == Init /\ [][Next]_vars

-----------------------------------------------------------------------------
(* What the pool promises *)

(***************************************************************************)
(* In units of the token, an asset holds its cash and its fees.  What it   *)
(* is short of them only grows when a fee is shared out whose two          *)
(* dividends are both rounded up, and then by one unit: neither the        *)
(* rounding between wad and token decimals, nor a fee taken in the middle  *)
(* of a withdrawal, nor emptying the tip bucket or skimming takes tokens   *)
(* that LPs or fees are owed (Asset.sol:27, cash "should align with" the   *)
(* balance; CoreV4.sol, mintFee and tipBucketBalance).                     *)
(***************************************************************************)
Shortfall(a, r) ==
  LET owed == FromWad(a, r.cash + r.feeCollected)
  IN  IF owed > r.tokens THEN owed - r.tokens ELSE 0
Overshared(r) == IF VeWomDividend(r) + LpDividend(r) > r.feeCollected THEN 1 ELSE 0

ShortOnlyByRounding ==
  [][\A a \in Assets : Shortfall(a, asset'[a]) <= Shortfall(a, asset[a]) + Overshared(asset[a])]_vars

(***************************************************************************)
(* LP tokens always have a liability behind them.  Otherwise the next      *)
(* deposit would be taken for the first one and be given LP tokens one to  *)
(* one, for which the old holders pay (CoreV4.sol, _quoteDepositLiquidity).*)
(***************************************************************************)
LpTokensBacked ==
  \A a \in Assets : asset[a].totalSupply > 0 => asset[a].liability > 0

(***************************************************************************)
(* The exchange rate of an LP token, liability over supply, never falls:   *)
(* nobody's deposit, withdrawal or fee, however it is rounded, takes from  *)
(* those who hold LP tokens (PoolV4.sol, exchangeRate).                    *)
(***************************************************************************)
RateKept(r, s) ==
  r.totalSupply > 0 /\ s.totalSupply > 0 =>
    s.liability * r.totalSupply >= r.liability * s.totalSupply

ExchangeRateKept == [][\A a \in Assets : RateKept(asset[a], asset'[a])]_vars
=============================================================================
