--------------------------- MODULE CrossChainPool ---------------------------
(***************************************************************************)
(* The CrossChainPool contract of every chain: one asset per pool, its     *)
(* cash and collected fees (in wad), the underlying tokens the asset holds *)
(* (in token units), the credit counters and the credit balances.          *)
(*                                                                         *)
(* This module has the pool's operations.  WormholeBridge and              *)
(* LayerZeroBridge compose them with an adaptor contract and a network;    *)
(* the operations that call the adaptor are therefore only the pool's      *)
(* half of a step.  A revert undoes the whole transaction, so a reverting  *)
(* call is a step that is not enabled.                                     *)
(*                                                                         *)
(* The price curve is abstracted: a quote is any value of a small set that *)
(* passes the checks CoreV3 makes on it.  The pools have been set up: LPs  *)
(* have deposited, feeTo and the fee are set.  Of what CrossChainPool      *)
(* inherits from PoolV3, the fees and the tip bucket are here; the LPs'    *)
(* deposits and withdrawals and the swaps within the pool are not.         *)
(***************************************************************************)
EXTENDS Integers, FiniteSets

CONSTANTS
  Chains, Users,
  Adaptors,         \* names of adaptor deployments (each exists on each chain)
  FirstAdaptor,     \* the deployment the pools are configured with at first
  Amounts,          \* token amounts a user swaps (token units)
  Credits,          \* credit amounts the curve can quote (wad)
  Outs,             \* token amounts the curve can quote for credit (wad)
  Fees,             \* haircuts and high-coverage-ratio fees (wad)
  MinAmounts,       \* minimumToAmount a user can ask for (token units)
  Scale,            \* wad per token unit: 10^(18 - decimals)
  WAD,              \* a ratio of one: 10^18
  Ratios,           \* values of the two ratios of the fee the owner may set
  InitialLpDividendRatio, InitialRetentionRatio,
  Minted,           \* liabilities the curve can quote for a dividend (wad)
  TipAmounts,       \* amounts moved out of the tip bucket (wad)
  InitialCash,      \* token units deposited by LPs in each asset
  Limits,           \* values of the credit limits the owner may set
  InitialLimit

ASSUME PoolAssumption ==
  /\ IsFiniteSet(Chains) /\ IsFiniteSet(Users)
  /\ FirstAdaptor \in Adaptors
  /\ Amounts \subseteq Nat \ {0}
  /\ Credits \subseteq Nat /\ Outs \subseteq Nat /\ Fees \subseteq Nat
  /\ MinAmounts \subseteq Nat
  /\ Scale \in Nat \ {0} /\ WAD \in Nat \ {0}
  /\ Ratios \subseteq Nat
  /\ InitialLpDividendRatio \in Nat /\ InitialRetentionRatio \in Nat
  /\ InitialLpDividendRatio + InitialRetentionRatio <= WAD
  /\ Minted \subseteq Nat /\ TipAmounts \subseteq Nat
  /\ InitialCash \in Nat \ {0}
  /\ Limits \subseteq Nat /\ InitialLimit \in Nat

VARIABLES
  cash, liability, \* Asset.cash, Asset.liability, wad
  feeCollected,    \* _feeCollected[asset], wad
  balance,         \* underlying tokens held by the asset, token units
  totalCreditMinted, totalCreditBurned,
  creditBalance,   \* creditBalance[c][u]
  config           \* what the owner and the dev set

assetVars == <<cash, liability, feeCollected, balance>>
poolVars == <<assetVars, totalCreditMinted, totalCreditBurned, creditBalance, config>>

Config == [paused : BOOLEAN,              \* whenNotPaused
           assetPaused : BOOLEAN,         \* requireAssetNotPaused(token)
           tokensForCredit : BOOLEAN,     \* swapTokensForCreditEnabled
           creditForTokens : BOOLEAN,     \* swapCreditForTokensEnabled
           maxOutbound : Nat, maxInbound : Nat,
           split : {s \in [lp : Nat, retention : Nat] : s.lp + s.retention <= WAD},
           adaptor : Adaptors]

PoolTypeOK ==
  /\ cash \in [Chains -> Nat]
  /\ liability \in [Chains -> Nat]
  /\ feeCollected \in [Chains -> Nat]
  /\ balance \in [Chains -> Nat]
  /\ totalCreditMinted \in [Chains -> Nat]
  /\ totalCreditBurned \in [Chains -> Nat]
  /\ creditBalance \in [Chains -> [Users -> Nat]]
  /\ config \in [Chains -> Config]

PoolInit ==
  /\ cash = [c \in Chains |-> InitialCash * Scale]
  /\ liability = [c \in Chains |-> InitialCash * Scale]
  /\ feeCollected = [c \in Chains |-> 0]
  /\ balance = [c \in Chains |-> InitialCash]
  /\ totalCreditMinted = [c \in Chains |-> 0]
  /\ totalCreditBurned = [c \in Chains |-> 0]
  /\ creditBalance = [c \in Chains |-> [u \in Users |-> 0]]
  /\ config = [c \in Chains |->
                 [paused |-> FALSE, assetPaused |-> FALSE,
                  tokensForCredit |-> TRUE, creditForTokens |-> TRUE,
                  maxOutbound |-> InitialLimit, maxInbound |-> InitialLimit,
                  split |-> [lp |-> InitialLpDividendRatio,
                             retention |-> InitialRetentionRatio],
                  adaptor |-> FirstAdaptor]]

ToWad(units) == units * Scale
FromWad(wad) == wad \div Scale
Wmul(x, y) == (x * y + WAD \div 2) \div WAD

-----------------------------------------------------------------------------
(* Swapping tokens into credit *)

\* CoreV3.quoteSwapTokensForCredit: a fee on the from-token and some credit.
TokensForCreditQuotes(amount) ==
  {q \in [credit : Credits, fee : Fees] : q.fee <= ToWad(amount)}

\* Mutant: the limit is compared without the credit being minted.
CanSwapTokensForCreditStaleLimit(c, q) ==
  /\ ~config[c].paused /\ ~config[c].assetPaused /\ config[c].tokensForCredit
  /\ q.credit # 0
  /\ totalCreditMinted[c] <= config[c].maxOutbound + totalCreditBurned[c]

\* The checks of swapTokensForTokensCrossChain and _swapTokensForCredit.  The
\* caller's minimumCreditAmount turns quotes down and changes nothing else.
CanSwapTokensForCredit(c, q) ==
  /\ ~config[c].paused
  /\ ~config[c].assetPaused
  /\ config[c].tokensForCredit
  /\ q.credit # 0
  /\ totalCreditMinted[c] + q.credit <= config[c].maxOutbound + totalCreditBurned[c]

SwapTokensForCredit(c, amount, q) ==
  /\ CanSwapTokensForCredit(c, q)
  /\ balance' = [balance EXCEPT ![c] = @ + amount]
  /\ cash' = [cash EXCEPT ![c] = @ + (ToWad(amount) - q.fee)]
  /\ totalCreditMinted' = [totalCreditMinted EXCEPT ![c] = @ + q.credit]
  /\ feeCollected' = [feeCollected EXCEPT ![c] = @ + q.fee]
  /\ UNCHANGED <<liability, totalCreditBurned, creditBalance, config>>

-----------------------------------------------------------------------------
(* Swapping credit into tokens *)

\* CoreV3.quoteSwapCreditForTokens; it reverts when the cash is not enough.
CreditForTokensQuotes == [out : Outs, fee : Fees]

\* The checks of completeSwapCreditForTokens, _doSwapCreditForTokens and
\* _swapCreditForTokens (a coverage ratio of at least 1%), and the asset's
\* transfer, which reverts when it is short of tokens.
CanSwapCreditForTokens(c, amount, minTo, q) ==
  /\ ~config[c].paused
  /\ config[c].creditForTokens
  /\ q.out + q.fee <= cash[c]
  /\ ToWad(minTo) <= q.out
  /\ 100 * (cash[c] - (q.out + q.fee)) >= liability[c]
  /\ FromWad(q.out) <= balance[c]
  /\ totalCreditBurned[c] + amount <= config[c].maxInbound + totalCreditMinted[c]

DoSwapCreditForTokens(c, amount, minTo, q) ==
  /\ CanSwapCreditForTokens(c, amount, minTo, q)
  /\ feeCollected' = [feeCollected EXCEPT ![c] = @ + q.fee]
  /\ cash' = [cash EXCEPT ![c] = @ - (q.out + q.fee)]
  /\ balance' = [balance EXCEPT ![c] = @ - FromWad(q.out)]
  /\ totalCreditBurned' = [totalCreditBurned EXCEPT ![c] = @ + amount]
  /\ UNCHANGED <<liability, totalCreditMinted, config>>

\* Mutant: the unchecked subtraction without the check before it.
SpendCreditUnchecked(c, u, amount) ==
  /\ amount > 0
  /\ creditBalance' = [creditBalance EXCEPT ![c][u] = @ - amount]

\* Mutant: the balance is checked and not reduced.
SpendCreditKeepsBalance(c, u, amount) ==
  /\ amount > 0
  /\ amount <= creditBalance[c][u]
  /\ creditBalance' = creditBalance

\* _beforeSwapCreditForTokens: the sender pays with its credit balance.
SpendCredit(c, u, amount) ==
  /\ amount > 0
  /\ amount <= creditBalance[c][u]
  /\ creditBalance' = [creditBalance EXCEPT ![c][u] = @ - amount]

\* swapCreditForTokens
SwapCreditForTokens(c, u, amount, minTo, q) ==
  /\ SpendCredit(c, u, amount)
  /\ DoSwapCreditForTokens(c, amount, minTo, q)

\* The pool's half of swapCreditForTokensCrossChain.
SwapCreditCrossChain(c, u, amount) ==
  /\ ~config[c].paused
  /\ SpendCredit(c, u, amount)
  /\ UNCHANGED <<assetVars, totalCreditMinted, totalCreditBurned, config>>

-----------------------------------------------------------------------------
(* Calls of the adaptor *)

\* _onlyAdaptor
OnlyAdaptor(c, a) == config[c].adaptor = a

CompleteSwapCreditForTokens(c, a, amount, minTo, q) ==
  /\ OnlyAdaptor(c, a)
  /\ DoSwapCreditForTokens(c, amount, minTo, q)
  /\ UNCHANGED creditBalance

\* Mutant: mintCredit is guarded by whenNotPaused.
MintCreditWhenNotPaused(c, a, amount, receiver) ==
  /\ OnlyAdaptor(c, a)
  /\ ~config[c].paused
  /\ creditBalance' = [creditBalance EXCEPT ![c][receiver] = @ + amount]
  /\ UNCHANGED <<assetVars, totalCreditMinted, totalCreditBurned, config>>

MintCredit(c, a, amount, receiver) ==
  /\ OnlyAdaptor(c, a)
  /\ creditBalance' = [creditBalance EXCEPT ![c][receiver] = @ + amount]
  /\ UNCHANGED <<assetVars, totalCreditMinted, totalCreditBurned, config>>

-----------------------------------------------------------------------------
(* The fees and the tip bucket, inherited from PoolV3 *)

VeWomDividend(c) ==
  Wmul(feeCollected[c], WAD - config[c].split.lp - config[c].split.retention)
LpDividend(c) == Wmul(feeCollected[c], config[c].split.lp)

\* Neither the transfer to feeTo nor the quote for the LPs reverts.
CanShareFee(c) ==
  /\ FromWad(VeWomDividend(c)) <= balance[c]
  /\ LpDividend(c) > 0 /\ liability[c] > 0 => cash[c] > 0

\* Mutant: the fee is shared out and still counts as collected.
ShareFeeKeepsFee(c, minted) ==
  /\ CanShareFee(c)
  /\ balance' = [balance EXCEPT ![c] = @ - FromWad(VeWomDividend(c))]
  /\ cash' = [cash EXCEPT ![c] = @ + LpDividend(c)]
  /\ liability' = [liability EXCEPT ![c] = @ + IF LpDividend(c) > 0 THEN minted ELSE 0]
  /\ UNCHANGED <<feeCollected, totalCreditMinted, totalCreditBurned, creditBalance>>

\* _mintFee: a dividend leaves for veWOM, one becomes the LPs', the rest stays
\* in the tip bucket.  With no fee collected it changes nothing.
ShareFee(c, minted) ==
  /\ CanShareFee(c)
  /\ balance' = [balance EXCEPT ![c] = @ - FromWad(VeWomDividend(c))]
  /\ cash' = [cash EXCEPT ![c] = @ + LpDividend(c)]
  /\ liability' = [liability EXCEPT ![c] = @ + IF LpDividend(c) > 0 THEN minted ELSE 0]
  /\ feeCollected' = [feeCollected EXCEPT ![c] = 0]
  /\ UNCHANGED <<totalCreditMinted, totalCreditBurned, creditBalance>>

\* Open to anybody.
MintFee(c) ==
  /\ feeCollected[c] > 0
  /\ \E minted \in Minted : ShareFee(c, minted)
  /\ UNCHANGED config

\* setFee shares out what was collected by the old split.
SetFee(c, lp, retention) ==
  /\ lp + retention <= WAD
  /\ \E minted \in Minted : ShareFee(c, minted)
  /\ config' = [config EXCEPT ![c].split = [lp |-> lp, retention |-> retention]]

TipBucketBalance(c) == ToWad(balance[c]) - cash[c] - feeCollected[c]

TransferTipBucket(c, amount) ==
  /\ amount <= TipBucketBalance(c)
  /\ balance' = [balance EXCEPT ![c] = @ - FromWad(amount)]
  /\ UNCHANGED <<cash, liability, feeCollected, totalCreditMinted, totalCreditBurned,
                 creditBalance, config>>

FillPool(c, amount) ==
  /\ amount <= TipBucketBalance(c)
  /\ cash' = [cash EXCEPT ![c] = @ + amount]
  /\ UNCHANGED <<liability, feeCollected, balance, totalCreditMinted, totalCreditBurned,
                 creditBalance, config>>

-----------------------------------------------------------------------------
(* Permissioned functions: pause, unpause, pauseAsset, unpauseAsset, the   *)
(* two switches, the two limits, the address of the adaptor, the fee and   *)
(* the tip bucket.                                                         *)

Reconfigure(c, new) ==
  /\ config' = [config EXCEPT ![c] = new]
  /\ UNCHANGED <<assetVars, totalCreditMinted, totalCreditBurned, creditBalance>>

TogglePause(c) ==
  Reconfigure(c, [config[c] EXCEPT !.paused = ~@])
ToggleAssetPause(c) ==
  Reconfigure(c, [config[c] EXCEPT !.assetPaused = ~@])
SetSwapTokensForCreditEnabled(c) ==
  Reconfigure(c, [config[c] EXCEPT !.tokensForCredit = ~@])
SetSwapCreditForTokensEnabled(c) ==
  Reconfigure(c, [config[c] EXCEPT !.creditForTokens = ~@])
SetMaximumOutboundCredit(c, limit) ==
  Reconfigure(c, [config[c] EXCEPT !.maxOutbound = limit])
SetMaximumInboundCredit(c, limit) ==
  Reconfigure(c, [config[c] EXCEPT !.maxInbound = limit])
SetAdaptorAddr(c, a) ==
  Reconfigure(c, [config[c] EXCEPT !.adaptor = a])

PoolAdmin(c) ==
  \/ TogglePause(c)
  \/ ToggleAssetPause(c)
  \/ SetSwapTokensForCreditEnabled(c)
  \/ SetSwapCreditForTokensEnabled(c)
  \/ \E limit \in Limits : \/ SetMaximumOutboundCredit(c, limit)
                           \/ SetMaximumInboundCredit(c, limit)
  \/ \E lp, retention \in Ratios : SetFee(c, lp, retention)
  \/ \E amount \in TipAmounts : TransferTipBucket(c, amount) \/ FillPool(c, amount)

-----------------------------------------------------------------------------
(* What the pools promise *)

(***************************************************************************)
(* What the tokens of an asset are short of its cash and fees only grows   *)
(* when fees are shared out, and then by one wad: mintFee rounds both      *)
(* dividends to the nearest.  No swap in either direction, no change of    *)
(* the fee, no use of the tip bucket takes tokens that are owed, whatever  *)
(* the decimals: short of them, tipBucketBalance underflows and the last   *)
(* claim on the asset cannot be paid.  (PoolV3.sol:947, 955, 886;          *)
(* _swapTokensForCredit, _doSwapCreditForTokens)                           *)
(***************************************************************************)
Shortfall(c) ==
  LET owed == cash[c] + feeCollected[c]
  IN  IF owed > ToWad(balance[c]) THEN owed - ToWad(balance[c]) ELSE 0

FeeSharedOut(c) == feeCollected[c] > 0 /\ feeCollected[c]' = 0

ShortOnlyByRounding ==
  [][\A c \in Chains :
       Shortfall(c)' <= Shortfall(c) + (IF FeeSharedOut(c) THEN 1 ELSE 0)]_poolVars

(***************************************************************************)
(* The credit limits hold in the direction they limit: a step after which  *)
(* more credit is out (in) than before leaves the net at or below the      *)
(* limit in force, however the owner moved the limits in between.          *)
(* (CrossChainPool.sol:34, 35, maximumOutboundCredit, maximumInboundCredit)*)
(***************************************************************************)
Net(c) == totalCreditMinted[c] - totalCreditBurned[c]

LimitsRespected ==
  [][\A c \in Chains :
       /\ Net(c)' > Net(c) => Net(c)' <= config[c].maxOutbound
       /\ Net(c)' < Net(c) => -(Net(c)') <= config[c].maxInbound]_poolVars
=============================================================================
