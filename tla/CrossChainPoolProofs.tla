------------------------ MODULE CrossChainPoolProofs ------------------------
(***************************************************************************)
(* What each operation of a CrossChainPool keeps: the types of the pool's  *)
(* state, the tokens that cash and fees are owed but for a wad each time   *)
(* the fees are shared out, and the credit limits.  The bridges' proofs    *)
(* cite these lemmas, one for each operation.                              *)
(***************************************************************************)
EXTENDS CrossChainPool, SumProofs

-----------------------------------------------------------------------------
(* Rounding *)

(* fromWad rounds down: turned back into wad, the tokens paid out are worth *)
(* at most the wad amount they stand for (DSMath.fromWad).                  *)
LEMMA FromWadRoundsDown ==
  ASSUME NEW wad \in Nat
  PROVE  /\ FromWad(wad) \in Nat
         /\ ToWad(FromWad(wad)) <= wad
<1>1. Scale \in Nat /\ Scale > 0
  BY PoolAssumption
<1> QED
  BY <1>1, SMT DEF FromWad, ToWad

(* toWad is additive, so that a deposit of tokens is worth what it adds.    *)
LEMMA ToWadAdds ==
  ASSUME NEW m \in Int, NEW n \in Int
  PROVE  /\ ToWad(m) \in Int
         /\ ToWad(m + n) = ToWad(m) + ToWad(n)
         /\ ToWad(m - n) = ToWad(m) - ToWad(n)
<1>1. Scale \in Nat /\ Scale > 0
  BY PoolAssumption
<1> QED
  BY <1>1, SMT DEF ToWad

(* An amount whose wad value is not negative is not negative.               *)
LEMMA ToWadMonotone ==
  ASSUME NEW m \in Int, ToWad(m) >= 0
  PROVE  m \in Nat
<1>1. Scale \in Nat /\ Scale > 0
  BY PoolAssumption
<1> QED
  BY <1>1, SMT DEF ToWad

(* toWad keeps natural numbers natural.                                     *)
LEMMA ToWadNat ==
  ASSUME NEW m \in Nat
  PROVE  ToWad(m) \in Nat
<1>1. Scale \in Nat /\ Scale > 0
  BY PoolAssumption
<1> QED
  BY <1>1, SMT DEF ToWad

(* wmul is a natural number, within half a unit of the exact product.       *)
LEMMA WmulNearest ==
  ASSUME NEW x \in Nat, NEW y \in Nat
  PROVE  /\ Wmul(x, y) \in Nat
         /\ 2 * (WAD * Wmul(x, y)) <= 2 * (x * y) + WAD
<1> DEFINE z == x * y + WAD \div 2
<1>1. WAD \in Nat /\ WAD > 0
  BY PoolAssumption
<1>2. WAD \div 2 \in Nat /\ 2 * (WAD \div 2) <= WAD
  BY <1>1
<1>3. x * y \in Nat
  OBVIOUS
<1>4. z \in Nat
  BY <1>2, <1>3
<1>5. Wmul(x, y) = z \div WAD
  BY DEF Wmul
<1> DEFINE h == WAD \div 2
           w == z \div WAD
<1>6. z = x * y + h
  OBVIOUS
<1> HIDE DEF z
<1>7. w \in Nat /\ WAD * w <= z
  BY <1>1, <1>4
<1> HIDE DEF h, w
<1>8. WAD * w \in Nat
  BY <1>1, <1>7
<1>9. h \in Nat /\ 2 * h <= WAD
  BY <1>2 DEF h
<1>10. 2 * (WAD * w) <= 2 * (x * y) + WAD
  BY <1>1, <1>3, <1>6, <1>7, <1>8, <1>9
<1> QED
  BY <1>5, <1>7, <1>10 DEF w

(* A share of nothing is nothing.                                           *)
LEMMA WmulZero == \A n \in Nat : Wmul(0, n) = 0
<1> TAKE n \in Nat
<1>1. WAD \in Nat /\ WAD > 0
  BY PoolAssumption
<1>2. 0 * n = 0 /\ WAD \div 2 \in Nat /\ WAD \div 2 < WAD
  BY <1>1
<1>3. Wmul(0, n) = (WAD \div 2) \div WAD
  BY <1>2 DEF Wmul
<1> DEFINE h == WAD \div 2
<1>4. h \div WAD = 0
  <2>1. h \in Nat /\ h < WAD
    BY <1>2
  <2> HIDE DEF h
  <2> QED
    BY <1>1, <2>1
<1> QED
  BY <1>3, <1>4

(* Two parts that come to at most one are rounded to at most one wad more   *)
(* than the whole. (_mintFee)                                               *)
LEMMA TwoParts ==
  ASSUME NEW x \in Nat, NEW y \in Nat, NEW z \in Nat, y + z <= WAD
  PROVE  Wmul(x, y) + Wmul(x, z) <= x + 1
<1>1. WAD \in Nat /\ WAD > 0
  BY PoolAssumption
<1> DEFINE v == Wmul(x, y)
           w == Wmul(x, z)
<1>2. /\ v \in Nat /\ 2 * (WAD * v) <= 2 * (x * y) + WAD
      /\ w \in Nat /\ 2 * (WAD * w) <= 2 * (x * z) + WAD
  BY WmulNearest
<1> HIDE DEF v, w
<1>3. x * y + x * z <= x * WAD
  <2>1. x * y + x * z = x * (y + z)
    BY <1>1
  <2>2. x * (y + z) <= x * WAD
    BY <1>1
  <2> QED
    BY <2>1, <2>2
<1>4. WAD * (v + w) <= WAD * (x + 1)
  <2>1. WAD * (v + w) = WAD * v + WAD * w /\ WAD * (x + 1) = x * WAD + WAD
    BY <1>1, <1>2
  <2>2. x * y \in Nat /\ x * z \in Nat /\ x * WAD \in Nat /\ WAD * v \in Nat /\ WAD * w \in Nat
    BY <1>1, <1>2
  <2> QED
    BY <1>1, <1>2, <1>3, <2>1, <2>2
<1>5. v + w <= x + 1
  BY <1>1, <1>2, <1>4
<1> QED
  BY <1>5 DEF v, w

-----------------------------------------------------------------------------
(* The tokens that are owed *)

\* The step that ShortOnlyByRounding asks of every chain.
ShortKept ==
  \A c \in Chains : Shortfall(c)' <= Shortfall(c) + (IF FeeSharedOut(c) THEN 1 ELSE 0)

\* What an asset is short of, negative where it holds more.
Owing(c) == cash[c] + feeCollected[c] - ToWad(balance[c])

LEMMA ShortfallOfOwing ==
  ASSUME PoolTypeOK, NEW c \in Chains
  PROVE  /\ Owing(c) \in Int
         /\ Shortfall(c) = IF Owing(c) > 0 THEN Owing(c) ELSE 0
<1>1. cash[c] \in Nat /\ feeCollected[c] \in Nat /\ balance[c] \in Nat
  BY DEF PoolTypeOK
<1>2. ToWad(balance[c]) \in Nat
  BY <1>1, ToWadNat
<1> QED
  BY <1>1, <1>2 DEF Owing, Shortfall

(* It is enough to look at the one asset a step is about, and at what is    *)
(* owing rather than short.                                                 *)
LEMMA OneAsset ==
  ASSUME PoolTypeOK, PoolTypeOK', NEW c \in Chains,
         \A d \in Chains : d # c => UNCHANGED <<cash[d], feeCollected[d], balance[d]>>,
         Owing(c)' <= Owing(c) + (IF FeeSharedOut(c) THEN 1 ELSE 0)
  PROVE  ShortKept
<1>1. ASSUME NEW d \in Chains
      PROVE  /\ Owing(d) \in Int /\ Owing(d)' \in Int
             /\ Shortfall(d) = IF Owing(d) > 0 THEN Owing(d) ELSE 0
             /\ Shortfall(d)' = IF Owing(d)' > 0 THEN Owing(d)' ELSE 0
  <2>1. Owing(d) \in Int /\ Shortfall(d) = IF Owing(d) > 0 THEN Owing(d) ELSE 0
    BY ShortfallOfOwing
  <2>2. Owing(d)' \in Int /\ Shortfall(d)' = IF Owing(d)' > 0 THEN Owing(d)' ELSE 0
    <3>1. cash'[d] \in Nat /\ feeCollected'[d] \in Nat /\ balance'[d] \in Nat
      BY DEF PoolTypeOK
    <3>2. ToWad(balance'[d]) \in Nat
      BY <3>1, ToWadNat
    <3> QED
      BY <3>1, <3>2 DEF Owing, Shortfall, ToWad
  <2> QED
    BY <2>1, <2>2
<1> SUFFICES ASSUME NEW d \in Chains
             PROVE  Shortfall(d)' <= Shortfall(d) + (IF FeeSharedOut(d) THEN 1 ELSE 0)
  BY DEF ShortKept
<1>2. CASE d = c
  BY <1>1, <1>2
<1>3. CASE d # c
  <2>1. Owing(d)' = Owing(d)
    BY <1>3 DEF Owing, ToWad
  <2> QED
    BY <1>1, <2>1
<1> QED
  BY <1>2, <1>3

(* A step that leaves the assets alone leaves them no shorter.              *)
LEMMA AssetsUnchanged ==
  ASSUME PoolTypeOK, UNCHANGED assetVars
  PROVE  ShortKept
<1> SUFFICES ASSUME NEW c \in Chains
             PROVE  Shortfall(c)' <= Shortfall(c) + (IF FeeSharedOut(c) THEN 1 ELSE 0)
  BY DEF ShortKept
<1>1. Shortfall(c)' = Shortfall(c)
  BY DEF assetVars, Shortfall, ToWad
<1>2. Shortfall(c) \in Int
  BY ShortfallOfOwing
<1> QED
  BY <1>1, <1>2

-----------------------------------------------------------------------------
(* The operations of the pool *)

(* The pools start well typed. (PoolInit)                                   *)
LEMMA PoolInitType == PoolInit => PoolTypeOK
<1>1. InitialCash \in Nat /\ InitialCash * Scale \in Nat
  BY PoolAssumption, ToWadNat DEF ToWad
<1> QED
  BY <1>1, PoolAssumption DEF PoolInit, PoolTypeOK, Config

(* Tokens paid in cover the cash and the fee they add.                      *)
(* (swapTokensForTokensCrossChain, _swapTokensForCredit)                    *)
LEMMA SwapTokensForCreditKeeps ==
  ASSUME PoolTypeOK, NEW c \in Chains, NEW amount \in Amounts,
         NEW q \in TokensForCreditQuotes(amount),
         SwapTokensForCredit(c, amount, q)
  PROVE  PoolTypeOK' /\ ShortKept
<1>1. /\ amount \in Nat /\ q.credit \in Nat /\ q.fee \in Nat
      /\ ToWad(amount) \in Nat /\ q.fee <= ToWad(amount)
  <2>1. amount \in Nat
    BY PoolAssumption
  <2>2. q.credit \in Credits /\ q.fee \in Fees /\ q.fee <= ToWad(amount)
    BY DEF TokensForCreditQuotes
  <2> QED
    BY <2>1, <2>2, ToWadNat, PoolAssumption
<1>2. PoolTypeOK'
  BY <1>1 DEF PoolTypeOK, SwapTokensForCredit
<1>3. cash[c] \in Nat /\ feeCollected[c] \in Nat /\ balance[c] \in Nat
  BY DEF PoolTypeOK
<1>4. /\ cash'[c] = cash[c] + (ToWad(amount) - q.fee)
      /\ feeCollected'[c] = feeCollected[c] + q.fee
      /\ balance'[c] = balance[c] + amount
  BY DEF PoolTypeOK, SwapTokensForCredit
<1>5. \A d \in Chains : d # c => UNCHANGED <<cash[d], feeCollected[d], balance[d]>>
  BY DEF PoolTypeOK, SwapTokensForCredit
<1>6. /\ ToWad(balance'[c]) = ToWad(balance[c]) + ToWad(amount)
      /\ ToWad(balance[c]) \in Nat
  <2>1. ToWad(balance[c] + amount) = ToWad(balance[c]) + ToWad(amount)
    BY <1>1, <1>3, ToWadAdds
  <2> QED
    BY <1>3, <1>4, <2>1, ToWadNat, Zenon
<1>7. Owing(c)' = Owing(c) /\ Owing(c) \in Int
  <2>1. Owing(c)' = cash'[c] + feeCollected'[c] - ToWad(balance'[c])
    BY DEF Owing, ToWad
  <2> QED
    BY <1>1, <1>3, <1>4, <1>6, <2>1 DEF Owing
<1>8. Owing(c)' <= Owing(c) + (IF FeeSharedOut(c) THEN 1 ELSE 0)
  BY <1>7
<1> QED
  BY <1>2, <1>5, <1>8, OneAsset

(* The tokens paid out and the fee kept are worth at most the cash taken    *)
(* away. (_doSwapCreditForTokens, _swapCreditForTokens)                     *)
LEMMA DoSwapCreditForTokensKeeps ==
  ASSUME PoolTypeOK, NEW c \in Chains, NEW amount \in Nat, NEW minTo,
         NEW q \in CreditForTokensQuotes,
         DoSwapCreditForTokens(c, amount, minTo, q),
         creditBalance' \in [Chains -> [Users -> Nat]]
  PROVE  PoolTypeOK' /\ ShortKept
<1>1. /\ q.out \in Nat /\ q.fee \in Nat
      /\ q.out + q.fee <= cash[c]
      /\ cash[c] \in Nat /\ feeCollected[c] \in Nat /\ balance[c] \in Nat
      /\ FromWad(q.out) <= balance[c]
  BY PoolAssumption
  DEF CreditForTokensQuotes, DoSwapCreditForTokens, CanSwapCreditForTokens, PoolTypeOK
<1>2. FromWad(q.out) \in Nat /\ ToWad(FromWad(q.out)) \in Nat /\ ToWad(FromWad(q.out)) <= q.out
  BY <1>1, FromWadRoundsDown, ToWadNat
<1>3. /\ cash'[c] = cash[c] - (q.out + q.fee)
      /\ feeCollected'[c] = feeCollected[c] + q.fee
      /\ balance'[c] = balance[c] - FromWad(q.out)
  BY DEF PoolTypeOK, DoSwapCreditForTokens
<1>4. PoolTypeOK'
  <2>1. /\ cash[c] - (q.out + q.fee) \in Nat
        /\ feeCollected[c] + q.fee \in Nat
        /\ balance[c] - FromWad(q.out) \in Nat
    BY <1>1, <1>2
  <2>2. /\ cash' \in [Chains -> Nat] /\ feeCollected' \in [Chains -> Nat]
        /\ balance' \in [Chains -> Nat] /\ liability' \in [Chains -> Nat]
    BY <2>1 DEF PoolTypeOK, DoSwapCreditForTokens
  <2>3. /\ totalCreditMinted' \in [Chains -> Nat]
        /\ totalCreditBurned' \in [Chains -> Nat]
        /\ config' \in [Chains -> Config]
    BY DEF PoolTypeOK, DoSwapCreditForTokens
  <2> QED
    BY <2>2, <2>3 DEF PoolTypeOK
<1>5. \A d \in Chains : d # c => UNCHANGED <<cash[d], feeCollected[d], balance[d]>>
  BY DEF PoolTypeOK, DoSwapCreditForTokens
<1>6. /\ ToWad(balance'[c]) = ToWad(balance[c]) - ToWad(FromWad(q.out))
      /\ ToWad(balance[c]) \in Nat
  <2>1. ToWad(balance[c] - FromWad(q.out)) = ToWad(balance[c]) - ToWad(FromWad(q.out))
    <3>1. balance[c] \in Int /\ FromWad(q.out) \in Int
      BY <1>1, <1>2
    <3> QED
      BY <3>1, ToWadAdds, Zenon
  <2> QED
    BY <1>1, <1>3, <2>1, ToWadNat, Zenon
<1>7. Owing(c)' <= Owing(c) /\ Owing(c) \in Int /\ Owing(c)' \in Int
  <2>1. Owing(c)' = cash'[c] + feeCollected'[c] - ToWad(balance'[c])
    BY DEF Owing, ToWad
  <2> QED
    BY <1>1, <1>2, <1>3, <1>6, <2>1 DEF Owing
<1>8. Owing(c)' <= Owing(c) + (IF FeeSharedOut(c) THEN 1 ELSE 0)
  BY <1>7
<1> QED
  BY <1>4, <1>5, <1>8, OneAsset

(* A step that changes only credit balances, and those to balances.         *)
LEMMA CreditBalanceKeeps ==
  ASSUME PoolTypeOK,
         creditBalance' \in [Chains -> [Users -> Nat]],
         UNCHANGED <<assetVars, totalCreditMinted, totalCreditBurned, config>>
  PROVE  PoolTypeOK' /\ ShortKept
<1>1. PoolTypeOK'
  BY DEF PoolTypeOK, assetVars
<1> QED
  BY <1>1, AssetsUnchanged

(* The unchecked subtraction of _beforeSwapCreditForTokens cannot wrap.     *)
LEMMA SpendCreditType ==
  ASSUME PoolTypeOK, NEW c \in Chains, NEW u \in Users, NEW amount \in Nat,
         SpendCredit(c, u, amount)
  PROVE  creditBalance' \in [Chains -> [Users -> Nat]]
<1>1. /\ creditBalance \in [Chains -> [Users -> Nat]]
      /\ creditBalance[c][u] - amount \in Nat
  BY DEF PoolTypeOK, SpendCredit
<1> QED
  BY <1>1 DEF SpendCredit

(* swapCreditForTokens                                                      *)
LEMMA SwapCreditForTokensKeeps ==
  ASSUME PoolTypeOK, NEW c \in Chains, NEW u \in Users, NEW amount \in Nat,
         NEW minTo, NEW q \in CreditForTokensQuotes,
         SwapCreditForTokens(c, u, amount, minTo, q)
  PROVE  PoolTypeOK' /\ ShortKept
<1>1. creditBalance' \in [Chains -> [Users -> Nat]]
  BY SpendCreditType DEF SwapCreditForTokens
<1> QED
  BY <1>1, DoSwapCreditForTokensKeeps DEF SwapCreditForTokens

(* The pool's half of swapCreditForTokensCrossChain.                        *)
LEMMA SwapCreditCrossChainKeeps ==
  ASSUME PoolTypeOK, NEW c \in Chains, NEW u \in Users, NEW amount \in Nat,
         SwapCreditCrossChain(c, u, amount)
  PROVE  PoolTypeOK' /\ ShortKept
<1>1. creditBalance' \in [Chains -> [Users -> Nat]]
  BY SpendCreditType DEF SwapCreditCrossChain
<1> QED
  BY <1>1, CreditBalanceKeeps DEF SwapCreditCrossChain

(* completeSwapCreditForTokens                                              *)
LEMMA CompleteSwapCreditForTokensKeeps ==
  ASSUME PoolTypeOK, NEW c \in Chains, NEW a, NEW amount \in Nat,
         NEW minTo, NEW q \in CreditForTokensQuotes,
         CompleteSwapCreditForTokens(c, a, amount, minTo, q)
  PROVE  PoolTypeOK' /\ ShortKept
<1>1. creditBalance' \in [Chains -> [Users -> Nat]]
  BY DEF CompleteSwapCreditForTokens, PoolTypeOK
<1> QED
  BY <1>1, DoSwapCreditForTokensKeeps DEF CompleteSwapCreditForTokens

(* mintCredit                                                               *)
LEMMA MintCreditKeeps ==
  ASSUME PoolTypeOK, NEW c \in Chains, NEW a, NEW amount \in Nat,
         NEW receiver \in Users, MintCredit(c, a, amount, receiver)
  PROVE  PoolTypeOK' /\ ShortKept
<1>1. creditBalance' \in [Chains -> [Users -> Nat]]
  BY DEF MintCredit, PoolTypeOK
<1> QED
  BY <1>1, CreditBalanceKeeps DEF MintCredit

(* Sharing out the fees takes them from what is owed and adds the two       *)
(* dividends, which come to at most a wad more. (_mintFee)                  *)
LEMMA ShareFeeKeeps ==
  ASSUME PoolTypeOK, NEW c \in Chains, NEW minted \in Minted, ShareFee(c, minted),
         config' \in [Chains -> Config]
  PROVE  PoolTypeOK' /\ ShortKept
<1> DEFINE ve == VeWomDividend(c)
           lp == LpDividend(c)
           y == WAD - config[c].split.lp - config[c].split.retention
           z == config[c].split.lp
<1>1. /\ cash[c] \in Nat /\ feeCollected[c] \in Nat /\ balance[c] \in Nat /\ liability[c] \in Nat
      /\ config[c] \in Config /\ minted \in Nat
  BY PoolAssumption DEF PoolTypeOK
<1>2. y \in Nat /\ z \in Nat /\ y + z <= WAD
  BY <1>1, PoolAssumption DEF Config
<1>3. ve = Wmul(feeCollected[c], y) /\ lp = Wmul(feeCollected[c], z)
  BY DEF VeWomDividend, LpDividend
<1> HIDE DEF y, z
<1>4. ve \in Nat /\ lp \in Nat /\ ve + lp <= feeCollected[c] + 1
  BY <1>1, <1>2, <1>3, WmulNearest, TwoParts
<1>5. FromWad(ve) <= balance[c]
  BY DEF ShareFee, CanShareFee
<1>6. /\ cash'[c] = cash[c] + lp
      /\ feeCollected'[c] = 0
      /\ balance'[c] = balance[c] - FromWad(ve)
  BY DEF PoolTypeOK, ShareFee
<1>7. \A d \in Chains : d # c => UNCHANGED <<cash[d], feeCollected[d], balance[d]>>
  BY DEF PoolTypeOK, ShareFee
<1>8. PoolTypeOK'
  <2>1. UNCHANGED <<totalCreditMinted, totalCreditBurned, creditBalance>>
    BY DEF ShareFee
  <2>2. FromWad(ve) \in Nat
    BY <1>4, FromWadRoundsDown
  <2>3. /\ cash[c] + lp \in Nat /\ balance[c] - FromWad(ve) \in Nat
        /\ liability[c] + (IF lp > 0 THEN minted ELSE 0) \in Nat
    BY <1>1, <1>4, <1>5, <2>2
  <2>4. /\ cash' = [cash EXCEPT ![c] = cash[c] + lp]
        /\ balance' = [balance EXCEPT ![c] = balance[c] - FromWad(ve)]
        /\ liability' = [liability EXCEPT ![c] = liability[c] + IF lp > 0 THEN minted ELSE 0]
        /\ feeCollected' = [feeCollected EXCEPT ![c] = 0]
    BY DEF ShareFee
  <2> HIDE DEF ve, lp
  <2>5. /\ cash' \in [Chains -> Nat] /\ feeCollected' \in [Chains -> Nat]
        /\ balance' \in [Chains -> Nat] /\ liability' \in [Chains -> Nat]
    BY <2>3, <2>4 DEF PoolTypeOK
  <2> QED
    BY <2>1, <2>5 DEF PoolTypeOK
<1> HIDE DEF ve, lp
<1>9. FromWad(ve) \in Nat /\ ToWad(FromWad(ve)) \in Nat /\ ToWad(FromWad(ve)) <= ve
  BY <1>4, FromWadRoundsDown, ToWadNat
<1>10. /\ ToWad(balance'[c]) = ToWad(balance[c]) - ToWad(FromWad(ve))
       /\ ToWad(balance[c]) \in Nat
  <2>1. ToWad(balance[c] - FromWad(ve)) = ToWad(balance[c]) - ToWad(FromWad(ve))
    <3>1. balance[c] \in Int /\ FromWad(ve) \in Int
      BY <1>1, <1>9
    <3> QED
      BY <3>1, ToWadAdds, Zenon
  <2> QED
    BY <1>1, <1>6, <2>1, ToWadNat, Zenon
<1>11. Owing(c)' = cash[c] + lp - (ToWad(balance[c]) - ToWad(FromWad(ve)))
  <2>1. Owing(c)' = cash'[c] + feeCollected'[c] - ToWad(balance'[c])
    BY DEF Owing, ToWad
  <2> QED
    BY <1>1, <1>4, <1>6, <1>9, <1>10, <2>1
<1>12. Owing(c)' <= Owing(c) + (IF FeeSharedOut(c) THEN 1 ELSE 0)
  <2>1. CASE feeCollected[c] > 0
    <3>1. FeeSharedOut(c)
      BY <1>6, <2>1 DEF FeeSharedOut
    <3> QED
      BY <1>1, <1>4, <1>9, <1>10, <1>11, <3>1 DEF Owing
  <2>2. CASE feeCollected[c] = 0
    <3>1. ve = 0 /\ lp = 0
      BY <1>2, <1>3, <2>2, WmulZero
    <3> QED
      BY <1>1, <1>9, <1>10, <1>11, <2>2, <3>1 DEF Owing
  <2> QED
    BY <1>1, <2>1, <2>2
<1> QED
  BY <1>7, <1>8, <1>12, OneAsset

(* mintFee                                                                  *)
LEMMA MintFeeKeeps ==
  ASSUME PoolTypeOK, NEW c \in Chains, MintFee(c)
  PROVE  PoolTypeOK' /\ ShortKept
<1>1. PICK minted \in Minted : ShareFee(c, minted)
  BY DEF MintFee
<1>2. config' \in [Chains -> Config]
  BY DEF MintFee, PoolTypeOK
<1> QED
  BY <1>1, <1>2, ShareFeeKeeps

(* setFee: the fees go by the old split.                                    *)
LEMMA SetFeeKeeps ==
  ASSUME PoolTypeOK, NEW c \in Chains, NEW lp \in Nat, NEW retention \in Nat,
         SetFee(c, lp, retention)
  PROVE  PoolTypeOK' /\ ShortKept
<1>1. PICK minted \in Minted : ShareFee(c, minted)
  BY DEF SetFee
<1>2. config' \in [Chains -> Config]
  <2>1. config[c] \in Config
    BY DEF PoolTypeOK
  <2>2. [lp |-> lp, retention |-> retention] \in
          {s \in [lp : Nat, retention : Nat] : s.lp + s.retention <= WAD}
    BY DEF SetFee
  <2>3. [config[c] EXCEPT !.split = [lp |-> lp, retention |-> retention]] \in Config
    BY <2>1, <2>2 DEF Config
  <2> QED
    BY <2>3 DEF SetFee, PoolTypeOK
<1> QED
  BY <1>1, <1>2, ShareFeeKeeps

(* transferTipBucket and fillPool take what nobody is owed.                 *)
LEMMA TipBucketKeeps ==
  ASSUME PoolTypeOK, NEW c \in Chains, NEW amount \in Nat,
         TransferTipBucket(c, amount) \/ FillPool(c, amount)
  PROVE  PoolTypeOK' /\ ShortKept
<1>1. /\ cash[c] \in Nat /\ feeCollected[c] \in Nat /\ balance[c] \in Nat
      /\ ToWad(balance[c]) \in Nat
      /\ amount <= ToWad(balance[c]) - cash[c] - feeCollected[c]
  BY ToWadNat DEF PoolTypeOK, TransferTipBucket, FillPool, TipBucketBalance
<1>2. CASE TransferTipBucket(c, amount)
  <2>1. /\ FromWad(amount) \in Nat /\ ToWad(FromWad(amount)) \in Nat
        /\ ToWad(FromWad(amount)) <= amount
    BY FromWadRoundsDown, ToWadNat
  <2>2. /\ ToWad(balance[c] - FromWad(amount)) = ToWad(balance[c]) - ToWad(FromWad(amount))
        /\ balance[c] - FromWad(amount) \in Int
    <3>1. balance[c] \in Int /\ FromWad(amount) \in Int
      BY <1>1, <2>1
    <3>2. ToWad(balance[c] - FromWad(amount)) = ToWad(balance[c]) - ToWad(FromWad(amount))
      BY <3>1, ToWadAdds, Zenon
    <3> QED
      BY <3>1, <3>2
  <2>3. balance[c] - FromWad(amount) \in Nat
    BY <1>1, <2>1, <2>2, ToWadMonotone
  <2>4. /\ balance' \in [Chains -> Nat]
        /\ balance'[c] = balance[c] - FromWad(amount)
        /\ UNCHANGED <<cash, liability, feeCollected, totalCreditMinted, totalCreditBurned,
                       creditBalance, config>>
        /\ \A d \in Chains : d # c => balance'[d] = balance[d]
    BY <1>2, <2>3 DEF PoolTypeOK, TransferTipBucket
  <2>5. PoolTypeOK'
    BY <2>4 DEF PoolTypeOK
  <2>6. \A d \in Chains : d # c => UNCHANGED <<cash[d], feeCollected[d], balance[d]>>
    BY <2>4
  <2>7. ASSUME NEW d \in Chains PROVE Shortfall(d)' <= Shortfall(d)
    <3>1. CASE d = c
      <4>1. ToWad(balance'[c]) = ToWad(balance[c]) - ToWad(FromWad(amount))
        BY <2>2, <2>4, Zenon
      <4>2. cash'[c] + feeCollected'[c] <= ToWad(balance'[c])
        BY <1>1, <2>1, <2>4, <4>1
      <4>3. Shortfall(c)' = 0 /\ Shortfall(c) = 0
        <5>1. /\ cash'[c] + feeCollected'[c] \in Nat /\ ToWad(balance'[c]) \in Int
              /\ cash[c] + feeCollected[c] \in Nat
              /\ cash[c] + feeCollected[c] <= ToWad(balance[c])
          BY <1>1, <2>1, <2>4, <4>1
        <5> QED
          BY <4>2, <5>1, <1>1 DEF Shortfall, ToWad
      <4> QED
        BY <3>1, <4>3
    <3>2. CASE d # c
      <4>1. Shortfall(d)' = Shortfall(d) /\ Shortfall(d) \in Int
        BY <2>6, <3>2, ShortfallOfOwing DEF Shortfall, ToWad
      <4> QED
        BY <4>1
    <3> QED
      BY <3>1, <3>2
  <2>8. \A d \in Chains : Shortfall(d) \in Int /\ Shortfall(d)' \in Int
    <3> TAKE d \in Chains
    <3>1. cash'[d] \in Nat /\ feeCollected'[d] \in Nat /\ balance'[d] \in Nat
      BY <2>5 DEF PoolTypeOK
    <3>2. ToWad(balance'[d]) \in Nat
      BY <3>1, ToWadNat
    <3> QED
      BY <3>1, <3>2, ShortfallOfOwing DEF Shortfall, ToWad
  <2>9. ShortKept
    BY <2>7, <2>8 DEF ShortKept
  <2> QED
    BY <2>5, <2>9
<1>3. CASE FillPool(c, amount)
  <2>1. /\ cash' \in [Chains -> Nat]
        /\ cash'[c] = cash[c] + amount
        /\ UNCHANGED <<liability, feeCollected, balance, totalCreditMinted, totalCreditBurned,
                       creditBalance, config>>
        /\ \A d \in Chains : d # c => cash'[d] = cash[d]
    BY <1>3 DEF PoolTypeOK, FillPool
  <2>2. PoolTypeOK'
    BY <2>1 DEF PoolTypeOK
  <2>3. ASSUME NEW d \in Chains PROVE Shortfall(d)' <= Shortfall(d) /\ Shortfall(d) \in Int /\ Shortfall(d)' \in Int
    <3>1. CASE d = c
      <4>1. Shortfall(c)' = 0 /\ Shortfall(c) = 0
        BY <1>1, <2>1 DEF Shortfall, ToWad
      <4> QED
        BY <3>1, <4>1
    <3>2. CASE d # c
      <4>1. Shortfall(d)' = Shortfall(d) /\ Shortfall(d) \in Int
        BY <2>1, <3>2, ShortfallOfOwing DEF Shortfall, ToWad
      <4> QED
        BY <4>1
    <3> QED
      BY <3>1, <3>2
  <2>4. ShortKept
    BY <2>3 DEF ShortKept
  <2> QED
    BY <2>2, <2>4
<1> QED
  BY <1>2, <1>3

(* A change of the settings.                                                *)
LEMMA ReconfigureKeeps ==
  ASSUME PoolTypeOK, NEW c \in Chains, NEW new \in Config, Reconfigure(c, new)
  PROVE  PoolTypeOK' /\ ShortKept
<1>1. PoolTypeOK'
  BY DEF Reconfigure, PoolTypeOK, assetVars
<1> QED
  BY <1>1, AssetsUnchanged DEF Reconfigure

(* The permissioned functions of the pool.                                  *)
LEMMA PoolAdminKeeps ==
  ASSUME PoolTypeOK, NEW c \in Chains, PoolAdmin(c)
  PROVE  PoolTypeOK' /\ ShortKept
<1> DEFINE cfg == config[c]
<1>1. cfg \in Config
  BY DEF PoolTypeOK
<1>2. /\ [cfg EXCEPT !.paused = ~cfg.paused] \in Config
      /\ [cfg EXCEPT !.assetPaused = ~cfg.assetPaused] \in Config
      /\ [cfg EXCEPT !.tokensForCredit = ~cfg.tokensForCredit] \in Config
      /\ [cfg EXCEPT !.creditForTokens = ~cfg.creditForTokens] \in Config
  BY <1>1, Zenon DEF Config
<1>3. ASSUME NEW limit \in Limits
      PROVE  /\ [cfg EXCEPT !.maxOutbound = limit] \in Config
             /\ [cfg EXCEPT !.maxInbound = limit] \in Config
  BY <1>1, PoolAssumption DEF Config
<1>4. CASE \E lp, retention \in Ratios : SetFee(c, lp, retention)
  BY <1>4, SetFeeKeeps, PoolAssumption
<1>5. CASE \E amount \in TipAmounts : TransferTipBucket(c, amount) \/ FillPool(c, amount)
  BY <1>5, TipBucketKeeps, PoolAssumption
<1>6. CASE \/ TogglePause(c) \/ ToggleAssetPause(c)
           \/ SetSwapTokensForCreditEnabled(c) \/ SetSwapCreditForTokensEnabled(c)
  BY <1>2, <1>6, ReconfigureKeeps
  DEF TogglePause, ToggleAssetPause, SetSwapTokensForCreditEnabled,
      SetSwapCreditForTokensEnabled
<1>7. CASE \E limit \in Limits : \/ SetMaximumOutboundCredit(c, limit)
                                 \/ SetMaximumInboundCredit(c, limit)
  BY <1>3, <1>7, ReconfigureKeeps DEF SetMaximumOutboundCredit, SetMaximumInboundCredit
<1> QED
  BY <1>4, <1>5, <1>6, <1>7 DEF PoolAdmin

(* setAdaptorAddr                                                           *)
LEMMA SetAdaptorAddrKeeps ==
  ASSUME PoolTypeOK, NEW c \in Chains, NEW a \in Adaptors, SetAdaptorAddr(c, a)
  PROVE  PoolTypeOK' /\ ShortKept
<1>1. config[c] \in Config
  BY DEF PoolTypeOK
<1>2. [config[c] EXCEPT !.adaptor = a] \in Config
  BY <1>1 DEF Config
<1> QED
  BY <1>2, ReconfigureKeeps DEF SetAdaptorAddr

-----------------------------------------------------------------------------
(* The net credit of the chains *)

NetOf == [c \in Chains |-> Net(c)]

(* A step that leaves the counters alone leaves the net credit alone.       *)
LEMMA NetUnchanged ==
  ASSUME UNCHANGED <<totalCreditMinted, totalCreditBurned>>
  PROVE  NetOf' = NetOf
BY DEF NetOf, Net

(* Minting moves the net credit of one chain up.                            *)
LEMMA MintMovesNet ==
  ASSUME PoolTypeOK, NEW c \in Chains, NEW amount \in Nat,
         totalCreditMinted' = [totalCreditMinted EXCEPT ![c] = @ + amount],
         totalCreditBurned' = totalCreditBurned
  PROVE  NetOf' = [NetOf EXCEPT ![c] = @ + amount]
<1>1. \A d \in Chains : totalCreditMinted[d] \in Nat /\ totalCreditBurned[d] \in Nat
  BY DEF PoolTypeOK
<1>2. \A d \in Chains : Net(d)' = IF d = c THEN Net(d) + amount ELSE Net(d)
  BY <1>1 DEF Net, PoolTypeOK
<1> QED
  BY <1>2 DEF NetOf

(* Burning moves the net credit of one chain down.                          *)
LEMMA BurnMovesNet ==
  ASSUME PoolTypeOK, NEW c \in Chains, NEW amount \in Nat,
         totalCreditBurned' = [totalCreditBurned EXCEPT ![c] = @ + amount],
         totalCreditMinted' = totalCreditMinted
  PROVE  NetOf' = [NetOf EXCEPT ![c] = @ - amount]
<1>1. \A d \in Chains : totalCreditMinted[d] \in Nat /\ totalCreditBurned[d] \in Nat
  BY DEF PoolTypeOK
<1>2. \A d \in Chains : Net(d)' = IF d = c THEN Net(d) - amount ELSE Net(d)
  BY <1>1 DEF Net, PoolTypeOK
<1> QED
  BY <1>2 DEF NetOf

-----------------------------------------------------------------------------
(* Credit over all chains: minted and not burned, travelling, and held.     *)

Travelling(T) == SumOver([t \in T |-> t.credit], T)
HeldIn(credit) == SumOver([p \in Chains \X Users |-> credit[p[1]][p[2]]], Chains \X Users)

(* All three are integers.                                                  *)
LEMMA CreditSums ==
  ASSUME NEW net \in [Chains -> Int], NEW credit \in [Chains -> [Users -> Int]],
         NEW T, IsFiniteSet(T), \A t \in T : t.credit \in Int
  PROVE  SumOver(net, Chains) \in Int /\ Travelling(T) \in Int /\ HeldIn(credit) \in Int
<1>1. IsFiniteSet(Chains) /\ IsFiniteSet(Chains \X Users)
  BY FS_Product, PoolAssumption
<1>2. SumOver(net, Chains) \in Int
  BY <1>1, SumInt
<1>3. Travelling(T) \in Int
  BY SumInt DEF Travelling
<1>4. HeldIn(credit) \in Int
  <2> DEFINE f == [p \in Chains \X Users |-> credit[p[1]][p[2]]]
  <2>1. \A p \in Chains \X Users : f[p] \in Int
    OBVIOUS
  <2> HIDE DEF f
  <2>2. SumOver(f, Chains \X Users) \in Int
    BY <1>1, <2>1, SumInt
  <2> QED
    BY <2>2 DEF HeldIn, f
<1> QED
  BY <1>2, <1>3, <1>4

\* The net credit of chain c changes by n, and that of no other chain.
NetMoves(net, new, c, n) ==
  /\ net \in [Chains -> Int] /\ new \in [Chains -> Int]
  /\ c \in Chains /\ n \in Int
  /\ \A d \in Chains : new[d] = IF d = c THEN net[d] + n ELSE net[d]

(* Then that of all chains changes by n.                                    *)
LEMMA NetOfAllMoves ==
  ASSUME NEW net, NEW new, NEW c, NEW n, NetMoves(net, new, c, n)
  PROVE  /\ SumOver(net, Chains) \in Int
         /\ SumOver(new, Chains) = SumOver(net, Chains) + n
<1>1. IsFiniteSet(Chains) /\ \A d \in Chains : net[d] \in Int
  BY PoolAssumption DEF NetMoves
<1>2. SumOver(net, Chains) \in Int
  BY <1>1, SumInt
<1>3. MovesAt(net, new, Chains, c, n)
  BY <1>1 DEF NetMoves, MovesAt
<1>4. SumOver(new, Chains) = SumOver(net, Chains) + n
  BY <1>3, SumUpdate
<1> QED
  BY <1>2, <1>4

(* A transfer that leaves adds its credit to what travels.                  *)
LEMMA TravelStarts ==
  ASSUME NEW T, IsFiniteSet(T), NEW t, t \notin T, \A m \in T \cup {t} : m.credit \in Int
  PROVE  /\ IsFiniteSet(T \cup {t})
         /\ Travelling(T) \in Int
         /\ Travelling(T \cup {t}) = Travelling(T) + t.credit
<1> DEFINE new == [m \in T \cup {t} |-> m.credit]
           old == [m \in T |-> m.credit]
<1>1. IsFiniteSet(T \cup {t})
  BY FS_AddElement
<1>2. /\ \A m \in T \cup {t} : new[m] \in Int
      /\ \A m \in T : new[m] = old[m] /\ old[m] \in Int
      /\ new[t] = t.credit
  OBVIOUS
<1>3. Travelling(T \cup {t}) = SumOver(new, T \cup {t}) /\ Travelling(T) = SumOver(old, T)
  BY DEF Travelling
<1> HIDE DEF new, old
<1>4. SumOver(new, T \cup {t}) = new[t] + SumOver(new, T)
  BY <1>2, SumAdd
<1>5. SumOver(new, T) = SumOver(old, T) /\ SumOver(old, T) \in Int
  BY <1>2, SumSame, SumInt
<1>6. t.credit \in Int
  OBVIOUS
<1> QED
  BY <1>1, <1>2, <1>3, <1>4, <1>5, <1>6

(* A transfer that is settled takes its credit away.                        *)
LEMMA TravelEnds ==
  ASSUME NEW T, IsFiniteSet(T), NEW t \in T, \A m \in T : m.credit \in Int
  PROVE  /\ IsFiniteSet(T \ {t})
         /\ Travelling(T) \in Int
         /\ Travelling(T \ {t}) = Travelling(T) - t.credit
<1> DEFINE R == T \ {t}
<1>1. IsFiniteSet(R)
  BY FS_RemoveElement
<1>2. R \cup {t} = T /\ t \notin R
  OBVIOUS
<1>3. \A m \in R \cup {t} : m.credit \in Int
  OBVIOUS
<1> HIDE DEF R
<1>4. Travelling(T) = Travelling(R) + t.credit /\ Travelling(R) \in Int
  BY <1>1, <1>2, <1>3, TravelStarts
<1>5. t.credit \in Int
  OBVIOUS
<1>6. Travelling(T) \in Int /\ Travelling(R) = Travelling(T) - t.credit
  BY <1>4, <1>5
<1> QED
  BY <1>1, <1>6 DEF R

\* The balance of u on c changes by n, and no other balance.
BalanceMoves(credit, new, c, u, n) ==
  /\ credit \in [Chains -> [Users -> Int]] /\ new \in [Chains -> [Users -> Int]]
  /\ c \in Chains /\ u \in Users /\ n \in Int
  /\ \A d \in Chains, v \in Users :
       new[d][v] = IF d = c /\ v = u THEN credit[d][v] + n ELSE credit[d][v]

(* Then what all users hold changes by n.                                   *)
LEMMA HeldMoves ==
  ASSUME NEW credit, NEW new, NEW c, NEW u, NEW n, BalanceMoves(credit, new, c, u, n)
  PROVE  /\ HeldIn(credit) \in Int
         /\ HeldIn(new) = HeldIn(credit) + n
<1> DEFINE Pairs == Chains \X Users
           f == [p \in Pairs |-> credit[p[1]][p[2]]]
           g == [p \in Pairs |-> new[p[1]][p[2]]]
<1>1. IsFiniteSet(Pairs)
  BY FS_Product, PoolAssumption
<1>2. <<c, u>> \in Pairs /\ n \in Int
  BY DEF BalanceMoves
<1>3. \A p \in Pairs : /\ p[1] \in Chains /\ p[2] \in Users /\ p = <<p[1], p[2]>>
                       /\ f[p] = credit[p[1]][p[2]] /\ g[p] = new[p[1]][p[2]]
  OBVIOUS
<1>4. HeldIn(credit) = SumOver(f, Pairs) /\ HeldIn(new) = SumOver(g, Pairs)
  BY DEF HeldIn
<1> HIDE DEF f, g
<1>5. \A p \in Pairs : f[p] \in Int
  BY <1>3 DEF BalanceMoves
<1>6. \A p \in Pairs : g[p] = IF p = <<c, u>> THEN f[p] + n ELSE f[p]
  BY <1>3 DEF BalanceMoves
<1> HIDE DEF Pairs
<1>7. MovesAt(f, g, Pairs, <<c, u>>, n)
  BY <1>1, <1>2, <1>5, <1>6 DEF MovesAt
<1> QED
  BY <1>4, <1>7, SumUpdate

(* When there is no credit yet, all sums are zero.                          *)
LEMMA NoCredit ==
  /\ SumOver([c \in Chains |-> 0], Chains) = 0
  /\ Travelling({}) = 0
  /\ HeldIn([c \in Chains |-> [u \in Users |-> 0]]) = 0
<1>1. IsFiniteSet(Chains) /\ IsFiniteSet(Chains \X Users)
  BY FS_Product, PoolAssumption
<1>2. SumOver([c \in Chains |-> 0], Chains) = 0
  BY <1>1, SumZero
<1>3. Travelling({}) = 0
  BY SumEmpty DEF Travelling
<1>4. HeldIn([c \in Chains |-> [u \in Users |-> 0]]) = 0
  BY <1>1, SumZero DEF HeldIn
<1> QED
  BY <1>2, <1>3, <1>4

\* Conservation of credit over net, the transfers T and the balances credit.
Conserved(net, T, credit) ==
  /\ net \in [Chains -> Int] /\ credit \in [Chains -> [Users -> Int]]
  /\ IsFiniteSet(T) /\ \A t \in T : t.credit \in Int
  /\ SumOver(net, Chains) = Travelling(T) + HeldIn(credit)

(* Adding to the net of a chain, or taking from it, moves it.               *)
LEMMA NetChanges ==
  ASSUME NEW net \in [Chains -> Int], NEW c \in Chains, NEW n \in Int
  PROVE  /\ NetMoves(net, [net EXCEPT ![c] = @ + n], c, n)
         /\ NetMoves(net, [net EXCEPT ![c] = @ - n], c, -n)
<1>1. -n \in Int /\ \A d \in Chains : net[d] \in Int /\ net[d] - n = net[d] + (-n)
  OBVIOUS
<1>2. NetMoves(net, [net EXCEPT ![c] = @ + n], c, n)
  BY <1>1 DEF NetMoves
<1>3. NetMoves(net, [net EXCEPT ![c] = @ - n], c, -n)
  BY <1>1 DEF NetMoves
<1> QED
  BY <1>2, <1>3

(* Adding to a balance, or taking from it, moves it.                        *)
LEMMA BalanceChanges ==
  ASSUME NEW credit \in [Chains -> [Users -> Int]], NEW c \in Chains, NEW u \in Users,
         NEW n \in Int
  PROVE  /\ BalanceMoves(credit, [credit EXCEPT ![c][u] = @ + n], c, u, n)
         /\ BalanceMoves(credit, [credit EXCEPT ![c][u] = @ - n], c, u, -n)
<1>1. -n \in Int /\ \A d \in Chains, v \in Users : /\ credit[d][v] \in Int
                                                  /\ credit[d][v] - n = credit[d][v] + (-n)
  OBVIOUS
<1>2. BalanceMoves(credit, [credit EXCEPT ![c][u] = @ + n], c, u, n)
  BY <1>1 DEF BalanceMoves
<1>3. BalanceMoves(credit, [credit EXCEPT ![c][u] = @ - n], c, u, -n)
  BY <1>1 DEF BalanceMoves
<1> QED
  BY <1>2, <1>3

(* The five steps of the credit ledger keep it: a transfer is issued, ...   *)
LEMMA IssueConserves ==
  ASSUME NEW net, NEW T, NEW credit, Conserved(net, T, credit),
         NEW t, t \notin T, t.src \in Chains, t.credit \in Int
  PROVE  Conserved([net EXCEPT ![t.src] = @ + t.credit], T \cup {t}, credit)
<1> DEFINE new == [net EXCEPT ![t.src] = @ + t.credit]
<1>1. NetMoves(net, new, t.src, t.credit)
  BY NetChanges DEF Conserved
<1> HIDE DEF new
<1>2. /\ SumOver(net, Chains) \in Int
      /\ SumOver(new, Chains) = SumOver(net, Chains) + t.credit
  BY <1>1, NetOfAllMoves
<1>3. /\ IsFiniteSet(T \cup {t}) /\ Travelling(T) \in Int
      /\ Travelling(T \cup {t}) = Travelling(T) + t.credit
  BY TravelStarts DEF Conserved
<1>4. HeldIn(credit) \in Int
  BY CreditSums DEF Conserved
<1>5. Conserved(new, T \cup {t}, credit)
  BY <1>1, <1>2, <1>3, <1>4 DEF Conserved, NetMoves
<1> QED
  BY <1>5 DEF new

(* ... forwarded from a balance, ...                                        *)
LEMMA ForwardConserves ==
  ASSUME NEW net, NEW T, NEW credit, Conserved(net, T, credit),
         NEW t, t \notin T, t.src \in Chains, NEW u \in Users, t.credit \in Int
  PROVE  Conserved(net, T \cup {t}, [credit EXCEPT ![t.src][u] = @ - t.credit])
<1> DEFINE new == [credit EXCEPT ![t.src][u] = @ - t.credit]
<1>1. BalanceMoves(credit, new, t.src, u, -t.credit)
  BY BalanceChanges DEF Conserved
<1> HIDE DEF new
<1>2. HeldIn(credit) \in Int /\ HeldIn(new) = HeldIn(credit) + (-t.credit)
  BY <1>1, HeldMoves
<1>3. /\ IsFiniteSet(T \cup {t}) /\ Travelling(T) \in Int
      /\ Travelling(T \cup {t}) = Travelling(T) + t.credit
  BY TravelStarts DEF Conserved
<1>4. Conserved(net, T \cup {t}, new)
  BY <1>1, <1>2, <1>3 DEF Conserved, BalanceMoves
<1> QED
  BY <1>4 DEF new

(* ... paid out in tokens, ...                                              *)
LEMMA RedeemConserves ==
  ASSUME NEW net, NEW T, NEW credit, Conserved(net, T, credit),
         NEW t \in T, t.dst \in Chains
  PROVE  Conserved([net EXCEPT ![t.dst] = @ - t.credit], T \ {t}, credit)
<1> DEFINE new == [net EXCEPT ![t.dst] = @ - t.credit]
<1>1. t.credit \in Int
  BY DEF Conserved
<1>2. NetMoves(net, new, t.dst, -t.credit)
  BY <1>1, NetChanges DEF Conserved
<1> HIDE DEF new
<1>3. /\ SumOver(net, Chains) \in Int
      /\ SumOver(new, Chains) = SumOver(net, Chains) + (-t.credit)
  BY <1>2, NetOfAllMoves
<1>4. /\ IsFiniteSet(T \ {t}) /\ Travelling(T) \in Int
      /\ Travelling(T \ {t}) = Travelling(T) - t.credit
  BY TravelEnds DEF Conserved
<1>5. HeldIn(credit) \in Int
  BY CreditSums DEF Conserved
<1>6. Conserved(new, T \ {t}, credit)
  BY <1>1, <1>2, <1>3, <1>4, <1>5 DEF Conserved, NetMoves
<1> QED
  BY <1>6 DEF new

(* ... or becomes a balance, ...                                            *)
LEMMA ParkConserves ==
  ASSUME NEW net, NEW T, NEW credit, Conserved(net, T, credit),
         NEW t \in T, t.dst \in Chains, t.receiver \in Users
  PROVE  Conserved(net, T \ {t}, [credit EXCEPT ![t.dst][t.receiver] = @ + t.credit])
<1> DEFINE new == [credit EXCEPT ![t.dst][t.receiver] = @ + t.credit]
<1>1. t.credit \in Int
  BY DEF Conserved
<1>2. BalanceMoves(credit, new, t.dst, t.receiver, t.credit)
  BY <1>1, BalanceChanges DEF Conserved
<1> HIDE DEF new
<1>3. HeldIn(credit) \in Int /\ HeldIn(new) = HeldIn(credit) + t.credit
  BY <1>2, HeldMoves
<1>4. /\ IsFiniteSet(T \ {t}) /\ Travelling(T) \in Int
      /\ Travelling(T \ {t}) = Travelling(T) - t.credit
  BY TravelEnds DEF Conserved
<1>5. Conserved(net, T \ {t}, new)
  BY <1>1, <1>2, <1>3, <1>4 DEF Conserved, BalanceMoves
<1> QED
  BY <1>5 DEF new

(* ... and a balance is swapped for tokens.                                 *)
LEMMA SpendConserves ==
  ASSUME NEW net, NEW T, NEW credit, Conserved(net, T, credit),
         NEW c \in Chains, NEW u \in Users, NEW amount \in Int
  PROVE  Conserved([net EXCEPT ![c] = @ - amount], T, [credit EXCEPT ![c][u] = @ - amount])
<1> DEFINE newNet == [net EXCEPT ![c] = @ - amount]
           newCredit == [credit EXCEPT ![c][u] = @ - amount]
<1>1. NetMoves(net, newNet, c, -amount)
  BY NetChanges DEF Conserved
<1>2. BalanceMoves(credit, newCredit, c, u, -amount)
  BY BalanceChanges DEF Conserved
<1> HIDE DEF newNet, newCredit
<1>3. /\ SumOver(net, Chains) \in Int
      /\ SumOver(newNet, Chains) = SumOver(net, Chains) + (-amount)
  BY <1>1, NetOfAllMoves
<1>4. HeldIn(credit) \in Int /\ HeldIn(newCredit) = HeldIn(credit) + (-amount)
  BY <1>2, HeldMoves
<1>5. Travelling(T) \in Int
  BY CreditSums DEF Conserved
<1>6. Conserved(newNet, T, newCredit)
  BY <1>1, <1>2, <1>3, <1>4, <1>5 DEF Conserved, NetMoves, BalanceMoves
<1> QED
  BY <1>6 DEF newNet, newCredit

(* Nothing is minted, travels or is held at first.                          *)
LEMMA NothingConserved ==
  Conserved([c \in Chains |-> 0], {}, [c \in Chains |-> [u \in Users |-> 0]])
BY NoCredit, FS_EmptySet DEF Conserved

-----------------------------------------------------------------------------
(* The credit limits *)

\* The step that LimitsRespected asks of every chain.
WithinLimits ==
  \A c \in Chains :
    /\ Net(c)' > Net(c) => Net(c)' <= config[c].maxOutbound
    /\ Net(c)' < Net(c) => -(Net(c)') <= config[c].maxInbound

(* A step that leaves the counters alone is within the limits, even if it   *)
(* is the owner who lowers them below the net credit.                       *)
LEMMA CountersUnchangedWithinLimits ==
  ASSUME PoolTypeOK, UNCHANGED <<totalCreditMinted, totalCreditBurned>>
  PROVE  WithinLimits
<1> SUFFICES ASSUME NEW c \in Chains PROVE Net(c)' = Net(c) /\ Net(c) \in Int
  BY DEF WithinLimits
<1>1. totalCreditMinted[c] \in Nat /\ totalCreditBurned[c] \in Nat
  BY DEF PoolTypeOK
<1> QED
  BY <1>1 DEF Net

(* Minting is checked against the outbound limit with the credit burned so  *)
(* far: the same comparison as that of the net. (_swapTokensForCredit)      *)
LEMMA MintsWithinLimits ==
  ASSUME PoolTypeOK, NEW c \in Chains, NEW amount \in Amounts,
         NEW q \in TokensForCreditQuotes(amount),
         SwapTokensForCredit(c, amount, q)
  PROVE  WithinLimits
<1>1. /\ q.credit \in Nat
      /\ totalCreditMinted[c] + q.credit <= config[c].maxOutbound + totalCreditBurned[c]
  BY PoolAssumption DEF TokensForCreditQuotes, SwapTokensForCredit, CanSwapTokensForCredit
<1>2. /\ totalCreditMinted \in [Chains -> Nat] /\ totalCreditBurned \in [Chains -> Nat]
      /\ config[c].maxOutbound \in Nat
  BY DEF PoolTypeOK, Config
<1>3. /\ totalCreditMinted' = [totalCreditMinted EXCEPT ![c] = @ + q.credit]
      /\ totalCreditBurned' = totalCreditBurned
  BY DEF SwapTokensForCredit
<1> SUFFICES ASSUME NEW d \in Chains
             PROVE  /\ Net(d)' > Net(d) => Net(d)' <= config[d].maxOutbound
                    /\ Net(d)' < Net(d) => -(Net(d)') <= config[d].maxInbound
  BY DEF WithinLimits
<1>4. totalCreditMinted[d] \in Nat /\ totalCreditBurned[d] \in Nat
  BY <1>2
<1>5. CASE d = c
  <2>1. Net(d)' = totalCreditMinted[c] + q.credit - totalCreditBurned[c]
    BY <1>1, <1>2, <1>3, <1>4, <1>5 DEF Net
  <2>2. Net(d) = totalCreditMinted[c] - totalCreditBurned[c]
    BY <1>5 DEF Net
  <2> QED
    BY <1>1, <1>2, <1>4, <1>5, <2>1, <2>2
<1>6. CASE d # c
  <2>1. Net(d)' = Net(d) /\ Net(d) \in Int
    BY <1>2, <1>3, <1>4, <1>6 DEF Net
  <2> QED
    BY <2>1
<1> QED
  BY <1>5, <1>6

(* Burning is checked against the inbound limit with the credit minted so   *)
(* far. (_doSwapCreditForTokens)                                            *)
LEMMA BurnsWithinLimits ==
  ASSUME PoolTypeOK, NEW c \in Chains, NEW amount \in Nat, NEW minTo, NEW q,
         DoSwapCreditForTokens(c, amount, minTo, q)
  PROVE  WithinLimits
<1>1. totalCreditBurned[c] + amount <= config[c].maxInbound + totalCreditMinted[c]
  BY DEF DoSwapCreditForTokens, CanSwapCreditForTokens
<1>2. /\ totalCreditMinted \in [Chains -> Nat] /\ totalCreditBurned \in [Chains -> Nat]
      /\ config[c].maxInbound \in Nat
  BY DEF PoolTypeOK, Config
<1>3. /\ totalCreditBurned' = [totalCreditBurned EXCEPT ![c] = @ + amount]
      /\ totalCreditMinted' = totalCreditMinted
  BY DEF DoSwapCreditForTokens
<1> SUFFICES ASSUME NEW d \in Chains
             PROVE  /\ Net(d)' > Net(d) => Net(d)' <= config[d].maxOutbound
                    /\ Net(d)' < Net(d) => -(Net(d)') <= config[d].maxInbound
  BY DEF WithinLimits
<1>4. totalCreditMinted[d] \in Nat /\ totalCreditBurned[d] \in Nat
  BY <1>2
<1>5. CASE d = c
  <2>1. Net(d)' = totalCreditMinted[c] - (totalCreditBurned[c] + amount)
    BY <1>1, <1>2, <1>3, <1>4, <1>5 DEF Net
  <2>2. Net(d) = totalCreditMinted[c] - totalCreditBurned[c]
    BY <1>5 DEF Net
  <2> QED
    BY <1>1, <1>2, <1>4, <1>5, <2>1, <2>2
<1>6. CASE d # c
  <2>1. Net(d)' = Net(d) /\ Net(d) \in Int
    BY <1>2, <1>3, <1>4, <1>6 DEF Net
  <2> QED
    BY <2>1
<1> QED
  BY <1>5, <1>6

(* The permissioned functions leave the counters alone.                     *)
LEMMA PoolAdminWithinLimits ==
  ASSUME PoolTypeOK, NEW c \in Chains, PoolAdmin(c)
  PROVE  WithinLimits
BY CountersUnchangedWithinLimits
DEF PoolAdmin, TogglePause, ToggleAssetPause, SetSwapTokensForCreditEnabled,
    SetSwapCreditForTokensEnabled, SetMaximumOutboundCredit, SetMaximumInboundCredit,
    Reconfigure, SetFee, ShareFee, TransferTipBucket, FillPool

(* So does mintFee.                                                         *)
LEMMA MintFeeWithinLimits ==
  ASSUME PoolTypeOK, NEW c \in Chains, MintFee(c)
  PROVE  WithinLimits
BY CountersUnchangedWithinLimits DEF MintFee, ShareFee
=============================================================================
