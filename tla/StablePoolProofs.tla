--------------------------- MODULE StablePoolProofs ---------------------------
(***************************************************************************)
(* Proofs about StablePool, for any tokens, decimals, curve, fees, splits  *)
(* and settings: the state stays well typed and LP tokens backed, what an  *)
(* asset is short of its cash and fees grows only where two dividends are  *)
(* both rounded up, and the exchange rate of LP tokens never falls.        *)
(*                                                                         *)
(* Every operation is a composition of functions on the record of one      *)
(* asset.  Kept says what each of them keeps; the lemmas show it function  *)
(* by function, and the theorems put them together.                        *)
(***************************************************************************)
EXTENDS StablePool, TLAPS

-----------------------------------------------------------------------------
(* Division *)

\* It rounds down.
LEMMA Floor ==
  ASSUME NEW x \in Int, NEW n \in Nat \ {0}
  PROVE  x \div n \in Int /\ n * (x \div n) <= x /\ x < n * (x \div n) + n
  OBVIOUS

\* The floor is the greatest such quotient.
LEMMA FloorIsGreatest ==
  ASSUME NEW x \in Int, NEW n \in Nat \ {0}, NEW q \in Int, n * q <= x
  PROVE  q <= x \div n
<1> DEFINE f == x \div n
<1>1. f \in Int /\ x < n * f + n
  BY Floor
<1> HIDE DEF f
<1>2. n * q < n * (f + 1)
  BY <1>1
<1>3. q < f + 1
  BY <1>1, <1>2
<1> QED
  BY <1>1, <1>3 DEF f

LEMMA FloorMonotonic ==
  ASSUME NEW x \in Int, NEW y \in Int, NEW n \in Nat \ {0}, x <= y
  PROVE  x \div n <= y \div n
<1>1. x \div n \in Int /\ n * (x \div n) <= y
  BY Floor
<1> QED
  BY <1>1, FloorIsGreatest

\* Taking y away takes at least its floor away.
LEMMA FloorMinus ==
  ASSUME NEW x \in Int, NEW y \in Int, NEW n \in Nat \ {0}
  PROVE  (x - y) \div n <= x \div n - y \div n
<1> DEFINE f == (x - y) \div n
           g == y \div n
<1>1. f \in Int /\ g \in Int /\ n * f <= x - y /\ n * g <= y
  BY Floor
<1> HIDE DEF f, g
<1>2. n * (f + g) = n * f + n * g
  BY <1>1
<1>3. f + g <= x \div n
  BY <1>1, <1>2, FloorIsGreatest
<1>4. x \div n \in Int
  BY Floor
<1> QED
  BY <1>1, <1>3, <1>4 DEF f, g

\* Whole multiples come out of the floor.
LEMMA FloorWhole ==
  ASSUME NEW x \in Int, NEW k \in Int, NEW n \in Nat \ {0}
  PROVE  (x + k * n) \div n = x \div n + k
<1> DEFINE f == x \div n
           g == (x + k * n) \div n
<1>1. f \in Int /\ n * f <= x /\ x < n * f + n
  BY Floor
<1>2. k * n \in Int /\ x + k * n \in Int
  OBVIOUS
<1>3. g \in Int /\ n * g <= x + k * n /\ x + k * n < n * g + n
  BY <1>2, Floor
<1> HIDE DEF f, g
<1>4. n * (f + k) = n * f + k * n
  BY <1>1
<1>5. n * (f + k) < n * (g + 1) /\ n * g < n * (f + k + 1)
  BY <1>1, <1>3, <1>4
<1>6. f + k < g + 1 /\ g < f + k + 1
  BY <1>1, <1>3, <1>5
<1> QED
  BY <1>1, <1>3, <1>6 DEF f, g

-----------------------------------------------------------------------------
(* Fixed point multiplication, and the dividends of a fee *)

\* A share y of at most one takes no more than x, and nothing negative of x >= 0.
LEMMA WmulType ==
  ASSUME NEW x \in Int, NEW y \in 0 .. WAD
  PROVE  Wmul(x, y) \in Int /\ (x >= 0 => Wmul(x, y) >= 0 /\ Wmul(x, y) <= x)
<1>1. WAD \in Nat \ {0} /\ WAD \div 2 \in Nat /\ 2 * (WAD \div 2) <= WAD
  BY StablePoolAssumption
<1> DEFINE h == WAD \div 2
           w == (x * y + h) \div WAD
<1>2. h \in Nat /\ h < WAD
  BY <1>1
<1> HIDE DEF h
<1>3. x * y + h \in Int
  BY <1>2
<1>4. w \in Int /\ WAD * w <= x * y + h
  BY <1>1, <1>3, Floor
<1>5. ASSUME x >= 0 PROVE w >= 0 /\ w <= x
  <2>1. 0 <= x * y /\ x * y <= x * WAD
    BY <1>1, <1>5
  <2>2. 0 <= w
    BY <1>1, <1>2, <1>3, <2>1, FloorIsGreatest
  <2>3. WAD * w < WAD * (x + 1)
    BY <1>1, <1>2, <1>4, <2>1
  <2>4. w < x + 1
    BY <1>1, <1>4, <2>3
  <2> QED
    BY <1>4, <2>2, <2>4
<1> QED
  BY <1>4, <1>5 DEF Wmul, h

\* Two shares that come to at most one are rounded to at most one unit more.
LEMMA TwoShares ==
  ASSUME NEW x \in Nat, NEW y \in 0 .. WAD, NEW z \in 0 .. WAD, y + z <= WAD
  PROVE  Wmul(x, y) + Wmul(x, z) <= x + 1
<1>1. WAD \in Nat \ {0} /\ WAD \div 2 \in Nat /\ 2 * (WAD \div 2) <= WAD
  BY StablePoolAssumption
<1> DEFINE h == WAD \div 2
           v == (x * y + h) \div WAD
           w == (x * z + h) \div WAD
<1>2. h \in Nat /\ 2 * h <= WAD
  BY <1>1
<1> HIDE DEF h
<1>3. x * y + h \in Int /\ x * z + h \in Int
  BY <1>2
<1>4. v \in Int /\ WAD * v <= x * y + h /\ w \in Int /\ WAD * w <= x * z + h
  BY <1>1, <1>3, Floor
<1> HIDE DEF v, w
<1>5. x * y + x * z <= x * WAD
  <2>1. x * y + x * z = x * (y + z) /\ x * (y + z) <= x * WAD
    BY <1>1
  <2> QED
    BY <2>1
<1>6. WAD * (v + w) <= WAD * (x + 1)
  <2>1. WAD * (v + w) = WAD * v + WAD * w /\ WAD * (x + 1) = x * WAD + WAD
    BY <1>1, <1>4
  <2> QED
    BY <1>1, <1>2, <1>3, <1>4, <1>5, <2>1
<1>7. v + w <= x + 1
  BY <1>1, <1>4, <1>6
<1> QED
  BY <1>4, <1>7 DEF Wmul, h, v, w

LEMMA Dividends ==
  ASSUME config \in Config, NEW r \in Asset
  PROVE  /\ VeWomDividend(r) \in Nat /\ LpDividend(r) \in Nat
         /\ Overshared(r) \in {0, 1}
         /\ VeWomDividend(r) + LpDividend(r) <= r.feeCollected + Overshared(r)
<1> DEFINE y == WAD - config.split.lp - config.split.retention
           z == config.split.lp
<1>1. WAD \in Nat /\ y \in 0 .. WAD /\ z \in 0 .. WAD /\ y + z <= WAD
  BY StablePoolAssumption DEF Config, FeeSplit
<1>2. r.feeCollected \in Nat
  BY DEF Asset
<1> HIDE DEF y, z
<1>3. /\ Wmul(r.feeCollected, y) \in Nat /\ Wmul(r.feeCollected, z) \in Nat
      /\ Wmul(r.feeCollected, y) + Wmul(r.feeCollected, z) <= r.feeCollected + 1
  BY <1>1, <1>2, WmulType, TwoShares
<1>4. VeWomDividend(r) = Wmul(r.feeCollected, y) /\ LpDividend(r) = Wmul(r.feeCollected, z)
  BY DEF VeWomDividend, LpDividend, y, z
<1> QED
  BY <1>2, <1>3, <1>4 DEF Overshared

-----------------------------------------------------------------------------
(* What a function on an asset keeps *)

\* LP tokens are backed in one asset.
Backed(r) == r.totalSupply > 0 => r.liability > 0

\* What an asset is short of, negative where it holds more.
Owing(a, r) == FromWad(a, r.cash + r.feeCollected) - r.tokens

\* From r to s: well typed, backed, no dearer LP token, nothing more owing than k.
Kept(a, r, s, k) ==
  /\ s \in Asset
  /\ Backed(r) => Backed(s) /\ RateKept(r, s)
  /\ Shortfall(a, s) <= Shortfall(a, r) + k

LEMMA OwingType ==
  ASSUME NEW a \in Assets, NEW r \in Asset
  PROVE  Scale[a] \in Nat \ {0} /\ Owing(a, r) \in Int /\ Shortfall(a, r) \in Nat
<1>1. Scale[a] \in Nat \ {0}
  BY StablePoolAssumption
<1>2. r.cash + r.feeCollected \in Int /\ r.tokens \in Int
  BY DEF Asset
<1>3. FromWad(a, r.cash + r.feeCollected) \in Int
  BY <1>1, <1>2, Floor DEF FromWad
<1> QED
  BY <1>1, <1>2, <1>3 DEF Owing, Shortfall

\* Asset by asset, a shortfall is what is owing, or nothing.
LEMMA ShortfallFromOwing ==
  ASSUME NEW a \in Assets, NEW r \in Asset, NEW s \in Asset, NEW k \in Nat,
         Owing(a, s) <= 0 \/ Owing(a, s) <= Owing(a, r) + k
  PROVE  Shortfall(a, s) <= Shortfall(a, r) + k
<1> DEFINE f == FromWad(a, r.cash + r.feeCollected)
           g == FromWad(a, s.cash + s.feeCollected)
<1>1. Scale[a] \in Nat \ {0} /\ r.cash + r.feeCollected \in Int /\ s.cash + s.feeCollected \in Int
  BY StablePoolAssumption DEF Asset
<1>2. f \in Int /\ g \in Int
  BY <1>1, Floor DEF FromWad
<1>3. r.tokens \in Int /\ s.tokens \in Int
  BY DEF Asset
<1> QED
  BY <1>2, <1>3 DEF Owing, Shortfall

\* From r to s the supply stays and the liability does not fall.
Grown(r, s) == s.totalSupply = r.totalSupply /\ s.liability >= r.liability

LEMMA GrownKeeps ==
  ASSUME NEW r \in Asset, NEW s \in Asset, NEW t \in Asset, Grown(r, s), Backed(r),
         Backed(s) => Backed(t) /\ RateKept(s, t)
  PROVE  Backed(t) /\ RateKept(r, t)
<1>1. /\ r.totalSupply \in Nat /\ r.liability \in Nat
      /\ s.totalSupply \in Nat /\ s.liability \in Nat
      /\ t.totalSupply \in Nat /\ t.liability \in Nat
  BY DEF Asset
<1>2. s.totalSupply = r.totalSupply /\ s.liability >= r.liability
  BY DEF Grown
<1>3. Backed(t) /\ RateKept(s, t)
  BY <1>1, <1>2 DEF Backed
<1>4. ASSUME r.totalSupply > 0, t.totalSupply > 0
      PROVE  t.liability * r.totalSupply >= r.liability * t.totalSupply
  <2>1. t.liability * r.totalSupply >= s.liability * t.totalSupply
    BY <1>2, <1>3, <1>4 DEF RateKept
  <2>2. s.liability * t.totalSupply >= r.liability * t.totalSupply
    BY <1>1, <1>2
  <2> QED
    BY <1>1, <2>1, <2>2
<1> QED
  BY <1>3, <1>4 DEF RateKept

LEMMA GrownKeepsRate ==
  ASSUME NEW r \in Asset, NEW s \in Asset, Grown(r, s)
  PROVE  Backed(r) => Backed(s) /\ RateKept(r, s)
<1>1. /\ r.totalSupply \in Nat /\ r.liability \in Nat
      /\ s.totalSupply \in Nat /\ s.liability \in Nat
  BY DEF Asset
<1>2. s.totalSupply = r.totalSupply /\ s.liability >= r.liability
  BY DEF Grown
<1>3. s.liability * r.totalSupply >= r.liability * s.totalSupply
  BY <1>1, <1>2
<1> QED
  BY <1>1, <1>2, <1>3 DEF Backed, RateKept

\* mintFee: the two dividends leave nothing owing but what rounding both adds.
LEMMA FeeMintedKept ==
  ASSUME config \in Config, NEW a \in Assets, NEW r \in Asset, NEW slip \in Int,
         CanMintFee(a, r, slip)
  PROVE  LET s == FeeMinted(a, r, slip) IN
         /\ s \in Asset /\ Grown(r, s)
         /\ Owing(a, s) <= Owing(a, r) + Overshared(r)
<1> DEFINE s == FeeMinted(a, r, slip)
           v == VeWomDividend(r)
           l == LpDividend(r)
           n == Scale[a]
           minted == IF l > 0 THEN DepositLiability(r, l, slip) ELSE 0
<1>1. n \in Nat \ {0}
  BY OwingType
<1>2. /\ r.cash \in Nat /\ r.liability \in Nat /\ r.totalSupply \in Nat
      /\ r.tokens \in Nat /\ r.feeCollected \in Nat
  BY DEF Asset
<1>3. v \in Nat /\ l \in Nat /\ Overshared(r) \in {0, 1} /\ v + l <= r.feeCollected + Overshared(r)
  BY Dividends
<1>4. CASE r.feeCollected = 0
  <2>1. s = r
    BY <1>4 DEF FeeMinted
  <2>2. Owing(a, r) \in Int
    BY OwingType
  <2> QED
    BY <1>2, <1>3, <2>1, <2>2 DEF Grown
<1>5. CASE r.feeCollected > 0
  <2>1. /\ v > 0 => FromWad(a, v) <= r.tokens
        /\ l > 0 => DepositLiability(r, l, slip) >= 0
    BY <1>5 DEF CanMintFee
  <2>2. FromWad(a, v) \in Int /\ FromWad(a, v) = v \div n
    BY <1>1, <1>3, Floor DEF FromWad
  <2>3. FromWad(a, v) <= r.tokens
    BY <1>1, <1>2, <1>3, <2>1 DEF FromWad
  <2>4. minted \in Nat
    BY <1>2, <1>3, <2>1 DEF DepositLiability
  <2>5. s = [r EXCEPT !.tokens = @ - FromWad(a, v), !.liability = @ + minted,
                      !.cash = @ + l, !.feeCollected = 0]
    BY <1>5 DEF FeeMinted
  <2> DEFINE left == FromWad(a, v)
  <2> HIDE DEF s, v, l, minted, n, left
  <2>6. /\ s.tokens = r.tokens - left /\ s.liability = r.liability + minted
        /\ s.cash = r.cash + l /\ s.feeCollected = 0 /\ s.totalSupply = r.totalSupply
        /\ s \in Asset
    <3>1. /\ r.tokens - left \in Nat /\ r.liability + minted \in Nat /\ r.cash + l \in Nat
      BY <1>2, <1>3, <2>2, <2>3, <2>4 DEF left
    <3>2. s = [r EXCEPT !.tokens = @ - left, !.liability = @ + minted,
                        !.cash = @ + l, !.feeCollected = 0]
      BY <2>5 DEF left
    <3> QED
      BY <3>1, <3>2 DEF Asset
  <2>7. Grown(r, s)
    BY <1>2, <2>4, <2>6 DEF Grown
  <2>8. Owing(a, s) <= Owing(a, r) + Overshared(r)
    <3> DEFINE x == r.cash + r.feeCollected + Overshared(r)
               o == Overshared(r)
    <3>0. o \in {0, 1}
      BY <1>3
    <3>1. x \in Int /\ r.cash + r.feeCollected \in Int /\ s.cash + s.feeCollected \in Int
      BY <1>2, <1>3, <2>6
    <3> HIDE DEF o
    <3>2. s.cash + s.feeCollected <= x - v
      BY <1>2, <1>3, <2>6 DEF o
    <3> DEFINE c == r.cash + r.feeCollected
    <3>7. c \in Int /\ x = c + o /\ x \in Int
      BY <1>2, <3>0 DEF o
    <3> HIDE DEF x, c
    <3>3. (s.cash + s.feeCollected) \div n <= (x - v) \div n
      <4>1. x - v \in Int
        BY <1>3, <3>7
      <4> QED
        BY <1>1, <3>1, <3>2, <4>1, FloorMonotonic
    <3>4. (x - v) \div n <= x \div n - v \div n
      <4>1. x \in Int /\ v \in Int /\ n \in Nat \ {0}
        BY <1>1, <1>3, <3>7
      <4> QED
        BY <4>1, FloorMinus, Zenon
    <3>5. x \div n <= c \div n + o
      <4>1. o * n \in Int /\ x <= c + o * n
        BY <1>1, <3>0, <3>7
      <4>2. c + o * n \in Int
        BY <3>7, <4>1
      <4>3. x \div n <= (c + o * n) \div n
        BY <1>1, <3>7, <4>1, <4>2, FloorMonotonic
      <4>4. (c + o * n) \div n = c \div n + o
        <5>1. c \in Int /\ o \in Int /\ n \in Nat \ {0}
          BY <1>1, <3>0, <3>7
        <5> QED
          BY <5>1, FloorWhole, Zenon
      <4> QED
        BY <4>3, <4>4
    <3>6. /\ (s.cash + s.feeCollected) \div n \in Int /\ (x - v) \div n \in Int
          /\ x \div n \in Int /\ c \div n \in Int /\ v \div n \in Int
      BY <1>1, <1>3, <3>1, <3>7, Floor
    <3>8. /\ Owing(a, s) = (s.cash + s.feeCollected) \div n - s.tokens
          /\ Owing(a, r) = c \div n - r.tokens
      BY DEF Owing, FromWad, c, n
    <3>9. s.tokens = r.tokens - v \div n
      BY <2>2, <2>6 DEF left
    <3> QED
      BY <1>2, <3>0, <3>3, <3>4, <3>5, <3>6, <3>8, <3>9 DEF o
  <2> QED
    BY <2>6, <2>7, <2>8 DEF s, left
<1> QED
  BY <1>2, <1>4, <1>5

\* _mintFeeIfNeeded
LEMMA SettledKept ==
  ASSUME config \in Config, NEW a \in Assets, NEW r \in Asset, NEW slip \in Int,
         CanSettle(a, r, slip)
  PROVE  LET s == Settled(a, r, slip) IN
         /\ s \in Asset /\ Grown(r, s)
         /\ Owing(a, s) <= Owing(a, r) + Overshared(r)
<1>1. CASE Due(r)
  BY <1>1, FeeMintedKept DEF CanSettle, Settled
<1>2. CASE ~Due(r)
  <2>1. Owing(a, r) \in Int /\ Overshared(r) \in {0, 1}
    BY OwingType, Dividends
  <2> QED
    BY <1>2, <2>1 DEF Settled, Grown, Asset
<1> QED
  BY <1>1, <1>2

-----------------------------------------------------------------------------
(* Deposits and withdrawals *)

\* The fields of an asset.
LEMMA Fields ==
  ASSUME NEW r \in Asset
  PROVE  /\ r.cash \in Nat /\ r.liability \in Nat /\ r.totalSupply \in Nat
         /\ r.tokens \in Nat /\ r.feeCollected \in Nat
  BY DEF Asset

\* The LP tokens for a liability, rounded down, keep the rate.
LEMMA LpTokensKeepRate ==
  ASSUME NEW r \in Asset, NEW minted \in Nat, LpTokens(r, minted) # 0
  PROVE  /\ LpTokens(r, minted) \in Nat
         /\ Backed(r) => /\ r.liability + minted > 0
                         /\ (r.liability + minted) * r.totalSupply
                               >= r.liability * (r.totalSupply + LpTokens(r, minted))
<1> DEFINE L == r.liability
           S == r.totalSupply
           l == LpTokens(r, minted)
<1>1. L \in Nat /\ S \in Nat
  BY Fields
<1>2. CASE L = 0
  <2>1. l = minted
    BY <1>2 DEF LpTokens
  <2> HIDE DEF l
  <2>2. Backed(r) => S = 0
    BY <1>1, <1>2 DEF Backed
  <2>3. l \in Nat /\ minted > 0
    BY <2>1 DEF l
  <2> HIDE DEF L, S
  <2>4. Backed(r) => L + minted > 0 /\ (L + minted) * S >= L * (S + l)
    BY <1>1, <1>2, <2>2, <2>3
  <2> QED
    BY <2>3, <2>4 DEF l, L, S
<1>3. CASE L > 0
  <2>1. l = (minted * S) \div L
    BY <1>1, <1>3 DEF LpTokens
  <2>2. minted * S \in Nat
    BY <1>1
  <2>3. L \in Nat \ {0}
    BY <1>1, <1>3
  <2> HIDE DEF l, L, S
  <2>4. l \in Int /\ L * l <= minted * S
    BY <2>1, <2>2, <2>3, Floor
  <2>5. 0 <= l
    BY <1>1, <2>1, <2>2, <2>3, FloorIsGreatest
  <2>6. (L + minted) * S = L * S + minted * S /\ L * (S + l) = L * S + L * l
    BY <1>1, <2>4
  <2>7. L * S \in Int /\ L * l \in Int /\ minted * S \in Int
    BY <1>1, <2>4
  <2>8. (L + minted) * S >= L * (S + l)
    BY <2>4, <2>6, <2>7
  <2>9. L + minted > 0
    BY <1>1, <1>3
  <2> QED
    BY <2>4, <2>5, <2>8, <2>9 DEF l, L, S
<1> QED
  BY <1>1, <1>2, <1>3

\* A deposit of amount units, on an asset whose fees are settled.
LEMMA DepositedKept ==
  ASSUME NEW a \in Assets, NEW s \in Asset, NEW amount \in Nat, NEW minted \in Nat,
         LpTokens(s, minted) # 0
  PROVE  LET t == [s EXCEPT !.cash = @ + ToWad(a, amount), !.liability = @ + minted,
                            !.totalSupply = @ + LpTokens(s, minted)]
         IN  /\ t \in Asset
             /\ Backed(s) => Backed(t) /\ RateKept(s, t)
             /\ Owing(a, t) = Owing(a, s) + amount
<1> DEFINE l == LpTokens(s, minted)
           n == Scale[a]
           t == [s EXCEPT !.cash = @ + ToWad(a, amount), !.liability = @ + minted,
                          !.totalSupply = @ + l]
<1>1. n \in Nat \ {0}
  BY OwingType
<1>2. amount * n \in Nat /\ ToWad(a, amount) = amount * n
  BY <1>1 DEF ToWad
<1>3. l \in Nat /\ (Backed(s) => /\ s.liability + minted > 0
                                 /\ (s.liability + minted) * s.totalSupply
                                       >= s.liability * (s.totalSupply + l))
  BY LpTokensKeepRate
<1> HIDE DEF l, n
<1>4. /\ t.cash = s.cash + amount * n /\ t.liability = s.liability + minted
      /\ t.totalSupply = s.totalSupply + l /\ t.tokens = s.tokens
      /\ t.feeCollected = s.feeCollected /\ t \in Asset
  <2>1. /\ s.cash + amount * n \in Nat /\ s.liability + minted \in Nat
        /\ s.totalSupply + l \in Nat
    BY <1>2, <1>3, Fields
  <2> QED
    BY <1>2, <2>1 DEF Asset
<1> HIDE DEF t
<1>5. Backed(s) => Backed(t) /\ RateKept(s, t)
  BY <1>3, <1>4 DEF Backed, RateKept
<1>6. Owing(a, t) = Owing(a, s) + amount
  <2> DEFINE x == s.cash + s.feeCollected
  <2>1. x \in Int /\ t.cash + t.feeCollected = x + amount * n
    BY <1>2, <1>4, Fields
  <2> HIDE DEF x
  <2>2. (x + amount * n) \div n = x \div n + amount
    <3>1. amount \in Int
      OBVIOUS
    <3> QED
      BY <1>1, <2>1, <3>1, FloorWhole, Zenon
  <2>3. Owing(a, t) = (x + amount * n) \div n - s.tokens
    BY <1>4, <2>1 DEF Owing, FromWad, n
  <2>4. Owing(a, s) = x \div n - s.tokens
    BY DEF Owing, FromWad, n, x
  <2>5. x \div n \in Int /\ s.tokens \in Int
    BY <1>1, <2>1, Floor, Fields
  <2> QED
    BY <2>2, <2>3, <2>4, <2>5
<1> QED
  BY <1>4, <1>5, <1>6 DEF t, l

\* The liability burnt, rounded down, keeps the rate.
LEMMA BurntKeepsRate ==
  ASSUME NEW r \in Asset, NEW q \in 1 .. r.totalSupply
  PROVE  LET b == LiabilityToBurn(r, q) IN
         /\ b \in Nat /\ b <= r.liability
         /\ (r.liability - b) * r.totalSupply >= r.liability * (r.totalSupply - q)
         /\ Backed(r) /\ q < r.totalSupply => r.liability - b > 0
<1> DEFINE L == r.liability
           S == r.totalSupply
           b == LiabilityToBurn(r, q)
<1>1. L \in Nat /\ S \in Nat \ {0} /\ q \in Nat /\ q >= 1 /\ q <= S
  BY Fields
<1>2. b = (L * q) \div S
  BY DEF LiabilityToBurn
<1>3. Backed(r) => L > 0
  BY <1>1 DEF Backed
<1> HIDE DEF L, S, b
<1>4. L * q \in Nat /\ L * q <= L * S
  BY <1>1
<1>5. b \in Int /\ S * b <= L * q
  BY <1>1, <1>2, <1>4, Floor
<1>6. 0 <= b
  <2>1. S * 0 <= L * q
    BY <1>1, <1>4
  <2> QED
    BY <1>1, <1>2, <1>4, <2>1, FloorIsGreatest
<1>7. b <= L
  <2>1. S * b <= S * L
    BY <1>1, <1>4, <1>5
  <2> QED
    BY <1>1, <1>5, <2>1
<1>8. (L - b) * S >= L * (S - q)
  <2>1. (L - b) * S = L * S - S * b /\ L * (S - q) = L * S - L * q
    BY <1>1, <1>5
  <2>2. L * S \in Int /\ S * b \in Int
    BY <1>1, <1>5
  <2> QED
    BY <1>4, <1>5, <2>1, <2>2
<1>9. ASSUME Backed(r), q < S PROVE L - b > 0
  <2>1. L > 0
    BY <1>3, <1>9
  <2>2. L * (S - q) > 0
    BY <1>1, <1>9, <2>1
  <2>3. (L - b) * S > 0
    BY <1>1, <1>5, <1>8, <2>2
  <2> QED
    BY <1>1, <1>5, <2>3
<1> QED
  BY <1>5, <1>6, <1>7, <1>8, <1>9 DEF L, S, b

\* A withdrawal without its payment: what leaves cash and fees is the net amount.
LEMMA WithdrawnKept ==
  ASSUME config \in Config, NEW r \in Asset, NEW q \in 1 .. r.totalSupply,
         NEW gross \in Int, CanWithdraw(r, q, gross)
  PROVE  LET w == Withdrawn(r, q, gross) IN
         /\ w \in Asset /\ w.tokens = r.tokens
         /\ Backed(r) => Backed(w) /\ RateKept(r, w)
         /\ NetAmount(gross) \in Nat
         /\ w.cash + w.feeCollected = r.cash + r.feeCollected - NetAmount(gross)
<1> DEFINE h == WithdrawalHaircut(gross)
           b == LiabilityToBurn(r, q)
           w == Withdrawn(r, q, gross)
<1>1. gross \in Nat /\ gross <= r.cash
  BY DEF CanWithdraw
<1>2. h \in Nat /\ h <= gross
  <2>1. config.withdrawalHaircutRate \in 0 .. WAD
    BY DEF Config
  <2> QED
    BY <1>1, <2>1, WmulType DEF WithdrawalHaircut
<1>3. /\ b \in Nat /\ b <= r.liability
      /\ (r.liability - b) * r.totalSupply >= r.liability * (r.totalSupply - q)
      /\ Backed(r) /\ q < r.totalSupply => r.liability - b > 0
  BY BurntKeepsRate
<1>4. NetAmount(gross) = gross - h
  BY DEF NetAmount
<1>5. w = [r EXCEPT !.totalSupply = @ - q, !.cash = @ - gross, !.liability = @ - b,
                    !.feeCollected = @ + h]
  BY DEF Withdrawn
<1> HIDE DEF h, b, w
<1>6. /\ w.totalSupply = r.totalSupply - q /\ w.cash = r.cash - gross
      /\ w.liability = r.liability - b /\ w.feeCollected = r.feeCollected + h
      /\ w.tokens = r.tokens /\ w \in Asset
  <2>1. /\ r.totalSupply - q \in Nat /\ r.cash - gross \in Nat
        /\ r.liability - b \in Nat /\ r.feeCollected + h \in Nat
    BY <1>1, <1>2, <1>3, Fields
  <2> QED
    BY <1>5, <2>1 DEF Asset
<1>7. Backed(r) => Backed(w) /\ RateKept(r, w)
  <2>1. r.totalSupply - q > 0 => q < r.totalSupply
    BY Fields
  <2> QED
    BY <1>3, <1>6, <2>1 DEF Backed, RateKept
<1>8. NetAmount(gross) \in Nat
  BY <1>1, <1>2, <1>4
<1>9. w.cash + w.feeCollected = r.cash + r.feeCollected - NetAmount(gross)
  BY <1>1, <1>2, <1>4, <1>6, Fields
<1> QED
  BY <1>6, <1>7, <1>8, <1>9 DEF w

\* Paying an amount that has left cash and fees, rounded down, adds nothing owing.
LEMMA PaidKept ==
  ASSUME NEW a \in Assets, NEW r \in Asset, NEW w \in Asset, NEW amount \in Nat,
         w.tokens = r.tokens, w.cash + w.feeCollected = r.cash + r.feeCollected - amount,
         FromWad(a, amount) <= r.tokens
  PROVE  LET t == [w EXCEPT !.tokens = @ - FromWad(a, amount)]
         IN  t \in Asset /\ Owing(a, t) <= Owing(a, r)
<1> DEFINE n == Scale[a]
           paid == FromWad(a, amount)
           x == r.cash + r.feeCollected
           t == [w EXCEPT !.tokens = @ - paid]
<1>1. n \in Nat \ {0} /\ x \in Int /\ amount \in Int
  BY OwingType, Fields
<1>2. paid = amount \div n
  BY DEF FromWad
<1>3. paid \in Int /\ x \div n \in Int /\ (x - amount) \div n \in Int
  BY <1>1, <1>2, Floor
<1>4. (x - amount) \div n <= x \div n - amount \div n
  <2> HIDE DEF x, n
  <2> QED
    BY <1>1, FloorMinus, Zenon
<1> HIDE DEF n, paid
<1>5. /\ t.tokens = r.tokens - paid /\ t.cash = w.cash /\ t.feeCollected = w.feeCollected
      /\ t \in Asset
  <2>1. r.tokens - paid \in Nat
    BY <1>3, Fields DEF paid
  <2> QED
    BY <2>1 DEF Asset
<1> HIDE DEF t
<1>6. Owing(a, t) = (x - amount) \div n - (r.tokens - paid)
  <2>1. t.cash + t.feeCollected = x - amount
    <3>1. /\ w.cash \in Nat /\ w.feeCollected \in Nat /\ r.cash \in Nat /\ r.feeCollected \in Nat
      BY Fields
    <3> QED
      BY <1>5, <3>1
  <2> HIDE DEF x
  <2> QED
    BY <1>5, <2>1 DEF Owing, FromWad, n
<1>7. Owing(a, r) = x \div n - r.tokens
  BY DEF Owing, FromWad, n
<1> HIDE DEF x
<1>8. Owing(a, t) <= Owing(a, r)
  BY <1>2, <1>3, <1>4, <1>6, <1>7, Fields
<1> QED
  BY <1>5, <1>8 DEF t, paid

-----------------------------------------------------------------------------
(* Swaps, the tip bucket and skimming *)

\* What the to-asset gives, the fee stays in it.
LEMMA GivenKept ==
  ASSUME config \in Config, NEW b \in Assets, NEW r \in Asset, NEW ideal \in Int,
         NEW covFee \in Nat, ideal >= 0, ideal <= r.cash,
         ActualToAmount(ideal, covFee) >= 0, CanGive(b, r, ideal, covFee)
  PROVE  LET t == Given(b, r, ideal, covFee)
         IN  t \in Asset /\ Grown(r, t) /\ Owing(b, t) <= Owing(b, r)
<1> DEFINE actual == ActualToAmount(ideal, covFee)
           h == Haircut(ideal)
           w == [r EXCEPT !.feeCollected = @ + (ideal - actual), !.cash = @ - ideal]
           t == Given(b, r, ideal, covFee)
<1>1. h \in Nat
  <2>1. config.haircutRate \in 0 .. WAD
    BY DEF Config
  <2> QED
    BY <2>1, WmulType DEF Haircut
<1>2. actual = ideal - h - covFee /\ actual >= 0
  BY DEF ActualToAmount
<1>3. FromWad(b, actual) <= r.tokens
  BY DEF CanGive
<1>4. t = [w EXCEPT !.tokens = @ - FromWad(b, actual)]
  BY DEF Given, Asset
<1> HIDE DEF actual, h
<1>5. actual \in Nat /\ ideal - actual \in Nat
  BY <1>1, <1>2
<1>6. /\ w \in Asset /\ w.tokens = r.tokens
      /\ w.totalSupply = r.totalSupply /\ w.liability = r.liability
      /\ w.cash = r.cash - ideal /\ w.feeCollected = r.feeCollected + (ideal - actual)
  <2>1. r.cash - ideal \in Nat /\ r.feeCollected + (ideal - actual) \in Nat
    BY <1>5, Fields
  <2> QED
    BY <2>1 DEF Asset
<1> HIDE DEF w, t
<1>7. w.cash + w.feeCollected = r.cash + r.feeCollected - actual
  BY <1>5, <1>6, Fields
<1>8. t \in Asset /\ Owing(b, t) <= Owing(b, r)
  BY <1>3, <1>4, <1>5, <1>6, <1>7, PaidKept
<1>9. Grown(r, t)
  <2>1. t.totalSupply = w.totalSupply /\ t.liability = w.liability
    BY <1>4, <1>6 DEF Asset
  <2> QED
    BY <1>6, <2>1, Fields DEF Grown
<1> QED
  BY <1>8, <1>9 DEF t

\* An amount of the tip bucket that goes to somebody or into the pool was
\* nobody's.
LEMMA TippedKept ==
  ASSUME NEW a \in Assets, NEW amount \in Nat, asset[a] \in Asset,
         amount <= TipBucketBalance(a)
  PROVE  /\ LET s == [asset[a] EXCEPT !.tokens = @ - FromWad(a, amount)]
            IN  s \in Asset /\ Owing(a, s) <= 0
         /\ LET s == [asset[a] EXCEPT !.cash = @ + amount]
            IN  s \in Asset /\ Owing(a, s) <= 0
<1> DEFINE n == Scale[a]
           r == asset[a]
           x == r.cash + r.feeCollected
           k == r.tokens
           p == amount \div n
<1>1. n \in Nat \ {0} /\ x \in Nat /\ k \in Nat
  BY OwingType, Fields
<1>2. r \in Asset /\ r.cash \in Nat /\ r.feeCollected \in Nat
  BY Fields
<1>3. amount <= k * n - x
  BY <1>1, <1>2 DEF TipBucketBalance, ToWad
<1>4. p \in Int /\ n * p <= amount
  <2> HIDE DEF n
  <2> QED
    BY <1>1, Floor
<1> DEFINE f == x \div n
           g == (x + amount) \div n
<1>5. f \in Int /\ n * f <= x /\ g \in Int /\ n * g <= x + amount
  <2> HIDE DEF n, x
  <2>1. x + amount \in Int
    BY <1>1
  <2> QED
    BY <1>1, <2>1, Floor
<1> HIDE DEF f, g, p
<1>6. f + p <= k /\ g <= k
  <2> HIDE DEF n, x, k
  <2>1. n * (f + p) = n * f + n * p
    BY <1>1, <1>4, <1>5
  <2>2. n * (f + p) <= n * k /\ n * g <= n * k
    BY <1>1, <1>3, <1>4, <1>5, <2>1
  <2> QED
    BY <1>1, <1>4, <1>5, <2>2
<1>7. FromWad(a, amount) = p
  BY DEF FromWad, p
<1>8. 0 <= f
  <2> HIDE DEF n, x
  <2>1. n * 0 <= x
    BY <1>1
  <2> QED
    BY <1>1, <2>1, FloorIsGreatest DEF f
<1>9. LET s == [r EXCEPT !.tokens = @ - FromWad(a, amount)]
      IN  s \in Asset /\ Owing(a, s) <= 0
  <2> DEFINE s == [r EXCEPT !.tokens = @ - p]
  <2>1. k - p \in Nat
    BY <1>1, <1>4, <1>5, <1>6, <1>8
  <2>2. s \in Asset /\ s.tokens = k - p /\ s.cash = r.cash /\ s.feeCollected = r.feeCollected
    BY <1>2, <2>1 DEF Asset
  <2> HIDE DEF s
  <2>3. Owing(a, s) = f - (k - p)
    BY <2>2 DEF Owing, FromWad, f
  <2> QED
    BY <1>1, <1>4, <1>5, <1>6, <1>7, <2>2, <2>3 DEF s
<1>10. LET s == [r EXCEPT !.cash = @ + amount]
       IN  s \in Asset /\ Owing(a, s) <= 0
  <2> DEFINE s == [r EXCEPT !.cash = @ + amount]
  <2>1. /\ s \in Asset /\ s.tokens = k /\ s.cash = r.cash + amount
        /\ s.feeCollected = r.feeCollected
    BY <1>2 DEF Asset
  <2> HIDE DEF s
  <2>2. s.cash + s.feeCollected = x + amount
    BY <1>2, <2>1
  <2>3. Owing(a, s) = g - k
    BY <2>1, <2>2 DEF Owing, FromWad, g
  <2> QED
    BY <1>1, <1>5, <1>6, <2>1, <2>3 DEF s
<1> QED
  BY <1>9, <1>10

-----------------------------------------------------------------------------
(* The operations of the pool *)

\* What every step does to the assets.
AssetsKept ==
  /\ asset' \in [Assets -> Asset]
  /\ \A a \in Assets : Kept(a, asset[a], asset'[a], Overshared(asset[a]))

LEMMA KeptByOwing ==
  ASSUME NEW a \in Assets, NEW r \in Asset, NEW s \in Asset, NEW k \in Nat,
         Backed(r) => Backed(s) /\ RateKept(r, s),
         Owing(a, s) <= 0 \/ Owing(a, s) <= Owing(a, r) + k
  PROVE  Kept(a, r, s, k)
  BY ShortfallFromOwing DEF Kept

LEMMA KeptUnchanged ==
  ASSUME NEW a \in Assets, NEW r \in Asset, NEW k \in Nat
  PROVE  Kept(a, r, r, k)
<1>1. Grown(r, r)
  BY Fields DEF Grown
<1>2. Owing(a, r) <= Owing(a, r) + k
  BY OwingType
<1> QED
  BY <1>1, <1>2, GrownKeepsRate, KeptByOwing

LEMMA OversharedType ==
  ASSUME TypeOK
  PROVE  \A a \in Assets : asset[a] \in Asset /\ Overshared(asset[a]) \in Nat
  BY DEF TypeOK, Overshared

\* A step on one asset, or on two.
LEMMA OneAsset ==
  ASSUME TypeOK, NEW a \in Assets, NEW s, asset' = [asset EXCEPT ![a] = s],
         Kept(a, asset[a], s, Overshared(asset[a]))
  PROVE  AssetsKept
<1>1. s \in Asset
  BY DEF Kept
<1>2. asset' \in [Assets -> Asset]
  BY <1>1 DEF TypeOK
<1>3. \A c \in Assets : asset'[c] = IF c = a THEN s ELSE asset[c]
  BY DEF TypeOK
<1>4. \A c \in Assets : c # a => Kept(c, asset[c], asset[c], Overshared(asset[c]))
  BY OversharedType, KeptUnchanged
<1> QED
  BY <1>2, <1>3, <1>4 DEF AssetsKept

LEMMA TwoAssets ==
  ASSUME TypeOK, NEW a \in Assets, NEW b \in Assets, a # b, NEW s, NEW t,
         asset' = [asset EXCEPT ![a] = s, ![b] = t],
         Kept(a, asset[a], s, Overshared(asset[a])),
         Kept(b, asset[b], t, Overshared(asset[b]))
  PROVE  AssetsKept
<1>1. s \in Asset /\ t \in Asset
  BY DEF Kept
<1>2. asset' \in [Assets -> Asset]
  BY <1>1 DEF TypeOK
<1>3. \A c \in Assets : asset'[c] = IF c = b THEN t ELSE IF c = a THEN s ELSE asset[c]
  BY DEF TypeOK
<1>4. \A c \in Assets : Kept(c, asset[c], asset[c], Overshared(asset[c]))
  BY OversharedType, KeptUnchanged
<1> QED
  BY <1>2, <1>3, <1>4 DEF AssetsKept

LEMMA DepositKept ==
  ASSUME TypeOK, NEW a \in Assets, NEW amount \in Amounts, NEW slip \in Int, NEW mintSlip \in Int,
         Deposit(a, amount, slip, mintSlip)
  PROVE  AssetsKept
<1> DEFINE r == asset[a]
           r1 == [r EXCEPT !.tokens = @ + amount]
           s == Settled(a, r1, mintSlip)
           minted == DepositLiability(s, ToWad(a, amount), slip)
           t == [s EXCEPT !.cash = @ + ToWad(a, amount), !.liability = @ + minted,
                          !.totalSupply = @ + LpTokens(s, minted)]
<1>1. r \in Asset /\ config \in Config /\ amount \in Nat
  BY StablePoolAssumption DEF TypeOK
<1>2. /\ CanSettle(a, r1, mintSlip) /\ minted >= 0 /\ LpTokens(s, minted) # 0
      /\ asset' = [asset EXCEPT ![a] = t]
  BY DEF Deposit, Becomes
<1>3. /\ r1 \in Asset /\ r1.cash = r.cash /\ r1.feeCollected = r.feeCollected
      /\ r1.tokens = r.tokens + amount /\ r1.totalSupply = r.totalSupply
      /\ r1.liability = r.liability
  <2>1. r.tokens + amount \in Nat
    BY <1>1, Fields
  <2> QED
    BY <1>1, <2>1 DEF Asset
<1> HIDE DEF r, r1
<1>4. Owing(a, r1) = Owing(a, r) - amount /\ Overshared(r1) = Overshared(r)
  <2>1. FromWad(a, r.cash + r.feeCollected) \in Int
    BY <1>1, Fields, OwingType, Floor DEF FromWad
  <2> QED
    BY <1>1, <1>3, <2>1, Fields
    DEF Owing, Overshared, VeWomDividend, LpDividend
<1>5. s \in Asset /\ Grown(r1, s) /\ Owing(a, s) <= Owing(a, r1) + Overshared(r1)
  BY <1>1, <1>2, <1>3, SettledKept
<1> HIDE DEF s
<1>6. minted \in Nat
  <2>1. ToWad(a, amount) \in Int
    BY <1>1, OwingType DEF ToWad
  <2> QED
    BY <1>2, <2>1 DEF DepositLiability
<1> HIDE DEF minted
<1>7. /\ t \in Asset
      /\ Backed(s) => Backed(t) /\ RateKept(s, t)
      /\ Owing(a, t) = Owing(a, s) + amount
  BY <1>1, <1>2, <1>5, <1>6, DepositedKept
<1> HIDE DEF t
<1>8. Grown(r, s)
  BY <1>3, <1>5 DEF Grown
<1>9. Backed(r) => Backed(t) /\ RateKept(r, t)
  BY <1>1, <1>5, <1>7, <1>8, GrownKeeps
<1>10. Overshared(r) \in Nat
  BY DEF Overshared
<1>11. Owing(a, t) <= Owing(a, r) + Overshared(r)
  <2>1. Owing(a, t) \in Int /\ Owing(a, s) \in Int /\ Owing(a, r) \in Int
    BY <1>1, <1>5, <1>7, OwingType
  <2> QED
    BY <1>1, <1>4, <1>5, <1>7, <1>10, <2>1
<1>12. Kept(a, r, t, Overshared(r))
  BY <1>1, <1>7, <1>9, <1>10, <1>11, KeptByOwing
<1> QED
  BY <1>2, <1>12, OneAsset DEF r

\* The settled asset and what a withdrawal leaves of it.
LEMMA WithdrawalKept ==
  ASSUME TypeOK, NEW a \in Assets, NEW q \in 1 .. asset[a].totalSupply,
         NEW slip \in Int, NEW mintSlip \in Int, CanSettle(a, asset[a], mintSlip),
         CanWithdraw(Settled(a, asset[a], mintSlip), q, Gross(Settled(a, asset[a], mintSlip), q, slip))
  PROVE  LET r == Settled(a, asset[a], mintSlip)
             gross == Gross(r, q, slip)
             w == Withdrawn(r, q, gross)
         IN  /\ r \in Asset /\ Owing(a, r) <= Owing(a, asset[a]) + Overshared(asset[a])
             /\ w \in Asset /\ w.tokens = r.tokens
             /\ Backed(asset[a]) => Backed(w) /\ RateKept(asset[a], w)
             /\ NetAmount(gross) \in Nat
             /\ w.cash + w.feeCollected = r.cash + r.feeCollected - NetAmount(gross)
<1> DEFINE r == Settled(a, asset[a], mintSlip)
           gross == Gross(r, q, slip)
           w == Withdrawn(r, q, gross)
<1>1. asset[a] \in Asset /\ config \in Config
  BY DEF TypeOK
<1>2. r \in Asset /\ Grown(asset[a], r) /\ Owing(a, r) <= Owing(a, asset[a]) + Overshared(asset[a])
  BY <1>1, SettledKept
<1>3. q \in 1 .. r.totalSupply
  BY <1>2 DEF Grown
<1>4. CanWithdraw(r, q, gross)
  OBVIOUS
<1>5. gross \in Int
  <2>1. LiabilityToBurn(r, q) \in Nat
    BY <1>2, <1>3, BurntKeepsRate
  <2> QED
    BY <2>1 DEF Gross
<1> HIDE DEF r, gross, w
<1>6. /\ w \in Asset /\ w.tokens = r.tokens
      /\ Backed(r) => Backed(w) /\ RateKept(r, w)
      /\ NetAmount(gross) \in Nat
      /\ w.cash + w.feeCollected = r.cash + r.feeCollected - NetAmount(gross)
  BY <1>1, <1>2, <1>3, <1>4, <1>5, WithdrawnKept DEF w
<1>7. Backed(asset[a]) => Backed(w) /\ RateKept(asset[a], w)
  BY <1>1, <1>2, <1>6, GrownKeeps
<1> QED
  BY <1>2, <1>6, <1>7 DEF r, gross, w

LEMMA WithdrawKept ==
  ASSUME TypeOK, NEW a \in Assets, NEW q \in 1 .. asset[a].totalSupply,
         NEW slip \in Int, NEW mintSlip \in Int, Withdraw(a, q, slip, mintSlip)
  PROVE  AssetsKept
<1> DEFINE r == Settled(a, asset[a], mintSlip)
           gross == Gross(r, q, slip)
           w == Withdrawn(r, q, gross)
           t == [w EXCEPT !.tokens = @ - FromWad(a, NetAmount(gross))]
<1>1. /\ CanSettle(a, asset[a], mintSlip) /\ CanWithdraw(r, q, gross)
      /\ FromWad(a, NetAmount(gross)) <= r.tokens
      /\ asset' = [asset EXCEPT ![a] = t]
  BY DEF Withdraw, Becomes
<1>2. asset[a] \in Asset
  BY DEF TypeOK
<1>3. /\ r \in Asset /\ Owing(a, r) <= Owing(a, asset[a]) + Overshared(asset[a])
      /\ w \in Asset /\ w.tokens = r.tokens
      /\ Backed(asset[a]) => Backed(w) /\ RateKept(asset[a], w)
      /\ NetAmount(gross) \in Nat
      /\ w.cash + w.feeCollected = r.cash + r.feeCollected - NetAmount(gross)
  BY <1>1, WithdrawalKept
<1> HIDE DEF r, gross, w
<1>4. t \in Asset /\ Owing(a, t) <= Owing(a, r)
  BY <1>1, <1>3, PaidKept
<1>5. t.totalSupply = w.totalSupply /\ t.liability = w.liability
  BY <1>3 DEF Asset
<1> HIDE DEF t
<1>6. Backed(asset[a]) => Backed(t) /\ RateKept(asset[a], t)
  BY <1>3, <1>5 DEF Backed, RateKept
<1>7. Overshared(asset[a]) \in Nat
  BY DEF Overshared
<1>8. Owing(a, t) <= Owing(a, asset[a]) + Overshared(asset[a])
  BY <1>2, <1>3, <1>4, <1>7, OwingType
<1>9. Kept(a, asset[a], t, Overshared(asset[a]))
  BY <1>2, <1>4, <1>6, <1>7, <1>8, KeptByOwing
<1> QED
  BY <1>1, <1>9, OneAsset

\* What CanQuote checks of the to-asset.
LEMMA QuotedGift ==
  ASSUME TypeOK, NEW b \in Assets, NEW from, NEW amount, NEW ideal \in Int, NEW covFee \in CovFees \cup {0},
         CanQuote(from, asset[b], amount, ideal, covFee), CanGive(b, asset[b], ideal, covFee)
  PROVE  Kept(b, asset[b], Given(b, asset[b], ideal, covFee), Overshared(asset[b]))
<1> DEFINE t == Given(b, asset[b], ideal, covFee)
<1>1. config \in Config /\ asset[b] \in Asset /\ covFee \in Nat
  BY StablePoolAssumption DEF TypeOK
<1>2. ideal >= 0 /\ ideal <= asset[b].cash /\ ActualToAmount(ideal, covFee) >= 0
  BY DEF CanQuote
<1>3. t \in Asset /\ Grown(asset[b], t) /\ Owing(b, t) <= Owing(b, asset[b])
  BY <1>1, <1>2, GivenKept
<1> HIDE DEF t
<1>4. Overshared(asset[b]) \in Nat
  BY DEF Overshared
<1>5. Owing(b, t) <= Owing(b, asset[b]) + Overshared(asset[b])
  BY <1>1, <1>3, <1>4, OwingType
<1>6. Kept(b, asset[b], t, Overshared(asset[b]))
  BY <1>1, <1>3, <1>4, <1>5, GrownKeepsRate, KeptByOwing
<1> QED
  BY <1>6 DEF t

LEMMA SwapKept ==
  ASSUME TypeOK, NEW a \in Assets, NEW b \in Assets \ {a}, NEW amount \in Amounts,
         NEW slip \in Int, NEW covFee \in CovFees \cup {0}, Swap(a, b, amount, slip, covFee)
  PROVE  AssetsKept
<1> DEFINE r == asset[a]
           n == Scale[a]
           wad == ToWad(a, amount)
           ideal == wad + slip
           s == [r EXCEPT !.cash = @ + wad, !.tokens = @ + amount]
           t == Given(b, asset[b], ideal, covFee)
<1>1. r \in Asset /\ amount \in Nat /\ n \in Nat \ {0}
  BY OwingType, StablePoolAssumption DEF TypeOK
<1>2. wad = amount * n /\ wad \in Nat
  BY <1>1 DEF ToWad
<1>3. CanQuote(r, asset[b], wad, ideal, covFee) /\ CanGive(b, asset[b], ideal, covFee)
  BY DEF Swap
<1>4. asset' = [asset EXCEPT ![a] = s, ![b] = t]
  BY <1>1 DEF Swap, Becomes, TypeOK
<1>5. Kept(b, asset[b], t, Overshared(asset[b]))
  <2>1. ideal \in Int
    BY <1>2
  <2> HIDE DEF ideal, wad
  <2> QED
    BY <1>3, <2>1, QuotedGift
<1> HIDE DEF r, n, wad, t
<1>6. /\ s \in Asset /\ s.cash = r.cash + wad /\ s.tokens = r.tokens + amount
      /\ s.feeCollected = r.feeCollected /\ s.totalSupply = r.totalSupply
      /\ s.liability = r.liability
  <2>1. r.cash + wad \in Nat /\ r.tokens + amount \in Nat
    BY <1>1, <1>2, Fields
  <2> QED
    BY <1>1, <2>1 DEF Asset
<1> HIDE DEF s
<1>7. Owing(a, s) = Owing(a, r)
  <2> DEFINE x == r.cash + r.feeCollected
  <2>1. x \in Int /\ amount \in Int
    BY <1>1, Fields
  <2>2. s.cash + s.feeCollected = x + amount * n
    BY <1>1, <1>2, <1>6, Fields
  <2> HIDE DEF x
  <2>3. (x + amount * n) \div n = x \div n + amount
    BY <1>1, <2>1, FloorWhole
  <2>4. Owing(a, s) = (x + amount * n) \div n - s.tokens /\ Owing(a, r) = x \div n - r.tokens
    BY <2>2 DEF Owing, FromWad, n, x
  <2>5. x \div n \in Int /\ r.tokens \in Int
    BY <1>1, <2>1, Floor, Fields
  <2> QED
    BY <1>1, <1>6, <2>3, <2>4, <2>5
<1>8. Grown(r, s)
  BY <1>1, <1>6, Fields DEF Grown
<1>9. Overshared(r) \in Nat /\ Owing(a, r) \in Int
  BY <1>1, OwingType DEF Overshared
<1>10. Kept(a, r, s, Overshared(r))
  <2>1. Owing(a, s) <= Owing(a, r) + Overshared(r)
    BY <1>7, <1>9
  <2> QED
    BY <1>1, <1>6, <1>8, <1>9, <2>1, GrownKeepsRate, KeptByOwing
<1> QED
  BY <1>4, <1>5, <1>10, TwoAssets DEF r

LEMMA WithdrawFromOtherAssetKept ==
  ASSUME TypeOK, NEW a \in Assets, NEW b \in Assets \ {a}, NEW q \in 1 .. asset[a].totalSupply,
         NEW slip \in Int, NEW mintSlip \in Int, NEW swapSlip \in Int,
         NEW covFee \in CovFees \cup {0},
         WithdrawFromOtherAsset(a, b, q, slip, mintSlip, swapSlip, covFee)
  PROVE  AssetsKept
<1> DEFINE r == Settled(a, asset[a], mintSlip)
           gross == Gross(r, q, slip)
           w == Withdrawn(r, q, gross)
           net == NetAmount(gross)
           s == [w EXCEPT !.cash = @ + net]
           t == Given(b, asset[b], net + swapSlip, covFee)
<1>1. /\ CanSettle(a, asset[a], mintSlip) /\ CanWithdraw(r, q, gross)
      /\ CanQuote(w, asset[b], net, net + swapSlip, covFee)
      /\ CanGive(b, asset[b], net + swapSlip, covFee)
      /\ asset' = [asset EXCEPT ![a] = s, ![b] = t]
  BY DEF WithdrawFromOtherAsset, Becomes, TypeOK
<1>2. asset[a] \in Asset
  BY DEF TypeOK
<1>3. /\ r \in Asset /\ Owing(a, r) <= Owing(a, asset[a]) + Overshared(asset[a])
      /\ w \in Asset /\ w.tokens = r.tokens
      /\ Backed(asset[a]) => Backed(w) /\ RateKept(asset[a], w)
      /\ net \in Nat
      /\ w.cash + w.feeCollected = r.cash + r.feeCollected - net
  BY <1>1, WithdrawalKept
<1> HIDE DEF r, gross, w, net
<1>4. Kept(b, asset[b], t, Overshared(asset[b]))
  <2>1. net + swapSlip \in Int
    BY <1>3
  <2> QED
    BY <1>1, <2>1, QuotedGift
<1> HIDE DEF t
<1>5. /\ s \in Asset /\ s.cash = w.cash + net /\ s.feeCollected = w.feeCollected
      /\ s.tokens = r.tokens /\ s.totalSupply = w.totalSupply /\ s.liability = w.liability
  <2>1. w.cash + net \in Nat
    BY <1>3, Fields
  <2> QED
    BY <1>3, <2>1 DEF Asset
<1> HIDE DEF s
<1>6. Owing(a, s) = Owing(a, r)
  <2>1. s.cash + s.feeCollected = r.cash + r.feeCollected
    <3>1. /\ w.cash \in Nat /\ w.feeCollected \in Nat /\ r.cash \in Nat /\ r.feeCollected \in Nat
      BY <1>3, Fields
    <3> QED
      BY <1>3, <1>5, <3>1
  <2> QED
    BY <1>5, <2>1 DEF Owing
<1>7. Backed(asset[a]) => Backed(s) /\ RateKept(asset[a], s)
  BY <1>3, <1>5 DEF Backed, RateKept
<1>8. Overshared(asset[a]) \in Nat
  BY DEF Overshared
<1>9. Kept(a, asset[a], s, Overshared(asset[a]))
  BY <1>2, <1>3, <1>5, <1>6, <1>7, <1>8, KeptByOwing
<1> QED
  BY <1>1, <1>4, <1>9, TwoAssets

LEMMA MintFeeKept ==
  ASSUME TypeOK, NEW a \in Assets, NEW mintSlip \in Int, MintFee(a, mintSlip)
  PROVE  AssetsKept
<1> DEFINE s == FeeMinted(a, asset[a], mintSlip)
<1>1. CanMintFee(a, asset[a], mintSlip) /\ asset' = [asset EXCEPT ![a] = s]
  BY DEF MintFee, Becomes, TypeOK
<1>2. asset[a] \in Asset /\ config \in Config
  BY DEF TypeOK
<1>3. s \in Asset /\ Grown(asset[a], s) /\ Owing(a, s) <= Owing(a, asset[a]) + Overshared(asset[a])
  BY <1>1, <1>2, FeeMintedKept
<1> HIDE DEF s
<1>4. Kept(a, asset[a], s, Overshared(asset[a]))
  BY <1>2, <1>3, GrownKeepsRate, KeptByOwing, OversharedType
<1> QED
  BY <1>1, <1>4, OneAsset

LEMMA TipBucketKept ==
  ASSUME TypeOK, NEW a \in Assets, NEW amount \in TipAmounts,
         TransferTipBucket(a, amount) \/ FillPool(a, amount)
  PROVE  AssetsKept
<1> DEFINE s == [asset[a] EXCEPT !.tokens = @ - FromWad(a, amount)]
           t == [asset[a] EXCEPT !.cash = @ + amount]
<1>1. asset[a] \in Asset /\ amount \in Nat /\ amount <= TipBucketBalance(a)
  BY StablePoolAssumption DEF TypeOK, TransferTipBucket, FillPool
<1>2. \/ asset' = [asset EXCEPT ![a] = s]
      \/ asset' = [asset EXCEPT ![a] = t]
  BY DEF TransferTipBucket, FillPool, Becomes, TypeOK
<1>3. /\ s \in Asset /\ Owing(a, s) <= 0
      /\ t \in Asset /\ Owing(a, t) <= 0
  BY <1>1, TippedKept
<1>4. Grown(asset[a], s) /\ Grown(asset[a], t)
  <2>1. /\ s.totalSupply = asset[a].totalSupply /\ s.liability = asset[a].liability
        /\ t.totalSupply = asset[a].totalSupply /\ t.liability = asset[a].liability
    BY <1>1 DEF Asset
  <2> QED
    BY <1>1, <2>1, Fields DEF Grown
<1> HIDE DEF s, t
<1>5. /\ Kept(a, asset[a], s, Overshared(asset[a]))
      /\ Kept(a, asset[a], t, Overshared(asset[a]))
  BY <1>1, <1>3, <1>4, GrownKeepsRate, KeptByOwing, OversharedType
<1> QED
  BY <1>2, <1>5, OneAsset

LEMMA SkimKept ==
  ASSUME TypeOK, NEW a \in Assets, NEW mintSlip \in Int, Skim(a, mintSlip)
  PROVE  AssetsKept
<1> DEFINE r == FeeMinted(a, asset[a], mintSlip)
           s == [r EXCEPT !.tokens = FromWad(a, r.cash)]
<1>1. CanMintFee(a, asset[a], mintSlip) /\ asset' = [asset EXCEPT ![a] = s]
  BY DEF Skim, Becomes
<1>2. asset[a] \in Asset /\ config \in Config
  BY DEF TypeOK
<1>3. r \in Asset /\ Grown(asset[a], r)
  BY <1>1, <1>2, FeeMintedKept
<1>4. r.feeCollected = 0
  BY <1>2 DEF FeeMinted, Asset
<1> HIDE DEF r
<1>5. FromWad(a, r.cash) \in Nat
  <2> DEFINE n == Scale[a]
  <2>1. n \in Nat \ {0} /\ r.cash \in Int /\ n * 0 <= r.cash
    BY <1>3, OwingType, Fields
  <2> HIDE DEF n
  <2>2. r.cash \div n \in Int /\ 0 <= r.cash \div n
    BY <2>1, Floor, FloorIsGreatest
  <2> QED
    BY <2>2 DEF FromWad, n
<1>6. /\ s \in Asset /\ s.tokens = FromWad(a, r.cash) /\ s.cash = r.cash /\ s.feeCollected = 0
      /\ s.totalSupply = r.totalSupply /\ s.liability = r.liability
  BY <1>3, <1>4, <1>5 DEF Asset
<1> HIDE DEF s
<1>7. Owing(a, s) <= 0
  <2>1. s.cash + s.feeCollected = r.cash
    BY <1>3, <1>6, Fields
  <2> QED
    BY <1>5, <1>6, <2>1 DEF Owing
<1>8. Grown(asset[a], s)
  BY <1>3, <1>6 DEF Grown
<1>9. Kept(a, asset[a], s, Overshared(asset[a]))
  BY <1>2, <1>6, <1>7, <1>8, GrownKeepsRate, KeptByOwing, OversharedType
<1> QED
  BY <1>1, <1>9, OneAsset

LEMMA RebaseKept ==
  ASSUME TypeOK, NEW a \in Assets, NEW amount \in Amounts, Rebase(a, amount)
  PROVE  AssetsKept
<1> DEFINE r == asset[a]
           s == [r EXCEPT !.tokens = @ + amount]
<1>1. r \in Asset /\ amount \in Nat /\ asset' = [asset EXCEPT ![a] = s]
  BY StablePoolAssumption DEF TypeOK, Rebase, Becomes
<1>2. /\ s \in Asset /\ s.tokens = r.tokens + amount /\ s.cash = r.cash
      /\ s.feeCollected = r.feeCollected /\ s.totalSupply = r.totalSupply
      /\ s.liability = r.liability
  <2>1. r.tokens + amount \in Nat
    BY <1>1, Fields
  <2> QED
    BY <1>1, <2>1 DEF Asset
<1> HIDE DEF s
<1>3. Owing(a, s) <= Owing(a, r) + Overshared(r)
  <2>1. FromWad(a, r.cash + r.feeCollected) \in Int
    BY <1>1, Fields, OwingType, Floor DEF FromWad
  <2>2. Overshared(r) \in Nat
    BY DEF Overshared
  <2> QED
    BY <1>1, <1>2, <2>1, <2>2, Fields DEF Owing
<1>4. Grown(r, s)
  BY <1>1, <1>2, Fields DEF Grown
<1>5. Kept(a, r, s, Overshared(r))
  BY <1>1, <1>2, <1>3, <1>4, GrownKeepsRate, KeptByOwing, OversharedType
<1> QED
  BY <1>1, <1>5, OneAsset

LEMMA SetFeeKept ==
  ASSUME TypeOK, NEW split \in FeeSplits, NEW mintSlips \in [Assets -> Slips],
         SetFee(split, mintSlips)
  PROVE  AssetsKept /\ config' \in Config /\ changes' \in Nat
<1> DEFINE s(a) == FeeMinted(a, asset[a], mintSlips[a])
<1>1. /\ \A a \in config.listed : CanMintFee(a, asset[a], mintSlips[a])
      /\ asset' = [a \in Assets |-> IF a \in config.listed THEN s(a) ELSE asset[a]]
      /\ config' = [config EXCEPT !.split = split] /\ changes' = changes + 1
  BY DEF SetFee
<1>2. config \in Config /\ \A a \in Assets : asset[a] \in Asset /\ mintSlips[a] \in Int
  BY StablePoolAssumption DEF TypeOK
<1>3. \A a \in Assets : Kept(a, asset[a], asset[a], Overshared(asset[a]))
  BY OversharedType, KeptUnchanged
<1>4. ASSUME NEW a \in Assets, a \in config.listed
      PROVE  Kept(a, asset[a], s(a), Overshared(asset[a]))
  <2>1. /\ s(a) \in Asset /\ Grown(asset[a], s(a))
        /\ Owing(a, s(a)) <= Owing(a, asset[a]) + Overshared(asset[a])
    BY <1>1, <1>2, <1>4, FeeMintedKept
  <2> HIDE DEF s
  <2> QED
    BY <1>2, <2>1, GrownKeepsRate, KeptByOwing, OversharedType
<1> HIDE DEF s
<1>5. AssetsKept
  <2>1. \A a \in Assets : Kept(a, asset[a], asset'[a], Overshared(asset[a]))
    BY <1>1, <1>3, <1>4
  <2>2. asset' \in [Assets -> Asset]
    BY <1>1, <2>1 DEF Kept
  <2> QED
    BY <2>1, <2>2 DEF AssetsKept
<1>6. config' \in Config
  <2>1. split \in {f \in FeeSplit : f.lp + f.retention <= WAD}
    BY StablePoolAssumption
  <2> QED
    BY <1>1, <1>2, <2>1 DEF Config
<1> QED
  BY <1>1, <1>5, <1>6 DEF TypeOK

\* The settings that touch no asset.
LEMMA SettingsType ==
  ASSUME TypeOK,
         (\E a \in Assets : PauseAsset(a) \/ UnpauseAsset(a) \/ AddAsset(a) \/ RemoveAsset(a)) \/ Adjust
  PROVE  UNCHANGED asset /\ config' \in Config /\ changes' \in Nat
<1>1. config \in Config /\ changes \in Nat
  BY DEF TypeOK
<1>2. ASSUME NEW a \in Assets,
             PauseAsset(a) \/ UnpauseAsset(a) \/ AddAsset(a) \/ RemoveAsset(a)
      PROVE  UNCHANGED asset /\ config' \in Config /\ changes' \in Nat
  BY <1>1, <1>2 DEF PauseAsset, UnpauseAsset, AddAsset, RemoveAsset, Configure, Config
<1>3. ASSUME Adjust
      PROVE  UNCHANGED asset /\ config' \in Config /\ changes' \in Nat
  <2>1. /\ \A t \in Thresholds : t \in Nat
        /\ \A h \in HaircutRates \cup WithdrawalHaircutRates : h \in 0 .. WAD
    BY StablePoolAssumption
  <2>2. [config EXCEPT !.paused = ~@] \in Config
    BY <1>1 DEF Config
  <2>3. [config EXCEPT !.feeTo = TRUE] \in Config
    BY <1>1 DEF Config
  <2>4. \A t \in Thresholds : [config EXCEPT !.mintFeeThreshold = t] \in Config
    BY <1>1, <2>1 DEF Config
  <2>5. \A h \in HaircutRates : [config EXCEPT !.haircutRate = h] \in Config
    BY <1>1, <2>1 DEF Config
  <2>6. \A h \in WithdrawalHaircutRates : [config EXCEPT !.withdrawalHaircutRate = h] \in Config
    BY <1>1, <2>1 DEF Config
  <2>7. UNCHANGED asset /\ \E new \in Config : Configure(new)
    BY <1>3, <2>2, <2>3, <2>4, <2>5, <2>6, Zenon DEF Adjust
  <2> QED
    BY <1>1, <2>7 DEF Configure
<1> QED
  BY <1>2, <1>3

-----------------------------------------------------------------------------
(* The theorems *)

\* The inductive invariant.
IInv == TypeOK /\ LpTokensBacked

LEMMA UseKept ==
  ASSUME TypeOK, NEW a \in Assets, Use(a)
  PROVE  AssetsKept /\ UNCHANGED <<config, changes>>
<1>1. /\ \A slip \in Slips \cup SwapSlips : slip \in Int
      /\ \A slip \in MintSlips(a) : slip \in Int
  BY StablePoolAssumption DEF MintSlips
<1>2. CASE \E amount \in Amounts, slip \in Slips, mintSlip \in MintSlips(a) :
             Deposit(a, amount, slip, mintSlip)
  <2>1. PICK amount \in Amounts, slip \in Slips, mintSlip \in MintSlips(a) :
           Deposit(a, amount, slip, mintSlip)
    BY <1>2
  <2>2. AssetsKept
    BY <1>1, <2>1, DepositKept
  <2>3. UNCHANGED <<config, changes>>
    BY <2>1 DEF Deposit, Becomes
  <2> QED
    BY <2>2, <2>3
<1>3. CASE \E q \in 1 .. asset[a].totalSupply, slip \in Slips, mintSlip \in MintSlips(a) :
             Withdraw(a, q, slip, mintSlip)
  <2>1. PICK q \in 1 .. asset[a].totalSupply, slip \in Slips, mintSlip \in MintSlips(a) :
           Withdraw(a, q, slip, mintSlip)
    BY <1>3
  <2>2. AssetsKept
    BY <1>1, <2>1, WithdrawKept
  <2>3. UNCHANGED <<config, changes>>
    BY <2>1 DEF Withdraw, Becomes
  <2> QED
    BY <2>2, <2>3
<1>4. CASE \E q \in 1 .. asset[a].totalSupply, slip \in Slips, mintSlip \in MintSlips(a),
              b \in Assets \ {a}, swapSlip \in SwapSlips, covFee \in CovFees \cup {0} :
             WithdrawFromOtherAsset(a, b, q, slip, mintSlip, swapSlip, covFee)
  <2>1. PICK q \in 1 .. asset[a].totalSupply, slip \in Slips, mintSlip \in MintSlips(a),
                b \in Assets \ {a}, swapSlip \in SwapSlips, covFee \in CovFees \cup {0} :
           WithdrawFromOtherAsset(a, b, q, slip, mintSlip, swapSlip, covFee)
    BY <1>4
  <2>2. AssetsKept
    BY <1>1, <2>1, WithdrawFromOtherAssetKept
  <2>3. UNCHANGED <<config, changes>>
    BY <2>1 DEF WithdrawFromOtherAsset, Becomes
  <2> QED
    BY <2>2, <2>3
<1>5. CASE \E b \in Assets \ {a}, amount \in Amounts, slip \in SwapSlips, covFee \in CovFees \cup {0} :
             Swap(a, b, amount, slip, covFee)
  <2>1. PICK b \in Assets \ {a}, amount \in Amounts, slip \in SwapSlips, covFee \in CovFees \cup {0} :
           Swap(a, b, amount, slip, covFee)
    BY <1>5
  <2>2. AssetsKept
    BY <1>1, <2>1, SwapKept
  <2>3. UNCHANGED <<config, changes>>
    BY <2>1 DEF Swap, Becomes
  <2> QED
    BY <2>2, <2>3
<1>6. CASE \E mintSlip \in MintSlips(a) : MintFee(a, mintSlip)
  BY <1>1, <1>6, MintFeeKept DEF MintFee, Becomes
<1>7. CASE \E mintSlip \in MintSlips(a) : Skim(a, mintSlip)
  BY <1>1, <1>7, SkimKept DEF Skim, Becomes
<1>8. CASE \E amount \in Amounts : Rebase(a, amount)
  BY <1>8, RebaseKept DEF Rebase, Becomes
<1>9. CASE \E amount \in TipAmounts : TransferTipBucket(a, amount) \/ FillPool(a, amount)
  BY <1>9, TipBucketKept DEF TransferTipBucket, FillPool, Becomes
<1> QED
  BY <1>2, <1>3, <1>4, <1>5, <1>6, <1>7, <1>8, <1>9 DEF Use

\* Every step, also one that changes nothing.
LEMMA StepKeeps ==
  ASSUME TypeOK, [Next]_vars
  PROVE  TypeOK' /\ AssetsKept
<1>1. ASSUME NEW a \in Assets, Use(a) PROVE TypeOK' /\ AssetsKept
  BY <1>1, UseKept DEF TypeOK, AssetsKept
<1>2. ASSUME NEW split \in FeeSplits, NEW mintSlips \in [Assets -> Slips], SetFee(split, mintSlips)
      PROVE  TypeOK' /\ AssetsKept
  BY <1>2, SetFeeKept DEF TypeOK, AssetsKept
<1>3. UNCHANGED asset => AssetsKept
  BY OversharedType, KeptUnchanged DEF AssetsKept, TypeOK
<1>4. ASSUME (\E a \in Assets : PauseAsset(a) \/ UnpauseAsset(a) \/ AddAsset(a) \/ RemoveAsset(a)) \/ Adjust
      PROVE  TypeOK' /\ AssetsKept
  BY <1>3, <1>4, SettingsType DEF TypeOK
<1>5. CASE UNCHANGED vars
  BY <1>3, <1>5 DEF TypeOK, vars
<1> QED
  BY <1>1, <1>2, <1>4, <1>5 DEF Next, Manage

LEMMA InitInv == Init => IInv
<1> SUFFICES ASSUME Init PROVE IInv
  OBVIOUS
<1>1. \A a \in Assets : Deposited * Scale[a] \in Nat
  BY StablePoolAssumption
<1>2. asset \in [Assets -> Asset]
  BY <1>1, StablePoolAssumption DEF Init, Asset
<1>3. config \in Config
  <2>1. [lp |-> WAD, retention |-> 0] \in {f \in FeeSplit : f.lp + f.retention <= WAD}
    BY StablePoolAssumption DEF FeeSplit
  <2>2. PICK split \in InitialFeeSplits \cup {[lp |-> WAD, retention |-> 0]} :
           config = [paused |-> FALSE, assetPaused |-> {}, listed |-> Assets,
                     split |-> split, feeTo |-> split \in InitialFeeSplits,
                     mintFeeThreshold |-> 0, haircutRate |-> InitialHaircutRate,
                     withdrawalHaircutRate |-> 0]
    BY DEF Init
  <2>3. split \in {f \in FeeSplit : f.lp + f.retention <= WAD}
    BY <2>1, StablePoolAssumption
  <2>4. 0 \in 0 .. WAD /\ InitialHaircutRate \in 0 .. WAD /\ (split \in InitialFeeSplits) \in BOOLEAN
    BY StablePoolAssumption
  <2> QED
    BY <2>2, <2>3, <2>4 DEF Config
<1>4. LpTokensBacked
  BY DEF Init, LpTokensBacked
<1> QED
  BY <1>2, <1>3, <1>4 DEF IInv, TypeOK, Init

\* LP tokens stay backed in every asset, and the rate is kept.
LEMMA StepInv ==
  ASSUME IInv, [Next]_vars
  PROVE  /\ IInv'
         /\ \A a \in Assets : RateKept(asset[a], asset'[a])
<1>1. TypeOK' /\ AssetsKept
  BY StepKeeps DEF IInv
<1>2. \A a \in Assets : Backed(asset[a])
  BY DEF IInv, LpTokensBacked, Backed
<1>3. \A a \in Assets : Backed(asset'[a]) /\ RateKept(asset[a], asset'[a])
  BY <1>1, <1>2 DEF AssetsKept, Kept
<1>4. LpTokensBacked'
  BY <1>3 DEF LpTokensBacked, Backed
<1> QED
  BY <1>1, <1>3, <1>4 DEF IInv

(* No call takes more tokens, cash, fees or LP tokens than there are: every *)
(* amount stays a natural number. (PoolV4, CoreV4, Asset)                   *)
THEOREM TypeCorrect == Spec => []TypeOK
<1>1. IInv /\ [Next]_vars => IInv'
  BY StepInv
<1>2. IInv => TypeOK
  BY DEF IInv
<1> QED
  BY <1>1, <1>2, InitInv, PTL DEF Spec

(* LP tokens always have a liability behind them. (_quoteDepositLiquidity)  *)
THEOREM AlwaysBacked == Spec => []LpTokensBacked
<1>1. IInv /\ [Next]_vars => IInv'
  BY StepInv
<1>2. IInv => LpTokensBacked
  BY DEF IInv
<1> QED
  BY <1>1, <1>2, InitInv, PTL DEF Spec

(* What an asset is short of its cash and fees grows only by the unit that  *)
(* rounding two dividends up costs. (mintFee, skim, tipBucketBalance)       *)
THEOREM NothingTaken == Spec => ShortOnlyByRounding
<1>1. TypeOK /\ [Next]_vars =>
        [\A a \in Assets : Shortfall(a, asset'[a]) <= Shortfall(a, asset[a]) + Overshared(asset[a])]_vars
  BY StepKeeps DEF AssetsKept, Kept
<1> QED
  BY <1>1, TypeCorrect, PTL DEF Spec, ShortOnlyByRounding

(* The exchange rate of LP tokens never falls. (PoolV4.exchangeRate)        *)
THEOREM RateNeverFalls == Spec => ExchangeRateKept
<1>1. IInv /\ [Next]_vars => IInv'
  BY StepInv
<1>2. IInv /\ [Next]_vars => [\A a \in Assets : RateKept(asset[a], asset'[a])]_vars
  BY StepInv
<1> QED
  BY <1>1, <1>2, InitInv, PTL DEF Spec, ExchangeRateKept
=============================================================================
